-------------------------- MODULE LlmConfigurations --------------------------
(***************************************************************************)
(* The configurations of language models (app.llm_configurations), their   *)
(* credentials (app.secrets) and the calls that use them: backend/app/     *)
(* modules/parameters/router.py, and create_proposal in modules/copilot/   *)
(* router.py for the use.                                                  *)
(*                                                                         *)
(* A handler reads rows without locking them and commits the columns that  *)
(* differ from its copy.  That one configuration is active is the work of  *)
(* whoever activates one; no constraint of the table asks for it.          *)
(***************************************************************************)
EXTENDS Naturals, FiniteSets

CONSTANTS
    Configurations,   \* identities the sequence of llm_configurations can hand out
    Secrets,          \* identities of rows of app.secrets
    Providers,        \* kinds of provider
    Local,            \* the kind that needs no credential (ollama-local)
    Targets,          \* what a configuration can name: provider, URL and model
    ProviderOf,       \* Targets -> Providers
    OneAtATime,       \* whether people administer configurations one after the other
    Requests,         \* HTTP calls that can be in flight at once
    NoConfiguration,  \* stands for "no configuration"
    NoSecret,         \* stands for "no credential registered"
    NoProvider        \* stands for "no row" and "no key"

ASSUME TargetsAssumption == Targets # {}
ASSUME ProviderOfAssumption == ProviderOf \in [Targets -> Providers]
ASSUME OneAtATimeAssumption == OneAtATime \in BOOLEAN
ASSUME NoConfigurationAssumption == NoConfiguration \notin Configurations
ASSUME NoSecretAssumption == NoSecret \notin Secrets
ASSUME NoProviderAssumption == NoProvider \notin Providers

VARIABLES
    configuration,  \* Configurations -> [exists, target, secret, active, test]
    secret,         \* Secrets -> the provider its key was typed for, if stored
    passed,         \* Configurations -> BOOLEAN: target and key passed a test
    request         \* Requests -> [step, configuration, row, write, others, key]

vars == <<configuration, secret, passed, request>>

-----------------------------------------------------------------------------
(* Records *)

TestStatuses == {"none", "ok", "error"}

Rows == [exists : BOOLEAN, target : Targets, secret : Secrets \cup {NoSecret},
         active : BOOLEAN, test : TestStatuses]

AdministrationSteps == {"committing", "deleting", "saving", "testing"}
GenerationSteps == {"ready", "confirmed", "calling"}
Steps == {"idle"} \cup AdministrationSteps \cup GenerationSteps

NoRow == [exists |-> FALSE, target |-> CHOOSE t \in Targets : TRUE,
          secret |-> NoSecret, active |-> FALSE, test |-> "none"]

\* "row": the copy that was read; "write": what it becomes; "others": the rows
\* that stop being active with it; "key": for whom the key in use was typed.
IdleRequest == [step |-> "idle", configuration |-> NoConfiguration, row |-> NoRow,
                write |-> NoRow, others |-> {}, key |-> NoProvider]

Init ==
    /\ configuration = [c \in Configurations |-> NoRow]
    /\ secret = [s \in Secrets |-> NoProvider]
    /\ passed = [c \in Configurations |-> FALSE]
    /\ request = [r \in Requests |-> IdleRequest]

IsLocal(t) == ProviderOf[t] = Local

\* An identity that no row and no call knows.
Fresh(s) ==
    /\ secret[s] = NoProvider
    /\ \A c \in Configurations : configuration[c].secret # s
    /\ \A r \in Requests : s \notin {request[r].row.secret, request[r].write.secret}

ActiveOnes == {c \in Configurations : configuration[c].active}

\* The key of a row: none for a local model or without a stored secret.
KeyOf(row) == IF IsLocal(row.target) \/ row.secret = NoSecret
              THEN NoProvider ELSE secret[row.secret]

Finish(r) == request' = [request EXCEPT ![r] = IdleRequest]

\* A person administers configuration c with request r, which will make the row
\* it reads "write" and the "others" inactive.
Administer(r, c, step, write, others) ==
    /\ OneAtATime => \A q \in Requests : request[q].step \notin AdministrationSteps
    /\ request[r].step = "idle"
    /\ request' = [request EXCEPT ![r] = [IdleRequest EXCEPT
                      !.step = step, !.configuration = c, !.row = configuration[c],
                      !.write = write, !.others = others, !.key = KeyOf(configuration[c])]]
    /\ UNCHANGED <<configuration, secret, passed>>

-----------------------------------------------------------------------------
(* Administration *)

\* POST /llm-configurations: a cloud model needs a credential to be active, and
\* a new configuration has none.
CreateLlmConfiguration(r, c, t, active) ==
    /\ ~configuration[c].exists
    /\ \A q \in Requests : request[q].configuration # c
    /\ active => IsLocal(t)
    /\ Administer(r, c, "committing",
                  [NoRow EXCEPT !.exists = TRUE, !.target = t, !.active = active],
                  IF active THEN ActiveOnes ELSE {})

\* Mutant: another provider keeps the credential.
AppliedKeepingSecret(row, t, active) ==
    [row EXCEPT !.target = t, !.active = active,
                !.test = IF t = row.target THEN @ ELSE "none"]

\* The row after an edit: another provider drops the credential, and any other
\* target the result of the last test.
Applied(row, t, active) ==
    [row EXCEPT !.target = t,
                !.secret = IF ProviderOf[t] = ProviderOf[row.target] THEN @ ELSE NoSecret,
                !.active = active,
                !.test = IF t = row.target THEN @ ELSE "none"]

\* Mutant: the credential is asked for before another provider drops it.
UpdateCheckingFirst(r, c, t, active) ==
    LET row == configuration[c]
        write == Applied(row, t, active)
    IN  /\ row.exists
        /\ row.active => ProviderOf[t] = ProviderOf[row.target]
        /\ active => IsLocal(t) \/ row.secret # NoSecret
        /\ Administer(r, c, "committing", write, IF active THEN ActiveOnes \ {c} ELSE {})

\* PUT /llm-configurations/{id}: an active one keeps its provider, and to be
\* active a cloud model needs its credential.
UpdateLlmConfiguration(r, c, t, active) ==
    LET row == configuration[c]
        write == Applied(row, t, active)
    IN  /\ row.exists
        /\ row.active => ProviderOf[t] = ProviderOf[row.target]
        /\ active => IsLocal(t) \/ write.secret # NoSecret
        /\ Administer(r, c, "committing", write, IF active THEN ActiveOnes \ {c} ELSE {})

\* The UPDATE names the columns that differ from the copy.
Merge(now, row, write) ==
    IF row.exists
    THEN [f \in DOMAIN now |-> IF write[f] = row[f] THEN now[f] ELSE write[f]]
    ELSE write

\* The transaction fails when a row it has to update is gone.
RowsAreThere(r) ==
    /\ \A d \in request[r].others : configuration[d].exists
    /\ LET q == request[r] IN
       q.row.exists /\ q.write # q.row => configuration[q.configuration].exists

\* Mutant: the active configurations are left as they are.
CommitAlone(r) ==
    LET c == request[r].configuration
        row == request[r].row
        write == request[r].write
    IN  /\ request[r].step = "committing"
        /\ RowsAreThere(r)
        /\ configuration' = [configuration EXCEPT ![c] = Merge(@, row, write)]
        /\ secret' = [s \in Secrets |-> IF s = row.secret /\ write.secret # s
                                        THEN NoProvider ELSE secret[s]]
        /\ passed' = [passed EXCEPT ![c] = @ /\ row.target = write.target]
        /\ Finish(r)

\* The end of a creation or an edit: the row, the others, and the credential
\* that the row lets go.
Commit(r) ==
    LET c == request[r].configuration
        row == request[r].row
        write == request[r].write
    IN  /\ request[r].step = "committing"
        /\ RowsAreThere(r)
        /\ configuration' = [d \in Configurations |->
               IF d = c THEN Merge(configuration[c], row, write)
               ELSE [configuration[d] EXCEPT !.active = @ /\ d \notin request[r].others]]
        /\ secret' = [s \in Secrets |-> IF s = row.secret /\ write.secret # s
                                        THEN NoProvider ELSE secret[s]]
        /\ passed' = [passed EXCEPT ![c] = @ /\ row.target = write.target]
        /\ Finish(r)

\* DELETE /llm-configurations/{id}: only an inactive one.
DeleteLlmConfiguration(r, c) ==
    /\ configuration[c].exists
    /\ ~configuration[c].active
    /\ Administer(r, c, "deleting", NoRow, {})

\* Mutant: the credential of a deleted configuration stays.
CommitDeleteKeepingSecret(r) ==
    LET c == request[r].configuration IN
    /\ request[r].step = "deleting"
    /\ configuration' = [configuration EXCEPT ![c] = NoRow]
    /\ passed' = [passed EXCEPT ![c] = FALSE]
    /\ Finish(r)
    /\ UNCHANGED secret

\* Its credential goes with it.
CommitDelete(r) ==
    LET c == request[r].configuration IN
    /\ request[r].step = "deleting"
    /\ configuration' = [configuration EXCEPT ![c] = NoRow]
    /\ secret' = [s \in Secrets |-> IF s = request[r].row.secret THEN NoProvider ELSE secret[s]]
    /\ passed' = [passed EXCEPT ![c] = FALSE]
    /\ Finish(r)

\* PUT /llm-configurations/{id}/secret: the stored credential is replaced, or a
\* first one registered, and the last test no longer counts.
SaveLlmCredential(r, c, s) ==
    LET row == configuration[c] IN
    /\ row.exists
    /\ ~IsLocal(row.target)
    /\ IF row.secret = NoSecret THEN Fresh(s) ELSE s = row.secret
    /\ Administer(r, c, "saving", [row EXCEPT !.secret = s, !.test = "none"], {})

\* Mutant: the result of the last test is kept for the new credential.
CommitCredentialKeepingTest(r) ==
    LET c == request[r].configuration
        row == request[r].row
        s == request[r].write.secret
    IN  /\ request[r].step = "saving"
        /\ RowsAreThere(r)
        /\ configuration' = [configuration EXCEPT ![c] = [@ EXCEPT !.secret = s]]
        /\ secret' = [secret EXCEPT ![s] = ProviderOf[row.target]]
        /\ passed' = [passed EXCEPT ![c] = FALSE]
        /\ Finish(r)

\* The key was typed for the provider that the handler read.
CommitCredential(r) ==
    LET c == request[r].configuration
        row == request[r].row
        s == request[r].write.secret
    IN  /\ request[r].step = "saving"
        /\ RowsAreThere(r)
        /\ row.secret = s => secret[s] # NoProvider
        /\ configuration' = [configuration EXCEPT ![c] = Merge(@, row, request[r].write)]
        /\ secret' = [secret EXCEPT ![s] = ProviderOf[row.target]]
        /\ passed' = [passed EXCEPT ![c] = FALSE]
        /\ Finish(r)

\* POST /llm-configurations/{id}/test: the copy and its key are tried.
VerifyLlmConfiguration(r, c) ==
    /\ configuration[c].exists
    /\ Administer(r, c, "testing", configuration[c], {})

\* Mutant: the failure is stored under a name that no reader compares with.
FinishTestAsFailed(r) ==
    LET c == request[r].configuration
        row == request[r].row
    IN  /\ request[r].step = "testing"
        /\ configuration[c].exists
        /\ configuration' = [configuration EXCEPT ![c] =
                                 Merge(@, row, [row EXCEPT !.test = "failed"])]
        /\ Finish(r)
        /\ UNCHANGED <<secret, passed>>

\* A cloud model without a key fails; any other may answer or not.
FinishTest(r) ==
    LET c == request[r].configuration
        row == request[r].row
    IN  /\ request[r].step = "testing"
        /\ configuration[c].exists
        /\ \E result \in {"ok", "error"} :
              /\ result = "ok" => IsLocal(row.target) \/ request[r].key # NoProvider
              /\ configuration' = [configuration EXCEPT ![c] =
                                      Merge(@, row, [row EXCEPT !.test = result])]
              /\ passed' = [passed EXCEPT ![c] =
                     \/ @
                     \/ /\ result = "ok"
                        /\ configuration[c].target = row.target
                        /\ configuration[c].secret = row.secret]
        /\ Finish(r)
        /\ UNCHANGED secret

-----------------------------------------------------------------------------
(* Use: create_proposal *)

\* POST /copilot/proposals: an active configuration has passed its test (_readiness).
CheckReadiness(r, c) ==
    /\ request[r].step = "idle"
    /\ configuration[c].active
    /\ configuration[c].test = "ok"
    /\ request' = [request EXCEPT ![r] = [IdleRequest EXCEPT
                      !.step = "ready", !.configuration = c, !.row = configuration[c]]]
    /\ UNCHANGED <<configuration, secret, passed>>

\* An active configuration is read again, for the consent that the person gave to
\* its target; a row that the session has already is not refreshed.
ConfirmDestination(r, c) ==
    /\ request[r].step = "ready"
    /\ configuration[c].active
    /\ request' = [request EXCEPT ![r] = [request[r] EXCEPT
                      !.step = "confirmed", !.configuration = c,
                      !.row = IF c = request[r].configuration THEN request[r].row
                              ELSE configuration[c]]]
    /\ UNCHANGED <<configuration, secret, passed>>

\* The version is inserted; then the key of the copy is read, and the provider called.
ReadCredential(r) ==
    /\ request[r].step = "confirmed"
    /\ request' = [request EXCEPT ![r].step = "calling", ![r].key = KeyOf(request[r].row)]
    /\ UNCHANGED <<configuration, secret, passed>>

-----------------------------------------------------------------------------
(* A call ends without having changed anything: another destination, nothing
   active, the provider has answered, a transaction that fails, a stop. *)

EndRequest(r) ==
    /\ request[r].step # "idle"
    /\ Finish(r)
    /\ UNCHANGED <<configuration, secret, passed>>

Next ==
    \/ \E r \in Requests, c \in Configurations :
          \/ \E t \in Targets, active \in BOOLEAN :
                \/ CreateLlmConfiguration(r, c, t, active)
                \/ UpdateLlmConfiguration(r, c, t, active)
          \/ DeleteLlmConfiguration(r, c)
          \/ \E s \in Secrets : SaveLlmCredential(r, c, s)
          \/ VerifyLlmConfiguration(r, c)
          \/ CheckReadiness(r, c)
          \/ ConfirmDestination(r, c)
    \/ \E r \in Requests :
          \/ Commit(r)
          \/ CommitDelete(r)
          \/ CommitCredential(r)
          \/ FinishTest(r)
          \/ ReadCredential(r)
          \/ EndRequest(r)

Spec == Init /\ [][Next]_vars

-----------------------------------------------------------------------------
(* Properties *)

TypeOK ==
    /\ configuration \in [Configurations -> Rows]
    /\ secret \in [Secrets -> Providers \cup {NoProvider}]
    /\ passed \in [Configurations -> BOOLEAN]
    /\ request \in [Requests ->
           [step : Steps, configuration : Configurations \cup {NoConfiguration},
            row : Rows, write : Rows, others : SUBSET Configurations,
            key : Providers \cup {NoProvider}]]

\* While people administer one at a time, at most one configuration is active, and it
\* can call its provider: no sequence of creations, edits and deletions leaves two
\* active, or a cloud model active without a credential (_apply_llm_configuration).
ActiveIsUsable ==
    /\ Cardinality(ActiveOnes) <= 1
    /\ \A c \in ActiveOnes : \/ IsLocal(configuration[c].target)
                             \/ configuration[c].secret \in Secrets

\* Every stored credential belongs to exactly one configuration, and every
\* configuration that names one finds it: none is left behind when providers
\* change or configurations are deleted.
NoOrphanSecret ==
    \A s \in Secrets :
        Cardinality({c \in Configurations : configuration[c].secret = s})
            = IF secret[s] = NoProvider THEN 0 ELSE 1

\* "ok" speaks of the target and the key that the configuration has now.
TestIsOfThePresentTarget ==
    \A c \in Configurations : configuration[c].test = "ok" => passed[c]

\* A key is only ever sent to the provider it was typed for: not even a proposal
\* that has read its configuration before an edit, and reads the credential
\* after it, takes the key of one provider to another.
KeysGoToTheirProvider ==
    \A r \in Requests :
        request[r].step \in {"testing", "calling"} =>
            request[r].key \in {NoProvider, ProviderOf[request[r].row.target]}
=============================================================================
