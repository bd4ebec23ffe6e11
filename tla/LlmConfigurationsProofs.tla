----------------------- MODULE LlmConfigurationsProofs -----------------------
(***************************************************************************)
(* Proofs about LlmConfigurations, for any configurations, credentials,    *)
(* providers, targets and calls.                                           *)
(*                                                                         *)
(* The argument: while people administer configurations one after the      *)
(* other, whoever has the turn holds the rows as they are, so that each    *)
(* commit can be judged by what its handler checked.  Proposals take no    *)
(* turns: theirs may be old copies.  What keeps an old copy harmless is    *)
(* that the identity of a credential is never given to another one, so     *)
(* that it finds the key it knew, a newer one of the same provider, or     *)
(* nothing.                                                                *)
(***************************************************************************)
EXTENDS LlmConfigurations, FiniteSetTheorems, TLAPS

RequestRecords ==
    [step : Steps, configuration : Configurations \cup {NoConfiguration},
     row : Rows, write : Rows, others : SUBSET Configurations,
     key : Providers \cup {NoProvider}]

-----------------------------------------------------------------------------
(* Types, whoever has the turn *)

LEMMA NoRowIsTyped ==
  /\ NoRow \in Rows
  /\ NoRow.secret = NoSecret
  /\ NoRow.test = "none"
  /\ ~ NoRow.exists /\ ~ NoRow.active
<1>1. (CHOOSE t \in Targets : TRUE) \in Targets
  BY TargetsAssumption
<1>2. QED
  BY <1>1 DEF NoRow, Rows, TestStatuses

LEMMA IdleIsTyped == IdleRequest \in RequestRecords
  BY NoRowIsTyped DEF IdleRequest, RequestRecords, Steps

LEMMA MergeIsARow ==
  ASSUME NEW now \in Rows, NEW row \in Rows, NEW write \in Rows
  PROVE  Merge(now, row, write) \in Rows
  BY DEF Merge, Rows

\* A call whose copy is the row writes what it wanted, an INSERT does in any case.
LEMMA MergeOfTheRow ==
  ASSUME NEW row \in Rows, NEW write \in Rows
  PROVE  Merge(row, row, write) = write
  BY DEF Merge, Rows

\* The rows that the handlers make from the ones they read.
LEMMA CreatedRow ==
  ASSUME NEW t \in Targets, NEW active \in BOOLEAN
  PROVE  LET new == [NoRow EXCEPT !.exists = TRUE, !.target = t, !.active = active]
         IN  /\ new \in Rows
             /\ new.exists /\ (new.active <=> active)
             /\ new.target = t /\ new.secret = NoSecret /\ new.test = "none"
  BY NoRowIsTyped DEF Rows

LEMMA EditedRow ==
  ASSUME NEW row \in Rows, NEW t \in Targets, NEW active \in BOOLEAN
  PROVE  LET new == Applied(row, t, active)
         IN  /\ new \in Rows
             /\ (new.exists <=> row.exists) /\ (new.active <=> active)
             /\ new.target = t
             /\ new.secret = IF ProviderOf[t] = ProviderOf[row.target]
                             THEN row.secret ELSE NoSecret
             /\ new.test = IF t = row.target THEN row.test ELSE "none"
  BY DEF Applied, Rows, TestStatuses

LEMMA KeyedRow ==
  ASSUME NEW row \in Rows, NEW s \in Secrets
  PROVE  LET new == [row EXCEPT !.secret = s, !.test = "none"]
         IN  /\ new \in Rows
             /\ (new.exists <=> row.exists) /\ (new.active <=> row.active)
             /\ new.target = row.target /\ new.secret = s /\ new.test = "none"
  BY DEF Rows, TestStatuses

LEMMA TestedRow ==
  ASSUME NEW row \in Rows, NEW result \in {"ok", "error"}
  PROVE  LET new == [row EXCEPT !.test = result]
         IN  /\ new \in Rows
             /\ (new.exists <=> row.exists) /\ (new.active <=> row.active)
             /\ new.target = row.target /\ new.secret = row.secret /\ new.test = result
  BY DEF Rows, TestStatuses

LEMMA RestingRow ==
  ASSUME NEW row \in Rows, NEW keep \in BOOLEAN
  PROVE  LET new == [row EXCEPT !.active = @ /\ keep]
         IN  /\ new \in Rows
             /\ (new.exists <=> row.exists) /\ (new.active <=> row.active /\ keep)
             /\ new.target = row.target /\ new.secret = row.secret /\ new.test = row.test
<1>1. (row.active /\ keep) \in BOOLEAN
  OBVIOUS
<1>2. \A b \in BOOLEAN :
          LET new == [row EXCEPT !.active = b]
          IN  /\ new \in Rows
              /\ (new.exists <=> row.exists) /\ (new.active <=> b)
              /\ new.target = row.target /\ new.secret = row.secret /\ new.test = row.test
  BY DEF Rows
<1>3. QED
  BY <1>1, <1>2

\* The key of a row is of some provider, or there is none.
LEMMA KeyIsTyped ==
  ASSUME TypeOK, NEW row \in Rows
  PROVE  KeyOf(row) \in Providers \cup {NoProvider}
  BY DEF KeyOf, TypeOK, Rows

LEMMA InitIsTyped == Init => TypeOK
  BY NoRowIsTyped, IdleIsTyped DEF Init, TypeOK, RequestRecords

LEMMA CallIsTyped ==
  ASSUME TypeOK, NEW r \in Requests, NEW call \in RequestRecords,
         request' = [request EXCEPT ![r] = call]
  PROVE  request' \in [Requests -> RequestRecords]
  BY DEF TypeOK, RequestRecords

LEMMA FinishIsTyped ==
  ASSUME TypeOK, NEW r \in Requests, Finish(r)
  PROVE  request' \in [Requests -> RequestRecords]
  BY IdleIsTyped, CallIsTyped DEF Finish

\* What a person's turn begins with.
LEMMA AdministerCalls ==
  ASSUME TypeOK, NEW r \in Requests, NEW c \in Configurations,
         NEW step \in AdministrationSteps, NEW write \in Rows,
         NEW others \in SUBSET Configurations, Administer(r, c, step, write, others)
  PROVE  \E call \in RequestRecords :
             /\ request' = [request EXCEPT ![r] = call]
             /\ call.step = step
             /\ call.configuration = c
             /\ call.row = configuration[c]
             /\ call.write = write
             /\ call.others = others
             /\ call.key = KeyOf(configuration[c])
<1> DEFINE call == [IdleRequest EXCEPT
               !.step = step, !.configuration = c, !.row = configuration[c],
               !.write = write, !.others = others, !.key = KeyOf(configuration[c])]
<1>1. configuration[c] \in Rows /\ KeyOf(configuration[c]) \in Providers \cup {NoProvider}
  BY KeyIsTyped DEF TypeOK
<1>2. /\ call \in RequestRecords
      /\ call.step = step
      /\ call.configuration = c
      /\ call.row = configuration[c]
      /\ call.write = write
      /\ call.others = others
      /\ call.key = KeyOf(configuration[c])
  BY <1>1, IdleIsTyped DEF IdleRequest, RequestRecords, Steps
<1>3. request' = [request EXCEPT ![r] = call]
  BY DEF Administer
<1> HIDE DEF call
<1>4. QED
  BY <1>2, <1>3

\* The row and the others that each call to administer names.
Openings(r, c) ==
    \/ \E t \in Targets, active \in BOOLEAN :
          \/ CreateLlmConfiguration(r, c, t, active)
          \/ UpdateLlmConfiguration(r, c, t, active)
    \/ DeleteLlmConfiguration(r, c)
    \/ \E s \in Secrets : SaveLlmCredential(r, c, s)
    \/ VerifyLlmConfiguration(r, c)

LEMMA OpeningsAdminister ==
  ASSUME TypeOK, NEW r \in Requests, NEW c \in Configurations, Openings(r, c)
  PROVE  \E step \in AdministrationSteps, write \in Rows, others \in SUBSET Configurations :
             Administer(r, c, step, write, others)
<1>1. /\ configuration[c] \in Rows
      /\ ActiveOnes \in SUBSET Configurations
      /\ {"committing", "deleting", "saving", "testing"} = AdministrationSteps
  BY DEF TypeOK, ActiveOnes, AdministrationSteps
<1>2. ASSUME NEW t \in Targets, NEW active \in BOOLEAN, CreateLlmConfiguration(r, c, t, active)
      PROVE  \E step \in AdministrationSteps, write \in Rows, others \in SUBSET Configurations :
                 Administer(r, c, step, write, others)
  <2> DEFINE others == IF active THEN ActiveOnes ELSE {}
             write == [NoRow EXCEPT !.exists = TRUE, !.target = t, !.active = active]
  <2>1. Administer(r, c, "committing", write, others)
    BY <1>2 DEF CreateLlmConfiguration
  <2>2. write \in Rows /\ others \in SUBSET Configurations
    BY <1>1, CreatedRow
  <2> HIDE DEF write, others
  <2>3. QED
    BY <1>1, <2>1, <2>2
<1>3. ASSUME NEW t \in Targets, NEW active \in BOOLEAN, UpdateLlmConfiguration(r, c, t, active)
      PROVE  \E step \in AdministrationSteps, write \in Rows, others \in SUBSET Configurations :
                 Administer(r, c, step, write, others)
  <2> DEFINE others == IF active THEN ActiveOnes \ {c} ELSE {}
             write == Applied(configuration[c], t, active)
  <2>1. Administer(r, c, "committing", write, others)
    BY <1>3 DEF UpdateLlmConfiguration
  <2>2. write \in Rows /\ others \in SUBSET Configurations
    BY <1>1, EditedRow
  <2> HIDE DEF write, others
  <2>3. QED
    BY <1>1, <2>1, <2>2
<1>4. ASSUME DeleteLlmConfiguration(r, c)
      PROVE  \E step \in AdministrationSteps, write \in Rows, others \in SUBSET Configurations :
                 Administer(r, c, step, write, others)
  BY <1>1, <1>4, NoRowIsTyped DEF DeleteLlmConfiguration
<1>5. ASSUME NEW s \in Secrets, SaveLlmCredential(r, c, s)
      PROVE  \E step \in AdministrationSteps, write \in Rows, others \in SUBSET Configurations :
                 Administer(r, c, step, write, others)
  <2> DEFINE write == [configuration[c] EXCEPT !.secret = s, !.test = "none"]
  <2>1. Administer(r, c, "saving", write, {})
    BY <1>5 DEF SaveLlmCredential
  <2>2. write \in Rows
    BY <1>1, KeyedRow
  <2> HIDE DEF write
  <2>3. QED
    BY <1>1, <2>1, <2>2
<1>6. ASSUME VerifyLlmConfiguration(r, c)
      PROVE  \E step \in AdministrationSteps, write \in Rows, others \in SUBSET Configurations :
                 Administer(r, c, step, write, others)
  BY <1>1, <1>6 DEF VerifyLlmConfiguration
<1>7. QED
  BY <1>2, <1>3, <1>4, <1>5, <1>6 DEF Openings

\* What a creation or an edit leaves in every row.
LEMMA CommitWrites ==
  ASSUME TypeOK, NEW r \in Requests, Commit(r), NEW d \in Configurations
  PROVE  /\ configuration'[d] \in Rows
         /\ IF d = request[r].configuration
            THEN configuration'[d] =
                     Merge(configuration[d], request[r].row, request[r].write)
            ELSE /\ (configuration'[d].exists <=> configuration[d].exists)
                 /\ configuration'[d].active <=>
                        configuration[d].active /\ d \notin request[r].others
                 /\ configuration'[d].target = configuration[d].target
                 /\ configuration'[d].secret = configuration[d].secret
                 /\ configuration'[d].test = configuration[d].test
<1>1. /\ configuration[d] \in Rows
      /\ request[r].row \in Rows
      /\ request[r].write \in Rows
  BY DEF TypeOK
<1>2. CASE d = request[r].configuration
  BY <1>1, <1>2, MergeIsARow DEF Commit
<1>3. CASE d # request[r].configuration
  <2>1. PICK keep \in BOOLEAN :
            /\ configuration'[d] = [configuration[d] EXCEPT !.active = @ /\ keep]
            /\ keep <=> d \notin request[r].others
    <3>1. CASE d \in request[r].others
      BY <1>3, <3>1 DEF Commit
    <3>2. CASE d \notin request[r].others
      BY <1>3, <3>2 DEF Commit
    <3>3. QED
      BY <3>1, <3>2
  <2>2. QED
    BY <1>1, <1>3, <2>1, RestingRow
<1>4. QED
  BY <1>2, <1>3

LEMMA CommitIsTyped ==
  ASSUME TypeOK, NEW r \in Requests, Commit(r)
  PROVE  TypeOK'
<1> DEFINE c == request[r].configuration
           row == request[r].row
           write == request[r].write
<1>1. configuration' \in [Configurations -> Rows]
  BY CommitWrites DEF Commit
<1>2. secret' \in [Secrets -> Providers \cup {NoProvider}]
  BY DEF Commit, TypeOK
<1>3. passed' \in [Configurations -> BOOLEAN]
  <2>1. passed' = [passed EXCEPT ![c] = passed[c] /\ row.target = write.target]
    BY DEF Commit
  <2>2. (passed[c] /\ row.target = write.target) \in BOOLEAN
    OBVIOUS
  <2>3. QED
    BY <2>1, <2>2 DEF TypeOK
<1>4. QED
  BY <1>1, <1>2, <1>3, FinishIsTyped DEF Commit, TypeOK, RequestRecords

\* The result of a test is stored in the row as it is now.
LEMMA TestWrites ==
  ASSUME TypeOK, NEW r \in Requests, FinishTest(r)
  PROVE  LET c == request[r].configuration
             row == request[r].row
         IN  \E result \in {"ok", "error"}, write \in Rows :
                 /\ write = [row EXCEPT !.test = result]
                 /\ result = "ok" => IsLocal(row.target) \/ request[r].key # NoProvider
                 /\ configuration' = [configuration EXCEPT ![c] =
                                         Merge(configuration[c], row, write)]
                 /\ \A d \in Configurations :
                       /\ passed'[d] \in BOOLEAN
                       /\ passed[d] => passed'[d]
                       /\ /\ d = c
                          /\ result = "ok"
                          /\ configuration[c].target = row.target
                          /\ configuration[c].secret = row.secret
                          => passed'[d]
                 /\ DOMAIN passed' = Configurations
<1> DEFINE c == request[r].configuration
           row == request[r].row
<1>1. row \in Rows
  BY DEF TypeOK
<1>2. PICK result \in {"ok", "error"} :
          /\ result = "ok" => IsLocal(row.target) \/ request[r].key # NoProvider
          /\ configuration' = [configuration EXCEPT ![c] =
                                  Merge(@, row, [row EXCEPT !.test = result])]
          /\ passed' = [passed EXCEPT ![c] =
                 \/ @
                 \/ /\ result = "ok"
                    /\ configuration[c].target = row.target
                    /\ configuration[c].secret = row.secret]
  BY DEF FinishTest
<1> DEFINE write == [row EXCEPT !.test = result]
           good == /\ result = "ok"
                   /\ configuration[c].target = row.target
                   /\ configuration[c].secret = row.secret
<1>3. write \in Rows
  BY <1>1, TestedRow
<1>4. configuration' = [configuration EXCEPT ![c] = Merge(configuration[c], row, write)]
  BY <1>2 DEF TypeOK
<1>5. /\ DOMAIN passed' = Configurations
      /\ \A d \in Configurations : /\ passed'[d] \in BOOLEAN
                                   /\ passed[d] => passed'[d]
                                   /\ d = c /\ good => passed'[d]
  <2>1. (passed[c] \/ good) \in BOOLEAN
    OBVIOUS
  <2>2. passed' = [passed EXCEPT ![c] = passed[c] \/ good]
    BY <1>2
  <2>3. QED
    BY <2>1, <2>2 DEF TypeOK
<1>6. QED
  BY <1>2, <1>3, <1>4, <1>5

LEMMA CommitsAreTyped ==
  ASSUME TypeOK, NEW r \in Requests,
         CommitDelete(r) \/ CommitCredential(r) \/ FinishTest(r)
  PROVE  TypeOK'
<1> DEFINE c == request[r].configuration
           row == request[r].row
           write == request[r].write
<1>1. row \in Rows /\ write \in Rows
  BY DEF TypeOK
<1>2. CASE CommitDelete(r)
  BY <1>2, NoRowIsTyped, FinishIsTyped DEF CommitDelete, TypeOK, RequestRecords
<1>3. CASE CommitCredential(r)
  <2>1. ProviderOf[row.target] \in Providers
    BY <1>1, ProviderOfAssumption DEF Rows
  <2>2. secret' \in [Secrets -> Providers \cup {NoProvider}]
    BY <1>3, <2>1 DEF CommitCredential, TypeOK
  <2>3. configuration' \in [Configurations -> Rows]
    <3>1. configuration' = [configuration EXCEPT ![c] = Merge(configuration[c], row, write)]
      BY <1>3 DEF CommitCredential, TypeOK
    <3>2. c \in Configurations => Merge(configuration[c], row, write) \in Rows
      BY <1>1, MergeIsARow DEF TypeOK
    <3>3. QED
      BY <3>1, <3>2 DEF TypeOK
  <2>4. passed' \in [Configurations -> BOOLEAN]
    BY <1>3 DEF CommitCredential, TypeOK
  <2>5. QED
    BY <1>3, <2>2, <2>3, <2>4, FinishIsTyped DEF CommitCredential, TypeOK, RequestRecords
<1>4. CASE FinishTest(r)
  <2>1. c \in Configurations => configuration[c] \in Rows
    BY DEF TypeOK
  <2>2. configuration' \in [Configurations -> Rows]
    BY <1>1, <1>4, <2>1, TestWrites, MergeIsARow DEF TypeOK
  <2>3. passed' \in [Configurations -> BOOLEAN]
    <3>1. PICK result \in {"ok", "error"} :
              passed' = [passed EXCEPT ![c] =
                  \/ @
                  \/ /\ result = "ok"
                     /\ configuration[c].target = row.target
                     /\ configuration[c].secret = row.secret]
      BY <1>4 DEF FinishTest
    <3>2. (\/ passed[c]
           \/ /\ result = "ok"
              /\ configuration[c].target = row.target
              /\ configuration[c].secret = row.secret) \in BOOLEAN
      OBVIOUS
    <3>3. QED
      BY <3>1, <3>2 DEF TypeOK
  <2>4. QED
    BY <1>4, <2>2, <2>3, FinishIsTyped DEF FinishTest, TypeOK, RequestRecords
<1>5. QED
  BY <1>2, <1>3, <1>4

\* What a proposal reads.
LEMMA UsesAreTyped ==
  ASSUME TypeOK, NEW r \in Requests,
         \/ \E c \in Configurations : CheckReadiness(r, c) \/ ConfirmDestination(r, c)
         \/ ReadCredential(r)
         \/ EndRequest(r)
  PROVE  TypeOK'
<1>1. request[r] \in RequestRecords
  BY DEF TypeOK, RequestRecords
<1>2. ASSUME NEW c \in Configurations, CheckReadiness(r, c) PROVE TypeOK'
  <2> DEFINE call == [IdleRequest EXCEPT
                         !.step = "ready", !.configuration = c, !.row = configuration[c]]
  <2>1. call \in RequestRecords
    BY IdleIsTyped DEF TypeOK, RequestRecords, Steps, GenerationSteps
  <2>2. request' = [request EXCEPT ![r] = call]
    BY <1>2 DEF CheckReadiness
  <2> HIDE DEF call
  <2>3. QED
    BY <1>2, <2>1, <2>2, CallIsTyped DEF CheckReadiness, TypeOK, RequestRecords
<1>3. ASSUME NEW c \in Configurations, ConfirmDestination(r, c) PROVE TypeOK'
  <2> DEFINE row == IF c = request[r].configuration THEN request[r].row ELSE configuration[c]
             call == [request[r] EXCEPT
                         !.step = "confirmed", !.configuration = c, !.row = row]
  <2>1. row \in Rows
    BY <1>1 DEF TypeOK, RequestRecords
  <2>2. request' = [request EXCEPT ![r] = call]
    BY <1>3 DEF ConfirmDestination, TypeOK
  <2> HIDE DEF row
  <2>3. call \in RequestRecords
    BY <1>1, <2>1 DEF RequestRecords, Steps, GenerationSteps
  <2> HIDE DEF call
  <2>4. QED
    BY <1>3, <2>2, <2>3, CallIsTyped DEF ConfirmDestination, TypeOK, RequestRecords
<1>4. ASSUME ReadCredential(r) PROVE TypeOK'
  <2> DEFINE call == [request[r] EXCEPT !.step = "calling", !.key = KeyOf(request[r].row)]
  <2>1. KeyOf(request[r].row) \in Providers \cup {NoProvider}
    BY <1>1, KeyIsTyped DEF RequestRecords
  <2>2. call \in RequestRecords
    BY <1>1, <2>1 DEF RequestRecords, Steps, GenerationSteps
  <2>3. request' = [request EXCEPT ![r] = call]
    BY <1>4 DEF ReadCredential, TypeOK
  <2> HIDE DEF call
  <2>4. QED
    BY <1>4, <2>2, <2>3, CallIsTyped DEF ReadCredential, TypeOK, RequestRecords
<1>5. ASSUME EndRequest(r) PROVE TypeOK'
  BY <1>5, FinishIsTyped DEF EndRequest, TypeOK, RequestRecords
<1>6. QED
  BY <1>2, <1>3, <1>4, <1>5

LEMMA StepIsTyped == TypeOK /\ [Next]_vars => TypeOK'
<1> SUFFICES ASSUME TypeOK, [Next]_vars PROVE TypeOK'
  OBVIOUS
<1>1. ASSUME NEW r \in Requests, NEW c \in Configurations, Openings(r, c) PROVE TypeOK'
  <2>1. PICK step \in AdministrationSteps, write \in Rows, others \in SUBSET Configurations :
            Administer(r, c, step, write, others)
    BY <1>1, OpeningsAdminister
  <2>2. request' \in [Requests -> RequestRecords]
    BY <2>1, AdministerCalls, CallIsTyped
  <2>3. QED
    BY <2>1, <2>2 DEF Administer, TypeOK, RequestRecords
<1>2. ASSUME NEW r \in Requests,
             Commit(r) \/ CommitDelete(r) \/ CommitCredential(r) \/ FinishTest(r)
      PROVE  TypeOK'
  BY <1>2, CommitIsTyped, CommitsAreTyped
<1>3. CASE UNCHANGED vars
  BY <1>3 DEF vars, TypeOK
<1>4. QED
  BY <1>1, <1>2, <1>3, UsesAreTyped DEF Next, Openings

\* The variables of LlmConfigurations always have their types, whoever has the turn.
THEOREM TypeCorrect == Spec => []TypeOK
  BY InitIsTyped, StepIsTyped, PTL DEF Spec

-----------------------------------------------------------------------------
(* The invariant of the rows, the calls left aside *)

\* A row that is not there has nothing that a handler could find.
MissingRowsAreEmpty ==
    \A c \in Configurations :
        ~ configuration[c].exists => /\ ~ configuration[c].active
                                     /\ configuration[c].secret = NoSecret

OneIsActive ==
    \A c, d \in Configurations : configuration[c].active /\ configuration[d].active => c = d

ActiveCanCall ==
    \A c \in Configurations :
        configuration[c].active => \/ IsLocal(configuration[c].target)
                                   \/ configuration[c].secret \in Secrets

OneOwner ==
    \A c, d \in Configurations :
        /\ configuration[c].secret \in Secrets
        /\ configuration[d].secret = configuration[c].secret
        => c = d

\* The stored key that a row names is of the provider that the row names.
KeysAreOfTheirRow ==
    \A c \in Configurations :
        configuration[c].secret \in Secrets =>
            secret[configuration[c].secret] = ProviderOf[configuration[c].target]

NoneIsLeftBehind ==
    \A s \in Secrets :
        secret[s] # NoProvider => \E c \in Configurations : configuration[c].secret = s

RowsHoldTogether ==
    /\ MissingRowsAreEmpty
    /\ OneIsActive
    /\ ActiveCanCall
    /\ OneOwner
    /\ KeysAreOfTheirRow
    /\ NoneIsLeftBehind
    /\ TestIsOfThePresentTarget

-----------------------------------------------------------------------------
(* The invariant of the calls *)

Administers(r) == request[r].step \in AdministrationSteps

OneAdministers == \A q, r \in Requests : Administers(q) /\ Administers(r) => q = r

\* Whoever has the turn holds the row as it is.
CopiesAreFresh ==
    \A r \in Requests :
        Administers(r) => /\ request[r].configuration \in Configurations
                          /\ request[r].row = configuration[request[r].configuration]

\* What a creation or an edit is about to commit has been checked: the row keeps
\* its credential only with its provider, a row that becomes active can call its
\* provider and has every other active one with it, and the last test counts for
\* the target that passed it.
Checked(c, row, write, others) ==
    /\ write.exists
    /\ write.secret \in {row.secret, NoSecret}
    /\ write.secret \in Secrets => ProviderOf[write.target] = ProviderOf[row.target]
    /\ write.active =>
           /\ IsLocal(write.target) \/ write.secret \in Secrets
           /\ \A d \in Configurations :
                 configuration[d].active => d = c \/ d \in others
    /\ write.test = "ok" => row.test = "ok" /\ write.target = row.target

EditsAreChecked ==
    \A r \in Requests :
        request[r].step = "committing" =>
            Checked(request[r].configuration, request[r].row, request[r].write,
                    request[r].others)

\* An identity that no row has, nor any copy.
Unknown(s) ==
    /\ secret[s] = NoProvider
    /\ \A c \in Configurations : configuration[c].secret # s
    /\ \A r \in Requests : request[r].row.secret # s

\* A credential is replaced where it is; a first one gets an unknown identity.
Registers(row, write) ==
    /\ row.exists /\ write.exists
    /\ write.active <=> row.active
    /\ write.target = row.target
    /\ write.test = "none"
    /\ write.secret \in Secrets
    /\ row.secret # write.secret => row.secret = NoSecret /\ Unknown(write.secret)

CredentialsAreTheirs ==
    \A r \in Requests :
        request[r].step = "saving" => Registers(request[r].row, request[r].write)

\* However old a copy is, the key that its credential has now, if it still has
\* one, is of the provider that the copy names.
KnownKeys ==
    \A r \in Requests :
        request[r].row.secret \in Secrets =>
            secret[request[r].row.secret] \in {NoProvider, ProviderOf[request[r].row.target]}

CallsHoldTogether ==
    /\ OneAdministers
    /\ CopiesAreFresh
    /\ EditsAreChecked
    /\ CredentialsAreTheirs
    /\ KnownKeys
    /\ KeysGoToTheirProvider

LInv == TypeOK /\ RowsHoldTogether /\ CallsHoldTogether

LEMMA InitEstablishesLInv == Init => LInv
<1> SUFFICES ASSUME Init PROVE LInv
  OBVIOUS
<1>1. TypeOK
  BY InitIsTyped
<1>2. /\ \A c \in Configurations : configuration[c] = NoRow
      /\ \A s \in Secrets : secret[s] = NoProvider
      /\ \A r \in Requests : request[r] = IdleRequest
  BY DEF Init
<1>3. RowsHoldTogether
  BY <1>2, NoRowIsTyped, NoSecretAssumption
  DEF RowsHoldTogether, MissingRowsAreEmpty, OneIsActive, ActiveCanCall, OneOwner,
      KeysAreOfTheirRow, NoneIsLeftBehind, TestIsOfThePresentTarget
<1>4. CallsHoldTogether
  <2>1. IdleRequest.step = "idle" /\ IdleRequest.row = NoRow
    BY DEF IdleRequest
  <2>2. QED
    BY <1>2, <2>1, NoRowIsTyped, NoSecretAssumption
    DEF CallsHoldTogether, OneAdministers, Administers, AdministrationSteps, CopiesAreFresh,
        EditsAreChecked, CredentialsAreTheirs, KnownKeys, KeysGoToTheirProvider
<1>5. QED
  BY <1>1, <1>3, <1>4 DEF LInv

-----------------------------------------------------------------------------
(* A call begins or goes on: the rows are as they were *)

LEMMA QuietRows ==
  ASSUME RowsHoldTogether, UNCHANGED <<configuration, secret, passed>>
  PROVE  RowsHoldTogether'
  BY DEF RowsHoldTogether, MissingRowsAreEmpty, OneIsActive, ActiveCanCall, OneOwner,
         KeysAreOfTheirRow, NoneIsLeftBehind, TestIsOfThePresentTarget

\* The copy of a call is a row, or a copy that some call had.
LEMMA CallKeepsKeys ==
  ASSUME LInv, UNCHANGED <<configuration, secret, passed>>,
         NEW r \in Requests, NEW call \in RequestRecords,
         request' = [request EXCEPT ![r] = call],
         \/ call.row = NoRow
         \/ \E c \in Configurations : call.row = configuration[c]
         \/ call.row = request[r].row,
         call.step \in {"testing", "calling"} =>
             call.key \in {NoProvider, ProviderOf[call.row.target]}
  PROVE  /\ KnownKeys'
         /\ KeysGoToTheirProvider'
         /\ \A s \in Secrets : Unknown(s) => Unknown(s)'
<1>1. /\ request'[r] = call
      /\ \A q \in Requests \ {r} : request'[q] = request[q]
  BY DEF LInv, TypeOK
<1>2. /\ call.row.secret \in Secrets =>
             secret[call.row.secret] \in {NoProvider, ProviderOf[call.row.target]}
      /\ \A s \in Secrets : Unknown(s) => call.row.secret # s
  <2>1. CASE call.row = NoRow
    BY <2>1, NoRowIsTyped, NoSecretAssumption
  <2>2. CASE \E c \in Configurations : call.row = configuration[c]
    BY <2>2 DEF LInv, RowsHoldTogether, KeysAreOfTheirRow, Unknown
  <2>3. CASE call.row = request[r].row
    BY <2>3 DEF LInv, CallsHoldTogether, KnownKeys, Unknown
  <2>4. QED
    BY <2>1, <2>2, <2>3
<1>3. KnownKeys'
  BY <1>1, <1>2 DEF LInv, CallsHoldTogether, KnownKeys
<1>4. KeysGoToTheirProvider'
  BY <1>1 DEF LInv, CallsHoldTogether, KeysGoToTheirProvider
<1>5. ASSUME NEW s \in Secrets, Unknown(s) PROVE Unknown(s)'
  BY <1>1, <1>2, <1>5 DEF Unknown
<1>6. QED
  BY <1>3, <1>4, <1>5

\* A proposal that reads, and a call that ends, take no turn.
LEMMA QuietCall ==
  ASSUME LInv, UNCHANGED <<configuration, secret, passed>>,
         NEW r \in Requests, NEW call \in RequestRecords,
         request' = [request EXCEPT ![r] = call],
         call.step \notin AdministrationSteps,
         \/ call.row = NoRow
         \/ \E c \in Configurations : call.row = configuration[c]
         \/ call.row = request[r].row,
         call.step = "calling" =>
             call.key \in {NoProvider, ProviderOf[call.row.target]}
  PROVE  LInv'
<1>1. /\ request'[r] = call
      /\ \A q \in Requests \ {r} : request'[q] = request[q]
  BY DEF LInv, TypeOK
<1>2. TypeOK'
  BY CallIsTyped DEF LInv, TypeOK, RequestRecords
<1>3. /\ KnownKeys'
      /\ KeysGoToTheirProvider'
      /\ \A s \in Secrets : Unknown(s) => Unknown(s)'
  BY CallKeepsKeys DEF AdministrationSteps
<1>4. OneAdministers' /\ CopiesAreFresh'
  BY <1>1 DEF LInv, CallsHoldTogether, OneAdministers, Administers, CopiesAreFresh
<1>5. EditsAreChecked'
  BY <1>1 DEF LInv, CallsHoldTogether, EditsAreChecked, Checked, AdministrationSteps
<1>6. CredentialsAreTheirs'
  BY <1>1, <1>3 DEF LInv, CallsHoldTogether, CredentialsAreTheirs, Registers,
                    AdministrationSteps
<1>7. QED
  BY <1>2, <1>3, <1>4, <1>5, <1>6, QuietRows DEF LInv, CallsHoldTogether

LEMMA UsesKeepLInv ==
  ASSUME LInv, NEW r \in Requests,
         \/ \E c \in Configurations : CheckReadiness(r, c) \/ ConfirmDestination(r, c)
         \/ ReadCredential(r)
         \/ EndRequest(r)
  PROVE  LInv'
<1>1. request[r] \in RequestRecords
  BY DEF LInv, TypeOK, RequestRecords
<1>2. ASSUME NEW c \in Configurations, CheckReadiness(r, c) PROVE LInv'
  <2> DEFINE call == [IdleRequest EXCEPT
                         !.step = "ready", !.configuration = c, !.row = configuration[c]]
  <2>1. /\ call \in RequestRecords
        /\ call.step = "ready"
        /\ call.row = configuration[c]
    BY IdleIsTyped DEF LInv, TypeOK, RequestRecords, Steps, GenerationSteps
  <2>2. request' = [request EXCEPT ![r] = call]
    BY <1>2 DEF CheckReadiness
  <2> HIDE DEF call
  <2>3. QED
    BY <1>2, <2>1, <2>2, QuietCall DEF CheckReadiness, AdministrationSteps
<1>3. ASSUME NEW c \in Configurations, ConfirmDestination(r, c) PROVE LInv'
  <2> DEFINE row == IF c = request[r].configuration THEN request[r].row ELSE configuration[c]
             call == [request[r] EXCEPT
                         !.step = "confirmed", !.configuration = c, !.row = row]
  <2>1. row \in Rows /\ row \in {request[r].row, configuration[c]}
    BY <1>1 DEF LInv, TypeOK, RequestRecords
  <2>2. request' = [request EXCEPT ![r] = call]
    BY <1>3 DEF ConfirmDestination
  <2> HIDE DEF row
  <2>3. /\ call \in RequestRecords
        /\ call.step = "confirmed"
        /\ call.row = row
    BY <1>1, <2>1 DEF RequestRecords, Steps, GenerationSteps
  <2> HIDE DEF call
  <2>4. QED
    BY <1>3, <2>1, <2>2, <2>3, QuietCall DEF ConfirmDestination, AdministrationSteps
<1>4. ASSUME ReadCredential(r) PROVE LInv'
  <2> DEFINE call == [request[r] EXCEPT !.step = "calling", !.key = KeyOf(request[r].row)]
  <2>1. /\ KeyOf(request[r].row) \in Providers \cup {NoProvider}
        /\ KeyOf(request[r].row) \in {NoProvider, ProviderOf[request[r].row.target]}
    BY <1>1, KeyIsTyped DEF LInv, RequestRecords, CallsHoldTogether, KnownKeys, KeyOf, Rows
  <2>2. /\ call \in RequestRecords
        /\ call.step = "calling"
        /\ call.row = request[r].row
        /\ call.key = KeyOf(request[r].row)
    BY <1>1, <2>1 DEF RequestRecords, Steps, GenerationSteps
  <2>3. request' = [request EXCEPT ![r] = call]
    BY <1>4 DEF ReadCredential, LInv, TypeOK
  <2> HIDE DEF call
  <2>4. QED
    BY <1>4, <2>1, <2>2, <2>3, QuietCall, ZenonT(60) DEF ReadCredential, AdministrationSteps
<1>5. ASSUME EndRequest(r) PROVE LInv'
  <2>1. IdleRequest.step = "idle" /\ IdleRequest.row = NoRow
    BY DEF IdleRequest
  <2>2. QED
    BY <1>5, <2>1, IdleIsTyped, QuietCall DEF EndRequest, Finish, AdministrationSteps
<1>6. QED
  BY <1>2, <1>3, <1>4, <1>5

-----------------------------------------------------------------------------
(* A person takes the turn *)

LEMMA TurnBegins ==
  ASSUME LInv, OneAtATime, NEW r \in Requests, NEW c \in Configurations,
         NEW step \in AdministrationSteps, NEW write \in Rows,
         NEW others \in SUBSET Configurations, Administer(r, c, step, write, others),
         step = "committing" => Checked(c, configuration[c], write, others),
         step = "saving" => Registers(configuration[c], write)
  PROVE  LInv'
<1>1. PICK call \in RequestRecords :
          /\ request' = [request EXCEPT ![r] = call]
          /\ call.step = step
          /\ call.configuration = c
          /\ call.row = configuration[c]
          /\ call.write = write
          /\ call.others = others
          /\ call.key = KeyOf(configuration[c])
  BY AdministerCalls DEF LInv
<1>2. /\ UNCHANGED <<configuration, secret, passed>>
      /\ \A q \in Requests : ~ Administers(q)
  BY DEF Administer, Administers
<1>3. /\ request'[r] = call
      /\ \A q \in Requests \ {r} : request'[q] = request[q]
  BY <1>1 DEF LInv, TypeOK
<1>4. TypeOK'
  BY <1>1, <1>2, CallIsTyped DEF LInv, TypeOK, RequestRecords
<1>5. /\ KnownKeys'
      /\ KeysGoToTheirProvider'
      /\ \A s \in Secrets : Unknown(s) => Unknown(s)'
  <2>1. call.key \in {NoProvider, ProviderOf[call.row.target]}
    <3>1. configuration[c] \in Rows
      BY DEF LInv, TypeOK
    <3>2. QED
      BY <1>1, <3>1 DEF LInv, RowsHoldTogether, KeysAreOfTheirRow, KeyOf, Rows
  <2>2. QED
    BY <1>1, <1>2, <2>1, CallKeepsKeys
<1>6. OneAdministers' /\ CopiesAreFresh'
  BY <1>1, <1>2, <1>3 DEF OneAdministers, Administers, CopiesAreFresh
<1>7. EditsAreChecked'
  BY <1>1, <1>2, <1>3 DEF EditsAreChecked, Checked, Administers, AdministrationSteps
<1>8. CredentialsAreTheirs'
  BY <1>1, <1>2, <1>3, <1>5 DEF CredentialsAreTheirs, Registers, Administers,
                                AdministrationSteps
<1>9. QED
  BY <1>2, <1>4, <1>5, <1>6, <1>7, <1>8, QuietRows DEF LInv, CallsHoldTogether

LEMMA OpeningsKeepLInv ==
  ASSUME LInv, OneAtATime, NEW r \in Requests, NEW c \in Configurations, Openings(r, c)
  PROVE  LInv'
<1> DEFINE row == configuration[c]
<1>1. /\ row \in Rows
      /\ ActiveOnes \in SUBSET Configurations
      /\ {"committing", "deleting", "saving", "testing"} = AdministrationSteps
      /\ RowsHoldTogether
  BY DEF LInv, TypeOK, ActiveOnes, AdministrationSteps
<1>2. ASSUME NEW t \in Targets, NEW active \in BOOLEAN, CreateLlmConfiguration(r, c, t, active)
      PROVE  LInv'
  <2> DEFINE others == IF active THEN ActiveOnes ELSE {}
             write == [NoRow EXCEPT !.exists = TRUE, !.target = t, !.active = active]
  <2>1. Administer(r, c, "committing", write, others) /\ (active => IsLocal(t))
    BY <1>2 DEF CreateLlmConfiguration
  <2>2. /\ write \in Rows
        /\ write.exists /\ (write.active <=> active)
        /\ write.target = t /\ write.secret = NoSecret /\ write.test = "none"
    BY CreatedRow
  <2>3. /\ others \in SUBSET Configurations
        /\ active => \A d \in Configurations : configuration[d].active => d \in others
    BY DEF ActiveOnes
  <2> HIDE DEF write, others
  <2>4. Checked(c, row, write, others)
    BY <2>1, <2>2, <2>3, NoSecretAssumption DEF Checked
  <2>5. QED
    BY <1>1, <2>1, <2>2, <2>3, <2>4, TurnBegins
<1>3. ASSUME NEW t \in Targets, NEW active \in BOOLEAN, UpdateLlmConfiguration(r, c, t, active)
      PROVE  LInv'
  <2> DEFINE others == IF active THEN ActiveOnes \ {c} ELSE {}
             write == Applied(row, t, active)
  <2>1. /\ Administer(r, c, "committing", write, others)
        /\ row.exists
        /\ active => IsLocal(t) \/ write.secret # NoSecret
    BY <1>3 DEF UpdateLlmConfiguration
  <2>2. /\ write \in Rows
        /\ (write.exists <=> row.exists) /\ (write.active <=> active)
        /\ write.target = t
        /\ write.secret = IF ProviderOf[t] = ProviderOf[row.target]
                          THEN row.secret ELSE NoSecret
        /\ write.test = IF t = row.target THEN row.test ELSE "none"
    BY <1>1, EditedRow
  <2>3. /\ others \in SUBSET Configurations
        /\ active => \A d \in Configurations :
                        configuration[d].active => d = c \/ d \in others
    BY DEF ActiveOnes
  <2> HIDE DEF write, others
  <2>4. write.secret \in Secrets \cup {NoSecret}
    BY <2>2 DEF Rows
  <2>5. Checked(c, row, write, others)
    BY <2>1, <2>2, <2>3, <2>4, NoSecretAssumption DEF Checked
  <2>6. QED
    BY <1>1, <2>1, <2>2, <2>3, <2>5, TurnBegins
<1>4. ASSUME DeleteLlmConfiguration(r, c) PROVE LInv'
  BY <1>1, <1>4, NoRowIsTyped, TurnBegins DEF DeleteLlmConfiguration
<1>5. ASSUME NEW s \in Secrets, SaveLlmCredential(r, c, s) PROVE LInv'
  <2> DEFINE write == [row EXCEPT !.secret = s, !.test = "none"]
  <2>1. /\ Administer(r, c, "saving", write, {})
        /\ row.exists
        /\ IF row.secret = NoSecret THEN Fresh(s) ELSE s = row.secret
    BY <1>5 DEF SaveLlmCredential
  <2>2. /\ write \in Rows
        /\ (write.exists <=> row.exists) /\ (write.active <=> row.active)
        /\ write.target = row.target /\ write.secret = s /\ write.test = "none"
    BY <1>1, KeyedRow
  <2> HIDE DEF write
  <2>3. Registers(row, write)
    BY <2>1, <2>2 DEF Registers, Fresh, Unknown
  <2>4. QED
    BY <1>1, <2>1, <2>2, <2>3, TurnBegins
<1>6. ASSUME VerifyLlmConfiguration(r, c) PROVE LInv'
  BY <1>1, <1>6, TurnBegins DEF VerifyLlmConfiguration
<1>7. QED
  BY <1>2, <1>3, <1>4, <1>5, <1>6 DEF Openings

-----------------------------------------------------------------------------
(* The turn ends *)

\* Then nobody has it, and the calls are in order as long as the keys are.
LEMMA TurnEnds ==
  ASSUME LInv, NEW r \in Requests, Administers(r), Finish(r), TypeOK', RowsHoldTogether',
         \A q \in Requests \ {r} :
             request[q].row.secret \in Secrets =>
                 secret'[request[q].row.secret]
                     \in {NoProvider, ProviderOf[request[q].row.target]}
  PROVE  LInv'
<1>1. /\ request'[r] = IdleRequest
      /\ \A q \in Requests \ {r} : request'[q] = request[q]
  BY DEF LInv, TypeOK, Finish
<1>2. /\ IdleRequest.step = "idle" /\ IdleRequest.step \notin AdministrationSteps
      /\ IdleRequest.row = NoRow
  BY DEF IdleRequest, AdministrationSteps
<1>3. \A q \in Requests : request'[q].step \notin AdministrationSteps
  BY <1>1, <1>2 DEF LInv, CallsHoldTogether, OneAdministers, Administers
<1>4. OneAdministers' /\ CopiesAreFresh' /\ EditsAreChecked' /\ CredentialsAreTheirs'
  BY <1>3 DEF OneAdministers, Administers, CopiesAreFresh, EditsAreChecked,
              CredentialsAreTheirs, AdministrationSteps
<1>5. KnownKeys'
  BY <1>1, <1>2, NoRowIsTyped, NoSecretAssumption DEF KnownKeys
<1>6. KeysGoToTheirProvider'
  BY <1>1, <1>2 DEF LInv, CallsHoldTogether, KeysGoToTheirProvider
<1>7. QED
  BY <1>4, <1>5, <1>6 DEF LInv, CallsHoldTogether

\* A commit that only takes keys away leaves nobody with a wrong one.
LEMMA KeysTakenAway ==
  ASSUME LInv, \A s \in Secrets : secret'[s] \in {NoProvider, secret[s]}
  PROVE  \A q \in Requests :
             request[q].row.secret \in Secrets =>
                 secret'[request[q].row.secret]
                     \in {NoProvider, ProviderOf[request[q].row.target]}
  BY DEF LInv, CallsHoldTogether, KnownKeys

LEMMA CommitKeepsLInv ==
  ASSUME LInv, NEW r \in Requests, Commit(r)
  PROVE  LInv'
<1> DEFINE c == request[r].configuration
           row == request[r].row
           write == request[r].write
           others == request[r].others
<1>1. TypeOK' /\ Administers(r) /\ Finish(r)
  BY CommitIsTyped DEF LInv, Commit, Administers, AdministrationSteps
<1>2. /\ c \in Configurations
      /\ row = configuration[c]
      /\ row \in Rows /\ write \in Rows
      /\ Checked(c, row, write, others)
  BY <1>1 DEF LInv, TypeOK, CallsHoldTogether, CopiesAreFresh, EditsAreChecked, Commit
<1>3. configuration'[c] = write
  BY <1>2, CommitWrites, MergeOfTheRow DEF LInv
<1>4. \A d \in Configurations \ {c} :
          /\ (configuration'[d].exists <=> configuration[d].exists)
          /\ (configuration'[d].active <=> configuration[d].active /\ d \notin others)
          /\ configuration'[d].target = configuration[d].target
          /\ configuration'[d].secret = configuration[d].secret
          /\ configuration'[d].test = configuration[d].test
  BY CommitWrites DEF LInv
<1>5. \A s \in Secrets : secret'[s] = IF s = row.secret /\ write.secret # s
                                      THEN NoProvider ELSE secret[s]
  BY DEF Commit
<1>6. \A d \in Configurations :
          passed'[d] <=> passed[d] /\ (d = c => row.target = write.target)
  <2>1. passed' = [passed EXCEPT ![c] = passed[c] /\ row.target = write.target]
    BY DEF Commit
  <2>2. (passed[c] /\ row.target = write.target) \in BOOLEAN
    OBVIOUS
  <2>3. QED
    BY <2>1, <2>2 DEF LInv, TypeOK
<1> HIDE DEF c, row, write, others
<1>7. MissingRowsAreEmpty' /\ ActiveCanCall'
  BY <1>2, <1>3, <1>4 DEF LInv, RowsHoldTogether, MissingRowsAreEmpty, ActiveCanCall,
                          Checked, IsLocal
<1>8. OneIsActive'
  BY <1>2, <1>3, <1>4 DEF LInv, RowsHoldTogether, OneIsActive, Checked
<1>9. OneOwner'
  BY <1>2, <1>3, <1>4, NoSecretAssumption DEF LInv, RowsHoldTogether, OneOwner, Checked
<1>10. KeysAreOfTheirRow'
  BY <1>2, <1>3, <1>4, <1>5, NoSecretAssumption
  DEF LInv, RowsHoldTogether, OneOwner, KeysAreOfTheirRow, Checked
<1>11. NoneIsLeftBehind'
  BY <1>2, <1>3, <1>4, <1>5 DEF LInv, RowsHoldTogether, NoneIsLeftBehind
<1>12. TestIsOfThePresentTarget'
  BY <1>2, <1>3, <1>4, <1>6
  DEF LInv, RowsHoldTogether, TestIsOfThePresentTarget, Checked
<1>13. QED
  BY <1>1, <1>5, <1>7, <1>8, <1>9, <1>10, <1>11, <1>12, TurnEnds, KeysTakenAway
  DEF RowsHoldTogether

LEMMA CommitDeleteKeepsLInv ==
  ASSUME LInv, NEW r \in Requests, CommitDelete(r)
  PROVE  LInv'
<1> DEFINE c == request[r].configuration
           row == request[r].row
<1>1. TypeOK' /\ Administers(r) /\ Finish(r)
  BY CommitsAreTyped DEF LInv, CommitDelete, Administers, AdministrationSteps
<1>2. c \in Configurations /\ row = configuration[c]
  BY <1>1 DEF LInv, CallsHoldTogether, CopiesAreFresh
<1>3. /\ configuration'[c] = NoRow
      /\ \A d \in Configurations \ {c} : /\ configuration'[d] = configuration[d]
                                         /\ passed'[d] = passed[d]
      /\ \A s \in Secrets : secret'[s] = IF s = row.secret THEN NoProvider ELSE secret[s]
  BY <1>2 DEF LInv, TypeOK, CommitDelete
<1> HIDE DEF c, row
<1>4. MissingRowsAreEmpty' /\ ActiveCanCall' /\ OneIsActive' /\ TestIsOfThePresentTarget'
  BY <1>2, <1>3, NoRowIsTyped
  DEF LInv, RowsHoldTogether, MissingRowsAreEmpty, ActiveCanCall, OneIsActive,
      TestIsOfThePresentTarget
<1>5. OneOwner' /\ KeysAreOfTheirRow' /\ NoneIsLeftBehind'
  BY <1>2, <1>3, NoRowIsTyped, NoSecretAssumption
  DEF LInv, RowsHoldTogether, OneOwner, KeysAreOfTheirRow, NoneIsLeftBehind
<1>6. QED
  BY <1>1, <1>3, <1>4, <1>5, TurnEnds, KeysTakenAway DEF RowsHoldTogether

\* Where the key changes, every copy that names it names the provider it is typed for.
LEMMA CommitCredentialKeepsLInv ==
  ASSUME LInv, NEW r \in Requests, CommitCredential(r)
  PROVE  LInv'
<1> DEFINE c == request[r].configuration
           row == request[r].row
           write == request[r].write
           s == write.secret
<1>1. TypeOK' /\ Administers(r) /\ Finish(r)
  BY CommitsAreTyped DEF LInv, CommitCredential, Administers, AdministrationSteps
<1>2. /\ c \in Configurations
      /\ row = configuration[c]
      /\ row \in Rows /\ write \in Rows
      /\ Registers(row, write)
      /\ row.secret = s => secret[s] # NoProvider
  BY <1>1 DEF LInv, TypeOK, CallsHoldTogether, CopiesAreFresh, CredentialsAreTheirs,
              CommitCredential
<1>3. /\ configuration'[c] = Merge(row, row, write)
      /\ \A d \in Configurations \ {c} : /\ configuration'[d] = configuration[d]
                                         /\ passed'[d] = passed[d]
      /\ s \in Secrets => secret'[s] = ProviderOf[row.target]
      /\ \A k \in Secrets \ {s} : secret'[k] = secret[k]
  BY <1>2 DEF LInv, TypeOK, CommitCredential
<1>4. configuration'[c] = write
  BY <1>2, <1>3, MergeOfTheRow
<1>5. \A q \in Requests \ {r} :
          request[q].row.secret \in Secrets =>
              secret'[request[q].row.secret]
                  \in {NoProvider, ProviderOf[request[q].row.target]}
  <2> SUFFICES ASSUME NEW q \in Requests \ {r}, request[q].row.secret = s, s \in Secrets
               PROVE  ProviderOf[row.target] = ProviderOf[request[q].row.target]
    BY <1>3 DEF LInv, CallsHoldTogether, KnownKeys
  <2>1. row.secret = s
    BY <1>2 DEF Registers, Unknown
  <2>2. secret[s] = ProviderOf[row.target]
    BY <1>2, <2>1 DEF LInv, RowsHoldTogether, KeysAreOfTheirRow
  <2>3. secret[s] \in {NoProvider, ProviderOf[request[q].row.target]}
    BY DEF LInv, CallsHoldTogether, KnownKeys
  <2>4. QED
    BY <1>2, <2>1, <2>2, <2>3
<1> HIDE DEF c, row, write
<1>6. MissingRowsAreEmpty' /\ ActiveCanCall' /\ OneIsActive' /\ TestIsOfThePresentTarget'
  BY <1>2, <1>3, <1>4
  DEF LInv, RowsHoldTogether, MissingRowsAreEmpty, ActiveCanCall, OneIsActive,
      TestIsOfThePresentTarget, Registers
<1>7. OneOwner'
  BY <1>2, <1>3, <1>4 DEF LInv, RowsHoldTogether, OneOwner, Registers, Unknown
<1>8. KeysAreOfTheirRow'
  BY <1>2, <1>3, <1>4
  DEF LInv, RowsHoldTogether, OneOwner, KeysAreOfTheirRow, Registers, Unknown
<1>9. NoneIsLeftBehind'
  BY <1>2, <1>3, <1>4, NoSecretAssumption
  DEF LInv, RowsHoldTogether, NoneIsLeftBehind, Registers
<1>10. QED
  BY <1>1, <1>5, <1>6, <1>7, <1>8, <1>9, TurnEnds DEF RowsHoldTogether

LEMMA FinishTestKeepsLInv ==
  ASSUME LInv, NEW r \in Requests, FinishTest(r)
  PROVE  LInv'
<1> DEFINE c == request[r].configuration
           row == request[r].row
<1>1. TypeOK' /\ Administers(r) /\ Finish(r) /\ UNCHANGED secret
  BY CommitsAreTyped DEF LInv, FinishTest, Administers, AdministrationSteps
<1>2. c \in Configurations /\ row = configuration[c] /\ row \in Rows
  BY <1>1 DEF LInv, TypeOK, CallsHoldTogether, CopiesAreFresh
<1>3. PICK result \in {"ok", "error"}, write \in Rows :
          /\ write = [row EXCEPT !.test = result]
          /\ configuration' = [configuration EXCEPT ![c] = Merge(configuration[c], row, write)]
          /\ \A d \in Configurations : passed[d] => passed'[d]
          /\ result = "ok" => passed'[c]
  BY <1>2, TestWrites DEF LInv
<1>4. /\ (write.exists <=> row.exists) /\ (write.active <=> row.active)
      /\ write.target = row.target /\ write.secret = row.secret /\ write.test = result
  BY <1>2, <1>3, TestedRow
<1>5. /\ configuration'[c] = write
      /\ \A d \in Configurations \ {c} : configuration'[d] = configuration[d]
  BY <1>2, <1>3, MergeOfTheRow DEF LInv, TypeOK
<1> HIDE DEF c, row
<1>6. MissingRowsAreEmpty' /\ ActiveCanCall' /\ OneIsActive'
  BY <1>2, <1>4, <1>5
  DEF LInv, RowsHoldTogether, MissingRowsAreEmpty, ActiveCanCall, OneIsActive
<1>7. OneOwner' /\ KeysAreOfTheirRow' /\ NoneIsLeftBehind'
  BY <1>1, <1>2, <1>4, <1>5
  DEF LInv, RowsHoldTogether, OneOwner, KeysAreOfTheirRow, NoneIsLeftBehind
<1>8. TestIsOfThePresentTarget'
  <2> SUFFICES ASSUME NEW d \in Configurations, configuration'[d].test = "ok"
               PROVE  passed'[d]
    BY DEF TestIsOfThePresentTarget
  <2>1. CASE d = c
    <3>1. result = "ok"
      BY <1>4, <1>5, <2>1
    <3>2. QED
      BY <1>3, <2>1, <3>1
  <2>2. CASE d # c
    <3>1. configuration[d].test = "ok"
      BY <1>5, <2>2
    <3>2. passed[d]
      BY <3>1 DEF LInv, RowsHoldTogether, TestIsOfThePresentTarget
    <3>3. QED
      BY <1>3, <3>2
  <2>3. QED
    BY <2>1, <2>2
<1>9. QED
  BY <1>1, <1>6, <1>7, <1>8, TurnEnds, KeysTakenAway DEF RowsHoldTogether

-----------------------------------------------------------------------------
(* The theorems *)

LEMMA StepKeepsLInv ==
  ASSUME LInv, OneAtATime, [Next]_vars
  PROVE  LInv'
<1>1. CASE UNCHANGED vars
  <2>1. UNCHANGED <<configuration, secret, passed>> /\ UNCHANGED request
    BY <1>1 DEF vars
  <2>2. TypeOK'
    BY <1>1, StepIsTyped DEF LInv
  <2>3. CallsHoldTogether'
    BY <2>1 DEF LInv, CallsHoldTogether, OneAdministers, Administers, CopiesAreFresh,
                EditsAreChecked, Checked, CredentialsAreTheirs, Registers, Unknown,
                KnownKeys, KeysGoToTheirProvider
  <2>4. QED
    BY <2>1, <2>2, <2>3, QuietRows DEF LInv
<1>2. CASE Next
  BY <1>2, OpeningsKeepLInv, CommitKeepsLInv, CommitDeleteKeepsLInv,
     CommitCredentialKeepsLInv, FinishTestKeepsLInv, UsesKeepLInv DEF Next, Openings
<1>3. QED
  BY <1>1, <1>2

\* While people administer one at a time, the invariant of the rows and the calls holds.
THEOREM LInvAlways == OneAtATime => (Spec => []LInv)
<1> SUFFICES ASSUME OneAtATime PROVE Spec => []LInv
  OBVIOUS
<1>1. LInv /\ [Next]_vars => LInv'
  BY StepKeepsLInv
<1>2. QED
  BY <1>1, InitEstablishesLInv, PTL DEF Spec

\* While people administer one at a time, at most one configuration is active, and it
\* can call its provider, after any creations, edits and deletions.
THEOREM TheActiveOneIsUsable == OneAtATime => (Spec => []ActiveIsUsable)
<1> SUFFICES ASSUME OneAtATime PROVE Spec => []ActiveIsUsable
  OBVIOUS
<1>1. LInv => ActiveIsUsable
  <2> SUFFICES ASSUME LInv PROVE Cardinality(ActiveOnes) <= 1
    BY DEF LInv, RowsHoldTogether, ActiveCanCall, ActiveIsUsable, ActiveOnes
  <2>1. CASE ActiveOnes = {}
    BY <2>1, FS_EmptySet
  <2>2. CASE ActiveOnes # {}
    <3>1. PICK c \in ActiveOnes : TRUE
      BY <2>2
    <3>2. ActiveOnes = {c}
      BY <3>1 DEF LInv, RowsHoldTogether, OneIsActive, ActiveOnes
    <3>3. Cardinality(ActiveOnes) = 1
      BY <3>2, FS_Singleton, Zenon
    <3>4. QED
      BY <3>3, SMT
  <2>3. QED
    BY <2>1, <2>2
<1>2. QED
  BY <1>1, LInvAlways, PTL

\* While people administer one at a time, every stored credential belongs to exactly
\* one configuration, and every configuration that names one finds it.
THEOREM CredentialsHaveOneOwner == OneAtATime => (Spec => []NoOrphanSecret)
<1> SUFFICES ASSUME OneAtATime PROVE Spec => []NoOrphanSecret
  OBVIOUS
<1>1. LInv => NoOrphanSecret
  <2> SUFFICES ASSUME LInv, NEW s \in Secrets
               PROVE  Cardinality({c \in Configurations : configuration[c].secret = s})
                          = IF secret[s] = NoProvider THEN 0 ELSE 1
    BY DEF NoOrphanSecret
  <2> DEFINE Owners == {c \in Configurations : configuration[c].secret = s}
  <2>1. CASE secret[s] = NoProvider
    <3>1. \A c \in Configurations : ProviderOf[configuration[c].target] # NoProvider
      BY ProviderOfAssumption, NoProviderAssumption DEF LInv, TypeOK, Rows
    <3>2. Owners = {}
      BY <2>1, <3>1 DEF LInv, RowsHoldTogether, KeysAreOfTheirRow
    <3>3. QED
      BY <2>1, <3>2, FS_EmptySet
  <2>2. CASE secret[s] # NoProvider
    <3>1. PICK c \in Configurations : configuration[c].secret = s
      BY <2>2 DEF LInv, RowsHoldTogether, NoneIsLeftBehind
    <3>2. Owners = {c}
      BY <3>1 DEF LInv, RowsHoldTogether, OneOwner
    <3>3. QED
      BY <2>2, <3>2, FS_Singleton
  <2>3. QED
    BY <2>1, <2>2
<1>2. QED
  BY <1>1, LInvAlways, PTL

\* While people administer one at a time, the result "ok" of a row is of the target
\* and the key that the row has.
THEOREM TestsAreOfThePresentTarget == OneAtATime => (Spec => []TestIsOfThePresentTarget)
<1> SUFFICES ASSUME OneAtATime PROVE Spec => []TestIsOfThePresentTarget
  OBVIOUS
<1>1. LInv => TestIsOfThePresentTarget
  BY DEF LInv, RowsHoldTogether
<1>2. QED
  BY <1>1, LInvAlways, PTL

\* While people administer one at a time, no test and no proposal, however old the
\* copy it holds, takes the key of one provider to another.
THEOREM NoKeyGoesAstray == OneAtATime => (Spec => []KeysGoToTheirProvider)
<1> SUFFICES ASSUME OneAtATime PROVE Spec => []KeysGoToTheirProvider
  OBVIOUS
<1>1. LInv => KeysGoToTheirProvider
  BY DEF LInv, CallsHoldTogether
<1>2. QED
  BY <1>1, LInvAlways, PTL
=============================================================================
