----------------------------- MODULE DataSources -----------------------------
(***************************************************************************)
(* Data connections (app.data_connections) and the snapshots of their      *)
(* structure (app.metadata_snapshots): backend/app/modules/parameters/     *)
(* router.py and backend/app/modules/metadata/router.py.                   *)
(*                                                                         *)
(* A handler reads the connection without locking it, may spend a while in *)
(* a worker thread with that copy, and commits the columns whose value     *)
(* differs from the one it read.  Captures of one connection exclude each  *)
(* other with an advisory lock that they try once.                         *)
(***************************************************************************)
EXTENDS Naturals, Sequences, SequencesExt

CONSTANTS
    Connections,    \* identities the sequence of data_connections can hand out
    OneAtATime,     \* whether people administer a connection one after the other
    Databases,      \* what the settings of a connection can point to
    Structures,     \* canonical documents a database can present (by hash)
    Requests,       \* HTTP calls that can be in flight at once
    NoConnection,   \* stands for "no connection"
    RequestsMayDie  \* whether a call can end without committing or answering

ASSUME OneAtATimeAssumption == OneAtATime \in BOOLEAN
ASSUME NoConnectionAssumption == NoConnection \notin Connections
ASSUME RequestsMayDieAssumption == RequestsMayDie \in BOOLEAN
ASSUME DatabasesAssumption == Databases # {}
ASSUME StructuresAssumption == Structures # {}

VARIABLES
    connection,  \* Connections -> [exists, active, test, settings]
    passed,      \* Connections -> BOOLEAN: its present settings passed a test
    snapshots,   \* Connections -> the structures kept, the latest one last
    structure,   \* Databases -> the structure it presents now
    request      \* Requests -> [step, connection, row, write, read]

vars == <<connection, passed, snapshots, structure, request>>

-----------------------------------------------------------------------------
(* Records *)

TestStatuses == {"none", "ok", "error"}

Rows == [exists : BOOLEAN, active : BOOLEAN, test : TestStatuses,
         settings : Databases]

AdministrationSteps == {"committing", "testing", "deleting"}
CaptureSteps == {"capturing", "captured"}
Steps == {"idle"} \cup AdministrationSteps \cup CaptureSteps

SomeDatabase == CHOOSE d \in Databases : TRUE
SomeStructure == CHOOSE s \in Structures : TRUE

NoRow == [exists |-> FALSE, active |-> FALSE, test |-> "none",
          settings |-> SomeDatabase]

\* "row": the copy that was read; "write": what it becomes; "read": the
\* structure the source answered.
IdleRequest == [step |-> "idle", connection |-> NoConnection,
                row |-> NoRow, write |-> NoRow, read |-> SomeStructure]

Init ==
    /\ connection = [c \in Connections |-> NoRow]
    /\ passed = [c \in Connections |-> FALSE]
    /\ snapshots = [c \in Connections |-> <<>>]
    /\ structure \in [Databases -> Structures]
    /\ request = [r \in Requests |-> IdleRequest]

Finish(r) == request' = [request EXCEPT ![r] = IdleRequest]

\* Request r reads connection c and will make it "row" at its commit.
Open(r, c, step, row) ==
    /\ request[r].step = "idle"
    /\ connection[c].exists
    /\ request' = [request EXCEPT ![r] = [IdleRequest EXCEPT
                      !.step = step, !.connection = c,
                      !.row = connection[c], !.write = row]]
    /\ UNCHANGED <<connection, passed, snapshots, structure>>

\* A person administers connection c with request r.
Administer(r, c, step, row) ==
    /\ OneAtATime => \A q \in Requests : request[q].connection = c
                                             => request[q].step \in CaptureSteps
    /\ Open(r, c, step, row)

\* The UPDATE names the columns that differ from the copy; without a row to
\* update the transaction fails.
Merge(now, row, write) ==
    IF now.exists
    THEN [f \in DOMAIN now |-> IF write[f] = row[f] THEN now[f] ELSE write[f]]
    ELSE now

Store(r) ==
    LET c == request[r].connection IN
    connection' = [connection EXCEPT ![c] = Merge(@, request[r].row, request[r].write)]

-----------------------------------------------------------------------------
(* Connections *)

\* POST /connections: the row appears with its commit, disabled and untested.
CreateDataConnection(c, d) ==
    /\ ~connection[c].exists
    /\ \A r \in Requests : request[r].connection # c
    /\ snapshots[c] = <<>>
    /\ connection' = [connection EXCEPT ![c] = [NoRow EXCEPT !.exists = TRUE,
                                                             !.settings = d]]
    /\ passed' = [passed EXCEPT ![c] = FALSE]
    /\ UNCHANGED <<snapshots, structure, request>>

\* PUT /connections/{id}: new settings withdraw the result of the last test.
UpdateDataConnection(r, c, d) ==
    /\ ~connection[c].active
    /\ Administer(r, c, "committing", [connection[c] EXCEPT !.settings = d, !.test = "none"])

\* POST /connections/{id}/activate
ActivateDataConnection(r, c) ==
    /\ connection[c].test = "ok"
    /\ Administer(r, c, "committing", [connection[c] EXCEPT !.active = TRUE])

\* POST /connections/{id}/deactivate
DeactivateDataConnection(r, c) ==
    Administer(r, c, "committing", [connection[c] EXCEPT !.active = FALSE])

\* Mutant: the row is written back as it was when the call began, test included.
CommitKeepingTest(r) ==
    /\ request[r].step = "committing"
    /\ LET c == request[r].connection IN
       /\ connection' = [connection EXCEPT ![c] =
                            Merge(@, request[r].row,
                                  [request[r].write EXCEPT !.test = request[r].row.test])]
       /\ passed' = [passed EXCEPT
                        ![c] = @ /\ connection'[c].settings = connection[c].settings]
    /\ Finish(r)
    /\ UNCHANGED <<snapshots, structure>>

Commit(r) ==
    /\ request[r].step = "committing"
    /\ Store(r)
    /\ LET c == request[r].connection IN
       passed' = [passed EXCEPT
                     ![c] = @ /\ connection'[c].settings = connection[c].settings]
    /\ Finish(r)
    /\ UNCHANGED <<snapshots, structure>>

\* POST /connections/{id}/test: the copy's settings are tried in a thread.
VerifyDataConnection(r, c) == Administer(r, c, "testing", connection[c])

\* Mutant: the failure is stored under a name that no reader compares with.
TestUnderAnotherName(r) ==
    /\ request[r].step = "testing"
    /\ connection' = [connection EXCEPT ![request[r].connection] =
           Merge(@, request[r].row, [request[r].row EXCEPT !.test = "failed"])]
    /\ Finish(r)
    /\ UNCHANGED <<passed, snapshots, structure>>

\* The source is reachable and read-only, or it is not.
FinishTest(r) ==
    LET c == request[r].connection IN
    /\ request[r].step = "testing"
    /\ \E result \in {"ok", "error"} :
        /\ connection' = [connection EXCEPT ![c] =
               Merge(@, request[r].row, [request[r].row EXCEPT !.test = result])]
        /\ passed' = [passed EXCEPT
               ![c] = \/ @
                      \/ result = "ok" /\ connection[c].settings = request[r].row.settings]
    /\ Finish(r)
    /\ UNCHANGED <<snapshots, structure>>

\* DELETE /connections/{id}: disabled, and no snapshot was counted.
DeleteDataConnection(r, c) ==
    /\ ~connection[c].active
    /\ snapshots[c] = <<>>
    /\ Administer(r, c, "deleting", NoRow)

\* Mutant: the foreign key of the snapshots does not restrict.
DeleteRegardless(r) ==
    /\ request[r].step = "deleting"
    /\ connection' = [connection EXCEPT ![request[r].connection] = NoRow]
    /\ Finish(r)
    /\ UNCHANGED <<passed, snapshots, structure>>

\* The foreign key of the snapshots restricts the DELETE, whose transaction then
\* fails.
CommitDelete(r) ==
    LET c == request[r].connection IN
    /\ request[r].step = "deleting"
    /\ connection' = [connection EXCEPT ![c] = IF snapshots[c] = <<>> THEN NoRow ELSE @]
    /\ Finish(r)
    /\ UNCHANGED <<passed, snapshots, structure>>

-----------------------------------------------------------------------------
(* Snapshots *)

\* POST /metadata/snapshots: the connection is enabled and its last test was ok;
\* then the advisory lock is tried and a second capture is refused.  Captures
\* take the lock in the order in which their transactions began, so that the
\* one committed last is the latest by captured_at too.
CaptureMetadataSnapshot(r, c) ==
    /\ connection[c].active
    /\ connection[c].test = "ok"
    /\ \A q \in Requests : request[q].connection = c
                               => request[q].step \notin CaptureSteps
    /\ Open(r, c, "capturing", connection[c])

\* The thread answers with the structure of the database the copy points to.
ReadMetadata(r) ==
    /\ request[r].step = "capturing"
    /\ request' = [request EXCEPT ![r].step = "captured",
                                  ![r].read = structure[request[r].row.settings]]
    /\ UNCHANGED <<connection, passed, snapshots, structure>>

\* Mutant: only the latest structure is compared, and the table takes any other.
KeepUnlessLatest(r) ==
    LET c == request[r].connection IN
    /\ request[r].step = "captured"
    /\ snapshots' = [snapshots EXCEPT ![c] =
                        IF @ # <<>> /\ Last(@) = request[r].read
                        THEN @ ELSE Append(@, request[r].read)]
    /\ Finish(r)
    /\ UNCHANGED <<connection, passed, structure>>

\* A structure that is the latest one is not kept again.  Otherwise it is
\* inserted, unless the table has it already (the UNIQUE constraint) or the
\* connection is gone (the foreign key): then the transaction fails.
CommitSnapshot(r) ==
    LET c == request[r].connection IN
    /\ request[r].step = "captured"
    /\ snapshots' = [snapshots EXCEPT ![c] =
                        IF request[r].read \in ToSet(@) \/ ~connection[c].exists
                        THEN @ ELSE Append(@, request[r].read)]
    /\ Finish(r)
    /\ UNCHANGED <<connection, passed, structure>>

\* The source cannot be read: the call answers 503 and nothing changes.
FailCapture(r) ==
    /\ request[r].step = "capturing"
    /\ Finish(r)
    /\ UNCHANGED <<connection, passed, snapshots, structure>>

-----------------------------------------------------------------------------
(* The rest of the system *)

RequestDies(r) ==
    /\ RequestsMayDie
    /\ request[r].step # "idle"
    /\ Finish(r)
    /\ UNCHANGED <<connection, passed, snapshots, structure>>

\* Somebody changes the tables of a source database.
ChangeStructure(d, s) ==
    /\ structure' = [structure EXCEPT ![d] = s]
    /\ UNCHANGED <<connection, passed, snapshots, request>>

Next ==
    \/ \E c \in Connections, d \in Databases : CreateDataConnection(c, d)
    \/ \E r \in Requests, c \in Connections :
          \/ \E d \in Databases : UpdateDataConnection(r, c, d)
          \/ ActivateDataConnection(r, c)
          \/ DeactivateDataConnection(r, c)
          \/ VerifyDataConnection(r, c)
          \/ DeleteDataConnection(r, c)
          \/ CaptureMetadataSnapshot(r, c)
    \/ \E r \in Requests :
          \/ Commit(r)
          \/ FinishTest(r)
          \/ CommitDelete(r)
          \/ ReadMetadata(r)
          \/ CommitSnapshot(r)
          \/ FailCapture(r)
          \/ RequestDies(r)
    \/ \E d \in Databases, s \in Structures : ChangeStructure(d, s)

Spec == Init /\ [][Next]_vars

-----------------------------------------------------------------------------
(* Properties *)

TypeOK ==
    /\ connection \in [Connections -> Rows]
    /\ passed \in [Connections -> BOOLEAN]
    /\ snapshots \in [Connections -> Seq(Structures)]
    /\ structure \in [Databases -> Structures]
    /\ request \in [Requests ->
                       [step : Steps, connection : Connections \cup {NoConnection},
                        row : Rows, write : Rows, read : Structures]]

\* While people administer a connection one at a time, "ok" speaks of the settings it
\* has now: no edit inherits the result of another one's test
\* (update_data_connection, verify_data_connection).
TestIsOfThePresentSettings ==
    \A c \in Connections : connection[c].test = "ok" => passed[c]

\* A connection with snapshots stays, though a capture that was reading while
\* the connection was disabled and deleted may still want to commit.
SnapshotsKeepTheirSource ==
    \A c \in Connections : snapshots[c] # <<>> => connection[c].exists

\* Two captures never give one connection the same structure twice, and a kept
\* snapshot is never removed or replaced (capture_metadata_snapshot).
SnapshotsAreHistory ==
    [][\A c \in Connections :
          /\ IsPrefix(snapshots[c], snapshots'[c])
          /\ IsInjective(snapshots'[c])]_vars
=============================================================================
