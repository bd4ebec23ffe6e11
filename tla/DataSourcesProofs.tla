-------------------------- MODULE DataSourcesProofs --------------------------
(***************************************************************************)
(* Proofs about DataSources, for any connections, databases, structures    *)
(* and calls.                                                              *)
(*                                                                         *)
(* Snapshots need no turns: what the table and the foreign key refuse is   *)
(* enough, whatever the copy of a call has become.  The result of a test   *)
(* does: while people administer a connection one at a time, the copy of   *)
(* whoever administers it is the row.                                      *)
(***************************************************************************)
EXTENDS DataSources, TLAPS

RequestRecords ==
    [step : Steps, connection : Connections \cup {NoConnection},
     row : Rows, write : Rows, read : Structures]

-----------------------------------------------------------------------------
(* Records *)

LEMMA NoRowIsTyped == NoRow \in Rows /\ ~ NoRow.exists /\ NoRow.test = "none"
<1>1. SomeDatabase \in Databases
  BY DatabasesAssumption DEF SomeDatabase
<1>2. QED
  BY <1>1 DEF NoRow, Rows, TestStatuses

LEMMA IdleIsTyped == IdleRequest \in RequestRecords
<1>1. SomeStructure \in Structures
  BY StructuresAssumption DEF SomeStructure
<1>2. QED
  BY <1>1, NoRowIsTyped DEF IdleRequest, RequestRecords, Steps

\* What a commit leaves in a row that is there: field by field, the present value
\* where the call changed nothing, its own value where it did.
LEMMA MergeIsARow ==
  ASSUME NEW now \in Rows, NEW row \in Rows, NEW write \in Rows
  PROVE  /\ Merge(now, row, write) \in Rows
         /\ now.exists /\ row.exists /\ write.exists => Merge(now, row, write).exists
         /\ ~ now.exists => Merge(now, row, write) = now
  BY DEF Merge, Rows

\* A call whose copy is the row writes what it wanted.
LEMMA MergeOfTheRow ==
  ASSUME NEW row \in Rows, NEW write \in Rows, row.exists
  PROVE  Merge(row, row, write) = write
  BY DEF Merge, Rows

-----------------------------------------------------------------------------
(* The invariant of the snapshots *)

CallsHaveSubjects ==
    \A r \in Requests : request[r].step # "idle" => request[r].connection \in Connections

\* The calls that will update a row leave it there.
UpdatesKeepTheRow ==
    \A r \in Requests :
        request[r].step \in {"committing", "testing"} =>
            request[r].row.exists /\ request[r].write.exists

NoneTwice == \A c \in Connections : IsInjective(snapshots[c])

SInv ==
    /\ TypeOK
    /\ CallsHaveSubjects
    /\ UpdatesKeepTheRow
    /\ SnapshotsKeepTheirSource
    /\ NoneTwice

LEMMA InitEstablishesSInv == Init => SInv
<1> SUFFICES ASSUME Init PROVE SInv
  OBVIOUS
<1>1. TypeOK
  BY NoRowIsTyped, IdleIsTyped DEF Init, TypeOK, RequestRecords
<1>2. CallsHaveSubjects /\ UpdatesKeepTheRow
  BY DEF Init, IdleRequest, CallsHaveSubjects, UpdatesKeepTheRow
<1>3. SnapshotsKeepTheirSource /\ NoneTwice
  BY DEF Init, SnapshotsKeepTheirSource, NoneTwice, IsInjective
<1>4. QED
  BY <1>1, <1>2, <1>3 DEF SInv

\* The records of the calls stay in order when one of them begins or goes on ...
LEMMA CallKeepsCalls ==
  ASSUME SInv, NEW r \in Requests, NEW call \in RequestRecords,
         request' = [request EXCEPT ![r] = call],
         call.step # "idle" => call.connection \in Connections,
         call.step \in {"committing", "testing"} => call.row.exists /\ call.write.exists
  PROVE  /\ request' \in [Requests -> RequestRecords]
         /\ CallsHaveSubjects'
         /\ UpdatesKeepTheRow'
  BY DEF SInv, TypeOK, RequestRecords, CallsHaveSubjects, UpdatesKeepTheRow

\* ... and when one ends.
LEMMA FinishKeepsCalls ==
  ASSUME SInv, NEW r \in Requests, Finish(r)
  PROVE  /\ request' \in [Requests -> RequestRecords]
         /\ CallsHaveSubjects'
         /\ UpdatesKeepTheRow'
<1>1. IdleRequest.step = "idle"
  BY DEF IdleRequest
<1>2. QED
  BY <1>1, IdleIsTyped, CallKeepsCalls DEF Finish

LEMMA OpenKeepsSInv ==
  ASSUME SInv, NEW r \in Requests, NEW c \in Connections, NEW step \in Steps \ {"idle"},
         NEW row \in Rows, Open(r, c, step, row),
         step \in {"committing", "testing"} => row.exists
  PROVE  SInv'
<1> DEFINE call == [IdleRequest EXCEPT !.step = step, !.connection = c,
                                       !.row = connection[c], !.write = row]
<1>1. /\ call \in RequestRecords
      /\ call.step = step
      /\ call.connection = c
      /\ call.row = connection[c]
      /\ call.write = row
  <2>1. connection[c] \in Rows
    BY DEF SInv, TypeOK
  <2>2. QED
    BY <2>1, IdleIsTyped DEF IdleRequest, RequestRecords
<1>2. request' = [request EXCEPT ![r] = call] /\ connection[c].exists
  BY DEF Open
<1> HIDE DEF call
<1>3. /\ request' \in [Requests -> RequestRecords]
      /\ CallsHaveSubjects'
      /\ UpdatesKeepTheRow'
  BY <1>1, <1>2, CallKeepsCalls
<1>4. QED
  BY <1>3 DEF Open, SInv, TypeOK, RequestRecords, SnapshotsKeepTheirSource, NoneTwice

\* A row that is written keeps the invariant when it is still there or has no snapshot.
LEMMA WriteKeepsSInv ==
  ASSUME SInv, NEW r \in Requests, Finish(r), NEW c \in Connections, NEW row \in Rows,
         connection' = [connection EXCEPT ![c] = row],
         passed' \in [Connections -> BOOLEAN],
         UNCHANGED <<snapshots, structure>>,
         snapshots[c] # <<>> => row.exists
  PROVE  SInv'
<1>1. TypeOK'
  BY FinishKeepsCalls DEF SInv, TypeOK, RequestRecords
<1>2. SnapshotsKeepTheirSource' /\ NoneTwice'
  BY DEF SInv, TypeOK, SnapshotsKeepTheirSource, NoneTwice
<1>3. QED
  BY <1>1, <1>2, FinishKeepsCalls DEF SInv

-----------------------------------------------------------------------------
(* What each action does to the snapshots *)

LEMMA CreationKeepsSInv ==
  ASSUME SInv, NEW c \in Connections, NEW d \in Databases, CreateDataConnection(c, d)
  PROVE  SInv'
<1>1. [NoRow EXCEPT !.exists = TRUE, !.settings = d] \in Rows
  BY NoRowIsTyped DEF Rows
<1>2. TypeOK'
  BY <1>1 DEF CreateDataConnection, SInv, TypeOK
<1>3. SnapshotsKeepTheirSource'
  BY DEF CreateDataConnection, SInv, TypeOK, SnapshotsKeepTheirSource
<1>4. CallsHaveSubjects' /\ UpdatesKeepTheRow' /\ NoneTwice'
  BY DEF CreateDataConnection, SInv, CallsHaveSubjects, UpdatesKeepTheRow, NoneTwice
<1>5. QED
  BY <1>2, <1>3, <1>4 DEF SInv

LEMMA OpeningsKeepSInv ==
  ASSUME SInv, NEW r \in Requests, NEW c \in Connections,
         \/ \E d \in Databases : UpdateDataConnection(r, c, d)
         \/ ActivateDataConnection(r, c)
         \/ DeactivateDataConnection(r, c)
         \/ VerifyDataConnection(r, c)
         \/ DeleteDataConnection(r, c)
         \/ CaptureMetadataSnapshot(r, c)
  PROVE  SInv'
<1> USE DEF Administer, Steps, AdministrationSteps, CaptureSteps
<1>1. connection[c] \in Rows
  BY DEF SInv, TypeOK
<1>2. ASSUME NEW d \in Databases, UpdateDataConnection(r, c, d) PROVE SInv'
  <2>1. /\ [connection[c] EXCEPT !.settings = d, !.test = "none"] \in Rows
        /\ [connection[c] EXCEPT !.settings = d, !.test = "none"].exists = connection[c].exists
    BY <1>1 DEF Rows, TestStatuses
  <2>2. QED
    BY <1>2, <2>1, OpenKeepsSInv DEF UpdateDataConnection, Open
<1>3. CASE ActivateDataConnection(r, c)
  <2>1. /\ [connection[c] EXCEPT !.active = TRUE] \in Rows
        /\ [connection[c] EXCEPT !.active = TRUE].exists = connection[c].exists
    BY <1>1 DEF Rows
  <2>2. QED
    BY <1>3, <2>1, OpenKeepsSInv DEF ActivateDataConnection, Open
<1>4. CASE DeactivateDataConnection(r, c)
  <2>1. /\ [connection[c] EXCEPT !.active = FALSE] \in Rows
        /\ [connection[c] EXCEPT !.active = FALSE].exists = connection[c].exists
    BY <1>1 DEF Rows
  <2>2. QED
    BY <1>4, <2>1, OpenKeepsSInv DEF DeactivateDataConnection, Open
<1>5. CASE VerifyDataConnection(r, c)
  BY <1>1, <1>5, OpenKeepsSInv DEF VerifyDataConnection, Open
<1>6. CASE DeleteDataConnection(r, c)
  BY <1>6, NoRowIsTyped, OpenKeepsSInv DEF DeleteDataConnection
<1>7. CASE CaptureMetadataSnapshot(r, c)
  BY <1>1, <1>7, OpenKeepsSInv DEF CaptureMetadataSnapshot
<1>8. QED
  BY <1>2, <1>3, <1>4, <1>5, <1>6, <1>7

\* The result of a test may be stored in the copy that was tried.
LEMMA ResultIsARow ==
  ASSUME NEW row \in Rows, NEW result \in {"ok", "error"}
  PROVE  /\ [row EXCEPT !.test = result] \in Rows
         /\ row.exists => [row EXCEPT !.test = result].exists
         /\ [row EXCEPT !.test = result].test = result
         /\ [row EXCEPT !.test = result].settings = row.settings
  BY DEF Rows, TestStatuses

LEMMA CommitsKeepSInv ==
  ASSUME SInv, NEW r \in Requests, Commit(r) \/ FinishTest(r) \/ CommitDelete(r)
  PROVE  SInv'
<1> DEFINE c == request[r].connection
<1>1. /\ request[r].row \in Rows
      /\ request[r].write \in Rows
      /\ c \in Connections
      /\ connection[c] \in Rows
      /\ snapshots[c] # <<>> => connection[c].exists
  BY DEF Commit, FinishTest, CommitDelete, SInv, TypeOK, CallsHaveSubjects,
         SnapshotsKeepTheirSource
<1>2. CASE Commit(r)
  <2>1. /\ connection' = [connection EXCEPT ![c] = Merge(connection[c], request[r].row,
                                                         request[r].write)]
        /\ passed' = [passed EXCEPT ![c] = @ /\ connection'[c].settings = connection[c].settings]
        /\ Finish(r)
        /\ UNCHANGED <<snapshots, structure>>
    BY <1>1, <1>2 DEF Commit, Store, SInv, TypeOK
  <2>2. request[r].row.exists /\ request[r].write.exists
    BY <1>2 DEF Commit, SInv, UpdatesKeepTheRow
  <2>3. passed' \in [Connections -> BOOLEAN]
    <3>1. (passed[c] /\ connection'[c].settings = connection[c].settings) \in BOOLEAN
      OBVIOUS
    <3>2. QED
      BY <2>1, <3>1 DEF SInv, TypeOK
  <2>4. QED
    BY <1>1, <2>1, <2>2, <2>3, MergeIsARow, WriteKeepsSInv
<1>3. CASE FinishTest(r)
  <2>1. PICK result \in {"ok", "error"} :
            /\ connection' = [connection EXCEPT ![c] =
                   Merge(connection[c], request[r].row, [request[r].row EXCEPT !.test = result])]
            /\ passed' = [passed EXCEPT
                   ![c] = \/ @
                          \/ result = "ok" /\ connection[c].settings = request[r].row.settings]
    BY <1>1, <1>3 DEF FinishTest, SInv, TypeOK
  <2>2. request[r].row.exists
    BY <1>3 DEF FinishTest, SInv, UpdatesKeepTheRow
  <2>3. passed' \in [Connections -> BOOLEAN]
    <3>1. (passed[c] \/ (result = "ok" /\ connection[c].settings = request[r].row.settings))
              \in BOOLEAN
      OBVIOUS
    <3>2. QED
      BY <2>1, <3>1 DEF SInv, TypeOK
  <2>4. Finish(r) /\ UNCHANGED <<snapshots, structure>>
    BY <1>3 DEF FinishTest
  <2> DEFINE write == [request[r].row EXCEPT !.test = result]
             row == Merge(connection[c], request[r].row, write)
  <2>5. write \in Rows /\ write.exists
    BY <1>1, <2>2, ResultIsARow
  <2> HIDE DEF write
  <2>6. row \in Rows /\ (connection[c].exists => row.exists)
    BY <1>1, <2>2, <2>5, MergeIsARow
  <2>7. connection' = [connection EXCEPT ![c] = row]
    BY <2>1 DEF write
  <2> HIDE DEF row
  <2>8. QED
    BY <1>1, <2>3, <2>4, <2>6, <2>7, WriteKeepsSInv
<1>4. CASE CommitDelete(r)
  <2>1. /\ connection' = [connection EXCEPT ![c] =
               IF snapshots[c] = <<>> THEN NoRow ELSE connection[c]]
        /\ Finish(r)
        /\ UNCHANGED <<passed, snapshots, structure>>
    BY <1>1, <1>4 DEF CommitDelete, SInv, TypeOK
  <2>2. passed' \in [Connections -> BOOLEAN]
    BY <2>1 DEF SInv, TypeOK
  <2>3. QED
    BY <1>1, <2>1, <2>2, NoRowIsTyped, WriteKeepsSInv
<1>5. QED
  BY <1>2, <1>3, <1>4

\* A sequence without repetitions that grows by a new element has none.
LEMMA AppendOfANewOne ==
  ASSUME NEW S, NEW old \in Seq(S), NEW s \in S, IsInjective(old), s \notin ToSet(old)
  PROVE  /\ IsInjective(Append(old, s))
         /\ IsPrefix(old, Append(old, s))
         /\ Append(old, s) \in Seq(S)
<1> DEFINE new == Append(old, s)
<1>1. /\ new \in Seq(S)
      /\ DOMAIN new = 1 .. Len(old) + 1
      /\ \A i \in 1 .. Len(old) : new[i] = old[i]
      /\ new[Len(old) + 1] = s
  OBVIOUS
<1>2. DOMAIN old = 1 .. Len(old) /\ Len(old) \in Nat
  OBVIOUS
<1> HIDE DEF new
<1>3. IsInjective(new)
  BY <1>1, <1>2 DEF IsInjective, ToSet
<1>4. IsPrefix(old, Append(old, s))
  BY DEF IsPrefix
<1>5. QED
  BY <1>1, <1>3, <1>4 DEF new

\* A structure that is kept is a new one, of a connection that is there.
LEMMA CommitSnapshotKeepsSInv ==
  ASSUME SInv, NEW r \in Requests, CommitSnapshot(r)
  PROVE  /\ SInv'
         /\ \A c \in Connections : IsPrefix(snapshots[c], snapshots'[c])
<1> DEFINE c == request[r].connection
           s == request[r].read
<1>1. c \in Connections /\ s \in Structures
  BY DEF CommitSnapshot, SInv, TypeOK, CallsHaveSubjects
<1>2. /\ snapshots[c] \in Seq(Structures)
      /\ IsInjective(snapshots[c])
      /\ \A e \in Connections : snapshots[e] \in Seq(Structures) /\ IsInjective(snapshots[e])
  BY <1>1 DEF SInv, TypeOK, NoneTwice
<1>3. /\ snapshots' = [snapshots EXCEPT ![c] = IF s \in ToSet(snapshots[c]) \/ ~connection[c].exists
                                               THEN snapshots[c] ELSE Append(snapshots[c], s)]
      /\ Finish(r)
      /\ UNCHANGED <<connection, passed, structure>>
  BY <1>1 DEF CommitSnapshot, SInv, TypeOK
<1>4. /\ snapshots'[c] \in Seq(Structures)
      /\ IsInjective(snapshots'[c])
      /\ IsPrefix(snapshots[c], snapshots'[c])
      /\ snapshots'[c] # <<>> => connection[c].exists
  <2>1. CASE s \in ToSet(snapshots[c]) \/ ~connection[c].exists
    <3>1. snapshots'[c] = snapshots[c]
      BY <1>1, <1>3, <2>1 DEF SInv, TypeOK
    <3>2. QED
      BY <1>1, <1>2, <3>1 DEF IsPrefix, SInv, SnapshotsKeepTheirSource
  <2>2. CASE s \notin ToSet(snapshots[c]) /\ connection[c].exists
    <3>1. snapshots'[c] = Append(snapshots[c], s)
      BY <1>1, <1>3, <2>2 DEF SInv, TypeOK
    <3>2. QED
      BY <1>1, <1>2, <2>2, <3>1, AppendOfANewOne
  <2>3. QED
    BY <2>1, <2>2
<1>5. \A e \in Connections \ {c} : snapshots'[e] = snapshots[e]
  BY <1>1, <1>3 DEF SInv, TypeOK
<1>6. \A e \in Connections : IsPrefix(snapshots[e], snapshots[e])
  BY <1>2 DEF IsPrefix
<1>7. TypeOK'
  BY <1>1, <1>3, <1>4, FinishKeepsCalls DEF SInv, TypeOK, RequestRecords
<1>8. SnapshotsKeepTheirSource' /\ NoneTwice'
  BY <1>2, <1>3, <1>4, <1>5 DEF SInv, SnapshotsKeepTheirSource, NoneTwice
<1>9. QED
  BY <1>3, <1>4, <1>5, <1>6, <1>7, <1>8, FinishKeepsCalls DEF SInv

LEMMA OtherStepsKeepSInv ==
  ASSUME SInv,
         \/ \E r \in Requests : ReadMetadata(r) \/ FailCapture(r) \/ RequestDies(r)
         \/ \E d \in Databases, s \in Structures : ChangeStructure(d, s)
  PROVE  SInv'
<1>1. ASSUME NEW r \in Requests, ReadMetadata(r) PROVE SInv'
  <2> DEFINE s == structure[request[r].row.settings]
             call == [request[r] EXCEPT !.step = "captured", !.read = s]
  <2>1. request[r] \in RequestRecords /\ request[r].connection \in Connections
    BY <1>1 DEF ReadMetadata, SInv, TypeOK, RequestRecords, CallsHaveSubjects
  <2>2. s \in Structures
    BY <2>1 DEF SInv, TypeOK, RequestRecords, Rows
  <2>3. /\ call \in RequestRecords
        /\ call.step = "captured"
        /\ call.connection = request[r].connection
    BY <2>1, <2>2 DEF RequestRecords, Steps, CaptureSteps
  <2>4. request' = [request EXCEPT ![r] = call] /\ UNCHANGED <<connection, passed, snapshots, structure>>
    BY <1>1 DEF ReadMetadata, SInv, TypeOK
  <2> HIDE DEF call
  <2>5. /\ request' \in [Requests -> RequestRecords]
        /\ CallsHaveSubjects'
        /\ UpdatesKeepTheRow'
    BY <2>1, <2>3, <2>4, CallKeepsCalls
  <2>6. QED
    BY <2>4, <2>5 DEF SInv, TypeOK, RequestRecords, SnapshotsKeepTheirSource, NoneTwice
<1>2. ASSUME NEW r \in Requests, FailCapture(r) \/ RequestDies(r) PROVE SInv'
  <2>1. Finish(r) /\ UNCHANGED <<connection, passed, snapshots, structure>>
    BY <1>2 DEF FailCapture, RequestDies
  <2>2. QED
    BY <2>1, FinishKeepsCalls DEF SInv, TypeOK, RequestRecords, SnapshotsKeepTheirSource, NoneTwice
<1>3. ASSUME NEW d \in Databases, NEW s \in Structures, ChangeStructure(d, s) PROVE SInv'
  BY <1>3 DEF ChangeStructure, SInv, TypeOK, CallsHaveSubjects, UpdatesKeepTheRow,
              SnapshotsKeepTheirSource, NoneTwice
<1>4. QED
  BY <1>1, <1>2, <1>3

LEMMA StepKeepsSInv == SInv /\ [Next]_vars => SInv'
<1> SUFFICES ASSUME SInv, [Next]_vars PROVE SInv'
  OBVIOUS
<1>1. CASE UNCHANGED vars
  BY <1>1 DEF vars, SInv, TypeOK, CallsHaveSubjects, UpdatesKeepTheRow,
              SnapshotsKeepTheirSource, NoneTwice
<1>2. CASE Next
  BY <1>2, CreationKeepsSInv, OpeningsKeepSInv, CommitsKeepSInv, CommitSnapshotKeepsSInv,
     OtherStepsKeepSInv DEF Next
<1>3. QED
  BY <1>1, <1>2

\* The invariant of the snapshots holds in every reachable state, turns or not.
THEOREM SInvAlways == Spec => []SInv
  BY InitEstablishesSInv, StepKeepsSInv, PTL DEF Spec

-----------------------------------------------------------------------------
(* The invariant of the tests *)

Administers(r) == request[r].step \in AdministrationSteps

TurnsAreTaken ==
    \A r, q \in Requests :
        r # q /\ Administers(r) /\ Administers(q)
            => request[r].connection # request[q].connection

CopiesAreFresh ==
    \A r \in Requests : Administers(r) => request[r].row = connection[request[r].connection]

\* An edit leaves "ok" only with the settings that it read.
EditsWithdrawTests ==
    \A r \in Requests :
        request[r].step = "committing" /\ request[r].write.test = "ok" =>
            /\ request[r].row.test = "ok"
            /\ request[r].write.settings = request[r].row.settings

TInv ==
    /\ TurnsAreTaken
    /\ CopiesAreFresh
    /\ EditsWithdrawTests
    /\ TestIsOfThePresentSettings

LEMMA InitEstablishesTInv == Init => TInv
  BY DEF Init, NoRow, IdleRequest, Administers, AdministrationSteps, TInv, TurnsAreTaken,
         CopiesAreFresh, EditsWithdrawTests, TestIsOfThePresentSettings

\* A call that ends, or goes on reading the source, without having written.
LEMMA QuietStepKeepsTInv ==
  ASSUME SInv, TInv, NEW r \in Requests, NEW call,
         call.step \notin AdministrationSteps,
         request' = [request EXCEPT ![r] = call],
         UNCHANGED <<connection, passed>>
  PROVE  TInv'
<1>1. /\ request'[r] = call
      /\ \A q \in Requests \ {r} : request'[q] = request[q]
  BY DEF SInv, TypeOK
<1>2. \A q \in Requests : Administers(q)' => Administers(q) /\ request'[q] = request[q]
  BY <1>1 DEF Administers
<1>3. TurnsAreTaken' /\ CopiesAreFresh'
  BY <1>2 DEF TInv, TurnsAreTaken, CopiesAreFresh
<1>4. EditsWithdrawTests'
  BY <1>1 DEF TInv, EditsWithdrawTests, AdministrationSteps
<1>5. TestIsOfThePresentSettings'
  BY DEF TInv, TestIsOfThePresentSettings
<1>6. QED
  BY <1>3, <1>4, <1>5 DEF TInv

LEMMA FinishKeepsTInv ==
  ASSUME SInv, TInv, NEW r \in Requests, Finish(r), UNCHANGED <<connection, passed>>
  PROVE  TInv'
<1>1. IdleRequest.step \notin AdministrationSteps
  BY DEF IdleRequest, AdministrationSteps
<1>2. QED
  BY <1>1, QuietStepKeepsTInv DEF Finish

\* A person's turn begins when nobody else has it, with a copy of the row.
LEMMA AdministerKeepsTInv ==
  ASSUME SInv, TInv, OneAtATime, NEW r \in Requests, NEW c \in Connections,
         NEW step \in AdministrationSteps, NEW row \in Rows, Administer(r, c, step, row),
         step = "committing" /\ row.test = "ok" =>
             connection[c].test = "ok" /\ row.settings = connection[c].settings
  PROVE  TInv'
<1> DEFINE call == [IdleRequest EXCEPT !.step = step, !.connection = c,
                                       !.row = connection[c], !.write = row]
<1>1. /\ call.step = step
      /\ call.connection = c
      /\ call.row = connection[c]
      /\ call.write = row
  BY DEF IdleRequest
<1>2. /\ request' = [request EXCEPT ![r] = call]
      /\ UNCHANGED <<connection, passed>>
      /\ \A q \in Requests : request[q].connection = c => ~ Administers(q)
  BY DEF Administer, Open, Administers, AdministrationSteps, CaptureSteps
<1>3. /\ request'[r] = call
      /\ \A q \in Requests \ {r} : request'[q] = request[q]
  BY <1>2 DEF SInv, TypeOK
<1> HIDE DEF call
<1>4. TurnsAreTaken'
  BY <1>1, <1>2, <1>3 DEF TInv, TurnsAreTaken, Administers
<1>5. CopiesAreFresh'
  BY <1>1, <1>2, <1>3 DEF TInv, CopiesAreFresh, Administers
<1>6. EditsWithdrawTests'
  BY <1>1, <1>3 DEF TInv, EditsWithdrawTests
<1>7. TestIsOfThePresentSettings'
  BY <1>2 DEF TInv, TestIsOfThePresentSettings
<1>8. QED
  BY <1>4, <1>5, <1>6, <1>7 DEF TInv

\* A person's turn ends with a row that is "ok" only if its settings passed a test.
LEMMA WriteKeepsTInv ==
  ASSUME SInv, TInv, NEW r \in Requests, Administers(r), Finish(r), NEW row \in Rows,
         connection' = [connection EXCEPT ![request[r].connection] = row],
         \A e \in Connections : e # request[r].connection => passed'[e] = passed[e],
         row.test = "ok" => passed'[request[r].connection]
  PROVE  TInv'
<1> DEFINE c == request[r].connection
<1>1. c \in Connections
  BY DEF SInv, CallsHaveSubjects, Administers, AdministrationSteps
<1>2. /\ connection'[c] = row
      /\ \A e \in Connections \ {c} : connection'[e] = connection[e]
  BY <1>1 DEF SInv, TypeOK
<1>3. /\ request'[r] = IdleRequest
      /\ \A q \in Requests \ {r} : request'[q] = request[q]
  BY DEF Finish, SInv, TypeOK
<1>4. \A q \in Requests : Administers(q)' =>
          /\ Administers(q)
          /\ request'[q] = request[q]
          /\ request[q].connection \in Connections \ {c}
  BY <1>3 DEF Administers, AdministrationSteps, IdleRequest, TInv, TurnsAreTaken, SInv,
              CallsHaveSubjects
<1>5. TurnsAreTaken' /\ CopiesAreFresh'
  BY <1>2, <1>4 DEF TInv, TurnsAreTaken, CopiesAreFresh
<1>6. EditsWithdrawTests'
  BY <1>3 DEF TInv, EditsWithdrawTests, IdleRequest
<1>7. TestIsOfThePresentSettings'
  BY <1>2 DEF TInv, TestIsOfThePresentSettings
<1>8. QED
  BY <1>5, <1>6, <1>7 DEF TInv

-----------------------------------------------------------------------------
(* What each action does to the tests *)

LEMMA CreationKeepsTInv ==
  ASSUME SInv, TInv, NEW c \in Connections, NEW d \in Databases, CreateDataConnection(c, d)
  PROVE  TInv'
<1>1. /\ [NoRow EXCEPT !.exists = TRUE, !.settings = d].test = "none"
      /\ \A q \in Requests : request[q].connection # c
      /\ UNCHANGED request
  BY DEF NoRow, CreateDataConnection
<1>2. /\ connection'[c].test = "none"
      /\ \A e \in Connections \ {c} : connection'[e] = connection[e] /\ passed'[e] = passed[e]
  BY <1>1 DEF CreateDataConnection, SInv, TypeOK
<1>3. TurnsAreTaken' /\ EditsWithdrawTests'
  BY <1>1 DEF TInv, TurnsAreTaken, EditsWithdrawTests, Administers
<1>4. CopiesAreFresh'
  BY <1>1, <1>2 DEF TInv, CopiesAreFresh, Administers, SInv, CallsHaveSubjects,
                    AdministrationSteps
<1>5. TestIsOfThePresentSettings'
  BY <1>2 DEF TInv, TestIsOfThePresentSettings
<1>6. QED
  BY <1>3, <1>4, <1>5 DEF TInv

LEMMA OpeningsKeepTInv ==
  ASSUME SInv, TInv, OneAtATime, NEW r \in Requests, NEW c \in Connections,
         \/ \E d \in Databases : UpdateDataConnection(r, c, d)
         \/ ActivateDataConnection(r, c)
         \/ DeactivateDataConnection(r, c)
         \/ VerifyDataConnection(r, c)
         \/ DeleteDataConnection(r, c)
         \/ CaptureMetadataSnapshot(r, c)
  PROVE  TInv'
<1>1. connection[c] \in Rows
  BY DEF SInv, TypeOK
<1>2. ASSUME NEW d \in Databases, UpdateDataConnection(r, c, d) PROVE TInv'
  <2>1. /\ [connection[c] EXCEPT !.settings = d, !.test = "none"] \in Rows
        /\ [connection[c] EXCEPT !.settings = d, !.test = "none"].test = "none"
    BY <1>1 DEF Rows, TestStatuses
  <2>2. QED
    BY <1>2, <2>1, AdministerKeepsTInv DEF UpdateDataConnection, AdministrationSteps
<1>3. \A active \in BOOLEAN :
          /\ [connection[c] EXCEPT !.active = active] \in Rows
          /\ [connection[c] EXCEPT !.active = active].test = connection[c].test
          /\ [connection[c] EXCEPT !.active = active].settings = connection[c].settings
  BY <1>1 DEF Rows
<1>4. CASE ActivateDataConnection(r, c)
  BY <1>3, <1>4, AdministerKeepsTInv DEF ActivateDataConnection, AdministrationSteps
<1>5. CASE DeactivateDataConnection(r, c)
  BY <1>3, <1>5, AdministerKeepsTInv DEF DeactivateDataConnection, AdministrationSteps
<1>6. CASE VerifyDataConnection(r, c)
  BY <1>1, <1>6, AdministerKeepsTInv DEF VerifyDataConnection, AdministrationSteps
<1>7. CASE DeleteDataConnection(r, c)
  BY <1>7, NoRowIsTyped, AdministerKeepsTInv DEF DeleteDataConnection, AdministrationSteps
<1>8. CASE CaptureMetadataSnapshot(r, c)
  <2> DEFINE call == [IdleRequest EXCEPT !.step = "capturing", !.connection = c,
                          !.row = connection[c], !.write = connection[c]]
  <2>1. call.step \notin AdministrationSteps
    BY DEF IdleRequest, AdministrationSteps
  <2>2. request' = [request EXCEPT ![r] = call] /\ UNCHANGED <<connection, passed>>
    BY <1>8 DEF CaptureMetadataSnapshot, Open
  <2> HIDE DEF call
  <2>3. QED
    BY <2>1, <2>2, QuietStepKeepsTInv
<1>9. QED
  BY <1>2, <1>4, <1>5, <1>6, <1>7, <1>8

LEMMA CommitsKeepTInv ==
  ASSUME SInv, TInv, NEW r \in Requests, Commit(r) \/ FinishTest(r) \/ CommitDelete(r)
  PROVE  TInv'
<1> DEFINE c == request[r].connection
<1>1. /\ request[r].row \in Rows
      /\ request[r].write \in Rows
      /\ c \in Connections
      /\ Administers(r)
      /\ request[r].row = connection[c]
      /\ Finish(r)
  BY DEF Commit, FinishTest, CommitDelete, SInv, TInv, TypeOK, CallsHaveSubjects,
         CopiesAreFresh, Administers, AdministrationSteps
<1>2. connection[c].test = "ok" => passed[c]
  BY <1>1 DEF TInv, TestIsOfThePresentSettings
<1>3. CASE Commit(r)
  <2>1. request[r].row.exists
    BY <1>3 DEF Commit, SInv, UpdatesKeepTheRow
  <2>2. Merge(connection[c], request[r].row, request[r].write) = request[r].write
    BY <1>1, <2>1, MergeOfTheRow
  <2>3. /\ connection' = [connection EXCEPT ![c] = request[r].write]
        /\ connection'[c] = request[r].write
    BY <1>1, <1>3, <2>2 DEF Commit, Store, SInv, TypeOK
  <2>4. /\ passed'[c] = (passed[c] /\ connection'[c].settings = connection[c].settings)
        /\ \A e \in Connections : e # c => passed'[e] = passed[e]
    BY <1>1, <1>3 DEF Commit, SInv, TypeOK
  <2>5. request[r].write.test = "ok" => passed'[c]
    BY <1>1, <1>2, <1>3, <2>3, <2>4 DEF Commit, TInv, EditsWithdrawTests
  <2>6. QED
    BY <1>1, <2>3, <2>4, <2>5, WriteKeepsTInv
<1>4. CASE FinishTest(r)
  <2>1. request[r].row.exists
    BY <1>4 DEF FinishTest, SInv, UpdatesKeepTheRow
  <2>2. PICK result \in {"ok", "error"} :
            /\ connection' = [connection EXCEPT ![c] =
                   Merge(connection[c], request[r].row, [request[r].row EXCEPT !.test = result])]
            /\ passed' = [passed EXCEPT
                   ![c] = \/ @
                          \/ result = "ok" /\ connection[c].settings = request[r].row.settings]
    BY <1>1, <1>4 DEF FinishTest, SInv, TypeOK
  <2> DEFINE write == [request[r].row EXCEPT !.test = result]
  <2>3. write \in Rows /\ write.test = result
    BY <1>1, ResultIsARow
  <2> HIDE DEF write
  <2>4. Merge(connection[c], request[r].row, write) = write
    BY <1>1, <2>1, <2>3, MergeOfTheRow
  <2>5. connection' = [connection EXCEPT ![c] = write]
    BY <2>2, <2>4 DEF write
  <2>6. /\ write.test = "ok" => passed'[c]
        /\ \A e \in Connections : e # c => passed'[e] = passed[e]
    BY <1>1, <2>2, <2>3 DEF SInv, TypeOK
  <2>7. QED
    BY <1>1, <2>3, <2>5, <2>6, WriteKeepsTInv
<1>5. CASE CommitDelete(r)
  <2> DEFINE row == IF snapshots[c] = <<>> THEN NoRow ELSE connection[c]
  <2>1. /\ connection' = [connection EXCEPT ![c] = row]
        /\ UNCHANGED passed
    BY <1>1, <1>5 DEF CommitDelete, SInv, TypeOK
  <2>2. row \in Rows /\ (row.test = "ok" => passed'[c])
    BY <1>1, <1>2, <2>1, NoRowIsTyped
  <2> HIDE DEF row
  <2>3. QED
    BY <1>1, <2>1, <2>2, WriteKeepsTInv
<1>6. QED
  BY <1>3, <1>4, <1>5

LEMMA OtherStepsKeepTInv ==
  ASSUME SInv, TInv,
         \/ \E r \in Requests : \/ ReadMetadata(r) \/ CommitSnapshot(r)
                                \/ FailCapture(r) \/ RequestDies(r)
         \/ \E d \in Databases, s \in Structures : ChangeStructure(d, s)
  PROVE  TInv'
<1>1. ASSUME NEW r \in Requests, ReadMetadata(r) PROVE TInv'
  <2> DEFINE call == [request[r] EXCEPT !.step = "captured",
                                        !.read = structure[request[r].row.settings]]
  <2>1. call.step \notin AdministrationSteps
    BY DEF SInv, TypeOK, AdministrationSteps
  <2>2. request' = [request EXCEPT ![r] = call] /\ UNCHANGED <<connection, passed>>
    BY <1>1 DEF ReadMetadata, SInv, TypeOK
  <2> HIDE DEF call
  <2>3. QED
    BY <2>1, <2>2, QuietStepKeepsTInv
<1>2. ASSUME NEW r \in Requests, CommitSnapshot(r) \/ FailCapture(r) \/ RequestDies(r)
      PROVE  TInv'
  BY <1>2, FinishKeepsTInv DEF CommitSnapshot, FailCapture, RequestDies
<1>3. ASSUME NEW d \in Databases, NEW s \in Structures, ChangeStructure(d, s) PROVE TInv'
  BY <1>3 DEF ChangeStructure, TInv, TurnsAreTaken, CopiesAreFresh, EditsWithdrawTests,
              TestIsOfThePresentSettings, Administers
<1>4. QED
  BY <1>1, <1>2, <1>3

LEMMA StepKeepsTInv == OneAtATime /\ SInv /\ TInv /\ [Next]_vars => TInv'
<1> SUFFICES ASSUME OneAtATime, SInv, TInv, [Next]_vars PROVE TInv'
  OBVIOUS
<1>1. CASE UNCHANGED vars
  BY <1>1 DEF vars, TInv, TurnsAreTaken, CopiesAreFresh, EditsWithdrawTests,
              TestIsOfThePresentSettings, Administers
<1>2. CASE Next
  BY <1>2, CreationKeepsTInv, OpeningsKeepTInv, CommitsKeepTInv, OtherStepsKeepTInv DEF Next
<1>3. QED
  BY <1>1, <1>2

\* The invariant of the tests holds in every reachable state, when people take turns.
THEOREM TInvAlways == OneAtATime => (Spec => []TInv)
<1> SUFFICES ASSUME OneAtATime PROVE Spec => []TInv
  OBVIOUS
<1>1. SInv /\ TInv /\ [Next]_vars => TInv'
  BY StepKeepsTInv
<1>2. QED
  BY SInvAlways, InitEstablishesTInv, <1>1, PTL DEF Spec

-----------------------------------------------------------------------------
(* What follows *)

\* The variables of DataSources always have their types.
THEOREM TypeCorrect == Spec => []TypeOK
<1>1. SInv => TypeOK
  BY DEF SInv
<1>2. QED
  BY SInvAlways, <1>1, PTL

\* A connection with snapshots is never deleted: not by a deletion that counted none
\* before a capture committed, nor does a capture commit for a connection that is gone
\* (delete_data_connection, capture_metadata_snapshot, the foreign key).
THEOREM SnapshotsHaveTheirSource == Spec => []SnapshotsKeepTheirSource
<1>1. SInv => SnapshotsKeepTheirSource
  BY DEF SInv
<1>2. QED
  BY SInvAlways, <1>1, PTL

\* Kept snapshots stay, in their order, and no structure is kept twice, whatever
\* captures overlap with edits and deletions of their connection.
THEOREM HistoryIsKept == Spec => SnapshotsAreHistory
<1>1. SInv /\ SInv' /\ [Next]_vars =>
          [\A c \in Connections :
              /\ IsPrefix(snapshots[c], snapshots'[c])
              /\ IsInjective(snapshots'[c])]_vars
  <2> SUFFICES ASSUME SInv, SInv', Next, NEW c \in Connections
               PROVE  IsPrefix(snapshots[c], snapshots'[c])
    BY DEF SInv, NoneTwice
  <2>1. CASE \E r \in Requests : CommitSnapshot(r)
    BY <2>1, CommitSnapshotKeepsSInv
  <2>2. CASE UNCHANGED snapshots
    <3>1. snapshots[c] \in Seq(Structures)
      BY DEF SInv, TypeOK
    <3>2. QED
      BY <2>2, <3>1 DEF IsPrefix
  <2>3. QED
    BY <2>1, <2>2, ZenonT(60)
    DEF Next, CreateDataConnection, UpdateDataConnection, ActivateDataConnection,
        DeactivateDataConnection, VerifyDataConnection, DeleteDataConnection,
        CaptureMetadataSnapshot, Administer, Open, Commit, FinishTest, CommitDelete,
        ReadMetadata, FailCapture, RequestDies, ChangeStructure
<1>2. QED
  BY SInvAlways, <1>1, PTL DEF Spec, SnapshotsAreHistory

\* While people administer a connection one at a time, "ok" always speaks of the settings
\* it has: no edit, deletion or late answer of a test leaves the result of another one's.
THEOREM TestsAreOfThePresentSettings == OneAtATime => (Spec => []TestIsOfThePresentSettings)
<1>1. TInv => TestIsOfThePresentSettings
  BY DEF TInv
<1>2. QED
  BY TInvAlways, <1>1, PTL
=============================================================================
