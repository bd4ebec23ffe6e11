--------------------------- MODULE MasterKeyProofs ---------------------------
(***************************************************************************)
(* Proofs about MasterKey, for any number of workers, keys and deaths.     *)
(*                                                                         *)
(* The argument: whoever looks for the key file or makes it holds the lock,*)
(* so that only one process is between the check that no key exists and    *)
(* the replacement, and what any other process has loaded is the file.     *)
(***************************************************************************)
EXTENDS MasterKey, TLAPS

\* A process that checks for the key file, or makes it, holds the lock.
MakersHoldLock ==
    \A p \in Pids : process[p].step \in {"locked", "writing"} => lock = p

\* A key is only being made while there is none.
MakersFoundNone ==
    \A p \in Pids : process[p].step = "writing" => file = NoKey /\ process[p].key \in Keys

\* What a process has loaded is what the file holds.
LoadedIsFile ==
    \A p \in Pids : process[p].step = "loaded" => process[p].key \in Keys /\ process[p].key = file

IInv ==
    /\ TypeOK
    /\ MakersHoldLock
    /\ MakersFoundNone
    /\ LoadedIsFile
    /\ SecretsCanBeOpened

-----------------------------------------------------------------------------
LEMMA InitEstablishesIInv == Init => IInv
  BY NoKeyAssumption, NobodyAssumption
     DEF Init, IInv, TypeOK, MakersHoldLock, MakersFoundNone, LoadedIsFile,
         SecretsCanBeOpened, Down, Steps

LEMMA StepKeepsIInv == IInv /\ [Next]_vars => IInv'
<1> SUFFICES ASSUME IInv, [Next]_vars PROVE IInv'
  OBVIOUS
<1> USE NoKeyAssumption, NobodyAssumption
    DEF IInv, TypeOK, MakersHoldLock, MakersFoundNone, LoadedIsFile,
        SecretsCanBeOpened, Down, Steps
<1>1. ASSUME NEW p \in Pids, Start(p) PROVE IInv'
  BY <1>1 DEF Start
<1>2. ASSUME NEW p \in Pids, Lock(p) PROVE IInv'
  BY <1>2 DEF Lock
<1>3. ASSUME NEW p \in Pids, ReadKey(p) PROVE IInv'
  BY <1>3, ZenonT(60) DEF ReadKey
<1>4. ASSUME NEW p \in Pids, CreateTemporary(p) PROVE IInv'
  <2>1. PICK k \in Keys :
           process' = [process EXCEPT ![p].step = "writing", ![p].key = k]
    BY <1>4 DEF CreateTemporary
  <2>2. TypeOK'
    <3>1. process' \in [Pids -> [step : Steps, up : BOOLEAN, key : Keys \cup {NoKey}]]
      <4>1. [process[p] EXCEPT !.step = "writing", !.key = k]
              \in [step : Steps, up : BOOLEAN, key : Keys \cup {NoKey}]
        OBVIOUS
      <4>2. process' = [process EXCEPT ![p] = [process[p] EXCEPT !.step = "writing", !.key = k]]
        BY <2>1
      <4>3. QED
        BY <4>1, <4>2
    <3>2. temporary' \in [Pids -> BOOLEAN]
      BY <1>4, Zenon DEF CreateTemporary
    <3>3. QED
      BY <1>4, <3>1, <3>2 DEF CreateTemporary
  <2>3. /\ process'[p].step = "writing"
        /\ process'[p].key = k
        /\ \A q \in Pids \ {p} : process'[q] = process[q]
    BY <2>1
  <2>4. MakersHoldLock' /\ MakersFoundNone' /\ LoadedIsFile'
    BY <1>4, <2>3 DEF CreateTemporary
  <2>5. SecretsCanBeOpened'
    BY <1>4 DEF CreateTemporary
  <2>6. QED
    BY <2>2, <2>4, <2>5
<1>5. ASSUME NEW p \in Pids, FailToCreate(p) PROVE IInv'
  BY <1>5 DEF FailToCreate
<1>6. ASSUME NEW p \in Pids, ReplaceKey(p) PROVE IInv'
  BY <1>6 DEF ReplaceKey
<1>7. ASSUME NEW p \in Pids, UseKey(p) PROVE IInv'
  BY <1>7 DEF UseKey
<1>8. ASSUME NEW p \in Pids, Encrypt(p) PROVE IInv'
  BY <1>8 DEF Encrypt
<1>9. ASSUME NEW p \in Pids, Die(p) PROVE IInv'
  BY <1>9 DEF Die
<1>10. CASE UNCHANGED vars
  BY <1>10 DEF vars
<1>11. QED
  BY <1>1, <1>2, <1>3, <1>4, <1>5, <1>6, <1>7, <1>8, <1>9, <1>10 DEF Next, Continue

\* Whatever the workers do and whoever dies, IInv holds.
THEOREM IInvAlways == Spec => []IInv
  BY InitEstablishesIInv, StepKeepsIInv, PTL DEF Spec

-----------------------------------------------------------------------------
\* The variables of MasterKey always have their types.
THEOREM TypeCorrect == Spec => []TypeOK
<1>1. IInv => TypeOK
  BY DEF IInv
<1>2. QED
  BY IInvAlways, <1>1, PTL

\* Every stored secret can be opened with the key file: the two workers that
\* start at once over an empty volume agree on one key.
THEOREM SecretsStayReadable == Spec => []SecretsCanBeOpened
<1>1. IInv => SecretsCanBeOpened
  BY DEF IInv
<1>2. QED
  BY IInvAlways, <1>1, PTL

\* The key file is never replaced once it exists.
THEOREM KeyNeverReplaced == Spec => KeyIsKept
<1>1. IInv /\ [Next]_vars => [file # NoKey => file' = file]_file
  <2> SUFFICES ASSUME IInv, [Next]_vars, file # NoKey PROVE file' = file
    OBVIOUS
  <2>1. ASSUME NEW p \in Pids, ReplaceKey(p) PROVE FALSE
    BY <2>1 DEF ReplaceKey, IInv, MakersFoundNone
  <2>2. ASSUME NEW p \in Pids, Next, ~\E q \in Pids : ReplaceKey(q) PROVE file' = file
    BY <2>2 DEF Next, Continue, Start, Lock, ReadKey, CreateTemporary, FailToCreate,
                UseKey, Encrypt, Die
  <2>3. QED
    BY <2>1, <2>2 DEF vars, Next
<1>2. QED
  BY IInvAlways, <1>1, PTL DEF Spec, KeyIsKept
=============================================================================
