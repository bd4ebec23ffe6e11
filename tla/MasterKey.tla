------------------------------ MODULE MasterKey ------------------------------
(***************************************************************************)
(* The key that seals every stored credential: SecretCipher in             *)
(* backend/app/modules/parameters/secrets.py.  The workers of the service  *)
(* share the volume of the key file.  Each loads the key when it starts    *)
(* (main.py) and again for every secret, and the first one makes it, under *)
(* a lock of the file system that the kernel releases when its holder dies.*)
(*                                                                         *)
(* The calls are synchronous, so that a process is at one of them at most. *)
(***************************************************************************)
CONSTANTS
    Pids,      \* process identifiers of workers, which restarts use again
    Mortal,    \* those whose process can be killed at any moment
    Keys,      \* keys Fernet.generate_key can return
    NoKey,     \* stands for "no key"
    Nobody     \* stands for "no holder of the lock"

ASSUME MortalAssumption == Mortal \subseteq Pids
ASSUME NoKeyAssumption == NoKey \notin Keys
ASSUME NobodyAssumption == Nobody \notin Pids

VARIABLES
    file,       \* content of the key file
    temporary,  \* Pids -> BOOLEAN: the file <key>.tmp-<pid> exists
    lock,       \* who holds the lock of <key>.lock
    process,    \* Pids -> [step, up, key]
    sealed      \* the keys that stored secrets are encrypted with

vars == <<file, temporary, lock, process, sealed>>

-----------------------------------------------------------------------------
(* Processes *)

Steps == {"down", "waiting", "locked", "writing", "loaded", "serving"}

\* "up" tells a call of ensure_ready, before which nothing is served, from those
\* that seal a secret; "key" is what the process has generated or read.
Down == [step |-> "down", up |-> FALSE, key |-> NoKey]

Init ==
    /\ file = NoKey
    /\ temporary = [p \in Pids |-> FALSE]
    /\ lock = Nobody
    /\ process = [p \in Pids |-> Down]
    /\ sealed = {}

\* The service starts a worker, which calls ensure_ready.
Start(p) ==
    /\ process[p].step = "down"
    /\ process' = [process EXCEPT ![p] = [Down EXCEPT !.step = "waiting"]]
    /\ UNCHANGED <<file, temporary, lock, sealed>>

\* Mutant: the key file is looked for without waiting for the lock.
LockShared(p) ==
    /\ process[p].step = "waiting"
    /\ lock' = p
    /\ process' = [process EXCEPT ![p].step = "locked"]
    /\ UNCHANGED <<file, temporary, sealed>>

\* flock(LOCK_EX) waits until nobody holds the lock.
Lock(p) ==
    /\ process[p].step = "waiting"
    /\ lock = Nobody
    /\ lock' = p
    /\ process' = [process EXCEPT ![p].step = "locked"]
    /\ UNCHANGED <<file, temporary, sealed>>

\* The key exists: it is read and the lock released.
ReadKey(p) ==
    /\ process[p].step = "locked"
    /\ file # NoKey
    /\ process' = [process EXCEPT ![p].step = "loaded", ![p].key = file]
    /\ lock' = Nobody
    /\ UNCHANGED <<file, temporary, sealed>>

\* A key is generated and its temporary file created, which O_EXCL refuses when
\* a dead process of the same pid left one.
CreateTemporary(p) ==
    /\ process[p].step = "locked"
    /\ file = NoKey
    /\ ~temporary[p]
    /\ \E k \in Keys :
          process' = [process EXCEPT ![p].step = "writing", ![p].key = k]
    /\ temporary' = [temporary EXCEPT ![p] = TRUE]
    /\ UNCHANGED <<file, lock, sealed>>

\* FileExistsError: a start fails with it, a call that was sealing answers 500.
FailToCreate(p) ==
    /\ process[p].step = "locked"
    /\ file = NoKey
    /\ temporary[p]
    /\ process' = [process EXCEPT ![p] = IF @.up THEN [@ EXCEPT !.step = "serving"]
                                                 ELSE Down]
    /\ lock' = Nobody
    /\ UNCHANGED <<file, temporary, sealed>>

\* The temporary file, written and synchronized, replaces the key file.
ReplaceKey(p) ==
    /\ process[p].step = "writing"
    /\ file' = process[p].key
    /\ temporary' = [temporary EXCEPT ![p] = FALSE]
    /\ process' = [process EXCEPT ![p].step = "loaded"]
    /\ lock' = Nobody
    /\ UNCHANGED sealed

\* With the key, a start is over, or a secret is encrypted and stored.
UseKey(p) ==
    /\ process[p].step = "loaded"
    /\ sealed' = IF process[p].up THEN sealed \cup {process[p].key} ELSE sealed
    /\ process' = [process EXCEPT ![p] = [step |-> "serving", up |-> TRUE, key |-> NoKey]]
    /\ UNCHANGED <<file, temporary, lock>>

\* A request brings a credential to seal.
Encrypt(p) ==
    /\ process[p].step = "serving"
    /\ process' = [process EXCEPT ![p].step = "waiting"]
    /\ UNCHANGED <<file, temporary, lock, sealed>>

\* Mutant: the lock is a file that its holder has to remove.
DieWithLock(p) ==
    /\ p \in Mortal
    /\ process[p].step # "down"
    /\ process' = [process EXCEPT ![p] = Down]
    /\ UNCHANGED <<file, temporary, lock, sealed>>

\* Mutant: the key is written in place, where a death leaves a part of it.
DieWriting(p) ==
    /\ p \in Mortal
    /\ process[p].step # "down"
    /\ process' = [process EXCEPT ![p] = Down]
    /\ lock' = IF lock = p THEN Nobody ELSE lock
    /\ file' = IF process[p].step = "writing" THEN "part of a key" ELSE file
    /\ UNCHANGED <<temporary, sealed>>

\* The process is killed: the kernel releases its lock, its files stay.
Die(p) ==
    /\ p \in Mortal
    /\ process[p].step # "down"
    /\ process' = [process EXCEPT ![p] = Down]
    /\ lock' = IF lock = p THEN Nobody ELSE lock
    /\ UNCHANGED <<file, temporary, sealed>>

\* What a process does when it is scheduled.
Continue(p) ==
    \/ ReadKey(p)
    \/ CreateTemporary(p)
    \/ FailToCreate(p)
    \/ ReplaceKey(p)
    \/ UseKey(p)

Next == \E p \in Pids : Start(p) \/ Lock(p) \/ Continue(p) \/ Encrypt(p) \/ Die(p)

Spec == Init /\ [][Next]_vars

\* Workers are started again and scheduled, and flock is granted to whoever
\* waits while it keeps becoming free.
Fairness == \A p \in Pids : /\ WF_vars(Start(p))
                            /\ WF_vars(Continue(p))
                            /\ SF_vars(Lock(p))

FairSpec == Spec /\ Fairness

-----------------------------------------------------------------------------
(* Properties *)

TypeOK ==
    /\ file \in Keys \cup {NoKey}
    /\ temporary \in [Pids -> BOOLEAN]
    /\ lock \in Pids \cup {Nobody}
    /\ process \in [Pids -> [step : Steps, up : BOOLEAN, key : Keys \cup {NoKey}]]
    /\ sealed \subseteq Keys

\* Every stored secret can be opened with the key file, whichever worker sealed
\* it and whoever died while the key was being made.
SecretsCanBeOpened == sealed \subseteq {file}

\* There is one key for ever: once made it is never replaced, so that no
\* process goes on with a key that is not the one of the file.
KeyIsKept == [][file # NoKey => file' = file]_file

\* A worker that is not killed gets to serve, though another one may die at any
\* step, temporary file and lock in hand, as often as it likes.
SurvivorsServe ==
    \A p \in Pids \ Mortal : process[p].step = "waiting" ~> process[p].step = "serving"
=============================================================================
