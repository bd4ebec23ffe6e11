--------------------------- MODULE ExecutionLedger ---------------------------
(***************************************************************************)
(* What the ETL promises about its execution records, without requests,    *)
(* locks or a data mart: a record is opened for a contract that no other   *)
(* live record holds, is begun once, is settled once, and only a loaded    *)
(* record is reviewed afterwards.  EtlExecutions implements this.          *)
(***************************************************************************)
CONSTANTS Executions,   \* identities of execution records
          Contracts,    \* (proposal, KPI selection) pairs
          NoContract    \* the contract of a record that does not exist yet

VARIABLE ledger         \* Executions -> [status, contract]

Statuses == {"absent", "prepared", "running", "succeeded",
             "validation_warning", "failed"}

\* Statuses that block a second execution of the same contract.
NonRepeatable == {"prepared", "running", "succeeded", "validation_warning"}

Loaded == {"succeeded", "validation_warning"}

Init == ledger = [e \in Executions |->
                    [status |-> "absent", contract |-> NoContract]]

Taken(c) == \E e \in Executions : /\ ledger[e].status \in NonRepeatable
                                  /\ ledger[e].contract = c

Open(e, c) ==
    /\ ledger[e].status = "absent"
    /\ ~Taken(c)
    /\ ledger' = [ledger EXCEPT ![e] = [status |-> "prepared", contract |-> c]]

Begin(e) ==
    /\ ledger[e].status = "prepared"
    /\ ledger' = [ledger EXCEPT ![e].status = "running"]

Settle(e, outcome) ==
    /\ ledger[e].status = "running"
    /\ ledger' = [ledger EXCEPT ![e].status = outcome]

Review(e, verdict) ==
    /\ ledger[e].status \in Loaded
    /\ ledger' = [ledger EXCEPT ![e].status = verdict]

Next == \E e \in Executions :
            \/ \E c \in Contracts : Open(e, c)
            \/ Begin(e)
            \/ \E outcome \in Loaded \cup {"failed"} : Settle(e, outcome)
            \/ \E verdict \in Loaded : Review(e, verdict)

Spec == Init /\ [][Next]_ledger
=============================================================================
