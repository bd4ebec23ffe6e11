-------------------------- MODULE ProposalLifecycle --------------------------
(***************************************************************************)
(* The BI proposals (app.bi_proposals): how versions appear and how people *)
(* decide on them, in backend/app/modules/copilot/router.py.               *)
(*                                                                         *)
(* A handler reads the row without locking it, checks it, and at its       *)
(* commit writes the columns whose value differs from the one it read:     *)
(* under READ COMMITTED the last commit wins.  A version is inserted by    *)
(* the transaction that generates it, so nobody sees it "generating".      *)
(***************************************************************************)
EXTENDS Naturals, FiniteSets

CONSTANTS
    Proposals,     \* identities the sequence of bi_proposals can hand out
    Requests,      \* HTTP calls that can be in flight at once
    NoProposal,    \* stands for "no proposal"
    OneAtATime     \* whether people decide on a version one after the other

ASSUME NoProposalAssumption == NoProposal \notin Proposals
ASSUME OneAtATimeAssumption == OneAtATime \in BOOLEAN

VARIABLES
    proposal,   \* Proposals -> [status, current, confirmed]
    verdict,    \* Proposals -> what validate_proposal says today of the document
    request     \* Requests -> [step, proposal, status, confirmed, seen]

vars == <<proposal, verdict, request>>

-----------------------------------------------------------------------------
(* Records *)

Statuses == {"absent", "ready_for_review", "validation_failed",
             "provider_failed", "approved", "rejected", "invalidated",
             "discarded"}

\* Errors; no errors but warnings; neither.
Verdicts == {"invalid", "warned", "clean"}

\* Statuses whose version can be the origin of a revision.
Revisable == {"ready_for_review", "approved", "invalidated", "validation_failed"}

Steps == {"idle", "generating", "revising", "deciding"}

IdleRequest == [step |-> "idle", proposal |-> NoProposal,
                status |-> "absent", confirmed |-> FALSE, seen |-> FALSE]

\* "current": compiled with the prompt and compilation rules that are installed.
\* "confirmed": warnings_confirmed.
NoRow == [status |-> "absent", current |-> FALSE, confirmed |-> FALSE]

Init ==
    /\ proposal = [p \in Proposals |-> NoRow]
    /\ verdict = [p \in Proposals |-> "invalid"]
    /\ request = [r \in Requests |-> IdleRequest]

Finish(r) == request' = [request EXCEPT ![r] = IdleRequest]

-----------------------------------------------------------------------------
(* New versions *)

\* The id is new: no row has it and no open transaction drew it.
Unused(p) ==
    /\ proposal[p].status = "absent"
    /\ \A r \in Requests : request[r].proposal # p

\* Request r inserts version p, which stays invisible until its commit.
Insert(r, p, step) ==
    /\ request[r].step = "idle"
    /\ Unused(p)
    /\ request' = [request EXCEPT ![r] = [IdleRequest EXCEPT !.step = step,
                                                             !.proposal = p]]
    /\ UNCHANGED <<proposal, verdict>>

\* POST /copilot/proposals: the provider is called while the row is pending.
CreateProposal(r, p) == Insert(r, p, "generating")

\* POST /copilot/proposals/{id}/revisions and /relation-revisions.
ReviseProposal(r, source, p) ==
    /\ proposal[source].status \in Revisable
    /\ Insert(r, p, "revising")

\* The row of request r becomes visible with a status and a document about
\* which the rules say v.
Reveal(r, status, v) ==
    /\ proposal' = [proposal EXCEPT ![request[r].proposal] =
                       [status |-> status, current |-> TRUE, confirmed |-> FALSE]]
    /\ verdict' = [verdict EXCEPT ![request[r].proposal] = v]
    /\ Finish(r)

\* Mutant: the row is committed before the provider answers.
CommitWhileGenerating(r) ==
    /\ request[r].step = "generating"
    /\ Reveal(r, "generating", "invalid")

\* The provider fails, no scope can be verified or the rules judge the answer.
FinishGeneration(r) ==
    /\ request[r].step = "generating"
    /\ \/ \E status \in {"provider_failed", "validation_failed"} :
             Reveal(r, status, "invalid")
       \/ \E v \in {"warned", "clean"} : Reveal(r, "ready_for_review", v)

\* A revision goes through the same rules, without the provider.
FinishRevision(r) ==
    /\ request[r].step = "revising"
    /\ \/ Reveal(r, "validation_failed", "invalid")
       \/ \E v \in {"warned", "clean"} : Reveal(r, "ready_for_review", v)

-----------------------------------------------------------------------------
(* Decisions: the row is read and checked *)

\* Request r will store a status and a confirmation for version p, of which it
\* has read the present ones.
Decide(r, p, status, confirmed) ==
    /\ request[r].step = "idle"
    /\ OneAtATime => \A q \in Requests : request[q].proposal # p
    /\ request' = [request EXCEPT ![r] = [step |-> "deciding", proposal |-> p,
                                          status |-> status,
                                          confirmed |-> confirmed,
                                          seen |-> proposal[p].confirmed]]
    /\ UNCHANGED <<proposal, verdict>>

\* A pending version compiled with the installed rules is judged again: errors
\* turn it into "validation_failed", warnings must have been confirmed.
ApproveProposal(r, p, confirmed) ==
    /\ proposal[p].status = "ready_for_review"
    /\ proposal[p].current
    /\ \/ /\ verdict[p] = "invalid"
          /\ Decide(r, p, "validation_failed", proposal[p].confirmed)
       \/ /\ verdict[p] # "invalid"
          /\ verdict[p] = "warned" => confirmed
          /\ Decide(r, p, "approved", confirmed)

\* Mutant: the warnings of the restored version need no confirmation.
RestoreWithoutConfirming(r, p, confirmed) ==
    /\ proposal[p].status = "invalidated"
    /\ verdict[p] # "invalid"
    /\ Decide(r, p, "approved", confirmed)

\* A withdrawn approval comes back when today's rules find no error, whatever
\* rules the version was compiled with.
RestoreProposalApproval(r, p, confirmed) ==
    /\ proposal[p].status = "invalidated"
    /\ verdict[p] # "invalid"
    /\ verdict[p] = "warned" => confirmed
    /\ Decide(r, p, "approved", confirmed)

\* Mutant: the confirmation survives the withdrawal.
InvalidateKeepingConfirmation(r, p) ==
    /\ proposal[p].status = "approved"
    /\ Decide(r, p, "invalidated", proposal[p].confirmed)

InvalidateProposal(r, p) ==
    /\ proposal[p].status = "approved"
    /\ Decide(r, p, "invalidated", FALSE)

\* Mutant: an approved version can be discarded.
DiscardAnything(r, p) ==
    /\ proposal[p].status \notin {"absent", "discarded"}
    /\ Decide(r, p, "discarded", proposal[p].confirmed)

DiscardProposal(r, p) ==
    /\ proposal[p].status \notin {"absent", "discarded", "approved"}
    /\ Decide(r, p, "discarded", proposal[p].confirmed)

RejectProposal(r, p) ==
    /\ proposal[p].status = "ready_for_review"
    /\ Decide(r, p, "rejected", proposal[p].confirmed)

-----------------------------------------------------------------------------
(* Decisions: the commit, and what can happen to the server *)

\* The UPDATE names the columns whose value is not the one that was read.  The
\* status always is another one.
CommitDecision(r) ==
    LET p == request[r].proposal IN
    /\ request[r].step = "deciding"
    /\ proposal' = [proposal EXCEPT
                       ![p].status = request[r].status,
                       ![p].confirmed = IF request[r].confirmed = request[r].seen
                                        THEN @ ELSE request[r].confirmed]
    /\ Finish(r)
    /\ UNCHANGED verdict

\* An unexpected error or a lost connection: the transaction is rolled back.
RequestDies(r) ==
    /\ request[r].step # "idle"
    /\ Finish(r)
    /\ UNCHANGED <<proposal, verdict>>

\* The server restarts with another release: its rules may judge the stored
\* documents differently, and its version numbers may have moved on.
Upgrade ==
    /\ verdict' \in [Proposals -> Verdicts]
    /\ \A p \in Proposals : proposal[p].status = "absent" => verdict'[p] = verdict[p]
    /\ \E renumbered \in BOOLEAN :
          proposal' = [p \in Proposals |->
                          [proposal[p] EXCEPT !.current = @ /\ ~renumbered]]
    /\ request' = [r \in Requests |-> IdleRequest]

Next ==
    \/ \E r \in Requests, p \in Proposals :
          \/ CreateProposal(r, p)
          \/ \E source \in Proposals : ReviseProposal(r, source, p)
          \/ \E confirmed \in BOOLEAN : \/ ApproveProposal(r, p, confirmed)
                                        \/ RestoreProposalApproval(r, p, confirmed)
          \/ InvalidateProposal(r, p)
          \/ DiscardProposal(r, p)
          \/ RejectProposal(r, p)
    \/ \E r \in Requests : \/ FinishGeneration(r)
                           \/ FinishRevision(r)
                           \/ CommitDecision(r)
                           \/ RequestDies(r)
    \/ Upgrade

Spec == Init /\ [][Next]_vars

-----------------------------------------------------------------------------
(* Properties *)

TypeOK ==
    /\ proposal \in [Proposals -> [status : Statuses, current : BOOLEAN,
                                   confirmed : BOOLEAN]]
    /\ verdict \in [Proposals -> Verdicts]
    /\ request \in [Requests ->
                       [step : Steps, proposal : Proposals \cup {NoProposal},
                        status : Statuses, confirmed : BOOLEAN, seen : BOOLEAN]]

\* Only its explicit withdrawal ends an approval (the guards of the decision
\* handlers; discard_proposal asks to withdraw the approval first).
OnlyWithdrawalEndsApproval ==
    [][\A p \in Proposals :
          proposal[p].status = "approved" =>
              proposal'[p].status \in {"approved", "invalidated"}]_vars

\* A version becomes approved only while today's rules find no error in it, with
\* its warnings confirmed, and for the first time only if it was compiled with
\* those rules (approve_proposal, restore_proposal_approval).
ApprovedUnderReview ==
    [][\A p \in Proposals :
          proposal[p].status # "approved" /\ proposal'[p].status = "approved" =>
              /\ verdict[p] # "invalid"
              /\ verdict[p] = "warned" => proposal'[p].confirmed
              /\ proposal[p].current \/ proposal[p].status = "invalidated"]_vars

\* A confirmation of warnings belongs to the approval it was given for: it does
\* not outlive it, so restoring asks for a new one (invalidate_proposal).
ConfirmationIsForApproval ==
    \A p \in Proposals : proposal[p].confirmed => proposal[p].status = "approved"
=============================================================================
