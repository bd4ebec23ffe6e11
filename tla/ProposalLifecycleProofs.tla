----------------------- MODULE ProposalLifecycleProofs -----------------------
(***************************************************************************)
(* Proofs about ProposalLifecycle, for any versions and any calls.  All    *)
(* but the types need that people decide on a version one after the other. *)
(*                                                                         *)
(* The argument: a version that a call is about belongs to that call until *)
(* it ends, so what the call read still holds at its commit.  No row is    *)
(* locked for that: ids are drawn once, and decisions take turns.          *)
(***************************************************************************)
EXTENDS ProposalLifecycle, TLAPS

RequestRecords ==
    [step : Steps, proposal : Proposals \cup {NoProposal},
     status : Statuses, confirmed : BOOLEAN, seen : BOOLEAN]

\* A call is about one version from its beginning to its end.
CallsHaveSubjects ==
    \A r \in Requests : request[r].step = "idle" <=> request[r].proposal = NoProposal

CallsExcludeEachOther ==
    \A r, q \in Requests :
        r # q /\ request[r].proposal = request[q].proposal
            => request[r].proposal = NoProposal

\* The row of a version that is being generated or revised is not visible.
PendingAreInvisible ==
    \A r \in Requests :
        request[r].step \in {"generating", "revising"} =>
            proposal[request[r].proposal].status = "absent"

\* Decision d may be stored over row p, of whose document the rules say v.
Sound(d, p, v) ==
    \/ /\ d.status = "approved"
       /\ \/ p.status = "ready_for_review" /\ p.current
          \/ p.status = "invalidated"
       /\ v # "invalid"
       /\ v = "warned" => d.confirmed
    \/ /\ d.status \in {"validation_failed", "rejected"}
       /\ p.status = "ready_for_review"
       /\ d.confirmed = p.confirmed
    \/ d.status = "invalidated" /\ p.status = "approved" /\ ~ d.confirmed
    \/ /\ d.status = "discarded"
       /\ p.status \notin {"absent", "discarded", "approved"}
       /\ d.confirmed = p.confirmed

\* What a decision has read still holds.
DecisionsAreFresh ==
    \A r \in Requests :
        request[r].step = "deciding" =>
            LET p == request[r].proposal
            IN  /\ request[r].seen = proposal[p].confirmed
                /\ Sound(request[r], proposal[p], verdict[p])

IInv ==
    /\ TypeOK
    /\ ConfirmationIsForApproval
    /\ CallsHaveSubjects
    /\ CallsExcludeEachOther
    /\ PendingAreInvisible
    /\ DecisionsAreFresh

-----------------------------------------------------------------------------
(* The initial state *)

LEMMA InitEstablishesIInv == Init => IInv
<1> SUFFICES ASSUME Init PROVE IInv
  OBVIOUS
<1> USE NoProposalAssumption DEF Init, NoRow, IdleRequest
<1>1. TypeOK /\ ConfirmationIsForApproval
  BY DEF TypeOK, Statuses, Verdicts, Steps, ConfirmationIsForApproval
<1>2. CallsHaveSubjects /\ CallsExcludeEachOther
  BY DEF CallsHaveSubjects, CallsExcludeEachOther
<1>3. PendingAreInvisible /\ DecisionsAreFresh
  BY DEF PendingAreInvisible, DecisionsAreFresh
<1>4. QED
  BY <1>1, <1>2, <1>3 DEF IInv

-----------------------------------------------------------------------------
(* What the actions share *)

LEMMA IdleIsTyped == IdleRequest \in RequestRecords
  BY DEF IdleRequest, RequestRecords, Steps, Statuses

\* A call that is not idle has a version, which no other call has.
LEMMA SubjectIsOwn ==
  ASSUME IInv, NEW r \in Requests, request[r].step # "idle"
  PROVE  /\ request[r].proposal \in Proposals
         /\ \A q \in Requests \ {r} : request[q].proposal # request[r].proposal
<1>1. request[r] \in RequestRecords
  BY DEF IInv, TypeOK, RequestRecords
<1>2. request[r].proposal \in Proposals
  BY <1>1 DEF RequestRecords, IInv, CallsHaveSubjects
<1>3. QED
  BY <1>2, NoProposalAssumption DEF IInv, CallsExcludeEachOther

\* A call that begins keeps the invariant, if its version is nobody's and it is
\* invisible or the decision on it is sound.
LEMMA BeginKeepsIInv ==
  ASSUME IInv, NEW r \in Requests, NEW call \in RequestRecords,
         request' = [request EXCEPT ![r] = call],
         UNCHANGED <<proposal, verdict>>,
         call.step # "idle",
         call.proposal \in Proposals,
         \A q \in Requests : request[q].proposal # call.proposal,
         call.step \in {"generating", "revising"} =>
             proposal[call.proposal].status = "absent",
         call.step = "deciding" =>
             /\ call.seen = proposal[call.proposal].confirmed
             /\ Sound(call, proposal[call.proposal], verdict[call.proposal])
  PROVE  IInv'
<1>1. /\ request'[r] = call
      /\ \A q \in Requests \ {r} : request'[q] = request[q]
  BY DEF IInv, TypeOK
<1>2. TypeOK' /\ ConfirmationIsForApproval'
  BY DEF IInv, TypeOK, RequestRecords, ConfirmationIsForApproval
<1>3. CallsHaveSubjects' /\ CallsExcludeEachOther'
  BY <1>1, NoProposalAssumption DEF IInv, CallsHaveSubjects, CallsExcludeEachOther
<1>4. PendingAreInvisible'
  BY <1>1 DEF IInv, PendingAreInvisible
<1>5. DecisionsAreFresh'
  BY <1>1 DEF IInv, DecisionsAreFresh, Sound
<1>6. QED
  BY <1>2, <1>3, <1>4, <1>5 DEF IInv

\* A call that ends having written only its own version keeps the invariant, if
\* the new row is confirmed only when it is approved.
LEMMA EndKeepsIInv ==
  ASSUME IInv, NEW r \in Requests, request[r].step # "idle", Finish(r),
         NEW row \in [status : Statuses, current : BOOLEAN, confirmed : BOOLEAN],
         NEW v \in Verdicts,
         proposal' = [proposal EXCEPT ![request[r].proposal] = row],
         verdict' = [verdict EXCEPT ![request[r].proposal] = v],
         row.confirmed => row.status = "approved"
  PROVE  IInv'
<1> DEFINE p == request[r].proposal
<1>1. /\ request'[r] = IdleRequest
      /\ \A q \in Requests \ {r} : request'[q] = request[q]
  BY DEF IInv, TypeOK, Finish
<1>2. /\ p \in Proposals
      /\ \A q \in Requests \ {r} : request[q].proposal # p
  BY SubjectIsOwn
<1>3. /\ proposal'[p] = row
      /\ \A o \in Proposals \ {p} : proposal'[o] = proposal[o] /\ verdict'[o] = verdict[o]
  BY <1>2 DEF IInv, TypeOK
<1>4. TypeOK'
  <2>1. request' \in [Requests -> RequestRecords]
    BY IdleIsTyped DEF IInv, TypeOK, Finish, RequestRecords
  <2>2. QED
    BY <2>1 DEF IInv, TypeOK, RequestRecords
<1>5. ConfirmationIsForApproval'
  BY <1>3 DEF IInv, ConfirmationIsForApproval
<1>6. CallsHaveSubjects' /\ CallsExcludeEachOther'
  BY <1>1 DEF IInv, CallsHaveSubjects, CallsExcludeEachOther, IdleRequest
<1>7. \A q \in Requests : request'[q].step # "idle" =>
          /\ q # r
          /\ request'[q] = request[q]
          /\ request[q].proposal \in Proposals \ {p}
  BY <1>1, <1>2, SubjectIsOwn DEF IdleRequest
<1>8. PendingAreInvisible'
  BY <1>3, <1>7 DEF IInv, PendingAreInvisible
<1>9. DecisionsAreFresh'
  <2> SUFFICES ASSUME NEW q \in Requests, request'[q].step = "deciding"
               PROVE  LET o == request'[q].proposal
                      IN  /\ request'[q].seen = proposal'[o].confirmed
                          /\ Sound(request'[q], proposal'[o], verdict'[o])
    BY DEF DecisionsAreFresh, Sound
  <2>1. /\ request'[q] = request[q]
        /\ proposal'[request[q].proposal] = proposal[request[q].proposal]
        /\ verdict'[request[q].proposal] = verdict[request[q].proposal]
    BY <1>3, <1>7
  <2>2. QED
    BY <2>1 DEF IInv, DecisionsAreFresh
<1>10. QED
  BY <1>4, <1>5, <1>6, <1>8, <1>9 DEF IInv

-----------------------------------------------------------------------------
(* New versions *)

LEMMA InsertKeepsIInv ==
  ASSUME IInv, NEW r \in Requests, NEW p \in Proposals,
         NEW step \in {"generating", "revising"}, Insert(r, p, step)
  PROVE  IInv'
<1> DEFINE call == [IdleRequest EXCEPT !.step = step, !.proposal = p]
<1>1. /\ call \in RequestRecords
      /\ call.step = step
      /\ call.proposal = p
  BY DEF IdleRequest, RequestRecords, Steps, Statuses
<1>2. /\ request' = [request EXCEPT ![r] = call]
      /\ UNCHANGED <<proposal, verdict>>
      /\ proposal[p].status = "absent"
      /\ \A q \in Requests : request[q].proposal # p
  BY DEF Insert, Unused
<1> HIDE DEF call
<1>3. QED
  BY <1>1, <1>2, BeginKeepsIInv

LEMMA RevealKeepsIInv ==
  ASSUME IInv, NEW r \in Requests, request[r].step # "idle",
         NEW status \in Statuses \ {"absent"}, NEW v \in Verdicts, Reveal(r, status, v)
  PROVE  IInv'
<1> DEFINE row == [status |-> status, current |-> TRUE, confirmed |-> FALSE]
<1>1. row \in [status : Statuses, current : BOOLEAN, confirmed : BOOLEAN] /\ ~ row.confirmed
  OBVIOUS
<1>2. QED
  BY <1>1, EndKeepsIInv DEF Reveal

-----------------------------------------------------------------------------
(* Decisions *)

\* A decision that is sound when it is taken keeps the invariant: the version is
\* nobody else's.
LEMMA DecideKeepsIInv ==
  ASSUME IInv, OneAtATime, NEW r \in Requests, NEW p \in Proposals,
         NEW status \in Statuses, NEW confirmed \in BOOLEAN,
         Decide(r, p, status, confirmed),
         Sound([status |-> status, confirmed |-> confirmed], proposal[p], verdict[p])
  PROVE  IInv'
<1> DEFINE call == [step |-> "deciding", proposal |-> p, status |-> status,
                    confirmed |-> confirmed, seen |-> proposal[p].confirmed]
<1>1. /\ call \in RequestRecords
      /\ call.step = "deciding"
      /\ call.proposal = p
      /\ call.seen = proposal[p].confirmed
  BY DEF IInv, TypeOK, RequestRecords, Steps
<1>2. Sound(call, proposal[p], verdict[p])
  BY DEF Sound
<1>3. /\ request' = [request EXCEPT ![r] = call]
      /\ UNCHANGED <<proposal, verdict>>
      /\ \A q \in Requests : request[q].proposal # p
  BY DEF Decide
<1> HIDE DEF call
<1>4. QED
  BY <1>1, <1>2, <1>3, BeginKeepsIInv

\* The decisions of every handler are sound.
LEMMA DecisionsKeepIInv ==
  ASSUME IInv, OneAtATime, NEW r \in Requests, NEW p \in Proposals, NEW confirmed \in BOOLEAN,
         \/ ApproveProposal(r, p, confirmed)
         \/ RestoreProposalApproval(r, p, confirmed)
         \/ InvalidateProposal(r, p)
         \/ DiscardProposal(r, p)
         \/ RejectProposal(r, p)
  PROVE  IInv'
<1> USE DEF Sound, Statuses
<1>1. proposal[p].confirmed \in BOOLEAN
  BY DEF IInv, TypeOK
<1>2. CASE ApproveProposal(r, p, confirmed)
  BY <1>1, <1>2, DecideKeepsIInv DEF ApproveProposal
<1>3. CASE RestoreProposalApproval(r, p, confirmed)
  BY <1>3, DecideKeepsIInv DEF RestoreProposalApproval
<1>4. CASE InvalidateProposal(r, p)
  BY <1>4, DecideKeepsIInv DEF InvalidateProposal
<1>5. CASE DiscardProposal(r, p)
  BY <1>1, <1>5, DecideKeepsIInv DEF DiscardProposal
<1>6. CASE RejectProposal(r, p)
  BY <1>1, <1>6, DecideKeepsIInv DEF RejectProposal
<1>7. QED
  BY <1>2, <1>3, <1>4, <1>5, <1>6

\* What a commit stores is what was decided: the columns left out of the UPDATE
\* hold what the decision had read.
LEMMA CommitStoresDecision ==
  ASSUME IInv, NEW r \in Requests, CommitDecision(r)
  PROVE  LET p == request[r].proposal
         IN  proposal' = [proposal EXCEPT ![p] =
                             [status |-> request[r].status, current |-> proposal[p].current,
                              confirmed |-> request[r].confirmed]]
<1> DEFINE p == request[r].proposal
           stored == [proposal[p] EXCEPT
                         !.status = request[r].status,
                         !.confirmed = IF request[r].confirmed = request[r].seen
                                       THEN @ ELSE request[r].confirmed]
<1>1. request[r].step = "deciding" /\ p \in Proposals
  BY SubjectIsOwn DEF CommitDecision
<1>2. proposal' = [proposal EXCEPT ![p] = stored]
  BY <1>1 DEF CommitDecision, IInv, TypeOK
<1>3. request[r].seen = proposal[p].confirmed
  BY <1>1 DEF IInv, DecisionsAreFresh
<1>4. proposal[p] \in [status : Statuses, current : BOOLEAN, confirmed : BOOLEAN]
  BY <1>1 DEF IInv, TypeOK
<1>5. stored = [status |-> request[r].status, current |-> proposal[p].current,
                confirmed |-> request[r].confirmed]
  <2>1. (IF request[r].confirmed = request[r].seen
         THEN proposal[p].confirmed ELSE request[r].confirmed) = request[r].confirmed
    BY <1>3
  <2>2. \A s \in Statuses, y \in BOOLEAN :
            LET row == [proposal[p] EXCEPT !.status = s, !.confirmed = y]
            IN  /\ row \in [status : Statuses, current : BOOLEAN, confirmed : BOOLEAN]
                /\ row.status = s
                /\ row.current = proposal[p].current
                /\ row.confirmed = y
    BY <1>4
  <2>3. request[r].status \in Statuses /\ request[r].confirmed \in BOOLEAN
    BY DEF IInv, TypeOK
  <2>4. /\ stored \in [status : Statuses, current : BOOLEAN, confirmed : BOOLEAN]
        /\ stored.status = request[r].status
        /\ stored.current = proposal[p].current
        /\ stored.confirmed = request[r].confirmed
    BY <2>1, <2>2, <2>3
  <2> HIDE DEF stored
  <2>5. QED
    BY <2>4
<1>6. QED
  BY <1>2, <1>5

LEMMA CommitKeepsIInv ==
  ASSUME IInv, NEW r \in Requests, CommitDecision(r)
  PROVE  IInv'
<1> DEFINE p == request[r].proposal
           row == [status |-> request[r].status, current |-> proposal[p].current,
                   confirmed |-> request[r].confirmed]
<1>1. /\ request[r].step = "deciding"
      /\ p \in Proposals
      /\ request[r] \in RequestRecords
  BY SubjectIsOwn DEF CommitDecision, IInv, TypeOK, RequestRecords
<1>2. row \in [status : Statuses, current : BOOLEAN, confirmed : BOOLEAN]
  BY <1>1 DEF IInv, TypeOK, RequestRecords
<1>3. Sound(request[r], proposal[p], verdict[p])
  BY <1>1 DEF IInv, DecisionsAreFresh
<1>4. row.confirmed => row.status = "approved"
  BY <1>1, <1>3 DEF Sound, IInv, ConfirmationIsForApproval
<1>5. verdict' = [verdict EXCEPT ![p] = verdict[p]] /\ verdict[p] \in Verdicts
  BY <1>1 DEF CommitDecision, IInv, TypeOK
<1>6. proposal' = [proposal EXCEPT ![p] = row] /\ Finish(r)
  BY CommitStoresDecision DEF CommitDecision
<1> HIDE DEF row
<1>7. QED
  BY <1>1, <1>2, <1>4, <1>5, <1>6, EndKeepsIInv

-----------------------------------------------------------------------------
(* The server *)

LEMMA RequestDiesKeepsIInv ==
  ASSUME IInv, NEW r \in Requests, RequestDies(r)
  PROVE  IInv'
<1> DEFINE p == request[r].proposal
<1>1. p \in Proposals /\ request[r].step # "idle"
  BY SubjectIsOwn DEF RequestDies
<1>2. /\ proposal' = [proposal EXCEPT ![p] = proposal[p]]
      /\ verdict' = [verdict EXCEPT ![p] = verdict[p]]
      /\ proposal[p] \in [status : Statuses, current : BOOLEAN, confirmed : BOOLEAN]
      /\ verdict[p] \in Verdicts
      /\ proposal[p].confirmed => proposal[p].status = "approved"
  BY <1>1 DEF RequestDies, IInv, TypeOK, ConfirmationIsForApproval
<1>3. Finish(r)
  BY DEF RequestDies
<1>4. PICK row \in [status : Statuses, current : BOOLEAN, confirmed : BOOLEAN],
           v \in Verdicts :
          /\ proposal' = [proposal EXCEPT ![request[r].proposal] = row]
          /\ verdict' = [verdict EXCEPT ![request[r].proposal] = v]
          /\ row.confirmed => row.status = "approved"
  BY <1>2
<1>5. QED
  BY <1>1, <1>3, <1>4, EndKeepsIInv

LEMMA UpgradeKeepsIInv ==
  ASSUME IInv, Upgrade
  PROVE  IInv'
<1>1. \A p \in Proposals :
          /\ proposal'[p] \in [status : Statuses, current : BOOLEAN, confirmed : BOOLEAN]
          /\ proposal'[p].status = proposal[p].status
          /\ proposal'[p].confirmed = proposal[p].confirmed
  <2> SUFFICES ASSUME NEW p \in Proposals
               PROVE  /\ proposal'[p] \in [status : Statuses, current : BOOLEAN,
                                           confirmed : BOOLEAN]
                      /\ proposal'[p].status = proposal[p].status
                      /\ proposal'[p].confirmed = proposal[p].confirmed
    OBVIOUS
  <2>1. PICK renumbered \in BOOLEAN :
            proposal' = [o \in Proposals |->
                            [proposal[o] EXCEPT !.current = @ /\ ~renumbered]]
    BY DEF Upgrade
  <2>2. (proposal[p].current /\ ~renumbered) \in BOOLEAN
    OBVIOUS
  <2>3. \A x \in BOOLEAN :
            LET row == [proposal[p] EXCEPT !.current = x]
            IN  /\ row \in [status : Statuses, current : BOOLEAN, confirmed : BOOLEAN]
                /\ row.status = proposal[p].status
                /\ row.confirmed = proposal[p].confirmed
    BY DEF IInv, TypeOK
  <2>4. QED
    BY <2>1, <2>2, <2>3
<1>2. \A r \in Requests : request'[r] = IdleRequest
  BY DEF Upgrade
<1>3. TypeOK'
  <2>1. proposal' \in [Proposals -> [status : Statuses, current : BOOLEAN, confirmed : BOOLEAN]]
    BY <1>1 DEF Upgrade
  <2>2. request' \in [Requests -> RequestRecords]
    BY IdleIsTyped DEF Upgrade
  <2>3. QED
    BY <2>1, <2>2 DEF Upgrade, TypeOK, RequestRecords
<1>4. ConfirmationIsForApproval'
  BY <1>1 DEF IInv, ConfirmationIsForApproval
<1>5. CallsHaveSubjects' /\ CallsExcludeEachOther' /\ PendingAreInvisible' /\ DecisionsAreFresh'
  BY <1>2 DEF IdleRequest, CallsHaveSubjects, CallsExcludeEachOther, PendingAreInvisible,
              DecisionsAreFresh
<1>6. QED
  BY <1>3, <1>4, <1>5 DEF IInv

-----------------------------------------------------------------------------
(* Every step *)

LEMMA StepKeepsIInv == OneAtATime /\ IInv /\ [Next]_vars => IInv'
<1> SUFFICES ASSUME OneAtATime, IInv, [Next]_vars PROVE IInv'
  OBVIOUS
<1>1. ASSUME NEW r \in Requests, NEW p \in Proposals,
             \/ CreateProposal(r, p)
             \/ \E source \in Proposals : ReviseProposal(r, source, p)
      PROVE  IInv'
  BY <1>1, InsertKeepsIInv DEF CreateProposal, ReviseProposal
<1>2. ASSUME NEW r \in Requests, NEW p \in Proposals,
             \/ \E confirmed \in BOOLEAN : \/ ApproveProposal(r, p, confirmed)
                                           \/ RestoreProposalApproval(r, p, confirmed)
             \/ InvalidateProposal(r, p)
             \/ DiscardProposal(r, p)
             \/ RejectProposal(r, p)
      PROVE  IInv'
  BY <1>2, DecisionsKeepIInv
<1>3. ASSUME NEW r \in Requests, FinishGeneration(r) \/ FinishRevision(r) PROVE IInv'
  BY <1>3, RevealKeepsIInv DEF FinishGeneration, FinishRevision, Statuses, Verdicts
<1>4. ASSUME NEW r \in Requests, CommitDecision(r) \/ RequestDies(r) PROVE IInv'
  BY <1>4, CommitKeepsIInv, RequestDiesKeepsIInv
<1>5. CASE Upgrade
  BY <1>5, UpgradeKeepsIInv
<1>6. CASE UNCHANGED vars
  BY <1>6 DEF vars, IInv, TypeOK, ConfirmationIsForApproval, CallsHaveSubjects,
              CallsExcludeEachOther, PendingAreInvisible, DecisionsAreFresh, Sound
<1>7. QED
  BY <1>1, <1>2, <1>3, <1>4, <1>5, <1>6 DEF Next

\* The invariant holds in every reachable state, when decisions on a version take turns.
THEOREM IInvAlways == OneAtATime => (Spec => []IInv)
<1> SUFFICES ASSUME OneAtATime PROVE Spec => []IInv
  OBVIOUS
<1>1. IInv /\ [Next]_vars => IInv'
  BY StepKeepsIInv
<1>2. QED
  BY InitEstablishesIInv, <1>1, PTL DEF Spec

-----------------------------------------------------------------------------
(* What follows *)

\* Types need no turns.
LEMMA CallIsTyped ==
  ASSUME TypeOK, NEW r \in Requests, NEW call \in RequestRecords,
         request' = [request EXCEPT ![r] = call]
  PROVE  request' \in [Requests -> RequestRecords]
  BY DEF TypeOK, RequestRecords

LEMMA StepIsTyped == TypeOK /\ [Next]_vars => TypeOK'
<1> SUFFICES ASSUME TypeOK, [Next]_vars PROVE TypeOK'
  OBVIOUS
<1> DEFINE Versions == [status : Statuses, current : BOOLEAN, confirmed : BOOLEAN]
<1>1. ASSUME NEW r \in Requests, NEW p \in Proposals, NEW step \in Steps, Insert(r, p, step)
      PROVE  TypeOK'
  <2> DEFINE call == [IdleRequest EXCEPT !.step = step, !.proposal = p]
  <2>1. call \in RequestRecords
    BY IdleIsTyped DEF RequestRecords
  <2>2. request' = [request EXCEPT ![r] = call]
    BY <1>1 DEF Insert
  <2> HIDE DEF call
  <2>3. QED
    BY <1>1, <2>1, <2>2, CallIsTyped DEF Insert, TypeOK, RequestRecords
<1>2. ASSUME NEW r \in Requests, NEW status \in Statuses, NEW v \in Verdicts,
             Reveal(r, status, v)
      PROVE  TypeOK'
  <2>1. request' \in [Requests -> RequestRecords]
    BY <1>2, IdleIsTyped, CallIsTyped DEF Reveal, Finish
  <2>2. QED
    BY <1>2, <2>1 DEF Reveal, TypeOK, RequestRecords
<1>3. ASSUME NEW r \in Requests, NEW p \in Proposals, NEW status \in Statuses,
             NEW confirmed \in BOOLEAN, Decide(r, p, status, confirmed)
      PROVE  TypeOK'
  <2> DEFINE call == [step |-> "deciding", proposal |-> p, status |-> status,
                      confirmed |-> confirmed, seen |-> proposal[p].confirmed]
  <2>1. call \in RequestRecords
    BY DEF TypeOK, RequestRecords, Steps
  <2>2. request' = [request EXCEPT ![r] = call]
    BY <1>3 DEF Decide
  <2> HIDE DEF call
  <2>3. QED
    BY <1>3, <2>1, <2>2, CallIsTyped DEF Decide, TypeOK, RequestRecords
<1>4. ASSUME NEW r \in Requests, CommitDecision(r) PROVE TypeOK'
  <2> DEFINE p == request[r].proposal
  <2>1. request' \in [Requests -> RequestRecords]
    BY <1>4, IdleIsTyped, CallIsTyped DEF CommitDecision, Finish
  <2>2. \A q \in Proposals : proposal'[q] \in Versions
    BY <1>4 DEF CommitDecision, TypeOK
  <2>3. DOMAIN proposal' = Proposals /\ proposal' = [q \in DOMAIN proposal' |-> proposal'[q]]
    BY <1>4 DEF CommitDecision, TypeOK
  <2>4. QED
    BY <1>4, <2>1, <2>2, <2>3 DEF CommitDecision, TypeOK, RequestRecords
<1>5. ASSUME NEW r \in Requests, RequestDies(r) PROVE TypeOK'
  BY <1>5, IdleIsTyped, CallIsTyped DEF RequestDies, Finish, TypeOK, RequestRecords
<1>6. CASE Upgrade
  <2>1. PICK renumbered \in BOOLEAN :
            proposal' = [p \in Proposals |-> [proposal[p] EXCEPT !.current = @ /\ ~renumbered]]
    BY <1>6 DEF Upgrade
  <2>2. \A p \in Proposals : (proposal[p].current /\ ~renumbered) \in BOOLEAN
    OBVIOUS
  <2>3. proposal' \in [Proposals -> Versions]
    BY <2>1, <2>2, ZenonT(60) DEF TypeOK
  <2>4. QED
    BY <1>6, <2>3, IdleIsTyped DEF Upgrade, TypeOK, RequestRecords
<1>7. ASSUME NEW r \in Requests, NEW p \in Proposals,
             \/ \E confirmed \in BOOLEAN : \/ ApproveProposal(r, p, confirmed)
                                           \/ RestoreProposalApproval(r, p, confirmed)
             \/ InvalidateProposal(r, p)
             \/ DiscardProposal(r, p)
             \/ RejectProposal(r, p)
      PROVE  TypeOK'
  <2>1. proposal[p].confirmed \in BOOLEAN
    BY DEF TypeOK
  <2>2. \E status \in Statuses, confirmed \in BOOLEAN : Decide(r, p, status, confirmed)
    BY <1>7, <2>1 DEF ApproveProposal, RestoreProposalApproval, InvalidateProposal,
                      DiscardProposal, RejectProposal, Statuses
  <2>3. QED
    BY <1>3, <2>2
<1>8. CASE UNCHANGED vars
  BY <1>8 DEF vars, TypeOK
<1>9. QED
  BY <1>1, <1>2, <1>4, <1>5, <1>6, <1>7, <1>8
  DEF Next, CreateProposal, ReviseProposal, FinishGeneration, FinishRevision,
      Steps, Statuses, Verdicts

\* The variables of ProposalLifecycle always have their types, turns or not.
THEOREM TypeCorrect == Spec => []TypeOK
<1>1. Init => TypeOK
  BY InitEstablishesIInv DEF IInv
<1>2. QED
  BY <1>1, StepIsTyped, PTL DEF Spec

\* A confirmation of warnings never outlives the approval it was given for
\* (invalidate_proposal, and the columns that a commit does not write).
THEOREM ConfirmationEndsWithApproval == OneAtATime => (Spec => []ConfirmationIsForApproval)
<1>1. IInv => ConfirmationIsForApproval
  BY DEF IInv
<1>2. QED
  BY IInvAlways, <1>1, PTL

\* A step changes the status of a version in three ways only.
LEMMA StatusChanges ==
  ASSUME IInv, Next, NEW p \in Proposals, proposal'[p].status # proposal[p].status
  PROVE  \/ /\ proposal[p].status = "absent"
            /\ proposal'[p].status # "approved"
         \/ \E r \in Requests :
               /\ CommitDecision(r)
               /\ request[r].proposal = p
               /\ proposal'[p].status = request[r].status
               /\ proposal'[p].confirmed = request[r].confirmed
               /\ Sound(request[r], proposal[p], verdict[p])
<1>1. ASSUME UNCHANGED proposal PROVE FALSE
  BY <1>1
<1>2. ASSUME NEW r \in Requests, FinishGeneration(r) \/ FinishRevision(r)
      PROVE  proposal[p].status = "absent" /\ proposal'[p].status # "approved"
  <2>1. request[r].step \in {"generating", "revising"}
    BY <1>2 DEF FinishGeneration, FinishRevision
  <2>2. /\ request[r].proposal \in Proposals
        /\ proposal[request[r].proposal].status = "absent"
    BY <2>1, SubjectIsOwn DEF IInv, PendingAreInvisible
  <2>3. PICK status \in {"provider_failed", "validation_failed", "ready_for_review"} :
            proposal' = [proposal EXCEPT ![request[r].proposal] =
                            [status |-> status, current |-> TRUE, confirmed |-> FALSE]]
    BY <1>2 DEF FinishGeneration, FinishRevision, Reveal
  <2>4. QED
    BY <2>2, <2>3 DEF IInv, TypeOK
<1>3. ASSUME NEW r \in Requests, CommitDecision(r)
      PROVE  /\ request[r].proposal = p
             /\ proposal'[p].status = request[r].status
             /\ proposal'[p].confirmed = request[r].confirmed
             /\ Sound(request[r], proposal[p], verdict[p])
  <2>1. request[r].step = "deciding"
    BY <1>3 DEF CommitDecision
  <2>2. request[r].proposal \in Proposals
    BY <2>1, SubjectIsOwn
  <2>3. proposal' = [proposal EXCEPT ![request[r].proposal] =
                        [status |-> request[r].status,
                         current |-> proposal[request[r].proposal].current,
                         confirmed |-> request[r].confirmed]]
    BY <1>3, CommitStoresDecision
  <2>4. request[r].proposal = p
    BY <2>3 DEF IInv, TypeOK
  <2>5. QED
    BY <2>1, <2>3, <2>4 DEF IInv, TypeOK, DecisionsAreFresh
<1>4. ASSUME Upgrade PROVE FALSE
  <2>1. PICK renumbered \in BOOLEAN :
            proposal' = [o \in Proposals |->
                            [proposal[o] EXCEPT !.current = @ /\ ~renumbered]]
    BY <1>4 DEF Upgrade
  <2>2. QED
    BY <2>1 DEF IInv, TypeOK
<1>5. ASSUME NEW r \in Requests, NEW o \in Proposals,
             \/ CreateProposal(r, o)
             \/ \E source \in Proposals : ReviseProposal(r, source, o)
             \/ \E confirmed \in BOOLEAN : \/ ApproveProposal(r, o, confirmed)
                                           \/ RestoreProposalApproval(r, o, confirmed)
             \/ InvalidateProposal(r, o)
             \/ DiscardProposal(r, o)
             \/ RejectProposal(r, o)
      PROVE  UNCHANGED proposal
  BY <1>5 DEF CreateProposal, ReviseProposal, Insert, ApproveProposal,
     RestoreProposalApproval, InvalidateProposal, DiscardProposal, RejectProposal, Decide
<1>6. ASSUME NEW r \in Requests, RequestDies(r) PROVE UNCHANGED proposal
  BY <1>6 DEF RequestDies
<1>7. QED
  BY <1>1, <1>2, <1>3, <1>4, <1>5, <1>6 DEF Next

\* Whatever people do at the same time to other versions, and however often the
\* server is replaced, an approval ends by its withdrawal only.
THEOREM ApprovalEndsByWithdrawal == OneAtATime => (Spec => OnlyWithdrawalEndsApproval)
<1>1. IInv /\ [Next]_vars =>
          [\A p \in Proposals :
              proposal[p].status = "approved" =>
                  proposal'[p].status \in {"approved", "invalidated"}]_vars
  <2> SUFFICES ASSUME IInv, Next, NEW p \in Proposals, proposal[p].status = "approved"
               PROVE  proposal'[p].status \in {"approved", "invalidated"}
    OBVIOUS
  <2>1. CASE proposal'[p].status = proposal[p].status
    BY <2>1
  <2>2. CASE proposal'[p].status # proposal[p].status
    BY <2>2, StatusChanges DEF Sound
  <2>3. QED
    BY <2>1, <2>2
<1>2. QED
  BY IInvAlways, <1>1, PTL DEF Spec, OnlyWithdrawalEndsApproval

\* An approval is stored only over a version in which the rules of the moment find no
\* error, with its warnings confirmed, and for the first time only if it was compiled
\* with those rules: what the handler checked still holds when it commits.
THEOREM ApprovalFollowsReview == OneAtATime => (Spec => ApprovedUnderReview)
<1>1. IInv /\ [Next]_vars =>
          [\A p \in Proposals :
              proposal[p].status # "approved" /\ proposal'[p].status = "approved" =>
                  /\ verdict[p] # "invalid"
                  /\ verdict[p] = "warned" => proposal'[p].confirmed
                  /\ proposal[p].current \/ proposal[p].status = "invalidated"]_vars
  <2> SUFFICES ASSUME IInv, Next, NEW p \in Proposals,
                      proposal[p].status # "approved", proposal'[p].status = "approved"
               PROVE  /\ verdict[p] # "invalid"
                      /\ verdict[p] = "warned" => proposal'[p].confirmed
                      /\ proposal[p].current \/ proposal[p].status = "invalidated"
    OBVIOUS
  <2>1. PICK r \in Requests : /\ proposal'[p].status = request[r].status
                              /\ proposal'[p].confirmed = request[r].confirmed
                              /\ Sound(request[r], proposal[p], verdict[p])
    BY StatusChanges
  <2>2. QED
    BY <2>1 DEF Sound
<1>2. QED
  BY IInvAlways, <1>1, PTL DEF Spec, ApprovedUnderReview
=============================================================================
