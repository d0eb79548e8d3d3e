------------------------ MODULE ServingProcessProofs -------------------------
(***************************************************************************)
(* Proofs about ServingProcess for every value of the bounds: the process  *)
(* takes only steps of the journal, so everything proved of the journal    *)
(* holds of it, and a resume is applied to what the operator inspected.    *)
(***************************************************************************)
EXTENDS ServingProcess, RecoveryJournalProofs

\* The restart of an open, and the resume that follows it, are under way.
Restarting == pc \in {"adopt", "restart"} \/ (pc \in CommitPcs /\ op = "restart")
Resuming == pc = "resume" \/ (pc \in CommitPcs /\ op = "resume")

\* One commit lies between the token and the projection.
OneAhead == Len(projection) = Len(token) + 1 /\ IsPrefix(token, projection)

\* Until a requested resume is applied, the projection has gone no further than
\* the token, and then the restart of this start.
ResumeInv ==
  /\ token \in Seq(Row)
  /\ Restarting => stage = "start" /\ (resume => projection = token)
  /\ Resuming => stage = "start" /\ OneAhead

-----------------------------------------------------------------------------

\* Each step of the process is a step of the journal or leaves it alone.
LEMMA ServingStep == [ServingNext]_servingVars => [Next]_vars
BY Zenon DEF ServingNext, servingVars, Recommand, StartOpen, Handle, Started, NotApplied, Stop,
             CreateState, CreatedState, Notify, Fail, Next, OpenStep

\* The process that serves a journal only ever does to it what the journal's
\* handle allows (start, main, create_state).
THEOREM ServingIsJournal == ServingSpec => Spec
<1>1. ServingInit => Init
  BY DEF ServingInit
<1> QED
  BY <1>1, ServingStep, PTL DEF ServingSpec, Spec

\* A start opens the journal at the head its token names.
LEMMA StartOpenResume ==
  ASSUME TypeOK, ResumeInv, StartOpen
  PROVE  ResumeInv'
<1>1. token' = token /\ token \in Seq(Row) /\ stage' = "start"
  BY DEF StartOpen, ResumeInv
<1>2. CASE Open /\ TokenAccepted
  <2>1. pc' \in {"adopt", "restart"} /\ projection' = rows
    BY <1>2, Zenon DEF Open
  <2>2. resume' => token = rows
    BY <1>2, Zenon DEF StartOpen, TokenAccepted
  <2> QED
    BY <1>1, <2>1, <2>2 DEF ResumeInv, Restarting, Resuming, CommitPcs
<1>3. CASE OpenHeld \/ OpenHeldUnsaved \/ OpenFails
  <2>1. pc' \in {"persist", "held"}
    BY <1>3, Zenon DEF OpenHeld, OpenHeldUnsaved, OpenFails
  <2> QED
    BY <1>1, <2>1 DEF ResumeInv, Restarting, Resuming, CommitPcs
<1> QED
  BY <1>2, <1>3, Zenon DEF StartOpen

\* The last write of an append moves a restart on to the resume it was asked for.
LEMMA CommitSlotResume ==
  ASSUME TypeOK, ResumeInv, CommitSlot, Handle
  PROVE  ResumeInv'
<1>1. /\ token' = token /\ token \in Seq(Row) /\ op' = op
      /\ pc = "commit_slot"
      /\ projection' = Append(projection, pending)
      /\ pc' = IF op = "restart" /\ resume THEN "resume" ELSE "ready"
  BY Zenon DEF CommitSlot, Handle, ResumeInv
<1>2. CASE op = "restart" /\ resume
  <2>1. stage = "start" /\ projection = token /\ pc' = "resume"
    BY <1>1, <1>2 DEF ResumeInv, Restarting, CommitPcs
  <2>2. stage' = stage
    BY <1>2, Zenon DEF Handle
  <2>3. pending \in Row
    BY DEF TypeOK, Row
  <2>4. OneAhead'
    BY <1>1, <2>1, <2>3, PrefixAppend, Zenon DEF OneAhead
  <2> QED
    BY <1>1, <2>1, <2>2, <2>4 DEF ResumeInv, Restarting, CommitPcs
<1>3. CASE ~(op = "restart" /\ resume)
  <2>1. pc' = "ready"
    BY <1>1, <1>3, Zenon
  <2> QED
    BY <1>1, <2>1 DEF ResumeInv, Restarting, Resuming, CommitPcs
<1> QED
  BY <1>2, <1>3

\* A step of a call keeps the relation between token and projection.
LEMMA HandleResume ==
  ASSUME TypeOK, ResumeInv, Handle
  PROVE  ResumeInv'
<1> USE DEF CommitPcs, memory
<1>1. CASE CommitSlot
  BY <1>1, CommitSlotResume
<1>2. CASE CreateCommit \/ CreateAnchorFile \/ CreateSlot \/ CreateDone \/ PersistHold
           \/ RestartFull \/ ResumeFull \/ SkipResume
  <2>1. pc' \in {"create_anchor", "create_slot", "create_sync", "ready", "persist", "held"}
    BY <1>2, Zenon DEF CreateCommit, CreateAnchorFile, CreateSlot, CreateDone, PersistHold,
                       RestartFull, ResumeFull, SkipResume, LatchFull, Latch
  <2>2. token' = token
    BY DEF Handle
  <2> QED
    BY <2>1, <2>2 DEF ResumeInv, Restarting, Resuming
<1>3. CASE AdoptTail \/ Restart \/ ResumeAtOpen \/ CommitSql \/ CommitSync
  <2>1. /\ pc # "commit_slot"
        /\ Restarting' => Restarting
        /\ Resuming' => Resuming
        /\ resume' = resume /\ projection' = projection
    BY <1>3 DEF AdoptTail, Restart, ResumeAtOpen, BeginCommit, CommitSql, CommitSync,
                Restarting, Resuming
  <2>2. token' = token /\ stage' = stage
    BY <2>1, Zenon DEF Handle
  <2> QED
    BY <2>1, <2>2 DEF ResumeInv, OneAhead
<1> QED
  BY <1>1, <1>2, <1>3, Zenon DEF Handle, CallStep

\* So does every other step.
LEMMA ResumeStep ==
  ASSUME TypeOK, ResumeInv, [ServingNext]_servingVars
  PROVE  ResumeInv'
<1> USE DEF CommitPcs, memory
<1>1. CASE StartOpen
  BY <1>1, StartOpenResume
<1>2. CASE Handle
  BY <1>2, HandleResume
<1>3. CASE Recommand
  <2>1. token' \in Seq(Row)
    <3>1. << >> \in Seq(Row)
      OBVIOUS
    <3>2. rows \in Seq(Row)
      BY Zenon DEF TypeOK
    <3> QED
      BY <1>3, <3>1, <3>2, Zenon DEF Recommand
  <2>2. pc' = "down"
    BY <1>3, Zenon DEF Recommand, vars
  <2> QED
    BY <2>1, <2>2 DEF ResumeInv, Restarting, Resuming
<1>4. CASE UNCHANGED servingVars
  BY <1>4 DEF servingVars, vars, ResumeInv, Restarting, Resuming, OneAhead
<1>5. CASE Started
  <2>1. token' = token /\ pc' \in {"ready", "held"}
    BY <1>5, Zenon DEF Started, vars
  <2> QED
    BY <2>1 DEF ResumeInv, Restarting, Resuming
<1>6. CASE NotApplied \/ Stop \/ CreateState \/ CreatedState \/ Notify \/ Fail
  <2>1. token' = token
    BY <1>6, Zenon DEF NotApplied, Stop, CreateState, CreatedState, Notify, Fail
  <2>2. ~Restarting' /\ ~Resuming'
    <3>1. CASE Notify
      <4>1. pc' = "held" \/ (op' = "admit" /\ pc' = "commit_sql")
        BY <3>1, Zenon DEF Notify, AdmitStep, Admit, BeginCommit, AdmitFull, AdmitFails,
                           LatchFull, LatchFault, Latch
      <4> QED
        BY <4>1 DEF Restarting, Resuming
    <3>2. CASE NotApplied \/ Stop \/ CreateState \/ CreatedState \/ Fail
      <4>1. pc' \in {"held", "down", "create_sql"}
        BY <3>2, Zenon DEF NotApplied, Stop, CreateState, CreatedState, Fail, Close, ProcessGone,
                           Create, FailStep, RestartFails, ResumeFails, LatchFault, Latch,
                           CommitFails, SlotFails, Crash, RowFault, SlotFault
      <4> QED
        BY <4>1 DEF Restarting, Resuming
    <3> QED
      BY <1>6, <3>1, <3>2
  <2> QED
    BY <2>1, <2>2 DEF ResumeInv
<1> QED
  BY <1>1, <1>2, <1>3, <1>4, <1>5, <1>6, Zenon DEF ServingNext

\* Only the last write of a resume's append marks the start as resumed.
LEMMA ResumedStep ==
  ASSUME TypeOK, ResumeInv, [ServingNext]_servingVars, stage # "resumed", stage' = "resumed"
  PROVE  Len(projection') = Len(token) + 2 /\ IsPrefix(token, projection')
<1>1. Handle
  BY Zenon DEF ServingNext, servingVars, Recommand, StartOpen, Started, NotApplied, Stop,
               CreateState, CreatedState, Notify, Fail
<1>2. pc = "commit_slot" /\ op = "resume"
  BY <1>1, Zenon DEF Handle
<1>3. CommitSlot
  BY <1>1, <1>2 DEF Handle, CallStep, CreateCommit, CreateAnchorFile, CreateSlot, CreateDone,
                    PersistHold, AdoptTail, Restart, RestartFull, ResumeAtOpen, ResumeFull,
                    SkipResume, CommitSql, CommitSync
<1>4. OneAhead /\ token \in Seq(Row)
  BY <1>2 DEF ResumeInv, Resuming, CommitPcs
<1>5. projection' = Append(projection, pending) /\ pending \in Row /\ projection \in Seq(Row)
  BY <1>3 DEF CommitSlot, TypeOK, Row
<1>6. /\ projection' \in Seq(Row)
      /\ Len(projection') = Len(projection) + 1
      /\ IsPrefix(projection, projection')
  BY <1>5, PrefixAppend, Zenon
<1>7. IsPrefix(token, projection')
  BY <1>4, <1>5, <1>6, PrefixOrder, Zenon DEF OneAhead
<1>8. Len(token) \in Nat /\ Len(projection) = Len(token) + 1
  BY <1>4 DEF OneAhead
<1> QED
  BY <1>6, <1>7, <1>8

\* A resume follows the head its token names and the restart of its own start,
\* whatever crashed, failed or was damaged before (_open_verified,
\* _resume_at_open).
THEOREM ResumeIsInspected == ServingSpec => ResumesInspected
<1>1. ServingInit => ResumeInv
  BY DEF ServingInit, Init, ResumeInv, Restarting, Resuming, CommitPcs
<1>2. TypeOK /\ ResumeInv /\ [ServingNext]_servingVars => ResumeInv'
  BY ResumeStep
<1>3. TypeOK /\ ResumeInv /\ [ServingNext]_servingVars =>
        [stage # "resumed" /\ stage' = "resumed" =>
           Len(projection') = Len(token) + 2 /\ IsPrefix(token, projection')]_servingVars
  BY ResumedStep
<1>4. ServingSpec => []TypeOK
  BY ServingIsJournal, TypeCorrect, PTL
<1> QED
  BY <1>1, <1>2, <1>3, <1>4, PTL DEF ServingSpec, ResumesInspected

=============================================================================
