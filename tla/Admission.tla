------------------------------ MODULE Admission ------------------------------
(***************************************************************************)
(* What the recovery journal records (journal_reducer.py) and the calls    *)
(* that record it (recovery_journal.py): admissions with their dedupe      *)
(* decision, capacity holds, ingress refusals, held jobs, restarts and the *)
(* operator's resume.                                                      *)
(*                                                                         *)
(* The projection modelled is the replay of the durable rows.  While a     *)
(* handle is ready its own projection is the same one; a failed append     *)
(* latches the handle, whether or not the commit became durable, and the   *)
(* next open replays what did.  How rows and anchor survive a crash is     *)
(* module RecoveryJournal.                                                 *)
(*                                                                         *)
(* An arrival is an admission number, which is also its arrival_seq.  A    *)
(* status stands for the status and the values of one alert, and an        *)
(* arrival's dedupe key for its alerts.                                    *)
(***************************************************************************)
EXTENDS Integers, FiniteSets

CONSTANTS
  Groups,           \* source groups
  Fingerprints,     \* alert identities
  Statuses,         \* statuses with their values
  Jobs,             \* job ids callers hold
  Summaries,        \* refusal keys of notifications refused at ingress
  Resolved,         \* those with a Resolved member
  None,             \* no value
  Charges,          \* bytes a record may be charged
  MaxAdmissions, MaxPending, OrdinaryBytes, TotalBytes,  \* JournalBounds
  MaxRefusals, ResolvedReserve,                          \* refusal records
  MaxRunHolds                                            \* held jobs

ASSUME LimitsAssumption ==
  /\ MaxAdmissions \in Nat /\ MaxPending \in Nat
  /\ OrdinaryBytes \in Nat /\ TotalBytes \in Nat
  /\ OrdinaryBytes <= TotalBytes
  /\ MaxRefusals \in Nat /\ ResolvedReserve \in 0..MaxRefusals
  /\ MaxRunHolds \in Nat

ASSUME ChargesAssumption == Charges \subseteq Nat \ {0}

ASSUME SetsAssumption ==
  /\ IsFiniteSet(Fingerprints) /\ IsFiniteSet(Summaries) /\ IsFiniteSet(Jobs)
  /\ Resolved \subseteq Summaries
  /\ None \notin Statuses

CapacityCodes == {"capacity_admissions", "capacity_pending", "capacity_bytes"}
HoldCodes == CapacityCodes \cup {"restart_recovery"}

Alerts == [Fingerprints -> Statuses \cup {None}]
Source == [group : Groups, alerts : Alerts, complete : BOOLEAN]
Baseline == [admission : Nat, key : Alerts, complete : BOOLEAN]
PendingEntry == [admission : Nat, group : Groups, status : Statuses]
Arrival == [group : Groups, status : Statuses]
Refusal == [code : CapacityCodes, limit : Nat, observed : Nat, requested : Nat]

ASSUME NoneAssumption ==
  None \notin Baseline \cup PendingEntry \cup Arrival \cup Refusal \cup HoldCodes \cup Nat

VARIABLES
  \* the projection
  count,          \* admission_count and last_arrival_seq
  baselines,      \* per group, the latest arrival that was not suppressed
  pending,        \* per fingerprint, the entry waiting for a Run
  holds,          \* dispatch_holds: the commit that set the code, or 0
  runHolds,       \* per job, the admission it is held for
  refusalKeys, refusalCount, unreservedCount,
  bytes,          \* logical_bytes
  head,           \* commit_seq of the head
  bootStart,      \* the commit that started this boot
  bootRecovered,  \* the head this boot's restart recovered, 0 at genesis
  \* the handle
  phase,          \* "down", "resume" between restart and resume, "ready", "held"
  resumed,        \* whether resume cleared the hold in this boot
  \* history
  latest          \* per fingerprint, group and status of its latest arrival

proj == <<count, baselines, pending, holds, runHolds, refusalKeys, refusalCount,
          unreservedCount, bytes, head, bootStart, bootRecovered>>
vars == <<proj, phase, resumed, latest>>

Members(alerts) == {f \in Fingerprints : alerts[f] # None}
PendingSet == {f \in Fingerprints : pending[f] # None}
ActiveHolds == {c \in HoldCodes : holds[c] # 0}

\* Held jobs are the one claim family a caller of the handle can write.
PrivateClaimsOutstanding == \E j \in Jobs : runHolds[j] # None

\* The journal right after create_recovery_journal: the genesis commit.
Init ==
  /\ count = 0
  /\ baselines = [g \in Groups |-> None]
  /\ pending = [f \in Fingerprints |-> None]
  /\ holds = [c \in HoldCodes |-> 0]
  /\ runHolds = [j \in Jobs |-> None]
  /\ refusalKeys = {}
  /\ refusalCount = 0
  /\ unreservedCount = 0
  /\ bytes \in Charges
  /\ head = 1
  /\ bootStart = 1
  /\ bootRecovered = 0
  /\ phase = "ready"
  /\ resumed = FALSE
  /\ latest = [f \in Fingerprints |-> None]

-----------------------------------------------------------------------------
(* Commits *)

\* One commit of the charge given: the append returns, or it fails after the
\* commit became durable and the handle latches journal_write_failed.
Commit(charge, next) ==
  /\ bytes' = bytes + charge
  /\ head' = head + 1
  /\ phase' \in {next, "held"}

\* The handle latches a process hold and nothing is written.
Latch == phase' = "held" /\ UNCHANGED <<proj, resumed, latest>>

-----------------------------------------------------------------------------
(* Admission *)

\* The arrival repeats the complete baseline of its group.
Suppressed(source) ==
  LET before == baselines[source.group]
  IN /\ source.complete /\ before # None
     /\ before.complete /\ before.key = source.alerts

\* MUTANT: an arrival also takes the entries its group has for others.
UpdatedGroup(source) ==
  Members(source.alerts) \cup {f \in PendingSet : pending[f].group = source.group}

\* MUTANT: a repeat reclaims nothing.
UpdatedNoReclaim(source) == IF Suppressed(source) THEN {} ELSE Members(source.alerts)

\* The fingerprints whose pending entry the arrival writes: all of its own, or
\* for a repeat those another group holds now.
Updated(source) ==
  IF Suppressed(source)
  THEN {f \in Members(source.alerts) \cap PendingSet : pending[f].group # source.group}
  ELSE Members(source.alerts)

\* How many pending entries the arrival would create.
NewPending(source) ==
  IF Suppressed(source) THEN 0 ELSE Cardinality(Members(source.alerts) \ PendingSet)

\* The three refusals plan_admission returns, with the numbers they report.
AdmissionsRefusal ==
  [code |-> "capacity_admissions", limit |-> MaxAdmissions, observed |-> count, requested |-> 1]
PendingRefusal(source) ==
  [code |-> "capacity_pending", limit |-> MaxPending,
   observed |-> Cardinality(PendingSet), requested |-> NewPending(source)]
BytesRefusal(charge) ==
  [code |-> "capacity_bytes", limit |-> OrdinaryBytes, observed |-> bytes, requested |-> charge]

PassesPending(source) ==
  ~Suppressed(source) /\ Cardinality(PendingSet) + NewPending(source) > MaxPending

\* MUTANT: an admission may use the reserve above the ordinary bytes.
CapacityRefusalWholeFile(source, charge) ==
  IF count + 1 > MaxAdmissions THEN AdmissionsRefusal
  ELSE IF PassesPending(source) THEN PendingRefusal(source)
  ELSE IF bytes + charge > TotalBytes THEN BytesRefusal(charge)
  ELSE None

\* MUTANT: the bound on pending entries is tested first.
CapacityRefusalPendingFirst(source, charge) ==
  IF PassesPending(source) THEN PendingRefusal(source)
  ELSE IF count + 1 > MaxAdmissions THEN AdmissionsRefusal
  ELSE IF bytes + charge > OrdinaryBytes THEN BytesRefusal(charge)
  ELSE None

\* The bound the arrival would pass, or None.
CapacityRefusal(source, charge) ==
  IF count + 1 > MaxAdmissions THEN AdmissionsRefusal
  ELSE IF PassesPending(source) THEN PendingRefusal(source)
  ELSE IF bytes + charge > OrdinaryBytes THEN BytesRefusal(charge)
  ELSE None

\* The baseline an arrival that is no repeat leaves for its group.
NewBaseline(source) ==
  [admission |-> count + 1, key |-> source.alerts, complete |-> source.complete]

\* An admission is recorded, under dispatch holds as well as without.
Admit(source, charge) ==
  /\ phase = "ready"
  /\ CapacityRefusal(source, charge) = None
  /\ Commit(charge, "ready")
  /\ count' = count + 1
  /\ baselines' = IF Suppressed(source) THEN baselines
                  ELSE [baselines EXCEPT ![source.group] = NewBaseline(source)]
  /\ pending' = [f \in Fingerprints |->
                   IF f \in Updated(source)
                   THEN [admission |-> count + 1, group |-> source.group,
                         status |-> source.alerts[f]]
                   ELSE pending[f]]
  /\ latest' = [f \in Fingerprints |->
                  IF f \in Members(source.alerts)
                  THEN [group |-> source.group, status |-> source.alerts[f]]
                  ELSE latest[f]]
  /\ UNCHANGED <<holds, runHolds, refusalKeys, refusalCount, unreservedCount,
                 bootStart, bootRecovered, resumed>>

\* The verifier's own tables of the limits and of what is observed.
Limit(code) ==
  CASE code = "capacity_admissions" -> MaxAdmissions
    [] code = "capacity_pending"    -> MaxPending
    [] code = "capacity_bytes"      -> OrdinaryBytes
Observed(code) ==
  CASE code = "capacity_admissions" -> count
    [] code = "capacity_pending"    -> Cardinality(PendingSet)
    [] code = "capacity_bytes"      -> bytes

\* What the verifier asks of a capacity_hold record with the numbers given.
VerifyCapacityHold(refusal, holdCharge) ==
  /\ holds[refusal.code] = 0
  /\ refusal.limit = Limit(refusal.code)
  /\ refusal.observed = Observed(refusal.code)
  /\ refusal.observed + refusal.requested > refusal.limit
  /\ bytes + holdCharge <= TotalBytes

\* A bound refuses the arrival: the first refusal of its kind is recorded as a
\* dispatch hold, charged to the reserve above the ordinary bytes.
AdmitRefused(source, charge, holdCharge) ==
  LET refusal == CapacityRefusal(source, charge)
  IN /\ phase = "ready"
     /\ refusal # None /\ holds[refusal.code] = 0
     /\ \/ /\ bytes + holdCharge <= TotalBytes
           /\ VerifyCapacityHold(refusal, holdCharge)
           /\ Commit(holdCharge, "ready")
           /\ holds' = [holds EXCEPT ![refusal.code] = head + 1]
           /\ UNCHANGED <<count, baselines, pending, runHolds, refusalKeys, refusalCount,
                          unreservedCount, bootStart, bootRecovered, resumed, latest>>
        \/ /\ bytes + holdCharge > TotalBytes \/ ~VerifyCapacityHold(refusal, holdCharge)
           /\ Latch

-----------------------------------------------------------------------------
(* Refusals at ingress *)

\* MUTANT: the reserve is not kept free.
RefusalLimitNoReserve(summary) == refusalCount + 1 > MaxRefusals

\* The limit on refusal records, the reserve for Resolved members included.
RefusalLimit(summary) ==
  \/ refusalCount + 1 > MaxRefusals
  \/ summary \notin Resolved /\ unreservedCount + 1 > MaxRefusals - ResolvedReserve

\* A refusal is recorded; coalesced, limit and no_room write nothing.
RecordRefusal(summary, charge) ==
  /\ phase = "ready"
  /\ summary \notin refusalKeys
  /\ ~RefusalLimit(summary)
  /\ bytes + charge <= OrdinaryBytes
  /\ Commit(charge, "ready")
  /\ refusalKeys' = refusalKeys \cup {summary}
  /\ refusalCount' = refusalCount + 1
  /\ unreservedCount' = IF summary \in Resolved THEN unreservedCount ELSE unreservedCount + 1
  /\ UNCHANGED <<count, baselines, pending, holds, runHolds, bootStart, bootRecovered,
                 resumed, latest>>

-----------------------------------------------------------------------------
(* Held jobs *)

\* MUTANT: a job may be held without a restart hold.
RunHoldRequiredAlways == TRUE

RunHoldRequired == holds["restart_recovery"] # 0

HeldFor(admission) == \E j \in Jobs : runHolds[j] = admission

\* The fingerprints still waiting under the admission, never more than the
\* MAX_ALERTS its source may carry.
RunHoldMembers(admission) == {f \in PendingSet : pending[f].admission = admission}

HeldJobs == {j \in Jobs : runHolds[j] # None}

RunHoldFits(charge) ==
  /\ Cardinality(HeldJobs) < MaxRunHolds
  /\ bytes + charge <= TotalBytes

\* A job's restart hold is recorded; an exact retry and a journal without a
\* restart hold write nothing.
RecordRunHold(job, admission, charge) ==
  /\ phase = "ready"
  /\ runHolds[job] = None /\ ~HeldFor(admission)
  /\ RunHoldRequired
  /\ RunHoldMembers(admission) # {}
  /\ RunHoldFits(charge)
  /\ Commit(charge, "ready")
  /\ runHolds' = [runHolds EXCEPT ![job] = admission]
  /\ UNCHANGED <<count, baselines, pending, holds, refusalKeys, refusalCount,
                 unreservedCount, bootStart, bootRecovered, resumed, latest>>

\* A second identity for a held job or admission, an admission nothing waits
\* under any more, or a full journal: the handle latches.
RunHoldLatches(job, admission, charge) ==
  /\ phase = "ready"
  /\ \/ runHolds[job] \notin {None, admission}
     \/ runHolds[job] = None /\ HeldFor(admission)
     \/ /\ runHolds[job] = None /\ ~HeldFor(admission) /\ RunHoldRequired
        /\ RunHoldMembers(admission) = {} \/ ~RunHoldFits(charge)
  /\ Latch

-----------------------------------------------------------------------------
(* Boots *)

\* MUTANT: each restart sets the hold anew.
RestartHoldAnew == [holds EXCEPT !["restart_recovery"] = head + 1]

\* MUTANT: a restart with nothing pending sets no hold.
RestartHoldIfPending ==
  IF holds["restart_recovery"] # 0 \/ PendingSet = {} THEN holds
  ELSE [holds EXCEPT !["restart_recovery"] = head + 1]

\* A hold that is already set keeps the commit that set it.
RestartHold ==
  IF holds["restart_recovery"] # 0 THEN holds
  ELSE [holds EXCEPT !["restart_recovery"] = head + 1]

\* Every open records a restart, charged to the reserve.
Restart(resume, charge) ==
  /\ phase = "down"
  /\ resumed' = FALSE
  /\ \/ /\ bytes + charge <= TotalBytes
        /\ bytes' = bytes + charge
        /\ head' = head + 1
        /\ bootStart' = head + 1
        /\ bootRecovered' = head
        /\ holds' = RestartHold
        /\ phase' \in {IF resume THEN "resume" ELSE "ready", "held"}
        /\ UNCHANGED <<count, baselines, pending, runHolds, refusalKeys, refusalCount,
                       unreservedCount, latest>>
     \/ /\ bytes + charge > TotalBytes
        /\ phase' = "held"
        /\ UNCHANGED <<proj, latest>>

\* MUTANT: claims do not stop a resume.
ResumeAllowedAlways == holds["restart_recovery"] # 0

\* What _resume_at_open asks before it plans the resume.
ResumeAllowed == holds["restart_recovery"] # 0 /\ ~PrivateClaimsOutstanding

\* What the verifier asks of an operator_action: it follows the restart that
\* started this boot and names the head that restart recovered.
VerifyOperatorAction ==
  /\ holds["restart_recovery"] # 0
  /\ ~PrivateClaimsOutstanding
  /\ head = bootStart
  /\ bootRecovered # 0

\* The operator's resume clears the restart hold and no other.
ResumeAtOpen(charge) ==
  /\ phase = "resume"
  /\ ResumeAllowed
  /\ bytes + charge <= TotalBytes /\ VerifyOperatorAction
  /\ Commit(charge, "ready")
  /\ holds' = [holds EXCEPT !["restart_recovery"] = 0]
  /\ resumed' = (phase' = "ready")
  /\ UNCHANGED <<count, baselines, pending, runHolds, refusalKeys, refusalCount,
                 unreservedCount, bootStart, bootRecovered, latest>>

\* No room for the resume, or the verifier refuses it.
ResumeLatches(charge) ==
  /\ phase = "resume"
  /\ ResumeAllowed
  /\ bytes + charge > TotalBytes \/ ~VerifyOperatorAction
  /\ Latch

\* A claim is outstanding: the open goes on without a resume.
SkipResume ==
  /\ phase = "resume"
  /\ ~ResumeAllowed
  /\ phase' = "ready"
  /\ UNCHANGED <<proj, resumed, latest>>

\* A clock, id or write failure that leaves nothing durable.
Fails ==
  /\ phase \in {"resume", "ready"}
  /\ Latch

\* The process ends, by close or by a crash.
Stop ==
  /\ phase # "down"
  /\ phase' = "down"
  /\ resumed' = FALSE
  /\ UNCHANGED <<proj, latest>>

-----------------------------------------------------------------------------

\* validate_source refuses an arrival without alerts.
Arrivals == {s \in Source : Members(s.alerts) # {}}

Next ==
  \/ \E s \in Arrivals, c \in Charges : Admit(s, c)
  \/ \E s \in Arrivals, c, h \in Charges : AdmitRefused(s, c, h)
  \/ \E s \in Summaries, c \in Charges : RecordRefusal(s, c)
  \/ \E j \in Jobs, a \in 1..MaxAdmissions, c \in Charges :
       RecordRunHold(j, a, c) \/ RunHoldLatches(j, a, c)
  \/ \E r \in BOOLEAN, c \in Charges : Restart(r, c)
  \/ \E c \in Charges : ResumeAtOpen(c) \/ ResumeLatches(c)
  \/ SkipResume
  \/ Fails
  \/ Stop

Spec == Init /\ [][Next]_vars

-----------------------------------------------------------------------------
(* Properties *)

TypeOK ==
  /\ count \in Nat
  /\ baselines \in [Groups -> Baseline \cup {None}]
  /\ pending \in [Fingerprints -> PendingEntry \cup {None}]
  /\ holds \in [HoldCodes -> Nat]
  /\ runHolds \in [Jobs -> Nat \cup {None}]
  /\ refusalKeys \subseteq Summaries
  /\ refusalCount \in Nat
  /\ unreservedCount \in Nat
  /\ bytes \in Nat
  /\ head \in Nat
  /\ bootStart \in Nat
  /\ bootRecovered \in Nat
  /\ phase \in {"down", "resume", "ready", "held"}
  /\ resumed \in BOOLEAN
  /\ latest \in [Fingerprints -> Arrival \cup {None}]

\* Pending keeps the latest arrival per fingerprint: each waiting entry has the
\* group and the status of the latest arrival that named it, also when that
\* arrival was suppressed as a repeat and another group had taken the entry in
\* between (_decide, _pending_updates).
PendingIsLatest ==
  \A f \in Fingerprints :
    IF latest[f] = None THEN pending[f] = None
    ELSE /\ pending[f] # None
         /\ pending[f].group = latest[f].group
         /\ pending[f].status = latest[f].status

\* No sequence of arrivals, refusals, holds and restarts passes a bound of the
\* journal (plan_admission, plan_ingress_refusal, plan_capacity_hold,
\* plan_run_hold, plan_restart).  The bytes above the ordinary ones are left for
\* holds, restarts and resumes: a journal that has never been reopened and has no
\* hold has not touched them.  Genesis itself is held against no bound of bytes
\* (plan_genesis checks none).
WithinBounds ==
  /\ count <= MaxAdmissions
  /\ Cardinality(PendingSet) <= MaxPending
  /\ refusalCount <= MaxRefusals /\ unreservedCount <= MaxRefusals - ResolvedReserve
  /\ Cardinality(HeldJobs) <= MaxRunHolds
  /\ bytes > TotalBytes => head = 1
  /\ bytes > OrdinaryBytes => head = 1 \/ bootRecovered # 0 \/ ActiveHolds # {}

\* As long as the reserve has not been used by refusals with a Resolved member,
\* another one still finds a free record (plan_ingress_refusal).
ReserveForResolved ==
  Cardinality(refusalKeys \cap Resolved) < ResolvedReserve => refusalCount < MaxRefusals

\* A held job fences dispatch for good: the restart hold it was recorded under
\* stays through every later open and resume (_resume_at_open,
\* private_claims_outstanding, record_restart_run_hold).
RunHoldFences == PrivateClaimsOutstanding => holds["restart_recovery"] # 0

\* Work is admitted without a hold only in the boot that created the journal or
\* in one whose open the operator resumed (plan_restart, _resume_at_open).
DispatchNeedsResume ==
  phase = "ready" /\ ActiveHolds = {} => bootRecovered = 0 \/ resumed

\* admission_precheck is exact: once the hold it looks at exists, every arrival
\* is refused for the same bound.
PrecheckExact ==
  holds["capacity_admissions"] # 0 =>
    \A s \in Arrivals, c \in Charges :
      CapacityRefusal(s, c) # None /\ CapacityRefusal(s, c).code = "capacity_admissions"

\* What the handle plans, the verifier accepts: a resume planned at open never
\* ends as journal_divergence, nor does a capacity hold, whose limit, observed
\* and requested the verifier compares with its own tables (_commit,
\* verify_commit).
PlansVerify ==
  /\ phase = "resume" /\ ResumeAllowed => VerifyOperatorAction
  /\ phase = "ready" =>
       \A s \in Arrivals, c, h \in Charges :
         LET refusal == CapacityRefusal(s, c)
         IN refusal # None /\ holds[refusal.code] = 0 /\ bytes + h <= TotalBytes
              => VerifyCapacityHold(refusal, h)

\* An active hold keeps the commit that set it until it is cleared, and only a
\* resume right after the restart of its boot clears one (apply_delta,
\* _verify_operator_action).
HoldsStay ==
  [][\A c \in HoldCodes : holds[c] # 0 =>
       \/ holds'[c] = holds[c]
       \/ /\ c = "restart_recovery" /\ holds'[c] = 0
          /\ head = bootStart /\ head' = head + 1]_vars

=============================================================================
