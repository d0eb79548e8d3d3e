--------------------------- MODULE AdmissionProofs ---------------------------
(***************************************************************************)
(* Proofs about module Admission, for any sets of groups, alerts, jobs and *)
(* refusals, any bounds and any number of restarts.                        *)
(*                                                                         *)
(* IInv is inductive.  PendingIsLatest needs BaselineSeen: a repeat leaves *)
(* an entry alone because the baseline it repeats says what the latest     *)
(* arrival of its group said.  The bounds on refusals need the counters to *)
(* be the cardinalities they stand for, and DispatchNeedsResume needs what *)
(* a boot has established by the phase it is in.                           *)
(***************************************************************************)
EXTENDS Admission, FiniteSetTheorems, TLAPS

\* What a group's baseline says of an alert is what the alert's latest arrival
\* said, unless another group reported the alert since.
BaselineSeen ==
  \A g \in Groups, f \in Fingerprints :
    baselines[g] # None /\ baselines[g].key[f] # None =>
      /\ latest[f] # None
      /\ latest[f].group = g => latest[f].status = baselines[g].key[f]

\* The refusal counters count the refusal keys.
RefusalsCounted ==
  /\ refusalCount = Cardinality(refusalKeys)
  /\ unreservedCount = Cardinality(refusalKeys \ Resolved)
  /\ unreservedCount <= MaxRefusals - ResolvedReserve
  /\ refusalCount <= MaxRefusals

\* What the phase of an open has established.
BootOK ==
  /\ head >= 1
  /\ phase = "resume" => /\ head = bootStart
                         /\ bootRecovered # 0
                         /\ holds["restart_recovery"] # 0
  /\ phase = "ready" /\ bootRecovered # 0 /\ ~resumed => holds["restart_recovery"] # 0

\* The hold on admissions is set only with every admission used.
AdmissionsUsed == holds["capacity_admissions"] # 0 => count >= MaxAdmissions

IInv ==
  /\ TypeOK
  /\ PendingIsLatest
  /\ BaselineSeen
  /\ WithinBounds
  /\ RefusalsCounted
  /\ RunHoldFences
  /\ BootOK
  /\ AdmissionsUsed

-----------------------------------------------------------------------------
(* Which actions change what *)

\* Only an admission changes what has been admitted.
LEMMA OnlyAdmit ==
  ASSUME [Next]_vars,
         ~\E s \in Arrivals, c \in Charges : Admit(s, c)
  PROVE  UNCHANGED <<count, baselines, pending, latest>>
<1>1. CASE \E s \in Arrivals, c, h \in Charges : AdmitRefused(s, c, h)
  BY <1>1 DEF AdmitRefused, Latch, proj
<1>2. CASE \E s \in Summaries, c \in Charges : RecordRefusal(s, c)
  BY <1>2 DEF RecordRefusal
<1>3. CASE \E j \in Jobs, a \in 1..MaxAdmissions, c \in Charges : RecordRunHold(j, a, c)
  BY <1>3 DEF RecordRunHold
<1>4. CASE \E j \in Jobs, a \in 1..MaxAdmissions, c \in Charges : RunHoldLatches(j, a, c)
  BY <1>4 DEF RunHoldLatches, Latch, proj
<1>5. CASE \E r \in BOOLEAN, c \in Charges : Restart(r, c)
  BY <1>5 DEF Restart, proj
<1>6. CASE \E c \in Charges : ResumeAtOpen(c) \/ ResumeLatches(c)
  BY <1>6 DEF ResumeAtOpen, ResumeLatches, Latch, proj
<1>7. CASE SkipResume \/ Fails \/ Stop
  BY <1>7 DEF SkipResume, Fails, Stop, Latch, proj
<1>8. CASE UNCHANGED vars
  BY <1>8 DEF vars, proj
<1> QED
  BY <1>1, <1>2, <1>3, <1>4, <1>5, <1>6, <1>7, <1>8 DEF Next

\* Only a recorded refusal changes the refusals.
LEMMA OnlyRefusal ==
  ASSUME [Next]_vars,
         ~\E s \in Summaries, c \in Charges : RecordRefusal(s, c)
  PROVE  UNCHANGED <<refusalKeys, refusalCount, unreservedCount>>
<1>1. CASE \E s \in Arrivals, c \in Charges : Admit(s, c)
  BY <1>1 DEF Admit
<1>2. CASE \E s \in Arrivals, c, h \in Charges : AdmitRefused(s, c, h)
  BY <1>2 DEF AdmitRefused, Latch, proj
<1>3. CASE \E j \in Jobs, a \in 1..MaxAdmissions, c \in Charges : RecordRunHold(j, a, c)
  BY <1>3 DEF RecordRunHold
<1>4. CASE \E j \in Jobs, a \in 1..MaxAdmissions, c \in Charges : RunHoldLatches(j, a, c)
  BY <1>4 DEF RunHoldLatches, Latch, proj
<1>5. CASE \E r \in BOOLEAN, c \in Charges : Restart(r, c)
  BY <1>5 DEF Restart, proj
<1>6. CASE \E c \in Charges : ResumeAtOpen(c) \/ ResumeLatches(c)
  BY <1>6 DEF ResumeAtOpen, ResumeLatches, Latch, proj
<1>7. CASE SkipResume \/ Fails \/ Stop
  BY <1>7 DEF SkipResume, Fails, Stop, Latch, proj
<1>8. CASE UNCHANGED vars
  BY <1>8 DEF vars, proj
<1> QED
  BY <1>1, <1>2, <1>3, <1>4, <1>5, <1>6, <1>7, <1>8 DEF Next

\* Only a recorded run hold changes the held jobs.
LEMMA OnlyRunHold ==
  ASSUME [Next]_vars,
         ~\E j \in Jobs, a \in 1..MaxAdmissions, c \in Charges : RecordRunHold(j, a, c)
  PROVE  runHolds' = runHolds
<1>1. CASE \E s \in Arrivals, c \in Charges : Admit(s, c)
  BY <1>1 DEF Admit
<1>2. CASE \E s \in Arrivals, c, h \in Charges : AdmitRefused(s, c, h)
  BY <1>2 DEF AdmitRefused, Latch, proj
<1>3. CASE \E s \in Summaries, c \in Charges : RecordRefusal(s, c)
  BY <1>3 DEF RecordRefusal
<1>4. CASE \E j \in Jobs, a \in 1..MaxAdmissions, c \in Charges : RunHoldLatches(j, a, c)
  BY <1>4 DEF RunHoldLatches, Latch, proj
<1>5. CASE \E r \in BOOLEAN, c \in Charges : Restart(r, c)
  BY <1>5 DEF Restart, proj
<1>6. CASE \E c \in Charges : ResumeAtOpen(c) \/ ResumeLatches(c)
  BY <1>6 DEF ResumeAtOpen, ResumeLatches, Latch, proj
<1>7. CASE SkipResume \/ Fails \/ Stop
  BY <1>7 DEF SkipResume, Fails, Stop, Latch, proj
<1>8. CASE UNCHANGED vars
  BY <1>8 DEF vars, proj
<1> QED
  BY <1>1, <1>2, <1>3, <1>4, <1>5, <1>6, <1>7, <1>8 DEF Next

-----------------------------------------------------------------------------
(* Types *)

\* The initial state has the types.
LEMMA TypeInit == Init => TypeOK
<1> SUFFICES ASSUME Init PROVE TypeOK
  OBVIOUS
<1>1. bytes \in Nat
  BY ChargesAssumption DEF Init
<1> QED
  BY <1>1 DEF Init, TypeOK

\* An arrival writes entries of its own members only.
LEMMA UpdatedMembers ==
  ASSUME NEW s
  PROVE  Updated(s) \subseteq Members(s.alerts)
BY DEF Updated

\* A member of an arrival has a status.
LEMMA MemberStatus ==
  ASSUME NEW s \in Arrivals, NEW f \in Members(s.alerts)
  PROVE  f \in Fingerprints /\ s.group \in Groups /\ s.alerts[f] \in Statuses
BY DEF Arrivals, Members, Source, Alerts

\* An admission keeps the types.
LEMMA TypeAdmit ==
  ASSUME TypeOK, NEW s \in Arrivals, NEW c \in Charges, Admit(s, c)
  PROVE  TypeOK'
<1>1. c \in Nat
  BY ChargesAssumption
<1>2. baselines' \in [Groups -> Baseline \cup {None}]
  <2>1. NewBaseline(s) \in Baseline /\ s.group \in Groups
    BY DEF NewBaseline, Baseline, Arrivals, Source, TypeOK
  <2> QED
    BY <2>1 DEF Admit, TypeOK
<1>3. pending' \in [Fingerprints -> PendingEntry \cup {None}]
  <2> SUFFICES ASSUME NEW f \in Fingerprints
               PROVE  (IF f \in Updated(s)
                       THEN [admission |-> count + 1, group |-> s.group, status |-> s.alerts[f]]
                       ELSE pending[f]) \in PendingEntry \cup {None}
    BY DEF Admit
  <2>1. CASE f \in Updated(s)
    <3>1. s.group \in Groups /\ s.alerts[f] \in Statuses
      BY <2>1, UpdatedMembers, MemberStatus
    <3> QED
      BY <2>1, <3>1 DEF PendingEntry, TypeOK
  <2>2. CASE f \notin Updated(s)
    BY <2>2 DEF TypeOK
  <2> QED
    BY <2>1, <2>2
<1>4. latest' \in [Fingerprints -> Arrival \cup {None}]
  <2> SUFFICES ASSUME NEW f \in Fingerprints
               PROVE  (IF f \in Members(s.alerts)
                       THEN [group |-> s.group, status |-> s.alerts[f]]
                       ELSE latest[f]) \in Arrival \cup {None}
    BY DEF Admit
  <2>1. CASE f \in Members(s.alerts)
    BY <2>1, MemberStatus DEF Arrival
  <2>2. CASE f \notin Members(s.alerts)
    BY <2>2 DEF TypeOK
  <2> QED
    BY <2>1, <2>2
<1> QED
  BY <1>1, <1>2, <1>3, <1>4 DEF Admit, Commit, TypeOK

\* Every step keeps the types.
LEMMA TypeStep == TypeOK /\ [Next]_vars => TypeOK'
<1> SUFFICES ASSUME TypeOK, [Next]_vars PROVE TypeOK'
  OBVIOUS
<1> USE ChargesAssumption
<1>1. CASE \E s \in Arrivals, c \in Charges : Admit(s, c)
  BY <1>1, TypeAdmit
<1>2. CASE \E s \in Arrivals, c, h \in Charges : AdmitRefused(s, c, h)
  BY <1>2 DEF AdmitRefused, Commit, Latch, proj, TypeOK
<1>3. CASE \E s \in Summaries, c \in Charges : RecordRefusal(s, c)
  BY <1>3 DEF RecordRefusal, Commit, TypeOK
<1>4. CASE \E j \in Jobs, a \in 1..MaxAdmissions, c \in Charges : RecordRunHold(j, a, c)
  BY <1>4, LimitsAssumption DEF RecordRunHold, Commit, TypeOK
<1>5. CASE \E j \in Jobs, a \in 1..MaxAdmissions, c \in Charges : RunHoldLatches(j, a, c)
  BY <1>5 DEF RunHoldLatches, Latch, proj, TypeOK
<1>6. CASE \E r \in BOOLEAN, c \in Charges : Restart(r, c)
  <2> PICK r \in BOOLEAN, c \in Charges : Restart(r, c)
    BY <1>6
  <2>1. CASE bytes + c <= TotalBytes
    <3>1. phase' \in {"down", "resume", "ready", "held"} /\ resumed' \in BOOLEAN
      BY <2>1 DEF Restart
    <3>2. holds' \in [HoldCodes -> Nat]
      BY <2>1 DEF Restart, RestartHold, proj, TypeOK
    <3>3. bytes' \in Nat /\ head' \in Nat /\ bootStart' \in Nat /\ bootRecovered' \in Nat
      BY <2>1 DEF Restart, proj, TypeOK
    <3>4. UNCHANGED <<count, baselines, pending, runHolds, refusalKeys, refusalCount,
                      unreservedCount, latest>>
      BY <2>1 DEF Restart, proj
    <3> QED
      BY <3>1, <3>2, <3>3, <3>4 DEF TypeOK
  <2>2. CASE ~(bytes + c <= TotalBytes)
    BY <2>2 DEF Restart, proj, TypeOK
  <2> QED
    BY <2>1, <2>2
<1>7. CASE \E c \in Charges : ResumeAtOpen(c)
  <2>1. resumed' \in BOOLEAN
    BY <1>7, Zenon DEF ResumeAtOpen
  <2>2. /\ \E c \in Charges : bytes' = bytes + c /\ head' = head + 1
        /\ phase' \in {"ready", "held"}
        /\ holds' = [holds EXCEPT !["restart_recovery"] = 0]
        /\ UNCHANGED <<count, baselines, pending, runHolds, refusalKeys, refusalCount,
                       unreservedCount, bootStart, bootRecovered, latest>>
    BY <1>7, Zenon DEF ResumeAtOpen, Commit
  <2>3. holds' \in [HoldCodes -> Nat]
    BY <2>2 DEF TypeOK
  <2>4. bytes' \in Nat /\ head' \in Nat
    BY <2>2 DEF TypeOK
  <2> QED
    BY <2>1, <2>2, <2>3, <2>4, Zenon DEF TypeOK
<1>8. CASE \E c \in Charges : ResumeLatches(c)
  BY <1>8 DEF ResumeLatches, Latch, proj, TypeOK
<1>9. CASE SkipResume \/ Fails \/ Stop
  BY <1>9 DEF SkipResume, Fails, Stop, Latch, proj, TypeOK
<1>10. CASE UNCHANGED vars
  BY <1>10 DEF vars, proj, TypeOK
<1> QED
  BY <1>1, <1>2, <1>3, <1>4, <1>5, <1>6, <1>7, <1>8, <1>9, <1>10 DEF Next

-----------------------------------------------------------------------------
(* Pending entries *)

\* An admission, a repeat included, leaves each entry at its latest arrival.
LEMMA AdmitLatest ==
  ASSUME TypeOK, PendingIsLatest, BaselineSeen,
         NEW s \in Arrivals, NEW c \in Charges, Admit(s, c)
  PROVE  PendingIsLatest'
<1> SUFFICES ASSUME NEW f \in Fingerprints
             PROVE  IF latest'[f] = None THEN pending'[f] = None
                    ELSE /\ pending'[f] # None
                         /\ pending'[f].group = latest'[f].group
                         /\ pending'[f].status = latest'[f].status
  BY DEF PendingIsLatest
<1>1. CASE f \notin Members(s.alerts)
  <2>1. pending'[f] = pending[f] /\ latest'[f] = latest[f]
    BY <1>1, UpdatedMembers DEF Admit
  <2> QED
    BY <2>1 DEF PendingIsLatest
<1>2. CASE f \in Members(s.alerts)
  <2> DEFINE entry == [admission |-> count + 1, group |-> s.group, status |-> s.alerts[f]]
             arrival == [group |-> s.group, status |-> s.alerts[f]]
  <2>1. latest'[f] = arrival
    BY <1>2 DEF Admit
  <2>2. s.group \in Groups /\ s.alerts[f] \in Statuses
    BY <1>2, MemberStatus
  <2>3. arrival # None /\ entry # None
    BY <2>2, NoneAssumption DEF Arrival, PendingEntry, TypeOK
  <2>4. CASE f \in Updated(s)
    <3>1. pending'[f] = entry
      BY <2>4 DEF Admit
    <3> QED
      BY <2>1, <2>3, <3>1
  <2>5. CASE f \notin Updated(s)
    <3>1. Suppressed(s) /\ ~(f \in PendingSet /\ pending[f].group # s.group)
      BY <1>2, <2>5 DEF Updated
    <3>2. baselines[s.group] # None /\ baselines[s.group].key[f] = s.alerts[f]
      BY <3>1 DEF Suppressed
    <3>3. s.alerts[f] # None
      BY <1>2 DEF Members
    <3>4. latest[f] # None /\ (latest[f].group = s.group => latest[f].status = s.alerts[f])
      BY <2>2, <3>2, <3>3 DEF BaselineSeen
    <3>5. pending[f] # None /\ pending[f].group = latest[f].group
          /\ pending[f].status = latest[f].status
      BY <3>4 DEF PendingIsLatest
    <3>6. pending[f].group = s.group
      BY <3>1, <3>5 DEF PendingSet
    <3>7. pending'[f] = pending[f]
      BY <2>5 DEF Admit
    <3> QED
      BY <2>1, <2>3, <3>4, <3>5, <3>6, <3>7
  <2> QED
    BY <2>4, <2>5
<1> QED
  BY <1>1, <1>2

\* An admission leaves each baseline what the latest arrival said.
LEMMA AdmitSeen ==
  ASSUME TypeOK, BaselineSeen, NEW s \in Arrivals, NEW c \in Charges, Admit(s, c)
  PROVE  BaselineSeen'
<1> SUFFICES ASSUME NEW g \in Groups, NEW f \in Fingerprints,
                    baselines'[g] # None, baselines'[g].key[f] # None
             PROVE  /\ latest'[f] # None
                    /\ latest'[f].group = g => latest'[f].status = baselines'[g].key[f]
  BY DEF BaselineSeen
<1>1. s.group \in Groups /\ s.alerts \in Alerts
  BY DEF Arrivals, Source
<1>2. ASSUME f \in Members(s.alerts)
      PROVE  /\ latest'[f] = [group |-> s.group, status |-> s.alerts[f]]
             /\ latest'[f] # None
  <2>1. latest'[f] = [group |-> s.group, status |-> s.alerts[f]]
    BY <1>2 DEF Admit
  <2>2. latest'[f] \in Arrival
    BY <1>2, <2>1, MemberStatus DEF Arrival
  <2> QED
    BY <2>1, <2>2, NoneAssumption
<1>3. ASSUME f \notin Members(s.alerts)
      PROVE  latest'[f] = latest[f]
  BY <1>3 DEF Admit
<1>4. CASE g = s.group
  <2>1. baselines'[g].key = s.alerts
    BY <1>1, <1>4 DEF Admit, Suppressed, NewBaseline, TypeOK
  <2>2. f \in Members(s.alerts)
    BY <2>1 DEF Members
  <2> QED
    BY <1>2, <2>1, <2>2
<1>5. CASE g # s.group
  <2>1. baselines'[g] = baselines[g]
    BY <1>1, <1>5 DEF Admit, TypeOK
  <2>2. CASE f \in Members(s.alerts)
    BY <1>2, <1>5, <2>2
  <2>3. CASE f \notin Members(s.alerts)
    BY <1>3, <2>1, <2>3 DEF BaselineSeen
  <2> QED
    BY <2>2, <2>3
<1> QED
  BY <1>4, <1>5

\* Every step keeps both.
LEMMA PendingStep ==
  ASSUME TypeOK, PendingIsLatest, BaselineSeen, [Next]_vars
  PROVE  PendingIsLatest' /\ BaselineSeen'
<1>1. CASE \E s \in Arrivals, c \in Charges : Admit(s, c)
  BY <1>1, AdmitLatest, AdmitSeen
<1>2. CASE ~\E s \in Arrivals, c \in Charges : Admit(s, c)
  BY <1>2, OnlyAdmit DEF PendingIsLatest, BaselineSeen
<1> QED
  BY <1>1, <1>2

-----------------------------------------------------------------------------
(* Bounds *)

\* A subset of the fingerprints has a cardinality.
LEMMA FingerprintsFinite ==
  ASSUME NEW S \in SUBSET Fingerprints
  PROVE  IsFiniteSet(S) /\ Cardinality(S) \in Nat
BY SetsAssumption, FS_Subset, FS_CardinalityType

\* How many entries wait, and how many an arrival adds, are numbers.
LEMMA PendingNumbers ==
  ASSUME NEW s
  PROVE  Cardinality(PendingSet) \in Nat /\ NewPending(s) \in Nat
<1>1. Cardinality(PendingSet) \in Nat
  BY FingerprintsFinite DEF PendingSet
<1>2. Cardinality(Members(s.alerts) \ PendingSet) \in Nat
  BY FingerprintsFinite DEF Members
<1> QED
  BY <1>1, <1>2 DEF NewPending

\* A refusal is a record, so it is told apart from None.
LEMMA RefusalRecord ==
  ASSUME TypeOK, NEW s, NEW c \in Charges
  PROVE  /\ AdmissionsRefusal \in Refusal
         /\ PendingRefusal(s) \in Refusal
         /\ BytesRefusal(c) \in Refusal
         /\ None \notin Refusal
<1>1. None \notin Refusal
  BY NoneAssumption
<1>2. c \in Nat /\ count \in Nat /\ bytes \in Nat
  BY ChargesAssumption DEF TypeOK
<1> QED
  BY <1>1, <1>2, PendingNumbers, LimitsAssumption
     DEF AdmissionsRefusal, PendingRefusal, BytesRefusal, Refusal, CapacityCodes

\* An admission that is not refused is within every bound.
LEMMA NotRefused ==
  ASSUME TypeOK, NEW s, NEW c \in Charges, CapacityRefusal(s, c) = None
  PROVE  /\ count + 1 <= MaxAdmissions
         /\ ~PassesPending(s)
         /\ bytes + c <= OrdinaryBytes
<1>1. ~(count + 1 > MaxAdmissions) /\ ~PassesPending(s) /\ ~(bytes + c > OrdinaryBytes)
  BY RefusalRecord, Zenon DEF CapacityRefusal
<1>2. c \in Nat /\ count \in Nat /\ bytes \in Nat
  BY ChargesAssumption DEF TypeOK
<1> QED
  BY <1>1, <1>2, LimitsAssumption

\* A refusal names a capacity code, with the verifier's limit and observation
\* and a request that passes the limit.
LEMMA WhenRefused ==
  ASSUME TypeOK, NEW s, NEW c \in Charges, NEW refusal, refusal = CapacityRefusal(s, c),
         refusal # None
  PROVE  /\ refusal.code \in CapacityCodes
         /\ refusal.code = "capacity_admissions" => count + 1 > MaxAdmissions
         /\ refusal.limit = Limit(refusal.code)
         /\ refusal.observed = Observed(refusal.code)
         /\ refusal.observed + refusal.requested > refusal.limit
<1>1. CASE count + 1 > MaxAdmissions
  <2>1. refusal = AdmissionsRefusal
    BY <1>1, Zenon DEF CapacityRefusal
  <2> QED
    BY <1>1, <2>1 DEF AdmissionsRefusal, CapacityCodes, Limit, Observed
<1>2. CASE ~(count + 1 > MaxAdmissions) /\ PassesPending(s)
  <2>1. refusal = PendingRefusal(s)
    BY <1>2, Zenon DEF CapacityRefusal
  <2>2. Cardinality(PendingSet) + NewPending(s) > MaxPending
    BY <1>2 DEF PassesPending
  <2> QED
    BY <2>1, <2>2 DEF PendingRefusal, CapacityCodes, Limit, Observed
<1>3. CASE ~(count + 1 > MaxAdmissions) /\ ~PassesPending(s)
  <2>1. bytes + c > OrdinaryBytes /\ refusal = BytesRefusal(c)
    BY <1>3, Zenon DEF CapacityRefusal
  <2> QED
    BY <2>1 DEF BytesRefusal, CapacityCodes, Limit, Observed
<1> QED
  BY <1>1, <1>2, <1>3

\* The fingerprints pending after an admission.
LEMMA AdmitPendingSet ==
  ASSUME TypeOK, NEW s \in Arrivals, NEW c \in Charges, Admit(s, c)
  PROVE  PendingSet' = PendingSet \cup Updated(s)
<1> SUFFICES ASSUME NEW f \in Fingerprints
             PROVE  pending'[f] # None <=> pending[f] # None \/ f \in Updated(s)
  BY UpdatedMembers DEF PendingSet, Members
<1>1. CASE f \in Updated(s)
  <2>1. [admission |-> count + 1, group |-> s.group, status |-> s.alerts[f]] \in PendingEntry
    BY <1>1, UpdatedMembers, MemberStatus DEF PendingEntry, TypeOK
  <2> QED
    BY <1>1, <2>1, NoneAssumption DEF Admit
<1>2. CASE f \notin Updated(s)
  BY <1>2 DEF Admit
<1> QED
  BY <1>1, <1>2

\* An admission keeps the bound on pending fingerprints: a repeat adds none,
\* and any other arrival was counted before it was recorded.
LEMMA AdmitPendingBound ==
  ASSUME TypeOK, WithinBounds, NEW s \in Arrivals, NEW c \in Charges, Admit(s, c)
  PROVE  Cardinality(PendingSet') <= MaxPending
<1>1. PendingSet' = PendingSet \cup Updated(s)
  BY AdmitPendingSet
<1>2. CASE Suppressed(s)
  <2>1. PendingSet' = PendingSet
    BY <1>1, <1>2 DEF Updated
  <2> QED
    BY <2>1 DEF WithinBounds
<1>3. CASE ~Suppressed(s)
  <2> DEFINE new == Members(s.alerts) \ PendingSet
  <2>1. PendingSet' = PendingSet \cup new
    BY <1>1, <1>3 DEF Updated
  <2>2. /\ IsFiniteSet(PendingSet) /\ Cardinality(PendingSet) \in Nat
        /\ IsFiniteSet(new) /\ Cardinality(new) \in Nat
    BY FingerprintsFinite DEF PendingSet, Members
  <2>3. PendingSet \cap new = {}
    OBVIOUS
  <2>4. Cardinality(PendingSet \cup new) = Cardinality(PendingSet) + Cardinality(new) - Cardinality({})
    BY <2>2, <2>3, FS_Union
  <2>5. Cardinality({}) = 0
    BY FS_EmptySet
  <2>6. NewPending(s) = Cardinality(new)
    BY <1>3 DEF NewPending
  <2>7. ~(Cardinality(PendingSet) + Cardinality(new) > MaxPending)
    BY <1>3, <2>6, NotRefused DEF Admit, PassesPending
  <2> HIDE DEF new
  <2> QED
    BY <2>1, <2>2, <2>4, <2>5, <2>7, LimitsAssumption
<1> QED
  BY <1>2, <1>3

\* A recorded run hold keeps the bound on held jobs.
LEMMA RunHoldBound ==
  ASSUME TypeOK, NEW j \in Jobs, NEW a \in 1..MaxAdmissions, NEW c \in Charges,
         RecordRunHold(j, a, c)
  PROVE  Cardinality(HeldJobs') <= MaxRunHolds
<1>1. a # None
  BY NoneAssumption
<1>2. HeldJobs' = HeldJobs \cup {j}
  BY <1>1 DEF HeldJobs, RecordRunHold, TypeOK
<1>3. IsFiniteSet(HeldJobs) /\ Cardinality(HeldJobs) \in Nat
  BY SetsAssumption, FS_Subset, FS_CardinalityType DEF HeldJobs
<1>4. j \notin HeldJobs
  BY DEF HeldJobs, RecordRunHold
<1>5. Cardinality(HeldJobs \cup {j}) = Cardinality(HeldJobs) + 1
  BY <1>3, <1>4, FS_AddElement
<1>6. Cardinality(HeldJobs) < MaxRunHolds
  BY DEF RecordRunHold, RunHoldFits
<1> QED
  BY <1>2, <1>3, <1>5, <1>6, LimitsAssumption

\* Every record after genesis fits in the total bytes.
LEMMA BytesStep ==
  ASSUME TypeOK, WithinBounds, [Next]_vars
  PROVE  bytes' > TotalBytes => head' = 1
<1> USE ChargesAssumption, LimitsAssumption
<1>1. CASE \E s \in Arrivals, c \in Charges : Admit(s, c)
  <2> PICK s \in Arrivals, c \in Charges : Admit(s, c)
    BY <1>1
  <2>1. bytes + c <= OrdinaryBytes
    BY NotRefused DEF Admit
  <2> QED
    BY <2>1 DEF Admit, Commit, TypeOK
<1>2. CASE \E s \in Arrivals, c, h \in Charges : AdmitRefused(s, c, h)
  BY <1>2 DEF AdmitRefused, Commit, Latch, proj, TypeOK, WithinBounds
<1>3. CASE \E s \in Summaries, c \in Charges : RecordRefusal(s, c)
  BY <1>3 DEF RecordRefusal, Commit, TypeOK
<1>4. CASE \E j \in Jobs, a \in 1..MaxAdmissions, c \in Charges : RecordRunHold(j, a, c)
  BY <1>4 DEF RecordRunHold, RunHoldFits, Commit, TypeOK
<1>5. CASE \E j \in Jobs, a \in 1..MaxAdmissions, c \in Charges : RunHoldLatches(j, a, c)
  BY <1>5 DEF RunHoldLatches, Latch, proj, WithinBounds
<1>6. CASE \E r \in BOOLEAN, c \in Charges : Restart(r, c)
  BY <1>6 DEF Restart, proj, TypeOK, WithinBounds
<1>7. CASE \E c \in Charges : ResumeAtOpen(c)
  <2>1. \E c \in Charges : bytes' = bytes + c /\ bytes + c <= TotalBytes
    BY <1>7, Zenon DEF ResumeAtOpen, Commit
  <2> QED
    BY <2>1 DEF TypeOK
<1>8. CASE \E c \in Charges : ResumeLatches(c)
  BY <1>8 DEF ResumeLatches, Latch, proj, WithinBounds
<1>9. CASE SkipResume \/ Fails \/ Stop
  BY <1>9 DEF SkipResume, Fails, Stop, Latch, proj, WithinBounds
<1>10. CASE UNCHANGED vars
  BY <1>10 DEF vars, proj, WithinBounds
<1> QED
  BY <1>1, <1>2, <1>3, <1>4, <1>5, <1>6, <1>7, <1>8, <1>9, <1>10 DEF Next

-----------------------------------------------------------------------------
(* Refusals *)

\* A set of refusal keys has a cardinality.
LEMMA SummariesFinite ==
  ASSUME NEW S \in SUBSET Summaries
  PROVE  IsFiniteSet(S) /\ Cardinality(S) \in Nat
BY SetsAssumption, FS_Subset, FS_CardinalityType

\* Every step keeps the refusal counters right and within their limits.
LEMMA RefusalStep ==
  ASSUME TypeOK, RefusalsCounted, [Next]_vars
  PROVE  RefusalsCounted'
<1>1. CASE ~\E s \in Summaries, c \in Charges : RecordRefusal(s, c)
  BY <1>1, OnlyRefusal DEF RefusalsCounted
<1>2. CASE \E s \in Summaries, c \in Charges : RecordRefusal(s, c)
  <2> PICK s \in Summaries, c \in Charges : RecordRefusal(s, c)
    BY <1>2
  <2>1. s \notin refusalKeys /\ refusalKeys' = refusalKeys \cup {s}
    BY DEF RecordRefusal
  <2>2. /\ IsFiniteSet(refusalKeys) /\ Cardinality(refusalKeys) \in Nat
        /\ IsFiniteSet(refusalKeys \ Resolved) /\ Cardinality(refusalKeys \ Resolved) \in Nat
    BY SummariesFinite DEF TypeOK
  <2>3. Cardinality(refusalKeys') = Cardinality(refusalKeys) + 1
    BY <2>1, <2>2, FS_AddElement
  <2>4. refusalCount' = refusalCount + 1 /\ ~(refusalCount + 1 > MaxRefusals)
    BY DEF RecordRefusal, RefusalLimit
  <2>5. refusalCount' = Cardinality(refusalKeys') /\ refusalCount' <= MaxRefusals
    BY <2>2, <2>3, <2>4, LimitsAssumption DEF RefusalsCounted
  <2>6. CASE s \in Resolved
    <3>1. refusalKeys' \ Resolved = refusalKeys \ Resolved /\ unreservedCount' = unreservedCount
      BY <2>1, <2>6 DEF RecordRefusal
    <3> QED
      BY <2>5, <3>1 DEF RefusalsCounted
  <2>7. CASE s \notin Resolved
    <3>1. refusalKeys' \ Resolved = (refusalKeys \ Resolved) \cup {s}
      BY <2>1, <2>7
    <3>2. Cardinality(refusalKeys' \ Resolved) = Cardinality(refusalKeys \ Resolved) + 1
      BY <2>1, <2>2, <3>1, FS_AddElement
    <3>3. /\ unreservedCount' = unreservedCount + 1
          /\ ~(unreservedCount + 1 > MaxRefusals - ResolvedReserve)
      BY <2>7 DEF RecordRefusal, RefusalLimit
    <3>4. unreservedCount' <= MaxRefusals - ResolvedReserve
      BY <2>2, <3>3, LimitsAssumption DEF RefusalsCounted
    <3> QED
      BY <2>5, <3>2, <3>3, <3>4 DEF RefusalsCounted
  <2> QED
    BY <2>6, <2>7
<1> QED
  BY <1>1, <1>2

-----------------------------------------------------------------------------
(* Holds *)

\* A step may set a hold that is not set, a capacity code's when its bound is
\* passed, or clear the restart hold.
HoldSet(code) == holds[code] = 0 /\ holds' = [holds EXCEPT ![code] = head + 1]

HoldRefused ==
  \E code \in CapacityCodes :
    /\ HoldSet(code)
    /\ code = "capacity_admissions" => count + 1 > MaxAdmissions

HoldCleared ==
  /\ holds' = [holds EXCEPT !["restart_recovery"] = 0]
  /\ ~PrivateClaimsOutstanding
  /\ runHolds' = runHolds
  /\ head = bootStart /\ head' = head + 1

\* A step keeps the holds, adds one that was not set, or clears the restart
\* hold by a resume that follows the restart of its boot.
LEMMA HoldChange ==
  ASSUME TypeOK, [Next]_vars
  PROVE  holds' = holds \/ HoldRefused \/ HoldSet("restart_recovery") \/ HoldCleared
<1>1. CASE \E s \in Arrivals, c \in Charges : Admit(s, c)
  BY <1>1 DEF Admit
<1>2. CASE \E s \in Arrivals, c, h \in Charges : AdmitRefused(s, c, h)
  <2> PICK s \in Arrivals, c \in Charges, h \in Charges : AdmitRefused(s, c, h)
    BY <1>2
  <2>1. CASE phase' = "held" /\ UNCHANGED proj
    BY <2>1 DEF proj
  <2>2. CASE ~(phase' = "held" /\ UNCHANGED proj)
    <3>1. CapacityRefusal(s, c) # None /\ HoldSet(CapacityRefusal(s, c).code)
      BY <2>2, Zenon DEF AdmitRefused, HoldSet, Latch
    <3> QED
      BY <3>1, WhenRefused DEF HoldRefused
  <2> QED
    BY <2>1, <2>2
<1>3. CASE \E s \in Summaries, c \in Charges : RecordRefusal(s, c)
  BY <1>3 DEF RecordRefusal
<1>4. CASE \E j \in Jobs, a \in 1..MaxAdmissions, c \in Charges : RecordRunHold(j, a, c)
  BY <1>4 DEF RecordRunHold
<1>5. CASE \E j \in Jobs, a \in 1..MaxAdmissions, c \in Charges : RunHoldLatches(j, a, c)
  BY <1>5 DEF RunHoldLatches, Latch, proj
<1>6. CASE \E r \in BOOLEAN, c \in Charges : Restart(r, c)
  BY <1>6 DEF Restart, RestartHold, HoldSet, proj
<1>7. CASE \E c \in Charges : ResumeAtOpen(c)
  BY <1>7, Zenon DEF ResumeAtOpen, VerifyOperatorAction, Commit, HoldCleared
<1>8. CASE \E c \in Charges : ResumeLatches(c)
  BY <1>8 DEF ResumeLatches, Latch, proj
<1>9. CASE SkipResume \/ Fails \/ Stop
  BY <1>9 DEF SkipResume, Fails, Stop, Latch, proj
<1>10. CASE UNCHANGED vars
  BY <1>10 DEF vars, proj
<1> QED
  BY <1>1, <1>2, <1>3, <1>4, <1>5, <1>6, <1>7, <1>8, <1>9, <1>10 DEF Next

\* Every step keeps the fence of a held job.
LEMMA FenceStep ==
  ASSUME TypeOK, RunHoldFences, [Next]_vars
  PROVE  RunHoldFences'
<1>0. "restart_recovery" \in HoldCodes /\ "restart_recovery" \notin CapacityCodes
  BY DEF HoldCodes, CapacityCodes
<1>1. CASE \E j \in Jobs, a \in 1..MaxAdmissions, c \in Charges : RecordRunHold(j, a, c)
  BY <1>1 DEF RecordRunHold, RunHoldRequired, RunHoldFences
<1>2. CASE ~\E j \in Jobs, a \in 1..MaxAdmissions, c \in Charges : RecordRunHold(j, a, c)
  <2>1. runHolds' = runHolds
    BY <1>2, OnlyRunHold
  <2>2. CASE holds' = holds
    BY <2>1, <2>2 DEF RunHoldFences, PrivateClaimsOutstanding
  <2>3. CASE HoldRefused
    BY <1>0, <2>1, <2>3 DEF HoldRefused, HoldSet, RunHoldFences, PrivateClaimsOutstanding, TypeOK
  <2>4. CASE HoldSet("restart_recovery")
    BY <1>0, <2>4 DEF HoldSet, RunHoldFences, TypeOK
  <2>5. CASE HoldCleared
    BY <2>1, <2>5 DEF HoldCleared, RunHoldFences, PrivateClaimsOutstanding
  <2> QED
    BY <2>2, <2>3, <2>4, <2>5, HoldChange
<1> QED
  BY <1>1, <1>2

\* Every step keeps what the hold on admissions says.
LEMMA AdmissionsStep ==
  ASSUME TypeOK, AdmissionsUsed, [Next]_vars
  PROVE  AdmissionsUsed'
<1>0. /\ "capacity_admissions" \in HoldCodes
      /\ "capacity_admissions" # "restart_recovery"
      /\ CapacityCodes \subseteq HoldCodes
  BY DEF HoldCodes, CapacityCodes
<1>1. count' \in Nat /\ count' >= count
  <2>1. CASE \E s \in Arrivals, c \in Charges : Admit(s, c)
    BY <2>1 DEF Admit, TypeOK
  <2>2. CASE ~\E s \in Arrivals, c \in Charges : Admit(s, c)
    BY <2>2, OnlyAdmit DEF TypeOK
  <2> QED
    BY <2>1, <2>2
<1>2. holds'["capacity_admissions"] # 0 => count >= MaxAdmissions
  <2>1. CASE holds' = holds
    BY <2>1 DEF AdmissionsUsed
  <2>2. CASE HoldRefused
    BY <1>0, <2>2, LimitsAssumption DEF HoldRefused, HoldSet, AdmissionsUsed, TypeOK
  <2>3. CASE HoldSet("restart_recovery")
    BY <1>0, <2>3 DEF HoldSet, AdmissionsUsed, TypeOK
  <2>4. CASE HoldCleared
    BY <1>0, <2>4 DEF HoldCleared, AdmissionsUsed, TypeOK
  <2> QED
    BY <2>1, <2>2, <2>3, <2>4, HoldChange
<1> QED
  BY <1>1, <1>2, LimitsAssumption DEF AdmissionsUsed, TypeOK

-----------------------------------------------------------------------------
(* Boots *)

\* A restart leaves the restart hold set.
LEMMA RestartHoldSet ==
  ASSUME TypeOK
  PROVE  RestartHold["restart_recovery"] # 0
<1>1. "restart_recovery" \in HoldCodes
  BY DEF HoldCodes
<1> QED
  BY <1>1 DEF RestartHold, TypeOK

\* Every step keeps what the phase of an open has established.
LEMMA BootStep ==
  ASSUME TypeOK, BootOK, [Next]_vars
  PROVE  BootOK'
<1>1. CASE \E s \in Arrivals, c \in Charges : Admit(s, c)
  BY <1>1 DEF Admit, Commit, BootOK, TypeOK
<1>2. CASE \E s \in Arrivals, c, h \in Charges : AdmitRefused(s, c, h)
  <2> PICK s \in Arrivals, c \in Charges, h \in Charges : AdmitRefused(s, c, h)
    BY <1>2
  <2>1. CASE Latch
    BY <2>1 DEF Latch, proj, BootOK
  <2>2. CASE ~Latch
    <3>1. /\ Commit(h, "ready")
          /\ holds' = [holds EXCEPT ![CapacityRefusal(s, c).code] = head + 1]
          /\ UNCHANGED <<bootStart, bootRecovered, resumed>>
          /\ phase = "ready" /\ CapacityRefusal(s, c) # None
      BY <2>2, Zenon DEF AdmitRefused
    <3>2. CapacityRefusal(s, c).code # "restart_recovery"
      BY <3>1, WhenRefused DEF CapacityCodes
    <3>3. holds'["restart_recovery"] = holds["restart_recovery"]
      BY <3>1, <3>2 DEF HoldCodes, TypeOK
    <3> QED
      BY <3>1, <3>3 DEF Commit, BootOK, TypeOK
  <2> QED
    BY <2>1, <2>2
<1>3. CASE \E s \in Summaries, c \in Charges : RecordRefusal(s, c)
  BY <1>3 DEF RecordRefusal, Commit, BootOK, TypeOK
<1>4. CASE \E j \in Jobs, a \in 1..MaxAdmissions, c \in Charges : RecordRunHold(j, a, c)
  BY <1>4 DEF RecordRunHold, Commit, BootOK, TypeOK
<1>5. CASE \E j \in Jobs, a \in 1..MaxAdmissions, c \in Charges : RunHoldLatches(j, a, c)
  BY <1>5 DEF RunHoldLatches, Latch, proj, BootOK
<1>6. CASE \E r \in BOOLEAN, c \in Charges : Restart(r, c)
  BY <1>6, RestartHoldSet DEF Restart, proj, BootOK, TypeOK
<1>7. CASE \E c \in Charges : ResumeAtOpen(c)
  <2>1. head' = head + 1 /\ phase' \in {"ready", "held"} /\ (phase' = "ready" => resumed')
    BY <1>7, Zenon DEF ResumeAtOpen, Commit
  <2> QED
    BY <2>1 DEF BootOK, TypeOK
<1>8. CASE \E c \in Charges : ResumeLatches(c)
  BY <1>8 DEF ResumeLatches, Latch, proj, BootOK
<1>9. CASE SkipResume \/ Fails \/ Stop
  BY <1>9 DEF SkipResume, Fails, Stop, Latch, proj, BootOK
<1>10. CASE UNCHANGED vars
  BY <1>10 DEF vars, proj, BootOK
<1> QED
  BY <1>1, <1>2, <1>3, <1>4, <1>5, <1>6, <1>7, <1>8, <1>9, <1>10 DEF Next

-----------------------------------------------------------------------------
(* The reserve *)

\* The bytes above the ordinary ones stay untouched until a hold or a restart is
\* recorded.
LEMMA ReserveStep ==
  ASSUME TypeOK, WithinBounds, BootOK, [Next]_vars
  PROVE  bytes' > OrdinaryBytes => head' = 1 \/ bootRecovered' # 0 \/ ActiveHolds' # {}
<1> USE ChargesAssumption, LimitsAssumption
<1>0. bytes > OrdinaryBytes => head = 1 \/ bootRecovered # 0 \/ ActiveHolds # {}
  BY DEF WithinBounds
<1>1. CASE \E s \in Arrivals, c \in Charges : Admit(s, c)
  <2> PICK s \in Arrivals, c \in Charges : Admit(s, c)
    BY <1>1
  <2>1. bytes + c <= OrdinaryBytes
    BY NotRefused DEF Admit
  <2> QED
    BY <2>1 DEF Admit, Commit, TypeOK
<1>2. CASE \E s \in Arrivals, c, h \in Charges : AdmitRefused(s, c, h)
  <2> PICK s \in Arrivals, c \in Charges, h \in Charges : AdmitRefused(s, c, h)
    BY <1>2
  <2>1. CASE Latch
    BY <1>0, <2>1 DEF Latch, proj, ActiveHolds
  <2>2. CASE ~Latch
    <3> DEFINE code == CapacityRefusal(s, c).code
    <3>1. CapacityRefusal(s, c) # None /\ holds' = [holds EXCEPT ![code] = head + 1]
      BY <2>2, Zenon DEF AdmitRefused
    <3>2. code \in HoldCodes
      BY <3>1, WhenRefused DEF HoldCodes
    <3>3. holds'[code] # 0
      BY <3>1, <3>2 DEF TypeOK
    <3> QED
      BY <3>2, <3>3 DEF ActiveHolds
  <2> QED
    BY <2>1, <2>2
<1>3. CASE \E s \in Summaries, c \in Charges : RecordRefusal(s, c)
  BY <1>3 DEF RecordRefusal, Commit, TypeOK
<1>4. CASE \E j \in Jobs, a \in 1..MaxAdmissions, c \in Charges : RecordRunHold(j, a, c)
  <2>1. holds' = holds /\ holds["restart_recovery"] # 0
    BY <1>4 DEF RecordRunHold, RunHoldRequired
  <2> QED
    BY <2>1 DEF ActiveHolds, HoldCodes
<1>5. CASE \E r \in BOOLEAN, c \in Charges : Restart(r, c)
  <2>1. bootRecovered' = head \/ UNCHANGED proj
    BY <1>5, Zenon DEF Restart
  <2> QED
    BY <1>0, <2>1 DEF proj, ActiveHolds, BootOK
<1>6. CASE \E c \in Charges : ResumeAtOpen(c)
  <2>1. bootRecovered' # 0
    BY <1>6, Zenon DEF ResumeAtOpen, VerifyOperatorAction
  <2> QED
    BY <2>1
<1>7. CASE UNCHANGED proj
  BY <1>0, <1>7 DEF proj, ActiveHolds
<1>8. CASE \/ \E j \in Jobs, a \in 1..MaxAdmissions, c \in Charges : RunHoldLatches(j, a, c)
           \/ \E c \in Charges : ResumeLatches(c)
           \/ SkipResume \/ Fails \/ Stop \/ UNCHANGED vars
  BY <1>7, <1>8, Zenon DEF RunHoldLatches, ResumeLatches, SkipResume, Fails, Stop, Latch, vars
<1> QED
  BY <1>1, <1>2, <1>3, <1>4, <1>5, <1>6, <1>8 DEF Next

\* Every step keeps the bounds.
LEMMA BoundsStep ==
  ASSUME TypeOK, WithinBounds, RefusalsCounted, BootOK, [Next]_vars
  PROVE  WithinBounds'
<1>1. count' <= MaxAdmissions /\ Cardinality(PendingSet') <= MaxPending
  <2>1. CASE \E s \in Arrivals, c \in Charges : Admit(s, c)
    <3> PICK s \in Arrivals, c \in Charges : Admit(s, c)
      BY <2>1
    <3>1. count' <= MaxAdmissions
      BY NotRefused DEF Admit
    <3> QED
      BY <3>1, AdmitPendingBound
  <2>2. CASE ~\E s \in Arrivals, c \in Charges : Admit(s, c)
    BY <2>2, OnlyAdmit DEF WithinBounds, PendingSet
  <2> QED
    BY <2>1, <2>2
<1>2. Cardinality(HeldJobs') <= MaxRunHolds
  <2>1. CASE \E j \in Jobs, a \in 1..MaxAdmissions, c \in Charges : RecordRunHold(j, a, c)
    BY <2>1, RunHoldBound
  <2>2. CASE ~\E j \in Jobs, a \in 1..MaxAdmissions, c \in Charges : RecordRunHold(j, a, c)
    BY <2>2, OnlyRunHold DEF WithinBounds, HeldJobs
  <2> QED
    BY <2>1, <2>2
<1>3. refusalCount' <= MaxRefusals /\ unreservedCount' <= MaxRefusals - ResolvedReserve
  BY RefusalStep DEF RefusalsCounted
<1> QED
  BY <1>1, <1>2, <1>3, BytesStep, ReserveStep DEF WithinBounds

-----------------------------------------------------------------------------
(* The invariant *)

\* The genesis commit establishes it.
LEMMA InvInit == Init => IInv
<1> SUFFICES ASSUME Init PROVE IInv
  OBVIOUS
<1>1. TypeOK
  BY TypeInit
<1>2. PendingIsLatest /\ BaselineSeen
  BY DEF Init, PendingIsLatest, BaselineSeen
<1>3. Cardinality({}) = 0
  BY FS_EmptySet
<1>4. WithinBounds
  <2>1. PendingSet = {} /\ HeldJobs = {}
    BY DEF Init, PendingSet, HeldJobs
  <2> QED
    BY <1>3, <2>1, LimitsAssumption DEF Init, WithinBounds
<1>5. RefusalsCounted
  <2>1. refusalKeys \ Resolved = {} /\ refusalKeys = {}
    BY DEF Init
  <2> QED
    BY <1>3, <2>1, LimitsAssumption DEF Init, RefusalsCounted
<1>6. RunHoldFences
  BY DEF Init, RunHoldFences, PrivateClaimsOutstanding
<1>7. BootOK /\ AdmissionsUsed
  BY DEF Init, BootOK, AdmissionsUsed, HoldCodes, CapacityCodes
<1> QED
  BY <1>1, <1>2, <1>4, <1>5, <1>6, <1>7 DEF IInv

\* Every step keeps it.
LEMMA InvStep == IInv /\ [Next]_vars => IInv'
BY TypeStep, PendingStep, BoundsStep, RefusalStep, FenceStep, BootStep, AdmissionsStep DEF IInv

\* It holds in every reachable state.
LEMMA Invariance == Spec => []IInv
BY InvInit, InvStep, PTL DEF Spec

-----------------------------------------------------------------------------
(* Theorems *)

\* The projection and the handle keep their types.
THEOREM TypeCorrect == Spec => []TypeOK
<1>1. IInv => TypeOK
  BY DEF IInv
<1> QED
  BY <1>1, Invariance, PTL

\* However arrivals of any groups, repeats, crashes and restarts follow each
\* other, each waiting entry is the latest arrival's (_decide,
\* _pending_updates).
THEOREM LatestPending == Spec => []PendingIsLatest
<1>1. IInv => PendingIsLatest
  BY DEF IInv
<1> QED
  BY <1>1, Invariance, PTL

\* No bound of the journal is ever passed (plan_admission, plan_run_hold,
\* plan_capacity_hold, plan_restart).
THEOREM BoundsHold == Spec => []WithinBounds
<1>1. IInv => WithinBounds
  BY DEF IInv
<1> QED
  BY <1>1, Invariance, PTL

\* Refusals without a Resolved member never use up the reserve for those with
\* one (plan_ingress_refusal).
THEOREM ReserveKept == Spec => []ReserveForResolved
<1>1. IInv => ReserveForResolved
  <2> SUFFICES ASSUME IInv, Cardinality(refusalKeys \cap Resolved) < ResolvedReserve
               PROVE  refusalCount < MaxRefusals
    BY DEF ReserveForResolved
  <2>1. /\ IsFiniteSet(refusalKeys) /\ Cardinality(refusalKeys) \in Nat
        /\ Cardinality(refusalKeys \cap Resolved) \in Nat
    BY SummariesFinite DEF IInv, TypeOK
  <2>2. Cardinality(refusalKeys \ Resolved) =
          Cardinality(refusalKeys) - Cardinality(refusalKeys \cap Resolved)
    BY <2>1, FS_Difference
  <2> QED
    BY <2>1, <2>2, LimitsAssumption DEF IInv, RefusalsCounted
<1> QED
  BY <1>1, Invariance, PTL

\* A held job fences dispatch for good (_resume_at_open,
\* private_claims_outstanding).
THEOREM HeldJobsFence == Spec => []RunHoldFences
<1>1. IInv => RunHoldFences
  BY DEF IInv
<1> QED
  BY <1>1, Invariance, PTL

\* After the boot that created the journal, work is admitted without a hold
\* only when the operator resumed this boot (plan_restart, _resume_at_open).
THEOREM ResumeNeeded == Spec => []DispatchNeedsResume
<1>1. IInv => DispatchNeedsResume
  BY DEF IInv, BootOK, DispatchNeedsResume, ActiveHolds, HoldCodes
<1> QED
  BY <1>1, Invariance, PTL

\* admission_precheck never turns an arrival away that admit would record.
THEOREM PrecheckIsExact == Spec => []PrecheckExact
<1>1. IInv => PrecheckExact
  <2> SUFFICES ASSUME IInv, holds["capacity_admissions"] # 0,
                      NEW s \in Arrivals, NEW c \in Charges
               PROVE  /\ CapacityRefusal(s, c) # None
                      /\ CapacityRefusal(s, c).code = "capacity_admissions"
    BY DEF PrecheckExact
  <2>1. count + 1 > MaxAdmissions
    BY LimitsAssumption DEF IInv, AdmissionsUsed, TypeOK
  <2>2. CapacityRefusal(s, c) = AdmissionsRefusal
    BY <2>1, Zenon DEF CapacityRefusal
  <2>3. AdmissionsRefusal # None
    BY RefusalRecord DEF IInv
  <2> QED
    BY <2>2, <2>3 DEF AdmissionsRefusal
<1> QED
  BY <1>1, Invariance, PTL

\* The verifier accepts every resume and capacity hold the handle plans
\* (_commit, verify_commit).
THEOREM PlansAccepted == Spec => []PlansVerify
<1>1. IInv => PlansVerify
  <2> SUFFICES ASSUME IInv PROVE PlansVerify
    OBVIOUS
  <2>1. phase = "resume" /\ ResumeAllowed => VerifyOperatorAction
    BY DEF IInv, BootOK, ResumeAllowed, VerifyOperatorAction
  <2>2. ASSUME NEW s \in Arrivals, NEW c \in Charges, NEW h \in Charges,
               CapacityRefusal(s, c) # None, holds[CapacityRefusal(s, c).code] = 0,
               bytes + h <= TotalBytes
        PROVE  VerifyCapacityHold(CapacityRefusal(s, c), h)
    BY <2>2, WhenRefused DEF VerifyCapacityHold, IInv
  <2> QED
    BY <2>1, <2>2 DEF PlansVerify
<1> QED
  BY <1>1, Invariance, PTL

\* A hold keeps the commit that set it until a resume right after the restart
\* of its boot clears it (apply_delta, _verify_operator_action).
THEOREM HoldsRemain == Spec => HoldsStay
<1> DEFINE Stays(c) == \/ holds'[c] = holds[c]
                       \/ /\ c = "restart_recovery" /\ holds'[c] = 0
                          /\ head = bootStart /\ head' = head + 1
<1>1. ASSUME IInv, [Next]_vars
      PROVE  [\A c \in HoldCodes : holds[c] # 0 => Stays(c)]_vars
  <2> SUFFICES ASSUME NEW c \in HoldCodes, holds[c] # 0 PROVE Stays(c)
    OBVIOUS
  <2>1. TypeOK /\ CapacityCodes \subseteq HoldCodes /\ "restart_recovery" \in HoldCodes
    BY <1>1 DEF IInv, HoldCodes
  <2>2. CASE holds' = holds
    BY <2>2
  <2>3. CASE HoldRefused
    BY <2>1, <2>3 DEF HoldRefused, HoldSet, TypeOK
  <2>4. CASE HoldSet("restart_recovery")
    BY <2>1, <2>4 DEF HoldSet, TypeOK
  <2>5. CASE HoldCleared
    BY <2>1, <2>5 DEF HoldCleared, TypeOK
  <2> QED
    BY <1>1, <2>1, <2>2, <2>3, <2>4, <2>5, HoldChange
<1> QED
  BY <1>1, Invariance, PTL DEF Spec, HoldsStay

=============================================================================
