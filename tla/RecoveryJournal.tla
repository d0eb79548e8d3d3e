--------------------------- MODULE RecoveryJournal ---------------------------
(***************************************************************************)
(* The durable journal of the Receiver: the SQLite rows and the anchor     *)
(* file (journal_store.py) under the one handle that opens, restarts,      *)
(* resumes and appends to them (recovery_journal.py).                      *)
(*                                                                         *)
(* Every durable write is a step of its own, so a crash can fall between   *)
(* any two of them.  A crash or an I/O failure inside an anchor write      *)
(* leaves the slot old, torn or new; one inside a SQL COMMIT leaves the    *)
(* commit absent or present.  While no process has the journal open,       *)
(* storage may damage rows or anchor slots.                                *)
(*                                                                         *)
(* A commit is an id: the first is genesis, and ids are never reused (the  *)
(* code mints UUIDs).  The flock admits one handle at a time, and every    *)
(* public operation of the handle holds its lock, so there is one pc.      *)
(***************************************************************************)
EXTENDS Anchor

CONSTANTS
  Corrupt,        \* a row whose bytes no longer match its digest
  MaxCommits,     \* total_bytes of the journal, in commits
  MaxTrouble,     \* bound: crashes and failures
  MaxRowFaults,   \* bound: damage to the rows while down
  MaxSlotFaults   \* bound: damage to the anchor file while down

ASSUME BoundsAssumption ==
  /\ MaxCommits \in Nat
  /\ MaxTrouble \in Nat
  /\ MaxRowFaults \in Nat
  /\ MaxSlotFaults \in Nat

ASSUME CorruptAssumption == Corrupt \notin Nat

RecoveryCodes == {"journal_anchor_missing", "journal_anchor_invalid",
                  "journal_truncated", "journal_tail_unverified",
                  "journal_anchor_conflict", "journal_record_invalid"}

ProcessCodes == {"journal_open_failed", "journal_write_failed",
                 "journal_divergence", "journal_clock_invalid",
                 "journal_capacity_recovery"}

ASSUME NoHoldAssumption == NoHold \notin RecoveryCodes \cup ProcessCodes

VARIABLES
  \* on disk
  files,      \* which of the database and the anchor file exist
  rows,       \* committed rows, one entry per commit
  slots,      \* the two anchor slots
  \* in the process
  pc,         \* where the handle is; "down" when no process has the journal
  op,         \* whose commit is in flight: "restart", "resume" or "admit"
  resume,     \* whether this open was asked to resume
  anchor,     \* the anchor state the store holds in memory
  writes,     \* slot writes persist_hold still owes
  projection, \* the commits the in-memory projection has applied
  pending,    \* id of the commit in flight
  hold,       \* the latched hold code, or NoHold
  \* history and bounds
  acked,      \* the commits whose append returned to its caller
  minted, trouble, rowFaults, slotFaults

disk == <<files, rows, slots>>
memory == <<op, resume, anchor, writes, projection, pending, hold>>
history == <<acked, minted, trouble, rowFaults, slotFaults>>
vars == <<disk, pc, memory, history>>

CreatePcs == {"create_sql", "create_anchor", "create_slot", "create_sync"}
CommitPcs == {"commit_sql", "commit_sync", "commit_slot"}
SlotPcs == {"create_slot", "persist", "adopt", "commit_slot"}
\* The handle verified the journal, or created it, and may still write.
LivePcs == {"adopt", "restart", "resume", "ready"} \cup CommitPcs

Row == Nat \cup {Corrupt}
Hold == RecoveryCodes \cup {NoHold}
Slot == [intact : BOOLEAN, counter : Nat, head : Seq(Row), hold : Hold]

\* The anchor as the next reader of the file will see it.
Readable == IF "anchor" \in files THEN Analyze(slots) ELSE TornSlot

Init ==
  /\ files = {}
  /\ rows = << >>
  /\ slots = [i \in {1, 2} |-> TornSlot]
  /\ pc = "down"
  /\ op = "admit"
  /\ resume = FALSE
  /\ anchor = TornSlot
  /\ writes = 0
  /\ projection = << >>
  /\ pending = 0
  /\ hold = NoHold
  /\ acked = << >>
  /\ minted = 0
  /\ trouble = 0
  /\ rowFaults = 0
  /\ slotFaults = 0

-----------------------------------------------------------------------------
(* Anchor writes *)

\* The head and the hold the write at the current pc puts in its slot.
SlotHead == CASE pc = "commit_slot" -> Append(projection, pending)
              [] pc = "persist"     -> anchor.head
              [] OTHER              -> projection
SlotHold == IF pc = "persist" THEN hold ELSE NoHold

Written == NewSlot(anchor.counter + 1, SlotHead, SlotHold)

\* The pwrite and the sync both succeed: disk and memory agree on the slot.
WriteSlot ==
  /\ ~WriteRefused(anchor, SlotHead, SlotHold)
  /\ slots' = [slots EXCEPT ![TargetIndex(anchor)] = Written]
  /\ anchor' = Written

\* MUTANT: a write rewrites the file, not one slot of it.
SlotOutcomeWholeFile ==
  \E s \in {TornSlot, Written} : slots' = [i \in {1, 2} |-> s]

\* The write fails or never finishes: whatever reached the disk, memory keeps
\* the anchor it had.
SlotOutcome == \E s \in {slots[TargetIndex(anchor)], TornSlot, Written} :
                  /\ s = Written => ~WriteRefused(anchor, SlotHead, SlotHold)
                  /\ slots' = [slots EXCEPT ![TargetIndex(anchor)] = s]

-----------------------------------------------------------------------------
(* Create *)

Create ==
  /\ pc = "down" /\ files = {}
  /\ files' = {"db"}
  /\ pc' = "create_sql"
  /\ pending' = minted + 1
  /\ minted' = minted + 1
  /\ UNCHANGED <<rows, slots, op, resume, anchor, writes, projection, hold,
                 acked, trouble, rowFaults, slotFaults>>

CreateCommit ==
  /\ pc = "create_sql"
  /\ rows' = Append(rows, pending)
  /\ projection' = Append(projection, pending)
  /\ pc' = "create_anchor"
  /\ UNCHANGED <<files, slots, op, resume, anchor, writes, pending, hold, history>>

CreateAnchorFile ==
  /\ pc = "create_anchor"
  /\ files' = files \cup {"anchor"}
  /\ pc' = "create_slot"
  /\ UNCHANGED <<rows, slots, memory, history>>

CreateSlot ==
  /\ pc = "create_slot"
  /\ WriteSlot
  /\ pc' = "create_sync"
  /\ UNCHANGED <<files, rows, op, resume, writes, projection, pending, hold, history>>

CreateDone ==
  /\ pc = "create_sync"
  /\ pc' = "ready"
  /\ acked' = projection
  /\ UNCHANGED <<disk, memory, minted, trouble, rowFaults, slotFaults>>

-----------------------------------------------------------------------------
(* Open *)

\* MUTANT: rows are judged even when the anchor carries a verdict.
StoreFindingIgnoresHold ==
  IF "anchor" \notin files THEN "journal_anchor_missing"
  ELSE IF ~Readable.intact THEN "journal_anchor_invalid"
  ELSE IF rows = << >>     THEN "journal_truncated"
  ELSE NoHold

\* The verdict of the checks before any row is read.
StoreFinding ==
  IF "anchor" \notin files       THEN "journal_anchor_missing"
  ELSE IF ~Readable.intact       THEN "journal_anchor_invalid"
  ELSE IF Readable.hold # NoHold THEN Readable.hold
  ELSE IF rows = << >>           THEN "journal_truncated"
  ELSE NoHold

\* MUTANT: only the length of the rows is compared with the anchor.
ReplayFindingNoDigest ==
  LET lag == Len(rows) - Len(Readable.head)
  IN IF \E i \in DOMAIN rows : rows[i] = Corrupt THEN "journal_record_invalid"
     ELSE IF lag < 0 THEN "journal_truncated"
     ELSE IF lag > 1 THEN "journal_tail_unverified"
     ELSE NoHold

\* MUTANT: a commit the anchor does not name yet is damage.
ReplayFindingNoLag ==
  LET lag == Len(rows) - Len(Readable.head)
  IN IF \E i \in DOMAIN rows : rows[i] = Corrupt THEN "journal_record_invalid"
     ELSE IF lag < 0 THEN "journal_truncated"
     ELSE IF lag > 0 THEN "journal_tail_unverified"
     ELSE IF ~IsPrefix(Readable.head, rows) THEN "journal_anchor_conflict"
     ELSE NoHold

\* The verdict of the replay: a bad row outranks the comparison of the head
\* with the anchor.
ReplayFinding ==
  LET lag == Len(rows) - Len(Readable.head)
  IN IF \E i \in DOMAIN rows : rows[i] = Corrupt THEN "journal_record_invalid"
     ELSE IF lag < 0 THEN "journal_truncated"
     ELSE IF lag > 1 THEN "journal_tail_unverified"
     ELSE IF ~IsPrefix(Readable.head, rows) THEN "journal_anchor_conflict"
     ELSE NoHold

OpenFinding == IF StoreFinding # NoHold THEN StoreFinding ELSE ReplayFinding

\* MUTANT: a new verdict goes to one slot only.
HoldWritesOnce ==
  IF ~Readable.intact \/ HeldSlotCount(slots) = 2 THEN 0 ELSE 1

\* Slot writes persist_hold owes for this verdict: none without a readable
\* anchor or when both slots carry it, one to complete a half-written hold.
HoldWrites ==
  IF ~Readable.intact             THEN 0
  ELSE IF Readable.hold = NoHold   THEN 2
  ELSE IF HeldSlotCount(slots) = 2 THEN 0
  ELSE 1

BeginOpen ==
  /\ pc = "down" /\ files # {}
  /\ anchor' = Readable
  /\ UNCHANGED <<disk, op, pending, acked, minted, rowFaults, slotFaults>>

\* MUTANT: an anchor one commit behind is left there.
OpenSkipsAdopt ==
  /\ BeginOpen
  /\ OpenFinding = NoHold
  /\ resume' \in BOOLEAN
  /\ projection' = rows
  /\ hold' = NoHold
  /\ writes' = 0
  /\ pc' = "restart"
  /\ UNCHANGED trouble

\* Every check passes; the lag of the anchor decides what is written next.
Open ==
  /\ BeginOpen
  /\ OpenFinding = NoHold
  /\ resume' \in BOOLEAN
  /\ projection' = rows
  /\ hold' = NoHold
  /\ writes' = 0
  /\ pc' = IF Len(rows) = Len(Readable.head) + 1 THEN "adopt" ELSE "restart"
  /\ UNCHANGED trouble

\* A verified failure: the handle comes back held, after persist_hold.
OpenHeld ==
  /\ BeginOpen
  /\ OpenFinding # NoHold
  /\ resume' \in BOOLEAN
  /\ projection' = << >>
  /\ hold' = OpenFinding
  /\ writes' = HoldWrites
  /\ pc' = IF HoldWrites = 0 THEN "held" ELSE "persist"
  /\ UNCHANGED trouble

\* A verified failure, but no boot id could be minted: held all the same, and
\* the slot writes stay owed to the next open.
OpenHeldUnsaved ==
  /\ BeginOpen
  /\ OpenFinding # NoHold
  /\ trouble < MaxTrouble
  /\ trouble' = trouble + 1
  /\ resume' \in BOOLEAN
  /\ projection' = << >>
  /\ hold' = OpenFinding
  /\ writes' = HoldWrites
  /\ pc' = "held"

\* A transient error while opening or reading, or in finish_open, or a boot id
\* that could not be minted for a sound journal: a process hold, nothing
\* written.
OpenFails ==
  /\ BeginOpen
  /\ trouble < MaxTrouble
  /\ trouble' = trouble + 1
  /\ resume' \in BOOLEAN
  /\ projection' = << >>
  /\ \/ hold' = "journal_open_failed"
     \/ OpenFinding = NoHold /\ hold' = "journal_divergence"
  /\ writes' = 0
  /\ pc' = "held"

\* MUTANT: the loop over the slots runs once too often.
PersistHoldOffByOne ==
  /\ pc = "persist"
  /\ WriteSlot
  /\ writes' = writes - 1
  /\ pc' = IF writes = 0 THEN "held" ELSE "persist"
  /\ UNCHANGED <<files, rows, op, resume, projection, pending, hold, history>>

\* One slot write of persist_hold; the store is closed after the last.
PersistHold ==
  /\ pc = "persist"
  /\ WriteSlot
  /\ writes' = writes - 1
  /\ pc' = IF writes = 1 THEN "held" ELSE "persist"
  /\ UNCHANGED <<files, rows, op, resume, projection, pending, hold, history>>

\* An anchor one commit behind is moved to the head before anything else.
AdoptTail ==
  /\ pc = "adopt"
  /\ WriteSlot
  /\ pc' = "restart"
  /\ UNCHANGED <<files, rows, op, resume, writes, projection, pending, hold, history>>

-----------------------------------------------------------------------------
(* Commit *)

BeginCommit(kind) ==
  /\ op' = kind
  /\ pending' = minted + 1
  /\ minted' = minted + 1
  /\ pc' = "commit_sql"
  /\ UNCHANGED <<disk, resume, anchor, writes, projection, hold,
                 acked, trouble, rowFaults, slotFaults>>

\* Another record still fits in the total bytes, which nothing ever frees: a
\* commit is charged one unit.  Genesis is not held against them.
Fits == Len(projection) < MaxCommits

Restart == pc = "restart" /\ Fits /\ BeginCommit("restart")

ResumeAtOpen == pc = "resume" /\ Fits /\ BeginCommit("resume")

\* No restart hold to clear, or private claims are outstanding.
SkipResume ==
  /\ pc = "resume"
  /\ pc' = "ready"
  /\ UNCHANGED <<disk, memory, history>>

\* A call of the ready handle that the reducer has planned a record for.
Admit == pc = "ready" /\ Fits /\ BeginCommit("admit")

CommitSql ==
  /\ pc = "commit_sql"
  /\ rows' = Append(rows, pending)
  /\ pc' = IF op = "restart" THEN "commit_sync" ELSE "commit_slot"
  /\ UNCHANGED <<files, slots, memory, history>>

CommitSync ==
  /\ pc = "commit_sync"
  /\ pc' = "commit_slot"
  /\ UNCHANGED <<disk, memory, history>>

\* The anchor write ends the append: memory applies the delta and the caller
\* gets its answer.
CommitSlot ==
  /\ pc = "commit_slot"
  /\ WriteSlot
  /\ projection' = Append(projection, pending)
  /\ acked' = projection'
  /\ pc' = IF op = "restart" /\ resume THEN "resume" ELSE "ready"
  /\ UNCHANGED <<files, rows, op, resume, writes, pending, hold,
                 minted, trouble, rowFaults, slotFaults>>

-----------------------------------------------------------------------------
(* Failures, crashes and the end of a process *)

Trouble == trouble < MaxTrouble /\ trouble' = trouble + 1

\* The handle latches a process hold before its call writes anything.
Latch(code) ==
  /\ hold' = code
  /\ pc' = "held"
  /\ UNCHANGED <<disk, op, resume, anchor, writes, projection, pending,
                 acked, minted, rowFaults, slotFaults>>

\* No id could be minted, the clock gave no reading that may be used, or the
\* record could not be sealed.
LatchFault == Trouble /\ \E code \in {"journal_divergence", "journal_clock_invalid"} : Latch(code)

RestartFails == pc = "restart" /\ LatchFault

ResumeFails == pc = "resume" /\ LatchFault

AdmitFails == pc = "ready" /\ LatchFault

\* The record does not fit in the total bytes.  That is no passing trouble: the
\* next open finds the same rows and the same total.
LatchFull == ~Fits /\ Latch("journal_capacity_recovery") /\ UNCHANGED trouble

RestartFull == pc = "restart" /\ LatchFull

ResumeFull == pc = "resume" /\ LatchFull

\* The capacity hold that would record a refusal, or a job's restart hold.
AdmitFull == pc = "ready" /\ LatchFull

\* A failed COMMIT or directory sync: the store latches broken and the handle
\* latches journal_write_failed; a failed COMMIT may still have become durable.
CommitFails ==
  /\ pc \in {"commit_sql", "commit_sync"}
  /\ Trouble
  /\ rows' \in IF pc = "commit_sql" THEN {rows, Append(rows, pending)} ELSE {rows}
  /\ hold' = "journal_write_failed"
  /\ pc' = "held"
  /\ UNCHANGED <<files, slots, op, resume, anchor, writes, projection, pending,
                 acked, minted, rowFaults, slotFaults>>

\* A failed anchor write: a failed persist_hold keeps its verdict in memory,
\* any other latches journal_write_failed.
SlotFails ==
  /\ pc \in SlotPcs \ CreatePcs
  /\ Trouble
  /\ SlotOutcome
  /\ hold' = IF pc = "persist" THEN hold ELSE "journal_write_failed"
  /\ pc' = "held"
  /\ UNCHANGED <<files, rows, op, resume, anchor, writes, projection, pending,
                 acked, minted, rowFaults, slotFaults>>

\* The memory of the process is gone.
ProcessGone ==
  /\ pc' = "down"
  /\ op' = "admit"
  /\ resume' = FALSE
  /\ anchor' = TornSlot
  /\ writes' = 0
  /\ projection' = << >>
  /\ pending' = 0
  /\ hold' = NoHold

\* The process dies, or create fails and raises, which leaves its files in
\* place too; a slot write under way may be torn or complete.
Crash ==
  /\ pc # "down"
  /\ Trouble
  /\ IF pc \in SlotPcs THEN SlotOutcome ELSE UNCHANGED slots
  /\ ProcessGone
  /\ UNCHANGED <<files, rows, acked, minted, rowFaults, slotFaults>>

\* The caller closes the handle, ready or held.
Close ==
  /\ pc \in {"ready", "held"}
  /\ ProcessGone
  /\ UNCHANGED <<disk, history>>

-----------------------------------------------------------------------------
(* Damage to the files while no process has them open *)

\* An older copy, a row that fails its digest, a rewritten row with everything
\* chained onto it, or rows another writer added.
DamagedRows ==
  {SubSeq(rows, 1, k) : k \in 0..(Len(rows) - 1)}
    \cup {[rows EXCEPT ![k] = Corrupt] : k \in DOMAIN rows}
    \cup {[rows EXCEPT ![k] = minted + 1] : k \in DOMAIN rows}
    \cup {rows \o <<minted + 1>>, rows \o <<minted + 1, minted + 2>>}

RowFault ==
  /\ pc = "down" /\ "db" \in files
  /\ rowFaults < MaxRowFaults
  /\ rowFaults' = rowFaults + 1
  /\ rows' \in DamagedRows
  /\ minted' = minted + 2
  /\ UNCHANGED <<files, slots, pc, memory, acked, trouble, slotFaults>>

\* One anchor slot becomes unreadable, or the file disappears.
SlotFault ==
  /\ pc = "down" /\ "anchor" \in files
  /\ slotFaults < MaxSlotFaults
  /\ slotFaults' = slotFaults + 1
  /\ \/ /\ \E i \in {1, 2} : slots' = [slots EXCEPT ![i] = TornSlot]
        /\ UNCHANGED files
     \/ /\ slots' = [i \in {1, 2} |-> TornSlot]
        /\ files' = files \ {"anchor"}
  /\ UNCHANGED <<rows, pc, memory, acked, minted, trouble, rowFaults>>

-----------------------------------------------------------------------------

\* Steps of a call that has begun; each is the next one unless something fails.
CallStep ==
  \/ CreateCommit \/ CreateAnchorFile \/ CreateSlot \/ CreateDone
  \/ PersistHold \/ AdoptTail
  \/ Restart \/ RestartFull \/ ResumeAtOpen \/ ResumeFull \/ SkipResume
  \/ CommitSql \/ CommitSync \/ CommitSlot

\* Calls that open the journal and come back with a handle.
OpenStep == Open \/ OpenHeld \/ OpenHeldUnsaved \/ OpenFails

\* Calls of the ready handle.
AdmitStep == Admit \/ AdmitFull \/ AdmitFails

\* Failures, crashes and damage.
FailStep ==
  \/ RestartFails \/ ResumeFails \/ CommitFails \/ SlotFails \/ Crash
  \/ RowFault \/ SlotFault

Next == Create \/ OpenStep \/ CallStep \/ AdmitStep \/ Close \/ FailStep

Spec == Init /\ [][Next]_vars

-----------------------------------------------------------------------------
(* Properties *)

TypeOK ==
  /\ files \in SUBSET {"db", "anchor"}
  /\ rows \in Seq(Row)
  /\ slots \in [{1, 2} -> Slot]
  /\ pc \in {"down", "persist", "held"} \cup CreatePcs \cup LivePcs
  /\ op \in {"restart", "resume", "admit"}
  /\ resume \in BOOLEAN
  /\ anchor \in Slot
  /\ writes \in 0..2
  /\ projection \in Seq(Row)
  /\ pending \in Nat
  /\ hold \in RecoveryCodes \cup ProcessCodes \cup {NoHold}
  /\ acked \in Seq(Row)
  /\ minted \in Nat
  /\ trouble \in Nat
  /\ rowFaults \in Nat
  /\ slotFaults \in Nat

\* Every commit whose append returned is in the rows of any handle that may
\* still write, through any crashes, failed writes, torn slots and restarts,
\* as long as storage damaged rows or anchor slots but not both: the anchor is
\* written before append returns (JournalStore.append) and an open that cannot
\* match rows and anchor is held (_replay_finding).
AckedSurvives ==
  pc \in LivePcs /\ (rowFaults = 0 \/ slotFaults = 0) => IsPrefix(acked, rows)

\* Without damage by storage, at every moment the next open would find nothing
\* to hold, so crashes and failed writes alone never turn into a verdict
\* (_verify_open, _replay_finding).
NoFalseVerdict ==
  acked # << >> /\ rowFaults = 0 /\ slotFaults = 0 => OpenFinding = NoHold

\* A handle that reports its verdict persisted left it in the slot the next
\* open reads, and a persist_hold that ran to its end left it in both slots
\* (_held_journal, persist_hold).
PersistedIsDurable ==
  pc = "held" /\ hold \in RecoveryCodes =>
    /\ anchor.hold = hold => Readable.hold = hold
    /\ anchor.intact /\ writes = 0 => HeldSlotCount(slots) = 2

\* A durable verdict is never erased or replaced, and no handle writes below
\* it, unless storage damages the anchor itself (_write_slot, persist_hold,
\* _check_writable).
VerdictLatched ==
  [][/\ Readable.hold # NoHold
     /\ slotFaults' = slotFaults
     => Readable'.hold = Readable.hold /\ rows' \in DamagedRows \cup {rows}]_vars

\* The anchored head only ever grows, by commits appended to it, unless storage
\* damages the anchor: a torn write can only damage the older slot.
AnchorForward ==
  [][slotFaults' = slotFaults => IsPrefix(Readable.head, Readable'.head)]_vars

=============================================================================
