------------------------------- MODULE Anchor -------------------------------
(***************************************************************************)
(* The two-slot anchor file of the recovery journal (journal_store.py).    *)
(*                                                                         *)
(* A slot names the last anchored commit and, once the journal has been    *)
(* judged damaged, the verdict ("hold").  Writes alternate between the two *)
(* slots by the parity of a counter, and the reader takes the newest       *)
(* intact slot.  The pair of slots is a sequence: slot index i of the file *)
(* is its element i + 1.                                                   *)
(*                                                                         *)
(* record_digest chains each record to its predecessor, so a head commits  *)
(* to every record before it.  A head is therefore modelled by the         *)
(* sequence of commits it stands for: commit_seq is its length, and two    *)
(* heads with one digest are one sequence.  A slot region that is empty,   *)
(* short or fails its checksum is a slot that is not intact.  One format   *)
(* version and one journal_uuid are modelled.                              *)
(***************************************************************************)
EXTENDS Integers, Sequences

CONSTANT NoHold   \* the absence of a hold, None in the code

\* Whether one head, or the commits behind it, is where another began.
IsPrefix(s, t) ==
  Len(s) <= Len(t) /\ \A i \in 1..Len(s) : s[i] = t[i]

\* The contents of a region _decode_slot returns None for.
TornSlot == [intact |-> FALSE, counter |-> 0, head |-> << >>, hold |-> NoHold]

NewSlot(counter, head, hold) ==
  [intact |-> TRUE, counter |-> counter, head |-> head, hold |-> hold]

\* Two neighbouring slots no writer of this code produces are refused.
Consistent(older, newer) ==
  /\ newer.counter - older.counter = 1
  /\ Len(newer.head) >= Len(older.head)
  /\ older.hold # NoHold => newer.hold # NoHold

\* The index of the intact slot with the larger counter.
NewestIndex(slots) ==
  IF slots[1].intact /\ (slots[2].intact => slots[1].counter > slots[2].counter)
  THEN 1
  ELSE 2

\* What the reader makes of the file: the newest slot, or TornSlot when the
\* file is journal_anchor_invalid.
Analyze(slots) ==
  LET n == NewestIndex(slots)
      refused == \/ ~slots[n].intact
                 \/ \E i \in {1, 2} : slots[i].intact /\ (slots[i].counter % 2) + 1 # i
                 \/ /\ slots[1].intact /\ slots[2].intact
                    /\ ~Consistent(slots[3 - n], slots[n])
  IN IF refused THEN TornSlot ELSE slots[n]

HeldSlotCount(slots) ==
  (IF slots[1].intact /\ slots[1].hold # NoHold THEN 1 ELSE 0) +
  (IF slots[2].intact /\ slots[2].hold # NoHold THEN 1 ELSE 0)

\* The slot a write through the in-memory anchor goes to.
TargetIndex(anchor) == ((anchor.counter + 1) % 2) + 1

\* A persisted verdict is never erased and the head never moves backwards.
WriteRefused(anchor, head, hold) ==
  \/ anchor.hold # NoHold /\ hold = NoHold
  \/ Len(head) < Len(anchor.head)

=============================================================================
