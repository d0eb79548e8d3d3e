------------------------ MODULE RecoveryJournalProofs ------------------------
(***************************************************************************)
(* Proofs about RecoveryJournal for every value of the bounds.             *)
(*                                                                         *)
(* The inductive invariant says what the two anchor slots can look like,   *)
(* ties the anchor the process holds in memory to the one on disk at every *)
(* pc that still writes, and ties both to the rows and to the commits      *)
(* callers were told about.                                                *)
(***************************************************************************)
EXTENDS RecoveryJournal, TLAPS

\* The provers' time limits.
USE SMTT(30), ZenonT(30)

\* Slot n is the newer of two neighbours written by this code.
Newer(s, n) ==
  /\ s[n].counter = s[3 - n].counter + 1
  /\ IsPrefix(s[3 - n].head, s[n].head)
  /\ s[3 - n].hold # NoHold => s[n].hold = s[3 - n].hold

WellFormed(s) ==
  /\ \A i \in {1, 2} : s[i].intact => (s[i].counter % 2) + 1 = i
  /\ s[1].intact /\ s[2].intact => Newer(s, 1) \/ Newer(s, 2)

BothTorn(s) == s[1] = TornSlot /\ s[2] = TornSlot

\* The slots after w is written through the slot the reader returns.
Put(s, w) == [s EXCEPT ![TargetIndex(Analyze(s))] = w]

\* The slot that follows the one the reader returns.
Following(s, h, v) == NewSlot(Analyze(s).counter + 1, h, v)

\* The shape of the files.
DiskOK ==
  /\ WellFormed(slots)
  /\ "anchor" \notin files => BothTorn(slots)
  /\ files = {} => rows = << >> /\ acked = << >>
  /\ files # {} => "db" \in files
  /\ pc \in CreatePcs => acked = << >>
  /\ pc \in {"create_sql", "create_anchor", "create_slot"} => BothTorn(slots)
  /\ pc = "create_sql" => rows = << >>
  /\ pc \in {"create_slot", "create_sync"} => "anchor" \in files
  /\ pc # "down" => files # {}

AnchoredPcs == LivePcs \cup {"create_sync", "persist"}

\* The anchor in memory is the one on disk wherever it may still be written.
AnchorOK ==
  /\ pc \in AnchoredPcs => anchor.intact /\ anchor = Analyze(slots)
  /\ pc \in {"down", "create_sql", "create_anchor", "create_slot"} => anchor = TornSlot
  /\ pc \in {"down"} \cup LivePcs \cup CreatePcs => hold = NoHold /\ anchor.hold = NoHold
  /\ pc = "persist" => /\ hold \in RecoveryCodes
                       /\ writes = 2 => anchor.hold = NoHold
                       /\ writes = 1 => anchor.hold = hold
                       /\ writes \in {1, 2}
                       /\ rowFaults > 0 \/ slotFaults > 0

\* Rows, projection and anchored head at each pc of a live handle.
RowsOK ==
  /\ pc \in {"down", "create_sql"} => projection = << >>
  /\ pc \in {"create_anchor", "create_slot", "create_sync"} => projection = rows /\ rows # << >>
  /\ pc \in {"create_sync", "restart", "resume", "ready", "commit_sql"} =>
       projection = rows /\ anchor.head = rows
  /\ pc = "adopt" => projection = rows /\ IsPrefix(anchor.head, rows)
                     /\ Len(rows) = Len(anchor.head) + 1
  /\ pc \in {"commit_sync", "commit_slot"} =>
       anchor.head = projection /\ rows = Append(projection, pending)

\* What callers were told is under the anchor unless storage damaged the
\* anchor, and in the rows unless storage damaged the rows.
AckedOK ==
  /\ slotFaults = 0 => IsPrefix(acked, Analyze(slots).head)
  /\ rowFaults = 0 => IsPrefix(acked, rows)

\* Without damage the rows are the anchored ones and at most one more.
CleanOK ==
  /\ rowFaults = 0 => \A i \in 1..Len(rows) : rows[i] \in Nat
  /\ rowFaults = 0 /\ Analyze(slots).intact => rows # << >>
  /\ rowFaults = 0 /\ slotFaults = 0 /\ Analyze(slots).intact =>
       /\ Analyze(slots).hold = NoHold
       /\ IsPrefix(Analyze(slots).head, rows)
       /\ Len(rows) <= Len(Analyze(slots).head) + 1

IInv == TypeOK /\ DiskOK /\ AnchorOK /\ RowsOK /\ AckedOK /\ CleanOK /\ PersistedIsDurable

-----------------------------------------------------------------------------
(* Facts about prefixes, slots and the reader of the anchor *)

\* A sequence is a prefix of another when it agrees with it up to its length.
LEMMA PrefixPointwise ==
  \A s, t \in Seq(Row) :
    IsPrefix(s, t) <=> Len(s) <= Len(t) /\ \A i \in 1..Len(s) : s[i] = t[i]
BY Zenon DEF IsPrefix

\* Prefixes are reflexive and transitive, and the empty sequence is one.
LEMMA PrefixOrder ==
  /\ \A s \in Seq(Row) : IsPrefix(s, s) /\ IsPrefix(<< >>, s)
  /\ \A s, t, u \in Seq(Row) : IsPrefix(s, t) /\ IsPrefix(t, u) => IsPrefix(s, u)
<1>1. ASSUME NEW s \in Seq(Row) PROVE IsPrefix(s, s) /\ IsPrefix(<< >>, s)
  <2>1. << >> \in Seq(Row) /\ Len(<< >>) = 0
    OBVIOUS
  <2>2. ASSUME NEW e \in Seq(Row), Len(e) = 0 PROVE IsPrefix(e, s)
    <3>1. Len(s) \in Nat /\ Len(e) <= Len(s) /\ 1..Len(e) = {}
      BY <2>2
    <3>2. QED
      BY <3>1, PrefixPointwise, Zenon
  <2>3. IsPrefix(s, s)
    BY PrefixPointwise
  <2>4. QED
    BY <2>1, <2>2, <2>3, Zenon
<1>2. ASSUME NEW s \in Seq(Row), NEW t \in Seq(Row), NEW u \in Seq(Row),
             IsPrefix(s, t), IsPrefix(t, u)
      PROVE  IsPrefix(s, u)
  BY <1>2, PrefixPointwise
<1>3. QED
  BY <1>1, <1>2, Zenon

\* A prefix of full length is the sequence itself, and nothing but the empty
\* sequence is a prefix of the empty one.
LEMMA PrefixSame ==
  /\ \A s, t \in Seq(Row) : IsPrefix(s, t) /\ Len(s) = Len(t) => s = t
  /\ \A s \in Seq(Row) : IsPrefix(s, << >>) => s = << >>
<1>1. ASSUME NEW s \in Seq(Row), NEW t \in Seq(Row), IsPrefix(s, t), Len(s) = Len(t)
      PROVE  s = t
  BY <1>1, PrefixPointwise
<1>2. ASSUME NEW s \in Seq(Row), IsPrefix(s, << >>)
      PROVE  s = << >>
  <2>1. << >> \in Seq(Row) /\ Len(<< >>) = 0
    OBVIOUS
  <2>2. ASSUME NEW e \in Seq(Row), Len(e) = 0, IsPrefix(s, e) PROVE Len(s) = Len(e)
    <3>1. Len(s) \in Nat
      OBVIOUS
    <3>2. Len(s) <= Len(e)
      BY <2>2, PrefixPointwise, Zenon
    <3>3. QED
      BY <2>2, <3>1, <3>2
  <2>3. QED
    BY <1>1, <1>2, <2>1, <2>2, Zenon
<1>3. QED
  BY <1>1, <1>2, Zenon

\* Appending a commit extends a sequence by one.
LEMMA PrefixAppend ==
  ASSUME NEW s \in Seq(Row), NEW c \in Row
  PROVE  /\ Append(s, c) \in Seq(Row)
         /\ IsPrefix(s, Append(s, c))
         /\ Len(Append(s, c)) = Len(s) + 1
         /\ Append(s, c) # << >>
<1>1. /\ Append(s, c) \in Seq(Row)
      /\ Len(Append(s, c)) = Len(s) + 1
      /\ \A i \in 1..Len(s) : Append(s, c)[i] = s[i]
  OBVIOUS
<1>2. \A t \in Seq(Row) :
        Len(t) = Len(s) + 1 /\ (\A i \in 1..Len(s) : t[i] = s[i]) => IsPrefix(s, t)
  BY PrefixPointwise
<1>3. IsPrefix(s, Append(s, c))
  BY <1>1, <1>2, Zenon
<1>4. Append(s, c) # << >>
  <2>1. Len(<< >>) = 0 /\ Len(s) \in Nat
    OBVIOUS
  <2>2. QED
    BY <1>1, <2>1
<1>5. QED
  BY <1>1, <1>3, <1>4, Zenon

\* The slot of the next counter is the other one of the two.
LEMMA Parity ==
  \A c \in Nat : /\ (c % 2) + 1 \in {1, 2}
                 /\ ((c + 1) % 2) + 1 = 3 - ((c % 2) + 1)
OBVIOUS

\* A write goes to one of the two slots.
LEMMA TargetInRange ==
  \A a \in Slot : TargetIndex(a) \in {1, 2}
<1>1. TAKE a \in Slot
<1>2. a.counter \in Nat
  BY Zenon DEF Slot
<1>3. QED
  BY <1>2, Parity DEF TargetIndex

\* The reader returns a slot, and TornSlot when neither slot is intact.
LEMMA AnalyzeType ==
  ASSUME NEW s \in [{1, 2} -> Slot]
  PROVE  /\ TornSlot \in Slot
         /\ Analyze(s) \in Slot
         /\ BothTorn(s) => Analyze(s) = TornSlot
<1>1. TornSlot \in Slot
  BY DEF TornSlot, Slot, Hold
<1>2. NewestIndex(s) \in {1, 2}
  BY Zenon DEF NewestIndex
<1>3. Analyze(s) \in Slot
  BY <1>1, <1>2, Zenon DEF Analyze
<1>4. ASSUME BothTorn(s) PROVE Analyze(s) = TornSlot
  BY <1>2, <1>4, Zenon DEF Analyze, BothTorn, TornSlot
<1>5. QED
  BY <1>1, <1>3, <1>4, Zenon

\* Of two intact neighbours the reader takes the newer.
LEMMA AnalyzeNewer ==
  ASSUME NEW s \in [{1, 2} -> Slot], s[1].intact, s[2].intact,
         (s[1].counter % 2) + 1 = 1, (s[2].counter % 2) + 1 = 2,
         NEW n \in {1, 2}, Newer(s, n)
  PROVE  Analyze(s) = s[n]
<1>1. /\ s[1].counter \in Nat /\ s[1].head \in Seq(Row)
      /\ s[2].counter \in Nat /\ s[2].head \in Seq(Row)
  BY Zenon DEF Slot
<1>2. \A i \in {1, 2} : ~(s[i].intact /\ (s[i].counter % 2) + 1 # i)
  BY Zenon
<1>3. CASE n = 1
  <2>1. /\ s[1].counter = s[2].counter + 1
        /\ IsPrefix(s[2].head, s[1].head)
        /\ s[2].hold # NoHold => s[1].hold = s[2].hold
    BY <1>3 DEF Newer
  <2>2. NewestIndex(s) = 1
    BY <1>1, <2>1 DEF NewestIndex
  <2>3. Len(s[2].head) <= Len(s[1].head)
    BY <1>1, <2>1, PrefixPointwise, Zenon
  <2>4. Consistent(s[2], s[1])
    <3>1. s[1].counter - s[2].counter = 1
      BY <1>1, <2>1
    <3>2. Len(s[1].head) >= Len(s[2].head)
      BY <1>1, <2>3, Zenon
    <3>3. QED
      BY <2>1, <3>1, <3>2, Zenon DEF Consistent
  <2>5. QED
    BY <1>2, <1>3, <2>2, <2>4 DEF Analyze
<1>4. CASE n = 2
  <2>1. /\ s[2].counter = s[1].counter + 1
        /\ IsPrefix(s[1].head, s[2].head)
        /\ s[1].hold # NoHold => s[2].hold = s[1].hold
    BY <1>4 DEF Newer
  <2>2. NewestIndex(s) = 2
    BY <1>1, <2>1 DEF NewestIndex
  <2>3. Len(s[1].head) <= Len(s[2].head)
    BY <1>1, <2>1, PrefixPointwise, Zenon
  <2>4. Consistent(s[1], s[2])
    <3>1. s[2].counter - s[1].counter = 1
      BY <1>1, <2>1
    <3>2. Len(s[2].head) >= Len(s[1].head)
      BY <1>1, <2>3, Zenon
    <3>3. QED
      BY <2>1, <3>1, <3>2, Zenon DEF Consistent
  <2>5. QED
    BY <1>2, <1>4, <2>2, <2>4 DEF Analyze
<1>5. QED
  BY <1>3, <1>4, Zenon

\* A lone intact slot is what the reader returns.
LEMMA AnalyzeLone ==
  ASSUME NEW s \in [{1, 2} -> Slot], NEW n \in {1, 2},
         s[n].intact, ~s[3 - n].intact, (s[n].counter % 2) + 1 = n
  PROVE  Analyze(s) = s[n]
<1>1. CASE n = 1
  BY <1>1 DEF Analyze, NewestIndex
<1>2. CASE n = 2
  BY <1>2 DEF Analyze, NewestIndex
<1>3. QED
  BY <1>1, <1>2, Zenon

\* A well-formed pair the reader accepts: it returns an intact slot, whose
\* counter has the parity of its place.
LEMMA AnalyzePlace ==
  ASSUME NEW s \in [{1, 2} -> Slot], Analyze(s).intact
  PROVE  \E n \in {1, 2} : /\ Analyze(s) = s[n] /\ s[n].intact
                           /\ s[n].counter \in Nat
                           /\ (s[n].counter % 2) + 1 = n
                           /\ TargetIndex(Analyze(s)) = 3 - n
<1> DEFINE n == NewestIndex(s)
<1>1. n \in {1, 2}
  BY Zenon DEF NewestIndex
<1>2. Analyze(s) = s[n] /\ s[n].intact
  BY <1>1, Zenon DEF Analyze, TornSlot
<1>3. Analyze(s) # TornSlot
  BY DEF TornSlot
<1>4. (s[n].counter % 2) + 1 = n
  BY <1>1, <1>2, <1>3, Zenon DEF Analyze
<1>5. s[n].counter \in Nat
  BY <1>1, Zenon DEF Slot
<1>6. TargetIndex(s[n]) = 3 - n
  BY <1>4, <1>5, Parity, Zenon DEF TargetIndex
<1>7. QED
  BY <1>1, <1>2, <1>4, <1>5, <1>6, Zenon

\* The reader returns an intact slot when a well-formed pair has one, and only
\* then.
LEMMA AnalyzeIntact ==
  ASSUME NEW s \in [{1, 2} -> Slot], WellFormed(s)
  PROVE  Analyze(s).intact <=> s[1].intact \/ s[2].intact
<1>1. /\ s[1].intact => (s[1].counter % 2) + 1 = 1
      /\ s[2].intact => (s[2].counter % 2) + 1 = 2
      /\ s[1].intact /\ s[2].intact => Newer(s, 1) \/ Newer(s, 2)
  BY Zenon DEF WellFormed
<1>2. CASE s[1].intact /\ s[2].intact
  <2>1. PICK n \in {1, 2} : Newer(s, n)
    BY <1>1, <1>2, Zenon
  <2>2. Analyze(s) = s[n]
    BY <1>1, <1>2, <2>1, AnalyzeNewer, Zenon
  <2>3. QED
    BY <1>2, <2>2, Zenon
<1>3. CASE s[1].intact /\ ~s[2].intact
  <2>1. Analyze(s) = s[1]
    <3>1. ~s[3 - 1].intact
      BY <1>3
    <3>2. QED
      BY <1>1, <1>3, <3>1, AnalyzeLone, Zenon
  <2>2. QED
    BY <1>3, <2>1, Zenon
<1>4. CASE ~s[1].intact /\ s[2].intact
  <2>1. Analyze(s) = s[2]
    <3>1. ~s[3 - 2].intact
      BY <1>4
    <3>2. QED
      BY <1>1, <1>4, <3>1, AnalyzeLone, Zenon
  <2>2. QED
    BY <1>4, <2>1, Zenon
<1>5. CASE ~s[1].intact /\ ~s[2].intact
  <2>1. ASSUME Analyze(s).intact PROVE FALSE
    BY <1>5, <2>1, AnalyzePlace, Zenon
  <2>2. QED
    BY <1>5, <2>1, Zenon
<1>6. QED
  BY <1>2, <1>3, <1>4, <1>5, Zenon

\* The next write never goes to the slot the reader returns.
LEMMA OtherSlot ==
  ASSUME NEW s \in [{1, 2} -> Slot], Analyze(s).intact
  PROVE  s[3 - TargetIndex(Analyze(s))] = Analyze(s)
<1>1. PICK n \in {1, 2} : Analyze(s) = s[n] /\ TargetIndex(Analyze(s)) = 3 - n
  BY AnalyzePlace, Zenon
<1>2. 3 - TargetIndex(Analyze(s)) = n
  BY <1>1
<1>3. QED
  BY <1>1, <1>2, Zenon

\* Writing the next slot from the slot the reader returns: the new slot is what
\* the reader returns from then on.
LEMMA WriteNext ==
  ASSUME NEW s \in [{1, 2} -> Slot],
         NEW h \in Seq(Row), NEW v \in Hold,
         Analyze(s).intact,
         IsPrefix(Analyze(s).head, h),
         Analyze(s).hold # NoHold => v = Analyze(s).hold
  PROVE  /\ Put(s, Following(s, h, v)) \in [{1, 2} -> Slot]
         /\ WellFormed(Put(s, Following(s, h, v)))
         /\ Analyze(Put(s, Following(s, h, v))) = Following(s, h, v)
<1> DEFINE w == Following(s, h, v)
           t == Put(s, w)
<1>1. PICK n \in {1, 2} : /\ Analyze(s) = s[n] /\ s[n].intact
                         /\ s[n].counter \in Nat
                         /\ (s[n].counter % 2) + 1 = n
                         /\ TargetIndex(Analyze(s)) = 3 - n
  BY AnalyzePlace, Zenon
<1>2. /\ w \in Slot /\ w.intact /\ w.counter = s[n].counter + 1
      /\ w.head = h /\ w.hold = v
  BY <1>1 DEF Following, NewSlot, Slot
<1>3. (w.counter % 2) + 1 = 3 - n
  BY <1>1, <1>2, Parity, Zenon
<1>4. /\ IsPrefix(s[n].head, w.head)
      /\ s[n].hold # NoHold => w.hold = s[n].hold
  BY <1>1, <1>2, Zenon
<1>5. t = [s EXCEPT ![3 - n] = w]
  BY <1>1, Zenon DEF Put
<1>6. t \in [{1, 2} -> Slot] /\ WellFormed(t) /\ Analyze(t) = w
  <2> HIDE DEF t, w
  <2>1. CASE n = 1
    <3>1. t \in [{1, 2} -> Slot] /\ t[1] = s[1] /\ t[2] = w
      BY <1>2, <1>5, <2>1
    <3>2. Newer(t, 2)
      BY <1>2, <1>4, <2>1, <3>1 DEF Newer
    <3>3. /\ t[1].intact /\ (t[1].counter % 2) + 1 = 1
          /\ t[2].intact /\ (t[2].counter % 2) + 1 = 2
      BY <1>1, <1>2, <1>3, <2>1, <3>1
    <3>4. Analyze(t) = t[2]
      BY <3>1, <3>2, <3>3, AnalyzeNewer, Zenon
    <3>5. WellFormed(t)
      BY <3>2, <3>3, Zenon DEF WellFormed
    <3>6. QED
      BY <3>1, <3>4, <3>5, Zenon
  <2>2. CASE n = 2
    <3>1. t \in [{1, 2} -> Slot] /\ t[2] = s[2] /\ t[1] = w
      BY <1>2, <1>5, <2>2
    <3>2. Newer(t, 1)
      BY <1>2, <1>4, <2>2, <3>1 DEF Newer
    <3>3. /\ t[1].intact /\ (t[1].counter % 2) + 1 = 1
          /\ t[2].intact /\ (t[2].counter % 2) + 1 = 2
      BY <1>1, <1>2, <1>3, <2>2, <3>1
    <3>4. Analyze(t) = t[1]
      BY <3>1, <3>2, <3>3, AnalyzeNewer, Zenon
    <3>5. WellFormed(t)
      BY <3>2, <3>3, Zenon DEF WellFormed
    <3>6. QED
      BY <3>1, <3>4, <3>5, Zenon
  <2>3. QED
    BY <2>1, <2>2, Zenon
<1>7. QED
  BY <1>6, Zenon

\* A torn write of the next slot leaves the slot the reader returns.
LEMMA TearNext ==
  ASSUME NEW s \in [{1, 2} -> Slot], Analyze(s).intact
  PROVE  /\ Put(s, TornSlot) \in [{1, 2} -> Slot]
         /\ WellFormed(Put(s, TornSlot))
         /\ Analyze(Put(s, TornSlot)) = Analyze(s)
<1> DEFINE t == Put(s, TornSlot)
<1>1. PICK n \in {1, 2} : /\ Analyze(s) = s[n] /\ s[n].intact
                         /\ (s[n].counter % 2) + 1 = n
                         /\ TargetIndex(Analyze(s)) = 3 - n
  BY AnalyzePlace, Zenon
<1>2. t = [s EXCEPT ![3 - n] = TornSlot]
  BY <1>1, Zenon DEF Put
<1> HIDE DEF t
<1>3. TornSlot \in Slot /\ ~TornSlot.intact
  BY DEF TornSlot, Slot, Hold
<1>4. 3 - n \in {1, 2} /\ 3 - n # n /\ 3 - (3 - n) = n
  OBVIOUS
<1>5. t \in [{1, 2} -> Slot] /\ t[n] = s[n] /\ t[3 - n] = TornSlot
  BY <1>2, <1>3, <1>4, Zenon
<1>6. Analyze(t) = t[n]
  BY <1>1, <1>3, <1>5, AnalyzeLone, Zenon
<1>7. WellFormed(t)
  <2>1. ~(t[1].intact /\ t[2].intact)
    BY <1>3, <1>5
  <2>2. \A i \in {1, 2} : t[i].intact => i = n
    BY <1>3, <1>5
  <2>3. \A i \in {1, 2} : t[i].intact => (t[i].counter % 2) + 1 = i
    BY <1>1, <1>5, <2>2, Zenon
  <2>4. QED
    BY <2>1, <2>3, Zenon DEF WellFormed
<1>8. QED
  BY <1>1, <1>5, <1>6, <1>7, Zenon DEF t

\* The first slot of a new anchor file goes to slot index 1 of the file.
LEMMA WriteFirst ==
  ASSUME NEW s \in [{1, 2} -> Slot], BothTorn(s), NEW h \in Seq(Row)
  PROVE  /\ [s EXCEPT ![2] = NewSlot(1, h, NoHold)] \in [{1, 2} -> Slot]
         /\ WellFormed([s EXCEPT ![2] = NewSlot(1, h, NoHold)])
         /\ Analyze([s EXCEPT ![2] = NewSlot(1, h, NoHold)]) = NewSlot(1, h, NoHold)
<1> DEFINE w == NewSlot(1, h, NoHold)
           t == [s EXCEPT ![2] = w]
<1>1. s[1] = TornSlot /\ ~TornSlot.intact
  BY Zenon DEF BothTorn, TornSlot
<1>2. w \in Slot /\ w.intact /\ w.counter = 1
  BY Zenon DEF NewSlot, Slot, Hold
<1> HIDE DEF w
<1>4. t \in [{1, 2} -> Slot] /\ t[2] = w /\ t[1] = s[1]
  BY <1>2
<1> HIDE DEF t
<1>5. t[2].intact /\ ~t[3 - 2].intact /\ ~t[1].intact /\ (t[2].counter % 2) + 1 = 2
  BY <1>1, <1>2, <1>4
<1>6. Analyze(t) = t[2]
  BY <1>4, <1>5, AnalyzeLone, Zenon
<1>7. WellFormed(t)
  BY <1>5, Zenon DEF WellFormed
<1>8. QED
  BY <1>4, <1>6, <1>7, Zenon DEF t, w

-----------------------------------------------------------------------------
(* What an anchor write does to the disk *)

\* At every pc whose write follows a readable slot, the slot to be written
\* extends that slot and keeps its verdict.
LEMMA WrittenFollows ==
  ASSUME IInv, pc \in {"persist", "adopt", "commit_slot"}
  PROVE  /\ anchor.intact /\ anchor = Analyze(slots)
         /\ SlotHead \in Seq(Row) /\ SlotHold \in Hold
         /\ IsPrefix(anchor.head, SlotHead)
         /\ anchor.hold # NoHold => SlotHold = anchor.hold
         /\ Written \in Slot
<1>1. anchor.intact /\ anchor = Analyze(slots) /\ anchor \in Slot
  BY Zenon DEF IInv, AnchorOK, AnchoredPcs, LivePcs, CommitPcs, TypeOK
<1>2. projection \in Seq(Row) /\ pending \in Row /\ rows \in Seq(Row) /\ anchor.head \in Seq(Row)
      /\ anchor.counter \in Nat
  BY <1>1, Zenon DEF IInv, TypeOK, Row, Slot
<1>3. SlotHead \in Seq(Row) /\ SlotHold \in Hold /\ IsPrefix(anchor.head, SlotHead)
      /\ (anchor.hold # NoHold => SlotHold = anchor.hold)
  <2>1. CASE pc = "persist"
    BY <1>2, <2>1, PrefixOrder, Zenon DEF SlotHead, SlotHold, IInv, AnchorOK, Hold
  <2>2. CASE pc = "adopt"
    BY <1>2, <2>2, Zenon DEF SlotHead, SlotHold, IInv, AnchorOK, RowsOK, Hold, LivePcs
  <2>3. CASE pc = "commit_slot"
    <3>1. SlotHead = Append(projection, pending) /\ SlotHold = NoHold
      BY <2>3, Zenon DEF SlotHead, SlotHold
    <3>2. anchor.head = projection /\ anchor.hold = NoHold
      BY <2>3, Zenon DEF IInv, AnchorOK, RowsOK, LivePcs, CommitPcs
    <3>3. QED
      BY <1>2, <3>1, <3>2, PrefixAppend, Zenon DEF Hold
  <2>4. QED
    BY <2>1, <2>2, <2>3, Zenon
<1>4. Written \in Slot
  BY <1>2, <1>3 DEF Written, NewSlot, Slot
<1>5. QED
  BY <1>1, <1>3, <1>4, Zenon

\* A finished write is what the next reader returns.
LEMMA WriteEffect ==
  ASSUME IInv, pc \in {"persist", "adopt", "commit_slot"}, WriteSlot
  PROVE  /\ slots' \in [{1, 2} -> Slot]
         /\ WellFormed(slots')
         /\ Analyze(slots') = Written
         /\ anchor' = Written
         /\ TargetIndex(anchor) \in {1, 2}
         /\ slots'[TargetIndex(anchor)] = Written
         /\ slots'[3 - TargetIndex(anchor)] = anchor
<1>1. slots \in [{1, 2} -> Slot] /\ WellFormed(slots)
  BY Zenon DEF IInv, TypeOK, DiskOK
<1>2. TargetIndex(anchor) \in {1, 2}
  BY TargetInRange, Zenon DEF IInv, TypeOK
<1>3. /\ anchor' = Written
      /\ slots' = [slots EXCEPT ![TargetIndex(anchor)] = Written]
      /\ slots' = Put(slots, Written)
      /\ Written = Following(slots, SlotHead, SlotHold)
  BY WrittenFollows, Zenon DEF WriteSlot, Put, Following, Written
<1>4. /\ SlotHead \in Seq(Row) /\ SlotHold \in Hold
      /\ Analyze(slots).intact
      /\ IsPrefix(Analyze(slots).head, SlotHead)
      /\ Analyze(slots).hold # NoHold => SlotHold = Analyze(slots).hold
  BY WrittenFollows, Zenon
<1>5. slots' \in [{1, 2} -> Slot] /\ WellFormed(slots') /\ Analyze(slots') = Written
  <2>1. /\ Put(slots, Following(slots, SlotHead, SlotHold)) \in [{1, 2} -> Slot]
        /\ WellFormed(Put(slots, Following(slots, SlotHead, SlotHold)))
        /\ Analyze(Put(slots, Following(slots, SlotHead, SlotHold)))
              = Following(slots, SlotHead, SlotHold)
    BY <1>1, <1>4, WriteNext, Zenon
  <2>2. slots' = Put(slots, Following(slots, SlotHead, SlotHold))
    BY <1>3, Zenon
  <2>3. QED
    BY <1>3, <2>1, <2>2, Zenon
<1>6. slots'[3 - TargetIndex(anchor)] = anchor
  <2>1. slots[3 - TargetIndex(anchor)] = anchor
    BY <1>1, WrittenFollows, OtherSlot, Zenon
  <2>2. QED
    BY <1>1, <1>2, <1>3, <2>1
<1>7. QED
  BY <1>1, <1>2, <1>3, <1>5, <1>6, WrittenFollows, Zenon

\* A write that fails leaves the reader with the old slot or the new one.
LEMMA OutcomeEffect ==
  ASSUME IInv, pc \in {"persist", "adopt", "commit_slot"}, SlotOutcome
  PROVE  /\ slots' \in [{1, 2} -> Slot]
         /\ WellFormed(slots')
         /\ Analyze(slots') \in {anchor, Written}
<1>1. slots \in [{1, 2} -> Slot] /\ WellFormed(slots)
  BY DEF IInv, TypeOK, DiskOK
<1>2. TargetIndex(anchor) \in {1, 2}
  BY TargetInRange DEF IInv, TypeOK
<1>3. PICK s \in {slots[TargetIndex(anchor)], TornSlot, Written} :
        slots' = [slots EXCEPT ![TargetIndex(anchor)] = s]
  BY Zenon DEF SlotOutcome
<1>4. CASE s = slots[TargetIndex(anchor)]
  <2>1. slots' = slots
    BY <1>1, <1>3, <1>4, Zenon
  <2>2. QED
    BY <1>1, <2>1, WrittenFollows, Zenon
<1>5. CASE s = TornSlot
  <2>1. slots' = Put(slots, TornSlot)
    BY <1>3, <1>5, WrittenFollows, Zenon DEF Put
  <2>2. QED
    BY <1>1, <2>1, WrittenFollows, TearNext, Zenon
<1>6. CASE s = Written
  <2>1. slots' = Put(slots, Written) /\ Written = Following(slots, SlotHead, SlotHold)
    BY <1>3, <1>6, WrittenFollows, Zenon DEF Put, Following, Written
  <2>2. /\ SlotHead \in Seq(Row) /\ SlotHold \in Hold
        /\ Analyze(slots).intact
        /\ IsPrefix(Analyze(slots).head, SlotHead)
        /\ Analyze(slots).hold # NoHold => SlotHold = Analyze(slots).hold
    BY WrittenFollows, Zenon
  <2>3. QED
    BY <1>1, <2>1, <2>2, WriteNext, Zenon
<1>7. QED
  BY <1>3, <1>4, <1>5, <1>6, Zenon

\* The first slot of a new journal: nothing readable, or the genesis head.
LEMMA FirstOutcome ==
  ASSUME IInv, pc = "create_slot", SlotOutcome \/ WriteSlot
  PROVE  /\ slots' \in [{1, 2} -> Slot]
         /\ WellFormed(slots')
         /\ Analyze(slots') \in {TornSlot, Written}
         /\ WriteSlot => Analyze(slots') = Written
         /\ Written \in Slot /\ Written.intact /\ Written.head = rows
         /\ Written.hold = NoHold
<1>1. slots \in [{1, 2} -> Slot] /\ BothTorn(slots) /\ anchor = TornSlot
      /\ projection = rows /\ rows \in Seq(Row) /\ WellFormed(slots)
  BY Zenon DEF IInv, TypeOK, DiskOK, AnchorOK, RowsOK, CreatePcs
<1>2. SlotHead = rows /\ SlotHold = NoHold
  BY <1>1, Zenon DEF SlotHead, SlotHold
<1>3. Written = NewSlot(1, rows, NoHold)
  BY <1>1, <1>2 DEF Written, TornSlot
<1>4. Written \in Slot /\ Written.intact /\ Written.head = rows /\ Written.hold = NoHold
  BY <1>1, <1>3, Zenon DEF NewSlot, Slot, Hold, TornSlot
<1>5. TargetIndex(TornSlot) = 2
  BY DEF TornSlot, TargetIndex
<1>6. ASSUME slots' = [slots EXCEPT ![2] = Written]
      PROVE  slots' \in [{1, 2} -> Slot] /\ WellFormed(slots') /\ Analyze(slots') = Written
  BY <1>1, <1>3, <1>6, WriteFirst, Zenon
<1>7. CASE WriteSlot
  BY <1>1, <1>4, <1>5, <1>6, <1>7, Zenon DEF WriteSlot
<1>8. CASE SlotOutcome
  <2>1. PICK s \in {slots[TargetIndex(anchor)], TornSlot, Written} :
          slots' = [slots EXCEPT ![TargetIndex(anchor)] = s]
    BY <1>8, Zenon DEF SlotOutcome
  <2>2. CASE s = Written
    BY <1>1, <1>4, <1>5, <1>6, <2>1, <2>2, Zenon
  <2>3. CASE s # Written
    <3>1. slots' = slots
      BY <1>1, <1>5, <2>1, <2>3, Zenon DEF BothTorn
    <3>2. Analyze(slots) = TornSlot
      BY <1>1, AnalyzeType, Zenon
    <3>3. WriteSlot => Analyze(slots') = Written
      BY <1>7, Zenon
    <3>4. QED
      BY <1>1, <1>4, <3>1, <3>2, <3>3, Zenon
  <2>4. QED
    BY <2>2, <2>3, Zenon
<1>9. QED
  BY <1>7, <1>8, Zenon

-----------------------------------------------------------------------------
(* Facts every step uses *)

\* Types of the values the actions assign, and the reader's view of the file.
LEMMA StateFacts ==
  ASSUME IInv
  PROVE  /\ TornSlot \in Slot /\ << >> \in Seq(Row)
         /\ slots \in [{1, 2} -> Slot] /\ Analyze(slots) \in Slot
         /\ Readable = Analyze(slots)
         /\ rows \in Seq(Row) /\ projection \in Seq(Row) /\ acked \in Seq(Row)
         /\ pending \in Nat /\ pending \in Row
         /\ Append(rows, pending) \in Seq(Row)
         /\ Append(projection, pending) \in Seq(Row)
         /\ IsPrefix(rows, Append(rows, pending))
         /\ Append(rows, pending) # << >>
         /\ Len(Append(rows, pending)) = Len(rows) + 1
<1>1. /\ rows \in Seq(Row) /\ projection \in Seq(Row) /\ acked \in Seq(Row)
      /\ pending \in Nat /\ slots \in [{1, 2} -> Slot]
  BY Zenon DEF IInv, TypeOK
<1>2. pending \in Row /\ << >> \in Seq(Row)
  BY <1>1 DEF Row
<1>3. TornSlot \in Slot /\ Analyze(slots) \in Slot /\ (BothTorn(slots) => Analyze(slots) = TornSlot)
  BY <1>1, AnalyzeType, Zenon
<1>4. Readable = Analyze(slots)
  BY <1>3, Zenon DEF IInv, DiskOK, Readable
<1>5. QED
  BY <1>1, <1>2, <1>3, <1>4, PrefixAppend, Zenon

\* Appending a commit keeps rows that are all intact.
LEMMA AppendIntact ==
  ASSUME NEW s \in Seq(Row), NEW c \in Nat, \A i \in 1..Len(s) : s[i] \in Nat
  PROVE  \A i \in 1..Len(Append(s, c)) : Append(s, c)[i] \in Nat
<1>1. c \in Row
  BY Zenon DEF Row
<1>2. /\ Len(Append(s, c)) = Len(s) + 1
      /\ \A i \in 1..Len(s) : Append(s, c)[i] = s[i]
      /\ Append(s, c)[Len(s) + 1] = c
  BY <1>1
<1>3. TAKE i \in 1..Len(Append(s, c))
<1>4. i \in 1..Len(s) \/ i = Len(s) + 1
  BY <1>2
<1>5. QED
  BY <1>2, <1>4, Zenon

\* An open finds nothing exactly when the anchor is readable, carries no
\* verdict, and names the rows or all of them but the last.
LEMMA FindingNone ==
  ASSUME IInv
  PROVE  /\ OpenFinding \in RecoveryCodes \cup {NoHold}
         /\ OpenFinding = NoHold =>
              /\ Readable.intact /\ Readable.hold = NoHold /\ rows # << >>
              /\ IsPrefix(Readable.head, rows)
              /\ Len(rows) = Len(Readable.head) \/ Len(rows) = Len(Readable.head) + 1
         /\ /\ "anchor" \in files /\ Readable.intact /\ Readable.hold = NoHold
            /\ rows # << >> /\ \A i \in 1..Len(rows) : rows[i] \in Nat
            /\ IsPrefix(Readable.head, rows) /\ Len(rows) <= Len(Readable.head) + 1
            => OpenFinding = NoHold
<1>1. NoHold \notin RecoveryCodes
  BY NoHoldAssumption, Zenon
<1>2. Readable \in Slot /\ Readable.head \in Seq(Row) /\ Readable.hold \in Hold
  BY StateFacts, Zenon DEF Slot
<1>3. rows \in Seq(Row) /\ Len(rows) \in Nat /\ Len(Readable.head) \in Nat
  BY <1>2, StateFacts
<1>4. StoreFinding \in RecoveryCodes \cup {NoHold}
  BY <1>2, Zenon DEF StoreFinding, RecoveryCodes, Hold
<1>5. ReplayFinding \in RecoveryCodes \cup {NoHold}
  BY Zenon DEF ReplayFinding, RecoveryCodes
<1>6. StoreFinding = NoHold =>
        /\ Readable.intact /\ Readable.hold = NoHold /\ rows # << >>
  BY <1>1, Zenon DEF StoreFinding, RecoveryCodes
<1>7. ReplayFinding = NoHold =>
        /\ IsPrefix(Readable.head, rows)
        /\ ~(Len(rows) - Len(Readable.head) < 0)
        /\ ~(Len(rows) - Len(Readable.head) > 1)
  BY <1>1, Zenon DEF ReplayFinding, RecoveryCodes
<1>8. ASSUME ~(Len(rows) - Len(Readable.head) < 0), ~(Len(rows) - Len(Readable.head) > 1)
      PROVE  Len(rows) = Len(Readable.head) \/ Len(rows) = Len(Readable.head) + 1
  BY <1>3, <1>8
<1>9. ASSUME "anchor" \in files, Readable.intact, Readable.hold = NoHold, rows # << >>
      PROVE  StoreFinding = NoHold
  BY <1>9, Zenon DEF StoreFinding
<1>10. ASSUME \A i \in 1..Len(rows) : rows[i] \in Nat,
              IsPrefix(Readable.head, rows), Len(rows) <= Len(Readable.head) + 1
       PROVE  ReplayFinding = NoHold
  <2>1. DOMAIN rows = 1..Len(rows)
    BY <1>3
  <2>2. ~(\E i \in DOMAIN rows : rows[i] = Corrupt)
    BY <1>10, <2>1, CorruptAssumption, Zenon
  <2>3. Len(Readable.head) <= Len(rows)
    BY <1>2, <1>3, <1>10, PrefixPointwise, Zenon
  <2>4. ~(Len(rows) - Len(Readable.head) < 0) /\ ~(Len(rows) - Len(Readable.head) > 1)
    BY <1>3, <1>10, <2>3
  <2>5. QED
    BY <1>10, <2>2, <2>4, Zenon DEF ReplayFinding
<1>11. QED
  BY <1>4, <1>5, <1>6, <1>7, <1>8, <1>9, <1>10, Zenon DEF OpenFinding

-----------------------------------------------------------------------------
(* Each action preserves the invariant: one lemma per action, and under it one
   step per conjunct. *)

\* IInv survives create makes the database file.
LEMMA CreateInv ==
  ASSUME IInv, Create
  PROVE  IInv'
<1> USE DEF CreatePcs, LivePcs, CommitPcs, AnchoredPcs, disk, memory, history
<1>1. TypeOK'
  BY StateFacts DEF Create, IInv, TypeOK, ProcessCodes
<1>2. DiskOK'
  BY Zenon DEF Create, IInv, DiskOK
<1>3. AnchorOK'
  BY Zenon DEF Create, IInv, AnchorOK
<1>4. RowsOK'
  BY Zenon DEF Create, IInv, RowsOK
<1>5. AckedOK'
  BY Zenon DEF Create, IInv, AckedOK
<1>6. CleanOK'
  BY Zenon DEF Create, IInv, CleanOK
<1>7. PersistedIsDurable'
  BY Zenon DEF Create, IInv, PersistedIsDurable, Readable, RecoveryCodes
<1>8. QED
  BY <1>1, <1>2, <1>3, <1>4, <1>5, <1>6, <1>7, Zenon DEF IInv

\* IInv survives create commits the genesis record.
LEMMA CreateCommitInv ==
  ASSUME IInv, CreateCommit
  PROVE  IInv'
<1> USE DEF CreatePcs, LivePcs, CommitPcs, AnchoredPcs, disk, memory, history
<1>1. TypeOK'
  BY StateFacts, Zenon DEF CreateCommit, IInv, TypeOK, ProcessCodes
<1>2. DiskOK'
  BY Zenon DEF CreateCommit, IInv, DiskOK
<1>3. AnchorOK'
  BY Zenon DEF CreateCommit, IInv, AnchorOK
<1>4. RowsOK'
  <2>1. pc = "create_sql" /\ projection = rows
    BY Zenon DEF CreateCommit, IInv, RowsOK, DiskOK
  <2>2. rows' = Append(rows, pending) /\ projection' = rows' /\ rows' # << >> /\ pc' = "create_anchor"
    BY <2>1, StateFacts, Zenon DEF CreateCommit
  <2>3. QED
    BY <2>2, Zenon DEF RowsOK
<1>5. AckedOK'
  <2>1. acked' = << >> /\ slots' = slots /\ slotFaults' = slotFaults
    BY Zenon DEF CreateCommit, IInv, DiskOK
  <2>2. rows' \in Seq(Row) /\ Analyze(slots).head \in Seq(Row)
    BY StateFacts, Zenon DEF CreateCommit, Slot
  <2>3. QED
    BY <2>1, <2>2, PrefixOrder, Zenon DEF AckedOK
<1>6. CleanOK'
  <2>1. rows' = Append(rows, pending) /\ slots' = slots
        /\ rowFaults' = rowFaults /\ slotFaults' = slotFaults
    BY Zenon DEF CreateCommit
  <2>2. ~Analyze(slots).intact
    BY StateFacts, AnalyzeType DEF CreateCommit, IInv, DiskOK, TornSlot
  <2>3. rowFaults = 0 => \A i \in 1..Len(rows') : rows'[i] \in Nat
    BY <2>1, StateFacts, AppendIntact, Zenon DEF IInv, CleanOK
  <2>4. rows' # << >>
    BY <2>1, StateFacts, Zenon
  <2>5. QED
    BY <2>1, <2>2, <2>3, <2>4, Zenon DEF CleanOK
<1>7. PersistedIsDurable'
  BY Zenon DEF CreateCommit, IInv, PersistedIsDurable, Readable, RecoveryCodes
<1>8. QED
  BY <1>1, <1>2, <1>3, <1>4, <1>5, <1>6, <1>7 DEF IInv

\* IInv survives create makes the anchor file.
LEMMA CreateAnchorFileInv ==
  ASSUME IInv, CreateAnchorFile
  PROVE  IInv'
<1> USE DEF CreatePcs, LivePcs, CommitPcs, AnchoredPcs, disk, memory, history
<1>1. TypeOK'
  BY StateFacts, Zenon DEF CreateAnchorFile, IInv, TypeOK, ProcessCodes
<1>2. DiskOK'
  BY Zenon DEF CreateAnchorFile, IInv, DiskOK
<1>3. AnchorOK'
  BY Zenon DEF CreateAnchorFile, IInv, AnchorOK
<1>4. RowsOK'
  BY Zenon DEF CreateAnchorFile, IInv, RowsOK
<1>5. AckedOK'
  BY Zenon DEF CreateAnchorFile, IInv, AckedOK
<1>6. CleanOK'
  BY Zenon DEF CreateAnchorFile, IInv, CleanOK
<1>7. PersistedIsDurable'
  BY Zenon DEF CreateAnchorFile, IInv, PersistedIsDurable, Readable, RecoveryCodes
<1>8. QED
  BY <1>1, <1>2, <1>3, <1>4, <1>5, <1>6, <1>7 DEF IInv

\* IInv survives create returns.
LEMMA CreateDoneInv ==
  ASSUME IInv, CreateDone
  PROVE  IInv'
<1> USE DEF CreatePcs, LivePcs, CommitPcs, AnchoredPcs, disk, memory, history
<1>1. TypeOK'
  BY StateFacts, Zenon DEF CreateDone, IInv, TypeOK, ProcessCodes
<1>2. DiskOK'
  BY Zenon DEF CreateDone, IInv, DiskOK
<1>3. AnchorOK'
  BY Zenon DEF CreateDone, IInv, AnchorOK
<1>4. RowsOK'
  BY Zenon DEF CreateDone, IInv, RowsOK
<1>5. AckedOK'
  <2>1. acked' = rows /\ anchor = Analyze(slots) /\ anchor.head = rows
    BY Zenon DEF CreateDone, IInv, AnchorOK, RowsOK
  <2>2. QED
    BY <2>1, StateFacts, PrefixOrder, Zenon DEF CreateDone, AckedOK
<1>6. CleanOK'
  BY Zenon DEF CreateDone, IInv, CleanOK
<1>7. PersistedIsDurable'
  BY Zenon DEF CreateDone, IInv, PersistedIsDurable, Readable, RecoveryCodes
<1>8. QED
  BY <1>1, <1>2, <1>3, <1>4, <1>5, <1>6, <1>7 DEF IInv

\* IInv survives an open that finds nothing.
LEMMA OpenInv ==
  ASSUME IInv, Open
  PROVE  IInv'
<1> USE DEF CreatePcs, LivePcs, CommitPcs, AnchoredPcs, disk, memory, history
<1>1. TypeOK'
  BY StateFacts DEF Open, BeginOpen, IInv, TypeOK, ProcessCodes
<1>2. DiskOK'
  BY Zenon DEF Open, BeginOpen, IInv, DiskOK
<1>3. AnchorOK'
  <2>1. anchor' = Analyze(slots) /\ slots' = slots /\ hold' = NoHold
    BY StateFacts, Zenon DEF Open, BeginOpen
  <2>2. Analyze(slots).intact /\ Analyze(slots).hold = NoHold
    BY StateFacts, FindingNone, Zenon DEF Open
  <2>3. pc' \in {"adopt", "restart"}
    BY Zenon DEF Open
  <2>4. QED
    BY <2>1, <2>2, <2>3, Zenon DEF AnchorOK
<1>4. RowsOK'
  <2>1. /\ anchor' = Readable /\ rows' = rows /\ projection' = rows
        /\ pc' = IF Len(rows) = Len(Readable.head) + 1 THEN "adopt" ELSE "restart"
    BY Zenon DEF Open, BeginOpen
  <2>2. /\ IsPrefix(Readable.head, rows)
        /\ Len(rows) = Len(Readable.head) \/ Len(rows) = Len(Readable.head) + 1
        /\ Readable.head \in Seq(Row) /\ rows \in Seq(Row)
    BY StateFacts, FindingNone, Zenon DEF Open, Slot
  <2>3. CASE Len(rows) = Len(Readable.head) + 1
    BY <2>1, <2>2, <2>3, Zenon DEF RowsOK
  <2>4. CASE Len(rows) # Len(Readable.head) + 1
    <3>1. Readable.head = rows
      BY <2>2, <2>4, PrefixSame, Zenon
    <3>2. QED
      BY <2>1, <2>4, <3>1, Zenon DEF RowsOK
  <2>5. QED
    BY <2>3, <2>4, Zenon
<1>5. AckedOK'
  BY Zenon DEF Open, BeginOpen, IInv, AckedOK
<1>6. CleanOK'
  BY Zenon DEF Open, BeginOpen, IInv, CleanOK
<1>7. PersistedIsDurable'
  BY Zenon DEF Open, BeginOpen, IInv, PersistedIsDurable, Readable, RecoveryCodes
<1>8. QED
  BY <1>1, <1>2, <1>3, <1>4, <1>5, <1>6, <1>7 DEF IInv

\* IInv survives an open that reaches a verdict.
LEMMA OpenHeldInv ==
  ASSUME IInv, OpenHeld
  PROVE  IInv'
<1> USE DEF CreatePcs, LivePcs, CommitPcs, AnchoredPcs, disk, memory, history
<1>1. TypeOK'
  <2>1. hold' \in RecoveryCodes
    BY FindingNone, Zenon DEF OpenHeld
  <2>2. writes' \in 0..2 /\ pc' \in {"held", "persist"} /\ projection' = << >> /\ anchor' = Readable
    BY DEF OpenHeld, BeginOpen, HoldWrites
  <2>3. QED
    BY <2>1, <2>2, StateFacts, Zenon DEF OpenHeld, BeginOpen, IInv, TypeOK
<1>2. DiskOK'
  BY Zenon DEF OpenHeld, BeginOpen, IInv, DiskOK
<1>3. AnchorOK'
  <2>1. anchor' = Analyze(slots) /\ slots' = slots /\ rowFaults' = rowFaults
        /\ slotFaults' = slotFaults
    BY StateFacts, Zenon DEF OpenHeld, BeginOpen
  <2>2. hold' = OpenFinding /\ hold' \in RecoveryCodes
    BY FindingNone, Zenon DEF OpenHeld
  <2>3. CASE HoldWrites = 0
    BY <2>3, Zenon DEF OpenHeld, AnchorOK
  <2>4. CASE HoldWrites # 0
    <3>1. pc' = "persist" /\ writes' = HoldWrites
      BY <2>4, Zenon DEF OpenHeld
    <3>2. Readable.intact
      BY <2>4, Zenon DEF HoldWrites
    <3>3. "anchor" \in files
      BY <3>2, Zenon DEF Readable, TornSlot
    <3>4. HoldWrites = 2 => Readable.hold = NoHold
      BY DEF HoldWrites
    <3>5. HoldWrites = 1 => Readable.hold # NoHold
      BY DEF HoldWrites
    <3>6. Readable.hold # NoHold => OpenFinding = Readable.hold
      BY <3>2, <3>3, Zenon DEF OpenFinding, StoreFinding
    <3>7. HoldWrites \in {1, 2}
      BY <2>4, Zenon DEF HoldWrites
    <3>8. rowFaults > 0 \/ slotFaults > 0
      <4>1. SUFFICES ASSUME rowFaults = 0, slotFaults = 0 PROVE FALSE
        BY DEF IInv, TypeOK
      <4>2. QED
        BY <2>2, <3>2, <3>3, <4>1, StateFacts, FindingNone, NoHoldAssumption, Zenon DEF IInv, CleanOK
    <3>9. QED
      BY <2>1, <2>2, <3>1, <3>2, <3>4, <3>5, <3>6, <3>7, <3>8, StateFacts, Zenon DEF AnchorOK
  <2>5. QED
    BY <2>3, <2>4, Zenon
<1>4. RowsOK'
  BY Zenon DEF OpenHeld, BeginOpen, IInv, RowsOK
<1>5. AckedOK'
  BY Zenon DEF OpenHeld, BeginOpen, IInv, AckedOK
<1>6. CleanOK'
  BY Zenon DEF OpenHeld, BeginOpen, IInv, CleanOK
<1>7. PersistedIsDurable'
  <2>1. anchor' = Readable /\ Readable' = Readable /\ slots' = slots /\ writes' = HoldWrites
    BY Zenon DEF OpenHeld, BeginOpen, Readable
  <2>2. Readable.intact /\ HoldWrites = 0 => HeldSlotCount(slots) = 2
    BY DEF HoldWrites
  <2>3. QED
    BY <2>1, <2>2, Zenon DEF PersistedIsDurable
<1>8. QED
  BY <1>1, <1>2, <1>3, <1>4, <1>5, <1>6, <1>7 DEF IInv

\* IInv survives an open that is held and cannot save its verdict.
LEMMA OpenHeldUnsavedInv ==
  ASSUME IInv, OpenHeldUnsaved
  PROVE  IInv'
<1> USE DEF CreatePcs, LivePcs, CommitPcs, AnchoredPcs, disk, memory, history
<1>1. TypeOK'
  <2>1. hold' \in RecoveryCodes
    BY FindingNone, Zenon DEF OpenHeldUnsaved
  <2>2. writes' \in 0..2 /\ pc' = "held" /\ projection' = << >> /\ anchor' = Readable
    BY DEF OpenHeldUnsaved, BeginOpen, HoldWrites
  <2>3. QED
    BY <2>1, <2>2, StateFacts DEF OpenHeldUnsaved, BeginOpen, IInv, TypeOK
<1>2. DiskOK'
  BY Zenon DEF OpenHeldUnsaved, BeginOpen, IInv, DiskOK
<1>3. AnchorOK'
  BY Zenon DEF OpenHeldUnsaved, AnchorOK
<1>4. RowsOK'
  BY Zenon DEF OpenHeldUnsaved, BeginOpen, IInv, RowsOK
<1>5. AckedOK'
  BY Zenon DEF OpenHeldUnsaved, BeginOpen, IInv, AckedOK
<1>6. CleanOK'
  BY Zenon DEF OpenHeldUnsaved, BeginOpen, IInv, CleanOK
<1>7. PersistedIsDurable'
  <2>1. anchor' = Readable /\ Readable' = Readable /\ slots' = slots /\ writes' = HoldWrites
    BY Zenon DEF OpenHeldUnsaved, BeginOpen, Readable
  <2>2. Readable.intact /\ HoldWrites = 0 => HeldSlotCount(slots) = 2
    BY DEF HoldWrites
  <2>3. QED
    BY <2>1, <2>2 DEF PersistedIsDurable
<1>8. QED
  BY <1>1, <1>2, <1>3, <1>4, <1>5, <1>6, <1>7 DEF IInv

\* IInv survives an open that fails.
LEMMA OpenFailsInv ==
  ASSUME IInv, OpenFails
  PROVE  IInv'
<1> USE DEF CreatePcs, LivePcs, CommitPcs, AnchoredPcs, disk, memory, history
<1>1. TypeOK'
  BY StateFacts DEF OpenFails, BeginOpen, IInv, TypeOK, ProcessCodes
<1>2. DiskOK'
  BY Zenon DEF OpenFails, BeginOpen, IInv, DiskOK
<1>3. AnchorOK'
  BY Zenon DEF OpenFails, BeginOpen, IInv, AnchorOK
<1>4. RowsOK'
  BY Zenon DEF OpenFails, BeginOpen, IInv, RowsOK
<1>5. AckedOK'
  BY Zenon DEF OpenFails, BeginOpen, IInv, AckedOK
<1>6. CleanOK'
  BY Zenon DEF OpenFails, BeginOpen, IInv, CleanOK
<1>7. PersistedIsDurable'
  BY Zenon DEF OpenFails, BeginOpen, IInv, PersistedIsDurable, Readable, RecoveryCodes
<1>8. QED
  BY <1>1, <1>2, <1>3, <1>4, <1>5, <1>6, <1>7 DEF IInv

\* IInv survives planning the restart commit.
LEMMA RestartInv ==
  ASSUME IInv, Restart
  PROVE  IInv'
<1> USE DEF CreatePcs, LivePcs, CommitPcs, AnchoredPcs, disk, memory, history
<1>1. TypeOK'
  BY StateFacts DEF Restart, BeginCommit, IInv, TypeOK, ProcessCodes
<1>2. DiskOK'
  BY Zenon DEF Restart, BeginCommit, IInv, DiskOK
<1>3. AnchorOK'
  BY Zenon DEF Restart, BeginCommit, IInv, AnchorOK
<1>4. RowsOK'
  BY Zenon DEF Restart, BeginCommit, IInv, RowsOK
<1>5. AckedOK'
  BY Zenon DEF Restart, BeginCommit, IInv, AckedOK
<1>6. CleanOK'
  BY Zenon DEF Restart, BeginCommit, IInv, CleanOK
<1>7. PersistedIsDurable'
  BY Zenon DEF Restart, BeginCommit, IInv, PersistedIsDurable, Readable, RecoveryCodes
<1>8. QED
  BY <1>1, <1>2, <1>3, <1>4, <1>5, <1>6, <1>7 DEF IInv

\* IInv survives planning the resume commit.
LEMMA ResumeAtOpenInv ==
  ASSUME IInv, ResumeAtOpen
  PROVE  IInv'
<1> USE DEF CreatePcs, LivePcs, CommitPcs, AnchoredPcs, disk, memory, history
<1>1. TypeOK'
  BY StateFacts DEF ResumeAtOpen, BeginCommit, IInv, TypeOK, ProcessCodes
<1>2. DiskOK'
  BY Zenon DEF ResumeAtOpen, BeginCommit, IInv, DiskOK
<1>3. AnchorOK'
  BY Zenon DEF ResumeAtOpen, BeginCommit, IInv, AnchorOK
<1>4. RowsOK'
  BY Zenon DEF ResumeAtOpen, BeginCommit, IInv, RowsOK
<1>5. AckedOK'
  BY Zenon DEF ResumeAtOpen, BeginCommit, IInv, AckedOK
<1>6. CleanOK'
  BY Zenon DEF ResumeAtOpen, BeginCommit, IInv, CleanOK
<1>7. PersistedIsDurable'
  BY Zenon DEF ResumeAtOpen, BeginCommit, IInv, PersistedIsDurable, Readable, RecoveryCodes
<1>8. QED
  BY <1>1, <1>2, <1>3, <1>4, <1>5, <1>6, <1>7 DEF IInv

\* IInv survives skipping the resume.
LEMMA SkipResumeInv ==
  ASSUME IInv, SkipResume
  PROVE  IInv'
<1> USE DEF CreatePcs, LivePcs, CommitPcs, AnchoredPcs, disk, memory, history
<1>1. TypeOK'
  BY StateFacts, Zenon DEF SkipResume, IInv, TypeOK, ProcessCodes
<1>2. DiskOK'
  BY Zenon DEF SkipResume, IInv, DiskOK
<1>3. AnchorOK'
  BY Zenon DEF SkipResume, IInv, AnchorOK
<1>4. RowsOK'
  BY Zenon DEF SkipResume, IInv, RowsOK
<1>5. AckedOK'
  BY Zenon DEF SkipResume, IInv, AckedOK
<1>6. CleanOK'
  BY Zenon DEF SkipResume, IInv, CleanOK
<1>7. PersistedIsDurable'
  BY Zenon DEF SkipResume, IInv, PersistedIsDurable, Readable, RecoveryCodes
<1>8. QED
  BY <1>1, <1>2, <1>3, <1>4, <1>5, <1>6, <1>7 DEF IInv

\* IInv survives planning an admission.
LEMMA AdmitInv ==
  ASSUME IInv, Admit
  PROVE  IInv'
<1> USE DEF CreatePcs, LivePcs, CommitPcs, AnchoredPcs, disk, memory, history
<1>1. TypeOK'
  BY StateFacts DEF Admit, BeginCommit, IInv, TypeOK, ProcessCodes
<1>2. DiskOK'
  BY Zenon DEF Admit, BeginCommit, IInv, DiskOK
<1>3. AnchorOK'
  BY Zenon DEF Admit, BeginCommit, IInv, AnchorOK
<1>4. RowsOK'
  BY Zenon DEF Admit, BeginCommit, IInv, RowsOK
<1>5. AckedOK'
  BY Zenon DEF Admit, BeginCommit, IInv, AckedOK
<1>6. CleanOK'
  BY Zenon DEF Admit, BeginCommit, IInv, CleanOK
<1>7. PersistedIsDurable'
  BY Zenon DEF Admit, BeginCommit, IInv, PersistedIsDurable, Readable, RecoveryCodes
<1>8. QED
  BY <1>1, <1>2, <1>3, <1>4, <1>5, <1>6, <1>7 DEF IInv

\* IInv survives the SQL commit.
LEMMA CommitSqlInv ==
  ASSUME IInv, CommitSql
  PROVE  IInv'
<1> USE DEF CreatePcs, LivePcs, CommitPcs, AnchoredPcs, disk, memory, history
<1>1. TypeOK'
  BY StateFacts, Zenon DEF CommitSql, IInv, TypeOK, ProcessCodes
<1>2. DiskOK'
  BY Zenon DEF CommitSql, IInv, DiskOK
<1>3. AnchorOK'
  BY Zenon DEF CommitSql, IInv, AnchorOK
<1>4. RowsOK'
  BY Zenon DEF CommitSql, IInv, RowsOK
<1>5. AckedOK'
  <2>1. rows' = Append(rows, pending) /\ rows' \in Seq(Row) /\ IsPrefix(rows, rows')
    BY StateFacts, Zenon DEF CommitSql
  <2>2. QED
    BY <2>1, StateFacts, PrefixOrder, Zenon DEF CommitSql, IInv, AckedOK
<1>6. CleanOK'
  <2>1. rows' = Append(rows, pending) /\ slots' = slots
        /\ rowFaults' = rowFaults /\ slotFaults' = slotFaults
    BY Zenon DEF CommitSql
  <2>2. pc = "commit_sql"
    BY Zenon DEF CommitSql
  <2>3. rowFaults = 0 => \A i \in 1..Len(rows') : rows'[i] \in Nat
    BY <2>1, StateFacts, AppendIntact DEF IInv, CleanOK
  <2>4. rows' # << >>
    BY <2>1, StateFacts
  <2>5. Analyze(slots).head = rows
    BY Zenon DEF CommitSql, IInv, AnchorOK, RowsOK
  <2>6. IsPrefix(rows, rows') /\ Len(rows') <= Len(rows) + 1
    BY <2>1, StateFacts
  <2>7. QED
    BY <2>1, <2>3, <2>4, <2>5, <2>6, Zenon DEF IInv, CleanOK
<1>7. PersistedIsDurable'
  BY Zenon DEF CommitSql, IInv, PersistedIsDurable, Readable, RecoveryCodes
<1>8. QED
  BY <1>1, <1>2, <1>3, <1>4, <1>5, <1>6, <1>7 DEF IInv

\* IInv survives the directory sync of a restart.
LEMMA CommitSyncInv ==
  ASSUME IInv, CommitSync
  PROVE  IInv'
<1> USE DEF CreatePcs, LivePcs, CommitPcs, AnchoredPcs, disk, memory, history
<1>1. TypeOK'
  BY StateFacts, Zenon DEF CommitSync, IInv, TypeOK, ProcessCodes
<1>2. DiskOK'
  BY Zenon DEF CommitSync, IInv, DiskOK
<1>3. AnchorOK'
  BY Zenon DEF CommitSync, IInv, AnchorOK
<1>4. RowsOK'
  BY Zenon DEF CommitSync, IInv, RowsOK
<1>5. AckedOK'
  BY Zenon DEF CommitSync, IInv, AckedOK
<1>6. CleanOK'
  BY Zenon DEF CommitSync, IInv, CleanOK
<1>7. PersistedIsDurable'
  BY Zenon DEF CommitSync, IInv, PersistedIsDurable, Readable, RecoveryCodes
<1>8. QED
  BY <1>1, <1>2, <1>3, <1>4, <1>5, <1>6, <1>7 DEF IInv

\* A call that latches a process hold before it writes anything.
Latches ==
  RestartFails \/ ResumeFails \/ AdmitFails \/ RestartFull \/ ResumeFull \/ AdmitFull

\* What these calls have in common.
LEMMA LatchesShape ==
  ASSUME Latches
  PROVE  /\ pc \in {"restart", "resume", "ready"}
         /\ \E code \in ProcessCodes : Latch(code)
         /\ trouble' = trouble \/ trouble' = trouble + 1
BY Zenon DEF Latches, RestartFails, ResumeFails, AdmitFails, RestartFull, ResumeFull, AdmitFull,
             LatchFault, LatchFull, Trouble, ProcessCodes

\* IInv survives a hold latched before anything is written.
LEMMA LatchesInv ==
  ASSUME IInv, Latches
  PROVE  IInv'
<1> USE DEF CreatePcs, LivePcs, CommitPcs, AnchoredPcs, disk, memory, history
<1> PICK code \in ProcessCodes : Latch(code)
  BY LatchesShape
<1>0. pc \in {"restart", "resume", "ready"}
  BY LatchesShape
<1>1. TypeOK'
  <2>1. trouble' \in Nat
    BY LatchesShape DEF IInv, TypeOK
  <2>2. QED
    BY <2>1, StateFacts DEF Latch, IInv, TypeOK
<1>2. DiskOK'
  BY <1>0, Zenon DEF Latch, IInv, DiskOK
<1>3. AnchorOK'
  BY <1>0, Zenon DEF Latch, IInv, AnchorOK
<1>4. RowsOK'
  BY <1>0, Zenon DEF Latch, IInv, RowsOK
<1>5. AckedOK'
  BY <1>0, Zenon DEF Latch, IInv, AckedOK
<1>6. CleanOK'
  BY <1>0, Zenon DEF Latch, IInv, CleanOK
<1>7. PersistedIsDurable'
  BY <1>0, Zenon DEF Latch, IInv, PersistedIsDurable, Readable, RecoveryCodes, ProcessCodes
<1>8. QED
  BY <1>1, <1>2, <1>3, <1>4, <1>5, <1>6, <1>7 DEF IInv

\* IInv survives a failed SQL commit or sync.
LEMMA CommitFailsInv ==
  ASSUME IInv, CommitFails
  PROVE  IInv'
<1> USE DEF CreatePcs, LivePcs, CommitPcs, AnchoredPcs, disk, memory, history
<1>1. TypeOK'
  <2>1. rows' \in Seq(Row)
    BY StateFacts, Zenon DEF CommitFails
  <2>2. QED
    BY <2>1 DEF CommitFails, Trouble, IInv, TypeOK, ProcessCodes
<1>2. DiskOK'
  BY Zenon DEF CommitFails, Trouble, IInv, DiskOK
<1>3. AnchorOK'
  BY Zenon DEF CommitFails, Trouble, IInv, AnchorOK
<1>4. RowsOK'
  BY Zenon DEF CommitFails, Trouble, IInv, RowsOK
<1>5. AckedOK'
  <2>1. rows' \in Seq(Row) /\ IsPrefix(rows, rows')
    BY StateFacts, PrefixOrder, Zenon DEF CommitFails
  <2>2. QED
    BY <2>1, StateFacts, PrefixOrder, Zenon DEF CommitFails, IInv, AckedOK
<1>6. CleanOK'
  <2>1. slots' = slots /\ rowFaults' = rowFaults /\ slotFaults' = slotFaults
    BY Zenon DEF CommitFails
  <2>2. CASE rows' = rows
    BY <2>1, <2>2, Zenon DEF IInv, CleanOK
  <2>3. CASE pc = "commit_sql" /\ rows' = Append(rows, pending)
    <3>1. rowFaults = 0 => \A i \in 1..Len(rows') : rows'[i] \in Nat
      BY <2>3, StateFacts, AppendIntact, Zenon DEF IInv, CleanOK
    <3>2. rows' # << >> /\ IsPrefix(rows, rows') /\ Len(rows') <= Len(rows) + 1
      BY <2>3, StateFacts
    <3>3. Analyze(slots).head = rows
      BY <2>3, Zenon DEF IInv, AnchorOK, RowsOK
    <3>4. QED
      BY <2>1, <3>1, <3>2, <3>3, Zenon DEF IInv, CleanOK
  <2>4. QED
    BY <2>2, <2>3, Zenon DEF CommitFails
<1>7. PersistedIsDurable'
  BY Zenon DEF CommitFails, Trouble, IInv, PersistedIsDurable, Readable, RecoveryCodes
<1>8. QED
  BY <1>1, <1>2, <1>3, <1>4, <1>5, <1>6, <1>7 DEF IInv

\* IInv survives closing the handle.
LEMMA CloseInv ==
  ASSUME IInv, Close
  PROVE  IInv'
<1> USE DEF CreatePcs, LivePcs, CommitPcs, AnchoredPcs, disk, memory, history
<1>1. TypeOK'
  <2>1. /\ pc' = "down" /\ op' = "admit" /\ anchor' \in Slot
        /\ writes' \in 0..2 /\ projection' \in Seq(Row) /\ pending' = 0 /\ hold' = NoHold
    BY StateFacts DEF Close, ProcessGone
  <2>2. resume' \in BOOLEAN
    BY Zenon DEF Close, ProcessGone
  <2>3. QED
    BY <2>1, <2>2, Zenon DEF Close, IInv, TypeOK
<1>2. DiskOK'
  BY Zenon DEF Close, ProcessGone, IInv, DiskOK
<1>3. AnchorOK'
  BY Zenon DEF Close, ProcessGone, IInv, AnchorOK, TornSlot
<1>4. RowsOK'
  BY Zenon DEF Close, ProcessGone, IInv, RowsOK
<1>5. AckedOK'
  BY Zenon DEF Close, ProcessGone, IInv, AckedOK
<1>6. CleanOK'
  BY Zenon DEF Close, ProcessGone, IInv, CleanOK
<1>7. PersistedIsDurable'
  BY Zenon DEF Close, ProcessGone, IInv, PersistedIsDurable, Readable, RecoveryCodes
<1>8. QED
  BY <1>1, <1>2, <1>3, <1>4, <1>5, <1>6, <1>7 DEF IInv

\* IInv survives damage to the rows.
LEMMA RowFaultInv ==
  ASSUME IInv, RowFault
  PROVE  IInv'
<1> USE DEF CreatePcs, LivePcs, CommitPcs, AnchoredPcs, disk, memory, history
<1>1. TypeOK'
  <2>1. minted \in Nat /\ rows \in Seq(Row)
    BY Zenon DEF IInv, TypeOK
  <2>2. DamagedRows \subseteq Seq(Row)
    <3>1. Corrupt \in Row /\ minted + 1 \in Row /\ minted + 2 \in Row
      BY <2>1 DEF Row
    <3>2. \A k \in 0..(Len(rows) - 1) : SubSeq(rows, 1, k) \in Seq(Row)
      BY <2>1
    <3>3. \A k \in DOMAIN rows, c \in Row : [rows EXCEPT ![k] = c] \in Seq(Row)
      BY <2>1
    <3>4. rows \o <<minted + 1>> \in Seq(Row) /\ rows \o <<minted + 1, minted + 2>> \in Seq(Row)
      BY <2>1, <3>1
    <3>5. \A k \in DOMAIN rows : /\ [rows EXCEPT ![k] = Corrupt] \in Seq(Row)
                                /\ [rows EXCEPT ![k] = minted + 1] \in Seq(Row)
      BY <3>1, <3>3, Zenon
    <3>6. QED
      BY <3>2, <3>4, <3>5, Zenon DEF DamagedRows
  <2>3. rows' \in Seq(Row) /\ minted' \in Nat
    BY <2>1, <2>2 DEF RowFault
  <2>4. QED
    BY <2>3 DEF RowFault, IInv, TypeOK
<1>2. DiskOK'
  BY Zenon DEF RowFault, IInv, DiskOK
<1>3. AnchorOK'
  BY Zenon DEF RowFault, IInv, AnchorOK
<1>4. RowsOK'
  BY Zenon DEF RowFault, IInv, RowsOK
<1>5. AckedOK'
  BY DEF RowFault, IInv, TypeOK, AckedOK
<1>6. CleanOK'
  BY DEF RowFault, IInv, TypeOK, CleanOK
<1>7. PersistedIsDurable'
  BY Zenon DEF RowFault, IInv, PersistedIsDurable, Readable, RecoveryCodes
<1>8. QED
  BY <1>1, <1>2, <1>3, <1>4, <1>5, <1>6, <1>7 DEF IInv

\* IInv survives damage to the anchor.
LEMMA SlotFaultInv ==
  ASSUME IInv, SlotFault
  PROVE  IInv'
<1> USE DEF CreatePcs, LivePcs, CommitPcs, AnchoredPcs, disk, memory, history
<1>1. TypeOK'
  <2>1. slots' \in [{1, 2} -> Slot]
    BY StateFacts, Zenon DEF SlotFault
  <2>2. files' \in SUBSET {"db", "anchor"}
    BY Zenon DEF SlotFault, IInv, TypeOK
  <2>3. QED
    BY <2>1, <2>2 DEF SlotFault, IInv, TypeOK
<1>2. DiskOK'
  <2>1. \A i \in {1, 2} : slots'[i] = slots[i] \/ slots'[i] = TornSlot
    BY StateFacts, Zenon DEF SlotFault
  <2>2. \A i \in {1, 2} : slots'[i].intact => slots'[i] = slots[i]
    BY <2>1 DEF TornSlot
  <2>3. WellFormed(slots')
    <3>1. WellFormed(slots)
      BY Zenon DEF IInv, DiskOK
    <3>2. \A i \in {1, 2} : slots'[i].intact => (slots'[i].counter % 2) + 1 = i
      BY <2>2, <3>1, Zenon DEF WellFormed
    <3>3. ASSUME slots'[1].intact, slots'[2].intact
          PROVE  Newer(slots', 1) \/ Newer(slots', 2)
      <4>1. slots'[1] = slots[1] /\ slots'[2] = slots[2]
        BY <2>2, <3>3, Zenon
      <4>2. QED
        BY <3>1, <3>3, <4>1 DEF WellFormed, Newer
    <3>4. QED
      BY <3>2, <3>3, Zenon DEF WellFormed
  <2>4. "anchor" \notin files' => BothTorn(slots')
    BY Zenon DEF SlotFault, IInv, DiskOK, BothTorn
  <2>5. files' = {} => rows' = << >> /\ acked' = << >>
    BY DEF SlotFault, IInv, DiskOK
  <2>6. files' # {} => "db" \in files'
    BY Zenon DEF SlotFault, IInv, DiskOK
  <2>7. QED
    BY <2>3, <2>4, <2>5, <2>6, Zenon DEF SlotFault, DiskOK
<1>3. AnchorOK'
  BY Zenon DEF SlotFault, IInv, AnchorOK
<1>4. RowsOK'
  BY Zenon DEF SlotFault, IInv, RowsOK
<1>5. AckedOK'
  BY DEF SlotFault, IInv, TypeOK, AckedOK
<1>6. CleanOK'
  <2>1. slots' \in [{1, 2} -> Slot] /\ WellFormed(slots')
    BY <1>1, <1>2, Zenon DEF TypeOK, DiskOK
  <2>2. \A i \in {1, 2} : slots'[i].intact => slots[i].intact
    <3>1. \A i \in {1, 2} : slots'[i] = slots[i] \/ slots'[i] = TornSlot
      BY StateFacts DEF SlotFault
    <3>2. QED
      BY <3>1 DEF TornSlot
  <2>3. Analyze(slots').intact => Analyze(slots).intact
    BY <2>1, <2>2, StateFacts, AnalyzeIntact, Zenon DEF IInv, DiskOK
  <2>4. slotFaults' # 0 /\ rows' = rows /\ rowFaults' = rowFaults
    BY DEF SlotFault, IInv, TypeOK
  <2>5. QED
    BY <2>3, <2>4, Zenon DEF IInv, CleanOK
<1>7. PersistedIsDurable'
  BY Zenon DEF SlotFault, IInv, PersistedIsDurable, Readable, RecoveryCodes
<1>8. QED
  BY <1>1, <1>2, <1>3, <1>4, <1>5, <1>6, <1>7 DEF IInv

-----------------------------------------------------------------------------
(* The actions that write the anchor *)

\* What the slot being written says, by the operation that writes it.
LEMMA WrittenValue ==
  ASSUME IInv
  PROVE  /\ Written.intact
         /\ pc \in {"adopt", "commit_slot"} => Written.head = rows /\ Written.hold = NoHold
         /\ pc = "persist" => Written.head = anchor.head /\ Written.hold = hold
<1>1. Written.intact /\ Written.head = SlotHead /\ Written.hold = SlotHold
  BY Zenon DEF Written, NewSlot
<1>2. pc = "adopt" => SlotHead = rows /\ SlotHold = NoHold
  BY Zenon DEF SlotHead, SlotHold, IInv, RowsOK
<1>3. pc = "commit_slot" => SlotHead = rows /\ SlotHold = NoHold
  BY Zenon DEF SlotHead, SlotHold, IInv, RowsOK
<1>4. pc = "persist" => SlotHead = anchor.head /\ SlotHold = hold
  BY Zenon DEF SlotHead, SlotHold
<1>5. QED
  BY <1>1, <1>2, <1>3, <1>4, Zenon

\* A readable anchor is in an anchor file.
LEMMA AnchorFile ==
  ASSUME IInv, Analyze(slots).intact
  PROVE  "anchor" \in files
BY StateFacts, AnalyzeType DEF IInv, DiskOK, TornSlot

\* Whether the write under way lands or not, what is on disk stays in order.
LEMMA SlotStep ==
  ASSUME IInv, pc \in {"persist", "adopt", "commit_slot"},
         Analyze(slots') \in {anchor, Written},
         rows' = rows, rowFaults' = rowFaults, slotFaults' = slotFaults
  PROVE  CleanOK' /\ (acked' = acked => AckedOK')
<1>1. /\ anchor.intact /\ anchor = Analyze(slots) /\ Written \in Slot
      /\ IsPrefix(anchor.head, Written.head)
  <2>1. Written.head = SlotHead
    BY Zenon DEF Written, NewSlot
  <2>2. QED
    BY <2>1, WrittenFollows, Zenon
<1>2. /\ anchor.head \in Seq(Row) /\ Written.head \in Seq(Row)
      /\ rows \in Seq(Row) /\ acked \in Seq(Row)
  BY <1>1, StateFacts, Zenon DEF IInv, TypeOK, Slot
<1>3. acked' = acked => AckedOK'
  BY <1>1, <1>2, PrefixOrder, Zenon DEF IInv, AckedOK
<1>4. CASE Analyze(slots') = anchor
  BY <1>1, <1>3, <1>4, Zenon DEF IInv, CleanOK
<1>5. CASE Analyze(slots') = Written
  <2>1. rowFaults = 0 => rows # << >>
    BY <1>1, Zenon DEF IInv, CleanOK
  <2>2. CASE pc = "persist"
    BY <1>3, <1>5, <2>1, <2>2 DEF IInv, CleanOK, AnchorOK, TypeOK
  <2>3. CASE pc # "persist"
    <3>1. Written.head = rows /\ Written.hold = NoHold
      BY <2>3, WrittenValue, Zenon
    <3>2. Len(rows) \in Nat /\ Len(rows) <= Len(rows) + 1
      BY <1>2
    <3>3. QED
      BY <1>2, <1>3, <1>5, <2>1, <3>1, <3>2, PrefixOrder, Zenon DEF IInv, CleanOK
  <2>4. QED
    BY <2>2, <2>3, Zenon
<1>6. QED
  BY <1>3, <1>4, <1>5, Zenon

\* The same for the first slot of a new journal.
LEMMA FirstStep ==
  ASSUME IInv, pc = "create_slot", SlotOutcome \/ WriteSlot,
         rows' = rows, acked' = acked, rowFaults' = rowFaults, slotFaults' = slotFaults
  PROVE  CleanOK' /\ AckedOK'
<1>1. /\ Analyze(slots') \in {TornSlot, Written} /\ Written \in Slot
      /\ Written.head = rows /\ Written.hold = NoHold
  BY FirstOutcome, Zenon
<1>2. acked = << >> /\ rows # << >> /\ rows \in Seq(Row)
  BY StateFacts, Zenon DEF IInv, DiskOK, RowsOK, CreatePcs
<1>3. ~TornSlot.intact /\ TornSlot.head = << >> /\ << >> \in Seq(Row)
  BY DEF TornSlot
<1>4. AckedOK'
  BY <1>1, <1>2, <1>3, PrefixOrder, Zenon DEF AckedOK
<1>5. Len(rows) <= Len(rows) + 1 /\ IsPrefix(rows, rows)
  BY <1>2, PrefixOrder
<1>6. CleanOK'
  BY <1>1, <1>2, <1>3, <1>5, Zenon DEF IInv, CleanOK
<1>7. QED
  BY <1>4, <1>6, Zenon

\* IInv survives the first anchor write of create.
LEMMA CreateSlotInv ==
  ASSUME IInv, CreateSlot
  PROVE  IInv'
<1> USE DEF CreatePcs, LivePcs, CommitPcs, AnchoredPcs, history
<1>1. /\ pc = "create_slot" /\ WriteSlot /\ pc' = "create_sync" /\ anchor' = Written
      /\ rows' = rows /\ files' = files /\ projection' = projection /\ hold' = hold
      /\ acked' = acked /\ rowFaults' = rowFaults /\ slotFaults' = slotFaults
  BY Zenon DEF CreateSlot, WriteSlot
<1>2. /\ slots' \in [{1, 2} -> Slot] /\ WellFormed(slots') /\ Analyze(slots') = Written
      /\ Written \in Slot /\ Written.intact /\ Written.head = rows /\ Written.hold = NoHold
  BY <1>1, FirstOutcome, Zenon
<1>3. TypeOK'
  BY <1>1, <1>2, Zenon DEF CreateSlot, IInv, TypeOK
<1>4. DiskOK'
  BY <1>1, <1>2, Zenon DEF IInv, DiskOK
<1>5. AnchorOK'
  BY <1>1, <1>2, SMTT(20) DEF IInv, AnchorOK
<1>6. RowsOK'
  BY <1>1, <1>2, Zenon DEF IInv, RowsOK
<1>7. AckedOK' /\ CleanOK'
  BY <1>1, FirstStep, Zenon
<1>8. PersistedIsDurable'
  BY <1>1, Zenon DEF PersistedIsDurable
<1>9. QED
  BY <1>3, <1>4, <1>5, <1>6, <1>7, <1>8, Zenon DEF IInv

\* IInv survives a write of persist_hold.
LEMMA PersistHoldInv ==
  ASSUME IInv, PersistHold
  PROVE  IInv'
<1> USE DEF CreatePcs, LivePcs, CommitPcs, AnchoredPcs, history
<1>1. /\ pc = "persist" /\ WriteSlot /\ anchor' = Written /\ writes' = writes - 1
      /\ pc' = IF writes = 1 THEN "held" ELSE "persist"
      /\ rows' = rows /\ files' = files /\ projection' = projection /\ hold' = hold
      /\ acked' = acked /\ rowFaults' = rowFaults /\ slotFaults' = slotFaults
  BY Zenon DEF PersistHold, WriteSlot
<1>2. /\ slots' \in [{1, 2} -> Slot] /\ WellFormed(slots') /\ Analyze(slots') = Written
      /\ TargetIndex(anchor) \in {1, 2}
      /\ slots'[TargetIndex(anchor)] = Written
      /\ slots'[3 - TargetIndex(anchor)] = anchor
  BY <1>1, WriteEffect, Zenon
<1>3. /\ Written \in Slot /\ Written.intact /\ Written.head = anchor.head /\ Written.hold = hold
      /\ anchor.intact /\ anchor = Analyze(slots)
  BY <1>1, WrittenFollows, WrittenValue, Zenon
<1>4. writes \in {1, 2} /\ hold \in RecoveryCodes /\ hold # NoHold
      /\ (writes = 1 => anchor.hold = hold)
      /\ (rowFaults > 0 \/ slotFaults > 0)
  BY <1>1, NoHoldAssumption, Zenon DEF IInv, AnchorOK
<1>5. "anchor" \in files
  BY <1>3, AnchorFile, Zenon
<1>6. TypeOK'
  BY <1>1, <1>2, <1>3, <1>4 DEF PersistHold, IInv, TypeOK
<1>7. DiskOK'
  BY <1>1, <1>2, <1>5, Zenon DEF IInv, DiskOK
<1>8. AnchorOK'
  BY <1>1, <1>2, <1>3, <1>4 DEF AnchorOK
<1>9. RowsOK'
  BY <1>1, Zenon DEF RowsOK
<1>10. AckedOK' /\ CleanOK'
  BY <1>1, <1>2, SlotStep, Zenon
<1>11. PersistedIsDurable'
  <2>1. Readable' = Written
    BY <1>1, <1>2, <1>5, Zenon DEF Readable
  <2>2. ASSUME writes = 1 PROVE HeldSlotCount(slots') = 2
    <3>1. /\ slots'[1].intact /\ slots'[1].hold # NoHold
          /\ slots'[2].intact /\ slots'[2].hold # NoHold
      BY <1>2, <1>3, <1>4, <2>2
    <3>2. QED
      BY <3>1 DEF HeldSlotCount
  <2>3. QED
    BY <1>1, <1>4, <2>1, <2>2, Zenon DEF PersistedIsDurable
<1>12. QED
  BY <1>6, <1>7, <1>8, <1>9, <1>10, <1>11 DEF IInv

\* IInv survives moving the anchor to the tail at open.
LEMMA AdoptTailInv ==
  ASSUME IInv, AdoptTail
  PROVE  IInv'
<1> USE DEF CreatePcs, LivePcs, CommitPcs, AnchoredPcs, history
<1>1. /\ pc = "adopt" /\ WriteSlot /\ anchor' = Written /\ pc' = "restart"
      /\ rows' = rows /\ files' = files /\ projection' = projection /\ hold' = hold
      /\ acked' = acked /\ rowFaults' = rowFaults /\ slotFaults' = slotFaults
  BY Zenon DEF AdoptTail, WriteSlot
<1>2. slots' \in [{1, 2} -> Slot] /\ WellFormed(slots') /\ Analyze(slots') = Written
  BY <1>1, WriteEffect, Zenon
<1>3. /\ Written \in Slot /\ Written.intact /\ Written.head = rows /\ Written.hold = NoHold
      /\ anchor.intact /\ anchor = Analyze(slots)
  BY <1>1, WrittenFollows, WrittenValue, Zenon
<1>4. "anchor" \in files
  BY <1>3, AnchorFile, Zenon
<1>5. TypeOK'
  BY <1>1, <1>2, <1>3, Zenon DEF AdoptTail, IInv, TypeOK
<1>6. DiskOK'
  BY <1>1, <1>2, <1>4, Zenon DEF IInv, DiskOK
<1>7. AnchorOK'
  BY <1>1, <1>2, <1>3, SMTT(20) DEF IInv, AnchorOK
<1>8. RowsOK'
  BY <1>1, <1>3, Zenon DEF IInv, RowsOK
<1>9. AckedOK' /\ CleanOK'
  BY <1>1, <1>2, SlotStep, SMTT(20)
<1>10. PersistedIsDurable'
  BY <1>1, Zenon DEF PersistedIsDurable
<1>11. QED
  BY <1>5, <1>6, <1>7, <1>8, <1>9, <1>10 DEF IInv

\* IInv survives the anchor write that ends an append.
LEMMA CommitSlotInv ==
  ASSUME IInv, CommitSlot
  PROVE  IInv'
<1> USE DEF CreatePcs, LivePcs, CommitPcs, AnchoredPcs
<1>1. /\ pc = "commit_slot" /\ WriteSlot /\ anchor' = Written /\ pc' \in {"resume", "ready"}
      /\ rows' = rows /\ files' = files /\ hold' = hold
      /\ projection' = Append(projection, pending) /\ acked' = projection'
      /\ rowFaults' = rowFaults /\ slotFaults' = slotFaults
  BY Zenon DEF CommitSlot, WriteSlot
<1>2. slots' \in [{1, 2} -> Slot] /\ WellFormed(slots') /\ Analyze(slots') = Written
  BY <1>1, WriteEffect, Zenon
<1>3. /\ Written \in Slot /\ Written.intact /\ Written.head = rows /\ Written.hold = NoHold
      /\ anchor.intact /\ anchor = Analyze(slots)
  BY <1>1, WrittenFollows, WrittenValue, Zenon
<1>4. "anchor" \in files
  BY <1>3, AnchorFile
<1>5. projection' = rows /\ acked' = rows /\ rows \in Seq(Row)
  BY <1>1, StateFacts, Zenon DEF IInv, RowsOK
<1>6. TypeOK'
  BY <1>1, <1>2, <1>3, <1>5, Zenon DEF CommitSlot, IInv, TypeOK
<1>7. DiskOK'
  BY <1>1, <1>2, <1>4, Zenon DEF IInv, DiskOK
<1>8. AnchorOK'
  BY <1>1, <1>2, <1>3, Zenon DEF IInv, AnchorOK
<1>9. RowsOK'
  BY <1>1, <1>3, <1>5, Zenon DEF RowsOK
<1>10. AckedOK'
  BY <1>1, <1>2, <1>3, <1>5, PrefixOrder, Zenon DEF AckedOK
<1>11. CleanOK'
  BY <1>1, <1>2, SlotStep, Zenon
<1>12. PersistedIsDurable'
  BY <1>1, Zenon DEF PersistedIsDurable
<1>13. QED
  BY <1>6, <1>7, <1>8, <1>9, <1>10, <1>11, <1>12 DEF IInv

\* IInv survives a failed anchor write.
LEMMA SlotFailsInv ==
  ASSUME IInv, SlotFails
  PROVE  IInv'
<1> USE DEF CreatePcs, LivePcs, CommitPcs, AnchoredPcs
<1>1. /\ pc \in {"persist", "adopt", "commit_slot"} /\ SlotOutcome /\ pc' = "held"
      /\ hold' = IF pc = "persist" THEN hold ELSE "journal_write_failed"
      /\ rows' = rows /\ files' = files /\ anchor' = anchor /\ writes' = writes
      /\ acked' = acked /\ rowFaults' = rowFaults /\ slotFaults' = slotFaults
  BY Zenon DEF SlotFails, SlotPcs
<1>2. slots' \in [{1, 2} -> Slot] /\ WellFormed(slots') /\ Analyze(slots') \in {anchor, Written}
  BY <1>1, OutcomeEffect, Zenon
<1>3. "anchor" \in files
  BY <1>1, WrittenFollows, AnchorFile, Zenon
<1>4. TypeOK'
  BY <1>1, <1>2 DEF SlotFails, Trouble, IInv, TypeOK, ProcessCodes
<1>5. DiskOK'
  BY <1>1, <1>2, <1>3, Zenon DEF IInv, DiskOK
<1>6. AnchorOK'
  BY <1>1, Zenon DEF AnchorOK
<1>7. RowsOK'
  BY <1>1, Zenon DEF RowsOK
<1>8. AckedOK' /\ CleanOK'
  BY <1>1, <1>2, SlotStep, Zenon
<1>9. PersistedIsDurable'
  <2>1. CASE pc = "persist"
    <3>1. writes \in {1, 2} /\ Written.hold = hold
      BY <2>1, WrittenValue, Zenon DEF IInv, AnchorOK
    <3>2. Readable' \in {anchor, Written}
      BY <1>1, <1>2, <1>3, Zenon DEF Readable
    <3>3. QED
      BY <1>1, <2>1, <3>1, <3>2 DEF PersistedIsDurable
  <2>2. CASE pc # "persist"
    BY <1>1, <2>2, Zenon DEF PersistedIsDurable, RecoveryCodes
  <2>3. QED
    BY <2>1, <2>2, Zenon
<1>10. QED
  BY <1>4, <1>5, <1>6, <1>7, <1>8, <1>9 DEF IInv

\* IInv survives the death of the process at any point.
LEMMA CrashInv ==
  ASSUME IInv, Crash
  PROVE  IInv'
<1> USE DEF CreatePcs, LivePcs, CommitPcs, AnchoredPcs
<1>1. /\ pc # "down" /\ rows' = rows /\ files' = files /\ acked' = acked
      /\ rowFaults' = rowFaults /\ slotFaults' = slotFaults /\ ProcessGone /\ Trouble
      /\ minted' = minted
  BY Zenon DEF Crash
<1>2. /\ slots' \in [{1, 2} -> Slot] /\ WellFormed(slots')
      /\ AckedOK' /\ CleanOK'
      /\ "anchor" \notin files => BothTorn(slots')
  <2>1. CASE pc \notin SlotPcs
    <3>1. slots' = slots
      BY <2>1, Zenon DEF Crash
    <3>2. QED
      BY <1>1, <3>1, StateFacts, Zenon DEF IInv, DiskOK, AckedOK, CleanOK
  <2>2. CASE pc = "create_slot"
    <3>1. SlotOutcome
      BY <2>2, Zenon DEF Crash, SlotPcs
    <3>2. "anchor" \in files
      BY <2>2, Zenon DEF IInv, DiskOK
    <3>3. QED
      BY <1>1, <2>2, <3>1, <3>2, FirstOutcome, FirstStep, Zenon
  <2>3. CASE pc \in {"persist", "adopt", "commit_slot"}
    <3>1. SlotOutcome
      BY <2>3, Zenon DEF Crash, SlotPcs
    <3>2. slots' \in [{1, 2} -> Slot] /\ WellFormed(slots') /\ Analyze(slots') \in {anchor, Written}
      BY <2>3, <3>1, OutcomeEffect, Zenon
    <3>3. "anchor" \in files
      BY <2>3, WrittenFollows, AnchorFile, Zenon
    <3>4. QED
      BY <1>1, <2>3, <3>2, <3>3, SlotStep, Zenon
  <2>4. QED
    BY <2>1, <2>2, <2>3, SMTT(20) DEF SlotPcs
<1>3. TypeOK'
  <2>1. /\ pc' = "down" /\ op' = "admit" /\ anchor' \in Slot
        /\ writes' \in 0..2 /\ projection' \in Seq(Row) /\ pending' = 0 /\ hold' = NoHold
    BY <1>1, StateFacts DEF ProcessGone
  <2>2. resume' \in BOOLEAN
    BY <1>1, Zenon DEF ProcessGone
  <2>3. trouble' \in Nat
    BY <1>1 DEF Trouble, IInv, TypeOK
  <2>4. QED
    BY <1>1, <1>2, <2>1, <2>2, <2>3, Zenon DEF IInv, TypeOK
<1>4. DiskOK'
  BY <1>1, <1>2, Zenon DEF ProcessGone, IInv, DiskOK
<1>5. AnchorOK'
  BY <1>1, Zenon DEF ProcessGone, AnchorOK, TornSlot
<1>6. RowsOK'
  BY <1>1, Zenon DEF ProcessGone, RowsOK
<1>7. PersistedIsDurable'
  BY <1>1, Zenon DEF ProcessGone, PersistedIsDurable
<1>8. QED
  BY <1>2, <1>3, <1>4, <1>5, <1>6, <1>7, Zenon DEF IInv

-----------------------------------------------------------------------------
(* The theorems *)

\* The initial state satisfies the invariant.
LEMMA InvInit == Init => IInv
<1> SUFFICES ASSUME Init PROVE IInv
  BY Zenon
<1> USE DEF CreatePcs, LivePcs, CommitPcs, AnchoredPcs
<1>1. TornSlot \in Slot /\ << >> \in Seq(Row) /\ Len(<< >>) = 0 /\ IsPrefix(<< >>, << >>)
  <2>1. << >> \in Seq(Row)
    OBVIOUS
  <2>2. QED
    BY <2>1, PrefixOrder, Zenon DEF TornSlot, Slot, Hold
<1>2. slots \in [{1, 2} -> Slot] /\ slots[1] = TornSlot /\ slots[2] = TornSlot
  BY <1>1, Zenon DEF Init
<1>3. BothTorn(slots) /\ Analyze(slots) = TornSlot
  BY <1>2, AnalyzeType, Zenon DEF BothTorn
<1>4. ~TornSlot.intact /\ TornSlot.head = << >> /\ TornSlot.hold = NoHold
  BY Zenon DEF TornSlot
<1>5. TypeOK
  <2>1. resume \in BOOLEAN
    BY Zenon DEF Init
  <2>2. writes \in 0..2 /\ files \in SUBSET {"db", "anchor"}
    BY DEF Init
  <2>3. rows \in Seq(Row) /\ projection \in Seq(Row) /\ acked \in Seq(Row) /\ anchor \in Slot
    BY <1>1, Zenon DEF Init
  <2>4. pending \in Nat /\ minted \in Nat /\ trouble \in Nat /\ rowFaults \in Nat /\ slotFaults \in Nat
    BY Zenon DEF Init
  <2>5. /\ pc \in {"down", "persist", "held"} \cup CreatePcs \cup LivePcs
        /\ op \in {"restart", "resume", "admit"}
        /\ hold \in RecoveryCodes \cup ProcessCodes \cup {NoHold}
    BY Zenon DEF Init
  <2>6. QED
    BY <1>2, <2>1, <2>2, <2>3, <2>4, <2>5, Zenon DEF TypeOK
<1>6. DiskOK
  BY <1>2, <1>3, <1>4, Zenon DEF Init, DiskOK, WellFormed
<1>7. AnchorOK /\ RowsOK /\ PersistedIsDurable
  BY <1>4, Zenon DEF Init, AnchorOK, RowsOK, PersistedIsDurable
<1>8. AckedOK
  BY <1>1, <1>3, <1>4, Zenon DEF Init, AckedOK
<1>9. CleanOK
  BY <1>1, <1>3, <1>4 DEF Init, CleanOK
<1>10. QED
  BY <1>5, <1>6, <1>7, <1>8, <1>9, Zenon DEF IInv

\* A step that changes nothing preserves the invariant.
LEMMA StutterInv ==
  ASSUME IInv, UNCHANGED vars
  PROVE  IInv'
<1> USE DEF vars, disk, memory, history
<1>1. TypeOK'
  BY Zenon DEF IInv, TypeOK
<1>2. DiskOK' /\ AnchorOK'
  BY SMTT(20) DEF IInv, DiskOK, AnchorOK
<1>3. RowsOK' /\ AckedOK' /\ CleanOK'
  BY SMTT(20) DEF IInv, RowsOK, AckedOK, CleanOK, Readable
<1>4. PersistedIsDurable'
  BY Zenon DEF IInv, PersistedIsDurable, Readable
<1>5. QED
  BY <1>1, <1>2, <1>3, <1>4, Zenon DEF IInv

\* Every step preserves the invariant.
LEMMA InvNext == IInv /\ [Next]_vars => IInv'
<1> SUFFICES ASSUME IInv, [Next]_vars PROVE IInv'
  BY Zenon
<1>1. CASE Create \/ CreateCommit \/ CreateAnchorFile \/ CreateSlot \/ CreateDone
  BY <1>1, CreateInv, CreateCommitInv, CreateAnchorFileInv, CreateSlotInv, CreateDoneInv, Zenon
<1>2. CASE Open \/ OpenHeld \/ OpenHeldUnsaved \/ OpenFails \/ PersistHold \/ AdoptTail
  BY <1>2, OpenInv, OpenHeldInv, OpenHeldUnsavedInv, OpenFailsInv, PersistHoldInv, AdoptTailInv, Zenon
<1>3. CASE Restart \/ ResumeAtOpen \/ SkipResume \/ Admit
  BY <1>3, RestartInv, ResumeAtOpenInv, SkipResumeInv, AdmitInv, Zenon
<1>4. CASE CommitSql \/ CommitSync \/ CommitSlot
  BY <1>4, CommitSqlInv, CommitSyncInv, CommitSlotInv, Zenon
<1>5. CASE Latches \/ CommitFails \/ SlotFails \/ Crash \/ Close
  BY <1>5, LatchesInv, CommitFailsInv, SlotFailsInv, CrashInv, CloseInv, Zenon
<1>6. CASE RowFault \/ SlotFault
  BY <1>6, RowFaultInv, SlotFaultInv, Zenon
<1>7. CASE UNCHANGED vars
  BY <1>7, StutterInv, Zenon
<1>8. QED
  BY <1>1, <1>2, <1>3, <1>4, <1>5, <1>6, <1>7, Zenon
     DEF Next, CallStep, OpenStep, AdmitStep, FailStep, Latches

\* The invariant holds in every reachable state of the journal.
THEOREM Invariance == Spec => []IInv
<1>1. QED
  BY InvInit, InvNext, PTL DEF Spec

\* Type correctness of the journal store and its handle.
THEOREM TypeCorrect == Spec => []TypeOK
<1>1. IInv => TypeOK
  BY Zenon DEF IInv
<1>2. QED
  BY <1>1, Invariance, PTL

\* Acknowledged commits survive: whatever crashes, failed writes, torn slots and
\* restarts happen, and whatever storage does to the rows or to the anchor but
\* not to both, a handle that may write has every commit whose append returned
\* (JournalStore.append, _replay_finding).
THEOREM Durability == Spec => []AckedSurvives
<1>1. ASSUME IInv PROVE AckedSurvives
  <2>1. SUFFICES ASSUME pc \in LivePcs, rowFaults = 0 \/ slotFaults = 0
                 PROVE  IsPrefix(acked, rows)
    BY Zenon DEF AckedSurvives
  <2>2. CASE rowFaults = 0
    BY <1>1, <2>2, Zenon DEF IInv, AckedOK
  <2>3. CASE slotFaults = 0
    <3>1. anchor = Analyze(slots) /\ anchor.head \in Seq(Row)
      BY <1>1, <2>1, StateFacts, Zenon DEF IInv, AnchorOK, AnchoredPcs, Slot
    <3>2. IsPrefix(acked, anchor.head)
      BY <1>1, <2>3, <3>1, Zenon DEF IInv, AckedOK
    <3>3. IsPrefix(anchor.head, rows)
      <4>1. CASE pc \in {"restart", "resume", "ready", "commit_sql"}
        BY <1>1, <4>1, StateFacts, PrefixOrder, Zenon DEF IInv, RowsOK
      <4>2. CASE pc = "adopt"
        BY <1>1, <4>2, Zenon DEF IInv, RowsOK
      <4>3. CASE pc \in {"commit_sync", "commit_slot"}
        BY <1>1, <4>3, StateFacts, PrefixAppend, Zenon DEF IInv, RowsOK
      <4>4. QED
        BY <2>1, <4>1, <4>2, <4>3, Zenon DEF LivePcs, CommitPcs
    <3>4. QED
      BY <1>1, <3>1, <3>2, <3>3, StateFacts, PrefixOrder, Zenon
  <2>4. QED
    BY <2>1, <2>2, <2>3, Zenon
<1>2. QED
  BY <1>1, Invariance, PTL

\* An unreadable anchor is read as TornSlot.
LEMMA UnreadableIsTorn ==
  ASSUME NEW s \in [{1, 2} -> Slot], ~Analyze(s).intact
  PROVE  Analyze(s) = TornSlot
<1>1. CASE ~s[NewestIndex(s)].intact
  BY <1>1, Zenon DEF Analyze
<1>2. CASE s[NewestIndex(s)].intact
  BY <1>2, Zenon DEF Analyze
<1>3. QED
  BY <1>1, <1>2, Zenon

\* Crashes and failed writes alone never cause a verdict: without damage by
\* storage the next open of a created journal finds nothing to hold
\* (_verify_open, _replay_finding).
THEOREM NoFalseVerdicts == Spec => []NoFalseVerdict
<1>1. ASSUME IInv PROVE NoFalseVerdict
  <2>1. SUFFICES ASSUME acked # << >>, rowFaults = 0, slotFaults = 0
                 PROVE  OpenFinding = NoHold
    BY Zenon DEF NoFalseVerdict
  <2>2. Analyze(slots).intact
    <3>1. SUFFICES ASSUME ~Analyze(slots).intact PROVE FALSE
      BY Zenon
    <3>2. Analyze(slots).head = << >>
      BY <1>1, <3>1, StateFacts, UnreadableIsTorn DEF TornSlot
    <3>3. IsPrefix(acked, << >>)
      BY <1>1, <2>1, <3>2, Zenon DEF IInv, AckedOK
    <3>4. QED
      BY <1>1, <2>1, <3>3, StateFacts, PrefixSame, Zenon
  <2>3. "anchor" \in files
    BY <1>1, <2>2, AnchorFile, Zenon
  <2>4. /\ Readable.intact /\ Readable.hold = NoHold /\ rows # << >>
        /\ \A i \in 1..Len(rows) : rows[i] \in Nat
        /\ IsPrefix(Readable.head, rows) /\ Len(rows) <= Len(Readable.head) + 1
    BY <1>1, <2>1, <2>2, StateFacts, Zenon DEF IInv, CleanOK
  <2>5. QED
    BY <1>1, <2>3, <2>4, FindingNone, Zenon
<1>2. QED
  BY <1>1, Invariance, PTL

\* A verdict reported as persisted is what the next open reads, and a finished
\* persist_hold left it in both slots (_held_journal, persist_hold).
THEOREM HoldIsDurable == Spec => []PersistedIsDurable
<1>1. IInv => PersistedIsDurable
  BY Zenon DEF IInv
<1>2. QED
  BY <1>1, Invariance, PTL

\* What a step that is not damage to the anchor does to the anchor the reader
\* sees: nothing, or the write of the slot that follows it.
LEMMA AnchorStep ==
  ASSUME IInv, [Next]_vars, slotFaults' = slotFaults
  PROVE  \/ Analyze(slots') = Analyze(slots)
         \/ /\ pc \in {"persist", "adopt", "commit_slot"}
            /\ Analyze(slots) = anchor /\ Analyze(slots') = Written
            /\ rows' = rows
         \/ pc = "create_slot" /\ Analyze(slots) = TornSlot /\ rows' = rows
<1>1. CASE slots' = slots
  BY <1>1, Zenon
<1>2. CASE slots' # slots
  <2>1. \/ CreateSlot \/ PersistHold \/ AdoptTail \/ CommitSlot \/ SlotFails
        \/ Crash /\ pc \in SlotPcs
    <3>1. ~(Create \/ CreateCommit \/ CreateAnchorFile \/ CreateDone)
      BY <1>2, Zenon DEF Create, CreateCommit, CreateAnchorFile, CreateDone, disk
    <3>2. ~(Open \/ OpenHeld \/ OpenHeldUnsaved \/ OpenFails \/ UNCHANGED vars)
      BY <1>2, Zenon DEF Open, OpenHeld, OpenHeldUnsaved, OpenFails, BeginOpen, vars, disk
    <3>3. ~(Restart \/ ResumeAtOpen \/ SkipResume \/ Admit)
      BY <1>2, Zenon DEF Restart, ResumeAtOpen, SkipResume, Admit, BeginCommit, disk
    <3>4. ~(CommitSql \/ CommitSync \/ Latches \/ CommitFails \/ Close)
      BY <1>2, LatchesShape, Zenon DEF CommitSql, CommitSync, Latch, CommitFails, Close, disk
    <3>5. ~(Crash /\ pc \notin SlotPcs) /\ ~RowFault
      BY <1>2, Zenon DEF Crash, RowFault
    <3>6. ~SlotFault
      BY DEF SlotFault, IInv, TypeOK
    <3>7. QED
      BY <3>1, <3>2, <3>3, <3>4, <3>5, <3>6, Zenon
         DEF Next, CallStep, OpenStep, AdmitStep, FailStep, Latches
  <2>2. rows' = rows
    BY <2>1, Zenon DEF CreateSlot, PersistHold, AdoptTail, CommitSlot, SlotFails, Crash
  <2>3. pc \in SlotPcs /\ (SlotOutcome \/ WriteSlot)
    BY <2>1, Zenon DEF CreateSlot, PersistHold, AdoptTail, CommitSlot, SlotFails, Crash,
                SlotPcs, CreatePcs
  <2>4. CASE pc = "create_slot"
    <3>1. BothTorn(slots)
      BY <2>4, Zenon DEF IInv, DiskOK
    <3>2. QED
      BY <2>2, <2>4, <3>1, StateFacts, AnalyzeType, Zenon
  <2>5. CASE pc \in {"persist", "adopt", "commit_slot"}
    <3>1. Analyze(slots) = anchor
      BY <2>5, WrittenFollows, Zenon
    <3>2. Analyze(slots') \in {anchor, Written}
      BY <2>3, <2>5, OutcomeEffect, WriteEffect, Zenon
    <3>3. QED
      BY <2>2, <2>5, <3>1, <3>2, Zenon
  <2>6. QED
    BY <2>3, <2>4, <2>5, Zenon DEF SlotPcs
<1>3. QED
  BY <1>1, <1>2, Zenon

\* The anchored head only grows, by commits appended to it, unless storage
\* damages the anchor (_write_slot, _analyze_anchor).
THEOREM AnchorNeverBack == Spec => AnchorForward
<1>1. ASSUME IInv, IInv', [Next]_vars
      PROVE  [slotFaults' = slotFaults => IsPrefix(Readable.head, Readable'.head)]_vars
  <2>1. SUFFICES ASSUME slotFaults' = slotFaults
                 PROVE  IsPrefix(Readable.head, Readable'.head)
    BY Zenon
  <2>2. Readable = Analyze(slots) /\ Analyze(slots) \in Slot
    BY <1>1, StateFacts, Zenon
  <2>3. Readable' = Analyze(slots') /\ Analyze(slots') \in Slot
    <3>1. slots' \in [{1, 2} -> Slot] /\ ("anchor" \notin files' => BothTorn(slots'))
      BY <1>1, Zenon DEF IInv, TypeOK, DiskOK
    <3>2. QED
      BY <3>1, AnalyzeType, Zenon DEF Readable
  <2>4. Readable.head \in Seq(Row) /\ Readable'.head \in Seq(Row)
    BY <2>2, <2>3, Zenon DEF Slot
  <2>5. CASE Analyze(slots') = Analyze(slots)
    BY <2>2, <2>3, <2>4, <2>5, PrefixOrder, Zenon
  <2>6. CASE /\ pc \in {"persist", "adopt", "commit_slot"}
             /\ Analyze(slots) = anchor /\ Analyze(slots') = Written
    <3>1. IsPrefix(anchor.head, Written.head)
      BY <1>1, <2>6, WrittenFollows, Zenon DEF Written, NewSlot
    <3>2. QED
      BY <2>2, <2>3, <2>6, <3>1, Zenon
  <2>7. CASE Analyze(slots) = TornSlot
    <3>1. Readable.head = << >>
      BY <2>2, <2>7 DEF TornSlot
    <3>2. QED
      BY <2>4, <3>1, PrefixOrder, Zenon
  <2>8. QED
    BY <1>1, <2>1, <2>5, <2>6, <2>7, AnchorStep, Zenon
<1>2. QED
  BY <1>1, Invariance, PTL DEF Spec, AnchorForward

\* A durable verdict is never erased or replaced, and no handle writes rows
\* below it, unless storage damages the anchor (_write_slot, _check_writable).
THEOREM VerdictStays == Spec => VerdictLatched
<1>1. ASSUME IInv, IInv', [Next]_vars
      PROVE  [/\ Readable.hold # NoHold
              /\ slotFaults' = slotFaults
              => Readable'.hold = Readable.hold /\ rows' \in DamagedRows \cup {rows}]_vars
  <2>1. SUFFICES ASSUME Readable.hold # NoHold, slotFaults' = slotFaults
                 PROVE  Readable'.hold = Readable.hold /\ rows' \in DamagedRows \cup {rows}
    BY Zenon
  <2>2. Readable = Analyze(slots)
    BY <1>1, StateFacts, Zenon
  <2>3. Readable' = Analyze(slots')
    <3>1. slots' \in [{1, 2} -> Slot] /\ ("anchor" \notin files' => BothTorn(slots'))
      BY <1>1 DEF IInv, TypeOK, DiskOK
    <3>2. QED
      BY <3>1, AnalyzeType, Zenon DEF Readable
  <2>4. Readable'.hold = Readable.hold
    <3>1. TornSlot.hold = NoHold
      BY Zenon DEF TornSlot
    <3>2. CASE /\ pc \in {"persist", "adopt", "commit_slot"}
               /\ Analyze(slots) = anchor /\ Analyze(slots') = Written
      <4>1. Written.hold = anchor.hold
        BY <1>1, <2>1, <2>2, <3>2, WrittenFollows, Zenon DEF Written, NewSlot
      <4>2. QED
        BY <2>2, <2>3, <3>2, <4>1, Zenon
    <3>3. QED
      BY <1>1, <2>1, <2>2, <2>3, <3>1, <3>2, AnchorStep, Zenon
  <2>5. rows' \in DamagedRows \cup {rows}
    <3>1. SUFFICES ASSUME rows' # rows PROVE rows' \in DamagedRows
      BY Zenon
    <3>2. CreateCommit \/ CommitSql \/ CommitFails \/ RowFault
      <4>1. ~(Create \/ CreateAnchorFile \/ CreateSlot \/ CreateDone)
        BY <3>1, Zenon DEF Create, CreateAnchorFile, CreateSlot, CreateDone, disk
      <4>2. ~(Open \/ OpenHeld \/ OpenHeldUnsaved \/ OpenFails \/ UNCHANGED vars)
        BY <3>1, Zenon DEF Open, OpenHeld, OpenHeldUnsaved, OpenFails, BeginOpen, vars, disk
      <4>3. ~(PersistHold \/ AdoptTail \/ Restart \/ ResumeAtOpen \/ SkipResume \/ Admit)
        BY <3>1, Zenon DEF PersistHold, AdoptTail, Restart, ResumeAtOpen, SkipResume, Admit,
                    BeginCommit, disk
      <4>4. ~(CommitSync \/ CommitSlot \/ Latches \/ SlotFails \/ Crash \/ Close)
        BY <3>1, LatchesShape, Zenon DEF CommitSync, CommitSlot, Latch, SlotFails, Crash, Close, disk
      <4>5. ~SlotFault
        BY <3>1, Zenon DEF SlotFault
      <4>6. QED
        BY <1>1, <3>1, <4>1, <4>2, <4>3, <4>4, <4>5, Zenon
           DEF Next, CallStep, OpenStep, AdmitStep, FailStep, Latches
    <3>3. ~CreateCommit
      <4>1. SUFFICES ASSUME CreateCommit PROVE FALSE
        BY Zenon
      <4>2. BothTorn(slots)
        BY <1>1, <4>1, Zenon DEF CreateCommit, IInv, DiskOK
      <4>3. QED
        BY <1>1, <2>1, <2>2, <4>2, StateFacts, AnalyzeType DEF TornSlot
    <3>4. ~(CommitSql \/ CommitFails)
      BY <1>1, <2>1, <2>2, Zenon DEF CommitSql, CommitFails, IInv, AnchorOK, AnchoredPcs, LivePcs, CommitPcs
    <3>5. QED
      BY <3>2, <3>3, <3>4, Zenon DEF RowFault
  <2>6. QED
    BY <2>4, <2>5, SMTT(20)
<1>2. QED
  BY <1>1, Invariance, PTL DEF Spec, VerdictLatched

=============================================================================
