------------------------------- MODULE FeeDurable ------------------------------
(***************************************************************************)
(* More theorems about Fee.tla: write counters order the records of a      *)
(* block by age, a damaged slot is reclaimed before it is written again,   *)
(* and Fee implements the durable store.  Three inductive invariants are   *)
(* built on IInv and SealInv of FeeProofs, each with its own step lemma.   *)
(***************************************************************************)
EXTENDS FeeProofs, WellFoundedInduction

-----------------------------------------------------------------------------
(***************************************************************************)
(* Counters modulo 2^16, and the last of a set of slots.                   *)
(***************************************************************************)
(* How much later counter x was given out than counter y. *)
Gap(x, y) == (x - y) % CounterMod

LEMMA GapIs ==
    ASSUME NEW x \in Counters, NEW y \in Counters
    PROVE  Gap(x, y) = IF y <= x THEN x - y ELSE x - y + CounterMod
  BY Sizes DEF Counters, Gap

LEMMA GapOfNext ==
    ASSUME NEW x \in Counters, NEW y \in Counters, Gap(x, y) + 1 < CounterMod
    PROVE  /\ (x + 1) % CounterMod \in Counters
           /\ Gap((x + 1) % CounterMod, y) = Gap(x, y) + 1
  <1>. DEFINE next == (x + 1) % CounterMod
  <1>1. next = IF x = CounterMod - 1 THEN 0 ELSE x + 1
    BY Sizes DEF Counters
  <1>. HIDE DEF next
  <1>2. next \in Counters
    BY <1>1, Sizes DEF Counters
  <1>3. Gap(next, y) = IF y <= next THEN next - y ELSE next - y + CounterMod
    BY <1>2, GapIs
  <1>4. Gap(x, y) = IF y <= x THEN x - y ELSE x - y + CounterMod
    BY GapIs
  <1>5. /\ x \in Int /\ 0 <= x /\ x < CounterMod /\ y \in Int /\ 0 <= y /\ y < CounterMod
        /\ CounterMod \in Int
    BY Sizes DEF Counters
  <1>6. Gap(next, y) = Gap(x, y) + 1
    BY <1>1, <1>3, <1>4, <1>5
  <1>. QED  BY <1>2, <1>6 DEF next

(* Within half the range, a gap tells which of two counters is the newer. *)
LEMMA GapIsAge ==
    ASSUME NEW x \in Counters, NEW y \in Counters,
           Gap(x, y) \in 1 .. (CounterMod \div 2) - 1
    PROVE  Newer(x, y, CounterMod) /\ ~Newer(y, x, CounterMod)
  <1>1. /\ Gap(x, y) = IF y <= x THEN x - y ELSE x - y + CounterMod
        /\ Gap(y, x) = IF x <= y THEN y - x ELSE y - x + CounterMod
    BY GapIs
  <1>2. /\ x \in Int /\ y \in Int /\ CounterMod \in Int /\ 2 <= CounterMod
        /\ CounterMod \div 2 \in Int /\ 2 * (CounterMod \div 2) <= CounterMod
    BY Sizes DEF Counters
  <1>. DEFINE half == CounterMod \div 2
  <1>3. Gap(x, y) \in 1 .. half - 1
    OBVIOUS
  <1>. HIDE DEF half
  <1>4. Gap(y, x) > half - 1 /\ Gap(y, x) \in Int
    BY <1>1, <1>2, <1>3 DEF half
  <1>5. Gap(y, x) \notin 1 .. half - 1
    BY <1>2, <1>4 DEF half
  <1>. QED  BY <1>3, <1>5 DEF Newer, Gap, half

(* A set of slots that is not empty has a last one. *)
LEMMA LastExists ==
    ASSUME NEW n \in Nat, NEW C, C \subseteq 1 .. n, C # {}
    PROVE  \E top \in C : \A i \in C : i <= top
  <1>. DEFINE below == OpToRel(<, Nat)
              T == {n - i : i \in C}
  <1>1. T \subseteq Nat /\ T # {}
    <2>1. \A i \in C : n - i \in Nat
      OBVIOUS
    <2>. QED  BY <2>1
  <1>2. \E x \in T : \A y \in T : <<y, x>> \notin below
    <2>. HIDE DEF T, below
    <2>1. IsWellFoundedOn(below, Nat)
      BY NatLessThanWellFounded DEF below
    <2>. QED  BY <1>1, <2>1, WFMin
  <1>3. PICK x \in T : \A y \in T : <<y, x>> \notin below
    BY <1>2
  <1>4. PICK top \in C : x = n - top
    OBVIOUS
  <1>5. ASSUME NEW i \in C
        PROVE  i <= top
    <2>1. n - i \in T /\ n - i \in Nat /\ n - top \in Nat
      BY <1>1, <1>4
    <2>2. <<n - i, n - top>> \notin below
      BY <1>3, <1>4, <2>1
    <2>3. ~(n - i < n - top)
      BY <2>1, <2>2 DEF OpToRel
    <2>. QED  BY <2>3
  <1>. QED  BY <1>5
-----------------------------------------------------------------------------
(***************************************************************************)
(* Logs whose counters tell the age of their records.                      *)
(***************************************************************************)
(* Records of one block are numbered in log order, no two of them further  *)
(* apart in number than in place. *)
Aged(log) ==
    \A i, j \in DOMAIN log :
        /\ i < j
        /\ log[i].kind \in WellFormed /\ log[j].kind \in WellFormed
        /\ log[i].blk = log[j].blk
        => Gap(log[j].counter, log[i].counter) \in 1 .. log[j].end - log[i].end
(* Records stay clear of the room kept for a collection. *)
Low(log) ==
    \A i \in DOMAIN log :
        log[i].kind \in WellFormed => log[i].end <= SectorSize - Threshold
Fresh(log) == Aged(log) /\ Low(log)

LEMMA SlotFields ==
    ASSUME NEW slot \in Slots
    PROVE  /\ slot.kind \in WellFormed \cup Unreadable
           /\ slot.blk \in Blocks /\ slot.counter \in Counters
           /\ slot.val \in Values \cup {Stub}
           /\ slot.end \in Int /\ slot.end > HeaderSize /\ slot.end <= SectorSize
  BY Sizes DEF Slots, Unreadable

LEMMA SlotsOf ==
    ASSUME NEW log \in Seq(Slots)
    PROVE  /\ Len(log) \in Nat /\ DOMAIN log = 1 .. Len(log)
           /\ \A i \in DOMAIN log : log[i] \in Slots
  BY LenProperties

(* In a log that is fresh the later of two records of a block is the newer. *)
LEMMA LaterIsNewer ==
    ASSUME NEW log \in Seq(Slots), Fresh(log),
           NEW i \in DOMAIN log, NEW j \in DOMAIN log, i < j,
           log[i].kind \in WellFormed, log[j].kind \in WellFormed,
           log[i].blk = log[j].blk
    PROVE  /\ Newer(log[j].counter, log[i].counter, CounterMod)
           /\ ~Newer(log[i].counter, log[j].counter, CounterMod)
           /\ Gap(log[j].counter, log[i].counter) \in 1 .. log[j].end - log[i].end
           /\ log[j].end - log[i].end <= (CounterMod \div 2) - 1
  <1>1. Gap(log[j].counter, log[i].counter) \in 1 .. log[j].end - log[i].end
    BY DEF Fresh, Aged
  <1>2. /\ log[i].end \in Int /\ log[j].end \in Int /\ log[i].end > HeaderSize
        /\ log[i].counter \in Counters /\ log[j].counter \in Counters
    BY SlotsOf, SlotFields
  <1>3. log[j].end <= SectorSize - Threshold
    BY DEF Fresh, Low
  <1>4. /\ SectorSize - HeaderSize - Threshold <= CounterMod \div 2
        /\ CounterMod \div 2 \in Int /\ Threshold \in Int /\ SectorSize \in Int
        /\ HeaderSize \in Int
    BY FeeAssumption, Sizes DEF Threshold
  <1>5. log[j].end - log[i].end <= (CounterMod \div 2) - 1
    BY <1>2, <1>3, <1>4
  <1>6. Gap(log[j].counter, log[i].counter) \in 1 .. (CounterMod \div 2) - 1
    BY <1>1, <1>2, <1>4, <1>5
  <1>. QED  BY <1>1, <1>2, <1>5, <1>6, GapIsAge

LEMMA EmptyFresh == Fresh(<<>>)
  BY EmptyLog DEF Fresh, Aged, Low

LEMMA FreshAppend ==
    ASSUME NEW log \in Seq(Slots), Fresh(log), NEW slot \in Slots,
           slot.kind \in WellFormed =>
              /\ slot.end <= SectorSize - Threshold
              /\ \A i \in DOMAIN log :
                    log[i].kind \in WellFormed /\ log[i].blk = slot.blk
                    => Gap(slot.counter, log[i].counter) \in 1 .. slot.end - log[i].end
    PROVE  Fresh(Append(log, slot))
  <1>. DEFINE new == Append(log, slot)
  <1>1. /\ new \in Seq(Slots) /\ Len(new) = Len(log) + 1 /\ Len(log) \in Nat
        /\ DOMAIN log = 1 .. Len(log) /\ DOMAIN new = 1 .. Len(log) + 1
        /\ \A i \in DOMAIN log : new[i] = log[i]
        /\ new[Len(log) + 1] = slot
    <2>1. /\ new \in Seq(Slots) /\ Len(new) = Len(log) + 1
          /\ \A i \in 1 .. Len(log) : new[i] = log[i]
          /\ new[Len(log) + 1] = slot
      BY AppendProperties
    <2>. QED  BY <2>1, LenProperties
  <1>. HIDE DEF new
  <1>2. ASSUME NEW i \in DOMAIN new, NEW j \in DOMAIN new, i < j,
               new[i].kind \in WellFormed, new[j].kind \in WellFormed,
               new[i].blk = new[j].blk
        PROVE  Gap(new[j].counter, new[i].counter) \in 1 .. new[j].end - new[i].end
    <2>1. i \in DOMAIN log /\ new[i] = log[i]
      BY <1>1, <1>2
    <2>2. CASE j \in DOMAIN log
      BY <1>1, <1>2, <2>1, <2>2 DEF Fresh, Aged
    <2>3. CASE j \notin DOMAIN log
      <3>1. new[j] = slot
        BY <1>1, <2>3
      <3>. QED  BY <1>2, <2>1, <3>1
    <2>. QED  BY <2>2, <2>3
  <1>3. ASSUME NEW i \in DOMAIN new, new[i].kind \in WellFormed
        PROVE  new[i].end <= SectorSize - Threshold
    <2>1. CASE i \in DOMAIN log
      BY <1>1, <1>3, <2>1 DEF Fresh, Low
    <2>2. CASE i \notin DOMAIN log
      BY <1>1, <1>3, <2>2
    <2>. QED  BY <2>1, <2>2
  <1>. QED  BY <1>2, <1>3 DEF Fresh, Aged, Low, new

(* The log without the slot at the cursor is a prefix of the log. *)
LEMMA KeptIs ==
    ASSUME NEW log \in Seq(Slots)
    PROVE  /\ Kept(log) \in Seq(Slots)
           /\ \A i \in DOMAIN Kept(log) : i \in DOMAIN log /\ Kept(log)[i] = log[i]
           /\ ~Occupied(log) => Kept(log) = log
           /\ Occupied(log) => /\ Len(log) \in DOMAIN log
                               /\ DOMAIN Kept(log) = 1 .. Len(log) - 1
  <1>0. Len(log) \in Nat /\ DOMAIN log = 1 .. Len(log)
        /\ \A i \in 1 .. Len(log) : log[i] \in Slots
    BY LenProperties
  <1>1. CASE ~Occupied(log)
    BY <1>0, <1>1 DEF Kept
  <1>2. CASE Occupied(log)
    <2>1. Kept(log) = SubSeq(log, 1, Len(log) - 1) /\ Len(log) >= 1
      BY <1>0, <1>2, EmptySeq DEF Kept, Occupied
    <2>2. /\ Kept(log) \in Seq(Slots)
          /\ Len(Kept(log)) = Len(log) - 1
          /\ \A i \in 1 .. Len(log) - 1 : Kept(log)[i] = log[i]
      <3>1. \A i \in 1 .. Len(log) - 1 : log[i] \in Slots
        BY <1>0
      <3>. HIDE DEF Slots
      <3>. QED  BY <1>0, <2>1, <3>1, SubSeqProperties
    <2>3. DOMAIN Kept(log) = 1 .. Len(log) - 1
      BY <2>2, LenProperties
    <2>. QED  BY <1>0, <1>2, <2>1, <2>2, <2>3
  <1>. QED  BY <1>1, <1>2

LEMMA FreshKept ==
    ASSUME NEW log \in Seq(Slots), Fresh(log)
    PROVE  Fresh(Kept(log))
  BY KeptIs, SMTT(30) DEF Fresh, Aged, Low
-----------------------------------------------------------------------------
(***************************************************************************)
(* What a scan without failing reads finds.                                *)
(***************************************************************************)
(* Every readable slot is reached. *)
LEMMA CleanScan ==
    ASSUME NEW log \in Seq(Slots), Ordered(log), NEW b, NEW kinds \in SUBSET WellFormed
    PROVE  OfKind(log, b, kinds, Clean)
             = {i \in DOMAIN log : log[i].blk = b /\ log[i].kind \in kinds}
  <1>1. ASSUME NEW i \in DOMAIN log, log[i].kind \in kinds
        PROVE  Reached(log, i, Clean)
    <2>1. SUFFICES ASSUME NEW j \in 1 .. i
                   PROVE  log[j].kind \in WellFormed /\ j # Clean.cut
      BY DEF Reached
    <2>2. i \in Int /\ j \in DOMAIN log /\ j # 0 /\ (j = i \/ j < i)
      BY SlotsOf
    <2>3. log[j].kind \in WellFormed
      BY <1>1, <2>2, SlotsOf, SlotFields DEF Ordered
    <2>. QED  BY <2>2, <2>3 DEF Clean
  <1>. QED  BY <1>1 DEF OfKind

(* Among records of one block the last one wins. *)
LEMMA LastWins ==
    ASSUME NEW log \in Seq(Slots), Fresh(log), NEW C, NEW top \in C,
           \A i \in C : /\ i \in DOMAIN log /\ i <= top
                        /\ log[i].kind \in WellFormed /\ log[i].blk = log[top].blk
    PROVE  Winner(log, C) = {top}
  <1>0. \A i \in C : i \in Int
    BY SlotsOf
  <1>1. ASSUME NEW i \in C, i # top
        PROVE  /\ i < top /\ ~(top < i)
               /\ Newer(log[top].counter, log[i].counter, CounterMod)
    <2>1. i < top /\ ~(top < i)
      BY <1>0, <1>1
    <2>. QED  BY <2>1, LaterIsNewer
  <1>2. top \in Winner(log, C)
    BY <1>1 DEF Winner
  <1>3. ASSUME NEW i \in Winner(log, C)
        PROVE  i = top
    BY <1>1, <1>3 DEF Winner
  <1>. QED  BY <1>2, <1>3

(* The number chosen for the next record of block b is later than those of *)
(* all its records, by no more than their distance from the cursor.        *)
Later(n, log, b) ==
    \A i \in DOMAIN log :
        log[i].kind \in WellFormed /\ log[i].blk = b
        => Gap(n, log[i].counter) \in 1 .. cursor + 1 - log[i].end

LEMMA NextIsLater ==
    ASSUME TypeOK, NEW log \in Seq(Slots), Ordered(log), Behind(log, cursor), Fresh(log),
           cursor < SectorSize, Occupied(log) => log[Len(log)].kind \in Unreadable,
           NEW b
    PROVE  Later(NextCounter(log, b, Clean), Kept(log), b)
  <1>. DEFINE kept == Kept(log)
              C == {i \in DOMAIN log : log[i].blk = b /\ log[i].kind \in WellFormed}
  <1>1. C = OfKind(log, b, WellFormed, Clean)
    BY CleanScan
  <1>2. /\ \A i \in DOMAIN kept : i \in DOMAIN log /\ kept[i] = log[i]
        /\ \A i \in DOMAIN kept : kept[i].end <= cursor
    BY KeptIs, KeptOK
  <1>3. ASSUME NEW i \in C
        PROVE  i \in DOMAIN kept
    <2>1. CASE ~Occupied(log)
      BY <2>1, KeptIs
    <2>2. CASE Occupied(log)
      <3>1. i # Len(log)
        BY <2>2 DEF WellFormed, Unreadable
      <3>. QED  BY <2>2, <3>1, KeptIs, SlotsOf
    <2>. QED  BY <2>1, <2>2
  <1>4. SUFFICES ASSUME NEW i \in C
                 PROVE  Gap(NextCounter(log, b, Clean), log[i].counter)
                          \in 1 .. cursor + 1 - log[i].end
    BY <1>2 DEF Later
  <1>5. PICK top \in C : \A j \in C : j <= top
    <2>1. C \subseteq 1 .. Len(log) /\ Len(log) \in Nat
      BY SlotsOf
    <2>. HIDE DEF C
    <2>. QED  BY <1>4, <2>1, LastExists
  <1>6. Winner(log, C) = {top}
    <2>1. \A j \in C : /\ j \in DOMAIN log /\ j <= top
                      /\ log[j].kind \in WellFormed /\ log[j].blk = log[top].blk
      BY <1>5
    <2>. HIDE DEF C
    <2>. QED  BY <1>5, <2>1, LastWins
  <1>7. NextCounter(log, b, Clean) = (log[top].counter + 1) % CounterMod
    <2>. HIDE DEF C
    <2>1. (CHOOSE j \in {top} : TRUE) = top
      OBVIOUS
    <2>2. Winner(log, OfKind(log, b, WellFormed, Clean)) = {top}
      BY <1>1, <1>6
    <2>. QED  BY <2>1, <2>2 DEF NextCounter
  <1>8. /\ log[i].counter \in Counters /\ log[top].counter \in Counters
        /\ log[i].end \in Int /\ log[top].end \in Int
        /\ log[top].end <= cursor /\ cursor \in Int
        /\ CounterMod \div 2 \in Int /\ 2 <= CounterMod /\ CounterMod \in Int
        /\ 2 * (CounterMod \div 2) <= CounterMod
        /\ 1 <= CounterMod \div 2
    BY <1>2, <1>3, SlotsOf, SlotFields, Sizes DEF TypeOK
  <1>9. /\ Gap(log[top].counter, log[i].counter) \in 0 .. log[top].end - log[i].end
        /\ Gap(log[top].counter, log[i].counter) <= (CounterMod \div 2) - 1
    <2>1. CASE i = top
      <3>1. Gap(log[i].counter, log[i].counter) = log[i].counter - log[i].counter
        BY <1>8, GapIs DEF Counters
      <3>2. Gap(log[i].counter, log[i].counter) = 0
        BY <1>8, <3>1 DEF Counters
      <3>. QED  BY <1>8, <2>1, <3>2
    <2>2. CASE i # top
      <3>1. i < top /\ i \in Int /\ top \in Int
        BY <1>5, <2>2, SlotsOf
      <3>2. /\ Gap(log[top].counter, log[i].counter) \in 1 .. log[top].end - log[i].end
            /\ log[top].end - log[i].end <= (CounterMod \div 2) - 1
        BY <3>1, LaterIsNewer
      <3>. QED  BY <1>8, <3>2
    <2>. QED  BY <2>1, <2>2
  <1>10. Gap(log[top].counter, log[i].counter) + 1 < CounterMod
    BY <1>8, <1>9
  <1>11. Gap(NextCounter(log, b, Clean), log[i].counter)
           = Gap(log[top].counter, log[i].counter) + 1
    BY <1>7, <1>8, <1>10, GapOfNext
  <1>. QED  BY <1>8, <1>9, <1>11
-----------------------------------------------------------------------------
(***************************************************************************)
(* Write counters order records by age, as long as reads do not fail.      *)
(***************************************************************************)
Numbering == {"number", "header", "payload", "commit"}
(* The slot at the cursor holds the record being appended, uncommitted. *)
Pending ==
    Occupied(Log(active)) /\ Log(active)[Len(Log(active))] = Record("bare")
(* A collection has copied at most one record of each block passed so far. *)
Copies(log) ==
    /\ \A i \in DOMAIN log : log[i].blk < copying
    /\ \A i, j \in DOMAIN log : i < j => log[i].blk # log[j].blk

AgeInv ==
    /\ \A s \in Sectors : Fresh(Log(s))
    /\ cause # "retry"
    /\ pc \in Numbering => cursor + RecordSpan <= SectorSize - Threshold
    /\ pc \in {"copy", "seal"} => Copies(Log(Other(active)))
    /\ pc = "header" /\ Writable => Later(counter, Kept(Log(active)), call.blk)
    /\ pc \in {"payload", "commit"} =>
          Pending /\ Later(counter, Kept(Log(active)), call.blk)

(* Rewriting the log of one sector. *)
LEMMA LogOf ==
    ASSUME MediaOK(media), NEW s \in Sectors, NEW log
    PROVE  /\ WithLog(s, log)[s].log = log
           /\ \A r \in Sectors : r # s => WithLog(s, log)[r] = media[r]
           /\ \A r \in Sectors : WithLog(s, log)[r].header = media[r].header
  BY DEF MediaOK, WithLog, SectorStates

(* The record being appended is later than all of its block. *)
LEMMA RecordFresh ==
    ASSUME IInv, AgeInv, pc \in {"header", "payload", "commit"}, pc = "header" => Writable,
           NEW kind \in {"bare", "valid", "invalid"}
    PROVE  Fresh(Place(Log(active), Record(kind)))
  <1>. DEFINE log == Log(active)
              slot == Record(kind)
  <1>1. /\ TypeOK /\ log \in Seq(Slots) /\ Ordered(log) /\ Behind(log, cursor)
        /\ Fresh(log) /\ Fits
    BY Basics DEF IInv, AgeInv, Phases, Working, Room
  <1>2. /\ slot \in Slots /\ slot.end = cursor + RecordSpan /\ cursor < SectorSize
        /\ slot.counter = counter /\ slot.blk = call.blk
    BY <1>1, AppendedOK DEF Record
  <1>3. Later(counter, Kept(log), call.blk)
    BY DEF AgeInv
  <1>4. cursor + RecordSpan <= SectorSize - Threshold
    BY DEF AgeInv, Numbering
  <1>. HIDE DEF log, slot
  <1>5. /\ Kept(log) \in Seq(Slots) /\ Fresh(Kept(log))
        /\ RecordSpan \in Int /\ 1 <= RecordSpan /\ cursor \in Int
    BY <1>1, KeptIs, FreshKept, RecordSpanOK
  <1>6. ASSUME NEW i \in DOMAIN Kept(log), Kept(log)[i].kind \in WellFormed,
               Kept(log)[i].blk = slot.blk
        PROVE  Gap(slot.counter, Kept(log)[i].counter) \in 1 .. slot.end - Kept(log)[i].end
    <2>1. Gap(counter, Kept(log)[i].counter) \in 1 .. cursor + 1 - Kept(log)[i].end
      BY <1>2, <1>3, <1>6 DEF Later
    <2>2. Kept(log)[i].end \in Int
      BY <1>5, SlotsOf, SlotFields
    <2>. QED  BY <1>2, <1>5, <2>1, <2>2
  <1>7. Fresh(Append(Kept(log), slot))
    BY <1>2, <1>4, <1>5, <1>6, FreshAppend
  <1>. QED  BY <1>7 DEF Place, log, slot

(* A slot that cannot be read carries no number. *)
LEMMA LostFresh ==
    ASSUME NEW log \in Seq(Slots), Fresh(log), NEW kind \in Unreadable,
           NEW end, Lost(kind, end) \in Slots
    PROVE  Fresh(Append(log, Lost(kind, end))) /\ Fresh(Place(log, Lost(kind, end)))
  <1>1. Lost(kind, end).kind \notin WellFormed
    BY DEF Lost, Unreadable, WellFormed
  <1>2. Kept(log) \in Seq(Slots) /\ Fresh(Kept(log))
    BY KeptIs, FreshKept
  <1>. QED  BY <1>1, <1>2, FreshAppend DEF Place

LEMMA DebrisFresh ==
    /\ Lost("junk", SectorSize) \in Slots
    /\ Fresh(<<Lost("junk", SectorSize)>>)
  <1>1. Lost("junk", SectorSize) \in Slots
    <2>1. 1 \in Blocks /\ 0 \in Counters /\ SectorSize \in HeaderSize + 1 .. SectorSize
      BY Sizes DEF Blocks, Counters
    <2>. QED  BY <2>1 DEF Lost, Slots
  <1>2. Fresh(Append(<<>>, Lost("junk", SectorSize)))
    BY <1>1, EmptyLog, EmptyFresh, LostFresh DEF Unreadable
  <1>3. Append(<<>>, Lost("junk", SectorSize)) = <<Lost("junk", SectorSize)>>
    OBVIOUS
  <1>. QED  BY <1>1, <1>2, <1>3

(* What an operation that does not complete leaves is fresh. *)
LEMMA FreshLoss ==
    ASSUME IInv, AgeInv, NEW m \in AfterLoss \cup AfterFailure, NEW s \in Sectors
    PROVE  Fresh(m[s].log)
  <1>0. /\ TypeOK /\ MediaOK(media) /\ active \in Sectors /\ Other(active) \in Sectors
        /\ \A r \in Sectors : Log(r) \in Seq(Slots) /\ Fresh(Log(r))
    BY Basics DEF AgeInv
  <1>1. m = media \/ m \in Torn \/ m \in Sealing
    BY DEF AfterLoss, AfterFailure
  <1>2. CASE m = media
    BY <1>0, <1>2 DEF Log
  <1>3. CASE m \in Sealing
    <2>1. \E r \in Sectors : \E seq : m = Sealed(r, seq)
      BY <1>0, <1>3 DEF Sealing, Sectors
    <2>2. m[s].log = Log(s)
      BY <1>0, <2>1 DEF Sealed, MediaOK, SectorStates, Log
    <2>. QED  BY <1>0, <2>2
  <1>w. ASSUME NEW r \in Sectors, NEW log, m = WithLog(r, log), Fresh(log)
        PROVE  Fresh(m[s].log)
    BY <1>0, <1>w, LogOf DEF Log
  <1>4. CASE m \in Torn
    <2>1. CASE pc = "header" /\ Fits
      <3>. DEFINE end == cursor + RecordSpan
      <3>1. \A kind \in Unreadable : Lost(kind, end) \in Slots
        BY <1>0, <2>1, AppendedOK
      <3>2. PICK slot : /\ m = WithLog(active, Place(Log(active), slot))
                        /\ \/ \E kind \in Unreadable : slot = Lost(kind, end)
                           \/ Writable /\ slot = Record("bare")
        BY <1>4, <2>1 DEF Torn, Unreadable
      <3>. HIDE DEF end
      <3>3. Fresh(Place(Log(active), slot))
        BY <1>0, <2>1, <3>1, <3>2, LostFresh, RecordFresh
      <3>. QED  BY <1>0, <1>w, <3>2, <3>3
    <2>2. CASE pc = "commit"
      <3>1. PICK kind \in {"bare", "valid", "invalid"} :
               m = WithLog(active, Place(Log(active), Record(kind)))
        BY <1>4, <2>2 DEF Torn, FinalKind
      <3>2. Fresh(Place(Log(active), Record(kind)))
        BY <2>2, RecordFresh
      <3>. QED  BY <1>0, <1>w, <3>1, <3>2
    <2>3. CASE pc \in {"eraseTarget", "reclaim", "dropLoser", "formatFirst", "formatSecond"}
      <3>1. PICK r \in Sectors : m \in TornErase(r)
        BY <1>0, <1>4, <2>3 DEF Torn, Sectors
      <3>2. m[s].log \in {Log(s), <<>>, <<Lost("junk", SectorSize)>>}
        BY <1>0, <3>1 DEF TornErase, Erased, Log, MediaOK
      <3>. QED  BY <1>0, <3>2, EmptyFresh, DebrisFresh
    <2>4. CASE pc = "copy"
      <3>1. m = WithLog(Other(active), Append(Log(Other(active)), Lost("junk", SectorSize)))
        BY <1>4, <2>4 DEF Torn
      <3>2. Fresh(Append(Log(Other(active)), Lost("junk", SectorSize)))
        BY <1>0, DebrisFresh, LostFresh DEF Unreadable
      <3>. QED  BY <1>0, <1>w, <3>1, <3>2
    <2>. QED  BY <1>4, <2>1, <2>2, <2>3, <2>4 DEF Torn
  <1>. QED  BY <1>1, <1>2, <1>3, <1>4

(* Outside an append or a copy only the logs matter. *)
LEMMA AgeRest ==
    ASSUME pc' \notin Numbering \cup {"copy", "seal"}, cause' # "retry",
           \A s \in Sectors : Fresh(media'[s].log)
    PROVE  AgeInv'
  BY DEF AgeInv, Numbering, Log

LEMMA AgeInit == ASSUME Init PROVE AgeInv
  BY EmptyFresh DEF Init, AgeInv, Numbering, Log, Erased

(* Erasing or sealing a sector leaves fresh logs. *)
LEMMA FreshErased ==
    ASSUME IInv, AgeInv, NEW s \in Sectors, NEW r \in Sectors
    PROVE  /\ Fresh([media EXCEPT ![s] = Erased][r].log)
           /\ \A seq : Sealed(s, seq)[r].log = media[r].log
           /\ Fresh(media[r].log)
  BY Basics, EmptyFresh DEF MediaOK, Erased, AgeInv, Log, Sealed, SectorStates

LEMMA AgeCopy ==
    ASSUME IInv, AgeInv, CopyBlock
    PROVE  AgeInv'
  <1>0. /\ TypeOK /\ MediaOK(media) /\ active \in Sectors /\ Other(active) \in Sectors
        /\ Other(active) # active
        /\ \A s \in Sectors : Log(s) \in Seq(Slots) /\ Fresh(Log(s))
    BY Basics DEF AgeInv
  <1>. DEFINE log == Log(active)
              target == Log(Other(active))
  <1>1. /\ pc = "copy" /\ pc' \in {"copy", "seal"} /\ cause' = cause /\ active' = active
        /\ copying \in 1 .. NBlocks
    BY <1>0, Sizes DEF CopyBlock, ram, IInv, Target, TypeOK
  <1>2. Copies(target) /\ cause # "retry"
    BY <1>1 DEF AgeInv
  <1>3. PICK view \in Views(log) :
          LET found == FindNewestRecord(log, copying, view)
              slot == log[CHOOSE i \in found : TRUE]
              end == copyEnd + SpanOf(slot)
          IN  \/ copying' \in {copying + 1, NBlocks + 1} /\ UNCHANGED media
              \/ /\ found # {}
                 /\ media' = WithLog(Other(active), Append(target, [slot EXCEPT !.end = end]))
                 /\ copyEnd' = end
                 /\ copying' = copying + 1
    BY DEF CopyBlock
  <1>. DEFINE found == FindNewestRecord(log, copying, view)
              slot == log[CHOOSE i \in found : TRUE]
              end == copyEnd + SpanOf(slot)
              copy == [slot EXCEPT !.end = end]
  <1>4. IInv'
    BY NextOK DEF Next, Collecting
  <1>5. copying' \in Int /\ copying < copying' /\ copying' <= NBlocks + 1
    BY <1>1, <1>3, Sizes
  <1>6. /\ \A s \in Sectors : Fresh(media'[s].log)
        /\ \A i \in DOMAIN media'[Other(active)].log : media'[Other(active)].log[i].blk < copying'
        /\ \A i, j \in DOMAIN media'[Other(active)].log :
              i < j => media'[Other(active)].log[i].blk # media'[Other(active)].log[j].blk
    <2>0. /\ \A i \in DOMAIN target : target[i] \in Slots /\ target[i].blk \in Int
          /\ DOMAIN target = 1 .. Len(target) /\ Len(target) \in Nat
      BY <1>0, SlotsOf, SlotFields DEF Blocks
    <2>1. CASE media' = media
      <3>1. media'[Other(active)].log = target /\ \A s \in Sectors : Fresh(media'[s].log)
        BY <1>0, <2>1 DEF Log
      <3>. HIDE DEF target
      <3>2. \A i \in DOMAIN target : target[i].blk < copying'
        BY <1>1, <1>2, <1>5, <2>0 DEF Copies
      <3>3. \A i, j \in DOMAIN target : i < j => target[i].blk # target[j].blk
        BY <1>2 DEF Copies
      <3>. QED  BY <3>1, <3>2, <3>3
    <2>2. CASE /\ found # {}
               /\ media' = WithLog(Other(active), Append(target, copy))
               /\ copyEnd' = end
               /\ copying' = copying + 1
      <3>1. slot \in Slots /\ slot.kind = "valid" /\ slot.blk = copying
        <4>1. PICK i \in found : i = CHOOSE j \in found : TRUE
          BY <2>2
        <4>. HIDE DEF found
        <4>2. i \in DOMAIN log /\ log[i].kind = "valid" /\ log[i].blk = copying
          BY <4>1, NewestOK DEF found
        <4>. QED  BY <1>0, <4>1, <4>2, SlotsOf
      <3>. HIDE DEF log, found, slot
      <3>2. end <= SectorSize - Threshold /\ end \in HeaderSize .. SectorSize
        <4>1. /\ copyEnd' <= HeaderSize + (copying' - 1) * MaxSpan
              /\ copyEnd' \in HeaderSize .. SectorSize
          BY <1>1, <1>4 DEF IInv, Target, TypeOK
        <4>. HIDE DEF end
        <4>2. end <= HeaderSize + ((copying + 1) - 1) * MaxSpan /\ end \in Int
          BY <2>2, <4>1, Sizes
        <4>3. /\ ((copying + 1) - 1) * MaxSpan <= NBlocks * MaxSpan
              /\ ((copying + 1) - 1) * MaxSpan \in Int
          BY <1>1, Sizes
        <4>. QED  BY <2>2, <4>1, <4>2, <4>3, Sizes DEF Threshold
      <3>3. end \in HeaderSize + 1 .. SectorSize
        BY <1>0, <2>2, <3>1, <3>2, SpanOfOK, Sizes DEF TypeOK
      <3>. HIDE DEF end
      <3>4. /\ copy \in Slots /\ copy.end = end /\ copy.blk = copying
        BY <3>1, <3>3 DEF Slots
      <3>. HIDE DEF copy, target
      <3>5. \A i \in DOMAIN target : target[i].blk # copy.blk /\ target[i].blk < copying
        BY <1>1, <1>2, <2>0, <3>4 DEF Copies
      <3>6. Fresh(Append(target, copy))
        <4>1. target \in Seq(Slots) /\ Fresh(target)
          BY <1>0 DEF target
        <4>. QED  BY <3>2, <3>4, <3>5, <4>1, FreshAppend
      <3>7. /\ DOMAIN Append(target, copy) = 1 .. Len(target) + 1
            /\ \A i \in DOMAIN target : Append(target, copy)[i] = target[i]
            /\ Append(target, copy)[Len(target) + 1] = copy
        <4>1. target \in Seq(Slots)
          BY <1>0 DEF target
        <4>2. /\ Append(target, copy) \in Seq(Slots)
              /\ Len(Append(target, copy)) = Len(target) + 1
              /\ \A i \in 1 .. Len(target) : Append(target, copy)[i] = target[i]
              /\ Append(target, copy)[Len(target) + 1] = copy
          BY <3>4, <4>1, AppendProperties
        <4>. QED  BY <2>0, <4>2, LenProperties
      <3>8. /\ media'[Other(active)].log = Append(target, copy)
            /\ \A s \in Sectors : s # Other(active) => media'[s] = media[s]
        <4>. DEFINE new == Append(target, copy)
        <4>1. media' = WithLog(Other(active), new)
          BY <2>2
        <4>. HIDE DEF new
        <4>2. /\ WithLog(Other(active), new)[Other(active)].log = new
              /\ \A r \in Sectors : r # Other(active)
                    => WithLog(Other(active), new)[r] = media[r]
          BY <1>0, LogOf
        <4>. QED  BY <4>1, <4>2 DEF new
      <3>9. \A s \in Sectors : Fresh(media'[s].log)
        BY <1>0, <3>6, <3>8 DEF Log
      <3>10. \A i \in 1 .. Len(target) + 1 :
                \/ i \in DOMAIN target
                \/ i = Len(target) + 1 /\ \A j \in 1 .. Len(target) + 1 : ~(i < j)
        BY <2>0
      <3>11. \A i \in 1 .. Len(target) + 1 : Append(target, copy)[i].blk < copying + 1
        BY <1>1, <2>0, <3>4, <3>5, <3>7, <3>10
      <3>12. \A i, j \in 1 .. Len(target) + 1 :
                i < j => Append(target, copy)[i].blk # Append(target, copy)[j].blk
        BY <1>2, <3>4, <3>5, <3>7, <3>10 DEF Copies
      <3>. QED  BY <2>2, <3>7, <3>8, <3>9, <3>11, <3>12
    <2>. QED  BY <1>3, <2>1, <2>2
  <1>7. Copies(Log(Other(active)))'
    BY <1>1, <1>6 DEF Copies, Log, Other
  <1>. QED  BY <1>1, <1>2, <1>6, <1>7 DEF AgeInv, Numbering, Log

LEMMA AgeCollecting ==
    ASSUME IInv, AgeInv, Collecting
    PROVE  AgeInv'
  <1>0. /\ TypeOK /\ MediaOK(media) /\ active \in Sectors /\ Other(active) \in Sectors
        /\ cause # "retry" /\ \A s \in Sectors : Fresh(media[s].log)
    BY Basics DEF AgeInv, Log
  <1>1. CASE EraseTarget
    <2>1. /\ pc' = "copy" /\ cause' = cause /\ active' = active
          /\ media' = [media EXCEPT ![Other(active)] = Erased]
      BY <1>1 DEF EraseTarget, ram
    <2>2. \A s \in Sectors : Fresh(media'[s].log)
      BY <1>0, <2>1, FreshErased
    <2>3. Log(Other(active))' = <<>>
      BY <1>0, <2>1, ErasedOK DEF Log, Other
    <2>4. Copies(Log(Other(active)))'
      BY <2>3, EmptyLog DEF Copies
    <2>. QED  BY <1>0, <2>1, <2>2, <2>4 DEF AgeInv, Numbering, Log
  <1>2. CASE CopyBlock
    BY <1>2, AgeCopy
  <1>3. CASE Seal
    <2>1. /\ pc' = "reclaim" /\ cause' = cause
          /\ media' = Sealed(Other(active), NextSequence)
      BY <1>3 DEF Seal, gc
    <2>2. \A s \in Sectors : Fresh(media'[s].log)
      BY <1>0, <2>1, FreshErased
    <2>. QED  BY <1>0, <2>1, <2>2, AgeRest DEF Numbering
  <1>4. CASE Reclaim
    <2>1. \A s \in Sectors : Fresh(media'[s].log)
      <3>1. CASE media' = [media EXCEPT ![Other(active)] = Erased]
        BY <1>0, <3>1, FreshErased
      <3>2. CASE media' \in AfterFailure
        BY <3>2, FreshLoss
      <3>. QED  BY <1>4, <3>1, <3>2 DEF Reclaim
    <2>2. /\ pc' \in {"idle", "admit", "number"} /\ cause' # "retry"
          /\ pc' = "number" => call' = call /\ cursor' = cursor
          /\ cursor <= HeaderSize + NBlocks * MaxSpan
      BY <1>0, <1>4 DEF Reclaim, Finish, TypeOK, IInv, Room
    <2>3. CASE pc' # "number"
      BY <2>1, <2>2, <2>3, AgeRest DEF Numbering
    <2>4. CASE pc' = "number"
      <3>1. cursor + RecordSpan <= SectorSize - Threshold
        BY <1>0, <2>2, RecordSpanOK, Sizes DEF Threshold
      <3>2. (cursor + RecordSpan <= SectorSize - Threshold)'
        BY <2>2, <2>4, <3>1 DEF RecordSpan
      <3>. QED  BY <2>1, <2>2, <2>4, <3>2 DEF AgeInv, Log
    <2>. QED  BY <2>3, <2>4
  <1>5. CASE CollectFails
    <2>1. media' \in AfterFailure /\ pc' = "idle" /\ cause' = "direct"
      BY <1>5 DEF CollectFails, Finish
    <2>2. \A s \in Sectors : Fresh(media'[s].log)
      BY <2>1, FreshLoss
    <2>. QED  BY <2>1, <2>2, AgeRest DEF Numbering
  <1>. QED  BY <1>1, <1>2, <1>3, <1>4, <1>5 DEF Collecting

LEMMA AgeAppending ==
    ASSUME IInv, AgeInv, "read" \notin env.faults, Appending
    PROVE  AgeInv'
  <1>0. /\ TypeOK /\ MediaOK(media) /\ active \in Sectors
        /\ Log(active) \in Seq(Slots) /\ Ordered(Log(active)) /\ Fresh(Log(active))
        /\ initialised => Behind(Log(active), cursor)
        /\ cause # "retry" /\ \A s \in Sectors : Fresh(media[s].log)
    BY Basics DEF AgeInv, Log
  <1>r. /\ RecordSpan \in Int /\ 1 <= RecordSpan /\ RecordSpan <= MaxSpan
        /\ cursor \in Int /\ HeaderSize <= cursor /\ cursor <= SectorSize
    BY <1>0, RecordSpanOK
  <1>1. CASE Admit
    <2>1. /\ UNCHANGED <<media, cursor, call>>
          /\ pc' \in {"eraseTarget", "number"} /\ cause' # "retry"
          /\ pc' = "number" => ~(cursor + Span[call.blk] + Threshold > SectorSize)
      BY <1>1 DEF Admit, Collect, ram
    <2>2. CASE pc' = "number"
      <3>1. Span[call.blk] \in Int /\ RecordSpan <= Span[call.blk] /\ Threshold \in Int
        <4>1. call.blk \in Blocks
          BY <1>0 DEF TypeOK, CallRecords
        <4>2. Span[call.blk] \in StubSpan .. MaxSpan
          BY <4>1, FeeAssumption
        <4>. QED  BY <4>2, Sizes DEF RecordSpan, Threshold
      <3>2. cursor + RecordSpan <= SectorSize - Threshold
        BY <1>r, <2>1, <2>2, <3>1, Sizes
      <3>3. (cursor + RecordSpan <= SectorSize - Threshold)'
        BY <2>1, <3>2 DEF RecordSpan
      <3>. QED  BY <1>0, <2>1, <2>2, <3>3 DEF AgeInv, Log
    <2>. QED  BY <1>0, <2>1, <2>2, AgeRest DEF Numbering
  <1>2. CASE Number
    <2>1. /\ UNCHANGED <<media, active, cursor, call, cause>> /\ pc' = "header" /\ pc = "number"
          /\ initialised /\ Fits
          /\ \E view \in Views(Log(active)) :
                counter' = NextCounter(Log(active), call.blk, view)
      BY <1>2 DEF Number, gc, ram, IInv, Phases, Working, Room
    <2>2. counter' = NextCounter(Log(active), call.blk, Clean)
      BY <2>1 DEF Views
    <2>3. cursor < SectorSize
      BY <1>r, <2>1, Sizes DEF Fits
    <2>4. ASSUME Writable
          PROVE  Later(counter', Kept(Log(active)), call.blk)
      <3>1. Occupied(Log(active)) => Log(active)[Len(Log(active))].kind \in Unreadable
        BY <2>4 DEF Writable, Unreadable
      <3>. QED  BY <1>0, <2>1, <2>2, <2>3, <3>1, NextIsLater
    <2>5. Writable' => Later(counter, Kept(Log(active)), call.blk)'
      BY <2>1, <2>4 DEF Writable, Later, Kept, Occupied, Log
    <2>6. (cursor + RecordSpan <= SectorSize - Threshold)'
      BY <2>1 DEF AgeInv, Numbering, RecordSpan
    <2>. QED  BY <1>0, <2>1, <2>5, <2>6 DEF AgeInv, Log
  <1>3. CASE AppendHeader
    <2>1. /\ pc = "header" /\ pc' = "payload" /\ Fits /\ Writable /\ initialised
          /\ UNCHANGED <<active, cursor, call, counter, cause>>
          /\ media' = WithLog(active, Place(Log(active), Record("bare")))
      BY <1>3 DEF AppendHeader, gc, ram, IInv, Phases, Working, Room
    <2>. DEFINE log == Log(active)
                slot == Record("bare")
    <2>2. /\ slot \in Slots /\ slot.end = cursor + RecordSpan
          /\ Fresh(Place(log, slot))
      BY <1>0, <2>1, AppendedOK, RecordFresh
    <2>3. /\ media'[active].log = Place(log, slot)
          /\ \A r \in Sectors : r # active => media'[r] = media[r]
      BY <1>0, <2>1, LogOf
    <2>4. \A s \in Sectors : Fresh(media'[s].log)
      BY <1>0, <2>2, <2>3
    <2>. HIDE DEF log, slot
    <2>5. Kept(log) \in Seq(Slots)
      BY <1>0, KeptIs DEF log
    <2>6. /\ Place(log, slot) # <<>> /\ Place(log, slot)[Len(Place(log, slot))] = slot
          /\ Len(Place(log, slot)) - 1 = Len(Kept(log))
          /\ SubSeq(Place(log, slot), 1, Len(Place(log, slot)) - 1) = Kept(log)
      <3>. DEFINE kept == Kept(log)
                  new == Append(kept, slot)
      <3>1. /\ new \in Seq(Slots) /\ new # <<>> /\ Len(new) = Len(kept) + 1
            /\ \A i \in 1 .. Len(kept) : new[i] = kept[i]
            /\ new[Len(kept) + 1] = slot
            /\ Len(kept) \in Nat /\ kept \in Seq(Slots)
        <4>. HIDE DEF kept
        <4>1. kept \in Seq(Slots) /\ slot \in Slots
          BY <2>2, <2>5 DEF kept
        <4>. QED  BY <4>1, AppendProperties, LenProperties
      <3>. HIDE DEF kept, new
      <3>2. /\ SubSeq(new, 1, Len(kept)) \in Seq(Slots)
            /\ Len(SubSeq(new, 1, Len(kept))) = Len(kept)
            /\ \A i \in 1 .. Len(kept) : SubSeq(new, 1, Len(kept))[i] = new[i]
        <4>1. \A i \in 1 .. Len(kept) : new[i] \in Slots
          BY <3>1, LenProperties
        <4>. HIDE DEF Slots
        <4>. QED  BY <3>1, <4>1, SubSeqProperties
      <3>3. SubSeq(new, 1, Len(kept)) = kept
        BY <3>1, <3>2, SeqEqual
      <3>. QED  BY <3>1, <3>3 DEF Place, kept, new
    <2>7. slot.end > cursor
      BY <1>r, <2>2
    <2>8. Pending'
      BY <2>1, <2>3, <2>6, <2>7 DEF Pending, Occupied, Log, Record, RecordSpan, slot
    <2>9. Later(counter, Kept(log), call.blk)
      BY <2>1 DEF AgeInv, log
    <2>10. Kept(Log(active))' = Kept(log)
      BY <2>1, <2>3, <2>6, <2>8 DEF Pending, Kept, Log
    <2>11. Later(counter, Kept(Log(active)), call.blk)'
      BY <2>1, <2>9, <2>10 DEF Later
    <2>12. (cursor + RecordSpan <= SectorSize - Threshold)'
      BY <2>1 DEF AgeInv, Numbering, RecordSpan
    <2>. QED  BY <1>0, <2>1, <2>4, <2>8, <2>11, <2>12 DEF AgeInv, Log
  <1>4. CASE AppendPayload
    BY <1>4 DEF AppendPayload, AgeInv, Numbering, gc, ram, RecordSpan, Pending, Occupied, Record,
                Kept, Later, Log
  <1>5. CASE Commit
    <2>1. /\ pc = "commit" /\ pc' = "idle" /\ cause' = "direct"
          /\ media' = WithLog(active, Place(Log(active), Record(FinalKind)))
      BY <1>5 DEF Commit, Finish
    <2>2. Fresh(Place(Log(active), Record(FinalKind)))
      BY <2>1, RecordFresh DEF FinalKind
    <2>3. \A s \in Sectors : Fresh(media'[s].log)
      BY <1>0, <2>1, <2>2, LogOf
    <2>. QED  BY <2>1, <2>3, AgeRest DEF Numbering
  <1>6. CASE AppendFails
    <2>1. media' \in AfterFailure /\ pc' = "idle" /\ cause' = "direct"
      BY <1>6 DEF AppendFails, Finish
    <2>2. \A s \in Sectors : Fresh(media'[s].log)
      BY <2>1, FreshLoss
    <2>. QED  BY <2>1, <2>2, AgeRest DEF Numbering
  <1>. QED  BY <1>1, <1>2, <1>3, <1>4, <1>5, <1>6 DEF Appending

(* A spoilt payload keeps its block, its number and its place. *)
LEMMA RotIs ==
    ASSUME IInv, Rot
    PROVE  \E s \in Sectors : \E i \in DOMAIN Log(s) :
              LET spoilt == media'[s].log IN
              /\ \A r \in Sectors : r # s => media'[r] = media[r]
              /\ \A r \in Sectors : media'[r].header = media[r].header
              /\ Log(s)[i].kind = "valid" /\ spoilt[i].kind = "rotten"
              /\ Len(spoilt) = Len(Log(s)) /\ DOMAIN spoilt = DOMAIN Log(s)
              /\ \A j \in DOMAIN Log(s) :
                    /\ j # i => spoilt[j] = Log(s)[j]
                    /\ spoilt[j].blk = Log(s)[j].blk /\ spoilt[j].end = Log(s)[j].end
                    /\ spoilt[j].counter = Log(s)[j].counter
  <1>0. /\ MediaOK(media) /\ \A s \in Sectors : Log(s) \in Seq(Slots)
    BY Basics
  <1>a. PICK s \in Sectors : \E i \in DOMAIN Log(s) :
          /\ Log(s)[i].kind = "valid"
          /\ media' = WithLog(s, [Log(s) EXCEPT ![i].kind = "rotten"])
    BY DEF Rot
  <1>1. PICK i \in DOMAIN Log(s) :
          /\ Log(s)[i].kind = "valid"
          /\ media' = WithLog(s, [Log(s) EXCEPT ![i].kind = "rotten"])
    BY <1>a
  <1>. DEFINE log == Log(s)
              slot == [log[i] EXCEPT !.kind = "rotten"]
              spoilt == [log EXCEPT ![i] = slot]
  <1>2. media' = WithLog(s, spoilt)
    BY <1>1
  <1>3. log \in Seq(Slots) /\ i \in DOMAIN log /\ log[i] \in Slots
    BY <1>0, SlotsOf
  <1>. HIDE DEF log
  <1>4. /\ slot \in Slots /\ slot.kind = "rotten" /\ slot.blk = log[i].blk
        /\ slot.end = log[i].end /\ slot.counter = log[i].counter
    BY <1>3 DEF Slots, WellFormed
  <1>5. i \in 1 .. Len(log) /\ DOMAIN log = 1 .. Len(log)
    BY <1>3, SlotsOf
  <1>. HIDE DEF slot
  <1>6. /\ spoilt \in Seq(Slots) /\ Len(spoilt) = Len(log)
        /\ \A j \in 1 .. Len(log) : spoilt[j] = IF j = i THEN slot ELSE log[j]
    BY <1>3, <1>4, <1>5, ExceptSeq
  <1>. HIDE DEF spoilt
  <1>7. DOMAIN spoilt = DOMAIN log
    BY <1>5, <1>6, SlotsOf
  <1>8. /\ media'[s].log = spoilt
        /\ \A r \in Sectors : r # s => media'[r] = media[r]
        /\ \A r \in Sectors : media'[r].header = media[r].header
    BY <1>0, <1>2, LogOf
  <1>9. \A j \in DOMAIN log :
           /\ j # i => spoilt[j] = log[j]
           /\ spoilt[j].blk = log[j].blk /\ spoilt[j].end = log[j].end
           /\ spoilt[j].counter = log[j].counter
    BY <1>4, <1>5, <1>6
  <1>10. log[i].kind = "valid" /\ spoilt[i].kind = "rotten"
    BY <1>1, <1>4, <1>5, <1>6 DEF log
  <1>11. LET now == media'[s].log IN
         /\ \A r \in Sectors : r # s => media'[r] = media[r]
         /\ \A r \in Sectors : media'[r].header = media[r].header
         /\ Log(s)[i].kind = "valid" /\ now[i].kind = "rotten"
         /\ Len(now) = Len(Log(s)) /\ DOMAIN now = DOMAIN Log(s)
         /\ \A j \in DOMAIN Log(s) :
               /\ j # i => now[j] = Log(s)[j]
               /\ now[j].blk = Log(s)[j].blk /\ now[j].end = Log(s)[j].end
               /\ now[j].counter = Log(s)[j].counter
    BY <1>6, <1>7, <1>8, <1>9, <1>10 DEF log
  <1>. QED  BY <1>11

LEMMA AgeRot ==
    ASSUME IInv, AgeInv, Rot
    PROVE  AgeInv'
  <1>0. /\ cause # "retry"
        /\ \A s \in Sectors : Log(s) = media[s].log /\ Fresh(Log(s))
    BY DEF AgeInv, Log
  <1>1. PICK s \in Sectors : \E i \in DOMAIN Log(s) :
          LET spoilt == media'[s].log IN
          /\ \A r \in Sectors : r # s => media'[r] = media[r]
          /\ Log(s)[i].kind = "valid" /\ spoilt[i].kind = "rotten"
          /\ DOMAIN spoilt = DOMAIN Log(s)
          /\ \A j \in DOMAIN Log(s) :
                /\ j # i => spoilt[j] = Log(s)[j]
                /\ spoilt[j].blk = Log(s)[j].blk /\ spoilt[j].end = Log(s)[j].end
                /\ spoilt[j].counter = Log(s)[j].counter
    BY RotIs
  <1>2. /\ DOMAIN media'[s].log = DOMAIN Log(s)
        /\ \A j \in DOMAIN Log(s) :
              /\ media'[s].log[j].kind \in WellFormed => Log(s)[j].kind \in WellFormed
              /\ media'[s].log[j].blk = Log(s)[j].blk
              /\ media'[s].log[j].end = Log(s)[j].end
              /\ media'[s].log[j].counter = Log(s)[j].counter
    BY <1>1 DEF WellFormed
  <1>3. Fresh(media'[s].log)
    BY <1>0, <1>2 DEF Fresh, Aged, Low
  <1>4. \A r \in Sectors : Fresh(media'[r].log)
    BY <1>0, <1>1, <1>3
  <1>. QED  BY <1>0, <1>4, AgeRest DEF Rot, Numbering, gc

LEMMA AgeStep ==
    ASSUME IInv, AgeInv, "read" \notin env.faults, [Next]_vars
    PROVE  AgeInv'
  <1>0. /\ active \in Sectors /\ Other(active) \in Sectors /\ cause # "retry"
        /\ 0 \in Sectors /\ 1 \in Sectors
        /\ \A s \in Sectors : Fresh(media[s].log)
    BY Basics DEF AgeInv, Log, Sectors
  <1>1. CASE Starting
    <2>1. \/ media' = media
          \/ media' = [media EXCEPT ![Other(active)] = Erased]
          \/ media' \in AfterFailure
      BY <1>1 DEF Starting, ChooseSector, DropLoser, Mount
    <2>2. \A s \in Sectors : Fresh(media'[s].log)
      BY <1>0, <2>1, FreshErased, FreshLoss
    <2>3. pc' \in {"formatFirst", "dropLoser", "mount", "idle"} /\ cause' = cause
      <3>1. CASE ChooseSector
        BY <3>1 DEF ChooseSector, gc
      <3>2. CASE DropLoser \/ Mount
        BY <3>2 DEF DropLoser, Mount, gc
      <3>. QED  BY <1>1, <3>1, <3>2 DEF Starting
    <2>. QED  BY <1>0, <2>2, <2>3, AgeRest DEF Numbering
  <1>2. CASE Formatting
    <2>1. \/ \E s \in Sectors : media' = [media EXCEPT ![s] = Erased]
          \/ media' = Sealed(0, 1)
          \/ media' \in AfterFailure
      BY <1>0, <1>2 DEF Formatting, FormatErase, FormatSeal, FormatFails
    <2>2. \A s \in Sectors : Fresh(media'[s].log)
      <3>1. CASE \E s \in Sectors : media' = [media EXCEPT ![s] = Erased]
        BY <3>1, FreshErased
      <3>2. CASE media' = Sealed(0, 1)
        BY <1>0, <3>2, FreshErased
      <3>3. CASE media' \in AfterFailure
        BY <3>3, FreshLoss
      <3>. QED  BY <2>1, <3>1, <3>2, <3>3
    <2>3. pc' \in {"formatSecond", "formatHeader", "idle"} /\ cause' \in {cause, "direct"}
      BY <1>2 DEF Formatting, FormatErase, FormatSeal, FormatFails, Finish, gc
    <2>. QED  BY <1>0, <2>2, <2>3, AgeRest DEF Numbering
  <1>3. CASE Collecting
    BY <1>3, AgeCollecting
  <1>4. CASE Appending
    BY <1>4, AgeAppending
  <1>5. CASE Calling
    <2>1. /\ media' = media /\ pc' \in {"idle", "admit", "eraseTarget", "formatFirst"}
          /\ cause' \in {cause, "poison", "direct"}
      BY <1>5 DEF Calling, ReadBlock, InvalidateBlock, WriteBlock, GarbageCollect, Format,
                  Refuse, Ready, Collect, gc
    <2>. QED  BY <1>0, <2>1, AgeRest DEF Numbering
  <1>6. CASE PowerLoss
    <2>1. media' \in AfterLoss /\ pc' = "off" /\ cause' = "direct"
      BY <1>6 DEF PowerLoss
    <2>2. \A s \in Sectors : Fresh(media'[s].log)
      BY <2>1, FreshLoss
    <2>. QED  BY <2>1, <2>2, AgeRest DEF Numbering
  <1>7. CASE Rot
    BY <1>7, AgeRot
  <1>8. CASE UNCHANGED vars
    BY <1>8, SMTT(40) DEF vars, AgeInv, RecordSpan, Pending, Occupied, Record, Kept, Later,
                Log, Other, Writable, Copies
  <1>. QED  BY <1>1, <1>2, <1>3, <1>4, <1>5, <1>6, <1>7, <1>8 DEF Next

(* Comparing write counters modulo 2^16 orders the records of a block by   *)
(* age (Fee_CounterIsNewer): a wrapped counter never makes an older record *)
(* the newest.  A header read that fails can hide the newest number from   *)
(* Fee_HighestCounter, so the theorem speaks of reads that succeed.        *)
THEOREM CountersOrderRecords == Spec => []("read" \notin env.faults => AgeOrder)
  <1>. DEFINE Inv == IInv /\ ("read" \notin env.faults => AgeInv)
  <1>1. Init => Inv
    BY InitOK, AgeInit
  <1>2. Inv /\ [Next]_vars => Inv'
    <2>1. ASSUME Inv, [Next]_vars
          PROVE  Inv'
      BY <2>1, NextOK, SameEnvironment, AgeStep
    <2>. QED  BY <2>1
  <1>3. Inv => ("read" \notin env.faults => AgeOrder)
    <2>1. SUFFICES ASSUME IInv, AgeInv, NEW s \in Sectors,
                          NEW i \in DOMAIN Log(s), NEW j \in DOMAIN Log(s), i < j,
                          Log(s)[i].kind \in WellFormed, Log(s)[j].kind \in WellFormed,
                          Log(s)[i].blk = Log(s)[j].blk
                   PROVE  Newer(Log(s)[j].counter, Log(s)[i].counter, CounterMod)
      BY DEF AgeOrder
    <2>2. Log(s) \in Seq(Slots) /\ Fresh(Log(s))
      BY <2>1, Basics DEF AgeInv
    <2>. QED  BY <2>1, <2>2, LaterIsNewer
  <1>. QED  BY <1>1, <1>2, <1>3, PTL DEF Spec
-----------------------------------------------------------------------------
(***************************************************************************)
(* A damaged slot is reclaimed first, as long as Fee_Format is called by   *)
(* Fee_Init only.                                                          *)
(***************************************************************************)
Formats == {"formatFirst", "formatSecond", "formatHeader"}
Collection == {"eraseTarget", "copy", "seal", "reclaim"}

(* Fee knows of every slot that cannot take a header, except while it is   *)
(* writing one; a write goes on only once such a slot is gone.             *)
PoisonInv ==
    /\ pc \in Formats => ~initialised
    /\ initialised /\ ~poisoned /\ pc \notin {"payload", "commit"} => Writable
    /\ pc = "reclaim" => Writable
    /\ call.kind = "write" /\ pc \in {"admit"} \cup Numbering => ~poisoned
    /\ call.kind = "write" /\ pc \in Collection /\ cause # "poison" => ~poisoned

LEMMA StaysWritable ==
    ASSUME UNCHANGED <<active, cursor>>, media'[active].log = media[active].log
    PROVE  /\ Log(active)' = Log(active)
           /\ Writable' = Writable
           /\ Occupied(Log(active))' = Occupied(Log(active))
  BY DEF Writable, Occupied, Log

(* The cursor a start finds is at a free place, at stray bits, or says     *)
(* that the sector is full. *)
LEMMA CursorFound ==
    ASSUME NEW log \in Seq(Slots), Ordered(log), NEW view, log # <<>>,
           log[Len(log)].end > FindWriteCursor(log, view)
    PROVE  log[Len(log)].kind = "dirty"
  <1>. DEFINE free == {i \in DOMAIN log : /\ log[i].kind = "dirty" /\ i # view.cut
                                          /\ Reached(log, i - 1, view)}
  <1>0. /\ Len(log) \in Nat \ {0} /\ Len(log) \in DOMAIN log /\ DOMAIN log = 1 .. Len(log)
        /\ log[Len(log)].end \in Int /\ log[Len(log)].end <= SectorSize
    <2>1. Len(log) \in Nat \ {0}
      BY EmptySeq
    <2>2. Len(log) \in DOMAIN log /\ DOMAIN log = 1 .. Len(log)
      BY <2>1, SlotsOf
    <2>. QED  BY <2>1, <2>2, SlotsOf, SlotFields
  <1>1. CASE free # {}
    <2>1. PICK i \in DOMAIN log : log[i].kind = "dirty"
      BY <1>1
    <2>2. i = Len(log)
      BY <1>0, <2>1 DEF Ordered, Unreadable
    <2>. QED  BY <2>1, <2>2
  <1>2. CASE free = {}
    <2>1. FindWriteCursor(log, view) \in {log[Len(log)].end, SectorSize}
      BY <1>0, <1>2 DEF FindWriteCursor, EndOf
    <2>. QED  BY <1>0, <2>1, Sizes
  <1>. QED  BY <1>1, <1>2

LEMMA PoisonInit == ASSUME Init PROVE PoisonInv
  BY DEF Init, PoisonInv, Formats, Numbering, Collection

(* An operation that does not complete outside an append leaves the        *)
(* mounted sector's log as it was.                                         *)
LEMMA LossElsewhere ==
    ASSUME IInv, NEW m \in AfterLoss \cup AfterFailure,
           pc \notin {"header", "commit"} \cup Formats
    PROVE  m[active].log = media[active].log
  <1>0. /\ MediaOK(media) /\ active \in Sectors /\ Other(active) \in Sectors
        /\ Other(active) # active
    BY Basics
  <1>1. m = media \/ m \in Torn \/ m \in Sealing
    BY DEF AfterLoss, AfterFailure
  <1>2. CASE m \in Sealing
    <2>1. m = Sealed(Other(active), NextSequence)
      BY <1>2 DEF Sealing, Formats
    <2>. QED  BY <1>0, <2>1 DEF Sealed, MediaOK
  <1>3. CASE m \in Torn
    <2>1. CASE pc \in {"eraseTarget", "reclaim", "dropLoser"}
      <3>1. m \in TornErase(Other(active))
        BY <1>3, <2>1 DEF Torn
      <3>. QED  BY <1>0, <3>1 DEF TornErase, MediaOK
    <2>2. CASE pc = "copy"
      <3>1. \E log : m = WithLog(Other(active), log)
        BY <1>3, <2>2 DEF Torn
      <3>. QED  BY <1>0, <3>1, LogOf
    <2>. QED  BY <1>3, <2>1, <2>2 DEF Torn, Formats
  <1>. QED  BY <1>1, <1>2, <1>3

(* A collection writes to the other sector only. *)
LEMMA CollectsElsewhere ==
    ASSUME IInv, EraseTarget \/ CopyBlock \/ Reclaim \/ CollectFails
    PROVE  /\ media'[active].log = media[active].log
           /\ UNCHANGED <<initialised, active, cursor>>
           /\ Log(active)' = Log(active) /\ Writable' = Writable
           /\ Occupied(Log(active))' = Occupied(Log(active))
  <1>0. /\ MediaOK(media) /\ active \in Sectors /\ Other(active) \in Sectors
        /\ Other(active) # active
    BY Basics
  <1>1. UNCHANGED <<initialised, active, cursor>>
    BY DEF EraseTarget, CopyBlock, Reclaim, CollectFails, ram
  <1>2. /\ pc \notin {"header", "commit"} \cup Formats
        /\ \/ media' = [media EXCEPT ![Other(active)] = Erased]
           \/ media' = media \/ \E log : media' = WithLog(Other(active), log)
           \/ media' \in AfterFailure
    BY DEF EraseTarget, CopyBlock, Reclaim, CollectFails, Formats
  <1>3. media'[active].log = media[active].log
    <2>1. CASE media' = [media EXCEPT ![Other(active)] = Erased]
      BY <1>0, <2>1 DEF MediaOK
    <2>2. CASE \E log : media' = WithLog(Other(active), log)
      BY <1>0, <2>2, LogOf
    <2>3. CASE media' \in AfterFailure
      BY <1>2, <2>3, LossElsewhere
    <2>. QED  BY <1>2, <2>1, <2>2, <2>3
  <1>. QED  BY <1>1, <1>3, StaysWritable

(* Nothing is left at the cursor of a record just committed. *)
LEMMA CommitFrees == ASSUME IInv, Commit PROVE ~Occupied(Log(active))'
  <1>1. /\ pc = "commit" /\ active' = active /\ initialised /\ Fits
        /\ media' = WithLog(active, Place(Log(active), Record(FinalKind)))
        /\ cursor' = cursor + RecordSpan /\ TypeOK /\ MediaOK(media) /\ active \in Sectors
        /\ Log(active) \in Seq(Slots)
    BY Basics DEF Commit, IInv, Phases, Working, Room
  <1>2. /\ Record(FinalKind) \in Slots /\ Record(FinalKind).end = cursor'
        /\ Kept(Log(active)) \in Seq(Slots) /\ cursor' \in Int
    BY <1>1, AppendedOK, KeptIs, RecordSpanOK DEF FinalKind
  <1>3. Log(active)' = Append(Kept(Log(active)), Record(FinalKind))
    BY <1>1, LogOf DEF Log, Place
  <1>4. /\ Len(Log(active)') = Len(Kept(Log(active))) + 1
        /\ Log(active)'[Len(Kept(Log(active))) + 1] = Record(FinalKind)
    <2>. DEFINE kept == Kept(Log(active))
                slot == Record(FinalKind)
    <2>1. kept \in Seq(Slots) /\ slot \in Slots
      BY <1>2
    <2>. HIDE DEF kept, slot
    <2>2. /\ Len(Append(kept, slot)) = Len(kept) + 1
          /\ Append(kept, slot)[Len(kept) + 1] = slot
      BY <2>1, AppendProperties
    <2>. QED  BY <1>3, <2>2 DEF kept, slot
  <1>. QED  BY <1>2, <1>4 DEF Occupied

LEMMA PoisonStep ==
    ASSUME IInv, PoisonInv, "format" \notin env.calls, [Next]_vars
    PROVE  PoisonInv'
  <1>0. /\ TypeOK /\ MediaOK(media) /\ active \in Sectors /\ Other(active) \in Sectors
        /\ Other(active) # active /\ IInv'
        /\ \A s \in Sectors : Log(s) \in Seq(Slots) /\ Ordered(Log(s))
    BY Basics, NextOK
  <1>1. CASE ChooseSector
    <2>1. /\ ~initialised /\ ~initialised' /\ call' = call
          /\ pc' \in {"formatFirst", "dropLoser", "mount"}
      BY <1>1 DEF ChooseSector, IInv, Phases, Booting
    <2>. QED  BY <2>1 DEF PoisonInv, Numbering, Collection
  <1>2. CASE DropLoser
    <2>1. ~initialised /\ ~initialised' /\ pc' = "mount"
      BY <1>2 DEF DropLoser, ram, IInv, Phases, Booting
    <2>. QED  BY <2>1 DEF PoisonInv, Formats, Numbering, Collection
  <1>3. CASE Mount
    <2>1. /\ pc' = "idle" /\ UNCHANGED <<media, active>>
          /\ \E view : cursor' = FindWriteCursor(Log(active), view)
      BY <1>3 DEF Mount
    <2>2. Writable'
      BY <1>0, <2>1, CursorFound DEF Writable, Occupied, Log
    <2>. QED  BY <2>1, <2>2 DEF PoisonInv, Formats, Numbering, Collection
  <1>4. CASE FormatErase \/ FormatFails
    <2>1. /\ ~initialised /\ ~initialised'
          /\ pc' \in {"formatSecond", "formatHeader", "idle"}
      BY <1>4 DEF FormatErase, FormatFails, Finish, ram, PoisonInv, Formats
    <2>. QED  BY <2>1 DEF PoisonInv, Numbering, Collection
  <1>5. CASE FormatSeal
    <2>1. /\ pc' = "idle" /\ active' = 0 /\ media' = Sealed(0, 1) /\ Log(0) = <<>>
      BY <1>5 DEF FormatSeal, Finish, IInv, Target
    <2>2. Log(active)' = <<>>
      BY <1>0, <2>1 DEF Sealed, Log, MediaOK, SectorStates, Sectors
    <2>. QED  BY <2>1, <2>2
         DEF PoisonInv, Formats, Numbering, Collection, Writable, Occupied
  <1>6. CASE EraseTarget \/ CopyBlock
    <2>1. /\ UNCHANGED <<initialised, active, cursor, poisoned, call, cause>>
          /\ pc' \in {"copy", "seal"} /\ pc \in {"eraseTarget", "copy"}
      BY <1>6 DEF EraseTarget, CopyBlock, ram
    <2>2. Writable' = Writable
      BY <1>6, CollectsElsewhere
    <2>. QED  BY <2>1, <2>2 DEF PoisonInv, Formats, Numbering, Collection
  <1>7. CASE Seal
    <2>1. /\ UNCHANGED <<initialised, poisoned, call, cause>> /\ active' = Other(active)
          /\ pc' = "reclaim" /\ pc = "seal" /\ cursor' = copyEnd
          /\ media' = Sealed(Other(active), NextSequence)
      BY <1>7 DEF Seal, gc
    <2>2. Log(active)' = Log(Other(active))
      BY <1>0, <2>1 DEF Sealed, Log, MediaOK, SectorStates
    <2>3. /\ \A i \in DOMAIN Log(Other(active)) : Log(Other(active))[i].end <= copyEnd
          /\ copyEnd \in Int
      BY <1>0, <2>1, Sizes DEF IInv, Target, TypeOK
    <2>4. ~(Log(Other(active)) # <<>> /\ Log(Other(active))[Len(Log(Other(active)))].end > copyEnd)
      <3>. DEFINE log == Log(Other(active))
      <3>1. log \in Seq(Slots) /\ \A i \in DOMAIN log : log[i].end <= copyEnd
        BY <1>0, <2>3
      <3>. HIDE DEF log
      <3>2. ASSUME log # <<>>
            PROVE  ~(log[Len(log)].end > copyEnd)
        <4>1. Len(log) \in DOMAIN log
          <5>1. Len(log) \in Nat \ {0}
            BY <3>1, <3>2, EmptySeq
          <5>. QED  BY <3>1, <5>1, SlotsOf
        <4>2. log[Len(log)].end \in Int
          BY <3>1, <4>1, SlotsOf, SlotFields
        <4>. QED  BY <2>3, <3>1, <4>1, <4>2
      <3>. QED  BY <3>2 DEF log
    <2>5. Writable'
      BY <2>1, <2>2, <2>4 DEF Writable, Occupied
    <2>. QED  BY <2>1, <2>5 DEF PoisonInv, Formats, Numbering, Collection
  <1>8. CASE Reclaim
    <2>1. /\ UNCHANGED <<initialised, active, cursor>> /\ pc = "reclaim"
          /\ poisoned' = (poisoned /\ cause # "poison")
          /\ pc' \in {"idle", "admit", "number", "header"}
          /\ call' \in {call, NoCall}
      BY <1>0, <1>8 DEF Reclaim, Finish, TypeOK
    <2>3. Writable'
      BY <1>8, <2>1, CollectsElsewhere DEF PoisonInv
    <2>4. ASSUME call'.kind = "write"
          PROVE  ~poisoned'
      <3>1. call.kind = "write"
        BY <2>1, <2>4 DEF NoCall
      <3>2. cause # "poison" => ~poisoned
        BY <2>1, <3>1 DEF PoisonInv, Collection
      <3>. QED  BY <2>1, <3>2
    <2>. QED  BY <2>1, <2>3, <2>4 DEF PoisonInv, Formats, Numbering, Collection
  <1>9. CASE CollectFails
    <2>1. /\ UNCHANGED <<initialised, active, cursor, poisoned>> /\ pc' = "idle"
          /\ pc \in Collection
      BY <1>9 DEF CollectFails, Finish, ram, Collection
    <2>3. Writable' = Writable
      BY <1>9, CollectsElsewhere
    <2>. QED  BY <2>1, <2>3 DEF PoisonInv, Formats, Numbering, Collection
  <1>10. CASE Admit \/ Number
    <2>1. /\ UNCHANGED <<media, initialised, active, cursor, poisoned, call>>
          /\ pc \in {"admit", "number"} /\ pc' \in {"eraseTarget", "number", "header"}
      BY <1>10 DEF Admit, Number, Collect, ram
    <2>2. Writable' = Writable
      BY <2>1, StaysWritable
    <2>. QED  BY <2>1, <2>2 DEF PoisonInv, Formats, Numbering, Collection
  <1>11. CASE AppendHeader \/ AppendPayload
    <2>1. /\ UNCHANGED <<poisoned, call>> /\ pc \in {"header", "payload"}
          /\ pc' \in {"payload", "commit"}
      BY <1>11 DEF AppendHeader, AppendPayload, ram, IInv, Room
    <2>. QED  BY <2>1 DEF PoisonInv, Formats, Numbering, Collection
  <1>12. CASE Commit
    <2>1. pc' = "idle" /\ Writable'
      BY <1>12, CommitFrees DEF Commit, Finish, Writable
    <2>. QED  BY <2>1 DEF PoisonInv, Formats, Numbering, Collection
  <1>13. CASE AppendFails
    BY <1>13 DEF AppendFails, Finish, PoisonInv, Formats, Numbering, Collection
  <1>14. CASE Calling
    <2>1. /\ UNCHANGED <<media, initialised, active, cursor, poisoned>> /\ pc = "idle"
          /\ \/ pc' = "idle"
             \/ pc' = "admit" /\ (call'.kind = "write" => ~poisoned)
             \/ pc' = "eraseTarget" /\ (call'.kind = "write" => cause' = "poison")
      BY <1>14 DEF Calling, ReadBlock, InvalidateBlock, WriteBlock, GarbageCollect, Format,
                   Refuse, Ready, Collect, ram, NoCall
    <2>2. Writable' = Writable
      BY <2>1, StaysWritable
    <2>. QED  BY <2>1, <2>2 DEF PoisonInv, Formats, Numbering, Collection
  <1>15. CASE PowerLoss
    BY <1>15 DEF PowerLoss, PoisonInv, Formats, Numbering, Collection
  <1>16. CASE Rot
    <2>1. /\ UNCHANGED <<initialised, active, cursor, poisoned>>
          /\ pc' = pc /\ pc \in {"idle", "off"}
      BY <1>16 DEF Rot, ram
    <2>2. Writable => Writable'
      <3>1. PICK s \in Sectors : \E i \in DOMAIN Log(s) :
              /\ \A r \in Sectors : r # s => media'[r] = media[r]
              /\ Log(s)[i].kind = "valid"
              /\ Len(media'[s].log) = Len(Log(s)) /\ DOMAIN media'[s].log = DOMAIN Log(s)
              /\ \A j \in DOMAIN Log(s) :
                    /\ j # i => media'[s].log[j] = Log(s)[j]
                    /\ media'[s].log[j].end = Log(s)[j].end
        BY <1>16, RotIs
      <3>2. CASE s # active
        BY <1>0, <2>1, <3>1, <3>2, StaysWritable
      <3>3. CASE s = active /\ Log(active) # <<>>
        <4>1. Len(Log(active)) \in DOMAIN Log(active)
          <5>1. Len(Log(active)) \in Nat \ {0}
            BY <1>0, <3>3, EmptySeq
          <5>. QED  BY <1>0, <5>1, SlotsOf
        <4>. QED  BY <2>1, <3>1, <3>3, <4>1 DEF Writable, Occupied, Log
      <3>4. CASE s = active /\ Log(active) = <<>>
        BY <3>1, <3>4, EmptyLog
      <3>. QED  BY <3>2, <3>3, <3>4
    <2>. QED  BY <2>1, <2>2 DEF PoisonInv, Formats, Numbering, Collection
  <1>17. CASE UNCHANGED vars
    BY <1>17, StaysWritable DEF vars, PoisonInv
  <1>. QED  BY <1>1, <1>2, <1>3, <1>4, <1>5, <1>6, <1>7, <1>8, <1>9, <1>10, <1>11, <1>12, <1>13,
               <1>14, <1>15, <1>16, <1>17
       DEF Next, Starting, Formatting, Collecting, Appending

(* Fee_WriteBlock never sends a record to a slot that already holds        *)
(* another header: the damage a failed append left at the cursor           *)
(* (Fee_SlotPoisoned) is collected away first, also across restarts and    *)
(* failed collections.                                                     *)
THEOREM DamageIsReclaimedFirst ==
    Spec => []("format" \notin env.calls => DamageReclaimedFirst)
  <1>. DEFINE Inv == IInv /\ ("format" \notin env.calls => PoisonInv)
  <1>1. Init => Inv
    BY InitOK, PoisonInit
  <1>2. Inv /\ [Next]_vars => Inv'
    <2>1. ASSUME Inv, [Next]_vars
          PROVE  Inv'
      BY <2>1, NextOK, SameEnvironment, PoisonStep
    <2>. QED  BY <2>1
  <1>3. Inv => ("format" \notin env.calls => DamageReclaimedFirst)
    BY DEF PoisonInv, DamageReclaimedFirst, Numbering, IInv, Phases, Working
  <1>. QED  BY <1>1, <1>2, <1>3, PTL DEF Spec
-----------------------------------------------------------------------------
(***************************************************************************)
(* What a log says of a block.                                             *)
(***************************************************************************)
Good(log) == log \in Seq(Slots) /\ Ordered(log) /\ Fresh(log)
Plain(v) == IF v = Stub THEN Absent ELSE v
(* Slot i of the log stores a value of block b, or retires the block. *)
Decides(log, b, i) ==
    i \in DOMAIN log /\ log[i].blk = b /\ log[i].kind \in {"valid", "invalid"}
Meaning(slot) == IF slot.kind = "valid" THEN Plain(slot.val) ELSE Absent

(* A block reads as its newest record that verifies, if there is one. *)
LEMMA UsableFound ==
    ASSUME NEW log \in Seq(Slots), NEW b
    PROVE  LET found == FindNewestRecord(log, b, Clean)
           IN  /\ Usable(log, b) = IF found = {} THEN Absent
                                   ELSE Plain(log[CHOOSE i \in found : TRUE].val)
               /\ Usable(log, b) \in Values \cup {Absent}
               /\ ReadValue(log, b, Clean) \in {Usable(log, b), Damaged}
               /\ ReadValue(log, b, Clean) = Damaged => Usable(log, b) = Absent
  <1>. DEFINE found == FindNewestRecord(log, b, Clean)
              v == log[CHOOSE i \in found : TRUE].val
  <1>1. CASE found = {}
    <2>1. ReadValue(log, b, Clean) \in {Damaged, Absent}
      BY <1>1 DEF ReadValue
    <2>. QED  BY <1>1, <2>1 DEF Usable
  <1>2. CASE found # {}
    <2>1. v \in Values \cup {Stub}
      <3>1. PICK i \in found : i = CHOOSE j \in found : TRUE
        BY <1>2
      <3>2. i \in DOMAIN log
        BY <3>1, NewestOK
      <3>. QED  BY <3>1, <3>2, SlotsOf, SlotFields
    <2>2. v # Damaged /\ Absent # Damaged
      BY <2>1, FeeAssumption
    <2>3. ReadValue(log, b, Clean) = IF v = Stub THEN Damaged ELSE v
      BY <1>2 DEF ReadValue
    <2>. HIDE DEF v
    <2>4. Usable(log, b) = Plain(v)
      BY <2>2, <2>3 DEF Usable, Plain
    <2>5. Plain(v) \in Values \cup {Absent}
      BY <2>1 DEF Plain
    <2>. QED  BY <1>2, <2>2, <2>3, <2>4, <2>5 DEF Usable, v
  <1>. QED  BY <1>1, <1>2

(* The last slot that decides a block says what the block holds. *)
LEMMA UsableIs ==
    ASSUME NEW log, Good(log), NEW b
    PROVE  /\ \A top : /\ Decides(log, b, top)
                       /\ \A i : Decides(log, b, i) => i <= top
                       => Usable(log, b) = Meaning(log[top])
           /\ (\A i : ~Decides(log, b, i)) => Usable(log, b) = Absent
  <1>. DEFINE valids == {i \in DOMAIN log : log[i].blk = b /\ log[i].kind \in {"valid"}}
              invalids == {i \in DOMAIN log : log[i].blk = b /\ log[i].kind \in {"invalid"}}
              found == FindNewestRecord(log, b, Clean)
  <1>1. log \in Seq(Slots) /\ Ordered(log) /\ Fresh(log)
    BY DEF Good
  <1>2. /\ OfKind(log, b, {"valid"}, Clean) = valids
        /\ OfKind(log, b, {"invalid"}, Clean) = invalids
    <2>1. {"valid"} \in SUBSET WellFormed /\ {"invalid"} \in SUBSET WellFormed
      BY DEF WellFormed
    <2>. HIDE DEF WellFormed
    <2>. QED  BY <1>1, <2>1, CleanScan
  <1>3. valids \ Clean.unread = valids
    BY DEF Clean
  <1>. HIDE DEF valids, invalids
  <1>4. found = {i \in Winner(log, valids) :
                    \A r \in invalids : ~Newer(log[r].counter, log[i].counter, CounterMod)}
    BY <1>2, <1>3 DEF FindNewestRecord
  <1>5. /\ \A i \in valids : Decides(log, b, i) /\ log[i].kind = "valid"
        /\ \A i \in invalids : Decides(log, b, i) /\ log[i].kind = "invalid"
        /\ \A i : Decides(log, b, i) => i \in valids \/ i \in invalids
    BY DEF valids, invalids, Decides
  <1>6. valids = {} => Usable(log, b) = Absent
    <2>1. valids = {} => found = {}
      BY <1>4 DEF Winner
    <2>. QED  BY <1>1, <2>1, UsableFound
  <1>7. ASSUME NEW last \in valids, \A i \in valids : i <= last
        PROVE  Winner(log, valids) = {last}
    <2>1. \A i \in valids : /\ i \in DOMAIN log /\ i <= last
                           /\ log[i].kind \in WellFormed /\ log[i].blk = log[last].blk
      BY <1>7 DEF valids, WellFormed
    <2>. QED  BY <1>1, <1>7, <2>1, LastWins
  <1>8. ASSUME NEW top, Decides(log, b, top), \A i : Decides(log, b, i) => i <= top
        PROVE  Usable(log, b) = Meaning(log[top])
    <2>1. /\ top \in DOMAIN log /\ log[top].blk = b /\ log[top].kind \in WellFormed
          /\ \A i : Decides(log, b, i) => i \in Int /\ top \in Int
      BY <1>1, <1>8, SlotsOf DEF Decides, WellFormed
    <2>2. CASE top \in valids
      <3>1. Winner(log, valids) = {top}
        BY <1>5, <1>7, <1>8, <2>2
      <3>2. ASSUME NEW r \in invalids
            PROVE  ~Newer(log[r].counter, log[top].counter, CounterMod)
        <4>1. Decides(log, b, r) /\ r <= top /\ r # top
          BY <1>5, <1>8, <2>2, <3>2
        <4>2. r < top /\ r \in DOMAIN log /\ log[r].kind \in WellFormed /\ log[r].blk = b
          BY <2>1, <4>1 DEF Decides, WellFormed
        <4>. QED  BY <1>1, <2>1, <4>2, LaterIsNewer
      <3>3. found = {top}
        BY <1>4, <3>1, <3>2
      <3>4. (CHOOSE i \in {top} : TRUE) = top
        OBVIOUS
      <3>5. Usable(log, b) = Plain(log[top].val)
        BY <1>1, <3>3, <3>4, UsableFound
      <3>. QED  BY <1>5, <2>2, <3>5 DEF Meaning
    <2>3. CASE top \in invalids
      <3>1. CASE valids = {}
        BY <1>5, <1>6, <2>3, <3>1 DEF Meaning
      <3>2. CASE valids # {}
        <4>1. PICK last \in valids : \A i \in valids : i <= last
          <5>1. valids \subseteq 1 .. Len(log) /\ Len(log) \in Nat
            BY <1>1, SlotsOf DEF valids
          <5>. QED  BY <3>2, <5>1, LastExists
        <4>2. Winner(log, valids) = {last}
          BY <1>7, <4>1
        <4>3. Decides(log, b, last) /\ last <= top /\ last # top
          BY <1>5, <1>8, <2>3, <4>1
        <4>4. /\ last < top /\ last \in DOMAIN log /\ log[last].kind \in WellFormed
              /\ log[last].blk = b
          BY <2>1, <4>3 DEF Decides, WellFormed
        <4>5. Newer(log[top].counter, log[last].counter, CounterMod)
          BY <1>1, <2>1, <4>4, LaterIsNewer
        <4>6. found = {}
          BY <1>4, <2>3, <4>2, <4>5
        <4>. QED  BY <1>1, <1>5, <2>3, <4>6, UsableFound DEF Meaning
      <3>. QED  BY <3>1, <3>2
    <2>. QED  BY <1>5, <1>8, <2>2, <2>3
  <1>9. ASSUME \A i : ~Decides(log, b, i)
        PROVE  Usable(log, b) = Absent
    BY <1>5, <1>6, <1>9
  <1>. QED  BY <1>8, <1>9

(* Logs whose slots decide a block alike read alike. *)
LEMMA UsableSame ==
    ASSUME NEW log, Good(log), NEW new, Good(new), NEW b,
           \A i : Decides(log, b, i) <=> Decides(new, b, i),
           \A i : Decides(log, b, i) => Meaning(log[i]) = Meaning(new[i])
    PROVE  Usable(new, b) = Usable(log, b)
  <1>1. CASE \A i : ~Decides(log, b, i)
    BY <1>1, UsableIs
  <1>2. CASE \E i : Decides(log, b, i)
    <2>. DEFINE D == {i \in DOMAIN log : Decides(log, b, i)}
    <2>1. D \subseteq 1 .. Len(log) /\ Len(log) \in Nat /\ D # {}
      BY <1>2, SlotsOf DEF Good, Decides
    <2>2. PICK top \in D : \A i \in D : i <= top
      <3>. HIDE DEF D
      <3>. QED  BY <2>1, LastExists
    <2>3. Decides(log, b, top) /\ \A i : Decides(log, b, i) => i <= top
      BY <2>2 DEF Decides
    <2>4. Usable(log, b) = Meaning(log[top])
      BY <2>3, UsableIs
    <2>5. Usable(new, b) = Meaning(new[top])
      BY <2>3, UsableIs
    <2>. QED  BY <2>3, <2>4, <2>5
  <1>. QED  BY <1>1, <1>2

LEMMA UsableAppend ==
    ASSUME NEW log, Good(log), NEW slot \in Slots, Good(Append(log, slot)), NEW b
    PROVE  Usable(Append(log, slot), b)
             = IF slot.blk = b /\ slot.kind \in {"valid", "invalid"}
               THEN Meaning(slot) ELSE Usable(log, b)
  <1>. DEFINE new == Append(log, slot)
              n == Len(log) + 1
  <1>1. /\ n \in Int /\ DOMAIN new = 1 .. n /\ new[n] = slot
        /\ DOMAIN log = 1 .. n - 1 /\ n \in 1 .. n
        /\ \A i \in DOMAIN log : i \in DOMAIN new /\ new[i] = log[i]
        /\ \A i \in DOMAIN new : i \in Int /\ i <= n /\ (i \in DOMAIN log \/ i = n)
    <2>1. log \in Seq(Slots) /\ Len(log) \in Nat
      BY LenProperties DEF Good
    <2>2. /\ new \in Seq(Slots) /\ Len(new) = Len(log) + 1
          /\ \A i \in 1 .. Len(log) : new[i] = log[i]
          /\ new[Len(log) + 1] = slot
      BY <2>1, AppendProperties
    <2>3. DOMAIN new = 1 .. n /\ DOMAIN log = 1 .. Len(log)
      BY <2>1, <2>2, LenProperties
    <2>. QED  BY <2>1, <2>2, <2>3
  <1>2. Good(new)
    OBVIOUS
  <1>. HIDE DEF new, n
  <1>3. CASE slot.blk = b /\ slot.kind \in {"valid", "invalid"}
    <2>1. Decides(new, b, n) /\ \A i : Decides(new, b, i) => i <= n
      BY <1>1, <1>3 DEF Decides
    <2>2. Usable(new, b) = Meaning(new[n])
      BY <1>2, <2>1, UsableIs
    <2>. QED  BY <1>1, <1>3, <2>2 DEF new
  <1>4. CASE ~(slot.blk = b /\ slot.kind \in {"valid", "invalid"})
    <2>1. n \notin DOMAIN log
      BY <1>1
    <2>2. \A i : Decides(log, b, i) <=> Decides(new, b, i)
      BY <1>1, <1>4, <2>1 DEF Decides
    <2>3. \A i : Decides(log, b, i) => Meaning(log[i]) = Meaning(new[i])
      BY <1>1 DEF Decides
    <2>4. Usable(new, b) = Usable(log, b)
      BY <1>2, <2>2, <2>3, UsableSame
    <2>. QED  BY <1>4, <2>4 DEF new
  <1>. QED  BY <1>3, <1>4

(* The slot at the cursor is not a committed one: another may take its     *)
(* place.                                                                  *)
Replaceable(log) == Occupied(log) => log[Len(log)].kind \notin {"valid", "invalid"}

LEMMA UsablePlace ==
    ASSUME NEW log, Good(log), NEW slot \in Slots, Good(Place(log, slot)),
           Ordered(Kept(log)), Replaceable(log), NEW b
    PROVE  Usable(Place(log, slot), b)
             = IF slot.blk = b /\ slot.kind \in {"valid", "invalid"}
               THEN Meaning(slot) ELSE Usable(log, b)
  <1>. DEFINE kept == Kept(log)
  <1>1. /\ log \in Seq(Slots) /\ kept \in Seq(Slots) /\ Good(kept)
        /\ \A i \in DOMAIN kept : i \in DOMAIN log /\ kept[i] = log[i]
    BY KeptIs, FreshKept DEF Good
  <1>2. ASSUME NEW i, Decides(log, b, i)
        PROVE  i \in DOMAIN kept
    <2>1. CASE ~Occupied(log)
      BY <1>1, <1>2, <2>1, KeptIs DEF Decides
    <2>2. CASE Occupied(log)
      <3>1. i # Len(log) /\ i \in 1 .. Len(log) /\ Len(log) \in Nat
        BY <1>1, <1>2, <2>2, SlotsOf DEF Decides, Replaceable
      <3>2. DOMAIN kept = 1 .. Len(log) - 1
        BY <1>1, <2>2, KeptIs
      <3>. QED  BY <3>1, <3>2
    <2>. QED  BY <2>1, <2>2
  <1>. HIDE DEF kept
  <1>3. \A i : Decides(log, b, i) <=> Decides(kept, b, i)
    BY <1>1, <1>2 DEF Decides
  <1>4. \A i : Decides(log, b, i) => Meaning(log[i]) = Meaning(kept[i])
    BY <1>1, <1>2
  <1>5. Usable(kept, b) = Usable(log, b)
    BY <1>1, <1>3, <1>4, UsableSame
  <1>6. Place(log, slot) = Append(kept, slot)
    BY DEF Place, kept
  <1>7. Usable(Append(kept, slot), b)
             = IF slot.blk = b /\ slot.kind \in {"valid", "invalid"}
               THEN Meaning(slot) ELSE Usable(kept, b)
    BY <1>1, <1>6, UsableAppend
  <1>. QED  BY <1>5, <1>6, <1>7
-----------------------------------------------------------------------------
(***************************************************************************)
(* What the next start reads from media m.                                 *)
(***************************************************************************)
BootOf(m) ==
    LET good == {s \in Sectors : m[s].header # NoHeader}
        wins == {s \in good :
                   Other(s) \in good => Newer(m[s].header, m[Other(s)].header, SequenceMod)}
        logs == {m[s].log : s \in wins}
    IN  [b \in Blocks |->
            IF logs = {} THEN Absent
            ELSE CHOOSE v \in {Usable(log, b) : log \in logs} : TRUE]

LEMMA BootIs == BootValues = BootOf(media) /\ BootValues' = BootOf(media')
  BY DEF BootValues, BootLogs, BootSectors, BootOf, Log

(* Sector a has a header, and the other one an older header or none. *)
Wins(m, a) ==
    /\ a \in Sectors /\ m[a].header \in Sequences
    /\ m[Other(a)].header # NoHeader =>
          m[Other(a)].header \in Sequences /\ m[a].header = Successor(m[Other(a)].header)
Unsealed(m) == \A s \in Sectors : m[s].header = NoHeader

LEMMA BootWins ==
    ASSUME NEW m, NEW a, Wins(m, a)
    PROVE  BootOf(m) = [b \in Blocks |-> Usable(m[a].log, b)]
  <1>. DEFINE good == {s \in Sectors : m[s].header # NoHeader}
              wins == {s \in good :
                   Other(s) \in good => Newer(m[s].header, m[Other(s)].header, SequenceMod)}
              logs == {m[s].log : s \in wins}
  <1>1. /\ a \in Sectors /\ Other(a) \in Sectors /\ Other(Other(a)) = a
        /\ \A s \in Sectors : s = a \/ s = Other(a)
        /\ m[a].header # NoHeader
    BY DEF Wins, Sectors, Other, Sequences, NoHeader
  <1>2. m[Other(a)].header # NoHeader =>
           /\ Newer(m[a].header, m[Other(a)].header, SequenceMod)
           /\ ~Newer(m[Other(a)].header, m[a].header, SequenceMod)
    BY SuccessorIsNewer DEF Wins
  <1>3. wins = {a}
    BY <1>1, <1>2
  <1>. HIDE DEF wins
  <1>4. logs = {m[a].log}
    BY <1>3
  <1>. HIDE DEF logs
  <1>5. \A b : (CHOOSE v \in {Usable(log, b) : log \in logs} : TRUE) = Usable(m[a].log, b)
    <2>1. ASSUME NEW b
          PROVE  {Usable(log, b) : log \in logs} = {Usable(m[a].log, b)}
      BY <1>4
    <2>2. \A v : (CHOOSE w \in {v} : TRUE) = v
      OBVIOUS
    <2>. QED  BY <2>1, <2>2
  <1>6. logs # {}
    BY <1>4
  <1>7. BootOf(m) = [b \in Blocks |->
            IF logs = {} THEN Absent
            ELSE CHOOSE v \in {Usable(log, b) : log \in logs} : TRUE]
    BY DEF BootOf, logs, wins
  <1>. QED  BY <1>5, <1>6, <1>7

LEMMA BootUnsealed ==
    ASSUME NEW m, Unsealed(m)
    PROVE  BootOf(m) = [b \in Blocks |-> Absent]
  <1>. DEFINE good == {s \in Sectors : m[s].header # NoHeader}
              wins == {s \in good :
                   Other(s) \in good => Newer(m[s].header, m[Other(s)].header, SequenceMod)}
              logs == {m[s].log : s \in wins}
  <1>1. logs = {}
    BY DEF Unsealed
  <1>. HIDE DEF logs
  <1>2. BootOf(m) = [b \in Blocks |->
            IF logs = {} THEN Absent
            ELSE CHOOSE v \in {Usable(log, b) : log \in logs} : TRUE]
    BY DEF BootOf, logs
  <1>. QED  BY <1>1, <1>2

(* The mounted sector is the one a start picks; a format starts on media   *)
(* no start could read. *)
LEMMA Sealings ==
    ASSUME IInv, SealInv
    PROVE  /\ initialised \/ pc \in {"dropLoser", "mount"} => Wins(media, active)
           /\ pc \in Formats => Unsealed(media) /\ ~initialised
           /\ Unsealed(media) \/ \E a \in Sectors : Wins(media, a)
  <1>0. /\ active \in Sectors /\ Other(active) \in Sectors
        /\ \A s \in Sectors : Other(s) \in Sectors /\ Other(Other(s)) = s
        /\ \A s \in Sectors : media[s].header \in Sequences \cup {NoHeader}
        /\ sequence \in Sequences /\ NoHeader \notin Sequences
    BY Basics DEF Sectors, Other, TypeOK, Sequences, NoHeader
  <1>1. initialised \/ pc \in {"dropLoser", "mount"} => Wins(media, active)
    BY <1>0 DEF SealInv, Wins, Header
  <1>2. pc \in Formats => Unsealed(media) /\ ~initialised
    BY DEF SealInv, Formats, Unsealed, Blank, Header
  <1>3. Unsealed(media) \/ \E a \in Sectors : Wins(media, a)
    <2>1. SUFFICES ASSUME NEW s \in Sectors, media[s].header # NoHeader
                   PROVE  \E a \in Sectors : Wins(media, a)
      BY DEF Unsealed
    <2>2. CASE media[Other(s)].header = NoHeader
      BY <1>0, <2>1, <2>2 DEF Wins
    <2>3. CASE media[Other(s)].header # NoHeader
      <3>1. \/ media[s].header = Successor(media[Other(s)].header)
            \/ media[Other(s)].header = Successor(media[s].header)
        BY <1>0, <2>1, <2>3 DEF SealInv, Header
      <3>2. Wins(media, s) \/ Wins(media, Other(s))
        BY <1>0, <2>1, <2>3, <3>1 DEF Wins
      <3>. QED  BY <1>0, <3>2
    <2>. QED  BY <2>2, <2>3
  <1>. QED  BY <1>1, <1>2, <1>3

(* A sector that goes on winning, or hands over to one that reads alike.   *)
LEMMA BootSame ==
    ASSUME NEW m, NEW a, Wins(m, a), NEW n, NEW c, Wins(n, c),
           \A b \in Blocks : Usable(n[c].log, b) = Usable(m[a].log, b)
    PROVE  BootOf(n) = BootOf(m)
  BY BootWins

LEMMA StillWins ==
    ASSUME NEW m, NEW a, Wins(m, a), NEW n, n[a].header = m[a].header,
           n[Other(a)].header \in {m[Other(a)].header, NoHeader}
    PROVE  Wins(n, a)
  BY DEF Wins
-----------------------------------------------------------------------------
(***************************************************************************)
(* The invariant of the refinement: which call is in progress, that a      *)
(* record never takes the place of a committed one, and that the copy made *)
(* by a collection reads as the original does.                             *)
(***************************************************************************)
(* The faults and calls of the theorem.  An invalidation does not reclaim  *)
(* a damaged slot, so one made after a failed program operation could      *)
(* write over a record that landed in spite of the failure.                *)
Trusted ==
    /\ Dependable
    /\ "invalidate" \in env.calls => "program" \notin env.faults

CallInv ==
    /\ pc \in {"idle", "off", "mount", "dropLoser"} \cup Formats => call.kind = "none"
    /\ pc \in {"admit"} \cup Numbering => call.kind \in {"write", "invalidate"}
    /\ pc \in Collection =>
          IF cause = "direct" THEN call.kind = "collect"
          ELSE call.kind \in {"write", "invalidate"}
    /\ call.kind = "write" => call.val \in Values
    /\ call.kind = "invalidate" => "invalidate" \in env.calls
Spare == initialised /\ "program" \notin env.faults => Replaceable(Log(active))
Copied ==
    /\ pc \in {"copy", "seal"} =>
          \A b \in Blocks : b < copying =>
             Usable(Log(Other(active)), b) = Usable(Log(active), b)
    /\ pc = "seal" => copying = NBlocks + 1

ValueInv == CallInv /\ Spare /\ Copied
Sound == IInv /\ SealInv /\ AgeInv /\ PoisonInv /\ ValueInv

LEMMA ValueInit == ASSUME Init PROVE ValueInv
  BY DEF Init, ValueInv, CallInv, Spare, Copied, NoCall, Formats, Numbering, Collection

LEMMA CallStep ==
    ASSUME Sound, Trusted, [Next]_vars
    PROVE  CallInv'
  <1>0. /\ TypeOK /\ CallInv /\ env' = env
        /\ pc \in Formats => ~initialised
    BY Basics, SameEnvironment DEF Sound, ValueInv, PoisonInv
  <1>f. ASSUME NEW answer, Finish(answer)
        PROVE  CallInv'
    BY <1>f DEF Finish, CallInv, NoCall, Formats, Numbering, Collection
  <1>1. CASE Starting
    <2>1. /\ pc \in {"off", "dropLoser", "mount"} /\ UNCHANGED call
          /\ pc' \in {"formatFirst", "dropLoser", "mount", "idle"}
      BY <1>1 DEF Starting, ChooseSector, DropLoser, Mount
    <2>. QED  BY <1>0, <2>1 DEF CallInv, Formats, Numbering, Collection
  <1>2. CASE FormatErase
    <2>1. pc \in Formats /\ UNCHANGED call /\ pc' \in Formats
      BY <1>2 DEF FormatErase, Formats
    <2>. QED  BY <1>0, <2>1 DEF CallInv, Formats, Numbering, Collection
  <1>3. CASE FormatSeal \/ FormatFails \/ CollectFails \/ Commit \/ AppendFails
    BY <1>3, <1>f DEF FormatSeal, FormatFails, CollectFails, Commit, AppendFails
  <1>4. CASE EraseTarget \/ CopyBlock \/ Seal
    <2>1. /\ pc \in Collection /\ UNCHANGED <<call, cause>> /\ pc' \in Collection
      BY <1>4 DEF EraseTarget, CopyBlock, Seal, Collection, gc
    <2>. QED  BY <1>0, <2>1 DEF CallInv, Formats, Numbering, Collection
  <1>5. CASE Reclaim
    <2>1. CASE cause = "direct"
      BY <1>5, <1>f, <2>1 DEF Reclaim
    <2>2. CASE cause # "direct"
      <3>1. /\ pc = "reclaim" /\ UNCHANGED call /\ pc' \in {"admit", "number", "header"}
        BY <1>0, <1>5, <2>2 DEF Reclaim, TypeOK
      <3>. QED  BY <1>0, <2>2, <3>1 DEF CallInv, Formats, Numbering, Collection
    <2>. QED  BY <2>1, <2>2
  <1>6. CASE Admit \/ Number \/ AppendPayload
    <2>1. /\ pc \in {"admit"} \cup Numbering /\ UNCHANGED call
          /\ pc' \in Numbering \/ (pc' = "eraseTarget" /\ cause' # "direct")
      BY <1>6 DEF Admit, Number, AppendPayload, Collect, Numbering
    <2>. QED  BY <1>0, <2>1 DEF CallInv, Formats, Numbering, Collection
  <1>7. CASE AppendHeader
    <2>1. pc = "header" /\ UNCHANGED call /\ pc' = "payload"
      BY <1>7 DEF AppendHeader, Sound, IInv, Room
    <2>. QED  BY <1>0, <2>1 DEF CallInv, Formats, Numbering, Collection
  <1>8. CASE \E b \in Blocks : ReadBlock(b)
    BY <1>0, <1>8 DEF ReadBlock, CallInv, gc
  <1>9. CASE \E b \in Blocks : InvalidateBlock(b)
    BY <1>0, <1>9 DEF InvalidateBlock, Ready, CallInv, Formats, Numbering, Collection
  <1>10. CASE \E b \in Blocks, v \in Values : WriteBlock(b, v)
    BY <1>0, <1>10 DEF WriteBlock, Ready, Collect, CallInv, Formats, Numbering, Collection
  <1>11. CASE GarbageCollect
    BY <1>0, <1>11 DEF GarbageCollect, Collect, NoCall, CallInv, Formats, Numbering, Collection
  <1>12. CASE Format
    BY <1>12 DEF Format, Ready, Trusted, Dependable
  <1>13. CASE Refuse
    BY <1>0, <1>13 DEF Refuse, CallInv, gc
  <1>14. CASE PowerLoss
    BY <1>14 DEF PowerLoss, CallInv, NoCall, Formats, Numbering, Collection
  <1>15. CASE Rot
    BY <1>0, <1>15 DEF Rot, CallInv, gc
  <1>16. CASE UNCHANGED vars
    BY <1>0, <1>16 DEF vars, CallInv
  <1>. QED  BY <1>1, <1>2, <1>3, <1>4, <1>5, <1>6, <1>7, <1>8, <1>9, <1>10, <1>11, <1>12, <1>13,
               <1>14, <1>15, <1>16
       DEF Next, Formatting, Collecting, Appending, Calling

(* A record is written over nothing but an uncommitted one. *)
LEMMA RecordsSpared ==
    ASSUME Sound, Trusted, pc \in {"header", "payload", "commit"}
    PROVE  Replaceable(Log(active))
  <1>0. initialised /\ pc \in Numbering /\ call.kind \in {"write", "invalidate"}
    BY DEF Sound, IInv, Phases, Working, Numbering, ValueInv, CallInv
  <1>1. CASE pc \in {"payload", "commit"}
    <2>1. Pending
      BY <1>1 DEF Sound, AgeInv
    <2>. QED  BY <2>1 DEF Pending, Record, Replaceable
  <1>2. CASE pc = "header" /\ call.kind = "write"
    <2>1. Writable
      BY <1>0, <1>2 DEF Sound, PoisonInv
    <2>. QED  BY <2>1 DEF Writable, Replaceable
  <1>3. CASE pc = "header" /\ call.kind = "invalidate"
    BY <1>0, <1>3 DEF Sound, ValueInv, CallInv, Spare, Trusted
  <1>. QED  BY <1>0, <1>1, <1>2, <1>3

(* A slot written at the cursor reads as itself when it is committed, and  *)
(* as nothing new when it is not. *)
LEMMA PlaceReads ==
    ASSUME Sound, Trusted, pc \in {"header", "commit"}, NEW slot \in Slots,
           slot.end = cursor + RecordSpan, Fresh(Place(Log(active), slot)),
           NEW b
    PROVE  LET m == WithLog(active, Place(Log(active), slot))
           IN  Usable(m[active].log, b)
                 = IF slot.blk = b /\ slot.kind \in {"valid", "invalid"}
                   THEN Meaning(slot) ELSE Usable(media[active].log, b)
  <1>. DEFINE log == Log(active)
  <1>1. /\ TypeOK /\ MediaOK(media) /\ active \in Sectors /\ log \in Seq(Slots)
        /\ Ordered(log) /\ Behind(log, cursor) /\ Fits
        /\ Fresh(log)
    BY Basics DEF Sound, IInv, Phases, Working, Room, AgeInv
  <1>2. cursor < SectorSize /\ cursor < slot.end
    BY <1>1, AppendedOK
  <1>3. WithLog(active, Place(log, slot))[active].log = Place(log, slot)
    BY <1>1, LogOf
  <1>4. Replaceable(log)
    BY RecordsSpared
  <1>5. log = media[active].log /\ Fresh(Place(log, slot))
    BY DEF Log
  <1>. HIDE DEF log
  <1>6. Good(log) /\ Good(Place(log, slot)) /\ Ordered(Kept(log))
    BY <1>1, <1>2, <1>5, PlaceOK, KeptOK DEF Good
  <1>7. Usable(Place(log, slot), b)
             = IF slot.blk = b /\ slot.kind \in {"valid", "invalid"}
               THEN Meaning(slot) ELSE Usable(log, b)
    BY <1>4, <1>6, UsablePlace
  <1>. QED  BY <1>3, <1>5, <1>7 DEF log

(* What a failed or interrupted append leaves at the cursor. *)
LEMMA AppendDebris ==
    ASSUME Sound, Trusted, pc \in {"header", "payload", "commit"}, NEW m \in Torn
    PROVE  \E slot \in Slots :
             /\ m = WithLog(active, Place(Log(active), slot))
             /\ slot.end = cursor + RecordSpan /\ Fresh(Place(Log(active), slot))
             /\ \/ pc = "header" /\ slot.kind \in {"junk", "dirty", "bare"}
                \/ pc = "commit" /\ \E kind \in {FinalKind, "valid"} : slot = Record(kind)
  <1>0. /\ TypeOK /\ MediaOK(media) /\ active \in Sectors /\ Log(active) \in Seq(Slots)
        /\ Fresh(Log(active)) /\ Fits /\ IInv /\ AgeInv
    BY Basics DEF Sound, IInv, Room, AgeInv
  <1>. DEFINE end == cursor + RecordSpan
  <1>1. /\ \A kind \in Unreadable : Lost(kind, end) \in Slots /\ Lost(kind, end).end = end
        /\ \A kind \in {"bare", "valid", "invalid"} :
              Record(kind) \in Slots /\ Record(kind).end = end
    BY <1>0, AppendedOK
  <1>2. CASE pc = "header"
    <2>1. PICK slot : /\ m = WithLog(active, Place(Log(active), slot))
                      /\ \/ \E kind \in Unreadable : slot = Lost(kind, end)
                         \/ Writable /\ slot = Record("bare")
      BY <1>0, <1>2 DEF Torn, Unreadable
    <2>. HIDE DEF end
    <2>2. Fresh(Place(Log(active), slot))
      BY <1>0, <1>1, <1>2, <2>1, LostFresh, RecordFresh
    <2>3. slot \in Slots /\ slot.end = end /\ slot.kind \in {"junk", "dirty", "bare"}
      BY <1>1, <2>1 DEF Lost, Record, Unreadable
    <2>. QED  BY <1>2, <2>1, <2>2, <2>3 DEF end
  <1>3. CASE pc = "commit"
    <2>1. PICK kind \in {FinalKind, "valid"} :
             m = WithLog(active, Place(Log(active), Record(kind)))
      BY <1>3 DEF Torn
    <2>2. kind \in {"bare", "valid", "invalid"}
      BY <2>1 DEF FinalKind
    <2>3. Fresh(Place(Log(active), Record(kind)))
      BY <1>0, <1>3, <2>2, RecordFresh
    <2>4. Record(kind) \in Slots /\ Record(kind).end = end
      BY <1>1, <2>2
    <2>. QED  BY <1>3, <2>1, <2>3, <2>4
  <1>4. CASE pc = "payload"
    BY <1>4 DEF Torn
  <1>. QED  BY <1>2, <1>3, <1>4

LEMMA SpareStep ==
    ASSUME Sound, Trusted, [Next]_vars, AgeInv', PoisonInv'
    PROVE  Spare'
  <1>0. /\ TypeOK /\ MediaOK(media) /\ active \in Sectors /\ env' = env /\ IInv
        /\ \A s \in Sectors : Log(s) \in Seq(Slots)
        /\ pc \in Formats => ~initialised
    BY Basics, SameEnvironment DEF Sound, PoisonInv
  <1>1. SUFFICES ASSUME initialised', "program" \notin env.faults
                 PROVE  Replaceable(Log(active))'
    BY <1>0 DEF Spare
  <1>w. Writable' => Replaceable(Log(active))'
    BY DEF Writable, Replaceable
  <1>k. ASSUME UNCHANGED <<initialised, active, cursor>>, media'[active].log = media[active].log
        PROVE  Replaceable(Log(active))'
    <2>1. /\ Log(active)' = Log(active)
          /\ Occupied(Log(active))' = Occupied(Log(active))
      BY <1>k, StaysWritable
    <2>2. Replaceable(Log(active))
      BY <1>1, <1>k DEF Sound, ValueInv, Spare
    <2>. QED  BY <2>1, <2>2 DEF Replaceable
  <1>2. CASE pc' \in {"payload", "commit"}
    <2>1. Pending'
      BY <1>2 DEF AgeInv
    <2>. QED  BY <2>1 DEF Pending, Record, Replaceable
  <1>3. CASE ~poisoned' /\ pc' \notin {"payload", "commit"}
    BY <1>1, <1>3, <1>w DEF PoisonInv
  <1>4. CASE poisoned' /\ pc' \notin {"payload", "commit"}
    <2>1. CASE Starting
      BY <1>0, <1>1, <1>4, <2>1
      DEF Starting, ChooseSector, DropLoser, Mount, ram, IInv, Phases, Booting
    <2>2. CASE Formatting
      BY <1>0, <1>1, <1>4, <2>2
      DEF Formatting, FormatErase, FormatSeal, FormatFails, ram, Formats
    <2>3. CASE EraseTarget \/ CopyBlock \/ Reclaim \/ CollectFails
      BY <1>0, <1>k, <2>3, CollectsElsewhere
    <2>4. CASE Seal
      <3>1. pc' = "reclaim"
        BY <2>4 DEF Seal
      <3>. QED  BY <1>w, <3>1 DEF PoisonInv
    <2>5. CASE Admit \/ Number \/ AppendHeader \/ AppendPayload
      <3>1. UNCHANGED <<media, initialised, active, cursor>>
        BY <1>0, <1>4, <2>5
        DEF Admit, Number, AppendHeader, AppendPayload, ram, IInv, Room
      <3>. QED  BY <1>k, <3>1
    <2>6. CASE Commit
      BY <1>0, <2>6, CommitFrees DEF Replaceable
    <2>7. CASE AppendFails
      <3>1. /\ pc = "header" /\ media' \in {media} \cup Torn
            /\ UNCHANGED <<initialised, active, cursor>>
        BY <1>1, <2>7 DEF AppendFails, AfterFailure, Trusted, Dependable
      <3>2. CASE media' = media
        BY <1>k, <3>1, <3>2
      <3>3. CASE media' \in Torn
        <4>1. PICK slot \in Slots : /\ media' = WithLog(active, Place(Log(active), slot))
                                    /\ slot.kind \in {"junk", "dirty", "bare"}
          BY <3>1, <3>3, AppendDebris
        <4>. DEFINE kept == Kept(Log(active))
        <4>2. Log(active)' = Append(kept, slot)
          BY <1>0, <3>1, <4>1, LogOf DEF Log, Place
        <4>3. kept \in Seq(Slots)
          BY <1>0, KeptIs
        <4>. HIDE DEF kept
        <4>4. /\ Len(Append(kept, slot)) = Len(kept) + 1
              /\ Append(kept, slot)[Len(kept) + 1] = slot
          BY <4>3, AppendProperties
        <4>. QED  BY <4>1, <4>2, <4>4 DEF Replaceable
      <3>. QED  BY <3>1, <3>2, <3>3
    <2>8. CASE Calling
      <3>1. UNCHANGED <<media, initialised, active, cursor>>
        BY <2>8 DEF Calling, ReadBlock, InvalidateBlock, WriteBlock, GarbageCollect, Format,
                    Refuse, ram
      <3>. QED  BY <1>k, <3>1
    <2>9. CASE PowerLoss
      BY <1>1, <2>9 DEF PowerLoss
    <2>10. CASE Rot
      <3>1. UNCHANGED <<initialised, active, cursor>>
        BY <2>10 DEF Rot, ram
      <3>2. PICK s \in Sectors : \E i \in DOMAIN Log(s) :
              LET spoilt == media'[s].log IN
              /\ \A r \in Sectors : r # s => media'[r] = media[r]
              /\ spoilt[i].kind = "rotten"
              /\ Len(spoilt) = Len(Log(s)) /\ DOMAIN spoilt = DOMAIN Log(s)
              /\ \A j \in DOMAIN Log(s) :
                    (j # i => spoilt[j] = Log(s)[j]) /\ spoilt[j].end = Log(s)[j].end
        BY <1>0, <2>10, RotIs
      <3>3. CASE s # active
        BY <1>0, <1>k, <3>1, <3>2, <3>3
      <3>4. CASE s = active /\ Log(active) # <<>>
        <4>1. Len(Log(active)) \in DOMAIN Log(active)
          <5>1. Len(Log(active)) \in Nat \ {0}
            BY <1>0, <3>4, EmptySeq
          <5>. QED  BY <1>0, <5>1, SlotsOf
        <4>2. Replaceable(Log(active))
          BY <1>1, <3>1 DEF Sound, ValueInv, Spare
        <4>. QED  BY <3>1, <3>2, <3>4, <4>1, <4>2 DEF Replaceable, Occupied, Log
      <3>5. CASE s = active /\ Log(active) = <<>>
        BY <3>2, <3>5, EmptyLog
      <3>. QED  BY <3>3, <3>4, <3>5
    <2>11. CASE UNCHANGED vars
      BY <1>k, <2>11 DEF vars
    <2>. QED  BY <2>1, <2>2, <2>3, <2>4, <2>5, <2>6, <2>7, <2>8, <2>9, <2>10, <2>11
         DEF Next, Collecting, Appending
  <1>. QED  BY <1>2, <1>3, <1>4

(* One turn of the copy loop makes one more block read alike. *)
LEMMA CopyReads ==
    ASSUME Sound, Trusted, CopyBlock, IInv', AgeInv'
    PROVE  /\ copying' = copying + 1
           /\ \A b \in Blocks : b < copying' =>
                 Usable(media'[Other(active)].log, b) = Usable(media'[active].log, b)
  <1>. DEFINE log == Log(active)
              target == Log(Other(active))
              found == FindNewestRecord(log, copying, Clean)
              slot == log[CHOOSE i \in found : TRUE]
              end == copyEnd + SpanOf(slot)
              copy == [slot EXCEPT !.end = end]
  <1>0. /\ TypeOK /\ MediaOK(media) /\ active \in Sectors /\ Other(active) \in Sectors
        /\ Other(active) # active /\ log \in Seq(Slots) /\ target \in Seq(Slots)
        /\ Good(log) /\ Good(target)
    BY Basics DEF Sound, AgeInv, Good
  <1>1. /\ pc = "copy" /\ Copies(target) /\ active' = active
        /\ copying \in 1 .. NBlocks /\ copying \in Blocks
        /\ copyEnd \in Int /\ copyEnd <= HeaderSize + (copying - 1) * MaxSpan
    BY <1>0, Sizes DEF CopyBlock, ram, Sound, IInv, Target, TypeOK, AgeInv, Blocks
  <1>2. media'[active].log = log
    BY CollectsElsewhere DEF Sound, Log
  <1>3. \A b \in Blocks : b < copying => Usable(target, b) = Usable(log, b)
    BY <1>1 DEF Sound, ValueInv, Copied
  <1>4. ASSUME NEW b \in Blocks, b < copying + 1
        PROVE  b < copying \/ b = copying
    BY <1>1, <1>4 DEF Blocks
  <1>5. /\ Usable(log, copying)
             = IF found = {} THEN Absent ELSE Plain(log[CHOOSE i \in found : TRUE].val)
        /\ found # {} => /\ slot \in Slots /\ slot.kind = "valid" /\ slot.blk = copying
                         /\ end \in Int /\ end <= SectorSize /\ HeaderSize < end
    <2>1. ASSUME found # {}
          PROVE  slot \in Slots /\ slot.kind = "valid" /\ slot.blk = copying
      <3>1. PICK i \in found : i = CHOOSE j \in found : TRUE
        BY <2>1
      <3>. HIDE DEF found
      <3>2. i \in DOMAIN log /\ log[i].kind = "valid" /\ log[i].blk = copying
        BY <3>1, NewestOK DEF found
      <3>. QED  BY <1>0, <3>1, <3>2, SlotsOf
    <2>2. ASSUME slot \in Slots
          PROVE  end \in Int /\ end <= SectorSize /\ HeaderSize < end
      <3>1. SpanOf(slot) \in Int /\ 1 <= SpanOf(slot) /\ SpanOf(slot) <= MaxSpan
        BY <2>2, SpanOfOK
      <3>2. /\ (copying - 1) * MaxSpan <= NBlocks * MaxSpan
            /\ (copying - 1) * MaxSpan \in Int
        BY <1>1, Sizes
      <3>3. HeaderSize <= copyEnd
        BY <1>0, Sizes DEF TypeOK
      <3>. HIDE DEF slot
      <3>. QED  BY <1>1, <3>1, <3>2, <3>3, Sizes
    <2>3. Usable(log, copying)
             = IF found = {} THEN Absent ELSE Plain(log[CHOOSE i \in found : TRUE].val)
      BY <1>0, UsableFound
    <2>. QED  BY <2>1, <2>2, <2>3
  <1>6. \/ found = {} /\ copying' = copying + 1 /\ UNCHANGED media
        \/ /\ found # {} /\ copying' = copying + 1
           /\ media' = WithLog(Other(active), Append(target, copy))
    <2>1. /\ Views(log) = {Clean} /\ "read" \notin env.faults
      BY DEF Views, Trusted, Dependable
    <2>2. ~(found # {} /\ end > SectorSize)
      <3>. HIDE DEF end, found, slot
      <3>. QED  BY <1>5, Sizes
    <2>. QED  BY <2>1, <2>2 DEF CopyBlock
  <1>7. CASE found = {} /\ copying' = copying + 1 /\ UNCHANGED media
    <2>1. \A i : ~Decides(target, copying, i)
      BY <1>1 DEF Copies, Decides
    <2>2. Usable(target, copying) = Absent
      BY <1>0, <2>1, UsableIs
    <2>3. media'[Other(active)].log = target
      BY <1>7 DEF Log
    <2>. QED  BY <1>2, <1>3, <1>4, <1>5, <1>7, <2>2, <2>3
  <1>8. CASE /\ found # {} /\ copying' = copying + 1
             /\ media' = WithLog(Other(active), Append(target, copy))
    <2>1. slot \in Slots /\ slot.kind = "valid" /\ slot.blk = copying
      BY <1>5, <1>8
    <2>2. end \in HeaderSize + 1 .. SectorSize
      <3>1. end \in Int /\ end <= SectorSize /\ HeaderSize < end
        BY <1>5, <1>8
      <3>. HIDE DEF end
      <3>. QED  BY <3>1, Sizes
    <2>3. /\ copy \in Slots /\ copy.kind = "valid" /\ copy.blk = copying /\ copy.val = slot.val
      <3>. HIDE DEF slot, end
      <3>. QED  BY <2>1, <2>2 DEF Slots
    <2>4. media'[Other(active)].log = Append(target, copy)
      <3>. HIDE DEF target, copy
      <3>. QED  BY <1>0, <1>8, LogOf
    <2>5. /\ media'[Other(active)].log \in Seq(Slots) /\ Ordered(media'[Other(active)].log)
          /\ Fresh(media'[Other(active)].log)
      BY <1>0 DEF AgeInv, IInv, MediaOK, Log, SectorStates
    <2>. HIDE DEF copy, target
    <2>6. Good(Append(target, copy))
      BY <2>4, <2>5 DEF Good
    <2>7. \A b : Usable(Append(target, copy), b)
                   = IF b = copying THEN Plain(slot.val) ELSE Usable(target, b)
      BY <1>0, <2>3, <2>6, UsableAppend DEF Meaning
    <2>8. Usable(log, copying) = Plain(slot.val)
      BY <1>5, <1>8
    <2>. QED  BY <1>2, <1>3, <1>4, <1>8, <2>4, <2>7, <2>8
  <1>. QED  BY <1>6, <1>7, <1>8

LEMMA ValueStep ==
    ASSUME Sound, Trusted, [Next]_vars, IInv', AgeInv', PoisonInv'
    PROVE  ValueInv'
  <1>1. CallInv' /\ Spare'
    BY CallStep, SpareStep
  <1>2. Copied'
    <2>1. CASE pc' \notin {"copy", "seal"}
      BY <2>1 DEF Copied
    <2>2. CASE EraseTarget
      BY <2>2, Sizes DEF EraseTarget, Copied, Blocks
    <2>3. CASE CopyBlock
      <3>1. /\ active' = active /\ pc = "copy" /\ copying \in 1 .. NBlocks
            /\ pc' = IF copying' > NBlocks THEN "seal" ELSE "copy"
        BY <2>3, Sizes DEF CopyBlock, ram, Sound, IInv, Target, TypeOK
      <3>2. /\ copying' = copying + 1
            /\ \A b \in Blocks : b < copying' =>
                 Usable(media'[Other(active)].log, b) = Usable(media'[active].log, b)
        BY <2>3, CopyReads
      <3>3. pc' = "seal" => copying' = NBlocks + 1
        BY <3>1, <3>2, Sizes
      <3>. QED  BY <3>1, <3>2, <3>3 DEF Copied, Log, Other
    <2>4. CASE UNCHANGED vars
      BY <2>4 DEF vars, Copied, Sound, ValueInv, Log, Other
    <2>5. CASE ~(EraseTarget \/ CopyBlock \/ UNCHANGED vars)
      <3>1. pc' \notin {"copy", "seal"}
        BY <2>5
        DEF Next, Starting, ChooseSector, DropLoser, Mount, Formatting, FormatErase, FormatSeal,
            FormatFails, Collecting, Seal, Reclaim, CollectFails, Appending, Admit, Number,
            AppendHeader, AppendPayload, Commit, AppendFails, Calling, ReadBlock,
            InvalidateBlock, WriteBlock, GarbageCollect, Format, Refuse, Collect, Finish,
            PowerLoss, Rot, Sound, IInv, TypeOK
      <3>. QED  BY <2>1, <3>1
    <2>. QED  BY <2>1, <2>2, <2>3, <2>4, <2>5
  <1>. QED  BY <1>1, <1>2 DEF ValueInv
-----------------------------------------------------------------------------
(***************************************************************************)
(* Fee implements the durable store.                                       *)
(***************************************************************************)
(* What the block of the record being appended is to hold. *)
Landed == IF call.kind = "write" THEN call.val ELSE Absent
Landing(m) == [b \in Blocks |-> IF b = call.blk THEN Landed ELSE BootOf(m)[b]]

LEMMA RecordMeans ==
    ASSUME Sound, call.kind \in {"write", "invalidate"}
    PROVE  /\ InFlight = {[blks |-> {call.blk}, val |-> Landed]}
           /\ call.blk \in Blocks /\ Landed \in Values \cup {Absent}
           /\ \A kind \in {FinalKind, "valid"} :
                 /\ Record(kind).blk = call.blk
                 /\ Record(kind).kind \in {"valid", "invalid"}
                 /\ Meaning(Record(kind)) = Landed
  <1>1. call.blk \in Blocks /\ (call.kind = "write" => call.val \in Values)
    BY Basics DEF Sound, TypeOK, CallRecords, ValueInv, CallInv
  <1>2. Stub \notin Values
    BY FeeAssumption
  <1>3. CASE call.kind = "write"
    BY <1>1, <1>2, <1>3 DEF InFlight, Landed, Record, FinalKind, Meaning, Plain
  <1>4. CASE call.kind = "invalidate"
    BY <1>1, <1>4 DEF InFlight, Landed, Record, FinalKind, Meaning, Plain
  <1>. QED  BY <1>3, <1>4

LEMMA Idling ==
    ASSUME Sound, call.kind \notin {"write", "invalidate"}
    PROVE  InFlight = {}
  BY DEF Sound, SealInv, InFlight

(* A start reads the mounted sector's log, whatever becomes of the other. *)
LEMMA BootKept ==
    ASSUME Sound, initialised \/ pc \in {"dropLoser", "mount"}, NEW m,
           m[active].header = media[active].header,
           m[Other(active)].header \in {media[Other(active)].header, NoHeader},
           \A b \in Blocks : Usable(m[active].log, b) = Usable(media[active].log, b)
    PROVE  BootOf(m) = BootOf(media)
  <1>1. Wins(media, active)
    BY Sealings DEF Sound
  <1>2. Wins(m, active)
    BY <1>1, StillWins
  <1>. QED  BY <1>1, <1>2, BootSame

(* A slot written at the cursor counts when it is a committed record. *)
LEMMA PlaceBoots ==
    ASSUME Sound, Trusted, pc \in {"header", "commit"}, NEW slot \in Slots,
           slot.end = cursor + RecordSpan, Fresh(Place(Log(active), slot))
    PROVE  LET m == WithLog(active, Place(Log(active), slot))
           IN  /\ slot.kind \notin {"valid", "invalid"} => BootOf(m) = BootOf(media)
               /\ (\E kind \in {FinalKind, "valid"} : slot = Record(kind))
                     => BootOf(m) = Landing(media)
  <1>. DEFINE m == WithLog(active, Place(Log(active), slot))
  <1>0. /\ MediaOK(media) /\ active \in Sectors /\ Other(active) \in Sectors /\ initialised
        /\ call.kind \in {"write", "invalidate"}
    BY Basics DEF Sound, IInv, Phases, Working, ValueInv, CallInv, Numbering
  <1>1. \A r \in Sectors : m[r].header = media[r].header
    BY <1>0, LogOf
  <1>2. \A b \in Blocks : Usable(m[active].log, b)
           = IF slot.blk = b /\ slot.kind \in {"valid", "invalid"}
             THEN Meaning(slot) ELSE Usable(media[active].log, b)
    BY PlaceReads
  <1>. HIDE DEF m
  <1>3. CASE slot.kind \notin {"valid", "invalid"}
    <2>1. \A b \in Blocks : Usable(m[active].log, b) = Usable(media[active].log, b)
      BY <1>2, <1>3
    <2>2. BootOf(m) = BootOf(media)
      BY <1>0, <1>1, <2>1, BootKept
    <2>3. ~\E kind \in {FinalKind, "valid"} : slot = Record(kind)
      BY <1>0, <1>3, RecordMeans
    <2>. QED  BY <2>2, <2>3 DEF m
  <1>4. CASE \E kind \in {FinalKind, "valid"} : slot = Record(kind)
    <2>1. /\ slot.blk = call.blk /\ slot.kind \in {"valid", "invalid"}
          /\ Meaning(slot) = Landed
      BY <1>0, <1>4, RecordMeans
    <2>2. Wins(media, active) /\ Wins(m, active)
      BY <1>0, <1>1, Sealings, StillWins DEF Sound
    <2>3. /\ BootOf(media) = [b \in Blocks |-> Usable(media[active].log, b)]
          /\ BootOf(m) = [b \in Blocks |-> Usable(m[active].log, b)]
      BY <2>2, BootWins
    <2>4. \A b \in Blocks : BootOf(m)[b] = Landing(media)[b]
      BY <1>2, <2>1, <2>3 DEF Landing
    <2>5. BootOf(m) = Landing(media)
      BY <2>3, <2>4 DEF Landing
    <2>. QED  BY <2>1, <2>5 DEF m
  <1>5. CASE /\ slot.kind \in {"valid", "invalid"}
             /\ ~\E kind \in {FinalKind, "valid"} : slot = Record(kind)
    BY <1>5
  <1>. QED  BY <1>3, <1>4, <1>5

LEMMA EmptyReads == Good(<<>>) /\ \A b : Usable(<<>>, b) = Absent
  <1>1. Good(<<>>)
    BY EmptyLog, EmptyFresh DEF Good
  <1>2. \A b, i : ~Decides(<<>>, b, i)
    BY EmptyLog DEF Decides
  <1>. QED  BY <1>1, <1>2, UsableIs

(* Sealing the sector that has been copied to, or the first one of virgin  *)
(* media, changes nothing a start reads. *)
LEMMA SealBoots ==
    ASSUME Sound, NEW m \in Sealing
    PROVE  BootOf(m) = BootOf(media)
  <1>0. /\ MediaOK(media) /\ active \in Sectors /\ Other(active) \in Sectors
        /\ Other(active) # active /\ Other(Other(active)) = active
        /\ media \in [Sectors -> SectorStates] /\ sequence \in Sequences
    BY Basics DEF Sound, MediaOK, TypeOK
  <1>1. CASE pc = "seal" /\ m = Sealed(Other(active), NextSequence)
    <2>1. initialised
      BY <1>1 DEF Sound, IInv, Phases, Working
    <2>2. Wins(media, active) /\ media[active].header = sequence
      BY <2>1, Sealings DEF Sound, SealInv, Header
    <2>3. /\ m[Other(active)].header = Successor(sequence)
          /\ m[active].header = sequence
          /\ m[Other(active)].log = Log(Other(active))
      BY <1>0, <1>1, <2>2 DEF Sealed, SectorStates, NextSequence, Successor, Log
    <2>4. Wins(m, Other(active))
      BY <1>0, <2>3, SuccessorIsNewer DEF Wins
    <2>5. \A b \in Blocks : Usable(m[Other(active)].log, b) = Usable(media[active].log, b)
      <3>1. copying = NBlocks + 1 /\ \A b \in Blocks : b < copying
        BY <1>1, Sizes DEF Sound, ValueInv, Copied, Blocks
      <3>. QED  BY <1>1, <2>3, <3>1 DEF Sound, ValueInv, Copied, Log
    <2>. QED  BY <2>2, <2>4, <2>5, BootSame
  <1>2. CASE pc = "formatHeader" /\ m = Sealed(0, 1)
    <2>1. Unsealed(media) /\ Log(0) = <<>>
      BY <1>2, Sealings DEF Sound, Formats, IInv, Target
    <2>2. m[0].header = 1 /\ m[0].log = <<>> /\ m[1].header = NoHeader
      BY <1>0, <1>2, <2>1 DEF Sealed, SectorStates, Unsealed, Sectors, Log
    <2>3. Wins(m, 0)
      BY <2>2, Sizes DEF Wins, Sectors, Sequences, Other
    <2>4. BootOf(m) = [b \in Blocks |-> Absent]
      BY <2>2, <2>3, BootWins, EmptyReads
    <2>. QED  BY <2>1, <2>4, BootUnsealed
  <1>. QED  BY <1>1, <1>2 DEF Sealing

(* What a start reads after an operation that did not complete: what it    *)
(* would have read before, or the record whose commit was under way. *)
LEMMA LossBoots ==
    ASSUME Sound, Trusted, NEW m \in AfterLoss \cup AfterFailure
    PROVE  \/ BootOf(m) = BootOf(media)
           \/ pc = "commit" /\ BootOf(m) = Landing(media)
  <1>1. m = media \/ m \in Torn \/ m \in Sealing
    BY DEF AfterLoss, AfterFailure
  <1>2. CASE m \in Sealing
    BY <1>2, SealBoots
  <1>3. CASE m \in Torn
    <2>0. IInv /\ active \in Sectors /\ Other(active) \in Sectors
      BY Basics DEF Sound
    <2>1. CASE pc \in {"header", "payload", "commit"}
      <3>1. PICK slot \in Slots :
             /\ m = WithLog(active, Place(Log(active), slot))
             /\ slot.end = cursor + RecordSpan /\ Fresh(Place(Log(active), slot))
             /\ \/ pc = "header" /\ slot.kind \in {"junk", "dirty", "bare"}
                \/ pc = "commit" /\ \E kind \in {FinalKind, "valid"} : slot = Record(kind)
        BY <1>3, <2>1, AppendDebris
      <3>. QED  BY <3>1, PlaceBoots
    <2>2. CASE pc \in {"eraseTarget", "reclaim", "dropLoser", "copy"}
      <3>1. m[active].log = media[active].log
        BY <1>3, <2>0, <2>2, LossElsewhere DEF AfterLoss, Formats
      <3>2. /\ m[active].header = media[active].header
            /\ m[Other(active)].header \in {media[Other(active)].header, NoHeader}
        BY <1>3, <2>0, <2>2, TornHeaders DEF Header
      <3>3. initialised \/ pc = "dropLoser"
        BY <2>2 DEF Sound, IInv, Phases, Working
      <3>. QED  BY <3>1, <3>2, <3>3, BootKept
    <2>3. CASE pc \in Formats
      <3>1. Unsealed(media)
        BY <2>3, Sealings DEF Sound
      <3>2. Unsealed(m)
        BY <1>3, <2>0, <3>1, TornHeaders DEF Unsealed, Header
      <3>. QED  BY <3>1, <3>2, BootUnsealed
    <2>. QED  BY <1>3, <2>1, <2>2, <2>3 DEF Torn, Formats
  <1>. QED  BY <1>1, <1>2, <1>3

(* The steps of the store, in terms of Fee's variables. *)
LEMMA Unseen ==
    ASSUME env' = env, UNCHANGED <<initialised, reply>>, InFlight' = InFlight,
           BootValues' = BootValues
    PROVE  UNCHANGED Store!vars
  BY DEF Store!vars

LEMMA Housekeeping ==
    ASSUME env' = env, initialised' = initialised, InFlight = {}, InFlight' = {},
           BootValues' = BootValues, reply' \in {NoReply, Done, Failed}
    PROVE  Store!Next
  BY DEF Store!Next, Store!Maintain, NoReply, Done, Failed,
         Store!NoReply, Store!Done, Store!Failed

LEMMA Failing ==
    ASSUME Sound, call.kind \in {"write", "invalidate"}, env' = env,
           initialised' = initialised, call' = NoCall, reply' = Failed,
           BootValues' \in {BootOf(media), Landing(media)}
    PROVE  Store!Next
  <1>. DEFINE r == [blks |-> {call.blk}, val |-> Landed]
  <1>1. InFlight = {r} /\ InFlight' = {} /\ BootValues = BootOf(media)
    BY RecordMeans, BootIs DEF InFlight, NoCall
  <1>2. Store!Applied(r) = Landing(media)
    BY <1>1 DEF Store!Applied, Landing
  <1>. HIDE DEF r
  <1>. QED  BY <1>1, <1>2 DEF Store!Next, Store!Fail, Failed, Store!Failed

LEMMA StartingMaps ==
    ASSUME Sound, Trusted, Starting, env' = env
    PROVE  Store!Next \/ UNCHANGED Store!vars
  <1>1. CASE ChooseSector
    <2>1. UNCHANGED <<media, initialised, call, reply>>
      BY <1>1 DEF ChooseSector
    <2>. QED  BY <2>1, Unseen, BootIs DEF InFlight
  <1>2. CASE DropLoser
    <2>1. UNCHANGED <<initialised, call, reply>> /\ pc = "dropLoser"
      BY <1>2 DEF DropLoser, ram
    <2>2. BootOf(media') = BootOf(media)
      <3>1. CASE media' = [media EXCEPT ![Other(active)] = Erased]
        <4>1. /\ media'[active] = media[active]
              /\ media'[Other(active)].header = NoHeader
          BY <3>1, Basics DEF Sound, MediaOK, Erased
        <4>. QED  BY <2>1, <4>1, BootKept
      <3>2. CASE media' \in AfterFailure
        BY <2>1, <3>2, LossBoots
      <3>. QED  BY <1>2, <3>1, <3>2 DEF DropLoser
    <2>. QED  BY <2>1, <2>2, Unseen, BootIs DEF InFlight
  <1>3. CASE Mount
    <2>1. /\ UNCHANGED <<media, call, reply>> /\ ~initialised /\ initialised'
          /\ initialised' = TRUE
      BY <1>3 DEF Mount, Sound, IInv, Phases, Booting
    <2>2. BootValues' = BootValues /\ InFlight' = InFlight
      BY <2>1, BootIs DEF InFlight
    <2>. QED  BY <2>1, <2>2 DEF Store!Next, Store!Mount
  <1>. QED  BY <1>1, <1>2, <1>3 DEF Starting

LEMMA FormattingMaps ==
    ASSUME Sound, Trusted, Formatting, env' = env
    PROVE  Store!Next \/ UNCHANGED Store!vars
  <1>0. /\ pc \in Formats /\ Unsealed(media) /\ ~initialised /\ call.kind = "none"
        /\ InFlight = {} /\ media \in [Sectors -> SectorStates]
    BY Sealings, Idling, Basics
    DEF Formatting, FormatErase, FormatSeal, FormatFails, Sound, Formats, ValueInv, CallInv,
        MediaOK
  <1>1. CASE FormatErase
    <2>1. UNCHANGED <<initialised, call, reply>>
      BY <1>1 DEF FormatErase, ram
    <2>2. Unsealed(media')
      BY <1>0, <1>1 DEF FormatErase, Unsealed, Erased, Sectors
    <2>3. BootValues' = BootValues
      BY <1>0, <2>2, BootUnsealed, BootIs
    <2>. QED  BY <2>1, <2>3, Unseen DEF InFlight
  <1>2. CASE FormatSeal
    <2>1. /\ initialised' = TRUE /\ reply' = reply /\ call' = NoCall
          /\ media' \in Sealing
      BY <1>0, <1>2 DEF FormatSeal, Finish, Sealing
    <2>2. BootValues' = BootValues
      BY <2>1, SealBoots, BootIs
    <2>3. InFlight' = {}
      BY <2>1 DEF InFlight, NoCall
    <2>. QED  BY <1>0, <2>1, <2>2, <2>3 DEF Store!Next, Store!Mount
  <1>3. CASE FormatFails
    <2>1. /\ initialised' = initialised /\ reply' = reply /\ call' = NoCall
          /\ media' \in AfterFailure /\ pc # "commit"
      BY <1>0, <1>3 DEF FormatFails, Finish, ram, Formats
    <2>2. BootValues' = BootValues
      BY <2>1, LossBoots, BootIs
    <2>3. InFlight' = {}
      BY <2>1 DEF InFlight, NoCall
    <2>. QED  BY <1>0, <2>1, <2>2, <2>3, Unseen
  <1>. QED  BY <1>1, <1>2, <1>3 DEF Formatting

LEMMA CollectingMaps ==
    ASSUME Sound, Trusted, Collecting, env' = env
    PROVE  Store!Next \/ UNCHANGED Store!vars
  <1>0. /\ MediaOK(media) /\ active \in Sectors /\ Other(active) \in Sectors
        /\ Other(active) # active /\ initialised /\ pc \in Collection
        /\ media[Other(active)].header = media[Other(active)].header
    BY Basics
    DEF Sound, Collecting, EraseTarget, CopyBlock, Seal, Reclaim, CollectFails,
        IInv, Phases, Working, Collection
  <1>e. ASSUME media' = [media EXCEPT ![Other(active)] = Erased]
        PROVE  BootOf(media') = BootOf(media)
    <2>1. /\ media'[active] = media[active]
          /\ media'[Other(active)].header = NoHeader
      BY <1>0, <1>e DEF MediaOK, Erased
    <2>. QED  BY <1>0, <2>1, BootKept
  <1>f. ASSUME media' \in AfterFailure
        PROVE  BootOf(media') = BootOf(media)
    BY <1>0, <1>f, LossBoots DEF Collection
  <1>1. CASE EraseTarget
    BY <1>1, <1>e, Unseen, BootIs DEF EraseTarget, ram, InFlight
  <1>2. CASE CopyBlock
    <2>1. UNCHANGED <<initialised, call, reply>>
          /\ (media' = media \/ \E log : media' = WithLog(Other(active), log))
      BY <1>2 DEF CopyBlock, ram
    <2>2. BootOf(media') = BootOf(media)
      <3>1. CASE media' = media
        BY <3>1
      <3>2. CASE \E log : media' = WithLog(Other(active), log)
        <4>1. /\ media'[active] = media[active]
              /\ media'[Other(active)].header = media[Other(active)].header
          BY <1>0, <3>2, LogOf
        <4>. QED  BY <1>0, <4>1, BootKept
      <3>. QED  BY <2>1, <3>1, <3>2
    <2>. QED  BY <2>1, <2>2, Unseen, BootIs DEF InFlight
  <1>3. CASE Seal
    <2>1. media' \in Sealing /\ UNCHANGED <<initialised, call, reply>>
      BY <1>3 DEF Seal, Sealing
    <2>. QED  BY <2>1, SealBoots, Unseen, BootIs DEF InFlight
  <1>4. CASE Reclaim
    <2>1. BootValues' = BootValues /\ initialised' = initialised
      BY <1>4, <1>e, <1>f, BootIs DEF Reclaim
    <2>2. CASE cause = "direct"
      <3>1. call' = NoCall /\ reply' = Done /\ call.kind = "collect"
        BY <1>0, <1>4, <2>2 DEF Reclaim, Finish, Sound, ValueInv, CallInv
      <3>2. InFlight = {} /\ InFlight' = {}
        BY <3>1, Idling DEF InFlight, NoCall
      <3>. QED  BY <2>1, <3>1, <3>2, Housekeeping
    <2>3. CASE cause # "direct"
      BY <1>4, <2>1, <2>3, Unseen DEF Reclaim, InFlight
    <2>. QED  BY <2>2, <2>3
  <1>5. CASE CollectFails
    <2>1. /\ BootValues' = BootValues /\ initialised' = initialised
          /\ call' = NoCall /\ reply' = Failed
      BY <1>5, <1>f, BootIs DEF CollectFails, Finish, ram
    <2>2. CASE call.kind \in {"write", "invalidate"}
      BY <2>1, <2>2, Failing, BootIs
    <2>3. CASE call.kind \notin {"write", "invalidate"}
      <3>1. InFlight = {} /\ InFlight' = {}
        BY <2>1, <2>3, Idling DEF InFlight, NoCall
      <3>. QED  BY <2>1, <3>1, Housekeeping
    <2>. QED  BY <2>2, <2>3
  <1>. QED  BY <1>1, <1>2, <1>3, <1>4, <1>5 DEF Collecting

LEMMA AppendingMaps ==
    ASSUME Sound, Trusted, Appending, env' = env
    PROVE  Store!Next \/ UNCHANGED Store!vars
  <1>0. /\ call.kind \in {"write", "invalidate"} /\ initialised /\ IInv /\ AgeInv
        /\ pc # "admit" => Fits
        /\ TypeOK
    BY Basics
    DEF Appending, Admit, Number, AppendHeader, AppendPayload, Commit, AppendFails, Sound,
        ValueInv, CallInv, Numbering, IInv, Phases, Working, Room
  <1>1. CASE Admit \/ Number \/ AppendPayload
    <2>1. UNCHANGED <<media, initialised, call, reply>>
      BY <1>1 DEF Admit, Number, AppendPayload, ram
    <2>. QED  BY <2>1, Unseen, BootIs DEF InFlight
  <1>2. CASE AppendHeader
    <2>1. /\ pc = "header" /\ UNCHANGED <<initialised, call, reply>>
          /\ media' = WithLog(active, Place(Log(active), Record("bare")))
          /\ Writable
      BY <1>0, <1>2 DEF AppendHeader, ram
    <2>2. /\ Record("bare") \in Slots /\ Record("bare").end = cursor + RecordSpan
          /\ Record("bare").kind \notin {"valid", "invalid"}
          /\ Fresh(Place(Log(active), Record("bare")))
      BY <1>0, <2>1, AppendedOK, RecordFresh DEF Record
    <2>3. BootOf(media') = BootOf(media)
      BY <2>1, <2>2, PlaceBoots
    <2>. QED  BY <2>1, <2>3, Unseen, BootIs DEF InFlight
  <1>3. CASE Commit
    <2>1. /\ pc = "commit" /\ initialised' = initialised /\ call' = NoCall /\ reply' = Done
          /\ media' = WithLog(active, Place(Log(active), Record(FinalKind)))
      BY <1>3 DEF Commit, Finish
    <2>2. FinalKind \in {"bare", "valid", "invalid"}
      BY DEF FinalKind
    <2>3. /\ Record(FinalKind) \in Slots /\ Record(FinalKind).end = cursor + RecordSpan
          /\ Fresh(Place(Log(active), Record(FinalKind)))
      BY <1>0, <2>1, <2>2, AppendedOK, RecordFresh
    <2>4. BootOf(media') = Landing(media)
      BY <2>1, <2>3, PlaceBoots
    <2>. DEFINE r == [blks |-> {call.blk}, val |-> Landed]
    <2>5. InFlight = {r} /\ InFlight' = {}
      BY <1>0, <2>1, RecordMeans DEF InFlight, NoCall
    <2>6. Store!Applied(r) = Landing(media)
      BY BootIs DEF Store!Applied, Landing
    <2>. HIDE DEF r
    <2>. QED  BY <2>1, <2>4, <2>5, <2>6, BootIs
         DEF Store!Next, Store!Succeed, Done, Store!Done
  <1>4. CASE AppendFails
    <2>1. /\ call.kind \in {"write", "invalidate"} /\ initialised' = initialised
          /\ call' = NoCall /\ reply' = Failed /\ media' \in AfterFailure
      BY <1>0, <1>4 DEF AppendFails, Finish
    <2>2. BootValues' \in {BootOf(media), Landing(media)}
      BY <2>1, LossBoots, BootIs
    <2>. QED  BY <2>1, <2>2, Failing
  <1>. QED  BY <1>1, <1>2, <1>3, <1>4 DEF Appending

LEMMA CallingMaps ==
    ASSUME Sound, Trusted, Calling, env' = env
    PROVE  Store!Next \/ UNCHANGED Store!vars
  <1>0. /\ pc = "idle" /\ UNCHANGED <<media, initialised>> /\ call.kind = "none"
        /\ BootValues' = BootValues /\ BootValues = BootOf(media) /\ InFlight = {}
    <2>1. pc = "idle" /\ UNCHANGED <<media, initialised>>
      BY DEF Calling, ReadBlock, InvalidateBlock, WriteBlock, GarbageCollect, Format, Refuse,
             Ready, ram
    <2>2. call.kind = "none"
      BY <2>1 DEF Sound, ValueInv, CallInv
    <2>. QED  BY <2>1, <2>2, BootIs, Idling
  <1>1. ASSUME NEW b \in Blocks, ReadBlock(b)
        PROVE  Store!Next
    <2>1. /\ UNCHANGED call /\ initialised
          /\ reply' = Answer(ReadValue(Log(active), b, Clean))
      BY <1>1 DEF ReadBlock, Views, Trusted, Dependable
    <2>2. BootValues[b] = Usable(Log(active), b)
      BY <1>0, <2>1, Sealings, BootWins DEF Sound, Log
    <2>3. /\ ReadValue(Log(active), b, Clean) \in {Usable(Log(active), b), Damaged}
          /\ ReadValue(Log(active), b, Clean) = Damaged => Usable(Log(active), b) = Absent
      BY Basics, UsableFound DEF Sound
    <2>4. Store!Read(b)
      BY <1>0, <2>1, <2>2, <2>3 DEF Store!Read, Answer, Store!Answer, InFlight
    <2>. QED  BY <2>4 DEF Store!Next
  <1>r. ASSUME initialised, NEW r, InFlight' = {r}, reply' = NoReply, r \in Store!Requests
        PROVE  Store!Next
    BY <1>0, <1>r DEF Store!Next, Store!Submit, NoReply, Store!NoReply
  <1>2. ASSUME NEW b \in Blocks, InvalidateBlock(b)
        PROVE  Store!Next
    <2>1. /\ initialised /\ reply' = NoReply
          /\ InFlight' = {[blks |-> {b}, val |-> Absent]}
      BY <1>2 DEF InvalidateBlock, Ready, InFlight
    <2>2. [blks |-> {b}, val |-> Absent] \in Store!Requests
      BY DEF Store!Requests
    <2>. QED  BY <1>r, <2>1, <2>2
  <1>3. ASSUME NEW b \in Blocks, NEW v \in Values, WriteBlock(b, v)
        PROVE  Store!Next
    <2>1. /\ initialised /\ reply' = NoReply
          /\ InFlight' = {[blks |-> {b}, val |-> v]}
      BY <1>3 DEF WriteBlock, Ready, InFlight
    <2>2. [blks |-> {b}, val |-> v] \in Store!Requests
      BY DEF Store!Requests
    <2>. QED  BY <1>r, <2>1, <2>2
  <1>4. CASE GarbageCollect
    <2>1. reply' = NoReply /\ InFlight' = {}
      BY <1>4 DEF GarbageCollect, InFlight, NoCall
    <2>. QED  BY <1>0, <2>1, Housekeeping
  <1>5. CASE Format
    BY <1>5 DEF Format, Ready, Trusted, Dependable
  <1>6. CASE Refuse
    <2>1. reply' = Failed /\ InFlight' = {}
      BY <1>0, <1>6 DEF Refuse, InFlight
    <2>. QED  BY <1>0, <2>1, Housekeeping
  <1>. QED  BY <1>1, <1>2, <1>3, <1>4, <1>5, <1>6 DEF Calling

LEMMA PowerLossMaps ==
    ASSUME Sound, Trusted, PowerLoss, env' = env
    PROVE  Store!Next
  <1>1. /\ initialised' = FALSE /\ call' = NoCall /\ reply' = NoReply
        /\ media' \in AfterLoss
    BY DEF PowerLoss
  <1>2. InFlight' = {}
    BY <1>1 DEF InFlight, NoCall
  <1>3. BootValues' \in {BootValues} \cup {Store!Applied(r) : r \in InFlight}
    <2>1. CASE BootOf(media') = BootOf(media)
      BY <2>1, BootIs
    <2>2. CASE pc = "commit" /\ BootOf(media') = Landing(media)
      <3>. DEFINE r == [blks |-> {call.blk}, val |-> Landed]
      <3>1. call.kind \in {"write", "invalidate"}
        BY <2>2 DEF Sound, ValueInv, CallInv, Numbering
      <3>2. InFlight = {r}
        BY <3>1, RecordMeans
      <3>3. Store!Applied(r) = Landing(media)
        BY BootIs DEF Store!Applied, Landing
      <3>. HIDE DEF r
      <3>. QED  BY <2>2, <3>2, <3>3, BootIs
    <2>. QED  BY <1>1, <2>1, <2>2, LossBoots
  <1>. QED  BY <1>1, <1>2, <1>3 DEF Store!Next, Store!PowerLoss, NoReply, Store!NoReply

(* A spoilt record changes what its own block reads as, and no other.      *)
LEMMA RotMaps ==
    ASSUME Sound, Trusted, Rot, env' = env, IInv', AgeInv'
    PROVE  Store!Next
  <1>0. /\ IInv /\ UNCHANGED <<initialised, call, reply>> /\ "rot" \in env.faults
        /\ \A s \in Sectors : Good(media[s].log) /\ Good(media'[s].log)
        /\ \A s \in Sectors : Other(s) \in Sectors
    BY Basics
    DEF Rot, ram, Sound, Good, AgeInv, Log, Sectors, Other, IInv, MediaOK, SectorStates
  <1>1. PICK s \in Sectors : \E i \in DOMAIN Log(s) :
          LET spoilt == media'[s].log IN
          /\ \A r \in Sectors : r # s => media'[r] = media[r]
          /\ \A r \in Sectors : media'[r].header = media[r].header
          /\ DOMAIN spoilt = DOMAIN Log(s)
          /\ \A j \in DOMAIN Log(s) :
                (j # i => spoilt[j] = Log(s)[j]) /\ spoilt[j].blk = Log(s)[j].blk
    BY <1>0, RotIs
  <1>2. PICK i \in DOMAIN Log(s) :
          /\ \A r \in Sectors : r # s => media'[r] = media[r]
          /\ \A r \in Sectors : media'[r].header = media[r].header
          /\ DOMAIN media'[s].log = DOMAIN Log(s)
          /\ \A j \in DOMAIN Log(s) : /\ j # i => media'[s].log[j] = Log(s)[j]
                                      /\ media'[s].log[j].blk = Log(s)[j].blk
    BY <1>1
  <1>. DEFINE b == Log(s)[i].blk
  <1>3. b \in Blocks
    BY <1>0, SlotsOf, SlotFields DEF Good, Log
  <1>4. ASSUME NEW r \in Sectors, NEW c \in Blocks, c # b
        PROVE  Usable(media'[r].log, c) = Usable(media[r].log, c)
    <2>1. CASE r # s
      BY <1>2, <2>1
    <2>2. CASE r = s
      <3>1. \A j : Decides(media[s].log, c, j) => j # i /\ j \in DOMAIN Log(s)
        BY <1>4 DEF Decides, Log
      <3>2. \A j : Decides(media'[s].log, c, j) => j # i /\ j \in DOMAIN Log(s)
        BY <1>2, <1>4 DEF Decides, Log
      <3>3. \A j : Decides(media[s].log, c, j) <=> Decides(media'[s].log, c, j)
        BY <1>2, <3>1, <3>2 DEF Decides, Log
      <3>4. \A j : Decides(media[s].log, c, j)
                     => Meaning(media[s].log[j]) = Meaning(media'[s].log[j])
        BY <1>2, <3>1 DEF Log
      <3>. QED  BY <1>0, <2>2, <3>3, <3>4, UsableSame
    <2>. QED  BY <2>1, <2>2
  <1>. HIDE DEF b
  <1>5. \E v \in Values \cup {Absent} : BootOf(media') = [BootOf(media) EXCEPT ![b] = v]
    <2>1. CASE Unsealed(media)
      <3>1. Unsealed(media')
        BY <1>2, <2>1 DEF Unsealed
      <3>2. /\ BootOf(media) = [c \in Blocks |-> Absent]
            /\ BootOf(media') = [c \in Blocks |-> Absent]
        BY <2>1, <3>1, BootUnsealed
      <3>3. BootOf(media') = [BootOf(media) EXCEPT ![b] = Absent]
        BY <3>2
      <3>. QED  BY <3>3
    <2>2. CASE \E a \in Sectors : Wins(media, a)
      <3>1. PICK a \in Sectors : Wins(media, a)
        BY <2>2
      <3>2. Wins(media', a)
        BY <1>0, <1>2, <3>1, StillWins
      <3>3. /\ BootOf(media) = [c \in Blocks |-> Usable(media[a].log, c)]
            /\ BootOf(media') = [c \in Blocks |-> Usable(media'[a].log, c)]
        BY <3>1, <3>2, BootWins
      <3>4. Usable(media'[a].log, b) \in Values \cup {Absent}
        BY <1>0, UsableFound DEF Good
      <3>5. BootOf(media') = [BootOf(media) EXCEPT ![b] = Usable(media'[a].log, b)]
        BY <1>4, <3>3
      <3>. QED  BY <3>4, <3>5
    <2>. QED  BY <2>1, <2>2, Sealings DEF Sound
  <1>6. InFlight' = InFlight
    BY <1>0 DEF InFlight
  <1>7. Store!Decay(b)
    BY <1>0, <1>5, <1>6, BootIs DEF Store!Decay, Store!Contents
  <1>. QED  BY <1>3, <1>7 DEF Store!Next

(* Every step of Fee is a step of the store or invisible to its callers. *)
LEMMA StoreStep ==
    ASSUME Sound, Trusted, [Next]_vars, IInv', AgeInv'
    PROVE  [Store!Next]_(Store!vars)
  <1>0. env' = env
    BY SameEnvironment
  <1>1. CASE UNCHANGED vars
    <2>1. UNCHANGED <<media, initialised, call, reply>>
      BY <1>1 DEF vars
    <2>. QED  BY <1>0, <2>1, Unseen, BootIs DEF InFlight
  <1>. QED  BY <1>0, <1>1, StartingMaps, FormattingMaps, CollectingMaps, AppendingMaps,
               CallingMaps, PowerLossMaps, RotMaps DEF Next

LEMMA StoreInit == ASSUME Init PROVE Store!Init
  <1>1. Unsealed(media)
    BY DEF Init, Unsealed, Erased
  <1>2. BootValues = [b \in Blocks |-> Absent]
    BY <1>1, BootUnsealed, BootIs
  <1>3. InFlight = {}
    BY DEF Init, InFlight, NoCall
  <1>. QED  BY <1>2, <1>3 DEF Init, Store!Init, NoReply, Store!NoReply

(* Fee implements the durable store.  Over every interleaving of flash     *)
(* operations, failed operations and supply losses, a write that was       *)
(* answered E_OK survives, one that was interrupted or failed leaves the   *)
(* old value or the new, no other block is touched, and Fee_ReadBlock      *)
(* answers what the next start would find.                                 *)
THEOREM FeeIsDurable == Spec => (Trusted => Durable)
  <1>. DEFINE Inv == IInv /\ (Trusted => Sound)
  <1>0. [Next]_vars => (Trusted' <=> Trusted)
    BY SameEnvironment DEF Trusted, Dependable
  <1>1. Init => Inv
    BY InitOK, SealInit, AgeInit, PoisonInit, ValueInit DEF Sound
  <1>2. Inv /\ [Next]_vars => Inv'
    <2>1. ASSUME Inv, [Next]_vars
          PROVE  Inv'
      <3>1. IInv'
        BY <2>1, NextOK
      <3>2. ASSUME Trusted
            PROVE  Sound'
        <4>1. SealInv' /\ AgeInv' /\ PoisonInv'
          BY <2>1, <3>2, SealStep, AgeStep, PoisonStep DEF Sound, Trusted, Dependable
        <4>. QED  BY <2>1, <3>1, <3>2, <4>1, ValueStep DEF Sound
      <3>. QED  BY <1>0, <2>1, <3>1, <3>2
    <2>. QED  BY <2>1
  <1>3. Inv /\ Inv' /\ [Next]_vars => (Trusted => [Store!Next]_(Store!vars))
    <2>1. ASSUME Inv, Inv', [Next]_vars, Trusted
          PROVE  [Store!Next]_(Store!vars)
      <3>1. Sound /\ Sound'
        BY <1>0, <2>1
      <3>2. IInv' /\ AgeInv'
        BY <3>1 DEF Sound
      <3>. QED  BY <2>1, <3>1, <3>2, StoreStep
    <2>. QED  BY <2>1
  <1>4. Init => Store!Init
    BY StoreInit
  <1>. QED  BY <1>0, <1>1, <1>2, <1>3, <1>4, PTL DEF Spec, Durable, Store!Spec
=============================================================================
