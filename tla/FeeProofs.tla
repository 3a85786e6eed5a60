------------------------------- MODULE FeeProofs -------------------------------
(***************************************************************************)
(* Theorems about Fee.tla for every value of its constants.                *)
(***************************************************************************)
EXTENDS Fee, SequenceTheorems, TLAPS

(* What the assumption on the configuration amounts to in the proofs. *)
LEMMA Sizes ==
    /\ NBlocks \in Nat /\ 1 <= NBlocks
    /\ MaxSpan \in Nat /\ 1 <= MaxSpan
    /\ StubSpan \in 1 .. MaxSpan
    /\ \A b \in Blocks : Span[b] \in 1 .. MaxSpan
    /\ HeaderSize \in Nat /\ 1 <= HeaderSize
    /\ SectorSize \in Nat
    /\ NBlocks * MaxSpan \in Nat
    /\ HeaderSize + NBlocks * MaxSpan + 3 * MaxSpan <= SectorSize
    /\ CounterMod \in Nat /\ 2 <= CounterMod
    /\ SequenceMod \in Nat /\ 4 <= SequenceMod
  <1>1. (NBlocks + 1) * MaxSpan = NBlocks * MaxSpan + MaxSpan
    BY FeeAssumption DEF Blocks
  <1>2. NBlocks * MaxSpan \in Nat /\ 1 <= MaxSpan
    BY FeeAssumption DEF Blocks
  <1>3. HeaderSize + NBlocks * MaxSpan + 3 * MaxSpan <= SectorSize
    BY <1>1, <1>2, FeeAssumption DEF Threshold
  <1>4. 1 <= CounterMod \div 2
    BY <1>2, <1>3, FeeAssumption DEF Threshold
  <1>5. 2 <= CounterMod
    BY <1>4, FeeAssumption
  <1>. QED  BY <1>2, <1>3, <1>5, FeeAssumption

LEMMA CounterRange ==
    ASSUME NEW n \in Int
    PROVE  n % CounterMod \in Counters
  BY Sizes DEF Counters
LEMMA SequenceRange ==
    ASSUME NEW n \in Int
    PROVE  n % SequenceMod \in Sequences
  BY Sizes DEF Sequences
-----------------------------------------------------------------------------
(***************************************************************************)
(* The inductive invariant.  Its parts speak of the media m, the mounted   *)
(* sector a and the cursor c, so that they can be stated of what a fault   *)
(* may leave behind as well as of the current state.                       *)
(***************************************************************************)
Unreadable == {"junk", "dirty"}

(* Slots follow one another, and a damaged one has nothing behind it. *)
Ordered(log) ==
    \A i, j \in DOMAIN log : i < j =>
        log[i].end < log[j].end /\ log[i].kind \notin Unreadable
(* All slots but the last lie before the cursor.  A damaged last slot lies *)
(* at the cursor, unless the cursor says the sector is full.               *)
Behind(log, c) ==
    /\ \A i \in DOMAIN log : i < Len(log) => log[i].end <= c
    /\ \A i \in DOMAIN log :
          log[i].kind \in Unreadable => log[i].end > c \/ c = SectorSize
MediaOK(m) ==
    /\ m \in [Sectors -> SectorStates]
    /\ \A s \in Sectors : Ordered(m[s].log)

Booting == {"off", "mount", "dropLoser"}
Working == {"admit", "number", "header", "payload", "commit",
            "eraseTarget", "copy", "seal", "reclaim"}
(* A call is in progress only while Fee is mounted. *)
Phases ==
    /\ pc \in Booting => ~initialised
    /\ pc \in Working => initialised
(* The target of a collection holds copies only, up to copyEnd, and they   *)
(* take no more space than the blocks passed so far.  The target of a      *)
(* format is empty.                                                        *)
Target ==
    /\ pc \in {"copy", "seal"} =>
        /\ \A i \in DOMAIN Log(Other(active)) :
              /\ Log(Other(active))[i].kind \notin Unreadable
              /\ Log(Other(active))[i].end <= copyEnd
        /\ copyEnd <= HeaderSize + (copying - 1) * MaxSpan
        /\ pc = "copy" => copying <= NBlocks
    /\ pc \in {"formatSecond", "formatHeader"} => Log(0) = <<>>
(* A collection leaves room, and a record being appended has room. *)
Room ==
    /\ pc = "reclaim" => cursor <= HeaderSize + NBlocks * MaxSpan
    /\ pc \in {"number", "header", "payload", "commit"} => Fits

IInv ==
    /\ TypeOK
    /\ MediaOK(media)
    /\ initialised => Behind(Log(active), cursor)
    /\ Phases
    /\ Target
    /\ Room
-----------------------------------------------------------------------------
(***************************************************************************)
(* Logs.                                                                   *)
(***************************************************************************)
LEMMA EmptyLog ==
    /\ <<>> \in Seq(Slots) /\ Ordered(<<>>)
    /\ \A c : Behind(<<>>, c)
    /\ DOMAIN <<>> = {}
    /\ Erased \in SectorStates
  <1>1. <<>> \in Seq(Slots) /\ DOMAIN <<>> = {}
    OBVIOUS
  <1>. QED  BY <1>1 DEF Ordered, Behind, Erased, SectorStates, NoHeader

LEMMA SlotEnd ==
    \A slot \in Slots :
        slot.end \in Int /\ slot.end > HeaderSize /\ slot.end <= SectorSize
  BY Sizes DEF Slots

(* Appending a slot behind readable ones. *)
LEMMA AppendOK ==
    ASSUME NEW log \in Seq(Slots), Ordered(log), NEW slot \in Slots,
           \A i \in DOMAIN log : /\ log[i].kind \notin Unreadable
                                 /\ log[i].end < slot.end
    PROVE  /\ Append(log, slot) \in Seq(Slots)
           /\ Ordered(Append(log, slot))
           /\ Len(Append(log, slot)) = Len(log) + 1
           /\ DOMAIN Append(log, slot) = 1 .. Len(log) + 1
           /\ \A i \in DOMAIN log : Append(log, slot)[i] = log[i]
           /\ Append(log, slot)[Len(log) + 1] = slot
  <1>1. /\ Append(log, slot) \in Seq(Slots)
        /\ Len(Append(log, slot)) = Len(log) + 1
        /\ \A i \in 1 .. Len(log) : Append(log, slot)[i] = log[i]
        /\ Append(log, slot)[Len(log) + 1] = slot
    BY AppendProperties
  <1>2. DOMAIN Append(log, slot) = 1 .. Len(log) + 1 /\ DOMAIN log = 1 .. Len(log)
        /\ Len(log) \in Nat
    BY <1>1, LenProperties
  <1>3. Ordered(Append(log, slot))
    <2>1. SUFFICES ASSUME NEW i \in 1 .. Len(log) + 1, NEW j \in 1 .. Len(log) + 1, i < j
                   PROVE  /\ Append(log, slot)[i].end < Append(log, slot)[j].end
                          /\ Append(log, slot)[i].kind \notin Unreadable
      BY <1>2 DEF Ordered
    <2>2. i \in 1 .. Len(log) /\ Append(log, slot)[i] = log[i]
      BY <1>1, <1>2, <2>1
    <2>3. CASE j = Len(log) + 1
      BY <1>1, <1>2, <2>2, <2>3
    <2>4. CASE j # Len(log) + 1
      <3>1. j \in 1 .. Len(log) /\ Append(log, slot)[j] = log[j]
        BY <1>1, <1>2, <2>4
      <3>. QED  BY <1>2, <2>1, <2>2, <3>1 DEF Ordered
    <2>. QED  BY <2>3, <2>4
  <1>. QED  BY <1>1, <1>2, <1>3

(* What is left of a log when the slot at the cursor is taken away. *)
LEMMA KeptOK ==
    ASSUME TypeOK, NEW log \in Seq(Slots), Ordered(log), Behind(log, cursor),
           cursor < SectorSize
    PROVE  /\ Kept(log) \in Seq(Slots)
           /\ Ordered(Kept(log))
           /\ \A i \in DOMAIN Kept(log) : /\ Kept(log)[i].kind \notin Unreadable
                                          /\ Kept(log)[i].end <= cursor
  <1>0. DOMAIN log = 1 .. Len(log) /\ Len(log) \in Nat /\ log \in [1 .. Len(log) -> Slots]
    BY LenProperties
  <1>a. /\ cursor \in Int /\ SectorSize \in Int
        /\ \A i \in DOMAIN log : log[i] \in Slots /\ log[i].end \in Int
    <2>1. cursor \in Int /\ SectorSize \in Int
      BY Sizes DEF TypeOK
    <2>. QED  BY <1>0, <2>1, SlotEnd
  <1>1. CASE ~Occupied(log)
    <2>1. Kept(log) = log
      BY <1>1 DEF Kept
    <2>2. ASSUME NEW i \in DOMAIN log
          PROVE  log[i].kind \notin Unreadable /\ log[i].end <= cursor
      <3>1. CASE i = Len(log)
        <4>1. log # <<>>
          BY EmptyLog, <2>2
        <4>2. ~(log[i].end > cursor)
          BY <1>1, <3>1, <4>1 DEF Occupied
        <4>3. log[i].kind \in Unreadable => log[i].end > cursor \/ cursor = SectorSize
          BY <2>2 DEF Behind
        <4>. QED  BY <1>a, <4>2, <4>3
      <3>2. CASE i # Len(log)
        BY <1>0, <3>2 DEF Ordered, Behind
      <3>. QED  BY <3>1, <3>2
    <2>. QED  BY <2>1, <2>2
  <1>2. CASE Occupied(log)
    <2>1. Kept(log) = SubSeq(log, 1, Len(log) - 1) /\ Len(log) >= 1
      BY <1>0, <1>2, EmptySeq DEF Kept, Occupied
    <2>2. /\ Kept(log) \in Seq(Slots)
          /\ Len(Kept(log)) = Len(log) - 1
          /\ \A i \in 1 .. Len(log) - 1 : Kept(log)[i] = log[i]
      <3>1. \A i \in 1 .. Len(log) - 1 : log[i] \in Slots
        BY <1>0
      <3>. HIDE DEF Slots
      <3>. QED  BY <1>0, <2>1, <3>1, SubSeqProperties
    <2>3. DOMAIN Kept(log) = 1 .. Len(log) - 1
      BY <2>2, LenProperties
    <2>4. \A i \in DOMAIN Kept(log) :
             i \in DOMAIN log /\ i < Len(log) /\ Kept(log)[i] = log[i]
      BY <1>0, <2>2, <2>3
    <2>5. \A i \in DOMAIN Kept(log) : log[i].kind \notin Unreadable /\ log[i].end <= cursor
      BY <1>0, <2>1, <2>4 DEF Ordered, Behind
    <2>6. Ordered(Kept(log))
      BY <2>4 DEF Ordered
    <2>. QED  BY <2>2, <2>4, <2>5, <2>6
  <1>. QED  BY <1>1, <1>2

(* Writing a slot at the cursor. *)
LEMMA PlaceOK ==
    ASSUME TypeOK, NEW log \in Seq(Slots), Ordered(log), Behind(log, cursor),
           cursor < SectorSize, NEW slot \in Slots, cursor < slot.end
    PROVE  /\ Place(log, slot) \in Seq(Slots)
           /\ Ordered(Place(log, slot))
           /\ Behind(Place(log, slot), cursor)
           /\ slot.kind \notin Unreadable => Behind(Place(log, slot), slot.end)
  <1>. DEFINE kept == Kept(log)
  <1>1. /\ kept \in Seq(Slots) /\ Ordered(kept)
        /\ \A i \in DOMAIN kept : kept[i].kind \notin Unreadable /\ kept[i].end <= cursor
    BY KeptOK
  <1>2. /\ cursor \in Int /\ slot.end \in Int
        /\ kept \in [1 .. Len(kept) -> Slots] /\ Len(kept) \in Nat
        /\ DOMAIN kept = 1 .. Len(kept)
        /\ \A i \in DOMAIN kept : kept[i].end \in Int
    <2>1. /\ kept \in [1 .. Len(kept) -> Slots] /\ Len(kept) \in Nat
          /\ DOMAIN kept = 1 .. Len(kept)
      BY <1>1, LenProperties
    <2>2. cursor \in Int
      BY Sizes DEF TypeOK
    <2>. QED  BY <2>1, <2>2, SlotEnd
  <1>. HIDE DEF kept
  <1>3. \A i \in DOMAIN kept : kept[i].kind \notin Unreadable /\ kept[i].end < slot.end
    BY <1>1, <1>2
  <1>4. /\ Append(kept, slot) \in Seq(Slots)
        /\ Ordered(Append(kept, slot))
        /\ Len(Append(kept, slot)) = Len(kept) + 1
        /\ DOMAIN Append(kept, slot) = 1 .. Len(kept) + 1
        /\ \A i \in DOMAIN kept : Append(kept, slot)[i] = kept[i]
        /\ Append(kept, slot)[Len(kept) + 1] = slot
    BY <1>1, <1>3, AppendOK
  <1>5. \A i \in 1 .. Len(kept) + 1 :
           \/ i \in DOMAIN kept /\ Append(kept, slot)[i] = kept[i] /\ i < Len(kept) + 1
           \/ i = Len(kept) + 1 /\ Append(kept, slot)[i] = slot
    BY <1>2, <1>4
  <1>6. Behind(Append(kept, slot), cursor)
    BY <1>1, <1>2, <1>4, <1>5 DEF Behind
  <1>7. slot.kind \notin Unreadable => Behind(Append(kept, slot), slot.end)
    BY <1>1, <1>2, <1>3, <1>4, <1>5 DEF Behind
  <1>8. Place(log, slot) = Append(kept, slot)
    BY DEF Place, kept
  <1>. QED  BY <1>4, <1>6, <1>7, <1>8
-----------------------------------------------------------------------------
(***************************************************************************)
(* Scanning.                                                               *)
(***************************************************************************)
(* The slot a block's newest record is found in is a committed one. *)
LEMMA NewestOK ==
    ASSUME NEW log, NEW b, NEW view, NEW i \in FindNewestRecord(log, b, view)
    PROVE  /\ i \in DOMAIN log
           /\ log[i].kind = "valid"
           /\ log[i].blk = b
  <1>1. i \in Winner(log, OfKind(log, b, {"valid"}, view) \ view.unread)
    BY DEF FindNewestRecord
  <1>2. i \in OfKind(log, b, {"valid"}, view)
    BY <1>1 DEF Winner
  <1>. QED  BY <1>2 DEF OfKind

LEMMA ReadOK ==
    ASSUME NEW log \in Seq(Slots), NEW b, NEW view
    PROVE  Answer(ReadValue(log, b, view)) \in Replies
  <1>. DEFINE found == FindNewestRecord(log, b, view)
              v == log[CHOOSE i \in found : TRUE].val
  <1>1. ASSUME found # {}
        PROVE  v \in Values \cup {Stub}
    <2>1. (CHOOSE i \in found : TRUE) \in DOMAIN log
      BY <1>1, NewestOK
    <2>2. log[CHOOSE i \in found : TRUE] \in Slots
      BY <2>1, LenProperties
    <2>. QED  BY <2>2 DEF Slots
  <1>2. ReadValue(log, b, view) \in Values \cup {Absent, Damaged}
    BY <1>1 DEF ReadValue
  <1>. QED  BY <1>2 DEF Replies

LEMMA NextCounterOK ==
    ASSUME NEW log \in Seq(Slots), NEW b, NEW view
    PROVE  NextCounter(log, b, view) \in Counters
  <1>. DEFINE top == Winner(log, OfKind(log, b, WellFormed, view))
  <1>1. CASE top = {}
    BY <1>1, Sizes DEF NextCounter, Counters
  <1>2. CASE top # {}
    <2>1. (CHOOSE i \in top : TRUE) \in DOMAIN log
      BY <1>2 DEF Winner, OfKind
    <2>2. log[CHOOSE i \in top : TRUE] \in Slots
      BY <2>1, LenProperties
    <2>3. log[CHOOSE i \in top : TRUE].counter \in Int
      BY <2>2, Sizes DEF Slots, Counters
    <2>4. (log[CHOOSE i \in top : TRUE].counter + 1) % CounterMod \in Counters
      BY <2>3, CounterRange
    <2>. QED  BY <1>2, <2>4 DEF NextCounter
  <1>. QED  BY <1>1, <1>2

(* The end of the readable part of a log is a place the cursor may take. *)
LEMMA EndOfOK ==
    ASSUME NEW log \in Seq(Slots), Ordered(log), NEW n \in Nat, n <= Len(log),
           \A i \in DOMAIN log : i <= n => log[i].kind \notin Unreadable,
           n < Len(log) => n + 1 = Len(log)
    PROVE  EndOf(log, n) \in HeaderSize .. SectorSize /\ Behind(log, EndOf(log, n))
  <1>1. Len(log) \in Nat
    BY LenProperties
  <1>2. \A i \in 1 .. Len(log) :
           log[i].end \in Int /\ log[i].end > HeaderSize /\ log[i].end <= SectorSize
    BY LenProperties, SlotEnd
  <1>3. EndOf(log, n) \in HeaderSize .. SectorSize
    BY <1>2, Sizes DEF EndOf
  <1>4. n \in Int /\ 0 <= n /\ n <= Len(log) /\ (n = Len(log) \/ n + 1 = Len(log))
    BY <1>1
  <1>. DEFINE end == EndOf(log, n)
  <1>5. n > 0 => end = log[n].end
    BY <1>4 DEF EndOf
  <1>. HIDE DEF end
  <1>6. ASSUME NEW i \in 1 .. n
        PROVE  log[i].end <= end
    <2>1. i \in 1 .. Len(log) /\ n \in 1 .. Len(log) /\ i <= n
      BY <1>1, <1>4
    <2>2. i < n => log[i].end < log[n].end
      BY <1>1, <2>1 DEF Ordered
    <2>3. log[i].end \in Int /\ log[n].end \in Int
      BY <1>2, <2>1
    <2>. QED  BY <1>4, <1>5, <2>1, <2>2, <2>3
  <1>7. ASSUME NEW i \in 1 .. Len(log), log[i].kind \in Unreadable
        PROVE  log[i].end > end
    <2>1. i = n + 1 /\ i = Len(log)
      BY <1>1, <1>4, <1>7
    <2>2. log[i].end \in Int /\ log[i].end > HeaderSize
      BY <1>2, Sizes
    <2>3. CASE n = 0
      <3>1. i = 1 /\ end = HeaderSize
        BY <2>1, <2>3 DEF EndOf, end
      <3>. QED  BY <2>2, <3>1
    <2>4. CASE n > 0
      <3>1. n \in DOMAIN log /\ i \in DOMAIN log /\ n < i
        BY <1>1, <1>4, <2>1, <2>4
      <3>. QED  BY <1>5, <2>4, <3>1, <1>2, <1>1, Sizes DEF Ordered
    <2>. QED  BY <1>4, <2>3, <2>4
  <1>8. \A i \in 1 .. Len(log) : i < Len(log) => i \in 1 .. n
    BY <1>1, <1>4
  <1>. QED  BY <1>1, <1>3, <1>6, <1>7, <1>8 DEF Behind, end

LEMMA WriteCursorOK ==
    ASSUME NEW log \in Seq(Slots), Ordered(log), NEW view
    PROVE  /\ FindWriteCursor(log, view) \in HeaderSize .. SectorSize
           /\ Behind(log, FindWriteCursor(log, view))
  <1>. DEFINE free == {i \in DOMAIN log : /\ log[i].kind = "dirty" /\ i # view.cut
                                          /\ Reached(log, i - 1, view)}
              here == CHOOSE i \in free : TRUE
  <1>1. Len(log) \in Nat
    BY LenProperties
  <1>2. CASE free # {}
    <2>1. here \in 1 .. Len(log) /\ log[here].kind = "dirty"
      BY <1>2, LenProperties
    <2>2. here = Len(log)
      BY <1>1, <2>1 DEF Ordered, Unreadable
    <2>a. FindWriteCursor(log, view) = EndOf(log, here - 1)
      BY <1>2 DEF FindWriteCursor
    <2>. HIDE DEF here
    <2>3. here - 1 \in Nat /\ here - 1 <= Len(log) /\ (here - 1) + 1 = Len(log)
      BY <1>1, <2>1, <2>2
    <2>4. \A i \in DOMAIN log : i <= here - 1 => log[i].kind \notin Unreadable
      BY <1>1, <2>1, <2>2 DEF Ordered
    <2>5. EndOf(log, here - 1) \in HeaderSize .. SectorSize /\ Behind(log, EndOf(log, here - 1))
      BY <2>3, <2>4, EndOfOK
    <2>. QED  BY <2>a, <2>5
  <1>3. CASE free = {} /\ Reached(log, Len(log), view) /\ view.cut # Len(log) + 1
    <2>1. \A i \in DOMAIN log : i <= Len(log) => log[i].kind \notin Unreadable
      <3>1. \A i \in 1 .. Len(log) : log[i].kind \in WellFormed
        BY <1>3 DEF Reached
      <3>. QED  BY <3>1, LenProperties DEF WellFormed, Unreadable
    <2>2. /\ EndOf(log, Len(log)) \in HeaderSize .. SectorSize
          /\ Behind(log, EndOf(log, Len(log)))
      BY <1>1, <2>1, EndOfOK
    <2>3. FindWriteCursor(log, view) = EndOf(log, Len(log))
      BY <1>3 DEF FindWriteCursor
    <2>. QED  BY <2>2, <2>3
  <1>4. CASE free = {} /\ ~(Reached(log, Len(log), view) /\ view.cut # Len(log) + 1)
    <2>1. FindWriteCursor(log, view) = SectorSize
      BY <1>4 DEF FindWriteCursor
    <2>2. SectorSize \in HeaderSize .. SectorSize
      BY Sizes
    <2>3. \A i \in DOMAIN log : log[i].end <= SectorSize
      BY LenProperties, SlotEnd
    <2>. QED  BY <2>1, <2>2, <2>3 DEF Behind
  <1>. QED  BY <1>2, <1>3, <1>4
-----------------------------------------------------------------------------
(***************************************************************************)
(* What a flash operation leaves behind keeps the invariant's part on the  *)
(* media, whether it completes or not.                                     *)
(***************************************************************************)
LEMMA RecordSpanOK ==
    ASSUME TypeOK
    PROVE  /\ RecordSpan \in Int /\ 1 <= RecordSpan /\ RecordSpan <= MaxSpan
           /\ cursor \in Int /\ HeaderSize <= cursor /\ cursor <= SectorSize
  <1>1. Span[call.blk] \in 1 .. MaxSpan
    BY Sizes DEF TypeOK, CallRecords
  <1>2. cursor \in HeaderSize .. SectorSize
    BY DEF TypeOK
  <1>. QED  BY <1>1, <1>2, Sizes DEF RecordSpan

LEMMA SpanOfOK ==
    ASSUME NEW slot \in Slots
    PROVE  SpanOf(slot) \in Int /\ 1 <= SpanOf(slot) /\ SpanOf(slot) <= MaxSpan
  <1>1. slot.blk \in Blocks
    BY DEF Slots
  <1>. QED  BY <1>1, Sizes DEF SpanOf

(* The slots an append may leave at the cursor. *)
LEMMA AppendedOK ==
    ASSUME TypeOK, Fits
    PROVE  LET end == cursor + RecordSpan
           IN  /\ cursor < end /\ cursor < SectorSize /\ end \in HeaderSize .. SectorSize
               /\ \A kind \in {"bare", "valid", "invalid"} :
                     /\ Record(kind) \in Slots
                     /\ Record(kind).end = end
                     /\ Record(kind).kind \notin Unreadable
               /\ \A kind \in Unreadable :
                     Lost(kind, end) \in Slots /\ Lost(kind, end).end = end
  <1>1. /\ RecordSpan \in Int /\ 1 <= RecordSpan
        /\ cursor \in Int /\ HeaderSize <= cursor
    BY RecordSpanOK
  <1>. DEFINE end == cursor + RecordSpan
  <1>2. end \in HeaderSize + 1 .. SectorSize /\ cursor < end /\ cursor < SectorSize
    BY <1>1, Sizes DEF Fits
  <1>. HIDE DEF end
  <1>3. call.blk \in Blocks /\ call.val \in Values \cup {Stub} /\ counter \in Counters
    BY DEF TypeOK, CallRecords
  <1>4. \A kind \in {"bare", "valid", "invalid"} :
           /\ Record(kind) \in Slots /\ Record(kind).end = end
           /\ Record(kind).kind \notin Unreadable
    BY <1>2, <1>3 DEF Record, Slots, WellFormed, Unreadable, end
  <1>5. 1 \in Blocks /\ 0 \in Counters
    BY Sizes DEF Blocks, Counters
  <1>6. \A kind \in Unreadable : Lost(kind, end) \in Slots /\ Lost(kind, end).end = end
    BY <1>2, <1>5 DEF Lost, Slots, Unreadable
  <1>7. end \in HeaderSize .. SectorSize
    BY <1>2, Sizes
  <1>. QED  BY <1>2, <1>4, <1>6, <1>7 DEF end

(* A log of one damaged slot, all that an interrupted erase may leave. *)
LEMMA DebrisOK ==
    ASSUME NEW c \in HeaderSize .. SectorSize
    PROVE  /\ <<Lost("junk", SectorSize)>> \in Seq(Slots)
           /\ Ordered(<<Lost("junk", SectorSize)>>)
           /\ Behind(<<Lost("junk", SectorSize)>>, c)
  <1>. DEFINE slot == Lost("junk", SectorSize)
  <1>1. 1 \in Blocks /\ 0 \in Counters /\ SectorSize \in HeaderSize + 1 .. SectorSize
    BY Sizes DEF Blocks, Counters
  <1>2. slot \in Slots /\ slot.end = SectorSize
    BY <1>1 DEF Lost, Slots
  <1>. HIDE DEF slot
  <1>3. <<slot>> \in Seq(Slots)
    BY <1>2
  <1>4. Len(<<slot>>) = 1 /\ DOMAIN <<slot>> = {1} /\ <<slot>>[1] = slot
    OBVIOUS
  <1>5. Ordered(<<slot>>)
    BY <1>4 DEF Ordered
  <1>6. Behind(<<slot>>, c)
    BY <1>2, <1>4, Sizes DEF Behind
  <1>. QED  BY <1>3, <1>5, <1>6 DEF slot

(* One sector gets another log, is erased, or gets a header. *)
LEMMA WithLogOK ==
    ASSUME MediaOK(media), NEW s \in Sectors, NEW log \in Seq(Slots), Ordered(log)
    PROVE  /\ MediaOK(WithLog(s, log))
           /\ WithLog(s, log)[s].log = log
           /\ \A r \in Sectors : r # s => WithLog(s, log)[r] = media[r]
  <1>. DEFINE m == WithLog(s, log)
  <1>1. \A r \in Sectors : media[r] \in SectorStates /\ Ordered(media[r].log)
    BY DEF MediaOK
  <1>2. media[s].header \in Sequences \cup {NoHeader}
    BY <1>1 DEF SectorStates
  <1>3. /\ m \in [Sectors -> SectorStates] /\ m[s].log = log
        /\ \A r \in Sectors : r # s => m[r] = media[r]
    BY <1>1, <1>2 DEF MediaOK, WithLog, SectorStates
  <1>. HIDE DEF m
  <1>4. \A r \in Sectors : Ordered(m[r].log)
    BY <1>1, <1>3
  <1>5. MediaOK(m)
    BY <1>3, <1>4 DEF MediaOK
  <1>. QED  BY <1>3, <1>5 DEF m

LEMMA ReplacedOK ==
    ASSUME MediaOK(media), NEW s \in Sectors, NEW sector \in SectorStates,
           Ordered(sector.log)
    PROVE  /\ MediaOK([media EXCEPT ![s] = sector])
           /\ [media EXCEPT ![s] = sector][s] = sector
           /\ \A r \in Sectors : r # s => [media EXCEPT ![s] = sector][r] = media[r]
  BY DEF MediaOK

LEMMA ErasedOK ==
    ASSUME MediaOK(media), NEW s \in Sectors
    PROVE  /\ MediaOK([media EXCEPT ![s] = Erased])
           /\ [media EXCEPT ![s] = Erased][s].log = <<>>
           /\ \A r \in Sectors : r # s => [media EXCEPT ![s] = Erased][r] = media[r]
  <1>1. Erased \in SectorStates /\ Ordered(Erased.log) /\ Erased.log = <<>>
    BY EmptyLog DEF Erased
  <1>. QED  BY <1>1, ReplacedOK

LEMMA SealedOK ==
    ASSUME MediaOK(media), NEW s \in Sectors, NEW seq \in Sequences
    PROVE  /\ MediaOK(Sealed(s, seq))
           /\ \A r \in Sectors : Sealed(s, seq)[r].log = media[r].log
  <1>1. media[s].log \in Seq(Slots)
    BY DEF MediaOK, SectorStates
  <1>2. /\ Sealed(s, seq) \in [Sectors -> SectorStates]
        /\ \A r \in Sectors : Sealed(s, seq)[r].log = media[r].log
    BY <1>1 DEF MediaOK, Sealed, SectorStates
  <1>. QED  BY <1>2 DEF MediaOK

LEMMA TornEraseOK ==
    ASSUME MediaOK(media), NEW s \in Sectors, NEW m \in TornErase(s),
           NEW a \in Sectors, NEW c \in HeaderSize .. SectorSize
    PROVE  /\ MediaOK(m)
           /\ Behind(Log(a), c) => Behind(m[a].log, c)
  <1>. DEFINE debris == <<Lost("junk", SectorSize)>>
              states == {media[s], Erased, [header |-> media[s].header, log |-> debris],
                         [header |-> NoHeader, log |-> debris]}
  <1>1. PICK sector \in states : m = [media EXCEPT ![s] = sector]
    BY DEF TornErase
  <1>2. media[s] \in SectorStates /\ Ordered(media[s].log)
    BY DEF MediaOK
  <1>3. debris \in Seq(Slots) /\ Ordered(debris) /\ Behind(debris, c)
    BY DebrisOK
  <1>4. Erased \in SectorStates /\ Ordered(Erased.log) /\ Behind(Erased.log, c)
    BY EmptyLog DEF Erased
  <1>. HIDE DEF debris
  <1>5. sector \in SectorStates /\ Ordered(sector.log)
        /\ (sector = media[s] \/ Behind(sector.log, c))
    BY <1>2, <1>3, <1>4 DEF SectorStates
  <1>. HIDE DEF states
  <1>6. MediaOK(m) /\ m[s] = sector /\ \A r \in Sectors : r # s => m[r] = media[r]
    <2>1. sector \in SectorStates /\ Ordered(sector.log)
      BY <1>5
    <2>2. /\ MediaOK([media EXCEPT ![s] = sector])
          /\ [media EXCEPT ![s] = sector][s] = sector
          /\ \A r \in Sectors : r # s => [media EXCEPT ![s] = sector][r] = media[r]
      BY <2>1, ReplacedOK
    <2>. QED  BY <1>1, <2>2
  <1>. QED  BY <1>5, <1>6 DEF Log

(* Whatever the supply takes away or an operation fails to complete. *)
LEMMA LossOK ==
    ASSUME IInv, NEW m \in AfterLoss \cup AfterFailure
    PROVE  /\ MediaOK(m)
           /\ initialised => Behind(m[active].log, cursor)
  <1>1. /\ TypeOK /\ MediaOK(media) /\ active \in Sectors /\ Other(active) \in Sectors
        /\ Other(active) # active
        /\ cursor \in HeaderSize .. SectorSize
        /\ initialised => Behind(Log(active), cursor)
        /\ \A s \in Sectors : Log(s) \in Seq(Slots) /\ Ordered(Log(s))
    BY DEF IInv, TypeOK, Sectors, Other, MediaOK, SectorStates, Log
  <1>2. m = media \/ m \in Torn \/ m \in Sealing
    BY DEF AfterLoss, AfterFailure
  <1>3. CASE m = media
    BY <1>1, <1>3 DEF Log
  <1>4. CASE m \in Sealing
    <2>1. NextSequence \in Sequences /\ 1 \in Sequences
      BY SequenceRange, Sizes DEF NextSequence, TypeOK, IInv, Sequences
    <2>2. m = Sealed(Other(active), NextSequence) \/ m = Sealed(0, 1)
      BY <1>4 DEF Sealing
    <2>3. MediaOK(m) /\ \A s \in Sectors : m[s].log = media[s].log
      BY <1>1, <2>1, <2>2, SealedOK DEF Sectors
    <2>. QED  BY <1>1, <2>3 DEF Log
  <1>5. CASE m \in Torn
    <2>1. CASE pc = "header" /\ Fits
      <3>. DEFINE end == cursor + RecordSpan
      <3>1. PICK slot \in Slots : /\ m = WithLog(active, Place(Log(active), slot))
                                   /\ slot.end = end
        BY <1>1, <1>5, <2>1, AppendedOK DEF Torn, Unreadable
      <3>2. cursor < end /\ cursor < SectorSize
        BY <1>1, <2>1, AppendedOK
      <3>3. initialised
        BY <2>1 DEF IInv, Phases, Working
      <3>. HIDE DEF end
      <3>4. /\ Place(Log(active), slot) \in Seq(Slots)
            /\ Ordered(Place(Log(active), slot))
            /\ Behind(Place(Log(active), slot), cursor)
        BY <1>1, <3>1, <3>2, <3>3, PlaceOK
      <3>. QED  BY <1>1, <3>1, <3>4, WithLogOK
    <2>2. CASE pc = "commit"
      <3>1. Fits /\ initialised
        BY <2>2 DEF IInv, Room, Phases, Working
      <3>. DEFINE end == cursor + RecordSpan
      <3>2. PICK slot \in Slots : /\ m = WithLog(active, Place(Log(active), slot))
                                   /\ slot.end = end
        BY <1>1, <1>5, <2>2, <3>1, AppendedOK DEF Torn, FinalKind
      <3>3. cursor < end /\ cursor < SectorSize
        BY <1>1, <3>1, AppendedOK
      <3>. HIDE DEF end
      <3>4. /\ Place(Log(active), slot) \in Seq(Slots)
            /\ Ordered(Place(Log(active), slot))
            /\ Behind(Place(Log(active), slot), cursor)
        BY <1>1, <3>1, <3>2, <3>3, PlaceOK
      <3>. QED  BY <1>1, <3>2, <3>4, WithLogOK
    <2>3. CASE pc \in {"eraseTarget", "reclaim", "dropLoser", "formatFirst", "formatSecond"}
      <3>1. \E s \in Sectors : m \in TornErase(s)
        BY <1>1, <1>5, <2>3 DEF Torn, Sectors
      <3>. QED  BY <1>1, <3>1, TornEraseOK
    <2>4. CASE pc = "copy"
      <3>. DEFINE log == Log(Other(active))
                  slot == Lost("junk", SectorSize)
      <3>1. m = WithLog(Other(active), Append(log, slot))
        BY <1>5, <2>4 DEF Torn
      <3>2. /\ log \in Seq(Slots) /\ Ordered(log)
            /\ \A i \in DOMAIN log : log[i].kind \notin Unreadable /\ log[i].end <= copyEnd
        BY <1>1, <2>4 DEF IInv, Target
      <3>3. slot \in Slots /\ slot.end = SectorSize
        <4>1. 1 \in Blocks /\ 0 \in Counters /\ SectorSize \in HeaderSize + 1 .. SectorSize
          BY Sizes DEF Blocks, Counters
        <4>. QED  BY <4>1 DEF Lost, Slots
      <3>4. copyEnd \in Int /\ copyEnd < SectorSize
        <4>1. /\ copying \in Int /\ copying - 1 <= NBlocks /\ copyEnd \in Int
              /\ copyEnd <= HeaderSize + (copying - 1) * MaxSpan
          BY <1>1, <2>4, Sizes DEF IInv, Target, TypeOK
        <4>2. (copying - 1) * MaxSpan <= NBlocks * MaxSpan
          BY <4>1, Sizes
        <4>3. (copying - 1) * MaxSpan \in Int
          BY <4>1, Sizes
        <4>. QED  BY <4>1, <4>2, <4>3, Sizes
      <3>5. \A i \in DOMAIN log : log[i].end \in Int
        BY <3>2, SlotEnd, LenProperties
      <3>6. \A i \in DOMAIN log : log[i].kind \notin Unreadable /\ log[i].end < slot.end
        BY <3>2, <3>3, <3>4, <3>5, Sizes
      <3>. HIDE DEF log, slot
      <3>7. Append(log, slot) \in Seq(Slots) /\ Ordered(Append(log, slot))
        BY <3>2, <3>3, <3>6, AppendOK
      <3>8. MediaOK(m) /\ m[active] = media[active]
        BY <1>1, <3>1, <3>7, WithLogOK
      <3>. QED  BY <1>1, <3>8 DEF Log
    <2>. QED  BY <1>5, <2>1, <2>2, <2>3, <2>4 DEF Torn
  <1>. QED  BY <1>2, <1>3, <1>4, <1>5
-----------------------------------------------------------------------------
(***************************************************************************)
(* The invariant holds initially.                                          *)
(***************************************************************************)
LEMMA InitOK == ASSUME Init PROVE IInv
  <1>1. Erased \in SectorStates /\ Ordered(Erased.log)
    BY EmptyLog DEF Erased
  <1>2. MediaOK(media)
    BY <1>1 DEF Init, MediaOK
  <1>3. 0 \in Sequences /\ 0 \in Counters /\ 1 \in Blocks /\ 1 \in 1 .. NBlocks + 1
        /\ HeaderSize \in HeaderSize .. SectorSize
    BY Sizes DEF Sequences, Counters, Blocks
  <1>4. TypeOK
    BY <1>2, <1>3 DEF Init, TypeOK, MediaOK, PCs, Sectors, NoCall, CallRecords, Replies
  <1>5. Phases /\ Target /\ Room
    BY DEF Init, Phases, Target, Room, Booting, Working
  <1>. QED  BY <1>2, <1>4, <1>5 DEF IInv, Init

(***************************************************************************)
(* Most steps do not touch the media: they keep the invariant when they    *)
(* keep its parts on the type and the phase.                               *)
(***************************************************************************)
LEMMA QuietOK ==
    ASSUME IInv, TypeOK', Phases', Target', Room',
           UNCHANGED <<media, active, cursor>>,
           initialised' => initialised
    PROVE  IInv'
  BY DEF IInv, Log, MediaOK

(* A step after which no call is in progress. *)
LEMMA RestOK ==
    ASSUME pc' \in {"idle", "off", "formatFirst", "admit", "eraseTarget"},
           pc' \in Working => initialised',
           pc' \in Booting => ~initialised'
    PROVE  Phases' /\ Target' /\ Room'
  BY DEF Phases, Target, Room

LEMMA FinishOK ==
    ASSUME TypeOK, NEW answer \in Replies, Finish(answer)
    PROVE  /\ pc' = "idle" /\ pc' \in PCs
           /\ call' \in CallRecords /\ reply' \in Replies /\ counter' \in Counters
           /\ cause' \in {"direct", "poison", "early", "retry"}
           /\ copying' \in 1 .. NBlocks + 1
           /\ copyEnd' \in HeaderSize .. SectorSize
           /\ Phases' /\ Target' /\ Room'
  <1>1. 0 \in Counters /\ 1 \in Blocks /\ 1 \in 1 .. NBlocks + 1
        /\ HeaderSize \in HeaderSize .. SectorSize
    BY Sizes DEF Counters, Blocks
  <1>2. Phases' /\ Target' /\ Room'
    BY DEF Finish, Phases, Target, Room, Booting, Working
  <1>. QED  BY <1>1, <1>2 DEF Finish, PCs, NoCall, CallRecords

LEMMA Basics ==
    ASSUME IInv
    PROVE  /\ TypeOK /\ MediaOK(media) /\ active \in Sectors /\ Other(active) \in Sectors
           /\ Other(active) # active /\ Other(Other(active)) = active
           /\ initialised => Behind(Log(active), cursor)
           /\ \A s \in Sectors : Log(s) \in Seq(Slots) /\ Ordered(Log(s))
           /\ \A s \in Sectors : media[s].header \in Sequences \cup {NoHeader}
  BY DEF IInv, TypeOK, Sectors, Other, MediaOK, SectorStates, Log

-----------------------------------------------------------------------------
(***************************************************************************)
(* One lemma per group of actions.                                         *)
(***************************************************************************)
LEMMA StartingOK == ASSUME IInv, Starting PROVE IInv'
  <1>0. TypeOK /\ MediaOK(media) /\ active \in Sectors /\ Other(active) \in Sectors
        /\ Other(active) # active
    BY Basics
  <1>1. CASE ChooseSector
    <2>1. ~initialised /\ initialised' = initialised /\ media' = media
      BY <1>1 DEF ChooseSector, IInv, Phases, Booting
    <2>2. PICK unread \in SUBSET Sectors :
            LET good == {s \in Sectors : media[s].header # NoHeader} \ unread
                newest == IF good # Sectors THEN CHOOSE s \in good : TRUE
                          ELSE IF Newer(media[1].header, media[0].header, SequenceMod)
                               THEN 1 ELSE 0
            IN  IF good = {}
                THEN pc' = "formatFirst" /\ UNCHANGED <<active, sequence>>
                ELSE /\ active' = newest
                     /\ sequence' = media[newest].header
                     /\ pc' = IF good = Sectors THEN "dropLoser" ELSE "mount"
      BY <1>1 DEF ChooseSector
    <2>. DEFINE good == {s \in Sectors : media[s].header # NoHeader} \ unread
                newest == IF good # Sectors THEN CHOOSE s \in good : TRUE
                          ELSE IF Newer(media[1].header, media[0].header, SequenceMod)
                               THEN 1 ELSE 0
    <2>3. /\ active' \in Sectors /\ sequence' \in Sequences
          /\ pc' \in {"formatFirst", "dropLoser", "mount"}
      <3>1. CASE good = {}
        BY <1>0, <2>2, <3>1 DEF TypeOK
      <3>2. CASE good # {}
        <4>1. newest \in good
          BY <3>2 DEF Sectors
        <4>2. newest \in Sectors /\ media[newest].header # NoHeader
          BY <4>1
        <4>3. media[newest].header \in Sequences
          BY <4>2, Basics
        <4>. QED  BY <2>2, <3>2, <4>2, <4>3
      <3>. QED  BY <3>1, <3>2
    <2>4. TypeOK'
      BY <1>0, <1>1, <2>1, <2>3 DEF ChooseSector, TypeOK, PCs, gc
    <2>5. Phases' /\ Target' /\ Room'
      BY <2>1, <2>3 DEF Phases, Target, Room, Booting, Working
    <2>. QED  BY <1>0, <2>1, <2>4, <2>5 DEF IInv, MediaOK
  <1>2. CASE DropLoser
    <2>1. ~initialised /\ ~initialised' /\ pc' = "mount"
      BY <1>2 DEF DropLoser, IInv, Phases, Booting, ram
    <2>2. MediaOK(media')
      BY <1>0, <1>2, ErasedOK, LossOK DEF DropLoser
    <2>3. TypeOK'
      BY <1>0, <1>2, <2>2 DEF DropLoser, TypeOK, MediaOK, PCs, ram, gc
    <2>4. Phases' /\ Target' /\ Room'
      BY <2>1 DEF Phases, Target, Room, Booting, Working
    <2>. QED  BY <2>1, <2>2, <2>3, <2>4 DEF IInv
  <1>3. CASE Mount
    <2>1. media' = media /\ active' = active /\ initialised' = TRUE /\ pc' = "idle"
      BY <1>3 DEF Mount
    <2>2. cursor' \in HeaderSize .. SectorSize /\ Behind(Log(active), cursor')
      BY <1>0, <1>3, Basics, WriteCursorOK DEF Mount
    <2>3. TypeOK'
      BY <1>0, <1>3, <2>2 DEF Mount, TypeOK, PCs, gc
    <2>4. Phases' /\ Target' /\ Room'
      BY <2>1 DEF Phases, Target, Room, Booting, Working
    <2>. QED  BY <1>0, <2>1, <2>2, <2>3, <2>4 DEF IInv, Log
  <1>. QED  BY <1>1, <1>2, <1>3 DEF Starting

LEMMA FormattingOK == ASSUME IInv, Formatting PROVE IInv'
  <1>0. TypeOK /\ MediaOK(media) /\ active \in Sectors /\ 0 \in Sectors /\ 1 \in Sectors
        /\ cursor \in HeaderSize .. SectorSize
    BY Basics DEF Sectors, TypeOK
  <1>1. CASE FormatErase
    <2>1. /\ pc' \in {"formatSecond", "formatHeader"}
          /\ UNCHANGED <<initialised, active, cursor>>
          /\ \E s \in Sectors : media' = [media EXCEPT ![s] = Erased]
      BY <1>0, <1>1 DEF FormatErase, ram
    <2>2. MediaOK(media')
      BY <1>0, <2>1, ErasedOK
    <2>3. initialised => Behind(media'[active].log, cursor)
      BY <1>0, <2>1, ErasedOK, EmptyLog, Basics DEF Log
    <2>4. TypeOK'
      BY <1>0, <1>1, <2>2 DEF FormatErase, TypeOK, MediaOK, PCs, ram, gc
    <2>5. Log(0)' = <<>>
      BY ZenonT(40), <1>0, <1>1, ErasedOK DEF FormatErase, Log, IInv, Target
    <2>6. Phases' /\ Target' /\ Room'
      BY <2>1, <2>5 DEF Phases, Target, Room, Booting, Working
    <2>. QED  BY <2>1, <2>2, <2>3, <2>4, <2>6 DEF IInv, Log
  <1>2. CASE FormatSeal
    <2>. DEFINE answer == IF call.kind = "format" THEN Done ELSE reply
    <2>1. answer \in Replies
      BY <1>0 DEF TypeOK, Replies
    <2>2. Finish(answer)
      BY <1>2 DEF FormatSeal
    <2>. HIDE DEF answer
    <2>3. /\ pc' \in PCs
          /\ call' \in CallRecords /\ reply' \in Replies /\ counter' \in Counters
          /\ cause' \in {"direct", "poison", "early", "retry"}
          /\ copying' \in 1 .. NBlocks + 1
          /\ copyEnd' \in HeaderSize .. SectorSize
          /\ Phases' /\ Target' /\ Room'
      BY <1>0, <2>1, <2>2, FinishOK
    <2>4. 1 \in Sequences /\ HeaderSize \in HeaderSize .. SectorSize
      BY Sizes DEF Sequences
    <2>5. MediaOK(media') /\ media'[0].log = media[0].log
      BY <1>0, <1>2, <2>4, SealedOK DEF FormatSeal
    <2>6. TypeOK'
      BY <1>0, <1>2, <2>3, <2>4, <2>5 DEF FormatSeal, TypeOK, MediaOK
    <2>7. media[0].log = <<>>
      BY <1>2 DEF FormatSeal, IInv, Target, Log
    <2>8. Behind(media'[active'].log, cursor')
      BY <1>2, <2>5, <2>7, EmptyLog DEF FormatSeal
    <2>. QED  BY <2>3, <2>5, <2>6, <2>8 DEF IInv, Log
  <1>3. CASE FormatFails
    <2>. DEFINE answer == IF call.kind = "format" THEN Failed ELSE reply
    <2>1. answer \in Replies
      BY <1>0 DEF TypeOK, Replies
    <2>2. Finish(answer)
      BY <1>3 DEF FormatFails
    <2>. HIDE DEF answer
    <2>3. /\ pc' \in PCs
          /\ call' \in CallRecords /\ reply' \in Replies /\ counter' \in Counters
          /\ cause' \in {"direct", "poison", "early", "retry"}
          /\ copying' \in 1 .. NBlocks + 1
          /\ copyEnd' \in HeaderSize .. SectorSize
          /\ Phases' /\ Target' /\ Room'
      BY <1>0, <2>1, <2>2, FinishOK
    <2>4. MediaOK(media') /\ (initialised => Behind(media'[active].log, cursor))
      BY <1>3, LossOK DEF FormatFails
    <2>5. TypeOK'
      BY <1>0, <1>3, <2>3, <2>4 DEF FormatFails, TypeOK, MediaOK, ram
    <2>. QED  BY <1>3, <2>3, <2>4, <2>5 DEF IInv, Log, FormatFails, ram
  <1>. QED  BY <1>1, <1>2, <1>3 DEF Formatting

LEMMA CopyBlockOK == ASSUME IInv, CopyBlock PROVE IInv'
  <1>0. TypeOK /\ MediaOK(media) /\ active \in Sectors /\ Other(active) \in Sectors
        /\ Other(active) # active
        /\ \A s \in Sectors : Log(s) \in Seq(Slots) /\ Ordered(Log(s))
    BY Basics
  <1>. DEFINE log == Log(active)
              target == Log(Other(active))
  <1>1. /\ pc = "copy" /\ initialised
        /\ UNCHANGED <<env, initialised, active, sequence, cursor, poisoned,
                       call, cause, counter, reply>>
        /\ pc' = IF copying' > NBlocks THEN "seal" ELSE "copy"
    BY DEF CopyBlock, ram, IInv, Phases, Working
  <1>2. /\ copying \in 1 .. NBlocks /\ copyEnd \in HeaderSize .. SectorSize
        /\ copyEnd <= HeaderSize + (copying - 1) * MaxSpan
        /\ \A i \in DOMAIN target :
              target[i].kind \notin Unreadable /\ target[i].end <= copyEnd
    BY <1>0, <1>1, Sizes DEF IInv, Target, TypeOK
  <1>3. PICK view \in Views(log) :
          LET found == FindNewestRecord(log, copying, view)
              slot == log[CHOOSE i \in found : TRUE]
              end == copyEnd + SpanOf(slot)
              Pass(n) == copying' = n /\ UNCHANGED <<media, copyEnd>>
          IN  \/ Pass(copying + 1)
              \/ Pass(NBlocks + 1)
              \/ /\ found # {} /\ end <= SectorSize
                 /\ media' = WithLog(Other(active), Append(target, [slot EXCEPT !.end = end]))
                 /\ copyEnd' = end
                 /\ copying' = copying + 1
    BY DEF CopyBlock
  <1>. DEFINE found == FindNewestRecord(log, copying, view)
              slot == log[CHOOSE i \in found : TRUE]
              end == copyEnd + SpanOf(slot)
              copy == [slot EXCEPT !.end = end]
  <1>4. /\ (copying - 1) * MaxSpan \in Int /\ (copying - 1) * MaxSpan <= NBlocks * MaxSpan
        /\ ((copying + 1) - 1) * MaxSpan = (copying - 1) * MaxSpan + MaxSpan
        /\ ((NBlocks + 1) - 1) * MaxSpan = NBlocks * MaxSpan
    BY <1>2, Sizes
  <1>. HIDE DEF found, slot, end, copy, log, target
  <1>5. /\ MediaOK(media') /\ media'[active] = media[active]
        /\ copying' \in 1 .. NBlocks + 1 /\ copyEnd' \in HeaderSize .. SectorSize
        /\ \A i \in DOMAIN Log(Other(active))' :
              /\ Log(Other(active))'[i].kind \notin Unreadable
              /\ Log(Other(active))'[i].end <= copyEnd'
        /\ copyEnd' <= HeaderSize + (copying' - 1) * MaxSpan
    <2>1. CASE copying' \in {copying + 1, NBlocks + 1} /\ UNCHANGED <<media, copyEnd>>
      <3>1. copying' \in 1 .. NBlocks + 1
        BY <1>2, <2>1, Sizes
      <3>2. copyEnd' <= HeaderSize + (copying' - 1) * MaxSpan
        <4>1. copyEnd \in Int /\ copyEnd' = copyEnd
          BY <1>2, <2>1, Sizes
        <4>2. CASE copying' = copying + 1
          BY <1>2, <1>4, <4>1, <4>2, Sizes
        <4>3. CASE copying' = NBlocks + 1
          BY <1>2, <1>4, <4>1, <4>3, Sizes
        <4>. QED  BY <2>1, <4>2, <4>3
      <3>3. Log(Other(active))' = target
        BY <1>1, <2>1 DEF Log, Other, target
      <3>. QED  BY <1>0, <1>2, <2>1, <3>1, <3>2, <3>3
    <2>2. CASE /\ found # {} /\ end <= SectorSize
               /\ media' = WithLog(Other(active), Append(target, copy))
               /\ copyEnd' = end
               /\ copying' = copying + 1
      <3>1. slot \in Slots /\ slot.kind = "valid"
        <4>1. (CHOOSE i \in found : TRUE) \in DOMAIN log
              /\ log[CHOOSE i \in found : TRUE].kind = "valid"
          BY <2>2, NewestOK DEF found
        <4>. QED  BY <1>0, <4>1, LenProperties DEF slot, log
      <3>2. SpanOf(slot) \in Int /\ 1 <= SpanOf(slot) /\ SpanOf(slot) <= MaxSpan
        BY <3>1, SpanOfOK
      <3>3. copyEnd \in Int /\ HeaderSize <= copyEnd
        BY <1>2, Sizes
      <3>4. end \in HeaderSize + 1 .. SectorSize /\ copyEnd < end
        BY <2>2, <3>2, <3>3, Sizes DEF end
      <3>5. copy \in Slots /\ copy.end = end /\ copy.kind = "valid"
        BY <3>1, <3>4 DEF Slots, copy
      <3>6. target \in Seq(Slots) /\ Ordered(target)
        BY <1>0 DEF target
      <3>7. \A i \in DOMAIN target : target[i].end \in Int
        BY <3>6, LenProperties, SlotEnd
      <3>8. \A i \in DOMAIN target : target[i].kind \notin Unreadable /\ target[i].end < copy.end
        BY <1>2, <3>3, <3>4, <3>5, <3>7, Sizes
      <3>9. /\ Append(target, copy) \in Seq(Slots)
            /\ Ordered(Append(target, copy))
            /\ DOMAIN Append(target, copy) = 1 .. Len(target) + 1
            /\ \A i \in DOMAIN target : Append(target, copy)[i] = target[i]
            /\ Append(target, copy)[Len(target) + 1] = copy
        BY <3>5, <3>6, <3>8, AppendOK
      <3>10. \A i \in 1 .. Len(target) + 1 : i \in DOMAIN target \/ i = Len(target) + 1
        BY <3>6, LenProperties
      <3>11. \A i \in DOMAIN Append(target, copy) :
                /\ Append(target, copy)[i].kind \notin Unreadable
                /\ Append(target, copy)[i].end <= end
        BY <3>4, <3>5, <3>7, <3>8, <3>9, <3>10, Sizes DEF Unreadable
      <3>12. /\ MediaOK(media') /\ media'[active] = media[active]
             /\ Log(Other(active))' = Append(target, copy)
        BY <1>0, <1>1, <2>2, <3>9, WithLogOK DEF Log, Other
      <3>13. copying' \in 1 .. NBlocks + 1 /\ copyEnd' \in HeaderSize .. SectorSize
        BY <1>2, <2>2, <3>4, Sizes
      <3>14. copyEnd' <= HeaderSize + (copying' - 1) * MaxSpan
        BY <1>2, <1>4, <2>2, <3>2, <3>3, Sizes DEF end
      <3>. QED  BY <2>2, <3>11, <3>12, <3>13, <3>14
    <2>. QED  BY <1>3, <2>1, <2>2 DEF found, slot, end, copy
  <1>6. TypeOK'
    BY <1>0, <1>1, <1>5 DEF TypeOK, MediaOK, PCs
  <1>7. Phases' /\ Room'
    BY <1>1 DEF Phases, Room, Booting, Working
  <1>8. Target'
    <2>1. pc' = "copy" => copying' <= NBlocks
      BY <1>1, <1>5, Sizes
    <2>. QED  BY <1>1, <1>5, <2>1 DEF Target
  <1>9. initialised' => Behind(Log(active)', cursor')
    BY <1>1, <1>5, Basics DEF Log
  <1>. QED  BY <1>1, <1>5, <1>6, <1>7, <1>8, <1>9 DEF IInv, Log

LEMMA CollectingOK == ASSUME IInv, Collecting PROVE IInv'
  <1>0. TypeOK /\ MediaOK(media) /\ active \in Sectors /\ Other(active) \in Sectors
        /\ Other(active) # active /\ Other(Other(active)) = active
        /\ \A s \in Sectors : Log(s) \in Seq(Slots) /\ Ordered(Log(s))
    BY Basics
  <1>1. CASE EraseTarget
    <2>1. /\ pc' = "copy" /\ initialised /\ copying' = 1 /\ copyEnd' = HeaderSize
          /\ UNCHANGED <<initialised, active, cursor>>
      BY <1>1 DEF EraseTarget, ram, IInv, Phases, Working
    <2>2. MediaOK(media') /\ media'[active] = media[active]
          /\ Log(Other(active))' = <<>>
      BY <1>0, <1>1, ErasedOK DEF EraseTarget, Log, Other, ram
    <2>3. HeaderSize \in HeaderSize .. SectorSize /\ 1 \in 1 .. NBlocks + 1 /\ 1 <= NBlocks
          /\ HeaderSize <= HeaderSize + (1 - 1) * MaxSpan
      BY Sizes
    <2>4. TypeOK'
      BY <1>0, <1>1, <2>2, <2>3 DEF EraseTarget, TypeOK, MediaOK, PCs, ram
    <2>5. Phases' /\ Room'
      BY <2>1 DEF Phases, Room, Booting, Working
    <2>6. Target'
      BY <2>1, <2>2, <2>3, EmptyLog DEF Target
    <2>7. Behind(Log(active)', cursor')
      BY <2>1, <2>2, Basics DEF Log
    <2>. QED  BY <2>1, <2>2, <2>4, <2>5, <2>6, <2>7 DEF IInv
  <1>2. CASE CopyBlock
    BY <1>2, CopyBlockOK
  <1>3. CASE Seal
    <2>1. /\ pc = "seal" /\ pc' = "reclaim" /\ initialised /\ initialised' = initialised
          /\ active' = Other(active) /\ cursor' = copyEnd
          /\ media' = Sealed(Other(active), NextSequence) /\ sequence' = NextSequence
      BY <1>3 DEF Seal, IInv, Phases, Working
    <2>2. NextSequence \in Sequences
      <3>1. sequence + 1 \in Int
        BY Sizes DEF IInv, TypeOK, Sequences
      <3>. QED  BY <3>1, SequenceRange DEF NextSequence
    <2>3. MediaOK(media') /\ Log(active)' = Log(Other(active))
      BY <1>0, <2>1, <2>2, SealedOK DEF Log
    <2>4. Behind(Log(Other(active)), copyEnd)
      BY <1>0, <2>1 DEF IInv, Target, Behind
    <2>5. copyEnd <= HeaderSize + NBlocks * MaxSpan
      <3>1. /\ copying \in Int /\ copying - 1 <= NBlocks /\ copyEnd \in Int
            /\ copyEnd <= HeaderSize + (copying - 1) * MaxSpan
        BY <1>0, <2>1, Sizes DEF IInv, Target, TypeOK
      <3>2. (copying - 1) * MaxSpan \in Int /\ (copying - 1) * MaxSpan <= NBlocks * MaxSpan
        BY <3>1, Sizes
      <3>. QED  BY <3>1, <3>2, Sizes
    <2>6. TypeOK'
      BY <1>0, <1>3, <2>1, <2>2, <2>3 DEF Seal, TypeOK, MediaOK, PCs, gc
    <2>7. Phases' /\ Target' /\ Room'
      BY <2>1, <2>5 DEF Phases, Target, Room, Booting, Working
    <2>. QED  BY <2>1, <2>3, <2>4, <2>6, <2>7 DEF IInv
  <1>4. CASE Reclaim
    <2>1. /\ pc = "reclaim" /\ initialised /\ UNCHANGED <<initialised, active, cursor, sequence>>
          /\ poisoned' \in BOOLEAN
          /\ cursor <= HeaderSize + NBlocks * MaxSpan
      BY <1>4 DEF Reclaim, IInv, Phases, Working, Room, TypeOK
    <2>2. MediaOK(media')
      BY <1>0, <1>4, ErasedOK, LossOK DEF Reclaim
    <2>3. Behind(media'[active].log, cursor)
      BY <1>0, <1>4, <2>1, ErasedOK, LossOK, Basics DEF Reclaim, Log
    <2>4. CASE cause = "direct"
      <3>1. Finish(Done) /\ Done \in Replies
        BY <1>4, <2>4 DEF Reclaim, Replies
      <3>2. /\ pc' \in PCs
            /\ call' \in CallRecords /\ reply' \in Replies /\ counter' \in Counters
            /\ cause' \in {"direct", "poison", "early", "retry"}
            /\ copying' \in 1 .. NBlocks + 1
            /\ copyEnd' \in HeaderSize .. SectorSize
            /\ Phases' /\ Target' /\ Room'
        BY <1>0, <3>1, FinishOK
      <3>3. TypeOK'
        BY <1>0, <2>1, <2>2, <3>2 DEF TypeOK, MediaOK
      <3>. QED  BY <2>1, <2>2, <2>3, <3>2, <3>3 DEF IInv, Log
    <2>5. CASE cause # "direct"
      <3>1. /\ pc' \in {"admit", "number", "header"}
            /\ copying' = 1 /\ copyEnd' = HeaderSize
            /\ UNCHANGED <<call, counter, cause, reply>>
        BY <1>0, <1>4, <2>5 DEF Reclaim, TypeOK
      <3>2. HeaderSize \in HeaderSize .. SectorSize /\ 1 \in 1 .. NBlocks + 1
        BY Sizes
      <3>3. TypeOK'
        BY <1>0, <2>1, <2>2, <3>1, <3>2 DEF TypeOK, MediaOK, PCs
      <3>4. Fits'
        <4>1. Fits
          BY <1>0, <2>1, RecordSpanOK, Sizes DEF Fits
        <4>. QED  BY <2>1, <3>1, <4>1 DEF Fits, RecordSpan
      <3>5. Phases' /\ Target' /\ Room'
        BY <2>1, <3>1, <3>4 DEF Phases, Target, Room, Booting, Working
      <3>. QED  BY <2>1, <2>2, <2>3, <3>3, <3>5 DEF IInv, Log
    <2>. QED  BY <2>4, <2>5
  <1>5. CASE CollectFails
    <2>1. Finish(Failed) /\ Failed \in Replies
      BY <1>5 DEF CollectFails, Replies
    <2>2. /\ pc' \in PCs
          /\ call' \in CallRecords /\ reply' \in Replies /\ counter' \in Counters
          /\ cause' \in {"direct", "poison", "early", "retry"}
          /\ copying' \in 1 .. NBlocks + 1
          /\ copyEnd' \in HeaderSize .. SectorSize
          /\ Phases' /\ Target' /\ Room'
      BY <1>0, <2>1, FinishOK
    <2>3. MediaOK(media') /\ (initialised => Behind(media'[active].log, cursor))
      BY <1>5, LossOK DEF CollectFails
    <2>4. TypeOK'
      BY <1>0, <1>5, <2>2, <2>3 DEF CollectFails, TypeOK, MediaOK, ram
    <2>. QED  BY <1>5, <2>2, <2>3, <2>4 DEF IInv, Log, CollectFails, ram
  <1>. QED  BY <1>1, <1>2, <1>3, <1>4, <1>5 DEF Collecting

LEMMA AppendingOK == ASSUME IInv, Appending PROVE IInv'
  <1>0. /\ TypeOK /\ MediaOK(media) /\ active \in Sectors
        /\ Log(active) \in Seq(Slots) /\ Ordered(Log(active))
        /\ initialised => Behind(Log(active), cursor)
    BY Basics
  <1>r. /\ RecordSpan \in Int /\ 1 <= RecordSpan /\ RecordSpan <= MaxSpan
        /\ cursor \in Int /\ HeaderSize <= cursor /\ cursor <= SectorSize
    BY <1>0, RecordSpanOK
  <1>1. CASE Admit
    <2>1. /\ initialised /\ UNCHANGED <<media, initialised, active, cursor, call>>
          /\ pc' \in {"eraseTarget", "number"}
          /\ cause' \in {"early", "direct"} /\ UNCHANGED <<copying, copyEnd>>
      BY <1>1 DEF Admit, Collect, IInv, Phases, Working, ram
    <2>2. pc' = "number" => Fits'
      <3>1. ASSUME pc' = "number"
            PROVE  cursor + RecordSpan <= SectorSize
        <4>1. cursor + Span[call.blk] + Threshold <= SectorSize
          <5>1. Span[call.blk] \in Int
            BY <1>0, Sizes DEF TypeOK, CallRecords
          <5>. QED  BY <1>1, <1>r, <3>1, <5>1, Sizes DEF Admit, Collect, Threshold
        <4>2. Span[call.blk] \in 1 .. MaxSpan
          BY <1>0, Sizes DEF TypeOK, CallRecords
        <4>. QED  BY <1>r, <4>1, <4>2, Sizes DEF Threshold
      <3>. QED  BY <2>1, <3>1 DEF Fits, RecordSpan
    <2>3. TypeOK'
      BY <1>0, <1>1, <2>1 DEF Admit, TypeOK, PCs, ram
    <2>4. Phases' /\ Target' /\ Room'
      BY <2>1, <2>2 DEF Phases, Target, Room, Booting, Working
    <2>. QED  BY <2>1, <2>3, <2>4, QuietOK
  <1>2. CASE Number
    <2>1. /\ initialised /\ Fits /\ pc' = "header"
          /\ UNCHANGED <<media, initialised, active, cursor, call>>
      BY <1>2 DEF Number, IInv, Phases, Working, Room, ram
    <2>2. counter' \in Counters
      BY <1>0, <1>2, NextCounterOK DEF Number
    <2>3. TypeOK'
      BY <1>0, <1>2, <2>2 DEF Number, TypeOK, PCs, ram, gc
    <2>4. Phases' /\ Target' /\ Room'
      BY <2>1 DEF Phases, Target, Room, Booting, Working, Fits, RecordSpan
    <2>. QED  BY <2>1, <2>3, <2>4, QuietOK
  <1>3. CASE AppendHeader
    <2>1. /\ initialised /\ Fits /\ pc' = "payload"
          /\ UNCHANGED <<initialised, active, cursor, call>>
          /\ media' = WithLog(active, Place(Log(active), Record("bare")))
      BY <1>3 DEF AppendHeader, IInv, Phases, Working, Room, ram
    <2>2. /\ Place(Log(active), Record("bare")) \in Seq(Slots)
          /\ Ordered(Place(Log(active), Record("bare")))
          /\ Behind(Place(Log(active), Record("bare")), cursor)
      BY <1>0, <2>1, AppendedOK, PlaceOK
    <2>3. MediaOK(media') /\ Log(active)' = Place(Log(active), Record("bare"))
      BY <1>0, <2>1, <2>2, WithLogOK DEF Log
    <2>4. TypeOK'
      BY <1>0, <1>3, <2>1, <2>3 DEF AppendHeader, TypeOK, MediaOK, PCs, ram, gc
    <2>5. Phases' /\ Target' /\ Room'
      BY <2>1 DEF Phases, Target, Room, Booting, Working, Fits, RecordSpan
    <2>. QED  BY <2>1, <2>2, <2>3, <2>4, <2>5 DEF IInv
  <1>4. CASE AppendPayload
    <2>1. /\ initialised /\ Fits /\ pc' = "commit"
          /\ UNCHANGED <<media, initialised, active, cursor, call>>
      BY <1>4 DEF AppendPayload, IInv, Phases, Working, Room, ram
    <2>2. TypeOK'
      BY <1>0, <1>4 DEF AppendPayload, TypeOK, PCs, ram, gc
    <2>3. Phases' /\ Target' /\ Room'
      BY <2>1 DEF Phases, Target, Room, Booting, Working, Fits, RecordSpan
    <2>. QED  BY <2>1, <2>2, <2>3, QuietOK
  <1>5. CASE Commit
    <2>1. /\ initialised /\ initialised' = initialised /\ Fits /\ active' = active
          /\ media' = WithLog(active, Place(Log(active), Record(FinalKind)))
          /\ cursor' = cursor + RecordSpan
      BY <1>5 DEF Commit, IInv, Phases, Working, Room
    <2>2. FinalKind \in {"bare", "valid", "invalid"}
      BY DEF FinalKind
    <2>. DEFINE slot == Record(FinalKind)
    <2>3. /\ slot \in Slots /\ slot.end = cursor' /\ slot.kind \notin Unreadable
          /\ cursor < SectorSize /\ cursor < slot.end
          /\ cursor' \in HeaderSize .. SectorSize
      BY <1>0, <2>1, <2>2, AppendedOK
    <2>. HIDE DEF slot
    <2>4. /\ Place(Log(active), slot) \in Seq(Slots)
          /\ Ordered(Place(Log(active), slot))
          /\ Behind(Place(Log(active), slot), cursor')
      BY <1>0, <2>1, <2>3, PlaceOK
    <2>5. MediaOK(media') /\ Log(active)' = Place(Log(active), slot)
      BY <1>0, <2>1, <2>4, WithLogOK DEF Log, slot
    <2>6. Finish(Done) /\ Done \in Replies
      BY <1>5 DEF Commit, Replies
    <2>7. /\ pc' \in PCs
          /\ call' \in CallRecords /\ reply' \in Replies /\ counter' \in Counters
          /\ cause' \in {"direct", "poison", "early", "retry"}
          /\ copying' \in 1 .. NBlocks + 1
          /\ copyEnd' \in HeaderSize .. SectorSize
          /\ Phases' /\ Target' /\ Room'
      BY <1>0, <2>6, FinishOK
    <2>8. TypeOK'
      BY <1>0, <1>5, <2>3, <2>5, <2>7 DEF Commit, TypeOK, MediaOK
    <2>. QED  BY <2>4, <2>5, <2>7, <2>8 DEF IInv
  <1>6. CASE AppendFails
    <2>1. Finish(Failed) /\ Failed \in Replies
      BY <1>6 DEF AppendFails, Replies
    <2>2. /\ pc' \in PCs
          /\ call' \in CallRecords /\ reply' \in Replies /\ counter' \in Counters
          /\ cause' \in {"direct", "poison", "early", "retry"}
          /\ copying' \in 1 .. NBlocks + 1
          /\ copyEnd' \in HeaderSize .. SectorSize
          /\ Phases' /\ Target' /\ Room'
      BY <1>0, <2>1, FinishOK
    <2>3. MediaOK(media') /\ (initialised => Behind(media'[active].log, cursor))
      BY <1>6, LossOK DEF AppendFails
    <2>4. TypeOK'
      BY <1>0, <1>6, <2>2, <2>3 DEF AppendFails, TypeOK, MediaOK
    <2>. QED  BY <1>6, <2>2, <2>3, <2>4 DEF IInv, Log, AppendFails
  <1>. QED  BY <1>1, <1>2, <1>3, <1>4, <1>5, <1>6 DEF Appending

LEMMA CallingOK == ASSUME IInv, Calling PROVE IInv'
  <1>0. /\ TypeOK /\ MediaOK(media) /\ active \in Sectors
        /\ Log(active) \in Seq(Slots)
    BY Basics
  <1>1. ASSUME NEW b \in Blocks, ReadBlock(b)
        PROVE  IInv'
    <2>1. reply' \in Replies
      BY <1>0, <1>1, ReadOK DEF ReadBlock, Replies
    <2>2. TypeOK'
      BY <1>0, <1>1, <2>1 DEF ReadBlock, TypeOK, ram, gc
    <2>3. /\ UNCHANGED <<media, initialised, active, cursor>> /\ pc' = "idle"
      BY <1>1 DEF ReadBlock, ram
    <2>. QED  BY <2>2, <2>3, RestOK, QuietOK DEF Booting, Working
  <1>2. ASSUME NEW b \in Blocks, InvalidateBlock(b)
        PROVE  IInv'
    <2>1. /\ UNCHANGED <<media, initialised, active, cursor>> /\ pc' = "admit" /\ initialised
      BY <1>2 DEF InvalidateBlock, Ready, ram
    <2>2. TypeOK'
      BY <1>0, <1>2 DEF InvalidateBlock, TypeOK, PCs, CallRecords, CallKinds, Replies, ram, gc
    <2>. QED  BY <2>1, <2>2, RestOK, QuietOK DEF Booting, Working
  <1>3. ASSUME NEW b \in Blocks, NEW v \in Values, WriteBlock(b, v)
        PROVE  IInv'
    <2>1. /\ UNCHANGED <<media, initialised, active, cursor>> /\ initialised
          /\ pc' \in {"admit", "eraseTarget"}
          /\ cause' \in {"poison", cause} /\ UNCHANGED <<copying, copyEnd>>
      BY <1>3 DEF WriteBlock, Ready, Collect, ram, gc
    <2>2. TypeOK'
      BY <1>0, <1>3, <2>1 DEF WriteBlock, TypeOK, PCs, CallRecords, CallKinds, Replies, ram
    <2>. QED  BY <2>1, <2>2, RestOK, QuietOK DEF Booting, Working
  <1>4. CASE GarbageCollect
    <2>1. /\ UNCHANGED <<media, initialised, active, cursor>> /\ initialised
          /\ pc' = "eraseTarget"
          /\ cause' = "direct" /\ UNCHANGED <<copying, copyEnd>>
      BY <1>4 DEF GarbageCollect, Ready, Collect, ram, gc
    <2>2. 1 \in Blocks
      BY Sizes DEF Blocks
    <2>3. TypeOK'
      BY <1>0, <1>4, <2>1, <2>2
      DEF GarbageCollect, TypeOK, PCs, CallRecords, CallKinds, NoCall, Replies, ram
    <2>. QED  BY <2>1, <2>3, RestOK, QuietOK DEF Booting, Working
  <1>5. CASE Format
    <2>1. /\ UNCHANGED <<media, initialised, active, cursor>> /\ initialised
          /\ pc' = "formatFirst"
      BY <1>5 DEF Format, Ready, ram
    <2>2. 1 \in Blocks
      BY Sizes DEF Blocks
    <2>3. TypeOK'
      BY <1>0, <1>5, <2>1, <2>2
      DEF Format, TypeOK, PCs, CallRecords, CallKinds, NoCall, Replies, ram, gc
    <2>. QED  BY <2>1, <2>3, RestOK, QuietOK DEF Booting, Working
  <1>6. CASE Refuse
    <2>1. /\ UNCHANGED <<media, initialised, active, cursor>> /\ pc' = "idle"
      BY <1>6 DEF Refuse, ram
    <2>2. TypeOK'
      BY <1>0, <1>6 DEF Refuse, TypeOK, Replies, ram, gc
    <2>. QED  BY <2>1, <2>2, RestOK, QuietOK DEF Booting, Working
  <1>. QED  BY <1>1, <1>2, <1>3, <1>4, <1>5, <1>6 DEF Calling

LEMMA PowerLossOK == ASSUME IInv, PowerLoss PROVE IInv'
  <1>1. MediaOK(media')
    BY LossOK DEF PowerLoss
  <1>2. /\ 0 \in Sequences /\ 0 \in Counters /\ 1 \in Blocks /\ 1 \in 1 .. NBlocks + 1
        /\ HeaderSize \in HeaderSize .. SectorSize
    BY Sizes DEF Sequences, Counters, Blocks
  <1>3. TypeOK'
    BY <1>1, <1>2 DEF PowerLoss, TypeOK, MediaOK, PCs, Sectors, NoCall, CallRecords, Replies
  <1>4. Phases' /\ Target' /\ Room'
    BY RestOK DEF PowerLoss, Working
  <1>. QED  BY <1>1, <1>3, <1>4 DEF PowerLoss, IInv

LEMMA RotOK == ASSUME IInv, Rot PROVE IInv'
  <1>a. PICK s \in Sectors : \E i \in DOMAIN Log(s) :
          /\ Log(s)[i].kind = "valid"
          /\ media' = WithLog(s, [Log(s) EXCEPT ![i].kind = "rotten"])
    BY DEF Rot
  <1>1. PICK i \in DOMAIN Log(s) :
          /\ Log(s)[i].kind = "valid"
          /\ media' = WithLog(s, [Log(s) EXCEPT ![i].kind = "rotten"])
    BY <1>a
  <1>. DEFINE log == Log(s)
              spoilt == [log EXCEPT ![i].kind = "rotten"]
  <1>2. log \in Seq(Slots) /\ Ordered(log)
    BY Basics
  <1>3. /\ spoilt \in Seq(Slots) /\ Len(spoilt) = Len(log) /\ DOMAIN spoilt = DOMAIN log
        /\ \A j \in DOMAIN log : /\ spoilt[j].end = log[j].end
                                 /\ spoilt[j].kind \in Unreadable => log[j].kind \in Unreadable
    <2>. HIDE DEF log
    <2>1. i \in 1 .. Len(log) /\ log[i] \in Slots
      BY <1>1, <1>2, LenProperties DEF log
    <2>2. [log[i] EXCEPT !.kind = "rotten"] \in Slots
      BY <2>1 DEF Slots, WellFormed
    <2>3. spoilt = [log EXCEPT ![i] = [log[i] EXCEPT !.kind = "rotten"]]
      OBVIOUS
    <2>4. /\ spoilt \in Seq(Slots) /\ Len(spoilt) = Len(log)
          /\ \A j \in 1 .. Len(log) :
                spoilt[j] = IF j = i THEN [log[i] EXCEPT !.kind = "rotten"] ELSE log[j]
      BY <1>2, <2>1, <2>2, <2>3, ExceptSeq
    <2>5. /\ [log[i] EXCEPT !.kind = "rotten"].end = log[i].end
          /\ [log[i] EXCEPT !.kind = "rotten"].kind = "rotten"
      BY <2>1 DEF Slots
    <2>6. DOMAIN spoilt = 1 .. Len(log) /\ DOMAIN log = 1 .. Len(log)
      BY <1>2, <2>4, LenProperties
    <2>. QED  BY <2>4, <2>5, <2>6 DEF Unreadable
  <1>. HIDE DEF spoilt
  <1>4. Ordered(spoilt)
    BY <1>2, <1>3 DEF Ordered
  <1>5. \A c : Behind(log, c) => Behind(spoilt, c)
    BY <1>3 DEF Behind
  <1>6. MediaOK(media') /\ media'[s].log = spoilt
        /\ \A r \in Sectors : r # s => media'[r] = media[r]
    BY ZenonT(40), <1>1, <1>3, <1>4, WithLogOK, Basics DEF spoilt
  <1>7. UNCHANGED <<env, initialised, active, sequence, cursor, poisoned, pc, call, counter,
                    cause, copying, copyEnd, reply>> /\ pc \in {"idle", "off"}
    BY DEF Rot, ram, gc
  <1>8. initialised' => Behind(Log(active)', cursor')
    BY <1>5, <1>6, <1>7, Basics DEF Log
  <1>9. TypeOK'
    BY <1>6, <1>7, Basics DEF TypeOK, MediaOK
  <1>10. Phases' /\ Target' /\ Room'
    BY <1>7, RestOK DEF IInv, Phases, Booting, Working
  <1>. QED  BY <1>6, <1>8, <1>9, <1>10 DEF IInv

LEMMA NextOK == ASSUME IInv, [Next]_vars PROVE IInv'
  <1>1. CASE Next
    BY <1>1, StartingOK, FormattingOK, CollectingOK, AppendingOK, CallingOK, PowerLossOK, RotOK
    DEF Next
  <1>2. CASE UNCHANGED vars
    BY <1>2 DEF vars, IInv, TypeOK, MediaOK, Log, Phases, Target, Room, Other, Fits, RecordSpan
  <1>. QED  BY <1>1, <1>2

LEMMA Invariance == Spec => []IInv
  BY InitOK, NextOK, PTL DEF Spec

-----------------------------------------------------------------------------
(***************************************************************************)
(* The theorems.                                                           *)
(***************************************************************************)
(* Fee's RAM and media keep their types: no counter, cursor or sequence    *)
(* number ever leaves its range, whatever faults occur.                    *)
THEOREM TypeCorrect == Spec => []TypeOK
  <1>1. IInv => TypeOK
    BY DEF IInv
  <1>. QED  BY <1>1, Invariance, PTL

(* Fee_WriteBlock never reaches the E_NO_SPACE branch: after its early     *)
(* collection the record always fits.                                      *)
THEOREM AdmissionLeavesRoom == Spec => []AdmittedFits
  <1>1. IInv => AdmittedFits
    BY DEF IInv, Room, AdmittedFits
  <1>. QED  BY <1>1, Invariance, PTL

(* No record is ever written behind a damaged slot, where no scan would    *)
(* find it, even when reads of the flash fail.                             *)
THEOREM DamageIsLast == Spec => []NothingHidden
  <1>1. ASSUME IInv
        PROVE  NothingHidden
    <2>1. SUFFICES ASSUME NEW s \in Sectors, NEW i \in DOMAIN Log(s),
                          Log(s)[i].kind \in {"junk", "dirty"}
                   PROVE  i = Len(Log(s))
      BY DEF NothingHidden
    <2>2. Log(s) \in Seq(Slots) /\ Ordered(Log(s))
      BY <1>1, Basics
    <2>3. i \in 1 .. Len(Log(s)) /\ Len(Log(s)) \in Nat /\ Len(Log(s)) \in DOMAIN Log(s)
      BY <2>2, LenProperties
    <2>4. ~(i < Len(Log(s)))
      BY <2>1, <2>2, <2>3 DEF Ordered, Unreadable
    <2>. QED  BY <2>3, <2>4
  <1>. QED  BY <1>1, Invariance, PTL
-----------------------------------------------------------------------------
(***************************************************************************)
(* Which sector a start picks.  The argument needs a header write that     *)
(* fails to leave no header, header reads that do not fail, and Fee_Format *)
(* to be called by Fee_Init only, which is what the program does.          *)
(***************************************************************************)
Dependable ==
    /\ env.faults \cap {"seal", "read"} = {}
    /\ "format" \notin env.calls
Successor(n) == (n + 1) % SequenceMod
Header(s) == media[s].header
Blank == \A s \in Sectors : Header(s) = NoHeader

SealInv ==
    /\ call.kind # "format"
    /\ \A s \in Sectors : Header(s) # NoHeader /\ Header(Other(s)) # NoHeader
          => Header(s) = Successor(Header(Other(s)))
             \/ Header(Other(s)) = Successor(Header(s))
    /\ initialised \/ pc \in {"dropLoser", "mount"} =>
          /\ Header(active) = sequence
          /\ Header(Other(active)) # NoHeader => sequence = Successor(Header(Other(active)))
    /\ pc \in {"copy", "seal"} => Header(Other(active)) = NoHeader
    /\ pc \in {"formatFirst", "formatSecond", "formatHeader"} => Blank /\ ~initialised

(* Numbers one apart compare as they were given out, wrapped or not. *)
LEMMA SuccessorIsNewer ==
    ASSUME NEW n \in Sequences
    PROVE  /\ Successor(n) \in Sequences
           /\ Newer(Successor(n), n, SequenceMod)
           /\ ~Newer(n, Successor(n), SequenceMod)
  <1>1. /\ n \in Int /\ 0 <= n /\ n <= SequenceMod - 1
        /\ SequenceMod \in Int /\ 4 <= SequenceMod
    BY Sizes DEF Sequences
  <1>2. CASE n = SequenceMod - 1
    <2>1. Successor(n) = 0
      BY <1>1, <1>2 DEF Successor
    <2>2. (0 - n) % SequenceMod = 1
      BY <1>1, <1>2
    <2>3. (n - 0) % SequenceMod = SequenceMod - 1
      BY <1>1, <1>2
    <2>. QED  BY <1>1, <2>1, <2>2, <2>3 DEF Newer, Sequences
  <1>3. CASE n < SequenceMod - 1
    <2>1. Successor(n) = n + 1
      BY <1>1, <1>3 DEF Successor
    <2>2. ((n + 1) - n) % SequenceMod = 1
      BY <1>1
    <2>3. (n - (n + 1)) % SequenceMod = SequenceMod - 1
      BY <1>1
    <2>. QED  BY <1>1, <1>3, <2>1, <2>2, <2>3 DEF Newer, Sequences
  <1>. QED  BY <1>1, <1>2, <1>3

(* Short of a seal, a flash operation that does not complete leaves every  *)
(* header as it was or none, and outside a format it spares the mounted    *)
(* sector's.                                                               *)
LEMMA TornHeaders ==
    ASSUME IInv, NEW m \in {media} \cup Torn
    PROVE  /\ \A s \in Sectors : m[s].header \in {Header(s), NoHeader}
           /\ pc \notin {"formatFirst", "formatSecond"} => m[active].header = Header(active)
  <1>0. /\ media \in [Sectors -> SectorStates] /\ active \in Sectors
        /\ Other(active) \in Sectors /\ Other(active) # active
    BY Basics DEF MediaOK
  <1>1. \A s \in Sectors : \A log : \A r \in Sectors : WithLog(s, log)[r].header = Header(r)
    BY <1>0 DEF WithLog, Header, SectorStates
  <1>2. ASSUME NEW s \in Sectors, m \in TornErase(s)
        PROVE  /\ \A r \in Sectors : m[r].header \in {Header(r), NoHeader}
               /\ \A r \in Sectors : r # s => m[r].header = Header(r)
    BY <1>0, <1>2 DEF TornErase, Erased, Header
  <1>3. CASE m = media
    BY <1>0, <1>3 DEF Header
  <1>4. CASE pc \in {"header", "commit", "copy"} /\ m \in Torn
    <2>1. \E s \in Sectors : \E log : m = WithLog(s, log)
      BY <1>0, <1>4 DEF Torn
    <2>. QED  BY <1>0, <1>1, <2>1
  <1>5. CASE pc \in {"eraseTarget", "reclaim", "dropLoser"} /\ m \in Torn
    <2>1. m \in TornErase(Other(active))
      BY <1>5 DEF Torn
    <2>. QED  BY <1>0, <1>2, <2>1
  <1>6. CASE pc \in {"formatFirst", "formatSecond"} /\ m \in Torn
    <2>1. \E s \in Sectors : m \in TornErase(s)
      BY <1>6 DEF Torn, Sectors
    <2>. QED  BY <1>2, <1>6, <2>1
  <1>. QED  BY <1>3, <1>4, <1>5, <1>6 DEF Torn

(* Losing headers other than the mounted sector's is harmless. *)
LEMMA FewerHeaders ==
    ASSUME SealInv,
           \A s \in Sectors : Header(s)' \in {Header(s), NoHeader},
           initialised' \/ pc' \in {"dropLoser", "mount"} =>
               /\ initialised \/ pc \in {"dropLoser", "mount"}
               /\ active \in Sectors /\ active' = active /\ sequence' = sequence
               /\ Header(active)' = Header(active),
           pc' \in {"copy", "seal"} => Header(Other(active))' = NoHeader,
           pc' \in {"formatFirst", "formatSecond", "formatHeader"} => Blank' /\ ~initialised',
           call'.kind # "format"
    PROVE  SealInv'
  <1>1. \A s \in Sectors : Other(s) \in Sectors
    BY DEF Sectors, Other
  <1>2. ASSUME NEW s \in Sectors, Header(s)' # NoHeader, Header(Other(s))' # NoHeader
        PROVE  (Header(s) = Successor(Header(Other(s)))
                \/ Header(Other(s)) = Successor(Header(s)))'
    <2>1. Header(s)' = Header(s) /\ Header(Other(s))' = Header(Other(s))
      BY <1>1, <1>2
    <2>2. \/ Header(s) = Successor(Header(Other(s)))
          \/ Header(Other(s)) = Successor(Header(s))
      BY <1>2, <2>1 DEF SealInv
    <2>. QED  BY <2>1, <2>2 DEF Successor
  <1>3. ASSUME initialised' \/ pc' \in {"dropLoser", "mount"}
        PROVE  (/\ Header(active) = sequence
                /\ Header(Other(active)) # NoHeader
                      => sequence = Successor(Header(Other(active))))'
    <2>1. Header(active) = sequence
          /\ (Header(Other(active)) # NoHeader => sequence = Successor(Header(Other(active))))
      BY <1>3 DEF SealInv
    <2>2. /\ active' = active /\ sequence' = sequence /\ Header(active)' = Header(active)
          /\ Other(active)' = Other(active)
          /\ Header(Other(active))' \in {Header(Other(active)), NoHeader}
      BY <1>1, <1>3 DEF Other
    <2>. QED  BY <2>1, <2>2 DEF Successor
  <1>. QED  BY <1>2, <1>3 DEF SealInv

LEMMA SealInit == ASSUME Init PROVE SealInv
  BY DEF Init, SealInv, Header, Blank, Erased, NoCall, Sectors

LEMMA SealStep ==
    ASSUME IInv, SealInv, Dependable, [Next]_vars
    PROVE  SealInv'
  <1>0. /\ TypeOK /\ MediaOK(media) /\ active \in Sectors /\ Other(active) \in Sectors
        /\ Other(active) # active /\ Other(Other(active)) = active
        /\ media \in [Sectors -> SectorStates]
        /\ \A s \in Sectors : Other(s) \in Sectors /\ Other(s) # s /\ Other(Other(s)) = s
        /\ \A s \in Sectors : Header(s) \in Sequences \cup {NoHeader}
    BY Basics DEF MediaOK, Sectors, Other, Header
  <1>f. ASSUME media' \in AfterFailure
        PROVE  /\ \A s \in Sectors : Header(s)' \in {Header(s), NoHeader}
               /\ pc \notin {"formatFirst", "formatSecond"}
                     => media'[active].header = Header(active)
    <2>1. media' \in {media} \cup Torn
      BY <1>f DEF AfterFailure, Dependable
    <2>. QED  BY <2>1, TornHeaders DEF Header
  <1>e. ASSUME NEW s \in Sectors, media' = [media EXCEPT ![s] = Erased]
        PROVE  /\ \A r \in Sectors : Header(r)' \in {Header(r), NoHeader}
               /\ \A r \in Sectors : r # s => media'[r].header = Header(r)
               /\ media'[s].header = NoHeader
    BY <1>0, <1>e DEF Header, Erased
  <1>w. ASSUME NEW s, NEW log, media' = WithLog(s, log)
        PROVE  \A r \in Sectors : media'[r].header = Header(r)
    BY <1>0, <1>w DEF WithLog, Header, SectorStates
  <1>1. CASE Starting
    <2>1. ASSUME ChooseSector
          PROVE  SealInv'
      <3>1. /\ ~initialised' /\ media' = media /\ call' = call
        BY <2>1 DEF ChooseSector, IInv, Phases, Booting
      <3>. DEFINE good == {s \in Sectors : media[s].header # NoHeader}
                  newest == IF good # Sectors THEN CHOOSE s \in good : TRUE
                            ELSE IF Newer(media[1].header, media[0].header, SequenceMod)
                                 THEN 1 ELSE 0
      <3>2. IF good = {} THEN pc' = "formatFirst" /\ UNCHANGED <<active, sequence>>
            ELSE /\ active' = newest /\ sequence' = media[newest].header
                 /\ pc' \in {"dropLoser", "mount"}
        <4>1. good \ {} = good
          OBVIOUS
        <4>. QED  BY <2>1, <4>1 DEF ChooseSector, Dependable
      <3>3. CASE good = {}
        BY <3>1, <3>2, <3>3, <1>0 DEF SealInv, Blank, Header, Other, Successor
      <3>4. CASE good # {} /\ good # Sectors
        <4>1. newest \in good /\ \A s \in Sectors : s # newest => s \notin good
          BY <3>4 DEF Sectors
        <4>2. Header(Other(newest)) = NoHeader /\ newest \in Sectors
          BY <1>0, <4>1 DEF Header
        <4>. QED  BY <3>1, <3>2, <3>4, <4>2 DEF SealInv, Header, Other, Successor
      <3>5. CASE good = Sectors
        <4>1. Header(0) \in Sequences /\ Header(1) \in Sequences
          BY <1>0, <3>5 DEF Header, Sectors
        <4>2. Header(0) = Successor(Header(1)) \/ Header(1) = Successor(Header(0))
          <5>1. Other(0) = 1 /\ 0 \in Sectors /\ Header(0) # NoHeader /\ Header(1) # NoHeader
            BY <3>5 DEF Header, Sectors, Other
          <5>. QED  BY <5>1 DEF SealInv
        <4>3. newest \in Sectors /\ Header(newest) = Successor(Header(Other(newest)))
          <5>1. CASE Newer(Header(1), Header(0), SequenceMod)
            <6>1. Header(1) = Successor(Header(0))
              BY <4>1, <4>2, <5>1, SuccessorIsNewer
            <6>2. newest = 1
              BY <3>5, <5>1 DEF Header
            <6>3. Other(1) = 0 /\ 1 \in Sectors
              BY DEF Other, Sectors
            <6>. HIDE DEF newest
            <6>. QED  BY <6>1, <6>2, <6>3
          <5>2. CASE ~Newer(Header(1), Header(0), SequenceMod)
            <6>1. Header(0) = Successor(Header(1))
              BY <4>1, <4>2, <5>2, SuccessorIsNewer
            <6>2. newest = 0
              BY <3>5, <5>2 DEF Header
            <6>3. Other(0) = 1 /\ 0 \in Sectors
              BY DEF Other, Sectors
            <6>. HIDE DEF newest
            <6>. QED  BY <6>1, <6>2, <6>3
          <5>. QED  BY <5>1, <5>2
        <4>4. good # {}
          BY <3>5 DEF Sectors
        <4>. QED  BY <3>1, <3>2, <4>3, <4>4 DEF SealInv, Header, Other, Successor
      <3>. QED  BY <3>3, <3>4, <3>5
    <2>2. ASSUME DropLoser
          PROVE  SealInv'
      <3>1. /\ \A s \in Sectors : Header(s)' \in {Header(s), NoHeader}
            /\ Header(active)' = Header(active)
        BY <1>0, <1>e, <1>f, <2>2 DEF DropLoser, ram, Header
      <3>. QED  BY <1>0, <2>2, <3>1, FewerHeaders DEF DropLoser, ram, SealInv
    <2>3. ASSUME Mount
          PROVE  SealInv'
      <3>1. \A s \in Sectors : Header(s)' = Header(s)
        BY <2>3 DEF Mount, Header
      <3>. QED  BY <1>0, <2>3, <3>1, FewerHeaders DEF Mount, SealInv, Header
    <2>. QED  BY <1>1, <2>1, <2>2, <2>3 DEF Starting
  <1>2. CASE Formatting
    <2>0. Blank /\ ~initialised /\ call.kind # "format"
      BY <1>2 DEF Formatting, FormatErase, FormatSeal, FormatFails, SealInv
    <2>1. ASSUME FormatErase
          PROVE  SealInv'
      <3>1. \A s \in Sectors : Header(s)' \in {Header(s), NoHeader}
        BY <1>0, <1>e, <2>1 DEF FormatErase, Sectors
      <3>2. Blank'
        BY <2>0, <3>1 DEF Blank
      <3>. QED  BY <2>0, <2>1, <3>1, <3>2, FewerHeaders DEF FormatErase, ram
    <2>2. ASSUME FormatSeal
          PROVE  SealInv'
      <3>1. /\ media'[0].header = 1 /\ media'[1].header = NoHeader
            /\ active' = 0 /\ sequence' = 1 /\ pc' = "idle" /\ call' = NoCall
        BY <1>0, <2>0, <2>2
        DEF FormatSeal, Sealed, Blank, Header, Sectors, Finish, SectorStates
      <3>. QED  BY <3>1 DEF SealInv, Header, Other, Sectors, NoCall
    <2>3. ASSUME FormatFails
          PROVE  SealInv'
      <3>1. \A s \in Sectors : Header(s)' \in {Header(s), NoHeader}
        BY <1>f, <2>3 DEF FormatFails
      <3>. QED  BY <2>0, <2>3, <3>1, FewerHeaders DEF FormatFails, Finish, NoCall, ram
    <2>. QED  BY <1>2, <2>1, <2>2, <2>3 DEF Formatting
  <1>3. CASE Collecting
    <2>1. ASSUME EraseTarget
          PROVE  SealInv'
      <3>1. /\ \A s \in Sectors : Header(s)' \in {Header(s), NoHeader}
            /\ Header(active)' = Header(active) /\ Header(Other(active))' = NoHeader
        BY <1>0, <1>e, <2>1 DEF EraseTarget, ram, Header, Other
      <3>2. initialised
        BY <2>1 DEF EraseTarget, IInv, Phases, Working
      <3>. QED  BY <1>0, <2>1, <3>1, <3>2, FewerHeaders DEF EraseTarget, ram, SealInv
    <2>2. ASSUME CopyBlock
          PROVE  SealInv'
      <3>1. \A s \in Sectors : media'[s].header = Header(s)
        BY <1>0, <1>w, <2>2 DEF CopyBlock, Header
      <3>2. /\ UNCHANGED <<initialised, active, sequence, call>> /\ pc = "copy"
            /\ pc' \in {"copy", "seal"} /\ initialised
        BY <2>2 DEF CopyBlock, ram, IInv, Phases, Working
      <3>3. Header(Other(active))' = NoHeader /\ Header(active)' = Header(active)
        BY <1>0, <3>1, <3>2 DEF SealInv, Header, Other
      <3>4. \A s \in Sectors : Header(s)' \in {Header(s), NoHeader}
        BY <3>1 DEF Header
      <3>. QED  BY <1>0, <3>2, <3>3, <3>4, FewerHeaders DEF SealInv
    <2>3. ASSUME Seal
          PROVE  SealInv'
      <3>1. /\ active' = Other(active) /\ sequence' = NextSequence /\ initialised'
            /\ pc' = "reclaim" /\ call' = call
        BY <2>3 DEF Seal, IInv, Phases, Working
      <3>2. /\ media'[Other(active)].header = NextSequence
            /\ media'[active].header = Header(active)
            /\ Header(active) = sequence
        BY <1>0, <2>3 DEF Seal, Sealed, Header, SealInv, IInv, Phases, Working, SectorStates
      <3>3. NextSequence = Successor(sequence)
        BY DEF NextSequence, Successor
      <3>4. \A s \in Sectors : s = active \/ s = Other(active)
        BY <1>0 DEF Sectors
      <3>. QED  BY <1>0, <3>1, <3>2, <3>3, <3>4 DEF SealInv, Header, Other, Successor
    <2>4. ASSUME Reclaim
          PROVE  SealInv'
      <3>1. /\ \A s \in Sectors : Header(s)' \in {Header(s), NoHeader}
            /\ media'[active].header = Header(active)
        BY <1>0, <1>e, <1>f, <2>4 DEF Reclaim
      <3>2. /\ initialised /\ UNCHANGED <<initialised, active, sequence>>
            /\ pc' \in {"idle", "admit", "number", "header"} /\ call' \in {call, NoCall}
        BY <1>0, <2>4 DEF Reclaim, Finish, IInv, Phases, Working, TypeOK
      <3>3. Header(active)' = Header(active)
        BY <3>1, <3>2 DEF Header
      <3>. QED  BY <1>0, <3>1, <3>2, <3>3, FewerHeaders DEF SealInv, NoCall
    <2>5. ASSUME CollectFails
          PROVE  SealInv'
      <3>1. /\ \A s \in Sectors : Header(s)' \in {Header(s), NoHeader}
            /\ media'[active].header = Header(active)
        BY <1>f, <2>5 DEF CollectFails
      <3>2. /\ initialised /\ UNCHANGED <<initialised, active, sequence>>
            /\ pc' = "idle" /\ call' = NoCall
        BY <2>5 DEF CollectFails, Finish, IInv, Phases, Working, ram
      <3>3. Header(active)' = Header(active)
        BY <3>1, <3>2 DEF Header
      <3>. QED  BY <1>0, <3>1, <3>2, <3>3, FewerHeaders DEF NoCall
    <2>. QED  BY <1>3, <2>1, <2>2, <2>3, <2>4, <2>5 DEF Collecting
  <1>4. CASE Appending
    <2>1. /\ \A s \in Sectors : media'[s].header \in {Header(s), NoHeader}
          /\ media'[active].header = Header(active)
      <3>1. media' = media \/ media' \in AfterFailure
            \/ \E log : media' = WithLog(active, log)
        BY <1>4 DEF Appending, Admit, Number, AppendHeader, AppendPayload, Commit, AppendFails
      <3>2. pc \notin {"formatFirst", "formatSecond"}
        BY <1>4 DEF Appending, Admit, Number, AppendHeader, AppendPayload, Commit, AppendFails
      <3>. QED  BY <1>0, <1>f, <1>w, <3>1, <3>2 DEF Header
    <2>2. /\ initialised /\ UNCHANGED <<initialised, active, sequence>>
          /\ call' \in {call, NoCall}
          /\ pc' \in {"number", "eraseTarget", "header", "payload", "commit", "idle"}
      BY <1>4
      DEF Appending, Admit, Number, AppendHeader, AppendPayload, Commit, AppendFails,
          Finish, Collect, IInv, Phases, Working, ram
    <2>3. /\ \A s \in Sectors : Header(s)' \in {Header(s), NoHeader}
          /\ Header(active)' = Header(active)
      BY <2>1, <2>2 DEF Header
    <2>. QED  BY <1>0, <2>2, <2>3, FewerHeaders DEF SealInv, NoCall
  <1>5. CASE Calling \/ Rot \/ UNCHANGED vars
    <2>1. /\ UNCHANGED <<initialised, active, sequence>>
          /\ pc' \in {pc, "admit", "eraseTarget"} /\ call'.kind # "format"
          /\ \A s \in Sectors : media'[s].header = Header(s)
      <3>1. CASE Calling
        BY <3>1 DEF Calling, ReadBlock, InvalidateBlock, WriteBlock, GarbageCollect, Format,
                    Refuse, Ready, Collect, ram, SealInv, Dependable, Header, NoCall
      <3>2. CASE Rot
        BY <1>w, <3>2 DEF Rot, ram, SealInv
      <3>3. CASE UNCHANGED vars
        BY <3>3 DEF vars, SealInv, Header
      <3>. QED  BY <1>5, <3>1, <3>2, <3>3
    <2>2. \A s \in Sectors : Header(s)' = Header(s)
      BY <2>1 DEF Header
    <2>3. Header(active)' = Header(active) /\ Header(Other(active))' = Header(Other(active))
      BY <1>0, <2>1, <2>2 DEF Header, Other
    <2>. QED  BY <1>0, <2>1, <2>2, <2>3, FewerHeaders DEF SealInv, Blank
  <1>6. CASE PowerLoss
    <2>1. ~initialised' /\ pc' = "off" /\ call' = NoCall /\ media' \in AfterLoss
      BY <1>6 DEF PowerLoss
    <2>2. CASE media' \in {media} \cup Torn
      <3>1. \A s \in Sectors : Header(s)' \in {Header(s), NoHeader}
        BY <2>2, TornHeaders DEF Header
      <3>. QED  BY <2>1, <3>1, FewerHeaders DEF NoCall
    <2>3. CASE pc = "seal" /\ media' = Sealed(Other(active), NextSequence)
      <3>1. /\ media'[Other(active)].header = NextSequence
            /\ media'[active].header = Header(active)
            /\ Header(active) = sequence
        BY <1>0, <2>3 DEF Sealed, Header, SealInv, IInv, Phases, Working, SectorStates
      <3>2. NextSequence = Successor(sequence)
        BY DEF NextSequence, Successor
      <3>3. \A s \in Sectors : s = active \/ s = Other(active)
        BY <1>0 DEF Sectors
      <3>4. \A s \in Sectors : media'[s].header = Successor(media'[Other(s)].header)
                               \/ media'[Other(s)].header = Successor(media'[s].header)
        BY <1>0, <3>1, <3>2, <3>3
      <3>. QED  BY <2>1, <3>4 DEF SealInv, Header, NoCall, Successor, Other
    <2>4. CASE pc = "formatHeader" /\ media' = Sealed(0, 1)
      <3>1. media'[1].header = NoHeader
        BY <1>0, <2>4 DEF Sealed, SealInv, Blank, Header, Sectors
      <3>. QED  BY <2>1, <3>1 DEF SealInv, Header, NoCall, Other, Sectors
    <2>. QED  BY <2>1, <2>2, <2>3, <2>4 DEF AfterLoss, Sealing
  <1>. QED  BY <1>1, <1>2, <1>3, <1>4, <1>5, <1>6 DEF Next

(* The environment is the same throughout a behaviour. *)
LEMMA SameEnvironment == ASSUME [Next]_vars PROVE env' = env
  BY DEF Next, Starting, ChooseSector, DropLoser, Mount,
         Formatting, FormatErase, FormatSeal, FormatFails,
         Collecting, EraseTarget, CopyBlock, Seal, Reclaim, CollectFails,
         Appending, Admit, Number, AppendHeader, AppendPayload, Commit, AppendFails,
         Calling, ReadBlock, InvalidateBlock, WriteBlock, GarbageCollect, Format, Refuse,
         PowerLoss, Rot, vars

(* A start mounts the sector that is mounted: the seal of a collection, by *)
(* its header alone, hands over from one sector to the other.              *)
THEOREM MountedSectorWins == Spec => [](Dependable => MountedWins)
  <1>. DEFINE Inv == IInv /\ (Dependable => SealInv)
  <1>1. Init => Inv
    BY InitOK, SealInit
  <1>2. Inv /\ [Next]_vars => Inv'
    <2>1. ASSUME Inv, [Next]_vars
          PROVE  Inv'
      <3>1. IInv'
        BY <2>1, NextOK
      <3>2. Dependable' => Dependable
        BY <2>1, SameEnvironment DEF Dependable
      <3>3. Dependable => SealInv'
        BY <2>1, SealStep
      <3>. QED  BY <3>1, <3>2, <3>3
    <2>. QED  BY <2>1
  <1>3. Inv => (Dependable => MountedWins)
    <2>1. SUFFICES ASSUME IInv, SealInv, initialised
                   PROVE  BootSectors = {active}
      BY DEF MountedWins
    <2>2. /\ active \in Sectors /\ Other(active) \in Sectors /\ Other(Other(active)) = active
          /\ sequence \in Sequences /\ NoHeader \notin Sequences
          /\ \A s \in Sectors : s = active \/ s = Other(active)
      BY <2>1, Basics DEF TypeOK, Sectors, Other, NoHeader, Sequences
    <2>3. /\ media[active].header = sequence
          /\ media[Other(active)].header \in Sequences \cup {NoHeader}
          /\ media[Other(active)].header # NoHeader
                => sequence = Successor(media[Other(active)].header)
      BY <2>1, <2>2, Basics DEF SealInv, Header, MediaOK, SectorStates
    <2>4. media[Other(active)].header # NoHeader
             => /\ Newer(sequence, media[Other(active)].header, SequenceMod)
                /\ ~Newer(media[Other(active)].header, sequence, SequenceMod)
      BY <2>3, SuccessorIsNewer
    <2>. QED  BY <2>2, <2>3, <2>4 DEF BootSectors
  <1>. QED  BY <1>1, <1>2, <1>3, PTL DEF Spec
=============================================================================
