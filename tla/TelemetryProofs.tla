---------------------------- MODULE TelemetryProofs ----------------------------
(***************************************************************************)
(* Theorems about Telemetry.tla for every value of its constants.          *)
(***************************************************************************)
EXTENDS Telemetry, SequenceTheorems, WellFoundedInduction, TLAPS

-----------------------------------------------------------------------------
(* The inductive invariant.                                                *)

Filing == {"open", "fill", "append"}
Draining == {"read", "parse", "publish", "advanced", "skipped"}

(* Where the tasks are, and what that says of the buffer, the cursor and   *)
(* the counts.                                                             *)
PhaseInv ==
    /\ stor \in {"fill", "append"} => mounted
    /\ stor # "idle" => acquired \in Records
    /\ owed \subseteq 1 .. acquired
    /\ stor \in Filing => acquired \notin owed
    /\ stor = "append" => held = "writer" /\ conn # "parse"
    /\ stor = "first" => cursor.valid
    /\ conn = "parse" => held = "reader"
    /\ conn \in {"parse", "publish", "advanced", "skipped", "crossed"} => cursor.valid
    /\ conn \in {"parse", "publish"} => cursor.file \in Files
    /\ conn \in Draining => published < PerCycle /\ skipped < MaxSkips

(* On the card k a cursor stands in a file that was written before the     *)
(* day, or is being written, or at the start of one that is to be.         *)
CursorOK(c, k, day) ==
    c.valid => /\ c.file <= day
               /\ c.file \in DOMAIN k => c.at <= 2 * Len(k[c.file])
               /\ c.file \notin DOMAIN k => c.file < day \/ c.at = 0

CursorInv ==
    /\ CursorOK(cursor, card, today)
    /\ CursorOK(stored, card, today)
    /\ cursor.valid /\ stored.valid => stored.file <= cursor.file
    /\ mounted /\ ~cursor.valid => ~stored.valid /\ owed = {}

(* No record of o is behind the cursor c on the card k. *)
Ahead(c, k, o) ==
    \A r \in o, d \in DOMAIN k :
       \A i \in DOMAIN k[d] : k[d][i] = Line(r) => ~Passed(c, d, i)

(* An owed record begins a line; a record that is being stored is new.     *)
CardInv ==
    /\ \A d \in Files : d <= today
    /\ \A d \in Files : \A i \in DOMAIN card[d] :
          /\ card[d][i].id <= acquired
          /\ stor \in Filing => card[d][i] # Line(acquired)
          /\ (\E r \in owed : card[d][i] = Line(r)) => i = 1 \/ Ended(card[d][i - 1])

(* Up to where the read ended there is no record due but the one that was  *)
(* found.                                                                  *)
ImageInv ==
    conn \in {"parse", "publish"} =>
       /\ cursor.at <= image.to
       /\ image.to <= 2 * Len(card[cursor.file])
       /\ conn = "publish" => image.rec # 0
       /\ \A i \in DOMAIN card[cursor.file], r \in Due :
             /\ cursor.at <= 2 * (i - 1)
             /\ 2 * (i - 1) < image.to
             /\ card[cursor.file][i] = Line(r)
             => r = image.rec

IInv == TypeOK /\ PhaseInv /\ CursorInv /\ CardInv /\ ImageInv /\ OwedAhead

-----------------------------------------------------------------------------
(* Facts about the log.                                                    *)

LEMMA Constants ==
    /\ LastDay \in Nat /\ LastDay >= 1
    /\ MaxRecords \in Nat /\ MaxRecords >= 1
    /\ WriteLimit \in Nat /\ WriteLimit >= 1
    /\ PerCycle \in Nat /\ PerCycle >= 1
    /\ MaxSkips \in Nat /\ MaxSkips >= 1
    /\ MaxFaults \in Nat
  BY FsAbsAssumption, TelemetryAssumption

LEMMA MinOK ==
    ASSUME NEW S \in SUBSET Nat, S # {}
    PROVE  Min(S) \in S /\ \A x \in S : Min(S) <= x
  <1>. DEFINE R == {ss \in Nat \X Nat : ss[1] < ss[2]}
  <1>1. IsWellFoundedOn(R, Nat)
    BY NatLessThanWellFounded DEF OpToRel
  <1>. HIDE DEF R
  <1>2. PICK x \in S : \A y \in S : ~(<<y, x>> \in R)
    BY <1>1, WFMin
  <1>3. \A y \in S : x <= y
    <2>1. ASSUME NEW y \in S PROVE x <= y
      <3>1. <<y, x>> \notin R
        BY <1>2
      <3>2. x \in Nat /\ y \in Nat
        OBVIOUS
      <3>. QED  BY <3>1, <3>2 DEF R
    <2>. QED  BY <2>1
  <1>. QED  BY <1>2, <1>3 DEF Min

LEMMA CellTypes ==
    /\ Header \in Cells /\ Stub \in Cells /\ Junk \in Cells
    /\ \A r \in Records : Line(r) \in Cells
    /\ Header.id = 0 /\ Stub.id = 0 /\ Junk.id = 0
    /\ Header.kind = "header" /\ Stub.kind = "stub" /\ Junk.kind = "junk"
  BY Constants DEF Header, Stub, Junk, Line, Cells, Kinds, Records

LEMMA CardTypes ==
    ASSUME FsTypeOK
    PROVE  /\ Files \subseteq Days
           /\ card \in [Files -> Seq(Cells)]
           /\ \A d \in Files : card[d] \in Seq(Cells) /\ Len(card[d]) \in Nat
           /\ \A d \in Files : \A i \in DOMAIN card[d] :
                 i \in 1 .. Len(card[d]) /\ card[d][i] \in Cells
           /\ \A d : Text(d) \in Seq(Cells)
  <1>1. Files \subseteq Days /\ card \in [Files -> Seq(Cells)]
    BY DEF FsTypeOK, Files
  <1>2. \A d \in Files : card[d] \in Seq(Cells) /\ Len(card[d]) \in Nat
    BY <1>1
  <1>3. ASSUME NEW d \in Files, NEW i \in DOMAIN card[d]
        PROVE  i \in 1 .. Len(card[d]) /\ card[d][i] \in Cells
    BY <1>2
  <1>4. \A d : Text(d) \in Seq(Cells)
    BY <1>2 DEF Text
  <1>. QED  BY <1>1, <1>2, <1>3, <1>4

LEMMA CellOK ==
    ASSUME NEW at \in Nat
    PROVE  /\ Cell(at) \in Nat /\ Cell(at) >= 1
           /\ at + 1 <= 2 * Cell(at) /\ 2 * Cell(at) <= at + 2
           /\ at % 2 = 0 => 2 * Cell(at) = at + 2
           /\ at % 2 # 0 => 2 * Cell(at) = at + 1
  BY DEF Cell

LEMMA LineEndOK ==
    ASSUME NEW text \in Seq(Cells), NEW at \in Nat, at < 2 * Len(text)
    PROVE  /\ LineEnd(text, at) \in Cell(at) .. Len(text)
           /\ \A i \in Cell(at) .. LineEnd(text, at) : Ended(text[i]) => i = LineEnd(text, at)
  <1>1. Cell(at) \in Nat /\ Cell(at) <= Len(text)
    <2>1. Cell(at) \in Nat /\ 2 * Cell(at) <= at + 2
      BY CellOK
    <2>2. Cell(at) < Len(text) + 1
      <3>1. Len(text) \in Nat
        OBVIOUS
      <3>2. 2 * Cell(at) <= at + 2 /\ at + 2 < 2 * (Len(text) + 1)
        BY <2>1, <3>1
      <3>. QED  BY ONLY <2>1, <3>1, <3>2, at \in Nat
    <2>. QED  BY <2>1, <2>2
  <1>2. CASE LineEnds(text, at) = {}
    BY <1>1, <1>2 DEF LineEnd, LineEnds
  <1>3. CASE LineEnds(text, at) # {}
    <2>1. LineEnds(text, at) \in SUBSET Nat
      BY <1>1 DEF LineEnds
    <2>2. /\ Min(LineEnds(text, at)) \in LineEnds(text, at)
          /\ \A i \in LineEnds(text, at) : Min(LineEnds(text, at)) <= i
      BY <2>1, <1>3, MinOK
    <2>3. LineEnd(text, at) = Min(LineEnds(text, at))
      BY <1>3 DEF LineEnd
    <2>. HIDE DEF LineEnd
    <2>4. LineEnd(text, at) \in Cell(at) .. Len(text)
      BY <2>2, <2>3 DEF LineEnds
    <2>5. ASSUME NEW i \in Cell(at) .. LineEnd(text, at), Ended(text[i])
          PROVE  i = LineEnd(text, at)
      <3>1. i \in LineEnds(text, at)
        BY <2>4, <2>5, <1>1 DEF LineEnds
      <3>2. LineEnd(text, at) <= i
        BY <3>1, <2>2, <2>3
      <3>. QED  BY <3>2, <2>4, <1>1
    <2>. QED  BY <2>4, <2>5
  <1>. QED  BY <1>2, <1>3

(* A line ends behind its start, and a record that begins a line within it *)
(* is the record that was found.                                           *)
LEMMA LineAtOK ==
    ASSUME NEW text \in Seq(Cells), NEW at \in Nat, at < 2 * Len(text)
    PROVE  /\ LineAt(text, at) \in [rec : 0 .. MaxRecords, to : Nat]
           /\ LineAt(text, at).to = 2 * LineEnd(text, at)
           /\ LineEnd(text, at) \in 1 .. Len(text)
           /\ at < 2 * LineEnd(text, at)
           /\ \A i \in DOMAIN text :
                 /\ at <= 2 * (i - 1)
                 /\ i <= LineEnd(text, at)
                 /\ text[i].kind = "record"
                 /\ i = 1 \/ Ended(text[i - 1])
                 => text[i].id = LineAt(text, at).rec
  <1>. DEFINE last == LineEnd(text, at)
              k == Cell(at)
  <1>1. /\ last \in k .. Len(text)
        /\ \A i \in k .. last : Ended(text[i]) => i = last
    BY LineEndOK
  <1>2. /\ k \in Nat /\ k >= 1
        /\ at % 2 = 0 => 2 * k = at + 2
        /\ at % 2 # 0 => 2 * k = at + 1
    BY CellOK
  <1>. HIDE DEF last, k
  <1>3. last \in 1 .. Len(text) /\ text[last] \in Cells
    BY <1>1, <1>2
  <1>4. /\ LineAt(text, at).to = 2 * last
        /\ LineAt(text, at).rec =
             IF at % 2 = 0 /\ last = k /\ text[last].kind = "record"
             THEN text[last].id ELSE 0
        /\ LineAt(text, at) \in [rec : 0 .. MaxRecords, to : Nat]
    <2>1. /\ LineAt(text, at).to = 2 * last
          /\ LineAt(text, at).rec =
               IF at % 2 = 0 /\ last = k /\ text[last].kind = "record"
               THEN text[last].id ELSE 0
          /\ LineAt(text, at) = [rec |-> LineAt(text, at).rec, to |-> LineAt(text, at).to]
      BY DEF LineAt, last, k
    <2>2. LineAt(text, at).rec \in 0 .. MaxRecords
      <3>1. text[last].id \in 0 .. MaxRecords
        BY <1>3 DEF Cells
      <3>. QED  BY ONLY <2>1, <3>1, Constants
    <2>3. LineAt(text, at).to \in Nat
      BY <2>1, <1>3
    <2>. QED  BY <2>1, <2>2, <2>3
  <1>5. at < 2 * last
    BY ONLY <1>1, <1>2, at \in Nat
  <1>6. ASSUME NEW i \in DOMAIN text,
               at <= 2 * (i - 1), i <= last,
               text[i].kind = "record", i = 1 \/ Ended(text[i - 1])
        PROVE  text[i].id = LineAt(text, at).rec
    <2>0. i \in Nat /\ last \in Nat
      BY <1>1, <1>2
    <2>1. i \in k .. last
      BY ONLY <2>0, <1>2, <1>6, at \in Nat
    <2>2. i = last
      BY <2>1, <1>1, <1>6 DEF Ended
    <2>3. i = k
      <3>1. SUFFICES ASSUME i # k PROVE FALSE
        OBVIOUS
      <3>2. i - 1 \in k .. last /\ i # 1
        BY <2>1, <3>1, <1>2, <1>1
      <3>3. i - 1 = last
        BY <3>2, <1>1, <1>6
      <3>. QED  BY <3>3, <2>2, <1>1, <1>2
    <2>4. at % 2 = 0
      BY ONLY <2>3, <1>2, <1>6, at \in Nat
    <2>. QED  BY <2>2, <2>3, <2>4, <1>4, <1>6
  <1>. QED  BY <1>3, <1>4, <1>5, <1>6 DEF last

(* Of a read that was cut the same holds, up to where it ended.            *)
LEMMA CutOK ==
    ASSUME NEW text \in Seq(Cells), NEW at \in Nat, NEW to \in Cuts(text, at)
    PROVE  /\ to \in Nat /\ at <= to /\ to <= 2 * Len(text)
           /\ at < 2 * Len(text)
           /\ \A i \in DOMAIN text :
                 /\ at <= 2 * (i - 1)
                 /\ 2 * (i - 1) < to
                 /\ text[i].kind = "record"
                 /\ i = 1 \/ Ended(text[i - 1])
                 => text[i].id = LineAt(text, at).rec
  <1>. DEFINE last == LineEnd(text, at)
  <1>1. Len(text) \in Nat
    OBVIOUS
  <1>2. CASE at < 2 * Len(text)
    <2>1. last \in 1 .. Len(text)
      BY <1>2, LineAtOK
    <2>2. to \in at .. 2 * last - 1
      BY DEF Cuts
    <2>. HIDE DEF last
    <2>3. to \in Nat /\ at <= to /\ to <= 2 * Len(text) /\ to < 2 * last
      BY ONLY <1>1, <2>1, <2>2, at \in Nat
    <2>4. ASSUME NEW i \in DOMAIN text, 2 * (i - 1) < to
          PROVE  i <= last
      <3>1. i \in Nat
        OBVIOUS
      <3>. QED  BY ONLY <2>1, <2>3, <2>4, <3>1, <1>1
    <2>. QED  BY <1>2, <2>3, <2>4, LineAtOK DEF last
  <1>3. CASE ~(at < 2 * Len(text))
    <2>1. Cell(at) \in Nat /\ at + 1 <= 2 * Cell(at)
      BY CellOK
    <2>2. ~(Cell(at) <= Len(text))
      BY ONLY <1>1, <1>3, <2>1, at \in Nat
    <2>3. LineEnds(text, at) = {}
      BY ONLY <2>1, <2>2, <1>1 DEF LineEnds
    <2>4. to \in at .. 2 * Len(text) - 1
      BY <2>3 DEF Cuts, LineEnd
    <2>. QED  BY ONLY <2>4, <1>1, <1>3, at \in Nat
  <1>. QED  BY <1>2, <1>3

(* Skipping the header passes no record. *)
LEMMA SkipOK ==
    ASSUME NEW text \in Seq(Cells), NEW at \in Nat
    PROVE  /\ SkipCsvHeader(text, at) \in Nat
           /\ SkipCsvHeader(text, at) = at \/ SkipCsvHeader(text, at) <= 2 * Len(text)
           /\ \A i \in DOMAIN text : at <= 2 * (i - 1) /\ SkipCsvHeader(text, at) > 2 * (i - 1)
                 => text[i].kind # "record"
  <1>1. CASE ~(at = 0 /\ HeaderLine(text))
    BY <1>1 DEF SkipCsvHeader
  <1>2. CASE at = 0 /\ HeaderLine(text)
    <2>1. LineEnds(text, 0) # {}
      BY <1>2 DEF HeaderLine
    <2>2. 0 < 2 * Len(text)
      BY <2>1 DEF LineEnds, Cell
    <2>3. LineEnd(text, 0) \in 1 .. Len(text)
      <3>1. Cell(0) = 1
        BY DEF Cell
      <3>. QED  BY <2>2, <3>1, LineEndOK
    <2>4. SkipCsvHeader(text, at) = 2 * LineEnd(text, 0)
      BY <1>2 DEF SkipCsvHeader
    <2>5. ASSUME NEW i \in DOMAIN text, SkipCsvHeader(text, at) > 2 * (i - 1)
          PROVE  text[i].kind # "record"
      <3>1. i \in 1 .. LineEnd(text, 0)
        BY <2>5, <2>4, <2>3
      <3>. QED  BY <3>1, <1>2 DEF HeaderLine
    <2>. QED  BY <2>3, <2>4, <2>5
  <1>. QED  BY <1>1, <1>2

-----------------------------------------------------------------------------
(* Appends.                                                                *)

(* The card has grown by at most the one cell c, in today's file. *)
Grew(c) ==
    /\ DOMAIN card' \in {Files, Files \cup {today}}
    /\ card' \in [DOMAIN card' -> Seq(Cells)]
    /\ \A d \in Files :
          /\ Len(card[d]) <= Len(card'[d])
          /\ \A i \in 1 .. Len(card[d]) : card'[d][i] = card[d][i]
    /\ \A d \in DOMAIN card' : \A i \in 1 .. Len(card'[d]) :
          \/ d \in Files /\ i <= Len(card[d])
          \/ /\ d = today /\ card'[d][i] = c
             /\ i = Len(Text(today)) + 1
             /\ i > 1 => card'[d][i - 1] = Last(Text(today))

LEMMA AppendedOK ==
    ASSUME FsTypeOK, today \in Days, NEW c \in Cells,
           card' = card \/ card' = Appended(today, <<>>) \/ card' = Appended(today, <<c>>)
    PROVE  Grew(c)
  <1>. DEFINE t == Text(today)
  <1>1. /\ card \in [Files -> Seq(Cells)]
        /\ \A d \in Files : card[d] \in Seq(Cells) /\ Len(card[d]) \in Nat
        /\ t \in Seq(Cells)
    BY CardTypes
  <1>2. today \in Files => t = card[today]
    BY DEF Text
  <1>3. today \notin Files => t = <<>>
    BY DEF Text
  <1>4. CASE card' = card
    BY <1>4, <1>1 DEF Grew, Files
  <1>5. ASSUME NEW cells \in {<<>>, <<c>>}, card' = Appended(today, cells)
        PROVE  Grew(c)
    <2>. DEFINE u == t \o cells
    <2>1. /\ u \in Seq(Cells)
          /\ Len(t) <= Len(u)
          /\ \A i \in 1 .. Len(t) : u[i] = t[i]
          /\ \A i \in 1 .. Len(u) : i > Len(t) => i = Len(t) + 1 /\ u[i] = c
      <3>1. CASE cells = <<>>
        <4>1. u = t
          BY <3>1, <1>1, ConcatEmptySeq
        <4>. QED  BY <4>1, <1>1
      <3>2. CASE cells = <<c>>
        <4>1. u \in Seq(Cells) /\ Len(u) = Len(t) + 1
          BY <3>2, <1>1, ConcatProperties
        <4>2. \A i \in 1 .. Len(u) : u[i] = IF i <= Len(t) THEN t[i] ELSE c
          BY <3>2, <1>1, <4>1
        <4>. QED  BY <4>1, <4>2, <1>1
      <3>. QED  BY <3>1, <3>2
    <2>. HIDE DEF u
    <2>2. /\ DOMAIN card' = Files \cup {today}
          /\ card'[today] = u
          /\ \A d \in Files \ {today} : card'[d] = card[d]
          /\ card' \in [Files \cup {today} -> Seq(Cells)]
      BY <1>5, <2>1, <1>1 DEF Appended, u
    <2>3. /\ Len(t) <= Len(card'[today])
          /\ \A i \in 1 .. Len(t) : card'[today][i] = t[i]
          /\ \A i \in 1 .. Len(card'[today]) :
                i > Len(t) => i = Len(t) + 1 /\ card'[today][i] = c
      BY <2>1, <2>2
    <2>4. ASSUME NEW d \in Files
          PROVE  /\ Len(card[d]) <= Len(card'[d])
                 /\ \A i \in 1 .. Len(card[d]) : card'[d][i] = card[d][i]
      BY <2>2, <2>3, <1>1, <1>2
    <2>5. ASSUME NEW d \in DOMAIN card', NEW i \in 1 .. Len(card'[d])
          PROVE  \/ d \in Files /\ i <= Len(card[d])
                 \/ /\ d = today /\ card'[d][i] = c
                    /\ i = Len(t) + 1
                    /\ i > 1 => card'[d][i - 1] = Last(t)
      <3>1. CASE d # today
        BY <3>1, <2>2, <1>1
      <3>2. CASE d = today
        <4>1. CASE i <= Len(t)
          BY <4>1, <3>2, <1>2, <1>3
        <4>2. CASE i > Len(t)
          <5>1. i = Len(t) + 1 /\ card'[d][i] = c
            BY <4>2, <3>2, <2>3, <1>1
          <5>2. i > 1 => card'[d][i - 1] = Last(t)
            BY <5>1, <3>2, <2>3, <1>1 DEF Last
          <5>. QED  BY <5>1, <5>2, <3>2
        <4>. QED  BY <4>1, <4>2, <1>1
      <3>. QED  BY <3>1, <3>2
    <2>. QED  BY <2>2, <2>4, <2>5 DEF Grew
  <1>. QED  BY <1>4, <1>5

-----------------------------------------------------------------------------
(* What holds of a cursor and of the card when a cell is appended.         *)

LEMMA OwedAheadIff ==
    OwedAhead <=> Ahead(cursor, card, Due) /\ Ahead(stored, card, Due)
  BY DEF OwedAhead, NonePassed, Ahead, Files

LEMMA GrewCursor ==
    ASSUME FsTypeOK, today \in Days, NEW x, Grew(x),
           NEW c \in Cursors, CursorOK(c, card, today)
    PROVE  CursorOK(c, card', today)
  <1>1. c.at \in Nat /\ c.file \in Nat /\ today \in Nat
    BY DEF Cursors, Days
  <1>2. ASSUME c.valid, c.file \in DOMAIN card'
        PROVE  c.at <= 2 * Len(card'[c.file])
    <2>1. CASE c.file \in Files
      <3>1. Len(card[c.file]) \in Nat /\ Len(card'[c.file]) \in Nat
        BY <1>2, <2>1, CardTypes DEF Grew
      <3>2. Len(card[c.file]) <= Len(card'[c.file])
        BY <2>1 DEF Grew
      <3>3. c.at <= 2 * Len(card[c.file])
        BY <2>1, <1>2 DEF CursorOK, Files
      <3>. QED  BY <3>1, <3>2, <3>3, <1>1
    <2>2. CASE c.file \notin Files
      <3>1. c.file = today /\ c.at = 0
        BY <2>2, <1>2, <1>1 DEF Grew, CursorOK, Files
      <3>2. Len(card'[c.file]) \in Nat
        BY <1>2 DEF Grew
      <3>. QED  BY <3>1, <3>2
    <2>. QED  BY <2>1, <2>2
  <1>3. ASSUME c.valid, c.file \notin DOMAIN card'
        PROVE  c.file < today \/ c.at = 0
    BY <1>3 DEF Grew, CursorOK, Files
  <1>. QED  BY <1>2, <1>3 DEF CursorOK

(* The cell that is new has been passed by no cursor. *)
LEMMA GrewAhead ==
    ASSUME FsTypeOK, today \in Days, NEW x, Grew(x), CardInv,
           NEW c \in Cursors, CursorOK(c, card, today),
           Ahead(c, card, Due),
           NEW o, o \subseteq Due \cup {acquired},
           acquired \in o => stor \in Filing \/ acquired \in Due
    PROVE  Ahead(c, card', o)
  <1>. SUFFICES ASSUME NEW r \in o, NEW d \in DOMAIN card',
                       NEW i \in DOMAIN card'[d], card'[d][i] = Line(r)
                PROVE  ~Passed(c, d, i)
    BY DEF Ahead
  <1>1. i \in 1 .. Len(card'[d]) /\ Len(card'[d]) \in Nat
    BY DEF Grew
  <1>2. CASE d \in Files /\ i <= Len(card[d])
    <2>1. i \in DOMAIN card[d] /\ card[d][i] = Line(r)
      BY <1>1, <1>2, CardTypes DEF Grew
    <2>2. r \in Due
      BY <2>1, <1>2 DEF CardInv
    <2>. QED  BY <2>1, <2>2, <1>2 DEF Ahead, Files
  <1>3. CASE d = today /\ i = Len(Text(today)) + 1
    <2>1. c.at \in Nat /\ c.file \in Nat /\ today \in Nat
      BY DEF Cursors, Days
    <2>2. ASSUME c.valid, c.file = today
          PROVE  c.at <= 2 * Len(Text(today))
      <3>1. CASE today \in Files
        BY <2>2, <3>1 DEF CursorOK, Files, Text
      <3>2. CASE today \notin Files
        <4>1. c.at = 0
          BY <2>1, <2>2, <3>2 DEF CursorOK, Files
        <4>2. Len(Text(today)) \in Nat
          BY CardTypes
        <4>. QED  BY <4>1, <4>2
      <3>. QED  BY <3>1, <3>2
    <2>3. ASSUME c.valid PROVE c.file <= today
      BY <2>3 DEF CursorOK
    <2>. QED  BY <1>3, <2>1, <2>2, <2>3, <1>1 DEF Passed
  <1>. QED  BY <1>1, <1>2, <1>3 DEF Grew

LEMMA GrewCard ==
    ASSUME FsTypeOK, today \in Days, acquired \in Nat, NEW x \in Cells, Grew(x), CardInv,
           x.id <= acquired,
           x.kind = "record" => x = Line(acquired) /\ acquired \notin owed,
           stor \in Filing, acquired \notin owed,
           today' = today, acquired' = acquired,
           stor' \in Filing => x.kind # "record",
           owed' \subseteq owed \cup {acquired},
           acquired \in owed' => ~LineOpen(Text(today))
    PROVE  CardInv'
  <1>1. \A d \in Files' : d <= today'
    BY DEF Grew, CardInv, Files, Days
  <1>2. ASSUME NEW d \in Files', NEW i \in DOMAIN card'[d]
        PROVE  /\ card'[d][i].id <= acquired'
               /\ stor' \in Filing => card'[d][i] # Line(acquired')
               /\ (\E r \in owed' : card'[d][i] = Line(r)) => i = 1 \/ Ended(card'[d][i - 1])
    <2>1. i \in 1 .. Len(card'[d]) /\ Len(card'[d]) \in Nat
      BY <1>2 DEF Grew, Files
    <2>2. CASE d \in Files /\ i <= Len(card[d])
      <3>1. i \in DOMAIN card[d] /\ Len(card[d]) \in Nat /\ card'[d][i] = card[d][i]
        BY <2>1, <2>2, CardTypes DEF Grew
      <3>2. card'[d][i].id <= acquired' /\ card'[d][i] # Line(acquired')
        BY <3>1, <2>2 DEF CardInv
      <3>3. ASSUME NEW r \in owed', card'[d][i] = Line(r), i # 1
            PROVE  Ended(card'[d][i - 1])
        <4>1. r \in owed
          BY <3>2, <3>3
        <4>2. Ended(card[d][i - 1])
          BY <4>1, <3>1, <3>3, <2>2 DEF CardInv
        <4>3. card'[d][i - 1] = card[d][i - 1]
          <5>1. i - 1 \in 1 .. Len(card[d])
            BY ONLY <2>1, <2>2, <3>1, <3>3
          <5>. QED  BY <5>1, <2>2 DEF Grew
        <4>. QED  BY <4>2, <4>3
      <3>. QED  BY <3>2, <3>3
    <2>3. CASE d = today /\ i = Len(Text(today)) + 1
      <3>1. /\ card'[d][i] = x
            /\ i > 1 => card'[d][i - 1] = Last(Text(today))
            /\ Text(today) \in Seq(Cells)
        <4>1. Text(today) \in Seq(Cells) /\ (d \in Files => Text(today) = card[d])
          BY CardTypes, <2>3 DEF Text
        <4>. QED  BY <4>1, <2>1, <2>3 DEF Grew, Files
      <3>2. stor' \in Filing => card'[d][i] # Line(acquired')
        BY <3>1 DEF Line
      <3>3. ASSUME NEW r \in owed', card'[d][i] = Line(r), i # 1
            PROVE  Ended(card'[d][i - 1])
        <4>1. x = Line(acquired) /\ r = acquired
          BY <3>1, <3>3 DEF Line
        <4>2. Text(today) # <<>> /\ i > 1
          BY <3>1, <3>3, <2>3, <2>1
        <4>. QED  BY <4>1, <4>2, <3>1 DEF LineOpen
      <3>. QED  BY <3>1, <3>2, <3>3
    <2>. QED  BY <2>1, <2>2, <2>3 DEF Grew, Files
  <1>. QED  BY <1>1, <1>2 DEF CardInv

LEMMA GrewImage ==
    ASSUME TypeOK, NEW x, Grew(x), CardInv, ImageInv, PhaseInv,
           stor \in Filing, acquired \notin owed,
           conn' = conn, image' = image, cursor.valid => cursor' = cursor,
           Due' \subseteq Due \cup {acquired}
    PROVE  ImageInv'
  <1>. SUFFICES ASSUME conn \in {"parse", "publish"}
                PROVE  ImageInv'
    BY DEF ImageInv
  <1>. DEFINE f == cursor.file
  <1>1. cursor' = cursor /\ f \in Files
    BY DEF PhaseInv
  <1>2. /\ Len(card[f]) \in Nat /\ Len(card'[f]) \in Nat
        /\ Len(card[f]) <= Len(card'[f])
        /\ DOMAIN card[f] = 1 .. Len(card[f])
        /\ DOMAIN card'[f] = 1 .. Len(card'[f])
        /\ \A i \in DOMAIN card[f] : card'[f][i] = card[f][i]
    <2>1. f \in DOMAIN card'
      BY <1>1 DEF Grew, Files
    <2>2. card'[f] \in Seq(Cells) /\ card[f] \in Seq(Cells)
      BY <2>1, <1>1, CardTypes DEF Grew, TypeOK
    <2>3. /\ Len(card[f]) <= Len(card'[f])
          /\ \A i \in 1 .. Len(card[f]) : card'[f][i] = card[f][i]
      BY <1>1 DEF Grew
    <2>. HIDE DEF f
    <2>. QED  BY <2>2, <2>3
  <1>3. /\ image.to \in Nat
        /\ cursor.at <= image.to
        /\ image.to <= 2 * Len(card[f])
        /\ conn = "publish" => image.rec # 0
    BY DEF ImageInv, TypeOK
  <1>4. ASSUME NEW i \in DOMAIN card'[f], NEW r \in Due',
               cursor.at <= 2 * (i - 1), 2 * (i - 1) < image.to, card'[f][i] = Line(r)
        PROVE  r = image.rec
    <2>1. i \in DOMAIN card[f] /\ card[f][i] = Line(r)
      <3>1. i \in Nat /\ 1 <= i /\ 2 * (i - 1) < image.to
        BY <1>4, <1>2
      <3>2. i <= Len(card[f])
        BY <3>1, <1>2, <1>3
      <3>. QED  BY <3>1, <3>2, <1>2, <1>4
    <2>2. r \in Due
      BY <2>1, <1>1 DEF CardInv
    <2>. QED  BY <2>1, <2>2, <1>4 DEF ImageInv
  <1>5. image.to <= 2 * Len(card'[f])
    BY <1>2, <1>3
  <1>. QED  BY <1>1, <1>3, <1>4, <1>5 DEF ImageInv

-----------------------------------------------------------------------------
(* The storage task keeps the invariant.                                   *)

LEMMA StatesTyped ==
    ASSUME TypeOK
    PROVE  /\ cursor \in Cursors /\ stored \in Cursors
           /\ cursor.at \in Nat /\ cursor.file \in Nat
           /\ stored.at \in Nat /\ stored.file \in Nat
           /\ today \in Days /\ today \in Nat
           /\ acquired \in Nat /\ acquired <= MaxRecords
           /\ FsTypeOK
  BY Constants DEF TypeOK, FsTypeOK, Cursors, Days

LEMMA FaultTyped ==
    ASSUME TypeOK, NEW kind, NoFault \/ Fault(kind)
    PROVE  faults' \in 0 .. MaxFaults
  BY Constants DEF TypeOK, NoFault, Fault

(* With the card as it was, a later day, newer records and fewer owed      *)
(* change nothing.                                                         *)
LEMMA CardFrame ==
    ASSUME TypeOK, CardInv, card' = card,
           today' \in Nat, today <= today',
           \/ acquired' = acquired /\ (stor' \in Filing => stor \in Filing)
           \/ acquired' = acquired + 1,
           owed' \subseteq owed
    PROVE  CardInv'
  <1>1. ASSUME NEW d \in Files
        PROVE  d <= today'
    BY <1>1, StatesTyped, CardTypes DEF CardInv, Days
  <1>2. ASSUME NEW d \in Files, NEW i \in DOMAIN card[d]
        PROVE  /\ card[d][i].id <= acquired'
               /\ stor' \in Filing => card[d][i] # Line(acquired')
    <2>1. card[d][i].id \in Nat /\ card[d][i].id <= acquired /\ acquired \in Nat
      BY <1>2, StatesTyped, CardTypes, Constants DEF Cells, CardInv
    <2>2. CASE acquired' = acquired
      <3>1. stor' \in Filing => stor \in Filing
        BY <2>1, <2>2
      <3>. QED  BY <2>1, <2>2, <3>1, <1>2 DEF CardInv
    <2>3. CASE acquired' = acquired + 1
      BY <2>1, <2>3 DEF Line
    <2>. QED  BY <2>2, <2>3
  <1>3. ASSUME NEW d \in Files, NEW i \in DOMAIN card[d],
               \E r \in owed' : card[d][i] = Line(r)
        PROVE  i = 1 \/ Ended(card[d][i - 1])
    BY <1>3 DEF CardInv
  <1>. QED  BY <1>1, <1>2, <1>3 DEF CardInv, Files

LEMMA StepAcquire ==
    ASSUME IInv, Acquire
    PROVE  IInv'
  <1>. USE DEF IInv, Acquire, storFrame, fsVars, connVars, spared
  <1>1. /\ today' \in Days /\ today' \in Nat /\ today <= today' /\ acquired' = acquired + 1
        /\ acquired' \in Records /\ acquired' \in 0 .. MaxRecords
    BY StatesTyped, Constants DEF Days, Records
  <1>2. TypeOK'
    BY <1>1 DEF TypeOK, FsTypeOK
  <1>3. PhaseInv'
    BY <1>1, StatesTyped DEF PhaseInv, Files, Filing, Draining
  <1>4. CardInv'
    BY <1>1, CardFrame
  <1>5. CursorInv'
    BY <1>1, StatesTyped DEF CursorInv, CursorOK
  <1>6. ImageInv' /\ OwedAhead'
    BY DEF ImageInv, OwedAhead, NonePassed, Due, Passed, Files
  <1>. QED  BY <1>2, <1>3, <1>4, <1>5, <1>6

LEMMA StepFillBuffer ==
    ASSUME IInv, FillBuffer, ~Overlap
    PROVE  IInv'
  <1>. USE DEF IInv, FillBuffer, storFrame, connVars, spared, NoFault
  <1>2. TypeOK'
    BY DEF TypeOK, FsTypeOK
  <1>3. PhaseInv'
    BY DEF PhaseInv, Files, Filing, Draining
  <1>4. CardInv'
    BY CardFrame, StatesTyped DEF Filing
  <1>5. CursorInv'
    BY DEF CursorInv, CursorOK
  <1>6. ImageInv' /\ OwedAhead'
    BY DEF ImageInv, OwedAhead, NonePassed, Due, Passed, Files
  <1>. QED  BY <1>2, <1>3, <1>4, <1>5, <1>6

LEMMA StepStoreFirst ==
    ASSUME IInv, StoreFirst
    PROVE  IInv'
  <1>. USE DEF IInv, StoreFirst, storFrame, connVars, spared
  <1>1. stored' \in {stored, cursor}
    BY DEF CursorStored, CursorNotStored
  <1>2. TypeOK'
    <2>1. faults' \in 0 .. MaxFaults
      BY FaultTyped
    <2>2. FsTypeOK'
      BY <1>1 DEF TypeOK, FsTypeOK
    <2>. QED  BY <2>1, <2>2 DEF TypeOK
  <1>3. PhaseInv'
    BY DEF PhaseInv, Files, Filing, Draining
  <1>4. CardInv'
    BY CardFrame, StatesTyped DEF Filing
  <1>5. CursorInv'
    BY <1>1, StatesTyped DEF CursorInv, PhaseInv
  <1>6. ImageInv' /\ OwedAhead'
    BY <1>1 DEF ImageInv, OwedAhead, NonePassed, Due, Passed, Files
  <1>. QED  BY <1>2, <1>3, <1>4, <1>5, <1>6

(* An append that was cut or failed: the card has grown by a header, a     *)
(* stub, or the record, which nobody was told is stored.                   *)
LEMMA LeftoversOK ==
    ASSUME FsTypeOK, today \in Days, NEW cell \in Cells, card' \in Leftovers(today, cell)
    PROVE  \E x \in {Stub, cell} : Grew(x)
  BY AppendedOK, CellTypes DEF Leftovers

LEMMA StepGrowth ==
    ASSUME IInv, stor \in Filing, mounted,
           NEW x \in {Header, Stub, Line(acquired)}, Grew(x),
           stor' \in Filing => x.kind # "record",
           UNCHANGED <<cursor, stored, acquired, today, conn, image, owed, missed>>
    PROVE  CursorInv' /\ CardInv' /\ ImageInv' /\ OwedAhead'
  <1>. USE DEF IInv
  <1>1. /\ cursor \in Cursors /\ stored \in Cursors /\ FsTypeOK
        /\ today \in Days /\ acquired \in Nat
    BY StatesTyped
  <1>2. acquired \in Records /\ acquired \notin owed
    BY DEF PhaseInv, Filing
  <1>3. /\ x \in Cells /\ x.id <= acquired
        /\ x.kind = "record" => x = Line(acquired)
    BY <1>1, <1>2, CellTypes DEF Line
  <1>4. CursorOK(cursor, card', today) /\ CursorOK(stored, card', today)
    BY <1>1, GrewCursor DEF CursorInv
  <1>5. CursorInv'
    <2>1. mounted /\ ~cursor.valid => ~stored.valid /\ owed = {}
      BY DEF CursorInv
    <2>. QED  BY <1>4, <2>1 DEF CursorInv
  <1>6. CardInv'
    BY <1>1, <1>2, <1>3, GrewCard
  <1>7. ImageInv'
    BY <1>2, GrewImage DEF Due
  <1>8. Ahead(cursor, card', Due) /\ Ahead(stored, card', Due)
    BY <1>1, GrewAhead, OwedAheadIff DEF CursorInv
  <1>9. OwedAhead'
    BY <1>8 DEF OwedAhead, NonePassed, Due, Ahead, Files, Passed
  <1>. QED  BY <1>5, <1>6, <1>7, <1>9

LEMMA GrewTyped ==
    ASSUME FsTypeOK, today \in Days, NEW x, Grew(x)
    PROVE  /\ \E files \in SUBSET Days : card' \in [files -> Seq(Cells)]
           /\ Files \subseteq DOMAIN card'
  <1>1. DOMAIN card' \in SUBSET Days /\ Files \subseteq DOMAIN card'
    BY CardTypes DEF Grew
  <1>2. card' \in [DOMAIN card' -> Seq(Cells)]
    BY DEF Grew
  <1>. QED  BY <1>1, <1>2

LEMMA StepOpenFile ==
    ASSUME IInv, OpenFile
    PROVE  IInv'
  <1>. USE DEF IInv, OpenFile, storFrame, connVars, spared
  <1>1. FsTypeOK /\ today \in Days /\ acquired \in Nat
    BY StatesTyped
  <1>2. CASE card' = card
    <2>1. TypeOK'
      <3>1. faults' \in 0 .. MaxFaults
        BY FaultTyped
      <3>2. FsTypeOK'
        BY <1>2 DEF TypeOK, FsTypeOK
      <3>. QED  BY <3>1, <3>2 DEF TypeOK
    <2>2. PhaseInv'
      BY <1>2 DEF PhaseInv, Files, Filing, Draining
    <2>3. CardInv'
      BY <1>2, CardFrame, StatesTyped DEF Filing
    <2>4. CursorInv'
      BY <1>2 DEF CursorInv, CursorOK
    <2>5. ImageInv' /\ OwedAhead'
      BY <1>2 DEF ImageInv, OwedAhead, NonePassed, Due, Passed, Files
    <2>. QED  BY <2>1, <2>2, <2>3, <2>4, <2>5
  <1>3. CASE card' # card
    <2>1. PICK x \in {Header, Stub} : Grew(x)
      <3>1. card' = Appended(today, <<Header>>) \/ card' \in Leftovers(today, Header)
        BY <1>3
      <3>. QED  BY <3>1, <1>1, LeftoversOK, AppendedOK, CellTypes
    <2>2. mounted
      BY <1>3
    <2>3. TypeOK'
      <3>1. faults' \in 0 .. MaxFaults
        BY FaultTyped
      <3>2. FsTypeOK'
        BY <2>1, <1>1, GrewTyped DEF FsTypeOK
      <3>. QED  BY <3>1, <3>2 DEF TypeOK
    <2>4. PhaseInv'
      BY <2>1, <2>2, <1>1, GrewTyped DEF PhaseInv, Files, Filing, Draining
    <2>5. CursorInv' /\ CardInv' /\ ImageInv' /\ OwedAhead'
      BY <2>1, <2>2, StepGrowth, CellTypes DEF Filing
    <2>. QED  BY <2>3, <2>4, <2>5
  <1>. QED  BY <1>2, <1>3

LEMMA StepAppendFails ==
    ASSUME IInv, AppendFails
    PROVE  IInv'
  <1>. USE DEF IInv, AppendFails, storFrame, connVars, spared
  <1>1. FsTypeOK /\ today \in Days /\ acquired \in Records /\ mounted
    BY StatesTyped DEF PhaseInv
  <1>2. PICK x \in {Stub, Line(acquired)} : Grew(x)
    BY <1>1, LeftoversOK, CellTypes
  <1>3. TypeOK'
    <2>1. failures' \in 0 .. WriteLimit /\ mounted' \in BOOLEAN
          /\ (mounted' => failures' < WriteLimit)
      <3>1. failures \in Nat /\ failures < WriteLimit /\ WriteLimit \in Nat
        BY <1>1, Constants DEF FsTypeOK
      <3>2. failures' = failures + 1 /\ mounted' = (failures + 1 < WriteLimit)
        OBVIOUS
      <3>3. failures' \in 0 .. WriteLimit
        BY ONLY <3>1, <3>2
      <3>4. mounted' \in BOOLEAN /\ (mounted' => failures' < WriteLimit)
        <4>1. mounted' \in BOOLEAN
          BY ONLY <3>1, <3>2
        <4>2. ASSUME mounted' PROVE failures + 1 < WriteLimit
          BY ONLY <3>1, <3>2, <4>2
        <4>. QED  BY <3>2, <4>1, <4>2
      <3>. QED  BY ONLY <3>3, <3>4
    <2>2. FsTypeOK'
      BY <2>1, <1>1, <1>2, GrewTyped DEF FsTypeOK
    <2>3. faults' \in 0 .. MaxFaults
      BY FaultTyped
    <2>. QED  BY <2>2, <2>3 DEF TypeOK
  <1>4. PhaseInv'
    BY <1>1, <1>2, GrewTyped DEF PhaseInv, Files, Filing, Draining
  <1>5. CardInv' /\ ImageInv' /\ OwedAhead'
    BY <1>1, <1>2, StepGrowth DEF Filing
  <1>6. CursorInv'
    BY <1>1, <1>2, StepGrowth DEF Filing
  <1>. QED  BY <1>3, <1>4, <1>5, <1>6

(* The record becomes owed unless a torn line stands before it or its      *)
(* flush failed; and the cursor the first one establishes stands before it.*)
LEMMA StepAppendRecord ==
    ASSUME IInv, AppendRecord
    PROVE  IInv'
  <1>. USE DEF IInv, AppendRecord, storFrame, connVars
  <1>1. /\ FsTypeOK /\ today \in Days /\ today \in Nat
        /\ acquired \in Records /\ acquired \in Nat /\ acquired \notin owed /\ mounted
        /\ cursor \in Cursors /\ stored \in Cursors
    BY StatesTyped DEF PhaseInv, Filing
  <1>2. /\ Line(acquired) \in Cells
        /\ Line(acquired).id = acquired /\ Line(acquired).kind = "record"
    BY <1>1, CellTypes DEF Line
  <1>3. Written = {<<Line(acquired)>>}
    BY DEF Written, PhaseInv
  <1>4. PICK x \in {Stub, Line(acquired)} :
              /\ Grew(x)
              /\ acquired \in owed' => ~LineOpen(Text(today))
    <2>1. CASE card' \in Leftovers(today, Line(acquired)) /\ owed' = owed
      BY <2>1, <1>1, <1>2, LeftoversOK
    <2>2. CASE card' = Appended(today, <<Line(acquired)>>)
      BY <2>2, <1>1, <1>2, AppendedOK
    <2>. QED  BY <2>1, <2>2, <1>3
  <1>5. /\ x \in Cells /\ x.id <= acquired
        /\ x.kind = "record" => x = Line(acquired)
    BY <1>1, <1>2, CellTypes
  <1>6. /\ owed' \subseteq owed \cup {acquired}
        /\ Due' \subseteq Due \cup {acquired}
    BY <1>1 DEF Due
  <1>7. cursor' \in Cursors /\ cursor'.valid
    <2>1. [valid |-> TRUE, file |-> today, at |-> 0] \in Cursors
      BY ONLY <1>1 DEF Cursors
    <2>2. CASE cursor.valid /\ cursor' = cursor
      BY ONLY <2>2, <1>1
    <2>3. CASE cursor' = [valid |-> TRUE, file |-> today, at |-> 0]
      BY ONLY <2>1, <2>3
    <2>. QED  BY <2>2, <2>3
  <1>8. TypeOK'
    <2>1. FsTypeOK'
      <3>1. \E files \in SUBSET Days : card' \in [files -> Seq(Cells)]
        BY <1>1, <1>4, GrewTyped
      <3>2. failures' \in 0 .. WriteLimit /\ (mounted' => failures' < WriteLimit)
        BY Constants
      <3>. QED  BY <3>1, <3>2, <1>7, <1>1 DEF FsTypeOK
    <2>2. faults' \in 0 .. MaxFaults
      BY FaultTyped
    <2>3. owed' \subseteq Records
      BY <1>6, <1>1 DEF TypeOK
    <2>. QED  BY <2>1, <2>2, <2>3 DEF TypeOK
  <1>9. PhaseInv'
    <2>1. owed' \subseteq 1 .. acquired
      BY <1>1, <1>6 DEF PhaseInv, Records
    <2>2. conn \in {"parse", "publish"} => cursor' = cursor /\ cursor.file \in Files
      BY DEF PhaseInv
    <2>3. Files \subseteq Files'
      BY <1>1, <1>4, GrewTyped DEF Files
    <2>. QED  BY <1>1, <1>7, <2>1, <2>2, <2>3 DEF PhaseInv, Filing, Draining
  <1>10. CardInv'
    <2>1. /\ stor \in Filing /\ stor' \notin Filing
          /\ today' = today /\ acquired' = acquired
      BY DEF Filing
    <2>2. CardInv
      OBVIOUS
    <2>. HIDE DEF AppendRecord, IInv
    <2>. QED  BY <1>1, <1>4, <1>5, <1>6, <2>1, <2>2, GrewCard
  <1>11. ImageInv'
    BY <1>1, <1>4, <1>6, GrewImage DEF Filing
  <1>12. /\ CursorOK(cursor, card', today) /\ CursorOK(stored, card', today)
         /\ Ahead(cursor, card', Due') /\ Ahead(stored, card', Due')
    <2>1. CursorOK(cursor, card, today) /\ CursorOK(stored, card, today)
      BY DEF CursorInv
    <2>2. Ahead(cursor, card, Due) /\ Ahead(stored, card, Due)
      BY OwedAheadIff
    <2>3. stor \in Filing /\ CardInv
      BY DEF Filing
    <2>. HIDE DEF AppendRecord, IInv
    <2>. QED  BY <1>1, <1>4, <1>6, <2>1, <2>2, <2>3, GrewCursor, GrewAhead
  <1>13. CASE cursor.valid
    <2>1. CursorInv'
      BY <1>12, <1>13, <1>7 DEF CursorInv
    <2>2. OwedAhead'
      BY <1>12, <1>13 DEF OwedAhead, NonePassed, Due, Ahead, Files, Passed
    <2>. QED  BY <1>8, <1>9, <1>10, <1>11, <2>1, <2>2
  <1>14. CASE ~cursor.valid
    <2>1. /\ owed = {} /\ ~stored.valid
          /\ cursor' = [valid |-> TRUE, file |-> today, at |-> 0]
      BY <1>14, <1>1 DEF CursorInv
    <2>2. CursorOK(cursor', card', today)
      <3>1. today \in DOMAIN card' => Len(card'[today]) \in Nat
        BY <1>4 DEF Grew
      <3>. QED  BY ONLY <2>1, <3>1, <1>1 DEF CursorOK
    <2>3. CursorInv'
      BY <2>1, <2>2, <1>12, <1>7 DEF CursorInv
    <2>4. ASSUME NEW r \in Due', NEW d \in DOMAIN card',
                 NEW i \in DOMAIN card'[d], card'[d][i] = Line(r)
          PROVE  ~Passed(cursor', d, i)
      <3>1. i \in 1 .. Len(card'[d]) /\ Len(card'[d]) \in Nat
        BY <1>4 DEF Grew
      <3>2. r = acquired
        BY <2>1, <1>6 DEF Due
      <3>3. d = today
        <4>1. SUFFICES ASSUME d \in Files, i <= Len(card[d]) PROVE FALSE
          BY <3>1, <1>4 DEF Grew
        <4>2. i \in DOMAIN card[d] /\ card[d][i] = Line(acquired)
          BY <4>1, <3>1, <3>2, <2>4, <1>4, <1>1, CardTypes DEF Grew
        <4>. QED  BY <4>1, <4>2 DEF CardInv, Filing
      <3>. QED  BY <2>1, <3>1, <3>3, <1>1 DEF Passed
    <2>5. OwedAhead'
      BY <2>4, <1>12 DEF OwedAhead, NonePassed, Due, Ahead, Files, Passed
    <2>. QED  BY <1>8, <1>9, <1>10, <1>11, <2>3, <2>5
  <1>. QED  BY <1>13, <1>14

(* The file that goes is not the one of the cursor. *)
LEMMA ReclaimOK ==
    ASSUME FsTypeOK, NEW m, Reclaim(m)
    PROVE  /\ m \in Files
           /\ cursor.valid => m # cursor.file
           /\ DOMAIN card' = Files \ {m}
           /\ \A d \in DOMAIN card' : card'[d] = card[d]
           /\ card' \in [DOMAIN card' -> Seq(Cells)]
  <1>1. card' = [d \in Files \ {m} |-> card[d]]
    BY DEF Reclaim, Restrict, Files
  <1>. QED  BY <1>1, CardTypes DEF Reclaim

LEMMA StepHousekeep ==
    ASSUME IInv, Housekeep
    PROVE  IInv'
  <1>. USE DEF IInv, Housekeep, storFrame, connVars, storVars
  <1>1. /\ FsTypeOK /\ today \in Nat /\ today \in Days
        /\ cursor.file \in Nat /\ stored.file \in Nat
    BY StatesTyped
  <1>0. PICK m \in Files :
              /\ Reclaim(m)
              /\ \/ NoFault /\ UNCHANGED missed
                 \/ Fault("short") /\ missed' = missed \cup Filed({m})
    OBVIOUS
  <1>2. /\ cursor.valid => m # cursor.file
        /\ DOMAIN card' = Files \ {m}
        /\ \A d \in DOMAIN card' : card'[d] = card[d]
        /\ card' \in [DOMAIN card' -> Seq(Cells)]
    BY <1>0, <1>1, ReclaimOK
  <1>3. /\ mounted /\ UNCHANGED <<mounted, failures, cursor, stored, held>>
        /\ faults' \in 0 .. MaxFaults
        /\ missed \subseteq missed' /\ missed' \subseteq Records
        /\ UNCHANGED <<storVars, connVars, link, owed, newest>>
    BY <1>0, FaultTyped DEF Reclaim, Filed, TypeOK
  <1>11. Due' \subseteq Due
    BY <1>3 DEF Due
  <1>4. m \in Nat /\ m <= today
    BY <1>1, CardTypes DEF CardInv, Days
  <1>. HIDE DEF Housekeep
  <1>5. TypeOK'
    <2>1. DOMAIN card' \in SUBSET Days
      BY <1>1, <1>2, CardTypes
    <2>2. FsTypeOK'
      BY <1>1, <1>2, <1>3, <2>1 DEF FsTypeOK
    <2>. QED  BY <2>2, <1>3 DEF TypeOK
  <1>6. PhaseInv'
    BY <1>2, <1>3 DEF PhaseInv, Files
  <1>7. CardInv'
    BY <1>2, <1>3 DEF CardInv, Files
  <1>8. CursorInv'
    <2>1. /\ CursorOK(cursor, card, today) /\ CursorOK(stored, card, today)
          /\ cursor.valid /\ stored.valid => stored.file <= cursor.file
          /\ ~cursor.valid => ~stored.valid /\ owed = {}
      BY <1>3 DEF CursorInv
    <2>2. CursorOK(cursor, card', today)
      BY <2>1, <1>2 DEF CursorOK, Files
    <2>3. CursorOK(stored, card', today)
      <3>1. ASSUME stored.valid, stored.file = m
            PROVE  stored.file < today
        <4>1. cursor.valid /\ stored.file <= cursor.file /\ cursor.file <= today
          BY <3>1, <2>1 DEF CursorOK
        <4>. QED  BY <4>1, <3>1, <1>1, <1>2, <1>4
      <3>. QED  BY <3>1, <2>1, <1>2 DEF CursorOK, Files
    <2>. QED  BY <2>1, <2>2, <2>3, <1>3 DEF CursorInv
  <1>9. ImageInv'
    <2>1. conn \in {"parse", "publish"} => cursor.file \in DOMAIN card'
      BY <1>2 DEF PhaseInv
    <2>. QED  BY <2>1, <1>2, <1>3, <1>11 DEF ImageInv
  <1>10. OwedAhead'
    BY <1>2, <1>3, <1>11 DEF OwedAhead, NonePassed, Passed, Files
  <1>. QED  BY <1>5, <1>6, <1>7, <1>8, <1>9, <1>10

-----------------------------------------------------------------------------
(* The connectivity task keeps the invariant.                              *)

(* The cursor moves within its file, past no record of o.                  *)
LEMMA MoveOK ==
    ASSUME TypeOK, CursorInv, OwedAhead, cursor.valid, cursor.file \in Files,
           NEW a \in Nat, a <= 2 * Len(card[cursor.file]),
           MoveTo(a), NEW o \in SUBSET Due,
           \A i \in DOMAIN card[cursor.file], r \in o :
              card[cursor.file][i] = Line(r) /\ cursor.at <= 2 * (i - 1)
              => a <= 2 * (i - 1)
    PROVE  /\ cursor' \in Cursors
           /\ cursor'.valid /\ cursor'.file = cursor.file /\ cursor'.at = a
           /\ CursorOK(cursor', card, today)
           /\ stored.valid => stored.file <= cursor'.file
           /\ Ahead(cursor', card, o)
  <1>1. cursor \in Cursors
    BY StatesTyped
  <1>2. /\ cursor' = [valid |-> TRUE, file |-> cursor.file, at |-> a]
        /\ cursor' \in Cursors
    BY <1>1 DEF MoveTo, Cursors
  <1>3. CursorOK(cursor', card, today)
    BY <1>2 DEF CursorOK, CursorInv, Files
  <1>4. ASSUME NEW r \in o, NEW d \in DOMAIN card,
               NEW i \in DOMAIN card[d], card[d][i] = Line(r)
        PROVE  ~Passed(cursor', d, i)
    <2>1. ~Passed(cursor, d, i)
      BY <1>4 DEF OwedAhead, NonePassed, Files
    <2>2. i \in Nat /\ cursor.at \in Nat /\ cursor.file \in Nat /\ d \in Nat
      BY <1>4, StatesTyped, CardTypes DEF Files, Days
    <2>3. CASE d = cursor.file
      <3>1. cursor.at <= 2 * (i - 1)
        BY <2>1, <2>2, <2>3 DEF Passed
      <3>2. a <= 2 * (i - 1)
        BY <3>1, <2>3, <1>4
      <3>. QED  BY <3>2, <2>2, <2>3, <1>2 DEF Passed
    <2>4. CASE d # cursor.file
      BY <2>1, <2>2, <2>4, <1>2 DEF Passed
    <2>. QED  BY <2>3, <2>4
  <1>. QED  BY <1>2, <1>3, <1>4 DEF CursorInv, Ahead

(* The steps that leave the card and the storage task alone.               *)
LEMMA ConnFrame ==
    ASSUME IInv, card' = card, mounted' = mounted, UNCHANGED storVars,
           owed' \subseteq owed, Due' \subseteq Due,
           cursor' \in Cursors, CursorOK(cursor', card, today),
           stored' \in {stored, cursor},
           cursor'.valid = cursor.valid, stored'.valid => cursor.valid \/ stored'= stored,
           cursor'.valid /\ stored'.valid => stored'.file <= cursor'.file,
           Ahead(cursor', card, Due')
    PROVE  CardInv' /\ CursorInv' /\ OwedAhead'
  <1>. USE DEF IInv
  <1>1. CardInv'
    BY CardFrame, StatesTyped DEF storVars
  <1>2. CursorOK(stored', card, today)
    BY DEF CursorInv
  <1>3. CursorInv'
    <2>1. mounted /\ ~cursor'.valid => ~stored'.valid /\ owed' = {}
      BY DEF CursorInv
    <2>. QED  BY <1>2, <2>1 DEF CursorInv, storVars
  <1>4. Ahead(stored', card, Due')
    BY OwedAheadIff DEF Ahead
  <1>5. OwedAhead'
    BY <1>4 DEF OwedAhead, NonePassed, Ahead, Files, Passed
  <1>. QED  BY <1>1, <1>3, <1>5

LEMMA StepDrainBegins ==
    ASSUME IInv, DrainBegins
    PROVE  IInv'
  <1>. USE DEF IInv, DrainBegins, connFrame, fsVars, storVars, history
  <1>1. TypeOK'
    BY Constants DEF TypeOK, FsTypeOK
  <1>2. PhaseInv'
    BY Constants DEF PhaseInv, Files, Filing, Draining
  <1>3. CardInv' /\ CursorInv' /\ OwedAhead'
    BY DEF CardInv, CursorInv, CursorOK, OwedAhead, NonePassed, Due, Passed, Files
  <1>4. ImageInv'
    BY DEF ImageInv
  <1>. QED  BY <1>1, <1>2, <1>3, <1>4

(* The check for a header moves the cursor past no record.                 *)
LEMMA PastHeaderOK ==
    ASSUME TypeOK, CursorInv, cursor.valid, cursor.file \in Files
    PROVE  /\ PastHeader \in Nat
           /\ PastHeader <= 2 * Len(card[cursor.file])
           /\ \A i \in DOMAIN card[cursor.file], r \in Due :
                 card[cursor.file][i] = Line(r) /\ cursor.at <= 2 * (i - 1)
                 => PastHeader <= 2 * (i - 1)
  <1>. DEFINE text == card[cursor.file]
  <1>1. /\ text \in Seq(Cells) /\ Len(text) \in Nat
        /\ DOMAIN text = 1 .. Len(text)
        /\ PastHeader = SkipCsvHeader(text, cursor.at)
        /\ cursor.at \in Nat /\ cursor.at <= 2 * Len(text)
    <2>1. text \in Seq(Cells) /\ cursor.at \in Nat
      BY StatesTyped, CardTypes
    <2>. QED  BY <2>1 DEF PastHeader, Text, CursorInv, CursorOK, Files
  <1>. HIDE DEF text
  <1>2. /\ PastHeader \in Nat
        /\ PastHeader <= 2 * Len(text)
        /\ \A i \in DOMAIN text : cursor.at <= 2 * (i - 1) /\ PastHeader > 2 * (i - 1)
              => text[i].kind # "record"
    BY <1>1, SkipOK
  <1>3. ASSUME NEW i \in DOMAIN text, NEW r \in Due,
               text[i] = Line(r), cursor.at <= 2 * (i - 1)
        PROVE  PastHeader <= 2 * (i - 1)
    <2>1. text[i].kind = "record"
      BY <1>3 DEF Line
    <2>. QED  BY <2>1, <1>1, <1>2, <1>3
  <1>. QED  BY <1>2, <1>3 DEF text

LEMMA StepNothingFound ==
    ASSUME IInv, NothingFound
    PROVE  IInv'
  <1>. USE DEF IInv, NothingFound, connFrame, storVars, history, ReadFails
  <1>0. Due' = Due
    BY DEF Due
  <1>1. /\ cursor' \in Cursors /\ cursor'.valid = cursor.valid
        /\ CursorOK(cursor', card, today) /\ Ahead(cursor', card, Due)
        /\ cursor'.valid /\ stored.valid => stored.file <= cursor'.file
    <2>1. CASE cursor' = cursor
      BY <2>1, StatesTyped, OwedAheadIff DEF CursorInv
    <2>2. CASE Readable /\ MoveTo(PastHeader)
      <3>1. cursor.valid /\ cursor.file \in Files
        BY <2>2 DEF Readable, Adrift
      <3>. QED  BY <3>1, <2>2, PastHeaderOK, MoveOK
    <2>. QED  BY <2>1, <2>2
  <1>2. TypeOK'
    <2>1. faults' \in 0 .. MaxFaults
      BY FaultTyped
    <2>2. FsTypeOK'
      BY <1>1, StatesTyped DEF FsTypeOK
    <2>. QED  BY <2>1, <2>2 DEF TypeOK
  <1>3. PhaseInv'
    BY <1>1 DEF PhaseInv, Files, Filing, Draining
  <1>4. CardInv' /\ CursorInv' /\ OwedAhead'
    BY <1>0, <1>1, ConnFrame
  <1>5. ImageInv'
    BY DEF ImageInv
  <1>. QED  BY <1>2, <1>3, <1>4, <1>5

LEMMA StepReadLine ==
    ASSUME IInv, ReadLine, ~Overlap
    PROVE  IInv'
  <1>. USE DEF IInv, ReadLine, connFrame, storVars, history, ReadFails
  <1>0. Due' = Due
    BY DEF Due
  <1>. DEFINE text == card[cursor.file]
  <1>1. cursor.valid /\ cursor.file \in Files /\ Text(cursor.file) = text
    BY DEF Readable, Adrift, Text
  <1>2. /\ cursor' \in Cursors /\ cursor'.valid /\ cursor'.file = cursor.file
        /\ CursorOK(cursor', card, today) /\ Ahead(cursor', card, Due)
        /\ stored.valid => stored.file <= cursor'.file
    <2>1. CASE cursor' = cursor
      BY <2>1, <1>1, StatesTyped, OwedAheadIff DEF CursorInv
    <2>2. CASE MoveTo(PastHeader)
      BY <2>2, <1>1, PastHeaderOK, MoveOK
    <2>. QED  BY <2>1, <2>2
  <1>3. /\ text \in Seq(Cells) /\ cursor'.at \in Nat
        /\ cursor'.at < 2 * Len(text)
        /\ image' = LineAt(text, cursor'.at)
    BY <1>1, <1>2, StatesTyped, CardTypes DEF Cursors
  <1>4. /\ image' \in [rec : 0 .. MaxRecords, to : Nat]
        /\ cursor'.at <= image'.to /\ image'.to <= 2 * Len(text)
        /\ \A i \in DOMAIN text :
              /\ cursor'.at <= 2 * (i - 1) /\ 2 * (i - 1) < image'.to
              /\ text[i].kind = "record"
              /\ i = 1 \/ Ended(text[i - 1])
              => text[i].id = image'.rec
    <2>. HIDE DEF text, ReadLine, IInv
    <2>. DEFINE last == LineEnd(text, cursor'.at)
    <2>1. /\ image'.to = 2 * last /\ last \in 1 .. Len(text)
          /\ cursor'.at < 2 * last /\ Len(text) \in Nat
          /\ image' \in [rec : 0 .. MaxRecords, to : Nat]
      BY <1>3, LineAtOK
    <2>2. ASSUME NEW i \in DOMAIN text, 2 * (i - 1) < image'.to
          PROVE  i <= last
      <3>1. i \in Nat
        BY <1>3
      <3>. QED  BY ONLY <2>1, <2>2, <3>1
    <2>3. cursor'.at <= image'.to /\ image'.to <= 2 * Len(text)
      BY ONLY <1>3, <2>1
    <2>. QED  BY <1>3, <2>1, <2>2, <2>3, LineAtOK
  <1>5. TypeOK'
    <2>1. faults' \in 0 .. MaxFaults
      BY FaultTyped
    <2>2. FsTypeOK'
      BY <1>2, StatesTyped DEF FsTypeOK
    <2>. QED  BY <1>4, <2>1, <2>2 DEF TypeOK
  <1>6. PhaseInv'
    BY <1>1, <1>2 DEF PhaseInv, Files, Filing, Draining
  <1>7. CardInv' /\ CursorInv' /\ OwedAhead'
    BY <1>0, <1>1, <1>2, ConnFrame
  <1>8. ImageInv'
    <2>1. ASSUME NEW i \in DOMAIN text, NEW r \in Due,
                 cursor'.at <= 2 * (i - 1), 2 * (i - 1) < image'.to, text[i] = Line(r)
          PROVE  r = image'.rec
      <3>1. text[i].kind = "record" /\ text[i].id = r
        BY <2>1 DEF Line
      <3>2. i = 1 \/ Ended(text[i - 1])
        BY <2>1, <1>1 DEF CardInv, Due
      <3>. QED  BY <3>1, <3>2, <2>1, <1>4
    <2>2. card'[cursor'.file] = text /\ conn' = "parse"
      BY <1>2
    <2>. HIDE DEF text, ReadLine, IInv
    <2>. QED  BY <2>1, <2>2, <1>0, <1>4 DEF ImageInv
  <1>. QED  BY <1>5, <1>6, <1>7, <1>8

(* A read that was cut: the record of its line is due no more. *)
LEMMA StepReadCut ==
    ASSUME IInv, ReadCut, ~Overlap
    PROVE  IInv'
  <1>. USE DEF IInv, ReadCut, connFrame, storVars
  <1>. DEFINE text == card[cursor.file]
  <1>1. cursor.valid /\ cursor.file \in Files /\ Text(cursor.file) = text
    BY DEF Readable, Adrift, Text
  <1>2. PICK from \in {cursor.at, PastHeader} : \E to \in Cuts(text, from) :
           /\ MoveTo(from)
           /\ image' = [rec |-> 0, to |-> to]
           /\ missed' = missed \cup ({LineAt(text, from).rec} \ {0})
    BY <1>1
  <1>3. PICK to \in Cuts(text, from) :
           /\ MoveTo(from)
           /\ image' = [rec |-> 0, to |-> to]
           /\ missed' = missed \cup ({LineAt(text, from).rec} \ {0})
    BY <1>2
  <1>4. /\ text \in Seq(Cells) /\ from \in Nat
        /\ cursor.at \in Nat /\ cursor \in Cursors
        /\ 0 \in 0 .. MaxRecords
    BY <1>1, StatesTyped, CardTypes, PastHeaderOK, Constants
  <1>5. /\ to \in Nat /\ from <= to /\ to <= 2 * Len(text)
        /\ from < 2 * Len(text)
        /\ \A i \in DOMAIN text :
              /\ from <= 2 * (i - 1)
              /\ 2 * (i - 1) < to
              /\ text[i].kind = "record"
              /\ i = 1 \/ Ended(text[i - 1])
              => text[i].id = LineAt(text, from).rec
    <2>. HIDE DEF text, ReadCut, IInv
    <2>. QED  BY <1>4, CutOK
  <1>6. missed' \subseteq Records /\ Due' \subseteq Due
    <2>1. LineAt(text, from).rec \in 0 .. MaxRecords
      <3>. HIDE DEF text, ReadCut, IInv
      <3>. QED  BY <1>4, <1>5, LineAtOK
    <2>2. {LineAt(text, from).rec} \ {0} \subseteq Records
      BY <2>1, Constants DEF Records
    <2>3. missed \subseteq Records
      BY DEF TypeOK
    <2>. HIDE DEF text, ReadCut, IInv
    <2>. QED  BY <1>3, <2>2, <2>3, owed' = owed DEF Due, ReadCut
  <1>7. /\ cursor' \in Cursors /\ cursor'.valid
        /\ cursor'.file = cursor.file /\ cursor'.at = from
        /\ CursorOK(cursor', card, today) /\ Ahead(cursor', card, Due')
        /\ stored.valid => stored.file <= cursor'.file
    <2>1. /\ from <= 2 * Len(text)
          /\ \A i \in DOMAIN text, r \in Due' :
                text[i] = Line(r) /\ cursor.at <= 2 * (i - 1) => from <= 2 * (i - 1)
      <3>1. from <= 2 * Len(text)
        <4>1. Len(text) \in Nat
          BY <1>4
        <4>. QED  BY ONLY <4>1, <1>4, <1>5
      <3>2. ASSUME NEW i \in DOMAIN text, NEW r \in Due',
                   text[i] = Line(r), cursor.at <= 2 * (i - 1)
            PROVE  from <= 2 * (i - 1)
        <4>1. CASE from = cursor.at
          BY <4>1, <3>2
        <4>2. CASE from = PastHeader
          BY <4>2, <3>2, <1>1, <1>6, PastHeaderOK
        <4>. QED  BY <4>1, <4>2
      <3>. QED  BY <3>1, <3>2
    <2>2. TypeOK /\ CursorInv /\ OwedAhead
      OBVIOUS
    <2>3. Due' \in SUBSET Due
      BY <1>6
    <2>. HIDE DEF ReadCut, IInv
    <2>. QED  BY <2>1, <2>2, <2>3, <1>1, <1>3, <1>4, MoveOK
  <1>8. TypeOK'
    <2>1. faults' \in 0 .. MaxFaults
      BY FaultTyped
    <2>2. FsTypeOK'
      BY <1>7, StatesTyped DEF FsTypeOK
    <2>. QED  BY <1>3, <1>4, <1>5, <1>6, <2>1, <2>2 DEF TypeOK
  <1>9. PhaseInv'
    BY <1>1, <1>7 DEF PhaseInv, Files, Filing, Draining
  <1>10. CardInv' /\ CursorInv' /\ OwedAhead'
    BY <1>1, <1>6, <1>7, ConnFrame
  <1>11. ImageInv'
    <2>1. ASSUME NEW i \in DOMAIN text, NEW r \in Due',
                 from <= 2 * (i - 1), 2 * (i - 1) < to, text[i] = Line(r)
          PROVE  FALSE
      <3>1. text[i].kind = "record" /\ text[i].id = r
        BY <2>1 DEF Line
      <3>2. r \in owed /\ r # 0 /\ r \notin missed'
        BY Constants DEF Due, TypeOK, Records
      <3>3. i = 1 \/ Ended(text[i - 1])
        BY <2>1, <3>2, <1>1 DEF CardInv
      <3>4. r = LineAt(text, from).rec
        BY <3>1, <3>3, <2>1, <1>5
      <3>. QED  BY <3>2, <3>4, <1>3
    <2>2. /\ card'[cursor'.file] = text /\ conn' = "parse"
          /\ image'.to = to
      BY <1>3, <1>7
    <2>. HIDE DEF text, ReadCut, IInv
    <2>. QED  BY <2>1, <2>2, <1>5, <1>7 DEF ImageInv
  <1>. QED  BY <1>8, <1>9, <1>10, <1>11

(* The cursor moves to the start of a later file, past no record of o. *)
LEMMA CrossingOK ==
    ASSUME TypeOK, CursorInv, CardInv, OwedAhead, cursor.valid, cursor.file \in Files,
           NEW m \in Later(cursor.file),
           cursor' = [cursor EXCEPT !.file = m, !.at = 0],
           NEW o \in SUBSET Due,
           \A d \in Files : \A i \in DOMAIN card[d], r \in o :
              card[d][i] = Line(r) /\ cursor.file <= d /\ d < m => Passed(cursor, d, i)
    PROVE  /\ cursor' \in Cursors /\ cursor'.valid
           /\ CursorOK(cursor', card, today) /\ Ahead(cursor', card, o)
           /\ stored.valid => stored.file <= cursor'.file
  <1>1. /\ cursor \in Cursors /\ today \in Nat /\ cursor.file \in Nat /\ stored.file \in Nat
        /\ Files \subseteq Days /\ FsTypeOK
    BY StatesTyped, CardTypes
  <1>3. m \in Files /\ m > cursor.file /\ m \in Nat /\ m \in Days
    BY <1>1 DEF Later, Days
  <1>4. /\ cursor' \in Cursors
        /\ cursor'.valid /\ cursor'.file = m /\ cursor'.at = 0
    <2>1. cursor' = [valid |-> TRUE, file |-> m, at |-> 0]
      BY <1>1 DEF Cursors
    <2>. QED  BY ONLY <2>1, <1>3 DEF Cursors
  <1>5. CursorOK(cursor', card, today)
    <2>1. m <= today /\ Len(card[m]) \in Nat
      BY <1>1, <1>3, CardTypes DEF CardInv
    <2>2. m \in DOMAIN card
      BY <1>3 DEF Files
    <2>. QED  BY ONLY <1>3, <1>4, <2>1, <2>2 DEF CursorOK
  <1>6. ASSUME NEW r \in o, NEW d \in Files, NEW i \in DOMAIN card[d], card[d][i] = Line(r)
        PROVE  ~Passed(cursor', d, i)
    <2>1. i \in Nat /\ 1 <= i /\ d \in Nat
      BY <1>6, <1>1, CardTypes DEF Days
    <2>2. ~Passed(cursor, d, i)
      BY <1>6 DEF OwedAhead, NonePassed
    <2>3. ~(cursor.file <= d /\ d < m)
      BY <1>6, <2>2
    <2>4. ~(d < cursor.file)
      BY ONLY <2>2, cursor.valid DEF Passed
    <2>5. ~(d < m)
      BY ONLY <2>1, <2>3, <2>4, <1>1
    <2>. QED  BY ONLY <2>1, <2>5, <1>3, <1>4 DEF Passed
  <1>7. stored.valid => stored.file <= cursor'.file
    <2>1. stored.valid => stored.file <= cursor.file
      BY DEF CursorInv
    <2>. QED  BY ONLY <1>1, <1>3, <1>4, <2>1
  <1>. QED  BY <1>4, <1>5, <1>6, <1>7 DEF Ahead, Files

(* At its end no record of a file is due but those the cursor has passed,  *)
(* and the next file is the one it moves to.                               *)
LEMMA AtEndOK ==
    ASSUME TypeOK, CursorInv, cursor.valid, cursor.file \in Files,
           PastHeader >= 2 * Len(card[cursor.file]), Later(cursor.file) # {},
           NEW d \in Files, NEW i \in DOMAIN card[d], NEW r \in Due, card[d][i] = Line(r),
           cursor.file <= d, d < Min(Later(cursor.file))
    PROVE  Passed(cursor, d, i)
  <1>1. /\ Files \subseteq Nat /\ Files \subseteq Days /\ cursor.at \in Nat /\ cursor.file \in Nat
        /\ FsTypeOK
    BY StatesTyped, CardTypes DEF Days
  <1>2. /\ i \in Nat /\ 1 <= i /\ i <= Len(card[d]) /\ Len(card[d]) \in Nat
    BY <1>1, CardTypes
  <1>3. /\ Min(Later(cursor.file)) \in Later(cursor.file)
        /\ \A e \in Later(cursor.file) : Min(Later(cursor.file)) <= e
    <2>1. Later(cursor.file) \in SUBSET Nat
      BY <1>1 DEF Later
    <2>. QED  BY <2>1, MinOK
  <1>4. Min(Later(cursor.file)) \in Nat /\ d \in Nat
    BY <1>1, <1>3 DEF Later
  <1>5. d = cursor.file
    <2>1. d \notin Later(cursor.file)
      BY <1>3, <1>4
    <2>. QED  BY <1>1, <1>4, <2>1 DEF Later
  <1>6. SUFFICES ASSUME ~Passed(cursor, d, i) PROVE FALSE
    OBVIOUS
  <1>7. cursor.at <= 2 * (i - 1)
    BY ONLY <1>1, <1>2, <1>5, <1>6, cursor.valid DEF Passed
  <1>8. PastHeader <= 2 * (i - 1) /\ PastHeader \in Nat
    BY <1>5, <1>7, PastHeaderOK
  <1>9. PastHeader >= 2 * Len(card[d])
    BY <1>5
  <1>. QED  BY ONLY <1>2, <1>8, <1>9

LEMMA StepEndOfFile ==
    ASSUME IInv, EndOfFile
    PROVE  IInv'
  <1>. USE DEF IInv, EndOfFile, connFrame, storVars, history, ReadFails
  <1>0. Due' = Due
    BY DEF Due
  <1>1. cursor.valid /\ cursor.file \in Files /\ Text(cursor.file) = card[cursor.file]
    BY DEF Readable, Adrift, Text
  <1>2. /\ cursor' \in Cursors /\ cursor'.valid
        /\ CursorOK(cursor', card, today) /\ Ahead(cursor', card, Due)
        /\ stored.valid => stored.file <= cursor'.file
    <2>1. CASE MoveTo(PastHeader)
      BY <2>1, <1>1, PastHeaderOK, MoveOK
    <2>2. CASE ~MoveTo(PastHeader)
      <3>. DEFINE m == Min(Later(cursor.file))
      <3>1. /\ Later(cursor.file) # {}
            /\ cursor' = [cursor EXCEPT !.file = m, !.at = 0]
            /\ PastHeader >= 2 * Len(card[cursor.file])
        BY <2>2, <1>1
      <3>2. m \in Later(cursor.file)
        <4>1. Later(cursor.file) \in SUBSET Nat
          BY StatesTyped, CardTypes DEF Later, Days
        <4>. QED  BY <3>1, <4>1, MinOK
      <3>3. \A d \in Files : \A i \in DOMAIN card[d], r \in Due :
               card[d][i] = Line(r) /\ cursor.file <= d /\ d < m => Passed(cursor, d, i)
        BY <3>1, <1>1, AtEndOK
      <3>. HIDE DEF m, EndOfFile
      <3>. QED  BY <3>1, <3>2, <3>3, <1>1, CrossingOK
    <2>. QED  BY <2>1, <2>2
  <1>5. TypeOK'
    <2>1. faults' \in 0 .. MaxFaults
      BY FaultTyped
    <2>2. FsTypeOK'
      BY <1>2, StatesTyped DEF FsTypeOK
    <2>. QED  BY <2>1, <2>2 DEF TypeOK
  <1>6. PhaseInv'
    BY <1>1, <1>2 DEF PhaseInv, Files, Filing, Draining
  <1>7. CardInv' /\ CursorInv' /\ OwedAhead'
    BY <1>0, <1>1, <1>2, ConnFrame
  <1>8. ImageInv'
    BY DEF ImageInv
  <1>. QED  BY <1>5, <1>6, <1>7, <1>8

(* The files that are left, or passed by, hold no record that is due now.  *)
LEMMA StepEndsEarly ==
    ASSUME IInv, EndsEarly
    PROVE  IInv'
  <1>. USE DEF IInv, EndsEarly, connFrame, storVars
  <1>1. cursor.valid /\ cursor.file \in Files
    BY DEF Readable, Adrift
  <1>2. PICK m \in Later(cursor.file) :
           /\ cursor' = [cursor EXCEPT !.file = m, !.at = 0]
           /\ missed' = missed \cup Filed(cursor.file .. m - 1)
    OBVIOUS
  <1>3. missed' \subseteq Records /\ Due' \subseteq Due /\ owed' = owed
    BY <1>2 DEF Due, TypeOK, Filed
  <1>4. /\ cursor' \in Cursors /\ cursor'.valid
        /\ CursorOK(cursor', card, today) /\ Ahead(cursor', card, Due')
        /\ stored.valid => stored.file <= cursor'.file
    <2>1. ASSUME NEW d \in Files, NEW i \in DOMAIN card[d], NEW r \in Due',
                 card[d][i] = Line(r), cursor.file <= d, d < m
          PROVE  FALSE
      <3>1. d \in cursor.file .. m - 1
        <4>1. Files \subseteq Nat /\ cursor.file \in Nat
          BY StatesTyped, CardTypes DEF Days
        <4>2. d \in Nat /\ m \in Nat
          BY <4>1 DEF Later
        <4>. QED  BY ONLY <4>1, <4>2, <2>1
      <3>2. r \in Records /\ r \notin missed'
        BY DEF Due, TypeOK
      <3>3. r \in Filed(cursor.file .. m - 1)
        BY <2>1, <3>1, <3>2 DEF Filed
      <3>. QED  BY <3>2, <3>3, <1>2
    <2>. HIDE DEF EndsEarly
    <2>. QED  BY <2>1, <1>1, <1>2, <1>3, CrossingOK
  <1>5. TypeOK'
    <2>1. faults' \in 0 .. MaxFaults
      BY FaultTyped
    <2>2. FsTypeOK'
      BY <1>4, StatesTyped DEF FsTypeOK
    <2>. QED  BY <1>3, <2>1, <2>2 DEF TypeOK
  <1>6. PhaseInv'
    BY <1>1, <1>4 DEF PhaseInv, Files, Filing, Draining
  <1>7. CardInv' /\ CursorInv' /\ OwedAhead'
    BY <1>1, <1>3, <1>4, ConnFrame
  <1>8. ImageInv'
    BY DEF ImageInv
  <1>. QED  BY <1>5, <1>6, <1>7, <1>8

(* The cursor moves behind the line that was read.                         *)
LEMMA MovePastLine ==
    ASSUME IInv, conn \in {"parse", "publish"}, MoveTo(image.to),
           NEW o \in SUBSET Due, image.rec \notin o
    PROVE  /\ cursor' \in Cursors
           /\ cursor'.valid /\ cursor'.file = cursor.file
           /\ CursorOK(cursor', card, today)
           /\ stored.valid => stored.file <= cursor'.file
           /\ Ahead(cursor', card, o)
  <1>. USE DEF IInv
  <1>1. cursor.valid /\ cursor.file \in Files
    BY DEF PhaseInv
  <1>2. /\ image.to \in Nat
        /\ image.to <= 2 * Len(card[cursor.file])
    BY DEF ImageInv, TypeOK
  <1>3. ASSUME NEW i \in DOMAIN card[cursor.file], NEW r \in o,
               card[cursor.file][i] = Line(r), cursor.at <= 2 * (i - 1)
        PROVE  image.to <= 2 * (i - 1)
    <2>1. i \in Nat
      BY <1>1, <1>3, StatesTyped, CardTypes
    <2>2. ~(2 * (i - 1) < image.to)
      BY <1>3 DEF ImageInv
    <2>. QED  BY ONLY <2>1, <2>2, <1>2
  <1>. QED  BY <1>1, <1>2, <1>3, MoveOK

LEMMA StepParseLine ==
    ASSUME IInv, ParseLine
    PROVE  IInv'
  <1>. USE DEF IInv, ParseLine, connFrame, storVars, history
  <1>0. Due' = Due
    BY DEF Due
  <1>1. image' = image /\ cursor.valid /\ cursor.file \in Files
    BY DEF Parsed, PhaseInv
  <1>2. /\ cursor' \in Cursors /\ cursor'.valid /\ cursor'.file = cursor.file
        /\ CursorOK(cursor', card, today) /\ Ahead(cursor', card, Due)
        /\ stored.valid => stored.file <= cursor'.file
    <2>1. CASE cursor' = cursor
      BY <2>1, <1>1, StatesTyped, OwedAheadIff DEF CursorInv
    <2>2. CASE image.rec = 0 /\ MoveTo(image.to)
      <3>1. image.rec \notin Due
        BY <2>2, Constants DEF TypeOK, Records, Due
      <3>. QED  BY <2>2, <3>1, MovePastLine
    <2>. QED  BY <1>1, <2>1, <2>2
  <1>5. TypeOK'
    <2>1. FsTypeOK'
      BY <1>2, StatesTyped DEF FsTypeOK
    <2>. QED  BY <1>1, <2>1 DEF TypeOK, NoFault
  <1>6. PhaseInv'
    BY <1>1, <1>2 DEF PhaseInv, Files, Filing, Draining
  <1>7. CardInv' /\ CursorInv' /\ OwedAhead'
    BY <1>0, <1>1, <1>2, ConnFrame
  <1>8. ImageInv'
    BY <1>0, <1>1 DEF ImageInv
  <1>. QED  BY <1>5, <1>6, <1>7, <1>8

LEMMA StepPublish ==
    ASSUME IInv, Publish
    PROVE  IInv'
  <1>. USE DEF IInv, Publish, connFrame, storVars
  <1>1. cursor.valid /\ cursor.file \in Files
    BY DEF PhaseInv
  <1>2. /\ cursor' \in Cursors /\ cursor'.valid /\ cursor'.file = cursor.file
        /\ CursorOK(cursor', card, today) /\ Ahead(cursor', card, Due')
        /\ stored.valid => stored.file <= cursor'.file
        /\ owed' \subseteq owed /\ Due' \subseteq Due /\ newest' \in 0 .. MaxRecords
    <2>1. CASE link
      <3>1. owed' \subseteq owed /\ Due' \in SUBSET Due /\ image.rec \notin Due' /\ newest' = image.rec
        BY <2>1 DEF Due
      <3>. QED  BY <2>1, <3>1, <1>1, MovePastLine DEF TypeOK
    <2>2. CASE ~link
      BY <2>2, <1>1, StatesTyped, OwedAheadIff DEF CursorInv, Due, TypeOK
    <2>. QED  BY <2>1, <2>2
  <1>5. TypeOK'
    <2>1. FsTypeOK'
      BY <1>2, StatesTyped DEF FsTypeOK
    <2>. QED  BY <1>2, <2>1 DEF TypeOK, NoFault
  <1>6. PhaseInv'
    BY <1>1, <1>2 DEF PhaseInv, Files, Filing, Draining
  <1>7. CardInv' /\ CursorInv' /\ OwedAhead'
    BY <1>1, <1>2, ConnFrame
  <1>8. ImageInv'
    BY DEF ImageInv
  <1>. QED  BY <1>5, <1>6, <1>7, <1>8

LEMMA StepStore ==
    ASSUME IInv, StoreAdvance \/ StoreSkip \/ StoreCrossing
    PROVE  IInv'
  <1>. USE DEF IInv, connFrame, storVars, storing, history
  <1>1. /\ stored' \in {stored, cursor}
        /\ UNCHANGED <<card, mounted, failures, cursor, held, image, owed, missed, newest>>
        /\ UNCHANGED <<acquired, today, stor, link>>
        /\ faults' \in 0 .. MaxFaults
        /\ conn \in {"advanced", "skipped", "crossed"} /\ cursor.valid
    BY FaultTyped DEF StoreAdvance, StoreSkip, StoreCrossing,
          CursorStored, CursorNotStored, PhaseInv
  <1>0. Due' = Due
    BY <1>1 DEF Due
  <1>2. /\ published' \in 0 .. PerCycle /\ skipped' \in 0 .. MaxSkips
        /\ conn' \in {"read", "idle"}
        /\ conn' = "read" => published' < PerCycle /\ skipped' < MaxSkips
    BY Constants DEF StoreAdvance, StoreSkip, StoreCrossing, Again, TypeOK, PhaseInv, Draining
  <1>3. TypeOK'
    BY <1>1, <1>2 DEF TypeOK, FsTypeOK
  <1>4. PhaseInv'
    BY <1>1, <1>2 DEF PhaseInv, Files, Filing, Draining
  <1>5. CardInv' /\ CursorInv' /\ OwedAhead'
    <2>1. /\ cursor' \in Cursors /\ CursorOK(cursor', card, today) /\ Ahead(cursor', card, Due')
          /\ stored'.valid => stored'.file <= cursor'.file
      BY <1>1, StatesTyped, <1>0, OwedAheadIff DEF CursorInv
    <2>. QED  BY <1>0, <1>1, <2>1, ConnFrame
  <1>6. ImageInv'
    BY <1>2 DEF ImageInv
  <1>. QED  BY <1>3, <1>4, <1>5, <1>6

-----------------------------------------------------------------------------
(* The environment keeps the invariant.                                    *)

LEMMA StepLink ==
    ASSUME IInv, LinkDown \/ LinkUp
    PROVE  IInv'
  <1>. USE DEF IInv, LinkDown, LinkUp, fsVars, storVars, connVars, history
  <1>1. TypeOK'
    <2>1. faults' \in 0 .. MaxFaults
      <3>1. CASE LinkDown
        BY <3>1, FaultTyped
      <3>2. CASE LinkUp
        BY <3>2 DEF TypeOK
      <3>. QED  BY <3>1, <3>2
    <2>2. FsTypeOK'
      BY DEF TypeOK, FsTypeOK
    <2>. QED  BY <2>1, <2>2 DEF TypeOK
  <1>2. PhaseInv'
    BY DEF PhaseInv, Files, Filing, Draining
  <1>3. CardInv' /\ CursorInv' /\ OwedAhead'
    BY DEF CardInv, CursorInv, CursorOK, OwedAhead, NonePassed, Due, Passed, Files
  <1>4. ImageInv'
    BY DEF ImageInv, Due
  <1>. QED  BY <1>1, <1>2, <1>3, <1>4

LEMMA StepRestart ==
    ASSUME IInv, Restart, "load" \notin Faults
    PROVE  IInv'
  <1>. USE DEF IInv, Restart
  <1>1. /\ cursor \in Cursors /\ stored \in Cursors /\ FsTypeOK
        /\ today \in Days /\ acquired \in Nat
    BY StatesTyped
  <1>2. /\ today' = today /\ acquired' = acquired /\ stor' = "idle" /\ conn' = "idle"
        /\ owed' \subseteq owed /\ (~stored'.valid => owed' = {})
        /\ missed' = missed /\ Due' \subseteq Due
        /\ stored' \in {stored, cursor}
        /\ \/ cursor' = stored'
           \/ mounted' = FALSE /\ cursor' = NoCursor
    BY DEF Due
  <1>3. \/ card' = card
        \/ /\ stor \in Filing
           /\ \E x \in {Header, Stub, Line(acquired)} : Grew(x)
    <2>1. CASE stor = "open" /\ card' \in Leftovers(today, Header)
      BY <2>1, <1>1, LeftoversOK, CellTypes DEF Filing
    <2>2. CASE stor = "append" /\ \E cells \in Written : card' \in Leftovers(today, Head(cells))
      <3>1. Written = {<<Line(acquired)>>} /\ acquired \in Records
        BY <2>2 DEF Written, PhaseInv
      <3>2. card' \in Leftovers(today, Line(acquired))
        BY <3>1, <2>2
      <3>. QED  BY <3>1, <3>2, <2>2, <1>1, LeftoversOK, CellTypes DEF Filing
    <2>. QED  BY <2>1, <2>2
  <1>4. /\ \E files \in SUBSET Days : card' \in [files -> Seq(Cells)]
        /\ \A c \in {cursor, stored} : CursorOK(c, card', today) /\ Ahead(c, card', Due')
        /\ CardInv'
    <2>1. \A c \in {cursor, stored} : CursorOK(c, card, today) /\ Ahead(c, card, Due)
      BY OwedAheadIff DEF CursorInv
    <2>2. CASE card' = card
      <3>1. \E files \in SUBSET Days : card' \in [files -> Seq(Cells)]
        BY <1>1, <2>2 DEF FsTypeOK
      <3>2. CardInv'
        <4>1. today' \in Nat /\ today <= today' /\ stor' \notin Filing
          BY <1>2, StatesTyped DEF Filing
        <4>. QED  BY <1>2, <2>2, <4>1, CardFrame
      <3>. QED  BY <3>1, <3>2, <2>1, <2>2, <1>2 DEF Ahead
    <2>3. CASE /\ stor \in Filing
               /\ \E x \in {Header, Stub, Line(acquired)} : Grew(x)
      <3>1. PICK x \in {Header, Stub, Line(acquired)} : Grew(x)
        BY <2>3
      <3>2. stor \in Filing /\ acquired \in Records /\ acquired \notin owed
        BY <2>3 DEF PhaseInv, Filing
      <3>3. /\ x \in Cells /\ x.id <= acquired
            /\ x.kind = "record" => x = Line(acquired)
        BY <1>1, <3>2, CellTypes DEF Line
      <3>4. CardInv'
        <4>1. stor' \notin Filing /\ owed' \subseteq owed \cup {acquired} /\ acquired \notin owed'
          BY <1>2, <3>2 DEF Filing
        <4>. HIDE DEF Restart
        <4>. QED  BY <1>1, <1>2, <3>1, <3>2, <3>3, <4>1, GrewCard
      <3>5. \A c \in {cursor, stored} : CursorOK(c, card', today) /\ Ahead(c, card', Due')
        <4>1. ASSUME NEW c \in {cursor, stored}
              PROVE  CursorOK(c, card', today) /\ Ahead(c, card', Due')
          <5>1. Due' \subseteq Due \cup {acquired} /\ acquired \notin Due' /\ c \in Cursors
            BY <1>1, <1>2, <3>2 DEF Due
          <5>. HIDE DEF Restart
          <5>. QED  BY <5>1, <1>1, <3>1, <2>1, GrewCursor, GrewAhead
        <4>. QED  BY <4>1
      <3>. QED  BY <3>4, <3>5, <3>1, <1>1, GrewTyped
    <2>. QED  BY <1>3, <2>2, <2>3
  <1>5. NoCursor \in Cursors /\ ~NoCursor.valid /\ NoCursor.at = 0
    BY Constants DEF NoCursor, Cursors, Days
  <1>6. /\ cursor' \in Cursors
        /\ CursorOK(cursor', card', today) /\ CursorOK(stored', card', today)
        /\ Ahead(cursor', card', Due') /\ Ahead(stored', card', Due')
    <2>1. CursorOK(NoCursor, card', today) /\ Ahead(NoCursor, card', Due')
      BY <1>5 DEF CursorOK, Ahead, Passed
    <2>. QED  BY <2>1, <1>1, <1>2, <1>4, <1>5
  <1>7. CursorInv'
    <2>1. cursor'.valid /\ stored'.valid => stored'.file <= cursor'.file
      BY <1>1, <1>2, <1>5 DEF Cursors, Days
    <2>2. mounted' /\ ~cursor'.valid => ~stored'.valid /\ owed' = {}
      BY <1>2
    <2>. HIDE DEF Restart
    <2>. QED  BY <1>6, <2>1, <2>2, <1>2 DEF CursorInv
  <1>8. OwedAhead'
    BY <1>6 DEF OwedAhead, NonePassed, Ahead, Files, Passed
  <1>9. TypeOK'
    <2>1. faults' \in 0 .. MaxFaults
      BY FaultTyped
    <2>2. mounted' \in BOOLEAN /\ failures' = 0 /\ failures' \in 0 .. WriteLimit /\ failures' < WriteLimit
      <3>1. failures' = 0 /\ mounted' \in BOOLEAN
        OBVIOUS
      <3>2. 0 \in 0 .. WriteLimit /\ 0 < WriteLimit
        BY ONLY Constants
      <3>. QED  BY ONLY <3>1, <3>2
    <2>3. FsTypeOK'
      BY <1>1, <1>2, <1>4, <1>6, <2>2 DEF FsTypeOK
    <2>. QED  BY <2>1, <2>3, <1>2, Constants DEF TypeOK
  <1>10. PhaseInv' /\ ImageInv'
    BY <1>2 DEF PhaseInv, ImageInv, Filing, Draining
  <1>. QED  BY <1>4, <1>7, <1>8, <1>9, <1>10

-----------------------------------------------------------------------------
(* The theorems.                                                           *)

LEMMA InitIInv == Init => IInv
  <1>. SUFFICES ASSUME Init PROVE IInv
    OBVIOUS
  <1>. USE DEF Init, FsInit
  <1>1. NoCursor \in Cursors /\ ~NoCursor.valid /\ NoCursor.at = 0
    BY Constants DEF NoCursor, Cursors, Days
  <1>2. Files = {}
    BY DEF Files
  <1>3. TypeOK
    <2>1. card \in [{} -> Seq(Cells)]
      OBVIOUS
    <2>2. FsTypeOK
      <3>1. {} \in SUBSET Days /\ card = <<>> /\ mounted = TRUE /\ failures = 0
        BY DEF Days
      <3>2. 0 \in 0 .. WriteLimit /\ 0 < WriteLimit
        BY Constants
      <3>3. \E files \in SUBSET Days : card \in [files -> Seq(Cells)]
        BY <2>1, <3>1
      <3>4. mounted \in BOOLEAN /\ failures \in 0 .. WriteLimit /\ failures < WriteLimit
        BY <3>1, <3>2
      <3>5. {cursor, stored} \subseteq Cursors /\ held \in {"writer", "reader"}
        BY <1>1
      <3>. QED  BY <3>3, <3>4, <3>5 DEF FsTypeOK
    <2>. QED  BY <2>2, Constants DEF TypeOK, Days
  <1>4. PhaseInv /\ CursorInv /\ CardInv /\ ImageInv /\ OwedAhead
    BY <1>1, <1>2 DEF PhaseInv, CursorInv, CursorOK, CardInv, ImageInv, OwedAhead, NonePassed, Due, Filing, Draining
  <1>. QED  BY <1>3, <1>4 DEF IInv

LEMMA NextIInv ==
    ASSUME IInv, [Next]_vars, ~Overlap, "load" \notin Faults
    PROVE  IInv'
  <1>1. CASE StorageTask
    BY <1>1, StepAcquire, StepOpenFile, StepFillBuffer, StepAppendRecord,
       StepAppendFails, StepStoreFirst DEF StorageTask
  <1>2. CASE Housekeep
    BY <1>2, StepHousekeep
  <1>3. CASE ConnectivityTask
    BY <1>3, StepDrainBegins, StepNothingFound, StepReadLine, StepReadCut, StepEndOfFile,
       StepEndsEarly,
       StepParseLine, StepPublish, StepStore DEF ConnectivityTask
  <1>4. CASE LinkDown \/ LinkUp
    BY <1>4, StepLink
  <1>5. CASE Restart
    BY <1>5, StepRestart
  <1>6. CASE UNCHANGED vars
    BY <1>6 DEF vars, fsVars, storVars, connVars, history, IInv, TypeOK, FsTypeOK,
       PhaseInv, CursorInv, CursorOK, CardInv, ImageInv, OwedAhead, NonePassed, Due, Passed, Files
  <1>. QED  BY <1>1, <1>2, <1>3, <1>4, <1>5, <1>6 DEF Next

LEMMA Invariance ==
    ASSUME ~Overlap, "load" \notin Faults
    PROVE  Spec => []IInv
  BY InitIInv, NextIInv, PTL DEF Spec

(* The log, the cursor and the two tasks keep their types; a card that     *)
(* failed too often is given up (FsAbs.c, TelemSwc.c).                     *)
THEOREM TypeCorrect ==
    ASSUME ~Overlap, "load" \notin Faults
    PROVE  Spec => []TypeOK
  <1>1. IInv => TypeOK
    BY DEF IInv
  <1>. QED  BY <1>1, Invariance, PTL

(* At-least-once: no record that was acknowledged as stored is ever behind *)
(* the cursor in RAM or the one in flash before the broker accepted it, if *)
(* the two tasks never use the line buffer at once and the cursor is       *)
(* loaded at each start (TelemSwc_DrainBacklog).  A read or a walk of the  *)
(* directory that ends early and is answered E_OK costs what it was itself *)
(* to bring (missed), and no record besides.                               *)
THEOREM AtLeastOnce ==
    ASSUME ~Overlap, "load" \notin Faults
    PROVE  Spec => []OwedAhead
  <1>1. IInv => OwedAhead
    BY DEF IInv
  <1>. QED  BY <1>1, Invariance, PTL

LEMMA OnlyHousekeepingRemoves ==
    ASSUME IInv, [Next]_vars, ~Housekeep
    PROVE  Files \subseteq DOMAIN card'
  <1>1. \A d, cells : Files \subseteq DOMAIN Appended(d, cells)
    BY DEF Appended
  <1>2. \A d, cell : card' \in Leftovers(d, cell) => Files \subseteq DOMAIN card'
    BY <1>1 DEF Leftovers, Files
  <1>3. CASE StorageTask
    BY <1>1, <1>2, <1>3 DEF StorageTask, Acquire, OpenFile, FillBuffer, AppendRecord,
       AppendFails, StoreFirst, fsVars, Files
  <1>4. CASE ConnectivityTask
    BY <1>4 DEF ConnectivityTask, DrainBegins, NothingFound, ReadLine, ReadCut, EndOfFile, EndsEarly,
       ParseLine, Publish, StoreAdvance, StoreSkip, StoreCrossing, storing, fsVars, Files
  <1>5. CASE Restart
    BY <1>2, <1>5 DEF Restart, Files
  <1>6. CASE LinkDown \/ LinkUp \/ UNCHANGED vars
    BY <1>6 DEF LinkDown, LinkUp, vars, fsVars, Files
  <1>. QED  BY <1>3, <1>4, <1>5, <1>6 DEF Next

(* Housekeeping removes no owed record while the cursor names a file on    *)
(* the card: the oldest file is older than the cursor's, so the cursor has *)
(* passed all of it (FsAbs_MainFunction).  A walk of the directory that    *)
(* ends early may take another file for the oldest: what that one holds,   *)
(* and what was left out before, is excepted.                              *)
THEOREM UnsentIsKept ==
    ASSUME ~Overlap, "load" \notin Faults
    PROVE  Spec => HousekeepingSparesUnsent
  <1>. DEFINE Spared == \A d \in Files \ DOMAIN card' :
                          Adrift \/ \A r \in owed \ missed', i \in DOMAIN card[d] :
                                       card[d][i] # Line(r)
  <1>1. ASSUME IInv, [Next]_vars
        PROVE  Spared
    <2>. USE DEF IInv
    <2>1. SUFFICES ASSUME NEW d \in Files, d \notin DOMAIN card', ~Adrift,
                          NEW r \in owed \ missed',
                          NEW i \in DOMAIN card[d], card[d][i] = Line(r)
                   PROVE  FALSE
      OBVIOUS
    <2>2. Housekeep
      BY <1>1, <2>1, OnlyHousekeepingRemoves
    <2>3. FsTypeOK /\ cursor.file \in Nat /\ Files \subseteq Days /\ r \in Records
      BY <1>1, <2>1, StatesTyped, CardTypes DEF TypeOK
    <2>4. PICK m \in Files :
                /\ Reclaim(m)
                /\ \/ m = Min(Files) /\ UNCHANGED missed
                   \/ missed' = missed \cup Filed({m})
      BY <2>2 DEF Housekeep
    <2>8. d = m /\ mounted /\ (cursor.valid => d # cursor.file)
      BY <2>1, <2>3, <2>4, ReclaimOK DEF Reclaim
    <2>9. r \in Filed({d})
      BY <2>1, <2>3 DEF Filed
    <2>10. d = Min(Files) /\ missed' = missed
      BY <2>1, <2>4, <2>8, <2>9
    <2>11. \A e \in Files : d <= e
      <3>1. Files \in SUBSET Nat /\ Files # {}
        BY <2>3 DEF Days
      <3>. QED  BY <3>1, <2>10, MinOK
    <2>12. r \in Due
      BY <2>1, <2>10 DEF Due
    <2>5. cursor.valid
      BY <1>1, <2>1, <2>8 DEF CursorInv
    <2>6. cursor.file \in Files
      BY <2>1, <2>5 DEF Adrift
    <2>7. d < cursor.file
      BY <2>3, <2>8, <2>11, <2>5, <2>6 DEF Days
    <2>. QED  BY <1>1, <2>1, <2>5, <2>7, <2>12 DEF OwedAhead, NonePassed, Passed
  <1>2. IInv /\ [Next]_vars => [Spared]_vars
    BY <1>1
  <1>. QED  BY <1>2, Invariance, PTL DEF Spec, HousekeepingSparesUnsent

-----------------------------------------------------------------------------
(* The order of publication.  The records lie on the card in the order in  *)
(* which they were acquired; those the cursor has not passed are newer     *)
(* than the last one published; and a line that was read is the record at  *)
(* the cursor.                                                             *)
IsRecord(d, i) == card[d][i].kind = "record"
Before(d, i, e, j) == d < e \/ (d = e /\ i < j)

Sequenced ==
    \A d, e \in Files : \A i \in DOMAIN card[d], j \in DOMAIN card[e] :
        IsRecord(d, i) /\ IsRecord(e, j) /\ Before(d, i, e, j) => card[d][i].id < card[e][j].id

Numbered ==
    \A d \in Files : \A i \in DOMAIN card[d] : IsRecord(d, i) =>
        /\ 1 <= card[d][i].id
        /\ stor \in Filing => card[d][i].id < acquired
        /\ ~Passed(cursor, d, i) => newest < card[d][i].id

Sent ==
    /\ newest <= acquired
    /\ stor \in Filing => newest < acquired
    /\ ~cursor.valid => newest = 0

Imaged ==
    conn \in {"parse", "publish"} /\ image.rec # 0 =>
        /\ cursor.at % 2 = 0
        /\ image.to = cursor.at + 2
        /\ Cell(cursor.at) \in DOMAIN card[cursor.file]
        /\ card[cursor.file][Cell(cursor.at)] = Line(image.rec)

OrderInv == IInv /\ Sequenced /\ Numbered /\ Sent /\ Imaged

(* How a step changes the card. *)
Grows(x) ==
    /\ stor \in Filing /\ Grew(x)
    /\ stor' \in Filing => x.kind # "record"
    /\ UNCHANGED <<acquired, today>>

Shrinks ==
    /\ DOMAIN card' \subseteq Files
    /\ \A d \in DOMAIN card' : card'[d] = card[d]

LEMMA CardMoves ==
    ASSUME IInv, [Next]_vars
    PROVE  Shrinks \/ \E x \in {Header, Stub, Line(acquired)} : Grows(x)
  <1>. USE DEF IInv
  <1>1. FsTypeOK /\ today \in Days
    BY StatesTyped
  <1>2. card' = card => Shrinks
    BY DEF Shrinks, Files
  <1>3. CASE OpenFile
    <2>1. \/ card' = card
          \/ card' = Appended(today, <<Header>>) \/ card' \in Leftovers(today, Header)
      BY <1>3 DEF OpenFile
    <2>2. card' = card \/ \E x \in {Header, Stub} : Grew(x)
      BY <2>1, <1>1, LeftoversOK, AppendedOK, CellTypes
    <2>. QED
      BY <1>2, <1>3, <2>2, CellTypes DEF OpenFile, Grows, Filing
  <1>4. CASE AppendRecord
    <2>1. Written = {<<Line(acquired)>>} /\ acquired \in Records
      BY <1>4 DEF AppendRecord, Written, PhaseInv
    <2>2. \/ card' = Appended(today, <<Line(acquired)>>)
          \/ card' \in Leftovers(today, Line(acquired))
      BY <1>4, <2>1 DEF AppendRecord
    <2>3. \E x \in {Stub, Line(acquired)} : Grew(x)
      BY <1>1, <2>1, <2>2, AppendedOK, LeftoversOK, CellTypes
    <2>. QED  BY <1>4, <2>3 DEF AppendRecord, Grows, Filing
  <1>5. CASE AppendFails
    <2>1. acquired \in Records
      BY <1>5 DEF AppendFails, PhaseInv
    <2>2. \E x \in {Stub, Line(acquired)} : Grew(x)
      BY <1>1, <1>5, <2>1, LeftoversOK, CellTypes DEF AppendFails
    <2>. QED  BY <1>5, <2>2 DEF AppendFails, Grows, Filing
  <1>6. CASE Restart
    <2>1. \/ card' = card
          \/ /\ stor \in Filing
             /\ \E x \in {Header, Stub, Line(acquired)} : Grew(x)
      <3>1. CASE stor = "open" /\ card' \in Leftovers(today, Header)
        BY <3>1, <1>1, LeftoversOK, CellTypes DEF Filing
      <3>2. CASE stor = "append" /\ \E cells \in Written : card' \in Leftovers(today, Head(cells))
        <4>1. Written = {<<Line(acquired)>>} /\ acquired \in Records
          BY <3>2 DEF Written, PhaseInv
        <4>2. card' \in Leftovers(today, Line(acquired))
          BY <4>1, <3>2
        <4>. QED  BY <4>1, <4>2, <3>2, <1>1, LeftoversOK, CellTypes DEF Filing
      <3>. QED  BY <1>6, <3>1, <3>2 DEF Restart
    <2>2. stor' \notin Filing /\ UNCHANGED <<acquired, today>>
      BY <1>6 DEF Restart, Filing
    <2>. QED  BY <1>2, <2>1, <2>2 DEF Grows
  <1>7. CASE Housekeep
    BY <1>1, <1>7, ReclaimOK DEF Housekeep, Shrinks
  <1>8. CASE \/ Acquire \/ FillBuffer \/ StoreFirst \/ ConnectivityTask
             \/ LinkDown \/ LinkUp \/ UNCHANGED vars
    <2>1. card' = card
      BY <1>8 DEF Acquire, FillBuffer, StoreFirst, ConnectivityTask, DrainBegins, NothingFound,
          ReadLine, ReadCut, EndOfFile, EndsEarly, ParseLine, Publish, StoreAdvance, StoreSkip, StoreCrossing,
          storing, LinkDown, LinkUp, vars, fsVars
    <2>. QED  BY <1>2, <2>1
  <1>. QED
    BY <1>3, <1>4, <1>5, <1>6, <1>7, <1>8 DEF Next, StorageTask

(* How a step changes the numbers. *)
LEMMA NumberMoves ==
    ASSUME IInv, [Next]_vars
    PROVE  /\ acquired' \in Nat /\ acquired <= acquired'
           /\ stor' \in Filing => \/ stor \in Filing /\ acquired' = acquired
                                  \/ acquired' = acquired + 1
  <1>1. acquired \in Nat
    BY StatesTyped DEF IInv
  <1>2. CASE Acquire
    BY <1>1, <1>2 DEF Acquire
  <1>3. CASE UNCHANGED <<acquired, stor>>
    BY <1>1, <1>3
  <1>4. CASE OpenFile \/ FillBuffer \/ AppendRecord \/ AppendFails \/ StoreFirst \/ Restart
    BY <1>1, <1>4 DEF OpenFile, FillBuffer, AppendRecord, AppendFails, StoreFirst, Restart, Filing
  <1>5. CASE Housekeep \/ ConnectivityTask \/ LinkDown \/ LinkUp \/ UNCHANGED vars
    BY <1>3, <1>5 DEF Housekeep, ConnectivityTask, DrainBegins, NothingFound,
          ReadLine, ReadCut, EndOfFile, EndsEarly, ParseLine, Publish, StoreAdvance, StoreSkip, StoreCrossing,
          connFrame, LinkDown, LinkUp, vars, storVars
  <1>. QED  BY <1>2, <1>4, <1>5 DEF Next, StorageTask

(* A cell of the card after a step was there before, or is the one that    *)
(* was appended behind everything else.                                    *)
WasThere(d, i) == d \in Files /\ i \in DOMAIN card[d] /\ card'[d][i] = card[d][i]

LEMMA ShrinksCell ==
    ASSUME Shrinks, NEW d \in DOMAIN card', NEW i \in DOMAIN card'[d]
    PROVE  WasThere(d, i)
  BY DEF Shrinks, WasThere

LEMMA GrowsCell ==
    ASSUME IInv, NEW x \in {Header, Stub, Line(acquired)}, Grows(x),
           NEW d \in DOMAIN card', NEW i \in DOMAIN card'[d]
    PROVE  \/ WasThere(d, i)
           \/ /\ d = today /\ i = Len(Text(today)) + 1 /\ card'[d][i] = x
              /\ x.kind = "record" => x = Line(acquired)
  <1>1. FsTypeOK
    BY StatesTyped DEF IInv
  <1>2. card'[d] \in Seq(Cells) /\ i \in 1 .. Len(card'[d])
    BY DEF Grows, Grew
  <1>3. x.kind = "record" => x = Line(acquired)
    BY CellTypes
  <1>4. CASE d \in Files /\ i <= Len(card[d])
    <2>1. i \in 1 .. Len(card[d]) /\ i \in DOMAIN card[d]
      BY <1>1, <1>2, <1>4, CardTypes
    <2>. QED  BY <1>4, <2>1 DEF Grows, Grew, WasThere
  <1>5. CASE ~(d \in Files /\ i <= Len(card[d]))
    BY <1>2, <1>3, <1>5 DEF Grows, Grew
  <1>. QED  BY <1>4, <1>5

(* The records stay in order. *)
LEMMA SequencedStep ==
    ASSUME OrderInv, [Next]_vars
    PROVE  Sequenced'
  <1>. USE DEF OrderInv
  <1>. SUFFICES ASSUME NEW d \in DOMAIN card', NEW e \in DOMAIN card',
                       NEW i \in DOMAIN card'[d], NEW j \in DOMAIN card'[e],
                       card'[d][i].kind = "record", card'[e][j].kind = "record",
                       Before(d, i, e, j)
                PROVE  card'[d][i].id < card'[e][j].id
    BY DEF Sequenced, IsRecord, Before, Files
  <1>1. CASE WasThere(d, i) /\ WasThere(e, j)
    BY <1>1 DEF Sequenced, IsRecord, WasThere
  <1>2. CASE Shrinks
    BY <1>1, <1>2, ShrinksCell
  <1>3. ASSUME NEW x \in {Header, Stub, Line(acquired)}, Grows(x)
        PROVE  card'[d][i].id < card'[e][j].id
    <2>1. /\ FsTypeOK /\ today \in Nat /\ Files \subseteq Days
          /\ Len(Text(today)) \in Nat
      BY StatesTyped, CardTypes DEF IInv
    <2>2. ASSUME WasThere(e, j)
          PROVE  e < today \/ (e = today /\ j <= Len(Text(today)))
      <3>0. e \in Files /\ j \in DOMAIN card[e]
        BY <2>2 DEF WasThere
      <3>1. e \in Files /\ e <= today /\ j \in 1 .. Len(card[e])
        <4>1. j \in 1 .. Len(card[e])
          BY <2>1, <3>0, CardTypes, SMTT(30)
        <4>2. e <= today
          BY <3>0 DEF IInv, CardInv
        <4>. QED  BY <3>0, <4>1, <4>2
      <3>2. e \in Nat /\ Len(card[e]) \in Nat
        <4>1. Len(card[e]) \in Nat
          BY <2>1, <3>0, CardTypes, SMTT(30)
        <4>2. e \in Nat
          BY <2>1, <3>0 DEF Days
        <4>. QED  BY <4>1, <4>2
      <3>. QED  BY <2>1, <3>1, <3>2 DEF Text
    <2>3. CASE ~WasThere(d, i)
      <3>1. d = today /\ i = Len(Text(today)) + 1
        BY <1>3, <2>3, GrowsCell
      <3>2. CASE WasThere(e, j)
        <4>0. e \in Files /\ j \in DOMAIN card[e]
          BY <3>2 DEF WasThere
        <4>1. e \in Nat /\ j \in Nat
          BY <2>1, <4>0, CardTypes, SMTT(30) DEF Days
        <4>. QED  BY <2>1, <2>2, <3>1, <3>2, <4>1 DEF Before
      <3>3. CASE ~WasThere(e, j)
        <4>1. e = today /\ j = Len(Text(today)) + 1
          BY <1>3, <3>3, GrowsCell
        <4>. QED  BY <2>1, <3>1, <4>1 DEF Before
      <3>. QED  BY <3>2, <3>3
    <2>4. CASE WasThere(d, i) /\ ~WasThere(e, j)
      <3>1. card'[e][j] = Line(acquired)
        BY <1>3, <2>4, GrowsCell
      <3>2. stor \in Filing
        BY <1>3 DEF Grows
      <3>3. card[d][i].id < acquired
        BY <2>4, <3>2 DEF Numbered, IsRecord, WasThere
      <3>. QED  BY <2>4, <3>1, <3>3 DEF WasThere, Line
    <2>. QED  BY <1>1, <2>3, <2>4
  <1>. QED  BY <1>2, <1>3, CardMoves

(* The cursor does not turn back between two starts. *)
Onward ==
    /\ newest' = newest
    /\ cursor.valid => cursor'.valid
    /\ \A d, i \in Nat : Passed(cursor, d, i) => Passed(cursor', d, i)

LEMMA MovesOnward ==
    ASSUME TypeOK, cursor.valid, NEW a \in Nat, cursor.at <= a, MoveTo(a), newest' = newest
    PROVE  Onward
  <1>1. cursor \in Cursors /\ cursor.at \in Nat
    BY StatesTyped
  <1>2. cursor' = [valid |-> TRUE, file |-> cursor.file, at |-> a]
    BY <1>1 DEF MoveTo, Cursors
  <1>. QED  BY <1>1, <1>2 DEF Onward, Passed

LEMMA HeaderOnward ==
    ASSUME TypeOK, CursorInv, Readable
    PROVE  PastHeader \in Nat /\ cursor.at <= PastHeader
  <1>1. PastHeader \in Nat
    BY PastHeaderOK DEF Readable, Adrift
  <1>2. cursor.at \in Nat
    BY StatesTyped
  <1>. QED  BY <1>1, <1>2 DEF PastHeader, SkipCsvHeader

LEMMA CursorMoves ==
    ASSUME IInv, [Next]_vars, ~(Publish /\ link)
    PROVE  newest' = 0 \/ Onward
  <1>. USE DEF IInv
  <1>1. CASE UNCHANGED <<cursor, newest>>
    BY <1>1 DEF Onward, Passed
  <1>2. CASE AppendRecord
    <2>1. CASE cursor.valid
      BY <1>1, <1>2, <2>1 DEF AppendRecord, storFrame
    <2>2. CASE ~cursor.valid
      BY <1>2, <2>2 DEF AppendRecord, storFrame, Onward, Passed
    <2>. QED  BY <2>1, <2>2
  <1>3. CASE Readable /\ MoveTo(PastHeader) /\ newest' = newest
    BY <1>3, HeaderOnward, MovesOnward DEF Readable
  <1>4. ASSUME NEW m \in Later(cursor.file), newest' = newest,
               cursor' = [cursor EXCEPT !.file = m, !.at = 0]
        PROVE  Onward
    <2>1. /\ cursor \in Cursors /\ cursor.file \in Nat
          /\ m \in Nat /\ m > cursor.file
      BY StatesTyped, CardTypes DEF Later, Days
    <2>2. cursor' = [valid |-> cursor.valid, file |-> m, at |-> 0]
      BY <1>4, <2>1 DEF Cursors
    <2>. QED  BY <1>4, <2>1, <2>2 DEF Onward, Passed
  <1>11. CASE EndOfFile
    <2>1. CASE MoveTo(PastHeader)
      BY <1>3, <1>11, <2>1 DEF EndOfFile, history
    <2>2. CASE ~MoveTo(PastHeader)
      <3>1. /\ Later(cursor.file) # {} /\ newest' = newest
            /\ cursor' = [cursor EXCEPT !.file = Min(Later(cursor.file)), !.at = 0]
        BY <1>11, <2>2 DEF EndOfFile, history
      <3>2. Later(cursor.file) \in SUBSET Nat
        BY StatesTyped, CardTypes DEF Later, Days
      <3>3. Min(Later(cursor.file)) \in Later(cursor.file)
        BY <3>1, <3>2, MinOK
      <3>. QED  BY <1>4, <3>1, <3>3
    <2>. QED  BY <2>1, <2>2
  <1>12. CASE EndsEarly
    BY <1>4, <1>12 DEF EndsEarly
  <1>13. CASE ReadCut
    <2>1. Readable /\ cursor.valid /\ newest' = newest
      BY <1>13 DEF ReadCut, Readable
    <2>2. PICK from \in {cursor.at, PastHeader} : MoveTo(from)
      BY <1>13 DEF ReadCut
    <2>3. CASE from = PastHeader
      BY <1>3, <2>1, <2>2, <2>3
    <2>4. CASE from = cursor.at
      <3>1. cursor.at \in Nat /\ cursor.at <= cursor.at
        BY StatesTyped
      <3>. QED  BY <2>1, <2>2, <2>4, <3>1, MovesOnward
    <2>. QED  BY <2>2, <2>3, <2>4
  <1>5. CASE NothingFound
    BY <1>1, <1>3, <1>5 DEF NothingFound, history
  <1>6. CASE ReadLine
    BY <1>1, <1>3, <1>6 DEF ReadLine, history
  <1>7. CASE ParseLine
    <2>1. image' = image /\ cursor.valid /\ newest' = newest
      BY <1>7 DEF ParseLine, Parsed, PhaseInv, history
    <2>2. CASE MoveTo(image.to)
      <3>1. image.to \in Nat /\ cursor.at <= image.to /\ cursor.at \in Nat
        BY <1>7, StatesTyped DEF ParseLine, ImageInv, TypeOK
      <3>. QED  BY <2>1, <2>2, <3>1, MovesOnward
    <2>. QED  BY <1>1, <1>7, <2>1, <2>2 DEF ParseLine
  <1>8. CASE Publish
    BY <1>1, <1>8 DEF Publish, history
  <1>9. CASE Restart
    BY <1>9 DEF Restart
  <1>10. CASE \/ Acquire \/ OpenFile \/ FillBuffer \/ AppendFails \/ StoreFirst \/ Housekeep
              \/ DrainBegins \/ StoreAdvance \/ StoreSkip \/ StoreCrossing
              \/ LinkDown \/ LinkUp \/ UNCHANGED vars
    BY <1>1, <1>10 DEF Acquire, OpenFile, FillBuffer, AppendFails, StoreFirst, Housekeep,
          Reclaim, storFrame, DrainBegins, StoreAdvance, StoreSkip, StoreCrossing, storing,
          LinkDown, LinkUp, vars, fsVars, history
  <1>. QED
    BY <1>2, <1>5, <1>6, <1>7, <1>8, <1>9, <1>10, <1>11, <1>12, <1>13
       DEF Next, StorageTask, ConnectivityTask

(* What a step that accepts no record keeps: the records the cursor has    *)
(* not passed stay newer than the last one accepted.                       *)
LEMMA NumberedStep ==
    ASSUME OrderInv, [Next]_vars, newest' = 0 \/ Onward
    PROVE  Numbered'
  <1>. USE DEF OrderInv
  <1>. SUFFICES ASSUME NEW d \in DOMAIN card', NEW i \in DOMAIN card'[d],
                       card'[d][i].kind = "record"
                PROVE  /\ 1 <= card'[d][i].id
                       /\ stor' \in Filing => card'[d][i].id < acquired'
                       /\ ~Passed(cursor', d, i) => newest' < card'[d][i].id
    BY DEF Numbered, IsRecord, Files, Passed
  <1>1. /\ acquired \in Nat /\ newest \in Nat /\ FsTypeOK
        /\ acquired' \in Nat /\ acquired <= acquired'
        /\ stor' \in Filing => \/ stor \in Filing /\ acquired' = acquired
                               \/ acquired' = acquired + 1
    BY StatesTyped, NumberMoves DEF IInv, TypeOK
  <1>2. CASE WasThere(d, i)
    <2>1. /\ d \in Files /\ i \in DOMAIN card[d] /\ IsRecord(d, i)
          /\ card'[d][i] = card[d][i]
      BY <1>2 DEF WasThere, IsRecord
    <2>2. card[d][i].id \in Nat /\ d \in Nat /\ i \in Nat
      BY <1>1, <2>1, CardTypes DEF Cells, Days
    <2>3. /\ 1 <= card[d][i].id /\ card[d][i].id <= acquired
          /\ stor \in Filing => card[d][i].id < acquired
          /\ ~Passed(cursor, d, i) => newest < card[d][i].id
      BY <2>1 DEF Numbered, IInv, CardInv
    <2>4. stor' \in Filing => card[d][i].id < acquired'
      BY <1>1, <2>2, <2>3
    <2>5. ~Passed(cursor', d, i) => newest' < card[d][i].id
      BY <2>2, <2>3 DEF Onward
    <2>. QED  BY <2>1, <2>3, <2>4, <2>5
  <1>3. CASE ~WasThere(d, i)
    <2>1. PICK x \in {Header, Stub, Line(acquired)} : Grows(x)
      BY <1>3, CardMoves, ShrinksCell
    <2>2. card'[d][i] = x /\ (x.kind = "record" => x = Line(acquired))
      BY <1>3, <2>1, GrowsCell
    <2>3. x.kind = "record" /\ card'[d][i].id = acquired
      BY <2>2 DEF Line
    <2>4. stor \in Filing /\ stor' \notin Filing
      BY <2>1, <2>3 DEF Grows
    <2>5. acquired >= 1 /\ newest < acquired
      BY <2>4 DEF Sent, IInv, PhaseInv, Filing, Records
    <2>. QED  BY <1>1, <2>3, <2>4, <2>5 DEF Onward
  <1>. QED  BY <1>2, <1>3

LEMMA SentStep ==
    ASSUME OrderInv, IInv', [Next]_vars, newest' = 0 \/ Onward
    PROVE  Sent'
  <1>. USE DEF OrderInv
  <1>1. /\ acquired \in Nat /\ newest \in Nat
        /\ acquired' \in Nat /\ acquired <= acquired'
        /\ stor' \in Filing => \/ stor \in Filing /\ acquired' = acquired
                               \/ acquired' = acquired + 1
    BY StatesTyped, NumberMoves DEF IInv, TypeOK
  <1>2. CASE newest' = 0
    <2>1. stor' \in Filing => acquired' >= 1
      BY DEF IInv, PhaseInv, Filing, Records
    <2>. QED  BY <1>1, <1>2, <2>1 DEF Sent
  <1>3. CASE Onward
    BY <1>1, <1>3 DEF Sent, Onward
  <1>. QED  BY <1>2, <1>3

(* The broker accepts the record at the cursor, and the cursor goes on to  *)
(* the records behind it.                                                  *)
LEMMA PublishStep ==
    ASSUME OrderInv, Publish, link
    PROVE  Numbered' /\ Sent'
  <1>. USE DEF OrderInv
  <1>. DEFINE f == cursor.file
              k == Cell(cursor.at)
  <1>1. /\ image.rec # 0 /\ f \in Files
        /\ cursor.at % 2 = 0 /\ image.to = cursor.at + 2
        /\ k \in DOMAIN card[f] /\ card[f][k] = Line(image.rec)
    BY DEF Publish, Imaged, IInv, ImageInv, PhaseInv
  <1>2. /\ FsTypeOK /\ cursor \in Cursors /\ f \in Nat /\ acquired \in Nat
        /\ cursor.at \in Nat /\ cursor.valid
    BY StatesTyped DEF IInv, CursorInv, CursorOK, PhaseInv, Publish
  <1>3. 2 * k = cursor.at + 2 /\ k \in Nat
    BY <1>1, <1>2, CellOK
  <1>. HIDE DEF k, f
  <1>4. IsRecord(f, k) /\ card[f][k].id = image.rec
    BY <1>1 DEF IsRecord, Line
  <1>5. /\ UNCHANGED <<card, acquired, today, stor>>
        /\ newest' = image.rec
        /\ cursor' = [valid |-> TRUE, file |-> f, at |-> cursor.at + 2]
    BY <1>1, <1>2 DEF Publish, connFrame, storVars, MoveTo, Cursors, f
  <1>6. image.rec \in Nat /\ image.rec <= acquired /\ (stor \in Filing => image.rec < acquired)
    BY <1>1, <1>4 DEF Numbered, IInv, CardInv, TypeOK
  <1>7. Sent'
    BY <1>5, <1>6 DEF Sent
  <1>8. ASSUME NEW d \in Files, NEW i \in DOMAIN card[d], IsRecord(d, i),
               ~Passed(cursor', d, i)
        PROVE  image.rec < card[d][i].id
    <2>1. d \in Nat /\ i \in Nat
      BY <1>2, CardTypes DEF Days
    <2>2. d > f \/ (d = f /\ cursor.at + 2 <= 2 * (i - 1))
      BY <1>2, <1>5, <1>8, <2>1 DEF Passed
    <2>3. d = f /\ cursor.at + 2 <= 2 * (i - 1) => k < i
      BY <1>2, <1>3, <2>1
    <2>4. Before(f, k, d, i)
      BY <1>2, <2>1, <2>2, <2>3 DEF Before
    <2>. QED  BY <1>1, <1>4, <1>8, <2>4 DEF Sequenced
  <1>9. Numbered'
    BY <1>5, <1>8 DEF Numbered, IsRecord, Files
  <1>. QED  BY <1>7, <1>9

(* A line that is an intact record is the one cell at the cursor. *)
LEMMA RecordAtOK ==
    ASSUME NEW text \in Seq(Cells), NEW at \in Nat, at < 2 * Len(text),
           LineAt(text, at).rec # 0
    PROVE  /\ at % 2 = 0
           /\ LineAt(text, at).to = at + 2
           /\ Cell(at) \in DOMAIN text
           /\ text[Cell(at)] = Line(LineAt(text, at).rec)
  <1>1. LineEnd(text, at) \in Cell(at) .. Len(text)
    BY LineEndOK
  <1>0. at % 2 = 0
    BY DEF LineAt
  <1>2. Cell(at) \in Nat /\ Cell(at) >= 1 /\ 2 * Cell(at) = at + 2
    BY <1>0, CellOK
  <1>3. /\ LineEnd(text, at) = Cell(at) /\ text[Cell(at)].kind = "record"
        /\ LineAt(text, at) = [rec |-> text[Cell(at)].id, to |-> 2 * Cell(at)]
    BY DEF LineAt
  <1>4. Cell(at) \in DOMAIN text /\ text[Cell(at)] \in Cells
    BY <1>1, <1>2, <1>3
  <1>5. text[Cell(at)] = Line(text[Cell(at)].id)
    BY <1>3, <1>4 DEF Line, Cells
  <1>. QED  BY <1>0, <1>2, <1>3, <1>4, <1>5

LEMMA ImagedStep ==
    ASSUME OrderInv, IInv', [Next]_vars, ~Overlap
    PROVE  Imaged'
  <1>. USE DEF OrderInv
  <1>. SUFFICES ASSUME conn' \in {"parse", "publish"}, image'.rec # 0
                PROVE  /\ cursor'.at % 2 = 0
                       /\ image'.to = cursor'.at + 2
                       /\ Cell(cursor'.at) \in DOMAIN card'[cursor'.file]
                       /\ card'[cursor'.file][Cell(cursor'.at)] = Line(image'.rec)
    BY DEF Imaged, Cell
  <1>1. CASE ReadLine
    <2>1. /\ cursor.valid /\ cursor.file \in Files /\ cursor'.file = cursor.file
          /\ Text(cursor.file) = card[cursor.file]
          /\ cursor \in Cursors /\ FsTypeOK
      BY <1>1, StatesTyped DEF ReadLine, Readable, Adrift, Text, MoveTo, Cursors, IInv
    <2>2. cursor' \in Cursors
      BY DEF IInv, TypeOK, FsTypeOK
    <2>. DEFINE text == card[cursor.file]
                at == cursor'.at
    <2>3. text \in Seq(Cells) /\ at \in Nat
      BY <2>1, <2>2, CardTypes DEF Cursors
    <2>4. at < 2 * Len(text) /\ image' = LineAt(text, at) /\ card' = card
      BY <1>1, <2>1 DEF ReadLine
    <2>. HIDE DEF text, at
    <2>5. /\ at % 2 = 0 /\ image'.to = at + 2 /\ Cell(at) \in DOMAIN text
          /\ text[Cell(at)] = Line(image'.rec)
      BY <2>3, <2>4, RecordAtOK
    <2>. QED  BY <2>1, <2>4, <2>5 DEF text, at
  <1>2. CASE conn \in {"parse", "publish"} /\ UNCHANGED <<image, cursor>>
    <2>1. /\ cursor.at % 2 = 0 /\ image.to = cursor.at + 2
          /\ Cell(cursor.at) \in DOMAIN card[cursor.file]
          /\ card[cursor.file][Cell(cursor.at)] = Line(image.rec)
          /\ cursor.file \in Files
      BY <1>2 DEF Imaged, IInv, PhaseInv
    <2>2. cursor.file \in DOMAIN card'
      BY <1>2 DEF IInv, PhaseInv, Files
    <2>3. FsTypeOK
      BY StatesTyped DEF IInv
    <2>4. CASE Shrinks
      BY <1>2, <2>1, <2>2, <2>4 DEF Shrinks
    <2>5. ASSUME NEW x \in {Header, Stub, Line(acquired)}, Grows(x)
          PROVE  /\ Cell(cursor.at) \in DOMAIN card'[cursor.file]
                 /\ card'[cursor.file][Cell(cursor.at)] = card[cursor.file][Cell(cursor.at)]
      <3>. DEFINE k == Cell(cursor.at)
                  f == cursor.file
      <3>1. k \in 1 .. Len(card[f]) /\ Len(card[f]) \in Nat
        BY <2>1, <2>3, CardTypes
      <3>. HIDE DEF k, f
      <3>2. card'[f] \in Seq(Cells) /\ Len(card[f]) <= Len(card'[f]) /\ card'[f][k] = card[f][k]
        BY <2>1, <2>2, <2>5, <3>1 DEF Grows, Grew, f
      <3>3. k \in DOMAIN card'[f]
        BY <3>1, <3>2
      <3>. QED  BY <3>2, <3>3 DEF k, f
    <2>. QED  BY <1>2, <2>1, <2>4, <2>5, CardMoves
  <1>3. CASE ParseLine
    BY <1>2, <1>3 DEF ParseLine, Parsed, IInv, PhaseInv
  <1>4. CASE AppendRecord
    <2>1. UNCHANGED <<conn, image>> /\ (cursor.valid => cursor' = cursor)
      BY <1>4 DEF AppendRecord, storFrame, connVars
    <2>. QED  BY <1>2, <2>1 DEF IInv, PhaseInv
  <1>7. CASE ReadCut
    BY <1>7 DEF ReadCut
  <1>5. CASE \/ DrainBegins \/ NothingFound \/ EndOfFile \/ EndsEarly \/ Publish
             \/ StoreAdvance \/ StoreSkip \/ StoreCrossing \/ Restart
    <2>1. conn' \notin {"parse", "publish"}
      BY <1>5 DEF DrainBegins, NothingFound, EndOfFile, EndsEarly, Publish, StoreAdvance, StoreSkip,
            StoreCrossing, Again, Restart
    <2>. QED  BY <2>1
  <1>6. CASE \/ Acquire \/ OpenFile \/ FillBuffer \/ AppendFails \/ StoreFirst
             \/ Housekeep \/ LinkDown \/ LinkUp \/ UNCHANGED vars
    <2>1. UNCHANGED <<conn, image, cursor>>
      BY <1>6 DEF Acquire, OpenFile, FillBuffer, AppendFails, StoreFirst, Housekeep, Reclaim,
            storFrame, connVars, LinkDown, LinkUp, vars, fsVars
    <2>. QED  BY <1>2, <2>1
  <1>. QED
    BY <1>1, <1>3, <1>4, <1>5, <1>6, <1>7 DEF Next, StorageTask, ConnectivityTask

LEMMA OrderInit == Init => OrderInv
  <1>. SUFFICES ASSUME Init PROVE OrderInv
    OBVIOUS
  <1>1. IInv
    BY InitIInv
  <1>2. Files = {}
    BY DEF Init, FsInit, Files
  <1>3. Sequenced /\ Numbered /\ Sent /\ Imaged
    BY <1>2 DEF Init, Sequenced, Numbered, Sent, Imaged, Filing
  <1>. QED  BY <1>1, <1>3 DEF OrderInv

LEMMA OrderNext ==
    ASSUME OrderInv, [Next]_vars, ~Overlap, "load" \notin Faults
    PROVE  OrderInv'
  <1>1. IInv'
    BY NextIInv DEF OrderInv
  <1>2. Sequenced' /\ Imaged'
    BY <1>1, SequencedStep, ImagedStep
  <1>3. Numbered' /\ Sent'
    <2>1. CASE Publish /\ link
      BY <2>1, PublishStep
    <2>2. CASE ~(Publish /\ link)
      BY <1>1, <2>2, CursorMoves, NumberedStep, SentStep DEF OrderInv
    <2>. QED  BY <2>1, <2>2
  <1>. QED  BY <1>1, <1>2, <1>3 DEF OrderInv

LEMMA OrderImplies == OrderInv => InOrderOnce
  <1>. SUFFICES ASSUME OrderInv, conn = "publish" PROVE image.rec > newest
    BY DEF InOrderOnce
  <1>. DEFINE f == cursor.file
              k == Cell(cursor.at)
  <1>1. /\ f \in Files /\ k \in DOMAIN card[f] /\ card[f][k] = Line(image.rec)
        /\ cursor.at % 2 = 0
    BY DEF OrderInv, Imaged, IInv, ImageInv, PhaseInv
  <1>2. cursor.at \in Nat /\ f \in Nat
    BY StatesTyped DEF OrderInv, IInv
  <1>3. 2 * k = cursor.at + 2 /\ k \in Nat
    BY <1>1, <1>2, CellOK
  <1>. HIDE DEF k, f
  <1>4. ~Passed(cursor, f, k)
    BY <1>2, <1>3 DEF Passed, f
  <1>5. IsRecord(f, k) /\ card[f][k].id = image.rec
    BY <1>1 DEF IsRecord, Line
  <1>6. newest < image.rec
    BY <1>1, <1>4, <1>5 DEF OrderInv, Numbered
  <1>. QED  BY <1>6 DEF OrderInv, IInv, TypeOK

(* Between two starts the backlog is published in the order it was stored, *)
(* and no record twice, however days change, writes fail and reads end     *)
(* early (TelemSwc_DrainBacklog).  The assumptions are those of AtLeastOnce, on  *)
(* whose invariant this one rests.                                         *)
THEOREM PublishedInOrder ==
    ASSUME ~Overlap, "load" \notin Faults
    PROVE  Spec => []InOrderOnce
  BY OrderInit, OrderNext, OrderImplies, PTL DEF Spec
=============================================================================
