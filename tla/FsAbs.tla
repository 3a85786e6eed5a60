--------------------------------- MODULE FsAbs ---------------------------------
(***************************************************************************)
(* The record log on the card and its transfer cursor (FsAbs.c, and the    *)
(* platform leaf FsAbs_Esp32.cpp).  The log is one text file per day; a    *)
(* record is a line that ends in its checksum.  The cursor says up to      *)
(* where the log has been sent: a copy in RAM, written through to a block  *)
(* of Fee, which replaces it whole or not at all.                          *)
(*                                                                         *)
(* A file is a sequence of cells, one per append: a header line, a record  *)
(* line, a stub (an append cut short, so the line goes on in the next      *)
(* cell) or junk (a line that is not a record).  A stub is taken to be cut *)
(* before its separator.  Offsets count half cells: an odd one lies inside *)
(* a line.  File names order like dates, and days are numbers.             *)
(***************************************************************************)
EXTENDS Integers, Sequences, SequencesExt, FiniteSets, FiniteSetsExt

CONSTANTS
    LastDay,     \* bound: the days explored
    MaxRecords,  \* bound: the records acquired
    WriteLimit,  \* FSABS_WRITE_FAILURE_LIMIT
    Overlap      \* may the two tasks use FsAbs_LineBuffer at the same time?

ASSUME FsAbsAssumption ==
    /\ {LastDay, MaxRecords, WriteLimit} \subseteq Nat \ {0}
    /\ Overlap \in BOOLEAN

VARIABLES
    card,      \* the log files: day -> cells
    mounted,   \* FsAbs_Status.mounted
    failures,  \* FsAbs_ConsecutiveWriteFailures
    cursor,    \* FsAbs_Cursor
    stored,    \* the cursor block in Fee
    held       \* who wrote FsAbs_LineBuffer last: "writer" or "reader"

fsVars == <<card, mounted, failures, cursor, stored, held>>

Days == 1 .. LastDay
Records == 1 .. MaxRecords
Kinds == {"record", "header", "stub", "junk"}
Cells == [kind : Kinds, id : 0 .. MaxRecords]
Cursors == [valid : BOOLEAN, file : Days, at : Nat]

Line(r) == [kind |-> "record", id |-> r]
Header == [kind |-> "header", id |-> 0]
Stub == [kind |-> "stub", id |-> 0]
Junk == [kind |-> "junk", id |-> 0]
NoCursor == [valid |-> FALSE, file |-> 1, at |-> 0]

(* Types and ranges; a card that failed WriteLimit appends is given up. *)
FsTypeOK ==
    /\ \E files \in SUBSET Days : card \in [files -> Seq(Cells)]
    /\ mounted \in BOOLEAN
    /\ failures \in 0 .. WriteLimit
    /\ mounted => failures < WriteLimit
    /\ {cursor, stored} \subseteq Cursors
    /\ held \in {"writer", "reader"}

FsInit ==
    /\ card = <<>>
    /\ mounted = TRUE
    /\ failures = 0
    /\ cursor = NoCursor /\ stored = NoCursor
    /\ held = "writer"

-----------------------------------------------------------------------------
(* Files.                                                                  *)

Files == DOMAIN card
Text(d) == IF d \in Files THEN card[d] ELSE <<>>

(* The records in the files of these days. *)
Filed(days) ==
    {r \in Records : \E d \in days \cap Files : \E i \in DOMAIN card[d] :
                       card[d][i] = Line(r)}

(* The card with cells added to the file of day d, created if need be. *)
Appended(d, cells) ==
    [e \in Files \cup {d} |-> IF e = d THEN Text(d) \o cells ELSE card[e]]

(* What an append that fails, or is cut by the supply, may leave. *)
Leftovers(d, cell) ==
    {card} \cup {Appended(d, cells) : cells \in {<<>>, <<Stub>>, <<cell>>}}

(* Bug: "not older" for "newer". *)
LaterOrSame(d) == {e \in Files : e >= d}

Later(d) == {e \in Files : e > d}

-----------------------------------------------------------------------------
(* Lines.                                                                  *)

Ended(cell) == cell.kind # "stub"
Cell(at) == at \div 2 + 1

(* The line at an offset runs to the first cell that ends it, if any. *)
LineEnds(text, at) == {i \in Cell(at) .. Len(text) : Ended(text[i])}
LineEnd(text, at) ==
    IF LineEnds(text, at) = {} THEN Len(text) ELSE Min(LineEnds(text, at))

(* The record at an offset, 0 if the line is not an intact one, and the    *)
(* offset behind it.                                                       *)
LineAt(text, at) ==
    LET last == LineEnd(text, at)
        intact == at % 2 = 0 /\ last = Cell(at) /\ text[last].kind = "record"
    IN  [rec |-> IF intact THEN text[last].id ELSE 0, to |-> 2 * last]

(* Where a read of the line at an offset may be cut: before its end. *)
Cuts(text, at) ==
    {to \in at .. 2 * LineEnd(text, at) - 1 : to > at \/ to % 2 = 1}

(* A header: the first line of a file, ended, and without a separator. *)
HeaderLine(text) ==
    /\ LineEnds(text, 0) # {}
    /\ \A i \in 1 .. LineEnd(text, 0) : text[i].kind \in {"header", "stub"}

SkipCsvHeader(text, at) ==
    IF at = 0 /\ HeaderLine(text) THEN 2 * LineEnd(text, 0) ELSE at

-----------------------------------------------------------------------------
(* The cursor.                                                             *)

MoveTo(at) == cursor' = [cursor EXCEPT !.at = at]

(* A failed write of the block may have taken effect or not. *)
CursorStored == stored' = cursor
CursorNotStored == stored' \in {stored, cursor}

(* Has cursor c passed cell i of day d? *)
Passed(c, d, i) ==
    c.valid /\ (d < c.file \/ (d = c.file /\ c.at > 2 * (i - 1)))

(* The transfer stands on a file that is not on the card. *)
Adrift == cursor.valid /\ cursor.file \notin Files

-----------------------------------------------------------------------------
(* Housekeeping.                                                           *)

(* Bug: the oldest file goes, whether sent or not. *)
ReclaimAny(oldest) ==
    /\ mounted /\ oldest \in Files
    /\ card' = Restrict(card, Files \ {oldest})
    /\ UNCHANGED <<mounted, failures, cursor, stored, held>>

(* With little space left, the oldest log found goes unless it is the      *)
(* cursor's.                                                               *)
Reclaim(oldest) ==
    /\ mounted /\ oldest \in Files
    /\ ~(cursor.valid /\ oldest = cursor.file)
    /\ card' = Restrict(card, Files \ {oldest})
    /\ UNCHANGED <<mounted, failures, cursor, stored, held>>
=============================================================================
