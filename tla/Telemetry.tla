------------------------------- MODULE Telemetry -------------------------------
(***************************************************************************)
(* Store and forward (TelemSwc.c) on the log of FsAbs.  The storage task   *)
(* on core 1 appends one record per cycle and keeps house; the             *)
(* connectivity task on core 0 reads the log at the cursor, publishes and  *)
(* advances.  Nothing but the lock of the SPI bus orders the two, and it   *)
(* is held for one card operation at a time: so each card operation, each  *)
(* write of the cursor block and each publication is a step.               *)
(*                                                                         *)
(* Records are numbered as they are acquired.  The clock does not go back. *)
(* Live publication and the transfer of old files are not part of this     *)
(* module: they use neither the cursor nor the line buffer.                *)
(***************************************************************************)
EXTENDS FsAbs

CONSTANTS
    PerCycle,   \* TELEM_BACKLOG_RECORDS_PER_CYCLE
    MaxSkips,   \* TELEM_MAX_SKIPS_PER_CYCLE
    Faults,     \* the faults of this environment
    MaxFaults   \* bound: the faults of one behaviour

(* "short": a read, or a walk of the directory, that ends early and is     *)
(* answered like a whole one.                                              *)
FaultKinds == {"append", "exists", "read", "short", "store", "link",
               "power", "mount", "load"}

ASSUME TelemetryAssumption ==
    /\ {PerCycle, MaxSkips} \subseteq Nat \ {0}
    /\ Faults \subseteq FaultKinds /\ MaxFaults \in Nat

VARIABLES
    acquired,   \* the number of the newest record
    today,      \* the day it is filed under
    stor,       \* where the storage task is
    conn,       \* where the connectivity task is
    image,      \* what it found at the cursor: a record, and the next offset
    published,  \* DrainBacklog's counts
    skipped,
    link,       \* ComM_IsCommunicationAvailable
    faults,     \* faults so far
    owed,       \* history: records acknowledged as stored, not yet accepted
    missed,     \* history: records a read or a walk that ended early left out
    newest      \* history: newest backlog record accepted since the start

storVars == <<acquired, today, stor>>
connVars == <<conn, image, published, skipped>>
history == <<owed, missed, newest>>
vars == <<fsVars, storVars, connVars, link, faults, history>>

(* Types and ranges. *)
TypeOK ==
    /\ FsTypeOK
    /\ acquired \in 0 .. MaxRecords
    /\ today \in Days
    /\ stor \in {"idle", "open", "fill", "append", "first"}
    /\ conn \in {"idle", "read", "parse", "publish",
                 "advanced", "skipped", "crossed"}
    /\ image \in [rec : 0 .. MaxRecords, to : Nat]
    /\ published \in 0 .. PerCycle
    /\ skipped \in 0 .. MaxSkips
    /\ link \in BOOLEAN
    /\ faults \in 0 .. MaxFaults
    /\ owed \subseteq Records /\ missed \subseteq Records
    /\ newest \in 0 .. MaxRecords

Init ==
    /\ FsInit
    /\ acquired = 0 /\ today = 1 /\ stor = "idle"
    /\ conn = "idle" /\ image = [rec |-> 0, to |-> 0]
    /\ published = 0 /\ skipped = 0
    /\ link = TRUE
    /\ faults = 0
    /\ owed = {} /\ missed = {} /\ newest = 0

Fault(kind) ==
    /\ kind \in Faults
    /\ faults < MaxFaults
    /\ faults' = faults + 1

NoFault == UNCHANGED faults

(* A read or a walk of the directory fails, or ends before anything came. *)
ReadFails == Fault("read") \/ Fault("short")

-----------------------------------------------------------------------------
(* The storage task.                                                       *)

storFrame == UNCHANGED <<connVars, link, newest>>
spared == UNCHANGED <<owed, missed>>

(* A record is assembled.  Without a valid clock it is not stored. *)
Acquire ==
    /\ stor = "idle"
    /\ acquired < MaxRecords
    /\ acquired' = acquired + 1
    /\ \/ UNCHANGED <<today, stor>>
       \/ today' \in today .. LastDay /\ stor' = "open"
    /\ UNCHANGED <<fsVars, faults>> /\ spared
    /\ storFrame

(* A file that does not exist gets a header; so does one whose existence   *)
(* could not be established.  A flush that fails is not noticed.           *)
OpenFile ==
    /\ stor = "open"
    /\ \/ ~mounted /\ stor' = "idle" /\ NoFault /\ UNCHANGED card
       \/ /\ mounted
          /\ \/ today \in Files /\ stor' = "fill" /\ NoFault /\ UNCHANGED card
             \/ /\ today \notin Files /\ NoFault
                /\ stor' = "fill" /\ card' = Appended(today, <<Header>>)
             \/ /\ today \in Files /\ Fault("exists")
                /\ stor' = "fill" /\ card' = Appended(today, <<Header>>)
             \/ /\ today \notin Files /\ Fault("append")
                /\ stor' \in {"idle", "fill"} /\ card' \in Leftovers(today, Header)
    /\ UNCHANGED <<mounted, failures, cursor, stored, held, acquired, today>>
    /\ spared /\ storFrame

(* The line is put together in FsAbs_LineBuffer. *)
FillBuffer ==
    /\ stor = "fill"
    /\ Overlap \/ conn # "parse"
    /\ held' = "writer"
    /\ stor' = "append"
    /\ UNCHANGED <<card, mounted, failures, cursor, stored, acquired, today>>
    /\ NoFault /\ spared
    /\ storFrame

(* What reaches the card: the record, or the buffer as the reader left it, *)
(* cut to the length of the record.                                        *)
Written ==
    IF held = "writer" THEN {<<Line(acquired)>>}
    ELSE {<<Junk>>, <<Stub>>} \cup
         IF image.rec = 0 THEN {}
         ELSE {<<Line(image.rec)>>, <<Line(image.rec), Stub>>}

(* Does the next append start a line? *)
LineOpen(text) == text # <<>> /\ ~Ended(Last(text))

(* The first record establishes the cursor.  An append is acknowledged     *)
(* even if its flush failed: then the record is not on the card, or not    *)
(* known to be, and nothing is owed.                                       *)
AppendRecord ==
    /\ stor = "append"
    /\ \/ /\ \E cells \in Written : card' = Appended(today, cells)
          /\ owed' = IF LineOpen(Text(today)) THEN owed ELSE owed \cup {acquired}
          /\ NoFault
       \/ /\ card' \in Leftovers(today, Line(acquired))
          /\ UNCHANGED owed
          /\ Fault("append")
    /\ failures' = 0
    /\ \/ cursor.valid /\ stor' = "idle" /\ UNCHANGED cursor
       \/ /\ ~cursor.valid /\ stor' = "first"
          /\ cursor' = [valid |-> TRUE, file |-> today, at |-> 0]
    /\ UNCHANGED <<mounted, stored, held, acquired, today, missed>>
    /\ storFrame

(* Bug: a card that keeps failing is never given up. *)
AppendFailsForEver ==
    /\ stor = "append"
    /\ Fault("append")
    /\ card' \in Leftovers(today, Line(acquired))
    /\ failures' = failures + 1
    /\ stor' = "idle"
    /\ UNCHANGED <<mounted, cursor, stored, held, acquired, today>>
    /\ spared /\ storFrame

(* After WriteLimit failures in a row the card is not used any more. *)
AppendFails ==
    /\ stor = "append"
    /\ Fault("append")
    /\ card' \in Leftovers(today, Line(acquired))
    /\ failures' = failures + 1
    /\ mounted' = (failures + 1 < WriteLimit)
    /\ stor' = "idle"
    /\ UNCHANGED <<cursor, stored, held, acquired, today>>
    /\ spared /\ storFrame

(* The result of storing the first cursor is discarded. *)
StoreFirst ==
    /\ stor = "first"
    /\ \/ CursorStored /\ NoFault
       \/ CursorNotStored /\ Fault("store")
    /\ stor' = "idle"
    /\ UNCHANGED <<card, mounted, failures, cursor, held, acquired, today>>
    /\ spared /\ storFrame

(* A walk of the directory that ends early may take any file for the       *)
(* oldest.                                                                 *)
Housekeep ==
    /\ stor = "idle"
    /\ \E oldest \in Files :
          /\ Reclaim(oldest)
          /\ \/ oldest = Min(Files) /\ NoFault /\ UNCHANGED missed
             \/ Fault("short") /\ missed' = missed \cup Filed({oldest})
    /\ UNCHANGED <<storVars, owed>>
    /\ storFrame

StorageTask ==
    Acquire \/ OpenFile \/ FillBuffer \/ AppendRecord \/ AppendFails \/ StoreFirst

-----------------------------------------------------------------------------
(* The connectivity task: TelemSwc_DrainBacklog.                           *)

connFrame == UNCHANGED <<storVars, link>>

DrainBegins ==
    /\ conn = "idle" /\ link
    /\ conn' = "read" /\ published' = 0 /\ skipped' = 0
    /\ UNCHANGED <<fsVars, image, faults, history>>
    /\ connFrame

Readable == mounted /\ cursor.valid /\ ~Adrift

PastHeader == SkipCsvHeader(Text(cursor.file), cursor.at)

(* Nothing to read: no card, no cursor, or its file cannot be read, before *)
(* or after the check for a header, or ends early and no other is found.   *)
NothingFound ==
    /\ conn = "read"
    /\ \/ ~Readable /\ NoFault /\ UNCHANGED cursor
       \/ Readable /\ ReadFails /\ MoveTo(PastHeader)
    /\ conn' = "idle"
    /\ UNCHANGED <<card, mounted, failures, stored, held>>
    /\ UNCHANGED <<image, published, skipped, history>>
    /\ connFrame

(* A line is read into FsAbs_LineBuffer.  If the check for a header could  *)
(* not read, that line is the header.                                      *)
ReadLine ==
    /\ conn = "read" /\ Readable
    /\ Overlap \/ stor # "append"
    /\ \/ MoveTo(PastHeader) /\ NoFault
       \/ PastHeader # cursor.at /\ UNCHANGED cursor /\ ReadFails
    /\ cursor'.at < 2 * Len(Text(cursor.file))
    /\ image' = LineAt(Text(cursor.file), cursor'.at)
    /\ held' = "reader"
    /\ conn' = "parse"
    /\ UNCHANGED <<card, mounted, failures, stored, published, skipped, history>>
    /\ connFrame

(* A read that comes back short of the end of its line, after or without a *)
(* check for a header: the line will be taken for a damaged one.           *)
ReadCut ==
    /\ conn = "read" /\ Readable
    /\ Overlap \/ stor # "append"
    /\ Fault("short")
    /\ \E from \in {cursor.at, PastHeader} : \E to \in Cuts(Text(cursor.file), from) :
          /\ MoveTo(from)
          /\ image' = [rec |-> 0, to |-> to]
          /\ missed' = missed \cup ({LineAt(Text(cursor.file), from).rec} \ {0})
    /\ held' = "reader"
    /\ conn' = "parse"
    /\ UNCHANGED <<card, mounted, failures, stored, published, skipped>>
    /\ UNCHANGED <<owed, newest>>
    /\ connFrame

(* Bug: the transfer stays on the file it has drained. *)
EndOfFileStays ==
    /\ conn = "read" /\ Readable
    /\ PastHeader >= 2 * Len(Text(cursor.file)) /\ MoveTo(PastHeader)
    /\ conn' = "idle"
    /\ NoFault
    /\ UNCHANGED <<card, mounted, failures, stored, held>>
    /\ UNCHANGED <<image, published, skipped, history>>
    /\ connFrame

(* At the end of a file the cursor moves to the next one, if the directory *)
(* can be read and has one.                                                *)
EndOfFile ==
    /\ conn = "read" /\ Readable
    /\ PastHeader >= 2 * Len(Text(cursor.file))
    /\ \/ /\ Later(cursor.file) = {} /\ NoFault
          /\ conn' = "idle" /\ MoveTo(PastHeader)
       \/ /\ Later(cursor.file) # {} /\ ReadFails
          /\ conn' = "idle" /\ MoveTo(PastHeader)
       \/ /\ Later(cursor.file) # {} /\ NoFault
          /\ conn' = "crossed"
          /\ cursor' = [cursor EXCEPT !.file = Min(Later(cursor.file)), !.at = 0]
    /\ UNCHANGED <<card, mounted, failures, stored, held>>
    /\ UNCHANGED <<image, published, skipped, history>>
    /\ connFrame

(* A read that comes back empty is taken for the end of the file wherever  *)
(* the cursor stands, and a walk of the directory that ends early may give *)
(* a file further on.                                                      *)
EndsEarly ==
    /\ conn = "read" /\ Readable
    /\ Fault("short")
    /\ \E next \in Later(cursor.file) :
          /\ cursor' = [cursor EXCEPT !.file = next, !.at = 0]
          /\ missed' = missed \cup Filed(cursor.file .. next - 1)
    /\ conn' = "crossed"
    /\ UNCHANGED <<card, mounted, failures, stored, held>>
    /\ UNCHANGED <<image, published, skipped, owed, newest>>
    /\ connFrame

(* What the parser may make of the buffer: what was read, or, if the       *)
(* writer has used the buffer since, its record or garbage, of any length. *)
Parsed ==
    IF held = "reader" THEN {image}
    ELSE [rec : {0, acquired}, to : cursor.at + 1 .. cursor.at + 3]

(* A line that is not an intact record is skipped. *)
ParseLine ==
    /\ conn = "parse"
    /\ image' \in Parsed
    /\ \/ image'.rec # 0 /\ conn' = "publish" /\ UNCHANGED cursor
       \/ image'.rec = 0 /\ conn' = "skipped" /\ MoveTo(image'.to)
    /\ NoFault
    /\ UNCHANGED <<card, mounted, failures, stored, held>>
    /\ UNCHANGED <<published, skipped, history>>
    /\ connFrame

(* Bug: the cursor advances whether or not the broker accepted. *)
PublishAndAdvance ==
    /\ conn = "publish"
    /\ owed' = IF link THEN owed \ {image.rec} ELSE owed
    /\ newest' = IF link THEN image.rec ELSE newest
    /\ MoveTo(image.to)
    /\ conn' = "advanced"
    /\ NoFault
    /\ UNCHANGED <<card, mounted, failures, stored, held>>
    /\ UNCHANGED <<image, published, skipped, missed>>
    /\ connFrame

(* The cursor advances once the broker has accepted the record. *)
Publish ==
    /\ conn = "publish"
    /\ \/ /\ link
          /\ owed' = owed \ {image.rec} /\ newest' = image.rec
          /\ MoveTo(image.to)
          /\ conn' = "advanced"
       \/ ~link /\ conn' = "idle" /\ UNCHANGED <<cursor, owed, newest>>
    /\ NoFault
    /\ UNCHANGED <<card, mounted, failures, stored, held>>
    /\ UNCHANGED <<image, published, skipped, missed>>
    /\ connFrame

Again(p, s) == IF p < PerCycle /\ s < MaxSkips THEN "read" ELSE "idle"

(* The cursor is written through; only an advance looks at the result. *)
storing == UNCHANGED <<card, mounted, failures, cursor, held, image, history>>

StoreAdvance ==
    /\ conn = "advanced"
    /\ \/ /\ CursorStored /\ NoFault
          /\ published' = published + 1
          /\ conn' = Again(published', skipped)
       \/ /\ CursorNotStored /\ Fault("store")
          /\ conn' = "idle"
          /\ UNCHANGED published
    /\ UNCHANGED skipped
    /\ storing
    /\ connFrame

StoreSkip ==
    /\ conn = "skipped"
    /\ \/ CursorStored /\ NoFault
       \/ CursorNotStored /\ Fault("store")
    /\ skipped' = skipped + 1
    /\ conn' = Again(published, skipped')
    /\ UNCHANGED published
    /\ storing
    /\ connFrame

StoreCrossing ==
    /\ conn = "crossed"
    /\ \/ CursorStored /\ NoFault
       \/ CursorNotStored /\ Fault("store")
    /\ conn' = "idle"
    /\ UNCHANGED <<published, skipped>>
    /\ storing
    /\ connFrame

ConnectivityTask ==
    \/ DrainBegins \/ NothingFound
    \/ ReadLine \/ ReadCut \/ EndOfFile \/ EndsEarly
    \/ ParseLine \/ Publish
    \/ StoreAdvance \/ StoreSkip \/ StoreCrossing

-----------------------------------------------------------------------------
(* The environment.                                                        *)

LinkDown ==
    /\ link /\ Fault("link")
    /\ link' = FALSE
    /\ UNCHANGED <<fsVars, storVars, connVars, history>>

LinkUp ==
    /\ ~link
    /\ link' = TRUE
    /\ UNCHANGED <<fsVars, storVars, connVars, faults, history>>

(* A reset, and the next start (FsAbs_Init).  An append or a write of the  *)
(* cursor in progress is cut.  Before a cursor was ever stored nothing is  *)
(* owed: the next append establishes it anew.                              *)
Restart ==
    /\ Fault("power")
    /\ \/ stor = "open" /\ mounted /\ today \notin Files /\ card' \in Leftovers(today, Header)
       \/ stor = "append" /\ \E cells \in Written :
             card' \in Leftovers(today, Head(cells))
       \/ UNCHANGED card
    /\ \/ UNCHANGED stored
       \/ /\ stor = "first" \/ conn \in {"advanced", "skipped", "crossed"}
          /\ stored' = cursor
    /\ \/ mounted' = TRUE /\ cursor' = stored'
       \/ mounted' = TRUE /\ "load" \in Faults /\ cursor' = NoCursor
       \/ mounted' = FALSE /\ "mount" \in Faults /\ cursor' = NoCursor
    /\ failures' = 0
    /\ stor' = "idle" /\ conn' = "idle"
    /\ image' = [rec |-> 0, to |-> 0] /\ published' = 0 /\ skipped' = 0
    /\ owed' = IF stored'.valid THEN owed ELSE {}
    /\ newest' = 0
    /\ UNCHANGED <<held, acquired, today, link, missed>>

Next ==
    StorageTask \/ Housekeep \/ ConnectivityTask \/ LinkDown \/ LinkUp \/ Restart

Spec == Init /\ [][Next]_vars

(* Both tasks keep being scheduled, and coverage comes back. *)
FairSpec ==
    /\ Spec
    /\ WF_vars(StorageTask) /\ WF_vars(ConnectivityTask) /\ WF_vars(LinkUp)

-----------------------------------------------------------------------------
(* Properties.                                                             *)

(* The cursors, in RAM and in flash, have not passed any of these records. *)
NonePassed(records) ==
    \A r \in records, d \in Files :
        \A i \in DOMAIN card[d] :
            card[d][i] = Line(r) => ~Passed(cursor, d, i) /\ ~Passed(stored, d, i)

(* What the broker is to get yet, but for what a read or a walk that ended *)
(* early has left out: the code cannot tell those from whole ones.         *)
Due == owed \ missed

(* A record acknowledged as stored and not yet accepted by the broker is   *)
(* behind neither the cursor in RAM nor the one a reset would resume from  *)
(* (TelemSwc_DrainBacklog: "at-least-once"), unless the very read that was *)
(* to bring it, or the walk that was to find its file, ended early: what   *)
(* one such read costs is the record it was to bring, or the rest of the   *)
(* file.                                                                   *)
OwedAhead == NonePassed(Due)

(* The same without the exception, as the comments of the code have it.    *)
AllOwedAhead == NonePassed(owed)

(* Between two starts the backlog is published in the order it was stored, *)
(* and no record twice, however days change, writes fail and reads end.    *)
InOrderOnce == conn = "publish" => image.rec > newest

(* Housekeeping never removes a record that is still owed, as long as the  *)
(* cursor names a file that is on the card (FsAbs_MainFunction), unless    *)
(* the record was left out before or the walk that chose the file ended    *)
(* early.                                                                  *)
HousekeepingSparesUnsent ==
    [][\A d \in Files \ DOMAIN card' :
          Adrift \/ \A r \in owed \ missed', i \in DOMAIN card[d] :
                       card[d][i] # Line(r)]_vars

(* The backlog drains again and again, past damaged lines and lines cut in *)
(* reading and across days, unless the card was given up or the cursor's   *)
(* file is gone.                                                           *)
BacklogDrains == []<>(Due = {} \/ ~mounted \/ Adrift)
=============================================================================
