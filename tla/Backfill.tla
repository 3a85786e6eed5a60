-------------------------------- MODULE Backfill --------------------------------
(***************************************************************************)
(* What TelemSwc publishes besides the backlog (TelemSwc.c): the latest    *)
(* record, live, and the days that an operator requests, in chunks         *)
(* (Com.c).                                                                *)
(*                                                                         *)
(* A file is its size; the records in it, the topics and the health line   *)
(* are left out.  The storage task acquires records, appends to files and  *)
(* removes them between any two steps of the connectivity task.            *)
(***************************************************************************)
EXTENDS Integers, Sequences, SequencesExt

CONSTANTS
    Days,        \* the names of log files
    Today,       \* the one that is written
    Junk,        \* a field of a request that is not a date
    MaxDates,    \* COM_MAX_BACKFILL_DATES
    MaxFields,   \* what is scanned of a request: COM_MAX_REQUEST_PAYLOAD
    ChunkSize,   \* COM_TRANSFER_CHUNK_SIZE
    MaxSize,     \* bound: the size of a file
    MaxRecords   \* bound: the records of a behaviour

ASSUME BackfillAssumption ==
    /\ Today \in Days /\ Junk \notin Days
    /\ {MaxDates, MaxFields, ChunkSize, MaxSize, MaxRecords} \subseteq Nat \ {0}
    /\ ChunkSize < MaxSize

VARIABLES
    files,      \* the size of each file, or Absent
    live,       \* TelemSwc_LiveRecord and TelemSwc_LivePending
    backfill,   \* TelemSwc_Backfill
    shown,      \* history: the last record published live, the last one overtaken
    day         \* history: what was sent of the present day and of the last, and what was
                \* lost to reads that brought less than they should and were answered E_OK

telemVars == <<live, backfill, shown, day>>

Absent == -1

NoPlan == [count |-> 0, full |-> 0, last |-> 0]
NoDay == [size |-> 0, got |-> 0, lost |-> 0, inOrder |-> TRUE, broken |-> FALSE]

TelemTypeOK ==
    /\ files \in [Days -> Absent .. MaxSize]
    /\ live \in [seq : 0 .. MaxRecords, pending : BOOLEAN]
    /\ backfill \in [dates : Seq(Days), current : Nat, chunk : Nat, active : BOOLEAN,
                     plan : [count : Nat, full : Nat, last : 0 .. ChunkSize - 1]]
    /\ Len(backfill.dates) <= MaxDates
    /\ backfill.current <= Len(backfill.dates)
    /\ shown \in [live : 0 .. MaxRecords, overtaken : 0 .. MaxRecords]
    /\ LET Sent == [size : Nat, got : Int, lost : Nat, inOrder : BOOLEAN, broken : BOOLEAN]
       IN day \in [now : Sent, last : Sent]

TelemInit ==
    /\ files \in {f \in [Days -> {Absent, 0, ChunkSize, ChunkSize + 1}] : f[Today] = Absent}
    /\ live = [seq |-> 0, pending |-> FALSE]
    /\ backfill = [dates |-> <<>>, current |-> 0, chunk |-> 0, active |-> FALSE, plan |-> NoPlan]
    /\ shown = [live |-> 0, overtaken |-> 0]
    /\ day = [now |-> NoDay, last |-> NoDay]

-----------------------------------------------------------------------------
(* Chunks and requests (Com.c).                                            *)

(* Bug: the short chunk at the end is not counted. *)
ComputeChunkPlanFull(size) ==
    [full |-> size \div ChunkSize, last |-> size % ChunkSize,
     count |-> size \div ChunkSize]

ComputeChunkPlan(size) ==
    [full |-> size \div ChunkSize, last |-> size % ChunkSize,
     count |-> size \div ChunkSize + (IF size % ChunkSize = 0 THEN 0 ELSE 1)]

GetChunkExtent(plan, index) ==
    [offset |-> index * ChunkSize,
     length |-> IF index = plan.count - 1 /\ plan.last > 0 THEN plan.last ELSE ChunkSize]

(* The dates of a request, as many as fit. *)
ParseBackfillRequest(payload) ==
    LET scanned == SubSeq(payload, 1, IF Len(payload) < MaxFields THEN Len(payload) ELSE MaxFields)
        dates == SelectSeq(scanned, LAMBDA f : f \in Days)
    IN SubSeq(dates, 1, IF Len(dates) < MaxDates THEN Len(dates) ELSE MaxDates)

-----------------------------------------------------------------------------
(* The storage task.                                                       *)

(* Bug: a record is queued only while there is a session. *)
AcquireWhileSending(sending) ==
    /\ live.seq < MaxRecords
    /\ live' = [seq |-> live.seq + 1, pending |-> sending]
    /\ shown' = [shown EXCEPT !.overtaken = IF sending THEN live.seq + 1 ELSE @]
    /\ \/ UNCHANGED files
       \/ /\ files[Today] < MaxSize
          /\ files' = [files EXCEPT ![Today] = IF @ = Absent THEN 1 ELSE @ + 1]
    /\ UNCHANGED <<backfill, day>>

(* TelemSwc_AcquireAndStore; the record is appended unless there is no     *)
(* clock or the card fails.  It always fits its buffer: the widest fields  *)
(* and separators of Com_SerialiseCsvRecord come to less than 1500 bytes   *)
(* of 2304.  sending: a live publication is under way, and its end will    *)
(* clear the flag that is set here.                                        *)
AcquireAndStore(sending) ==
    /\ live.seq < MaxRecords
    /\ live' = [seq |-> live.seq + 1, pending |-> TRUE]
    /\ shown' = [shown EXCEPT !.overtaken = IF sending THEN live.seq + 1 ELSE @]
    /\ \/ UNCHANGED files
       \/ /\ files[Today] < MaxSize
          /\ files' = [files EXCEPT ![Today] = IF @ = Absent THEN 1 ELSE @ + 1]
    /\ UNCHANGED <<backfill, day>>

(* Housekeeping removes an old day. *)
RemoveDay ==
    /\ \E d \in Days \ {Today} : files[d] # Absent /\ files' = [files EXCEPT ![d] = Absent]
    /\ UNCHANGED telemVars

-----------------------------------------------------------------------------
(* Live publication, in two steps: the record goes out, and its flag is    *)
(* cleared.                                                                *)

LiveSent ==
    /\ shown' = [shown EXCEPT !.live = live.seq]
    /\ UNCHANGED <<files, live, backfill, day>>

LiveCleared ==
    /\ live' = [live EXCEPT !.pending = FALSE]
    /\ UNCHANGED <<files, backfill, shown, day>>

-----------------------------------------------------------------------------
(* Requested days.                                                         *)

(* TelemSwc_OnBackfillRequest: refused while a transfer is running. *)
OnBackfillRequest(payload) ==
    LET dates == ParseBackfillRequest(payload)
    IN /\ backfill' = IF backfill.active \/ dates = <<>> THEN backfill
                      ELSE [dates |-> dates, current |-> 0, chunk |-> 0,
                            active |-> TRUE, plan |-> [backfill.plan EXCEPT !.count = 0]]
       /\ UNCHANGED <<files, live, shown, day>>

(* The iterations of TelemSwc_ServeBackfill. *)

AllServed ==
    /\ backfill.current = Len(backfill.dates)
    /\ backfill' = [backfill EXCEPT !.active = FALSE]
    /\ UNCHANGED <<files, live, shown, day>>

Size == files[backfill.dates[backfill.current + 1]]

Plan == IF backfill.chunk = 0 THEN ComputeChunkPlan(Size) ELSE backfill.plan

Extent == GetChunkExtent(Plan, backfill.chunk)

(* Bug: the day begins anew. *)
NextDateNever(b) == [b EXCEPT !.chunk = 0]

NextDate(b) == [b EXCEPT !.current = @ + 1, !.chunk = 0]

(* The day is over; broken: it could not be read to its end. *)
DayOver(broken) ==
    /\ day' = [now |-> NoDay, last |-> [day.now EXCEPT !.broken = broken]]
    /\ UNCHANGED <<files, live, shown>>

Pending == backfill.current < Len(backfill.dates)

(* The day was never logged, or its file is empty. *)
SkipDay ==
    /\ Pending /\ backfill.chunk = 0 /\ Size \in {Absent, 0}
    /\ backfill' = NextDate([backfill EXCEPT !.plan = IF Size = 0 THEN NoPlan ELSE @])
    /\ DayOver(Size = Absent)

Planned == backfill.chunk = 0 => Size \notin {Absent, 0}

PastTheEnd ==
    /\ Pending /\ Planned /\ backfill.chunk >= Plan.count
    /\ backfill' = NextDate([backfill EXCEPT !.plan = Plan])
    /\ DayOver(FALSE)

(* Its file is gone, or the card fails. *)
Gone == Pending /\ Size = Absent

ReadFails ==
    /\ Pending /\ Planned /\ backfill.chunk < Plan.count
    /\ backfill' = NextDate([backfill EXCEPT !.plan = Plan])
    /\ DayOver(TRUE)

Readable == Pending /\ Planned /\ backfill.chunk < Plan.count /\ Size # Absent

Noted == [day.now EXCEPT !.size = IF backfill.chunk = 0 THEN Size ELSE @]

(* A chunk is published again until the client accepts it. *)
ChunkRefused ==
    /\ Readable
    /\ backfill' = [backfill EXCEPT !.plan = Plan]
    /\ day' = [day EXCEPT !.now = Noted]
    /\ UNCHANGED <<files, live, shown>>

(* What there is to read of it. *)
Read == IF Size - Extent.offset < Extent.length THEN Size - Extent.offset ELSE Extent.length

(* The chunk is published as it was read and the next one is due, however  *)
(* little the read brought: a seek that fails is answered as the end of    *)
(* the file, and a read that fails with the bytes before the failure.      *)
ChunkSent(read) ==
    /\ Readable
    /\ backfill' = [backfill EXCEPT !.plan = Plan, !.chunk = @ + 1]
    /\ day' = [day EXCEPT !.now =
                   [Noted EXCEPT !.got = @ + read, !.lost = @ + (Read - read),
                                 !.inOrder = @ /\ Extent.offset = Noted.got + Noted.lost]]
    /\ UNCHANGED <<files, live, shown>>

=============================================================================
