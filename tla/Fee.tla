---------------------------------- MODULE Fee ----------------------------------
(***************************************************************************)
(* The flash EEPROM emulation, services/Fee/Fee.c: two flash sectors used  *)
(* as append-only logs of records, one flash operation per step, with the  *)
(* supply lost or the operation reported as failed at any of them.         *)
(*                                                                         *)
(* A sector is a header (present or not, with its sequence number) and the *)
(* sequence of slots written behind it.  A slot is what the scanner makes  *)
(* of the bytes at its place:                                              *)
(*   valid, invalid   a committed value, a committed invalidation          *)
(*   bare             header parses, state byte not committed              *)
(*   rotten           committed value whose payload CRC no longer matches  *)
(*   junk             header does not parse: nothing behind it is readable *)
(*   dirty            bits programmed, but the six bytes the scanner looks *)
(*                    at still read as erased                              *)
(* Offsets are in units of the write alignment.                            *)
(***************************************************************************)
EXTENDS Integers, Sequences

CONSTANTS
    NBlocks,        \* number of configured blocks, FEE_BLOCK_COUNT
    Span,           \* Span[b]: space of a record of block b, header included
    StubSpan,       \* space of an invalidation record, the shortest payload
    MaxSpan,        \* space of a record of the longest block
    HeaderSize,     \* space of the sector header
    SectorSize,     \* FEE_SECTOR_SIZE
    CounterMod,     \* write counters count modulo this (2^16)
    SequenceMod,    \* sector sequence numbers count modulo this (2^16)
    Values,         \* the payloads callers write
    Absent,         \* what reading a block that holds nothing yields
    Damaged,        \* what reading a block with no usable record yields
    Stub,           \* the payload of an invalidation record
    Environments    \* which calls are made and which faults happen, together

Blocks == 1 .. NBlocks
Sectors == {0, 1}
Threshold == 2 * MaxSpan

CallKinds  == {"write", "invalidate", "collect", "format"}
(* program: Fls_Write fails, bits programmed or not.  erase: Fls_Erase     *)
(* fails.  seal: the write of a sector header fails with every bit         *)
(* programmed.  read: Fls_Read fails.  tear: a torn 0xF0 state byte reads  *)
(* as 0xFC.  rot: a stored payload spoils.                                 *)
FaultKinds == {"program", "erase", "seal", "read", "tear", "rot"}

ASSUME FeeAssumption ==
    /\ NBlocks \in Nat \ {0}
    /\ MaxSpan \in Nat /\ StubSpan \in 1 .. MaxSpan
    /\ Span \in [Blocks -> StubSpan .. MaxSpan]
    /\ HeaderSize \in Nat \ {0}
    /\ SectorSize \in Nat
    /\ HeaderSize + (NBlocks + 1) * MaxSpan + Threshold <= SectorSize
    /\ CounterMod \in Nat /\ SectorSize - HeaderSize - Threshold <= CounterMod \div 2
    /\ SequenceMod \in Nat /\ 4 <= SequenceMod
    /\ {Absent, Damaged, Stub} \cap Values = {}
    /\ Absent # Damaged /\ Stub # Absent /\ Stub # Damaged
    /\ Environments \subseteq [calls : SUBSET CallKinds, faults : SUBSET FaultKinds]

VARIABLES
    env,            \* the environment, the same throughout a behaviour
    media,          \* the two sectors, all that survives a loss of supply
    initialised,    \* Fee_Initialised
    active,         \* Fee_ActiveSector
    sequence,       \* Fee_ActiveSequence
    cursor,         \* Fee_WriteCursor
    poisoned,       \* Fee_SlotPoisoned
    pc,             \* the next flash operation of the call in progress
    call,           \* the call in progress, with its parameters
    cause,          \* why the collection in progress was started
    counter,        \* the write counter chosen for the record being appended
    copying,        \* table index of the block being collected
    copyEnd,        \* targetCursor of the collection
    reply           \* the answer to the last call

vars == <<env, media, initialised, active, sequence, cursor, poisoned, pc, call,
          cause, counter, copying, copyEnd, reply>>
ram == <<initialised, active, sequence, cursor, poisoned>>
gc == <<cause, copying, copyEnd>>

NoHeader == -1
Counters == 0 .. CounterMod - 1
Sequences == 0 .. SequenceMod - 1
WellFormed == {"valid", "invalid", "bare", "rotten"}
Slots == [kind : WellFormed \cup {"junk", "dirty"}, blk : Blocks,
          val : Values \cup {Stub}, counter : Counters, end : HeaderSize + 1 .. SectorSize]
SectorStates == [header : Sequences \cup {NoHeader}, log : Seq(Slots)]
Erased == [header |-> NoHeader, log |-> <<>>]

NoReply   == [status |-> "none",  val |-> Absent]
Done      == [status |-> "ok",    val |-> Absent]
Failed    == [status |-> "error", val |-> Absent]
Answer(v) == [status |-> "value", val |-> v]
Replies   == {NoReply, Done, Failed}
             \cup {Answer(v) : v \in Values \cup {Absent, Damaged}}

NoCall == [kind |-> "none", blk |-> 1, val |-> Stub]
Other(s) == 1 - s
Newer(a, b, mod) == (a - b) % mod \in 1 .. (mod \div 2) - 1
(* Erases and header writes change one field or all of one sector. *)
Log(s) == media[s].log
WithLog(s, log) == [media EXCEPT ![s].log = log]
-----------------------------------------------------------------------------
(***************************************************************************)
(* Scanning.  A view says which reads of one scan fail: the header read at *)
(* slot cut (0: none) and the payload reads of the slots in unread.        *)
(***************************************************************************)
Clean == [cut |-> 0, unread |-> {}]
Views(log) ==
    IF "read" \in env.faults
    THEN [cut : 0 .. Len(log) + 1, unread : SUBSET DOMAIN log]
    ELSE {Clean}

(* The scan reads slot i: every header up to it was read and parsed. *)
Reached(log, i, view) ==
    \A j \in 1 .. i : log[j].kind \in WellFormed /\ j # view.cut

OfKind(log, b, kinds, view) ==
    {i \in DOMAIN log : /\ log[i].blk = b /\ log[i].kind \in kinds
                        /\ Reached(log, i, view)}

(* The slot of C whose counter wins when C is walked in log order: a later *)
(* slot replaces an earlier one only when it is strictly newer.            *)
Winner(log, C) ==
    {i \in C : \A j \in C : i # j =>
        IF j < i THEN Newer(log[i].counter, log[j].counter, CounterMod)
                 ELSE ~Newer(log[j].counter, log[i].counter, CounterMod)}

(* Bug: an invalidation no longer retires the records before it. *)
NewestIgnoringInvalidation(log, b, view) ==
    Winner(log, OfKind(log, b, {"valid"}, view) \ view.unread)

(* Fee_FindNewestRecord: at most one slot, none when the block was never   *)
(* written, was invalidated since, or has no record that verifies.         *)
FindNewestRecord(log, b, view) ==
    {i \in Winner(log, OfKind(log, b, {"valid"}, view) \ view.unread) :
        \A r \in OfKind(log, b, {"invalid"}, view) :
            ~Newer(log[r].counter, log[i].counter, CounterMod)}

(* What Fee_ReadBlock yields; a record too short for its block is refused. *)
ReadValue(log, b, view) ==
    LET found == FindNewestRecord(log, b, view)
        damaged == OfKind(log, b, {"valid", "rotten"}, view) # {}
                   /\ OfKind(log, b, {"invalid"}, view) = {}
    IN  IF found # {}
        THEN LET v == log[CHOOSE i \in found : TRUE].val
             IN  IF v = Stub THEN Damaged ELSE v
        ELSE IF damaged THEN Damaged ELSE Absent

(* Bug: only committed records are counted. *)
NextOfCommitted(log, b, view) ==
    LET top == Winner(log, OfKind(log, b, {"valid", "invalid", "rotten"}, view))
    IN  IF top = {} THEN 1
        ELSE (log[CHOOSE i \in top : TRUE].counter + 1) % CounterMod

(* Fee_HighestCounter, plus one: uncommitted records count as well. *)
NextCounter(log, b, view) ==
    LET top == Winner(log, OfKind(log, b, WellFormed, view))
    IN  IF top = {} THEN 1
        ELSE (log[CHOOSE i \in top : TRUE].counter + 1) % CounterMod

EndOf(log, n) == IF n = 0 THEN HeaderSize ELSE log[n].end

(* Fee_FindWriteCursor: the first free offset, or the end of the sector    *)
(* when a header that does not parse is in the way.                        *)
FindWriteCursor(log, view) ==
    LET free == {i \in DOMAIN log : /\ log[i].kind = "dirty" /\ i # view.cut
                                    /\ Reached(log, i - 1, view)}
    IN  IF free # {} THEN EndOf(log, (CHOOSE i \in free : TRUE) - 1)
        ELSE IF Reached(log, Len(log), view) /\ view.cut # Len(log) + 1
             THEN EndOf(log, Len(log))
             ELSE SectorSize
-----------------------------------------------------------------------------
(***************************************************************************)
(* The slot at the write cursor.                                           *)
(***************************************************************************)
Occupied(log) == log # <<>> /\ log[Len(log)].end > cursor
Kept(log) == IF Occupied(log) THEN SubSeq(log, 1, Len(log) - 1) ELSE log
Place(log, slot) == Append(Kept(log), slot)
Lost(kind, end) ==
    [kind |-> kind, blk |-> 1, val |-> Stub, counter |-> 0, end |-> end]

RecordSpan == IF call.kind = "invalidate" THEN StubSpan ELSE Span[call.blk]
Record(kind) == [kind |-> kind, blk |-> call.blk,
                 val |-> IF call.kind = "invalidate" THEN Stub ELSE call.val,
                 counter |-> counter, end |-> cursor + RecordSpan]
Fits == cursor + RecordSpan <= SectorSize
FinalKind == IF call.kind = "invalidate" THEN "invalid" ELSE "valid"
(* The slot can still take a header: nothing there, or stray bits that the *)
(* header happens to cover.                                                *)
Writable == Occupied(Log(active)) => Log(active)[Len(Log(active))].kind = "dirty"

SpanOf(slot) == IF slot.val = Stub THEN StubSpan ELSE Span[slot.blk]
-----------------------------------------------------------------------------
(***************************************************************************)
(* What the flash operation at pc may leave behind when it does not        *)
(* complete.                                                               *)
(***************************************************************************)
TornErase(s) ==
    {[media EXCEPT ![s] = sector] :
        sector \in {media[s], Erased,
                    [header |-> media[s].header, log |-> <<Lost("junk", SectorSize)>>],
                    [header |-> NoHeader, log |-> <<Lost("junk", SectorSize)>>]}}

Sealed(s, seq) == [media EXCEPT ![s].header = seq]
(* Bugs: the copy keeps the number of its source; the number outgrows its *)
(* sixteen bits.                                                           *)
SameSequence == sequence
WideSequence == sequence + 1
NextSequence == (sequence + 1) % SequenceMod

Torn ==
    CASE pc = "header" /\ Fits ->
            {WithLog(active, Place(Log(active), slot)) :
                slot \in {Lost("junk", cursor + RecordSpan)} \cup
                    (IF Writable
                     THEN {Lost("dirty", cursor + RecordSpan), Record("bare")}
                     ELSE {})}
      [] pc = "commit" ->
            {WithLog(active, Place(Log(active), Record(kind))) :
                kind \in {FinalKind} \cup
                    (IF "tear" \in env.faults THEN {"valid"} ELSE {})}
      [] pc \in {"eraseTarget", "reclaim", "dropLoser"} -> TornErase(Other(active))
      [] pc = "copy" ->
            {WithLog(Other(active), Append(Log(Other(active)), Lost("junk", SectorSize)))}
      [] pc = "formatFirst"  -> TornErase(0)
      [] pc = "formatSecond" -> TornErase(1)
      [] OTHER -> {}

Sealing ==
    CASE pc = "seal"         -> {Sealed(Other(active), NextSequence)}
      [] pc = "formatHeader" -> {Sealed(0, 1)}
      [] OTHER -> {}

AfterLoss    == {media} \cup Torn \cup Sealing
AfterFailure == {media} \cup Torn \cup
                (IF "seal" \in env.faults THEN Sealing ELSE {})

(* The call returns; its local variables go out of scope. *)
Finish(answer) ==
    /\ pc' = "idle"
    /\ call' = NoCall
    /\ reply' = answer
    /\ counter' = 0
    /\ cause' = "direct" /\ copying' = 1 /\ copyEnd' = HeaderSize
-----------------------------------------------------------------------------
(***************************************************************************)
(* Fee_Init and Fee_Format.                                                *)
(***************************************************************************)
Init ==
    /\ env \in Environments
    /\ media = [s \in Sectors |-> Erased]
    /\ initialised = FALSE /\ active = 0 /\ sequence = 0 /\ cursor = HeaderSize
    /\ poisoned = FALSE
    /\ pc = "off" /\ call = NoCall /\ cause = "direct" /\ counter = 0
    /\ copying = 1 /\ copyEnd = HeaderSize
    /\ reply = NoReply

(* The sector headers are read and the active sector chosen. *)
ChooseSector ==
    /\ pc = "off"
    /\ \E unread \in IF "read" \in env.faults THEN SUBSET Sectors ELSE {{}} :
        LET good == {s \in Sectors : media[s].header # NoHeader} \ unread
            newest == IF good # Sectors THEN CHOOSE s \in good : TRUE
                      ELSE IF Newer(media[1].header, media[0].header, SequenceMod)
                           THEN 1 ELSE 0
        IN  IF good = {}
            THEN pc' = "formatFirst" /\ UNCHANGED <<active, sequence>>
            ELSE /\ active' = newest
                 /\ sequence' = media[newest].header
                 /\ pc' = IF good = Sectors THEN "dropLoser" ELSE "mount"
    /\ UNCHANGED <<env, media, initialised, cursor, poisoned, call, counter, gc, reply>>

(* The loser of two valid sectors is erased; a failure is not fatal. *)
DropLoser ==
    /\ pc = "dropLoser"
    /\ \/ media' = [media EXCEPT ![Other(active)] = Erased]
       \/ "erase" \in env.faults /\ media' \in AfterFailure
    /\ pc' = "mount"
    /\ UNCHANGED <<env, ram, call, counter, gc, reply>>

Mount ==
    /\ pc = "mount"
    /\ \E view \in Views(Log(active)) : cursor' = FindWriteCursor(Log(active), view)
    /\ poisoned' = FALSE
    /\ initialised' = TRUE
    /\ pc' = "idle"
    /\ UNCHANGED <<env, media, active, sequence, call, counter, gc, reply>>

FormatErase ==
    /\ \/ /\ pc = "formatFirst"
          /\ media' = [media EXCEPT ![0] = Erased]
          /\ pc' = "formatSecond"
       \/ /\ pc = "formatSecond"
          /\ media' = [media EXCEPT ![1] = Erased]
          /\ pc' = "formatHeader"
    /\ UNCHANGED <<env, ram, call, counter, gc, reply>>

FormatSeal ==
    /\ pc = "formatHeader"
    /\ media' = Sealed(0, 1)
    /\ active' = 0 /\ sequence' = 1 /\ cursor' = HeaderSize
    /\ poisoned' = FALSE /\ initialised' = TRUE
    /\ Finish(IF call.kind = "format" THEN Done ELSE reply)
    /\ UNCHANGED env

(* Fee_Format gives up; called from Fee_Init it leaves Fee unmounted. *)
FormatFails ==
    /\ \/ pc \in {"formatFirst", "formatSecond"} /\ "erase" \in env.faults
       \/ pc = "formatHeader" /\ "program" \in env.faults
    /\ media' \in AfterFailure
    /\ Finish(IF call.kind = "format" THEN Failed ELSE reply)
    /\ UNCHANGED <<env, ram>>
-----------------------------------------------------------------------------
(***************************************************************************)
(* Fee_GarbageCollect: erase the other sector, copy the newest record of   *)
(* every block into it, seal it with the next sequence number, reclaim.    *)
(***************************************************************************)
Collect(why) ==
    /\ cause' = why
    /\ pc' = "eraseTarget"
    /\ UNCHANGED <<copying, copyEnd>>

(* Bug: what an interrupted collection left in the target stays there. *)
KeepTarget ==
    /\ pc = "eraseTarget"
    /\ copying' = 1
    /\ copyEnd' = HeaderSize
    /\ pc' = "copy"
    /\ UNCHANGED <<env, media, ram, call, cause, counter, reply>>

EraseTarget ==
    /\ pc = "eraseTarget"
    /\ media' = [media EXCEPT ![Other(active)] = Erased]
    /\ copying' = 1
    /\ copyEnd' = HeaderSize
    /\ pc' = "copy"
    /\ UNCHANGED <<env, ram, call, cause, counter, reply>>

(* One turn of the loop over the block table.  A block with nothing that   *)
(* can be read is passed over; one that does not fit ends the loop.        *)
CopyBlock ==
    /\ pc = "copy"
    /\ \E view \in Views(Log(active)) :
        LET found == FindNewestRecord(Log(active), copying, view)
            slot == Log(active)[CHOOSE i \in found : TRUE]
            end == copyEnd + SpanOf(slot)
            next == copying + 1
            Pass(n) == /\ copying' = n
                       /\ UNCHANGED <<media, copyEnd>>
        IN  \/ found = {} /\ Pass(next)
            \/ found # {} /\ "read" \in env.faults /\ Pass(next)
            \/ found # {} /\ end > SectorSize /\ Pass(NBlocks + 1)
            \/ /\ found # {} /\ end <= SectorSize
               /\ media' = WithLog(Other(active),
                     Append(Log(Other(active)), [slot EXCEPT !.end = end]))
               /\ copyEnd' = end
               /\ copying' = next
    /\ pc' = IF copying' > NBlocks THEN "seal" ELSE "copy"
    /\ UNCHANGED <<env, ram, call, cause, counter, reply>>

Seal ==
    /\ pc = "seal"
    /\ media' = Sealed(Other(active), NextSequence)
    /\ active' = Other(active)
    /\ sequence' = NextSequence
    /\ cursor' = copyEnd
    /\ pc' = "reclaim"
    /\ UNCHANGED <<env, initialised, poisoned, call, counter, gc, reply>>

(* The old sector is erased, which may fail without consequence, and the   *)
(* call that wanted the space goes on.                                     *)
Reclaim ==
    /\ pc = "reclaim"
    /\ \/ media' = [media EXCEPT ![Other(active)] = Erased]
       \/ "erase" \in env.faults /\ media' \in AfterFailure
    /\ poisoned' = (poisoned /\ cause # "poison")
    /\ IF cause = "direct" THEN Finish(Done)
       ELSE /\ pc' = CASE cause = "poison" -> "admit"
                       [] cause = "early"  -> "number"
                       [] cause = "retry"  -> "header"
            /\ copying' = 1 /\ copyEnd' = HeaderSize
            /\ UNCHANGED <<call, counter, cause, reply>>
    /\ UNCHANGED <<env, initialised, active, sequence, cursor>>

CollectFails ==
    /\ \/ pc = "eraseTarget" /\ "erase" \in env.faults
       \/ /\ pc = "copy" /\ "program" \in env.faults
          /\ FindNewestRecord(Log(active), copying, Clean) # {}
       \/ pc = "seal" /\ "program" \in env.faults
    /\ media' \in AfterFailure
    /\ Finish(Failed)
    /\ UNCHANGED <<env, ram>>
-----------------------------------------------------------------------------
(***************************************************************************)
(* The calls.  A call made while Fee is not mounted is refused.            *)
(***************************************************************************)
Ready(kind) == pc = "idle" /\ initialised /\ kind \in env.calls

Refuse ==
    /\ pc = "idle" /\ ~initialised
    /\ reply' = Failed
    /\ UNCHANGED <<env, media, ram, pc, call, counter, gc>>

ReadBlock(b) ==
    /\ pc = "idle" /\ initialised
    /\ \E view \in Views(Log(active)) :
        reply' \in {Answer(ReadValue(Log(active), b, view))} \cup
                   (IF "read" \in env.faults THEN {Answer(Damaged)} ELSE {})
    /\ UNCHANGED <<env, media, ram, pc, call, counter, gc>>

(* Bug: the damaged slot is written again. *)
RetryInPlace(b, v) ==
    /\ Ready("write")
    /\ call' = [kind |-> "write", blk |-> b, val |-> v]
    /\ reply' = NoReply
    /\ pc' = "admit"
    /\ UNCHANGED <<env, media, ram, counter, gc>>

(* Fee_WriteBlock reclaims a damaged slot before anything else. *)
WriteBlock(b, v) ==
    /\ Ready("write")
    /\ call' = [kind |-> "write", blk |-> b, val |-> v]
    /\ reply' = NoReply
    /\ IF poisoned THEN Collect("poison") ELSE pc' = "admit" /\ UNCHANGED gc
    /\ UNCHANGED <<env, media, ram, counter>>

InvalidateBlock(b) ==
    /\ Ready("invalidate")
    /\ call' = [kind |-> "invalidate", blk |-> b, val |-> Stub]
    /\ reply' = NoReply
    /\ pc' = "admit"
    /\ UNCHANGED <<env, media, ram, counter, gc>>

GarbageCollect ==
    /\ Ready("collect")
    /\ call' = [NoCall EXCEPT !.kind = "collect"]
    /\ reply' = NoReply
    /\ Collect("direct")
    /\ UNCHANGED <<env, media, ram, counter>>

Format ==
    /\ Ready("format")
    /\ call' = [NoCall EXCEPT !.kind = "format"]
    /\ reply' = NoReply
    /\ pc' = "formatFirst"
    /\ UNCHANGED <<env, media, ram, counter, gc>>

(* Bug: the check leaves out the record that is about to be written. *)
AdmitUnlessFull ==
    /\ pc = "admit"
    /\ IF cursor > SectorSize
       THEN Collect("early")
       ELSE pc' = "number" /\ cause' = "direct" /\ UNCHANGED <<copying, copyEnd>>
    /\ UNCHANGED <<env, media, ram, call, counter, reply>>

(* The sector is collected early, while it still has room to spare. *)
Admit ==
    /\ pc = "admit"
    /\ IF cursor + Span[call.blk] + Threshold > SectorSize
       THEN Collect("early")
       ELSE pc' = "number" /\ cause' = "direct" /\ UNCHANGED <<copying, copyEnd>>
    /\ UNCHANGED <<env, media, ram, call, counter, reply>>

Number ==
    /\ pc = "number"
    /\ \E view \in Views(Log(active)) :
        counter' = NextCounter(Log(active), call.blk, view)
    /\ pc' = "header"
    /\ UNCHANGED <<env, media, ram, call, gc, reply>>
-----------------------------------------------------------------------------
(***************************************************************************)
(* Fee_AppendRecord: header, payload, commit.  Nothing of the record is    *)
(* visible before the commit, and the cursor moves with it.                *)
(***************************************************************************)
(* The header goes to the cursor.  When the record does not fit, a write   *)
(* collects once more and tries again.                                     *)
AppendHeader ==
    /\ pc = "header"
    /\ Fits => Writable
    /\ IF Fits
       THEN /\ media' = WithLog(active, Place(Log(active), Record("bare")))
            /\ pc' = "payload"
            /\ UNCHANGED <<call, counter, gc, reply>>
       ELSE /\ IF call.kind = "write" /\ cause # "retry"
               THEN Collect("retry") /\ UNCHANGED <<call, counter, reply>>
               ELSE Finish(Failed)
            /\ UNCHANGED media
    /\ UNCHANGED <<env, ram>>

AppendPayload ==
    /\ pc = "payload"
    /\ pc' = "commit"
    /\ UNCHANGED <<env, media, ram, call, counter, gc, reply>>

Commit ==
    /\ pc = "commit"
    /\ media' = WithLog(active, Place(Log(active), Record(FinalKind)))
    /\ cursor' = cursor + RecordSpan
    /\ Finish(Done)
    /\ UNCHANGED <<env, initialised, active, sequence, poisoned>>

(* Bugs: a failed append is stepped over; a failed append is forgotten. *)
StepOverFailure ==
    /\ \/ pc = "header" /\ Fits /\ ("program" \in env.faults \/ Occupied(Log(active)))
       \/ pc \in {"payload", "commit"} /\ "program" \in env.faults
    /\ media' \in AfterFailure
    /\ cursor' = cursor + RecordSpan
    /\ Finish(Failed)
    /\ UNCHANGED <<env, initialised, active, sequence, poisoned>>
ForgetFailure ==
    /\ \/ pc = "header" /\ Fits /\ ("program" \in env.faults \/ Occupied(Log(active)))
       \/ pc \in {"payload", "commit"} /\ "program" \in env.faults
    /\ media' \in AfterFailure
    /\ Finish(Failed)
    /\ UNCHANGED <<env, ram>>

(* A flash write failed: the slot at the cursor cannot be trusted again.   *)
(* It must fail when the slot already holds another header.                *)
AppendFails ==
    /\ \/ pc = "header" /\ Fits /\ ("program" \in env.faults \/ Occupied(Log(active)))
       \/ pc \in {"payload", "commit"} /\ "program" \in env.faults
    /\ media' \in AfterFailure
    /\ poisoned' = TRUE
    /\ Finish(Failed)
    /\ UNCHANGED <<env, initialised, active, sequence, cursor>>
-----------------------------------------------------------------------------
(***************************************************************************)
(* The environment.                                                        *)
(***************************************************************************)
PowerLoss ==
    /\ pc # "off"
    /\ media' \in AfterLoss
    /\ initialised' = FALSE /\ active' = 0 /\ sequence' = 0
    /\ cursor' = HeaderSize /\ poisoned' = FALSE
    /\ pc' = "off" /\ call' = NoCall /\ cause' = "direct" /\ counter' = 0
    /\ copying' = 1 /\ copyEnd' = HeaderSize
    /\ reply' = NoReply
    /\ UNCHANGED env

(* A stored payload spoils, between calls or while the unit is off; one    *)
(* record at a time, the next when a collection has dropped the last.      *)
Rot ==
    /\ "rot" \in env.faults /\ pc \in {"idle", "off"}
    /\ \A s \in Sectors : \A i \in DOMAIN Log(s) : Log(s)[i].kind # "rotten"
    /\ \E s \in Sectors : \E i \in DOMAIN Log(s) :
        /\ Log(s)[i].kind = "valid"
        /\ media' = WithLog(s, [Log(s) EXCEPT ![i].kind = "rotten"])
    /\ UNCHANGED <<env, ram, pc, call, counter, gc, reply>>

Starting == ChooseSector \/ DropLoser \/ Mount
Formatting == FormatErase \/ FormatSeal \/ FormatFails
Collecting == EraseTarget \/ CopyBlock \/ Seal \/ Reclaim \/ CollectFails
Appending ==
    Admit \/ Number \/ AppendHeader \/ AppendPayload \/ Commit
    \/ AppendFails
Calling ==
    \/ \E b \in Blocks : ReadBlock(b) \/ InvalidateBlock(b)
    \/ \E b \in Blocks, v \in Values : WriteBlock(b, v)
    \/ GarbageCollect \/ Format \/ Refuse

Next ==
    Starting \/ Formatting \/ Collecting \/ Appending \/ Calling
    \/ PowerLoss \/ Rot

Spec == Init /\ [][Next]_vars

(* A call runs to its end once it is made, and NvM_MainFunction tries a    *)
(* block that is still dirty again on every activation, whatever other     *)
(* calls come in between: its turn comes, but Fee is not idle all along.   *)
Fairness ==
    /\ WF_vars(Starting \/ Formatting \/ Collecting \/ Appending)
    /\ SF_vars(\E b \in Blocks, v \in Values : WriteBlock(b, v))
FairSpec == Spec /\ Fairness
-----------------------------------------------------------------------------
(***************************************************************************)
(* The store a caller sees: what the next start would read from the media. *)
(***************************************************************************)
BootSectors ==
    LET good == {s \in Sectors : media[s].header # NoHeader}
    IN  {s \in good :
            Other(s) \in good => Newer(media[s].header, media[Other(s)].header,
                                       SequenceMod)}

(* A damaged block holds nothing its owner can use. *)
Usable(log, b) ==
    LET v == ReadValue(log, b, Clean) IN IF v = Damaged THEN Absent ELSE v

BootLogs == {Log(s) : s \in BootSectors}

BootValues ==
    [b \in Blocks |->
        IF BootLogs = {} THEN Absent
        ELSE CHOOSE v \in {Usable(log, b) : log \in BootLogs} : TRUE]

InFlight ==
    CASE call.kind = "write"      -> {[blks |-> {call.blk}, val |-> call.val]}
      [] call.kind = "invalidate" -> {[blks |-> {call.blk}, val |-> Absent]}
      [] call.kind = "format"     -> {[blks |-> Blocks, val |-> Absent]}
      [] OTHER -> {}

Store == INSTANCE DurableStore WITH
            up <- initialised,
            stable <- BootValues,
            request <- InFlight,
            decays <- ("rot" \in env.faults)
-----------------------------------------------------------------------------
PCs == {"off", "mount", "dropLoser", "formatFirst", "formatSecond",
        "formatHeader", "idle", "admit", "number", "header", "payload",
        "commit", "eraseTarget", "copy", "seal", "reclaim"}
CallRecords == [kind : CallKinds \cup {"none"}, blk : Blocks,
                val : Values \cup {Stub}]

(* Type invariant of Fee's RAM and media. *)
TypeOK ==
    /\ media \in [Sectors -> SectorStates]
    /\ initialised \in BOOLEAN
    /\ active \in Sectors
    /\ sequence \in Sequences
    /\ cursor \in HeaderSize .. SectorSize
    /\ poisoned \in BOOLEAN
    /\ pc \in PCs
    /\ call \in CallRecords
    /\ cause \in {"direct", "poison", "early", "retry"}
    /\ counter \in Counters
    /\ copying \in 1 .. NBlocks + 1
    /\ copyEnd \in HeaderSize .. SectorSize
    /\ reply \in Replies

(* Fee implements the durable store: over every interleaving of flash      *)
(* operations, failures and supply losses, an acknowledged write survives, *)
(* an interrupted one is old or new, and reads agree with the media.       *)
Durable == Store!Spec

(* Fee_WriteBlock's early collection leaves room, so that the E_NO_SPACE   *)
(* branch is never taken: a write cannot fail for want of space.           *)
AdmittedFits == pc = "header" => Fits

(* No write is programmed over a slot that already holds another header:   *)
(* the slot a failed append left at the cursor is reclaimed first.         *)
DamageReclaimedFirst == pc = "header" /\ call.kind = "write" => Writable

(* A damaged slot hides whatever lies behind it, so it is always the last  *)
(* of its log, and nothing is appended after it.                           *)
NothingHidden ==
    \A s \in Sectors : \A i \in DOMAIN Log(s) :
        Log(s)[i].kind \in {"junk", "dirty"} => i = Len(Log(s))

(* Two sealed sectors are a collection apart, and the mounted one is the   *)
(* one a restart picks, whatever the sequence numbers have wrapped to.     *)
MountedWins ==
    initialised /\ call.kind # "format" => BootSectors = {active}

(* A committed write that was answered E_OK is what the next start reads,  *)
(* whatever became of the collections before it.                           *)
AckSurvivesReset ==
    [][pc = "commit" /\ call.kind = "write" /\ reply' = Done
        => BootValues'[call.blk] = call.val]_vars

(* Fee_Init formats only a virgin part, or a layout it does not know: a    *)
(* start never wipes blocks that the previous start could read.            *)
FormatOnlyBlank ==
    pc = "formatFirst" /\ call.kind = "none"
        => \A b \in Blocks : BootValues[b] = Absent

(* A fault: the supply goes, or an operation that could have succeeded     *)
(* fails.                                                                  *)
Fault == \/ PowerLoss \/ FormatFails \/ CollectFails
         \/ AppendFails /\ (pc = "header" => Writable)
(* Once the faults stop, writes succeed again: no damage they left behind  *)
(* makes every retry fail.                                                 *)
ServiceResumes ==
    <>[][~Fault]_vars /\ <>[]initialised => []<>(reply = Done)

(* The counters of a block in one log lie within half the counter range,   *)
(* so comparing them modulo 2^16 orders them by age: a wrapped counter     *)
(* never makes an older record the newest.                                 *)
AgeOrder ==
    \A s \in Sectors : \A i, j \in DOMAIN Log(s) :
        /\ i < j
        /\ {Log(s)[i].kind, Log(s)[j].kind} \subseteq WellFormed
        /\ Log(s)[i].blk = Log(s)[j].blk
        => Newer(Log(s)[j].counter, Log(s)[i].counter, CounterMod)
=============================================================================
