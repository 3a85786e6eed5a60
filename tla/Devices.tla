--------------------------------- MODULE Devices ---------------------------------
(***************************************************************************)
(* The vehicle's devices together: motor frames (Can, CanIf), battery      *)
(* packs (Rs485If, BattSwc), position (GnssIf) and the faults they report  *)
(* (Dem, IoHwAb, DiagSwc).                                                 *)
(*                                                                         *)
(* The three measuring chains share no state; what joins them is Dem.  So  *)
(* each behaviour follows one chain up to its reports, or the faults, with *)
(* any monitor reporting at any time.                                      *)
(***************************************************************************)
EXTENDS CanIf, BattSwc, GnssIf, DiagSwc

CONSTANTS
    MaxDenied,   \* bound: the cycles in a row in which the controller is not read
    Monitored    \* bound: the events reported when the faults are followed

(* The two voltage events are reported by IoHwAb_ReadAuxVoltage only. *)
ASSUME DevicesAssumption == MaxDenied \in Nat /\ Monitored \subseteq Events \ VoltageEvents

VARIABLES
    env,      \* what this behaviour follows
    cycle     \* the scheduler's motor cycle: its phase, the frames that
              \* arrived in it, the failures in a row

vars == <<env, cycle, mcp, can, mcu, stale, unknown, reader, fed, bus, packs, poll, batt, record,
          receiver, gnss, taker, sky, dem, diag, flash, shown>>

motorVars == <<cycle, mcp, can, mcu, stale, unknown, reader, fed>>
packVars == <<bus, packs, poll, batt, record>>
positionVars == <<receiver, gnss, taker, sky>>
faultVars == <<dem, diag, flash, shown>>

Init ==
    /\ env \in {"motor", "packs", "position", "faults"}
    /\ cycle = [phase |-> "idle", arrived |-> 0, denied |-> 0]
    /\ CanInit /\ CanIfInit
    /\ Rs485Init /\ BattInit
    /\ GnssInit
    /\ dem = DemInit /\ DiagInit
    /\ env # "motor" => can.state = "started"
    /\ env # "packs" => bus.on = {} /\ bus.fitted = CHOOSE f \in Fittings : TRUE
    /\ env # "position" => gnss.at = "off" /\ receiver.place = CHOOSE p \in Places : TRUE

(* A monitor of a chain reports, or has nothing to report; what Dem makes  *)
(* of any report at any time is followed with the faults.                  *)
Statuses == {"nothing", "failed", "passed"}

-----------------------------------------------------------------------------
(* The motor chain: the scheduler reads the controller and decodes in one  *)
(* cycle; the acquisition and storage tasks take copies at any time.       *)
(*                                                                         *)
(* The readers' steps touch nothing that the reading of the controller and *)
(* the bus touch, nor the other way round, so they are put in one order:   *)
(* the bus before and while the controller is read, the readers while and  *)
(* after frames are decoded.                                               *)

ReadEnds(failed) ==
    cycle' = [phase |-> "decode", arrived |-> 0, denied |-> IF failed THEN cycle.denied + 1 ELSE 0]

MayFail == cycle.denied < MaxDenied

CanRead ==
    /\ cycle.phase = "read"
    /\ \/ ReadFlags /\ UNCHANGED cycle
       \/ NotStarted /\ ReadEnds(FALSE)
       \/ MayFail /\ BusDenied /\ ReadEnds(TRUE)
       \/ ReadFrame /\ UNCHANGED cycle
       \/ \E failed \in BOOLEAN : (failed => MayFail) /\ ReadErrors(failed) /\ ReadEnds(failed)
    /\ UNCHANGED canIfVars

DecodeStep ==
    /\ cycle.phase = "decode"
    /\ \/ Decode /\ UNCHANGED cycle
       \/ /\ can.queue = <<>> /\ \A r \in Readers : reader[r].at = "idle"
          /\ cycle' = [cycle EXCEPT !.phase = "idle"]
          /\ UNCHANGED <<canVars, canIfVars>>

(* Arrivals while the controller is read are counted. *)
Bus ==
    /\ \/ cycle.phase = "idle" /\ UNCHANGED cycle
       \/ cycle.phase = "read" /\ cycle.arrived < Arrivals
          /\ cycle' = [cycle EXCEPT !.arrived = @ + 1]
    /\ \E f \in Traffic : Arrive(f)
    /\ UNCHANGED canIfVars

MotorTick ==
    /\ cycle.phase = "idle"
    /\ cycle' = [cycle EXCEPT !.phase = "read"]
    /\ CanAges /\ CanIfAges

GetMcuData(r) ==
    /\ cycle.phase = "decode"
    /\ \/ CopySpeed(r) \/ Feed(r)
       \/ \E status \in Statuses : Judge(r, status) \/ ReportStale(r, status)
    /\ UNCHANGED <<cycle, canVars>>

MotorNext ==
    /\ env = "motor"
    /\ \/ CanRead \/ DecodeStep \/ Bus \/ MotorTick
       \/ \E r \in Readers : GetMcuData(r)
    /\ UNCHANGED <<env, packVars, positionVars, faultVars>>

-----------------------------------------------------------------------------
(* The battery chain.  The packs are discovered before the tasks start.    *)

Discovery == {"off", "switch", "ask", "again", "last"}

PacksNext ==
    /\ env = "packs"
    /\ \/ (Discover \/ SwitchOne \/ AskSerial \/ SwitchOff) /\ UNCHANGED battVars
       \/ SwitchPresent /\ BattStarts
       \/ StartRound /\ CopiesAge
       \/ (\E kind \in {"pack", "cell"} : Read(kind)) /\ UNCHANGED battVars
       \/ CopyPack /\ ~(record.crossed /\ record.slot = poll.slot)
       \/ SumUp \/ \E status \in Statuses : ReportPack(status) \/ ReportMissing(status)
       \/ poll.at \notin Discovery /\ (ReadFlag \/ ReadValues) /\ UNCHANGED rs485Vars
    /\ UNCHANGED <<env, motorVars, positionVars, faultVars>>

-----------------------------------------------------------------------------
(* The position chain. *)

PositionNext ==
    /\ env = "position"
    /\ \/ \E s \in Spoken : ReadSentence(s)
       \/ (\E status \in Statuses : EndCycle(status)) \/ GnssTick
       \/ CopyLatitude \/ CopyLongitude \/ Publish \/ Recorded
    /\ UNCHANGED <<env, motorVars, packVars, faultVars>>

-----------------------------------------------------------------------------
(* Faults.                                                                 *)

AnyReport ==
    /\ diag.at # "off"
    /\ \E c \in Counts :
          \/ \E e \in Monitored, s \in {"failed", "passed"} :
                 Reported(SetEventStatus(dem, e, s, c))
          \/ Reported(MeasureVoltage(c))
    /\ UNCHANGED <<diag, flash>>

FaultsNext ==
    /\ env = "faults"
    /\ \/ AnyReport \/ NoteConfirmed \/ ServeClear \/ CycleStarts
       \/ \E ok \in BOOLEAN : WriteFaults(ok) \/ AnswerClear(ok) \/ DiagStop(ok)
       \/ \E ok \in BOOLEAN, c \in Counts : DiagStart(ok, c)
    /\ UNCHANGED <<env, motorVars, packVars, positionVars>>

Next == MotorNext \/ PacksNext \/ PositionNext \/ FaultsNext

Spec == Init /\ [][Next]_vars

-----------------------------------------------------------------------------
(* Every variable keeps to its type. *)
TypeOK ==
    /\ cycle \in [phase : {"idle", "read", "decode"}, arrived : 0 .. Arrivals, denied : 0 .. MaxDenied]
    /\ CanTypeOK /\ CanIfTypeOK /\ Rs485TypeOK /\ BattTypeOK /\ GnssTypeOK
    /\ DemTypeOK /\ DiagTypeOK

(* Motor data (Can.c, CanIf.c): whatever passes the acceptance filters is  *)
(* decoded as one of the two frames, whose registers give the identifiers  *)
(* back; the driver's queue never overflows; and the speed the odometer is *)
(* given was measured no longer ago than the signal timeout and the cycles *)
(* in which the shared SPI bus could not be had, unless a new frame came   *)
(* while it was being copied. *)
MotorSound ==
    /\ ~unknown
    /\ ~can.dropped
    /\ fed.moved \/ fed.age < SignalTimeout + MaxDenied + 1

(* Battery data (Rs485If.c, BattSwc.c): no two slots claim one pack; a     *)
(* valid reading is the slot's own pack's answer of this round or, before  *)
(* the pack is read again, the last; what a record shows for a slot is     *)
(* that pack's, at most one round older, even when the copies are          *)
(* rewritten while it is formatted; and the vehicle's totals are taken     *)
(* over the last round's answers only. *)
PacksSound ==
    /\ \A s, t \in Present : packs[s].serial = packs[t].serial => s = t
    /\ \A s \in Slots : \A reading \in {packs[s].pack, packs[s].cell, batt.states[s].pack} :
           reading.valid => reading.from = packs[s].serial /\ reading.age <= 1
    /\ record.written.valid => /\ record.written.from = packs[record.slot].serial
                               /\ record.written.age <= 2
    /\ \A reading \in batt.sum.over \cup batt.sum.cells :
           reading.valid /\ reading.age = IF poll.at \in {"idle", "report"} THEN 0 ELSE 1

(* Position (GnssIf.c): no damaged sentence becomes the position; what is  *)
(* published is one position, not two halves, and not older than the fix   *)
(* timeout, unless a new one came while it was copied; and a wrong         *)
(* position that was adopted does not lock the true one out: the filter    *)
(* gives way after the cycles the distance takes. *)
PositionSound ==
    /\ gnss.pos.valid => gnss.pos.genuine
    /\ taker.at = "published" /\ ~taker.moved =>
           taker.lat = taker.lon /\ taker.lat.age < FixTimeout
    /\ gnss.at = "idle" /\ sky >= Patience =>
           gnss.pos.valid /\ gnss.pos.lat = receiver.place /\ gnss.pos.lon = receiver.place

(* Faults (Dem.c, DiagSwc.c): an event is shown as confirmed or stored     *)
(* only if it failed as often as its threshold asks since it was last      *)
(* cleared, over any number of restarts and failed writes; and a stored    *)
(* fault whose threshold the replay reaches stays stored until it is       *)
(* cleared or the block is unreadable. *)
FaultsSound ==
    /\ Confirmed(dem) \cup flash \subseteq shown.earned
    /\ {e \in shown.kept : Threshold[e] <= Replays} \subseteq flash

=============================================================================
