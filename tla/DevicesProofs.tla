------------------------------ MODULE DevicesProofs ------------------------------
(***************************************************************************)
(* Theorems about Devices.tla: the motor data, the battery data, the       *)
(* position and the faults, for every value of the constants.              *)
(***************************************************************************)
EXTENDS Devices, TLAPS, WellFoundedInduction, FiniteSetTheorems

-----------------------------------------------------------------------------
(***************************************************************************)
(* MotorSound for every queue depth, number of frames per cycle, signal    *)
(* timeout and traffic: whatever is decoded is one of the two frames, no   *)
(* frame is dropped, and the odometer is not given an old speed.           *)
(*                                                                         *)
(* The argument follows the age of a drive frame: in the controller it is  *)
(* at most the cycles in a row that were denied, because a cycle that      *)
(* succeeds leaves only frames that arrived during it; in the queue it is  *)
(* one more than the longest denial; in the data it grows with the stamp.  *)
(***************************************************************************)

Frames == [regs : Filters, remote : BOOLEAN, short : BOOLEAN, age : 0 .. MaxAge]

CanRecords ==
    [state : {"uninit", "started"}, queue : Seq(Frames), sampled : BOOLEAN,
     intf : SUBSET {0, 1}, moved : NoLength .. FramesPerCycle, dropped : BOOLEAN]
Cycles == [phase : {"idle", "read", "decode"}, arrived : 0 .. Arrivals, denied : 0 .. MaxDenied]
Halves == [age : 0 .. MaxAge, stamp : 0 .. SignalTimeout, valid : BOOLEAN]
Copies == [at : {"idle", "judge", "report", "feed"}, age : 0 .. MaxAge, moved : BOOLEAN]

Held2 == (IF mcp[0] = Empty THEN 0 ELSE 1) + (IF mcp[1] = Empty THEN 0 ELSE 1)

(* The controller's buffers and the reading of them.                       *)
MotorTypes ==
    /\ mcp \in [{0, 1} -> Seq(Frames)]
    /\ can \in CanRecords
    /\ cycle \in Cycles
    /\ mcu \in [{"drive", "current"} -> Halves]
    /\ stale \in Nat /\ unknown \in BOOLEAN
    /\ reader \in [Readers -> Copies]
    /\ fed \in [age : 0 .. MaxAge, moved : BOOLEAN]

Limit == cycle.denied + (IF cycle.phase = "read" THEN 1 ELSE 0)

BuffersInv ==
    /\ can.state # "started" => mcp[0] = Empty /\ mcp[1] = Empty /\ can.moved = NoLength
    /\ \A b \in {0, 1} : mcp[b] # Empty => Len(mcp[b]) = 1 /\ mcp[b][1].age <= Limit
    /\ can.sampled =>
          \A b \in {0, 1} : IF b \in can.intf THEN mcp[b] # Empty
                            ELSE mcp[b] # Empty => mcp[b][1].age = 0
    /\ can.sampled => can.moved # NoLength
    /\ cycle.phase # "read" => can.moved = NoLength
    /\ Held2 + can.moved <= 2 + cycle.arrived

QueueInv ==
    /\ ~can.dropped
    /\ cycle.phase = "idle" => can.queue = <<>>
    /\ cycle.phase = "read" => Len(can.queue) <= (IF can.moved = NoLength THEN 0 ELSE can.moved)
    /\ \A i \in 1 .. Len(can.queue) : can.queue[i].age <= MaxDenied + 1

DataInv ==
    /\ ~unknown
    /\ mcu["drive"].valid /\ mcu["drive"].stamp < SignalTimeout =>
           mcu["drive"].age <= mcu["drive"].stamp + MaxDenied + 1
    /\ \A r \in Readers :
           /\ cycle.phase # "decode" => reader[r].at = "idle"
           /\ reader[r].at # "idle" /\ ~reader[r].moved => reader[r].age = mcu["drive"].age
    /\ fed.moved \/ fed.age < SignalTimeout + MaxDenied + 1

MotorInv == MotorTypes /\ BuffersInv /\ QueueInv /\ DataInv

USE DEF CanRecords, Cycles, Halves, Copies

-----------------------------------------------------------------------------

(* The registers of a frame that passes the filters give one of the two    *)
(* identifiers back. *)
LEMMA FiltersDecode ==
    ASSUME NEW regs \in Filters
    PROVE  DecodeIdentifier(regs) \in {CAN_ID_MCU_DRIVE_STATE, CAN_ID_MCU_CURRENT_VOLTAGE}
<1>1. /\ EncodeIdentifier(CAN_ID_MCU_DRIVE_STATE) = <<135, 200, 16, 154>>
      /\ EncodeIdentifier(CAN_ID_MCU_CURRENT_VOLTAGE) = <<135, 200, 16, 141>>
      BY SMT DEF EncodeIdentifier, CAN_ID_MCU_DRIVE_STATE, CAN_ID_MCU_CURRENT_VOLTAGE, Bit16, Bit18, Bit21
<1>2. DecodeIdentifier(<<135, 200, 16, 154>>) = CAN_ID_MCU_DRIVE_STATE
      BY SMT DEF DecodeIdentifier, CAN_ID_MCU_DRIVE_STATE, Bit16, Bit18, Bit21
<1>3. DecodeIdentifier(<<135, 200, 16, 141>>) = CAN_ID_MCU_CURRENT_VOLTAGE
      BY SMT DEF DecodeIdentifier, CAN_ID_MCU_CURRENT_VOLTAGE, Bit16, Bit18, Bit21
<1>4. regs \in {<<135, 200, 16, 154>>, <<135, 200, 16, 141>>}
      BY <1>1 DEF Filters
<1>5. QED BY <1>2, <1>3, <1>4

LEMMA HalfKnown ==
    ASSUME NEW f, f.regs \in Filters
    PROVE  Half(f) \in {"drive", "current"}
BY FiltersDecode DEF Half

LEMMA MotorConstants ==
    /\ FramesPerCycle \in Nat \ {0} /\ QueueDepth \in Nat \ {0} /\ MaxAge \in Nat \ {0}
    /\ Arrivals \in Nat /\ Arrivals + 2 <= FramesPerCycle /\ FramesPerCycle <= QueueDepth
    /\ \A f \in Traffic : f.remote \in BOOLEAN /\ f.short \in BOOLEAN
    /\ SignalTimeout \in Nat \ {0} /\ StaleLimit \in Nat \ {0} /\ SignalTimeout <= MaxAge
    /\ MaxDenied \in Nat
BY CanAssumption, CanIfAssumption, DevicesAssumption

LEMMA OlderAge ==
    ASSUME NEW age \in 0 .. MaxAge
    PROVE  Older(age) \in 0 .. MaxAge /\ Older(age) <= age + 1
BY MotorConstants DEF Older

(* What the invariant depends on. *)
motor == <<cycle, mcp, can, mcu, unknown, reader, fed, stale>>

LEMMA MotorStarts == Init => MotorInv
<1> SUFFICES ASSUME Init PROVE MotorInv
    OBVIOUS
<1>1. /\ mcp = [b \in {0, 1} |-> <<>>]
      /\ cycle = [phase |-> "idle", arrived |-> 0, denied |-> 0]
      /\ mcu = [h \in {"drive", "current"} |-> NoData]
      /\ stale = 0 /\ unknown = FALSE /\ reader = [r \in Readers |-> NoCopy] /\ fed = NoSample
      BY DEF Init, CanInit, CanIfInit, Empty
<1>2. PICK state \in {"uninit", "started"} :
         can = [state |-> state, queue |-> <<>>, sampled |-> FALSE, intf |-> {}, moved |-> NoLength,
                dropped |-> FALSE]
      BY DEF Init, CanInit
<1>3. MotorTypes
  <2>1. mcp \in [{0, 1} -> Seq(Frames)]
        BY <1>1
  <2>2. can \in CanRecords
        BY <1>2, MotorConstants DEF NoLength
  <2>3. cycle \in Cycles
        BY <1>1, MotorConstants
  <2>4. mcu \in [{"drive", "current"} -> Halves]
        BY <1>1, MotorConstants DEF NoData
  <2>5. /\ reader \in [Readers -> Copies]
        /\ fed \in [age : 0 .. MaxAge, moved : BOOLEAN]
        BY <1>1, MotorConstants DEF NoCopy, NoSample
  <2>6. QED BY <1>1, <2>1, <2>2, <2>3, <2>4, <2>5 DEF MotorTypes
<1>4. BuffersInv
      BY <1>1, <1>2 DEF BuffersInv, Empty, Held2, NoLength
<1>5. QueueInv
      BY <1>1, <1>2 DEF QueueInv
<1>6. DataInv
      BY <1>1, MotorConstants DEF DataInv, NoData, NoCopy, NoSample
<1>7. QED BY <1>3, <1>4, <1>5, <1>6 DEF MotorInv

LEMMA MotorStutters ==
    ASSUME MotorInv, UNCHANGED motor
    PROVE  MotorInv'
BY DEF MotorInv, MotorTypes, BuffersInv, Held2, Limit, QueueInv, DataInv, motor

-----------------------------------------------------------------------------
(* Reading the controller.                                                 *)

LEMMA MotorBasics ==
    ASSUME MotorInv
    PROVE  /\ cycle.arrived \in 0 .. Arrivals /\ cycle.denied \in 0 .. MaxDenied
           /\ can.moved \in NoLength .. FramesPerCycle /\ can.moved \in Int /\ NoLength = 0 - 1
           /\ Held2 \in 0 .. 2 /\ Limit \in 0 .. MaxDenied + 1 /\ Limit \in Nat
           /\ can.queue \in Seq(Frames) /\ Len(can.queue) \in Nat
           /\ \A b \in {0, 1} : mcp[b] # Empty =>
                  Len(mcp[b]) = 1 /\ Head(mcp[b]) = mcp[b][1] /\ mcp[b][1] \in Frames
                  /\ mcp[b][1].age \in 0 .. MaxAge /\ mcp[b] = <<mcp[b][1]>>
<1>1. /\ cycle.arrived \in 0 .. Arrivals /\ cycle.denied \in 0 .. MaxDenied
      /\ can.moved \in NoLength .. FramesPerCycle /\ can.queue \in Seq(Frames)
      BY DEF MotorInv, MotorTypes
<1>2. NoLength = 0 - 1 /\ can.moved \in Int /\ Len(can.queue) \in Nat
      BY <1>1, MotorConstants DEF NoLength
<1>3. Held2 \in 0 .. 2
      BY DEF Held2
<1>4. Limit \in 0 .. MaxDenied + 1 /\ Limit \in Nat
      BY <1>1, MotorConstants DEF Limit
<1>5. ASSUME NEW b \in {0, 1}, mcp[b] # Empty
      PROVE  Len(mcp[b]) = 1 /\ Head(mcp[b]) = mcp[b][1] /\ mcp[b][1] \in Frames
             /\ mcp[b][1].age \in 0 .. MaxAge /\ mcp[b] = <<mcp[b][1]>>
  <2>1. mcp[b] \in Seq(Frames) /\ Len(mcp[b]) = 1
        BY <1>5 DEF MotorInv, MotorTypes, BuffersInv
  <2>2. mcp[b][1] \in Frames /\ Head(mcp[b]) = mcp[b][1] /\ mcp[b] = <<mcp[b][1]>>
        BY <2>1
  <2>3. QED BY <2>1, <2>2 DEF Frames
<1>6. QED BY <1>1, <1>2, <1>3, <1>4, <1>5

LEMMA FlagsKeep ==
    ASSUME MotorInv, cycle.phase = "read", ReadFlags, UNCHANGED <<cycle, canIfVars>>
    PROVE  MotorInv'
<1> USE MotorConstants DEF canIfVars
<1>1. MotorTypes'
  <2> DEFINE now == IF can.moved = NoLength THEN 0 ELSE can.moved
  <2>1. Full(mcp) \in SUBSET {0, 1}
        BY DEF Full
  <2>2. now \in NoLength .. FramesPerCycle
        BY DEF MotorInv, MotorTypes, NoLength
  <2>3. can' = [can EXCEPT !.moved = now, !.sampled = TRUE, !.intf = Full(mcp)]
        BY DEF ReadFlags
  <2>4. can' \in CanRecords
        BY <2>1, <2>2, <2>3 DEF MotorInv, MotorTypes
  <2>5. QED BY <2>4 DEF MotorInv, MotorTypes, ReadFlags
<1>2. BuffersInv'
  <2>1. /\ can'.intf = {b \in {0, 1} : mcp[b] # Empty} /\ can'.sampled
        /\ can'.state = can.state /\ can.state = "started"
        BY DEF MotorInv, MotorTypes, ReadFlags, Full
  <2>2. can'.moved = IF can.moved = NoLength THEN 0 ELSE can.moved
        BY DEF MotorInv, MotorTypes, ReadFlags
  <2>3. Held2 <= 2 /\ Held2 \in Nat
        BY DEF Held2
  <2>4. Held2' = Held2 /\ Limit' = Limit
        BY DEF Held2, Limit, ReadFlags
  <2>5. mcp' = mcp /\ cycle' = cycle
        BY DEF ReadFlags
  <2>6. \A b \in {0, 1} : IF b \in can'.intf THEN mcp[b] # Empty
                          ELSE mcp[b] # Empty => mcp[b][1].age = 0
        BY <2>1
  <2>7. Held2 + can'.moved <= 2 + cycle.arrived /\ can'.moved # NoLength
    <3>1. cycle.arrived \in Nat /\ can.moved \in Int
          BY DEF MotorInv, MotorTypes, NoLength
    <3>2. Held2 + can.moved <= 2 + cycle.arrived /\ NoLength = 0 - 1
          BY DEF MotorInv, BuffersInv, NoLength
    <3>3. can.moved \in NoLength .. FramesPerCycle
          BY DEF MotorInv, MotorTypes
    <3>4. QED BY <2>2, <2>3, <3>1, <3>2, <3>3
  <2>8. QED BY <2>1, <2>4, <2>5, <2>6, <2>7 DEF MotorInv, BuffersInv
<1>3. QueueInv'
      BY DEF MotorInv, MotorTypes, QueueInv, ReadFlags, NoLength
<1>4. DataInv'
      BY DEF MotorInv, DataInv
<1>5. QED BY <1>1, <1>2, <1>3, <1>4 DEF MotorInv

LEMMA FrameKeeps ==
    ASSUME MotorInv, cycle.phase = "read", ReadFrame, UNCHANGED <<cycle, canIfVars>>
    PROVE  MotorInv'
<1> USE MotorConstants, MotorBasics DEF canIfVars
<1> DEFINE b == IF 0 \in can.intf THEN 0 ELSE 1
           f == Head(mcp[b])
<1>1. b \in {0, 1} /\ b \in can.intf /\ mcp[b] # Empty /\ can.moved \in 0 .. FramesPerCycle - 1
  <2>1. can.intf \in SUBSET {0, 1} /\ can.intf # {} /\ can.sampled /\ can.moved < FramesPerCycle
        BY DEF MotorInv, MotorTypes, ReadFrame
  <2>2. b \in {0, 1} /\ b \in can.intf
        BY <2>1
  <2>3. \A x \in {0, 1} : x \in can.intf => mcp[x] # Empty
        BY <2>1 DEF MotorInv, BuffersInv
  <2>4. can.moved # NoLength
        BY <2>1 DEF MotorInv, BuffersInv
  <2>5. can.moved \in 0 .. FramesPerCycle - 1
    <3>1. can.moved \in (0 - 1) .. FramesPerCycle
          BY ONLY MotorInv DEF MotorInv, MotorTypes, NoLength, CanRecords
    <3>2. FramesPerCycle \in Nat /\ can.moved < FramesPerCycle
          BY ONLY <2>1, MotorConstants
    <3>3. QED BY ONLY <3>1, <3>2, <2>4 DEF NoLength
  <2> HIDE DEF b
  <2>6. QED BY ONLY <2>2, <2>3, <2>5
<1>2. f = mcp[b][1] /\ f \in Frames /\ f.age <= MaxDenied + 1 /\ f.remote \in BOOLEAN
  <2>1. f = mcp[b][1] /\ f \in Frames
        BY <1>1
  <2>2. mcp[b][1].age <= Limit
        BY <1>1 DEF MotorInv, BuffersInv
  <2>3. QED BY <1>1, <2>1, <2>2 DEF Frames
<1>3. Len(can.queue) <= can.moved /\ Len(can.queue) < QueueDepth
      BY <1>1 DEF MotorInv, QueueInv
<1> DEFINE q == IF f.remote THEN can.queue ELSE Append(can.queue, f)
<1>4. can' = [can EXCEPT !.queue = q, !.moved = @ + 1, !.sampled = FALSE, !.intf = {}]
  <2>1. QueuePush(can, f) = [can EXCEPT !.queue = Append(can.queue, f)]
        BY SMTT(30), <1>3 DEF QueuePush
  <2>2. can' = [(IF f.remote THEN can ELSE QueuePush(can, f)) EXCEPT
                   !.moved = @ + 1, !.sampled = FALSE, !.intf = {}]
        BY DEF ReadFrame
  <2>3. can \in CanRecords
        BY DEF MotorInv, MotorTypes
  <2> HIDE DEF f
  <2>4. CASE f.remote
        BY ONLY <2>2, <2>3, <2>4
  <2>5. CASE ~f.remote
        BY ONLY <2>1, <2>2, <2>3, <2>5
  <2>6. QED BY <2>4, <2>5
<1>5. mcp' = [mcp EXCEPT ![b] = Empty]
      BY DEF ReadFrame
<1>6. q \in Seq(Frames) /\ Len(q) <= can.moved + 1 /\ \A i \in 1 .. Len(q) : q[i].age <= MaxDenied + 1
  <2>1. \A i \in 1 .. Len(can.queue) : can.queue[i].age <= MaxDenied + 1
        BY DEF MotorInv, QueueInv
  <2> HIDE DEF f
  <2>2. CASE f.remote
        BY SMTT(30), <1>3, <2>1, <2>2
  <2>3. CASE ~f.remote
    <3>1. can.queue \in Seq(Frames) /\ q = Append(can.queue, f) /\ Len(q) = Len(can.queue) + 1
          BY <1>2, <2>3
    <3>2. \A i \in 1 .. Len(q) : q[i] = IF i = Len(can.queue) + 1 THEN f ELSE can.queue[i]
          BY SMTT(30), <1>2, <3>1
    <3>3. q \in Seq(Frames)
          BY <1>2, <3>1
    <3>4. QED BY SMTT(30), <1>2, <1>3, <2>1, <3>1, <3>2, <3>3
  <2>4. QED BY <2>2, <2>3
<1> HIDE DEF q, f
<1>7. MotorTypes'
  <2>1. mcp' \in [{0, 1} -> Seq(Frames)]
    <3>1. mcp \in [{0, 1} -> Seq(Frames)] /\ Empty \in Seq(Frames)
          BY DEF MotorInv, MotorTypes, Empty
    <3>2. QED BY <1>1, <1>5, <3>1
  <2>2. can' \in CanRecords
    <3>1. can \in CanRecords
          BY DEF MotorInv, MotorTypes
    <3>2. can.moved + 1 \in NoLength .. FramesPerCycle /\ q \in Seq(Frames)
          BY SMTT(30), <1>1, <1>6
    <3>3. QED BY ONLY <1>4, <3>1, <3>2
  <2>3. QED BY <2>1, <2>2 DEF MotorInv, MotorTypes
<1>8. BuffersInv'
  <2>1. mcp'[b] = Empty /\ \A x \in {0, 1} : x # b => mcp'[x] = mcp[x]
        BY <1>1, <1>5 DEF MotorInv, MotorTypes
  <2>2. can'.state = can.state /\ ~can'.sampled /\ can'.moved = can.moved + 1 /\ can'.intf = {}
        BY <1>4 DEF MotorInv, MotorTypes
  <2>3. Held2' = Held2 - 1
        BY <1>1, <2>1 DEF Held2
  <2>4. Held2' + can'.moved <= 2 + cycle.arrived
    <3>1. Held2 + can.moved <= 2 + cycle.arrived
          BY DEF MotorInv, BuffersInv
    <3>2. cycle.arrived \in Int /\ can.moved \in Int /\ Held2 \in Int
          BY SMTT(30)
    <3>3. QED BY ONLY <2>2, <2>3, <3>1, <3>2
  <2>5. cycle' = cycle /\ Limit' = Limit
        BY DEF Limit
  <2>6. \A x \in {0, 1} : mcp'[x] # Empty => Len(mcp'[x]) = 1 /\ mcp'[x][1].age <= Limit
        BY <2>1 DEF MotorInv, BuffersInv
  <2>7. can'.state = "started"
        BY <1>1, <2>2 DEF MotorInv, BuffersInv
  <2>8. QED BY <2>2, <2>4, <2>5, <2>6, <2>7 DEF BuffersInv
<1>9. QueueInv'
  <2>1. can'.queue = q /\ can'.moved = can.moved + 1 /\ can'.dropped = can.dropped
        BY <1>4 DEF MotorInv, MotorTypes
  <2>2. can'.moved # NoLength
        BY <1>1, <2>1
  <2>3. QED BY <1>6, <2>1, <2>2 DEF MotorInv, QueueInv
<1>10. DataInv'
      BY DEF MotorInv, DataInv
<1>11. QED BY <1>7, <1>8, <1>9, <1>10 DEF MotorInv

(* The reading ends.  If it did not fail, the controller holds only frames *)
(* that arrived during it. *)
LEMMA EndKeeps ==
    ASSUME MotorInv, cycle.phase = "read", NEW failed \in BOOLEAN, ReadEnds(failed),
           failed => MayFail,
           mcp' = mcp, UNCHANGED canIfVars,
           can' \in CanRecords, can'.state = can.state, can'.queue = can.queue,
           can'.dropped = can.dropped, can'.moved = NoLength, ~can'.sampled,
           ~failed => \A b \in {0, 1} : mcp[b] # Empty => mcp[b][1].age = 0
    PROVE  MotorInv'
<1> USE MotorConstants, MotorBasics DEF canIfVars
<1>1. cycle' = [phase |-> "decode", arrived |-> 0, denied |-> IF failed THEN cycle.denied + 1 ELSE 0]
      BY DEF ReadEnds
<1>2. cycle'.denied \in 0 .. MaxDenied /\ cycle' \in Cycles
      BY <1>1 DEF MayFail, Cycles
<1>3. MotorTypes'
      BY <1>2 DEF MotorInv, MotorTypes
<1>4. BuffersInv'
  <2>1. Limit = cycle.denied + 1 /\ Limit' = cycle'.denied
        BY <1>1 DEF Limit
  <2>2. \A b \in {0, 1} : mcp[b] # Empty => Len(mcp[b]) = 1 /\ mcp[b][1].age <= Limit'
    <3>1. CASE failed
          BY <1>1, <2>1, <3>1 DEF MotorInv, BuffersInv
    <3>2. CASE ~failed
          BY <1>1, <2>1, <3>2 DEF MotorInv, BuffersInv
    <3>3. QED BY <3>1, <3>2
  <2>3. Held2' = Held2 /\ Held2' + can'.moved <= 2 + cycle'.arrived
        BY <1>1 DEF Held2
  <2>4. QED BY <1>1, <2>2, <2>3 DEF MotorInv, BuffersInv
<1>5. QueueInv'
      BY <1>1 DEF MotorInv, QueueInv
<1>6. DataInv'
      BY <1>1 DEF MotorInv, DataInv
<1>7. QED BY <1>3, <1>4, <1>5, <1>6 DEF MotorInv

LEMMA NotStartedKeeps ==
    ASSUME MotorInv, cycle.phase = "read", NotStarted, ReadEnds(FALSE), UNCHANGED canIfVars
    PROVE  MotorInv'
<1>1. can.moved = NoLength /\ ~can.sampled /\ can \in CanRecords
      BY MotorBasics DEF MotorInv, MotorTypes, CanRecords, NotStarted, BuffersInv
<1>2. QED BY <1>1, EndKeeps DEF NotStarted, MotorInv, BuffersInv, canVars

LEMMA DeniedKeeps ==
    ASSUME MotorInv, cycle.phase = "read", BusDenied, MayFail, ReadEnds(TRUE), UNCHANGED canIfVars
    PROVE  MotorInv'
<1>1. can.moved = NoLength /\ ~can.sampled /\ can \in CanRecords
      BY DEF MotorInv, MotorTypes, CanRecords, BusDenied, BuffersInv
<1>2. QED BY <1>1, EndKeeps DEF BusDenied, canVars

LEMMA ErrorsKeep ==
    ASSUME MotorInv, cycle.phase = "read", NEW failed \in BOOLEAN, failed => MayFail,
           ReadErrors(failed), ReadEnds(failed), UNCHANGED canIfVars
    PROVE  MotorInv'
<1> USE MotorConstants, MotorBasics
<1>1. can \in CanRecords /\ can' = [can EXCEPT !.moved = NoLength, !.sampled = FALSE, !.intf = {}]
      BY DEF MotorInv, MotorTypes, ReadErrors
<1>2. /\ can' \in CanRecords /\ can'.state = can.state /\ can'.queue = can.queue
      /\ can'.dropped = can.dropped /\ can'.moved = NoLength /\ ~can'.sampled
  <2>1. NoLength \in NoLength .. FramesPerCycle
        OBVIOUS
  <2>2. can' \in CanRecords
        BY ONLY <1>1, <2>1
  <2>3. QED BY ONLY <1>1, <2>2
<1>3. ASSUME ~failed
      PROVE  \A b \in {0, 1} : mcp[b] # Empty => mcp[b][1].age = 0
  <2>1. can.sampled /\ (can.moved = FramesPerCycle \/ can.intf = {})
        BY <1>3 DEF ReadErrors
  <2>2. CASE can.intf = {}
        BY <2>1, <2>2 DEF MotorInv, BuffersInv
  <2>3. CASE can.moved = FramesPerCycle
    <3>1. Held2 = 0
          BY <2>3 DEF MotorInv, BuffersInv
    <3>2. QED BY <3>1 DEF Held2
  <2>4. QED BY <2>1, <2>2, <2>3
<1>4. QED BY <1>2, <1>3, EndKeeps DEF ReadErrors

-----------------------------------------------------------------------------
(* Decoding, arrivals, the tick, the readers.                              *)

LEMMA DecodeKeeps ==
    ASSUME MotorInv, cycle.phase = "decode", Decode, UNCHANGED cycle
    PROVE  MotorInv'
<1> USE MotorConstants, MotorBasics
<1> DEFINE f == Head(can.queue)
           h == Half(f)
<1>1. /\ can.queue # <<>> /\ f = can.queue[1] /\ f \in Frames /\ f.age <= MaxDenied + 1
      /\ Tail(can.queue) \in Seq(Frames) /\ Len(Tail(can.queue)) = Len(can.queue) - 1
      /\ \A i \in 1 .. Len(Tail(can.queue)) : Tail(can.queue)[i] = can.queue[i + 1]
  <2>1. can.queue # <<>> /\ can.queue \in Seq(Frames)
        BY DEF Decode
  <2>2. \A i \in 1 .. Len(can.queue) : can.queue[i].age <= MaxDenied + 1
        BY DEF MotorInv, QueueInv
  <2>3. f = can.queue[1] /\ f \in Frames /\ 1 \in 1 .. Len(can.queue)
        BY <2>1
  <2>4. QED BY <2>1, <2>2, <2>3
<1>2. f.regs \in Filters /\ f.age \in 0 .. MaxAge /\ f.short \in BOOLEAN
      BY <1>1 DEF Frames
<1>3. h \in {"drive", "current"}
      BY <1>2, HalfKnown
<1>4. can' = [can EXCEPT !.queue = Tail(@)]
      BY DEF Decode, Receive
<1>5. mcp' = mcp /\ stale' = stale /\ fed' = fed /\ cycle' = cycle
      BY DEF Decode
<1> HIDE DEF f, h
<1>6. /\ unknown' = unknown
      /\ \/ mcu' = mcu /\ reader' = reader
         \/ /\ mcu' = [mcu EXCEPT ![h] = [age |-> f.age, stamp |-> 0, valid |-> TRUE]]
            /\ reader' = [r \in Readers |->
                   IF reader[r].at = "idle" THEN NoCopy ELSE [reader[r] EXCEPT !.moved = TRUE]]
      BY <1>3 DEF Decode, f, h
<1>7. MotorTypes'
  <2>1. can' \in CanRecords
        BY <1>1, <1>4 DEF MotorInv, MotorTypes
  <2>2. mcu' \in [{"drive", "current"} -> Halves]
    <3>1. [age |-> f.age, stamp |-> 0, valid |-> TRUE] \in Halves
          BY <1>2
    <3>2. mcu \in [{"drive", "current"} -> Halves]
          BY DEF MotorInv, MotorTypes
    <3>3. QED BY <1>3, <1>6, <3>1, <3>2
  <2>3. reader' \in [Readers -> Copies]
    <3>1. NoCopy \in Copies
          BY DEF NoCopy
    <3>2. reader \in [Readers -> Copies]
          BY DEF MotorInv, MotorTypes
    <3>3. \A r \in Readers : [reader[r] EXCEPT !.moved = TRUE] \in Copies
          BY <3>2
    <3>4. QED BY ONLY <1>6, <3>1, <3>2, <3>3
  <2>4. QED BY <1>5, <1>6, <2>1, <2>2, <2>3 DEF MotorInv, MotorTypes
<1>8. can'.queue = Tail(can.queue) /\ can' = [can EXCEPT !.queue = can'.queue]
      BY <1>4 DEF MotorInv, MotorTypes
<1>9. BuffersInv'
      BY <1>5, <1>8 DEF MotorInv, MotorTypes, BuffersInv, Held2, Limit
<1>10. QueueInv'
  <2>1. can'.dropped = can.dropped
        BY <1>8 DEF MotorInv, MotorTypes
  <2>2. \A i \in 1 .. Len(can.queue) : can.queue[i].age <= MaxDenied + 1
        BY DEF MotorInv, QueueInv
  <2>3. ASSUME NEW i \in 1 .. Len(can'.queue)
        PROVE  i + 1 \in 1 .. Len(can.queue) /\ can'.queue[i] = can.queue[i + 1]
    <3>1. can'.queue = Tail(can.queue) /\ Len(can'.queue) = Len(can.queue) - 1
          BY <1>1, <1>8
    <3>2. i + 1 \in 1 .. Len(can.queue)
          BY <3>1, <2>3
    <3>3. QED BY <1>1, <2>3, <3>1, <3>2
  <2>4. \A i \in 1 .. Len(can'.queue) : can'.queue[i].age <= MaxDenied + 1
        BY <2>2, <2>3
  <2>5. QED BY <1>5, <2>1, <2>4 DEF MotorInv, QueueInv
<1>11. DataInv'
  <2>1. CASE mcu' = mcu /\ reader' = reader
        BY <1>5, <1>6, <2>1 DEF MotorInv, DataInv
  <2>2. CASE /\ mcu' = [mcu EXCEPT ![h] = [age |-> f.age, stamp |-> 0, valid |-> TRUE]]
             /\ reader' = [r \in Readers |->
                   IF reader[r].at = "idle" THEN NoCopy ELSE [reader[r] EXCEPT !.moved = TRUE]]
    <3>1. mcu'["drive"] = mcu["drive"] \/ mcu'["drive"] = [age |-> f.age, stamp |-> 0, valid |-> TRUE]
          BY <1>3, <2>2 DEF MotorInv, MotorTypes
    <3>2. mcu'["drive"].valid /\ mcu'["drive"].stamp < SignalTimeout =>
              mcu'["drive"].age <= mcu'["drive"].stamp + MaxDenied + 1
          BY SMTT(30), <1>1, <1>2, <3>1 DEF MotorInv, DataInv
    <3>3. \A r \in Readers : reader'[r].at = "idle" \/ reader'[r].moved
          BY <2>2 DEF MotorInv, MotorTypes, NoCopy
    <3>4. QED BY <1>5, <1>6, <3>2, <3>3 DEF MotorInv, DataInv
  <2>3. QED BY <1>6, <2>1, <2>2
<1>12. QED BY <1>7, <1>9, <1>10, <1>11 DEF MotorInv

LEMMA DecodedKeeps ==
    ASSUME MotorInv, cycle.phase = "decode", can.queue = <<>>,
           \A r \in Readers : reader[r].at = "idle",
           cycle' = [cycle EXCEPT !.phase = "idle"], UNCHANGED <<canVars, canIfVars>>
    PROVE  MotorInv'
<1> USE MotorConstants, MotorBasics DEF canVars, canIfVars
<1>1. cycle' \in Cycles /\ cycle'.phase = "idle" /\ cycle'.denied = cycle.denied
      /\ cycle'.arrived = cycle.arrived
      BY DEF MotorInv, MotorTypes
<1>2. MotorTypes'
      BY <1>1 DEF MotorInv, MotorTypes
<1>3. BuffersInv'
      BY <1>1 DEF MotorInv, BuffersInv, Held2, Limit
<1>4. QueueInv' /\ DataInv'
      BY <1>1 DEF MotorInv, QueueInv, DataInv
<1>5. QED BY <1>2, <1>3, <1>4 DEF MotorInv

LEMMA BusKeeps ==
    ASSUME MotorInv, Bus
    PROVE  MotorInv'
<1> USE MotorConstants, MotorBasics DEF canIfVars
<1>1. PICK f \in Traffic : Arrive(f)
      BY DEF Bus
<1>2. OnBus(f) \in Frames /\ OnBus(f).age = 0
      BY <1>1 DEF Arrive, Accepted, OnBus, Frames
<1>3. /\ can' = can /\ can.state = "started" /\ UNCHANGED canIfVars
      /\ cycle'.phase = cycle.phase /\ cycle'.denied = cycle.denied /\ cycle' \in Cycles
      /\ \/ cycle.phase = "idle" /\ cycle' = cycle
         \/ cycle.phase = "read" /\ cycle'.arrived = cycle.arrived + 1
  <2>1. can' = can /\ can.state = "started" /\ UNCHANGED canIfVars /\ cycle \in Cycles
        BY <1>1 DEF Arrive, Accepted, Bus, MotorInv, MotorTypes
  <2>2. CASE cycle.phase = "idle" /\ UNCHANGED cycle
        BY <2>1, <2>2
  <2>3. CASE cycle.phase = "read" /\ cycle.arrived < Arrivals /\ cycle' = [cycle EXCEPT !.arrived = @ + 1]
    <3>1. cycle.arrived + 1 \in 0 .. Arrivals
      <4>1. cycle.arrived \in 0 .. Arrivals /\ Arrivals \in Nat
            OBVIOUS
      <4>2. QED BY ONLY <2>3, <4>1
    <3>2. QED BY <2>1, <2>3, <3>1
  <2>4. QED BY <2>2, <2>3 DEF Bus
<1>4. \/ mcp' = mcp
      \/ \E b \in {0, 1} : mcp[b] = Empty /\ mcp' = [mcp EXCEPT ![b] = <<OnBus(f)>>]
      BY <1>1 DEF Arrive
<1>5. MotorTypes'
  <2>1. <<OnBus(f)>> \in Seq(Frames)
        BY <1>2
  <2>2. mcp \in [{0, 1} -> Seq(Frames)]
        BY DEF MotorInv, MotorTypes
  <2>3. mcp' \in [{0, 1} -> Seq(Frames)]
        BY ONLY <1>4, <2>1, <2>2
  <2>4. QED BY <1>3, <2>3 DEF MotorInv, MotorTypes
<1>6. BuffersInv'
  <2>1. Limit' = Limit
        BY <1>3 DEF Limit
  <2>2. \A b \in {0, 1} : mcp'[b] = mcp[b] \/ (mcp[b] = Empty /\ mcp'[b] = <<OnBus(f)>>)
        BY <1>4 DEF MotorInv, MotorTypes
  <2>3. <<OnBus(f)>> # Empty /\ Len(<<OnBus(f)>>) = 1 /\ <<OnBus(f)>>[1].age = 0
        BY <1>2 DEF Empty
  <2>4. ASSUME NEW b \in {0, 1}, mcp'[b] # Empty
        PROVE  Len(mcp'[b]) = 1 /\ mcp'[b][1].age <= Limit
    <3>1. CASE mcp'[b] = mcp[b]
          BY <2>4, <3>1 DEF MotorInv, BuffersInv
    <3>2. CASE mcp'[b] = <<OnBus(f)>>
          BY <2>3, <3>2
    <3>3. QED BY <2>2, <3>1, <3>2
  <2>5. can.sampled => \A b \in {0, 1} : IF b \in can.intf THEN mcp'[b] # Empty
                                         ELSE mcp'[b] # Empty => mcp'[b][1].age = 0
        BY <2>2, <2>3 DEF MotorInv, BuffersInv
  <2>6. Held2' + can.moved <= 2 + cycle'.arrived
    <3>1. cycle.arrived \in Int /\ can.moved \in Int /\ Held2 \in Int /\ Held2' \in 0 .. 2
          /\ Held2 + can.moved <= 2 + cycle.arrived
      <4>1. Held2 + can.moved <= 2 + cycle.arrived
            BY DEF MotorInv, BuffersInv
      <4>2. Held2' \in 0 .. 2
            BY DEF Held2
      <4>3. QED BY <4>1, <4>2
    <3>2. Held2' = Held2 \/ Held2' = Held2 + 1
      <4>1. \/ mcp'[0] = mcp[0] /\ mcp'[1] = mcp[1]
            \/ mcp[0] = Empty /\ mcp'[0] # Empty /\ mcp'[1] = mcp[1]
            \/ mcp[1] = Empty /\ mcp'[1] # Empty /\ mcp'[0] = mcp[0]
        <5>1. DOMAIN mcp = {0, 1}
              BY DEF MotorInv, MotorTypes
        <5>2. CASE mcp' = mcp
              BY <5>2
        <5>3. CASE mcp[0] = Empty /\ mcp' = [mcp EXCEPT ![0] = <<OnBus(f)>>]
              BY <2>3, <5>1, <5>3
        <5>4. CASE mcp[1] = Empty /\ mcp' = [mcp EXCEPT ![1] = <<OnBus(f)>>]
              BY <2>3, <5>1, <5>4
        <5>5. QED BY <1>4, <5>2, <5>3, <5>4
      <4>2. QED BY ONLY <4>1 DEF Held2
    <3>3. CASE cycle.phase = "idle"
          BY SMTT(30), <1>3, <3>1, <3>3 DEF MotorInv, BuffersInv
    <3>4. CASE cycle.phase = "read"
      <4>1. cycle'.arrived = cycle.arrived + 1
            BY <1>3, <3>4
      <4>2. QED BY ONLY <3>1, <3>2, <4>1
    <3>5. QED BY <1>3, <3>3, <3>4
  <2>7. QED BY <1>3, <2>1, <2>4, <2>5, <2>6 DEF MotorInv, BuffersInv
<1>7. QueueInv' /\ DataInv'
      BY <1>3 DEF MotorInv, QueueInv, DataInv
<1>8. QED BY <1>5, <1>6, <1>7 DEF MotorInv

LEMMA TickKeeps ==
    ASSUME MotorInv, MotorTick
    PROVE  MotorInv'
<1> USE MotorConstants, MotorBasics
<1>1. /\ can' = can /\ stale' = stale /\ unknown' = unknown /\ reader' = reader
      /\ fed' = NoSample /\ cycle.phase = "idle" /\ cycle' = [cycle EXCEPT !.phase = "read"]
      /\ mcp' = [b \in {0, 1} |-> IF mcp[b] = Empty THEN Empty ELSE <<Aged(mcp[b][1])>>]
      BY DEF MotorTick, CanAges, CanIfAges
<1>2. cycle' \in Cycles /\ cycle'.phase = "read" /\ cycle'.denied = cycle.denied
      /\ cycle'.arrived = cycle.arrived
      BY <1>1 DEF MotorInv, MotorTypes
<1>3. \A f \in Frames : Aged(f) \in Frames /\ Aged(f).age <= f.age + 1
  <2>1. ASSUME NEW f \in Frames
        PROVE  Aged(f) \in Frames /\ Aged(f).age <= f.age + 1
    <3>1. f.age \in 0 .. MaxAge /\ Older(f.age) \in 0 .. MaxAge /\ Older(f.age) <= f.age + 1
          BY OlderAge DEF Frames
    <3>2. CASE Aged(f) = f
          BY <3>1, <3>2
    <3>3. CASE Aged(f) = [f EXCEPT !.age = Older(@)]
          BY <3>1, <3>3 DEF Frames
    <3>4. QED BY <3>2, <3>3 DEF Aged
  <2>2. QED BY <2>1
<1>4. \A b \in {0, 1} :
          \/ mcp[b] = Empty /\ mcp'[b] = Empty
          \/ /\ mcp[b] # Empty /\ mcp'[b] = <<Aged(mcp[b][1])>> /\ mcp'[b] # Empty
             /\ Aged(mcp[b][1]) \in Frames /\ Aged(mcp[b][1]).age <= mcp[b][1].age + 1
      BY <1>1, <1>3 DEF Empty
<1>5. MotorTypes'
  <2>1. mcp' \in [{0, 1} -> Seq(Frames)]
        BY <1>1, <1>4 DEF Empty
  <2>2. mcu' \in [{"drive", "current"} -> Halves]
    <3>1. ASSUME NEW h \in {"drive", "current"}
          PROVE  mcu'[h] \in Halves
      <4> DEFINE stamp == IF mcu[h].stamp < SignalTimeout THEN mcu[h].stamp + 1 ELSE mcu[h].stamp
                 years == IF h = "drive" THEN Older(mcu[h].age) ELSE 0
      <4>1. mcu[h] \in Halves
            BY DEF MotorInv, MotorTypes
      <4>2. NoData \in Halves
            BY DEF NoData
      <4>3. mcu[h].age \in 0 .. MaxAge /\ mcu[h].stamp \in 0 .. SignalTimeout /\ SignalTimeout \in Nat
            BY <4>1
      <4>4. years \in 0 .. MaxAge
        <5>1. Older(mcu[h].age) \in 0 .. MaxAge
              BY <4>3, OlderAge
        <5>2. 0 \in 0 .. MaxAge
              OBVIOUS
        <5>3. QED BY ONLY <5>1, <5>2
      <4>5. stamp \in 0 .. SignalTimeout
            BY ONLY <4>3
      <4>6. mcu'[h] = IF mcu[h].valid THEN [mcu[h] EXCEPT !.stamp = stamp, !.age = years] ELSE NoData
            BY DEF MotorTick, CanIfAges
      <4> HIDE DEF stamp, years
      <4>7. QED BY ONLY <4>1, <4>2, <4>4, <4>5, <4>6 DEF Halves
    <3>2. QED BY <3>1 DEF MotorTick, CanIfAges
  <2>3. fed' \in [age : 0 .. MaxAge, moved : BOOLEAN]
        BY <1>1 DEF NoSample
  <2>4. QED BY <1>1, <1>2, <2>1, <2>2, <2>3 DEF MotorInv, MotorTypes
<1>6. BuffersInv'
  <2>1. can.moved = NoLength /\ ~can.sampled
        BY <1>1 DEF MotorInv, BuffersInv
  <2>2. Limit' = Limit + 1
        BY <1>1, <1>2 DEF Limit
  <2>3. ASSUME NEW b \in {0, 1}, mcp'[b] # Empty
        PROVE  Len(mcp'[b]) = 1 /\ mcp'[b][1].age <= Limit'
    <3>1. mcp[b] # Empty /\ mcp'[b] = <<Aged(mcp[b][1])>> /\ Aged(mcp[b][1]).age <= mcp[b][1].age + 1
          /\ Aged(mcp[b][1]) \in Frames
          BY <1>4, <2>3
    <3>2. mcp[b][1].age <= Limit /\ mcp[b][1].age \in Nat /\ Aged(mcp[b][1]).age \in Nat
          BY <3>1 DEF MotorInv, BuffersInv, Frames
    <3>3. QED BY SMTT(30), <2>2, <3>1, <3>2
  <2>4. Held2' = Held2
        BY <1>4 DEF Held2
  <2>5. QED BY <1>1, <1>2, <1>4, <2>1, <2>3, <2>4 DEF MotorInv, BuffersInv
<1>7. QueueInv'
      BY SMTT(30), <1>1, <1>2 DEF MotorInv, QueueInv, BuffersInv
<1>8. DataInv'
  <2> DEFINE d == mcu["drive"]
             e == mcu'["drive"]
  <2>1. e.valid /\ e.stamp < SignalTimeout => e.age <= e.stamp + MaxDenied + 1
    <3>1. d \in Halves /\ d.age \in 0 .. MaxAge /\ d.stamp \in 0 .. SignalTimeout
          BY DEF MotorInv, MotorTypes
    <3>2. CASE ~d.valid
          BY <3>2 DEF MotorTick, CanIfAges, NoData
    <3>3. CASE d.valid
      <4>1. e = [d EXCEPT !.stamp = IF @ < SignalTimeout THEN @ + 1 ELSE @, !.age = Older(@)]
            BY <3>3 DEF MotorTick, CanIfAges
      <4>2. e.stamp = (IF d.stamp < SignalTimeout THEN d.stamp + 1 ELSE d.stamp) /\ e.age = Older(d.age)
            BY <3>1, <4>1
      <4>3. d.stamp < SignalTimeout => d.age <= d.stamp + MaxDenied + 1
            BY <3>3 DEF MotorInv, DataInv
      <4>4. Older(d.age) \in 0 .. MaxAge /\ Older(d.age) <= d.age + 1
            BY <3>1, OlderAge
      <4>5. MaxAge \in Nat /\ SignalTimeout \in Nat /\ MaxDenied \in Nat
            OBVIOUS
      <4> HIDE DEF d, e
      <4>6. QED BY ONLY <3>1, <4>2, <4>3, <4>4, <4>5
    <3>4. QED BY <3>2, <3>3
  <2>2. \A r \in Readers : reader'[r].at = "idle"
        BY <1>1 DEF MotorInv, DataInv
  <2>3. fed'.age < SignalTimeout + MaxDenied + 1
        BY <1>1 DEF NoSample
  <2>4. QED BY <1>1, <2>1, <2>2, <2>3 DEF MotorInv, DataInv
<1>9. QED BY <1>5, <1>6, <1>7, <1>8 DEF MotorInv

LEMMA ReaderKeeps ==
    ASSUME MotorInv, NEW r \in Readers, GetMcuData(r)
    PROVE  MotorInv'
<1> USE MotorConstants, MotorBasics DEF canVars
<1>1. /\ cycle.phase = "decode" /\ cycle' = cycle /\ mcp' = mcp /\ can' = can
      /\ mcu' = mcu /\ unknown' = unknown
      BY DEF GetMcuData, CopySpeed, Judge, ReportStale, Feed
<1>2. reader \in [Readers -> Copies] /\ mcu["drive"] \in Halves /\ stale \in Nat
      /\ fed \in [age : 0 .. MaxAge, moved : BOOLEAN]
      BY DEF MotorInv, MotorTypes
<1>3. PICK next \in Copies :
         /\ reader' = [reader EXCEPT ![r] = next]
         /\ next.at # "idle" /\ ~next.moved => next.age = mcu["drive"].age
  <2> DEFINE Fits(next) == next.at # "idle" /\ ~next.moved => next.age = mcu["drive"].age
  <2>1. CASE CopySpeed(r)
    <3> DEFINE next == [NoCopy EXCEPT !.at = "judge", !.age = mcu["drive"].age]
    <3>1. NoCopy \in Copies
          BY DEF NoCopy
    <3>2. next \in Copies /\ next.age = mcu["drive"].age
          BY <1>2, <3>1
    <3>3. reader' = [reader EXCEPT ![r] = next]
          BY <2>1 DEF CopySpeed, Move
    <3>4. Fits(next)
          BY <3>2
    <3> HIDE DEF next, Fits
    <3>5. QED BY <3>2, <3>3, <3>4
  <2>2. reader[r] \in Copies /\ Fits(reader[r])
        BY <1>2 DEF MotorInv, DataInv
  <2>3. ASSUME NEW at \in {"report", "feed"}, reader[r].at # "idle",
               reader' = [reader EXCEPT ![r] = [reader[r] EXCEPT !.at = at]]
        PROVE  \E next \in Copies : reader' = [reader EXCEPT ![r] = next] /\ Fits(next)
    <3> DEFINE next == [reader[r] EXCEPT !.at = at]
    <3>1. next \in Copies /\ next.moved = reader[r].moved /\ next.age = reader[r].age
          BY <2>2
    <3>2. Fits(next)
          BY <2>2, <2>3, <3>1
    <3> HIDE DEF Fits
    <3>3. QED BY <2>3, <3>1, <3>2
  <2>4. CASE \E status \in Statuses : Judge(r, status) \/ ReportStale(r, status)
        BY <2>3, <2>4 DEF Judge, ReportStale, Move
  <2>5. CASE Feed(r)
    <3>1. NoCopy \in Copies /\ Fits(NoCopy) /\ reader' = [reader EXCEPT ![r] = NoCopy]
      <4>1. NoCopy \in Copies
            BY DEF NoCopy
      <4>2. QED BY <2>5, <4>1 DEF Feed, Move, NoCopy
    <3>2. QED BY <3>1
  <2>6. QED BY <2>1, <2>4, <2>5 DEF GetMcuData
<1>4. stale' \in Nat
  <2>1. stale' \in {stale, stale + 1, 0}
        BY DEF GetMcuData, CopySpeed, Judge, ReportStale, Feed
  <2>2. QED BY <1>2, <2>1
<1>5. fed' \in [age : 0 .. MaxAge, moved : BOOLEAN] /\ (fed'.moved \/ fed'.age < SignalTimeout + MaxDenied + 1)
  <2>1. fed.moved \/ fed.age < SignalTimeout + MaxDenied + 1
        BY DEF MotorInv, DataInv
  <2>2. CASE fed' = fed
        BY <1>2, <2>1, <2>2
  <2>3. CASE Feed(r) /\ fed' = [age |-> reader[r].age, moved |-> reader[r].moved] /\ IsMcuDataFresh
    <3>1. reader[r] \in Copies /\ reader[r].age \in 0 .. MaxAge /\ reader[r].moved \in BOOLEAN
          BY <1>2
    <3>2. mcu["drive"].valid /\ mcu["drive"].stamp < SignalTimeout
          BY <2>3 DEF IsMcuDataFresh
    <3>3. mcu["drive"].age <= mcu["drive"].stamp + MaxDenied + 1
          BY <3>2 DEF MotorInv, DataInv
    <3>4. ~reader[r].moved => reader[r].age = mcu["drive"].age
          BY <2>3 DEF MotorInv, DataInv, Feed
    <3>5. mcu["drive"].age \in Nat /\ mcu["drive"].stamp \in Nat
      <4>1. mcu["drive"].age \in 0 .. MaxAge /\ mcu["drive"].stamp \in 0 .. SignalTimeout
            BY ONLY <1>2 DEF Halves
      <4>2. MaxAge \in Nat /\ SignalTimeout \in Nat
            BY MotorConstants
      <4>3. QED BY ONLY <4>1, <4>2
    <3>6. ~reader[r].moved => reader[r].age < SignalTimeout + MaxDenied + 1
          BY SMTT(30), <3>1, <3>2, <3>3, <3>4, <3>5
    <3>7. QED BY <2>3, <3>1, <3>6
  <2>4. QED BY <2>2, <2>3 DEF GetMcuData, CopySpeed, Judge, ReportStale, Feed
<1>6. reader' \in [Readers -> Copies]
      /\ \A x \in Readers : reader'[x].at # "idle" /\ ~reader'[x].moved => reader'[x].age = mcu["drive"].age
  <2>1. \A x \in Readers : reader[x].at # "idle" /\ ~reader[x].moved => reader[x].age = mcu["drive"].age
        BY DEF MotorInv, DataInv
  <2>2. \A x \in Readers : reader'[x] = IF x = r THEN next ELSE reader[x]
        BY <1>2, <1>3
  <2>3. QED BY <1>2, <1>3, <2>1, <2>2
<1>7. MotorTypes'
      BY <1>1, <1>4, <1>5, <1>6 DEF MotorInv, MotorTypes
<1>8. BuffersInv' /\ QueueInv'
      BY <1>1 DEF MotorInv, BuffersInv, QueueInv, Held2, Limit
<1>9. DataInv'
      BY <1>1, <1>5, <1>6 DEF MotorInv, DataInv
<1>10. QED BY <1>7, <1>8, <1>9 DEF MotorInv

-----------------------------------------------------------------------------

LEMMA MotorStep == MotorInv /\ [Next]_vars => MotorInv'
<1> SUFFICES ASSUME MotorInv, [Next]_vars PROVE MotorInv'
    OBVIOUS
<1>1. CASE MotorNext
  <2>1. CASE CanRead
    <3>1. cycle.phase = "read" /\ UNCHANGED canIfVars
          BY <2>1 DEF CanRead
    <3>2. CASE ReadFlags /\ UNCHANGED cycle
          BY <3>1, <3>2, FlagsKeep
    <3>3. CASE NotStarted /\ ReadEnds(FALSE)
          BY <3>1, <3>3, NotStartedKeeps
    <3>4. CASE MayFail /\ BusDenied /\ ReadEnds(TRUE)
          BY <3>1, <3>4, DeniedKeeps
    <3>5. CASE ReadFrame /\ UNCHANGED cycle
          BY <3>1, <3>5, FrameKeeps
    <3>6. CASE \E failed \in BOOLEAN : (failed => MayFail) /\ ReadErrors(failed) /\ ReadEnds(failed)
          BY <3>1, <3>6, ErrorsKeep
    <3>7. QED BY <2>1, <3>2, <3>3, <3>4, <3>5, <3>6 DEF CanRead
  <2>2. CASE DecodeStep
        BY <2>2, DecodeKeeps, DecodedKeeps DEF DecodeStep
  <2>3. QED BY <1>1, <2>1, <2>2, BusKeeps, TickKeeps, ReaderKeeps DEF MotorNext
<1>2. CASE UNCHANGED motorVars
      BY <1>2, MotorStutters DEF motorVars, motor
<1>3. QED BY <1>1, <1>2 DEF Next, PacksNext, PositionNext, FaultsNext, vars, motorVars

LEMMA MotorInvSound == MotorInv => MotorSound
BY DEF MotorInv, QueueInv, DataInv, MotorSound

(* The motor data that is used is sound (Can.c, CanIf.c), for every value  *)
(* of the constants that the configuration allows. *)
THEOREM MotorIsSound == Spec => []MotorSound
<1>1. Spec => []MotorInv
      BY MotorStarts, MotorStep, PTL DEF Spec
<1>2. QED BY <1>1, MotorInvSound, PTL

-----------------------------------------------------------------------------
(***************************************************************************)
(* PacksSound for every number of slots, retries and late exchanges: the   *)
(* battery data belongs to the slot it is shown for and is recent.         *)
(*                                                                         *)
(* Two slots never hold one serial number, and it does not change after    *)
(* the discovery; an accepted reply names it.  The ages follow the round:  *)
(* a slot that the round has passed holds readings of this round.          *)
(***************************************************************************)

Names == Serials \cup {NoSerial}
Replies == [kind : {"none", "serial", "pack", "cell"}, serial : Names, left : 0 .. MaxLate]
Ages == [valid : BOOLEAN, from : Names, age : 0 .. 3]
PackStates == [present : BOOLEAN, serial : Names, pack : Ages, cell : Ages, failures : 0 .. FailureLimit]
Polls == [at : Discovery \cup {"idle", "pack", "cell", "copy", "report"},
          slot : 1 .. PackCount + 1, tries : 0 .. Retries]

PackTypes ==
    /\ bus \in [fitted : Fittings, on : SUBSET Slots, late : Replies]
    /\ packs \in [Slots -> PackStates]
    /\ poll \in Polls
    /\ batt \in [states : [Slots -> PackStates],
                 sum : [present : Nat, over : SUBSET Ages, cells : SUBSET Ages]]
    /\ record \in [at : {"idle", "values"}, slot : Slots, valid : BOOLEAN, written : Ages, crossed : BOOLEAN]

(* While the packs are being found, those at and after the slot being      *)
(* asked are not there, and nothing has been read.                         *)
DiscoveryInv ==
    /\ poll.at \in {"switch", "ask", "again"} => poll.slot \in Slots
    /\ poll.at \in {"pack", "cell"} => poll.slot \in Present
    /\ poll.at = "off" => Present = {}
    /\ poll.at \in {"switch", "ask"} => \A s \in Present : s < poll.slot
    /\ poll.at = "again" => \A s \in Present : s <= poll.slot
    /\ poll.at \in Discovery =>
          /\ \A s \in Slots : /\ ~packs[s].pack.valid /\ ~packs[s].cell.valid
                              /\ ~batt.states[s].pack.valid /\ ~batt.states[s].cell.valid
          /\ batt.sum.over = {} /\ batt.sum.cells = {}
          /\ record.at = "idle" /\ ~record.written.valid
    /\ \A s, t \in Present : packs[s].serial = packs[t].serial => s = t

(* How old a valid reading may be. *)
PackAge(s) == IF (poll.at = "pack" /\ s >= poll.slot) \/ (poll.at = "cell" /\ s > poll.slot) THEN 1 ELSE 0
CellAge(s) == IF poll.at \in {"pack", "cell"} /\ s >= poll.slot THEN 1 ELSE 0
CopyAge(s) == IF poll.at \in {"idle", "report"} \/ (poll.at = "copy" /\ s < poll.slot) THEN 0 ELSE 1

ReadingsInv ==
    \A s \in Slots :
        /\ packs[s].pack.valid => s \in Present /\ packs[s].pack.from = packs[s].serial
                                  /\ packs[s].pack.age <= PackAge(s)
        /\ packs[s].cell.valid => s \in Present /\ packs[s].cell.from = packs[s].serial
                                  /\ packs[s].cell.age <= CellAge(s)

(* The copies; what was last read is not older than they are. *)
CopiesInv ==
    \A s \in Slots :
        /\ batt.states[s].pack.valid =>
              /\ batt.states[s].pack.from = packs[s].serial /\ batt.states[s].pack.age <= CopyAge(s)
              /\ packs[s].pack.from = packs[s].serial /\ packs[s].pack.age <= CopyAge(s)
        /\ batt.states[s].cell.valid => batt.states[s].cell.age <= CopyAge(s)

SumsInv ==
    \A reading \in batt.sum.over \cup batt.sum.cells :
        reading.valid /\ reading.age = IF poll.at \in {"idle", "report"} THEN 0 ELSE 1

(* A record under way: its slot may have been copied once since the flag   *)
(* was read. *)
RecordInv ==
    LET copy == batt.states[record.slot].pack
    IN /\ record.at = "values" /\ record.valid =>
             IF record.crossed
             THEN copy.from = packs[record.slot].serial /\ copy.age <= 1 + CopyAge(record.slot)
             ELSE copy.valid
       /\ record.written.valid =>
             record.written.from = packs[record.slot].serial /\ record.written.age <= 2

PacksInv == PackTypes /\ DiscoveryInv /\ ReadingsInv /\ CopiesInv /\ SumsInv /\ RecordInv

-----------------------------------------------------------------------------

LEMMA PacksConstants ==
    /\ PackCount \in Nat \ {0} /\ Retries \in Nat \ {0} /\ FailureLimit \in Nat \ {0}
    /\ MaxLate \in Nat \ {0} /\ 1 \in Slots /\ Slots \subseteq Nat
    /\ \A f \in Fittings : DOMAIN f = Slots
BY Rs485IfAssumption DEF Slots

(* Something that is asked for is answered by nobody, or with a name. *)
LEMMA ExchangeTypes ==
    ASSUME bus \in [fitted : Fittings, on : SUBSET Slots, late : Replies],
           NEW kind \in {"serial", "pack", "cell"}, NEW serial, NEW x \in Exchanges(kind, serial)
    PROVE  x[1].serial \in Names /\ x[2] \in Replies
<1> USE PacksConstants
<1>1. NoReply \in Replies /\ Silence.serial \in Names /\ Garbled.serial \in Names
      BY DEF NoReply, Replies, Names, Silence, Garbled
<1>2. \A s \in Slots : bus.fitted[s] \in Names
      BY DEF Names, Serials
<1>3. \A s \in Answering(kind, serial) : Reply(kind, s) \in Replies
      BY <1>2 DEF Answering, Reply, Replies
<1>4. Ageing(bus.late) \in Replies
  <2>1. bus.late.left \in 0 .. MaxLate
        BY DEF Replies
  <2>2. bus.late.left > 1 => bus.late.left - 1 \in 0 .. MaxLate
        BY <2>1
  <2>3. QED BY <1>1, <2>2 DEF Ageing, Replies
<1>5. \A r \in Replies : r.serial \in Names
      BY DEF Replies
<1>6. \A s \in Answering(kind, serial) : Reply(kind, s).serial \in Names
      BY <1>3, <1>5
<1> HIDE DEF Replies, Names
<1>7. \/ \E r \in Replies : x = <<Silence, r>>
      \/ x = <<Garbled, NoReply>>
      \/ \E r \in Replies : x = <<r, NoReply>>
      BY <1>1, <1>3, <1>4 DEF Exchanges
<1>8. QED BY <1>1, <1>5, <1>7

(* The next slot with a pack. *)
LEMMA NextPresentIs ==
    ASSUME packs \in [Slots -> PackStates], NEW s \in 1 .. PackCount + 1
    PROVE  /\ NextPresent(s) \in s .. PackCount + 1
           /\ NextPresent(s) <= PackCount => NextPresent(s) \in Present
           /\ \A t \in Present : t >= s => t >= NextPresent(s)
<1> USE PacksConstants
<1> DEFINE R == {ss \in Nat \X Nat : ss[1] < ss[2]}
           C == (Present \cap s .. PackCount) \cup {PackCount + 1}
<1>1. IsWellFoundedOn(R, Nat)
      BY NatLessThanWellFounded DEF OpToRel
<1>2. C \subseteq Nat /\ C # {} /\ Present \subseteq Slots
      BY DEF Present
<1> HIDE DEF R, C
<1>3. PICK x \in C : \A y \in C : ~(<<y, x>> \in R)
      BY ONLY <1>1, <1>2, WFMin
<1>4. \A y \in C : x <= y
  <2>1. ASSUME NEW y \in C PROVE x <= y
    <3>1. <<y, x>> \notin R /\ x \in Nat /\ y \in Nat
          BY <1>2, <1>3
    <3>2. QED BY <3>1 DEF R
  <2>2. QED BY <2>1
<1>5. \E t \in C : \A u \in Present \cap s .. PackCount : t <= u
      BY <1>4 DEF C
<1>6. NextPresent(s) \in C /\ \A u \in Present \cap s .. PackCount : NextPresent(s) <= u
      BY <1>5 DEF NextPresent, C
<1>7. QED BY <1>2, <1>6 DEF Slots, C

-----------------------------------------------------------------------------
(* Blank values have their types; a reading that ages keeps its source.    *)
LEMMA Blanks ==
    /\ NoReading \in Ages /\ ~NoReading.valid
    /\ NoReply \in Replies /\ NoSerial \in Names
    /\ NoPack \in PackStates /\ ~NoPack.present /\ ~NoPack.pack.valid /\ ~NoPack.cell.valid
<1>1. NoReading \in Ages /\ ~NoReading.valid
      BY DEF NoReading, Ages, Names
<1>2. NoReply \in Replies /\ NoSerial \in Names
      BY PacksConstants DEF NoReply, Replies, Names
<1>3. NoPack \in PackStates
      BY <1>1, <1>2, PacksConstants DEF NoPack, PackStates
<1>4. QED BY <1>1, <1>2, <1>3 DEF NoPack

LEMMA OldIs ==
    ASSUME NEW r \in Ages
    PROVE  /\ Old(r) \in Ages /\ Old(r).valid = r.valid /\ Old(r).from = r.from
           /\ Old(r).age <= r.age + 1 /\ (r.age = 0 => Old(r).age = 1)
BY DEF Old, Ages

LEMMA AgesAreNat == \A p \in PackStates : p.pack.age \in Nat /\ p.cell.age \in Nat
BY DEF PackStates, Ages

(* Before the first round nothing has been read. *)
LEMMA NothingRead ==
    /\ poll.at \in Discovery /\ DiscoveryInv => ReadingsInv /\ CopiesInv /\ SumsInv /\ RecordInv
    /\ poll'.at \in Discovery /\ DiscoveryInv' => ReadingsInv' /\ CopiesInv' /\ SumsInv' /\ RecordInv'
<1>1. ASSUME poll.at \in Discovery, DiscoveryInv PROVE ReadingsInv /\ CopiesInv /\ SumsInv /\ RecordInv
      BY <1>1 DEF DiscoveryInv, ReadingsInv, CopiesInv, SumsInv, RecordInv
<1>2. ASSUME poll'.at \in Discovery, DiscoveryInv' PROVE ReadingsInv' /\ CopiesInv' /\ SumsInv' /\ RecordInv'
      BY <1>2 DEF DiscoveryInv, ReadingsInv, CopiesInv, SumsInv, RecordInv
<1>3. QED BY <1>1, <1>2

LEMMA PacksStart == Init => PacksInv
<1> SUFFICES ASSUME Init PROVE PacksInv
    OBVIOUS
<1> USE PacksConstants, Blanks
<1>1. PICK f \in Fittings, on \in {{}, Slots} : bus = [fitted |-> f, on |-> on, late |-> NoReply]
      BY DEF Init, Rs485Init
<1>2. /\ packs = [s \in Slots |-> NoPack] /\ poll = [at |-> "off", slot |-> 1, tries |-> 0]
      /\ batt = [states |-> [s \in Slots |-> NoPack], sum |-> NoSum] /\ record = NoRecord
      BY DEF Init, Rs485Init, BattInit
<1>3. Present = {}
      BY <1>2 DEF Present
<1>4. bus \in [fitted : Fittings, on : SUBSET Slots, late : Replies]
      BY <1>1
<1>5. batt.states \in [Slots -> PackStates]
      /\ batt.sum \in [present : Nat, over : SUBSET Ages, cells : SUBSET Ages]
      BY <1>2 DEF NoSum
<1>6. PackTypes
  <2>1. batt \in [states : [Slots -> PackStates],
                  sum : [present : Nat, over : SUBSET Ages, cells : SUBSET Ages]]
        BY <1>2, <1>5
  <2>2. record \in [at : {"idle", "values"}, slot : Slots, valid : BOOLEAN, written : Ages, crossed : BOOLEAN]
        BY <1>2 DEF NoRecord
  <2>3. poll \in Polls
        BY <1>2 DEF Polls, Discovery
  <2>4. packs \in [Slots -> PackStates]
        BY <1>2
  <2>5. QED BY <1>4, <2>1, <2>2, <2>3, <2>4 DEF PackTypes
<1>7. DiscoveryInv
      BY <1>2, <1>3 DEF DiscoveryInv, NoSum, NoRecord, Discovery
<1>8. QED BY <1>2, <1>6, <1>7, NothingRead DEF PacksInv, Discovery

LEMMA PacksStutter == PacksInv /\ UNCHANGED packVars => PacksInv'
BY DEF PacksInv, PackTypes, DiscoveryInv, ReadingsInv, CopiesInv, SumsInv, RecordInv, PackAge, CellAge,
       CopyAge, Present, packVars

-----------------------------------------------------------------------------
(* Finding the packs. *)

LEMMA Switched ==
    ASSUME PackTypes, NEW mask \in SUBSET Slots, Switch(mask)
    PROVE  bus' \in [fitted : Fittings, on : SUBSET Slots, late : Replies]
BY Blanks DEF PackTypes, Switch

LEMMA DiscoverKeeps == PacksInv /\ Discover /\ UNCHANGED battVars => PacksInv'
<1> SUFFICES ASSUME PacksInv, Discover, UNCHANGED battVars PROVE PacksInv'
    OBVIOUS
<1> USE PacksConstants
<1>1. /\ poll.at = "off" /\ packs' = packs /\ batt' = batt /\ record' = record
      /\ poll' = [at |-> "switch", slot |-> 1, tries |-> 0]
      BY DEF Discover, battVars
<1>2. bus' \in [fitted : Fittings, on : SUBSET Slots, late : Replies]
      BY Switched DEF Discover, PacksInv
<1>3. PackTypes'
      BY <1>1, <1>2 DEF PacksInv, PackTypes, Polls, Discovery
<1>4. DiscoveryInv'
      BY <1>1 DEF PacksInv, DiscoveryInv, Present, Discovery
<1>5. QED BY <1>1, <1>3, <1>4, NothingRead DEF PacksInv, Discovery

LEMMA SwitchOneKeeps == PacksInv /\ SwitchOne /\ UNCHANGED battVars => PacksInv'
<1> SUFFICES ASSUME PacksInv, SwitchOne, UNCHANGED battVars PROVE PacksInv'
    OBVIOUS
<1> USE PacksConstants
<1>1. /\ poll.at = "switch" /\ batt' = batt /\ record' = record
      /\ poll' = [poll EXCEPT !.at = "ask", !.tries = 0]
      /\ packs' = [packs EXCEPT ![poll.slot].present = FALSE, ![poll.slot].serial = NoSerial]
      /\ Switch({poll.slot})
      BY DEF SwitchOne, battVars
<1>2. poll.slot \in Slots /\ poll \in Polls /\ packs \in [Slots -> PackStates]
      BY <1>1 DEF PacksInv, DiscoveryInv, PackTypes
<1>3. bus' \in [fitted : Fittings, on : SUBSET Slots, late : Replies]
      BY <1>1, <1>2, Switched DEF PacksInv
<1>4. packs' \in [Slots -> PackStates]
      BY <1>1, <1>2, Blanks DEF PackStates
<1>5. \A s \in Slots : /\ packs'[s].pack = packs[s].pack /\ packs'[s].cell = packs[s].cell
                       /\ packs'[s].present => s # poll.slot /\ packs[s].present /\ packs'[s].serial = packs[s].serial
      BY <1>1, <1>2 DEF PackStates
<1>6. poll' \in Polls /\ poll'.at = "ask" /\ poll'.slot = poll.slot
  <2>1. 0 \in 0 .. Retries /\ "ask" \in Discovery
        BY DEF Discovery
  <2>2. QED BY ONLY <1>1, <1>2, <2>1 DEF Polls
<1>7. PackTypes'
      BY <1>1, <1>3, <1>4, <1>6 DEF PacksInv, PackTypes
<1>8. Present' \subseteq Present /\ \A s \in Present' : packs'[s].serial = packs[s].serial
      BY <1>5 DEF Present
<1>9. DiscoveryInv'
  <2>1. \A s \in Present' : s < poll'.slot
        BY <1>1, <1>6, <1>8 DEF PacksInv, DiscoveryInv
  <2>2. \A s, t \in Present' : packs'[s].serial = packs'[t].serial => s = t
        BY <1>8 DEF PacksInv, DiscoveryInv
  <2>3. \A s \in Slots : ~packs'[s].pack.valid /\ ~packs'[s].cell.valid
        BY <1>1, <1>5 DEF PacksInv, DiscoveryInv, Discovery
  <2>4. QED BY <1>1, <1>2, <1>6, <2>1, <2>2, <2>3 DEF PacksInv, DiscoveryInv, Discovery
<1>10. QED BY <1>6, <1>7, <1>9, NothingRead DEF PacksInv, Discovery

LEMMA AskSerialKeeps == PacksInv /\ AskSerial /\ UNCHANGED battVars => PacksInv'
<1> SUFFICES ASSUME PacksInv, AskSerial, UNCHANGED battVars PROVE PacksInv'
    OBVIOUS
<1> USE PacksConstants
<1>1. poll.at = "ask" /\ batt' = batt /\ record' = record
      BY DEF AskSerial, battVars
<1>2. poll.slot \in Slots /\ poll \in Polls /\ packs \in [Slots -> PackStates]
      /\ bus \in [fitted : Fittings, on : SUBSET Slots, late : Replies]
      BY <1>1 DEF PacksInv, DiscoveryInv, PackTypes
<1> DEFINE Found(x) == Accepts(x[1], "serial", NoSerial)
<1>3. PICK x \in Exchanges("serial", NoSerial) :
         /\ bus' = [bus EXCEPT !.late = x[2]]
         /\ packs' = IF Found(x) /\ ~Duplicate(x[1].serial)
                     THEN [packs EXCEPT ![poll.slot].present = TRUE, ![poll.slot].serial = x[1].serial]
                     ELSE packs
         /\ poll' = IF ~Found(x) /\ poll.tries < Retries
                    THEN [poll EXCEPT !.tries = @ + 1] ELSE [poll EXCEPT !.at = "again"]
      BY DEF AskSerial
<1>4. x[1].serial \in Names /\ x[2] \in Replies
      BY <1>2, ExchangeTypes
<1>5. bus' \in [fitted : Fittings, on : SUBSET Slots, late : Replies]
      BY <1>2, <1>3, <1>4
<1>6. poll' \in Polls /\ poll'.slot = poll.slot
      /\ (poll'.at = "again" \/ (poll'.at = "ask" /\ ~Found(x)))
      BY <1>1, <1>2, <1>3 DEF Polls, Discovery
<1>7. /\ packs' \in [Slots -> PackStates]
      /\ \A s \in Slots : packs'[s].pack = packs[s].pack /\ packs'[s].cell = packs[s].cell
      /\ \A s \in Slots : s # poll.slot =>
            packs'[s].present = packs[s].present /\ packs'[s].serial = packs[s].serial
      /\ \/ packs' = packs
         \/ packs'[poll.slot].serial = x[1].serial /\ ~Duplicate(x[1].serial) /\ Found(x)
  <2>1. CASE packs' = packs
        BY <1>2, <2>1
  <2>2. CASE /\ Found(x) /\ ~Duplicate(x[1].serial)
             /\ packs' = [packs EXCEPT ![poll.slot].present = TRUE, ![poll.slot].serial = x[1].serial]
    <3> HIDE DEF Found
    <3>1. packs' \in [Slots -> PackStates]
          BY ZenonT(40), <1>2, <1>4, <2>2 DEF PackStates
    <3>2. QED BY <1>2, <2>2, <3>1 DEF PackStates
  <2>3. QED BY <1>3, <2>1, <2>2
<1> HIDE DEF Found
<1>8. PackTypes'
      BY <1>1, <1>5, <1>6, <1>7 DEF PacksInv, PackTypes
<1>9. Present' \subseteq Present \cup {poll.slot} /\ (packs' = packs => Present' = Present)
      BY <1>7 DEF Present
<1>10. \A s \in Present : s < poll.slot
      BY <1>1 DEF PacksInv, DiscoveryInv
<1>11. \A s \in Present' : s <= poll'.slot /\ (poll'.at = "ask" => s < poll'.slot)
  <2>1. poll'.at = "ask" => packs' = packs
        BY <1>3, <1>6
  <2>2. Present \subseteq Nat /\ poll.slot \in Nat
        BY <1>2 DEF Present
  <2>3. QED BY <1>6, <1>9, <1>10, <2>1, <2>2
<1>12. \A s, t \in Present' : packs'[s].serial = packs'[t].serial => s = t
  <2>1. CASE packs' = packs
        BY <1>9, <2>1 DEF PacksInv, DiscoveryInv
  <2>2. CASE packs'[poll.slot].serial = x[1].serial /\ ~Duplicate(x[1].serial)
    <3>1. \A s \in Present : packs[s].serial # x[1].serial
          BY <1>2, <1>10, <2>2 DEF Duplicate, Present, Slots
    <3>2. \A s, t \in Present : packs[s].serial = packs[t].serial => s = t
          BY DEF PacksInv, DiscoveryInv
    <3>3. \A s \in Present : packs'[s].serial = packs[s].serial
          BY <1>7, <1>10 DEF Present
    <3>4. QED BY <1>9, <2>2, <3>1, <3>2, <3>3
  <2>3. QED BY <1>7, <2>1, <2>2
<1>13. DiscoveryInv'
      BY <1>1, <1>2, <1>6, <1>7, <1>11, <1>12 DEF PacksInv, DiscoveryInv, Discovery
<1>14. QED BY <1>6, <1>8, <1>13, NothingRead DEF PacksInv, Discovery

LEMMA SwitchOffKeeps == PacksInv /\ SwitchOff /\ UNCHANGED battVars => PacksInv'
<1> SUFFICES ASSUME PacksInv, SwitchOff, UNCHANGED battVars PROVE PacksInv'
    OBVIOUS
<1> USE PacksConstants
<1>1. /\ poll.at = "again" /\ packs' = packs /\ batt' = batt /\ record' = record
      /\ poll' = IF poll.slot < PackCount
                 THEN [at |-> "switch", slot |-> poll.slot + 1, tries |-> 0]
                 ELSE [at |-> "last", slot |-> 1, tries |-> 0]
      BY DEF SwitchOff, battVars
<1>2. bus' \in [fitted : Fittings, on : SUBSET Slots, late : Replies]
      BY Switched DEF SwitchOff, PacksInv
<1>3. poll.slot \in Slots
      BY <1>1 DEF PacksInv, DiscoveryInv
<1>4. poll' \in Polls
      BY <1>1, <1>3 DEF Polls, Discovery, Slots
<1>5. PackTypes'
      BY <1>1, <1>2, <1>4 DEF PacksInv, PackTypes
<1>6. DiscoveryInv'
  <2>1. \A s \in Present : s <= poll.slot /\ s \in Nat
        BY <1>1 DEF PacksInv, DiscoveryInv, Present
  <2>2. Present' = Present
        BY <1>1 DEF Present
  <2>3. QED BY <1>1, <1>3, <2>1, <2>2 DEF PacksInv, DiscoveryInv, Discovery, Slots
<1>7. QED BY <1>1, <1>5, <1>6, NothingRead DEF PacksInv, Discovery

-----------------------------------------------------------------------------
(* The rounds.  What the steps of a round change of the polls and the      *)
(* copies, slot by slot. *)

LEMMA SwitchPresentKeeps == PacksInv /\ SwitchPresent /\ BattStarts => PacksInv'
<1> SUFFICES ASSUME PacksInv, SwitchPresent, BattStarts PROVE PacksInv'
    OBVIOUS
<1> USE PacksConstants
<1>1. /\ poll.at = "last" /\ packs' = packs /\ record' = record
      /\ poll' = [poll EXCEPT !.at = "idle"]
      /\ batt' = [states |-> [s \in Slots |-> NoPack], sum |-> [NoSum EXCEPT !.present = Cardinality(Present)]]
      BY DEF SwitchPresent, BattStarts
<1>2. Present \subseteq Slots /\ Present' = Present
      BY <1>1 DEF Present
<1>3. bus' \in [fitted : Fittings, on : SUBSET Slots, late : Replies]
      BY <1>2, Switched DEF SwitchPresent, PacksInv
<1>4. Cardinality(Present) \in Nat
  <2>1. IsFiniteSet(Slots)
        BY FS_Interval DEF Slots
  <2>2. QED BY <1>2, <2>1, FS_Subset, FS_CardinalityType
<1>5. batt.states' = [s \in Slots |-> NoPack]
      /\ batt.sum' = [present |-> Cardinality(Present), over |-> {}, cells |-> {}]
      BY <1>1 DEF NoSum
<1>6. PackTypes'
  <2>1. batt' \in [states : [Slots -> PackStates],
                   sum : [present : Nat, over : SUBSET Ages, cells : SUBSET Ages]]
        BY <1>1, <1>4, Blanks DEF NoSum
  <2>2. poll' \in Polls
    <3>1. poll \in Polls
          BY DEF PacksInv, PackTypes
    <3>2. QED BY <1>1, <3>1 DEF Polls
  <2>3. QED BY <1>1, <1>3, <2>1, <2>2 DEF PacksInv, PackTypes
<1>7. poll.at \in Discovery /\ poll'.at = "idle"
      BY <1>1 DEF Discovery, PacksInv, PackTypes, Polls
<1>8. DiscoveryInv'
      BY <1>1, <1>2, <1>7 DEF PacksInv, DiscoveryInv, Discovery
<1>9. /\ \A s \in Slots : ~packs'[s].pack.valid /\ ~packs'[s].cell.valid
      /\ record'.at = "idle" /\ ~record'.written.valid
      BY <1>1, <1>7 DEF PacksInv, DiscoveryInv
<1>10. \A s \in Slots : ~batt'.states[s].pack.valid /\ ~batt'.states[s].cell.valid
      BY <1>5, Blanks
<1>11. ReadingsInv' /\ CopiesInv' /\ SumsInv' /\ RecordInv'
      BY <1>5, <1>9, <1>10 DEF ReadingsInv, CopiesInv, SumsInv, RecordInv
<1>12. QED BY <1>6, <1>8, <1>11 DEF PacksInv

(* Where the polls go on. *)
LEMMA GoToIs ==
    ASSUME PackTypes, NEW s \in 1 .. PackCount + 1
    PROVE  LET next == GoTo(NextPresent(s))
           IN /\ next \in Polls /\ next.at \in {"pack", "copy"}
              /\ next.at = "pack" => next.slot \in Present /\ next.slot >= s
                                     /\ \A t \in Present : t >= s => t >= next.slot
              /\ next.at = "copy" => next.slot = 1 /\ \A t \in Present : t < s
<1> USE PacksConstants
<1> DEFINE np == NextPresent(s)
<1>1. /\ np \in s .. PackCount + 1 /\ np \in 1 .. PackCount + 1
      /\ \A t \in Present : t >= s => t >= np
      /\ np <= PackCount => np \in Present
      BY NextPresentIs DEF PackTypes
<1>2. Present \subseteq 1 .. PackCount
      BY DEF Present, Slots
<1> HIDE DEF np
<1>3. CASE np > PackCount
  <2>1. GoTo(np) = [at |-> "copy", slot |-> 1, tries |-> 0]
        BY <1>3 DEF GoTo
  <2>2. \A t \in Present : t < s
        BY <1>1, <1>2, <1>3
  <2>3. QED BY <2>1, <2>2 DEF np, Polls
<1>4. CASE np <= PackCount
  <2>1. GoTo(np) = [at |-> "pack", slot |-> np, tries |-> 0]
        BY <1>1, <1>4 DEF GoTo
  <2>2. np \in Present /\ np >= s
        BY <1>1, <1>4
  <2>3. QED BY <1>1, <2>1, <2>2 DEF np, Polls
<1>5. QED BY <1>1, <1>3, <1>4

LEMMA StartRoundKeeps == PacksInv /\ StartRound /\ CopiesAge => PacksInv'
<1> SUFFICES ASSUME PacksInv, StartRound, CopiesAge PROVE PacksInv'
    OBVIOUS
<1> USE PacksConstants
<1>1. /\ poll.at = "idle" /\ record' = record
      /\ packs' = [s \in Slots |-> [packs[s] EXCEPT !.pack = Old(@), !.cell = Old(@)]]
      /\ poll' = GoTo(NextPresent(1)) /\ bus' = [bus EXCEPT !.late = NoReply]
      /\ batt' = [states |-> [s \in Slots |-> [batt.states[s] EXCEPT !.pack = Old(@), !.cell = Old(@)]],
                  sum |-> [batt.sum EXCEPT !.over = {Old(reading) : reading \in @},
                                           !.cells = {Old(reading) : reading \in @}]]
      BY DEF StartRound, CopiesAge
<1>2. /\ packs \in [Slots -> PackStates] /\ batt.states \in [Slots -> PackStates]
      /\ batt.sum \in [present : Nat, over : SUBSET Ages, cells : SUBSET Ages]
      /\ bus \in [fitted : Fittings, on : SUBSET Slots, late : Replies]
      BY DEF PacksInv, PackTypes
<1>3. ASSUME NEW p \in PackStates, NEW q, q = [p EXCEPT !.pack = Old(@), !.cell = Old(@)]
      PROVE  /\ q \in PackStates /\ q.present = p.present /\ q.serial = p.serial
             /\ q.pack.valid = p.pack.valid /\ q.pack.from = p.pack.from /\ q.pack.age <= p.pack.age + 1
             /\ q.cell.valid = p.cell.valid /\ q.cell.from = p.cell.from /\ q.cell.age <= p.cell.age + 1
  <2>1. p.pack \in Ages /\ p.cell \in Ages
        BY DEF PackStates
  <2>2. q.pack = Old(p.pack) /\ q.cell = Old(p.cell) /\ q.present = p.present /\ q.serial = p.serial
        BY <1>3 DEF PackStates
  <2>3. Old(p.pack) \in Ages /\ Old(p.cell) \in Ages
        BY <2>1, OldIs
  <2>4. q \in PackStates
        BY <1>3, <2>3 DEF PackStates
  <2>5. QED BY <2>1, <2>2, <2>4, OldIs
<1>4. \A s \in Slots : LET p == packs[s] q == packs'[s] IN
        /\ q \in PackStates /\ q.present = p.present /\ q.serial = p.serial
        /\ q.pack.valid = p.pack.valid /\ q.pack.from = p.pack.from /\ q.pack.age <= p.pack.age + 1
        /\ q.cell.valid = p.cell.valid /\ q.cell.from = p.cell.from /\ q.cell.age <= p.cell.age + 1
      BY <1>1, <1>2, <1>3
<1>5. \A s \in Slots : LET p == batt.states[s] q == batt.states'[s] IN
        /\ q \in PackStates
        /\ q.pack.valid = p.pack.valid /\ q.pack.from = p.pack.from /\ q.pack.age <= p.pack.age + 1
        /\ q.cell.valid = p.cell.valid /\ q.cell.age <= p.cell.age + 1
  <2>1. \A s \in Slots : batt.states'[s] = [batt.states[s] EXCEPT !.pack = Old(@), !.cell = Old(@)]
        BY ONLY <1>1
  <2>2. QED BY ZenonT(40), <1>2, <1>3, <2>1
<1>6. /\ batt.sum'.over = {Old(reading) : reading \in batt.sum.over}
      /\ batt.sum'.cells = {Old(reading) : reading \in batt.sum.cells}
      /\ batt.sum' \in [present : Nat, over : SUBSET Ages, cells : SUBSET Ages]
  <2>1. {Old(reading) : reading \in batt.sum.over} \subseteq Ages
        /\ {Old(reading) : reading \in batt.sum.cells} \subseteq Ages
        BY <1>2, OldIs
  <2>2. QED BY <1>1, <1>2, <2>1
<1>7. Present' = Present
      BY <1>4 DEF Present
<1>8. /\ poll' \in Polls /\ poll'.at \in {"pack", "copy"}
      /\ poll'.at = "pack" => poll'.slot \in Present /\ \A t \in Present : t >= poll'.slot
      /\ poll'.at = "copy" => poll'.slot = 1 /\ Present = {}
  <2>1. 1 \in 1 .. PackCount + 1 /\ Present \subseteq Slots /\ \A t \in Slots : t >= 1 /\ ~(t < 1)
        BY DEF Present, Slots
  <2> DEFINE next == GoTo(NextPresent(1))
  <2>2. /\ next \in Polls /\ next.at \in {"pack", "copy"}
        /\ next.at = "pack" => next.slot \in Present /\ \A t \in Present : t >= 1 => t >= next.slot
        /\ next.at = "copy" => next.slot = 1 /\ \A t \in Present : t < 1
        BY <2>1, GoToIs DEF PacksInv
  <2>3. poll' = next
        BY <1>1
  <2> HIDE DEF next
  <2>4. QED BY <2>1, <2>2, <2>3
<1>9. PackTypes'
  <2>1. packs' \in [Slots -> PackStates]
        BY <1>1, <1>4
  <2>2. batt.states' \in [Slots -> PackStates]
        BY <1>1, <1>5
  <2>3. batt' \in [states : [Slots -> PackStates],
                   sum : [present : Nat, over : SUBSET Ages, cells : SUBSET Ages]]
        BY <1>1, <1>6, <2>2
  <2>4. bus' \in [fitted : Fittings, on : SUBSET Slots, late : Replies]
        BY <1>1, <1>2, Blanks
  <2>5. QED BY <1>1, <1>8, <2>1, <2>3, <2>4 DEF PacksInv, PackTypes
<1>10. DiscoveryInv'
      BY <1>4, <1>7, <1>8 DEF PacksInv, DiscoveryInv, Discovery, Present
<1>11. \A s \in Slots : /\ packs[s].pack.valid => s \in Present /\ packs[s].pack.from = packs[s].serial
                                               /\ packs[s].pack.age = 0
                        /\ packs[s].cell.valid => s \in Present /\ packs[s].cell.from = packs[s].serial
                                               /\ packs[s].cell.age = 0
  <2>1. \A s \in Slots : PackAge(s) = 0 /\ CellAge(s) = 0
        BY <1>1 DEF PackAge, CellAge
  <2>2. \A s \in Slots : packs[s].pack.age \in Nat /\ packs[s].cell.age \in Nat
        BY <1>2 DEF PackStates, Ages
  <2>3. ReadingsInv
        BY DEF PacksInv
  <2>4. \A s \in Slots :
          /\ packs[s].pack.valid => s \in Present /\ packs[s].pack.from = packs[s].serial
                                    /\ packs[s].pack.age <= 0
          /\ packs[s].cell.valid => s \in Present /\ packs[s].cell.from = packs[s].serial
                                    /\ packs[s].cell.age <= 0
        BY ONLY <2>1, <2>3 DEF ReadingsInv
  <2>5. QED BY ONLY <2>2, <2>4
<1>12. ReadingsInv'
  <2>1. \A s \in Present : PackAge(s)' = 1 /\ CellAge(s)' = 1
        BY <1>8 DEF PackAge, CellAge
  <2>2. \A s \in Slots : packs[s] \in PackStates /\ packs'[s] \in PackStates
        BY <1>2, <1>4
  <2>3. \A s \in Slots : packs[s].pack.age \in Nat /\ packs[s].cell.age \in Nat
                        /\ packs'[s].pack.age \in Nat /\ packs'[s].cell.age \in Nat
        BY ONLY <2>2, AgesAreNat
  <2>4. \A s \in Slots :
          /\ packs'[s].pack.valid => s \in Present /\ packs'[s].pack.from = packs'[s].serial
                                    /\ packs'[s].pack.age <= 1
          /\ packs'[s].cell.valid => s \in Present /\ packs'[s].cell.from = packs'[s].serial
                                    /\ packs'[s].cell.age <= 1
    <3> TAKE s \in Slots
    <3>1. /\ packs'[s].serial = packs[s].serial
          /\ packs'[s].pack.valid = packs[s].pack.valid /\ packs'[s].pack.from = packs[s].pack.from
          /\ packs'[s].cell.valid = packs[s].cell.valid /\ packs'[s].cell.from = packs[s].cell.from
          /\ packs'[s].pack.age <= packs[s].pack.age + 1 /\ packs'[s].cell.age <= packs[s].cell.age + 1
          BY ONLY <1>4
    <3>2. /\ packs[s].pack.valid => s \in Present /\ packs[s].pack.from = packs[s].serial
                                    /\ packs[s].pack.age = 0
          /\ packs[s].cell.valid => s \in Present /\ packs[s].cell.from = packs[s].serial
                                    /\ packs[s].cell.age = 0
          BY ONLY <1>11
    <3>3. QED BY ONLY <3>1, <3>2
  <2>5. QED BY <1>7, <2>1, <2>4 DEF ReadingsInv
<1>13. \A s \in Slots : CopyAge(s) = 0 /\ CopyAge(s)' = 1
  <2>1. \A s \in Slots : ~(s < 1)
        BY DEF Slots
  <2>2. poll'.at = "pack" \/ (poll'.at = "copy" /\ poll'.slot = 1)
        BY <1>8
  <2>3. QED BY <1>1, <2>1, <2>2 DEF CopyAge
<1>14. CopiesInv'
  <2>1. \A s \in Slots : packs[s].pack.age \in Nat /\ batt.states[s].pack.age \in Nat
                        /\ batt.states[s].cell.age \in Nat /\ packs'[s].pack.age \in Nat
                        /\ batt.states'[s].pack.age \in Nat /\ batt.states'[s].cell.age \in Nat
    <3>1. \A s \in Slots : packs[s] \in PackStates /\ packs'[s] \in PackStates
                          /\ batt.states[s] \in PackStates /\ batt.states'[s] \in PackStates
          BY <1>2, <1>4, <1>5
    <3>2. QED BY ONLY <3>1, AgesAreNat
  <2>2. \A s \in Slots :
          /\ batt.states[s].pack.valid =>
                /\ batt.states[s].pack.from = packs[s].serial /\ batt.states[s].pack.age <= 0
                /\ packs[s].pack.from = packs[s].serial /\ packs[s].pack.age <= 0
          /\ batt.states[s].cell.valid => batt.states[s].cell.age <= 0
        BY <1>13 DEF PacksInv, CopiesInv
  <2>3. \A s \in Slots :
          /\ batt.states'[s].pack.valid =>
                /\ batt.states'[s].pack.from = packs'[s].serial /\ batt.states'[s].pack.age <= 1
                /\ packs'[s].pack.from = packs'[s].serial /\ packs'[s].pack.age <= 1
          /\ batt.states'[s].cell.valid => batt.states'[s].cell.age <= 1
    <3> TAKE s \in Slots
    <3>1. /\ packs'[s].serial = packs[s].serial
          /\ packs'[s].pack.from = packs[s].pack.from /\ packs'[s].pack.age <= packs[s].pack.age + 1
          BY ONLY <1>4
    <3>2. /\ batt.states'[s].pack.valid = batt.states[s].pack.valid
          /\ batt.states'[s].pack.from = batt.states[s].pack.from
          /\ batt.states'[s].cell.valid = batt.states[s].cell.valid
          /\ batt.states'[s].pack.age <= batt.states[s].pack.age + 1
          /\ batt.states'[s].cell.age <= batt.states[s].cell.age + 1
          BY ONLY <1>5
    <3>3. /\ batt.states[s].pack.valid =>
                /\ batt.states[s].pack.from = packs[s].serial /\ batt.states[s].pack.age <= 0
                /\ packs[s].pack.from = packs[s].serial /\ packs[s].pack.age <= 0
          /\ batt.states[s].cell.valid => batt.states[s].cell.age <= 0
          BY ONLY <2>2
    <3>4. /\ packs[s].pack.age \in Nat /\ batt.states[s].pack.age \in Nat
          /\ batt.states[s].cell.age \in Nat /\ packs'[s].pack.age \in Nat
          /\ batt.states'[s].pack.age \in Nat /\ batt.states'[s].cell.age \in Nat
          BY ONLY <2>1
    <3>5. QED BY ONLY <3>1, <3>2, <3>3, <3>4
  <2>4. QED BY <1>13, <2>3 DEF CopiesInv
<1>15. SumsInv'
  <2>1. \A reading \in batt.sum.over \cup batt.sum.cells : reading \in Ages /\ reading.valid /\ reading.age = 0
        BY <1>1, <1>2 DEF PacksInv, SumsInv
  <2>2. \A reading \in batt.sum'.over \cup batt.sum'.cells : reading.valid /\ reading.age = 1
        BY <1>6, <2>1, OldIs
  <2>3. QED BY <1>8, <2>2 DEF SumsInv
<1>16. RecordInv'
  <2>1. record.slot \in Slots /\ record \in [at : {"idle", "values"}, slot : Slots, valid : BOOLEAN,
                                             written : Ages, crossed : BOOLEAN]
        BY DEF PacksInv, PackTypes
  <2>2. batt.states[record.slot] \in PackStates /\ batt.states'[record.slot] \in PackStates
        BY <1>2, <1>5, <2>1
  <2>3. batt.states[record.slot].pack.age \in Nat /\ batt.states'[record.slot].pack.age \in Nat
        BY <2>2, AgesAreNat
  <2> DEFINE s == record.slot
  <2>4. /\ packs'[s].serial = packs[s].serial /\ CopyAge(s) = 0 /\ CopyAge(s)' = 1
        /\ batt.states'[s].pack.valid = batt.states[s].pack.valid
        /\ batt.states'[s].pack.from = batt.states[s].pack.from
        /\ batt.states'[s].pack.age <= batt.states[s].pack.age + 1
    <3>1. \A t \in Slots :
            /\ packs'[t].serial = packs[t].serial /\ CopyAge(t) = 0 /\ CopyAge(t)' = 1
            /\ batt.states'[t].pack.valid = batt.states[t].pack.valid
            /\ batt.states'[t].pack.from = batt.states[t].pack.from
            /\ batt.states'[t].pack.age <= batt.states[t].pack.age + 1
          BY <1>4, <1>5, <1>13
    <3>2. QED BY <2>1, <3>1, <1>1
  <2>5. /\ record.at = "values" /\ record.valid =>
              IF record.crossed
              THEN batt.states[s].pack.from = packs[s].serial /\ batt.states[s].pack.age <= 1
              ELSE batt.states[s].pack.valid
        /\ record.written.valid => record.written.from = packs[s].serial /\ record.written.age <= 2
        BY <2>4 DEF PacksInv, RecordInv
  <2>6. /\ record.at = "values" /\ record.valid =>
              IF record.crossed
              THEN batt.states'[s].pack.from = packs'[s].serial /\ batt.states'[s].pack.age <= 2
              ELSE batt.states'[s].pack.valid
        /\ record.written.valid => record.written.from = packs'[s].serial /\ record.written.age <= 2
        BY <2>3, <2>4, <2>5
  <2>7. /\ record' = record /\ poll'.at \notin {"idle", "report"}
        /\ ~(poll'.at = "copy" /\ record.slot < poll'.slot)
    <3>1. ~(record.slot < 1)
          BY ONLY <2>1, PacksConstants DEF Slots
    <3>2. QED BY ONLY <1>1, <1>8, <3>1
  <2>8. QED BY ONLY <2>6, <2>7 DEF RecordInv, CopyAge
<1>17. QED BY <1>9, <1>10, <1>12, <1>14, <1>15, <1>16 DEF PacksInv

(* A step of the polls that changes at most one slot's reading, in a       *)
(* phase in which what is copied is a round old.                           *)
LEMMA PollKeeps ==
    ASSUME PacksInv, UNCHANGED battVars, poll.at \in {"pack", "cell"}, NEW r \in Replies,
           bus' = [bus EXCEPT !.late = r], poll' \in Polls, poll'.at \in {"pack", "cell", "copy"},
           poll'.at = "copy" => poll'.slot = 1,
           poll'.at \in {"pack", "cell"} => poll'.slot \in Present,
           packs' \in [Slots -> PackStates], ReadingsInv',
           \A s \in Slots : /\ packs'[s].present = packs[s].present /\ packs'[s].serial = packs[s].serial
                            /\ \/ packs'[s].pack.from = packs[s].pack.from
                                  /\ packs'[s].pack.age = packs[s].pack.age
                               \/ packs'[s].pack.from = packs[s].serial /\ packs'[s].pack.age = 0
    PROVE  PacksInv'
<1> USE PacksConstants
<1>1. batt' = batt /\ record' = record
      BY DEF battVars
<1>2. bus' \in [fitted : Fittings, on : SUBSET Slots, late : Replies]
      BY DEF PacksInv, PackTypes
<1>3. PackTypes'
      BY <1>1, <1>2 DEF PacksInv, PackTypes
<1>4. Present' = Present
      BY DEF Present
<1>5. DiscoveryInv'
      BY <1>1, <1>4 DEF PacksInv, DiscoveryInv, Discovery, Present
<1>6. \A s \in Slots : ~(s < 1)
      BY DEF Slots
<1>7. /\ \A s \in Slots : CopyAge(s) = 1 /\ CopyAge(s)' = 1
      /\ poll.at \notin {"idle", "report"} /\ poll'.at \notin {"idle", "report"}
      BY <1>6 DEF CopyAge
<1>8. CopiesInv'
      BY <1>1, <1>7 DEF PacksInv, CopiesInv
<1>9. SumsInv'
      BY <1>1, <1>7 DEF PacksInv, SumsInv
<1>10. RecordInv'
  <2>1. record.slot \in Slots
        BY DEF PacksInv, PackTypes
  <2>2. packs'[record.slot].serial = packs[record.slot].serial /\ ~(record.slot < 1)
        BY <1>6, <2>1
  <2>3. CopyAge(record.slot) = 1
        BY <1>7, <2>1
  <2>4. ~(poll'.at = "copy" /\ record.slot < poll'.slot)
        BY <2>2
  <2>5. RecordInv
        BY DEF PacksInv
  <2>6. QED BY <1>1, <1>7, <2>2, <2>3, <2>4, <2>5 DEF RecordInv, CopyAge
<1>11. QED BY <1>3, <1>5, <1>8, <1>9, <1>10 DEF PacksInv

LEMMA ReadKeeps ==
    ASSUME PacksInv, UNCHANGED battVars, NEW kind \in {"pack", "cell"}, Read(kind)
    PROVE  PacksInv'
<1> USE PacksConstants
<1> DEFINE p == packs[poll.slot]
<1>1. /\ poll.at = kind /\ poll.slot \in Slots /\ poll \in Polls /\ packs \in [Slots -> PackStates]
      /\ bus \in [fitted : Fittings, on : SUBSET Slots, late : Replies] /\ p \in PackStates
      BY DEF Read, PacksInv, DiscoveryInv, PackTypes, Present
<1>2. p.serial \in Names /\ p.pack \in Ages /\ p.cell \in Ages /\ p.failures \in 0 .. FailureLimit
      BY <1>1 DEF PackStates
<1>3. PICK x \in Exchanges(kind, p.serial) :
         /\ bus' = [bus EXCEPT !.late = x[2]]
         /\ \/ /\ Accepts(x[1], kind, p.serial)
               /\ packs' = [packs EXCEPT ![poll.slot] =
                     Outcome(p, kind, [valid |-> TRUE, from |-> x[1].serial, age |-> 0])]
               /\ poll' = AfterRead(kind)
            \/ /\ poll.tries < Retries /\ poll' = [poll EXCEPT !.tries = @ + 1] /\ packs' = packs
            \/ /\ packs' = [packs EXCEPT ![poll.slot] = Outcome(p, kind, [p[kind] EXCEPT !.valid = FALSE])]
               /\ poll' = AfterRead(kind)
      BY DEF Read
<1>4. x[2] \in Replies
      BY <1>1, ExchangeTypes
<1>5. CASE poll.tries < Retries /\ poll' = [poll EXCEPT !.tries = @ + 1] /\ packs' = packs
  <2>1. poll' \in Polls /\ poll'.at = poll.at /\ poll'.slot = poll.slot
        BY <1>1, <1>5 DEF Polls
  <2>2. ReadingsInv'
        BY <1>5, <2>1 DEF PacksInv, ReadingsInv, PackAge, CellAge, Present
  <2>3. poll.slot \in Present
        BY <1>1 DEF PacksInv, DiscoveryInv
  <2>4. QED BY <1>1, <1>3, <1>4, <1>5, <2>1, <2>2, <2>3, PollKeeps
<1>6. ASSUME NEW reading \in Ages, reading.valid => reading.from = p.serial /\ reading.age = 0,
             ~reading.valid => reading.from = p[kind].from /\ reading.age = p[kind].age,
             packs' = [packs EXCEPT ![poll.slot] = Outcome(p, kind, reading)], poll' = AfterRead(kind)
      PROVE  PacksInv'
  <2> DEFINE q == Outcome(p, kind, reading)
  <2>1. /\ q \in PackStates /\ q.present = p.present /\ q.serial = p.serial
        /\ kind = "pack" => q.pack = reading /\ q.cell = p.cell
        /\ kind = "cell" => q.cell = reading /\ q.pack = p.pack
    <3>1. p.failures < FailureLimit => p.failures + 1 \in 0 .. FailureLimit
          BY <1>2
    <3>2. CASE kind = "pack"
      <4> DEFINE count == IF reading.valid THEN 0
                          ELSE IF p.failures < FailureLimit THEN p.failures + 1 ELSE p.failures
      <4>1. q = [p EXCEPT !.pack = reading, !.failures = count]
            BY <3>2 DEF Outcome
      <4>2. p \in PackStates
            BY <1>1
      <4>3. count \in 0 .. FailureLimit
            BY <1>2, <3>1
      <4> HIDE DEF q, p, count
      <4>4. QED BY ONLY <4>2, <4>3, <1>6, <3>2, <4>1 DEF PackStates
    <3>3. CASE kind = "cell"
      <4> DEFINE count == IF reading.valid THEN 0
                          ELSE IF p.failures < FailureLimit THEN p.failures + 1 ELSE p.failures
      <4>1. q = [p EXCEPT !.cell = reading, !.failures = count]
            BY <3>3 DEF Outcome
      <4>2. p \in PackStates
            BY <1>1
      <4>3. count \in 0 .. FailureLimit
            BY <1>2, <3>1
      <4> HIDE DEF q, p, count
      <4>4. QED BY ONLY <4>2, <4>3, <1>6, <3>3, <4>1 DEF PackStates
    <3>4. QED BY <3>2, <3>3
  <2>2. packs' \in [Slots -> PackStates] /\ packs'[poll.slot] = q
        /\ \A s \in Slots : s # poll.slot => packs'[s] = packs[s]
        BY <1>1, <1>6, <2>1
  <2> HIDE DEF q
  <2>3. /\ poll' \in Polls
        /\ kind = "pack" => poll'.at = "cell" /\ poll'.slot = poll.slot
        /\ kind = "cell" =>
              /\ poll'.at \in {"pack", "copy"}
              /\ poll'.at = "copy" => poll'.slot = 1 /\ \A t \in Present : t <= poll.slot
              /\ poll'.at = "pack" => poll'.slot \in Present /\ poll'.slot > poll.slot
                                     /\ \A t \in Present : t > poll.slot => t >= poll'.slot
    <3>1. CASE kind = "pack"
      <4>1. poll' = [at |-> "cell", slot |-> poll.slot, tries |-> 0]
            BY <1>6, <3>1 DEF AfterRead
      <4>2. QED BY <1>1, <3>1, <4>1 DEF Polls, Slots
    <3>2. CASE kind = "cell"
      <4> DEFINE next == GoTo(NextPresent(poll.slot + 1))
      <4>1. poll.slot + 1 \in 1 .. PackCount + 1
            BY <1>1 DEF Slots
      <4>2. poll' = next
            BY <1>6, <3>2 DEF AfterRead
      <4>3. /\ next \in Polls /\ next.at \in {"pack", "copy"}
            /\ next.at = "pack" => next.slot \in Present /\ next.slot >= poll.slot + 1
                                  /\ \A t \in Present : t >= poll.slot + 1 => t >= next.slot
            /\ next.at = "copy" => next.slot = 1 /\ \A t \in Present : t < poll.slot + 1
            BY <4>1, GoToIs DEF PacksInv
      <4> HIDE DEF next
      <4>4. Present \subseteq Nat /\ poll.slot \in Nat /\ (next.at = "pack" => next.slot \in Nat)
            BY <1>1, <4>3 DEF Present
      <4>5. QED BY ONLY <3>2, <4>2, <4>3, <4>4
    <3>3. QED BY <3>1, <3>2
  <2>4. \A s \in Slots :
          /\ packs'[s].present = packs[s].present /\ packs'[s].serial = packs[s].serial
          /\ \/ packs'[s].pack.from = packs[s].pack.from /\ packs'[s].pack.age = packs[s].pack.age
             \/ packs'[s].pack.from = packs[s].serial /\ packs'[s].pack.age = 0
    <3>1. p.pack = p["pack"]
          OBVIOUS
    <3>2. QED BY <1>1, <1>6, <2>1, <2>2, <3>1
  <2>5. Present' = Present
        BY <2>4 DEF Present
  <2>6. ReadingsInv
        BY DEF PacksInv
  <2>7. /\ poll.slot \in Present /\ poll.slot \in Nat /\ Present \subseteq Nat
        /\ kind = "pack" => poll'.slot \in Present
    <3>1. poll.slot \in Present
          BY <1>1 DEF PacksInv, DiscoveryInv
    <3>2. Present \subseteq Nat
          BY DEF Present
    <3>3. QED BY <1>1, <2>3, <3>1, <3>2
  <2>8. ReadingsInv'
    <3> SUFFICES ASSUME NEW s \in Slots
                 PROVE  /\ packs'[s].pack.valid => /\ s \in Present /\ packs'[s].pack.from = packs'[s].serial
                                                  /\ packs'[s].pack.age <= PackAge(s)'
                        /\ packs'[s].cell.valid => /\ s \in Present /\ packs'[s].cell.from = packs'[s].serial
                                                  /\ packs'[s].cell.age <= CellAge(s)'
        BY <2>5 DEF ReadingsInv
    <3> s \in Nat
        OBVIOUS
    <3>1. CASE kind = "pack"
      <4>1. poll.at = "pack" /\ poll'.at = "cell" /\ poll'.slot = poll.slot
            BY <1>1, <2>3, <3>1
      <4>2. CASE s = poll.slot
        <5>1. packs'[s].pack = reading /\ packs'[s].cell = packs[s].cell /\ packs'[s].serial = packs[s].serial
              BY <2>1, <2>2, <3>1, <4>2
        <5>2. PackAge(s)' = 0 /\ CellAge(s)' = CellAge(s)
              BY ONLY <2>7, <4>1, <4>2 DEF PackAge, CellAge
        <5>3. QED BY <1>6, <2>6, <2>7, <4>2, <5>1, <5>2 DEF ReadingsInv
      <4>3. CASE s # poll.slot
        <5>1. packs'[s] = packs[s]
              BY <2>2, <4>3
        <5>2. PackAge(s)' = PackAge(s) /\ CellAge(s)' = CellAge(s)
              BY ONLY <2>7, <4>1, <4>3, s \in Nat DEF PackAge, CellAge
        <5>3. QED BY <2>6, <5>1, <5>2 DEF ReadingsInv
      <4>4. QED BY <4>2, <4>3
    <3>2. CASE kind = "cell"
      <4>0. /\ poll'.at = "pack" => poll'.slot \in Present /\ poll'.slot > poll.slot
                                      /\ \A t \in Present : t > poll.slot => t >= poll'.slot
            BY <2>3, <3>2
      <4>1. poll.at = "cell"
            BY <1>1, <3>2
      <4> DEFINE nu == poll'.slot
      <4>5. poll'.at = "pack" => nu \in Nat /\ nu > poll.slot
            BY ONLY <2>7, <4>0
      <4>6. poll'.at = "pack" /\ s \in Present /\ s > poll.slot => s >= nu
            BY ONLY <4>0
      <4> HIDE DEF nu
      <4>2. CASE s = poll.slot
        <5>1. packs'[s].cell = reading /\ packs'[s].pack = packs[s].pack /\ packs'[s].serial = packs[s].serial
              BY <2>1, <2>2, <3>2, <4>2
        <5>2. PackAge(s) = 0 /\ PackAge(s)' = 0 /\ CellAge(s)' = 0
          <6>1. poll'.at = "pack" => ~(s >= poll'.slot)
            <7>1. poll'.at = "pack" => ~(s >= nu)
                  BY ONLY <2>7, <4>2, <4>5
            <7>2. QED BY <7>1 DEF nu
          <6>2. poll'.at \in {"pack", "copy"}
                BY <2>3, <3>2
          <6>3. QED BY ONLY <2>7, <4>1, <4>2, <6>1, <6>2 DEF PackAge, CellAge
        <5>3. QED BY <1>6, <2>6, <2>7, <4>2, <5>1, <5>2 DEF ReadingsInv
      <4>3. CASE s # poll.slot /\ s \in Present
        <5>1. packs'[s] = packs[s]
              BY <2>2, <4>3
        <5>2. PackAge(s)' = PackAge(s) /\ CellAge(s)' = CellAge(s)
          <6>1. poll'.at = "pack" => (s >= poll'.slot <=> s > poll.slot)
            <7>1. poll'.at = "pack" => (s >= nu <=> s > poll.slot)
                  BY ONLY <2>7, <4>3, <4>5, <4>6, s \in Nat
            <7>2. QED BY <7>1 DEF nu
          <6>2. poll'.at = "copy" => ~(s > poll.slot)
                BY <2>3, <2>7, <3>2, <4>3
          <6>3. poll'.at \in {"pack", "copy"}
                BY <2>3, <3>2
          <6>4. QED BY ONLY <2>7, <4>1, <4>3, <6>1, <6>2, <6>3, s \in Nat DEF PackAge, CellAge
        <5>3. QED BY <2>6, <5>1, <5>2 DEF ReadingsInv
      <4>4. CASE s # poll.slot /\ s \notin Present
            BY <2>2, <2>6, <4>4 DEF ReadingsInv
      <4>7. QED BY <4>2, <4>3, <4>4
    <3>3. QED BY <3>1, <3>2
  <2>9. QED BY <1>1, <1>3, <1>4, <2>2, <2>3, <2>4, <2>7, <2>8, PollKeeps
<1>7. CASE /\ Accepts(x[1], kind, p.serial) /\ poll' = AfterRead(kind)
           /\ packs' = [packs EXCEPT ![poll.slot] =
                 Outcome(p, kind, [valid |-> TRUE, from |-> x[1].serial, age |-> 0])]
  <2> DEFINE reading == [valid |-> TRUE, from |-> x[1].serial, age |-> 0]
  <2>1. x[1].serial = p.serial
        BY <1>7 DEF Accepts
  <2>2. reading \in Ages
        BY <1>2, <2>1 DEF Ages
  <2>3. QED BY <1>6, <1>7, <2>1, <2>2
<1>8. CASE /\ packs' = [packs EXCEPT ![poll.slot] = Outcome(p, kind, [p[kind] EXCEPT !.valid = FALSE])]
           /\ poll' = AfterRead(kind)
  <2> DEFINE reading == [p[kind] EXCEPT !.valid = FALSE]
  <2>1. p[kind] \in Ages
        BY <1>2
  <2>2. reading \in Ages /\ ~reading.valid /\ reading.from = p[kind].from /\ reading.age = p[kind].age
        BY <2>1 DEF Ages
  <2>3. QED BY <1>6, <1>8, <2>2
<1>9. QED BY <1>3, <1>5, <1>7, <1>8

-----------------------------------------------------------------------------
(* After the polls: copies, sums, reports, and records. *)

LEMMA CopyPackKeeps == PacksInv /\ CopyPack /\ ~(record.crossed /\ record.slot = poll.slot) => PacksInv'
<1> SUFFICES ASSUME PacksInv, CopyPack, ~(record.crossed /\ record.slot = poll.slot) PROVE PacksInv'
    OBVIOUS
<1> USE PacksConstants
<1>1. /\ poll.at = "copy" /\ poll.slot <= PackCount /\ bus' = bus /\ packs' = packs
      /\ batt' = [batt EXCEPT !.states[poll.slot] = packs[poll.slot]]
      /\ record' = IF record.at = "values" /\ record.slot = poll.slot
                   THEN [record EXCEPT !.crossed = TRUE] ELSE record
      /\ poll' = [poll EXCEPT !.slot = @ + 1]
      BY DEF CopyPack
<1>2. /\ packs \in [Slots -> PackStates] /\ batt.states \in [Slots -> PackStates] /\ poll \in Polls
      /\ batt \in [states : [Slots -> PackStates],
                   sum : [present : Nat, over : SUBSET Ages, cells : SUBSET Ages]]
      /\ record \in [at : {"idle", "values"}, slot : Slots, valid : BOOLEAN, written : Ages, crossed : BOOLEAN]
      BY DEF PacksInv, PackTypes
<1>3. poll.slot \in Slots /\ poll.slot \in Nat
  <2>1. poll.slot \in 1 .. PackCount + 1
        BY <1>2 DEF Polls
  <2>2. QED BY <1>1, <2>1 DEF Slots
<1>4. poll' \in Polls /\ poll'.at = "copy" /\ poll'.slot = poll.slot + 1
  <2>1. poll.slot + 1 \in 1 .. PackCount + 1
        BY <1>3 DEF Slots
  <2>2. QED BY <1>1, <1>2, <2>1 DEF Polls
<1>5. /\ batt.states' = [batt.states EXCEPT ![poll.slot] = packs[poll.slot]] /\ batt.sum' = batt.sum
      /\ batt' \in [states : [Slots -> PackStates],
                    sum : [present : Nat, over : SUBSET Ages, cells : SUBSET Ages]]
      BY <1>1, <1>2, <1>3
<1>6. /\ record' \in [at : {"idle", "values"}, slot : Slots, valid : BOOLEAN, written : Ages, crossed : BOOLEAN]
      /\ record'.at = record.at /\ record'.slot = record.slot /\ record'.valid = record.valid
      /\ record'.written = record.written
      /\ record'.crossed = (record.crossed \/ (record.at = "values" /\ record.slot = poll.slot))
      BY <1>1, <1>2
<1>7. PackTypes'
      BY <1>1, <1>4, <1>5, <1>6 DEF PacksInv, PackTypes
<1>8. DiscoveryInv'
      BY <1>1, <1>4 DEF PacksInv, DiscoveryInv, Discovery, Present
<1>9. \A s \in Slots : PackAge(s) = 0 /\ CellAge(s) = 0 /\ PackAge(s)' = 0 /\ CellAge(s)' = 0
      BY <1>1, <1>4 DEF PackAge, CellAge
<1>10. ReadingsInv'
      BY <1>1, <1>9 DEF PacksInv, ReadingsInv, Present
<1>11. /\ CopyAge(poll.slot) = 1
       /\ \A s \in Slots : CopyAge(s)' = IF s = poll.slot THEN 0 ELSE CopyAge(s)
  <2>1. \A s \in Slots : s < poll.slot + 1 <=> s < poll.slot \/ s = poll.slot
        BY <1>3
  <2>2. QED BY <1>1, <1>3, <1>4, <2>1 DEF CopyAge
<1>12. /\ \A s \in Slots : s # poll.slot => batt.states'[s] = batt.states[s]
       /\ batt.states'[poll.slot] = packs[poll.slot]
      BY <1>2, <1>3, <1>5
<1>13. /\ packs[poll.slot].pack.valid => packs[poll.slot].pack.from = packs[poll.slot].serial
                                         /\ packs[poll.slot].pack.age <= 0
       /\ packs[poll.slot].cell.valid => packs[poll.slot].cell.age <= 0
      BY <1>3, <1>9 DEF PacksInv, ReadingsInv
<1>14. CopiesInv'
  <2> SUFFICES ASSUME NEW s \in Slots
               PROVE  /\ batt.states'[s].pack.valid =>
                            /\ batt.states'[s].pack.from = packs[s].serial
                            /\ batt.states'[s].pack.age <= CopyAge(s)'
                            /\ packs[s].pack.from = packs[s].serial /\ packs[s].pack.age <= CopyAge(s)'
                      /\ batt.states'[s].cell.valid => batt.states'[s].cell.age <= CopyAge(s)'
      BY <1>1 DEF CopiesInv
  <2>1. CASE s = poll.slot
        BY <1>11, <1>12, <1>13, <2>1
  <2>2. CASE s # poll.slot
        BY <1>11, <1>12, <2>2 DEF PacksInv, CopiesInv
  <2>3. QED BY <2>1, <2>2
<1>15. SumsInv'
      BY <1>1, <1>4, <1>5 DEF PacksInv, SumsInv
<1>16. RecordInv'
  <2> DEFINE s == record.slot
  <2>1. /\ s \in Slots /\ RecordInv /\ CopiesInv
        BY <1>2 DEF PacksInv
  <2>2. record.written.valid => record.written.from = packs[s].serial /\ record.written.age <= 2
        BY <2>1 DEF RecordInv
  <2>3. ASSUME record.at = "values", record.valid
        PROVE  IF record'.crossed
               THEN /\ batt.states'[s].pack.from = packs[s].serial
                    /\ batt.states'[s].pack.age <= IF s < poll.slot + 1 THEN 1 ELSE 2
               ELSE batt.states'[s].pack.valid
    <3>1. IF record.crossed
          THEN batt.states[s].pack.from = packs[s].serial
               /\ batt.states[s].pack.age <= IF s < poll.slot THEN 1 ELSE 2
          ELSE batt.states[s].pack.valid
          BY <1>1, <2>1, <2>3 DEF RecordInv, CopyAge
    <3>2. CASE s = poll.slot
      <4>1. ~record.crossed /\ batt.states[s].pack.valid /\ record'.crossed
            BY <1>6, <2>3, <3>1, <3>2
      <4>2. packs[s].pack.from = packs[s].serial /\ packs[s].pack.age <= 1
            BY <1>11, <2>1, <3>2, <4>1 DEF CopiesInv
      <4>3. s < poll.slot + 1
            BY <1>3, <3>2
      <4>4. QED BY <1>12, <3>2, <4>1, <4>2, <4>3
    <3>3. CASE s # poll.slot
      <4>1. (s < poll.slot + 1 <=> s < poll.slot) /\ batt.states'[s] = batt.states[s]
            /\ record'.crossed = record.crossed
        <5>1. s \in Nat
              BY <2>1
        <5>2. s < poll.slot + 1 <=> s < poll.slot
              BY ONLY <1>3, <3>3, <5>1
        <5>3. QED BY <1>2, <1>6, <1>12, <2>1, <3>3, <5>2
      <4> HIDE DEF s
      <4>2. QED BY ONLY <3>1, <4>1
    <3>4. QED BY <3>2, <3>3
  <2>4. QED BY <1>1, <1>4, <1>6, <2>2, <2>3 DEF RecordInv, CopyAge
<1>17. QED BY <1>7, <1>8, <1>10, <1>14, <1>15, <1>16 DEF PacksInv

LEMMA SumUpKeeps == PacksInv /\ SumUp => PacksInv'
<1> SUFFICES ASSUME PacksInv, SumUp PROVE PacksInv'
    OBVIOUS
<1> USE PacksConstants
<1>1. /\ poll.at = "copy" /\ poll.slot > PackCount /\ bus' = bus /\ packs' = packs /\ record' = record
      /\ batt' = [batt EXCEPT !.sum = Aggregate(batt.states)]
      /\ poll' = [at |-> "report", slot |-> 1, tries |-> 0]
      BY DEF SumUp
<1>2. /\ batt.states \in [Slots -> PackStates] /\ poll \in Polls
      /\ batt \in [states : [Slots -> PackStates],
                   sum : [present : Nat, over : SUBSET Ages, cells : SUBSET Ages]]
      /\ record.slot \in Slots
      BY DEF PacksInv, PackTypes
<1>3. \A s \in Slots : s < poll.slot
  <2>1. poll.slot \in Nat
        BY <1>2 DEF Polls
  <2>2. QED BY <1>1, <2>1 DEF Slots
<1>4. Cardinality(Present) \in Nat
  <2>1. IsFiniteSet(Slots) /\ Present \subseteq Slots
        BY FS_Interval DEF Slots, Present
  <2>2. QED BY <2>1, FS_Subset, FS_CardinalityType
<1> DEFINE over == {batt.states[s].pack : s \in Responding(batt.states)}
           cells == {batt.states[s].cell :
                       s \in {t \in Responding(batt.states) : Healthy(batt.states[t])}}
<1>5. /\ Aggregate(batt.states) = [present |-> Cardinality(Present), over |-> over, cells |-> cells]
      /\ over \subseteq Ages /\ cells \subseteq Ages
      /\ \A reading \in over \cup cells : \E s \in Slots :
            \/ reading = batt.states[s].pack /\ batt.states[s].pack.valid
            \/ reading = batt.states[s].cell /\ batt.states[s].cell.valid
  <2>1. \A s \in Slots : batt.states[s].pack \in Ages /\ batt.states[s].cell \in Ages
        BY <1>2 DEF PackStates
  <2>2. QED BY <2>1 DEF Aggregate, Responding, Healthy
<1> HIDE DEF over, cells
<1>6. batt.states' = batt.states /\ batt.sum' = [present |-> Cardinality(Present), over |-> over, cells |-> cells]
      /\ batt' \in [states : [Slots -> PackStates],
                    sum : [present : Nat, over : SUBSET Ages, cells : SUBSET Ages]]
      BY <1>1, <1>2, <1>4, <1>5
<1>7. PackTypes'
      BY <1>1, <1>6 DEF PacksInv, PackTypes, Polls
<1>8. DiscoveryInv'
      BY <1>1 DEF PacksInv, DiscoveryInv, Discovery, Present
<1>9. ReadingsInv'
      BY <1>1 DEF PacksInv, ReadingsInv, PackAge, CellAge, Present
<1>10. \A s \in Slots : CopyAge(s) = 0 /\ CopyAge(s)' = 0
      BY <1>1, <1>3 DEF CopyAge
<1>11. CopiesInv'
      BY <1>1, <1>6, <1>10 DEF PacksInv, CopiesInv
<1>12. \A s \in Slots : /\ batt.states[s].pack.valid => batt.states[s].pack.age = 0
                        /\ batt.states[s].cell.valid => batt.states[s].cell.age = 0
  <2>1. \A s \in Slots : batt.states[s].pack.age \in Nat /\ batt.states[s].cell.age \in Nat
        BY <1>2, AgesAreNat
  <2>2. \A s \in Slots : /\ batt.states[s].pack.valid => batt.states[s].pack.age <= 0
                         /\ batt.states[s].cell.valid => batt.states[s].cell.age <= 0
        BY <1>10 DEF PacksInv, CopiesInv
  <2>3. QED BY ONLY <2>1, <2>2
<1>13. SumsInv'
      BY <1>1, <1>5, <1>6, <1>12 DEF SumsInv
<1>14. RecordInv'
  <2>1. poll.at # "idle" /\ poll.at # "report" /\ poll.at = "copy" /\ record.slot < poll.slot
        BY <1>1, <1>2, <1>3
  <2>2. RecordInv
        BY DEF PacksInv
  <2>3. QED BY <1>1, <1>6, <2>1, <2>2 DEF RecordInv, CopyAge
<1>15. QED BY <1>7, <1>8, <1>9, <1>11, <1>13, <1>14 DEF PacksInv

LEMMA ReportsKeep ==
    ASSUME PacksInv, NEW status \in Statuses, ReportPack(status) \/ ReportMissing(status)
    PROVE  PacksInv'
<1> USE PacksConstants
<1>1. /\ poll.at = "report" /\ bus' = bus /\ packs' = packs /\ batt' = batt /\ record' = record
      /\ \/ poll.slot <= PackCount /\ poll' = [poll EXCEPT !.slot = @ + 1]
         \/ poll' = [at |-> "idle", slot |-> 1, tries |-> 0]
      BY DEF ReportPack, ReportMissing
<1>2. poll' \in Polls /\ poll'.at \in {"idle", "report"}
  <2>1. poll \in Polls
        BY DEF PacksInv, PackTypes
  <2>2. CASE poll.slot <= PackCount /\ poll' = [poll EXCEPT !.slot = @ + 1]
    <3>1. poll.slot + 1 \in 1 .. PackCount + 1
          BY <2>1, <2>2 DEF Polls
    <3>2. QED BY <1>1, <2>1, <2>2, <3>1 DEF Polls
  <2>3. CASE poll' = [at |-> "idle", slot |-> 1, tries |-> 0]
        BY <2>3 DEF Polls
  <2>4. QED BY <1>1, <2>2, <2>3
<1>3. PackTypes'
      BY <1>1, <1>2 DEF PacksInv, PackTypes
<1>4. DiscoveryInv' /\ ReadingsInv' /\ CopiesInv' /\ SumsInv' /\ RecordInv'
  <2>1. DiscoveryInv'
        BY <1>1, <1>2 DEF PacksInv, DiscoveryInv, Discovery, Present
  <2>2. ReadingsInv'
        BY <1>1, <1>2 DEF PacksInv, ReadingsInv, PackAge, CellAge, Present
  <2>3. CopiesInv' /\ RecordInv'
        BY <1>1, <1>2 DEF PacksInv, CopiesInv, RecordInv, CopyAge
  <2>4. SumsInv'
        BY <1>1, <1>2 DEF PacksInv, SumsInv
  <2>5. QED BY <2>1, <2>2, <2>3, <2>4
<1>5. QED BY <1>3, <1>4 DEF PacksInv

LEMMA RecordsKeep ==
    PacksInv /\ poll.at \notin Discovery /\ (ReadFlag \/ ReadValues) /\ UNCHANGED rs485Vars => PacksInv'
<1> SUFFICES ASSUME PacksInv, poll.at \notin Discovery, ReadFlag \/ ReadValues, UNCHANGED rs485Vars
             PROVE  PacksInv'
    OBVIOUS
<1> USE PacksConstants, Blanks
<1>1. bus' = bus /\ packs' = packs /\ poll' = poll /\ batt' = batt
      BY DEF rs485Vars, ReadFlag, ReadValues
<1>2. /\ record \in [at : {"idle", "values"}, slot : Slots, valid : BOOLEAN, written : Ages, crossed : BOOLEAN]
      /\ batt.states \in [Slots -> PackStates]
      BY DEF PacksInv, PackTypes
<1>3. /\ record' \in [at : {"idle", "values"}, slot : Slots, valid : BOOLEAN, written : Ages, crossed : BOOLEAN]
      /\ RecordInv'
  <2>1. CASE ReadFlag
    <3>1. PICK s \in Slots : record' = [at |-> "values", slot |-> s, valid |-> batt.states[s].pack.valid,
                                       written |-> NoReading, crossed |-> FALSE]
          BY <2>1 DEF ReadFlag, NoRecord
    <3>2. batt.states[s].pack.valid \in BOOLEAN
          BY <1>2 DEF PackStates, Ages
    <3>3. QED BY <1>1, <3>1, <3>2 DEF RecordInv
  <2>2. CASE ReadValues
    <3> DEFINE copy == batt.states[record.slot].pack
    <3>1. record.at = "values" /\ record' = [record EXCEPT !.at = "idle", !.crossed = FALSE,
                                 !.written = IF record.valid THEN [copy EXCEPT !.valid = TRUE] ELSE NoReading]
          BY <2>2 DEF ReadValues
    <3>2. copy \in Ages
          BY <1>2 DEF PackStates
    <3>3. record.valid => copy.from = packs[record.slot].serial /\ copy.age <= 2
      <4>1. copy.age \in Nat
            BY <3>2 DEF Ages
      <4>2. record.valid => IF record.crossed
                            THEN copy.from = packs[record.slot].serial
                                 /\ (copy.age <= 1 \/ copy.age <= 2)
                            ELSE copy.valid
            BY <3>1 DEF PacksInv, RecordInv, CopyAge
      <4>3. copy.valid => copy.from = packs[record.slot].serial /\ (copy.age <= 0 \/ copy.age <= 1)
            BY <1>2 DEF PacksInv, CopiesInv, CopyAge
      <4> HIDE DEF copy
      <4>4. QED BY ONLY <4>1, <4>2, <4>3
    <3> DEFINE new == IF record.valid THEN [copy EXCEPT !.valid = TRUE] ELSE NoReading
    <3>4. /\ new \in Ages
          /\ new.valid => new.from = packs[record.slot].serial /\ new.age <= 2
      <4> HIDE DEF copy
      <4>1. QED BY ONLY <3>2, <3>3, Blanks DEF Ages
    <3>5. record' = [record EXCEPT !.at = "idle", !.crossed = FALSE, !.written = new]
          BY <3>1
    <3> HIDE DEF new
    <3>6. /\ record' \in [at : {"idle", "values"}, slot : Slots, valid : BOOLEAN, written : Ages, crossed : BOOLEAN]
          /\ record'.at = "idle" /\ record'.slot = record.slot /\ record'.written = new
          BY ONLY <1>2, <3>4, <3>5
    <3>7. QED BY <1>1, <3>4, <3>6 DEF RecordInv
  <2>3. QED BY <2>1, <2>2
<1>4. PackTypes'
      BY <1>1, <1>3 DEF PacksInv, PackTypes
<1>5. DiscoveryInv'
      BY <1>1 DEF PacksInv, DiscoveryInv, Present
<1>6. ReadingsInv' /\ CopiesInv' /\ SumsInv'
      BY <1>1 DEF PacksInv, ReadingsInv, CopiesInv, SumsInv, PackAge, CellAge, CopyAge, Present
<1>7. QED BY <1>3, <1>4, <1>5, <1>6 DEF PacksInv

-----------------------------------------------------------------------------

LEMMA PacksStep == PacksInv /\ [Next]_vars => PacksInv'
<1> SUFFICES ASSUME PacksInv, [Next]_vars PROVE PacksInv'
    OBVIOUS
<1>1. CASE PacksNext
  <2>1. CASE (Discover \/ SwitchOne \/ AskSerial \/ SwitchOff) /\ UNCHANGED battVars
        BY <2>1, DiscoverKeeps, SwitchOneKeeps, AskSerialKeeps, SwitchOffKeeps
  <2>2. CASE (\E kind \in {"pack", "cell"} : Read(kind)) /\ UNCHANGED battVars
        BY <2>2, ReadKeeps
  <2>3. QED BY <1>1, <2>1, <2>2, SwitchPresentKeeps, StartRoundKeeps, CopyPackKeeps, SumUpKeeps,
               ReportsKeep, RecordsKeep DEF PacksNext
<1>2. CASE UNCHANGED packVars
      BY <1>2, PacksStutter
<1>3. QED BY <1>1, <1>2 DEF Next, MotorNext, PositionNext, FaultsNext, vars, packVars

LEMMA PacksInvSound == PacksInv => PacksSound
<1> SUFFICES ASSUME PacksInv PROVE PacksSound
    OBVIOUS
<1>1. \A s \in Slots : PackAge(s) \in {0, 1} /\ CellAge(s) \in {0, 1} /\ CopyAge(s) \in {0, 1}
      BY DEF PackAge, CellAge, CopyAge
<1>2. \A s \in Slots : packs[s].pack.age \in Nat /\ packs[s].cell.age \in Nat /\ batt.states[s].pack.age \in Nat
  <2>1. \A s \in Slots : packs[s] \in PackStates /\ batt.states[s] \in PackStates
        BY DEF PacksInv, PackTypes
  <2>2. QED BY ONLY <2>1, AgesAreNat
<1>3. \A s \in Slots : \A reading \in {packs[s].pack, packs[s].cell, batt.states[s].pack} :
          reading.valid => reading.from = packs[s].serial /\ reading.age <= 1
  <2> TAKE s \in Slots
  <2>1. packs[s].pack.valid => packs[s].pack.from = packs[s].serial /\ packs[s].pack.age <= 1
        BY <1>1, <1>2 DEF PacksInv, ReadingsInv
  <2>2. packs[s].cell.valid => packs[s].cell.from = packs[s].serial /\ packs[s].cell.age <= 1
        BY <1>1, <1>2 DEF PacksInv, ReadingsInv
  <2>3. batt.states[s].pack.valid => batt.states[s].pack.from = packs[s].serial /\ batt.states[s].pack.age <= 1
        BY <1>1, <1>2 DEF PacksInv, CopiesInv
  <2>4. QED BY <2>1, <2>2, <2>3
<1>4. QED BY <1>3 DEF PacksInv, DiscoveryInv, RecordInv, SumsInv, PacksSound

(* What is known of the battery packs is sound (Rs485If.c, BattSwc.c), for *)
(* any number of slots, retries and late exchanges. *)
THEOREM PacksAreSound == Spec => []PacksSound
<1>1. Spec => []PacksInv
      BY PacksStart, PacksStep, PTL DEF Spec
<1>2. QED BY <1>1, PacksInvSound, PTL

-----------------------------------------------------------------------------
(***************************************************************************)
(* PositionSound for every set of places, speed limit, patience and number *)
(* of sentences a cycle.                                                   *)
(*                                                                         *)
(* The filter cannot lock the truth out, because the age of the position   *)
(* grows with the cycles in which only the truth was told: after as many   *)
(* of them as the distance takes, the true position is plausible; and once *)
(* it is adopted, the next true one is.                                    *)
(***************************************************************************)

Utterances == {Sentence(kind, fix, p) : kind \in Kinds, fix \in BOOLEAN, p \in Places}
Pieces == [name : {"start", "text", "sum", "end"}, of : Utterances, ok : BOOLEAN]
Positions == [valid : BOOLEAN, lat : Places \cup {0}, lon : Places \cup {0},
              age : 0 .. MaxFixAge, genuine : BOOLEAN]
Receptions == [at : {"off", "read", "idle"}, buffer : Seq(Pieces), over : BOOLEAN, pos : Positions,
               cycles : 0 .. NoFixLimit + 1, accepted : BOOLEAN,
               told : {"nothing", "the place", "another"}]
Takings == [at : {"idle", "copy", "judge", "published"}, lat : Positions, lon : Positions,
            moved : BOOLEAN]

PositionTypes ==
    /\ receiver \in [place : Places, left : 0 .. Sentences]
    /\ gnss \in Receptions /\ taker \in Takings /\ sky \in 0 .. Patience

(* A position that is known is one place, from an undamaged sentence. *)
Known(pos) == pos.valid => pos.genuine /\ pos.lat = pos.lon /\ pos.lat \in Places

(* Within one cycle's way of the vehicle. *)
Near(pos) == 2 * Distance(pos.lat, receiver.place) <= MaxSpeed /\ pos.age >= 1

(* In a cycle: what is known before any sentence, and while only the true  *)
(* place was told. *)
Sighted(g) ==
    /\ g.told = "nothing" => /\ sky > 0 => g.pos.valid
                             /\ g.pos.valid => \/ Near(g.pos)
                                               \/ g.pos.age >= sky + 1
    /\ g.told = "the place" => /\ g.pos.valid
                               /\ \/ g.pos.lat = receiver.place
                                  \/ g.pos.age >= sky + 1 /\ sky + 1 < Patience

(* Between two cycles. *)
Located ==
    /\ gnss.told = "nothing"
    /\ sky > 0 => /\ gnss.pos.valid
                  /\ \/ gnss.pos.lat = receiver.place
                     \/ gnss.pos.age >= sky /\ sky < Patience

TakerInv ==
    ~taker.moved =>
        /\ taker.at \in {"copy", "judge", "published"} => taker.lat = gnss.pos
        /\ taker.at \in {"judge", "published"} => taker.lon = gnss.pos
        /\ taker.at = "published" => gnss.pos.age < FixTimeout

PositionInv ==
    /\ PositionTypes
    /\ Known(gnss.pos)
    /\ gnss.at = "read" => Sighted(gnss)
    /\ gnss.at = "idle" => Located
    /\ TakerInv

(* What the parts of a sentence keep. *)
Reading(g) == g \in Receptions /\ g.at = "read" /\ Known(g.pos) /\ Sighted(g)

USE DEF Positions, Takings, Pieces

-----------------------------------------------------------------------------

LEMMA PositionConstants ==
    /\ Places \subseteq Int /\ Places # {}
    /\ Sentences \in Nat /\ MaxSpeed \in Nat \ {0} /\ FixTimeout \in Nat \ {0}
    /\ NoFixLimit \in Nat \ {0} /\ Patience \in Nat \ {0} /\ MinInterval \in Nat
    /\ MaxFixAge \in Nat /\ MaxFixAge >= FixTimeout /\ MaxFixAge >= Patience
    /\ \A a, b \in Places : 2 * Distance(a, b) <= MaxSpeed * Patience
BY GnssIfAssumption

LEMMA ElementIn ==
    ASSUME NEW S, NEW s \in Seq(S), NEW i \in 1 .. Len(s)
    PROVE  s[i] \in S
OBVIOUS

LEMMA DistanceIs ==
    ASSUME NEW a \in Int, NEW b \in Int
    PROVE  Distance(a, b) \in Nat /\ Distance(a, b) = Distance(b, a) /\ Distance(a, a) = 0
BY DEF Distance

(* The product is monotone: what the provers need of MaxSpeed * delta. *)
LEMMA Farther ==
    ASSUME NEW speed \in Nat, NEW a \in Nat, NEW b \in Nat, a <= b
    PROVE  speed * a \in Nat /\ speed * b \in Nat /\ speed * a <= speed * b
<1>1. PICK d \in Nat : b = a + d
  <2>1. b - a \in Nat /\ b = a + (b - a)
        OBVIOUS
  <2>2. QED BY <2>1
<1>2. speed * b = speed * a + speed * d
      BY <1>1
<1>3. speed * a \in Nat /\ speed * d \in Nat
      BY <1>1
<1>4. QED BY <1>2, <1>3

(* A coordinate is read back as it was written. *)
LEMMA CoordinateIs ==
    ASSUME NEW p \in Int
    PROVE  ParseCoordinate(Field(p)) = p
<1>2. Distance(p, 0) \in Nat
      BY DistanceIs
<1>1. ASSUME NEW d \in Nat
      PROVE  (d \div 60) * 60 + (d % 60) = d
      OBVIOUS
<1>3. Field(p).degrees * 60 + Field(p).minutes = Distance(p, 0)
      BY <1>1, <1>2 DEF Field
<1>4. ParseCoordinate(Field(p)) = (IF p < 0 THEN 0 - 1 ELSE 1) * Distance(p, 0)
      BY <1>3 DEF ParseCoordinate, Field
<1>5. CASE p < 0
      BY <1>4, <1>5 DEF Distance
<1>6. CASE ~(p < 0)
      BY <1>4, <1>6 DEF Distance
<1>7. QED BY <1>5, <1>6

(* A sentence that carries a fix gives one true position. *)
LEMMA CandidateIs ==
    ASSUME NEW buffer \in Seq(Pieces), HasFix(buffer)
    PROVE  \E p \in Places : Candidate(buffer) =
               [valid |-> TRUE, lat |-> p, lon |-> p, age |-> 0, genuine |-> TRUE]
<1>1. /\ Len(buffer) >= 3 /\ buffer[2].ok /\ buffer[3].ok /\ buffer[3].name = "sum"
      /\ buffer[2].of = buffer[3].of
      BY DEF HasFix, VerifyChecksum
<1>2. buffer[2] \in Pieces /\ buffer[3] \in Pieces
  <2>1. Len(buffer) \in Nat /\ 2 \in 1 .. Len(buffer) /\ 3 \in 1 .. Len(buffer)
        BY <1>1
  <2>2. QED BY ONLY <2>1, ElementIn, buffer \in Seq(Pieces)
<1>3. Genuine(buffer)
  <2>1. buffer[3].of = buffer[2].of /\ buffer[3].ok = TRUE
        BY <1>1, <1>2
  <2>2. buffer[3] = [name |-> buffer[3].name, of |-> buffer[3].of, ok |-> buffer[3].ok]
        BY <1>2
  <2>3. QED BY <1>1, <2>1, <2>2 DEF Genuine, Part
<1>4. PICK kind \in Kinds, fix \in BOOLEAN, p \in Places : buffer[2].of = Sentence(kind, fix, p)
      BY <1>2 DEF Utterances
<1>5. buffer[2].of.lat = Field(p) /\ buffer[2].of.lon = Field(p)
      BY <1>4 DEF Sentence
<1>6. ParseCoordinate(buffer[2].of.lat) = p /\ ParseCoordinate(buffer[2].of.lon) = p
      BY <1>5, CoordinateIs, PositionConstants
<1>7. QED BY <1>3, <1>6 DEF Candidate

(* A sentence that is refused told the truth only to a position that is    *)
(* old enough; one that is adopted is the truth, or was not told to be.    *)
LEMMA ConsumeKeeps ==
    ASSUME PositionTypes, NEW g, Reading(g)
    PROVE  Reading(ConsumeSentence(g))
<1>1. CASE ~HasFix(g.buffer)
      BY <1>1 DEF ConsumeSentence
<1>2. CASE HasFix(g.buffer)
  <2>1. g.buffer \in Seq(Pieces)
        BY DEF Reading, Receptions
  <2>2. PICK p \in Places : Candidate(g.buffer) =
            [valid |-> TRUE, lat |-> p, lon |-> p, age |-> 0, genuine |-> TRUE]
        BY <1>2, <2>1, CandidateIs
  <2>3. Told(g) \in {"the place", "another"} /\ (Told(g) = "the place" => g.told # "another" /\ p = receiver.place)
        BY <2>2 DEF Told
  <2>4. g.pos \in Positions /\ g.told \in {"nothing", "the place", "another"}
        BY DEF Reading, Receptions
  <2>5. CASE IsTransitionPlausible(g.pos, Candidate(g.buffer), g.pos.age)
    <3>1. ConsumeSentence(g) = [g EXCEPT !.pos = Candidate(g.buffer), !.accepted = TRUE, !.told = Told(g)]
          BY <1>2, <2>5 DEF ConsumeSentence
    <3>2. Candidate(g.buffer) \in Positions
          BY <2>2, PositionConstants
    <3>3. ConsumeSentence(g) \in Receptions /\ ConsumeSentence(g).at = "read"
      <4>1. g \in Receptions /\ g.at = "read"
            BY DEF Reading
      <4>2. QED BY ONLY <4>1, <3>1, <3>2, <2>3 DEF Receptions
    <3>4. ConsumeSentence(g).pos = Candidate(g.buffer) /\ ConsumeSentence(g).told = Told(g)
          BY <3>1 DEF Reading, Receptions
    <3>5. Known(ConsumeSentence(g).pos) /\ Sighted(ConsumeSentence(g))
      <4>1. /\ ConsumeSentence(g).pos.valid /\ ConsumeSentence(g).pos.genuine
            /\ ConsumeSentence(g).pos.lat = p /\ ConsumeSentence(g).pos.lon = p
            BY ONLY <3>4, <2>2
      <4>2. Known(ConsumeSentence(g).pos)
            BY <4>1 DEF Known
      <4>3. QED BY <4>1, <4>2, <3>4, <2>3 DEF Sighted
    <3>6. QED BY <3>3, <3>5 DEF Reading, Receptions
  <2>6. CASE ~IsTransitionPlausible(g.pos, Candidate(g.buffer), g.pos.age)
    <3>1. ConsumeSentence(g) = [g EXCEPT !.told = Told(g)]
          BY <1>2, <2>6 DEF ConsumeSentence
    <3>2. ConsumeSentence(g) \in Receptions /\ ConsumeSentence(g).at = "read"
          BY <3>1, <2>3 DEF Reading, Receptions
    <3>3. ConsumeSentence(g).pos = g.pos /\ ConsumeSentence(g).told = Told(g)
          BY <3>1 DEF Reading, Receptions
    <3>4. g.pos.valid /\ ~(Distance(g.pos.lat, p) + Distance(g.pos.lon, p) <= MaxSpeed * g.pos.age)
          BY <2>2, <2>6 DEF IsTransitionPlausible
    <3>5. g.pos.lat \in Places /\ g.pos.lat = g.pos.lon
          BY <3>4 DEF Reading, Known, Receptions
    <3>6. ASSUME Told(g) = "the place"
          PROVE  g.pos.lat = receiver.place \/ (g.pos.age >= sky + 1 /\ sky + 1 < Patience)
      <4>1. p = receiver.place /\ g.told \in {"nothing", "the place"}
            BY <2>3, <2>4, <3>6
      <4>2. Distance(g.pos.lat, p) \in Nat /\ 2 * Distance(g.pos.lat, p) > MaxSpeed * g.pos.age
            /\ g.pos.age \in Nat /\ sky \in Nat /\ MaxSpeed * g.pos.age \in Nat
        <5>1. g.pos.age \in Nat /\ sky \in Nat /\ MaxSpeed \in Nat
          <6>1. g.pos.age \in 0 .. MaxFixAge
                BY <2>4
          <6>2. sky \in 0 .. Patience
                BY DEF PositionTypes
          <6>3. QED BY ONLY <6>1, <6>2, PositionConstants
        <5>2. MaxSpeed * g.pos.age \in Nat
              BY <5>1, Farther
        <5>3. Distance(g.pos.lat, p) \in Nat
              BY <3>5, DistanceIs, PositionConstants
        <5>4. QED BY <3>4, <3>5, <5>1, <5>2, <5>3
      <4>3. CASE g.told = "the place"
            BY <4>3 DEF Reading, Sighted
      <4>4. CASE g.told = "nothing"
        <5>1. ~Near(g.pos)
          <6>1. SUFFICES ASSUME 2 * Distance(g.pos.lat, p) <= MaxSpeed, g.pos.age >= 1 PROVE FALSE
                BY <4>1 DEF Near
          <6>2. MaxSpeed * 1 <= MaxSpeed * g.pos.age
                BY <4>2, <6>1, Farther, PositionConstants
          <6>3. MaxSpeed * 1 = MaxSpeed
                BY PositionConstants
          <6>4. QED BY <4>2, <6>1, <6>2, <6>3, PositionConstants
        <5>2. g.pos.age >= sky + 1
              BY <3>4, <4>4, <5>1 DEF Reading, Sighted
        <5>3. sky + 1 < Patience
          <6>1. SUFFICES ASSUME Patience <= g.pos.age PROVE FALSE
                BY <4>2, <5>2, PositionConstants
          <6>2. MaxSpeed * Patience <= MaxSpeed * g.pos.age /\ MaxSpeed * Patience \in Nat
                BY <4>2, <6>1, Farther, PositionConstants
          <6>3. 2 * Distance(g.pos.lat, p) <= MaxSpeed * Patience
                BY <3>5, PositionConstants
          <6>4. QED BY <4>2, <6>2, <6>3
        <5>4. QED BY <5>2, <5>3
      <4>5. QED BY <4>1, <4>3, <4>4
    <3>7. Sighted(ConsumeSentence(g))
          BY <3>3, <3>4, <3>6, <2>3 DEF Sighted
    <3>8. QED BY <3>2, <3>3, <3>7 DEF Reading, Receptions
  <2>7. QED BY <2>5, <2>6
<1>3. QED BY <1>1, <1>2

(* The buffer has no part in what is known. *)
LEMMA BufferIsApart ==
    ASSUME NEW g, Reading(g), NEW buffer \in Seq(Pieces), NEW over \in BOOLEAN,
           NEW h, h = [g EXCEPT !.buffer = buffer, !.over = over]
    PROVE  Reading(h)
<1>1. h \in Receptions /\ h.at = g.at /\ h.pos = g.pos /\ h.told = g.told
      BY DEF Reading, Receptions
<1>2. QED BY <1>1 DEF Reading, Sighted

LEMMA ReadPartKeeps ==
    ASSUME PositionTypes, NEW g, Reading(g), NEW part \in Pieces
    PROVE  Reading(ReadPart(g, part))
<1>1. g \in Receptions /\ g.buffer \in Seq(Pieces) /\ g.over \in BOOLEAN
      BY DEF Reading, Receptions
<1>2. CASE part.name = "start"
  <2>1. <<part>> \in Seq(Pieces)
        OBVIOUS
  <2>2. ReadPart(g, part) = [g EXCEPT !.buffer = <<part>>, !.over = FALSE]
        BY <1>2 DEF ReadPart, Restarted
  <2>3. QED BY ONLY <2>1, <2>2, Reading(g), BufferIsApart
<1>3. CASE part.name = "end"
  <2>1. PICK h : Reading(h) /\ ReadPart(g, part) = [h EXCEPT !.buffer = <<>>, !.over = FALSE]
        BY <1>3, ConsumeKeeps DEF ReadPart, Completed
  <2>2. <<>> \in Seq(Pieces)
        OBVIOUS
  <2>3. QED BY ONLY <2>1, <2>2, BufferIsApart
<1>4. CASE part.name \notin {"start", "end"}
  <2>1. ReadPart(g, part) = Assembled(g, part)
        BY <1>4 DEF ReadPart
  <2>2. \/ Assembled(g, part) = g
        \/ Assembled(g, part) = [g EXCEPT !.over = TRUE]
        \/ Assembled(g, part) = [g EXCEPT !.buffer = Append(@, part)]
        BY DEF Assembled
  <2>3. CASE Assembled(g, part) = [g EXCEPT !.over = TRUE]
    <3>1. Assembled(g, part) = [g EXCEPT !.buffer = g.buffer, !.over = TRUE]
          BY <1>1, <2>3 DEF Receptions
    <3>2. Reading(Assembled(g, part))
          BY ONLY <1>1, <3>1, Reading(g), BufferIsApart
    <3>3. QED BY <2>1, <3>2
  <2>4. CASE Assembled(g, part) = [g EXCEPT !.buffer = Append(@, part)]
    <3>0. Append(g.buffer, part) \in Seq(Pieces)
          BY <1>1
    <3>1. PICK longer \in Seq(Pieces) : longer = Append(g.buffer, part)
          BY ONLY <3>0
    <3>2. Assembled(g, part) = [g EXCEPT !.buffer = longer, !.over = g.over]
          BY <1>1, <2>4, <3>1 DEF Receptions
    <3>3. Reading(Assembled(g, part))
          BY ONLY <1>1, <3>1, <3>2, Reading(g), BufferIsApart
    <3>4. QED BY <2>1, <3>3
  <2>5. QED BY <2>1, <2>2, <2>3, <2>4
<1>5. QED BY <1>2, <1>3, <1>4

(* The loop over the parts. *)
LEMMA ReadPartsIs ==
    ASSUME NEW g, NEW t, Len(t) \in {3, 4}
    PROVE  LET r1 == ReadPart(g, t[1])
               r2 == ReadPart(r1, t[2])
               r3 == ReadPart(r2, t[3])
           IN ReadParts(g, t) = IF Len(t) = 3 THEN r3 ELSE ReadPart(r3, t[4])
<1> DEFINE r1 == ReadPart(g, t[1])
           r2 == ReadPart(r1, t[2])
           r3 == ReadPart(r2, t[3])
           r4 == ReadPart(r3, t[4])
           P(f) == f = [i \in 0 .. Len(t) |-> IF i = 0 THEN g ELSE ReadPart(f[i - 1], t[i])]
           read == CHOOSE f : P(f)
           w == [i \in 0 .. Len(t) |-> CASE i = 0 -> g [] i = 1 -> r1 [] i = 2 -> r2 [] i = 3 -> r3 [] OTHER -> r4]
<1>1. P(w)
  <2>1. ASSUME NEW i \in 0 .. Len(t)
        PROVE  w[i] = IF i = 0 THEN g ELSE ReadPart(w[i - 1], t[i])
    <3> HIDE DEF r1, r2, r3, r4
    <3>1. i \in {0, 1, 2, 3, 4} /\ (i # 0 => i - 1 \in 0 .. Len(t))
          BY <2>1
    <3>2. CASE i = 0
          BY <3>2
    <3>3. CASE i = 1
          BY <3>3, <2>1 DEF r1
    <3>4. CASE i = 2
          BY <3>4, <2>1 DEF r2
    <3>5. CASE i = 3
          BY <3>5, <2>1 DEF r3
    <3>6. CASE i = 4
          BY <3>6, <2>1 DEF r4
    <3>7. QED BY <3>1, <3>2, <3>3, <3>4, <3>5, <3>6
  <2> DEFINE v == [i \in 0 .. Len(t) |-> IF i = 0 THEN g ELSE ReadPart(w[i - 1], t[i])]
  <2> HIDE DEF r1, r2, r3, r4
  <2>2. w = [i \in 0 .. Len(t) |-> w[i]]
        OBVIOUS
  <2>3. v = [i \in 0 .. Len(t) |-> v[i]] /\ \A i \in 0 .. Len(t) : w[i] = v[i]
    <3> HIDE DEF w
    <3>1. v = [i \in 0 .. Len(t) |-> v[i]]
          OBVIOUS
    <3>2. \A i \in 0 .. Len(t) : v[i] = IF i = 0 THEN g ELSE ReadPart(w[i - 1], t[i])
          OBVIOUS
    <3>3. QED BY ONLY <2>1, <3>1, <3>2
  <2> HIDE DEF w, v
  <2>4. w = v
        BY <2>2, <2>3
  <2>5. QED BY <2>4 DEF v
<1>2. ReadParts(g, t) = read[Len(t)]
      BY DEF ReadParts
<1>3. P(read)
  <2> HIDE DEF P, w
  <2>1. QED BY <1>1
<1> HIDE DEF read
<1>4. \A i \in 0 .. Len(t) : read[i] = IF i = 0 THEN g ELSE ReadPart(read[i - 1], t[i])
      BY <1>3
<1>5. /\ read[0] = g /\ read[1] = ReadPart(read[0], t[1])
      /\ read[2] = ReadPart(read[1], t[2]) /\ read[3] = ReadPart(read[2], t[3])
      BY <1>4
<1>6. Len(t) = 4 => read[4] = ReadPart(read[3], t[4])
      BY <1>4
<1>7. QED BY <1>2, <1>5, <1>6

LEMMA ReadPartsKeeps ==
    ASSUME PositionTypes, NEW g, Reading(g), NEW t \in Seq(Pieces), Len(t) \in {3, 4}
    PROVE  Reading(ReadParts(g, t))
<1>1. /\ t[1] \in Pieces /\ t[2] \in Pieces /\ t[3] \in Pieces
      /\ Len(t) = 4 => t[4] \in Pieces
  <2>1. \A i \in 1 .. Len(t) : t[i] \in Pieces
        BY ONLY t \in Seq(Pieces), ElementIn
  <2>2. CASE Len(t) = 3
        BY ONLY <2>1, <2>2
  <2>3. CASE Len(t) = 4
        BY ONLY <2>1, <2>3
  <2>4. QED BY <2>2, <2>3
<1> DEFINE r1 == ReadPart(g, t[1])
           r2 == ReadPart(r1, t[2])
           r3 == ReadPart(r2, t[3])
<1>2. Reading(r1)
      BY <1>1, ReadPartKeeps
<1>3. Reading(r2)
      BY <1>1, <1>2, ReadPartKeeps
<1>4. Reading(r3)
      BY <1>1, <1>3, ReadPartKeeps
<1>5. Len(t) = 4 => Reading(ReadPart(r3, t[4]))
      BY <1>1, <1>4, ReadPartKeeps
<1>6. ReadParts(g, t) = IF Len(t) = 3 THEN r3 ELSE ReadPart(r3, t[4])
      BY ReadPartsIs
<1> HIDE DEF r3
<1>7. QED BY <1>4, <1>5, <1>6

LEMMA TransmissionsAre ==
    ASSUME NEW s \in Utterances, NEW t \in Transmissions(s)
    PROVE  t \in Seq(Pieces) /\ Len(t) \in {3, 4}
<1> DEFINE a == Part("start", s, TRUE)
           b == Part("text", s, TRUE)
           c == Part("sum", s, TRUE)
           d == Part("end", s, TRUE)
<1>1. a \in Pieces /\ b \in Pieces /\ c \in Pieces /\ d \in Pieces
      BY DEF Part
<1>2. [b EXCEPT !.ok = FALSE] \in Pieces /\ [c EXCEPT !.ok = FALSE] \in Pieces
      BY <1>1
<1>3. Intact(s) = <<a, b, c, d>>
      BY DEF Intact
<1> HIDE DEF a, b, c, d
<1>4. <<a, b, c, d>> \in Seq(Pieces) /\ Len(<<a, b, c, d>>) = 4
      BY <1>1
<1>5. CASE t = Intact(s)
      BY <1>3, <1>4, <1>5
<1>6. CASE \E i \in 1 .. 4 : t = SubSeq(Intact(s), 1, i - 1) \o SubSeq(Intact(s), i + 1, 4)
  <2>1. PICK i \in 1 .. 4 : t = SubSeq(Intact(s), 1, i - 1) \o SubSeq(Intact(s), i + 1, 4)
        BY <1>6
  <2>2. DEFINE u == SubSeq(<<a, b, c, d>>, 1, i - 1)
               v == SubSeq(<<a, b, c, d>>, i + 1, 4)
  <2>3. u \in Seq(Pieces) /\ Len(u) = i - 1
        BY <1>4
  <2>4. v \in Seq(Pieces) /\ Len(v) = 4 - i
        BY <1>4
  <2>5. t = u \o v
        BY <2>1, <1>3
  <2> HIDE DEF u, v
  <2>6. t \in Seq(Pieces) /\ Len(t) = Len(u) + Len(v)
        BY <2>3, <2>4, <2>5
  <2>7. QED BY <2>3, <2>4, <2>6
<1>7. CASE \E i \in {2, 3} : t = [Intact(s) EXCEPT ![i].ok = FALSE]
  <2>1. PICK i \in {2, 3} : t = [<<a, b, c, d>> EXCEPT ![i] = [@ EXCEPT !.ok = FALSE]]
        BY <1>3, <1>7
  <2>2. PICK piece : piece = [<<a, b, c, d>>[i] EXCEPT !.ok = FALSE]
        OBVIOUS
  <2>3. <<a, b, c, d>>[i] \in {b, c}
        OBVIOUS
  <2>4. piece \in Pieces /\ t = [<<a, b, c, d>> EXCEPT ![i] = piece]
        BY <1>2, <2>1, <2>2, <2>3
  <2>5. QED BY ONLY <2>4, <1>4, i \in {2, 3}
<1>8. QED BY <1>5, <1>6, <1>7 DEF Transmissions

-----------------------------------------------------------------------------
(* The steps. *)

LEMMA PositionStarts == Init => PositionInv
<1> SUFFICES ASSUME Init PROVE PositionInv
    OBVIOUS
<1>1. PICK p \in Places, at \in {"idle", "off"} :
          /\ receiver = [place |-> p, left |-> 0]
          /\ gnss = [at |-> at, buffer |-> <<>>, over |-> FALSE, pos |-> NoFix, cycles |-> 0,
                     accepted |-> FALSE, told |-> "nothing"]
          /\ taker = Nothing /\ sky = 0
      BY DEF Init, GnssInit
<1>2. NoFix \in Positions
      BY PositionConstants DEF NoFix
<1>3. PositionTypes
  <2>1. gnss \in Receptions
        BY <1>1, <1>2, PositionConstants DEF Receptions
  <2>2. taker \in Takings
        BY <1>1, <1>2 DEF Nothing
  <2>3. QED BY <1>1, <2>1, <2>2, PositionConstants DEF PositionTypes
<1>4. Known(gnss.pos) /\ (gnss.at = "idle" => Located) /\ gnss.at # "read"
      BY <1>1 DEF Known, Located, NoFix
<1>5. TakerInv
      BY <1>1 DEF TakerInv, Nothing
<1>6. QED BY <1>3, <1>4, <1>5 DEF PositionInv

LEMMA PositionStutters == PositionInv /\ UNCHANGED positionVars => PositionInv'
BY DEF PositionInv, PositionTypes, positionVars, Known, Sighted, Near, Located, TakerInv

LEMMA SpokenAre == PositionTypes => Spoken \subseteq Utterances
<1> SUFFICES ASSUME PositionTypes PROVE Spoken \subseteq Utterances
    OBVIOUS
<1> DEFINE told == {Sentence(k, TRUE, p) : k \in {"RMC", "GGA"}, p \in Places}
           idle == {Sentence(k, k = "other", receiver.place) : k \in Kinds}
<1>1. told \subseteq Utterances
  <2>1. ASSUME NEW k \in {"RMC", "GGA"}, NEW p \in Places
        PROVE  Sentence(k, TRUE, p) \in Utterances
    <3>1. k \in Kinds /\ TRUE \in BOOLEAN
          BY DEF Kinds
    <3>2. \A fix \in BOOLEAN : Sentence(k, fix, p) \in Utterances
          BY <3>1 DEF Utterances
    <3>3. QED BY <3>2 DEF Sentence
  <2>2. QED BY <2>1 DEF Sentence
<1>2. idle \subseteq Utterances
  <2>1. receiver.place \in Places
        BY DEF PositionTypes
  <2>2. \A k \in Kinds, fix \in BOOLEAN : Sentence(k, fix, receiver.place) \in Utterances
        BY <2>1 DEF Utterances
  <2>3. \A k \in Kinds : (k = "other") \in BOOLEAN
        OBVIOUS
  <2>4. QED BY ONLY <2>2, <2>3
<1>3. Spoken = told \cup idle
      BY DEF Spoken
<1> HIDE DEF told, idle
<1>4. QED BY <1>1, <1>2, <1>3

LEMMA SentenceKeeps ==
    ASSUME PositionInv, NEW s \in Spoken, ReadSentence(s)
    PROVE  PositionInv'
<1>1. PositionTypes /\ Known(gnss.pos) /\ TakerInv /\ Reading(gnss) /\ receiver.left > 0
      BY DEF PositionInv, PositionTypes, ReadSentence, Reading
<1>2. PICK t \in Transmissions(s) : gnss' = ReadParts(gnss, t)
      BY DEF ReadSentence
<1>3. Reading(gnss')
  <2>1. s \in Utterances
        BY <1>1, SpokenAre
  <2>2. t \in Seq(Pieces) /\ Len(t) \in {3, 4}
        BY <2>1, TransmissionsAre
  <2>3. QED BY <1>1, <1>2, <2>2, ReadPartsKeeps
<1>4. /\ receiver' = [receiver EXCEPT !.left = @ - 1] /\ sky' = sky
      /\ taker' = IF gnss'.pos # gnss.pos /\ taker.at # "idle" THEN [taker EXCEPT !.moved = TRUE] ELSE taker
      BY DEF ReadSentence
<1>5. receiver' \in [place : Places, left : 0 .. Sentences] /\ receiver'.place = receiver.place
      BY <1>1, <1>4, PositionConstants DEF PositionTypes
<1>6. taker' \in Takings
      BY <1>1, <1>4 DEF PositionTypes
<1>7. gnss' \in Receptions /\ gnss'.at = "read" /\ Known(gnss.pos)' /\ Sighted(gnss)'
      BY <1>3, <1>4, <1>5 DEF Reading, Known, Sighted, Near
<1>8. PositionTypes'
      BY <1>1, <1>4, <1>5, <1>6, <1>7 DEF PositionTypes
<1>9. TakerInv'
  <2>1. CASE gnss'.pos # gnss.pos /\ taker.at # "idle"
    <3>1. taker'.moved
          BY <1>1, <1>4, <2>1 DEF PositionTypes
    <3>2. QED BY <3>1 DEF TakerInv
  <2>2. CASE taker.at = "idle"
        BY <1>4, <2>2 DEF TakerInv
  <2>3. CASE gnss'.pos = gnss.pos
        BY <1>1, <1>4, <2>3 DEF TakerInv
  <2>4. QED BY <2>1, <2>2, <2>3
<1>10. QED BY <1>7, <1>8, <1>9 DEF PositionInv

LEMMA EndCycleKeeps ==
    ASSUME PositionInv, NEW status, EndCycle(status)
    PROVE  PositionInv'
<1>1. gnss \in Receptions /\ gnss.at = "read" /\ Known(gnss.pos) /\ Sighted(gnss) /\ TakerInv /\ sky \in 0 .. Patience
      BY DEF PositionInv, PositionTypes, EndCycle
<1>2. /\ gnss' = [gnss EXCEPT !.at = "idle", !.accepted = FALSE, !.told = "nothing",
                     !.cycles = IF gnss.accepted THEN 0 ELSE IF @ <= NoFixLimit THEN @ + 1 ELSE @]
      /\ sky' = IF gnss.told # "the place" THEN 0 ELSE IF sky < Patience THEN sky + 1 ELSE sky
      /\ receiver' = receiver /\ taker' = taker
      BY DEF EndCycle
<1>3. gnss.cycles \in 0 .. NoFixLimit + 1
      BY <1>1 DEF Receptions
<1>4. (IF gnss.accepted THEN 0 ELSE IF gnss.cycles <= NoFixLimit THEN gnss.cycles + 1 ELSE gnss.cycles)
         \in 0 .. NoFixLimit + 1
      BY <1>3, PositionConstants
<1>5. gnss' \in Receptions /\ gnss'.at = "idle" /\ gnss'.told = "nothing" /\ gnss'.pos = gnss.pos
      BY <1>1, <1>2, <1>4 DEF Receptions
<1>6. sky' \in 0 .. Patience
  <2>1. sky \in 0 .. Patience /\ sky' \in {0, sky, IF sky < Patience THEN sky + 1 ELSE sky}
        BY <1>1, <1>2
  <2>2. QED BY ONLY <2>1, PositionConstants
<1>7. PositionTypes'
  <2>1. receiver \in [place : Places, left : 0 .. Sentences] /\ taker \in Takings
        BY DEF PositionInv, PositionTypes
  <2>2. QED BY ONLY <1>2, <1>5, <1>6, <2>1 DEF PositionTypes
<1>8. TakerInv'
      BY <1>1, <1>2, <1>5 DEF TakerInv
<1>9. Known(gnss.pos)'
      BY <1>1, <1>5 DEF Known
<1>10. Located'
  <2>1. CASE gnss.told # "the place"
    <3>1. sky' = 0
          BY <1>2, <2>1
    <3>2. QED BY <1>5, <3>1 DEF Located
  <2> SUFFICES ASSUME gnss.told = "the place" PROVE Located'
      BY <2>1
  <2>2. sky' = IF sky < Patience THEN sky + 1 ELSE sky
        BY <1>2
  <2>3. gnss.pos.valid /\ (gnss.pos.lat = receiver.place \/ (gnss.pos.age >= sky + 1 /\ sky + 1 < Patience))
        BY <1>1, <2>2 DEF Sighted
  <2>4. sky \in 0 .. Patience /\ gnss.pos.age \in 0 .. MaxFixAge
        BY <1>1 DEF Receptions
  <2>5. gnss.pos.age >= sky + 1 /\ sky + 1 < Patience => gnss.pos.age >= sky' /\ sky' < Patience
        BY ONLY <2>2, <2>4, PositionConstants
  <2>6. gnss.pos.valid /\ (gnss.pos.lat = receiver.place \/ (gnss.pos.age >= sky' /\ sky' < Patience))
        BY ONLY <2>3, <2>5
  <2>7. QED BY <1>2, <1>5, <2>6 DEF Located
<1>11. QED BY <1>5, <1>7, <1>8, <1>9, <1>10 DEF PositionInv

LEMMA GnssTickKeeps == PositionInv /\ GnssTick => PositionInv'
<1> SUFFICES ASSUME PositionInv, GnssTick PROVE PositionInv'
    OBVIOUS
<1>1. /\ gnss \in Receptions /\ gnss.pos \in Positions /\ receiver.place \in Places /\ sky \in 0 .. Patience
      /\ gnss.at = "idle" /\ taker.at = "idle" /\ Known(gnss.pos) /\ Located
      BY DEF PositionInv, PositionTypes, GnssTick, Receptions
<1>2. PICK p \in Places : /\ 2 * Distance(p, receiver.place) <= MaxSpeed
                          /\ receiver' = [place |-> p, left |-> Sentences]
      BY DEF GnssTick
<1> DEFINE older == IF gnss.pos.valid /\ gnss.pos.age < MaxFixAge THEN gnss.pos.age + 1 ELSE gnss.pos.age
<1>3. gnss.pos.age \in 0 .. MaxFixAge
      BY <1>1
<1>4. older \in 0 .. MaxFixAge
      BY <1>3, PositionConstants
<1>5. gnss' = [gnss EXCEPT !.at = "read", !.pos = [gnss.pos EXCEPT !.age = older]]
  <2>1. gnss' = [gnss EXCEPT !.at = "read",
                   !.pos.age = IF gnss.pos.valid /\ @ < MaxFixAge THEN @ + 1 ELSE @]
        BY DEF GnssTick
  <2>2. QED BY <1>1, <2>1 DEF Receptions
<1>6. sky' = sky /\ taker' = taker
      BY DEF GnssTick
<1> HIDE DEF older
<1>7. [gnss.pos EXCEPT !.age = older] \in Positions
      BY <1>1, <1>4
<1>8. /\ gnss' \in Receptions /\ gnss'.at = "read" /\ gnss'.told = "nothing"
      /\ gnss'.pos = [gnss.pos EXCEPT !.age = older]
      BY <1>1, <1>5, <1>7 DEF Receptions, Located
<1>9. /\ gnss'.pos.valid = gnss.pos.valid /\ gnss'.pos.lat = gnss.pos.lat /\ gnss'.pos.lon = gnss.pos.lon
      /\ gnss'.pos.genuine = gnss.pos.genuine /\ gnss'.pos.age = older
      BY <1>1, <1>8
<1>10. PositionTypes'
  <2>1. receiver' \in [place : Places, left : 0 .. Sentences]
        BY <1>2, PositionConstants
  <2>2. taker \in Takings
        BY DEF PositionInv, PositionTypes
  <2>3. QED BY <1>1, <1>6, <1>8, <2>1, <2>2 DEF PositionTypes
<1>11. Known(gnss.pos)'
       BY <1>1, <1>9 DEF Known
<1>12. TakerInv'
       BY <1>1, <1>6 DEF TakerInv
<1>13. Sighted(gnss)'
  <2>1. sky > 0 => gnss.pos.valid
        BY <1>1 DEF Located
  <2>2. ASSUME gnss.pos.valid
        PROVE  (2 * Distance(gnss.pos.lat, p) <= MaxSpeed /\ older >= 1) \/ older >= sky + 1
    <3>1. older >= 1 /\ (gnss.pos.age < Patience => older >= gnss.pos.age + 1)
          /\ (gnss.pos.age >= Patience => older >= Patience)
          BY <1>3, <2>2, PositionConstants DEF older
    <3>2. CASE sky = 0
          BY <3>1, <3>2
    <3>3. CASE gnss.pos.lat = receiver.place
      <4>1. Distance(p, receiver.place) = Distance(receiver.place, p)
            BY <1>1, DistanceIs, PositionConstants
      <4>2. QED BY <1>2, <3>1, <3>3, <4>1
    <3>4. CASE gnss.pos.age >= sky /\ sky < Patience
          BY <1>1, <1>3, <1>4, <3>1, <3>4, PositionConstants
    <3>5. QED BY <1>1, <3>2, <3>3, <3>4 DEF Located
  <2>3. receiver'.place = p
        BY <1>2
  <2>4. QED BY <1>6, <1>8, <1>9, <2>1, <2>2, <2>3 DEF Sighted, Near
<1>14. QED BY <1>8, <1>10, <1>11, <1>12, <1>13 DEF PositionInv

(* The storage task's copy. *)
LEMMA TakingKeeps == PositionInv /\ (CopyLatitude \/ CopyLongitude \/ Publish \/ Recorded) => PositionInv'
<1> SUFFICES ASSUME PositionInv, CopyLatitude \/ CopyLongitude \/ Publish \/ Recorded PROVE PositionInv'
    OBVIOUS
<1>1. receiver' = receiver /\ gnss' = gnss /\ sky' = sky
      BY DEF CopyLatitude, CopyLongitude, Publish, Recorded
<1>2. taker \in Takings /\ gnss.pos \in Positions /\ TakerInv /\ Nothing \in Takings
  <2>1. taker \in Takings /\ gnss.pos \in Positions /\ TakerInv
        BY DEF PositionInv, PositionTypes, Receptions
  <2>2. NoFix \in Positions
        BY PositionConstants DEF NoFix
  <2>3. QED BY <2>1, <2>2 DEF Nothing
<1>3. taker' \in Takings /\ TakerInv'
  <2>1. CASE CopyLatitude
    <3>1. taker' = [Nothing EXCEPT !.at = "copy", !.lat = gnss.pos]
          BY <2>1 DEF CopyLatitude
    <3>2. QED BY <1>1, <1>2, <3>1 DEF TakerInv
  <2>2. CASE CopyLongitude
    <3>1. taker.at = "copy" /\ taker' = [taker EXCEPT !.at = "judge", !.lon = gnss.pos]
          BY <2>2 DEF CopyLongitude
    <3>2. QED BY <1>1, <1>2, <3>1 DEF TakerInv
  <2>3. CASE taker' = Nothing
    <3>1. taker'.at = "idle"
          BY <2>3 DEF Nothing
    <3>2. QED BY <1>2, <2>3, <3>1 DEF TakerInv
  <2>4. CASE taker.at = "judge" /\ IsFixFresh /\ taker' = [taker EXCEPT !.at = "published"]
        BY <1>1, <1>2, <2>4 DEF TakerInv, IsFixFresh
  <2>5. QED BY <2>1, <2>2, <2>3, <2>4 DEF Publish, Recorded
<1>4. QED BY <1>1, <1>3 DEF PositionInv, PositionTypes, Known, Sighted, Near, Located

LEMMA PositionStep == PositionInv /\ [Next]_vars => PositionInv'
<1> SUFFICES ASSUME PositionInv, [Next]_vars PROVE PositionInv'
    OBVIOUS
<1>1. CASE PositionNext
      BY <1>1, SentenceKeeps, EndCycleKeeps, GnssTickKeeps, TakingKeeps DEF PositionNext
<1>2. CASE UNCHANGED positionVars
      BY <1>2, PositionStutters
<1>3. QED BY <1>1, <1>2 DEF Next, MotorNext, PacksNext, FaultsNext, vars, positionVars

LEMMA PositionInvSound == PositionInv => PositionSound
<1> SUFFICES ASSUME PositionInv PROVE PositionSound
    OBVIOUS
<1>1. gnss.pos.valid => gnss.pos.genuine /\ gnss.pos.lat = gnss.pos.lon
      BY DEF PositionInv, Known
<1>2. taker.at = "published" /\ ~taker.moved => taker.lat = taker.lon /\ taker.lat.age < FixTimeout
      BY DEF PositionInv, TakerInv
<1>3. ASSUME gnss.at = "idle", sky >= Patience
      PROVE  gnss.pos.valid /\ gnss.pos.lat = receiver.place
  <2>1. sky > 0 /\ ~(sky < Patience)
        BY <1>3, PositionConstants DEF PositionInv, PositionTypes
  <2>2. QED BY <1>3, <2>1 DEF PositionInv, Located
<1>4. QED BY <1>1, <1>2, <1>3 DEF PositionSound

(* The position is sound (GnssIf.c), for any places, speed limit, patience *)
(* and number of sentences in a cycle. *)
THEOREM PositionIsSound == Spec => []PositionSound
<1>1. Spec => []PositionInv
      BY PositionStarts, PositionStep, PTL DEF Spec
<1>2. QED BY <1>1, PositionInvSound, PTL

-----------------------------------------------------------------------------
(***************************************************************************)
(* FaultsSound for every set of events, thresholds, monitors, measured     *)
(* voltages and number of replays.                                         *)
(*                                                                         *)
(* Within one report the voltage is measured once, so that all it makes of *)
(* a voltage event points one way: one that becomes confirmed has its      *)
(* whole threshold on the counter.  What the counter has gained is counted *)
(* in the history, but for events restored from flash, which had earned    *)
(* it.  A confirmed event failed in its cycle, so the one operation cycle  *)
(* of a start does not heal it, and what is stored is confirmed until it   *)
(* is cleared.                                                             *)
(***************************************************************************)

FaultRecords == [failedCycle : BOOLEAN, pending : BOOLEAN, confirmed : BOOLEAN,
                 debounce : Nat, healing : 0 .. HealingCycles, snapshot : BOOLEAN]
DemStates == {r \in [Events -> FaultRecords] : \A e \in Events : r[e].debounce <= Threshold[e]}
Requests == [last : 0 .. Cardinality(Events), at : {"off", "idle", "write", "clear"},
             block : SUBSET Events, cycle : BOOLEAN]
Histories == [fails : [Events -> Nat], earned : SUBSET Events, fresh : SUBSET Events,
              kept : SUBSET Events]

FaultTypes ==
    dem \in DemStates /\ diag \in Requests /\ flash \in SUBSET Events /\ shown \in Histories

(* The counter of an event holds no more than was counted, unless the      *)
(* event was restored; before the operation cycle nothing has healed.      *)
CountersInv ==
    /\ \A e \in Events : \/ dem[e].debounce <= shown.fails[e]
                         \/ e \in shown.earned /\ diag.at # "clear"
    /\ ~diag.cycle => \A e \in Events :
                          dem[e].healing = 0 /\ (dem[e].confirmed => dem[e].failedCycle)

EarnedInv ==
    /\ shown.fresh \subseteq shown.earned
    /\ Confirmed(dem) \subseteq shown.earned /\ flash \subseteq shown.earned
    /\ diag.block \subseteq shown.earned
    /\ diag.at = "clear" => diag.block = {} /\ Confirmed(dem) \subseteq shown.fresh

Replayed(E) == {e \in E : Threshold[e] <= Replays}

KeptInv ==
    /\ Replayed(shown.kept) \subseteq flash
    /\ diag.at # "off" => Replayed(shown.kept) \subseteq Confirmed(dem)
    /\ diag.at = "write" => /\ Replayed(shown.kept) \subseteq diag.block
                            /\ diag.block \subseteq Confirmed(dem)
    /\ diag.at = "clear" => shown.kept = {}

FaultInv == FaultTypes /\ CountersInv /\ EarnedInv /\ KeptInv

-----------------------------------------------------------------------------
(* What reports do to one record: whatever they are, *)
Onward(x, y) ==
    /\ x.confirmed => y.confirmed
    /\ x.failedCycle => y.failedCycle
    /\ y.confirmed => x.confirmed \/ y.failedCycle
    /\ y.healing \in {0, x.healing}

(* and if all of them have the same verdict. *)
OneWay(x, y, verdict, threshold) ==
    /\ verdict = "failed" => /\ x.debounce <= y.debounce
                             /\ y.confirmed => x.confirmed \/ y.debounce >= threshold
    /\ verdict = "passed" => /\ y.debounce <= x.debounce
                             /\ y.confirmed => x.confirmed

Verdict(e, counts) ==
    IF e = "VBATT_LOW" THEN LowVerdict(counts)
    ELSE IF Implausible(counts) THEN "failed" ELSE "passed"

(* From r1 to r2 by measurements of the voltage and any reports of the     *)
(* events in direct. *)
Measured(r1, r2, counts, direct) ==
    /\ r1 \in DemStates /\ r2 \in DemStates
    /\ \A e \in Events :
           /\ Onward(r1[e], r2[e])
           /\ e \notin direct =>
                  IF e \in VoltageEvents THEN OneWay(r1[e], r2[e], Verdict(e, counts), Threshold[e])
                  ELSE r2[e] = r1[e]

LEMMA FaultConstants ==
    /\ EventList \in Seq(Events) /\ VoltageEvents \subseteq Events
    /\ \A e \in Events : Threshold[e] \in Nat \ {0}
    /\ HealingCycles \in Nat \ {0} /\ Replays \in Nat \ {0}
    /\ Monitored \subseteq Events \ VoltageEvents
BY DemAssumption, DiagSwcAssumption, DevicesAssumption DEF VoltageEvents

LEMMA VerdictIs == \A e, counts : Verdict(e, counts) \in {"failed", "passed"}
BY DEF Verdict, LowVerdict

LEMMA RecordsAre ==
    ASSUME NEW r \in DemStates, NEW e \in Events
    PROVE  r[e] \in FaultRecords /\ r[e].debounce \in Nat /\ r[e].debounce <= Threshold[e]
           /\ r[e].healing \in 0 .. HealingCycles
BY DEF DemStates, FaultRecords

LEMMA OneWayJoins ==
    ASSUME NEW x \in FaultRecords, NEW y \in FaultRecords, NEW z \in FaultRecords,
           NEW verdict \in {"failed", "passed"}, NEW t \in Nat,
           OneWay(x, y, verdict, t), OneWay(y, z, verdict, t)
    PROVE  OneWay(x, z, verdict, t)
<1>1. x.debounce \in Nat /\ y.debounce \in Nat /\ z.debounce \in Nat
      BY DEF FaultRecords
<1>2. CASE verdict = "failed"
      BY <1>1, <1>2 DEF OneWay
<1>3. CASE verdict = "passed"
      BY <1>1, <1>3 DEF OneWay
<1>4. QED BY <1>2, <1>3

LEMMA MeasuredJoins ==
    ASSUME NEW r1, NEW r2, NEW r3, NEW counts, NEW direct,
           Measured(r1, r2, counts, direct), Measured(r2, r3, counts, direct)
    PROVE  Measured(r1, r3, counts, direct)
<1>1. r1 \in DemStates /\ r2 \in DemStates /\ r3 \in DemStates
      BY DEF Measured
<1>2. ASSUME NEW e \in Events
      PROVE  Onward(r1[e], r3[e])
  <2>1. Onward(r1[e], r2[e]) /\ Onward(r2[e], r3[e])
        BY DEF Measured
  <2>2. QED BY <2>1 DEF Onward
<1>3. ASSUME NEW e \in Events, e \notin direct, e \in VoltageEvents
      PROVE  OneWay(r1[e], r3[e], Verdict(e, counts), Threshold[e])
  <2>1. /\ OneWay(r1[e], r2[e], Verdict(e, counts), Threshold[e])
        /\ OneWay(r2[e], r3[e], Verdict(e, counts), Threshold[e])
        BY <1>3 DEF Measured
  <2>2. r1[e] \in FaultRecords /\ r2[e] \in FaultRecords /\ r3[e] \in FaultRecords
        BY <1>1, RecordsAre
  <2>3. Threshold[e] \in Nat /\ Verdict(e, counts) \in {"failed", "passed"}
        BY FaultConstants, VerdictIs
  <2>4. QED BY ONLY <2>1, <2>2, <2>3, OneWayJoins
<1>4. ASSUME NEW e \in Events, e \notin direct, e \notin VoltageEvents
      PROVE  r3[e] = r1[e]
      BY <1>4 DEF Measured
<1>5. QED BY <1>1, <1>2, <1>3, <1>4 DEF Measured

LEMMA MeasuredAnyway ==
    ASSUME NEW r1, NEW r2, NEW counts, NEW direct, Measured(r1, r2, counts, {})
    PROVE  Measured(r1, r2, counts, direct)
BY DEF Measured

LEMMA NotMeasured ==
    ASSUME NEW r \in DemStates, NEW counts, NEW direct
    PROVE  Measured(r, r, counts, direct)
<1>1. ASSUME NEW e \in Events
      PROVE  Onward(r[e], r[e]) /\ OneWay(r[e], r[e], Verdict(e, counts), Threshold[e])
  <2>1. r[e].debounce \in Nat
        BY RecordsAre
  <2>2. QED BY <2>1 DEF Onward, OneWay
<1>2. QED BY <1>1 DEF Measured

-----------------------------------------------------------------------------
(* One report. *)

LEMMA FailedIs ==
    ASSUME NEW x \in FaultRecords, NEW t \in Nat \ {0}, x.debounce <= t
    PROVE  LET y == Failed(x, t)
           IN /\ y \in FaultRecords /\ y.debounce <= t
              /\ Onward(x, y) /\ OneWay(x, y, "failed", t)
              /\ y.failedCycle /\ y.healing = 0
              /\ y.confirmed \/ (y.debounce = x.debounce + 1 /\ y.debounce < t)
<1> DEFINE count == IF x.debounce < t THEN x.debounce + 1 ELSE x.debounce
           confirmed == x.confirmed \/ count >= t
           pending == count < t
           y == [x EXCEPT !.failedCycle = TRUE, !.healing = 0, !.debounce = count,
                          !.confirmed = confirmed, !.pending = pending]
<1>1. x.debounce \in Nat /\ x.confirmed \in BOOLEAN /\ 0 \in 0 .. HealingCycles
      BY FaultConstants DEF FaultRecords
<1>2. /\ count \in Nat /\ x.debounce <= count /\ count <= t
      /\ confirmed \/ (count = x.debounce + 1 /\ count < t)
      BY <1>1
<1>3. confirmed \in BOOLEAN /\ pending \in BOOLEAN
      OBVIOUS
<1>4. confirmed => x.confirmed \/ count >= t
      OBVIOUS
<1>5. x.confirmed => confirmed
      OBVIOUS
<1>6. Failed(x, t) = y
      BY DEF Failed
<1> HIDE DEF count, confirmed, pending
<1>7. y \in FaultRecords
      BY <1>1, <1>2, <1>3 DEF FaultRecords
<1>8. /\ y.failedCycle = TRUE /\ y.healing = 0 /\ y.debounce = count
      /\ y.confirmed = confirmed
      BY DEF FaultRecords
<1> HIDE DEF y
<1>9. Onward(x, y)
      BY <1>8, <1>5 DEF Onward
<1>10. OneWay(x, y, "failed", t)
      BY <1>2, <1>8, <1>4 DEF OneWay
<1>11. y.confirmed \/ (y.debounce = x.debounce + 1 /\ y.debounce < t)
      BY <1>2, <1>8
<1>12. QED BY <1>2, <1>7, <1>8, <1>6, <1>9, <1>10, <1>11

LEMMA PassedIs ==
    ASSUME NEW x \in FaultRecords, NEW t \in Nat \ {0}, x.debounce <= t
    PROVE  LET y == Passed(x)
           IN /\ y \in FaultRecords /\ y.debounce <= t
              /\ Onward(x, y) /\ OneWay(x, y, "passed", t)
<1> DEFINE left == IF x.debounce > 0 THEN x.debounce - 1 ELSE 0
           y == [x EXCEPT !.debounce = left, !.pending = @ /\ left > 0]
<1>1. x.debounce \in Nat
      BY DEF FaultRecords
<1>2. left \in Nat /\ left <= x.debounce
      BY <1>1
<1> HIDE DEF left
<1>3. y \in FaultRecords
      BY <1>1, <1>2 DEF FaultRecords
<1>4. /\ y.failedCycle = x.failedCycle /\ y.healing = x.healing /\ y.debounce = left
      /\ y.confirmed = x.confirmed
      BY DEF FaultRecords
<1>5. Passed(x) = y
      BY DEF Passed, left
<1> HIDE DEF y
<1>6. Onward(x, y)
      BY <1>4 DEF Onward
<1>7. OneWay(x, y, "passed", t)
      BY <1>2, <1>4 DEF OneWay
<1>8. QED BY <1>1, <1>2, <1>3, <1>4, <1>5, <1>6, <1>7

LEMMA MarkIs ==
    ASSUME NEW r \in DemStates, NEW e \in Events, NEW status \in {"failed", "passed"}
    PROVE  LET m == Mark(r, e, status)
           IN /\ m \in DemStates
              /\ \A d \in Events : d # e => m[d] = r[d]
              /\ Onward(r[e], m[e]) /\ OneWay(r[e], m[e], status, Threshold[e])
              /\ status = "failed" => m[e] = Failed(r[e], Threshold[e])
<1> DEFINE y == IF status = "failed" THEN Failed(r[e], Threshold[e]) ELSE Passed(r[e])
           m == [r EXCEPT ![e] = y]
<1>1. Mark(r, e, status) = m
      BY DEF Mark
<1>2. r[e] \in FaultRecords /\ Threshold[e] \in Nat \ {0} /\ r[e].debounce <= Threshold[e]
      BY RecordsAre, FaultConstants
<1>3. /\ y \in FaultRecords /\ y.debounce <= Threshold[e]
      /\ Onward(r[e], y) /\ OneWay(r[e], y, status, Threshold[e])
  <2>1. CASE status = "failed"
        BY <1>2, <2>1, FailedIs
  <2>2. CASE status = "passed"
        BY <1>2, <2>2, PassedIs
  <2>3. QED BY <2>1, <2>2
<1> HIDE DEF y
<1>4. m \in DemStates /\ m[e] = y /\ \A d \in Events : d # e => m[d] = r[d]
      BY <1>3 DEF DemStates
<1>5. QED BY <1>1, <1>3, <1>4 DEF y

LEMMA MarkMeasured ==
    ASSUME NEW r \in DemStates, NEW e \in Events, NEW status \in {"failed", "passed"}, NEW counts
    PROVE  /\ Measured(r, Mark(r, e, status), counts, {e})
           /\ e \in VoltageEvents /\ status = Verdict(e, counts) =>
                  Measured(r, Mark(r, e, status), counts, {})
<1> DEFINE m == Mark(r, e, status)
<1>1. /\ m \in DemStates
      /\ \A d \in Events : d # e => m[d] = r[d]
      /\ Onward(r[e], m[e]) /\ OneWay(r[e], m[e], status, Threshold[e])
      BY MarkIs
<1> HIDE DEF m
<1>2. \A d \in Events : Onward(r[d], r[d]) /\ OneWay(r[d], r[d], Verdict(d, counts), Threshold[d])
  <2> TAKE d \in Events
  <2>1. r[d].debounce \in Nat
        BY RecordsAre
  <2>2. QED BY <2>1 DEF Onward, OneWay
<1>3. Measured(r, m, counts, {e})
  <2>1. ASSUME NEW d \in Events
        PROVE  /\ Onward(r[d], m[d])
               /\ d \notin {e} => IF d \in VoltageEvents
                                  THEN OneWay(r[d], m[d], Verdict(d, counts), Threshold[d]) ELSE m[d] = r[d]
    <3>1. CASE d = e
          BY <1>1, <3>1
    <3>2. CASE d # e
          BY <1>1, <1>2, <3>2
    <3>3. QED BY <3>1, <3>2
  <2>2. QED BY <1>1, <2>1 DEF Measured
<1>4. ASSUME e \in VoltageEvents, status = Verdict(e, counts)
      PROVE  Measured(r, m, counts, {})
  <2>1. ASSUME NEW d \in Events
        PROVE  /\ Onward(r[d], m[d])
               /\ IF d \in VoltageEvents
                  THEN OneWay(r[d], m[d], Verdict(d, counts), Threshold[d]) ELSE m[d] = r[d]
    <3>1. CASE d = e
          BY <1>1, <1>4, <3>1
    <3>2. CASE d # e
          BY <1>1, <1>2, <3>2
    <3>3. QED BY <3>1, <3>2
  <2>2. QED BY <1>1, <2>1 DEF Measured
<1>5. QED BY <1>3, <1>4 DEF m

(* The snapshot of an event leaves what was measured. *)
LEMMA CapturedMeasured ==
    ASSUME NEW r, NEW e \in Events, NEW marked, NEW provided, NEW counts, NEW direct,
           e \in direct \cup VoltageEvents,
           Measured(r, marked, counts, direct), Measured(marked, provided, counts, {})
    PROVE  Measured(r, Captured(r, e, marked, provided), counts, direct)
<1>1. Measured(r, provided, counts, direct)
      BY MeasuredAnyway, MeasuredJoins
<1>2. CASE Captured(r, e, marked, provided) = marked
      BY <1>2
<1>3. CASE Captured(r, e, marked, provided) = [provided EXCEPT ![e].snapshot = TRUE]
  <2> DEFINE c == [provided EXCEPT ![e].snapshot = TRUE]
  <2>1. r \in DemStates /\ provided \in DemStates /\ provided[e] \in FaultRecords
        /\ provided[e].debounce <= Threshold[e]
        BY <1>1, RecordsAre DEF Measured
  <2>2. PICK y : y = [provided[e] EXCEPT !.snapshot = TRUE]
        OBVIOUS
  <2>3. /\ y \in FaultRecords /\ y.debounce = provided[e].debounce /\ y.confirmed = provided[e].confirmed
        /\ y.failedCycle = provided[e].failedCycle /\ y.healing = provided[e].healing
        BY <2>1, <2>2 DEF FaultRecords
  <2>4. c = [provided EXCEPT ![e] = y]
        BY <2>1, <2>2 DEF DemStates
  <2> HIDE DEF c
  <2>5. c \in DemStates /\ c[e] = y /\ \A d \in Events : d # e => c[d] = provided[d]
        BY <2>1, <2>3, <2>4 DEF DemStates
  <2>6. ASSUME NEW d \in Events
        PROVE  /\ Onward(r[d], c[d])
               /\ d \notin direct => IF d \in VoltageEvents
                                     THEN OneWay(r[d], c[d], Verdict(d, counts), Threshold[d]) ELSE c[d] = r[d]
    <3>1. /\ Onward(r[d], provided[d])
          /\ d \notin direct => IF d \in VoltageEvents
                                THEN OneWay(r[d], provided[d], Verdict(d, counts), Threshold[d])
                                ELSE provided[d] = r[d]
          BY <1>1 DEF Measured
    <3>2. CASE d = e
      <4>1. Onward(r[e], y)
            BY <2>3, <3>1, <3>2 DEF Onward
      <4>2. OneWay(r[e], provided[e], Verdict(e, counts), Threshold[e])
            => OneWay(r[e], y, Verdict(e, counts), Threshold[e])
            BY <2>3 DEF OneWay
      <4>3. QED BY <2>5, <3>1, <3>2, <4>1, <4>2
    <3>3. CASE d # e
          BY <2>5, <3>1, <3>3
    <3>4. QED BY <3>2, <3>3
  <2>7. Measured(r, c, counts, direct)
        BY <2>1, <2>5, <2>6 DEF Measured
  <2>8. QED BY <1>3, <2>7 DEF c
<1>4. QED BY <1>2, <1>3 DEF Captured

-----------------------------------------------------------------------------
(* The voltage monitor, one level of nested reports after the other. *)

LEMMA VerdictsAre ==
    ASSUME NEW counts
    PROVE  /\ Implausible(counts) => Verdict("VBATT_SENSE_FAULT", counts) = "failed"
           /\ ~Implausible(counts) => Verdict("VBATT_SENSE_FAULT", counts) = "passed"
           /\ Verdict("VBATT_LOW", counts) = LowVerdict(counts)
           /\ "VBATT_SENSE_FAULT" \in VoltageEvents /\ "VBATT_LOW" \in VoltageEvents
BY DEF Verdict, VoltageEvents

LEMMA Report0Measured ==
    ASSUME NEW r \in DemStates, NEW counts, NEW e \in VoltageEvents
    PROVE  Measured(r, Report0(r, e, Verdict(e, counts), counts), counts, {})
<1>1. e \in Events /\ Verdict(e, counts) \in {"failed", "passed"}
      BY FaultConstants, VerdictIs
<1>2. QED BY <1>1, MarkMeasured DEF Report0

LEMMA Provide0Measured ==
    ASSUME NEW r \in DemStates, NEW counts
    PROVE  Measured(r, Provide0(r, counts), counts, {})
<1> DEFINE sensed == Report0(r, "VBATT_SENSE_FAULT", "passed", counts)
<1>1. CASE Implausible(counts)
  <2>1. Provide0(r, counts) = Report0(r, "VBATT_SENSE_FAULT", "failed", counts)
        BY <1>1 DEF Provide0, SenseVerdict
  <2>2. QED BY <1>1, <2>1, VerdictsAre, Report0Measured
<1>2. CASE ~Implausible(counts)
  <2>1. Provide0(r, counts) = Report0(sensed, "VBATT_LOW", LowVerdict(counts), counts)
        BY <1>2 DEF Provide0, SenseVerdict
  <2>2. Measured(r, sensed, counts, {})
        BY <1>2, VerdictsAre, Report0Measured
  <2>3. sensed \in DemStates
        BY <2>2 DEF Measured
  <2> HIDE DEF sensed
  <2>4. Measured(sensed, Report0(sensed, "VBATT_LOW", LowVerdict(counts), counts), counts, {})
        BY <2>3, VerdictsAre, Report0Measured
  <2>5. QED BY <2>1, <2>2, <2>4, MeasuredJoins
<1>3. QED BY <1>1, <1>2

LEMMA Report1Measured ==
    ASSUME NEW r \in DemStates, NEW counts, NEW e \in VoltageEvents
    PROVE  Measured(r, Report1(r, e, Verdict(e, counts), counts), counts, {})
<1> DEFINE marked == Mark(r, e, Verdict(e, counts))
<1>1. e \in Events /\ Verdict(e, counts) \in {"failed", "passed"}
      BY FaultConstants, VerdictIs
<1>2. Measured(r, marked, counts, {})
      BY <1>1, MarkMeasured
<1>3. marked \in DemStates
      BY <1>2 DEF Measured
<1>4. Report1(r, e, Verdict(e, counts), counts) = Captured(r, e, marked, Provide0(marked, counts))
      BY DEF Report1
<1> HIDE DEF marked
<1>5. Measured(marked, Provide0(marked, counts), counts, {})
      BY <1>3, Provide0Measured
<1>6. QED BY <1>1, <1>2, <1>4, <1>5, CapturedMeasured

LEMMA Provide1Measured ==
    ASSUME NEW r \in DemStates, NEW counts
    PROVE  Measured(r, Provide1(r, counts), counts, {})
<1> DEFINE sensed == Report1(r, "VBATT_SENSE_FAULT", "passed", counts)
<1>1. CASE Implausible(counts)
  <2>1. Provide1(r, counts) = Report1(r, "VBATT_SENSE_FAULT", "failed", counts)
        BY <1>1 DEF Provide1, SenseVerdict
  <2>2. QED BY <1>1, <2>1, VerdictsAre, Report1Measured
<1>2. CASE ~Implausible(counts)
  <2>1. Provide1(r, counts) = Report1(sensed, "VBATT_LOW", LowVerdict(counts), counts)
        BY <1>2 DEF Provide1, SenseVerdict
  <2>2. Measured(r, sensed, counts, {})
        BY <1>2, VerdictsAre, Report1Measured
  <2>3. sensed \in DemStates
        BY <2>2 DEF Measured
  <2> HIDE DEF sensed
  <2>4. Measured(sensed, Report1(sensed, "VBATT_LOW", LowVerdict(counts), counts), counts, {})
        BY <2>3, VerdictsAre, Report1Measured
  <2>5. QED BY <2>1, <2>2, <2>4, MeasuredJoins
<1>3. QED BY <1>1, <1>2

LEMMA Report2Measured ==
    ASSUME NEW r \in DemStates, NEW counts, NEW e \in VoltageEvents
    PROVE  Measured(r, Report2(r, e, Verdict(e, counts), counts), counts, {})
<1> DEFINE marked == Mark(r, e, Verdict(e, counts))
<1>1. e \in Events /\ Verdict(e, counts) \in {"failed", "passed"}
      BY FaultConstants, VerdictIs
<1>2. Measured(r, marked, counts, {})
      BY <1>1, MarkMeasured
<1>3. marked \in DemStates
      BY <1>2 DEF Measured
<1>4. Report2(r, e, Verdict(e, counts), counts) = Captured(r, e, marked, Provide1(marked, counts))
      BY DEF Report2
<1> HIDE DEF marked
<1>5. Measured(marked, Provide1(marked, counts), counts, {})
      BY <1>3, Provide1Measured
<1>6. QED BY <1>1, <1>2, <1>4, <1>5, CapturedMeasured

LEMMA ProvideMeasured ==
    ASSUME NEW r \in DemStates, NEW counts
    PROVE  Measured(r, ProvideSnapshot(r, counts), counts, {})
<1> DEFINE sensed == Report2(r, "VBATT_SENSE_FAULT", "passed", counts)
<1>1. CASE Implausible(counts)
  <2>1. ProvideSnapshot(r, counts) = Report2(r, "VBATT_SENSE_FAULT", "failed", counts)
        BY <1>1 DEF ProvideSnapshot, SenseVerdict
  <2>2. QED BY <1>1, <2>1, VerdictsAre, Report2Measured
<1>2. CASE ~Implausible(counts)
  <2>1. ProvideSnapshot(r, counts) = Report2(sensed, "VBATT_LOW", LowVerdict(counts), counts)
        BY <1>2 DEF ProvideSnapshot, SenseVerdict
  <2>2. Measured(r, sensed, counts, {})
        BY <1>2, VerdictsAre, Report2Measured
  <2>3. sensed \in DemStates
        BY <2>2 DEF Measured
  <2> HIDE DEF sensed
  <2>4. Measured(sensed, Report2(sensed, "VBATT_LOW", LowVerdict(counts), counts), counts, {})
        BY <2>3, VerdictsAre, Report2Measured
  <2>5. QED BY <2>1, <2>2, <2>4, MeasuredJoins
<1>3. QED BY <1>1, <1>2

(* A report of one event. *)
LEMMA StatusMeasured ==
    ASSUME NEW r \in DemStates, NEW e \in Events, NEW status \in {"failed", "passed"}, NEW counts
    PROVE  LET marked == Mark(r, e, status)
               s == SetEventStatus(r, e, status, counts)
           IN /\ Measured(r, s, counts, {e})
              /\ e \notin VoltageEvents => OneWay(r[e], s[e], status, Threshold[e])
              /\ marked[e].confirmed => s[e].confirmed
              /\ ~marked[e].confirmed => s = marked
<1> DEFINE marked == Mark(r, e, status)
           provided == ProvideSnapshot(marked, counts)
           s == SetEventStatus(r, e, status, counts)
<1>1. Measured(r, marked, counts, {e}) /\ OneWay(r[e], marked[e], status, Threshold[e])
      BY MarkMeasured, MarkIs
<1>2. marked \in DemStates
      BY <1>1 DEF Measured
<1>3. s = Captured(r, e, marked, provided)
      BY DEF SetEventStatus
<1> HIDE DEF marked
<1>4. Measured(marked, provided, counts, {})
      BY <1>2, ProvideMeasured
<1> HIDE DEF provided, s
<1>5. Measured(r, s, counts, {e})
      BY <1>1, <1>3, <1>4, CapturedMeasured
<1>6. s = marked \/ s = [provided EXCEPT ![e].snapshot = TRUE]
      BY <1>3 DEF Captured
<1>7. ~marked[e].confirmed => s = marked
      BY <1>3 DEF Captured
<1>8. s = marked \/ (s[e].debounce = provided[e].debounce /\ s[e].confirmed = provided[e].confirmed)
  <2>1. CASE s = marked
        BY <2>1
  <2>2. CASE s = [provided EXCEPT ![e].snapshot = TRUE]
    <3>1. provided \in DemStates
          BY <1>4 DEF Measured
    <3>2. provided[e] \in FaultRecords
          BY <3>1, RecordsAre
    <3>3. s[e] = [provided[e] EXCEPT !.snapshot = TRUE]
          BY <2>2, <3>1 DEF DemStates
    <3>4. QED BY <3>2, <3>3 DEF FaultRecords
  <2>3. QED BY <1>6, <2>1, <2>2
<1>9. marked[e].confirmed => s[e].confirmed
  <2>1. Onward(marked[e], provided[e])
        BY <1>4 DEF Measured
  <2>2. QED BY <1>8, <2>1 DEF Onward
<1>10. ASSUME e \notin VoltageEvents PROVE OneWay(r[e], s[e], status, Threshold[e])
  <2>1. provided[e] = marked[e]
        BY <1>4, <1>10 DEF Measured
  <2>2. s[e].debounce = marked[e].debounce /\ s[e].confirmed = marked[e].confirmed
        BY <1>8, <2>1
  <2>3. QED BY <1>1, <2>2 DEF OneWay
<1>11. QED BY <1>5, <1>7, <1>9, <1>10 DEF marked, s

-----------------------------------------------------------------------------
(* The replay of a stored fault: loops over the reports and the events.    *)

LEMMA Counting ==
    ASSUME NEW S \in SUBSET Nat, 0 \in S, \A n \in S : n + 1 \in S
    PROVE  \A n \in Nat : n \in S
<1> DEFINE R == {p \in Nat \X Nat : p[1] < p[2]}
           rest == Nat \ S
<1>1. IsWellFoundedOn(R, Nat)
      BY NatLessThanWellFounded DEF OpToRel
<1> HIDE DEF R
<1> SUFFICES ASSUME rest # {} PROVE FALSE
    OBVIOUS
<1>2. rest \subseteq Nat
      OBVIOUS
<1>3. PICK n \in rest : \A m \in rest : ~(<<m, n>> \in R)
      BY <1>1, <1>2, WFMin
<1>4. n \in Nat /\ n # 0 /\ n - 1 \in Nat /\ (n - 1) + 1 = n
      BY <1>2
<1>5. <<n - 1, n>> \in R
      BY <1>4 DEF R
<1>6. n - 1 \in S
      BY <1>3, <1>4, <1>5
<1>7. n \in S
      BY <1>4, <1>6
<1>8. QED BY <1>7

(* What Replay builds in n reports. *)
ReplayRun(f, r, e, counts, n) ==
    f = [i \in 0 .. n |-> IF i = 0 THEN r ELSE Again(f[i - 1], e, i, counts)]

LEMMA ReplayLoop ==
    ASSUME NEW r, NEW e, NEW counts, NEW n \in Nat
    PROVE  \E f : ReplayRun(f, r, e, counts, n)
<1> DEFINE P(f, k) == f = [i \in 0 .. k |-> IF i = 0 THEN r ELSE Again(f[i - 1], e, i, counts)]
           S == {k \in Nat : \E f : P(f, k)}
<1>1. 0 \in S
  <2> DEFINE f == [i \in 0 .. 0 |-> r]
  <2>1. P(f, 0)
        OBVIOUS
  <2>2. QED BY <2>1
<1>2. ASSUME NEW k \in S PROVE k + 1 \in S
  <2>1. k \in Nat /\ 0 .. k + 1 = (0 .. k) \cup {k + 1} /\ k + 1 \notin 0 .. k
        OBVIOUS
  <2>2. PICK f : P(f, k)
        OBVIOUS
  <2> DEFINE g == [i \in 0 .. k + 1 |-> IF i = k + 1 THEN Again(f[k], e, k + 1, counts) ELSE f[i]]
             h == [i \in 0 .. k + 1 |-> IF i = 0 THEN r ELSE Again(g[i - 1], e, i, counts)]
  <2>3. \A i \in 0 .. k : f[i] = IF i = 0 THEN r ELSE Again(f[i - 1], e, i, counts)
        BY <2>2
  <2>4. ASSUME NEW i \in 0 .. k + 1
        PROVE  g[i] = IF i = 0 THEN r ELSE Again(g[i - 1], e, i, counts)
    <3>1. CASE i = k + 1
      <4>1. i - 1 = k /\ k \in 0 .. k + 1 /\ k # k + 1 /\ i # 0
            BY <2>1, <3>1
      <4>2. g[k] = f[k]
            BY <4>1
      <4>3. QED BY <3>1, <4>1, <4>2
    <3>2. CASE i = 0
          BY <2>1, <2>3, <3>2
    <3>3. CASE i # k + 1 /\ i # 0
      <4>1. i \in 0 .. k /\ i - 1 \in 0 .. k + 1 /\ i - 1 # k + 1
            BY <2>1, <3>3
      <4>2. g[i] = f[i] /\ g[i - 1] = f[i - 1]
            BY <3>3, <4>1
      <4>3. QED BY <2>3, <3>3, <4>1, <4>2
    <3>4. QED BY <3>1, <3>2, <3>3
  <2>5. g = [i \in 0 .. k + 1 |-> g[i]] /\ h = [i \in 0 .. k + 1 |-> h[i]]
        OBVIOUS
  <2>6. \A i \in 0 .. k + 1 : h[i] = IF i = 0 THEN r ELSE Again(g[i - 1], e, i, counts)
        OBVIOUS
  <2> HIDE DEF g
  <2>7. g = h
    <3> HIDE DEF h
    <3>1. QED BY <2>4, <2>5, <2>6
  <2>8. P(g, k + 1)
        BY <2>7
  <2>9. QED BY <2>1, <2>8
<1>3. S \in SUBSET Nat
      OBVIOUS
<1> HIDE DEF S
<1>4. n \in S
      BY <1>1, <1>2, <1>3, Counting
<1>5. QED BY <1>4 DEF S, ReplayRun

LEMMA AgainIs ==
    ASSUME NEW x \in DemStates, NEW e \in Events, NEW i, NEW counts
    PROVE  LET y == Again(x, e, i, counts)
           IN /\ Measured(x, y, counts, {e})
              /\ \/ y[e].confirmed
                 \/ y[e].debounce = x[e].debounce + 1 /\ y[e].debounce < Threshold[e]
<1> DEFINE y == Again(x, e, i, counts)
           marked == Mark(x, e, "failed")
           s == SetEventStatus(x, e, "failed", counts)
<1>1. CASE i > 1 /\ x[e].confirmed
  <2>1. y = x
        BY <1>1 DEF Again
  <2>2. QED BY <1>1, <2>1, NotMeasured
<1>2. CASE ~(i > 1 /\ x[e].confirmed)
  <2>1. y = s
        BY <1>2 DEF Again
  <2>2. /\ Measured(x, s, counts, {e})
        /\ marked[e].confirmed => s[e].confirmed
        /\ ~marked[e].confirmed => s = marked
        BY StatusMeasured
  <2>3. marked[e] = Failed(x[e], Threshold[e])
        BY MarkIs
  <2>4. x[e] \in FaultRecords /\ Threshold[e] \in Nat \ {0} /\ x[e].debounce <= Threshold[e]
        BY RecordsAre, FaultConstants
  <2>5. marked[e].confirmed \/ (marked[e].debounce = x[e].debounce + 1 /\ marked[e].debounce < Threshold[e])
        BY <2>3, <2>4, FailedIs
  <2> HIDE DEF s, marked, y
  <2>6. QED BY <2>1, <2>2, <2>5 DEF y
<1>3. QED BY <1>1, <1>2

(* What the replay asks for: the event is confirmed, if its threshold is   *)
(* within the number of reports. *)
LEMMA ReplayMeasured ==
    ASSUME NEW r \in DemStates, NEW e \in Events, NEW counts
    PROVE  /\ Measured(r, Replay(r, e, counts), counts, {e})
           /\ Threshold[e] <= Replays => Replay(r, e, counts)[e].confirmed
<1> DEFINE P(f) == f = [i \in 0 .. Replays |-> IF i = 0 THEN r ELSE Again(f[i - 1], e, i, counts)]
           after == CHOOSE f : P(f)
<1>1. Replays \in Nat \ {0} /\ Threshold[e] \in Nat \ {0}
      BY FaultConstants
<1>2. Replay(r, e, counts) = after[Replays]
      BY DEF Replay
<1>3. \E f : P(f)
  <2>1. \E f : ReplayRun(f, r, e, counts, Replays)
        BY <1>1, ReplayLoop
  <2>2. QED BY <2>1 DEF ReplayRun
<1>4. P(after)
  <2> HIDE DEF P
  <2>1. QED BY <1>3
<1> HIDE DEF after
<1>5. \A i \in 0 .. Replays : after[i] = IF i = 0 THEN r ELSE Again(after[i - 1], e, i, counts)
      BY <1>4
<1> HIDE DEF P
<1> DEFINE Good(i) == /\ Measured(r, after[i], counts, {e})
                      /\ after[i][e].confirmed \/ after[i][e].debounce >= i
                      /\ i > 0 => after[i][e].confirmed \/ after[i][e].debounce < Threshold[e]
           S == {i \in Nat : i <= Replays => Good(i)}
<1>6. 0 \in S
  <2>1. after[0] = r
        BY <1>1, <1>5
  <2>2. r[e].debounce \in Nat
        BY RecordsAre
  <2>3. Measured(r, r, counts, {e})
        BY NotMeasured
  <2>4. QED BY <2>1, <2>2, <2>3
<1>7. ASSUME NEW i \in S PROVE i + 1 \in S
  <2> SUFFICES ASSUME i + 1 <= Replays PROVE Good(i + 1)
      OBVIOUS
  <2>1. i \in Nat /\ Good(i) /\ i + 1 \in 0 .. Replays /\ i + 1 # 0 /\ (i + 1) - 1 = i
        BY <1>1
  <2>2. after[i + 1] = Again(after[i], e, i + 1, counts)
        BY <1>5, <2>1
  <2> DEFINE x == after[i]
             y == after[i + 1]
  <2>3. x \in DemStates /\ y = Again(x, e, i + 1, counts)
        BY <2>1, <2>2 DEF Measured
  <2>4. /\ Measured(x, y, counts, {e})
        /\ y[e].confirmed \/ (y[e].debounce = x[e].debounce + 1 /\ y[e].debounce < Threshold[e])
    <3> HIDE DEF x, y
    <3>1. PICK k : k = i + 1
          OBVIOUS
    <3>2. QED BY ONLY <2>3, <3>1, e \in Events, AgainIs
  <2>5. Measured(r, y, counts, {e})
        BY <2>1, <2>4, MeasuredJoins
  <2>6. x[e].confirmed => y[e].confirmed
        BY <2>4 DEF Measured, Onward
  <2>7. x[e].debounce \in Nat
        BY <2>3, RecordsAre
  <2> HIDE DEF x, y
  <2>8. (x[e].confirmed \/ x[e].debounce >= i)
        BY <2>1 DEF x
  <2>9. y[e].confirmed \/ (y[e].debounce >= i + 1 /\ y[e].debounce < Threshold[e])
        BY <2>1, <2>4, <2>6, <2>7, <2>8
  <2>10. QED BY <2>5, <2>9 DEF y
<1>8. S \in SUBSET Nat
      OBVIOUS
<1> HIDE DEF S
<1>9. Replays \in S
      BY <1>1, <1>6, <1>7, <1>8, Counting
<1>10. Good(Replays)
       BY <1>1, <1>9 DEF S
<1>11. after[Replays] \in DemStates
       BY <1>10 DEF Measured
<1>12. after[Replays][e].debounce \in Nat
       BY <1>11, RecordsAre
<1>13. Threshold[e] <= Replays => after[Replays][e].confirmed
       BY <1>1, <1>10, <1>12
<1>14. QED BY <1>2, <1>10, <1>13

(* What Restore builds over the first n events. *)
RestoreRun(f, block, counts, n) ==
    f = [i \in 0 .. n |-> IF i = 0 THEN DemInit
                          ELSE RestoreOne(f[i - 1], block, EventList[i], counts)]

LEMMA RestoreLoop ==
    ASSUME NEW block, NEW counts, NEW n \in Nat
    PROVE  \E f : RestoreRun(f, block, counts, n)
<1> DEFINE P(f, k) == f = [i \in 0 .. k |-> IF i = 0 THEN DemInit
                                            ELSE RestoreOne(f[i - 1], block, EventList[i], counts)]
           S == {k \in Nat : \E f : P(f, k)}
<1>1. 0 \in S
  <2> DEFINE f == [i \in 0 .. 0 |-> DemInit]
  <2>1. P(f, 0)
        OBVIOUS
  <2>2. QED BY <2>1
<1>2. ASSUME NEW k \in S PROVE k + 1 \in S
  <2>1. k \in Nat /\ 0 .. k + 1 = (0 .. k) \cup {k + 1} /\ k + 1 \notin 0 .. k
        OBVIOUS
  <2>2. PICK f : P(f, k)
        OBVIOUS
  <2> DEFINE g == [i \in 0 .. k + 1 |-> IF i = k + 1 THEN RestoreOne(f[k], block, EventList[k + 1], counts)
                                        ELSE f[i]]
             h == [i \in 0 .. k + 1 |-> IF i = 0 THEN DemInit
                                        ELSE RestoreOne(g[i - 1], block, EventList[i], counts)]
  <2>3. \A i \in 0 .. k : f[i] = IF i = 0 THEN DemInit ELSE RestoreOne(f[i - 1], block, EventList[i], counts)
        BY <2>2
  <2>4. ASSUME NEW i \in 0 .. k + 1
        PROVE  g[i] = IF i = 0 THEN DemInit ELSE RestoreOne(g[i - 1], block, EventList[i], counts)
    <3>1. CASE i = k + 1
      <4>1. i - 1 = k /\ k \in 0 .. k + 1 /\ k # k + 1 /\ i # 0
            BY <2>1, <3>1
      <4>2. g[k] = f[k]
            BY <4>1
      <4>3. QED BY <3>1, <4>1, <4>2
    <3>2. CASE i = 0
          BY <2>1, <2>3, <3>2
    <3>3. CASE i # k + 1 /\ i # 0
      <4>1. i \in 0 .. k /\ i - 1 \in 0 .. k + 1 /\ i - 1 # k + 1
            BY <2>1, <3>3
      <4>2. g[i] = f[i] /\ g[i - 1] = f[i - 1]
            BY <3>3, <4>1
      <4>3. QED BY <2>3, <3>3, <4>1, <4>2
    <3>4. QED BY <3>1, <3>2, <3>3
  <2>5. g = [i \in 0 .. k + 1 |-> g[i]] /\ h = [i \in 0 .. k + 1 |-> h[i]]
        OBVIOUS
  <2>6. \A i \in 0 .. k + 1 : h[i] = IF i = 0 THEN DemInit ELSE RestoreOne(g[i - 1], block, EventList[i], counts)
        OBVIOUS
  <2> HIDE DEF g
  <2>7. g = h
    <3> HIDE DEF h
    <3>1. QED BY <2>4, <2>5, <2>6
  <2>8. P(g, k + 1)
        BY <2>7
  <2>9. QED BY <2>1, <2>8
<1>3. S \in SUBSET Nat
      OBVIOUS
<1> HIDE DEF S
<1>4. n \in S
      BY <1>1, <1>2, <1>3, Counting
<1>5. QED BY <1>4 DEF S, RestoreRun

LEMMA NeverTestedIs ==
    /\ DemInit \in DemStates
    /\ \A e \in Events : /\ DemInit[e] = NeverTested
                         /\ ~DemInit[e].confirmed /\ DemInit[e].healing = 0 /\ DemInit[e].debounce = 0
<1>1. NeverTested \in FaultRecords /\ NeverTested.debounce = 0 /\ ~NeverTested.confirmed
      /\ NeverTested.healing = 0
      BY FaultConstants DEF NeverTested, FaultRecords
<1>2. \A e \in Events : DemInit[e] = NeverTested
      BY DEF DemInit
<1>3. DemInit \in [Events -> FaultRecords]
      BY <1>1 DEF DemInit
<1>4. QED BY <1>1, <1>2, <1>3, FaultConstants DEF DemStates

LEMMA RestoreMeasured ==
    ASSUME NEW block \in SUBSET Events, NEW counts
    PROVE  LET r == Restore(block, counts)
           IN /\ Measured(DemInit, r, counts, block)
              /\ \A e \in block : Threshold[e] <= Replays => r[e].confirmed
<1> DEFINE last == Len(EventList)
           P(f) == f = [i \in 0 .. last |-> IF i = 0 THEN DemInit
                                            ELSE RestoreOne(f[i - 1], block, EventList[i], counts)]
           after == CHOOSE f : P(f)
<1>1. last \in Nat /\ EventList \in Seq(Events)
      BY FaultConstants
<1>2. Restore(block, counts) = after[last]
      BY DEF Restore
<1>3. \E f : P(f)
  <2>1. \E f : RestoreRun(f, block, counts, last)
        BY <1>1, RestoreLoop
  <2>2. QED BY <2>1 DEF RestoreRun
<1>4. P(after)
  <2> HIDE DEF P
  <2>1. QED BY <1>3
<1> HIDE DEF after
<1>5. \A i \in 0 .. last : after[i] = IF i = 0 THEN DemInit
                                      ELSE RestoreOne(after[i - 1], block, EventList[i], counts)
      BY <1>4
<1> HIDE DEF P
<1> DEFINE Good(i) == /\ Measured(DemInit, after[i], counts, block)
                      /\ \A j \in 1 .. i : EventList[j] \in block /\ Threshold[EventList[j]] <= Replays
                                           => after[i][EventList[j]].confirmed
           S == {i \in Nat : i <= last => Good(i)}
<1>6. 0 \in S
  <2>1. after[0] = DemInit
        BY <1>1, <1>5
  <2>2. Measured(DemInit, DemInit, counts, block)
        BY NeverTestedIs, NotMeasured
  <2>3. QED BY <2>1, <2>2
<1>7. ASSUME NEW i \in S PROVE i + 1 \in S
  <2> SUFFICES ASSUME i + 1 <= last PROVE Good(i + 1)
      OBVIOUS
  <2>1. i \in Nat /\ Good(i) /\ i + 1 \in 0 .. last /\ i + 1 # 0 /\ (i + 1) - 1 = i /\ i + 1 \in 1 .. last
        BY <1>1
  <2> DEFINE x == after[i]
             y == after[i + 1]
             e == EventList[i + 1]
  <2>2. y = RestoreOne(x, block, e, counts)
        BY <1>5, <2>1
  <2>3. x \in DemStates
        BY <2>1 DEF Measured
  <2>4. e \in Events
        BY <1>1, <2>1
  <2> HIDE DEF x, y, e
  <2>5. Measured(x, y, counts, block) /\ (e \in block /\ Threshold[e] <= Replays => y[e].confirmed)
    <3>1. CASE e \notin block
      <4>1. y = x
            BY <2>2, <3>1 DEF RestoreOne
      <4>2. QED BY <2>3, <3>1, <4>1, NotMeasured
    <3>2. CASE e \in block
      <4>1. y = Replay(x, e, counts)
            BY <2>2, <3>2 DEF RestoreOne
      <4>2. Measured(x, y, counts, {e}) /\ (Threshold[e] <= Replays => y[e].confirmed)
            BY <2>3, <2>4, <4>1, ReplayMeasured
      <4>3. Measured(x, y, counts, block)
            BY <3>2, <4>2 DEF Measured
      <4>4. QED BY <4>2, <4>3
    <3>3. QED BY <3>1, <3>2
  <2>6. Measured(DemInit, y, counts, block)
        BY <2>1, <2>5, MeasuredJoins DEF x
  <2>7. ASSUME NEW j \in 1 .. i + 1, EventList[j] \in block, Threshold[EventList[j]] <= Replays
        PROVE  y[EventList[j]].confirmed
    <3>1. CASE j = i + 1
          BY <2>5, <2>7, <3>1 DEF e
    <3>2. CASE j \in 1 .. i
      <4>1. x[EventList[j]].confirmed
            BY <2>1, <2>7, <3>2 DEF x
      <4>2. QED BY <2>5, <2>7, <4>1 DEF Measured, Onward
    <3>3. QED BY <2>1, <3>1, <3>2
  <2>8. QED BY <2>6, <2>7 DEF y
<1>8. S \in SUBSET Nat
      OBVIOUS
<1> HIDE DEF S
<1>9. last \in S
      BY <1>1, <1>6, <1>7, <1>8, Counting
<1>10. Good(last)
       BY <1>1, <1>9 DEF S
<1>11. ASSUME NEW e \in block, Threshold[e] <= Replays
       PROVE  after[last][e].confirmed
  <2>1. PICK j \in DOMAIN EventList : EventList[j] = e
        BY <1>11 DEF Events, Range
  <2>2. j \in 1 .. last
        BY <1>1, <2>1
  <2>3. QED BY <1>10, <1>11, <2>1, <2>2
<1>12. QED BY <1>2, <1>10, <1>11

-----------------------------------------------------------------------------
(* The steps. *)

LEMMA EventsAreFinite ==
    /\ IsFiniteSet(Events)
    /\ \A E \in SUBSET Events : Cardinality(E) \in 0 .. Cardinality(Events)
<1>1. Len(EventList) \in Nat /\ DOMAIN EventList = 1 .. Len(EventList)
      BY FaultConstants
<1>2. IsFiniteSet(1 .. Len(EventList))
      BY <1>1, FS_Interval
<1>3. Events = {EventList[i] : i \in 1 .. Len(EventList)}
      BY <1>1 DEF Events, Range
<1>4. IsFiniteSet(Events)
  <2>1. EventList \in Surjection(1 .. Len(EventList), Events)
    <3>1. EventList \in [1 .. Len(EventList) -> Events]
          BY <1>1, FaultConstants
    <3>2. QED BY <1>3, <3>1 DEF Surjection
  <2>2. QED BY <1>2, <2>1, FS_Surjection
<1>5. ASSUME NEW E \in SUBSET Events
      PROVE  Cardinality(E) \in 0 .. Cardinality(Events)
  <2>1. IsFiniteSet(E) /\ Cardinality(E) <= Cardinality(Events)
        BY <1>4, FS_Subset
  <2>2. Cardinality(E) \in Nat /\ Cardinality(Events) \in Nat
        BY <1>4, <2>1, FS_CardinalityType
  <2>3. QED BY ONLY <2>1, <2>2
<1>6. QED BY <1>4, <1>5

(* The history of a step: what the counters gain is counted, and who has   *)
(* collected a threshold of it has earned to be shown. *)
LEMMA CountIs ==
    ASSUME NEW h \in Histories, NEW r1 \in DemStates, NEW r2 \in DemStates
    PROVE  LET g == Count(h, r1, r2)
           IN /\ g \in Histories /\ g.kept = h.kept
              /\ \E now \in SUBSET Events : /\ g.earned = h.earned \cup now
                                            /\ g.fresh = h.fresh \cup now
              /\ \A e \in Events : r1[e].debounce <= h.fails[e] =>
                     /\ r2[e].debounce <= g.fails[e]
                     /\ r2[e].debounce >= Threshold[e] => e \in g.earned /\ e \in g.fresh
<1> DEFINE fails == [e \in Events |->
                        IF r2[e].debounce > r1[e].debounce
                        THEN h.fails[e] + r2[e].debounce - r1[e].debounce ELSE h.fails[e]]
           now == {e \in Events : fails[e] >= Threshold[e]}
           capped == [e \in Events |-> IF e \in now THEN Threshold[e] ELSE fails[e]]
           g == Count(h, r1, r2)
<1>1. h.fails \in [Events -> Nat] /\ h.earned \in SUBSET Events /\ h.fresh \in SUBSET Events
      /\ h.kept \in SUBSET Events
      BY DEF Histories
<1>2. g = [h EXCEPT !.fails = capped, !.earned = @ \cup now, !.fresh = @ \cup now]
      BY DEF Count
<1>3. ASSUME NEW e \in Events
      PROVE  /\ fails[e] \in Nat
             /\ r1[e].debounce <= h.fails[e] => r2[e].debounce <= fails[e]
             /\ r2[e].debounce \in Nat /\ r2[e].debounce <= Threshold[e] /\ Threshold[e] \in Nat
  <2>1. /\ r1[e].debounce \in Nat /\ r2[e].debounce \in Nat /\ r2[e].debounce <= Threshold[e]
        /\ Threshold[e] \in Nat /\ h.fails[e] \in Nat
        BY <1>1, RecordsAre, FaultConstants
  <2>2. fails[e] = IF r2[e].debounce > r1[e].debounce
                   THEN h.fails[e] + r2[e].debounce - r1[e].debounce ELSE h.fails[e]
        OBVIOUS
  <2> HIDE DEF fails
  <2>3. QED BY ONLY <2>1, <2>2
<1> HIDE DEF fails
<1>4. now \in SUBSET Events /\ \A e \in Events : e \in now <=> fails[e] >= Threshold[e]
      OBVIOUS
<1>5. capped \in [Events -> Nat] /\ \A e \in Events : capped[e] = IF e \in now THEN Threshold[e] ELSE fails[e]
      BY <1>3
<1> HIDE DEF now, capped, g
<1>6. /\ g \in Histories /\ g.kept = h.kept /\ g.fails = capped
      /\ g.earned = h.earned \cup now /\ g.fresh = h.fresh \cup now
      BY <1>1, <1>2, <1>4, <1>5 DEF Histories
<1>7. ASSUME NEW e \in Events, r1[e].debounce <= h.fails[e]
      PROVE  /\ r2[e].debounce <= g.fails[e]
             /\ r2[e].debounce >= Threshold[e] => e \in g.earned /\ e \in g.fresh
  <2>1. r2[e].debounce <= fails[e]
        BY <1>3, <1>7
  <2>2. r2[e].debounce <= g.fails[e]
        BY <1>3, <1>5, <1>6, <2>1
  <2>3. ASSUME r2[e].debounce >= Threshold[e]
        PROVE  e \in now
        BY <1>3, <1>4, <2>1, <2>3
  <2>4. QED BY <1>6, <2>2, <2>3
<1>8. QED BY <1>4, <1>6, <1>7 DEF g

(* Reports that point one way for each event. *)
Honest(x, y, threshold) == y.confirmed => x.confirmed \/ y.debounce >= threshold

LEMMA OneWayHonest ==
    ASSUME NEW x, NEW y, NEW verdict \in {"failed", "passed"}, NEW t, OneWay(x, y, verdict, t)
    PROVE  Honest(x, y, t)
BY DEF OneWay, Honest

LEMMA ReportedKeeps ==
    ASSUME FaultInv, diag.at # "off", diag' = diag, flash' = flash,
           NEW r2 \in DemStates, Reported(r2),
           \A e \in Events : Onward(dem[e], r2[e]) /\ Honest(dem[e], r2[e], Threshold[e])
    PROVE  FaultInv'
<1>1. dem \in DemStates /\ diag \in Requests /\ flash \in SUBSET Events /\ shown \in Histories
      BY DEF FaultInv, FaultTypes
<1>2. dem' = r2 /\ shown' = Count(shown, dem, r2)
      BY DEF Reported
<1>3. shown' \in Histories /\ shown'.kept = shown.kept
      BY <1>1, <1>2, CountIs
<1>4. PICK now \in SUBSET Events : shown'.earned = shown.earned \cup now /\ shown'.fresh = shown.fresh \cup now
      BY <1>1, <1>2, CountIs
<1>5. \A e \in Events : dem[e].debounce <= shown.fails[e] =>
          /\ dem'[e].debounce <= shown'.fails[e]
          /\ dem'[e].debounce >= Threshold[e] => e \in shown'.earned /\ e \in shown'.fresh
      BY <1>1, <1>2, CountIs
<1>6. FaultTypes'
      BY <1>1, <1>2, <1>3 DEF FaultTypes
<1>7. CountersInv'
  <2>1. ASSUME NEW e \in Events
        PROVE  dem'[e].debounce <= shown'.fails[e] \/ (e \in shown'.earned /\ diag.at # "clear")
        BY <1>4, <1>5 DEF FaultInv, CountersInv
  <2>2. ASSUME ~diag.cycle, NEW e \in Events
        PROVE  dem'[e].healing = 0 /\ (dem'[e].confirmed => dem'[e].failedCycle)
    <3>1. dem[e].healing = 0 /\ (dem[e].confirmed => dem[e].failedCycle)
          BY <2>2 DEF FaultInv, CountersInv
    <3>2. Onward(dem[e], dem'[e])
          BY <1>2
    <3>3. QED BY <3>1, <3>2 DEF Onward
  <2>3. QED BY <2>1, <2>2 DEF CountersInv
<1>8. ASSUME NEW e \in Events, dem'[e].confirmed
      PROVE  /\ e \in shown'.earned
             /\ diag.at = "clear" => e \in shown'.fresh
  <2>1. CASE dem[e].confirmed
    <3>1. e \in Confirmed(dem)
          BY <2>1 DEF Confirmed
    <3>2. QED BY <1>4, <3>1 DEF FaultInv, EarnedInv
  <2>2. CASE ~dem[e].confirmed
    <3>1. dem'[e].debounce >= Threshold[e]
          BY <1>2, <1>8, <2>2 DEF Honest
    <3>2. dem[e].debounce <= shown.fails[e] \/ (e \in shown.earned /\ diag.at # "clear")
          BY DEF FaultInv, CountersInv
    <3>3. QED BY <1>4, <1>5, <3>1, <3>2
  <2>3. QED BY <2>1, <2>2
<1>9. EarnedInv'
  <2>1. Confirmed(dem)' \subseteq shown'.earned
        BY <1>8 DEF Confirmed
  <2>2. diag.at = "clear" => Confirmed(dem)' \subseteq shown'.fresh
        BY <1>8 DEF Confirmed
  <2>3. shown.fresh \subseteq shown.earned /\ flash \subseteq shown.earned /\ diag.block \subseteq shown.earned
        /\ (diag.at = "clear" => diag.block = {})
        BY DEF FaultInv, EarnedInv
  <2>4. QED BY <1>4, <2>1, <2>2, <2>3 DEF EarnedInv
<1>10. Confirmed(dem) \subseteq Confirmed(dem)'
       BY <1>2 DEF Confirmed, Onward
<1>11. KeptInv'
       BY <1>3, <1>10 DEF FaultInv, KeptInv, Replayed
<1>12. QED BY <1>6, <1>7, <1>9, <1>11 DEF FaultInv

LEMMA MeasuredHonest ==
    ASSUME NEW r1, NEW r2, NEW counts, NEW direct, Measured(r1, r2, counts, direct),
           NEW e \in Events, e \notin direct
    PROVE  Honest(r1[e], r2[e], Threshold[e])
<1>1. CASE e \in VoltageEvents
  <2>1. OneWay(r1[e], r2[e], Verdict(e, counts), Threshold[e])
        BY <1>1 DEF Measured
  <2>2. QED BY <2>1, VerdictIs, OneWayHonest
<1>2. CASE e \notin VoltageEvents
      BY <1>2 DEF Measured, Honest
<1>3. QED BY <1>1, <1>2

LEMMA AnyReportKeeps == FaultInv /\ AnyReport => FaultInv'
<1> SUFFICES ASSUME FaultInv, AnyReport PROVE FaultInv'
    OBVIOUS
<1>1. diag.at # "off" /\ diag' = diag /\ flash' = flash /\ dem \in DemStates
      BY DEF AnyReport, FaultInv, FaultTypes
<1>2. ASSUME NEW counts, NEW e \in Monitored, NEW s \in {"failed", "passed"},
             Reported(SetEventStatus(dem, e, s, counts))
      PROVE  FaultInv'
  <2> DEFINE r2 == SetEventStatus(dem, e, s, counts)
  <2>1. e \in Events /\ e \notin VoltageEvents
        BY FaultConstants
  <2>2. Measured(dem, r2, counts, {e}) /\ OneWay(dem[e], r2[e], s, Threshold[e])
        BY <1>1, <2>1, StatusMeasured
  <2> HIDE DEF r2
  <2>3. Honest(dem[e], r2[e], Threshold[e])
        BY <2>2, OneWayHonest
  <2>4. \A d \in Events : Onward(dem[d], r2[d]) /\ Honest(dem[d], r2[d], Threshold[d])
    <3> TAKE d \in Events
    <3>1. Onward(dem[d], r2[d])
          BY <2>2 DEF Measured
    <3>2. CASE d = e
          BY <2>3, <3>1, <3>2
    <3>3. CASE d # e
          BY <2>2, <3>1, <3>3, MeasuredHonest
    <3>4. QED BY <3>2, <3>3
  <2>5. r2 \in DemStates /\ Reported(r2)
        BY <1>2, <2>2 DEF Measured, r2
  <2>6. QED BY <1>1, <2>4, <2>5, ReportedKeeps
<1>3. ASSUME NEW counts, Reported(MeasureVoltage(counts))
      PROVE  FaultInv'
  <2> DEFINE r2 == ProvideSnapshot(dem, counts)
  <2>1. Measured(dem, r2, counts, {}) /\ Reported(r2)
        BY <1>1, <1>3, ProvideMeasured DEF MeasureVoltage
  <2> HIDE DEF r2
  <2>2. \A d \in Events : Onward(dem[d], r2[d]) /\ Honest(dem[d], r2[d], Threshold[d])
    <3> TAKE d \in Events
    <3>1. Onward(dem[d], r2[d])
          BY <2>1 DEF Measured
    <3>2. Honest(dem[d], r2[d], Threshold[d])
          BY <2>1, MeasuredHonest
    <3>3. QED BY <3>1, <3>2
  <2>3. r2 \in DemStates
        BY <2>1 DEF Measured
  <2>4. QED BY <1>1, <2>1, <2>2, <2>3, ReportedKeeps
<1>4. QED BY <1>2, <1>3 DEF AnyReport

(* A start: what is not restored from flash was reported by now. *)
LEMMA DiagStartKeeps ==
    ASSUME FaultInv, NEW readable \in BOOLEAN, NEW counts, DiagStart(readable, counts)
    PROVE  FaultInv'
<1> DEFINE block == IF readable THEN flash ELSE {}
           before == [e \in Events |-> IF readable /\ e \in flash THEN dem'[e] ELSE NeverTested]
           h == [shown EXCEPT !.fails = NothingShown.fails, !.kept = IF readable THEN @ ELSE {}]
<1>1. dem \in DemStates /\ diag \in Requests /\ flash \in SUBSET Events /\ shown \in Histories /\ diag.at = "off"
      BY DEF FaultInv, FaultTypes, DiagStart
<1>2. dem' = Restore(block, counts) /\ diag' = Idle /\ flash' = flash /\ shown' = Count(h, before, dem')
      BY DEF DiagStart
<1>3. block \in SUBSET Events /\ block \subseteq flash /\ (readable => block = flash) /\ (~readable => block = {})
      BY <1>1
<1> HIDE DEF block
<1>4. /\ Measured(DemInit, dem', counts, block)
      /\ \A e \in block : Threshold[e] <= Replays => dem'[e].confirmed
      BY <1>2, <1>3, RestoreMeasured
<1>5. dem' \in DemStates
      BY <1>4 DEF Measured
<1>6. before \in DemStates /\ \A e \in Events : before[e] = IF e \in block THEN dem'[e] ELSE NeverTested
  <2>1. \A e \in Events : before[e] = IF e \in block THEN dem'[e] ELSE NeverTested
        BY <1>3
  <2>2. \A e \in Events : dem'[e] \in FaultRecords /\ dem'[e].debounce <= Threshold[e]
        BY <1>5, RecordsAre
  <2>3. \A e \in Events : NeverTested \in FaultRecords /\ NeverTested.debounce <= Threshold[e]
    <3> TAKE e \in Events
    <3>1. DemInit[e] \in FaultRecords /\ DemInit[e].debounce <= Threshold[e] /\ DemInit[e] = NeverTested
          BY NeverTestedIs, RecordsAre
    <3>2. QED BY <3>1
  <2>4. \A e \in Events : before[e] \in FaultRecords /\ before[e].debounce <= Threshold[e]
        BY <2>1, <2>2, <2>3
  <2>5. before = [e \in Events |-> before[e]]
        OBVIOUS
  <2> HIDE DEF before
  <2>6. before \in [Events -> FaultRecords]
        BY <2>4, <2>5
  <2>7. QED BY <2>1, <2>4, <2>6 DEF DemStates
<1> HIDE DEF before
<1>7. /\ h \in Histories /\ h.earned = shown.earned /\ h.fresh = shown.fresh
      /\ h.kept = (IF readable THEN shown.kept ELSE {}) /\ \A e \in Events : h.fails[e] = 0
  <2>1. NothingShown.fails = [e \in Events |-> 0]
        BY DEF NothingShown
  <2>2. NothingShown.fails \in [Events -> Nat]
        BY <2>1
  <2>3. QED BY <1>1, <2>1, <2>2 DEF Histories
<1> HIDE DEF h
<1>8. /\ shown' \in Histories /\ shown'.kept = h.kept
      /\ \E now \in SUBSET Events : shown'.earned = h.earned \cup now /\ shown'.fresh = h.fresh \cup now
      /\ \A e \in Events : before[e].debounce <= h.fails[e] =>
            /\ dem'[e].debounce <= shown'.fails[e]
            /\ dem'[e].debounce >= Threshold[e] => e \in shown'.earned /\ e \in shown'.fresh
  <2> DEFINE g == Count(h, before, dem')
  <2>1. shown' = g
        BY <1>2 DEF before, h
  <2>2. h \in Histories /\ before \in DemStates /\ dem' \in DemStates
        BY <1>5, <1>6, <1>7
  <2>3. /\ g \in Histories /\ g.kept = h.kept
        /\ \E now \in SUBSET Events : g.earned = h.earned \cup now /\ g.fresh = h.fresh \cup now
        /\ \A e \in Events : before[e].debounce <= h.fails[e] =>
              /\ dem'[e].debounce <= g.fails[e]
              /\ dem'[e].debounce >= Threshold[e] => e \in g.earned /\ e \in g.fresh
        BY ONLY <2>2, CountIs
  <2> HIDE DEF g
  <2>4. QED BY <2>1, <2>3
<1>9. PICK now \in SUBSET Events : shown'.earned = h.earned \cup now /\ shown'.fresh = h.fresh \cup now
      BY <1>8
<1>10. \A e \in Events : before[e].debounce <= h.fails[e] =>
           /\ dem'[e].debounce <= shown'.fails[e]
           /\ dem'[e].debounce >= Threshold[e] => e \in shown'.earned /\ e \in shown'.fresh
       BY ONLY <1>8
<1>11. ASSUME NEW e \in Events, e \notin block
       PROVE  /\ dem'[e].debounce <= shown'.fails[e]
              /\ dem'[e].confirmed => e \in shown'.earned
  <2>1. before[e].debounce = 0 /\ h.fails[e] = 0
        BY <1>6, <1>7, <1>11, NeverTestedIs
  <2>2. ~DemInit[e].confirmed
        BY NeverTestedIs
  <2>3. Honest(DemInit[e], dem'[e], Threshold[e])
        BY <1>4, <1>11, MeasuredHonest
  <2>4. dem'[e].confirmed => dem'[e].debounce >= Threshold[e]
        BY <2>2, <2>3 DEF Honest
  <2>5. QED BY <1>10, <2>1, <2>4
<1>12. diag'.at = "idle" /\ diag'.block = {} /\ ~diag'.cycle /\ diag' \in Requests
  <2>1. 0 \in 0 .. Cardinality(Events)
        BY EventsAreFinite, FS_CardinalityType
  <2>2. QED BY <1>2, <2>1 DEF Idle, Requests
<1>13. FaultTypes'
       BY <1>1, <1>2, <1>5, <1>8, <1>12 DEF FaultTypes
<1>14. flash \subseteq shown.earned /\ shown.fresh \subseteq shown.earned
       BY DEF FaultInv, EarnedInv
<1>15. CountersInv'
  <2>1. ASSUME NEW e \in Events
        PROVE  dem'[e].debounce <= shown'.fails[e] \/ (e \in shown'.earned /\ diag'.at # "clear")
        BY <1>3, <1>7, <1>9, <1>11, <1>12, <1>14
  <2>2. ASSUME NEW e \in Events
        PROVE  dem'[e].healing = 0 /\ (dem'[e].confirmed => dem'[e].failedCycle)
    <3>1. DemInit[e].healing = 0 /\ ~DemInit[e].confirmed /\ Onward(DemInit[e], dem'[e])
          BY <1>4, NeverTestedIs DEF Measured
    <3>2. QED BY <3>1 DEF Onward
  <2>3. QED BY <2>1, <2>2 DEF CountersInv
<1>16. EarnedInv'
  <2>1. Confirmed(dem)' \subseteq shown'.earned
        BY <1>3, <1>7, <1>9, <1>11, <1>14 DEF Confirmed
  <2>2. QED BY <1>2, <1>7, <1>9, <1>12, <1>14, <2>1 DEF EarnedInv
<1>17. KeptInv'
  <2>1. Replayed(h.kept) \subseteq flash /\ Replayed(h.kept) \subseteq block
        BY <1>3, <1>7 DEF FaultInv, KeptInv, Replayed
  <2>2. Replayed(h.kept) \subseteq Confirmed(dem)'
    <3>1. ASSUME NEW e \in Replayed(h.kept)
          PROVE  e \in Confirmed(dem)'
      <4>1. e \in block /\ e \in Events /\ Threshold[e] <= Replays
            BY <1>3, <2>1 DEF Replayed
      <4>2. dem'[e].confirmed
            BY <1>4, <4>1
      <4>3. QED BY <4>1, <4>2 DEF Confirmed
    <3>2. QED BY <3>1
  <2>3. QED BY <1>2, <1>8, <1>12, <2>1, <2>2 DEF KeptInv, Replayed
<1>18. QED BY <1>13, <1>15, <1>16, <1>17 DEF FaultInv

(* The operation cycle heals nothing. *)
LEMMA CycleKeeps == FaultInv /\ CycleStarts => FaultInv'
<1> SUFFICES ASSUME FaultInv, CycleStarts PROVE FaultInv'
    OBVIOUS
<1>1. /\ dem \in DemStates /\ diag \in Requests /\ flash \in SUBSET Events /\ shown \in Histories
      /\ diag.at # "off" /\ ~diag.cycle
      BY DEF FaultInv, FaultTypes, CycleStarts
<1>2. /\ dem' = [e \in Events |-> NextCycle(dem[e])] /\ diag' = [diag EXCEPT !.cycle = TRUE]
      /\ flash' = flash /\ shown' = shown
      BY DEF CycleStarts, StartOperationCycle
<1>3. /\ diag' \in Requests /\ diag'.at = diag.at /\ diag'.block = diag.block /\ diag'.cycle
      BY <1>1, <1>2 DEF Requests
<1>4. ASSUME NEW e \in Events
      PROVE  /\ dem'[e] \in FaultRecords /\ dem'[e].debounce = dem[e].debounce
             /\ dem'[e].confirmed = dem[e].confirmed
  <2>1. dem[e] \in FaultRecords
        BY <1>1, RecordsAre
  <2>2. dem[e].healing = 0 /\ (dem[e].confirmed => dem[e].failedCycle)
        BY <1>1 DEF FaultInv, CountersInv
  <2> DEFINE x == dem[e]
             clean == IF ~x.confirmed THEN x.healing ELSE IF x.failedCycle THEN 0 ELSE x.healing + 1
             healed == x.confirmed /\ clean >= HealingCycles
  <2>3. clean = 0 /\ healed = FALSE
        BY <2>2, FaultConstants
  <2>4. NextCycle(x) = [x EXCEPT !.failedCycle = FALSE, !.healing = clean, !.confirmed = @ /\ ~healed,
                                 !.debounce = IF healed THEN 0 ELSE @]
        BY DEF NextCycle
  <2>5. NextCycle(x) = [x EXCEPT !.failedCycle = FALSE, !.healing = 0]
        BY <2>1, <2>3, <2>4 DEF FaultRecords
  <2>6. dem'[e] = [x EXCEPT !.failedCycle = FALSE, !.healing = 0]
        BY <1>2, <2>5
  <2>7. x \in FaultRecords /\ 0 \in 0 .. HealingCycles
        BY <2>1, FaultConstants
  <2> HIDE DEF x, clean, healed
  <2>8. /\ [x EXCEPT !.failedCycle = FALSE, !.healing = 0] \in FaultRecords
        /\ [x EXCEPT !.failedCycle = FALSE, !.healing = 0].debounce = x.debounce
        /\ [x EXCEPT !.failedCycle = FALSE, !.healing = 0].confirmed = x.confirmed
        BY ONLY <2>7 DEF FaultRecords
  <2>9. dem'[e] \in FaultRecords /\ dem'[e].debounce = x.debounce /\ dem'[e].confirmed = x.confirmed
        BY <2>6, <2>8
  <2>10. QED BY <2>9 DEF x
<1>5. dem' \in DemStates
  <2>1. dem' \in [Events -> FaultRecords]
        BY <1>2, <1>4
  <2>2. \A e \in Events : dem'[e].debounce <= Threshold[e]
        BY <1>1, <1>4, RecordsAre
  <2>3. QED BY <2>1, <2>2 DEF DemStates
<1>6. Confirmed(dem)' = Confirmed(dem)
      BY <1>4 DEF Confirmed
<1>7. FaultTypes'
      BY <1>1, <1>2, <1>3, <1>5 DEF FaultTypes
<1>8. CountersInv'
      BY <1>2, <1>3, <1>4 DEF FaultInv, CountersInv
<1>9. EarnedInv' /\ KeptInv'
      BY <1>2, <1>3, <1>6 DEF FaultInv, EarnedInv, KeptInv, Replayed
<1>10. QED BY <1>7, <1>8, <1>9 DEF FaultInv

LEMMA DiagStopKeeps ==
    ASSUME FaultInv, NEW written \in BOOLEAN, DiagStop(written)
    PROVE  FaultInv'
<1>1. /\ dem \in DemStates /\ diag \in Requests /\ flash \in SUBSET Events /\ shown \in Histories
      /\ diag.at # "off" /\ diag.block \in SUBSET Events
      BY DEF FaultInv, FaultTypes, DiagStop, Requests
<1>2. /\ written => diag.at \in {"write", "clear"}
      /\ flash' = IF written THEN diag.block ELSE flash
      /\ dem' = DemInit /\ diag' = [Idle EXCEPT !.at = "off"]
      /\ shown' = [shown EXCEPT !.kept = IF written /\ diag.at = "write" THEN @ \cup diag.block ELSE @]
      BY DEF DiagStop
<1>3. diag' \in Requests /\ diag'.at = "off" /\ diag'.block = {}
  <2>1. 0 \in 0 .. Cardinality(Events)
        BY EventsAreFinite, FS_CardinalityType
  <2>2. QED BY <1>2, <2>1 DEF Idle, Requests
<1>4. /\ shown' \in Histories /\ shown'.earned = shown.earned /\ shown'.fresh = shown.fresh
      /\ shown'.kept = IF written /\ diag.at = "write" THEN shown.kept \cup diag.block ELSE shown.kept
      BY <1>1, <1>2 DEF Histories
<1>5. dem' \in DemStates /\ \A e \in Events : dem'[e].debounce = 0 /\ dem'[e].healing = 0 /\ ~dem'[e].confirmed
      BY <1>2, NeverTestedIs
<1>6. Confirmed(dem)' = {}
      BY <1>5 DEF Confirmed
<1>7. FaultTypes'
      BY <1>1, <1>2, <1>3, <1>4, <1>5 DEF FaultTypes
<1>8. CountersInv'
  <2>1. \A e \in Events : shown'.fails[e] \in Nat
        BY <1>4 DEF Histories
  <2>2. QED BY <1>5, <2>1 DEF CountersInv
<1>9. EarnedInv'
      BY <1>2, <1>3, <1>4, <1>6 DEF FaultInv, EarnedInv
<1>10. KeptInv'
  <2>1. Replayed(shown'.kept) \subseteq flash'
    <3>1. CASE written /\ diag.at = "write"
          BY <1>2, <1>4, <3>1 DEF FaultInv, KeptInv, Replayed
    <3>2. CASE written /\ diag.at = "clear"
          BY <1>4, <3>2 DEF FaultInv, KeptInv, Replayed
    <3>3. CASE ~written
          BY <1>2, <1>4, <3>3 DEF FaultInv, KeptInv
    <3>4. QED BY <1>2, <3>1, <3>2, <3>3
  <2>2. QED BY <1>3, <2>1 DEF KeptInv, Replayed
<1>11. QED BY <1>7, <1>8, <1>9, <1>10 DEF FaultInv

LEMMA NoteKeeps == FaultInv /\ NoteConfirmed => FaultInv'
<1> SUFFICES ASSUME FaultInv, NoteConfirmed PROVE FaultInv'
    OBVIOUS
<1>1. dem \in DemStates /\ diag \in Requests /\ flash \in SUBSET Events /\ shown \in Histories /\ diag.at = "idle"
      BY DEF FaultInv, FaultTypes, NoteConfirmed
<1>2. /\ diag' = [diag EXCEPT !.last = Cardinality(Confirmed(dem)), !.at = "write", !.block = Confirmed(dem)]
      /\ dem' = dem /\ flash' = flash /\ shown' = shown
      BY DEF NoteConfirmed, Persist
<1>3. Confirmed(dem) \in SUBSET Events
      BY DEF Confirmed
<1>4. Cardinality(Confirmed(dem)) \in 0 .. Cardinality(Events)
      BY <1>3, EventsAreFinite
<1>5. /\ diag' \in Requests /\ diag'.at = "write" /\ diag'.block = Confirmed(dem)
      /\ diag'.cycle = diag.cycle
      BY <1>1, <1>2, <1>3, <1>4 DEF Requests
<1>6. FaultTypes'
      BY <1>1, <1>2, <1>5 DEF FaultTypes
<1>7. CountersInv'
      BY <1>1, <1>2, <1>5 DEF FaultInv, CountersInv
<1>8. Confirmed(dem)' = Confirmed(dem)
      BY <1>2 DEF Confirmed
<1>9. EarnedInv' /\ KeptInv'
      BY <1>1, <1>2, <1>5, <1>8 DEF FaultInv, EarnedInv, KeptInv, Replayed
<1>10. QED BY <1>6, <1>7, <1>9 DEF FaultInv

LEMMA WriteKeeps ==
    ASSUME FaultInv, NEW ok \in BOOLEAN, WriteFaults(ok)
    PROVE  FaultInv'
<1>1. /\ dem \in DemStates /\ diag \in Requests /\ flash \in SUBSET Events /\ shown \in Histories
      /\ diag.at = "write" /\ diag.block \in SUBSET Events
      BY DEF FaultInv, FaultTypes, WriteFaults, Requests
<1>2. /\ flash' = IF ok THEN diag.block ELSE flash
      /\ shown' = [shown EXCEPT !.kept = IF ok THEN @ \cup diag.block ELSE @]
      /\ diag' = [diag EXCEPT !.at = "idle", !.block = {}] /\ dem' = dem
      BY DEF WriteFaults
<1>3. diag' \in Requests /\ diag'.at = "idle" /\ diag'.block = {} /\ diag'.cycle = diag.cycle
      BY <1>1, <1>2 DEF Requests
<1>4. /\ shown' \in Histories /\ shown'.earned = shown.earned /\ shown'.fresh = shown.fresh
      /\ shown'.fails = shown.fails /\ shown'.kept = IF ok THEN shown.kept \cup diag.block ELSE shown.kept
      BY <1>1, <1>2 DEF Histories
<1>5. Confirmed(dem)' = Confirmed(dem)
      BY <1>2 DEF Confirmed
<1>6. FaultTypes'
      BY <1>1, <1>2, <1>3, <1>4 DEF FaultTypes
<1>7. CountersInv'
      BY <1>1, <1>2, <1>3, <1>4 DEF FaultInv, CountersInv
<1>8. EarnedInv'
      BY <1>2, <1>3, <1>4, <1>5 DEF FaultInv, EarnedInv
<1>9. KeptInv'
  <2>1. /\ Replayed(shown.kept) \subseteq flash /\ Replayed(shown.kept) \subseteq Confirmed(dem)
        /\ Replayed(shown.kept) \subseteq diag.block /\ diag.block \subseteq Confirmed(dem)
        BY <1>1 DEF FaultInv, KeptInv
  <2>2. CASE ok
    <3>1. Replayed(shown'.kept) \subseteq diag.block
          BY <1>4, <2>1, <2>2 DEF Replayed
    <3>2. flash' = diag.block
          BY <1>2, <2>2
    <3>3. QED BY <1>3, <1>5, <2>1, <3>1, <3>2 DEF KeptInv, Replayed
  <2>3. CASE ~ok
    <3>1. shown'.kept = shown.kept /\ flash' = flash
          BY <1>2, <1>4, <2>3
    <3>2. QED BY <1>3, <1>5, <2>1, <3>1 DEF KeptInv, Replayed
  <2>4. QED BY <2>2, <2>3
<1>10. QED BY <1>6, <1>7, <1>8, <1>9 DEF FaultInv

LEMMA ServeClearKeeps == FaultInv /\ ServeClear => FaultInv'
<1> SUFFICES ASSUME FaultInv, ServeClear PROVE FaultInv'
    OBVIOUS
<1>1. dem \in DemStates /\ diag \in Requests /\ flash \in SUBSET Events /\ shown \in Histories
      BY DEF FaultInv, FaultTypes
<1>2. /\ dem' = DemInit /\ diag' = [diag EXCEPT !.at = "clear", !.block = Confirmed(dem')]
      /\ shown' = [shown EXCEPT !.kept = {}, !.fails = NothingShown.fails, !.fresh = {}]
      /\ flash' = flash
      BY DEF ServeClear, ClearDtc, Persist
<1>3. dem' \in DemStates /\ \A e \in Events : dem'[e].debounce = 0 /\ dem'[e].healing = 0 /\ ~dem'[e].confirmed
      BY <1>2, NeverTestedIs
<1>4. Confirmed(dem') = {} /\ Confirmed(dem)' = {}
      BY <1>3 DEF Confirmed
<1>5. diag' \in Requests /\ diag'.at = "clear" /\ diag'.block = {}
      BY <1>1, <1>2, <1>4 DEF Requests
<1>6. /\ shown' \in Histories /\ shown'.earned = shown.earned /\ shown'.fresh = {} /\ shown'.kept = {}
      /\ \A e \in Events : shown'.fails[e] = 0
  <2>1. NothingShown.fails = [e \in Events |-> 0]
        BY DEF NothingShown
  <2>2. NothingShown.fails \in [Events -> Nat]
        BY <2>1
  <2>3. QED BY <1>1, <1>2, <2>1, <2>2 DEF Histories
<1>7. FaultTypes'
      BY <1>1, <1>2, <1>3, <1>5, <1>6 DEF FaultTypes
<1>8. CountersInv'
      BY <1>3, <1>6 DEF CountersInv
<1>9. EarnedInv'
      BY <1>2, <1>4, <1>5, <1>6 DEF FaultInv, EarnedInv
<1>10. KeptInv'
      BY <1>5, <1>6 DEF KeptInv, Replayed
<1>11. QED BY <1>7, <1>8, <1>9, <1>10 DEF FaultInv

LEMMA AnswerKeeps ==
    ASSUME FaultInv, NEW ok \in BOOLEAN, AnswerClear(ok)
    PROVE  FaultInv'
<1>1. /\ dem \in DemStates /\ diag \in Requests /\ flash \in SUBSET Events /\ shown \in Histories
      /\ diag.at = "clear"
      BY DEF FaultInv, FaultTypes, AnswerClear
<1>2. /\ flash' = (IF ok THEN diag.block ELSE flash) /\ dem' = dem
      /\ diag' = [diag EXCEPT !.at = "idle", !.block = {}]
      /\ shown' = IF ok THEN [shown EXCEPT !.earned = shown.fresh] ELSE shown
      BY DEF AnswerClear
<1>3. diag' \in Requests /\ diag'.at = "idle" /\ diag'.block = {} /\ diag'.cycle = diag.cycle
      BY <1>1, <1>2 DEF Requests
<1>4. /\ shown' \in Histories /\ shown'.fresh = shown.fresh /\ shown'.kept = shown.kept
      /\ shown'.fails = shown.fails /\ shown'.earned = IF ok THEN shown.fresh ELSE shown.earned
      BY <1>1, <1>2 DEF Histories
<1>5. /\ diag.block = {} /\ Confirmed(dem) \subseteq shown.fresh /\ shown.kept = {}
      /\ Confirmed(dem) \subseteq shown.earned /\ flash \subseteq shown.earned
      /\ shown.fresh \subseteq shown.earned
      BY <1>1 DEF FaultInv, EarnedInv, KeptInv
<1>6. Confirmed(dem)' = Confirmed(dem)
      BY <1>2 DEF Confirmed
<1>7. FaultTypes'
      BY <1>1, <1>2, <1>3, <1>4, <1>5 DEF FaultTypes
<1>8. CountersInv'
      BY <1>1, <1>2, <1>3, <1>4 DEF FaultInv, CountersInv
<1>9. EarnedInv'
      BY <1>2, <1>3, <1>4, <1>5, <1>6 DEF EarnedInv
<1>10. KeptInv'
      BY <1>3, <1>4, <1>5 DEF KeptInv, Replayed
<1>11. QED BY <1>7, <1>8, <1>9, <1>10 DEF FaultInv

LEMMA FaultsStart == Init => FaultInv
<1> SUFFICES ASSUME Init PROVE FaultInv
    OBVIOUS
<1>1. dem = DemInit /\ diag = Idle /\ flash = {} /\ shown = NothingShown
      BY DEF Init, DiagInit
<1>2. dem \in DemStates /\ \A e \in Events : dem[e].debounce = 0 /\ dem[e].healing = 0 /\ ~dem[e].confirmed
      BY <1>1, NeverTestedIs
<1>3. diag \in Requests /\ diag.at = "idle" /\ diag.block = {}
  <2>1. 0 \in 0 .. Cardinality(Events)
        BY EventsAreFinite, FS_CardinalityType
  <2>2. QED BY <1>1, <2>1 DEF Idle, Requests
<1>4. /\ shown \in Histories /\ shown.kept = {} /\ shown.fresh = {} /\ shown.earned = {}
      /\ \A e \in Events : shown.fails[e] = 0
      BY <1>1 DEF NothingShown, Histories
<1>5. Confirmed(dem) = {}
      BY <1>2 DEF Confirmed
<1>6. FaultTypes
      BY <1>1, <1>2, <1>3, <1>4 DEF FaultTypes
<1>7. CountersInv
      BY <1>2, <1>4 DEF CountersInv
<1>8. EarnedInv /\ KeptInv
      BY <1>1, <1>3, <1>4, <1>5 DEF EarnedInv, KeptInv, Replayed
<1>9. QED BY <1>6, <1>7, <1>8 DEF FaultInv

LEMMA FaultsStutter == FaultInv /\ UNCHANGED faultVars => FaultInv'
BY DEF FaultInv, FaultTypes, CountersInv, EarnedInv, KeptInv, Confirmed, Replayed, faultVars

LEMMA FaultsStep == FaultInv /\ [Next]_vars => FaultInv'
<1> SUFFICES ASSUME FaultInv, [Next]_vars PROVE FaultInv'
    OBVIOUS
<1>1. CASE FaultsNext
      BY <1>1, AnyReportKeeps, NoteKeeps, ServeClearKeeps, CycleKeeps, WriteKeeps, AnswerKeeps,
         DiagStopKeeps, DiagStartKeeps DEF FaultsNext
<1>2. CASE UNCHANGED faultVars
      BY <1>2, FaultsStutter
<1>3. QED BY <1>1, <1>2 DEF Next, MotorNext, PacksNext, PositionNext, vars, faultVars

LEMMA FaultInvSound == FaultInv => FaultsSound
BY DEF FaultInv, EarnedInv, KeptInv, Replayed, FaultsSound

LEMMA FaultsHold == Spec => []FaultInv
BY FaultsStart, FaultsStep, PTL DEF Spec

(* What is shown or stored as faulty is sound (Dem.c, DiagSwc.c), for any  *)
(* events, thresholds, reports, voltages, restarts and failed writes. *)
THEOREM FaultsAreSound == Spec => []FaultsSound
BY FaultsHold, FaultInvSound, PTL

-----------------------------------------------------------------------------
(***************************************************************************)
(* TypeOK: the four invariants, and the bounds that their arguments do not *)
(* need.  The driver's queue is full before it grows over its depth, the   *)
(* count of stale reads stops behind its limit, and no more packs are      *)
(* there than slots.                                                       *)
(***************************************************************************)

BoundsInv ==
    /\ Len(can.queue) <= QueueDepth
    /\ stale <= StaleLimit + 1
    /\ batt.sum.present \in 0 .. PackCount

LEMMA PresentAreCounted == Cardinality(Present) \in 0 .. PackCount
<1>1. IsFiniteSet(1 .. PackCount) /\ Cardinality(1 .. PackCount) = PackCount
      BY PacksConstants, FS_Interval
<1>2. Present \subseteq 1 .. PackCount
      BY DEF Present, Slots
<1>3. IsFiniteSet(Present) /\ Cardinality(Present) <= PackCount
      BY <1>1, <1>2, FS_Subset
<1>4. Cardinality(Present) \in Nat
      BY <1>3, FS_CardinalityType
<1>5. QED BY <1>3, <1>4, PacksConstants

LEMMA BoundsStart == Init => BoundsInv
<1> SUFFICES ASSUME Init PROVE BoundsInv
    OBVIOUS
<1>1. can.queue = <<>> /\ stale = 0 /\ batt.sum.present = 0
      BY DEF Init, CanInit, CanIfInit, BattInit, NoSum
<1>2. QED BY <1>1, MotorConstants, PacksConstants DEF BoundsInv

(* The queue grows by a frame that is read, and no further than its depth. *)
LEMMA QueueIsBounded ==
    ASSUME MotorInv, Len(can.queue) <= QueueDepth, [Next]_vars
    PROVE  Len(can'.queue) <= QueueDepth
<1>1. can \in CanRecords /\ can.queue \in Seq(Frames) /\ Len(can.queue) \in Nat /\ QueueDepth \in Nat
      BY MotorBasics, MotorConstants DEF MotorInv, MotorTypes
<1>2. CASE can'.queue = can.queue
      BY <1>2
<1>3. CASE ReadFrame
  <2> DEFINE f == Head(mcp[IF 0 \in can.intf THEN 0 ELSE 1])
             next == IF f.remote THEN can ELSE QueuePush(can, f)
  <2>1. Len(next.queue) <= QueueDepth
    <3>1. CASE f.remote \/ Len(can.queue) >= QueueDepth
          BY <1>1, <3>1 DEF QueuePush
    <3>2. CASE ~f.remote /\ ~(Len(can.queue) >= QueueDepth)
      <4>1. next.queue = Append(can.queue, f)
            BY <1>1, <3>2 DEF QueuePush
      <4> HIDE DEF f, next
      <4>2. Len(Append(can.queue, f)) = Len(can.queue) + 1
            BY <1>1
      <4>3. QED BY <1>1, <3>2, <4>1, <4>2
    <3>3. QED BY <3>1, <3>2
  <2>2. can' = [next EXCEPT !.moved = @ + 1, !.sampled = FALSE, !.intf = {}]
        BY <1>3 DEF ReadFrame
  <2>3. DOMAIN next = DOMAIN can /\ "queue" \in DOMAIN can
        BY <1>1 DEF QueuePush, CanRecords
  <2> HIDE DEF next
  <2>4. can'.queue = next.queue
        BY ONLY <2>2, <2>3
  <2>5. QED BY <2>1, <2>4
<1>4. CASE Decode
  <2>1. can'.queue = Tail(can.queue) /\ can.queue # <<>>
        BY <1>1, <1>4 DEF Decode, Receive
  <2>2. Len(Tail(can.queue)) = Len(can.queue) - 1
        BY <1>1, <2>1
  <2>3. QED BY <1>1, <2>1, <2>2
<1>5. ReadFlags \/ (\E failed \in BOOLEAN : ReadErrors(failed)) => can'.queue = can.queue
      BY <1>1 DEF ReadFlags, ReadErrors, CanRecords
<1>6. QED BY <1>2, <1>3, <1>4, <1>5 DEF Next, MotorNext, CanRead, NotStarted, BusDenied, DecodeStep, Bus, Arrive,
             MotorTick, CanAges, GetMcuData, PacksNext, PositionNext, FaultsNext, vars, motorVars, canVars

LEMMA StaleIsBounded ==
    ASSUME MotorInv, stale <= StaleLimit + 1, [Next]_vars
    PROVE  stale' <= StaleLimit + 1
<1>1. stale \in Nat /\ StaleLimit \in Nat
      BY MotorConstants DEF MotorInv, MotorTypes
<1>2. ASSUME NEW r \in Readers, GetMcuData(r)
      PROVE  stale' = stale \/ stale' = 0 \/ (stale <= StaleLimit /\ stale' = stale + 1)
      BY <1>2 DEF GetMcuData, CopySpeed, Judge, ReportStale, Feed
<1>3. stale' = stale \/ stale' = 0 \/ (stale <= StaleLimit /\ stale' = stale + 1)
      BY <1>2 DEF Next, MotorNext, CanRead, DecodeStep, Decode, Bus, MotorTick, CanIfAges, PacksNext,
                  PositionNext, FaultsNext, vars, motorVars, canIfVars
<1>4. QED BY <1>1, <1>3

LEMMA PresentIsBounded ==
    ASSUME PacksInv, batt.sum.present \in 0 .. PackCount, [Next]_vars
    PROVE  batt'.sum.present \in 0 .. PackCount
<1>1. batt.sum \in [present : Nat, over : SUBSET Ages, cells : SUBSET Ages]
      /\ batt \in [states : [Slots -> PackStates],
                   sum : [present : Nat, over : SUBSET Ages, cells : SUBSET Ages]]
      BY DEF PacksInv, PackTypes
<1>2. BattStarts => batt'.sum.present = Cardinality(Present)
      BY DEF BattStarts, NoSum
<1>3. SumUp => batt'.sum.present = Cardinality(Present)
      BY <1>1 DEF SumUp, Aggregate
<1>4. CopyPack \/ CopiesAge => batt'.sum.present = batt.sum.present
  <2>1. CopyPack => batt'.sum = batt.sum
        BY <1>1 DEF CopyPack
  <2>2. ASSUME CopiesAge
        PROVE  batt'.sum.present = batt.sum.present
    <3>1. batt' = [states |-> [s \in Slots |-> [batt.states[s] EXCEPT !.pack = Old(@), !.cell = Old(@)]],
                   sum |-> [batt.sum EXCEPT !.over = {Old(reading) : reading \in @},
                                            !.cells = {Old(reading) : reading \in @}]]
          BY <2>2 DEF CopiesAge
    <3>2. batt'.sum = [batt.sum EXCEPT !.over = {Old(reading) : reading \in @},
                                       !.cells = {Old(reading) : reading \in @}]
          BY ONLY <3>1
    <3>3. QED BY ONLY <1>1, <3>2
  <2>3. QED BY <2>1, <2>2
<1>5. batt'.sum.present \in {batt.sum.present, Cardinality(Present)}
      BY <1>2, <1>3, <1>4 DEF Next, MotorNext, PacksNext, ReportPack, ReportMissing, ReadFlag, ReadValues, PositionNext,
                              FaultsNext, vars, packVars, battVars
<1>6. QED BY <1>5, PresentAreCounted

LEMMA BoundsStep == MotorInv /\ PacksInv /\ BoundsInv /\ [Next]_vars => BoundsInv'
BY QueueIsBounded, StaleIsBounded, PresentIsBounded DEF BoundsInv

LEMMA TypesFollow == MotorInv /\ PacksInv /\ PositionInv /\ FaultInv /\ BoundsInv => TypeOK
<1> SUFFICES ASSUME MotorInv, PacksInv, PositionInv, FaultInv, BoundsInv PROVE TypeOK
    OBVIOUS
<1>1. cycle \in [phase : {"idle", "read", "decode"}, arrived : 0 .. Arrivals, denied : 0 .. MaxDenied]
      /\ CanTypeOK
      BY DEF MotorInv, MotorTypes, BoundsInv, CanTypeOK, CanRecords, Cycles
<1>2. CanIfTypeOK
  <2>1. stale \in 0 .. StaleLimit + 1
        BY MotorConstants DEF MotorInv, MotorTypes, BoundsInv
  <2>2. QED BY <2>1 DEF MotorInv, MotorTypes, CanIfTypeOK, Halves, Copies
<1>3. Rs485TypeOK
  <2>1. poll.slot \in Slots \cup {PackCount + 1}
        BY PacksConstants DEF PacksInv, PackTypes, Polls, Slots
  <2>2. QED BY <2>1 DEF PacksInv, PackTypes, Polls, Replies, PackStates, Ages, Names, Discovery, Readings, Rs485TypeOK
<1>4. BattTypeOK
      BY DEF PacksInv, PackTypes, Ages, Names, BoundsInv, Readings, BattTypeOK
<1>5. GnssTypeOK
      BY DEF PositionInv, PositionTypes, Receptions, Positions, Takings, GnssTypeOK
<1>6. DemTypeOK /\ DiagTypeOK
      BY DEF FaultInv, FaultTypes, DemStates, FaultRecords, Requests, Histories, DemTypeOK, DiagTypeOK
<1>7. QED BY <1>1, <1>2, <1>3, <1>4, <1>5, <1>6 DEF TypeOK

(* Every variable of the device chains keeps to its type, whatever the     *)
(* devices send and whichever reports are made. *)
THEOREM DevicesKeepTheirTypes == Spec => []TypeOK
<1>1. Spec => [](MotorInv /\ PacksInv /\ BoundsInv)
      BY MotorStarts, MotorStep, PacksStart, PacksStep, BoundsStart, BoundsStep, PTL DEF Spec
<1>2. Spec => []PositionInv
      BY PositionStarts, PositionStep, PTL DEF Spec
<1>3. QED BY <1>1, <1>2, FaultsHold, TypesFollow, PTL

=============================================================================
