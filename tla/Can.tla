----------------------------------- MODULE Can -----------------------------------
(***************************************************************************)
(* The driver of the MCP2515 CAN controller (Can.c): identifiers, the      *)
(* acceptance filters, the controller's two receive buffers and the        *)
(* software queue behind them.                                             *)
(*                                                                         *)
(* A frame carries its age, which the program does not see: it stamps a    *)
(* frame when it reads it.  A bus that is off is one on which nothing      *)
(* arrives.  Payloads, bit timing, the statistics, and the transmission of *)
(* frames and the modes, which nothing calls, are left out.                *)
(***************************************************************************)
EXTENDS Integers, Sequences

CONSTANTS
    FramesPerCycle,  \* CAN_MAX_FRAMES_PER_CYCLE
    Arrivals,        \* bound: the frames that arrive while the controller is read
    QueueDepth,      \* CAN_RX_QUEUE_DEPTH
    InitRetries,     \* CAN_INIT_RETRY_COUNT
    MaxAge,          \* bound: the longest age told apart
    Traffic          \* the frames on the bus: identifier, remote, short

ASSUME CanAssumption ==
    /\ {FramesPerCycle, QueueDepth, InitRetries, MaxAge} \subseteq Nat \ {0}
    /\ Arrivals \in Nat
    /\ \A f \in Traffic : {f.remote, f.short} \subseteq BOOLEAN
    /\ Arrivals + 2 <= FramesPerCycle /\ FramesPerCycle <= QueueDepth

VARIABLES
    mcp,   \* the two receive buffers of the controller
    can    \* Can_State, Can_RxQueue; the locals of a read

canVars == <<mcp, can>>

Empty == <<>>
NoLength == 0 - 1

Older(age) == IF age < MaxAge THEN age + 1 ELSE age

-----------------------------------------------------------------------------
(* Identifiers: 11 bits, or 29 bits with a flag, in four registers.        *)

Bit16 == 65536
Bit18 == 262144
Bit21 == 2097152

CAN_ID_MCU_DRIVE_STATE == [ext |-> TRUE, raw |-> 284692634]
CAN_ID_MCU_CURRENT_VOLTAGE == [ext |-> TRUE, raw |-> 284692621]

EncodeIdentifier(id) ==
    IF id.ext
    THEN <<(id.raw \div Bit21) % 256,
           ((id.raw \div Bit18) % 8) * 32 + 8 + ((id.raw \div Bit16) % 4),
           (id.raw \div 256) % 256, id.raw % 256>>
    ELSE <<((id.raw % 2048) \div 8) % 256, (id.raw % 8) * 32, 0, 0>>

(* Bug: the three identifier bits above the selector are lost. *)
DecodeIdentifierNarrow(regs) ==
    IF (regs[2] \div 8) % 2 = 1
    THEN [ext |-> TRUE,
          raw |-> regs[1] * Bit21 + (regs[2] % 4) * Bit16 + regs[3] * 256 + regs[4]]
    ELSE [ext |-> FALSE, raw |-> regs[1] * 8 + regs[2] \div 32]

DecodeIdentifier(regs) ==
    IF (regs[2] \div 8) % 2 = 1
    THEN [ext |-> TRUE,
          raw |-> regs[1] * Bit21 + (regs[2] \div 32) * Bit18
                  + (regs[2] % 4) * Bit16 + regs[3] * 256 + regs[4]]
    ELSE [ext |-> FALSE, raw |-> regs[1] * 8 + regs[2] \div 32]

(* Can_Mcp_Configure: every mask bit is set, so a frame passes if its      *)
(* registers are those of a filter.                                        *)
Filters == {EncodeIdentifier(CAN_ID_MCU_DRIVE_STATE),
            EncodeIdentifier(CAN_ID_MCU_CURRENT_VOLTAGE)}

-----------------------------------------------------------------------------
(* The controller.  RXB0 rolls over into RXB1; a frame that finds both     *)
(* full is lost.                                                           *)

OnBus(f) == [regs |-> EncodeIdentifier(f.id), remote |-> f.remote, short |-> f.short, age |-> 0]

Accepted(f) == can.state = "started" /\ EncodeIdentifier(f.id) \in Filters

Arrive(f) ==
    /\ Accepted(f)
    /\ mcp' = IF mcp[0] = Empty THEN [mcp EXCEPT ![0] = <<OnBus(f)>>]
              ELSE IF mcp[1] = Empty THEN [mcp EXCEPT ![1] = <<OnBus(f)>>]
              ELSE mcp
    /\ UNCHANGED can

(* CANINTF. *)
Full(m) == {b \in {0, 1} : m[b] # Empty}

(* The age of a frame with the speed is followed. *)
Aged(f) == IF f.regs = EncodeIdentifier(CAN_ID_MCU_DRIVE_STATE) THEN [f EXCEPT !.age = Older(@)] ELSE f

CanAges ==
    /\ mcp' = [b \in {0, 1} |-> IF mcp[b] = Empty THEN Empty ELSE <<Aged(Head(mcp[b]))>>]
    /\ UNCHANGED can

-----------------------------------------------------------------------------
(* Can_Init: one of InitRetries attempts brings the controller to normal   *)
(* mode, or none.                                                          *)

CanTypeOK ==
    /\ can.state \in {"uninit", "started"}
    /\ Len(can.queue) <= QueueDepth
    /\ can.moved \in NoLength .. FramesPerCycle
    /\ can.intf \in SUBSET {0, 1}
    /\ {can.sampled, can.dropped} \subseteq BOOLEAN

CanInit ==
    /\ mcp = [b \in {0, 1} |-> Empty]
    /\ \E failures \in 0 .. InitRetries :
           can = [state |-> IF failures = InitRetries THEN "uninit" ELSE "started",
                  queue |-> <<>>, sampled |-> FALSE, intf |-> {}, moved |-> NoLength,
                  dropped |-> FALSE]

-----------------------------------------------------------------------------
(* Can_MainFunction_Read.  moved is NoLength outside of it.                *)

QueuePush(c, f) ==
    IF Len(c.queue) >= QueueDepth THEN [c EXCEPT !.dropped = TRUE]
    ELSE [c EXCEPT !.queue = Append(@, f)]

NotStarted == can.state # "started" /\ UNCHANGED canVars

(* The SD driver holds the bus, or CANINTF cannot be read. *)
BusDenied == can.state = "started" /\ can.moved = NoLength /\ UNCHANGED canVars

(* The flags are read at the start and after each frame. *)
ReadFlags ==
    /\ can.state = "started" /\ ~can.sampled
    /\ can' = [can EXCEPT !.moved = IF @ = NoLength THEN 0 ELSE @,
                          !.sampled = TRUE, !.intf = Full(mcp)]
    /\ UNCHANGED mcp

(* A frame that is read leaves its buffer.  Remote requests are not queued. *)
ReadFrame ==
    /\ can.sampled /\ can.moved < FramesPerCycle /\ can.intf # {}
    /\ LET b == IF 0 \in can.intf THEN 0 ELSE 1
           f == Head(mcp[b])
       IN /\ mcp' = [mcp EXCEPT ![b] = Empty]
          /\ can' = [(IF f.remote THEN can ELSE QueuePush(can, f)) EXCEPT
                         !.moved = @ + 1, !.sampled = FALSE, !.intf = {}]

(* The error flags, at the end or after a transfer that failed. *)
ReadErrors(failed) ==
    /\ can.moved # NoLength
    /\ failed \/ (can.sampled /\ (can.moved = FramesPerCycle \/ can.intf = {}))
    /\ can' = [can EXCEPT !.moved = NoLength, !.sampled = FALSE, !.intf = {}]
    /\ UNCHANGED mcp

(* Can_Receive. *)
Receive == [can EXCEPT !.queue = Tail(@)]

=============================================================================
