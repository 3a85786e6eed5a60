---------------------------------- MODULE CanIf ----------------------------------
(***************************************************************************)
(* The motor controller's two frames (CanIf.c): decoding in the scheduler  *)
(* task, and the copy that the acquisition and storage tasks take of the   *)
(* latest data, without a lock.                                            *)
(***************************************************************************)
EXTENDS Can

CONSTANTS
    SignalTimeout,   \* CANIF_MCU_SIGNAL_TIMEOUT_MS
    StaleLimit,      \* CANIF_STALE_REPORT_THRESHOLD
    Readers          \* the tasks that call CanIf_GetMcuData

ASSUME CanIfAssumption ==
    /\ {SignalTimeout, StaleLimit} \subseteq Nat \ {0}
    /\ SignalTimeout <= MaxAge

VARIABLES
    mcu,      \* CanIf_McuData: each half's age, stamp and validity
    stale,    \* CanIf_ConsecutiveStale
    unknown,  \* a frame with another identifier was decoded
    reader,   \* where each reader is, and its copy of the drive state
    fed       \* history: the sample the odometer was given last

canIfVars == <<mcu, stale, unknown, reader, fed>>

NoData == [age |-> 0, stamp |-> 0, valid |-> FALSE]
NoCopy == [at |-> "idle", age |-> 0, moved |-> FALSE]
NoSample == [age |-> 0, moved |-> FALSE]

CanIfTypeOK ==
    /\ mcu \in [{"drive", "current"} -> [age : 0 .. MaxAge, stamp : 0 .. SignalTimeout, valid : BOOLEAN]]
    /\ stale \in 0 .. StaleLimit + 1
    /\ reader \in [Readers -> [at : {"idle", "judge", "report", "feed"},
                               age : 0 .. MaxAge, moved : BOOLEAN]]

CanIfInit ==
    /\ mcu = [h \in {"drive", "current"} |-> NoData]
    /\ stale = 0 /\ unknown = FALSE
    /\ reader = [r \in Readers |-> NoCopy]
    /\ fed = NoSample

-----------------------------------------------------------------------------
(* CanIf_MainFunction.                                                     *)

Half(f) ==
    CASE DecodeIdentifier(f.regs) = CAN_ID_MCU_DRIVE_STATE -> "drive"
      [] DecodeIdentifier(f.regs) = CAN_ID_MCU_CURRENT_VOLTAGE -> "current"
      [] OTHER -> "unknown"

(* A frame that is too short changes nothing.  moved: the copy that a      *)
(* reader is working on is not the latest data any more.                   *)
Decode ==
    /\ can.queue # <<>>
    /\ can' = Receive
    /\ LET f == Head(can.queue)
           h == Half(f)
       IN IF h = "unknown" THEN unknown' = TRUE /\ UNCHANGED <<mcu, reader>>
          ELSE IF f.short THEN UNCHANGED <<mcu, unknown, reader>>
          ELSE /\ mcu' = [mcu EXCEPT ![h] = [age |-> f.age, stamp |-> 0, valid |-> TRUE]]
               /\ reader' = [r \in Readers |->
                      IF reader[r].at = "idle" THEN NoCopy ELSE [reader[r] EXCEPT !.moved = TRUE]]
               /\ UNCHANGED unknown
    /\ UNCHANGED <<mcp, stale, fed>>

-----------------------------------------------------------------------------
(* CanIf_GetMcuData and what its callers do with the copy.                 *)

IsMcuDataFresh ==
    \A h \in {"drive", "current"} : mcu[h].valid /\ mcu[h].stamp < SignalTimeout

Move(r, next) == reader' = [reader EXCEPT ![r] = next]

(* Only the speed of the copy is used afterwards. *)
CopySpeed(r) ==
    /\ reader[r].at = "idle"
    /\ Move(r, [NoCopy EXCEPT !.at = "judge", !.age = mcu["drive"].age])
    /\ UNCHANGED <<mcu, stale, unknown, fed>>

(* The data, not the copy, is judged; a recovery is reported at once.      *)
(* status is the report to Dem. *)
Judge(r, status) ==
    /\ reader[r].at = "judge"
    /\ IF IsMcuDataFresh
       THEN /\ status = IF stale > 0 THEN "passed" ELSE "nothing"
            /\ stale' = 0
            /\ Move(r, [reader[r] EXCEPT !.at = "feed"])
       ELSE /\ stale' = IF stale <= StaleLimit THEN stale + 1 ELSE stale
            /\ Move(r, [reader[r] EXCEPT !.at = "report"])
            /\ status = "nothing"
    /\ UNCHANGED <<mcu, unknown, fed>>

(* The count is compared after another reader may have raised it. *)
ReportStale(r, status) ==
    /\ reader[r].at = "report"
    /\ status = IF stale = StaleLimit THEN "failed" ELSE "nothing"
    /\ Move(r, [reader[r] EXCEPT !.at = "feed"])
    /\ UNCHANGED <<mcu, stale, unknown, fed>>

(* The odometer is given the copy if the data is fresh now. *)
Feed(r) ==
    /\ reader[r].at = "feed"
    /\ fed' = IF IsMcuDataFresh THEN [age |-> reader[r].age, moved |-> reader[r].moved] ELSE fed
    /\ Move(r, NoCopy)
    /\ UNCHANGED <<mcu, stale, unknown>>

(* Ages grow; the age of the current is not followed.  A copy is worked on *)
(* within a tick. *)
CanIfAges ==
    /\ mcu' = [h \in {"drive", "current"} |->
                 IF mcu[h].valid
                 THEN [mcu[h] EXCEPT !.stamp = IF @ < SignalTimeout THEN @ + 1 ELSE @,
                                     !.age = IF h = "drive" THEN Older(@) ELSE 0]
                 ELSE NoData]
    /\ fed' = NoSample
    /\ UNCHANGED <<stale, unknown, reader>>

=============================================================================
