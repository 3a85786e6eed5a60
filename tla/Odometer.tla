-------------------------------- MODULE Odometer --------------------------------
(***************************************************************************)
(* The odometer (OdoSwc.c) on the NV memory manager.  Two tasks meet here: *)
(* the acquisition task integrates one motor-speed sample per period       *)
(* (SchM_RunOdometrySample), the storage task pushes the total to NvM and  *)
(* runs NvM's cyclic function.  Acquisition has the higher priority, and a *)
(* commit waits for the flash, so samples arrive while a commit is in      *)
(* progress.                                                               *)
(*                                                                         *)
(* Distances are small integers: one unit of total is a millimetre, Scale  *)
(* stands for 2^32 with the halving of the trapezoid folded in, and time   *)
(* since the last reference is kept instead of timestamps.  The total is   *)
(* read as one value, which the build does while it fits one 32-bit word.  *)
(* The trip counter and the speed for the display are left out: resetting  *)
(* the trip commits, and that is modelled.                                 *)
(***************************************************************************)
EXTENDS NvM, FiniteSetsExt

CONSTANTS
    Odo, Cal,   \* NVM_BLOCK_ODOMETER, NVM_BLOCK_CALIBRATION
    Factors,    \* the conversion factors of the calibrations; 0: unusable
    Scale,      \* fractions per millimetre (ODO_FIXED_SHIFT)
    Speeds,     \* the motor speeds a frame may decode to
    MaxRpm,     \* maxPlausibleRpm
    MaxAccel,   \* ODO_MAX_ACCEL_MM_PER_S2
    MaxGap,     \* ODO_MAX_SAMPLE_GAP_MS
    Diagnosed,  \* is a diagnostic tester connected?
    Threshold,  \* ODO_PERSIST_DISTANCE_MM
    CountMod,   \* the range of updateCount
    MaxTotal,   \* bound: the distances explored
    MaxLag      \* bound: samples between two passes of the storage task

VARIABLES
    running,        \* OdoSwc_Initialised
    total,          \* OdoSwc_TotalMm
    fraction,       \* OdoSwc_FractionAcc
    factor,         \* OdoSwc_FactorQ32
    haveLast,       \* OdoSwc_HaveLastSample
    lastRpm,        \* OdoSwc_LastRpm
    since,          \* time since OdoSwc_LastSampleTime, at most MaxGap + 1
    lastPersisted,  \* OdoSwc_LastPersistedMm
    lag             \* samples since the storage task's last pass

sampling == <<haveLast, lastRpm, since>>
odoVars == <<running, total, fraction, factor, sampling, lastPersisted, lag>>
allVars == <<vars, odoVars>>

Readings == [total : 0 .. MaxTotal, count : 0 .. CountMod - 1]
Calibrations == [factor : Factors]
BlockImages == [b \in NvBlocks |-> IF b = Odo THEN Readings ELSE Calibrations]

ASSUME OdoAssumption ==
    /\ {Odo, Cal} \subseteq NvBlocks /\ Odo # Cal
    /\ Odo \in Immediate /\ Cal \notin Immediate
    /\ Readings \cup Calibrations \subseteq Values
    /\ Default[Odo] \in Readings /\ Default[Odo].total = 0
    /\ Default[Cal] \in Calibrations
    /\ Factors \subseteq Nat /\ \E f \in Factors : \A g \in Factors : f >= g
    /\ Speeds \subseteq Nat /\ 0 \in Speeds
    /\ {Scale, CountMod, Threshold} \subseteq Nat \ {0}
    /\ {MaxRpm, MaxAccel, MaxGap, MaxTotal, MaxLag} \subseteq Nat

(* Types and ranges of the odometer's variables. *)
OdoTypeOK ==
    /\ TypeOK
    /\ running \in BOOLEAN
    /\ total \in 0 .. MaxTotal
    /\ fraction \in 0 .. Scale - 1
    /\ factor \in Factors
    /\ haveLast \in BOOLEAN
    /\ lastRpm \in Speeds
    /\ since \in 0 .. MaxGap + 1
    /\ lastPersisted \in 0 .. MaxTotal
    /\ lag \in 0 .. MaxLag

OdoStarts ==
    /\ Init
    /\ running = FALSE
    /\ total = 0 /\ lastPersisted = 0
    /\ fraction = 0
    /\ factor = Default[Cal].factor
    /\ haveLast = FALSE /\ lastRpm = 0 /\ since = 0
    /\ lag = 0

-----------------------------------------------------------------------------
(* Start-up.                                                               *)

(* Bug: the total is not restored. *)
OdoInitEmpty ==
    /\ Ready /\ ~running
    /\ mirror[Cal].factor # 0
    /\ running' = TRUE
    /\ factor' = mirror[Cal].factor
    /\ fraction' = 0
    /\ haveLast' = FALSE /\ lastRpm' = 0 /\ since' = 0
    /\ UNCHANGED <<vars, total, lastPersisted, lag>>

(* With a calibration that yields no factor the component stays off. *)
OdoInit ==
    /\ Ready /\ ~running
    /\ mirror[Cal].factor # 0
    /\ running' = TRUE
    /\ total' = mirror[Odo].total
    /\ lastPersisted' = mirror[Odo].total
    /\ factor' = mirror[Cal].factor
    /\ fraction' = 0
    /\ haveLast' = FALSE /\ lastRpm' = 0 /\ since' = 0
    /\ UNCHANGED <<vars, lag>>

-----------------------------------------------------------------------------
(* The acquisition task: OdoSwc_ProcessSpeedSample.                        *)

Difference(a, b) == IF a > b THEN a - b ELSE b - a

Elapsed(dt) == IF since + dt > MaxGap THEN MaxGap + 1 ELSE since + dt

IsAccelerationImplausible(rpm, elapsed) ==
    Difference(rpm, lastRpm) * factor > MaxAccel * elapsed

(* A sample that adds no distance, and what it makes of the reference. *)
NotIntegrated(rpm, dt) ==
    /\ \/ /\ rpm > MaxRpm
          /\ haveLast' = FALSE /\ since' = 0
          /\ UNCHANGED lastRpm
       \/ /\ rpm <= MaxRpm /\ ~haveLast
          /\ haveLast' = TRUE /\ lastRpm' = rpm /\ since' = 0
       \/ /\ rpm <= MaxRpm /\ haveLast
          /\ \/ /\ Elapsed(dt) \in {0, MaxGap + 1}
                /\ lastRpm' = rpm /\ since' = 0
             \/ /\ Elapsed(dt) \in 1 .. MaxGap
                /\ IsAccelerationImplausible(rpm, Elapsed(dt))
                /\ since' = Elapsed(dt)
                /\ UNCHANGED lastRpm
          /\ UNCHANGED haveLast
    /\ UNCHANGED <<total, fraction>>

(* Bug: the carried millimetres stay in the fraction. *)
IntegratedUnmasked(rpm, dt) ==
    LET elapsed == Elapsed(dt)
        acc == fraction + (lastRpm + rpm) * elapsed * factor
    IN  /\ rpm <= MaxRpm /\ haveLast
        /\ elapsed \in 1 .. MaxGap
        /\ ~IsAccelerationImplausible(rpm, elapsed)
        /\ total + acc \div Scale <= MaxTotal
        /\ total' = total + acc \div Scale
        /\ fraction' = acc
        /\ lastRpm' = rpm /\ since' = 0
        /\ UNCHANGED haveLast

(* The trapezoid, with the fraction of a millimetre carried over. *)
Integrated(rpm, dt) ==
    LET elapsed == Elapsed(dt)
        acc == fraction + (lastRpm + rpm) * elapsed * factor
    IN  /\ rpm <= MaxRpm /\ haveLast
        /\ elapsed \in 1 .. MaxGap
        /\ ~IsAccelerationImplausible(rpm, elapsed)
        /\ total + acc \div Scale <= MaxTotal
        /\ total' = total + acc \div Scale
        /\ fraction' = acc % Scale
        /\ lastRpm' = rpm /\ since' = 0
        /\ UNCHANGED haveLast

ProcessSpeedSample(rpm, dt) ==
    /\ running
    /\ lag < MaxLag
    /\ lag' = lag + 1
    /\ NotIntegrated(rpm, dt) \/ Integrated(rpm, dt)
    /\ UNCHANGED <<vars, running, factor, lastPersisted>>

-----------------------------------------------------------------------------
(* The storage task.                                                       *)

Reading == [total |-> total, count |-> (mirror[Odo].count + 1) % CountMod]

(* OdoSwc_Commit hands the total to NvM.  What it notes once NvM has       *)
(* answered is the total of that moment.                                   *)
Commit ==
    /\ running
    /\ WriteBlock(Odo, Reading)
    /\ lastPersisted' = IF lastWritten[Odo] = Reading THEN total ELSE lastPersisted

CommitAnswered ==
    /\ CommitSucceeds(Odo)
    /\ lastPersisted' = IF call.op = "write" THEN total ELSE lastPersisted
    /\ UNCHANGED <<running, total, fraction, factor, sampling, lag>>

Advanced == total - lastPersisted

PersistDue(elapsed) ==
    \/ Advanced >= Threshold
    \/ Advanced > 0 /\ elapsed

(* OdoSwc_MainFunction; elapsed is the answer of Gpt_HasElapsed. *)
OdoMainFunction(elapsed) ==
    /\ Ready /\ running
    /\ lag' = 0
    /\ IF PersistDue(elapsed) THEN Commit ELSE UNCHANGED <<vars, lastPersisted>>
    /\ UNCHANGED <<running, total, fraction, factor, sampling>>

(* OdoSwc_Persist and OdoSwc_ResetTrip: no threshold. *)
Persist ==
    /\ Commit
    /\ UNCHANGED <<running, total, fraction, factor, sampling, lag>>

(* The new factor is in force at once, its block is deferred. *)
SetCalibration(f) ==
    /\ running
    /\ f # 0
    /\ WriteBlock(Cal, [factor |-> f])
    /\ factor' = f
    /\ fraction' = 0
    /\ haveLast' = FALSE
    /\ UNCHANGED <<running, total, lastRpm, since, lastPersisted, lag>>

-----------------------------------------------------------------------------
(* NvM under the odometer. *)
NvMStep ==
    /\ \/ Start \/ Cyclic \/ CommitSucceeds(Cal)
       \/ \E b \in NvBlocks : Load(b) \/ LoadFails(b) \/ CommitFails(b)
    /\ UNCHANGED odoVars

(* A reset: the variables of OdoSwc.c start again from their initialisers. *)
Reset ==
    /\ PowerLoss
    /\ running' = FALSE
    /\ total' = 0 /\ lastPersisted' = 0
    /\ fraction' = 0
    /\ factor' = Default[Cal].factor
    /\ haveLast' = FALSE /\ lastRpm' = 0 /\ since' = 0
    /\ lag' = 0

Spoil ==
    /\ \E b \in NvBlocks : Decay(b) /\ stable'[b] \in BlockImages[b] \cup {Absent}
    /\ UNCHANGED odoVars

OdoNext ==
    \/ OdoInit
    \/ \E rpm \in Speeds, dt \in 0 .. MaxGap + 1 : ProcessSpeedSample(rpm, dt)
    \/ \E elapsed \in BOOLEAN : OdoMainFunction(elapsed)
    \/ CommitAnswered
    \/ Diagnosed /\ (Persist \/ \E f \in Factors : SetCalibration(f))
    \/ NvMStep
    \/ Reset
    \/ Spoil

OdoSpec == OdoStarts /\ [][OdoNext]_allVars

-----------------------------------------------------------------------------
Stored(reading) == IF reading = Absent THEN 0 ELSE reading.total

(* The odometer reading in the flash never goes down: across resets,       *)
(* failed commits that landed or not, retries of an older image by NvM and *)
(* losses of the supply during a write (OdoSwc_Commit, OdoSwc_Init).       *)
ReadingNeverDecreases ==
    [][Stored(stable'[Odo]) >= Stored(stable[Odo])]_allVars

(* The flash never holds more distance than was driven: an image that NvM  *)
(* retries, or that landed although it failed, is never ahead of the total *)
(* (OdoSwc_Commit).                                                        *)
NothingFabricated == running => Stored(stable[Odo]) <= total

(* The most one sample adds. *)
MaxStep == (Scale - 1 + 2 * MaxRpm * MaxGap * Max(Factors)) \div Scale

(* What a reset costs (OdoSwc_MainFunction): less than the threshold, the   *)
(* sample that reaches it, and the samples that arrive during the commit   *)
(* in progress and during the one before it, which noted them as persisted.*)
(* A commit the flash refused stays owed and is not counted.               *)
LossBounded ==
    running /\ ~dirty[Odo] =>
        total - Stored(stable[Odo]) <= Threshold - 1 + 3 * MaxLag * MaxStep

=============================================================================
