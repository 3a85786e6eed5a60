----------------------------------- MODULE Dem -----------------------------------
(***************************************************************************)
(* The diagnostic event manager (Dem.c) and the monitor of the auxiliary   *)
(* voltage (IoHwAb.c) that it calls back: when a fault is confirmed, the   *)
(* snapshot provider measures the voltage, which reports to Dem again.     *)
(*                                                                         *)
(* An event is a member of Events; the reporting instance, occurrence      *)
(* counts, times, the bits for the last and the completed tests and the    *)
(* contents of a snapshot are left out.                                    *)
(***************************************************************************)
EXTENDS Integers, FiniteSets, Sequences, SequencesExt

CONSTANTS
    EventList,       \* the configured events in the order of their identifiers
    Threshold,       \* failureThreshold of each
    Warning,         \* the events that warn the driver
    HealingCycles,   \* DEM_HEALING_CYCLE_COUNT
    LowMv,           \* IOHWAB_VBATT_LOW_MV
    ImplausibleMv,   \* IOHWAB_VBATT_IMPLAUSIBLE_MV
    ReferenceMv,     \* IOHWAB_ADC_REFERENCE_MV
    MaxCount,        \* ADC_MAX_COUNT
    DividerMilli,    \* the calibrated divider ratio
    OffsetMv         \* the calibrated trim

Events == Range(EventList)

ASSUME DemAssumption ==
    /\ EventList \in Seq(Events)
    /\ {"VBATT_LOW", "VBATT_SENSE_FAULT"} \subseteq Events
    /\ Threshold \in [Events -> Nat \ {0}]
    /\ Warning \subseteq Events
    /\ {HealingCycles, LowMv, ImplausibleMv, ReferenceMv, MaxCount, DividerMilli} \subseteq Nat \ {0}
    /\ OffsetMv \in Int

VARIABLE dem   \* Dem_Records

NeverTested == [failedCycle |-> FALSE, pending |-> FALSE, confirmed |-> FALSE,
                debounce |-> 0, healing |-> 0, snapshot |-> FALSE]

DemTypeOK ==
    /\ dem \in [Events -> [failedCycle : BOOLEAN, pending : BOOLEAN,
                        confirmed : BOOLEAN, debounce : Nat, healing : 0 .. HealingCycles,
                        snapshot : BOOLEAN]]
    /\ \A e \in Events : dem[e].debounce <= Threshold[e]

(* Dem_Init: no status survives in RAM. *)
DemInit == [e \in Events |-> NeverTested]

-----------------------------------------------------------------------------
(* Reports.                                                                *)

(* A pending fault stays pending until the passes outweigh the failures;   *)
(* a confirmed one is not cleared by a pass.                               *)
Passed(x) ==
    LET left == IF x.debounce > 0 THEN x.debounce - 1 ELSE 0
    IN [x EXCEPT !.debounce = left, !.pending = @ /\ left > 0]

(* Bug: the count goes on past the threshold. *)
FailedPast(x, threshold) ==
    [x EXCEPT !.failedCycle = TRUE, !.healing = 0, !.debounce = @ + 1,
              !.confirmed = @ \/ x.debounce + 1 >= threshold,
              !.pending = x.debounce + 1 < threshold]

Failed(x, threshold) ==
    LET count == IF x.debounce < threshold THEN x.debounce + 1 ELSE x.debounce
    IN [x EXCEPT !.failedCycle = TRUE, !.healing = 0, !.debounce = count,
                 !.confirmed = @ \/ count >= threshold, !.pending = count < threshold]

(* The status byte, before any snapshot. *)
Mark(r, e, status) ==
    [r EXCEPT ![e] = IF status = "failed" THEN Failed(@, Threshold[e]) ELSE Passed(@)]

(* Dem_CaptureSnapshot, once the records r have become marked: the first   *)
(* confirmation of an event asks the provider, which leaves them provided. *)
Captured(r, e, marked, provided) ==
    IF marked[e].confirmed /\ ~r[e].confirmed /\ ~r[e].snapshot
    THEN [provided EXCEPT ![e].snapshot = TRUE]
    ELSE marked

-----------------------------------------------------------------------------
(* IoHwAb_ReadAuxVoltage.  NoCount: the conversion failed.                 *)

NoCount == 0 - 1

MilliVolts(counts) ==
    LET mv == ((((counts * ReferenceMv) \div MaxCount) * DividerMilli) \div 1000) + OffsetMv
    IN IF mv < 0 THEN 0 ELSE IF mv > 65535 THEN 65535 ELSE mv

VoltageEvents == {"VBATT_SENSE_FAULT", "VBATT_LOW"}

Implausible(counts) == counts = NoCount \/ MilliVolts(counts) > ImplausibleMv
SenseVerdict(counts) == IF Implausible(counts) THEN "failed" ELSE "passed"
LowVerdict(counts) == IF MilliVolts(counts) < LowMv THEN "failed" ELSE "passed"

(* DiagSwc_ProvideSnapshot measures again within the report that confirms  *)
(* a fault (Dem_SetEventStatus).  An implausibly high voltage says nothing *)
(* about the battery.  Each level confirms an event that was not, and only *)
(* the two voltage events can follow: three levels reach the bottom.       *)
Report0(r, e, status, counts) == Mark(r, e, status)

Provide0(r, counts) ==
    LET sensed == Report0(r, "VBATT_SENSE_FAULT", SenseVerdict(counts), counts)
    IN IF Implausible(counts) THEN sensed
       ELSE Report0(sensed, "VBATT_LOW", LowVerdict(counts), counts)

Report1(r, e, status, counts) ==
    LET marked == Mark(r, e, status)
    IN Captured(r, e, marked, Provide0(marked, counts))

Provide1(r, counts) ==
    LET sensed == Report1(r, "VBATT_SENSE_FAULT", SenseVerdict(counts), counts)
    IN IF Implausible(counts) THEN sensed
       ELSE Report1(sensed, "VBATT_LOW", LowVerdict(counts), counts)

Report2(r, e, status, counts) ==
    LET marked == Mark(r, e, status)
    IN Captured(r, e, marked, Provide1(marked, counts))

ProvideSnapshot(r, counts) ==
    LET sensed == Report2(r, "VBATT_SENSE_FAULT", SenseVerdict(counts), counts)
    IN IF Implausible(counts) THEN sensed
       ELSE Report2(sensed, "VBATT_LOW", LowVerdict(counts), counts)

SetEventStatus(r, e, status, counts) ==
    LET marked == Mark(r, e, status)
    IN Captured(r, e, marked, ProvideSnapshot(marked, counts))

(* The reading that goes into a record. *)
MeasureVoltage(counts) == ProvideSnapshot(dem, counts)

-----------------------------------------------------------------------------
(* Cycles, clearing, totals.                                               *)

(* Dem_StartOperationCycle. *)
NextCycle(x) ==
    LET clean == IF ~x.confirmed THEN x.healing ELSE IF x.failedCycle THEN 0 ELSE x.healing + 1
        healed == x.confirmed /\ clean >= HealingCycles
    IN [x EXCEPT !.failedCycle = FALSE, !.healing = clean, !.confirmed = @ /\ ~healed,
                 !.debounce = IF healed THEN 0 ELSE @]

StartOperationCycle == [e \in Events |-> NextCycle(dem[e])]

(* Dem_ClearDtc for every code. *)
ClearDtc == DemInit

(* Dem_GetStatistics, Dem_GetConfirmedDtcs. *)
Confirmed(r) == {e \in Events : r[e].confirmed}
WarningActive == Confirmed(dem) \cap Warning # {}

=============================================================================
