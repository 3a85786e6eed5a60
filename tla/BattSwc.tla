--------------------------------- MODULE BattSwc ---------------------------------
(***************************************************************************)
(* The battery component (BattSwc.c): after each round it copies the       *)
(* packs' states, sums up the packs that answered and reports faults.  The *)
(* storage task formats a record from the copies (Com.c) while they may be *)
(* rewritten; neither side takes a lock.                                   *)
(*                                                                         *)
(* A reading stands for the measurements it carries, so that minima,       *)
(* maxima and the cells' imbalance are the set of readings they are taken  *)
(* over.                                                                   *)
(***************************************************************************)
EXTENDS Rs485If

CONSTANT MissingLimit    \* BATTSWC_MISSING_LIMIT

ASSUME BattSwcAssumption == MissingLimit \in 1 .. FailureLimit

VARIABLES
    batt,     \* BattSwc_PackStates and BattSwc_Aggregate
    record    \* the storage task: the slot it formats, what it has read of it

battVars == <<batt, record>>

NoSum == [present |-> 0, over |-> {}, cells |-> {}]
NoRecord == [at |-> "idle", slot |-> 1, valid |-> FALSE, written |-> NoReading, crossed |-> FALSE]

BattTypeOK ==
    /\ batt.sum.present \in 0 .. PackCount
    /\ batt.sum.over \subseteq Readings /\ batt.sum.cells \subseteq Readings
    /\ DOMAIN batt.states = Slots
    /\ record \in [at : {"idle", "values"}, slot : Slots, valid : BOOLEAN,
                   written : Readings, crossed : BOOLEAN]

(* The state before BattSwc_Init, which follows the discovery. *)
BattInit ==
    /\ batt = [states |-> [s \in Slots |-> NoPack], sum |-> NoSum]
    /\ record = NoRecord

BattStarts ==
    /\ batt' = [states |-> [s \in Slots |-> NoPack],
                sum |-> [NoSum EXCEPT !.present = Cardinality(Present)]]
    /\ UNCHANGED record

-----------------------------------------------------------------------------
(* BattSwc_MainFunction after Rs485If_PollAllPacks.                        *)

(* BattSwc_ComputePackHealth. *)
Healthy(p) == p.present /\ p.cell.valid

(* BattSwc_ComputeAggregate: only the packs that answered in this round. *)
Responding(states) == {s \in Slots : states[s].present /\ states[s].pack.valid}

Aggregate(states) ==
    [present |-> Cardinality(Present),
     over |-> {states[s].pack : s \in Responding(states)},
     cells |-> {states[s].cell : s \in {t \in Responding(states) : Healthy(states[t])}}]

(* BattSwc_ReportEvents: one pack after the other, then whether there is any. *)
PackEvent(p) ==
    IF ~p.present THEN "nothing"
    ELSE IF p.failures >= MissingLimit THEN "failed"
    ELSE IF p.pack.valid THEN "passed" ELSE "nothing"

(* The copy of one slot; a reader that is between the flag and the values  *)
(* of that slot is crossed. *)
CopyPack ==
    /\ poll.at = "copy" /\ poll.slot <= PackCount
    /\ batt' = [batt EXCEPT !.states[poll.slot] = packs[poll.slot]]
    /\ record' = IF record.at = "values" /\ record.slot = poll.slot
                 THEN [record EXCEPT !.crossed = TRUE] ELSE record
    /\ poll' = [poll EXCEPT !.slot = @ + 1]
    /\ UNCHANGED <<bus, packs>>

SumUp ==
    /\ poll.at = "copy" /\ poll.slot > PackCount
    /\ batt' = [batt EXCEPT !.sum = Aggregate(batt.states)]
    /\ poll' = [at |-> "report", slot |-> 1, tries |-> 0]
    /\ UNCHANGED <<bus, packs, record>>

ReportPack(status) ==
    /\ poll.at = "report" /\ poll.slot <= PackCount
    /\ status = PackEvent(batt.states[poll.slot])
    /\ poll' = [poll EXCEPT !.slot = @ + 1]
    /\ UNCHANGED <<bus, packs, batt, record>>

ReportMissing(status) ==
    /\ poll.at = "report" /\ poll.slot > PackCount
    /\ status = IF Present = {} THEN "failed" ELSE "passed"
    /\ poll' = [at |-> "idle", slot |-> 1, tries |-> 0]
    /\ UNCHANGED <<bus, packs, batt, record>>

(* History: readings that were copied age when a round starts. *)
CopiesAge ==
    /\ batt' = [states |-> [s \in Slots |-> [batt.states[s] EXCEPT !.pack = Old(@), !.cell = Old(@)]],
                sum |-> [batt.sum EXCEPT !.over = {Old(reading) : reading \in @},
                                         !.cells = {Old(reading) : reading \in @}]]
    /\ UNCHANGED record

-----------------------------------------------------------------------------
(* Com_WritePackRecord: the flag, then the values.  written is blank if    *)
(* the flag was not set. *)

ReadFlag ==
    /\ record.at = "idle"
    /\ \E s \in Slots :
           record' = [NoRecord EXCEPT !.at = "values", !.slot = s,
                                      !.valid = batt.states[s].pack.valid]
    /\ UNCHANGED batt

ReadValues ==
    /\ record.at = "values"
    /\ record' = [record EXCEPT !.at = "idle", !.crossed = FALSE,
                     !.written = IF record.valid
                                 THEN [batt.states[record.slot].pack EXCEPT !.valid = TRUE]
                                 ELSE NoReading]
    /\ UNCHANGED batt

=============================================================================
