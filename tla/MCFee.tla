--------------------------------- MODULE MCFee ---------------------------------
(***************************************************************************)
(* The instances of Fee that TLC checks.                                   *)
(*                                                                         *)
(* Without read faults nothing in Fee depends on the absolute value of a   *)
(* write counter or a sequence number, only on differences modulo their    *)
(* range: turning every counter of one block, or every sequence number, by *)
(* the same amount turns one behaviour into another.  AgeView identifies   *)
(* states that differ by such a turn, or only in what a dead sector holds. *)
(* The recovery run checks a smaller instance without it, where the counters   *)
(* really go around and dead sectors keep their contents.                  *)
(***************************************************************************)
EXTENDS Fee, TLC

UnitSpan == [b \in 1 .. NBlocks |-> 1]
MixedSpan == [b \in 1 .. NBlocks |-> b]
WriteFaults ==
    {[calls |-> {"write", "collect"}, faults |-> {"program", "erase"}],
     [calls |-> {"write"}, faults |-> {"rot"}]}
AllCalls ==
    {[calls |-> {"write"}, faults |-> {"program", "erase"}],
     [calls |-> CallKinds, faults |-> {"tear"}]}
LandedSeals == {[calls |-> {"write"}, faults |-> {"program", "seal"}]}
ReadFaults == {[calls |-> {"write"}, faults |-> {"read"}]}
ValueSymmetry == Permutations(Values)

AllSlots == Log(0) \o Log(1)
Carries(slot, b) == slot.kind \in WellFormed /\ slot.blk = b
Numbered == pc \in {"header", "payload", "commit"} \/ cause = "retry"

FirstCounter(b) ==
    LET own == {i \in DOMAIN AllSlots : Carries(AllSlots[i], b)}
    IN  IF own # {}
        THEN AllSlots[CHOOSE i \in own : \A j \in own : i <= j].counter
        ELSE counter
FirstSequence ==
    IF media[0].header # NoHeader THEN media[0].header
    ELSE IF media[1].header # NoHeader THEN media[1].header ELSE sequence

(* What a sector holds matters while it is the mounted one, the one a      *)
(* start would mount, or the one being filled; any other is erased first.  *)
Live(s) ==
    \/ s \in BootSectors
    \/ pc # "off" /\ (s = active \/ pc \in {"copy", "seal"})

AgeView ==
    LET base == [b \in Blocks |-> FirstCounter(b)]
        seq0 == FirstSequence
        Turned(slot) ==
            IF slot.kind \in WellFormed
            THEN [slot EXCEPT !.counter = (@ - base[slot.blk]) % CounterMod]
            ELSE slot
        Rel(n) == IF n = NoHeader THEN n ELSE (n - seq0) % SequenceMod
        mounted == pc # "off"
    IN  <<env, [s \in Sectors |->
            [header |-> Rel(media[s].header),
             log |-> IF Live(s) THEN [i \in DOMAIN Log(s) |-> Turned(Log(s)[i])]
                     ELSE <<>>]],
          initialised, active, IF mounted THEN Rel(sequence) ELSE 0,
          cursor, poisoned, pc, call, cause,
          IF Numbered THEN (counter - base[call.blk]) % CounterMod ELSE 0,
          copying, copyEnd, reply>>
=============================================================================
