--------------------------------- MODULE Rs485If ---------------------------------
(***************************************************************************)
(* The battery bus (Rs485If.c): finding the packs at a start and reading   *)
(* them in rounds, over a half-duplex line (Uart_Esp32.cpp, Uart.c) on     *)
(* which a reply may be missing, damaged or late.                          *)
(*                                                                         *)
(* A reply is the serial number it names and the request it answers, which *)
(* decides its length.  The measurements are one value, its source; the    *)
(* check sum is taken to find every damaged frame.  An exchange is one     *)
(* step: nothing else uses the line.                                       *)
(***************************************************************************)
EXTENDS Integers, FiniteSets

CONSTANTS
    PackCount,      \* RS485IF_PACK_COUNT
    Retries,        \* RS485IF_REQUEST_RETRIES
    FailureLimit,   \* RS485IF_FAILURE_LIMIT; failures are told apart up to it
    MaxLate,        \* bound: the exchanges after which a late reply is lost
    Fittings        \* the serial numbers that may be in the slots

ASSUME Rs485IfAssumption ==
    /\ {PackCount, Retries, FailureLimit, MaxLate} \subseteq Nat \ {0}
    /\ \A f \in Fittings : DOMAIN f = 1 .. PackCount

VARIABLES
    bus,     \* the packs fitted, those switched on, a reply that is late
    packs,   \* Rs485If_Packs
    poll     \* where the task that uses the bus is

rs485Vars == <<bus, packs, poll>>

Slots == 1 .. PackCount
NoSerial == "none"           \* an empty slot, or a serial of zero or all ones
NoReply == [kind |-> "none", serial |-> NoSerial, left |-> 0]
NoReading == [valid |-> FALSE, from |-> NoSerial, age |-> 0]
NoPack == [present |-> FALSE, serial |-> NoSerial, pack |-> NoReading, cell |-> NoReading,
           failures |-> 0]
Serials == {f[s] : f \in Fittings, s \in Slots}

Readings == [valid : BOOLEAN, from : Serials \cup {NoSerial}, age : 0 .. 3]

Rs485TypeOK ==
    /\ bus \in [fitted : Fittings, on : SUBSET Slots,
                late : [kind : {"none", "serial", "pack", "cell"},
                        serial : Serials \cup {NoSerial}, left : 0 .. MaxLate]]
    /\ packs \in [Slots -> [present : BOOLEAN, serial : Serials \cup {NoSerial},
                            pack : Readings, cell : Readings, failures : 0 .. FailureLimit]]
    /\ poll \in [at : {"off", "switch", "ask", "again", "last", "idle", "pack", "cell", "copy", "report"},
                 slot : Slots \cup {PackCount + 1}, tries : 0 .. Retries]

(* Rs485If_Init.  The packs may still be switched on from before. *)
Rs485Init ==
    /\ \E f \in Fittings, on \in {{}, Slots} :
           bus = [fitted |-> f, on |-> on, late |-> NoReply]
    /\ packs = [s \in Slots |-> NoPack]
    /\ poll = [at |-> "off", slot |-> 1, tries |-> 0]

-----------------------------------------------------------------------------
(* Rs485If_Exchange.                                                       *)

(* The serial request addresses whoever is on; the others one serial. *)
Answering(kind, serial) ==
    {s \in bus.on : bus.fitted[s] # NoSerial /\ (kind = "serial" \/ bus.fitted[s] = serial)}

Ageing(reply) ==
    IF reply.left > 1 THEN [reply EXCEPT !.left = @ - 1] ELSE NoReply

Reply(kind, s) == [kind |-> kind, serial |-> bus.fitted[s], left |-> MaxLate]
Silence == NoReply
Garbled == [NoReply EXCEPT !.kind = "garbled"]

(* What is read, and the reply that is late afterwards.  The buffer is     *)
(* purged first: a late reply is seen only if it comes after that, and     *)
(* then it comes before the answer.                                        *)
Exchanges(kind, serial) ==
    LET who == Answering(kind, serial)
        own == {Reply(kind, s) : s \in who}
        alone == Cardinality(who) = 1
    IN {<<Silence, r>> : r \in {Ageing(bus.late), NoReply} \cup (IF alone THEN own ELSE {})}
       \cup {<<Garbled, NoReply>>}
       \cup (IF alone THEN {<<r, NoReply>> : r \in own} ELSE {})
       \cup (IF bus.late # NoReply THEN {<<bus.late, NoReply>>} ELSE {})

(* Rs485If_ValidateResponse and the check of the serial number.  A reply   *)
(* to another request has another length. *)
(* Bug in AcceptsAny: the serial number is not looked at.                  *)
AcceptsAny(got, kind, serial) == got.kind = kind

Accepts(got, kind, serial) == got.kind = kind /\ (kind = "serial" \/ got.serial = serial)

(* A switch command is acted on or not; its acknowledgement is not used. *)
Switch(mask) == \E on \in {mask, bus.on} : bus' = [bus EXCEPT !.on = on, !.late = NoReply]

-----------------------------------------------------------------------------
(* Rs485If_DiscoverPacks.                                                  *)

Discover ==
    /\ poll.at = "off"
    /\ Switch({})
    /\ poll' = [at |-> "switch", slot |-> 1, tries |-> 0]
    /\ UNCHANGED packs

SwitchOne ==
    /\ poll.at = "switch"
    /\ Switch({poll.slot})
    /\ packs' = [packs EXCEPT ![poll.slot].present = FALSE, ![poll.slot].serial = NoSerial]
    /\ poll' = [poll EXCEPT !.at = "ask", !.tries = 0]

Duplicate(serial) == \E s \in 1 .. poll.slot - 1 : packs[s].present /\ packs[s].serial = serial

AskSerial ==
    /\ poll.at = "ask"
    /\ \E x \in Exchanges("serial", NoSerial) :
           LET found == Accepts(x[1], "serial", NoSerial)
           IN /\ bus' = [bus EXCEPT !.late = x[2]]
              /\ packs' = IF found /\ ~Duplicate(x[1].serial)
                          THEN [packs EXCEPT ![poll.slot].present = TRUE,
                                             ![poll.slot].serial = x[1].serial]
                          ELSE packs
              /\ poll' = IF ~found /\ poll.tries < Retries
                         THEN [poll EXCEPT !.tries = @ + 1]
                         ELSE [poll EXCEPT !.at = "again"]

SwitchOff ==
    /\ poll.at = "again"
    /\ Switch({})
    /\ poll' = IF poll.slot < PackCount
               THEN [at |-> "switch", slot |-> poll.slot + 1, tries |-> 0]
               ELSE [at |-> "last", slot |-> 1, tries |-> 0]
    /\ UNCHANGED packs

Present == {s \in Slots : packs[s].present}

SwitchPresent ==
    /\ poll.at = "last"
    /\ Switch(Present)
    /\ poll' = [poll EXCEPT !.at = "idle"]
    /\ UNCHANGED packs

-----------------------------------------------------------------------------
(* Rs485If_PollAllPacks: each pack that is present, then its cells.        *)

NextPresent(s) ==
    CHOOSE t \in (Present \cap s .. PackCount) \cup {PackCount + 1} :
        \A u \in Present \cap s .. PackCount : t <= u

GoTo(s) ==
    IF s > PackCount THEN [at |-> "copy", slot |-> 1, tries |-> 0]
    ELSE [at |-> "pack", slot |-> s, tries |-> 0]

(* Readings age by a round.  A round starts seconds after the last ended:  *)
(* nothing of it is still to come. *)
Old(reading) == [reading EXCEPT !.age = IF @ < 3 THEN @ + 1 ELSE @]

StartRound ==
    /\ poll.at = "idle"
    /\ packs' = [s \in Slots |-> [packs[s] EXCEPT !.pack = Old(@), !.cell = Old(@)]]
    /\ poll' = GoTo(NextPresent(1))
    /\ bus' = [bus EXCEPT !.late = NoReply]

(* Rs485If_RecordOutcome: the two reads of a pack share one count. *)
Outcome(p, kind, reading) ==
    [p EXCEPT ![kind] = reading,
              !.failures = IF reading.valid THEN 0 ELSE IF @ < FailureLimit THEN @ + 1 ELSE @]

AfterRead(kind) ==
    IF kind = "pack" THEN [at |-> "cell", slot |-> poll.slot, tries |-> 0]
    ELSE GoTo(NextPresent(poll.slot + 1))

(* Rs485If_ReadPackData, Rs485If_ReadCellData: the reading is valid if     *)
(* this read succeeded; a failed one leaves the values. *)
Read(kind) ==
    /\ poll.at = kind
    /\ LET p == packs[poll.slot] IN
       \E x \in Exchanges(kind, p.serial) :
           /\ bus' = [bus EXCEPT !.late = x[2]]
           /\ \/ /\ Accepts(x[1], kind, p.serial)
                 /\ packs' = [packs EXCEPT ![poll.slot] =
                       Outcome(p, kind, [valid |-> TRUE, from |-> x[1].serial, age |-> 0])]
                 /\ poll' = AfterRead(kind)
              \/ /\ ~Accepts(x[1], kind, p.serial) /\ poll.tries < Retries
                 /\ poll' = [poll EXCEPT !.tries = @ + 1]
                 /\ UNCHANGED packs
              \/ /\ ~Accepts(x[1], kind, p.serial) /\ poll.tries = Retries
                 /\ packs' = [packs EXCEPT ![poll.slot] =
                       Outcome(p, kind, [p[kind] EXCEPT !.valid = FALSE])]
                 /\ poll' = AfterRead(kind)

=============================================================================
