------------------------------ MODULE DurableStore ------------------------------
(***************************************************************************)
(* What the flash EEPROM emulation promises its callers (Fee.h): a set of  *)
(* named blocks, each of which survives a supply loss.  A write in flight  *)
(* when the supply goes, or when the media reports a failure, leaves its   *)
(* block at the old value or at the new one; every other block, and every  *)
(* write that was answered E_OK, is untouched.  A read returns what a      *)
(* reset would find.  Fee.tla is shown to implement this module.           *)
(***************************************************************************)
EXTENDS Naturals

CONSTANTS
    Blocks,     \* the configured blocks
    Values,     \* the contents a caller may write
    Absent,     \* what a block that holds nothing reads as
    Damaged     \* the answer of a read that found records, none usable

VARIABLES
    decays,     \* whether the media may spoil stored records
    up,         \* the store has been mounted since the last power-up
    stable,     \* the value of each block that a reset would find
    request,    \* the change in progress: {} or {[blks, val]}
    reply       \* the answer to the last call

vars == <<decays, up, request, reply, stable>>

Contents == Values \cup {Absent}
(* One block written or invalidated, or all of them wiped. *)
Requests ==
    [blks : {{b} : b \in Blocks}, val : Values \cup {Absent}]
    \cup [blks : {Blocks}, val : {Absent}]

NoReply   == [status |-> "none",  val |-> Absent]
Done      == [status |-> "ok",    val |-> Absent]
Failed    == [status |-> "error", val |-> Absent]
Answer(v) == [status |-> "value", val |-> v]
Replies   == {NoReply, Done, Failed} \cup {Answer(v) : v \in Contents \cup {Damaged}}

TypeOK ==
    /\ decays \in BOOLEAN
    /\ up \in BOOLEAN
    /\ stable \in [Blocks -> Contents]
    /\ request \in SUBSET Requests
    /\ \A r, s \in request : r = s
    /\ reply \in Replies

Init ==
    /\ decays \in BOOLEAN
    /\ up = FALSE
    /\ stable = [b \in Blocks |-> Absent]
    /\ request = {}
    /\ reply = NoReply

Applied(r) == [b \in Blocks |-> IF b \in r.blks THEN r.val ELSE stable[b]]

Submit ==
    /\ up
    /\ request = {}
    /\ request' # {} /\ request' \subseteq Requests
    /\ \A r, s \in request' : r = s
    /\ reply' = NoReply
    /\ UNCHANGED <<decays, up, stable>>

(* The change takes effect before it is answered. *)
Land ==
    \E r \in request :
        /\ UNCHANGED <<decays, up, request, reply>>
        /\ stable' = Applied(r)

(* The write is answered E_OK: from here on a reset finds the new value. *)
Succeed ==
    \E r \in request :
        /\ request' = {}
        /\ reply' = Done
        /\ UNCHANGED <<decays, up>>
        /\ stable' = Applied(r)

(* The write is answered with an error: the block holds the old or the new *)
(* value.                                                                  *)
Fail ==
    \E r \in request :
        /\ request' = {}
        /\ reply' = Failed
        /\ UNCHANGED <<decays, up>>
        /\ stable' \in {stable, Applied(r)}

Read(b) ==
    /\ up
    /\ request = {}
    /\ \/ reply' = Answer(stable[b])
       \/ stable[b] = Absent /\ reply' = Answer(Damaged)
    /\ UNCHANGED <<decays, up, request, stable>>

(* A call that stores nothing: housekeeping, or a call refused unmounted. *)
Maintain ==
    /\ request = {}
    /\ reply' \in {NoReply, Done, Failed}
    /\ UNCHANGED <<decays, up, request, stable>>

Mount ==
    /\ ~up
    /\ up' = TRUE
    /\ UNCHANGED <<decays, request, reply, stable>>

(* The supply goes: the write in progress takes effect or does not. *)
PowerLoss ==
    /\ up' = FALSE
    /\ request' = {}
    /\ reply' = NoReply
    /\ UNCHANGED decays
    /\ stable' \in {stable} \cup {Applied(r) : r \in request}

(* One stored record spoils: its block, and no other, may read as anything *)
(* else.                                                                   *)
Decay(b) ==
    /\ decays
    /\ UNCHANGED <<decays, up, request, reply>>
    /\ \E c \in Contents : stable' = [stable EXCEPT ![b] = c]

Next ==
    \/ \E b \in Blocks : Read(b) \/ Decay(b)
    \/ Submit \/ Land \/ Succeed \/ Fail \/ Maintain \/ Mount \/ PowerLoss

Spec == Init /\ [][Next]_vars
=============================================================================
