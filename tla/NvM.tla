---------------------------------- MODULE NvM ----------------------------------
(***************************************************************************)
(* The NV memory manager (NvM.c): one RAM mirror per block, a write-on-    *)
(* change comparison, immediate and deferred blocks, and a cyclic function *)
(* that commits at most one dirty block.  It runs on the durable store     *)
(* that Fee.tla implements: Fee_Init, Fee_ReadBlock and Fee_WriteBlock are *)
(* the actions of DurableStore, so the supply may go, and other tasks may  *)
(* run, while a write is on its way to the flash.                          *)
(*                                                                         *)
(* The callers run in one task (SchM's storage task, after start-up), so   *)
(* the calls of this module do not overlap.  The request result and the    *)
(* counters are reported and never read back: they are left out.           *)
(* Store!Land is left out: the supply loss that would show it covers it.   *)
(***************************************************************************)
EXTENDS Naturals

CONSTANTS
    NBlocks,    \* NVM_BLOCK_COUNT; the blocks are 1 .. NBlocks
    Immediate,  \* the blocks configured as immediate
    Values,     \* the block images
    Default,    \* the configured default image of each block
    Absent,     \* no image
    Damaged,    \* the store's answer for records it cannot use
    Fragile,    \* the blocks whose records the media may spoil or not read
    Lands       \* the blocks whose failed writes may take effect all the same

NvBlocks == 1 .. NBlocks

ASSUME ConstantsAssumption ==
    /\ NBlocks \in Nat \ {0}
    /\ Immediate \subseteq NvBlocks
    /\ Default \in [NvBlocks -> Values]
    /\ Absent \notin Values
    /\ Damaged \notin Values \cup {Absent}
    /\ Fragile \subseteq NvBlocks
    /\ Lands \subseteq NvBlocks

VARIABLES
    decays, up, stable, request, reply, \* the durable store
    mirror,      \* the RAM mirrors
    dirty,       \* NvM_Dirty
    lastWritten, \* NvM_LastWritten, Absent where NvM_LastWrittenValid is FALSE
    mainCursor,  \* NvM_MainCursor
    call         \* the call in progress: what it does, and its block

Store == INSTANCE DurableStore WITH Blocks <- NvBlocks

storeVars == <<decays, up, stable, request, reply>>
nvmVars == <<mirror, dirty, lastWritten, mainCursor, call>>
vars == <<storeVars, nvmVars>>

Operations == {"idle", "load", "write", "main", "all"}
Idle == [op |-> "idle", blk |-> 1]
Images == Values \cup {Absent}

(* Types of the store, the mirrors and NvM's bookkeeping. *)
TypeOK ==
    /\ Store!TypeOK
    /\ mirror \in [NvBlocks -> Images]
    /\ dirty \in [NvBlocks -> BOOLEAN]
    /\ lastWritten \in [NvBlocks -> Images]
    /\ mainCursor \in NvBlocks
    /\ call \in [op : Operations, blk : NvBlocks]

-----------------------------------------------------------------------------
(* What NvM_Load makes of a stored image. *)
Loaded(b, image) == IF image \in Values THEN image ELSE Default[b]

(* What the mirror of b holds after a reset. *)
ResetFinds(b) == Loaded(b, stable[b])

(* NvM_Initialised, no call in progress. *)
Ready == up /\ call.op = "idle" /\ request = {}

(* Power-up state of the RAM: nothing is loaded, nothing is owed. *)
ColdMirror == [b \in NvBlocks |-> Absent]
Clean == [b \in NvBlocks |-> FALSE]

Init ==
    /\ Store!Init
    /\ decays = (Fragile # {})
    /\ mirror = ColdMirror
    /\ dirty = Clean
    /\ lastWritten = ColdMirror
    /\ mainCursor = 1
    /\ call = Idle

-----------------------------------------------------------------------------
(* Start-up.                                                               *)

(* EcuM_InitMemory: Fee_Init succeeds and NvM_Init begins. *)
Start ==
    /\ Store!Mount
    /\ dirty' = Clean
    /\ lastWritten' = ColdMirror
    /\ mainCursor' = 1
    /\ call' = [op |-> "load", blk |-> 1]
    /\ UNCHANGED mirror

LoadNext == call' = IF call.blk < NBlocks THEN [call EXCEPT !.blk = @ + 1] ELSE Idle

(* NvM_Load: the stored image, or the default when there is none. *)
Load(b) ==
    /\ call = [op |-> "load", blk |-> b]
    /\ Store!Read(b)
    /\ mirror' = [mirror EXCEPT ![b] = Loaded(b, reply'.val)]
    /\ lastWritten' = [lastWritten EXCEPT
           ![b] = IF reply'.val \in Values THEN reply'.val ELSE Absent]
    /\ LoadNext
    /\ UNCHANGED <<dirty, mainCursor>>

(* NvM_Load when Fee_ReadBlock could not read the media: the default. *)
LoadFails(b) ==
    /\ call = [op |-> "load", blk |-> b]
    /\ b \in Fragile
    /\ reply' = Store!Failed /\ Store!Maintain
    /\ mirror' = [mirror EXCEPT ![b] = Default[b]]
    /\ lastWritten' = [lastWritten EXCEPT ![b] = Absent]
    /\ LoadNext
    /\ UNCHANGED <<dirty, mainCursor>>

-----------------------------------------------------------------------------
(* NvM_Commit.                                                             *)

(* Fee_WriteBlock is called with the image of b. *)
CommitBegins(op, b, image) ==
    /\ request' = {[blks |-> {b}, val |-> image]}
    /\ Store!Submit
    /\ call' = [op |-> op, blk |-> b]

(* What follows a commit: NvM_WriteAll goes on to the next block. *)
CommitEnds ==
    call' = IF call.op = "all" /\ call.blk < NBlocks
            THEN [call EXCEPT !.blk = @ + 1] ELSE Idle

CommitSucceeds(b) ==
    /\ Store!Succeed
    /\ call.blk = b
    /\ lastWritten' = [lastWritten EXCEPT ![b] = mirror[b]]
    /\ dirty' = [dirty EXCEPT ![b] = FALSE]
    /\ CommitEnds
    /\ UNCHANGED <<mirror, mainCursor>>

(* Bug: a failed commit is forgotten. *)
CommitFailsClean(b) ==
    /\ Store!Fail
    /\ call.blk = b
    /\ b \in Lands \/ stable' = stable
    /\ CommitEnds
    /\ UNCHANGED <<mirror, dirty, lastWritten, mainCursor>>

(* The block stays dirty, so that every other path retries it. *)
CommitFails(b) ==
    /\ Store!Fail
    /\ call.blk = b
    /\ b \in Lands \/ stable' = stable
    /\ dirty' = [dirty EXCEPT ![b] = TRUE]
    /\ CommitEnds
    /\ UNCHANGED <<mirror, lastWritten, mainCursor>>

-----------------------------------------------------------------------------
(* The calls.                                                              *)

(* Bug: the image is not compared with the one committed last. *)
WriteAlways(b, v) ==
    /\ Ready
    /\ mirror' = [mirror EXCEPT ![b] = v]
    /\ IF b \in Immediate
       THEN CommitBegins("write", b, v) /\ UNCHANGED dirty
       ELSE dirty' = [dirty EXCEPT ![b] = TRUE] /\ UNCHANGED <<storeVars, call>>
    /\ UNCHANGED <<lastWritten, mainCursor>>

(* NvM_WriteBlock of an image that is not on the media. *)
WriteChanged(b, v) ==
    /\ Ready
    /\ lastWritten[b] # v
    /\ mirror' = [mirror EXCEPT ![b] = v]
    /\ IF b \in Immediate
       THEN CommitBegins("write", b, v) /\ UNCHANGED dirty
       ELSE dirty' = [dirty EXCEPT ![b] = TRUE] /\ UNCHANGED <<storeVars, call>>
    /\ UNCHANGED <<lastWritten, mainCursor>>

(* NvM_WriteBlock of the image last committed: nothing to do. *)
WriteUnchanged(b, v) ==
    /\ Ready
    /\ lastWritten[b] = v
    /\ mirror' = [mirror EXCEPT ![b] = v]
    /\ dirty' = [dirty EXCEPT ![b] = FALSE]
    /\ UNCHANGED <<storeVars, lastWritten, mainCursor, call>>

WriteBlock(b, v) == WriteChanged(b, v) \/ WriteUnchanged(b, v)

WriteImmediate(b) ==
    /\ Ready
    /\ dirty[b]
    /\ CommitBegins("write", b, mirror[b])
    /\ UNCHANGED <<mirror, dirty, lastWritten, mainCursor>>

RestoreBlockDefaults(b) ==
    /\ Ready
    /\ mirror' = [mirror EXCEPT ![b] = Default[b]]
    /\ dirty' = [dirty EXCEPT ![b] = TRUE]
    /\ UNCHANGED <<storeVars, lastWritten, mainCursor, call>>

(* Bug: the cursor does not wrap. *)
AroundUnwrapped(b, k) == b + k

(* The block k places after b, going round. *)
Around(b, k) == 1 + ((b - 1 + k) % NBlocks)

(* Bug: the cursor stays where it is. *)
MainFunctionFromFirst(b) ==
    /\ Ready
    /\ dirty[b]
    /\ \A j \in 1 .. b - 1 : ~dirty[j]
    /\ CommitBegins("main", b, mirror[b])
    /\ UNCHANGED <<mirror, dirty, lastWritten, mainCursor>>

(* NvM_MainFunction commits the first dirty block from the cursor, which   *)
(* moves past it.  With nothing dirty it goes all the way round.           *)
MainFunction(b) ==
    /\ Ready
    /\ dirty[b]
    /\ \E k \in 0 .. NBlocks - 1 :
           /\ b = Around(mainCursor, k)
           /\ \A j \in 0 .. k - 1 : ~dirty[Around(mainCursor, j)]
    /\ mainCursor' = Around(b, 1)
    /\ CommitBegins("main", b, mirror[b])
    /\ UNCHANGED <<mirror, dirty, lastWritten>>

WriteAll ==
    /\ Ready
    /\ call' = [op |-> "all", blk |-> 1]
    /\ UNCHANGED <<storeVars, mirror, dirty, lastWritten, mainCursor>>

(* NvM_WriteAll at its next block: commit it, or pass over it. *)
WriteAllNext ==
    /\ call.op = "all"
    /\ request = {}
    /\ IF dirty[call.blk]
       THEN CommitBegins("all", call.blk, mirror[call.blk])
       ELSE CommitEnds /\ UNCHANGED storeVars
    /\ UNCHANGED <<mirror, dirty, lastWritten, mainCursor>>

-----------------------------------------------------------------------------
(* A reset or a supply loss takes the RAM, wherever the store is. *)
PowerLoss ==
    /\ Store!PowerLoss
    /\ mirror' = ColdMirror
    /\ dirty' = Clean
    /\ lastWritten' = ColdMirror
    /\ mainCursor' = 1
    /\ call' = Idle

(* A stored record spoils. *)
Decay(b) == b \in Fragile /\ Store!Decay(b) /\ UNCHANGED nvmVars

Calls ==
    \/ \E b \in NvBlocks, v \in Values : WriteBlock(b, v)
    \/ \E b \in NvBlocks : WriteImmediate(b) \/ RestoreBlockDefaults(b)
    \/ WriteAll

Cyclic == \E b \in NvBlocks : MainFunction(b)

Work ==
    \/ \E b \in NvBlocks : Load(b) \/ LoadFails(b)
    \/ \E b \in NvBlocks : CommitSucceeds(b) \/ CommitFails(b)
    \/ WriteAllNext

Environment == PowerLoss \/ \E b \in NvBlocks : Decay(b)

Next == Start \/ Calls \/ Cyclic \/ Work \/ Environment

Spec == Init /\ [][Next]_vars

(* The storage task calls NvM_MainFunction in every pass, after the other  *)
(* calls it makes (SchM_StorageRunnables), so the function gets its turn   *)
(* however often the others have theirs.  A call that has begun goes on,   *)
(* and the media does not refuse a block for ever.                         *)
Fairness ==
    /\ SF_vars(Cyclic)
    /\ WF_vars(WriteAllNext)
    /\ WF_vars(\E b \in NvBlocks : CommitSucceeds(b) \/ CommitFails(b))
    /\ \A b \in NvBlocks : SF_vars(CommitSucceeds(b))

FairSpec == Spec /\ Fairness

-----------------------------------------------------------------------------
(* The blocks NvM_Init has loaded. *)
IsLoaded(b) == up /\ (call.op = "load" => b < call.blk)

InFlight(b) == \E r \in request : b \in r.blks

(* A block that owes no write reads after a reset as it reads now          *)
(* (NvM_ReadBlock): every write that was answered E_OK, or dropped as      *)
(* unchanged, is on the media.  It holds of the blocks whose records stay  *)
(* intact and whose failed writes leave nothing behind.                    *)
CleanMeansStored ==
    \A b \in NvBlocks \ (Fragile \cup Lands) :
        IsLoaded(b) /\ ~dirty[b] /\ ~InFlight(b) => ResetFinds(b) = mirror[b]

(* Write-on-change: no commit spends flash on the image that is already    *)
(* stored, except for a default restored by request (NvM_WriteBlock and    *)
(* every retry of NvM_MainFunction, NvM_WriteImmediate and NvM_WriteAll).  *)
NoUnchangedCommit ==
    \A b \in NvBlocks \ (Fragile \cup Lands) : \A r \in request :
        b \in r.blks /\ r.val = stable[b] => r.val = Default[b]

(* A block that owes a write is written, or a reset comes first, however   *)
(* often the other blocks are written meanwhile.                           *)
DeferredWritten == \A b \in NvBlocks : dirty[b] ~> (~dirty[b] \/ ~up)

=============================================================================
