------------------------------- MODULE NvMProofs -------------------------------
(***************************************************************************)
(* Theorems about NvM.tla for every value of its constants.                *)
(***************************************************************************)
EXTENDS NvM, TLAPS

-----------------------------------------------------------------------------
(* Types.                                                                  *)

LEMMA StepsRound ==
    ASSUME NEW b \in NvBlocks, NEW k \in Nat
    PROVE  Around(b, k) \in NvBlocks
  <1>1. (b - 1 + k) % NBlocks \in 0 .. NBlocks - 1
    BY ConstantsAssumption DEF NvBlocks
  <1>. QED  BY <1>1, ConstantsAssumption DEF NvBlocks, Around

LEMMA FirstIsBlock == 1 \in NvBlocks /\ Idle \in [op : Operations, blk : NvBlocks]
  BY ConstantsAssumption DEF NvBlocks, Idle, Operations

LEMMA NextBlock ==
    ASSUME call \in [op : Operations, blk : NvBlocks], call.blk < NBlocks
    PROVE  [call EXCEPT !.blk = @ + 1] \in [op : Operations, blk : NvBlocks]
  <1>1. call.blk + 1 \in NvBlocks
    BY ConstantsAssumption DEF NvBlocks
  <1>. QED  BY <1>1

LEMMA ApplyType ==
    ASSUME Store!TypeOK, NEW r \in request
    PROVE  Store!Applied(r) \in [NvBlocks -> Images]
  BY DEF Store!TypeOK, Store!Requests, Store!Applied, Store!Contents, Images

(* What the store does keeps the store's types. *)
LEMMA StoreTypes ==
    ASSUME Store!TypeOK,
           \/ Store!Mount \/ Store!Submit \/ Store!Succeed \/ Store!Fail
           \/ Store!PowerLoss \/ UNCHANGED storeVars
           \/ \E b \in NvBlocks : Store!Read(b) \/ Store!Decay(b)
           \/ reply' = Store!Failed /\ Store!Maintain
    PROVE  Store!TypeOK'
  <1>1. CASE Store!Mount
    BY <1>1 DEF Store!Mount, Store!TypeOK
  <1>2. CASE Store!Submit
    BY <1>2 DEF Store!Submit, Store!TypeOK, Store!Replies
  <1>3. CASE Store!Succeed
    BY <1>3, ApplyType DEF Store!Succeed, Store!TypeOK, Store!Replies, Images,
        Store!Contents
  <1>4. CASE Store!Fail
    BY <1>4, ApplyType DEF Store!Fail, Store!TypeOK, Store!Replies, Images,
        Store!Contents
  <1>5. CASE Store!PowerLoss
    BY <1>5, ApplyType DEF Store!PowerLoss, Store!TypeOK, Store!Replies, Images,
        Store!Contents
  <1>6. CASE UNCHANGED storeVars
    BY <1>6 DEF storeVars, Store!TypeOK
  <1>7. ASSUME NEW b \in NvBlocks, Store!Read(b)
        PROVE  Store!TypeOK'
    <2>1. stable[b] \in Store!Contents
      BY <1>7 DEF Store!TypeOK
    <2>2. reply' \in Store!Replies
      BY <1>7, <2>1 DEF Store!Read, Store!Replies
    <2>. QED  BY <1>7, <2>2 DEF Store!Read, Store!TypeOK
  <1>8. ASSUME NEW b \in NvBlocks, Store!Decay(b)
        PROVE  Store!TypeOK'
    BY <1>8 DEF Store!Decay, Store!TypeOK
  <1>9. CASE reply' = Store!Failed /\ Store!Maintain
    BY <1>9 DEF Store!Maintain, Store!TypeOK, Store!Replies
  <1>. QED  BY <1>1, <1>2, <1>3, <1>4, <1>5, <1>6, <1>7, <1>8, <1>9

LEMMA TypeInit == Init => TypeOK
  <1>. SUFFICES ASSUME Init PROVE TypeOK
    OBVIOUS
  <1>1. Store!TypeOK
    BY DEF Init, Store!Init, Store!TypeOK, Store!Contents, Store!Replies
  <1>. QED
    BY <1>1, FirstIsBlock DEF Init, TypeOK, ColdMirror, Clean, Images

LEMMA TypeStep ==
    ASSUME TypeOK, [Next]_vars
    PROVE  TypeOK'
  <1>. USE DEF TypeOK, storeVars
  <1>1. CASE Start
    <2>1. Store!TypeOK'
      BY <1>1, StoreTypes DEF Start
    <2>. QED  BY <1>1, <2>1, FirstIsBlock DEF Start, Clean, ColdMirror, Images, Operations
  <1>2. ASSUME NEW b \in NvBlocks, Load(b) \/ LoadFails(b)
        PROVE  TypeOK'
    <2>1. Store!TypeOK'
      BY <1>2, StoreTypes DEF Load, LoadFails
    <2>2. call' \in [op : Operations, blk : NvBlocks]
      BY <1>2, FirstIsBlock, NextBlock DEF Load, LoadFails, LoadNext
    <2>3. Default[b] \in Values
      BY ConstantsAssumption
    <2>. QED
      BY <1>2, <2>1, <2>2, <2>3 DEF Load, LoadFails, Loaded, Images
  <1>3. ASSUME NEW b \in NvBlocks, CommitSucceeds(b) \/ CommitFails(b)
        PROVE  TypeOK'
    <2>1. Store!TypeOK'
      BY <1>3, StoreTypes DEF CommitSucceeds, CommitFails
    <2>2. call' \in [op : Operations, blk : NvBlocks]
      BY <1>3, FirstIsBlock, NextBlock DEF CommitSucceeds, CommitFails, CommitEnds
    <2>. QED
      BY <1>3, <2>1, <2>2 DEF CommitSucceeds, CommitFails
  <1>4. ASSUME NEW b \in NvBlocks, NEW v \in Values, WriteBlock(b, v)
        PROVE  TypeOK'
    <2>1. Store!TypeOK'
      BY <1>4, StoreTypes DEF WriteBlock, WriteChanged, WriteUnchanged, CommitBegins
    <2>2. call' \in [op : Operations, blk : NvBlocks]
      BY <1>4 DEF WriteBlock, WriteChanged, WriteUnchanged, CommitBegins, Operations
    <2>. QED
      BY <1>4, <2>1, <2>2 DEF WriteBlock, WriteChanged, WriteUnchanged, Images
  <1>5. ASSUME NEW b \in NvBlocks, WriteImmediate(b) \/ MainFunction(b)
        PROVE  TypeOK'
    <2>1. Store!TypeOK'
      BY <1>5, StoreTypes DEF WriteImmediate, MainFunction, CommitBegins
    <2>2. call' \in [op : Operations, blk : NvBlocks]
      BY <1>5 DEF WriteImmediate, MainFunction, CommitBegins, Operations
    <2>3. mainCursor' \in NvBlocks
      BY <1>5, StepsRound DEF WriteImmediate, MainFunction
    <2>. QED
      BY <1>5, <2>1, <2>2, <2>3 DEF WriteImmediate, MainFunction
  <1>6. ASSUME NEW b \in NvBlocks, RestoreBlockDefaults(b)
        PROVE  TypeOK'
    <2>1. Store!TypeOK'
      BY <1>6, StoreTypes DEF RestoreBlockDefaults
    <2>2. Default[b] \in Values
      BY ConstantsAssumption
    <2>. QED
      BY <1>6, <2>1, <2>2 DEF RestoreBlockDefaults, Images
  <1>7. CASE WriteAll \/ WriteAllNext
    <2>1. Store!TypeOK'
      BY <1>7, StoreTypes DEF WriteAll, WriteAllNext, CommitBegins
    <2>2. call' \in [op : Operations, blk : NvBlocks]
      BY <1>7, FirstIsBlock, NextBlock
      DEF WriteAll, WriteAllNext, CommitBegins, CommitEnds, Operations
    <2>. QED
      BY <1>7, <2>1, <2>2 DEF WriteAll, WriteAllNext
  <1>8. CASE Environment
    <2>1. Store!TypeOK'
      BY <1>8, StoreTypes DEF Environment, PowerLoss, Decay
    <2>. QED
      BY <1>8, <2>1, FirstIsBlock
      DEF Environment, PowerLoss, Decay, nvmVars, ColdMirror, Clean, Images
  <1>9. CASE UNCHANGED vars
    <2>1. Store!TypeOK'
      BY <1>9, StoreTypes DEF vars
    <2>. QED  BY <1>9, <2>1 DEF vars, nvmVars
  <1>. QED
    BY <1>1, <1>2, <1>3, <1>4, <1>5, <1>6, <1>7, <1>8, <1>9
    DEF Next, Calls, Cyclic, Work

(* The manager's RAM and the store keep their types (NvM.c). *)
THEOREM TypeCorrect == Spec => []TypeOK
  BY TypeInit, TypeStep, PTL DEF Spec

-----------------------------------------------------------------------------
(***************************************************************************)
(* The inductive invariant.  For a sound block, write-on-change compares   *)
(* with what is on the media, and whatever is owed or on its way differs   *)
(* from it or is a restored default.                                       *)
(***************************************************************************)
Sound == NvBlocks \ (Fragile \cup Lands)

(* Nothing is in progress while the store is down; loading owes nothing;   *)
(* the store is asked to write the mirror of the block the call is at.     *)
Progress ==
    /\ call.op # "idle" => up
    /\ call.op = "load" => dirty = Clean /\ request = {}
    /\ ~up => dirty = Clean
    /\ \A r \in request :
          up /\ r = [blks |-> {call.blk}, val |-> mirror[call.blk]]

Known(b) ==
    IsLoaded(b) =>
        /\ mirror[b] \in Values
        /\ b \in Sound => lastWritten[b] = stable[b]

Owed(b) ==
    b \in Sound =>
        /\ dirty[b] \/ InFlight(b) =>
              mirror[b] # stable[b] \/ mirror[b] = Default[b]
        /\ IsLoaded(b) /\ ~dirty[b] /\ ~InFlight(b) => ResetFinds(b) = mirror[b]

Consistent == Progress /\ \A b \in NvBlocks : Known(b) /\ Owed(b)
NvMInv == TypeOK /\ Consistent

LEMMA FlightBlock ==
    ASSUME Progress, NEW b \in NvBlocks
    PROVE  InFlight(b) <=> request # {} /\ b = call.blk
  BY DEF Progress, InFlight

LEMMA DefaultImage == ASSUME NEW b \in NvBlocks PROVE Default[b] \in Values
  BY ConstantsAssumption

LEMMA ConsistentInit == Init => Consistent
  BY DEF Init, Store!Init, Consistent, Progress, Known, Owed, IsLoaded, InFlight,
      Idle, Clean

(* Start-up. *)
LEMMA ConsistentStart ==
    ASSUME NvMInv, Start
    PROVE  Consistent'
  <1>1. request' = {} /\ up' /\ dirty' = Clean /\ call' = [op |-> "load", blk |-> 1]
    BY DEF Start, Store!Mount, NvMInv, Consistent, Progress
  <1>2. \A b \in NvBlocks : ~IsLoaded(b)'
    BY <1>1 DEF IsLoaded, NvBlocks
  <1>. QED
    BY <1>1, <1>2 DEF Consistent, Progress, Known, Owed, InFlight, Clean

LEMMA ConsistentLoad ==
    ASSUME NvMInv, NEW b \in NvBlocks, Load(b) \/ LoadFails(b)
    PROVE  Consistent'
  <1>. USE DEF NvMInv, TypeOK, Consistent
  <1>1. /\ request' = {} /\ up /\ up' /\ stable' = stable
        /\ dirty = Clean /\ dirty' = Clean /\ call = [op |-> "load", blk |-> b]
    BY DEF Load, LoadFails, Store!Read, Store!Maintain, Progress
  <1>2. \A c \in NvBlocks : IsLoaded(c)' => c = b \/ IsLoaded(c)
    <2>1. CASE b < NBlocks
      BY <1>1, <2>1, ConstantsAssumption DEF Load, LoadFails, LoadNext, IsLoaded, NvBlocks
    <2>2. CASE ~(b < NBlocks)
      BY <1>1, <2>2, ConstantsAssumption DEF Load, LoadFails, LoadNext, IsLoaded, NvBlocks
    <2>. QED  BY <2>1, <2>2
  <1>3. mirror'[b] \in Values
    BY DefaultImage DEF Load, LoadFails, Loaded
  <1>4. ASSUME b \in Sound
        PROVE  lastWritten'[b] = stable'[b] /\ mirror'[b] = ResetFinds(b)'
    <2>1. Load(b)
      BY <1>4 DEF Sound, LoadFails
    <2>2. CASE reply' = Store!Answer(stable[b])
      <3>1. reply'.val = stable[b] /\ stable[b] \in Images
        BY <2>2 DEF Store!Answer, Store!TypeOK, Store!Contents, Images
      <3>. QED  BY <1>1, <2>1, <3>1 DEF Load, ResetFinds, Loaded, Images
    <2>3. CASE stable[b] = Absent /\ reply' = Store!Answer(Damaged)
      <3>1. reply'.val = Damaged
        BY <2>3 DEF Store!Answer
      <3>. QED
        BY <1>1, <2>1, <2>3, <3>1, ConstantsAssumption DEF Load, ResetFinds, Loaded
    <2>. QED  BY <2>1, <2>2, <2>3 DEF Load, Store!Read
  <1>5. \A c \in NvBlocks : c # b => mirror'[c] = mirror[c] /\ lastWritten'[c] = lastWritten[c]
    BY DEF Load, LoadFails
  <1>6. \A c \in NvBlocks : Known(c)'
    BY <1>1, <1>2, <1>3, <1>4, <1>5 DEF Known
  <1>7. \A c \in NvBlocks : ~InFlight(c) /\ ~InFlight(c)' /\ ~dirty[c] /\ ~dirty'[c]
    BY <1>1 DEF InFlight, Clean, Progress
  <1>8. \A c \in NvBlocks : Owed(c)'
    BY <1>1, <1>2, <1>4, <1>5, <1>7 DEF Owed, ResetFinds
  <1>9. Progress'
    BY <1>1 DEF Progress
  <1>. QED  BY <1>6, <1>8, <1>9

(* The end of a commit. *)
LEMMA ConsistentEnd ==
    ASSUME NvMInv, NEW b \in NvBlocks, CommitSucceeds(b) \/ CommitFails(b)
    PROVE  Consistent'
  <1>. USE DEF NvMInv, TypeOK, Consistent
  <1>1. PICK r \in request : r = [blks |-> {b}, val |-> mirror[b]] /\ up
    BY DEF CommitSucceeds, CommitFails, Store!Succeed, Store!Fail, Progress
  <1>2. \A s \in request : s = r
    BY DEF Store!TypeOK
  <1>3. call'.op \in {"all", "idle"}
    <2>1. [call EXCEPT !.blk = @ + 1].op = call.op
      OBVIOUS
    <2>. QED  BY <2>1 DEF CommitSucceeds, CommitFails, CommitEnds, Idle
  <1>4. call.blk = b /\ call.op # "load"
    BY <1>1 DEF CommitSucceeds, CommitFails, Progress
  <1>5. call'.op # "load" /\ request' = {} /\ up'
    BY <1>1, <1>3 DEF CommitSucceeds, CommitFails, Store!Succeed, Store!Fail
  <1>6. \A c \in NvBlocks : IsLoaded(c) /\ IsLoaded(c)'
    BY <1>1, <1>4, <1>5 DEF IsLoaded
  <1>7. mirror' = mirror /\ mirror[b] \in Values
    BY <1>6 DEF CommitSucceeds, CommitFails, Known
  <1>8. Store!Applied(r) = [stable EXCEPT ![b] = mirror[b]]
    BY <1>1 DEF Store!Applied, Store!TypeOK
  <1>9. \A c \in NvBlocks : ~InFlight(c)' /\ (c # b => ~InFlight(c))
    BY <1>1, <1>2, <1>5 DEF InFlight
  <1>10. \A c \in NvBlocks : c # b => /\ dirty'[c] = dirty[c]
                                      /\ lastWritten'[c] = lastWritten[c]
                                      /\ stable'[c] = stable[c]
    BY <1>2, <1>8 DEF CommitSucceeds, CommitFails, Store!Succeed, Store!Fail, Store!TypeOK
  <1>11. CASE CommitSucceeds(b)
    <2>1. stable'[b] = mirror[b] /\ lastWritten'[b] = mirror[b] /\ ~dirty'[b]
      BY <1>2, <1>8, <1>11 DEF CommitSucceeds, Store!Succeed, Store!TypeOK
    <2>2. Known(b)' /\ Owed(b)'
      BY <1>7, <1>9, <2>1 DEF Known, Owed, ResetFinds, Loaded
    <2>3. \A c \in NvBlocks : c # b => Known(c)' /\ Owed(c)'
      BY <1>6, <1>7, <1>9, <1>10 DEF Known, Owed, ResetFinds
    <2>. QED  BY <1>5, <2>2, <2>3 DEF Progress
  <1>12. CASE CommitFails(b)
    <2>1. dirty'[b] /\ lastWritten'[b] = lastWritten[b]
          /\ (b \in Sound => stable'[b] = stable[b])
      BY <1>12 DEF CommitFails, Sound
    <2>2. Known(b)' /\ Owed(b)'
      BY <1>1, <1>6, <1>7, <2>1 DEF Known, Owed, InFlight
    <2>3. \A c \in NvBlocks : c # b => Known(c)' /\ Owed(c)'
      BY <1>6, <1>7, <1>9, <1>10 DEF Known, Owed, ResetFinds
    <2>. QED  BY <1>5, <2>2, <2>3 DEF Progress
  <1>. QED  BY <1>11, <1>12

(* A call that begins a commit of b: the mirror is on its way. *)
LEMMA ConsistentCommitStart ==
    ASSUME NvMInv, NEW b \in NvBlocks, NEW op \in {"write", "main", "all"}, 
           call.op # "load", CommitBegins(op, b, mirror'[b]),
           lastWritten' = lastWritten, dirty' = dirty,
           \A c \in NvBlocks : c # b => mirror'[c] = mirror[c],
           mirror'[b] \in Values,
           b \in Sound => mirror'[b] # stable[b] \/ mirror'[b] = Default[b]
    PROVE  Consistent'
  <1>. USE DEF NvMInv, TypeOK, Consistent
  <1>1. /\ up /\ up' /\ stable' = stable /\ request = {}
        /\ request' = {[blks |-> {b}, val |-> mirror'[b]]}
        /\ call' = [op |-> op, blk |-> b] /\ call'.op # "load"
    BY DEF CommitBegins, Store!Submit
  <1>2. Progress'
    BY <1>1 DEF Progress
  <1>3. \A c \in NvBlocks : IsLoaded(c)
    BY <1>1 DEF IsLoaded
  <1>4. \A c \in NvBlocks : c # b => ~InFlight(c) /\ ~InFlight(c)'
    BY <1>1 DEF InFlight
  <1>5. InFlight(b)'
    BY <1>1 DEF InFlight
  <1>6. Known(b)' /\ Owed(b)'
    BY <1>1, <1>3, <1>5 DEF Known, Owed
  <1>7. \A c \in NvBlocks : c # b => Known(c)' /\ Owed(c)'
    BY <1>1, <1>3, <1>4 DEF Known, Owed, ResetFinds
  <1>. QED  BY <1>2, <1>6, <1>7

LEMMA ConsistentWrite ==
    ASSUME NvMInv, NEW b \in NvBlocks, NEW v \in Values, WriteBlock(b, v)
    PROVE  Consistent'
  <1>. USE DEF NvMInv, TypeOK, Consistent
  <1>1. /\ up /\ call.op = "idle" /\ request = {} /\ lastWritten' = lastWritten
        /\ mirror' = [mirror EXCEPT ![b] = v]
    BY DEF WriteBlock, WriteChanged, WriteUnchanged, Ready
  <1>2. \A c \in NvBlocks : IsLoaded(c) /\ ~InFlight(c)
    BY <1>1 DEF IsLoaded, InFlight
  <1>3. b \in Sound => lastWritten[b] = stable[b]
    BY <1>2 DEF Known
  <1>4. CASE WriteChanged(b, v) /\ b \in Immediate
    <2>1. CommitBegins("write", b, mirror'[b]) /\ dirty' = dirty
      BY <1>1, <1>4 DEF WriteChanged
    <2>2. b \in Sound => mirror'[b] # stable[b]
      BY <1>1, <1>3, <1>4 DEF WriteChanged
    <2>. QED  BY <1>1, <2>1, <2>2, ConsistentCommitStart
  <1>5. CASE ~(WriteChanged(b, v) /\ b \in Immediate)
    <2>1. /\ up' /\ stable' = stable /\ request' = {} /\ call' = call
          /\ \A c \in NvBlocks : c # b => dirty'[c] = dirty[c]
          /\ dirty'[b] <=> WriteChanged(b, v)
      BY <1>1, <1>5 DEF WriteBlock, WriteChanged, WriteUnchanged, storeVars
    <2>2. \A c \in NvBlocks : IsLoaded(c)' /\ ~InFlight(c)'
      BY <1>1, <2>1 DEF IsLoaded, InFlight
    <2>3. Known(b)'
      BY <1>1, <1>3, <2>1 DEF Known
    <2>4. Owed(b)'
      <3>1. CASE WriteChanged(b, v)
        BY <1>1, <1>3, <2>1, <2>2, <3>1 DEF Owed, WriteChanged
      <3>2. CASE WriteUnchanged(b, v) /\ ~WriteChanged(b, v)
        BY <1>1, <1>3, <2>1, <2>2, <3>2 DEF Owed, WriteUnchanged, ResetFinds, Loaded
      <3>. QED  BY <3>1, <3>2 DEF WriteBlock
    <2>5. \A c \in NvBlocks : c # b => Known(c)' /\ Owed(c)'
      BY <1>1, <1>2, <2>1, <2>2 DEF Known, Owed, ResetFinds
    <2>6. Progress'
      BY <1>1, <2>1 DEF Progress
    <2>. QED  BY <2>3, <2>4, <2>5, <2>6
  <1>. QED  BY <1>4, <1>5

LEMMA ConsistentRetry ==
    ASSUME NvMInv, NEW b \in NvBlocks, WriteImmediate(b) \/ MainFunction(b)
    PROVE  Consistent'
  <1>. USE DEF NvMInv, TypeOK, Consistent
  <1>1. /\ up /\ call.op = "idle" /\ dirty[b]
        /\ mirror' = mirror /\ dirty' = dirty /\ lastWritten' = lastWritten
        /\ CommitBegins("write", b, mirror'[b]) \/ CommitBegins("main", b, mirror'[b])
    BY DEF WriteImmediate, MainFunction, Ready
  <1>2. mirror[b] \in Values
    BY <1>1 DEF Known, IsLoaded
  <1>3. b \in Sound => mirror[b] # stable[b] \/ mirror[b] = Default[b]
    BY <1>1 DEF Owed
  <1>. QED  BY <1>1, <1>2, <1>3, ConsistentCommitStart

LEMMA ConsistentRestore ==
    ASSUME NvMInv, NEW b \in NvBlocks, RestoreBlockDefaults(b)
    PROVE  Consistent'
  <1>. USE DEF NvMInv, TypeOK, Consistent
  <1>1. /\ up /\ up' /\ call.op = "idle" /\ call' = call
        /\ request = {} /\ request' = {} /\ stable' = stable
        /\ lastWritten' = lastWritten
        /\ mirror' = [mirror EXCEPT ![b] = Default[b]]
        /\ dirty' = [dirty EXCEPT ![b] = TRUE]
    BY DEF RestoreBlockDefaults, Ready, storeVars
  <1>2. \A c \in NvBlocks : IsLoaded(c) /\ ~InFlight(c) /\ ~InFlight(c)'
    BY <1>1 DEF IsLoaded, InFlight
  <1>3. Known(b)' /\ Owed(b)'
    BY <1>1, <1>2, DefaultImage DEF Known, Owed
  <1>4. \A c \in NvBlocks : c # b => Known(c)' /\ Owed(c)'
    BY <1>1, <1>2 DEF Known, Owed, ResetFinds
  <1>5. Progress'
    BY <1>1 DEF Progress
  <1>. QED  BY <1>3, <1>4, <1>5

(* Only the call changes, and it is not loading. *)
LEMMA ConsistentMoves ==
    ASSUME NvMInv, call.op # "load", call'.op \in Operations \ {"load"},
           call.op # "idle" \/ up, request = {},
           UNCHANGED <<storeVars, mirror, dirty, lastWritten>>
    PROVE  Consistent'
  <1>. USE DEF NvMInv, TypeOK, Consistent, storeVars
  <1>1. up /\ up' /\ request' = {}
    BY DEF Progress
  <1>2. Progress'
    BY <1>1 DEF Progress
  <1>3. \A c \in NvBlocks : IsLoaded(c) /\ ~InFlight(c) /\ ~InFlight(c)'
    BY <1>1 DEF IsLoaded, InFlight
  <1>4. \A c \in NvBlocks : Known(c)' /\ Owed(c)'
    BY <1>3 DEF Known, Owed, ResetFinds
  <1>. QED  BY <1>2, <1>4

LEMMA ConsistentWriteAll ==
    ASSUME NvMInv, WriteAll \/ WriteAllNext
    PROVE  Consistent'
  <1>. USE DEF NvMInv, TypeOK, Consistent
  <1>1. CASE WriteAll
    BY <1>1, ConsistentMoves DEF WriteAll, Ready, Operations
  <1>2. CASE WriteAllNext /\ dirty[call.blk]
    <2>1. /\ call.op = "all" /\ up /\ call.blk \in NvBlocks
          /\ mirror' = mirror /\ dirty' = dirty /\ lastWritten' = lastWritten
          /\ CommitBegins("all", call.blk, mirror'[call.blk])
      BY <1>2 DEF WriteAllNext, Progress
    <2>2. mirror[call.blk] \in Values
      BY <2>1 DEF Known, IsLoaded
    <2>3. call.blk \in Sound =>
              mirror[call.blk] # stable[call.blk] \/ mirror[call.blk] = Default[call.blk]
      BY <1>2, <2>1 DEF Owed
    <2>. QED  BY <2>1, <2>2, <2>3, ConsistentCommitStart
  <1>3. CASE WriteAllNext /\ ~dirty[call.blk]
    <2>1. [call EXCEPT !.blk = @ + 1].op = call.op
      OBVIOUS
    <2>2. call.op = "all" /\ call'.op \in {"all", "idle"}
      BY <1>3, <2>1 DEF WriteAllNext, CommitEnds, Idle
    <2>. QED
      BY <1>3, <2>2, ConsistentMoves DEF WriteAllNext, Operations
  <1>. QED  BY <1>1, <1>2, <1>3

LEMMA ConsistentEnvironment ==
    ASSUME NvMInv, Environment
    PROVE  Consistent'
  <1>. USE DEF NvMInv, TypeOK, Consistent
  <1>1. CASE PowerLoss
    BY <1>1 DEF PowerLoss, Store!PowerLoss, Progress, Known, Owed, IsLoaded, InFlight,
        Idle, Clean
  <1>2. ASSUME NEW b \in NvBlocks, Decay(b)
        PROVE  Consistent'
    <2>1. /\ b \notin Sound /\ UNCHANGED <<up, request, nvmVars>>
          /\ \A c \in NvBlocks : c # b => stable'[c] = stable[c]
      BY <1>2 DEF Decay, Store!Decay, Store!TypeOK, Sound
    <2>2. \A c \in NvBlocks : /\ IsLoaded(c)' <=> IsLoaded(c)
                              /\ InFlight(c)' <=> InFlight(c)
      BY <2>1 DEF IsLoaded, InFlight, nvmVars
    <2>3. \A c \in NvBlocks : Known(c)' /\ Owed(c)'
      BY <2>1, <2>2 DEF Known, Owed, ResetFinds, nvmVars
    <2>4. Progress'
      BY <2>1 DEF Progress, nvmVars
    <2>. QED  BY <2>3, <2>4
  <1>. QED  BY <1>1, <1>2 DEF Environment

LEMMA ConsistentStep ==
    ASSUME NvMInv, [Next]_vars
    PROVE  Consistent'
  <1>1. CASE Start
    BY <1>1, ConsistentStart
  <1>2. CASE Calls
    BY <1>2, ConsistentWrite, ConsistentRetry, ConsistentRestore, ConsistentWriteAll
    DEF Calls
  <1>3. CASE Cyclic
    BY <1>3, ConsistentRetry DEF Cyclic
  <1>4. CASE Work
    BY <1>4, ConsistentLoad, ConsistentEnd, ConsistentWriteAll DEF Work
  <1>5. CASE Environment
    BY <1>5, ConsistentEnvironment
  <1>6. CASE UNCHANGED vars
    BY <1>6 DEF vars, storeVars, nvmVars, NvMInv, Consistent, Progress, Known, Owed,
        IsLoaded, InFlight, ResetFinds
  <1>. QED  BY <1>1, <1>2, <1>3, <1>4, <1>5, <1>6 DEF Next

LEMMA Invariance == Spec => []NvMInv
  <1>1. Init => NvMInv
    BY TypeInit, ConsistentInit DEF NvMInv
  <1>2. NvMInv /\ [Next]_vars => NvMInv'
    BY TypeStep, ConsistentStep DEF NvMInv
  <1>. QED  BY <1>1, <1>2, PTL DEF Spec

-----------------------------------------------------------------------------
(* A sound block that owes no write reads after a reset as it reads now:   *)
(* no acknowledged write, and no write dropped as unchanged, is lost, by   *)
(* any sequence of calls, failures and supply losses (NvM.c).              *)
THEOREM AcknowledgedIsStored == Spec => []CleanMeansStored
  <1>1. NvMInv => CleanMeansStored
    BY DEF NvMInv, Consistent, Owed, Sound, CleanMeansStored
  <1>. QED  BY <1>1, Invariance, PTL

(* Write-on-change holds on every path: nothing but a restored default is  *)
(* ever written over itself (NvM_Commit and its callers).                  *)
THEOREM WriteOnChange == Spec => []NoUnchangedCommit
  <1>1. ASSUME NvMInv, NEW b \in NvBlocks \ (Fragile \cup Lands), NEW r \in request,
               b \in r.blks, r.val = stable[b]
        PROVE  r.val = Default[b]
    <2>1. b = call.blk /\ r.val = mirror[b] /\ InFlight(b)
      BY <1>1 DEF NvMInv, Consistent, Progress, InFlight
    <2>. QED  BY <1>1, <2>1 DEF NvMInv, Consistent, Owed, Sound
  <1>2. NvMInv => NoUnchangedCommit
    BY <1>1 DEF NoUnchangedCommit
  <1>. QED  BY <1>2, Invariance, PTL
=============================================================================
