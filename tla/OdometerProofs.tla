----------------------------- MODULE OdometerProofs -----------------------------
(***************************************************************************)
(* Theorems about Odometer.tla for every value of its constants: the       *)
(* odometer drives NvM only by its calls, and the reading that survives a  *)
(* reset never goes down and never runs ahead of the distance driven.      *)
(***************************************************************************)
EXTENDS Odometer, NvMProofs

(* Only these two blocks hold odometer data. *)
Used == {Odo, Cal}

(* The images have the form their owners expect. *)
Formed ==
    \A b \in Used :
        /\ stable[b] \in BlockImages[b] \cup {Absent}
        /\ IsLoaded(b) => mirror[b] \in BlockImages[b]

(* From the flash over the mirror to the total, the reading only grows.    *)
Behind ==
    Odo \notin Fragile =>
        /\ IsLoaded(Odo) => Stored(stable[Odo]) <= mirror[Odo].total
        /\ running => mirror[Odo].total <= total

OdoInv ==
    /\ NvMInv
    /\ OdoTypeOK
    /\ running => up /\ call.op # "load"
    /\ Formed
    /\ Behind

LEMMA UsedImages ==
    /\ Used \subseteq NvBlocks
    /\ BlockImages[Odo] = Readings /\ BlockImages[Cal] = Calibrations
    /\ \A b \in Used : BlockImages[b] \subseteq Values /\ Default[b] \in BlockImages[b]
    /\ Absent \notin Values
  BY OdoAssumption, ConstantsAssumption DEF Used, BlockImages

LEMMA ReadingTypes ==
    /\ \A r \in Readings : r.total \in 0 .. MaxTotal /\ r.count \in 0 .. CountMod - 1
    /\ \A c \in Calibrations : c.factor \in Factors
    /\ MaxTotal \in Nat /\ Absent \notin Readings
  BY OdoAssumption, ConstantsAssumption DEF Readings, Calibrations

LEMMA RunningLoaded ==
    ASSUME OdoInv, running, NEW b \in Used
    PROVE  IsLoaded(b) /\ mirror[b] \in BlockImages[b]
  BY DEF OdoInv, IsLoaded, Formed

LEMMA NewReading ==
    ASSUME OdoInv, running
    PROVE  Reading \in Readings /\ Reading.total = total /\ Reading \in Values
  <1>1. mirror[Odo].count \in Nat
    BY RunningLoaded, UsedImages, ReadingTypes DEF Used
  <1>2. (mirror[Odo].count + 1) % CountMod \in 0 .. CountMod - 1
    BY <1>1, OdoAssumption
  <1>. QED
    BY <1>2, OdoAssumption DEF Reading, Readings, OdoInv, OdoTypeOK

-----------------------------------------------------------------------------
(* The odometer is a caller of NvM: each of its steps is a step of NvM, or *)
(* leaves it alone.                                                        *)
LEMMA StepIsNvM ==
    ASSUME OdoInv, [OdoNext]_allVars
    PROVE  [Next]_vars
  <1>1. ASSUME NEW b \in NvBlocks, NEW v \in Values, WriteBlock(b, v)
        PROVE  Next
    BY <1>1 DEF Next, Calls
  <1>2. CASE OdoInit \/ \E rpm \in Speeds, dt \in 0 .. MaxGap + 1 : ProcessSpeedSample(rpm, dt)
    BY <1>2 DEF OdoInit, ProcessSpeedSample
  <1>3. CASE Commit
    BY <1>1, <1>3, NewReading, OdoAssumption DEF Commit
  <1>4. ASSUME NEW elapsed \in BOOLEAN, OdoMainFunction(elapsed)
        PROVE  [Next]_vars
    BY <1>3, <1>4 DEF OdoMainFunction
  <1>5. CASE CommitAnswered
    BY <1>5, OdoAssumption DEF CommitAnswered, Next, Work
  <1>6. CASE Persist
    BY <1>3, <1>6 DEF Persist
  <1>7. ASSUME NEW f \in Factors, SetCalibration(f)
        PROVE  Next
    <2>1. [factor |-> f] \in Values
      BY OdoAssumption DEF Calibrations
    <2>. QED  BY <1>1, <1>7, <2>1, OdoAssumption DEF SetCalibration
  <1>8. CASE NvMStep
    BY <1>8, OdoAssumption DEF NvMStep, Next, Work
  <1>9. CASE Reset \/ Spoil
    BY <1>9 DEF Reset, Spoil, Next, Environment
  <1>10. CASE UNCHANGED allVars
    BY <1>10 DEF allVars
  <1>. QED
    BY <1>2, <1>4, <1>5, <1>6, <1>7, <1>8, <1>9, <1>10 DEF OdoNext

-----------------------------------------------------------------------------
(* What a step does to the flash and to the mirrors. *)
LEMMA FlashMoves ==
    ASSUME OdoInv, [OdoNext]_allVars, NEW b \in Used
    PROVE  \/ stable'[b] = stable[b]
           \/ IsLoaded(b) /\ stable'[b] = mirror[b]
           \/ b \in Fragile /\ stable'[b] \in BlockImages[b] \cup {Absent}
  <1>. USE DEF OdoInv, NvMInv, TypeOK, Store!TypeOK
  <1>1. b \in NvBlocks
    BY UsedImages
  <1>2. ASSUME NEW r \in request
        PROVE  /\ Store!Applied(r)[b] \in {stable[b], mirror[b]}
               /\ Store!Applied(r)[b] # stable[b] => Store!Applied(r)[b] = mirror[b] /\ IsLoaded(b)
    <2>1. up /\ r = [blks |-> {call.blk}, val |-> mirror[call.blk]]
      BY DEF Consistent, Progress
    <2>2. call.op # "load"
      BY DEF Consistent, Progress
    <2>. QED  BY <1>1, <2>1, <2>2 DEF Store!Applied, IsLoaded
  <1>3. CASE Store!Succeed \/ Store!Fail \/ Store!PowerLoss
    BY <1>2, <1>3 DEF Store!Succeed, Store!Fail, Store!PowerLoss
  <1>4. CASE stable' = stable
    BY <1>4
  <1>5. CASE Spoil
    <2>1. PICK c \in NvBlocks : Decay(c) /\ stable'[c] \in BlockImages[c] \cup {Absent}
      BY <1>5 DEF Spoil
    <2>. QED  BY <1>1, <2>1 DEF Decay, Store!Decay
  <1>6. \/ Store!Succeed \/ Store!Fail \/ Store!PowerLoss \/ stable' = stable \/ Spoil
    <2>1. CASE OdoInit \/ \E rpm \in Speeds, dt \in 0 .. MaxGap + 1 : ProcessSpeedSample(rpm, dt)
      BY <2>1 DEF OdoInit, ProcessSpeedSample, vars, storeVars
    <2>2. ASSUME NEW c, NEW v, WriteBlock(c, v)
          PROVE  stable' = stable
      BY <2>2 DEF WriteBlock, WriteChanged, WriteUnchanged, CommitBegins, Store!Submit, storeVars
    <2>3. CASE (\E elapsed \in BOOLEAN : OdoMainFunction(elapsed)) \/ Persist
               \/ \E f \in Factors : SetCalibration(f)
      BY <2>2, <2>3 DEF OdoMainFunction, Persist, Commit, SetCalibration, vars, storeVars
    <2>4. CASE CommitAnswered
      BY <2>4 DEF CommitAnswered, CommitSucceeds
    <2>5. CASE NvMStep
      BY <2>5 DEF NvMStep, Start, Store!Mount, Cyclic, MainFunction, CommitBegins, Store!Submit,
          CommitSucceeds, Load, Store!Read, LoadFails, Store!Maintain, CommitFails
    <2>6. CASE Reset \/ UNCHANGED allVars
      BY <2>6 DEF Reset, PowerLoss, allVars, vars, storeVars
    <2>. QED  BY <2>1, <2>3, <2>4, <2>5, <2>6 DEF OdoNext
  <1>. QED  BY <1>3, <1>4, <1>5, <1>6

LEMMA MirrorMoves ==
    ASSUME OdoInv, [OdoNext]_allVars, NEW b \in Used, IsLoaded(b)'
    PROVE  \/ IsLoaded(b) /\ mirror'[b] = mirror[b]
           \/ stable' = stable /\ mirror'[b] = ResetFinds(b) /\ UNCHANGED <<running, total>>
           \/ b \in Fragile /\ stable' = stable /\ mirror'[b] = Default[b]
           \/ /\ stable' = stable /\ running /\ UNCHANGED <<running, total>>
              /\ \/ b = Odo /\ mirror'[b] = Reading
                 \/ b = Cal /\ \E f \in Factors : mirror'[b] = [factor |-> f]
  <1>. USE DEF OdoInv, NvMInv, TypeOK, Store!TypeOK
  <1>1. b \in NvBlocks /\ Odo \in NvBlocks /\ Cal \in NvBlocks /\ Odo # Cal
    BY UsedImages, OdoAssumption DEF Used
  <1>2. CASE UNCHANGED <<up, call, mirror>>
    BY <1>2 DEF IsLoaded
  <1>3. ASSUME NEW c \in NvBlocks, NEW v, WriteBlock(c, v)
        PROVE  /\ stable' = stable /\ IsLoaded(b)
               /\ mirror'[b] = IF c = b THEN v ELSE mirror[b]
    BY <1>1, <1>3
    DEF WriteBlock, WriteChanged, WriteUnchanged, CommitBegins, Store!Submit, storeVars,
        IsLoaded, Ready
  <1>4. CASE OdoInit \/ \E rpm \in Speeds, dt \in 0 .. MaxGap + 1 : ProcessSpeedSample(rpm, dt)
    BY <1>2, <1>4 DEF OdoInit, ProcessSpeedSample, vars, nvmVars, storeVars
  <1>5. CASE Commit /\ UNCHANGED <<running, total>>
    BY <1>1, <1>3, <1>5 DEF Commit
  <1>6. ASSUME NEW elapsed \in BOOLEAN, OdoMainFunction(elapsed)
        PROVE  UNCHANGED <<up, call, mirror>> \/ (Commit /\ UNCHANGED <<running, total>>)
    BY <1>6 DEF OdoMainFunction, vars, nvmVars, storeVars
  <1>7. ASSUME NEW f \in Factors, SetCalibration(f)
        PROVE  \/ IsLoaded(b) /\ mirror'[b] = mirror[b]
               \/ /\ stable' = stable /\ running /\ UNCHANGED <<running, total>>
                  /\ b = Cal /\ mirror'[b] = [factor |-> f]
    BY <1>1, <1>3, <1>7 DEF SetCalibration
  <1>8. ASSUME NEW c \in NvBlocks, CommitSucceeds(c) \/ CommitFails(c)
        PROVE  IsLoaded(b) /\ mirror'[b] = mirror[b]
    <2>1. up /\ call.op # "load" /\ mirror' = mirror
      BY <1>8 DEF CommitSucceeds, CommitFails, Store!Succeed, Store!Fail, Consistent, Progress
    <2>. QED  BY <2>1 DEF IsLoaded
  <1>9. CASE CommitAnswered
    BY <1>1, <1>8, <1>9 DEF CommitAnswered
  <1>10. CASE NvMStep
    <2>1. CASE Start
      BY <1>1, <2>1 DEF Start, IsLoaded, NvBlocks
    <2>2. CASE Cyclic
      BY <2>2 DEF Cyclic, MainFunction, CommitBegins, Store!Submit, Ready, IsLoaded
    <2>3. ASSUME NEW c \in NvBlocks, Load(c) \/ LoadFails(c), c # b
          PROVE  IsLoaded(b) /\ mirror'[b] = mirror[b]
      <3>1. up /\ up' /\ call = [op |-> "load", blk |-> c] /\ mirror'[b] = mirror[b]
        BY <1>1, <2>3 DEF Load, LoadFails, Store!Read, Store!Maintain, Consistent, Progress
      <3>2. CASE c < NBlocks
        BY <1>1, <2>3, <3>1, <3>2, ConstantsAssumption
        DEF Load, LoadFails, LoadNext, IsLoaded, NvBlocks
      <3>3. CASE ~(c < NBlocks)
        BY <1>1, <2>3, <3>1, <3>3, ConstantsAssumption DEF IsLoaded, NvBlocks
      <3>. QED  BY <3>1, <3>2, <3>3
    <2>4. CASE Load(b)
      <3>1. CASE reply' = Store!Answer(stable[b])
        BY <1>1, <1>10, <2>4, <3>1
        DEF Load, Store!Read, Store!Answer, ResetFinds, NvMStep, odoVars
      <3>2. CASE stable[b] = Absent /\ reply' = Store!Answer(Damaged)
        BY <1>1, <1>10, <2>4, <3>2, ConstantsAssumption
        DEF Load, Store!Read, Store!Answer, ResetFinds, Loaded, NvMStep, odoVars
      <3>. QED  BY <2>4, <3>1, <3>2 DEF Load, Store!Read
    <2>5. CASE LoadFails(b)
      BY <1>1, <2>5 DEF LoadFails, Store!Maintain
    <2>6. CASE CommitSucceeds(Cal) \/ \E c \in NvBlocks : CommitFails(c)
      BY <1>1, <1>8, <2>6
    <2>. QED  BY <1>10, <2>1, <2>2, <2>3, <2>4, <2>5, <2>6 DEF NvMStep
  <1>11. CASE Reset
    BY <1>11 DEF Reset, PowerLoss, Store!PowerLoss, IsLoaded
  <1>12. CASE Spoil \/ UNCHANGED allVars
    BY <1>2, <1>12 DEF Spoil, Decay, Store!Decay, allVars, vars, storeVars, nvmVars
  <1>13. CASE Persist
    BY <1>5, <1>13 DEF Persist
  <1>. QED
    BY <1>2, <1>4, <1>5, <1>6, <1>7, <1>9, <1>10, <1>11, <1>12, <1>13 DEF OdoNext

-----------------------------------------------------------------------------
(* The invariant is inductive.                                             *)
LEMMA InvInit == OdoStarts => OdoInv
  <1>. SUFFICES ASSUME OdoStarts PROVE OdoInv
    OBVIOUS
  <1>1. NvMInv
    BY TypeInit, ConsistentInit DEF OdoStarts, NvMInv
  <1>2. ~up /\ \A b \in NvBlocks : stable[b] = Absent
    BY DEF OdoStarts, Init, Store!Init
  <1>3. Default[Cal].factor \in Factors
    BY OdoAssumption, ReadingTypes
  <1>4. OdoTypeOK
    <2>1. /\ 0 \in 0 .. MaxTotal /\ 0 \in 0 .. MaxLag /\ 0 \in 0 .. MaxGap + 1
          /\ 0 \in 0 .. Scale - 1 /\ 0 \in Speeds
      BY OdoAssumption
    <2>. QED  BY <1>1, <1>3, <2>1 DEF NvMInv, OdoStarts, OdoTypeOK
  <1>5. Formed /\ Behind
    BY <1>2, UsedImages DEF Formed, Behind, IsLoaded, OdoStarts
  <1>. QED  BY <1>1, <1>4, <1>5 DEF OdoInv, OdoStarts

LEMMA FormedStep ==
    ASSUME OdoInv, [OdoNext]_allVars
    PROVE  Formed'
  <1>1. ASSUME NEW b \in Used
        PROVE  stable'[b] \in BlockImages[b] \cup {Absent}
    BY FlashMoves DEF OdoInv, Formed
  <1>2. ASSUME NEW b \in Used, IsLoaded(b)'
        PROVE  mirror'[b] \in BlockImages[b]
    <2>1. CASE IsLoaded(b) /\ mirror'[b] = mirror[b]
      BY <2>1 DEF OdoInv, Formed
    <2>2. CASE mirror'[b] = ResetFinds(b)
      BY <2>2, UsedImages DEF OdoInv, Formed, ResetFinds, Loaded
    <2>3. CASE mirror'[b] = Default[b]
      BY <2>3, UsedImages
    <2>4. CASE running /\ b = Odo /\ mirror'[b] = Reading
      BY <2>4, NewReading, UsedImages
    <2>5. CASE b = Cal /\ \E f \in Factors : mirror'[b] = [factor |-> f]
      BY <2>5, UsedImages DEF Calibrations
    <2>. QED  BY <1>2, <2>1, <2>2, <2>3, <2>4, <2>5, MirrorMoves
  <1>. QED  BY <1>1, <1>2 DEF Formed

LEMMA RunningStep ==
    ASSUME OdoInv, [OdoNext]_allVars, running'
    PROVE  up' /\ call'.op # "load"
  <1>. USE DEF OdoInv, NvMInv, TypeOK
  <1>1. ASSUME NEW c, NEW v, WriteBlock(c, v)
        PROVE  up' /\ call'.op # "load"
    BY <1>1 DEF WriteBlock, WriteChanged, WriteUnchanged, CommitBegins, Store!Submit,
        storeVars, Ready
  <1>2. CASE OdoInit \/ \E rpm \in Speeds, dt \in 0 .. MaxGap + 1 : ProcessSpeedSample(rpm, dt)
    BY <1>2 DEF OdoInit, ProcessSpeedSample, vars, nvmVars, storeVars, Ready
  <1>3. CASE Persist \/ (\E f \in Factors : SetCalibration(f))
             \/ \E elapsed \in BOOLEAN : OdoMainFunction(elapsed)
    BY <1>1, <1>3 DEF Persist, Commit, SetCalibration, OdoMainFunction, Ready, vars,
        nvmVars, storeVars
  <1>4. ASSUME NEW c \in NvBlocks, CommitSucceeds(c) \/ CommitFails(c)
        PROVE  up' /\ call'.op # "load"
    <2>1. up /\ up' /\ call.op # "load"
      BY <1>4 DEF CommitSucceeds, CommitFails, Store!Succeed, Store!Fail, Consistent, Progress
    <2>2. [call EXCEPT !.blk = @ + 1].op = call.op
      OBVIOUS
    <2>. QED  BY <1>4, <2>1, <2>2 DEF CommitSucceeds, CommitFails, CommitEnds, Idle
  <1>5. CASE CommitAnswered
    BY <1>4, <1>5, OdoAssumption DEF CommitAnswered
  <1>6. CASE NvMStep
    <2>1. running /\ up /\ call.op # "load"
      BY <1>6 DEF NvMStep, odoVars
    <2>2. ~Start /\ \A b \in NvBlocks : ~Load(b) /\ ~LoadFails(b)
      BY <2>1 DEF Start, Store!Mount, Load, LoadFails
    <2>3. CASE Cyclic
      BY <2>3 DEF Cyclic, MainFunction, CommitBegins, Store!Submit, Ready
    <2>. QED  BY <1>4, <1>6, <2>2, <2>3, OdoAssumption DEF NvMStep
  <1>7. ~Reset
    BY DEF Reset
  <1>8. CASE Spoil \/ UNCHANGED allVars
    BY <1>8 DEF Spoil, Decay, Store!Decay, odoVars, allVars, vars, storeVars, nvmVars
  <1>. QED  BY <1>2, <1>3, <1>5, <1>6, <1>7, <1>8 DEF OdoNext

(* The total moves by integration and at start-up only. *)
LEMMA TotalMoves ==
    ASSUME OdoInv, [OdoNext]_allVars, running'
    PROVE  /\ total' \in 0 .. MaxTotal
           /\ \/ running /\ total <= total'
              \/ total' = mirror[Odo].total /\ IsLoaded(Odo)
  <1>. USE DEF OdoInv, OdoTypeOK
  <1>1. CASE UNCHANGED <<running, total>>
    BY <1>1, ReadingTypes
  <1>2. CASE OdoInit
    <2>1. IsLoaded(Odo) /\ mirror[Odo] \in Readings
      BY <1>2, UsedImages DEF OdoInit, Ready, IsLoaded, Formed, Used
    <2>. QED  BY <1>2, <2>1, ReadingTypes DEF OdoInit
  <1>3. ASSUME NEW rpm \in Speeds, NEW dt \in 0 .. MaxGap + 1, ProcessSpeedSample(rpm, dt)
        PROVE  running /\ total' \in 0 .. MaxTotal /\ total <= total'
    <2>1. CASE NotIntegrated(rpm, dt)
      BY <1>3, <2>1, ReadingTypes DEF NotIntegrated, ProcessSpeedSample
    <2>2. CASE Integrated(rpm, dt)
      <3>1. Elapsed(dt) \in Nat /\ lastRpm + rpm \in Nat /\ factor \in Nat /\ fraction \in Nat
        BY <2>2, OdoAssumption DEF Integrated
      <3>2. (lastRpm + rpm) * Elapsed(dt) * factor \in Nat
        <4>1. (lastRpm + rpm) * Elapsed(dt) \in Nat
          BY <3>1
        <4>. QED  BY <3>1, <4>1
      <3>. DEFINE acc == fraction + (lastRpm + rpm) * Elapsed(dt) * factor
      <3>3. acc \in Nat
        BY <3>1, <3>2
      <3>4. total' = total + acc \div Scale /\ total + acc \div Scale <= MaxTotal
        BY <2>2 DEF Integrated
      <3>. HIDE DEF acc
      <3>5. acc \div Scale \in Nat
        BY <3>3, OdoAssumption
      <3>. QED  BY <1>3, <3>4, <3>5, ReadingTypes DEF ProcessSpeedSample
    <2>. QED  BY <1>3, <2>1, <2>2 DEF ProcessSpeedSample
  <1>4. CASE CommitAnswered \/ NvMStep \/ Reset \/ Spoil \/ UNCHANGED allVars
             \/ Persist \/ (\E f \in Factors : SetCalibration(f))
             \/ \E elapsed \in BOOLEAN : OdoMainFunction(elapsed)
    BY <1>1, <1>4 DEF CommitAnswered, NvMStep, Reset, Spoil, Persist, SetCalibration,
        OdoMainFunction, odoVars, allVars
  <1>. QED  BY <1>2, <1>3, <1>4 DEF OdoNext

LEMMA OdoTypeStep ==
    ASSUME OdoInv, [OdoNext]_allVars
    PROVE  OdoTypeOK'
  <1>. USE DEF OdoInv, OdoTypeOK
  <1>1. TypeOK'
    BY StepIsNvM, TypeStep
  <1>2. /\ 0 \in 0 .. MaxTotal /\ 0 \in 0 .. MaxLag /\ 0 \in 0 .. MaxGap + 1
        /\ 0 \in 0 .. Scale - 1 /\ 0 \in Speeds /\ Default[Cal].factor \in Factors
    BY OdoAssumption, ReadingTypes
  <1>3. CASE OdoInit
    <2>1. mirror[Odo] \in Readings /\ mirror[Cal] \in Calibrations
      BY <1>3, UsedImages DEF OdoInit, Ready, IsLoaded, Formed, Used
    <2>. QED  BY <1>1, <1>2, <1>3, <2>1, ReadingTypes DEF OdoInit
  <1>4. ASSUME NEW rpm \in Speeds, NEW dt \in 0 .. MaxGap + 1, ProcessSpeedSample(rpm, dt)
        PROVE  OdoTypeOK'
    <2>1. total' \in 0 .. MaxTotal
      BY <1>4, TotalMoves DEF ProcessSpeedSample
    <2>2. lag' \in 0 .. MaxLag
      BY <1>4, OdoAssumption DEF ProcessSpeedSample
    <2>3. Elapsed(dt) \in 0 .. MaxGap + 1
      BY <1>4, OdoAssumption DEF Elapsed
    <2>4. haveLast' \in BOOLEAN /\ lastRpm' \in Speeds /\ since' \in 0 .. MaxGap + 1
      BY <1>2, <1>4, <2>3 DEF ProcessSpeedSample, NotIntegrated, Integrated
    <2>5. fraction' \in 0 .. Scale - 1
      <3>1. CASE NotIntegrated(rpm, dt)
        BY <3>1 DEF NotIntegrated
      <3>2. CASE Integrated(rpm, dt)
        <4>. DEFINE acc == fraction + (lastRpm + rpm) * Elapsed(dt) * factor
        <4>1. acc \in Nat
          <5>1. Elapsed(dt) \in Nat /\ lastRpm + rpm \in Nat /\ factor \in Nat /\ fraction \in Nat
            BY <1>4, <2>3, OdoAssumption
          <5>2. (lastRpm + rpm) * Elapsed(dt) \in Nat
            BY <5>1
          <5>3. (lastRpm + rpm) * Elapsed(dt) * factor \in Nat
            BY <5>1, <5>2
          <5>. QED  BY <5>1, <5>3
        <4>2. fraction' = acc % Scale
          BY <3>2 DEF Integrated
        <4>. HIDE DEF acc
        <4>. QED  BY <4>1, <4>2, OdoAssumption
      <3>. QED  BY <1>4, <3>1, <3>2 DEF ProcessSpeedSample
    <2>. QED  BY <1>1, <1>4, <2>1, <2>2, <2>4, <2>5 DEF ProcessSpeedSample
  <1>5. CASE Commit /\ UNCHANGED <<running, total, fraction, factor, sampling>> /\ lag' \in {0, lag}
    BY <1>1, <1>2, <1>5 DEF Commit, sampling
  <1>6. CASE Persist \/ \E elapsed \in BOOLEAN : OdoMainFunction(elapsed)
    BY <1>1, <1>2, <1>5, <1>6 DEF Persist, OdoMainFunction, sampling
  <1>7. ASSUME NEW f \in Factors, SetCalibration(f)
        PROVE  OdoTypeOK'
    BY <1>1, <1>2, <1>7 DEF SetCalibration
  <1>8. CASE CommitAnswered
    BY <1>1, <1>8 DEF CommitAnswered, sampling
  <1>9. CASE NvMStep \/ Spoil \/ UNCHANGED allVars
    BY <1>1, <1>9 DEF NvMStep, Spoil, odoVars, allVars, sampling
  <1>10. CASE Reset
    BY <1>1, <1>2, <1>10 DEF Reset
  <1>. QED
    BY <1>3, <1>4, <1>6, <1>7, <1>8, <1>9, <1>10 DEF OdoNext

LEMMA BehindStep ==
    ASSUME OdoInv, [OdoNext]_allVars
    PROVE  Behind'
  <1>. SUFFICES ASSUME Odo \notin Fragile
                PROVE  /\ IsLoaded(Odo)' => Stored(stable'[Odo]) <= mirror'[Odo].total
                       /\ running' => mirror'[Odo].total <= total'
    BY DEF Behind
  <1>. USE DEF OdoInv
  <1>1. Odo \in Used
    BY DEF Used
  <1>2. /\ Default[Odo].total = 0 /\ Default[Odo] \in Readings
        /\ \A r \in Readings : r.total \in Nat
        /\ stable[Odo] \in Readings \cup {Absent} /\ Absent \notin Readings
        /\ IsLoaded(Odo) => mirror[Odo] \in Readings
    BY <1>1, OdoAssumption, UsedImages, ReadingTypes DEF Formed
  <1>3. ResetFinds(Odo).total = Stored(stable[Odo])
    BY <1>2, UsedImages, <1>1 DEF ResetFinds, Loaded, Stored
  <1>4. \/ stable'[Odo] = stable[Odo]
        \/ IsLoaded(Odo) /\ stable'[Odo] = mirror[Odo]
    BY <1>1, FlashMoves
  <1>5. IsLoaded(Odo) => Stored(stable'[Odo]) <= mirror[Odo].total
    BY <1>2, <1>4 DEF Behind, Stored
  <1>6. \/ ~IsLoaded(Odo)'
        \/ IsLoaded(Odo) /\ mirror'[Odo] = mirror[Odo]
        \/ stable' = stable /\ mirror'[Odo] = ResetFinds(Odo) /\ UNCHANGED <<running, total>>
        \/ stable' = stable /\ running /\ UNCHANGED <<running, total>> /\ mirror'[Odo] = Reading
    BY <1>1, MirrorMoves, OdoAssumption
  <1>7. running => /\ IsLoaded(Odo) /\ Reading.total = total /\ total \in Nat
                   /\ Stored(stable[Odo]) <= total
    BY <1>1, <1>2, RunningLoaded, NewReading DEF OdoTypeOK, Behind, Stored
  <1>8. Stored(stable[Odo]) \in Nat
    BY <1>2 DEF Stored
  <1>9. IsLoaded(Odo)' => Stored(stable'[Odo]) <= mirror'[Odo].total
    BY <1>3, <1>5, <1>6, <1>7, <1>8
  <1>10. ASSUME running'
         PROVE  mirror'[Odo].total <= total'
    <2>1. IsLoaded(Odo)'
      BY <1>10, RunningStep DEF IsLoaded
    <2>2. \/ running /\ total <= total' /\ total' \in Nat
          \/ total' = mirror[Odo].total /\ IsLoaded(Odo)
      BY <1>10, TotalMoves
    <2>3. CASE IsLoaded(Odo) /\ mirror'[Odo] = mirror[Odo]
      BY <1>2, <1>7, <2>2, <2>3 DEF Behind
    <2>4. CASE running /\ UNCHANGED <<running, total>> /\ mirror'[Odo].total \in {total, Stored(stable[Odo])}
      BY <1>7, <1>8, <2>4
    <2>. QED  BY <1>3, <1>6, <1>7, <1>10, <2>1, <2>3, <2>4
  <1>. QED  BY <1>9, <1>10

LEMMA OdoInvariance == OdoSpec => []OdoInv
  <1>1. OdoInv /\ [OdoNext]_allVars => OdoInv'
    <2>. SUFFICES ASSUME OdoInv, [OdoNext]_allVars PROVE OdoInv'
      OBVIOUS
    <2>1. NvMInv'
      BY StepIsNvM, TypeStep, ConsistentStep DEF OdoInv, NvMInv
    <2>. QED  BY <2>1, FormedStep, RunningStep, OdoTypeStep, BehindStep DEF OdoInv
  <1>. QED  BY <1>1, InvInit, PTL DEF OdoSpec

-----------------------------------------------------------------------------
(* The odometer's variables keep their types and the total stays a number  *)
(* the block can hold (OdoSwc.c).                                          *)
THEOREM OdoTypeCorrect == OdoSpec => []OdoTypeOK
  BY OdoInvariance, PTL DEF OdoInv

(* Whatever the odometer does is a behaviour of NvM, so NvM's theorems     *)
(* hold under it (OdoSwc.c uses NvM by its calls alone).                   *)
THEOREM OdometerUsesNvM == OdoSpec => Spec
  <1>1. OdoStarts => Init
    BY DEF OdoStarts
  <1>2. OdoInv /\ [OdoNext]_allVars => [Next]_vars
    BY StepIsNvM
  <1>. QED  BY <1>1, <1>2, OdoInvariance, PTL DEF OdoSpec, Spec

(* On media that keep the odometer's records, its reading in the flash     *)
(* never goes down (OdoSwc_Commit, NvM's retries, OdoSwc_Init).            *)
THEOREM ReadingGrows ==
    ASSUME Odo \notin Fragile
    PROVE  OdoSpec => ReadingNeverDecreases
  <1>1. ASSUME OdoInv, [OdoNext]_allVars
        PROVE  Stored(stable'[Odo]) >= Stored(stable[Odo])
    <2>1. \/ stable'[Odo] = stable[Odo]
          \/ IsLoaded(Odo) /\ stable'[Odo] = mirror[Odo]
      BY <1>1, FlashMoves DEF Used
    <2>2. /\ stable[Odo] \in Readings \cup {Absent}
          /\ IsLoaded(Odo) => mirror[Odo] \in Readings
      BY <1>1, UsedImages DEF OdoInv, Formed, Used
    <2>3. IsLoaded(Odo) => Stored(stable[Odo]) <= mirror[Odo].total
      BY <1>1 DEF OdoInv, Behind
    <2>. QED  BY <2>1, <2>2, <2>3, ReadingTypes DEF Stored
  <1>2. OdoInv /\ [OdoNext]_allVars
        => [Stored(stable'[Odo]) >= Stored(stable[Odo])]_allVars
    BY <1>1
  <1>. QED  BY <1>2, OdoInvariance, PTL DEF OdoSpec, ReadingNeverDecreases

(* On such media no start finds more distance than was driven.             *)
THEOREM NoDistanceInvented ==
    ASSUME Odo \notin Fragile
    PROVE  OdoSpec => []NothingFabricated
  <1>1. OdoInv => NothingFabricated
    <2>. SUFFICES ASSUME OdoInv, running PROVE Stored(stable[Odo]) <= total
      BY DEF NothingFabricated
    <2>1. IsLoaded(Odo) /\ mirror[Odo] \in Readings
      BY RunningLoaded, UsedImages DEF Used
    <2>2. stable[Odo] \in Readings \cup {Absent}
      BY UsedImages DEF OdoInv, Formed, Used
    <2>. QED  BY <2>1, <2>2, ReadingTypes DEF OdoInv, OdoTypeOK, Behind, Stored
  <1>. QED  BY <1>1, OdoInvariance, PTL

-----------------------------------------------------------------------------
(* What a reset costs.  First, the most one sample adds. *)
LEMMA ProductGrows ==
    ASSUME NEW a \in Nat, NEW b \in Nat, NEW c \in Nat, NEW d \in Nat, a <= c, b <= d
    PROVE  a * b \in Nat /\ c * d \in Nat /\ a * b <= c * d
  <1>1. a * b \in Nat /\ c * b \in Nat /\ c * d \in Nat
    OBVIOUS
  <1>2. a * b <= c * b
    <2>1. (c - a) * b \in Nat
      OBVIOUS
    <2>2. c * b = a * b + (c - a) * b
      OBVIOUS
    <2>. QED  BY <1>1, <2>1, <2>2
  <1>3. c * b <= c * d
    <2>1. c * (d - b) \in Nat
      OBVIOUS
    <2>2. c * d = c * b + c * (d - b)
      OBVIOUS
    <2>. QED  BY <1>1, <2>1, <2>2
  <1>. QED  BY <1>1, <1>2, <1>3

LEMMA QuotientGrows ==
    ASSUME NEW x \in Nat, NEW y \in Nat, NEW s \in Nat \ {0}, x <= y
    PROVE  x \div s \in Nat /\ y \div s \in Nat /\ x \div s <= y \div s
  <1>1. x \div s \in Nat /\ y \div s \in Nat
    OBVIOUS
  <1>2. x = s * (x \div s) + (x % s) /\ y = s * (y \div s) + (y % s)
    OBVIOUS
  <1>3. x % s \in 0 .. s - 1 /\ y % s \in 0 .. s - 1
    OBVIOUS
  <1>4. ASSUME NEW p \in Nat, NEW q \in Nat, NEW m \in 0 .. s - 1, NEW n \in 0 .. s - 1,
               s * p + m <= s * q + n
        PROVE  p <= q
    <2>1. SUFFICES ASSUME q + 1 <= p PROVE FALSE
      OBVIOUS
    <2>2. s * (q + 1) <= s * p
      BY <2>1, ProductGrows
    <2>3. s * (q + 1) = s * q + s
      OBVIOUS
    <2>4. s * q \in Nat /\ s * p \in Nat
      OBVIOUS
    <2>. QED  BY <1>4, <2>2, <2>3, <2>4
  <1>. QED  BY <1>1, <1>2, <1>3, <1>4

LEMMA LargestFactor ==
    Max(Factors) \in Nat /\ \A f \in Factors : f <= Max(Factors)
  <1>1. PICK f \in Factors : \A g \in Factors : f >= g
    BY OdoAssumption
  <1>2. Max(Factors) \in Factors /\ \A g \in Factors : Max(Factors) >= g
    BY <1>1, Zenon DEF Max
  <1>. QED  BY <1>2, OdoAssumption

LEMMA StepTypes == MaxStep \in Nat /\ MaxLag * MaxStep \in Nat
  <1>1. 2 * MaxRpm \in Nat /\ MaxGap \in Nat /\ Max(Factors) \in Nat
    BY OdoAssumption, LargestFactor
  <1>2. 2 * MaxRpm * MaxGap \in Nat
    BY <1>1, ProductGrows
  <1>3. 2 * MaxRpm * MaxGap * Max(Factors) \in Nat
    BY <1>1, <1>2, ProductGrows
  <1>. DEFINE most == Scale - 1 + 2 * MaxRpm * MaxGap * Max(Factors)
  <1>4. most \in Nat /\ Scale \in Nat \ {0} /\ MaxLag \in Nat
    BY <1>3, OdoAssumption
  <1>5. MaxStep = most \div Scale
    BY DEF MaxStep
  <1>. HIDE DEF most
  <1>6. MaxStep \in Nat
    BY <1>4, <1>5
  <1>. QED  BY <1>4, <1>6, ProductGrows

LEMMA SampleBound ==
    ASSUME OdoInv, lastRpm <= MaxRpm, NEW rpm \in Speeds, NEW dt \in 0 .. MaxGap + 1,
           Integrated(rpm, dt)
    PROVE  total' \in total .. total + MaxStep
  <1>. DEFINE e == Elapsed(dt)
              swept == (lastRpm + rpm) * e
              area == swept * factor
              most == 2 * MaxRpm * MaxGap
              room == most * Max(Factors)
  <1>1. e \in 0 .. MaxGap /\ rpm <= MaxRpm /\ total' = total + (fraction + area) \div Scale
    BY DEF Integrated
  <1>2. /\ {MaxRpm, MaxGap, lastRpm, rpm, e, factor, Max(Factors)} \subseteq Nat
        /\ factor <= Max(Factors) /\ fraction \in 0 .. Scale - 1 /\ Scale \in Nat \ {0}
        /\ total \in Nat
    BY <1>1, OdoAssumption, LargestFactor DEF OdoInv, OdoTypeOK
  <1>. HIDE DEF e
  <1>3. swept \in Nat /\ most \in Nat /\ swept <= most
    <2>1. lastRpm + rpm \in Nat /\ 2 * MaxRpm \in Nat /\ lastRpm + rpm <= 2 * MaxRpm
      BY <1>1, <1>2
    <2>. QED  BY <1>1, <1>2, <2>1, ProductGrows
  <1>4. area \in Nat /\ room \in Nat /\ area <= room
    <2>. HIDE DEF swept, most
    <2>. QED  BY <1>2, <1>3, ProductGrows
  <1>5. MaxStep = (Scale - 1 + room) \div Scale
    BY DEF MaxStep
  <1>. HIDE DEF area, room
  <1>6. (fraction + area) \div Scale <= (Scale - 1 + room) \div Scale
    <2>1. fraction + area \in Nat /\ Scale - 1 + room \in Nat
          /\ fraction + area <= Scale - 1 + room
      BY <1>2, <1>4
    <2>. HIDE DEF MaxStep
    <2>. QED  BY <1>2, <2>1, QuotientGrows
  <1>7. (fraction + area) \div Scale \in Nat
    BY <1>2, <1>4
  <1>. QED  BY <1>1, <1>2, <1>5, <1>6, <1>7, StepTypes

-----------------------------------------------------------------------------
(* What a step does to the odometer's block: nothing; the load at start;   *)
(* a commit of the current reading begins, or finds it already written; a  *)
(* retry begins; the store answers.                                        *)
Quiet ==
    /\ stable'[Odo] = stable[Odo] /\ mirror'[Odo] = mirror[Odo]
    /\ dirty'[Odo] = dirty[Odo] /\ lastWritten'[Odo] = lastWritten[Odo]
    /\ InFlight(Odo)' => InFlight(Odo) /\ call' = call
    /\ InFlight(Odo) => InFlight(Odo)'
    /\ IsLoaded(Odo)' => IsLoaded(Odo)

Loads ==
    /\ stable'[Odo] = stable[Odo] /\ mirror'[Odo] = ResetFinds(Odo)
    /\ lastWritten'[Odo] \in {Absent, stable[Odo]}
    /\ ~InFlight(Odo)' /\ ~running'

Begins ==
    /\ running /\ ~InFlight(Odo) /\ InFlight(Odo)' /\ call'.op = "write"
    /\ stable'[Odo] = stable[Odo] /\ mirror'[Odo] = Reading
    /\ dirty'[Odo] = dirty[Odo] /\ lastWritten'[Odo] = lastWritten[Odo]
    /\ lastPersisted' = lastPersisted

Matches ==
    /\ running /\ ~InFlight(Odo)'
    /\ stable'[Odo] = stable[Odo] /\ mirror'[Odo] = Reading
    /\ lastWritten[Odo] = Reading /\ lastWritten'[Odo] = Reading
    /\ lastPersisted' = total

Retries ==
    /\ IsLoaded(Odo) /\ ~InFlight(Odo) /\ call'.op = "main"
    /\ stable'[Odo] = stable[Odo] /\ mirror'[Odo] = mirror[Odo]
    /\ dirty'[Odo] /\ lastWritten'[Odo] = lastWritten[Odo]
    /\ InFlight(Odo)'

Written ==
    /\ IsLoaded(Odo) /\ InFlight(Odo) /\ ~InFlight(Odo)'
    /\ stable'[Odo] = mirror[Odo] /\ mirror'[Odo] = mirror[Odo]
    /\ lastWritten'[Odo] = mirror[Odo]

Refused ==
    /\ IsLoaded(Odo) /\ InFlight(Odo) /\ ~InFlight(Odo)'
    /\ stable'[Odo] \in {stable[Odo], mirror[Odo]} /\ mirror'[Odo] = mirror[Odo]
    /\ dirty'[Odo] /\ lastWritten'[Odo] = lastWritten[Odo]

LEMMA Committing ==
    ASSUME OdoInv, Commit
    PROVE  Ready /\ (Begins \/ Matches)
  <1>. USE DEF OdoInv, NvMInv, TypeOK, Store!TypeOK
  <1>1. running /\ WriteBlock(Odo, Reading) /\ Odo \in NvBlocks /\ Odo \in Immediate
    BY OdoAssumption DEF Commit
  <1>2. CASE WriteChanged(Odo, Reading)
    <2>1. /\ request = {} /\ request' = {[blks |-> {Odo}, val |-> Reading]}
          /\ call' = [op |-> "write", blk |-> Odo] /\ stable' = stable /\ dirty' = dirty
          /\ mirror'[Odo] = Reading /\ lastWritten' = lastWritten /\ Ready
          /\ lastWritten[Odo] # Reading
      BY <1>1, <1>2 DEF WriteChanged, CommitBegins, Store!Submit, Ready
    <2>2. ~InFlight(Odo) /\ InFlight(Odo)'
      BY <2>1 DEF InFlight
    <2>3. lastPersisted' = lastPersisted
      BY <2>1 DEF Commit
    <2>. QED  BY <1>1, <2>1, <2>2, <2>3 DEF Begins
  <1>3. CASE WriteUnchanged(Odo, Reading)
    <2>1. /\ Ready /\ lastWritten[Odo] = Reading /\ mirror'[Odo] = Reading
          /\ lastWritten' = lastWritten /\ stable' = stable /\ request = {} /\ request' = {}
      BY <1>1, <1>3 DEF WriteUnchanged, Ready, storeVars
    <2>2. ~InFlight(Odo)' /\ lastPersisted' = total
      BY <2>1 DEF InFlight, Commit
    <2>. QED  BY <1>1, <2>1, <2>2 DEF Matches
  <1>. QED  BY <1>1, <1>2, <1>3 DEF WriteBlock

LEMMA Ending ==
    ASSUME OdoInv, NEW b \in NvBlocks, CommitSucceeds(b) \/ CommitFails(b)
    PROVE  /\ CommitSucceeds(b) /\ b = Odo => Written
           /\ CommitFails(b) /\ b = Odo => Refused
           /\ b # Odo => Quiet
  <1>. USE DEF OdoInv, NvMInv, TypeOK, Consistent
  <1>1. PICK r \in request : r = [blks |-> {b}, val |-> mirror[b]] /\ up
    BY DEF CommitSucceeds, CommitFails, Store!Succeed, Store!Fail, Progress
  <1>2. (\A s \in request : s = r) /\ Odo \in NvBlocks
    BY OdoAssumption DEF Store!TypeOK
  <1>3. call.blk = b /\ call.op # "load" /\ request' = {} /\ mirror' = mirror
    BY <1>1 DEF CommitSucceeds, CommitFails, Progress, Store!Succeed, Store!Fail
  <1>4. Store!Applied(r) = [stable EXCEPT ![b] = mirror[b]]
    BY <1>1 DEF Store!Applied, Store!TypeOK
  <1>5. IsLoaded(Odo) /\ ~InFlight(Odo)' /\ (InFlight(Odo) <=> b = Odo)
    BY <1>1, <1>2, <1>3 DEF IsLoaded, InFlight
  <1>6. CASE CommitSucceeds(b)
    <2>1. stable' = [stable EXCEPT ![b] = mirror[b]]
      BY <1>2, <1>4, <1>6 DEF CommitSucceeds, Store!Succeed
    <2>2. lastWritten' = [lastWritten EXCEPT ![b] = mirror[b]]
          /\ dirty' = [dirty EXCEPT ![b] = FALSE]
      BY <1>6 DEF CommitSucceeds
    <2>3. b = Odo => Written
      BY <1>2, <1>3, <1>5, <2>1, <2>2 DEF Written, Store!TypeOK
    <2>4. b # Odo => Quiet
      BY <1>2, <1>3, <1>5, <2>1, <2>2 DEF Quiet, Store!TypeOK
    <2>5. ~CommitFails(b)
      BY <1>6 DEF CommitSucceeds, CommitFails, Store!Succeed, Store!Fail, Store!Done,
          Store!Failed
    <2>. QED  BY <2>3, <2>4, <2>5
  <1>7. CASE CommitFails(b)
    <2>1. stable' \in {stable, [stable EXCEPT ![b] = mirror[b]]}
      BY <1>2, <1>4, <1>7 DEF CommitFails, Store!Fail
    <2>2. lastWritten' = lastWritten /\ dirty' = [dirty EXCEPT ![b] = TRUE]
      BY <1>7 DEF CommitFails
    <2>3. b = Odo => Refused
      BY <1>2, <1>3, <1>5, <2>1, <2>2 DEF Refused, Store!TypeOK
    <2>4. b # Odo => Quiet
      BY <1>2, <1>3, <1>5, <2>1, <2>2 DEF Quiet, Store!TypeOK
    <2>5. ~CommitSucceeds(b)
      BY <1>7 DEF CommitSucceeds, CommitFails, Store!Succeed, Store!Fail, Store!Done,
          Store!Failed
    <2>. QED  BY <2>3, <2>4, <2>5
  <1>. QED  BY <1>6, <1>7

LEMMA Working ==
    ASSUME OdoInv, NvMStep, Odo \notin Fragile
    PROVE  ~IsLoaded(Odo)' \/ Quiet \/ Loads \/ Retries \/ Refused
  <1>. USE DEF OdoInv, NvMInv, TypeOK, Consistent
  <1>1. Odo \in NvBlocks /\ Cal \in NvBlocks /\ Odo # Cal /\ Default[Odo] \in Values
    BY OdoAssumption, ConstantsAssumption
  <1>2. CASE Start
    BY <1>1, <1>2 DEF Start, IsLoaded, NvBlocks
  <1>3. CASE Cyclic
    <2>1. PICK b \in NvBlocks : MainFunction(b)
      BY <1>3 DEF Cyclic
    <2>2. /\ request = {} /\ request' = {[blks |-> {b}, val |-> mirror[b]]}
          /\ call' = [op |-> "main", blk |-> b] /\ stable' = stable
          /\ mirror' = mirror /\ dirty' = dirty /\ lastWritten' = lastWritten
          /\ dirty[b] /\ up /\ call.op = "idle"
      BY <2>1 DEF MainFunction, CommitBegins, Store!Submit, Ready
    <2>3. ~InFlight(Odo) /\ (InFlight(Odo)' <=> b = Odo) /\ IsLoaded(Odo)
      BY <1>1, <2>2 DEF InFlight, IsLoaded
    <2>4. CASE b = Odo
      BY <2>2, <2>3, <2>4 DEF Retries
    <2>5. CASE b # Odo
      BY <2>2, <2>3, <2>5 DEF Quiet
    <2>. QED  BY <2>4, <2>5
  <1>4. CASE CommitSucceeds(Cal) \/ \E b \in NvBlocks : CommitFails(b)
    BY <1>1, <1>4, Ending
  <1>5. ASSUME NEW b \in NvBlocks, Load(b) \/ LoadFails(b)
        PROVE  ~IsLoaded(Odo)' \/ Quiet \/ Loads
    <2>1. /\ request = {} /\ request' = {} /\ stable' = stable /\ up /\ up'
          /\ call = [op |-> "load", blk |-> b] /\ dirty' = dirty /\ ~running'
      BY <1>5 DEF Load, LoadFails, Store!Read, Store!Maintain, Progress, NvMStep, odoVars
    <2>2. ~InFlight(Odo) /\ ~InFlight(Odo)'
      BY <2>1 DEF InFlight
    <2>3. CASE b # Odo
      <3>1. mirror'[Odo] = mirror[Odo] /\ lastWritten'[Odo] = lastWritten[Odo]
        BY <1>1, <1>5, <2>3 DEF Load, LoadFails
      <3>2. IsLoaded(Odo)' => IsLoaded(Odo)
        <4>1. CASE b < NBlocks
          BY <1>1, <1>5, <2>1, <2>3, <4>1, ConstantsAssumption
          DEF Load, LoadFails, LoadNext, IsLoaded, NvBlocks
        <4>2. CASE ~(b < NBlocks)
          BY <1>1, <2>1, <2>3, <4>2, ConstantsAssumption DEF IsLoaded, NvBlocks
        <4>. QED  BY <4>1, <4>2
      <3>. QED  BY <2>1, <2>2, <3>1, <3>2 DEF Quiet
    <2>4. CASE b = Odo
      <3>1. Load(Odo)
        BY <1>5, <2>4 DEF LoadFails
      <3>2. stable[Odo] \in Images
        BY <1>1 DEF Store!TypeOK, Store!Contents, Images
      <3>3. CASE reply' = Store!Answer(stable[Odo])
        <4>1. reply'.val = stable[Odo]
          BY <3>3 DEF Store!Answer
        <4>. QED
          BY <1>1, <2>1, <2>2, <3>1, <3>2, <4>1 DEF Load, ResetFinds, Loads
      <3>4. CASE stable[Odo] = Absent /\ reply' = Store!Answer(Damaged)
        <4>1. reply'.val = Damaged
          BY <3>4 DEF Store!Answer
        <4>. QED
          BY <1>1, <2>1, <2>2, <3>1, <3>4, <4>1, ConstantsAssumption
          DEF Load, ResetFinds, Loaded, Loads
      <3>. QED  BY <3>1, <3>3, <3>4 DEF Load, Store!Read
    <2>. QED  BY <2>3, <2>4
  <1>. QED  BY <1>2, <1>3, <1>4, <1>5 DEF NvMStep

(* What a step does to the block and to the odometer's account of it. *)
Kept ==
    \/ Loads
    \/ (Quiet \/ Retries \/ Refused) /\ UNCHANGED <<running, total, lag, lastPersisted>>
    \/ (Begins \/ Matches) /\ lag' \in {0, lag} /\ total' = total
    \/ /\ Written /\ UNCHANGED <<running, total, lag>>
       /\ lastPersisted' = IF call.op = "write" THEN total ELSE lastPersisted
    \/ Quiet /\ Ready /\ running' /\ total' = mirror[Odo].total
             /\ lastPersisted' = mirror[Odo].total /\ lag' = lag
    \/ /\ Quiet /\ running /\ lag' = lag + 1 /\ lastPersisted' = lastPersisted
       /\ total' \in total .. total + MaxStep
    \/ /\ Quiet /\ ~InFlight(Odo) /\ running /\ lag' = 0
       /\ UNCHANGED <<total, lastPersisted>> /\ total - lastPersisted < Threshold

LEMMA Accounted ==
    ASSUME OdoInv, haveLast => lastRpm <= MaxRpm, [OdoNext]_allVars, Odo \notin Fragile
    PROVE  ~IsLoaded(Odo)' \/ Kept
  <1>. USE DEF OdoInv
  <1>1. UNCHANGED vars => Quiet
    BY DEF vars, storeVars, nvmVars, Quiet, InFlight, IsLoaded
  <1>2. CASE OdoInit
    <2>1. Quiet
      BY <1>1, <1>2 DEF OdoInit
    <2>. QED  BY <1>2, <2>1 DEF OdoInit, Kept
  <1>3. ASSUME NEW rpm \in Speeds, NEW dt \in 0 .. MaxGap + 1, ProcessSpeedSample(rpm, dt)
        PROVE  Kept
    <2>1. Quiet
      BY <1>1, <1>3 DEF ProcessSpeedSample
    <2>2. total' \in total .. total + MaxStep
      <3>1. total \in Nat
        BY ReadingTypes DEF OdoTypeOK
      <3>2. CASE Integrated(rpm, dt)
        <4>1. lastRpm <= MaxRpm
          BY <3>2 DEF Integrated
        <4>. QED  BY <3>1, <3>2, <4>1, SampleBound, StepTypes
      <3>3. CASE NotIntegrated(rpm, dt)
        BY <3>1, <3>3, StepTypes DEF NotIntegrated
      <3>. QED  BY <1>3, <3>2, <3>3 DEF ProcessSpeedSample
    <2>. QED  BY <1>3, <2>1, <2>2 DEF ProcessSpeedSample, Kept
  <1>4. ASSUME Commit, total' = total, lag' \in {0, lag}
        PROVE  Kept
    BY <1>4, Committing DEF Kept
  <1>5. ASSUME NEW elapsed \in BOOLEAN, OdoMainFunction(elapsed)
        PROVE  Kept
    <2>1. CASE PersistDue(elapsed)
      BY <1>4, <1>5, <2>1 DEF OdoMainFunction
    <2>2. CASE ~PersistDue(elapsed)
      <3>1. UNCHANGED vars /\ request = {}
        BY <1>5, <2>2 DEF OdoMainFunction, Ready
      <3>2. Quiet
        BY <1>1, <3>1
      <3>3. ~InFlight(Odo)
        BY <3>1 DEF InFlight
      <3>4. total - lastPersisted < Threshold
        BY <2>2, OdoAssumption, ReadingTypes DEF PersistDue, Advanced, OdoTypeOK
      <3>. QED  BY <1>5, <2>2, <3>2, <3>3, <3>4 DEF OdoMainFunction, Kept
    <2>. QED  BY <2>1, <2>2
  <1>6. CASE CommitAnswered
    <2>1. Written
      BY <1>6, Ending, OdoAssumption DEF CommitAnswered
    <2>. QED  BY <1>6, <2>1 DEF CommitAnswered, Kept
  <1>7. CASE Persist
    BY <1>4, <1>7 DEF Persist
  <1>8. ASSUME NEW f \in Factors, SetCalibration(f)
        PROVE  Kept
    <2>1. /\ UNCHANGED <<storeVars, call>> /\ mirror'[Odo] = mirror[Odo]
          /\ dirty'[Odo] = dirty[Odo] /\ lastWritten' = lastWritten
      BY <1>8, OdoAssumption
      DEF SetCalibration, WriteBlock, WriteChanged, WriteUnchanged, NvMInv, TypeOK
    <2>2. Quiet
      BY <2>1 DEF storeVars, Quiet, InFlight, IsLoaded
    <2>. QED  BY <1>8, <2>2 DEF SetCalibration, Kept
  <1>9. CASE NvMStep
    BY <1>9, Working DEF NvMStep, odoVars, Kept
  <1>10. CASE Reset
    BY <1>10 DEF Reset, PowerLoss, Store!PowerLoss, IsLoaded
  <1>11. CASE Spoil
    <2>1. PICK b \in NvBlocks : Decay(b)
      BY <1>11 DEF Spoil
    <2>2. stable'[Odo] = stable[Odo] /\ UNCHANGED <<request, up, nvmVars>>
      BY <2>1, OdoAssumption DEF Decay, Store!Decay, NvMInv, TypeOK, Store!TypeOK
    <2>3. Quiet
      BY <2>2 DEF nvmVars, Quiet, InFlight, IsLoaded
    <2>. QED  BY <1>11, <2>3 DEF Spoil, odoVars, Kept
  <1>12. CASE UNCHANGED allVars
    BY <1>1, <1>12 DEF allVars, odoVars, Kept
  <1>. QED
    BY <1>2, <1>3, <1>5, <1>6, <1>7, <1>8, <1>9, <1>10, <1>11, <1>12 DEF OdoNext

-----------------------------------------------------------------------------
(* The distance the samples since the storage task's last pass can add,    *)
(* and its limit.                                                          *)
Passed == lag * MaxStep
PassMost == MaxLag * MaxStep

(* The flash holds the reading of the mirror unless a write is owed or in  *)
(* progress, and never less than the image committed last.                 *)
Abreast ==
    /\ IsLoaded(Odo) /\ ~dirty[Odo] /\ ~InFlight(Odo) =>
           Stored(stable[Odo]) = mirror[Odo].total
    /\ IsLoaded(Odo) /\ lastWritten[Odo] # Absent =>
           (lastWritten[Odo] \in Readings /\ lastWritten[Odo].total <= Stored(stable[Odo]))

(* The total noted as persisted is ahead of the mirror by one pass at      *)
(* most, and the total ahead of it by less than the threshold and a pass,  *)
(* unless the mirror was taken in this pass.                               *)
Noted ==
    /\ lastPersisted <= mirror[Odo].total + PassMost
    /\ \/ total < lastPersisted + Threshold + Passed
       \/ total <= mirror[Odo].total + Passed
    /\ InFlight(Odo) /\ call.op = "write" => total <= mirror[Odo].total + Passed
    /\ InFlight(Odo) /\ ~dirty[Odo] =>
           total < Stored(stable[Odo]) + Threshold + 2 * PassMost + Passed

LossInv ==
    /\ OdoInv
    /\ haveLast => lastRpm <= MaxRpm
    /\ Abreast
    /\ running => Noted

LEMMA PassTypes ==
    ASSUME NEW l \in 0 .. MaxLag
    PROVE  l * MaxStep \in 0 .. PassMost /\ PassMost \in Nat
  <1>1. l \in Nat /\ MaxLag \in Nat /\ l <= MaxLag /\ MaxStep \in Nat
    BY OdoAssumption, StepTypes
  <1>. QED  BY <1>1, ProductGrows DEF PassMost

LEMMA PassMoves ==
    ASSUME OdoTypeOK
    PROVE  /\ lag' = lag => Passed' = Passed
           /\ lag' = 0 => Passed' = 0
           /\ lag' = lag + 1 => Passed' = Passed + MaxStep
  <1>1. lag \in Nat /\ MaxStep \in Nat
    BY StepTypes, OdoAssumption DEF OdoTypeOK
  <1>2. (lag + 1) * MaxStep = lag * MaxStep + MaxStep /\ 0 * MaxStep = 0
    BY <1>1
  <1>. QED  BY <1>1, <1>2 DEF Passed, MaxStep

LEMMA SpeedStep ==
    ASSUME haveLast => lastRpm <= MaxRpm, [OdoNext]_allVars, haveLast'
    PROVE  lastRpm' <= MaxRpm
  BY DEF OdoNext, OdoInit, ProcessSpeedSample, NotIntegrated, Integrated, OdoMainFunction,
      CommitAnswered, Persist, SetCalibration, NvMStep, Reset, Spoil, odoVars, allVars, sampling

LEMMA AbreastStep ==
    ASSUME LossInv, [OdoNext]_allVars, Odo \notin Fragile
    PROVE  Abreast'
  <1>. USE DEF LossInv, OdoInv
  <1>. SUFFICES ASSUME IsLoaded(Odo)' PROVE Abreast'
    BY DEF Abreast
  <1>1. Kept
    BY Accounted
  <1>2. /\ stable[Odo] \in Readings \cup {Absent} /\ Absent \notin Readings
        /\ Default[Odo] \in Readings /\ Default[Odo].total = 0
        /\ \A r \in Readings : r.total \in Nat
        /\ IsLoaded(Odo) => mirror[Odo] \in Readings
        /\ Readings \subseteq Values /\ Absent \notin Values
    BY UsedImages, ReadingTypes, OdoAssumption DEF Formed, Used
  <1>3. running => /\ Reading \in Readings /\ Reading.total = total /\ IsLoaded(Odo)
                   /\ Stored(stable[Odo]) <= mirror[Odo].total /\ mirror[Odo].total <= total
    BY NewReading, RunningLoaded DEF Behind, Used
  <1>4. IsLoaded(Odo) => Stored(stable[Odo]) <= mirror[Odo].total
    BY DEF Behind
  <1>5. CASE Quiet
    BY <1>5 DEF Quiet, Abreast
  <1>6. CASE Loads
    BY <1>2, <1>6 DEF Loads, Abreast, ResetFinds, Loaded, Stored
  <1>7. CASE Retries \/ Begins
    BY <1>3, <1>7 DEF Retries, Begins, Abreast
  <1>8. CASE Refused
    <2>1. Stored(stable[Odo]) \in Nat /\ Stored(stable'[Odo]) \in Nat
          /\ Stored(stable[Odo]) <= Stored(stable'[Odo])
      BY <1>2, <1>4, <1>8 DEF Refused, Stored
    <2>. QED  BY <1>2, <1>8, <2>1 DEF Refused, Abreast
  <1>9. CASE Matches
    <2>1. Stored(stable[Odo]) \in Nat /\ total \in Nat /\ mirror[Odo].total \in Nat
      BY <1>2, <1>3, <1>9 DEF Matches, Stored
    <2>2. lastWritten[Odo] = Reading /\ total <= Stored(stable[Odo])
      BY <1>2, <1>3, <1>9 DEF Matches, Abreast
    <2>3. Stored(stable[Odo]) = total
      BY <1>3, <1>9, <2>1, <2>2 DEF Matches
    <2>. QED  BY <1>2, <1>3, <1>9, <2>1, <2>3 DEF Matches, Abreast
  <1>10. CASE Written
    BY <1>2, <1>10 DEF Written, Abreast, Stored
  <1>. QED  BY <1>1, <1>5, <1>6, <1>7, <1>8, <1>9, <1>10 DEF Kept

LEMMA NotedStep ==
    ASSUME LossInv, [OdoNext]_allVars, Odo \notin Fragile, running'
    PROVE  Noted'
  <1>. USE DEF LossInv, OdoInv
  <1>1. Kept
    BY Accounted, RunningStep DEF IsLoaded
  <1>2. /\ stable[Odo] \in Readings \cup {Absent} /\ Absent \notin Readings
        /\ \A r \in Readings : r.total \in Nat
        /\ IsLoaded(Odo) => mirror[Odo] \in Readings
    BY UsedImages, ReadingTypes, OdoAssumption DEF Formed, Used
  <1>3. /\ total \in Nat /\ lastPersisted \in Nat /\ Threshold \in Nat \ {0}
        /\ Stored(stable[Odo]) \in Nat /\ MaxStep \in Nat
    BY <1>2, ReadingTypes, OdoAssumption, StepTypes DEF OdoTypeOK, Stored
  <1>4. /\ Passed \in Nat /\ PassMost \in Nat /\ Passed <= PassMost
        /\ Passed' \in Nat /\ Passed' <= PassMost
    <2>1. lag \in 0 .. MaxLag /\ lag' \in 0 .. MaxLag
      BY OdoTypeStep DEF OdoTypeOK
    <2>2. Passed' = lag' * MaxStep
      BY DEF Passed, MaxStep
    <2>. HIDE DEF LossInv, OdoInv
    <2>. QED  BY <2>1, <2>2, PassTypes DEF Passed
  <1>5. running => /\ Reading.total = total /\ mirror[Odo].total \in Nat
                   /\ Stored(stable[Odo]) <= mirror[Odo].total /\ mirror[Odo].total <= total
                   /\ Noted /\ IsLoaded(Odo)
                   /\ ~dirty[Odo] /\ ~InFlight(Odo) =>
                          Stored(stable[Odo]) = mirror[Odo].total
    BY <1>2, NewReading, RunningLoaded DEF Behind, Abreast, Used
  <1>6. /\ lag' = lag => Passed' = Passed
        /\ lag' = 0 => Passed' = 0
        /\ lag' = lag + 1 => Passed' = Passed + MaxStep
    BY PassMoves
  <1>. HIDE DEF LossInv, OdoInv, Passed, PassMost, Stored, MaxStep
  <1>7. PassMost' = PassMost /\ Stored(stable[Odo])' = Stored(stable'[Odo])
    BY DEF PassMost, MaxStep, Stored
  <1>8. CASE Quiet /\ UNCHANGED <<running, total, lag, lastPersisted>>
    BY <1>3, <1>4, <1>5, <1>6, <1>7, <1>8 DEF Quiet, Noted
  <1>9. CASE Retries /\ UNCHANGED <<running, total, lag, lastPersisted>>
    BY <1>3, <1>4, <1>5, <1>6, <1>7, <1>9 DEF Retries, Noted
  <1>10. CASE Refused /\ UNCHANGED <<running, total, lag, lastPersisted>>
    BY <1>3, <1>4, <1>5, <1>6, <1>7, <1>10 DEF Refused, Noted
  <1>11. CASE Begins /\ lag' \in {0, lag} /\ total' = total
    <2>1. /\ mirror'[Odo].total = total /\ lastPersisted' = lastPersisted
          /\ total' = total /\ dirty'[Odo] = dirty[Odo]
          /\ Stored(stable'[Odo]) = Stored(stable[Odo])
          /\ Passed' \in {0, Passed} /\ ~InFlight(Odo)
      BY <1>5, <1>6, <1>11 DEF Begins
    <2>2. /\ Noted /\ mirror[Odo].total \in Nat /\ mirror[Odo].total <= total
          /\ ~dirty[Odo] => Stored(stable[Odo]) = mirror[Odo].total
      BY <1>5, <1>11, <2>1 DEF Begins
    <2>3. lastPersisted <= total + PassMost
      BY <1>3, <1>4, <2>2 DEF Noted
    <2>4. total < mirror[Odo].total + Threshold + 2 * PassMost
      <3>1. CASE total < lastPersisted + Threshold + Passed
        BY <1>3, <1>4, <2>2, <3>1 DEF Noted
      <3>2. CASE total <= mirror[Odo].total + Passed
        BY <1>3, <1>4, <2>2, <3>2
      <3>. QED  BY <2>2, <3>1, <3>2 DEF Noted
    <2>5. ~dirty'[Odo] =>
              total' < Stored(stable'[Odo]) + Threshold + 2 * PassMost + Passed'
      BY <1>3, <1>4, <2>1, <2>2, <2>4
    <2>6. /\ lastPersisted' <= mirror'[Odo].total + PassMost
          /\ total' <= mirror'[Odo].total + Passed'
      BY <1>3, <1>4, <2>1, <2>3
    <2>. QED  BY <1>7, <2>5, <2>6 DEF Noted
  <1>12. CASE Matches /\ lag' \in {0, lag} /\ total' = total
    <2>1. /\ mirror'[Odo].total = total /\ ~InFlight(Odo)'
          /\ lastPersisted' = total /\ total' = total
      BY <1>5, <1>12 DEF Matches
    <2>. QED  BY <1>3, <1>4, <1>7, <2>1 DEF Noted
  <1>13. CASE /\ Written /\ UNCHANGED <<running, total, lag>>
              /\ lastPersisted' = IF call.op = "write" THEN total ELSE lastPersisted
    BY <1>3, <1>4, <1>5, <1>6, <1>7, <1>13 DEF Written, Noted
  <1>14. CASE Quiet /\ Ready /\ running' /\ total' = mirror[Odo].total
              /\ lastPersisted' = mirror[Odo].total /\ lag' = lag
    <2>1. mirror[Odo].total \in Nat /\ ~InFlight(Odo)'
      BY <1>2, <1>14 DEF Ready, InFlight, IsLoaded, Quiet
    <2>. QED  BY <1>3, <1>4, <1>6, <1>7, <1>14, <2>1 DEF Quiet, Noted
  <1>15. CASE /\ Quiet /\ running /\ lag' = lag + 1 /\ lastPersisted' = lastPersisted
              /\ total' \in total .. total + MaxStep
    <2>1. /\ mirror'[Odo].total = mirror[Odo].total /\ lastPersisted' = lastPersisted
          /\ Stored(stable'[Odo]) = Stored(stable[Odo])
          /\ dirty'[Odo] = dirty[Odo] /\ Passed' = Passed + MaxStep
          /\ InFlight(Odo)' => InFlight(Odo) /\ call' = call
          /\ total' \in Nat /\ total' <= total + MaxStep
      BY <1>3, <1>6, <1>15 DEF Quiet
    <2>2. Noted /\ mirror[Odo].total \in Nat
      BY <1>5, <1>15
    <2>3. lastPersisted' <= mirror'[Odo].total + PassMost
      BY <2>1, <2>2 DEF Noted
    <2>4. \/ total' < lastPersisted' + Threshold + Passed'
          \/ total' <= mirror'[Odo].total + Passed'
      <3>1. \/ total < lastPersisted + Threshold + Passed
            \/ total <= mirror[Odo].total + Passed
        BY <2>2 DEF Noted
      <3>. QED  BY <1>3, <1>4, <2>1, <2>2, <3>1
    <2>5. InFlight(Odo)' /\ call'.op = "write" => total' <= mirror'[Odo].total + Passed'
      BY <1>3, <1>4, <2>1, <2>2 DEF Noted
    <2>6. InFlight(Odo)' /\ ~dirty'[Odo] =>
              total' < Stored(stable'[Odo]) + Threshold + 2 * PassMost + Passed'
      BY <1>3, <1>4, <2>1, <2>2 DEF Noted
    <2>. QED  BY <1>7, <2>3, <2>4, <2>5, <2>6 DEF Noted
  <1>16. CASE /\ Quiet /\ ~InFlight(Odo) /\ running /\ lag' = 0
              /\ UNCHANGED <<total, lastPersisted>> /\ total - lastPersisted < Threshold
    BY <1>3, <1>4, <1>5, <1>6, <1>7, <1>16 DEF Quiet, Noted
  <1>17. ~Loads
    BY DEF Loads
  <1>. QED
    BY <1>1, <1>8, <1>9, <1>10, <1>11, <1>12, <1>13, <1>14, <1>15, <1>16, <1>17 DEF Kept

LEMMA LossInit == OdoStarts => LossInv
  <1>. SUFFICES ASSUME OdoStarts PROVE LossInv
    OBVIOUS
  <1>1. OdoInv /\ ~running /\ ~haveLast
    BY InvInit DEF OdoStarts
  <1>2. ~IsLoaded(Odo)
    BY DEF OdoStarts, Init, Store!Init, IsLoaded
  <1>. QED  BY <1>1, <1>2 DEF LossInv, Abreast

(* On media that keep the odometer's records, a reset costs less than the  *)
(* threshold and three passes of the storage task's samples, however the   *)
(* commits, their failures and NvM's retries fall (OdoSwc_MainFunction,    *)
(* OdoSwc_Commit, NvM_MainFunction).                                       *)
THEOREM ResetCostsLittle ==
    ASSUME Odo \notin Fragile
    PROVE  OdoSpec => []LossBounded
  <1>1. LossInv /\ [OdoNext]_allVars => LossInv'
    <2>. SUFFICES ASSUME LossInv, [OdoNext]_allVars PROVE LossInv'
      OBVIOUS
    <2>1. OdoInv'
      <3>1. NvMInv'
        BY StepIsNvM, TypeStep, ConsistentStep DEF LossInv, OdoInv, NvMInv
      <3>. QED
        BY <3>1, FormedStep, RunningStep, OdoTypeStep, BehindStep DEF LossInv, OdoInv
    <2>. QED  BY <2>1, SpeedStep, AbreastStep, NotedStep DEF LossInv
  <1>2. LossInv => LossBounded
    <2>. SUFFICES ASSUME LossInv, running, ~dirty[Odo]
                  PROVE  total - Stored(stable[Odo]) <= Threshold - 1 + 3 * MaxLag * MaxStep
      BY DEF LossBounded
    <2>1. /\ total \in Nat /\ lastPersisted \in Nat /\ Threshold \in Nat \ {0}
          /\ lag \in 0 .. MaxLag
      BY ReadingTypes, OdoAssumption DEF LossInv, OdoInv, OdoTypeOK
    <2>2. Passed \in 0 .. PassMost /\ PassMost \in Nat
      BY <2>1, PassTypes DEF Passed
    <2>3. 3 * MaxLag * MaxStep = 3 * PassMost
      BY StepTypes, OdoAssumption DEF PassMost
    <2>4. /\ stable[Odo] \in Readings \cup {Absent} /\ mirror[Odo] \in Readings /\ IsLoaded(Odo)
          /\ Noted /\ Abreast
      BY RunningLoaded, UsedImages DEF LossInv, OdoInv, Formed, Used
    <2>5. Stored(stable[Odo]) \in Nat /\ mirror[Odo].total \in Nat
      BY <2>4, ReadingTypes DEF Stored
    <2>. HIDE DEF LossInv, Passed, PassMost, Stored
    <2>6. total < Stored(stable[Odo]) + Threshold + 3 * PassMost
      <3>1. CASE InFlight(Odo)
        BY <2>1, <2>2, <2>4, <2>5, <3>1 DEF Noted
      <3>2. CASE ~InFlight(Odo)
        <4>1. Stored(stable[Odo]) = mirror[Odo].total
          BY <2>4, <3>2 DEF Abreast
        <4>. QED  BY <2>1, <2>2, <2>4, <2>5, <4>1 DEF Noted
      <3>. QED  BY <3>1, <3>2
    <2>. QED  BY <2>1, <2>2, <2>3, <2>5, <2>6
  <1>. QED  BY <1>1, <1>2, LossInit, PTL DEF OdoSpec
=============================================================================
