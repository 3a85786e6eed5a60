------------------------------ MODULE BackhaulProofs ------------------------------
(***************************************************************************)
(* Proofs about the connectivity task (Backhaul): which bearer is on, what *)
(* is owed of the live record, what arrives of requested days, and how     *)
(* long a bearer in reach waits for a session, for all timeouts, sizes and *)
(* numbers of records, requests and changes.                               *)
(*                                                                         *)
(* The first three invariants concern different variables.  BearerInv adds *)
(* to OneBearer that nothing is started while no bearer is requested;      *)
(* LiveInv, what is known between a publication and the clearing of its    *)
(* flag; DayInv, how much of a day has been asked of the card, in terms of *)
(* the plan of its chunks, and that its file has not shrunk since the plan *)
(* was made.                                                               *)
(* Those of the last part build on BearerInv and are explained there.      *)
(***************************************************************************)
EXTENDS Backhaul, TLAPS

Nets == [state : States, requested : Bearers \cup {None}, active : Bearers \cup {None},
         backoff : Nat, age : Nat]
Radios == [wifi : {"off", "joining", "up", "lost"}, join : Nat,
           modem : BOOLEAN, attached : BOOLEAN]
Sessions == [via : Bearers \cup {None}, sub : {"none", "made", "refused"}]
Airs == [wifi : BOOLEAN, gsm : BOOLEAN, broker : BOOLEAN]

BearerInv ==
    /\ net \in Nets /\ radio \in Radios /\ session \in Sessions /\ air \in Airs
    /\ net.requested = None => net.state = "down"
    /\ OneBearer

LiveInv ==
    /\ live \in [seq : Nat, pending : BOOLEAN]
    /\ shown \in [live : Nat, overtaken : Nat]
    /\ pc = "sent" => live.seq \in {shown.live, shown.overtaken}
    /\ LiveOwed

DayRecords == [size : Int, got : Int, lost : Int, inOrder : BOOLEAN, broken : BOOLEAN]
Plans == [count : Nat, full : Nat, last : Nat]

DayTypes ==
    /\ files \in [Days -> Int] /\ \A d \in Days : files[d] >= Absent
    /\ backfill \in [dates : Seq(Days), current : Nat, chunk : Nat, active : BOOLEAN, plan : Plans]
    /\ day \in [now : DayRecords, last : DayRecords]

Date == backfill.dates[backfill.current + 1]

(* What has been read of a day, with what the reads left out.              *)
Asked(d) == d.got + d.lost

(* Between two days nothing has been sent.                                 *)
BetweenDays ==
    /\ backfill.current <= Len(backfill.dates)
    /\ ~backfill.active => backfill.current = Len(backfill.dates)
    /\ backfill.current = Len(backfill.dates) => backfill.chunk = 0 /\ day.now = NoDay

(* Before the first chunk, which may have been refused.                    *)
Unsent ==
    backfill.chunk = 0 => /\ Asked(day.now) = 0
                          /\ Pending /\ day.now.size # 0 => files[Date] # 0

(* Within a day.                                                           *)
UnderWay ==
    backfill.chunk > 0 =>
        /\ Pending /\ day.now.size \in Nat \ {0}
        /\ backfill.plan = ComputeChunkPlan(day.now.size)
        /\ backfill.chunk <= backfill.plan.count
        /\ Asked(day.now) = IF backfill.chunk = backfill.plan.count THEN day.now.size
                            ELSE backfill.chunk * ChunkSize
        /\ files[Date] >= day.now.size \/ (files[Date] = Absent /\ Date # Today)

DayInv == DayTypes /\ day.now.inOrder /\ BetweenDays /\ Unsent /\ UnderWay /\ DaysWhole

-----------------------------------------------------------------------------
(* Bearers.                                                                *)

LEMMA BearerBasics ==
    /\ MinBackoff \in Nat /\ MaxBackoff \in Nat
    /\ "wifi" \in Bearers /\ "gsm" \in Bearers /\ None \notin Bearers
BY NetIfAssumption DEF Bearers, None

LEMMA EnterIs ==
    ASSUME NEW n \in Nets, NEW s \in States
    PROVE  /\ EnterState(n, s) \in Nets /\ EnterState(n, s).state = s
           /\ EnterState(n, s).requested = n.requested
BY DEF EnterState, Nets

LEMMA BackoffIs ==
    ASSUME NEW n \in Nets
    PROVE  /\ EnterBackoff(n) \in Nets /\ EnterBackoff(n).state = "backoff"
           /\ EnterBackoff(n).requested = n.requested
<1>1. Doubled(n.backoff) \in Nat
      BY BearerBasics DEF Doubled, Nets
<1>2. QED BY <1>1 DEF EnterBackoff, EnterState, Nets, States

(* Stopping the requested bearer leaves both off, starting one leaves the  *)
(* other as it was.                                                        *)
LEMMA StopIs ==
    ASSUME BearerInv
    PROVE  /\ StopBearer(radio, net.requested) \in Radios
           /\ StopBearer(radio, net.requested).wifi = "off"
           /\ ~StopBearer(radio, net.requested).attached
BY DEF BearerInv, OneBearer, StopBearer, WifiDisconnect, GsmDisconnect, PulsePowerKey, Radios, Bearers, None, Nets

LEMMA StartIs ==
    ASSUME NEW r \in Radios, air \in Airs, NEW b \in Bearers, NEW q \in StartBearer(r, b)
    PROVE  /\ q \in Radios
           /\ b # "wifi" => q.wifi = r.wifi
           /\ b # "gsm" => q.attached = r.attached
<1>1. CASE b = "wifi"
  <2>1. q = r \/ q = [r EXCEPT !.wifi = "joining", !.join = 0]
        BY <1>1 DEF StartBearer, WifiConnect
  <2>2. [r EXCEPT !.wifi = "joining", !.join = 0] \in Radios
        /\ [r EXCEPT !.wifi = "joining", !.join = 0].attached = r.attached
        BY DEF Radios
  <2>3. QED BY ONLY <1>1, <2>1, <2>2, r \in Radios
<1>2. CASE b = "gsm"
  <2> DEFINE on == IF r.modem THEN r ELSE PulsePowerKey(r)
  <2>1. q = [on EXCEPT !.attached = @ \/ air.gsm]
        BY <1>2 DEF StartBearer, GsmConnect
  <2>2. on \in Radios /\ on.wifi = r.wifi
        BY DEF PulsePowerKey, Radios
  <2> HIDE DEF on
  <2>3. (on.attached \/ air.gsm) \in BOOLEAN
        OBVIOUS
  <2> DEFINE noted == on.attached \/ air.gsm
  <2>4. q = [on EXCEPT !.attached = noted]
        BY <2>1
  <2> HIDE DEF noted
  <2>5. noted \in BOOLEAN
        BY <2>3 DEF noted
  <2>6. QED BY ONLY <1>2, <2>2, <2>4, <2>5 DEF Radios
<1>3. QED BY <1>1, <1>2 DEF Bearers

LEMMA RequestKeeps ==
    ASSUME BearerInv, NEW b \in Bearers, RequestBearer(b), air' = air
    PROVE  BearerInv'
<1>1. CASE net.requested = b
      BY <1>1 DEF RequestBearer, netVars, BearerInv, OneBearer
<1>2. CASE net.requested # b
  <2> DEFINE r == StopBearer(radio, net.requested)
  <2>1. /\ session' = IF net.requested # None THEN NoSession ELSE session
        /\ radio' \in StartBearer(r, b)
        /\ net' = EnterState([net EXCEPT !.requested = b, !.backoff = 0, !.active = None], "connecting")
        BY <1>2 DEF RequestBearer
  <2>2. net \in Nets /\ session \in Sessions /\ air \in Airs /\ session.via \in {None, net.requested}
        BY DEF BearerInv, OneBearer
  <2>3. r \in Radios /\ r.wifi = "off" /\ ~r.attached
        BY StopIs
  <2>4. radio' \in Radios /\ (radio'.wifi # "off" => b = "wifi") /\ (radio'.attached => b = "gsm")
    <3> HIDE DEF r
    <3>1. QED BY <2>1, <2>2, <2>3, StartIs
  <2>5. net' \in Nets /\ net'.requested = b
        BY <2>1, <2>2 DEF EnterState, Nets, States
  <2>6. session' \in Sessions /\ session'.via = None
        BY <2>1, <2>2 DEF NoSession, Sessions
  <2>7. QED BY <2>2, <2>4, <2>5, <2>6, BearerBasics DEF BearerInv, OneBearer
<1>3. QED BY <1>1, <1>2

LEMMA ReleaseKeeps ==
    ASSUME BearerInv, ReleaseBearer, air' = air
    PROVE  BearerInv'
<1>1. net' \in Nets /\ net'.requested = None /\ net'.state = "down"
      BY DEF ReleaseBearer, EnterState, BearerInv, Nets, States
<1>2. radio' \in Radios /\ radio'.wifi = "off" /\ ~radio'.attached
      BY StopIs DEF ReleaseBearer
<1>3. session' \in Sessions /\ session'.via = None
      BY DEF ReleaseBearer, NoSession, Sessions
<1>4. QED BY <1>1, <1>2, <1>3 DEF BearerInv, OneBearer

LEMMA ComKeeps ==
    ASSUME BearerInv, ComMainFunction, air' = air
    PROVE  BearerInv'
<1>1. \A failures : ChooseBearer(failures).bearer \in Bearers
      BY DEF ChooseBearer, Bearers
<1>2. (\E b \in Bearers : RequestBearer(b)) \/ UNCHANGED netVars
      BY <1>1 DEF ComMainFunction, StayOnPreferred, StayOnFallback, RetryPreferred, StillTrying, AttemptFailed
<1>3. QED BY <1>2, RequestKeeps DEF netVars, BearerInv, OneBearer

(* Nothing happens in a state other than down without a requested bearer.  *)
LEMMA NetKeeps ==
    ASSUME BearerInv, NetMainFunction, air' = air
    PROVE  BearerInv'
<1>1. /\ net \in Nets /\ radio \in Radios /\ session \in Sessions /\ air \in Airs
      /\ net.requested = None => net.state = "down"
      /\ radio.wifi # "off" => net.requested = "wifi"
      /\ radio.attached => net.requested = "gsm"
      /\ session.via \in {None, net.requested}
      BY DEF BearerInv, OneBearer
<1>2. CASE Down
      BY <1>1, <1>2 DEF Down, netVars, BearerInv, OneBearer
<1>3. CASE Connecting
  <2>1. session' = session /\ net'.requested = net.requested /\ net' \in Nets
    <3> DEFINE n == [net EXCEPT !.active = net.requested]
    <3>1. n \in Nets /\ n.requested = net.requested /\ "linkUp" \in States
          BY <1>1 DEF Nets, States
    <3>2. session' = session /\ net' \in {EnterState(n, "linkUp"), EnterBackoff(net), net}
          BY <1>3 DEF Connecting
    <3> HIDE DEF n
    <3>3. QED BY <1>1, <3>1, <3>2, EnterIs, BackoffIs
  <2>2. radio' = radio \/ radio' = StopBearer(radio, net.requested)
        BY <1>3 DEF Connecting
  <2>3. net.requested # None
        BY <1>1, <1>3 DEF Connecting
  <2>4. QED BY <1>1, <2>1, <2>2, <2>3, StopIs DEF BearerInv, OneBearer
<1>4. CASE LinkUp
  <2>1. radio' = radio /\ net.requested # None
        BY <1>1, <1>4 DEF LinkUp
  <2>2. /\ net' \in Nets /\ net'.requested = net.requested
        /\ session' = session \/ \E sub \in ReapplySubscriptions : Carrier # None /\ session' = [via |-> Carrier, sub |-> sub]
    <3>1. CASE net' = EnterBackoff([net EXCEPT !.active = None]) /\ UNCHANGED session
      <4>1. [net EXCEPT !.active = None] \in Nets /\ [net EXCEPT !.active = None].requested = net.requested
            BY <1>1 DEF Nets
      <4>2. QED BY <3>1, <4>1, BackoffIs
    <3>2. CASE OpenSession
          BY <1>1, <3>2 DEF OpenSession, EnterState, Nets, States
    <3>3. CASE NoAnswer
          BY <1>1, <3>3, BackoffIs DEF NoAnswer
    <3>4. QED BY <1>4, <3>1, <3>2, <3>3 DEF LinkUp
  <2>3. Carrier # None => Carrier = net.requested
        BY <1>1 DEF Carrier, WifiIsUp, GsmIsUp
  <2>4. session' \in Sessions /\ session'.via \in {None, net.requested}
        BY <1>1, <2>2, <2>3 DEF Sessions, ReapplySubscriptions, Nets
  <2>5. QED BY <1>1, <2>1, <2>2, <2>4 DEF BearerInv, OneBearer
<1>5. CASE SessionUp
  <2>1. radio' = radio /\ net.requested # None /\ (session' = session \/ session' = NoSession)
        BY <1>1, <1>5 DEF SessionUp
  <2>2. [net EXCEPT !.active = None] \in Nets /\ [net EXCEPT !.active = None].requested = net.requested
        BY <1>1 DEF Nets
  <2>3. net' \in Nets /\ net'.requested = net.requested
        BY <1>1, <1>5, <2>2, BackoffIs DEF SessionUp
  <2>4. QED BY <1>1, <2>1, <2>3 DEF BearerInv, OneBearer, NoSession, Sessions
<1>6. CASE Backoff
  <2>1. session' = session /\ net.requested \in Bearers
        BY <1>1, <1>6 DEF Backoff, Nets
  <2>2. net' \in Nets /\ net'.requested = net.requested
    <3>1. net' \in {EnterState(net, "connecting"), net} /\ "connecting" \in States
          BY <1>6 DEF Backoff, netVars, States
    <3>2. QED BY <1>1, <3>1, EnterIs
  <2>3. radio' = radio \/ radio' \in StartBearer(radio, net.requested)
        BY <1>6 DEF Backoff
  <2>4. /\ radio' \in Radios
        /\ radio'.wifi # "off" => net.requested = "wifi"
        /\ radio'.attached => net.requested = "gsm"
        BY <1>1, <2>1, <2>3, StartIs
  <2>5. QED BY <1>1, <2>1, <2>2, <2>4, BearerBasics DEF BearerInv, OneBearer
<1>7. QED BY <1>2, <1>3, <1>4, <1>5, <1>6 DEF NetMainFunction

LEMMA TickKeeps ==
    ASSUME BearerInv, NetTick
    PROVE  BearerInv'
<1>1. net \in Nets /\ radio \in Radios /\ air \in Airs /\ radio' \in WifiLater(radio)
      /\ net' = [net EXCEPT !.age = IF @ < Oldest THEN @ + 1 ELSE @]
      /\ session' = session /\ air' = air
      BY DEF BearerInv, NetTick
<1>2. net' \in Nets /\ net'.requested = net.requested /\ net'.state = net.state
      BY <1>1 DEF Nets
<1>3. radio' \in Radios /\ (radio'.wifi # "off" => radio.wifi # "off") /\ radio'.attached = radio.attached
  <2>1. radio' \in {[radio EXCEPT !.wifi = "up", !.join = 0], [radio EXCEPT !.join = @ + 1],
                    [radio EXCEPT !.join = 0], [radio EXCEPT !.wifi = "lost", !.join = 0],
                    [radio EXCEPT !.wifi = "lost"], radio}
        /\ (radio.wifi = "off" => radio' = radio)
    <3>1. CASE radio.wifi = "joining"
          BY <1>1, <3>1 DEF WifiLater
    <3>2. CASE radio.wifi # "joining"
          BY <1>1, <3>2 DEF WifiLater
    <3>3. QED BY <3>1, <3>2
  <2>2. radio.join \in Nat /\ radio.join + 1 \in Nat
        BY <1>1 DEF Radios
  <2>3. radio' \in Radios
    <3>1. ASSUME NEW w \in {"off", "joining", "up", "lost"}, NEW j \in Nat
          PROVE  [radio EXCEPT !.wifi = w, !.join = j] \in Radios
          BY <1>1 DEF Radios
    <3>2. \E w \in {"off", "joining", "up", "lost"}, j \in Nat :
              radio' = [radio EXCEPT !.wifi = w, !.join = j]
      <4>1. radio.wifi \in {"off", "joining", "up", "lost"} /\ 0 \in Nat
            BY <1>1 DEF Radios
      <4>2. /\ [radio EXCEPT !.join = radio.join + 1] = [radio EXCEPT !.wifi = radio.wifi, !.join = radio.join + 1]
            /\ [radio EXCEPT !.join = 0] = [radio EXCEPT !.wifi = radio.wifi, !.join = 0]
            /\ [radio EXCEPT !.wifi = "lost"] = [radio EXCEPT !.wifi = "lost", !.join = radio.join]
            /\ radio = [radio EXCEPT !.wifi = radio.wifi, !.join = radio.join]
            BY <1>1 DEF Radios
      <4>3. QED BY ONLY <2>1, <2>2, <4>1, <4>2
    <3>3. QED BY ONLY <3>1, <3>2
  <2>4. radio'.attached = radio.attached
        BY ONLY <1>1, <2>1 DEF Radios
  <2>5. QED BY <2>1, <2>3, <2>4
<1>4. QED BY <1>1, <1>2, <1>3 DEF BearerInv, OneBearer

LEMMA BearerStep == BearerInv /\ [Next]_vars => BearerInv'
<1> SUFFICES ASSUME BearerInv, [Next]_vars PROVE BearerInv'
    OBVIOUS
<1>1. CASE CommStep
      BY <1>1, ComKeeps DEF CommStep
<1>2. CASE NetStep
      BY <1>2, NetKeeps DEF NetStep
<1>3. CASE Tick
      BY <1>3, TickKeeps DEF Tick
<1>4. CASE Change
  <2>1. air' \in Airs /\ UNCHANGED netVars
        BY <1>4 DEF Change, Airs, BearerInv
  <2>2. QED BY <2>1 DEF netVars, BearerInv, OneBearer
<1>5. CASE RequestMode
  <2>1. ChooseBearer(NoFailures).bearer \in Bearers
        BY DEF ChooseBearer, Bearers
  <2>2. QED BY <1>5, <2>1, RequestKeeps, ReleaseKeeps
            DEF RequestMode, RequestFullCommunication, RequestNoCommunication
<1>6. CASE UNCHANGED <<netVars, air>>
      BY <1>6 DEF netVars, BearerInv, OneBearer
<1>7. QED BY <1>1, <1>2, <1>3, <1>4, <1>5, <1>6
          DEF Next, Activation, RequestArrives, PublishLive, ServeBackfill, CardFails, StorageStep, Frame, vars

LEMMA BearerStart == Init => BearerInv
BY DEF Init, NetInit, BearerInv, OneBearer, Nets, Radios, Sessions, Airs, NoSession, States, None

(* Only the requested bearer is on and carries the session (NetIf.c), for  *)
(* all timeouts and whatever comes and goes. *)
THEOREM OneBearerAtATime == Spec => []OneBearer
<1>1. Spec => []BearerInv
      BY BearerStart, BearerStep, PTL DEF Spec
<1>2. BearerInv => OneBearer
      BY DEF BearerInv
<1>3. QED BY <1>1, <1>2, PTL

-----------------------------------------------------------------------------
(* Live records.                                                           *)

LEMMA LiveStep == LiveInv /\ [Next]_vars => LiveInv'
<1> SUFFICES ASSUME LiveInv, [Next]_vars PROVE LiveInv'
    OBVIOUS
<1>1. /\ live \in [seq : Nat, pending : BOOLEAN] /\ shown \in [live : Nat, overtaken : Nat]
      /\ pc = "sent" => live.seq \in {shown.live, shown.overtaken}
      /\ ~live.pending => live.seq \in {shown.live, shown.overtaken}
      BY DEF LiveInv, LiveOwed
<1>2. CASE AcquireAndStore(pc = "sent") /\ pc' = pc
  <2>1. live' = [seq |-> live.seq + 1, pending |-> TRUE]
        /\ shown' = [shown EXCEPT !.overtaken = IF pc = "sent" THEN live.seq + 1 ELSE @]
        BY <1>2 DEF AcquireAndStore
  <2>2. QED BY <1>1, <1>2, <2>1 DEF LiveInv, LiveOwed
<1>3. CASE LiveSent
      BY <1>1, <1>3 DEF LiveSent, LiveInv, LiveOwed
<1>4. CASE pc = "sent" /\ LiveCleared
      BY <1>1, <1>4 DEF LiveCleared, LiveInv, LiveOwed
<1>5. CASE live' = live /\ shown' = shown /\ (pc' = "sent" => pc = "sent")
      BY <1>1, <1>5 DEF LiveInv, LiveOwed
<1>6. QED
  <2>1. CASE PublishLive
        BY <1>3, <1>4, <1>5, <2>1 DEF PublishLive, At, idle, telemVars
  <2>2. CASE ServeBackfill \/ CardFails
        BY <1>5, <2>2 DEF ServeBackfill, CardFails, At, idle, telemVars, AllServed, ChunkRefused,
               ChunkSent, SkipDay, PastTheEnd, ReadFails, DayOver
  <2>3. CASE StorageStep
        BY <1>2, <1>5, <2>3 DEF StorageStep, RemoveDay, telemVars, taskVars
  <2>4. CASE CommStep \/ NetStep \/ RequestArrives
        BY <1>5, <2>4 DEF CommStep, NetStep, RequestArrives, OnBackfillRequest, At, idle, telemVars
  <2>5. CASE Tick \/ Change \/ RequestMode
        BY <1>5, <2>5 DEF Tick, Change, RequestMode, idle, telemVars
  <2>6. CASE UNCHANGED vars
        BY <1>5, <2>6 DEF vars, telemVars, taskVars
  <2>7. QED BY <2>1, <2>2, <2>3, <2>4, <2>5, <2>6 DEF Next, Activation

LEMMA LiveStart == Init => LiveInv
BY DEF Init, TelemInit, LiveInv, LiveOwed

(* A record whose flag is down went out live, or was acquired while its    *)
(* predecessor went out (TelemSwc_PublishLive), for any number of records. *)
THEOREM LiveRecordsAreOwed == Spec => []LiveOwed
<1>1. Spec => []LiveInv
      BY LiveStart, LiveStep, PTL DEF Spec
<1>2. LiveInv => LiveOwed
      BY DEF LiveInv
<1>3. QED BY <1>1, <1>2, PTL

-----------------------------------------------------------------------------
(* Requested days.                                                         *)

LEMMA ChunkSizeIs == ChunkSize \in Nat \ {0}
BY BackfillAssumption

LEMMA Division ==
    ASSUME NEW n \in Nat, NEW k \in Nat \ {0}
    PROVE  /\ n \div k \in Nat /\ n % k \in 0 .. k - 1
           /\ n = k * (n \div k) + (n % k)
BY SMTT(30)

LEMMA Multiples ==
    ASSUME NEW n \in Nat, NEW m \in Nat, NEW k \in Nat \ {0}, n <= m
    PROVE  n * k <= m * k /\ n * k \in Nat
BY SMTT(30)

LEMMA NextMultiple ==
    ASSUME NEW n \in Nat, NEW k \in Nat \ {0}
    PROVE  (n + 1) * k = n * k + k
BY SMTT(30)

(* ComputeChunkPlan: the full chunks and the rest make up the file.        *)
LEMMA PlanIs ==
    ASSUME NEW n \in Nat \ {0}, NEW plan, plan = ComputeChunkPlan(n)
    PROVE  /\ plan \in Plans /\ plan.count \in Nat \ {0} /\ plan.last < ChunkSize
           /\ n = plan.full * ChunkSize + plan.last
           /\ plan.count = IF plan.last = 0 THEN plan.full ELSE plan.full + 1
<1> DEFINE q == n \div ChunkSize
           r == n % ChunkSize
<1>1. /\ q \in Nat /\ r \in 0 .. ChunkSize - 1
      /\ n = ChunkSize * q + r
      BY ChunkSizeIs, Division
<1>2. /\ plan = [full |-> q, last |-> r, count |-> q + (IF r = 0 THEN 0 ELSE 1)]
      BY DEF ComputeChunkPlan
<1>3. ChunkSize * q = q * ChunkSize /\ (q = 0 => q * ChunkSize = 0)
      BY <1>1, ChunkSizeIs
<1> HIDE DEF q, r
<1>4. r \in Nat /\ r < ChunkSize
      BY ONLY <1>1, ChunkSizeIs
<1>5. q # 0 \/ r # 0
      BY ONLY <1>1, <1>3, <1>4, n \in Nat \ {0}
<1>6. /\ plan.full = q /\ plan.last = r /\ plan.count = IF r = 0 THEN q ELSE q + 1
      BY ONLY <1>1, <1>2
<1>7. plan \in Plans
      BY ONLY <1>1, <1>2, <1>4 DEF Plans
<1>8. QED BY ONLY <1>1, <1>3, <1>4, <1>5, <1>6, <1>7

(* GetChunkExtent: a chunk ends where the next one begins, the last at the *)
(* end of the file.                                                        *)
LEMMA ExtentIs ==
    ASSUME NEW n \in Nat \ {0}, NEW plan, plan = ComputeChunkPlan(n),
           NEW index \in Nat, index < plan.count, NEW extent, extent = GetChunkExtent(plan, index)
    PROVE  /\ extent.offset = index * ChunkSize /\ extent.offset \in Nat /\ extent.length \in Nat
           /\ extent.offset + extent.length = IF index + 1 = plan.count THEN n ELSE (index + 1) * ChunkSize
           /\ extent.offset + extent.length <= n
<1>1. /\ plan.full \in Nat /\ plan.last \in Nat /\ plan.count \in Nat /\ plan.last < ChunkSize
      /\ n = plan.full * ChunkSize + plan.last
      /\ plan.count = IF plan.last = 0 THEN plan.full ELSE plan.full + 1
      BY PlanIs DEF Plans
<1>2. extent = [offset |-> index * ChunkSize,
                length |-> IF index = plan.count - 1 /\ plan.last > 0 THEN plan.last ELSE ChunkSize]
      BY DEF GetChunkExtent
<1> DEFINE at == index * ChunkSize
           end == plan.full * ChunkSize
           next == (index + 1) * ChunkSize
<1>3. at \in Nat /\ end \in Nat /\ next = at + ChunkSize
      BY <1>1, ChunkSizeIs, Multiples, NextMultiple
<1>4. index = plan.full => at = end
      OBVIOUS
<1>5. index + 1 <= plan.full => next <= end
      BY <1>1, ChunkSizeIs, Multiples
<1>6. index + 1 = plan.full => next = end
      OBVIOUS
<1>7. extent.offset = at /\ extent.length = IF index = plan.count - 1 /\ plan.last > 0 THEN plan.last ELSE ChunkSize
      BY <1>2
<1> HIDE DEF at, end, next
<1>8. n = end + plan.last
      BY <1>1 DEF end
<1>9. CASE index = plan.count - 1 /\ plan.last > 0
      BY ONLY <1>1, <1>3, <1>4, <1>7, <1>8, <1>9, index \in Nat DEF at, next
<1>10. CASE ~(index = plan.count - 1 /\ plan.last > 0)
  <2>1. index + 1 <= plan.full
        BY ONLY <1>1, <1>10, index \in Nat, index < plan.count
  <2>2. index + 1 = plan.count => index + 1 = plan.full /\ plan.last = 0
        BY ONLY <1>1, <1>10, <2>1, index \in Nat
  <2>3. extent.length = ChunkSize /\ extent.offset = at /\ extent.offset + extent.length = next
        BY ONLY <1>3, <1>7, <1>10
  <2>4. next <= end /\ next <= n
        BY ONLY <1>1, <1>3, <1>5, <1>8, <2>1, ChunkSizeIs
  <2>5. index + 1 = plan.count => next = n
        BY ONLY <1>1, <1>3, <1>6, <1>8, <2>2
  <2>6. QED BY ONLY <1>3, <2>3, <2>4, <2>5, ChunkSizeIs DEF at, next
<1>11. QED BY <1>9, <1>10

LEMMA DateIs ==
    ASSUME DayTypes, Pending
    PROVE  Date \in Days /\ files[Date] \in Int /\ files[Date] >= Absent /\ Size = files[Date]
BY DEF DayTypes, Pending, Date, Size

(* The storage task: a file grows, or an old one goes.                     *)
LEMMA FilesKeep ==
    ASSUME DayInv, UNCHANGED <<backfill, day>>, files' \in [Days -> Int],
           \A d \in Days : \/ files'[d] = files[d]
                           \/ files'[d] > 0 /\ files'[d] > files[d] /\ d = Today
                           \/ files'[d] = Absent /\ d # Today
    PROVE  DayInv'
<1>1. DayTypes /\ DayTypes'
  <2>1. DayTypes
        BY DEF DayInv
  <2>2. \A d \in Days : files[d] \in Int /\ files[d] >= -1
        BY <2>1 DEF DayTypes, Absent
  <2>3. \A d \in Days : files'[d] >= -1
        BY ONLY <2>2, \A d \in Days : \/ files'[d] = files[d]
                                      \/ files'[d] > 0 /\ files'[d] > files[d] /\ d = Today
                                      \/ files'[d] = Absent /\ d # Today,
                files' \in [Days -> Int] DEF Absent
  <2>4. QED BY <2>1, <2>3 DEF DayTypes, Absent
<1>2. BetweenDays' /\ DaysWhole'
      BY DEF DayInv, BetweenDays, DaysWhole
<1>3. Pending' = Pending /\ Date' = Date /\ backfill' = backfill /\ day' = day
      BY DEF Pending, Date
<1>4. Pending => Date \in Days /\ files[Date] \in Int /\ files[Date] >= Absent /\ files'[Date] \in Int
      BY <1>1, DateIs DEF DayTypes
<1>5. Unsent'
      BY <1>3, <1>4 DEF DayInv, Unsent, Absent
<1>6. UnderWay'
  <2> SUFFICES ASSUME backfill.chunk > 0 PROVE UnderWay'
      BY <1>3 DEF UnderWay
  <2>1. /\ Pending /\ day.now.size \in Nat \ {0}
        /\ backfill.plan = ComputeChunkPlan(day.now.size)
        /\ backfill.chunk <= backfill.plan.count
        /\ Asked(day.now) = IF backfill.chunk = backfill.plan.count THEN day.now.size
                            ELSE backfill.chunk * ChunkSize
        /\ files[Date] >= day.now.size \/ (files[Date] = Absent /\ Date # Today)
        BY DEF DayInv, UnderWay
  <2>2. files'[Date] >= day.now.size \/ (files'[Date] = Absent /\ Date # Today)
        BY <1>4, <2>1
  <2>3. ComputeChunkPlan(day.now.size)' = ComputeChunkPlan(day.now.size)
        BY <1>3 DEF ComputeChunkPlan
  <2>4. QED BY <1>3, <2>1, <2>2, <2>3 DEF UnderWay
<1>7. QED BY <1>1, <1>2, <1>5, <1>6 DEF DayInv

LEMMA StorageKeeps ==
    ASSUME DayInv, StorageStep
    PROVE  DayInv'
<1>1. files \in [Days -> Int] /\ \A d \in Days : files[d] >= Absent
      BY DEF DayInv, DayTypes
<1>2. CASE AcquireAndStore(pc = "sent")
  <2>1. /\ UNCHANGED <<backfill, day>>
        /\ \/ files' = files
           \/ files' = [files EXCEPT ![Today] = IF @ = Absent THEN 1 ELSE @ + 1]
        BY <1>2 DEF AcquireAndStore
  <2>2. Today \in Days
        BY BackfillAssumption
  <2>3. files' \in [Days -> Int]
        /\ \A d \in Days : files'[d] = files[d] \/ (files'[d] > 0 /\ files'[d] > files[d] /\ d = Today)
        BY <1>1, <2>1, <2>2 DEF Absent
  <2>4. QED BY <2>1, <2>3, FilesKeep
<1>3. CASE RemoveDay
  <2>1. PICK x \in Days \ {Today} : files' = [files EXCEPT ![x] = Absent]
        BY <1>3 DEF RemoveDay
  <2>2. files' \in [Days -> Int] /\ \A d \in Days : files'[d] = files[d] \/ (files'[d] = Absent /\ d # Today)
        BY <1>1, <2>1 DEF Absent
  <2>3. UNCHANGED <<backfill, day>>
        BY <1>3 DEF RemoveDay, telemVars
  <2>4. QED BY <2>2, <2>3, FilesKeep
<1>4. QED BY <1>2, <1>3 DEF StorageStep

(* A request begins a transfer between days.                               *)
LEMMA RequestBegins ==
    ASSUME DayInv, NEW payload \in Requests, OnBackfillRequest(payload)
    PROVE  DayInv'
<1> DEFINE dates == ParseBackfillRequest(payload)
<1>1. dates \in Seq(Days)
      BY BackhaulAssumption
<1>2. files' = files /\ day' = day
      BY DEF OnBackfillRequest
<1>3. CASE backfill' = backfill
      BY <1>2, <1>3 DEF DayInv, DayTypes, BetweenDays, Unsent, UnderWay, DaysWhole, Pending, Date, ComputeChunkPlan
<1>4. CASE backfill' # backfill
  <2>1. ~backfill.active /\ dates # <<>>
        /\ backfill' = [dates |-> dates, current |-> 0, chunk |-> 0, active |-> TRUE,
                        plan |-> [backfill.plan EXCEPT !.count = 0]]
        BY <1>4 DEF OnBackfillRequest
  <2>2. day.now = NoDay
        BY <2>1 DEF DayInv, BetweenDays
  <2>3. backfill.plan \in Plans
        BY DEF DayInv, DayTypes
  <2>4. [backfill.plan EXCEPT !.count = 0] \in Plans
        BY <2>3 DEF Plans
  <2>5. Len(dates) \in Nat /\ Len(dates) # 0
        BY <1>1, <2>1
  <2> HIDE DEF dates
  <2>6. DayTypes'
        BY <1>1, <1>2, <2>1, <2>4 DEF DayInv, DayTypes
  <2>7. BetweenDays' /\ Unsent' /\ UnderWay' /\ DaysWhole' /\ day'.now.inOrder
        BY <1>2, <2>1, <2>2, <2>5 DEF DayInv, BetweenDays, Unsent, UnderWay, DaysWhole, NoDay, Asked
  <2>8. QED BY <2>6, <2>7 DEF DayInv
<1>5. QED BY <1>3, <1>4

LEMMA ServedKeeps ==
    ASSUME DayInv, AllServed
    PROVE  DayInv'
<1>1. /\ backfill' = [backfill EXCEPT !.active = FALSE] /\ files' = files /\ day' = day
      /\ backfill.current = Len(backfill.dates)
      BY DEF AllServed
<1>2. /\ backfill' \in [dates : Seq(Days), current : Nat, chunk : Nat, active : BOOLEAN, plan : Plans]
      /\ backfill'.dates = backfill.dates /\ backfill'.current = backfill.current
      /\ backfill'.chunk = backfill.chunk
      BY <1>1 DEF DayInv, DayTypes
<1>3. DayTypes'
      BY <1>1, <1>2 DEF DayInv, DayTypes
<1>4. BetweenDays' /\ DaysWhole' /\ backfill.chunk = 0 /\ day.now = NoDay
      BY <1>1, <1>2 DEF DayInv, BetweenDays, DaysWhole
<1>5. Unsent' /\ UnderWay' /\ day'.now.inOrder
      BY <1>1, <1>2, <1>4 DEF Unsent, UnderWay, Pending, NoDay, Asked
<1>6. QED BY <1>3, <1>4, <1>5 DEF DayInv

(* A day ends broken, or with all of it sent.                              *)
LEMMA DayEnds ==
    ASSUME DayInv, backfill.active, Pending, NEW plan \in Plans, NEW broken \in BOOLEAN,
           backfill' = NextDate([backfill EXCEPT !.plan = plan]), DayOver(broken),
           broken \/ Asked(day.now) = day.now.size
    PROVE  DayInv'
<1>1. /\ backfill \in [dates : Seq(Days), current : Nat, chunk : Nat, active : BOOLEAN, plan : Plans]
      /\ day \in [now : DayRecords, last : DayRecords] /\ NoDay \in DayRecords
      BY DEF DayInv, DayTypes, NoDay, DayRecords
<1>2. /\ backfill' \in [dates : Seq(Days), current : Nat, chunk : Nat, active : BOOLEAN, plan : Plans]
      /\ backfill'.dates = backfill.dates /\ backfill'.current = backfill.current + 1
      /\ backfill'.chunk = 0 /\ backfill'.active = backfill.active
  <2> DEFINE b == [backfill EXCEPT !.plan = plan]
  <2>1. /\ b \in [dates : Seq(Days), current : Nat, chunk : Nat, active : BOOLEAN, plan : Plans]
        /\ b.dates = backfill.dates /\ b.current = backfill.current /\ b.active = backfill.active
        BY <1>1
  <2>2. backfill' = [b EXCEPT !.current = @ + 1, !.chunk = 0]
        BY DEF NextDate
  <2> HIDE DEF b
  <2>3. b.current + 1 \in Nat /\ 0 \in Nat
        BY <2>1
  <2>4. QED BY ONLY <2>1, <2>2, <2>3
<1>3. files' = files /\ day' = [now |-> NoDay, last |-> [day.now EXCEPT !.broken = broken]]
      BY DEF DayOver
<1>4. /\ [day.now EXCEPT !.broken = broken] \in DayRecords
      /\ [day.now EXCEPT !.broken = broken].broken = broken
      /\ [day.now EXCEPT !.broken = broken].got = day.now.got
      /\ [day.now EXCEPT !.broken = broken].lost = day.now.lost
      /\ [day.now EXCEPT !.broken = broken].inOrder = day.now.inOrder
      /\ [day.now EXCEPT !.broken = broken].size = day.now.size
      BY <1>1 DEF DayRecords
<1>5. DayTypes'
      BY <1>1, <1>2, <1>3, <1>4 DEF DayInv, DayTypes
<1>6. BetweenDays'
  <2>1. Len(backfill.dates) \in Nat /\ backfill.current \in Nat /\ backfill.current < Len(backfill.dates)
        BY <1>1 DEF Pending
  <2>2. day'.now = NoDay
        BY <1>3
  <2>3. backfill'.current <= Len(backfill'.dates)
    <3>1. Len(backfill'.dates) = Len(backfill.dates)
          BY <1>2
    <3>2. QED BY ONLY <1>2, <2>1, <3>1
  <2>4. backfill'.active
        BY ONLY <1>2, backfill.active, Zenon
  <2>5. QED BY <1>2, <2>2, <2>3, <2>4 DEF BetweenDays
<1>7. Unsent' /\ UnderWay' /\ day'.now.inOrder
      BY <1>2, <1>3 DEF Unsent, UnderWay, NoDay, Asked
<1>8. DaysWhole'
  <2>1. day.now.inOrder /\ (broken \/ day.now.got + day.now.lost = day.now.size)
        BY DEF DayInv, Asked
  <2>2. day'.last = [day.now EXCEPT !.broken = broken]
        BY <1>3
  <2>3. QED BY ONLY <1>4, <2>1, <2>2 DEF DaysWhole
<1>9. QED BY <1>5, <1>6, <1>7, <1>8 DEF DayInv

(* What is known of the plan when a chunk is at hand.                      *)
LEMMA PlanAtHand ==
    ASSUME DayInv, Pending, Planned
    PROVE  /\ Noted \in DayRecords /\ Noted.size \in Nat \ {0}
           /\ Noted.got = day.now.got /\ Noted.lost = day.now.lost /\ Noted.inOrder
           /\ Plan = ComputeChunkPlan(Noted.size)
           /\ backfill.chunk <= Plan.count
           /\ backfill.chunk < Plan.count => Asked(day.now) = backfill.chunk * ChunkSize
           /\ backfill.chunk = Plan.count => Asked(day.now) = day.now.size
           /\ Size >= Noted.size \/ (Size = Absent /\ backfill.chunk > 0 /\ Date # Today)
<1>1. /\ day.now \in DayRecords /\ day.now.inOrder /\ backfill.chunk \in Nat
      /\ Size = files[Date] /\ Size \in Int /\ Size >= Absent
      BY DateIs DEF DayInv, DayTypes
<1>2. CASE backfill.chunk = 0
  <2>1. Size \in Nat \ {0}
        BY <1>1, <1>2 DEF Planned, Absent
  <2>2. Noted = [day.now EXCEPT !.size = Size] /\ Plan = ComputeChunkPlan(Size)
        BY <1>2 DEF Noted, Plan
  <2>3. /\ Noted \in DayRecords /\ Noted.size = Size /\ Noted.inOrder
        /\ Noted.got = day.now.got /\ Noted.lost = day.now.lost
        BY <1>1, <2>2 DEF DayRecords
  <2>4. Plan.count \in Nat \ {0}
        BY <2>1, <2>2, PlanIs
  <2>5. Asked(day.now) = 0 /\ 0 * ChunkSize = 0
        BY <1>2, ChunkSizeIs DEF DayInv, Unsent
  <2>6. QED BY ONLY <1>2, <2>1, <2>2, <2>3, <2>4, <2>5
<1>3. CASE backfill.chunk > 0
  <2>1. Noted = day.now /\ Plan = backfill.plan
    <3>1. Noted = [day.now EXCEPT !.size = day.now.size] /\ Plan = backfill.plan
          BY <1>1, <1>3 DEF Noted, Plan
    <3>2. [day.now EXCEPT !.size = day.now.size] = day.now
          BY <1>1 DEF DayRecords
    <3>3. QED BY <3>1, <3>2
  <2>2. /\ day.now.size \in Nat \ {0}
        /\ backfill.plan = ComputeChunkPlan(day.now.size)
        /\ backfill.chunk <= backfill.plan.count
        /\ Asked(day.now) = IF backfill.chunk = backfill.plan.count THEN day.now.size
                            ELSE backfill.chunk * ChunkSize
        /\ files[Date] >= day.now.size \/ (files[Date] = Absent /\ Date # Today)
        BY <1>3 DEF DayInv, UnderWay
  <2>3. backfill.plan.count \in Nat
        BY <2>2, PlanIs
  <2>4. QED BY ONLY <1>1, <1>3, <2>1, <2>2, <2>3
<1>4. QED BY <1>1, <1>2, <1>3

LEMMA EndsKeep ==
    ASSUME DayInv, backfill.active, SkipDay \/ PastTheEnd \/ ReadFails
    PROVE  DayInv'
<1>1. backfill.plan \in Plans /\ NoPlan \in Plans
      BY DEF DayInv, DayTypes, NoPlan, Plans
<1>2. CASE SkipDay
  <2>1. Pending /\ backfill.chunk = 0 /\ Size \in {Absent, 0} /\ DayOver(Size = Absent)
        /\ backfill' = NextDate([backfill EXCEPT !.plan = IF Size = 0 THEN NoPlan ELSE @])
        BY <1>2 DEF SkipDay
  <2> DEFINE plan == IF Size = 0 THEN NoPlan ELSE backfill.plan
             broken == Size = Absent
  <2>2. plan \in Plans /\ broken \in BOOLEAN
        BY <1>1
  <2>3. backfill' = NextDate([backfill EXCEPT !.plan = plan]) /\ DayOver(broken)
        BY <2>1
  <2>4. broken \/ Asked(day.now) = day.now.size
    <3>1. Size = 0 => Asked(day.now) = 0 /\ day.now.size = 0
          BY <2>1, DateIs DEF DayInv, Unsent
    <3>2. QED BY <2>1, <3>1
  <2> HIDE DEF plan, broken
  <2>5. QED BY <2>1, <2>2, <2>3, <2>4, DayEnds
<1>3. CASE PastTheEnd
  <2>1. Pending /\ Planned /\ backfill.chunk >= Plan.count /\ DayOver(FALSE)
        /\ backfill' = NextDate([backfill EXCEPT !.plan = Plan])
        BY <1>3 DEF PastTheEnd
  <2>2. Plan \in Plans /\ backfill.chunk \in Nat
    <3>1. Plan \in Plans
          BY <2>1, PlanAtHand, PlanIs
    <3>2. QED BY <3>1 DEF DayInv, DayTypes
  <2>3. backfill.chunk <= Plan.count /\ (backfill.chunk = Plan.count => Asked(day.now) = day.now.size)
        BY <2>1, PlanAtHand
  <2>4. Asked(day.now) = day.now.size
        BY ONLY <2>1, <2>2, <2>3 DEF Plans
  <2>5. QED BY <2>1, <2>2, <2>4, DayEnds
<1>4. CASE ReadFails
  <2>1. Pending /\ Planned /\ DayOver(TRUE) /\ backfill' = NextDate([backfill EXCEPT !.plan = Plan])
        BY <1>4 DEF ReadFails
  <2>2. Plan \in Plans
        BY <2>1, PlanAtHand, PlanIs
  <2>3. QED BY <2>1, <2>2, DayEnds
<1>5. QED BY <1>2, <1>3, <1>4

LEMMA ChunkKeeps ==
    ASSUME DayInv, backfill.active, ChunkRefused \/ \E read \in Int : ChunkSent(read)
    PROVE  DayInv'
<1>1. Pending /\ Planned /\ backfill.chunk < Plan.count /\ Size # Absent /\ files' = files
      BY DEF ChunkRefused, ChunkSent, Readable
<1>2. /\ Noted \in DayRecords /\ Noted.size \in Nat \ {0} /\ Noted.inOrder
      /\ Plan = ComputeChunkPlan(Noted.size) /\ Noted.got + Noted.lost = backfill.chunk * ChunkSize
      /\ Size >= Noted.size
      BY <1>1, PlanAtHand DEF Asked
<1>3. Plan \in Plans
      BY <1>2, PlanIs
<1>4. /\ backfill \in [dates : Seq(Days), current : Nat, chunk : Nat, active : BOOLEAN, plan : Plans]
      /\ day \in [now : DayRecords, last : DayRecords]
      /\ Size = files[Date] /\ Size \in Int
      BY <1>1, DateIs DEF DayInv, DayTypes
<1>5. backfill.current < Len(backfill.dates) /\ Len(backfill.dates) \in Nat /\ backfill.current \in Nat
      BY <1>1, <1>4 DEF Pending
<1>6. ASSUME NEW chunk \in Nat, NEW now \in DayRecords, chunk <= Plan.count,
             backfill' = [backfill EXCEPT !.plan = Plan, !.chunk = chunk],
             day' = [day EXCEPT !.now = now],
             now.size = Noted.size, now.inOrder,
             chunk = 0 => Asked(now) = 0,
             chunk > 0 => Asked(now) = IF chunk = Plan.count THEN now.size ELSE chunk * ChunkSize
      PROVE  DayInv'
  <2>1. /\ backfill' \in [dates : Seq(Days), current : Nat, chunk : Nat, active : BOOLEAN, plan : Plans]
        /\ backfill'.dates = backfill.dates /\ backfill'.current = backfill.current
        /\ backfill'.active = backfill.active /\ backfill'.chunk = chunk /\ backfill'.plan = Plan
        BY ONLY <1>3, <1>4, <1>6
  <2>2. day' \in [now : DayRecords, last : DayRecords] /\ day'.now = now /\ day'.last = day.last
        BY ONLY <1>4, <1>6
  <2>3. DayTypes'
        BY <1>1, <2>1, <2>2 DEF DayInv, DayTypes
  <2>4. BetweenDays'
        BY <1>5, <2>1 DEF BetweenDays
  <2>5. Date' = Date /\ Pending'
        BY <1>5, <2>1 DEF Date, Pending
  <2>6. Unsent'
    <3>1. Asked(day.now)' = Asked(now)
          BY <2>2 DEF Asked
    <3>2. QED BY <1>1, <1>2, <1>4, <1>6, <2>1, <2>2, <2>5, <3>1 DEF Unsent
  <2>7. UnderWay'
    <3>1. ComputeChunkPlan(day.now.size)' = ComputeChunkPlan(Noted.size)
          BY <1>6, <2>2 DEF ComputeChunkPlan
    <3>2. files'[Date'] >= now.size
          BY <1>1, <1>2, <1>4, <1>6, <2>5
    <3>3. Asked(day.now)' = Asked(now)
          BY <2>2 DEF Asked
    <3>4. QED BY <1>2, <1>6, <2>1, <2>2, <2>5, <3>1, <3>2, <3>3 DEF UnderWay
  <2>8. DaysWhole' /\ day'.now.inOrder
        BY <1>6, <2>2 DEF DayInv, DaysWhole
  <2>9. QED BY <2>3, <2>4, <2>6, <2>7, <2>8 DEF DayInv
<1>7. CASE ChunkRefused
  <2>1. backfill' = [backfill EXCEPT !.plan = Plan] /\ day' = [day EXCEPT !.now = Noted]
        BY <1>7 DEF ChunkRefused
  <2>2. [backfill EXCEPT !.plan = Plan] = [backfill EXCEPT !.plan = Plan, !.chunk = backfill.chunk]
        BY <1>4
  <2>3. backfill.chunk \in Nat /\ Plan.count \in Nat /\ 0 * ChunkSize = 0
        BY <1>3, <1>4, ChunkSizeIs DEF Plans
  <2> DEFINE chunk == backfill.chunk
  <2>4. chunk <= Plan.count /\ chunk # Plan.count
        BY ONLY <1>1, <2>3
  <2>5. (chunk = 0 => Asked(Noted) = 0) /\ Asked(Noted) = chunk * ChunkSize
        BY ONLY <1>2, <2>3 DEF Asked
  <2>6. QED BY ONLY <1>2, <1>6, <2>1, <2>2, <2>3, <2>4, <2>5
<1>8. ASSUME NEW read \in Int, ChunkSent(read)
      PROVE  DayInv'
  <2> DEFINE got == Noted.got + read
             lost == Noted.lost + (Read - read)
             inOrder == Noted.inOrder /\ Extent.offset = Noted.got + Noted.lost
             now == [Noted EXCEPT !.got = got, !.lost = lost, !.inOrder = inOrder]
             chunk == backfill.chunk + 1
  <2>1. backfill' = [backfill EXCEPT !.plan = Plan, !.chunk = chunk] /\ day' = [day EXCEPT !.now = now]
        BY <1>8 DEF ChunkSent
  <2>2. backfill.chunk \in Nat /\ Plan.count \in Nat
        BY <1>3, <1>4 DEF Plans
  <2>3. /\ Extent.offset = backfill.chunk * ChunkSize /\ Extent.offset \in Nat /\ Extent.length \in Nat
        /\ Extent.offset + Extent.length = IF chunk = Plan.count THEN Noted.size ELSE chunk * ChunkSize
        /\ Extent.offset + Extent.length <= Noted.size
        BY <1>1, <1>2, <2>2, ExtentIs DEF Extent
  <2>4. Read = Extent.length
        BY ONLY <1>2, <1>4, <2>3 DEF Read
  <2>a. Noted.got \in Int /\ Noted.lost \in Int
        BY <1>2 DEF DayRecords
  <2>5. got + lost = IF chunk = Plan.count THEN Noted.size ELSE chunk * ChunkSize
        BY ONLY <1>2, <1>8, <2>a, <2>3, <2>4
  <2>6. got \in Int /\ lost \in Int /\ inOrder \in BOOLEAN /\ inOrder
        BY ONLY <1>2, <1>8, <2>a, <2>3, <2>4
  <2> HIDE DEF got, lost, inOrder
  <2>7. now \in DayRecords /\ now.size = Noted.size /\ now.inOrder /\ Asked(now) = got + lost
        BY <1>2, <2>6 DEF DayRecords, Asked
  <2>8. chunk \in Nat /\ chunk <= Plan.count /\ chunk # 0
        BY <1>1, <2>2
  <2> HIDE DEF now, chunk
  <2>9. QED BY ONLY <1>6, <2>1, <2>5, <2>7, <2>8
<1>9. QED BY <1>7, <1>8

LEMMA DayStays ==
    ASSUME DayInv, UNCHANGED <<files, backfill, day>>
    PROVE  DayInv'
BY DEF DayInv, DayTypes, BetweenDays, Unsent, UnderWay, DaysWhole, Pending, Date, ComputeChunkPlan, Asked

(* What a read can bring is a number.                                      *)
LEMMA ReadIs ==
    ASSUME DayInv, Readable
    PROVE  Read \in Nat
<1>1. Pending /\ Planned /\ backfill.chunk < Plan.count /\ Size # Absent
      BY DEF Readable
<1>2. /\ Noted.size \in Nat \ {0} /\ Plan = ComputeChunkPlan(Noted.size) /\ Size >= Noted.size
      BY <1>1, PlanAtHand
<1>3. backfill.chunk \in Nat /\ Size \in Int
      BY <1>1, DateIs DEF DayInv, DayTypes
<1>4. /\ Extent.offset \in Nat /\ Extent.length \in Nat
      /\ Extent.offset + Extent.length <= Noted.size
      BY <1>1, <1>2, <1>3, ExtentIs DEF Extent
<1>5. QED BY ONLY <1>2, <1>3, <1>4 DEF Read

LEMMA DayStep == DayInv /\ [Next]_vars => DayInv'
<1> SUFFICES ASSUME DayInv, [Next]_vars PROVE DayInv'
    OBVIOUS
<1>1. CASE StorageStep
      BY <1>1, StorageKeeps
<1>2. CASE RequestArrives
      BY <1>2, RequestBegins DEF RequestArrives
<1>3. CASE ServeBackfill
  <2>1. CASE backfill.active /\ ChunkSent(Read)
    <3>1. Read \in Int
          BY <2>1, ReadIs DEF ChunkSent
    <3>2. QED BY <2>1, <3>1, ChunkKeeps
  <2>2. QED BY <1>3, <2>1, ServedKeeps, EndsKeep, ChunkKeeps, DayStays DEF ServeBackfill, idle, telemVars
<1>4. CASE CardFails
  <2>1. CASE \E read \in 0 .. Read - 1 : ChunkSent(read)
    <3>1. PICK read \in 0 .. Read - 1 : ChunkSent(read)
          BY <2>1
    <3>2. backfill.active
          BY <1>4 DEF CardFails
    <3>3. QED BY <3>1, <3>2, ChunkKeeps
  <2>2. QED BY <1>4, <2>1, EndsKeep DEF CardFails
<1>5. CASE PublishLive
      BY <1>5, DayStays DEF PublishLive, LiveSent, LiveCleared, idle, telemVars
<1>6. CASE CommStep \/ NetStep \/ Tick \/ Change \/ RequestMode
      BY <1>6, DayStays DEF CommStep, NetStep, Tick, Change, RequestMode, idle, telemVars
<1>7. CASE UNCHANGED vars
      BY <1>7, DayStays DEF vars, telemVars
<1>8. QED BY <1>1, <1>2, <1>3, <1>4, <1>5, <1>6, <1>7 DEF Next, Activation

LEMMA DayStart == Init => DayInv
<1> SUFFICES ASSUME Init PROVE DayInv
    OBVIOUS
<1>1. files \in [Days -> Int] /\ \A d \in Days : files[d] >= Absent
  <2>1. files \in [Days -> {Absent, 0, ChunkSize, ChunkSize + 1}]
        BY DEF Init, TelemInit
  <2>2. QED BY <2>1, ChunkSizeIs DEF Absent
<1>2. /\ backfill = [dates |-> <<>>, current |-> 0, chunk |-> 0, active |-> FALSE, plan |-> NoPlan]
      /\ day = [now |-> NoDay, last |-> NoDay]
      BY DEF Init, TelemInit
<1>3. NoPlan \in Plans /\ NoDay \in DayRecords /\ <<>> \in Seq(Days) /\ Len(<<>>) = 0
      BY DEF NoPlan, Plans, NoDay, DayRecords
<1>4. DayTypes
      BY <1>1, <1>2, <1>3 DEF DayTypes
<1>5. BetweenDays /\ Unsent /\ UnderWay /\ DaysWhole /\ day.now.inOrder
      BY <1>2, <1>3 DEF BetweenDays, Unsent, UnderWay, DaysWhole, NoDay, Pending, Asked
<1>6. QED BY <1>4, <1>5 DEF DayInv

(* A day of which no read was answered with a failure is sent in order and *)
(* no byte twice, and all of it but what reads that were answered E_OK     *)
(* left out (TelemSwc_ServeBackfill, Com_ComputeChunkPlan), for any size   *)
(* of files and chunks, any requests, and any refusals, losses of the      *)
(* session, short reads and growth meanwhile.                              *)
THEOREM RequestedDaysAreWhole == Spec => []DaysWhole
<1>1. Spec => []DayInv
      BY DayStart, DayStep, PTL DEF Spec
<1>2. DayInv => DaysWhole
      BY DEF DayInv
<1>3. QED BY <1>1, <1>2, PTL

-----------------------------------------------------------------------------
(* Waiting for a session.  A bearer in reach gets one in bounded time: a   *)
(* trial of the other bearer ends, and on its own it comes up within the   *)
(* trial.  `Spent` is what the trials of the preferred bearer have taken   *)
(* so far, `Left` what remains of them, and `Course` says that the bearer  *)
(* that is asked for has a session within n.  A bearer that is not         *)
(* preferred has waited at most a trial of its own besides what is spent;  *)
(* the preferred one at most what is spent, or it is on its course.        *)

(* What is bounded, and when the task is blocked.                          *)
BoundsInv ==
    /\ net.backoff <= MaxBackoff /\ net.age <= Oldest /\ radio.join <= JoinTime
    /\ busy \in Nat /\ busy <= BlockTime
    /\ busy > 0 => /\ net.requested = "gsm" /\ pc \in {"net", "live"}
                   /\ pc = "net" => net.state = "connecting"
    /\ net.state \in {"linkUp", "sessionUp"} => net.active = net.requested
    /\ pc \in {"sleep", "comm", "net", "live", "sent", "serve"}

(* ComM's choice is what NetIf was asked for.  GSM is chosen only while    *)
(* WiFi is exhausted, and an attempt is out of time at NetIf's turn only   *)
(* if the task was blocked in the call that began it.                      *)
ChoiceInv ==
    /\ ComTypeOK
    /\ ~comm.full => net.requested = None
    /\ comm.full =>
          /\ comm.preferred = net.requested /\ comm.preferred \in Bearers
          /\ comm.failures[comm.preferred] < FailureLimit
          /\ comm.preferred = "wifi" => comm.failures["gsm"] = 0
          /\ comm.preferred = "gsm" => comm.failures["wifi"] = FailureLimit
          /\ comm.attempt = Allowance /\ pc = "net" => net.state = "connecting"

(* A wait is counted only while the bearer is in reach, and not beside a   *)
(* session.                                                                *)
DeniedInv ==
    /\ denied \in [Bearers -> Nat]
    /\ net.state = "sessionUp" /\ pc \in {"comm", "net"} => denied = NotDenied
    /\ \A b \in Bearers : denied[b] > 0 => Healthy(b)

(* What has been spent of the preferred bearer's trials: the attempts that *)
(* failed, the present one, and, once that is out of time, how long the    *)
(* task has been blocked beyond it.                                        *)
Overrun(c, at, n) ==
    IF c.attempt < Allowance THEN 0
    ELSE IF at = "comm" THEN Stay(c.preferred) ELSE Stay(c.preferred) - 1 - n

SpentBy(c, at, n) ==
    c.failures[c.preferred] * (Allowance + Stay(c.preferred)) + c.attempt + Overrun(c, at, n)

Spent == SpentBy(comm, pc, busy)

(* What is left of them.                                                   *)
Left == (FailureLimit - comm.failures[comm.preferred]) * Allowance - comm.attempt

(* How long until the next activation of NetIf.                            *)
Turn == busy + (IF pc \in {"comm", "net"} THEN 0 ELSE 1)

(* The bearer that is asked for has a session within n: its link is up, or *)
(* it is joining and has time enough, in this attempt or in the next one.  *)
Course(b, n) ==
    \/ net.state = "sessionUp"
    \/ net.state = "linkUp" /\ BearerIsUp(radio, b) /\ n >= Turn
    \/ net.state = "connecting" /\ BearerIsUp(radio, b) /\ n >= Turn + 1
    \/ /\ b = "wifi" /\ net.state = "connecting" /\ radio.wifi = "joining"
       /\ \/ net.age + JoinTime - radio.join < LinkTimeout /\ n >= JoinTime - radio.join + 2
          \/ net.backoff = 0 /\ n >= 2 * JoinTime - radio.join + MinBackoff + 2
    \/ /\ b = "wifi" /\ net.state = "backoff"
       /\ IF net.age < net.backoff THEN n >= net.backoff - net.age + JoinTime + 2
          ELSE n >= Turn + JoinTime + 2

Arriving(b) ==
    \E n \in Nat : /\ Course(b, n) /\ denied[b] + n <= Longest(b)
                   /\ net.state # "sessionUp" => n < Left

(* What a bearer in reach may have waited.                                 *)
Phase(b) ==
    IF b = comm.preferred THEN denied[b] <= Spent \/ (denied[b] > 0 /\ Arriving(b))
    ELSE denied[b] <= Trial(b) + Spent

PhaseInv == comm.full => \A b \in Bearers : Phase(b)

LEMMA Constants ==
    /\ {LinkTimeout, SessionTimeout, MinBackoff, MaxBackoff, JoinTime, BlockTime} \subseteq Nat
    /\ {Allowance, FailureLimit, PreferredRetry, Bound} \subseteq Nat
    /\ LinkTimeout > 0 /\ MinBackoff > 0 /\ MinBackoff <= MaxBackoff
    /\ Allowance > 0 /\ FailureLimit > 0 /\ PreferredRetry > 0
  BY NetIfAssumption, ComMAssumption, BackhaulAssumption

(* The longest age is the longest of the three times.                      *)
LEMMA OldestIs ==
    Oldest \in Nat /\ LinkTimeout <= Oldest /\ SessionTimeout <= Oldest /\ MaxBackoff <= Oldest
  <1>1. \E m \in {LinkTimeout, SessionTimeout, MaxBackoff} :
            \A t \in {LinkTimeout, SessionTimeout, MaxBackoff} : t <= m
    BY Constants
  <1>2. Oldest \in {LinkTimeout, SessionTimeout, MaxBackoff}
        /\ \A t \in {LinkTimeout, SessionTimeout, MaxBackoff} : t <= Oldest
    BY <1>1 DEF Oldest
  <1>. QED  BY <1>2, Constants

LEMMA EnterFields ==
    ASSUME NEW n \in Nets, NEW s \in States
    PROVE  /\ EnterState(n, s).state = s
           /\ EnterState(n, s).requested = n.requested /\ EnterState(n, s).active = n.active
           /\ EnterState(n, s).backoff = n.backoff
           /\ EnterState(n, s).age = IF n.state = s THEN n.age ELSE 0
  BY DEF EnterState, Nets

LEMMA BackoffFields ==
    ASSUME NEW n \in Nets
    PROVE  /\ EnterBackoff(n).state = "backoff" /\ EnterBackoff(n).requested = n.requested
           /\ EnterBackoff(n).active = n.active
           /\ EnterBackoff(n).backoff = Doubled(n.backoff)
           /\ EnterBackoff(n).age = IF n.state = "backoff" THEN n.age ELSE 0
  <1>1. Doubled(n.backoff) \in Nat
    BY Constants DEF Doubled, Nets
  <1>. QED  BY <1>1 DEF EnterBackoff, EnterState, Nets

LEMMA DoubledIs ==
    ASSUME NEW ms \in Nat
    PROVE  /\ Doubled(ms) \in Nat /\ Doubled(ms) <= MaxBackoff
           /\ ms = 0 => Doubled(ms) = MinBackoff
  BY Constants DEF Doubled

(* The radios after a start: WiFi is joining anew or still up, the modem   *)
(* is attached at once if its network is in reach.                         *)
LEMMA StartFields ==
    ASSUME NEW r \in Radios, air \in Airs, NEW b \in Bearers, NEW q \in StartBearer(r, b)
    PROVE  /\ q \in Radios
           /\ b = "wifi" => (q = r /\ WifiIsUp(r)) \/ (q.wifi = "joining" /\ q.join = 0)
           /\ b = "gsm" => /\ q.wifi = r.wifi /\ q.join = r.join
                           /\ air.gsm => GsmIsUp(q)
  <1>1. q \in Radios
    BY StartIs
  <1>2. CASE b = "wifi"
    <2>1. (q = r /\ WifiIsUp(r)) \/ q = [r EXCEPT !.wifi = "joining", !.join = 0]
      BY <1>2 DEF StartBearer, WifiConnect
    <2>. QED  BY <1>1, <1>2, <2>1 DEF Radios
  <1>3. CASE b = "gsm"
    <2>. DEFINE on == IF r.modem THEN r ELSE PulsePowerKey(r)
    <2>1. q = [on EXCEPT !.attached = @ \/ air.gsm]
      BY <1>3 DEF StartBearer, GsmConnect
    <2>2. on \in Radios /\ on.wifi = r.wifi /\ on.join = r.join /\ on.modem
      BY DEF PulsePowerKey, Radios
    <2>. HIDE DEF on
    <2>. DEFINE noted == on.attached \/ air.gsm
    <2>3. q = [on EXCEPT !.attached = noted] /\ noted \in BOOLEAN /\ (air.gsm => noted)
      BY <2>1
    <2>. HIDE DEF noted
    <2>4. q.wifi = r.wifi /\ q.join = r.join /\ q.modem /\ q.attached = noted
      BY <2>2, <2>3 DEF Radios
    <2>. QED  BY <1>1, <1>3, <2>3, <2>4, Zenon DEF GsmIsUp
  <1>. QED  BY <1>2, <1>3 DEF Bearers

LEMMA StopFields ==
    ASSUME BearerInv
    PROVE  StopBearer(radio, net.requested).join \in {0, radio.join}
  BY DEF BearerInv, StopBearer, WifiDisconnect, GsmDisconnect, PulsePowerKey, Radios

(* What a request of another bearer does.                                  *)
LEMMA Requested ==
    ASSUME BearerInv, NEW b \in Bearers, net.requested # b, RequestBearer(b)
    PROVE  /\ net'.state = "connecting" /\ net'.requested = b /\ net'.backoff = 0
           /\ net'.age = IF net.state = "connecting" THEN net.age ELSE 0
           /\ radio' \in StartBearer(StopBearer(radio, net.requested), b)
           /\ busy' \in Blocks(b)
  <1>. DEFINE n == [net EXCEPT !.requested = b, !.backoff = 0, !.active = None]
  <1>1. net' = EnterState(n, "connecting")
        /\ radio' \in StartBearer(StopBearer(radio, net.requested), b) /\ busy' \in Blocks(b)
    BY DEF RequestBearer
  <1>2. n \in Nets /\ n.state = net.state /\ n.age = net.age /\ n.requested = b /\ n.backoff = 0
    BY DEF BearerInv, Nets
  <1>3. "connecting" \in States
    BY DEF States
  <1>. HIDE DEF n
  <1>. QED  BY <1>1, <1>2, <1>3, EnterFields

(* The moves of the state machine, by what they do to the bearer.          *)
Still ==
    /\ UNCHANGED <<net, radio, busy>>
    /\ net.state = "connecting" => ~BearerIsUp(radio, net.requested) /\ net.age < LinkTimeout
    /\ net.state = "linkUp" =>
           BearerIsUp(radio, net.requested) /\ ~(Carrier # None /\ air.broker)
    /\ net.state = "backoff" => net.age < net.backoff

LinkFound ==
    /\ net.state = "connecting" /\ BearerIsUp(radio, net.requested)
    /\ net'.state = "linkUp" /\ net'.active = net.requested
    /\ net'.backoff = net.backoff /\ net'.age = 0 /\ UNCHANGED <<radio, busy>>

GivenUp ==
    /\ net.state = "connecting" /\ ~BearerIsUp(radio, net.requested) /\ net.age >= LinkTimeout
    /\ net'.state = "backoff" /\ net'.age = 0 /\ net'.backoff = Doubled(net.backoff)
    /\ radio' = StopBearer(radio, net.requested) /\ UNCHANGED busy

Opened ==
    /\ net.state = "linkUp" /\ net'.state = "sessionUp" /\ net'.active = net.active
    /\ net'.backoff = 0 /\ net'.age = 0 /\ UNCHANGED <<radio, busy>>

Dropped ==
    /\ net.state \in {"linkUp", "sessionUp"}
    /\ net.state = "linkUp" =>
           ~BearerIsUp(radio, net.requested) \/ ~(Carrier # None /\ air.broker)
    /\ net'.state = "backoff" /\ net'.age = 0 /\ net'.backoff = Doubled(net.backoff)
    /\ UNCHANGED <<radio, busy>>

TriedAgain ==
    /\ net.state = "backoff" /\ net.age >= net.backoff
    /\ net'.state = "connecting" /\ net'.age = 0 /\ net'.backoff = net.backoff
    /\ radio' \in StartBearer(radio, net.requested) /\ busy' \in Blocks(net.requested)

LEMMA Moves ==
    ASSUME BearerInv, NetMainFunction
    PROVE  /\ net'.requested = net.requested
           /\ Still \/ LinkFound \/ GivenUp \/ Opened \/ Dropped \/ TriedAgain
  <1>1. net \in Nets /\ net.backoff \in Nat /\ net.age \in Nat /\ LinkTimeout \in Nat
        /\ {"linkUp", "backoff", "sessionUp", "connecting"} \subseteq States
    BY Constants DEF BearerInv, Nets, States
  <1>2. CASE Down
    BY <1>2 DEF Down, netVars, Still
  <1>3. CASE Connecting
    <2>1. CASE BearerIsUp(radio, net.requested)
      <3>. DEFINE n == [net EXCEPT !.active = net.requested]
      <3>1. /\ n \in Nets /\ n.state = net.state /\ n.requested = net.requested
            /\ n.active = net.requested /\ n.backoff = net.backoff
        BY <1>1 DEF Nets
      <3>2. net.state = "connecting" /\ net' = EnterState(n, "linkUp") /\ UNCHANGED <<radio, busy>>
        BY <1>3, <2>1 DEF Connecting
      <3>. HIDE DEF n
      <3>. QED  BY <1>1, <2>1, <3>1, <3>2, EnterFields DEF LinkFound
    <2>2. CASE ~BearerIsUp(radio, net.requested) /\ net.age >= LinkTimeout
      <3>1. /\ net.state = "connecting" /\ net' = EnterBackoff(net)
            /\ radio' = StopBearer(radio, net.requested) /\ UNCHANGED busy
        BY <1>3, <2>2 DEF Connecting
      <3>. QED  BY <1>1, <2>2, <3>1, BackoffFields DEF GivenUp
    <2>3. CASE ~BearerIsUp(radio, net.requested) /\ ~(net.age >= LinkTimeout)
      <3>1. net.state = "connecting" /\ UNCHANGED <<net, radio, busy>>
        BY <1>3, <2>3 DEF Connecting
      <3>. QED  BY <1>1, <2>3, <3>1 DEF Still
    <2>. QED  BY <2>1, <2>2, <2>3
  <1>d. ASSUME NEW n \in Nets, n.requested = net.requested, n.state = net.state, n.backoff = net.backoff,
               net' = EnterBackoff(n), net.state \in {"linkUp", "sessionUp"},
               net.state = "linkUp" =>
                   ~BearerIsUp(radio, net.requested) \/ ~(Carrier # None /\ air.broker),
               UNCHANGED <<radio, busy>>
        PROVE  net'.requested = net.requested /\ Dropped
    BY <1>d, BackoffFields DEF Dropped
  <1>e. /\ [net EXCEPT !.active = None] \in Nets /\ [net EXCEPT !.active = None].requested = net.requested
        /\ [net EXCEPT !.active = None].state = net.state
        /\ [net EXCEPT !.active = None].backoff = net.backoff
    BY <1>1 DEF Nets
  <1>4. CASE LinkUp
    <2>1. net.state = "linkUp" /\ UNCHANGED <<radio, busy>>
      BY <1>4 DEF LinkUp
    <2>2. CASE ~BearerIsUp(radio, net.requested)
      <3>1. net' = EnterBackoff([net EXCEPT !.active = None])
        BY <1>4, <2>2 DEF LinkUp
      <3>. QED  BY <1>d, <1>e, <2>1, <2>2, <3>1
    <2>3. CASE OpenSession
      <3>. DEFINE n == [net EXCEPT !.backoff = 0]
      <3>1. /\ n \in Nets /\ n.state = net.state /\ n.requested = net.requested
            /\ n.active = net.active /\ n.backoff = 0
        BY <1>1 DEF Nets
      <3>2. net' = EnterState(n, "sessionUp")
        BY <2>3 DEF OpenSession
      <3>. HIDE DEF n
      <3>. QED  BY <1>1, <2>1, <3>1, <3>2, EnterFields DEF Opened
    <2>4. CASE BearerIsUp(radio, net.requested) /\ ~(Carrier # None /\ air.broker) /\ NoAnswer
      BY <1>1, <1>d, <2>1, <2>4 DEF NoAnswer, Still
    <2>. QED  BY <1>4, <2>2, <2>3, <2>4 DEF LinkUp
  <1>5. CASE SessionUp
    <2>1. net.state = "sessionUp" /\ UNCHANGED <<radio, busy>>
      BY <1>5 DEF SessionUp
    <2>2. \/ net' = EnterBackoff([net EXCEPT !.active = None])
          \/ net' = EnterBackoff(net) \/ net' = net
      BY <1>5 DEF SessionUp
    <2>. QED  BY <1>1, <1>d, <1>e, <2>1, <2>2 DEF Still
  <1>6. CASE Backoff
    <2>1. CASE net.age < net.backoff
      BY <1>6, <2>1 DEF Backoff, Still
    <2>2. CASE ~(net.age < net.backoff)
      <3>1. /\ net.state = "backoff" /\ net' = EnterState(net, "connecting")
            /\ radio' \in StartBearer(radio, net.requested) /\ busy' \in Blocks(net.requested)
        BY <1>6, <2>2 DEF Backoff
      <3>2. net.age >= net.backoff
        BY <1>1, <2>2
      <3>. QED  BY <1>1, <3>1, <3>2, EnterFields DEF TriedAgain
    <2>. QED  BY <2>1, <2>2
  <1>. QED  BY <1>2, <1>3, <1>4, <1>5, <1>6 DEF NetMainFunction

(* The decisions of ComM while communication is requested.                 *)
Counts == 0 .. FailureLimit
Comms == [full : BOOLEAN, preferred : Bearers \cup {None}, failures : [Bearers -> Counts],
          attempt : 0 .. Allowance, fallback : 0 .. PreferredRetry]

Kept ==
    /\ net.state = "sessionUp" /\ UNCHANGED netVars
    /\ comm'.preferred = comm.preferred
    /\ comm'.failures = [comm.failures EXCEPT ![comm.preferred] = 0]

Trying ==
    net.state # "sessionUp" /\ comm.attempt < Allowance /\ UNCHANGED <<comm, netVars>>

Failed ==
    /\ net.state # "sessionUp" /\ comm.attempt = Allowance /\ UNCHANGED netVars
    /\ comm'.preferred = comm.preferred
    /\ comm.failures[comm.preferred] + 1 < FailureLimit
    /\ comm'.failures = [comm.failures EXCEPT ![comm.preferred] = @ + 1]

Turned ==
    /\ net.state # "sessionUp" /\ comm.attempt = Allowance
    /\ comm.failures[comm.preferred] + 1 = FailureLimit
    /\ comm'.preferred \in Bearers /\ comm'.preferred # comm.preferred
    /\ comm'.failures = IF comm.preferred = "gsm" THEN NoFailures
                        ELSE [comm.failures EXCEPT !["wifi"] = FailureLimit]
    /\ RequestBearer(comm'.preferred)

Returned ==
    /\ net.state = "sessionUp" /\ comm.preferred = "gsm" /\ comm'.preferred = "wifi"
    /\ comm'.failures = [[comm.failures EXCEPT !["gsm"] = 0] EXCEPT !["wifi"] = 0]
    /\ RequestBearer("wifi")

LEMMA Decisions ==
    ASSUME BoundsInv, ChoiceInv, comm.full, ComMainFunction
    PROVE  \/ Trying
           \/ /\ comm'.full /\ comm'.attempt = 0 /\ comm' \in Comms
              /\ Kept \/ Failed \/ Turned \/ Returned
  <1>. DEFINE p == comm.preferred
              f == comm.failures
  <1>1. /\ comm \in Comms /\ f \in [Bearers -> Counts] /\ comm.attempt \in Nat /\ comm.attempt <= Allowance
        /\ p = net.requested /\ p \in Bearers /\ f[p] < FailureLimit
        /\ (p = "wifi" => f["gsm"] = 0) /\ (p = "gsm" => f["wifi"] = FailureLimit)
    <2>1. comm \in Comms
      BY DEF ChoiceInv, ComTypeOK, Comms, Counts
    <2>2. comm.attempt \in 0 .. Allowance
      BY <2>1 DEF Comms
    <2>. QED  BY <2>1, <2>2, Constants DEF ChoiceInv, Comms
  <1>2. net.state = "sessionUp" => net.active = p
    BY <1>1 DEF BoundsInv
  <1>3. /\ 0 \in Counts /\ FailureLimit \in Counts /\ 0 \in 0 .. Allowance /\ 0 \in 0 .. PreferredRetry
        /\ p # None /\ {"wifi", "gsm"} = Bearers
        /\ \A n \in Counts : n \in Nat /\ (n < FailureLimit => n + 1 \in Counts)
    BY <1>1, Constants DEF Counts, None, Bearers
  <1>4. ASSUME net.state = "sessionUp"
        PROVE  /\ Cleared \in Comms /\ Cleared.full = comm.full /\ Cleared.attempt = 0
               /\ Cleared.preferred = p /\ Cleared.failures = [f EXCEPT ![p] = 0]
    <2>1. net.active = p /\ net.active # None
      BY <1>2, <1>3, <1>4
    <2>2. Cleared = [comm EXCEPT !.attempt = 0, !.failures = [f EXCEPT ![p] = 0]]
      BY <2>1 DEF Cleared
    <2>3. [f EXCEPT ![p] = 0] \in [Bearers -> Counts]
      BY <1>1, <1>3
    <2>. HIDE DEF p, f
    <2>. QED  BY <1>1, <1>3, <2>2, <2>3 DEF Comms, p, f
  <1>5. CASE StayOnPreferred
    <2>1. net.state = "sessionUp" /\ comm' = [Cleared EXCEPT !.fallback = 0] /\ UNCHANGED netVars
      BY <1>5 DEF StayOnPreferred, OnPreferred
    <2>2. /\ comm' \in Comms /\ comm'.full = Cleared.full /\ comm'.attempt = Cleared.attempt
          /\ comm'.preferred = Cleared.preferred /\ comm'.failures = Cleared.failures
      BY <1>3, <1>4, <2>1 DEF Comms
    <2>. QED  BY <1>4, <2>1, <2>2 DEF Kept
  <1>6. CASE StayOnFallback
    <2>1. net.state = "sessionUp" /\ comm' = Cleared /\ UNCHANGED netVars
      BY <1>6 DEF StayOnFallback
    <2>. QED  BY <1>4, <2>1 DEF Kept
  <1>7. CASE RetryPreferred
    <2>. DEFINE g == [[f EXCEPT !["gsm"] = 0] EXCEPT !["wifi"] = 0]
    <2>1. net.state = "sessionUp" /\ p # "wifi"
      BY <1>7 DEF RetryPreferred
    <2>2. p = "gsm" /\ net.active = "gsm"
      BY <1>1, <1>2, <2>1 DEF Bearers
    <2>3. g \in [Bearers -> Counts] /\ g["wifi"] = 0
      BY <1>1, <1>3
    <2>4. ChooseBearer(g) = [bearer |-> "wifi", failures |-> g]
      BY <2>3, Constants DEF ChooseBearer
    <2>5. [Cleared.failures EXCEPT !["wifi"] = 0] = g
      BY <1>4, <2>1, <2>2
    <2>. HIDE DEF g
    <2>6. /\ comm' = [Cleared EXCEPT !.preferred = "wifi", !.failures = g, !.fallback = 0]
          /\ RequestBearer("wifi")
      <3>. DEFINE choice == ChooseBearer([Cleared.failures EXCEPT !["wifi"] = 0])
      <3>1. /\ comm' = [Cleared EXCEPT !.preferred = choice.bearer, !.failures = choice.failures,
                                       !.fallback = 0]
            /\ choice.bearer # net.active => RequestBearer(choice.bearer)
        BY <1>7 DEF RetryPreferred
      <3>2. choice = [bearer |-> "wifi", failures |-> g]
        BY <2>4, <2>5, Zenon
      <3>. HIDE DEF choice
      <3>. QED  BY <2>2, <3>1, <3>2
    <2>7. /\ comm' \in Comms /\ comm'.full = Cleared.full /\ comm'.attempt = Cleared.attempt
          /\ comm'.preferred = "wifi" /\ comm'.failures = g
      BY <1>3, <1>4, <2>1, <2>3, <2>6 DEF Comms
    <2>. QED  BY <1>4, <2>1, <2>2, <2>6, <2>7 DEF Returned, g
  <1>8. CASE StillTrying
    BY <1>8 DEF StillTrying, Trying
  <1>9. CASE AttemptFailed
    <2>. DEFINE g == RecordFailure(f, p)
                choice == ChooseBearer(g)
                next == [comm EXCEPT !.failures = choice.failures, !.attempt = 0]
    <2>1. net.state # "sessionUp" /\ comm.attempt = Allowance
      BY <1>1, <1>9, Constants DEF AttemptFailed
    <2>2. /\ g = [f EXCEPT ![p] = f[p] + 1] /\ g \in [Bearers -> Counts] /\ g[p] = f[p] + 1
          /\ \A b \in Bearers : b # p => g[b] = f[b]
      BY <1>1, <1>3 DEF RecordFailure
    <2>3. /\ choice.bearer = p => comm' = next /\ UNCHANGED netVars
          /\ choice.bearer # p => /\ comm' = [next EXCEPT !.preferred = choice.bearer, !.fallback = 0]
                                  /\ RequestBearer(choice.bearer)
      BY <1>9 DEF AttemptFailed
    <2>. HIDE DEF g
    <2>4. CASE f[p] + 1 < FailureLimit
      <3>1. choice = [bearer |-> p, failures |-> g]
        <4>1. CASE p = "wifi"
          BY <2>2, <2>4, <4>1 DEF ChooseBearer
        <4>2. CASE p = "gsm"
          <5>1. g["wifi"] = FailureLimit /\ g["gsm"] < FailureLimit
            BY <1>1, <1>3, <2>2, <2>4, <4>2
          <5>. QED  BY <4>2, <5>1, Constants DEF ChooseBearer
        <4>. QED  BY <1>1, <4>1, <4>2 DEF Bearers
      <3>2. comm' = [comm EXCEPT !.failures = g, !.attempt = 0] /\ UNCHANGED netVars
        BY <2>3, <3>1
      <3>3. /\ comm' \in Comms /\ comm'.full = comm.full /\ comm'.attempt = 0
            /\ comm'.preferred = p /\ comm'.failures = g
        BY <1>1, <1>3, <2>2, <3>2 DEF Comms
      <3>. QED  BY <2>1, <2>2, <2>4, <3>2, <3>3 DEF Failed
    <2>5. CASE f[p] + 1 = FailureLimit
      <3>. DEFINE q == IF p = "wifi" THEN "gsm" ELSE "wifi"
                  h == IF p = "gsm" THEN NoFailures ELSE g
      <3>1. choice = [bearer |-> q, failures |-> h]
        <4>1. CASE p = "wifi"
          <5>1. g["wifi"] = FailureLimit /\ g["gsm"] < FailureLimit
            BY <1>1, <1>3, <2>2, <2>5, <4>1, Constants
          <5>. QED  BY <4>1, <5>1, Constants DEF ChooseBearer
        <4>2. CASE p = "gsm"
          <5>1. g["wifi"] = FailureLimit /\ g["gsm"] = FailureLimit
            BY <1>1, <1>3, <2>2, <2>5, <4>2
          <5>. QED  BY <4>2, <5>1, Constants DEF ChooseBearer
        <4>. QED  BY <1>1, <4>1, <4>2 DEF Bearers
      <3>2. q # p /\ q \in Bearers /\ h \in [Bearers -> Counts]
        BY <1>1, <1>3, <2>2 DEF NoFailures, Bearers
      <3>. HIDE DEF q, h
      <3>3. /\ comm' = [[comm EXCEPT !.failures = h, !.attempt = 0] EXCEPT !.preferred = q, !.fallback = 0]
            /\ RequestBearer(q)
        BY <2>3, <3>1, <3>2
      <3>4. /\ comm' \in Comms /\ comm'.full = comm.full /\ comm'.attempt = 0
            /\ comm'.preferred = q /\ comm'.failures = h
        BY <1>1, <1>3, <3>2, <3>3 DEF Comms
      <3>5. h = IF p = "gsm" THEN NoFailures ELSE [f EXCEPT !["wifi"] = FailureLimit]
        BY <1>1, <2>2, <2>5 DEF h, Bearers
      <3>. QED  BY <2>1, <2>5, <3>2, <3>3, <3>4, <3>5 DEF Turned
    <2>. QED  BY <1>1, <1>3, <2>4, <2>5, Constants
  <1>. QED  BY <1>5, <1>6, <1>7, <1>8, <1>9 DEF ComMainFunction

(* Time: the state grows older, an association goes on, and what is up     *)
(* stays up while it is in reach.                                          *)
LEMMA Passes ==
    ASSUME BearerInv, NetTick
    PROVE  /\ net'.state = net.state /\ net'.requested = net.requested /\ net'.active = net.active
           /\ net'.backoff = net.backoff
           /\ net'.age = IF net.age < Oldest THEN net.age + 1 ELSE net.age
           /\ radio'.modem = radio.modem /\ radio'.attached = radio.attached
           /\ radio'.join \in {0, radio.join} \/ (radio.join < JoinTime /\ radio'.join = radio.join + 1)
           /\ radio.wifi = "up" /\ air.wifi => radio'.wifi = "up"
           /\ radio.wifi = "joining" /\ air.wifi =>
                  \/ radio'.wifi = "up"
                  \/ radio'.wifi = "joining" /\ radio.join < JoinTime /\ radio'.join = radio.join + 1
           /\ busy' = (IF busy > 0 THEN busy - 1 ELSE 0) /\ air' = air
  <1>1. /\ net \in Nets /\ radio \in Radios /\ radio' \in WifiLater(radio) /\ air \in Airs
        /\ net' = [net EXCEPT !.age = IF @ < Oldest THEN @ + 1 ELSE @]
        /\ busy' = (IF busy > 0 THEN busy - 1 ELSE 0) /\ air' = air
    BY DEF BearerInv, NetTick
  <1>2. /\ net'.state = net.state /\ net'.requested = net.requested /\ net'.active = net.active
        /\ net'.backoff = net.backoff
        /\ net'.age = IF net.age < Oldest THEN net.age + 1 ELSE net.age
    BY <1>1 DEF Nets
  <1>3. CASE radio.wifi = "joining" /\ air.wifi
    <2>1. \/ radio' = [radio EXCEPT !.wifi = "up", !.join = 0]
          \/ radio.join < JoinTime /\ radio' = [radio EXCEPT !.join = radio.join + 1]
      BY <1>1, <1>3 DEF WifiLater
    <2>2. /\ radio'.modem = radio.modem /\ radio'.attached = radio.attached
          /\ \/ radio'.wifi = "up" /\ radio'.join = 0
             \/ radio'.wifi = "joining" /\ radio.join < JoinTime /\ radio'.join = radio.join + 1
      BY <1>1, <1>3, <2>1 DEF Radios
    <2>. QED  BY <1>1, <1>2, <1>3, <2>2
  <1>4. CASE radio.wifi = "joining" /\ ~air.wifi
    <2>1. \/ radio' = [radio EXCEPT !.join = 0]
          \/ radio' = [radio EXCEPT !.wifi = "lost", !.join = 0]
      BY <1>1, <1>4 DEF WifiLater
    <2>2. radio'.modem = radio.modem /\ radio'.attached = radio.attached /\ radio'.join = 0
      BY <1>1, <2>1 DEF Radios
    <2>. QED  BY <1>1, <1>2, <1>4, <2>2
  <1>5. CASE radio.wifi # "joining"
    <2>1. radio' = radio \/ (~air.wifi /\ radio' = [radio EXCEPT !.wifi = "lost"])
      BY <1>1, <1>5 DEF WifiLater
    <2>2. /\ radio'.modem = radio.modem /\ radio'.attached = radio.attached
          /\ radio'.join = radio.join /\ (air.wifi => radio'.wifi = radio.wifi)
      BY <1>1, <2>1 DEF Radios
    <2>. QED  BY <1>1, <1>2, <1>5, <2>2
  <1>. QED  BY <1>3, <1>4, <1>5

LEMMA Modes ==
    ASSUME ChoiceInv, RequestMode
    PROVE  /\ denied' = NotDenied /\ pc' = pc /\ pc \in {"sleep", "comm"} /\ air' = air
           /\ comm' \in Comms
           /\ \/ /\ comm'.full /\ comm'.preferred = "wifi" /\ comm'.failures = NoFailures
                 /\ comm'.attempt = 0 /\ net.requested = None /\ RequestBearer("wifi")
              \/ ~comm'.full /\ ReleaseBearer
  <1>1. comm \in Comms
    BY DEF ChoiceInv, ComTypeOK, Comms, Counts
  <1>2. 0 \in Counts /\ 0 \in 0 .. Allowance /\ 0 \in 0 .. PreferredRetry
    BY Constants DEF Counts
  <1>3. denied' = NotDenied /\ pc' = pc /\ pc \in {"sleep", "comm"} /\ air' = air
    BY DEF RequestMode
  <1>4. CASE RequestFullCommunication
    <2>1. ChooseBearer(NoFailures) = [bearer |-> "wifi", failures |-> NoFailures]
      BY Constants DEF ChooseBearer, NoFailures, Bearers
    <2>2. /\ comm' = [full |-> TRUE, preferred |-> "wifi", failures |-> NoFailures,
                      attempt |-> 0, fallback |-> 0]
          /\ RequestBearer("wifi") /\ ~comm.full
      BY <1>4, <2>1 DEF RequestFullCommunication
    <2>3. NoFailures \in [Bearers -> Counts] /\ "wifi" \in Bearers
      BY <1>2 DEF NoFailures, Bearers
    <2>4. comm' \in Comms
      BY <1>2, <2>2, <2>3 DEF Comms
    <2>5. net.requested = None
      BY <2>2 DEF ChoiceInv
    <2>. QED  BY <1>3, <2>2, <2>4, <2>5
  <1>5. CASE RequestNoCommunication
    <2>1. comm' = [comm EXCEPT !.full = FALSE, !.preferred = None] /\ ReleaseBearer
      BY <1>5 DEF RequestNoCommunication
    <2>2. comm' \in Comms /\ ~comm'.full
      BY <1>1, <2>1 DEF Comms
    <2>. QED  BY <1>3, <2>1, <2>2
  <1>. QED  BY <1>4, <1>5 DEF RequestMode

LEMMA Released ==
    ASSUME BearerInv, ReleaseBearer
    PROVE  /\ net'.state = "down" /\ net'.requested = None /\ net'.backoff = 0
           /\ net'.age \in {0, net.age} /\ busy' = busy
           /\ radio' = StopBearer(radio, net.requested)
  BY DEF ReleaseBearer, EnterState, BearerInv, Nets

(* The steps that do not touch the bearers.                                *)
Aside == RequestArrives \/ PublishLive \/ ServeBackfill \/ CardFails \/ StorageStep \/ UNCHANGED vars

LEMMA AsideIs ==
    ASSUME Aside
    PROVE  /\ UNCHANGED <<net, radio, busy, air, comm, denied>>
           /\ \/ pc' = pc
              \/ busy = 0 /\ net.state = "sessionUp" /\ pc = "net" /\ pc' = "live"
              \/ busy = 0 /\ pc \in {"live", "sent", "serve"} /\ pc' \in {"sleep", "sent", "serve"}
  BY DEF Aside, RequestArrives, PublishLive, ServeBackfill, CardFails, StorageStep, Frame, At,
         vars, netVars, taskVars

LEMMA Steps ==
    ASSUME [Next]_vars
    PROVE  Aside \/ CommStep \/ NetStep \/ Tick \/ Change \/ RequestMode
  BY DEF Next, Activation, Aside

(* A bearer is requested: the task may be blocked, nothing else is far.    *)
LEMMA RequestBounds ==
    ASSUME BearerInv, BoundsInv, busy = 0, NEW b \in Bearers, net.requested # b, RequestBearer(b),
           pc' \in {"sleep", "comm", "net"}, b = "gsm" => pc' = "net"
    PROVE  BoundsInv'
  <1>1. /\ net'.state = "connecting" /\ net'.requested = b /\ net'.backoff = 0
        /\ net'.age = IF net.state = "connecting" THEN net.age ELSE 0
        /\ radio' \in StartBearer(StopBearer(radio, net.requested), b)
        /\ busy' \in Blocks(b)
    BY Requested
  <1>2. /\ net \in Nets /\ radio \in Radios /\ air \in Airs /\ StopBearer(radio, net.requested) \in Radios
        /\ StopBearer(radio, net.requested).join \in {0, radio.join}
    BY StopIs, StopFields DEF BearerInv
  <1>3. radio'.join \in {0, radio.join}
    <2>. DEFINE r == StopBearer(radio, net.requested)
    <2>1. r \in Radios /\ r.join \in {0, radio.join} /\ radio' \in StartBearer(r, b)
      BY <1>1, <1>2
    <2>. HIDE DEF r
    <2>2. radio'.join \in {0, r.join}
      BY <1>2, <2>1, StartFields DEF Bearers
    <2>. QED  BY <2>1, <2>2
  <1>4. busy' \in {0, BlockTime} /\ (busy' > 0 => b = "gsm")
    BY <1>1, Constants DEF Blocks
  <1>. QED  BY <1>1, <1>2, <1>3, <1>4, Constants, OldestIs DEF BoundsInv, Nets, Radios

LEMMA BoundsStep == BearerInv /\ BoundsInv /\ ChoiceInv /\ [Next]_vars => BoundsInv'
  <1>. SUFFICES ASSUME BearerInv, BoundsInv, ChoiceInv, [Next]_vars PROVE BoundsInv'
    OBVIOUS
  <1>0. /\ net \in Nets /\ radio \in Radios /\ air \in Airs
        /\ net.backoff \in Nat /\ net.age \in Nat /\ radio.join \in Nat
        /\ net.backoff <= MaxBackoff /\ net.age <= Oldest /\ radio.join <= JoinTime
        /\ busy \in Nat /\ busy <= BlockTime
        /\ (busy > 0 => /\ net.requested = "gsm" /\ pc \in {"net", "live"}
                        /\ pc = "net" => net.state = "connecting")
        /\ (net.state \in {"linkUp", "sessionUp"} => net.active = net.requested)
        /\ pc \in {"sleep", "comm", "net", "live", "sent", "serve"}
        /\ {"wifi", "gsm"} = Bearers
    BY DEF BearerInv, BoundsInv, Nets, Radios, Bearers
  <1>1. CASE Aside
    BY <1>0, <1>1, AsideIs DEF BoundsInv
  <1>2. CASE CommStep
    <2>1. pc = "comm" /\ busy = 0 /\ pc' = "net" /\ ComMainFunction
      BY <1>2 DEF CommStep, At
    <2>2. CASE UNCHANGED netVars
      BY <1>0, <2>1, <2>2 DEF BoundsInv, netVars
    <2>3. CASE ~(UNCHANGED netVars)
      <3>1. comm.full /\ (Turned \/ Returned)
        <4>1. comm.full
          BY <2>1, <2>3 DEF ComMainFunction
        <4>. QED  BY <2>1, <2>3, <4>1, Decisions DEF Trying, Kept, Failed
      <3>2. comm.preferred = net.requested
        BY <3>1 DEF ChoiceInv
      <3>3. \E b \in Bearers : net.requested # b /\ RequestBearer(b)
        BY <1>0, <3>1, <3>2 DEF Turned, Returned
      <3>. QED  BY <2>1, <3>3, RequestBounds
    <2>. QED  BY <2>2, <2>3
  <1>3. CASE NetStep
    <2>1. pc = "net" /\ busy = 0 /\ pc' = "live" /\ NetMainFunction
      BY <1>3 DEF NetStep, At
    <2>2. net'.requested = net.requested /\ (Still \/ LinkFound \/ GivenUp \/ Opened \/ Dropped \/ TriedAgain)
      BY <2>1, Moves
    <2>3. CASE Still
      BY <1>0, <2>1, <2>3 DEF Still, BoundsInv
    <2>4. CASE LinkFound \/ Opened
      BY <1>0, <2>1, <2>2, <2>4, Constants, OldestIs DEF LinkFound, Opened, BoundsInv
    <2>5. CASE GivenUp \/ Dropped
      <3>1. radio'.join \in {0, radio.join} /\ busy' = 0 /\ net'.state = "backoff" /\ net'.age = 0
            /\ net'.backoff = Doubled(net.backoff)
        BY <2>1, <2>5, StopFields DEF GivenUp, Dropped
      <3>2. Doubled(net.backoff) <= MaxBackoff
        BY <1>0, DoubledIs
      <3>. QED  BY <1>0, <2>1, <3>1, <3>2, Constants, OldestIs DEF BoundsInv
    <2>6. CASE TriedAgain
      <3>1. /\ net'.state = "connecting" /\ net'.age = 0 /\ net'.backoff = net.backoff
            /\ radio' \in StartBearer(radio, net.requested) /\ busy' \in Blocks(net.requested)
            /\ net.state = "backoff"
        BY <2>6 DEF TriedAgain
      <3>2. net.requested \in Bearers
        BY <1>0, <3>1 DEF BearerInv, Nets
      <3>3. radio'.join \in {0, radio.join}
        BY <1>0, <3>1, <3>2, StartFields
      <3>4. busy' \in {0, BlockTime} /\ (busy' > 0 => net.requested = "gsm")
        BY <3>1, Constants DEF Blocks
      <3>. QED  BY <1>0, <2>1, <2>2, <3>1, <3>3, <3>4, Constants, OldestIs DEF BoundsInv
    <2>. QED  BY <2>2, <2>3, <2>4, <2>5, <2>6
  <1>4. CASE Tick
    <2>1. (pc = "sleep" \/ busy > 0) /\ pc' = (IF pc = "sleep" THEN "comm" ELSE pc) /\ NetTick
      BY <1>4 DEF Tick
    <2>2. /\ net'.state = net.state /\ net'.requested = net.requested /\ net'.active = net.active
          /\ net'.backoff = net.backoff
          /\ net'.age = IF net.age < Oldest THEN net.age + 1 ELSE net.age
          /\ radio'.join \in {0, radio.join} \/ (radio.join < JoinTime /\ radio'.join = radio.join + 1)
          /\ busy' = (IF busy > 0 THEN busy - 1 ELSE 0)
      BY <2>1, Passes
    <2>3. net'.age <= Oldest /\ radio'.join <= JoinTime /\ busy' \in Nat /\ busy' <= BlockTime
          /\ (busy' > 0 => busy > 0)
      BY <1>0, <2>2, Constants, OldestIs
    <2>. QED  BY <1>0, <2>1, <2>2, <2>3 DEF BoundsInv
  <1>5. CASE Change
    BY <1>0, <1>5 DEF Change, netVars, BoundsInv
  <1>6. CASE RequestMode
    <2>1. pc' = pc /\ pc \in {"sleep", "comm"} /\ busy = 0
      BY <1>0, <1>6, Modes
    <2>2. CASE net.requested = None /\ RequestBearer("wifi")
      <3>1. net.requested # "wifi" /\ "wifi" \in Bearers
        BY <1>0, <2>2 DEF None
      <3>. QED  BY <2>1, <2>2, <3>1, RequestBounds
    <2>3. CASE ReleaseBearer
      <3>1. /\ net'.state = "down" /\ net'.backoff = 0 /\ net'.age \in {0, net.age} /\ busy' = busy
            /\ radio'.join \in {0, radio.join}
        BY <2>3, Released, StopFields
      <3>. QED  BY <1>0, <2>1, <3>1, Constants, OldestIs DEF BoundsInv
    <2>. QED  BY <1>6, <2>2, <2>3, Modes
  <1>. QED  BY <1>1, <1>2, <1>3, <1>4, <1>5, <1>6, Steps

LEMMA CommIs ==
    ASSUME ChoiceInv
    PROVE  /\ comm \in Comms /\ comm.failures \in [Bearers -> Counts]
           /\ comm.attempt \in Nat /\ comm.attempt <= Allowance
  <1>1. comm \in Comms
    BY DEF ChoiceInv, ComTypeOK, Comms, Counts
  <1>2. comm.attempt \in 0 .. Allowance
    BY <1>1 DEF Comms
  <1>. QED  BY <1>1, <1>2, Constants DEF Comms

LEMMA CommTicks ==
    ASSUME ChoiceInv, ComTick
    PROVE  /\ comm' \in Comms /\ comm'.full = comm.full /\ comm'.preferred = comm.preferred
           /\ comm'.failures = comm.failures
           /\ comm'.attempt = IF comm.attempt < Allowance THEN comm.attempt + 1 ELSE comm.attempt
  <1>1. comm \in Comms /\ comm.attempt \in 0 .. Allowance /\ comm.fallback \in 0 .. PreferredRetry
    BY CommIs DEF Comms
  <1>. DEFINE a == IF comm.attempt < Allowance THEN comm.attempt + 1 ELSE comm.attempt
              k == IF comm.fallback < PreferredRetry THEN comm.fallback + 1 ELSE comm.fallback
  <1>2. a \in 0 .. Allowance /\ k \in 0 .. PreferredRetry
    BY <1>1, Constants
  <1>3. comm' = [comm EXCEPT !.attempt = a, !.fallback = k]
    BY DEF ComTick
  <1>. HIDE DEF a, k
  <1>4. /\ comm' \in Comms /\ comm'.full = comm.full /\ comm'.preferred = comm.preferred
        /\ comm'.failures = comm.failures /\ comm'.attempt = a
    BY <1>1, <1>2, <1>3 DEF Comms
  <1>. QED  BY <1>4 DEF a

LEMMA ChoiceStep == BearerInv /\ BoundsInv /\ ChoiceInv /\ [Next]_vars => ChoiceInv'
  <1>. SUFFICES ASSUME BearerInv, BoundsInv, ChoiceInv, [Next]_vars PROVE ChoiceInv'
    OBVIOUS
  <1>0. /\ comm \in Comms /\ comm.failures \in [Bearers -> Counts]
        /\ comm.attempt \in Nat /\ comm.attempt <= Allowance
        /\ \A n \in Counts : n \in Nat
        /\ {"wifi", "gsm"} = Bearers /\ None \notin Bearers
    BY CommIs, Constants DEF Counts, Bearers, None
  <1>a. ASSUME comm' \in Comms
        PROVE  ComTypeOK'
    BY <1>a DEF ComTypeOK, Comms, Counts
  <1>1. CASE Aside
    BY <1>1, AsideIs DEF ChoiceInv, ComTypeOK
  <1>2. CASE CommStep
    <2>1. pc = "comm" /\ pc' = "net" /\ ComMainFunction
      BY <1>2 DEF CommStep, At
    <2>2. CASE ~comm.full
      <3>1. UNCHANGED <<comm, net>>
        BY <2>1, <2>2 DEF ComMainFunction, netVars
      <3>. QED  BY <2>2, <3>1 DEF ChoiceInv, ComTypeOK
    <2>3. CASE comm.full /\ Trying
      <3>1. comm' = comm /\ net' = net /\ comm.attempt # Allowance
        BY <1>0, <2>3, Constants DEF Trying, netVars
      <3>. QED  BY <2>3, <3>1 DEF ChoiceInv, ComTypeOK
    <2>4. CASE comm.full /\ comm'.full /\ comm'.attempt = 0 /\ comm' \in Comms /\ (Kept \/ Failed)
      <3>1. net' = net /\ comm'.preferred = comm.preferred
        BY <2>4 DEF Kept, Failed, netVars
      <3>2. /\ comm'.failures[comm.preferred] < FailureLimit
            /\ \A b \in Bearers : b # comm.preferred => comm'.failures[b] = comm.failures[b]
        BY <1>0, <2>4, Constants DEF Kept, Failed, ChoiceInv
      <3>3. comm'.attempt # Allowance
        BY <2>4, Constants
      <3>. QED  BY <1>a, <1>0, <2>4, <3>1, <3>2, <3>3 DEF ChoiceInv
    <2>5. CASE comm.full /\ comm'.full /\ comm'.attempt = 0 /\ comm' \in Comms /\ (Turned \/ Returned)
      <3>1. /\ comm'.preferred \in Bearers /\ comm'.preferred # net.requested
            /\ RequestBearer(comm'.preferred)
        BY <1>0, <2>5 DEF Turned, Returned, ChoiceInv
      <3>2. net'.requested = comm'.preferred
        BY <3>1, Requested
      <3>3. /\ comm'.failures[comm'.preferred] < FailureLimit
            /\ comm'.preferred = "wifi" => comm'.failures["gsm"] = 0
            /\ comm'.preferred = "gsm" => comm'.failures["wifi"] = FailureLimit
        <4>1. CASE Turned /\ comm.preferred = "gsm"
          <5>1. comm'.preferred = "wifi" /\ comm'.failures = NoFailures
            BY <1>0, <4>1 DEF Turned
          <5>. QED  BY <1>0, <5>1, Constants DEF NoFailures
        <4>2. CASE Turned /\ comm.preferred = "wifi"
          <5>1. /\ comm'.preferred = "gsm" /\ comm.failures["gsm"] = 0
                /\ comm'.failures = [comm.failures EXCEPT !["wifi"] = FailureLimit]
            BY <1>0, <2>5, <4>2 DEF Turned, ChoiceInv
          <5>. QED  BY <1>0, <5>1, Constants
        <4>3. CASE Returned
          <5>1. /\ comm'.preferred = "wifi"
                /\ comm'.failures = [[comm.failures EXCEPT !["gsm"] = 0] EXCEPT !["wifi"] = 0]
            BY <4>3 DEF Returned
          <5>. QED  BY <1>0, <5>1, Constants
        <4>4. comm.preferred \in Bearers
          BY <2>5 DEF ChoiceInv
        <4>. QED  BY <1>0, <2>5, <4>1, <4>2, <4>3, <4>4
      <3>4. comm'.attempt # Allowance
        BY <2>5, Constants
      <3>. QED  BY <1>a, <2>5, <3>1, <3>2, <3>3, <3>4 DEF ChoiceInv
    <2>. QED  BY <2>1, <2>2, <2>3, <2>4, <2>5, Decisions
  <1>3. CASE NetStep
    <2>1. pc' = "live" /\ net'.requested = net.requested /\ comm' = comm
      BY <1>3, Moves DEF NetStep, At
    <2>. QED  BY <2>1 DEF ChoiceInv, ComTypeOK
  <1>4. CASE Tick
    <2>1. /\ (pc = "sleep" \/ busy > 0) /\ pc' = (IF pc = "sleep" THEN "comm" ELSE pc)
          /\ NetTick /\ ComTick
      BY <1>4 DEF Tick
    <2>2. net'.state = net.state /\ net'.requested = net.requested
      BY <2>1, Passes
    <2>3. pc' = "net" => net.state = "connecting"
      BY <2>1 DEF BoundsInv
    <2>. QED  BY <1>a, <2>1, <2>2, <2>3, CommTicks DEF ChoiceInv
  <1>5. CASE Change
    BY <1>5 DEF Change, netVars, ChoiceInv, ComTypeOK
  <1>6. CASE RequestMode
    <2>1. pc' # "net" /\ comm' \in Comms
      BY <1>6, Modes
    <2>2. CASE /\ comm'.full /\ comm'.preferred = "wifi" /\ comm'.failures = NoFailures
               /\ net.requested = None /\ RequestBearer("wifi")
      <3>1. net'.requested = "wifi"
        BY <1>0, <2>2, Requested
      <3>. QED  BY <1>0, <1>a, <2>1, <2>2, <3>1, Constants DEF ChoiceInv, NoFailures
    <2>3. CASE ~comm'.full /\ ReleaseBearer
      BY <1>a, <2>1, <2>3, Released DEF ChoiceInv
    <2>. QED  BY <1>6, <2>2, <2>3, Modes
  <1>. QED  BY <1>1, <1>2, <1>3, <1>4, <1>5, <1>6, Steps

LEMMA DeniedStep == BearerInv /\ BoundsInv /\ ChoiceInv /\ DeniedInv /\ [Next]_vars => DeniedInv'
  <1>. SUFFICES ASSUME BearerInv, BoundsInv, ChoiceInv, DeniedInv, [Next]_vars PROVE DeniedInv'
    OBVIOUS
  <1>0. /\ denied \in [Bearers -> Nat] /\ \A b \in Bearers : denied[b] > 0 => Healthy(b)
        /\ (net.state = "sessionUp" /\ pc \in {"comm", "net"} => denied = NotDenied)
    BY DEF DeniedInv
  <1>1. CASE Aside
    <2>1. UNCHANGED <<net, air, denied>> /\ (pc' \in {"comm", "net"} => pc' = pc)
      BY <1>1, AsideIs
    <2>. QED  BY <1>0, <2>1 DEF DeniedInv, Healthy, NotDenied
  <1>2. CASE CommStep
    <2>1. pc = "comm" /\ pc' = "net" /\ ComMainFunction /\ UNCHANGED <<air, denied>>
      BY <1>2 DEF CommStep, At
    <2>2. net'.state = "sessionUp" => net' = net
      <3>1. CASE UNCHANGED netVars
        BY <3>1 DEF netVars
      <3>2. CASE ~(UNCHANGED netVars)
        <4>1. comm.full /\ (Turned \/ Returned)
          <5>1. comm.full
            BY <2>1, <3>2 DEF ComMainFunction
          <5>. QED  BY <2>1, <3>2, <5>1, Decisions DEF Trying, Kept, Failed
        <4>2. \E b \in Bearers : net.requested # b /\ RequestBearer(b)
          BY <4>1 DEF Turned, Returned, ChoiceInv, Bearers
        <4>. QED  BY <4>2, Requested
      <3>. QED  BY <3>1, <3>2
    <2>. QED  BY <1>0, <2>1, <2>2 DEF DeniedInv, Healthy, NotDenied
  <1>3. CASE NetStep
    <2>1. pc' = "live" /\ UNCHANGED <<air, denied>>
      BY <1>3 DEF NetStep, At
    <2>. QED  BY <1>0, <2>1 DEF DeniedInv, Healthy
  <1>4. CASE Tick
    <2>1. /\ NetTick /\ air' = air
          /\ denied' = [b \in Bearers |-> IF env = "bearers" /\ Healthy(b) /\ net.state # "sessionUp"
                                          THEN Waiting(denied[b]) ELSE 0]
      BY <1>4 DEF Tick, NetTick
    <2>2. \A b \in Bearers : Waiting(denied[b]) \in Nat
      BY <1>0 DEF Waiting
    <2>3. denied' \in [Bearers -> Nat] /\ \A b \in Bearers : denied'[b] > 0 => Healthy(b)
      BY <2>1, <2>2
    <2>4. net'.state = "sessionUp" => denied' = NotDenied
      <3>1. net'.state = net.state
        BY <2>1, Passes
      <3>. QED  BY <2>1, <3>1 DEF NotDenied
    <2>. QED  BY <2>1, <2>3, <2>4 DEF DeniedInv, Healthy, NotDenied
  <1>5. CASE Change
    <2>1. /\ denied' = [b \in Bearers |-> IF air'[b] /\ air'.broker THEN denied[b] ELSE 0]
          /\ net' = net /\ pc' = pc
      BY <1>5 DEF Change, netVars
    <2>2. denied' \in [Bearers -> Nat] /\ \A b \in Bearers : denied'[b] > 0 => Healthy(b)'
      BY <1>0, <2>1 DEF Healthy
    <2>3. net'.state = "sessionUp" /\ pc' \in {"comm", "net"} => denied' = NotDenied
      BY <1>0, <2>1 DEF NotDenied
    <2>. QED  BY <2>2, <2>3 DEF DeniedInv, NotDenied
  <1>6. CASE RequestMode
    BY <1>6, Modes DEF DeniedInv, NotDenied
  <1>. QED  BY <1>1, <1>2, <1>3, <1>4, <1>5, <1>6, Steps

LEMMA TrialsAre ==
    ASSUME NEW b \in Bearers
    PROVE  /\ Stay(b) \in Nat /\ Stay(b) <= BlockTime /\ Allowance + Stay(b) \in Nat \ {0}
           /\ Trial(b) \in Nat /\ Start(b) \in Nat
           /\ Longest(b) \in Nat /\ Longest(b) = Trial("wifi") + Trial("gsm") + Start(b)
  <1>1. \A a \in Bearers : /\ Stay(a) \in Nat /\ Stay(a) <= BlockTime /\ Allowance + Stay(a) \in Nat \ {0}
                           /\ Start(a) \in Nat
    BY Constants DEF Stay, Start
  <1>2. \A m, n \in Nat : m * n \in Nat
    OBVIOUS
  <1>3. \A a \in Bearers : Trial(a) \in Nat
    BY <1>1, <1>2, Constants DEF Trial
  <1>4. "wifi" \in Bearers /\ "gsm" \in Bearers
    BY DEF Bearers
  <1>. HIDE DEF Trial, Start
  <1>. QED  BY <1>1, <1>3, <1>4 DEF Longest

(* What has been spent of a trial is at most the trial.                    *)
LEMMA SpentIs ==
    ASSUME NEW c \in Comms, NEW p \in Bearers, p = c.preferred, c.failures[p] < FailureLimit, NEW at,
           NEW n \in Nat, n <= Stay(p)
    PROVE  /\ SpentBy(c, at, n) \in Nat /\ SpentBy(c, at, n) <= Trial(p)
           /\ c.failures[p] \in Nat /\ c.attempt \in Nat /\ c.attempt <= Allowance
           /\ Overrun(c, at, n) \in Int
           /\ c.failures[p] * (Allowance + Stay(p)) \in Nat
           /\ (c.failures[p] + 1) * (Allowance + Stay(p))
              = c.failures[p] * (Allowance + Stay(p)) + (Allowance + Stay(p))
  <1>. DEFINE f == c.failures[p]
              k == Allowance + Stay(p)
  <1>1. f \in Nat /\ c.attempt \in Nat /\ c.attempt <= Allowance
    BY Constants DEF Comms, Counts
  <1>2. k \in Nat \ {0} /\ Stay(p) \in Nat
    BY TrialsAre
  <1>3. /\ Overrun(c, at, n) \in Int /\ Overrun(c, at, n) <= Stay(p)
        /\ c.attempt + Overrun(c, at, n) >= 0
    BY <1>1, <1>2, Constants DEF Overrun
  <1>. HIDE DEF k, f
  <1>4. f * k \in Nat /\ (f + 1) * k = f * k + k /\ (f + 1) * k <= FailureLimit * k
    BY <1>1, <1>2, Multiples, NextMultiple, Constants, f < FailureLimit DEF f
  <1>5. SpentBy(c, at, n) = f * k + c.attempt + Overrun(c, at, n) /\ Trial(p) = FailureLimit * k
    BY DEF SpentBy, Trial, f, k
  <1>6. k = Allowance + Stay(p)
    BY DEF k
  <1>7. \A t \in Nat : t + c.attempt + Overrun(c, at, n) \in Nat
                       /\ t + c.attempt + Overrun(c, at, n) <= t + k
    BY <1>1, <1>2, <1>3, <1>6, Constants
  <1>8. SpentBy(c, at, n) \in Nat /\ SpentBy(c, at, n) <= f * k + k
    BY <1>4, <1>5, <1>7
  <1>9. SpentBy(c, at, n) <= Trial(p)
    <2>1. \A s, t, u \in Nat : s <= t /\ t <= u => s <= u
      OBVIOUS
    <2>2. FailureLimit * k \in Nat /\ f * k + k \in Nat
      BY <1>2, <1>4, Constants, Multiples
    <2>. QED  BY <1>4, <1>5, <1>8, <2>1, <2>2
  <1>. QED  BY <1>1, <1>3, <1>4, <1>8, <1>9 DEF f, k

(* What the invariants say of the trial under way.                         *)
LEMMA TrialNow ==
    ASSUME BoundsInv, ChoiceInv, comm.full
    PROVE  /\ comm \in Comms /\ comm.preferred \in Bearers /\ comm.preferred = net.requested
           /\ comm.failures[comm.preferred] < FailureLimit
           /\ busy \in Nat /\ busy <= Stay(comm.preferred)
           /\ Spent \in Nat /\ Spent <= Trial(comm.preferred) /\ Left \in Int
  <1>1. /\ comm \in Comms /\ comm.preferred \in Bearers /\ comm.preferred = net.requested
        /\ comm.failures[comm.preferred] < FailureLimit
        /\ comm.attempt \in Nat /\ comm.failures[comm.preferred] \in Nat
    <2>1. comm.preferred \in Bearers
      BY DEF ChoiceInv
    <2>2. comm.failures[comm.preferred] \in Counts
      BY <2>1, CommIs
    <2>. QED  BY <2>1, <2>2, CommIs, Constants DEF ChoiceInv, Counts
  <1>2. busy \in Nat /\ busy <= Stay(comm.preferred)
    BY <1>1, Constants DEF BoundsInv, Stay
  <1>3. Spent \in Nat /\ Spent <= Trial(comm.preferred)
    BY <1>1, <1>2, SpentIs DEF Spent
  <1>4. Left \in Int
    <2>1. \A m, n \in Int : m * n \in Int
      OBVIOUS
    <2>. QED  BY <1>1, <2>1, Constants DEF Left
  <1>. QED  BY <1>1, <1>2, <1>3, <1>4

LEMMA TrialNext ==
    ASSUME BoundsInv', ChoiceInv', comm'.full
    PROVE  /\ comm' \in Comms /\ comm'.preferred \in Bearers /\ comm'.preferred = net'.requested
           /\ comm'.failures[comm'.preferred] < FailureLimit
           /\ busy' \in Nat /\ busy' <= Stay(comm'.preferred)
           /\ Spent' = SpentBy(comm', pc', busy')
           /\ Spent' \in Nat /\ Spent' <= Trial(comm'.preferred)
  <1>1. /\ comm' \in Comms /\ comm'.preferred \in Bearers /\ comm'.preferred = net'.requested
        /\ comm'.failures[comm'.preferred] < FailureLimit
    BY DEF ChoiceInv, ComTypeOK, Comms, Counts
  <1>2. busy' \in Nat /\ busy' <= Stay(comm'.preferred)
    BY <1>1, Constants DEF BoundsInv, Stay
  <1>3. Spent' = SpentBy(comm', pc', busy')
    BY DEF Spent, SpentBy, Overrun, Stay
  <1>. HIDE DEF SpentBy
  <1>4. Spent' \in Nat /\ Spent' <= Trial(comm'.preferred)
    BY <1>1, <1>2, <1>3, SpentIs
  <1>. QED  BY <1>1, <1>2, <1>3, <1>4

(* A bearer that has not waited.                                           *)
LEMMA NotWaiting ==
    ASSUME BoundsInv', ChoiceInv', comm'.full, NEW b \in Bearers, denied'[b] = 0
    PROVE  Phase(b)'
  <1>1. Spent' \in Nat
    BY TrialNext
  <1>2. Trial(b) \in Nat /\ Trial(b)' = Trial(b)
    BY TrialsAre DEF Trial, Stay
  <1>3. 0 <= Spent' /\ 0 <= Trial(b) + Spent'
    BY <1>1, <1>2
  <1>. QED  BY <1>2, <1>3 DEF Phase


(* On its course: the bearer that is requested has a session within n.     *)
LEMMA CourseTick ==
    ASSUME BearerInv, BoundsInv, Patient, NEW b \in Bearers, b = net.requested, Healthy(b),
           net.state # "sessionUp", NEW n \in Nat, Course(b, n), Tick
    PROVE  n >= 1 /\ Course(b, n - 1)'
  <1>1. /\ pc = "sleep" \/ busy > 0
        /\ pc' = IF pc = "sleep" THEN "comm" ELSE pc
        /\ NetTick
    BY DEF Tick
  <1>2. /\ net.state = net'.state /\ net'.backoff = net.backoff
        /\ net'.age = IF net.age < Oldest THEN net.age + 1 ELSE net.age
        /\ busy' = IF busy > 0 THEN busy - 1 ELSE 0
    BY <1>1, Passes
  <1>3. /\ net.backoff \in Nat /\ net.age \in Nat /\ radio.join \in Nat /\ radio.join <= JoinTime
        /\ net.backoff <= MaxBackoff /\ net.age <= Oldest /\ busy \in Nat
        /\ (busy > 0 => net.requested = "gsm" /\ pc \in {"net", "live"})
    BY DEF BearerInv, BoundsInv, Nets, Radios
  <1>4. Turn >= 1 /\ Turn' = Turn - 1 /\ Turn \in Nat
    BY <1>1, <1>2, <1>3 DEF Turn
  <1>5. b = "wifi" => busy = 0 /\ Turn = 1
    BY <1>1, <1>3 DEF Turn
  <1>6. BearerIsUp(radio, b) => BearerIsUp(radio, b)'
    BY <1>1, Passes DEF Healthy, BearerIsUp, WifiIsUp, GsmIsUp
  <1>7. /\ JoinTime \in Nat /\ MinBackoff \in Nat /\ LinkTimeout \in Nat /\ MaxBackoff <= Oldest /\ Oldest \in Nat
        /\ MaxBackoff \in Nat
    BY Constants, OldestIs
  <1>. HIDE DEF Turn
  <1>8. CASE net.state \in {"linkUp", "connecting"} /\ BearerIsUp(radio, b)
             /\ n >= Turn + (IF net.state = "linkUp" THEN 0 ELSE 1)
    BY <1>2, <1>4, <1>6, <1>8 DEF Course
  <1>9. CASE /\ b = "wifi" /\ net.state = "connecting" /\ radio.wifi = "joining"
             /\ \/ net.age + JoinTime - radio.join < LinkTimeout /\ n >= JoinTime - radio.join + 2
                \/ net.backoff = 0 /\ n >= 2 * JoinTime - radio.join + MinBackoff + 2
    <2>1. air.wifi
      BY <1>9 DEF Healthy
    <2>2. CASE radio'.wifi = "up"
      <3>1. BearerIsUp(radio, b)'
        BY <1>9, <2>2 DEF BearerIsUp, WifiIsUp
      <3>2. n >= 2
        BY <1>3, <1>7, <1>9
      <3>3. n - 1 >= Turn' + 1
        BY <1>4, <1>5, <1>9, <3>2
      <3>. QED  BY <1>2, <1>9, <3>1, <3>2, <3>3 DEF Course
    <2>3. CASE radio'.wifi = "joining" /\ radio.join < JoinTime /\ radio'.join = radio.join + 1
      <3>1. CASE net.age + JoinTime - radio.join < LinkTimeout /\ n >= JoinTime - radio.join + 2
        <4>1. net'.age + JoinTime - radio'.join < LinkTimeout /\ n - 1 >= JoinTime - radio'.join + 2
          BY <1>2, <1>3, <1>7, <2>3, <3>1
        <4>2. n >= 1
          BY <1>3, <1>7, <3>1
        <4>. QED  BY <1>2, <1>9, <2>3, <4>1, <4>2 DEF Course
      <3>2. CASE net.backoff = 0 /\ n >= 2 * JoinTime - radio.join + MinBackoff + 2
        <4>1. n - 1 >= 2 * JoinTime - radio'.join + MinBackoff + 2 /\ n >= 1
          BY <1>3, <1>7, <2>3, <3>2
        <4>. QED  BY <1>2, <1>9, <2>3, <3>2, <4>1 DEF Course
      <3>. QED  BY <1>9, <3>1, <3>2
    <2>. QED  BY <1>1, <1>9, <2>1, <2>2, <2>3, Passes
  <1>10. CASE /\ b = "wifi" /\ net.state = "backoff"
              /\ IF net.age < net.backoff THEN n >= net.backoff - net.age + JoinTime + 2
                 ELSE n >= Turn + JoinTime + 2
    <2>1. n >= 1
      BY <1>3, <1>4, <1>7, <1>10
    <2>2. IF net'.age < net'.backoff THEN n - 1 >= net'.backoff - net'.age + JoinTime + 2
          ELSE n - 1 >= Turn' + JoinTime + 2
      BY <1>2, <1>3, <1>4, <1>5, <1>7, <1>10
    <2>. QED  BY <1>2, <1>10, <2>1, <2>2 DEF Course
  <1>. QED  BY <1>8, <1>9, <1>10, <1>4 DEF Course

LEMMA CourseNet ==
    ASSUME BearerInv, BoundsInv, Patient, NEW b \in Bearers, b = net.requested, Healthy(b),
           net.state # "sessionUp", NEW n \in Nat, Course(b, n), NetStep
    PROVE  Course(b, n)'
  <1>1. pc = "net" /\ busy = 0 /\ pc' = "live" /\ NetMainFunction /\ air' = air
    BY DEF NetStep, At
  <1>2. net'.requested = net.requested /\ (Still \/ LinkFound \/ GivenUp \/ Opened \/ Dropped \/ TriedAgain)
    BY <1>1, Moves
  <1>3. /\ net.backoff \in Nat /\ net.age \in Nat /\ radio.join \in Nat /\ radio.join <= JoinTime
        /\ radio \in Radios /\ air \in Airs
    BY DEF BearerInv, BoundsInv, Nets, Radios
  <1>4. Turn = 0 /\ Turn' = busy' + 1
    BY <1>1 DEF Turn
  <1>5. /\ JoinTime \in Nat /\ MinBackoff \in Nat \ {0} /\ LinkTimeout \in Nat /\ JoinTime < LinkTimeout
    BY Constants DEF Patient
  <1>6. BearerIsUp(radio, b) => Carrier # None /\ air.broker
    BY DEF Healthy, Carrier, BearerIsUp, WifiIsUp, GsmIsUp, None, Bearers
  <1>7. radio.wifi = "joining" /\ b = "wifi" => ~BearerIsUp(radio, b)
    BY DEF BearerIsUp, WifiIsUp
  <1>8. radio' = radio => (BearerIsUp(radio, b) => BearerIsUp(radio, b)')
    BY <1>1 DEF BearerIsUp, WifiIsUp, GsmIsUp
  <1>. HIDE DEF Turn
  <1>9. CASE Still
    <2>1. net' = net /\ radio' = radio /\ busy' = 0 /\ net.state # "linkUp" /\ ~(net.state = "connecting" /\ BearerIsUp(radio, b))
      BY <1>1, <1>6, <1>9, Course(b, n) DEF Still, Course
    <2>2. net.state = "backoff" => net.age < net.backoff
      BY <1>9 DEF Still
    <2>. QED  BY <2>1, <2>2 DEF Course
  <1>10. CASE LinkFound
    <2>1. n >= 1
      BY <1>3, <1>4, <1>5, <1>7, <1>10 DEF Course, LinkFound
    <2>. QED  BY <1>1, <1>4, <1>8, <1>10, <2>1 DEF Course, LinkFound
  <1>11. CASE GivenUp
    <2>1. /\ b = "wifi" /\ net.backoff = 0 /\ n >= 2 * JoinTime - radio.join + MinBackoff + 2
      BY <1>3, <1>5, <1>11 DEF Course, GivenUp
    <2>2. net'.state = "backoff" /\ net'.age = 0 /\ net'.backoff = MinBackoff
      BY <1>11, <2>1, DoubledIs DEF GivenUp
    <2>3. n >= MinBackoff - 0 + JoinTime + 2 /\ 0 < MinBackoff
      BY <1>3, <1>5, <2>1
    <2>. QED  BY <2>1, <2>2, <2>3 DEF Course
  <1>12. CASE Opened
    BY <1>12 DEF Opened, Course
  <1>13. CASE Dropped
    BY <1>6, <1>13 DEF Dropped, Course
  <1>14. CASE TriedAgain
    <2>1. /\ b = "wifi" /\ n >= JoinTime + 2
      BY <1>3, <1>4, <1>5, <1>14 DEF Course, TriedAgain
    <2>2. /\ net'.state = "connecting" /\ net'.age = 0 /\ busy' = 0 /\ radio' \in StartBearer(radio, b)
      BY <1>14, <2>1 DEF TriedAgain, Blocks
    <2>3. (radio' = radio /\ WifiIsUp(radio)) \/ (radio'.wifi = "joining" /\ radio'.join = 0)
      BY <1>3, <2>1, <2>2, StartFields
    <2>4. CASE radio' = radio /\ WifiIsUp(radio)
      <3>1. BearerIsUp(radio, b)'
        BY <2>1, <2>4 DEF BearerIsUp, WifiIsUp
      <3>2. n >= Turn' + 1
        BY <1>4, <1>5, <2>1, <2>2
      <3>. QED  BY <2>2, <3>1, <3>2 DEF Course
    <2>5. CASE radio'.wifi = "joining" /\ radio'.join = 0
      <3>1. net'.age + JoinTime - radio'.join < LinkTimeout /\ n >= JoinTime - radio'.join + 2
        BY <1>5, <2>1, <2>2, <2>5
      <3>. QED  BY <2>1, <2>2, <2>5, <3>1 DEF Course
    <2>. QED  BY <2>3, <2>4, <2>5
  <1>. QED  BY <1>2, <1>9, <1>10, <1>11, <1>12, <1>13, <1>14

(* Nothing else puts it off: its course is a matter of the bearer alone.   *)
LEMMA CourseStays ==
    ASSUME UNCHANGED <<net, radio, busy>>, NEW b \in Bearers, Healthy(b), Healthy(b)',
           NEW n \in Nat, Course(b, n), net.state = "sessionUp" \/ Turn' = Turn
    PROVE  Course(b, n)'
  <1>1. BearerIsUp(radio, b) => BearerIsUp(radio, b)'
    BY DEF Healthy, BearerIsUp, WifiIsUp, GsmIsUp
  <1>. QED  BY <1>1 DEF Course

LEMMA CourseStarts ==
    ASSUME BearerInv, BoundsInv, NEW b \in Bearers, net.requested # b, RequestBearer(b),
           Healthy(b), air' = air, pc' = "net"
    PROVE  Course(b, Start(b))'
  <1>1. /\ net'.state = "connecting" /\ net'.backoff = 0
        /\ radio' \in StartBearer(StopBearer(radio, net.requested), b) /\ busy' \in Blocks(b)
    BY Requested
  <1>2. StopBearer(radio, net.requested) \in Radios /\ air \in Airs
    BY StopIs DEF BearerInv
  <1>3. Turn' = busy' + 0
    BY DEF Turn
  <1>4. CASE b = "gsm"
    <2>1. GsmIsUp(radio')
      BY <1>1, <1>2, <1>4, StartFields DEF Healthy
    <2>2. BearerIsUp(radio, b)'
      BY <1>4, <2>1 DEF BearerIsUp, GsmIsUp
    <2>3. Start(b) >= Turn' + 1
      BY <1>1, <1>3, <1>4, Constants DEF Start, Blocks
    <2>4. Course(b, Start(b))'
      BY <1>1, <2>2, <2>3 DEF Course, Start
    <2>. QED  BY <2>4
  <1>5. CASE b = "wifi"
    <2>1. WifiIsUp(radio') \/ (radio'.wifi = "joining" /\ radio'.join = 0)
      <3>. DEFINE r == StopBearer(radio, net.requested)
      <3>1. r \in Radios /\ radio' \in StartBearer(r, b)
        BY <1>1, <1>2
      <3>. HIDE DEF r
      <3>. QED  BY <1>2, <1>5, <3>1, StartFields
    <2>2. Start(b) = 2 * JoinTime + MinBackoff + 2 /\ busy' = 0 /\ Start(b) >= Turn' + 1
      BY <1>1, <1>3, <1>5, Constants DEF Start, Blocks
    <2>3. CASE WifiIsUp(radio')
      <3>1. BearerIsUp(radio, b)'
        BY <1>5, <2>3 DEF BearerIsUp, WifiIsUp
      <3>. QED  BY <1>1, <2>2, <3>1 DEF Course, Start
    <2>4. CASE radio'.wifi = "joining" /\ radio'.join = 0
      <3>1. Start(b) >= 2 * JoinTime - radio'.join + MinBackoff + 2
        BY <2>2, <2>4, Constants
      <3>. QED  BY <1>1, <1>5, <2>4, <3>1 DEF Course, Start
    <2>. QED  BY <2>1, <2>3, <2>4
  <1>. QED  BY <1>4, <1>5 DEF Bearers

(* The phase of a bearer after a step that leaves the choice: what the     *)
(* wait grows by, k, has been spent, and the bearer on its course is k     *)
(* closer to its session.                                                  *)
LEMMA Onward ==
    ASSUME BoundsInv, ChoiceInv, comm.full, BoundsInv', ChoiceInv', comm'.full,
           denied \in [Bearers -> Nat], denied' \in [Bearers -> Nat],
           comm'.preferred = comm.preferred, NEW b \in Bearers, Phase(b), denied'[b] > 0,
           NEW k \in {0, 1}, denied'[b] <= denied[b] + k, Spent' >= Spent + k, k = 0 \/ Healthy(b),
           b = comm.preferred =>
               \A n \in Nat : Course(b, n) /\ (net.state # "sessionUp" => n < Left) =>
                   n >= k /\ Course(b, n - k)' /\ (net'.state # "sessionUp" => n - k < Left')
    PROVE  Phase(b)'
  <1>1. Spent \in Nat /\ Spent' \in Nat
    BY TrialNow, TrialNext
  <1>2. /\ Trial(b) \in Nat /\ Trial(b)' = Trial(b) /\ Longest(b)' = Longest(b) /\ Longest(b) \in Nat
    BY TrialsAre DEF Trial, Stay, Longest, Start
  <1>3. denied[b] \in Nat /\ denied'[b] \in Nat
    OBVIOUS
  <1>4. CASE b # comm.preferred
    <2>1. denied[b] <= Trial(b) + Spent
      BY <1>4 DEF Phase
    <2>2. denied'[b] <= Trial(b) + Spent'
      BY <1>1, <1>2, <1>3, <2>1
    <2>. QED  BY <1>2, <1>4, <2>2 DEF Phase
  <1>5. CASE b = comm.preferred /\ denied[b] <= Spent
    <2>1. denied'[b] <= Spent'
      BY <1>1, <1>3, <1>5
    <2>. QED  BY <1>5, <2>1 DEF Phase
  <1>6. CASE b = comm.preferred /\ Arriving(b)
    <2>1. PICK n \in Nat : /\ Course(b, n) /\ denied[b] + n <= Longest(b)
                           /\ net.state # "sessionUp" => n < Left
      BY <1>6 DEF Arriving
    <2>2. n >= k /\ Course(b, n - k)' /\ (net'.state # "sessionUp" => n - k < Left')
      BY <1>6, <2>1
    <2>3. n - k \in Nat /\ denied'[b] + (n - k) <= Longest(b)
      BY <1>2, <1>3, <2>1, <2>2
    <2>. DEFINE m == n - k
    <2>4. m \in Nat /\ Course(b, m)' /\ denied'[b] + m <= Longest(b)' /\ (net'.state # "sessionUp" => m < Left')
      BY <1>2, <2>2, <2>3
    <2>. HIDE DEF m
    <2>5. Arriving(b)'
      BY <2>4 DEF Arriving
    <2>. QED  BY <1>6, <2>5 DEF Phase
  <1>. QED  BY <1>4, <1>5, <1>6 DEF Phase

(* Nothing but the air changes, and the bearer stays in reach.             *)
LEMMA PhaseStays ==
    ASSUME BoundsInv, ChoiceInv, comm.full, BoundsInv', ChoiceInv',
           denied \in [Bearers -> Nat], denied' \in [Bearers -> Nat],
           UNCHANGED <<net, radio, busy, comm>>, NEW b \in Bearers, Phase(b),
           denied'[b] > 0, denied'[b] = denied[b], Healthy(b), Healthy(b)',
           pc' = pc \/ (pc # "comm" /\ pc' # "comm")
                    \/ (comm.attempt < Allowance /\ pc = "comm" /\ pc' = "net"),
           net.state = "sessionUp" \/ Turn' = Turn
    PROVE  Phase(b)'
  <1>1. Spent \in Nat /\ Spent' \in Nat /\ comm \in Comms /\ comm'.full
    BY TrialNow, TrialNext
  <1>2. Spent' = Spent
    <2>1. Overrun(comm, pc', busy) = Overrun(comm, pc, busy)
      BY DEF Overrun
    <2>2. SpentBy(comm, pc', busy) = SpentBy(comm, pc, busy)
      BY <2>1 DEF SpentBy
    <2>. QED  BY <1>1, <2>2, TrialNext DEF Spent
  <1>3. Left' = Left
    BY DEF Left
  <1>4. \A n \in Nat : Course(b, n) => Course(b, n)'
    BY CourseStays
  <1>5. \A n \in Nat : n - 0 = n /\ n >= 0
    OBVIOUS
  <1>6. \A n \in Nat : Course(b, n) /\ (net.state # "sessionUp" => n < Left) =>
            n >= 0 /\ Course(b, n - 0)' /\ (net'.state # "sessionUp" => n - 0 < Left')
    <2>. TAKE n \in Nat
    <2>. HAVE Course(b, n) /\ (net.state # "sessionUp" => n < Left)
    <2>1. n - 0 = n
      OBVIOUS
    <2>. QED  BY <1>3, <1>4, <2>1
  <1>7. denied'[b] <= denied[b] + 0 /\ Spent' >= Spent + 0
    BY <1>1, <1>2
  <1>. QED  BY <1>1, <1>6, <1>7, Onward

(* An activation of ComM: a trial that failed is spent whole, and one that *)
(* ends in favour of the other bearer leaves nothing of it.                *)
LEMMA PhaseComm ==
    ASSUME BearerInv, BoundsInv, ChoiceInv, DeniedInv, Patient, comm.full, CommStep,
           BoundsInv', ChoiceInv', DeniedInv', comm'.full,
           NEW b \in Bearers, Phase(b), denied'[b] > 0
    PROVE  Phase(b)'
  <1>. DEFINE p == comm.preferred
              q == comm'.preferred
              f == comm.failures[comm.preferred]
              g == comm'.failures[comm'.preferred]
  <1>1. /\ pc = "comm" /\ busy = 0 /\ pc' = "net" /\ ComMainFunction
        /\ air' = air /\ denied' = denied
    BY DEF CommStep, At
  <1>2. /\ denied \in [Bearers -> Nat] /\ denied' \in [Bearers -> Nat] /\ Healthy(b) /\ Healthy(b)'
        /\ net.state # "sessionUp"
    BY <1>1 DEF DeniedInv, NotDenied
  <1>3. /\ comm \in Comms /\ comm' \in Comms /\ p \in Bearers /\ q \in Bearers /\ p = net.requested
        /\ f < FailureLimit /\ g < FailureLimit
        /\ Spent \in Nat /\ Spent' \in Nat /\ Spent' = SpentBy(comm', pc', busy')
    BY TrialNow, TrialNext
  <1>4. /\ f \in Nat /\ comm.attempt \in Nat /\ f * (Allowance + Stay(p)) \in Nat
        /\ (f + 1) * (Allowance + Stay(p)) = f * (Allowance + Stay(p)) + (Allowance + Stay(p))
        /\ Stay(p) \in Nat /\ Allowance \in Nat \ {0} /\ FailureLimit \in Nat
    <2>1. 0 <= Stay(p) /\ Stay(p) \in Nat
      BY <1>3, TrialsAre
    <2>. QED  BY <1>3, <2>1, SpentIs, Constants
  <1>5. net.state # "sessionUp" => Trying \/ (comm'.attempt = 0 /\ (Failed \/ Turned))
    BY <1>1, Decisions DEF Kept, Returned
  <1>6. CASE Trying
    <2>1. UNCHANGED <<net, radio, busy, comm>> /\ comm.attempt < Allowance
      BY <1>6 DEF Trying, netVars
    <2>2. Turn' = Turn
      BY <1>1, <2>1 DEF Turn
    <2>. QED  BY <1>1, <1>2, <2>1, <2>2, PhaseStays
  <1>7. ASSUME comm.attempt = Allowance
        PROVE  /\ Spent = (f + 1) * (Allowance + Stay(p))
               /\ Left = (FailureLimit - f) * Allowance - Allowance
    <2>1. Overrun(comm, pc, busy) = Stay(p)
      BY <1>1, <1>4, <1>7 DEF Overrun
    <2>2. Spent = f * (Allowance + Stay(p)) + Allowance + Stay(p)
      BY <1>7, <2>1 DEF Spent, SpentBy
    <2>3. Left = (FailureLimit - f) * Allowance - Allowance
      BY <1>7 DEF Left
    <2>. QED  BY <1>4, <2>2, <2>3
  <1>8. ASSUME comm'.attempt = 0
        PROVE  Left' = (FailureLimit - g) * Allowance
    <2>1. Left' = (FailureLimit - g) * Allowance - 0
      BY <1>8 DEF Left
    <2>2. g \in Nat
      BY <1>3, Constants DEF Comms, Counts
    <2>3. (FailureLimit - g) * Allowance \in Nat
      BY <1>3, <1>4, <2>2, Multiples
    <2>. QED  BY <2>1, <2>3
  <1>9. CASE comm'.attempt = 0 /\ Failed
    <2>1. /\ UNCHANGED <<net, radio, busy>> /\ comm.attempt = Allowance /\ q = p /\ g = f + 1
          /\ f + 1 < FailureLimit
      <3>1. comm.failures \in [Bearers -> Counts]
        BY <1>3 DEF Comms
      <3>. QED  BY <1>3, <1>9, <3>1 DEF Failed, netVars
    <2>2. Spent' = Spent
      <3>1. Overrun(comm', pc', busy') = 0
        BY <1>4, <1>9 DEF Overrun
      <3>2. Spent' = (f + 1) * (Allowance + Stay(p)) + 0 + 0
        BY <1>3, <1>9, <2>1, <3>1 DEF SpentBy
      <3>3. (f + 1) * (Allowance + Stay(p)) \in Nat
        BY <1>4
      <3>. QED  BY <1>7, <2>1, <3>2, <3>3
    <2>3. Left' = Left
      <3>1. FailureLimit - f = (FailureLimit - (f + 1)) + 1
        BY <1>4
      <3>2. FailureLimit - (f + 1) \in Nat
        BY <1>4, <2>1
      <3>. DEFINE r == FailureLimit - (f + 1)
      <3>3. (r + 1) * Allowance = r * Allowance + Allowance /\ r * Allowance \in Nat
        BY <1>4, <3>2, NextMultiple, Multiples
      <3>4. Left = (r + 1) * Allowance - Allowance /\ Left' = r * Allowance
        BY <1>7, <1>8, <1>9, <2>1, <3>1
      <3>. HIDE DEF r
      <3>. QED  BY <1>4, <3>3, <3>4
    <2>4. Turn' = Turn
      BY <1>1, <2>1 DEF Turn
    <2>5. \A n \in Nat : Course(b, n) /\ (net.state # "sessionUp" => n < Left) =>
              n >= 0 /\ Course(b, n - 0)' /\ (net'.state # "sessionUp" => n - 0 < Left')
      <3>. TAKE n \in Nat
      <3>. HAVE Course(b, n) /\ (net.state # "sessionUp" => n < Left)
      <3>1. n - 0 = n
        OBVIOUS
      <3>. QED  BY <1>2, <2>1, <2>3, <2>4, <3>1, CourseStays
    <2>6. denied'[b] <= denied[b] + 0 /\ Spent' >= Spent + 0
      BY <1>1, <1>2, <1>3, <2>2
    <2>. QED  BY <1>2, <2>1, <2>5, <2>6, Onward
  <1>10. CASE comm'.attempt = 0 /\ Turned
    <2>1. /\ comm.attempt = Allowance /\ f + 1 = FailureLimit /\ q # p /\ RequestBearer(q)
          /\ comm'.failures = IF p = "gsm" THEN NoFailures
                              ELSE [comm.failures EXCEPT !["wifi"] = FailureLimit]
      BY <1>10 DEF Turned
    <2>2. Spent = Trial(p) /\ Left = 0
      <3>1. FailureLimit - f = 1 /\ 1 * Allowance = Allowance
        BY <1>4, <2>1
      <3>2. Left = Allowance - Allowance
        BY <1>7, <2>1, <3>1
      <3>3. Spent = FailureLimit * (Allowance + Stay(p))
        BY <1>7, <2>1
      <3>. QED  BY <1>4, <3>2, <3>3 DEF Trial
    <2>3. /\ Trial(p) \in Nat /\ Trial(q) \in Nat /\ Start(q) \in Nat /\ Longest(q) \in Nat
          /\ Longest(q) = Trial("wifi") + Trial("gsm") + Start(q)
          /\ Trial("wifi") \in Nat /\ Trial("gsm") \in Nat
          /\ {p, q} = {"wifi", "gsm"} /\ (b = p \/ b = q)
      <3>1. "wifi" \in Bearers /\ "gsm" \in Bearers
        BY DEF Bearers
      <3>. QED  BY <1>3, <2>1, <3>1, TrialsAre DEF Bearers
    <2>4. denied[b] \in Nat /\ denied[b] > 0 /\ denied'[b] = denied[b]
      BY <1>1, <1>2
    <2>5. CASE b = p
      <3>1. denied[b] <= Spent
        <4>1. ~ Arriving(b)
          BY <1>2, <2>2 DEF Arriving
        <4>. QED  BY <2>5, <4>1 DEF Phase
      <3>2. denied'[b] <= Trial(b) + Spent'
        BY <1>3, <2>2, <2>3, <2>4, <2>5, <3>1
      <3>3. Trial(b)' = Trial(b)
        BY DEF Trial, Stay
      <3>. QED  BY <2>1, <2>5, <3>2, <3>3 DEF Phase
    <2>6. CASE b = q
      <3>1. denied[b] <= Trial(b) + Trial(p)
        BY <2>1, <2>2, <2>6 DEF Phase
      <3>2. Course(b, Start(b))'
        BY <1>1, <1>2, <1>3, <2>1, <2>6, CourseStarts
      <3>3. denied'[b] + Start(b) <= Longest(b)
        <4>1. (p = "wifi" /\ b = "gsm") \/ (p = "gsm" /\ b = "wifi")
          BY <2>1, <2>3, <2>6
        <4>2. Longest(b) = Trial("wifi") + Trial("gsm") + Start(b) /\ Start(b) \in Nat
          BY <2>3, <2>6
        <4>3. Longest(b) = Trial(b) + Trial(p) + Start(b)
          BY <2>3, <4>1, <4>2
        <4>4. Trial(b) \in Nat /\ Trial(p) \in Nat
          BY <2>3, <2>6
        <4>. QED  BY <2>4, <3>1, <4>2, <4>3, <4>4
      <3>4. g = 0
        <4>1. comm.failures \in [Bearers -> Counts]
          BY <1>3 DEF Comms
        <4>2. CASE p = "gsm"
          BY <1>3, <2>1, <4>2 DEF NoFailures
        <4>3. CASE p # "gsm"
          <5>1. p = "wifi" /\ q = "gsm" /\ comm.failures["gsm"] = 0
            BY <2>3, <4>3 DEF ChoiceInv
          <5>. QED  BY <1>3, <2>1, <4>1, <5>1
        <4>. QED  BY <4>2, <4>3
      <3>5. Start(b) < Left'
        <4>1. FailureLimit - g = FailureLimit
          BY <1>4, <3>4
        <4>2. Left' = FailureLimit * Allowance
          BY <1>8, <1>10, <4>1
        <4>. QED  BY <1>3, <4>2 DEF Patient
      <3>6. Start(b)' = Start(b) /\ Longest(b)' = Longest(b)
        BY DEF Start, Longest, Trial, Stay
      <3>. DEFINE n == Start(b)
      <3>7. n \in Nat /\ Course(b, n)' /\ denied'[b] + n <= Longest(b)' /\ n < Left'
        BY <2>3, <2>6, <3>2, <3>3, <3>5, <3>6
      <3>. HIDE DEF n
      <3>8. Arriving(b)'
        BY <2>6, <3>7 DEF Arriving
      <3>. QED  BY <2>6, <3>8 DEF Phase
    <2>. QED  BY <2>3, <2>5, <2>6
  <1>. QED  BY <1>2, <1>5, <1>6, <1>9, <1>10

(* An activation of NetIf: the bearer keeps to its course.  Only a bearer  *)
(* that is being connected can be out of time before NetIf's turn, so the  *)
(* task is not blocked anew then.                                          *)
LEMMA PhaseNet ==
    ASSUME BearerInv, BoundsInv, ChoiceInv, DeniedInv, Patient, comm.full, NetStep,
           BoundsInv', ChoiceInv', DeniedInv',
           NEW b \in Bearers, Phase(b), denied'[b] > 0
    PROVE  Phase(b)'
  <1>1. /\ pc = "net" /\ busy = 0 /\ pc' = "live" /\ NetMainFunction
        /\ comm' = comm /\ denied' = denied
    BY DEF NetStep, At
  <1>2. /\ denied \in [Bearers -> Nat] /\ denied' \in [Bearers -> Nat] /\ Healthy(b)
        /\ net.state # "sessionUp"
    BY <1>1 DEF DeniedInv, NotDenied
  <1>3. Spent \in Nat /\ Spent' \in Nat /\ Spent' = SpentBy(comm', pc', busy') /\ comm \in Comms
        /\ comm.preferred = net.requested /\ comm.attempt \in Nat /\ comm.attempt <= Allowance
    BY <1>1, TrialNow, TrialNext, CommIs
  <1>4. Spent' = Spent
    <2>1. comm.attempt = Allowance => busy' = busy
      <3>1. comm.attempt = Allowance => net.state = "connecting"
        BY <1>1 DEF ChoiceInv
      <3>2. TriedAgain => net.state = "backoff"
        BY DEF TriedAgain
      <3>. QED  BY <1>1, <3>1, <3>2, Moves DEF Still, LinkFound, GivenUp, Opened, Dropped
    <2>2. Overrun(comm, pc', busy') = Overrun(comm, pc, busy)
      BY <1>1, <1>3, <2>1, Constants DEF Overrun
    <2>. QED  BY <1>1, <1>3, <2>2 DEF Spent, SpentBy
  <1>5. Left' = Left
    BY <1>1 DEF Left
  <1>6. b = comm.preferred =>
            \A n \in Nat : Course(b, n) /\ (net.state # "sessionUp" => n < Left) =>
                n >= 0 /\ Course(b, n - 0)' /\ (net'.state # "sessionUp" => n - 0 < Left')
    <2>. HAVE b = comm.preferred
    <2>. TAKE n \in Nat
    <2>. HAVE Course(b, n) /\ (net.state # "sessionUp" => n < Left)
    <2>1. n - 0 = n
      OBVIOUS
    <2>. QED  BY <1>2, <1>3, <1>5, <2>1, CourseNet
  <1>7. denied'[b] <= denied[b] + 0 /\ Spent' >= Spent + 0
    BY <1>1, <1>2, <1>3, <1>4
  <1>. QED  BY <1>1, <1>2, <1>6, <1>7, Onward

(* Time: a wait grows by one, and so does what has been spent.             *)
LEMMA PhaseTick ==
    ASSUME BearerInv, BoundsInv, ChoiceInv, DeniedInv, Patient, comm.full, Tick,
           BoundsInv', ChoiceInv', DeniedInv',
           NEW b \in Bearers, Phase(b), denied'[b] > 0
    PROVE  Phase(b)'
  <1>. DEFINE p == comm.preferred
              f == comm.failures[comm.preferred]
  <1>1. /\ pc = "sleep" \/ busy > 0
        /\ pc' = IF pc = "sleep" THEN "comm" ELSE pc
        /\ NetTick /\ ComTick
        /\ denied' = [x \in Bearers |-> IF env = "bearers" /\ Healthy(x) /\ net.state # "sessionUp"
                                        THEN Waiting(denied[x]) ELSE 0]
    BY DEF Tick
  <1>2. /\ denied \in [Bearers -> Nat] /\ denied' \in [Bearers -> Nat] /\ Healthy(b)
        /\ net.state # "sessionUp" /\ denied'[b] = Waiting(denied[b])
    BY <1>1 DEF DeniedInv
  <1>3. /\ comm' \in Comms /\ comm'.full /\ comm'.preferred = p /\ comm'.failures = comm.failures
        /\ comm'.attempt = IF comm.attempt < Allowance THEN comm.attempt + 1 ELSE comm.attempt
        /\ comm.attempt \in Nat /\ comm.attempt <= Allowance
    BY <1>1, CommTicks, CommIs
  <1>4. /\ busy' = (IF busy > 0 THEN busy - 1 ELSE 0) /\ net'.state = net.state
    BY <1>1, Passes
  <1>5. /\ Spent \in Nat /\ Spent' \in Nat /\ Spent' = SpentBy(comm', pc', busy')
        /\ p \in Bearers /\ p = net.requested /\ f < FailureLimit /\ busy \in Nat /\ busy <= Stay(p)
    BY <1>3, TrialNow, TrialNext
  <1>6. f \in Nat /\ f * (Allowance + Stay(p)) \in Nat /\ Stay(p) \in Nat
        /\ Allowance \in Nat /\ Allowance > 0
    <2>1. Stay(p) \in Nat /\ 0 <= Stay(p)
      BY <1>5, TrialsAre
    <2>2. comm \in Comms
      BY TrialNow
    <2>. QED  BY <1>5, <2>1, <2>2, SpentIs, Constants
  <1>7. busy > 0 => pc \in {"net", "live"}
    BY DEF BoundsInv
  <1>8. Spent' >= Spent + 1
    <2>1. comm'.attempt + Overrun(comm', pc', busy') >= comm.attempt + Overrun(comm, pc, busy) + 1
          /\ Overrun(comm', pc', busy') \in Int /\ Overrun(comm, pc, busy) \in Int
      <3>1. CASE comm.attempt < Allowance
        <4>1. Overrun(comm, pc, busy) = 0 /\ comm'.attempt = comm.attempt + 1
          BY <1>3, <3>1 DEF Overrun
        <4>2. Overrun(comm', pc', busy') >= 0 /\ Overrun(comm', pc', busy') \in Int
          <5>1. pc' = "comm" \/ (busy' = busy - 1 /\ busy > 0)
            BY <1>1, <1>4
          <5>2. Overrun(comm', pc', busy') \in {0, IF pc' = "comm" THEN Stay(p) ELSE Stay(p) - 1 - busy'}
            BY <1>3 DEF Overrun
          <5>3. CASE pc' = "comm"
            BY <1>6, <5>2, <5>3
          <5>4. CASE pc' # "comm" /\ busy' = busy - 1 /\ busy > 0
            BY <1>5, <1>6, <5>2, <5>4
          <5>. QED  BY <5>1, <5>3, <5>4
        <4>. QED  BY <1>3, <4>1, <4>2
      <3>2. CASE comm.attempt = Allowance
        <4>1. comm'.attempt = Allowance /\ ~(Allowance < Allowance)
          BY <1>3, <1>6, <3>2
        <4>2. /\ Overrun(comm, pc, busy) = IF pc = "comm" THEN Stay(p) ELSE Stay(p) - 1 - busy
              /\ Overrun(comm', pc', busy') = IF pc' = "comm" THEN Stay(p) ELSE Stay(p) - 1 - busy'
          BY <1>3, <3>2, <4>1 DEF Overrun
        <4>3. CASE pc = "sleep"
          <5>1. busy = 0 /\ pc' = "comm"
            BY <1>1, <1>5, <1>7, <4>3
          <5>2. Overrun(comm, pc, busy) = Stay(p) - 1 /\ Overrun(comm', pc', busy') = Stay(p)
            BY <1>6, <4>2, <4>3, <5>1
          <5>. QED  BY <1>6, <3>2, <4>1, <5>2
        <4>4. CASE pc # "sleep"
          <5>1. busy > 0 /\ pc' = pc /\ pc # "comm" /\ busy' = busy - 1
            BY <1>1, <1>4, <1>7, <4>4
          <5>. QED  BY <1>5, <1>6, <3>2, <4>1, <4>2, <5>1
        <4>. QED  BY <4>3, <4>4
      <3>. QED  BY <1>3, <1>6, <3>1, <3>2
    <2>2. /\ Spent = f * (Allowance + Stay(p)) + comm.attempt + Overrun(comm, pc, busy)
          /\ Spent' = f * (Allowance + Stay(p)) + comm'.attempt + Overrun(comm', pc', busy')
      BY <1>3, <1>5 DEF Spent, SpentBy
    <2>3. \A t, s, u \in Nat : \A v, w \in Int :
              u + v >= s + w + 1 => t + u + v >= t + s + w + 1
      OBVIOUS
    <2>4. comm'.attempt \in Nat
      BY <1>3
    <2>. QED  BY <1>3, <1>6, <2>1, <2>2, <2>3, <2>4
  <1>9. Left' + 1 >= Left /\ Left \in Int /\ Left' \in Int
    <2>. DEFINE whole == (FailureLimit - f) * Allowance
    <2>1. Left = whole - comm.attempt /\ Left' = whole - comm'.attempt
      BY <1>3 DEF Left
    <2>2. whole \in Int
      <3>1. \A m, n \in Int : m * n \in Int
        OBVIOUS
      <3>. QED  BY <1>6, <3>1, Constants
    <2>. HIDE DEF whole
    <2>. QED  BY <1>3, <2>1, <2>2
  <1>10. b = comm.preferred =>
             \A n \in Nat : Course(b, n) /\ (net.state # "sessionUp" => n < Left) =>
                 n >= 1 /\ Course(b, n - 1)' /\ (net'.state # "sessionUp" => n - 1 < Left')
    <2>. HAVE b = comm.preferred
    <2>. TAKE n \in Nat
    <2>. HAVE Course(b, n) /\ (net.state # "sessionUp" => n < Left)
    <2>1. n >= 1 /\ Course(b, n - 1)'
      BY <1>2, <1>5, CourseTick
    <2>2. n < Left
      BY <1>2
    <2>3. \A l, m \in Int : n < l /\ m + 1 >= l => n - 1 < m
      OBVIOUS
    <2>4. n - 1 < Left'
      BY <1>9, <2>2, <2>3
    <2>. QED  BY <2>1, <2>4
  <1>11. denied'[b] <= denied[b] + 1
    BY <1>2 DEF Waiting
  <1>. QED  BY <1>2, <1>3, <1>8, <1>10, <1>11, Onward

LEMMA PhaseStep ==
    ASSUME Patient
    PROVE  /\ BearerInv /\ BoundsInv /\ ChoiceInv /\ DeniedInv /\ PhaseInv
           /\ BoundsInv' /\ ChoiceInv' /\ DeniedInv' /\ [Next]_vars
           => PhaseInv'
  <1>. SUFFICES ASSUME BearerInv, BoundsInv, ChoiceInv, DeniedInv, PhaseInv,
                       BoundsInv', ChoiceInv', DeniedInv', [Next]_vars, comm'.full,
                       NEW b \in Bearers
                PROVE  Phase(b)'
    BY DEF PhaseInv
  <1>1. denied \in [Bearers -> Nat] /\ denied' \in [Bearers -> Nat]
    BY DEF DeniedInv
  <1>2. CASE denied'[b] = 0
    BY <1>2, NotWaiting
  <1>. SUFFICES ASSUME denied'[b] > 0 PROVE Phase(b)'
    BY <1>1, <1>2
  <1>h. Healthy(b)'
    BY DEF DeniedInv
  <1>3. CASE Aside
    <2>1. /\ UNCHANGED <<net, radio, busy, air, comm, denied>>
          /\ \/ pc' = pc
             \/ busy = 0 /\ net.state = "sessionUp" /\ pc = "net" /\ pc' = "live"
             \/ busy = 0 /\ pc \in {"live", "sent", "serve"} /\ pc' \in {"sleep", "sent", "serve"}
      BY <1>3, AsideIs
    <2>2. comm.full /\ Phase(b) /\ Healthy(b)
      BY <2>1 DEF PhaseInv, DeniedInv
    <2>3. net.state = "sessionUp" \/ Turn' = Turn
      BY <2>1 DEF Turn
    <2>4. pc' = pc \/ (pc # "comm" /\ pc' # "comm")
      BY <2>1
    <2>. QED  BY <1>1, <1>h, <2>1, <2>2, <2>3, <2>4, PhaseStays
  <1>4. CASE CommStep
    <2>1. comm.full
      BY <1>4 DEF CommStep, ComMainFunction
    <2>. QED  BY <1>4, <2>1, PhaseComm DEF PhaseInv
  <1>5. CASE NetStep
    <2>1. comm.full
      BY <1>5 DEF NetStep
    <2>. QED  BY <1>5, <2>1, PhaseNet DEF PhaseInv
  <1>6. CASE Tick
    <2>1. comm.full
      BY <1>6, CommTicks DEF Tick
    <2>. QED  BY <1>6, <2>1, PhaseTick DEF PhaseInv
  <1>7. CASE Change
    <2>1. /\ UNCHANGED <<net, radio, busy, comm, pc>>
          /\ denied' = [x \in Bearers |-> IF air'[x] /\ air'.broker THEN denied[x] ELSE 0]
      BY <1>7 DEF Change, netVars
    <2>2. denied'[b] = denied[b] /\ comm.full /\ Phase(b) /\ Healthy(b)
      <3>1. denied'[b] = denied[b]
        BY <2>1
      <3>. QED  BY <2>1, <3>1 DEF PhaseInv, DeniedInv
    <2>3. Turn' = Turn
      BY <2>1 DEF Turn
    <2>. QED  BY <1>1, <1>h, <2>1, <2>2, <2>3, PhaseStays
  <1>8. CASE RequestMode
    <2>1. denied'[b] = 0
      BY <1>8, Modes DEF NotDenied
    <2>. QED  BY <1>1, <2>1
  <1>. QED  BY <1>3, <1>4, <1>5, <1>6, <1>7, <1>8, Steps

LEMMA OutageStart == Init => BoundsInv /\ ChoiceInv /\ DeniedInv /\ PhaseInv
  <1>. SUFFICES ASSUME Init PROVE BoundsInv /\ ChoiceInv /\ DeniedInv /\ PhaseInv
    OBVIOUS
  <1>1. /\ net = [state |-> "down", requested |-> None, active |-> None, backoff |-> 0, age |-> 0]
        /\ radio = [wifi |-> "off", join |-> 0, modem |-> FALSE, attached |-> FALSE]
        /\ busy = 0 /\ pc = "comm" /\ denied = NotDenied
        /\ comm = [full |-> FALSE, preferred |-> None, failures |-> NoFailures,
                   attempt |-> 0, fallback |-> 0]
    BY DEF Init, NetInit, ComInit
  <1>2. BoundsInv
    BY <1>1, Constants, OldestIs DEF BoundsInv
  <1>3. ComTypeOK
    <2>1. /\ 0 \in 0 .. FailureLimit /\ 0 \in 0 .. Allowance /\ 0 \in 0 .. PreferredRetry
      BY Constants
    <2>. QED  BY <1>1, <2>1 DEF ComTypeOK, NoFailures
  <1>4. ChoiceInv
    BY <1>1, <1>3 DEF ChoiceInv
  <1>5. DeniedInv /\ PhaseInv
    BY <1>1 DEF DeniedInv, PhaseInv, NotDenied
  <1>. QED  BY <1>2, <1>4, <1>5

LEMMA PhasesEnd ==
    ASSUME Patient, BoundsInv, ChoiceInv, DeniedInv, PhaseInv
    PROVE  OutageBounded
  <1>. SUFFICES ASSUME comm.full, NEW b \in Bearers PROVE denied[b] <= Bound
    BY DEF OutageBounded
  <1>1. denied[b] \in Nat /\ Phase(b)
    BY DEF DeniedInv, PhaseInv
  <1>2. Spent \in Nat /\ Spent <= Trial(comm.preferred) /\ comm.preferred \in Bearers
    BY TrialNow
  <1>3. /\ Trial("wifi") \in Nat /\ Trial("gsm") \in Nat /\ Start(b) \in Nat
        /\ Longest(b) = Trial("wifi") + Trial("gsm") + Start(b)
    <2>1. "wifi" \in Bearers /\ "gsm" \in Bearers
      BY DEF Bearers
    <2>. QED  BY <2>1, TrialsAre
  <1>4. Longest(b) <= Bound /\ Bound \in Nat
    BY Constants DEF Patient
  <1>5. CASE b = comm.preferred /\ denied[b] <= Spent
    <2>1. denied[b] <= Trial("wifi") \/ denied[b] <= Trial("gsm")
      <3>1. Trial(b) \in Nat /\ (b = "wifi" \/ b = "gsm")
        BY TrialsAre DEF Bearers
      <3>2. denied[b] <= Trial(b)
        BY <1>1, <1>2, <1>5, <3>1
      <3>. QED  BY <3>1, <3>2
    <2>. QED  BY <1>1, <1>3, <1>4, <2>1
  <1>6. CASE Arriving(b)
    <2>1. PICK n \in Nat : denied[b] + n <= Longest(b)
      BY <1>6 DEF Arriving
    <2>. QED  BY <1>1, <1>3, <1>4, <2>1
  <1>7. CASE b # comm.preferred /\ denied[b] <= Trial(b) + Spent
    <2>1. \/ b = "wifi" /\ comm.preferred = "gsm"
          \/ b = "gsm" /\ comm.preferred = "wifi"
      BY <1>2, <1>7 DEF Bearers
    <2>2. Trial(b) + Trial(comm.preferred) = Trial("wifi") + Trial("gsm")
      BY <1>3, <2>1
    <2>3. Trial(b) \in Nat /\ Trial(comm.preferred) \in Nat
      BY <1>2, TrialsAre
    <2>4. denied[b] <= Trial(b) + Trial(comm.preferred)
      BY <1>1, <1>2, <1>7, <2>3
    <2>. QED  BY <1>1, <1>3, <1>4, <2>2, <2>4
  <1>. QED  BY <1>1, <1>5, <1>6, <1>7 DEF Phase

(* A bearer that stays in reach with its broker has a session after the    *)
(* trials of both bearers and one start, whatever the other one does, and  *)
(* whenever it came into reach (ComM.c, NetIf.c).                          *)
THEOREM OutagesEnd ==
    ASSUME Patient
    PROVE  Spec => []OutageBounded
  <1>. DEFINE Inv == BearerInv /\ BoundsInv /\ ChoiceInv /\ DeniedInv /\ PhaseInv
  <1>1. Init => Inv
    BY BearerStart, OutageStart
  <1>2. Inv /\ [Next]_vars => Inv'
    <2>. SUFFICES ASSUME Inv, [Next]_vars PROVE Inv'
      OBVIOUS
    <2>1. BearerInv' /\ BoundsInv' /\ ChoiceInv' /\ DeniedInv'
      BY BearerStep, BoundsStep, ChoiceStep, DeniedStep
    <2>2. PhaseInv'
      BY <2>1, PhaseStep
    <2>. QED  BY <2>1, <2>2
  <1>3. Inv => OutageBounded
    BY PhasesEnd
  <1>. QED  BY <1>1, <1>2, <1>3, PTL DEF Spec

-----------------------------------------------------------------------------
(* Types.  What the invariants above do not say yet: the rest of a plan,   *)
(* how many days are asked for, and the bounds of a behaviour.             *)

DaySizes == [size : Nat, got : Int, lost : Nat, inOrder : BOOLEAN, broken : BOOLEAN]
Transfers == [dates : Seq(Days), current : Nat, chunk : Nat, active : BOOLEAN,
              plan : [count : Nat, full : Nat, last : 0 .. ChunkSize - 1]]

TransferTypes ==
    /\ backfill \in Transfers /\ Len(backfill.dates) <= MaxDates
    /\ day \in [now : DaySizes, last : DaySizes]

RecordTypes ==
    /\ files \in [Days -> Absent .. MaxSize]
    /\ live \in [seq : 0 .. MaxRecords, pending : BOOLEAN]
    /\ shown \in [live : 0 .. MaxRecords, overtaken : 0 .. MaxRecords]

BoundTypes ==
    /\ env \in Environments
    /\ requests \in 0 .. MaxRequests /\ changes \in 0 .. MaxChanges

LEMMA BoundTypesStep == BoundTypes /\ [Next]_vars => BoundTypes'
  <1>. SUFFICES ASSUME BoundTypes, [Next]_vars PROVE BoundTypes'
    OBVIOUS
  <1>1. env' = env
    BY DEF Next, Activation, CommStep, NetStep, RequestArrives, PublishLive, ServeBackfill, Frame,
           CardFails, Tick, Change, RequestMode, StorageStep, taskVars, vars
  <1>2. requests' = requests \/ (requests < MaxRequests /\ requests' = requests + 1)
    BY DEF Next, Activation, CommStep, NetStep, RequestArrives, PublishLive, ServeBackfill, Frame,
           CardFails, Tick, Change, RequestMode, StorageStep, taskVars, vars
  <1>3. changes' = changes \/ (changes < MaxChanges /\ changes' = changes + 1)
    BY DEF Next, Activation, CommStep, NetStep, RequestArrives, PublishLive, ServeBackfill, Frame,
           CardFails, Tick, Change, RequestMode, StorageStep, taskVars, vars
  <1>. QED  BY <1>1, <1>2, <1>3, BackhaulAssumption DEF BoundTypes

LEMMA RecordTypesStep == RecordTypes /\ [Next]_vars => RecordTypes'
  <1>. SUFFICES ASSUME RecordTypes, [Next]_vars PROVE RecordTypes'
    OBVIOUS
  <1>0. /\ live.seq \in Nat /\ live.seq <= MaxRecords /\ MaxRecords \in Nat /\ MaxSize \in Nat
        /\ Today \in Days
        /\ live \in [seq : 0 .. MaxRecords, pending : BOOLEAN]
        /\ shown \in [live : 0 .. MaxRecords, overtaken : 0 .. MaxRecords]
    BY BackfillAssumption DEF RecordTypes
  <1>1. CASE AcquireAndStore(pc = "sent")
    <2>1. /\ live' = [seq |-> live.seq + 1, pending |-> TRUE] /\ live.seq < MaxRecords
          /\ shown' = [shown EXCEPT !.overtaken = IF pc = "sent" THEN live.seq + 1 ELSE @]
          /\ \/ files' = files
             \/ /\ files[Today] < MaxSize
                /\ files' = [files EXCEPT ![Today] = IF @ = Absent THEN 1 ELSE @ + 1]
      BY <1>1 DEF AcquireAndStore
    <2>2. live.seq + 1 \in 0 .. MaxRecords
      BY <1>0, <2>1
    <2>3. live' \in [seq : 0 .. MaxRecords, pending : BOOLEAN]
      BY <2>1, <2>2
    <2>4. shown' \in [live : 0 .. MaxRecords, overtaken : 0 .. MaxRecords]
      BY <1>0, <2>1, <2>2
    <2>5. files' \in [Days -> Absent .. MaxSize]
      BY <1>0, <2>1, BackfillAssumption DEF RecordTypes, Absent
    <2>. QED  BY <2>3, <2>4, <2>5 DEF RecordTypes
  <1>2. CASE RemoveDay
    <2>1. files' \in [Days -> Absent .. MaxSize]
      BY <1>0, <1>2, BackfillAssumption DEF RemoveDay, RecordTypes, Absent
    <2>. QED  BY <1>2, <2>1 DEF RemoveDay, telemVars, RecordTypes
  <1>3. CASE LiveSent
    BY <1>0, <1>3 DEF LiveSent, RecordTypes
  <1>4. CASE LiveCleared
    BY <1>0, <1>4 DEF LiveCleared, RecordTypes
  <1>5. CASE UNCHANGED <<files, live, shown>>
    BY <1>5 DEF RecordTypes
  <1>6. CASE PublishLive
    BY <1>3, <1>4, <1>5, <1>6 DEF PublishLive, idle, telemVars
  <1>7. CASE ServeBackfill \/ CardFails
    BY <1>5, <1>7 DEF ServeBackfill, CardFails, idle, telemVars, AllServed, ChunkRefused,
                      ChunkSent, SkipDay, PastTheEnd, ReadFails, DayOver
  <1>8. CASE StorageStep
    BY <1>1, <1>2, <1>8 DEF StorageStep
  <1>9. CASE CommStep \/ NetStep \/ RequestArrives \/ Tick \/ Change \/ RequestMode \/ UNCHANGED vars
    BY <1>5, <1>9 DEF CommStep, NetStep, RequestArrives, OnBackfillRequest, Tick, Change, RequestMode,
                      idle, telemVars, vars
  <1>. QED  BY <1>6, <1>7, <1>8, <1>9 DEF Next, Activation

LEMMA PlanTypes ==
    ASSUME NEW n \in Nat \ {0}
    PROVE  ComputeChunkPlan(n) \in [count : Nat, full : Nat, last : 0 .. ChunkSize - 1]
  <1>1. /\ n \div ChunkSize \in Nat /\ n % ChunkSize \in 0 .. ChunkSize - 1
    BY ChunkSizeIs, Division
  <1>. DEFINE q == n \div ChunkSize
              r == n % ChunkSize
              c == q + (IF r = 0 THEN 0 ELSE 1)
  <1>2. c \in Nat /\ q \in Nat /\ r \in 0 .. ChunkSize - 1
    BY <1>1
  <1>3. ComputeChunkPlan(n) = [full |-> q, last |-> r, count |-> c]
    BY DEF ComputeChunkPlan
  <1>. HIDE DEF q, r, c
  <1>. QED  BY <1>2, <1>3

LEMMA TransferTypesStep == TransferTypes /\ DayInv /\ [Next]_vars => TransferTypes'
  <1>. SUFFICES ASSUME TransferTypes, DayInv, [Next]_vars PROVE TransferTypes'
    OBVIOUS
  <1>. DEFINE Kinds == [count : Nat, full : Nat, last : 0 .. ChunkSize - 1]
  <1>0. /\ backfill \in Transfers /\ Len(backfill.dates) <= MaxDates /\ backfill.plan \in Kinds
        /\ day.now \in DaySizes /\ day.last \in DaySizes /\ NoDay \in DaySizes /\ NoPlan \in Kinds
        /\ day \in [now : DaySizes, last : DaySizes]
    BY ChunkSizeIs DEF TransferTypes, Transfers, NoDay, DaySizes, NoPlan
  <1>a. ASSUME NEW plan \in Kinds, NEW c \in Nat, NEW k \in Nat, NEW a \in BOOLEAN,
               backfill' = [backfill EXCEPT !.plan = plan, !.current = c, !.chunk = k, !.active = a]
        PROVE  backfill' \in Transfers /\ Len(backfill'.dates) <= MaxDates
    BY <1>0, <1>a DEF Transfers
  <1>b. /\ backfill.current \in Nat /\ backfill.chunk \in Nat /\ backfill.active \in BOOLEAN
        /\ backfill.current + 1 \in Nat /\ backfill.chunk + 1 \in Nat
    BY <1>0 DEF Transfers
  <1>c. ASSUME Pending, Planned
        PROVE  Plan \in Kinds /\ Noted \in DaySizes
    <2>1. Noted.size \in Nat \ {0} /\ Plan = ComputeChunkPlan(Noted.size)
      BY <1>c, PlanAtHand
    <2>2. Plan \in Kinds
      BY <2>1, PlanTypes
    <2>3. Noted \in DaySizes
      <3>1. Noted.lost = day.now.lost /\ Noted \in DayRecords
        BY <1>c, PlanAtHand
      <3>. QED  BY <1>0, <2>1, <3>1 DEF DaySizes, DayRecords
    <2>. QED  BY <2>2, <2>3
  <1>d. ASSUME NEW plan \in Kinds, NEW broken \in BOOLEAN, DayOver(broken),
               backfill' = NextDate([backfill EXCEPT !.plan = plan])
        PROVE  TransferTypes'
    <2>1. backfill' = [backfill EXCEPT !.plan = plan, !.current = backfill.current + 1, !.chunk = 0,
                                       !.active = backfill.active]
      <3>. DEFINE b == [backfill EXCEPT !.plan = plan]
      <3>1. b.current = backfill.current /\ backfill' = [b EXCEPT !.current = @ + 1, !.chunk = 0]
        BY <1>0, <1>d DEF NextDate, Transfers
      <3>. QED  BY <1>0, <3>1 DEF Transfers
    <2>2. backfill' \in Transfers /\ Len(backfill'.dates) <= MaxDates
      BY <1>a, <1>b, <1>d, <2>1
    <2>3. day' \in [now : DaySizes, last : DaySizes]
      BY <1>0, <1>d DEF DayOver, DaySizes
    <2>. QED  BY <2>2, <2>3 DEF TransferTypes
  <1>1. CASE UNCHANGED <<backfill, day>>
    BY <1>1 DEF TransferTypes
  <1>2. CASE \E payload \in Requests : OnBackfillRequest(payload)
    <2>1. PICK payload \in Requests : OnBackfillRequest(payload)
      BY <1>2
    <2>. DEFINE dates == ParseBackfillRequest(payload)
                plan == [backfill.plan EXCEPT !.count = 0]
    <2>2. dates \in Seq(Days) /\ Len(dates) <= MaxDates
      BY BackhaulAssumption
    <2>3. plan \in Kinds
      BY <1>0
    <2>4. /\ day' = day
          /\ \/ backfill' = backfill
             \/ backfill' = [dates |-> dates, current |-> 0, chunk |-> 0, active |-> TRUE, plan |-> plan]
      BY <2>1 DEF OnBackfillRequest
    <2>. HIDE DEF dates, plan
    <2>5. backfill' \in Transfers /\ Len(backfill'.dates) <= MaxDates
      <3>1. CASE backfill' = backfill
        BY <1>0, <3>1
      <3>2. CASE backfill' = [dates |-> dates, current |-> 0, chunk |-> 0, active |-> TRUE, plan |-> plan]
        <4>1. backfill' \in Transfers
          BY ONLY <2>2, <2>3, <3>2 DEF Transfers
        <4>2. backfill'.dates = dates
          BY ONLY <3>2
        <4>. QED  BY <2>2, <4>1, <4>2
      <3>. QED  BY <2>4, <3>1, <3>2
    <2>. QED  BY <1>0, <2>4, <2>5 DEF TransferTypes
  <1>3. CASE AllServed
    <2>1. backfill' = [backfill EXCEPT !.active = FALSE] /\ day' = day
      BY <1>3 DEF AllServed
    <2>2. backfill' \in Transfers /\ Len(backfill'.dates) <= MaxDates
      BY <1>0, <2>1 DEF Transfers
    <2>. QED  BY <1>0, <2>1, <2>2 DEF TransferTypes
  <1>4. CASE SkipDay
    <2>. DEFINE plan == IF Size = 0 THEN NoPlan ELSE backfill.plan
                broken == Size = Absent
    <2>1. backfill' = NextDate([backfill EXCEPT !.plan = plan]) /\ DayOver(broken)
      BY <1>4 DEF SkipDay
    <2>2. plan \in Kinds /\ broken \in BOOLEAN
      BY <1>0
    <2>. HIDE DEF plan, broken
    <2>. QED  BY <1>d, <2>1, <2>2
  <1>5. CASE PastTheEnd
    BY <1>c, <1>d, <1>5 DEF PastTheEnd
  <1>6. CASE ReadFails
    BY <1>c, <1>d, <1>6 DEF ReadFails
  <1>7. ASSUME ChunkRefused \/ \E read \in 0 .. Read : ChunkSent(read)
        PROVE  TransferTypes'
    <2>1. Pending /\ Planned
      BY <1>7 DEF ChunkRefused, ChunkSent, Readable
    <2>2. Plan \in Kinds /\ Noted \in DaySizes
      BY <1>c, <2>1
    <2>3. backfill' \in Transfers /\ Len(backfill'.dates) <= MaxDates
      <3>1. \/ backfill' = [backfill EXCEPT !.plan = Plan]
            \/ backfill' = [backfill EXCEPT !.plan = Plan, !.chunk = backfill.chunk + 1]
        BY <1>7 DEF ChunkRefused, ChunkSent
      <3>. QED  BY <1>0, <1>b, <2>2, <3>1 DEF Transfers
    <2>4. day'.now \in DaySizes /\ day' = [day EXCEPT !.now = day'.now]
      <3>1. CASE ChunkRefused
        BY <1>0, <2>2, <3>1 DEF ChunkRefused
      <3>2. CASE \E read \in 0 .. Read : ChunkSent(read)
        <4>1. PICK read \in 0 .. Read : ChunkSent(read)
          BY <3>2
        <4>2. Read \in Nat
          BY <4>1, ReadIs DEF ChunkSent
        <4>. DEFINE got == Noted.got + read
                    lost == Noted.lost + (Read - read)
                    inOrder == Noted.inOrder /\ Extent.offset = Noted.got + Noted.lost
        <4>3. day' = [day EXCEPT !.now = [Noted EXCEPT !.got = got, !.lost = lost,
                                                       !.inOrder = inOrder]]
          BY <4>1 DEF ChunkSent
        <4>4. Noted.got \in Int /\ Noted.lost \in Nat
          BY <2>2 DEF DaySizes
        <4>5. got \in Int /\ lost \in Nat /\ inOrder \in BOOLEAN
          BY ONLY <4>2, <4>4, read \in 0 .. Read
        <4>. HIDE DEF got, lost, inOrder
        <4>. QED  BY <1>0, <2>2, <4>3, <4>5 DEF DaySizes
      <3>. QED  BY <1>7, <3>1, <3>2
    <2>. QED  BY <1>0, <2>3, <2>4 DEF TransferTypes
  <1>8. CASE PublishLive
    BY <1>1, <1>8 DEF PublishLive, LiveSent, LiveCleared, idle, telemVars
  <1>9. CASE ServeBackfill \/ CardFails
    <2>1. CASE ChunkSent(Read)
      <3>1. Read \in Nat
        BY <2>1, ReadIs DEF ChunkSent
      <3>. QED  BY <1>7, <2>1, <3>1
    <2>2. CASE \E read \in 0 .. Read - 1 : ChunkSent(read)
      <3>1. PICK read \in 0 .. Read - 1 : ChunkSent(read)
        BY <2>2
      <3>2. read \in 0 .. Read
        BY <3>1, ReadIs DEF ChunkSent
      <3>. QED  BY <1>7, <3>1, <3>2
    <2>. QED  BY <1>1, <1>3, <1>4, <1>5, <1>6, <1>7, <1>9, <2>1, <2>2
                 DEF ServeBackfill, CardFails, idle, telemVars
  <1>10. CASE StorageStep
    BY <1>1, <1>10 DEF StorageStep, AcquireAndStore, RemoveDay, telemVars
  <1>11. CASE RequestArrives
    BY <1>2, <1>11 DEF RequestArrives
  <1>12. CASE CommStep \/ NetStep \/ Tick \/ Change \/ RequestMode \/ UNCHANGED vars
    BY <1>1, <1>12 DEF CommStep, NetStep, Tick, Change, RequestMode, idle, telemVars, vars
  <1>. QED  BY <1>8, <1>9, <1>10, <1>11, <1>12 DEF Next, Activation

LEMMA TypesStart == Init => BoundTypes /\ RecordTypes /\ TransferTypes
  <1>. SUFFICES ASSUME Init PROVE BoundTypes /\ RecordTypes /\ TransferTypes
    OBVIOUS
  <1>1. TelemInit /\ env \in Environments /\ requests = 0 /\ changes = 0
    BY DEF Init
  <1>2. BoundTypes
    BY <1>1, BackhaulAssumption DEF BoundTypes
  <1>3. files \in [Days -> Absent .. MaxSize]
    <2>1. files \in [Days -> {Absent, 0, ChunkSize, ChunkSize + 1}]
      BY <1>1 DEF TelemInit
    <2>2. {Absent, 0, ChunkSize, ChunkSize + 1} \subseteq Absent .. MaxSize
      BY BackfillAssumption DEF Absent
    <2>. QED  BY <2>1, <2>2
  <1>4. RecordTypes
    BY <1>1, <1>3, BackfillAssumption DEF TelemInit, RecordTypes
  <1>5. TransferTypes
    <2>1. NoDay \in DaySizes /\ NoPlan \in [count : Nat, full : Nat, last : 0 .. ChunkSize - 1]
      BY ChunkSizeIs DEF NoDay, DaySizes, NoPlan
    <2>2. <<>> \in Seq(Days) /\ Len(<<>>) <= MaxDates
      BY BackfillAssumption
    <2>. QED  BY <1>1, <2>1, <2>2 DEF TelemInit, TransferTypes, Transfers
  <1>. QED  BY <1>2, <1>4, <1>5

LEMMA TypesHold ==
    ASSUME BearerInv, BoundsInv, ChoiceInv, DeniedInv, DayInv, BoundTypes, RecordTypes, TransferTypes
    PROVE  TypeOK
  <1>1. NetTypeOK
    <2>1. /\ net.backoff \in 0 .. MaxBackoff /\ net.age \in 0 .. Oldest /\ radio.join \in 0 .. JoinTime
          /\ busy \in 0 .. BlockTime
      BY Constants, OldestIs DEF BearerInv, BoundsInv, Nets, Radios
    <2>2. net \in Nets /\ radio \in Radios /\ session \in Sessions /\ air \in Airs
      BY DEF BearerInv
    <2>3. net \in [state : States, requested : Bearers \cup {None},
                   active : Bearers \cup {None}, backoff : 0 .. MaxBackoff, age : 0 .. Oldest]
      BY <2>1, <2>2 DEF Nets
    <2>4. radio \in [wifi : {"off", "joining", "up", "lost"}, join : 0 .. JoinTime,
                     modem : BOOLEAN, attached : BOOLEAN]
      BY <2>1, <2>2 DEF Radios
    <2>. QED  BY <2>1, <2>2, <2>3, <2>4 DEF NetTypeOK, Sessions, Airs
  <1>2. TelemTypeOK
    <2>1. backfill.current <= Len(backfill.dates)
      BY DEF DayInv, BetweenDays
    <2>. QED  BY <2>1 DEF TelemTypeOK, RecordTypes, TransferTypes, Transfers, DaySizes
  <1>. QED  BY <1>1, <1>2 DEF TypeOK, ChoiceInv, BoundsInv, DeniedInv, BoundTypes

(* Back-off and ages stay within their bounds (NetIf_EnterBackoff), the    *)
(* failure counters within the limit (ComM_ChooseBearer), and the cursor   *)
(* of a transfer within its dates (TelemSwc_ServeBackfill).                *)
THEOREM TypesAreKept == Spec => []TypeOK
  <1>. DEFINE Inv == /\ BearerInv /\ BoundsInv /\ ChoiceInv /\ DeniedInv
                     /\ DayInv /\ BoundTypes /\ RecordTypes /\ TransferTypes
  <1>1. Init => Inv
    BY BearerStart, OutageStart, DayStart, TypesStart
  <1>2. Inv /\ [Next]_vars => Inv'
    BY BearerStep, BoundsStep, ChoiceStep, DeniedStep, DayStep,
       BoundTypesStep, RecordTypesStep, TransferTypesStep
  <1>3. Inv => TypeOK
    BY TypesHold
  <1>. QED  BY <1>1, <1>2, <1>3, PTL DEF Spec

=============================================================================
