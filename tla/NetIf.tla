---------------------------------- MODULE NetIf ----------------------------------
(***************************************************************************)
(* The bearers and the broker session (NetIf.c), on the radios and the     *)
(* MQTT client (NetIf_Esp32.cpp).  ComM requests a bearer; the state       *)
(* machine brings its link up, then the session, and backs off when either *)
(* fails.                                                                  *)
(*                                                                         *)
(* Time is counted in activations of the connectivity task.  A GSM attach  *)
(* blocks the task.  Signal strengths, counters, reports to Dem and the    *)
(* contents of topics are left out.                                        *)
(***************************************************************************)
EXTENDS Integers

CONSTANTS
    LinkTimeout, SessionTimeout,   \* NETIF_LINK_TIMEOUT_MS, NETIF_SESSION_TIMEOUT_MS
    MinBackoff, MaxBackoff,        \* NETIF_RECONNECT_MIN_MS, NETIF_RECONNECT_MAX_MS
    JoinTime,                      \* what an association takes at most
    BlockTime                      \* what a GSM attach takes at most

ASSUME NetIfAssumption ==
    /\ {LinkTimeout, SessionTimeout, MinBackoff, MaxBackoff} \subseteq Nat \ {0}
    /\ MinBackoff <= MaxBackoff
    /\ {JoinTime, BlockTime} \subseteq Nat

VARIABLES
    net,      \* NetIf_Status, NetIf_RequestedBearer, NetIf_BackoffMs
    radio,    \* the WiFi station and the modem
    session,  \* the MQTT client and its subscription
    air,      \* what is in reach
    busy      \* how long the task is still blocked in a call

netVars == <<net, radio, session, busy>>

None == "none"
Bearers == {"wifi", "gsm"}
States == {"down", "connecting", "linkUp", "sessionUp", "backoff"}

(* The longest age of a state that is told apart. *)
Oldest == CHOOSE m \in {LinkTimeout, SessionTimeout, MaxBackoff} :
              \A t \in {LinkTimeout, SessionTimeout, MaxBackoff} : t <= m

NetTypeOK ==
    /\ net \in [state : States, requested : Bearers \cup {None},
                active : Bearers \cup {None}, backoff : 0 .. MaxBackoff, age : 0 .. Oldest]
    /\ radio \in [wifi : {"off", "joining", "up", "lost"}, join : 0 .. JoinTime,
                  modem : BOOLEAN, attached : BOOLEAN]
    /\ session \in [via : Bearers \cup {None}, sub : {"none", "made", "refused"}]
    /\ air \in [wifi : BOOLEAN, gsm : BOOLEAN, broker : BOOLEAN]
    /\ busy \in 0 .. BlockTime

-----------------------------------------------------------------------------
(* The radios.  What a call may leave behind is a set of outcomes.         *)

WifiIsUp(r) == r.wifi = "up"

(* WiFi.begin while associated keeps the association or starts it anew.    *)
WifiConnect(r) ==
    LET joining == [r EXCEPT !.wifi = "joining", !.join = 0]
    IN IF WifiIsUp(r) THEN {r, joining} ELSE {joining}

WifiDisconnect(r) == [r EXCEPT !.wifi = "off", !.join = 0]

(* PWRKEY toggles. *)
PulsePowerKey(r) == [r EXCEPT !.modem = ~@]

(* A modem that is off is turned on first.  When it does not answer or     *)
(* cannot attach, an earlier attach is still noted.                        *)
GsmConnect(r) ==
    LET on == IF r.modem THEN r ELSE PulsePowerKey(r)
    IN [on EXCEPT !.attached = @ \/ air.gsm]

(* A modem that does not confirm its power-off gets a pulse, and one that  *)
(* is off already does not confirm it.                                     *)
GsmDisconnect(r) == PulsePowerKey([r EXCEPT !.attached = FALSE])

GsmIsUp(r) == r.attached /\ r.modem /\ air.gsm

BearerIsUp(r, b) == (b = "wifi" /\ WifiIsUp(r)) \/ (b = "gsm" /\ GsmIsUp(r))

StartBearer(r, b) == IF b = "wifi" THEN WifiConnect(r) ELSE {GsmConnect(r)}

StopBearer(r, b) ==
    CASE b = "wifi" -> WifiDisconnect(r) [] b = "gsm" -> GsmDisconnect(r) [] OTHER -> r

(* How long that start keeps the task. *)
Blocks(b) == IF b = "gsm" THEN {0, BlockTime} ELSE {0}

-----------------------------------------------------------------------------
(* The MQTT client.                                                        *)

NoSession == [via |-> None, sub |-> "none"]

(* The session goes over WiFi if that is up.  A broker that is out of      *)
(* reach, or refuses, leaves the client unconnected.                       *)
Carrier == IF WifiIsUp(radio) THEN "wifi" ELSE IF GsmIsUp(radio) THEN "gsm" ELSE None

MqttIsConnected == session.via # None /\ BearerIsUp(radio, session.via) /\ air.broker

-----------------------------------------------------------------------------
(* The state machine.                                                      *)

NetInit ==
    /\ net = [state |-> "down", requested |-> None, active |-> None, backoff |-> 0, age |-> 0]
    /\ radio = [wifi |-> "off", join |-> 0, modem |-> FALSE, attached |-> FALSE]
    /\ session = NoSession
    /\ air \in [wifi : BOOLEAN, gsm : BOOLEAN, broker : BOOLEAN]
    /\ busy = 0

EnterState(n, s) == IF n.state = s THEN n ELSE [n EXCEPT !.state = s, !.age = 0]

(* Bug: the back-off is not capped. *)
DoubledUncapped(ms) == IF ms = 0 THEN MinBackoff ELSE 2 * ms

Doubled(ms) ==
    IF ms = 0 THEN MinBackoff ELSE IF 2 * ms > MaxBackoff THEN MaxBackoff ELSE 2 * ms

EnterBackoff(n) == EnterState([n EXCEPT !.backoff = Doubled(@)], "backoff")

(* Bug: the bearer that was used is not torn down. *)
RequestBearerKeepsOld(b) ==
    IF net.requested = b THEN UNCHANGED netVars
    ELSE /\ session' = IF net.requested # None THEN NoSession ELSE session
         /\ radio' \in StartBearer(radio, b)
         /\ busy' \in Blocks(b)
         /\ net' = EnterState([net EXCEPT !.requested = b, !.backoff = 0, !.active = None],
                              "connecting")

(* A change of bearer while connecting does not restart the state's age.   *)
RequestBearer(b) ==
    IF net.requested = b THEN UNCHANGED netVars
    ELSE /\ session' = IF net.requested # None THEN NoSession ELSE session
         /\ radio' \in StartBearer(StopBearer(radio, net.requested), b)
         /\ busy' \in Blocks(b)
         /\ net' = EnterState([net EXCEPT !.requested = b, !.backoff = 0, !.active = None],
                              "connecting")

ReleaseBearer ==
    /\ session' = NoSession
    /\ radio' = StopBearer(radio, net.requested)
    /\ net' = EnterState([net EXCEPT !.requested = None, !.backoff = 0, !.active = None],
                         "down")
    /\ UNCHANGED busy

Down == net.state = "down" /\ UNCHANGED netVars

Connecting ==
    /\ net.state = "connecting"
    /\ UNCHANGED <<session, busy>>
    /\ IF BearerIsUp(radio, net.requested)
       THEN /\ net' = EnterState([net EXCEPT !.active = net.requested], "linkUp")
            /\ UNCHANGED radio
       ELSE IF net.age >= LinkTimeout
       THEN radio' = StopBearer(radio, net.requested) /\ net' = EnterBackoff(net)
       ELSE UNCHANGED <<net, radio>>

(* NetIf_ReapplySubscriptions: a refusal is not repeated. *)
ReapplySubscriptions == {"made", "refused"}

(* The session opens, or the attempt fails and may be over. *)
OpenSession ==
    /\ Carrier # None /\ air.broker
    /\ \E sub \in ReapplySubscriptions : session' = [via |-> Carrier, sub |-> sub]
    /\ net' = EnterState([net EXCEPT !.backoff = 0], "sessionUp")

NoAnswer ==
    /\ net' = IF net.age >= SessionTimeout THEN EnterBackoff(net) ELSE net
    /\ UNCHANGED session

LinkUp ==
    /\ net.state = "linkUp"
    /\ UNCHANGED <<radio, busy>>
    /\ IF ~BearerIsUp(radio, net.requested)
       THEN net' = EnterBackoff([net EXCEPT !.active = None]) /\ UNCHANGED session
       ELSE OpenSession \/ (~(Carrier # None /\ air.broker) /\ NoAnswer)

(* MqttLoop notices a lost connection, at once or later; the link is       *)
(* looked at each time.                                                    *)
SessionUp ==
    /\ net.state = "sessionUp"
    /\ UNCHANGED <<radio, busy>>
    /\ IF ~BearerIsUp(radio, net.requested)
       THEN net' = EnterBackoff([net EXCEPT !.active = None]) /\ session' = NoSession
       ELSE \/ ~MqttIsConnected /\ net' = EnterBackoff(net) /\ session' = NoSession
            \/ UNCHANGED <<net, session>>

Backoff ==
    /\ net.state = "backoff"
    /\ UNCHANGED session
    /\ IF net.age < net.backoff THEN UNCHANGED <<net, radio, busy>>
       ELSE /\ net' = EnterState(net, "connecting")
            /\ radio' \in StartBearer(radio, net.requested)
            /\ busy' \in Blocks(net.requested)

NetMainFunction == Down \/ Connecting \/ LinkUp \/ SessionUp \/ Backoff

-----------------------------------------------------------------------------
(* The radios while time passes.  An association completes within JoinTime *)
(* while its access point is in reach; one that breaks is not repeated     *)
(* until the next WiFi.begin.                                              *)

WifiLater(r) ==
    CASE r.wifi = "joining" /\ air.wifi ->
             {[r EXCEPT !.wifi = "up", !.join = 0]} \cup
             (IF r.join < JoinTime THEN {[r EXCEPT !.join = @ + 1]} ELSE {})
      [] r.wifi = "joining" /\ ~air.wifi ->
             {[r EXCEPT !.join = 0], [r EXCEPT !.wifi = "lost", !.join = 0]}
      [] r.wifi = "up" /\ ~air.wifi -> {[r EXCEPT !.wifi = "lost"]}
      [] OTHER -> {r}

NetTick ==
    /\ radio' \in WifiLater(radio)
    /\ net' = [net EXCEPT !.age = IF @ < Oldest THEN @ + 1 ELSE @]
    /\ busy' = IF busy > 0 THEN busy - 1 ELSE 0
    /\ UNCHANGED <<session, air>>

=============================================================================
