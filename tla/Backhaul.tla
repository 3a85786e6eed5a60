-------------------------------- MODULE Backhaul --------------------------------
(***************************************************************************)
(* The connectivity task: ComM chooses a bearer, NetIf brings it up, and   *)
(* TelemSwc publishes over it, one after the other at each activation      *)
(* (SchM.c).  What is in reach of the radios changes while it sleeps.      *)
(***************************************************************************)
EXTENDS ComM, Backfill, TLC

CONSTANTS
    Requests,      \* the requests of operators that are explored
    MaxRequests,   \* bound: the requests of a behaviour
    MaxChanges,    \* bound: the changes of what is in reach
    Bound          \* what a healthy bearer waits for a session at most

(* What the parser keeps of a request are days, as many as there is room   *)
(* for.                                                                    *)
ASSUME BackhaulAssumption ==
    /\ Requests \subseteq Seq(Days \cup {Junk})
    /\ \A payload \in Requests : /\ ParseBackfillRequest(payload) \in Seq(Days)
                                 /\ Len(ParseBackfillRequest(payload)) <= MaxDates
    /\ {MaxRequests, MaxChanges, Bound} \subseteq Nat

VARIABLES
    env,       \* what is explored
    pc,        \* where the task is
    requests,  \* requests so far
    changes,   \* changes so far
    denied     \* history: how long each bearer has been healthy without a session

taskVars == <<env, pc, requests, changes, denied>>
vars == <<netVars, air, comm, files, telemVars, taskVars>>

(* Three explorations: bearers that come and go, with nothing to send; and *)
(* over WiFi records without requests, or requests beside one record.      *)
Environments == {"bearers", "records", "days"}

TypeOK ==
    /\ NetTypeOK /\ ComTypeOK /\ TelemTypeOK
    /\ env \in Environments
    /\ pc \in {"sleep", "comm", "net", "live", "sent", "serve"}
    /\ requests \in 0 .. MaxRequests /\ changes \in 0 .. MaxChanges
    /\ denied \in [Bearers -> Nat]

NotDenied == [b \in Bearers |-> 0]

(* ComM has been initialised and asked for full communication by EcuM. *)
Init ==
    /\ NetInit /\ ComInit /\ TelemInit
    /\ env \in Environments
    /\ env # "days" => files = [d \in Days |-> Absent]
    /\ env # "bearers" => air = [wifi |-> TRUE, gsm |-> FALSE, broker |-> TRUE]
    /\ pc = "comm"
    /\ requests = 0 /\ changes = 0 /\ denied = NotDenied

-----------------------------------------------------------------------------
(* The task.                                                               *)

idle == UNCHANGED <<files, telemVars>>

At(here, next) == pc = here /\ busy = 0 /\ pc' = next

CommStep ==
    /\ At("comm", "net") /\ ComMainFunction
    /\ idle /\ UNCHANGED <<air, env, requests, changes, denied>>

NetStep ==
    /\ At("net", "live") /\ NetMainFunction
    /\ idle /\ UNCHANGED <<air, comm, env, requests, changes, denied>>

(* A request arrives in MqttLoop, over the subscription. *)
RequestArrives ==
    /\ At("net", "live")
    /\ net.state = "sessionUp" /\ session.sub = "made" /\ MqttIsConnected
    /\ env = "days" /\ requests < MaxRequests /\ requests' = requests + 1
    /\ \E payload \in Requests : OnBackfillRequest(payload)
    /\ UNCHANGED <<netVars, air, comm, env, changes, denied>>

(* NetIf_Publish: what the client accepts goes out at quality of service   *)
(* 0; a connection that was lost unnoticed accepts it too.                 *)
MayAccept == net.state = "sessionUp"
MayRefuse == net.state # "sessionUp" \/ ~MqttIsConnected

Frame == UNCHANGED <<netVars, air, comm, env, requests, changes, denied>>

PublishLive ==
    \/ At("live", "serve") /\ (~live.pending \/ MayRefuse) /\ idle /\ Frame
    \/ At("live", "sent") /\ live.pending /\ MayAccept /\ LiveSent /\ Frame
    \/ At("sent", "serve") /\ LiveCleared /\ Frame

ServeBackfill ==
    \/ /\ At("serve", "sleep") /\ (~backfill.active \/ net.state # "sessionUp")
       /\ idle /\ Frame
    \/ /\ backfill.active /\ net.state = "sessionUp"
       /\ \/ At("serve", "sleep") /\ (AllServed \/ (MayRefuse /\ ChunkRefused) \/ ChunkSent(Read))
          \/ At("serve", "serve") /\ (SkipDay \/ PastTheEnd \/ (Gone /\ ReadFails))
       /\ Frame

(* The card fails while a chunk is read, and the failure is answered as    *)
(* one or goes unnoticed.                                                  *)
CardFails ==
    /\ backfill.active /\ net.state = "sessionUp" /\ ~Gone
    /\ \/ At("serve", "serve") /\ ReadFails
       \/ At("serve", "sleep") /\ Readable /\ \E read \in 0 .. Read - 1 : ChunkSent(read)
    /\ changes < MaxChanges /\ changes' = changes + 1
    /\ UNCHANGED <<netVars, air, comm, env, requests, denied>>

Activation == CommStep \/ NetStep \/ RequestArrives \/ PublishLive \/ ServeBackfill

-----------------------------------------------------------------------------
(* Around it.                                                              *)

Healthy(b) == air[b] /\ air.broker

Waiting(n) == IF n > Bound THEN n ELSE n + 1

Tick ==
    /\ pc = "sleep" \/ busy > 0
    /\ pc' = IF pc = "sleep" THEN "comm" ELSE pc
    /\ NetTick /\ ComTick
    /\ denied' = [b \in Bearers |-> IF env = "bearers" /\ Healthy(b) /\ net.state # "sessionUp"
                                    THEN Waiting(denied[b]) ELSE 0]
    /\ idle /\ UNCHANGED <<env, requests, changes>>

(* A bearer or the broker comes into reach or leaves it. *)
Change ==
    /\ changes < MaxChanges /\ changes' = changes + 1
    /\ \E x \in IF env = "bearers" THEN {"wifi", "gsm", "broker"} ELSE {"broker"} :
           air' = [air EXCEPT ![x] = ~@]
    /\ denied' = [b \in Bearers |-> IF air'[b] /\ air'.broker THEN denied[b] ELSE 0]
    /\ idle /\ UNCHANGED <<netVars, comm, env, pc, requests>>

(* EcuM's request, and a release of all bearers. *)
RequestMode ==
    /\ pc = "sleep" \/ (pc = "comm" /\ ~comm.full)
    /\ \/ RequestFullCommunication /\ UNCHANGED changes
       \/ RequestNoCommunication /\ env = "bearers" /\ changes < MaxChanges /\ changes' = changes + 1
    /\ denied' = NotDenied
    /\ idle /\ UNCHANGED <<air, env, pc, requests>>

StorageStep ==
    /\ \/ AcquireAndStore(pc = "sent") /\ (env = "records" \/ (env = "days" /\ live.seq = 0))
       \/ RemoveDay /\ env = "days"
    /\ UNCHANGED <<netVars, air, comm, taskVars>>

Next == Activation \/ CardFails \/ Tick \/ Change \/ RequestMode \/ StorageStep

Spec == Init /\ [][Next]_vars

(* The task runs to its end, time passes, and EcuM asks for a bearer.      *)
FairSpec ==
    /\ Spec
    /\ WF_vars(Activation) /\ WF_vars(Tick)
    /\ WF_vars(RequestMode /\ comm'.full)

-----------------------------------------------------------------------------
(* Properties.                                                             *)

(* Only the requested bearer is used: the WiFi radio is off and the modem  *)
(* is not attached unless they were asked for, and a session goes over the *)
(* bearer it was opened for.                                               *)
OneBearer ==
    /\ radio.wifi # "off" => net.requested = "wifi"
    /\ radio.attached => net.requested = "gsm"
    /\ session.via \in {None, net.requested}

(* What a bearer may keep the task blocked, what a trial of it takes at    *)
(* most before ComM turns to the other one, what it needs when it is       *)
(* requested while in reach, and what it may have to wait for a session.   *)
Stay(b) == IF b = "gsm" THEN BlockTime ELSE 0

Trial(b) == FailureLimit * (Allowance + Stay(b))

Start(b) == IF b = "gsm" THEN BlockTime + 1 ELSE 2 * JoinTime + MinBackoff + 2

Longest(b) == Trial("wifi") + Trial("gsm") + Start(b)

(* A trial is long enough for a bearer in reach, which is so with the      *)
(* program's 30 s for a link and three trials of 50 s each.                *)
Patient ==
    /\ JoinTime < LinkTimeout
    /\ \A b \in Bearers : Start(b) < FailureLimit * Allowance /\ Longest(b) <= Bound

(* A bearer that stays in reach, with its broker, brings a session within  *)
(* Bound, whatever the other one does and whatever happened before.        *)
OutageBounded == comm.full => \A b \in Bearers : denied[b] <= Bound

(* The latest record has been published live or is still pending, but for  *)
(* one that was acquired while its predecessor was going out.              *)
LiveOwed == ~live.pending => live.seq \in {shown.live, shown.overtaken}

(* A requested day is sent once and in order, as large as it was when its  *)
(* transfer began, unless a read was answered with a failure; all that is  *)
(* missing of it is what other reads left out and did not tell.            *)
DaysWhole ==
    ~day.last.broken => day.last.inOrder /\ day.last.got + day.last.lost = day.last.size

(* WiFi carries the session again and again once it stays in reach.        *)
PreferredReturns ==
    <>[](Healthy("wifi") /\ comm.full) => []<>(net.state = "sessionUp" /\ net.active = "wifi")

(* A transfer ends if WiFi stays in reach. *)
TransferEnds ==
    <>[](Healthy("wifi") /\ comm.full) => [](backfill.active => <>~backfill.active)

=============================================================================
