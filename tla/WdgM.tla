---------------------------------- MODULE WdgM ----------------------------------
(***************************************************************************)
(* Supervision of the cyclic tasks (WdgM.c) on the task watchdog of the    *)
(* chip (Wdg_Esp32.cpp).  WdgM judges each entity's checkpoints, and       *)
(* triggers the hardware as long as none has expired.  The hardware keeps  *)
(* an entry for each task that subscribed: it bites when one of them was   *)
(* not triggered, by that task itself, for a whole timeout.                *)
(*                                                                         *)
(* Time is counted in activations of the scheduler task.  The reports to   *)
(* Dem and the statistics are left out: nothing here depends on them.      *)
(***************************************************************************)
EXTENDS Integers, FiniteSets

CONSTANTS
    Entities,    \* the supervised tasks
    Scheduler,   \* the one that runs WdgM_MainFunction
    AliveMin, AliveMax, Deadline,   \* WdgM_Config
    Tolerance,   \* WDGM_FAILED_TOLERANCE_CYCLES
    MaxFailed,   \* where failedCycles saturates
    SlowTimeout, FastTimeout        \* WDG_TIMEOUT_SLOW_MS, WDG_TIMEOUT_FAST_MS

ASSUME WdgMAssumption ==
    /\ IsFiniteSet(Entities) /\ Scheduler \in Entities
    /\ {AliveMin, AliveMax, Deadline} \subseteq [Entities -> Nat]
    /\ {Tolerance, SlowTimeout, FastTimeout} \subseteq Nat \ {0}
    /\ MaxFailed \in Nat /\ MaxFailed >= Tolerance

VARIABLES
    entity,      \* WdgM_Entities and WdgM_LastCheckpoint
    active,      \* WdgM_SupervisionActive
    timeout,     \* the hardware's: Wdg_CurrentMode
    subscribed,  \* the tasks the hardware watches
    triggered,   \* those that reset it in the present period
    unfed        \* time since all of them had

wdgVars == <<entity, active, timeout, subscribed, triggered, unfed>>

CpEntry == "entry"
CpExit == "exit"

EntityStatus == [status : {"deactivated", "ok", "failed", "expired"},
                 alive : Nat, failed : 0 .. MaxFailed,
                 last : {CpEntry, CpExit}, age : Nat]

WdgTypeOK ==
    /\ entity \in [Entities -> EntityStatus]
    /\ active \in BOOLEAN
    /\ timeout \in {SlowTimeout, FastTimeout}
    /\ subscribed \subseteq Entities
    /\ triggered \subseteq subscribed
    /\ unfed \in 0 .. timeout

Fresh == [status |-> "deactivated", alive |-> 0, failed |-> 0,
          last |-> CpExit, age |-> 0]

(* Nothing is supervised yet; the hardware runs with its long timeout. *)
WdgInit ==
    /\ entity = [e \in Entities |-> Fresh]
    /\ active = FALSE
    /\ timeout = SlowTimeout
    /\ subscribed = {} /\ triggered = {} /\ unfed = 0

WdgReset ==
    /\ entity' = [e \in Entities |-> Fresh]
    /\ active' = FALSE
    /\ timeout' = SlowTimeout
    /\ subscribed' = {} /\ triggered' = {} /\ unfed' = 0

-----------------------------------------------------------------------------
(* Judging an entity.                                                      *)

Violated(s) ==
    LET n == IF s.failed < MaxFailed THEN s.failed + 1 ELSE s.failed
    IN [s EXCEPT !.failed = n,
                 !.status = IF n >= Tolerance THEN "expired" ELSE "failed"]

Judged(s, bad) == IF bad THEN Violated(s) ELSE s

(* WdgM_ActivateSupervision leaves the last checkpoint as it is. *)
Activated(s) == [s EXCEPT !.status = "ok", !.alive = 0, !.failed = 0, !.age = 0]

Deactivated(s) == [s EXCEPT !.status = "deactivated", !.alive = 0]

(* The late check-in of e, and the order of its checkpoints; the alive     *)
(* counter is stored as n.                                                 *)
Judge(e, s, cp, n) ==
    LET counted == [s EXCEPT !.alive = IF cp = CpEntry THEN n ELSE @]
        onTime == Judged(counted, s.age > Deadline[e])
        flow == Judged(onTime, cp = s.last)
    IN [flow EXCEPT !.age = 0, !.last = cp]

(* A deactivated entity is not judged, and its last checkpoint stays. *)
Reached(e, s, cp) ==
    IF s.status = "deactivated" THEN [s EXCEPT !.age = 0]
    ELSE Judge(e, s, cp, s.alive + 1)

(* Bug: the alive counters are not cleared. *)
EvaluatedKeepsCount(e, s) ==
    IF s.status = "deactivated" THEN s
    ELSE IF s.alive < AliveMin[e] \/ s.alive > AliveMax[e]
         THEN Violated(s)
         ELSE LET n == IF s.failed > 0 THEN s.failed - 1 ELSE 0
              IN [s EXCEPT !.failed = n, !.status = IF n = 0 THEN "ok" ELSE @]

(* Bug: an expired entity is forgiven by its first good cycle. *)
EvaluatedForgives(e, s) ==
    IF s.status = "deactivated" THEN s
    ELSE IF s.alive < AliveMin[e] \/ s.alive > AliveMax[e]
         THEN [Violated(s) EXCEPT !.alive = 0]
         ELSE [s EXCEPT !.alive = 0, !.failed = 0, !.status = "ok"]

(* One entity at the end of a supervision cycle. *)
Evaluated(e, s) ==
    IF s.status = "deactivated" THEN s
    ELSE IF s.alive < AliveMin[e] \/ s.alive > AliveMax[e]
         THEN [Violated(s) EXCEPT !.alive = 0]
         ELSE LET n == IF s.failed > 0 THEN s.failed - 1 ELSE 0
              IN [s EXCEPT !.alive = 0, !.failed = n,
                           !.status = IF n = 0 THEN "ok" ELSE @]

-----------------------------------------------------------------------------
(* The hardware.                                                           *)

(* Bug: any task resets the entries of all. *)
TriggerAll(task) == triggered' = {} /\ unfed' = 0

(* esp_task_wdt_reset: the timer restarts when every subscriber has reset  *)
(* it.  A task that never subscribed has no entry.                         *)
Trigger(task) ==
    LET now == triggered \cup ({task} \cap subscribed)
    IN IF subscribed # {} /\ now = subscribed
       THEN triggered' = {} /\ unfed' = 0
       ELSE triggered' = now /\ UNCHANGED unfed

Subscribe(task) ==
    /\ subscribed' = subscribed \cup {task}
    /\ triggered' = triggered \ {task}
    /\ UNCHANGED unfed

(* Wdg_SetMode: the timer is configured anew, and starts over. *)
SetMode(ms) == timeout' = ms /\ unfed' = 0

Bites == subscribed # {} /\ unfed = timeout

-----------------------------------------------------------------------------
(* WdgM_ActivateSupervision and WdgM_MainFunction.                         *)

(* Bug: the switch to the short timeout does not restart the timer. *)
ActivateSupervisionRunning ==
    /\ entity' = [e \in Entities |-> Activated(entity[e])]
    /\ active' = TRUE
    /\ timeout' = FastTimeout
    /\ UNCHANGED <<subscribed, triggered, unfed>>

ActivateSupervision ==
    /\ entity' = [e \in Entities |-> Activated(entity[e])]
    /\ active' = TRUE
    /\ SetMode(FastTimeout)
    /\ UNCHANGED <<subscribed, triggered>>

Expired(es) == {e \in Entities : es[e].status = "expired"}

(* Run by the scheduler task, whose own entry is the one it triggers. *)
WdgMainFunction ==
    /\ UNCHANGED <<active, timeout, subscribed>>
    /\ IF ~active THEN UNCHANGED entity /\ Trigger(Scheduler)
       ELSE /\ entity' = [e \in Entities |-> Evaluated(e, entity[e])]
            /\ IF Expired(entity') # {} THEN UNCHANGED <<triggered, unfed>>
               ELSE Trigger(Scheduler)

=============================================================================
