---------------------------------- MODULE EcuM ----------------------------------
(***************************************************************************)
(* Start-up, crash loops and shutdown (EcuM.c, main.cpp), with the tasks   *)
(* and their supervision (SchM, WdgM) and the wall clock (TimeAbs).        *)
(* A start brings up the drivers, the memory, the clock, evaluates the     *)
(* record of restarts, brings up the devices that are not degraded,        *)
(* creates the tasks and activates supervision.  A reset may come at any   *)
(* point.                                                                  *)
(*                                                                         *)
(* The restart record is a block that NvM writes at once: a write either   *)
(* lands or leaves what was there.                                         *)
(***************************************************************************)
EXTENDS SchM, TimeAbs

CONSTANTS
    Count,      \* ECUM_CRASH_LOOP_COUNT
    Window,     \* ECUM_CRASH_LOOP_WINDOW_S
    MaxBoots,   \* bound: the starts of a behaviour
    MaxFaults,  \* bound: the faults of one
    MaxRaces    \* bound: the torn increments of one

FaultKinds == {"late", "stuck", "race", "osc", "clock", "device", "memory",
               "write", "create", "reset"}

(* What is explored: the tasks of one run, where the hardware has an entry *)
(* for the scheduler's alone or for every task, or start after start.      *)
Environments == {"tasks", "watched", "starts"}

FaultsOf(e) == CASE e = "tasks" -> {"late", "stuck", "race"}
                 [] e = "watched" -> {"stuck"}
                 [] OTHER -> FaultKinds \ {"late", "stuck", "race"}

ASSUME EcuMAssumption ==
    /\ {Count, MaxBoots} \subseteq Nat \ {0} /\ {Window, MaxFaults, MaxRaces} \subseteq Nat

VARIABLES
    env,       \* the environment
    phase,     \* where EcuM is
    reason,    \* Mcu_GetResetReason
    info,      \* the stored restart record
    status,    \* EcuM_Status: the mask, the flag and what is available
    boots,     \* starts so far
    faults,    \* faults so far
    races,     \* torn increments so far
    starts     \* history: the starts that evaluated the record

bootVars == <<phase, reason, info, status, starts>>
counts == <<env, boots, faults, races>>
vars == <<wdgVars, schVars, timeVars, bootVars, counts>>

Subsystems == {"packs", "storage", "network"}
Devices == {"nvm", "can", "packs", "gnss", "storage", "network"}
Reasons == {"power", "brownout", "watchdog", "panic", "software"}
Phases == {"off", "drivers", "memory", "clock", "evaluate", "sensors", "services",
           "tasks", "supervise", "run", "flush", "end"}

Start == [day : 0 .. LastDay, right : BOOLEAN, loop : BOOLEAN, stored : BOOLEAN]

(* Types and ranges. *)
TypeOK ==
    /\ WdgTypeOK /\ SchTypeOK /\ TimeTypeOK
    /\ env \in Environments
    /\ phase \in Phases
    /\ reason \in Reasons
    /\ info \in [count : 0 .. MaxBoots, window : 0 .. LastDay]
    /\ status \in [degraded : SUBSET Subsystems, loop : BOOLEAN, up : SUBSET Devices]
    /\ boots \in 0 .. MaxBoots
    /\ faults \in 0 .. MaxFaults /\ races \in 0 .. MaxRaces
    /\ starts \in Seq(Start)

NoStatus == [degraded |-> {}, loop |-> FALSE, up |-> {}]

Init ==
    /\ WdgInit /\ SchInit /\ TimeInit
    /\ env \in Environments
    /\ phase = "drivers" /\ reason = "power"
    /\ info = [count |-> 0, window |-> 0]
    /\ status = NoStatus
    /\ boots = 1 /\ faults = 0 /\ races = 0
    /\ starts = <<>>

Fault(kind) ==
    /\ kind \in FaultsOf(env)
    /\ faults < MaxFaults
    /\ faults' = faults + 1

NoFault == UNCHANGED faults

-----------------------------------------------------------------------------
(* EcuM_Init, step by step.                                                *)

Frame == UNCHANGED <<env, boots, races>>

(* A reset, by the program, the hardware or the supply: what is in RAM is  *)
(* gone.  Behind the last start the behaviour ends.                        *)
Restart(why, to) ==
    /\ WdgReset /\ SchReset /\ RestartTime
    /\ reason' = why
    /\ status' = NoStatus
    /\ IF boots < MaxBoots /\ env = "starts"
       THEN phase' = to /\ boots' = boots + 1
       ELSE phase' = "end" /\ UNCHANGED boots
    /\ UNCHANGED <<info, starts, env, races>>

At(here, next) == phase = here /\ phase' = next

(* WdgM_Init and the drivers; a driver that fails panics. *)
InitDrivers ==
    /\ At("drivers", "memory") /\ WdgReset
    /\ NoFault
    /\ UNCHANGED <<schVars, timeVars, reason, info, status, starts>> /\ Frame

(* The record may not be readable; NvM then holds its default, and without *)
(* a flash driver it answers nothing.                                      *)
InitMemory ==
    /\ At("memory", "clock")
    /\ \/ NoFault /\ status' = [status EXCEPT !.up = @ \cup {"nvm"}] /\ UNCHANGED <<info, starts>>
       \/ Fault("memory") /\ UNCHANGED <<status, info, starts>>
       \/ /\ Fault("memory")
          /\ info' = [count |-> 0, window |-> 0] /\ starts' = <<>>
          /\ status' = [status EXCEPT !.up = @ \cup {"nvm"}]
    /\ UNCHANGED <<wdgVars, schVars, timeVars, reason>> /\ Frame

InitClock ==
    /\ At("clock", "evaluate")
    /\ \/ StartClock /\ NoFault
       \/ StartClockFails /\ Fault("clock")
    /\ UNCHANGED <<wdgVars, schVars, reason, info, status, starts>> /\ Frame

(* Bug: the window is a day too long. *)
WindowExpiredLate ==
    /\ clock.valid /\ info.window # 0
    /\ Reading - info.window \notin 0 .. Window + 1

(* The window is over.  The difference is unsigned, so a clock that was    *)
(* set back ends it too.  Without a time it stays open.                    *)
WindowExpired ==
    /\ clock.valid /\ info.window # 0
    /\ Reading - info.window \notin 0 .. Window

(* Bug: the start that ends a window is not counted. *)
CountedFromZero ==
    IF WindowExpired THEN [count |-> 0, window |-> Reading]
    ELSE [count |-> info.count + 1,
          window |-> IF info.window = 0 THEN Reading ELSE info.window]

Counted ==
    IF WindowExpired THEN [count |-> 1, window |-> Reading]
    ELSE [count |-> info.count + 1,
          window |-> IF info.window = 0 THEN Reading ELSE info.window]

(* What to leave out follows from the cause of the last reset. *)
Degraded(loop) ==
    IF ~loop THEN {}
    ELSE IF reason \in {"watchdog", "panic"} THEN {"packs", "storage"} ELSE {"network"}

EvaluateCrashLoop ==
    /\ At("evaluate", "sensors")
    /\ IF "nvm" \notin status.up THEN NoFault /\ UNCHANGED <<info, status, starts>>
       ELSE LET new == Counted
                loop == new.count >= Count
            IN /\ status' = [status EXCEPT !.loop = loop, !.degraded = Degraded(loop)]
               /\ \/ NoFault /\ info' = new
                  \/ Fault("write") /\ UNCHANGED info
               /\ starts' = Append(starts,
                      [day |-> today, right |-> clock.valid /\ Reading = today,
                       loop |-> loop, stored |-> info' = new])
    /\ UNCHANGED <<wdgVars, schVars, timeVars, reason>> /\ Frame

(* The devices that are not degraded come up, or one of them fails: no     *)
(* failure is fatal.                                                       *)
Wanted(all) == all \ status.degraded

InitDevices(all) ==
    \/ NoFault /\ status' = [status EXCEPT !.up = @ \cup Wanted(all)]
    \/ /\ Fault("device")
       /\ \E d \in Wanted(all) :
              status' = [status EXCEPT !.up = @ \cup (Wanted(all) \ {d})]

InitSensors ==
    /\ At("sensors", "services") /\ InitDevices({"can", "packs", "gnss"})
    /\ UNCHANGED <<wdgVars, schVars, timeVars, reason, info, starts>> /\ Frame

InitServices ==
    /\ At("services", "tasks") /\ InitDevices({"storage", "network"})
    /\ UNCHANGED <<wdgVars, schVars, timeVars, reason, info, starts>> /\ Frame

(* SchM_StartTasks: the tasks are created in turn, the scheduler's first,  *)
(* and run at once.                                                        *)
StartTask ==
    /\ phase = "tasks"
    /\ \E e \in Entities :
           CreateTask(e) /\ (e = Scheduler \/ task[Scheduler].pc # "off")
    /\ NoFault
    /\ phase' = IF \A e \in Entities : task'[e].pc # "off" THEN "supervise" ELSE phase
    /\ UNCHANGED <<wdgVars, runs, late, timeVars, reason, info, status, starts>> /\ Frame

(* The one fatal failure: main resets. *)
CreateFails ==
    /\ phase = "tasks" /\ Fault("create")
    /\ Restart("software", "drivers")

Supervise ==
    /\ At("supervise", "run") /\ ActivateSupervision
    /\ NoFault
    /\ UNCHANGED <<schVars, timeVars, reason, info, status, starts>> /\ Frame

Boot == \/ InitDrivers \/ InitMemory \/ InitClock \/ EvaluateCrashLoop
        \/ InitSensors \/ InitServices \/ StartTask \/ Supervise

-----------------------------------------------------------------------------
(* The run.                                                                *)

(* EcuM_ShutdownAndReset: supervision ends, the blocks are written, ...    *)
Shutdown ==
    /\ At("run", "flush")
    /\ entity' = [e \in Entities |-> Deactivated(entity[e])]
    /\ NoFault
    /\ UNCHANGED <<active, timeout, subscribed, triggered, unfed, schVars, timeVars>>
    /\ UNCHANGED <<reason, info, status, starts>> /\ Frame

(* ... and the unit resets. *)
ShutdownEnds ==
    /\ phase = "flush" /\ NoFault
    /\ Restart("software", "drivers")

(* EcuM_ClearCrashLoopCounter, on request. *)
ClearCrashLoopCounter ==
    /\ phase = "run" /\ env = "starts" /\ "nvm" \in status.up
    /\ info' = [count |-> 0, window |-> Reading]
    /\ status' = [status EXCEPT !.loop = FALSE, !.degraded = {}]
    /\ starts' = <<>>
    /\ NoFault
    /\ UNCHANGED <<wdgVars, schVars, timeVars, phase, reason>> /\ Frame

stillBoot == UNCHANGED <<timeVars, bootVars, env, boots>>

(* Tasks run from their creation on. *)
Running == env # "starts" /\ phase # "end"

Watched == IF env = "watched" THEN Entities ELSE {Scheduler}

Proceed(e) == RunTask(e) \/ SubscribeTask(e, e \in Watched)

TaskStep ==
    /\ Running
    /\ \E e \in Entities : Proceed(e)
    /\ UNCHANGED <<faults, races>> /\ stillBoot

TaskFault ==
    /\ Running
    /\ \/ /\ \E e \in Entities : Sticks(e)
          /\ Fault("stuck") /\ UNCHANGED races
       \/ /\ \E e \in Entities : LoadCount(e)
          /\ "race" \in FaultsOf(env) /\ races < MaxRaces /\ races' = races + 1 /\ NoFault
       \/ LateTick /\ Fault("late") /\ UNCHANGED races
    /\ stillBoot

TimeStep ==
    /\ Running /\ phase \in {"supervise", "run", "flush"}
    /\ Tick
    /\ UNCHANGED <<faults, races>> /\ stillBoot

Bite ==
    /\ Bites
    /\ NoFault
    /\ Restart("watchdog", "drivers")

-----------------------------------------------------------------------------
(* What happens to a unit between and during its starts.                   *)

Reset ==
    /\ Fault("reset") /\ phase \notin {"off", "end"}
    /\ \/ Restart("panic", "drivers")
       \/ Restart("brownout", "drivers")
       \/ Restart("power", "off")

PowerOn ==
    /\ At("off", "drivers") /\ NoFault
    /\ UNCHANGED <<wdgVars, schVars, timeVars, reason, info, status, starts>> /\ Frame

Day ==
    /\ env = "starts"
    /\ \/ phase \in {"run", "off"} /\ DayPasses(phase = "run") /\ NoFault
       \/ phase = "off" /\ OscillatorStops /\ Fault("osc")
       \/ phase = "run" /\ Synchronise(TRUE) /\ NoFault
       \/ phase = "run" /\ Synchronise(FALSE) /\ Fault("clock")
    /\ UNCHANGED <<wdgVars, schVars, bootVars>> /\ Frame

Next ==
    \/ Boot \/ CreateFails
    \/ Shutdown \/ ShutdownEnds \/ ClearCrashLoopCounter
    \/ TaskStep \/ TaskFault \/ TimeStep \/ Bite
    \/ Reset \/ PowerOn \/ Day

Spec == Init /\ [][Next]_vars

(* The start-up goes on, a task that is ready gets the processor, and time *)
(* passes.                                                                 *)
FairSpec ==
    /\ Spec
    /\ WF_vars(Boot) /\ WF_vars(TimeStep) /\ WF_vars(Bite)
    /\ \A e \in Entities : WF_vars(Proceed(e) /\ TaskStep)

-----------------------------------------------------------------------------
(* Properties.                                                             *)

(* The configuration leaves room for what a punctual schedule can cost: an *)
(* activation fits its period (the assertions of SchM_Cfg.h:151-158) and   *)
(* the period its deadline, a supervision cycle holds fewer activations    *)
(* than the largest count and more than the smallest, it is shorter than   *)
(* the hardware's timeouts, and the tolerance is above what the start of   *)
(* the supervision, one late count and the torn increments can cost        *)
(* (WdgM_Cfg.h:36-118).                                                    *)
One(b) == IF b THEN 1 ELSE 0

Allowance(e) == 1 + One(AliveMin[e] > 0) + (IF e = Scheduler THEN 0 ELSE MaxRaces)

Schedulable ==
    /\ \A e \in Entities : Budget[e] <= Period[e] /\ Period[e] <= Deadline[e]
    /\ \A e \in Entities : AliveMax[e] * Period[e] > Divider
    /\ \A e \in Entities \ {Scheduler} : AliveMin[e] * Period[e] < Divider
    /\ AliveMin[Scheduler] <= Divider
    /\ Divider < FastTimeout /\ Divider < SlowTimeout
    /\ \A e \in Entities : Allowance(e) < Tolerance

(* Tasks that keep their budgets are never taken for stuck: no entity      *)
(* expires, whatever happens around the activation of supervision and      *)
(* however the torn increments fall, and the hardware does not bite as     *)
(* long as only the scheduler task is watched by it.                       *)
HealthyUndisturbed ==
    ~late => Expired(entity) = {} /\ (subscribed \subseteq {Scheduler} => ~Bites)

(* An entity that expired is forgiven only after the trigger has been      *)
(* withheld for its whole tolerance.                                       *)
ForgivenLate ==
    [][\A e \in Entities :
          entity[e].status = "expired" /\ entity'[e].status = "ok"
              => unfed + 1 >= (Tolerance - 1) * Divider]_vars

(* A task in the hardware's table that never returns resets the unit.      *)
StuckIsReset ==
    \A e \in Entities :
        (task[e].pc = "stuck" /\ e \in subscribed) ~> (task[e].pc = "off")

(* Within one window, 2 * Count - 1 starts whose record was stored and     *)
(* whose clock was right include one that was found to be in a loop: a     *)
(* window that ends among them cuts them into two parts, one of which has  *)
(* Count starts.                                                           *)
Enough == 2 * Count - 1

LoopDetected ==
    \A i \in 1 .. Len(starts) - Enough + 1 :
        LET these == {starts[k] : k \in i .. i + Enough - 1}
        IN (\A s, t \in these : s.right /\ s.stored /\ s.day - t.day <= Window)
           => \E s \in these : s.loop

(* A loop is found only if there were Count starts, this one included,     *)
(* and all of them within a window if their clocks were right.  Of the     *)
(* earlier ones those count whose record was stored.                       *)
StoredStarts(upto) == {k \in 1 .. upto : starts[k].stored}

LatestStored(upto, m) ==
    LET all == StoredStarts(upto)
    IN {k \in all : Cardinality({j \in all : j >= k}) <= m}

LoopIsReal ==
    LET now == Len(starts)
        earlier == LatestStored(now - 1, Count - 1)
    IN status.loop =>
          /\ Cardinality(StoredStarts(now - 1)) >= Count - 1
          /\ (\A k \in earlier : starts[k].right) /\ starts[now].right
                => \A k \in earlier : starts[now].day - starts[k].day <= Window

(* Crash loops (EcuM_EvaluateCrashLoop) are found and are real.            *)
LoopsTold == LoopDetected /\ LoopIsReal

=============================================================================
