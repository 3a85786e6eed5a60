---------------------------------- MODULE SchM ----------------------------------
(***************************************************************************)
(* The four cyclic tasks (SchM.c, SchM_Esp32.cpp) under supervision.  A    *)
(* task runs its runnables between an entry and an exit checkpoint and     *)
(* sleeps until its period is over; the scheduler task runs the cyclic     *)
(* function of WdgM at every Divider-th activation.                        *)
(*                                                                         *)
(* Time passes in ticks of the scheduler's period.  A task that is ready   *)
(* runs before the next tick, and a body may take up to Budget ticks: all  *)
(* that takes longer is a fault of the environment.                        *)
(***************************************************************************)
EXTENDS WdgM

CONSTANTS
    Period,       \* activation periods, in ticks
    Budget,       \* ticks that a body may take
    Divider       \* activations of the scheduler per supervision cycle

ASSUME SchMAssumption ==
    /\ Period \in [Entities -> Nat \ {0}] /\ Budget \in [Entities -> Nat]
    /\ Period[Scheduler] = 1 /\ Budget[Scheduler] = 0
    /\ Divider \in Nat \ {0}

VARIABLES
    task,    \* where each task is, and how long ago its deadline was
    runs,    \* SchM_ActivationCount of the scheduler, modulo Divider
    late     \* history: a task has been late or stuck since the start

schVars == <<task, runs, late>>

Where == {"off", "subscribe", "wait", "enter", "count", "body", "leave", "stuck"}

SchTypeOK ==
    /\ task \in [Entities -> [pc : Where, since : Nat, read : Nat]]
    /\ \A e \in Entities : task[e].since <= Period[e]
    /\ runs \in 0 .. Divider - 1
    /\ late \in BOOLEAN

NoTask == [pc |-> "off", since |-> 0, read |-> 0]

SchInit ==
    /\ task = [e \in Entities |-> NoTask]
    /\ runs = 0 /\ late = FALSE

SchReset ==
    /\ task' = [e \in Entities |-> NoTask]
    /\ runs' = 0 /\ late' = FALSE

Goto(e, pc) == task' = [task EXCEPT ![e].pc = pc]

(* One iteration of SchM_PlatformCreateTask. *)
CreateTask(e) == task[e].pc = "off" /\ Goto(e, "subscribe")

-----------------------------------------------------------------------------
(* SchM_TaskBody and SchM_RunTask.                                         *)

(* The first action of a task.  The table of the watchdog may be full; the *)
(* task then runs without an entry in it.                                  *)
SubscribeTask(e, taken) ==
    /\ task[e].pc = "subscribe"
    /\ Goto(e, "enter")
    /\ IF taken THEN Subscribe(e) ELSE UNCHANGED <<subscribed, triggered, unfed>>
    /\ UNCHANGED <<entity, active, timeout, runs, late>>

Enter(e) ==
    /\ task[e].pc = "enter"
    /\ Goto(e, "body")
    /\ entity' = [entity EXCEPT ![e] = Reached(e, @, CpEntry)]
    /\ UNCHANGED <<active, timeout, subscribed, triggered, unfed, runs, late>>

(* aliveCounter++ is a load and a store, and the scheduler clears the      *)
(* counter without a lock: here it is loaded ...                           *)
LoadCount(e) ==
    /\ task[e].pc = "enter" /\ e # Scheduler
    /\ entity[e].status # "deactivated"
    /\ task' = [task EXCEPT ![e].pc = "count", ![e].read = entity[e].alive]
    /\ UNCHANGED <<wdgVars, runs, late>>

(* ... and stored, with what follows in WdgM_CheckpointReached.            *)
StoreCount(e) ==
    /\ task[e].pc = "count"
    /\ task' = [task EXCEPT ![e].pc = "body", ![e].read = 0]
    /\ entity' = [entity EXCEPT ![e] = Judge(e, @, CpEntry, task[e].read + 1)]
    /\ UNCHANGED <<active, timeout, subscribed, triggered, unfed, runs, late>>

(* The runnables, with the dividers of the scheduler's. *)
Body(e) ==
    /\ task[e].pc = "body"
    /\ Goto(e, "leave")
    /\ UNCHANGED late
    /\ IF e # Scheduler THEN UNCHANGED <<wdgVars, runs>>
       ELSE /\ runs' = (runs + 1) % Divider
            /\ IF runs' = 0 THEN WdgMainFunction ELSE UNCHANGED wdgVars

(* A body that overran its period resumes from now instead of catching up. *)
Leave(e) ==
    /\ task[e].pc = "leave"
    /\ entity' = [entity EXCEPT ![e] = Reached(e, @, CpExit)]
    /\ task' = IF task[e].since >= Period[e]
               THEN [task EXCEPT ![e].pc = "enter", ![e].since = 0]
               ELSE [task EXCEPT ![e].pc = "wait"]
    /\ UNCHANGED <<active, timeout, subscribed, triggered, unfed, runs, late>>

(* A runnable that never returns. *)
Sticks(e) ==
    /\ task[e].pc = "body"
    /\ Goto(e, "stuck")
    /\ late' = TRUE
    /\ UNCHANGED <<wdgVars, runs>>

RunTask(e) == Enter(e) \/ StoreCount(e) \/ Body(e) \/ Leave(e)

-----------------------------------------------------------------------------
(* Time.                                                                   *)

(* May a tick pass before this task has gone on? *)
Patient(e) ==
    \/ task[e].pc \in {"off", "wait", "stuck"}
    \/ task[e].pc = "body" /\ task[e].since < Budget[e]

OneTickOlder(e) ==
    LET n == IF task[e].since < Period[e] THEN task[e].since + 1 ELSE Period[e]
    IN IF task[e].pc = "off" THEN task[e]
       ELSE IF task[e].pc = "wait" /\ n = Period[e]
            THEN [task[e] EXCEPT !.pc = "enter", !.since = 0]
            ELSE [task[e] EXCEPT !.since = n]

TimePasses ==
    /\ ~Bites
    /\ task' = [e \in Entities |-> OneTickOlder(e)]
    /\ entity' = [e \in Entities |->
           [entity[e] EXCEPT !.age = IF @ <= Deadline[e] THEN @ + 1 ELSE @]]
    /\ unfed' = IF subscribed = {} THEN 0 ELSE unfed + 1
    /\ UNCHANGED <<active, timeout, subscribed, triggered, runs>>

Tick == (\A e \in Entities : Patient(e)) /\ TimePasses /\ UNCHANGED late

LateTick == (\E e \in Entities : ~Patient(e)) /\ TimePasses /\ late' = TRUE

=============================================================================
