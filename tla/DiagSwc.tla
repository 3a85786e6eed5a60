--------------------------------- MODULE DiagSwc ---------------------------------
(***************************************************************************)
(* Diagnostics (DiagSwc.c): the record of confirmed faults in flash, its   *)
(* replay at a restart, and the services a tool may request.               *)
(*                                                                         *)
(* Nothing in the repository calls DiagSwc_HandleRequest: requests are     *)
(* taken to be served by the storage task, which runs the rest of the      *)
(* module, one at a time.  A write of the flash block either stores the    *)
(* new contents or leaves the old.                                         *)
(***************************************************************************)
EXTENDS Dem

CONSTANTS
    Replays,   \* DEM_DEFAULT_FAILURE_THRESHOLD + 8
    Counts     \* what the voltage channel may measure

ASSUME DiagSwcAssumption ==
    Replays \in Nat \ {0} /\ Counts \subseteq {NoCount} \cup 0 .. MaxCount

VARIABLES
    diag,    \* DiagSwc_LastConfirmedCount, the write in progress, and
             \* whether this start's operation cycle has begun
    flash,   \* FEE_BLOCK_DTC_STORE: the confirmed events
    shown    \* history: events shown as faulty and why

diagVars == <<diag, flash, shown>>

Idle == [last |-> 0, at |-> "idle", block |-> {}, cycle |-> FALSE]

(* fails: failed reports since the start or a clear.  earned: the events   *)
(* that collected a threshold of them since the last clear that was        *)
(* confirmed; fresh: since the last that was requested.  kept: the events  *)
(* stored since a clear was requested or the block was unreadable.         *)
NothingShown == [fails |-> [e \in Events |-> 0], earned |-> {}, fresh |-> {}, kept |-> {}]

DiagTypeOK ==
    /\ diag \in [last : 0 .. Cardinality(Events), at : {"off", "idle", "write", "clear"},
                 block : SUBSET Events, cycle : BOOLEAN]
    /\ shown.fails \in [Events -> Nat]
    /\ flash \subseteq Events
    /\ shown.earned \cup shown.fresh \cup shown.kept \subseteq Events

DiagInit == diag = Idle /\ flash = {} /\ shown = NothingShown

(* The records go from r1 to r2 by reports. *)
Count(h, r1, r2) ==
    LET fails == [e \in Events |->
                    IF r2[e].debounce > r1[e].debounce
                    THEN h.fails[e] + r2[e].debounce - r1[e].debounce ELSE h.fails[e]]
        now == {e \in Events : fails[e] >= Threshold[e]}
    IN [h EXCEPT !.fails = [e \in Events |-> IF e \in now THEN Threshold[e] ELSE fails[e]],
                 !.earned = @ \cup now, !.fresh = @ \cup now]

(* Some task reports: the records are r2. *)
Reported(r2) == dem' = r2 /\ shown' = Count(shown, dem, r2)

-----------------------------------------------------------------------------
(* DiagSwc_Init at a start: DiagSwc_Restore replays the stored faults as   *)
(* failures until each is confirmed, at most Replays times.                *)

Again(x, e, i, counts) ==
    IF i > 1 /\ x[e].confirmed THEN x ELSE SetEventStatus(x, e, "failed", counts)

Replay(r, e, counts) ==
    LET after[i \in 0 .. Replays] == IF i = 0 THEN r ELSE Again(after[i - 1], e, i, counts)
    IN after[Replays]

RestoreOne(x, block, e, counts) == IF e \in block THEN Replay(x, e, counts) ELSE x

Restore(block, counts) ==
    LET after[i \in 0 .. Len(EventList)] ==
            IF i = 0 THEN DemInit ELSE RestoreOne(after[i - 1], block, EventList[i], counts)
    IN after[Len(EventList)]

(* A block that is unreadable or damaged restores nothing. *)
DiagStart(readable, counts) ==
    /\ diag.at = "off"
    /\ dem' = Restore(IF readable THEN flash ELSE {}, counts)
    /\ diag' = Idle
    /\ shown' = Count([shown EXCEPT !.fails = NothingShown.fails,
                                    !.kept = IF readable THEN @ ELSE {}],
                      [e \in Events |-> IF readable /\ e \in flash THEN dem'[e] ELSE NeverTested], dem')
    /\ UNCHANGED flash

(* EcuM starts one operation cycle per start, with the tasks running. *)
CycleStarts ==
    /\ diag.at # "off" /\ ~diag.cycle
    /\ dem' = StartOperationCycle
    /\ diag' = [diag EXCEPT !.cycle = TRUE]
    /\ UNCHANGED <<flash, shown>>

(* Power is lost: at any time, also before or after a write took effect. *)
DiagStop(written) ==
    /\ diag.at # "off"
    /\ written => diag.at \in {"write", "clear"}
    /\ flash' = IF written THEN diag.block ELSE flash
    /\ dem' = DemInit
    /\ diag' = [Idle EXCEPT !.at = "off"]
    /\ shown' = [shown EXCEPT !.kept = IF written /\ diag.at = "write" THEN @ \cup diag.block ELSE @]

-----------------------------------------------------------------------------
(* DiagSwc_MainFunction: when the number of confirmed faults has changed,  *)
(* it is noted and the block assembled; then the block is written.  The    *)
(* result of the write is discarded.                                       *)

(* Bug: faults still being debounced are stored too. *)
PersistPending(r) == {e \in Events : r[e].confirmed \/ r[e].pending}

(* DiagSwc_Persist up to the write. *)
Persist(r) == Confirmed(r)

NoteConfirmed ==
    /\ diag.at = "idle"
    /\ Cardinality(Confirmed(dem)) # diag.last
    /\ diag' = [diag EXCEPT !.last = Cardinality(Confirmed(dem)), !.at = "write",
                            !.block = Persist(dem)]
    /\ UNCHANGED <<dem, flash, shown>>

WriteFaults(ok) ==
    /\ diag.at = "write"
    /\ flash' = IF ok THEN diag.block ELSE flash
    /\ shown' = [shown EXCEPT !.kept = IF ok THEN @ \cup diag.block ELSE @]
    /\ diag' = [diag EXCEPT !.at = "idle", !.block = {}]
    /\ UNCHANGED dem

-----------------------------------------------------------------------------
(* DiagSwc_HandleRequest.                                                  *)

(* ClearDiagnosticInformation: the records, then the block.  It is         *)
(* confirmed only if the write succeeded.                                  *)
ServeClear ==
    /\ diag.at = "idle"
    /\ dem' = ClearDtc
    /\ diag' = [diag EXCEPT !.at = "clear", !.block = Persist(dem')]
    /\ shown' = [shown EXCEPT !.kept = {}, !.fails = NothingShown.fails, !.fresh = {}]
    /\ UNCHANGED flash

AnswerClear(ok) ==
    /\ diag.at = "clear"
    /\ flash' = IF ok THEN diag.block ELSE flash
    /\ diag' = [diag EXCEPT !.at = "idle", !.block = {}]
    /\ shown' = IF ok THEN [shown EXCEPT !.earned = shown.fresh] ELSE shown
    /\ UNCHANGED dem

(* ReadDTCInformation. *)
ReadDtc == Confirmed(dem)

=============================================================================
