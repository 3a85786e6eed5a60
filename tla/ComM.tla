---------------------------------- MODULE ComM ----------------------------------
(***************************************************************************)
(* The choice between WiFi and GSM (ComM.c).  A bearer that has not        *)
(* brought a session within its allowance has failed; after FailureLimit   *)
(* failures the other one is requested, and after PreferredRetry on the    *)
(* fallback WiFi gets a new allowance.                                     *)
(***************************************************************************)
EXTENDS NetIf

CONSTANTS
    Allowance,        \* link timeout, session timeout and margin
    FailureLimit,     \* COMM_FAILURE_LIMIT
    PreferredRetry    \* COMM_PREFERRED_RETRY_MS

ASSUME ComMAssumption ==
    {Allowance, FailureLimit, PreferredRetry} \subseteq Nat \ {0}

VARIABLE comm         \* ComM_Status, ComM_AttemptStartedMs, ComM_FallbackSinceMs

NoFailures == [b \in Bearers |-> 0]

ComTypeOK ==
    comm \in [full : BOOLEAN, preferred : Bearers \cup {None},
              failures : [Bearers -> 0 .. FailureLimit],
              attempt : 0 .. Allowance, fallback : 0 .. PreferredRetry]

ComInit ==
    comm = [full |-> FALSE, preferred |-> None, failures |-> NoFailures,
            attempt |-> 0, fallback |-> 0]

-----------------------------------------------------------------------------
(* ComM_ChooseBearer, with the counters as it leaves them.                 *)

(* Bug: when both are exhausted their counters stay. *)
ChooseBearerForGood(failures) ==
    IF failures["wifi"] < FailureLimit THEN [bearer |-> "wifi", failures |-> failures]
    ELSE [bearer |-> "gsm", failures |-> failures]

ChooseBearer(failures) ==
    IF failures["wifi"] < FailureLimit THEN [bearer |-> "wifi", failures |-> failures]
    ELSE IF failures["gsm"] < FailureLimit THEN [bearer |-> "gsm", failures |-> failures]
    ELSE [bearer |-> "wifi", failures |-> NoFailures]

RecordFailure(failures, b) == [failures EXCEPT ![b] = @ + 1]

(* ComM_RequestMode. *)
RequestFullCommunication ==
    /\ ~comm.full
    /\ LET choice == ChooseBearer(NoFailures)
       IN /\ comm' = [full |-> TRUE, preferred |-> choice.bearer,
                      failures |-> choice.failures, attempt |-> 0, fallback |-> 0]
          /\ RequestBearer(choice.bearer)

RequestNoCommunication ==
    /\ comm.full
    /\ comm' = [comm EXCEPT !.full = FALSE, !.preferred = None]
    /\ ReleaseBearer

-----------------------------------------------------------------------------
(* ComM_MainFunction.                                                      *)

(* A session on the preferred bearer. *)
OnPreferred == net.state = "sessionUp" /\ comm.preferred = "wifi"

(* What a session does first: the bearer that carries it has not failed.   *)
Cleared == [comm EXCEPT !.attempt = 0,
                        !.failures = IF net.active = None THEN @
                                     ELSE [@ EXCEPT ![net.active] = 0]]

StayOnPreferred ==
    /\ OnPreferred
    /\ comm' = [Cleared EXCEPT !.fallback = 0]
    /\ UNCHANGED netVars

(* Bug: the time on the fallback is measured from the last activation. *)
StayOnFallbackAnew ==
    /\ net.state = "sessionUp" /\ comm.preferred # "wifi"
    /\ comm.fallback < PreferredRetry
    /\ comm' = [Cleared EXCEPT !.fallback = 0]
    /\ UNCHANGED netVars

StayOnFallback ==
    /\ net.state = "sessionUp" /\ comm.preferred # "wifi"
    /\ comm.fallback < PreferredRetry
    /\ comm' = Cleared
    /\ UNCHANGED netVars

RetryPreferred ==
    /\ net.state = "sessionUp" /\ comm.preferred # "wifi"
    /\ comm.fallback >= PreferredRetry
    /\ LET choice == ChooseBearer([Cleared.failures EXCEPT !["wifi"] = 0])
       IN /\ comm' = [Cleared EXCEPT !.preferred = choice.bearer,
                                     !.failures = choice.failures, !.fallback = 0]
          /\ IF choice.bearer # net.active THEN RequestBearer(choice.bearer)
             ELSE UNCHANGED netVars

StillTrying ==
    /\ net.state # "sessionUp" /\ comm.attempt < Allowance
    /\ UNCHANGED <<comm, netVars>>

AttemptFailed ==
    /\ net.state # "sessionUp" /\ comm.attempt >= Allowance
    /\ LET failed == comm.preferred
           choice == ChooseBearer(RecordFailure(comm.failures, failed))
           next == [comm EXCEPT !.failures = choice.failures, !.attempt = 0]
       IN IF choice.bearer = failed THEN comm' = next /\ UNCHANGED netVars
          ELSE /\ comm' = [next EXCEPT !.preferred = choice.bearer, !.fallback = 0]
               /\ RequestBearer(choice.bearer)

ComMainFunction ==
    IF ~comm.full THEN UNCHANGED <<comm, netVars>>
    ELSE \/ StayOnPreferred \/ StayOnFallback \/ RetryPreferred
         \/ StillTrying \/ AttemptFailed

ComTick ==
    comm' = [comm EXCEPT
        !.attempt = IF @ < Allowance THEN @ + 1 ELSE @,
        !.fallback = IF @ < PreferredRetry THEN @ + 1 ELSE @]

=============================================================================
