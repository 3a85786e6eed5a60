--------------------------------- MODULE TimeAbs ---------------------------------
(***************************************************************************)
(* The wall clock (TimeAbs.c) and the clock chip it starts from            *)
(* (TimeAbs_Esp32.cpp).  The chip counts calendar dates and says whether   *)
(* its oscillator has stopped; TimeAbs keeps the offset of the wall clock  *)
(* from the monotonic millisecond counter, which wraps.                    *)
(*                                                                         *)
(* Time is counted in days since 1970.  The time of day, the bus           *)
(* transfers and the packed digits are left out: a register that is not a  *)
(* number, or a transfer that fails, is a read that fails.                 *)
(***************************************************************************)
EXTENDS Integers, Sequences

CONSTANTS
    FirstDay, LastDay,           \* bound: the days of a behaviour
    MinPlausible, MaxPlausible,  \* TIMEABS_MIN/MAX_PLAUSIBLE_UNIX
    Wrap,                        \* days after which the counter wraps
    Drift                        \* TIMEABS_RTC_DRIFT_TOLERANCE_S

ASSUME TimeAbsAssumption ==
    /\ {FirstDay, LastDay, MinPlausible, MaxPlausible, Wrap, Drift} \subseteq Nat
    /\ MinPlausible <= FirstDay /\ FirstDay <= LastDay /\ LastDay <= MaxPlausible
    /\ Wrap \in 1 .. MinPlausible
    /\ MinPlausible > 10957    \* the chip's epoch, 2000-01-01
    /\ MaxPlausible < 47482    \* 2100-01-01, where the calendars part

VARIABLES
    today,   \* the true day
    uptime,  \* days since the start, never wrapped
    rtc,     \* the chip: its date, its stop flag
    clock,   \* TimeAbs_Status and TimeAbs_EpochOffsetSec
    stale,   \* history: the chip has not been set since it stopped
    setAt    \* history: the uptime at which the clock was set

timeVars == <<today, uptime, rtc, clock, stale, setAt>>

-----------------------------------------------------------------------------
(* The calendar.                                                           *)

IsLeapYear(y) == y % 4 = 0 /\ (y % 100 # 0 \/ y % 400 = 0)

DaysInYear(y) == IF IsLeapYear(y) THEN 366 ELSE 365

MonthDays == <<31, 28, 31, 30, 31, 30, 31, 31, 30, 31, 30, 31>>

(* Bug: February always has 28 days. *)
DaysInMonthPlain(y, m) == MonthDays[m]

DaysInMonth(y, m) == IF m = 2 /\ IsLeapYear(y) THEN 29 ELSE MonthDays[m]

Years == 1970 .. 2100

(* The days before a year, and before a month of a year. *)
DaysBefore[y \in Years] ==
    IF y = 1970 THEN 0 ELSE DaysBefore[y - 1] + DaysInYear(y - 1)

DaysBeforeMonth(y, m) ==
    LET before[k \in 1 .. 12] ==
            IF k = 1 THEN 0 ELSE before[k - 1] + DaysInMonth(y, k - 1)
    IN before[m]

ToDate(day) ==
    LET y == CHOOSE y \in Years :
                 DaysBefore[y] <= day /\ day < DaysBefore[y] + DaysInYear(y)
        d == day - DaysBefore[y]
        m == CHOOSE m \in 1 .. 12 :
                 DaysBeforeMonth(y, m) <= d
                 /\ d < DaysBeforeMonth(y, m) + DaysInMonth(y, m)
    IN [year |-> y, month |-> m, day |-> d - DaysBeforeMonth(y, m) + 1]

FromDate(date) ==
    DaysBefore[date.year] + DaysBeforeMonth(date.year, date.month) + date.day - 1

Plausible(day) == day \in MinPlausible .. MaxPlausible

(* What a chip shows whose cell has died. *)
Epoch2000 == [year |-> 2000, month |-> 1, day |-> 1]

Dates == {ToDate(d) : d \in FirstDay .. LastDay} \cup {Epoch2000}

TimeTypeOK ==
    /\ today \in FirstDay .. LastDay
    /\ uptime \in Nat
    /\ rtc \in [date : Dates, stopped : BOOLEAN]
    /\ clock \in [valid : BOOLEAN, present : BOOLEAN, offset : Int]
    /\ stale \in BOOLEAN
    /\ setAt \in 0 .. uptime

-----------------------------------------------------------------------------
(* TimeAbs_GetUnixTime: the offset, and the counter as it reads.           *)

Counter == uptime % Wrap

Reading == IF clock.valid THEN clock.offset + Counter ELSE 0

NoClock == [valid |-> FALSE, present |-> FALSE, offset |-> 0]

TimeInit ==
    /\ today = FirstDay /\ uptime = 0
    /\ rtc = [date |-> ToDate(FirstDay), stopped |-> FALSE]
    /\ clock = NoClock
    /\ stale = FALSE /\ setAt = 0

(* The registers of the chip as a time, and a time written to them.        *)
RtcRead == FromDate(rtc.date)

RtcWrite(day) == rtc' = [rtc EXCEPT !.date = ToDate(day)]

(* TimeAbs_Init: a chip that had stopped has its flag cleared, and is not  *)
(* used for this run; one that shows an implausible date is present.       *)
StartClock ==
    /\ setAt' = uptime
    /\ UNCHANGED <<today, uptime, stale>>
    /\ IF rtc.stopped
       THEN rtc' = [rtc EXCEPT !.stopped = FALSE] /\ clock' = NoClock
       ELSE /\ UNCHANGED rtc
            /\ clock' = IF Plausible(RtcRead)
                        THEN [valid |-> TRUE, present |-> TRUE,
                              offset |-> RtcRead - Counter]
                        ELSE [NoClock EXCEPT !.present = TRUE]

(* It does not answer, now or when it is read. *)
StartClockFails ==
    /\ clock' \in {NoClock, [NoClock EXCEPT !.present = TRUE]}
    /\ setAt' = uptime
    /\ UNCHANGED <<today, uptime, rtc, stale>>

(* TimeAbs_Synchronise with the time of a server.  The chip is set when    *)
(* the clock was not valid or was off by more than Drift; taken: whether   *)
(* that transfer succeeds.                                                 *)
Synchronise(taken) ==
    LET off == today - Reading
        write == clock.present /\ (~clock.valid \/ off > Drift \/ off < -Drift)
    IN /\ clock' = [clock EXCEPT !.valid = TRUE, !.offset = today - Counter]
       /\ setAt' = uptime
       /\ IF write /\ taken
          THEN RtcWrite(today) /\ stale' = FALSE
          ELSE UNCHANGED <<rtc, stale>>
       /\ UNCHANGED <<today, uptime>>

(* The chip's own calendar; it counts as long as its oscillator runs.      *)
ChipMonth(date) ==
    IF date.month = 2 THEN IF date.year % 4 = 0 THEN 29 ELSE 28
    ELSE IF date.month \in {4, 6, 9, 11} THEN 30 ELSE 31

NextDay(date) ==
    IF date.day < ChipMonth(date) THEN [date EXCEPT !.day = @ + 1]
    ELSE IF date.month < 12 THEN [date EXCEPT !.month = @ + 1, !.day = 1]
    ELSE [year |-> date.year + 1, month |-> 1, day |-> 1]

DayPasses(powered) ==
    /\ today < LastDay
    /\ today' = today + 1
    /\ uptime' = IF powered THEN uptime + 1 ELSE 0
    /\ rtc' = IF stale \/ rtc.date = Epoch2000 THEN rtc
              ELSE [rtc EXCEPT !.date = NextDay(rtc.date)]
    /\ UNCHANGED <<clock, stale, setAt>>

(* The cell of the chip dies, and it starts again later where it stood or  *)
(* at its epoch.                                                           *)
OscillatorStops ==
    /\ rtc' \in {[rtc EXCEPT !.stopped = TRUE],
                 [date |-> Epoch2000, stopped |-> TRUE]}
    /\ stale' = TRUE
    /\ UNCHANGED <<today, uptime, clock, setAt>>

(* The counter restarts with the program. *)
RestartTime ==
    /\ uptime' = 0 /\ setAt' = 0
    /\ clock' = NoClock
    /\ UNCHANGED <<today, rtc, stale>>

(* A valid clock shows the true day.  It may be wrong only once the        *)
(* counter has wrapped since it was set, or when it was taken from a chip  *)
(* that has not been set since its oscillator stopped: the start that      *)
(* finds the flag clears it, and the next one trusts the date.             *)
ClockTrue ==
    clock.valid /\ ~stale /\ uptime \div Wrap = setAt \div Wrap
        => Reading = today

=============================================================================
