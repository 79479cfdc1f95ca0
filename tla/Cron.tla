-------------------------------- MODULE Cron --------------------------------
(* When a task with a cron expression runs next: parse and next_after of   *)
(* scheduler/cron.py and the conversion from the clock of the user and     *)
(* back in scheduler/service.py and when.py, for one call.                 *)
(*                                                                         *)
(* Time counts minutes. The calendar is a parameter, so that the checked   *)
(* one is small; the code's has 60, 24, 7 and the months of the year. The  *)
(* zone changes its offset from UTC once.                                  *)
EXTENDS Integers, Sequences, FiniteSetsExt

CONSTANTS
    Hour,        \* minutes of an hour
    Day,         \* hours of a day
    Week,        \* days of a week
    Months,      \* the lengths of the months, in days
    HorizonDays, \* HORIZON_DAYS
    Exprs,       \* the expressions asked about
    Nows,        \* the times, in UTC, at which they are
    Zones        \* the zones: [at : minute of the change, before, after : offsets]

VARIABLES
    expr, now, zone,  \* what is asked
    t,                \* the candidate of next_after, on the clock of the user
    answer            \* "none" yet, "found", "never" or "stopped"

vars == <<expr, now, zone, t, answer>>

-----------------------------------------------------------------------------
(* The calendar.                                                           *)

DayOf(time) == time \div (Hour * Day)
HourOf(time) == (time \div Hour) % Day
MinuteOf(time) == time % Hour

Before[m \in 1..Len(Months)] == IF m = 1 THEN 0 ELSE Before[m - 1] + Months[m - 1]
YearDays == Before[Len(Months)] + Months[Len(Months)]
MonthOf(time) ==
    CHOOSE m \in DOMAIN Months : (DayOf(time) % YearDays) - Before[m] \in 0..(Months[m] - 1)
DateOf(time) == 1 + (DayOf(time) % YearDays) - Before[MonthOf(time)]
WeekdayOf(time) == DayOf(time) % Week

\* datetime.now(UTC).astimezone(tz)
Local(time) == time + (IF time < zone.at THEN zone.before ELSE zone.after)

\* replace(tzinfo=tz).astimezone(UTC): a time the clock shows twice is the first
\* of the two, and one it skips is counted with the offset before the change.
Utc(time) ==
    time - (IF time < zone.at + Max({zone.before, zone.after}) THEN zone.before ELSE zone.after)

-----------------------------------------------------------------------------
(* parse. A part of a field is *, a value or a range from its first value  *)
(* to its last, each with a step.                                          *)

\* A value with a step runs to the end of the field.
PartValues(part, lo, hi) ==
    LET first == IF part.kind = "*" THEN lo ELSE part.from
        last == IF part.kind = "*" \/ (part.kind = "value" /\ part.step > 1) THEN hi ELSE part.to
    IN  {v \in first..last : (v - first) % part.step = 0}

Field(parts, lo, hi) == UNION {PartValues(part, lo, hi) : part \in parts}

\* The day counts as free only if some part is * without a step.
Free(parts) == \E part \in parts : part.kind = "*" /\ part.step = 1

Cron ==
    [minutes  |-> Field(expr.minute, 0, Hour - 1),
     hours    |-> Field(expr.hour, 0, Day - 1),
     days     |-> Field(expr.day, 1, Max({Months[m] : m \in DOMAIN Months})),
     months   |-> Field(expr.month, 1, Len(Months)),
     weekdays |-> {v % Week : v \in Field(expr.weekday, 0, Week)},
     domStar  |-> Free(expr.day),
     dowStar  |-> Free(expr.weekday)]

-----------------------------------------------------------------------------
(* next_after                                                              *)

\* _day_ok
DayOk(time) ==
    LET cron == Cron
        dom == DateOf(time) \in cron.days
        dow == WeekdayOf(time) \in cron.weekdays
    IN  /\ MonthOf(time) \in cron.months
        /\ \/ cron.domStar /\ (dow \/ cron.dowStar)
           \/ ~cron.domStar /\ cron.dowStar /\ dom
           \/ ~cron.domStar /\ ~cron.dowStar /\ (dom \/ dow)

\* The first candidate is the minute after the one of the call.
First(time) == time + 1

Init ==
    /\ expr \in Exprs /\ now \in Nows /\ zone \in Zones
    /\ t = First(Local(now))
    /\ answer = "none"

Within == answer = "none" /\ t < Local(now) + HorizonDays * Day * Hour
Step(time) == t' = time /\ UNCHANGED <<expr, now, zone, answer>>

\* A variant: the next day, at the same hour.
SameHourNextDay == t + Day * Hour

\* The first minute of the next day.
NextDay == (DayOf(t) + 1) * Day * Hour

SkipDay == Within /\ ~DayOk(t) /\ Step(NextDay)

SkipHour ==
    /\ Within /\ DayOk(t) /\ HourOf(t) \notin Cron.hours
    /\ Step(((t \div Hour) + 1) * Hour)

SkipMinute ==
    /\ Within /\ DayOk(t) /\ HourOf(t) \in Cron.hours
    /\ MinuteOf(t) \notin Cron.minutes
    /\ Step(t + 1)

Answer(what) == answer' = what /\ UNCHANGED <<expr, now, zone, t>>

Found ==
    /\ Within /\ DayOk(t) /\ HourOf(t) \in Cron.hours /\ MinuteOf(t) \in Cron.minutes
    /\ Answer("found")

\* CronError; advance then gives no time and the task ends.
Never == answer = "none" /\ ~Within /\ Answer("never")

Next == SkipDay \/ SkipHour \/ SkipMinute \/ Found \/ Never

Spec == Init /\ [][Next]_vars

-----------------------------------------------------------------------------
(* Properties.                                                             *)

TypeOK ==
    /\ expr \in Exprs /\ now \in Nows /\ zone \in Zones
    /\ t \in Int /\ answer \in {"none", "found", "never"}

\* The text says that the minute is one of the task's: each field allows it,
\* but of the two days one is enough when both are restricted.
Says(time) ==
    LET minute == \E p \in expr.minute : MinuteOf(time) \in PartValues(p, 0, Hour - 1)
        hour == \E p \in expr.hour : HourOf(time) \in PartValues(p, 0, Day - 1)
        month == \E p \in expr.month : MonthOf(time) \in PartValues(p, 1, Len(Months))
        date == \E p \in expr.day : DateOf(time) \in PartValues(p, 1, 31)
        weekday == \E p \in expr.weekday : \E v \in PartValues(p, 0, Week) : v % Week = WeekdayOf(time)
    IN  /\ minute /\ hour /\ month
        /\ IF Free(expr.day) \/ Free(expr.weekday) THEN date /\ weekday ELSE date \/ weekday

\* next_after: the answer is the first minute after the call that the text
\* names, and "never" is said only if there is none within the horizon.
SkipsNothing ==
    /\ answer # "none" => \A time \in (Local(now) + 1)..(t - 1) : ~Says(time)
    /\ answer = "found" => Says(t)

\* The user's clock shows the time of the call for the second time.
Repeated == now >= zone.at /\ Local(now) < zone.at + zone.before

\* next_run: the next run of a task lies after the moment it is computed at, so
\* that a task does not come due again at once; but in the hour that the clock
\* of the user shows for the second time.
NextIsLater == answer = "found" => Utc(t) > now \/ Repeated
=============================================================================
