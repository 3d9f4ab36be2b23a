------------------------------ MODULE Schedule ------------------------------
(***************************************************************************)
(* cron_to_schtasks::translate: the five fields of a cron expression become*)
(* the flags of a Windows task, or are refused. A field is what the        *)
(* translator tells apart: "*", "*/n", a decimal number n, the name of     *)
(* weekday n, or anything else (a list, a range, a sign, letters).         *)
(***************************************************************************)
EXTENDS Naturals

CONSTANT Numbers    \* the numbers that fields, dates and times are made of

ASSUME ScheduleAssumption == Numbers \subseteq Nat

Field(kind, n) == [kind |-> kind, n |-> n]
Star == Field("any", 0)
Other == Field("other", 0)
Numbered(kind, N) == {Field(kind, n) : n \in N}

Weekdays == Numbers \cap 0..6
Expressions ==
    [min : {Star, Other} \cup Numbered("step", Numbers) \cup Numbered("number", Numbers),
     hr  : {Star, Other} \cup Numbered("number", Numbers),
     dom : {Star, Other} \cup Numbered("number", Numbers),
     mon : {Star, Other},
     dow : {Star, Other} \cup Numbered("number", Numbers) \cup Numbered("name", Weekdays)]

-----------------------------------------------------------------------------
(* The translator *)

\* parse_int_in_range and parse_dow
InRange(f, lo, hi) == f.kind = "number" /\ f.n \in lo..hi
IsWeekday(f) == f.kind = "name" \/ InRange(f, 0, 6)

\* /SC, /MO, /D, and hour and minute of /ST
Task(sc, every, day, hh, mm) == [sc |-> sc, mo |-> every, d |-> day, hh |-> hh, mm |-> mm]
Refused == Task("refused", 0, 0, 0, 0)

\* (mutant) a day of the month is used whatever the weekday says
MonthlyShapeAnyDow(e) == e.hr # Star /\ e.dom # Star
\* "M H DOM * *"
MonthlyShape(e) == e.hr # Star /\ e.dom # Star /\ e.dow = Star

\* the steps n of "*/n" that /MO takes
MinuteSteps == 1..1439

translate(e) ==
    LET every == e.hr = Star /\ e.dom = Star /\ e.dow = Star
        timed == InRange(e.hr, 0, 23) IN
    CASE e.mon # Star -> Refused
      [] e.mon = Star /\ every /\ e.min = Star ->
            Task("MINUTE", 1, 0, 0, 0)
      [] e.mon = Star /\ every /\ e.min.kind = "step" ->
            IF e.min.n \in MinuteSteps THEN Task("MINUTE", e.min.n, 0, 0, 0) ELSE Refused
      [] e.mon = Star /\ every /\ InRange(e.min, 0, 59) ->
            Task("HOURLY", 1, 0, 0, e.min.n)
      [] e.mon = Star /\ InRange(e.min, 0, 59) /\ e.hr # Star /\ e.dom = Star /\ e.dow # Star ->
            IF timed /\ IsWeekday(e.dow)
            THEN Task("WEEKLY", 1, e.dow.n, e.hr.n, e.min.n) ELSE Refused
      [] e.mon = Star /\ InRange(e.min, 0, 59) /\ e.hr # Star /\ e.dom = Star /\ e.dow = Star ->
            IF timed THEN Task("DAILY", 1, 0, e.hr.n, e.min.n) ELSE Refused
      [] e.mon = Star /\ InRange(e.min, 0, 59) /\ MonthlyShape(e) ->
            IF timed /\ InRange(e.dom, 1, 31)
            THEN Task("MONTHLY", 1, e.dom.n, e.hr.n, e.min.n) ELSE Refused
      [] OTHER -> Refused

-----------------------------------------------------------------------------
(* What the two schedulers do with it *)

\* A minute of some month; the weekday is independent of the day of the month.
Moments == [min : Numbers \cap 0..59, hr : Numbers \cap 0..23,
            dom : Numbers \cap 1..31, dow : Weekdays]

\* cron: "*" matches all, "*/n" the multiples of n; when both the day of the
\* month and the weekday are restricted, either of them is enough
Matches(f, n) ==
    CASE f.kind = "any" -> TRUE
      [] f.kind = "step" -> f.n # 0 /\ n % f.n = 0
      [] OTHER -> f.n = n
CronFires(e, at) ==
    LET byDom == Matches(e.dom, at.dom)
        byDow == Matches(e.dow, at.dow) IN
    /\ Matches(e.min, at.min) /\ Matches(e.hr, at.hr)
    /\ IF e.dom # Star /\ e.dow # Star THEN byDom \/ byDow ELSE byDom /\ byDow

\* Task Scheduler, for a task that has a start time or runs every minute
TaskFires(t, at) ==
    /\ t.sc # "MINUTE" => at.min = t.mm
    /\ t.sc \in {"DAILY", "WEEKLY", "MONTHLY"} => at.hr = t.hh
    /\ t.sc = "WEEKLY" => at.dow = t.d
    /\ t.sc = "MONTHLY" => at.dom = t.d

-----------------------------------------------------------------------------
\* cron runs "*/n" every n minutes, round the clock
EveryNMinutes(f, n) ==
    \A m \in 0..59 : Matches(f, m) =>
        \A k \in 1..n : Matches(f, (m + k) % 60) <=> k = n

\* Whatever combination of fields translate accepts, the task runs at exactly the
\* minutes cron would have run the job. ("*/n" starts when the task is created, so
\* only its period can agree, and does when n divides 60.)
TranslationExact ==
    \A e \in Expressions :
        LET t == translate(e) IN
        t # Refused =>
            IF e.min.kind = "step"
            THEN 60 % e.min.n = 0 => EveryNMinutes(e.min, t.mo)
            ELSE \A at \in Moments : TaskFires(t, at) <=> CronFires(e, at)
=============================================================================
