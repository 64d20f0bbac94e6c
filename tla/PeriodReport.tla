---------------------------- MODULE PeriodReport ----------------------------
(***************************************************************************)
(* THIS and AVG: usage/analytics.py, build_usage_report, with the token    *)
(* arithmetic of usage/models.py.                                          *)
(*                                                                         *)
(* The report has no state: it is a set of operators on the observations   *)
(* and on today's date.  The actions are the world's: tokens are used, the *)
(* day changes, the clock is set back, old transcripts are deleted.        *)
(*                                                                         *)
(* Days are numbers, in the zone of the report.                            *)
(***************************************************************************)
EXTENDS Integers, FiniteSets, FiniteSetsExt, Functions

CONSTANTS LastDay,      \* bound: the last day
          MonthStarts,  \* the days on which a month begins; day 1 is one
          Models,
          Amounts,      \* what one observation may hold, and zero tokens
          Lookback,     \* lookback_days
          MinDays,      \* minimum_history_days
          MinMonths,    \* minimum_history_months
          ComparisonDays,   \* comparison_days; 0: not given
          MaxUses       \* bound: observations

VARIABLES used,         \* day -> model -> tokens
          seen,         \* days with an observation, one of zero tokens too
          today,
          uses

reportVars == <<used, seen, today, uses>>

Days == 1 .. LastDay

-----------------------------------------------------------------------------
(* Tokens: input, cache writes and what is known of their lifetimes *)

None == [in |-> 0, write |-> 0, short |-> 0, long |-> 0]

(* The detail is part of the aggregate, which is raised to it. *)
Clean(t) == [t EXCEPT !.write = Max({@, t.short + t.long})]
Plus(s, t) == Clean([k \in DOMAIN s |-> s[k] + t[k]])
Total(t) == t.in + t.write
Tokens == {t \in [in : Nat, write : Nat, short : Nat, long : Nat] : t.short + t.long <= t.write}
SumTokens(f, S) == [k \in DOMAIN None |-> SumFunctionOnSet([x \in S |-> f[x][k]], S)]

(* The tokens of some days, per model and over all models. *)
ByModel(days) == [m \in Models |-> SumTokens([d \in Days |-> used[d][m]], days \intersect Days)]
AllModels(by) == SumTokens(by, Models)

(* The report rejects other limits. *)
ReportAssumption ==
    /\ LastDay \in Nat
    /\ MonthStarts \subseteq Days /\ 1 \in MonthStarts
    /\ IsFiniteSet(Models)
    /\ Amounts \subseteq Tokens
    /\ {Lookback, MinDays, MinMonths} \subseteq Nat \ {0}
    /\ ComparisonDays \in Nat

HalfUp(n, d) == (2 * n + d) \div (2 * d)

-----------------------------------------------------------------------------
(* The reaction *)

NoReaction == -1

(* 0: below the average, 1: similar, 2: from 1.5, 3: from 2, 4: from 3 times. *)
Classify(n, d) ==
    IF n < d THEN 0
    ELSE IF n * 2 < d * 3 THEN 1
    ELSE IF n < d * 2 THEN 2
    ELSE IF n < d * 3 THEN 3 ELSE 4

Intensity(this, history, periods, minimum, complete) ==
    IF ~complete \/ periods < minimum THEN NoReaction
    ELSE IF history = 0 THEN IF this = 0 THEN 1 ELSE 4
    ELSE Classify(this * periods, history)

(* PeriodUsageComparison *)
Comparison(this, history, periods, minimum, complete) ==
    LET t == Total(AllModels(this))
        h == Total(AllModels(history))
    IN [this |-> t, history |-> h, periods |-> periods,
        intensity |-> Intensity(t, h, periods, minimum, complete),
        average |-> IF ~complete \/ periods < minimum \/ periods = 0 THEN -1
                    ELSE HalfUp(h, periods)]

-----------------------------------------------------------------------------
(* The window *)

Visible(day) == {d \in seen : d <= day}
EffectiveStart(day) ==
    IF Visible(day) = {} THEN day ELSE Max({day - Lookback + 1, Min(Visible(day))})
Window(day) == EffectiveStart(day) .. day
WindowTotal(day) == Total(AllModels(ByModel(Window(day))))

-----------------------------------------------------------------------------
(* Daily *)

DailyStart(day) ==
    IF ComparisonDays = 0 THEN EffectiveStart(day) ELSE Max({EffectiveStart(day), day - ComparisonDays})

(* A usual mistake: the day that is not over belongs to the average. *)
DailyHistoryToday(day) == DailyStart(day) .. day

DailyHistory(day) == DailyStart(day) .. day - 1

Daily(day) ==
    Comparison(ByModel({day}), ByModel(DailyHistory(day)), day - DailyStart(day), MinDays, TRUE)

(* The mistake of counting only the days that have a record. *)
TodayComparisonSeen(day) ==
    LET days == Cardinality(DailyHistory(day) \intersect seen)
    IN Intensity(Total(AllModels(ByModel({day}))), Total(AllModels(ByModel(DailyHistory(day)))),
                 days, MinDays, TRUE)

(* compare_today_to_average, which counts the days by itself. *)
TodayComparison(day) ==
    LET days == Max({0, day - 1 - DailyStart(day) + 1})
    IN Intensity(Total(AllModels(ByModel({day}))), Total(AllModels(ByModel(DailyHistory(day)))),
                 days, MinDays, TRUE)

-----------------------------------------------------------------------------
(* Monthly *)

MonthOf(d) == Max({s \in MonthStarts : s <= d})
NextMonth(s) == Min({t \in MonthStarts \union {LastDay + 1} : t > s})

CurrentMonth(day) == MonthOf(day)
FirstMonth(day) == MonthOf(EffectiveStart(day))
HasPartial(day) == EffectiveStart(day) > FirstMonth(day) /\ FirstMonth(day) < CurrentMonth(day)
Complete(day) ==
    {s \in MonthStarts : s < CurrentMonth(day) /\ s >= IF HasPartial(day) THEN NextMonth(FirstMonth(day)) ELSE FirstMonth(day)}

(* The mistake of scaling with the day after the first record. *)
ScaleShort(t, calendar, observed) ==
    Clean([k \in DOMAIN t |-> HalfUp(t[k] * calendar, observed + 1)])

(* Every category is scaled and rounded by itself. *)
Scale(t, calendar, observed) == Clean([k \in DOMAIN t |-> HalfUp(t[k] * calendar, observed)])

(* A first month that is only partly there, prorated to the whole month. *)
PartialDays(day) == EffectiveStart(day) .. NextMonth(FirstMonth(day)) - 1
Estimate(days) ==
    LET s == MonthOf(Min(days))
        by == ByModel(days)
    IN [m \in Models |-> Scale(by[m], NextMonth(s) - s, Cardinality(days))]

MonthlyHistory(day) ==
    LET whole == ByModel(UNION {s .. NextMonth(s) - 1 : s \in Complete(day)})
    IN IF HasPartial(day) THEN [m \in Models |-> Plus(Estimate(PartialDays(day))[m], whole[m])] ELSE whole

Monthly(day) ==
    Comparison(ByModel(Max({CurrentMonth(day), EffectiveStart(day)}) .. day), MonthlyHistory(day),
               Cardinality(Complete(day)) + IF HasPartial(day) THEN 1 ELSE 0,
               MinMonths, EffectiveStart(day) <= CurrentMonth(day))

-----------------------------------------------------------------------------
(* The world *)

ReportInit ==
    /\ used = [d \in Days |-> [m \in Models |-> None]]
    /\ seen = {}
    /\ today = 1
    /\ uses = 0

Use(m, t) ==
    /\ uses < MaxUses
    /\ used' = [used EXCEPT ![today][m] = Plus(@, t)]
    /\ seen' = seen \union {today}
    /\ uses' = uses + 1
    /\ UNCHANGED today

NextDay ==
    /\ today < LastDay
    /\ today' = today + 1
    /\ UNCHANGED <<used, seen, uses>>

(* The clock was wrong and is set back; the records of tomorrow stay. *)
SetBack ==
    /\ today \in seen
    /\ today > 1
    /\ today' = today - 1
    /\ UNCHANGED <<used, seen, uses>>

(* The client deletes its oldest transcripts. *)
Forget ==
    /\ Cardinality(seen) > 1
    /\ LET d == Min(seen)
       IN /\ used' = [used EXCEPT ![d] = [m \in Models |-> None]]
          /\ seen' = seen \ {d}
    /\ UNCHANGED <<today, uses>>

ReportNext ==
    \/ \E m \in Models, t \in Amounts : Use(m, t)
    \/ NextDay
    \/ SetBack
    \/ Forget

ReportSpec == ReportInit /\ [][ReportNext]_reportVars

-----------------------------------------------------------------------------
(* Properties *)

(* THIS and AVG share out the tokens of the window: with the whole window    *)
(* compared, none is in neither, none in both; an estimated month replaces   *)
(* exactly the days it was estimated from; and no day before the first       *)
(* record counts as a day without use.                                       *)
NothingLostNothingInvented ==
    LET outside == IF DailyStart(today) = EffectiveStart(today) THEN 0
                   ELSE Total(AllModels(ByModel(EffectiveStart(today) .. DailyStart(today) - 1)))
        estimated == IF HasPartial(today) THEN Total(AllModels(Estimate(PartialDays(today)))) ELSE 0
        replaced == IF HasPartial(today) THEN Total(AllModels(ByModel(PartialDays(today)))) ELSE 0
    IN /\ Daily(today).this + Daily(today).history + outside = WindowTotal(today)
       /\ Monthly(today).this + Monthly(today).history - estimated + replaced = WindowTotal(today)
       /\ IF Visible(today) = {} THEN Daily(today).periods = 0 /\ Monthly(today).periods = 0
          ELSE Daily(today).periods <= today - Min(Visible(today))

(* The reaction is the number of thresholds (1, 1.5, 2 and 3 times) that     *)
(* THIS reaches, compared exactly with the average, and both ways in which   *)
(* the code compares the days agree.                                         *)
ReactionIsExact ==
    LET Reached(c) == {q \in {<<1, 1>>, <<3, 2>>, <<2, 1>>, <<3, 1>>} :
                        q[2] * c.this * c.periods >= q[1] * c.history}
    IN /\ \A c \in {Daily(today), Monthly(today)} :
            /\ c.average = -1 <=> c.intensity = NoReaction
            /\ c.intensity # NoReaction /\ c.this + c.history > 0 => c.intensity = Cardinality(Reached(c))
       /\ TodayComparison(today) = Daily(today).intensity

(* A month that is estimated from some of its days is off by no more than    *)
(* one token in a category, and never below what was really used.            *)
EstimateIsFair ==
    HasPartial(today) =>
        LET days == PartialDays(today)
            n == Cardinality(days)
            l == NextMonth(FirstMonth(today)) - FirstMonth(today)
        IN \A m \in Models : \A k \in DOMAIN None :
            LET e == Estimate(days)[m][k]
                u == ByModel(days)[m][k]
            IN e >= u /\ n * (e - 1) <= u * l /\ u * l <= n * (e + 1)

(* At midnight THIS becomes part of AVG, whole and once: the day as one more *)
(* day, the month as one more month; a month that began with the first       *)
(* record as its estimate.  (Unless the window loses its first day.)         *)
MidnightConserves ==
    LET then == today + 1
        start == EffectiveStart(today)
    IN Visible(today) # {} /\ EffectiveStart(then) = start =>
        /\ DailyStart(then) = DailyStart(today) =>
            /\ Daily(then).history = Daily(today).history + Daily(today).this
            /\ Daily(then).periods = Daily(today).periods + 1
        /\ CurrentMonth(then) # CurrentMonth(today) =>
            /\ Monthly(then).periods = Monthly(today).periods + 1
            /\ Monthly(then).history = Monthly(today).history +
                    IF start <= CurrentMonth(today) THEN Monthly(today).this
                    ELSE Total(AllModels(Estimate(start .. today)))

=============================================================================
