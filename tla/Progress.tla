------------------------------ MODULE Progress ------------------------------
(***************************************************************************)
(* The counters of one learner's progress: the daily goal and the streak   *)
(* of the Learning Path, and the summary with the best streak, the heat    *)
(* map and the next milestone, all counted from the completion log.        *)
(*                                                                         *)
(* Time is in hours.  Nothing here depends on what a completion is of, so  *)
(* the log is how many there were in each hour, and an hour has its pack.  *)
(***************************************************************************)
EXTENDS Integers, FiniteSets, Sequences, SequencesExt, FiniteSetsExt

CONSTANTS
    DAILY_GOAL_TARGET,  \* 3 in the code
    MILESTONES,         \* <<7, 14, 30, 60, 100>>
    Fifty,              \* 50: the milestones after the last of these
    Window,             \* 45: the days of the heat map
    DayHours,           \* 24
    MonthDays,          \* the days of a month, at most 31
    Offsets,            \* what getTimezoneOffset may say, in hours
    MaxHour,            \* bound: the hours the clock shows
    MaxPerHour          \* bound: the completions of an hour

ASSUME ProgressAssumption ==
    /\ {DAILY_GOAL_TARGET, Fifty, DayHours, MonthDays} \subseteq Nat \ {0}
    /\ MILESTONES \in Seq(Nat \ {0}) /\ MILESTONES # <<>>
    /\ \A i, j \in DOMAIN MILESTONES : i < j => MILESTONES[i] < MILESTONES[j]
    /\ Last(MILESTONES) % Fifty = 0
    /\ Window \in Nat /\ MonthDays <= Window
    /\ Offsets \subseteq Int /\ IsFiniteSet(Offsets) /\ MaxHour \in Nat /\ MaxPerHour \in Nat

Hours == 0 .. MaxHour

VARIABLES
    log,      \* the completions of each hour
    now,      \* the hour
    offset,   \* where the learner is
    pending,  \* GET /progress/summary or GET /path: {} or {what it has read}
    answer    \* {} or {what the last step answered, and what it came from}

progressVars == <<log, now, offset, pending, answer>>

\* The local day of an hour.
LocalDay(hour, tz) == (hour - tz) \div DayHours

\* The days the log may have completions in.
Calendar == LocalDay(0, Max(Offsets \cup {0})) .. LocalDay(MaxHour, Min(Offsets \cup {0}))

\* The rows of a log: the first, second... completion of an hour.
Rows(rows) == {row \in Hours \X (1 .. MaxPerHour) : row[2] <= rows[row[1]]}

\* Mutant: the offset is added.
MutantCounts(rows, tz) ==
    [d \in Calendar |-> Cardinality({row \in Rows(rows) : LocalDay(row[1], -tz) = d})]

\* daily_completion_counts.
DailyCompletionCounts(rows, tz) ==
    [d \in Calendar |-> Cardinality({row \in Rows(rows) : LocalDay(row[1], tz) = d})]

CountOn(counts, day) == IF day \in DOMAIN counts THEN counts[day] ELSE 0

GoalDays(counts) == {d \in DOMAIN counts : counts[d] >= DAILY_GOAL_TARGET}

\* Mutant: a day without the goal is passed over.
MutantRunEndingAt(days, day) == Cardinality({d \in days : d <= day})

\* _run_ending_at: how many goal days there are in a row up to this one.
RunEndingAt(days, day) ==
    LET length[d \in Int] == IF d \in days THEN 1 + length[d - 1] ELSE 0
    IN  length[day]

\* _best_run: the longest of the runs that end at a goal day.
BestRun(days) == Max({0} \cup {RunEndingAt(days, d) : d \in days})

\* Mutant: a streak without today's goal is over.
MutantAnchor(days, today) == today

\* compute_streaks: a goal not met yet today leaves the streak of yesterday.
Anchor(days, today) == IF today \in days THEN today ELSE today - 1

Current(counts, today) ==
    RunEndingAt(GoalDays(counts), Anchor(GoalDays(counts), today))

Best(counts) == BestRun(GoalDays(counts))

\* next_milestone, _next_fifty.
NextMilestone(streak) ==
    LET ahead == {m \in ToSet(MILESTONES) : m > streak}
    IN  IF ahead # {} THEN Min(ahead) ELSE ((streak \div Fifty) + 1) * Fifty

\* bucket_level.
BucketLevel(count) == Max({0, Min({count, DAILY_GOAL_TARGET})})

\* get_summary: the window of the heat map ends today.
Activity(counts, today) ==
    [d \in today - Window + 1 .. today |->
        [count |-> CountOn(counts, d), level |-> BucketLevel(CountOn(counts, d))]]

\* currentMonth: the days of the month up to today, from the heat map.
MonthCells(activity, today) ==
    [d \in (today \div MonthDays) * MonthDays .. today |->
        IF d \in DOMAIN activity THEN activity[d] ELSE [count |-> 0, level |-> 0]]

ActiveDays(activity, today) ==
    Cardinality({d \in DOMAIN activity : /\ d \div MonthDays = today \div MonthDays
                                         /\ activity[d].count > 0})

-----------------------------------------------------------------------------
ProgressInit ==
    /\ log = [h \in Hours |-> 0]
    /\ now = 0
    /\ offset \in Offsets
    /\ pending = {} /\ answer = {}

\* _daily_and_streak: no offset is passed to the query, and the day is UTC's.
PathAnswer(rows, today) ==
    LET counts == DailyCompletionCounts(rows, 0)
    IN  [of |-> "path", counts |-> counts, today |-> today,
         current |-> Current(counts, today), completed |-> CountOn(counts, today)]

\* A completion is logged: of a whole pack, which answers no counters, or of a
\* lesson of the path, which does.
Complete ==
    /\ log[now] < MaxPerHour
    /\ log' = [log EXCEPT ![now] = @ + 1]
    /\ answer' \in {{}, {PathAnswer(log', LocalDay(now, 0))}}
    /\ UNCHANGED <<now, offset, pending>>

\* DELETE /progress/packs/{id}: the completions of a pack are those of an hour.
ResetProgress ==
    /\ \E h \in Hours : log[h] > 0 /\ log' = [log EXCEPT ![h] = 0]
    /\ answer' = {}
    /\ UNCHANGED <<now, offset, pending>>

Tick ==
    /\ now < MaxHour
    /\ now' = now + 1 /\ answer' = {}
    /\ UNCHANGED <<log, offset, pending>>

Travel ==
    /\ offset' \in Offsets \ {offset} /\ answer' = {}
    /\ UNCHANGED <<log, now, pending>>

\* The client asks from where it is, and get_summary queries the log.
AskSummary ==
    /\ pending = {}
    /\ pending' = {[of |-> "summary", counts |-> DailyCompletionCounts(log, offset), tz |-> offset]}
    /\ answer' = {}
    /\ UNCHANGED <<log, now, offset>>

Today(tz) == LocalDay(now, tz)

\* get_summary asks for the time after the query, and the screen is drawn by
\* the browser's own clock.
AnswerSummary ==
    /\ \E r \in {q \in pending : q.of = "summary"} :
         LET today == Today(r.tz)
             browser == LocalDay(now, offset)
             current == Current(r.counts, today)
             activity == Activity(r.counts, today)
         IN  answer' = {[of |-> "summary", counts |-> r.counts, today |-> today,
                         current |-> current, completed |-> CountOn(r.counts, today),
                         best |-> Best(r.counts), milestone |-> NextMilestone(current),
                         browser |-> browser, month |-> MonthCells(activity, browser),
                         active |-> ActiveDays(activity, browser)]}
    /\ pending' = {}
    /\ UNCHANGED <<log, now, offset>>

\* get_path asks for the day before it queries the log.
AskPath ==
    /\ pending = {}
    /\ pending' = {[of |-> "path", today |-> LocalDay(now, 0)]}
    /\ answer' = {}
    /\ UNCHANGED <<log, now, offset>>

AnswerPath ==
    /\ \E r \in {q \in pending : q.of = "path"} : answer' = {PathAnswer(log, r.today)}
    /\ pending' = {}
    /\ UNCHANGED <<log, now, offset>>

\* The request fails, or is given up.
Fail ==
    /\ pending # {}
    /\ pending' = {} /\ answer' = {}
    /\ UNCHANGED <<log, now, offset>>

ProgressNext ==
    \/ Complete \/ ResetProgress \/ Tick \/ Travel
    \/ AskSummary \/ AnswerSummary \/ AskPath \/ AnswerPath \/ Fail

ProgressSpec == ProgressInit /\ [][ProgressNext]_progressVars

-----------------------------------------------------------------------------
(* Properties.                                                             *)

Summaries == {a \in answer : a.of = "summary"}

\* The streaks that are answered are runs of days with the goal, the current
\* one up to today or, while today's goal is open, to yesterday; and they are
\* as long as can be (compute_streaks; verification.md, WF-11).  The milestone
\* shown is the first one after the current streak.
StreaksAreRuns ==
    LET runs(counts, last) ==
          {n \in 0 .. Cardinality(Calendar) : last - n + 1 .. last \subseteq GoalDays(counts)}
    IN  /\ \A a \in answer :
             a.current = Max(runs(a.counts, a.today) \cup runs(a.counts, a.today - 1))
        /\ \A s \in Summaries :
             LET milestones == ToSet(MILESTONES)
                   \cup {k * Fifty : k \in Last(MILESTONES) \div Fifty .. s.current + 1}
             IN  /\ s.best = Max(UNION {runs(s.counts, d) : d \in Calendar})
                 /\ s.milestone = Min({m \in milestones : m > s.current})

\* A learner who stays and resets nothing loses a streak only by a whole local
\* day without the goal, and never a best streak: neither the clock, nor a
\* completion, nor a midnight in between takes it (WF-11, "An unfinished today
\* does not break an existing streak").  A request under way changes nothing of
\* that, so it is asked of the steps without one.
StreakKept ==
    [][pending = {} /\ offset' = offset /\ (\A h \in Hours : log'[h] >= log[h]) =>
         LET before == DailyCompletionCounts(log, offset)
             after == DailyCompletionCounts(log', offset)
             today == LocalDay(now, offset)
             later == LocalDay(now', offset)
         IN  /\ Best(after) >= Best(before)
             /\ \/ Current(after, later) >= Current(before, today)
                \/ later > today /\ today \notin GoalDays(before)]_<<log, now, offset>>

\* Unless the learner travels while the request is under way, the heat map of
\* the month shows every day up to today with what was done on it, in the
\* deepest ink exactly if that met the goal, and nothing was done later than
\* today, even if the answer comes after midnight.
MonthIsTrue ==
    \A s \in Summaries : s.browser = s.today =>
        /\ \A d \in DOMAIN s.counts : d > s.today => s.counts[d] = 0
        /\ \A d \in DOMAIN s.month :
             /\ s.month[d].count = CountOn(s.counts, d)
             /\ s.month[d].level = DAILY_GOAL_TARGET <=> d \in GoalDays(s.counts)
        /\ s.active = Cardinality({d \in DOMAIN s.month : s.month[d].count > 0})

\* What api.md says of the path's daily and streak: "the same daily-goal/streak
\* counters as GET /api/v1/progress/summary", which counts the learner's days.
PathCountsLikeSummary ==
    \A a \in answer : a.of = "path" /\ a.today = LocalDay(now, 0) =>
        LET counts == DailyCompletionCounts(log, offset)
        IN  /\ a.completed = CountOn(counts, Today(offset))
            /\ a.current = Current(counts, Today(offset))
=============================================================================
