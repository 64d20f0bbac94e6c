---------------------------- MODULE SeverityPoll ----------------------------
(***************************************************************************)
(* What the character of an account shows: core/severity.py, and the state *)
(* that core/scheduler.py keeps for it from poll to poll.                  *)
(*                                                                         *)
(* A worker thread polls the selected accounts of one runtime.  The window *)
(* may replace that runtime meanwhile: the new one copies the three        *)
(* mappings of the old one, one after the other, while the worker goes on  *)
(* writing to them, and the worker's later writes are lost to it.  There   *)
(* is never more than one worker that polls (GuiWorkers!OnePoller).        *)
(*                                                                         *)
(* A snapshot is its most constrained window: what remains of it in per    *)
(* cent, and when it is reset.                                             *)
(***************************************************************************)
EXTENDS Integers, Sequences

CONSTANTS Accounts,
          NoAccount,
          Levels,       \* the percentages the providers report
          Hold,         \* RESET_HOLD
          MaxTime       \* bound: the clock stops here

ASSUME ConstantsAssumption ==
    /\ NoAccount \notin Accounts
    /\ Levels \subseteq 0 .. 100
    /\ Hold \in Nat
    /\ MaxTime \in Nat

Unknown == -1           \* no window, or no number in it
Never == -1             \* not in the mapping

Statuses == {"ok", "stale", "offline", "error", "rate_limited"}
Bands == {"exhausted", "critical", "caution", "busy", "healthy"}
Severities == Bands \union {"offline", "stale", "reset", "error"}
NoSeverity == "none"

VARIABLES now,
          rt,           \* the mappings of the window's runtime and of the one before
          pc,           \* where the worker is in poll
          metric,       \* metric_mode of the poll
          worker,       \* the runtime it works on
          start,        \* its now
          selected,     \* selected_accounts
          todo,         \* those still to be polled
          cur,          \* the one being polled
          snap,         \* its snapshot
          copying       \* the mapping adopt_display_state copies next, or 0

(* History, for the properties only. *)
VARIABLES shown,        \* the last severity of each account on the LCD, and its remainder
          turn,         \* its last change of band: the band before, the remainder then
          missed        \* accounts that were missing in some poll

poll    == <<pc, metric, worker, start, selected, todo, cur, snap>>
history == <<shown, turn, missed>>
vars    == <<now, rt, poll, copying, history>>

NoSnapshot == [status |-> "none", remaining |-> Unknown, resets |-> Never]
NoBaseline == [remaining |-> Unknown, resets |-> Never, held |-> Never]
Empty == [previous |-> NoBaseline, severity |-> NoSeverity, until |-> Never]
NewRuntime == [name \in DOMAIN Empty |-> [a \in Accounts |-> Empty[name]]]
NotShown == [severity |-> NoSeverity, remaining |-> Unknown]
NoTurn == [from |-> NoSeverity, remaining |-> Unknown]

-----------------------------------------------------------------------------
(* core/severity.py                                                        *)

(* the least remainder of each band; exhausted has none *)
Floor == [healthy |-> 50, busy |-> 20, caution |-> 10, critical |-> 1]
Margin == 3

Rank(severity) ==
    CASE severity = "exhausted" -> 0
      [] severity = "critical"  -> 1
      [] severity = "caution"   -> 2
      [] severity = "healthy"   -> 4
      [] OTHER                  -> 3

(* band_for_remaining *)
Band(remaining) ==
    IF remaining = Unknown THEN "stale"
    ELSE IF \A b \in DOMAIN Floor : remaining < Floor[b] THEN "exhausted"
    ELSE CHOOSE b \in DOMAIN Floor :
            /\ remaining >= Floor[b]
            /\ \A c \in DOMAIN Floor : remaining >= Floor[c] => Floor[c] <= Floor[b]

(* Faulty variants, here and below: each is a bug the code might have had,  *)
(* and some property of this module finds it.                              *)
KeepsBandNever(before, remaining) == FALSE

KeepsBandTwice(before, remaining) ==
    LET band == Band(remaining)
    IN  \/ /\ Rank(band) > Rank(before)
           /\ band \in DOMAIN Floor
           /\ remaining < Floor[band] + Margin
        \/ /\ Rank(band) < Rank(before)
           /\ before \in DOMAIN Floor
           /\ remaining > Floor[before] - 2 * Margin

(* the remainder is not far enough past the edge of the band *)
KeepsBand(before, remaining) ==
    LET band == Band(remaining)
    IN  \/ /\ Rank(band) > Rank(before)
           /\ band \in DOMAIN Floor
           /\ remaining < Floor[band] + Margin
        \/ /\ Rank(band) < Rank(before)
           /\ before \in DOMAIN Floor
           /\ remaining > Floor[before] - Margin

HysteresisAlways(before, remaining) ==
    IF remaining # Unknown /\ KeepsBand(before, remaining)
    THEN before
    ELSE Band(remaining)

(* apply_hysteresis *)
Hysteresis(before, remaining) ==
    IF before \in Bands /\ remaining # Unknown /\ KeepsBand(before, remaining)
    THEN before
    ELSE Band(remaining)

(* detect_reset *)
ResetDetected(old, new) ==
    /\ new.status = "ok"
    /\ old.remaining # Unknown /\ new.remaining # Unknown
    /\ new.remaining - old.remaining >= 25
    /\ \/ old.remaining < 30
       \/ /\ old.resets # Never /\ new.resets > old.resets
          /\ old.resets <= now

(* snapshot_severity *)
SnapshotSeverity(s, at, before, until) ==
    CASE until # Never /\ at < until               -> "reset"
      [] s.status = "offline"                      -> "offline"
      [] s.status = "stale"                        -> "stale"
      [] s.status \in {"error", "rate_limited"}    -> "error"
      [] OTHER                                     -> Hysteresis(before, s.remaining)

-----------------------------------------------------------------------------
Init ==
    /\ now = 0
    /\ rt = [new |-> NewRuntime, old |-> NewRuntime]
    /\ pc = "idle"
    /\ metric = "quota"
    /\ worker = "new"
    /\ start = 0
    /\ selected = {} /\ todo = {}
    /\ cur = NoAccount
    /\ snap = NoSnapshot
    /\ copying = 0
    /\ shown = [a \in Accounts |-> NotShown]
    /\ turn = [a \in Accounts |-> NoTurn]
    /\ missed = {}

Mapping(name) == rt[worker][name]

Write(name, a, value) == rt' = [rt EXCEPT ![worker][name][a] = value]

-----------------------------------------------------------------------------
(* The worker                                                              *)

StartPoll(S, m) ==
    /\ pc = "idle" /\ copying = 0
    /\ pc' = "poll"
    /\ worker' = "new"
    /\ metric' = m
    /\ selected' = S /\ todo' = S
    /\ start' = now
    /\ missed' = missed \union (Accounts \ S)
    /\ shown' = [a \in Accounts |-> IF a \in S THEN shown[a] ELSE NotShown]
    /\ turn' = [a \in Accounts |-> IF a \in S THEN turn[a] ELSE NoTurn]
    /\ UNCHANGED <<now, rt, cur, snap, copying>>

(* A provider answers or raises.  Whatever is not ok comes without windows:  *)
(* so do all four of them.                                                  *)
Answers ==
    [status : Statuses, remaining : {Unknown}, resets : {Never}]
    \union [status : {"ok"}, remaining : Levels, resets : {Never, now + 1}]

(* no quota band of the account is on the LCD *)
Hide(a) ==
    /\ shown' = [shown EXCEPT ![a] = NotShown]
    /\ turn' = [turn EXCEPT ![a] = NoTurn]

(* fetch, and the reset that shows in its answer *)
Fetch(a) ==
    /\ pc = "poll" /\ metric = "quota"
    /\ cur = NoAccount
    /\ a \in todo
    /\ cur' = a
    /\ snap' \in Answers
    /\ IF ResetDetected(Mapping("previous")[a], snap')
       THEN Write("until", a, start + Hold)
       ELSE UNCHANGED rt
    /\ pc' = "severity"
    /\ UNCHANGED <<now, metric, worker, start, selected, todo, copying, history>>

(* What the LCD showed and shows, for the properties.  A poll that works on  *)
(* the replaced runtime is not followed: what it shows is lost to the next.  *)
Show(a, severity, remaining) ==
    IF worker = "old" THEN Hide(a)
    ELSE LET before == shown[a].severity
         IN  /\ shown' = [shown EXCEPT ![a] = [severity |-> severity, remaining |-> remaining]]
             /\ turn' = [turn EXCEPT ![a] =
                           IF before \notin Bands \/ severity \notin Bands THEN NoTurn
                           ELSE IF severity # before
                           THEN [from |-> before, remaining |-> remaining]
                           ELSE @]

(* An answer is stamped when it arrives, an error that poll makes with start. *)
Judge ==
    /\ pc = "severity"
    /\ \E at \in IF snap.status = "error" THEN {start, now} ELSE {now} :
          LET s == SnapshotSeverity(snap, at, Mapping("severity")[cur], Mapping("until")[cur])
          IN  /\ Write("severity", cur, s)
              /\ Show(cur, s, snap.remaining)
    /\ pc' = "previous"
    /\ UNCHANGED <<now, metric, worker, start, selected, todo, cur, snap, copying, missed>>

(* The baseline of the next poll; held tells which reset it came after. *)
Record ==
    /\ pc = "previous"
    /\ Write("previous", cur, [remaining |-> snap.remaining, resets |-> snap.resets,
                               held |-> Mapping("until")[cur]])
    /\ todo' = todo \ {cur}
    /\ cur' = NoAccount
    /\ snap' = NoSnapshot
    /\ pc' = "poll"
    /\ UNCHANGED <<now, metric, worker, start, selected, copying, history>>

(* cumulative mode: the severity is that of the token usage *)
JudgeCumulative(a, severity) ==
    /\ pc = "poll" /\ metric = "cumulative"
    /\ a \in todo
    /\ Write("severity", a, severity)
    /\ Hide(a)
    /\ todo' = todo \ {a}
    /\ UNCHANGED <<now, pc, metric, worker, start, selected, cur, snap, copying, missed>>

(* the runtimes, without the replaced one once nobody works on it or copies it *)
Kept(runtimes) ==
    IF pc' = "idle" /\ copying' = 0
    THEN [runtimes EXCEPT !.old = NewRuntime]
    ELSE runtimes

(* _retain_active_accounts, one mapping after the other *)
Retained(name) ==
    [rt EXCEPT ![worker][name] =
       [a \in Accounts |-> IF a \in selected THEN @[a] ELSE Empty[name]]]

Retain(from, name, to) ==
    /\ pc = from
    /\ rt' = Retained(name)
    /\ pc' = to
    /\ UNCHANGED <<now, metric, worker, start, selected, todo, cur, snap, copying, history>>

(* poll returns: its local variables are gone *)
RetainLast ==
    /\ pc = "retain until"
    /\ pc' = "idle"
    /\ metric' = "quota" /\ worker' = "new" /\ start' = 0
    /\ selected' = {} /\ todo' = {}
    /\ UNCHANGED <<now, cur, snap, copying, history>>
    /\ rt' = Kept(Retained("until"))

LoopEnds ==
    /\ pc = "poll" /\ todo = {} /\ cur = NoAccount
    /\ pc' = "retain"
    /\ UNCHANGED <<now, rt, metric, worker, start, selected, todo, cur, snap, copying, history>>

RetainActive ==
    \/ LoopEnds
    \/ Retain("retain", "previous", "retain severity")
    \/ Retain("retain severity", "severity", "retain until")
    \/ RetainLast

-----------------------------------------------------------------------------
(* The window replaces its runtime.  A runtime that no worker writes to is  *)
(* copied as it is, which changes nothing here.                             *)

(* faulty: the hold of a reset is copied before the baseline *)
CopyOrderReversed == <<"until", "severity", "previous">>

(* the mappings in the order in which adopt_display_state copies them *)
CopyOrder == <<"previous", "severity", "until">>

Replace ==
    /\ pc # "idle" /\ worker = "new" /\ copying = 0
    /\ rt' = [new |-> NewRuntime, old |-> rt.new]
    /\ worker' = "old"
    /\ copying' = 1
    /\ UNCHANGED <<now, pc, metric, start, selected, todo, cur, snap, history>>

Copy ==
    /\ copying # 0
    /\ copying' = IF copying = Len(CopyOrder) THEN 0 ELSE copying + 1
    /\ UNCHANGED <<now, poll, history>>
    /\ LET name == CopyOrder[copying]
       IN  rt' = Kept([rt EXCEPT !.new[name] = rt.old[name]])

(* Time passes between polls and while a provider answers. *)
Tick ==
    /\ now < MaxTime
    /\ pc \in {"idle", "poll"}
    /\ now' = now + 1
    /\ UNCHANGED <<rt, poll, copying, history>>

Next ==
    \/ \E S \in SUBSET Accounts, m \in {"quota", "cumulative"} : StartPoll(S, m)
    \/ \E a \in Accounts : Fetch(a)
    \/ Judge
    \/ Record
    \/ \E a \in Accounts, s \in Severities \ {"reset"} : JudgeCumulative(a, s)
    \/ RetainActive
    \/ Replace
    \/ Copy
    \/ Tick

Spec == Init /\ [][Next]_vars

-----------------------------------------------------------------------------
Snapshots ==
    [status : Statuses \union {"none"}, remaining : Levels \union {Unknown},
     resets : {Never} \union (1 .. MaxTime + 1)]

Baselines ==
    [remaining : Levels \union {Unknown}, resets : {Never} \union (1 .. MaxTime + 1),
     held : {Never} \union Nat]

Runtimes ==
    [previous : [Accounts -> Baselines],
     severity : [Accounts -> Severities \union {NoSeverity}],
     until    : [Accounts -> {Never} \union Nat]]

(* Every variable has its kind of value, the worker holds an answer exactly  *)
(* while it judges and records it, and what it has judged is a Severity.     *)
TypeOK ==
    /\ now \in 0 .. MaxTime
    /\ rt \in [new : Runtimes, old : Runtimes]
    /\ pc \in {"idle", "poll", "severity", "previous",
              "retain", "retain severity", "retain until"}
    /\ metric \in {"quota", "cumulative"}
    /\ worker \in {"new", "old"}
    /\ start \in 0 .. now
    /\ selected \subseteq Accounts /\ todo \subseteq selected
    /\ snap \in Snapshots
    /\ cur \in Accounts \union {NoAccount}
    /\ (cur # NoAccount) <=> (pc \in {"severity", "previous"})
    /\ pc = "previous" => rt[worker].severity[cur] \in Severities
    /\ copying \in 0 .. Len(CopyOrder)
    /\ shown \in [Accounts -> [severity : Severities \union {NoSeverity},
                               remaining : Levels \union {Unknown}]]
    /\ turn \in [Accounts -> [from : Bands \union {NoSeverity},
                              remaining : Levels \union {Unknown}]]
    /\ missed \subseteq Accounts

(* The band on the LCD is at most the margin of the hysteresis milder than   *)
(* what remains, whatever was shown before: an earlier poll, a severity that *)
(* token usage left behind, an error or a reset (apply_hysteresis).          *)
NeverTooMild ==
    \A a \in Accounts :
        shown[a].severity \in Bands /\ shown[a].remaining # Unknown
            => Rank(shown[a].severity) <= Rank(Band(shown[a].remaining + Margin))

(* A character that left a band returns to it only after the remainder has   *)
(* moved by both margins, one on each side of the edge: polls around an edge *)
(* do not make it flicker (the comment at severity.py:62).                   *)
NoFlicker ==
    [][\A a \in Accounts :
          LET to == shown'[a]
          IN  turn[a] # NoTurn /\ to.severity = turn[a].from
                => \/ to.remaining - turn[a].remaining >= 2 * Margin
                   \/ turn[a].remaining - to.remaining >= 2 * Margin]_vars

(* A runtime that starts from a baseline after a reset has that reset's hold *)
(* as well, also when it was copied in the middle of a poll: the baseline no *)
(* longer shows the jump, so a lost hold would never be found again (the     *)
(* order in poll and in adopt_display_state).                                *)
ResetNotLost ==
    copying = 0 =>
        \A a \in Accounts \ missed :
            rt.new.until[a] >= rt.new.previous[a].held

=============================================================================
