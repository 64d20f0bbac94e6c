------------------------ MODULE SeverityPoll_proofs -------------------------
(***************************************************************************)
(* Proofs about SeverityPoll, for any accounts, any percentages and any    *)
(* hold time of a reset.                                                   *)
(***************************************************************************)
EXTENDS SeverityPoll, TLAPS

-----------------------------------------------------------------------------
(* core/severity.py                                                        *)

Percent == 0 .. 100

(* The floors of the bands, as numbers. *)
LEMMA FloorIs ==
    /\ DOMAIN Floor = {"healthy", "busy", "caution", "critical"}
    /\ Floor["healthy"] = 50 /\ Floor["busy"] = 20
    /\ Floor["caution"] = 10 /\ Floor["critical"] = 1
BY DEF Floor

(* band_for_remaining: the bands are intervals. *)
LEMMA BandIs ==
    ASSUME NEW r \in Nat
    PROVE  Band(r) = IF r >= 50 THEN "healthy" ELSE IF r >= 20 THEN "busy"
                     ELSE IF r >= 10 THEN "caution" ELSE IF r >= 1 THEN "critical"
                     ELSE "exhausted"
<1> DEFINE best == IF r >= 50 THEN "healthy" ELSE IF r >= 20 THEN "busy"
                   ELSE IF r >= 10 THEN "caution" ELSE "critical"
           Fits(b) == /\ r >= Floor[b]
                      /\ \A c \in DOMAIN Floor : r >= Floor[c] => Floor[c] <= Floor[b]
<1>1. r # Unknown
    BY DEF Unknown
<1>2. CASE r = 0
    BY <1>1, <1>2, FloorIs DEF Band
<1>3. CASE r >= 1
  <2>1. Band(r) = CHOOSE b \in DOMAIN Floor : Fits(b)
      BY <1>1, <1>3, FloorIs DEF Band
  <2>2. best \in DOMAIN Floor /\ Fits(best)
      BY <1>3, FloorIs
  <2>3. \A b \in DOMAIN Floor : Fits(b) => b = best
      BY <1>3, FloorIs
  <2>4. (CHOOSE b \in DOMAIN Floor : Fits(b)) = best
      <3> HIDE DEF Fits, best
      <3> QED BY <2>2, <2>3
  <2> QED
      BY <1>3, <2>1, <2>4
<1> QED
    BY <1>2, <1>3

(* What remains falls in a band, or nothing is known. *)
LEMMA BandTyped ==
    ASSUME NEW r \in Nat \union {Unknown}
    PROVE  Band(r) \in Bands \union {"stale"}
BY BandIs DEF Band, Bands, Unknown

(* apply_hysteresis yields a band that differs from the one before only     *)
(* when the remainder is past the edge between them by the margin.         *)
LEMMA HysteresisTyped ==
    ASSUME NEW before, NEW r \in Nat \union {Unknown}
    PROVE  /\ Hysteresis(before, r) \in Bands \union {"stale"}
           /\ Hysteresis(before, r) \in Bands => r \in Nat
BY BandTyped DEF Hysteresis, Band, Bands

(* The order of the bands, as numbers. *)
LEMMA RankIs ==
    /\ Rank("exhausted") = 0 /\ Rank("critical") = 1 /\ Rank("caution") = 2
    /\ Rank("busy") = 3 /\ Rank("healthy") = 4
BY DEF Rank

(* What is shown for a remainder is at most the margin milder than it. *)
LEMMA HysteresisMild ==
    ASSUME NEW before, NEW r \in Nat
    PROVE  Rank(Hysteresis(before, r)) <= Rank(Band(r + Margin))
<1>1. Rank(Band(r)) <= Rank(Band(r + Margin))
    BY BandIs, RankIs DEF Margin
<1>2. Band(r) \in Bands /\ Band(r + Margin) \in Bands
    BY BandIs DEF Bands, Margin
<1>3. CASE before \in Bands /\ KeepsBand(before, r)
  <2>1. Hysteresis(before, r) = before
      BY <1>3 DEF Hysteresis, Unknown
  <2>2. CASE Rank(Band(r)) > Rank(before)
      BY <1>1, <1>2, <1>3, <2>1, <2>2, RankIs DEF Bands
  <2>3. CASE /\ Rank(Band(r)) < Rank(before) /\ before \in DOMAIN Floor
             /\ r > Floor[before] - Margin
      BY <2>1, <2>3, BandIs, RankIs, FloorIs DEF Margin
  <2> QED
      BY <1>3, <2>2, <2>3 DEF KeepsBand
<1>4. CASE ~(before \in Bands /\ KeepsBand(before, r))
    BY <1>1, <1>4 DEF Hysteresis
<1> QED
    BY <1>3, <1>4

(* To leave a band and to return to it takes both margins. *)
LEMMA ThereAndBack ==
    ASSUME NEW from \in Bands, NEW to \in Bands, from # to,
           NEW r \in Nat, NEW s \in Nat,
           to = Hysteresis(from, r), from = Hysteresis(to, s)
    PROVE  s - r >= 2 * Margin \/ r - s >= 2 * Margin
<1>1. to = Band(r) /\ ~KeepsBand(from, r) /\ from = Band(s) /\ ~KeepsBand(to, s)
    BY DEF Hysteresis, Unknown
<1>2. /\ ~(Rank(to) > Rank(from) /\ to \in DOMAIN Floor /\ r < Floor[to] + Margin)
      /\ ~(Rank(to) < Rank(from) /\ from \in DOMAIN Floor /\ r > Floor[from] - Margin)
    BY <1>1 DEF KeepsBand
<1>3. /\ ~(Rank(from) > Rank(to) /\ from \in DOMAIN Floor /\ s < Floor[from] + Margin)
      /\ ~(Rank(from) < Rank(to) /\ to \in DOMAIN Floor /\ s > Floor[to] - Margin)
    BY <1>1 DEF KeepsBand
<1>4. \A b \in DOMAIN Floor : Floor[b] \in Nat
    BY FloorIs
<1>5. CASE Rank(to) > Rank(from)
  <2>1. to \in DOMAIN Floor
      BY <1>5, RankIs, FloorIs DEF Bands
  <2> QED
      BY <1>2, <1>3, <1>4, <1>5, <2>1 DEF Margin
<1>6. CASE Rank(to) < Rank(from)
  <2>1. from \in DOMAIN Floor
      BY <1>6, RankIs, FloorIs DEF Bands
  <2> QED
      BY <1>2, <1>3, <1>4, <1>6, <2>1 DEF Margin
<1>7. Rank(to) # Rank(from) /\ Rank(to) \in Nat /\ Rank(from) \in Nat
    BY RankIs DEF Bands
<1> QED
    BY <1>5, <1>6, <1>7

-----------------------------------------------------------------------------
(* The inductive invariant.                                                *)

(* A runtime is replaced while a worker polls, and no poll begins before    *)
(* its mappings are copied: whoever writes meanwhile writes to the old one. *)
CopyInv == pc # "idle" /\ copying # 0 => worker = "old"

(* A poll knows the accounts it may touch; the others are not on the LCD.   *)
SelectedInv ==
    /\ cur # NoAccount => cur \in selected
    /\ pc # "idle" => \A a \in Accounts \ selected : a \in missed /\ shown[a] = NotShown

(* The hold of a reset never goes back: it counts from the start of a poll. *)
UntilInv ==
    /\ \A r \in {"new", "old"}, a \in Accounts : rt[r].until[a] <= now + Hold
    /\ pc # "idle" => \A a \in Accounts : rt[worker].until[a] <= start + Hold

(* Whatever a baseline knows of a reset, the hold knows it too, in each     *)
(* runtime and across the copy that is not over yet.                       *)
HeldInv ==
    \A a \in Accounts \ missed :
        /\ rt.old.previous[a].held <= rt.old.until[a]
        /\ copying = 0 => rt.new.previous[a].held <= rt.new.until[a]
        /\ copying # 0 => rt.new.previous[a].held <= rt.old.until[a]

(* the runtime that the severities of the next poll come from *)
Source == IF copying \in {1, 2} THEN rt.old ELSE rt.new

(* What the next poll takes for the severity before is what the LCD shows.  *)
SourceInv ==
    \A a \in Accounts :
        shown[a].severity # NoSeverity => Source.severity[a] = shown[a].severity

(* The band that is shown was reached by the hysteresis from the band that  *)
(* was left.                                                               *)
TurnInv ==
    \A a \in Accounts : turn[a] # NoTurn =>
        /\ turn[a].from \in Bands /\ turn[a].remaining \in Levels
        /\ shown[a].severity \in Bands \ {turn[a].from}
        /\ shown[a].severity = Hysteresis(turn[a].from, turn[a].remaining)

PollInv ==
    /\ TypeOK
    /\ CopyInv /\ SelectedInv /\ UntilInv /\ HeldInv
    /\ SourceInv /\ TurnInv /\ NeverTooMild

-----------------------------------------------------------------------------
(* The mappings of the two runtimes.                                       *)

Both == {"new", "old"}
Names == {"previous", "severity", "until"}

TwoRuntimes == [new : Runtimes, old : Runtimes]

ValuesOf(name) ==
    IF name = "previous" THEN Baselines
    ELSE IF name = "severity" THEN Severities \union {NoSeverity}
    ELSE {Never} \union Nat

(* A write touches one value of one runtime. *)
LEMMA WriteIs ==
    ASSUME TypeOK, NEW name \in Names, NEW a \in Accounts, NEW v, Write(name, a, v)
    PROVE  \A r \in Both, n \in Names, b \in Accounts :
              rt'[r][n][b] = IF r = worker /\ n = name /\ b = a THEN v ELSE rt[r][n][b]
BY DEF TypeOK, Write, Both, Names, Runtimes

(* A write of a value of the right kind keeps the kinds. *)
LEMMA WriteTyped ==
    ASSUME TypeOK, NEW name \in Names, NEW a \in Accounts, NEW v \in ValuesOf(name),
           Write(name, a, v)
    PROVE  rt' \in TwoRuntimes
<1> USE DEF TypeOK, Write, Runtimes, TwoRuntimes, ValuesOf
<1>1. CASE name = "previous"
    BY <1>1
<1>2. CASE name = "severity"
    BY <1>2
<1>3. CASE name = "until"
    BY <1>3
<1> QED
    BY <1>1, <1>2, <1>3 DEF Names

(* QuotaDeckRuntime(): nothing is known of any account. *)
LEMMA NewRuntimeIs ==
    /\ NewRuntime \in Runtimes
    /\ \A n \in Names, a \in Accounts : NewRuntime[n][a] = Empty[n]
    /\ \A n \in Names : Empty[n] \in ValuesOf(n)
    /\ Empty.previous.held = Never /\ Empty.severity = NoSeverity /\ Empty.until = Never
<1>1. DOMAIN Empty = Names
    BY DEF Empty, Names
<1>2. \A n \in Names : Empty[n] \in ValuesOf(n)
  <2>1. NoBaseline \in Baselines
      BY DEF NoBaseline, Baselines, Never, Unknown
  <2> QED
      BY <2>1 DEF Empty, Names, ValuesOf
<1>3. NewRuntime \in Runtimes
  <2>1. NewRuntime = [previous |-> [a \in Accounts |-> Empty["previous"]],
                      severity |-> [a \in Accounts |-> Empty["severity"]],
                      until    |-> [a \in Accounts |-> Empty["until"]]]
      BY <1>1 DEF NewRuntime, Names
  <2> QED
      BY <1>2, <2>1 DEF Runtimes, ValuesOf, Names
<1> QED
    BY <1>1, <1>2, <1>3 DEF NewRuntime, Empty, NoBaseline

(* _retain_active_accounts: what is kept of a mapping. *)
LEMMA RetainedIs ==
    ASSUME TypeOK, NEW name \in Names
    PROVE  /\ Retained(name) \in TwoRuntimes
           /\ \A r \in Both, n \in Names, b \in Accounts :
                  Retained(name)[r][n][b] =
                      IF r = worker /\ n = name /\ b \notin selected THEN Empty[name] ELSE rt[r][n][b]
<1> DEFINE mapping == [a \in Accounts |-> IF a \in selected THEN rt[worker][name][a] ELSE Empty[name]]
<1> USE DEF TypeOK
<1>1. Retained(name) = [rt EXCEPT ![worker][name] = mapping]
    BY DEF Retained
<1>2. mapping \in [Accounts -> ValuesOf(name)]
  <2>1. Empty[name] \in ValuesOf(name)
      BY NewRuntimeIs
  <2>2. rt[worker][name] \in [Accounts -> ValuesOf(name)]
      BY DEF Runtimes, ValuesOf, Names
  <2> QED
      BY <2>1, <2>2
<1>3. \A a \in Accounts : mapping[a] = IF a \in selected THEN rt[worker][name][a] ELSE Empty[name]
    OBVIOUS
<1> HIDE DEF mapping
<1>4. [rt[worker] EXCEPT ![name] = mapping] \in Runtimes
  <2>1. rt[worker] \in Runtimes
      OBVIOUS
  <2> QED
      BY <1>2, <2>1 DEF Runtimes, ValuesOf, Names
<1>5. Retained(name) \in TwoRuntimes
    BY <1>1, <1>4 DEF TwoRuntimes
<1>6. \A r \in Both, n \in Names :
          Retained(name)[r][n] = IF r = worker /\ n = name THEN mapping ELSE rt[r][n]
  <2>1. \A r \in Both : Retained(name)[r] =
            IF r = worker THEN [rt[r] EXCEPT ![name] = mapping] ELSE rt[r]
      BY <1>1 DEF Both
  <2>2. \A r \in Both, n \in Names : n \in DOMAIN rt[r]
      BY DEF Runtimes, Both, Names
  <2> QED
      BY <2>1, <2>2
<1> QED
    BY <1>3, <1>5, <1>6 DEF Both

(* adopt_display_state, one mapping of it. *)
LEMMA CopiedIs ==
    ASSUME TypeOK, NEW name \in Names
    PROVE  LET R == [rt EXCEPT !.new[name] = rt.old[name]]
           IN  /\ R \in TwoRuntimes
               /\ R.old = rt.old
               /\ \A n \in Names : R.new[n] = IF n = name THEN rt.old[n] ELSE rt.new[n]
<1> USE DEF TypeOK, Runtimes, TwoRuntimes
<1>1. CASE name = "previous"
    BY <1>1 DEF Names
<1>2. CASE name = "severity"
    BY <1>2 DEF Names
<1>3. CASE name = "until"
    BY <1>3 DEF Names
<1> QED
    BY <1>1, <1>2, <1>3 DEF Names

(* The replaced runtime is dropped, or not. *)
LEMMA KeptIs ==
    ASSUME NEW R \in TwoRuntimes
    PROVE  /\ Kept(R) \in TwoRuntimes
           /\ Kept(R).new = R.new
           /\ Kept(R).old = IF pc' = "idle" /\ copying' = 0 THEN NewRuntime ELSE R.old
BY NewRuntimeIs DEF Kept, TwoRuntimes

-----------------------------------------------------------------------------
(* snapshot_severity: a band comes from the hysteresis and nowhere else. *)
LEMMA SnapshotSeverityIs ==
    ASSUME NEW s \in Snapshots, NEW at, NEW before, NEW until
    PROVE  LET severity == SnapshotSeverity(s, at, before, until)
           IN  /\ severity \in Severities
               /\ severity \in Bands =>
                     /\ s.remaining \in Levels
                     /\ severity = Hysteresis(before, s.remaining)
<1>1. s.remaining \in Levels \union {Unknown} /\ Levels \subseteq Nat
    BY ConstantsAssumption DEF Snapshots
<1>2. /\ Hysteresis(before, s.remaining) \in Bands \union {"stale"}
      /\ Hysteresis(before, s.remaining) \in Bands => s.remaining \in Levels
  <2>1. s.remaining \in Nat \union {Unknown}
      BY <1>1
  <2>2. Unknown \notin Nat
      BY DEF Unknown
  <2> QED
      BY <1>1, <2>1, <2>2, HysteresisTyped
<1>3. SnapshotSeverity(s, at, before, until) \in
          {"reset", "offline", "stale", "error", Hysteresis(before, s.remaining)}
    BY DEF SnapshotSeverity
<1> QED
    BY <1>2, <1>3 DEF Severities, Bands

(* adopt_display_state copies three mappings. *)
LEMMA CopyOrderIs ==
    /\ Len(CopyOrder) = 3
    /\ CopyOrder[1] = "previous" /\ CopyOrder[2] = "severity" /\ CopyOrder[3] = "until"
BY DEF CopyOrder

(* The clock and the copy, as numbers. *)
LEMMA ClockIs ==
    ASSUME TypeOK
    PROVE  /\ now \in Nat /\ start \in Nat /\ start <= now /\ now <= MaxTime
           /\ copying \in 0 .. 3
<1>1. now \in 0 .. MaxTime /\ start \in 0 .. now /\ copying \in 0 .. Len(CopyOrder)
    BY DEF TypeOK
<1> QED
    BY <1>1, CopyOrderIs, ConstantsAssumption

(* The answers of the providers are snapshots. *)
LEMMA AnswersTyped ==
    ASSUME TypeOK
    PROVE  Answers \subseteq Snapshots /\ NoSnapshot \in Snapshots
<1>1. now + 1 \in 1 .. MaxTime + 1
    BY ConstantsAssumption, ClockIs
<1> QED
    BY <1>1 DEF Answers, Snapshots, NoSnapshot, Statuses

(* It starts with every kind in place. *)
LEMMA TypeInit == Init => TypeOK
<1> SUFFICES ASSUME Init
             PROVE  TypeOK
    OBVIOUS
<1>1. rt \in [new : Runtimes, old : Runtimes]
    BY NewRuntimeIs DEF Init
<1>2. snap \in Snapshots
    BY DEF Init, Snapshots, NoSnapshot, Never, Unknown
<1>3. /\ shown \in [Accounts -> [severity : Severities \union {NoSeverity},
                                 remaining : Levels \union {Unknown}]]
      /\ turn \in [Accounts -> [from : Bands \union {NoSeverity},
                                remaining : Levels \union {Unknown}]]
    BY DEF Init, NotShown, NoTurn
<1> QED
    BY <1>1, <1>2, <1>3, ConstantsAssumption DEF Init, TypeOK, CopyOrder

(* The variables that only the properties read. *)
HistoryOK ==
    /\ shown \in [Accounts -> [severity : Severities \union {NoSeverity},
                               remaining : Levels \union {Unknown}]]
    /\ turn \in [Accounts -> [from : Bands \union {NoSeverity},
                              remaining : Levels \union {Unknown}]]

(* An account that is hidden keeps the kinds of the history, *)
LEMMA HideTyped ==
    ASSUME HistoryOK, NEW a \in Accounts, Hide(a)
    PROVE  HistoryOK'
BY DEF HistoryOK, Hide, NotShown, NoTurn

(* and so does one that is shown. *)
LEMMA ShowTyped ==
    ASSUME HistoryOK, NEW a \in Accounts, NEW severity \in Severities,
           NEW remaining \in Levels \union {Unknown}, Show(a, severity, remaining)
    PROVE  HistoryOK'
<1>1. CASE worker = "old"
    BY <1>1, HideTyped DEF Show
<1>2. CASE worker # "old"
    BY <1>2 DEF Show, HistoryOK, NoTurn
<1> QED
    BY <1>1, <1>2

(* Every step leaves every kind in place. *)
LEMMA TypeNext == PollInv /\ [Next]_vars => TypeOK'
<1> SUFFICES ASSUME PollInv, [Next]_vars
             PROVE  TypeOK'
    OBVIOUS
<1> TypeOK /\ CopyInv /\ HistoryOK
    BY DEF PollInv, TypeOK, HistoryOK
<1> USE ConstantsAssumption DEF history
<1>1. ASSUME NEW S \in SUBSET Accounts, NEW m \in {"quota", "cumulative"}, StartPoll(S, m)
      PROVE  TypeOK'
  <2>1. HistoryOK'
      BY <1>1 DEF StartPoll, HistoryOK, NotShown, NoTurn
  <2> QED
      BY <1>1, <2>1 DEF StartPoll, TypeOK, HistoryOK
<1>2. ASSUME NEW a \in Accounts, Fetch(a)
      PROVE  TypeOK'
  <2>1. rt' \in [new : Runtimes, old : Runtimes]
    <3>1. start + Hold \in ValuesOf("until")
      <4>1. start + Hold \in Nat
          BY ClockIs
      <4> QED
          BY <4>1 DEF ValuesOf
    <3> QED
        BY <1>2, <3>1, WriteTyped DEF Fetch, Names, TypeOK, TwoRuntimes
  <2> QED
      BY <1>2, <2>1, AnswersTyped DEF Fetch, TypeOK
<1>3. CASE Judge
  <2>1. PICK at : LET s == SnapshotSeverity(snap, at, Mapping("severity")[cur], Mapping("until")[cur])
                  IN  Write("severity", cur, s) /\ Show(cur, s, snap.remaining)
      BY <1>3 DEF Judge
  <2> DEFINE s == SnapshotSeverity(snap, at, Mapping("severity")[cur], Mapping("until")[cur])
  <2>2. cur \in Accounts /\ s \in Severities /\ snap.remaining \in Levels \union {Unknown}
      BY <1>3, SnapshotSeverityIs DEF Judge, TypeOK, Snapshots
  <2>3. Write("severity", cur, s) /\ Show(cur, s, snap.remaining)
      BY <2>1
  <2> HIDE DEF s
  <2>4. HistoryOK'
      BY <2>2, <2>3, ShowTyped
  <2>5. rt' \in [new : Runtimes, old : Runtimes] /\ rt'[worker].severity[cur] = s
    <3>1. "severity" \in Names /\ s \in ValuesOf("severity") /\ worker \in Both
        BY <2>2 DEF Names, ValuesOf, TypeOK, Both
    <3> QED
        BY <2>2, <2>3, <3>1, WriteTyped, WriteIs DEF TwoRuntimes
  <2> QED
      BY <1>3, <2>2, <2>4, <2>5 DEF Judge, TypeOK, HistoryOK
<1>4. CASE Record
  <2> DEFINE baseline == [remaining |-> snap.remaining, resets |-> snap.resets,
                          held |-> Mapping("until")[cur]]
  <2>1. cur \in Accounts
      BY <1>4 DEF Record, TypeOK
  <2>2. baseline \in ValuesOf("previous")
      BY <2>1 DEF TypeOK, ValuesOf, Baselines, Snapshots, Mapping, Runtimes
  <2>3. Write("previous", cur, baseline)
      BY <1>4 DEF Record
  <2> HIDE DEF baseline
  <2>4. rt' \in [new : Runtimes, old : Runtimes]
      BY <2>1, <2>2, <2>3, WriteTyped DEF Names, TwoRuntimes
  <2> QED
      BY <1>4, <2>4, AnswersTyped DEF Record, TypeOK
<1>5. ASSUME NEW a \in Accounts, NEW s \in Severities \ {"reset"}, JudgeCumulative(a, s)
      PROVE  TypeOK'
  <2>1. rt' \in [new : Runtimes, old : Runtimes]
      BY <1>5, WriteTyped DEF JudgeCumulative, Names, ValuesOf, TwoRuntimes
  <2>2. HistoryOK'
      BY <1>5, HideTyped DEF JudgeCumulative
  <2> QED
      BY <1>5, <2>1, <2>2 DEF JudgeCumulative, TypeOK, HistoryOK
<1>6. CASE LoopEnds
    BY <1>6 DEF LoopEnds, TypeOK
<1>7. CASE \/ Retain("retain", "previous", "retain severity")
           \/ Retain("retain severity", "severity", "retain until")
  <2>1. rt' \in [new : Runtimes, old : Runtimes]
      BY <1>7, RetainedIs DEF Retain, Names, TwoRuntimes
  <2> QED
      BY <1>7, <2>1 DEF Retain, TypeOK
<1>8. CASE RetainLast
  <2>1. rt' \in [new : Runtimes, old : Runtimes]
      BY <1>8, RetainedIs, KeptIs DEF RetainLast, Names, TwoRuntimes
  <2>2. start' \in 0 .. now' /\ cur' = NoAccount
    <3>1. start' = 0 /\ now' = now /\ cur' = cur /\ pc = "retain until"
        BY <1>8 DEF RetainLast
    <3>2. cur = NoAccount
        BY <3>1 DEF TypeOK
    <3>3. 0 \in 0 .. now
        BY ClockIs
    <3> QED
        BY <3>1, <3>2, <3>3
  <2> QED
      BY <1>8, <2>1, <2>2 DEF RetainLast, TypeOK
<1>9. CASE Replace
  <2>1. rt' \in [new : Runtimes, old : Runtimes] /\ rt'.old = rt.new
      BY <1>9, NewRuntimeIs DEF Replace, TypeOK
  <2>2. copying' \in 0 .. Len(CopyOrder)
      BY <1>9, CopyOrderIs DEF Replace
  <2> QED
      BY <1>9, <2>1, <2>2 DEF Replace, TypeOK
<1>10. CASE Copy
  <2> DEFINE R == [rt EXCEPT !.new[CopyOrder[copying]] = rt.old[CopyOrder[copying]]]
  <2>1. CopyOrder[copying] \in Names /\ copying' \in 0 .. Len(CopyOrder)
    <3>1. copying \in {1, 2, 3}
        BY <1>10, ClockIs DEF Copy
    <3> QED
        BY <1>10, <3>1, CopyOrderIs DEF Copy, Names
  <2>2. R \in TwoRuntimes /\ R.old = rt.old
      BY <2>1, CopiedIs
  <2>3. rt' = Kept(R)
      BY <1>10 DEF Copy
  <2> HIDE DEF R
  <2>4. rt' \in [new : Runtimes, old : Runtimes] /\ (pc' # "idle" => rt'.old = rt.old)
      BY <2>2, <2>3, KeptIs DEF TwoRuntimes
  <2> QED
      BY <1>10, <2>1, <2>4 DEF Copy, poll, TypeOK, CopyInv
<1>11. CASE Tick
  <2>1. now' \in 0 .. MaxTime /\ start' \in 0 .. now'
      BY <1>11, ClockIs DEF Tick, poll
  <2> QED
      BY <1>11, <2>1 DEF Tick, poll, TypeOK
<1>12. CASE UNCHANGED vars
    BY <1>12 DEF vars, poll, TypeOK
<1> QED
    BY <1>1, <1>2, <1>3, <1>4, <1>5, <1>6, <1>7, <1>8, <1>9, <1>10, <1>11, <1>12
    DEF Next, RetainActive

-----------------------------------------------------------------------------
(* The worker of a replaced runtime works on the replaced one. *)
LEMMA CopyNext == PollInv /\ [Next]_vars => CopyInv'
BY DEF PollInv, CopyInv, Next, vars, poll, RetainActive, StartPoll, Fetch, Judge, Record,
       JudgeCumulative, LoopEnds, Retain, RetainLast, Replace, Copy, Tick

(* Nothing of an account that is not polled comes onto the LCD. *)
LEMMA SelectedNext == PollInv /\ [Next]_vars => SelectedInv'
<1> SUFFICES ASSUME PollInv, [Next]_vars
             PROVE  SelectedInv'
    OBVIOUS
<1> USE DEF PollInv, TypeOK, SelectedInv, history, poll
<1>1. ASSUME NEW S \in SUBSET Accounts, NEW m \in {"quota", "cumulative"}, StartPoll(S, m)
      PROVE  SelectedInv'
    BY <1>1 DEF StartPoll
<1>2. ASSUME NEW a \in Accounts, Fetch(a)
      PROVE  SelectedInv'
    BY <1>2 DEF Fetch
<1>3. CASE Judge
    BY <1>3 DEF Judge, Show, Hide
<1>4. CASE Record
    BY <1>4 DEF Record
<1>5. ASSUME NEW a \in Accounts, NEW s \in Severities \ {"reset"}, JudgeCumulative(a, s)
      PROVE  SelectedInv'
    BY <1>5 DEF JudgeCumulative, Hide
<1>6. CASE RetainActive
  <2>1. cur' = NoAccount /\ UNCHANGED history /\ (pc' # "idle" => pc # "idle" /\ selected' = selected)
      BY <1>6 DEF RetainActive, LoopEnds, Retain, RetainLast
  <2> QED
      BY <2>1
<1>7. CASE Replace \/ Copy \/ Tick
    BY <1>7 DEF Replace, Copy, Tick
<1>8. CASE UNCHANGED vars
    BY <1>8 DEF vars
<1> QED
    BY <1>1, <1>2, <1>3, <1>4, <1>5, <1>6, <1>7, <1>8 DEF Next

-----------------------------------------------------------------------------
(* What each step does to the mappings.                                    *)

(* What a fetch writes: the hold of a reset, or nothing. *)
LEMMA FetchIs ==
    ASSUME TypeOK, NEW a \in Accounts, Fetch(a)
    PROVE  \/ UNCHANGED rt
           \/ \A r \in Both, n \in Names, b \in Accounts :
                 rt'[r][n][b] = IF r = worker /\ n = "until" /\ b = a THEN start + Hold ELSE rt[r][n][b]
<1>1. CASE Write("until", a, start + Hold)
    BY <1>1, WriteIs DEF Names
<1> QED
    BY <1>1 DEF Fetch

(* What a judgement writes: one severity, which is then shown. *)
LEMMA JudgeIs ==
    ASSUME TypeOK, Judge
    PROVE  /\ cur \in Accounts
           /\ \E s \in Severities :
                /\ \A r \in Both, n \in Names, b \in Accounts :
                     rt'[r][n][b] = IF r = worker /\ n = "severity" /\ b = cur THEN s ELSE rt[r][n][b]
                /\ Show(cur, s, snap.remaining)
                /\ s \in Bands =>
                     /\ snap.remaining \in Levels
                     /\ s = Hysteresis(rt[worker].severity[cur], snap.remaining)
<1>1. PICK at : LET s == SnapshotSeverity(snap, at, Mapping("severity")[cur], Mapping("until")[cur])
                IN  Write("severity", cur, s) /\ Show(cur, s, snap.remaining)
    BY DEF Judge
<1> DEFINE s == SnapshotSeverity(snap, at, Mapping("severity")[cur], Mapping("until")[cur])
<1>2. cur \in Accounts /\ snap \in Snapshots
    BY DEF Judge, TypeOK
<1>3. /\ s \in Severities
      /\ s \in Bands =>
            snap.remaining \in Levels /\ s = Hysteresis(rt[worker].severity[cur], snap.remaining)
    BY <1>2, SnapshotSeverityIs DEF Mapping
<1>4. Write("severity", cur, s) /\ Show(cur, s, snap.remaining)
    BY <1>1
<1> HIDE DEF s
<1> QED
    BY <1>2, <1>3, <1>4, WriteIs DEF Names

(* What a record writes: one baseline, with the hold it was made under. *)
LEMMA RecordIs ==
    ASSUME TypeOK, Record
    PROVE  /\ cur \in Accounts
           /\ \A r \in Both, n \in Names, b \in Accounts :
                  r # worker \/ n # "previous" \/ b # cur => rt'[r][n][b] = rt[r][n][b]
           /\ rt'[worker].previous[cur].held = rt[worker].until[cur]
<1> DEFINE baseline == [remaining |-> snap.remaining, resets |-> snap.resets,
                        held |-> Mapping("until")[cur]]
<1>1. cur \in Accounts /\ worker \in Both
    BY DEF Record, TypeOK, Both
<1>2. Write("previous", cur, baseline) /\ baseline.held = rt[worker].until[cur]
    BY DEF Record, Mapping
<1> HIDE DEF baseline
<1> QED
    BY <1>1, <1>2, WriteIs DEF Names

(* A judgement of cumulative usage writes a severity only. *)
LEMMA JudgeCumulativeIs ==
    ASSUME TypeOK, NEW a \in Accounts, NEW s, JudgeCumulative(a, s)
    PROVE  \A r \in Both, n \in Names, b \in Accounts :
              r # worker \/ n # "severity" \/ b # a => rt'[r][n][b] = rt[r][n][b]
BY WriteIs DEF JudgeCumulative, Names

(* Retaining takes from the worker's runtime what is not selected, and      *)
(* drops the replaced runtime as a whole when the poll is over.            *)
LEMMA RetainIs ==
    ASSUME TypeOK, RetainActive
    PROVE  \A r \in Both, n \in Names, b \in Accounts :
              \/ rt'[r][n][b] = rt[r][n][b]
              \/ rt'[r][n][b] = Empty[n] /\ r = worker /\ b \notin selected /\ pc # "idle"
              \/ rt'[r][n][b] = Empty[n] /\ r = "old" /\ copying' = 0
                 /\ \A m \in Names, c \in Accounts : rt'.old[m][c] = Empty[m]
<1>1. CASE LoopEnds
    BY <1>1 DEF LoopEnds
<1>2. ASSUME NEW from \in {"retain", "retain severity"}, NEW name \in Names, NEW to,
             Retain(from, name, to)
      PROVE  \A r \in Both, n \in Names, b \in Accounts :
                \/ rt'[r][n][b] = rt[r][n][b]
                \/ rt'[r][n][b] = Empty[n] /\ r = worker /\ b \notin selected /\ pc # "idle"
  <2>1. rt' = Retained(name) /\ pc # "idle"
      BY <1>2 DEF Retain
  <2>2. \A r \in Both, n \in Names, b \in Accounts :
            \/ Retained(name)[r][n][b] = rt[r][n][b]
            \/ Retained(name)[r][n][b] = Empty[n] /\ r = worker /\ b \notin selected
    <3>1. \A r \in Both, n \in Names, b \in Accounts :
              Retained(name)[r][n][b] =
                 IF r = worker /\ n = name /\ b \notin selected THEN Empty[name] ELSE rt[r][n][b]
        BY RetainedIs
    <3> TAKE r \in Both, n \in Names, b \in Accounts
    <3>2. CASE r = worker /\ n = name /\ b \notin selected
        BY <3>1, <3>2
    <3>3. CASE ~(r = worker /\ n = name /\ b \notin selected)
        BY <3>1, <3>3
    <3> QED
        BY <3>2, <3>3
  <2> QED
      BY ZenonT(60), <2>1, <2>2
<1>3. CASE RetainLast
  <2>1. rt' = Kept(Retained("until")) /\ pc # "idle"
      BY <1>3 DEF RetainLast
  <2>2. Retained("until") \in TwoRuntimes
      BY RetainedIs DEF Names
  <2>3. /\ rt'.new = Retained("until").new
        /\ \/ rt'.old = NewRuntime /\ copying' = 0
           \/ rt'.old = Retained("until").old
      BY <2>1, <2>2, KeptIs
  <2>4. \A r \in Both, n \in Names, b \in Accounts :
            \/ Retained("until")[r][n][b] = rt[r][n][b]
            \/ Retained("until")[r][n][b] = Empty[n] /\ r = worker /\ b \notin selected
      BY RetainedIs DEF Names
  <2> QED
      BY <2>1, <2>3, <2>4, NewRuntimeIs DEF Both
<1> QED
    BY ZenonT(60), <1>1, <1>2, <1>3 DEF RetainActive, Names

(* A replacement leaves the old runtime to the worker. *)
LEMMA ReplaceIs ==
    ASSUME Replace
    PROVE  rt'.new = NewRuntime /\ rt'.old = rt.new
BY DEF Replace

(* One mapping is copied; after the last one the replaced runtime is dropped, *)
(* unless the worker is still at it.                                       *)
LEMMA CopyIs ==
    ASSUME TypeOK, Copy
    PROVE  /\ copying \in {1, 2, 3}
           /\ \A n \in Names : rt'.new[n] = IF n = CopyOrder[copying] THEN rt.old[n] ELSE rt.new[n]
           /\ \/ rt'.old = rt.old
              \/ rt'.old = NewRuntime /\ copying' = 0
<1> DEFINE R == [rt EXCEPT !.new[CopyOrder[copying]] = rt.old[CopyOrder[copying]]]
<1>1. copying \in {1, 2, 3}
    BY ClockIs DEF Copy
<1>2. CopyOrder[copying] \in Names
    BY <1>1, CopyOrderIs DEF Names
<1>3. /\ R \in TwoRuntimes /\ R.old = rt.old
      /\ \A n \in Names : R.new[n] = IF n = CopyOrder[copying] THEN rt.old[n] ELSE rt.new[n]
    BY <1>2, CopiedIs
<1>4. rt' = Kept(R)
    BY DEF Copy
<1> HIDE DEF R
<1> QED
    BY <1>1, <1>3, <1>4, KeptIs

-----------------------------------------------------------------------------
(* The holds of both runtimes, as numbers. *)
LEMMA HoldsAre ==
    ASSUME TypeOK
    PROVE  /\ worker \in Both
           /\ \A r \in Both, a \in Accounts :
                 /\ rt[r].until[a] \in Int /\ rt[r].until[a] >= Never
                 /\ rt[r].previous[a].held \in Int
<1>1. worker \in Both /\ \A r \in Both : rt[r] \in Runtimes
    BY DEF TypeOK, Both
<1>2. \A r \in Both, a \in Accounts :
          rt[r].until[a] \in {Never} \union Nat /\ rt[r].previous[a] \in Baselines
    BY <1>1 DEF Runtimes
<1>3. \A b \in Baselines : b.held \in {Never} \union Nat
    BY DEF Baselines
<1> QED
    BY <1>1, <1>2, <1>3 DEF Never

(* A hold that a poll sets counts from its start, which is the latest. *)
LEMMA UntilNext == PollInv /\ [Next]_vars => UntilInv'
<1> SUFFICES ASSUME PollInv, [Next]_vars
             PROVE  UntilInv'
    OBVIOUS
<1> TypeOK /\ UntilInv /\ CopyInv
    BY DEF PollInv
<1> Hold \in Nat /\ Never <= now + Hold /\ Never <= start + Hold
    BY ConstantsAssumption, ClockIs DEF Never
<1> worker \in Both /\ \A r \in Both, a \in Accounts : rt[r].until[a] \in Int
    BY HoldsAre
<1> USE ClockIs DEF UntilInv, Both, Names
<1>1. ASSUME NEW S \in SUBSET Accounts, NEW m \in {"quota", "cumulative"}, StartPoll(S, m)
      PROVE  UntilInv'
    BY <1>1 DEF StartPoll
<1>2. ASSUME NEW a \in Accounts, Fetch(a)
      PROVE  UntilInv'
  <2>1. UNCHANGED <<now, start, worker>> /\ pc # "idle"
      BY <1>2 DEF Fetch
  <2>2. \A r \in Both, b \in Accounts :
            rt'[r].until[b] = rt[r].until[b] \/ rt'[r].until[b] = start + Hold
      BY <1>2, FetchIs
  <2> QED
      BY <2>1, <2>2
<1>3. ASSUME \A r \in Both, b \in Accounts :
                 rt'[r].until[b] = rt[r].until[b] \/ rt'[r].until[b] = Never,
             UNCHANGED now, pc' # "idle" => pc # "idle" /\ UNCHANGED <<start, worker>>
      PROVE  UntilInv'
    BY <1>3
<1>4. CASE Judge
    BY <1>3, <1>4, JudgeIs DEF Judge
<1>5. CASE Record
    BY <1>3, <1>5, RecordIs DEF Record
<1>6. ASSUME NEW a \in Accounts, NEW s, JudgeCumulative(a, s)
      PROVE  UntilInv'
    BY <1>3, <1>6, JudgeCumulativeIs DEF JudgeCumulative
<1>7. CASE RetainActive
  <2>1. \A r \in Both, b \in Accounts :
            rt'[r].until[b] = rt[r].until[b] \/ rt'[r].until[b] = Empty.until
      BY <1>7, RetainIs
  <2>2. UNCHANGED now /\ (pc' # "idle" => pc # "idle" /\ UNCHANGED <<start, worker>>)
      BY <1>7 DEF RetainActive, LoopEnds, Retain, RetainLast
  <2> QED
      BY <1>3, <2>1, <2>2, NewRuntimeIs
<1>8. CASE Replace
  <2>1. \A b \in Accounts : rt'.new.until[b] = Never /\ rt'.old.until[b] = rt.new.until[b]
      BY <1>8, ReplaceIs, NewRuntimeIs
  <2> QED
      BY <1>8, <2>1 DEF Replace
<1>9. CASE Copy
  <2>1. /\ \A b \in Accounts : rt'.new.until[b] \in {rt.new.until[b], rt.old.until[b]}
        /\ rt'.old = rt.old \/ rt'.old = NewRuntime
      BY <1>9, CopyIs
  <2>2. UNCHANGED <<now, pc, start, worker>> /\ (pc # "idle" => worker = "old")
      BY <1>9 DEF Copy, poll, CopyInv
  <2> QED
      BY <2>1, <2>2, NewRuntimeIs
<1>10. CASE Tick
    BY <1>10 DEF Tick, poll
<1>11. CASE UNCHANGED vars
    BY <1>11 DEF vars, poll
<1> QED
    BY <1>1, <1>2, <1>4, <1>5, <1>6, <1>7, <1>8, <1>9, <1>10, <1>11 DEF Next

(* Holds grow, baselines take over what the hold says, and the copy takes   *)
(* the baselines first.                                                    *)
LEMMA HeldNext == PollInv /\ [Next]_vars => HeldInv'
<1> SUFFICES ASSUME PollInv, [Next]_vars
             PROVE  HeldInv'
    OBVIOUS
<1> TypeOK /\ UntilInv /\ CopyInv /\ HeldInv /\ SelectedInv
    BY DEF PollInv
<1> worker \in Both /\ copying \in 0 .. 3
    BY ClockIs, HoldsAre
<1> \A r \in Both, a \in Accounts : rt[r].until[a] \in Int /\ rt[r].previous[a].held \in Int
    BY HoldsAre
<1> Hold \in Nat /\ start \in Nat
    BY ConstantsAssumption, ClockIs
<1> USE DEF HeldInv, Both, Names
<1>1. ASSUME NEW S \in SUBSET Accounts, NEW m \in {"quota", "cumulative"}, StartPoll(S, m)
      PROVE  HeldInv'
    BY <1>1 DEF StartPoll
<1>2. ASSUME NEW a \in Accounts, Fetch(a)
      PROVE  HeldInv'
  <2>1. UNCHANGED <<copying, missed>> /\ (copying # 0 => worker = "old")
      BY <1>2 DEF Fetch, CopyInv, history
  <2>2. \A b \in Accounts : rt[worker].until[b] <= start + Hold
      BY <1>2 DEF Fetch, UntilInv
  <2>3. CASE \A r \in Both, n \in Names, b \in Accounts :
                 rt'[r][n][b] = IF r = worker /\ n = "until" /\ b = a THEN start + Hold ELSE rt[r][n][b]
      BY <2>1, <2>2, <2>3
  <2> QED
      BY <1>2, <2>1, <2>3, FetchIs
<1>3. CASE Judge
    BY <1>3, JudgeIs DEF Judge
<1>4. CASE Record
  <2>1. UNCHANGED <<copying, missed>> /\ (copying # 0 => worker = "old")
      BY <1>4 DEF Record, CopyInv, history
  <2> QED
      BY <1>4, <2>1, RecordIs
<1>5. ASSUME NEW a \in Accounts, NEW s, JudgeCumulative(a, s)
      PROVE  HeldInv'
    BY <1>5, JudgeCumulativeIs DEF JudgeCumulative
<1>6. CASE RetainActive
  <2>1. UNCHANGED <<copying, missed>>
      BY <1>6 DEF RetainActive, LoopEnds, Retain, RetainLast, history
  <2>2. ASSUME NEW b \in Accounts \ missed
        PROVE  /\ rt'.new.previous[b] = rt.new.previous[b] /\ rt'.new.until[b] = rt.new.until[b]
               /\ \/ rt'.old.previous[b] = rt.old.previous[b] /\ rt'.old.until[b] = rt.old.until[b]
                  \/ copying = 0 /\ rt'.old.previous[b].held = Never /\ rt'.old.until[b] = Never
    <3>1. pc # "idle" => b \in selected
        BY DEF SelectedInv
    <3> QED
        BY <1>6, <2>1, <3>1, RetainIs, NewRuntimeIs
  <2> QED
      BY <2>1, <2>2 DEF Never
<1>7. CASE Replace
  <2>1. /\ \A b \in Accounts : rt'.new.previous[b].held = Never
        /\ rt'.old = rt.new /\ copying = 0 /\ copying' = 1 /\ missed' = missed
      BY <1>7, ReplaceIs, NewRuntimeIs DEF Replace, history
  <2>2. \A b \in Accounts : rt.new.until[b] >= Never
      BY HoldsAre
  <2> QED
      BY <2>1, <2>2
<1>8. CASE Copy
  <2>1. UNCHANGED missed /\ copying' = (IF copying = 3 THEN 0 ELSE copying + 1)
      BY <1>8, CopyOrderIs DEF Copy, history
  <2>2. /\ rt'.new.previous = IF copying = 1 THEN rt.old.previous ELSE rt.new.previous
        /\ rt'.new.until = IF copying = 3 THEN rt.old.until ELSE rt.new.until
      BY <1>8, CopyIs, CopyOrderIs
  <2>3. \/ rt'.old = rt.old
        \/ copying' = 0 /\ \A b \in Accounts : rt'.old.previous[b].held = Never /\ rt'.old.until[b] = Never
      BY <1>8, CopyIs, NewRuntimeIs
  <2>4. copying \in {1, 2, 3}
      BY <1>8, CopyIs
  <2> QED
      BY <2>1, <2>2, <2>3, <2>4 DEF Never
<1>9. CASE Tick
    BY <1>9 DEF Tick, history
<1>10. CASE UNCHANGED vars
    BY <1>10 DEF vars, history
<1> QED
    BY <1>1, <1>2, <1>3, <1>4, <1>5, <1>6, <1>7, <1>8, <1>9, <1>10 DEF Next

-----------------------------------------------------------------------------
(* What a step does to the LCD: it leaves an account alone, hides it, or     *)
(* shows it a severity that the worker of the window's own runtime found.  *)
LEMMA ShownIs ==
    ASSUME TypeOK, [Next]_vars, NEW a \in Accounts
    PROVE  \/ shown'[a] = shown[a] /\ turn'[a] = turn[a]
           \/ shown'[a] = NotShown /\ turn'[a] = NoTurn
           \/ Judge /\ cur = a /\ worker = "new"
<1>0. HistoryOK
    BY DEF TypeOK, HistoryOK
<1>1. ASSUME NEW b \in Accounts, Hide(b)
      PROVE  \/ shown'[a] = shown[a] /\ turn'[a] = turn[a]
             \/ shown'[a] = NotShown /\ turn'[a] = NoTurn
    BY <1>0, <1>1 DEF Hide, HistoryOK
<1>2. CASE Judge
  <2>1. PICK s : cur \in Accounts /\ Show(cur, s, snap.remaining)
      BY <1>2, JudgeIs
  <2>2. CASE worker = "old"
      BY <1>1, <2>1, <2>2 DEF Show
  <2>3. CASE worker = "new" /\ cur # a
      BY <1>0, <2>1, <2>3 DEF Show, HistoryOK
  <2> QED
      BY <1>2, <2>2, <2>3 DEF TypeOK
<1>3. ASSUME NEW b \in Accounts, NEW s, JudgeCumulative(b, s)
      PROVE  \/ shown'[a] = shown[a] /\ turn'[a] = turn[a]
             \/ shown'[a] = NotShown /\ turn'[a] = NoTurn
    BY <1>1, <1>3 DEF JudgeCumulative
<1>4. ASSUME NEW S \in SUBSET Accounts, NEW m \in {"quota", "cumulative"}, StartPoll(S, m)
      PROVE  \/ shown'[a] = shown[a] /\ turn'[a] = turn[a]
             \/ shown'[a] = NotShown /\ turn'[a] = NoTurn
    BY <1>4 DEF StartPoll
<1>5. CASE Record \/ RetainActive \/ Replace \/ Copy \/ Tick \/ UNCHANGED vars
    BY <1>5 DEF Record, RetainActive, LoopEnds, Retain, RetainLast, Replace, Copy, Tick,
                vars, history
<1>6. ASSUME NEW b \in Accounts, Fetch(b)
      PROVE  shown'[a] = shown[a] /\ turn'[a] = turn[a]
    BY <1>6 DEF Fetch, history
<1> QED
    BY <1>2, <1>3, <1>4, <1>5, <1>6 DEF Next

(* ... and what it shows then. *)
LEMMA JudgeShows ==
    ASSUME TypeOK, Judge, worker = "new"
    PROVE  \E s \in Severities :
             /\ cur \in Accounts
             /\ rt'.new.severity[cur] = s
             /\ shown'[cur] = [severity |-> s, remaining |-> snap.remaining]
             /\ turn'[cur] = IF shown[cur].severity \notin Bands \/ s \notin Bands THEN NoTurn
                             ELSE IF s # shown[cur].severity
                             THEN [from |-> shown[cur].severity, remaining |-> snap.remaining]
                             ELSE turn[cur]
             /\ s \in Bands =>
                   /\ snap.remaining \in Levels
                   /\ s = Hysteresis(rt.new.severity[cur], snap.remaining)
<1>1. PICK s \in Severities :
        /\ \A r \in Both, n \in Names, b \in Accounts :
              rt'[r][n][b] = IF r = worker /\ n = "severity" /\ b = cur THEN s ELSE rt[r][n][b]
        /\ Show(cur, s, snap.remaining)
        /\ s \in Bands =>
              snap.remaining \in Levels /\ s = Hysteresis(rt[worker].severity[cur], snap.remaining)
    BY JudgeIs
<1>2. cur \in Accounts
    BY JudgeIs
<1>3. HistoryOK
    BY DEF TypeOK, HistoryOK
<1>4. rt'.new.severity[cur] = s
    BY <1>1, <1>2 DEF Both, Names
<1>5. /\ shown'[cur] = [severity |-> s, remaining |-> snap.remaining]
      /\ turn'[cur] = IF shown[cur].severity \notin Bands \/ s \notin Bands THEN NoTurn
                      ELSE IF s # shown[cur].severity
                      THEN [from |-> shown[cur].severity, remaining |-> snap.remaining]
                      ELSE turn[cur]
    BY <1>1, <1>2, <1>3 DEF Show, HistoryOK
<1> QED
    BY <1>1, <1>2, <1>4, <1>5

(* The severity before, of the next poll, is the one on the LCD, also while  *)
(* a runtime is being replaced.                                            *)
LEMMA SourceNext == PollInv /\ [Next]_vars => SourceInv'
<1> SUFFICES ASSUME PollInv, [Next]_vars, NEW a \in Accounts, shown'[a].severity # NoSeverity
             PROVE  Source'.severity[a] = shown'[a].severity
    BY DEF SourceInv
<1> TypeOK /\ CopyInv /\ SourceInv /\ SelectedInv
    BY DEF PollInv
<1> worker \in Both /\ copying \in 0 .. 3
    BY ClockIs, HoldsAre
<1> NotShown.severity = NoSeverity
    BY DEF NotShown
<1> USE DEF Both, Names
<1>1. CASE Judge /\ cur = a /\ worker = "new"
  <2>1. copying = 0 /\ copying' = 0
      BY <1>1 DEF Judge, CopyInv
  <2>2. Source' = rt'.new
      BY <2>1 DEF Source
  <2>3. rt'.new.severity[cur] = shown'[cur].severity
    <3>1. PICK s \in Severities :
             /\ rt'.new.severity[cur] = s
             /\ shown'[cur] = [severity |-> s, remaining |-> snap.remaining]
        BY <1>1, JudgeShows
    <3> QED
        BY <3>1
  <2> QED
      BY <1>1, <2>2, <2>3
<1>2. CASE shown'[a] = shown[a] /\ ~(Judge /\ cur = a) /\ ~\E s : JudgeCumulative(a, s)
  <2>1. Source.severity[a] = shown[a].severity /\ shown[a] # NotShown
      BY <1>2 DEF SourceInv
  <2>2. ASSUME UNCHANGED copying, \A r \in Both : rt'[r].severity[a] = rt[r].severity[a]
        PROVE  Source'.severity[a] = Source.severity[a]
      BY <2>2 DEF Source
  <2>3. CASE Copy
    <3>1. /\ copying' = (IF copying = 3 THEN 0 ELSE copying + 1)
          /\ rt'.new.severity = IF copying = 2 THEN rt.old.severity ELSE rt.new.severity
          /\ copying' # 0 => rt'.old = rt.old
          /\ copying \in {1, 2, 3}
        BY <2>3, CopyIs, CopyOrderIs DEF Copy
    <3> QED
        BY <3>1, <1>2, <2>1 DEF Source
  <2>4. CASE Replace
    <3>1. copying = 0 /\ copying' = 1 /\ rt'.old = rt.new
        BY <2>4 DEF Replace
    <3> QED
        BY <3>1, <1>2, <2>1 DEF Source
  <2>5. CASE RetainActive
    <3>1. UNCHANGED copying
        BY <2>5 DEF RetainActive, LoopEnds, Retain, RetainLast
    <3>2. pc # "idle" => a \in selected
        BY <2>1 DEF SelectedInv
    <3>3. \A r \in Both : rt'[r].severity[a] = rt[r].severity[a] \/ (r = "old" /\ copying' = 0)
      <4> TAKE r \in Both
      <4>1. "severity" \in Names
          OBVIOUS
      <4>2. \/ rt'[r]["severity"][a] = rt[r]["severity"][a]
            \/ a \notin selected /\ pc # "idle"
            \/ r = "old" /\ copying' = 0
          BY <2>5, <4>1, RetainIs
      <4> QED
          BY <3>2, <4>2
    <3> QED
        BY <3>1, <3>3, <1>2, <2>1 DEF Source
  <2>6. ASSUME NEW b \in Accounts, Fetch(b)
        PROVE  Source'.severity[a] = Source.severity[a]
    <3>1. UNCHANGED copying
        BY <2>6 DEF Fetch
    <3> QED
        BY <3>1, <2>2, <2>6, FetchIs
  <2>7. CASE Judge
    <3>1. UNCHANGED copying /\ cur # a
        BY <2>7, <1>2 DEF Judge
    <3> QED
        BY <3>1, <1>2, <2>1, <2>2, <2>7, JudgeIs
  <2>8. CASE Record
    <3>1. UNCHANGED copying
        BY <2>8 DEF Record
    <3> QED
        BY <3>1, <1>2, <2>1, <2>2, <2>8, RecordIs
  <2>9. ASSUME NEW b \in Accounts, NEW s, JudgeCumulative(b, s)
        PROVE  Source'.severity[a] = Source.severity[a]
    <3>1. UNCHANGED copying /\ b # a
        BY <2>9, <1>2 DEF JudgeCumulative
    <3> QED
        BY <3>1, <2>2, <2>9, JudgeCumulativeIs
  <2>10. CASE Tick \/ UNCHANGED vars \/ \E S \in SUBSET Accounts, m \in {"quota", "cumulative"} : StartPoll(S, m)
      BY <2>10, <2>2, <1>2, <2>1 DEF Tick, vars, StartPoll
  <2> QED
      BY <1>2, <2>1, <2>3, <2>4, <2>5, <2>6, <2>7, <2>8, <2>9, <2>10 DEF Next
<1>3. ASSUME NEW s, JudgeCumulative(a, s)
      PROVE  shown'[a] = NotShown
    BY <1>3 DEF JudgeCumulative, Hide, TypeOK
<1>4. CASE Judge /\ cur = a /\ worker = "old"
  <2>1. shown'[a] = NotShown
      BY <1>4, JudgeIs DEF Show, Hide, TypeOK
  <2> QED
      BY <2>1
<1> QED
    BY <1>1, <1>2, <1>3, <1>4, ShownIs

(* What is remembered of the turn of a character stays true. *)
LEMMA TurnNext == PollInv /\ [Next]_vars => TurnInv'
<1> SUFFICES ASSUME PollInv, [Next]_vars, NEW a \in Accounts, turn'[a] # NoTurn
             PROVE  /\ turn'[a].from \in Bands /\ turn'[a].remaining \in Levels
                    /\ shown'[a].severity \in Bands \ {turn'[a].from}
                    /\ shown'[a].severity = Hysteresis(turn'[a].from, turn'[a].remaining)
    BY DEF TurnInv
<1> TypeOK /\ CopyInv /\ SourceInv /\ TurnInv
    BY DEF PollInv
<1>1. CASE Judge /\ cur = a /\ worker = "new"
  <2>1. PICK s \in Severities :
          /\ shown'[a] = [severity |-> s, remaining |-> snap.remaining]
          /\ turn'[a] = IF shown[a].severity \notin Bands \/ s \notin Bands THEN NoTurn
                        ELSE IF s # shown[a].severity
                        THEN [from |-> shown[a].severity, remaining |-> snap.remaining]
                        ELSE turn[a]
          /\ s \in Bands =>
                snap.remaining \in Levels /\ s = Hysteresis(rt.new.severity[a], snap.remaining)
      BY <1>1, JudgeShows
  <2>2. shown[a].severity \in Bands /\ s \in Bands
      BY <2>1
  <2>3. CASE s # shown[a].severity
    <3>1. rt.new.severity[a] = shown[a].severity
      <4>1. Source = rt.new
          BY <1>1 DEF Judge, CopyInv, Source
      <4>2. NoSeverity \notin Bands
          BY DEF NoSeverity, Bands
      <4> QED
          BY <2>2, <4>1, <4>2 DEF SourceInv
    <3> QED
        BY <2>1, <2>2, <2>3, <3>1
  <2>4. CASE s = shown[a].severity
      BY <2>1, <2>2, <2>4 DEF TurnInv
  <2> QED
      BY <2>3, <2>4
<1>2. CASE shown'[a] = shown[a] /\ turn'[a] = turn[a]
    BY <1>2 DEF TurnInv
<1> QED
    BY <1>1, <1>2, ShownIs

(* Whatever was shown before, what is shown next fits what remains. *)
LEMMA MildNext == PollInv /\ [Next]_vars => NeverTooMild'
<1> SUFFICES ASSUME PollInv, [Next]_vars, NEW a \in Accounts,
                    shown'[a].severity \in Bands, shown'[a].remaining # Unknown
             PROVE  Rank(shown'[a].severity) <= Rank(Band(shown'[a].remaining + Margin))
    BY DEF NeverTooMild
<1> TypeOK /\ NeverTooMild
    BY DEF PollInv
<1>1. CASE Judge /\ cur = a /\ worker = "new"
  <2>1. PICK s \in Severities :
          /\ shown'[a] = [severity |-> s, remaining |-> snap.remaining]
          /\ s \in Bands =>
                snap.remaining \in Levels /\ s = Hysteresis(rt.new.severity[a], snap.remaining)
      BY <1>1, JudgeShows
  <2>2. snap.remaining \in Nat
      BY <2>1, ConstantsAssumption
  <2> QED
      BY <2>1, <2>2, HysteresisMild
<1>2. CASE shown'[a] = shown[a]
    BY <1>2 DEF NeverTooMild
<1>3. CASE shown'[a] = NotShown
    BY <1>3 DEF NotShown
<1> QED
    BY <1>1, <1>2, <1>3, ShownIs

-----------------------------------------------------------------------------
(* It starts so: nothing is known yet. *)
LEMMA PollInit == Init => PollInv
<1> SUFFICES ASSUME Init
             PROVE  PollInv
    OBVIOUS
<1>1. TypeOK
    BY TypeInit
<1>2. CopyInv /\ SelectedInv
    BY DEF Init, CopyInv, SelectedInv
<1>3. \A r \in Both, a \in Accounts :
          rt[r].until[a] = Never /\ rt[r].previous[a].held = Never
  <2>1. \A a \in Accounts :
            NewRuntime.until[a] = Never /\ NewRuntime.previous[a] = Empty.previous
      BY NewRuntimeIs DEF Names
  <2>2. \A r \in Both : rt[r] = NewRuntime
      BY DEF Init, Both
  <2> QED
      BY <2>1, <2>2, NewRuntimeIs
<1>4. UntilInv /\ HeldInv
    BY <1>3, ConstantsAssumption DEF Init, UntilInv, HeldInv, Both, Never
<1>5. SourceInv /\ TurnInv /\ NeverTooMild
    BY DEF Init, SourceInv, TurnInv, NeverTooMild, NotShown
<1> QED
    BY <1>1, <1>2, <1>4, <1>5 DEF PollInv

(* The invariant holds whenever the window replaces a runtime and whatever  *)
(* the providers answer.                                                   *)
THEOREM PollInvariant == Spec => []PollInv
<1>1. PollInv /\ [Next]_vars => PollInv'
    BY TypeNext, CopyNext, SelectedNext, UntilNext, HeldNext, SourceNext, TurnNext, MildNext
    DEF PollInv
<1> QED
    BY PollInit, <1>1, PTL DEF Spec

(* Every variable keeps its kind of value. *)
THEOREM TypeCorrect == Spec => []TypeOK
<1>1. PollInv => TypeOK
    BY DEF PollInv
<1> QED
    BY PollInvariant, <1>1, PTL

(* A character never looks more than the hysteresis margin better than what *)
(* remains of its account (apply_hysteresis).                              *)
THEOREM NeverTooMildCorrect == Spec => []NeverTooMild
<1>1. PollInv => NeverTooMild
    BY DEF PollInv
<1> QED
    BY PollInvariant, <1>1, PTL

(* No replacement of the runtime loses the hold of a reset while its        *)
(* baseline survives (poll, adopt_display_state).                          *)
THEOREM ResetNotLostCorrect == Spec => []ResetNotLost
<1>1. PollInv => ResetNotLost
    BY HoldsAre DEF PollInv, HeldInv, ResetNotLost, Both
<1> QED
    BY PollInvariant, <1>1, PTL

(* Polls around the edge of a band do not make a character flicker, across  *)
(* any number of polls and replacements of the runtime (severity.py:62).    *)
THEOREM NoFlickerCorrect == Spec => NoFlicker
<1>1. ASSUME PollInv, [Next]_vars, NEW a \in Accounts,
             turn[a] # NoTurn, shown'[a].severity = turn[a].from
      PROVE  \/ shown'[a].remaining - turn[a].remaining >= 2 * Margin
             \/ turn[a].remaining - shown'[a].remaining >= 2 * Margin
  <2> TypeOK /\ TurnInv /\ SourceInv /\ CopyInv
      BY <1>1 DEF PollInv
  <2>1. /\ turn[a].from \in Bands /\ turn[a].remaining \in Levels
        /\ shown[a].severity \in Bands \ {turn[a].from}
        /\ shown[a].severity = Hysteresis(turn[a].from, turn[a].remaining)
      BY <1>1 DEF TurnInv
  <2>2. NotShown.severity \notin Bands /\ NoSeverity \notin Bands
      BY DEF NotShown, NoSeverity, Bands
  <2>3. Judge /\ cur = a /\ worker = "new"
      BY <1>1, <2>1, <2>2, ShownIs
  <2>4. PICK s \in Severities :
          /\ shown'[a] = [severity |-> s, remaining |-> snap.remaining]
          /\ s \in Bands =>
                snap.remaining \in Levels /\ s = Hysteresis(rt.new.severity[a], snap.remaining)
      BY <2>3, JudgeShows
  <2>5. rt.new.severity[a] = shown[a].severity
    <3>1. Source = rt.new
        BY <2>3 DEF Judge, CopyInv, Source
    <3> QED
        BY <2>1, <2>2, <3>1 DEF SourceInv
  <2>6. turn[a].remaining \in Nat /\ snap.remaining \in Nat
    <3>1. s \in Bands /\ Levels \subseteq Nat
        BY <1>1, <2>1, <2>4, ConstantsAssumption
    <3> QED
        BY <2>1, <2>4, <3>1
  <2> QED
      BY <1>1, <2>1, <2>4, <2>5, <2>6, ThereAndBack
<1>2. PollInv /\ [Next]_vars =>
        \A a \in Accounts :
          LET to == shown'[a]
          IN  turn[a] # NoTurn /\ to.severity = turn[a].from
                => \/ to.remaining - turn[a].remaining >= 2 * Margin
                   \/ turn[a].remaining - to.remaining >= 2 * Margin
    BY <1>1
<1> QED
    BY <1>2, PollInvariant, PTL DEF Spec, NoFlicker
=============================================================================
