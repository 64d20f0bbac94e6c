----------------------------- MODULE CodexScan -----------------------------
(***************************************************************************)
(* What a scan of the Codex history makes of the files it finds:           *)
(* usage/local.py, scan_codex_usage, over files that the Codex client and  *)
(* the user's copying and rotating leave behind (external).                *)
(*                                                                         *)
(* The actions are the world's.  The scan has no state of its own between  *)
(* two polls: it is an operator, Scan, on the files as they are, and the   *)
(* properties compare what it reports with what was really used.           *)
(*                                                                         *)
(* A file is a sequence of rows, the lines that _records yields or finds   *)
(* damaged.  Its path is a number: the scan takes larger paths first.  A   *)
(* client's thread id is the id its session_meta line gives.               *)
(***************************************************************************)
EXTENDS Integers, Sequences, FiniteSets, SequencesExt, FiniteSetsExt

CONSTANTS Paths,
          Threads,
          NoThread,
          Responses,    \* what one response may cost: [in, cached, out]
          MaxRecords,   \* _MAX_RECORDS_PER_SCAN
          MaxRows,      \* bound: rows in a file
          MaxTime,      \* bound: moments at which a row is written
          MaxDamage     \* bound: damaged rows

CodexAssumption ==
    /\ IsFiniteSet(Paths) /\ Paths \subseteq Nat
    /\ IsFiniteSet(Threads) /\ NoThread \notin Threads
    /\ Responses \subseteq {r \in [in : Nat, cached : Nat, out : Nat] : r.cached <= r.in}
    /\ {MaxRecords, MaxRows, MaxTime, MaxDamage} \subseteq Nat

VARIABLES file,         \* path -> rows; <<>> is no file
          count,        \* path -> the cumulative counter of the client that writes it
          clock

(* History, for the properties only. *)
VARIABLES truth,        \* the tokens of all responses
          masked        \* a counter that was reset came back higher than before

codexVars == <<file, count, clock, truth, masked>>

NoId == 0
Zero == [in |-> 0, cached |-> 0, out |-> 0]

-----------------------------------------------------------------------------
(* Token counters *)

(* What _codex_tokens makes of the counters of a row: disjoint categories. *)
Tokens(raw) == [in |-> raw.in - raw.cached, mixed |-> 0, cached |-> raw.cached, out |-> raw.out]
NoTokens == Tokens(Zero)

Input(t) == t.in + t.mixed + t.cached
Total(t) == Input(t) + t.out

Plus(s, t) == [k \in DOMAIN s |-> s[k] + t[k]]

(* A decrease of either aggregate is a reset: delta_from answers None.  When *)
(* categories moved, the input counts as unclassified.                       *)
Decreased(cur, old) == Input(cur) < Input(old) \/ cur.out < old.out

(* The usual mistake: every category is clamped by itself. *)
DeltaClamped(cur, old) == [k \in DOMAIN cur |-> IF cur[k] > old[k] THEN cur[k] - old[k] ELSE 0]

Delta(cur, old) ==
    IF \A k \in {"in", "mixed", "cached"} : cur[k] >= old[k]
    THEN [k \in DOMAIN cur |-> cur[k] - old[k]]
    ELSE [in |-> 0, mixed |-> Input(cur) - Input(old), cached |-> 0, out |-> cur.out - old.out]

-----------------------------------------------------------------------------
(* One file *)

NoStream == [session |-> NoThread, key |-> NoThread, counted |-> FALSE, prev |-> NoTokens,
             pre |-> NoTokens, obs |-> <<>>, bad |-> 0]

(* The observation of a row, unless it adds nothing.  The same event twice   *)
(* in a file counts once; if the two differ, the smaller one counts.         *)
Observe(st, r, tokens, identity) ==
    LET id == IF r.id # NoId THEN <<"id", r.id>> ELSE <<st.session, r.at, identity>>
        new == [id |-> id, at |-> r.at, tokens |-> tokens, session |-> st.session]
        same == {i \in DOMAIN st.obs : st.obs[i].id = id}
    IN IF Total(tokens) = 0 THEN st
       ELSE IF same = {} THEN [st EXCEPT !.obs = Append(@, new)]
       ELSE LET i == CHOOSE j \in same : TRUE
                old == st.obs[i]
            IN IF old.at = new.at /\ old.tokens = new.tokens THEN st
               ELSE [st EXCEPT !.bad = @ + 1,
                               !.obs[i] = IF Total(tokens) < Total(old.tokens) THEN new ELSE old]

ReadCumulative(st, r) ==
    LET cur == Tokens(r.tokens)
        base == IF st.counted THEN st.prev ELSE st.pre
        lost == Decreased(cur, base) /\ ~st.counted
        inc == IF ~Decreased(cur, base) THEN Delta(cur, base)
               ELSE IF st.counted THEN cur ELSE NoTokens
        to == [st EXCEPT !.prev = cur, !.counted = TRUE, !.bad = IF lost THEN @ + 1 ELSE @,
                         !.key = IF r.kind = "usage" /\ @ = NoThread THEN r.thread ELSE @]
    IN Observe(to, r, inc, cur)

ReadLast(st, r) ==
    LET to == Observe(st, r, Tokens(r.tokens), Tokens(r.tokens))
    IN IF st.counted THEN [st EXCEPT !.bad = @ + 1]
       ELSE IF Len(to.obs) = Len(st.obs) THEN to
       ELSE [to EXCEPT !.pre = Plus(@, Tokens(r.tokens))]

ReadRow(st, r) ==
    CASE r.kind = "meta"    -> [st EXCEPT !.session = r.thread]
      [] r.kind = "damaged" -> [st EXCEPT !.bad = @ + 1]
      [] r.kind = "last"    -> ReadLast(st, r)
      [] OTHER              -> ReadCumulative(st, r)

(* What is known after the first n rows of a file. *)
After(session, rows, n) ==
    LET state[i \in 0 .. n] ==
            IF i = 0 THEN [NoStream EXCEPT !.session = session] ELSE ReadRow(state[i - 1], rows[i])
    IN state[n]

ReadFile(path, rows) ==
    LET st == After(path, rows, Len(rows))
    IN [path |-> path, obs |-> st.obs, bad |-> st.bad,
        key |-> IF st.key = NoThread THEN st.session ELSE st.key,
        terminal |-> IF st.counted THEN st.prev ELSE st.pre]

-----------------------------------------------------------------------------
(* All files *)

SumOf(obs) == SumFunctionOnSet([i \in DOMAIN obs |-> Total(obs[i].tokens)], DOMAIN obs)

(* _CodexFileStream.score, compared as a tuple. *)
Score(s) == <<SumOf(s.obs), Total(s.terminal), Len(s.obs), s.path>>
Less(a, b) == \E i \in DOMAIN a : a[i] < b[i] /\ \A j \in 1 .. i - 1 : a[j] = b[j]

Compatible(s, t) == IsPrefix(s.obs, t.obs) \/ IsPrefix(t.obs, s.obs)

(* The mistake of taking every file for a stream of its own. *)
SelectedAll(streams) == streams

(* One stream of each key is taken; the others must be prefixes of it. *)
Selected(streams) ==
    {s \in streams : \A t \in streams : t.key = s.key /\ t # s => Less(Score(t), Score(s))}

Diverging(streams) ==
    {t \in streams : \E s \in Selected(streams) : s.key = t.key /\ ~Compatible(s, t)}

(* The selected streams are united by event; the smaller observation stays.  *)
Merged(streams) ==
    LET all == UNION {Range(s.obs) : s \in streams}
    IN [id \in {o.id : o \in all} |-> Min({Total(o.tokens) : o \in {x \in all : x.id = id}})]
Conflicts(streams) ==
    \E s, t \in streams : \E i \in DOMAIN s.obs : \E j \in DOMAIN t.obs :
        s.obs[i].id = t.obs[j].id /\ s.obs[i] # t.obs[j]

(* The rows of path that are within the limit, the files before it counted. *)
Before(files, path) ==
    SumFunctionOnSet([p \in DOMAIN files |-> Len(files[p])], {p \in DOMAIN files : p > path})
Read(files, path) == SubSeq(files[path], 1, Min({Len(files[path]), MaxRecords - Before(files, path)}))
Truncated(files) == \E p \in DOMAIN files : Read(files, p) # files[p]

Scan(files) ==
    LET all == {ReadFile(p, Read(files, p)) : p \in {q \in DOMAIN files : Read(files, q) # <<>>}}
        streams == {s \in all : s.obs # <<>>}
        chosen == Selected(streams)
    IN [total |-> SumFunctionOnSet(Merged(chosen), DOMAIN Merged(chosen)),
        partial |-> \/ Truncated(files)
                    \/ \E s \in all : s.bad > 0
                    \/ Diverging(streams) # {}
                    \/ Conflicts(chosen)]

-----------------------------------------------------------------------------
(* The files *)

Row(kind, t, id, tokens) == [kind |-> kind, thread |-> t, id |-> id, at |-> clock, tokens |-> tokens]
ThreadOf(p) == file[p][1].thread
Room(p, n) == Len(file[p]) + n <= MaxRows /\ clock < MaxTime

(* What a scanner of the file compares the next cumulative row with. *)
Baseline(p) ==
    LET st == After(NoThread, file[p], Len(file[p]))
    IN IF st.counted THEN st.prev ELSE st.pre
Masks(p, from, to) == Decreased(Tokens(from), Baseline(p)) /\ ~Decreased(Tokens(to), Baseline(p))

CodexInit ==
    /\ file = [p \in Paths |-> <<>>]
    /\ count = [p \in Paths |-> Zero]
    /\ clock = 1
    /\ truth = 0
    /\ masked = FALSE

Open(p, t) ==
    /\ file[p] = <<>>
    /\ \A q \in Paths : file[q] # <<>> => ThreadOf(q) # t
    /\ file' = [file EXCEPT ![p] = <<Row("meta", t, NoId, Zero)>>]
    /\ UNCHANGED <<count, clock, truth, masked>>

(* A response is written with the cumulative counter, as a token_count, as a *)
(* token_usage_record with its response id, or as both.  A client that has   *)
(* resumed the session may count from zero again, and one of another version *)
(* may no longer tell cached input apart.                                    *)
Respond(p, r, kinds, from) ==
    LET to == Plus(from, r)
        row(k) == Row(k, ThreadOf(p), IF k = "usage" THEN clock ELSE NoId, to)
    IN /\ file[p] # <<>>
       /\ Room(p, Len(kinds))
       /\ file' = [file EXCEPT ![p] = @ \o [i \in DOMAIN kinds |-> row(kinds[i])]]
       /\ count' = [count EXCEPT ![p] = to]
       /\ clock' = clock + 1
       /\ truth' = truth + r.in + r.out
       /\ masked' = (masked \/ Masks(p, from, to))

(* An old client writes only what the response cost. *)
RespondLastOnly(p, r) ==
    /\ file[p] # <<>>
    /\ Room(p, 1)
    /\ file' = [file EXCEPT ![p] = Append(@, Row("last", ThreadOf(p), NoId, r))]
    /\ count' = [count EXCEPT ![p] = Plus(@, r)]
    /\ clock' = clock + 1
    /\ truth' = truth + r.in + r.out
    /\ UNCHANGED masked

(* The last cumulative counter is written once more, with new rate limits. *)
Repeat(p) ==
    /\ file[p] # <<>>
    /\ Room(p, 1)
    /\ Last(file[p]).kind \in {"total", "usage"}
    /\ file' = [file EXCEPT ![p] = Append(@, [Last(@) EXCEPT !.kind = "total", !.id = NoId, !.at = clock])]
    /\ clock' = clock + 1
    /\ UNCHANGED <<count, truth, masked>>

(* The first n rows, or the rows after the first n and the session_meta      *)
(* line, are found again in another file, and a client may go on with both.  *)
CountAfter(rows) ==
    IF Last(rows).kind \in {"total", "usage"} THEN Last(rows).tokens ELSE Zero
CopyHead(p, q, n) ==
    /\ file[q] = <<>>
    /\ n \in 2 .. Len(file[p])
    /\ file' = [file EXCEPT ![q] = SubSeq(file[p], 1, n)]
    /\ count' = [count EXCEPT ![q] = CountAfter(SubSeq(file[p], 1, n))]
    /\ UNCHANGED <<clock, truth, masked>>
CopyTail(p, q, n) ==
    /\ file[q] = <<>>
    /\ n \in 2 .. Len(file[p])
    /\ file' = [file EXCEPT ![q] = <<file[p][1]>> \o SubSeq(file[p], n + 1, Len(file[p]))]
    /\ count' = [count EXCEPT ![q] = count[p]]
    /\ UNCHANGED <<clock, truth, masked>>

(* A line that was only half written; MaxDamage is a bound. *)
DamagedRows == {x \in Paths \X (1 .. MaxRows) : x[2] \in DOMAIN file[x[1]] /\ file[x[1]][x[2]].kind = "damaged"}
Damage(p, i) ==
    /\ i \in 2 .. Len(file[p])
    /\ Cardinality(DamagedRows) < MaxDamage
    /\ file' = [file EXCEPT ![p][i].kind = "damaged"]
    /\ UNCHANGED <<count, clock, truth, masked>>

Kinds == {<<"total">>, <<"usage">>, <<"usage", "total">>}

CodexNext ==
    \E p \in Paths :
        \/ \E t \in Threads : Open(p, t)
        \/ \E r \in Responses, k \in Kinds : \E from \in {count[p], [count[p] EXCEPT !.cached = 0], Zero} : Respond(p, r, k, from)
        \/ \E r \in Responses : RespondLastOnly(p, r)
        \/ Repeat(p)
        \/ \E q \in Paths, n \in 1 .. MaxRows : CopyHead(p, q, n) \/ CopyTail(p, q, n)
        \/ \E i \in 1 .. MaxRows : Damage(p, i)

CodexSpec == CodexInit /\ [][CodexNext]_codexVars

-----------------------------------------------------------------------------
(* Properties *)

(* Whatever was copied, rotated, reset or damaged, the scan never reports    *)
(* more tokens than were used; and a total that is not marked as partial is  *)
(* exact, unless a reset counter grew past its old value unseen.             *)
CodexExact ==
    LET s == Scan(file)
    IN s.total <= truth /\ (s.partial \/ masked \/ s.total = truth)

(* An archived copy of a file, complete or cut off, at whatever path, does   *)
(* not change the total and does not make an exact one partial.              *)
CodexCopiesAddNothing ==
    \A p \in Paths : \A n \in 1 .. Len(file[p]) :
        \A q \in {Max(Paths) + 1, -1} :
            LET more == [x \in Paths \union {q} |-> IF x = q THEN SubSeq(file[p], 1, n) ELSE file[x]]
            IN Truncated(more) \/ Scan(more) = Scan(file)

=============================================================================
