----------------------------- MODULE ClaudeScan -----------------------------
(***************************************************************************)
(* What a scan of the Claude Code transcripts makes of the files it finds: *)
(* usage/local.py, scan_claude_usage.  As in CodexScan the actions are the *)
(* world's, and the scan is an operator on the files.                      *)
(*                                                                         *)
(* A response is written to a transcript several times while it streams,   *)
(* each time with the counters so far.  A branch of the conversation       *)
(* starts with a copy of the rows before it.                               *)
(***************************************************************************)
EXTENDS Integers, Sequences, FiniteSets, Functions

CONSTANTS Paths,
          Messages,
          Steps,        \* what one more row adds to a response: [in, write, out]
          MaxRecords,   \* _MAX_RECORDS_PER_SCAN
          MaxRows,      \* bound: rows in a file
          MaxTime       \* bound: moments at which a row is written

ClaudeAssumption ==
    /\ IsFiniteSet(Paths) /\ IsFiniteSet(Messages)
    /\ Steps \subseteq [in : Nat, write : Nat, out : Nat]
    /\ MaxRecords \in Nat

VARIABLES file,         \* path -> rows; <<>> is no file
          used,         \* message -> its counters so far
          clock

vars == <<file, used, clock>>

Nothing == [in |-> 0, write |-> 0, out |-> 0]
Plus(s, t) == [in |-> s.in + t.in, write |-> s.write + t.write, out |-> s.out + t.out]
Sum(t) == t.in + t.write + t.out

(* How a version of the client reports cache writes: the aggregate, the      *)
(* detail by lifetime, or both.                                              *)
Forms == {"aggregate", "detail", "both"}

-----------------------------------------------------------------------------
(* The scan *)

(* What _claude_tokens makes of a row: the detail stands in for an aggregate *)
(* that is missing.                                                          *)
Tokens(r) ==
    [in |-> r.tokens.in, out |-> r.tokens.out, write |-> r.tokens.write,
     long |-> IF r.form = "aggregate" THEN 0 ELSE r.tokens.write]
Total(t) == t.in + t.write + t.out

Score(o) == <<Total(o.tokens), o.tokens.long, o.at>>
Less(a, b) == \E i \in DOMAIN a : a[i] < b[i] /\ \A j \in 1 .. i - 1 : a[j] = b[j]

(* One variant is at most the other in every counter. *)
Comparable(s, t) == (\A k \in DOMAIN s : s[k] <= t[k]) \/ (\A k \in DOMAIN s : s[k] >= t[k])

(* The mistake of keeping the variant that is read last. *)
ReadRowLast(st, r) ==
    [obs |-> {o \in st.obs : o.id # r.msg} \union {[id |-> r.msg, at |-> r.at, tokens |-> Tokens(r)]},
     bad |-> st.bad]

(* One more row: the most complete variant of a message is kept. *)
ReadRow(st, r) ==
    LET new == [id |-> r.msg, at |-> r.at, tokens |-> Tokens(r)]
        same == {o \in st.obs : o.id = r.msg}
    IN IF r.damaged THEN [st EXCEPT !.bad = @ + 1]
       ELSE [obs |-> IF \E o \in same : ~Less(Score(o), Score(new)) THEN st.obs
                     ELSE (st.obs \ same) \union {new},
             bad |-> IF \E o \in same : ~Comparable(o.tokens, new.tokens) THEN st.bad + 1 ELSE st.bad]

(* The files in some order; the code's is by descending path. *)
Orders == {o \in [1 .. Cardinality(Paths) -> Paths] : \A p \in Paths : \E i \in DOMAIN o : o[i] = p}

Rows(order) ==
    LET upto[i \in 0 .. Cardinality(Paths)] ==
            IF i = 0 THEN <<>> ELSE upto[i - 1] \o file[order[i]]
    IN upto[Cardinality(Paths)]

(* What is known after the first n rows. *)
After(rows, n) ==
    LET state[i \in 0 .. n] ==
            IF i = 0 THEN [obs |-> {}, bad |-> 0] ELSE ReadRow(state[i - 1], rows[i])
    IN state[n]

Scan(order) ==
    LET rows == Rows(order)
        truncated == Len(rows) > MaxRecords
        st == After(rows, IF truncated THEN MaxRecords ELSE Len(rows))
    IN [total |-> SumFunctionOnSet([o \in st.obs |-> Total(o.tokens)], st.obs),
        partial |-> truncated \/ st.bad > 0]

-----------------------------------------------------------------------------
(* The files *)

Init ==
    /\ file = [p \in Paths |-> <<>>]
    /\ used = [m \in Messages |-> Nothing]
    /\ clock = 1

Home(m) == {p \in Paths : \E i \in DOMAIN file[p] : file[p][i].msg = m}

(* A response begins, or goes on streaming, in a transcript that has it. *)
Stream(p, m, step, form) ==
    /\ Home(m) = {} \/ p \in Home(m)
    /\ Len(file[p]) < MaxRows
    /\ clock < MaxTime
    /\ used' = [used EXCEPT ![m] = Plus(@, step)]
    /\ file' = [file EXCEPT ![p] =
                Append(@, [msg |-> m, at |-> clock, form |-> form, damaged |-> FALSE, tokens |-> used'[m]])]
    /\ clock' = clock + 1

(* A branch: another transcript begins with the rows up to some point. *)
Branch(p, q, n) ==
    /\ file[q] = <<>>
    /\ n \in 1 .. Len(file[p])
    /\ file' = [file EXCEPT ![q] = SubSeq(file[p], 1, n)]
    /\ UNCHANGED <<used, clock>>

(* A row that is half written, or an answer without usage metadata. *)
Damage(p, i) ==
    /\ i \in DOMAIN file[p]
    /\ ~file[p][i].damaged
    /\ file' = [file EXCEPT ![p][i].damaged = TRUE]
    /\ UNCHANGED <<used, clock>>

Next ==
    \E p \in Paths :
        \/ \E m \in Messages, step \in Steps, form \in Forms : Stream(p, m, step, form)
        \/ \E q \in Paths, n \in 1 .. MaxRows : Branch(p, q, n)
        \/ \E i \in 1 .. MaxRows : Damage(p, i)

Spec == Init /\ [][Next]_vars

-----------------------------------------------------------------------------
(* Properties *)

Used == SumFunctionOnSet([m \in Messages |-> Sum(used[m])], Messages)

(* A message that was streamed, branched and copied counts once, with its    *)
(* final counters, in whatever order the files are read; a total that is not *)
(* marked as partial is exact, and none is too large.                        *)
ClaudeExact ==
    \A order \in Orders :
        LET s == Scan(order) IN s.total <= Used /\ (s.partial \/ s.total = Used)

=============================================================================
