------------------------ MODULE CodexHistory_proofs ------------------------
(***************************************************************************)
(* Proofs about CodexScan, as MCPolling runs it: what a scan of the Codex  *)
(* history reports, for any number of files and threads, any responses,    *)
(* any number of rows, and whatever is copied, rotated, reset or damaged.  *)
(*                                                                         *)
(* The files alone do not tell what was used: a copy looks like an         *)
(* original, and a counter that starts again like one that goes on.  So    *)
(* the invariant speaks of a tree of moments, one for each response, that  *)
(* explains all the files at once: each file is a path in it, from its     *)
(* origin on.  What is observed of a file is at most what was used on the  *)
(* path to its last moment; from that a scan never reports too much.  A    *)
(* file that is not marked is read to the token, if it goes back to where  *)
(* its thread began; from that a total that is not partial is exact.  And  *)
(* one more copy only adds the beginning of a stream that is there.        *)
(***************************************************************************)
EXTENDS MCPolling, FiniteSums

-----------------------------------------------------------------------------
(* What the constants are: CodexAssumption, without its names.               *)
LEMMA HistoryIs ==
    /\ IsFiniteSet(HistoryFiles) /\ HistoryFiles \subseteq Nat
    /\ IsFiniteSet(Threads) /\ NoThread \notin Threads
    /\ Responses \subseteq {r \in [in : Nat, cached : Nat, out : Nat] : r.cached <= r.in}
    /\ CodexRecords \in Nat
<1>1. /\ Codex!IsFiniteSet(HistoryFiles) => IsFiniteSet(HistoryFiles)
      /\ Codex!IsFiniteSet(Threads) => IsFiniteSet(Threads)
    BY Zenon DEF Codex!IsFiniteSet, IsFiniteSet
<1> QED
    BY <1>1, HistoryAssumption DEF Codex!CodexAssumption

(* The sums of CodexScan are those of FiniteSums.                            *)
LEMMA HistorySum == \A f, S : Codex!SumFunctionOnSet(f, S) = SumFunctionOnSet(f, S)
BY Zenon DEF Codex!SumFunctionOnSet, Codex!FoldFunctionOnSet, Codex!MapThenFoldSet,
             SumFunctionOnSet, FoldFunctionOnSet, MapThenFoldSet

(* Counters as a client writes them, and as a scan takes them.               *)
Raw == {r \in [in : Nat, cached : Nat, out : Nat] : r.cached <= r.in}
Disjoint == [in : Nat, mixed : Nat, cached : Nat, out : Nat]

(* The two numbers of a counter that never go back but by a reset. *)
Pairs == Nat \X Nat
AmountOf(t) == <<Codex!Input(t), t.out>>
Size(a) == a[1] + a[2]
Add(a, b) == <<a[1] + b[1], a[2] + b[2]>>

(* _codex_tokens: the disjoint parts of a counter add up to what was read    *)
(* and written.                                                              *)
LEMMA PartsAre ==
    ASSUME NEW r \in Raw
    PROVE  /\ Codex!Tokens(r) \in Disjoint
           /\ AmountOf(Codex!Tokens(r)) = <<r.in, r.out>>
           /\ Codex!Total(Codex!Tokens(r)) = r.in + r.out
<1>1. PICK a \in Nat, b \in Nat, c \in Nat : r = [in |-> a, cached |-> b, out |-> c] /\ b <= a
    BY DEF Raw
<1>2. Codex!Tokens(r) = [in |-> a - b, mixed |-> 0, cached |-> b, out |-> c]
    BY <1>1 DEF Codex!Tokens
<1> QED
    BY <1>1, <1>2 DEF Disjoint, AmountOf, Codex!Input, Codex!Total

(* The two numbers of the disjoint parts, and their total.                   *)
LEMMA AmountIs ==
    ASSUME NEW t \in Disjoint
    PROVE  /\ AmountOf(t) \in Pairs /\ Size(AmountOf(t)) = Codex!Total(t) /\ Codex!Total(t) \in Nat
           /\ AmountOf(t)[1] = Codex!Input(t) /\ AmountOf(t)[2] = t.out
<1>1. PICK a \in Nat, m \in Nat, b \in Nat, c \in Nat : t = [in |-> a, mixed |-> m, cached |-> b, out |-> c]
    BY DEF Disjoint
<1> QED
    BY <1>1 DEF AmountOf, Pairs, Size, Codex!Input, Codex!Total

(* Counters and tokens that are added up. *)
LEMMA RawPlus ==
    ASSUME NEW r \in Raw, NEW s \in Raw
    PROVE  /\ Codex!Plus(r, s) \in Raw
           /\ Codex!Plus(r, s).in = r.in + s.in /\ Codex!Plus(r, s).out = r.out + s.out
<1>1. PICK a \in Nat, b \in Nat, c \in Nat : r = [in |-> a, cached |-> b, out |-> c] /\ b <= a
    BY DEF Raw
<1>2. PICK x \in Nat, y \in Nat, z \in Nat : s = [in |-> x, cached |-> y, out |-> z] /\ y <= x
    BY DEF Raw
<1>3. Codex!Plus(r, s) = [in |-> a + x, cached |-> b + y, out |-> c + z]
    BY <1>1, <1>2 DEF Codex!Plus
<1> QED
    BY <1>1, <1>2, <1>3 DEF Raw

(* Adding the parts adds both numbers.                                       *)
LEMMA TokensPlus ==
    ASSUME NEW s \in Disjoint, NEW t \in Disjoint
    PROVE  /\ Codex!Plus(s, t) \in Disjoint
           /\ AmountOf(Codex!Plus(s, t)) = Add(AmountOf(s), AmountOf(t))
           /\ Codex!Total(Codex!Plus(s, t)) = Codex!Total(s) + Codex!Total(t)
<1>1. PICK a \in Nat, m \in Nat, b \in Nat, c \in Nat : s = [in |-> a, mixed |-> m, cached |-> b, out |-> c]
    BY DEF Disjoint
<1>2. PICK x \in Nat, w \in Nat, y \in Nat, z \in Nat : t = [in |-> x, mixed |-> w, cached |-> y, out |-> z]
    BY DEF Disjoint
<1>3. Codex!Plus(s, t) = [in |-> a + x, mixed |-> m + w, cached |-> b + y, out |-> c + z]
    BY <1>1, <1>2 DEF Codex!Plus
<1> QED
    BY <1>1, <1>2, <1>3 DEF Disjoint, AmountOf, Add, Codex!Input, Codex!Total

(* What is counted between two counters that do not decrease is what they    *)
(* are apart.                                                                *)
LEMMA DeltaIs ==
    ASSUME NEW newer \in Disjoint, NEW old \in Disjoint, ~Codex!Decreased(newer, old)
    PROVE  /\ Codex!Delta(newer, old) \in Disjoint
           /\ Codex!Total(Codex!Delta(newer, old)) = Codex!Total(newer) - Codex!Total(old)
<1>1. PICK a \in Nat, m \in Nat, b \in Nat, c \in Nat : newer = [in |-> a, mixed |-> m, cached |-> b, out |-> c]
    BY DEF Disjoint
<1>2. PICK x \in Nat, w \in Nat, y \in Nat, z \in Nat : old = [in |-> x, mixed |-> w, cached |-> y, out |-> z]
    BY DEF Disjoint
<1>3. a + m + b >= x + w + y /\ c >= z
    BY <1>1, <1>2 DEF Codex!Decreased, Codex!Input
<1>4. CASE \A k \in {"in", "mixed", "cached"} : newer[k] >= old[k]
  <2>1. a >= x /\ m >= w /\ b >= y
      BY <1>1, <1>2, <1>4
  <2>2. Codex!Delta(newer, old) = [in |-> a - x, mixed |-> m - w, cached |-> b - y, out |-> c - z]
    <3>1. Codex!Delta(newer, old) = [k \in DOMAIN newer |-> newer[k] - old[k]]
        BY <1>4 DEF Codex!Delta
    <3> QED
        BY <1>1, <1>2, <3>1
  <2> QED
      BY <1>1, <1>2, <1>3, <2>1, <2>2 DEF Disjoint, Codex!Input, Codex!Total
<1>5. CASE ~(\A k \in {"in", "mixed", "cached"} : newer[k] >= old[k])
  <2>1. Codex!Delta(newer, old) = [in |-> 0, mixed |-> (a + m + b) - (x + w + y), cached |-> 0, out |-> c - z]
    <3>1. Codex!Delta(newer, old) = [in |-> 0, mixed |-> Codex!Input(newer) - Codex!Input(old), cached |-> 0, out |-> newer.out - old.out]
        BY <1>5 DEF Codex!Delta
    <3> QED
        BY <1>1, <1>2, <3>1 DEF Codex!Input
  <2> QED
      BY <1>1, <1>2, <1>3, <2>1 DEF Disjoint, Codex!Input, Codex!Total
<1> QED
    BY <1>4, <1>5

-----------------------------------------------------------------------------
(* The rows of a history file, and what is known after some of them.         *)
RowsOfCodex == [kind : {"meta", "total", "usage", "last", "damaged"}, thread : Threads,
                id : Nat, at : Nat, tokens : Raw]
EventIds == ({"id"} \X Nat) \union (Threads \X Nat \X Disjoint)
Observations == [id : EventIds, at : Nat, tokens : Disjoint, session : Threads]
Streams == [session : Threads, key : Threads \union {NoThread}, counted : BOOLEAN,
            prev : Disjoint, pre : Disjoint, obs : Seq(Observations), bad : Nat]

Cumulative == {"total", "usage"}

(* The identity of the event of a row, and the observation of it.            *)
EventOf(r) == IF r.id # Codex!NoId THEN <<"id", r.id>> ELSE <<r.thread, r.at, Codex!Tokens(r.tokens)>>
Seen(r, tokens) == [id |-> EventOf(r), at |-> r.at, tokens |-> tokens, session |-> r.thread]

(* One file: the session_meta line, then rows in the order of their moments; *)
(* a moment has at most two, a token_usage_record and a token_count.         *)
IsHistory(rows) ==
    /\ rows \in Seq(RowsOfCodex) /\ Len(rows) > 0 /\ rows[1].kind = "meta"
    /\ \A i \in 2 .. Len(rows) :
        /\ rows[i].kind # "meta" /\ rows[i].thread = rows[1].thread
        /\ rows[i].id # 0 => rows[i].id = rows[i].at
        /\ \A j \in 2 .. Len(rows) :
            i < j => \/ rows[i].at < rows[j].at
                     \/ rows[i].at = rows[j].at /\ rows[i].id # 0 /\ rows[j].id = 0

(* h is what is known after each of the first n rows.                        *)
IsReadTo(h, session, rows, n) ==
    h = [i \in 0 .. n |-> IF i = 0 THEN [Codex!NoStream EXCEPT !.session = session]
                          ELSE Codex!ReadRow(h[i - 1], rows[i])]

(* After is one function on 0 .. n,                                          *)
LEMMA AfterIsReadTo ==
    ASSUME NEW session, NEW rows, NEW n
    PROVE  Codex!After(session, rows, n) = (CHOOSE h : IsReadTo(h, session, rows, n))[n]
BY Zenon DEF Codex!After, IsReadTo

(* which exists, since each value is told by the one before.                 *)
LEMMA ReadToExists ==
    ASSUME NEW session, NEW rows, NEW n \in Nat
    PROVE  \E h : IsReadTo(h, session, rows, n)
<1> DEFINE Start == [Codex!NoStream EXCEPT !.session = session]
           B == {i \in 0 .. n : \E h : IsReadTo(h, session, rows, i)}
<1> HIDE DEF Start
<1>1. 0 \in B
  <2> DEFINE h == [i \in 0 .. 0 |-> Start]
             k == [i \in 0 .. 0 |-> IF i = 0 THEN Start ELSE Codex!ReadRow(h[i - 1], rows[i])]
  <2>1. h = k
      OBVIOUS
  <2>2. IsReadTo(h, session, rows, 0)
      BY <2>1 DEF IsReadTo, Start
  <2> QED
      BY <2>2
<1>2. ASSUME NEW i \in 1 .. n, i - 1 \in B
      PROVE  i \in B
  <2>1. PICK h : IsReadTo(h, session, rows, i - 1)
      BY <1>2
  <2> DEFINE Next1(g, j) == IF j = 0 THEN Start ELSE Codex!ReadRow(g[j - 1], rows[j])
             k == [j \in 0 .. i |-> Next1(h, j)]
             l == [j \in 0 .. i |-> Next1(k, j)]
  <2>2. ASSUME NEW j \in 0 .. i - 1
        PROVE  h[j] = k[j]
    <3>1. h = [x \in 0 .. i - 1 |-> Next1(h, x)]
        BY <2>1 DEF IsReadTo, Start
    <3> HIDE DEF Next1
    <3>2. h[j] = Next1(h, j)
        BY <3>1, Zenon
    <3>3. k[j] = Next1(h, j)
        OBVIOUS
    <3> QED
        BY <3>2, <3>3, Zenon
  <2>3. ASSUME NEW j \in 0 .. i
        PROVE  k[j] = l[j]
    <3>1. CASE j = 0
        BY <3>1
    <3>2. CASE j # 0
      <4>1. h[j - 1] = k[j - 1]
          BY <2>2, <3>2
      <4> HIDE DEF k
      <4>2. l[j] = Codex!ReadRow(k[j - 1], rows[j])
          BY <3>2
      <4>3. k[j] = Codex!ReadRow(h[j - 1], rows[j])
          BY <3>2 DEF k
      <4> QED
          BY Zenon, <4>1, <4>2, <4>3
    <3> QED
        BY <3>1, <3>2
  <2>4. k = l
    <3> HIDE DEF Next1
    <3> QED
        BY <2>3
  <2>5. IsReadTo(k, session, rows, i)
      BY <2>4 DEF IsReadTo, Start
  <2> QED
      BY <2>5
<1>3. n \in B
  <2> HIDE DEF B
  <2> QED
      BY <1>1, <1>2, UpTo
<1> QED
    BY <1>3

(* Two readings agree as far as the rows do.                                 *)
LEMMA ReadToSame ==
    ASSUME NEW session, NEW rows, NEW n \in Nat, NEW h, IsReadTo(h, session, rows, n),
           NEW m \in 0 .. n, NEW g, NEW other, IsReadTo(g, session, other, m),
           \A i \in 1 .. m : other[i] = rows[i]
    PROVE  \A i \in 0 .. m : g[i] = h[i]
<1> DEFINE Start == [Codex!NoStream EXCEPT !.session = session]
           NextH(j) == IF j = 0 THEN Start ELSE Codex!ReadRow(h[j - 1], rows[j])
           NextG(j) == IF j = 0 THEN Start ELSE Codex!ReadRow(g[j - 1], other[j])
<1>1. \A j \in 0 .. n : h[j] = NextH(j)
  <2>1. h = [j \in 0 .. n |-> NextH(j)]
      BY Zenon DEF IsReadTo
  <2> HIDE DEF NextH
  <2> QED
      BY Zenon, <2>1
<1>2. \A j \in 0 .. m : g[j] = NextG(j)
  <2>1. g = [j \in 0 .. m |-> NextG(j)]
      BY Zenon DEF IsReadTo
  <2> HIDE DEF NextG
  <2> QED
      BY Zenon, <2>1
<1> HIDE DEF Start
<1> DEFINE B == {i \in 0 .. m : g[i] = h[i]}
<1>3. 0 \in B
  <2>1. g[0] = Start /\ h[0] = Start
      BY <1>1, <1>2
  <2> QED
      BY <2>1
<1>4. ASSUME NEW i \in 1 .. m, i - 1 \in B
      PROVE  i \in B
  <2>1. g[i - 1] = h[i - 1] /\ other[i] = rows[i] /\ i \in 0 .. m /\ i \in 0 .. n /\ i # 0
      BY <1>4
  <2>2. g[i] = Codex!ReadRow(g[i - 1], other[i]) /\ h[i] = Codex!ReadRow(h[i - 1], rows[i])
      BY <1>1, <1>2, <2>1
  <2> QED
      BY <2>1, <2>2
<1> QED
  <2>1. m \in Nat
      OBVIOUS
  <2> HIDE DEF B
  <2>2. \A i \in 0 .. m : i \in B
      BY <1>3, <1>4, <2>1, UpTo
  <2> QED
      BY <2>2 DEF B

(* So After starts with the fresh stream, reads one row after the other, and *)
(* depends on the rows that were read only.                                  *)
LEMMA AfterIs ==
    ASSUME NEW session, NEW rows
    PROVE  /\ Codex!After(session, rows, 0) = [Codex!NoStream EXCEPT !.session = session]
           /\ \A n \in Nat \ {0} :
                Codex!After(session, rows, n) = Codex!ReadRow(Codex!After(session, rows, n - 1), rows[n])
           /\ \A n \in Nat : \A other : (\A i \in 1 .. n : other[i] = rows[i]) =>
                Codex!After(session, other, n) = Codex!After(session, rows, n)
<1>1. \A n \in Nat : \A s : \E h : IsReadTo(h, session, s, n) /\ Codex!After(session, s, n) = h[n]
    BY AfterIsReadTo, ReadToExists
<1>2. ASSUME NEW n \in Nat, NEW h, IsReadTo(h, session, rows, n)
      PROVE  /\ h[0] = [Codex!NoStream EXCEPT !.session = session]
             /\ n # 0 => h[n] = Codex!ReadRow(h[n - 1], rows[n])
  <2> DEFINE Start == [Codex!NoStream EXCEPT !.session = session]
             NextH(j) == IF j = 0 THEN Start ELSE Codex!ReadRow(h[j - 1], rows[j])
  <2>1. h = [j \in 0 .. n |-> NextH(j)]
      BY Zenon, <1>2 DEF IsReadTo
  <2> HIDE DEF NextH
  <2>2. h[0] = NextH(0) /\ h[n] = NextH(n)
      BY <2>1
  <2> QED
      BY <2>2 DEF NextH
<1>3. ASSUME NEW n \in Nat, NEW m \in 0 .. n, NEW h, IsReadTo(h, session, rows, n),
             NEW other, \A i \in 1 .. m : other[i] = rows[i]
      PROVE  Codex!After(session, other, m) = h[m]
  <2>1. PICK g : IsReadTo(g, session, other, m) /\ Codex!After(session, other, m) = g[m]
      BY <1>1
  <2>2. m \in 0 .. m
      OBVIOUS
  <2> QED
      BY <1>3, <2>1, <2>2, ReadToSame
<1>4. Codex!After(session, rows, 0) = [Codex!NoStream EXCEPT !.session = session]
    BY <1>1, <1>2
<1>5. ASSUME NEW n \in Nat \ {0}
      PROVE  Codex!After(session, rows, n) = Codex!ReadRow(Codex!After(session, rows, n - 1), rows[n])
  <2>1. PICK h : IsReadTo(h, session, rows, n) /\ Codex!After(session, rows, n) = h[n]
      BY <1>1
  <2>2. Codex!After(session, rows, n - 1) = h[n - 1]
      BY <1>3, <2>1
  <2> QED
      BY <1>2, <2>1, <2>2
<1>6. ASSUME NEW n \in Nat, NEW other, \A i \in 1 .. n : other[i] = rows[i]
      PROVE  Codex!After(session, other, n) = Codex!After(session, rows, n)
  <2>1. PICK h : IsReadTo(h, session, rows, n) /\ Codex!After(session, rows, n) = h[n]
      BY <1>1
  <2> QED
      BY <1>3, <1>6, <2>1
<1> QED
    BY <1>4, <1>5, <1>6

(* What a row adds to what is observed.                                      *)
Basis(st) == IF st.counted THEN st.prev ELSE st.pre
Increment(st, r) ==
    IF r.kind = "damaged" \/ (r.kind = "last" /\ st.counted) THEN Codex!NoTokens
    ELSE IF r.kind = "last" THEN Codex!Tokens(r.tokens)
    ELSE IF ~Codex!Decreased(Codex!Tokens(r.tokens), Basis(st))
         THEN Codex!Delta(Codex!Tokens(r.tokens), Basis(st))
    ELSE IF st.counted THEN Codex!Tokens(r.tokens) ELSE Codex!NoTokens
Worse(st, r) ==
    \/ r.kind = "damaged"
    \/ r.kind = "last" /\ st.counted
    \/ r.kind \in Cumulative /\ ~st.counted /\ Codex!Decreased(Codex!Tokens(r.tokens), st.pre)

(* The row as a step: an event that was not seen before is appended.         *)
IsRowRead(st, r, to) ==
    /\ to \in Streams /\ to.session = st.session /\ to.key \in {st.key, r.thread}
    /\ Increment(st, r) \in Disjoint
    /\ to.obs = IF Codex!Total(Increment(st, r)) = 0 THEN st.obs
                ELSE Append(st.obs, Seen(r, Increment(st, r)))
    /\ to.counted = (st.counted \/ r.kind \in Cumulative)
    /\ to.prev = IF r.kind \in Cumulative THEN Codex!Tokens(r.tokens) ELSE st.prev
    /\ to.pre = IF r.kind = "last" /\ ~st.counted /\ Codex!Total(Codex!Tokens(r.tokens)) # 0
                THEN Codex!Plus(st.pre, Codex!Tokens(r.tokens)) ELSE st.pre
    /\ to.bad = IF Worse(st, r) THEN st.bad + 1 ELSE st.bad

(* The identity of a row, and an observation of it, are of their kinds.      *)
LEMMA EventType ==
    ASSUME NEW r \in RowsOfCodex
    PROVE  /\ EventOf(r) \in EventIds /\ Codex!Tokens(r.tokens) \in Disjoint
           /\ \A tokens \in Disjoint : Seen(r, tokens) \in Observations
<1>1. r.id \in Nat /\ r.at \in Nat /\ r.thread \in Threads /\ r.tokens \in Raw
    BY DEF RowsOfCodex
<1>2. Codex!Tokens(r.tokens) \in Disjoint
    BY <1>1, PartsAre
<1>3. EventOf(r) \in EventIds
    BY <1>1, <1>2 DEF EventOf, EventIds
<1> QED
    BY <1>1, <1>2, <1>3 DEF Seen, Observations

(* scan_codex_usage: an event that was not seen before is appended, if it    *)
(* has tokens.                                                               *)
LEMMA ObserveIs ==
    ASSUME NEW st \in Streams, NEW r \in RowsOfCodex, NEW tokens \in Disjoint,
           st.session = r.thread,
           NEW identity, r.id = 0 => identity = Codex!Tokens(r.tokens),
           \A i \in DOMAIN st.obs : st.obs[i].id # EventOf(r)
    PROVE  Codex!Observe(st, r, tokens, identity) =
             IF Codex!Total(tokens) = 0 THEN st
             ELSE [st EXCEPT !.obs = Append(@, Seen(r, tokens))]
<1> DEFINE id == IF r.id # Codex!NoId THEN <<"id", r.id>> ELSE <<st.session, r.at, identity>>
           fresh == [id |-> id, at |-> r.at, tokens |-> tokens, session |-> st.session]
           same == {i \in DOMAIN st.obs : st.obs[i].id = id}
<1>1. id = EventOf(r)
    BY DEF EventOf, Codex!NoId
<1>2. same = {}
    BY <1>1
<1>3. fresh = Seen(r, tokens)
    BY <1>1 DEF Seen
<1>4. Codex!Observe(st, r, tokens, identity) =
        IF Codex!Total(tokens) = 0 THEN st
        ELSE IF same = {} THEN [st EXCEPT !.obs = Append(@, fresh)]
        ELSE LET i == CHOOSE j \in same : TRUE
                 old == st.obs[i]
             IN IF old.at = fresh.at /\ old.tokens = fresh.tokens THEN st
                ELSE [st EXCEPT !.bad = @ + 1,
                                !.obs[i] = IF Codex!Total(tokens) < Codex!Total(old.tokens) THEN fresh ELSE old]
    BY DEF Codex!Observe
<1> HIDE DEF same, fresh, id
<1> QED
    BY <1>2, <1>3, <1>4

(* The record that a row with a cumulative counter leaves.                   *)
LEMMA CountedIs ==
    ASSUME NEW st \in Streams, NEW tokens \in Disjoint, NEW bad \in Nat,
           NEW key \in Threads \union {NoThread}
    PROVE  [st EXCEPT !.prev = tokens, !.counted = TRUE, !.bad = bad, !.key = key] =
             [session |-> st.session, key |-> key, counted |-> TRUE, prev |-> tokens, pre |-> st.pre,
              obs |-> st.obs, bad |-> bad]
<1>1. PICK a : a = [st EXCEPT !.prev = tokens]
    OBVIOUS
<1>2. a \in Streams
    BY <1>1 DEF Streams
<1>3. PICK b : b = [a EXCEPT !.counted = TRUE]
    OBVIOUS
<1>4. b \in Streams
    BY <1>2, <1>3 DEF Streams
<1>5. PICK c : c = [b EXCEPT !.bad = bad]
    OBVIOUS
<1>6. c \in Streams
    BY <1>4, <1>5 DEF Streams
<1>7. [c EXCEPT !.key = key] =
        [session |-> c.session, key |-> key, counted |-> c.counted, prev |-> c.prev, pre |-> c.pre,
         obs |-> c.obs, bad |-> c.bad]
    BY <1>6 DEF Streams
<1>8. c.session = b.session /\ c.counted = b.counted /\ c.prev = b.prev /\ c.pre = b.pre /\ c.obs = b.obs /\ c.bad = bad
    BY <1>4, <1>5 DEF Streams
<1>9. b.session = a.session /\ b.counted = TRUE /\ b.prev = a.prev /\ b.pre = a.pre /\ b.obs = a.obs
    BY <1>2, <1>3 DEF Streams
<1>10. a.session = st.session /\ a.prev = tokens /\ a.pre = st.pre /\ a.obs = st.obs
    BY <1>1 DEF Streams
<1> QED
    BY Zenon, <1>1, <1>3, <1>5, <1>7, <1>8, <1>9, <1>10

(* scan_codex_usage, one record: it is such a step.                          *)
LEMMA ReadRowIs ==
    ASSUME NEW st \in Streams, NEW r \in RowsOfCodex, r.kind # "meta", st.session = r.thread,
           \A i \in DOMAIN st.obs : st.obs[i].id # EventOf(r)
    PROVE  IsRowRead(st, r, Codex!ReadRow(st, r))
<1> DEFINE tokens == Codex!Tokens(r.tokens)
           inc == Increment(st, r)
<1>1. tokens \in Disjoint /\ r.thread \in Threads /\ EventOf(r) \in EventIds
    BY EventType DEF RowsOfCodex
<1>2. Codex!NoTokens \in Disjoint /\ Codex!Total(Codex!NoTokens) = 0
    BY DEF Codex!NoTokens, Codex!Tokens, Codex!Zero, Disjoint, Codex!Total, Codex!Input
<1>3. st.prev \in Disjoint /\ st.pre \in Disjoint /\ Basis(st) \in Disjoint
    BY DEF Streams, Basis
<1>4. inc \in Disjoint
    BY <1>1, <1>2, <1>3, DeltaIs DEF Increment
<1>5. Seen(r, inc) \in Observations /\ Append(st.obs, Seen(r, inc)) \in Seq(Observations)
    BY <1>4, EventType DEF Streams
<1>6. Codex!Plus(st.pre, tokens) \in Disjoint
    BY <1>1, <1>3, TokensPlus
<1>7. st = [session |-> st.session, key |-> st.key, counted |-> st.counted, prev |-> st.prev,
            pre |-> st.pre, obs |-> st.obs, bad |-> st.bad]
      /\ st.bad \in Nat /\ st.counted \in BOOLEAN /\ st.obs \in Seq(Observations)
      /\ st.session \in Threads /\ st.key \in Threads \union {NoThread}
    BY DEF Streams
<1> HIDE DEF tokens, inc
<1>8. CASE r.kind = "damaged"
  <2>1. Codex!ReadRow(st, r) = [st EXCEPT !.bad = @ + 1]
      BY <1>8 DEF Codex!ReadRow
  <2>2. inc = Codex!NoTokens /\ Worse(st, r)
      BY <1>8 DEF inc, Increment, Worse
  <2> QED
      BY <1>2, <1>7, <1>8, <2>1, <2>2 DEF IsRowRead, Streams, inc, Cumulative
<1>9. CASE r.kind = "last"
  <2> DEFINE to == Codex!Observe(st, r, tokens, tokens)
  <2>1. Codex!ReadRow(st, r) = IF st.counted THEN [st EXCEPT !.bad = @ + 1]
                               ELSE IF Len(to.obs) = Len(st.obs) THEN to
                               ELSE [to EXCEPT !.pre = Codex!Plus(@, tokens)]
      BY <1>9 DEF Codex!ReadRow, Codex!ReadLast, tokens
  <2>2. to = IF Codex!Total(tokens) = 0 THEN st ELSE [st EXCEPT !.obs = Append(@, Seen(r, tokens))]
      BY <1>1, ObserveIs DEF tokens
  <2>3. CASE st.counted
    <3>1. inc = Codex!NoTokens /\ Worse(st, r)
        BY <1>9, <2>3 DEF inc, Increment, Worse
    <3> QED
        BY <1>2, <1>7, <1>9, <2>1, <2>3, <3>1 DEF IsRowRead, Streams, inc, Cumulative
  <2>4. CASE ~st.counted
    <3>1. inc = tokens /\ ~Worse(st, r)
        BY <1>9, <2>4 DEF inc, Increment, Worse, tokens, Cumulative
    <3>2. CASE Codex!Total(tokens) = 0
      <4>1. Codex!ReadRow(st, r) = st
          BY <2>1, <2>2, <2>4, <3>2
      <4> QED
          BY <1>1, <1>7, <1>9, <2>4, <3>1, <3>2, <4>1 DEF IsRowRead, inc, tokens, Cumulative
    <3>3. CASE Codex!Total(tokens) # 0
      <4>1. to = [st EXCEPT !.obs = Append(@, Seen(r, tokens))]
          BY <2>2, <3>3
      <4> HIDE DEF to
      <4>2. to.obs = Append(st.obs, Seen(r, tokens)) /\ Len(to.obs) # Len(st.obs)
          BY <1>5, <1>7, <3>1, <4>1
      <4>3. Codex!ReadRow(st, r) = [to EXCEPT !.pre = Codex!Plus(@, tokens)]
          BY <2>1, <2>4, <4>2
      <4>4. Codex!ReadRow(st, r) = [st EXCEPT !.obs = Append(@, Seen(r, tokens)), !.pre = Codex!Plus(@, tokens)]
          BY <1>7, <4>1, <4>3
      <4>5. PICK res : /\ res = Codex!ReadRow(st, r)
                       /\ res = [session |-> st.session, key |-> st.key, counted |-> st.counted, prev |-> st.prev,
                                 pre |-> Codex!Plus(st.pre, tokens),
                                 obs |-> Append(st.obs, Seen(r, tokens)), bad |-> st.bad]
        <5>1. Codex!ReadRow(st, r) =
                [session |-> st.session, key |-> st.key, counted |-> st.counted, prev |-> st.prev,
                 pre |-> Codex!Plus(st.pre, tokens), obs |-> Append(st.obs, Seen(r, tokens)),
                 bad |-> st.bad]
            BY <1>7, <4>4
        <5> QED
            BY <5>1
      <4>6. res \in Streams
          BY <1>3, <1>5, <1>6, <1>7, <3>1, <4>5 DEF Streams
      <4>7. /\ res.session = st.session /\ res.key = st.key /\ res.counted = st.counted /\ res.prev = st.prev
            /\ res.pre = Codex!Plus(st.pre, tokens) /\ res.bad = st.bad
            /\ res.obs = Append(st.obs, Seen(r, tokens))
          BY <4>5
      <4>8. r.kind \notin Cumulative
          BY <1>9 DEF Cumulative
      <4>9. IsRowRead(st, r, res)
          BY <1>4, <1>7, <1>9, <2>4, <3>1, <3>3, <4>6, <4>7, <4>8 DEF IsRowRead, inc, tokens
      <4> QED
          BY <4>5, <4>9
    <3> QED
        BY <3>2, <3>3
  <2> QED
      BY <2>3, <2>4
<1>10. CASE r.kind \in Cumulative
  <2> DEFINE lost == Codex!Decreased(tokens, Basis(st)) /\ ~st.counted
             bad == IF lost THEN st.bad + 1 ELSE st.bad
             key == IF r.kind = "usage" /\ st.key = NoThread THEN r.thread ELSE st.key
             to == [session |-> st.session, key |-> key, counted |-> TRUE, prev |-> tokens,
                    pre |-> st.pre, obs |-> st.obs, bad |-> bad]
  <2>1. inc = IF ~Codex!Decreased(tokens, Basis(st)) THEN Codex!Delta(tokens, Basis(st))
              ELSE IF st.counted THEN tokens ELSE Codex!NoTokens
      BY <1>10 DEF inc, Increment, tokens, Cumulative
  <2>3. bad \in Nat /\ key \in Threads \union {NoThread} /\ key \in {st.key, r.thread}
      BY <1>1, <1>7
  <2>2. Codex!ReadRow(st, r) = Codex!Observe(to, r, inc, tokens)
    <3>1. to = [st EXCEPT !.prev = tokens, !.counted = TRUE, !.bad = IF lost THEN @ + 1 ELSE @,
                          !.key = IF r.kind = "usage" /\ @ = NoThread THEN r.thread ELSE @]
      <4>1. [st EXCEPT !.prev = tokens, !.counted = TRUE, !.bad = IF lost THEN @ + 1 ELSE @,
                       !.key = IF r.kind = "usage" /\ @ = NoThread THEN r.thread ELSE @]
            = [st EXCEPT !.prev = tokens, !.counted = TRUE, !.bad = bad, !.key = key]
          OBVIOUS
      <4> HIDE DEF bad, key
      <4>2. to = [st EXCEPT !.prev = tokens, !.counted = TRUE, !.bad = bad, !.key = key]
        <5>1. bad \in Nat /\ key \in Threads \union {NoThread} /\ tokens \in Disjoint
            BY <1>1, <2>3
        <5> HIDE DEF to
        <5>2. [st EXCEPT !.prev = tokens, !.counted = TRUE, !.bad = bad, !.key = key] =
                [session |-> st.session, key |-> key, counted |-> TRUE, prev |-> tokens, pre |-> st.pre,
                 obs |-> st.obs, bad |-> bad]
            BY <5>1, CountedIs, Zenon
        <5> QED
            BY <5>2, Zenon DEF to
      <4> QED
          BY Zenon, <4>1, <4>2
    <3>2. Codex!ReadRow(st, r) = Codex!ReadCumulative(st, r)
        BY <1>10 DEF Codex!ReadRow, Cumulative
    <3> HIDE DEF to
    <3>3. Codex!ReadCumulative(st, r) = Codex!Observe(to, r, inc, tokens)
        BY <2>1, <3>1 DEF Codex!ReadCumulative, Basis, tokens
    <3> QED
        BY <3>2, <3>3
  <2>4. to \in Streams
      BY <1>1, <1>3, <1>7, <2>3 DEF Streams
  <2>5. to.session = r.thread /\ to.obs = st.obs
      OBVIOUS
  <2>6. Codex!Observe(to, r, inc, tokens) =
          IF Codex!Total(inc) = 0 THEN to ELSE [to EXCEPT !.obs = Append(@, Seen(r, inc))]
    <3> HIDE DEF to
    <3> QED
        BY SMTT(30), <1>4, <2>4, <2>5, ObserveIs DEF inc, tokens
  <2>7. bad = IF Worse(st, r) THEN st.bad + 1 ELSE st.bad
      BY <1>10 DEF Worse, Basis, tokens, Cumulative
  <2> HIDE DEF bad, key
  <2>8. Codex!ReadRow(st, r) =
          [session |-> st.session, key |-> key, counted |-> TRUE, prev |-> tokens, pre |-> st.pre,
           obs |-> IF Codex!Total(inc) = 0 THEN st.obs ELSE Append(st.obs, Seen(r, inc)),
           bad |-> bad]
      BY <2>2, <2>6
  <2>9. r.kind # "last"
      BY <1>10 DEF Cumulative
  <2>10. PICK res : /\ res = Codex!ReadRow(st, r)
                    /\ res = [session |-> st.session, key |-> key, counted |-> TRUE, prev |-> tokens, pre |-> st.pre,
                              obs |-> IF Codex!Total(inc) = 0 THEN st.obs ELSE Append(st.obs, Seen(r, inc)), bad |-> bad]
      BY <2>8
  <2>11. res \in Streams
      BY <1>1, <1>3, <1>5, <1>7, <2>3, <2>10 DEF Streams
  <2>12. /\ res.session = st.session /\ res.key = key /\ res.counted = TRUE /\ res.prev = tokens
         /\ res.pre = st.pre /\ res.bad = bad
         /\ res.obs = IF Codex!Total(inc) = 0 THEN st.obs ELSE Append(st.obs, Seen(r, inc))
      BY <2>10
  <2>13. IsRowRead(st, r, res)
      BY <1>4, <1>10, <2>3, <2>7, <2>9, <2>11, <2>12 DEF IsRowRead, inc, tokens
  <2> QED
      BY <2>10, <2>13
<1> QED
    BY <1>8, <1>9, <1>10 DEF RowsOfCodex, Cumulative

-----------------------------------------------------------------------------
(* What is known of a file after its first n rows: each observation is that  *)
(* of a row of its own.                                                      *)
Unread(thread) == [session |-> thread, key |-> NoThread, counted |-> FALSE, prev |-> Codex!NoTokens,
                  pre |-> Codex!NoTokens, obs |-> <<>>, bad |-> 0]
IsOfRow(o, r) == o = Seen(r, o.tokens) /\ Codex!Total(o.tokens) > 0
IsStreamOf(rows, n, st) ==
    /\ st \in Streams /\ st.session = rows[1].thread /\ st.key \in {NoThread, st.session}
    /\ \A j \in DOMAIN st.obs : \E i \in 2 .. n : IsOfRow(st.obs[j], rows[i])
    /\ \A j, k \in DOMAIN st.obs : st.obs[j].id = st.obs[k].id => j = k

(* No two rows of a file are the same event.                                 *)
LEMMA EventsDiffer ==
    ASSUME NEW rows, IsHistory(rows), NEW i \in 2 .. Len(rows), NEW j \in 2 .. Len(rows), i < j
    PROVE  EventOf(rows[i]) # EventOf(rows[j])
<1>1. /\ rows[i].id # 0 => rows[i].id = rows[i].at
      /\ rows[j].id # 0 => rows[j].id = rows[j].at
      /\ \/ rows[i].at < rows[j].at
         \/ rows[i].at = rows[j].at /\ rows[i].id # 0 /\ rows[j].id = 0
    BY DEF IsHistory
<1>2. rows[i] \in RowsOfCodex /\ rows[j] \in RowsOfCodex
  <2>1. i \in 1 .. Len(rows) /\ j \in 1 .. Len(rows) /\ rows \in Seq(RowsOfCodex)
      BY DEF IsHistory
  <2> QED
      BY <2>1
<1>3. rows[i].at \in Nat /\ rows[j].at \in Nat
    BY <1>2 DEF RowsOfCodex
<1>4. CASE rows[i].id # 0 /\ rows[j].id # 0
    BY <1>1, <1>3, <1>4 DEF EventOf, Codex!NoId
<1>5. CASE rows[i].id = 0 /\ rows[j].id = 0
    BY <1>1, <1>3, <1>5 DEF EventOf, Codex!NoId
<1>6. CASE (rows[i].id = 0) # (rows[j].id = 0)
  <2>1. \A a, b, x, y, z : <<a, b>> # <<x, y, z>>
    <3> SUFFICES ASSUME NEW a, NEW b, NEW x, NEW y, NEW z
                 PROVE  <<a, b>> # <<x, y, z>>
        OBVIOUS
    <3>1. Len(<<a, b>>) = 2 /\ Len(<<x, y, z>>) = 3
        OBVIOUS
    <3> QED
        BY <3>1
  <2> QED
      BY <1>6, <2>1 DEF EventOf, Codex!NoId
<1> QED
    BY <1>4, <1>5, <1>6

(* The session_meta line names the thread, wherever the scan came from.      *)
LEMMA FirstRow ==
    ASSUME NEW rows, IsHistory(rows), NEW session
    PROVE  /\ Codex!After(session, rows, 1) = Unread(rows[1].thread)
           /\ IsStreamOf(rows, 1, Unread(rows[1].thread))
<1>1. Codex!After(session, rows, 1) = Codex!ReadRow([Codex!NoStream EXCEPT !.session = session], rows[1])
  <2>1. 1 \in Nat \ {0} /\ 1 - 1 = 0
      OBVIOUS
  <2>2. Codex!After(session, rows, 1) = Codex!ReadRow(Codex!After(session, rows, 1 - 1), rows[1])
      BY <2>1, AfterIs
  <2>3. Codex!After(session, rows, 0) = [Codex!NoStream EXCEPT !.session = session]
      BY AfterIs
  <2> QED
      BY <2>1, <2>2, <2>3
<1>2. rows[1] \in RowsOfCodex /\ rows[1].kind = "meta"
    BY DEF IsHistory
<1>3. Codex!ReadRow([Codex!NoStream EXCEPT !.session = session], rows[1])
        = [[Codex!NoStream EXCEPT !.session = session] EXCEPT !.session = rows[1].thread]
    BY <1>2 DEF Codex!ReadRow
<1>4. [[Codex!NoStream EXCEPT !.session = session] EXCEPT !.session = rows[1].thread] = Unread(rows[1].thread)
  <2>1. PICK a : a = [Codex!NoStream EXCEPT !.session = session]
      OBVIOUS
  <2>2. a = [session |-> session, key |-> NoThread, counted |-> FALSE, prev |-> Codex!NoTokens,
             pre |-> Codex!NoTokens, obs |-> <<>>, bad |-> 0]
      BY <2>1 DEF Codex!NoStream
  <2>3. [a EXCEPT !.session = rows[1].thread] = Unread(rows[1].thread)
    <3>1. a \in [session : {session}, key : {NoThread}, counted : BOOLEAN, prev : {Codex!NoTokens},
                 pre : {Codex!NoTokens}, obs : {<<>>}, bad : {0}] /\ a.counted = FALSE
        BY <2>2
    <3>2. [a EXCEPT !.session = rows[1].thread]
            = [session |-> rows[1].thread, key |-> a.key, counted |-> a.counted, prev |-> a.prev,
               pre |-> a.pre, obs |-> a.obs, bad |-> a.bad]
        BY <3>1
    <3>3. a.key = NoThread /\ a.prev = Codex!NoTokens /\ a.pre = Codex!NoTokens /\ a.obs = <<>> /\ a.bad = 0
        BY <2>2
    <3> QED
        BY Zenon, <3>1, <3>2, <3>3 DEF Unread
  <2> QED
      BY Zenon, <2>1, <2>3
<1>5. Codex!NoTokens \in Disjoint
    BY DEF Codex!NoTokens, Codex!Tokens, Codex!Zero, Disjoint
<1>6. rows[1].thread \in Threads
    BY <1>2 DEF RowsOfCodex
<1>7. Unread(rows[1].thread) \in Streams
    BY <1>5, <1>6 DEF Unread, Streams
<1>8. IsStreamOf(rows, 1, Unread(rows[1].thread))
  <2>1. /\ Unread(rows[1].thread).session = rows[1].thread /\ Unread(rows[1].thread).key = NoThread
        /\ Unread(rows[1].thread).obs = <<>>
      BY DEF Unread
  <2>2. DOMAIN Unread(rows[1].thread).obs = {}
      BY <2>1
  <2> QED
      BY <1>7, <2>1, <2>2 DEF IsStreamOf
<1> QED
    BY Zenon, <1>1, <1>3, <1>4, <1>8

(* One more row: its observation, if any, is the last one.                   *)
LEMMA NextRow ==
    ASSUME NEW rows, IsHistory(rows), NEW n \in 2 .. Len(rows), NEW st,
           IsStreamOf(rows, n - 1, st)
    PROVE  IsRowRead(st, rows[n], Codex!ReadRow(st, rows[n])) /\ IsStreamOf(rows, n, Codex!ReadRow(st, rows[n]))
<1> DEFINE r == rows[n]
           to == Codex!ReadRow(st, r)
           inc == Increment(st, r)
<1>1. /\ r \in RowsOfCodex /\ r.kind # "meta" /\ r.thread = rows[1].thread
  <2>1. n \in 1 .. Len(rows) /\ rows \in Seq(RowsOfCodex)
      BY DEF IsHistory
  <2> QED
      BY <2>1 DEF IsHistory
<1>2. st \in Streams /\ st.session = r.thread
    BY <1>1 DEF IsStreamOf
<1>3. \A j \in DOMAIN st.obs : st.obs[j].id # EventOf(r)
  <2> TAKE j \in DOMAIN st.obs
  <2>1. PICK i \in 2 .. n - 1 : IsOfRow(st.obs[j], rows[i])
      BY DEF IsStreamOf
  <2>2. st.obs[j].id = EventOf(rows[i])
      BY <2>1 DEF IsOfRow, Seen
  <2>3. i \in 2 .. Len(rows) /\ i < n
      OBVIOUS
  <2> QED
      BY <2>2, <2>3, EventsDiffer
<1>4. IsRowRead(st, r, to)
    BY <1>1, <1>2, <1>3, ReadRowIs
<1> HIDE DEF to, r, inc
<1>5. to \in Streams /\ to.session = rows[1].thread /\ to.key \in {NoThread, to.session}
    BY <1>1, <1>2, <1>4 DEF IsRowRead, IsStreamOf
<1>6. inc \in Disjoint /\ Codex!Total(inc) \in Nat
    BY <1>4, AmountIs DEF IsRowRead, inc
<1>7. CASE Codex!Total(inc) = 0
  <2>1. to.obs = st.obs
      BY <1>4, <1>7 DEF IsRowRead, inc
  <2>2. 2 .. n - 1 \subseteq 2 .. n
      OBVIOUS
  <2> QED
      BY <1>4, <1>5, <2>1, <2>2 DEF IsStreamOf, to, r
<1>8. CASE Codex!Total(inc) # 0
  <2>1. to.obs = Append(st.obs, Seen(r, inc)) /\ st.obs \in Seq(Observations)
      BY <1>2, <1>4, <1>8 DEF IsRowRead, inc, Streams
  <2> DEFINE o == Seen(r, inc)
             k == Len(st.obs)
  <2>2. /\ k \in Nat /\ DOMAIN st.obs = 1 .. k /\ DOMAIN to.obs = 1 .. k + 1
        /\ to.obs[k + 1] = o /\ \A j \in 1 .. k : to.obs[j] = st.obs[j]
      BY <2>1
  <2>3. o.tokens = inc /\ o.id = EventOf(r)
      BY DEF Seen
  <2>4. IsOfRow(o, r)
      BY <1>6, <1>8, <2>3 DEF IsOfRow
  <2> HIDE DEF o, k
  <2>5. \A j \in DOMAIN to.obs : \E i \in 2 .. n : IsOfRow(to.obs[j], rows[i])
    <3> TAKE j \in DOMAIN to.obs
    <3>1. CASE j = k + 1
        BY <2>2, <2>4, <3>1 DEF r
    <3>2. CASE j \in 1 .. k
      <4>1. PICK i \in 2 .. n - 1 : IsOfRow(st.obs[j], rows[i])
          BY <2>2, <3>2 DEF IsStreamOf
      <4> QED
          BY <2>2, <3>2, <4>1
    <3> QED
        BY <2>2, <3>1, <3>2
  <2>6. \A j, l \in DOMAIN to.obs : to.obs[j].id = to.obs[l].id => j = l
    <3>1. \A j, l \in 1 .. k : st.obs[j].id = st.obs[l].id => j = l
        BY <2>2 DEF IsStreamOf
    <3> QED
        BY SMTT(30), <1>3, <2>2, <2>3, <3>1
  <2> QED
      BY <1>4, <1>5, <2>5, <2>6 DEF IsStreamOf, to, r
<1> QED
    BY <1>7, <1>8

(* So each file is read to a stream of its own rows, in their order.         *)
LEMMA AllRows ==
    ASSUME NEW rows, IsHistory(rows), NEW session, NEW n \in 1 .. Len(rows)
    PROVE  /\ IsStreamOf(rows, n, Codex!After(session, rows, n))
           /\ Codex!After(session, rows, n) = Codex!After(NoThread, rows, n)
<1> DEFINE B == {i \in 0 .. Len(rows) :
                    i = 0 \/ /\ IsStreamOf(rows, i, Codex!After(session, rows, i))
                             /\ Codex!After(session, rows, i) = Codex!After(NoThread, rows, i)}
<1>1. 0 \in B /\ Len(rows) \in Nat
    BY DEF IsHistory
<1>2. ASSUME NEW i \in 1 .. Len(rows), i - 1 \in B
      PROVE  i \in B
  <2>1. CASE i = 1
    <3>1. /\ Codex!After(session, rows, 1) = Unread(rows[1].thread)
          /\ Codex!After(NoThread, rows, 1) = Unread(rows[1].thread)
          /\ IsStreamOf(rows, 1, Unread(rows[1].thread))
        BY FirstRow
    <3> QED
        BY <2>1, <3>1
  <2>2. CASE i # 1
    <3>1. /\ IsStreamOf(rows, i - 1, Codex!After(session, rows, i - 1))
          /\ Codex!After(session, rows, i - 1) = Codex!After(NoThread, rows, i - 1)
        BY <1>2, <2>2
    <3>2. i \in 2 .. Len(rows) /\ i \in Nat \ {0}
        BY <2>2
    <3>3. /\ Codex!After(session, rows, i) = Codex!ReadRow(Codex!After(session, rows, i - 1), rows[i])
          /\ Codex!After(NoThread, rows, i) = Codex!ReadRow(Codex!After(NoThread, rows, i - 1), rows[i])
        BY ZenonT(60), <3>2, AfterIs
    <3>4. IsStreamOf(rows, i, Codex!ReadRow(Codex!After(session, rows, i - 1), rows[i]))
        BY <3>1, <3>2, NextRow
    <3>5. i \in 0 .. Len(rows)
        BY <3>2
    <3> QED
        BY <3>1, <3>3, <3>4, <3>5
  <2> QED
      BY <2>1, <2>2
<1>3. n \in B
  <2> HIDE DEF B
  <2>1. \A i \in 0 .. Len(rows) : i \in B
      BY <1>1, <1>2, UpTo
  <2> QED
      BY <2>1
<1> QED
    BY <1>3

(* What a scanner that starts anywhere makes of the first n rows.            *)
Scanned(rows, n) == Codex!After(NoThread, rows, n)

(* The readings of a file, one after the other.                              *)
LEMMA ReadingIs ==
    ASSUME NEW rows, IsHistory(rows)
    PROVE  /\ Scanned(rows, 1) = Unread(rows[1].thread)
           /\ \A n \in 1 .. Len(rows) : IsStreamOf(rows, n, Scanned(rows, n))
           /\ \A n \in 2 .. Len(rows) : IsRowRead(Scanned(rows, n - 1), rows[n], Scanned(rows, n))
<1>1. Scanned(rows, 1) = Unread(rows[1].thread)
    BY FirstRow DEF Scanned
<1>2. \A n \in 1 .. Len(rows) : IsStreamOf(rows, n, Scanned(rows, n))
    BY AllRows DEF Scanned
<1>3. ASSUME NEW n \in 2 .. Len(rows)
      PROVE  IsRowRead(Scanned(rows, n - 1), rows[n], Scanned(rows, n))
  <2>1. n - 1 \in 1 .. Len(rows) /\ n \in Nat \ {0}
      BY DEF IsHistory
  <2>2. Scanned(rows, n) = Codex!ReadRow(Scanned(rows, n - 1), rows[n])
      BY <2>1, AfterIs DEF Scanned
  <2>3. IsStreamOf(rows, n - 1, Scanned(rows, n - 1))
      BY <1>2, <2>1
  <2> QED
      BY <2>2, <2>3, NextRow
<1> QED
    BY <1>1, <1>2, <1>3

(* The same rows are read the same.                                          *)
LEMMA ReadingSame ==
    ASSUME NEW rows, NEW other, NEW n \in Nat, \A i \in 1 .. n : other[i] = rows[i]
    PROVE  Scanned(other, n) = Scanned(rows, n)
BY AfterIs DEF Scanned

-----------------------------------------------------------------------------
(* The tokens of a stream. *)
LEMMA SumOfIs ==
    ASSUME NEW obs \in Seq(Observations)
    PROVE  /\ IsFiniteSet(DOMAIN obs)
           /\ \A i \in DOMAIN obs : Codex!Total(obs[i].tokens) \in Nat
           /\ Codex!SumOf(obs) = SumFunctionOnSet([i \in DOMAIN obs |-> Codex!Total(obs[i].tokens)], DOMAIN obs)
           /\ Codex!SumOf(obs) \in Nat
<1> DEFINE f == [i \in DOMAIN obs |-> Codex!Total(obs[i].tokens)]
<1>1. IsFiniteSet(DOMAIN obs)
    BY FS_Interval
<1>2. \A i \in DOMAIN obs : Codex!Total(obs[i].tokens) \in Nat
  <2>1. \A o \in Observations : o.tokens \in Disjoint
      BY DEF Observations
  <2>2. \A i \in DOMAIN obs : obs[i] \in Observations
      OBVIOUS
  <2> QED
      BY <2>1, <2>2, AmountIs
<1>3. Codex!SumOf(obs) = SumFunctionOnSet(f, DOMAIN obs)
    BY HistorySum DEF Codex!SumOf
<1>4. \A i \in DOMAIN obs : f[i] \in Nat
    BY <1>2
<1> HIDE DEF f
<1>5. SumFunctionOnSet(f, DOMAIN obs) \in Nat
    BY <1>1, <1>4, SumNat
<1> QED
    BY <1>1, <1>2, <1>3, <1>5 DEF f

(* No observation, no tokens.                                                *)
LEMMA SumOfNothing == Codex!SumOf(<<>>) = 0
<1>1. <<>> \in Seq(Observations) /\ DOMAIN <<>> = {}
    OBVIOUS
<1> QED
    BY <1>1, SumOfIs, SumEmpty

(* One more observation adds its tokens.                                     *)
LEMMA SumOfAppend ==
    ASSUME NEW obs \in Seq(Observations), NEW o \in Observations
    PROVE  Codex!SumOf(Append(obs, o)) = Codex!SumOf(obs) + Codex!Total(o.tokens)
<1> DEFINE to == Append(obs, o)
           f == [i \in DOMAIN obs |-> Codex!Total(obs[i].tokens)]
           g == [i \in DOMAIN to |-> Codex!Total(to[i].tokens)]
           k == Len(obs)
<1>1. /\ k \in Nat /\ DOMAIN obs = 1 .. k /\ DOMAIN to = (1 .. k) \union {k + 1} /\ k + 1 \notin 1 .. k
      /\ to[k + 1] = o /\ \A i \in 1 .. k : to[i] = obs[i]
      /\ to \in Seq(Observations)
    OBVIOUS
<1>2. /\ Codex!SumOf(obs) = SumFunctionOnSet(f, 1 .. k) /\ Codex!SumOf(to) = SumFunctionOnSet(g, DOMAIN to)
      /\ IsFiniteSet(1 .. k)
    BY <1>1, SumOfIs
<1>3. /\ \A i \in 1 .. k : f[i] = g[i] /\ f[i] \in Int
      /\ g[k + 1] = Codex!Total(o.tokens)
      /\ \A i \in DOMAIN to : g[i] \in Int
  <2>1. \A i \in DOMAIN to : Codex!Total(to[i].tokens) \in Nat
      BY <1>1, SumOfIs
  <2> HIDE DEF to, k
  <2> QED
      BY <1>1, <2>1
<1> HIDE DEF f, g, to, k
<1>4. SumFunctionOnSet(g, (1 .. k) \union {k + 1}) = SumFunctionOnSet(g, 1 .. k) + g[k + 1]
    BY <1>1, <1>2, <1>3, SumAdd
<1>5. SumFunctionOnSet(f, 1 .. k) = SumFunctionOnSet(g, 1 .. k)
    BY <1>2, <1>3, SumEqual
<1> QED
    BY <1>1, <1>2, <1>3, <1>4, <1>5 DEF to

-----------------------------------------------------------------------------
(* What a scan makes of the streams of the files: an event belongs to one    *)
(* thread, and appears once in a stream.                                     *)
FileStreams == [path : Int, obs : Seq(Observations), bad : Nat, key : Threads, terminal : Disjoint]
AreStreams(X) ==
    /\ IsFiniteSet(X) /\ X \subseteq FileStreams
    /\ \A s, t \in X : s.path = t.path => s = t
    /\ \A s \in X : \A i, j \in DOMAIN s.obs : s.obs[i].id = s.obs[j].id => i = j
    /\ \A s, t \in X : \A i \in DOMAIN s.obs : \A j \in DOMAIN t.obs :
            s.obs[i].id = t.obs[j].id => s.key = t.key

(* A finite set has a largest element.                                       *)
LEMMA Largest ==
    ASSUME NEW S, IsFiniteSet(S), S # {}, NEW f, \A x \in S : f[x] \in Int
    PROVE  \E x \in S : \A y \in S : f[y] <= f[x]
<1> DEFINE image == {f[x] : x \in S}
<1>1. IsFiniteSet(image)
    BY ImageFinite
<1>2. image \subseteq Int /\ image # {}
    OBVIOUS
<1>3. PICK m \in image : \A y \in image : m >= y
  <2> HIDE DEF image
  <2> QED
      BY <1>1, <1>2, MaxExists
<1> QED
    BY <1>3

(* The key by which the streams of a thread are compared: tokens, the last   *)
(* counter, how many events, and the path.                                   *)
LEMMA ScoreIs ==
    ASSUME NEW s \in FileStreams
    PROVE  /\ DOMAIN Codex!Score(s) = 1 .. 4
           /\ Codex!Score(s)[1] = Codex!SumOf(s.obs) /\ Codex!Score(s)[2] = Codex!Total(s.terminal)
           /\ Codex!Score(s)[3] = Len(s.obs) /\ Codex!Score(s)[4] = s.path
           /\ \A i \in 1 .. 4 : Codex!Score(s)[i] \in Int
<1>1. Codex!SumOf(s.obs) \in Nat /\ Codex!Total(s.terminal) \in Nat /\ Len(s.obs) \in Nat /\ s.path \in Int
  <2>1. s.obs \in Seq(Observations) /\ s.terminal \in Disjoint /\ s.path \in Int
      BY DEF FileStreams
  <2>2. Codex!SumOf(s.obs) \in Nat
      BY <2>1, SumOfIs
  <2>3. Codex!Total(s.terminal) \in Nat
      BY <2>1, AmountIs
  <2> QED
      BY <2>1, <2>2, <2>3
<1> QED
    BY <1>1 DEF Codex!Score

(* They are compared as tuples: by the first part that differs.              *)
LEMMA LessIs ==
    ASSUME NEW s \in FileStreams, NEW t \in FileStreams
    PROVE  Codex!Less(Codex!Score(s), Codex!Score(t)) <=>
             \/ Codex!Score(s)[1] < Codex!Score(t)[1]
             \/ Codex!Score(s)[1] = Codex!Score(t)[1] /\ Codex!Score(s)[2] < Codex!Score(t)[2]
             \/ /\ Codex!Score(s)[1] = Codex!Score(t)[1] /\ Codex!Score(s)[2] = Codex!Score(t)[2]
                /\ Codex!Score(s)[3] < Codex!Score(t)[3]
             \/ /\ Codex!Score(s)[1] = Codex!Score(t)[1] /\ Codex!Score(s)[2] = Codex!Score(t)[2]
                /\ Codex!Score(s)[3] = Codex!Score(t)[3] /\ Codex!Score(s)[4] < Codex!Score(t)[4]
<1>1. /\ DOMAIN Codex!Score(s) = 1 .. 4
      /\ 1 .. 1 - 1 = {} /\ 1 .. 2 - 1 = {1} /\ 1 .. 3 - 1 = {1, 2} /\ 1 .. 4 - 1 = {1, 2, 3}
      /\ 1 .. 4 = {1, 2, 3, 4}
    BY ScoreIs
<1> DEFINE a == Codex!Score(s)
           b == Codex!Score(t)
<1>2. Codex!Less(a, b) <=> \E i \in 1 .. 4 : a[i] < b[i] /\ \A j \in 1 .. i - 1 : a[j] = b[j]
    BY <1>1 DEF Codex!Less
<1> HIDE DEF a, b
<1>3. (\E i \in 1 .. 4 : a[i] < b[i] /\ \A j \in 1 .. i - 1 : a[j] = b[j]) <=>
        \/ a[1] < b[1]
        \/ a[1] = b[1] /\ a[2] < b[2]
        \/ a[1] = b[1] /\ a[2] = b[2] /\ a[3] < b[3]
        \/ a[1] = b[1] /\ a[2] = b[2] /\ a[3] = b[3] /\ a[4] < b[4]
    BY <1>1
<1> QED
    BY <1>2, <1>3 DEF a, b

(* One stream of each thread is selected, and none has more tokens.          *)
LEMMA SelectedIs ==
    ASSUME NEW X, AreStreams(X)
    PROVE  /\ Codex!Selected(X) \subseteq X
           /\ \A s \in Codex!Selected(X) : \A t \in X :
                t.key = s.key => Codex!SumOf(t.obs) <= Codex!SumOf(s.obs)
           /\ \A s, t \in Codex!Selected(X) : s.key = t.key => s = t
           /\ \A t \in X : \E s \in Codex!Selected(X) : s.key = t.key
<1> DEFINE Score(s) == Codex!Score(s)
<1>1. Codex!Selected(X) = {s \in X : \A t \in X : t.key = s.key /\ t # s => Codex!Less(Score(t), Score(s))}
    BY DEF Codex!Selected
<1>2. \A s \in X : s \in FileStreams
    BY DEF AreStreams
<1>3. \A s, t \in X : Codex!Less(Score(s), Score(t)) <=>
             \/ Score(s)[1] < Score(t)[1]
             \/ Score(s)[1] = Score(t)[1] /\ Score(s)[2] < Score(t)[2]
             \/ /\ Score(s)[1] = Score(t)[1] /\ Score(s)[2] = Score(t)[2] /\ Score(s)[3] < Score(t)[3]
             \/ /\ Score(s)[1] = Score(t)[1] /\ Score(s)[2] = Score(t)[2]
                /\ Score(s)[3] = Score(t)[3] /\ Score(s)[4] < Score(t)[4]
    BY <1>2, LessIs
<1>4. \A s \in X : /\ Score(s)[1] \in Int /\ Score(s)[2] \in Int /\ Score(s)[3] \in Int /\ Score(s)[4] \in Int
                   /\ Score(s)[1] = Codex!SumOf(s.obs) /\ Score(s)[4] = s.path
  <2> TAKE s \in X
  <2>1. \A i \in 1 .. 4 : Score(s)[i] \in Int
      BY <1>2, ScoreIs
  <2> QED
      BY <1>2, <2>1, ScoreIs
<1>5. \A s, t \in X : Score(s)[4] = Score(t)[4] => s = t
    BY <1>4 DEF AreStreams
<1> HIDE DEF Score
<1>6. ASSUME NEW s \in Codex!Selected(X), NEW t \in X, t.key = s.key
      PROVE  Codex!SumOf(t.obs) <= Codex!SumOf(s.obs)
  <2>1. CASE t = s
      BY <1>1, <1>4, <2>1
  <2>2. CASE t # s
      BY <1>1, <1>3, <1>4, <1>6, <2>2
  <2> QED
      BY <2>1, <2>2
<1>7. ASSUME NEW s \in Codex!Selected(X), NEW t \in Codex!Selected(X), s.key = t.key, s # t
      PROVE  FALSE
  <2>1. s \in X /\ t \in X /\ Codex!Less(Score(t), Score(s)) /\ Codex!Less(Score(s), Score(t))
      BY <1>1, <1>7
  <2> QED
      BY <1>3, <1>4, <2>1
<1>8. ASSUME NEW t \in X
      PROVE  \E s \in Codex!Selected(X) : s.key = t.key
  <2> DEFINE A == {s \in X : s.key = t.key}
             f1 == [s \in X |-> Score(s)[1]]
             f2 == [s \in X |-> Score(s)[2]]
             f3 == [s \in X |-> Score(s)[3]]
             f4 == [s \in X |-> Score(s)[4]]
             A1 == {s \in A : \A u \in A : f1[u] <= f1[s]}
             A2 == {s \in A1 : \A u \in A1 : f2[u] <= f2[s]}
             A3 == {s \in A2 : \A u \in A2 : f3[u] <= f3[s]}
  <2>1. A \subseteq X /\ A # {} /\ IsFiniteSet(A) /\ IsFiniteSet(A1) /\ IsFiniteSet(A2) /\ IsFiniteSet(A3)
    <3>1. A \subseteq X /\ A # {} /\ A1 \subseteq X /\ A2 \subseteq X /\ A3 \subseteq X /\ IsFiniteSet(X)
        BY DEF AreStreams
    <3> QED
        BY <3>1, FS_Subset
  <2>2. \A s \in X : f1[s] \in Int /\ f2[s] \in Int /\ f3[s] \in Int /\ f4[s] \in Int
      BY <1>4
  <2>3. A1 # {} /\ A1 \subseteq A
    <3> HIDE DEF A, f1
    <3> QED
        BY <2>1, <2>2, Largest
  <2>4. A2 # {} /\ A2 \subseteq A1
    <3> HIDE DEF A, A1, f2
    <3> QED
        BY <2>1, <2>2, <2>3, Largest
  <2>5. A3 # {} /\ A3 \subseteq A2
    <3> HIDE DEF A, A1, A2, f3
    <3> QED
        BY <2>1, <2>2, <2>3, <2>4, Largest
  <2>6. PICK s \in A3 : \A u \in A3 : f4[u] <= f4[s]
    <3> HIDE DEF A, A1, A2, A3, f4
    <3> QED
        BY <2>1, <2>2, <2>3, <2>4, <2>5, Largest
  <2>7. ASSUME NEW u \in X, u.key = s.key, u # s
        PROVE  Codex!Less(Score(u), Score(s))
    <3>1. u \in A /\ s \in X
        BY <2>3, <2>4, <2>5, <2>7
    <3>2. /\ f1[u] = Score(u)[1] /\ f2[u] = Score(u)[2] /\ f3[u] = Score(u)[3] /\ f4[u] = Score(u)[4]
          /\ f1[s] = Score(s)[1] /\ f2[s] = Score(s)[2] /\ f3[s] = Score(s)[3] /\ f4[s] = Score(s)[4]
        BY <3>1
    <3>3. f1[u] <= f1[s] /\ (f1[u] = f1[s] => u \in A1)
        BY <2>4, <2>5, <3>1
    <3>4. u \in A1 => f2[u] <= f2[s] /\ (f2[u] = f2[s] => u \in A2)
        BY <2>5, <3>1
    <3>5. u \in A2 => f3[u] <= f3[s] /\ (f3[u] = f3[s] => u \in A3)
        BY <3>1
    <3>6. u \in A3 => f4[u] <= f4[s]
        BY <2>6
    <3> HIDE DEF A, A1, A2, A3, f1, f2, f3, f4
    <3>7. Score(u)[4] # Score(s)[4]
        BY <1>5, <2>7, <3>1
    <3> QED
        BY <1>3, <1>4, <3>1, <3>2, <3>3, <3>4, <3>5, <3>6, <3>7
  <2>8. s \in X /\ s.key = t.key
      BY <2>3, <2>4, <2>5
  <2> HIDE DEF A, A1, A2, A3
  <2> QED
      BY <1>1, <2>7, <2>8
<1> QED
    BY <1>1, <1>6, <1>7, <1>8

-----------------------------------------------------------------------------
Events(C) == UNION {Codex!Range(s.obs) : s \in C}
BestOf(C) == [t \in Threads |-> IF \E s \in C : s.key = t
                                THEN Codex!SumOf((CHOOSE s \in C : s.key = t).obs) ELSE 0]

(* Streams of which each has a thread of its own share no event: their       *)
(* tokens are added up.                                                      *)
LEMMA MergedIs ==
    ASSUME NEW X, AreStreams(X), NEW C, C \subseteq X, \A s, t \in C : s.key = t.key => s = t
    PROVE  /\ ~Codex!Conflicts(C)
           /\ IsFiniteSet(DOMAIN Codex!Merged(C))
           /\ DOMAIN Codex!Merged(C) = {o.id : o \in Events(C)}
           /\ \A s \in C : \A i \in DOMAIN s.obs :
                /\ s.obs[i].id \in DOMAIN Codex!Merged(C)
                /\ Codex!Merged(C)[s.obs[i].id] = Codex!Total(s.obs[i].tokens)
           /\ \A id \in DOMAIN Codex!Merged(C) : \E s \in C : \E i \in DOMAIN s.obs : s.obs[i].id = id
<1> DEFINE all == Events(C)
           M == Codex!Merged(C)
<1>1. \A o : o \in all <=> \E s \in C : \E i \in DOMAIN s.obs : o = s.obs[i]
    BY DEF Events, Codex!Range
<1>2. \A s, t \in C : \A i \in DOMAIN s.obs : \A j \in DOMAIN t.obs :
        s.obs[i].id = t.obs[j].id => s.obs[i] = t.obs[j]
  <2> TAKE s, t \in C
  <2> TAKE i \in DOMAIN s.obs
  <2> TAKE j \in DOMAIN t.obs
  <2> HAVE s.obs[i].id = t.obs[j].id
  <2>1. s = t
      BY DEF AreStreams
  <2> QED
      BY <2>1 DEF AreStreams
<1>3. \A o, u \in all : o.id = u.id => o = u
    BY <1>1, <1>2
<1>4. \A s \in C : s.obs \in Seq(Observations) /\ \A i \in DOMAIN s.obs : Codex!Total(s.obs[i].tokens) \in Nat
  <2>1. \A s \in C : s.obs \in Seq(Observations)
      BY DEF AreStreams, FileStreams
  <2> QED
      BY <2>1, SumOfIs
<1>5. M = [id \in {o.id : o \in all} |-> Codex!Min({Codex!Total(o.tokens) : o \in {x \in all : x.id = id}})]
    BY DEF Codex!Merged, Events
<1>6. DOMAIN M = {o.id : o \in all}
    BY <1>5
<1>7. \A o \in all : M[o.id] = Codex!Total(o.tokens)
  <2> TAKE o \in all
  <2>1. {x \in all : x.id = o.id} = {o}
      BY <1>3
  <2>2. {Codex!Total(x.tokens) : x \in {o}} = {Codex!Total(o.tokens)}
      OBVIOUS
  <2>3. Codex!Total(o.tokens) \in Nat
      BY <1>1, <1>4
  <2>4. Codex!Min({Codex!Total(o.tokens)}) = Codex!Total(o.tokens)
      BY <2>3 DEF Codex!Min
  <2>5. M[o.id] = Codex!Min({Codex!Total(x.tokens) : x \in {y \in all : y.id = o.id}})
      BY <1>5
  <2> QED
      BY <2>1, <2>2, <2>4, <2>5
<1>8. IsFiniteSet(DOMAIN M)
  <2>1. IsFiniteSet(C)
      BY FS_Subset DEF AreStreams
  <2> DEFINE ranges == [s \in C |-> Codex!Range(s.obs)]
  <2>2. \A s \in C : IsFiniteSet(ranges[s])
    <3> TAKE s \in C
    <3>1. IsFiniteSet(DOMAIN s.obs)
        BY <1>4, SumOfIs
    <3>2. IsFiniteSet({s.obs[i] : i \in DOMAIN s.obs})
        BY <3>1, ImageFinite
    <3> QED
        BY <3>2 DEF Codex!Range
  <2>3. IsFiniteSet({ranges[s] : s \in C})
    <3> HIDE DEF ranges
    <3> QED
        BY <2>1, ImageFinite
  <2>4. IsFiniteSet(UNION {ranges[s] : s \in C})
    <3>1. \A T \in {ranges[s] : s \in C} : IsFiniteSet(T)
        BY <2>2
    <3> HIDE DEF ranges
    <3> QED
        BY <2>3, <3>1, FS_UNION
  <2>5. all = UNION {ranges[s] : s \in C}
      BY DEF Events
  <2> DEFINE ids == [o \in all |-> o.id]
  <2>6. IsFiniteSet({ids[o] : o \in all})
    <3> HIDE DEF ids, all
    <3> QED
        BY <2>4, <2>5, ImageFinite
  <2> QED
      BY <1>6, <2>6
<1>9. ~Codex!Conflicts(C)
    BY <1>2 DEF Codex!Conflicts
<1>10. \A s \in C : \A i \in DOMAIN s.obs : s.obs[i] \in all
    BY <1>1
<1>11. \A s \in C : \A i \in DOMAIN s.obs : s.obs[i].id \in DOMAIN M /\ M[s.obs[i].id] = Codex!Total(s.obs[i].tokens)
  <2> HIDE DEF all, M
  <2> QED
      BY <1>6, <1>7, <1>10
<1>12. \A id \in DOMAIN M : \E s \in C : \E i \in DOMAIN s.obs : s.obs[i].id = id
  <2> HIDE DEF all, M
  <2> QED
      BY <1>1, <1>6
<1> QED
    BY <1>6, <1>8, <1>9, <1>11, <1>12

(* One stream of each thread: what is merged adds up to the tokens of these  *)
(* streams.                                                                  *)
LEMMA TotalIs ==
    ASSUME NEW X, AreStreams(X), NEW C, C \subseteq X, \A s, t \in C : s.key = t.key => s = t
    PROVE  /\ SumFunctionOnSet(Codex!Merged(C), DOMAIN Codex!Merged(C)) = SumFunctionOnSet(BestOf(C), Threads)
           /\ \A s \in C : BestOf(C)[s.key] = Codex!SumOf(s.obs)
           /\ \A t \in Threads : BestOf(C)[t] \in Nat
<1> DEFINE M == Codex!Merged(C)
           ids == DOMAIN M
           Has(s, id) == \E i \in DOMAIN s.obs : s.obs[i].id = id
           owner == [id \in ids |-> CHOOSE t \in Threads : \E s \in C : s.key = t /\ Has(s, id)]
           groups == [t \in Threads |-> {id \in ids : owner[id] = t}]
           parts == BestOf(C)
<1>1. \A s \in C : s.key \in Threads /\ s.obs \in Seq(Observations)
    BY DEF AreStreams, FileStreams
<1>2. \A s \in C : (CHOOSE u \in C : u.key = s.key) = s
    OBVIOUS
<1>3. \A s \in C : parts[s.key] = Codex!SumOf(s.obs)
    BY <1>1, <1>2 DEF BestOf
<1>4. /\ IsFiniteSet(ids)
      /\ \A s \in C : \A i \in DOMAIN s.obs : s.obs[i].id \in ids /\ M[s.obs[i].id] = Codex!Total(s.obs[i].tokens)
      /\ \A id \in ids : \E s \in C : Has(s, id)
    BY ZenonT(40), MergedIs
<1>5. \A s, t \in C : \A id \in ids : Has(s, id) /\ Has(t, id) => s.key = t.key
    BY DEF AreStreams
<1>6. \A s \in C : \A i, j \in DOMAIN s.obs : s.obs[i].id = s.obs[j].id => i = j
    BY DEF AreStreams
<1> HIDE DEF M, ids, Has
<1>7. \A s \in C : \A id \in ids : Has(s, id) => owner[id] = s.key
  <2> TAKE s \in C
  <2> TAKE id \in ids
  <2> HAVE Has(s, id)
  <2>1. PICK t \in Threads : t = owner[id] /\ \E u \in C : u.key = t /\ Has(u, id)
      BY <1>1
  <2> QED
      BY <1>5, <2>1
<1>8. \A id \in ids : owner[id] \in Threads /\ \E s \in C : s.key = owner[id] /\ Has(s, id)
    BY <1>1, <1>4, <1>7
<1> HIDE DEF owner
<1>9. ASSUME NEW t \in Threads
      PROVE  parts[t] = SumFunctionOnSet(M, groups[t])
  <2>1. CASE \A s \in C : s.key # t
    <3>1. parts[t] = 0
        BY <2>1 DEF BestOf
    <3>2. groups[t] = {}
        BY <1>8, <2>1
    <3> QED
        BY <3>1, <3>2, SumEmpty
  <2>2. CASE \E s \in C : s.key = t
    <3>1. PICK s \in C : s.key = t
        BY <2>2
    <3> DEFINE h == [i \in DOMAIN s.obs |-> s.obs[i].id]
               g == [i \in DOMAIN s.obs |-> Codex!Total(s.obs[i].tokens)]
    <3>2. groups[t] = {h[i] : i \in DOMAIN s.obs}
      <4>1. ASSUME NEW id \in groups[t]
            PROVE  id \in {h[i] : i \in DOMAIN s.obs}
        <5>1. id \in ids /\ owner[id] = t
            OBVIOUS
        <5>2. PICK u \in C : u.key = t /\ Has(u, id)
            BY <1>8, <5>1
        <5>3. u = s
            BY <3>1, <5>2
        <5> QED
            BY <5>2, <5>3 DEF Has
      <4>2. ASSUME NEW i \in DOMAIN s.obs
            PROVE  h[i] \in groups[t]
        <5>1. s.obs[i].id \in ids /\ Has(s, s.obs[i].id)
            BY <1>4 DEF Has
        <5> QED
            BY <1>7, <3>1, <5>1
      <4> QED
          BY ZenonT(60), <4>1, <4>2
    <3>3. IsFiniteSet(DOMAIN s.obs) /\ Codex!SumOf(s.obs) = SumFunctionOnSet(g, DOMAIN s.obs)
        BY <1>1, SumOfIs
    <3>4. \A i \in DOMAIN s.obs : g[i] \in Nat /\ M[h[i]] = g[i]
        BY <1>1, <1>4, SumOfIs
    <3>5. \A i, j \in DOMAIN s.obs : h[i] = h[j] => i = j
        BY <1>6
    <3> HIDE DEF h, g, groups, parts
    <3>6. SumFunctionOnSet(M, {h[i] : i \in DOMAIN s.obs}) = SumFunctionOnSet(g, DOMAIN s.obs)
        BY <3>3, <3>4, <3>5, SumImage
    <3> QED
        BY <1>3, <3>1, <3>2, <3>3, <3>6
  <2> QED
      BY <2>1, <2>2
<1>10. \A id \in ids : M[id] \in Int
  <2> TAKE id \in ids
  <2>1. PICK s \in C : Has(s, id)
      BY <1>4
  <2>2. PICK i \in DOMAIN s.obs : s.obs[i].id = id
      BY <2>1 DEF Has
  <2>3. Codex!Total(s.obs[i].tokens) \in Nat
      BY <1>1, SumOfIs
  <2> QED
      BY <1>4, <2>2, <2>3
<1>11. IsDivided(ids, owner, Threads, groups)
    BY <1>8 DEF IsDivided
<1>12. AreSums(parts, Threads, M, groups)
    BY <1>9, Zenon DEF AreSums
<1>13. IsFiniteSet(Threads)
    BY HistoryIs
<1>14. \A t \in Threads : parts[t] \in Nat
  <2> TAKE t \in Threads
  <2>1. CASE \A s \in C : s.key # t
      BY <2>1 DEF BestOf
  <2>2. CASE \E s \in C : s.key = t
      BY <1>1, <1>3, <2>2, SumOfIs
  <2> QED
      BY <2>1, <2>2
<1> HIDE DEF parts, groups
<1>15. SumFunctionOnSet(parts, Threads) = SumFunctionOnSet(M, ids)
    BY <1>4, <1>10, <1>11, <1>12, <1>13, SumPartition
<1> QED
    BY <1>3, <1>14, <1>15 DEF parts, M, ids

-----------------------------------------------------------------------------
(* The files of a scan.  A moment belongs to one thread.                     *)
AreFiles(f) ==
    /\ IsFiniteSet(DOMAIN f) /\ DOMAIN f \subseteq Int
    /\ \A p \in DOMAIN f : f[p] = <<>> \/ IsHistory(f[p])
    /\ \A p, q \in DOMAIN f : \A i \in 2 .. Len(f[p]) : \A j \in 2 .. Len(f[q]) :
            f[p][i].at = f[q][j].at => f[p][i].thread = f[q][j].thread
FilesRead(f) == {Codex!ReadFile(p, Codex!Read(f, p)) : p \in {q \in DOMAIN f : Codex!Read(f, q) # <<>>}}
Observing(f) == {s \in FilesRead(f) : s.obs # <<>>}
IsOfFile(s, rows, n) ==
    /\ s.obs = Scanned(rows, n).obs /\ s.bad = Scanned(rows, n).bad
    /\ s.key = rows[1].thread /\ s.terminal = Basis(Scanned(rows, n))

(* The first rows of a file are a file, and are read as they were.           *)
LEMMA HeadIs ==
    ASSUME NEW rows, IsHistory(rows), NEW n \in 1 .. Len(rows)
    PROVE  /\ IsHistory(SubSeq(rows, 1, n)) /\ Len(SubSeq(rows, 1, n)) = n
           /\ SubSeq(rows, 1, n)[1] = rows[1]
           /\ \A i \in 1 .. n : SubSeq(rows, 1, n)[i] = rows[i] /\ Scanned(SubSeq(rows, 1, n), i) = Scanned(rows, i)
           /\ n = Len(rows) => SubSeq(rows, 1, n) = rows
<1> DEFINE head == SubSeq(rows, 1, n)
<1>1. rows \in Seq(RowsOfCodex)
    BY DEF IsHistory
<1>2. /\ head \in Seq(RowsOfCodex) /\ Len(head) = n /\ \A i \in 1 .. n : head[i] = rows[i]
      /\ n = Len(rows) => head = rows
    BY <1>1
<1> HIDE DEF head
<1>3. head[1] = rows[1] /\ \A i \in 2 .. n : head[i] = rows[i] /\ i \in 2 .. Len(rows)
    BY <1>1, <1>2
<1>4. IsHistory(head)
    BY <1>2, <1>3 DEF IsHistory
<1>5. \A i \in 1 .. n : Scanned(head, i) = Scanned(rows, i)
    BY <1>2, ReadingSame
<1> QED
    BY <1>2, <1>3, <1>4, <1>5 DEF head

(* scan_codex_usage: a file as a stream.                                     *)
LEMMA FileReadIs ==
    ASSUME NEW rows, IsHistory(rows), NEW p \in Int
    PROVE  /\ Codex!ReadFile(p, rows) \in FileStreams /\ Codex!ReadFile(p, rows).path = p
           /\ IsOfFile(Codex!ReadFile(p, rows), rows, Len(rows))
<1> DEFINE st == Scanned(rows, Len(rows))
<1>1. Len(rows) \in 1 .. Len(rows)
    BY DEF IsHistory
<1>2. Codex!After(p, rows, Len(rows)) = st /\ IsStreamOf(rows, Len(rows), st)
    BY <1>1, AllRows DEF Scanned
<1> HIDE DEF st
<1>3. Codex!ReadFile(p, rows) = [path |-> p, obs |-> st.obs, bad |-> st.bad,
                                 key |-> IF st.key = NoThread THEN st.session ELSE st.key,
                                 terminal |-> Basis(st)]
    BY <1>2 DEF Codex!ReadFile, Basis
<1>4. /\ st.obs \in Seq(Observations) /\ st.bad \in Nat /\ st.session = rows[1].thread
      /\ st.session \in Threads /\ Basis(st) \in Disjoint
      /\ st.key \in {NoThread, st.session}
    BY <1>2 DEF IsStreamOf, Streams, Basis
<1>5. PICK k : k = rows[1].thread /\ k = (IF st.key = NoThread THEN st.session ELSE st.key)
    BY <1>4
<1>6. Codex!ReadFile(p, rows) = [path |-> p, obs |-> st.obs, bad |-> st.bad, key |-> k, terminal |-> Basis(st)]
    BY <1>3, <1>5
<1> QED
    BY <1>4, <1>5, <1>6 DEF FileStreams, IsOfFile, st

(* The limit on the rows of a scan cuts a file off after some of them.       *)
LEMMA ReadIs ==
    ASSUME NEW f, AreFiles(f), NEW p \in DOMAIN f, Codex!Read(f, p) # <<>>
    PROVE  /\ IsHistory(f[p])
           /\ \E n \in 1 .. Len(f[p]) : Codex!Read(f, p) = SubSeq(f[p], 1, n)
<1> DEFINE rows == f[p]
           rest == CodexRecords - Codex!Before(f, p)
           m == Codex!Min({Len(rows), rest})
<1>1. Codex!Read(f, p) = SubSeq(rows, 1, m)
    BY DEF Codex!Read
<1>2. rows = <<>> \/ IsHistory(rows)
    BY DEF AreFiles
<1>3. rows \in Seq(RowsOfCodex)
  <2>1. <<>> \in Seq(RowsOfCodex)
      OBVIOUS
  <2> QED
      BY <1>2, <2>1 DEF IsHistory
<1>4. rest \in Int
  <2> DEFINE g == [q \in DOMAIN f |-> Len(f[q])]
             S == {q \in DOMAIN f : q > p}
  <2>1. IsFiniteSet(S)
      BY FS_Subset DEF AreFiles
  <2>2. \A q \in S : g[q] \in Nat
    <3> TAKE q \in S
    <3>1. f[q] = <<>> \/ IsHistory(f[q])
        BY DEF AreFiles
    <3>2. f[q] \in Seq(RowsOfCodex)
      <4>1. <<>> \in Seq(RowsOfCodex)
          OBVIOUS
      <4> QED
          BY <3>1, <4>1 DEF IsHistory
    <3> QED
        BY <3>2
  <2> HIDE DEF g, S
  <2>3. SumFunctionOnSet(g, S) \in Nat
      BY <2>1, <2>2, SumNat
  <2>4. Codex!Before(f, p) = SumFunctionOnSet(g, S)
      BY HistorySum DEF Codex!Before, g, S
  <2> QED
      BY <2>3, <2>4, HistoryIs
<1>5. m \in Int /\ m <= Len(rows)
  <2>1. Len(rows) \in Int
      BY <1>3
  <2> HIDE DEF rest
  <2>2. \E x \in {Len(rows), rest} : \A y \in {Len(rows), rest} : x <= y
      BY <1>4, <2>1
  <2>3. m \in {Len(rows), rest} /\ \A y \in {Len(rows), rest} : m <= y
    <3>1. m = CHOOSE x \in {Len(rows), rest} : \A y \in {Len(rows), rest} : x <= y
        BY DEF Codex!Min
    <3> HIDE DEF m
    <3> QED
        BY <2>2, <3>1
  <2> QED
      BY <1>4, <2>1, <2>3
<1> HIDE DEF m
<1>6. m >= 1
  <2>1. CASE ~(m >= 1)
      BY <1>1, <1>3, <1>5, <2>1
  <2> QED
      BY <2>1
<1>7. m \in 1 .. Len(rows) /\ rows # <<>>
    BY <1>3, <1>5, <1>6
<1> QED
    BY <1>1, <1>2, <1>7

(* The files that were read.                                                 *)
LEMMA FilesReadAre ==
    ASSUME NEW f, AreFiles(f)
    PROVE  /\ \A s \in FilesRead(f) : s \in FileStreams /\ s.path \in DOMAIN f /\ IsHistory(f[s.path])
           /\ \A s \in FilesRead(f) : \E n \in 1 .. Len(f[s.path]) : IsOfFile(s, f[s.path], n)
           /\ \A s, t \in FilesRead(f) : s.path = t.path => s = t
           /\ ~Codex!Truncated(f) =>
                /\ \A s \in FilesRead(f) : IsOfFile(s, f[s.path], Len(f[s.path]))
                /\ \A p \in DOMAIN f : f[p] # <<>> => \E s \in FilesRead(f) : s.path = p
           /\ IsFiniteSet(FilesRead(f))
<1> DEFINE R(p) == Codex!ReadFile(p, Codex!Read(f, p))
           here == {q \in DOMAIN f : Codex!Read(f, q) # <<>>}
<1>1. ASSUME NEW p \in here
      PROVE  /\ IsHistory(f[p]) /\ R(p) \in FileStreams /\ R(p).path = p
             /\ \E n \in 1 .. Len(f[p]) : IsOfFile(R(p), f[p], n) /\ Codex!Read(f, p) = SubSeq(f[p], 1, n)
  <2>1. IsHistory(f[p]) /\ p \in Int
      BY <1>1, ReadIs DEF AreFiles
  <2>2. PICK n \in 1 .. Len(f[p]) : Codex!Read(f, p) = SubSeq(f[p], 1, n)
      BY <1>1, ReadIs
  <2> DEFINE head == SubSeq(f[p], 1, n)
  <2>3. /\ IsHistory(head) /\ Len(head) = n /\ head[1] = f[p][1]
        /\ \A i \in 1 .. n : Scanned(head, i) = Scanned(f[p], i)
      BY <2>1, HeadIs
  <2> HIDE DEF head
  <2>4. R(p) = Codex!ReadFile(p, head)
      BY <2>2 DEF head
  <2>5. R(p) \in FileStreams /\ R(p).path = p /\ IsOfFile(R(p), head, n)
      BY <2>1, <2>3, <2>4, FileReadIs
  <2>6. Scanned(head, n) = Scanned(f[p], n)
      BY <2>3
  <2>7. IsOfFile(R(p), f[p], n)
      BY <2>3, <2>5, <2>6 DEF IsOfFile
  <2> QED
      BY <2>1, <2>2, <2>5, <2>7
<1>2. FilesRead(f) = {R(p) : p \in here}
    BY DEF FilesRead
<1>3. IsFiniteSet(FilesRead(f))
  <2> DEFINE g == [p \in here |-> R(p)]
  <2>1. IsFiniteSet(here)
      BY FS_Subset DEF AreFiles
  <2>2. FilesRead(f) = {g[p] : p \in here}
      BY <1>2
  <2> HIDE DEF g, here
  <2> QED
      BY <2>1, <2>2, ImageFinite
<1>4. ASSUME ~Codex!Truncated(f), NEW p \in DOMAIN f
      PROVE  /\ f[p] # <<>> => p \in here
             /\ p \in here => IsOfFile(R(p), f[p], Len(f[p]))
  <2>1. Codex!Read(f, p) = f[p]
      BY <1>4 DEF Codex!Truncated
  <2>2. ASSUME p \in here
        PROVE  IsOfFile(R(p), f[p], Len(f[p]))
    <3>1. IsHistory(f[p]) /\ p \in Int
        BY <1>1, <2>2 DEF AreFiles
    <3> QED
        BY <2>1, <3>1, FileReadIs
  <2> QED
      BY <2>1, <2>2
<1> HIDE DEF R
<1>5. \A p \in here : p \in DOMAIN f
    OBVIOUS
<1> HIDE DEF here
<1>6. ASSUME NEW s \in FilesRead(f)
      PROVE  \E p \in here : s = R(p) /\ s.path = p
    BY <1>1, <1>2
<1>7. \A s \in FilesRead(f) : s \in FileStreams /\ s.path \in DOMAIN f /\ IsHistory(f[s.path])
    BY <1>1, <1>5, <1>6
<1>8. \A s \in FilesRead(f) : \E n \in 1 .. Len(f[s.path]) : IsOfFile(s, f[s.path], n)
    BY <1>1, <1>6
<1>9. \A s, t \in FilesRead(f) : s.path = t.path => s = t
    BY <1>6
<1>10. ASSUME ~Codex!Truncated(f)
       PROVE  /\ \A s \in FilesRead(f) : IsOfFile(s, f[s.path], Len(f[s.path]))
              /\ \A p \in DOMAIN f : f[p] # <<>> => \E s \in FilesRead(f) : s.path = p
  <2>1. \A s \in FilesRead(f) : IsOfFile(s, f[s.path], Len(f[s.path]))
      BY <1>4, <1>5, <1>6, <1>10
  <2>2. ASSUME NEW p \in DOMAIN f, f[p] # <<>>
        PROVE  \E s \in FilesRead(f) : s.path = p
      BY <1>1, <1>2, <1>4, <1>10, <2>2
  <2> QED
      BY <2>1, <2>2
<1> QED
    BY <1>3, <1>7, <1>8, <1>9, <1>10

(* An observation tells the thread of its file.                              *)
LEMMA StreamEvents ==
    ASSUME NEW f, AreFiles(f), NEW s \in FilesRead(f), NEW j \in DOMAIN s.obs
    PROVE  /\ \E i \in 2 .. Len(f[s.path]) : IsOfRow(s.obs[j], f[s.path][i])
           /\ s.obs[j].session = s.key
<1>1. PICK n \in 1 .. Len(f[s.path]) : IsOfFile(s, f[s.path], n)
    BY FilesReadAre
<1>2. IsHistory(f[s.path])
    BY FilesReadAre
<1> DEFINE rows == f[s.path]
<1>3. IsStreamOf(rows, n, Scanned(rows, n)) /\ Len(rows) \in Nat
    BY <1>2, ReadingIs DEF IsHistory
<1>4. PICK i \in 2 .. n : IsOfRow(s.obs[j], rows[i])
    BY <1>1, <1>3 DEF IsOfFile, IsStreamOf
<1>5. i \in 2 .. Len(rows)
    BY <1>3, <1>4
<1>6. s.obs[j].session = rows[i].thread
    BY <1>4 DEF IsOfRow, Seen
<1>7. rows[i].thread = rows[1].thread /\ s.key = rows[1].thread
    BY <1>1, <1>2, <1>5 DEF IsHistory, IsOfFile
<1> QED
    BY <1>4, <1>5, <1>6, <1>7

(* What observes something is a set of streams.                              *)
LEMMA ObservingAre == ASSUME NEW f, AreFiles(f) PROVE AreStreams(Observing(f))
<1> DEFINE X == Observing(f)
<1>1. /\ X \subseteq FilesRead(f) /\ IsFiniteSet(FilesRead(f))
      /\ \A s \in FilesRead(f) : s \in FileStreams /\ s.path \in DOMAIN f /\ IsHistory(f[s.path])
      /\ \A s, t \in FilesRead(f) : s.path = t.path => s = t
    BY FilesReadAre DEF Observing
<1>2. IsFiniteSet(X)
    BY <1>1, FS_Subset
<1>3. ASSUME NEW s \in X
      PROVE  \A i, j \in DOMAIN s.obs : s.obs[i].id = s.obs[j].id => i = j
  <2>1. PICK n \in 1 .. Len(f[s.path]) : IsOfFile(s, f[s.path], n)
      BY <1>1, FilesReadAre
  <2>2. IsStreamOf(f[s.path], n, Scanned(f[s.path], n))
      BY <1>1, ReadingIs
  <2> QED
      BY <2>1, <2>2 DEF IsOfFile, IsStreamOf
<1>4. ASSUME NEW s \in X, NEW t \in X, NEW i \in DOMAIN s.obs, NEW j \in DOMAIN t.obs,
             s.obs[i].id = t.obs[j].id
      PROVE  s.key = t.key
  <2> DEFINE p == s.path
             q == t.path
  <2>1. PICK h \in 2 .. Len(f[p]) : IsOfRow(s.obs[i], f[p][h])
      BY <1>1, StreamEvents
  <2>2. PICK k \in 2 .. Len(f[q]) : IsOfRow(t.obs[j], f[q][k])
      BY <1>1, StreamEvents
  <2>3. s.obs[i].session = s.key /\ t.obs[j].session = t.key
      BY <1>1, StreamEvents
  <2> DEFINE a == f[p][h]
             b == f[q][k]
  <2>4. EventOf(a) = EventOf(b) /\ s.key = a.thread /\ t.key = b.thread
      BY <1>4, <2>1, <2>2, <2>3 DEF IsOfRow, Seen
  <2>5. /\ a.id # 0 => a.id = a.at
        /\ b.id # 0 => b.id = b.at
      BY <1>1 DEF IsHistory
  <2>6. a.at = b.at => a.thread = b.thread
      BY <1>1 DEF AreFiles
  <2> HIDE DEF a, b
  <2>7. CASE a.id # 0 /\ b.id # 0
      BY <2>4, <2>5, <2>6, <2>7 DEF EventOf, Codex!NoId
  <2>8. CASE a.id = 0 /\ b.id = 0
      BY <2>4, <2>8 DEF EventOf, Codex!NoId
  <2>9. CASE (a.id = 0) # (b.id = 0)
    <3>1. \A v, w, x, y, z : <<v, w>> # <<x, y, z>>
      <4> SUFFICES ASSUME NEW v, NEW w, NEW x, NEW y, NEW z
                   PROVE  <<v, w>> # <<x, y, z>>
          OBVIOUS
      <4>1. Len(<<v, w>>) = 2 /\ Len(<<x, y, z>>) = 3
          OBVIOUS
      <4> QED
          BY <4>1
    <3> QED
        BY <2>4, <2>9, <3>1 DEF EventOf, Codex!NoId
  <2> QED
      BY <2>7, <2>8, <2>9
<1> HIDE DEF X
<1>5. X \subseteq FileStreams /\ \A s, t \in X : s.path = t.path => s = t
    BY <1>1
<1> QED
    BY <1>2, <1>3, <1>4, <1>5 DEF AreStreams, X

(* What a scan reports.                                                      *)
LEMMA ScanIs ==
    ASSUME NEW f, AreFiles(f)
    PROVE  /\ Codex!Scan(f).total = SumFunctionOnSet(BestOf(Codex!Selected(Observing(f))), Threads)
           /\ Codex!Scan(f).partial <=> \/ Codex!Truncated(f)
                                        \/ \E s \in FilesRead(f) : s.bad > 0
                                        \/ Codex!Diverging(Observing(f)) # {}
<1> DEFINE X == Observing(f)
           C == Codex!Selected(X)
<1>1. AreStreams(X)
    BY ObservingAre
<1>2. C \subseteq X /\ \A s, t \in C : s.key = t.key => s = t
    BY <1>1, SelectedIs
<1>3. ~Codex!Conflicts(C)
    BY <1>1, <1>2, MergedIs
<1>4. SumFunctionOnSet(Codex!Merged(C), DOMAIN Codex!Merged(C)) = SumFunctionOnSet(BestOf(C), Threads)
    BY <1>1, <1>2, TotalIs
<1>5. Codex!Scan(f) =
        [total |-> Codex!SumFunctionOnSet(Codex!Merged(C), DOMAIN Codex!Merged(C)),
         partial |-> \/ Codex!Truncated(f)
                     \/ \E s \in FilesRead(f) : s.bad > 0
                     \/ Codex!Diverging(X) # {}
                     \/ Codex!Conflicts(C)]
    BY Zenon DEF Codex!Scan, Observing, FilesRead
<1> HIDE DEF X, C
<1>6. Codex!Scan(f).total = Codex!SumFunctionOnSet(Codex!Merged(C), DOMAIN Codex!Merged(C))
    BY <1>5
<1>7. Codex!Scan(f).partial = (\/ Codex!Truncated(f)
                               \/ \E s \in FilesRead(f) : s.bad > 0
                               \/ Codex!Diverging(X) # {}
                               \/ Codex!Conflicts(C))
    BY <1>5
<1> QED
    BY <1>3, <1>4, <1>6, <1>7, HistorySum DEF X, C

-----------------------------------------------------------------------------
(* How the moments hang together: each follows the one that its client had   *)
(* seen last, with what it cost, the counter that was written and what all   *)
(* the moments on the way to it cost; id is that of its response, if it has  *)
(* one.  Moment 0 is the beginning of every thread.                          *)
Moments == [owner : Threads \union {NoThread}, parent : Nat, cost : Pairs, counter : Pairs,
            sum : Pairs, id : Nat]
Nil == <<0, 0>>
AtMost(a, b) == a[1] <= b[1] /\ a[2] <= b[2]
IsTree(tree, n) ==
    /\ tree \in [Nat -> Moments]
    /\ tree[0].cost = Nil /\ tree[0].counter = Nil /\ tree[0].sum = Nil
    /\ \A k \in 1 .. n - 1 : LET m == tree[k] above == tree[m.parent] IN
        /\ m.owner \in Threads /\ m.parent < k /\ (m.parent = 0 \/ above.owner = m.owner)
        /\ m.sum = Add(above.sum, m.cost)
        /\ m.counter = Add(above.counter, m.cost) \/ m.counter = m.cost
        /\ AtMost(m.counter, m.sum)

(* The rows of a file follow the moments from the one called origin on.      *)
Amount(raw) == <<raw.in, raw.out>>
Node(origin, rows, i) == IF i = 1 THEN origin ELSE rows[i].at
Follows(tree, a, k, r) ==
    \/ tree[k].parent = a /\ a < k /\ r.id = tree[k].id
    \/ a = k /\ r.id = 0 /\ tree[k].id # 0 /\ r.kind # "last"
IsPath(tree, n, origin, rows) ==
    /\ IsHistory(rows)
    /\ origin \in 0 .. n - 1 /\ (origin = 0 \/ tree[origin].owner = rows[1].thread)
    /\ \A i \in 2 .. Len(rows) : LET r == rows[i] IN
        /\ r.at \in 1 .. n - 1 /\ tree[r.at].owner = rows[1].thread
        /\ r.kind \in Cumulative => Amount(r.tokens) = tree[r.at].counter
        /\ r.kind = "last" => Amount(r.tokens) = tree[r.at].cost
        /\ Follows(tree, Node(origin, rows, i - 1), r.at, r)

(* The numbers of a moment.                                                  *)
LEMMA MomentIs ==
    ASSUME NEW m \in Moments
    PROVE  /\ m.cost \in Pairs /\ m.counter \in Pairs /\ m.sum \in Pairs
           /\ m.cost[1] \in Nat /\ m.cost[2] \in Nat /\ m.counter[1] \in Nat /\ m.counter[2] \in Nat
           /\ m.sum[1] \in Nat /\ m.sum[2] \in Nat
BY DEF Moments, Pairs

(* From one row to the next: what the moment cost is added to both, or the   *)
(* counter starts again.                                                     *)
IsStep(a, m, d) ==
    /\ d \in Pairs
    /\ m.sum[1] = a.sum[1] + d[1] /\ m.sum[2] = a.sum[2] + d[2]
    /\ \/ m.counter[1] = a.counter[1] + d[1] /\ m.counter[2] = a.counter[2] + d[2]
       \/ m.counter[1] = d[1] /\ m.counter[2] = d[2]

(* One row follows the other: the same moment once more, or the next one.    *)
LEMMA PathStep ==
    ASSUME NEW tree, NEW n \in Nat, IsTree(tree, n), NEW origin, NEW rows,
           IsPath(tree, n, origin, rows),
           NEW i \in 2 .. Len(rows)
    PROVE  LET a == tree[Node(origin, rows, i - 1)]
               m == tree[Node(origin, rows, i)]
           IN /\ a \in Moments /\ m \in Moments /\ AtMost(a.counter, a.sum) /\ AtMost(m.counter, m.sum)
              /\ rows[i].kind \in Cumulative => Amount(rows[i].tokens) = m.counter
              /\ \E d : /\ IsStep(a, m, d) /\ (rows[i].kind = "last" => Amount(rows[i].tokens) = d)
                        /\ IF Node(origin, rows, i - 1) = Node(origin, rows, i) THEN d = Nil ELSE d = m.cost
<1> DEFINE x == Node(origin, rows, i - 1)
           k == Node(origin, rows, i)
           a == tree[x]
           m == tree[k]
           r == rows[i]
<1>1. Len(rows) \in Nat /\ k = r.at
    BY DEF Node, IsPath, IsHistory
<1>2. x \in 0 .. n - 1
  <2>1. CASE i = 2
      BY <2>1 DEF Node, IsPath
  <2>2. CASE i # 2
    <3>1. i - 1 \in 2 .. Len(rows) /\ x = rows[i - 1].at
        BY <1>1, <2>2 DEF Node
    <3> QED
        BY <3>1 DEF IsPath
  <2> QED
      BY <2>1, <2>2
<1>3. k \in 1 .. n - 1
    BY <1>1 DEF IsPath
<1>4. a \in Moments /\ m \in Moments
    BY <1>2, <1>3 DEF IsTree
<1>5. AtMost(tree[0].counter, tree[0].sum)
    BY DEF IsTree, AtMost, Nil
<1>6. AtMost(a.counter, a.sum) /\ AtMost(m.counter, m.sum)
    BY <1>2, <1>3, <1>5 DEF IsTree
<1>7. /\ r.kind \in Cumulative => Amount(r.tokens) = m.counter
      /\ r.kind = "last" => Amount(r.tokens) = m.cost
      /\ Follows(tree, x, k, r)
    BY <1>1 DEF IsPath
<1>8. CASE x = k
  <2>1. r.kind # "last"
      BY <1>3, <1>7, <1>8 DEF Follows
  <2>2. IsStep(a, m, Nil)
      BY <1>4, <1>8, MomentIs DEF IsStep, Nil, Pairs
  <2> QED
      BY <1>4, <1>6, <1>7, <1>8, <2>1, <2>2
<1>9. CASE x # k
  <2>1. m.parent = x
      BY <1>7, <1>9 DEF Follows
  <2>2. m.sum = Add(a.sum, m.cost) /\ (m.counter = Add(a.counter, m.cost) \/ m.counter = m.cost)
      BY <1>3, <2>1 DEF IsTree
  <2>3. IsStep(a, m, m.cost)
      BY <1>4, <2>2, MomentIs DEF IsStep, Add
  <2> QED
      BY <1>4, <1>6, <1>7, <1>9, <2>3
<1> QED
    BY <1>8, <1>9

(* What has been observed at a moment is at most what was used on the way to *)
(* it, even if the next counter is read as if it went on, or from the start. *)
IsBounded(st, m) ==
    LET total == Codex!SumOf(st.obs)
        basis == AmountOf(st.prev)
    IN /\ ~st.counted => total <= Codex!Total(st.pre) /\ Codex!Total(st.pre) <= Size(m.sum)
       /\ st.counted => \/ AtMost(basis, m.counter) /\ total + Size(m.counter) <= Size(m.sum) + Size(basis)
                        \/ total + Size(m.counter) <= Size(m.sum)

(* A row adds its increment to what is observed.                             *)
LEMMA RowSum ==
    ASSUME NEW st \in Streams, NEW r \in RowsOfCodex, NEW to, IsRowRead(st, r, to)
    PROVE  /\ Codex!SumOf(to.obs) = Codex!SumOf(st.obs) + Codex!Total(Increment(st, r))
           /\ Codex!Total(Increment(st, r)) \in Nat /\ Codex!SumOf(st.obs) \in Nat
<1>1. st.obs \in Seq(Observations) /\ Increment(st, r) \in Disjoint
    BY DEF Streams, IsRowRead
<1>2. Seen(r, Increment(st, r)) \in Observations /\ Seen(r, Increment(st, r)).tokens = Increment(st, r)
    BY <1>1, EventType DEF Seen
<1>3. Codex!Total(Increment(st, r)) \in Nat /\ Codex!SumOf(st.obs) \in Nat
    BY <1>1, AmountIs, SumOfIs
<1>4. CASE Codex!Total(Increment(st, r)) = 0
    BY <1>3, <1>4 DEF IsRowRead
<1>5. CASE Codex!Total(Increment(st, r)) # 0
  <2>1. to.obs = Append(st.obs, Seen(r, Increment(st, r)))
      BY <1>5 DEF IsRowRead
  <2> QED
      BY <1>1, <1>2, <1>3, <2>1, SumOfAppend
<1> QED
    BY <1>4, <1>5

(* The amounts that a row adds, by what is known before.                     *)
LEMMA IncrementIs ==
    ASSUME NEW st \in Streams, NEW r \in RowsOfCodex
    PROVE  LET x == Amount(r.tokens)
               b == AmountOf(Basis(st))
               less == x[1] < b[1] \/ x[2] < b[2]
           IN /\ x \in Pairs /\ b \in Pairs /\ Size(b) = Codex!Total(Basis(st))
              /\ AmountOf(Codex!Tokens(r.tokens)) = x /\ Codex!Total(Codex!Tokens(r.tokens)) = Size(x)
              /\ Codex!Decreased(Codex!Tokens(r.tokens), Basis(st)) <=> less
              /\ Codex!Total(Increment(st, r)) =
                    IF r.kind = "damaged" \/ (r.kind = "last" /\ st.counted) THEN 0
                    ELSE IF r.kind = "last" THEN Size(x)
                    ELSE IF ~less THEN Size(x) - Size(b)
                    ELSE IF st.counted THEN Size(x) ELSE 0
<1> DEFINE x == Amount(r.tokens)
           b == AmountOf(Basis(st))
           tokens == Codex!Tokens(r.tokens)
           less == x[1] < b[1] \/ x[2] < b[2]
<1>1. r.tokens \in Raw
    BY DEF RowsOfCodex
<1>2. Basis(st) \in Disjoint
    BY DEF Streams, Basis
<1>3. tokens \in Disjoint /\ AmountOf(tokens) = x /\ Codex!Total(tokens) = r.tokens.in + r.tokens.out
    BY <1>1, PartsAre DEF Amount
<1>4. x \in Pairs /\ Codex!Total(tokens) = Size(x)
    BY <1>3, AmountIs
<1>5. b \in Pairs /\ Size(b) = Codex!Total(Basis(st))
    BY <1>2, AmountIs
<1>6. Codex!Decreased(tokens, Basis(st)) <=> less
  <2>1. x[1] = Codex!Input(tokens) /\ x[2] = tokens.out
      BY <1>3, AmountIs
  <2>2. b[1] = Codex!Input(Basis(st)) /\ b[2] = Basis(st).out
      BY <1>2, AmountIs
  <2> HIDE DEF x, b, tokens
  <2> QED
      BY <2>1, <2>2 DEF Codex!Decreased
<1>7. ~Codex!Decreased(tokens, Basis(st)) => Codex!Total(Codex!Delta(tokens, Basis(st))) = Size(x) - Size(b)
    BY <1>2, <1>3, <1>4, <1>5, DeltaIs
<1>8. Codex!Total(Codex!NoTokens) = 0
    BY DEF Codex!NoTokens, Codex!Tokens, Codex!Zero, Codex!Total, Codex!Input
<1> HIDE DEF x, b, less, tokens
<1>9. Increment(st, r) = IF r.kind = "damaged" \/ (r.kind = "last" /\ st.counted) THEN Codex!NoTokens
                         ELSE IF r.kind = "last" THEN tokens
                         ELSE IF ~Codex!Decreased(tokens, Basis(st)) THEN Codex!Delta(tokens, Basis(st))
                         ELSE IF st.counted THEN tokens ELSE Codex!NoTokens
    BY DEF Increment, tokens
<1>10. Codex!Total(Increment(st, r)) =
         IF r.kind = "damaged" \/ (r.kind = "last" /\ st.counted) THEN 0
         ELSE IF r.kind = "last" THEN Size(x)
         ELSE IF ~less THEN Size(x) - Size(b)
         ELSE IF st.counted THEN Size(x) ELSE 0
    BY <1>4, <1>6, <1>7, <1>8, <1>9
<1> QED
    BY <1>3, <1>4, <1>5, <1>6, <1>10 DEF x, b, less, tokens

(* A row leaves what is observed within what was used.                       *)
LEMMA BoundStep ==
    ASSUME NEW st \in Streams, NEW r \in RowsOfCodex, r.kind # "meta", NEW to,
           IsRowRead(st, r, to),
           NEW a \in Moments, NEW m \in Moments, AtMost(a.counter, a.sum),
           AtMost(m.counter, m.sum),
           IsBounded(st, a), NEW d, IsStep(a, m, d),
           r.kind \in Cumulative => Amount(r.tokens) = m.counter,
           r.kind = "last" => Amount(r.tokens) = d
    PROVE  IsBounded(to, m)
<1> DEFINE x == Amount(r.tokens)
           b == AmountOf(Basis(st))
           less == x[1] < b[1] \/ x[2] < b[2]
           S == Codex!SumOf(st.obs)
           T == Codex!SumOf(to.obs)
           inc == Codex!Total(Increment(st, r))
           P == Codex!Total(st.pre)
           Q == Codex!Total(to.pre)
           v == AmountOf(st.prev)
           w == AmountOf(to.prev)
<1>1. /\ T = S + inc /\ inc \in Nat /\ S \in Nat
    BY RowSum
<1>2. /\ x \in Pairs /\ b \in Pairs /\ Size(b) = Codex!Total(Basis(st))
      /\ AmountOf(Codex!Tokens(r.tokens)) = x /\ Codex!Total(Codex!Tokens(r.tokens)) = Size(x)
      /\ inc = IF r.kind = "damaged" \/ (r.kind = "last" /\ st.counted) THEN 0
               ELSE IF r.kind = "last" THEN Size(x)
               ELSE IF ~less THEN Size(x) - Size(b)
               ELSE IF st.counted THEN Size(x) ELSE 0
    BY IncrementIs
<1>3. /\ st.prev \in Disjoint /\ st.pre \in Disjoint /\ to \in Streams /\ to.prev \in Disjoint /\ to.pre \in Disjoint
      /\ Codex!Tokens(r.tokens) \in Disjoint
    BY EventType DEF Streams, IsRowRead
<1>4. P \in Nat /\ Q \in Nat /\ v \in Pairs /\ w \in Pairs
    BY <1>3, AmountIs
<1>5. /\ to.counted = (st.counted \/ r.kind \in Cumulative)
      /\ w = IF r.kind \in Cumulative THEN x ELSE v
    BY <1>2 DEF IsRowRead
<1>6. Q = IF r.kind = "last" /\ ~st.counted THEN P + Size(x) ELSE P
  <2>1. CASE r.kind = "last" /\ ~st.counted /\ Codex!Total(Codex!Tokens(r.tokens)) # 0
    <3>1. to.pre = Codex!Plus(st.pre, Codex!Tokens(r.tokens))
        BY <2>1 DEF IsRowRead
    <3> QED
        BY <1>2, <1>3, <2>1, <3>1, TokensPlus
  <2>2. CASE ~(r.kind = "last" /\ ~st.counted /\ Codex!Total(Codex!Tokens(r.tokens)) # 0)
    <3>1. to.pre = st.pre
        BY <2>2 DEF IsRowRead
    <3> QED
        BY <1>2, <1>4, <2>2, <3>1
  <2> QED
      BY <2>1, <2>2
<1>7. /\ st.counted => b = v
      /\ ~st.counted => Size(b) = P
    BY <1>2 DEF Basis
<1>8. /\ ~st.counted => S <= P /\ P <= Size(a.sum)
      /\ st.counted => \/ AtMost(v, a.counter) /\ S + Size(a.counter) <= Size(a.sum) + Size(v)
                       \/ S + Size(a.counter) <= Size(a.sum)
    BY DEF IsBounded
<1>9. IsBounded(to, m) <=>
        /\ ~to.counted => T <= Q /\ Q <= Size(m.sum)
        /\ to.counted => \/ AtMost(w, m.counter) /\ T + Size(m.counter) <= Size(m.sum) + Size(w)
                         \/ T + Size(m.counter) <= Size(m.sum)
    BY DEF IsBounded
<1>10. /\ a.counter[1] \in Nat /\ a.counter[2] \in Nat /\ a.sum[1] \in Nat /\ a.sum[2] \in Nat
       /\ m.counter[1] \in Nat /\ m.counter[2] \in Nat /\ m.sum[1] \in Nat /\ m.sum[2] \in Nat
       /\ d[1] \in Nat /\ d[2] \in Nat /\ x[1] \in Nat /\ x[2] \in Nat /\ b[1] \in Nat /\ b[2] \in Nat
       /\ v[1] \in Nat /\ v[2] \in Nat
    BY <1>2, <1>4, MomentIs DEF IsStep, Pairs
<1>11. r.kind = "damaged" \/ r.kind = "last" \/ r.kind \in Cumulative
    BY DEF RowsOfCodex, Cumulative
<1>12. r.kind \in Cumulative => r.kind # "damaged" /\ r.kind # "last"
    BY DEF Cumulative
<1> HIDE DEF x, b, S, T, inc, P, Q, v, w
<1>13. CASE r.kind = "damaged"
  <2>1. inc = 0 /\ Q = P /\ w = v
      BY <1>2, <1>5, <1>6, <1>12, <1>13
  <2>2. to.counted <=> st.counted
      BY <1>5, <1>12, <1>13
  <2> QED
      BY <1>1, <1>4, <1>8, <1>9, <1>10, <2>1, <2>2 DEF IsStep, AtMost, Size
<1>14. CASE r.kind = "last" /\ st.counted
  <2>1. inc = 0 /\ Q = P /\ w = v /\ to.counted = st.counted
      BY <1>2, <1>5, <1>6, <1>12, <1>14
  <2> QED
      BY <1>1, <1>4, <1>8, <1>9, <1>10, <1>14, <2>1 DEF IsStep, AtMost, Size
<1>15. CASE r.kind = "last" /\ ~st.counted
  <2>1. inc = Size(x) /\ Q = P + Size(x) /\ x = d /\ ~to.counted
      BY <1>2, <1>5, <1>6, <1>12, <1>15 DEF x
  <2> QED
      BY <1>1, <1>4, <1>8, <1>9, <1>10, <1>15, <2>1 DEF IsStep, Size
<1>16. CASE r.kind \in Cumulative /\ st.counted
  <2>1. /\ w = x /\ x = m.counter /\ to.counted /\ b = v
        /\ inc = IF ~less THEN Size(x) - Size(b) ELSE Size(x)
      BY <1>2, <1>5, <1>7, <1>12, <1>16 DEF x
  <2>2. CASE less
      BY <1>1, <1>4, <1>8, <1>9, <1>10, <1>16, <2>1, <2>2 DEF IsStep, AtMost, Size
  <2>3. CASE ~less
      BY <1>1, <1>4, <1>8, <1>9, <1>10, <1>16, <2>1, <2>3 DEF IsStep, AtMost, Size
  <2> QED
      BY <2>2, <2>3
<1>17. CASE r.kind \in Cumulative /\ ~st.counted
  <2>1. /\ w = x /\ x = m.counter /\ to.counted /\ Size(b) = P
        /\ inc = IF ~less THEN Size(x) - Size(b) ELSE 0
      BY <1>2, <1>5, <1>7, <1>12, <1>17 DEF x
  <2>2. CASE less
      BY <1>1, <1>4, <1>8, <1>9, <1>10, <1>17, <2>1, <2>2 DEF IsStep, AtMost, Size
  <2>3. CASE ~less
      BY <1>1, <1>4, <1>8, <1>9, <1>10, <1>17, <2>1, <2>3 DEF IsStep, AtMost, Size
  <2> QED
      BY <2>2, <2>3
<1> QED
    BY <1>11, <1>13, <1>14, <1>15, <1>16, <1>17

-----------------------------------------------------------------------------
(* The moments of a file are there, and of its thread,                       *)
LEMMA PathNode ==
    ASSUME NEW tree, NEW n \in Nat, NEW origin, NEW rows, IsPath(tree, n, origin, rows),
           NEW i \in 1 .. Len(rows)
    PROVE  /\ Node(origin, rows, i) \in 0 .. n - 1
           /\ Node(origin, rows, i) = 0 \/ tree[Node(origin, rows, i)].owner = rows[1].thread
<1>1. CASE i = 1
    BY <1>1 DEF Node, IsPath
<1>2. CASE i # 1
  <2>1. i \in 2 .. Len(rows) /\ Node(origin, rows, i) = rows[i].at
      BY <1>2 DEF Node
  <2> QED
      BY <2>1 DEF IsPath
<1> QED
    BY <1>1, <1>2

(* the last one too.                                                         *)
LEMMA LastNode ==
    ASSUME NEW tree, NEW n \in Nat, NEW origin, NEW rows, IsPath(tree, n, origin, rows)
    PROVE  /\ Node(origin, rows, Len(rows)) \in 0 .. n - 1
           /\ Node(origin, rows, Len(rows)) = 0 \/ tree[Node(origin, rows, Len(rows))].owner = rows[1].thread
<1>1. IsHistory(rows)
    BY DEF IsPath
<1>2. Len(rows) \in 1 .. Len(rows)
    BY <1>1 DEF IsHistory
<1> QED
    BY <1>2, PathNode

(* What is observed of a file is within what was used on the way to its last *)
(* moment, however often the counter was reset.                              *)
LEMMA PathBounded ==
    ASSUME NEW tree, NEW n \in Nat, IsTree(tree, n), NEW origin, NEW rows,
           IsPath(tree, n, origin, rows),
           NEW j \in 1 .. Len(rows)
    PROVE  Codex!SumOf(Scanned(rows, j).obs) <= Size(tree[Node(origin, rows, j)].sum)
<1> DEFINE At(i) == tree[Node(origin, rows, i)]
           B == {i \in 0 .. Len(rows) : i = 0 \/ IsBounded(Scanned(rows, i), At(i))}
<1>1. IsHistory(rows) /\ Len(rows) \in Nat /\ rows \in Seq(RowsOfCodex)
    BY DEF IsPath, IsHistory
<1>2. \A i \in 1 .. Len(rows) : At(i) \in Moments
    BY PathNode DEF IsTree
<1>3. IsBounded(Unread(rows[1].thread), At(1))
  <2>1. Codex!Total(Codex!NoTokens) = 0
      BY DEF Codex!NoTokens, Codex!Tokens, Codex!Zero, Codex!Total, Codex!Input
  <2>2. /\ Unread(rows[1].thread).obs = <<>> /\ Unread(rows[1].thread).pre = Codex!NoTokens
        /\ ~Unread(rows[1].thread).counted
      BY DEF Unread
  <2>3. At(1).sum[1] \in Nat /\ At(1).sum[2] \in Nat
    <3>1. 1 \in 1 .. Len(rows)
        BY <1>1 DEF IsHistory
    <3> QED
        BY <1>2, <3>1, MomentIs
  <2> HIDE DEF At
  <2> QED
      BY <2>1, <2>2, <2>3, SumOfNothing DEF IsBounded, Size
<1>4. ASSUME NEW i \in 1 .. Len(rows), i - 1 \in B
      PROVE  i \in B
  <2>1. CASE i = 1
    <3>1. Scanned(rows, i) = Unread(rows[1].thread)
        BY <1>1, <2>1, ReadingIs
    <3> HIDE DEF At
    <3> QED
        BY <1>3, <2>1, <3>1
  <2>2. CASE i # 1
    <3>1. i \in 2 .. Len(rows) /\ i - 1 \in 1 .. Len(rows)
        BY <2>2
    <3>2. IsBounded(Scanned(rows, i - 1), At(i - 1))
        BY <1>4, <3>1
    <3>3. /\ IsRowRead(Scanned(rows, i - 1), rows[i], Scanned(rows, i))
          /\ Scanned(rows, i - 1) \in Streams
        BY <1>1, <3>1, ReadingIs DEF IsStreamOf
    <3>4. rows[i] \in RowsOfCodex /\ rows[i].kind # "meta"
        BY <1>1, <3>1 DEF IsHistory
    <3>5. PICK a, m : a = At(i - 1) /\ m = At(i)
        OBVIOUS
    <3>6. /\ a \in Moments /\ m \in Moments /\ AtMost(a.counter, a.sum) /\ AtMost(m.counter, m.sum)
          /\ rows[i].kind \in Cumulative => Amount(rows[i].tokens) = m.counter
          /\ \E d : IsStep(a, m, d) /\ (rows[i].kind = "last" => Amount(rows[i].tokens) = d)
        BY <3>1, <3>5, PathStep
    <3>7. PICK d : IsStep(a, m, d) /\ (rows[i].kind = "last" => Amount(rows[i].tokens) = d)
        BY <3>6
    <3> HIDE DEF At
    <3>8. IsBounded(Scanned(rows, i), m)
        BY <3>2, <3>3, <3>4, <3>5, <3>6, <3>7, BoundStep
    <3> QED
        BY <3>1, <3>5, <3>8
  <2> QED
      BY <2>1, <2>2
<1>5. IsBounded(Scanned(rows, j), At(j))
  <2> HIDE DEF B
  <2>1. 0 \in B
      BY <1>1 DEF B
  <2>2. \A i \in 0 .. Len(rows) : i \in B
      BY <1>1, <1>4, <2>1, UpTo
  <2>3. j \in B /\ j # 0
      BY <2>2
  <2> QED
      BY <2>3 DEF B
<1>6. Scanned(rows, j) \in Streams
    BY <1>1, ReadingIs DEF IsStreamOf
<1>7. PICK st, m : st = Scanned(rows, j) /\ m = At(j)
    OBVIOUS
<1>8. st.prev \in Disjoint /\ st.pre \in Disjoint /\ st.obs \in Seq(Observations) /\ m \in Moments
    BY <1>2, <1>6, <1>7 DEF Streams
<1>9. AmountOf(st.prev) \in Pairs /\ Codex!Total(st.pre) \in Nat /\ Codex!SumOf(st.obs) \in Nat
    BY <1>8, AmountIs, SumOfIs
<1> HIDE DEF At
<1>10. Codex!SumOf(st.obs) <= Size(m.sum)
  <2> DEFINE S == Codex!SumOf(st.obs)
             v == AmountOf(st.prev)
  <2>1. /\ v[1] \in Nat /\ v[2] \in Nat /\ m.counter[1] \in Nat /\ m.counter[2] \in Nat
        /\ m.sum[1] \in Nat /\ m.sum[2] \in Nat /\ S \in Nat
      BY <1>8, <1>9, MomentIs DEF Pairs
  <2>2. IsBounded(st, m)
      BY <1>5, <1>7
  <2>3. CASE ~st.counted
    <3>1. S <= Codex!Total(st.pre) /\ Codex!Total(st.pre) <= Size(m.sum)
        BY <2>2, <2>3 DEF IsBounded
    <3> HIDE DEF S
    <3> QED
      <4>1. Codex!Total(st.pre) \in Nat /\ S \in Nat /\ Size(m.sum) \in Nat
          BY SMTT(30), <1>9, <2>1 DEF Size
      <4> QED
          BY <3>1, <4>1 DEF S
  <2>4. CASE st.counted
    <3>1. \/ AtMost(v, m.counter) /\ S + Size(m.counter) <= Size(m.sum) + Size(v)
          \/ S + Size(m.counter) <= Size(m.sum)
        BY <2>2, <2>4 DEF IsBounded
    <3> HIDE DEF S, v
    <3>2. PICK x \in Nat, y \in Nat, u \in Nat, w \in Nat :
              /\ x = m.counter[1] /\ y = m.counter[2] /\ u = m.sum[1] /\ w = m.sum[2]
        BY <2>1
    <3>3. PICK e \in Nat, f \in Nat : e = v[1] /\ f = v[2]
        BY <2>1
    <3>4. Size(m.counter) = x + y /\ Size(m.sum) = u + w /\ Size(v) = e + f
        BY <3>2, <3>3 DEF Size
    <3>5. \/ e <= x /\ f <= y /\ S + (x + y) <= (u + w) + (e + f)
          \/ S + (x + y) <= u + w
        BY <3>1, <3>2, <3>3, <3>4 DEF AtMost
    <3>6. S <= u + w
        BY <2>1, <3>5
    <3> QED
        BY <3>4, <3>6 DEF S
  <2> QED
      BY <2>3, <2>4
<1> QED
    BY <1>7, <1>10 DEF At

-----------------------------------------------------------------------------
(* What each thread has used. *)
CostOf(tree) == [k \in Nat |-> Size(tree[k].cost)]
Owned(tree, n, t) == {k \in 1 .. n - 1 : tree[k].owner = t}
SpentOf(tree, n) == [t \in Threads |-> SumFunctionOnSet(CostOf(tree), Owned(tree, n, t))]

(* What each thread used adds up to what was used.                           *)
LEMMA SpentIs ==
    ASSUME NEW tree, NEW n \in Nat, IsTree(tree, n)
    PROVE  /\ IsFiniteSet(1 .. n - 1) /\ \A t : IsFiniteSet(Owned(tree, n, t))
           /\ \A k \in Nat : CostOf(tree)[k] \in Nat
           /\ \A t \in Threads : SpentOf(tree, n)[t] \in Nat
           /\ SumFunctionOnSet(SpentOf(tree, n), Threads) = SumFunctionOnSet(CostOf(tree), 1 .. n - 1)
<1> DEFINE owner == [k \in 1 .. n - 1 |-> tree[k].owner]
           groups == [t \in Threads |-> Owned(tree, n, t)]
<1>1. IsFiniteSet(1 .. n - 1)
    BY FS_Interval
<1>2. \A t : IsFiniteSet(Owned(tree, n, t)) /\ Owned(tree, n, t) \subseteq 1 .. n - 1
    BY <1>1, FS_Subset DEF Owned
<1>3. \A k \in Nat : CostOf(tree)[k] \in Nat
  <2> TAKE k \in Nat
  <2>1. tree[k] \in Moments
      BY DEF IsTree
  <2> QED
      BY <2>1, MomentIs DEF CostOf, Size
<1>4. 1 .. n - 1 \subseteq Nat
    OBVIOUS
<1>5. \A t \in Threads : SpentOf(tree, n)[t] \in Nat
  <2> TAKE t \in Threads
  <2>1. \A k \in Owned(tree, n, t) : CostOf(tree)[k] \in Nat
      BY <1>2, <1>3, <1>4
  <2>2. SumFunctionOnSet(CostOf(tree), Owned(tree, n, t)) \in Nat
      BY <1>2, <2>1, SumNat
  <2> QED
      BY <2>2 DEF SpentOf
<1>6. IsDivided(1 .. n - 1, owner, Threads, groups)
  <2>1. \A k \in 1 .. n - 1 : owner[k] \in Threads
      BY DEF IsTree
  <2>2. \A t \in Threads : groups[t] = {k \in 1 .. n - 1 : owner[k] = t}
      BY DEF Owned
  <2> HIDE DEF owner, groups
  <2> QED
      BY <2>1, <2>2 DEF IsDivided
<1>7. AreSums(SpentOf(tree, n), Threads, CostOf(tree), groups)
  <2>1. \A t \in Threads : SpentOf(tree, n)[t] = SumFunctionOnSet(CostOf(tree), groups[t])
      BY DEF SpentOf
  <2> QED
      BY <2>1, Zenon DEF AreSums
<1>8. IsFiniteSet(Threads) /\ \A k \in 1 .. n - 1 : CostOf(tree)[k] \in Int
    BY <1>3, <1>4, HistoryIs
<1> HIDE DEF owner, groups
<1>9. SumFunctionOnSet(SpentOf(tree, n), Threads) = SumFunctionOnSet(CostOf(tree), 1 .. n - 1)
    BY <1>1, <1>6, <1>7, <1>8, SumPartition
<1> QED
    BY <1>1, <1>2, <1>3, <1>5, <1>9

-----------------------------------------------------------------------------
(* The history files of the clients, as the tree of moments tells them.      *)
Damaged == \E p \in HistoryFiles : logs[p] # <<>> /\ Scanned(logs[p], Len(logs[p])).bad > 0

(* A file that holds all that led to it is read to the token.                *)
Counts(st, m) ==
    /\ Codex!SumOf(st.obs) = Size(m.sum)
    /\ AmountOf(Basis(st)) = IF st.counted THEN m.counter ELSE m.sum
IsExact(tree, origin, rows) ==
    Size(tree[origin].sum) = 0 =>
        \A i \in 1 .. Len(rows) : Counts(Scanned(rows, i), tree[Node(origin, rows, i)])

HistoryTypes ==
    /\ logs \in [HistoryFiles -> Seq(RowsOfCodex)] /\ count \in [HistoryFiles -> Raw]
    /\ codexClock \in Nat \ {0} /\ truth \in Nat /\ masked \in BOOLEAN

(* What was used on the way to a moment began with something that was used,  *)
(* and is not more than all that its thread has used.                        *)
IsUsed(tree, n, k) ==
    /\ Size(tree[k].sum) <= SpentOf(tree, n)[tree[k].owner]
    /\ Size(tree[k].sum) > 0 =>
        \E a \in 1 .. k : /\ tree[a].owner = tree[k].owner /\ tree[a].sum = tree[a].cost
                          /\ Size(tree[a].cost) > 0

(* A file has a row of the moment.                                           *)
HasRow(rows, k, id) == \E i \in 2 .. Len(rows) : rows[i].at = k /\ rows[i].id = id

(* The tree explains what is there: each file is a path from its origin to   *)
(* the moment at which its client is, or would be after a reset; what was    *)
(* used is what the moments cost, and of each there is a row in some file;   *)
(* and unless something is damaged or masked, every file is read to the      *)
(* token.                                                                    *)
IsHistoryOf(tree, origin) ==
    /\ IsTree(tree, codexClock) /\ origin \in [HistoryFiles -> Nat]
    /\ \A p \in HistoryFiles :
        IF logs[p] = <<>> THEN count[p] = Codex!Zero
        ELSE /\ IsPath(tree, codexClock, origin[p], logs[p])
             /\ Amount(count[p]) \in {tree[Node(origin[p], logs[p], Len(logs[p]))].counter, Nil}
    /\ truth = SumFunctionOnSet(CostOf(tree), 1 .. codexClock - 1)
    /\ \A k \in 1 .. codexClock - 1 :
        /\ IsUsed(tree, codexClock, k)
        /\ \E p \in HistoryFiles : HasRow(logs[p], k, tree[k].id)
    /\ masked \/ Damaged \/ \A p \in HistoryFiles : logs[p] # <<>> => IsExact(tree, origin[p], logs[p])

(* The inductive invariant: there is such a tree.                            *)
HistoryInv == HistoryTypes /\ \E tree, origin : IsHistoryOf(tree, origin)

(* The files of the clients are files that a scan can read.                  *)
LEMMA LogsAreFiles ==
    ASSUME HistoryTypes, NEW tree, NEW origin, IsHistoryOf(tree, origin)
    PROVE  AreFiles(logs) /\ DOMAIN logs = HistoryFiles
<1>1. DOMAIN logs = HistoryFiles /\ IsFiniteSet(HistoryFiles) /\ HistoryFiles \subseteq Int
    BY HistoryIs DEF HistoryTypes
<1>2. \A p \in HistoryFiles : logs[p] = <<>> \/ IsPath(tree, codexClock, origin[p], logs[p])
    BY DEF IsHistoryOf
<1>3. \A p \in HistoryFiles : logs[p] = <<>> \/ IsHistory(logs[p])
    BY <1>2 DEF IsPath
<1>4. ASSUME NEW p \in HistoryFiles, NEW i \in 2 .. Len(logs[p])
      PROVE  tree[logs[p][i].at].owner = logs[p][i].thread
  <2>1. logs[p] # <<>>
      OBVIOUS
  <2>2. IsPath(tree, codexClock, origin[p], logs[p])
      BY <1>2, <2>1
  <2> QED
      BY <2>2 DEF IsPath, IsHistory
<1> QED
    BY <1>1, <1>3, <1>4 DEF AreFiles

(* No scan reports more than was used.                                       *)
LEMMA NeverMore ==
    ASSUME HistoryTypes, NEW tree, NEW origin, IsHistoryOf(tree, origin)
    PROVE  Codex!Scan(logs).total <= truth
<1> DEFINE C == Codex!Selected(Observing(logs))
           n == codexClock
<1>1. AreFiles(logs) /\ DOMAIN logs = HistoryFiles /\ n \in Nat /\ IsTree(tree, n)
    BY LogsAreFiles DEF HistoryTypes, IsHistoryOf
<1>2. AreStreams(Observing(logs))
    BY <1>1, ObservingAre
<1>3. C \subseteq Observing(logs) /\ \A s, t \in C : s.key = t.key => s = t
    BY <1>2, SelectedIs
<1>4. /\ \A s \in C : BestOf(C)[s.key] = Codex!SumOf(s.obs)
      /\ \A t \in Threads : BestOf(C)[t] \in Nat
    BY <1>2, <1>3, TotalIs
<1>5. Codex!Scan(logs).total = SumFunctionOnSet(BestOf(C), Threads)
    BY <1>1, ScanIs
<1>6. /\ \A t \in Threads : SpentOf(tree, n)[t] \in Nat
      /\ SumFunctionOnSet(SpentOf(tree, n), Threads) = truth
    BY <1>1, SpentIs DEF IsHistoryOf
<1>7. ASSUME NEW s \in C
      PROVE  s.key \in Threads /\ Codex!SumOf(s.obs) <= SpentOf(tree, n)[s.key]
  <2>1. s \in FilesRead(logs) /\ s.path \in HistoryFiles /\ IsHistory(logs[s.path]) /\ s \in FileStreams
      BY <1>1, <1>3, FilesReadAre DEF Observing
  <2> DEFINE rows == logs[s.path]
             from == origin[s.path]
  <2>2. PICK j \in 1 .. Len(rows) : IsOfFile(s, rows, j)
      BY <1>1, <2>1, FilesReadAre
  <2>3. rows # <<>> /\ Len(rows) \in Nat
      BY <2>1 DEF IsHistory
  <2>4. IsPath(tree, n, from, rows)
      BY <2>1, <2>3 DEF IsHistoryOf
  <2> HIDE DEF rows, from, n
  <2>5. Codex!SumOf(s.obs) <= Size(tree[Node(from, rows, j)].sum)
      BY <1>1, <2>2, <2>4, PathBounded DEF IsOfFile
  <2>6. s.key = rows[1].thread /\ s.key \in Threads /\ s.obs \in Seq(Observations)
      BY <2>1, <2>2 DEF IsOfFile, FileStreams
  <2> DEFINE k == Node(from, rows, j)
  <2>7. k \in 0 .. n - 1 /\ (k = 0 \/ tree[k].owner = rows[1].thread)
      BY ZenonT(60), <1>1, <2>4, PathNode
  <2>8. Size(tree[k].sum) <= SpentOf(tree, n)[s.key]
    <3>1. CASE k = 0
      <4>1. Size(tree[0].sum) = 0
          BY <1>1 DEF IsTree, Nil, Size
      <4> HIDE DEF k
      <4> QED
          BY <1>6, <2>6, <3>1, <4>1
    <3>2. CASE k # 0
      <4>1. k \in 1 .. n - 1 /\ tree[k].owner = s.key
          BY <2>6, <2>7, <3>2
      <4> HIDE DEF k
      <4> QED
          BY <4>1 DEF IsHistoryOf, IsUsed, n
    <3> QED
        BY <3>1, <3>2
  <2>9. Codex!SumOf(s.obs) \in Nat /\ Size(tree[k].sum) \in Nat
    <3>1. tree[k] \in Moments
        BY <1>1, <2>7 DEF IsTree
    <3>2. Size(tree[k].sum) \in Nat
        BY <3>1, MomentIs DEF Size
    <3> QED
        BY <2>6, <3>2, SumOfIs
  <2> HIDE DEF k
  <2> QED
      BY <1>6, <2>5, <2>6, <2>8, <2>9 DEF k
<1> HIDE DEF n
<1>8. \A t \in Threads : BestOf(C)[t] <= SpentOf(tree, n)[t]
  <2> TAKE t \in Threads
  <2>1. CASE \E s \in C : s.key = t
      BY <1>4, <1>7, <2>1
  <2>2. CASE ~\E s \in C : s.key = t
    <3>1. BestOf(C)[t] = 0
        BY <2>2 DEF BestOf
    <3> QED
        BY <1>6, <3>1
  <2> QED
      BY <2>1, <2>2
<1>9. IsFiniteSet(Threads)
    BY HistoryIs
<1> HIDE DEF C
<1>10. SumFunctionOnSet(BestOf(C), Threads) <= SumFunctionOnSet(SpentOf(tree, n), Threads)
    BY <1>4, <1>6, <1>8, <1>9, SumMono
<1> QED
    BY <1>5, <1>6, <1>10

-----------------------------------------------------------------------------
(* What a step leaves as it was: the files that it does not write, and the   *)
(* moments that were there before.                                           *)
IsGrown(tree, n, bigger, m) == n <= m /\ \A k \in 0 .. n - 1 : bigger[k] = tree[k]

(* A file that is not written keeps its path.                                *)
LEMMA PathStays ==
    ASSUME NEW tree, NEW n \in Nat, NEW bigger, NEW m \in Nat, IsGrown(tree, n, bigger, m),
           NEW origin, NEW rows, IsPath(tree, n, origin, rows)
    PROVE  /\ IsPath(bigger, m, origin, rows)
           /\ \A i \in 1 .. Len(rows) : bigger[Node(origin, rows, i)] = tree[Node(origin, rows, i)]
           /\ IsExact(tree, origin, rows) => IsExact(bigger, origin, rows)
<1>1. \A i \in 1 .. Len(rows) : /\ Node(origin, rows, i) \in 0 .. n - 1
                                /\ bigger[Node(origin, rows, i)] = tree[Node(origin, rows, i)]
    BY PathNode DEF IsGrown
<1>2. /\ IsHistory(rows) /\ origin \in 0 .. m - 1 /\ bigger[origin] = tree[origin]
      /\ (origin = 0 \/ bigger[origin].owner = rows[1].thread)
    BY DEF IsPath, IsGrown
<1>3. ASSUME NEW i \in 2 .. Len(rows)
      PROVE  LET r == rows[i] IN
        /\ r.at \in 1 .. m - 1 /\ bigger[r.at].owner = rows[1].thread
        /\ r.kind \in Cumulative => Amount(r.tokens) = bigger[r.at].counter
        /\ r.kind = "last" => Amount(r.tokens) = bigger[r.at].cost
        /\ Follows(bigger, Node(origin, rows, i - 1), r.at, r)
  <2> DEFINE r == rows[i]
  <2>1. /\ r.at \in 1 .. n - 1 /\ tree[r.at].owner = rows[1].thread
        /\ r.kind \in Cumulative => Amount(r.tokens) = tree[r.at].counter
        /\ r.kind = "last" => Amount(r.tokens) = tree[r.at].cost
        /\ Follows(tree, Node(origin, rows, i - 1), r.at, r)
      BY DEF IsPath
  <2>2. r.at \in 1 .. m - 1 /\ bigger[r.at] = tree[r.at]
      BY <2>1 DEF IsGrown
  <2>3. Follows(bigger, Node(origin, rows, i - 1), r.at, r)
      BY <2>1, <2>2 DEF Follows
  <2> QED
      BY <2>1, <2>2, <2>3
<1>4. IsPath(bigger, m, origin, rows)
    BY <1>2, <1>3 DEF IsPath
<1>5. ASSUME IsExact(tree, origin, rows), Size(bigger[origin].sum) = 0, NEW i \in 1 .. Len(rows)
      PROVE  Counts(Scanned(rows, i), bigger[Node(origin, rows, i)])
    BY <1>1, <1>2, <1>5 DEF IsExact
<1> QED
    BY <1>1, <1>4, <1>5 DEF IsExact

(* A file that is marked as damaged stays marked.                            *)
LEMMA BadGrows ==
    ASSUME NEW rows, IsHistory(rows), NEW i \in 1 .. Len(rows), NEW j \in i .. Len(rows)
    PROVE  Scanned(rows, i).bad <= Scanned(rows, j).bad /\ Scanned(rows, i).bad \in Nat
<1> DEFINE B == {x \in 0 .. Len(rows) : x < i \/ Scanned(rows, i).bad <= Scanned(rows, x).bad}
<1>1. \A x \in 1 .. Len(rows) : Scanned(rows, x).bad \in Nat
    BY ReadingIs DEF IsStreamOf, Streams
<1>2. Len(rows) \in Nat
    BY DEF IsHistory
<1>3. ASSUME NEW x \in 1 .. Len(rows), x - 1 \in B
      PROVE  x \in B
  <2>1. CASE x <= i
      BY <1>1, <2>1
  <2>2. CASE x > i
    <3>1. x \in 2 .. Len(rows) /\ x - 1 \in 1 .. Len(rows) /\ Scanned(rows, i).bad <= Scanned(rows, x - 1).bad
        BY <1>3, <2>2
    <3>2. Scanned(rows, x).bad \in {Scanned(rows, x - 1).bad, Scanned(rows, x - 1).bad + 1}
        BY <3>1, ReadingIs DEF IsRowRead
    <3>3. Scanned(rows, i).bad <= Scanned(rows, x).bad
        BY <1>1, <3>1, <3>2
    <3> QED
        BY <3>3
  <2> QED
      BY <2>1, <2>2
<1>4. 0 \in B
    BY <1>2
<1> HIDE DEF B
<1>5. \A x \in 0 .. Len(rows) : x \in B
    BY <1>2, <1>3, <1>4, UpTo
<1>6. j \in B /\ j >= i
    BY <1>5
<1> QED
    BY <1>1, <1>6 DEF B

(* A moment is added.                                                        *)
Extended(tree, n, t, a, cost, counter, id) ==
    [tree EXCEPT ![n] = [owner |-> t, parent |-> a, cost |-> cost, counter |-> counter,
                         sum |-> Add(tree[a].sum, cost), id |-> id]]

(* The tree with one moment more is a tree.                                  *)
LEMMA MomentAdded ==
    ASSUME NEW tree, NEW n \in Nat \ {0}, IsTree(tree, n), NEW t \in Threads,
           NEW a \in 0 .. n - 1,
           a = 0 \/ tree[a].owner = t,
           NEW cost \in Pairs, NEW counter \in Pairs, NEW id \in Nat,
           counter = Add(tree[a].counter, cost) \/ counter = cost,
           NEW bigger, bigger = Extended(tree, n, t, a, cost, counter, id)
    PROVE  /\ IsTree(bigger, n + 1) /\ IsGrown(tree, n, bigger, n + 1)
           /\ bigger[n].owner = t /\ bigger[n].parent = a /\ bigger[n].cost = cost /\ bigger[n].counter = counter
           /\ bigger[n].sum = Add(tree[a].sum, cost) /\ bigger[n].id = id
<1>1. tree[a] \in Moments /\ AtMost(tree[a].counter, tree[a].sum)
  <2>1. tree[a] \in Moments
      BY DEF IsTree
  <2>2. CASE a = 0
      BY <2>1, <2>2 DEF IsTree, AtMost, Nil
  <2>3. CASE a # 0
    <3>1. a \in 1 .. n - 1
        BY <2>3
    <3> QED
        BY <2>1, <3>1 DEF IsTree
  <2> QED
      BY <2>1, <2>2, <2>3
<1> DEFINE sum == Add(tree[a].sum, cost)
           moment == [owner |-> t, parent |-> a, cost |-> cost, counter |-> counter, sum |-> sum, id |-> id]
<1>2. cost[1] \in Nat /\ cost[2] \in Nat
    BY DEF Pairs
<1>3. sum \in Pairs /\ AtMost(counter, sum)
    BY <1>1, <1>2, MomentIs DEF Add, AtMost, Pairs
<1>4. moment \in Moments
    BY <1>3 DEF Moments
<1>5. bigger = [tree EXCEPT ![n] = moment]
    BY DEF Extended, moment
<1> HIDE DEF moment
<1>6. bigger \in [Nat -> Moments] /\ bigger[n] = moment /\ \A k \in Nat : k # n => bigger[k] = tree[k]
    BY <1>4, <1>5 DEF IsTree
<1>7. /\ moment.owner = t /\ moment.parent = a /\ moment.cost = cost /\ moment.counter = counter
      /\ moment.sum = sum /\ moment.id = id
    BY DEF moment
<1>8. \A k \in 0 .. n - 1 : bigger[k] = tree[k]
    BY <1>6
<1> HIDE DEF sum
<1>9. ASSUME NEW k \in 1 .. n
      PROVE  LET m == bigger[k] above == bigger[m.parent] IN
        /\ m.owner \in Threads /\ m.parent < k /\ (m.parent = 0 \/ above.owner = m.owner)
        /\ m.sum = Add(above.sum, m.cost)
        /\ m.counter = Add(above.counter, m.cost) \/ m.counter = m.cost
        /\ AtMost(m.counter, m.sum)
  <2>1. CASE k = n
    <3>1. bigger[a] = tree[a]
        BY <1>8
    <3> QED
        BY <1>3, <1>6, <1>7, <2>1, <3>1 DEF sum
  <2>2. CASE k # n
    <3>1. k \in 1 .. n - 1 /\ bigger[k] = tree[k] /\ tree[k] \in Moments
        BY <1>6, <2>2 DEF IsTree
    <3>2. tree[k].parent < k /\ tree[k].parent \in Nat
        BY <3>1 DEF IsTree, Moments
    <3>3. bigger[tree[k].parent] = tree[tree[k].parent]
        BY <1>8, <3>1, <3>2
    <3> QED
        BY <3>1, <3>3 DEF IsTree
  <2> QED
      BY <2>1, <2>2
<1>10. bigger[0] = tree[0]
    BY <1>8
<1>11. IsTree(bigger, n + 1)
  <2>1. (n + 1) - 1 = n
      OBVIOUS
  <2>2. tree[0].cost = Nil /\ tree[0].counter = Nil /\ tree[0].sum = Nil
      BY DEF IsTree
  <2> QED
      BY <1>6, <1>9, <1>10, <2>1, <2>2 DEF IsTree
<1> QED
    BY <1>6, <1>7, <1>8, <1>11 DEF IsGrown, sum

-----------------------------------------------------------------------------
(* What was used with the moment added.                                      *)
LEMMA SpentAdds ==
    ASSUME NEW tree, NEW n \in Nat \ {0}, IsTree(tree, n), NEW bigger, IsTree(bigger, n + 1),
           IsGrown(tree, n, bigger, n + 1)
    PROVE  /\ SpentOf(bigger, n + 1)[bigger[n].owner] = SpentOf(tree, n)[bigger[n].owner] + Size(bigger[n].cost)
           /\ \A u \in Threads : SpentOf(tree, n)[u] <= SpentOf(bigger, n + 1)[u]
           /\ SumFunctionOnSet(CostOf(bigger), 1 .. n) = SumFunctionOnSet(CostOf(tree), 1 .. n - 1) + Size(bigger[n].cost)
<1> DEFINE t == bigger[n].owner
           f == CostOf(tree)
           g == CostOf(bigger)
<1>1. /\ IsFiniteSet(1 .. n - 1) /\ (\A u : IsFiniteSet(Owned(tree, n, u)))
      /\ \A k \in Nat : f[k] \in Nat
      /\ \A u \in Threads : SpentOf(tree, n)[u] \in Nat
    BY SpentIs
<1>2. \A k \in Nat : g[k] \in Nat
    BY SpentIs
<1>3. t \in Threads /\ g[n] = Size(bigger[n].cost)
  <2>1. n \in 1 .. (n + 1) - 1
      OBVIOUS
  <2> QED
      BY <2>1 DEF IsTree, CostOf
<1>4. \A k \in 1 .. n - 1 : bigger[k] = tree[k] /\ g[k] = f[k]
  <2>1. \A k \in 1 .. n - 1 : k \in 0 .. n - 1 /\ k \in Nat
      OBVIOUS
  <2> QED
      BY <2>1 DEF IsGrown, CostOf
<1>5. 1 .. n = (1 .. n - 1) \union {n} /\ n \notin 1 .. n - 1 /\ (n + 1) - 1 = n /\ 1 .. n \subseteq Nat
    OBVIOUS
<1> HIDE DEF f, g
<1>6. SumFunctionOnSet(g, 1 .. n) = SumFunctionOnSet(f, 1 .. n - 1) + g[n]
  <2>1. SumFunctionOnSet(g, (1 .. n - 1) \union {n}) = SumFunctionOnSet(g, 1 .. n - 1) + g[n]
    <3>1. \A y \in (1 .. n - 1) \union {n} : g[y] \in Int
        BY <1>2, <1>5
    <3>2. n \notin 1 .. n - 1 /\ IsFiniteSet(1 .. n - 1)
        BY <1>1
    <3> QED
        BY <3>1, <3>2, SumAdd
  <2>2. SumFunctionOnSet(f, 1 .. n - 1) = SumFunctionOnSet(g, 1 .. n - 1)
      BY <1>1, <1>4, <1>5, SumEqual
  <2> QED
      BY <1>5, <2>1, <2>2
<1>7. ASSUME NEW u \in Threads
      PROVE  SumFunctionOnSet(g, Owned(bigger, n + 1, u))
               = IF u = t THEN SumFunctionOnSet(f, Owned(tree, n, u)) + g[n]
                 ELSE SumFunctionOnSet(f, Owned(tree, n, u))
  <2> DEFINE O == Owned(tree, n, u)
  <2>1. Owned(bigger, n + 1, u) = IF u = t THEN O \union {n} ELSE O
      BY <1>4, <1>5 DEF Owned
  <2>2. O \subseteq 1 .. n - 1 /\ n \notin O /\ IsFiniteSet(O)
      BY <1>1, <1>5 DEF Owned
  <2> HIDE DEF O
  <2>3. SumFunctionOnSet(f, O) = SumFunctionOnSet(g, O)
    <3>1. \A x \in O : f[x] \in Int /\ f[x] = g[x]
        BY <1>1, <1>4, <1>5, <2>2
    <3> QED
        BY <2>2, <3>1, SumEqual
  <2>4. SumFunctionOnSet(g, O \union {n}) = SumFunctionOnSet(g, O) + g[n]
    <3>1. \A y \in O \union {n} : g[y] \in Int
        BY <1>2, <1>5, <2>2
    <3> QED
        BY <2>2, <3>1, SumAdd
  <2> QED
      BY <2>1, <2>3, <2>4 DEF O
<1>8. \A u \in Threads : /\ SpentOf(tree, n)[u] = SumFunctionOnSet(f, Owned(tree, n, u))
                         /\ SpentOf(bigger, n + 1)[u] = SumFunctionOnSet(g, Owned(bigger, n + 1, u))
    BY DEF SpentOf, f, g
<1>9. SpentOf(bigger, n + 1)[t] = SpentOf(tree, n)[t] + g[n]
    BY <1>3, <1>7, <1>8
<1>10. \A u \in Threads : SpentOf(tree, n)[u] <= SpentOf(bigger, n + 1)[u]
  <2> TAKE u \in Threads
  <2>1. SpentOf(tree, n)[u] \in Nat /\ g[n] \in Nat
      BY <1>1, <1>2
  <2>2. SpentOf(bigger, n + 1)[u] \in {SpentOf(tree, n)[u], SpentOf(tree, n)[u] + g[n]}
      BY <1>7, <1>8
  <2> QED
      BY <2>1, <2>2
<1> QED
    BY <1>3, <1>6, <1>9, <1>10 DEF f, g

(* A row is appended to a file.                                              *)
LEMMA PathAppended ==
    ASSUME NEW tree, NEW n \in Nat, IsTree(tree, n), NEW origin, NEW rows,
           IsPath(tree, n, origin, rows),
           NEW r \in RowsOfCodex, r.kind # "meta", r.thread = rows[1].thread,
           r.id # 0 => r.id = r.at,
           r.at \in 1 .. n - 1, tree[r.at].owner = r.thread,
           r.kind \in Cumulative => Amount(r.tokens) = tree[r.at].counter,
           r.kind = "last" => Amount(r.tokens) = tree[r.at].cost,
           Follows(tree, Node(origin, rows, Len(rows)), r.at, r),
           \A i \in 2 .. Len(rows) : \/ rows[i].at < r.at
                                     \/ rows[i].at = r.at /\ rows[i].id # 0 /\ r.id = 0
    PROVE  /\ IsPath(tree, n, origin, Append(rows, r)) /\ Len(Append(rows, r)) = Len(rows) + 1
           /\ \A i \in 1 .. Len(rows) : /\ Append(rows, r)[i] = rows[i]
                                        /\ Node(origin, Append(rows, r), i) = Node(origin, rows, i)
                                        /\ Scanned(Append(rows, r), i) = Scanned(rows, i)
           /\ Append(rows, r)[Len(rows) + 1] = r /\ Node(origin, Append(rows, r), Len(rows) + 1) = r.at
<1> DEFINE more == Append(rows, r)
           k == Len(rows)
<1>1. IsHistory(rows) /\ rows \in Seq(RowsOfCodex) /\ k \in Nat \ {0}
  <2>1. IsHistory(rows)
      BY DEF IsPath
  <2> QED
      BY <2>1 DEF IsHistory
<1>2. /\ more \in Seq(RowsOfCodex) /\ Len(more) = k + 1 /\ more[k + 1] = r /\ \A i \in 1 .. k : more[i] = rows[i]
    BY <1>1
<1> HIDE DEF more, k
<1>3. more[1] = rows[1] /\ \A i \in 2 .. k : more[i] = rows[i] /\ i \in 2 .. k + 1
    BY <1>1, <1>2
<1>4. IsHistory(more)
  <2>1. more[1].kind = "meta" /\ Len(more) > 0
      BY <1>1, <1>2, <1>3 DEF IsHistory
  <2>2. ASSUME NEW i \in 2 .. k + 1
        PROVE  /\ more[i].kind # "meta" /\ more[i].thread = more[1].thread
               /\ more[i].id # 0 => more[i].id = more[i].at
               /\ \A j \in 2 .. k + 1 : i < j => \/ more[i].at < more[j].at
                                                 \/ more[i].at = more[j].at /\ more[i].id # 0 /\ more[j].id = 0
    <3>1. CASE i = k + 1
      <4>1. \A j \in 2 .. k + 1 : ~(i < j)
          BY <1>1, <3>1
      <4> QED
          BY <1>2, <1>3, <3>1, <4>1
    <3>2. CASE i # k + 1
      <4>1. i \in 2 .. k /\ more[i] = rows[i]
          BY <1>1, <1>3, <3>2
      <4>2. /\ rows[i].kind # "meta" /\ rows[i].thread = rows[1].thread
            /\ rows[i].id # 0 => rows[i].id = rows[i].at
          BY <1>1, <4>1 DEF IsHistory, k
      <4>3. ASSUME NEW j \in 2 .. k + 1, i < j
            PROVE  \/ more[i].at < more[j].at
                   \/ more[i].at = more[j].at /\ more[i].id # 0 /\ more[j].id = 0
        <5>1. CASE j = k + 1
            BY <1>2, <4>1, <5>1 DEF k
        <5>2. CASE j # k + 1
          <6>1. j \in 2 .. k /\ more[j] = rows[j]
              BY <1>1, <1>3, <5>2
          <6> QED
              BY <1>1, <4>1, <4>3, <6>1 DEF IsHistory, k
        <5> QED
            BY <5>1, <5>2
      <4> QED
          BY <1>3, <4>1, <4>2, <4>3
    <3> QED
        BY <3>1, <3>2
  <2> QED
      BY <1>2, <2>1, <2>2 DEF IsHistory
<1>5. \A i \in 1 .. k : Node(origin, more, i) = Node(origin, rows, i)
    BY <1>2 DEF Node
<1>6. Node(origin, more, k + 1) = r.at
    BY <1>1, <1>2 DEF Node
<1>7. \A i \in 1 .. k : Scanned(more, i) = Scanned(rows, i)
  <2> TAKE i \in 1 .. k
  <2>1. i \in Nat /\ \A j \in 1 .. i : more[j] = rows[j]
      BY <1>1, <1>2
  <2> QED
      BY <2>1, ReadingSame
<1>8. IsPath(tree, n, origin, more)
  <2>1. ASSUME NEW i \in 2 .. k + 1
        PROVE  LET s == more[i] IN
          /\ s.at \in 1 .. n - 1 /\ tree[s.at].owner = more[1].thread
          /\ s.kind \in Cumulative => Amount(s.tokens) = tree[s.at].counter
          /\ s.kind = "last" => Amount(s.tokens) = tree[s.at].cost
          /\ Follows(tree, Node(origin, more, i - 1), s.at, s)
    <3>1. CASE i = k + 1
      <4>1. i - 1 = k /\ k \in 1 .. k
          BY <1>1, <3>1
      <4>2. Node(origin, more, i - 1) = Node(origin, rows, k)
          BY <1>5, <4>1
      <4> QED
          BY <1>2, <1>3, <3>1, <4>2 DEF k
    <3>2. CASE i # k + 1
      <4>1. i \in 2 .. k /\ i - 1 \in 1 .. k
          BY <1>1, <3>2
      <4>2. more[i] = rows[i] /\ Node(origin, more, i - 1) = Node(origin, rows, i - 1)
          BY <1>3, <1>5, <4>1
      <4> QED
          BY <1>3, <4>1, <4>2 DEF IsPath, k
    <3> QED
        BY <3>1, <3>2
  <2>2. origin \in 0 .. n - 1 /\ (origin = 0 \/ tree[origin].owner = more[1].thread)
      BY <1>3 DEF IsPath
  <2> QED
      BY <1>2, <1>4, <2>1, <2>2 DEF IsPath
<1> QED
    BY <1>2, <1>5, <1>6, <1>7, <1>8 DEF more, k

-----------------------------------------------------------------------------
(* A row that is no worse is counted to the token: from is the counter that  *)
(* the client went on with.                                                  *)
IsLess(x, b) == x[1] < b[1] \/ x[2] < b[2]

(* A row of the next moment, read by who had seen all before it.             *)
LEMMA CountsStep ==
    ASSUME NEW st \in Streams, NEW r \in RowsOfCodex, r.kind # "meta", NEW to,
           IsRowRead(st, r, to),
           to.bad = st.bad, NEW a \in Moments, NEW m \in Moments, AtMost(a.counter, a.sum),
           Counts(st, a), NEW d \in Pairs, m.sum = Add(a.sum, d),
           r.kind = "last" => Amount(r.tokens) = d,
           NEW from, from \in {a.counter, Nil},
           r.kind \in Cumulative => /\ Amount(r.tokens) = Add(from, d) /\ m.counter = Add(from, d)
                                    /\ IsLess(from, AmountOf(Basis(st))) => IsLess(Amount(r.tokens), AmountOf(Basis(st)))
    PROVE  Counts(to, m)
<1> DEFINE x == Amount(r.tokens)
           b == AmountOf(Basis(st))
           c == AmountOf(Basis(to))
           S == Codex!SumOf(st.obs)
           T == Codex!SumOf(to.obs)
           inc == Codex!Total(Increment(st, r))
<1>1. T = S + inc /\ inc \in Nat /\ S \in Nat
    BY RowSum
<1>2. /\ x \in Pairs /\ b \in Pairs /\ Size(b) = Codex!Total(Basis(st))
      /\ AmountOf(Codex!Tokens(r.tokens)) = x /\ Codex!Total(Codex!Tokens(r.tokens)) = Size(x)
      /\ Codex!Decreased(Codex!Tokens(r.tokens), Basis(st)) <=> IsLess(x, b)
      /\ inc = IF r.kind = "damaged" \/ (r.kind = "last" /\ st.counted) THEN 0
               ELSE IF r.kind = "last" THEN Size(x)
               ELSE IF ~IsLess(x, b) THEN Size(x) - Size(b)
               ELSE IF st.counted THEN Size(x) ELSE 0
    BY IncrementIs DEF IsLess
<1>3. /\ st.prev \in Disjoint /\ st.pre \in Disjoint /\ Codex!Tokens(r.tokens) \in Disjoint
      /\ st.counted \in BOOLEAN /\ st.bad \in Nat
    BY EventType DEF Streams
<1>4. ~Worse(st, r)
    BY <1>3 DEF IsRowRead
<1>5. S = Size(a.sum) /\ b = IF st.counted THEN a.counter ELSE a.sum
    BY DEF Counts
<1>6. (r.kind = "last" \/ r.kind \in Cumulative) /\ ~(r.kind = "last" /\ r.kind \in Cumulative) /\ r.kind # "damaged"
    BY <1>4 DEF RowsOfCodex, Cumulative, Worse
<1>7. /\ a.counter[1] \in Nat /\ a.counter[2] \in Nat /\ a.sum[1] \in Nat /\ a.sum[2] \in Nat
      /\ d[1] \in Nat /\ d[2] \in Nat /\ a.counter \in Pairs /\ a.sum \in Pairs /\ m.sum \in Pairs
      /\ m.sum[1] = a.sum[1] + d[1] /\ m.sum[2] = a.sum[2] + d[2]
    BY MomentIs DEF Pairs, Add
<1>8. Counts(to, m) <=> T = Size(m.sum) /\ c = IF to.counted THEN m.counter ELSE m.sum
    BY DEF Counts
<1>9. to.counted = (st.counted \/ r.kind \in Cumulative)
    BY DEF IsRowRead
<1>10. CASE r.kind = "last"
  <2>1. ~st.counted /\ ~to.counted /\ inc = Size(x) /\ x = d
      BY <1>2, <1>3, <1>4, <1>6, <1>9, <1>10 DEF Worse
  <2>2. c = m.sum
    <3>1. CASE Codex!Total(Codex!Tokens(r.tokens)) # 0
      <4>1. to.pre = Codex!Plus(st.pre, Codex!Tokens(r.tokens))
          BY <1>10, <2>1, <3>1 DEF IsRowRead
      <4>2. AmountOf(to.pre) = Add(AmountOf(st.pre), x)
          BY <1>2, <1>3, <4>1, TokensPlus
      <4>3. c = AmountOf(to.pre) /\ b = AmountOf(st.pre)
          BY <2>1 DEF Basis
      <4> QED
          BY <1>5, <2>1, <4>2, <4>3
    <3>2. CASE Codex!Total(Codex!Tokens(r.tokens)) = 0
      <4>1. to.pre = st.pre
          BY <3>2 DEF IsRowRead
      <4>2. c = b
          BY <2>1, <4>1 DEF Basis
      <4>3. Size(d) = 0
          BY <1>2, <2>1, <3>2
      <4>4. d[1] = 0 /\ d[2] = 0
          BY <1>7, <4>3 DEF Size
      <4>5. m.sum = a.sum
          BY <1>7, <4>4 DEF Pairs
      <4> QED
          BY <1>5, <2>1, <4>2, <4>5
    <3> QED
        BY <3>1, <3>2
  <2>3. Size(m.sum) = Size(a.sum) + Size(d)
      BY <1>7 DEF Size
  <2> QED
      BY <1>1, <1>5, <1>8, <2>1, <2>2, <2>3
<1>11. CASE r.kind \in Cumulative
  <2>1. to.counted /\ c = x
    <3>1. to.counted /\ to.prev = Codex!Tokens(r.tokens)
        BY <1>9, <1>11 DEF IsRowRead
    <3> QED
        BY <1>2, <3>1 DEF Basis
  <2>2. x = Add(from, d) /\ x = m.counter /\ (IsLess(from, b) => IsLess(x, b))
      BY <1>11
  <2>3. inc = IF ~IsLess(x, b) THEN Size(x) - Size(b) ELSE IF st.counted THEN Size(x) ELSE 0
      BY <1>2, <1>6, <1>11
  <2>4. ~st.counted => ~IsLess(x, b)
    <3>1. IsLess(x, b) /\ ~st.counted => Codex!Decreased(Codex!Tokens(r.tokens), st.pre)
        BY <1>2 DEF Basis
    <3> QED
        BY <1>4, <1>11, <3>1 DEF Worse
  <2>5. from = a.counter \/ from = Nil
      OBVIOUS
  <2> HIDE DEF x, b, c, S, T, inc
  <2>6. PICK p \in Nat, q \in Nat, u \in Nat, v \in Nat, e \in Nat, f \in Nat, y \in Nat,
             z \in Nat :
            /\ p = a.counter[1] /\ q = a.counter[2] /\ u = a.sum[1] /\ v = a.sum[2] /\ e = d[1] /\ f = d[2]
            /\ (from = a.counter \/ from = Nil) /\ y = from[1] /\ z = from[2]
            /\ a.counter = <<p, q>> /\ a.sum = <<u, v>>
      BY <1>7, <2>5 DEF Nil, Pairs
  <2>7. (y = p /\ z = q) \/ (y = 0 /\ z = 0)
      BY <2>6 DEF Nil
  <2>8. x[1] = y + e /\ x[2] = z + f /\ Size(x) = (y + e) + (z + f)
      BY <2>2, <2>6 DEF Add, Size
  <2>9. Size(m.sum) = (u + e) + (v + f) /\ S = u + v /\ p <= u /\ q <= v
      BY <1>5, <1>7, <2>6 DEF Size, AtMost
  <2>10. CASE st.counted
    <3>1. b[1] = p /\ b[2] = q /\ Size(b) = p + q
        BY <1>5, <2>6, <2>10 DEF Size
    <3>2. IsLess(x, b) <=> y + e < p \/ z + f < q
        BY <2>8, <3>1 DEF IsLess
    <3>3. IsLess(from, b) <=> y < p \/ z < q
        BY <2>6, <3>1 DEF IsLess
    <3>4. S + inc = (u + e) + (v + f)
      <4>1. CASE IsLess(x, b)
        <5>1. y = 0 /\ z = 0
            BY <2>6, <2>7, <3>2, <4>1
        <5>2. inc = (y + e) + (z + f)
            BY <2>3, <2>8, <2>10, <4>1
        <5> QED
            BY <2>9, <5>1, <5>2
      <4>2. CASE ~IsLess(x, b)
        <5>1. y >= p /\ z >= q
            BY <2>2, <2>6, <3>3, <4>2
        <5>2. y = p /\ z = q
            BY <2>6, <2>7, <5>1
        <5>3. inc = ((y + e) + (z + f)) - (p + q)
            BY <2>3, <2>8, <3>1, <4>2
        <5>4. inc = e + f
          <6>1. inc = ((p + e) + (q + f)) - (p + q)
              BY <5>2, <5>3
          <6> QED
              BY <6>1
        <5>5. S = u + v
            BY <2>9
        <5> QED
            BY <5>4, <5>5
      <4> QED
          BY <4>1, <4>2
    <3> QED
        BY <1>1, <1>8, <2>1, <2>2, <2>9, <3>4
  <2>11. CASE ~st.counted
    <3>1. b[1] = u /\ b[2] = v /\ Size(b) = u + v
        BY <1>5, <2>6, <2>11 DEF Size
    <3>2. ~IsLess(x, b) /\ inc = ((y + e) + (z + f)) - (u + v)
        BY <2>3, <2>4, <2>8, <2>11, <3>1
    <3>3. ~(y < u \/ z < v)
        BY <2>2, <2>6, <3>1, <3>2 DEF IsLess
    <3>4. y = u /\ z = v
        BY <2>6, <2>7, <2>9, <3>3
    <3>5. S + inc = (u + e) + (v + f)
        BY <2>6, <2>9, <3>2, <3>4
    <3> QED
        BY <1>1, <1>8, <2>1, <2>2, <2>9, <3>5
  <2> QED
      BY <1>3, <2>10, <2>11
<1> QED
    BY <1>6, <1>10, <1>11

-----------------------------------------------------------------------------
(* Conversely, where a row was counted to the token, and the counter did not *)
(* go back, the client had gone on from what was known.                      *)
LEMMA WentOn ==
    ASSUME NEW st \in Streams, NEW r \in RowsOfCodex, r.kind \in Cumulative, NEW to,
           IsRowRead(st, r, to),
           NEW a \in Moments, NEW m \in Moments, AtMost(a.counter, a.sum),
           Counts(st, a), Counts(to, m), NEW d \in Pairs, m.sum = Add(a.sum, d),
           NEW from, from \in {a.counter, Nil}, Amount(r.tokens) = Add(from, d),
           ~IsLess(Amount(r.tokens), AmountOf(Basis(st)))
    PROVE  ~IsLess(from, AmountOf(Basis(st)))
<1> DEFINE x == Amount(r.tokens)
           b == AmountOf(Basis(st))
           S == Codex!SumOf(st.obs)
           T == Codex!SumOf(to.obs)
           inc == Codex!Total(Increment(st, r))
<1>1. T = S + inc /\ inc \in Nat /\ S \in Nat
    BY RowSum
<1>2. r.kind # "damaged" /\ r.kind # "last"
    BY DEF Cumulative
<1>3. inc = Size(x) - Size(b) /\ b \in Pairs
  <2>1. /\ b \in Pairs
        /\ inc = IF r.kind = "damaged" \/ (r.kind = "last" /\ st.counted) THEN 0
                 ELSE IF r.kind = "last" THEN Size(x)
                 ELSE IF ~IsLess(x, b) THEN Size(x) - Size(b)
                 ELSE IF st.counted THEN Size(x) ELSE 0
      BY IncrementIs DEF IsLess
  <2> HIDE DEF x, b, inc
  <2>2. ~IsLess(x, b)
      BY DEF x, b
  <2> QED
      BY <1>2, <2>1, <2>2
<1>4. S = Size(a.sum) /\ T = Size(m.sum) /\ (b = a.counter \/ b = a.sum)
    BY DEF Counts
<1>5. /\ a.counter \in Pairs /\ a.sum \in Pairs /\ from \in Pairs /\ from \in {a.counter, Nil}
      /\ a.counter[1] <= a.sum[1] /\ a.counter[2] <= a.sum[2] /\ x = Add(from, d)
    BY MomentIs DEF AtMost, Nil, Pairs
<1> HIDE DEF x, b, S, T, inc
<1>14. PICK p \in Nat, q \in Nat, u \in Nat, v \in Nat : a.counter = <<p, q>> /\ a.sum = <<u, v>>
    BY <1>5 DEF Pairs
<1>15. PICK e \in Nat, f \in Nat, y \in Nat, z \in Nat : d = <<e, f>> /\ from = <<y, z>>
    BY <1>5 DEF Pairs
<1>6. a.counter = <<p, q>> /\ a.sum = <<u, v>> /\ d = <<e, f>> /\ from = <<y, z>>
    BY <1>14, <1>15
<1>7. PICK g \in Nat, h \in Nat : b = <<g, h>>
    BY <1>3 DEF Pairs
<1>8. ((y = p /\ z = q) \/ (y = 0 /\ z = 0)) /\ p <= u /\ q <= v
    BY <1>5, <1>6 DEF Nil
<1>9. (g = p /\ h = q) \/ (g = u /\ h = v)
    BY <1>4, <1>6, <1>7
<1>10. Size(x) = (y + e) + (z + f) /\ Size(b) = g + h
    BY <1>5, <1>6, <1>7 DEF Add, Size
<1>11. S = u + v /\ T = (u + e) + (v + f)
    BY <1>4, <1>6 DEF Add, Size
<1>12. y + z = g + h
  <2>1. S + inc = T /\ inc = ((y + e) + (z + f)) - (g + h)
      BY <1>1, <1>3, <1>10
  <2>2. (u + v) + (((y + e) + (z + f)) - (g + h)) = (u + e) + (v + f)
      BY <1>11, <2>1
  <2> QED
      BY <2>2
<1>13. ~(y < g \/ z < h)
    BY <1>8, <1>9, <1>12
<1> QED
    BY <1>6, <1>7, <1>13 DEF IsLess, b

(* On the way, nothing that was used is taken back.                          *)
LEMMA SumGrows ==
    ASSUME NEW tree, NEW n \in Nat, IsTree(tree, n), NEW origin, NEW rows,
           IsPath(tree, n, origin, rows),
           NEW j \in 1 .. Len(rows)
    PROVE  /\ Size(tree[origin].sum) <= Size(tree[Node(origin, rows, j)].sum)
           /\ Size(tree[origin].sum) \in Nat /\ Size(tree[Node(origin, rows, j)].sum) \in Nat
<1> DEFINE At(i) == tree[Node(origin, rows, i)]
           B == {i \in 0 .. Len(rows) : i = 0 \/ Size(tree[origin].sum) <= Size(At(i).sum)}
<1>1. Len(rows) \in Nat
    BY DEF IsPath, IsHistory
<1>2. \A i \in 1 .. Len(rows) : At(i) \in Moments /\ Size(At(i).sum) \in Nat
  <2> TAKE i \in 1 .. Len(rows)
  <2>1. At(i) \in Moments
      BY PathNode DEF IsTree
  <2> HIDE DEF At
  <2> QED
      BY <2>1, MomentIs DEF Size
<1>3. At(1) = tree[origin]
    BY DEF Node
<1>4. ASSUME NEW i \in 1 .. Len(rows), i - 1 \in B
      PROVE  i \in B
  <2>1. 1 \in 1 .. Len(rows)
      BY <1>1
  <2>2. Size(tree[origin].sum) \in Nat
      BY <1>2, <1>3, <2>1
  <2>3. CASE i = 1
    <3> HIDE DEF At
    <3> QED
        BY <1>3, <2>2, <2>3
  <2>4. CASE i # 1
    <3>1. i \in 2 .. Len(rows) /\ i - 1 \in 1 .. Len(rows)
        BY <2>4
    <3>2. PICK d : IsStep(At(i - 1), At(i), d)
        BY <3>1, PathStep
    <3>3. At(i) \in Moments /\ At(i - 1) \in Moments
        BY <1>2, <3>1
    <3> HIDE DEF At
    <3>4. Size(At(i - 1).sum) <= Size(At(i).sum)
        BY <3>2, <3>3, MomentIs DEF IsStep, Size, Pairs
    <3>5. Size(tree[origin].sum) <= Size(At(i - 1).sum)
        BY <1>4, <3>1
    <3> QED
        BY <1>2, <2>2, <3>1, <3>4, <3>5
  <2> QED
      BY <2>3, <2>4
<1>5. 0 \in B
    BY <1>1
<1> HIDE DEF B
<1>6. \A i \in 0 .. Len(rows) : i \in B
    BY <1>1, <1>4, <1>5, UpTo
<1>7. j \in B /\ j # 0 /\ 1 \in 1 .. Len(rows)
    BY <1>1, <1>6
<1> QED
    BY <1>2, <1>3, <1>7 DEF B

IsHead(head, rows, k) == head = SubSeq(rows, 1, k)

(* A file that is cut off after some rows: what was read of it is exact.     *)
LEMMA HeadPath ==
    ASSUME NEW tree, NEW n \in Nat, NEW origin, NEW rows, IsPath(tree, n, origin, rows),
           NEW k \in 1 .. Len(rows),
           NEW head, IsHead(head, rows, k)
    PROVE  /\ IsPath(tree, n, origin, head)
           /\ IsExact(tree, origin, rows) => IsExact(tree, origin, head)
<1>1. IsHistory(rows)
    BY DEF IsPath
<1>2. /\ IsHistory(head) /\ Len(head) = k /\ head[1] = rows[1]
      /\ \A i \in 1 .. k : head[i] = rows[i] /\ Scanned(head, i) = Scanned(rows, i)
    BY <1>1, HeadIs DEF IsHead
<1>3. \A i \in 1 .. k : Node(origin, head, i) = Node(origin, rows, i)
    BY <1>2 DEF Node
<1>4. \A i \in 1 .. k : i \in 1 .. Len(rows)
    OBVIOUS
<1>5. ASSUME NEW i \in 2 .. k
      PROVE  LET r == head[i] IN
        /\ r.at \in 1 .. n - 1 /\ tree[r.at].owner = head[1].thread
        /\ r.kind \in Cumulative => Amount(r.tokens) = tree[r.at].counter
        /\ r.kind = "last" => Amount(r.tokens) = tree[r.at].cost
        /\ Follows(tree, Node(origin, head, i - 1), r.at, r)
  <2>1. i \in 2 .. Len(rows) /\ i \in 1 .. k /\ i - 1 \in 1 .. k
      OBVIOUS
  <2>2. head[i] = rows[i] /\ Node(origin, head, i - 1) = Node(origin, rows, i - 1)
      BY <1>2, <1>3, <2>1
  <2> QED
      BY <1>2, <2>1, <2>2 DEF IsPath
<1>6. IsPath(tree, n, origin, head)
  <2>1. origin \in 0 .. n - 1 /\ (origin = 0 \/ tree[origin].owner = head[1].thread)
      BY <1>2 DEF IsPath
  <2> QED
      BY <1>2, <1>5, <2>1 DEF IsPath
<1>7. IsExact(tree, origin, rows) => IsExact(tree, origin, head)
    BY <1>2, <1>3, <1>4 DEF IsExact
<1> QED
    BY <1>2, <1>3, <1>6, <1>7

IsTail(tail, rows, k) == tail = <<rows[1]>> \o SubSeq(rows, k + 1, Len(rows))

(* A file that starts again after some rows starts at the moment of the last *)
(* row that is missing.                                                      *)
LEMMA TailPath ==
    ASSUME NEW tree, NEW n \in Nat, IsTree(tree, n), NEW origin, NEW rows,
           IsPath(tree, n, origin, rows),
           NEW k \in 2 .. Len(rows), NEW tail, IsTail(tail, rows, k),
           NEW from, from = Node(origin, rows, k)
    PROVE  /\ IsPath(tree, n, from, tail) /\ Len(tail) = Len(rows) - k + 1 /\ tail[1] = rows[1]
           /\ \A j \in 2 .. Len(tail) : tail[j] = rows[j + k - 1]
           /\ \A j \in 1 .. Len(tail) : Node(from, tail, j) = Node(origin, rows, j + k - 1)
<1>1. IsHistory(rows)
    BY DEF IsPath
<1>2. rows \in Seq(RowsOfCodex) /\ Len(rows) \in Nat /\ rows[1] \in RowsOfCodex
    BY <1>1 DEF IsHistory
<1> DEFINE s == SubSeq(rows, k + 1, Len(rows))
<1>3. /\ s \in Seq(RowsOfCodex) /\ Len(s) = Len(rows) - k
      /\ \A i \in 1 .. Len(rows) - k : s[i] = rows[i + k]
    BY <1>2
<1> HIDE DEF s
<1>4. /\ tail \in Seq(RowsOfCodex) /\ Len(tail) = Len(rows) - k + 1 /\ tail[1] = rows[1]
      /\ \A j \in 2 .. Len(tail) : tail[j] = s[j - 1]
  <2>1. tail = <<rows[1]>> \o s
      BY DEF s, IsTail
  <2>2. PICK m \in Seq(RowsOfCodex) : m = <<rows[1]>> /\ Len(m) = 1 /\ m[1] = rows[1]
    <3>1. <<rows[1]>> \in Seq(RowsOfCodex) /\ Len(<<rows[1]>>) = 1 /\ <<rows[1]>>[1] = rows[1]
        BY <1>2
    <3> QED
        BY <3>1
  <2>3. /\ m \o s \in Seq(RowsOfCodex) /\ Len(m \o s) = 1 + Len(s) /\ (m \o s)[1] = m[1]
        /\ \A j \in 2 .. 1 + Len(s) : (m \o s)[j] = s[j - 1]
    <3>1. Len(m) = 1
        BY <2>2
    <3>2. m \o s \in Seq(RowsOfCodex) /\ Len(m \o s) = Len(m) + Len(s)
      <4>1. s \in Seq(RowsOfCodex)
          BY <1>3
      <4>2. m \o s \in Seq(RowsOfCodex)
          BY <4>1
      <4>3. Len(m \o s) = Len(m) + Len(s)
          BY <4>1
      <4> QED
          BY <4>2, <4>3
    <3>3. \A j \in 1 .. Len(m) + Len(s) : (m \o s)[j] = IF j <= Len(m) THEN m[j] ELSE s[j - Len(m)]
        BY <1>3
    <3>4. Len(s) \in Nat
        BY <1>3
    <3> QED
        BY <3>1, <3>2, <3>3, <3>4
  <2>4. tail = m \o s
      BY <2>1, <2>2
  <2>5. 1 + Len(s) = Len(rows) - k + 1
      BY <1>2, <1>3
  <2> QED
      BY <2>2, <2>3, <2>4, <2>5
<1>5. ASSUME NEW j \in 2 .. Len(tail)
      PROVE  tail[j] = rows[j + k - 1] /\ j + k - 1 \in 2 .. Len(rows) /\ (j - 1) + k - 1 \in 1 .. Len(rows)
  <2>1. j - 1 \in 1 .. Len(rows) - k /\ (j - 1) + k = j + k - 1
      BY <1>2, <1>4
  <2>2. tail[j] = rows[j + k - 1]
      BY <1>3, <1>4, <2>1
  <2> QED
      BY <1>2, <1>4, <2>1, <2>2
<1>6. ASSUME NEW j \in 1 .. Len(tail)
      PROVE  Node(from, tail, j) = Node(origin, rows, j + k - 1)
  <2>1. CASE j = 1
    <3>1. j + k - 1 = k
        BY <2>1
    <3> QED
        BY <2>1, <3>1 DEF Node
  <2>2. CASE j # 1
    <3>1. j \in 2 .. Len(tail) /\ j + k - 1 # 1
        BY <1>2, <1>4, <2>2
    <3> QED
        BY <1>5, <2>2, <3>1 DEF Node
  <2> QED
      BY <2>1, <2>2
<1>7. IsHistory(tail)
  <2>1. Len(tail) > 0 /\ tail[1].kind = "meta"
      BY <1>1, <1>2, <1>4 DEF IsHistory
  <2>2. ASSUME NEW i \in 2 .. Len(tail)
        PROVE  /\ tail[i].kind # "meta" /\ tail[i].thread = tail[1].thread
               /\ tail[i].id # 0 => tail[i].id = tail[i].at
               /\ \A j \in 2 .. Len(tail) : i < j => \/ tail[i].at < tail[j].at
                                                     \/ tail[i].at = tail[j].at /\ tail[i].id # 0 /\ tail[j].id = 0
    <3>1. i + k - 1 \in 2 .. Len(rows) /\ tail[i] = rows[i + k - 1]
        BY <1>5
    <3>2. ASSUME NEW j \in 2 .. Len(tail), i < j
          PROVE  \/ tail[i].at < tail[j].at
                 \/ tail[i].at = tail[j].at /\ tail[i].id # 0 /\ tail[j].id = 0
      <4>1. j + k - 1 \in 2 .. Len(rows) /\ tail[j] = rows[j + k - 1] /\ i + k - 1 < j + k - 1
        <5>1. j + k - 1 \in 2 .. Len(rows) /\ tail[j] = rows[j + k - 1]
            BY <1>5
        <5>2. k \in Int /\ i \in Int /\ j \in Int
            BY <1>2, <1>4
        <5> QED
            BY <3>2, <5>1, <5>2
      <4> QED
          BY <1>1, <3>1, <4>1 DEF IsHistory
    <3> QED
        BY <1>1, <1>4, <3>1, <3>2 DEF IsHistory
  <2> QED
      BY <1>4, <2>1, <2>2 DEF IsHistory
<1>8. ASSUME NEW j \in 2 .. Len(tail)
      PROVE  LET r == tail[j] IN
        /\ r.at \in 1 .. n - 1 /\ tree[r.at].owner = tail[1].thread
        /\ r.kind \in Cumulative => Amount(r.tokens) = tree[r.at].counter
        /\ r.kind = "last" => Amount(r.tokens) = tree[r.at].cost
        /\ Follows(tree, Node(from, tail, j - 1), r.at, r)
  <2>1. j + k - 1 \in 2 .. Len(rows) /\ tail[j] = rows[j + k - 1]
      BY <1>5
  <2>2. j - 1 \in 1 .. Len(tail) /\ (j - 1) + k - 1 = (j + k - 1) - 1
    <3>1. Len(tail) \in Int /\ k \in Int
        BY <1>2, <1>4
    <3> QED
        BY <3>1
  <2>3. Node(from, tail, j - 1) = Node(origin, rows, (j + k - 1) - 1)
      BY <1>6, <2>2
  <2> QED
      BY <1>4, <2>1, <2>3 DEF IsPath
<1>9. from \in 0 .. n - 1 /\ (from = 0 \/ tree[from].owner = tail[1].thread)
  <2>1. k \in 1 .. Len(rows)
      OBVIOUS
  <2>2. from \in 0 .. n - 1 /\ (from = 0 \/ tree[from].owner = rows[1].thread)
      BY <2>1, PathNode
  <2> QED
      BY <1>4, <2>2
<1>10. IsPath(tree, n, from, tail)
    BY <1>7, <1>8, <1>9 DEF IsPath
<1> QED
    BY <1>4, <1>5, <1>6, <1>10

-----------------------------------------------------------------------------
(* The rest of a file that was counted to the token is counted so too, if    *)
(* nothing had been used before it and no row is worse than the last.        *)
LEMMA TailExact ==
    ASSUME NEW tree, NEW n \in Nat, IsTree(tree, n), NEW origin, NEW rows,
           IsPath(tree, n, origin, rows),
           NEW k \in 2 .. Len(rows), NEW tail, IsTail(tail, rows, k),
           NEW from, from = Node(origin, rows, k), IsExact(tree, origin, rows),
           Scanned(rows, Len(rows)).bad = 0, Scanned(tail, Len(tail)).bad = 0
    PROVE  IsExact(tree, from, tail)
<1> SUFFICES ASSUME Size(tree[from].sum) = 0
             PROVE  \A j \in 1 .. Len(tail) : Counts(Scanned(tail, j), tree[Node(from, tail, j)])
    BY DEF IsExact
<1>2. /\ IsPath(tree, n, from, tail) /\ Len(tail) = Len(rows) - k + 1 /\ tail[1] = rows[1]
      /\ \A j \in 2 .. Len(tail) : tail[j] = rows[j + k - 1]
      /\ \A j \in 1 .. Len(tail) : Node(from, tail, j) = Node(origin, rows, j + k - 1)
    BY TailPath
<1>10. IsPath(tree, n, from, tail)
    BY <1>2
<1> DEFINE U(j) == Scanned(rows, j + k - 1)
           V(j) == Scanned(tail, j)
           At(j) == tree[Node(from, tail, j)]
           B == {j \in 0 .. Len(tail) :
                    j = 0 \/ /\ Counts(V(j), At(j)) /\ (V(j).counted => U(j).counted)
                             /\ U(j).counted /\ ~V(j).counted => At(j).sum = Nil}
<1>1. IsHistory(rows) /\ Len(rows) \in Nat /\ k \in 1 .. Len(rows)
  <2>1. IsHistory(rows)
      BY DEF IsPath
  <2> QED
      BY <2>1 DEF IsHistory
<1>3. IsHistory(tail) /\ Len(tail) \in Nat
  <2>1. IsHistory(tail)
      BY <1>2 DEF IsPath
  <2> QED
      BY <1>1, <1>2, <2>1
<1>4. Size(tree[origin].sum) = 0
  <2>1. /\ Size(tree[origin].sum) <= Size(tree[from].sum)
        /\ Size(tree[origin].sum) \in Nat
      BY <1>1, SumGrows
  <2> QED
      BY <2>1
<1>5. \A j \in 1 .. Len(tail) : /\ j + k - 1 \in 1 .. Len(rows) /\ Counts(U(j), At(j))
                                /\ U(j) \in Streams /\ U(j).bad = 0 /\ V(j) \in Streams /\ V(j).bad = 0
  <2> TAKE j \in 1 .. Len(tail)
  <2>1. j + k - 1 \in 1 .. Len(rows) /\ Len(rows) \in j + k - 1 .. Len(rows) /\ Len(tail) \in j .. Len(tail)
      BY <1>1, <1>2
  <2>2. Counts(U(j), At(j))
      BY <1>2, <1>4, <2>1 DEF IsExact
  <2>3. Scanned(rows, j + k - 1).bad <= Scanned(rows, Len(rows)).bad /\ Scanned(rows, j + k - 1).bad \in Nat
      BY <1>1, <2>1, BadGrows
  <2>4. Scanned(tail, j).bad <= Scanned(tail, Len(tail)).bad /\ Scanned(tail, j).bad \in Nat
      BY <1>3, <2>1, BadGrows
  <2>5. U(j) \in Streams /\ V(j) \in Streams
      BY <1>1, <1>3, <2>1, ReadingIs DEF IsStreamOf
  <2> QED
      BY <2>1, <2>2, <2>3, <2>4, <2>5
<1>6. ASSUME NEW j \in 1 .. Len(tail), j - 1 \in B
      PROVE  j \in B
  <2>1. CASE j = 1
    <3>1. V(1) = Unread(tail[1].thread)
        BY <1>3, ReadingIs
    <3>2. ~V(1).counted /\ Codex!SumOf(V(1).obs) = 0 /\ AmountOf(Basis(V(1))) = Nil
      <4>1. ~V(1).counted /\ V(1).obs = <<>> /\ V(1).pre = Codex!NoTokens
          BY <3>1 DEF Unread
      <4>2. AmountOf(Codex!NoTokens) = Nil
          BY DEF Codex!NoTokens, Codex!Tokens, Codex!Zero, AmountOf, Codex!Input, Nil
      <4> QED
          BY <4>1, <4>2, SumOfNothing DEF Basis
    <3>3. At(1) = tree[from]
        BY DEF Node
    <3>4. tree[from] \in Moments
      <4>1. from \in Nat
          BY <1>2 DEF IsPath
      <4> QED
          BY <4>1 DEF IsTree
    <3>5. tree[from].sum = Nil
      <4>1. tree[from].sum \in Pairs /\ tree[from].sum[1] \in Nat /\ tree[from].sum[2] \in Nat
          BY <3>4, MomentIs
      <4>2. PICK p \in Nat, q \in Nat : tree[from].sum = <<p, q>>
          BY <4>1 DEF Pairs
      <4>3. p + q = 0
          BY <4>2 DEF Size
      <4> QED
          BY <4>2, <4>3 DEF Nil
    <3> HIDE DEF U, V, At
    <3>6. Counts(V(1), At(1))
        BY <3>2, <3>3, <3>5 DEF Counts
    <3> QED
        BY <2>1, <3>2, <3>3, <3>5, <3>6
  <2>2. CASE j # 1
    <3> DEFINE r == tail[j]
    <3>1. j \in 2 .. Len(tail) /\ j - 1 \in 1 .. Len(tail) /\ (j - 1) + k - 1 = (j + k - 1) - 1
      <4>1. k \in Int /\ Len(tail) \in Int
          BY <1>3
      <4> QED
          BY <2>2, <4>1
    <3>2. /\ Counts(V(j - 1), At(j - 1)) /\ (V(j - 1).counted => U(j - 1).counted)
          /\ U(j - 1).counted /\ ~V(j - 1).counted => At(j - 1).sum = Nil
        BY <1>6, <3>1
    <3>3. r = rows[j + k - 1] /\ j + k - 1 \in 2 .. Len(rows) /\ r.kind # "meta" /\ r \in RowsOfCodex
      <4>1. r = rows[j + k - 1] /\ j + k - 1 \in 1 .. Len(rows)
          BY <1>2, <1>5, <3>1
      <4>2. j + k - 1 \in 2 .. Len(rows)
          BY <1>1, <3>1, <4>1
      <4>3. rows[j + k - 1] \in RowsOfCodex
          BY <1>1, <4>1 DEF IsHistory
      <4>4. r.kind # "meta"
          BY <1>3, <3>1 DEF IsHistory
      <4> QED
          BY <4>1, <4>2, <4>3, <4>4
    <3>4. IsRowRead(V(j - 1), r, V(j))
        BY <1>3, <3>1, ReadingIs
    <3>5. IsRowRead(U(j - 1), r, U(j))
      <4>1. IsRowRead(Scanned(rows, (j + k - 1) - 1), rows[j + k - 1], Scanned(rows, j + k - 1))
          BY <1>1, <3>3, ReadingIs
      <4>2. U(j - 1) = Scanned(rows, (j + k - 1) - 1)
          BY <3>1
      <4> QED
          BY <3>3, <4>1, <4>2
    <3>6. PICK a, m : a = At(j - 1) /\ m = At(j)
        OBVIOUS
    <3>7. /\ a \in Moments /\ m \in Moments /\ AtMost(a.counter, a.sum)
          /\ r.kind \in Cumulative => Amount(r.tokens) = m.counter
          /\ \E d : IsStep(a, m, d) /\ (r.kind = "last" => Amount(r.tokens) = d)
        BY <1>10, <3>1, <3>6, PathStep
    <3>8. PICK d : IsStep(a, m, d) /\ (r.kind = "last" => Amount(r.tokens) = d)
        BY <3>7
    <3>9. Counts(U(j - 1), a) /\ Counts(U(j), m) /\ U(j - 1).bad = 0 /\ U(j).bad = 0 /\ U(j - 1) \in Streams
        BY <1>5, <3>1, <3>6
    <3>10. Counts(V(j - 1), a) /\ V(j - 1).bad = 0 /\ V(j).bad = 0 /\ V(j - 1) \in Streams
        BY <1>5, <3>1, <3>2, <3>6
    <3>11. /\ V(j - 1).counted => U(j - 1).counted
           /\ U(j - 1).counted /\ ~V(j - 1).counted => a.sum = Nil
        BY <3>2, <3>6
    <3>12. /\ V(j) \in Streams /\ U(j) \in Streams
        BY <1>5
    <3>13. PICK u, v, to, up : u = U(j - 1) /\ v = V(j - 1) /\ to = V(j) /\ up = U(j)
        OBVIOUS
    <3>14. Counts(to, m) /\ (to.counted => up.counted) /\ (up.counted /\ ~to.counted => m.sum = Nil)
      <4> HIDE DEF U, V, At, B, r
      <4>1. /\ IsRowRead(v, r, to) /\ IsRowRead(u, r, up) /\ Counts(u, a) /\ Counts(up, m) /\ Counts(v, a)
            /\ u.bad = 0 /\ up.bad = 0 /\ v.bad = 0 /\ to.bad = 0 /\ u \in Streams /\ v \in Streams
            /\ (v.counted => u.counted) /\ (u.counted /\ ~v.counted => a.sum = Nil)
          BY <3>4, <3>5, <3>9, <3>10, <3>11, <3>13
      <4>2. /\ d \in Pairs /\ m.sum = Add(a.sum, d)
            /\ m.counter = Add(a.counter, d) \/ m.counter = Add(Nil, d)
        <5>1. d \in Pairs /\ m.sum \in Pairs /\ m.counter \in Pairs
            BY <3>7, <3>8, MomentIs DEF IsStep
        <5> QED
            BY <3>8, <5>1 DEF IsStep, Add, Nil, Pairs
      <4>3. PICK f : f \in {a.counter, Nil} /\ m.counter = Add(f, d)
          BY <4>2
      <4>4. ~Worse(v, r) /\ ~Worse(u, r)
          BY <4>1 DEF IsRowRead
      <4>5. /\ to.counted = (v.counted \/ r.kind \in Cumulative)
            /\ up.counted = (u.counted \/ r.kind \in Cumulative)
          BY <4>1 DEF IsRowRead
      <4>6. r.kind = "last" \/ r.kind \in Cumulative
          BY <3>3, <4>4 DEF RowsOfCodex, Cumulative, Worse
      <4>7. r.kind \in Cumulative /\ IsLess(f, AmountOf(Basis(v))) => IsLess(Amount(r.tokens), AmountOf(Basis(v)))
        <5> SUFFICES ASSUME r.kind \in Cumulative, ~IsLess(Amount(r.tokens), AmountOf(Basis(v)))
                     PROVE  ~IsLess(f, AmountOf(Basis(v)))
            OBVIOUS
        <5>1. CASE u.counted /\ ~v.counted
          <6>1. AmountOf(Basis(v)) = Nil
              BY <4>1, <5>1 DEF Counts
          <6>2. f[1] \in Nat /\ f[2] \in Nat
              BY <3>7, <4>3, MomentIs DEF Nil
          <6> QED
              BY <6>1, <6>2 DEF IsLess, Nil
        <5>2. CASE ~(u.counted /\ ~v.counted)
          <6>1. AmountOf(Basis(v)) = AmountOf(Basis(u))
              BY <4>1, <5>2 DEF Counts
          <6>2. ~IsLess(Amount(r.tokens), AmountOf(Basis(u)))
              BY <6>1
          <6>3. Amount(r.tokens) = Add(f, d)
              BY <3>7, <4>3
          <6>4. ~IsLess(f, AmountOf(Basis(u)))
              BY <3>3, <3>7, <4>1, <4>2, <4>3, <6>2, <6>3, WentOn
          <6> QED
              BY <6>1, <6>4
        <5> QED
            BY <5>1, <5>2
      <4>8. Counts(to, m)
        <5>1. r.kind \in Cumulative => /\ Amount(r.tokens) = Add(f, d) /\ m.counter = Add(f, d)
                                       /\ IsLess(f, AmountOf(Basis(v))) => IsLess(Amount(r.tokens), AmountOf(Basis(v)))
            BY <3>7, <4>3, <4>7
        <5>2. to.bad = v.bad
            BY <4>1
        <5> QED
            BY SMTT(30), <3>3, <3>7, <3>8, <4>1, <4>2, <4>3, <5>1, <5>2, CountsStep
      <4>9. up.counted /\ ~to.counted => m.sum = Nil
        <5> SUFFICES ASSUME up.counted, ~to.counted
                     PROVE  FALSE
            OBVIOUS
        <5>1. r.kind = "last" /\ ~v.counted /\ u.counted
            BY <4>5, <4>6
        <5> QED
            BY <4>4, <5>1 DEF Worse
      <4> QED
          BY <4>1, <4>5, <4>8, <4>9
    <3>15. Counts(V(j), At(j)) /\ (V(j).counted => U(j).counted) /\ (U(j).counted /\ ~V(j).counted => At(j).sum = Nil)
        BY <3>6, <3>13, <3>14
    <3> HIDE DEF U, V, At
    <3> QED
        BY <3>15
  <2> QED
      BY <2>1, <2>2
<1>7. 0 \in B
    BY <1>3
<1> HIDE DEF B
<1>8. \A j \in 0 .. Len(tail) : j \in B
    BY <1>3, <1>6, <1>7, UpTo
<1>9. \A j \in 1 .. Len(tail) : Counts(V(j), At(j))
  <2> TAKE j \in 1 .. Len(tail)
  <2>1. j \in B /\ j # 0
      BY <1>8
  <2> HIDE DEF V, At, U
  <2> QED
      BY <2>1 DEF B
<1> QED
    BY <1>9

-----------------------------------------------------------------------------
(* A row that is damaged keeps its place, and the file is marked.            *)
IsDamagedAt(other, rows, i) == other = [rows EXCEPT ![i] = [rows[i] EXCEPT !.kind = "damaged"]]

(* So it keeps its path, and what it reads is marked.                        *)
LEMMA DamagedPath ==
    ASSUME NEW tree, NEW n \in Nat, NEW origin, NEW rows, IsPath(tree, n, origin, rows),
           NEW i \in 2 .. Len(rows),
           NEW other, IsDamagedAt(other, rows, i)
    PROVE  /\ IsPath(tree, n, origin, other) /\ Len(other) = Len(rows)
           /\ \A j \in 2 .. Len(rows) : other[j].at = rows[j].at /\ other[j].id = rows[j].id
           /\ \A j \in 1 .. Len(rows) : Node(origin, other, j) = Node(origin, rows, j)
           /\ Scanned(other, Len(other)).bad > 0
<1>1. IsHistory(rows) /\ rows \in Seq(RowsOfCodex) /\ Len(rows) \in Nat \ {0}
  <2>1. IsHistory(rows)
      BY DEF IsPath
  <2> QED
      BY <2>1 DEF IsHistory
<1> DEFINE r == [rows[i] EXCEPT !.kind = "damaged"]
<1>2. i \in 1 .. Len(rows) /\ rows[i] \in RowsOfCodex
    BY <1>1
<1>3. /\ r \in RowsOfCodex /\ r.kind = "damaged" /\ r.thread = rows[i].thread /\ r.id = rows[i].id
      /\ r.at = rows[i].at /\ r.tokens = rows[i].tokens
    BY <1>2 DEF RowsOfCodex
<1> HIDE DEF r
<1>4. /\ other \in Seq(RowsOfCodex) /\ Len(other) = Len(rows) /\ other[i] = r
      /\ \A j \in 1 .. Len(rows) : j # i => other[j] = rows[j]
  <2>1. other = [rows EXCEPT ![i] = r]
      BY DEF r, IsDamagedAt
  <2> QED
      BY <1>1, <1>2, <1>3, <2>1
<1>5. \A j \in 2 .. Len(rows) : /\ other[j].thread = rows[j].thread /\ other[j].id = rows[j].id
                                /\ other[j].at = rows[j].at /\ other[j].tokens = rows[j].tokens
                                /\ other[j].kind \in {rows[j].kind, "damaged"}
  <2> TAKE j \in 2 .. Len(rows)
  <2>1. j \in 1 .. Len(rows)
      BY <1>1
  <2> QED
      BY <1>3, <1>4, <2>1
<1>6. other[1] = rows[1] /\ 1 \in 1 .. Len(rows)
    BY <1>1, <1>4
<1>7. IsHistory(other)
    BY <1>1, <1>4, <1>5, <1>6 DEF IsHistory
<1>8. \A j \in 1 .. Len(rows) : Node(origin, other, j) = Node(origin, rows, j)
  <2> TAKE j \in 1 .. Len(rows)
  <2>1. CASE j = 1
      BY <2>1 DEF Node
  <2>2. CASE j # 1
    <3>1. j \in 2 .. Len(rows)
        BY <2>2
    <3> QED
        BY <1>5, <2>2, <3>1 DEF Node
  <2> QED
      BY <2>1, <2>2
<1>9. ASSUME NEW j \in 2 .. Len(rows)
      PROVE  LET s == other[j] IN
        /\ s.at \in 1 .. n - 1 /\ tree[s.at].owner = other[1].thread
        /\ s.kind \in Cumulative => Amount(s.tokens) = tree[s.at].counter
        /\ s.kind = "last" => Amount(s.tokens) = tree[s.at].cost
        /\ Follows(tree, Node(origin, other, j - 1), s.at, s)
  <2>1. /\ rows[j].at \in 1 .. n - 1 /\ tree[rows[j].at].owner = rows[1].thread
        /\ rows[j].kind \in Cumulative => Amount(rows[j].tokens) = tree[rows[j].at].counter
        /\ rows[j].kind = "last" => Amount(rows[j].tokens) = tree[rows[j].at].cost
        /\ Follows(tree, Node(origin, rows, j - 1), rows[j].at, rows[j])
      BY DEF IsPath
  <2>2. /\ other[j].id = rows[j].id /\ other[j].at = rows[j].at /\ other[j].tokens = rows[j].tokens
        /\ other[j].kind \in {rows[j].kind, "damaged"}
      BY <1>5
  <2>3. Node(origin, other, j - 1) = Node(origin, rows, j - 1)
    <3>1. j - 1 \in 1 .. Len(rows)
        BY <1>1
    <3> QED
        BY <1>8, <3>1
  <2>4. Follows(tree, Node(origin, other, j - 1), other[j].at, other[j])
      BY <2>1, <2>2, <2>3 DEF Follows
  <2>5. other[j].kind \in Cumulative => rows[j].kind \in Cumulative
      BY <2>2 DEF Cumulative
  <2> QED
      BY <1>6, <2>1, <2>2, <2>4, <2>5
<1>10. IsPath(tree, n, origin, other)
  <2>1. origin \in 0 .. n - 1 /\ (origin = 0 \/ tree[origin].owner = other[1].thread)
      BY <1>6 DEF IsPath
  <2> QED
      BY <1>4, <1>7, <1>9, <2>1 DEF IsPath
<1>11. Scanned(other, Len(other)).bad > 0
  <2>1. i \in 2 .. Len(other) /\ i \in 1 .. Len(other) /\ Len(other) \in i .. Len(other) /\ i - 1 \in 1 .. Len(other)
      BY <1>1, <1>2, <1>4
  <2>2. IsRowRead(Scanned(other, i - 1), other[i], Scanned(other, i)) /\ Scanned(other, i - 1) \in Streams
      BY <1>7, <2>1, ReadingIs DEF IsStreamOf
  <2>3. Worse(Scanned(other, i - 1), other[i])
      BY <1>3, <1>4 DEF Worse
  <2>4. Scanned(other, i).bad > 0
    <3>1. Scanned(other, i - 1).bad \in Nat
        BY <2>2 DEF Streams
    <3> QED
        BY <2>2, <2>3, <3>1 DEF IsRowRead
  <2>5. Scanned(other, i).bad <= Scanned(other, Len(other)).bad
      BY <1>7, <2>1, BadGrows
  <2>6. Scanned(other, i).bad \in Nat /\ Scanned(other, Len(other)).bad \in Nat
    <3>1. Len(other) \in 1 .. Len(other)
        BY <2>1
    <3> QED
        BY <1>7, <2>1, <3>1, ReadingIs DEF IsStreamOf, Streams
  <2> QED
      BY <2>4, <2>5, <2>6
<1> QED
    BY <1>4, <1>5, <1>8, <1>10, <1>11

-----------------------------------------------------------------------------
(* One file is written.                                                      *)
IsKept(old, rows) ==
    /\ \A i \in 2 .. Len(old) : HasRow(rows, old[i].at, old[i].id)
    /\ old # <<>> /\ Scanned(old, Len(old)).bad > 0 => Scanned(rows, Len(rows)).bad > 0

(* A mark is never taken back.                                               *)
LEMMA DamageStays ==
    ASSUME logs \in [HistoryFiles -> Seq(RowsOfCodex)], NEW p \in HistoryFiles, NEW rows,
           rows # <<>>,
           logs' = [logs EXCEPT ![p] = rows], IsKept(logs[p], rows)
    PROVE  /\ Damaged => Damaged'
           /\ Scanned(rows, Len(rows)).bad > 0 => Damaged'
<1>1. logs'[p] = rows /\ \A q \in HistoryFiles : q # p => logs'[q] = logs[q]
    OBVIOUS
<1>2. Scanned(rows, Len(rows)).bad > 0 => Damaged'
    BY <1>1 DEF Damaged
<1>3. ASSUME NEW q \in HistoryFiles, logs[q] # <<>>, Scanned(logs[q], Len(logs[q])).bad > 0
      PROVE  Damaged'
  <2>1. CASE q = p
      BY <1>2, <1>3, <2>1 DEF IsKept
  <2>2. CASE q # p
    <3>1. logs'[q] = logs[q]
        BY <1>1, <2>2
    <3> QED
        BY <1>3, <3>1 DEF Damaged
  <2> QED
      BY <2>1, <2>2
<1> QED
    BY <1>2, <1>3 DEF Damaged

-----------------------------------------------------------------------------
(* A file is written and the moments grow: the history is told by the bigger *)
(* tree.                                                                     *)
LEMMA HistoryGrows ==
    ASSUME HistoryTypes, HistoryTypes', NEW tree, NEW origin, IsHistoryOf(tree, origin),
           NEW p \in HistoryFiles, NEW rows, logs' = [logs EXCEPT ![p] = rows],
           IsKept(logs[p], rows),
           NEW bigger, IsTree(bigger, codexClock'), IsGrown(tree, codexClock, bigger, codexClock'),
           NEW o \in Nat, IsPath(bigger, codexClock', o, rows),
           NEW c, count' = [count EXCEPT ![p] = c], Amount(c) \in {bigger[Node(o, rows, Len(rows))].counter, Nil},
           \A t \in Threads : SpentOf(tree, codexClock)[t] <= SpentOf(bigger, codexClock')[t],
           truth' = SumFunctionOnSet(CostOf(bigger), 1 .. codexClock' - 1),
           \A k \in codexClock .. codexClock' - 1 : /\ IsUsed(bigger, codexClock', k)
                                                    /\ HasRow(rows, k, bigger[k].id),
           masked => masked', masked' \/ Damaged' \/ IsExact(bigger, o, rows)
    PROVE  HistoryInv'
<1> DEFINE n == codexClock
           m == codexClock'
           from == [origin EXCEPT ![p] = o]
<1>1. /\ n \in Nat \ {0} /\ m \in Nat \ {0} /\ n <= m /\ IsTree(tree, n)
      /\ logs \in [HistoryFiles -> Seq(RowsOfCodex)] /\ count \in [HistoryFiles -> Raw]
      /\ origin \in [HistoryFiles -> Nat]
    BY DEF HistoryTypes, IsHistoryOf, IsGrown
<1>2. /\ logs'[p] = rows /\ \A q \in HistoryFiles : q # p => logs'[q] = logs[q]
      /\ count'[p] = c /\ \A q \in HistoryFiles : q # p => count'[q] = count[q]
    BY <1>1
<1>3. from \in [HistoryFiles -> Nat] /\ from[p] = o /\ \A q \in HistoryFiles : q # p => from[q] = origin[q]
    BY <1>1
<1>4. rows # <<>>
  <2>1. IsHistory(rows)
      BY DEF IsPath
  <2> QED
      BY <2>1 DEF IsHistory
<1> HIDE DEF from, n, m
<1>5. ASSUME NEW q \in HistoryFiles, logs'[q] # <<>>
      PROVE  IsPath(bigger, m, from[q], logs'[q])
  <2>1. CASE q = p
      BY <1>2, <1>3, <2>1 DEF m
  <2>2. CASE q # p
    <3>1. logs'[q] = logs[q] /\ from[q] = origin[q]
        BY <1>2, <1>3, <2>2
    <3>2. IsPath(tree, n, origin[q], logs[q])
        BY <1>5, <3>1 DEF IsHistoryOf, n
    <3>3. IsPath(bigger, m, origin[q], logs[q])
        BY <1>1, <3>2, PathStays DEF n, m
    <3> QED
        BY <3>1, <3>3
  <2> QED
      BY <2>1, <2>2
<1>6. ASSUME NEW q \in HistoryFiles
      PROVE  IF logs'[q] = <<>> THEN count'[q] = Codex!Zero
             ELSE /\ IsPath(bigger, m, from[q], logs'[q])
                  /\ Amount(count'[q]) \in {bigger[Node(from[q], logs'[q], Len(logs'[q]))].counter, Nil}
  <2>1. CASE q = p
      BY <1>2, <1>3, <1>4, <1>5, <2>1
  <2>2. CASE q # p
    <3>1. logs'[q] = logs[q] /\ from[q] = origin[q] /\ count'[q] = count[q]
        BY <1>2, <1>3, <2>2
    <3>2. CASE logs[q] = <<>>
        BY <3>1, <3>2 DEF IsHistoryOf
    <3>3. CASE logs[q] # <<>>
      <4>1. /\ IsPath(tree, n, origin[q], logs[q])
            /\ Amount(count[q]) \in {tree[Node(origin[q], logs[q], Len(logs[q]))].counter, Nil}
          BY <3>3 DEF IsHistoryOf, n
      <4>2. \A i \in 1 .. Len(logs[q]) : bigger[Node(origin[q], logs[q], i)] = tree[Node(origin[q], logs[q], i)]
          BY <1>1, <4>1, PathStays DEF n, m
      <4>3. Len(logs[q]) \in 1 .. Len(logs[q])
          BY <1>1, <3>3
      <4>4. bigger[Node(origin[q], logs[q], Len(logs[q]))] = tree[Node(origin[q], logs[q], Len(logs[q]))]
          BY <4>2, <4>3
      <4> QED
          BY <1>5, <3>1, <3>3, <4>1, <4>4
    <3> QED
        BY <3>2, <3>3
  <2> QED
      BY <2>1, <2>2
<1>7. ASSUME NEW k \in 1 .. m - 1
      PROVE  IsUsed(bigger, m, k) /\ \E q \in HistoryFiles : HasRow(logs'[q], k, bigger[k].id)
  <2>1. CASE k \in n .. m - 1
    <3>1. IsUsed(bigger, m, k) /\ HasRow(rows, k, bigger[k].id)
        BY <2>1 DEF n, m
    <3> QED
        BY <1>2, <3>1
  <2>2. CASE k \notin n .. m - 1
    <3>1. k \in 1 .. n - 1 /\ 1 .. k \subseteq 0 .. n - 1 /\ k \in 0 .. n - 1
        BY <1>1, <2>2
    <3>2. IsUsed(tree, n, k) /\ \E q \in HistoryFiles : HasRow(logs[q], k, tree[k].id)
        BY <3>1 DEF IsHistoryOf, n
    <3>3. \A a \in 0 .. n - 1 : bigger[a] = tree[a]
        BY DEF IsGrown, n
    <3>4. IsUsed(bigger, m, k)
      <4>1. tree[k] \in Moments /\ tree[k].owner \in Threads
        <5>1. k \in Nat /\ IsTree(tree, n)
            BY <1>1
        <5>2. tree[k] \in Moments
            BY <5>1 DEF IsTree
        <5>3. tree[k].owner \in Threads
            BY <3>1, <5>1 DEF IsTree
        <5> QED
            BY <5>2, <5>3
      <4>2. Size(tree[k].sum) \in Nat
          BY <4>1, MomentIs DEF Size
      <4>3. /\ SpentOf(tree, n)[tree[k].owner] \in Nat /\ SpentOf(bigger, m)[tree[k].owner] \in Nat
            /\ SpentOf(tree, n)[tree[k].owner] <= SpentOf(bigger, m)[tree[k].owner]
        <5>1. \A t \in Threads : SpentOf(tree, n)[t] \in Nat
            BY <1>1, SpentIs
        <5>2. \A t \in Threads : SpentOf(bigger, m)[t] \in Nat
            BY <1>1, SpentIs DEF m
        <5> QED
            BY <4>1, <5>1, <5>2 DEF n, m
      <4>4. Size(tree[k].sum) <= SpentOf(bigger, m)[tree[k].owner]
          BY <3>2, <4>2, <4>3 DEF IsUsed
      <4> QED
          BY <3>1, <3>2, <3>3, <4>4 DEF IsUsed
    <3>5. PICK q \in HistoryFiles : HasRow(logs[q], k, tree[k].id)
        BY <3>2
    <3>6. CASE q = p
      <4>1. HasRow(rows, k, tree[k].id)
          BY <3>5, <3>6 DEF IsKept, HasRow
      <4> QED
          BY <1>2, <3>1, <3>3, <3>4, <4>1
    <3>7. CASE q # p
        BY <1>2, <3>1, <3>3, <3>4, <3>5, <3>7
    <3> QED
        BY <3>6, <3>7
  <2> QED
      BY <2>1, <2>2
<1>8. ASSUME ~masked', ~Damaged', NEW q \in HistoryFiles, logs'[q] # <<>>
      PROVE  IsExact(bigger, from[q], logs'[q])
  <2>1. CASE q = p
      BY <1>2, <1>3, <1>8, <2>1
  <2>2. CASE q # p
    <3>1. logs'[q] = logs[q] /\ from[q] = origin[q]
        BY <1>2, <1>3, <2>2
    <3>2. ~Damaged /\ ~masked
        BY <1>1, <1>4, <1>8, DamageStays
    <3>3. IsPath(tree, n, origin[q], logs[q]) /\ IsExact(tree, origin[q], logs[q])
        BY <1>8, <3>1, <3>2 DEF IsHistoryOf, n
    <3>4. IsExact(bigger, origin[q], logs[q])
        BY <1>1, <3>3, PathStays DEF n, m
    <3> QED
        BY <3>1, <3>4
  <2> QED
      BY <2>1, <2>2
<1>9. PICK at : at = from
    OBVIOUS
<1>10. IsHistoryOf(bigger, at)'
  <2>1. \A q \in HistoryFiles :
          IF logs'[q] = <<>> THEN count'[q] = Codex!Zero
          ELSE /\ IsPath(bigger, codexClock', at[q], logs'[q])
               /\ Amount(count'[q]) \in {bigger[Node(at[q], logs'[q], Len(logs'[q]))].counter, Nil}
      BY <1>6, <1>9 DEF m
  <2>2. \A k \in 1 .. codexClock' - 1 :
          IsUsed(bigger, codexClock', k) /\ \E q \in HistoryFiles : HasRow(logs'[q], k, bigger[k].id)
      BY <1>7 DEF m
  <2>3. masked' \/ Damaged' \/ \A q \in HistoryFiles : logs'[q] # <<>> => IsExact(bigger, at[q], logs'[q])
      BY <1>8, <1>9
  <2>4. IsTree(bigger, codexClock') /\ at \in [HistoryFiles -> Nat]
      BY <1>3, <1>9
  <2> HIDE DEF Damaged
  <2> QED
      BY <2>1, <2>2, <2>3, <2>4 DEF IsHistoryOf
<1> QED
    BY <1>10 DEF HistoryInv

-----------------------------------------------------------------------------
(* A file is a prefix of another one.                                        *)
IsLonger(origin, rows, more) ==
    /\ Len(rows) <= Len(more)
    /\ \A i \in 1 .. Len(rows) : /\ more[i] = rows[i] /\ Node(origin, more, i) = Node(origin, rows, i)
                                 /\ Scanned(more, i) = Scanned(rows, i)

(* A file that goes on keeps what it had.                                    *)
LEMMA KeptLonger ==
    ASSUME NEW origin, NEW rows, IsHistory(rows), NEW more, IsHistory(more),
           IsLonger(origin, rows, more)
    PROVE  /\ IsKept(rows, more)
           /\ Scanned(more, Len(more)).bad = 0 => Scanned(rows, Len(rows)).bad = 0
<1>1. Len(rows) \in 1 .. Len(rows) /\ Len(rows) \in 1 .. Len(more) /\ Len(more) \in Len(rows) .. Len(more)
    BY DEF IsHistory, IsLonger
<1>2. Scanned(rows, Len(rows)).bad <= Scanned(more, Len(more)).bad
  <2>1. Scanned(more, Len(rows)).bad <= Scanned(more, Len(more)).bad
      BY <1>1, BadGrows
  <2> QED
      BY <1>1, <2>1 DEF IsLonger
<1>3. Scanned(rows, Len(rows)).bad \in Nat /\ Scanned(more, Len(more)).bad \in Nat
  <2>1. Len(more) \in 1 .. Len(more)
      BY <1>1
  <2> QED
      BY <1>1, <2>1, ReadingIs DEF IsStreamOf, Streams
<1>4. \A i \in 2 .. Len(rows) : HasRow(more, rows[i].at, rows[i].id)
  <2> TAKE i \in 2 .. Len(rows)
  <2>1. i \in 1 .. Len(rows) /\ i \in 2 .. Len(more)
      BY <1>1
  <2> QED
      BY <2>1 DEF IsLonger, HasRow
<1> QED
    BY <1>2, <1>3, <1>4 DEF IsKept

(* A row is appended, at a moment that is d after the last one.              *)
IsAppended(origin, rows, r, more) ==
    IsLonger(origin, rows, more) /\ Len(more) = Len(rows) + 1 /\ more[Len(rows) + 1] = r
IsNext(tree, origin, rows, r, d, from) ==
    LET a == tree[Node(origin, rows, Len(rows))]
        m == tree[r.at]
        b == AmountOf(Basis(Scanned(rows, Len(rows))))
    IN /\ m.sum = Add(a.sum, d) /\ (r.kind = "last" => Amount(r.tokens) = d)
       /\ from \in {a.counter, Nil}
       /\ r.kind \in Cumulative => /\ m.counter = Add(from, d)
                                   /\ IsLess(from, b) => IsLess(Amount(r.tokens), b)

(* What is appended is read to the token, if what was before it is, and no   *)
(* row is worse than the last.                                               *)
LEMMA ExactAppended ==
    ASSUME NEW tree, NEW n \in Nat, IsTree(tree, n), NEW origin, NEW rows,
           IsPath(tree, n, origin, rows),
           NEW r \in RowsOfCodex, r.kind # "meta", NEW more, IsPath(tree, n, origin, more),
           IsAppended(origin, rows, r, more),
           IsExact(tree, origin, rows), Scanned(more, Len(more)).bad = 0,
           NEW d \in Pairs, NEW from, IsNext(tree, origin, rows, r, d, from)
    PROVE  IsExact(tree, origin, more)
<1> DEFINE L == Len(rows)
<1>1. PICK a, m : a = tree[Node(origin, rows, Len(rows))] /\ m = tree[r.at]
    OBVIOUS
<1>2. /\ m.sum = Add(a.sum, d) /\ (r.kind = "last" => Amount(r.tokens) = d) /\ from \in {a.counter, Nil}
      /\ r.kind \in Cumulative =>
            /\ m.counter = Add(from, d)
            /\ IsLess(from, AmountOf(Basis(Scanned(rows, Len(rows))))) =>
                IsLess(Amount(r.tokens), AmountOf(Basis(Scanned(rows, Len(rows)))))
    BY <1>1 DEF IsNext
<1>3. IsLonger(origin, rows, more) /\ Len(more) = Len(rows) + 1 /\ more[Len(rows) + 1] = r
    BY DEF IsAppended
<1>4. IsHistory(rows) /\ IsHistory(more)
    BY DEF IsPath
<1>5. L \in 1 .. L /\ L + 1 \in 2 .. Len(more) /\ L + 1 \in 1 .. Len(more) /\ L \in 1 .. Len(more) /\ (L + 1) - 1 = L
    BY <1>4, <1>3 DEF IsHistory
<1>6. Scanned(more, L) = Scanned(rows, L) /\ Node(origin, more, L) = Node(origin, rows, L)
    BY <1>5, <1>3 DEF IsLonger
<1>7. Node(origin, more, L + 1) = r.at
    BY <1>5, <1>3 DEF Node
<1>8. PICK st, to : st = Scanned(rows, L) /\ to = Scanned(more, L + 1)
    OBVIOUS
<1>9. IsRowRead(st, r, to) /\ st \in Streams
  <2>1. IsRowRead(Scanned(more, (L + 1) - 1), more[L + 1], Scanned(more, L + 1))
      BY <1>4, <1>5, ReadingIs
  <2>2. Scanned(rows, L) \in Streams
      BY <1>4, <1>5, ReadingIs DEF IsStreamOf
  <2> QED
      BY <1>5, <1>6, <1>8, <1>3, <2>1, <2>2
<1>10. st.bad = 0 /\ to.bad = 0
    BY <1>4, <1>8, <1>3, KeptLonger
<1>11. /\ a \in Moments /\ m \in Moments /\ AtMost(a.counter, a.sum)
       /\ r.kind \in Cumulative => Amount(r.tokens) = m.counter
  <2>1. /\ tree[Node(origin, more, (L + 1) - 1)] \in Moments /\ tree[Node(origin, more, L + 1)] \in Moments
        /\ AtMost(tree[Node(origin, more, (L + 1) - 1)].counter, tree[Node(origin, more, (L + 1) - 1)].sum)
        /\ more[L + 1].kind \in Cumulative =>
            Amount(more[L + 1].tokens) = tree[Node(origin, more, L + 1)].counter
      BY <1>5, PathStep
  <2> QED
      BY <1>5, <1>6, <1>7, <1>1, <1>3, <2>1
<1> SUFFICES ASSUME Size(tree[origin].sum) = 0
             PROVE  \A i \in 1 .. Len(more) : Counts(Scanned(more, i), tree[Node(origin, more, i)])
    BY DEF IsExact
<1>12. Counts(st, a)
    BY <1>5, <1>8, <1>1 DEF IsExact
<1>13. Counts(to, m)
  <2>1. r.kind \in Cumulative => /\ Amount(r.tokens) = Add(from, d) /\ m.counter = Add(from, d)
                                 /\ IsLess(from, AmountOf(Basis(st))) => IsLess(Amount(r.tokens), AmountOf(Basis(st)))
      BY <1>8, <1>11, <1>2
  <2>2. to.bad = st.bad
      BY <1>10
  <2>3. st \in Streams /\ IsRowRead(st, r, to) /\ a \in Moments /\ m \in Moments /\ AtMost(a.counter, a.sum)
      BY <1>9, <1>11
  <2>4. PICK s, e, x, y, z : s = r /\ e = d /\ x = a /\ y = m /\ z = from
      OBVIOUS
  <2>5. PICK u, v : u = st /\ v = to
      OBVIOUS
  <2>6. /\ x \in Moments /\ y \in Moments /\ AtMost(x.counter, x.sum) /\ Counts(u, x)
        /\ y.sum = Add(x.sum, e) /\ z \in {x.counter, Nil} /\ (s.kind = "last" => Amount(s.tokens) = e)
        /\ s.kind # "meta" /\ s \in RowsOfCodex /\ IsRowRead(u, s, v) /\ u \in Streams /\ v.bad = u.bad
        /\ e \in Pairs
      BY <1>12, <1>2, <2>2, <2>3, <2>4, <2>5
  <2>7. s.kind \in Cumulative => /\ Amount(s.tokens) = Add(z, e) /\ y.counter = Add(z, e)
                                 /\ IsLess(z, AmountOf(Basis(u))) => IsLess(Amount(s.tokens), AmountOf(Basis(u)))
      BY <1>2, <2>1, <2>4, <2>5
  <2>8. Counts(v, y)
      BY <2>6, <2>7, CountsStep
  <2> QED
      BY <2>4, <2>5, <2>8
<1> TAKE i \in 1 .. Len(more)
<1>14. CASE i = L + 1
    BY <1>7, <1>8, <1>13, <1>14, <1>1, <1>3
<1>15. CASE i # L + 1
  <2>1. i \in 1 .. L
      BY <1>5, <1>15, <1>3
  <2>2. Scanned(more, i) = Scanned(rows, i) /\ Node(origin, more, i) = Node(origin, rows, i)
      BY <1>3, <2>1 DEF IsLonger
  <2> QED
      BY <2>1, <2>2 DEF IsExact
<1> QED
    BY <1>14, <1>15

(* A file is written, and nothing is used.                                   *)
LEMMA HistoryStays ==
    ASSUME HistoryTypes, NEW tree, NEW origin, IsHistoryOf(tree, origin),
           NEW p \in HistoryFiles, NEW rows, logs' = [logs EXCEPT ![p] = rows],
           IsKept(logs[p], rows),
           NEW o \in Nat, IsPath(tree, codexClock, o, rows),
           NEW c \in Raw, count' = [count EXCEPT ![p] = c],
           Amount(c) \in {tree[Node(o, rows, Len(rows))].counter, Nil},
           codexClock' = codexClock, truth' = truth, masked' = masked,
           masked \/ Damaged' \/ IsExact(tree, o, rows)
    PROVE  HistoryInv'
<1>1. IsTree(tree, codexClock) /\ IsGrown(tree, codexClock, tree, codexClock) /\ codexClock \in Nat \ {0}
    BY DEF IsHistoryOf, HistoryTypes, IsGrown
<1>2. IsHistory(rows) /\ rows \in Seq(RowsOfCodex)
  <2>1. IsHistory(rows)
      BY DEF IsPath
  <2> QED
      BY <2>1 DEF IsHistory
<1>3. HistoryTypes'
    BY <1>2 DEF HistoryTypes
<1>4. \A t \in Threads : SpentOf(tree, codexClock)[t] <= SpentOf(tree, codexClock')[t]
  <2>1. \A t \in Threads : SpentOf(tree, codexClock)[t] \in Nat
      BY <1>1, SpentIs
  <2> QED
      BY <2>1
<1>5. truth' = SumFunctionOnSet(CostOf(tree), 1 .. codexClock' - 1)
    BY DEF IsHistoryOf
<1>6. codexClock .. codexClock' - 1 = {}
    BY <1>1
<1> HIDE DEF Damaged
<1> QED
    BY <1>1, <1>3, <1>4, <1>5, <1>6, HistoryGrows

(* A moment is added after the last row of a file.                           *)
IsExtended(bigger, tree, n, origin, rows, cost, counter, id) ==
    LET a == Node(origin, rows, Len(rows))
    IN /\ bigger = Extended(tree, n, rows[1].thread, a, cost, counter, id)
       /\ counter = Add(tree[a].counter, cost) \/ counter = cost

(* A file is written, and a moment is added.                                 *)
LEMMA MomentGrows ==
    ASSUME HistoryTypes, NEW tree, NEW origin, IsHistoryOf(tree, origin),
           NEW p \in HistoryFiles, logs[p] # <<>>, NEW rows, logs' = [logs EXCEPT ![p] = rows],
           IsKept(logs[p], rows),
           NEW cost \in Pairs, NEW counter \in Pairs, NEW id \in Nat,
           NEW bigger, IsExtended(bigger, tree, codexClock, origin[p], logs[p], cost, counter, id),
           IsPath(bigger, codexClock + 1, origin[p], rows),
           Node(origin[p], rows, Len(rows)) = codexClock,
           HasRow(rows, codexClock, id),
           NEW c \in Raw, count' = [count EXCEPT ![p] = c], Amount(c) \in {counter, Nil},
           codexClock' = codexClock + 1, truth' = truth + Size(cost), masked' \in BOOLEAN,
           masked => masked',
           masked' \/ Damaged' \/ IsExact(bigger, origin[p], rows)
    PROVE  HistoryInv'
<1> DEFINE n == codexClock
           t == logs[p][1].thread
<1>0. PICK a : /\ a = Node(origin[p], logs[p], Len(logs[p]))
               /\ bigger = Extended(tree, codexClock, logs[p][1].thread, a, cost, counter, id)
               /\ counter = Add(tree[a].counter, cost) \/ counter = cost
    BY DEF IsExtended
<1>1. /\ IsTree(tree, n) /\ n \in Nat \ {0} /\ IsPath(tree, n, origin[p], logs[p]) /\ origin[p] \in Nat
      /\ truth \in Nat /\ truth = SumFunctionOnSet(CostOf(tree), 1 .. n - 1)
      /\ logs \in [HistoryFiles -> Seq(RowsOfCodex)]
    BY DEF HistoryTypes, IsHistoryOf
<1>2. Len(logs[p]) \in 1 .. Len(logs[p])
    BY <1>1
<1>3. t \in Threads
  <2>1. logs[p][1] \in RowsOfCodex
      BY <1>1, <1>2
  <2> QED
      BY <2>1 DEF RowsOfCodex
<1>4. a \in 0 .. n - 1 /\ (a = 0 \/ tree[a].owner = t)
  <2>1. PICK o, old, m : o = origin[p] /\ old = logs[p] /\ m = codexClock
      OBVIOUS
  <2>2. m \in Nat /\ IsTree(tree, m) /\ IsPath(tree, m, o, old) /\ Len(old) \in 1 .. Len(old)
      BY <1>1, <1>2, <2>1
  <2>3. Node(o, old, Len(old)) \in 0 .. m - 1 /\ (Node(o, old, Len(old)) = 0 \/ tree[Node(o, old, Len(old))].owner = old[1].thread)
      BY <2>2, LastNode
  <2> QED
      BY <1>0, <2>1, <2>3
<1> HIDE DEF t, n
<1>5. /\ IsTree(bigger, n + 1) /\ IsGrown(tree, n, bigger, n + 1)
      /\ bigger[n].owner = t /\ bigger[n].cost = cost /\ bigger[n].counter = counter
      /\ bigger[n].sum = Add(tree[a].sum, cost) /\ bigger[n].id = id
  <2>1. bigger = Extended(tree, n, t, a, cost, counter, id)
      BY <1>0 DEF t, n
  <2> QED
      BY <1>0, <1>1, <1>3, <1>4, <2>1, MomentAdded
<1>6. /\ SpentOf(bigger, n + 1)[t] = SpentOf(tree, n)[t] + Size(cost)
      /\ \A u \in Threads : SpentOf(tree, n)[u] <= SpentOf(bigger, n + 1)[u]
      /\ SumFunctionOnSet(CostOf(bigger), 1 .. n) = truth + Size(cost)
    BY <1>1, <1>5, SpentAdds
<1>7. tree[a] \in Moments /\ cost[1] \in Nat /\ cost[2] \in Nat
  <2>1. a \in Nat
      BY <1>4
  <2> QED
      BY <1>1, <2>1 DEF IsTree, Pairs
<1>8. Size(bigger[n].sum) = Size(tree[a].sum) + Size(cost) /\ Size(tree[a].sum) \in Nat /\ Size(cost) \in Nat
  <2>1. PICK x \in Nat, y \in Nat : x = tree[a].sum[1] /\ y = tree[a].sum[2]
      BY <1>7, MomentIs
  <2>2. Add(tree[a].sum, cost) = <<x + cost[1], y + cost[2]>>
      BY <2>1 DEF Add
  <2>3. PICK u \in Nat, w \in Nat : u = cost[1] /\ w = cost[2]
      BY <1>7
  <2>4. Size(bigger[n].sum) = (x + u) + (y + w)
    <3>1. bigger[n].sum = <<x + u, y + w>>
        BY <1>5, <2>2, <2>3
    <3> QED
        BY <3>1 DEF Size
  <2>5. Size(tree[a].sum) = x + y
      BY <2>1 DEF Size
  <2>6. Size(cost) = u + w
      BY <2>3 DEF Size
  <2> QED
      BY <2>4, <2>5, <2>6
<1>9. IsUsed(bigger, n + 1, n)
  <2>1. Size(bigger[n].sum) <= SpentOf(bigger, n + 1)[t]
    <3>1. SpentOf(tree, n)[t] \in Nat
        BY <1>1, <1>3, SpentIs
    <3>2. Size(tree[a].sum) <= SpentOf(tree, n)[t]
      <4>1. CASE a = 0
        <5>1. Size(tree[a].sum) = 0
            BY <1>1, <4>1 DEF IsTree, Nil, Size
        <5> QED
            BY <3>1, <5>1
      <4>2. CASE a # 0
        <5>1. a \in 1 .. n - 1 /\ tree[a].owner = t
            BY <1>4, <4>2
        <5> QED
            BY <5>1 DEF IsHistoryOf, IsUsed, n
      <4> QED
          BY <4>1, <4>2
    <3> QED
        BY <1>6, <1>8, <3>1, <3>2
  <2>2. ASSUME Size(bigger[n].sum) > 0
        PROVE  \E b \in 1 .. n : bigger[b].owner = t /\ bigger[b].sum = bigger[b].cost /\ Size(bigger[b].cost) > 0
    <3>1. CASE Size(tree[a].sum) > 0
      <4>1. a # 0
          BY <1>1, <3>1 DEF IsTree, Nil, Size
      <4>2. a \in 1 .. n - 1 /\ tree[a].owner = t
          BY <1>4, <4>1
      <4>3. PICK b \in 1 .. a : tree[b].owner = t /\ tree[b].sum = tree[b].cost /\ Size(tree[b].cost) > 0
          BY <3>1, <4>2 DEF IsHistoryOf, IsUsed, n
      <4>4. b \in 1 .. n /\ bigger[b] = tree[b]
        <5>1. b \in 1 .. n /\ b \in 0 .. n - 1
            BY <1>1, <4>2, <4>3
        <5> QED
            BY <1>5, <5>1 DEF IsGrown
      <4> QED
          BY <4>3, <4>4
    <3>2. CASE ~(Size(tree[a].sum) > 0)
      <4>1. tree[a].sum[1] \in Nat /\ tree[a].sum[2] \in Nat
          BY <1>7, MomentIs
      <4>2. tree[a].sum[1] = 0 /\ tree[a].sum[2] = 0
          BY <3>2, <4>1 DEF Size
      <4>3. Add(tree[a].sum, cost) = cost
          BY <1>7, <4>2 DEF Add, Pairs
      <4>4. n \in 1 .. n
          BY <1>1
      <4> QED
          BY <1>5, <2>2, <4>3, <4>4
    <3> QED
        BY <3>1, <3>2
  <2> QED
      BY <1>5, <2>1, <2>2 DEF IsUsed
<1>10. HistoryTypes'
  <2>1. IsHistory(rows)
      BY DEF IsPath
  <2>2. rows \in Seq(RowsOfCodex)
      BY <2>1 DEF IsHistory
  <2>3. count \in [HistoryFiles -> Raw]
      BY DEF HistoryTypes
  <2>4. count' \in [HistoryFiles -> Raw] /\ logs' \in [HistoryFiles -> Seq(RowsOfCodex)]
      BY <1>1, <2>2, <2>3
  <2>5. codexClock' \in Nat \ {0} /\ truth' \in Nat
      BY <1>1, <1>8 DEF n
  <2> QED
      BY <2>4, <2>5 DEF HistoryTypes
<1>11. n .. (n + 1) - 1 = {n} /\ (n + 1) - 1 = n
    BY <1>1
<1>12. \A k \in codexClock .. codexClock' - 1 : /\ IsUsed(bigger, codexClock', k)
                                                /\ HasRow(rows, k, bigger[k].id)
    BY <1>5, <1>9, <1>11 DEF n
<1>13. Amount(c) \in {bigger[Node(origin[p], rows, Len(rows))].counter, Nil}
    BY <1>5 DEF n
<1>14. truth' = SumFunctionOnSet(CostOf(bigger), 1 .. codexClock' - 1)
    BY <1>6, <1>11 DEF n
<1>15. /\ IsTree(bigger, codexClock') /\ IsGrown(tree, codexClock, bigger, codexClock')
       /\ IsPath(bigger, codexClock', origin[p], rows)
       /\ \A u \in Threads : SpentOf(tree, codexClock)[u] <= SpentOf(bigger, codexClock')[u]
    BY <1>5, <1>6 DEF n
<1> HIDE DEF Damaged
<1>16. PICK o \in Nat : o = origin[p]
    BY <1>1
<1>17. PICK large : large = bigger
    OBVIOUS
<1>18. /\ IsPath(large, codexClock', o, rows) /\ Amount(c) \in {large[Node(o, rows, Len(rows))].counter, Nil}
       /\ masked' \/ Damaged' \/ IsExact(large, o, rows)
       /\ IsTree(large, codexClock') /\ IsGrown(tree, codexClock, large, codexClock')
    BY <1>13, <1>15, <1>16, <1>17
<1>19. \A u \in Threads : SpentOf(tree, codexClock)[u] <= SpentOf(large, codexClock')[u]
    BY <1>15, <1>17
<1>20. \A k \in codexClock .. codexClock' - 1 : /\ IsUsed(large, codexClock', k)
                                                /\ HasRow(rows, k, large[k].id)
    BY <1>12, <1>17
<1>21. truth' = SumFunctionOnSet(CostOf(large), 1 .. codexClock' - 1)
    BY <1>14, <1>17
<1> QED
    BY <1>10, <1>18, <1>19, <1>20, <1>21, HistoryGrows

-----------------------------------------------------------------------------
(* The steps. *)
LEMMA RowIs ==
    ASSUME HistoryTypes, NEW kind \in {"meta", "total", "usage", "last", "damaged"},
           NEW t \in Threads,
           NEW id \in Nat, NEW tokens \in Raw
    PROVE  LET r == Codex!Row(kind, t, id, tokens)
           IN /\ r \in RowsOfCodex /\ r.kind = kind /\ r.thread = t /\ r.id = id /\ r.at = codexClock
              /\ r.tokens = tokens
BY DEF HistoryTypes, Codex!Row, RowsOfCodex

(* A counter that was reset.                                                 *)
LEMMA ZeroIs == Codex!Zero \in Raw /\ Amount(Codex!Zero) = Nil
BY DEF Codex!Zero, Raw, Amount, Nil

(* A client opens a file: it starts where nothing was used (Open).           *)
LEMMA OpenKeeps ==
    ASSUME HistoryInv, NEW p \in HistoryFiles, NEW t \in Threads, Codex!Open(p, t)
    PROVE  HistoryInv'
<1>1. PICK tree, origin : IsHistoryOf(tree, origin)
    BY DEF HistoryInv
<1>2. HistoryTypes /\ IsTree(tree, codexClock) /\ codexClock \in Nat \ {0} /\ count \in [HistoryFiles -> Raw]
    BY <1>1 DEF HistoryInv, IsHistoryOf, HistoryTypes
<1>3. PICK r : r = Codex!Row("meta", t, Codex!NoId, Codex!Zero)
    OBVIOUS
<1>4. r \in RowsOfCodex /\ r.kind = "meta" /\ r.thread = t
    BY <1>2, <1>3, ZeroIs, RowIs DEF Codex!NoId
<1>5. PICK rows : rows = <<r>>
    OBVIOUS
<1>6. rows \in Seq(RowsOfCodex) /\ Len(rows) = 1 /\ rows[1] = r
    BY <1>4, <1>5
<1>7. IsHistory(rows)
    BY <1>4, <1>6 DEF IsHistory
<1>8. IsPath(tree, codexClock, 0, rows)
    BY <1>2, <1>6, <1>7 DEF IsPath
<1>9. /\ logs[p] = <<>> /\ logs' = [logs EXCEPT ![p] = rows] /\ count' = count /\ codexClock' = codexClock
      /\ truth' = truth /\ masked' = masked
    BY <1>3, <1>5 DEF Codex!Open
<1>10. IsKept(logs[p], rows)
    BY <1>9 DEF IsKept
<1>11. count' = [count EXCEPT ![p] = Codex!Zero] /\ Codex!Zero \in Raw /\ Amount(Codex!Zero) = Nil
  <2>1. count[p] = Codex!Zero
      BY <1>1, <1>9 DEF IsHistoryOf
  <2> QED
      BY <1>2, <1>9, <2>1, ZeroIs
<1>12. IsExact(tree, 0, rows)
  <2>1. Scanned(rows, 1) = Unread(t) /\ Node(0, rows, 1) = 0
      BY <1>4, <1>6, <1>7, ReadingIs DEF Node
  <2>2. tree[0].sum = Nil /\ Size(Nil) = 0
      BY <1>2 DEF IsTree, Nil, Size
  <2>3. Unread(t).obs = <<>> /\ Unread(t).counted = FALSE /\ Unread(t).pre = Codex!NoTokens
      BY DEF Unread
  <2>4. AmountOf(Codex!NoTokens) = Nil
      BY DEF AmountOf, Codex!NoTokens, Codex!Tokens, Codex!Zero, Codex!Input, Nil
  <2>5. Counts(Unread(t), tree[0])
      BY <2>2, <2>3, <2>4, SumOfNothing DEF Counts, Basis
  <2>6. \A i \in 1 .. Len(rows) : i = 1
      BY <1>6
  <2> QED
      BY <2>1, <2>5, <2>6 DEF IsExact
<1> QED
    BY <1>1, <1>2, <1>8, <1>9, <1>10, <1>11, <1>12, HistoryStays

(* A file is copied as far as some row (CopyHead): the copy has the origin   *)
(* of the original.                                                          *)
LEMMA CopyHeadKeeps ==
    ASSUME HistoryInv, NEW p \in HistoryFiles, NEW q \in HistoryFiles, NEW n \in Nat,
           Codex!CopyHead(p, q, n)
    PROVE  HistoryInv'
<1>1. PICK tree, origin : IsHistoryOf(tree, origin)
    BY DEF HistoryInv
<1>2. /\ HistoryTypes /\ IsTree(tree, codexClock) /\ codexClock \in Nat \ {0} /\ count \in [HistoryFiles -> Raw]
      /\ logs \in [HistoryFiles -> Seq(RowsOfCodex)] /\ origin \in [HistoryFiles -> Nat]
    BY <1>1 DEF HistoryInv, IsHistoryOf, HistoryTypes
<1>3. PICK rows, head : rows = logs[p] /\ head = SubSeq(logs[p], 1, n)
    OBVIOUS
<1>4. /\ logs[q] = <<>> /\ n \in 2 .. Len(rows) /\ logs' = [logs EXCEPT ![q] = head]
      /\ count' = [count EXCEPT ![q] = Codex!CountAfter(head)]
      /\ codexClock' = codexClock /\ truth' = truth /\ masked' = masked
    BY <1>3 DEF Codex!CopyHead
<1>5. PICK o \in Nat : o = origin[p]
    BY <1>2
<1>6. rows # <<>> /\ IsPath(tree, codexClock, o, rows)
    BY <1>1, <1>3, <1>4, <1>5 DEF IsHistoryOf
<1>7. IsHead(head, rows, n) /\ n \in 1 .. Len(rows)
    BY <1>3, <1>4 DEF IsHead
<1>8. /\ IsPath(tree, codexClock, o, head) /\ Len(head) = n
      /\ IsExact(tree, o, rows) => IsExact(tree, o, head)
  <2>1. rows \in Seq(RowsOfCodex) /\ codexClock \in Nat
      BY <1>2, <1>3
  <2>2. Len(head) = n
      BY <1>7, <2>1 DEF IsHead
  <2> QED
      BY <1>6, <1>7, <2>1, <2>2, HeadPath
<1>9. head # <<>> /\ head \in Seq(RowsOfCodex)
    BY <1>4, <1>8 DEF IsPath, IsHistory
<1>10. IsKept(logs[q], head)
    BY <1>4 DEF IsKept
<1>11. PICK c : c = Codex!CountAfter(head)
    OBVIOUS
<1>12. PICK i : i = Len(head) /\ i \in 2 .. Len(head)
    BY <1>4, <1>8
<1>13. c \in Raw /\ Amount(c) \in {tree[Node(o, head, Len(head))].counter, Nil}
  <2>1. Codex!Last(head) = head[i]
      BY <1>12 DEF Codex!Last
  <2>2. head[i] \in RowsOfCodex
      BY <1>9, <1>12
  <2>3. CASE head[i].kind \in {"total", "usage"}
    <3>1. c = head[i].tokens
        BY <1>11, <2>1, <2>3 DEF Codex!CountAfter
    <3>2. Amount(head[i].tokens) = tree[head[i].at].counter
        BY <1>8, <1>12, <2>3 DEF IsPath, Cumulative
    <3>3. Node(o, head, Len(head)) = head[i].at
        BY <1>12 DEF Node
    <3>4. head[i].tokens \in Raw
        BY <2>2 DEF RowsOfCodex
    <3> QED
        BY <3>1, <3>2, <3>3, <3>4
  <2>4. CASE ~(head[i].kind \in {"total", "usage"})
    <3>1. c = Codex!Zero
        BY <1>11, <2>1, <2>4 DEF Codex!CountAfter
    <3> QED
        BY <3>1, ZeroIs
  <2> QED
      BY <2>3, <2>4
<1>14. masked \/ Damaged' \/ IsExact(tree, o, head)
  <2>1. Damaged => Damaged'
      BY <1>2, <1>4, <1>9, <1>10, DamageStays
  <2>2. masked \/ Damaged \/ IsExact(tree, o, rows)
      BY <1>1, <1>3, <1>5, <1>6 DEF IsHistoryOf
  <2> QED
      BY <1>8, <2>1, <2>2
<1>15. count' = [count EXCEPT ![q] = c]
    BY <1>4, <1>11
<1> HIDE DEF Damaged
<1> QED
    BY <1>1, <1>2, <1>4, <1>8, <1>10, <1>13, <1>14, <1>15, HistoryStays

(* A file is rotated: the rest of it starts where the part that is gone ends *)
(* (CopyTail).                                                               *)
LEMMA CopyTailKeeps ==
    ASSUME HistoryInv, NEW p \in HistoryFiles, NEW q \in HistoryFiles, NEW n \in Nat,
           Codex!CopyTail(p, q, n)
    PROVE  HistoryInv'
<1>1. PICK tree, origin : IsHistoryOf(tree, origin)
    BY DEF HistoryInv
<1>2. /\ HistoryTypes /\ IsTree(tree, codexClock) /\ codexClock \in Nat \ {0} /\ count \in [HistoryFiles -> Raw]
      /\ logs \in [HistoryFiles -> Seq(RowsOfCodex)] /\ origin \in [HistoryFiles -> Nat]
    BY <1>1 DEF HistoryInv, IsHistoryOf, HistoryTypes
<1>3. PICK rows, tail : rows = logs[p] /\ tail = <<logs[p][1]>> \o SubSeq(logs[p], n + 1, Len(logs[p]))
    OBVIOUS
<1>4. /\ logs[q] = <<>> /\ n \in 2 .. Len(rows) /\ logs' = [logs EXCEPT ![q] = tail]
      /\ count' = [count EXCEPT ![q] = count[p]]
      /\ codexClock' = codexClock /\ truth' = truth /\ masked' = masked
    BY <1>3 DEF Codex!CopyTail
<1>5. PICK o \in Nat, c \in Raw : o = origin[p] /\ c = count[p]
    BY <1>2
<1>6. rows # <<>> /\ IsPath(tree, codexClock, o, rows) /\ rows \in Seq(RowsOfCodex)
    BY <1>1, <1>2, <1>3, <1>4, <1>5 DEF IsHistoryOf
<1>7. IsTail(tail, rows, n)
    BY <1>3 DEF IsTail
<1>8. PICK from : from = Node(o, rows, n)
    OBVIOUS
<1>9. n \in 1 .. Len(rows) /\ Len(rows) \in 1 .. Len(rows)
    BY <1>4
<1>10. from \in Nat
  <2>1. Node(o, rows, n) \in 0 .. codexClock - 1
      BY <1>2, <1>6, <1>9, PathNode
  <2> QED
      BY <1>2, <1>8, <2>1
<1>11. /\ IsPath(tree, codexClock, from, tail) /\ Len(tail) = Len(rows) - n + 1
       /\ \A j \in 1 .. Len(tail) : Node(from, tail, j) = Node(o, rows, j + n - 1)
    BY <1>2, <1>4, <1>6, <1>7, <1>8, TailPath
<1>12. Node(from, tail, Len(tail)) = Node(o, rows, Len(rows))
  <2>1. Len(tail) \in 1 .. Len(tail) /\ Len(tail) + n - 1 = Len(rows)
      BY <1>4, <1>11
  <2> QED
      BY <1>11, <2>1
<1>13. Amount(c) \in {tree[Node(from, tail, Len(tail))].counter, Nil}
  <2>1. Amount(c) \in {tree[Node(o, rows, Len(rows))].counter, Nil}
      BY <1>1, <1>3, <1>5, <1>6 DEF IsHistoryOf
  <2> QED
      BY <1>12, <2>1
<1>14. tail # <<>> /\ IsKept(logs[q], tail)
  <2>1. Len(tail) # 0
      BY <1>4, <1>11
  <2> QED
      BY <1>4, <2>1 DEF IsKept
<1>15. masked \/ Damaged' \/ IsExact(tree, from, tail)
  <2>1. /\ Damaged => Damaged'
        /\ Scanned(tail, Len(tail)).bad > 0 => Damaged'
      BY <1>2, <1>4, <1>14, DamageStays
  <2> SUFFICES ASSUME ~masked, ~Damaged'
               PROVE  IsExact(tree, from, tail)
      OBVIOUS
  <2>2. ~Damaged
      BY <2>1
  <2>3. IsExact(tree, o, rows)
      BY <1>1, <1>3, <1>5, <1>6, <2>2 DEF IsHistoryOf
  <2>4. Scanned(rows, Len(rows)).bad \in Nat /\ Scanned(tail, Len(tail)).bad \in Nat
    <3>1. IsHistory(rows) /\ IsHistory(tail)
        BY <1>6, <1>11 DEF IsPath
    <3>2. Len(tail) \in 1 .. Len(tail)
        BY <1>4, <1>11
    <3> QED
        BY <1>9, <3>1, <3>2, BadGrows
  <2>5. Scanned(rows, Len(rows)).bad = 0
    <3>1. ~(Scanned(rows, Len(rows)).bad > 0)
        BY <1>3, <1>6, <2>2 DEF Damaged
    <3> QED
        BY <2>4, <3>1
  <2>6. Scanned(tail, Len(tail)).bad = 0
      BY <2>1, <2>4
  <2> QED
      BY <1>2, <1>4, <1>6, <1>7, <1>8, <2>3, <2>5, <2>6, TailExact
<1>16. count' = [count EXCEPT ![q] = c]
    BY <1>4, <1>5
<1> HIDE DEF Damaged
<1> QED
    BY <1>1, <1>2, <1>4, <1>10, <1>11, <1>13, <1>14, <1>15, <1>16, HistoryStays

(* A row is destroyed (Damage).                                              *)
LEMMA CodexDamageKeeps ==
    ASSUME HistoryInv, NEW p \in HistoryFiles, NEW i \in Nat, Codex!Damage(p, i)
    PROVE  HistoryInv'
<1>1. PICK tree, origin : IsHistoryOf(tree, origin)
    BY DEF HistoryInv
<1>2. /\ HistoryTypes /\ IsTree(tree, codexClock) /\ codexClock \in Nat \ {0} /\ count \in [HistoryFiles -> Raw]
      /\ logs \in [HistoryFiles -> Seq(RowsOfCodex)] /\ origin \in [HistoryFiles -> Nat]
    BY <1>1 DEF HistoryInv, IsHistoryOf, HistoryTypes
<1>3. PICK rows, other : rows = logs[p] /\ other = [logs[p] EXCEPT ![i] = [logs[p][i] EXCEPT !.kind = "damaged"]]
    OBVIOUS
<1>4. /\ i \in 2 .. Len(rows) /\ logs' = [logs EXCEPT ![p] = other]
      /\ count' = count /\ codexClock' = codexClock /\ truth' = truth /\ masked' = masked
    BY <1>3 DEF Codex!Damage
<1>5. PICK o \in Nat, c \in Raw : o = origin[p] /\ c = count[p]
    BY <1>2
<1>6. rows # <<>> /\ IsPath(tree, codexClock, o, rows) /\ rows \in Seq(RowsOfCodex)
    BY <1>1, <1>2, <1>3, <1>4, <1>5 DEF IsHistoryOf
<1>7. IsDamagedAt(other, rows, i)
    BY <1>3 DEF IsDamagedAt
<1>8. /\ IsPath(tree, codexClock, o, other) /\ Len(other) = Len(rows)
      /\ \A j \in 2 .. Len(rows) : other[j].at = rows[j].at /\ other[j].id = rows[j].id
      /\ \A j \in 1 .. Len(rows) : Node(o, other, j) = Node(o, rows, j)
      /\ Scanned(other, Len(other)).bad > 0
    BY <1>2, <1>4, <1>6, <1>7, DamagedPath
<1>9. IsKept(logs[p], other) /\ other # <<>>
  <2>1. \A j \in 2 .. Len(rows) : HasRow(other, rows[j].at, rows[j].id)
      BY <1>8 DEF HasRow
  <2>2. Len(other) # 0
      BY <1>4, <1>8
  <2> QED
      BY <1>3, <1>8, <2>1, <2>2 DEF IsKept
<1>10. Damaged'
    BY <1>2, <1>4, <1>8, <1>9, DamageStays
<1>11. Amount(c) \in {tree[Node(o, other, Len(other))].counter, Nil}
  <2>1. Amount(c) \in {tree[Node(o, rows, Len(rows))].counter, Nil}
      BY <1>1, <1>3, <1>5, <1>6 DEF IsHistoryOf
  <2>2. Len(rows) \in 1 .. Len(rows)
      BY <1>4
  <2> QED
      BY <1>8, <2>1, <2>2
<1>12. /\ logs' = [logs EXCEPT ![p] = other] /\ count' = [count EXCEPT ![p] = c]
       /\ codexClock' = codexClock /\ truth' = truth /\ masked' = masked
    BY <1>2, <1>4, <1>5
<1>13. HistoryTypes /\ IsPath(tree, codexClock, o, other)
    BY <1>2, <1>8
<1> HIDE DEF Damaged
<1> QED
    BY <1>1, <1>9, <1>10, <1>11, <1>12, <1>13, HistoryStays

-----------------------------------------------------------------------------
(* Amounts that are added up.                                                *)
LEMMA AddIs ==
    ASSUME NEW a \in Pairs, NEW b \in Pairs
    PROVE  /\ Add(a, b) \in Pairs /\ Add(a, Nil) = a /\ Add(Nil, a) = a /\ Nil \in Pairs
           /\ Size(Nil) = 0 /\ Size(a) \in Nat
<1>1. PICK x \in Nat, y \in Nat : a = <<x, y>>
    BY DEF Pairs
<1>2. PICK u \in Nat, w \in Nat : b = <<u, w>>
    BY DEF Pairs
<1> QED
    BY <1>1, <1>2 DEF Add, Nil, Pairs, Size

(* The two numbers of a raw counter, and of two that are added.              *)
LEMMA RawAmount ==
    ASSUME NEW r \in Raw, NEW s \in Raw
    PROVE  /\ Amount(r) \in Pairs /\ Size(Amount(r)) = r.in + r.out /\ r.in \in Nat /\ r.out \in Nat
           /\ Amount(Codex!Plus(r, s)) = Add(Amount(r), Amount(s))
<1>1. r.in \in Nat /\ r.out \in Nat /\ s.in \in Nat /\ s.out \in Nat
    BY DEF Raw
<1>2. Codex!Plus(r, s).in = r.in + s.in /\ Codex!Plus(r, s).out = r.out + s.out
    BY RawPlus
<1>3. Amount(Codex!Plus(r, s)) = Add(Amount(r), Amount(s))
    BY <1>2 DEF Amount, Add
<1> QED
    BY <1>1, <1>3 DEF Amount, Pairs, Size

(* TokenUsage.delta_from looks at the same two numbers.                      *)
LEMMA DecreasedIs ==
    ASSUME NEW r \in Raw, NEW b \in Disjoint
    PROVE  Codex!Decreased(Codex!Tokens(r), b) <=> IsLess(Amount(r), AmountOf(b))
<1>1. Codex!Tokens(r) \in Disjoint /\ AmountOf(Codex!Tokens(r)) = Amount(r)
    BY PartsAre DEF Amount
<1>2. /\ AmountOf(Codex!Tokens(r))[1] = Codex!Input(Codex!Tokens(r))
      /\ AmountOf(Codex!Tokens(r))[2] = Codex!Tokens(r).out
      /\ AmountOf(b)[1] = Codex!Input(b) /\ AmountOf(b)[2] = b.out
    BY <1>1, AmountIs
<1> QED
    BY <1>1, <1>2 DEF Codex!Decreased, IsLess

(* Going on twice is going on.                                               *)
LEMMA LongerLonger ==
    ASSUME NEW origin, NEW rows, NEW some, NEW more, Len(rows) \in Nat, Len(some) \in Nat,
           IsLonger(origin, rows, some), IsLonger(origin, some, more), Len(more) \in Nat
    PROVE  IsLonger(origin, rows, more)
<1>1. \A i \in 1 .. Len(rows) : i \in 1 .. Len(some)
    BY DEF IsLonger
<1> QED
    BY <1>1 DEF IsLonger

(* A row of a new moment: what it cost, and the counter it started from.     *)
IsMoment(tree, origin, rows, n, r, cost, counter, from) ==
    LET a == tree[Node(origin, rows, Len(rows))]
    IN /\ r \in RowsOfCodex /\ r.kind # "meta" /\ r.thread = rows[1].thread /\ r.at = n /\ r.id \in {0, n}
       /\ counter = Add(a.counter, cost) \/ counter = cost
       /\ from \in {a.counter, Nil}
       /\ r.kind \in Cumulative => Amount(r.tokens) = counter /\ counter = Add(from, cost)
       /\ r.kind = "last" => Amount(r.tokens) = cost
IsAppend(more, rows, r) == more = Append(rows, r)

(* A row of a new moment is written.                                         *)
LEMMA RowAdded ==
    ASSUME NEW tree, NEW n \in Nat \ {0}, IsTree(tree, n), NEW o, NEW rows,
           IsPath(tree, n, o, rows),
           NEW r, NEW cost \in Pairs, NEW counter \in Pairs, NEW since,
           IsMoment(tree, o, rows, n, r, cost, counter, since),
           NEW bigger, IsExtended(bigger, tree, n, o, rows, cost, counter, r.id),
           NEW more, IsAppend(more, rows, r)
    PROVE  /\ IsTree(bigger, n + 1) /\ IsPath(bigger, n + 1, o, more) /\ IsLonger(o, rows, more)
           /\ Len(more) = Len(rows) + 1 /\ more[Len(rows) + 1] = r /\ Node(o, more, Len(more)) = n
           /\ bigger[n].sum = Add(tree[Node(o, rows, Len(rows))].sum, cost)
           /\ bigger[n].counter = counter /\ bigger[n].id = r.id
           /\ bigger[Node(o, rows, Len(rows))] = tree[Node(o, rows, Len(rows))]
           /\ IsPath(bigger, n + 1, o, rows) /\ (IsExact(tree, o, rows) => IsExact(bigger, o, rows))
<1>0. PICK a : /\ a = Node(o, rows, Len(rows)) /\ bigger = Extended(tree, n, rows[1].thread, a, cost, counter, r.id)
               /\ counter = Add(tree[a].counter, cost) \/ counter = cost
               /\ r \in RowsOfCodex /\ r.kind # "meta" /\ r.thread = rows[1].thread /\ r.at = n /\ r.id \in {0, n}
               /\ r.kind \in Cumulative => Amount(r.tokens) = counter
               /\ r.kind = "last" => Amount(r.tokens) = cost
    BY DEF IsExtended, IsMoment
<1>1. IsHistory(rows) /\ rows \in Seq(RowsOfCodex) /\ Len(rows) \in 1 .. Len(rows)
  <2>1. IsHistory(rows)
      BY DEF IsPath
  <2> QED
      BY <2>1 DEF IsHistory
<1>2. PICK t \in Threads : t = rows[1].thread
  <2>1. rows[1] \in RowsOfCodex
      BY <1>1
  <2> QED
      BY <2>1 DEF RowsOfCodex
<1>3. a \in 0 .. n - 1 /\ (a = 0 \/ tree[a].owner = t)
  <2>1. /\ Node(o, rows, Len(rows)) \in 0 .. n - 1
        /\ Node(o, rows, Len(rows)) = 0 \/ tree[Node(o, rows, Len(rows))].owner = rows[1].thread
      BY <1>1, PathNode
  <2> QED
      BY <1>0, <1>2, <2>1
<1>4. PICK id \in Nat : id = r.id
    BY <1>0 DEF RowsOfCodex
<1>5. /\ IsTree(bigger, n + 1) /\ IsGrown(tree, n, bigger, n + 1)
      /\ bigger[n].owner = t /\ bigger[n].parent = a /\ bigger[n].counter = counter /\ bigger[n].cost = cost
      /\ bigger[n].sum = Add(tree[a].sum, cost) /\ bigger[n].id = id
  <2>1. bigger = Extended(tree, n, t, a, cost, counter, id)
      BY <1>0, <1>2, <1>4
  <2>2. PICK b, large : b = a /\ large = bigger
      OBVIOUS
  <2>3. b \in 0 .. n - 1 /\ (b = 0 \/ tree[b].owner = t) /\ large = Extended(tree, n, t, b, cost, counter, id)
        /\ (counter = Add(tree[b].counter, cost) \/ counter = cost)
      BY <1>0, <1>3, <2>1, <2>2
  <2>4. /\ IsTree(large, n + 1) /\ IsGrown(tree, n, large, n + 1)
        /\ large[n].owner = t /\ large[n].parent = b /\ large[n].counter = counter /\ large[n].cost = cost
        /\ large[n].sum = Add(tree[b].sum, cost) /\ large[n].id = id
      BY <2>3, MomentAdded
  <2> QED
      BY <2>2, <2>4
<1>6. /\ IsPath(bigger, n + 1, o, rows) /\ bigger[a] = tree[a]
      /\ IsExact(tree, o, rows) => IsExact(bigger, o, rows)
  <2>1. n + 1 \in Nat
      OBVIOUS
  <2>2. /\ IsPath(bigger, n + 1, o, rows)
        /\ \A i \in 1 .. Len(rows) : bigger[Node(o, rows, i)] = tree[Node(o, rows, i)]
        /\ IsExact(tree, o, rows) => IsExact(bigger, o, rows)
      BY <1>5, <2>1, PathStays
  <2> QED
      BY <1>0, <1>1, <2>2
<1>7. \A i \in 2 .. Len(rows) : rows[i].at < r.at
  <2> TAKE i \in 2 .. Len(rows)
  <2>1. rows[i].at \in 1 .. n - 1
      BY DEF IsPath
  <2> QED
      BY <1>0, <2>1
<1>8. Follows(bigger, a, r.at, r)
  <2>1. a < n
      BY <1>3
  <2> QED
      BY <1>0, <1>4, <1>5, <2>1 DEF Follows
<1>9. PICK s, m, large, b : s = r /\ m = n + 1 /\ large = bigger /\ b = a
    OBVIOUS
<1>10. /\ s \in RowsOfCodex /\ s.kind # "meta" /\ s.thread = rows[1].thread /\ (s.id # 0 => s.id = s.at)
       /\ m \in Nat /\ s.at \in 1 .. m - 1 /\ large[s.at].owner = s.thread
       /\ (s.kind \in Cumulative => Amount(s.tokens) = large[s.at].counter)
       /\ (s.kind = "last" => Amount(s.tokens) = large[s.at].cost)
    BY <1>0, <1>2, <1>5, <1>9
<1>11. /\ IsTree(large, m) /\ IsPath(large, m, o, rows) /\ Follows(large, Node(o, rows, Len(rows)), s.at, s)
       /\ \A i \in 2 .. Len(rows) : \/ rows[i].at < s.at
                                    \/ rows[i].at = s.at /\ rows[i].id # 0 /\ s.id = 0
    BY <1>0, <1>5, <1>6, <1>7, <1>8, <1>9
<1>12. /\ IsPath(large, m, o, Append(rows, s)) /\ Len(Append(rows, s)) = Len(rows) + 1
       /\ \A i \in 1 .. Len(rows) : /\ Append(rows, s)[i] = rows[i]
                                    /\ Node(o, Append(rows, s), i) = Node(o, rows, i)
                                    /\ Scanned(Append(rows, s), i) = Scanned(rows, i)
       /\ Append(rows, s)[Len(rows) + 1] = s /\ Node(o, Append(rows, s), Len(rows) + 1) = s.at
    BY <1>10, <1>11, PathAppended
<1>13. /\ IsPath(bigger, n + 1, o, more) /\ Len(more) = Len(rows) + 1 /\ IsLonger(o, rows, more)
       /\ more[Len(rows) + 1] = r /\ Node(o, more, Len(more)) = n
  <2>1. more = Append(rows, s)
      BY <1>9 DEF IsAppend
  <2>2. Len(rows) <= Len(more)
      BY <1>1, <1>12, <2>1
  <2>3. IsLonger(o, rows, more)
      BY <1>12, <2>1, <2>2 DEF IsLonger
  <2> QED
      BY <1>0, <1>9, <1>12, <2>1, <2>3
<1> QED
    BY <1>0, <1>2, <1>4, <1>5, <1>6, <1>13

(* The same moment is written once more, after the row with its id.          *)
IsRepeated(tree, rows, r, k) ==
    /\ rows[Len(rows)].at = k /\ rows[Len(rows)].id # 0 /\ tree[k].id # 0
    /\ r \in RowsOfCodex /\ r.kind = "total" /\ r.thread = rows[1].thread /\ r.at = k /\ r.id = 0
    /\ Amount(r.tokens) = tree[k].counter

(* So the file tells the same moments, and is read to the token as before.   *)
LEMMA RowRepeated ==
    ASSUME NEW tree, NEW n \in Nat, IsTree(tree, n), NEW o, NEW rows, IsPath(tree, n, o, rows),
           Len(rows) \in 2 .. Len(rows),
           NEW r, NEW k, IsRepeated(tree, rows, r, k),
           NEW more, IsAppend(more, rows, r)
    PROVE  /\ IsPath(tree, n, o, more) /\ IsLonger(o, rows, more)
           /\ Len(more) = Len(rows) + 1 /\ more[Len(rows) + 1] = r /\ Node(o, more, Len(more)) = k
           /\ IsExact(tree, o, rows) /\ Scanned(more, Len(more)).bad = 0 => IsExact(tree, o, more)
<1>0. /\ rows[Len(rows)].at = k /\ rows[Len(rows)].id # 0 /\ tree[k].id # 0
      /\ r \in RowsOfCodex /\ r.kind = "total" /\ r.thread = rows[1].thread /\ r.at = k /\ r.id = 0
      /\ Amount(r.tokens) = tree[k].counter
    BY DEF IsRepeated
<1>1. IsHistory(rows) /\ rows \in Seq(RowsOfCodex) /\ Len(rows) \in 1 .. Len(rows)
  <2>1. IsHistory(rows)
      BY DEF IsPath
  <2> QED
      BY <2>1 DEF IsHistory
<1>2. /\ k \in 1 .. n - 1 /\ tree[k].owner = rows[1].thread /\ tree[k] \in Moments
      /\ Node(o, rows, Len(rows)) = k
  <2>1. k \in 1 .. n - 1 /\ tree[k].owner = rows[1].thread
      BY <1>0 DEF IsPath
  <2>2. tree[k] \in Moments
      BY <2>1 DEF IsTree
  <2> QED
      BY <1>0, <2>1, <2>2 DEF Node
<1>3. \A i \in 2 .. Len(rows) : rows[i].at < k \/ (rows[i].at = k /\ rows[i].id # 0)
  <2> TAKE i \in 2 .. Len(rows)
  <2>1. i < Len(rows) => \/ rows[i].at < k
                         \/ rows[i].at = k /\ rows[i].id # 0
      BY <1>0, <1>1 DEF IsHistory
  <2>2. i < Len(rows) \/ i = Len(rows)
      BY <1>1
  <2> QED
      BY <1>0, <2>1, <2>2
<1>4. PICK s : s = r
    OBVIOUS
<1>5. Follows(tree, Node(o, rows, Len(rows)), s.at, s)
    BY <1>0, <1>2, <1>4 DEF Follows
<1>6. /\ s \in RowsOfCodex /\ s.kind # "meta" /\ s.thread = rows[1].thread /\ (s.id # 0 => s.id = s.at)
      /\ s.at \in 1 .. n - 1 /\ tree[s.at].owner = s.thread
      /\ (s.kind \in Cumulative => Amount(s.tokens) = tree[s.at].counter)
      /\ (s.kind = "last" => Amount(s.tokens) = tree[s.at].cost)
    BY <1>0, <1>2, <1>4
<1>7. \A i \in 2 .. Len(rows) : \/ rows[i].at < s.at
                                \/ rows[i].at = s.at /\ rows[i].id # 0 /\ s.id = 0
    BY <1>0, <1>3, <1>4
<1>8. /\ IsPath(tree, n, o, Append(rows, s)) /\ Len(Append(rows, s)) = Len(rows) + 1
      /\ \A i \in 1 .. Len(rows) : /\ Append(rows, s)[i] = rows[i]
                                   /\ Node(o, Append(rows, s), i) = Node(o, rows, i)
                                   /\ Scanned(Append(rows, s), i) = Scanned(rows, i)
      /\ Append(rows, s)[Len(rows) + 1] = s /\ Node(o, Append(rows, s), Len(rows) + 1) = s.at
    BY <1>5, <1>6, <1>7, PathAppended
<1>9. /\ IsPath(tree, n, o, more) /\ Len(more) = Len(rows) + 1 /\ IsLonger(o, rows, more)
      /\ more[Len(rows) + 1] = r /\ Node(o, more, Len(more)) = k
  <2>1. more = Append(rows, s)
      BY <1>4 DEF IsAppend
  <2>2. Len(rows) <= Len(more)
      BY <1>1, <1>8, <2>1
  <2>3. IsLonger(o, rows, more)
      BY <1>8, <2>1, <2>2 DEF IsLonger
  <2> QED
      BY <1>0, <1>4, <1>8, <2>1, <2>3
<1>10. ASSUME IsExact(tree, o, rows), Scanned(more, Len(more)).bad = 0
       PROVE  IsExact(tree, o, more)
  <2>1. PICK x, longer, y : x = tree[k] /\ longer = more /\ y = tree[k].counter
      OBVIOUS
  <2>2. x \in Moments /\ x.sum \in Pairs /\ x.counter \in Pairs /\ y = x.counter
      BY <1>2, <2>1, MomentIs
  <2>3. x.sum = Add(x.sum, Nil) /\ x.counter = Add(y, Nil) /\ Nil \in Pairs
      BY <2>2, AddIs
  <2>4. /\ IsPath(tree, n, o, longer) /\ IsLonger(o, rows, longer) /\ Len(longer) = Len(rows) + 1
        /\ longer[Len(rows) + 1] = s /\ Scanned(longer, Len(longer)).bad = 0
        /\ x = tree[Node(o, rows, Len(rows))] /\ x = tree[s.at]
        /\ s.kind # "last" /\ Amount(s.tokens) = y
      BY <1>0, <1>2, <1>4, <1>9, <1>10, <2>1
  <2>5. PICK d \in Pairs : d = Nil
      BY <2>3
  <2>6. IsNext(tree, o, rows, s, d, y)
      BY <1>6, <2>2, <2>3, <2>4, <2>5 DEF IsNext
  <2>7. IsAppended(o, rows, s, longer)
      BY <2>4 DEF IsAppended
  <2>8. IsExact(tree, o, longer)
      BY <1>6, <1>10, <2>4, <2>5, <2>6, <2>7, ExactAppended
  <2> QED
      BY <2>1, <2>8
<1> QED
    BY <1>9, <1>10

-----------------------------------------------------------------------------
(* One row,                                                                  *)
LEMMA JoinOne ==
    ASSUME NEW rows \in Seq(RowsOfCodex), NEW r \in RowsOfCodex, NEW more, more = rows \o <<r>>
    PROVE  more = Append(rows, r)
OBVIOUS

(* or two, are appended one after the other.                                 *)
LEMMA JoinTwo ==
    ASSUME NEW rows \in Seq(RowsOfCodex), NEW r \in RowsOfCodex, NEW s \in RowsOfCodex,
           NEW more, more = rows \o <<r, s>>
    PROVE  more = Append(Append(rows, r), s)
<1>1. /\ Append(Append(rows, r), s) \in Seq(RowsOfCodex) /\ more \in Seq(RowsOfCodex)
      /\ Len(Append(Append(rows, r), s)) = Len(rows) + 2 /\ Len(more) = Len(rows) + 2 /\ Len(rows) \in Nat
    OBVIOUS
<1>2. \A i \in 1 .. Len(rows) + 2 : more[i] = Append(Append(rows, r), s)[i]
    OBVIOUS
<1> QED
    BY <1>1, <1>2

(* What a response writes, as rows that are appended.                        *)
LEMMA ResponseRows ==
    ASSUME NEW rows \in Seq(RowsOfCodex), NEW kinds \in Codex!Kinds, NEW f, NEW more,
           more = rows \o [i \in DOMAIN kinds |-> f[kinds[i]]],
           f["total"] \in RowsOfCodex, f["usage"] \in RowsOfCodex
    PROVE  \/ more = Append(rows, f["total"])
           \/ more = Append(rows, f["usage"])
           \/ more = Append(Append(rows, f["usage"]), f["total"])
<1>1. CASE kinds = <<"total">>
  <2>1. [i \in DOMAIN kinds |-> f[kinds[i]]] = <<f["total"]>>
      BY <1>1
  <2> QED
      BY <2>1, JoinOne
<1>2. CASE kinds = <<"usage">>
  <2>1. [i \in DOMAIN kinds |-> f[kinds[i]]] = <<f["usage"]>>
      BY <1>2
  <2> QED
      BY <2>1, JoinOne
<1>3. CASE kinds = <<"usage", "total">>
  <2>1. [i \in DOMAIN kinds |-> f[kinds[i]]] = <<f["usage"], f["total"]>>
      BY <1>3
  <2> QED
      BY <2>1, JoinTwo
<1> QED
    BY <1>1, <1>2, <1>3 DEF Codex!Kinds

-----------------------------------------------------------------------------
(* A response is written as one row, or as a row with an id and one without. *)
IsWritten(tree, origin, rows, n, r, cost, counter, from, more) ==
    /\ IsMoment(tree, origin, rows, n, r, cost, counter, from)
    /\ \/ more = Append(rows, r)
       \/ \E s : /\ s \in RowsOfCodex /\ s.kind = "total" /\ s.thread = rows[1].thread /\ s.at = n /\ s.id = 0
                /\ r.id # 0 /\ Amount(s.tokens) = counter
                /\ more = Append(Append(rows, r), s)
IsUnseen(rows, r, from) ==
    LET b == AmountOf(Basis(Scanned(rows, Len(rows))))
    IN r.kind \in Cumulative /\ IsLess(from, b) => IsLess(Amount(r.tokens), b)

(* Whatever rows a response writes, the file goes on to its moment, and is   *)
(* read to the token, unless a reset was not seen.                           *)
LEMMA MomentRows ==
    ASSUME NEW tree, NEW n \in Nat \ {0}, IsTree(tree, n), NEW o, NEW rows,
           IsPath(tree, n, o, rows),
           NEW r, NEW cost \in Pairs, NEW counter \in Pairs, NEW from,
           NEW more, IsWritten(tree, o, rows, n, r, cost, counter, from, more),
           NEW bigger, IsExtended(bigger, tree, n, o, rows, cost, counter, r.id)
    PROVE  /\ IsPath(bigger, n + 1, o, more) /\ Node(o, more, Len(more)) = n
           /\ HasRow(more, n, r.id)
           /\ IsKept(rows, more)
           /\ (IsExact(tree, o, rows) /\ Scanned(more, Len(more)).bad = 0 /\ IsUnseen(rows, r, from))
              => IsExact(bigger, o, more)
<1>1. PICK a, some : a = Node(o, rows, Len(rows)) /\ some = Append(rows, r)
    OBVIOUS
<1>2. /\ r \in RowsOfCodex /\ r.kind # "meta" /\ r.thread = rows[1].thread /\ r.at = n /\ r.id \in {0, n}
      /\ counter = Add(tree[a].counter, cost) \/ counter = cost
      /\ from \in {tree[a].counter, Nil}
      /\ r.kind \in Cumulative => Amount(r.tokens) = counter /\ counter = Add(from, cost)
      /\ r.kind = "last" => Amount(r.tokens) = cost
    BY <1>1 DEF IsMoment, IsWritten
<1>3. PICK large : large = bigger
    OBVIOUS
<1>4. /\ IsTree(large, n + 1) /\ IsPath(large, n + 1, o, some) /\ IsLonger(o, rows, some)
      /\ Len(some) = Len(rows) + 1 /\ some[Len(rows) + 1] = r /\ Node(o, some, Len(some)) = n
      /\ large[n].sum = Add(tree[a].sum, cost)
      /\ large[n].counter = counter /\ large[n].id = r.id /\ large[a] = tree[a]
      /\ IsPath(large, n + 1, o, rows) /\ (IsExact(tree, o, rows) => IsExact(large, o, rows))
  <2>1. IsExtended(large, tree, n, o, rows, cost, counter, r.id) /\ IsAppend(some, rows, r)
        /\ IsMoment(tree, o, rows, n, r, cost, counter, from)
      BY <1>1, <1>3 DEF IsAppend, IsWritten
  <2>2. /\ IsTree(large, n + 1) /\ IsPath(large, n + 1, o, some) /\ IsLonger(o, rows, some)
        /\ Len(some) = Len(rows) + 1 /\ some[Len(rows) + 1] = r /\ Node(o, some, Len(some)) = n
        /\ large[n].sum = Add(tree[Node(o, rows, Len(rows))].sum, cost)
        /\ large[n].counter = counter /\ large[n].id = r.id
        /\ large[Node(o, rows, Len(rows))] = tree[Node(o, rows, Len(rows))]
        /\ IsPath(large, n + 1, o, rows) /\ (IsExact(tree, o, rows) => IsExact(large, o, rows))
      BY <2>1, RowAdded
  <2> QED
      BY <1>1, <2>2
<1>5. IsHistory(rows) /\ IsHistory(some) /\ Len(rows) \in 1 .. Len(rows) /\ Len(some) \in 2 .. Len(some)
  <2>1. IsHistory(rows) /\ IsHistory(some)
      BY <1>4 DEF IsPath
  <2> QED
      BY <1>4, <2>1 DEF IsHistory
<1>6. ASSUME IsExact(tree, o, rows), Scanned(some, Len(some)).bad = 0, IsUnseen(rows, r, from)
      PROVE  IsExact(large, o, some)
  <2>1. IsAppended(o, rows, r, some)
      BY <1>4 DEF IsAppended
  <2>2. IsNext(large, o, rows, r, cost, from)
    <3>1. /\ large[r.at].sum = Add(large[a].sum, cost) /\ from \in {large[a].counter, Nil}
          /\ large[r.at].counter = counter
        BY <1>2, <1>4
    <3>2. r.kind \in Cumulative =>
            (IsLess(from, AmountOf(Basis(Scanned(rows, Len(rows))))) =>
                IsLess(Amount(r.tokens), AmountOf(Basis(Scanned(rows, Len(rows))))))
        BY <1>6 DEF IsUnseen
    <3> QED
        BY <1>1, <1>2, <3>1, <3>2 DEF IsNext
  <2>3. n + 1 \in Nat /\ IsExact(large, o, rows)
      BY <1>4, <1>6
  <2>4. r \in RowsOfCodex /\ r.kind # "meta" /\ IsTree(large, n + 1) /\ IsPath(large, n + 1, o, rows)
        /\ IsPath(large, n + 1, o, some)
      BY <1>2, <1>4
  <2> QED
      BY <1>6, <2>1, <2>2, <2>3, <2>4, ExactAppended
<1>7. some[Len(some)] = r /\ Len(some) \in Nat
    BY <1>4, <1>5
<1>8. CASE more = some
  <2>1. IsKept(rows, some)
      BY <1>4, <1>5, KeptLonger
  <2>2. HasRow(some, n, r.id)
      BY <1>2, <1>5, <1>7 DEF HasRow
  <2> QED
      BY <1>3, <1>4, <1>5, <1>6, <1>8, <2>1, <2>2
<1>9. ASSUME NEW s, /\ s \in RowsOfCodex /\ s.kind = "total" /\ s.thread = rows[1].thread /\ s.at = n /\ s.id = 0
                     /\ r.id # 0 /\ Amount(s.tokens) = counter,
             more = Append(some, s)
      PROVE  /\ IsPath(large, n + 1, o, more) /\ Node(o, more, Len(more)) = n
             /\ HasRow(more, n, r.id)
             /\ IsKept(rows, more)
             /\ (IsExact(tree, o, rows) /\ Scanned(more, Len(more)).bad = 0 /\ IsUnseen(rows, r, from))
                => IsExact(large, o, more)
  <2>1. some[1] = rows[1]
      BY <1>4, <1>5 DEF IsLonger
  <2>2. PICK k, m : k = n /\ m = n + 1
      OBVIOUS
  <2>3. some[Len(some)].at = k /\ IsRepeated(large, some, s, k)
      BY <1>2, <1>4, <1>7, <1>9, <2>1, <2>2 DEF IsRepeated
  <2>4. m \in Nat /\ IsTree(large, m) /\ IsPath(large, m, o, some)
      BY <1>4, <2>2
  <2>5. PICK longer : longer = more
      OBVIOUS
  <2>6. /\ IsPath(large, m, o, longer) /\ IsLonger(o, some, longer)
        /\ Len(longer) = Len(some) + 1 /\ longer[Len(some) + 1] = s /\ Node(o, longer, Len(longer)) = k
        /\ IsExact(large, o, some) /\ Scanned(longer, Len(longer)).bad = 0 => IsExact(large, o, longer)
    <3>1. IsAppend(longer, some, s)
        BY <1>9, <2>5 DEF IsAppend
    <3> QED
        BY <1>5, <2>3, <2>4, <3>1, RowRepeated
  <2>7. IsHistory(longer) /\ Len(longer) \in Nat /\ Len(longer) \in 2 .. Len(longer)
    <3>1. IsHistory(longer)
        BY <2>6 DEF IsPath
    <3> QED
        BY <1>5, <2>6, <3>1 DEF IsHistory
  <2>8. IsLonger(o, rows, longer)
    <3>1. Len(rows) \in Nat
        BY <1>5
    <3> QED
        BY <1>4, <1>7, <2>6, <2>7, <3>1, LongerLonger
  <2>9. IsKept(rows, longer) /\ (Scanned(longer, Len(longer)).bad = 0 => Scanned(some, Len(some)).bad = 0)
      BY <1>5, <2>6, <2>7, <2>8, KeptLonger
  <2>10. HasRow(longer, n, r.id)
    <3>1. Len(some) \in 2 .. Len(longer) /\ longer[Len(some)] = r
        BY <1>5, <1>7, <2>6, <2>7 DEF IsLonger
    <3> QED
        BY <1>2, <3>1 DEF HasRow
  <2> QED
      BY <1>6, <2>2, <2>5, <2>6, <2>7, <2>9, <2>10
<1>10. \/ more = some
       \/ \E s : /\ s \in RowsOfCodex /\ s.kind = "total" /\ s.thread = rows[1].thread /\ s.at = n /\ s.id = 0
                /\ r.id # 0 /\ Amount(s.tokens) = counter /\ more = Append(some, s)
    BY <1>1 DEF IsWritten
<1> QED
    BY <1>3, <1>8, <1>9, <1>10

(* A response keeps the invariant: its moment is added to the tree, and the  *)
(* file goes on to it.                                                       *)
LEMMA MomentKeeps ==
    ASSUME HistoryTypes, NEW tree, NEW origin, IsHistoryOf(tree, origin),
           NEW p \in HistoryFiles, logs[p] # <<>>,
           NEW r, NEW cost \in Pairs, NEW counter \in Pairs, NEW from,
           NEW more, IsWritten(tree, origin[p], logs[p], codexClock, r, cost, counter, from, more),
           logs' = [logs EXCEPT ![p] = more],
           NEW c \in Raw, count' = [count EXCEPT ![p] = c], Amount(c) \in {counter, Nil},
           codexClock' = codexClock + 1, truth' = truth + Size(cost), masked' \in BOOLEAN,
           masked => masked',
           masked' \/ IsUnseen(logs[p], r, from)
    PROVE  HistoryInv'
<1>1. /\ IsTree(tree, codexClock) /\ codexClock \in Nat \ {0} /\ logs \in [HistoryFiles -> Seq(RowsOfCodex)]
      /\ IsPath(tree, codexClock, origin[p], logs[p])
      /\ masked \/ Damaged \/ IsExact(tree, origin[p], logs[p])
    BY DEF HistoryTypes, IsHistoryOf
<1>2. PICK o, rows : o = origin[p] /\ rows = logs[p]
    OBVIOUS
<1>3. PICK bigger : bigger = Extended(tree, codexClock, rows[1].thread, Node(o, rows, Len(rows)), cost, counter, r.id)
    OBVIOUS
<1>4. /\ IsWritten(tree, o, rows, codexClock, r, cost, counter, from, more) /\ IsPath(tree, codexClock, o, rows)
      /\ IsMoment(tree, o, rows, codexClock, r, cost, counter, from)
      /\ IsExtended(bigger, tree, codexClock, o, rows, cost, counter, r.id)
    BY <1>1, <1>2, <1>3 DEF IsWritten, IsMoment, IsExtended
<1>5. /\ IsPath(bigger, codexClock + 1, o, more) /\ Node(o, more, Len(more)) = codexClock
      /\ HasRow(more, codexClock, r.id)
      /\ IsKept(rows, more)
      /\ (IsExact(tree, o, rows) /\ Scanned(more, Len(more)).bad = 0 /\ IsUnseen(rows, r, from))
         => IsExact(bigger, o, more)
    BY <1>1, <1>4, MomentRows
<1>6. more # <<>> /\ Scanned(more, Len(more)).bad \in Nat
  <2>1. IsHistory(more) /\ Len(more) \in 1 .. Len(more)
    <3>1. IsHistory(more)
        BY <1>5 DEF IsPath
    <3> QED
        BY <3>1 DEF IsHistory
  <2> QED
      BY <2>1, BadGrows
<1>7. masked' \/ Damaged' \/ IsExact(bigger, o, more)
  <2>1. /\ Damaged => Damaged'
        /\ Scanned(more, Len(more)).bad > 0 => Damaged'
      BY <1>1, <1>2, <1>5, <1>6, DamageStays
  <2>2. ASSUME ~masked', ~Damaged'
        PROVE  IsExact(bigger, o, more)
    <3>1. Scanned(more, Len(more)).bad = 0 /\ ~masked /\ ~Damaged
        BY <1>6, <2>1, <2>2
    <3>2. IsExact(tree, o, rows) /\ IsUnseen(rows, r, from)
        BY <1>1, <1>2, <2>2, <3>1
    <3> QED
        BY <1>5, <3>1, <3>2
  <2> QED
      BY <2>2
<1>8. PICK id \in Nat : id = r.id
    BY <1>1, <1>4 DEF IsMoment
<1>9. IsExtended(bigger, tree, codexClock, origin[p], logs[p], cost, counter, id) /\ HasRow(more, codexClock, id)
    BY <1>2, <1>4, <1>5, <1>8
<1>10. /\ IsPath(bigger, codexClock + 1, origin[p], more) /\ Node(origin[p], more, Len(more)) = codexClock
       /\ IsKept(logs[p], more) /\ (masked' \/ Damaged' \/ IsExact(bigger, origin[p], more))
    BY <1>2, <1>5, <1>7
<1> HIDE DEF Damaged
<1> QED
    BY <1>5, <1>8, <1>9, <1>10, MomentGrows

-----------------------------------------------------------------------------
(* A response with a cumulative counter, with or without an id (Respond):    *)
(* the counter goes on, without its cached part, or from the start.          *)
LEMMA RespondKeeps ==
    ASSUME HistoryInv, NEW p \in HistoryFiles, NEW raw \in Responses, NEW kinds \in Codex!Kinds,
           NEW from \in {count[p], [count[p] EXCEPT !.cached = 0], Codex!Zero},
           Codex!Respond(p, raw, kinds, from)
    PROVE  HistoryInv'
<1>1. PICK tree, origin : IsHistoryOf(tree, origin)
    BY DEF HistoryInv
<1>2. /\ HistoryTypes /\ IsTree(tree, codexClock) /\ codexClock \in Nat \ {0} /\ count \in [HistoryFiles -> Raw]
      /\ logs \in [HistoryFiles -> Seq(RowsOfCodex)] /\ origin \in [HistoryFiles -> Nat] /\ truth \in Nat
      /\ masked \in BOOLEAN
    BY <1>1 DEF HistoryInv, IsHistoryOf, HistoryTypes
<1>3. PICK o, rows : o = origin[p] /\ rows = logs[p]
    OBVIOUS
<1>4. rows # <<>> /\ rows \in Seq(RowsOfCodex) /\ IsPath(tree, codexClock, o, rows) /\ raw \in Raw
  <2>1. rows # <<>>
      BY <1>3 DEF Codex!Respond
  <2> QED
      BY <1>1, <1>2, <1>3, <2>1, HistoryIs DEF IsHistoryOf, Raw
<1>5. IsHistory(rows) /\ Len(rows) \in 1 .. Len(rows) /\ rows[1].thread \in Threads
  <2>1. IsHistory(rows)
      BY <1>4 DEF IsPath
  <2>2. rows[1] \in RowsOfCodex /\ Len(rows) \in 1 .. Len(rows)
      BY <2>1 DEF IsHistory
  <2> QED
      BY <2>1, <2>2 DEF RowsOfCodex
<1>6. PICK a : a = tree[Node(o, rows, Len(rows))]
    OBVIOUS
<1>7. a \in Moments /\ a.counter \in Pairs /\ Amount(count[p]) \in {a.counter, Nil}
  <2>1. Node(o, rows, Len(rows)) \in 0 .. codexClock - 1
      BY <1>2, <1>4, <1>5, PathNode
  <2>2. a \in Moments
      BY <1>2, <1>6, <2>1 DEF IsTree
  <2> QED
      BY <1>1, <1>3, <1>4, <1>6, <2>2, MomentIs DEF IsHistoryOf
<1>8. from \in Raw /\ Amount(from) \in {a.counter, Nil}
  <2>1. PICK x \in Nat, y \in Nat, z \in Nat : count[p] = [in |-> x, cached |-> y, out |-> z] /\ y <= x
      BY <1>2 DEF Raw
  <2>2. [count[p] EXCEPT !.cached = 0] = [in |-> x, cached |-> 0, out |-> z]
      BY <2>1
  <2>3. [in |-> x, cached |-> 0, out |-> z] \in Raw /\ count[p] \in Raw
      BY <1>2 DEF Raw
  <2>4. Amount([in |-> x, cached |-> 0, out |-> z]) = Amount(count[p])
      BY <2>1 DEF Amount
  <2> QED
      BY <1>7, <2>2, <2>3, <2>4, ZeroIs
<1>9. PICK to, cost, counter, since :
            to = Codex!Plus(from, raw) /\ cost = Amount(raw) /\ counter = Amount(to) /\ since = Amount(from)
    OBVIOUS
<1>10. /\ to \in Raw /\ cost \in Pairs /\ counter \in Pairs /\ since \in {a.counter, Nil}
       /\ counter = Add(since, cost) /\ (counter = Add(a.counter, cost) \/ counter = cost)
  <2>1. to \in Raw /\ cost \in Pairs /\ counter \in Pairs
      BY <1>4, <1>8, <1>9, RawPlus, RawAmount
  <2>2. counter = Add(since, cost)
      BY <1>4, <1>8, <1>9, RawAmount
  <2> QED
      BY <1>7, <1>8, <1>9, <2>1, <2>2, AddIs
<1>11. PICK f : f = [k \in {"total", "usage"} |->
                        Codex!Row(k, rows[1].thread, IF k = "usage" THEN codexClock ELSE Codex!NoId, to)]
    OBVIOUS
<1>12. /\ f["total"] \in RowsOfCodex /\ f["total"].kind = "total" /\ f["total"].thread = rows[1].thread
       /\ f["total"].at = codexClock /\ f["total"].id = 0 /\ Amount(f["total"].tokens) = counter
  <2>1. PICK row, t : row = f["total"] /\ t = rows[1].thread
      OBVIOUS
  <2>2. row = [kind |-> "total", thread |-> t, id |-> 0, at |-> codexClock, tokens |-> to]
      BY <1>11, <2>1 DEF Codex!Row, Codex!NoId
  <2>3. t \in Threads /\ codexClock \in Nat /\ to \in Raw
      BY <1>2, <1>5, <1>10, <2>1
  <2>4. row \in RowsOfCodex
      BY <2>2, <2>3 DEF RowsOfCodex
  <2> QED
      BY <1>9, <2>1, <2>2, <2>4
<1>13. /\ f["usage"] \in RowsOfCodex /\ f["usage"].kind = "usage" /\ f["usage"].thread = rows[1].thread
       /\ f["usage"].at = codexClock /\ f["usage"].id = codexClock /\ Amount(f["usage"].tokens) = counter
  <2>1. PICK row, t : row = f["usage"] /\ t = rows[1].thread
      OBVIOUS
  <2>2. row = [kind |-> "usage", thread |-> t, id |-> codexClock, at |-> codexClock, tokens |-> to]
      BY <1>11, <2>1 DEF Codex!Row
  <2>3. t \in Threads /\ codexClock \in Nat /\ to \in Raw
      BY <1>2, <1>5, <1>10, <2>1
  <2>4. row \in RowsOfCodex
      BY <2>2, <2>3 DEF RowsOfCodex
  <2> QED
      BY <1>9, <2>1, <2>2, <2>4
<1>14. PICK more : more = rows \o [i \in DOMAIN kinds |-> f[kinds[i]]]
    OBVIOUS
<1>15. /\ logs' = [logs EXCEPT ![p] = more] /\ count' = [count EXCEPT ![p] = to] /\ codexClock' = codexClock + 1
       /\ truth' = truth + raw.in + raw.out /\ masked' = (masked \/ Codex!Masks(p, from, to))
  <2>1. [i \in DOMAIN kinds |-> f[kinds[i]]] =
            [i \in DOMAIN kinds |-> Codex!Row(kinds[i], Codex!ThreadOf(p),
                                              IF kinds[i] = "usage" THEN codexClock ELSE Codex!NoId, to)]
    <3>1. \A i \in DOMAIN kinds : kinds[i] \in {"total", "usage"}
      <4>1. CASE kinds = <<"total">>
          BY <4>1
      <4>2. CASE kinds = <<"usage">>
          BY <4>2
      <4>3. CASE kinds = <<"usage", "total">>
          BY <4>3
      <4> QED
          BY <4>1, <4>2, <4>3 DEF Codex!Kinds
    <3>2. Codex!ThreadOf(p) = rows[1].thread
        BY <1>3 DEF Codex!ThreadOf
    <3>3. \A i \in DOMAIN kinds : f[kinds[i]] = Codex!Row(kinds[i], Codex!ThreadOf(p),
                                                         IF kinds[i] = "usage" THEN codexClock ELSE Codex!NoId, to)
        BY <1>11, <3>1, <3>2
    <3> QED
        BY <3>3
  <2>2. logs' = [logs EXCEPT ![p] = rows \o
            [i \in DOMAIN kinds |-> Codex!Row(kinds[i], Codex!ThreadOf(p),
                                              IF kinds[i] = "usage" THEN codexClock ELSE Codex!NoId, to)]]
      BY <1>3, <1>9 DEF Codex!Respond
  <2>3. /\ count' = [count EXCEPT ![p] = to] /\ codexClock' = codexClock + 1
        /\ truth' = truth + raw.in + raw.out /\ masked' = (masked \/ Codex!Masks(p, from, to))
      BY <1>9 DEF Codex!Respond
  <2> QED
      BY <1>14, <2>1, <2>2, <2>3
<1>16. truth' = truth + Size(cost)
  <2>1. PICK x \in Nat, y \in Nat : x = raw.in /\ y = raw.out
      BY <1>4 DEF Raw
  <2>2. Size(cost) = x + y
      BY <1>4, <1>9, <2>1, RawAmount
  <2>3. truth' = (truth + x) + y
      BY <1>15, <2>1
  <2> QED
      BY <1>2, <2>2, <2>3
<1>17. Amount(to) \in {counter, Nil}
    BY <1>9
<1>18. ASSUME NEW r, r \in {f["total"], f["usage"]}
       PROVE  /\ IsMoment(tree, o, rows, codexClock, r, cost, counter, since)
              /\ masked' \/ IsUnseen(rows, r, since)
  <2>1. /\ r \in RowsOfCodex /\ r.kind \in {"total", "usage"} /\ r.thread = rows[1].thread /\ r.at = codexClock
        /\ r.id \in {0, codexClock} /\ Amount(r.tokens) = counter
      BY <1>12, <1>13, <1>18
  <2>2. IsMoment(tree, o, rows, codexClock, r, cost, counter, since)
      BY <1>6, <1>10, <2>1 DEF IsMoment, Cumulative
  <2>3. masked' \/ IsUnseen(rows, r, since)
    <3> DEFINE st == Scanned(rows, Len(rows))
    <3>1. st \in Streams
        BY <1>5, ReadingIs DEF IsStreamOf
    <3>2. Codex!Baseline(p) = Basis(st)
        BY <1>3 DEF Codex!Baseline, Basis, Scanned
    <3>3. Basis(st) \in Disjoint
        BY <3>1 DEF Basis, Streams
    <3> HIDE DEF st
    <3>4. PICK b \in Disjoint : b = Basis(st)
        BY <3>3
    <3>5. Codex!Masks(p, from, to) <=> IsLess(since, AmountOf(b)) /\ ~IsLess(counter, AmountOf(b))
      <4>1. Codex!Decreased(Codex!Tokens(from), b) <=> IsLess(since, AmountOf(b))
          BY <1>8, <1>9, DecreasedIs
      <4>2. Codex!Decreased(Codex!Tokens(to), b) <=> IsLess(counter, AmountOf(b))
          BY <1>9, <1>10, DecreasedIs
      <4> QED
          BY <3>2, <3>4, <4>1, <4>2 DEF Codex!Masks
    <3> QED
        BY <1>15, <2>1, <3>4, <3>5 DEF IsUnseen, st
  <2> QED
      BY <2>2, <2>3
<1>19. \E r : /\ IsWritten(tree, o, rows, codexClock, r, cost, counter, since, more)
              /\ masked' \/ IsUnseen(rows, r, since)
  <2>1. \/ more = Append(rows, f["total"])
        \/ more = Append(rows, f["usage"])
        \/ more = Append(Append(rows, f["usage"]), f["total"])
      BY <1>4, <1>12, <1>13, <1>14, ResponseRows
  <2>2. CASE more = Append(rows, f["total"])
      BY <1>18, <2>2 DEF IsWritten
  <2>3. CASE more = Append(rows, f["usage"])
      BY <1>18, <2>3 DEF IsWritten
  <2>4. CASE more = Append(Append(rows, f["usage"]), f["total"])
    <3>1. IsWritten(tree, o, rows, codexClock, f["usage"], cost, counter, since, more)
        BY <1>2, <1>12, <1>13, <1>18, <2>4 DEF IsWritten
    <3> QED
        BY <1>18, <3>1
  <2> QED
      BY <2>1, <2>2, <2>3, <2>4
<1>20. PICK r : /\ IsWritten(tree, o, rows, codexClock, r, cost, counter, since, more)
                /\ masked' \/ IsUnseen(rows, r, since)
    BY <1>19
<1>21. masked' \in BOOLEAN /\ (masked => masked')
    BY <1>2, <1>15
<1>22. PICK longer : longer = more
    OBVIOUS
<1>23. /\ IsWritten(tree, origin[p], logs[p], codexClock, r, cost, counter, since, longer)
       /\ masked' \/ IsUnseen(logs[p], r, since)
       /\ logs[p] # <<>> /\ logs' = [logs EXCEPT ![p] = longer]
    BY <1>3, <1>4, <1>15, <1>20, <1>22
<1>24. PICK c : c = to
    OBVIOUS
<1>25. c \in Raw /\ count' = [count EXCEPT ![p] = c] /\ Amount(c) \in {counter, Nil} /\ codexClock' = codexClock + 1
    BY <1>10, <1>15, <1>17, <1>24
<1> QED
    BY <1>1, <1>2, <1>10, <1>16, <1>21, <1>23, <1>25, MomentKeeps

-----------------------------------------------------------------------------
(* A response with last_token_usage only (RespondLastOnly).                  *)
LEMMA LastOnlyKeeps ==
    ASSUME HistoryInv, NEW p \in HistoryFiles, NEW raw \in Responses,
           Codex!RespondLastOnly(p, raw)
    PROVE  HistoryInv'
<1>1. PICK tree, origin : IsHistoryOf(tree, origin)
    BY DEF HistoryInv
<1>2. /\ HistoryTypes /\ IsTree(tree, codexClock) /\ codexClock \in Nat \ {0} /\ count \in [HistoryFiles -> Raw]
      /\ logs \in [HistoryFiles -> Seq(RowsOfCodex)] /\ origin \in [HistoryFiles -> Nat] /\ truth \in Nat
      /\ masked \in BOOLEAN
    BY <1>1 DEF HistoryInv, IsHistoryOf, HistoryTypes
<1>3. PICK o, rows, from : o = origin[p] /\ rows = logs[p] /\ from = count[p]
    OBVIOUS
<1>4. rows # <<>> /\ rows \in Seq(RowsOfCodex) /\ IsPath(tree, codexClock, o, rows) /\ raw \in Raw /\ from \in Raw
  <2>1. rows # <<>>
      BY <1>3 DEF Codex!RespondLastOnly
  <2> QED
      BY <1>1, <1>2, <1>3, <2>1, HistoryIs DEF IsHistoryOf, Raw
<1>5. IsHistory(rows) /\ Len(rows) \in 1 .. Len(rows) /\ rows[1].thread \in Threads
  <2>1. IsHistory(rows)
      BY <1>4 DEF IsPath
  <2>2. rows[1] \in RowsOfCodex /\ Len(rows) \in 1 .. Len(rows)
      BY <2>1 DEF IsHistory
  <2> QED
      BY <2>1, <2>2 DEF RowsOfCodex
<1>6. PICK a : a = tree[Node(o, rows, Len(rows))]
    OBVIOUS
<1>7. a \in Moments /\ a.counter \in Pairs /\ Amount(from) \in {a.counter, Nil}
  <2>1. Node(o, rows, Len(rows)) \in 0 .. codexClock - 1
      BY <1>2, <1>4, <1>5, PathNode
  <2>2. a \in Moments
      BY <1>2, <1>6, <2>1 DEF IsTree
  <2> QED
      BY <1>1, <1>3, <1>4, <1>6, <2>2, MomentIs DEF IsHistoryOf
<1>8. PICK to, cost, counter, since :
            to = Codex!Plus(from, raw) /\ cost = Amount(raw) /\ counter = Amount(to) /\ since = Amount(from)
    OBVIOUS
<1>9. /\ to \in Raw /\ cost \in Pairs /\ counter \in Pairs /\ since \in {a.counter, Nil}
      /\ (counter = Add(a.counter, cost) \/ counter = cost)
  <2>1. to \in Raw /\ cost \in Pairs /\ counter \in Pairs
      BY <1>4, <1>8, RawPlus, RawAmount
  <2>2. counter = Add(since, cost)
      BY <1>4, <1>8, RawAmount
  <2> QED
      BY <1>7, <1>8, <2>1, <2>2, AddIs
<1>10. PICK r : r = Codex!Row("last", rows[1].thread, Codex!NoId, raw)
    OBVIOUS
<1>11. /\ r \in RowsOfCodex /\ r.kind = "last" /\ r.thread = rows[1].thread
       /\ r.at = codexClock /\ r.id = 0 /\ Amount(r.tokens) = cost
  <2>1. PICK t : t = rows[1].thread
      OBVIOUS
  <2>2. r = [kind |-> "last", thread |-> t, id |-> 0, at |-> codexClock, tokens |-> raw]
      BY <1>10, <2>1 DEF Codex!Row, Codex!NoId
  <2>3. t \in Threads /\ codexClock \in Nat
      BY <1>2, <1>5, <2>1
  <2>4. r \in RowsOfCodex
      BY <1>4, <2>2, <2>3 DEF RowsOfCodex
  <2> QED
      BY <1>8, <2>1, <2>2, <2>4
<1>12. PICK more : more = Append(rows, r)
    OBVIOUS
<1>13. /\ logs' = [logs EXCEPT ![p] = more] /\ count' = [count EXCEPT ![p] = to] /\ codexClock' = codexClock + 1
       /\ truth' = truth + raw.in + raw.out /\ masked' = masked
    BY <1>3, <1>8, <1>10, <1>12 DEF Codex!RespondLastOnly, Codex!ThreadOf
<1>14. truth' = truth + Size(cost)
  <2>1. PICK x \in Nat, y \in Nat : x = raw.in /\ y = raw.out
      BY <1>4 DEF Raw
  <2>2. Size(cost) = x + y
      BY <1>4, <1>8, <2>1, RawAmount
  <2>3. truth' = (truth + x) + y
      BY <1>13, <2>1
  <2> QED
      BY <1>2, <2>2, <2>3
<1>15. IsWritten(tree, o, rows, codexClock, r, cost, counter, since, more)
  <2>1. IsMoment(tree, o, rows, codexClock, r, cost, counter, since)
      BY <1>6, <1>9, <1>11 DEF IsMoment, Cumulative
  <2> QED
      BY <1>12, <2>1 DEF IsWritten
<1>16. IsUnseen(rows, r, since)
    BY <1>11 DEF IsUnseen, Cumulative
<1>17. PICK longer, c : longer = more /\ c = to
    OBVIOUS
<1>18. /\ IsWritten(tree, origin[p], logs[p], codexClock, r, cost, counter, since, longer)
       /\ masked' \/ IsUnseen(logs[p], r, since)
       /\ logs[p] # <<>> /\ logs' = [logs EXCEPT ![p] = longer]
    BY <1>3, <1>4, <1>13, <1>15, <1>16, <1>17
<1>19. c \in Raw /\ count' = [count EXCEPT ![p] = c] /\ Amount(c) \in {counter, Nil} /\ codexClock' = codexClock + 1
    BY <1>8, <1>9, <1>13, <1>17
<1>20. masked' \in BOOLEAN /\ (masked => masked')
    BY <1>2, <1>13
<1> QED
    BY <1>1, <1>2, <1>9, <1>14, <1>18, <1>19, <1>20, MomentKeeps

(* The last row is written once more (Repeat).                               *)
LEMMA RepeatKeeps ==
    ASSUME HistoryInv, NEW p \in HistoryFiles, Codex!Repeat(p)
    PROVE  HistoryInv'
<1>1. PICK tree, origin : IsHistoryOf(tree, origin)
    BY DEF HistoryInv
<1>2. /\ HistoryTypes /\ IsTree(tree, codexClock) /\ codexClock \in Nat \ {0} /\ count \in [HistoryFiles -> Raw]
      /\ logs \in [HistoryFiles -> Seq(RowsOfCodex)] /\ origin \in [HistoryFiles -> Nat] /\ truth \in Nat
      /\ masked \in BOOLEAN
    BY <1>1 DEF HistoryInv, IsHistoryOf, HistoryTypes
<1>3. PICK o, rows, c : o = origin[p] /\ rows = logs[p] /\ c = count[p]
    OBVIOUS
<1>4. rows # <<>> /\ rows \in Seq(RowsOfCodex) /\ IsPath(tree, codexClock, o, rows) /\ c \in Raw
  <2>1. rows # <<>>
      BY <1>3 DEF Codex!Repeat
  <2> QED
      BY <1>1, <1>2, <1>3, <2>1 DEF IsHistoryOf
<1>5. PICK n : n = Len(rows)
    OBVIOUS
<1>6. IsHistory(rows) /\ n \in 1 .. Len(rows) /\ rows[n] \in RowsOfCodex /\ rows[n].kind \in {"total", "usage"}
      /\ n \in 2 .. Len(rows)
  <2>1. IsHistory(rows)
      BY <1>4 DEF IsPath
  <2>2. Codex!Last(rows) = rows[n]
      BY <1>5 DEF Codex!Last
  <2>3. rows[n].kind \in {"total", "usage"}
      BY <1>3, <2>2 DEF Codex!Repeat
  <2>4. n \in 1 .. Len(rows) /\ rows[1].kind = "meta"
      BY <1>5, <2>1 DEF IsHistory
  <2> QED
      BY <1>4, <2>1, <2>3, <2>4
<1>7. PICK a, last : a = tree[Node(o, rows, Len(rows))] /\ last = rows[n]
    OBVIOUS
<1>8. /\ a \in Moments /\ a.counter \in Pairs /\ Amount(last.tokens) = a.counter
      /\ Amount(c) \in {a.counter, Nil} /\ last.thread = rows[1].thread
  <2>1. Node(o, rows, n) \in 0 .. codexClock - 1
      BY <1>2, <1>4, <1>6, PathNode
  <2>2. a \in Moments
      BY <1>2, <1>5, <1>7, <2>1 DEF IsTree
  <2>3. Amount(last.tokens) = tree[rows[n].at].counter
      BY <1>4, <1>6, <1>7 DEF IsPath, Cumulative
  <2>4. Node(o, rows, n) = rows[n].at
      BY <1>6 DEF Node
  <2>5. last.thread = rows[1].thread
      BY <1>6, <1>7 DEF IsHistory
  <2>6. Amount(c) \in {tree[Node(o, rows, Len(rows))].counter, Nil}
      BY <1>1, <1>3, <1>4 DEF IsHistoryOf
  <2> QED
      BY <1>5, <1>7, <2>2, <2>3, <2>4, <2>5, <2>6, MomentIs
<1>9. PICK r : r = [last EXCEPT !.kind = "total", !.id = Codex!NoId, !.at = codexClock]
    OBVIOUS
<1>10. /\ r \in RowsOfCodex /\ r.kind = "total" /\ r.thread = rows[1].thread
       /\ r.at = codexClock /\ r.id = 0 /\ Amount(r.tokens) = a.counter
  <2>1. last \in RowsOfCodex /\ codexClock \in Nat
      BY <1>2, <1>6, <1>7
  <2>2. r = [kind |-> "total", thread |-> last.thread, id |-> 0, at |-> codexClock, tokens |-> last.tokens]
      BY <1>9, <2>1 DEF RowsOfCodex, Codex!NoId
  <2>3. last.thread \in Threads /\ last.tokens \in Raw
      BY <2>1 DEF RowsOfCodex
  <2>4. r \in RowsOfCodex
      BY <2>1, <2>2, <2>3 DEF RowsOfCodex
  <2> QED
      BY <1>8, <2>2, <2>4
<1>11. PICK more : more = Append(rows, r)
    OBVIOUS
<1>12. /\ logs' = [logs EXCEPT ![p] = more] /\ count' = count /\ codexClock' = codexClock + 1
       /\ truth' = truth /\ masked' = masked
  <2>1. Codex!Last(rows) = last
      BY <1>5, <1>7 DEF Codex!Last
  <2>2. logs' = [logs EXCEPT ![p] = Append(rows, [Codex!Last(rows) EXCEPT !.kind = "total", !.id = Codex!NoId, !.at = codexClock])]
      BY <1>3 DEF Codex!Repeat
  <2> QED
      BY <1>9, <1>11, <2>1, <2>2 DEF Codex!Repeat
<1>13. PICK cost \in Pairs, counter \in Pairs : cost = Nil /\ counter = a.counter
    BY <1>8, AddIs
<1>14. counter = Add(a.counter, cost) /\ truth' = truth + Size(cost)
  <2>1. counter = Add(a.counter, cost) /\ Size(cost) = 0
      BY <1>8, <1>13, AddIs
  <2> QED
      BY <1>2, <1>12, <2>1
<1>15. IsWritten(tree, o, rows, codexClock, r, cost, counter, counter, more)
  <2>1. IsMoment(tree, o, rows, codexClock, r, cost, counter, counter)
      BY <1>7, <1>10, <1>13, <1>14 DEF IsMoment, Cumulative
  <2> QED
      BY <1>11, <2>1 DEF IsWritten
<1>16. IsUnseen(rows, r, counter)
    BY <1>10, <1>13 DEF IsUnseen
<1>17. PICK longer : longer = more
    OBVIOUS
<1>18. /\ IsWritten(tree, origin[p], logs[p], codexClock, r, cost, counter, counter, longer)
       /\ masked' \/ IsUnseen(logs[p], r, counter)
       /\ logs[p] # <<>> /\ logs' = [logs EXCEPT ![p] = longer]
    BY <1>3, <1>4, <1>12, <1>15, <1>16, <1>17
<1>19. c \in Raw /\ count' = [count EXCEPT ![p] = c] /\ Amount(c) \in {counter, Nil} /\ codexClock' = codexClock + 1
    BY <1>2, <1>3, <1>4, <1>8, <1>12, <1>13
<1>20. masked' \in BOOLEAN /\ (masked => masked')
    BY <1>2, <1>12
<1> QED
    BY <1>1, <1>2, <1>14, <1>18, <1>19, <1>20, MomentKeeps

(* It starts with no file and no moment.                                     *)
LEMMA HistoryBegin == Codex!CodexInit => HistoryInv
<1> SUFFICES ASSUME Codex!CodexInit
             PROVE  HistoryInv
    OBVIOUS
<1>1. /\ logs = [p \in HistoryFiles |-> <<>>] /\ count = [p \in HistoryFiles |-> Codex!Zero]
      /\ codexClock = 1 /\ truth = 0 /\ ~masked /\ masked = FALSE
    BY DEF Codex!CodexInit
<1>2. PICK root : root = [owner |-> NoThread, parent |-> 0, cost |-> Nil, counter |-> Nil, sum |-> Nil, id |-> 0]
    OBVIOUS
<1>3. root \in Moments
    BY <1>2 DEF Moments, Nil, Pairs
<1>4. PICK tree, origin : tree = [k \in Nat |-> root] /\ origin = [p \in HistoryFiles |-> 0]
    OBVIOUS
<1>5. IsTree(tree, codexClock)
  <2>1. tree \in [Nat -> Moments] /\ tree[0] = root
      BY <1>3, <1>4
  <2>2. 1 .. codexClock - 1 = {}
      BY <1>1
  <2>3. tree[0].cost = Nil /\ tree[0].counter = Nil /\ tree[0].sum = Nil
      BY <1>2, <2>1
  <2> QED
      BY <2>1, <2>2, <2>3 DEF IsTree
<1>6. HistoryTypes
  <2>1. logs \in [HistoryFiles -> Seq(RowsOfCodex)]
      BY <1>1
  <2>2. count \in [HistoryFiles -> Raw]
      BY <1>1, ZeroIs
  <2>3. codexClock \in Nat \ {0} /\ truth \in Nat
      BY <1>1, SMT
  <2>4. masked \in BOOLEAN
      BY <1>1, Zenon
  <2> QED
      BY <2>1, <2>2, <2>3, <2>4 DEF HistoryTypes
<1>7. truth = SumFunctionOnSet(CostOf(tree), 1 .. codexClock - 1) /\ 1 .. codexClock - 1 = {}
  <2>1. 1 .. codexClock - 1 = {}
      BY <1>1
  <2> QED
      BY <1>1, <2>1, SumEmpty
<1>8. IsHistoryOf(tree, origin)
  <2>1. \A p \in HistoryFiles : logs[p] = <<>> /\ count[p] = Codex!Zero
      BY <1>1
  <2>2. origin \in [HistoryFiles -> Nat]
      BY <1>4
  <2> QED
      BY <1>5, <1>7, <2>1, <2>2 DEF IsHistoryOf
<1> QED
    BY <1>6, <1>8 DEF HistoryInv

(* Every step of the clients keeps the invariant,                            *)
LEMMA HistoryStep == HistoryInv /\ [Codex!CodexNext]_codexVars => HistoryInv'
<1> SUFFICES ASSUME HistoryInv, [Codex!CodexNext]_codexVars
             PROVE  HistoryInv'
    OBVIOUS
<1>1. CASE UNCHANGED codexVars
  <2>1. PICK tree, origin : IsHistoryOf(tree, origin)
      BY DEF HistoryInv
  <2>2. logs' = logs /\ count' = count /\ codexClock' = codexClock /\ truth' = truth /\ masked' = masked
      BY <1>1 DEF codexVars
  <2>3. HistoryTypes'
      BY <2>2 DEF HistoryInv, HistoryTypes
  <2>4. IsHistoryOf(tree, origin)'
      BY <2>1, <2>2 DEF IsHistoryOf, Damaged
  <2> QED
      BY <2>3, <2>4 DEF HistoryInv
<1>2. ASSUME NEW p \in HistoryFiles, NEW t \in Threads, Codex!Open(p, t)
      PROVE  HistoryInv'
    BY <1>2, OpenKeeps
<1>3. ASSUME NEW p \in HistoryFiles, NEW raw \in Responses, NEW kinds \in Codex!Kinds,
             NEW from \in {count[p], [count[p] EXCEPT !.cached = 0], Codex!Zero},
             Codex!Respond(p, raw, kinds, from)
      PROVE  HistoryInv'
    BY <1>3, RespondKeeps
<1>4. ASSUME NEW p \in HistoryFiles, NEW raw \in Responses, Codex!RespondLastOnly(p, raw)
      PROVE  HistoryInv'
    BY <1>4, LastOnlyKeeps
<1>5. ASSUME NEW p \in HistoryFiles, Codex!Repeat(p)
      PROVE  HistoryInv'
    BY <1>5, RepeatKeeps
<1>6. ASSUME NEW p \in HistoryFiles, NEW q \in HistoryFiles, NEW n \in 1 .. CodexRows,
             Codex!CopyHead(p, q, n)
      PROVE  HistoryInv'
    BY <1>6, CopyHeadKeeps
<1>7. ASSUME NEW p \in HistoryFiles, NEW q \in HistoryFiles, NEW n \in 1 .. CodexRows,
             Codex!CopyTail(p, q, n)
      PROVE  HistoryInv'
    BY <1>7, CopyTailKeeps
<1>8. ASSUME NEW p \in HistoryFiles, NEW i \in 1 .. CodexRows, Codex!Damage(p, i)
      PROVE  HistoryInv'
    BY <1>8, CodexDamageKeeps
<1> QED
    BY <1>1, <1>2, <1>3, <1>4, <1>5, <1>6, <1>7, <1>8 DEF Codex!CodexNext

(* and in a behaviour of the providers the clients take no other steps.      *)
LEMMA HistoryRun == [PollingNext]_pollingVars => [Codex!CodexNext]_codexVars
BY DEF PollingNext, pollingVars

(* The inductive invariant HistoryInv holds always: whatever the clients     *)
(* write, copy, rotate, reset and damage, there is one tree of moments that  *)
(* explains every file, and all that was used.                               *)
THEOREM HistoryInvariant == PollingSpec => []HistoryInv
<1>1. PollingInit => HistoryInv
    BY HistoryBegin DEF PollingInit
<1> QED
    BY <1>1, HistoryRun, HistoryStep, PTL DEF PollingSpec

-----------------------------------------------------------------------------
(* Streams of which one begins like the other.                               *)
IsBegin(a, b) == Len(a) <= Len(b) /\ \A i \in 1 .. Len(a) : b[i] = a[i]

(* _codex_stream_is_prefix, element by element.                              *)
LEMMA PrefixIs ==
    ASSUME NEW a \in Seq(Observations), NEW b \in Seq(Observations)
    PROVE  Codex!IsPrefix(a, b) <=> IsBegin(a, b)
<1>1. /\ Len(a) \in Nat /\ Len(b) \in Nat
      /\ SubSeq(a, 1, Len(a)) = a
    OBVIOUS
<1>2. ASSUME Len(a) <= Len(b)
      PROVE  SubSeq(b, 1, Len(a)) = a <=> \A i \in 1 .. Len(a) : b[i] = a[i]
  <2> DEFINE head == SubSeq(b, 1, Len(a))
  <2>1. /\ head \in Seq(Observations) /\ Len(head) = Len(a)
        /\ \A i \in 1 .. Len(a) : head[i] = b[i]
      BY <1>1, <1>2
  <2> HIDE DEF head
  <2>2. head = a <=> \A i \in 1 .. Len(a) : head[i] = a[i]
      BY <2>1
  <2> QED
      BY <2>1, <2>2 DEF head
<1> QED
    BY <1>1, <1>2 DEF Codex!IsPrefix, IsBegin

(* The beginning of a beginning.                                             *)
LEMMA BeginBegins ==
    ASSUME NEW a \in Seq(Observations), NEW b \in Seq(Observations),
           NEW c \in Seq(Observations),
           IsBegin(a, b), IsBegin(b, c)
    PROVE  IsBegin(a, c)
<1>1. Len(a) \in Nat /\ Len(b) \in Nat /\ Len(c) \in Nat
    OBVIOUS
<1> QED
    BY <1>1 DEF IsBegin

(* The beginning has no more tokens, and fewer if something is missing.      *)
LEMMA BeginSum ==
    ASSUME NEW a \in Seq(Observations), NEW b \in Seq(Observations), IsBegin(a, b),
           \A i \in DOMAIN b : Codex!Total(b[i].tokens) > 0
    PROVE  /\ Codex!SumOf(a) <= Codex!SumOf(b)
           /\ Codex!SumOf(b) <= Codex!SumOf(a) => a = b
<1> DEFINE f == [i \in DOMAIN a |-> Codex!Total(a[i].tokens)]
           g == [i \in DOMAIN b |-> Codex!Total(b[i].tokens)]
           rest == DOMAIN b \ DOMAIN a
<1>1. /\ Codex!SumOf(a) = SumFunctionOnSet(f, DOMAIN a) /\ Codex!SumOf(b) = SumFunctionOnSet(g, DOMAIN b)
      /\ IsFiniteSet(DOMAIN a) /\ IsFiniteSet(DOMAIN b) /\ Codex!SumOf(a) \in Nat /\ Codex!SumOf(b) \in Nat
      /\ \A i \in DOMAIN b : Codex!Total(b[i].tokens) \in Nat
    BY SumOfIs
<1>2. DOMAIN a \subseteq DOMAIN b /\ \A i \in DOMAIN a : b[i] = a[i]
    BY DEF IsBegin
<1>3. /\ \A i \in DOMAIN b : g[i] \in Nat /\ g[i] > 0
      /\ \A i \in DOMAIN a : f[i] = g[i] /\ f[i] \in Int
    BY <1>1, <1>2
<1>4. /\ IsFiniteSet(rest) /\ DOMAIN b = DOMAIN a \union rest /\ DOMAIN a \intersect rest = {}
      /\ \A i \in rest : g[i] \in Nat /\ g[i] > 0
    BY <1>1, <1>2, <1>3, FS_Subset
<1> HIDE DEF f, g, rest
<1>5. SumFunctionOnSet(f, DOMAIN a) = SumFunctionOnSet(g, DOMAIN a)
    BY <1>1, <1>3, SumEqual
<1>6. \A i \in DOMAIN a \union rest : g[i] \in Int
    BY <1>3, <1>4
<1>7. SumFunctionOnSet(g, DOMAIN a \union rest) = SumFunctionOnSet(g, DOMAIN a) + SumFunctionOnSet(g, rest)
    BY <1>1, <1>4, <1>6, SumUnion
<1>8. SumFunctionOnSet(g, rest) \in Nat /\ (SumFunctionOnSet(g, rest) > 0 <=> rest # {})
  <2>1. \A i \in rest : g[i] \in Nat
      BY <1>4
  <2>2. SumFunctionOnSet(g, rest) \in Nat
      BY <1>4, <2>1, SumNat
  <2>3. SumFunctionOnSet(g, rest) > 0 <=> \E i \in rest : g[i] > 0
      BY <1>4, <2>1, SumPositive
  <2> QED
      BY <1>4, <2>2, <2>3
<1>9. Codex!SumOf(b) = Codex!SumOf(a) + SumFunctionOnSet(g, rest)
    BY <1>1, <1>4, <1>5, <1>7
<1>10. ASSUME rest = {}
       PROVE  a = b
  <2>1. DOMAIN a = DOMAIN b
      BY <1>4, <1>10
  <2> QED
      BY <1>2, <2>1
<1> QED
    BY <1>1, <1>8, <1>9, <1>10

(* What is observed at a row is still there at a later one.                  *)
LEMMA ObservedStays ==
    ASSUME NEW rows, IsHistory(rows), NEW i \in 1 .. Len(rows), NEW j \in i .. Len(rows)
    PROVE  IsBegin(Scanned(rows, i).obs, Scanned(rows, j).obs)
<1> DEFINE B == {x \in 0 .. Len(rows) : x < i \/ IsBegin(Scanned(rows, i).obs, Scanned(rows, x).obs)}
<1>1. \A x \in 1 .. Len(rows) : Scanned(rows, x).obs \in Seq(Observations)
    BY ReadingIs DEF IsStreamOf, Streams
<1>2. Len(rows) \in Nat
    BY DEF IsHistory
<1>3. ASSUME NEW x \in 1 .. Len(rows), x - 1 \in B
      PROVE  x \in B
  <2>1. CASE x < i
      BY <2>1
  <2>2. CASE x = i
    <3>1. Scanned(rows, i).obs \in Seq(Observations)
        BY <1>1
    <3>2. IsBegin(Scanned(rows, i).obs, Scanned(rows, i).obs)
        BY <3>1 DEF IsBegin
    <3> QED
        BY <2>2, <3>2
  <2>3. CASE x > i
    <3>1. x \in 2 .. Len(rows) /\ x - 1 \in 1 .. Len(rows)
        BY <2>3
    <3>2. IsBegin(Scanned(rows, i).obs, Scanned(rows, x - 1).obs)
        BY <1>3, <2>3, <3>1
    <3>3. IsRowRead(Scanned(rows, x - 1), rows[x], Scanned(rows, x))
        BY <3>1, ReadingIs
    <3>4. PICK a \in Seq(Observations), b \in Seq(Observations), c \in Seq(Observations) :
              a = Scanned(rows, i).obs /\ b = Scanned(rows, x - 1).obs /\ c = Scanned(rows, x).obs
        BY <1>1, <3>1
    <3>5. c = b \/ \E o : c = Append(b, o)
        BY <3>3, <3>4 DEF IsRowRead
    <3>6. IsBegin(b, c)
        BY <3>4, <3>5 DEF IsBegin
    <3>7. IsBegin(a, c)
        BY <3>2, <3>4, <3>6, BeginBegins
    <3> QED
        BY <3>4, <3>7
  <2> QED
      BY <2>1, <2>2, <2>3
<1>4. 0 \in B
    BY <1>2
<1> HIDE DEF B
<1>5. \A x \in 0 .. Len(rows) : x \in B
    BY <1>2, <1>3, <1>4, UpTo
<1>6. j \in B /\ j >= i
    BY <1>5
<1> QED
    BY <1>6 DEF B

-----------------------------------------------------------------------------
(* Nothing is observed as long as the counters say nothing.                  *)
LEMMA QuietStep ==
    ASSUME NEW st \in Streams, NEW r \in RowsOfCodex, r.kind # "meta", NEW to,
           IsRowRead(st, r, to),
           Codex!Total(Basis(st)) = 0, to.bad = 0, to.obs = <<>>
    PROVE  r.kind # "damaged" /\ Size(Amount(r.tokens)) = 0 /\ Codex!Total(Basis(to)) = 0
<1>1. ~Worse(st, r)
  <2>1. st.bad \in Nat
      BY DEF Streams
  <2> QED
      BY <2>1 DEF IsRowRead
<1>2. r.kind # "damaged" /\ (r.kind = "last" => ~st.counted)
    BY <1>1 DEF Worse
<1>3. r.kind = "last" \/ r.kind \in Cumulative
    BY <1>2 DEF RowsOfCodex, Cumulative
<1>4. Codex!Total(Increment(st, r)) = 0
  <2>1. \A o : Append(st.obs, o) # <<>>
    <3>1. st.obs \in Seq(Observations)
        BY DEF Streams
    <3> TAKE o
    <3>2. Len(Append(st.obs, o)) = Len(st.obs) + 1 /\ Len(st.obs) \in Nat
        BY <3>1
    <3> QED
        BY <3>2
  <2> QED
      BY <2>1 DEF IsRowRead
<1> DEFINE x == Amount(r.tokens)
           b == AmountOf(Basis(st))
           less == x[1] < b[1] \/ x[2] < b[2]
<1>5. /\ x \in Pairs /\ b \in Pairs /\ Size(b) = 0
      /\ Codex!Total(Codex!Tokens(r.tokens)) = Size(x)
      /\ Codex!Total(Increment(st, r)) =
            IF r.kind = "damaged" \/ (r.kind = "last" /\ st.counted) THEN 0
            ELSE IF r.kind = "last" THEN Size(x)
            ELSE IF ~less THEN Size(x) - Size(b)
            ELSE IF st.counted THEN Size(x) ELSE 0
    BY IncrementIs
<1> HIDE DEF x, b
<1>6. ~less /\ Size(x) \in Nat
    BY <1>5 DEF Pairs, Size
<1>7. Size(x) = 0
    BY <1>2, <1>3, <1>4, <1>5, <1>6 DEF Cumulative
<1>8. Codex!Total(Basis(to)) = 0
  <2>1. CASE r.kind = "last"
      BY <1>2, <1>5, <1>7, <2>1 DEF IsRowRead, Basis, Cumulative
  <2>2. CASE r.kind \in Cumulative
      BY <1>5, <1>7, <2>2 DEF IsRowRead, Basis
  <2> QED
      BY <1>3, <2>1, <2>2
<1> QED
    BY <1>2, <1>7, <1>8 DEF x

(* A file of which nothing is observed tells of nothing that was used.       *)
LEMMA Quiet ==
    ASSUME NEW rows, IsHistory(rows), NEW n \in 1 .. Len(rows), Scanned(rows, n).bad = 0,
           Scanned(rows, n).obs = <<>>
    PROVE  \A i \in 2 .. n : rows[i].kind # "damaged" /\ Size(Amount(rows[i].tokens)) = 0
<1> DEFINE Says(i) == rows[i].kind # "damaged" /\ Size(Amount(rows[i].tokens)) = 0
           B == {i \in 0 .. n : i = 0 \/ (Codex!Total(Basis(Scanned(rows, i))) = 0 /\ (i = 1 \/ Says(i)))}
<1>1. /\ rows \in Seq(RowsOfCodex) /\ Len(rows) \in Nat /\ \A i \in 2 .. Len(rows) : rows[i].kind # "meta"
      /\ n \in Nat /\ n <= Len(rows)
    BY DEF IsHistory
<1>2. \A i \in 1 .. n : i \in 1 .. Len(rows) /\ n \in i .. Len(rows)
    BY <1>1
<1>3. ASSUME NEW i \in 1 .. n
      PROVE  Scanned(rows, i).bad = 0 /\ Scanned(rows, i).obs = <<>> /\ Scanned(rows, i) \in Streams
  <2>1. Scanned(rows, i).bad <= Scanned(rows, n).bad /\ Scanned(rows, i).bad \in Nat
      BY <1>2, BadGrows
  <2>2. IsBegin(Scanned(rows, i).obs, Scanned(rows, n).obs)
      BY <1>2, ObservedStays
  <2>3. Scanned(rows, i) \in Streams
      BY <1>2, ReadingIs DEF IsStreamOf
  <2>4. Scanned(rows, i).obs \in Seq(Observations)
      BY <2>3 DEF Streams
  <2>5. Len(Scanned(rows, i).obs) = 0
      BY <2>2, <2>4 DEF IsBegin
  <2> QED
      BY <2>1, <2>3, <2>4, <2>5
<1>4. ASSUME NEW i \in 1 .. n, i - 1 \in B
      PROVE  i \in B
  <2>1. CASE i = 1
    <3>1. Scanned(rows, i) = Unread(rows[1].thread)
        BY <2>1, ReadingIs
    <3>2. Basis(Scanned(rows, i)) = Codex!NoTokens
        BY <3>1 DEF Unread, Basis
    <3>3. Codex!Total(Codex!NoTokens) = 0
        BY DEF Codex!NoTokens, Codex!Tokens, Codex!Zero, Codex!Total, Codex!Input
    <3> QED
        BY <2>1, <3>2, <3>3
  <2>2. CASE i # 1
    <3>1. i \in 2 .. Len(rows) /\ i - 1 \in 1 .. n /\ i - 1 # 0
        BY <1>1, <2>2
    <3>2. PICK st, to : st = Scanned(rows, i - 1) /\ to = Scanned(rows, i)
        OBVIOUS
    <3>3. IsRowRead(st, rows[i], to)
        BY <3>1, <3>2, ReadingIs
    <3>4. rows[i] \in RowsOfCodex /\ rows[i].kind # "meta"
        BY <1>1, <3>1
    <3>5. st \in Streams /\ to.bad = 0 /\ to.obs = <<>>
        BY <1>3, <3>1, <3>2
    <3>6. Codex!Total(Basis(st)) = 0
        BY <1>4, <3>1, <3>2
    <3>7. Says(i) /\ Codex!Total(Basis(to)) = 0
        BY <3>3, <3>4, <3>5, <3>6, QuietStep
    <3> QED
        BY <3>2, <3>7
  <2> QED
      BY <2>1, <2>2
<1>5. 0 \in B
    BY <1>1
<1> HIDE DEF B
<1>6. \A i \in 0 .. n : i \in B
    BY <1>1, <1>4, <1>5, UpTo
<1> QED
    BY <1>1, <1>6 DEF B

(* A row that tells of a moment follows the one before it.                   *)
LEMMA RowFollows ==
    ASSUME NEW tree, NEW n \in Nat, IsTree(tree, n), NEW origin, NEW rows,
           IsPath(tree, n, origin, rows),
           NEW i \in 2 .. Len(rows), NEW k, k = rows[i].at,
           rows[i].id # 0 \/ rows[i].id = tree[k].id
    PROVE  /\ i - 1 \in 1 .. Len(rows) /\ Node(origin, rows, i) = k /\ k \in 1 .. n - 1
           /\ tree[k].parent = Node(origin, rows, i - 1) /\ tree[k].parent < k
           /\ tree[k].owner = rows[1].thread
<1>1. Follows(tree, Node(origin, rows, i - 1), k, rows[i]) /\ k \in 1 .. n - 1 /\ tree[k].owner = rows[1].thread
    BY DEF IsPath
<1>2. Node(origin, rows, i) = k
    BY DEF Node
<1> QED
    BY <1>1, <1>2 DEF Follows

(* What was used at a moment is observed, in any file that tells of it.      *)
LEMMA RowObserved ==
    ASSUME NEW tree, NEW n \in Nat, IsTree(tree, n), NEW origin, NEW rows,
           IsPath(tree, n, origin, rows),
           Scanned(rows, Len(rows)).bad = 0,
           NEW k, HasRow(rows, k, tree[k].id), Size(tree[k].cost) > 0
    PROVE  Scanned(rows, Len(rows)).obs # <<>>
<1> SUFFICES ASSUME Scanned(rows, Len(rows)).obs = <<>>
             PROVE  FALSE
    OBVIOUS
<1>1. PICK i \in 2 .. Len(rows) : rows[i].at = k /\ rows[i].id = tree[k].id
    BY DEF HasRow
<1>2. IsHistory(rows) /\ Len(rows) \in Nat /\ Len(rows) \in 1 .. Len(rows)
    BY DEF IsPath, IsHistory
<1>3. rows[i].kind # "damaged" /\ Size(Amount(rows[i].tokens)) = 0
    BY <1>1, <1>2, Quiet
<1>4. rows[i].kind = "last" \/ rows[i].kind \in Cumulative
  <2>1. rows \in Seq(RowsOfCodex) /\ rows[i].kind # "meta"
      BY <1>2 DEF IsHistory
  <2>2. rows[i] \in RowsOfCodex
      BY <2>1
  <2> QED
      BY <1>3, <2>1, <2>2 DEF RowsOfCodex, Cumulative
<1>5. /\ Node(origin, rows, i) = k /\ Node(origin, rows, i - 1) # k /\ k \in 1 .. n - 1
    BY <1>1, RowFollows
<1>6. PICK a, m : a = tree[Node(origin, rows, i - 1)] /\ m = tree[Node(origin, rows, i)]
    OBVIOUS
<1>7. /\ a \in Moments /\ m \in Moments
      /\ rows[i].kind \in Cumulative => Amount(rows[i].tokens) = m.counter
      /\ \E d : /\ IsStep(a, m, d) /\ (rows[i].kind = "last" => Amount(rows[i].tokens) = d)
                /\ IF Node(origin, rows, i - 1) = Node(origin, rows, i) THEN d = Nil ELSE d = m.cost
    BY <1>6, PathStep
<1>8. /\ IsStep(a, m, m.cost) /\ (rows[i].kind = "last" => Amount(rows[i].tokens) = m.cost)
    BY <1>5, <1>7
<1>9. Size(m.counter) >= Size(m.cost)
  <2>1. /\ a.counter[1] \in Nat /\ a.counter[2] \in Nat /\ m.counter[1] \in Nat /\ m.counter[2] \in Nat
        /\ m.cost[1] \in Nat /\ m.cost[2] \in Nat
      BY <1>7, MomentIs
  <2>2. \/ m.counter[1] = a.counter[1] + m.cost[1] /\ m.counter[2] = a.counter[2] + m.cost[2]
        \/ m.counter[1] = m.cost[1] /\ m.counter[2] = m.cost[2]
      BY <1>8 DEF IsStep
  <2> QED
      BY SMTT(30), <2>1, <2>2 DEF Size
<1>10. Size(m.cost) > 0 /\ Size(m.cost) \in Nat /\ Size(m.counter) \in Nat
  <2>1. /\ m.counter[1] \in Nat /\ m.counter[2] \in Nat /\ m.cost[1] \in Nat /\ m.cost[2] \in Nat
      BY <1>7, MomentIs
  <2>2. m.cost = tree[k].cost
      BY <1>5, <1>6
  <2> QED
      BY SMTT(30), <2>1, <2>2 DEF Size
<1> QED
    BY <1>3, <1>4, <1>7, <1>8, <1>9, <1>10

-----------------------------------------------------------------------------
(* A file that begins where nothing was used has an observation of what a    *)
(* moment cost, and nothing but what led to it before.                       *)
LEMMA RowCounts ==
    ASSUME NEW tree, NEW n \in Nat, IsTree(tree, n), NEW origin, NEW rows,
           IsPath(tree, n, origin, rows),
           IsExact(tree, origin, rows), Size(tree[origin].sum) = 0,
           NEW i \in 2 .. Len(rows), NEW k, k = rows[i].at, rows[i].id = tree[k].id,
           Size(tree[k].cost) > 0
    PROVE  /\ i - 1 \in 1 .. Len(rows) /\ i \in 1 .. Len(rows) /\ tree[k] \in Moments /\ tree[tree[k].parent] \in Moments
           /\ Codex!SumOf(Scanned(rows, i - 1).obs) = Size(tree[tree[k].parent].sum)
           /\ Scanned(rows, i - 1) \in Streams /\ Scanned(rows, i) \in Streams
           /\ \E o \in Observations :
                /\ Scanned(rows, i).obs = Append(Scanned(rows, i - 1).obs, o)
                /\ o.at = k /\ o.id = EventOf(rows[i]) /\ Codex!Total(o.tokens) = Size(tree[k].cost)
<1>1. /\ i - 1 \in 1 .. Len(rows) /\ i \in 1 .. Len(rows) /\ Node(origin, rows, i) = k /\ k \in 1 .. n - 1
      /\ tree[k].parent = Node(origin, rows, i - 1)
    BY RowFollows
<1>2. Counts(Scanned(rows, i - 1), tree[tree[k].parent]) /\ Counts(Scanned(rows, i), tree[k])
    BY <1>1 DEF IsExact
<1>3. IsHistory(rows) /\ rows \in Seq(RowsOfCodex)
    BY DEF IsPath, IsHistory
<1>4. /\ IsRowRead(Scanned(rows, i - 1), rows[i], Scanned(rows, i))
      /\ Scanned(rows, i - 1) \in Streams /\ Scanned(rows, i) \in Streams
    BY <1>1, <1>3, ReadingIs DEF IsStreamOf
<1>5. rows[i] \in RowsOfCodex
    BY <1>3
<1>6. PICK st, to, r : st = Scanned(rows, i - 1) /\ to = Scanned(rows, i) /\ r = rows[i]
    OBVIOUS
<1>7. /\ Codex!SumOf(to.obs) = Codex!SumOf(st.obs) + Codex!Total(Increment(st, r))
      /\ Codex!Total(Increment(st, r)) \in Nat /\ Codex!SumOf(st.obs) \in Nat
    BY <1>4, <1>5, <1>6, RowSum
<1>8. tree[k] \in Moments /\ tree[tree[k].parent] \in Moments /\ tree[k].sum = Add(tree[tree[k].parent].sum, tree[k].cost)
  <2>1. tree \in [Nat -> Moments]
      BY DEF IsTree
  <2>2. tree[k] \in Moments
      BY <1>1, <2>1
  <2>3. tree[k].parent \in Nat
      BY <2>2 DEF Moments
  <2> QED
      BY <1>1, <2>1, <2>2, <2>3 DEF IsTree
<1>9. PICK a, m : a = tree[tree[k].parent] /\ m = tree[k]
    OBVIOUS
<1>10. Size(m.sum) = Size(a.sum) + Size(m.cost) /\ Size(a.sum) \in Nat /\ Size(m.cost) \in Nat /\ Size(m.cost) > 0
  <2>1. a \in Moments /\ m \in Moments /\ m.sum = Add(a.sum, m.cost)
      BY <1>8, <1>9
  <2>2. /\ a.sum[1] \in Nat /\ a.sum[2] \in Nat /\ m.cost[1] \in Nat /\ m.cost[2] \in Nat
      BY <2>1, MomentIs
  <2>3. m.sum[1] = a.sum[1] + m.cost[1] /\ m.sum[2] = a.sum[2] + m.cost[2]
      BY <2>1 DEF Add
  <2>4. PICK x \in Nat, y \in Nat, u \in Nat, w \in Nat :
            x = a.sum[1] /\ y = a.sum[2] /\ u = m.cost[1] /\ w = m.cost[2]
      BY <2>2
  <2>5. Size(m.sum) = (x + u) + (y + w) /\ Size(a.sum) = x + y /\ Size(m.cost) = u + w
      BY <2>3, <2>4 DEF Size
  <2>6. Size(m.cost) > 0
      BY <1>9
  <2>7. x + y \in Nat /\ u + w \in Nat /\ (x + u) + (y + w) = (x + y) + (u + w)
      OBVIOUS
  <2>8. Size(a.sum) \in Nat /\ Size(m.cost) \in Nat
      BY <2>5, <2>7, Zenon
  <2>9. Size(m.sum) = Size(a.sum) + Size(m.cost)
      BY <2>5, <2>7, Zenon
  <2> QED
      BY <2>6, <2>8, <2>9
<1>11. Codex!SumOf(st.obs) = Size(a.sum) /\ Codex!SumOf(to.obs) = Size(m.sum)
    BY <1>2, <1>6, <1>9 DEF Counts
<1>12. Codex!Total(Increment(st, r)) = Size(m.cost)
    BY <1>7, <1>10, <1>11
<1>13. /\ Increment(st, r) \in Disjoint /\ to.obs = Append(st.obs, Seen(r, Increment(st, r)))
  <2>1. IsRowRead(st, r, to)
      BY <1>4, <1>6
  <2>2. Codex!Total(Increment(st, r)) # 0
      BY <1>10, <1>12
  <2> QED
      BY <2>1, <2>2 DEF IsRowRead
<1>14. Seen(r, Increment(st, r)) \in Observations
    BY <1>5, <1>6, <1>13, EventType
<1>15. PICK o \in Observations : o = Seen(r, Increment(st, r))
    BY <1>14
<1>16. o.at = k /\ o.id = EventOf(r) /\ Codex!Total(o.tokens) = Size(m.cost)
    BY <1>6, <1>12, <1>15 DEF Seen
<1> QED
    BY <1>1, <1>4, <1>6, <1>8, <1>9, <1>11, <1>13, <1>15, <1>16

(* To the end of the file that observation is there; and it is the first one *)
(* if nothing was used before.                                               *)
LEMMA RowKept ==
    ASSUME NEW tree, NEW n \in Nat, IsTree(tree, n), NEW origin, NEW rows,
           IsPath(tree, n, origin, rows),
           IsExact(tree, origin, rows), Size(tree[origin].sum) = 0,
           NEW i \in 2 .. Len(rows), NEW k, k = rows[i].at, rows[i].id = tree[k].id,
           Size(tree[k].cost) > 0
    PROVE  \E j \in DOMAIN Scanned(rows, Len(rows)).obs :
              LET o == Scanned(rows, Len(rows)).obs[j]
              IN /\ o.at = k /\ o.id = EventOf(rows[i]) /\ Codex!Total(o.tokens) = Size(tree[k].cost)
                 /\ Size(tree[tree[k].parent].sum) = 0 => j = 1
<1>0. /\ i - 1 \in 1 .. Len(rows) /\ i \in 1 .. Len(rows) /\ tree[k] \in Moments /\ tree[tree[k].parent] \in Moments
      /\ Codex!SumOf(Scanned(rows, i - 1).obs) = Size(tree[tree[k].parent].sum)
      /\ Scanned(rows, i - 1) \in Streams /\ Scanned(rows, i) \in Streams
      /\ \E o \in Observations :
            /\ Scanned(rows, i).obs = Append(Scanned(rows, i - 1).obs, o)
            /\ o.at = k /\ o.id = EventOf(rows[i]) /\ Codex!Total(o.tokens) = Size(tree[k].cost)
    BY RowCounts
<1>1. /\ i \in 1 .. Len(rows) /\ Scanned(rows, i - 1) \in Streams /\ Scanned(rows, i) \in Streams
      /\ Codex!SumOf(Scanned(rows, i - 1).obs) = Size(tree[tree[k].parent].sum)
    BY <1>0
<1>2. PICK o \in Observations :
                /\ Scanned(rows, i).obs = Append(Scanned(rows, i - 1).obs, o)
                /\ o.at = k /\ o.id = EventOf(rows[i]) /\ Codex!Total(o.tokens) = Size(tree[k].cost)
    BY <1>0
<1>3. IsHistory(rows) /\ Len(rows) \in 1 .. Len(rows) /\ Len(rows) \in i .. Len(rows) /\ i - 1 \in 1 .. Len(rows)
    BY <1>1 DEF IsPath, IsHistory
<1>4. IsBegin(Scanned(rows, i).obs, Scanned(rows, Len(rows)).obs)
    BY <1>1, <1>3, ObservedStays
<1>5. PICK a \in Seq(Observations), b \in Seq(Observations), c \in Seq(Observations) :
          a = Scanned(rows, i - 1).obs /\ b = Scanned(rows, i).obs /\ c = Scanned(rows, Len(rows)).obs
  <2>1. Scanned(rows, Len(rows)) \in Streams
      BY <1>3, ReadingIs DEF IsStreamOf
  <2> QED
      BY <1>1, <2>1 DEF Streams
<1> DEFINE j == Len(a) + 1
<1>6. j \in DOMAIN c /\ c[j] = o
  <2>1. b = Append(a, o) /\ IsBegin(b, c)
      BY <1>2, <1>4, <1>5
  <2>2. Len(b) = j /\ b[j] = o /\ j \in 1 .. Len(b) /\ Len(c) \in Nat /\ DOMAIN c = 1 .. Len(c)
      BY <2>1
  <2> QED
      BY <2>1, <2>2 DEF IsBegin
<1>7. Codex!SumOf(a) = 0 => j = 1
  <2>1. IsStreamOf(rows, i - 1, Scanned(rows, i - 1))
      BY <1>3, ReadingIs
  <2>2. \A x \in DOMAIN a : Codex!Total(a[x].tokens) > 0
      BY <1>5, <2>1 DEF IsStreamOf, IsOfRow
  <2>3. /\ <<>> \in Seq(Observations) /\ IsBegin(<<>>, a) /\ Codex!SumOf(<<>>) = 0
      BY SumOfNothing DEF IsBegin
  <2>4. Codex!SumOf(a) <= Codex!SumOf(<<>>) => <<>> = a
      BY <2>2, <2>3, BeginSum
  <2>5. Codex!SumOf(a) = 0 => a = <<>>
      BY <2>3, <2>4
  <2>6. a = <<>> => Len(a) = 0
      OBVIOUS
  <2> QED
      BY <2>5, <2>6
<1>8. Codex!SumOf(a) = Size(tree[tree[k].parent].sum)
    BY <1>1, <1>5
<1> HIDE DEF j
<1>9. /\ j \in DOMAIN Scanned(rows, Len(rows)).obs
      /\ Scanned(rows, Len(rows)).obs[j] = o
    BY <1>5, <1>6
<1>10. Size(tree[tree[k].parent].sum) = 0 => j = 1
    BY <1>7, <1>8
<1> QED
    BY <1>2, <1>9, <1>10

(* Rows of one event tell of a response both or neither.                     *)
LEMMA SameEvent ==
    ASSUME NEW a, NEW b, EventOf(a) = EventOf(b), a.id = 0
    PROVE  b.id = 0
<1>1. \A v, w, x, y, z : <<v, w>> # <<x, y, z>>
  <2> SUFFICES ASSUME NEW v, NEW w, NEW x, NEW y, NEW z
               PROVE  <<v, w>> # <<x, y, z>>
      OBVIOUS
  <2>1. Len(<<v, w>>) = 2 /\ Len(<<x, y, z>>) = 3
      OBVIOUS
  <2> QED
      BY <2>1
<1> QED
    BY <1>1 DEF EventOf, Codex!NoId

(* A file whose first observation is the first of its thread misses nothing  *)
(* that led to it.                                                           *)
LEMMA FromTheStart ==
    ASSUME NEW tree, NEW n \in Nat, IsTree(tree, n), NEW origin, NEW rows,
           IsPath(tree, n, origin, rows),
           NEW o, NEW j \in DOMAIN Scanned(rows, Len(rows)).obs,
           o = Scanned(rows, Len(rows)).obs[j],
           NEW r, NEW a, r.id = tree[a].id, o.at = a, o.id = EventOf(r),
           Size(tree[tree[a].parent].sum) = 0
    PROVE  Size(tree[origin].sum) = 0
<1>1. IsHistory(rows) /\ Len(rows) \in 1 .. Len(rows)
    BY DEF IsPath, IsHistory
<1>2. PICK i \in 2 .. Len(rows) : IsOfRow(o, rows[i])
    BY <1>1, ReadingIs DEF IsStreamOf
<1>3. rows[i].at = a /\ EventOf(rows[i]) = EventOf(r)
    BY <1>2 DEF IsOfRow, Seen
<1>4. rows[i].id # 0 \/ rows[i].id = tree[a].id
    BY <1>3, SameEvent
<1>5. i - 1 \in 1 .. Len(rows) /\ tree[a].parent = Node(origin, rows, i - 1)
    BY <1>3, <1>4, RowFollows
<1>6. /\ Size(tree[origin].sum) <= Size(tree[tree[a].parent].sum)
      /\ Size(tree[origin].sum) \in Nat
    BY <1>5, SumGrows
<1> QED
    BY <1>6

-----------------------------------------------------------------------------
(* What was used at each moment is found at a place of its own.              *)
LEMMA SpentFound ==
    ASSUME NEW tree, NEW n \in Nat, IsTree(tree, n), NEW t \in Threads,
           NEW obs \in Seq(Observations),
           \A k \in Owned(tree, n, t) : Size(tree[k].cost) > 0 =>
               \E j \in DOMAIN obs : obs[j].at = k /\ Codex!Total(obs[j].tokens) = Size(tree[k].cost)
    PROVE  SpentOf(tree, n)[t] <= Codex!SumOf(obs)
<1> DEFINE f == CostOf(tree)
           S == {k \in Owned(tree, n, t) : f[k] > 0}
           R == {k \in Owned(tree, n, t) : f[k] = 0}
           g == [i \in DOMAIN obs |-> Codex!Total(obs[i].tokens)]
           h == [k \in S |-> CHOOSE j \in DOMAIN obs : obs[j].at = k /\ Codex!Total(obs[j].tokens) = f[k]]
<1>1. /\ IsFiniteSet(DOMAIN obs) /\ Codex!SumOf(obs) = SumFunctionOnSet(g, DOMAIN obs)
      /\ \A i \in DOMAIN obs : g[i] \in Nat
    BY SumOfIs
<1>2. IsFiniteSet(Owned(tree, n, t)) /\ \A k \in Nat : f[k] \in Nat
    BY SpentIs
<1>3. Owned(tree, n, t) \subseteq Nat
    BY DEF Owned
<1>4. /\ IsFiniteSet(S) /\ IsFiniteSet(R) /\ S \intersect R = {} /\ S \union R = Owned(tree, n, t)
      /\ \A k \in S \union R : f[k] \in Int
  <2>1. \A k \in Owned(tree, n, t) : f[k] \in Nat /\ (f[k] > 0 \/ f[k] = 0)
      BY <1>2, <1>3
  <2> HIDE DEF f
  <2>2. S \subseteq Owned(tree, n, t) /\ R \subseteq Owned(tree, n, t)
      OBVIOUS
  <2>3. IsFiniteSet(S) /\ IsFiniteSet(R)
      BY <1>2, <2>2, FS_Subset
  <2> QED
      BY <2>1, <2>3
<1>5. \A k \in S : \E j \in DOMAIN obs : obs[j].at = k /\ Codex!Total(obs[j].tokens) = f[k]
  <2> TAKE k \in S
  <2>1. k \in Owned(tree, n, t) /\ k \in Nat /\ f[k] = Size(tree[k].cost) /\ f[k] > 0
      BY <1>3 DEF CostOf
  <2> HIDE DEF f, S
  <2> QED
      BY <2>1
<1> HIDE DEF f, S, R
<1>6. \A k \in S : h[k] \in DOMAIN obs /\ obs[h[k]].at = k /\ g[h[k]] = f[k]
    BY <1>5
<1> HIDE DEF h, g
<1>7. SumFunctionOnSet(f, S) <= SumFunctionOnSet(g, DOMAIN obs)
  <2>1. \A k \in S : h[k] \in DOMAIN obs /\ f[k] \in Int /\ f[k] <= g[h[k]]
      BY <1>1, <1>4, <1>6
  <2>2. \A k, l \in S : h[k] = h[l] => k = l
      BY <1>6
  <2> QED
      BY <1>1, <1>4, <2>1, <2>2, SumInto
<1>8. SumFunctionOnSet(f, S \union R) = SumFunctionOnSet(f, S) + SumFunctionOnSet(f, R)
    BY <1>4, SumUnion
<1>9. SumFunctionOnSet(f, R) = 0 /\ SumFunctionOnSet(f, S) \in Int
  <2>1. \A k \in R : f[k] \in Nat /\ ~(f[k] > 0)
    <3>1. \A k \in R : f[k] = 0
        BY DEF R
    <3> QED
        BY <3>1
  <2>2. SumFunctionOnSet(f, R) \in Nat /\ ~(SumFunctionOnSet(f, R) > 0)
      BY <1>4, <2>1, SumPositive, SumNat
  <2>3. SumFunctionOnSet(f, S) \in Int
      BY <1>4, SumType
  <2> QED
      BY <2>2, <2>3
<1>10. SpentOf(tree, n)[t] = SumFunctionOnSet(f, S \union R)
    BY <1>4 DEF SpentOf, f
<1> QED
    BY <1>1, <1>7, <1>8, <1>9, <1>10

-----------------------------------------------------------------------------
(* A scan that is not partial.                                               *)
IsComplete(tree, origin) ==
    /\ HistoryTypes /\ IsHistoryOf(tree, origin) /\ ~masked
    /\ ~Codex!Scan(logs).partial

(* No file is damaged or cut off then, and the streams of a thread agree.    *)
LEMMA CompleteIs ==
    ASSUME NEW tree, NEW origin, IsComplete(tree, origin)
    PROVE  /\ codexClock \in Nat /\ IsTree(tree, codexClock)
           /\ \A p \in HistoryFiles : logs[p] # <<>> =>
                /\ IsPath(tree, codexClock, origin[p], logs[p]) /\ IsExact(tree, origin[p], logs[p])
                /\ Scanned(logs[p], Len(logs[p])).bad = 0
                /\ Scanned(logs[p], Len(logs[p])).obs # <<>> => \E s \in Observing(logs) : s.path = p
           /\ \A s \in Observing(logs) :
                /\ s.path \in HistoryFiles /\ logs[s.path] # <<>> /\ s \in FileStreams /\ s.obs # <<>>
                /\ s.obs = Scanned(logs[s.path], Len(logs[s.path])).obs
                /\ s.key = logs[s.path][1].thread
           /\ \A s \in Codex!Selected(Observing(logs)) : \A t \in Observing(logs) :
                s.key = t.key => IsBegin(s.obs, t.obs) \/ IsBegin(t.obs, s.obs)
<1>1. /\ HistoryTypes /\ IsHistoryOf(tree, origin) /\ ~masked /\ ~Codex!Scan(logs).partial
    BY DEF IsComplete
<1>2. AreFiles(logs) /\ DOMAIN logs = HistoryFiles
    BY <1>1, LogsAreFiles
<1>3. /\ ~Codex!Truncated(logs) /\ (\A s \in FilesRead(logs) : ~(s.bad > 0))
      /\ Codex!Diverging(Observing(logs)) = {}
    BY <1>1, <1>2, ScanIs
<1>4. /\ \A s \in FilesRead(logs) : s \in FileStreams /\ s.path \in HistoryFiles /\ IsHistory(logs[s.path])
      /\ \A s \in FilesRead(logs) : IsOfFile(s, logs[s.path], Len(logs[s.path]))
      /\ \A p \in HistoryFiles : logs[p] # <<>> => \E s \in FilesRead(logs) : s.path = p
    BY <1>2, <1>3, FilesReadAre
<1>5. \A s \in FilesRead(logs) : s.bad = 0
  <2> TAKE s \in FilesRead(logs)
  <2>1. s.bad \in Nat
      BY <1>4 DEF FileStreams
  <2> QED
      BY <1>3, <2>1
<1>6. codexClock \in Nat /\ IsTree(tree, codexClock)
    BY <1>1 DEF HistoryTypes, IsHistoryOf
<1>7. ASSUME NEW p \in HistoryFiles, logs[p] # <<>>
      PROVE  /\ Scanned(logs[p], Len(logs[p])).bad = 0
             /\ Scanned(logs[p], Len(logs[p])).obs # <<>> => \E s \in Observing(logs) : s.path = p
  <2>1. PICK s \in FilesRead(logs) : s.path = p
      BY <1>4, <1>7
  <2>2. IsOfFile(s, logs[p], Len(logs[p]))
      BY <1>4, <2>1
  <2>3. s.bad = 0
      BY <1>5
  <2> QED
      BY <2>1, <2>2, <2>3 DEF IsOfFile, Observing
<1>8. ~Damaged
  <2> SUFFICES ASSUME NEW p \in HistoryFiles, logs[p] # <<>>,
                      Scanned(logs[p], Len(logs[p])).bad > 0
               PROVE  FALSE
      BY DEF Damaged
  <2>1. Scanned(logs[p], Len(logs[p])).bad = 0
      BY <1>7
  <2> QED
      BY <2>1
<1>9. ASSUME NEW p \in HistoryFiles, logs[p] # <<>>
      PROVE  IsPath(tree, codexClock, origin[p], logs[p]) /\ IsExact(tree, origin[p], logs[p])
  <2>1. IsPath(tree, codexClock, origin[p], logs[p])
      BY <1>1, <1>9 DEF IsHistoryOf
  <2>2. IsExact(tree, origin[p], logs[p])
      BY <1>1, <1>8, <1>9 DEF IsHistoryOf
  <2> QED
      BY <2>1, <2>2
<1>10. ASSUME NEW s \in Observing(logs)
       PROVE  /\ s.path \in HistoryFiles /\ logs[s.path] # <<>> /\ s \in FileStreams /\ s.obs # <<>>
              /\ s.obs = Scanned(logs[s.path], Len(logs[s.path])).obs
              /\ s.key = logs[s.path][1].thread
  <2>1. s \in FilesRead(logs) /\ s.obs # <<>>
      BY DEF Observing
  <2>2. s.path \in HistoryFiles /\ s \in FileStreams /\ IsHistory(logs[s.path])
        /\ IsOfFile(s, logs[s.path], Len(logs[s.path]))
      BY <1>4, <2>1
  <2>3. logs[s.path] # <<>>
      BY <2>2 DEF IsHistory
  <2> QED
      BY <2>1, <2>2, <2>3 DEF IsOfFile
<1>11. ASSUME NEW s \in Codex!Selected(Observing(logs)), NEW t \in Observing(logs),
              s.key = t.key
       PROVE  IsBegin(s.obs, t.obs) \/ IsBegin(t.obs, s.obs)
  <2>1. Codex!Compatible(s, t)
      BY <1>3, <1>11 DEF Codex!Diverging
  <2>2. s \in Observing(logs)
      BY DEF Codex!Selected
  <2>3. s.obs \in Seq(Observations) /\ t.obs \in Seq(Observations)
    <3>1. s \in FileStreams /\ t \in FileStreams
        BY <1>10, <2>2
    <3> QED
        BY <3>1 DEF FileStreams
  <2> QED
      BY <2>1, <2>3, PrefixIs DEF Codex!Compatible
<1> QED
    BY <1>6, <1>7, <1>9, <1>10, <1>11

-----------------------------------------------------------------------------
(* Streams of which one begins like the other have the same first event.     *)
LEMMA SameFirst ==
    ASSUME NEW a \in Seq(Observations), NEW b \in Seq(Observations), a # <<>>, b # <<>>,
           IsBegin(a, b) \/ IsBegin(b, a)
    PROVE  a[1] = b[1] /\ 1 \in DOMAIN a /\ 1 \in DOMAIN b
<1>1. Len(a) \in Nat \ {0} /\ Len(b) \in Nat \ {0}
    OBVIOUS
<1>2. 1 \in 1 .. Len(a) /\ 1 \in 1 .. Len(b)
    BY <1>1
<1> QED
    BY <1>2 DEF IsBegin

(* A moment that cost something has an ancestor, or is the one, with which   *)
(* it all began.                                                             *)
LEMMA FirstMoment ==
    ASSUME NEW tree, NEW n \in Nat, IsTree(tree, n), NEW k \in 1 .. n - 1,
           Size(tree[k].cost) > 0,
           IsUsed(tree, n, k)
    PROVE  \E a \in 1 .. k : /\ tree[a].owner = tree[k].owner /\ Size(tree[a].cost) > 0
                             /\ Size(tree[tree[a].parent].sum) = 0
<1>1. ASSUME NEW a \in 1 .. n - 1
      PROVE  /\ tree[a] \in Moments /\ tree[tree[a].parent] \in Moments
             /\ tree[a].sum = Add(tree[tree[a].parent].sum, tree[a].cost)
             /\ tree[a].sum[1] = tree[tree[a].parent].sum[1] + tree[a].cost[1]
             /\ tree[a].sum[2] = tree[tree[a].parent].sum[2] + tree[a].cost[2]
  <2>1. tree \in [Nat -> Moments] /\ a \in Nat
      BY DEF IsTree
  <2>2. tree[a] \in Moments
      BY <2>1
  <2>3. tree[a].parent \in Nat
      BY <2>2 DEF Moments
  <2>4. tree[a].sum = Add(tree[tree[a].parent].sum, tree[a].cost) /\ tree[tree[a].parent] \in Moments
      BY <2>1, <2>3 DEF IsTree
  <2> QED
      BY <2>2, <2>4 DEF Add
<1>2. Size(tree[k].sum) > 0
  <2>1. PICK x \in Nat, y \in Nat, u \in Nat, w \in Nat :
            /\ x = tree[tree[k].parent].sum[1] /\ y = tree[tree[k].parent].sum[2]
            /\ u = tree[k].cost[1] /\ w = tree[k].cost[2]
    <3>1. tree[k] \in Moments /\ tree[tree[k].parent] \in Moments
        BY <1>1
    <3>2. tree[k].cost[1] \in Nat /\ tree[k].cost[2] \in Nat
        BY <3>1, MomentIs
    <3>3. tree[tree[k].parent].sum[1] \in Nat /\ tree[tree[k].parent].sum[2] \in Nat
        BY <3>1, MomentIs
    <3> QED
        BY <3>2, <3>3
  <2>2. Size(tree[k].sum) = (x + u) + (y + w) /\ Size(tree[k].cost) = u + w
      BY <1>1, <2>1 DEF Size
  <2>3. u + w > 0
      BY <2>2
  <2>4. (x + u) + (y + w) > 0
      BY <2>1, <2>3
  <2> QED
      BY <2>2, <2>4
<1>3. PICK a \in 1 .. k : /\ tree[a].owner = tree[k].owner /\ tree[a].sum = tree[a].cost
                          /\ Size(tree[a].cost) > 0
    BY <1>2 DEF IsUsed
<1>4. a \in 1 .. n - 1
    OBVIOUS
<1>5. Size(tree[tree[a].parent].sum) = 0
  <2>1. PICK x \in Nat, y \in Nat, u \in Nat, w \in Nat :
            /\ x = tree[tree[a].parent].sum[1] /\ y = tree[tree[a].parent].sum[2]
            /\ u = tree[a].cost[1] /\ w = tree[a].cost[2]
    <3>1. tree[a] \in Moments /\ tree[tree[a].parent] \in Moments
        BY <1>1, <1>4
    <3>2. tree[a].cost[1] \in Nat /\ tree[a].cost[2] \in Nat
        BY <3>1, MomentIs
    <3>3. tree[tree[a].parent].sum[1] \in Nat /\ tree[tree[a].parent].sum[2] \in Nat
        BY <3>1, MomentIs
    <3> QED
        BY <3>2, <3>3
  <2>2. u = x + u /\ w = y + w
      BY <1>1, <1>3, <1>4, <2>1
  <2>3. x = 0 /\ y = 0
      BY <2>1, <2>2
  <2> QED
      BY <2>1, <2>3 DEF Size
<1> QED
    BY <1>3, <1>5

(* All that is observed of a thread that used something begins there.        *)
Begins(t, tree, a, id) ==
    /\ Size(tree[tree[a].parent].sum) = 0
    /\ \E r : r.id = tree[a].id /\ id = EventOf(r)
    /\ \A s \in Observing(logs) : s.key = t => s.obs[1].at = a /\ s.obs[1].id = id

(* A thread that used something has such a beginning.                        *)
LEMMA ThreadBegins ==
    ASSUME NEW tree, NEW origin, IsComplete(tree, origin), NEW t \in Threads,
           NEW k \in Owned(tree, codexClock, t), Size(tree[k].cost) > 0
    PROVE  \E a, id : Begins(t, tree, a, id)
<1> DEFINE n == codexClock
           X == Observing(logs)
<1>1. n \in Nat /\ IsTree(tree, n) /\ k \in 1 .. n - 1 /\ tree[k].owner = t
    BY CompleteIs DEF Owned
<1>2. /\ IsUsed(tree, n, k)
      /\ \A a \in 1 .. n - 1 : \E p \in HistoryFiles : HasRow(logs[p], a, tree[a].id)
    BY <1>1 DEF IsComplete, IsHistoryOf
<1>3. PICK a \in 1 .. k : /\ tree[a].owner = t /\ Size(tree[a].cost) > 0
                          /\ Size(tree[tree[a].parent].sum) = 0
    BY <1>1, <1>2, FirstMoment
<1>4. PICK p \in HistoryFiles : HasRow(logs[p], a, tree[a].id)
    BY <1>1, <1>2, <1>3
<1>5. PICK rows, o : rows = logs[p] /\ o = origin[p]
    OBVIOUS
<1>6. PICK i \in 2 .. Len(rows) : rows[i].at = a /\ rows[i].id = tree[a].id
    BY <1>4, <1>5 DEF HasRow
<1>7. rows # <<>>
    BY <1>6
<1>8. IsPath(tree, n, o, rows) /\ IsExact(tree, o, rows)
    BY <1>5, <1>7, CompleteIs
<1>9. i - 1 \in 1 .. Len(rows) /\ tree[a].parent = Node(o, rows, i - 1) /\ rows[1].thread = t
  <2> HIDE DEF n
  <2> QED
      BY SMTT(30), <1>1, <1>3, <1>6, <1>8, RowFollows
<1>10. Size(tree[o].sum) = 0
  <2> HIDE DEF n
  <2>1. /\ Size(tree[o].sum) <= Size(tree[Node(o, rows, i - 1)].sum)
        /\ Size(tree[o].sum) \in Nat
      BY <1>1, <1>8, <1>9, SumGrows
  <2> QED
      BY <1>3, <1>9, <2>1
<1>11. PICK j \in DOMAIN Scanned(rows, Len(rows)).obs :
              LET e == Scanned(rows, Len(rows)).obs[j]
              IN e.at = a /\ e.id = EventOf(rows[i]) /\ j = 1
  <2> HIDE DEF n
  <2> QED
      BY <1>1, <1>3, <1>6, <1>8, <1>10, RowKept
<1>12. Scanned(rows, Len(rows)).obs # <<>>
    BY <1>11
<1>13. PICK s \in X : s.path = p
    BY <1>5, <1>7, <1>12, CompleteIs
<1>14. s.key = t /\ s.obs = Scanned(rows, Len(rows)).obs
    BY <1>5, <1>9, <1>13, CompleteIs
<1>15. AreStreams(X)
    BY LogsAreFiles, ObservingAre DEF IsComplete
<1>16. PICK c \in Codex!Selected(X) : c.key = t
    BY <1>14, <1>15, SelectedIs
<1>17. c \in X
    BY <1>15, SelectedIs
<1>18. ASSUME NEW u \in X, u.key = t
       PROVE  u.obs[1] = s.obs[1]
  <2>1. /\ u \in FileStreams /\ c \in FileStreams /\ s \in FileStreams
        /\ u.obs # <<>> /\ c.obs # <<>> /\ s.obs # <<>>
      BY <1>17, CompleteIs
  <2>2. u.obs \in Seq(Observations) /\ c.obs \in Seq(Observations) /\ s.obs \in Seq(Observations)
      BY <2>1 DEF FileStreams
  <2>3. /\ IsBegin(c.obs, u.obs) \/ IsBegin(u.obs, c.obs)
        /\ IsBegin(c.obs, s.obs) \/ IsBegin(s.obs, c.obs)
      BY <1>14, <1>16, <1>18, CompleteIs
  <2>4. c.obs[1] = u.obs[1]
      BY <2>1, <2>2, <2>3, SameFirst
  <2>5. c.obs[1] = s.obs[1]
      BY <2>1, <2>2, <2>3, SameFirst
  <2> QED
      BY <2>4, <2>5
<1>19. s.obs[1].at = a /\ s.obs[1].id = EventOf(rows[i])
    BY <1>11, <1>14
<1>20. Begins(t, tree, a, EventOf(rows[i]))
    BY <1>3, <1>6, <1>18, <1>19 DEF Begins
<1> QED
    BY <1>20

(* What was used at a moment is observed in the stream that is selected.     *)
LEMMA MomentFound ==
    ASSUME NEW tree, NEW origin, IsComplete(tree, origin), NEW t \in Threads,
           NEW k \in Owned(tree, codexClock, t), Size(tree[k].cost) > 0
    PROVE  \E c \in Codex!Selected(Observing(logs)) : c.key = t /\
              \E j \in DOMAIN c.obs : c.obs[j].at = k /\ Codex!Total(c.obs[j].tokens) = Size(tree[k].cost)
<1> DEFINE n == codexClock
           X == Observing(logs)
<1>1. n \in Nat /\ IsTree(tree, n) /\ k \in 1 .. n - 1 /\ tree[k].owner = t
    BY CompleteIs DEF Owned
<1>2. PICK p \in HistoryFiles : HasRow(logs[p], k, tree[k].id)
    BY <1>1 DEF IsComplete, IsHistoryOf
<1>3. PICK rows, o : rows = logs[p] /\ o = origin[p]
    OBVIOUS
<1>4. PICK i \in 2 .. Len(rows) : rows[i].at = k /\ rows[i].id = tree[k].id
    BY <1>2, <1>3 DEF HasRow
<1>5. rows # <<>>
    BY <1>4
<1>6. /\ IsPath(tree, n, o, rows) /\ IsExact(tree, o, rows) /\ Scanned(rows, Len(rows)).bad = 0
    BY <1>3, <1>5, CompleteIs
<1>7. rows[1].thread = t
  <2> HIDE DEF n
  <2> QED
      BY <1>1, <1>4, <1>6, RowFollows
<1>8. Scanned(rows, Len(rows)).obs # <<>>
  <2> HIDE DEF n
  <2>1. HasRow(rows, k, tree[k].id)
      BY <1>2, <1>3
  <2> QED
      BY <1>1, <1>6, <2>1, RowObserved
<1>9. PICK s \in X : s.path = p
    BY <1>3, <1>5, <1>8, CompleteIs
<1>10. s.key = t /\ s.obs = Scanned(rows, Len(rows)).obs
    BY <1>3, <1>7, <1>9, CompleteIs
<1>11. AreStreams(X)
    BY LogsAreFiles, ObservingAre DEF IsComplete
<1>12. PICK c \in Codex!Selected(X) : c.key = t
    BY <1>10, <1>11, SelectedIs
<1>13. c \in X /\ Codex!SumOf(s.obs) <= Codex!SumOf(c.obs)
    BY <1>10, <1>11, <1>12, SelectedIs
<1>14. PICK a, id : Begins(t, tree, a, id)
    BY ThreadBegins
<1>15. PICK r : r.id = tree[a].id /\ id = EventOf(r)
    BY <1>14 DEF Begins
<1>16. s \in FileStreams /\ c \in FileStreams
    BY <1>13, CompleteIs
<1>17. s.obs \in Seq(Observations) /\ c.obs \in Seq(Observations)
    BY <1>16 DEF FileStreams
<1>18. Size(tree[o].sum) = 0
  <2>1. 1 \in DOMAIN Scanned(rows, Len(rows)).obs
      BY <1>8, <1>10, <1>17
  <2>2. PICK e : e = Scanned(rows, Len(rows)).obs[1]
      OBVIOUS
  <2>3. e.at = a /\ e.id = EventOf(r)
      BY <1>10, <1>14, <1>15, <2>2 DEF Begins
  <2>4. Size(tree[tree[a].parent].sum) = 0
      BY <1>14 DEF Begins
  <2> HIDE DEF n
  <2> QED
      BY <1>1, <1>6, <1>15, <2>1, <2>2, <2>3, <2>4, FromTheStart
<1>19. PICK j \in DOMAIN Scanned(rows, Len(rows)).obs :
              LET e == Scanned(rows, Len(rows)).obs[j]
              IN e.at = k /\ Codex!Total(e.tokens) = Size(tree[k].cost)
  <2> HIDE DEF n
  <2> QED
      BY <1>1, <1>4, <1>6, <1>18, RowKept
<1>20. IsBegin(c.obs, s.obs) \/ IsBegin(s.obs, c.obs)
    BY <1>10, <1>12, CompleteIs
<1>21. \A x \in DOMAIN s.obs : Codex!Total(s.obs[x].tokens) > 0
  <2>1. IsHistory(rows) /\ Len(rows) \in 1 .. Len(rows)
      BY <1>6 DEF IsPath, IsHistory
  <2>2. IsStreamOf(rows, Len(rows), Scanned(rows, Len(rows)))
      BY <2>1, ReadingIs
  <2> QED
      BY <1>10, <2>2 DEF IsStreamOf, IsOfRow
<1>22. IsBegin(s.obs, c.obs)
  <2>1. CASE IsBegin(c.obs, s.obs)
    <3>1. c.obs = s.obs
        BY <1>13, <1>17, <1>21, <2>1, BeginSum
    <3> QED
        BY <1>17, <3>1 DEF IsBegin
  <2> QED
      BY <1>20, <2>1
<1>23. j \in DOMAIN c.obs /\ c.obs[j] = s.obs[j]
  <2>1. j \in DOMAIN s.obs
      BY <1>10, <1>19
  <2> QED
      BY <1>17, <1>22, <2>1 DEF IsBegin
<1> QED
    BY <1>10, <1>12, <1>19, <1>23

-----------------------------------------------------------------------------
(* A total that is not partial misses nothing.                               *)
LEMMA NeverLess ==
    ASSUME NEW tree, NEW origin, IsComplete(tree, origin)
    PROVE  truth <= Codex!Scan(logs).total
<1> DEFINE X == Observing(logs)
           C == Codex!Selected(X)
           n == codexClock
<1>1. n \in Nat /\ IsTree(tree, n) /\ AreFiles(logs)
    BY CompleteIs, LogsAreFiles DEF IsComplete
<1>2. AreStreams(X)
    BY <1>1, ObservingAre
<1>3. C \subseteq X /\ \A s, t \in C : s.key = t.key => s = t
    BY <1>2, SelectedIs
<1>4. /\ \A s \in C : BestOf(C)[s.key] = Codex!SumOf(s.obs)
      /\ \A t \in Threads : BestOf(C)[t] \in Nat
    BY <1>2, <1>3, TotalIs
<1>5. Codex!Scan(logs).total = SumFunctionOnSet(BestOf(C), Threads)
    BY <1>1, ScanIs
<1>6. /\ \A t \in Threads : SpentOf(tree, n)[t] \in Nat
      /\ SumFunctionOnSet(SpentOf(tree, n), Threads) = truth
    BY <1>1, SpentIs DEF IsComplete, IsHistoryOf
<1>7. \A t \in Threads : \A k \in Owned(tree, n, t) : Size(tree[k].cost) > 0 =>
          \E c \in C : c.key = t /\
              \E j \in DOMAIN c.obs : c.obs[j].at = k /\ Codex!Total(c.obs[j].tokens) = Size(tree[k].cost)
    BY MomentFound
<1>8. \A s \in C : s.obs \in Seq(Observations)
    BY <1>2, <1>3 DEF AreStreams, FileStreams
<1> HIDE DEF C, X, n
<1>9. ASSUME NEW t \in Threads
      PROVE  SpentOf(tree, n)[t] <= BestOf(C)[t]
  <2>1. CASE \E c \in C : c.key = t
    <3>1. PICK c \in C : c.key = t
        BY <2>1
    <3>2. \A k \in Owned(tree, n, t) : Size(tree[k].cost) > 0 =>
              \E j \in DOMAIN c.obs : c.obs[j].at = k /\ Codex!Total(c.obs[j].tokens) = Size(tree[k].cost)
        BY <1>3, <1>7, <3>1
    <3>3. SpentOf(tree, n)[t] <= Codex!SumOf(c.obs)
        BY <1>1, <1>8, <3>2, SpentFound
    <3> QED
        BY <1>4, <3>1, <3>3
  <2>2. CASE ~\E c \in C : c.key = t
    <3>1. \A k \in Owned(tree, n, t) : ~(Size(tree[k].cost) > 0)
        BY <1>7, <2>2
    <3>2. <<>> \in Seq(Observations)
        OBVIOUS
    <3>3. SpentOf(tree, n)[t] <= Codex!SumOf(<<>>)
        BY <1>1, <3>1, <3>2, SpentFound
    <3>4. BestOf(C)[t] \in Nat
        BY <1>4
    <3> QED
        BY <1>6, <3>3, <3>4, SumOfNothing
  <2> QED
      BY <2>1, <2>2
<1>10. IsFiniteSet(Threads)
    BY HistoryIs
<1>11. SumFunctionOnSet(SpentOf(tree, n), Threads) <= SumFunctionOnSet(BestOf(C), Threads)
    BY <1>4, <1>6, <1>9, <1>10, SumMono
<1> QED
    BY <1>5, <1>6, <1>11

(* So what the invariant tells of the files is enough for the report.        *)
LEMMA HistoryExact == HistoryInv => Codex!CodexExact
<1> SUFFICES ASSUME HistoryInv
             PROVE  Codex!CodexExact
    OBVIOUS
<1>1. HistoryTypes
    BY DEF HistoryInv
<1>2. PICK tree, origin : IsHistoryOf(tree, origin)
    BY DEF HistoryInv
<1>3. Codex!Scan(logs).total <= truth
    BY <1>1, <1>2, NeverMore
<1>4. Codex!Scan(logs).total \in Int
  <2> DEFINE C == Codex!Selected(Observing(logs))
  <2>1. AreFiles(logs)
      BY <1>1, <1>2, LogsAreFiles
  <2>2. AreStreams(Observing(logs))
      BY <2>1, ObservingAre
  <2>3. C \subseteq Observing(logs) /\ \A s, t \in C : s.key = t.key => s = t
      BY <2>2, SelectedIs
  <2>4. \A t \in Threads : BestOf(C)[t] \in Nat
      BY <2>2, <2>3, TotalIs
  <2> HIDE DEF C
  <2>5. SumFunctionOnSet(BestOf(C), Threads) \in Nat
      BY <2>4, HistoryIs, SumNat
  <2>6. Codex!Scan(logs).total = SumFunctionOnSet(BestOf(C), Threads)
      BY <2>1, ScanIs DEF C
  <2> QED
      BY <2>5, <2>6
<1>5. ASSUME ~Codex!Scan(logs).partial, ~masked
      PROVE  Codex!Scan(logs).total = truth
  <2>1. IsComplete(tree, origin)
      BY <1>1, <1>2, <1>5 DEF IsComplete
  <2>2. truth <= Codex!Scan(logs).total
      BY <2>1, NeverLess
  <2>3. truth \in Int
      BY <1>1 DEF HistoryTypes
  <2> QED
      BY <1>3, <1>4, <2>2, <2>3
<1> QED
    BY <1>3, <1>5, Zenon DEF Codex!CodexExact

(* Whatever was copied, rotated, reset or damaged, a scan of the Codex       *)
(* history never reports more tokens than were used; and a total that is not *)
(* marked as partial is exact, unless a reset counter grew past its old      *)
(* value unseen (scan_codex_usage).                                          *)
THEOREM CodexExactCorrect == PollingSpec => []Codex!CodexExact
BY HistoryInvariant, HistoryExact, PTL

-----------------------------------------------------------------------------
(* A file is found once more, complete or cut off after some rows.           *)
IsCopied(f, more, p, q, n) ==
    /\ AreFiles(f) /\ p \in DOMAIN f /\ n \in 1 .. Len(f[p])
    /\ q \in Int /\ q \notin DOMAIN f
    /\ DOMAIN more = DOMAIN f \union {q} /\ IsHead(more[q], f[p], n)
    /\ \A x \in DOMAIN f : more[x] = f[x]

(* The copy is read as the original, as far as it goes,                      *)
LEMMA CopiedFile ==
    ASSUME NEW f, NEW more, NEW p, NEW q, NEW n, IsCopied(f, more, p, q, n)
    PROVE  /\ IsHistory(f[p]) /\ IsHistory(more[q]) /\ Len(more[q]) = n /\ more[q][1] = f[p][1]
           /\ \A i \in 1 .. n : more[q][i] = f[p][i]
           /\ Scanned(more[q], n) = Scanned(f[p], n)
<1>1. AreFiles(f) /\ p \in DOMAIN f /\ n \in 1 .. Len(f[p]) /\ more[q] = SubSeq(f[p], 1, n)
    BY DEF IsCopied, IsHead
<1>2. f[p] = <<>> \/ IsHistory(f[p])
    BY <1>1 DEF AreFiles
<1>3. IsHistory(f[p])
    BY <1>1, <1>2
<1>4. PICK head : head = SubSeq(f[p], 1, n)
    OBVIOUS
<1>5. /\ IsHistory(head) /\ Len(head) = n /\ head[1] = f[p][1]
      /\ \A i \in 1 .. n : head[i] = f[p][i] /\ Scanned(head, i) = Scanned(f[p], i)
    BY <1>1, <1>3, <1>4, HeadIs
<1>6. n \in 1 .. n
    BY <1>1
<1> QED
    BY <1>1, <1>3, <1>4, <1>5, <1>6

(* and is a file among the others.                                           *)
LEMMA CopiedFiles ==
    ASSUME NEW f, NEW more, NEW p, NEW q, NEW n, IsCopied(f, more, p, q, n)
    PROVE  AreFiles(more)
<1>1. /\ AreFiles(f) /\ p \in DOMAIN f /\ n \in 1 .. Len(f[p]) /\ q \in Int
      /\ DOMAIN more = DOMAIN f \union {q} /\ \A x \in DOMAIN f : more[x] = f[x]
    BY DEF IsCopied
<1>2. /\ IsHistory(more[q]) /\ Len(more[q]) = n /\ \A i \in 1 .. n : more[q][i] = f[p][i]
    BY CopiedFile
<1>3. IsFiniteSet(DOMAIN more) /\ DOMAIN more \subseteq Int
  <2>1. IsFiniteSet(DOMAIN f) /\ DOMAIN f \subseteq Int
      BY <1>1 DEF AreFiles
  <2>2. IsFiniteSet(DOMAIN f \union {q})
      BY <2>1, FS_AddElement
  <2> QED
      BY <1>1, <2>1, <2>2
<1>4. \A x \in DOMAIN more : more[x] = <<>> \/ IsHistory(more[x])
    BY <1>1, <1>2 DEF AreFiles
<1>5. \A x \in DOMAIN more : \A i \in 2 .. Len(more[x]) : \E y \in DOMAIN f :
          i \in 2 .. Len(f[y]) /\ more[x][i] = f[y][i]
  <2> TAKE x \in DOMAIN more
  <2> TAKE i \in 2 .. Len(more[x])
  <2>1. CASE x = q
    <3>1. i \in 2 .. n /\ i \in 1 .. n
        BY <1>1, <1>2, <2>1
    <3>2. i \in 2 .. Len(f[p])
        BY <1>1, <3>1
    <3> QED
        BY <1>1, <1>2, <2>1, <3>1, <3>2
  <2>2. CASE x # q
      BY <1>1, <2>2
  <2> QED
      BY <2>1, <2>2
<1>6. ASSUME NEW x \in DOMAIN more, NEW y \in DOMAIN more, NEW i \in 2 .. Len(more[x]),
             NEW j \in 2 .. Len(more[y]),
             more[x][i].at = more[y][j].at
      PROVE  more[x][i].thread = more[y][j].thread
  <2>1. PICK u \in DOMAIN f : i \in 2 .. Len(f[u]) /\ more[x][i] = f[u][i]
      BY <1>5
  <2>2. PICK w \in DOMAIN f : j \in 2 .. Len(f[w]) /\ more[y][j] = f[w][j]
      BY <1>5
  <2>3. \A a, b \in DOMAIN f : \A k \in 2 .. Len(f[a]) : \A l \in 2 .. Len(f[b]) :
            f[a][k].at = f[b][l].at => f[a][k].thread = f[b][l].thread
      BY <1>1 DEF AreFiles
  <2> QED
      BY <1>6, <2>1, <2>2, <2>3
<1> QED
    BY <1>3, <1>4, <1>6 DEF AreFiles

(* A file is read to its end if the limit is not reached before it.          *)
LEMMA ReadLimit ==
    ASSUME NEW f, AreFiles(f), NEW p \in DOMAIN f
    PROVE  /\ Codex!Before(f, p) \in Nat
           /\ Codex!Before(f, p) = SumFunctionOnSet([x \in DOMAIN f |-> Len(f[x])], {x \in DOMAIN f : x > p})
           /\ Codex!Read(f, p) = f[p] <=> f[p] = <<>> \/ Len(f[p]) <= CodexRecords - Codex!Before(f, p)
<1> DEFINE rows == f[p]
           rest == CodexRecords - Codex!Before(f, p)
           m == Codex!Min({Len(rows), rest})
           g == [q \in DOMAIN f |-> Len(f[q])]
           S == {q \in DOMAIN f : q > p}
<1>1. Codex!Read(f, p) = SubSeq(rows, 1, m)
    BY DEF Codex!Read
<1>2. \A q \in DOMAIN f : f[q] \in Seq(RowsOfCodex)
  <2> TAKE q \in DOMAIN f
  <2>1. f[q] = <<>> \/ IsHistory(f[q])
      BY DEF AreFiles
  <2>2. <<>> \in Seq(RowsOfCodex)
      OBVIOUS
  <2> QED
      BY <2>1, <2>2 DEF IsHistory
<1>3. IsFiniteSet(S)
    BY FS_Subset DEF AreFiles
<1>4. \A q \in S : g[q] \in Nat
    BY <1>2
<1>5. Codex!Before(f, p) = SumFunctionOnSet(g, S)
    BY HistorySum DEF Codex!Before
<1>6. Codex!Before(f, p) \in Nat
  <2> HIDE DEF g, S
  <2> QED
      BY <1>3, <1>4, <1>5, SumNat
<1>7. rest \in Int /\ Len(rows) \in Nat /\ rows \in Seq(RowsOfCodex)
    BY <1>2, <1>6, HistoryIs
<1> HIDE DEF rest
<1>8. m \in {Len(rows), rest} /\ m <= Len(rows) /\ m <= rest /\ m \in Int
  <2>1. \E x \in {Len(rows), rest} : \A y \in {Len(rows), rest} : x <= y
      BY <1>7
  <2>2. m = CHOOSE x \in {Len(rows), rest} : \A y \in {Len(rows), rest} : x <= y
      BY DEF Codex!Min
  <2> HIDE DEF m
  <2>3. m \in {Len(rows), rest} /\ \A y \in {Len(rows), rest} : m <= y
      BY <2>1, <2>2
  <2> QED
      BY <1>7, <2>3
<1> HIDE DEF m, rows
<1>9. SubSeq(rows, 1, m) = rows <=> rows = <<>> \/ Len(rows) <= rest
  <2>1. CASE rows = <<>>
    <3>1. m <= 0
        BY <1>7, <1>8, <2>1
    <3> QED
        BY <1>7, <1>8, <2>1, <3>1
  <2>2. CASE rows # <<>> /\ Len(rows) <= rest
    <3>1. m = Len(rows)
        BY <1>7, <1>8, <2>2
    <3> QED
        BY <1>7, <2>2, <3>1
  <2>3. CASE rows # <<>> /\ ~(Len(rows) <= rest)
    <3>1. m = rest /\ m < Len(rows) /\ Len(rows) > 0
        BY <1>7, <1>8, <2>3
    <3>2. Len(SubSeq(rows, 1, m)) # Len(rows)
      <4>1. CASE m >= 1
          BY <1>7, <3>1, <4>1
      <4>2. CASE ~(m >= 1)
          BY <1>7, <1>8, <3>1, <4>2
      <4> QED
          BY <4>1, <4>2
    <3> QED
        BY <2>3, <3>2
  <2> QED
      BY <2>1, <2>2, <2>3
<1> QED
    BY <1>1, <1>5, <1>6, <1>9 DEF rest, rows

(* If there was room for the copy too, there is without it.                  *)
LEMMA CopyTakesRoom ==
    ASSUME NEW f, NEW more, NEW p, NEW q, NEW n, IsCopied(f, more, p, q, n),
           ~Codex!Truncated(more)
    PROVE  ~Codex!Truncated(f)
<1>1. /\ AreFiles(f) /\ DOMAIN more = DOMAIN f \union {q} /\ \A x \in DOMAIN f : more[x] = f[x]
    BY DEF IsCopied
<1>2. AreFiles(more)
    BY CopiedFiles
<1>3. ASSUME NEW x \in DOMAIN f
      PROVE  Codex!Read(f, x) = f[x]
  <2> DEFINE g == [y \in DOMAIN f |-> Len(f[y])]
             h == [y \in DOMAIN more |-> Len(more[y])]
             S == {y \in DOMAIN f : y > x}
             T == {y \in DOMAIN more : y > x}
  <2>1. x \in DOMAIN more /\ more[x] = f[x] /\ Codex!Read(more, x) = more[x]
      BY <1>1 DEF Codex!Truncated
  <2>2. /\ Codex!Before(f, x) = SumFunctionOnSet(g, S) /\ Codex!Before(f, x) \in Nat
        /\ Codex!Read(f, x) = f[x] <=> f[x] = <<>> \/ Len(f[x]) <= CodexRecords - Codex!Before(f, x)
      BY <1>1, ReadLimit
  <2>3. /\ Codex!Before(more, x) = SumFunctionOnSet(h, T) /\ Codex!Before(more, x) \in Nat
        /\ Codex!Read(more, x) = more[x] <=> more[x] = <<>> \/ Len(more[x]) <= CodexRecords - Codex!Before(more, x)
      BY <1>2, <2>1, ReadLimit
  <2>4. \A y \in DOMAIN more : h[y] \in Nat
    <3> TAKE y \in DOMAIN more
    <3>1. more[y] = <<>> \/ IsHistory(more[y])
        BY <1>2 DEF AreFiles
    <3>2. Len(more[y]) \in Nat
      <4>1. Len(<<>>) = 0
          OBVIOUS
      <4> QED
          BY <3>1, <4>1 DEF IsHistory
    <3> QED
        BY <3>2
  <2>5. S \subseteq T /\ T \subseteq DOMAIN more /\ \A y \in S : g[y] = h[y]
      BY <1>1
  <2>6. IsFiniteSet(S) /\ IsFiniteSet(T)
      BY <1>2, <2>5, FS_Subset DEF AreFiles
  <2> HIDE DEF g, h, S, T
  <2>7. SumFunctionOnSet(g, S) <= SumFunctionOnSet(h, T)
    <3> DEFINE i == [y \in S |-> y]
    <3>1. \A y \in S : i[y] \in T /\ g[y] \in Int /\ g[y] <= h[i[y]]
      <4> TAKE y \in S
      <4>1. i[y] = y /\ y \in T /\ h[y] \in Nat /\ g[y] = h[y]
          BY <2>4, <2>5
      <4> QED
          BY <4>1
    <3>2. \A y, z \in S : i[y] = i[z] => y = z
        OBVIOUS
    <3>3. \A y \in T : h[y] \in Nat
        BY <2>4, <2>5
    <3> HIDE DEF i
    <3> QED
        BY <2>6, <3>1, <3>2, <3>3, SumInto
  <2>8. CASE f[x] = <<>>
      BY <2>2, <2>8
  <2>9. CASE f[x] # <<>>
    <3>1. Len(f[x]) <= CodexRecords - Codex!Before(more, x) /\ Codex!Before(f, x) <= Codex!Before(more, x)
        BY <2>1, <2>2, <2>3, <2>7, <2>9
    <3>2. Len(f[x]) \in Nat
      <4>1. f[x] = <<>> \/ IsHistory(f[x])
          BY <1>1 DEF AreFiles
      <4> QED
          BY <2>9, <4>1 DEF IsHistory
    <3>3. Len(f[x]) <= CodexRecords - Codex!Before(f, x)
        BY <2>2, <2>3, <3>1, <3>2, HistoryIs
    <3> QED
        BY <2>2, <3>3
  <2> QED
      BY <2>8, <2>9
<1> QED
    BY <1>3 DEF Codex!Truncated

-----------------------------------------------------------------------------
(* Streams that observe something.                                           *)
ArePositive(X) == /\ AreStreams(X)
                  /\ \A s \in X : \A i \in DOMAIN s.obs : Codex!Total(s.obs[i].tokens) > 0

(* A file that is read observes no event without tokens.                     *)
LEMMA ObservingPositive == ASSUME NEW f, AreFiles(f) PROVE ArePositive(Observing(f))
<1>1. AreStreams(Observing(f))
    BY ObservingAre
<1>2. ASSUME NEW s \in Observing(f), NEW i \in DOMAIN s.obs
      PROVE  Codex!Total(s.obs[i].tokens) > 0
  <2>1. s \in FilesRead(f)
      BY DEF Observing
  <2>2. \E j \in 2 .. Len(f[s.path]) : IsOfRow(s.obs[i], f[s.path][j])
      BY <2>1, StreamEvents
  <2> QED
      BY <2>2 DEF IsOfRow
<1> QED
    BY <1>1, <1>2 DEF ArePositive

(* The streams of a thread agree if all of them are beginnings of one.       *)
IsChain(X) == \A t \in X : \E s \in X : s.key = t.key /\ \A u \in X : u.key = t.key => IsBegin(u.obs, s.obs)

(* The selection finds nothing that diverges if and only if they do.         *)
LEMMA ChainIs ==
    ASSUME NEW X, ArePositive(X)
    PROVE  Codex!Diverging(X) = {} <=> IsChain(X)
<1>1. AreStreams(X) /\ \A s \in X : s.obs \in Seq(Observations)
    BY DEF ArePositive, AreStreams, FileStreams
<1>2. /\ Codex!Selected(X) \subseteq X
      /\ \A s \in Codex!Selected(X) : \A t \in X : t.key = s.key => Codex!SumOf(t.obs) <= Codex!SumOf(s.obs)
      /\ \A t \in X : \E s \in Codex!Selected(X) : s.key = t.key
    BY <1>1, SelectedIs
<1>3. Codex!Diverging(X) = {} <=>
          \A s \in Codex!Selected(X) : \A t \in X : s.key = t.key => IsBegin(s.obs, t.obs) \/ IsBegin(t.obs, s.obs)
  <2>1. \A s \in Codex!Selected(X) : \A t \in X :
            Codex!Compatible(s, t) <=> IsBegin(s.obs, t.obs) \/ IsBegin(t.obs, s.obs)
      BY <1>1, <1>2, PrefixIs DEF Codex!Compatible
  <2>2. Codex!Diverging(X) = {} <=>
            \A s \in Codex!Selected(X) : \A t \in X : s.key = t.key => Codex!Compatible(s, t)
      BY DEF Codex!Diverging
  <2> QED
      BY <2>1, <2>2
<1>4. \A s, t \in X : IsBegin(s.obs, t.obs) /\ Codex!SumOf(t.obs) <= Codex!SumOf(s.obs) => s.obs = t.obs
  <2> TAKE s, t \in X
  <2> HAVE IsBegin(s.obs, t.obs) /\ Codex!SumOf(t.obs) <= Codex!SumOf(s.obs)
  <2>1. \A i \in DOMAIN t.obs : Codex!Total(t.obs[i].tokens) > 0
      BY DEF ArePositive
  <2> QED
      BY <1>1, <2>1, BeginSum
<1>5. \A s \in X : IsBegin(s.obs, s.obs)
    BY <1>1 DEF IsBegin
<1>6. ASSUME Codex!Diverging(X) = {}, NEW t \in X
      PROVE  \E s \in X : s.key = t.key /\ \A u \in X : u.key = t.key => IsBegin(u.obs, s.obs)
  <2>1. PICK s \in Codex!Selected(X) : s.key = t.key
      BY <1>2
  <2>2. s \in X
      BY <1>2
  <2>3. ASSUME NEW u \in X, u.key = t.key
        PROVE  IsBegin(u.obs, s.obs)
    <3>1. IsBegin(s.obs, u.obs) \/ IsBegin(u.obs, s.obs)
        BY <1>3, <1>6, <2>1, <2>3
    <3>2. Codex!SumOf(u.obs) <= Codex!SumOf(s.obs)
        BY <1>2, <2>1, <2>3
    <3>3. IsBegin(s.obs, u.obs) => s.obs = u.obs
        BY <1>4, <2>2, <3>2
    <3> QED
        BY <1>5, <2>2, <3>1, <3>3
  <2> QED
      BY <2>1, <2>2, <2>3
<1>7. ASSUME IsChain(X), NEW c \in Codex!Selected(X), NEW t \in X, c.key = t.key
      PROVE  IsBegin(c.obs, t.obs) \/ IsBegin(t.obs, c.obs)
  <2>1. PICK s \in X : s.key = t.key /\ \A u \in X : u.key = t.key => IsBegin(u.obs, s.obs)
      BY <1>7 DEF IsChain
  <2>2. c \in X /\ IsBegin(c.obs, s.obs) /\ IsBegin(t.obs, s.obs)
      BY <1>2, <1>7, <2>1
  <2>3. Codex!SumOf(s.obs) <= Codex!SumOf(c.obs)
      BY <1>2, <1>7, <2>1
  <2>4. c.obs = s.obs
      BY <1>4, <2>1, <2>2, <2>3
  <2> QED
      BY <2>2, <2>4
<1> QED
    BY <1>3, <1>6, <1>7 DEF IsChain

(* One more stream, of which another is the continuation.                    *)
IsOneMore(X, Y, s, c) ==
    /\ ArePositive(X) /\ ArePositive(Y)
    /\ X \subseteq Y /\ Y \subseteq X \union {c}
    /\ c \in Y => s \in X /\ s.key = c.key /\ IsBegin(c.obs, s.obs)

(* The one more agrees with the others,                                      *)
LEMMA OneMoreAgrees ==
    ASSUME NEW X, NEW Y, NEW s, NEW c, IsOneMore(X, Y, s, c)
    PROVE  IsChain(X) <=> IsChain(Y)
<1>1. /\ \A t \in Y : t.obs \in Seq(Observations)
      /\ X \subseteq Y /\ Y \subseteq X \union {c}
      /\ c \in Y => s \in X /\ s.key = c.key /\ IsBegin(c.obs, s.obs)
    BY DEF IsOneMore, ArePositive, AreStreams, FileStreams
<1>2. \A a, b, d \in Y : IsBegin(a.obs, b.obs) /\ IsBegin(b.obs, d.obs) => IsBegin(a.obs, d.obs)
    BY <1>1, BeginBegins
<1>3. ASSUME IsChain(X), NEW t \in Y
      PROVE  \E z \in Y : z.key = t.key /\ \A u \in Y : u.key = t.key => IsBegin(u.obs, z.obs)
  <2>1. PICK y \in X : y.key = t.key
      BY <1>1
  <2>2. PICK z \in X : z.key = y.key /\ \A u \in X : u.key = y.key => IsBegin(u.obs, z.obs)
      BY <1>3 DEF IsChain
  <2>3. ASSUME NEW u \in Y, u.key = t.key
        PROVE  IsBegin(u.obs, z.obs)
    <3>1. CASE u \in X
        BY <2>1, <2>2, <2>3, <3>1
    <3>2. CASE u \notin X
      <4>1. u = c /\ s \in X /\ s.key = t.key /\ IsBegin(u.obs, s.obs)
          BY <1>1, <2>3, <3>2
      <4>2. IsBegin(s.obs, z.obs) /\ s \in Y /\ z \in Y
          BY <1>1, <2>1, <2>2, <4>1
      <4> QED
          BY <1>2, <4>1, <4>2
    <3> QED
        BY <3>1, <3>2
  <2> QED
      BY <1>1, <2>1, <2>2, <2>3
<1>4. ASSUME IsChain(Y), NEW t \in X
      PROVE  \E z \in X : z.key = t.key /\ \A u \in X : u.key = t.key => IsBegin(u.obs, z.obs)
  <2>1. t \in Y
      BY <1>1
  <2>2. PICK y \in Y : y.key = t.key /\ \A u \in Y : u.key = t.key => IsBegin(u.obs, y.obs)
      BY <1>4, <2>1 DEF IsChain
  <2>3. CASE y \in X
      BY <1>1, <2>2, <2>3
  <2>4. CASE y \notin X
    <3>1. y = c /\ s \in X /\ s.key = t.key /\ IsBegin(y.obs, s.obs)
        BY <1>1, <2>2, <2>4
    <3>2. \A u \in X : u.key = t.key => IsBegin(u.obs, s.obs)
        BY <1>1, <1>2, <2>2, <3>1
    <3> QED
        BY <3>1, <3>2
  <2> QED
      BY <2>3, <2>4
<1> QED
    BY <1>3, <1>4 DEF IsChain

(* and changes neither what is selected nor whether something diverges.      *)
LEMMA OneMoreSame ==
    ASSUME NEW X, NEW Y, NEW s, NEW c, IsOneMore(X, Y, s, c)
    PROVE  /\ BestOf(Codex!Selected(X)) = BestOf(Codex!Selected(Y))
           /\ Codex!Diverging(X) = {} <=> Codex!Diverging(Y) = {}
<1>1. /\ AreStreams(X) /\ AreStreams(Y) /\ ArePositive(X) /\ ArePositive(Y)
      /\ X \subseteq Y /\ Y \subseteq X \union {c}
      /\ c \in Y => s \in X /\ s.key = c.key /\ IsBegin(c.obs, s.obs)
      /\ \A t \in Y : t.obs \in Seq(Observations) /\ \A i \in DOMAIN t.obs : Codex!Total(t.obs[i].tokens) > 0
    BY DEF IsOneMore, ArePositive, AreStreams, FileStreams
<1>2. Codex!Diverging(X) = {} <=> Codex!Diverging(Y) = {}
    BY <1>1, ChainIs, OneMoreAgrees
<1> DEFINE C == Codex!Selected(X)
           D == Codex!Selected(Y)
<1>3. /\ C \subseteq X /\ (\A a, b \in C : a.key = b.key => a = b)
      /\ \A a \in C : \A t \in X : t.key = a.key => Codex!SumOf(t.obs) <= Codex!SumOf(a.obs)
      /\ \A t \in X : \E a \in C : a.key = t.key
    BY <1>1, SelectedIs
<1>4. /\ D \subseteq Y /\ (\A a, b \in D : a.key = b.key => a = b)
      /\ \A a \in D : \A t \in Y : t.key = a.key => Codex!SumOf(t.obs) <= Codex!SumOf(a.obs)
      /\ \A t \in Y : \E a \in D : a.key = t.key
    BY <1>1, SelectedIs
<1>5. /\ \A a \in C : BestOf(C)[a.key] = Codex!SumOf(a.obs)
      /\ \A a \in D : BestOf(D)[a.key] = Codex!SumOf(a.obs)
    BY <1>1, <1>3, <1>4, TotalIs
<1> HIDE DEF C, D
<1>6. \A t \in Y : Codex!SumOf(t.obs) \in Nat
    BY <1>1, SumOfIs
<1>7. c \in Y => Codex!SumOf(c.obs) <= Codex!SumOf(s.obs)
    BY <1>1, BeginSum
<1>8. ASSUME NEW t \in Threads
      PROVE  BestOf(C)[t] = BestOf(D)[t]
  <2>1. CASE \E y \in Y : y.key = t
    <3>1. PICK b \in D : b.key = t
        BY <1>4, <2>1
    <3>2. PICK y \in X : y.key = t
        BY <1>1, <2>1
    <3>3. PICK a \in C : a.key = t
        BY <1>3, <3>2
    <3>4. Codex!SumOf(a.obs) <= Codex!SumOf(b.obs)
        BY <1>1, <1>3, <1>4, <3>1, <3>3
    <3>5. Codex!SumOf(b.obs) <= Codex!SumOf(a.obs)
      <4>1. CASE b \in X
          BY <1>3, <3>1, <3>3, <4>1
      <4>2. CASE b \notin X
        <5>1. b = c /\ c \in Y
            BY <1>1, <1>4, <4>2
        <5>2. Codex!SumOf(c.obs) <= Codex!SumOf(s.obs) /\ s \in X /\ s.key = t
            BY <1>1, <1>7, <3>1, <5>1
        <5>3. Codex!SumOf(s.obs) <= Codex!SumOf(a.obs)
            BY <1>3, <3>3, <5>2
        <5>4. Codex!SumOf(c.obs) \in Nat /\ Codex!SumOf(s.obs) \in Nat /\ Codex!SumOf(a.obs) \in Nat
            BY <1>1, <1>3, <1>6, <5>1, <5>2
        <5> QED
            BY <5>1, <5>2, <5>3, <5>4
      <4> QED
          BY <4>1, <4>2
    <3>6. Codex!SumOf(a.obs) \in Nat /\ Codex!SumOf(b.obs) \in Nat
        BY <1>1, <1>3, <1>4, <1>6
    <3> QED
        BY <1>5, <3>1, <3>3, <3>4, <3>5, <3>6
  <2>2. CASE ~\E y \in Y : y.key = t
    <3>1. (~\E a \in C : a.key = t) /\ (~\E a \in D : a.key = t)
        BY <1>1, <1>3, <1>4, <2>2
    <3> QED
        BY <3>1 DEF BestOf
  <2> QED
      BY <2>1, <2>2
<1>9. BestOf(C) = BestOf(D)
  <2>1. /\ BestOf(C) = [t \in Threads |-> BestOf(C)[t]]
        /\ BestOf(D) = [t \in Threads |-> BestOf(D)[t]]
      BY DEF BestOf
  <2> QED
      BY <1>8, <2>1
<1> QED
    BY <1>2, <1>9 DEF C, D

-----------------------------------------------------------------------------
(* A scan that reads every file to its end.                                  *)
LEMMA AllRead ==
    ASSUME NEW f, AreFiles(f), ~Codex!Truncated(f)
    PROVE  FilesRead(f) = {Codex!ReadFile(x, f[x]) : x \in {y \in DOMAIN f : f[y] # <<>>}}
<1>1. \A x \in DOMAIN f : Codex!Read(f, x) = f[x]
    BY DEF Codex!Truncated
<1>2. {y \in DOMAIN f : Codex!Read(f, y) # <<>>} = {y \in DOMAIN f : f[y] # <<>>}
    BY <1>1
<1>3. FilesRead(f) = {Codex!ReadFile(x, Codex!Read(f, x)) : x \in {y \in DOMAIN f : f[y] # <<>>}}
    BY <1>2 DEF FilesRead
<1> QED
    BY <1>1, <1>3

(* The copy is one more stream, and the beginning of another.                *)
LEMMA CopyRead ==
    ASSUME NEW f, NEW more, NEW p, NEW q, NEW n, IsCopied(f, more, p, q, n),
           ~Codex!Truncated(more)
    PROVE  \E s \in FilesRead(f), c \in FilesRead(more) :
              /\ FilesRead(more) = FilesRead(f) \union {c}
              /\ s.key = c.key /\ IsBegin(c.obs, s.obs) /\ c.bad <= s.bad
              /\ s \in FileStreams /\ c \in FileStreams
<1>1. /\ AreFiles(f) /\ p \in DOMAIN f /\ n \in 1 .. Len(f[p]) /\ q \in Int /\ q \notin DOMAIN f
      /\ DOMAIN more = DOMAIN f \union {q} /\ \A x \in DOMAIN f : more[x] = f[x]
    BY DEF IsCopied
<1>2. /\ IsHistory(f[p]) /\ IsHistory(more[q]) /\ Len(more[q]) = n /\ more[q][1] = f[p][1]
      /\ Scanned(more[q], n) = Scanned(f[p], n)
    BY CopiedFile
<1>3. AreFiles(more) /\ ~Codex!Truncated(f)
    BY CopiedFiles, CopyTakesRoom
<1>4. FilesRead(f) = {Codex!ReadFile(x, f[x]) : x \in {y \in DOMAIN f : f[y] # <<>>}}
    BY <1>1, <1>3, AllRead
<1>5. FilesRead(more) = {Codex!ReadFile(x, more[x]) : x \in {y \in DOMAIN more : more[y] # <<>>}}
    BY <1>3, AllRead
<1>6. f[p] # <<>> /\ more[q] # <<>> /\ p \in Int
    BY <1>1, <1>2 DEF IsHistory, AreFiles
<1>7. PICK s, c : s = Codex!ReadFile(p, f[p]) /\ c = Codex!ReadFile(q, more[q])
    OBVIOUS
<1>8. s \in FilesRead(f) /\ c \in FilesRead(more)
    BY <1>1, <1>4, <1>5, <1>6, <1>7
<1>9. FilesRead(more) = FilesRead(f) \union {c}
    BY <1>1, <1>4, <1>5, <1>6, <1>7
<1>10. s \in FileStreams /\ IsOfFile(s, f[p], Len(f[p]))
    BY <1>2, <1>6, <1>7, FileReadIs
<1>11. c \in FileStreams /\ IsOfFile(c, more[q], n)
    BY <1>1, <1>2, <1>7, FileReadIs
<1>12. Len(f[p]) \in n .. Len(f[p])
    BY <1>1, <1>2 DEF IsHistory
<1>13. IsBegin(Scanned(f[p], n).obs, Scanned(f[p], Len(f[p])).obs)
    BY <1>1, <1>2, <1>12, ObservedStays
<1>14. Scanned(f[p], n).bad <= Scanned(f[p], Len(f[p])).bad
    BY <1>1, <1>2, <1>12, BadGrows
<1>15. s.key = c.key /\ IsBegin(c.obs, s.obs) /\ c.bad <= s.bad
    BY <1>2, <1>10, <1>11, <1>13, <1>14 DEF IsOfFile
<1> QED
    BY <1>8, <1>9, <1>10, <1>11, <1>15

(* A copy, complete or cut off, does not change what a scan reports.         *)
LEMMA CopySame ==
    ASSUME NEW f, NEW more, NEW p, NEW q, NEW n, IsCopied(f, more, p, q, n),
           ~Codex!Truncated(more)
    PROVE  Codex!Scan(more) = Codex!Scan(f)
<1>1. AreFiles(f) /\ AreFiles(more) /\ ~Codex!Truncated(f)
    BY CopiedFiles, CopyTakesRoom DEF IsCopied
<1>2. PICK s \in FilesRead(f), c \in FilesRead(more) :
              /\ FilesRead(more) = FilesRead(f) \union {c}
              /\ s.key = c.key /\ IsBegin(c.obs, s.obs) /\ c.bad <= s.bad
              /\ s \in FileStreams /\ c \in FileStreams
    BY CopyRead
<1>3. IsOneMore(Observing(f), Observing(more), s, c)
  <2>1. ArePositive(Observing(f)) /\ ArePositive(Observing(more))
      BY <1>1, ObservingPositive
  <2>2. Observing(f) \subseteq Observing(more) /\ Observing(more) \subseteq Observing(f) \union {c}
      BY <1>2 DEF Observing
  <2>3. ASSUME c \in Observing(more)
        PROVE  s \in Observing(f)
    <3>1. c.obs # <<>> /\ c.obs \in Seq(Observations) /\ s.obs \in Seq(Observations)
        BY <1>2, <2>3 DEF Observing, FileStreams
    <3>2. Len(c.obs) > 0
        BY <3>1
    <3>3. s.obs # <<>>
        BY <1>2, <3>1, <3>2 DEF IsBegin
    <3> QED
        BY <3>3 DEF Observing
  <2> QED
      BY <1>2, <2>1, <2>2, <2>3 DEF IsOneMore
<1>4. /\ BestOf(Codex!Selected(Observing(f))) = BestOf(Codex!Selected(Observing(more)))
      /\ Codex!Diverging(Observing(f)) = {} <=> Codex!Diverging(Observing(more)) = {}
    BY <1>3, OneMoreSame
<1>5. Codex!Scan(more).total = Codex!Scan(f).total
    BY <1>1, <1>4, ScanIs
<1>6. (\E u \in FilesRead(more) : u.bad > 0) <=> (\E u \in FilesRead(f) : u.bad > 0)
  <2>1. c.bad \in Nat /\ s.bad \in Nat
      BY <1>2 DEF FileStreams
  <2>2. c.bad > 0 => s.bad > 0
      BY <1>2, <2>1
  <2> QED
      BY <1>2, <2>2
<1>7. Codex!Scan(more).partial <=> Codex!Scan(f).partial
  <2>1. Codex!Scan(f).partial <=> \/ \E u \in FilesRead(f) : u.bad > 0
                                  \/ Codex!Diverging(Observing(f)) # {}
      BY <1>1, ScanIs
  <2>2. Codex!Scan(more).partial <=> \/ \E u \in FilesRead(more) : u.bad > 0
                                     \/ Codex!Diverging(Observing(more)) # {}
      BY <1>1, ScanIs
  <2> QED
      BY <1>4, <1>6, <2>1, <2>2
<1>8. \A g : \E total : \E partial \in BOOLEAN : Codex!Scan(g) = [total |-> total, partial |-> partial]
  <2> TAKE g
  <2> QED
      BY DEF Codex!Scan
<1>9. PICK a : \E b \in BOOLEAN : Codex!Scan(more) = [total |-> a, partial |-> b]
    BY <1>8
<1>10. PICK b \in BOOLEAN : Codex!Scan(more) = [total |-> a, partial |-> b]
    BY <1>9
<1>11. PICK d : \E e \in BOOLEAN : Codex!Scan(f) = [total |-> d, partial |-> e]
    BY <1>8
<1>12. PICK e \in BOOLEAN : Codex!Scan(f) = [total |-> d, partial |-> e]
    BY <1>11
<1>13. a = d
    BY <1>5, <1>10, <1>12
<1>14. b <=> e
    BY <1>7, <1>10, <1>12
<1>15. b = e
    BY <1>10, <1>12, <1>14
<1> QED
    BY <1>10, <1>12, <1>13, <1>15

(* The invariant is enough for copies too.                                   *)
LEMMA CopiesAddNothing == HistoryInv => Codex!CodexCopiesAddNothing
<1> SUFFICES ASSUME HistoryInv, NEW p \in HistoryFiles, NEW n \in 1 .. Len(logs[p]),
                    NEW q \in {Codex!Max(HistoryFiles) + 1, -1},
                    NEW more, more = [x \in HistoryFiles \union {q} |-> IF x = q THEN SubSeq(logs[p], 1, n) ELSE logs[x]],
                    ~Codex!Truncated(more)
             PROVE  Codex!Scan(more) = Codex!Scan(logs)
    BY Zenon DEF Codex!CodexCopiesAddNothing
<1>1. HistoryTypes
    BY DEF HistoryInv
<1>2. PICK tree, origin : IsHistoryOf(tree, origin)
    BY DEF HistoryInv
<1>3. AreFiles(logs) /\ DOMAIN logs = HistoryFiles
    BY <1>1, <1>2, LogsAreFiles
<1>4. q \in Int /\ q \notin HistoryFiles
  <2>1. IsFiniteSet(HistoryFiles) /\ HistoryFiles \subseteq Nat /\ HistoryFiles # {}
      BY HistoryIs
  <2>2. \E x \in HistoryFiles : \A y \in HistoryFiles : x >= y
    <3>1. HistoryFiles \subseteq Int
        BY <2>1
    <3> QED
        BY <2>1, <3>1, MaxExists
  <2>3. PICK m : m = Codex!Max(HistoryFiles)
      OBVIOUS
  <2>4. m \in HistoryFiles /\ \A y \in HistoryFiles : m >= y
    <3>1. m = CHOOSE x \in HistoryFiles : \A y \in HistoryFiles : x >= y
        BY <2>3 DEF Codex!Max
    <3> QED
        BY <2>2, <3>1
  <2>5. q = m + 1 \/ q = -1
      BY <2>3
  <2>6. m \in Nat /\ \A y \in HistoryFiles : y \in Nat
      BY <2>1, <2>4
  <2> QED
      BY <2>4, <2>5, <2>6
<1>5. IsCopied(logs, more, p, q, n)
  <2>1. DOMAIN more = DOMAIN logs \union {q} /\ more[q] = SubSeq(logs[p], 1, n)
      BY <1>3
  <2>2. \A x \in DOMAIN logs : more[x] = logs[x]
      BY <1>3, <1>4
  <2> QED
      BY <1>3, <1>4, <2>1, <2>2 DEF IsCopied, IsHead
<1> QED
    BY <1>5, CopySame

(* An archived copy of a file, complete or cut off, at whatever path,        *)
(* changes neither the total nor whether it is partial, unless the limit on  *)
(* rows is reached, which marks the scan (scan_codex_usage,                  *)
(* _codex_streams_are_prefix_compatible).                                    *)
THEOREM CopiesAddNothingCorrect == PollingSpec => []Codex!CodexCopiesAddNothing
BY HistoryInvariant, CopiesAddNothing, PTL

=============================================================================
