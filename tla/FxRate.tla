------------------------------- MODULE FxRate -------------------------------
(***************************************************************************)
(* The dollar's rate in won: usage/fx.py, resolve_usd_krw_rate, with its   *)
(* cache on disk, as QuotaDeckRuntime.refresh_fx and `quotadeck            *)
(* usage-engine` call it.                                                  *)
(*                                                                         *)
(* The window and a command line share the cache.  It is written in place: *)
(* another process may find it empty or cut off, and a crash may leave it  *)
(* so.                                                                     *)
(*                                                                         *)
(* The rate that the source publishes on a day is named by the day.        *)
(***************************************************************************)
EXTENDS Integers

CONSTANTS Processes,
          Manual,       \* the rate of the configuration, 0 like no day
          StaleAfter,   \* DEFAULT_FX_STALE_AFTER, in days
          LastDay       \* bound: the last day

AgeAssumption == StaleAfter \in Int

VARIABLES today,
          published,    \* what the source says: [rate, asOf]; asOf 0: no date
          cache,        \* the file: NoFile, Torn, or [rate, asOf, fetched]
          pc,           \* per process: idle, or where it is in write_fx_cache
          quote         \* per process: its last FxRateQuote

fxVars == <<today, published, cache, pc, quote>>

NoFile == [rate |-> -1, asOf |-> 0, fetched |-> 0]
Torn == [rate |-> -2, asOf |-> 0, fetched |-> 0]
NoQuote == [rate |-> -1, asOf |-> 0, fetched |-> 0, stale |-> TRUE, from |-> "nothing"]

FxInit ==
    /\ today = 1
    /\ published = [rate |-> 1, asOf |-> 1]
    /\ cache = NoFile
    /\ pc = [p \in Processes |-> "idle"]
    /\ quote = [p \in Processes |-> NoQuote]

Publish(dated) ==
    /\ published' = [rate |-> today, asOf |-> IF dated THEN today ELSE 0]
    /\ UNCHANGED <<today, cache, pc, quote>>

NextDay ==
    /\ today < LastDay
    /\ today' = today + 1
    /\ UNCHANGED <<published, cache, pc, quote>>

-----------------------------------------------------------------------------

(* The mistake of going by the day of the download. *)
StaleByFetch(asOf, fetched) == today - fetched >= StaleAfter

(* _cache_is_stale *)
Stale(asOf, fetched) == today - (IF asOf # 0 THEN asOf ELSE fetched) >= StaleAfter

(* A live rate is taken, whatever its age, and then stored. *)
Live(p) ==
    /\ pc[p] = "idle"
    /\ quote' = [quote EXCEPT ![p] =
                    [rate |-> published.rate, asOf |-> published.asOf, fetched |-> today,
                     stale |-> Stale(published.asOf, today), from |-> "live"]]
    /\ pc' = [pc EXCEPT ![p] = "open"]
    /\ UNCHANGED <<today, published, cache>>

(* The source does not answer, or with something else: the last known good   *)
(* rate, or the one of the configuration; neither is ever fresh.             *)
Fallback(readable) ==
    IF readable /\ cache \notin {NoFile, Torn}
    THEN [rate |-> cache.rate, asOf |-> cache.asOf, fetched |-> cache.fetched,
          stale |-> TRUE, from |-> "last_known_good"]
    ELSE [rate |-> Manual, asOf |-> 0, fetched |-> 0, stale |-> TRUE, from |-> "manual"]

LiveFails(p, readable) ==
    /\ pc[p] = "idle"
    /\ quote' = [quote EXCEPT ![p] = Fallback(readable)]
    /\ UNCHANGED <<today, published, cache, pc>>

(* write_fx_cache: the file is opened, which empties it, and then written.   *)
OpenCache(p) ==
    /\ pc[p] = "open"
    /\ cache' = Torn
    /\ pc' = [pc EXCEPT ![p] = "write"]
    /\ UNCHANGED <<today, published, quote>>

(* What another process wrote after the file was opened may stick out.       *)
WriteCache(p) ==
    /\ pc[p] = "write"
    /\ \/ cache' = [rate |-> quote[p].rate, asOf |-> quote[p].asOf, fetched |-> quote[p].fetched]
       \/ cache # Torn /\ cache' = Torn
    /\ pc' = [pc EXCEPT ![p] = "idle"]
    /\ UNCHANGED <<today, published, quote>>

(* An OSError is swallowed. *)
WriteFails(p) ==
    /\ pc[p] \in {"open", "write"}
    /\ pc' = [pc EXCEPT ![p] = "idle"]
    /\ UNCHANGED <<today, published, cache, quote>>

Restart(p) ==
    /\ pc' = [pc EXCEPT ![p] = "idle"]
    /\ quote' = [quote EXCEPT ![p] = NoQuote]
    /\ UNCHANGED <<today, published, cache>>

FxNext ==
    \/ \E dated \in BOOLEAN : Publish(dated)
    \/ NextDay
    \/ \E p \in Processes :
        \/ Live(p) \/ OpenCache(p) \/ WriteCache(p) \/ WriteFails(p) \/ Restart(p)
        \/ \E readable \in BOOLEAN : LiveFails(p, readable)

FxSpec == FxInit /\ [][FxNext]_fxVars

-----------------------------------------------------------------------------
(* Properties *)

(* A rate is one that was published, with the date it was published with, or *)
(* is named as the user's own: not one process's rate with the other's date, *)
(* and nothing read from half a file.  A rate that is called fresh was, when *)
(* it was fetched, no older than the limit.                                  *)
QuoteHonest ==
    \A p \in Processes :
        LET q == quote[p]
        IN /\ q.from \in {"live", "last_known_good"} =>
                /\ q.asOf \in {0, q.rate}
                /\ q.rate \in 1 .. q.fetched
                /\ q.fetched <= today
           /\ q.from = "manual" => q.rate = Manual
           /\ ~q.stale => q.from = "live" /\ (q.asOf # 0 => q.fetched - q.asOf < StaleAfter)

=============================================================================
