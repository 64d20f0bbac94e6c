----------------------------- MODULE UsageService -----------------------------
(***************************************************************************)
(* One load of an account's usage (quotadeck/usage/service.py,             *)
(* UsageService) and the cache in front of it (cache.py).                  *)
(*                                                                         *)
(* A local history is read by token-stats, or by the native scanner when   *)
(* token-stats is not there, and read again by ccusage, which can only     *)
(* confirm the first reading or make it partial; ccusage alone stands in   *)
(* when there is nothing else.  The user goes on working between the two   *)
(* readings.  Cursor's source answers at once: afresh, with what it kept   *)
(* of an earlier answer after a failure, or not at all.                    *)
(***************************************************************************)
EXTENDS Integers, Sequences

CONSTANTS
    LocalKeys,    \* cache keys of Codex and Claude homes
    CursorKeys,   \* cache keys of Cursor accounts
    Days,         \* two days: the other one, and today
    Today,
    Ttl,          \* ttl_seconds, > 0
    MaxEntries,   \* max_entries
    LastTime,     \* bound on the clock
    MaxUsed       \* bound on the tokens of a day

VARIABLES
    now,
    used,         \* key -> day -> tokens really used
    kept,         \* Cursor key -> the last good answer on disk
    cache,        \* the OrderedDict: its entries, and its keys, least recently used first
    load,         \* the load under way
    result        \* what the last finished load returned

serviceVars == <<now, used, kept, cache, load, result>>

Keys == LocalKeys \union CursorKeys
None == [key |-> "none"]
Idle == [stage |-> "idle"]
Empty == [entry |-> [k \in Keys |-> None], order |-> <<>>]
Absent == -1
Nothing == [d \in Days |-> Absent]

(* A dataset: its daily totals and whether its coverage is partial; and, for *)
(* the properties, whether it is what a failed attempt fell back on, when    *)
(* its collection ended, and what an honest second reader saw.               *)
Dataset(totals, partial, failed, seen) ==
    [totals |-> totals, partial |-> partial, failed |-> failed, done |-> now,
     seen |-> seen]

(* What a reader can make of the truth: all of it, or a day wrong or left    *)
(* out.  A day without tokens has no row.                                    *)
Honest(k) == [d \in Days |-> IF used[k][d] = 0 THEN Absent ELSE used[k][d]]
Readings(k) ==
    {Honest(k)} \union
        {[Honest(k) EXCEPT ![d] = v] : d \in Days, v \in {Absent, used[k][Today] + 1}}

ServiceInit ==
    /\ now = 0
    /\ used = [k \in Keys |-> [d \in Days |-> IF d = Today THEN 0 ELSE 1]]
    /\ kept = [k \in CursorKeys |-> Nothing]
    /\ cache = Empty
    /\ load = Idle
    /\ result = None

---------------------------------------------------------------------------
(* UsageDatasetCache: every call drops what has expired; a hit moves its     *)
(* entry to the end and keeps the time it was stored.                        *)
Live ==
    [k \in Keys |-> IF cache.entry[k] # None /\ now - cache.entry[k].stored < Ttl
                    THEN cache.entry[k] ELSE None]
Others(k) == SelectSeq(cache.order, LAMBDA j : j # k /\ Live[j] # None)
Hit(k) == Live[k] # None

Purged == [entry |-> Live, order |-> SelectSeq(cache.order, Hit)]

TouchedRenewed(k) == [entry |-> [Live EXCEPT ![k].stored = now], order |-> Append(Others(k), k)]
Touched(k) == [entry |-> Live, order |-> Append(Others(k), k)]

Stored(k, data) ==
    LET line == Append(Others(k), k)
        all == [Live EXCEPT ![k] = [data |-> data, stored |-> now]]
    IN  IF Len(line) > MaxEntries
        THEN [entry |-> [all EXCEPT ![Head(line)] = None], order |-> Tail(line)]
        ELSE [entry |-> all, order |-> line]

(* validate_daily_totals compares the days both readings have.               *)
DisagreesNever(first, second) == FALSE
Disagrees(first, second) ==
    \E d \in Days : first[d] # Absent /\ second[d] # Absent /\ first[d] # second[d]

(* _finish_dataset: no tokens, no report; and a price only for a whole one.  *)
Finished(k, data, stale, cached) ==
    LET status == IF data.totals = Nothing THEN "unavailable"
                  ELSE IF data.partial THEN "partial" ELSE "ok"
    IN  [key |-> k, status |-> status, data |-> data, stale |-> stale,
         cached |-> cached, priced |-> status = "ok", at |-> now]

Return(k, data, stale) ==
    /\ result' = Finished(k, data, stale, FALSE)
    /\ load' = Idle

Failed(k, status) ==
    /\ result' = [key |-> k, status |-> status,
                  data |-> Dataset(Nothing, FALSE, FALSE, Nothing),
                  stale |-> FALSE, cached |-> FALSE, priced |-> FALSE, at |-> now]
    /\ load' = Idle

---------------------------------------------------------------------------
Begin(k) ==
    /\ load = Idle
    /\ IF Hit(k)
       THEN /\ cache' = Touched(k)
            /\ result' = Finished(k, Live[k].data, FALSE, TRUE)
            /\ UNCHANGED load
       ELSE /\ cache' = Purged
            /\ load' = [stage |-> IF k \in CursorKeys THEN "cursor" ELSE "first", key |-> k,
                        data |-> Dataset(Nothing, FALSE, FALSE, Nothing)]
            /\ UNCHANGED result
    /\ UNCHANGED <<now, used, kept>>

(* _collect_preferred: token-stats when it gives anything, else the native   *)
(* scanner, which knows when it is partial; a scanner that raises ends the   *)
(* load.                                                                     *)
FirstReading ==
    /\ load.stage = "first"
    /\ \/ \E t \in Readings(load.key) :
             /\ t # Nothing
             /\ load' = [load EXCEPT !.stage = "second", !.data = Dataset(t, FALSE, FALSE, Nothing)]
             /\ UNCHANGED result
       \/ \E t \in Readings(load.key) :
             /\ load' = [load EXCEPT
                            !.stage = IF t = Nothing THEN "fallback" ELSE "second",
                            !.data = Dataset(t, t # Honest(load.key), FALSE, Nothing)]
             /\ UNCHANGED result
       \/ Failed(load.key, "error")
    /\ UNCHANGED <<now, used, kept, cache>>

(* ccusage is not there or of no use, or its reading is compared.            *)
SecondReading ==
    /\ load.stage = "second"
    /\ LET k == load.key
           data == load.data
           Ends(d) == cache' = Stored(k, d) /\ Return(k, d, FALSE)
       IN  \/ Ends([data EXCEPT !.done = now])
           \/ \E t \in Readings(k) \ {Nothing} :
                 Ends(Dataset(data.totals, data.partial \/ Disagrees(data.totals, t), FALSE,
                              IF t = Honest(k) THEN t ELSE Nothing))
    /\ UNCHANGED <<now, used, kept>>

(* Without an observation ccusage is asked, and its answer taken as it is.   *)
Fallback ==
    /\ load.stage = "fallback"
    /\ \E t \in Readings(load.key) :
          LET d == IF t = Nothing THEN [load.data EXCEPT !.done = now]
                   ELSE Dataset(t, FALSE, FALSE, Nothing)
          IN  cache' = Stored(load.key, d) /\ Return(load.key, d, FALSE)
    /\ UNCHANGED <<now, used, kept>>

(* _load_cursor_dataset: a fresh answer is cached, one that a failed attempt *)
(* fell back on is shown as stale and not cached.                            *)
StaleCached(k) == Stored(k, Dataset(kept[k], FALSE, TRUE, Nothing))
StaleCache(k) == [entry |-> [Live EXCEPT ![k] = None], order |-> Others(k)]

CursorAnswer ==
    /\ load.stage = "cursor"
    /\ LET k == load.key
       IN  \/ \E partial \in BOOLEAN :
                 LET d == Dataset(Honest(k), partial, FALSE, Nothing)
                 IN  /\ d.totals # Nothing
                     /\ cache' = Stored(k, d)
                     /\ kept' = [kept EXCEPT ![k] = d.totals]
                     /\ Return(k, d, FALSE)
           \/ /\ kept[k] # Nothing
              /\ cache' = StaleCache(k)
              /\ Return(k, Dataset(kept[k], FALSE, TRUE, Nothing), TRUE)
              /\ UNCHANGED kept
           \/ /\ kept[k] = Nothing
              /\ \E status \in {"error", "unsupported"} : Failed(k, status)
              /\ UNCHANGED <<cache, kept>>
    /\ UNCHANGED <<now, used>>

(* The world: time passes, tokens are used; and the settings window empties  *)
(* the cache (invalidate).                                                   *)
Tick == now < LastTime /\ now' = now + 1 /\ UNCHANGED <<used, kept, cache, load, result>>

Use(k) ==
    /\ used[k][Today] < MaxUsed
    /\ used' = [used EXCEPT ![k][Today] = @ + 1]
    /\ UNCHANGED <<now, kept, cache, load, result>>

Invalidate ==
    /\ cache # Empty /\ cache' = Empty
    /\ UNCHANGED <<now, used, kept, load, result>>

ServiceNext ==
    \/ \E k \in Keys : Begin(k) \/ Use(k)
    \/ FirstReading \/ SecondReading \/ Fallback \/ CursorAnswer
    \/ Tick \/ Invalidate

ServiceSpec == ServiceInit /\ [][ServiceNext]_serviceVars

---------------------------------------------------------------------------
(* Usage that a failed attempt fell back on is always shown as stale: no     *)
(* later load returns it unmarked (_load_cursor_dataset: "A live failure ... *)
(* must not leave an earlier fresh in-memory dataset able to hide the        *)
(* persisted stale state").  And what is not stale is never older than Ttl   *)
(* when the load returns it, however often it was asked for meanwhile.       *)
UnmarkedIsRecent ==
    result # None =>
        /\ result.data.failed => result.stale
        /\ result.cached => result.at - result.data.done < Ttl

(* A total that is priced agrees, on every day it has, with an honest second *)
(* reading, if there was one: readings are not blended, and a doubtful one   *)
(* costs nothing (validate_or_explain, mark_dataset_partial,                 *)
(* estimate_report_cost).                                                    *)
PricedIsConfirmed ==
    result # None /\ result.priced =>
        \A d \in Days :
            result.data.totals[d] = Absent \/ result.data.seen[d] = Absent
                \/ result.data.totals[d] = result.data.seen[d]

=============================================================================
