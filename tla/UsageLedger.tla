---------------------------- MODULE UsageLedger -----------------------------
(***************************************************************************)
(* The ledger of `quotadeck usage-engine` and of the snapshots: the records *)
(* usage/engine.py makes of the datasets (_dataset_records), their prices   *)
(* (usage/pricing.py) and the totals by account, provider and over all      *)
(* (usage/normalized.py, _scope_total).                                     *)
(*                                                                         *)
(* The ledger has no state of its own.  The actions are what the datasets   *)
(* gain: an observation, a read error, a session of Grok.  A scope is the   *)
(* set of the records in it; no total depends on their order.               *)
(*                                                                         *)
(* Money is counted in the unit of the rates; a token costs its rate.       *)
(***************************************************************************)
EXTENDS Integers, Sequences, FiniteSets, Functions

CONSTANTS Accounts,     \* of the providers whose datasets are events
          Cursor,       \* those of them that are Cursor accounts
          ProviderOf(_),
          GrokAccounts,
          Models,
          Rates,        \* model -> [in, read, write, short, long, out]; NoRate: none
          Mixes,        \* the token counts an observation may have
          Reported,     \* what a Cursor export may say that a row cost
          Won,          \* the exchange rate, or Unknown
          MaxRecords    \* bound: observations and sessions

VARIABLES observed,     \* observations and sessions
          damaged       \* accounts whose coverage is partial

ledgerVars == <<observed, damaged>>

Unknown == -1
NoRate == -1

Known == Nat \union {Unknown}
Tokens == {t \in [{"in", "mixed", "read", "write", "short", "long", "out"} -> Nat] :
             t["short"] + t["long"] <= t["write"]}

LedgerAssumption ==
    /\ Accounts \intersect GrokAccounts = {}
    /\ \A a \in Accounts : ProviderOf(a) # "grok"
    /\ IsFiniteSet(Models)
    /\ \A m \in DOMAIN Rates :
          Rates[m] \in [{"in", "read", "write", "short", "long", "out"} -> Known]
    /\ Mixes \subseteq Tokens
    /\ Reported \subseteq Known
    /\ Won \in Known

-----------------------------------------------------------------------------
(* A price: usage/pricing.py, _price_catalog_tokens *)

(* A rate of zero counts as missing where another one can stand in. *)
Or(rate, other) == IF rate \in {NoRate, 0} THEN other ELSE rate

(* What is charged: the cache writes without a known lifetime at their rate. *)
Charges == {"in", "out", "read", "short", "long", "write"}
Charged(t, c) == IF c = "write" THEN t["write"] - t["short"] - t["long"] ELSE t[c]
RateOf(m, c) == IF c \in {"short", "long"} THEN Or(Rates[m][c], Rates[m]["write"]) ELSE Rates[m][c]

(* The mistake of leaving out what has no rate. *)
PriceWhatIsKnown(m, t) ==
    IF m \notin DOMAIN Rates THEN Unknown
    ELSE SumFunctionOnSet([c \in Charges |-> IF RateOf(m, c) = NoRate THEN 0
                                             ELSE Charged(t, c) * RateOf(m, c)], Charges)

(* All or nothing. *)
Price(m, t) ==
    IF \/ m \notin DOMAIN Rates
       \/ t["mixed"] > 0
       \/ \E c \in Charges : Charged(t, c) > 0 /\ RateOf(m, c) = NoRate
    THEN Unknown
    ELSE SumFunctionOnSet([c \in Charges |-> Charged(t, c) * RateOf(m, c)], Charges)

InWon(usd) == IF usd = Unknown \/ Won = Unknown THEN Unknown ELSE usd * Won

-----------------------------------------------------------------------------
(* Records: usage/engine.py *)

Total(t) == t["in"] + t["mixed"] + t["read"] + t["write"] + t["out"]

(* Fields that may be unknown. *)
Fields == {"tokens", "reasoning", "reported", "api", "won"}

(* The reasoning tokens of Cursor are unknown; only Cursor reports costs. *)
EventRecord(o) ==
    LET a == o.account
    IN [provider |-> ProviderOf(a), account |-> a, session |-> FALSE,
        tokens |-> Total(o.tokens), reasoning |-> IF a \in Cursor THEN Unknown ELSE 0,
        reported |-> IF a \in Cursor THEN o.reported ELSE Unknown,
        api |-> Price(o.model, o.tokens), won |-> InWon(Price(o.model, o.tokens)),
        confidence |-> IF a \in damaged THEN "partial" ELSE "exact"]
SessionRecord(s) ==
    [provider |-> "grok", account |-> s.account, session |-> TRUE,
     tokens |-> s.tokens, reasoning |-> s.tokens,
     reported |-> s.reported, api |-> s.reported, won |-> InWon(s.reported),
     confidence |-> "partial"]

Record(o) == IF o.account \in GrokAccounts THEN SessionRecord(o) ELSE EventRecord(o)

Rows == DOMAIN observed
Records == [i \in Rows |-> Record(observed[i])]

-----------------------------------------------------------------------------
(* Totals: usage/normalized.py *)

Sum(rows, f) == SumFunctionOnSet([i \in Rows |-> Records[i][f]], rows)

(* All or unknown. *)
SumKnown(rows, f) ==
    IF rows = {} \/ \E i \in rows : Records[i][f] = Unknown THEN Unknown ELSE Sum(rows, f)

Costs == {"reported", "api", "won"}
Confidence(rows) ==
    IF rows = {} THEN "unsupported"
    ELSE IF \A i \in rows : Records[i].confidence = "exact" THEN "exact" ELSE "partial"

Rollup(rows) == [values |-> [f \in Fields |-> SumKnown(rows, f)], confidence |-> Confidence(rows)]

(* Sessions may overlap: their costs do not add up. *)
Aggregate(rows) ==
    [values |-> [f \in Fields |-> IF f \in Costs THEN Unknown ELSE SumKnown(rows, f)],
     confidence |-> IF rows = {} THEN "unsupported" ELSE "partial"]
Combine(e, s) ==
    [values |-> [f \in Fields |->
                   IF f \in Costs \/ Unknown \in {e.values[f], s.values[f]} THEN Unknown
                   ELSE e.values[f] + s.values[f]],
     confidence |-> "partial"]

(* _scope_total *)
Sessions(rows) == {i \in rows : Records[i].session}
ScopeTotal(rows) ==
    LET s == Sessions(rows)
        e == rows \ s
    IN IF s = {} THEN Rollup(e)
       ELSE IF e = {} THEN Aggregate(s)
       ELSE Combine(Rollup(e), Aggregate(s))

InProvider(p) == {i \in Rows : Records[i].provider = p}
InAccount(a) == {i \in Rows : Records[i].account = a}
ProvidersSeen == {Records[i].provider : i \in Rows}
AccountsSeen == {Records[i].account : i \in Rows}

-----------------------------------------------------------------------------
(* What the datasets gain *)

LedgerInit ==
    /\ observed = <<>>
    /\ damaged = {}

Room == Len(observed) < MaxRecords

Observe(a, m, t, cost) ==
    /\ Room
    /\ a \notin Cursor => cost = Unknown
    /\ observed' = Append(observed, [account |-> a, model |-> m, tokens |-> t, reported |-> cost])
    /\ UNCHANGED damaged

ReadError(a) ==
    /\ damaged' = damaged \union {a}
    /\ UNCHANGED observed

(* A session of Grok, whose command may not have said what it used. *)
DiscoverSession(a, tokens, cost) ==
    /\ Room
    /\ observed' = Append(observed, [account |-> a, tokens |-> tokens, reported |-> cost])
    /\ UNCHANGED damaged

LedgerNext ==
    \/ \E a \in Accounts, m \in Models, t \in Mixes, cost \in Reported : Observe(a, m, t, cost)
    \/ \E a \in Accounts : ReadError(a)
    \/ \E a \in GrokAccounts, tokens, cost \in {1, Unknown} : DiscoverSession(a, tokens, cost)

LedgerSpec == LedgerInit /\ [][LedgerNext]_ledgerVars

-----------------------------------------------------------------------------
(* Properties *)

Global == ScopeTotal(Rows)

(* The totals by account, by provider and over all agree: a known field of a *)
(* larger scope is the sum over the smaller scopes, and one that is unknown  *)
(* in a smaller scope is unknown in the larger; nothing that is partial      *)
(* becomes exact by being added up.                                          *)
Agree(parts) ==
    /\ \A f \in Fields :
        IF \E x \in DOMAIN parts : parts[x].values[f] = Unknown THEN Global.values[f] = Unknown
        ELSE Global.values[f] \in
               {Unknown, SumFunctionOnSet([x \in DOMAIN parts |-> parts[x].values[f]], DOMAIN parts)}
    /\ Global.confidence = "exact" => \A x \in DOMAIN parts : parts[x].confidence = "exact"
TotalsAgree ==
    observed # <<>> =>
        /\ Agree([a \in AccountsSeen |-> ScopeTotal(InAccount(a))])
        /\ Agree([p \in ProvidersSeen |-> ScopeTotal(InProvider(p))])
        /\ Global.confidence = "exact" => damaged \intersect AccountsSeen = {}

(* The tokens of one model in all datasets of a provider. *)
OfModel(p, m) == {i \in InProvider(p) : observed[i].model = m}
ModelTokens(p, m) ==
    [k \in {"in", "mixed", "read", "write", "short", "long", "out"} |->
        SumFunctionOnSet([i \in InProvider(p) |-> observed[i].tokens[k]], OfModel(p, m))]

(* A price that is shown covers everything: it is the same as the price of   *)
(* the models' totals (the way the snapshots compute it), whatever the       *)
(* observations were cut into, and no token of it goes without its rate.     *)
PriceIsWhole ==
    \A p \in {ProviderOf(a) : a \in Accounts} :
        LET seen == {m \in Models : OfModel(p, m) # {}}
            price == [m \in seen |-> Price(m, ModelTokens(p, m))]
            total == ScopeTotal(InProvider(p)).values["api"]
        IN seen # {} =>
            /\ total = Unknown <=> \E m \in seen : price[m] = Unknown
            /\ total # Unknown =>
                /\ total = SumFunctionOnSet(price, seen)
                /\ \A m \in seen : LET t == ModelTokens(p, m)
                                   IN t["mixed"] = 0 /\ m \in DOMAIN Rates
                                      /\ (t["read"] > 0 => Rates[m]["read"] # NoRate)

=============================================================================
