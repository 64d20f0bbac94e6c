------------------------------ MODULE GrokScan ------------------------------
(***************************************************************************)
(* The scan of the Grok sessions and the cache of its results on disk:     *)
(* usage/grok.py, scan_grok_session_usage.                                 *)
(*                                                                         *)
(* Two processes scan, the window's and a command line's; they share the   *)
(* cache.  The Grok client (external) meanwhile adds sessions and turns    *)
(* and rewrites usage.json.  A scan takes the modification state of every  *)
(* usage.json first and asks the command or the cache later.               *)
(*                                                                         *)
(* Tokens are counted in turns: every turn costs one.                      *)
(***************************************************************************)
EXTENDS Integers, FiniteSets

CONSTANTS Dirs,         \* directories with a summary.json: numbers, walked in this order
          IdOf(_),      \* the session id a directory is named after
          Invalid,      \* ids that could be taken for an option
          Declaring,    \* directories whose sessions declare their number of turns
          Scanners,
          MaxSessions,
          MaxDirs,      \* bound: directories that are there
          MaxTurns,     \* bound: turns in one session
          MaxScans      \* bound: scans, of all processes

GrokAssumption ==
    /\ Dirs \subseteq Nat /\ IsFiniteSet(Dirs)
    /\ MaxSessions \in Nat \ {0}

VARIABLES dir,          \* directory -> what the client stores: NoSession or a payload
          print,        \* directory -> the modification state of usage.json; 0: there is none
          cache,        \* id -> NoEntry or [print, payload]
          scans,        \* how many scans were begun
          pc, todo, noted, asked, found, issues,  \* per process: the scan it runs
          report        \* per process: the last scan that was finished

(* History, for the properties only: per process, what the client had stored *)
(* when the sessions were discovered.                                        *)
VARIABLE before

scan == <<pc, todo, noted, asked, found, issues, scans, report, before>>
vars == <<dir, print, cache, scan>>

NoSession == [total |-> -1, rows |-> 0, bad |-> 0, declared |-> FALSE, count |-> 0]
NoEntry == [print |-> -1, payload |-> NoSession]
NoReport == [found |-> {}, issues |-> {}, before |-> [d \in Dirs |-> NoSession]]
Ids == {IdOf(d) : d \in Dirs}

-----------------------------------------------------------------------------
(* A payload and what is made of it *)

(* turns_complete: no row was dropped, the rows add up to the session, and   *)
(* the number of turns is the one the session declares, if it does.          *)
Parsed(id, p) ==
    [id |-> id, total |-> p.total, rows |-> p.rows, count |-> IF p.declared THEN p.count ELSE 0,
     complete |-> p.bad = 0 /\ p.rows = p.total /\ (p.declared => p.count = p.rows)]

(* What the cache keeps of it: the rows that were valid, and turnCount always. *)
CachePayload(s) ==
    [total |-> s.total, rows |-> s.rows, bad |-> 0, declared |-> TRUE, count |-> s.count]

Confidence(s) == IF s.complete THEN "exact" ELSE "partial"

-----------------------------------------------------------------------------
(* Discovery *)

Present == {d \in Dirs : dir[d] # NoSession}
Upto(ds, d) == {e \in ds : e <= d}

(* The directories whose id no other has; the others are ambiguous. *)
Unique(ds) == {d \in ds : \A e \in ds : IdOf(e) = IdOf(d) => e = d}

(* The directories that are walked: up to the first that makes them too many. *)
Walked ==
    LET valid == {d \in Present : IdOf(d) \notin Invalid}
    IN {d \in Present : \A e \in Dirs : e < d => Cardinality(Unique(Upto(valid, e))) <= MaxSessions}
WalkedValid == {d \in Walked : IdOf(d) \notin Invalid}

(* The first of the unique ones, as far as the limit goes.  Ids are compared *)
(* like the directories that have them.                                      *)
Discovered ==
    {d \in Unique(WalkedValid) : Cardinality({e \in Unique(WalkedValid) : e < d}) < MaxSessions}

DiscoveryIssues ==
    (IF Cardinality(Unique(WalkedValid)) > MaxSessions THEN {"session_limit_reached"} ELSE {})
    \union (IF \E d \in Walked : IdOf(d) \in Invalid THEN {"invalid_session_id"} ELSE {})
    \union (IF Unique(WalkedValid) # WalkedValid THEN {"ambiguous_session_id"} ELSE {})

(* Every issue but the session limit is a read error or a malformed event;   *)
(* the limit is scan_truncated.  per_model_unavailable makes nothing partial. *)
IsPartial(r) == r.issues # {}

-----------------------------------------------------------------------------
(* The client *)

Init ==
    /\ dir = [d \in Dirs |-> NoSession]
    /\ print = [d \in Dirs |-> 0]
    /\ cache = [i \in Ids |-> NoEntry]
    /\ pc = [c \in Scanners |-> "idle"]
    /\ todo = [c \in Scanners |-> {}]
    /\ noted = [c \in Scanners |-> [d \in Dirs |-> 0]]
    /\ asked = [c \in Scanners |-> NoSession]
    /\ found = [c \in Scanners |-> {}]
    /\ issues = [c \in Scanners |-> {}]
    /\ scans = 0
    /\ report = [c \in Scanners |-> NoReport]
    /\ before = [c \in Scanners |-> NoReport.before]

(* Bound: the client stops when no scan is left to see it. *)
Watched == scans < MaxScans \/ \E c \in Scanners : pc[c] # "idle"

(* A session has no usage.json before its first turn. *)
Create(d) ==
    /\ Watched
    /\ dir[d] = NoSession
    /\ Cardinality(Present) < MaxDirs
    /\ dir' = [dir EXCEPT ![d] = [total |-> 0, rows |-> 0, bad |-> 0, declared |-> d \in Declaring, count |-> 0]]
    /\ UNCHANGED <<print, cache, scan>>

Turn(d) ==
    /\ Watched
    /\ dir[d] # NoSession
    /\ dir[d].total < MaxTurns
    /\ dir' = [dir EXCEPT ![d].total = @ + 1, ![d].rows = @ + 1, ![d].count = @ + 1]
    /\ print' = [print EXCEPT ![d] = @ + 1]
    /\ UNCHANGED <<cache, scan>>

(* A row that cannot be read, next to the others; in one session at most. *)
MalformedRow(d) ==
    /\ Watched
    /\ dir[d] # NoSession
    /\ \A e \in Dirs : dir[e].bad = 0
    /\ dir' = [dir EXCEPT ![d].bad = 1]
    /\ print' = [print EXCEPT ![d] = @ + 1]
    /\ UNCHANGED <<cache, scan>>

-----------------------------------------------------------------------------
(* A scan *)

(* The modification states are noted.  Without the command no session is read, *)
(* not even from the cache.                                                    *)
Discover(c, installed) ==
    /\ pc[c] = "idle"
    /\ scans < MaxScans
    /\ scans' = scans + 1
    /\ todo' = [todo EXCEPT ![c] = IF installed THEN Discovered ELSE {}]
    /\ noted' = [noted EXCEPT ![c] = print]
    /\ found' = [found EXCEPT ![c] = {}]
    /\ issues' = [issues EXCEPT ![c] = DiscoveryIssues
                    \union (IF installed \/ Discovered = {} THEN {} ELSE {"command_not_found"})]
    /\ before' = [before EXCEPT ![c] = dir]
    /\ pc' = [pc EXCEPT ![c] = "next"]
    /\ UNCHANGED <<dir, print, cache, asked, report>>

(* The session whose turn it is. *)
Item(c) == CHOOSE d \in todo[c] : \A e \in todo[c] : d <= e
Entry(c) == cache[IdOf(Item(c))]

(* The mistake of asking only whether there is an entry. *)
HitAnyPrint(c) == Entry(c) # NoEntry

Hit(c) == Entry(c).print = noted[c][Item(c)]

Take(c, s) ==
    /\ found' = [found EXCEPT ![c] = @ \union {s}]
    /\ issues' = [issues EXCEPT ![c] = IF s.complete THEN @ ELSE @ \union {"partial_turn_rows"}]
    /\ todo' = [todo EXCEPT ![c] = @ \ {Item(c)}]

FromCache(c) ==
    /\ pc[c] = "next"
    /\ todo[c] # {}
    /\ Hit(c)
    /\ Take(c, Parsed(IdOf(Item(c)), Entry(c).payload))
    /\ UNCHANGED <<dir, print, cache, pc, noted, asked, scans, report, before>>

(* `grok usage <id>` answers with what is stored now, in one of the          *)
(* directories if there are several by now.                                  *)
Ask(c) ==
    /\ pc[c] = "next"
    /\ todo[c] # {}
    /\ ~Hit(c)
    /\ \E d \in Present : IdOf(d) = IdOf(Item(c)) /\ asked' = [asked EXCEPT ![c] = dir[d]]
    /\ pc' = [pc EXCEPT ![c] = "answered"]
    /\ UNCHANGED <<dir, print, cache, todo, noted, found, issues, scans, report, before>>

(* It fails, takes too long, says too much or cannot be read. *)
AskFails(c) ==
    /\ pc[c] = "next"
    /\ todo[c] # {}
    /\ ~Hit(c)
    /\ issues' = [issues EXCEPT ![c] = @ \union {"command_failed"}]
    /\ todo' = [todo EXCEPT ![c] = @ \ {Item(c)}]
    /\ UNCHANGED <<dir, print, cache, pc, noted, asked, found, scans, report, before>>

(* The mistake of looking at usage.json again, after the answer. *)
StoredLate(c, s) == [print |-> print[Item(c)], payload |-> CachePayload(s)]

(* The answer is stored with the modification state of the discovery; a file *)
(* that cannot be written is left alone.                                     *)
Stored(c, s) == [print |-> noted[c][Item(c)], payload |-> CachePayload(s)]

Answered(c, written) ==
    LET s == Parsed(IdOf(Item(c)), asked[c])
    IN /\ pc[c] = "answered"
       /\ cache' = IF written THEN [cache EXCEPT ![s.id] = Stored(c, s)] ELSE cache
       /\ Take(c, s)
       /\ pc' = [pc EXCEPT ![c] = "next"]
       /\ asked' = [asked EXCEPT ![c] = NoSession]
       /\ UNCHANGED <<dir, print, noted, scans, report, before>>

Finish(c) ==
    /\ pc[c] = "next"
    /\ todo[c] = {}
    /\ report' = [report EXCEPT ![c] = [found |-> found[c], issues |-> issues[c], before |-> before[c]]]
    /\ pc' = [pc EXCEPT ![c] = "idle"]
    /\ UNCHANGED <<dir, print, cache, todo, noted, asked, found, issues, scans, before>>

Next ==
    \/ \E d \in Dirs : Turn(d) \/ MalformedRow(d) \/ Create(d)
    \/ \E c \in Scanners :
        \/ \E installed \in BOOLEAN : Discover(c, installed)
        \/ FromCache(c) \/ Ask(c) \/ AskFails(c) \/ Finish(c)
        \/ \E written \in BOOLEAN : Answered(c, written)

Spec == Init /\ [][Next]_vars

-----------------------------------------------------------------------------
(* Properties *)

(* A finished scan that is not marked as partial has every session that was  *)
(* there when it began, once, and none of them staler than it was then: not  *)
(* from the cache, not with another scan or the client in between.  (A       *)
(* directory that is copied during the scan leaves open which of the two the *)
(* command answers for.)                                                     *)
GrokInventoryHonest ==
    \A c \in Scanners :
        LET r == report[c]
            there == {d \in Dirs : r.before[d] # NoSession}
        IN /\ \A s \in r.found : \A d \in there \intersect Unique(Present) :
                s.id = IdOf(d) => s.total >= r.before[d].total
           /\ IsPartial(r) \/ /\ there = Unique(there)
                              /\ {s.id : s \in r.found} = {IdOf(d) : d \in there}
                              /\ \A s, t \in r.found : s.id = t.id => s = t

(* A session with a turn row that cannot be read is never exact              *)
(* (tests/test_usage_grok.py:193, "malformed turn is partial").              *)
MalformedTurnIsPartial ==
    \A c \in Scanners : \A s \in report[c].found : \A d \in Dirs :
        IdOf(d) = s.id /\ report[c].before[d].bad > 0 => Confidence(s) = "partial"

=============================================================================
