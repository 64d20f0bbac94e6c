----------------------------- MODULE CursorAdmin -----------------------------
(***************************************************************************)
(* The Cursor Admin API source: usage/cursor_admin.py, the connecting and  *)
(* disconnecting in usage/cursor_import.py and app/main_window.py.         *)
(*                                                                         *)
(* Three threads of the window's process and any number of command lines   *)
(* work on the same files: one gate file for all accounts, one cache file  *)
(* for each, and the key in the credential store.  The window's poll and   *)
(* the command line (usage-engine) sync when the gate of the account is    *)
(* open; the worker that connects an account is forced.  The user may      *)
(* disconnect an account, or bind an imported CSV, while the window is not *)
(* busy; a poll may begin behind the dialogs of an import and of a connect *)
(* (GuiWorkers).                                                           *)
(*                                                                         *)
(* Windows keeps two openers of a file from renaming it under each other;  *)
(* it does not keep them from writing to it.                               *)
(***************************************************************************)
EXTENDS Integers, FiniteSets

CONSTANTS Accounts,
          Poll, Connect, Ui,    \* the threads of the window's process
          Clis,                 \* the processes of the command line
          Free,                 \* nobody
          Interval,             \* ADMIN_SYNC_INTERVAL_SECONDS
          MaxTime,              \* bound: the clock stops here
          MaxSyncs              \* bound: so many syncs begin

Window == {Poll, Connect, Ui}
Automatic == {Poll} \union Clis
Syncers == Automatic \union {Connect}
Procs == Window \union Clis

ASSUME ConstantsAssumption ==
    /\ Cardinality(Window) = 3 /\ Window \intersect Clis = {}
    /\ Free \notin Procs \union Accounts
    /\ Interval \in Nat \ {0}
    /\ MaxTime \in Nat
    /\ MaxSyncs \in Nat

VARIABLES now,
          binding,      \* cursor_bindings of the configuration
          key,          \* the credential store has a key
          gate,         \* the gate file
          gateLock,     \* who holds lock_admin_gate_file
          accountLock,  \* who holds lock_admin_account, of each account
          cache,        \* the cache file of each account
          tmp,          \* its .tmp, and who has it open for writing
          pc,           \* where each thread is
          job           \* its local variables

(* History, for the properties only. *)
VARIABLES syncs,        \* how many have begun, for MaxSyncs
          last,         \* the latest automatic reservation that the gate must know
          blind         \* accounts whose syncs may not know what the cache has

files   == <<gate, gateLock, accountLock, cache, tmp>>
history == <<syncs, last, blind>>
vars    == <<now, binding, key, files, pc, job, history>>

NoTime == -1
NoEntry == [attempt |-> NoTime, success |-> NoTime]
NoTmp == [content |-> "absent", openers |-> {}]
NoJob == [account |-> Free, at |-> NoTime, cached |-> "none", ready |-> FALSE,
          answer |-> "none", success |-> FALSE, seen |-> <<>>]

(* from the read of the cache to the last write of the gate *)
InFlight == {"begun", "account", "gate", "fetch", "open", "write", "replace", "mark", "marking"}

(* what is in a cache file: no file, no observations, some, no valid JSON *)
Contents == {"none", "empty", "data", "garbled"}

Init ==
    /\ now = 0
    /\ binding = [a \in Accounts |-> "none"]
    /\ key = FALSE
    /\ gate = [a \in Accounts |-> NoEntry]
    /\ gateLock = Free
    /\ accountLock = [a \in Accounts |-> Free]
    /\ cache = [a \in Accounts |-> "none"]
    /\ tmp = [a \in Accounts |-> NoTmp]
    /\ pc = [p \in Procs |-> "idle"]
    /\ job = [p \in Procs |-> NoJob]
    /\ syncs = 0
    /\ last = [a \in Accounts |-> NoTime]
    /\ blind = {}

Account(p) == job[p].account

Idle(P) == \A p \in P : pc[p] = "idle"

Goto(p, place) == pc' = [pc EXCEPT ![p] = place]

Return(p) ==
    /\ Goto(p, "idle")
    /\ job' = [job EXCEPT ![p] = NoJob]

Others(p) == {q \in Syncers \ {p} : pc[q] \in InFlight /\ Account(q) = Account(p)}

(* p has written to the gate; an entry that goes back makes it forget *)
Remember(p) ==
    last' = [a \in Accounts |->
               IF gate'[a].attempt < gate[a].attempt THEN NoTime
               ELSE IF p \in Automatic /\ pc[p] = "gate" /\ a = Account(p)
               THEN gate'[a].attempt
               ELSE last[a]]

-----------------------------------------------------------------------------
(* collect_cursor_admin: before the gate                                   *)

(* The settings are read some time before the collector runs. *)
Load(p, a) ==
    /\ pc[p] = "idle"
    /\ p \in Window => pc[Ui] = "idle"
    /\ p \in Automatic => binding[a] = "admin"
    /\ p = Poll => pc[Connect] = "idle"
    /\ syncs < MaxSyncs /\ syncs' = syncs + 1
    /\ Goto(p, "loaded")
    /\ job' = [job EXCEPT ![p].account = a]
    /\ UNCHANGED <<now, binding, key, files, last, blind>>

(* A cache that cannot be read, or understood, counts as none. *)
Read(a) == {"none"} \union ({cache[a]} \ {"garbled"})

(* the cache, the clock and the key are read once *)
Begin(p) ==
    /\ pc[p] = "loaded"
    /\ \E cached \in Read(Account(p)) :
          /\ job' = [job EXCEPT ![p].at = now, ![p].cached = cached,
                                ![p].ready = p = Connect \/ key]
          /\ blind' = IF cached = cache[Account(p)] /\ Others(p) = {}
                      THEN blind \ {Account(p)} ELSE blind \union {Account(p)}
    /\ Goto(p, "begun")
    /\ UNCHANGED <<now, binding, key, files, syncs, last>>

-----------------------------------------------------------------------------
(* The two locks                                                           *)

(* Faulty variants, here and below: each is a bug the code might have had,  *)
(* and some property of this module finds it.                              *)
LockAccountBusy(p) ==
    /\ pc[p] = "begun"
    /\ accountLock' = [accountLock EXCEPT ![Account(p)] = p]
    /\ Goto(p, "account")
    /\ UNCHANGED <<now, binding, key, gate, gateLock, cache, tmp, job, history>>

LockAccount(p) ==
    /\ pc[p] = "begun"
    /\ accountLock[Account(p)] = Free
    /\ accountLock' = [accountLock EXCEPT ![Account(p)] = p]
    /\ Goto(p, "account")
    /\ UNCHANGED <<now, binding, key, gate, gateLock, cache, tmp, job, history>>

MayLockGateAlways == TRUE

MayLockGate == gateLock = Free

(* A gate file that cannot be read counts as an empty one (_read_json). *)
Unreadable == [a \in Accounts |-> NoEntry]

(* lock_admin_gate_file, and the read of the file below it *)
LockGate(p) ==
    /\ MayLockGate
    /\ \/ pc[p] = "account" /\ Goto(p, "gate")
       \/ pc[p] = "mark" /\ Goto(p, "marking")
    /\ gateLock' = p
    /\ \E seen \in {gate, Unreadable} : job' = [job EXCEPT ![p].seen = seen]
    /\ UNCHANGED <<now, binding, key, gate, accountLock, cache, tmp, history>>

UnlockAccount(p) ==
    accountLock' = [a \in Accounts |-> IF accountLock[a] = p THEN Free ELSE accountLock[a]]

UnlockGate(p) == gateLock' = IF gateLock = p THEN Free ELSE gateLock

(* busy until the deadline, or the lock file cannot be opened *)
LockFails(p) ==
    /\ pc[p] \in {"begun", "account"}
    /\ UnlockAccount(p)
    /\ Return(p)
    /\ UNCHANGED <<now, binding, key, gate, gateLock, cache, tmp, history>>

-----------------------------------------------------------------------------
(* reserve_admin_sync, below both locks                                    *)

(* only successful syncs count *)
OpenAfterFailure(at, entry) == entry.success = NoTime \/ at - entry.success >= Interval

(* admin_sync_is_allowed *)
Open(at, entry) == entry.attempt = NoTime \/ at - entry.attempt >= Interval

MayReserve(p) ==
    /\ p = Connect \/ Open(job[p].at, job[p].seen[Account(p)])
    /\ job[p].ready

Unlock(p) == UnlockAccount(p) /\ UnlockGate(p)

(* not allowed or not ready, or the gate file cannot be written: the cache is shown *)
Refuse(p) ==
    /\ p \in Syncers /\ pc[p] = "gate"
    /\ Unlock(p)
    /\ Return(p)
    /\ UNCHANGED <<now, binding, key, gate, cache, tmp, history>>

(* _write_admin_sync_attempt writes what was read, but for one entry *)
WriteGate(p, entry) ==
    /\ gate' = [job[p].seen EXCEPT ![Account(p)] = entry]
    /\ Remember(p)

Reserve(p) ==
    /\ p \in Syncers /\ pc[p] = "gate"
    /\ MayReserve(p)
    /\ WriteGate(p, [job[p].seen[Account(p)] EXCEPT !.attempt = job[p].at])
    /\ Unlock(p)
    /\ Goto(p, "fetch")
    /\ job' = [job EXCEPT ![p].seen = <<>>, ![p].ready = FALSE]
    /\ UNCHANGED <<now, binding, key, cache, tmp, syncs, blind>>

-----------------------------------------------------------------------------
(* collect_cursor_admin: after the gate                                    *)

(* refused, incomplete, or no answer *)
FetchFails(p) ==
    /\ pc[p] = "fetch"
    /\ Goto(p, "mark")
    /\ job' = [job EXCEPT ![p].cached = "none"]
    /\ UNCHANGED <<now, binding, key, files, history>>

OverwritesAlways(p, answer) == TRUE

(* an empty answer does not replace observations *)
Overwrites(p, answer) == answer = "data" \/ job[p].cached # "data"

FetchAnswers(p, answer) ==
    /\ pc[p] = "fetch"
    /\ Goto(p, IF Overwrites(p, answer) THEN "open" ELSE "mark")
    /\ job' = [job EXCEPT ![p].answer = answer, ![p].cached = "none"]
    /\ UNCHANGED <<now, binding, key, files, history>>

(* _write_json of the cache: nothing is locked *)
OpenTmp(p) ==
    /\ pc[p] = "open"
    /\ tmp' = [tmp EXCEPT ![Account(p)] = [content |-> "blank", openers |-> @.openers \union {p}]]
    /\ Goto(p, "write")
    /\ UNCHANGED <<now, binding, key, gate, gateLock, accountLock, cache, job, history>>

(* Over what another has written since, the longer text shows behind the     *)
(* shorter one; a disk that is full leaves half of it.                       *)
WriteTmp(p) ==
    /\ pc[p] = "write"
    /\ \E content \in {job[p].answer, "garbled"}, place \in {"replace", "mark"} :
          /\ content = "garbled" =>
                tmp[Account(p)].content # "blank" \/ place = "mark"
          /\ tmp' = [tmp EXCEPT ![Account(p)] =
                        [content |-> content, openers |-> @.openers \ {p}]]
          /\ Goto(p, place)
    /\ UNCHANGED <<now, binding, key, gate, gateLock, accountLock, cache, job, history>>

ReplaceTmp(p) ==
    /\ pc[p] = "replace"
    /\ tmp[Account(p)].content # "absent"
    /\ tmp[Account(p)].openers = {}
    /\ cache' = [cache EXCEPT ![Account(p)] =
                   IF tmp[Account(p)].content = "blank" THEN "garbled"
                   ELSE tmp[Account(p)].content]
    /\ tmp' = [tmp EXCEPT ![Account(p)] = NoTmp]
    /\ Goto(p, "mark")
    /\ job' = [job EXCEPT ![p].success = job[p].answer = "data"]
    /\ UNCHANGED <<now, binding, key, gate, gateLock, accountLock, history>>

(* the cache cannot be saved: the live data is shown *)
SaveFails(p) ==
    /\ pc[p] \in {"open", "replace"}
    /\ Goto(p, "mark")
    /\ UNCHANGED <<now, binding, key, files, job, history>>

(* the worker that connects goes on with a key that is good *)
Leave(p) ==
    IF p = Connect /\ job[p].answer # "none"
    THEN /\ Goto(p, "store")
         /\ job' = [job EXCEPT ![p] = [NoJob EXCEPT !.account = Account(p)]]
    ELSE Return(p)

(* mark_admin_sync_attempt, with the time of the reservation *)
Mark(p) ==
    /\ pc[p] = "marking"
    /\ WriteGate(p, [attempt |-> job[p].at,
                     success |-> IF job[p].success THEN job[p].at
                                 ELSE job[p].seen[Account(p)].success])
    /\ UnlockGate(p)
    /\ Leave(p)
    /\ UNCHANGED <<now, binding, key, accountLock, cache, tmp, syncs, blind>>

(* the lock is busy, or the gate file cannot be written *)
MarkFails(p) ==
    /\ pc[p] \in {"mark", "marking"}
    /\ UnlockGate(p)
    /\ Leave(p)
    /\ UNCHANGED <<now, binding, key, gate, accountLock, cache, tmp, history>>

-----------------------------------------------------------------------------
(* Connecting                                                              *)

(* persist_admin_key_after_live_validation *)
StoreKey ==
    /\ pc[Connect] = "store"
    /\ \/ key' = TRUE /\ Goto(Connect, "bind") /\ UNCHANGED job
       \/ Return(Connect) /\ UNCHANGED key
    /\ UNCHANGED <<now, binding, files, history>>

(* _on_cursor_admin_validated, in the window's thread *)
Bind ==
    /\ pc[Connect] = "bind" /\ pc[Ui] = "idle"
    /\ binding' = [binding EXCEPT ![Account(Connect)] = "admin"]
    /\ Return(Connect)
    /\ UNCHANGED <<now, key, files, history>>

-----------------------------------------------------------------------------
(* The user                                                                *)

AdminIn(bindings) == \E a \in Accounts : bindings[a] = "admin"

(* import_cursor_csv with the release of a key that is not used any more *)
ImportCsvKeepsKey(a) ==
    /\ pc[Ui] = "idle" /\ pc[Connect] = "idle"
    /\ binding' = [binding EXCEPT ![a] = "csv"]
    /\ UNCHANGED <<now, key, files, pc, job, history>>

ImportCsv(a) ==
    /\ pc[Ui] = "idle" /\ pc[Connect] = "idle"
    /\ binding' = [binding EXCEPT ![a] = "csv"]
    /\ key' = (key /\ AdminIn(binding'))
    /\ UNCHANGED <<now, files, pc, job, history>>

(* disconnect_cursor_account of an account that is not bound to the API now *)
DisconnectCsv(a) ==
    /\ Idle(Window)
    /\ binding[a] = "csv"
    /\ binding' = [binding EXCEPT ![a] = "none"]
    /\ UNCHANGED <<now, key, files, pc, job, history>>

(* of one that is: the cache goes first, if it can be removed *)
Disconnect(a) ==
    /\ Idle(Window)
    /\ binding[a] = "admin"
    /\ cache' \in {cache, [cache EXCEPT ![a] = "none"]}
    /\ Goto(Ui, "begun")
    /\ job' = [job EXCEPT ![Ui].account = a]
    /\ UNCHANGED <<now, binding, key, gate, gateLock, accountLock, tmp, history>>

(* clear_admin_account_state below both locks *)
ClearGate ==
    /\ pc[Ui] = "gate"
    /\ \/ /\ gate' = IF job[Ui].seen[Account(Ui)] = NoEntry THEN gate
                     ELSE [job[Ui].seen EXCEPT ![Account(Ui)] = NoEntry]
          /\ Remember(Ui)
          /\ Goto(Ui, "cleared")
          /\ job' = [job EXCEPT ![Ui].seen = <<>>]
       \/ /\ Return(Ui)              \* the gate file cannot be written
          /\ UNCHANGED <<gate, last>>
    /\ Unlock(Ui)
    /\ UNCHANGED <<now, binding, key, cache, tmp, syncs, blind>>

Disconnected ==
    /\ pc[Ui] = "cleared"
    /\ binding' = [binding EXCEPT ![Account(Ui)] = "none"]
    /\ key' = (key /\ AdminIn(binding'))
    /\ Return(Ui)
    /\ UNCHANGED <<now, files, history>>

-----------------------------------------------------------------------------
(* A process ends at any point; its locks and files are released. *)
Crash(P) ==
    /\ \E p \in P : pc[p] # "idle"
    /\ pc' = [p \in Procs |-> IF p \in P THEN "idle" ELSE pc[p]]
    /\ job' = [p \in Procs |-> IF p \in P THEN NoJob ELSE job[p]]
    /\ gateLock' = IF gateLock \in P THEN Free ELSE gateLock
    /\ accountLock' = [a \in Accounts |-> IF accountLock[a] \in P THEN Free ELSE accountLock[a]]
    /\ tmp' = [a \in Accounts |-> [tmp[a] EXCEPT !.openers = @ \ P]]
    /\ UNCHANGED <<now, binding, key, gate, cache, history>>

Tick ==
    /\ now < MaxTime
    /\ now' = now + 1
    /\ UNCHANGED <<binding, key, files, pc, job, history>>

Sync(p) ==
    \/ \E a \in Accounts : Load(p, a)
    \/ Begin(p)
    \/ Refuse(p) \/ Reserve(p)
    \/ FetchFails(p)
    \/ \E answer \in {"empty", "data"} : FetchAnswers(p, answer)
    \/ OpenTmp(p) \/ WriteTmp(p) \/ ReplaceTmp(p) \/ SaveFails(p)
    \/ Mark(p) \/ MarkFails(p)

Next ==
    \/ \E p \in Syncers : Sync(p)
    \/ \E p \in Procs : LockAccount(p) \/ LockGate(p) \/ LockFails(p)
    \/ StoreKey \/ Bind
    \/ \E a \in Accounts : ImportCsv(a) \/ DisconnectCsv(a) \/ Disconnect(a)
    \/ ClearGate \/ Disconnected
    \/ Crash(Window)
    \/ \E p \in Clis : Crash({p})
    \/ Tick

Spec == Init /\ [][Next]_vars

-----------------------------------------------------------------------------
Entries == [attempt : {NoTime} \union (0 .. MaxTime), success : {NoTime} \union (0 .. MaxTime)]
Gates == [Accounts -> Entries]

Jobs == [account : Accounts \union {Free}, at : {NoTime} \union (0 .. MaxTime),
         cached : {"none", "empty", "data"}, ready : BOOLEAN,
         answer : {"none", "empty", "data"}, success : BOOLEAN,
         seen : Gates \union {<<>>}]

(* Every variable has its kind of value, and each lock is held by whoever    *)
(* is past it and by nobody else (exclusive_file_lock).                      *)
TypeOK ==
    /\ now \in 0 .. MaxTime
    /\ binding \in [Accounts -> {"none", "csv", "admin"}]
    /\ key \in BOOLEAN
    /\ gate \in Gates
    /\ gateLock \in Procs \union {Free}
    /\ accountLock \in [Accounts -> Procs \union {Free}]
    /\ cache \in [Accounts -> Contents]
    /\ tmp \in [Accounts -> [content : {"absent", "blank", "empty", "data", "garbled"},
                             openers : SUBSET Syncers]]
    /\ pc \in [Procs -> InFlight \union {"idle", "loaded", "store", "bind", "cleared"}]
    /\ job \in [Procs -> Jobs]
    /\ last \in [Accounts -> {NoTime} \union (0 .. MaxTime)]
    /\ blind \subseteq Accounts /\ syncs \in 0 .. MaxSyncs
    /\ \A p \in Procs :
          /\ (gateLock = p) <=> pc[p] \in {"gate", "marking"}
          /\ \A a \in Accounts :
                (accountLock[a] = p) <=> pc[p] \in {"account", "gate"} /\ Account(p) = a

(* A sync or a disconnect of one account leaves the entries of the others in *)
(* the common gate file alone, however their writes interleave, unless the   *)
(* writer could not read it (_write_admin_sync_attempt,                      *)
(* clear_admin_account_state).                                               *)
OthersKept ==
    [][gate' # gate =>
          \E p \in Procs :
              /\ pc[p] \in {"gate", "marking"} /\ pc'[p] # pc[p]
              /\ \/ job[p].seen = Unreadable
                 \/ \A a \in Accounts \ {Account(p)} : gate'[a] = gate[a]]_vars

(* Automatic syncs of an account are an hour apart, also when they fail, when *)
(* several processes wake up together and when one of them ends half way     *)
(* (COLLECTORS.md:108).  A disconnect starts anew; so does a gate file that   *)
(* cannot be read, and an older sync that ends after a younger one has       *)
(* begun: it marks its own time.                                             *)
HourlyGate ==
    [][\A p \in Automatic :
          pc[p] = "gate" /\ pc'[p] = "fetch" =>
              \/ last[Account(p)] = NoTime \/ job[p].seen = Unreadable
              \/ job[p].at - last[Account(p)] >= Interval]_vars

(* Observations in the cache are never replaced by an empty or a broken file, *)
(* whatever fails, as long as syncs of the account do not overlap and each   *)
(* could read what the cache has (COLLECTORS.md:102).                        *)
KnownGoodKept ==
    [][\A a \in Accounts :
          cache[a] = "data" /\ cache'[a] # "data" =>
              pc'[Ui] = "begun" \/ a \in blind]_vars

(* The key goes with the last account that is bound to the API, by an import *)
(* or by a disconnect (SECURITY.md:24).                                      *)
LastBindingTakesKey ==
    [][AdminIn(binding) /\ ~AdminIn(binding') => ~key']_vars

=============================================================================
