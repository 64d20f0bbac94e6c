---------------------------- MODULE CursorSources ----------------------------
(***************************************************************************)
(* Where the Cursor usage of an account is taken from                      *)
(* (quotadeck/usage/cursor_export.py): the account's Admin binding, else   *)
(* the CSV its user imported, else the files of the token-stats cache      *)
(* directory, which is brought up to date by "token-stats cursor sync"     *)
(* when nothing in it is younger than Ttl.                                 *)
(*                                                                         *)
(* A file is what the attribution can see of it - its name, and the        *)
(* account its rows name, if they do - and what it cannot: whose usage it  *)
(* really holds.  The Admin source itself is module CursorAdmin.           *)
(***************************************************************************)
EXTENDS Integers, Sequences

CONSTANTS
    Accounts,     \* the Cursor accounts on display
    NoAccount,
    Ttl,          \* cursor_sync_ttl_seconds
    LastTime,     \* bound on the clock
    MaxDrops      \* bound on the files a user puts into the directory

(* An account is neither the absence of one nor a kind of file.              *)
SourcesAssumption ==
    /\ NoAccount \notin Accounts /\ Accounts \intersect {"json", "generic"} = {}
    /\ Ttl \in Int

VARIABLES
    now,
    login,        \* the account token-stats is logged in as (external)
    bound,        \* QUOTADECK_CURSOR_USAGE_CSV_ACCOUNT
    source,       \* account -> its binding in the settings
    gui,          \* account -> the imported CSV
    files,        \* the cache directory
    lastSync,     \* when the last sync was started (the time of its marker),
    lastGood,     \* and when the last that wrote its file was
    syncing,      \* the last step ran a sync,
    drops,
    shown         \* and what it returned, for whom

sourcesVars == <<now, login, bound, source, gui, files, lastSync,
                 lastGood, syncing, drops, shown>>

Never == -1
NoFile == [label |-> NoAccount, owner |-> NoAccount, whole |-> FALSE, written |-> Never]
Nothing == [owner |-> NoAccount, via |-> "none"]
Unloaded == [for |-> NoAccount, usage |-> Nothing]

(* The rows of a file say the truth about their owner or nothing; then its   *)
(* name, or the account it was bound to, has to be right.                    *)
File == [label : Accounts \union {NoAccount}, owner : Accounts, whole : BOOLEAN,
         written : 0..LastTime]
Truthful(f) == f.label \in {NoAccount, f.owner}

(* usage.<account>.csv, one JSON export, and usage.csv.                      *)
Slots == Accounts \union {"json", "generic"}

SourcesInit ==
    /\ now = 0
    /\ login \in Accounts
    /\ bound \in {NoAccount, login}
    /\ source = [a \in Accounts |-> "none"]
    /\ gui = [a \in Accounts |-> NoFile]
    /\ files = [s \in Slots |-> NoFile]
    /\ lastSync = Never
    /\ lastGood = Never
    /\ syncing = FALSE
    /\ drops = 0
    /\ shown = Unloaded

---------------------------------------------------------------------------
(* The account a row counts for: its own column, else the file's name, else  *)
(* the account the nameless file is bound to.                                *)
RowAccountByFile(f, slot, a, boundTo) ==
    IF slot \in Accounts THEN slot
    ELSE IF boundTo = a THEN a ELSE f.label

RowAccount(f, slot, a, boundTo) ==
    IF f.label # NoAccount THEN f.label
    ELSE IF slot \in Accounts THEN slot
    ELSE IF boundTo = a THEN a ELSE NoAccount

(* parse_cursor_csv has rows for the account.                                *)
CsvUsable(f, slot, a, boundTo) == f.whole /\ RowAccount(f, slot, a, boundTo) = a

(* A JSON export refuses the rows that name another account, and takes those *)
(* that name none.                                                           *)
JsonUsable(f, a) == f.whole /\ f.label \in {NoAccount, a}

(* The files looked at for an account, by their place in the order.          *)
Order(a) == <<a, "json", "generic">>

Discovered(dir, a) ==
    {i \in 1 .. 3 : LET s == Order(a)[i]
                    IN  dir[s] # NoFile /\ (s = "generic" => bound = a)}

(* The first usable one is shown.                                            *)
FromFiles(dir, a) ==
    LET Usable(s) == IF s = "json" THEN JsonUsable(dir[s], a)
                     ELSE CsvUsable(dir[s], s, a, bound)
        good == {i \in Discovered(dir, a) : Usable(Order(a)[i])}
        first == Order(a)[CHOOSE i \in good : \A j \in good : i <= j]
    IN  IF good = {} THEN Nothing
        ELSE [owner |-> dir[first].owner,
              via |-> IF first = "json" THEN "json" ELSE "csv"]

FromImport(a) ==
    IF CsvUsable(gui[a], "import", a, a)
    THEN [owner |-> gui[a].owner, via |-> "import"] ELSE Nothing

---------------------------------------------------------------------------
(* The cache is fresh while a usage CSV is younger than Ttl.  The marker of  *)
(* the last sync would count, but the files that are skipped - among them    *)
(* every name with a leading dot - are dropped before its name is asked for. *)
FreshByOldest ==
    LET csv == {s \in Slots \ {"json"} : files[s] # NoFile}
    IN  csv # {} /\ \A s \in csv : now - files[s].written < Ttl

Fresh ==
    \E s \in Slots \ {"json"} : files[s] # NoFile /\ now - files[s].written < Ttl

(* token-stats writes usage.csv for its login, or fails or is killed by the  *)
(* deadline; the marker is touched whatever it did.                          *)
Sync(wrote) ==
    /\ files' = IF wrote THEN [files EXCEPT !["generic"] =
                                  [label |-> NoAccount, owner |-> login,
                                   whole |-> TRUE, written |-> now]]
                ELSE files
    /\ lastSync' = now
    /\ lastGood' = IF wrote THEN now ELSE lastGood
    /\ syncing' = TRUE

NoSync == syncing' = FALSE /\ UNCHANGED <<files, lastSync, lastGood>>

(* collect_cursor_usage: one source, the others are not looked at.  An       *)
(* import whose file is gone leaves the account to the cache directory.      *)
Load(a) ==
    /\ \/ /\ source[a] = "admin"
          /\ shown' = [for |-> a, usage |-> [owner |-> a, via |-> "admin"]]
          /\ NoSync
       \/ /\ source[a] = "csv" /\ gui[a] # NoFile
          /\ shown' = [for |-> a, usage |-> FromImport(a)]
          /\ NoSync
       \/ /\ source[a] = "none" \/ (source[a] = "csv" /\ gui[a] = NoFile)
          /\ IF Fresh THEN NoSync ELSE \E wrote \in BOOLEAN : Sync(wrote)
          /\ shown' = [for |-> a, usage |-> FromFiles(files', a)]
    /\ UNCHANGED <<now, login, bound, source, gui, drops>>

---------------------------------------------------------------------------
(* What a step that is no load leaves behind of the last one.               *)
Settled == syncing' = FALSE /\ shown' = Unloaded

(* What a user does: binds an account, loses the imported copy, puts a file  *)
(* into the cache directory.                                                 *)
Bind(a, kind) ==
    /\ source[a] # kind
    /\ source' = [source EXCEPT ![a] = kind]
    /\ IF kind = "csv"
       THEN \E f \in File :
               /\ Truthful(f) /\ f.whole /\ f.written = 0
               /\ f.label = NoAccount => f.owner = a
               /\ gui' = [gui EXCEPT ![a] = f]
       ELSE gui' = [gui EXCEPT ![a] = NoFile]
    /\ Settled
    /\ UNCHANGED <<now, login, bound, files, lastSync, lastGood, drops>>

LoseImport(a) ==
    /\ gui[a] # NoFile
    /\ gui' = [gui EXCEPT ![a] = NoFile]
    /\ Settled
    /\ UNCHANGED <<now, login, bound, source, files, lastSync, lastGood, drops>>

Drop ==
    /\ drops < MaxDrops
    /\ drops' = drops + 1
    /\ \E s \in Slots \ {"generic"}, f \in File :
          /\ Truthful(f) /\ f.written = now
          /\ s \in Accounts /\ f.label = NoAccount => f.owner = s
          /\ files' = [files EXCEPT ![s] = f]
    /\ Settled
    /\ UNCHANGED <<now, login, bound, source, gui, lastSync, lastGood>>

Tick ==
    /\ now < LastTime
    /\ now' = now + 1
    /\ Settled
    /\ UNCHANGED <<login, bound, source, gui, files, lastSync, lastGood, drops>>

SourcesNext ==
    \/ Tick \/ Drop
    \/ \E a \in Accounts :
          Load(a) \/ LoseImport(a) \/ \E kind \in {"none", "csv", "admin"} : Bind(a, kind)

SourcesSpec == SourcesInit /\ [][SourcesNext]_sourcesVars

---------------------------------------------------------------------------
(* What an account shows out of a CSV or its import is its own usage, with   *)
(* every mix of bindings, nameless files and other accounts' rows: what the  *)
(* rows say beats the name of the file and the choice of the user            *)
(* (discover_cursor_export_files, parse_cursor_csv_result).                  *)
OwnCsvUsage ==
    shown.usage.via \in {"csv", "import"} => shown.usage.owner = shown.for

(* docs/COLLECTORS.md:81: Cursor usage is shown only from data that names    *)
(* its account.  So what an account shows is its own.                        *)
OnlyAttributedUsage ==
    shown.usage # Nothing => shown.usage.owner = shown.for

(* A sync that wrote its file is not repeated before the file is Ttl old     *)
(* (cursor_cache_is_fresh).                                                  *)
GoodSyncHolds ==
    [][syncing' /\ lastGood # Never => now - lastGood >= Ttl]_sourcesVars

=============================================================================
