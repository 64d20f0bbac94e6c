----------------------------- MODULE FlashWear ------------------------------
(***************************************************************************)
(* The flash wear protection: core/flashbudget.py, the upload half of      *)
(* core/scheduler.py and the device commands of cli.py.                    *)
(*                                                                         *)
(* Several processes share one wear row (flash-state.json) and one         *)
(* interprocess lock (flash-state.json.lock).  A runtime (the GUI or the   *)
(* scheduler) lives long and keeps a FlashBudget and the hash of what it   *)
(* last uploaded in memory; a CLI command lives for one transaction.  A    *)
(* transaction takes the lock, reloads the row, decides, commits a         *)
(* reservation to the row and only then touches the keyboard.  The clock   *)
(* runs between any two steps, any process may crash between any two       *)
(* steps, and rendering, the commit and the transfer may each fail.        *)
(***************************************************************************)
EXTENDS Integers, FiniteSets

CONSTANTS Runtimes,     \* long-lived processes: QuotaDeckRuntime
          Clis,         \* `quotadeck upload` and `quotadeck clock` commands
          NoProc,       \* no process: the lock is free
          Digests,      \* render hashes
          NoDigest,     \* last_hash = None
          DailyLimit,   \* daily_limit
          MinInterval,  \* min_interval, in clock units
          MaxAge,       \* max_age, in clock units
          MaxTime,      \* bound: the clock stops here
          MaxDay        \* bound: the last date

Procs == Runtimes \union Clis
Days  == 0 .. MaxDay
Never == -1             \* None, for a time and for a date

ASSUME ConstantsAssumption ==
    /\ Runtimes \intersect Clis = {}
    /\ NoProc \notin Procs
    /\ NoDigest \notin Digests
    /\ DailyLimit \in Nat
    /\ MinInterval \in Nat
    /\ MaxAge \in Nat
    /\ MaxTime \in Nat
    /\ MaxDay \in Nat

VARIABLES now,          \* the wall clock (UTC)
          today,        \* its date
          lock,         \* who holds the lock file
          pc,           \* where each process is
          mem,          \* FlashBudget of each process: last, count, day
          saved,        \* previous_budget of the open reservation
          lastHash,     \* state.last_hash
          digest,       \* the hash of the frames being uploaded
          force,        \* the upload was asked for by the user
          fileState,    \* flash-state.json: absent, ok or unreadable
          row           \* its contents when ok

(* History: what really happened, for the properties only. *)
VARIABLES grants,       \* grants[d]: reservations committed for date d
          lastGrant,    \* the time of the latest of them
          applies,      \* applies[d]: flash writes of the keyboard on date d
          shown         \* shown[p]: the hashes p itself has put on the keyboard

call    == <<digest, force, saved>>
file    == <<fileState, row>>
history == <<grants, lastGrant, applies, shown>>
clock   == <<now, today>>
vars    == <<clock, lock, pc, mem, lastHash, call, file, history>>

-----------------------------------------------------------------------------
(* FlashBudget                                                             *)

FreshMinusOne == [last |-> Never, count |-> -1, day |-> Never]

Fresh == [last |-> Never, count |-> 0, day |-> Never]

(* _roll: a new date starts a new count *)
Rolled(b) ==
    [last |-> b.last, count |-> IF b.day = today THEN b.count ELSE 0, day |-> today]

(* restore: a time of the future is pulled back to now *)
Restored(r) ==
    [last |-> IF r.last > now THEN now ELSE r.last, count |-> Rolled(r).count, day |-> today]

Stale(b) == b.last = Never \/ now - b.last >= MaxAge

(* Faulty variants, here and below: each is a bug the code might have had,  *)
(* and some property of this module finds it.                              *)
CanUploadWhenStale(b, forced) ==
    /\ Rolled(b).count < DailyLimit
    /\ b.last = Never \/ forced \/ Stale(b) \/ now - b.last >= MinInterval

CanUploadForcedAlways(b, forced) ==
    \/ forced
    \/ /\ Rolled(b).count < DailyLimit
       /\ b.last = Never \/ now - b.last >= MinInterval

CanUpload(b, forced) ==
    /\ Rolled(b).count < DailyLimit
    /\ \/ b.last = Never
       \/ forced
       \/ now - b.last >= MinInterval

Recorded(b) == [last |-> now, count |-> Rolled(b).count + 1, day |-> today]

-----------------------------------------------------------------------------
(* Where a process is: outside a transaction, waiting, or holding the lock *)

Outside == {"down", "idle"}
Holding == {"locked", "loaded", "reserve", "write", "settle", "clock"}
PcValues == Outside \union {"wait", "waitclock"} \union Holding

(* where a transaction leaves its process: a command exits *)
AfterTransaction(p) == IF p \in Clis THEN "down" ELSE "idle"

ForgetCall(p) ==
    /\ digest' = [digest EXCEPT ![p] = NoDigest]
    /\ force' = [force EXCEPT ![p] = FALSE]
    /\ saved' = [saved EXCEPT ![p] = Fresh]

(* the end of maybe_upload and of a command: the lock is given back and the *)
(* local variables of the call are gone                                    *)
Finish(p) ==
    /\ pc' = [pc EXCEPT ![p] = AfterTransaction(p)]
    /\ lock' = NoProc
    /\ ForgetCall(p)

Goto(p, from, to) ==
    /\ pc[p] = from
    /\ pc' = [pc EXCEPT ![p] = to]

-----------------------------------------------------------------------------
Init ==
    /\ now = 0 /\ today = 0
    /\ lock = NoProc
    /\ pc = [p \in Procs |-> "down"]
    /\ mem = [p \in Procs |-> Fresh]
    /\ saved = [p \in Procs |-> Fresh]
    /\ lastHash = [p \in Procs |-> NoDigest]
    /\ digest = [p \in Procs |-> NoDigest]
    /\ force = [p \in Procs |-> FALSE]
    /\ fileState = "absent"
    /\ row = Fresh
    /\ grants = [d \in Days |-> 0]
    /\ lastGrant = Never
    /\ applies = [d \in Days |-> 0]
    /\ shown = [p \in Procs |-> {}]

-----------------------------------------------------------------------------
(* Faulty variants of the steps below.                                     *)

(* the deadline is taken for the lock *)
LockFailsGoesOn(p) ==
    /\ Goto(p, "wait", "locked") \/ Goto(p, "waitclock", "clock")
    /\ UNCHANGED <<clock, lock, mem, lastHash, call, file, history>>

(* the row loaded at creation is trusted *)
ReloadSkipped(p) ==
    /\ Goto(p, "locked", "loaded")
    /\ UNCHANGED <<clock, lock, mem, lastHash, call, file, history>>

(* an unreadable row is overwritten *)
ReloadAnything(p) ==
    /\ Goto(p, "locked", "loaded")
    /\ mem' = [mem EXCEPT ![p] = IF fileState = "ok" THEN Restored(row) ELSE @]
    /\ UNCHANGED <<clock, lock, lastHash, call, file, history>>

(* the early return leaves the lock taken *)
RefuseUnreadableLocked(p) ==
    /\ fileState = "unreadable"
    /\ pc[p] = "locked"
    /\ pc' = [pc EXCEPT ![p] = AfterTransaction(p)]
    /\ ForgetCall(p)
    /\ UNCHANGED <<clock, lock, mem, lastHash, file, history>>

(* the content counts as displayed before the keyboard has it *)
CommitMarksDisplayed(p) ==
    /\ Goto(p, "reserve", "write")
    /\ fileState' = "ok"
    /\ row' = mem[p]
    /\ grants' = [grants EXCEPT ![mem[p].day] = @ + 1]
    /\ lastGrant' = mem[p].last
    /\ lastHash' = [lastHash EXCEPT ![p] = digest[p]]
    /\ UNCHANGED <<clock, lock, mem, call, applies, shown>>

(* the upload goes on without its reservation *)
CommitFailsGoesOn(p) ==
    /\ Goto(p, "reserve", "write")
    /\ UNCHANGED <<clock, lock, mem, lastHash, call, file, history>>

(* a failed transfer gets its reservation back *)
TransferFailsRefunds(p) ==
    /\ pc[p] \in {"write", "settle"}
    /\ Finish(p)
    /\ row' = saved[p]
    /\ UNCHANGED <<clock, mem, lastHash, fileState, history>>

-----------------------------------------------------------------------------
(* A runtime is created: at program start, or again by Apply in the GUI.    *)
(* An unreadable row is ignored here.                                      *)
CreateRuntime(p) ==
    /\ p \in Runtimes
    /\ pc[p] \in Outside
    /\ pc' = [pc EXCEPT ![p] = "idle"]
    /\ mem' = [mem EXCEPT ![p] = IF fileState = "ok" THEN Restored(row) ELSE Fresh]
    /\ lastHash' = [lastHash EXCEPT ![p] = NoDigest]
    /\ shown' = [shown EXCEPT ![p] = {}]
    /\ UNCHANGED <<clock, lock, call, file, grants, lastGrant, applies>>

(* tick: the poll is over and maybe_upload waits for the lock *)
RequestUpload(p, d, forced) ==
    /\ p \in Runtimes
    /\ Goto(p, "idle", "wait")
    /\ digest' = [digest EXCEPT ![p] = d]
    /\ force' = [force EXCEPT ![p] = forced]
    /\ UNCHANGED <<clock, lock, mem, saved, lastHash, file, history>>

(* cmd_upload: a fresh budget, and always an explicit request of the user *)
CliUpload(p, d) ==
    /\ p \in Clis
    /\ Goto(p, "down", "wait")
    /\ mem' = [mem EXCEPT ![p] = Fresh]
    /\ digest' = [digest EXCEPT ![p] = d]
    /\ force' = [force EXCEPT ![p] = TRUE]
    /\ UNCHANGED <<clock, lock, saved, lastHash, file, history>>

(* cmd_clock: the clock commands take the same lock and no reservation *)
CliClock(p) ==
    /\ p \in Clis
    /\ Goto(p, "down", "waitclock")
    /\ UNCHANGED <<clock, lock, mem, lastHash, call, file, history>>

(* lock_flash_state *)
Acquire(p) ==
    /\ lock = NoProc
    /\ \/ Goto(p, "wait", "locked")
       \/ Goto(p, "waitclock", "clock")
    /\ lock' = p
    /\ UNCHANGED <<clock, mem, lastHash, call, file, history>>

(* FlashStateLockError: the deadline passed, or the lock file did not open *)
LockFails(p) ==
    /\ pc[p] \in {"wait", "waitclock"}
    /\ pc' = [pc EXCEPT ![p] = AfterTransaction(p)]
    /\ ForgetCall(p)
    /\ UNCHANGED <<clock, lock, mem, lastHash, file, history>>

(* The row is reloaded only now, under the lock; an absent row leaves the   *)
(* budget of the process as it is, an unreadable one refuses the upload.   *)
Reload(p) ==
    /\ fileState # "unreadable"
    /\ Goto(p, "locked", "loaded")
    /\ mem' = [mem EXCEPT ![p] = IF fileState = "ok" THEN Restored(row) ELSE @]
    /\ UNCHANGED <<clock, lock, lastHash, call, file, history>>

RefuseUnreadable(p) ==
    /\ pc[p] = "locked"
    /\ fileState = "unreadable"
    /\ Finish(p)
    /\ UNCHANGED <<clock, mem, lastHash, file, history>>

Wanted(p) == digest[p] # lastHash[p] \/ Stale(mem[p]) \/ force[p]

SkipUnchanged(p) ==
    /\ pc[p] = "loaded"
    /\ ~Wanted(p)
    /\ Finish(p)
    /\ UNCHANGED <<clock, mem, lastHash, file, history>>

(* The upload is deferred (cooldown or daily limit), or build_frames raises. *)
DeferOrFailRender(p) ==
    /\ pc[p] = "loaded"
    /\ Wanted(p)
    /\ ~CanUpload(mem[p], force[p]) \/ p \in Runtimes
    /\ Finish(p)
    /\ mem' = [mem EXCEPT ![p] = Rolled(@)]
    /\ UNCHANGED <<clock, lastHash, file, history>>

(* record(now), with the time of the decision *)
Reserve(p) ==
    /\ Wanted(p)
    /\ CanUpload(mem[p], force[p])
    /\ Goto(p, "loaded", "reserve")
    /\ saved' = [saved EXCEPT ![p] = Rolled(mem[p])]
    /\ mem' = [mem EXCEPT ![p] = Recorded(@)]
    /\ UNCHANGED <<clock, lock, lastHash, digest, force, file, history>>

(* persist: temporary file, fsync, os.replace *)
Commit(p) ==
    /\ Goto(p, "reserve", "write")
    /\ fileState' = "ok"
    /\ row' = mem[p]
    /\ grants' = [grants EXCEPT ![mem[p].day] = @ + 1]
    /\ lastGrant' = mem[p].last
    /\ UNCHANGED <<clock, lock, mem, lastHash, call, applies, shown>>

CommitFails(p) ==
    /\ pc[p] = "reserve"
    /\ Finish(p)
    /\ mem' = [mem EXCEPT ![p] = saved[p]]
    /\ UNCHANGED <<clock, lastHash, file, history>>

(* The keyboard takes the pages and the apply command and writes its flash. *)
DeviceApplies(p) ==
    /\ Goto(p, "write", "settle")
    /\ applies' = [applies EXCEPT ![today] = @ + 1]
    /\ UNCHANGED <<clock, lock, mem, lastHash, call, file, grants, lastGrant, shown>>

(* The transfer fails before the flash is written, or its end is not seen;  *)
(* the exception leaves the reservation as it is.                          *)
TransferFails(p) ==
    /\ pc[p] \in {"write", "settle"}
    /\ Finish(p)
    /\ UNCHANGED <<clock, mem, lastHash, file, history>>

UploadDone(p) ==
    /\ pc[p] = "settle"
    /\ Finish(p)
    /\ lastHash' = IF p \in Runtimes THEN [lastHash EXCEPT ![p] = digest[p]] ELSE lastHash
    /\ shown' = [shown EXCEPT ![p] = IF p \in Runtimes THEN @ \union {digest[p]} ELSE @]
    /\ UNCHANGED <<clock, mem, file, grants, lastGrant, applies>>

(* the clock commands are through, or failed *)
ClockDone(p) ==
    /\ pc[p] = "clock"
    /\ Finish(p)
    /\ UNCHANGED <<clock, mem, lastHash, file, history>>

(* A process dies; the operating system frees its lock.  The row keeps what *)
(* os.replace made of it, and the memory of the process is gone.           *)
Crash(p) ==
    /\ pc[p] # "down"
    /\ pc' = [pc EXCEPT ![p] = "down"]
    /\ lock' = IF lock = p THEN NoProc ELSE lock
    /\ mem' = [mem EXCEPT ![p] = Fresh]
    /\ lastHash' = [lastHash EXCEPT ![p] = NoDigest]
    /\ shown' = [shown EXCEPT ![p] = {}]
    /\ ForgetCall(p)
    /\ UNCHANGED <<clock, file, grants, lastGrant, applies>>

(* Something outside the program damages the row. *)
Damage ==
    /\ fileState = "ok"
    /\ fileState' = "unreadable"
    /\ UNCHANGED <<clock, lock, pc, mem, lastHash, call, row, history>>

(* Time passes; the date may change with it. *)
Tick ==
    /\ now < MaxTime
    /\ now' = now + 1
    /\ \/ today' = today
       \/ today < MaxDay /\ today' = today + 1
    /\ UNCHANGED <<lock, pc, mem, lastHash, call, file, history>>

-----------------------------------------------------------------------------
Decision(p) == SkipUnchanged(p) \/ DeferOrFailRender(p) \/ Reserve(p)

(* the steps of an open transaction *)
TransactionStep(p) ==
    \/ Reload(p) \/ RefuseUnreadable(p)
    \/ Decision(p)
    \/ Commit(p) \/ CommitFails(p)
    \/ DeviceApplies(p) \/ TransferFails(p) \/ UploadDone(p)
    \/ ClockDone(p)

Request(p) ==
    \/ CreateRuntime(p)
    \/ \E d \in Digests, forced \in BOOLEAN : RequestUpload(p, d, forced)
    \/ \E d \in Digests : CliUpload(p, d)
    \/ CliClock(p)

Next ==
    \/ \E p \in Procs : Request(p) \/ Acquire(p) \/ LockFails(p)
                        \/ TransactionStep(p) \/ Crash(p)
    \/ Damage
    \/ Tick

Spec == Init /\ [][Next]_vars

(* A transaction is straight-line code with timeouts: it does not stop in   *)
(* the middle.  Requests, crashes, damage and time are owed to nobody.     *)
Fairness == \A p \in Procs : /\ WF_vars(TransactionStep(p))
                             /\ WF_vars(Acquire(p) \/ LockFails(p))

FairSpec == Spec /\ Fairness

-----------------------------------------------------------------------------
(* Properties                                                              *)

Budget == [last : {Never} \union 0 .. MaxTime, count : Nat, day : {Never} \union Days]

(* The kinds of values the variables hold. *)
TypeOK ==
    /\ now \in 0 .. MaxTime
    /\ today \in Days
    /\ lock \in Procs \union {NoProc}
    /\ pc \in [Procs -> PcValues]
    /\ mem \in [Procs -> Budget]
    /\ saved \in [Procs -> Budget]
    /\ lastHash \in [Procs -> Digests \union {NoDigest}]
    /\ digest \in [Procs -> Digests \union {NoDigest}]
    /\ force \in [Procs -> BOOLEAN]
    /\ fileState \in {"absent", "ok", "unreadable"}
    /\ row \in Budget
    /\ grants \in [Days -> Nat]
    /\ lastGrant \in {Never} \union 0 .. MaxTime
    /\ applies \in [Days -> Nat]
    /\ shown \in [Procs -> SUBSET (Digests \union {NoDigest})]

(* One process at a time is between taking the lock and leaving the         *)
(* transaction, device traffic included, whoever crashed or timed out:     *)
(* "Serialize the complete flash decision/write transaction across          *)
(* processes" (core/flashbudget.py:29).                                     *)
MutualExclusion ==
    \A p, q \in Procs : pc[p] \in Holding /\ pc[q] \in Holding => p = q

(* No date gets more reservations than the daily limit, however many        *)
(* processes with however stale budgets there are, with or without force,  *)
(* and across crashes and restarts.                                        *)
DailyCap == \A d \in Days : grants[d] <= DailyLimit

(* The keyboard writes its flash on one date at most once more than the     *)
(* limit: the one more is a transfer that was decided before midnight.     *)
AppliesNearCap == \A d \in Days : applies[d] <= DailyLimit + 1

(* The committed row never knows less of its date than what happened: a     *)
(* restart, which sees nothing else, cannot forget a reservation.          *)
RowRemembers ==
    fileState # "absent" =>
        /\ row.count = grants[row.day]
        /\ row.last = lastGrant
        /\ \A d \in Days : d > row.day => grants[d] = 0

(* A runtime takes for displayed only what it has put on the keyboard       *)
(* itself: a failed transfer is not mistaken for a finished one.           *)
HashWasShown ==
    \A p \in Runtimes : lastHash[p] # NoDigest => lastHash[p] \in shown[p]

(* The inductive invariant behind these: *)

(* who is inside a transaction is who holds the lock *)
LockInv == \A p \in Procs : pc[p] \in Holding <=> lock = p

(* the row, and nothing later than the row, is what was granted *)
RowInv ==
    /\ lastGrant <= now
    /\ \A d \in Days : grants[d] <= DailyLimit
    /\ fileState = "absent" =>
           /\ lastGrant = Never
           /\ \A d \in Days : grants[d] = 0
    /\ fileState # "absent" =>
           /\ row.day \in Days
           /\ row.day <= today
           /\ row.count = grants[row.day]
           /\ row.last = lastGrant
           /\ \A d \in Days : d > row.day => grants[d] = 0

(* a budget that knows everything that was granted up to its date *)
Current(b) ==
    /\ b.last = lastGrant
    /\ b.day # Never => b.count = grants[b.day]
    /\ fileState = "absent" => b.count = 0
    /\ fileState # "absent" => row.day <= b.day

(* what a process outside a reservation may believe *)
Modest(b) ==
    /\ b.day # Never => b.count <= grants[b.day]
    /\ fileState = "absent" => b.count = 0 /\ b.last = Never

MemOK(p) ==
    /\ mem[p].day <= today
    /\ pc[p] = "loaded" => Current(mem[p])
    /\ pc[p] # "reserve" => Modest(mem[p])
    /\ pc[p] = "reserve" =>
           /\ Current(saved[p])
           /\ saved[p].day \in Days
           /\ saved[p].count < DailyLimit
           /\ mem[p].day = saved[p].day
           /\ mem[p].count = saved[p].count + 1
           /\ mem[p].last \in 0 .. now
           /\ \/ saved[p].last = Never
              \/ force[p]
              \/ mem[p].last - saved[p].last >= MinInterval

MemInv == \A p \in Procs : MemOK(p)

(* The flash writes of a date against its reservations: one transfer may    *)
(* come over midnight, and then nothing else has happened on the new date. *)
ApplyInv ==
    /\ \A d \in Days : applies[d] <= grants[d] + 1
    /\ \A d \in Days : d > today => applies[d] = 0
    /\ \A p \in Procs : pc[p] \in {"reserve", "write"} =>
           /\ mem[p].day \in Days
           /\ \A d \in Days : d > mem[p].day => applies[d] = 0
    /\ \A p \in Procs : pc[p] = "write" => applies[mem[p].day] <= grants[mem[p].day]

WearInv == TypeOK /\ LockInv /\ RowInv /\ MemInv

(* Without the user asking for it, two reservations are min_interval apart, *)
(* whichever processes made them: staleness, a restart or a second program *)
(* do not shorten the cooldown.                                            *)
CooldownKept ==
    [][\A p \in Procs :
          /\ pc[p] = "reserve" /\ pc'[p] = "write"
          /\ ~force[p]
          /\ lastGrant # Never
          => lastGrant' - lastGrant >= MinInterval]_vars

(* While the row is unreadable nothing is reserved by a transaction that    *)
(* had not loaded it before the damage.                                    *)
UnreadableFailsClosed ==
    [][fileState = "unreadable" /\ (\A p \in Procs : pc[p] \notin {"loaded", "reserve"})
          => UNCHANGED grants /\ \A p \in Procs : pc'[p] # "loaded"]_vars

(* Whoever gets the lock gives it back. *)
LockIsReturned == \A p \in Procs : lock = p ~> lock # p

(* The processes together keep the promise of FlashCap: a permission is     *)
(* open from the commit of a reservation until the flash is written or the *)
(* transaction ends, and what is not committed permits nothing.            *)
Cap == INSTANCE FlashCap WITH open    <- \E p \in Procs : pc[p] = "write",
                              granted <- grants,
                              written <- applies

ImplementsFlashCap == Cap!CapSpec
=============================================================================
