-------------------------- MODULE FlashWear_proofs --------------------------
(***************************************************************************)
(* Proofs about FlashWear, for any number of processes, any limits and any *)
(* bound on the clock.                                                     *)
(***************************************************************************)
EXTENDS FlashWear, TLAPS

(* What the helpers of FlashBudget return. *)
LEMMA BudgetTypes ==
    ASSUME TypeOK, NEW b \in Budget
    PROVE  /\ Fresh \in Budget
           /\ Rolled(b) \in Budget
           /\ Restored(b) \in Budget
           /\ Recorded(b) \in Budget
BY ConstantsAssumption
   DEF TypeOK, Budget, Fresh, Rolled, Restored, Recorded, Never, Days

(* Every variable keeps its kind. *)
LEMMA TypeInit == Init => TypeOK
BY ConstantsAssumption
   DEF Init, TypeOK, Budget, Fresh, Never, Days, Procs, PcValues, Outside

(* Every step leaves every kind in place. *)
LEMMA TypeStep == TypeOK /\ [Next]_vars => TypeOK'
<1> SUFFICES ASSUME TypeOK, [Next]_vars
             PROVE  TypeOK'
    OBVIOUS
<1> USE ConstantsAssumption DEF TypeOK
<1> Fresh \in Budget
    BY DEF Fresh, Budget, Never, Days
<1> \A p : AfterTransaction(p) \in PcValues
    BY DEF AfterTransaction, PcValues, Outside
<1>1. ASSUME NEW p \in Procs, Request(p)
      PROVE  TypeOK'
    <2>1. CASE CreateRuntime(p)
        BY <2>1, BudgetTypes
           DEF CreateRuntime, Outside, PcValues, clock, call, file, Procs
    <2>2. CASE \E d \in Digests, forced \in BOOLEAN : RequestUpload(p, d, forced)
        BY <2>2 DEF RequestUpload, Goto, PcValues, clock, file, history
    <2>3. CASE \E d \in Digests : CliUpload(p, d)
        BY <2>3 DEF CliUpload, Goto, PcValues, clock, file, history
    <2>4. CASE CliClock(p)
        BY <2>4 DEF CliClock, Goto, PcValues, clock, call, file, history
    <2> QED
        BY <1>1, <2>1, <2>2, <2>3, <2>4 DEF Request
<1>2. ASSUME NEW p \in Procs, Acquire(p) \/ LockFails(p) \/ Crash(p)
      PROVE  TypeOK'
    <2> USE DEF Goto, ForgetCall, clock, call, file, history
    <2>1. CASE Acquire(p)
        BY <2>1 DEF Acquire, PcValues, Holding
    <2>2. CASE LockFails(p)
        BY <2>2 DEF LockFails
    <2>3. CASE Crash(p)
        BY <2>3 DEF Crash, PcValues, Outside
    <2> QED
        BY <1>2, <2>1, <2>2, <2>3
<1>3. ASSUME NEW p \in Procs, TransactionStep(p)
      PROVE  TypeOK'
    <2> USE DEF Finish, ForgetCall, Goto, clock, call, file, history
    <2> /\ "loaded" \in PcValues /\ "reserve" \in PcValues
        /\ "write" \in PcValues /\ "settle" \in PcValues
        BY DEF PcValues, Holding
    <2>1. CASE Reload(p)
        BY <2>1, BudgetTypes DEF Reload
    <2>2. ASSUME RefuseUnreadable(p) \/ SkipUnchanged(p) \/ TransferFails(p) \/ ClockDone(p)
          PROVE  TypeOK'
        <3>1. Finish(p) /\ UNCHANGED <<clock, mem, lastHash, file, history>>
            BY <2>2 DEF RefuseUnreadable, SkipUnchanged, TransferFails, ClockDone
        <3> QED
            BY <3>1
    <2>3. CASE DeferOrFailRender(p)
        BY <2>3, BudgetTypes DEF DeferOrFailRender
    <2>4. CASE Reserve(p)
        BY <2>4, BudgetTypes DEF Reserve
    <2>5. CASE Commit(p)
        <3>1. grants' \in [Days -> Nat]
            <4>1. CASE mem[p].day \in Days
                BY <2>5, <4>1 DEF Commit
            <4>2. CASE mem[p].day \notin Days
                BY <2>5, <4>2 DEF Commit
            <4> QED
                BY <4>1, <4>2
        <3>2. lastGrant' \in {Never} \union 0 .. MaxTime
            BY <2>5 DEF Commit, Budget
        <3> QED
            BY <2>5, <3>1, <3>2 DEF Commit
    <2>6. CASE CommitFails(p)
        BY <2>6 DEF CommitFails
    <2>7. CASE DeviceApplies(p)
        BY <2>7 DEF DeviceApplies
    <2>8. CASE UploadDone(p)
        <3>1. lastHash' \in [Procs -> Digests \union {NoDigest}]
            BY <2>8 DEF UploadDone
        <3>2. shown' \in [Procs -> SUBSET (Digests \union {NoDigest})]
            BY <2>8 DEF UploadDone
        <3> QED
            BY <2>8, <3>1, <3>2 DEF UploadDone
    <2> QED
        BY <1>3, <2>1, <2>2, <2>3, <2>4, <2>5, <2>6, <2>7, <2>8
           DEF TransactionStep, Decision
<1>4. CASE Damage \/ Tick
    BY <1>4 DEF Damage, Tick, clock, call, file, history, Days
<1>5. CASE UNCHANGED vars
    BY <1>5 DEF vars, clock, call, file, history
<1> QED
    BY <1>1, <1>2, <1>3, <1>4, <1>5 DEF Next

(* Every variable keeps the kind of value TypeOK gives it. *)
THEOREM TypeCorrect == Spec => []TypeOK
BY TypeInit, TypeStep, PTL DEF Spec

-----------------------------------------------------------------------------
(* Only a process that takes the lock enters a transaction, and leaving one *)
(* frees the lock.                                                         *)
LEMMA LockStep == TypeOK /\ LockInv /\ [Next]_vars => LockInv'
<1> SUFFICES ASSUME TypeOK, LockInv, [Next]_vars
             PROVE  LockInv'
    OBVIOUS
<1> USE ConstantsAssumption DEF LockInv, TypeOK, Holding
<1>1. ASSUME NEW p \in Procs, Request(p)
      PROVE  LockInv'
    <2> USE DEF Goto, Outside
    <2>1. CASE CreateRuntime(p)
        BY <2>1 DEF CreateRuntime
    <2>2. CASE \E d \in Digests, forced \in BOOLEAN : RequestUpload(p, d, forced)
        BY <2>2 DEF RequestUpload
    <2>3. CASE \E d \in Digests : CliUpload(p, d)
        BY <2>3 DEF CliUpload
    <2>4. CASE CliClock(p)
        BY <2>4 DEF CliClock
    <2> QED
        BY <1>1, <2>1, <2>2, <2>3, <2>4 DEF Request
<1>2. ASSUME NEW p \in Procs, Acquire(p)
      PROVE  LockInv'
    BY <1>2 DEF Acquire, Goto
<1>3. ASSUME NEW p \in Procs, LockFails(p)
      PROVE  LockInv'
    BY <1>3 DEF LockFails, AfterTransaction
<1>4. ASSUME NEW p \in Procs, Crash(p)
      PROVE  LockInv'
    BY <1>4 DEF Crash
<1>5. ASSUME NEW p \in Procs, pc[p] \in Holding, Finish(p)
      PROVE  LockInv'
    BY <1>5 DEF Finish, AfterTransaction
<1>6. ASSUME NEW p \in Procs, TransactionStep(p)
      PROVE  LockInv'
    <2>1. CASE Reload(p) \/ Reserve(p) \/ Commit(p) \/ DeviceApplies(p)
        BY <2>1 DEF Reload, Reserve, Commit, DeviceApplies, Goto
    <2>2. CASE RefuseUnreadable(p) \/ SkipUnchanged(p) \/ DeferOrFailRender(p)
               \/ CommitFails(p) \/ TransferFails(p) \/ UploadDone(p) \/ ClockDone(p)
        <3>1. pc[p] \in Holding /\ Finish(p)
            BY <2>2 DEF RefuseUnreadable, SkipUnchanged, DeferOrFailRender,
                        CommitFails, TransferFails, UploadDone, ClockDone
        <3> QED
            BY <3>1, <1>5
    <2> QED
        BY <1>6, <2>1, <2>2 DEF TransactionStep, Decision
<1>7. CASE Damage \/ Tick \/ UNCHANGED vars
    BY <1>7 DEF Damage, Tick, vars
<1> QED
    BY <1>1, <1>2, <1>3, <1>4, <1>6, <1>7 DEF Next

(* It starts with the lock free. *)
LEMMA LockInit == Init => LockInv
BY ConstantsAssumption DEF Init, LockInv, Holding

(* At most one process is inside a transaction.                            *)
THEOREM MutexCorrect == Spec => []MutualExclusion
<1>1. Init => TypeOK /\ LockInv
    BY TypeInit, LockInit
<1>2. TypeOK /\ LockInv /\ [Next]_vars => (TypeOK /\ LockInv)'
    BY TypeStep, LockStep
<1>3. LockInv => MutualExclusion
    BY DEF LockInv, MutualExclusion
<1> QED
    BY <1>1, <1>2, <1>3, PTL DEF Spec

-----------------------------------------------------------------------------
(* What the budgets know of the committed reservations.                    *)

(* A new budget has spent nothing. *)
LEMMA FreshModest == Modest(Fresh)
BY DEF Modest, Fresh, Never

(* A budget that is as new as the row is within the cap. *)
LEMMA CurrentModest ==
    ASSUME TypeOK, RowInv, NEW b \in Budget, Current(b)
    PROVE  Modest(b)
BY DEF TypeOK, RowInv, Current, Modest, Budget, Never

(* A new day leaves a budget within the cap. *)
LEMMA RolledModest ==
    ASSUME TypeOK, NEW b \in Budget, Modest(b)
    PROVE  Modest(Rolled(b))
BY DEF TypeOK, Modest, Rolled, Budget, Never

(* A new day leaves it as new as the row. *)
LEMMA RolledCurrent ==
    ASSUME TypeOK, RowInv, NEW b \in Budget, Current(b), b.day <= today
    PROVE  Current(Rolled(b))
BY ConstantsAssumption DEF TypeOK, RowInv, Current, Rolled, Budget, Never, Days

(* The row tells a process all there is to know. *)
LEMMA RestoredCurrent ==
    ASSUME TypeOK, RowInv, fileState # "absent"
    PROVE  Current(Restored(row))
BY ConstantsAssumption
   DEF TypeOK, RowInv, Current, Restored, Rolled, Budget, Never, Days

(* A step of p outside the row, the clock and the history leaves what holds *)
(* of the other processes.                                                 *)
LEMMA LocalStep ==
    ASSUME RowInv, MemInv, NEW p \in Procs,
           UNCHANGED <<clock, file, grants, lastGrant>>,
           \A q \in Procs \ {p} : /\ pc'[q] = pc[q] /\ mem'[q] = mem[q]
                                  /\ saved'[q] = saved[q] /\ force'[q] = force[q],
           MemOK(p)'
    PROVE  RowInv' /\ MemInv'
<1>1. RowInv'
    BY DEF RowInv, clock, file
<1>2. ASSUME NEW q \in Procs \ {p}
      PROVE  MemOK(q)'
    BY <1>2 DEF MemInv, MemOK, Current, Modest, clock, file
<1> QED
    BY <1>1, <1>2 DEF MemInv

(* A request brings a budget that is not newer than the row, *)
LEMMA RequestStep ==
    ASSUME TypeOK, RowInv, MemInv, NEW p \in Procs, Request(p)
    PROVE  RowInv' /\ MemInv'
<1> USE ConstantsAssumption DEF TypeOK
<1>1. MemOK(p)
    BY DEF MemInv
<1>2. CASE CreateRuntime(p)
    <2>1. Modest(Restored(row)) \/ fileState # "ok"
        BY BudgetTypes, RestoredCurrent, CurrentModest
    <2>2. Modest(mem'[p]) /\ mem'[p].day <= today /\ pc'[p] = "idle"
        BY <1>2, <2>1, FreshModest
           DEF CreateRuntime, Restored, Fresh, Never, Days
    <2>3. MemOK(p)'
        BY <1>2, <2>2 DEF CreateRuntime, MemOK, Modest, clock, file
    <2> QED
        BY <1>2, <2>3, LocalStep DEF CreateRuntime, call
<1>3. CASE \E d \in Digests, forced \in BOOLEAN : RequestUpload(p, d, forced)
    <2>1. MemOK(p)'
        BY <1>1, <1>3 DEF RequestUpload, Goto, MemOK, Modest, clock, file, history
    <2> QED
        BY <1>3, <2>1, LocalStep DEF RequestUpload, Goto, history
<1>4. CASE \E d \in Digests : CliUpload(p, d)
    <2>1. Modest(mem'[p]) /\ mem'[p].day <= today /\ pc'[p] = "wait"
        BY <1>4, FreshModest DEF CliUpload, Goto, Fresh, Never, Days
    <2>2. MemOK(p)'
        BY <1>4, <2>1 DEF CliUpload, MemOK, Modest, clock, file, history
    <2> QED
        BY <1>4, <2>2, LocalStep DEF CliUpload, Goto, history
<1>5. CASE CliClock(p)
    <2>1. MemOK(p)'
        BY <1>1, <1>5 DEF CliClock, Goto, MemOK, Modest, clock, file, history
    <2> QED
        BY <1>5, <2>1, LocalStep DEF CliClock, Goto, history, call
<1> QED
    BY <1>2, <1>3, <1>4, <1>5 DEF Request

(* the lock changes none, *)
LEMMA LockStepsKeepBudgets ==
    ASSUME TypeOK, RowInv, MemInv, NEW p \in Procs,
           Acquire(p) \/ LockFails(p) \/ Crash(p)
    PROVE  RowInv' /\ MemInv'
<1> USE ConstantsAssumption DEF TypeOK
<1>1. MemOK(p)
    BY DEF MemInv
<1>2. CASE Acquire(p)
    <2>1. MemOK(p)'
        BY <1>1, <1>2 DEF Acquire, Goto, MemOK, Modest, clock, file, history
    <2> QED
        BY <1>2, <2>1, LocalStep DEF Acquire, Goto, history, call
<1>3. CASE LockFails(p)
    <2>1. MemOK(p)'
        BY <1>1, <1>3
           DEF LockFails, AfterTransaction, MemOK, Modest, clock, file, history
    <2> QED
        BY <1>3, <2>1, LocalStep DEF LockFails, ForgetCall, history
<1>4. CASE Crash(p)
    <2>1. Modest(mem'[p]) /\ mem'[p].day <= today /\ pc'[p] = "down"
        BY <1>4, FreshModest DEF Crash, Fresh, Never, Days
    <2>2. MemOK(p)'
        BY <1>4, <2>1 DEF Crash, MemOK, Modest, clock, file
    <2> QED
        BY <1>4, <2>2, LocalStep DEF Crash, ForgetCall
<1> QED
    BY <1>2, <1>3, <1>4

(* the decisions change none but by what the row has, *)
LEMMA DecisionsKeepBudgets ==
    ASSUME TypeOK, RowInv, MemInv, NEW p \in Procs,
           Reload(p) \/ RefuseUnreadable(p) \/ Decision(p) \/ CommitFails(p)
           \/ DeviceApplies(p) \/ TransferFails(p) \/ UploadDone(p) \/ ClockDone(p)
    PROVE  RowInv' /\ MemInv'
<1> USE ConstantsAssumption DEF TypeOK
<1>1. MemOK(p)
    BY DEF MemInv
<1>2. CASE Reload(p)
    <2>1. pc[p] = "locked" /\ pc'[p] = "loaded"
        BY <1>2 DEF Reload, Goto
    <2>2. Current(mem'[p]) /\ mem'[p].day <= today /\ mem'[p] \in Budget
        <3>1. CASE fileState = "ok"
            <4>1. mem'[p] = Restored(row)
                BY <1>2, <3>1 DEF Reload
            <4>2. mem'[p].day = today
                BY <4>1 DEF Restored
            <4> QED
                BY <3>1, <4>1, <4>2, RestoredCurrent, BudgetTypes DEF Days
        <3>2. CASE fileState = "absent"
            BY <1>1, <1>2, <3>2, <2>1
               DEF Reload, MemOK, Modest, Current, RowInv, Budget, Never
        <3> QED
            BY <1>2, <3>1, <3>2 DEF Reload
    <2>3. Modest(mem'[p])
        BY <2>2, CurrentModest
    <2>4. MemOK(p)'
        BY <1>2, <2>1, <2>2, <2>3
           DEF Reload, MemOK, Current, Modest, clock, file, history
    <2> QED
        BY <1>2, <2>4, LocalStep DEF Reload, Goto, call, history
<1>3. ASSUME RefuseUnreadable(p) \/ SkipUnchanged(p) \/ TransferFails(p)
             \/ UploadDone(p) \/ ClockDone(p)
      PROVE  RowInv' /\ MemInv'
    <2>1. /\ Finish(p)
          /\ pc[p] # "reserve"
          /\ UNCHANGED <<clock, mem, file, grants, lastGrant>>
        BY <1>3 DEF RefuseUnreadable, SkipUnchanged, TransferFails, UploadDone,
                    ClockDone, history
    <2>2. MemOK(p)'
        BY <1>1, <2>1 DEF Finish, AfterTransaction, MemOK, Modest, clock, file
    <2> QED
        BY <2>1, <2>2, LocalStep DEF Finish, ForgetCall
<1>4. CASE DeferOrFailRender(p)
    <2>1. Modest(mem'[p]) /\ mem'[p].day <= today
        BY <1>1, <1>4, RolledModest DEF DeferOrFailRender, MemOK, Rolled, Days
    <2>2. MemOK(p)'
        BY <1>4, <2>1 DEF DeferOrFailRender, Finish, AfterTransaction, MemOK,
                          Modest, clock, file, history
    <2> QED
        BY <1>4, <2>2, LocalStep DEF DeferOrFailRender, Finish, ForgetCall, history
<1>5. CASE Reserve(p)
    <2>1. pc[p] = "loaded" /\ pc'[p] = "reserve"
        BY <1>5 DEF Reserve, Goto
    <2>2. /\ saved'[p] = Rolled(mem[p])
          /\ mem'[p] = Recorded(mem[p])
          /\ force'[p] = force[p]
        BY <1>5 DEF Reserve
    <2>3. Current(saved'[p])
        BY <1>1, <2>1, <2>2, RolledCurrent DEF MemOK
    <2>4. /\ saved'[p].day = today
          /\ saved'[p].count < DailyLimit
          /\ mem'[p].day = today
          /\ mem'[p].count = saved'[p].count + 1
          /\ mem'[p].last = now
          /\ saved'[p].last = mem[p].last
        BY <1>5, <2>2 DEF Reserve, CanUpload, Rolled, Recorded
    <2>5. \/ saved'[p].last = Never
          \/ force'[p]
          \/ mem'[p].last - saved'[p].last >= MinInterval
        BY <1>5, <2>2, <2>4 DEF Reserve, CanUpload
    <2>6. UNCHANGED <<clock, file, history>>
        BY <1>5 DEF Reserve
    <2>7. Current(saved[p])'
        BY <2>3, <2>6 DEF Current, file, history
    <2>8. MemOK(p)'
        BY <2>1, <2>4, <2>5, <2>6, <2>7 DEF MemOK, clock, Days
    <2> QED
        BY <1>5, <2>8, LocalStep DEF Reserve, Goto, history
<1>6. CASE CommitFails(p)
    <2>1. Modest(mem'[p]) /\ mem'[p].day <= today
        BY <1>1, <1>6, CurrentModest DEF CommitFails, MemOK
    <2>2. MemOK(p)'
        BY <1>6, <2>1 DEF CommitFails, Finish, AfterTransaction, MemOK, Modest,
                          clock, file, history
    <2> QED
        BY <1>6, <2>2, LocalStep DEF CommitFails, Finish, ForgetCall, history
<1>7. CASE DeviceApplies(p)
    <2>1. MemOK(p)'
        BY <1>1, <1>7 DEF DeviceApplies, Goto, MemOK, Modest, clock, file, call
    <2> QED
        BY <1>7, <2>1, LocalStep DEF DeviceApplies, Goto, call
<1> QED
    BY <1>2, <1>3, <1>4, <1>5, <1>6, <1>7 DEF Decision

(* The commit makes the row the budget of the one process that is in a      *)
(* reservation; everybody else is outside and believes in less.            *)
LEMMA CommitStep ==
    ASSUME TypeOK, LockInv, RowInv, MemInv, NEW p \in Procs, Commit(p)
    PROVE  RowInv' /\ MemInv'
<1> USE ConstantsAssumption DEF TypeOK
<1> DEFINE d == mem[p].day
<1>1. pc[p] = "reserve" /\ pc' = [pc EXCEPT ![p] = "write"]
    BY DEF Commit, Goto
<1>2. /\ Current(saved[p])
      /\ d \in Days /\ d <= today
      /\ saved[p].day = d
      /\ saved[p].count = grants[d]
      /\ mem[p].count = grants[d] + 1
      /\ grants[d] < DailyLimit
      /\ mem[p].last \in 0 .. now
    <2>1. MemOK(p) /\ saved[p].day \in Days /\ Current(saved[p])
        BY <1>1 DEF MemInv, MemOK
    <2>2. saved[p].count = grants[saved[p].day]
        BY <2>1 DEF Current, Never, Days
    <2> QED
        BY <1>1, <2>1, <2>2 DEF MemOK
<1>3. \A e \in Days : e > d => grants[e] = 0
    <2>1. CASE fileState = "absent"
        BY <2>1 DEF RowInv
    <2>2. CASE fileState # "absent"
        <3>1. row.day <= d /\ row.day \in Days
            BY <1>2, <2>2 DEF Current, RowInv
        <3> QED
            BY SMTT(40), <1>2, <2>2, <3>1 DEF RowInv, Days
    <2> QED
        BY <2>1, <2>2
<1>4. /\ grants' = [grants EXCEPT ![d] = @ + 1]
      /\ lastGrant' = mem[p].last
      /\ row' = mem[p] /\ fileState' = "ok"
      /\ UNCHANGED <<now, today, mem, saved, force>>
    BY DEF Commit, clock, call
<1>5. \A e \in Days : grants'[e] = IF e = d THEN grants[e] + 1 ELSE grants[e]
    BY <1>2, <1>4
<1>6. RowInv'
    BY <1>2, <1>3, <1>4, <1>5 DEF RowInv, Days
<1>7. ASSUME NEW q \in Procs
      PROVE  MemOK(q)'
    <2>1. pc'[q] # "reserve" /\ pc'[q] # "loaded"
        BY <1>1 DEF LockInv, Holding
    <2>2. CASE q = p
        BY <1>2, <1>4, <1>5, <2>1, <2>2 DEF MemOK, Modest, Days
    <2>3. CASE q # p
        <3>1. pc[q] # "reserve"
            BY <1>1, <2>3 DEF LockInv, Holding
        <3>2. mem[q].day <= today /\ Modest(mem[q])
            BY <3>1 DEF MemInv, MemOK
        <3>3. mem[q].day # Never => mem[q].day \in Days /\ mem[q].count \in Nat
            BY DEF Budget
        <3>4. mem[q].day # Never => mem[q].count <= grants'[mem[q].day]
            BY <1>5, <3>2, <3>3 DEF Modest
        <3> QED
            BY <1>4, <2>1, <3>2, <3>4 DEF MemOK, Modest
    <2> QED
        BY <2>2, <2>3
<1> QED
    BY <1>6, <1>7 DEF MemInv

(* and the world changes none for the worse. *)
LEMMA EnvironmentStep ==
    ASSUME TypeOK, RowInv, MemInv, Damage \/ Tick \/ UNCHANGED vars
    PROVE  RowInv' /\ MemInv'
<1> USE ConstantsAssumption DEF TypeOK
<1>1. /\ now <= now' /\ today <= today'
      /\ now' \in Int /\ today' \in Int
      /\ fileState' = "absent" <=> fileState = "absent"
      /\ UNCHANGED <<pc, mem, saved, force, row, grants, lastGrant>>
    BY DEF Damage, Tick, vars, clock, call, file, history, Days
<1>2. RowInv'
    <2>1. lastGrant' <= now'
        BY <1>1 DEF RowInv, Never
    <2>2. fileState' # "absent" => row'.day \in Days /\ row'.day <= today'
        BY <1>1 DEF RowInv, Days
    <2> QED
        BY <1>1, <2>1, <2>2 DEF RowInv
<1>3. ASSUME NEW p \in Procs
      PROVE  MemOK(p)'
    <2>1. MemOK(p)
        BY DEF MemInv
    <2>2. mem[p].day \in Int
        BY DEF Budget, Never, Days
    <2>3. mem'[p].day <= today'
        BY <1>1, <2>1, <2>2 DEF MemOK, Days
    <2>4. mem[p].last \in 0 .. now => mem[p].last \in 0 .. now'
        BY <1>1
    <2> QED
        BY <1>1, <2>1, <2>3, <2>4 DEF MemOK, Current, Modest
<1> QED
    BY <1>2, <1>3 DEF MemInv

(* The inductive invariant.                                                *)
THEOREM WearInvariant == Spec => []WearInv
<1> USE DEF WearInv
<1>1. Init => WearInv
    <2>1. Init => RowInv
        BY ConstantsAssumption DEF Init, RowInv, Never, Days
    <2>2. Init => MemInv
        BY ConstantsAssumption
           DEF Init, MemInv, MemOK, Modest, Fresh, Never, Days, Procs
    <2> QED
        BY <2>1, <2>2, TypeInit, LockInit
<1>2. WearInv /\ [Next]_vars => WearInv'
    <2> SUFFICES ASSUME WearInv, [Next]_vars
                 PROVE  RowInv' /\ MemInv'
        BY TypeStep, LockStep
    <2>1. ASSUME NEW p \in Procs, Request(p)
          PROVE  RowInv' /\ MemInv'
        BY <2>1, RequestStep
    <2>2. ASSUME NEW p \in Procs, Acquire(p) \/ LockFails(p) \/ Crash(p)
          PROVE  RowInv' /\ MemInv'
        BY <2>2, LockStepsKeepBudgets
    <2>3. ASSUME NEW p \in Procs, Commit(p)
          PROVE  RowInv' /\ MemInv'
        BY <2>3, CommitStep
    <2>4. ASSUME NEW p \in Procs, TransactionStep(p), ~Commit(p)
          PROVE  RowInv' /\ MemInv'
        BY <2>4, DecisionsKeepBudgets DEF TransactionStep
    <2>5. CASE Damage \/ Tick \/ UNCHANGED vars
        BY <2>5, EnvironmentStep
    <2> QED
        BY <2>1, <2>2, <2>3, <2>4, <2>5 DEF Next
<1> QED
    BY <1>1, <1>2, PTL DEF Spec

(* No date gets more reservations than the limit.                          *)
THEOREM DailyCapCorrect == Spec => []DailyCap
<1>1. WearInv => DailyCap
    BY DEF WearInv, RowInv, DailyCap
<1> QED
    BY <1>1, WearInvariant, PTL

(* The row a restart will read knows every reservation of its date.        *)
THEOREM RowRemembersCorrect == Spec => []RowRemembers
<1>1. WearInv => RowRemembers
    BY DEF WearInv, RowInv, RowRemembers
<1> QED
    BY <1>1, WearInvariant, PTL

(* The only way to the keyboard's flash is a commit.                       *)
LEMMA OnlyCommitEntersWrite ==
    ASSUME TypeOK, [Next]_vars, NEW p \in Procs, pc[p] # "write", pc'[p] = "write"
    PROVE  Commit(p)
<1> USE DEF TypeOK
<1>1. ASSUME NEW q \in Procs, Request(q) PROVE FALSE
    BY <1>1 DEF Request, CreateRuntime, RequestUpload, CliUpload, CliClock, Goto
<1>2. ASSUME NEW q \in Procs, Acquire(q) \/ LockFails(q) \/ Crash(q) PROVE FALSE
    BY <1>2 DEF Acquire, LockFails, Crash, Goto, AfterTransaction
<1>3. ASSUME NEW q \in Procs, Finish(q) PROVE FALSE
    BY <1>3 DEF Finish, AfterTransaction
<1>4. ASSUME NEW q \in Procs, TransactionStep(q), ~Commit(q) PROVE FALSE
    <2>1. Reload(q) \/ Reserve(q) \/ DeviceApplies(q)
        BY <1>3, <1>4
           DEF TransactionStep, Decision, RefuseUnreadable, SkipUnchanged,
               DeferOrFailRender, CommitFails, TransferFails, UploadDone, ClockDone
    <2> QED
        BY <2>1 DEF Reload, Reserve, DeviceApplies, Goto
<1>5. ASSUME NEW q \in Procs, Commit(q) PROVE Commit(p)
    BY <1>5 DEF Commit, Goto
<1>6. CASE Damage \/ Tick \/ UNCHANGED vars
    BY <1>6 DEF Damage, Tick, vars
<1> QED
    BY <1>1, <1>2, <1>4, <1>5, <1>6 DEF Next

(* Nobody but the user shortens the cooldown.                              *)
THEOREM CooldownCorrect == Spec => CooldownKept
<1>1. ASSUME WearInv, [Next]_vars, NEW p \in Procs,
             pc[p] = "reserve", pc'[p] = "write", ~force[p], lastGrant # Never
      PROVE  lastGrant' - lastGrant >= MinInterval
    <2>1. /\ saved[p].last = lastGrant
          /\ mem[p].last - saved[p].last >= MinInterval
        BY <1>1 DEF WearInv, MemInv, MemOK, Current
    <2>2. lastGrant' = mem[p].last
        BY <1>1, OnlyCommitEntersWrite DEF WearInv, Commit
    <2> QED
        BY <2>1, <2>2
<1>2. WearInv /\ [Next]_vars =>
        (\A p \in Procs :
            /\ pc[p] = "reserve" /\ pc'[p] = "write"
            /\ ~force[p]
            /\ lastGrant # Never
            => lastGrant' - lastGrant >= MinInterval)
    BY <1>1
<1> QED
    BY <1>2, WearInvariant, PTL DEF Spec, CooldownKept

-----------------------------------------------------------------------------
(* What a runtime takes for displayed changes when it is created, when an   *)
(* upload of its own is done, and when it dies.                            *)
LEMMA HashStep == TypeOK /\ HashWasShown /\ [Next]_vars => HashWasShown'
<1> SUFFICES ASSUME TypeOK, HashWasShown, [Next]_vars
             PROVE  HashWasShown'
    OBVIOUS
<1> USE DEF TypeOK, HashWasShown
<1>1. ASSUME UNCHANGED <<lastHash, shown>>
      PROVE  HashWasShown'
    BY <1>1
<1>2. ASSUME NEW p \in Procs, CreateRuntime(p) \/ Crash(p)
      PROVE  HashWasShown'
    <2>1. /\ lastHash' = [lastHash EXCEPT ![p] = NoDigest]
          /\ \A q \in Procs : q # p => shown'[q] = shown[q]
        BY <1>2 DEF CreateRuntime, Crash
    <2> QED
        BY <2>1 DEF Procs
<1>3. ASSUME NEW p \in Procs, UploadDone(p)
      PROVE  HashWasShown'
    BY <1>3 DEF UploadDone, Procs
<1>4. ASSUME NEW p \in Procs, Request(p), ~CreateRuntime(p)
      PROVE  HashWasShown'
    BY <1>4, <1>1 DEF Request, RequestUpload, CliUpload, CliClock, history
<1>5. ASSUME NEW p \in Procs, TransactionStep(p), ~UploadDone(p)
      PROVE  HashWasShown'
    BY <1>5, <1>1
       DEF TransactionStep, Decision, Reload, RefuseUnreadable, SkipUnchanged,
           DeferOrFailRender, Reserve, Commit, CommitFails, DeviceApplies, TransferFails,
           ClockDone, history
<1>6. ASSUME NEW p \in Procs, Acquire(p) \/ LockFails(p)
      PROVE  HashWasShown'
    BY <1>6, <1>1 DEF Acquire, LockFails, history
<1>7. CASE Damage \/ Tick \/ UNCHANGED vars
    BY <1>7, <1>1 DEF Damage, Tick, vars, history
<1> QED
    BY <1>2, <1>3, <1>4, <1>5, <1>6, <1>7 DEF Next

(* A runtime never takes for displayed what it has not put on the keyboard  *)
(* itself, so a failed transfer is tried again.                            *)
THEOREM HashCorrect == Spec => []HashWasShown
<1>1. Init => HashWasShown
    BY DEF Init, HashWasShown, Procs
<1> QED
    BY <1>1, TypeCorrect, HashStep, PTL DEF Spec

-----------------------------------------------------------------------------
(* Only a row that can be read lets a transaction get on. *)
LEMMA OnlyReloadLoads ==
    ASSUME TypeOK, [Next]_vars, NEW p \in Procs, pc[p] # "loaded", pc'[p] = "loaded"
    PROVE  Reload(p)
<1> USE DEF TypeOK
<1>1. ASSUME NEW q \in Procs, Request(q) PROVE FALSE
    BY <1>1 DEF Request, CreateRuntime, RequestUpload, CliUpload, CliClock, Goto
<1>2. ASSUME NEW q \in Procs, Acquire(q) \/ LockFails(q) \/ Crash(q) PROVE FALSE
    BY <1>2 DEF Acquire, LockFails, Crash, Goto, AfterTransaction
<1>3. ASSUME NEW q \in Procs, Finish(q) PROVE FALSE
    BY <1>3 DEF Finish, AfterTransaction
<1>4. ASSUME NEW q \in Procs, TransactionStep(q), ~Reload(q) PROVE FALSE
    <2>1. Commit(q) \/ Reserve(q) \/ DeviceApplies(q)
        BY <1>3, <1>4
           DEF TransactionStep, Decision, RefuseUnreadable, SkipUnchanged,
               DeferOrFailRender, CommitFails, TransferFails, UploadDone, ClockDone
    <2> QED
        BY <2>1 DEF Commit, Reserve, DeviceApplies, Goto
<1>5. ASSUME NEW q \in Procs, Reload(q) PROVE Reload(p)
    BY <1>5 DEF Reload, Goto
<1>6. CASE Damage \/ Tick \/ UNCHANGED vars
    BY <1>6 DEF Damage, Tick, vars
<1> QED
    BY <1>1, <1>2, <1>4, <1>5, <1>6 DEF Next

-----------------------------------------------------------------------------
(* Flash writes against reservations.                                      *)

(* Where nothing is granted and nothing applied, the count stays. *)
LEMMA QuietStep ==
    ASSUME TypeOK, ApplyInv, UNCHANGED <<today, grants, applies>>,
           \A p \in Procs : pc'[p] \in {"reserve", "write"} =>
               pc'[p] = pc[p] /\ mem'[p] = mem[p]
    PROVE  ApplyInv'
BY DEF ApplyInv

(* What a step does to the writer, the reservations and the flash writes.   *)
LEMMA StepKinds ==
    ASSUME TypeOK, [Next]_vars
    PROVE  \/ \E p \in Procs : Reserve(p) \/ Commit(p) \/ DeviceApplies(p)
           \/ /\ UNCHANGED <<today, grants, applies>>
              /\ \A p \in Procs : pc'[p] \in {"reserve", "write"} =>
                     pc'[p] = pc[p] /\ mem'[p] = mem[p]
           \/ Tick
<1> USE DEF TypeOK
<1> DEFINE Quiet(p, x) ==
        /\ UNCHANGED <<today, grants, applies>>
        /\ pc' = [pc EXCEPT ![p] = x] /\ x \notin {"reserve", "write"}
        /\ \A q \in Procs : q # p => mem'[q] = mem[q]
<1>1. ASSUME NEW p \in Procs, NEW x, Quiet(p, x)
      PROVE  /\ UNCHANGED <<today, grants, applies>>
             /\ \A q \in Procs : pc'[q] \in {"reserve", "write"} =>
                     pc'[q] = pc[q] /\ mem'[q] = mem[q]
    BY <1>1
<1>2. ASSUME NEW p \in Procs, Request(p)
      PROVE  \E x : Quiet(p, x)
    <2>1. CASE CreateRuntime(p)
        <3>1. Quiet(p, "idle")
            BY <2>1 DEF CreateRuntime, clock
        <3> QED BY <3>1
    <2>2. CASE \E d \in Digests, forced \in BOOLEAN : RequestUpload(p, d, forced)
        <3>1. Quiet(p, "wait")
            BY <2>2 DEF RequestUpload, Goto, clock, history
        <3> QED BY <3>1
    <2>3. CASE \E d \in Digests : CliUpload(p, d)
        <3>1. Quiet(p, "wait")
            BY <2>3 DEF CliUpload, Goto, clock, history
        <3> QED BY <3>1
    <2>4. CASE CliClock(p)
        <3>1. Quiet(p, "waitclock")
            BY <2>4 DEF CliClock, Goto, clock, history
        <3> QED BY <3>1
    <2> QED
        BY <1>2, <2>1, <2>2, <2>3, <2>4 DEF Request
<1>3. ASSUME NEW p \in Procs, Acquire(p) \/ LockFails(p) \/ Crash(p)
      PROVE  \E x : Quiet(p, x)
    <2>1. CASE Acquire(p)
        <3>1. Quiet(p, "locked") \/ Quiet(p, "clock")
            BY <2>1 DEF Acquire, Goto, clock, history
        <3> QED BY <3>1
    <2>2. CASE LockFails(p)
        <3>1. Quiet(p, AfterTransaction(p))
            BY <2>2 DEF LockFails, AfterTransaction, clock, history
        <3> QED BY <3>1
    <2>3. CASE Crash(p)
        <3>1. Quiet(p, "down")
            BY <2>3 DEF Crash, clock
        <3> QED BY <3>1
    <2> QED
        BY <1>3, <2>1, <2>2, <2>3
<1>4. ASSUME NEW p \in Procs, TransactionStep(p),
             ~(Reserve(p) \/ Commit(p) \/ DeviceApplies(p))
      PROVE  \E x : Quiet(p, x)
    <2>1. CASE Reload(p)
        <3>1. Quiet(p, "loaded")
            BY <2>1 DEF Reload, Goto, clock, history
        <3> QED BY <3>1
    <2>2. ASSUME ~Reload(p)
          PROVE  Quiet(p, AfterTransaction(p))
        <3>1. /\ Finish(p)
              /\ UNCHANGED <<today, grants, applies>>
              /\ \A q \in Procs : q # p => mem'[q] = mem[q]
            BY <1>4, <2>2
               DEF TransactionStep, Decision, RefuseUnreadable, SkipUnchanged,
                   DeferOrFailRender, CommitFails, TransferFails, UploadDone,
                   ClockDone, clock, history
        <3> QED
            BY <3>1 DEF Finish, AfterTransaction
    <2> QED
        BY <2>1, <2>2
<1>5. CASE Damage \/ UNCHANGED vars
    BY <1>5 DEF Damage, vars, clock, history
<1> QED
    BY <1>1, <1>2, <1>3, <1>4, <1>5 DEF Next

(* What cannot be read permits no upload: a damaged row ends every          *)
(* transaction that has not loaded it before.                              *)
THEOREM UnreadableCorrect == Spec => UnreadableFailsClosed
<1>1. ASSUME TypeOK, [Next]_vars, fileState = "unreadable",
             \A p \in Procs : pc[p] \notin {"loaded", "reserve"}
      PROVE  UNCHANGED grants /\ \A p \in Procs : pc'[p] # "loaded"
    <2>1. ASSUME NEW p \in Procs, pc'[p] = "loaded"
          PROVE  FALSE
        BY <1>1, <2>1, OnlyReloadLoads DEF Reload
    <2>2. UNCHANGED grants
        <3>1. CASE \E p \in Procs : Reserve(p) \/ Commit(p) \/ DeviceApplies(p)
            BY <1>1, <3>1 DEF Reserve, Commit, DeviceApplies, Goto
        <3>2. CASE Tick
            BY <3>2 DEF Tick, history
        <3> QED
            BY <1>1, <3>1, <3>2, StepKinds
    <2> QED
        BY <2>1, <2>2
<1>2. TypeOK /\ [Next]_vars =>
        (fileState = "unreadable" /\ (\A p \in Procs : pc[p] \notin {"loaded", "reserve"})
            => UNCHANGED grants /\ \A p \in Procs : pc'[p] # "loaded")
    BY <1>1
<1> QED
    BY <1>2, TypeCorrect, PTL DEF Spec, UnreadableFailsClosed

(* Every step keeps what is applied near what is granted. *)
LEMMA ApplyStep ==
    ASSUME WearInv, ApplyInv, [Next]_vars
    PROVE  ApplyInv'
<1> USE ConstantsAssumption DEF TypeOK
<1> TypeOK /\ LockInv /\ MemInv /\ RowInv
    BY DEF WearInv
<1>1. ASSUME NEW p \in Procs, Reserve(p)
      PROVE  ApplyInv'
    <2>1. /\ UNCHANGED <<today, grants, applies>>
          /\ pc' = [pc EXCEPT ![p] = "reserve"]
          /\ mem' = [mem EXCEPT ![p] = Recorded(mem[p])]
        BY <1>1 DEF Reserve, Goto, clock, history
    <2>2. mem'[p].day = today
        BY <2>1 DEF Recorded
    <2> QED
        BY <2>1, <2>2 DEF ApplyInv
<1>2. ASSUME NEW p \in Procs, Commit(p)
      PROVE  ApplyInv'
    <2>1. /\ UNCHANGED <<today, mem, applies>>
          /\ pc[p] = "reserve" /\ pc' = [pc EXCEPT ![p] = "write"]
          /\ grants' = [grants EXCEPT ![mem[p].day] = @ + 1]
        BY <1>2 DEF Commit, Goto, clock
    <2>2. mem[p].day \in Days
        BY <2>1 DEF ApplyInv
    <2>3. \A d \in Days : grants'[d] = IF d = mem[p].day THEN grants[d] + 1 ELSE grants[d]
        BY <2>1, <2>2
    <2>4. \A q \in Procs : pc'[q] = "write" => q = p
        BY <2>1 DEF LockInv, Holding
    <2> QED
        BY <2>1, <2>2, <2>3, <2>4 DEF ApplyInv
<1>3. ASSUME NEW p \in Procs, DeviceApplies(p)
      PROVE  ApplyInv'
    <2>1. /\ UNCHANGED <<today, mem, grants>>
          /\ pc[p] = "write" /\ pc' = [pc EXCEPT ![p] = "settle"]
          /\ applies' = [applies EXCEPT ![today] = @ + 1]
        BY <1>3 DEF DeviceApplies, Goto, clock
    <2>2. \A q \in Procs : pc'[q] \notin {"reserve", "write"}
        BY <2>1 DEF LockInv, Holding
    <2>3. \A d \in Days : applies'[d] = IF d = today THEN applies[d] + 1 ELSE applies[d]
        BY <2>1
    <2>4. mem[p].day \in Days /\ mem[p].day <= today
        BY <2>1 DEF ApplyInv, MemInv, MemOK
    <2>5. applies[today] <= grants[today]
        <3>1. CASE mem[p].day = today
            BY <2>1, <3>1 DEF ApplyInv
        <3>2. CASE mem[p].day # today
            <4>1. today > mem[p].day
                BY <2>4, <3>2 DEF Days
            <4> QED
                BY <2>1, <4>1 DEF ApplyInv
        <3> QED
            BY <3>1, <3>2
    <2>6. \A d \in Days : applies'[d] <= grants'[d] + 1
        BY <2>1, <2>3, <2>5 DEF ApplyInv
    <2>7. \A d \in Days : d > today' => applies'[d] = 0
        BY <2>1, <2>3 DEF ApplyInv, Days
    <2> QED
        BY <2>2, <2>6, <2>7 DEF ApplyInv
<1>4. CASE Tick
    <2>1. /\ UNCHANGED <<pc, mem, grants, applies>>
          /\ \A d \in Days : d > today' => d > today
        BY <1>4 DEF Tick, history, Days
    <2> QED
        BY <2>1 DEF ApplyInv
<1> QED
    BY <1>1, <1>2, <1>3, <1>4, QuietStep, StepKinds

(* It starts with nothing applied. *)
LEMMA ApplyInit == Init => ApplyInv
BY ConstantsAssumption DEF Init, ApplyInv, Days

(* One flash write of a date at most is not among its reservations: the     *)
(* transfer that came over midnight.                                       *)
THEOREM AppliesNearCapCorrect == Spec => []AppliesNearCap
<1>1. WearInv /\ ApplyInv => AppliesNearCap
    BY ConstantsAssumption
       DEF WearInv, TypeOK, RowInv, ApplyInv, AppliesNearCap
<1>2. Spec => []ApplyInv
    BY WearInvariant, ApplyInit, ApplyStep, PTL DEF Spec
<1> QED
    BY <1>1, <1>2, WearInvariant, PTL

(* Every step is a step of FlashCap, or none: a commit hands out the one     *)
(* open permission, the flash write uses it, any other end of the transfer *)
(* forfeits it.                                                            *)
THEOREM FlashCapImplemented == Spec => ImplementsFlashCap
<1> USE DEF Cap!capVars
<1>1. Init => Cap!CapInit
    BY DEF Init, Cap!CapInit
<1>2. ASSUME WearInv, [Next]_vars
      PROVE  [Cap!CapNext]_Cap!capVars
    <2> USE <1>2 DEF TypeOK
    <2> TypeOK /\ LockInv /\ MemInv /\ RowInv
        BY DEF WearInv
    <2> DEFINE open == \E q \in Procs : pc[q] = "write"
    <2>1. ASSUME NEW p \in Procs, Reserve(p)
          PROVE  UNCHANGED Cap!capVars
        <3>1. UNCHANGED <<grants, applies>> /\ pc[p] = "loaded" /\ pc' = [pc EXCEPT ![p] = "reserve"]
            BY <2>1 DEF Reserve, Goto, history
        <3> QED
            BY <3>1
    <2>2. ASSUME NEW p \in Procs, Commit(p)
          PROVE  Cap!CapNext
        <3>1. pc[p] = "reserve" /\ pc' = [pc EXCEPT ![p] = "write"]
            BY <2>2 DEF Commit, Goto
        <3>2. ~open /\ open'
            BY <3>1 DEF LockInv, Holding
        <3>3. mem[p].day \in Days /\ grants[mem[p].day] < DailyLimit
            <4>1. MemOK(p) /\ saved[p].day \in Days /\ Current(saved[p])
                BY <3>1 DEF MemInv, MemOK
            <4>2. saved[p].count = grants[saved[p].day]
                BY <4>1, ConstantsAssumption DEF Current, Never, Days
            <4> QED
                BY <3>1, <4>1, <4>2 DEF MemOK
        <3>4. ~open /\ open' /\ grants' = [grants EXCEPT ![mem[p].day] = @ + 1]
              /\ UNCHANGED applies
            BY <2>2, <3>2 DEF Commit
        <3>5. \E d \in Days : Cap!Permit(d)
            BY <3>3, <3>4 DEF Cap!Permit
        <3> QED
            BY <3>5 DEF Cap!CapNext
    <2>3. ASSUME NEW p \in Procs, DeviceApplies(p)
          PROVE  Cap!CapNext
        <3>1. pc[p] = "write" /\ pc' = [pc EXCEPT ![p] = "settle"]
            BY <2>3 DEF DeviceApplies, Goto
        <3>2. open /\ ~open'
            BY <3>1 DEF LockInv, Holding
        <3>3. \E d \in Days : Cap!Write(d)
            BY <2>3, <3>2 DEF DeviceApplies, Cap!Write
        <3> QED
            BY <3>3 DEF Cap!CapNext
    <2>4. ASSUME /\ UNCHANGED <<today, grants, applies>>
                 /\ \A p \in Procs : pc'[p] \in {"reserve", "write"} =>
                        pc'[p] = pc[p] /\ mem'[p] = mem[p]
          PROVE  Cap!Forfeit \/ UNCHANGED Cap!capVars
        <3>1. open' => open
            BY <2>4
        <3> QED
            BY <2>4, <3>1 DEF Cap!Forfeit
    <2>5. CASE Tick
        BY <2>5 DEF Tick, history
    <2>6. CASE \E p \in Procs : Commit(p) \/ DeviceApplies(p)
        BY <2>2, <2>3, <2>6
    <2>7. CASE \E p \in Procs : Reserve(p)
        BY <2>1, <2>7
    <2> HIDE DEF Cap!capVars
    <2>8. Cap!Forfeit => Cap!CapNext
        BY DEF Cap!CapNext
    <2> QED
        BY <2>4, <2>5, <2>6, <2>7, <2>8, StepKinds
<1> QED
    BY <1>1, <1>2, WearInvariant, PTL DEF Spec, ImplementsFlashCap, Cap!CapSpec
=============================================================================
