------------------------- MODULE CursorAdmin_proofs -------------------------
(***************************************************************************)
(* Proofs about CursorAdmin, for any accounts, any number of command lines *)
(* and any interval.                                                       *)
(***************************************************************************)
EXTENDS CursorAdmin, FiniteSetTheorems, TLAPS

(* The three threads of the window are three. *)
LEMMA ThreadsAreThree ==
    /\ Poll # Connect /\ Poll # Ui /\ Connect # Ui
    /\ Window \intersect Clis = {} /\ Free \notin Procs \union Accounts
<1>1. ASSUME NEW x, NEW y
      PROVE  Cardinality({x, y}) # 3
  <2>1. IsFiniteSet({x}) /\ Cardinality({x}) = 1
      BY FS_Singleton
  <2>2. {x, y} = {x} \union {y}
      OBVIOUS
  <2>3. Cardinality({x, y}) = IF y \in {x} THEN 1 ELSE 2
      BY <2>1, <2>2, FS_AddElement
  <2> QED
      BY <2>3
<1>2. Cardinality({Poll, Connect, Ui}) = 3
    BY ConstantsAssumption DEF Window
<1>3. Poll # Connect
  <2>1. SUFFICES ASSUME Poll = Connect PROVE FALSE
      OBVIOUS
  <2>2. {Poll, Connect, Ui} = {Poll, Ui}
      BY <2>1
  <2> QED
      BY <1>1, <1>2, <2>2
<1>4. Poll # Ui
  <2>1. SUFFICES ASSUME Poll = Ui PROVE FALSE
      OBVIOUS
  <2>2. {Poll, Connect, Ui} = {Poll, Connect}
      BY <2>1
  <2> QED
      BY <1>1, <1>2, <2>2
<1>5. Connect # Ui
  <2>1. SUFFICES ASSUME Connect = Ui PROVE FALSE
      OBVIOUS
  <2>2. {Poll, Connect, Ui} = {Poll, Ui}
      BY <2>1
  <2> QED
      BY <1>1, <1>2, <2>2
<1> QED
    BY <1>3, <1>4, <1>5, ConstantsAssumption

(* The window's thread disconnects, and never syncs. *)
LEMMA UiNoSyncer == Ui \notin Syncers
BY ThreadsAreThree DEF Syncers, Automatic, Window

-----------------------------------------------------------------------------
(* The inductive invariant.                                                *)

(* Who may be where: only the window disconnects, only its worker connects. *)
PcInv ==
    /\ pc[Ui] \in {"idle", "begun", "account", "gate", "cleared"}
    /\ \A p \in Procs : /\ pc[p] = "cleared" => p = Ui
                        /\ pc[p] \in {"store", "bind"} => p = Connect

(* What the local variables hold on the way.  Below the gate's lock the file *)
(* is as it was read, if it could be read.                                 *)
JobInv ==
    \A p \in Procs :
        /\ pc[p] # "idle" => Account(p) \in Accounts
        /\ pc[p] \in {"gate", "marking"} => job[p].seen \in {gate, Unreadable}
        /\ p # Ui /\ pc[p] \in InFlight => job[p].at \in 0 .. MaxTime
        /\ pc[p] \in {"open", "write", "replace"} => job[p].answer \in {"empty", "data"}

(* The gate knows at least the reservation that it must know. *)
LastInv == \A a \in Accounts : last[a] <= gate[a].attempt

(* A sync that knows what the cache has will not replace observations by     *)
(* nothing, and the .tmp holds what it wrote.                              *)
Knows(p) ==
    /\ cache[Account(p)] = "data" =>
          /\ pc[p] \in {"begun", "account", "gate", "fetch"} => job[p].cached = "data"
          /\ pc[p] \in {"open", "write", "replace"} => job[p].answer = "data"
    /\ pc[p] = "write" => tmp[Account(p)].content = "blank"
    /\ pc[p] = "replace" => tmp[Account(p)].content = job[p].answer

(* While the syncs of an account know, there is but one of them under way. *)
KnownInv ==
    \A p \in Syncers :
        pc[p] \in InFlight /\ Account(p) \notin blind =>
            /\ Knows(p)
            /\ \A q \in Syncers : pc[q] \in InFlight /\ Account(q) = Account(p) => q = p

AdminInv == TypeOK /\ PcInv /\ JobInv /\ LastInv /\ KnownInv

-----------------------------------------------------------------------------
(* exclusive_file_lock: the two locks are held by whoever is past them. *)
LocksOK ==
    \A p \in Procs :
        /\ (gateLock = p) <=> pc[p] \in {"gate", "marking"}
        /\ \A a \in Accounts :
              (accountLock[a] = p) <=> pc[p] \in {"account", "gate"} /\ Account(p) = a

(* Every step takes and releases the locks as it moves. *)
LEMMA LocksNext == AdminInv /\ [Next]_vars => LocksOK'
<1> SUFFICES ASSUME AdminInv, [Next]_vars
             PROVE  LocksOK'
    OBVIOUS
<1> TypeOK /\ LocksOK /\ PcInv /\ JobInv
    BY DEF AdminInv, TypeOK, LocksOK
<1> Free \notin Procs
    BY ThreadsAreThree
<1> /\ pc \in [Procs -> InFlight \union {"idle", "loaded", "store", "bind", "cleared"}]
    /\ job \in [Procs -> Jobs] /\ accountLock \in [Accounts -> Procs \union {Free}]
    /\ gateLock \in Procs \union {Free}
    BY DEF TypeOK
<1> Syncers \subseteq Procs /\ Window \subseteq Procs /\ Ui \in Procs /\ Connect \in Procs
    BY DEF Syncers, Automatic, Procs, Window
<1> USE DEF LocksOK, Account
(* steps that neither lock nor unlock *)
<1>1. ASSUME NEW p \in Procs, NEW place, UNCHANGED <<gateLock, accountLock>>,
             pc' = [pc EXCEPT ![p] = place], \A q \in Procs \ {p} : job'[q] = job[q],
             pc[p] \notin {"account", "gate", "marking"},
             place \notin {"account", "gate", "marking"}
      PROVE  LocksOK'
    BY <1>1
<1>2. ASSUME NEW p \in Syncers, NEW a \in Accounts, Load(p, a)
      PROVE  LocksOK'
    BY <1>1, <1>2 DEF Load, Goto, files
<1>3. ASSUME NEW p \in Syncers, Begin(p)
      PROVE  LocksOK'
    BY <1>1, <1>3 DEF Begin, Goto, files
<1>4. ASSUME NEW p \in Syncers, Refuse(p)
      PROVE  LocksOK'
    BY <1>4 DEF Refuse, Unlock, UnlockAccount, UnlockGate, Return, Goto
<1>5. ASSUME NEW p \in Syncers, Reserve(p)
      PROVE  LocksOK'
    BY <1>5 DEF Reserve, Unlock, UnlockAccount, UnlockGate, Goto
<1>6. ASSUME NEW p \in Syncers, FetchFails(p) \/ \E answer \in {"empty", "data"} : FetchAnswers(p, answer)
      PROVE  LocksOK'
    BY <1>1, <1>6 DEF FetchFails, FetchAnswers, Goto, files
<1>7. ASSUME NEW p \in Syncers, OpenTmp(p) \/ WriteTmp(p) \/ ReplaceTmp(p) \/ SaveFails(p)
      PROVE  LocksOK'
    BY <1>1, <1>7 DEF OpenTmp, WriteTmp, ReplaceTmp, SaveFails, Goto, files
<1>8. ASSUME NEW p \in Syncers, Mark(p) \/ MarkFails(p)
      PROVE  LocksOK'
  <2>1. PICK place \in {"store", "idle"} : pc' = [pc EXCEPT ![p] = place]
      BY <1>8 DEF Mark, MarkFails, Leave, Return, Goto
  <2>2. /\ UnlockGate(p) /\ UNCHANGED accountLock /\ pc[p] \in {"mark", "marking"}
        /\ \A q \in Procs \ {p} : job'[q] = job[q]
      BY <1>8 DEF Mark, MarkFails, Leave, Return, Goto
  <2> QED
      BY <2>1, <2>2 DEF UnlockGate
<1>9. ASSUME NEW p \in Procs, LockAccount(p)
      PROVE  LocksOK'
    BY <1>9 DEF LockAccount, Goto, JobInv
<1>10. ASSUME NEW p \in Procs, LockGate(p)
      PROVE  LocksOK'
  <2>1. PICK seen \in {gate, Unreadable} : job' = [job EXCEPT ![p].seen = seen]
      BY <1>10 DEF LockGate
  <2>2. \A q \in Procs : job'[q].account = job[q].account
      BY <2>1 DEF Jobs
  <2> QED
      BY <1>10, <2>2 DEF LockGate, MayLockGate, Goto
<1>11. ASSUME NEW p \in Procs, LockFails(p)
      PROVE  LocksOK'
    BY <1>11 DEF LockFails, UnlockAccount, Return, Goto
<1>12. CASE StoreKey \/ Bind
    BY <1>1, <1>12 DEF StoreKey, Bind, Return, Goto, files
<1>13. ASSUME NEW a \in Accounts, ImportCsv(a) \/ DisconnectCsv(a)
      PROVE  LocksOK'
    BY <1>13 DEF ImportCsv, DisconnectCsv, files
<1>14. ASSUME NEW a \in Accounts, Disconnect(a)
      PROVE  LocksOK'
    BY <1>1, <1>14 DEF Disconnect, Idle, Window, Goto
<1>15. CASE ClearGate
  <2>1. PICK place \in {"idle", "cleared"} : pc' = [pc EXCEPT ![Ui] = place]
      BY <1>15 DEF ClearGate, Return, Goto
  <2>2. /\ Unlock(Ui) /\ pc[Ui] = "gate"
        /\ \A q \in Procs \ {Ui} : job'[q] = job[q]
      BY <1>15 DEF ClearGate, Return, Goto
  <2> QED
      BY <2>1, <2>2 DEF Unlock, UnlockAccount, UnlockGate
<1>16. CASE Disconnected
    BY <1>1, <1>16 DEF Disconnected, Return, Goto, files
<1>17. ASSUME NEW P \in SUBSET Procs, Crash(P)
      PROVE  LocksOK'
    BY <1>17 DEF Crash
<1>18. CASE Tick \/ UNCHANGED vars
    BY <1>18 DEF Tick, vars, files
<1> QED
  <2>1. CASE \E p \in Syncers : Sync(p)
      BY <1>2, <1>3, <1>4, <1>5, <1>6, <1>7, <1>8, <2>1 DEF Sync
  <2>2. CASE Crash(Window) \/ \E p \in Clis : Crash({p})
    <3>1. \A p \in Clis : {p} \in SUBSET Procs
        BY DEF Procs
    <3> QED
        BY <1>17, <2>2, <3>1
  <2> QED
      BY <1>9, <1>10, <1>11, <1>12, <1>13, <1>14, <1>15, <1>16, <1>18, <2>1, <2>2 DEF Next

-----------------------------------------------------------------------------
(* The kinds of values. *)
Places == InFlight \union {"idle", "loaded", "store", "bind", "cleared"}

StateOK ==
    /\ now \in 0 .. MaxTime
    /\ binding \in [Accounts -> {"none", "csv", "admin"}]
    /\ key \in BOOLEAN
    /\ pc \in [Procs -> Places]
    /\ job \in [Procs -> Jobs]
    /\ last \in [Accounts -> {NoTime} \union (0 .. MaxTime)]
    /\ blind \subseteq Accounts /\ syncs \in 0 .. MaxSyncs

FilesOK ==
    /\ gate \in Gates
    /\ gateLock \in Procs \union {Free}
    /\ accountLock \in [Accounts -> Procs \union {Free}]
    /\ cache \in [Accounts -> Contents]
    /\ tmp \in [Accounts -> [content : {"absent", "blank", "empty", "data", "garbled"},
                             openers : SUBSET Syncers]]

(* TypeOK in three parts, one for each way to prove it. *)
LEMMA TypeIs == TypeOK <=> StateOK /\ FilesOK /\ LocksOK
BY DEF TypeOK, StateOK, FilesOK, LocksOK, Places

(* A thread that is done has no local variables. *)
LEMMA NoJobTyped ==
    /\ NoJob \in Jobs
    /\ \A a \in Accounts : [NoJob EXCEPT !.account = a] \in Jobs
BY DEF NoJob, Jobs, NoTime

(* What a write of the gate file may leave. *)
LEMMA GatesTyped ==
    /\ NoEntry \in Entries /\ Unreadable \in Gates
    /\ \A g \in Gates, a \in Accounts, e \in Entries : [g EXCEPT ![a] = e] \in Gates
BY DEF NoEntry, Entries, Unreadable, Gates, NoTime

(* One local variable changes. *)
LEMMA JobTyped ==
    /\ \A j \in Jobs, seen \in Gates \union {<<>>} : [j EXCEPT !.seen = seen] \in Jobs
    /\ \A j \in Jobs, a \in Accounts : [j EXCEPT !.account = a] \in Jobs
BY DEF Jobs

(* A write of the gate keeps its kind, and so does what is remembered of it. *)
LEMMA RememberTyped ==
    ASSUME StateOK, gate' \in Gates, NEW p, Remember(p)
    PROVE  last' \in [Accounts -> {NoTime} \union (0 .. MaxTime)]
BY DEF StateOK, Remember, Gates, Entries

(* It starts with every kind in place. *)
LEMMA StateInit == Init => StateOK /\ FilesOK
<1> SUFFICES ASSUME Init
             PROVE  StateOK /\ FilesOK
    OBVIOUS
<1>1. StateOK
  <2>1. now \in 0 .. MaxTime /\ syncs \in 0 .. MaxSyncs
      BY ConstantsAssumption DEF Init
  <2>2. pc \in [Procs -> Places] /\ job \in [Procs -> Jobs]
      BY NoJobTyped DEF Init, Places
  <2> QED
      BY <2>1, <2>2 DEF Init, StateOK
<1>2. FilesOK
    BY GatesTyped DEF Init, FilesOK, Gates, Contents, NoTmp
<1> QED
    BY <1>1, <1>2

(* The steps of a sync, but for those that write the gate. *)
LEMMA SyncTyped ==
    ASSUME AdminInv, NEW p \in Syncers, Sync(p)
    PROVE  StateOK' /\ FilesOK'
<1> StateOK /\ FilesOK /\ PcInv /\ JobInv /\ p \in Procs /\ Syncers \subseteq Procs
    BY TypeIs DEF AdminInv, Syncers, Automatic, Procs, Window
<1> p # Ui
    BY UiNoSyncer
<1> job[p] \in Jobs /\ (pc[p] # "idle" => Account(p) \in Accounts)
    BY DEF StateOK, JobInv
<1> USE ConstantsAssumption DEF StateOK
<1>1. ASSUME NEW a \in Accounts, Load(p, a)
      PROVE  StateOK' /\ FilesOK'
  <2>1. syncs' \in 0 .. MaxSyncs
      BY <1>1 DEF Load
  <2>2. job' \in [Procs -> Jobs] /\ pc' \in [Procs -> Places]
      BY <1>1 DEF Load, Goto, Places, Jobs
  <2>3. StateOK'
      BY <1>1, <2>1, <2>2 DEF Load
  <2> QED
      BY <1>1, <2>3 DEF Load, files, FilesOK
<1>2. CASE Begin(p)
  <2>1. PICK cached \in Read(Account(p)) :
          job' = [job EXCEPT ![p].at = now, ![p].cached = cached, ![p].ready = p = Connect \/ key]
      BY <1>2 DEF Begin
  <2>2. cached \in {"none", "empty", "data"}
      BY <1>2, <2>1 DEF Begin, Read, FilesOK, Contents
  <2>3. job' \in [Procs -> Jobs]
      BY <2>1, <2>2 DEF Jobs
  <2>4. StateOK'
      BY <1>2, <2>3 DEF Begin, Goto, Places, InFlight
  <2> QED
      BY <1>2, <2>4 DEF Begin, files, FilesOK
<1>3. CASE Refuse(p)
  <2>1. StateOK'
      BY <1>3, NoJobTyped DEF Refuse, Return, Goto, Places, history
  <2> QED
      BY <1>3, <2>1 DEF Refuse, Unlock, UnlockAccount, UnlockGate, FilesOK
<1>4. CASE Reserve(p)
  <2>1. job[p].seen \in Gates /\ job[p].at \in 0 .. MaxTime /\ Account(p) \in Accounts
    <3>1. pc[p] = "gate"
        BY <1>4 DEF Reserve
    <3> QED
        BY <3>1, GatesTyped DEF JobInv, FilesOK, InFlight
  <2>2. [job[p].seen[Account(p)] EXCEPT !.attempt = job[p].at] \in Entries
      BY <2>1 DEF Gates, Entries
  <2>3. gate' \in Gates
      BY <1>4, <2>1, <2>2, GatesTyped DEF Reserve, WriteGate
  <2>4. last' \in [Accounts -> {NoTime} \union (0 .. MaxTime)]
      BY <1>4, <2>3, RememberTyped DEF Reserve, WriteGate
  <2>5. job' \in [Procs -> Jobs]
      BY <1>4 DEF Reserve, Jobs
  <2>6. StateOK'
      BY <1>4, <2>4, <2>5 DEF Reserve, Goto, Places, InFlight
  <2> QED
      BY <1>4, <2>3, <2>6 DEF Reserve, Unlock, UnlockAccount, UnlockGate, FilesOK
<1>5. ASSUME FetchFails(p) \/ \E answer \in {"empty", "data"} : FetchAnswers(p, answer)
      PROVE  StateOK' /\ FilesOK'
  <2>1. job' \in [Procs -> Jobs]
      BY <1>5 DEF FetchFails, FetchAnswers, Jobs
  <2>2. StateOK'
      BY <1>5, <2>1 DEF FetchFails, FetchAnswers, Goto, Places, InFlight, history
  <2> QED
      BY <1>5, <2>2 DEF FetchFails, FetchAnswers, files, FilesOK
<1>6. CASE OpenTmp(p)
  <2>1. StateOK'
      BY <1>6 DEF OpenTmp, Goto, Places, InFlight, history
  <2> QED
      BY <1>6, <2>1 DEF OpenTmp, FilesOK
<1>7. CASE WriteTmp(p)
  <2>1. StateOK'
      BY <1>7 DEF WriteTmp, Goto, Places, InFlight, history
  <2>2. job[p].answer \in {"empty", "data"}
      BY <1>7 DEF WriteTmp, JobInv
  <2>3. PICK content \in {job[p].answer, "garbled"} :
          tmp' = [tmp EXCEPT ![Account(p)] = [content |-> content, openers |-> @.openers \ {p}]]
      BY <1>7 DEF WriteTmp
  <2>4. UNCHANGED <<gate, gateLock, accountLock, cache>>
      BY <1>7 DEF WriteTmp
  <2> QED
      BY <2>1, <2>2, <2>3, <2>4 DEF FilesOK
<1>8. CASE ReplaceTmp(p)
  <2>1. job' \in [Procs -> Jobs]
      BY <1>8 DEF ReplaceTmp, Jobs
  <2>2. StateOK'
      BY <1>8, <2>1 DEF ReplaceTmp, Goto, Places, InFlight, history
  <2> QED
      BY <1>8, <2>2 DEF ReplaceTmp, FilesOK, Contents, NoTmp
<1>9. CASE SaveFails(p)
    BY <1>9 DEF SaveFails, Goto, Places, InFlight, history, files, FilesOK
<1>10. ASSUME Leave(p), pc[p] # "idle"
       PROVE  pc' \in [Procs -> Places] /\ job' \in [Procs -> Jobs]
    BY <1>10, NoJobTyped DEF Leave, Return, Goto, Places
<1>11. CASE Mark(p)
  <2>1. job[p].seen \in Gates /\ job[p].at \in 0 .. MaxTime /\ Account(p) \in Accounts
    <3>1. pc[p] = "marking"
        BY <1>11 DEF Mark
    <3> QED
        BY <3>1, GatesTyped DEF JobInv, FilesOK, InFlight
  <2>2. [attempt |-> job[p].at, success |-> IF job[p].success THEN job[p].at
                                            ELSE job[p].seen[Account(p)].success] \in Entries
      BY <2>1 DEF Gates, Entries
  <2>3. gate' \in Gates
      BY <1>11, <2>1, <2>2, GatesTyped DEF Mark, WriteGate
  <2>4. last' \in [Accounts -> {NoTime} \union (0 .. MaxTime)]
      BY <1>11, <2>3, RememberTyped DEF Mark, WriteGate
  <2>5. StateOK'
      BY <1>10, <1>11, <2>4 DEF Mark
  <2> QED
      BY <1>11, <2>3, <2>5 DEF Mark, UnlockGate, FilesOK
<1>12. CASE MarkFails(p)
  <2>1. StateOK'
      BY <1>10, <1>12 DEF MarkFails, history
  <2> QED
      BY <1>12, <2>1 DEF MarkFails, UnlockGate, FilesOK
<1> QED
    BY <1>1, <1>2, <1>3, <1>4, <1>5, <1>6, <1>7, <1>8, <1>9, <1>11, <1>12 DEF Sync

(* The other steps keep the kinds, too. *)
LEMMA TypeNext == AdminInv /\ [Next]_vars => StateOK' /\ FilesOK'
<1> SUFFICES ASSUME AdminInv, [Next]_vars
             PROVE  StateOK' /\ FilesOK'
    OBVIOUS
<1> StateOK /\ FilesOK /\ PcInv /\ JobInv
    BY TypeIs DEF AdminInv
<1> Window \subseteq Procs /\ Ui \in Procs /\ Connect \in Procs
    BY DEF Procs, Window
<1> USE ConstantsAssumption DEF StateOK
<1>1. ASSUME NEW p \in Procs, LockAccount(p)
      PROVE  StateOK' /\ FilesOK'
    BY <1>1 DEF LockAccount, Goto, Places, InFlight, history, FilesOK
<1>2. ASSUME NEW p \in Procs, LockGate(p)
      PROVE  StateOK' /\ FilesOK'
  <2>1. PICK seen \in {gate, Unreadable} : job' = [job EXCEPT ![p].seen = seen]
      BY <1>2 DEF LockGate
  <2>2. job' \in [Procs -> Jobs]
    <3>1. seen \in Gates
        BY <2>1, GatesTyped DEF FilesOK
    <3>2. [job[p] EXCEPT !.seen = seen] \in Jobs
        BY <3>1, JobTyped
    <3> QED
        BY <2>1, <3>2
  <2>3. StateOK'
      BY <1>2, <2>2 DEF LockGate, Goto, Places, InFlight, history
  <2> QED
      BY <1>2, <2>3 DEF LockGate, FilesOK
<1>3. ASSUME NEW p \in Procs, LockFails(p)
      PROVE  StateOK' /\ FilesOK'
  <2>1. StateOK'
      BY <1>3, NoJobTyped DEF LockFails, Return, Goto, Places, history
  <2> QED
      BY <1>3, <2>1 DEF LockFails, UnlockAccount, FilesOK
<1>4. CASE StoreKey
  <2>1. StateOK'
      BY ZenonT(60), <1>4, NoJobTyped DEF StoreKey, Return, Goto, Places, history
  <2> QED
      BY <1>4, <2>1 DEF StoreKey, files, FilesOK
<1>5. CASE Bind
  <2>1. StateOK'
      BY <1>5, NoJobTyped DEF Bind, Return, Goto, Places, history
  <2> QED
      BY <1>5, <2>1 DEF Bind, files, FilesOK
<1>6. ASSUME NEW a \in Accounts, ImportCsv(a) \/ DisconnectCsv(a)
      PROVE  StateOK' /\ FilesOK'
  <2>1. binding' \in [Accounts -> {"none", "csv", "admin"}] /\ UNCHANGED <<now, files, pc, job, history>>
      BY <1>6 DEF ImportCsv, DisconnectCsv
  <2>2. key' \in BOOLEAN
      BY <1>6 DEF ImportCsv, DisconnectCsv
  <2> QED
      BY <2>1, <2>2 DEF files, history, FilesOK
<1>7. ASSUME NEW a \in Accounts, Disconnect(a)
      PROVE  StateOK' /\ FilesOK'
  <2>1. job' \in [Procs -> Jobs]
    <3>1. [job[Ui] EXCEPT !.account = a] \in Jobs
        BY JobTyped
    <3> QED
        BY <1>7, <3>1 DEF Disconnect
  <2>2. StateOK'
      BY <1>7, <2>1 DEF Disconnect, Goto, Places, InFlight, history
  <2>3. cache' \in [Accounts -> Contents]
      BY <1>7 DEF Disconnect, FilesOK, Contents
  <2> QED
      BY <1>7, <2>2, <2>3 DEF Disconnect, FilesOK
<1>8. CASE ClearGate
  <2>1. job[Ui].seen \in Gates /\ Account(Ui) \in Accounts /\ pc[Ui] = "gate"
      BY <1>8, GatesTyped DEF ClearGate, JobInv, FilesOK, InFlight
  <2>2. gate' \in Gates
      BY <1>8, <2>1, GatesTyped DEF ClearGate, FilesOK
  <2>3. last' \in [Accounts -> {NoTime} \union (0 .. MaxTime)]
      BY <1>8, <2>2, RememberTyped DEF ClearGate
  <2>4. job' \in [Procs -> Jobs] /\ pc' \in [Procs -> Places]
    <3>1. CASE Return(Ui)
        BY <3>1, NoJobTyped DEF Return, Goto, Places
    <3>2. CASE Goto(Ui, "cleared") /\ job' = [job EXCEPT ![Ui].seen = <<>>]
      <4>1. [job[Ui] EXCEPT !.seen = <<>>] \in Jobs
          BY JobTyped
      <4> QED
          BY <3>2, <4>1 DEF Goto, Places
    <3> QED
        BY <1>8, <3>1, <3>2 DEF ClearGate
  <2>5. StateOK'
      BY <1>8, <2>3, <2>4 DEF ClearGate
  <2> QED
      BY <1>8, <2>2, <2>5 DEF ClearGate, Unlock, UnlockAccount, UnlockGate, FilesOK
<1>9. CASE Disconnected
  <2>1. job' \in [Procs -> Jobs] /\ pc' \in [Procs -> Places]
      BY <1>9, NoJobTyped DEF Disconnected, Return, Goto, Places
  <2>2. key' \in BOOLEAN /\ binding' \in [Accounts -> {"none", "csv", "admin"}]
      BY <1>9 DEF Disconnected
  <2>3. StateOK'
      BY <1>9, <2>1, <2>2 DEF Disconnected, history
  <2> QED
      BY <1>9, <2>3 DEF Disconnected, files, FilesOK
<1>10. ASSUME NEW P \in SUBSET Procs, Crash(P)
       PROVE  StateOK' /\ FilesOK'
  <2>1. StateOK'
      BY <1>10, NoJobTyped DEF Crash, Places, history
  <2> QED
      BY ZenonT(60), <1>10, <2>1 DEF Crash, FilesOK
<1>11. CASE Tick
  <2>1. now' \in 0 .. MaxTime
      BY <1>11 DEF Tick
  <2> QED
      BY <1>11, <2>1 DEF Tick, files, history, FilesOK
<1>12. CASE UNCHANGED vars
    BY <1>12 DEF vars, files, history, FilesOK
<1>13. CASE Crash(Window) \/ \E p \in Clis : Crash({p})
  <2>1. \A p \in Clis : {p} \in SUBSET Procs
      BY DEF Procs
  <2> QED
      BY <1>10, <1>13, <2>1
<1> QED
    BY <1>1, <1>2, <1>3, <1>4, <1>5, <1>6, <1>7, <1>8, <1>9, <1>11, <1>12, <1>13, SyncTyped DEF Next

(* The three parts together. *)
LEMMA TypeStep == AdminInv /\ [Next]_vars => TypeOK'
<1> SUFFICES ASSUME AdminInv, [Next]_vars
             PROVE  TypeOK'
    OBVIOUS
<1>1. StateOK' /\ FilesOK' /\ LocksOK'
    BY TypeNext, LocksNext
<1> QED
    BY <1>1 DEF TypeOK, StateOK, FilesOK, LocksOK, Places

-----------------------------------------------------------------------------
(* The rest of the invariant, step by step. *)

(* What the proofs below use of the kinds. *)
LEMMA Shapes ==
    ASSUME AdminInv
    PROVE  /\ pc \in [Procs -> Places] /\ job \in [Procs -> Jobs] /\ gate \in Gates
           /\ cache \in [Accounts -> Contents] /\ DOMAIN tmp = Accounts
           /\ now \in 0 .. MaxTime
           /\ PcInv /\ JobInv /\ LocksOK
           /\ Syncers \subseteq Procs /\ Window \subseteq Procs /\ Automatic \subseteq Syncers
           /\ Ui \in Procs /\ Connect \in Syncers
BY TypeIs DEF AdminInv, StateOK, FilesOK, Syncers, Automatic, Procs, Window

(* No step brings a thread where it does not belong. *)
LEMMA PcNext == AdminInv /\ [Next]_vars => PcInv'
<1> SUFFICES ASSUME AdminInv, [Next]_vars
             PROVE  PcInv'
    OBVIOUS
<1> /\ pc \in [Procs -> Places] /\ PcInv
    /\ Syncers \subseteq Procs /\ Window \subseteq Procs /\ Ui \in Procs /\ Connect \in Procs
    /\ Ui \notin Syncers /\ Ui # Connect
    BY Shapes, UiNoSyncer, ThreadsAreThree
<1> USE DEF PcInv
<1>1. ASSUME NEW p \in Procs, NEW place, pc' = [pc EXCEPT ![p] = place],
             p = Ui => place \in {"idle", "begun", "account", "gate", "cleared"},
             place = "cleared" => p = Ui, place \in {"store", "bind"} => p = Connect
      PROVE  PcInv'
    BY <1>1
<1>2. ASSUME NEW p \in Syncers, Sync(p)
      PROVE  PcInv'
  <2>1. PICK place : /\ pc' = [pc EXCEPT ![p] = place] /\ place # "cleared"
                     /\ place \in {"store", "bind"} => p = Connect
      BY <1>2 DEF Sync, Load, Begin, Refuse, Reserve, FetchFails, FetchAnswers, OpenTmp, WriteTmp,
                  ReplaceTmp, SaveFails, Mark, MarkFails, Leave, Return, Goto
  <2> QED
      BY <1>1, <2>1
<1>3. ASSUME NEW p \in Procs, LockAccount(p) \/ LockGate(p) \/ LockFails(p)
      PROVE  PcInv'
    BY <1>1, <1>3 DEF LockAccount, LockGate, LockFails, Return, Goto
<1>4. CASE StoreKey \/ Bind
    BY <1>1, <1>4 DEF StoreKey, Bind, Return, Goto
<1>5. ASSUME NEW a \in Accounts, ImportCsv(a) \/ DisconnectCsv(a) \/ Disconnect(a)
      PROVE  PcInv'
    BY <1>1, <1>5 DEF ImportCsv, DisconnectCsv, Disconnect, Goto
<1>6. CASE ClearGate \/ Disconnected
    BY <1>1, <1>6 DEF ClearGate, Disconnected, Return, Goto
<1>7. ASSUME NEW P, Crash(P)
      PROVE  PcInv'
    BY <1>7 DEF Crash
<1>8. CASE Tick \/ UNCHANGED vars
    BY <1>8 DEF Tick, vars
<1> QED
    BY <1>2, <1>3, <1>4, <1>5, <1>6, <1>7, <1>8 DEF Next

(* The same for JobInv: who writes the gate holds its lock, and lets it go. *)
LEMMA JobNext == AdminInv /\ [Next]_vars => JobInv'
<1> SUFFICES ASSUME AdminInv, [Next]_vars
             PROVE  JobInv'
    OBVIOUS
<1> /\ pc \in [Procs -> Places] /\ job \in [Procs -> Jobs] /\ PcInv /\ JobInv /\ LocksOK
    /\ Syncers \subseteq Procs /\ Window \subseteq Procs /\ Ui \in Procs /\ Connect \in Procs
    /\ Ui \notin Syncers /\ Ui # Connect /\ now \in 0 .. MaxTime
    BY Shapes, UiNoSyncer, ThreadsAreThree
<1> DEFINE Fits(p, place, j) ==
      /\ place # "idle" => j.account \in Accounts
      /\ place \in {"gate", "marking"} => j.seen \in {gate, Unreadable}
      /\ p # Ui /\ place \in InFlight => j.at \in 0 .. MaxTime
      /\ place \in {"open", "write", "replace"} => j.answer \in {"empty", "data"}
<1> USE DEF Account
(* one process goes on, and the gate stays *)
<1>1. ASSUME NEW p \in Procs, NEW place, NEW j, UNCHANGED gate, pc' = [pc EXCEPT ![p] = place],
             job' = [job EXCEPT ![p] = j], Fits(p, place, j)
      PROVE  JobInv'
    BY <1>1 DEF JobInv
(* one process writes the gate, and lets it go *)
<1>2. ASSUME NEW p \in Procs, NEW place, NEW j, pc' = [pc EXCEPT ![p] = place],
             job' = [job EXCEPT ![p] = j], Fits(p, place, j),
             pc[p] \in {"gate", "marking"}, place \notin {"gate", "marking"}
      PROVE  JobInv'
  <2>1. \A q \in Procs \ {p} : pc[q] \notin {"gate", "marking"}
      BY <1>2 DEF LocksOK
  <2> QED
      BY <1>2, <2>1 DEF JobInv
<1> HIDE DEF Fits
<1>3. ASSUME NEW p \in Procs, NEW place, UNCHANGED <<gate, job>>, pc' = [pc EXCEPT ![p] = place],
             Fits(p, place, job[p])
      PROVE  JobInv'
  <2>1. job' = [job EXCEPT ![p] = job[p]]
      BY <1>3
  <2> QED
      BY <1>1, <1>3, <2>1
<1>4. ASSUME NEW p \in Procs
      PROVE  Fits(p, "idle", NoJob)
    BY DEF Fits, InFlight
<1>5. ASSUME NEW p \in Syncers, NEW a \in Accounts, Load(p, a)
      PROVE  JobInv'
  <2>1. job' = [job EXCEPT ![p] = [job[p] EXCEPT !.account = a]]
      BY <1>5 DEF Load
  <2>2. Fits(p, "loaded", [job[p] EXCEPT !.account = a])
      BY DEF Fits, Jobs, InFlight
  <2> QED
      BY <1>1, <1>5, <2>1, <2>2 DEF Load, Goto, files
<1>6. ASSUME NEW p \in Syncers, Begin(p)
      PROVE  JobInv'
  <2>1. PICK cached \in Read(Account(p)) :
          job' = [job EXCEPT ![p].at = now, ![p].cached = cached, ![p].ready = p = Connect \/ key]
      BY <1>6 DEF Begin
  <2>2. job' = [job EXCEPT ![p] = [job[p] EXCEPT !.at = now, !.cached = cached,
                                                 !.ready = p = Connect \/ key]]
      BY <2>1
  <2>3. Fits(p, "begun", [job[p] EXCEPT !.at = now, !.cached = cached, !.ready = p = Connect \/ key])
      BY <1>6 DEF Fits, Begin, JobInv, Jobs
  <2> QED
      BY <1>1, <1>6, <2>2, <2>3 DEF Begin, Goto, files
<1>7. ASSUME NEW p \in Syncers, Refuse(p)
      PROVE  JobInv'
    BY <1>1, <1>4, <1>7 DEF Refuse, Return, Goto
<1>8. ASSUME NEW p \in Syncers, Reserve(p)
      PROVE  JobInv'
  <2> DEFINE j == [job[p] EXCEPT !.seen = <<>>, !.ready = FALSE]
  <2>1. job' = [job EXCEPT ![p] = j]
      BY <1>8 DEF Reserve
  <2>2. Fits(p, "fetch", j)
      BY <1>8 DEF Fits, Reserve, JobInv, Jobs, InFlight
  <2>3. pc' = [pc EXCEPT ![p] = "fetch"] /\ pc[p] \in {"gate", "marking"}
      BY <1>8 DEF Reserve, Goto
  <2> HIDE DEF j
  <2> QED
      BY <1>2, <2>1, <2>2, <2>3
<1>9. ASSUME NEW p \in Syncers, FetchFails(p)
      PROVE  JobInv'
  <2>1. job' = [job EXCEPT ![p] = [job[p] EXCEPT !.cached = "none"]]
      BY <1>9 DEF FetchFails
  <2>2. Fits(p, "mark", [job[p] EXCEPT !.cached = "none"])
      BY <1>9 DEF Fits, FetchFails, JobInv, Jobs, InFlight
  <2> QED
      BY <1>1, <1>9, <2>1, <2>2 DEF FetchFails, Goto, files
<1>10. ASSUME NEW p \in Syncers, NEW answer \in {"empty", "data"}, FetchAnswers(p, answer)
       PROVE  JobInv'
  <2>1. job' = [job EXCEPT ![p] = [job[p] EXCEPT !.answer = answer, !.cached = "none"]]
      BY <1>10 DEF FetchAnswers
  <2>2. \A place \in {"open", "mark"} :
          Fits(p, place, [job[p] EXCEPT !.answer = answer, !.cached = "none"])
      BY <1>10 DEF Fits, FetchAnswers, JobInv, Jobs, InFlight
  <2> QED
      BY <1>1, <1>10, <2>1, <2>2 DEF FetchAnswers, Goto, files
<1>11. ASSUME NEW p \in Syncers, OpenTmp(p) \/ WriteTmp(p) \/ SaveFails(p)
       PROVE  JobInv'
  <2>1. PICK place \in {"write", "replace", "mark"} :
          /\ pc' = [pc EXCEPT ![p] = place] /\ UNCHANGED <<gate, job>>
          /\ pc[p] \in {"open", "write", "replace"}
      BY <1>11 DEF OpenTmp, WriteTmp, SaveFails, Goto, files
  <2>2. Fits(p, place, job[p])
      BY <2>1 DEF Fits, JobInv, InFlight
  <2> QED
      BY <1>3, <2>1, <2>2
<1>12. ASSUME NEW p \in Syncers, ReplaceTmp(p)
       PROVE  JobInv'
  <2>1. job' = [job EXCEPT ![p] = [job[p] EXCEPT !.success = job[p].answer = "data"]]
      BY <1>12 DEF ReplaceTmp
  <2>2. Fits(p, "mark", [job[p] EXCEPT !.success = job[p].answer = "data"])
      BY <1>12 DEF Fits, ReplaceTmp, JobInv, Jobs, InFlight
  <2> QED
      BY <1>1, <1>12, <2>1, <2>2 DEF ReplaceTmp, Goto
<1>13. ASSUME NEW p \in Syncers, Leave(p), pc[p] # "idle"
       PROVE  \E place \in {"idle", "store"} : \E j :
                 /\ pc' = [pc EXCEPT ![p] = place] /\ job' = [job EXCEPT ![p] = j]
                 /\ Fits(p, place, j)
  <2>1. Fits(p, "store", [NoJob EXCEPT !.account = Account(p)])
      BY <1>13 DEF Fits, JobInv, NoJob, InFlight
  <2> QED
      BY <1>4, <1>13, <2>1 DEF Leave, Return, Goto
<1>14. ASSUME NEW p \in Syncers, Mark(p)
       PROVE  JobInv'
    BY <1>2, <1>13, <1>14 DEF Mark
<1>15. ASSUME NEW p \in Syncers, MarkFails(p)
       PROVE  JobInv'
    BY <1>1, <1>13, <1>15 DEF MarkFails
<1>16. ASSUME NEW p \in Procs, LockAccount(p)
       PROVE  JobInv'
    BY <1>3, <1>16 DEF Fits, LockAccount, Goto, JobInv, InFlight
<1>17. ASSUME NEW p \in Procs, LockGate(p)
       PROVE  JobInv'
  <2>1. PICK seen \in {gate, Unreadable} : job' = [job EXCEPT ![p].seen = seen]
      BY <1>17 DEF LockGate
  <2>2. job' = [job EXCEPT ![p] = [job[p] EXCEPT !.seen = seen]]
      BY <2>1
  <2>3. \A place \in {"gate", "marking"} : Fits(p, place, [job[p] EXCEPT !.seen = seen])
      BY <1>17 DEF Fits, LockGate, JobInv, InFlight, Jobs
  <2> QED
      BY <1>1, <1>17, <2>2, <2>3 DEF LockGate, Goto
<1>18. ASSUME NEW p \in Procs, LockFails(p)
       PROVE  JobInv'
    BY <1>1, <1>4, <1>18 DEF LockFails, Return, Goto
<1>19. CASE StoreKey \/ Bind
  <2>1. CASE Return(Connect)
      BY <1>1, <1>4, <1>19, <2>1 DEF StoreKey, Bind, Return, Goto, files
  <2>2. CASE Goto(Connect, "bind") /\ UNCHANGED job /\ StoreKey
      BY <1>3, <2>2 DEF Fits, StoreKey, Goto, files, JobInv, InFlight
  <2> QED
      BY <1>19, <2>1, <2>2 DEF StoreKey, Bind
<1>20. ASSUME NEW a \in Accounts, ImportCsv(a) \/ DisconnectCsv(a)
       PROVE  JobInv'
    BY <1>20 DEF ImportCsv, DisconnectCsv, files, JobInv
<1>21. ASSUME NEW a \in Accounts, Disconnect(a)
       PROVE  JobInv'
  <2>1. job' = [job EXCEPT ![Ui] = [job[Ui] EXCEPT !.account = a]]
      BY <1>21 DEF Disconnect
  <2>2. Fits(Ui, "begun", [job[Ui] EXCEPT !.account = a])
      BY DEF Fits, Jobs
  <2> QED
      BY <1>1, <1>21, <2>1, <2>2 DEF Disconnect, Goto
<1>22. CASE ClearGate
  <2>1. CASE Return(Ui)
      BY <1>2, <1>4, <1>22, <2>1 DEF ClearGate, Return, Goto
  <2>2. CASE Goto(Ui, "cleared") /\ job' = [job EXCEPT ![Ui].seen = <<>>]
    <3> DEFINE j == [job[Ui] EXCEPT !.seen = <<>>]
    <3>1. job' = [job EXCEPT ![Ui] = j]
        BY <2>2
    <3>2. Fits(Ui, "cleared", j)
        BY <1>22 DEF Fits, ClearGate, JobInv, Jobs
    <3>3. pc' = [pc EXCEPT ![Ui] = "cleared"] /\ pc[Ui] \in {"gate", "marking"}
        BY <1>22, <2>2 DEF ClearGate, Goto
    <3> HIDE DEF j
    <3> QED
        BY <1>2, <3>1, <3>2, <3>3
  <2> QED
      BY <1>22, <2>1, <2>2 DEF ClearGate
<1>23. CASE Disconnected
    BY <1>1, <1>4, <1>23 DEF Disconnected, Return, Goto, files
<1>24. ASSUME NEW P, Crash(P)
       PROVE  JobInv'
    BY <1>24 DEF Crash, JobInv, InFlight
<1>25. CASE Tick \/ UNCHANGED vars
    BY <1>25 DEF Tick, vars, files, JobInv
<1> QED
  <2>1. CASE \E p \in Syncers : Sync(p)
      BY <1>5, <1>6, <1>7, <1>8, <1>9, <1>10, <1>11, <1>12, <1>14, <1>15, <2>1 DEF Sync
  <2> QED
      BY <1>16, <1>17, <1>18, <1>19, <1>20, <1>21, <1>22, <1>23, <1>24, <1>25, <2>1 DEF Next

(* The gate is written with what is remembered of it. *)
LEMMA RememberLast ==
    ASSUME AdminInv, TypeOK', NEW p \in Procs, Remember(p)
    PROVE  LastInv'
<1> SUFFICES ASSUME NEW a \in Accounts
             PROVE  last'[a] <= gate'[a].attempt
    BY DEF LastInv
<1>1. last[a] <= gate[a].attempt
    BY DEF AdminInv, LastInv
<1>2. /\ last[a] \in Int /\ gate[a].attempt \in Int
      /\ gate'[a].attempt \in Int /\ NoTime <= gate'[a].attempt
  <2>1. gate \in Gates /\ gate' \in Gates /\ last \in [Accounts -> {NoTime} \union (0 .. MaxTime)]
      BY DEF AdminInv, TypeOK
  <2> QED
      BY <2>1 DEF Gates, Entries, NoTime
<1>3. last'[a] = IF gate'[a].attempt < gate[a].attempt THEN NoTime
                 ELSE IF p \in Automatic /\ pc[p] = "gate" /\ a = Account(p)
                 THEN gate'[a].attempt
                 ELSE last[a]
    BY Zenon DEF Remember
<1> QED
    BY <1>1, <1>2, <1>3 DEF NoTime

(* Only who remembers a reservation writes the gate. *)
LEMMA LastNext == AdminInv /\ [Next]_vars => LastInv'
<1> SUFFICES ASSUME AdminInv, [Next]_vars
             PROVE  LastInv'
    OBVIOUS
<1>1. \/ \E p \in Procs : Remember(p)
      \/ UNCHANGED <<gate, last>>
  <2>1. ASSUME NEW p \in Syncers, Sync(p)
        PROVE  Remember(p) \/ UNCHANGED <<gate, last>>
      BY <2>1 DEF Sync, Load, Begin, Refuse, Reserve, FetchFails, FetchAnswers, OpenTmp, WriteTmp,
                  ReplaceTmp, SaveFails, Mark, MarkFails, WriteGate, files, history
  <2>2. Syncers \subseteq Procs /\ Ui \in Procs
      BY Shapes
  <2>3. ASSUME \/ \E p \in Procs : LockAccount(p) \/ LockGate(p) \/ LockFails(p)
               \/ StoreKey \/ Bind \/ Disconnected
               \/ \E a \in Accounts : ImportCsv(a) \/ DisconnectCsv(a) \/ Disconnect(a)
               \/ Crash(Window) \/ (\E p \in Clis : Crash({p})) \/ Tick \/ UNCHANGED vars
        PROVE  UNCHANGED <<gate, last>>
      BY <2>3 DEF LockAccount, LockGate, LockFails, StoreKey, Bind, Disconnected, ImportCsv,
                  DisconnectCsv, Disconnect, Crash, Tick, vars, files, history
  <2>4. ASSUME ClearGate
        PROVE  Remember(Ui) \/ UNCHANGED <<gate, last>>
      BY <2>4 DEF ClearGate
  <2> QED
      BY <2>1, <2>2, <2>3, <2>4 DEF Next
<1>2. CASE UNCHANGED <<gate, last>>
    BY <1>2 DEF AdminInv, LastInv
<1> QED
    BY <1>1, <1>2, RememberLast, TypeStep

(* A step of one sync leaves what another one knows alone. *)
LEMMA KnownNext == AdminInv /\ [Next]_vars => KnownInv'
<1> SUFFICES ASSUME AdminInv, [Next]_vars
             PROVE  KnownInv'
    OBVIOUS
<1> /\ pc \in [Procs -> Places] /\ job \in [Procs -> Jobs] /\ DOMAIN tmp = Accounts
    /\ cache \in [Accounts -> Contents] /\ JobInv /\ KnownInv
    /\ Syncers \subseteq Procs /\ Ui \in Procs /\ Ui \notin Syncers
    BY Shapes, UiNoSyncer DEF AdminInv
<1> USE DEF Account
(* a sync that is under way goes on *)
<1>1. ASSUME NEW p \in Syncers, pc[p] \in InFlight, job'[p].account = job[p].account,
             UNCHANGED blind,
             \A q \in Syncers \ {p} : pc'[q] = pc[q] /\ job'[q] = job[q],
             \A a \in Accounts \ {Account(p)} : cache'[a] = cache[a] /\ tmp'[a] = tmp[a],
             Account(p) \notin blind /\ Knows(p) => Knows(p)'
      PROVE  KnownInv'
  <2> SUFFICES ASSUME NEW q \in Syncers, pc'[q] \in InFlight, Account(q)' \notin blind'
               PROVE  /\ Knows(q)'
                      /\ \A r \in Syncers : pc'[r] \in InFlight /\ Account(r)' = Account(q)' => r = q
      BY DEF KnownInv
  <2>1. CASE q = p
    <3>1. Account(p) \notin blind
        BY <1>1, <2>1
    <3> QED
        BY <1>1, <2>1, <3>1 DEF KnownInv
  <2>2. CASE q # p
    <3>1. pc[q] \in InFlight /\ Account(q) \notin blind /\ Account(q)' = Account(q)
        BY <1>1, <2>2
    <3>2. Account(q) # Account(p)
        BY <1>1, <2>2, <3>1 DEF KnownInv
    <3>3. Account(q) \in Accounts
        BY <3>1 DEF JobInv, InFlight
    <3>4. Knows(q)'
        BY <1>1, <2>2, <3>1, <3>2, <3>3 DEF KnownInv, Knows
    <3> QED
        BY <1>1, <2>2, <3>1, <3>2, <3>4 DEF KnownInv
  <2> QED
      BY <2>1, <2>2
(* one that is not under way then, or a step that is no sync's *)
<1>2. ASSUME NEW p \in Procs, p \in Syncers => pc'[p] \notin InFlight,
             UNCHANGED <<cache, tmp, blind>>,
             \A q \in Syncers \ {p} : pc'[q] = pc[q] /\ job'[q] = job[q]
      PROVE  KnownInv'
    BY <1>2 DEF KnownInv, Knows
<1>3. ASSUME NEW p \in Syncers, NEW a \in Accounts, Load(p, a)
      PROVE  KnownInv'
    BY <1>2, <1>3 DEF Load, Goto, files, InFlight
<1>4. ASSUME NEW p \in Syncers, Begin(p)
      PROVE  KnownInv'
  <2>1. PICK cached \in Read(Account(p)) :
          /\ job' = [job EXCEPT ![p].at = now, ![p].cached = cached, ![p].ready = p = Connect \/ key]
          /\ blind' = IF cached = cache[Account(p)] /\ Others(p) = {}
                      THEN blind \ {Account(p)} ELSE blind \union {Account(p)}
      BY <1>4 DEF Begin
  <2>2. /\ \A q \in Procs : job'[q].account = job[q].account
        /\ \A q \in Procs \ {p} : job'[q] = job[q] /\ pc'[q] = pc[q]
        /\ job'[p].cached = cached /\ pc'[p] = "begun" /\ UNCHANGED <<cache, tmp>>
      BY <1>4, <2>1 DEF Begin, Goto, files, Jobs
  <2> SUFFICES ASSUME NEW q \in Syncers, pc'[q] \in InFlight, Account(q)' \notin blind'
               PROVE  /\ Knows(q)'
                      /\ \A r \in Syncers : pc'[r] \in InFlight /\ Account(r)' = Account(q)' => r = q
      BY DEF KnownInv
  <2>3. CASE Account(q) = Account(p)
    <3>1. cached = cache[Account(p)] /\ Others(p) = {}
        BY <2>1, <2>2, <2>3
    <3>2. \A r \in Syncers \ {p} : ~(pc[r] \in InFlight /\ Account(r) = Account(p))
        BY <3>1 DEF Others
    <3>3. q = p
        BY <2>2, <2>3, <3>2
    <3> QED
        BY <2>2, <3>1, <3>2, <3>3 DEF Knows
  <2>4. CASE Account(q) # Account(p)
    <3>1. q # p /\ pc[q] \in InFlight /\ Account(q) \notin blind
        BY <2>1, <2>2, <2>4
    <3> QED
        BY <2>2, <2>4, <3>1 DEF KnownInv, Knows
  <2> QED
      BY <2>3, <2>4
<1>5. ASSUME NEW p \in Syncers, Refuse(p)
      PROVE  KnownInv'
    BY <1>2, <1>5 DEF Refuse, Return, Goto, InFlight, history
<1>6. ASSUME NEW p \in Syncers, Reserve(p)
      PROVE  KnownInv'
  <2>1. /\ job'[p].account = job[p].account /\ job'[p].cached = job[p].cached
        /\ \A q \in Syncers \ {p} : pc'[q] = pc[q] /\ job'[q] = job[q]
        /\ pc[p] = "gate" /\ pc'[p] = "fetch" /\ UNCHANGED <<cache, tmp, blind>>
      BY <1>6 DEF Reserve, Goto, Jobs
  <2>2. Knows(p) => Knows(p)'
      BY <2>1 DEF Knows
  <2> QED
      BY <1>1, <2>1, <2>2 DEF InFlight
<1>7. ASSUME NEW p \in Syncers, FetchFails(p)
      PROVE  KnownInv'
  <2>1. /\ job'[p].account = job[p].account
        /\ \A q \in Syncers \ {p} : pc'[q] = pc[q] /\ job'[q] = job[q]
        /\ pc[p] = "fetch" /\ pc'[p] = "mark" /\ UNCHANGED <<cache, tmp, blind>>
      BY <1>7 DEF FetchFails, Goto, Jobs, files, history
  <2>2. Knows(p)'
      BY <2>1 DEF Knows
  <2> QED
      BY <1>1, <2>1, <2>2 DEF InFlight
<1>8. ASSUME NEW p \in Syncers, NEW answer \in {"empty", "data"}, FetchAnswers(p, answer)
      PROVE  KnownInv'
  <2>1. /\ job'[p].account = job[p].account /\ job'[p].answer = answer
        /\ \A q \in Syncers \ {p} : pc'[q] = pc[q] /\ job'[q] = job[q]
        /\ pc[p] = "fetch" /\ UNCHANGED <<cache, tmp, blind>>
        /\ pc'[p] \in {"open", "mark"}
        /\ pc'[p] = "open" => answer = "data" \/ job[p].cached # "data"
      BY <1>8 DEF FetchAnswers, Overwrites, Goto, Jobs, files, history
  <2>2. Knows(p) => Knows(p)'
      BY <2>1 DEF Knows
  <2> QED
      BY <1>1, <2>1, <2>2 DEF InFlight
<1>9. ASSUME NEW p \in Syncers, OpenTmp(p)
      PROVE  KnownInv'
  <2>1. /\ UNCHANGED <<cache, job, blind>> /\ pc[p] = "open" /\ pc'[p] = "write"
        /\ \A q \in Syncers \ {p} : pc'[q] = pc[q]
        /\ \A a \in Accounts \ {Account(p)} : tmp'[a] = tmp[a]
      BY <1>9 DEF OpenTmp, Goto, history
  <2>2. tmp'[Account(p)].content = "blank"
      BY <1>9, <2>1 DEF OpenTmp, JobInv
  <2>3. Knows(p) => Knows(p)'
      BY <2>1, <2>2 DEF Knows
  <2> QED
      BY <1>1, <2>1, <2>3 DEF InFlight
<1>10. ASSUME NEW p \in Syncers, WriteTmp(p)
       PROVE  KnownInv'
  <2>1. PICK content \in {job[p].answer, "garbled"}, place \in {"replace", "mark"} :
          /\ content = "garbled" => tmp[Account(p)].content # "blank" \/ place = "mark"
          /\ tmp' = [tmp EXCEPT ![Account(p)] = [content |-> content, openers |-> @.openers \ {p}]]
          /\ Goto(p, place)
      BY <1>10 DEF WriteTmp
  <2>2. /\ UNCHANGED <<cache, job, blind>> /\ pc[p] = "write" /\ pc'[p] = place
        /\ \A q \in Syncers \ {p} : pc'[q] = pc[q]
        /\ \A a \in Accounts \ {Account(p)} : tmp'[a] = tmp[a]
      BY <1>10, <2>1 DEF WriteTmp, Goto, history
  <2>3. tmp'[Account(p)].content = content
      BY <2>1, <2>2 DEF JobInv
  <2>4. Knows(p) => Knows(p)'
      BY <2>1, <2>2, <2>3 DEF Knows
  <2> QED
      BY <1>1, <2>2, <2>4 DEF InFlight
<1>11. ASSUME NEW p \in Syncers, ReplaceTmp(p)
       PROVE  KnownInv'
  <2>1. /\ UNCHANGED blind /\ pc[p] = "replace" /\ pc'[p] = "mark"
        /\ job'[p].account = job[p].account
        /\ \A q \in Syncers \ {p} : pc'[q] = pc[q] /\ job'[q] = job[q]
        /\ \A a \in Accounts \ {Account(p)} : tmp'[a] = tmp[a] /\ cache'[a] = cache[a]
      BY <1>11 DEF ReplaceTmp, Goto, Jobs, history
  <2>2. Knows(p)'
      BY <2>1 DEF Knows
  <2> QED
      BY <1>1, <2>1, <2>2 DEF InFlight
<1>12. ASSUME NEW p \in Syncers, SaveFails(p)
       PROVE  KnownInv'
  <2>1. /\ UNCHANGED <<cache, tmp, job, blind>> /\ pc[p] \in {"open", "replace"} /\ pc'[p] = "mark"
        /\ \A q \in Syncers \ {p} : pc'[q] = pc[q]
      BY <1>12 DEF SaveFails, Goto, files, history
  <2>2. Knows(p)'
      BY <2>1 DEF Knows
  <2> QED
      BY <1>1, <2>1, <2>2 DEF InFlight
<1>13. ASSUME NEW p \in Syncers, Mark(p) \/ MarkFails(p)
       PROVE  KnownInv'
  <2>1. /\ UNCHANGED <<cache, tmp, blind>> /\ pc'[p] \in {"idle", "store"}
        /\ \A q \in Syncers \ {p} : pc'[q] = pc[q] /\ job'[q] = job[q]
      BY <1>13 DEF Mark, MarkFails, Leave, Return, Goto, history
  <2> QED
      BY <1>2, <2>1 DEF InFlight
<1>14. ASSUME NEW p \in Procs, LockAccount(p) \/ LockGate(p)
       PROVE  KnownInv'
  <2>1. /\ UNCHANGED <<cache, tmp, blind>>
        /\ \A q \in Procs \ {p} : pc'[q] = pc[q] /\ job'[q] = job[q]
      BY <1>14 DEF LockAccount, LockGate, Goto, history
  <2>2. /\ job'[p].account = job[p].account /\ job'[p].cached = job[p].cached
        /\ job'[p].answer = job[p].answer
      BY <1>14 DEF LockAccount, LockGate, Jobs
  <2>3. \/ pc[p] = "begun" /\ pc'[p] = "account"
        \/ pc[p] = "account" /\ pc'[p] = "gate"
        \/ pc[p] = "mark" /\ pc'[p] = "marking"
      BY <1>14 DEF LockAccount, LockGate, Goto
  <2>4. Knows(p) => Knows(p)'
      BY <2>1, <2>2, <2>3 DEF Knows
  <2>5. CASE p \in Syncers
      BY <1>1, <2>1, <2>2, <2>3, <2>4, <2>5 DEF InFlight
  <2>6. CASE p \notin Syncers
      BY <1>2, <2>1, <2>6
  <2> QED
      BY <2>5, <2>6
<1>15. ASSUME NEW p \in Procs, LockFails(p)
       PROVE  KnownInv'
    BY <1>2, <1>15 DEF LockFails, Return, Goto, InFlight, history
<1>16. CASE StoreKey \/ Bind
  <2>1. /\ UNCHANGED <<cache, tmp, blind>> /\ pc'[Connect] \in {"idle", "bind"}
        /\ \A q \in Procs \ {Connect} : pc'[q] = pc[q] /\ job'[q] = job[q]
        /\ Connect \in Syncers
      BY <1>16, Shapes DEF StoreKey, Bind, Return, Goto, files, history
  <2> QED
      BY <1>2, <2>1 DEF InFlight
<1>17. ASSUME NEW a \in Accounts, ImportCsv(a) \/ DisconnectCsv(a)
       PROVE  KnownInv'
    BY <1>2, <1>17 DEF ImportCsv, DisconnectCsv, files, history
<1>18. ASSUME NEW a \in Accounts, Disconnect(a)
       PROVE  KnownInv'
  <2>1. /\ UNCHANGED <<tmp, blind>>
        /\ \A q \in Syncers : pc'[q] = pc[q] /\ job'[q] = job[q]
        /\ \A b \in Accounts : cache'[b] = "data" => cache[b] = "data"
      BY <1>18 DEF Disconnect, Goto, history
  <2>2. \A q \in Syncers : pc[q] \in InFlight => job[q].account \in Accounts
      BY DEF JobInv, InFlight
  <2> QED
      BY <2>1, <2>2 DEF KnownInv, Knows
<1>19. CASE ClearGate \/ Disconnected
    BY <1>2, <1>19 DEF ClearGate, Disconnected, Return, Goto, files, history
<1>20. ASSUME NEW P, Crash(P)
       PROVE  KnownInv'
  <2>1. /\ UNCHANGED <<cache, blind>>
        /\ \A q \in Procs : pc'[q] \in InFlight => pc'[q] = pc[q] /\ job'[q] = job[q]
      BY <1>20 DEF Crash, InFlight, history
  <2>2. \A a \in Accounts : tmp'[a].content = tmp[a].content
    <3>1. tmp \in [Accounts -> [content : {"absent", "blank", "empty", "data", "garbled"},
                                openers : SUBSET Syncers]]
        BY TypeIs DEF AdminInv, FilesOK
    <3> QED
        BY <1>20, <3>1 DEF Crash
  <2>3. \A q \in Syncers : pc[q] \in InFlight => job[q].account \in Accounts
      BY DEF JobInv, InFlight
  <2> QED
      BY <2>1, <2>2, <2>3 DEF KnownInv, Knows
<1>21. CASE Tick \/ UNCHANGED vars
    BY <1>2, <1>21 DEF Tick, vars, files, history
<1> QED
  <2>1. CASE \E p \in Syncers : Sync(p)
      BY <1>3, <1>4, <1>5, <1>6, <1>7, <1>8, <1>9, <1>10, <1>11, <1>12, <1>13, <2>1 DEF Sync
  <2> QED
      BY <1>14, <1>15, <1>16, <1>17, <1>18, <1>19, <1>20, <1>21, <2>1 DEF Next

-----------------------------------------------------------------------------
(* The theorems.                                                           *)

(* It starts so: nobody is under way. *)
LEMMA AdminInit == Init => AdminInv
<1> SUFFICES ASSUME Init
             PROVE  AdminInv
    OBVIOUS
<1>1. TypeOK
  <2>1. LocksOK
    <3>1. Free \notin Procs
        BY ThreadsAreThree
    <3> QED
        BY <3>1 DEF Init, LocksOK
  <2> QED
      BY <2>1, StateInit, TypeIs
<1>2. PcInv
    BY DEF Init, PcInv, Procs, Window
<1>3. JobInv
    BY DEF Init, JobInv, InFlight
<1>4. LastInv
    BY DEF Init, LastInv, NoEntry, NoTime
<1>5. KnownInv
    BY DEF Init, KnownInv, InFlight, Syncers, Automatic, Procs, Window
<1> QED
    BY <1>1, <1>2, <1>3, <1>4, <1>5 DEF AdminInv

(* The invariant that the theorems below follow from holds always, however  *)
(* the window's threads and the command lines interleave, fail and end      *)
(* (reserve_admin_sync, mark_admin_sync_attempt, clear_admin_account_state). *)
THEOREM AdminInvariant == Spec => []AdminInv
<1>1. AdminInv /\ [Next]_vars => AdminInv'
    BY TypeStep, PcNext, JobNext, LastNext, KnownNext DEF AdminInv
<1> QED
    BY AdminInit, <1>1, PTL DEF Spec

(* Every variable has its kind of value, and the lock of the gate file and  *)
(* that of each account are held by whoever is past them, and by nobody     *)
(* else (exclusive_file_lock).                                             *)
THEOREM TypeCorrect == Spec => []TypeOK
<1>1. AdminInv => TypeOK
    BY DEF AdminInv
<1> QED
    BY AdminInvariant, <1>1, PTL

(* Who writes the gate file writes what it has read below the lock, but for *)
(* its own account, unless it could not read it                            *)
(* (_write_admin_sync_attempt, clear_admin_account_state).                 *)
LEMMA GateWriters ==
    ASSUME AdminInv, [Next]_vars, gate' # gate
    PROVE  \E p \in Procs : /\ pc[p] \in {"gate", "marking"} /\ pc'[p] # pc[p]
                            /\ \E entry : gate' = [job[p].seen EXCEPT ![Account(p)] = entry]
<1> pc \in [Procs -> Places] /\ Syncers \subseteq Procs /\ Ui \in Procs
    BY Shapes
<1>1. ASSUME NEW p \in Syncers, Sync(p)
      PROVE  Reserve(p) \/ Mark(p)
    BY <1>1 DEF Sync, Load, Begin, Refuse, FetchFails, FetchAnswers, OpenTmp, WriteTmp,
                ReplaceTmp, SaveFails, MarkFails, files
<1>2. ASSUME \/ \E p \in Procs : LockAccount(p) \/ LockGate(p) \/ LockFails(p)
             \/ StoreKey \/ Bind \/ Disconnected
             \/ \E a \in Accounts : ImportCsv(a) \/ DisconnectCsv(a) \/ Disconnect(a)
             \/ Crash(Window) \/ (\E p \in Clis : Crash({p})) \/ Tick \/ UNCHANGED vars
      PROVE  FALSE
    BY <1>2 DEF LockAccount, LockGate, LockFails, StoreKey, Bind, Disconnected, ImportCsv,
                DisconnectCsv, Disconnect, Crash, Tick, vars, files
<1>3. CASE ClearGate
  <2>1. /\ pc[Ui] = "gate" /\ pc'[Ui] = "cleared"
        /\ gate' = [job[Ui].seen EXCEPT ![Account(Ui)] = NoEntry]
      BY <1>3 DEF ClearGate, Goto
  <2> QED
      BY <2>1
<1>4. ASSUME NEW p \in Procs, Reserve(p)
      PROVE  /\ pc[p] = "gate" /\ pc'[p] = "fetch"
             /\ \E entry : gate' = [job[p].seen EXCEPT ![Account(p)] = entry]
    BY <1>4 DEF Reserve, WriteGate, Goto
<1>5. ASSUME NEW p \in Procs, Mark(p)
      PROVE  /\ pc[p] = "marking" /\ pc'[p] \in {"store", "idle"}
             /\ \E entry : gate' = [job[p].seen EXCEPT ![Account(p)] = entry]
    BY <1>5 DEF Mark, Leave, Return, WriteGate, Goto
<1>6. CASE \E p \in Syncers : Sync(p)
  <2>1. PICK p \in Syncers : Reserve(p) \/ Mark(p)
      BY <1>1, <1>6
  <2>2. /\ pc[p] \in {"gate", "marking"} /\ pc'[p] # pc[p]
        /\ \E entry : gate' = [job[p].seen EXCEPT ![Account(p)] = entry]
      BY <1>4, <1>5, <2>1
  <2> QED
      BY <2>2
<1> QED
    BY <1>2, <1>3, <1>6 DEF Next

(* A sync or a disconnect of one account leaves the entries of the others    *)
(* in the common gate file alone, however their writes interleave.         *)
THEOREM OthersKeptCorrect == Spec => OthersKept
<1>1. ASSUME AdminInv, [Next]_vars, gate' # gate
      PROVE  \E p \in Procs :
                 /\ pc[p] \in {"gate", "marking"} /\ pc'[p] # pc[p]
                 /\ \/ job[p].seen = Unreadable
                    \/ \A a \in Accounts \ {Account(p)} : gate'[a] = gate[a]
  <2>1. PICK p \in Procs : /\ pc[p] \in {"gate", "marking"} /\ pc'[p] # pc[p]
                           /\ \E entry : gate' = [job[p].seen EXCEPT ![Account(p)] = entry]
      BY <1>1, GateWriters
  <2>2. job[p].seen \in {gate, Unreadable} /\ gate \in Gates
      BY <1>1, <2>1, Shapes DEF JobInv
  <2>3. job[p].seen = gate => \A a \in Accounts \ {Account(p)} : gate'[a] = gate[a]
      BY <2>1, <2>2 DEF Gates
  <2> QED
      BY <2>1, <2>2, <2>3
<1>2. AdminInv /\ [Next]_vars =>
        (gate' # gate =>
          \E p \in Procs :
              /\ pc[p] \in {"gate", "marking"} /\ pc'[p] # pc[p]
              /\ \/ job[p].seen = Unreadable
                 \/ \A a \in Accounts \ {Account(p)} : gate'[a] = gate[a])
    BY <1>1
<1> QED
    BY <1>2, AdminInvariant, PTL DEF Spec, OthersKept

(* Only a reservation leads from the gate to the fetch. *)
LEMMA OnlyReserveFetches ==
    ASSUME AdminInv, [Next]_vars, NEW p \in Syncers, pc[p] = "gate", pc'[p] = "fetch"
    PROVE  Reserve(p)
<1> pc \in [Procs -> Places] /\ Syncers \subseteq Procs /\ Ui \in Procs /\ Ui \notin Syncers
    BY Shapes, UiNoSyncer
<1>1. ASSUME NEW q \in Syncers, Sync(q)
      PROVE  Reserve(p)
    BY <1>1 DEF Sync, Load, Begin, Refuse, FetchFails, FetchAnswers, OpenTmp, WriteTmp,
                ReplaceTmp, SaveFails, Mark, MarkFails, Leave, Return, Reserve, Goto
<1>2. ASSUME \/ \E q \in Procs : LockAccount(q) \/ LockGate(q) \/ LockFails(q)
             \/ StoreKey \/ Bind \/ ClearGate \/ Disconnected
             \/ \E a \in Accounts : ImportCsv(a) \/ DisconnectCsv(a) \/ Disconnect(a)
             \/ Crash(Window) \/ (\E q \in Clis : Crash({q})) \/ Tick \/ UNCHANGED vars
      PROVE  FALSE
    BY <1>2 DEF LockAccount, LockGate, LockFails, StoreKey, Bind, ClearGate, Disconnected,
                ImportCsv, DisconnectCsv, Disconnect, Crash, Tick, vars, Return, Goto
<1> QED
    BY <1>1, <1>2 DEF Next

(* Automatic syncs of an account are an hour apart, whoever begins them and *)
(* whether or not they end (admin_sync_is_allowed below both locks).       *)
THEOREM HourlyGateCorrect == Spec => HourlyGate
<1>1. ASSUME AdminInv, [Next]_vars, NEW p \in Automatic, pc[p] = "gate", pc'[p] = "fetch"
      PROVE  \/ last[Account(p)] = NoTime \/ job[p].seen = Unreadable
             \/ job[p].at - last[Account(p)] >= Interval
  <2>1. p \in Syncers /\ p \in Procs /\ p # Connect /\ p # Ui
      BY ThreadsAreThree, UiNoSyncer DEF Syncers, Automatic, Procs, Window
  <2>2. Open(job[p].at, job[p].seen[Account(p)])
      BY <1>1, <2>1, OnlyReserveFetches DEF Reserve, MayReserve
  <2>3. /\ Account(p) \in Accounts /\ job[p].at \in 0 .. MaxTime
        /\ job[p].seen \in {gate, Unreadable}
      BY <1>1, <2>1, Shapes DEF JobInv, InFlight
  <2>4. /\ last[Account(p)] \in {NoTime} \union (0 .. MaxTime)
        /\ gate[Account(p)].attempt \in {NoTime} \union (0 .. MaxTime)
        /\ last[Account(p)] <= gate[Account(p)].attempt
      BY <1>1, <2>3 DEF AdminInv, TypeOK, Gates, Entries, LastInv
  <2>5. CASE job[p].seen = gate
    <3>1. \/ gate[Account(p)].attempt = NoTime
          \/ job[p].at - gate[Account(p)].attempt >= Interval
        BY <2>2, <2>5 DEF Open
    <3> QED
        BY <2>3, <2>4, <3>1, ConstantsAssumption DEF NoTime
  <2> QED
      BY <2>3, <2>5
<1>2. AdminInv /\ [Next]_vars =>
        \A p \in Automatic :
          pc[p] = "gate" /\ pc'[p] = "fetch" =>
              \/ last[Account(p)] = NoTime \/ job[p].seen = Unreadable
              \/ job[p].at - last[Account(p)] >= Interval
    BY <1>1
<1> QED
    BY <1>2, AdminInvariant, PTL DEF Spec, HourlyGate

(* Observations in the cache are never replaced by an empty or a broken      *)
(* file, whatever fails and whoever ends half way (an empty answer does not *)
(* replace known ones; the .tmp is renamed only when it is whole).         *)
THEOREM KnownGoodKeptCorrect == Spec => KnownGoodKept
<1>1. ASSUME AdminInv, [Next]_vars, NEW a \in Accounts, cache[a] = "data", cache'[a] # "data"
      PROVE  pc'[Ui] = "begun" \/ a \in blind
  <2> /\ pc \in [Procs -> Places] /\ Syncers \subseteq Procs /\ Ui \in Procs
      /\ cache \in [Accounts -> Contents] /\ JobInv /\ KnownInv
      BY <1>1, Shapes DEF AdminInv
  <2>1. ASSUME NEW p \in Syncers, Sync(p)
        PROVE  ReplaceTmp(p)
      BY <1>1, <2>1 DEF Sync, Load, Begin, Refuse, Reserve, FetchFails, FetchAnswers, OpenTmp,
                        WriteTmp, SaveFails, Mark, MarkFails, files
  <2>2. ASSUME NEW p \in Syncers, ReplaceTmp(p)
        PROVE  a \in blind
    <3>1. /\ pc[p] = "replace" /\ a = Account(p)
          /\ cache'[a] = IF tmp[a].content = "blank" THEN "garbled" ELSE tmp[a].content
        BY <1>1, <2>2 DEF ReplaceTmp
    <3>2. a \notin blind => tmp[a].content = "data"
        BY <1>1, <3>1 DEF KnownInv, Knows, InFlight
    <3> QED
        BY <1>1, <3>1, <3>2
  <2>3. ASSUME NEW b \in Accounts, Disconnect(b)
        PROVE  pc'[Ui] = "begun"
      BY <2>3 DEF Disconnect, Goto
  <2>4. ASSUME \/ \E p \in Procs : LockAccount(p) \/ LockGate(p) \/ LockFails(p)
               \/ StoreKey \/ Bind \/ ClearGate \/ Disconnected
               \/ \E b \in Accounts : ImportCsv(b) \/ DisconnectCsv(b)
               \/ Crash(Window) \/ (\E p \in Clis : Crash({p})) \/ Tick \/ UNCHANGED vars
        PROVE  FALSE
      BY <1>1, <2>4 DEF LockAccount, LockGate, LockFails, StoreKey, Bind, ClearGate, Disconnected,
                        ImportCsv, DisconnectCsv, Crash, Tick, vars, files
  <2> QED
      BY <1>1, <2>1, <2>2, <2>3, <2>4 DEF Next
<1>2. AdminInv /\ [Next]_vars =>
        \A a \in Accounts :
          cache[a] = "data" /\ cache'[a] # "data" =>
              pc'[Ui] = "begun" \/ a \in blind
    BY <1>1
<1> QED
    BY <1>2, AdminInvariant, PTL DEF Spec, KnownGoodKept

(* The key goes with the last account that is bound to the API, whichever   *)
(* way that account goes (import_cursor_csv, disconnect_cursor_account).   *)
THEOREM LastBindingTakesKeyCorrect == Spec => LastBindingTakesKey
<1>1. ASSUME AdminInv, [Next]_vars, AdminIn(binding), ~AdminIn(binding')
      PROVE  ~key'
  <2> /\ JobInv /\ binding \in [Accounts -> {"none", "csv", "admin"}] /\ key \in BOOLEAN
      /\ Connect \in Procs
      BY <1>1, Shapes, TypeIs DEF AdminInv, StateOK, Syncers
  <2>1. CASE Bind
    <3>1. Account(Connect) \in Accounts
        BY <2>1 DEF Bind, JobInv
    <3>2. binding'[Account(Connect)] = "admin"
        BY <2>1, <3>1 DEF Bind
    <3> QED
        BY <1>1, <3>1, <3>2 DEF AdminIn
  <2>2. ASSUME NEW a \in Accounts, ImportCsv(a)
        PROVE  ~key'
      BY <1>1, <2>2 DEF ImportCsv
  <2>3. ASSUME NEW a \in Accounts, DisconnectCsv(a)
        PROVE  FALSE
      BY <1>1, <2>3 DEF DisconnectCsv, AdminIn
  <2>4. CASE Disconnected
      BY <1>1, <2>4 DEF Disconnected
  <2>5. ASSUME UNCHANGED binding
        PROVE  FALSE
      BY <1>1, <2>5
  <2>6. ASSUME NEW p \in Syncers, Sync(p)
        PROVE  UNCHANGED binding
      BY <2>6 DEF Sync, Load, Begin, Refuse, Reserve, FetchFails, FetchAnswers, OpenTmp, WriteTmp,
                  ReplaceTmp, SaveFails, Mark, MarkFails
  <2>7. ASSUME \/ \E p \in Procs : LockAccount(p) \/ LockGate(p) \/ LockFails(p)
               \/ StoreKey \/ ClearGate \/ (\E a \in Accounts : Disconnect(a))
               \/ Crash(Window) \/ (\E p \in Clis : Crash({p})) \/ Tick \/ UNCHANGED vars
        PROVE  UNCHANGED binding
      BY <2>7 DEF LockAccount, LockGate, LockFails, StoreKey, ClearGate, Disconnect, Crash, Tick, vars
  <2> QED
      BY <1>1, <2>1, <2>2, <2>3, <2>4, <2>5, <2>6, <2>7 DEF Next
<1>2. AdminInv /\ [Next]_vars => (AdminIn(binding) /\ ~AdminIn(binding') => ~key')
    BY <1>1
<1> QED
    BY <1>2, AdminInvariant, PTL DEF Spec, LastBindingTakesKey

=============================================================================
