---------------------------- MODULE MCApp_proofs ----------------------------
(***************************************************************************)
(* Proofs about MCApp, for any number of workers, of changes and of lines  *)
(* and any sizes: that the window is guarded (GuiWorkers), and that the    *)
(* answers of its child processes are whole (BoundedProcess,               *)
(* AppServerRpc).                                                          *)
(***************************************************************************)
EXTENDS MCApp, SequenceTheorems, TLAPS

-----------------------------------------------------------------------------
(* The window (GuiWorkers).                                                *)

Kinds == {"auto", "manual", "admin"}

(* Whoever waits longest in a box gets the version it had. *)
LEMMA FrontLast ==
    ASSUME NEW S, NEW s \in Seq(S), s # <<>>
    PROVE  Front(s) \in Seq(S) /\ Last(s) \in S
<1>1. Len(s) \in Nat \ {0} /\ \A i \in 1 .. Len(s) : s[i] \in S
    BY EmptySeq, LenProperties, ElementOfSeq
<1>2. Last(s) \in S
    BY <1>1 DEF Last
<1>3. Front(s) \in Seq(S)
    BY <1>1, SubSeqProperties DEF Front
<1> QED
    BY <1>2, <1>3

-----------------------------------------------------------------------------
(* Type correctness *)

(* What the start of a worker, and the absence of one, leave. *)
WorkTyped ==
    /\ busy' \in BOOLEAN /\ active' \subseteq Workers
    /\ kind' \in [Workers -> Kinds] /\ cfg' \in [Workers -> Versions]
    /\ served' \in Versions

(* A worker that starts leaves every kind in place. *)
LEMMA StartTyped ==
    ASSUME TypeOK, NEW k \in Kinds, NEW v \in Versions, Start(k, v)
    PROVE  WorkTyped /\ rejected' \in BOOLEAN
<1>1. PICK w \in Workers : /\ active' = active \union {w}
                           /\ kind' = [kind EXCEPT ![w] = k]
                           /\ cfg' = [cfg EXCEPT ![w] = v]
    BY DEF Start
<1>2. served' \in Versions /\ rejected' \in BOOLEAN
    BY DEF Start, TypeOK
<1> QED
    BY <1>1, <1>2 DEF Start, TypeOK, WorkTyped, Kinds

(* So does a step that starts none, *)
LEMMA NoStartTyped == TypeOK /\ NoStart => WorkTyped
BY DEF TypeOK, NoStart, work, WorkTyped, Kinds

(* a refresh of the display, *)
LEMMA DisplayRefreshTyped ==
    ASSUME TypeOK, widgets' \in Versions,
           NEW r \in Versions, NEW p \in BOOLEAN, DisplayRefresh(r, p)
    PROVE  WorkTyped /\ pending' \in BOOLEAN /\ runtime' \in Versions /\ rejected' \in BOOLEAN
<1>1. CASE Start("auto", widgets') /\ pending' = p /\ runtime' = widgets'
    BY <1>1, StartTyped DEF Kinds
<1>2. CASE NoStart /\ pending' \in {TRUE, p} /\ runtime' = r /\ rejected' \in {rejected, TRUE}
    BY <1>2, NoStartTyped DEF TypeOK
<1> QED
    BY <1>1, <1>2 DEF DisplayRefresh

(* settings that are saved, *)
LEMMA NewSettingsTyped ==
    ASSUME TypeOK, NEW tooLong, NewSettings(tooLong)
    PROVE  widgets' \in Versions /\ oversized' \subseteq Versions
BY BoundsAssumption DEF TypeOK, NewSettings, Versions

(* their comparison with the budget, *)
LEMMA OverTyped == over \in BOOLEAN
BY DEF over

(* a hold of the rotation *)
LEMMA HoldCycleTyped ==
    ASSUME TypeOK, NEW blocked \in BOOLEAN, HoldCycle(blocked)
    PROVE  infeasible' \in BOOLEAN /\ timer' \in BOOLEAN
BY DEF TypeOK, HoldCycle, over

(* and an account that is bound anew. *)
LEMMA RebindTyped ==
    ASSUME TypeOK, Rebind, dialog' \in {"none", "csv", "admin"},
           due' \in [Workers -> {"nothing", "result", "finished"}]
    PROVE  TypeOK'
<1>1. widgets' \in Versions /\ oversized' \subseteq Versions /\ wanted' \in Versions
    BY NewSettingsTyped DEF Rebind
<1>2. CASE unsaved' = Append(unsaved, widgets') /\ NoStart /\ infeasible' = TRUE
           /\ UNCHANGED <<timer, pending, runtime, rejected>>
    <2>1. unsaved' \in Seq(Versions)
        BY <1>1, <1>2 DEF TypeOK
    <2> QED
        BY <1>1, <1>2, <2>1, NoStartTyped DEF Rebind, TypeOK, WorkTyped, Kinds
<1>3. CASE UNCHANGED unsaved /\ HoldCycle(infeasible) /\ DisplayRefresh(widgets', pending)
    <2>1. infeasible \in BOOLEAN /\ pending \in BOOLEAN
        BY DEF TypeOK
    <2> QED
        BY <1>1, <1>3, <2>1, HoldCycleTyped, DisplayRefreshTyped
           DEF Rebind, TypeOK, WorkTyped, Kinds
<1> QED
    BY <1>2, <1>3 DEF Rebind

(* It starts with every kind in place. *)
LEMMA TypeInit == Init => TypeOK
<1>1. 0 \in Versions
    BY BoundsAssumption DEF Versions
<1>2. <<>> \in Seq(Versions)
    BY EmptySeq
<1> QED
    BY <1>1, <1>2 DEF Init, TypeOK

(* The actions of the user *)
LEMMA UserTyped == TypeOK /\ User => TypeOK'
<1> SUFFICES ASSUME TypeOK, User
             PROVE  TypeOK'
    OBVIOUS
<1> USE DEF TypeOK, WorkTyped, Kinds
<1>1. CASE EditDisplaySetting
    <2>1. widgets' \in Versions /\ oversized' \subseteq Versions /\ wanted' \in Versions
        BY <1>1, NewSettingsTyped DEF EditDisplaySetting
    <2>2. infeasible' \in BOOLEAN /\ timer' \in BOOLEAN
        <3>1. CASE HoldCycle(infeasible)
            BY <3>1, HoldCycleTyped
        <3>2. CASE infeasible' = (IF busy THEN infeasible ELSE over) /\ timer' = timer
            BY <3>2, OverTyped
        <3> QED
            BY <1>1, <3>1, <3>2 DEF EditDisplaySetting
    <2>3. WorkTyped /\ pending' \in BOOLEAN /\ runtime' \in Versions /\ rejected' \in BOOLEAN
        BY <1>1, <2>1, DisplayRefreshTyped DEF EditDisplaySetting
    <2> QED
        BY <1>1, <2>1, <2>2, <2>3 DEF EditDisplaySetting
<1>2. ASSUME NEW o \in BOOLEAN, EditPlaylist(o)
      PROVE  TypeOK'
    BY <1>2, NewSettingsTyped, HoldCycleTyped, NoStartTyped DEF EditPlaylist
<1>3. ASSUME NEW o \in BOOLEAN, Detect(o)
      PROVE  TypeOK'
    <2>1. widgets' \in Versions /\ oversized' \subseteq Versions
        BY <1>3, NewSettingsTyped DEF Detect
    <2> QED
        BY <1>3, <2>1, HoldCycleTyped, DisplayRefreshTyped DEF Detect
<1>4. CASE Apply
    BY <1>4 DEF Apply, Applied, NotApplied, over, work, history
<1>5. CASE ApplyAndStart
    <2>1. infeasible' \in BOOLEAN /\ timer' \in BOOLEAN /\ runtime' \in Versions
          /\ box' \in BOOLEAN
        BY <1>5 DEF ApplyAndStart, Applied, NotApplied, over
    <2>2. WorkTyped /\ rejected' \in BOOLEAN
        BY <1>5, StartTyped, NoStartTyped DEF ApplyAndStart
    <2> QED
        BY <1>5, <2>1, <2>2 DEF ApplyAndStart
<1>6. ASSUME NEW d \in {"csv", "admin"}, OpenDialog(d)
      PROVE  TypeOK'
    BY <1>6 DEF OpenDialog, settings, work, history
<1>7. CASE HandlerFails \/ CancelDialog \/ CloseBox \/ Quit
    BY <1>7 DEF HandlerFails, CancelDialog, CloseBox, Quit, settings, work, history
<1>8. CASE RebindUnsaved
    <2>1. unsaved' \in Seq(Versions) /\ Last(unsaved) \in Versions
        BY <1>8, FrontLast DEF RebindUnsaved
    <2>2. WorkTyped /\ pending' \in BOOLEAN /\ runtime' \in Versions /\ rejected' \in BOOLEAN
        BY <1>8, <2>1, DisplayRefreshTyped DEF RebindUnsaved
    <2>3. infeasible' \in BOOLEAN /\ timer' \in BOOLEAN
        BY <1>8, HoldCycleTyped DEF RebindUnsaved
    <2> QED
        BY <1>8, <2>1, <2>2, <2>3 DEF RebindUnsaved
<1>9. CASE ImportCsv \/ DisconnectUsage
    BY <1>9, RebindTyped DEF ImportCsv, DisconnectUsage
<1>10. CASE ConnectAdmin
    BY <1>10, StartTyped DEF ConnectAdmin, settings
<1> QED
    BY <1>1, <1>2, <1>3, <1>4, <1>5, <1>6, <1>7, <1>8, <1>9, <1>10 DEF User

(* The timers and signals of the event loop, and the workers *)
LEMMA LoopTyped ==
    ASSUME TypeOK,
           \/ TimerFires \/ Consume
           \/ \E w \in Workers : WorkerEnds(w) \/ HandleResult(w) \/ Finished(w)
    PROVE  TypeOK'
<1> USE DEF TypeOK, WorkTyped, Kinds
<1>1. CASE TimerFires
    <2>1. WorkTyped /\ rejected' \in BOOLEAN
        BY <1>1, StartTyped, NoStartTyped DEF TimerFires
    <2>2. infeasible' \in BOOLEAN /\ timer' \in BOOLEAN
        <3>1. CASE UNCHANGED <<timer, infeasible>>
            BY <3>1
        <3>2. CASE timer' = FALSE /\ infeasible' = over
            BY <3>2, OverTyped
        <3> QED
            BY <1>1, <3>1, <3>2 DEF TimerFires
    <2> QED
        BY <1>1, <2>1, <2>2 DEF TimerFires, settings
<1>2. CASE Consume
    <2>1. CASE NoStart /\ UNCHANGED <<pending, infeasible, runtime, rejected>>
        BY <1>2, <2>1, NoStartTyped DEF Consume
    <2>2. CASE infeasible' = over /\ DisplayRefresh(runtime, FALSE)
        <3>1. WorkTyped /\ pending' \in BOOLEAN /\ runtime' \in Versions
              /\ rejected' \in BOOLEAN
            BY <1>2, <2>2, DisplayRefreshTyped DEF Consume
        <3>2. infeasible' \in BOOLEAN
            BY <2>2 DEF over
        <3> QED
            BY <1>2, <3>1, <3>2 DEF Consume
    <2> QED
        BY <1>2, <2>1, <2>2 DEF Consume
<1>3. ASSUME NEW w \in Workers, WorkerEnds(w)
      PROVE  TypeOK'
    BY <1>3 DEF WorkerEnds, gui, settings, work, history
<1>4. ASSUME NEW w \in Workers, NEW k \in Kinds, ResultDue(w, k)
      PROVE  due' \in [Workers -> {"nothing", "result", "finished"}]
    BY <1>4 DEF ResultDue
<1>5. ASSUME NEW w \in Workers, ResultShown(w)
      PROVE  TypeOK'
    BY <1>4, <1>5, HoldCycleTyped DEF ResultShown, settings, work, history
<1>6. ASSUME NEW w \in Workers, AutoFails(w)
      PROVE  TypeOK'
    <2>1. infeasible' \in BOOLEAN /\ timer' \in BOOLEAN
        BY <1>6, HoldCycleTyped DEF AutoFails
    <2> QED
        BY <1>4, <1>6, <2>1 DEF AutoFails, settings, work, history
<1>7. ASSUME NEW w \in Workers, FailureShown(w)
      PROVE  TypeOK'
    BY <1>4, <1>7 DEF FailureShown, settings, work, history
<1>8. ASSUME NEW w \in Workers, AdminValidated(w)
      PROVE  TypeOK'
    BY <1>4, <1>8, RebindTyped DEF AdminValidated
<1>9. ASSUME NEW w \in Workers, Finished(w)
      PROVE  TypeOK'
    BY <1>9 DEF Finished, settings, history
<1> QED
    BY <1>1, <1>2, <1>3, <1>5, <1>6, <1>7, <1>8, <1>9 DEF HandleResult

(* Every step leaves every kind in place. *)
LEMMA TypeStep == TypeOK /\ [Next]_vars => TypeOK'
<1>1. TypeOK /\ UNCHANGED vars => TypeOK'
    BY DEF TypeOK, vars, gui, settings, work, history
<1> QED
    BY <1>1, UserTyped, LoopTyped DEF Next

(* Every variable keeps the kind of value TypeOK gives it. *)
THEOREM TypeCorrect == Spec => []TypeOK
BY TypeInit, TypeStep, PTL DEF Spec

-----------------------------------------------------------------------------
(* The lock of the window *)

WindowLock == BusyMeansActive /\ OnePoller

(* The guard of the window reads these variables only. *)
LEMMA GuardUnchanged == WindowLock /\ UNCHANGED <<busy, active, kind>> => WindowLock'
BY DEF WindowLock, BusyMeansActive, OnePoller, Pollers

(* A step that starts nothing leaves it. *)
LEMMA NoStartGuarded == WindowLock /\ NoStart => WindowLock'
BY GuardUnchanged DEF NoStart, work

(* Nobody is there when a poller starts. *)
LEMMA PollerStartGuarded ==
    ASSUME TypeOK, WindowLock, ~busy, NEW k \in Kinds, NEW v, Start(k, v)
    PROVE  WindowLock'
<1>1. active = {}
    BY DEF WindowLock, BusyMeansActive
<1>2. \E w \in Workers : active' = {w}
    BY <1>1 DEF Start
<1> QED
    BY <1>2 DEF Start, WindowLock, BusyMeansActive, OnePoller, Pollers

(* Who connects an account may start behind a poll that began while the      *)
(* dialog was open, but polls nothing.                                       *)
LEMMA AdminStartGuarded ==
    ASSUME TypeOK, WindowLock, NEW v, Start("admin", v)
    PROVE  WindowLock'
<1>1. PICK w \in Workers : /\ w \notin active
                           /\ active' = active \union {w}
                           /\ kind' = [kind EXCEPT ![w] = "admin"]
    BY DEF Start
<1>2. Pollers' = Pollers
    BY <1>1 DEF Pollers, TypeOK
<1> QED
    BY <1>1, <1>2 DEF Start, WindowLock, BusyMeansActive, OnePoller

(* A refresh starts an upload only when none is under way. *)
LEMMA DisplayRefreshGuarded ==
    ASSUME TypeOK, WindowLock, NEW r, NEW p, DisplayRefresh(r, p)
    PROVE  WindowLock'
BY NoStartGuarded, PollerStartGuarded DEF DisplayRefresh, Kinds

(* Binding an account starts a poll only when none is under way. *)
LEMMA RebindGuarded ==
    ASSUME TypeOK, WindowLock, Rebind
    PROVE  WindowLock'
BY NoStartGuarded, DisplayRefreshGuarded DEF Rebind

(* The window is released by the last worker only. *)
LEMMA FinishedGuarded ==
    ASSUME TypeOK, WindowLock, NEW w \in Workers, Finished(w)
    PROVE  WindowLock'
<1>1. Pollers' \subseteq Pollers
    BY DEF Finished, Pollers
<1>2. BusyMeansActive'
    BY DEF Finished, WindowLock, BusyMeansActive
<1> QED
    BY <1>1, <1>2 DEF WindowLock, OnePoller

(* Every step keeps the guard. *)
LEMMA GuardStep == TypeOK /\ WindowLock /\ [Next]_vars => WindowLock'
<1> SUFFICES ASSUME TypeOK, WindowLock, [Next]_vars
             PROVE  WindowLock'
    OBVIOUS
<1>1. CASE EditDisplaySetting
    BY <1>1, DisplayRefreshGuarded DEF EditDisplaySetting
<1>2. ASSUME NEW o \in BOOLEAN, EditPlaylist(o) \/ Detect(o)
      PROVE  WindowLock'
    BY <1>2, NoStartGuarded, DisplayRefreshGuarded DEF EditPlaylist, Detect
<1>3. CASE ApplyAndStart
    BY <1>3, NoStartGuarded, PollerStartGuarded DEF ApplyAndStart, Kinds
<1>4. CASE RebindUnsaved
    BY <1>4, DisplayRefreshGuarded DEF RebindUnsaved
<1>5. CASE ImportCsv \/ DisconnectUsage
    BY <1>5, RebindGuarded DEF ImportCsv, DisconnectUsage
<1>6. CASE ConnectAdmin
    BY <1>6, AdminStartGuarded DEF ConnectAdmin
<1>7. CASE TimerFires
    BY <1>7, NoStartGuarded, PollerStartGuarded DEF TimerFires, Kinds
<1>8. CASE Consume
    BY <1>8, NoStartGuarded, DisplayRefreshGuarded DEF Consume
<1>9. ASSUME NEW w \in Workers, AdminValidated(w) \/ Finished(w)
      PROVE  WindowLock'
    BY <1>9, RebindGuarded, FinishedGuarded DEF AdminValidated
<1>10. CASE Apply \/ (\E d \in {"csv", "admin"} : OpenDialog(d))
            \/ HandlerFails \/ CancelDialog \/ CloseBox \/ Quit
    BY <1>10, GuardUnchanged
       DEF Apply, OpenDialog, HandlerFails, CancelDialog, CloseBox, Quit, work
<1>11. ASSUME NEW w \in Workers,
              WorkerEnds(w) \/ ResultShown(w) \/ AutoFails(w) \/ FailureShown(w)
       PROVE  WindowLock'
    BY <1>11, GuardUnchanged
       DEF WorkerEnds, ResultShown, AutoFails, FailureShown, work, gui
<1>12. CASE UNCHANGED vars
    BY <1>12, GuardUnchanged DEF vars, gui, work
<1> QED
    BY <1>1, <1>2, <1>3, <1>4, <1>5, <1>6, <1>7, <1>8, <1>9, <1>10, <1>11, <1>12
       DEF Next, User, HandleResult

-----------------------------------------------------------------------------
(* Nothing that waits for the window is forgotten *)

(* Versions are judged when they are made; none of the future is too long. *)
Past == oversized \subseteq 0 .. widgets

(* Settings that are saved are the latest version. *)
LEMMA NewSettingsPast ==
    ASSUME TypeOK, Past, NEW tooLong \in BOOLEAN, NewSettings(tooLong)
    PROVE  Past' /\ (over' <=> tooLong)
<1>1. widgets \in Nat /\ widgets' = widgets + 1 /\ widgets' \notin oversized
    BY BoundsAssumption DEF TypeOK, Past, NewSettings, Versions
<1>2. 0 .. widgets \subseteq 0 .. widgets'
    BY <1>1
<1>3. oversized' = IF tooLong THEN oversized \union {widgets'} ELSE oversized
    BY DEF NewSettings
<1>4. widgets' \in 0 .. widgets'
    BY <1>1
<1> QED
    BY <1>1, <1>2, <1>3, <1>4 DEF Past, over

(* No step brings back a version that never was. *)
LEMMA PastStep == TypeOK /\ Past /\ [Next]_vars => Past'
<1> SUFFICES ASSUME TypeOK, Past, [Next]_vars
             PROVE  Past'
    OBVIOUS
<1>1. ASSUME NEW tooLong \in BOOLEAN, NewSettings(tooLong)
      PROVE  Past'
    BY <1>1, NewSettingsPast
<1>2. ASSUME UNCHANGED <<widgets, oversized>>
      PROVE  Past'
    BY <1>2 DEF Past
<1>3. Rebind => Past'
    BY <1>1, OverTyped DEF Rebind
<1>4. EditDisplaySetting => Past'
    BY <1>1, OverTyped DEF EditDisplaySetting
<1>5. ASSUME NEW o \in BOOLEAN, EditPlaylist(o) \/ Detect(o)
      PROVE  Past'
    BY <1>1, <1>5 DEF EditPlaylist, Detect
<1>6. CASE Apply \/ (\E d \in {"csv", "admin"} : OpenDialog(d))
           \/ HandlerFails \/ CancelDialog \/ CloseBox \/ Quit \/ ApplyAndStart
           \/ RebindUnsaved \/ ConnectAdmin \/ TimerFires \/ Consume
    BY <1>2, <1>6
       DEF Apply, OpenDialog, HandlerFails, CancelDialog, CloseBox, Quit, ApplyAndStart,
           RebindUnsaved, ConnectAdmin, TimerFires, Consume, settings
<1>7. ASSUME NEW w \in Workers,
             \/ WorkerEnds(w) \/ ResultShown(w) \/ AutoFails(w) \/ FailureShown(w)
             \/ Finished(w)
      PROVE  Past'
    BY <1>2, <1>7 DEF WorkerEnds, ResultShown, AutoFails, FailureShown, Finished, settings
<1>8. CASE UNCHANGED vars
    BY <1>2, <1>8 DEF vars, settings
<1> QED
    BY <1>3, <1>4, <1>5, <1>6, <1>7, <1>8
       DEF Next, User, HandleResult, ImportCsv, DisconnectUsage, AdminValidated

(* A handler that runs while nothing waits keeps what is armed; the next     *)
(* lemmas say the same of the parts of handlers.                            *)
LEMMA ForgetUnchanged ==
    NothingForgotten /\ UNCHANGED <<pending, busy, posted, exited, timer, infeasible>>
        => NothingForgotten'
BY DEF NothingForgotten

(* A display refresh that comes while a worker runs leaves a flag behind,    *)
(* one that finds the playlist too long a cycle that waits for its repair.  *)
LEMMA DisplayRefreshRemembers ==
    ASSUME NothingForgotten, UNCHANGED <<posted, exited>>, NEW r, DisplayRefresh(r, pending),
           \/ infeasible' = over' /\ (timer' <=> timer \/ (infeasible /\ ~over'))
           \/ busy /\ UNCHANGED <<infeasible, timer>>
    PROVE  NothingForgotten'
<1>1. CASE busy /\ pending' = TRUE /\ NoStart
    BY <1>1 DEF NothingForgotten, NoStart
<1>2. CASE ~busy /\ over' /\ pending' = pending /\ NoStart
    BY <1>2 DEF NothingForgotten, NoStart
<1>3. CASE Start("auto", widgets')
    BY <1>3 DEF NothingForgotten, Start
<1> QED
    BY <1>1, <1>2, <1>3 DEF DisplayRefresh

(* A timer that stays armed forgets nothing. *)
LEMMA ArmedRemembers ==
    ASSUME NothingForgotten, timer \/ infeasible => timer' \/ infeasible',
           UNCHANGED <<pending, busy, posted, exited>>
    PROVE  NothingForgotten'
BY DEF NothingForgotten

(* apply leaves the polls armed or blocked, as they were *)
LEMMA AppliedRemembers ==
    ASSUME Applied \/ NotApplied
    PROVE  timer \/ infeasible => timer' \/ infeasible'
<1>1. CASE timer' = TRUE \/ infeasible' = TRUE
    BY <1>1
<1>2. CASE UNCHANGED <<timer, infeasible>>
    BY <1>2
<1> QED
    BY <1>1, <1>2 DEF Applied, NotApplied

(* A hold of the rotation leaves the timer or the mark. *)
LEMMA HoldCycleRemembers ==
    ASSUME NothingForgotten, HoldCycle(infeasible),
           UNCHANGED <<pending, busy, posted, exited>>
    PROVE  NothingForgotten'
BY DEF NothingForgotten, HoldCycle

(* Binding an account forgets no refresh. *)
LEMMA RebindRemembers ==
    ASSUME NothingForgotten, Rebind
    PROVE  NothingForgotten'
<1>1. CASE infeasible' = TRUE /\ NoStart /\ UNCHANGED <<timer, pending>>
    BY <1>1 DEF Rebind, NothingForgotten, NoStart
<1>2. CASE HoldCycle(infeasible) /\ DisplayRefresh(widgets', pending)
    BY <1>2, DisplayRefreshRemembers DEF Rebind, HoldCycle
<1> QED
    BY <1>1, <1>2 DEF Rebind

(* No step forgets what waits. *)
LEMMA ForgetStep == TypeOK /\ WindowLock /\ Past /\ NothingForgotten /\ [Next]_vars
                        => NothingForgotten'
<1> SUFFICES ASSUME TypeOK, WindowLock, Past, NothingForgotten, [Next]_vars
             PROVE  NothingForgotten'
    OBVIOUS
<1>1. CASE EditDisplaySetting
    <2>1. over' <=> over
        BY <1>1, NewSettingsPast, OverTyped DEF EditDisplaySetting
    <2>2. CASE HoldCycle(infeasible)
        BY <1>1, <2>2, DisplayRefreshRemembers DEF EditDisplaySetting, HoldCycle
    <2>3. CASE busy /\ UNCHANGED <<infeasible, timer>>
        BY <1>1, <2>3, DisplayRefreshRemembers DEF EditDisplaySetting
    <2>4. CASE ~busy /\ infeasible' = over /\ timer' = timer
        <3>1. CASE over'
            BY <1>1, <2>1, <2>4, <3>1
               DEF EditDisplaySetting, DisplayRefresh, NothingForgotten, NoStart
        <3>2. CASE Start("auto", widgets')
            BY <3>2 DEF NothingForgotten, Start
        <3> QED
            BY <1>1, <2>4, <3>1, <3>2 DEF EditDisplaySetting, DisplayRefresh
    <2> QED
        BY <1>1, <2>2, <2>3, <2>4 DEF EditDisplaySetting
<1>2. ASSUME NEW o \in BOOLEAN, EditPlaylist(o)
      PROVE  NothingForgotten'
    BY <1>2, HoldCycleRemembers DEF EditPlaylist, NoStart
<1>3. ASSUME NEW o \in BOOLEAN, Detect(o)
      PROVE  NothingForgotten'
    BY <1>3, DisplayRefreshRemembers DEF Detect, HoldCycle
<1>4. CASE Apply
    BY <1>4, AppliedRemembers, ArmedRemembers DEF Apply
<1>5. CASE ApplyAndStart
    <2>1. CASE NoStart
        BY <1>5, <2>1, AppliedRemembers, ArmedRemembers DEF ApplyAndStart, NoStart
    <2>2. CASE Start("manual", widgets)
        BY <2>2 DEF Start, NothingForgotten
    <2> QED
        BY <1>5, <2>1, <2>2 DEF ApplyAndStart
<1>6. CASE RebindUnsaved
    BY <1>6, DisplayRefreshRemembers DEF RebindUnsaved, HoldCycle
<1>7. CASE ImportCsv \/ DisconnectUsage
    BY <1>7, RebindRemembers DEF ImportCsv, DisconnectUsage
<1>8. CASE ConnectAdmin
    BY <1>8 DEF ConnectAdmin, Start, NothingForgotten
<1>9. CASE Quit
    BY <1>9 DEF Quit, NothingForgotten
<1>10. CASE TimerFires
    <2>1. CASE UNCHANGED <<timer, infeasible>> /\ NoStart
        BY <1>10, <2>1 DEF TimerFires, NothingForgotten, NoStart
    <2>2. CASE infeasible' = over /\ over /\ NoStart
        BY <1>10, <2>2 DEF TimerFires, NothingForgotten, NoStart
    <2>3. CASE Start("auto", runtime)
        BY <2>3 DEF Start, NothingForgotten
    <2> QED
        BY <1>10, <2>1, <2>2, <2>3 DEF TimerFires
<1>11. CASE Consume
    <2>1. CASE (~pending \/ busy) /\ NoStart /\ UNCHANGED <<pending, infeasible>>
        BY <1>11, <2>1 DEF Consume, NothingForgotten, NoStart
    <2>2. CASE infeasible' = over /\ over' /\ pending' = FALSE /\ NoStart
        BY <1>11, <2>2 DEF Consume, over, NothingForgotten
    <2>3. CASE Start("auto", widgets')
        BY <2>3 DEF Start, NothingForgotten
    <2> QED
        BY <1>11, <2>1, <2>2, <2>3
           DEF Consume, DisplayRefresh, WindowLock, BusyMeansActive
<1>12. ASSUME NEW w \in Workers, ResultShown(w)
       PROVE  NothingForgotten'
    BY <1>12, HoldCycleRemembers DEF ResultShown, work
<1>13. ASSUME NEW w \in Workers, AutoFails(w)
       PROVE  NothingForgotten'
    <2>1. timer \/ infeasible => timer' \/ infeasible'
        <3>1. CASE infeasible' = (infeasible \/ cfg[w] \in oversized) /\ timer' = timer
            BY <3>1
        <3>2. CASE HoldCycle(infeasible \/ cfg[w] \in oversized)
            BY <3>2 DEF HoldCycle
        <3> QED
            BY <1>13, <3>1, <3>2 DEF AutoFails
    <2> QED
        BY <1>13, <2>1, ArmedRemembers DEF AutoFails
<1>14. ASSUME NEW w \in Workers, AdminValidated(w)
       PROVE  NothingForgotten'
    BY <1>14, RebindRemembers DEF AdminValidated
<1>15. ASSUME NEW w \in Workers, Finished(w)
       PROVE  NothingForgotten'
    BY <1>15 DEF Finished, NothingForgotten, WindowLock, BusyMeansActive
<1>16. CASE (\E d \in {"csv", "admin"} : OpenDialog(d))
            \/ HandlerFails \/ CancelDialog \/ CloseBox
    BY <1>16, ForgetUnchanged DEF OpenDialog, HandlerFails, CancelDialog, CloseBox
<1>17. ASSUME NEW w \in Workers, WorkerEnds(w) \/ FailureShown(w)
       PROVE  NothingForgotten'
    BY <1>17, ForgetUnchanged DEF WorkerEnds, FailureShown, gui
<1>18. CASE UNCHANGED vars
    BY <1>18, ForgetUnchanged DEF vars, gui
<1> QED
    BY <1>1, <1>2, <1>3, <1>4, <1>5, <1>6, <1>7, <1>8, <1>9, <1>10, <1>11, <1>12,
       <1>13, <1>14, <1>15, <1>16, <1>17, <1>18
       DEF Next, User, HandleResult

(* The buttons are off exactly while a worker is active, two workers never  *)
(* poll at the same time, and a postponed refresh or the next poll is never *)
(* forgotten, whatever dialogs are open and however the workers overlap     *)
(* (set_busy, _start_thread, _finish_thread).                               *)
THEOREM WindowIsGuardedCorrect == Spec => []WindowIsGuarded
<1>1. Init => WindowLock /\ Past /\ NothingForgotten
    BY DEF Init, WindowLock, BusyMeansActive, OnePoller, Pollers, Past, NothingForgotten
<1>2. WindowLock /\ NothingForgotten => WindowIsGuarded
    BY DEF WindowLock, WindowIsGuarded
<1> QED
    BY <1>1, <1>2, GuardStep, PastStep, ForgetStep, TypeCorrect, PTL DEF Spec


-----------------------------------------------------------------------------
(* The bounded command (BoundedProcess).                                   *)

CommandTypes ==
    /\ writers \subseteq {"child", "heir"}
    /\ killed \in BOOLEAN
    /\ wrote \in Nat /\ commandPipe \in Nat /\ output \in Nat
    /\ commandReader \in {"none", "reading", "ended"}
    /\ tooMuch \in BOOLEAN /\ readFailed \in BOOLEAN
    /\ result \in [issue : {"none", "ok", "command_failed", "command_timeout", "output_too_large"},
                   output : Nat]

(* Nothing is lost on the way: what was written is in the pipe, or kept.    *)
(* Only the end of the output ends the reader with neither a failure nor too *)
(* much, and nobody is left then who could write more.                     *)
CommandInv ==
    /\ CommandTypes
    /\ commandPc = "start" => /\ commandReader = "none" /\ result.issue # "ok"
                              /\ wrote = 0 /\ commandPipe = 0 /\ output = 0
                              /\ ~tooMuch /\ ~readFailed
    /\ commandReader = "none" => writers = {}
    /\ commandReader = "reading" => /\ ~tooMuch /\ ~readFailed
                                    /\ wrote = output + commandPipe /\ output <= Cap
    /\ commandReader = "ended" /\ ~tooMuch /\ ~readFailed =>
           wrote = output /\ output <= Cap /\ writers = {} /\ commandPipe = 0
    /\ result.issue = "ok" => /\ commandPc = "done" /\ commandReader = "ended"
                              /\ ~tooMuch /\ ~readFailed /\ result.output = output

(* The smaller of two numbers. *)
LEMMA MinOfTwo ==
    ASSUME NEW m \in Nat, NEW n \in Nat
    PROVE  Command!Min({m, n}) = IF m <= n THEN m ELSE n
<1>1. CASE m <= n
  <2>1. m \in {m, n} /\ \A y \in {m, n} : m <= y
      BY <1>1
  <2>2. \A x \in {m, n} : (\A y \in {m, n} : x <= y) => x = m
      BY <1>1
  <2> QED
      BY <1>1, <2>1, <2>2 DEF Command!Min
<1>2. CASE ~(m <= n)
  <2>1. n \in {m, n} /\ \A y \in {m, n} : n <= y
      BY <1>2
  <2>2. \A x \in {m, n} : (\A y \in {m, n} : x <= y) => x = n
      BY <1>2
  <2> QED
      BY <1>2, <2>1, <2>2 DEF Command!Min
<1> QED
    BY <1>1, <1>2

(* It starts so: nothing runs. *)
LEMMA CommandInit == Command!Init => CommandInv
<1> SUFFICES ASSUME Command!Init
             PROVE  CommandInv
    OBVIOUS
<1>1. result = [issue |-> "none", output |-> 0]
    BY DEF Command!Init, Command!NoResult
<1>2. CommandTypes
  <2>1. /\ writers = {} /\ killed = FALSE /\ tooMuch = FALSE /\ readFailed = FALSE
        /\ wrote = 0 /\ commandPipe = 0 /\ output = 0 /\ commandReader = "none"
      BY DEF Command!Init
  <2>2. result \in [issue : {"none", "ok", "command_failed", "command_timeout", "output_too_large"},
                    output : Nat]
      BY <1>1
  <2> QED
      BY <2>1, <2>2 DEF CommandTypes
<1> QED
    BY <1>1, <1>2 DEF Command!Init, CommandInv

(* One read drops only what is over the cap, and then says so. *)
LEMMA DrainKeeps ==
    ASSUME CommandInv, NEW n \in 1 .. ReadSize, Command!Drain(n)
    PROVE  CommandInv'
<1> DEFINE remaining == Cap + 1 - output
           kept == output + Command!Min({n, remaining})
           full == kept > Cap \/ n > remaining
<1> Cap \in Nat /\ ReadSize \in Nat
    BY CommandAssumption DEF Command!SizesAssumption
<1>1. /\ commandReader = "reading" /\ n \in Nat
      /\ commandPipe \in Nat /\ output \in Nat /\ wrote \in Nat
      /\ wrote = output + commandPipe /\ output <= Cap
      /\ commandPc # "start"
    BY DEF Command!Drain, CommandInv, CommandTypes
<1>2. n <= commandPipe
  <2>1. Command!Min({commandPipe, ReadSize}) \in Int /\ Command!Min({commandPipe, ReadSize}) <= commandPipe
      BY <1>1, MinOfTwo
  <2>2. n \in 1 .. Command!Min({commandPipe, ReadSize})
      BY DEF Command!Drain
  <2> QED
      BY <1>1, <2>1, <2>2
<1>3. /\ kept \in Nat /\ full \in BOOLEAN
      /\ ~full => kept = output + n /\ kept <= Cap
  <2>1. remaining \in Nat
      BY <1>1
  <2> QED
      BY <1>1, <2>1, MinOfTwo
<1>4. /\ commandPipe' = commandPipe - n /\ output' = kept /\ tooMuch' = full
      /\ killed' = (killed \/ (full /\ Command!Alive))
      /\ commandReader' = IF full THEN "ended" ELSE commandReader
      /\ UNCHANGED <<writers, wrote, readFailed, commandPc, result>>
    BY DEF Command!Drain
<1> HIDE DEF remaining, kept, full
<1>5. CommandTypes'
    BY <1>1, <1>2, <1>3, <1>4 DEF CommandInv, CommandTypes
<1> QED
    BY <1>1, <1>2, <1>3, <1>4, <1>5 DEF CommandInv

(* Every step keeps the invariant. *)
LEMMA CommandNext == CommandInv /\ Command!Next => CommandInv'
<1> SUFFICES ASSUME CommandInv, Command!Next
             PROVE  CommandInv'
    OBVIOUS
<1> Cap \in Nat
    BY CommandAssumption DEF Command!SizesAssumption
<1> USE DEF CommandInv, CommandTypes
<1>1. ASSUME NEW n \in 1 .. MaxBytes, Command!Write(n)
      PROVE  CommandInv'
  <2>1. n \in Nat
      BY CommandAssumption DEF Command!SizesAssumption
  <2>2. /\ writers # {} /\ wrote' = wrote + n
        /\ commandPipe' = IF commandReader = "ended" THEN commandPipe ELSE commandPipe + n
        /\ UNCHANGED <<writers, killed, commandReader, output, tooMuch, readFailed, commandPc, result>>
      BY <1>1 DEF Command!Write, Command!readerVars
  <2>3. CommandTypes'
      BY <2>1, <2>2
  <2>4. wrote \in Nat /\ output \in Nat /\ commandPipe \in Nat
      OBVIOUS
  <2>5. CASE commandReader = "ended"
      BY <2>2, <2>3, <2>5
  <2>6. CASE commandReader = "reading"
    <3>1. wrote' = output' + commandPipe'
        BY <2>1, <2>2, <2>4, <2>6
    <3> QED
        BY <2>2, <2>3, <2>6, <3>1
  <2> QED
      BY <2>2, <2>5, <2>6
<1>2. CASE Command!Fork
    BY <1>2 DEF Command!Fork, Command!Alive, Command!readerVars
<1>3. ASSUME NEW w \in writers, Command!Exit(w)
      PROVE  CommandInv'
    BY <1>3 DEF Command!Exit, Command!readerVars
<1>4. CASE Command!ReadsEof
    BY <1>4 DEF Command!ReadsEof, Command!childVars
<1>5. CASE Command!ReadFails
    BY <1>5 DEF Command!ReadFails, Command!childVars
<1>6. CASE Command!Start
    BY <1>6 DEF Command!Start
<1>7. CASE Command!StartFails
    BY <1>7 DEF Command!StartFails, Command!Return, Command!childVars, Command!readerVars
<1>8. CASE Command!ChildEnded \/ Command!Deadline \/ Command!Reaped
  <2>1. /\ UNCHANGED <<writers, wrote, commandPipe, commandReader, output, tooMuch, readFailed, result>>
        /\ commandPc \in {"waiting", "reaping"} /\ commandPc' \notin {"start", "done"}
      BY <1>8 DEF Command!ChildEnded, Command!Deadline, Command!Reaped,
                  Command!childVars, Command!readerVars
  <2>2. killed' \in BOOLEAN
      BY <1>8 DEF Command!ChildEnded, Command!Deadline, Command!Reaped, Command!childVars
  <2> QED
      BY <2>1, <2>2
<1>9. CASE Command!Joined
    BY <1>9 DEF Command!Joined, Command!Issue, Command!Return, Command!childVars, Command!readerVars
<1>10. CASE Command!JoinedLate
    BY <1>10 DEF Command!JoinedLate, Command!Return, Command!childVars, Command!readerVars
<1> QED
    BY <1>1, <1>2, <1>3, <1>4, <1>5, <1>6, <1>7, <1>8, <1>9, <1>10, DrainKeeps
       DEF Command!Next, Command!Caller, Command!Reader

-----------------------------------------------------------------------------
(* The Codex app server (AppServerRpc).                                    *)

(* What the reader passes on, and when each of its kinds may be.            *)
Messages == {AppServer!Answer(id, TRUE) : id \in AppServer!Requests}
                \union {AppServer!Answer(id, FALSE) : id \in AppServer!Requests}
                \union {AppServer!Noise, AppServer!TooLong, AppServer!Eof, AppServer!ReadFailed}

FetchTypes ==
    /\ unanswered \subseteq AppServer!Requests
    /\ pipe \in Seq(Messages) /\ queue \in Seq(Messages)
    /\ reader = "putting" => line \in Messages
    /\ request \in AppServer!Requests

(* While the caller asks, there is no account yet, and none is asked for    *)
(* before there are limits.  A reader that has ended stays so.             *)
FetchInv ==
    /\ FetchTypes
    /\ AppServer!AnswersBelong /\ AppServer!PipeOutlivesReader
    /\ pc \in {"sending", "receiving"} =>
          /\ account = AppServer!NoAnswer
          /\ request = 3 => limits # AppServer!NoAnswer

(* Only what answers a request is taken for its answer. *)
LEMMA AnswersAre ==
    /\ \A m \in Messages, id \in AppServer!Requests :
          m.id = id /\ m.kind \notin AppServer!Closing \union {"error"} => m = AppServer!Answer(id, TRUE)
    /\ \A id \in AppServer!Requests : AppServer!Answer(id, TRUE) # AppServer!NoAnswer
    /\ \A id \in AppServer!Requests, ok \in BOOLEAN : AppServer!Answer(id, ok) \in Messages
<1>1. ASSUME NEW m \in Messages, NEW id \in AppServer!Requests,
             m.id = id, m.kind \notin AppServer!Closing \union {"error"}
      PROVE  m = AppServer!Answer(id, TRUE)
  <2>1. PICK ok \in BOOLEAN : m = AppServer!Answer(id, ok)
    <3>1. m \notin {AppServer!Noise, AppServer!TooLong, AppServer!Eof, AppServer!ReadFailed}
      <4>1. m.id # 0
          BY <1>1 DEF AppServer!Requests
      <4>2. /\ AppServer!Noise.id = 0 /\ AppServer!TooLong.id = 0
            /\ AppServer!Eof.id = 0 /\ AppServer!ReadFailed.id = 0
          BY DEF AppServer!Noise, AppServer!TooLong, AppServer!Eof, AppServer!ReadFailed
      <4> QED
          BY <4>1, <4>2
    <3>2. PICK other \in AppServer!Requests : \E ok \in BOOLEAN : m = AppServer!Answer(other, ok)
        BY <3>1 DEF Messages
    <3>3. m.id = other
        BY <3>2 DEF AppServer!Answer
    <3> QED
        BY <1>1, <3>2, <3>3
  <2>2. ok = TRUE
      BY <1>1, <2>1 DEF AppServer!Answer
  <2> QED
      BY <2>1, <2>2
<1>2. ASSUME NEW id \in AppServer!Requests
      PROVE  AppServer!Answer(id, TRUE) # AppServer!NoAnswer
  <2>1. AppServer!Answer(id, TRUE).kind = "result" /\ AppServer!NoAnswer.kind = "none"
      BY DEF AppServer!Answer, AppServer!NoAnswer
  <2> QED
      BY <2>1
<1>3. ASSUME NEW id \in AppServer!Requests, NEW ok \in BOOLEAN
      PROVE  AppServer!Answer(id, ok) \in Messages
  <2>1. ok = TRUE \/ ok = FALSE
      OBVIOUS
  <2> QED
      BY <2>1 DEF Messages
<1> QED
    BY <1>1, <1>2, <1>3

(* It starts so: nothing is asked yet. *)
LEMMA FetchInit == AppServer!Init => FetchInv
BY DEF AppServer!Init, FetchInv, FetchTypes, AppServer!Requests, AppServer!AnswersBelong,
       AppServer!PipeOutlivesReader

(* Every step keeps the kinds of the messages. *)
LEMMA FetchTyped == FetchInv /\ AppServer!Next => FetchTypes'
<1> SUFFICES ASSUME FetchInv, AppServer!Next
             PROVE  FetchTypes'
    OBVIOUS
<1> FetchTypes
    BY DEF FetchInv
<1> USE DEF FetchTypes, AppServer!serverVars, AppServer!readerVars, AppServer!callerVars
<1>1. CASE AppServer!Send
    BY <1>1 DEF AppServer!Send, AppServer!CleanUp
<1>2. CASE AppServer!Receive
  <2>1. queue # <<>> /\ queue' = Tail(queue) /\ UNCHANGED <<unanswered, pipe, reader, line>>
      BY <1>2 DEF AppServer!Receive
  <2>2. request' \in AppServer!Requests
    <3>1. CASE UNCHANGED request
        BY <3>1
    <3>2. CASE AppServer!Accept(Head(queue))
        BY <3>2 DEF AppServer!Accept, AppServer!Requests
    <3> QED
        BY <1>2, <3>1, <3>2 DEF AppServer!Receive, AppServer!Fail
  <2> QED
      BY <2>1, <2>2
<1>3. CASE AppServer!TimesOut \/ AppServer!CloseStdin \/ AppServer!Kill \/ AppServer!Waited \/ AppServer!Joined
    BY <1>3 DEF AppServer!TimesOut, AppServer!Fail, AppServer!CloseStdin, AppServer!Kill,
                AppServer!Waited, AppServer!Joined
<1>4. CASE AppServer!Take
  <2>1. line' \in Messages /\ pipe' \in Seq(Messages)
    <3>1. CASE pipe # <<>> /\ line' = Head(pipe) /\ pipe' = Tail(pipe)
        BY <3>1
    <3>2. CASE line' = AppServer!Eof /\ UNCHANGED pipe
        BY <3>2 DEF Messages
    <3> QED
        BY <1>4, <3>1, <3>2 DEF AppServer!Take
  <2> QED
      BY <1>4, <2>1 DEF AppServer!Take
<1>5. CASE AppServer!CannotRead
    BY <1>5 DEF AppServer!CannotRead, Messages
<1>6. CASE AppServer!Put
    BY <1>6 DEF AppServer!Put
<1>7. CASE AppServer!ReaderStops \/ AppServer!Ends
    BY <1>7 DEF AppServer!ReaderStops, AppServer!Ends
<1>8. ASSUME NEW id \in AppServer!Requests, NEW ok \in BOOLEAN, AppServer!Answers(id, ok)
      PROVE  FetchTypes'
  <2>1. pipe' \in Seq(Messages)
      BY <1>8, AnswersAre DEF AppServer!Answers, AppServer!Writes
  <2> QED
      BY <1>8, <2>1 DEF AppServer!Answers
<1>9. ASSUME NEW l \in {AppServer!Noise, AppServer!TooLong}, AppServer!Chatters(l)
      PROVE  FetchTypes'
  <2>1. pipe' \in Seq(Messages)
    <3>1. l \in Messages
        BY DEF Messages
    <3> QED
        BY <1>9, <3>1 DEF AppServer!Chatters, AppServer!Writes
  <2> QED
      BY <1>9, <2>1 DEF AppServer!Chatters
<1> QED
    BY <1>1, <1>2, <1>3, <1>4, <1>5, <1>6, <1>7, <1>8, <1>9
       DEF AppServer!Next, AppServer!Caller, AppServer!Reader

(* Every step keeps the answers with their questions. *)
LEMMA FetchNext == FetchInv /\ AppServer!Next => FetchInv'
<1> SUFFICES ASSUME FetchInv, AppServer!Next
             PROVE  FetchInv'
    OBVIOUS
<1> /\ FetchTypes /\ FetchTypes' /\ AppServer!AnswersBelong /\ AppServer!PipeOutlivesReader
    /\ request \in AppServer!Requests
    BY FetchTyped DEF FetchInv, FetchTypes
<1> DEFINE Asking == pc \in {"sending", "receiving"} =>
                        /\ account = AppServer!NoAnswer
                        /\ request = 3 => limits # AppServer!NoAnswer
<1> Asking
    BY DEF FetchInv
<1>1. ASSUME AppServer!AnswersBelong', AppServer!PipeOutlivesReader', Asking'
      PROVE  FetchInv'
    BY <1>1 DEF FetchInv
<1> HIDE DEF FetchTypes
<1> USE DEF AppServer!AnswersBelong, AppServer!PipeOutlivesReader
(* the caller learns no more *)
<1>2. ASSUME UNCHANGED <<limits, account>>,
             (pc' = pc /\ request' = request) \/ pc' \notin {"sending", "receiving"},
             stdout' = stdout \/ reader = "ended", reader = "ended" => reader' = "ended"
      PROVE  FetchInv'
  <2>1. AppServer!AnswersBelong' /\ AppServer!PipeOutlivesReader' /\ Asking'
      BY <1>2
  <2> QED
      BY <1>1, <2>1
(* it forgets the limits, for it has no account *)
<1>3. ASSUME pc \in {"sending", "receiving"}, UNCHANGED <<account, stdout, reader>>,
             limits' \in {limits, AppServer!NoAnswer},
             pc' = "closing stdin"
      PROVE  FetchInv'
  <2>1. AppServer!AnswersBelong' /\ AppServer!PipeOutlivesReader' /\ Asking'
      BY <1>3
  <2> QED
      BY <1>1, <2>1
<1>4. CASE AppServer!Send
  <2>1. CASE AppServer!Running
      BY <1>1, <1>4, <2>1 DEF AppServer!Send, AppServer!readerVars
  <2>2. CASE ~AppServer!Running
      BY <1>3, <1>4, <2>2 DEF AppServer!Send, AppServer!CleanUp, AppServer!readerVars
  <2> QED
      BY <2>1, <2>2
<1>5. CASE AppServer!Receive
  <2> DEFINE m == Head(queue)
  <2>1. pc = "receiving" /\ m \in Messages /\ UNCHANGED <<stdout, reader>>
      BY <1>5 DEF AppServer!Receive, AppServer!Waiting, FetchTypes, AppServer!readerVars
  <2>2. CASE AppServer!Fail
      BY <1>3, <2>1, <2>2 DEF AppServer!Fail, AppServer!CleanUp
  <2>3. CASE UNCHANGED AppServer!callerVars
      BY <1>2, <2>1, <2>3 DEF AppServer!callerVars
  <2>4. CASE AppServer!Accept(m) /\ m.kind \notin AppServer!Closing \union {"error"} /\ m.id = request
    <3>1. m = AppServer!Answer(request, TRUE) /\ m # AppServer!NoAnswer
        BY <2>1, <2>4, AnswersAre
    <3> HIDE DEF m
    <3>2. CASE request = 1
      <4>1. /\ UNCHANGED <<limits, account, stdout, reader>>
            /\ pc' = "sending" /\ request' = 2
          BY <2>1, <2>4, <3>2 DEF AppServer!Accept
      <4>2. AppServer!AnswersBelong' /\ AppServer!PipeOutlivesReader'
          BY <4>1
      <4>3. Asking'
          BY <2>1, <4>1
      <4> QED
          BY <1>1, <4>2, <4>3
    <3>3. CASE request = 2
        BY <1>1, <2>1, <2>4, <3>1, <3>3 DEF AppServer!Accept
    <3>4. CASE request = 3
        BY <1>1, <2>1, <2>4, <3>1, <3>4 DEF AppServer!Accept, AppServer!CleanUp
    <3> QED
        BY <3>2, <3>3, <3>4 DEF AppServer!Requests
  <2> QED
      BY <1>5, <2>2, <2>3, <2>4 DEF AppServer!Receive, AppServer!IsAnswer
<1>6. CASE AppServer!TimesOut
    BY <1>3, <1>6 DEF AppServer!TimesOut, AppServer!Waiting, AppServer!Fail, AppServer!CleanUp,
                      AppServer!readerVars
<1>7. CASE AppServer!CloseStdin \/ AppServer!Kill \/ AppServer!Waited
    BY <1>2, <1>7 DEF AppServer!CloseStdin, AppServer!Kill, AppServer!Waited, AppServer!readerVars
<1>8. CASE AppServer!Joined
    BY <1>2, <1>8 DEF AppServer!Joined, AppServer!MayClose, AppServer!readerVars
<1>9. CASE AppServer!Take \/ AppServer!CannotRead \/ AppServer!Put \/ AppServer!ReaderStops
    BY <1>2, <1>9 DEF AppServer!Take, AppServer!CannotRead, AppServer!Put, AppServer!ReaderStops,
                      AppServer!callerVars
<1>10. ASSUME \/ AppServer!Ends
              \/ \E id \in AppServer!Requests, ok \in BOOLEAN : AppServer!Answers(id, ok)
              \/ \E l \in {AppServer!Noise, AppServer!TooLong} : AppServer!Chatters(l)
       PROVE  FetchInv'
    BY <1>2, <1>10 DEF AppServer!Ends, AppServer!Answers, AppServer!Chatters, AppServer!readerVars,
                       AppServer!callerVars
<1> QED
    BY <1>4, <1>5, <1>6, <1>7, <1>8, <1>9, <1>10
       DEF AppServer!Next, AppServer!Caller, AppServer!Reader

-----------------------------------------------------------------------------
(* The three together.                                                     *)

AppInv ==
    /\ TypeOK /\ WindowLock /\ Past /\ NothingForgotten
    /\ CommandInv /\ FetchInv

(* It starts so, and a step of one part leaves the others as they are. *)
LEMMA AppInduction ==
    /\ AppInit => AppInv
    /\ AppInv /\ [AppNext]_appVars => AppInv'
<1>1. AppInit => AppInv
  <2>1. Init => TypeOK /\ WindowLock /\ Past /\ NothingForgotten
      BY TypeInit DEF Init, WindowLock, BusyMeansActive, OnePoller, Pollers, Past, NothingForgotten
  <2> QED
      BY <2>1, CommandInit, FetchInit DEF AppInit, AppInv
<1>2. ASSUME AppInv, UNCHANGED vars
      PROVE  (TypeOK /\ WindowLock /\ Past /\ NothingForgotten)'
    BY <1>2, TypeStep, GuardStep, PastStep, ForgetStep DEF AppInv
<1>3. ASSUME AppInv, UNCHANGED commandVars
      PROVE  CommandInv'
    BY <1>3 DEF AppInv, CommandInv, CommandTypes, commandVars
<1>4. ASSUME AppInv, UNCHANGED fetchVars
      PROVE  FetchInv'
    BY <1>4 DEF AppInv, FetchInv, FetchTypes, AppServer!AnswersBelong, AppServer!PipeOutlivesReader,
                fetchVars
<1>5. ASSUME AppInv, InWindow(Next)
      PROVE  AppInv'
    BY <1>3, <1>4, <1>5, TypeStep, GuardStep, PastStep, ForgetStep DEF AppInv, InWindow
<1>6. ASSUME AppInv, InCommand(Command!Next)
      PROVE  AppInv'
    BY <1>2, <1>4, <1>6, CommandNext DEF AppInv, InCommand
<1>7. ASSUME AppInv, InFetch(AppServer!Next)
      PROVE  AppInv'
    BY <1>2, <1>3, <1>7, FetchNext DEF AppInv, InFetch
<1>8. ASSUME AppInv, UNCHANGED appVars
      PROVE  AppInv'
    BY <1>2, <1>3, <1>4, <1>8 DEF AppInv, appVars
<1> QED
    BY <1>1, <1>5, <1>6, <1>7, <1>8 DEF AppNext

(* The invariant that the next theorems follow from holds always.           *)
THEOREM AppInvariant == AppSpec => []AppInv
BY AppInduction, PTL DEF AppSpec

(* Output of a command is believed only when all of it was read; what is     *)
(* shown of an account is the answer to its question, however late the      *)
(* answers come; and the pipe outlives the thread that reads it             *)
(* (_run_popen_command, _run_bounded_command, fetch of appserver_rpc.py).   *)
THEOREM AnswersAreWholeCorrect == AppSpec => []AnswersAreWhole
<1>1. CommandInv => Command!AcceptedIsWhole
    BY DEF CommandInv, CommandTypes, Command!AcceptedIsWhole
<1>2. AppInv => AnswersAreWhole
    BY <1>1 DEF AppInv, FetchInv, AnswersAreWhole
<1> QED
    BY AppInvariant, <1>2, PTL

=============================================================================
