----------------------------- MODULE GuiWorkers -----------------------------
(***************************************************************************)
(* The worker threads of the settings window: app/main_window.py.          *)
(*                                                                         *)
(* Handlers run on the GUI thread, one at a time; a worker thread reports  *)
(* by two queued signals, its result and then QThread.finished.  A modal   *)
(* dialog is a nested event loop: while it is open the window takes no     *)
(* input, but timers, signals and the tray menu go on, and the handler     *)
(* that opened it continues when it is closed, with whatever has changed.  *)
(*                                                                         *)
(* A version number stands for a configuration: the one in the widgets,    *)
(* the one the runtime was created for, the one a worker works on.         *)
(***************************************************************************)
EXTENDS Naturals, SequencesExt

CONSTANTS MaxWorkers,   \* bound: worker slots
          MaxEdits      \* bound: changes of the settings

ASSUME BoundsAssumption == MaxWorkers \in Nat /\ MaxEdits \in Nat

Workers == 1 .. MaxWorkers
Versions == 0 .. MaxEdits

VARIABLES busy,         \* _busy: the buttons and the tray entries are off
          timer,        \* _refresh_timer is running
          pending,      \* _display_refresh_pending
          posted,       \* _consume_pending_display_refresh is queued
          infeasible,   \* _playlist_infeasible
          dialog,       \* a handler is waiting in this dialog
          unsaved,      \* handlers waiting in the box "cannot be saved", innermost last
          box,          \* some other message box is open
          exited        \* the event loop has returned

VARIABLES widgets,      \* the configuration in the widgets: collect_config
          oversized,    \* those that need more frames than the keyboard takes
          runtime       \* the configuration of self.runtime

VARIABLES active,       \* _active_threads
          kind,         \* auto (fails silently), manual (fails with a box), admin
          cfg,          \* the configuration each works on
          due           \* the signal of each that is to be handled next

(* History, for the properties only. *)
VARIABLES wanted,       \* the configuration the user last asked to see
          served,       \* the newest configuration a worker was started for
          rejected      \* a display refresh was refused: too many frames

gui      == <<busy, timer, pending, posted, infeasible, dialog, unsaved, box, exited>>
settings == <<widgets, oversized, runtime>>
work     == <<active, kind, cfg>>
history  == <<wanted, served, rejected>>
vars     == <<gui, settings, work, due, history>>

over == widgets \in oversized

Pollers == {w \in active : kind[w] # "admin"}

-----------------------------------------------------------------------------
Init ==
    /\ busy = FALSE /\ pending = FALSE /\ posted = FALSE
    /\ timer = TRUE
    /\ infeasible = FALSE
    /\ dialog = "none" /\ unsaved = <<>> /\ box = FALSE
    /\ exited = FALSE
    /\ widgets = 0 /\ oversized = {} /\ runtime = 0
    /\ active = {}
    /\ kind = [w \in Workers |-> "auto"]
    /\ cfg = [w \in Workers |-> 0]
    /\ due = [w \in Workers |-> "nothing"]
    /\ wanted = 0 /\ served = 0 /\ rejected = FALSE

-----------------------------------------------------------------------------
(* Parts of handlers                                                       *)

(* _start_thread, after set_busy(True) *)
Start(k, version) ==
    /\ busy' = TRUE
    /\ \E w \in Workers :
          /\ w \notin active
          /\ 1 .. w - 1 \subseteq active
          /\ active' = active \union {w}
          /\ kind' = [kind EXCEPT ![w] = k]
          /\ cfg' = [cfg EXCEPT ![w] = version]
    /\ IF k = "admin"
       THEN UNCHANGED <<served, rejected>>
       ELSE /\ served' = IF version > served THEN version ELSE served
            /\ rejected' = (rejected /\ version < wanted')

NoStart == UNCHANGED <<busy, work, served>>

(* update_hold_cycle: whoever repairs the playlist gets a poll at once *)
HoldCycle(blocked) ==
    /\ infeasible' = over'
    /\ timer' = (timer \/ (blocked /\ ~over'))

(* Faulty variants, here and below: each is a bug the code might have had,  *)
(* and some property of this module finds it.                              *)

(* a refresh that comes while a worker runs is dropped *)
DisplayRefreshDropped(r, p) ==
    \/ /\ busy
       /\ pending' = p
       /\ runtime' = r
       /\ NoStart /\ UNCHANGED rejected
    \/ /\ ~busy /\ over'
       /\ pending' = p
       /\ runtime' = r
       /\ rejected' = TRUE
       /\ NoStart
    \/ /\ ~busy /\ ~over'
       /\ pending' = p
       /\ runtime' = widgets'
       /\ Start("auto", widgets')

(* _refresh_display_async(save=False) for the settings as they are now; the *)
(* rest of the handler leaves the runtime at r and the pending flag at p.  *)
DisplayRefresh(r, p) ==
    \/ /\ busy
       /\ pending' = TRUE
       /\ runtime' = r
       /\ NoStart /\ UNCHANGED rejected
    \/ /\ ~busy /\ over'
       /\ pending' = p
       /\ runtime' = r
       /\ rejected' = TRUE
       /\ NoStart
    \/ /\ ~busy /\ ~over'
       /\ pending' = p
       /\ runtime' = widgets'
       /\ Start("auto", widgets')

(* the next version of the settings, whether it is too long or not *)
NewSettings(tooLong) ==
    /\ widgets < MaxEdits
    /\ widgets' = widgets + 1
    /\ oversized' = IF tooLong THEN oversized \union {widgets'} ELSE oversized

(* The user can reach the window: no dialog is in front of it. *)
WindowOpen == ~exited /\ dialog = "none" /\ unsaved = <<>> /\ ~box

-----------------------------------------------------------------------------
(* The user                                                                *)

(* the metric, the period, the currency or the exchange rate: cached cards *)
(* are shown for it, which brings the cycle up to date, if there are any   *)
EditDisplaySetting ==
    /\ WindowOpen
    /\ NewSettings(over)
    /\ wanted' = widgets'
    /\ \/ HoldCycle(infeasible)
       \/ infeasible' = (IF busy THEN infeasible ELSE over) /\ timer' = timer
    /\ DisplayRefresh(runtime, pending)
    /\ UNCHANGED <<posted, dialog, unsaved, box, exited, due>>

(* the hold time, or the accounts that are shown; nothing is refreshed *)
EditPlaylist(o) ==
    /\ WindowOpen
    /\ NewSettings(o)
    /\ HoldCycle(infeasible)
    /\ NoStart
    /\ UNCHANGED <<pending, posted, dialog, unsaved, box, exited, runtime, due, wanted, rejected>>

(* detect: the accounts are discovered again *)
Detect(o) ==
    /\ WindowOpen /\ ~busy
    /\ NewSettings(o)
    /\ wanted' = widgets'
    /\ HoldCycle(infeasible)
    /\ DisplayRefresh(runtime, pending)
    /\ UNCHANGED <<posted, dialog, unsaved, box, exited, due>>

(* the runtime is built for the settings before the last change *)
AppliedLate ==
    /\ ~over
    /\ runtime' = widgets - 1
    /\ timer' = TRUE
    /\ UNCHANGED infeasible

(* apply: the settings are saved and the runtime is replaced; or the user   *)
(* is told that they do not fit, or of another failure, some of which arm  *)
(* the timer first                                                         *)
Applied ==
    /\ ~over
    /\ runtime' = widgets
    /\ timer' = TRUE
    /\ UNCHANGED infeasible

NotApplied ==
    /\ box' = TRUE
    /\ UNCHANGED runtime
    /\ \/ over /\ infeasible' = TRUE /\ timer' = timer
       \/ ~over /\ UNCHANGED infeasible /\ timer' \in {timer, TRUE}

Apply ==
    /\ WindowOpen /\ ~busy
    /\ (Applied /\ UNCHANGED box) \/ NotApplied
    /\ UNCHANGED <<busy, pending, posted, dialog, unsaved, exited, widgets, oversized, work, due, history>>

(* refresh_preview, and upload_now, which the tray offers behind a dialog   *)
(* too: apply first, and a box when the keyboard is not ready              *)
ApplyAndStart ==
    /\ ~exited /\ ~busy
    /\ wanted' = wanted
    /\ \/ NotApplied /\ NoStart /\ UNCHANGED rejected
       \/ Applied /\ box' = TRUE /\ NoStart /\ UNCHANGED rejected
       \/ Applied /\ box' = box /\ Start("manual", widgets)
    /\ UNCHANGED <<pending, posted, dialog, unsaved, exited, widgets, oversized, due>>

(* a handler that ends with a message: detect, _disconnect_cursor_usage *)
HandlerFails ==
    /\ WindowOpen /\ ~busy
    /\ box' = TRUE
    /\ UNCHANGED <<busy, timer, pending, posted, infeasible, dialog, unsaved, exited, settings, work, due, history>>

(* _import_cursor_csv and _connect_cursor_admin look at _busy, and only     *)
(* then ask the user                                                       *)
OpenDialog(d) ==
    /\ WindowOpen /\ ~busy
    /\ dialog' = d
    /\ UNCHANGED <<busy, timer, pending, posted, infeasible, unsaved, box, exited, settings, work, due, history>>

DialogOnTop == unsaved = <<>> /\ ~box /\ ~exited

(* closed, or ended with a warning: no user ID, an unusable file *)
CancelDialog ==
    /\ dialog # "none" /\ DialogOnTop
    /\ dialog' = "none"
    /\ box' \in BOOLEAN
    /\ UNCHANGED <<busy, timer, pending, posted, infeasible, unsaved, exited, settings, work, due, history>>

CloseBox ==
    /\ box /\ ~exited
    /\ box' = FALSE
    /\ UNCHANGED <<busy, timer, pending, posted, infeasible, dialog, unsaved, exited, settings, work, due, history>>

(* _refresh_cursor_runtime, for a binding that changed the configuration:   *)
(* when it cannot be saved the user is told first; the runtime gets it in  *)
(* any case.                                                               *)
Rebind ==
    /\ NewSettings(over)
    /\ wanted' = widgets'
    /\ \/ /\ over
          /\ infeasible' = TRUE
          /\ unsaved' = Append(unsaved, widgets')
          /\ NoStart
          /\ UNCHANGED <<timer, pending, runtime, rejected>>
       \/ /\ ~over
          /\ UNCHANGED unsaved
          /\ HoldCycle(infeasible)
          /\ DisplayRefresh(widgets', pending)
    /\ UNCHANGED <<posted, exited, box>>

(* The box is closed, and its handler goes on with the candidate it had. *)
RebindUnsaved ==
    /\ unsaved # <<>> /\ ~exited
    /\ unsaved' = Front(unsaved)
    /\ UNCHANGED <<widgets, oversized, wanted>>
    /\ HoldCycle(infeasible)
    /\ DisplayRefresh(Last(unsaved), pending)
    /\ UNCHANGED <<posted, dialog, box, exited, due>>

ImportCsv ==
    /\ dialog = "csv" /\ DialogOnTop
    /\ dialog' = "none"
    /\ Rebind
    /\ UNCHANGED due

DisconnectUsage == WindowOpen /\ ~busy /\ Rebind /\ UNCHANGED <<dialog, due>>

ConnectAdmin ==
    /\ dialog = "admin" /\ DialogOnTop
    /\ dialog' = "none"
    /\ wanted' = wanted
    /\ Start("admin", runtime)
    /\ UNCHANGED <<timer, pending, posted, infeasible, unsaved, box, exited, settings, due>>

(* close_app, from the tray, whose entry is off while a worker is active *)
Quit ==
    /\ ~exited /\ ~busy
    /\ timer' = FALSE
    /\ exited' = TRUE
    /\ UNCHANGED <<busy, pending, posted, infeasible, dialog, unsaved, box, settings, work, due, history>>

-----------------------------------------------------------------------------
(* The event loop                                                          *)

(* a poll starts whatever runs already *)
TimerFiresAlways ==
    /\ timer /\ ~exited
    /\ wanted' = wanted
    /\ timer' = FALSE
    /\ infeasible' = over
    /\ \/ over /\ NoStart /\ UNCHANGED rejected
       \/ ~over /\ Start("auto", runtime)
    /\ UNCHANGED <<pending, posted, dialog, unsaved, box, exited, settings, due>>

(* _automatic_refresh: the configuration of the runtime is polled, not the  *)
(* one in the widgets                                                      *)
TimerFires ==
    /\ timer /\ ~exited
    /\ wanted' = wanted
    /\ \/ /\ busy \/ active # {}
          /\ UNCHANGED <<timer, infeasible, rejected>> /\ NoStart
       \/ /\ ~busy /\ active = {}
          /\ timer' = FALSE
          /\ infeasible' = over
          /\ \/ over /\ NoStart /\ UNCHANGED rejected
             \/ ~over /\ Start("auto", runtime)
    /\ UNCHANGED <<pending, posted, dialog, unsaved, box, exited, settings, due>>

(* _consume_pending_display_refresh *)
Consume ==
    /\ posted /\ ~exited
    /\ posted' = FALSE
    /\ UNCHANGED <<widgets, oversized, wanted>>
    /\ \/ /\ ~pending \/ busy \/ active # {}
          /\ NoStart
          /\ UNCHANGED <<pending, infeasible, runtime, rejected>>
       \/ /\ pending /\ ~busy /\ active = {}
          /\ infeasible' = over
          /\ DisplayRefresh(runtime, FALSE)
    /\ UNCHANGED <<timer, dialog, unsaved, box, exited, due>>

(* A worker comes to the end of run, with a result or an exception. *)
WorkerEnds(w) ==
    /\ w \in active
    /\ due[w] = "nothing"
    /\ due' = [due EXCEPT ![w] = "result"]
    /\ UNCHANGED <<gui, settings, work, history>>

ResultDue(w, k) ==
    /\ due[w] = "result" /\ kind[w] = k /\ ~exited
    /\ due' = [due EXCEPT ![w] = "finished"]

(* _on_preview, _on_done: the cards are updated, and the cycle with them;   *)
(* _on_automatic_fail does the same if there is anything to show           *)
ResultShown(w) ==
    /\ ResultDue(w, "auto") \/ ResultDue(w, "manual")
    /\ UNCHANGED <<busy, pending, posted, dialog, unsaved, box, exited, settings, work, history>>
    /\ HoldCycle(infeasible)

(* _on_automatic_fail: a playlist that was too long for the worker blocks   *)
(* the polls, until the cards, if there are any, are updated               *)
AutoFails(w) ==
    /\ ResultDue(w, "auto")
    /\ UNCHANGED <<busy, pending, posted, dialog, unsaved, box, exited, settings, work, history>>
    /\ LET blocked == infeasible \/ cfg[w] \in oversized
       IN  (infeasible' = blocked /\ UNCHANGED timer) \/ HoldCycle(blocked)

(* _on_fail, and _on_cursor_admin_validation_failed *)
FailureShown(w) ==
    /\ ResultDue(w, "manual") \/ ResultDue(w, "admin")
    /\ box' = TRUE
    /\ UNCHANGED <<busy, timer, pending, posted, infeasible, dialog, unsaved, exited, settings, work, history>>

(* _on_cursor_admin_validated *)
AdminValidated(w) == ResultDue(w, "admin") /\ Rebind /\ UNCHANGED dialog

(* the worker that ends releases the window, though another is active *)
FinishedReleases(w) ==
    /\ due[w] = "finished" /\ ~exited
    /\ due' = [due EXCEPT ![w] = "nothing"]
    /\ active' = active \ {w}
    /\ busy' = FALSE
    /\ posted' = (posted \/ pending)
    /\ timer' = (timer \/ (~pending /\ ~infeasible))
    /\ UNCHANGED <<pending, infeasible, dialog, unsaved, box, exited, settings, kind, cfg, history>>

(* nobody arms the timer again *)
FinishedIsLast(w) ==
    /\ due[w] = "finished" /\ ~exited
    /\ due' = [due EXCEPT ![w] = "nothing"]
    /\ active' = active \ {w}
    /\ busy' = (active' # {})
    /\ posted' = (posted \/ (pending /\ active' = {}))
    /\ UNCHANGED <<timer, pending, infeasible, dialog, unsaved, box, exited, settings, kind, cfg, history>>

(* _finish_thread *)
Finished(w) ==
    /\ due[w] = "finished" /\ ~exited
    /\ due' = [due EXCEPT ![w] = "nothing"]
    /\ active' = active \ {w}
    /\ IF active' = {}
       THEN /\ busy' = FALSE
            /\ posted' = (posted \/ pending)
            /\ timer' = (timer \/ (~pending /\ ~infeasible))
       ELSE UNCHANGED <<busy, posted, timer>>
    /\ UNCHANGED <<pending, infeasible, dialog, unsaved, box, exited, settings, kind, cfg, history>>

-----------------------------------------------------------------------------
User ==
    \/ EditDisplaySetting
    \/ \E o \in BOOLEAN : EditPlaylist(o) \/ Detect(o)
    \/ Apply \/ ApplyAndStart
    \/ \E d \in {"csv", "admin"} : OpenDialog(d)
    \/ HandlerFails \/ CancelDialog \/ CloseBox
    \/ RebindUnsaved \/ ImportCsv \/ DisconnectUsage \/ ConnectAdmin
    \/ Quit

HandleResult(w) == ResultShown(w) \/ AutoFails(w) \/ FailureShown(w) \/ AdminValidated(w)

Next ==
    \/ User
    \/ TimerFires \/ Consume
    \/ \E w \in Workers : WorkerEnds(w) \/ HandleResult(w) \/ Finished(w)

Spec == Init /\ [][Next]_vars

(* The event loop does not starve what is queued, also below a dialog, and  *)
(* a worker ends: everything it waits for has a timeout.  The postponed    *)
(* refresh is queued the moment the window is idle: a timer armed seconds  *)
(* ago, or a click, may get in before it, but not every time.  The user    *)
(* owes nothing, not even to close a dialog.                               *)
Fairness ==
    /\ WF_vars(TimerFires)
    /\ WF_vars(Consume) /\ SF_vars(Consume /\ ~busy)
    /\ \A w \in Workers : WF_vars(WorkerEnds(w)) /\ WF_vars(HandleResult(w)) /\ WF_vars(Finished(w))

FairSpec == Spec /\ Fairness

-----------------------------------------------------------------------------
(* Properties                                                              *)

(* The kinds of values the variables hold. *)
TypeOK ==
    /\ busy \in BOOLEAN /\ timer \in BOOLEAN /\ pending \in BOOLEAN
    /\ posted \in BOOLEAN /\ infeasible \in BOOLEAN
    /\ dialog \in {"none", "csv", "admin"}
    /\ unsaved \in Seq(Versions)
    /\ box \in BOOLEAN /\ exited \in BOOLEAN
    /\ widgets \in Versions /\ oversized \subseteq Versions /\ runtime \in Versions
    /\ active \subseteq Workers
    /\ kind \in [Workers -> {"auto", "manual", "admin"}]
    /\ cfg \in [Workers -> Versions]
    /\ due \in [Workers -> {"nothing", "result", "finished"}]
    /\ wanted \in Versions /\ served \in Versions /\ rejected \in BOOLEAN

(* The buttons are off exactly while a worker is active: whichever workers  *)
(* overlap and in whichever order they end, the window is neither released *)
(* early nor left locked.                                                  *)
BusyMeansActive == busy <=> active # {}

(* Two workers never poll the providers, or upload, at the same time. *)
OnePoller == \A v, w \in Pollers : v = w

(* Who waits for the window to be free is not forgotten: a refresh that was *)
(* postponed has its worker's end, or its call in the queue, still before   *)
(* it, and unless the playlist is too long the next poll is armed, or is    *)
(* armed by something that is still to come.                               *)
NothingForgotten ==
    /\ pending => busy \/ posted
    /\ exited \/ timer \/ infeasible \/ busy \/ (posted /\ pending)

(* The window is locked while a worker is active, and only then, the        *)
(* pollers among the workers keep apart, and the end of the last one wakes  *)
(* whatever waits for it (set_busy, _start_thread, _finish_thread).         *)
WindowIsGuarded == BusyMeansActive /\ OnePoller /\ NothingForgotten

(* Monitoring never stops by itself: there is always another poll, unless   *)
(* the user quits, the playlist does not fit on the keyboard, or the user  *)
(* keeps the window at work with a dialog for ever ("this makes the        *)
(* configured poll cadence real", main_window.py:878).                     *)
MonitoringGoesOn ==
    \/ []<>(Pollers # {})
    \/ <>exited
    \/ []<>(over \/ infeasible)
    \/ []<><<ConnectAdmin>>_vars

(* A change the user asked to see gets its worker, however many handlers,   *)
(* dialogs and workers it meets, unless the playlist it came with was      *)
(* refused, or is in the runtime after a warning: its failing polls re-arm *)
(* the timer without delay.                                                *)
ChangeIsServed ==
    (served < wanted /\ ~rejected) ~>
        (served >= wanted \/ rejected \/ exited \/ unsaved # <<>> \/ runtime \in oversized)
=============================================================================
