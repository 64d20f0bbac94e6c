------------------------------ MODULE Win32Io -------------------------------
(***************************************************************************)
(* Overlapped I/O on the keyboard's LCD interface:                         *)
(* devices/aula_f108/transport_win32.py.                                   *)
(*                                                                         *)
(* A thread opens a Win32Transport (a feature handle and an LCD handle),   *)
(* starts LCD transfers one after the other under the transport's lock and *)
(* closes it.  The driver finishes a request whenever it likes.  A         *)
(* request that neither finishes in time nor lets itself be cancelled is   *)
(* quarantined: its buffer, OVERLAPPED, event and LCD handle go to a       *)
(* module-level list and a reaper thread, and the transport is done with   *)
(* the handle.  The process may then open a new transport while the old    *)
(* request is still out, and Windows hands out closed handle values again. *)
(* The feature ioctls are synchronous and leave no state behind.           *)
(***************************************************************************)
EXTENDS Naturals, FiniteSets

CONSTANTS Handles,      \* handle values of the process
          NoHandle,     \* None
          Ios,          \* bound: the LCD transfers of a behaviour
          NoIo          \* no transfer is running

HandlesAssumption == NoHandle \notin Handles /\ NoIo \notin Ios

VARIABLES table,        \* what each handle value denotes now, or "free"
          pc,           \* where the thread that uses the transport is
          feature,      \* _feature
          lcd,          \* _lcd
          io,           \* the transfer in _overlapped_transfer_locked
          irp,          \* the driver's side of each transfer
          storage,      \* who keeps buffer and OVERLAPPED of each transfer
          target,       \* the LCD handle each transfer was issued on
          event,        \* hEvent of each transfer
          retained,     \* _retained_io
          reaper        \* the reaper thread of each transfer

transport == <<pc, feature, lcd, io>>
requests  == <<irp, storage, target, event>>
quarantine == <<retained, reaper>>
vars == <<table, transport, requests, quarantine>>

Busy == {"issued", "waiting", "result", "draining"}
ReaperValues == {"none", "waiting", "woken", "eventclosed", "handleclosed", "ended"}

Free == {h \in Handles : table[h] = "free"}

-----------------------------------------------------------------------------
Init ==
    /\ table = [h \in Handles |-> "free"]
    /\ pc = "closed"
    /\ feature = NoHandle
    /\ lcd = NoHandle
    /\ io = NoIo
    /\ irp = [i \in Ios |-> "none"]
    /\ storage = [i \in Ios |-> "none"]
    /\ target = [i \in Ios |-> NoHandle]
    /\ event = [i \in Ios |-> NoHandle]
    /\ retained = {}
    /\ reaper = [i \in Ios |-> "none"]

(* CloseHandle on every handle of S *)
Closed(S) == [h \in Handles |-> IF h \in S THEN "free" ELSE table[h]]

(* the last reference to the buffer, the OVERLAPPED and its fields is gone *)
Freed(i) ==
    /\ storage' = [storage EXCEPT ![i] = "freed"]
    /\ target' = [target EXCEPT ![i] = NoHandle]
    /\ event' = [event EXCEPT ![i] = NoHandle]

(* Faulty variants of steps below: each is a bug the code might have had,   *)
(* and some property of this module finds it.                              *)

(* the quarantine forgets that the transport still has the handle *)
QuarantineKeepsLcd(i) ==
    /\ pc = "draining" /\ io = i
    /\ pc' = "open"
    /\ io' = NoIo
    /\ storage' = [storage EXCEPT ![i] = "retained"]
    /\ retained' = retained \union {i}
    /\ reaper' \in {[reaper EXCEPT ![i] = r] : r \in {"waiting", "ended"}}
    /\ UNCHANGED <<table, feature, lcd, irp, target, event>>

(* the second wait is taken to have confirmed the cancellation *)
DrainedUnconfirmed(i) ==
    /\ pc = "draining" /\ io = i
    /\ pc' = "open"
    /\ io' = NoIo
    /\ table' = Closed({event[i]})
    /\ Freed(i)
    /\ UNCHANGED <<feature, lcd, irp, quarantine>>

(* the event is not closed on the way out of a failed operation *)
OperationFailsKeepsEvent(i) ==
    /\ pc = "issued" /\ io = i
    /\ pc' = "open"
    /\ io' = NoIo
    /\ Freed(i)
    /\ UNCHANGED <<table, feature, lcd, irp, quarantine>>

(* the first wait has no deadline *)
WaitGivesUpNever(i) ==
    /\ pc = "waiting" /\ io = i
    /\ irp[i] = "done"
    /\ pc' = "draining"
    /\ UNCHANGED <<table, feature, lcd, io, requests, quarantine>>

(* the handle of the reaped request is left open *)
ReaperKeepsHandle(i) ==
    /\ reaper[i] = "eventclosed"
    /\ reaper' = [reaper EXCEPT ![i] = "ended"]
    /\ UNCHANGED <<table, transport, requests, retained>>

(* the result of CreateFileW is not looked at *)
OpenLcdUnchecked(h) ==
    /\ pc = "opening"
    /\ h \in Free
    /\ \/ lcd' = h /\ table' = [table EXCEPT ![h] = "lcd"]
       \/ lcd' = "INVALID_HANDLE_VALUE" /\ UNCHANGED table
    /\ pc' = "open"
    /\ UNCHANGED <<feature, io, requests, quarantine>>

-----------------------------------------------------------------------------
(* __init__: the feature interface first *)
OpenFeature(h) ==
    /\ pc = "closed"
    /\ h \in Free
    /\ table' = [table EXCEPT ![h] = "feature"]
    /\ feature' = h
    /\ pc' = "opening"
    /\ UNCHANGED <<lcd, io, requests, quarantine>>

OpenLcd(h) ==
    /\ pc = "opening"
    /\ h \in Free
    /\ table' = [table EXCEPT ![h] = "lcd"]
    /\ lcd' = h
    /\ pc' = "open"
    /\ UNCHANGED <<feature, io, requests, quarantine>>

(* close: at the end of the session, or when opening the LCD interface      *)
(* failed; a handle that went to the quarantine is no longer the           *)
(* transport's to close.                                                   *)
Close ==
    /\ pc \in {"opening", "open"}
    /\ table' = Closed({feature, lcd} \ {NoHandle})
    /\ feature' = NoHandle
    /\ lcd' = NoHandle
    /\ pc' = "closed"
    /\ UNCHANGED <<io, requests, quarantine>>

(* _overlapped_transfer: "transport is closed" when the handle is gone;     *)
(* otherwise a dedicated event for this transfer                           *)
Begin(i, e) ==
    /\ pc = "open"
    /\ lcd # NoHandle
    /\ storage[i] = "none"
    /\ e \in Free
    /\ table' = [table EXCEPT ![e] = "event"]
    /\ event' = [event EXCEPT ![i] = e]
    /\ target' = [target EXCEPT ![i] = lcd]
    /\ storage' = [storage EXCEPT ![i] = "frame"]
    /\ io' = i
    /\ pc' = "issued"
    /\ UNCHANGED <<feature, lcd, irp, quarantine>>

(* WriteFile or ReadFile: the driver has it done already, or keeps it *)
OperationCompletes(i) ==
    /\ pc = "issued" /\ io = i
    /\ irp' = [irp EXCEPT ![i] = "done"]
    /\ pc' = "result"
    /\ UNCHANGED <<table, feature, lcd, io, storage, target, event, quarantine>>

OperationPends(i) ==
    /\ pc = "issued" /\ io = i
    /\ irp' = [irp EXCEPT ![i] = "pending"]
    /\ pc' = "waiting"
    /\ UNCHANGED <<table, feature, lcd, io, storage, target, event, quarantine>>

(* The end of a transfer whose event may be closed: the transfer returns or *)
(* raises, and its buffer and OVERLAPPED go with the frame.                *)
Leave(i) ==
    /\ io = i
    /\ pc' = "open"
    /\ io' = NoIo
    /\ table' = Closed({event[i]})
    /\ Freed(i)
    /\ UNCHANGED <<feature, lcd, irp, quarantine>>

OperationFails(i) == pc = "issued" /\ Leave(i)

(* GetOverlappedResult, whatever it says *)
Result(i) == pc = "result" /\ Leave(i)

WaitSignaled(i) ==
    /\ pc = "waiting" /\ io = i
    /\ irp[i] = "done"
    /\ pc' = "result"
    /\ UNCHANGED <<table, feature, lcd, io, requests, quarantine>>

(* The wait timed out or failed: CancelIoEx, then a second bounded wait.    *)
(* The driver may have finished in the meantime.                           *)
WaitGivesUp(i) ==
    /\ pc = "waiting" /\ io = i
    /\ pc' = "draining"
    /\ UNCHANGED <<table, feature, lcd, io, requests, quarantine>>

Drained(i) == pc = "draining" /\ irp[i] = "done" /\ Leave(i)

(* _retain_pending_io; the reaper thread may fail to start *)
Quarantine(i) ==
    /\ pc = "draining" /\ io = i
    /\ pc' = "open"
    /\ io' = NoIo
    /\ lcd' = NoHandle
    /\ storage' = [storage EXCEPT ![i] = "retained"]
    /\ retained' = retained \union {i}
    /\ reaper' \in {[reaper EXCEPT ![i] = r] : r \in {"waiting", "ended"}}
    /\ UNCHANGED <<table, feature, irp, target, event>>

-----------------------------------------------------------------------------
(* The driver completes a request: it writes the buffer and the OVERLAPPED  *)
(* and signals the event.                                                  *)
DriverCompletes(i) ==
    /\ irp[i] = "pending"
    /\ irp' = [irp EXCEPT ![i] = "done"]
    /\ UNCHANGED <<table, transport, storage, target, event, quarantine>>

(* _reap_retained_io *)
ReaperWakes(i) ==
    /\ reaper[i] = "waiting"
    /\ irp[i] = "done"
    /\ reaper' = [reaper EXCEPT ![i] = "woken"]
    /\ UNCHANGED <<table, transport, requests, retained>>

(* the wait itself fails: everything stays retained for good *)
ReaperWaitFails(i) ==
    /\ reaper[i] = "waiting"
    /\ reaper' = [reaper EXCEPT ![i] = "ended"]
    /\ UNCHANGED <<table, transport, requests, retained>>

ReaperClosesEvent(i) ==
    /\ reaper[i] = "woken"
    /\ table' = Closed({event[i]})
    /\ reaper' = [reaper EXCEPT ![i] = "eventclosed"]
    /\ UNCHANGED <<transport, requests, retained>>

ReaperClosesHandle(i) ==
    /\ reaper[i] = "eventclosed"
    /\ table' = Closed({target[i]})
    /\ reaper' = [reaper EXCEPT ![i] = "handleclosed"]
    /\ UNCHANGED <<transport, requests, retained>>

ReaperForgets(i) ==
    /\ reaper[i] = "handleclosed"
    /\ retained' = retained \ {i}
    /\ reaper' = [reaper EXCEPT ![i] = "ended"]
    /\ Freed(i)
    /\ UNCHANGED <<table, transport, irp>>

-----------------------------------------------------------------------------
Session ==
    \/ \E h \in Handles : OpenFeature(h) \/ OpenLcd(h)
    \/ Close
    \/ \E i \in Ios, e \in Handles : Begin(i, e)

TransferStep(i) ==
    \/ OperationCompletes(i) \/ OperationPends(i) \/ OperationFails(i)
    \/ WaitSignaled(i) \/ WaitGivesUp(i)
    \/ Result(i) \/ Drained(i) \/ Quarantine(i)

ReaperStep(i) ==
    \/ ReaperWakes(i)
    \/ ReaperClosesEvent(i) \/ ReaperClosesHandle(i) \/ ReaperForgets(i)

Next ==
    \/ Session
    \/ \E i \in Ios : TransferStep(i) \/ DriverCompletes(i)
                      \/ ReaperStep(i) \/ ReaperWaitFails(i)

Spec == Init /\ [][Next]_vars

(* Every wait of a transfer has a deadline, and a thread whose wait is over *)
(* goes on.  The driver owes nobody a completion, and no wait has to fail. *)
FairSpec ==
    /\ Spec
    /\ \A i \in Ios : WF_vars(TransferStep(i)) /\ WF_vars(ReaperStep(i))

-----------------------------------------------------------------------------
(* Properties                                                              *)

(* The kinds of values the variables hold. *)
TypeOK ==
    /\ table \in [Handles -> {"free", "feature", "lcd", "event"}]
    /\ pc \in {"closed", "opening", "open"} \union Busy
    /\ feature \in Handles \union {NoHandle}
    /\ lcd \in Handles \union {NoHandle}
    /\ io \in Ios \union {NoIo}
    /\ irp \in [Ios -> {"none", "pending", "done"}]
    /\ storage \in [Ios -> {"none", "frame", "retained", "freed"}]
    /\ target \in [Ios -> Handles \union {NoHandle}]
    /\ event \in [Ios -> Handles \union {NoHandle}]
    /\ retained \subseteq Ios
    /\ reaper \in [Ios -> ReaperValues]

(* While the driver has a request, its buffer and OVERLAPPED are kept:      *)
(* "freeing its buffer/OVERLAPPED while the IRP may still own them can      *)
(* corrupt the process" (transport_win32.py:177).                          *)
StorageOutlivesIrp ==
    \A i \in Ios : irp[i] = "pending" => storage[i] \in {"frame", "retained"}

(* The handles that are somebody's to use and to close: the two of the      *)
(* transport, the event of a transfer until it is closed, and the LCD      *)
(* handle of a transfer that is retained.                                  *)
Owned ==
    {<<"feature", NoIo, feature>>, <<"lcd", NoIo, lcd>>}
    \union {<<"event", i, event[i]>> :
                i \in {j \in Ios : reaper[j] \notin {"eventclosed", "handleclosed"}}}
    \union {<<"retained", i, target[i]>> :
                i \in {j \in retained : reaper[j] # "handleclosed"}}

Live == {r \in Owned : r[3] # NoHandle}

(* No handle is closed twice and none is used after it is closed: every     *)
(* handle somebody still has is open, and is nobody else's, although        *)
(* Windows gives a closed value to the next caller.                        *)
HandlesExclusive ==
    /\ \A r \in Live : table[r[3]] # "free"
    /\ \A r, s \in Live : r[3] = s[3] => r = s

(* Nothing leaks: an open handle always has somebody who will close it, or  *)
(* is quarantined.                                                         *)
NothingLeaks == \A h \in Handles \ Free : \E r \in Live : r[3] = h

(* The memory and the handles of a transfer outlive its request, and       *)
(* nothing else does.                                                      *)
IoIsSafe == StorageOutlivesIrp /\ HandlesExclusive /\ NothingLeaks

(* Whatever the driver does, every transfer comes to its end: neither of    *)
(* the two waits is without a deadline.                                    *)
TransferEnds == \A i \in Ios : io = i ~> io # i

(* When the driver finishes a quarantined request in the end, its reaper    *)
(* cleans up all of it - or none of it, when its wait had failed.          *)
QuarantineIsReaped ==
    \A i \in Ios :
        irp[i] = "done" /\ reaper[i] \notin {"none", "ended"} ~>
            \/ storage[i] = "freed" /\ i \notin retained
            \/ /\ reaper[i] = "ended"
               /\ i \in retained
               /\ table[event[i]] = "event"
               /\ table[target[i]] = "lcd"
=============================================================================
