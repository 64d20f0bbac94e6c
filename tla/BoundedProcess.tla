--------------------------- MODULE BoundedProcess ---------------------------
(***************************************************************************)
(* One bounded command: usage/process.py, _run_popen_command, and its twin *)
(* usage/grok.py, _run_bounded_command.                                    *)
(*                                                                         *)
(* The caller waits for the child with a deadline while a thread drains    *)
(* its output up to a cap.  The child (external) may leave a process       *)
(* behind that has inherited the pipe.  Output is counted in bytes.        *)
(***************************************************************************)
EXTENDS Naturals, FiniteSets, FiniteSetsExt

CONSTANTS Cap,          \* max_output_bytes
          ReadSize,     \* what one read returns at most
          MaxBytes      \* bound: bytes written

SizesAssumption == Cap \in Nat /\ ReadSize \in Nat /\ MaxBytes \in Nat

VARIABLES writers,      \* who has the write end: "child", "heir"
          killed,       \* the child was sent a kill
          wrote,        \* bytes written so far
          pipe,         \* bytes written and not read
          reader,       \* the drain thread
          output,       \* bytes it has kept
          oversized, readFailed,
          pc,           \* the caller
          result        \* NoResult or [issue, output]

childVars == <<writers, killed, wrote>>
readerVars == <<reader, output, oversized, readFailed>>
processVars == <<childVars, pipe, readerVars, pc, result>>

NoResult == [issue |-> "none", output |-> 0]
Alive == "child" \in writers

Init ==
    /\ writers = {}
    /\ killed = FALSE
    /\ wrote = 0
    /\ pipe = 0
    /\ reader = "none"
    /\ output = 0
    /\ oversized = FALSE
    /\ readFailed = FALSE
    /\ pc = "start"
    /\ result = NoResult

-----------------------------------------------------------------------------
(* The child (external) *)

Write(n) ==
    /\ writers # {}
    /\ wrote + n <= MaxBytes
    /\ wrote' = wrote + n
    /\ pipe' = IF reader = "ended" THEN pipe ELSE pipe + n
    /\ UNCHANGED <<writers, killed, readerVars, pc, result>>

(* It starts a process of its own that keeps the pipe open. *)
Fork ==
    /\ Alive
    /\ writers' = writers \union {"heir"}
    /\ UNCHANGED <<killed, wrote, pipe, readerVars, pc, result>>

Exit(w) ==
    /\ w \in writers
    /\ writers' = writers \ {w}
    /\ UNCHANGED <<killed, wrote, pipe, readerVars, pc, result>>

-----------------------------------------------------------------------------
(* The drain thread *)

(* One read, and all it leads to.  Bytes over the cap are dropped, and the   *)
(* first that is noticed ends the child.                                     *)
Drain(n) ==
    LET remaining == Cap + 1 - output
        kept == output + Min({n, remaining})
        over == kept > Cap \/ n > remaining
    IN /\ reader = "reading"
       /\ n \in 1 .. Min({pipe, ReadSize})
       /\ pipe' = pipe - n
       /\ output' = kept
       /\ oversized' = over
       /\ killed' = (killed \/ (over /\ Alive))
       /\ reader' = IF over THEN "ended" ELSE reader
       /\ UNCHANGED <<writers, wrote, readFailed, pc, result>>

ReadsEof ==
    /\ reader = "reading"
    /\ pipe = 0 /\ writers = {}
    /\ reader' = "ended"
    /\ UNCHANGED <<childVars, pipe, output, oversized, readFailed, pc, result>>

ReadFails ==
    /\ reader = "reading"
    /\ readFailed' = TRUE
    /\ reader' = "ended"
    /\ UNCHANGED <<childVars, pipe, output, oversized, pc, result>>

-----------------------------------------------------------------------------
(* The caller *)

Return(issue) ==
    /\ result' = [issue |-> issue, output |-> IF issue = "ok" THEN output ELSE 0]
    /\ pc' = "done"

Start ==
    /\ pc = "start"
    /\ writers' = {"child"}
    /\ reader' = "reading"
    /\ pc' = "waiting"
    /\ UNCHANGED <<killed, wrote, pipe, output, oversized, readFailed, result>>

StartFails ==
    /\ pc = "start"
    /\ Return("command_failed")
    /\ UNCHANGED <<childVars, pipe, readerVars>>

ChildEnded ==
    /\ pc = "waiting" /\ ~Alive
    /\ pc' = "joining"
    /\ UNCHANGED <<childVars, pipe, readerVars, result>>

(* The mistake of waiting for the child without killing it. *)
DeadlineNoKill ==
    /\ pc = "waiting"
    /\ pc' = "reaping"
    /\ UNCHANGED <<childVars, pipe, readerVars, result>>

(* The deadline: the child is killed, and now waited for without one. *)
Deadline ==
    /\ pc = "waiting"
    /\ killed' = (killed \/ Alive)
    /\ pc' = "reaping"
    /\ UNCHANGED <<writers, wrote, pipe, readerVars, result>>

Reaped ==
    /\ pc = "reaping" /\ ~Alive
    /\ pc' = "joining late"
    /\ UNCHANGED <<childVars, pipe, readerVars, result>>

(* The mistake of taking what there is after the join. *)
IssueUnread == IF readFailed THEN "command_failed" ELSE IF oversized THEN "output_too_large" ELSE "ok"

(* The join ends with the thread or after a second.  Only a thread that has  *)
(* come to the end of the output may be believed.                            *)
Issue ==
    IF reader # "ended" \/ readFailed THEN "command_failed"
    ELSE IF oversized THEN "output_too_large" ELSE "ok"

Joined ==
    /\ pc = "joining"
    /\ Return(Issue)
    /\ UNCHANGED <<childVars, pipe, readerVars>>

JoinedLate ==
    /\ pc = "joining late"
    /\ Return("command_timeout")
    /\ UNCHANGED <<childVars, pipe, readerVars>>

Caller == Start \/ StartFails \/ ChildEnded \/ Deadline \/ Reaped \/ Joined \/ JoinedLate
Reader == ReadsEof \/ ReadFails \/ \E n \in 1 .. ReadSize : Drain(n)
Next ==
    \/ Caller \/ Reader \/ Fork
    \/ \E n \in 1 .. MaxBytes : Write(n)
    \/ \E w \in writers : Exit(w)

(* The caller's waits have deadlines except the one for a killed child, and  *)
(* a killed child ends.  The drain thread and its heir may take for ever.    *)
Fairness ==
    /\ WF_processVars(Caller)
    /\ WF_processVars(killed /\ Exit("child"))
Spec == Init /\ [][Next]_processVars /\ Fairness

-----------------------------------------------------------------------------
(* Properties *)

(* Output that is accepted is all that was ever written, the output of a     *)
(* process the child left behind included, and within the cap.               *)
AcceptedIsWhole ==
    result.issue = "ok" => result.output = wrote /\ wrote <= Cap /\ writers = {} /\ pipe = 0

(* The call comes back: a child that hangs, floods or leaves the pipe to     *)
(* another process holds nobody up.                                          *)
CommandEnds == <>(pc = "done")

=============================================================================
