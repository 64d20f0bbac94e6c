---------------------------- MODULE AppServerRpc ----------------------------
(***************************************************************************)
(* One fetch from the Codex app server: providers/codex/appserver_rpc.py.  *)
(*                                                                         *)
(* The caller sends three requests to a child, one after the other, and    *)
(* takes the answers from a bounded queue that a reader thread fills from  *)
(* the child's output.  The server (external) answers late, in any order,  *)
(* with errors, with other messages in between, or not at all, and it may  *)
(* end or hang at any time.                                                *)
(***************************************************************************)
EXTENDS Naturals, Sequences, SequencesExt

CONSTANTS QueueMax,     \* _RPC_QUEUE_MAX_ITEMS
          MaxLines,     \* bound: lines the server writes, and that wait in the pipe
          MaxNoise      \* bound: lines that answer nothing

VARIABLES server,       \* the child: "running", "asked" (to terminate), "killed", "gone"
          unanswered,   \* requests it has read and not answered
          lines, noise, \* how many lines it wrote, and how many for nothing
          pipe,         \* lines it wrote and the reader has not taken
          stdout,       \* our end of it: "open" or "closed"
          reader,       \* "reading", "putting" a line, "ended"
          line,         \* the line being put
          queue, stop,
          pc,           \* the caller: the request it waits for, or its step
          request,      \* the id of the request
          limits, account

serverVars == <<server, unanswered, lines, noise>>
readerVars == <<reader, line, stop>>
callerVars == <<pc, request, limits, account>>
rpcVars == <<serverVars, pipe, stdout, readerVars, queue, callerVars>>

(* What a line may hold.  The reader stops at one that is too long, and      *)
(* passes on that it did, that it reached the end or that it cannot read.    *)
Answer(id, ok) == [kind |-> IF ok THEN "result" ELSE "error", id |-> id]
Noise == [kind |-> "other", id |-> 0]
TooLong == [kind |-> "too long", id |-> 0]
Eof == [kind |-> "eof", id |-> 0]
ReadFailed == [kind |-> "read failed", id |-> 0]
Closing == {"eof", "too long", "read failed"}
NoAnswer == [kind |-> "none", id |-> 0]

Requests == 1 .. 3      \* initialize, account/rateLimits/read, account/read

Running == server # "gone"
Waiting == pc = "receiving"

Init ==
    /\ server = "running"
    /\ unanswered = {}
    /\ lines = 0 /\ noise = 0
    /\ pipe = <<>>
    /\ stdout = "open"
    /\ reader = "reading"
    /\ line = NoAnswer
    /\ queue = <<>>
    /\ stop = FALSE
    /\ pc = "sending"
    /\ request = 1
    /\ limits = NoAnswer
    /\ account = NoAnswer

-----------------------------------------------------------------------------
(* The server *)

Writes(l) ==
    /\ Running /\ stdout = "open"
    /\ lines < MaxLines
    /\ pipe' = Append(pipe, l)
    /\ lines' = lines + 1

Answers(id, ok) ==
    /\ id \in unanswered
    /\ Writes(Answer(id, ok))
    /\ unanswered' = unanswered \ {id}
    /\ UNCHANGED <<server, noise, stdout, readerVars, queue, callerVars>>

(* A notification, a line that is no JSON object, a blank one, or one that   *)
(* never ends.                                                               *)
Chatters(l) ==
    /\ noise < MaxNoise
    /\ Writes(l)
    /\ noise' = noise + 1
    /\ UNCHANGED <<server, unanswered, stdout, readerVars, queue, callerVars>>

Ends ==
    /\ Running
    /\ server' = "gone"
    /\ UNCHANGED <<unanswered, lines, noise, pipe, stdout, readerVars, queue, callerVars>>

-----------------------------------------------------------------------------
(* The reader thread; every one of its waits looks at stop again. *)

Take ==
    /\ reader = "reading" /\ ~stop
    /\ \/ pipe # <<>> /\ line' = Head(pipe) /\ pipe' = Tail(pipe)
       \/ pipe = <<>> /\ ~Running /\ line' = Eof /\ UNCHANGED pipe
    /\ reader' = "putting"
    /\ UNCHANGED <<serverVars, stdout, stop, queue, callerVars>>

CannotRead ==
    /\ reader = "reading" /\ ~stop
    /\ line' = ReadFailed
    /\ reader' = "putting"
    /\ UNCHANGED <<serverVars, pipe, stdout, stop, queue, callerVars>>

(* _put; what it puts last ends the thread. *)
Put ==
    /\ reader = "putting"
    /\ Len(queue) < QueueMax /\ ~stop
    /\ queue' = Append(queue, line)
    /\ reader' = IF line.kind \in Closing THEN "ended" ELSE "reading"
    /\ line' = NoAnswer
    /\ UNCHANGED <<serverVars, pipe, stdout, stop, callerVars>>

(* The mistake of a plain Queue.put: only room in the queue ends the wait. *)
ReaderStopsIdle ==
    /\ reader = "reading" /\ stop
    /\ reader' = "ended"
    /\ UNCHANGED <<serverVars, pipe, stdout, line, stop, queue, callerVars>>

ReaderStops ==
    /\ reader \in {"reading", "putting"} /\ stop
    /\ reader' = "ended"
    /\ UNCHANGED <<serverVars, pipe, stdout, line, stop, queue, callerVars>>

-----------------------------------------------------------------------------
(* The caller *)

CleanUp == pc' = "closing stdin"

(* A write to a child that is gone fails, and not as a CodexRPCError: then   *)
(* the limits that were read before are lost, too.                           *)
Send ==
    /\ pc = "sending"
    /\ \/ /\ Running
          /\ unanswered' = unanswered \union {request}
          /\ pc' = "receiving"
       \/ /\ ~Running
          /\ CleanUp
          /\ UNCHANGED unanswered
    /\ limits' = IF Running THEN limits ELSE NoAnswer
    /\ UNCHANGED <<server, lines, noise, pipe, stdout, readerVars, queue, request, account>>

(* What the caller makes of the answer to its request: the first is asked    *)
(* for nothing but to have been answered.                                    *)
Accept(a) ==
    /\ limits' = IF request = 2 THEN a ELSE limits
    /\ account' = IF request = 3 THEN a ELSE account
    /\ IF request = 3 THEN CleanUp /\ UNCHANGED request
       ELSE pc' = "sending" /\ request' = request + 1

(* CodexRPCError: only account/read may fail. *)
Fail ==
    /\ CleanUp
    /\ limits' = IF request = 3 THEN limits ELSE NoAnswer
    /\ UNCHANGED <<request, account>>

(* The mistake of taking the next message for the answer. *)
IsAnswerNext(m) == m.kind \notin Closing

IsAnswer(m) == m.id = request

Receive ==
    LET m == Head(queue)
    IN /\ Waiting /\ queue # <<>>
       /\ queue' = Tail(queue)
       /\ IF m.kind \in Closing \/ (IsAnswer(m) /\ m.kind = "error") THEN Fail
          ELSE IF IsAnswer(m) THEN Accept(m)
          ELSE UNCHANGED callerVars
       /\ UNCHANGED <<serverVars, pipe, stdout, readerVars>>

TimesOut ==
    /\ Waiting
    /\ Fail
    /\ UNCHANGED <<serverVars, pipe, stdout, readerVars, queue>>

(* finally: the end of stdin tells a server that listens to end; then        *)
(* reader.stop, terminate and, two seconds later, kill.                      *)
CloseStdin ==
    /\ pc = "closing stdin"
    /\ stop' = TRUE
    /\ server' = IF Running THEN "asked" ELSE server
    /\ pc' = "waiting"
    /\ UNCHANGED <<unanswered, lines, noise, pipe, stdout, reader, line, queue, request, limits, account>>

Kill ==
    /\ pc = "waiting" /\ Running
    /\ server' = "killed"
    /\ pc' = "waiting for the killed"
    /\ UNCHANGED <<unanswered, lines, noise, pipe, stdout, readerVars, queue, request, limits, account>>

(* The child is gone, or could not be killed within two seconds. *)
Waited ==
    /\ \/ pc = "waiting" /\ ~Running
       \/ pc = "waiting for the killed"
    /\ pc' = "joining"
    /\ UNCHANGED <<serverVars, pipe, stdout, readerVars, queue, request, limits, account>>

(* The mistake of closing the pipe whether or not the join timed out. *)
MayCloseAlways == TRUE

(* The pipe is closed only if the reader has ended. *)
MayClose == reader = "ended"

Joined ==
    /\ pc = "joining"
    /\ stdout' = IF MayClose THEN "closed" ELSE stdout
    /\ pc' = "done"
    /\ UNCHANGED <<serverVars, pipe, readerVars, queue, request, limits, account>>

Caller == Send \/ Receive \/ TimesOut \/ CloseStdin \/ Kill \/ Waited \/ Joined
Reader == Take \/ Put \/ ReaderStops

Next ==
    \/ Caller \/ Reader \/ CannotRead \/ Ends
    \/ \E id \in Requests, ok \in BOOLEAN : Answers(id, ok)
    \/ \E l \in {Noise, TooLong} : Chatters(l)

(* Every wait of the two threads has a deadline or polls; the server owes    *)
(* nothing, a killed one included.                                           *)
Fairness == WF_rpcVars(Caller) /\ WF_rpcVars(Reader)
Spec == Init /\ [][Next]_rpcVars /\ Fairness

-----------------------------------------------------------------------------
(* Properties *)

(* What is shown as limits and as account is the server's answer to that     *)
(* question, however late the answers to earlier ones come; and there are    *)
(* limits before there is an account.                                        *)
AnswersBelong ==
    /\ limits # NoAnswer => limits = Answer(2, TRUE)
    /\ account # NoAnswer => account = Answer(3, TRUE) /\ limits # NoAnswer

(* The descriptor is not closed, and its number not given away, while the    *)
(* reader thread may still read from it.                                     *)
PipeOutlivesReader == stdout = "closed" => reader = "ended"

(* A fetch ends whatever the server does, and so does its reader thread,     *)
(* also when it was waiting for room in a queue that nobody reads any more.  *)
FetchEnds == <>[](pc = "done" /\ reader = "ended")

=============================================================================
