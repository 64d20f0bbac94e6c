------------------------------- MODULE MCApp -------------------------------
(***************************************************************************)
(* The application's own concurrency for TLC: the window and its workers,  *)
(* a child process that a worker runs, and the Codex app server it talks   *)
(* to.  They share no variable, so each behaviour looks at one of them     *)
(* (part), and the other two stay where they start.                        *)
(***************************************************************************)
EXTENDS GuiWorkers

CONSTANTS Cap, ReadSize, MaxBytes, QueueMax, MaxLines, MaxNoise

VARIABLES part,
          writers, killed, wrote, commandPipe, commandReader, output, tooMuch,
          readFailed, commandPc, result,
          server, unanswered, lines, noise, pipe, stdout, reader, line, queue, stop,
          pc, request, limits, account
commandVars == <<writers, killed, wrote, commandPipe, commandReader, output, tooMuch,
                 readFailed, commandPc, result>>
fetchVars == <<server, unanswered, lines, noise, pipe, stdout, reader, line, queue, stop,
               pc, request, limits, account>>

Command == INSTANCE BoundedProcess WITH
  pipe <- commandPipe, reader <- commandReader, oversized <- tooMuch, pc <- commandPc

AppServer == INSTANCE AppServerRpc

ASSUME CommandAssumption == Command!SizesAssumption

AppInit ==
  /\ part \in {"window", "command", "fetch"}
  /\ Init /\ Command!Init /\ AppServer!Init

InWindow(A) == part = "window" /\ A /\ UNCHANGED <<part, commandVars, fetchVars>>
InCommand(A) == part = "command" /\ A /\ UNCHANGED <<part, vars, fetchVars>>
InFetch(A) == part = "fetch" /\ A /\ UNCHANGED <<part, vars, commandVars>>

AppNext == InWindow(Next) \/ InCommand(Command!Next) \/ InFetch(AppServer!Next)

appVars == <<part, vars, commandVars, fetchVars>>

\* The fairness of the three modules, each while its part is looked at.
AppSpec ==
  /\ AppInit /\ [][AppNext]_appVars
  /\ WF_appVars(InWindow(TimerFires))
  /\ WF_appVars(InWindow(Consume)) /\ SF_appVars(InWindow(Consume /\ ~busy))
  /\ \A w \in Workers : /\ WF_appVars(InWindow(WorkerEnds(w)))
                        /\ WF_appVars(InWindow(HandleResult(w)))
                        /\ WF_appVars(InWindow(Finished(w)))
  /\ WF_appVars(InCommand(Command!Caller))
  /\ WF_appVars(InCommand(killed /\ Command!Exit("child")))
  /\ WF_appVars(InFetch(AppServer!Caller))
  /\ WF_appVars(InFetch(AppServer!Reader))

\* Monitoring goes on until the program is quit (GuiWorkers).
PollingGoesOn == part = "window" => MonitoringGoesOn

\* Output that is accepted is all that was written (BoundedProcess); what is
\* shown of an account is the answer to its question, and no descriptor is
\* closed below the thread that reads it (AppServerRpc).
AnswersAreWhole ==
  /\ Command!AcceptedIsWhole
  /\ AppServer!AnswersBelong /\ AppServer!PipeOutlivesReader

\* A command comes back, whatever its process and those it left behind do
\* (BoundedProcess), and a fetch and its reader thread end, whatever the
\* server does (AppServerRpc).
CallsEnd ==
  /\ part = "command" => Command!CommandEnds
  /\ part = "fetch" => AppServer!FetchEnds
=============================================================================
