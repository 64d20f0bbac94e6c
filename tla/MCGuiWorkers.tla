---------------------------- MODULE MCGuiWorkers ----------------------------
(***************************************************************************)
(* GuiWorkers for TLC, with what the documentation says of its tasks.      *)
(***************************************************************************)
EXTENDS GuiWorkers

(* docs/TRAY_DIAGNOSTICS.md:54: the next task is allowed only after         *)
(* QThread.finished of the one before was handled on the GUI thread.       *)
NextTaskAfterFinished ==
    [][\A w \in Workers : w \notin active /\ w \in active' => active = {}]_vars
=============================================================================
