---------------------------- MODULE MCCursorAdmin ----------------------------
(* CursorAdmin on two accounts, for TLC.                                   *)
EXTENDS CursorAdmin, TLC

Symmetry == Permutations(Accounts)

(* A disconnect of an account that was synced removes its entry from the     *)
(* gate file, with the binding ("Full disconnect: remove binding, Admin      *)
(* cache/gate, and the key if last", disconnect_cursor_account), unless a    *)
(* sync of it is under way.                                                  *)
DisconnectClearsGate ==
    [][\A a \in Accounts :
          /\ binding[a] # "none" /\ binding'[a] = "none"
          /\ gate[a].success # NoTime
          /\ \A p \in Syncers : Account(p) # a
          => gate'[a] = NoEntry]_vars

=============================================================================
