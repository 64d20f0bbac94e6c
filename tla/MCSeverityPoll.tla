---------------------------- MODULE MCSeverityPoll ----------------------------
(* SeverityPoll against what the README says of the remaining-limit mode. *)
EXTENDS SeverityPoll

(* "0 exhausted" (README.en.md:159): a character whose account has nothing   *)
(* left shows exhausted, unless a reset is being shown.                      *)
ZeroIsExhausted ==
    \A a \in Accounts :
        shown[a].remaining = 0 => shown[a].severity \in {"exhausted", "reset"}

=============================================================================
