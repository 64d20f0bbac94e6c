--------------------------- MODULE FlashTransfer ----------------------------
(***************************************************************************)
(* What FlashWear takes a session with the keyboard for: between opening   *)
(* and closing it, an upload writes the flash at most once and is not over *)
(* successfully without it, a failure tells nothing, and setting the clock *)
(* writes no flash.  The stages are those of FlashWear's pc.               *)
(***************************************************************************)
EXTENDS Naturals

VARIABLES stage,        \* "none", "write", "settle", "clock"
          writes        \* flash writes of the keyboard so far

transferVars == <<stage, writes>>

TransferInit == stage = "none" /\ writes = 0

Start == stage = "none" /\ stage' \in {"write", "clock"} /\ UNCHANGED writes

(* FlashWear!DeviceApplies *)
Apply == stage = "write" /\ stage' = "settle" /\ writes' = writes + 1

(* FlashWear!UploadDone, and TransferFails after the flash was written *)
Settle == stage = "settle" /\ stage' = "none" /\ UNCHANGED writes

(* FlashWear!TransferFails and ClockDone *)
GiveUp == stage \in {"write", "clock"} /\ stage' = "none" /\ UNCHANGED writes

TransferNext == Start \/ Apply \/ Settle \/ GiveUp

TransferSpec == TransferInit /\ [][TransferNext]_transferVars
=============================================================================
