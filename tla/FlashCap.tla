------------------------------ MODULE FlashCap ------------------------------
(***************************************************************************)
(* What the flash wear protection of QuotaDeck promises, whatever          *)
(* processes, restarts and failures are behind it: the keyboard's SPI      *)
(* flash is written only with a permission, one permission is open at a    *)
(* time, a permission serves for one write at most, and a day hands out    *)
(* at most DailyLimit of them.                                             *)
(***************************************************************************)
EXTENDS Naturals

CONSTANTS Days,         \* the dates of a behaviour
          DailyLimit    \* the most permissions of one date

VARIABLES open,         \* a permission is out and not used yet
          granted,      \* granted[d]: permissions handed out on date d
          written       \* written[d]: flash writes made on date d

capVars == <<open, granted, written>>

CapInit ==
    /\ open = FALSE
    /\ granted = [d \in Days |-> 0]
    /\ written = [d \in Days |-> 0]

Permit(d) ==
    /\ ~open
    /\ granted[d] < DailyLimit
    /\ open' = TRUE
    /\ granted' = [granted EXCEPT ![d] = @ + 1]
    /\ UNCHANGED written

Write(d) ==
    /\ open
    /\ open' = FALSE
    /\ written' = [written EXCEPT ![d] = @ + 1]
    /\ UNCHANGED granted

(* A permission can be lost (unplugged keyboard, crash): it is not given back. *)
Forfeit ==
    /\ open
    /\ open' = FALSE
    /\ UNCHANGED <<granted, written>>

CapNext == (\E d \in Days : Permit(d) \/ Write(d)) \/ Forfeit

CapSpec == CapInit /\ [][CapNext]_capVars
=============================================================================
