---------------------------- MODULE MCFlashWear ----------------------------
(***************************************************************************)
(* FlashWear for TLC, with what the README says of the daily limit.        *)
(***************************************************************************)
EXTENDS FlashWear

(* README.md:379: in reality the keyboard's flash is not written more often *)
(* on a day than the daily limit.                                          *)
DocumentedDayCap == \A d \in Days : applies[d] <= DailyLimit
=============================================================================
