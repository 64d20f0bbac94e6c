----------------------------- MODULE MCGrokScan -----------------------------
(***************************************************************************)
(* GrokScan for TLC: two directories, of which the first declares how many *)
(* turns its session has.                                                  *)
(***************************************************************************)
EXTENDS GrokScan

CONSTANTS s1, s2

MCIdOf(d) == IF d = 1 THEN s1 ELSE s2
=============================================================================
