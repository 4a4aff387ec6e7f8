----------------------------- MODULE MCGrouping -----------------------------
(***************************************************************************)
(* Instances of Grouping for TLC.                                          *)
(***************************************************************************)
EXTENDS Grouping

CONSTANTS s1, s2

DcmList == <<s1, s2>>
=============================================================================
