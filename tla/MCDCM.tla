------------------------------- MODULE MCDCM --------------------------------
(***************************************************************************)
(* An instance of DCM for TLC: two hosts, the first of which sends to the  *)
(* second all the time.                                                    *)
(***************************************************************************)
EXTENDS DCM

CONSTANTS a, b

OneStream == {<<a, b>>}
=============================================================================
