------------------------------- MODULE MCGFib -------------------------------
(***************************************************************************)
(* Instances of GFib for TLC.                                              *)
(***************************************************************************)
EXTENDS GFib, TLC

CONSTANTS s1, s2, a, b

\* One switch with a host of two bits, which bf_add sets one after the other.
HostsTorn == s1 :> {a} @@ s2 :> {}
HashTorn == a :> <<0, 1>> @@ b :> <<1, 2>>

\* Addresses of one bit each.
HashBoth == a :> <<0>> @@ b :> <<1>>
=============================================================================
