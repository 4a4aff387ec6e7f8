----------------------------- MODULE MCDatapath -----------------------------
(***************************************************************************)
(* An instance of Datapath for TLC.                                        *)
(***************************************************************************)
EXTENDS Datapath, TLC

CONSTANTS a, s1, s2, s3, p1, p2, sFlow, sFail, sDeep

\* A key of two bits.
HashTwo == [m \in Mac |-> <<0, 1>>]

\* Filters with the key, with half of it, and with a bit of no key.
SomeArrays == {{0, 1}, {0, 1, 2}, {0}, {1, 2}}

\* The SAMPLE that ovs-vswitchd makes, one whose actions may fail, and one around it.
NestedLists == sFlow :> <<"USERSPACE">> @@ sFail :> <<"SET", "OUTPUT">> @@ sDeep :> <<sFail>>

\* Single actions, and one of each kind before an output.
Lists == {<<>>, <<"OUTPUT">>, <<"OUTPUT", "OUTPUT">>, <<"REMOTE">>, <<"USERSPACE", "OUTPUT">>,
          <<"SET", "OUTPUT">>, <<"PUSH_VLAN", "OUTPUT">>,
          <<sFlow, "OUTPUT">>, <<sFail, "OUTPUT">>, <<sDeep>>}
=============================================================================
