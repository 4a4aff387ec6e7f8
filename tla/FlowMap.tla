------------------------------ MODULE FlowMap -------------------------------
(***************************************************************************)
(* What the kernel's flow table (datapath/flow.c) promises: a map from     *)
(* flow keys to actions.  The commands of ovs-vswitchd change it in one    *)
(* step each; a packet's lookup takes time and answers with what the map   *)
(* held for its key at some moment of that time.                           *)
(*                                                                         *)
(* One exception is part of the promise.  Each flow has two list nodes, so *)
(* that a table can be rebuilt once beside its readers.  A reader during   *)
(* whose lookup one rebuild ends and another begins may miss a flow.       *)
(***************************************************************************)
CONSTANTS
    Key,        \* flow keys
    Action,     \* lists of actions
    NoFlow,     \* the answer of a lookup that misses
    Pending,    \* no answer yet
    Cpu         \* the processors packets arrive on

VARIABLES
    map,        \* map[k]: the actions for key k, or NoFlow
    look        \* look[c]: the packet of processor c

\* A processor without a packet, and one that looks up key k.
Idle == [key |-> NoFlow, may |-> {}, links |-> "good", answer |-> Pending]
Looking(c) == look[c].key # NoFlow /\ look[c].answer = Pending

Init ==
    /\ map = [k \in Key |-> NoFlow]
    /\ look = [c \in Cpu |-> Idle]

\* The map becomes m; a lookup under way may now answer with what m says.
Change(m) ==
    /\ map' = m
    /\ look' = [c \in Cpu |-> IF Looking(c)
                              THEN [look[c] EXCEPT !.may = @ \cup {m[look[c].key]}]
                              ELSE look[c]]

New(k, a) == map[k] = NoFlow /\ Change([map EXCEPT ![k] = a])
Set(k, a) == map[k] # NoFlow /\ Change([map EXCEPT ![k] = a])
Del(k) == map[k] # NoFlow /\ Change([map EXCEPT ![k] = NoFlow])
Flush == Change([k \in Key |-> NoFlow])

\* A rebuild of the table ends, and another begins.
Rebuilt ==
    /\ look' = [c \in Cpu |-> IF Looking(c) /\ look[c].links = "good"
                              THEN [look[c] EXCEPT !.links = "spare"] ELSE look[c]]
    /\ UNCHANGED map

Rebuild ==
    /\ look' = [c \in Cpu |-> IF Looking(c) /\ look[c].links = "spare"
                              THEN [look[c] EXCEPT !.links = "reused"] ELSE look[c]]
    /\ UNCHANGED map

Begin(c, k) ==
    /\ look[c] = Idle
    /\ look' = [look EXCEPT ![c] = [key |-> k, may |-> {map[k]}, links |-> "good",
                                    answer |-> Pending]]
    /\ UNCHANGED map

Answer(c, a) ==
    /\ Looking(c)
    /\ a \in look[c].may \/ (a = NoFlow /\ look[c].links = "reused")
    /\ look' = [look EXCEPT ![c].answer = a]
    /\ UNCHANGED map

\* The packet has been handled.
End(c) ==
    /\ look[c].answer # Pending
    /\ look' = [look EXCEPT ![c] = Idle]
    /\ UNCHANGED map

Next ==
    \/ \E k \in Key, a \in Action : New(k, a) \/ Set(k, a)
    \/ \E k \in Key : Del(k)
    \/ Flush
    \/ Rebuild \/ Rebuilt
    \/ \E c \in Cpu, k \in Key : Begin(c, k)
    \/ \E c \in Cpu, a \in Action \cup {NoFlow} : Answer(c, a)
    \/ \E c \in Cpu : End(c)

vars == <<map, look>>

Spec == Init /\ [][Next]_vars
=============================================================================
