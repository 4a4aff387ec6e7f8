-------------------------------- MODULE DCM ---------------------------------
(***************************************************************************)
(* The controller's forwarding (ccm/.../dcm/DCM.java) and one switch: the  *)
(* addresses that DCM learns, the flows that it writes, and the messages   *)
(* between the two, which take their time.                                 *)
(*                                                                         *)
(* Hosts move between the ports of the switch.  The hosts of a pair in     *)
(* Stream send so steadily that the flow they use never idles; all others  *)
(* send now and then.                                                      *)
(***************************************************************************)
EXTENDS Naturals, Sequences, SequencesExt

CONSTANTS
    Host,
    Port,           \* the ports of the switch
    None,
    Remote,         \* hosts in macVlanToPortIpMap: reached through a tunnel ...
    RemotePort,     \* ... on this port
    Stream,         \* pairs of hosts, the first of which sends steadily
    MaxQueue,       \* bound: messages under way when a packet is sent
    MaxOutages,     \* bound: how often the connection fails
    MaxMoves        \* bound: how often hosts move

ASSUME DCMAssumption ==
    /\ None \notin Port
    /\ Remote \subseteq Host
    /\ RemotePort \in Port
    /\ Stream \subseteq Host \X Host
    /\ {MaxQueue, MaxOutages, MaxMoves} \subseteq Nat

VARIABLES
    loc,        \* loc[h]: the port that host h is behind
    ports,      \* macVlanToSwitchPortMap of the switch, None for no entry
    flows,      \* the flow table
    up, down,   \* messages to and from the controller
    conn,       \* the switch is connected
    outages,    \* history: how often it was not
    moves       \* history: how often hosts moved

vars == <<loc, ports, flows, up, down, conn, outages, moves>>

\* A flow matches the addresses and the input port.  A REMOTE flow matches all
\* other fields as well: it is another flow, and the one that is used.
Flow == [src : Host, dst : Host, in : Port, out : Port, remote : BOOLEAN]

Matches(f, src, dst, in) == f.src = src /\ f.dst = dst /\ f.in = in
SameMatch(f, g) == Matches(f, g.src, g.dst, g.in) /\ f.remote = g.remote

OFPT_PACKET_IN(src, dst, in) == [type |-> "PACKET_IN", src |-> src, dst |-> dst, in |-> in]
OFPT_FLOW_REMOVED(f) == [type |-> "FLOW_REMOVED", src |-> f.src, dst |-> f.dst, in |-> f.in]
OFPFC_ADD(f) == [type |-> "ADD", flow |-> f]
OFPFC_DELETE(src, dst, port) == [type |-> "DELETE", src |-> src, dst |-> dst, out |-> port]
ClearAll == [type |-> "CLEAR"]

Init ==
    /\ loc \in [Host -> Port]
    /\ ports = [h \in Host |-> None]
    /\ flows = {}
    /\ up = <<>> /\ down = <<>>
    /\ conn = TRUE
    /\ outages = 0 /\ moves = 0
-----------------------------------------------------------------------------
\* The controller.

\* The flow of the answers is left out.
FlowsBetween_Mutant(src, dst, in, out) ==
    <<OFPFC_ADD([src |-> src, dst |-> dst, in |-> in, out |-> out, remote |-> FALSE])>>

\* What processPacketInMessage writes for a packet whose destination has been
\* learned to be behind a port: a flow, and the flow of the answers.
FlowsBetween(src, dst, in, out) ==
    <<OFPFC_ADD([src |-> src, dst |-> dst, in |-> in, out |-> out, remote |-> FALSE]),
      OFPFC_ADD([src |-> dst, dst |-> src, in |-> out, out |-> in, remote |-> FALSE])>>

RemoteFlow(src, dst, in) ==
    <<OFPFC_ADD([src |-> src, dst |-> dst, in |-> in, out |-> RemotePort, remote |-> TRUE])>>

\* The source is learned.  A destination that has not been is looked up among
\* the remote hosts, and the packet is flooded if it is none of them; one behind
\* the port the packet came from is left alone.
processPacketInMessage ==
    LET m == Head(up)
        out == ports'[m.dst]
    IN  /\ up # <<>> /\ m.type = "PACKET_IN"
        /\ ports' = [ports EXCEPT ![m.src] = m.in]
        /\ down' = down \o
             (IF out \notin {None, m.in} THEN FlowsBetween(m.src, m.dst, m.in, out)
              ELSE IF out = None /\ m.dst \in Remote THEN RemoteFlow(m.src, m.dst, m.in)
              ELSE <<>>)
        /\ up' = Tail(up)
        /\ UNCHANGED <<loc, flows, conn, outages, moves>>

\* The source stays learned.
processFlowRemovedMessage_Mutant ==
    LET m == Head(up)
    IN  /\ up # <<>> /\ m.type = "FLOW_REMOVED"
        /\ down' = Append(down, OFPFC_DELETE(m.dst, m.src, m.in))
        /\ up' = Tail(up)
        /\ UNCHANGED <<loc, ports, flows, conn, outages, moves>>

\* The source is unlearned and the flow of the answers deleted, if it leads to
\* the port of the flow that was removed.
processFlowRemovedMessage ==
    LET m == Head(up)
    IN  /\ up # <<>> /\ m.type = "FLOW_REMOVED"
        /\ ports' = [ports EXCEPT ![m.src] = None]
        /\ down' = Append(down, OFPFC_DELETE(m.dst, m.src, m.in))
        /\ up' = Tail(up)
        /\ UNCHANGED <<loc, flows, conn, outages, moves>>

\* The map keeps the MAX_MACS_PER_SWITCH addresses used last; those of other
\* hosts drive one out.
removeEldestEntry(h) ==
    /\ ports[h] # None
    /\ ports' = [ports EXCEPT ![h] = None]
    /\ UNCHANGED <<loc, flows, up, down, conn, outages, moves>>

\* The switch connects again: a new IOFSwitch, for which nothing is learned; its
\* flows are cleared.
addSwitch ==
    /\ ~conn
    /\ conn' = TRUE
    /\ ports' = [h \in Host |-> None]
    /\ down' = <<ClearAll>>
    /\ UNCHANGED <<loc, flows, up, outages, moves>>
-----------------------------------------------------------------------------
\* The switch.

\* A flow with the same match stays.
add_flow_Mutant ==
    /\ down # <<>> /\ Head(down).type = "ADD"
    /\ flows' = flows \cup {Head(down).flow}
    /\ down' = Tail(down)
    /\ UNCHANGED <<loc, ports, up, conn, outages, moves>>

\* OFPFC_ADD; a flow with the same match is replaced without a report.  None is
\* refused: max_flows is UINT_MAX where no flow_limit is configured, and nothing of
\* LazyCtrl configures one; the ports are the switch's own (ofpacts_check).
add_flow ==
    /\ down # <<>> /\ Head(down).type = "ADD"
    /\ LET g == Head(down).flow
       IN  flows' = {f \in flows : ~SameMatch(f, g)} \cup {g}
    /\ down' = Tail(down)
    /\ UNCHANGED <<loc, ports, up, conn, outages, moves>>

\* The flows that a message deletes: ClearAll all of them, OFPFC_DELETE those
\* with both addresses that output to the port.
collect_rules_loose(m) ==
    IF m = ClearAll THEN flows
    ELSE {f \in flows : f.src = m.src /\ f.dst = m.dst /\ f.out = m.out}

\* Each deleted flow is reported.
delete_flows_loose ==
    /\ down # <<>> /\ Head(down).type \in {"DELETE", "CLEAR"}
    /\ LET rules == collect_rules_loose(Head(down))
       IN  /\ flows' = flows \ rules
           /\ \E order \in SetToSeqs(rules) :
                up' = up \o [i \in DOMAIN order |-> OFPT_FLOW_REMOVED(order[i])]
    /\ down' = Tail(down)
    /\ UNCHANGED <<loc, ports, conn, outages, moves>>

\* The flow that the packets of a pair take, as a set.
Used(src, dst) ==
    LET found == {f \in flows : Matches(f, src, dst, loc[src])}
    IN  {f \in found : f.remote \/ \A g \in found : ~g.remote}

\* A flow that nobody uses idles out.  It is reported if there is a connection.
rule_expire(f) ==
    /\ f \in flows
    /\ \A p \in Stream : f \notin Used(p[1], p[2])
    /\ flows' = flows \ {f}
    /\ up' = IF conn THEN Append(up, OFPT_FLOW_REMOVED(f)) ELSE up
    /\ UNCHANGED <<loc, ports, down, conn, outages, moves>>

\* The connection fails and what was under way is lost.
Disconnect ==
    /\ conn /\ outages < MaxOutages
    /\ conn' = FALSE
    /\ up' = <<>> /\ down' = <<>>
    /\ outages' = outages + 1
    /\ UNCHANGED <<loc, ports, flows, moves>>
-----------------------------------------------------------------------------
\* The hosts.

\* A packet without a flow goes to the controller.
Send(src, dst) ==
    /\ src # dst
    /\ conn
    /\ Used(src, dst) = {}
    /\ Len(up) + Len(down) < MaxQueue
    /\ up' = Append(up, OFPT_PACKET_IN(src, dst, loc[src]))
    /\ UNCHANGED <<loc, ports, flows, down, conn, outages, moves>>

Move(h, p) ==
    /\ p # loc[h] /\ moves < MaxMoves
    /\ moves' = moves + 1
    /\ loc' = [loc EXCEPT ![h] = p]
    /\ UNCHANGED <<ports, flows, up, down, conn, outages>>

Controller == processPacketInMessage \/ processFlowRemovedMessage \/ addSwitch
Switch == add_flow \/ delete_flows_loose

Next ==
    \/ Controller \/ Switch
    \/ \E h \in Host : removeEldestEntry(h)
    \/ \E f \in flows : rule_expire(f)
    \/ Disconnect
    \/ \E src, dst \in Host : Send(src, dst)
    \/ \E h \in Host, p \in Port : Move(h, p)

Spec == Init /\ [][Next]_vars

\* Messages are handled, a lost connection is made again, streams send, and
\* flows that nobody uses idle out.
Fairness ==
    /\ WF_vars(Controller) /\ WF_vars(Switch)
    /\ \A f \in Flow : WF_vars(rule_expire(f))
    /\ \A p \in Stream : WF_vars(Send(p[1], p[2]))

FairSpec == Spec /\ Fairness
-----------------------------------------------------------------------------
\* Properties.

\* The state has its types, and no two flows have the same match.
TypeOK ==
    /\ loc \in [Host -> Port]
    /\ ports \in [Host -> Port \cup {None}]
    /\ flows \subseteq Flow
    /\ conn \in BOOLEAN
    /\ \A f, g \in flows : SameMatch(f, g) => f = g

\* A flow to a host's port does not outlive the flow from that port: that one is
\* there, or about to be, or its end is about to reach this one.
Paired(f) ==
    \/ \E g \in flows : Matches(g, f.dst, f.src, f.out)
    \/ \E m \in Range(down) : m.type = "ADD" /\ Matches(m.flow, f.dst, f.src, f.out)
    \/ \E m \in Range(up) : m.type = "FLOW_REMOVED" /\ Matches(m, f.dst, f.src, f.out)
    \/ OFPFC_DELETE(f.src, f.dst, f.out) \in Range(down)
    \/ ClearAll \in Range(down)
    \/ ~conn

\* Every OUTPUT flow is paired with the flow of the answers, through delays,
\* moves, evictions and lost connections: what DCM.java says it does to get rid
\* of stale flows.
FlowsPaired == \A f \in flows : ~f.remote => Paired(f)

\* Once hosts stay where they are, the flows that lead to where they were go, and
\* for good, however steadily they are used.
StaleFlowsDie ==
    <>[](\A f \in flows : f.in = loc[f.src] /\ (f.remote \/ f.out = loc[f.dst]))
=============================================================================
