------------------------------ MODULE Grouping ------------------------------
(***************************************************************************)
(* How a switch learns its local control group and meets the others in it. *)
(*                                                                         *)
(* The groupManager daemon pushes a group id to every switch in turn; the  *)
(* push rewrites the file /tmp/lc_gid.dat there.  A bridge reads the file  *)
(* once, in bridge_lc_init, and derives from it the multicast addresses it *)
(* sends to and listens on.  mc_send reads the file again when it starts,  *)
(* and mc_recv reads it for every datagram, only to warn.                  *)
(*                                                                         *)
(* Addresses are the four bytes in network order, as a little-endian       *)
(* machine stores them in s_addr: the additions of bridge_lc_init carry    *)
(* from a byte into the byte to its right.                                 *)
(***************************************************************************)
EXTENDS Integers, Sequences, FiniteSets

CONSTANTS
    Dcm,            \* dcm_ip.list: the switches, in the order they are pushed
    Ddcm,           \* ddcm_ip.list: those that also collect statistics
    Gid,            \* the group ids that gpmetis assigns
    NoFile,         \* there is no /tmp/lc_gid.dat yet
    MaxInits,       \* how often bridges are created
    MaxInFlight     \* datagrams in the network; more are lost

Switch == {Dcm[i] : i \in DOMAIN Dcm}

LC_GROUP_DFT_ID == 0

\* Ids of up to three bytes.
MaxGid == 16777215

ASSUME GroupingAssumption ==
    /\ Dcm \in Seq(Switch) \ {<<>>} /\ Len(Dcm) = Cardinality(Switch)
    /\ Ddcm \subseteq Switch
    /\ Gid \subseteq 0 .. MaxGid
    /\ MaxInits \in Nat /\ MaxInFlight \in Nat

VARIABLES
    pos,        \* groupManager: the next entry of Dcm to push; 1 also between rounds
    writing,    \* what the push in progress will write, <<>> when none is
    file,       \* file[s]: the numbers in /tmp/lc_gid.dat, or NoFile
    bridge,     \* bridge[s]: "none" or "up"
    gdt_gid,    \* gdt_gid[s]: br->gdt->gid
    is_DDCM,    \* is_DDCM[s]: br->recv_arg.is_DDCM
    msg_gid,    \* msg_gid[s]: the id in mc_send's message; -1 until it starts
    recv,       \* recv[s]: mc_recv is "none", "start", "joined" or "returned"
    failed,     \* failed[s]: the threads that returned because they got no socket
    net,        \* the datagrams that may still arrive
    heard,      \* history: heard[s], the bridges whose filter mc_recv stored
    inits       \* history: how often bridges were created

vars == <<pos, writing, file, bridge, gdt_gid, is_DDCM, msg_gid, recv, failed,
          net, heard, inits>>

\* fscanf leaves its variables, which are zero, alone when the file is too short.
Field(f, i) == IF f # NoFile /\ Len(f) >= i THEN f[i] ELSE 0

\* The id mc_send and mc_recv use: the default only when there is no file.
ReadGid(s) == IF file[s] = NoFile THEN gdt_gid[s] ELSE Field(file[s], 1)
-----------------------------------------------------------------------------
\* Addresses.

\* The bytes of a 32-bit number as it lies in memory, and after htonl.
HostOrder(g) == <<g % 256, (g \div 256) % 256, (g \div 65536) % 256, g \div 16777216>>
htonl(g) == LET b == HostOrder(g) IN <<b[4], b[3], b[2], b[1]>>

\* The sum keeps what overflows a byte.
Plus_Mutant(x, y) == [i \in 1 .. 4 |-> x[i] + y[i]]

\* Unsigned addition of two numbers given by their bytes in memory.
Plus(x, y) ==
    LET b1 == x[1] + y[1]
        b2 == x[2] + y[2] + b1 \div 256
        b3 == x[3] + y[3] + b2 \div 256
        b4 == x[4] + y[4] + b3 \div 256
    IN  <<b1 % 256, b2 % 256, b3 % 256, b4 % 256>>

LC_MCAST_GROUP_IP == <<239, 0, 0, 1>>

SendGroupIp_Mutant(g) == Plus(LC_MCAST_GROUP_IP, HostOrder(g))
SendGroupIp(g) == Plus(LC_MCAST_GROUP_IP, htonl(g))

RecvGroupIp_Mutant(g) == LC_MCAST_GROUP_IP
RecvGroupIp(g) == Plus(LC_MCAST_GROUP_IP, HostOrder(g))

\* IP_ADD_MEMBERSHIP refuses an address that is not a class D address.
IsMulticast(a) == a[1] \in 224 .. 239

\* The block ovs-mcast.h sets aside for local multicast.
IsLocalMulticast(a) == a[1] = 239
-----------------------------------------------------------------------------
Init ==
    /\ pos = 1
    /\ writing = <<>>
    /\ file = [s \in Switch |-> NoFile]
    /\ bridge = [s \in Switch |-> "none"]
    /\ gdt_gid = [s \in Switch |-> LC_GROUP_DFT_ID]
    /\ is_DDCM = [s \in Switch |-> 0]
    /\ msg_gid = [s \in Switch |-> -1]
    /\ recv = [s \in Switch |-> "none"]
    /\ failed = [s \in Switch |-> {}]
    /\ net = {}
    /\ heard = [s \in Switch |-> {}]
    /\ inits = 0

\* push_agent.py passes on the first word of its message only.
push_agent(msg) == <<msg[1]>>

\* doPush hands the next switch its group, whatever gpmetis assigned to it,
\* and a flag that tells ddcms apart.  The shell on the switch empties the
\* file before it writes it; ssh may also not reach the switch at all.
doPush(g) ==
    /\ writing = <<>>
    /\ LET s == Dcm[pos]
           msg == <<g, IF s \in Ddcm THEN 1 ELSE 0>>
       IN  \/ /\ writing' = push_agent(msg)
              /\ file' = [file EXCEPT ![s] = <<>>]
              /\ pos' = pos
           \/ /\ pos' = (pos % Len(Dcm)) + 1
              /\ UNCHANGED <<writing, file>>
    /\ UNCHANGED <<bridge, gdt_gid, is_DDCM, msg_gid, recv, failed, net, heard, inits>>

push_write ==
    /\ writing # <<>>
    /\ file' = [file EXCEPT ![Dcm[pos]] = writing]
    /\ writing' = <<>>
    /\ pos' = (pos % Len(Dcm)) + 1
    /\ UNCHANGED <<bridge, gdt_gid, is_DDCM, msg_gid, recv, failed, net, heard, inits>>

\* The group of a new bridge: the file's, or the default.
InitGid(s) == IF file[s] = NoFile THEN LC_GROUP_DFT_ID ELSE Field(file[s], 1)

bridge_lc_init(s) ==
    /\ bridge[s] = "none"
    /\ inits < MaxInits
    /\ inits' = inits + 1
    /\ bridge' = [bridge EXCEPT ![s] = "up"]
    /\ gdt_gid' = [gdt_gid EXCEPT ![s] = InitGid(s)]
    /\ is_DDCM' = [is_DDCM EXCEPT ![s] = Field(file[s], 2)]
    /\ recv' = [recv EXCEPT ![s] = "start"]
    /\ UNCHANGED <<pos, writing, file, msg_gid, failed, net, heard>>

\* The bridge or its process goes away.
BridgeGone(s) ==
    /\ bridge[s] = "up"
    /\ bridge' = [bridge EXCEPT ![s] = "none"]
    /\ gdt_gid' = [gdt_gid EXCEPT ![s] = LC_GROUP_DFT_ID]
    /\ is_DDCM' = [is_DDCM EXCEPT ![s] = 0]
    /\ msg_gid' = [msg_gid EXCEPT ![s] = -1]
    /\ recv' = [recv EXCEPT ![s] = "none"]
    /\ failed' = [failed EXCEPT ![s] = {}]
    /\ heard' = [heard EXCEPT ![s] = {}]
    /\ UNCHANGED <<pos, writing, file, net, inits>>

\* mc_send up to its loop: it returns when socket fails.
mc_send_start(s) ==
    /\ bridge[s] = "up"
    /\ msg_gid[s] = -1 /\ "mc_send" \notin failed[s]
    /\ \/ msg_gid' = [msg_gid EXCEPT ![s] = ReadGid(s)] /\ UNCHANGED failed
       \/ failed' = [failed EXCEPT ![s] = @ \cup {"mc_send"}] /\ UNCHANGED msg_gid
    /\ UNCHANGED <<pos, writing, file, bridge, gdt_gid, is_DDCM, recv, net,
                   heard, inits>>

\* One round of mc_send's loop.
mc_send(s) ==
    /\ bridge[s] = "up"
    /\ msg_gid[s] # -1
    /\ LET msg == [src |-> s, to |-> SendGroupIp(gdt_gid[s]),
                   gid |-> msg_gid[s], group |-> gdt_gid[s]]
       IN  \E n \in SUBSET (net \cup {msg}) :
            /\ Cardinality(n) <= MaxInFlight
            /\ net' = n
    /\ UNCHANGED <<pos, writing, file, bridge, gdt_gid, is_DDCM, msg_gid, recv,
                   failed, heard, inits>>

\* mc_recv up to its loop: it returns when it cannot join its group, because of
\* the address or, whatever the address, because socket, bind (another bridge of
\* the process may have the port) or IP_ADD_MEMBERSHIP fails.
mc_recv_start(s) ==
    /\ recv[s] = "start"
    /\ \/ /\ recv' = [recv EXCEPT ![s] =
                IF IsMulticast(RecvGroupIp(gdt_gid[s])) THEN "joined" ELSE "returned"]
          /\ UNCHANGED failed
       \/ /\ recv' = [recv EXCEPT ![s] = "returned"]
          /\ failed' = [failed EXCEPT ![s] = @ \cup {"mc_recv"}]
    /\ UNCHANGED <<pos, writing, file, bridge, gdt_gid, is_DDCM, msg_gid, net,
                   heard, inits>>

\* A datagram whose gid differs from the file's is dropped.
mc_recv_Mutant(s, msg) ==
    /\ recv[s] = "joined"
    /\ msg \in net
    /\ msg.to = RecvGroupIp(gdt_gid[s])
    /\ msg.src # s
    /\ msg.gid = ReadGid(s)
    /\ heard' = [heard EXCEPT ![s] = @ \cup {<<msg.src, msg.group>>}]
    /\ UNCHANGED <<pos, writing, file, bridge, gdt_gid, is_DDCM, msg_gid, recv,
                   failed, net, inits>>

\* One round of mc_recv's loop.  A gid that differs from the file's is only
\* logged; the filter of another switch is stored.
mc_recv(s, msg) ==
    /\ recv[s] = "joined"
    /\ msg \in net
    /\ msg.to = RecvGroupIp(gdt_gid[s])
    /\ msg.src # s
    /\ heard' = [heard EXCEPT ![s] = @ \cup {<<msg.src, msg.group>>}]
    /\ UNCHANGED <<pos, writing, file, bridge, gdt_gid, is_DDCM, msg_gid, recv,
                   failed, net, inits>>

Next ==
    \/ \E g \in Gid : doPush(g)
    \/ push_write
    \/ \E s \in Switch :
        \/ bridge_lc_init(s)
        \/ BridgeGone(s)
        \/ mc_send_start(s)
        \/ mc_send(s)
        \/ mc_recv_start(s)
        \/ \E msg \in net : mc_recv(s, msg)

Spec == Init /\ [][Next]_vars

\* mc_recv of s takes a datagram that t sent in the group it is in now.
SentTo(s, t) == \E msg \in net : msg.src = t /\ msg.group = gdt_gid[t] /\ mc_recv(s, msg)

\* The daemon and the threads keep running and a push under way is finished.
\* What is sent over and over is received over and over by those that listen.
Fairness ==
    /\ WF_vars(push_write)
    /\ \A s \in Switch :
        /\ WF_vars(bridge_lc_init(s))
        /\ WF_vars(mc_send_start(s))
        /\ WF_vars(mc_recv_start(s))
        /\ SF_vars(mc_send(s) /\ \E msg \in net' :
                        msg.src = s /\ msg.group = gdt_gid[s])
        /\ \A t \in Switch : SF_vars(SentTo(s, t))

FairSpec == Spec /\ Fairness
-----------------------------------------------------------------------------
\* Properties.

Message == {<<g>> : g \in Gid} \cup {<<g, d>> : g \in Gid, d \in {0, 1}}
Byte == 0 .. 255

TypeOK ==
    /\ pos \in DOMAIN Dcm
    /\ writing \in Message \cup {<<>>}
    /\ file \in [Switch -> Message \cup {NoFile, <<>>}]
    /\ bridge \in [Switch -> {"none", "up"}]
    /\ gdt_gid \in [Switch -> Gid \cup {0}]
    /\ is_DDCM \in [Switch -> {0, 1}]
    /\ msg_gid \in [Switch -> Gid \cup {0, -1}]
    /\ recv \in [Switch -> {"none", "start", "joined", "returned"}]
    /\ failed \in [Switch -> SUBSET {"mc_send", "mc_recv"}]
    /\ \A msg \in net :
        /\ msg.src \in Switch
        /\ \A i \in 1 .. 4 : msg.to[i] \in Byte
        /\ {msg.gid, msg.group} \subseteq Gid \cup {0}
    /\ heard \in [Switch -> SUBSET (Switch \X (Gid \cup {0}))]
    /\ inits \in 0 .. MaxInits

\* A bridge stores only filters of bridges that started in its own group,
\* although mc_recv never compares groups (it only warns), pushes come at any
\* time and datagrams sent before a regrouping are still under way.
GroupIsolation ==
    \A s \in Switch : \A h \in heard[s] : h[2] = gdt_gid[s]

\* Bridges send to a local multicast address, and two of them to the same one
\* only if they started in the same group, also where the last byte of the
\* address overflows.
GroupAddresses ==
    \A s, t \in {u \in Switch : bridge[u] = "up"} :
        LET a == SendGroupIp(gdt_gid[s])
        IN  /\ IsLocalMulticast(a)
            /\ a = SendGroupIp(gdt_gid[t]) => gdt_gid[s] = gdt_gid[t]

\* A bridge that stays in group g comes to hear another that does, if the one got
\* a socket to receive and the other one to send.
HearsIn(g) ==
    \A s \in Switch : \A t \in Switch \ {s} :
        <>[](/\ bridge[s] = "up" /\ gdt_gid[s] = g /\ "mc_recv" \notin failed[s]
             /\ bridge[t] = "up" /\ gdt_gid[t] = g /\ "mc_send" \notin failed[t])
            => <>(<<t, g>> \in heard[s])

\* Bridges that stay in the default group, and got their sockets, hear each other,
\* whatever is pushed to them meanwhile and whichever groups they were in before.
DefaultGroupHears == HearsIn(LC_GROUP_DFT_ID)

\* "multicast group ip to send, =gdt->gid+LC_MCAST_GROUP_IP": so do the bridges
\* of every group.
GroupHears == \A g \in Gid : HearsIn(g)
=============================================================================
