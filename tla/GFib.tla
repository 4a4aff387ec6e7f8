-------------------------------- MODULE GFib --------------------------------
(***************************************************************************)
(* How the edge switches of one local control group build their G-FIB.     *)
(*                                                                         *)
(* Each switch runs ovs-vswitchd with three threads that touch the same    *)
(* table br->gdt: the main thread adds the source MAC of missed packets to *)
(* the local filter (bridge_update_local_bf, without the mutex), mc_send   *)
(* copies the local filter and multicasts it, mc_recv stores the filters   *)
(* of the other switches and pushes each change into the kernel table      *)
(* dp->gdt over netlink.  The kernel table decides which packets miss.     *)
(*                                                                         *)
(* Datagrams are lost, duplicated and reordered.  ovs-vswitchd may die and *)
(* start again; the kernel table outlives it.                              *)
(***************************************************************************)
EXTENDS BfGdt, FiniteSets

CONSTANTS
    Hosts,          \* Hosts[s]: the MACs of the hosts attached to switch s
    MaxStops,       \* how often bridges stop: crashes and bridge_destroy
    MaxInFlight     \* distinct datagrams in the network; more are lost

\* A switch is named by its IP address, the id of its local filter.
Switch == Id

ASSUME GFibAssumption ==
    /\ Hosts \in [Switch -> SUBSET Mac]
    /\ MaxStops \in Nat
    /\ MaxInFlight \in Nat

VARIABLES
    phase,      \* phase[s]: "down", "lc" (br->ofproto still NULL) or "run"
    gdt,        \* gdt[s]: br->gdt, ovs-vswitchd's table
    dp,         \* dp[s]: dp->gdt, the kernel's table; empty without a datapath
    send,       \* send[s]: mc_send is idle or inside its memcpy, mutex held
    copied,     \* copied[s]: the local bits when that memcpy began
    recv,       \* recv[s]: mc_recv is idle or about to push held[s]
    held,       \* held[s]: the filter of the message mc_recv is handling
    learning,   \* learning[s]: bf_add's key and next bit, <<>> when idle
    net,        \* the multicast datagrams that may still reach a receiver
    learned,    \* history: the hosts bf_add has finished adding to br->gdt
    missed,     \* history: the ids whose last push did not reach dp->gdt
    stops       \* history: how often bridges have stopped

vars == <<phase, gdt, dp, send, copied, recv, held, learning, net,
          learned, missed, stops>>

Message == [bf_id : Id, port_no : {LC_BF_LOCAL_PORT}, array : SUBSET Bit]

NoMessage(s) == bf_create(s, LC_BF_LOCAL_PORT)

Init ==
    /\ phase = [s \in Switch |-> "down"]
    /\ gdt = [s \in Switch |-> <<>>]
    /\ dp = [s \in Switch |-> <<>>]
    /\ send = [s \in Switch |-> "idle"]
    /\ copied = [s \in Switch |-> {}]
    /\ recv = [s \in Switch |-> "idle"]
    /\ held = [s \in Switch |-> NoMessage(s)]
    /\ learning = [s \in Switch |-> <<>>]
    /\ net = {}
    /\ learned = [s \in Switch |-> {}]
    /\ missed = [s \in Switch |-> {}]
    /\ stops = 0
-----------------------------------------------------------------------------
\* The life of a bridge.

\* bridge_create: a table with an empty local filter, then the two threads.
bridge_create(s) ==
    /\ phase[s] = "down"
    /\ phase' = [phase EXCEPT ![s] = "lc"]
    /\ gdt' = [gdt EXCEPT ![s] = bf_gdt_add_filter(<<>>, s, LC_BF_LOCAL_PORT)]
    /\ UNCHANGED <<dp, send, copied, recv, held, learning, net, learned, missed, stops>>

\* ovs_dp_cmd_new: the datapath is created with an empty local filter unless
\* it already exists.
ovs_dp_cmd_new(s) ==
    IF dp[s] = <<>> THEN bf_gdt_add_filter(<<>>, s, LC_BF_LOCAL_PORT) ELSE dp[s]

\* ofproto_create_lc succeeds: br->ofproto is set once the datapath is open.
ofproto_create(s) ==
    /\ phase[s] = "lc"
    /\ phase' = [phase EXCEPT ![s] = "run"]
    /\ dp' = [dp EXCEPT ![s] = ovs_dp_cmd_new(s)]
    /\ UNCHANGED <<gdt, send, copied, recv, held, learning, net, learned, missed, stops>>

\* Everything ovs-vswitchd holds for the bridge is gone.
BridgeGone(s) ==
    /\ stops < MaxStops
    /\ stops' = stops + 1
    /\ phase' = [phase EXCEPT ![s] = "down"]
    /\ gdt' = [gdt EXCEPT ![s] = <<>>]
    /\ send' = [send EXCEPT ![s] = "idle"]
    /\ copied' = [copied EXCEPT ![s] = {}]
    /\ recv' = [recv EXCEPT ![s] = "idle"]
    /\ held' = [held EXCEPT ![s] = NoMessage(s)]
    /\ learning' = [learning EXCEPT ![s] = <<>>]
    /\ learned' = [learned EXCEPT ![s] = {}]
    /\ missed' = [missed EXCEPT ![s] = {}]

\* ofproto_create_lc fails, perhaps after the datapath was created, and the
\* bridge is destroyed.
ofproto_create_fails(s) ==
    /\ phase[s] = "lc"
    /\ send[s] = "idle" /\ recv[s] = "idle"
    /\ dp' \in {dp, [dp EXCEPT ![s] = ovs_dp_cmd_new(s)]}
    /\ BridgeGone(s)
    /\ UNCHANGED net

\* bridge_destroy of a working bridge: it joins both threads, so each has
\* finished the round it was in.
bridge_destroy(s) ==
    /\ phase[s] = "run"
    /\ send[s] = "idle" /\ recv[s] = "idle" /\ learning[s] = <<>>
    /\ BridgeGone(s)
    /\ UNCHANGED <<dp, net>>

\* The process dies, between any two steps of its threads.
Crash(s) ==
    /\ phase[s] # "down"
    /\ BridgeGone(s)
    /\ UNCHANGED <<dp, net>>

\* ovs_dp_cmd_del: the datapath of a bridge that is no longer configured.
ovs_dp_cmd_del(s) ==
    /\ phase[s] = "down"
    /\ dp[s] # <<>>
    /\ dp' = [dp EXCEPT ![s] = <<>>]
    /\ UNCHANGED <<phase, gdt, send, copied, recv, held, learning, net,
                   learned, missed, stops>>
-----------------------------------------------------------------------------
\* The main thread: local hosts.

\* bf_add starts with funcs[0].
FirstBit_Mutant == 0
FirstBit_Skip_Mutant == 2
FirstBit == 1

\* The slot of the local filter.
LocalSlot_Mutant(s) == Len(gdt[s])
LocalSlot(s) == bf_gdt_find_filter(gdt[s], s)

\* A local host's IPv4 packet to d misses the flow table and the kernel G-FIB,
\* and its upcall reaches bridge_update_local_bf.
handle_miss_upcall(s, m, d) ==
    /\ phase[s] = "run"
    /\ learning[s] = <<>>
    /\ m \in Hosts[s]
    /\ bf_gdt_check(dp[s], d) = 0
    /\ LET table == IF LocalSlot(s) # 0 THEN gdt[s]
                    ELSE bf_gdt_add_filter(gdt[s], s, LC_BF_REMOTE_PORT)
       IN  /\ gdt' = [gdt EXCEPT ![s] = table]
           /\ learning' = IF s \in GdtIds(table)
                          THEN [learning EXCEPT ![s] = <<m, FirstBit>>] ELSE learning
    /\ UNCHANGED <<phase, dp, send, copied, recv, held, net, learned, missed, stops>>

\* bf_add sets its bits one at a time, while mc_send may be copying them.
bf_add_bit(s) ==
    /\ learning[s] # <<>>
    /\ LET m == learning[s][1]
           k == learning[s][2]
           i == LocalSlot(s)
       IN  /\ gdt' = [gdt EXCEPT ![s][i].array = @ \cup {Hash[m][k]}]
           /\ IF k = NFuncs
              THEN /\ learning' = [learning EXCEPT ![s] = <<>>]
                   /\ learned' = [learned EXCEPT ![s] = @ \cup {m}]
              ELSE /\ learning' = [learning EXCEPT ![s] = <<m, k + 1>>]
                   /\ UNCHANGED learned
    /\ UNCHANGED <<phase, dp, send, copied, recv, held, net, missed, stops>>
-----------------------------------------------------------------------------
\* mc_send: one round of its loop, in two steps around the memcpy.

mc_send_lock(s) ==
    /\ phase[s] # "down"
    /\ send[s] = "idle"
    /\ LocalSlot(s) # 0
    /\ send' = [send EXCEPT ![s] = "copy"]
    /\ copied' = [copied EXCEPT ![s] = gdt[s][LocalSlot(s)].array]
    /\ UNCHANGED <<phase, gdt, dp, recv, held, learning, net, learned, missed, stops>>

\* The copy holds every bit set before it began and any of those set since.
\* The datagram goes to the whole group, its sender included.  It and those
\* sent before it may be lost, each before or after it reached a receiver.
mc_send_unlock(s) ==
    /\ send[s] = "copy"
    /\ \E array \in SUBSET gdt[s][LocalSlot(s)].array :
        /\ copied[s] \subseteq array
        /\ LET msg == [bf_id |-> s, port_no |-> LC_BF_LOCAL_PORT,
                       array |-> array]
           IN  \E n \in SUBSET (net \cup {msg}) :
                /\ Cardinality(n) <= MaxInFlight
                /\ net' = n
    /\ send' = [send EXCEPT ![s] = "idle"]
    /\ copied' = [copied EXCEPT ![s] = {}]
    /\ UNCHANGED <<phase, gdt, dp, recv, held, learning, learned, missed, stops>>
-----------------------------------------------------------------------------
\* mc_recv: one round of its loop, in two steps.

\* A switch ignores its own datagrams, which are looped back to it.
FromOther(s, msg) == msg.bf_id # s

\* Only what changed br->gdt, as bf_gdt_update_filter tells it, is pushed.
NeedsPush_Mutant(s, msg) == bf_gdt_update_ret(gdt[s], msg) = 1
NeedsPush(s, msg) == bf_gdt_update_ret(gdt[s], msg) > 0

\* recvfrom and the update of br->gdt.  Any datagram in the network may be the
\* next to arrive, and may arrive again.  The mutex delays the update while
\* mc_send copies the local filter; the update touches only other filters, so
\* that order cannot be observed.
mc_recv_update(s, msg) ==
    /\ phase[s] # "down"
    /\ recv[s] = "idle"
    /\ msg \in net
    /\ FromOther(s, msg)
    /\ gdt' = [gdt EXCEPT ![s] = bf_gdt_update_filter(@, msg)]
    /\ IF NeedsPush(s, msg)
       THEN /\ recv' = [recv EXCEPT ![s] = "push"]
            /\ held' = [held EXCEPT ![s] = msg]
       ELSE UNCHANGED <<recv, held>>
    /\ UNCHANGED <<phase, dp, send, copied, learning, net, learned, missed, stops>>

\* What the kernel stores: the port is set to the remote one.
PushedFilter_Mutant(s) == held[s]
PushedFilter(s) == [held[s] EXCEPT !.port_no = LC_BF_REMOTE_PORT]

\* bridge_update_bf_gdt_to_dp: nothing happens before br->ofproto is set, and
\* the result of the netlink request is ignored.
mc_recv_push(s) ==
    /\ recv[s] = "push"
    /\ LET table == bf_gdt_update_filter(dp[s], PushedFilter(s))
           i == bf_gdt_find_filter(table, held[s].bf_id)
       IN  \/ /\ phase[s] = "run"
              /\ dp' = [dp EXCEPT ![s] = table]
              /\ missed' = [missed EXCEPT ![s] =
                    IF i # 0 THEN @ \ {held[s].bf_id} ELSE @ \cup {held[s].bf_id}]
           \/ /\ missed' = [missed EXCEPT ![s] = @ \cup {held[s].bf_id}]
              /\ UNCHANGED dp
    /\ recv' = [recv EXCEPT ![s] = "idle"]
    /\ held' = [held EXCEPT ![s] = NoMessage(s)]
    /\ UNCHANGED <<phase, gdt, send, copied, learning, net, learned, stops>>
-----------------------------------------------------------------------------
SwitchNext(s) ==
    \/ bridge_create(s)
    \/ ofproto_create(s)
    \/ ofproto_create_fails(s)
    \/ bridge_destroy(s)
    \/ Crash(s)
    \/ ovs_dp_cmd_del(s)
    \/ \E m, d \in Mac : handle_miss_upcall(s, m, d)
    \/ bf_add_bit(s)
    \/ mc_send_lock(s)
    \/ mc_send_unlock(s)
    \/ \E msg \in net : mc_recv_update(s, msg)
    \/ mc_recv_push(s)

Next == \E s \in Switch : SwitchNext(s)

Spec == Init /\ [][Next]_vars

AllRun == \A s \in Switch : phase[s] = "run"

\* The local filter of switch t, as mc_send multicasts it.
CurrentMessage(t) ==
    [bf_id |-> t, port_no |-> LC_BF_LOCAL_PORT,
     array |-> gdt[t][LocalSlot(t)].array]

\* The threads keep running.  The network is fair-lossy: again and again all
\* older datagrams have left it when a local filter is sent, and a filter that
\* is sent over and over is received over and over.
Fairness ==
    \A s \in Switch :
        /\ WF_vars(bridge_create(s))
        /\ WF_vars(ofproto_create(s))
        /\ WF_vars(bf_add_bit(s))
        /\ WF_vars(mc_send_lock(s))
        /\ SF_vars(mc_send_unlock(s) /\ net' = {CurrentMessage(s)})
        /\ WF_vars(mc_recv_push(s))
        /\ \A t \in Switch \ {s} :
            SF_vars(AllRun /\ mc_recv_update(s, CurrentMessage(t)))

FairSpec == Spec /\ Fairness
-----------------------------------------------------------------------------
\* Properties.

\* Tables, filters, datagrams and threads have their types.
TypeOK ==
    /\ phase \in [Switch -> {"down", "lc", "run"}]
    /\ gdt \in [Switch -> bf_gdt]
    /\ dp \in [Switch -> bf_gdt]
    /\ send \in [Switch -> {"idle", "copy"}]
    /\ copied \in [Switch -> SUBSET Bit]
    /\ recv \in [Switch -> {"idle", "push"}]
    /\ held \in [Switch -> Message]
    /\ learning \in [Switch -> (Mac \X (1 .. NFuncs)) \cup {<<>>}]
    /\ net \subseteq Message
    /\ learned \in [Switch -> SUBSET Mac]
    /\ missed \in [Switch -> SUBSET Id]
    /\ stops \in 0 .. MaxStops

\* Whatever order filters, restarts and pushes come in, no table ever holds
\* two filters of one switch nor more than BF_GDT_MAX_FILTERS of them:
\* bf_gdt_add_filter itself does not look for duplicates.
TablesWellFormed ==
    \A s \in Switch :
        /\ UniqueIds(gdt[s]) /\ WithinCapacity(gdt[s])
        /\ UniqueIds(dp[s]) /\ WithinCapacity(dp[s])

\* The bits the hosts of a switch can account for.
HostBits(s) == UNION {HashBits(m) : m \in Hosts[s]}

\* Torn copies, stale datagrams, restarts and lost pushes never put a bit in a
\* filter that no host of the filter's switch accounts for: a G-FIB hit is
\* wrong only through a hash collision.
FiltersSound ==
    \A s \in Switch :
        /\ \A i \in DOMAIN gdt[s] : gdt[s][i].array \subseteq HostBits(gdt[s][i].bf_id)
        /\ \A i \in DOMAIN dp[s] : dp[s][i].array \subseteq HostBits(dp[s][i].bf_id)

\* The kernel never tunnels a packet to its own switch: its own filter stays
\* the empty one that ovs_dp_cmd_new added, and every filter it can hit is a
\* remote one that leads out of LC_BF_REMOTE_PORT.
NeverEncapToSelf ==
    \A s \in Switch, m \in Mac :
        LET i == bf_gdt_check(dp[s], m)
        IN  i # 0 => /\ dp[s][i].bf_id # s
                     /\ dp[s][i].port_no = LC_BF_REMOTE_PORT

\* A host whose bf_add has returned is found in the local filter from then on,
\* although mc_send and mc_recv use the same table meanwhile.
LearnedAreLocal ==
    \A s \in Switch : \A m \in learned[s] :
        LET i == bf_gdt_find_filter(gdt[s], s)
        IN  i # 0 /\ bf_check(gdt[s][i], m)

\* The kernel table has, for every remote filter of br->gdt, the same bits,
\* except while mc_recv is between its update and its push, and after a push
\* that was lost: an unchanged filter is not pushed again.
DpFollows ==
    \A s \in Switch : \A i \in DOMAIN gdt[s] :
        LET t == gdt[s][i].bf_id
            j == bf_gdt_find_filter(dp[s], t)
        IN  \/ t = s
            \/ t \in missed[s]
            \/ recv[s] = "push" /\ held[s].bf_id = t
            \/ j # 0 /\ dp[s][j].array = gdt[s][i].array

\* While a bridge lives its table forgets nobody, and its local filter loses
\* no bit: there is no timeout yet (the TODO of bf-gdt.h).
NothingForgotten ==
    [][\A s \in Switch : (phase[s] # "down" /\ phase'[s] # "down") =>
            \A i \in DOMAIN gdt[s] :
                /\ i \in DOMAIN gdt'[s]
                /\ gdt'[s][i].bf_id = gdt[s][i].bf_id
                /\ gdt[s][i].bf_id = s => gdt[s][i].array \subseteq gdt'[s][i].array]_vars

\* The bits table g has for switch t; no bits when it has no filter of t.
ArrayOf(g, t) ==
    LET i == bf_gdt_find_filter(g, t) IN IF i = 0 THEN {} ELSE g[i].array

\* Once no bridge restarts any more, every switch ends up with the local
\* filter of every other, torn, lost and reordered datagrams notwithstanding.
GdtConverges ==
    <>[]AllRun => \A s, t \in Switch :
        <>[](ArrayOf(gdt[s], t) = ArrayOf(gdt[t], t))

\* "will update dp": so does the kernel table.
DpCatchesUp ==
    <>[]AllRun => \A s \in Switch : \A t \in Switch \ {s} :
        <>[](ArrayOf(dp[s], t) = ArrayOf(gdt[t], t))
=============================================================================
