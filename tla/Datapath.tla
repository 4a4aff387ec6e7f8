------------------------------ MODULE Datapath ------------------------------
(***************************************************************************)
(* The way of a packet through the kernel datapath                         *)
(* (ovs_dp_process_received_packet of datapath/datapath.c, with actions.c, *)
(* remote.c and vport.c), beside the commands that change its filter table *)
(* (KernelGdt).                                                            *)
(*                                                                         *)
(* A packet that came through a tunnel is decapsulated.  A packet without  *)
(* a flow is looked up in the filter table; a filter that claims its       *)
(* destination makes a flow of one action, REMOTE, that lives as long as   *)
(* the packet.  Everything else is handed to ovs-vswitchd.                 *)
(*                                                                         *)
(* The flow table is what FlowMap says it is: a lookup finds a flow or it  *)
(* does not.                                                               *)
(***************************************************************************)
EXTENDS KernelGdt

CONSTANTS
    FlowActions,    \* the lists of actions of the flows in the flow table
    Sample,         \* the SAMPLE actions in them
    Nested,         \* Nested[a]: the list of actions inside SAMPLE action a
    Arrays          \* the bit arrays of the filters that are pushed

\* SET, and POP_VLAN like it, leaves the packet to its caller when it fails;
\* PUSH_VLAN has freed it by then.
Plain == {"OUTPUT", "REMOTE", "USERSPACE", "SET", "PUSH_VLAN"}
Action == Plain \cup Sample

SAMPLE_ACTION_DEPTH == 3

\* validate_actions takes any actions inside a SAMPLE, but lists only so deep.
validate_actions ==
    \E depth \in [Sample -> 1 .. SAMPLE_ACTION_DEPTH - 1] : \A a \in Sample :
        \A i \in DOMAIN Nested[a] : Nested[a][i] \in Sample => depth[Nested[a][i]] > depth[a]

ASSUME DatapathAssumption ==
    /\ Sample \cap Plain = {}
    /\ Nested \in [Sample -> Seq(Action)] /\ validate_actions
    /\ FlowActions \subseteq Seq(Action)
    /\ Arrays \subseteq SUBSET Bit

VARIABLE
    skb     \* skb[c]: the packet that processor c handles, and how far it is

vars == <<kvars, skb>>

\* acts is what is left of the list that do_execute_actions runs, outer what is left
\* of the lists around it: keep_skb is outer # <<>>.
\* The last three fields are history: how often the packet was freed or given
\* away, that it was used after that, and that it could not get a header.
NoPacket ==
    [pc |-> "idle", encaped |-> FALSE, acts |-> <<>>, outer |-> <<>>, prev_port |-> FALSE,
     gone |-> 0, used |-> FALSE, nohead |-> FALSE]

Init ==
    /\ KInit
    /\ skb = [c \in Cpu |-> NoPacket]

\* The packet moves on to where; kfree_skb, consume_skb and the devices that
\* take it dispose of it.
Touch(s) == [s EXCEPT !.used = @ \/ s.gone > 0]
Dispose(s) == [Touch(s) EXCEPT !.gone = @ + 1]
To(s, where) == [s EXCEPT !.pc = where]
-----------------------------------------------------------------------------
\* ovs_vport_receive looks whether the packet comes through a tunnel.
ovs_vport_receive(c, tunnel) ==
    /\ skb[c].pc = "idle"
    /\ skb' = [skb EXCEPT ![c] = [NoPacket EXCEPT !.encaped = tunnel,
                                      !.pc = IF tunnel THEN "decap" ELSE "lookup"]]
    /\ UNCHANGED kvars

\* ovs_execute_decapulation; what is no tunnelled packet is dropped.
decapulation(c) ==
    /\ skb[c].pc = "decap"
    /\ skb' \in {[skb EXCEPT ![c] = To(Touch(@), "lookup")],
                 [skb EXCEPT ![c] = To(Dispose(@), "done")]}
    /\ UNCHANGED kvars

flow_extract_fails(c) ==
    /\ skb[c].pc = "lookup"
    /\ skb' = [skb EXCEPT ![c] = To(Dispose(@), "done")]
    /\ UNCHANGED kvars

\* ovs_flow_tbl_lookup finds a flow ...
flow_hit(c, list) ==
    /\ skb[c].pc = "lookup"
    /\ skb' = [skb EXCEPT ![c] = [To(Touch(@), "execute") EXCEPT !.acts = list]]
    /\ UNCHANGED kvars

\* ... or none: a packet of a local host that is no ARP is searched for in the
\* filters, every other goes to ovs-vswitchd.
flow_miss(c) ==
    /\ skb[c].pc = "lookup"
    /\ \/ /\ ~skb[c].encaped
          /\ \E m \in Mac : scan_begin(c, m)
          /\ skb' = [skb EXCEPT ![c] = To(Touch(@), "scan")]
       \/ /\ skb' = [skb EXCEPT ![c] = To(Touch(@), "upcall")]
          /\ UNCHANGED <<scan, seen>>
    /\ UNCHANGED <<gdt, kmem, filt, nbf, bf_array, cmd, table>>

bf_gdt_check_step(c) ==
    /\ skb[c].pc = "scan"
    /\ scan_count(c) \/ scan_slot(c) \/ scan_bit(c) \/ scan_return(c)
    /\ UNCHANGED skb

\* A filter claims the destination: a flow is made from its id and port.  A
\* NULL from kmalloc passes IS_ERR.
build_flow(c) ==
    /\ scan[c].pc = "hit"
    /\ skb' = [skb EXCEPT ![c] = [To(@, "execute") EXCEPT !.acts = <<"REMOTE">>]]
    /\ scan_end(c)
    /\ gdt' \in {gdt, "oops"}
    /\ UNCHANGED <<kmem, filt, nbf, bf_array, cmd, table>>

scan_miss(c) ==
    /\ scan[c].pc = "miss"
    /\ skb' = [skb EXCEPT ![c] = To(@, "upcall")]
    /\ scan_end(c)
    /\ UNCHANGED <<gdt, kmem, filt, nbf, bf_array, cmd, table>>

\* ovs_dp_upcall queues a copy of the packet or counts it as lost; it is
\* consumed either way.
ovs_dp_upcall(c) ==
    /\ skb[c].pc = "upcall"
    /\ skb' = [skb EXCEPT ![c] = To(Dispose(@), "done")]
    /\ UNCHANGED kvars
-----------------------------------------------------------------------------
\* do_execute_actions.

\* do_remote_encapulation: skb_cow_head may fail, and the packet is freed.  The
\* result is tested the wrong way round and then ignored.
Encapsulated(s) ==
    {Touch(s), [Touch(Dispose(s)) EXCEPT !.nohead = TRUE]}

\* What may become of the packet in its next action.  An output waits for the
\* next action, which makes it send a clone.
Ok(s, out) == [Touch(s) EXCEPT !.acts = Tail(@), !.prev_port = out]

\* sample runs its list on the same packet, now and then.
Sampled(s) ==
    LET ok == Ok(s, FALSE)
    IN  {ok, [ok EXCEPT !.acts = Nested[Head(s.acts)], !.outer = <<ok.acts>> \o @]}

\* An action fails: the packet is freed, and sample passes the error on to the list
\* around it, which frees the packet again.
Failed(s) ==
    [To(Dispose(s), "done") EXCEPT !.gone = @ + Len(s.outer), !.used = @ \/ s.outer # <<>>]

\* A packet that PUSH_VLAN has freed is freed again.
Executed_Mutant(s) ==
    CASE Head(s.acts) = "OUTPUT"    -> {Ok(s, TRUE)}
      [] Head(s.acts) = "REMOTE"    -> {Ok(e, TRUE) : e \in Encapsulated(s)}
      [] Head(s.acts) = "USERSPACE" -> {Ok(s, FALSE)}
      [] Head(s.acts) = "SET"       -> {Ok(s, FALSE), Failed(s)}
      [] Head(s.acts) = "PUSH_VLAN" -> {Ok(s, FALSE), Failed(Dispose(s))}
      [] Head(s.acts) \in Sample    -> Sampled(s)

Executed(s) ==
    CASE Head(s.acts) = "OUTPUT"    -> {Ok(s, TRUE)}
      [] Head(s.acts) = "REMOTE"    -> {Ok(e, TRUE) : e \in Encapsulated(s)}
      [] Head(s.acts) = "USERSPACE" -> {Ok(s, FALSE)}
      [] Head(s.acts) \in {"SET", "PUSH_VLAN"} -> {Ok(s, FALSE), Failed(s)}
      [] Head(s.acts) \in Sample    -> Sampled(s)

do_execute_action(c) ==
    /\ skb[c].pc = "execute"
    /\ skb[c].acts # <<>>
    /\ \E s \in Executed(skb[c]) : skb' = [skb EXCEPT ![c] = s]
    /\ UNCHANGED kvars

\* The last output takes the packet itself; without one it is consumed.  At the end
\* of a list inside SAMPLE it takes a clone, and the list around it goes on.
Ended(s) ==
    IF s.outer = <<>> THEN To(Dispose(s), "done")
    ELSE [Touch(s) EXCEPT !.acts = Head(s.outer), !.outer = Tail(@), !.prev_port = FALSE]

do_execute_end(c) ==
    /\ skb[c].pc = "execute"
    /\ skb[c].acts = <<>>
    /\ skb' = [skb EXCEPT ![c] = Ended(@)]
    /\ UNCHANGED kvars

\* Statistics; the flow that was made for the packet is freed.
done(c) ==
    /\ skb[c].pc = "done"
    /\ skb' = [skb EXCEPT ![c] = NoPacket]
    /\ UNCHANGED kvars
-----------------------------------------------------------------------------
\* The filters that ovs-vswitchd pushes: those of other switches, for the port
\* that leads to them.
Pushed == [bf_id : Id \ {Local}, port_no : {LC_BF_REMOTE_PORT}, array : Arrays]

Command ==
    /\ \/ \E bf \in Pushed : cmd_set(bf) \/ \E p \in Ptr : cmd_new(bf, p)
       \/ store_slot \/ store_count
       \/ \E b \in Bit : copy_bit(b)
       \/ \E id \in Id : cmd_del(id)
       \/ del_move \/ del_clear \/ del_shrink
       \/ flush_bf_gdt
    /\ UNCHANGED skb

Packet(c) ==
    \/ decapulation(c) \/ flow_extract_fails(c)
    \/ \E list \in FlowActions : flow_hit(c, list)
    \/ flow_miss(c)
    \/ bf_gdt_check_step(c) \/ build_flow(c) \/ scan_miss(c)
    \/ ovs_dp_upcall(c)
    \/ do_execute_action(c) \/ do_execute_end(c) \/ done(c)

\* Nothing is said of a kernel that has died.
Next ==
    /\ gdt # "oops"
    /\ \/ Command
       \/ \E c \in Cpu : Packet(c) \/ \E tunnel \in BOOLEAN : ovs_vport_receive(c, tunnel)

\* A processor goes on with the packet it has.
Spec == Init /\ [][Next]_vars /\ \A c \in Cpu : WF_vars(gdt # "oops" /\ Packet(c))
-----------------------------------------------------------------------------
\* Properties.

\* Slots, filters and packets have their types.
TypeOK ==
    /\ gdt \in {"table", "null", "oops"}
    /\ kmem \subseteq Ptr
    /\ filt \in [Ptr -> bloom_filter]
    /\ nbf \in 0 .. BF_GDT_MAX_FILTERS
    /\ bf_array \in [Slot -> Ptr \cup {NULL}]
    /\ \A c \in Cpu : scan[c].i \in 0 .. BF_GDT_MAX_FILTERS + 1 /\ scan[c].j \in 0 .. NFuncs
    /\ \A c \in Cpu :
        skb[c].acts \in Seq(Action) /\ skb[c].outer \in Seq(Seq(Action)) /\ skb[c].gone \in Nat

\* Between commands the slots hold the table that the operators of BfGdt make of
\* the same commands, the table GFib works with.
SlotsMakeTable ==
    cmd = NoCommand =>
        /\ nbf = Len(table)
        /\ \A i \in 1 .. nbf : bf_array[i] \in kmem /\ filt[bf_array[i]] = table[i]
        /\ \A i, k \in 1 .. nbf : bf_array[i] = bf_array[k] => i = k

\* While no filter is deleted a search reads no filter that was freed, although
\* new ones appear and old ones are copied over under it.
SearchReadsLive ==
    \A c \in Cpu : scan[c].pc \in {"bits", "hit"} /\ ~seen[c].del => scan[c].at \in kmem

\* A search finds what was there all the time: it ends without a filter only if
\* none claimed the key from its beginning to its end.
SearchComplete ==
    \A c \in Cpu : scan[c].pc = "miss" /\ ~seen[c].del => seen[c].all = {}

\* It finds nothing that never was there: each bit of the key was set at some
\* moment of the search in the filter it returns.
SearchSound ==
    \A c \in Cpu : scan[c].pc = "hit" /\ ~seen[c].del =>
        \A b \in HashBits(scan[c].key) : <<filt[scan[c].at].bf_id, b>> \in seen[c].bits

\* An action inside a SAMPLE failed: outer still holds the lists that were given up.
FailedInSample(s) == s.pc = "done" /\ s.outer # <<>>

\* No packet leaks.  It is freed or given away exactly once and not used afterwards,
\* whichever action of the flow's own list fails and whatever a SAMPLE does, unless
\* an action inside the SAMPLE failed or there was no memory for a tunnel header: then
\* the code frees it again.
PacketDisposedOnce ==
    \A c \in Cpu :
        /\ skb[c].pc = "done" => skb[c].gone >= 1
        /\ ~skb[c].nohead /\ ~FailedInSample(skb[c]) =>
            ~skb[c].used /\ (skb[c].pc = "done" => skb[c].gone = 1)

\* A packet is done with at some time, however the table changes under its
\* search.
PacketDone ==
    \A c \in Cpu : skb[c].pc # "idle" ~> skb[c].pc = "idle" \/ gdt = "oops"
=============================================================================
