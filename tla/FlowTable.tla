----------------------------- MODULE FlowTable ------------------------------
(***************************************************************************)
(* The kernel's flow table (datapath/flow.c) between the packets that look *)
(* flows up and the netlink commands that change it (datapath/datapath.c). *)
(*                                                                         *)
(* Packets read under rcu_read_lock and take no other lock.  Commands hold *)
(* the genl mutex, so that one runs at a time.  They unlink what they      *)
(* replace and leave it to call_rcu to free it, once every processor that  *)
(* was reading has left its read section.                                  *)
(*                                                                         *)
(* A table is rebuilt to expand it and, every ten minutes, to rehash it.   *)
(* Its flows are not copied: every flow has two list nodes, and the new    *)
(* table links them through the one the old table does not use.            *)
(***************************************************************************)
EXTENDS Naturals

CONSTANTS
    Key,        \* sw_flow_key values
    Bucket,     \* buckets of a table
    Flow,       \* addresses of sw_flow objects
    Acts,       \* addresses of sw_flow_actions objects; an address names its contents
    Table,      \* addresses of flow_table objects
    Cpu,        \* processors that handle packets
    NULL,       \* no flow
    Junk,       \* what uninitialised memory holds
    Pending     \* no answer yet

ASSUME FlowTableAssumption ==
    /\ NULL \notin Flow \cup Acts \cup Table \cup Key \cup Bucket
    /\ Junk \notin Flow \cup Acts \cup Key \cup Bucket \cup {NULL}
    /\ Pending \notin Acts \cup {NULL}
    /\ Flow \cap Acts = {} /\ Flow \cap Table = {} /\ Acts \cap Table = {}
    /\ Flow \cap Bucket = {}

VARIABLES
    mem,        \* the addresses that are allocated
    table,      \* dp->table
    tbl,        \* tbl[t]: the flow_table at address t
    flow,       \* flow[f]: the sw_flow at address f
    rcu,        \* callbacks registered with call_rcu that have not run
    cmd,        \* what the holder of the genl mutex is doing
    cpu,        \* cpu[c]: what processor c is doing
    look        \* history: look[c], what its lookup may answer and answers

vars == <<mem, table, tbl, flow, rcu, cmd, cpu, look>>

\* The two list nodes of a flow.
Ver == {0, 1}

\* ovs_flow_tbl_alloc; "flows" is the set that table->count counts.  The mutant
\* forgets INIT_HLIST_HEAD.
NewTable_Mutant(v, where) ==
    [node_ver |-> v, keep_flows |-> FALSE, flows |-> {},
     head |-> [b \in Bucket |-> Junk], bucket |-> where]

NewTable(v, where) ==
    [node_ver |-> v, keep_flows |-> FALSE, flows |-> {},
     head |-> [b \in Bucket |-> NULL], bucket |-> where]

\* ovs_flow_alloc leaves the list nodes uninitialised.
NewFlow(k, a) ==
    [key |-> k, sf_acts |-> a, next |-> [v \in Ver |-> Junk], pprev |-> [v \in Ver |-> Junk]]

\* The contents of freed memory are never looked at.
AnyWhere == CHOOSE where \in [Key -> Bucket] : TRUE
OldTable == NewTable(0, AnyWhere)
OldFlow == NewFlow(Junk, Junk)

Idle == [pc |-> "idle", key |-> NULL, tbl |-> NULL, at |-> NULL]
NoCommand == [op |-> "none", key |-> NULL, new |-> NULL, left |-> {}]

\* The map from keys to actions that the table stands for.
FlowsFor(k) == {f \in tbl[table].flows : flow[f].key = k}

map ==
    [k \in Key |-> IF FlowsFor(k) = {} THEN NULL
                   ELSE flow[CHOOSE f \in FlowsFor(k) : TRUE].sf_acts]

\* The history of a processor without a packet, and one whose packet has no
\* answer yet.
NoLook == [key |-> NULL, may |-> {}, links |-> "good", answer |-> Pending]
Looking(c) == look[c].key # NULL /\ look[c].answer = Pending

Init ==
    /\ table \in Table
    /\ mem = {table}
    /\ \E where \in [Key -> Bucket] :
        tbl = [t \in Table |-> IF t = table THEN NewTable(0, where) ELSE OldTable]
    /\ flow = [f \in Flow |-> OldFlow]
    /\ rcu = {}
    /\ cmd = NoCommand
    /\ cpu = [c \in Cpu |-> Idle]
    /\ look = [c \in Cpu |-> NoLook]
-----------------------------------------------------------------------------
\* RCU.

Reading == {c \in Cpu : cpu[c].pc # "idle"}

\* call_rcu: an object is freed when those who read now have left.  The mutant
\* frees it at once.
Callback_Mutant(kind, obj) == [kind |-> kind, obj |-> obj, wait |-> {}]

Callback(kind, obj) == [kind |-> kind, obj |-> obj, wait |-> Reading]

\* A grace period is over for one callback.  A table that was flushed takes
\* its flows with it; one that was rebuilt leaves them to its successor.
rcu_callback(cb) ==
    /\ cb \in rcu
    /\ cb.wait = {}
    /\ rcu' = rcu \ {cb}
    /\ LET ts == IF cb.kind = "table" THEN {cb.obj} ELSE {}
           fs == IF cb.kind = "flow" THEN {cb.obj}
                 ELSE UNION {tbl[t].flows : t \in {u \in ts : ~tbl[u].keep_flows}}
           as == IF cb.kind = "acts" THEN {cb.obj} ELSE {flow[f].sf_acts : f \in fs}
       IN  /\ mem' = mem \ (ts \cup fs \cup as)
           /\ tbl' = [t \in Table |-> IF t \in ts THEN OldTable ELSE tbl[t]]
           /\ flow' = [f \in Flow |-> IF f \in fs THEN OldFlow ELSE flow[f]]
    /\ UNCHANGED <<table, cmd, cpu, look>>
-----------------------------------------------------------------------------
\* Lists.  A node is linked from another flow or from the head of its bucket.

\* hlist_add_head_rcu: flow f becomes the first of its bucket in table t; fl
\* are the flows to begin with.
FlowsWith(fl, t, f) ==
    LET v == tbl[t].node_ver
        b == tbl[t].bucket[fl[f].key]
        first == tbl[t].head[b]
        linked == [fl EXCEPT ![f].next[v] = first, ![f].pprev[v] = b]
    IN  IF first = NULL THEN linked ELSE [linked EXCEPT ![first].pprev[v] = f]

TableWith(t, f, k) ==
    [tbl[t] EXCEPT !.head[tbl[t].bucket[k]] = f, !.flows = @ \cup {f}]

\* hlist_del_rcu: f is bypassed.  Its own next pointer stays, for the readers
\* that are at f; the mutant, hlist_del_init, clears it.
FlowsWithout_Mutant(t, f) ==
    LET v == tbl[t].node_ver
        n == flow[f].next[v]
        p == flow[f].pprev[v]
        cleared == [flow EXCEPT ![f].next[v] = NULL]
        bypassed == IF p \in Flow THEN [cleared EXCEPT ![p].next[v] = n] ELSE cleared
    IN  IF n = NULL THEN bypassed ELSE [bypassed EXCEPT ![n].pprev[v] = p]

FlowsWithout(t, f) ==
    LET v == tbl[t].node_ver
        n == flow[f].next[v]
        p == flow[f].pprev[v]
        bypassed == IF p \in Flow THEN [flow EXCEPT ![p].next[v] = n] ELSE flow
    IN  IF n = NULL THEN bypassed ELSE [bypassed EXCEPT ![n].pprev[v] = p]

TableWithout(t, f) ==
    LET v == tbl[t].node_ver
        p == flow[f].pprev[v]
    IN  [tbl[t] EXCEPT !.flows = @ \ {f},
                       !.head = [b \in Bucket |-> IF p = b THEN flow[f].next[v] ELSE @[b]]]
-----------------------------------------------------------------------------
\* Commands, with the genl mutex held.

\* The lookups under way may answer with what the map says from now on.
Watch ==
    look' = [c \in Cpu |-> IF Looking(c)
                           THEN [look[c] EXCEPT !.may = @ \cup {map'[look[c].key]}]
                           ELSE look[c]]

\* A rebuild begins: ovs_flow_tbl_expand, before the flow of a new key is
\* inserted, or ovs_flow_tbl_rehash.  Where keys land is as random as the
\* new table's hash seed.
flow_tbl_rehash(t, where, k) ==
    /\ cmd = NoCommand
    /\ t \notin mem
    /\ k # NULL => FlowsFor(k) = {}
    /\ mem' = mem \cup {t}
    /\ tbl' = [tbl EXCEPT ![t] = NewTable(1 - tbl[table].node_ver, where)]
    /\ cmd' = [op |-> "rehash", key |-> k, new |-> t, left |-> tbl[table].flows]
    /\ look' = [c \in Cpu |-> IF Looking(c) /\ look[c].links = "spare"
                              THEN [look[c] EXCEPT !.links = "reused"] ELSE look[c]]
    /\ UNCHANGED <<table, flow, rcu, cpu>>

\* flow_table_copy_flows links the flows one after the other.  Their order is
\* that of the old buckets, which is random too.
flow_table_copy_flow(f) ==
    /\ cmd.op = "rehash"
    /\ f \in cmd.left
    /\ flow' = FlowsWith(flow, cmd.new, f)
    /\ tbl' = [tbl EXCEPT ![cmd.new] = TableWith(cmd.new, f, flow[f].key)]
    /\ cmd' = [cmd EXCEPT !.left = @ \ {f}]
    /\ UNCHANGED <<mem, table, rcu, cpu, look>>

\* The new table is published and the old one left to RCU, without its flows.
\* The mutant forgets keep_flows.
flow_tbl_publish_Mutant ==
    /\ cmd.op = "rehash"
    /\ cmd.left = {}
    /\ table' = cmd.new
    /\ rcu' = rcu \cup {Callback("table", table)}
    /\ cmd' = IF cmd.key = NULL THEN NoCommand
              ELSE [cmd EXCEPT !.op = "insert", !.new = NULL]
    /\ look' = [c \in Cpu |-> IF Looking(c) /\ look[c].links = "good"
                              THEN [look[c] EXCEPT !.links = "spare"] ELSE look[c]]
    /\ UNCHANGED <<mem, tbl, flow, cpu>>

flow_tbl_publish ==
    /\ cmd.op = "rehash"
    /\ cmd.left = {}
    /\ tbl' = [tbl EXCEPT ![table].keep_flows = TRUE]
    /\ table' = cmd.new
    /\ rcu' = rcu \cup {Callback("table", table)}
    /\ cmd' = IF cmd.key = NULL THEN NoCommand
              ELSE [cmd EXCEPT !.op = "insert", !.new = NULL]
    /\ look' = [c \in Cpu |-> IF Looking(c) /\ look[c].links = "good"
                              THEN [look[c] EXCEPT !.links = "spare"] ELSE look[c]]
    /\ UNCHANGED <<mem, flow, cpu>>

\* ovs_flow_cmd_new_or_set for a key without a flow, with or without a rebuild
\* before.
ovs_flow_cmd_new(k, f, s) ==
    /\ cmd = NoCommand \/ (cmd.op = "insert" /\ cmd.key = k)
    /\ FlowsFor(k) = {}
    /\ f \notin mem /\ s \notin mem
    /\ mem' = mem \cup {f, s}
    /\ flow' = FlowsWith([flow EXCEPT ![f] = NewFlow(k, s)], table, f)
    /\ tbl' = [tbl EXCEPT ![table] = TableWith(table, f, k)]
    /\ cmd' = NoCommand
    /\ UNCHANGED <<table, rcu, cpu>>
    /\ Watch

\* The memory for the flow or its actions cannot be had.
ovs_flow_cmd_new_fails ==
    /\ cmd.op = "insert"
    /\ cmd' = NoCommand
    /\ UNCHANGED <<mem, table, tbl, flow, rcu, cpu, look>>

\* ovs_flow_cmd_new_or_set for a flow whose actions change.
ovs_flow_cmd_set(f, s) ==
    /\ cmd = NoCommand
    /\ f \in tbl[table].flows
    /\ s \notin mem
    /\ mem' = mem \cup {s}
    /\ flow' = [flow EXCEPT ![f].sf_acts = s]
    /\ rcu' = rcu \cup {Callback("acts", flow[f].sf_acts)}
    /\ UNCHANGED <<table, tbl, cmd, cpu>>
    /\ Watch

ovs_flow_cmd_del(f) ==
    /\ cmd = NoCommand
    /\ f \in tbl[table].flows
    /\ flow' = FlowsWithout(table, f)
    /\ tbl' = [tbl EXCEPT ![table] = TableWithout(table, f)]
    /\ rcu' = rcu \cup {Callback("flow", f)}
    /\ UNCHANGED <<mem, table, cmd, cpu>>
    /\ Watch

flush_flows(t, where) ==
    /\ cmd = NoCommand
    /\ t \notin mem
    /\ mem' = mem \cup {t}
    /\ tbl' = [tbl EXCEPT ![t] = NewTable(0, where)]
    /\ table' = t
    /\ rcu' = rcu \cup {Callback("table", table)}
    /\ UNCHANGED <<flow, cmd, cpu>>
    /\ Watch
-----------------------------------------------------------------------------
\* Packets: ovs_dp_process_received_packet, inside rcu_read_lock.

\* rcu_dereference(dp->table).
receive(c, k) ==
    /\ cpu[c] = Idle
    /\ cpu' = [cpu EXCEPT ![c] = [pc |-> "bucket", key |-> k, tbl |-> table, at |-> NULL]]
    /\ look' = [look EXCEPT ![c] = [key |-> k, may |-> {map[k]}, links |-> "good",
                                    answer |-> Pending]]
    /\ UNCHANGED <<mem, table, tbl, flow, rcu, cmd>>

\* ovs_flow_tbl_lookup, first step: the head of the bucket.
find_bucket(c) ==
    /\ cpu[c].pc = "bucket"
    /\ LET t == tbl[cpu[c].tbl]
       IN  cpu' = [cpu EXCEPT ![c].pc = "lookup", ![c].at = t.head[t.bucket[cpu[c].key]]]
    /\ UNCHANGED <<mem, table, tbl, flow, rcu, cmd, look>>

\* ovs_flow_tbl_lookup, next steps: one flow of the list after the other.
lookup_next(c) ==
    /\ cpu[c].pc = "lookup"
    /\ cpu[c].at # NULL
    /\ LET f == flow[cpu[c].at]
       IN  cpu' = IF f.key = cpu[c].key THEN [cpu EXCEPT ![c].pc = "found"]
                  ELSE [cpu EXCEPT ![c].at = f.next[tbl[cpu[c].tbl].node_ver]]
    /\ UNCHANGED <<mem, table, tbl, flow, rcu, cmd, look>>

\* The list is at its end: the packet goes to the G-FIB or to ovs-vswitchd.
lookup_miss(c) ==
    /\ cpu[c].pc = "lookup"
    /\ cpu[c].at = NULL
    /\ cpu' = [cpu EXCEPT ![c].pc = "miss"]
    /\ look' = [look EXCEPT ![c].answer = NULL]
    /\ UNCHANGED <<mem, table, tbl, flow, rcu, cmd>>

\* ovs_execute_actions reads the flow's actions ...
execute_actions(c) ==
    /\ cpu[c].pc = "found"
    /\ LET s == flow[cpu[c].at].sf_acts
       IN  /\ cpu' = [cpu EXCEPT ![c].pc = "run", ![c].at = s]
           /\ look' = [look EXCEPT ![c].answer = s]
    /\ UNCHANGED <<mem, table, tbl, flow, rcu, cmd>>

\* ... executes them, and the packet is done: rcu_read_unlock.
rcu_read_unlock(c) ==
    /\ cpu[c].pc \in {"miss", "run"}
    /\ cpu' = [cpu EXCEPT ![c] = Idle]
    /\ look' = [look EXCEPT ![c] = NoLook]
    /\ rcu' = {[cb EXCEPT !.wait = @ \ {c}] : cb \in rcu}
    /\ UNCHANGED <<mem, table, tbl, flow, cmd>>
-----------------------------------------------------------------------------
Command ==
    \/ \E t \in Table, where \in [Key -> Bucket] :
        \/ \E k \in Key \cup {NULL} : flow_tbl_rehash(t, where, k)
        \/ flush_flows(t, where)
    \/ \E f \in Flow : flow_table_copy_flow(f)
    \/ flow_tbl_publish
    \/ \E k \in Key, f \in Flow, s \in Acts : ovs_flow_cmd_new(k, f, s)
    \/ ovs_flow_cmd_new_fails
    \/ \E f \in Flow, s \in Acts : ovs_flow_cmd_set(f, s)
    \/ \E f \in Flow : ovs_flow_cmd_del(f)

Packet(c) ==
    \/ \E k \in Key : receive(c, k)
    \/ find_bucket(c)
    \/ lookup_next(c)
    \/ lookup_miss(c)
    \/ execute_actions(c)
    \/ rcu_read_unlock(c)

Next ==
    \/ Command
    \/ \E c \in Cpu : Packet(c)
    \/ \E cb \in rcu : rcu_callback(cb)

Spec == Init /\ [][Next]_vars
-----------------------------------------------------------------------------
\* Properties.

\* The fields of tables, flows and callbacks hold what their C types say.
TypeOK ==
    /\ mem \subseteq Table \cup Flow \cup Acts
    /\ table \in Table
    /\ \A t \in Table :
        /\ tbl[t].node_ver \in Ver
        /\ tbl[t].keep_flows \in BOOLEAN
        /\ tbl[t].flows \subseteq Flow
        /\ tbl[t].head \in [Bucket -> Flow \cup {NULL}]
        /\ tbl[t].bucket \in [Key -> Bucket]
    /\ \A f \in Flow :
        /\ flow[f].key \in Key \cup {Junk}
        /\ flow[f].sf_acts \in Acts \cup {Junk}
        /\ flow[f].next \in [Ver -> Flow \cup {NULL, Junk}]
        /\ flow[f].pprev \in [Ver -> Flow \cup Bucket \cup {Junk}]
    /\ \A cb \in rcu :
        /\ cb.wait \subseteq Cpu
        /\ <<cb.kind, cb.obj>> \in ({"table"} \X Table) \cup ({"flow"} \X Flow)
                                   \cup ({"acts"} \X Acts)
    /\ cmd.op \in {"none", "rehash", "insert"}
    /\ \A c \in Cpu : cpu[c].pc \in {"idle", "bucket", "lookup", "found", "miss", "run"}

\* What a processor is about to read.
Reads(c) ==
    CASE cpu[c].pc = "bucket" -> {cpu[c].tbl}
      [] cpu[c].pc = "lookup" -> {cpu[c].tbl, cpu[c].at} \ {NULL}
      [] cpu[c].pc \in {"found", "run"} -> {cpu[c].at}
      [] OTHER -> {}

\* No packet reads a table, a flow or actions that were freed, nor follows a
\* list node that was never initialised, however commands, rebuilds and grace
\* periods fall around it.
NoReadAfterFree == \A c \in Cpu : Reads(c) \subseteq mem

\* A callback that will free flow f, actions a, table t.
FreesFlow(cb, f) ==
    \/ cb.kind = "flow" /\ cb.obj = f
    \/ cb.kind = "table" /\ ~tbl[cb.obj].keep_flows /\ f \in tbl[cb.obj].flows
FreesActs(cb, a) == cb.kind = "acts" /\ cb.obj = a
FreesTable(cb, t) == cb.kind = "table" /\ cb.obj = t

\* Object x is in memory when it is in use or a callback will free it, never both
\* and never two callbacks.
Owned(x, used, doom) ==
    /\ x \in mem <=> used \/ doom # {}
    /\ ~(used /\ doom # {})
    /\ \A cb1, cb2 \in doom : cb1 = cb2

\* Nothing leaks and nothing is freed twice, however rebuilds, which let two
\* tables share their flows, fall between deletions, changes and flushes.
OneOwner ==
    /\ \A f \in Flow :
        Owned(f, f \in tbl[table].flows, {cb \in rcu : FreesFlow(cb, f)})
    /\ \A a \in Acts :
        Owned(a, \E f \in Flow \cap mem : flow[f].sf_acts = a, {cb \in rcu : FreesActs(cb, a)})
    /\ \A f, g \in Flow \cap mem : flow[f].sf_acts = flow[g].sf_acts => f = g
    /\ \A t \in Table :
        Owned(t, t \in {table, cmd.new}, {cb \in rcu : FreesTable(cb, t)})

\* What the table stands for, to packets and to ovs-vswitchd.
Promise == INSTANCE FlowMap WITH NoFlow <- NULL, Action <- Acts

\* The table keeps the promise of FlowMap: a packet is handled by actions that
\* its key had at some moment of its lookup, and misses a flow that was there
\* throughout only if one rebuild ended and another began meanwhile.
Refines == Promise!Spec
=============================================================================
