-------------------------- MODULE FlowTableProofs ---------------------------
(***************************************************************************)
(* Everything in the flow table's memory has one owner, and packets never  *)
(* read freed memory or uninitialised list nodes, for any number of        *)
(* processors, keys, buckets, flows and tables.                            *)
(*                                                                         *)
(* What commands and callbacks keep among themselves is Store: the owners  *)
(* of flows, actions and tables; what a rebuild has copied so far          *)
(* (CommandOK); and doubly linked lists in the current table and in the    *)
(* one being built (Linked), so that a deletion bypasses the flow.         *)
(*                                                                         *)
(* A packet that began before a flow was deleted is in the wait set of the *)
(* callback that will free it: for this packet, deleted flows are as safe  *)
(* as live ones (Safe).  It reads the list nodes of the version its table  *)
(* uses.  Flows that have such a node (Good) lead to one another only,     *)
(* even when a later rebuild uses the same nodes for a new table           *)
(* (ReaderOK).  A packet that begins later meets live flows only, because  *)
(* the current table's lists do not lead to others (Linked, in Store).     *)
(***************************************************************************)
EXTENDS FlowTable, TLAPS

USE Zenon

TableObj ==
    [node_ver : Ver, keep_flows : BOOLEAN, flows : SUBSET Flow,
     head : [Bucket -> Flow \cup {NULL}], bucket : [Key -> Bucket]]

FlowObj ==
    [key : Key \cup {Junk}, sf_acts : Acts \cup {Junk},
     next : [Ver -> Flow \cup {NULL, Junk}], pprev : [Ver -> Flow \cup Bucket \cup {Junk}]]

CallbackObj ==
    {cb \in [kind : {"table", "flow", "acts"}, obj : Table \cup Flow \cup Acts, wait : SUBSET Cpu] :
        /\ cb.kind = "table" => cb.obj \in Table
        /\ cb.kind = "flow" => cb.obj \in Flow
        /\ cb.kind = "acts" => cb.obj \in Acts}

\* The flows of the current table.
Live == tbl[table].flows

Typed ==
    /\ mem \subseteq Table \cup Flow \cup Acts
    /\ table \in Table
    /\ tbl \in [Table -> TableObj]
    /\ flow \in [Flow -> FlowObj]
    /\ rcu \subseteq CallbackObj
    /\ cmd \in [op : {"none", "rehash", "insert"}, key : Key \cup {NULL},
                new : Table \cup {NULL}, left : SUBSET Flow]

\* The table being built holds what has been copied, through the other nodes.
CommandOK ==
    /\ ~tbl[table].keep_flows
    /\ cmd.op # "rehash" => cmd.new = NULL
    /\ cmd.op = "rehash" =>
        /\ cmd.new \in Table \ {table}
        /\ cmd.left \subseteq Live
        /\ ~tbl[cmd.new].keep_flows
        /\ tbl[cmd.new].flows = Live \ cmd.left
        /\ tbl[cmd.new].node_ver = 1 - tbl[table].node_ver

Filled == \A f \in Flow \cap mem : flow[f].sf_acts \in Acts /\ flow[f].key \in Key

\* Lists of the flows S, linked through node v of each.
List(fl, S, v, head) ==
    /\ \A b \in Bucket : head[b] # NULL => head[b] \in S /\ fl[head[b]].pprev[v] = b
    /\ \A f \in S : fl[f].next[v] # NULL =>
        fl[f].next[v] \in S /\ fl[fl[f].next[v]].pprev[v] = f

Linked(t) == List(flow, tbl[t].flows, tbl[t].node_ver, tbl[t].head)

\* OneOwner, one kind of object at a time.
Used(a) == \E f \in Flow \cap mem : flow[f].sf_acts = a

FlowsOwned == \A f \in Flow :
    /\ f \in mem <=> f \in Live \/ \E cb \in rcu : FreesFlow(cb, f)
    /\ \A cb \in rcu : FreesFlow(cb, f) =>
        f \notin Live /\ \A other \in rcu : FreesFlow(other, f) => other = cb
ActsOwned == \A a \in Acts :
    /\ a \in mem <=> Used(a) \/ \E cb \in rcu : FreesActs(cb, a)
    /\ \A cb \in rcu : FreesActs(cb, a) =>
        ~Used(a) /\ \A other \in rcu : FreesActs(other, a) => other = cb
ActsApart == \A f, g \in Flow \cap mem : flow[f].sf_acts = flow[g].sf_acts => f = g
TablesOwned == \A t \in Table :
    /\ t \in mem <=> t \in {table, cmd.new} \/ \E cb \in rcu : FreesTable(cb, t)
    /\ \A cb \in rcu : FreesTable(cb, t) =>
        t \notin {table, cmd.new} /\ \A other \in rcu : FreesTable(other, t) => other = cb

\* What commands and callbacks keep among themselves.
Store ==
    /\ Typed /\ CommandOK /\ Filled
    /\ FlowsOwned /\ ActsOwned /\ ActsApart /\ TablesOwned
    /\ Linked(table)
    /\ cmd.op = "rehash" => Linked(cmd.new)

-----------------------------------------------------------------------------
\* Objects.

\* Replacing one table by a well-typed one keeps tbl well typed.
LEMMA TableType ==
    ASSUME NEW where \in [Key -> Bucket], NEW v \in Ver
    PROVE  NewTable(v, where) \in TableObj /\ OldTable \in TableObj
<1>1. AnyWhere \in [Key -> Bucket]
  BY DEF AnyWhere
<1> QED
  BY <1>1 DEF NewTable, OldTable, TableObj, Ver

\* Replacing one flow by a well-typed one keeps flow well typed.
LEMMA FlowType ==
    /\ OldFlow \in FlowObj
    /\ \A k \in Key, a \in Acts : NewFlow(k, a) \in FlowObj
BY DEF OldFlow, NewFlow, FlowObj

\* What changes when f is added to a list of nodes v before the flow first, or
\* in the empty bucket b, and when it is removed.
Added(fl, r, f, v, b, first) ==
    /\ r \in [Flow -> FlowObj]
    /\ \A g \in Flow : r[g].key = fl[g].key /\ r[g].sf_acts = fl[g].sf_acts
    /\ \A g \in Flow, w \in Ver : g # f \/ w # v => r[g].next[w] = fl[g].next[w]
    /\ \A g \in Flow, w \in Ver :
        (g # f /\ g # first) \/ w # v => r[g].pprev[w] = fl[g].pprev[w]
    /\ r[f].next[v] = first /\ r[f].pprev[v] = b
    /\ first # NULL => r[first].pprev[v] = f

Removed(fl, r, n, p, v) ==
    /\ r \in [Flow -> FlowObj]
    /\ \A g \in Flow : r[g].key = fl[g].key /\ r[g].sf_acts = fl[g].sf_acts
    /\ \A g \in Flow, w \in Ver : g # p \/ w # v => r[g].next[w] = fl[g].next[w]
    /\ \A g \in Flow, w \in Ver : g # n \/ w # v => r[g].pprev[w] = fl[g].pprev[w]
    /\ p \in Flow => r[p].next[v] = n
    /\ n # NULL => r[n].pprev[v] = p

Bypass(head, n, p) == [b \in Bucket |-> IF p = b THEN n ELSE head[b]]

\* FlowsWith, hlist_add_head_rcu on the flows, is what Added says.
LEMMA FlowsWithAdds ==
    ASSUME NEW fl \in [Flow -> FlowObj], NEW t \in Table, tbl \in [Table -> TableObj],
           NEW f \in Flow, fl[f].key \in Key, tbl[t].head[tbl[t].bucket[fl[f].key]] # f
    PROVE  Added(fl, FlowsWith(fl, t, f), f, tbl[t].node_ver, tbl[t].bucket[fl[f].key],
                 tbl[t].head[tbl[t].bucket[fl[f].key]])
<1> DEFINE v == tbl[t].node_ver
           b == tbl[t].bucket[fl[f].key]
           first == tbl[t].head[b]
           linked == [fl EXCEPT ![f].next[v] = first, ![f].pprev[v] = b]
           both == [linked EXCEPT ![first].pprev[v] = f]
<1>1. v \in Ver /\ b \in Bucket /\ first \in Flow \cup {NULL}
  BY ZenonT(30) DEF TableObj
<1>2. FlowsWith(fl, t, f) = IF first = NULL THEN linked ELSE both
  BY DEF FlowsWith
<1> HIDE DEF v, b, first
<1>3. /\ linked \in [Flow -> FlowObj]
      /\ \A g \in Flow : linked[g].key = fl[g].key /\ linked[g].sf_acts = fl[g].sf_acts
      /\ \A g \in Flow, w \in Ver : g # f \/ w # v =>
            linked[g].next[w] = fl[g].next[w] /\ linked[g].pprev[w] = fl[g].pprev[w]
      /\ linked[f].next[v] = first /\ linked[f].pprev[v] = b
  BY <1>1, ZenonT(30) DEF FlowObj
<1>31. linked \in [Flow -> FlowObj]
  BY <1>3
<1> HIDE DEF linked
<1>4. ASSUME first # NULL
      PROVE  /\ both \in [Flow -> FlowObj]
             /\ \A g \in Flow : both[g].key = linked[g].key /\ both[g].sf_acts = linked[g].sf_acts
             /\ \A g \in Flow, w \in Ver : both[g].next[w] = linked[g].next[w]
             /\ \A g \in Flow, w \in Ver : g # first \/ w # v =>
                    both[g].pprev[w] = linked[g].pprev[w]
             /\ both[first].pprev[v] = f
  BY <1>1, <1>31, <1>4, ZenonT(30) DEF FlowObj
<1> HIDE DEF both
<1>5. CASE first = NULL
  <2>1. FlowsWith(fl, t, f) = linked
    BY <1>2, <1>5
  <2> QED
    BY <1>1, <1>3, <1>5, <2>1 DEF v, b, first, Added
<1>6. CASE first # NULL
  <2>1. FlowsWith(fl, t, f) = both
    BY <1>2, <1>6
  <2>2. \A g \in Flow : both[g].key = fl[g].key /\ both[g].sf_acts = fl[g].sf_acts
    BY <1>3, <1>4, <1>6, ZenonT(30)
  <2>3. \A g \in Flow, w \in Ver : g # f \/ w # v => both[g].next[w] = fl[g].next[w]
    BY ONLY <1>3, <1>4, <1>6, SMT
  <2>4. \A g \in Flow, w \in Ver :
            (g # f /\ g # first) \/ w # v => both[g].pprev[w] = fl[g].pprev[w]
    BY ONLY <1>3, <1>4, <1>6, SMT
  <2>5. both[f].next[v] = first /\ both[f].pprev[v] = b
    BY <1>1, <1>3, <1>4, <1>6, ZenonT(30) DEF v, b, first
  <2> QED
    BY <1>4, <1>6, <2>1, <2>2, <2>3, <2>4, <2>5, ZenonT(60) DEF v, b, first, Added
<1> QED
  BY <1>5, <1>6

\* FlowsWithout, hlist_del_rcu on the flows, is what Removed says.
LEMMA FlowsWithoutRemoves ==
    ASSUME Typed, NEW t \in Table, NEW f \in Flow,
           flow[f].next[tbl[t].node_ver] \in Flow \cup {NULL}
    PROVE  Removed(flow, FlowsWithout(t, f), flow[f].next[tbl[t].node_ver],
                   flow[f].pprev[tbl[t].node_ver], tbl[t].node_ver)
<1> DEFINE v == tbl[t].node_ver
           n == flow[f].next[v]
           p == flow[f].pprev[v]
           skip == [flow EXCEPT ![p].next[v] = n]
           bypassed == IF p \in Flow THEN skip ELSE flow
           both == [bypassed EXCEPT ![n].pprev[v] = p]
<1>1. v \in Ver /\ n \in Flow \cup {NULL} /\ p \in Flow \cup Bucket \cup {Junk}
  BY SMT DEF Typed, TableObj, FlowObj
<1>2. FlowsWithout(t, f) = IF n = NULL THEN bypassed ELSE both
  BY DEF FlowsWithout
<1>3. flow \in [Flow -> FlowObj]
  BY DEF Typed
<1> HIDE DEF v, n, p
<1>4. ASSUME p \in Flow
      PROVE  /\ skip \in [Flow -> FlowObj]
             /\ \A g \in Flow : skip[g].key = flow[g].key /\ skip[g].sf_acts = flow[g].sf_acts
             /\ \A g \in Flow, w \in Ver : skip[g].pprev[w] = flow[g].pprev[w]
             /\ \A g \in Flow, w \in Ver : g # p \/ w # v => skip[g].next[w] = flow[g].next[w]
             /\ skip[p].next[v] = n
  BY <1>1, <1>3, <1>4, ZenonT(30) DEF FlowObj
<1> HIDE DEF skip
<1>5. /\ bypassed \in [Flow -> FlowObj]
      /\ \A g \in Flow : bypassed[g].key = flow[g].key /\ bypassed[g].sf_acts = flow[g].sf_acts
      /\ \A g \in Flow, w \in Ver : bypassed[g].pprev[w] = flow[g].pprev[w]
      /\ \A g \in Flow, w \in Ver : g # p \/ w # v => bypassed[g].next[w] = flow[g].next[w]
      /\ p \in Flow => bypassed[p].next[v] = n
  BY <1>3, <1>4
<1>51. bypassed \in [Flow -> FlowObj]
  BY <1>5
<1> HIDE DEF bypassed
<1>6. ASSUME n # NULL
      PROVE  /\ both \in [Flow -> FlowObj]
             /\ \A g \in Flow : both[g].key = bypassed[g].key
                                /\ both[g].sf_acts = bypassed[g].sf_acts
             /\ \A g \in Flow, w \in Ver : both[g].next[w] = bypassed[g].next[w]
             /\ \A g \in Flow, w \in Ver : g # n \/ w # v =>
                    both[g].pprev[w] = bypassed[g].pprev[w]
             /\ both[n].pprev[v] = p
  BY <1>1, <1>51, <1>6, ZenonT(30) DEF FlowObj
<1> HIDE DEF both
<1>7. CASE n = NULL
  <2>1. FlowsWithout(t, f) = bypassed
    BY <1>2, <1>7
  <2> QED
    BY <1>5, <1>7, <2>1 DEF v, n, p, Removed
<1>8. CASE n # NULL
  <2>1. FlowsWithout(t, f) = both
    BY <1>2, <1>8
  <2>2. \A g \in Flow : both[g].key = flow[g].key /\ both[g].sf_acts = flow[g].sf_acts
    BY <1>5, <1>6, <1>8
  <2>3. \A g \in Flow, w \in Ver : g # p \/ w # v => both[g].next[w] = flow[g].next[w]
    BY <1>5, <1>6, <1>8, SMT
  <2>4. \A g \in Flow, w \in Ver : g # n \/ w # v => both[g].pprev[w] = flow[g].pprev[w]
    BY <1>5, <1>6, <1>8, SMT
  <2>5. p \in Flow => both[p].next[v] = n
    BY <1>1, <1>5, <1>6, <1>8
  <2> QED
    BY <1>6, <1>8, <2>1, <2>2, <2>3, <2>4, <2>5, ZenonT(30) DEF v, n, p, Removed
<1> QED
  BY <1>7, <1>8

\* The first flow of a bucket is one of the list's.
LEMMA ListFirst ==
    ASSUME NEW fl, NEW S \in SUBSET Flow, NEW v, NEW head, List(fl, S, v, head),
           NEW b \in Bucket, NEW f \in Flow \ S
    PROVE  head[b] \in S \cup {NULL} /\ head[b] # f
BY FlowTableAssumption, SMT DEF List

\* Lists stay linked when f is added to the front of one, ...
LEMMA ListWith ==
    ASSUME NEW fl, NEW r, NEW S \in SUBSET Flow, NEW v \in Ver, NEW b \in Bucket,
           NEW head \in [Bucket -> Flow \cup {NULL}], List(fl, S, v, head),
           NEW f \in Flow \ S, Added(fl, r, f, v, b, head[b])
    PROVE  List(r, S \cup {f}, v, [head EXCEPT ![b] = f])
<1>0. /\ \A g \in S : r[g].next[v] = fl[g].next[v]
      /\ \A g \in S : g # head[b] => r[g].pprev[v] = fl[g].pprev[v]
      /\ r[f].next[v] = head[b] /\ r[f].pprev[v] = b
      /\ head[b] # NULL => r[head[b]].pprev[v] = f
  BY ZenonT(30) DEF Added
<1>1. ASSUME NEW a \in Bucket, a # b, head[a] # NULL
      PROVE  head[a] \in S /\ r[head[a]].pprev[v] = a
  BY <1>0, <1>1, SMT DEF List
<1>2. ASSUME NEW g \in S, fl[g].next[v] # NULL
      PROVE  fl[g].next[v] \in S /\ r[fl[g].next[v]].pprev[v] = g
  <2>1. fl[g].next[v] \in S /\ fl[fl[g].next[v]].pprev[v] = g
    BY <1>2 DEF List
  <2>2. g \notin Bucket
    BY FlowTableAssumption
  <2>3. fl[g].next[v] # head[b]
    BY <2>1, <2>2, FlowTableAssumption, SMT DEF List
  <2> QED
    BY <1>0, <2>1, <2>3
<1>3. head[b] # NULL => head[b] \in S
  BY DEF List
<1> QED
  BY <1>0, <1>1, <1>2, <1>3, ZenonT(60) DEF List

\* ... when f is taken out of one, ...
LEMMA ListWithout ==
    ASSUME NEW fl, NEW r, NEW S \in SUBSET Flow, NEW v \in Ver,
           NEW head \in [Bucket -> Flow \cup {NULL}], List(fl, S, v, head),
           NEW f \in S, Removed(fl, r, fl[f].next[v], fl[f].pprev[v], v)
    PROVE  List(r, S \ {f}, v, Bypass(head, fl[f].next[v], fl[f].pprev[v]))
<1> DEFINE n == fl[f].next[v]
           p == fl[f].pprev[v]
<1>b. n = fl[f].next[v] /\ p = fl[f].pprev[v]
  OBVIOUS
<1>a. /\ \A g \in S : g # p => r[g].next[v] = fl[g].next[v]
      /\ \A g \in S : g # n => r[g].pprev[v] = fl[g].pprev[v]
      /\ p \in Flow => r[p].next[v] = n
      /\ n # NULL => r[n].pprev[v] = p
  BY DEF Removed
<1> HIDE DEF n, p
<1> DEFINE new == [b \in Bucket |-> IF p = b THEN n ELSE head[b]]
<1>0. n # NULL => n \in S /\ fl[n].pprev[v] = f
  BY <1>b DEF List
<1>1. n = f => p = f
  BY <1>0, <1>b, FlowTableAssumption
<1>2. f \notin Bucket /\ f # NULL
  BY FlowTableAssumption
<1>3. ASSUME NEW b \in Bucket, new[b] # NULL
      PROVE  new[b] \in S \ {f} /\ r[new[b]].pprev[v] = b
  <2>1. CASE p = b
    BY <1>a, <1>0, <1>1, <1>2, <1>3, <2>1
  <2>2. CASE p # b
    <3>1. head[b] # NULL /\ head[b] \in S /\ fl[head[b]].pprev[v] = b
      BY <1>3, <2>2 DEF List
    <3>2. head[b] # f
      BY <1>b, <2>2, <3>1
    <3>3. head[b] # n
      BY <1>0, <1>2, <3>1
    <3> QED
      BY <1>a, <2>2, <3>1, <3>2, <3>3
  <2> QED
    BY <2>1, <2>2
<1>4. ASSUME NEW g \in S \ {f}, r[g].next[v] # NULL
      PROVE  r[g].next[v] \in S \ {f} /\ r[r[g].next[v]].pprev[v] = g
  <2>1. CASE g = p
    BY <1>a, <1>0, <1>1, <1>2, <1>4, <2>1
  <2>2. CASE g # p
    <3>1. r[g].next[v] = fl[g].next[v] /\ r[g].next[v] \in S /\ fl[r[g].next[v]].pprev[v] = g
      BY <1>a, <1>4, <2>2 DEF List
    <3>2. r[g].next[v] # f
      BY <1>b, <2>2, <3>1
    <3>3. r[g].next[v] # n
      BY <1>0, <1>4, <3>1
    <3> QED
      BY <1>a, <3>1, <3>2, <3>3
  <2> QED
    BY <2>1, <2>2
<1> HIDE DEF new
<1>5. List(r, S \ {f}, v, new)
  BY <1>3, <1>4 DEF List
<1> QED
  BY <1>5 DEF new, n, p, Bypass

\* ... and when their nodes do not change.
LEMMA ListSame ==
    ASSUME NEW fl, NEW r, NEW S, NEW v, NEW head, List(fl, S, v, head),
           \A g \in S : r[g].next[v] = fl[g].next[v] /\ r[g].pprev[v] = fl[g].pprev[v]
    PROVE  List(r, S, v, head)
<1>1. \A b \in Bucket : head[b] # NULL => head[b] \in S /\ r[head[b]].pprev[v] = b
  BY Zenon DEF List
<1>2. \A f \in S : r[f].next[v] # NULL =>
        r[f].next[v] \in S /\ r[r[f].next[v]].pprev[v] = f
  <2> SUFFICES ASSUME NEW f \in S, r[f].next[v] # NULL
               PROVE  r[f].next[v] \in S /\ r[r[f].next[v]].pprev[v] = f
    BY Zenon
  <2>1. PICK n : n = r[f].next[v]
    OBVIOUS
  <2>2. n = fl[f].next[v] /\ n \in S /\ fl[n].pprev[v] = f
    BY <2>1, Zenon DEF List
  <2> QED
    BY <2>1, <2>2, Zenon
<1> QED
  BY <1>1, <1>2, Zenon DEF List
-----------------------------------------------------------------------------
\* Ownership.

\* A table that a callback will free is neither the current nor the new one.
LEMMA DoomedTables ==
    ASSUME Store
    PROVE  \A cb \in rcu : cb.kind = "table" =>
                cb.obj \in Table /\ cb.obj \in mem /\ cb.obj # table /\ cb.obj # cmd.new
<1> SUFFICES ASSUME NEW cb \in rcu, cb.kind = "table"
             PROVE  cb.obj \in Table /\ cb.obj \in mem /\ cb.obj # table /\ cb.obj # cmd.new
  OBVIOUS
<1>1. cb.obj \in Table
  BY DEF Store, Typed, CallbackObj
<1>2. FreesTable(cb, cb.obj)
  BY DEF FreesTable
<1> QED
  BY <1>1, <1>2 DEF Store, TablesOwned

\* A step that leaves doomed tables alone leaves the doomed flows as they are.
LEMMA FreesSame ==
    ASSUME \A cb \in rcu : cb.kind = "table" =>
                /\ tbl'[cb.obj].flows = tbl[cb.obj].flows
                /\ tbl'[cb.obj].keep_flows = tbl[cb.obj].keep_flows
    PROVE  \A cb \in rcu, f \in Flow : FreesFlow(cb, f)' <=> FreesFlow(cb, f)
BY DEF FreesFlow

\* flow_tbl_rehash, and the rehash within ovs_flow_cmd_new, keep the store.
LEMMA RehashStore ==
    ASSUME Store, NEW t \in Table, NEW where \in [Key -> Bucket], NEW k \in Key \cup {NULL},
           flow_tbl_rehash(t, where, k)
    PROVE  Store'
<1>0. /\ cmd = NoCommand /\ t \notin mem /\ mem' = mem \cup {t}
      /\ tbl' = [tbl EXCEPT ![t] = NewTable(1 - tbl[table].node_ver, where)]
      /\ cmd' = [op |-> "rehash", key |-> k, new |-> t, left |-> tbl[table].flows]
      /\ UNCHANGED <<table, flow, rcu>>
  BY DEF flow_tbl_rehash
<1>1. Typed /\ CommandOK /\ Filled /\ FlowsOwned /\ ActsOwned /\ ActsApart /\ TablesOwned
      /\ Linked(table)
  BY DEF Store
<1>2. table \in mem /\ t # table /\ t \notin Flow \cup Acts /\ NULL \notin Table
  BY <1>0, <1>1, FlowTableAssumption DEF Typed, TablesOwned
<1>3. 1 - tbl[table].node_ver \in Ver
  BY <1>1, SMT DEF Typed, TableObj, Ver
<1>4. NewTable(1 - tbl[table].node_ver, where) \in TableObj
  BY <1>3, TableType
<1>5. /\ tbl'[t] = NewTable(1 - tbl[table].node_ver, where)
      /\ \A u \in Table \ {t} : tbl'[u] = tbl[u]
  BY <1>0, <1>1 DEF Typed
<1>6. tbl'[table'] = tbl[table] /\ Live' = Live
  BY <1>0, <1>1, <1>2, <1>5 DEF Live, Typed
<1>7. \A cb \in rcu, f \in Flow : FreesFlow(cb, f)' <=> FreesFlow(cb, f)
  BY <1>0, <1>5, DoomedTables, FreesSame
<1>8. Typed'
  BY <1>0, <1>1, <1>4 DEF Typed, TableObj
<1>9. CommandOK'
  BY ONLY <1>0, <1>1, <1>2, <1>5, <1>6, SMT DEF CommandOK, NewTable, Live
<1>10. Filled' /\ ActsApart'
  BY <1>0, <1>1, <1>2 DEF Filled, ActsApart
<1>11. FlowsOwned'
  BY <1>0, <1>1, <1>2, <1>6, <1>7 DEF FlowsOwned
<1>12. ActsOwned'
  BY <1>0, <1>1, <1>2, ZenonT(30) DEF ActsOwned, Used, FreesActs
<1>13. TablesOwned'
  BY <1>0, <1>1, <1>2, SMT DEF TablesOwned, FreesTable, NoCommand, Typed
<1>14. Linked(table)'
  BY <1>0, <1>1, <1>6 DEF Linked
<1>15. Linked(cmd.new)'
  <2>1. /\ tbl'[t].head = [b \in Bucket |-> NULL] /\ tbl'[t].flows = {}
        /\ cmd'.new = t
    BY <1>0, <1>5, SMT DEF NewTable
  <2> QED
    BY <2>1 DEF Linked, List
<1> QED
  BY <1>8, <1>9, <1>10, <1>11, <1>12, <1>13, <1>14, <1>15 DEF Store

\* Copying one flow into the new table (flow_table_copy_flows) keeps the store.
LEMMA CopyStore ==
    ASSUME Store, NEW f \in Flow, flow_table_copy_flow(f)
    PROVE  Store'
<1> DEFINE N == cmd.new
           v == tbl[N].node_ver
           b == tbl[N].bucket[flow[f].key]
<1>0. /\ cmd.op = "rehash" /\ f \in cmd.left
      /\ flow' = FlowsWith(flow, N, f)
      /\ tbl' = [tbl EXCEPT ![N] = TableWith(N, f, flow[f].key)]
      /\ cmd' = [cmd EXCEPT !.left = @ \ {f}]
      /\ UNCHANGED <<mem, table, rcu>>
  BY DEF flow_table_copy_flow
<1>1. Typed /\ CommandOK /\ Filled /\ FlowsOwned /\ ActsOwned /\ ActsApart /\ TablesOwned
      /\ Linked(table) /\ Linked(N)
  BY <1>0 DEF Store
<1>2. /\ N \in Table /\ N # table /\ f \in Live /\ f \in mem /\ f \notin tbl[N].flows
      /\ flow[f].key \in Key /\ v \in Ver /\ tbl[table].node_ver \in Ver
      /\ v # tbl[table].node_ver /\ b \in Bucket
  <2>1. N \in Table /\ N # table /\ f \in Live /\ f \notin tbl[N].flows
    BY <1>0, <1>1 DEF CommandOK
  <2>2. f \in mem
    BY <1>1, <2>1 DEF FlowsOwned
  <2>3. flow[f].key \in Key
    BY <1>1, <2>2 DEF Filled
  <2>4. v \in Ver /\ tbl[table].node_ver \in Ver /\ b \in Bucket
    BY <1>1, <2>1, <2>3, SMT DEF Typed, TableObj
  <2>5. v # tbl[table].node_ver
    BY <1>0, <1>1, <2>4, SMT DEF CommandOK, Ver
  <2> QED
    BY <2>1, <2>2, <2>3, <2>4, <2>5
<1>3. /\ TableWith(N, f, flow[f].key) \in TableObj
      /\ tbl'[N].flows = tbl[N].flows \cup {f} /\ tbl'[N].node_ver = v
      /\ tbl'[N].head = [tbl[N].head EXCEPT ![b] = f]
      /\ tbl'[N].keep_flows = tbl[N].keep_flows
      /\ \A u \in Table \ {N} : tbl'[u] = tbl[u]
  BY <1>0, <1>1, <1>2, ZenonT(60) DEF Typed, TableWith, TableObj
<1>4. List(flow, tbl[N].flows, v, tbl[N].head)
      /\ tbl[N].flows \in SUBSET Flow /\ tbl[N].head \in [Bucket -> Flow \cup {NULL}]
  BY <1>1, <1>2 DEF Linked, Typed, TableObj
<1>5. Added(flow, flow', f, v, b, tbl[N].head[b])
  <2>1. tbl[N].head[b] # f
    <3>1. f \in Flow \ tbl[N].flows /\ b \in Bucket
      BY <1>2, Zenon
    <3> HIDE DEF v, b
    <3>2. tbl[N].head[b] \in tbl[N].flows \cup {NULL} /\ tbl[N].head[b] # f
      BY ONLY <1>4, <3>1, ListFirst, SMT
    <3> QED
      BY <3>2, Zenon
  <2> QED
    BY <1>0, <1>1, <1>2, <2>1, FlowsWithAdds, ZenonT(30) DEF Typed
<1>50. /\ flow' \in [Flow -> FlowObj]
       /\ \A g \in Flow : flow'[g].key = flow[g].key /\ flow'[g].sf_acts = flow[g].sf_acts
       /\ \A g \in Flow, w \in Ver : w # v => /\ flow'[g].next[w] = flow[g].next[w]
                                              /\ flow'[g].pprev[w] = flow[g].pprev[w]
  BY <1>5, ZenonT(30) DEF Added
<1>6. tbl'[table'] = tbl[table] /\ Live' = Live
  BY <1>0, <1>2, <1>1, <1>3 DEF Live, Typed
<1>7. \A cb \in rcu, g \in Flow : FreesFlow(cb, g)' <=> FreesFlow(cb, g)
  BY <1>3, DoomedTables, FreesSame
<1> HIDE DEF v, b
<1>8. cmd'.new = N /\ cmd'.op = "rehash" /\ cmd'.left = cmd.left \ {f}
  BY <1>0, <1>1 DEF Typed
<1>9. Typed'
  BY <1>0, <1>1, <1>2, <1>3, <1>50, <1>8 DEF Typed
<1>10. CommandOK'
  BY ONLY <1>0, <1>1, <1>2, <1>3, <1>6, <1>8, SMT DEF CommandOK, v
<1>11. Filled' /\ ActsApart'
  BY ONLY <1>0, <1>1, <1>50, SMT DEF Filled, ActsApart
<1>12. FlowsOwned'
  BY <1>0, <1>1, <1>6, <1>7, ZenonT(30) DEF FlowsOwned
<1>13. ActsOwned'
  BY <1>0, <1>1, <1>50, SMT DEF ActsOwned, Used, FreesActs
<1>14. TablesOwned'
  BY <1>0, <1>1, <1>8, ZenonT(30) DEF TablesOwned, FreesTable
<1>15. Linked(table)'
  <2>1. \A g \in Live : flow'[g].next[tbl[table].node_ver] = flow[g].next[tbl[table].node_ver]
                     /\ flow'[g].pprev[tbl[table].node_ver] = flow[g].pprev[tbl[table].node_ver]
    BY <1>1, <1>2, <1>50 DEF Typed, TableObj, Live
  <2>2. List(flow', tbl[table].flows, tbl[table].node_ver, tbl[table].head)
    BY <1>1, <2>1, ListSame DEF Linked, Live
  <2> QED
    BY <1>6, <2>2 DEF Linked
<1>16. Linked(cmd.new)'
  <2>4. List(flow', tbl[N].flows \cup {f}, v, [tbl[N].head EXCEPT ![b] = f])
    BY <1>2, <1>4, <1>5, ListWith
  <2> QED
    BY <1>3, <1>8, <2>4, ZenonT(30) DEF Linked
<1> QED
  BY <1>9, <1>10, <1>11, <1>12, <1>13, <1>14, <1>15, <1>16 DEF Store
\* rcu_assign_pointer of the new table, with the deferred destroy, keeps the store.
LEMMA PublishStore ==
    ASSUME Store, flow_tbl_publish
    PROVE  Store'
<1> DEFINE N == cmd.new
<1>a. PICK new : new = Callback("table", table)
  OBVIOUS
<1>0. /\ cmd.op = "rehash" /\ cmd.left = {}
      /\ tbl' = [tbl EXCEPT ![table].keep_flows = TRUE]
      /\ table' = N
      /\ rcu' = rcu \cup {new}
      /\ cmd' = IF cmd.key = NULL THEN NoCommand
                ELSE [cmd EXCEPT !.op = "insert", !.new = NULL]
      /\ UNCHANGED <<mem, flow>>
  BY <1>a DEF flow_tbl_publish
<1>1. Typed /\ CommandOK /\ Filled /\ FlowsOwned /\ ActsOwned /\ ActsApart /\ TablesOwned
      /\ Linked(table) /\ Linked(N)
  BY <1>0 DEF Store
<1>2. /\ N \in Table /\ N # table /\ table \in Table /\ tbl[N].flows = Live /\ ~tbl[N].keep_flows
      /\ NULL \notin Table
  BY <1>0, <1>1, FlowTableAssumption, ZenonT(30) DEF CommandOK, Typed
<1>3. new \in CallbackObj /\ new.kind = "table" /\ new.obj = table
  BY <1>a, <1>2 DEF Callback, CallbackObj, Reading
<1>4. /\ tbl' \in [Table -> TableObj]
      /\ tbl'[table].keep_flows /\ tbl'[table].flows = Live
      /\ \A u \in Table \ {table} : tbl'[u] = tbl[u]
  BY <1>0, <1>1, <1>2, ZenonT(60) DEF Typed, TableObj, Live
<1>5. /\ cmd' \in [op : {"none", "rehash", "insert"}, key : Key \cup {NULL},
                  new : Table \cup {NULL}, left : SUBSET Flow]
      /\ cmd'.op # "rehash" /\ cmd'.new = NULL
  BY <1>0, <1>1, ZenonT(30) DEF Typed, NoCommand
<1>6. tbl'[table'] = tbl[N] /\ Live' = Live
  BY <1>0, <1>2, <1>4 DEF Live
<1>7. \A cb \in rcu, f \in Flow : FreesFlow(cb, f)' <=> FreesFlow(cb, f)
  BY <1>4, DoomedTables, FreesSame
<1>8. \A f \in Flow : ~FreesFlow(new, f)'
  BY <1>3, <1>4 DEF FreesFlow
<1>9. Typed'
  BY <1>0, <1>1, <1>2, <1>3, <1>4, <1>5 DEF Typed
<1>10. CommandOK'
  BY <1>2, <1>5, <1>6 DEF CommandOK
<1>11. Filled' /\ ActsApart'
  BY <1>0, <1>1 DEF Filled, ActsApart
<1>12. FlowsOwned'
  BY <1>0, <1>1, <1>6, <1>7, <1>8, SMT DEF FlowsOwned
<1>13. ActsOwned'
  BY <1>0, <1>1, <1>3, SMT DEF ActsOwned, Used, FreesActs
<1>14. TablesOwned'
  <2>1. \A cb \in rcu : ~FreesTable(cb, table) /\ ~FreesTable(cb, N)
    BY <1>1, <1>2 DEF TablesOwned
  <2>2. \A t \in Table : FreesTable(new, t) <=> t = table
    BY <1>3 DEF FreesTable
  <2>3. \A cb, t : FreesTable(cb, t)' <=> FreesTable(cb, t)
    BY DEF FreesTable
  <2> QED
    BY <1>0, <1>1, <1>2, <1>5, <2>1, <2>2, <2>3, SMT DEF TablesOwned
<1>15. Linked(table)'
  BY <1>0, <1>1, <1>6 DEF Linked
<1> QED
  BY <1>5, <1>9, <1>10, <1>11, <1>12, <1>13, <1>14, <1>15 DEF Store

\* flush_flows keeps the store.
LEMMA FlushStore ==
    ASSUME Store, NEW t \in Table, NEW where \in [Key -> Bucket], flush_flows(t, where)
    PROVE  Store'
<1>a. PICK new : new = Callback("table", table)
  OBVIOUS
<1>0. /\ cmd = NoCommand /\ t \notin mem /\ mem' = mem \cup {t}
      /\ tbl' = [tbl EXCEPT ![t] = NewTable(0, where)]
      /\ table' = t /\ rcu' = rcu \cup {new}
      /\ UNCHANGED <<flow, cmd>>
  BY <1>a DEF flush_flows
<1>1. Typed /\ CommandOK /\ Filled /\ FlowsOwned /\ ActsOwned /\ ActsApart /\ TablesOwned
      /\ Linked(table)
  BY DEF Store
<1>2. table \in mem /\ t # table /\ t \notin Flow \cup Acts /\ table \in Table /\ NULL \notin Table
  BY <1>0, <1>1, FlowTableAssumption DEF Typed, TablesOwned
<1>3. new \in CallbackObj /\ new.kind = "table" /\ new.obj = table
  BY <1>a, <1>2 DEF Callback, CallbackObj, Reading
<1>4. NewTable(0, where) \in TableObj
  BY TableType DEF Ver
<1>5. /\ tbl'[t] = NewTable(0, where)
      /\ \A u \in Table \ {t} : tbl'[u] = tbl[u]
  BY <1>0, <1>1 DEF Typed
<1>6. /\ Live' = {} /\ ~tbl'[table'].keep_flows
      /\ tbl'[table'].head = [b \in Bucket |-> NULL]
  BY <1>0, <1>5, SMT DEF Live, NewTable
<1>7. \A cb \in rcu, f \in Flow : FreesFlow(cb, f)' <=> FreesFlow(cb, f)
  BY <1>0, <1>5, DoomedTables, FreesSame
<1>8. \A f \in Flow : FreesFlow(new, f)' <=> f \in Live
  BY <1>1, <1>2, <1>3, <1>5 DEF FreesFlow, CommandOK, Live
<1>9. Typed'
  BY <1>0, <1>1, <1>3, <1>4 DEF Typed
<1>10. CommandOK'
  BY <1>0, <1>6 DEF CommandOK, NoCommand
<1>11. Filled' /\ ActsApart'
  BY <1>0, <1>1, <1>2 DEF Filled, ActsApart
<1>12. FlowsOwned'
  BY <1>0, <1>1, <1>2, <1>6, <1>7, <1>8, SMT DEF FlowsOwned
<1>13. ActsOwned'
  BY <1>0, <1>1, <1>2, <1>3, SMT DEF ActsOwned, Used, FreesActs
<1>14. TablesOwned'
  <2>1. \A cb \in rcu : ~FreesTable(cb, table) /\ ~FreesTable(cb, t)
    BY <1>0, <1>1, <1>2 DEF TablesOwned
  <2>2. \A u \in Table : FreesTable(new, u) <=> u = table
    BY <1>3 DEF FreesTable
  <2>3. \A cb, u : FreesTable(cb, u)' <=> FreesTable(cb, u)
    BY DEF FreesTable
  <2>4. cmd.new = NULL /\ cmd'.new = NULL
    BY <1>0 DEF NoCommand
  <2> QED
    BY <1>0, <1>1, <1>2, <2>1, <2>2, <2>3, <2>4, SMT DEF TablesOwned
<1>15. Linked(table)'
  BY <1>6 DEF Linked, List, Live
<1>16. cmd'.op # "rehash"
  BY <1>0 DEF NoCommand
<1> QED
  BY <1>9, <1>10, <1>11, <1>12, <1>13, <1>14, <1>15, <1>16 DEF Store

\* Replacing the actions of a flow (ovs_flow_cmd_set) keeps the store.
LEMMA SetStore ==
    ASSUME Store, NEW f \in Flow, NEW s \in Acts, ovs_flow_cmd_set(f, s)
    PROVE  Store'
<1>a. PICK new : new = Callback("acts", flow[f].sf_acts)
  OBVIOUS
<1>0. /\ cmd = NoCommand /\ f \in Live /\ s \notin mem /\ mem' = mem \cup {s}
      /\ flow' = [flow EXCEPT ![f].sf_acts = s]
      /\ rcu' = rcu \cup {new}
      /\ UNCHANGED <<table, tbl, cmd>>
  BY <1>a DEF ovs_flow_cmd_set, Live
<1>1. Typed /\ CommandOK /\ Filled /\ FlowsOwned /\ ActsOwned /\ ActsApart /\ TablesOwned
      /\ Linked(table)
  BY DEF Store
<1>2. f \in mem /\ flow[f].sf_acts \in Acts /\ flow[f].key \in Key /\ s \notin Flow \cup Table
  BY <1>0, <1>1, FlowTableAssumption DEF FlowsOwned, Filled
<1>3. new \in CallbackObj /\ new.kind = "acts" /\ new.obj = flow[f].sf_acts
  BY <1>a, <1>2 DEF Callback, CallbackObj, Reading
<1>4. /\ flow' \in [Flow -> FlowObj] /\ flow'[f].sf_acts = s
      /\ \A g \in Flow \ {f} : flow'[g].sf_acts = flow[g].sf_acts
      /\ \A g \in Flow : flow'[g].key = flow[g].key /\ flow'[g].next = flow[g].next
                         /\ flow'[g].pprev = flow[g].pprev
  BY <1>0, <1>1, SMT DEF Typed, FlowObj
<1>5. Live' = Live
  BY <1>0 DEF Live
<1>6. \A cb, g : FreesFlow(cb, g)' <=> FreesFlow(cb, g)
  BY <1>0 DEF FreesFlow
<1>7. \A g \in Flow : ~FreesFlow(new, g)
  BY <1>3 DEF FreesFlow
<1>8. Typed'
  BY <1>0, <1>1, <1>3, <1>4 DEF Typed
<1>9. CommandOK'
  BY <1>0, <1>1, <1>5 DEF CommandOK
<1>10. Filled'
  BY <1>0, <1>1, <1>2, <1>4, ZenonT(30) DEF Filled
<1>11. \A g \in Flow \cap mem : flow[g].sf_acts # s
  BY <1>0, <1>1 DEF ActsOwned, Used
<1>12. ActsApart'
  <2> SUFFICES ASSUME NEW g \in Flow \cap mem', NEW h \in Flow \cap mem',
                      flow'[g].sf_acts = flow'[h].sf_acts
               PROVE  g = h
    BY DEF ActsApart
  <2>1. g \in mem /\ h \in mem
    BY <1>0, <1>2
  <2> QED
    BY <1>1, <1>4, <1>11, <2>1, SMT DEF ActsApart
<1>13. FlowsOwned'
  BY <1>0, <1>1, <1>2, <1>5, <1>6, <1>7, SMT DEF FlowsOwned
<1>14. ActsOwned'
  <2>1. \A a \in Acts : Used(a)' <=> a = s \/ (Used(a) /\ a # flow[f].sf_acts)
    BY ONLY <1>0, <1>1, <1>2, <1>4, <1>11, SMT DEF Used, ActsApart
  <2>2. \A a \in Acts : FreesActs(new, a) <=> a = flow[f].sf_acts
    BY <1>3 DEF FreesActs
  <2>3. \A cb, a : FreesActs(cb, a)' <=> FreesActs(cb, a)
    BY DEF FreesActs
  <2>4. Used(flow[f].sf_acts) /\ flow[f].sf_acts # s
    BY <1>2, <1>11 DEF Used
  <2>5. \A cb \in rcu : ~FreesActs(cb, s) /\ ~FreesActs(cb, flow[f].sf_acts)
    BY <1>0, <1>1, <1>2, <2>4 DEF ActsOwned
  <2> QED
    BY <1>0, <1>1, <1>2, <2>1, <2>2, <2>3, <2>4, <2>5, SMT DEF ActsOwned
<1>15. TablesOwned'
  BY <1>0, <1>1, <1>2, <1>3, SMT DEF TablesOwned, FreesTable
<1>16. Linked(table)'
  <2>1. \A g \in tbl[table].flows : g \in Flow
    BY <1>1 DEF Typed, TableObj
  <2> QED
    BY <1>0, <1>1, <1>4, <2>1, ListSame, ZenonT(60) DEF Linked
<1>17. cmd'.op # "rehash"
  BY <1>0 DEF NoCommand
<1> QED
  BY <1>8, <1>9, <1>10, <1>12, <1>13, <1>14, <1>15, <1>16, <1>17 DEF Store
\* A new flow comes out of memory that no flow, list or callback refers to.
LEMMA NewFields ==
    ASSUME Store, NEW k \in Key, NEW f \in Flow, NEW s \in Acts, ovs_flow_cmd_new(k, f, s)
    PROVE  LET v == tbl[table].node_ver
               b == tbl[table].bucket[k]
               fl == [flow EXCEPT ![f] = NewFlow(k, s)]
           IN  /\ v \in Ver /\ b \in Bucket /\ f \notin Live
               /\ fl \in [Flow -> FlowObj] /\ fl[f] = NewFlow(k, s)
               /\ \A g \in Flow \ {f} : fl[g] = flow[g]
               /\ List(fl, Live, v, tbl[table].head)
               /\ Added(fl, flow', f, v, b, tbl[table].head[b])
               /\ tbl'[table] \in TableObj
               /\ tbl'[table].flows = Live \cup {f} /\ tbl'[table].node_ver = v
               /\ tbl'[table].keep_flows = tbl[table].keep_flows
               /\ tbl'[table].head = [tbl[table].head EXCEPT ![b] = f]
               /\ \A u \in Table \ {table} : tbl'[u] = tbl[u]
               /\ Live' = Live \cup {f}
<1> DEFINE v == tbl[table].node_ver
           b == tbl[table].bucket[k]
           fl == [flow EXCEPT ![f] = NewFlow(k, s)]
<1>0. /\ f \notin mem
      /\ flow' = FlowsWith(fl, table, f)
      /\ tbl' = [tbl EXCEPT ![table] = TableWith(table, f, k)]
      /\ table' = table
  BY DEF ovs_flow_cmd_new
<1>1. Typed /\ FlowsOwned /\ Linked(table)
  BY DEF Store
<1>2. f \notin Live /\ v \in Ver /\ b \in Bucket /\ table \in Table
  BY <1>0, <1>1, SMT DEF FlowsOwned, Typed, TableObj
<1>3. /\ fl \in [Flow -> FlowObj] /\ fl[f] = NewFlow(k, s)
      /\ \A g \in Flow \ {f} : fl[g] = flow[g]
  BY <1>1, FlowType DEF Typed
<1>4. fl[f].key = k
  BY <1>3 DEF NewFlow
<1> HIDE DEF fl
<1>5. /\ List(fl, Live, v, tbl[table].head) /\ Live \in SUBSET Flow
      /\ tbl[table].head \in [Bucket -> Flow \cup {NULL}]
  <2>1. Live \in SUBSET Flow /\ tbl[table].head \in [Bucket -> Flow \cup {NULL}]
    BY <1>1 DEF Typed, TableObj, Live
  <2> QED
    BY <1>1, <1>2, <1>3, <2>1, ListSame DEF Linked, Live
<1>6. tbl[table].head[b] # f
  BY ONLY <1>2, <1>5, ListFirst, SMT
<1>7. Added(fl, flow', f, v, b, tbl[table].head[b])
  BY <1>0, <1>1, <1>2, <1>3, <1>4, <1>6, FlowsWithAdds DEF Typed
<1>8. /\ tbl'[table] \in TableObj
      /\ tbl'[table].flows = Live \cup {f} /\ tbl'[table].node_ver = v
      /\ tbl'[table].keep_flows = tbl[table].keep_flows
      /\ tbl'[table].head = [tbl[table].head EXCEPT ![b] = f]
      /\ \A u \in Table \ {table} : tbl'[u] = tbl[u]
  BY <1>0, <1>1, <1>2, ZenonT(60) DEF Typed, TableWith, TableObj, Live
<1>9. Live' = Live \cup {f}
  BY <1>0, <1>8 DEF Live
<1> QED
  BY <1>2, <1>3, <1>5, <1>7, <1>8, <1>9 DEF fl

\* Inserting a flow (ovs_flow_cmd_new) keeps the store.
LEMMA NewStore ==
    ASSUME Store, NEW k \in Key, NEW f \in Flow, NEW s \in Acts, ovs_flow_cmd_new(k, f, s)
    PROVE  Store'
<1> DEFINE v == tbl[table].node_ver
           b == tbl[table].bucket[k]
           fl == [flow EXCEPT ![f] = NewFlow(k, s)]
<1>0. /\ f \notin mem /\ s \notin mem /\ mem' = mem \cup {f, s}
      /\ tbl' = [tbl EXCEPT ![table] = TableWith(table, f, k)]
      /\ cmd' = NoCommand /\ cmd.op # "rehash"
      /\ UNCHANGED <<table, rcu>>
  BY SMT DEF ovs_flow_cmd_new, NoCommand
<1>1. Typed /\ CommandOK /\ Filled /\ FlowsOwned /\ ActsOwned /\ ActsApart /\ TablesOwned
      /\ Linked(table)
  BY DEF Store
<1>2. /\ v \in Ver /\ b \in Bucket /\ f \notin Live
      /\ fl \in [Flow -> FlowObj] /\ fl[f] = NewFlow(k, s)
      /\ \A g \in Flow \ {f} : fl[g] = flow[g]
      /\ List(fl, Live, v, tbl[table].head)
      /\ Added(fl, flow', f, v, b, tbl[table].head[b])
      /\ tbl'[table] \in TableObj
      /\ tbl'[table].flows = Live \cup {f} /\ tbl'[table].node_ver = v
      /\ tbl'[table].keep_flows = tbl[table].keep_flows
      /\ tbl'[table].head = [tbl[table].head EXCEPT ![b] = f]
      /\ \A u \in Table \ {table} : tbl'[u] = tbl[u]
      /\ Live' = Live \cup {f}
  BY NewFields
<1> HIDE DEF fl, v, b
<1>3. /\ flow' \in [Flow -> FlowObj]
      /\ flow'[f].key = k /\ flow'[f].sf_acts = s
      /\ \A g \in Flow \ {f} : flow'[g].key = flow[g].key /\ flow'[g].sf_acts = flow[g].sf_acts
  BY ONLY <1>2, SMT DEF Added, NewFlow
<1>4. f \notin Acts \cup Table /\ s \notin Flow \cup Table
  BY FlowTableAssumption
<1>5. cmd'.op = "none" /\ cmd'.new = NULL /\ cmd.new = NULL
  BY <1>0, <1>1 DEF NoCommand, CommandOK
<1>6. \A cb \in rcu, g \in Flow : FreesFlow(cb, g)' <=> FreesFlow(cb, g)
  BY <1>2, DoomedTables, FreesSame
<1>7. Typed'
  <2>1. cmd' \in [op : {"none", "rehash", "insert"}, key : Key \cup {NULL},
                  new : Table \cup {NULL}, left : SUBSET Flow]
    BY <1>0 DEF NoCommand
  <2>2. tbl' \in [Table -> TableObj]
    BY <1>0, <1>1, <1>2 DEF Typed
  <2> QED
    BY <1>0, <1>1, <1>3, <2>1, <2>2 DEF Typed
<1>8. CommandOK'
  BY <1>0, <1>1, <1>2, <1>5 DEF CommandOK
<1>9. Filled'
  BY <1>0, <1>1, <1>3, <1>4 DEF Filled
<1>10. \A g \in Flow \cap mem : flow[g].sf_acts # s
  BY <1>0, <1>1 DEF ActsOwned, Used
<1>11. ActsApart'
  BY <1>0, <1>1, <1>3, <1>4, <1>10, SMT DEF ActsApart
<1>12. FlowsOwned'
  BY ONLY <1>0, <1>1, <1>2, <1>4, <1>6, SMT DEF FlowsOwned
<1>13. ActsOwned'
  <2>1. \A a \in Acts : Used(a)' <=> a = s \/ Used(a)
    BY <1>0, <1>3, <1>4 DEF Used
  <2>2. \A cb, a : FreesActs(cb, a)' <=> FreesActs(cb, a)
    BY DEF FreesActs
  <2> QED
    BY <1>0, <1>1, <1>4, <2>1, <2>2, ZenonT(30) DEF ActsOwned
<1>14. TablesOwned'
  BY <1>0, <1>1, <1>4, <1>5, SMT DEF TablesOwned, FreesTable
<1>15. Linked(table)'
  <2>1. Live \in SUBSET Flow /\ tbl[table].head \in [Bucket -> Flow \cup {NULL}]
    BY <1>1 DEF Typed, TableObj, Live
  <2>2. List(flow', Live \cup {f}, v, [tbl[table].head EXCEPT ![b] = f])
    BY <1>2, <2>1, ListWith
  <2> QED
    BY <1>0, <1>2, <2>2 DEF Linked
<1> QED
  BY <1>5, <1>7, <1>8, <1>9, <1>11, <1>12, <1>13, <1>14, <1>15 DEF Store

\* A flow that is removed is bypassed by the lists, and left to RCU.
LEMMA DelFields ==
    ASSUME Store, NEW f \in Flow, ovs_flow_cmd_del(f)
    PROVE  LET v == tbl[table].node_ver
               n == flow[f].next[v]
               p == flow[f].pprev[v]
           IN  /\ v \in Ver /\ f \in Live /\ n \in Live \cup {NULL}
               /\ Removed(flow, flow', n, p, v)
               /\ tbl'[table] \in TableObj
               /\ tbl'[table].flows = Live \ {f} /\ tbl'[table].node_ver = v
               /\ tbl'[table].keep_flows = tbl[table].keep_flows
               /\ tbl'[table].head = Bypass(tbl[table].head, n, p)
               /\ \A u \in Table \ {table} : tbl'[u] = tbl[u]
               /\ Live' = Live \ {f}
<1> DEFINE v == tbl[table].node_ver
           n == flow[f].next[v]
           p == flow[f].pprev[v]
<1>0. /\ f \in Live
      /\ flow' = FlowsWithout(table, f)
      /\ tbl' = [tbl EXCEPT ![table] = TableWithout(table, f)]
      /\ table' = table
  BY DEF ovs_flow_cmd_del, Live
<1>1. Typed /\ Linked(table) /\ table \in Table
  BY DEF Store, Typed
<1>2. v \in Ver /\ n \in Live \cup {NULL} /\ n \in Flow \cup {NULL}
  BY <1>0, <1>1 DEF Typed, TableObj, Live, Linked, List
<1>3. Removed(flow, flow', n, p, v)
  BY <1>0, <1>1, <1>2, FlowsWithoutRemoves
<1> HIDE DEF n, p
<1> DEFINE head == [b \in Bucket |-> IF p = b THEN n ELSE tbl[table].head[b]]
<1>4. TableWithout(table, f) = [tbl[table] EXCEPT !.flows = @ \ {f}, !.head = head]
  BY DEF TableWithout, n, p
<1>40. head \in [Bucket -> Flow \cup {NULL}] /\ tbl[table] \in TableObj
  BY <1>1, <1>2, SMT DEF Typed, TableObj
<1> HIDE DEF head
<1>5. /\ tbl'[table] \in TableObj
      /\ tbl'[table].flows = Live \ {f} /\ tbl'[table].node_ver = v
      /\ tbl'[table].keep_flows = tbl[table].keep_flows
      /\ tbl'[table].head = head
      /\ \A u \in Table \ {table} : tbl'[u] = tbl[u]
  BY <1>0, <1>1, <1>4, <1>40, ZenonT(60) DEF Typed, TableObj, Live
<1>6. Live' = Live \ {f}
  BY <1>0, <1>5 DEF Live
<1> QED
  BY <1>0, <1>2, <1>3, <1>5, <1>6 DEF n, p, head, Bypass

\* Removing a flow (ovs_flow_cmd_del) keeps the store.
LEMMA DelStore ==
    ASSUME Store, NEW f \in Flow, ovs_flow_cmd_del(f)
    PROVE  Store'
<1> DEFINE v == tbl[table].node_ver
           n == flow[f].next[v]
           p == flow[f].pprev[v]
<1>a. PICK new : new = Callback("flow", f)
  OBVIOUS
<1>0. /\ cmd = NoCommand /\ rcu' = rcu \cup {new}
      /\ tbl' = [tbl EXCEPT ![table] = TableWithout(table, f)]
      /\ UNCHANGED <<mem, table, cmd>>
  BY <1>a DEF ovs_flow_cmd_del
<1>1. Typed /\ CommandOK /\ Filled /\ FlowsOwned /\ ActsOwned /\ ActsApart /\ TablesOwned
      /\ Linked(table)
  BY DEF Store
<1>2. /\ v \in Ver /\ f \in Live /\ n \in Live \cup {NULL}
      /\ Removed(flow, flow', n, p, v)
      /\ tbl'[table] \in TableObj
      /\ tbl'[table].flows = Live \ {f} /\ tbl'[table].node_ver = v
      /\ tbl'[table].keep_flows = tbl[table].keep_flows
      /\ tbl'[table].head = Bypass(tbl[table].head, n, p)
      /\ \A u \in Table \ {table} : tbl'[u] = tbl[u]
      /\ Live' = Live \ {f}
  BY DelFields
<1> HIDE DEF v, n, p
<1>3. new \in CallbackObj /\ new.kind = "flow" /\ new.obj = f
  BY <1>a DEF Callback, CallbackObj, Reading
<1>4. /\ flow' \in [Flow -> FlowObj]
      /\ \A g \in Flow : flow'[g].key = flow[g].key /\ flow'[g].sf_acts = flow[g].sf_acts
  BY <1>2 DEF Removed
<1>5. \A cb \in rcu, g \in Flow : FreesFlow(cb, g)' <=> FreesFlow(cb, g)
  BY <1>2, DoomedTables, FreesSame
<1>6. \A g \in Flow : FreesFlow(new, g)' <=> g = f
  BY <1>3 DEF FreesFlow
<1>7. Typed'
  <2>1. tbl' \in [Table -> TableObj]
    BY <1>0, <1>1, <1>2 DEF Typed
  <2> QED
    BY <1>0, <1>1, <1>3, <1>4, <2>1 DEF Typed
<1>8. CommandOK'
  BY <1>0, <1>1, <1>2 DEF CommandOK, NoCommand
<1>9. Filled' /\ ActsApart'
  BY <1>0, <1>1, <1>4 DEF Filled, ActsApart
<1>10. FlowsOwned'
  BY ONLY <1>0, <1>1, <1>2, <1>5, <1>6, SMT DEF FlowsOwned
<1>11. ActsOwned'
  BY ONLY <1>0, <1>1, <1>3, <1>4, SMT DEF ActsOwned, Used, FreesActs
<1>12. TablesOwned'
  BY <1>0, <1>1, <1>3, SMT DEF TablesOwned, FreesTable
<1>13. Linked(table)'
  <2>1. /\ Live \in SUBSET Flow /\ tbl[table].head \in [Bucket -> Flow \cup {NULL}]
        /\ List(flow, Live, v, tbl[table].head)
    BY <1>1 DEF Typed, TableObj, Live, Linked, v
  <2>2. List(flow', Live \ {f}, v, Bypass(tbl[table].head, n, p))
    BY <1>2, <2>1, ListWithout DEF n, p
  <2> QED
    BY <1>0, <1>2, <2>2 DEF Linked
<1>14. cmd'.op # "rehash"
  BY <1>0 DEF NoCommand
<1> QED
  BY <1>7, <1>8, <1>9, <1>10, <1>11, <1>12, <1>13, <1>14 DEF Store
\* A command that gives up before inserting its flow keeps the store.
LEMMA FailsStore ==
    ASSUME Store, ovs_flow_cmd_new_fails
    PROVE  Store'
<1>0. /\ cmd.op # "rehash" /\ cmd' = NoCommand
      /\ UNCHANGED <<mem, table, tbl, flow, rcu>>
  BY DEF ovs_flow_cmd_new_fails
<1>1. Typed /\ CommandOK /\ Filled /\ FlowsOwned /\ ActsOwned /\ ActsApart /\ TablesOwned
      /\ Linked(table)
  BY DEF Store
<1>2. /\ cmd.new = NULL /\ cmd'.new = NULL /\ cmd'.op # "rehash"
      /\ cmd' \in [op : {"none", "rehash", "insert"}, key : Key \cup {NULL},
                   new : Table \cup {NULL}, left : SUBSET Flow]
  BY <1>0, <1>1 DEF CommandOK, NoCommand
<1>3. Typed' /\ CommandOK' /\ Filled' /\ ActsApart' /\ Linked(table)'
  BY <1>0, <1>1, <1>2 DEF Typed, CommandOK, Filled, ActsApart, Linked
<1>4. FlowsOwned' /\ ActsOwned' /\ TablesOwned'
  BY ONLY <1>0, <1>1, <1>2, SMT
     DEF FlowsOwned, FreesFlow, Live, ActsOwned, FreesActs, Used, TablesOwned, FreesTable
<1> QED
  BY <1>2, <1>3, <1>4 DEF Store

\* What a callback frees is what it alone owns.
LEMMA CallbackFields ==
    ASSUME Store, NEW cb \in rcu, rcu_callback(cb)
    PROVE  LET fs == {f \in Flow : FreesFlow(cb, f)}
               ts == {t \in Table : FreesTable(cb, t)}
               as == {a \in Acts : FreesActs(cb, a) \/ \E f \in fs : flow[f].sf_acts = a}
           IN  /\ mem' = mem \ (ts \cup fs \cup as)
               /\ tbl' = [t \in Table |-> IF t \in ts THEN OldTable ELSE tbl[t]]
               /\ flow' = [f \in Flow |-> IF f \in fs THEN OldFlow ELSE flow[f]]
               /\ fs \subseteq mem /\ fs \cap Live = {}
               /\ table \notin ts /\ cmd.new \notin ts
<1> DEFINE ts == IF cb.kind = "table" THEN {cb.obj} ELSE {}
           fs == IF cb.kind = "flow" THEN {cb.obj}
                 ELSE UNION {tbl[t].flows : t \in {u \in ts : ~tbl[u].keep_flows}}
           as == IF cb.kind = "acts" THEN {cb.obj} ELSE {flow[f].sf_acts : f \in fs}
           FS == {f \in Flow : FreesFlow(cb, f)}
           TS == {t \in Table : FreesTable(cb, t)}
           AS == {a \in Acts : FreesActs(cb, a) \/ \E f \in FS : flow[f].sf_acts = a}
<1>0. /\ mem' = mem \ (ts \cup fs \cup as)
      /\ tbl' = [t \in Table |-> IF t \in ts THEN OldTable ELSE tbl[t]]
      /\ flow' = [f \in Flow |-> IF f \in fs THEN OldFlow ELSE flow[f]]
  BY DEF rcu_callback
<1>1. Typed /\ FlowsOwned /\ TablesOwned /\ Filled
  BY DEF Store
<1>2. /\ cb.kind \in {"table", "flow", "acts"}
      /\ cb.kind = "table" => cb.obj \in Table
      /\ cb.kind = "flow" => cb.obj \in Flow
      /\ cb.kind = "acts" => cb.obj \in Acts
  BY <1>1 DEF Typed, CallbackObj
<1>3. ts = TS
  BY <1>2 DEF FreesTable
<1>4. fs = FS
  <2>1. CASE cb.kind = "table"
    <3>1. tbl[cb.obj].flows \subseteq Flow
      BY <1>1, <1>2, <2>1 DEF Typed, TableObj
    <3>2. fs = IF tbl[cb.obj].keep_flows THEN {} ELSE tbl[cb.obj].flows
      BY <2>1
    <3> HIDE DEF fs
    <3> QED
      BY <2>1, <3>1, <3>2 DEF FreesFlow
  <2>2. CASE cb.kind # "table"
    BY <1>2, <2>2 DEF FreesFlow
  <2> QED
    BY <2>1, <2>2
<1>5. FS \subseteq mem /\ FS \cap Live = {}
  BY <1>1 DEF FlowsOwned
<1>6. \A f \in FS : flow[f].sf_acts \in Acts
  BY <1>1, <1>5 DEF Filled
<1>7. table \notin TS /\ cmd.new \notin TS
  BY <1>1 DEF TablesOwned
<1>8. cb.kind = "acts" => FS = {}
  BY DEF FreesFlow
<1> HIDE DEF FS, fs
<1>9. as = AS
  BY <1>2, <1>4, <1>6, <1>8 DEF FreesActs
<1> QED
  BY <1>0, <1>3, <1>4, <1>5, <1>7, <1>9 DEF FS

\* What an RCU callback frees, it alone had to free: the store is kept.
LEMMA CallbackStore ==
    ASSUME Store, NEW cb \in rcu, rcu_callback(cb)
    PROVE  Store'
<1> DEFINE fs == {f \in Flow : FreesFlow(cb, f)}
           ts == {t \in Table : FreesTable(cb, t)}
           as == {a \in Acts : FreesActs(cb, a) \/ \E f \in fs : flow[f].sf_acts = a}
<1>0. rcu' = rcu \ {cb} /\ UNCHANGED <<table, cmd>>
  BY DEF rcu_callback
<1>1. Typed /\ CommandOK /\ Filled /\ FlowsOwned /\ ActsOwned /\ ActsApart /\ TablesOwned
      /\ Linked(table)
      /\ (cmd.op = "rehash" => Linked(cmd.new))
  BY DEF Store
<1>2. /\ mem' = mem \ (ts \cup fs \cup as)
      /\ tbl' = [t \in Table |-> IF t \in ts THEN OldTable ELSE tbl[t]]
      /\ flow' = [f \in Flow |-> IF f \in fs THEN OldFlow ELSE flow[f]]
      /\ fs \subseteq mem /\ fs \cap Live = {}
      /\ table \notin ts /\ cmd.new \notin ts
  BY CallbackFields
<1>3. /\ \A f \in Flow : f \in fs <=> FreesFlow(cb, f)
      /\ \A t \in Table : t \in ts <=> FreesTable(cb, t)
      /\ \A a \in Acts : a \in as <=> FreesActs(cb, a) \/ \E f \in fs : flow[f].sf_acts = a
      /\ fs \subseteq Flow /\ ts \subseteq Table /\ as \subseteq Acts
  OBVIOUS
<1> HIDE DEF fs, ts, as
<1>4. /\ \A f \in Flow : f \in mem' <=> f \in mem /\ f \notin fs
      /\ \A t \in Table : t \in mem' <=> t \in mem /\ t \notin ts
      /\ \A a \in Acts : a \in mem' <=> a \in mem /\ a \notin as
      /\ mem' \subseteq mem
  BY <1>2, <1>3, FlowTableAssumption, ZenonT(30)
<1>5. /\ \A f \in Flow \ fs : flow'[f] = flow[f]
      /\ \A t \in Table \ ts : tbl'[t] = tbl[t]
      /\ tbl'[table'] = tbl[table] /\ Live' = Live
  BY <1>0, <1>1, <1>2 DEF Live, Typed
<1>6. \A other \in rcu' : other \in rcu /\ other # cb
  BY <1>0
<1>7. \A other \in rcu', f \in Flow : FreesFlow(other, f)' <=> FreesFlow(other, f)
  <2> SUFFICES ASSUME NEW other \in rcu', NEW f \in Flow
               PROVE  FreesFlow(other, f)' <=> FreesFlow(other, f)
    OBVIOUS
  <2>1. CASE other.kind = "table"
    <3>1. other.obj \in Table /\ FreesTable(other, other.obj)
      BY <1>6, <2>1, DoomedTables DEF FreesTable
    <3>2. other.obj \notin ts
      BY <1>1, <1>3, <1>6, <3>1 DEF TablesOwned
    <3> QED
      BY <1>5, <3>1, <3>2 DEF FreesFlow
  <2>2. CASE other.kind # "table"
    BY <2>2 DEF FreesFlow
  <2> QED
    BY <2>1, <2>2
<1>8. Typed'
  <2>1. OldTable \in TableObj
    <3>1. tbl[table].bucket \in [Key -> Bucket] /\ tbl[table].node_ver \in Ver
      BY <1>1 DEF Typed, TableObj
    <3> QED
      BY <3>1, TableType
  <2>2. tbl' \in [Table -> TableObj]
    BY <1>1, <1>2, <2>1 DEF Typed
  <2>3. flow' \in [Flow -> FlowObj]
    BY <1>1, <1>2, FlowType DEF Typed
  <2> QED
    BY <1>0, <1>1, <1>4, <2>2, <2>3 DEF Typed
<1>9. cmd.op = "rehash" => tbl'[cmd.new] = tbl[cmd.new]
  BY <1>1, <1>2, <1>5 DEF CommandOK
<1>10. CommandOK'
  BY <1>0, <1>1, <1>5, <1>9 DEF CommandOK
<1>11. Filled' /\ ActsApart'
  BY <1>1, <1>4, <1>5 DEF Filled, ActsApart
<1>12. FlowsOwned'
  <2> SUFFICES ASSUME NEW f \in Flow
               PROVE  /\ f \in mem' <=> f \in Live \/ \E other \in rcu' : FreesFlow(other, f)
                      /\ \A other \in rcu' : FreesFlow(other, f) =>
                            f \notin Live /\ \A third \in rcu' : FreesFlow(third, f) => third = other
    BY <1>5, <1>7 DEF FlowsOwned
  <2>1. /\ f \in mem <=> f \in Live \/ \E other \in rcu : FreesFlow(other, f)
        /\ \A other \in rcu : FreesFlow(other, f) =>
              f \notin Live /\ \A third \in rcu : FreesFlow(third, f) => third = other
    BY <1>1 DEF FlowsOwned
  <2>2. (f \in mem' <=> f \in mem /\ f \notin fs) /\ (f \in fs <=> FreesFlow(cb, f))
    BY <1>3, <1>4
  <2> QED
    BY <1>0, <2>1, <2>2
<1>13. ActsOwned'
  <2>1. \A a \in Acts : Used(a)' <=> \E f \in Flow \cap mem : f \notin fs /\ flow[f].sf_acts = a
    BY <1>4, <1>5 DEF Used
  <2>2. \A a \in Acts : (\E f \in fs : flow[f].sf_acts = a) => Used(a) /\ ~Used(a)'
    BY <1>1, <1>2, <1>3, <2>1, ZenonT(30) DEF ActsApart, Used
  <2>3. \A a \in Acts : Used(a) <=> Used(a)' \/ \E f \in fs : flow[f].sf_acts = a
    BY <1>2, <1>3, <2>1, ZenonT(30) DEF Used
  <2>4. \A other, a : FreesActs(other, a)' <=> FreesActs(other, a)
    BY DEF FreesActs
  <2> SUFFICES ASSUME NEW a \in Acts
               PROVE  /\ a \in mem' <=> Used(a)' \/ \E other \in rcu' : FreesActs(other, a)
                      /\ \A other \in rcu' : FreesActs(other, a) =>
                            ~Used(a)' /\ \A third \in rcu' : FreesActs(third, a) => third = other
    BY <2>4 DEF ActsOwned
  <2>5. /\ a \in mem <=> Used(a) \/ \E other \in rcu : FreesActs(other, a)
        /\ \A other \in rcu : FreesActs(other, a) =>
              ~Used(a) /\ \A third \in rcu : FreesActs(third, a) => third = other
    BY <1>1 DEF ActsOwned
  <2> DEFINE freed == \E f \in fs : flow[f].sf_acts = a
  <2>6. /\ freed => Used(a) /\ ~Used(a)'
        /\ Used(a) <=> Used(a)' \/ freed
        /\ a \in as <=> FreesActs(cb, a) \/ freed
        /\ a \in mem' <=> a \in mem /\ a \notin as
    BY <1>3, <1>4, <2>2, <2>3, ZenonT(30)
  <2> HIDE DEF freed
  <2> QED
    BY <1>0, <2>5, <2>6, ZenonT(30)
<1>14. TablesOwned'
  BY ONLY <1>0, <1>1, <1>3, <1>4, <1>6, SMT DEF TablesOwned, FreesTable
<1>15. Linked(table)'
  <2>1. \A g \in Live : flow'[g] = flow[g]
    BY <1>1, <1>2, <1>5 DEF Typed, TableObj, Live
  <2> QED
    BY <1>1, <1>5, <2>1, ListSame, ZenonT(30) DEF Linked, Live
<1>16. (cmd.op = "rehash" => Linked(cmd.new))'
  <2> SUFFICES ASSUME cmd.op = "rehash" PROVE Linked(cmd.new)'
    BY <1>0
  <2>1. \A g \in tbl[cmd.new].flows : flow'[g] = flow[g]
    BY <1>1, <1>2, <1>5 DEF Typed, TableObj, Live, CommandOK
  <2>2. List(flow', tbl[cmd.new].flows, tbl[cmd.new].node_ver, tbl[cmd.new].head)
    BY <1>1, <2>1, ListSame DEF Linked
  <2> QED
    BY <1>0, <1>9, <2>2 DEF Linked
<1> QED
  BY <1>8, <1>10, <1>11, <1>12, <1>13, <1>14, <1>15, <1>16 DEF Store

\* A packet that is done is waited for no longer.
LEMMA UnlockStore ==
    ASSUME Store, NEW c \in Cpu, rcu_read_unlock(c)
    PROVE  Store'
<1> DEFINE Left(cb) == [cb EXCEPT !.wait = @ \ {c}]
<1>0. /\ rcu' = {Left(cb) : cb \in rcu}
      /\ UNCHANGED <<mem, table, tbl, flow, cmd>>
  BY DEF rcu_read_unlock
<1>1. Typed /\ CommandOK /\ Filled /\ FlowsOwned /\ ActsOwned /\ ActsApart /\ TablesOwned
      /\ Linked(table)
      /\ (cmd.op = "rehash" => Linked(cmd.new))
  BY DEF Store
<1>2. \A cb \in rcu : Left(cb) \in CallbackObj /\ Left(cb).kind = cb.kind /\ Left(cb).obj = cb.obj
  BY <1>1 DEF Typed, CallbackObj
<1> HIDE DEF Left
<1>3. \A cb \in rcu : /\ \A f : FreesFlow(Left(cb), f)' <=> FreesFlow(cb, f)
                      /\ \A a : FreesActs(Left(cb), a)' <=> FreesActs(cb, a)
                      /\ \A t : FreesTable(Left(cb), t)' <=> FreesTable(cb, t)
  BY <1>0, <1>2 DEF FreesFlow, FreesActs, FreesTable
<1>4. Typed'
  BY <1>0, <1>1, <1>2 DEF Typed
<1>5. CommandOK' /\ Filled' /\ ActsApart' /\ Linked(table)' /\ (cmd.op = "rehash" => Linked(cmd.new))'
  BY <1>0, <1>1 DEF CommandOK, Filled, ActsApart, Linked, Live
<1>6. Live' = Live /\ \A a \in Acts : Used(a)' <=> Used(a)
  BY <1>0 DEF Live, Used
<1>7. FlowsOwned'
  BY ONLY <1>0, <1>1, <1>3, <1>6, SMT DEF FlowsOwned
<1>8. ActsOwned'
  BY ONLY <1>0, <1>1, <1>3, <1>6, SMT DEF ActsOwned
<1>9. TablesOwned'
  BY ONLY <1>0, <1>1, <1>3, SMT DEF TablesOwned
<1> QED
  BY <1>4, <1>5, <1>7, <1>8, <1>9 DEF Store

\* A step that leaves memory, tables, flows, callbacks and the command alone
\* keeps the store.
LEMMA SameStore ==
    ASSUME Store, UNCHANGED <<mem, table, tbl, flow, rcu, cmd>>
    PROVE  Store'
<1>1. Typed' /\ CommandOK'
  BY DEF Store, Typed, CommandOK, Live
<1>2. Filled' /\ ActsApart'
  BY DEF Store, Filled, ActsApart
<1>3. FlowsOwned'
  BY SMT DEF Store, FlowsOwned, Live, FreesFlow
<1>4. ActsOwned' /\ TablesOwned'
  BY SMT DEF Store, ActsOwned, Used, FreesActs, TablesOwned, FreesTable
<1>5. Linked(table)' /\ (cmd.op = "rehash" => Linked(cmd.new))'
  BY DEF Store, Linked
<1> QED
  BY <1>1, <1>2, <1>3, <1>4, <1>5 DEF Store

\* The datapath starts with an empty table and nothing to free.
LEMMA StoreInit ==
    ASSUME Init PROVE Store
<1>1. PICK where \in [Key -> Bucket] :
        tbl = [t \in Table |-> IF t = table THEN NewTable(0, where) ELSE OldTable]
  BY DEF Init
<1>2. /\ table \in Table /\ mem = {table} /\ rcu = {} /\ cmd = NoCommand
      /\ flow = [f \in Flow |-> OldFlow] /\ cpu = [c \in Cpu |-> Idle]
      /\ table \notin Flow \cup Acts /\ table # NULL
  BY FlowTableAssumption DEF Init
<1>3. NewTable(0, where) \in TableObj /\ OldTable \in TableObj
  BY TableType DEF Ver
<1>4. /\ Live = {} /\ ~tbl[table].keep_flows
      /\ tbl[table].head = [b \in Bucket |-> NULL]
  BY <1>1, <1>2 DEF Live, NewTable
<1>5. Typed
  BY <1>1, <1>2, <1>3, FlowType DEF Typed, NoCommand
<1>6. CommandOK /\ Filled /\ ActsApart
  BY <1>2, <1>4 DEF CommandOK, Filled, ActsApart, NoCommand
<1>7. FlowsOwned /\ ActsOwned /\ TablesOwned
  BY ONLY <1>2, <1>4, FlowTableAssumption, SMT DEF FlowsOwned, ActsOwned, Used, TablesOwned, NoCommand
<1>8. Linked(table)
  BY <1>4 DEF Linked, List, Live
<1> QED
  BY <1>2, <1>5, <1>6, <1>7, <1>8 DEF Store, NoCommand

\* The store is an invariant.
LEMMA StoreInductive == Spec => []Store
<1>1. Init => Store
  BY StoreInit
<1>2. Store /\ [Next]_vars => Store'
  <2> SUFFICES ASSUME Store, [Next]_vars PROVE Store'
    OBVIOUS
  <2>1. CASE Command
    BY <2>1, RehashStore, FlushStore, CopyStore, PublishStore, NewStore, FailsStore, SetStore,
       DelStore DEF Command
  <2>2. ASSUME NEW c \in Cpu, Packet(c) PROVE Store'
    <3>1. CASE rcu_read_unlock(c)
      BY <3>1, UnlockStore
    <3>2. CASE ~rcu_read_unlock(c)
      <4>1. UNCHANGED <<mem, table, tbl, flow, rcu, cmd>>
        <5>1. CASE \E k \in Key : receive(c, k)
          BY <5>1 DEF receive
        <5>2. CASE find_bucket(c) \/ lookup_next(c)
          BY <5>2 DEF find_bucket, lookup_next
        <5>3. CASE lookup_miss(c) \/ execute_actions(c)
          BY <5>3 DEF lookup_miss, execute_actions
        <5> QED
          BY <2>2, <3>2, <5>1, <5>2, <5>3 DEF Packet
      <4> QED
        BY <4>1, SameStore
    <3> QED
      BY <3>1, <3>2
  <2>3. ASSUME NEW cb \in rcu, rcu_callback(cb) PROVE Store'
    BY <2>3, CallbackStore
  <2>4. CASE UNCHANGED vars
    BY <2>4, SameStore DEF vars
  <2> QED
    BY <2>1, <2>2, <2>3, <2>4 DEF Next
<1> QED
  BY <1>1, <1>2, PTL DEF Spec

\* Every flow, list of actions and table in memory is in use or has exactly one
\* callback that will free it: nothing leaks and nothing is freed twice, although
\* a rebuild lets the old and the new table share their flows.
THEOREM EverythingOwnedOnce == Spec => []OneOwner
<1>1. Store => OneOwner
  BY DEF Store, OneOwner, Owned, FlowsOwned, ActsOwned, ActsApart, TablesOwned, Used, Live
<1> QED
  BY <1>1, StoreInductive, PTL
-----------------------------------------------------------------------------
\* What packets may meet.

\* The callbacks that wait for packet c, the flows it may meet, and those that
\* its table's lists may lead it to.
Waits(c) == {cb \in rcu : c \in cb.wait}
Safe(c) == {f \in Flow : f \in Live \/ \E cb \in Waits(c) : FreesFlow(cb, f)}
SafeActs(c, a) ==
    (\E f \in Safe(c) : flow[f].sf_acts = a) \/ (\E cb \in Waits(c) : FreesActs(cb, a))
SafeTable(c, t) == t = table \/ \E cb \in Waits(c) : FreesTable(cb, t)
Node(c, f) == flow[f].next[tbl[cpu[c].tbl].node_ver]
Good(c) == {f \in Safe(c) : Node(c, f) # Junk}

ReaderOK(c) ==
    /\ cpu[c].tbl \in Table /\ cpu[c].key \in Key
    /\ SafeTable(c, cpu[c].tbl)
    /\ \A b \in Bucket : tbl[cpu[c].tbl].head[b] \in Good(c) \cup {NULL}
    /\ \A f \in Good(c) : Node(c, f) \in Good(c) \cup {NULL}
    /\ cpu[c].pc = "lookup" => cpu[c].at \in Good(c) \cup {NULL}
    /\ cpu[c].pc = "found" => cpu[c].at \in Good(c)
    /\ cpu[c].pc = "run" => SafeActs(c, cpu[c].at)

Readers ==
    /\ cpu \in [Cpu -> [pc : {"idle", "bucket", "lookup", "found", "miss", "run"},
                        key : Key \cup {NULL}, tbl : Table \cup {NULL},
                        at : Flow \cup Acts \cup {NULL}]]
    /\ \A cb \in rcu : cb.wait \subseteq Reading
    /\ \A c \in Reading : ReaderOK(c)

IInv == Store /\ Readers
-----------------------------------------------------------------------------
\* Packets.

\* What is safe for a packet is allocated.
LEMMA SafeInMem ==
    ASSUME Store, NEW c \in Cpu
    PROVE  /\ Safe(c) \subseteq mem
           /\ \A t \in Table : SafeTable(c, t) => t \in mem /\ t # cmd.new
           /\ \A a \in Acts : SafeActs(c, a) => a \in mem
<1>1. Typed /\ CommandOK /\ FlowsOwned /\ ActsOwned /\ TablesOwned
  BY DEF Store
<1>2. Safe(c) \subseteq mem
  BY <1>1 DEF Safe, Waits, FlowsOwned
<1>3. table # cmd.new
  BY <1>1, FlowTableAssumption DEF CommandOK, Typed
<1>4. \A t \in Table : SafeTable(c, t) => t \in mem /\ t # cmd.new
  BY <1>1, <1>3 DEF SafeTable, Waits, TablesOwned
<1>5. \A a \in Acts : (\E f \in Safe(c) : flow[f].sf_acts = a) => Used(a)
  BY <1>2 DEF Used, Safe
<1> QED
  BY <1>1, <1>2, <1>4, <1>5 DEF SafeActs, Waits, ActsOwned

\* The nodes of a list are initialised.
LEMMA ListNodes ==
    ASSUME NEW fl, NEW S \in SUBSET Flow, NEW v, NEW head, List(fl, S, v, head), NEW f \in S
    PROVE  fl[f].next[v] \in S \cup {NULL} /\ fl[f].next[v] # Junk
BY FlowTableAssumption DEF List

\* A step of another keeps a packet out of harm if what was safe and good stays
\* so, and the lists still lead from good flows to good ones.
LEMMA ReaderMoves ==
    ASSUME NEW c \in Cpu, ReaderOK(c), cpu' = cpu,
           SafeTable(c, cpu[c].tbl)',
           Good(c) \subseteq Good(c)',
           \A b \in Bucket : tbl'[cpu[c].tbl].head[b] \in Good(c)' \cup {NULL},
           \A f \in Good(c)' : Node(c, f)' \in Good(c)' \cup {NULL},
           cpu[c].pc = "run" => SafeActs(c, cpu[c].at)'
    PROVE  ReaderOK(c)'
BY DEF ReaderOK

\* A packet in its read section, before a step of a command or a callback.
Before(c) ==
    /\ Store
    /\ c \in Reading
    /\ ReaderOK(c)
    /\ cpu' = cpu

\* What the invariant gives about a packet before such a step.
LEMMA BeforeFacts ==
    ASSUME NEW c \in Cpu, Before(c)
    PROVE  /\ cpu[c].tbl \in Table /\ cpu[c].tbl \in mem /\ cpu[c].tbl # cmd.new
           /\ tbl[cpu[c].tbl].node_ver \in Ver
           /\ Safe(c) \subseteq mem /\ Safe(c) \subseteq Flow
           /\ SafeTable(c, cpu[c].tbl)
           /\ cpu[c].pc = "run" => SafeActs(c, cpu[c].at)
           /\ \A b \in Bucket : tbl[cpu[c].tbl].head[b] \in Good(c) \cup {NULL}
           /\ \A f \in Good(c) : Node(c, f) \in Good(c) \cup {NULL}
<1>1. cpu[c].tbl \in Table /\ SafeTable(c, cpu[c].tbl) /\ Store /\ Typed
  BY DEF Before, ReaderOK, Store
<1>2. cpu[c].tbl \in mem /\ cpu[c].tbl # cmd.new /\ Safe(c) \subseteq mem
  BY <1>1, SafeInMem
<1>3. tbl[cpu[c].tbl].node_ver \in Ver
  BY <1>1 DEF Typed, TableObj
<1> QED
  BY <1>1, <1>2, <1>3 DEF Before, ReaderOK, Safe

\* Steps by which no flow changes, neither do the heads of the packet's table.
LEMMA ReaderSame ==
    ASSUME NEW c \in Cpu, Before(c), flow' = flow,
           tbl'[cpu[c].tbl].node_ver = tbl[cpu[c].tbl].node_ver,
           tbl'[cpu[c].tbl].head = tbl[cpu[c].tbl].head,
           Safe(c)' = Safe(c),
           SafeTable(c, cpu[c].tbl)', Waits(c) \subseteq Waits(c)'
    PROVE  ReaderOK(c)'
<1>1. ReaderOK(c) /\ cpu' = cpu
  BY DEF Before
<1>2. \A f : Node(c, f)' = Node(c, f)
  BY <1>1 DEF Node
<1>3. Good(c)' = Good(c)
  BY <1>2, SMT DEF Good
<1>4. cpu[c].pc = "run" => SafeActs(c, cpu[c].at)'
  BY <1>1 DEF ReaderOK, SafeActs, FreesActs
<1> QED
  BY <1>1, <1>2, <1>3, <1>4, BeforeFacts, ReaderMoves

\* A rehash writes a new table only: the packet does not read it.
LEMMA RehashReader ==
    ASSUME NEW c \in Cpu, Before(c),
           NEW t \in Table, NEW where \in [Key -> Bucket], NEW k \in Key \cup {NULL},
           flow_tbl_rehash(t, where, k)
    PROVE  ReaderOK(c)' /\ Safe(c)' = Safe(c) /\ tbl'[cpu[c].tbl] = tbl[cpu[c].tbl]
<1>0. /\ t \notin mem /\ UNCHANGED <<table, flow, rcu>>
      /\ tbl' = [tbl EXCEPT ![t] = NewTable(1 - tbl[table].node_ver, where)]
  BY DEF flow_tbl_rehash
<1>1. Store /\ Typed /\ table \in mem
  BY DEF Before, Store, Typed, TablesOwned
<1>2. \A u \in Table \ {t} : tbl'[u] = tbl[u]
  BY <1>0, <1>1 DEF Typed
<1>3. tbl'[cpu[c].tbl] = tbl[cpu[c].tbl] /\ Live' = Live
  BY <1>0, <1>1, <1>2, BeforeFacts, SMT DEF Live, Typed
<1>4. \A cb \in rcu, f \in Flow : FreesFlow(cb, f)' <=> FreesFlow(cb, f)
  BY <1>0, <1>1, <1>2, DoomedTables, FreesSame
<1>5. Waits(c)' = Waits(c)
  BY <1>0 DEF Waits
<1>6. Safe(c)' = Safe(c)
  BY <1>3, <1>4, <1>5 DEF Safe, Waits
<1>7. SafeTable(c, cpu[c].tbl)'
  BY <1>0, <1>5, BeforeFacts DEF SafeTable, FreesTable, Before
<1> QED
  BY <1>0, <1>3, <1>5, <1>6, <1>7, ReaderSame

\* A table that is no longer current waits for the packets that read it.
LEMMA PublishReader ==
    ASSUME NEW c \in Cpu, Before(c), flow_tbl_publish
    PROVE  ReaderOK(c)' /\ Safe(c)' = Safe(c)
<1>a. PICK new : new = Callback("table", table)
  OBVIOUS
<1>0. /\ cmd.op = "rehash" /\ cmd.left = {} /\ table' = cmd.new /\ rcu' = rcu \cup {new} /\ flow' = flow
      /\ tbl' = [tbl EXCEPT ![table].keep_flows = TRUE]
  BY <1>a DEF flow_tbl_publish
<1>1. Store /\ Typed /\ CommandOK /\ c \in Reading
  BY DEF Before, Store
<1>2. new.kind = "table" /\ new.obj = table /\ c \in new.wait
  BY <1>a, <1>1 DEF Callback
<1>3. /\ tbl'[table].keep_flows
      /\ \A u \in Table : /\ tbl'[u].flows = tbl[u].flows /\ tbl'[u].head = tbl[u].head
                          /\ tbl'[u].node_ver = tbl[u].node_ver
                          /\ u # table => tbl'[u] = tbl[u]
  BY <1>0, <1>1, ZenonT(30) DEF Typed, TableObj
<1>4. Live' = Live
  BY <1>0, <1>1, <1>3, ZenonT(30) DEF CommandOK, Live
<1>5. \A cb \in rcu, f \in Flow : FreesFlow(cb, f)' <=> FreesFlow(cb, f)
  BY <1>1, <1>3, DoomedTables, FreesSame
<1>6. \A f \in Flow : ~FreesFlow(new, f)'
  BY <1>2, <1>3 DEF FreesFlow
<1>7. Waits(c)' = Waits(c) \cup {new}
  BY <1>0, <1>2 DEF Waits
<1>8. Safe(c)' = Safe(c)
  BY <1>4, <1>5, <1>6, <1>7 DEF Safe, Waits
<1>9. SafeTable(c, cpu[c].tbl)'
  BY <1>0, <1>2, <1>7, BeforeFacts DEF SafeTable, FreesTable, Before
<1> QED
  BY <1>0, <1>3, <1>7, <1>8, <1>9, BeforeFacts, ReaderSame

\* The flows of a flushed table are freed after the packets that read them.
LEMMA FlushReader ==
    ASSUME NEW c \in Cpu, Before(c),
           NEW t \in Table, NEW where \in [Key -> Bucket], flush_flows(t, where)
    PROVE  ReaderOK(c)' /\ Safe(c)' = Safe(c) /\ tbl'[cpu[c].tbl] = tbl[cpu[c].tbl]
<1>a. PICK new : new = Callback("table", table)
  OBVIOUS
<1>0. /\ t \notin mem /\ tbl' = [tbl EXCEPT ![t] = NewTable(0, where)]
      /\ table' = t /\ rcu' = rcu \cup {new} /\ flow' = flow
  BY <1>a DEF flush_flows
<1>1. Store /\ Typed /\ CommandOK /\ c \in Reading /\ table \in mem /\ table \in Table
  BY DEF Before, Store, Typed, TablesOwned
<1>2. new.kind = "table" /\ new.obj = table /\ c \in new.wait
  BY <1>a, <1>1 DEF Callback
<1>3. tbl'[t] = NewTable(0, where) /\ \A u \in Table \ {t} : tbl'[u] = tbl[u]
  BY <1>0, <1>1 DEF Typed
<1>4. Live' = {} /\ t # table /\ tbl'[cpu[c].tbl] = tbl[cpu[c].tbl]
  BY <1>0, <1>1, <1>3, BeforeFacts, SMT DEF Live, NewTable
<1>5. \A cb \in rcu, f \in Flow : FreesFlow(cb, f)' <=> FreesFlow(cb, f)
  BY <1>0, <1>1, <1>3, DoomedTables, FreesSame
<1>6. \A f \in Flow : FreesFlow(new, f)' <=> f \in Live
  BY <1>1, <1>2, <1>3, <1>4 DEF FreesFlow, CommandOK, Live
<1>7. Waits(c)' = Waits(c) \cup {new}
  BY <1>0, <1>2 DEF Waits
<1>8. Safe(c)' = Safe(c)
  BY <1>4, <1>5, <1>6, <1>7, ZenonT(30) DEF Safe, Waits
<1>9. SafeTable(c, cpu[c].tbl)'
  BY <1>0, <1>2, <1>7, BeforeFacts DEF SafeTable, FreesTable, Before
<1> QED
  BY <1>0, <1>4, <1>7, <1>8, <1>9, ReaderSame
\* Replaced actions are freed after the packets that read them.
LEMMA SetReader ==
    ASSUME NEW c \in Cpu, Before(c), NEW f \in Flow, NEW s \in Acts, ovs_flow_cmd_set(f, s)
    PROVE  ReaderOK(c)' /\ Safe(c)' = Safe(c)
<1>a. PICK new : new = Callback("acts", flow[f].sf_acts)
  OBVIOUS
<1>0. /\ flow' = [flow EXCEPT ![f].sf_acts = s] /\ rcu' = rcu \cup {new}
      /\ UNCHANGED <<table, tbl>>
  BY <1>a DEF ovs_flow_cmd_set
<1>1. Typed /\ ReaderOK(c) /\ c \in Reading /\ cpu' = cpu
  BY DEF Before, Store
<1>2. new.kind = "acts" /\ new.obj = flow[f].sf_acts /\ c \in new.wait
  BY <1>a, <1>1 DEF Callback
<1>3. /\ \A g \in Flow : flow'[g].next = flow[g].next
      /\ \A g \in Flow \ {f} : flow'[g].sf_acts = flow[g].sf_acts
  BY <1>0, <1>1 DEF Typed, FlowObj
<1>4. Waits(c)' = Waits(c) \cup {new}
  BY <1>0, <1>2 DEF Waits
<1>5. Safe(c)' = Safe(c)
  BY <1>0, <1>2, <1>4 DEF Safe, Live, FreesFlow
<1>6. \A g \in Flow : Node(c, g)' = Node(c, g)
  BY <1>0, <1>1, <1>3 DEF Node
<1>7. Good(c)' = Good(c) /\ Good(c) \subseteq Flow
  BY <1>5, <1>6 DEF Good, Safe
<1>8. SafeTable(c, cpu[c].tbl)'
  BY <1>0, <1>1, <1>4, BeforeFacts DEF SafeTable, FreesTable
<1>9. \A a : SafeActs(c, a) => SafeActs(c, a)'
  <2> SUFFICES ASSUME NEW a, SafeActs(c, a) PROVE SafeActs(c, a)'
    OBVIOUS
  <2>1. CASE \E cb \in Waits(c) : FreesActs(cb, a)
    BY <1>4, <2>1 DEF SafeActs, FreesActs
  <2>2. CASE \E g \in Safe(c) : flow[g].sf_acts = a
    <3>1. PICK g \in Safe(c) : flow[g].sf_acts = a
      BY <2>2
    <3>2. g \in Flow
      BY DEF Safe
    <3>3. CASE g = f
      BY <1>2, <1>4, <3>1, <3>3 DEF SafeActs, FreesActs
    <3>4. CASE g # f
      BY <1>3, <1>5, <3>1, <3>2, <3>4 DEF SafeActs
    <3> QED
      BY <3>3, <3>4
  <2> QED
    BY <2>1, <2>2 DEF SafeActs
<1>10. cpu[c].pc = "run" => SafeActs(c, cpu[c].at)'
  BY <1>1, <1>9 DEF ReaderOK
<1> QED
  BY <1>0, <1>1, <1>5, <1>6, <1>7, <1>8, <1>10, BeforeFacts, ReaderMoves, SMT

\* The three steps that link nodes: what was safe stays so, actions stay, and the
\* nodes of the packet's version stay good.
LEMMA ReaderLinks ==
    ASSUME NEW c \in Cpu, Before(c),
           Safe(c) \subseteq Safe(c)', Safe(c)' \subseteq Flow, Waits(c) \subseteq Waits(c)', table' = table,
           tbl'[cpu[c].tbl].node_ver = tbl[cpu[c].tbl].node_ver,
           \A f \in Safe(c) : flow'[f].sf_acts = flow[f].sf_acts,
           \A b \in Bucket : tbl'[cpu[c].tbl].head[b] \in Good(c) \cup {NULL}
                          \/ tbl'[cpu[c].tbl].head[b] \in Good(c)',
           \A f \in Safe(c)' : \/ f \in Safe(c) /\ Node(c, f)' = Node(c, f)
                               \/ Node(c, f)' = Junk /\ f \notin Safe(c)
                               \/ Node(c, f)' \in Good(c)' \cup {NULL}
    PROVE  ReaderOK(c)'
<1>1. ReaderOK(c) /\ cpu' = cpu
  BY DEF Before
<1>2. NULL # Junk /\ Good(c)' \subseteq Flow
  BY FlowTableAssumption DEF Good
<1>3. Good(c) \subseteq Good(c)'
  BY <1>2, FlowTableAssumption DEF Good
<1>4. \A f \in Good(c)' : Node(c, f)' \in Good(c)' \cup {NULL}
  <2> SUFFICES ASSUME NEW f \in Good(c)' PROVE Node(c, f)' \in Good(c)' \cup {NULL}
    OBVIOUS
  <2>1. f \in Safe(c)' /\ Node(c, f)' # Junk
    BY DEF Good
  <2>2. CASE f \in Safe(c) /\ Node(c, f)' = Node(c, f)
    <3>1. f \in Good(c)
      BY <2>1, <2>2 DEF Good
    <3> QED
      BY <1>3, <2>2, <3>1, BeforeFacts
  <2> QED
    BY <2>1, <2>2
<1>5. SafeTable(c, cpu[c].tbl)'
  BY <1>1, BeforeFacts DEF SafeTable, FreesTable
<1>6. cpu[c].pc = "run" => SafeActs(c, cpu[c].at)'
  BY <1>1 DEF ReaderOK, SafeActs, FreesActs
<1> QED
  BY <1>1, <1>3, <1>4, <1>5, <1>6, ReaderMoves

\* Copying a flow writes nodes of the other version, or, for a packet two
\* rebuilds behind, leads it from good flows to good ones.
LEMMA CopyReader ==
    ASSUME NEW c \in Cpu, Before(c), NEW f \in Flow, flow_table_copy_flow(f)
    PROVE  ReaderOK(c)' /\ Safe(c)' = Safe(c) /\ tbl'[cpu[c].tbl] = tbl[cpu[c].tbl]
<1> DEFINE N == cmd.new
           v == tbl[N].node_ver
           b == tbl[N].bucket[flow[f].key]
<1>a. PICK first : first = tbl[N].head[b]
  OBVIOUS
<1>0. /\ cmd.op = "rehash" /\ f \in cmd.left
      /\ flow' = FlowsWith(flow, N, f)
      /\ tbl' = [tbl EXCEPT ![N] = TableWith(N, f, flow[f].key)]
      /\ UNCHANGED <<mem, table, rcu>>
  BY DEF flow_table_copy_flow
<1>1. Store /\ Typed /\ CommandOK /\ Filled /\ FlowsOwned /\ Linked(N) /\ cpu' = cpu
  BY <1>0 DEF Store, Before
<1>2. N \in Table /\ N # table /\ f \in Live /\ f \notin tbl[N].flows /\ tbl[N].flows \subseteq Live
  BY <1>0, <1>1 DEF CommandOK
<1>3. flow[f].key \in Key /\ v \in Ver /\ b \in Bucket
  <2>1. flow[f].key \in Key
    BY <1>1, <1>2 DEF FlowsOwned, Filled
  <2> QED
    BY <1>1, <1>2, <2>1, SMT DEF Typed, TableObj
<1>4. List(flow, tbl[N].flows, v, tbl[N].head) /\ tbl[N].flows \in SUBSET Flow
  BY <1>1, <1>2 DEF Linked, Typed, TableObj
<1> HIDE DEF v, b
<1>5. first # f /\ first \in tbl[N].flows \cup {NULL}
  <2>1. f \in Flow \ tbl[N].flows
    BY <1>2
  <2>2. tbl[N].head[b] \in tbl[N].flows \cup {NULL} /\ tbl[N].head[b] # f
    <3>1. b \in Bucket
      BY <1>3, Zenon
    <3> QED
      BY ONLY <1>4, <2>1, <3>1, ListFirst, SMT
  <2> QED
    BY <1>a, <2>2
<1>6. Added(flow, flow', f, v, b, first)
  BY <1>a, <1>0, <1>1, <1>2, <1>3, <1>5, FlowsWithAdds, ZenonT(30) DEF Typed, v, b
<1>7. \A u \in Table \ {N} : tbl'[u] = tbl[u]
  BY <1>0, <1>1 DEF Typed
<1>8. tbl'[cpu[c].tbl] = tbl[cpu[c].tbl] /\ Live' = Live
  BY <1>0, <1>1, <1>2, <1>7, BeforeFacts DEF Live, Typed
<1>9. \A cb \in rcu, g \in Flow : FreesFlow(cb, g)' <=> FreesFlow(cb, g)
  BY <1>1, <1>7, DoomedTables, FreesSame
<1>10. Waits(c)' = Waits(c)
  BY <1>0 DEF Waits
<1>11. Safe(c)' = Safe(c) /\ Safe(c) \subseteq Flow /\ Live \subseteq Safe(c)
  <2>1. Live \subseteq Flow
    BY <1>1 DEF Typed, TableObj, Live
  <2> QED
    BY <1>8, <1>9, <1>10, <2>1 DEF Safe, Waits
<1>12. \A g \in Safe(c) : Node(c, g)' = Node(c, g) \/ Node(c, g)' \in Good(c)' \cup {NULL}
  <2>1. ASSUME NEW g \in Safe(c), g # f \/ tbl[cpu[c].tbl].node_ver # v
        PROVE  Node(c, g)' = Node(c, g)
    <3>1. \A h \in Flow, w \in Ver : h # f \/ w # v => flow'[h].next[w] = flow[h].next[w]
      BY <1>6, Zenon DEF Added
    <3>2. g \in Flow /\ tbl[cpu[c].tbl].node_ver \in Ver
      BY <1>11, BeforeFacts, Zenon
    <3>3. Node(c, g)' = flow'[g].next[tbl[cpu[c].tbl].node_ver]
      BY <1>1, <1>8, Zenon DEF Node
    <3> QED
      BY <2>1, <3>1, <3>2, <3>3, Zenon DEF Node
  <2>2. ASSUME tbl[cpu[c].tbl].node_ver = v PROVE Node(c, f)' \in Good(c)' \cup {NULL}
    <3>1. Node(c, f)' = first
      BY <1>1, <1>6, <1>8, <2>2 DEF Node, Added
    <3>2. first # NULL => flow[first].next[v] # Junk
      BY <1>4, <1>5, ListNodes, ZenonT(30)
    <3>3. first # NULL => first \in Safe(c) /\ Node(c, first) # Junk
      BY <1>2, <1>5, <1>11, <2>2, <3>2 DEF Node
    <3>4. first # NULL => Node(c, first)' # Junk
      BY <1>5, <2>1, <3>3
    <3> QED
      BY <1>11, <3>1, <3>3, <3>4 DEF Good
  <2> QED
    BY <2>1, <2>2
<1>13. \A g \in Flow : flow'[g].sf_acts = flow[g].sf_acts
  BY <1>6 DEF Added
<1> QED
  BY <1>0, <1>8, <1>10, <1>11, <1>12, <1>13, BeforeFacts, ReaderLinks

\* An inserted flow is reached with its node initialised.
LEMMA NewReader ==
    ASSUME NEW c \in Cpu, Before(c),
           NEW k \in Key, NEW f \in Flow, NEW s \in Acts, ovs_flow_cmd_new(k, f, s)
    PROVE  ReaderOK(c)' /\ Safe(c)' = Safe(c) \cup {f} /\ f \notin Safe(c)
<1> DEFINE v == tbl[table].node_ver
           b == tbl[table].bucket[k]
           fl == [flow EXCEPT ![f] = NewFlow(k, s)]
<1>a. PICK first : first = tbl[table].head[b]
  OBVIOUS
<1>0. f \notin mem /\ UNCHANGED <<table, rcu>>
  BY DEF ovs_flow_cmd_new
<1>1. Store /\ Typed /\ cpu' = cpu
  BY DEF Store, Before
<1>2. /\ v \in Ver /\ b \in Bucket /\ f \notin Live
      /\ fl \in [Flow -> FlowObj] /\ fl[f] = NewFlow(k, s)
      /\ \A g \in Flow \ {f} : fl[g] = flow[g]
      /\ List(fl, Live, v, tbl[table].head)
      /\ Added(fl, flow', f, v, b, first)
      /\ tbl'[table].node_ver = v
      /\ tbl'[table].head = [tbl[table].head EXCEPT ![b] = f]
      /\ \A u \in Table \ {table} : tbl'[u] = tbl[u]
      /\ Live' = Live \cup {f}
  BY <1>a, <1>1, NewFields
<1> HIDE DEF fl, v, b
<1>3. Live \in SUBSET Flow /\ tbl[table].head \in [Bucket -> Flow \cup {NULL}]
  BY <1>1 DEF Typed, TableObj, Live
<1>4. first \in Live \cup {NULL} /\ first # f
  BY <1>a, <1>2, <1>3, ListFirst, SMT
<1>5. \A cb \in rcu, g \in Flow : FreesFlow(cb, g)' <=> FreesFlow(cb, g)
  BY <1>1, <1>2, DoomedTables, FreesSame
<1>6. Waits(c)' = Waits(c)
  BY <1>0 DEF Waits
<1>7. Safe(c)' = Safe(c) \cup {f} /\ Live \subseteq Safe(c) /\ f \notin Safe(c) /\ Safe(c) \subseteq Flow
  <2>1. Safe(c) \subseteq mem /\ Safe(c) \subseteq Flow
    BY ONLY c \in Cpu, Before(c), BeforeFacts, Zenon
  <2>2. Waits(c) \subseteq rcu
    BY DEF Waits
  <2>3. Live' = Live \cup {f}
    BY <1>2
  <2>4. Live \subseteq Safe(c)
    BY <1>3 DEF Safe
  <2>5. \A g \in Flow : g \in Safe(c)' <=> g \in Safe(c) \/ g = f
    BY ONLY <1>5, <1>6, <2>2, <2>3, f \in Flow, Zenon DEF Safe
  <2>6. Safe(c)' \subseteq Flow
    BY ONLY TRUE, Zenon DEF Safe
  <2> QED
    BY ONLY <1>0, <2>1, <2>4, <2>5, <2>6, f \in Flow, Zenon
<1>8. tbl'[cpu[c].tbl].node_ver = tbl[cpu[c].tbl].node_ver
  BY <1>2, BeforeFacts DEF v
<1>9. \A g \in Safe(c) : Node(c, g)' = Node(c, g)
  <2>1. \A g \in Flow, w \in Ver : g # f => flow'[g].next[w] = fl[g].next[w]
    BY ONLY <1>2, SMT DEF Added
  <2>2. \A g \in Safe(c) : g \in Flow /\ g # f /\ fl[g] = flow[g]
    BY <1>2, <1>7
  <2>3. tbl[cpu[c].tbl].node_ver \in Ver
    BY BeforeFacts
  <2>4. \A g \in Safe(c) : Node(c, g)' = flow'[g].next[tbl[cpu[c].tbl].node_ver]
    BY <1>1, <1>8, Zenon DEF Node
  <2>5. ASSUME NEW g \in Safe(c)
        PROVE  flow'[g].next[tbl[cpu[c].tbl].node_ver] = flow[g].next[tbl[cpu[c].tbl].node_ver]
    <3>1. g \in Flow /\ g # f /\ fl[g] = flow[g]
      BY <2>2, Zenon
    <3>2. flow'[g].next[tbl[cpu[c].tbl].node_ver] = fl[g].next[tbl[cpu[c].tbl].node_ver]
      BY <2>1, <2>3, <3>1, Zenon
    <3> QED
      BY <3>1, <3>2, Zenon
  <2> QED
    BY <2>4, <2>5, Zenon DEF Node
<1>10. ASSUME tbl[cpu[c].tbl].node_ver = v
       PROVE  Node(c, f)' \in Good(c)' \cup {NULL} /\ f \in Good(c)'
  <2>1. Node(c, f)' = first
    BY <1>1, <1>2, <1>8, <1>10 DEF Node, Added
  <2>2. ASSUME first # NULL PROVE fl[first].next[v] # Junk
    <3>1. first \in Live
      BY <1>4, <2>2
    <3>2. Live \in SUBSET Flow /\ List(fl, Live, v, tbl[table].head)
      BY <1>2, <1>3, Zenon
    <3> QED
      BY ONLY <3>1, <3>2, ListNodes, Zenon
  <2>3. first # NULL => first \in Safe(c) /\ first \in Flow /\ Node(c, first) # Junk
    BY <1>2, <1>3, <1>4, <1>7, <1>10, <2>2 DEF Node
  <2>4. first # NULL => first \in Good(c)'
    BY <1>7, <1>9, <2>3 DEF Good
  <2>5. first # Junk
    BY <1>3, <1>4, FlowTableAssumption
  <2> QED
    BY <1>7, <2>1, <2>4, <2>5 DEF Good
<1>11. ASSUME tbl[cpu[c].tbl].node_ver # v PROVE Node(c, f)' = Junk
  <2>1. \A w \in Ver : w # v => flow'[f].next[w] = fl[f].next[w]
    BY ONLY <1>2, SMT DEF Added
  <2>2. \A w \in Ver : fl[f].next[w] = Junk
    BY <1>2, SMT DEF NewFlow
  <2>3. tbl[cpu[c].tbl].node_ver \in Ver
    BY BeforeFacts
  <2> QED
    BY <1>1, <1>8, <1>11, <2>1, <2>2, <2>3 DEF Node
<1>12. \A a \in Bucket : \/ tbl'[cpu[c].tbl].head[a] \in Good(c) \cup {NULL}
                         \/ tbl'[cpu[c].tbl].head[a] \in Good(c)'
  <2>1. CASE cpu[c].tbl = table
    BY <1>2, <1>3, <1>10, <2>1, BeforeFacts DEF v
  <2>2. CASE cpu[c].tbl # table
    BY <1>2, <2>2, BeforeFacts
  <2> QED
    BY <2>1, <2>2
<1>13. \A g \in Safe(c) : flow'[g].sf_acts = flow[g].sf_acts
  BY <1>2, <1>7 DEF Added
<1> QED
  BY <1>0, <1>6, <1>7, <1>8, <1>9, <1>10, <1>11, <1>12, <1>13, ReaderLinks

\* A removed flow still leads the packets that reached it back into the list.
LEMMA DelReader ==
    ASSUME NEW c \in Cpu, Before(c), NEW f \in Flow, ovs_flow_cmd_del(f)
    PROVE  ReaderOK(c)' /\ Safe(c)' = Safe(c)
<1> DEFINE v == tbl[table].node_ver
<1>a. PICK new, n, p : new = Callback("flow", f) /\ n = flow[f].next[v] /\ p = flow[f].pprev[v]
  BY ZenonT(30)
<1>0. rcu' = rcu \cup {new} /\ UNCHANGED table
  BY <1>a DEF ovs_flow_cmd_del
<1>1. Store /\ Typed /\ Linked(table) /\ cpu' = cpu /\ c \in Reading
  BY DEF Store, Before
<1>2. /\ v \in Ver /\ f \in Live /\ n \in Live \cup {NULL}
      /\ Removed(flow, flow', n, p, v)
      /\ tbl'[table].node_ver = v
      /\ tbl'[table].head = Bypass(tbl[table].head, n, p)
      /\ \A u \in Table \ {table} : tbl'[u] = tbl[u]
      /\ Live' = Live \ {f}
  BY <1>a, <1>1, DelFields
<1> HIDE DEF v
<1>3. new.kind = "flow" /\ new.obj = f /\ c \in new.wait
  BY <1>a, <1>1 DEF Callback
<1>4. Live \in SUBSET Flow /\ List(flow, Live, v, tbl[table].head)
  BY <1>1 DEF Typed, TableObj, Live, Linked, v
<1>5. \A cb \in rcu, g \in Flow : FreesFlow(cb, g)' <=> FreesFlow(cb, g)
  BY <1>1, <1>2, DoomedTables, FreesSame
<1>6. \A g \in Flow : FreesFlow(new, g)' <=> g = f
  BY <1>3 DEF FreesFlow
<1>7. Waits(c)' = Waits(c) \cup {new}
  BY <1>0, <1>3 DEF Waits
<1>8. Safe(c)' = Safe(c) /\ Live \subseteq Safe(c) /\ Safe(c) \subseteq Flow
  BY <1>2, <1>4, <1>5, <1>6, <1>7 DEF Safe, Waits
<1>9. tbl'[cpu[c].tbl].node_ver = tbl[cpu[c].tbl].node_ver
  BY <1>2, BeforeFacts DEF v
<1>10. ASSUME NEW g \in Safe(c), g # p \/ tbl[cpu[c].tbl].node_ver # v
       PROVE  Node(c, g)' = Node(c, g)
  <2>1. \A w \in Ver : g # p \/ w # v => flow'[g].next[w] = flow[g].next[w]
    BY <1>2, <1>8 DEF Removed
  <2>2. tbl[cpu[c].tbl].node_ver \in Ver
    BY BeforeFacts
  <2> QED
    BY <1>1, <1>9, <1>10, <2>1, <2>2 DEF Node
<1>11. ASSUME tbl[cpu[c].tbl].node_ver = v
       PROVE  /\ n # NULL => n \in Good(c)'
              /\ p \in Flow => Node(c, p)' = n
  <2>1. p \in Flow => Node(c, p)' = n
    BY <1>1, <1>2, <1>9, <1>11 DEF Node, Removed
  <2>2. n # NULL => flow[n].next[v] # Junk /\ n \in Safe(c)
    BY <1>2, <1>4, <1>8, ListNodes, ZenonT(60)
  <2>3. n # Junk
    BY <1>2, <1>4, FlowTableAssumption
  <2>4. n # NULL => Node(c, n)' # Junk
    BY <1>8, <1>10, <1>11, <2>1, <2>2, <2>3 DEF Node
  <2> QED
    BY <1>8, <2>1, <2>2, <2>4 DEF Good
<1>12. \A b \in Bucket : \/ tbl'[cpu[c].tbl].head[b] \in Good(c) \cup {NULL}
                         \/ tbl'[cpu[c].tbl].head[b] \in Good(c)'
  <2>1. CASE cpu[c].tbl = table
    BY <1>2, <1>11, <2>1, BeforeFacts, ZenonT(30) DEF v, Bypass
  <2>2. CASE cpu[c].tbl # table
    BY <1>2, <2>2, BeforeFacts
  <2> QED
    BY <2>1, <2>2
<1>13. \A g \in Safe(c) : flow'[g].sf_acts = flow[g].sf_acts
  BY <1>2, <1>8 DEF Removed
<1>14. \A g \in Safe(c) : Node(c, g)' = Node(c, g) \/ Node(c, g)' \in Good(c)' \cup {NULL}
  BY <1>8, <1>10, <1>11
<1> QED
  BY <1>0, <1>7, <1>8, <1>9, <1>12, <1>13, <1>14, ReaderLinks

\* A callback that runs frees nothing the packet may still read.
LEMMA CallbackReader ==
    ASSUME NEW c \in Cpu, Before(c), NEW cb \in rcu, rcu_callback(cb)
    PROVE  /\ ReaderOK(c)' /\ Safe(c)' = Safe(c) /\ tbl'[cpu[c].tbl] = tbl[cpu[c].tbl]
           /\ \A f \in Safe(c) : flow'[f] = flow[f]
<1> DEFINE fs == {f \in Flow : FreesFlow(cb, f)}
           ts == {t \in Table : FreesTable(cb, t)}
<1>0. rcu' = rcu \ {cb} /\ cb.wait = {} /\ UNCHANGED <<table, cmd>>
  BY DEF rcu_callback
<1>1. Store /\ Typed /\ FlowsOwned /\ TablesOwned /\ cpu' = cpu
  BY DEF Store, Before
<1>2. /\ tbl' = [t \in Table |-> IF t \in ts THEN OldTable ELSE tbl[t]]
      /\ flow' = [f \in Flow |-> IF f \in fs THEN OldFlow ELSE flow[f]]
      /\ fs \cap Live = {} /\ table \notin ts
  BY <1>1, CallbackFields
<1>3. cb \notin Waits(c) /\ Waits(c)' = Waits(c) /\ \A other \in Waits(c) : other \in rcu /\ other # cb
  BY <1>0 DEF Waits
<1>4. \A other \in Waits(c) : other.kind = "table" =>
            other.obj \in Table /\ other.obj \notin ts /\ tbl'[other.obj] = tbl[other.obj]
  <2> SUFFICES ASSUME NEW other \in Waits(c), other.kind = "table"
               PROVE  other.obj \in Table /\ other.obj \notin ts
    BY <1>2
  <2>1. other.obj \in Table /\ FreesTable(other, other.obj)
    BY <1>1, <1>3, DoomedTables DEF FreesTable
  <2> QED
    BY <1>1, <1>3, <2>1 DEF TablesOwned
<1>5. \A other \in Waits(c), f \in Flow : FreesFlow(other, f)' <=> FreesFlow(other, f)
  BY <1>4 DEF FreesFlow
<1>6. tbl'[table] = tbl[table] /\ Live' = Live /\ Live \subseteq Flow
  BY <1>0, <1>1, <1>2 DEF Live, Typed, TableObj
<1>7. Safe(c)' = Safe(c) /\ Safe(c) \subseteq Flow
  BY <1>3, <1>5, <1>6 DEF Safe
<1>8. \A f \in Safe(c) : f \notin fs
  BY <1>1, <1>2, <1>3 DEF Safe, FlowsOwned
<1>9. \A f \in Safe(c) : flow'[f] = flow[f]
  BY <1>2, <1>7, <1>8
<1>10. tbl'[cpu[c].tbl] = tbl[cpu[c].tbl]
  BY <1>4, <1>6, BeforeFacts DEF SafeTable, FreesTable
<1>11. \A f \in Safe(c) : Node(c, f)' = Node(c, f)
  BY <1>1, <1>9, <1>10 DEF Node
<1> QED
  BY <1>0, <1>3, <1>7, <1>9, <1>10, <1>11, BeforeFacts, ReaderLinks
-----------------------------------------------------------------------------
\* The invariant is inductive.

CpuObj ==
    [pc : {"idle", "bucket", "lookup", "found", "miss", "run"},
     key : Key \cup {NULL}, tbl : Table \cup {NULL}, at : Flow \cup Acts \cup {NULL}]

\* A step that changes nothing a packet depends on.
LEMMA SameReader ==
    ASSUME NEW c \in Cpu, ReaderOK(c), UNCHANGED <<table, tbl, flow, rcu>>, cpu'[c] = cpu[c]
    PROVE  ReaderOK(c)'
<1>1. Waits(c)' = Waits(c) /\ Live' = Live
  BY DEF Waits, Live
<1>2. Safe(c)' = Safe(c)
  BY <1>1 DEF Safe, FreesFlow
<1>3. \A f : Node(c, f)' = Node(c, f)
  BY DEF Node
<1>4. Good(c)' = Good(c)
  BY <1>2, <1>3, SMT DEF Good
<1>5. \A a : SafeActs(c, a) => SafeActs(c, a)'
  BY <1>1, <1>2 DEF SafeActs, FreesActs
<1>6. \A u : SafeTable(c, u) => SafeTable(c, u)'
  BY <1>1 DEF SafeTable, FreesTable
<1>7. SafeTable(c, cpu[c].tbl)' /\ (cpu[c].pc = "run" => SafeActs(c, cpu[c].at)')
  BY <1>5, <1>6 DEF ReaderOK
<1> QED
  BY <1>3, <1>4, <1>7 DEF ReaderOK

\* Commands and callbacks: every packet is as safe as before, and new callbacks
\* wait for all who read.
LEMMA AllReaders ==
    ASSUME IInv, cpu' = cpu,
           \A cb \in rcu' : cb \in rcu \/ cb.wait = Reading,
           \A c \in Cpu : Before(c) => ReaderOK(c)'
    PROVE  Readers'
<1>1. Reading' = Reading
  BY DEF Reading
<1>2. \A c \in Reading : c \in Cpu /\ Before(c)
  BY DEF IInv, Readers, Before, Reading
<1> QED
  BY <1>1, <1>2 DEF IInv, Readers

\* Every command keeps the invariant.
LEMMA CommandKeeps ==
    ASSUME IInv, Command
    PROVE  IInv'
<1>0. Store
  BY DEF IInv
<1>1. ASSUME NEW t \in Table, NEW where \in [Key -> Bucket], NEW k \in Key \cup {NULL},
             flow_tbl_rehash(t, where, k)
      PROVE  IInv'
  <2>1. cpu' = cpu /\ rcu' = rcu
    BY <1>1 DEF flow_tbl_rehash
  <2>2. \A c \in Cpu : Before(c) => ReaderOK(c)'
    BY <1>1, RehashReader
  <2> QED
    BY <1>0, <1>1, <2>1, <2>2, RehashStore, AllReaders DEF IInv
<1>2. ASSUME NEW t \in Table, NEW where \in [Key -> Bucket], flush_flows(t, where) PROVE IInv'
  <2>1. cpu' = cpu /\ \A cb \in rcu' : cb \in rcu \/ cb.wait = Reading
    BY ONLY <1>2, SMT DEF flush_flows, Callback
  <2>2. \A c \in Cpu : Before(c) => ReaderOK(c)'
    BY <1>2, FlushReader
  <2> QED
    BY <1>0, <1>2, <2>1, <2>2, FlushStore, AllReaders DEF IInv
<1>3. ASSUME NEW f \in Flow, flow_table_copy_flow(f) PROVE IInv'
  <2>1. cpu' = cpu /\ rcu' = rcu
    BY <1>3 DEF flow_table_copy_flow
  <2>2. \A c \in Cpu : Before(c) => ReaderOK(c)'
    BY <1>3, CopyReader
  <2> QED
    BY <1>0, <1>3, <2>1, <2>2, CopyStore, AllReaders DEF IInv
<1>4. CASE flow_tbl_publish
  <2>1. cpu' = cpu /\ \A cb \in rcu' : cb \in rcu \/ cb.wait = Reading
    BY ONLY <1>4, SMT DEF flow_tbl_publish, Callback
  <2>2. \A c \in Cpu : Before(c) => ReaderOK(c)'
    BY <1>4, PublishReader
  <2> QED
    BY <1>0, <1>4, <2>1, <2>2, PublishStore, AllReaders DEF IInv
<1>5. ASSUME NEW k \in Key, NEW f \in Flow, NEW s \in Acts, ovs_flow_cmd_new(k, f, s) PROVE IInv'
  <2>1. cpu' = cpu /\ rcu' = rcu
    BY <1>5 DEF ovs_flow_cmd_new
  <2>2. \A c \in Cpu : Before(c) => ReaderOK(c)'
    BY <1>5, NewReader
  <2> QED
    BY <1>0, <1>5, <2>1, <2>2, NewStore, AllReaders DEF IInv
<1>6. CASE ovs_flow_cmd_new_fails
  <2>1. cpu' = cpu /\ rcu' = rcu /\ UNCHANGED <<table, tbl, flow>>
    BY <1>6 DEF ovs_flow_cmd_new_fails
  <2>2. \A c \in Cpu : Before(c) => ReaderOK(c)'
    BY <2>1, SameReader DEF Before
  <2> QED
    BY <1>0, <1>6, <2>1, <2>2, FailsStore, AllReaders DEF IInv
<1>7. ASSUME NEW f \in Flow, NEW s \in Acts, ovs_flow_cmd_set(f, s) PROVE IInv'
  <2>1. cpu' = cpu /\ \A cb \in rcu' : cb \in rcu \/ cb.wait = Reading
    BY ONLY <1>7, SMT DEF ovs_flow_cmd_set, Callback
  <2>2. \A c \in Cpu : Before(c) => ReaderOK(c)'
    BY <1>7, SetReader
  <2> QED
    BY <1>0, <1>7, <2>1, <2>2, SetStore, AllReaders DEF IInv
<1>8. ASSUME NEW f \in Flow, ovs_flow_cmd_del(f) PROVE IInv'
  <2>1. cpu' = cpu /\ \A cb \in rcu' : cb \in rcu \/ cb.wait = Reading
    BY ONLY <1>8, SMT DEF ovs_flow_cmd_del, Callback
  <2>2. \A c \in Cpu : Before(c) => ReaderOK(c)'
    BY <1>8, DelReader
  <2> QED
    BY <1>0, <1>8, <2>1, <2>2, DelStore, AllReaders DEF IInv
<1> QED
  BY <1>1, <1>2, <1>3, <1>4, <1>5, <1>6, <1>7, <1>8 DEF Command

\* Every RCU callback keeps the invariant.
LEMMA CallbackKeeps ==
    ASSUME IInv, NEW cb \in rcu, rcu_callback(cb)
    PROVE  IInv'
<1>1. Store /\ cpu' = cpu /\ rcu' \subseteq rcu
  BY DEF IInv, rcu_callback
<1>2. \A c \in Cpu : Before(c) => ReaderOK(c)'
  BY CallbackReader
<1> QED
  BY <1>1, <1>2, CallbackStore, AllReaders DEF IInv

\* Packets: a step of one is no matter to the others.
LEMMA OtherReaders ==
    ASSUME NEW c \in Cpu, Readers, UNCHANGED <<table, tbl, flow, rcu>>,
           cpu' \in [Cpu -> CpuObj], \A d \in Cpu \ {c} : cpu'[d] = cpu[d],
           cpu'[c].pc # "idle", ReaderOK(c)'
    PROVE  Readers'
<1>1. \A d \in Cpu \ {c} : d \in Reading' <=> d \in Reading
  BY DEF Reading
<1>2. c \in Reading' /\ Reading \subseteq Reading' /\ Reading' \subseteq Cpu
  BY <1>1 DEF Reading
<1>3. ASSUME NEW d \in Reading', d # c PROVE ReaderOK(d)'
  <2>1. d \in Cpu /\ ReaderOK(d) /\ cpu'[d] = cpu[d]
    BY <1>1, <1>2, <1>3 DEF Readers
  <2> QED
    BY <2>1, SameReader
<1>4. \A cb \in rcu' : cb.wait \subseteq Reading'
  BY <1>2 DEF Readers
<1> QED
  BY <1>3, <1>4 DEF Readers, CpuObj

\* For a packet that begins, the good flows are those of the current table.
LEMMA ReceiveKeeps ==
    ASSUME IInv, NEW c \in Cpu, NEW k \in Key, receive(c, k)
    PROVE  IInv'
<1>0. /\ cpu[c] = Idle
      /\ cpu' = [cpu EXCEPT ![c] = [pc |-> "bucket", key |-> k, tbl |-> table, at |-> NULL]]
      /\ UNCHANGED <<mem, table, tbl, flow, rcu, cmd>>
  BY DEF receive
<1>1. Store /\ Store' /\ Typed /\ Linked(table) /\ Readers /\ cpu \in [Cpu -> CpuObj]
  BY <1>0, SameStore DEF IInv, Store, Readers, CpuObj
<1>2. /\ cpu' \in [Cpu -> CpuObj] /\ \A d \in Cpu \ {c} : cpu'[d] = cpu[d]
      /\ cpu'[c].pc = "bucket" /\ cpu'[c].key = k /\ cpu'[c].tbl = table
  BY <1>0, <1>1 DEF CpuObj, Typed
<1>3. Waits(c)' = {}
  BY <1>0, <1>1, SMT DEF Waits, Readers, Reading, Idle
<1>4. Live \in SUBSET Flow /\ List(flow, Live, tbl[table].node_ver, tbl[table].head)
  BY <1>1 DEF Typed, TableObj, Live, Linked
<1>5. Safe(c)' = Live
  BY <1>0, <1>3, <1>4 DEF Safe, Live
<1>6. \A f \in Live : Node(c, f)' \in Live \cup {NULL} /\ Node(c, f)' # Junk
  <2>1. \A f \in Live : flow[f].next[tbl[table].node_ver] \in Live \cup {NULL}
                         /\ flow[f].next[tbl[table].node_ver] # Junk
    BY <1>4, ListNodes, ZenonT(30)
  <2>2. \A f : Node(c, f)' = flow[f].next[tbl[table].node_ver]
    BY <1>0, <1>2 DEF Node
  <2> QED
    BY <2>1, <2>2
<1>7. Good(c)' = Live
  BY <1>5, <1>6 DEF Good
<1>8. \A b \in Bucket : tbl'[table].head[b] \in Live \cup {NULL}
  <2>1. \A b \in Bucket : tbl[table].head[b] \in Live \cup {NULL}
    BY <1>4 DEF List
  <2> QED
    BY <1>0, <2>1
<1>9. ReaderOK(c)'
  BY <1>0, <1>1, <1>2, <1>6, <1>7, <1>8 DEF ReaderOK, SafeTable, Typed
<1> QED
  BY <1>0, <1>1, <1>2, <1>9, OtherReaders DEF IInv

\* While a packet looks its flow up, it stays among good flows.
LEMMA LookupKeeps ==
    ASSUME IInv, NEW c \in Cpu,
           find_bucket(c) \/ lookup_next(c) \/ lookup_miss(c) \/ execute_actions(c)
    PROVE  IInv'
<1>0. UNCHANGED <<mem, table, tbl, flow, rcu, cmd>> /\ c \in Reading
  BY DEF find_bucket, lookup_next, lookup_miss, execute_actions, Reading
<1>1. Store /\ Store' /\ Typed /\ Filled /\ Readers /\ ReaderOK(c) /\ cpu \in [Cpu -> CpuObj]
  BY <1>0, SameStore DEF IInv, Store, Readers, CpuObj
<1>2. ASSUME cpu' \in [Cpu -> CpuObj], \A d \in Cpu \ {c} : cpu'[d] = cpu[d],
             cpu'[c].pc # "idle", cpu'[c].tbl = cpu[c].tbl, cpu'[c].key = cpu[c].key,
             cpu'[c].pc = "lookup" => cpu'[c].at \in Good(c) \cup {NULL},
             cpu'[c].pc = "found" => cpu'[c].at \in Good(c),
             cpu'[c].pc = "run" => SafeActs(c, cpu'[c].at)
      PROVE  IInv'
  <2>1. Waits(c)' = Waits(c)
    BY <1>0 DEF Waits
  <2>2. Safe(c)' = Safe(c)
    BY <1>0, <2>1 DEF Safe, Live, FreesFlow
  <2>3. \A f : Node(c, f)' = Node(c, f)
    BY <1>0, <1>2 DEF Node
  <2>4. Good(c)' = Good(c)
    BY <2>2, <2>3, SMT DEF Good
  <2>5. \A a : SafeActs(c, a)' <=> SafeActs(c, a)
    BY <1>0, <2>1, <2>2 DEF SafeActs, FreesActs
  <2>6. SafeTable(c, cpu[c].tbl)'
    BY <1>0, <1>1, <1>2, <2>1 DEF ReaderOK, SafeTable, FreesTable
  <2>7. ReaderOK(c)'
    BY <1>0, <1>1, <1>2, <2>1, <2>3, <2>4, <2>5 DEF ReaderOK, SafeTable, FreesTable
  <2> QED
    BY <1>0, <1>1, <1>2, <2>7, OtherReaders DEF IInv
<1>3. /\ cpu[c] \in CpuObj /\ cpu[c].tbl \in Table /\ cpu[c].key \in Key
      /\ Good(c) \subseteq Flow /\ Good(c) \subseteq Safe(c)
      /\ tbl[cpu[c].tbl].bucket[cpu[c].key] \in Bucket
      /\ \A b \in Bucket : tbl[cpu[c].tbl].head[b] \in Good(c) \cup {NULL}
      /\ \A f \in Good(c) : Node(c, f) \in Good(c) \cup {NULL}
      /\ cpu[c].pc = "lookup" => cpu[c].at \in Good(c) \cup {NULL}
      /\ cpu[c].pc = "found" => cpu[c].at \in Good(c)
  <2>1. /\ cpu[c] \in CpuObj /\ cpu[c].tbl \in Table /\ cpu[c].key \in Key
        /\ \A b \in Bucket : tbl[cpu[c].tbl].head[b] \in Good(c) \cup {NULL}
        /\ \A f \in Good(c) : Node(c, f) \in Good(c) \cup {NULL}
        /\ cpu[c].pc = "lookup" => cpu[c].at \in Good(c) \cup {NULL}
        /\ cpu[c].pc = "found" => cpu[c].at \in Good(c)
    BY <1>1 DEF ReaderOK
  <2>2. Good(c) \subseteq Flow /\ Good(c) \subseteq Safe(c)
    BY DEF Good, Safe
  <2>3. tbl[cpu[c].tbl].bucket[cpu[c].key] \in Bucket
    <3>1. tbl[cpu[c].tbl] \in TableObj
      BY <1>1, <2>1 DEF Typed
    <3>2. tbl[cpu[c].tbl].bucket \in [Key -> Bucket]
      BY <3>1 DEF TableObj
    <3> QED
      BY <2>1, <3>2
  <2> QED
    BY <2>1, <2>2, <2>3
<1>4. CASE find_bucket(c)
  <2> DEFINE h == tbl[cpu[c].tbl].head[tbl[cpu[c].tbl].bucket[cpu[c].key]]
  <2>1. cpu' = [cpu EXCEPT ![c].pc = "lookup", ![c].at = h]
    BY <1>4 DEF find_bucket
  <2>2. h \in Good(c) \cup {NULL}
    BY <1>3
  <2> HIDE DEF h
  <2>3. cpu' \in [Cpu -> CpuObj] /\ (\A d \in Cpu \ {c} : cpu'[d] = cpu[d])
        /\ cpu'[c].pc = "lookup" /\ cpu'[c].at = h
        /\ cpu'[c].tbl = cpu[c].tbl /\ cpu'[c].key = cpu[c].key
    BY <1>1, <1>3, <2>1, <2>2, ZenonT(30) DEF CpuObj
  <2> QED
    BY <1>2, <2>2, <2>3
<1>5. CASE lookup_next(c)
  <2> DEFINE n == Node(c, cpu[c].at)
  <2>1. /\ cpu[c].pc = "lookup" /\ cpu[c].at # NULL
        /\ \/ cpu' = [cpu EXCEPT ![c].pc = "found"]
           \/ cpu' = [cpu EXCEPT ![c].at = n]
    BY <1>5 DEF lookup_next, Node
  <2>2. cpu[c].at \in Good(c) /\ n \in Good(c) \cup {NULL}
    BY <1>3, <2>1
  <2> HIDE DEF n
  <2>3. cpu' \in [Cpu -> CpuObj] /\ (\A d \in Cpu \ {c} : cpu'[d] = cpu[d])
        /\ \/ cpu'[c].pc = "lookup" /\ cpu'[c].at = n
           \/ cpu'[c].pc = "found" /\ cpu'[c].at = cpu[c].at
        /\ cpu'[c].tbl = cpu[c].tbl /\ cpu'[c].key = cpu[c].key
    BY ONLY <1>1, <1>3, <2>1, <2>2, SMT DEF CpuObj
  <2> QED
    BY <1>2, <2>2, <2>3
<1>6. CASE lookup_miss(c)
  <2>1. cpu' = [cpu EXCEPT ![c].pc = "miss"]
    BY <1>6 DEF lookup_miss
  <2>2. cpu' \in [Cpu -> CpuObj] /\ (\A d \in Cpu \ {c} : cpu'[d] = cpu[d])
        /\ cpu'[c].pc = "miss" /\ cpu'[c].tbl = cpu[c].tbl /\ cpu'[c].key = cpu[c].key
    BY <1>1, <2>1 DEF CpuObj
  <2> QED
    BY <1>2, <2>2
<1>7. CASE execute_actions(c)
  <2> DEFINE s == flow[cpu[c].at].sf_acts
  <2>1. cpu[c].pc = "found" /\ cpu' = [cpu EXCEPT ![c].pc = "run", ![c].at = s]
    BY <1>7 DEF execute_actions
  <2>2. cpu[c].at \in Safe(c) /\ cpu[c].at \in Flow
    BY <1>3, <2>1
  <2>3. SafeActs(c, s)
    BY <2>2 DEF SafeActs
  <2>4. s \in Acts
    BY <1>1, <2>2, SafeInMem DEF Filled
  <2> HIDE DEF s
  <2>5. cpu' \in [Cpu -> CpuObj] /\ (\A d \in Cpu \ {c} : cpu'[d] = cpu[d])
        /\ cpu'[c].pc = "run" /\ cpu'[c].at = s
        /\ cpu'[c].tbl = cpu[c].tbl /\ cpu'[c].key = cpu[c].key
    BY <1>1, <2>1, <2>4, ZenonT(30) DEF CpuObj
  <2> QED
    BY <1>2, <2>3, <2>5
<1> QED
  BY <1>4, <1>5, <1>6, <1>7

\* A packet that ends its read section takes nothing from the others.
LEMMA UnlockKeeps ==
    ASSUME IInv, NEW c \in Cpu, rcu_read_unlock(c)
    PROVE  IInv'
<1> DEFINE Left(cb) == [cb EXCEPT !.wait = @ \ {c}]
<1>0. /\ cpu' = [cpu EXCEPT ![c] = Idle]
      /\ rcu' = {Left(cb) : cb \in rcu}
      /\ UNCHANGED <<mem, table, tbl, flow, cmd>>
  BY DEF rcu_read_unlock
<1>1. Store /\ Store' /\ Typed /\ Readers /\ cpu \in [Cpu -> CpuObj]
  BY UnlockStore DEF IInv, Store, Readers, CpuObj
<1>2. \A cb \in rcu : Left(cb).kind = cb.kind /\ Left(cb).obj = cb.obj /\ Left(cb).wait = cb.wait \ {c}
  BY <1>1 DEF Typed, CallbackObj
<1> HIDE DEF Left
<1>3. /\ cpu' \in [Cpu -> CpuObj] /\ \A d \in Cpu \ {c} : cpu'[d] = cpu[d]
      /\ cpu'[c].pc = "idle"
  BY <1>0, <1>1 DEF CpuObj, Idle
<1>4. Reading' = Reading \ {c}
  BY <1>3 DEF Reading
<1>5. \A cb \in rcu' : cb.wait \subseteq Reading'
  BY <1>0, <1>1, <1>2, <1>4 DEF Readers
<1>6. ASSUME NEW d \in Reading' PROVE ReaderOK(d)'
  <2>1. d \in Cpu /\ d # c /\ ReaderOK(d) /\ cpu'[d] = cpu[d]
    BY <1>1, <1>3, <1>4, <1>6 DEF Readers, Reading
  <2>2. Waits(d)' = {Left(cb) : cb \in Waits(d)}
    BY <1>0, <1>2, <2>1, ZenonT(30) DEF Waits
  <2>3. \A cb \in Waits(d) : /\ \A f : FreesFlow(Left(cb), f)' <=> FreesFlow(cb, f)
                             /\ \A a : FreesActs(Left(cb), a)' <=> FreesActs(cb, a)
                             /\ \A t : FreesTable(Left(cb), t)' <=> FreesTable(cb, t)
    BY <1>0, <1>2 DEF FreesFlow, FreesActs, FreesTable, Waits
  <2>4. Safe(d)' = Safe(d)
    BY <1>0, <2>2, <2>3 DEF Safe, Live
  <2>5. \A f : Node(d, f)' = Node(d, f)
    BY <1>0, <2>1 DEF Node
  <2>6. Good(d)' = Good(d)
    BY <2>4, <2>5, SMT DEF Good
  <2>7. \A t : SafeTable(d, t) => SafeTable(d, t)'
    BY <1>0, <2>2, <2>3, SMT DEF SafeTable
  <2>8. \A a : SafeActs(d, a) => SafeActs(d, a)'
    BY <1>0, <2>2, <2>3, <2>4, ZenonT(60) DEF SafeActs
  <2>9. SafeTable(d, cpu[d].tbl)' /\ (cpu[d].pc = "run" => SafeActs(d, cpu[d].at)')
    BY <2>1, <2>7, <2>8 DEF ReaderOK
  <2> QED
    BY <1>0, <2>1, <2>5, <2>6, <2>9 DEF ReaderOK
<1> QED
  BY <1>1, <1>3, <1>5, <1>6 DEF IInv, Readers, CpuObj

\* The invariant holds initially: no packet is in the datapath.
LEMMA InitHolds == Init => IInv
<1> SUFFICES ASSUME Init PROVE IInv
  OBVIOUS
<1>1. Readers
  BY DEF Init, Readers, Reading, Idle
<1> QED
  BY <1>1, StoreInit DEF IInv

\* The invariant holds in every reachable state.
LEMMA IInvInductive == Spec => []IInv
<1>1. IInv /\ [Next]_vars => IInv'
  <2> SUFFICES ASSUME IInv, [Next]_vars PROVE IInv'
    OBVIOUS
  <2>1. CASE Command
    BY <2>1, CommandKeeps
  <2>2. ASSUME NEW c \in Cpu, Packet(c) PROVE IInv'
    <3>1. ASSUME NEW k \in Key, receive(c, k) PROVE IInv'
      BY <3>1, ReceiveKeeps
    <3>2. CASE rcu_read_unlock(c)
      BY <3>2, UnlockKeeps
    <3>3. CASE find_bucket(c) \/ lookup_next(c) \/ lookup_miss(c) \/ execute_actions(c)
      BY <3>3, LookupKeeps
    <3> QED
      BY <2>2, <3>1, <3>2, <3>3 DEF Packet
  <2>3. ASSUME NEW cb \in rcu, rcu_callback(cb) PROVE IInv'
    BY <2>3, CallbackKeeps
  <2>4. CASE UNCHANGED vars
    <3>1. UNCHANGED <<mem, table, tbl, flow, rcu, cmd, cpu>>
      BY <2>4 DEF vars
    <3>2. Store'
      BY <3>1, SameStore DEF IInv
    <3>3. Readers'
      <4>1. \A c \in Reading : ReaderOK(c)'
        BY <3>1, SameReader DEF IInv, Readers, Reading
      <4> QED
        BY <3>1, <4>1 DEF IInv, Readers, Reading
    <3> QED
      BY <3>2, <3>3 DEF IInv
  <2> QED
    BY <2>1, <2>2, <2>3, <2>4 DEF Next
<1> QED
  BY <1>1, InitHolds, PTL DEF Spec

\* No packet reads a table, a flow or actions that were freed, or an uninitialised
\* list node, whatever commands, rebuilds and grace periods fall into its read
\* section, with any number of processors, keys, buckets, flows and tables.
THEOREM PacketsReadLiveMemory == Spec => []NoReadAfterFree
<1>1. IInv => NoReadAfterFree
  <2> SUFFICES ASSUME IInv, NEW c \in Cpu PROVE Reads(c) \subseteq mem
    BY DEF NoReadAfterFree
  <2>1. CASE cpu[c].pc \in {"idle", "miss"}
    BY <2>1 DEF Reads
  <2>2. CASE cpu[c].pc \notin {"idle", "miss"}
    <3>1. Store /\ ReaderOK(c) /\ cpu[c] \in CpuObj
      BY <2>2 DEF IInv, Readers, Reading, CpuObj
    <3>2. /\ Safe(c) \subseteq mem /\ Good(c) \subseteq Safe(c)
          /\ cpu[c].tbl \in mem
      BY <3>1, SafeInMem DEF ReaderOK, Good
    <3>3. cpu[c].pc = "run" => cpu[c].at \in mem
      <4> SUFFICES ASSUME cpu[c].pc = "run" PROVE cpu[c].at \in mem
        OBVIOUS
      <4>1. SafeActs(c, cpu[c].at)
        BY <3>1 DEF ReaderOK
      <4>2. cpu[c].at \in Acts
        <5>1. CASE \E f \in Safe(c) : flow[f].sf_acts = cpu[c].at
          BY <3>1, <3>2, <5>1 DEF Store, Filled, Safe
        <5>2. CASE \E cb \in Waits(c) : FreesActs(cb, cpu[c].at)
          BY <3>1, <5>2 DEF Store, Typed, CallbackObj, Waits, FreesActs
        <5> QED
          BY <4>1, <5>1, <5>2 DEF SafeActs
      <4> QED
        BY <3>1, <4>1, <4>2, SafeInMem
    <3>4. CASE cpu[c].pc = "run"
      BY <3>3, <3>4 DEF Reads
    <3>5. CASE cpu[c].pc = "bucket"
      BY <3>2, <3>5 DEF Reads
    <3>6. CASE cpu[c].pc = "lookup"
      BY <3>1, <3>2, <3>6 DEF Reads, ReaderOK
    <3>7. CASE cpu[c].pc = "found"
      BY <3>1, <3>2, <3>7 DEF Reads, ReaderOK
    <3> QED
      BY <2>2, <3>1, <3>4, <3>5, <3>6, <3>7 DEF CpuObj
  <2> QED
    BY <2>1, <2>2
<1> QED
  BY <1>1, IInvInductive, PTL
=============================================================================
