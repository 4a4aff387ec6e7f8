------------------------ MODULE FlowTableRefinement -------------------------
(***************************************************************************)
(* The flow table implements FlowMap, for any number of processors, keys,  *)
(* buckets, flows and tables.                                              *)
(*                                                                         *)
(* An answer is right because every flow a packet may meet carries actions *)
(* that its key had during the lookup (Right).  A miss is right because,   *)
(* as long as the key has had a flow and no second rebuild has begun, the  *)
(* packet is inside a set of flows that its lists leave only through the   *)
(* flow it looks for (Sure).  Such a set exists for every flow of a table  *)
(* (Reached), and stays one while other flows are added and removed        *)
(* because the lists are doubly linked both ways (Linked and Back).        *)
(***************************************************************************)
EXTENDS FlowTableProofs

USE Zenon

\* Node v of the flows A leads to flows of A, but for the node of f.
Path(fl, v, A, f) == f \in A /\ \A g \in A \ {f} : fl[g].next[v] \in A

\* A flow's back pointer names what points to the flow.
Back(fl, S, v, head) ==
    \A f \in S : \/ fl[f].pprev[v] \in Bucket /\ head[fl[f].pprev[v]] = f
                 \/ fl[f].pprev[v] \in S /\ fl[fl[f].pprev[v]].next[v] = f

\* From the head of its bucket a list leads to each of the flows S.
Reached(fl, S, v, head, where) ==
    \A f \in S : \E A \in SUBSET S : Path(fl, v, A, f) /\ head[where[fl[f].key]] \in A

Whole(t) ==
    /\ Back(flow, tbl[t].flows, tbl[t].node_ver, tbl[t].head)
    /\ Reached(flow, tbl[t].flows, tbl[t].node_ver, tbl[t].head, tbl[t].bucket)

\* No two flows of the table have the same key.
OneFlow == \A f, g \in Live : flow[f].key = flow[g].key => f = g

Tables == OneFlow /\ Whole(table) /\ (cmd.op = "rehash" => Whole(cmd.new))

LookObj ==
    [key : Key \cup {NULL}, may : SUBSET (Acts \cup {NULL}),
     links : {"good", "spare", "reused"}, answer : Acts \cup {NULL, Pending}]

\* Where packet c is in its list.
At(c) ==
    IF cpu[c].pc = "bucket" THEN tbl[cpu[c].tbl].head[tbl[cpu[c].tbl].bucket[cpu[c].key]]
    ELSE cpu[c].at

\* What c may find, it may answer.
Right(c) ==
    /\ map[cpu[c].key] \in look[c].may
    /\ \A f \in Safe(c) : flow[f].key = cpu[c].key => flow[f].sf_acts \in look[c].may
    /\ cpu[c].pc = "found" => flow[cpu[c].at].key = cpu[c].key

\* The packet must not miss.
Must(c) == cpu[c].pc \in {"bucket", "lookup"} /\ NULL \notin look[c].may /\ look[c].links # "reused"

\* It will not: its own table is the current one, or the one before, whose nodes
\* no rebuild uses, and its list leads to the flow it looks for.
Sure(c) ==
    /\ look[c].links = "good" => cpu[c].tbl = table
    /\ look[c].links = "spare" =>
        cmd.op # "rehash" /\ tbl[cpu[c].tbl].node_ver # tbl[table].node_ver
    /\ \E f \in Live, A \in SUBSET Safe(c) :
        /\ flow[f].key = cpu[c].key
        /\ Path(flow, tbl[cpu[c].tbl].node_ver, A, f)
        /\ At(c) \in A

LookOK(c) ==
    /\ cpu[c].pc = "idle" => look[c] = NoLook
    /\ cpu[c].pc # "idle" => look[c].key = cpu[c].key
    /\ Looking(c) <=> cpu[c].pc \in {"bucket", "lookup", "found"}
    /\ Looking(c) => Right(c) /\ (Must(c) => Sure(c))

Looks == look \in [Cpu -> LookObj] /\ \A c \in Cpu : LookOK(c)

LInv == IInv /\ Tables /\ Looks
-----------------------------------------------------------------------------
\* Lists.

\* A list leads to the flows it led to, and to f, when f is put in front.
LEMMA WholeWith ==
    ASSUME NEW fl, NEW r, NEW S \in SUBSET Flow, NEW v \in Ver, NEW b \in Bucket,
           NEW head \in [Bucket -> Flow \cup {NULL}], NEW where,
           List(fl, S, v, head), Back(fl, S, v, head), Reached(fl, S, v, head, where),
           NEW f \in Flow \ S, where[fl[f].key] = b, Added(fl, r, f, v, b, head[b]),
           \A g \in S : where[fl[g].key] \in Bucket
    PROVE  /\ Back(r, S \cup {f}, v, [head EXCEPT ![b] = f])
           /\ Reached(r, S \cup {f}, v, [head EXCEPT ![b] = f], where)
<1>a. PICK new : new = [head EXCEPT ![b] = f]
  OBVIOUS
<1>0. /\ \A g \in S : r[g].next[v] = fl[g].next[v]
      /\ \A g \in S : g # head[b] => r[g].pprev[v] = fl[g].pprev[v]
      /\ r[f].next[v] = head[b] /\ r[f].pprev[v] = b
      /\ head[b] # NULL => r[head[b]].pprev[v] = f
      /\ \A g \in S \cup {f} : r[g].key = fl[g].key
  BY ZenonT(30) DEF Added
<1>1. new[b] = f /\ \A a \in Bucket \ {b} : new[a] = head[a]
  BY <1>a
<1>2. NULL \notin Flow
  BY FlowTableAssumption
<1>3. ASSUME NEW g \in S \cup {f}
      PROVE  \/ r[g].pprev[v] \in Bucket /\ new[r[g].pprev[v]] = g
             \/ r[g].pprev[v] \in S \cup {f} /\ r[r[g].pprev[v]].next[v] = g
  <2>1. CASE g = f
    BY <1>0, <1>1, <2>1
  <2>2. CASE g \in S /\ g = head[b]
    BY <1>0, <1>2, <2>2
  <2>3. CASE g \in S /\ g # head[b]
    <3>1. r[g].pprev[v] = fl[g].pprev[v]
      BY <1>0, <2>3
    <3>2. CASE fl[g].pprev[v] \in Bucket /\ head[fl[g].pprev[v]] = g
      BY <1>1, <2>3, <3>1, <3>2
    <3>3. CASE fl[g].pprev[v] \in S /\ fl[fl[g].pprev[v]].next[v] = g
      BY <1>0, <3>1, <3>3
    <3> QED
      BY <2>3, <3>2, <3>3 DEF Back
  <2> QED
    BY <2>1, <2>2, <2>3
<1>4. ASSUME NEW g \in S \cup {f}
      PROVE  \E A \in SUBSET (S \cup {f}) : Path(r, v, A, g) /\ new[where[r[g].key]] \in A
  <2>1. CASE g = f
    <3>1. Path(r, v, {f}, g) /\ new[where[r[g].key]] \in {f}
      BY <1>0, <1>1, <2>1 DEF Path
    <3> QED
      BY <3>1
  <2>2. CASE g \in S
    <3>1. PICK A \in SUBSET S : Path(fl, v, A, g) /\ head[where[fl[g].key]] \in A
      BY <2>2 DEF Reached
    <3>2. CASE where[fl[g].key] = b
      <4>1. Path(r, v, A \cup {f}, g)
        BY <1>0, <3>1, <3>2, Zenon DEF Path
      <4>2. new[where[r[g].key]] \in A \cup {f}
        BY <1>0, <1>1, <3>2
      <4> QED
        BY <4>1, <4>2
    <3>3. CASE where[fl[g].key] # b
      <4>1. Path(r, v, A, g)
        BY <1>0, <3>1 DEF Path
      <4>2. new[where[r[g].key]] \in A
        BY <1>0, <1>1, <2>2, <3>1, <3>3
      <4> QED
        BY <4>1, <4>2
    <3> QED
      BY <3>2, <3>3
  <2> QED
    BY <2>1, <2>2
<1> QED
  BY <1>a, <1>3, <1>4 DEF Back, Reached

\* hlist_del_rcu takes d out of the lists of the flows S.
Unlinks(fl, r, S, v, head, d) ==
    /\ S \in SUBSET Flow /\ v \in Ver /\ d \in S
    /\ List(fl, S, v, head) /\ Back(fl, S, v, head)
    /\ Removed(fl, r, fl[d].next[v], fl[d].pprev[v], v)

\* What hlist_del_rcu of d changes in a path to another flow: nothing for those
\* who may be at d ...
LEMMA PathKept ==
    ASSUME NEW fl, NEW r, NEW S, NEW v, NEW head, NEW d, Unlinks(fl, r, S, v, head, d),
           NEW A \in SUBSET Flow, NEW f, Path(fl, v, A, f), f # d
    PROVE  Path(r, v, A, f)
<1>a. PICK n, p : n = fl[d].next[v] /\ p = fl[d].pprev[v]
  OBVIOUS
<1>0. /\ \A g \in Flow : g # p => r[g].next[v] = fl[g].next[v]
      /\ p \in Flow => r[p].next[v] = n
  BY <1>a DEF Unlinks, Removed
<1>1. d \in A => n \in A
  BY <1>a DEF Path
<1>2. p \in Flow => fl[p].next[v] = d
  BY <1>a, FlowTableAssumption DEF Unlinks, Back
<1>3. ASSUME NEW g \in A \ {f} PROVE r[g].next[v] \in A
  BY <1>0, <1>1, <1>2 DEF Path
<1> QED
  BY <1>3 DEF Path

\* ... and d is no longer needed by the others.
LEMMA PathWithout ==
    ASSUME NEW fl, NEW r, NEW S, NEW v, NEW head, NEW d, Unlinks(fl, r, S, v, head, d),
           NEW A \in SUBSET S, NEW f, Path(fl, v, A, f), f # d
    PROVE  Path(r, v, A \ {d}, f)
<1>a. PICK n, p : n = fl[d].next[v] /\ p = fl[d].pprev[v]
  OBVIOUS
<1>d. S \in SUBSET Flow /\ d \in S /\ A \in SUBSET Flow
  BY DEF Unlinks
<1>0. /\ \A g \in Flow : g # p => r[g].next[v] = fl[g].next[v]
      /\ p \in Flow => r[p].next[v] = n
  BY <1>a DEF Unlinks, Removed
<1>1. /\ \A g \in S : fl[g].next[v] # NULL => fl[fl[g].next[v]].pprev[v] = g
      /\ d # NULL /\ d \in Flow
  BY <1>d, FlowTableAssumption, ZenonT(30) DEF Unlinks, List
<1>2. n = d => p = d
  BY <1>a, <1>1, <1>d
<1>3. ASSUME NEW g \in (A \ {d}) \ {f} PROVE r[g].next[v] # d
  <2>1. CASE g = p
    BY <1>0, <1>2, <1>d, <2>1
  <2>2. CASE g # p
    BY <1>a, <1>1, <1>0, <1>d, <2>2
  <2> QED
    BY <2>1, <2>2
<1>4. Path(r, v, A, f)
  <2>1. Unlinks(fl, r, S, v, head, d) /\ A \in SUBSET Flow /\ Path(fl, v, A, f) /\ f # d
    BY <1>d
  <2> QED
    BY ONLY <2>1, PathKept
<1> QED
  BY <1>3, <1>4 DEF Path

\* The head of a bucket is then in the path where it was before, and is not d.
LEMMA HeadWithout ==
    ASSUME NEW fl, NEW r, NEW S, NEW v, NEW head, NEW d, Unlinks(fl, r, S, v, head, d),
           NEW A \in SUBSET Flow, NEW f, Path(fl, v, A, f), f # d,
           NEW b \in Bucket, head[b] \in A
    PROVE  /\ Bypass(head, fl[d].next[v], fl[d].pprev[v])[b] \in A
           /\ Bypass(head, fl[d].next[v], fl[d].pprev[v])[b] \notin {d}
<1>a. PICK n, p : n = fl[d].next[v] /\ p = fl[d].pprev[v]
  OBVIOUS
<1>1. /\ d \in S /\ d \in Flow /\ List(fl, S, v, head) /\ Back(fl, S, v, head)
      /\ NULL \notin Flow /\ d \notin Bucket
  BY FlowTableAssumption, SMT DEF Unlinks
<1>2. Bypass(head, n, p)[b] = IF p = b THEN n ELSE head[b]
  BY DEF Bypass
<1>3. CASE p = b
  <2>1. head[b] = d
    <3>1. p \notin S
      BY <1>3, FlowTableAssumption DEF Unlinks
    <3> QED
      BY <1>a, <1>1, <1>3, <3>1 DEF Back
  <2>2. n \in A
    BY <1>a, <2>1 DEF Path
  <2>3. n # d
    <3>1. n # NULL => fl[n].pprev[v] = d
      BY <1>a, <1>1 DEF List
    <3> QED
      BY <1>a, <1>1, <1>3, <3>1
  <2> QED
    BY <1>a, <1>2, <1>3, <2>2, <2>3
<1>4. CASE p # b
  <2>1. head[b] # d
    BY <1>a, <1>1, <1>4, Zenon DEF List
  <2> QED
    BY <1>a, <1>2, <1>4, <2>1
<1> QED
  BY <1>3, <1>4

LEMMA HeadWithin ==
    ASSUME NEW fl, NEW r, NEW S, NEW v, NEW head, NEW d, Unlinks(fl, r, S, v, head, d),
           NEW A \in SUBSET Flow, NEW f, Path(fl, v, A, f), f # d,
           NEW b \in Bucket, head[b] \in A
    PROVE  Bypass(head, fl[d].next[v], fl[d].pprev[v])[b] \in A
<1>1. /\ Bypass(head, fl[d].next[v], fl[d].pprev[v])[b] \in A
      /\ Bypass(head, fl[d].next[v], fl[d].pprev[v])[b] \notin {d}
  BY HeadWithout, Zenon
<1> QED
  BY <1>1, Zenon

\* A list leads to the flows it led to when d is taken out.
LEMMA WholeWithout ==
    ASSUME NEW fl, NEW r, NEW S \in SUBSET Flow, NEW v \in Ver,
           NEW head \in [Bucket -> Flow \cup {NULL}], NEW where,
           List(fl, S, v, head), Back(fl, S, v, head), Reached(fl, S, v, head, where),
           NEW d \in S, Removed(fl, r, fl[d].next[v], fl[d].pprev[v], v),
           \A g \in S : where[fl[g].key] \in Bucket
    PROVE  LET new == Bypass(head, fl[d].next[v], fl[d].pprev[v])
           IN  Back(r, S \ {d}, v, new) /\ Reached(r, S \ {d}, v, new, where)
<1>a. PICK n, p, new : n = fl[d].next[v] /\ p = fl[d].pprev[v] /\ new = Bypass(head, n, p)
  OBVIOUS
<1>0. /\ \A g \in Flow : g # p => r[g].next[v] = fl[g].next[v]
      /\ \A g \in Flow : g # n => r[g].pprev[v] = fl[g].pprev[v]
      /\ p \in Flow => r[p].next[v] = n
      /\ n # NULL => r[n].pprev[v] = p
      /\ \A g \in Flow : r[g].key = fl[g].key
  BY <1>a DEF Removed
<1>b. /\ \A g \in S : fl[g].next[v] # NULL => fl[fl[g].next[v]].pprev[v] = g
      /\ d # NULL /\ d \in Flow /\ d \notin Bucket
  BY FlowTableAssumption, SMT DEF List
<1>c. (p \in Bucket /\ head[p] = d) \/ (p \in S /\ fl[p].next[v] = d)
  BY <1>a DEF Back
<1>1. n = d <=> p = d
  <2>1. n = d => p = d
    BY <1>a, <1>b
  <2>2. p = d => n = d
    BY <1>a, <1>b, <1>c
  <2> QED
    BY <2>1, <2>2
<1>2. \A b \in Bucket : new[b] = IF p = b THEN n ELSE head[b]
  BY <1>a DEF Bypass
<1>3. ASSUME NEW g \in S \ {d}
      PROVE  \/ r[g].pprev[v] \in Bucket /\ new[r[g].pprev[v]] = g
             \/ r[g].pprev[v] \in S \ {d} /\ r[r[g].pprev[v]].next[v] = g
  <2>1. CASE g = n
    <3>1. r[g].pprev[v] = p
      BY <1>0, <2>1, FlowTableAssumption
    <3>2. p # d
      BY <1>1, <1>3, <2>1
    <3> QED
      BY <1>c, <1>0, <1>1, <1>2, <2>1, <3>1, <3>2
  <2>2. CASE g # n
    <3>1. r[g].pprev[v] = fl[g].pprev[v]
      BY <1>0, <2>2
    <3>2. CASE fl[g].pprev[v] \in Bucket /\ head[fl[g].pprev[v]] = g
      <4>1. fl[g].pprev[v] # p
        BY <1>c, <1>1, <1>3, <3>2, FlowTableAssumption
      <4> QED
        BY <1>2, <3>1, <3>2, <4>1
    <3>3. CASE fl[g].pprev[v] \in S /\ fl[fl[g].pprev[v]].next[v] = g
      <4>1. fl[g].pprev[v] # d /\ fl[g].pprev[v] # p
        BY <1>a, <1>c, <1>1, <1>3, <2>2, <3>3, FlowTableAssumption
      <4> QED
        BY <1>0, <3>1, <3>3, <4>1
    <3> QED
      BY <3>2, <3>3 DEF Back
  <2> QED
    BY <2>1, <2>2
<1>d. Unlinks(fl, r, S, v, head, d)
  BY DEF Unlinks
<1>4. ASSUME NEW g \in S \ {d}
      PROVE  \E A \in SUBSET (S \ {d}) : Path(r, v, A, g) /\ new[where[r[g].key]] \in A
  <2>1. PICK A \in SUBSET S : Path(fl, v, A, g) /\ head[where[fl[g].key]] \in A
    BY DEF Reached
  <2>2. where[fl[g].key] \in Bucket /\ r[g].key = fl[g].key /\ A \subseteq Flow /\ g # d
    BY <1>0
  <2>3. A \in SUBSET Flow /\ A \subseteq S
    BY <2>2
  <2>4. Path(r, v, A \ {d}, g)
    BY <1>d, <2>1, <2>2, <2>3, PathWithout
  <2>a. PICK b \in Bucket : b = where[fl[g].key] /\ head[b] \in A
    BY <2>1, <2>2
  <2>b. b \in Bucket /\ head[b] \in A /\ Path(fl, v, A, g) /\ A \in SUBSET Flow /\ g # d
    BY <2>a, <2>1, <2>2, <2>3, Zenon
  <2>5. Bypass(head, fl[d].next[v], fl[d].pprev[v])[b] \in A
    BY ONLY <1>d, <2>b, HeadWithin, Zenon
  <2>c. Bypass(head, fl[d].next[v], fl[d].pprev[v])[b] \notin {d}
    BY ONLY <1>d, <2>b, HeadWithout, Zenon
  <2>6. new[where[r[g].key]] \in A \ {d}
    BY <1>a, <2>a, <2>c, <2>2, <2>5
  <2> QED
    BY <2>1, <2>4, <2>6
<1> QED
  BY <1>a, <1>3, <1>4 DEF Back, Reached

\* Nothing changes for a list whose flows stay as they are.
LEMMA WholeSame ==
    ASSUME NEW fl, NEW r, NEW S, NEW v, NEW head, NEW where,
           Back(fl, S, v, head), Reached(fl, S, v, head, where),
           \A g \in S : /\ r[g].next[v] = fl[g].next[v] /\ r[g].pprev[v] = fl[g].pprev[v]
                        /\ r[g].key = fl[g].key
    PROVE  Back(r, S, v, head) /\ Reached(r, S, v, head, where)
<1>1. Back(r, S, v, head)
  BY SMT DEF Back
<1>2. ASSUME NEW g \in S
      PROVE  \E A \in SUBSET S : Path(r, v, A, g) /\ head[where[r[g].key]] \in A
  <2>1. PICK A \in SUBSET S : Path(fl, v, A, g) /\ head[where[fl[g].key]] \in A
    BY DEF Reached
  <2>2. Path(r, v, A, g)
    BY <2>1 DEF Path
  <2> QED
    BY <2>1, <2>2
<1> QED
  BY <1>1, <1>2 DEF Reached
-----------------------------------------------------------------------------
\* The map.

\* No two of the flows S have the same key, ...
Unique(fl, S) == \A f, g \in S : fl[f].key = fl[g].key => f = g

\* ... so that they stand for a map.
MapOf(fl, S) ==
    [k \in Key |-> IF {f \in S : fl[f].key = k} = {} THEN NULL
                   ELSE fl[CHOOSE f \in {f \in S : fl[f].key = k} : TRUE].sf_acts]

LEMMA MapOfEntries ==
    ASSUME NEW fl, NEW S
    PROVE  MapOf(fl, S) = [k \in Key |-> MapOf(fl, S)[k]]
<1> DEFINE e(k) == IF {f \in S : fl[f].key = k} = {} THEN NULL
                   ELSE fl[CHOOSE f \in {f \in S : fl[f].key = k} : TRUE].sf_acts
<1>1. MapOf(fl, S) = [k \in Key |-> e(k)]
  BY DEF MapOf
<1> HIDE DEF e
<1> QED
  BY <1>1

LEMMA MapIs == map = MapOf(flow, Live) /\ map' = MapOf(flow', Live')
BY DEF map, MapOf, FlowsFor, Live

\* The map has the actions of each flow under its key, and nothing else.
LEMMA MapOfFlow ==
    ASSUME NEW fl, NEW S, Unique(fl, S), NEW f \in S, fl[f].key \in Key
    PROVE  MapOf(fl, S)[fl[f].key] = fl[f].sf_acts
<1> DEFINE T == {g \in S : fl[g].key = fl[f].key}
<1>1. T = {f}
  BY DEF Unique
<1>2. MapOf(fl, S)[fl[f].key] = IF T = {} THEN NULL ELSE fl[CHOOSE g \in T : TRUE].sf_acts
  BY DEF MapOf
<1> HIDE DEF T
<1>3. (CHOOSE g \in T : TRUE) = f
  BY <1>1
<1> QED
  BY <1>1, <1>2, <1>3

LEMMA MapOfNone ==
    ASSUME NEW fl, NEW S, NEW k \in Key, \A f \in S : fl[f].key # k
    PROVE  MapOf(fl, S)[k] = NULL
<1>1. {f \in S : fl[f].key = k} = {}
  OBVIOUS
<1> QED
  BY <1>1 DEF MapOf

\* A function with these entries is the map.
Stands(m, fl, S) ==
    /\ Unique(fl, S)
    /\ m = [k \in Key |-> m[k]]
    /\ \A f \in S : fl[f].key \in Key /\ m[fl[f].key] = fl[f].sf_acts
    /\ \A k \in Key : (\A f \in S : fl[f].key # k) => m[k] = NULL

LEMMA MapOfIs ==
    ASSUME NEW fl, NEW S, NEW m, Stands(m, fl, S)
    PROVE  MapOf(fl, S) = m
<1> USE DEF Stands
<1>1. ASSUME NEW k \in Key PROVE MapOf(fl, S)[k] = m[k]
  <2>1. CASE \A f \in S : fl[f].key # k
    <3>1. MapOf(fl, S)[k] = NULL
      BY <2>1, MapOfNone, ZenonT(60)
    <3> QED
      BY <2>1, <3>1
  <2>2. CASE \E f \in S : fl[f].key = k
    <3>1. PICK f \in S : fl[f].key = k
      BY <2>2
    <3>2. fl[f].key \in Key
      OBVIOUS
    <3>3. MapOf(fl, S)[fl[f].key] = fl[f].sf_acts
      <4> HIDE DEF MapOf, Unique
      <4>1. Unique(fl, S) /\ f \in S
        OBVIOUS
      <4> QED
        BY ONLY <3>2, <4>1, MapOfFlow, Zenon
    <3> QED
      BY <3>1, <3>3
  <2> QED
    BY <2>1, <2>2
<1>2. MapOf(fl, S) = [k \in Key |-> MapOf(fl, S)[k]]
  BY MapOfEntries
<1> QED
  BY <1>1, <1>2

\* Flows that keep keys and actions stand for the same map.
LEMMA MapOfSame ==
    ASSUME NEW fl, NEW r, NEW S,
           \A f \in S : r[f].key = fl[f].key /\ r[f].sf_acts = fl[f].sf_acts
    PROVE  /\ MapOf(r, S) = MapOf(fl, S)
           /\ Unique(fl, S) => Unique(r, S)
<1>1. ASSUME NEW k \in Key
      PROVE  MapOf(r, S)[k] = MapOf(fl, S)[k]
  <2>a. PICK T : T = {f \in S : fl[f].key = k}
    OBVIOUS
  <2>1. T = {f \in S : r[f].key = k}
    BY <2>a
  <2>2. /\ MapOf(fl, S)[k] = IF T = {} THEN NULL ELSE fl[CHOOSE f \in T : TRUE].sf_acts
        /\ MapOf(r, S)[k] = IF T = {} THEN NULL ELSE r[CHOOSE f \in T : TRUE].sf_acts
    BY <2>a, <2>1 DEF MapOf
  <2>3. T # {} => (CHOOSE f \in T : TRUE) \in S
    BY <2>a
  <2> QED
    BY <2>2, <2>3
<1>2. MapOf(r, S) = [k \in Key |-> MapOf(r, S)[k]] /\ MapOf(fl, S) = [k \in Key |-> MapOf(fl, S)[k]]
  BY MapOfEntries
<1>3. MapOf(r, S) = MapOf(fl, S)
  BY <1>1, <1>2
<1> QED
  BY <1>3, ZenonT(30) DEF Unique

\* What the map holds.
LEMMA MapType ==
    ASSUME NEW fl, NEW S, \A f \in S : fl[f].sf_acts \in Acts
    PROVE  MapOf(fl, S) \in [Key -> Acts \cup {NULL}]
<1>1. ASSUME NEW k \in Key PROVE MapOf(fl, S)[k] \in Acts \cup {NULL}
  <2> DEFINE T == {f \in S : fl[f].key = k}
  <2>1. MapOf(fl, S)[k] = IF T = {} THEN NULL ELSE fl[CHOOSE f \in T : TRUE].sf_acts
    BY DEF MapOf
  <2>2. T # {} => (CHOOSE f \in T : TRUE) \in S
    OBVIOUS
  <2> HIDE DEF T
  <2> QED
    BY <2>1, <2>2
<1> QED
  BY <1>1, MapOfEntries
-----------------------------------------------------------------------------
\* What commands and callbacks do to the tables, and to the map.

\* A rebuild begins with an empty table beside the current one.
LEMMA RehashTables ==
    ASSUME Store, Tables, NEW t \in Table, NEW where \in [Key -> Bucket],
           NEW k \in Key \cup {NULL}, flow_tbl_rehash(t, where, k)
    PROVE  Tables' /\ map' = map /\ table' = table /\ Live' = Live
<1>0. /\ t \notin mem /\ cmd'.new = t /\ UNCHANGED <<table, flow>>
      /\ tbl' = [tbl EXCEPT ![t] = NewTable(1 - tbl[table].node_ver, where)]
  BY DEF flow_tbl_rehash
<1>1. Typed /\ table \in mem /\ table \in Table
  BY DEF Store, Typed, TablesOwned
<1>2. tbl'[t].flows = {} /\ tbl'[table] = tbl[table]
  BY <1>0, <1>1 DEF Typed, NewTable
<1>3. Live' = Live
  BY <1>0, <1>2 DEF Live
<1>4. OneFlow' /\ Whole(table)'
  BY <1>0, <1>2, <1>3 DEF Tables, OneFlow, Whole
<1>5. Whole(cmd.new)'
  BY <1>0, <1>2 DEF Whole, Back, Reached
<1> QED
  BY <1>0, <1>3, <1>4, <1>5, MapIs DEF Tables

\* Copying a flow adds it to the new table's list and touches no node of the
\* current table.
LEMMA CopyTables ==
    ASSUME Store, Tables, NEW f \in Flow, flow_table_copy_flow(f)
    PROVE  /\ Tables' /\ map' = map /\ table' = table /\ Live' = Live
           /\ f \in Live
           /\ \A g \in Flow : flow'[g].key = flow[g].key /\ flow'[g].sf_acts = flow[g].sf_acts
           /\ \A g \in Flow : flow'[g].next[tbl[table].node_ver] = flow[g].next[tbl[table].node_ver]
<1>a. PICK N, v, b, first : /\ N = cmd.new /\ v = tbl[N].node_ver
                            /\ b = tbl[N].bucket[flow[f].key] /\ first = tbl[N].head[b]
  OBVIOUS
<1>0. /\ cmd.op = "rehash" /\ f \in cmd.left
      /\ flow' = FlowsWith(flow, N, f)
      /\ tbl' = [tbl EXCEPT ![N] = TableWith(N, f, flow[f].key)]
      /\ cmd' = [cmd EXCEPT !.left = @ \ {f}]
      /\ UNCHANGED <<mem, table, rcu>>
  BY <1>a DEF flow_table_copy_flow
<1>1. /\ Typed /\ CommandOK /\ Filled /\ FlowsOwned /\ Linked(table) /\ Linked(N)
      /\ OneFlow /\ Whole(table) /\ Whole(N)
  BY <1>a, <1>0 DEF Store, Tables
<1>2. /\ N \in Table /\ N # table /\ f \in Live /\ f \notin tbl[N].flows
      /\ tbl[N].flows \subseteq Live /\ v = 1 - tbl[table].node_ver
      /\ table \in Table /\ Live \subseteq Flow
  <2>1. table \in Table /\ Live \subseteq Flow
    BY <1>1 DEF Typed, TableObj, Live
  <2> QED
    BY <1>a, <1>0, <1>1, <2>1 DEF CommandOK
<1>3. \A g \in Live : flow[g].key \in Key
  BY <1>1, <1>2 DEF FlowsOwned, Filled
<1>4. /\ v \in Ver /\ tbl[table].node_ver \in Ver /\ v # tbl[table].node_ver
      /\ tbl[N] \in TableObj
  <2>0. tbl[table] \in TableObj /\ tbl[N] \in TableObj
    BY <1>1, <1>2 DEF Typed
  <2>1. v \in Ver /\ tbl[table].node_ver \in Ver /\ tbl[N] \in TableObj
    BY <1>a, <2>0 DEF TableObj
  <2>2. v # tbl[table].node_ver
    BY <1>2, <2>1, SMT DEF Ver
  <2> QED
    BY <2>1, <2>2
<1>5. /\ b \in Bucket /\ tbl[N].head \in [Bucket -> Flow \cup {NULL}]
      /\ tbl[N].bucket \in [Key -> Bucket] /\ tbl[N].flows \in SUBSET Flow
  BY <1>a, <1>2, <1>3, <1>4 DEF TableObj
<1>6. List(flow, tbl[N].flows, v, tbl[N].head)
  BY <1>a, <1>1 DEF Linked
<1>7. first # f
  <2>1. f \in Flow \ tbl[N].flows
    BY <1>2
  <2>2. tbl[N].head[b] \in tbl[N].flows \cup {NULL} /\ tbl[N].head[b] # f
    BY ONLY <1>5, <1>6, <2>1, ListFirst, SMT
  <2> QED
    BY <1>a, <2>2, Zenon
<1>8. Added(flow, flow', f, v, b, first)
  <2>1. /\ flow \in [Flow -> FlowObj] /\ tbl \in [Table -> TableObj]
        /\ f \in Flow /\ flow[f].key \in Key
    BY <1>1, <1>2, <1>3 DEF Typed
  <2>2. tbl[N].head[tbl[N].bucket[flow[f].key]] # f
    BY <1>a, <1>7
  <2>3. Added(flow, FlowsWith(flow, N, f), f, tbl[N].node_ver, tbl[N].bucket[flow[f].key],
              tbl[N].head[tbl[N].bucket[flow[f].key]])
    BY <1>2, <2>1, <2>2, FlowsWithAdds
  <2> QED
    BY <1>a, <1>0, <2>3
<1>9. /\ tbl'[N].flows = tbl[N].flows \cup {f} /\ tbl'[N].node_ver = v
      /\ tbl'[N].head = [tbl[N].head EXCEPT ![b] = f]
      /\ tbl'[N].bucket = tbl[N].bucket /\ tbl'[table] = tbl[table]
      /\ cmd'.new = N
  <2>1. tbl'[N] = TableWith(N, f, flow[f].key) /\ tbl'[table] = tbl[table]
    BY <1>0, <1>1, <1>2 DEF Typed
  <2>2. /\ TableWith(N, f, flow[f].key).flows = tbl[N].flows \cup {f}
        /\ TableWith(N, f, flow[f].key).node_ver = v
        /\ TableWith(N, f, flow[f].key).head = [tbl[N].head EXCEPT ![b] = f]
        /\ TableWith(N, f, flow[f].key).bucket = tbl[N].bucket
    BY <1>a, <1>4, ZenonT(30) DEF TableWith, TableObj
  <2>3. cmd'.new = N
    BY <1>a, <1>0, <1>1 DEF Typed
  <2> QED
    BY <2>1, <2>2, <2>3
<1>10. /\ \A g \in Flow : flow'[g].key = flow[g].key /\ flow'[g].sf_acts = flow[g].sf_acts
       /\ \A g \in Flow : /\ flow'[g].next[tbl[table].node_ver] = flow[g].next[tbl[table].node_ver]
                          /\ flow'[g].pprev[tbl[table].node_ver] = flow[g].pprev[tbl[table].node_ver]
  BY <1>4, <1>8 DEF Added
<1>11. Live' = Live
  BY <1>0, <1>9 DEF Live
<1>12. OneFlow'
  <2>1. \A g \in Live : flow'[g].key = flow[g].key
    BY <1>2, <1>10
  <2> QED
    BY ONLY <1>1, <1>11, <2>1, SMT DEF OneFlow
<1>13. Whole(table)'
  <2>1. /\ Back(flow, Live, tbl[table].node_ver, tbl[table].head)
        /\ Reached(flow, Live, tbl[table].node_ver, tbl[table].head, tbl[table].bucket)
    BY <1>1 DEF Whole, Live
  <2>2. /\ Back(flow', Live, tbl[table].node_ver, tbl[table].head)
        /\ Reached(flow', Live, tbl[table].node_ver, tbl[table].head, tbl[table].bucket)
    BY <1>2, <1>10, <2>1, WholeSame
  <2> QED
    BY <1>0, <1>9, <2>2 DEF Whole, Live
<1>14. Whole(cmd.new)'
  <2>1. /\ Back(flow, tbl[N].flows, v, tbl[N].head)
        /\ Reached(flow, tbl[N].flows, v, tbl[N].head, tbl[N].bucket)
    BY <1>a, <1>1 DEF Whole
  <2>2. f \in Flow \ tbl[N].flows /\ \A g \in tbl[N].flows : tbl[N].bucket[flow[g].key] \in Bucket
    BY <1>2, <1>3, <1>5
  <2>3. /\ Back(flow', tbl[N].flows \cup {f}, v, [tbl[N].head EXCEPT ![b] = f])
        /\ Reached(flow', tbl[N].flows \cup {f}, v, [tbl[N].head EXCEPT ![b] = f], tbl[N].bucket)
    BY <1>a, <1>4, <1>5, <1>6, <1>8, <2>1, <2>2, WholeWith, ZenonT(60)
  <2> QED
    BY <1>9, <2>3 DEF Whole
<1>15. map' = map
  BY <1>2, <1>10, <1>11, MapIs, MapOfSame, ZenonT(30)
<1> QED
  BY <1>0, <1>2, <1>10, <1>11, <1>12, <1>13, <1>14, <1>15 DEF Tables

\* The new table is published with all the flows.
LEMMA PublishTables ==
    ASSUME Store, Tables, flow_tbl_publish
    PROVE  /\ Tables' /\ map' = map /\ Live' = Live
           /\ tbl'[table'].node_ver # tbl[table].node_ver
           /\ \A u \in Table : /\ tbl'[u].flows = tbl[u].flows /\ tbl'[u].head = tbl[u].head
                               /\ tbl'[u].node_ver = tbl[u].node_ver
                               /\ tbl'[u].bucket = tbl[u].bucket
<1>0. /\ cmd.op = "rehash" /\ cmd.left = {} /\ table' = cmd.new /\ flow' = flow
      /\ tbl' = [tbl EXCEPT ![table].keep_flows = TRUE]
      /\ cmd'.op # "rehash"
  BY DEF flow_tbl_publish, NoCommand, Store, Typed
<1>1. Typed /\ CommandOK /\ OneFlow /\ Whole(cmd.new)
  BY <1>0 DEF Store, Tables
<1>2. /\ cmd.new \in Table /\ tbl[cmd.new].flows = Live
      /\ tbl[cmd.new].node_ver = 1 - tbl[table].node_ver
  BY <1>0, <1>1 DEF CommandOK
<1>3. \A u \in Table : /\ tbl'[u].flows = tbl[u].flows /\ tbl'[u].head = tbl[u].head
                       /\ tbl'[u].node_ver = tbl[u].node_ver
                       /\ tbl'[u].bucket = tbl[u].bucket
  BY <1>0, <1>1, ZenonT(30) DEF Typed, TableObj
<1>4. Live' = Live
  BY <1>0, <1>2, <1>3 DEF Live
<1>5. OneFlow' /\ Whole(table)'
  <2>1. OneFlow'
    BY <1>0, <1>1, <1>4 DEF OneFlow
  <2>2. Whole(table)'
    BY <1>0, <1>1, <1>2, <1>3 DEF Whole
  <2> QED
    BY <2>1, <2>2
<1>6. tbl'[table'].node_ver # tbl[table].node_ver
  <2>1. tbl[table].node_ver \in Ver /\ tbl'[table'].node_ver = 1 - tbl[table].node_ver
    BY <1>0, <1>1, <1>2, <1>3 DEF Typed, TableObj
  <2> QED
    BY ONLY <2>1, SMT DEF Ver
<1> QED
  BY <1>0, <1>3, <1>4, <1>5, <1>6, MapIs DEF Tables

\* What an insertion changes.
Inserted(k, f, s) ==
    /\ flow'[f].key = k /\ flow'[f].sf_acts = s
    /\ \A g \in Flow \ {f} : /\ flow'[g].key = flow[g].key
                             /\ flow'[g].sf_acts = flow[g].sf_acts
                             /\ flow'[g].next = flow[g].next
    /\ flow'[f].next[tbl[table].node_ver] = tbl[table].head[tbl[table].bucket[k]]
    /\ tbl'[table].head = [tbl[table].head EXCEPT ![tbl[table].bucket[k]] = f]
    /\ tbl'[table].bucket = tbl[table].bucket
    /\ tbl'[table].node_ver = tbl[table].node_ver
    /\ \A u \in Table \ {table} : tbl'[u] = tbl[u]
    /\ Live' = Live \cup {f}

\* An inserted flow is found under its key.
LEMMA NewTables ==
    ASSUME Store, Tables, NEW k \in Key, NEW f \in Flow, NEW s \in Acts, ovs_flow_cmd_new(k, f, s)
    PROVE  /\ Tables' /\ map[k] = NULL /\ map' = [map EXCEPT ![k] = s]
           /\ Inserted(k, f, s)
<1>a. PICK v, b, fl : /\ v = tbl[table].node_ver /\ b = tbl[table].bucket[k]
                      /\ fl = [flow EXCEPT ![f] = NewFlow(k, s)]
  OBVIOUS
<1>0. /\ f \notin mem /\ s \notin mem /\ FlowsFor(k) = {} /\ cmd'.op # "rehash"
      /\ tbl' = [tbl EXCEPT ![table] = TableWith(table, f, k)]
      /\ table' = table
  BY DEF ovs_flow_cmd_new, NoCommand
<1>1. Typed /\ Filled /\ FlowsOwned /\ OneFlow /\ Whole(table)
  BY DEF Store, Tables
<1>2. /\ v \in Ver /\ b \in Bucket /\ f \notin Live
      /\ fl \in [Flow -> FlowObj] /\ fl[f] = NewFlow(k, s)
      /\ \A g \in Flow \ {f} : fl[g] = flow[g]
      /\ List(fl, Live, v, tbl[table].head)
      /\ Added(fl, flow', f, v, b, tbl[table].head[b])
      /\ tbl'[table].flows = Live \cup {f} /\ tbl'[table].node_ver = v
      /\ tbl'[table].head = [tbl[table].head EXCEPT ![b] = f]
      /\ \A u \in Table \ {table} : tbl'[u] = tbl[u]
      /\ Live' = Live \cup {f}
  BY <1>a, NewFields, ZenonT(30)
<1>3. /\ Live \in SUBSET Flow /\ tbl[table].head \in [Bucket -> Flow \cup {NULL}]
      /\ tbl[table].bucket \in [Key -> Bucket] /\ table \in Table
      /\ tbl[table] \in TableObj
  BY <1>1 DEF Typed, TableObj, Live
<1>4. \A g \in Live : flow[g].key \in Key /\ flow[g].key # k
  BY <1>0, <1>1, <1>3 DEF FlowsOwned, Filled, FlowsFor, Live
<1>5. tbl'[table].bucket = tbl[table].bucket
  <2>1. tbl'[table] = TableWith(table, f, k)
    BY <1>0, <1>1, <1>3 DEF Typed
  <2> QED
    BY <1>3, <2>1 DEF TableWith, TableObj
<1>6. /\ flow'[f].key = k /\ flow'[f].sf_acts = s
      /\ \A g \in Flow \ {f} : flow'[g].key = flow[g].key /\ flow'[g].sf_acts = flow[g].sf_acts
      /\ flow'[f].next[v] = tbl[table].head[b]
  BY ONLY <1>2, SMT DEF Added, NewFlow
<1>7. ASSUME NEW g \in Flow \ {f} PROVE flow'[g].next = flow[g].next
  <2>1. \A w \in Ver : flow'[g].next[w] = flow[g].next[w]
    BY ONLY <1>2, SMT DEF Added
  <2>2. flow'[g].next \in [Ver -> Flow \cup {NULL, Junk}] /\ flow[g].next \in [Ver -> Flow \cup {NULL, Junk}]
    BY <1>1, <1>2 DEF Added, Typed, FlowObj
  <2> QED
    BY ONLY <2>1, <2>2, SMT
<1>8. OneFlow'
  BY ONLY <1>1, <1>2, <1>3, <1>4, <1>6, SMT DEF OneFlow
<1>9. Whole(table)'
  <2>1. /\ Back(flow, Live, v, tbl[table].head)
        /\ Reached(flow, Live, v, tbl[table].head, tbl[table].bucket)
    BY <1>a, <1>1 DEF Whole, Live
  <2>2. \A g \in Live : fl[g] = flow[g]
    BY <1>2, <1>3
  <2>3. Back(fl, Live, v, tbl[table].head) /\ Reached(fl, Live, v, tbl[table].head, tbl[table].bucket)
    BY <2>1, <2>2, WholeSame
  <2>4. /\ f \in Flow \ Live /\ tbl[table].bucket[fl[f].key] = b
        /\ \A g \in Live : tbl[table].bucket[fl[g].key] \in Bucket
    BY <1>a, <1>2, <1>3, <1>4, <2>2 DEF NewFlow
  <2>5. /\ Back(flow', Live \cup {f}, v, [tbl[table].head EXCEPT ![b] = f])
        /\ Reached(flow', Live \cup {f}, v, [tbl[table].head EXCEPT ![b] = f], tbl[table].bucket)
    BY <1>2, <1>3, <2>3, <2>4, WholeWith, ZenonT(30)
  <2> QED
    BY <1>0, <1>2, <1>5, <2>5 DEF Whole
<1>10. map[k] = NULL
  BY <1>4, MapIs, MapOfNone
<1>11. map' = [map EXCEPT ![k] = s]
  <2>a. PICK m : m = [map EXCEPT ![k] = s]
    OBVIOUS
  <2>1. map = [j \in Key |-> map[j]]
    BY MapIs, MapOfEntries
  <2>2. m = [j \in Key |-> m[j]] /\ m[k] = s /\ \A j \in Key \ {k} : m[j] = map[j]
    BY <2>a, <2>1
  <2>3. ASSUME NEW g \in Live PROVE m[flow'[g].key] = flow'[g].sf_acts
    <3>1. map[flow[g].key] = flow[g].sf_acts
      BY <1>1, <1>4, MapIs, MapOfFlow DEF OneFlow, Unique
    <3>2. g \in Flow \ {f}
      BY <1>2, <1>3
    <3> QED
      BY <1>4, <1>6, <2>2, <3>1, <3>2
  <2>4. ASSUME NEW j \in Key, \A g \in Live \cup {f} : flow'[g].key # j PROVE m[j] = NULL
    <3>1. \A g \in Live : flow[g].key # j
      BY <1>2, <1>3, <1>6, <2>4
    <3>2. j # k
      BY <1>6, <2>4
    <3>3. map[j] = NULL
      BY <3>1, MapIs, MapOfNone
    <3> QED
      BY <2>2, <3>2, <3>3
  <2>5. \A g \in Live' : flow'[g].key \in Key /\ m[flow'[g].key] = flow'[g].sf_acts
    BY <1>2, <1>3, <1>4, <1>6, <2>2, <2>3
  <2>6. Unique(flow', Live')
    BY <1>8 DEF OneFlow, Unique
  <2>7. \A j \in Key : (\A g \in Live' : flow'[g].key # j) => m[j] = NULL
    BY <1>2, <2>4
  <2>8. Stands(m, flow', Live')
    BY <2>2, <2>5, <2>6, <2>7 DEF Stands
  <2>9. MapOf(flow', Live') = m
    BY <2>8, MapOfIs
  <2> QED
    BY <2>a, <2>9, MapIs
<1> QED
  BY <1>a, <1>0, <1>2, <1>5, <1>6, <1>7, <1>8, <1>9, <1>10, <1>11 DEF Tables, Inserted

\* New actions are found under the flow's key.
LEMMA SetTables ==
    ASSUME Store, Tables, NEW f \in Flow, NEW s \in Acts, ovs_flow_cmd_set(f, s)
    PROVE  /\ Tables' /\ f \in Live /\ flow[f].key \in Key /\ map[flow[f].key] # NULL
           /\ map' = [map EXCEPT ![flow[f].key] = s]
           /\ Live' = Live
           /\ \A g \in Flow : /\ flow'[g].key = flow[g].key /\ flow'[g].next = flow[g].next
                              /\ g # f => flow'[g].sf_acts = flow[g].sf_acts
           /\ flow'[f].sf_acts = s
<1>a. PICK k : k = flow[f].key
  OBVIOUS
<1>0. /\ f \in Live /\ flow' = [flow EXCEPT ![f].sf_acts = s]
      /\ UNCHANGED <<table, tbl, cmd>> /\ cmd.op # "rehash"
  BY DEF ovs_flow_cmd_set, Live, NoCommand
<1>1. Typed /\ Filled /\ FlowsOwned /\ OneFlow /\ Whole(table)
  BY DEF Store, Tables
<1>2. Live' = Live /\ Live \subseteq Flow
  BY <1>0, <1>1 DEF Live, Typed, TableObj
<1>3. \A g \in Live : flow[g].key \in Key /\ flow[g].sf_acts \in Acts
  BY <1>1, <1>2 DEF FlowsOwned, Filled
<1>4. /\ \A g \in Flow : /\ flow'[g].key = flow[g].key /\ flow'[g].next = flow[g].next
                         /\ flow'[g].pprev = flow[g].pprev
                         /\ g # f => flow'[g].sf_acts = flow[g].sf_acts
      /\ flow'[f].sf_acts = s
  BY <1>0, <1>1 DEF Typed, FlowObj
<1>5. OneFlow'
  BY ONLY <1>1, <1>2, <1>4, SMT DEF OneFlow
<1>6. Whole(table)'
  <2>1. /\ Back(flow, Live, tbl[table].node_ver, tbl[table].head)
        /\ Reached(flow, Live, tbl[table].node_ver, tbl[table].head, tbl[table].bucket)
    BY <1>1 DEF Whole, Live
  <2>2. /\ Back(flow', Live, tbl[table].node_ver, tbl[table].head)
        /\ Reached(flow', Live, tbl[table].node_ver, tbl[table].head, tbl[table].bucket)
    BY <1>2, <1>4, <2>1, WholeSame
  <2> QED
    BY <1>0, <2>2 DEF Whole, Live
<1>7. \A g \in Live : map[flow[g].key] = flow[g].sf_acts
  <2>1. Unique(flow, Live)
    BY <1>1 DEF OneFlow, Unique
  <2> QED
    BY <1>3, <2>1, MapIs, MapOfFlow
<1>8. k \in Key /\ map[k] # NULL
  <2>1. map[k] \in Acts /\ k \in Key
    BY <1>a, <1>0, <1>3, <1>7
  <2> QED
    BY <2>1, FlowTableAssumption
<1>9. map' = [map EXCEPT ![k] = s]
  <2>a. PICK m : m = [map EXCEPT ![k] = s]
    OBVIOUS
  <2>1. map = [j \in Key |-> map[j]]
    BY MapIs, MapOfEntries
  <2>2. m = [j \in Key |-> m[j]] /\ m[k] = s /\ \A j \in Key \ {k} : m[j] = map[j]
    BY <1>8, <2>a, <2>1
  <2>3. ASSUME NEW g \in Live PROVE flow'[g].key \in Key /\ m[flow'[g].key] = flow'[g].sf_acts
    <3>1. CASE g = f
      BY <1>a, <1>2, <1>3, <1>4, <2>2, <3>1
    <3>2. CASE g # f
      <4>1. flow[g].key # k
        BY <1>a, <1>0, <1>1, <3>2 DEF OneFlow
      <4> QED
        BY <1>2, <1>3, <1>4, <1>7, <2>2, <3>2, <4>1, ZenonT(60)
    <3> QED
      BY <3>1, <3>2
  <2>4. ASSUME NEW j \in Key, \A g \in Live : flow'[g].key # j PROVE m[j] = NULL
    <3>1. \A g \in Live : flow[g].key # j
      BY <1>2, <1>4, <2>4
    <3>2. map[j] = NULL
      BY <3>1, MapIs, MapOfNone
    <3> QED
      BY <1>a, <1>0, <2>2, <3>1, <3>2
  <2>5. Unique(flow', Live')
    BY <1>5 DEF OneFlow, Unique
  <2>6. Stands(m, flow', Live')
    BY <1>2, <2>2, <2>3, <2>4, <2>5 DEF Stands
  <2>7. MapOf(flow', Live') = m
    BY <2>6, MapOfIs
  <2> QED
    BY <2>a, <2>7, MapIs
<1> QED
  BY <1>a, <1>0, <1>2, <1>4, <1>5, <1>6, <1>8, <1>9 DEF Tables

\* A removed flow is no longer found, and the others are.
LEMMA DelTables ==
    ASSUME Store, Tables, NEW f \in Flow, ovs_flow_cmd_del(f)
    PROVE  /\ Tables' /\ f \in Live /\ flow[f].key \in Key /\ map[flow[f].key] # NULL
           /\ map' = [map EXCEPT ![flow[f].key] = NULL]
           /\ Live' = Live \ {f}
           /\ \A g \in Flow : flow'[g].key = flow[g].key /\ flow'[g].sf_acts = flow[g].sf_acts
           /\ Unlinks(flow, flow', Live, tbl[table].node_ver, tbl[table].head, f)
           /\ tbl'[table].head = Bypass(tbl[table].head, flow[f].next[tbl[table].node_ver],
                                        flow[f].pprev[tbl[table].node_ver])
           /\ tbl'[table].bucket = tbl[table].bucket
           /\ tbl'[table].node_ver = tbl[table].node_ver
           /\ \A u \in Table \ {table} : tbl'[u] = tbl[u]
<1>a. PICK k, v, n, p : /\ k = flow[f].key /\ v = tbl[table].node_ver
                        /\ n = flow[f].next[v] /\ p = flow[f].pprev[v]
  BY ZenonT(30)
<1>0. /\ tbl' = [tbl EXCEPT ![table] = TableWithout(table, f)]
      /\ UNCHANGED <<table, cmd>> /\ cmd.op # "rehash"
  BY DEF ovs_flow_cmd_del, NoCommand
<1>1. Typed /\ Filled /\ FlowsOwned /\ OneFlow /\ Whole(table) /\ Linked(table)
  BY DEF Store, Tables
<1>2. /\ v \in Ver /\ f \in Live
      /\ Removed(flow, flow', n, p, v)
      /\ tbl'[table].flows = Live \ {f} /\ tbl'[table].node_ver = v
      /\ tbl'[table].head = Bypass(tbl[table].head, n, p)
      /\ \A u \in Table \ {table} : tbl'[u] = tbl[u]
      /\ Live' = Live \ {f}
  BY <1>a, DelFields
<1>3. /\ Live \in SUBSET Flow /\ tbl[table].head \in [Bucket -> Flow \cup {NULL}]
      /\ tbl[table].bucket \in [Key -> Bucket] /\ table \in Table
      /\ tbl[table] \in TableObj
  BY <1>1 DEF Typed, TableObj, Live
<1>4. \A g \in Live : flow[g].key \in Key /\ flow[g].sf_acts \in Acts
  BY <1>1, <1>3 DEF FlowsOwned, Filled
<1>5. tbl'[table].bucket = tbl[table].bucket
  <2>1. tbl'[table] = TableWithout(table, f)
    BY <1>0, <1>1, <1>3 DEF Typed
  <2> QED
    BY <1>3, <2>1 DEF TableWithout, TableObj
<1>6. \A g \in Flow : flow'[g].key = flow[g].key /\ flow'[g].sf_acts = flow[g].sf_acts
  BY <1>2 DEF Removed
<1>7. /\ List(flow, Live, v, tbl[table].head)
      /\ Back(flow, Live, v, tbl[table].head)
      /\ Reached(flow, Live, v, tbl[table].head, tbl[table].bucket)
  BY <1>a, <1>1 DEF Whole, Linked, Live
<1>8. Unlinks(flow, flow', Live, v, tbl[table].head, f)
  BY <1>a, <1>2, <1>3, <1>7 DEF Unlinks
<1>9. OneFlow'
  BY ONLY <1>1, <1>2, <1>3, <1>6, SMT DEF OneFlow
<1>10. Whole(table)'
  <2>1. \A g \in Live : tbl[table].bucket[flow[g].key] \in Bucket
    BY <1>3, <1>4
  <2>2. Removed(flow, flow', flow[f].next[v], flow[f].pprev[v], v)
    BY <1>a, <1>2
  <2>3. LET new == Bypass(tbl[table].head, flow[f].next[v], flow[f].pprev[v])
        IN  Back(flow', Live \ {f}, v, new) /\ Reached(flow', Live \ {f}, v, new, tbl[table].bucket)
    BY <1>2, <1>3, <1>7, <2>1, <2>2, WholeWithout
  <2> QED
    BY <1>a, <1>0, <1>2, <1>5, <2>3 DEF Whole
<1>11. \A g \in Live : map[flow[g].key] = flow[g].sf_acts
  <2>1. Unique(flow, Live)
    BY <1>1 DEF OneFlow, Unique
  <2> QED
    BY <1>4, <2>1, MapIs, MapOfFlow
<1>12. k \in Key /\ map[k] # NULL
  <2>1. map[k] \in Acts /\ k \in Key
    BY <1>a, <1>2, <1>4, <1>11
  <2> QED
    BY <2>1, FlowTableAssumption
<1>13. map' = [map EXCEPT ![k] = NULL]
  <2>a. PICK m : m = [map EXCEPT ![k] = NULL]
    OBVIOUS
  <2>1. map = [j \in Key |-> map[j]]
    BY MapIs, MapOfEntries
  <2>2. m = [j \in Key |-> m[j]] /\ m[k] = NULL /\ \A j \in Key \ {k} : m[j] = map[j]
    BY <1>12, <2>a, <2>1
  <2>3. ASSUME NEW g \in Live' PROVE flow'[g].key \in Key /\ m[flow'[g].key] = flow'[g].sf_acts
    <3>1. g \in Live /\ g \in Flow /\ g # f
      BY <1>2, <1>3
    <3>2. flow[g].key # k
      BY <1>a, <1>1, <1>2, <3>1 DEF OneFlow
    <3> QED
      BY <1>4, <1>6, <1>11, <2>2, <3>1, <3>2
  <2>4. ASSUME NEW j \in Key, \A g \in Live' : flow'[g].key # j PROVE m[j] = NULL
    <3>1. CASE j = k
      BY <2>2, <3>1
    <3>2. CASE j # k
      <4>1. \A g \in Live : flow[g].key # j
        BY <1>a, <1>2, <1>3, <1>6, <2>4, <3>2
      <4>2. map[j] = NULL
        BY <4>1, MapIs, MapOfNone
      <4> QED
        BY <2>2, <3>2, <4>2
    <3> QED
      BY <3>1, <3>2
  <2>5. Unique(flow', Live')
    BY <1>9 DEF OneFlow, Unique
  <2>6. Stands(m, flow', Live')
    BY <2>2, <2>3, <2>4, <2>5 DEF Stands
  <2>7. MapOf(flow', Live') = m
    BY <2>6, MapOfIs
  <2> QED
    BY <2>a, <2>7, MapIs
<1> QED
  BY <1>a, <1>0, <1>2, <1>5, <1>6, <1>8, <1>9, <1>10, <1>12, <1>13 DEF Tables

\* A flush leaves an empty table.
LEMMA FlushTables ==
    ASSUME Store, Tables, NEW t \in Table, NEW where \in [Key -> Bucket], flush_flows(t, where)
    PROVE  Tables' /\ map' = [k \in Key |-> NULL]
<1>0. /\ tbl' = [tbl EXCEPT ![t] = NewTable(0, where)]
      /\ table' = t /\ cmd' = cmd /\ cmd.op # "rehash"
  BY DEF flush_flows, NoCommand
<1>1. Live' = {}
  BY <1>0 DEF Live, NewTable, Store, Typed
<1>2. OneFlow' /\ Whole(table)'
  BY <1>1 DEF OneFlow, Whole, Back, Reached, Live
<1>3. ASSUME NEW k \in Key PROVE MapOf(flow', Live')[k] = NULL
  BY <1>1, MapOfNone
<1>4. MapOf(flow', Live') = [k \in Key |-> MapOf(flow', Live')[k]]
  BY MapOfEntries
<1>5. map' = [k \in Key |-> NULL]
  BY <1>3, <1>4, MapIs
<1> QED
  BY <1>0, <1>2, <1>5 DEF Tables

\* A callback frees no flow and no table that is in use.
LEMMA CallbackTables ==
    ASSUME Store, Tables, NEW cb \in rcu, rcu_callback(cb)
    PROVE  /\ Tables' /\ map' = map /\ Live' = Live /\ tbl'[table] = tbl[table]
           /\ \A f \in Live : flow'[f] = flow[f]
<1> DEFINE fs == {f \in Flow : FreesFlow(cb, f)}
           ts == {t \in Table : FreesTable(cb, t)}
<1>0. /\ tbl' = [t \in Table |-> IF t \in ts THEN OldTable ELSE tbl[t]]
      /\ flow' = [f \in Flow |-> IF f \in fs THEN OldFlow ELSE flow[f]]
      /\ fs \cap Live = {} /\ table \notin ts /\ cmd.new \notin ts
  BY CallbackFields
<1>1. UNCHANGED <<table, cmd>> /\ Typed /\ CommandOK /\ Tables
  BY DEF rcu_callback, Store
<1> HIDE DEF fs, ts
<1>2. tbl'[table] = tbl[table] /\ Live' = Live /\ Live \subseteq Flow
  BY <1>0, <1>1 DEF Live, Typed, TableObj
<1>3. \A f \in Live : flow'[f] = flow[f]
  BY <1>0, <1>2
<1>4. OneFlow'
  BY ONLY <1>1, <1>2, <1>3, SMT DEF Tables, OneFlow
<1>5. ASSUME NEW u \in Table, Whole(u), tbl'[u] = tbl[u], tbl[u].flows \subseteq Live
      PROVE  Whole(u)'
  <2>1. /\ Back(flow, tbl[u].flows, tbl[u].node_ver, tbl[u].head)
        /\ Reached(flow, tbl[u].flows, tbl[u].node_ver, tbl[u].head, tbl[u].bucket)
    BY <1>5 DEF Whole
  <2>2. \A f \in tbl[u].flows : flow'[f] = flow[f]
    BY <1>3, <1>5
  <2>3. /\ Back(flow', tbl[u].flows, tbl[u].node_ver, tbl[u].head)
        /\ Reached(flow', tbl[u].flows, tbl[u].node_ver, tbl[u].head, tbl[u].bucket)
    BY <2>1, <2>2, WholeSame
  <2> QED
    BY <1>5, <2>3 DEF Whole
<1>6. Whole(table)'
  BY <1>1, <1>2, <1>5 DEF Tables, Live, Typed
<1>7. ASSUME cmd.op = "rehash" PROVE Whole(cmd.new)'
  <2>1. cmd.new \in Table /\ tbl[cmd.new].flows \subseteq Live
    BY <1>1, <1>7 DEF CommandOK
  <2>2. tbl'[cmd.new] = tbl[cmd.new]
    BY <1>0, <2>1
  <2> QED
    BY <1>1, <1>5, <1>7, <2>1, <2>2 DEF Tables
<1>8. map' = map
  BY <1>2, <1>3, MapIs, MapOfSame, ZenonT(30)
<1> QED
  BY <1>1, <1>2, <1>3, <1>4, <1>6, <1>7, <1>8 DEF Tables
-----------------------------------------------------------------------------
\* Lookups under way.

\* What the invariant says of one.
LEMMA LookingFacts ==
    ASSUME LInv, NEW c \in Cpu, Looking(c)
    PROVE  /\ c \in Reading /\ ReaderOK(c)
           /\ cpu[c].pc \in {"bucket", "lookup", "found"} /\ cpu[c].tbl \in Table
           /\ cpu[c].key \in Key /\ look[c].key = cpu[c].key
           /\ cpu[c].pc = "found" => cpu[c].at \in Safe(c)
           /\ Right(c) /\ (Must(c) => Sure(c))
<1>1. LookOK(c) /\ Readers
  BY DEF LInv, Looks, IInv
<1>2. c \in Reading /\ cpu[c].pc \in {"bucket", "lookup", "found"}
  BY <1>1 DEF LookOK, Reading
<1>3. ReaderOK(c)
  BY <1>1, <1>2 DEF Readers
<1> QED
  BY <1>1, <1>2, <1>3 DEF LookOK, ReaderOK, Good, Reading

\* A change of the map is noted for each of them, ...
LEMMA Watched ==
    ASSUME LInv, map' \in [Key -> Acts \cup {NULL}], Watch
    PROVE  /\ look' \in [Cpu -> LookObj]
           /\ \A c \in Cpu :
                /\ look'[c].key = look[c].key /\ look'[c].answer = look[c].answer
                /\ look'[c].links = look[c].links /\ look[c].may \subseteq look'[c].may
                /\ ~Looking(c) => look'[c] = look[c]
                /\ Looking(c) => map'[cpu[c].key] \in look'[c].may
<1>1. look \in [Cpu -> LookObj]
  BY DEF LInv, Looks
<1>2. look' = [c \in Cpu |-> IF Looking(c)
                             THEN [look[c] EXCEPT !.may = @ \cup {map'[look[c].key]}]
                             ELSE look[c]]
  BY DEF Watch
<1>3. ASSUME NEW c \in Cpu
      PROVE  /\ look'[c] \in LookObj
             /\ look'[c].key = look[c].key /\ look'[c].answer = look[c].answer
             /\ look'[c].links = look[c].links /\ look[c].may \subseteq look'[c].may
             /\ ~Looking(c) => look'[c] = look[c]
             /\ Looking(c) => map'[cpu[c].key] \in look'[c].may
  <2>1. CASE ~Looking(c)
    BY <1>1, <1>2, <2>1
  <2>2. CASE Looking(c)
    <3>1. look[c].key = cpu[c].key /\ cpu[c].key \in Key
      BY <2>2, LookingFacts
    <3>2. PICK a \in Acts \cup {NULL} : a = map'[look[c].key]
      BY <3>1
    <3>3. look'[c] = [look[c] EXCEPT !.may = @ \cup {a}]
      BY <1>2, <2>2, <3>2
    <3>4. look[c] \in LookObj
      BY <1>1
    <3>5. /\ look'[c] \in LookObj
          /\ look'[c].key = look[c].key /\ look'[c].answer = look[c].answer
          /\ look'[c].links = look[c].links /\ look'[c].may = look[c].may \cup {a}
      <4>1. PICK more : more = look[c].may \cup {a}
        OBVIOUS
      <4>2. more \in SUBSET (Acts \cup {NULL}) /\ look'[c] = [look[c] EXCEPT !.may = more]
        BY <3>3, <3>4, <4>1 DEF LookObj
      <4> QED
        BY <3>4, <4>1, <4>2 DEF LookObj
    <3> QED
      BY <2>2, <3>1, <3>2, <3>5
  <2> QED
    BY <2>1, <2>2
<1> QED
  BY <1>2, <1>3

\* ... and so is a rebuild.
LEMMA Relinked ==
    ASSUME look \in [Cpu -> LookObj], NEW from, NEW to \in {"good", "spare", "reused"},
           look' = [c \in Cpu |-> IF Looking(c) /\ look[c].links = from
                                  THEN [look[c] EXCEPT !.links = to] ELSE look[c]]
    PROVE  /\ look' \in [Cpu -> LookObj]
           /\ \A c \in Cpu :
                /\ look'[c].key = look[c].key /\ look'[c].answer = look[c].answer
                /\ look'[c].may = look[c].may
                /\ ~Looking(c) => look'[c] = look[c]
                /\ Looking(c) => look'[c].links = IF look[c].links = from THEN to ELSE look[c].links
<1>1. ASSUME NEW c \in Cpu
      PROVE  /\ look'[c] \in LookObj
             /\ look'[c].key = look[c].key /\ look'[c].answer = look[c].answer
             /\ look'[c].may = look[c].may
             /\ ~Looking(c) => look'[c] = look[c]
             /\ Looking(c) => look'[c].links = IF look[c].links = from THEN to ELSE look[c].links
  <2>1. look[c] \in LookObj
    OBVIOUS
  <2>2. CASE Looking(c) /\ look[c].links = from
    <3>1. look'[c] = [look[c] EXCEPT !.links = to]
      BY <2>2
    <3> QED
      BY <2>1, <2>2, <3>1 DEF LookObj
  <2>3. CASE ~(Looking(c) /\ look[c].links = from)
    <3>1. look'[c] = look[c]
      BY <2>3
    <3> QED
      BY <2>1, <2>3, <3>1
  <2> QED
    BY <2>2, <2>3
<1> QED
  BY <1>1

\* A step of another keeps what is known of a lookup if it keeps its answers
\* right and its misses sure.
LEMMA LookStays ==
    ASSUME LInv, NEW c \in Cpu, cpu' = cpu,
           look'[c].key = look[c].key, look'[c].answer = look[c].answer,
           ~Looking(c) => look'[c] = look[c],
           Looking(c) => Right(c)' /\ (Must(c)' => Sure(c)')
    PROVE  LookOK(c)'
<1>1. LookOK(c)
  BY DEF LInv, Looks
<1>2. Looking(c)' <=> Looking(c)
  BY DEF Looking
<1>3. cpu[c].pc = "idle" => ~Looking(c)
  BY <1>1, Zenon DEF LookOK
<1> QED
  BY <1>1, <1>2, <1>3 DEF LookOK

\* Answers stay right: flows keep their keys, and their actions or new ones that
\* the lookup may answer.
LEMMA RightStays ==
    ASSUME LInv, NEW c \in Cpu, Looking(c), cpu' = cpu,
           look[c].may \subseteq look'[c].may, map'[cpu[c].key] \in look'[c].may,
           \A f \in Safe(c) : flow'[f].key = flow[f].key,
           \A f \in Safe(c)' : flow'[f].key = cpu[c].key =>
                \/ f \in Safe(c) /\ flow'[f].sf_acts = flow[f].sf_acts
                \/ flow'[f].sf_acts = map'[cpu[c].key]
    PROVE  Right(c)'
<1>1. Right(c) /\ (cpu[c].pc = "found" => cpu[c].at \in Safe(c))
  BY LookingFacts
<1>2. \A f \in Safe(c)' : flow'[f].key = cpu[c].key => flow'[f].sf_acts \in look'[c].may
  BY <1>1 DEF Right
<1> QED
  BY <1>1, <1>2 DEF Right

\* A lookup under way when a command or a callback takes its step.
LEMMA LookingBefore ==
    ASSUME LInv, NEW c \in Cpu, Looking(c), cpu' = cpu
    PROVE  Before(c) /\ Store /\ Tables /\ Safe(c) \subseteq Flow /\ Live \subseteq Safe(c)
<1>1. c \in Reading /\ ReaderOK(c) /\ Store /\ Tables
  BY LookingFacts DEF LInv, IInv
<1>2. Live \subseteq Flow
  BY <1>1 DEF Store, Typed, TableObj, Live
<1> QED
  BY <1>1, <1>2 DEF Before, Safe

\* It is still sure of its flow f if the flows A still lead it there.
LEMMA SureStays ==
    ASSUME NEW c \in Cpu, cpu' = cpu,
           look'[c].links = "good" => cpu[c].tbl = table',
           look'[c].links = "spare" =>
                cmd'.op # "rehash" /\ tbl'[cpu[c].tbl].node_ver # tbl'[table'].node_ver,
           NEW f \in Live', NEW A \in SUBSET Safe(c)', flow'[f].key = cpu[c].key,
           Path(flow', tbl'[cpu[c].tbl].node_ver, A, f), At(c)' \in A
    PROVE  Sure(c)'
BY DEF Sure

\* Rebuilds: a lookup whose nodes are about to be used again is not sure any
\* more, and the others go on in the table they began with.
LEMMA RehashLooks ==
    ASSUME LInv, NEW t \in Table, NEW where \in [Key -> Bucket], NEW k \in Key \cup {NULL},
           flow_tbl_rehash(t, where, k)
    PROVE  Looks'
<1>0. /\ look' = [c \in Cpu |-> IF Looking(c) /\ look[c].links = "spare"
                                THEN [look[c] EXCEPT !.links = "reused"] ELSE look[c]]
      /\ cpu' = cpu /\ flow' = flow
  BY DEF flow_tbl_rehash
<1>1. Store /\ Tables /\ look \in [Cpu -> LookObj]
  BY DEF LInv, IInv, Looks
<1>2. map' = map /\ table' = table /\ Live' = Live
  BY <1>1, RehashTables
<1>3. /\ look' \in [Cpu -> LookObj]
      /\ \A c \in Cpu :
            /\ look'[c].key = look[c].key /\ look'[c].answer = look[c].answer
            /\ look'[c].may = look[c].may
            /\ ~Looking(c) => look'[c] = look[c]
            /\ Looking(c) =>
                look'[c].links = IF look[c].links = "spare" THEN "reused" ELSE look[c].links
  BY <1>0, <1>1, Relinked, ZenonT(30)
<1>4. ASSUME NEW c \in Cpu, Looking(c) PROVE Right(c)' /\ (Must(c)' => Sure(c)')
  <2>1. Before(c) /\ Right(c) /\ (Must(c) => Sure(c))
    BY <1>0, <1>4, LookingBefore, LookingFacts
  <2>2. Safe(c)' = Safe(c) /\ tbl'[cpu[c].tbl] = tbl[cpu[c].tbl]
    BY <2>1, RehashReader
  <2>3. Right(c)'
    BY <1>0, <1>2, <1>3, <2>1, <2>2 DEF Right
  <2>4. ASSUME Must(c)' PROVE Sure(c)'
    <3>1. Must(c) /\ look[c].links # "spare" /\ look'[c].links = look[c].links
      BY <1>0, <1>3, <1>4, <2>4 DEF Must
    <3>2. At(c)' = At(c)
      BY <1>0, <2>2 DEF At
    <3> QED
      BY <1>0, <1>2, <2>1, <2>2, <3>1, <3>2 DEF Sure
  <2> QED
    BY <2>3, <2>4
<1>5. \A c \in Cpu : LookOK(c)'
  BY <1>0, <1>3, <1>4, LookStays
<1> QED
  BY <1>3, <1>5 DEF Looks

LEMMA CopyLooks ==
    ASSUME LInv, NEW f \in Flow, flow_table_copy_flow(f)
    PROVE  Looks'
<1>0. cpu' = cpu /\ look' = look /\ cmd.op = "rehash"
  BY DEF flow_table_copy_flow
<1>1. Store /\ Tables /\ look \in [Cpu -> LookObj]
  BY DEF LInv, IInv, Looks
<1>2. /\ map' = map /\ table' = table /\ Live' = Live
      /\ \A g \in Flow : flow'[g].key = flow[g].key /\ flow'[g].sf_acts = flow[g].sf_acts
      /\ \A g \in Flow : flow'[g].next[tbl[table].node_ver] = flow[g].next[tbl[table].node_ver]
  BY <1>1, CopyTables
<1>4. ASSUME NEW c \in Cpu, Looking(c) PROVE Right(c)' /\ (Must(c)' => Sure(c)')
  <2>1. Before(c) /\ Right(c) /\ (Must(c) => Sure(c)) /\ Safe(c) \subseteq Flow
    BY <1>0, <1>4, LookingBefore, LookingFacts
  <2>2. Safe(c)' = Safe(c) /\ tbl'[cpu[c].tbl] = tbl[cpu[c].tbl]
    BY <2>1, CopyReader
  <2>3. Right(c)'
    <3>1. map'[cpu[c].key] \in look'[c].may
      BY <1>0, <1>2, <2>1 DEF Right
    <3> QED
      BY <1>0, <1>2, <1>4, <2>1, <2>2, <3>1, RightStays
  <2>4. ASSUME Must(c)' PROVE Sure(c)'
    <3>1. Sure(c) /\ look[c].links = "good"
      <4>1. Must(c)
        BY <1>0, <2>4 DEF Must
      <4>2. look[c].links \in {"good", "spare", "reused"}
        BY <1>1 DEF LookObj
      <4> QED
        BY <1>0, <2>1, <4>1, <4>2 DEF Sure, Must
    <3>2. cpu[c].tbl = table
      BY <3>1 DEF Sure
    <3>3. PICK g \in Live, A \in SUBSET Safe(c) :
                /\ flow[g].key = cpu[c].key
                /\ Path(flow, tbl[cpu[c].tbl].node_ver, A, g)
                /\ At(c) \in A
      BY <3>1 DEF Sure
    <3>4. Path(flow', tbl'[cpu[c].tbl].node_ver, A, g)
      BY <1>2, <2>1, <2>2, <3>2, <3>3 DEF Path
    <3>5. At(c)' = At(c)
      BY <1>0, <2>2 DEF At
    <3>6. g \in Live' /\ A \in SUBSET Safe(c)' /\ flow'[g].key = cpu[c].key /\ g \in Flow
      BY <1>2, <2>1, <2>2, <3>3 DEF Path
    <3> QED
      BY <1>0, <1>2, <3>1, <3>2, <3>3, <3>4, <3>5, <3>6, SureStays
  <2> QED
    BY <2>3, <2>4
<1>5. \A c \in Cpu : LookOK(c)'
  BY <1>0, <1>4, LookStays
<1> QED
  BY <1>0, <1>1, <1>5 DEF Looks

LEMMA PublishLooks ==
    ASSUME LInv, flow_tbl_publish
    PROVE  Looks'
<1>0. /\ look' = [c \in Cpu |-> IF Looking(c) /\ look[c].links = "good"
                                THEN [look[c] EXCEPT !.links = "spare"] ELSE look[c]]
      /\ cpu' = cpu /\ flow' = flow /\ cmd.op = "rehash" /\ cmd'.op # "rehash"
  BY DEF flow_tbl_publish, NoCommand, LInv, IInv, Store, Typed
<1>1. Store /\ Tables /\ look \in [Cpu -> LookObj]
  BY DEF LInv, IInv, Looks
<1>2. /\ map' = map /\ Live' = Live
      /\ tbl'[table'].node_ver # tbl[table].node_ver
      /\ \A u \in Table : /\ tbl'[u].head = tbl[u].head /\ tbl'[u].bucket = tbl[u].bucket
                          /\ tbl'[u].node_ver = tbl[u].node_ver
  BY <1>1, PublishTables
<1>3. /\ look' \in [Cpu -> LookObj]
      /\ \A c \in Cpu :
            /\ look'[c].key = look[c].key /\ look'[c].answer = look[c].answer
            /\ look'[c].may = look[c].may
            /\ ~Looking(c) => look'[c] = look[c]
            /\ Looking(c) =>
                look'[c].links = IF look[c].links = "good" THEN "spare" ELSE look[c].links
  BY <1>0, <1>1, Relinked, ZenonT(60)
<1>4. ASSUME NEW c \in Cpu, Looking(c) PROVE Right(c)' /\ (Must(c)' => Sure(c)')
  <2>1. Before(c) /\ Right(c) /\ (Must(c) => Sure(c)) /\ cpu[c].tbl \in Table
    BY <1>0, <1>4, LookingBefore, LookingFacts
  <2>2. Safe(c)' = Safe(c)
    BY <2>1, PublishReader
  <2>3. Right(c)'
    BY <1>0, <1>2, <1>3, <2>1, <2>2 DEF Right
  <2>4. ASSUME Must(c)' PROVE Sure(c)'
    <3>1. Must(c) /\ Sure(c)
      BY <1>0, <1>3, <1>4, <2>1, <2>4 DEF Must
    <3>2. look[c].links = "good" /\ look'[c].links = "spare"
      <4>1. look[c].links \in {"good", "spare", "reused"}
        BY <1>1 DEF LookObj
      <4>2. look[c].links = "good"
        BY <1>0, <3>1, <4>1 DEF Sure, Must
      <4> QED
        BY <1>3, <1>4, <4>2
    <3>3. cpu[c].tbl = table
      BY <3>1, <3>2 DEF Sure
    <3>4. At(c)' = At(c)
      BY <1>0, <1>2, <2>1 DEF At
    <3> QED
      BY <1>0, <1>2, <2>1, <2>2, <3>1, <3>2, <3>3, <3>4 DEF Sure
  <2> QED
    BY <2>3, <2>4
<1>5. \A c \in Cpu : LookOK(c)'
  BY <1>0, <1>3, <1>4, LookStays
<1> QED
  BY <1>3, <1>5 DEF Looks

\* What the map holds, before and after.
LEMMA MapHolds ==
    /\ Store => map \in [Key -> Acts \cup {NULL}]
    /\ Store' => map' \in [Key -> Acts \cup {NULL}]
<1>1. Store => \A f \in Live : flow[f].sf_acts \in Acts
  BY DEF Store, FlowsOwned, Filled, Typed, TableObj, Live
<1>2. Store' => \A f \in Live' : flow'[f].sf_acts \in Acts
  BY DEF Store, FlowsOwned, Filled, Typed, TableObj, Live
<1> QED
  BY <1>1, <1>2, MapIs, MapType

\* An inserted flow may come first in the list of a lookup, and leads on to the
\* flow that was first.
LEMMA NewLooks ==
    ASSUME LInv, NEW k \in Key, NEW f \in Flow, NEW s \in Acts, ovs_flow_cmd_new(k, f, s)
    PROVE  Looks'
<1>0. cpu' = cpu /\ Watch /\ table' = table /\ cmd'.op # "rehash"
  BY DEF ovs_flow_cmd_new, NoCommand
<1>1. Store /\ Tables /\ look \in [Cpu -> LookObj] /\ map' \in [Key -> Acts \cup {NULL}]
      /\ Typed /\ map \in [Key -> Acts \cup {NULL}]
  <2>1. Store /\ Tables /\ look \in [Cpu -> LookObj] /\ Typed
    BY DEF LInv, IInv, Looks, Store
  <2> QED
    BY <2>1, NewStore, MapHolds
<1>2. /\ map' = [map EXCEPT ![k] = s]
      /\ flow'[f].key = k /\ flow'[f].sf_acts = s
      /\ \A g \in Flow \ {f} : /\ flow'[g].key = flow[g].key
                               /\ flow'[g].sf_acts = flow[g].sf_acts
                               /\ flow'[g].next = flow[g].next
      /\ flow'[f].next[tbl[table].node_ver] = tbl[table].head[tbl[table].bucket[k]]
      /\ tbl'[table].head = [tbl[table].head EXCEPT ![tbl[table].bucket[k]] = f]
      /\ tbl'[table].bucket = tbl[table].bucket
      /\ tbl'[table].node_ver = tbl[table].node_ver
      /\ \A u \in Table \ {table} : tbl'[u] = tbl[u]
      /\ Live' = Live \cup {f}
  <2>1. Store /\ Tables
    BY <1>1
  <2>2. map' = [map EXCEPT ![k] = s] /\ Inserted(k, f, s)
    BY <2>1, NewTables
  <2> QED
    BY <2>2 DEF Inserted
<1>3. /\ look' \in [Cpu -> LookObj]
      /\ \A c \in Cpu :
            /\ look'[c].key = look[c].key /\ look'[c].answer = look[c].answer
            /\ look'[c].links = look[c].links /\ look[c].may \subseteq look'[c].may
            /\ ~Looking(c) => look'[c] = look[c]
            /\ Looking(c) => map'[cpu[c].key] \in look'[c].may
  BY <1>0, <1>1, Watched
<1>4. ASSUME NEW c \in Cpu, Looking(c) PROVE Right(c)' /\ (Must(c)' => Sure(c)')
  <2>1. /\ Before(c) /\ (Must(c) => Sure(c)) /\ Safe(c) \subseteq Flow /\ cpu[c].key \in Key
        /\ cpu[c].tbl \in Table
    BY <1>0, <1>4, LookingBefore, LookingFacts
  <2>2. Safe(c)' = Safe(c) \cup {f} /\ f \notin Safe(c)
    BY <2>1, NewReader
  <2>3. Right(c)'
    <3>1. \A g \in Safe(c) : g \in Flow \ {f}
      BY <2>1, <2>2
    <3>2. flow'[f].key = cpu[c].key => flow'[f].sf_acts = map'[cpu[c].key]
      BY <1>1, <1>2, <2>1
    <3> QED
      BY <1>0, <1>2, <1>3, <1>4, <2>2, <3>1, <3>2, RightStays, ZenonT(30)
  <2>4. ASSUME Must(c)' PROVE Sure(c)'
    <3>a. PICK v, b, T : /\ v = tbl[cpu[c].tbl].node_ver /\ T = cpu[c].tbl
                         /\ b = tbl[cpu[c].tbl].bucket[cpu[c].key]
      OBVIOUS
    <3>1. Must(c) /\ Sure(c)
      BY <1>0, <1>3, <2>1, <2>4 DEF Must
    <3>2. PICK g \in Live, A \in SUBSET Safe(c) :
                flow[g].key = cpu[c].key /\ Path(flow, v, A, g) /\ At(c) \in A
      BY <3>a, <3>1 DEF Sure
    <3>3. tbl'[T].node_ver = v /\ tbl'[T].bucket = tbl[T].bucket
      BY <3>a, <1>2, <2>1
    <3>4. \A h \in A : h \in Flow \ {f}
      BY <2>1, <2>2
    <3>5. Path(flow', v, A, g)
      BY <1>2, <3>2, <3>4 DEF Path
    <3>6. g \in Live' /\ flow'[g].key = cpu[c].key /\ A \in SUBSET Safe(c)'
      BY <1>2, <2>2, <3>2, <3>4 DEF Path
    <3>7. /\ look'[c].links = "good" => T = table'
          /\ look'[c].links = "spare" => cmd'.op # "rehash" /\ tbl'[T].node_ver # tbl'[table'].node_ver
      BY <3>a, <1>0, <1>2, <1>3, <3>1, <3>3, ZenonT(30) DEF Sure
    <3>8. CASE At(c)' = At(c)
      BY <3>a, <1>0, <3>2, <3>3, <3>5, <3>6, <3>7, <3>8, SureStays
    <3>9. CASE At(c)' # At(c)
      <4>1. /\ cpu[c].pc = "bucket" /\ T = table /\ b = tbl[table].bucket[k]
            /\ At(c)' = f /\ At(c) = tbl[table].head[b]
        <5>1. cpu[c].pc = "bucket"
          BY <1>0, <3>9 DEF At
        <5>2. At(c) = tbl[T].head[b] /\ At(c)' = tbl'[T].head[b]
          BY <3>a, <1>0, <3>3, <5>1 DEF At
        <5>3. T = table
          BY <3>a, <1>2, <2>1, <3>9, <5>2, ZenonT(30)
        <5>4. b \in Bucket /\ tbl[table].head \in [Bucket -> Flow \cup {NULL}]
          <6>1. tbl[T] \in TableObj
            BY <3>a, <1>1, <2>1 DEF Typed
          <6>2. tbl[T].bucket \in [Key -> Bucket] /\ tbl[T].head \in [Bucket -> Flow \cup {NULL}]
            BY <6>1 DEF TableObj
          <6> QED
            BY <3>a, <2>1, <5>3, <6>2
        <5>5. b = tbl[table].bucket[k]
          BY <1>2, <3>9, <5>2, <5>3, <5>4
        <5> QED
          BY <1>2, <5>1, <5>2, <5>3, <5>4, <5>5
      <4>2. Path(flow', v, A \cup {f}, g)
        <5>1. flow'[f].next[v] \in A
          BY <3>a, <1>2, <3>2, <4>1
        <5> QED
          BY <3>5, <5>1 DEF Path
      <4>3. At(c)' \in A \cup {f} /\ A \cup {f} \in SUBSET Safe(c)'
        BY <2>2, <4>1
      <4> QED
        BY <3>a, <1>0, <3>3, <3>6, <3>7, <4>2, <4>3, SureStays
    <3> QED
      BY <3>8, <3>9
  <2> QED
    BY <2>3, <2>4
<1>5. \A c \in Cpu : LookOK(c)'
  BY <1>0, <1>3, <1>4, LookStays
<1> QED
  BY <1>3, <1>5 DEF Looks

LEMMA SetLooks ==
    ASSUME LInv, NEW f \in Flow, NEW s \in Acts, ovs_flow_cmd_set(f, s)
    PROVE  Looks'
<1>0. cpu' = cpu /\ Watch /\ UNCHANGED <<table, tbl, cmd>>
  BY DEF ovs_flow_cmd_set
<1>1. /\ Store /\ Tables /\ look \in [Cpu -> LookObj]
      /\ map \in [Key -> Acts \cup {NULL}] /\ map' \in [Key -> Acts \cup {NULL}]
  <2>1. Store /\ Tables /\ look \in [Cpu -> LookObj]
    BY DEF LInv, IInv, Looks
  <2> QED
    BY <2>1, SetStore, MapHolds
<1>2. /\ flow[f].key \in Key /\ map' = [map EXCEPT ![flow[f].key] = s]
      /\ Live' = Live
      /\ \A g \in Flow : /\ flow'[g].key = flow[g].key /\ flow'[g].next = flow[g].next
                         /\ g # f => flow'[g].sf_acts = flow[g].sf_acts
      /\ flow'[f].sf_acts = s
  BY <1>1, SetTables
<1>3. /\ look' \in [Cpu -> LookObj]
      /\ \A c \in Cpu :
            /\ look'[c].key = look[c].key /\ look'[c].answer = look[c].answer
            /\ look'[c].links = look[c].links /\ look[c].may \subseteq look'[c].may
            /\ ~Looking(c) => look'[c] = look[c]
            /\ Looking(c) => map'[cpu[c].key] \in look'[c].may
  BY <1>0, <1>1, Watched
<1>4. ASSUME NEW c \in Cpu, Looking(c) PROVE Right(c)' /\ (Must(c)' => Sure(c)')
  <2>1. Before(c) /\ (Must(c) => Sure(c)) /\ Safe(c) \subseteq Flow /\ cpu[c].key \in Key
    BY <1>0, <1>4, LookingBefore, LookingFacts
  <2>2. Safe(c)' = Safe(c)
    BY <2>1, SetReader
  <2>3. Right(c)'
    <3>1. flow'[f].key = cpu[c].key => flow'[f].sf_acts = map'[cpu[c].key]
      BY <1>1, <1>2, <2>1
    <3>2. \A g \in Safe(c) : flow'[g].key = flow[g].key
      BY <1>2, <2>1
    <3> QED
      BY <1>0, <1>2, <1>3, <1>4, <2>1, <2>2, <3>1, <3>2, RightStays
  <2>4. ASSUME Must(c)' PROVE Sure(c)'
    <3>a. PICK v : v = tbl[cpu[c].tbl].node_ver
      OBVIOUS
    <3>1. Must(c) /\ Sure(c)
      BY <1>0, <1>3, <2>1, <2>4 DEF Must
    <3>2. PICK g \in Live, A \in SUBSET Safe(c) :
                flow[g].key = cpu[c].key /\ Path(flow, v, A, g) /\ At(c) \in A
      BY <3>a, <3>1 DEF Sure
    <3>3. Path(flow', v, A, g) /\ flow'[g].key = cpu[c].key
      BY <1>2, <2>1, <3>2 DEF Path
    <3>4. At(c)' = At(c)
      BY <1>0 DEF At
    <3>5. /\ look'[c].links = "good" => cpu[c].tbl = table'
          /\ look'[c].links = "spare" =>
                cmd'.op # "rehash" /\ tbl'[cpu[c].tbl].node_ver # tbl'[table'].node_ver
      BY <1>0, <1>3, <3>1 DEF Sure
    <3> QED
      BY <3>a, <1>0, <1>2, <2>2, <3>2, <3>3, <3>4, <3>5, SureStays
  <2> QED
    BY <2>3, <2>4
<1>5. \A c \in Cpu : LookOK(c)'
  BY <1>0, <1>3, <1>4, LookStays
<1> QED
  BY <1>3, <1>5 DEF Looks

\* A packet that is at the removed flow, or before it, goes on as if it were there.
LEMMA DelLooks ==
    ASSUME LInv, NEW f \in Flow, ovs_flow_cmd_del(f)
    PROVE  Looks'
<1>0. cpu' = cpu /\ Watch /\ UNCHANGED <<table, cmd>>
  BY DEF ovs_flow_cmd_del
<1>1. /\ Store /\ Tables /\ look \in [Cpu -> LookObj] /\ Typed
      /\ map \in [Key -> Acts \cup {NULL}] /\ map' \in [Key -> Acts \cup {NULL}]
  <2>1. Store /\ Tables /\ look \in [Cpu -> LookObj] /\ Typed
    BY DEF LInv, IInv, Looks, Store
  <2> QED
    BY <2>1, DelStore, MapHolds
<1>2. /\ flow[f].key \in Key /\ map' = [map EXCEPT ![flow[f].key] = NULL]
      /\ Live' = Live \ {f}
      /\ \A g \in Flow : flow'[g].key = flow[g].key /\ flow'[g].sf_acts = flow[g].sf_acts
      /\ Unlinks(flow, flow', Live, tbl[table].node_ver, tbl[table].head, f)
      /\ tbl'[table].head = Bypass(tbl[table].head, flow[f].next[tbl[table].node_ver],
                                   flow[f].pprev[tbl[table].node_ver])
      /\ tbl'[table].bucket = tbl[table].bucket
      /\ tbl'[table].node_ver = tbl[table].node_ver
      /\ \A u \in Table \ {table} : tbl'[u] = tbl[u]
  BY <1>1, DelTables, Zenon
<1>3. /\ look' \in [Cpu -> LookObj]
      /\ \A c \in Cpu :
            /\ look'[c].key = look[c].key /\ look'[c].answer = look[c].answer
            /\ look'[c].links = look[c].links /\ look[c].may \subseteq look'[c].may
            /\ ~Looking(c) => look'[c] = look[c]
            /\ Looking(c) => map'[cpu[c].key] \in look'[c].may
  BY <1>0, <1>1, Watched
<1>4. ASSUME NEW c \in Cpu, Looking(c) PROVE Right(c)' /\ (Must(c)' => Sure(c)')
  <2>1. /\ Before(c) /\ (Must(c) => Sure(c)) /\ Safe(c) \subseteq Flow /\ cpu[c].key \in Key
        /\ cpu[c].tbl \in Table
    BY <1>0, <1>4, LookingBefore, LookingFacts
  <2>2. Safe(c)' = Safe(c)
    BY <2>1, DelReader
  <2>3. Right(c)'
    <3>2. \A g \in Safe(c) : flow'[g].key = flow[g].key /\ flow'[g].sf_acts = flow[g].sf_acts
      BY <1>2, <2>1
    <3> QED
      BY <1>0, <1>3, <1>4, <2>2, <3>2, RightStays
  <2>4. ASSUME Must(c)' PROVE Sure(c)'
    <3>a. PICK v, T : v = tbl[cpu[c].tbl].node_ver /\ T = cpu[c].tbl
      OBVIOUS
    <3>1. Must(c) /\ Sure(c)
      BY <1>0, <1>3, <2>1, <2>4 DEF Must
    <3>2. PICK g \in Live, A \in SUBSET Safe(c) :
                flow[g].key = cpu[c].key /\ Path(flow, v, A, g) /\ At(c) \in A
      BY <3>a, <3>1 DEF Sure
    <3>3. g # f
      <4>1. map'[cpu[c].key] # NULL
        BY <1>3, <1>4, <2>4 DEF Must
      <4> QED
        BY <1>1, <1>2, <3>2, <4>1, Zenon
    <3>4. tbl'[T].node_ver = v /\ tbl'[T].bucket = tbl[T].bucket
      BY <3>a, <1>2, <2>1
    <3>5. g \in Live' /\ flow'[g].key = cpu[c].key /\ A \in SUBSET Flow
      <4>1. g \in Flow
        BY <1>1 DEF Typed, TableObj, Live
      <4> QED
        BY <1>2, <2>1, <3>2, <3>3, <4>1
    <3>6. /\ look'[c].links = "good" => T = table'
          /\ look'[c].links = "spare" => cmd'.op # "rehash" /\ tbl'[T].node_ver # tbl'[table'].node_ver
      BY <3>a, <1>0, <1>2, <1>3, <3>1, <3>4 DEF Sure
    <3>7. Path(flow', v, A, g) /\ At(c)' \in A
      <4>0. look[c].links \in {"good", "spare"}
        BY <1>1, <3>1 DEF LookObj, Must
      <4>1. CASE look[c].links = "good"
        <5>1. T = table
          BY <3>a, <3>1, <4>1 DEF Sure
        <5>2. Path(flow', v, A, g)
          <6>1. Unlinks(flow, flow', Live, v, tbl[table].head, f)
            BY <3>a, <1>2, <5>1
          <6>2. A \in SUBSET Flow /\ Path(flow, v, A, g) /\ g # f
            BY <3>2, <3>3, <3>5
          <6> QED
            BY ONLY <6>1, <6>2, PathKept
        <5>3. CASE cpu[c].pc # "bucket"
          BY <1>0, <3>2, <5>2, <5>3 DEF At
        <5>4. CASE cpu[c].pc = "bucket"
          <6>1. PICK b : b = tbl[table].bucket[cpu[c].key]
            OBVIOUS
          <6>2. At(c) = tbl[table].head[b] /\ At(c)' = tbl'[table].head[b]
            BY <3>a, <1>0, <1>2, <5>1, <5>4, <6>1 DEF At
          <6>3. b \in Bucket
            <7>1. tbl[table] \in TableObj
              BY <1>1 DEF Typed
            <7>2. tbl[table].bucket \in [Key -> Bucket]
              BY <7>1 DEF TableObj
            <7> QED
              BY <2>1, <6>1, <7>2
          <6>4. tbl[table].head[b] \in A
            BY <3>2, <6>2
          <6>5. Path(flow, tbl[table].node_ver, A, g)
            BY <3>a, <3>2, <5>1
          <6>6. tbl'[table].head[b] \in A
            <7>1. Unlinks(flow, flow', Live, tbl[table].node_ver, tbl[table].head, f)
              BY <1>2
            <7>2. A \in SUBSET Flow /\ g # f
              BY <3>3, <3>5
            <7>3. Bypass(tbl[table].head, flow[f].next[tbl[table].node_ver],
                         flow[f].pprev[tbl[table].node_ver])[b] \in A
              BY ONLY <6>3, <6>4, <6>5, <7>1, <7>2, HeadWithin, Zenon
            <7> QED
              BY <1>2, <7>3
          <6> QED
            BY <5>2, <6>2, <6>6
        <5> QED
          BY <5>3, <5>4
      <4>2. CASE look[c].links = "spare"
        <5>1. v # tbl[table].node_ver /\ T # table
          BY <3>a, <3>1, <4>2 DEF Sure
        <5>2. v \in Ver
          BY <3>a, <1>1, <2>1 DEF Typed, TableObj
        <5>3. \A h \in A : flow'[h].next[v] = flow[h].next[v]
          BY <1>2, <3>5, <5>1, <5>2 DEF Unlinks, Removed
        <5>4. tbl'[T] = tbl[T]
          BY <3>a, <1>2, <2>1, <5>1
        <5>5. At(c)' = At(c)
          BY <3>a, <1>0, <5>4 DEF At
        <5> QED
          BY <3>2, <5>3, <5>5 DEF Path
      <4> QED
        BY <4>0, <4>1, <4>2
    <3> QED
      BY <3>a, <1>0, <2>2, <3>4, <3>5, <3>6, <3>7, SureStays
  <2> QED
    BY <2>3, <2>4
<1>5. \A c \in Cpu : LookOK(c)'
  BY <1>0, <1>3, <1>4, LookStays
<1> QED
  BY <1>3, <1>5 DEF Looks

\* After a flush a lookup may miss.
LEMMA FlushLooks ==
    ASSUME LInv, NEW t \in Table, NEW where \in [Key -> Bucket], flush_flows(t, where)
    PROVE  Looks'
<1>0. cpu' = cpu /\ Watch /\ flow' = flow
  BY DEF flush_flows
<1>1. Store /\ Tables /\ look \in [Cpu -> LookObj] /\ map' \in [Key -> Acts \cup {NULL}]
  <2>1. Store /\ Tables /\ look \in [Cpu -> LookObj]
    BY DEF LInv, IInv, Looks
  <2> QED
    BY <2>1, FlushStore, MapHolds
<1>2. map' = [k \in Key |-> NULL]
  BY <1>1, FlushTables
<1>3. /\ look' \in [Cpu -> LookObj]
      /\ \A c \in Cpu :
            /\ look'[c].key = look[c].key /\ look'[c].answer = look[c].answer
            /\ look'[c].links = look[c].links /\ look[c].may \subseteq look'[c].may
            /\ ~Looking(c) => look'[c] = look[c]
            /\ Looking(c) => map'[cpu[c].key] \in look'[c].may
  BY <1>0, <1>1, Watched
<1>4. ASSUME NEW c \in Cpu, Looking(c) PROVE Right(c)' /\ (Must(c)' => Sure(c)')
  <2>1. Before(c) /\ cpu[c].key \in Key
    BY <1>0, <1>4, LookingBefore, LookingFacts
  <2>2. Safe(c)' = Safe(c)
    BY <2>1, FlushReader
  <2>3. Right(c)'
    BY <1>0, <1>3, <1>4, <2>2, RightStays
  <2>4. ~Must(c)'
    BY <1>2, <1>3, <1>4, <2>1 DEF Must
  <2> QED
    BY <2>3, <2>4
<1>5. \A c \in Cpu : LookOK(c)'
  BY <1>0, <1>3, <1>4, LookStays
<1> QED
  BY <1>3, <1>5 DEF Looks

\* A callback frees nothing that a packet needs.
LEMMA CallbackLooks ==
    ASSUME LInv, NEW cb \in rcu, rcu_callback(cb)
    PROVE  Looks'
<1>0. cpu' = cpu /\ look' = look /\ UNCHANGED <<table, cmd>>
  BY DEF rcu_callback
<1>1. Store /\ Tables /\ look \in [Cpu -> LookObj]
  BY DEF LInv, IInv, Looks
<1>2. map' = map /\ Live' = Live /\ tbl'[table] = tbl[table]
  BY <1>1, CallbackTables
<1>4. ASSUME NEW c \in Cpu, Looking(c) PROVE Right(c)' /\ (Must(c)' => Sure(c)')
  <2>1. /\ Before(c) /\ Right(c) /\ (Must(c) => Sure(c)) /\ Live \subseteq Safe(c)
        /\ cpu[c].pc = "found" => cpu[c].at \in Safe(c)
    BY <1>0, <1>4, LookingBefore, LookingFacts
  <2>2. /\ Safe(c)' = Safe(c) /\ tbl'[cpu[c].tbl] = tbl[cpu[c].tbl]
        /\ \A f \in Safe(c) : flow'[f] = flow[f]
    BY <2>1, CallbackReader
  <2>3. Right(c)'
    BY <1>0, <1>2, <2>1, <2>2 DEF Right
  <2>4. ASSUME Must(c)' PROVE Sure(c)'
    <3>a. PICK v : v = tbl[cpu[c].tbl].node_ver
      OBVIOUS
    <3>1. Sure(c)
      BY <1>0, <2>1, <2>4 DEF Must
    <3>2. PICK g \in Live, A \in SUBSET Safe(c) :
                flow[g].key = cpu[c].key /\ Path(flow, v, A, g) /\ At(c) \in A
      BY <3>a, <3>1 DEF Sure
    <3>3. Path(flow', v, A, g) /\ flow'[g].key = cpu[c].key
      BY <2>1, <2>2, <3>2 DEF Path
    <3>4. At(c)' = At(c)
      BY <1>0, <2>2 DEF At
    <3>5. /\ look'[c].links = "good" => cpu[c].tbl = table'
          /\ look'[c].links = "spare" =>
                cmd'.op # "rehash" /\ tbl'[cpu[c].tbl].node_ver # tbl'[table'].node_ver
      BY <1>0, <1>2, <2>2, <3>1 DEF Sure
    <3> QED
      BY <3>a, <1>0, <1>2, <2>2, <3>2, <3>3, <3>4, <3>5, SureStays
  <2> QED
    BY <2>3, <2>4
<1>5. \A c \in Cpu : LookOK(c)'
  BY <1>0, <1>4, LookStays
<1> QED
  BY <1>0, <1>1, <1>5 DEF Looks
-----------------------------------------------------------------------------
\* Packets.

\* A packet does not change the tables.
LEMMA SameTables ==
    ASSUME UNCHANGED <<table, tbl, flow>>
    PROVE  /\ map' = map
           /\ Tables /\ (cmd' = cmd \/ cmd'.op # "rehash") => Tables'
           /\ UNCHANGED rcu => \A d \in Cpu : Safe(d)' = Safe(d)
<1>0. Live' = Live
  BY DEF Live
<1>1. map' = map /\ Live' = Live
  BY <1>0, MapIs
<1>2. ASSUME NEW t PROVE Whole(t)' <=> Whole(t)
  BY DEF Whole
<1>3. OneFlow' <=> OneFlow
  BY <1>1 DEF OneFlow
<1>4. ASSUME UNCHANGED rcu, NEW d \in Cpu PROVE Safe(d)' = Safe(d)
  BY <1>1, <1>4 DEF Safe, Waits, FreesFlow
<1>5. ASSUME Tables, cmd' = cmd \/ cmd'.op # "rehash" PROVE Tables'
  <2>1. OneFlow' /\ Whole(table)'
    BY <1>2, <1>3, <1>5 DEF Tables
  <2>2. cmd'.op = "rehash" => Whole(cmd.new)' /\ cmd' = cmd
    BY <1>2, <1>5 DEF Tables
  <2> QED
    BY <2>1, <2>2, <1>2 DEF Tables
<1> QED
  BY <1>1, <1>4, <1>5

\* What a step of one packet leaves alone is another packet.
LEMMA SameLook ==
    ASSUME LInv, NEW d \in Cpu, UNCHANGED <<table, tbl, flow>>, cmd' = cmd \/ cmd'.op # "rehash",
           cpu'[d] = cpu[d], look'[d] = look[d], Safe(d)' = Safe(d)
    PROVE  LookOK(d)'
<1>1. LookOK(d) /\ map' = map
  BY SameTables DEF LInv, Looks
<1>2. (Looking(d)' <=> Looking(d)) /\ At(d)' = At(d) /\ Live' = Live
  BY DEF Looking, At, Live
<1>3. Looking(d) => Right(d)'
  BY <1>1 DEF LookOK, Right
<1>4. Looking(d) /\ Must(d)' => Sure(d)'
  <2> SUFFICES ASSUME Looking(d), Must(d)' PROVE Sure(d)'
    OBVIOUS
  <2>1. Sure(d)
    BY <1>1 DEF LookOK, Must
  <2> QED
    BY <1>2, <2>1 DEF Sure
<1> QED
  BY <1>1, <1>2, <1>3, <1>4 DEF LookOK

\* A packet that arrives may find the flows of the table, and is led to them.
LEMMA ReceiveLooks ==
    ASSUME LInv, NEW c \in Cpu, NEW k \in Key, receive(c, k)
    PROVE  Looks'
<1>0. /\ cpu[c] = Idle
      /\ cpu' = [cpu EXCEPT ![c] = [pc |-> "bucket", key |-> k, tbl |-> table, at |-> NULL]]
      /\ look' = [look EXCEPT ![c] = [key |-> k, may |-> {map[k]}, links |-> "good",
                                      answer |-> Pending]]
      /\ UNCHANGED <<table, tbl, flow, rcu, cmd>>
  BY DEF receive
<1>1. /\ Store /\ Typed /\ Filled /\ FlowsOwned /\ Readers /\ OneFlow /\ Whole(table)
      /\ look \in [Cpu -> LookObj] /\ map \in [Key -> Acts \cup {NULL}] /\ Looks
  <2>1. Store /\ Typed /\ Filled /\ FlowsOwned /\ Readers /\ OneFlow /\ Whole(table) /\ Looks
    BY DEF LInv, IInv, Store, Tables
  <2> QED
    BY <2>1, MapHolds DEF Looks
<1>2. /\ cpu[c].pc = "idle"
      /\ cpu'[c].pc = "bucket" /\ cpu'[c].key = k /\ cpu'[c].tbl = table
      /\ look'[c].key = k /\ look'[c].may = {map[k]} /\ look'[c].links = "good"
      /\ look'[c].answer = Pending
      /\ \A d \in Cpu \ {c} : cpu'[d] = cpu[d] /\ look'[d] = look[d]
  BY ONLY <1>0, <1>1, SMT DEF Readers, Idle
<1>3. map' = map /\ (\A d \in Cpu : Safe(d)' = Safe(d)) /\ Live' = Live
  BY <1>0, SameTables DEF Live
<1>4. look' \in [Cpu -> LookObj]
  <2>1. [key |-> k, may |-> {map[k]}, links |-> "good", answer |-> Pending] \in LookObj
    BY <1>1, Zenon DEF LookObj
  <2> QED
    BY <1>0, <1>1, <2>1
<1>5. \A d \in Cpu \ {c} : LookOK(d)'
  BY <1>0, <1>2, <1>3, SameLook
<1>6. Safe(c) = Live /\ Live \subseteq Flow
  <2>1. c \notin Reading
    BY <1>2 DEF Reading
  <2>2. Waits(c) = {}
    BY <1>1, <2>1 DEF Waits, Readers
  <2>3. Live \subseteq Flow
    BY <1>1 DEF Typed, TableObj, Live
  <2> QED
    BY <2>2, <2>3 DEF Safe
<1>7. Right(c)'
  <2>1. ASSUME NEW f \in Live, flow[f].key = k PROVE flow[f].sf_acts = map[k]
    <3>1. Unique(flow, Live)
      BY <1>1 DEF OneFlow, Unique
    <3>2. MapOf(flow, Live)[flow[f].key] = flow[f].sf_acts
      BY <2>1, <3>1, MapOfFlow
    <3> QED
      BY <2>1, <3>2, MapIs
  <2> QED
    BY <1>0, <1>2, <1>3, <1>6, <2>1 DEF Right
<1>8. ASSUME Must(c)' PROVE Sure(c)'
  <2>1. map[k] # NULL
    BY <1>2, <1>8 DEF Must
  <2>2. PICK f \in Live : flow[f].key = k
    BY <2>1, MapIs, MapOfNone
  <2>3. PICK A \in SUBSET Live : /\ Path(flow, tbl[table].node_ver, A, f)
                                 /\ tbl[table].head[tbl[table].bucket[k]] \in A
    BY <1>1, <2>2 DEF Whole, Reached, Live
  <2>4. At(c)' = tbl[table].head[tbl[table].bucket[k]]
    BY <1>0, <1>2 DEF At
  <2> QED
    BY <1>0, <1>2, <1>3, <1>6, <2>2, <2>3, <2>4, ZenonT(60) DEF Sure
<1>9. LookOK(c)'
  <2>1. k # NULL
    BY FlowTableAssumption
  <2> QED
    BY <1>2, <1>7, <1>8, <2>1 DEF LookOK, Looking
<1> QED
  BY <1>4, <1>5, <1>9 DEF Looks

\* The invariant of the lookups after a step of packet c.
LEMMA OneLook ==
    ASSUME LInv, NEW c \in Cpu, UNCHANGED <<table, tbl, flow, cmd>>,
           \A d \in Cpu \ {c} : cpu'[d] = cpu[d] /\ look'[d] = look[d] /\ Safe(d)' = Safe(d),
           look' \in [Cpu -> LookObj], LookOK(c)'
    PROVE  Looks'
<1>1. \A d \in Cpu \ {c} : LookOK(d)'
  BY SameLook
<1> QED
  BY <1>1 DEF Looks

\* What the invariant says of a packet in its read section.
LEMMA ReadingFacts ==
    ASSUME LInv, NEW c \in Cpu, cpu[c].pc # "idle"
    PROVE  /\ cpu \in [Cpu -> CpuObj] /\ look \in [Cpu -> LookObj] /\ ReaderOK(c) /\ LookOK(c)
           /\ cpu[c].key \in Key /\ cpu[c].key # NULL /\ look[c].key = cpu[c].key
           /\ cpu[c].pc \in {"bucket", "lookup", "found"} => Looking(c)
           /\ Safe(c) \subseteq Flow /\ NULL \notin Flow
<1>1. /\ cpu \in [Cpu -> CpuObj] /\ look \in [Cpu -> LookObj] /\ ReaderOK(c) /\ LookOK(c)
      /\ cpu[c].key \in Key
  <2>1. cpu \in [Cpu -> CpuObj] /\ look \in [Cpu -> LookObj] /\ LookOK(c) /\ Readers
    BY DEF LInv, IInv, Looks, Readers, CpuObj
  <2>2. ReaderOK(c)
    BY <2>1 DEF Readers, Reading
  <2> QED
    BY <2>1, <2>2 DEF ReaderOK
<1>2. cpu[c].key # NULL /\ look[c].key = cpu[c].key /\ NULL \notin Flow
  BY <1>1, FlowTableAssumption, Zenon DEF LookOK
<1>3. (cpu[c].pc \in {"bucket", "lookup", "found"} => Looking(c)) /\ Safe(c) \subseteq Flow
  BY <1>1 DEF LookOK, Safe
<1> QED
  BY <1>1, <1>2, <1>3

LEMMA FindLooks ==
    ASSUME LInv, NEW c \in Cpu, find_bucket(c)
    PROVE  Looks'
<1>0. /\ cpu[c].pc = "bucket" /\ UNCHANGED <<table, tbl, flow, rcu, cmd, look>>
      /\ cpu' = [cpu EXCEPT ![c].pc = "lookup", ![c].at = At(c)]
  BY DEF find_bucket, At
<1>1. /\ cpu \in [Cpu -> CpuObj] /\ look \in [Cpu -> LookObj] /\ LookOK(c) /\ Looking(c)
      /\ look[c].key = cpu[c].key
  BY <1>0, ReadingFacts
<1>2. /\ cpu'[c].pc = "lookup" /\ cpu'[c].at = At(c) /\ cpu'[c].key = cpu[c].key
      /\ cpu'[c].tbl = cpu[c].tbl
      /\ \A d \in Cpu \ {c} : cpu'[d] = cpu[d]
  BY <1>0, <1>1, Zenon DEF CpuObj
<1>3. map' = map /\ Live' = Live /\ (\A d \in Cpu : Safe(d)' = Safe(d)) /\ At(c)' = At(c)
  <2>1. map' = map /\ (\A d \in Cpu : Safe(d)' = Safe(d))
    BY <1>0, SameTables
  <2> QED
    BY <1>0, <1>2, <2>1 DEF Live, At
<1>4. Right(c)'
  BY <1>0, <1>1, <1>2, <1>3 DEF LookOK, Right
<1>5. ASSUME Must(c)' PROVE Sure(c)'
  <2>1. Sure(c)
    BY <1>0, <1>1, <1>5 DEF LookOK, Must
  <2> QED
    BY <1>0, <1>2, <1>3, <2>1 DEF Sure
<1>6. LookOK(c)'
  BY <1>0, <1>1, <1>2, <1>4, <1>5 DEF LookOK, Looking
<1> QED
  BY <1>0, <1>1, <1>2, <1>3, <1>6, OneLook

\* A step along the list leads to another flow of the path.
LEMMA NextLooks ==
    ASSUME LInv, NEW c \in Cpu, lookup_next(c)
    PROVE  Looks'
<1>a. PICK a, v : a = cpu[c].at /\ v = tbl[cpu[c].tbl].node_ver
  OBVIOUS
<1>0. /\ cpu[c].pc = "lookup" /\ UNCHANGED <<table, tbl, flow, rcu, cmd, look>>
      /\ cpu' = IF flow[a].key = cpu[c].key THEN [cpu EXCEPT ![c].pc = "found"]
                ELSE [cpu EXCEPT ![c].at = flow[a].next[v]]
  BY <1>a DEF lookup_next
<1>1. /\ cpu \in [Cpu -> CpuObj] /\ look \in [Cpu -> LookObj] /\ LookOK(c) /\ Looking(c)
      /\ look[c].key = cpu[c].key
  BY <1>0, ReadingFacts
<1>2. /\ cpu'[c].key = cpu[c].key /\ cpu'[c].tbl = cpu[c].tbl
      /\ flow[a].key = cpu[c].key => cpu'[c].pc = "found" /\ cpu'[c].at = a
      /\ flow[a].key # cpu[c].key => cpu'[c].pc = "lookup" /\ cpu'[c].at = flow[a].next[v]
      /\ \A d \in Cpu \ {c} : cpu'[d] = cpu[d]
  <2>0. cpu[c] \in CpuObj
    BY <1>1
  <2>1. CASE flow[a].key = cpu[c].key
    <3>1. PICK e : e = [cpu[c] EXCEPT !.pc = "found"]
      OBVIOUS
    <3>2. cpu'[c] = e /\ \A d \in Cpu \ {c} : cpu'[d] = cpu[d]
      BY <1>0, <1>1, <2>1, <3>1
    <3>3. e.key = cpu[c].key /\ e.tbl = cpu[c].tbl /\ e.pc = "found" /\ e.at = cpu[c].at
      BY ONLY <2>0, <3>1, Zenon DEF CpuObj
    <3> QED
      BY <1>a, <2>1, <3>2, <3>3
  <2>2. CASE flow[a].key # cpu[c].key
    <3>1. PICK n, e : n = flow[a].next[v] /\ e = [cpu[c] EXCEPT !.at = n]
      OBVIOUS
    <3>2. cpu'[c] = e /\ \A d \in Cpu \ {c} : cpu'[d] = cpu[d]
      BY <1>0, <1>1, <2>2, <3>1
    <3>3. e.key = cpu[c].key /\ e.tbl = cpu[c].tbl /\ e.pc = cpu[c].pc /\ e.at = n
      BY ONLY <2>0, <3>1, Zenon DEF CpuObj
    <3> QED
      BY <1>0, <2>2, <3>1, <3>2, <3>3
  <2> QED
    BY <2>1, <2>2
<1>3. map' = map /\ Live' = Live /\ (\A d \in Cpu : Safe(d)' = Safe(d))
  <2>1. map' = map /\ (\A d \in Cpu : Safe(d)' = Safe(d))
    BY <1>0, SameTables
  <2> QED
    BY <1>0, <2>1 DEF Live
<1>4. Right(c)'
  BY <1>0, <1>1, <1>2, <1>3 DEF LookOK, Right
<1>5. ASSUME Must(c)' PROVE Sure(c)'
  <2>1. Sure(c) /\ flow[a].key # cpu[c].key
    BY <1>0, <1>1, <1>2, <1>5 DEF LookOK, Must
  <2>2. PICK g \in Live, A \in SUBSET Safe(c) :
            flow[g].key = cpu[c].key /\ Path(flow, v, A, g) /\ a \in A
    BY <1>a, <1>0, <2>1 DEF Sure, At
  <2>3. flow[a].next[v] \in A
    BY <2>1, <2>2 DEF Path
  <2>4. At(c)' \in A
    BY <1>2, <2>1, <2>3 DEF At
  <2> QED
    BY <1>a, <1>0, <1>2, <1>3, <2>1, <2>2, <2>4, ZenonT(60) DEF Sure
<1>6. LookOK(c)'
  BY <1>0, <1>1, <1>2, <1>4, <1>5 DEF LookOK, Looking
<1> QED
  BY <1>0, <1>1, <1>2, <1>3, <1>6, OneLook

\* What an answer changes.
LEMMA Answered ==
    ASSUME look \in [Cpu -> LookObj], NEW c \in Cpu, NEW s \in Acts \cup {NULL},
           look' = [look EXCEPT ![c].answer = s]
    PROVE  /\ look'[c].key = look[c].key /\ look'[c].answer = s /\ look'[c] \in LookObj
           /\ \A d \in Cpu \ {c} : look'[d] = look[d]
<1>1. look[c] \in LookObj /\ look'[c] = [look[c] EXCEPT !.answer = s]
  OBVIOUS
<1>2. /\ [look[c] EXCEPT !.answer = s] \in LookObj
      /\ [look[c] EXCEPT !.answer = s].key = look[c].key
      /\ [look[c] EXCEPT !.answer = s].answer = s
  BY <1>1, SMT DEF LookObj
<1> QED
  BY <1>1, <1>2

\* A packet that reaches the end of a list may answer that there is no flow.
LEMMA MissLooks ==
    ASSUME LInv, NEW c \in Cpu, lookup_miss(c)
    PROVE  /\ Looks' /\ Looking(c)
           /\ NULL \in look[c].may \/ look[c].links = "reused"
<1>0. /\ cpu[c].pc = "lookup" /\ cpu[c].at = NULL
      /\ UNCHANGED <<table, tbl, flow, rcu, cmd>>
      /\ cpu' = [cpu EXCEPT ![c].pc = "miss"]
      /\ look' = [look EXCEPT ![c].answer = NULL]
  BY DEF lookup_miss
<1>1. /\ cpu \in [Cpu -> CpuObj] /\ look \in [Cpu -> LookObj] /\ LookOK(c) /\ Looking(c)
      /\ look[c].key = cpu[c].key /\ Safe(c) \subseteq Flow /\ NULL \notin Flow
  BY <1>0, ReadingFacts
<1>2. /\ cpu'[c].pc = "miss" /\ cpu'[c].key = cpu[c].key
      /\ look'[c].key = look[c].key /\ look'[c].answer = NULL /\ look'[c] \in LookObj
      /\ \A d \in Cpu \ {c} : cpu'[d] = cpu[d] /\ look'[d] = look[d]
  <2>1. cpu'[c].pc = "miss" /\ cpu'[c].key = cpu[c].key /\ \A d \in Cpu \ {c} : cpu'[d] = cpu[d]
    BY <1>0, <1>1, Zenon DEF CpuObj
  <2>2. /\ look'[c].key = look[c].key /\ look'[c].answer = NULL /\ look'[c] \in LookObj
        /\ \A d \in Cpu \ {c} : look'[d] = look[d]
    BY <1>0, <1>1, Answered
  <2> QED
    BY <2>1, <2>2
<1>3. look' \in [Cpu -> LookObj] /\ (\A d \in Cpu : Safe(d)' = Safe(d))
  <2>1. \A d \in Cpu : Safe(d)' = Safe(d)
    BY <1>0, SameTables
  <2>2. look' \in [Cpu -> LookObj]
    BY <1>0, <1>1, <1>2
  <2> QED
    BY <2>1, <2>2
<1>4. LookOK(c)'
  <2>1. NULL # Pending
    BY FlowTableAssumption
  <2> QED
    BY <1>1, <1>2, <2>1 DEF LookOK, Looking
<1>5. Looks'
  BY <1>0, <1>2, <1>3, <1>4, OneLook
<1>6. ASSUME NULL \notin look[c].may, look[c].links # "reused" PROVE FALSE
  <2>1. Sure(c)
    BY <1>0, <1>1, <1>6 DEF LookOK, Must
  <2>2. NULL \in Safe(c)
    BY <1>0, <2>1 DEF Sure, At
  <2> QED
    BY <1>1, <2>2
<1> QED
  BY <1>1, <1>5, <1>6

\* The actions a packet runs are ones its key had.
LEMMA ExecuteLooks ==
    ASSUME LInv, NEW c \in Cpu, execute_actions(c)
    PROVE  /\ Looks' /\ Looking(c)
           /\ flow[cpu[c].at].sf_acts \in look[c].may /\ flow[cpu[c].at].sf_acts \in Acts
<1>a. PICK s : s = flow[cpu[c].at].sf_acts
  OBVIOUS
<1>0. /\ cpu[c].pc = "found"
      /\ UNCHANGED <<table, tbl, flow, rcu, cmd>>
      /\ cpu' = [cpu EXCEPT ![c].pc = "run", ![c].at = s]
      /\ look' = [look EXCEPT ![c].answer = s]
  BY <1>a DEF execute_actions
<1>1. /\ cpu \in [Cpu -> CpuObj] /\ look \in [Cpu -> LookObj] /\ LookOK(c) /\ Looking(c)
      /\ look[c].key = cpu[c].key /\ ReaderOK(c) /\ Safe(c) \subseteq Flow
  BY <1>0, ReadingFacts
<1>2. s \in look[c].may /\ s \in Acts
  <2>1. cpu[c].at \in Safe(c)
    BY <1>0, <1>1 DEF ReaderOK, Good
  <2>2. s \in look[c].may
    BY <1>a, <1>0, <1>1, <2>1 DEF LookOK, Right
  <2>3. Safe(c) \subseteq mem /\ Filled
    BY SafeInMem DEF LInv, IInv, Store
  <2> QED
    BY <1>a, <1>1, <2>1, <2>2, <2>3 DEF Filled
<1>3. /\ cpu'[c].pc = "run" /\ cpu'[c].key = cpu[c].key
      /\ look'[c].key = look[c].key /\ look'[c].answer = s /\ look'[c] \in LookObj
      /\ \A d \in Cpu \ {c} : cpu'[d] = cpu[d] /\ look'[d] = look[d]
  <2>1. cpu'[c].pc = "run" /\ cpu'[c].key = cpu[c].key /\ \A d \in Cpu \ {c} : cpu'[d] = cpu[d]
    BY <1>0, <1>1, Zenon DEF CpuObj
  <2>2. /\ look'[c].key = look[c].key /\ look'[c].answer = s /\ look'[c] \in LookObj
        /\ \A d \in Cpu \ {c} : look'[d] = look[d]
    BY <1>0, <1>1, <1>2, Answered
  <2> QED
    BY <2>1, <2>2
<1>4. look' \in [Cpu -> LookObj] /\ (\A d \in Cpu : Safe(d)' = Safe(d))
  <2>1. \A d \in Cpu : Safe(d)' = Safe(d)
    BY <1>0, SameTables
  <2>2. look' \in [Cpu -> LookObj]
    BY <1>0, <1>1, <1>3
  <2> QED
    BY <2>1, <2>2
<1>5. LookOK(c)'
  <2>1. s # Pending
    BY <1>2, FlowTableAssumption
  <2> QED
    BY <1>1, <1>3, <2>1 DEF LookOK, Looking
<1>6. Looks'
  BY <1>0, <1>3, <1>4, <1>5, OneLook
<1> QED
  BY <1>a, <1>1, <1>2, <1>6

\* A packet that leaves its read section has answered.
LEMMA UnlockLooks ==
    ASSUME LInv, NEW c \in Cpu, rcu_read_unlock(c)
    PROVE  Looks' /\ look[c].answer # Pending
<1> DEFINE Left(cb) == [cb EXCEPT !.wait = @ \ {c}]
<1>0. /\ cpu[c].pc \in {"miss", "run"}
      /\ cpu' = [cpu EXCEPT ![c] = Idle] /\ look' = [look EXCEPT ![c] = NoLook]
      /\ rcu' = {Left(cb) : cb \in rcu}
      /\ UNCHANGED <<table, tbl, flow, cmd>>
  BY DEF rcu_read_unlock
<1>1. /\ cpu \in [Cpu -> CpuObj] /\ look \in [Cpu -> LookObj] /\ LookOK(c)
      /\ look[c].key = cpu[c].key /\ cpu[c].key # NULL /\ Typed
  <2>1. cpu[c].pc # "idle"
    BY <1>0
  <2> QED
    BY <2>1, ReadingFacts DEF LInv, IInv, Store
<1>2. \A cb \in rcu : Left(cb).kind = cb.kind /\ Left(cb).obj = cb.obj /\ Left(cb).wait = cb.wait \ {c}
  BY <1>1 DEF Typed, CallbackObj
<1> HIDE DEF Left
<1>3. /\ cpu'[c].pc = "idle" /\ look'[c] = NoLook /\ NoLook \in LookObj /\ NoLook.key = NULL
      /\ \A d \in Cpu \ {c} : cpu'[d] = cpu[d] /\ look'[d] = look[d]
  BY <1>0, <1>1, Zenon DEF Idle, NoLook, LookObj
<1>4. look' \in [Cpu -> LookObj]
  BY <1>0, <1>1, <1>3
<1>5. ASSUME NEW d \in Cpu \ {c} PROVE Safe(d)' = Safe(d)
  <2>1. Waits(d)' = {Left(cb) : cb \in Waits(d)}
    BY <1>0, <1>2, ZenonT(60) DEF Waits
  <2>2. \A cb \in Waits(d), f \in Flow : FreesFlow(Left(cb), f)' <=> FreesFlow(cb, f)
    BY <1>0, <1>2 DEF FreesFlow, Waits
  <2> QED
    BY <1>0, <2>1, <2>2, ZenonT(30) DEF Safe, Live
<1>6. LookOK(c)'
  BY <1>3 DEF LookOK, Looking
<1>7. Looks'
  BY <1>0, <1>3, <1>4, <1>5, <1>6, OneLook
<1>8. look[c].answer # Pending
  BY <1>0, <1>1, Zenon DEF LookOK, Looking
<1> QED
  BY <1>7, <1>8
-----------------------------------------------------------------------------
\* The refinement.

\* What every step does: it keeps the invariant, and is a step of FlowMap or
\* changes nothing FlowMap knows of.
Implements == Tables' /\ Looks' /\ (Promise!Next \/ UNCHANGED <<map, look>>)

LEMMA RebuildImplements ==
    ASSUME LInv,
           \/ \E t \in Table, where \in [Key -> Bucket], k \in Key \cup {NULL} :
                flow_tbl_rehash(t, where, k)
           \/ \E f \in Flow : flow_table_copy_flow(f)
           \/ flow_tbl_publish
    PROVE  Implements
<1>0. Store /\ Tables
  BY DEF LInv, IInv
<1>1. ASSUME NEW t \in Table, NEW where \in [Key -> Bucket], NEW k \in Key \cup {NULL},
             flow_tbl_rehash(t, where, k)
      PROVE  Implements
  <2>1. Tables' /\ map' = map
    BY <1>0, <1>1, RehashTables
  <2>2. Looks'
    BY <1>1, RehashLooks
  <2>3. Promise!Rebuild
    BY <1>1, <2>1 DEF flow_tbl_rehash, Promise!Rebuild, Promise!Looking, Looking
  <2> QED
    BY <2>1, <2>2, <2>3 DEF Implements, Promise!Next
<1>2. ASSUME NEW f \in Flow, flow_table_copy_flow(f) PROVE Implements
  <2>1. Tables' /\ map' = map
    BY <1>0, <1>2, CopyTables
  <2>2. Looks'
    BY <1>2, CopyLooks
  <2>3. look' = look
    BY <1>2 DEF flow_table_copy_flow
  <2> QED
    BY <2>1, <2>2, <2>3 DEF Implements
<1>3. CASE flow_tbl_publish
  <2>1. Tables' /\ map' = map
    BY <1>0, <1>3, PublishTables
  <2>2. Looks'
    BY <1>3, PublishLooks
  <2>3. Promise!Rebuilt
    BY <1>3, <2>1 DEF flow_tbl_publish, Promise!Rebuilt, Promise!Looking, Looking
  <2> QED
    BY <2>1, <2>2, <2>3 DEF Implements, Promise!Next
<1> QED
  BY <1>1, <1>2, <1>3

\* Watch is what FlowMap does to the lookups under way.
LEMMA WatchIsChange ==
    ASSUME Watch, NEW m, map' = m
    PROVE  Promise!Change(m)
BY DEF Watch, Promise!Change, Promise!Looking, Looking

LEMMA ChangeImplements ==
    ASSUME LInv,
           \/ \E t \in Table, where \in [Key -> Bucket] : flush_flows(t, where)
           \/ \E k \in Key, f \in Flow, s \in Acts : ovs_flow_cmd_new(k, f, s)
           \/ ovs_flow_cmd_new_fails
           \/ \E f \in Flow, s \in Acts : ovs_flow_cmd_set(f, s)
           \/ \E f \in Flow : ovs_flow_cmd_del(f)
    PROVE  Implements
<1>0. Store /\ Tables
  BY DEF LInv, IInv
<1>1. ASSUME NEW t \in Table, NEW where \in [Key -> Bucket], flush_flows(t, where)
      PROVE  Implements
  <2>1. Tables' /\ map' = [k \in Key |-> NULL] /\ Watch
    BY <1>0, <1>1, FlushTables DEF flush_flows
  <2>2. Looks'
    BY <1>1, FlushLooks
  <2>3. Promise!Flush
    BY <2>1, WatchIsChange DEF Promise!Flush
  <2> QED
    BY <2>1, <2>2, <2>3 DEF Implements, Promise!Next
<1>2. ASSUME NEW k \in Key, NEW f \in Flow, NEW s \in Acts, ovs_flow_cmd_new(k, f, s)
      PROVE  Implements
  <2>1. Tables' /\ map[k] = NULL /\ map' = [map EXCEPT ![k] = s] /\ Watch
    <3>1. Tables' /\ map[k] = NULL /\ map' = [map EXCEPT ![k] = s]
      BY <1>0, <1>2, NewTables
    <3> QED
      BY <1>2, <3>1 DEF ovs_flow_cmd_new
  <2>2. Looks'
    BY <1>2, NewLooks
  <2>3. Promise!New(k, s)
    BY <2>1, WatchIsChange DEF Promise!New
  <2> QED
    BY <2>1, <2>2, <2>3 DEF Implements, Promise!Next
<1>3. CASE ovs_flow_cmd_new_fails
  <2>1. UNCHANGED <<table, tbl, flow, rcu, cpu, look>> /\ cmd'.op # "rehash"
    BY <1>3 DEF ovs_flow_cmd_new_fails, NoCommand
  <2>2. Tables' /\ map' = map /\ \A c \in Cpu : Safe(c)' = Safe(c)
    BY <1>0, <2>1, SameTables
  <2>3. \A c \in Cpu : LookOK(c)'
    BY <2>1, <2>2, SameLook
  <2>4. Looks'
    BY <2>1, <2>3 DEF Looks, LInv
  <2> QED
    BY <2>1, <2>2, <2>4 DEF Implements
<1>4. ASSUME NEW f \in Flow, NEW s \in Acts, ovs_flow_cmd_set(f, s) PROVE Implements
  <2>a. PICK k : k = flow[f].key
    OBVIOUS
  <2>1. Tables' /\ k \in Key /\ map[k] # NULL /\ map' = [map EXCEPT ![k] = s] /\ Watch
    <3>1. /\ Tables' /\ flow[f].key \in Key /\ map[flow[f].key] # NULL
          /\ map' = [map EXCEPT ![flow[f].key] = s]
      BY <1>0, <1>4, SetTables, Zenon
    <3> QED
      BY <2>a, <1>4, <3>1 DEF ovs_flow_cmd_set
  <2>2. Looks'
    BY <1>4, SetLooks
  <2>3. Promise!Set(k, s)
    BY <2>1, WatchIsChange DEF Promise!Set
  <2> QED
    BY <2>1, <2>2, <2>3 DEF Implements, Promise!Next
<1>5. ASSUME NEW f \in Flow, ovs_flow_cmd_del(f) PROVE Implements
  <2>a. PICK k : k = flow[f].key
    OBVIOUS
  <2>1. Tables' /\ k \in Key /\ map[k] # NULL /\ map' = [map EXCEPT ![k] = NULL] /\ Watch
    <3>1. /\ Tables' /\ flow[f].key \in Key /\ map[flow[f].key] # NULL
          /\ map' = [map EXCEPT ![flow[f].key] = NULL]
      BY <1>0, <1>5, DelTables, Zenon
    <3> QED
      BY <2>a, <1>5, <3>1 DEF ovs_flow_cmd_del
  <2>2. Looks'
    BY <1>5, DelLooks
  <2>3. Promise!Del(k)
    BY <2>1, WatchIsChange DEF Promise!Del
  <2> QED
    BY <2>1, <2>2, <2>3 DEF Implements, Promise!Next
<1> QED
  BY <1>1, <1>2, <1>3, <1>4, <1>5

LEMMA PacketImplements ==
    ASSUME LInv, NEW c \in Cpu, Packet(c)
    PROVE  Implements
<1>1. Tables' /\ map' = map
  <2>1. UNCHANGED <<table, tbl, flow, cmd>> /\ Tables
    BY DEF Packet, receive, find_bucket, lookup_next, lookup_miss, execute_actions,
           rcu_read_unlock, LInv
  <2> QED
    BY <2>1, SameTables
<1>2. ASSUME NEW k \in Key, receive(c, k) PROVE Implements
  <2>1. Looks'
    BY <1>2, ReceiveLooks
  <2>2. look[c] = NoLook
    <3>1. cpu[c].pc = "idle"
      BY ONLY <1>2, SMT DEF receive, Idle
    <3> QED
      BY <3>1 DEF LInv, Looks, LookOK
  <2>3. Promise!Begin(c, k)
    BY <1>1, <1>2, <2>2 DEF receive, NoLook, Promise!Begin, Promise!Idle
  <2> QED
    BY <1>1, <2>1, <2>3 DEF Implements, Promise!Next
<1>3. CASE find_bucket(c)
  <2>1. Looks' /\ look' = look
    BY <1>3, FindLooks DEF find_bucket
  <2> QED
    BY <1>1, <2>1 DEF Implements
<1>4. CASE lookup_next(c)
  <2>1. Looks' /\ look' = look
    BY <1>4, NextLooks DEF lookup_next
  <2> QED
    BY <1>1, <2>1 DEF Implements
<1>5. CASE lookup_miss(c)
  <2>1. Looks' /\ Looking(c) /\ (NULL \in look[c].may \/ look[c].links = "reused")
    BY <1>5, MissLooks
  <2>2. Promise!Answer(c, NULL)
    BY <1>1, <1>5, <2>1 DEF lookup_miss, Promise!Answer, Promise!Looking, Looking
  <2>3. Promise!Next
    BY <2>2 DEF Promise!Next
  <2> QED
    BY <1>1, <2>1, <2>3 DEF Implements
<1>6. CASE execute_actions(c)
  <2>a. PICK s : s = flow[cpu[c].at].sf_acts
    OBVIOUS
  <2>1. Looks' /\ Looking(c) /\ s \in look[c].may /\ s \in Acts
    BY <2>a, <1>6, ExecuteLooks
  <2>2. Promise!Answer(c, s)
    BY <2>a, <1>1, <1>6, <2>1 DEF execute_actions, Promise!Answer, Promise!Looking, Looking
  <2>3. Promise!Next
    BY <2>1, <2>2 DEF Promise!Next
  <2> QED
    BY <1>1, <2>1, <2>3 DEF Implements
<1>7. CASE rcu_read_unlock(c)
  <2>1. Looks' /\ look[c].answer # Pending
    BY <1>7, UnlockLooks
  <2>2. Promise!End(c)
    BY <1>1, <1>7, <2>1 DEF rcu_read_unlock, NoLook, Promise!End, Promise!Idle
  <2> QED
    BY <1>1, <2>1, <2>2 DEF Implements, Promise!Next
<1> QED
  BY <1>2, <1>3, <1>4, <1>5, <1>6, <1>7 DEF Packet

\* Every step implements one of FlowMap, or none.
LEMMA StepImplements ==
    ASSUME LInv, [Next]_vars
    PROVE  Implements
<1>1. CASE Command
  <2>1. CASE \/ \E t \in Table, where \in [Key -> Bucket], k \in Key \cup {NULL} :
                    flow_tbl_rehash(t, where, k)
             \/ \E f \in Flow : flow_table_copy_flow(f)
             \/ flow_tbl_publish
    BY <2>1, RebuildImplements
  <2>2. CASE \/ \E t \in Table, where \in [Key -> Bucket] : flush_flows(t, where)
             \/ \E k \in Key, f \in Flow, s \in Acts : ovs_flow_cmd_new(k, f, s)
             \/ ovs_flow_cmd_new_fails
             \/ \E f \in Flow, s \in Acts : ovs_flow_cmd_set(f, s)
             \/ \E f \in Flow : ovs_flow_cmd_del(f)
    BY <2>2, ChangeImplements
  <2> QED
    BY <1>1, <2>1, <2>2 DEF Command
<1>2. ASSUME NEW c \in Cpu, Packet(c) PROVE Implements
  BY <1>2, PacketImplements
<1>3. ASSUME NEW cb \in rcu, rcu_callback(cb) PROVE Implements
  <2>0. Store /\ Tables
    BY DEF LInv, IInv
  <2>1. Tables' /\ map' = map
    BY <1>3, <2>0, CallbackTables
  <2>2. Looks' /\ look' = look
    BY <1>3, CallbackLooks DEF rcu_callback
  <2> QED
    BY <2>1, <2>2 DEF Implements
<1>4. CASE UNCHANGED vars
  <2>1. UNCHANGED <<table, tbl, flow, rcu, cmd, cpu, look>> /\ Tables /\ look \in [Cpu -> LookObj]
    BY <1>4 DEF vars, LInv, Looks
  <2>2. Tables' /\ map' = map /\ \A c \in Cpu : Safe(c)' = Safe(c)
    BY <2>1, SameTables
  <2>3. \A c \in Cpu : LookOK(c)'
    BY <2>1, <2>2, SameLook
  <2> QED
    BY <2>1, <2>2, <2>3 DEF Implements, Looks
<1> QED
  BY <1>1, <1>2, <1>3, <1>4 DEF Next

LEMMA LInvInit == Init => LInv /\ Promise!Init
<1> SUFFICES ASSUME Init PROVE LInv /\ Promise!Init
  OBVIOUS
<1>0. IInv /\ Store
  BY InitHolds DEF IInv
<1>1. Live = {} /\ cmd.op = "none"
  <2>1. PICK where \in [Key -> Bucket] : tbl[table] = NewTable(0, where)
    BY <1>0 DEF Init, Store, Typed
  <2> QED
    BY <2>1, SMT DEF Init, Live, NewTable, NoCommand
<1>2. Tables
  BY <1>1 DEF Tables, OneFlow, Whole, Back, Reached, Live
<1>3. map = [k \in Key |-> NULL]
  <2>1. ASSUME NEW k \in Key PROVE MapOf(flow, Live)[k] = NULL
    BY <1>1, MapOfNone
  <2>2. MapOf(flow, Live) = [k \in Key |-> MapOf(flow, Live)[k]]
    BY MapOfEntries
  <2> QED
    BY <2>1, <2>2, MapIs
<1>4. Looks
  <2>1. look = [c \in Cpu |-> NoLook] /\ NoLook \in LookObj /\ NoLook.key = NULL
    BY Zenon DEF Init, NoLook, LookObj
  <2>2. \A c \in Cpu : cpu[c].pc = "idle" /\ look[c] = NoLook
    BY <2>1 DEF Init, Idle
  <2>3. \A c \in Cpu : LookOK(c)
    BY <2>1, <2>2 DEF LookOK, Looking
  <2> QED
    BY <2>1, <2>3 DEF Looks
<1>5. Promise!Init
  BY <1>3 DEF Init, NoLook, Promise!Init, Promise!Idle
<1> QED
  BY <1>0, <1>2, <1>4, <1>5 DEF LInv

\* The invariant of the refinement holds in every reachable state.
LEMMA LInvInductive == Spec => []LInv
<1>1. LInv /\ IInv' /\ [Next]_vars => LInv'
  BY StepImplements DEF Implements, LInv
<1>2. Init => LInv
  BY LInvInit
<1> QED
  BY <1>1, <1>2, IInvInductive, PTL DEF Spec

\* The flow table of the kernel implements FlowMap, for any number of processors,
\* keys, buckets, flows, actions and tables: a packet is handled by actions that
\* its key had at some moment of its lookup, and misses a flow that was there
\* throughout only if one rebuild ended and another began meanwhile.
THEOREM TableImplementsMap == Spec => Refines
<1>1. LInv /\ [Next]_vars => [Promise!Next]_(Promise!vars)
  BY StepImplements DEF Implements, Promise!vars
<1>2. Init => Promise!Init
  BY LInvInit
<1> QED
  BY <1>1, <1>2, LInvInductive, PTL DEF Spec, Refines, Promise!Spec

\* The fields of tables, flows, callbacks, the command and the processors hold what
\* their C types say.
THEOREM TableTyped == Spec => []TypeOK
<1>1. IInv => TypeOK
  <2> SUFFICES ASSUME IInv PROVE TypeOK
    OBVIOUS
  <2>1. Typed /\ Readers
    BY DEF IInv, Store
  <2>2. \A t \in Table : tbl[t] \in TableObj
    BY <2>1 DEF Typed
  <2>3. \A f \in Flow : flow[f] \in FlowObj
    BY <2>1 DEF Typed
  <2>4. ASSUME NEW cb \in rcu
        PROVE  /\ cb.wait \subseteq Cpu
               /\ <<cb.kind, cb.obj>> \in ({"table"} \X Table) \cup ({"flow"} \X Flow)
                                          \cup ({"acts"} \X Acts)
    BY <2>1, Zenon DEF Typed, CallbackObj
  <2>5. \A c \in Cpu : cpu[c].pc \in {"idle", "bucket", "lookup", "found", "miss", "run"}
    BY <2>1 DEF Readers
  <2>6. /\ mem \subseteq Table \cup Flow \cup Acts /\ table \in Table
        /\ cmd.op \in {"none", "rehash", "insert"}
    BY <2>1 DEF Typed
  <2> QED
    BY <2>2, <2>3, <2>4, <2>5, <2>6 DEF TypeOK, TableObj, FlowObj
<1> QED
  BY <1>1, IInvInductive, PTL
=============================================================================
