----------------------------- MODULE GFibProofs -----------------------------
(***************************************************************************)
(* The safety of the G-FIB for any number of switches, hosts and hash      *)
(* functions, any table size, and any number of restarts and datagrams:    *)
(* what the operations of a group distribution table return and preserve,  *)
(* the inductive invariant, what the operations on tables do to its parts, *)
(* and that every step of a switch preserves it.                           *)
(***************************************************************************)
EXTENDS GFib, TLAPS, WellFoundedInduction, SequenceTheorems

\* In a table without duplicates bf_gdt_find_filter returns the one slot of an
\* id the table has, and 0 for any other id.
LEMMA FindFilter ==
    ASSUME NEW g \in bf_gdt, UniqueIds(g), NEW id
    PROVE  /\ id \in GdtIds(g) => /\ bf_gdt_find_filter(g, id) \in DOMAIN g
                                  /\ g[bf_gdt_find_filter(g, id)].bf_id = id
           /\ id \notin GdtIds(g) => bf_gdt_find_filter(g, id) = 0
<1>1. CASE id \in GdtIds(g)
  <2>1. PICK k \in DOMAIN g : g[k].bf_id = id
    BY <1>1, Zenon DEF GdtIds
  <2>2. \A j \in 1 .. k - 1 : g[j].bf_id # id
    BY <2>1, LenProperties DEF UniqueIds, bf_gdt
  <2> QED
    BY <1>1, <2>1, <2>2 DEF bf_gdt_find_filter
<1>2. CASE id \notin GdtIds(g)
  BY <1>2 DEF bf_gdt_find_filter
<1> QED
  BY <1>1, <1>2

\* bf_gdt_check returns 0 when no filter claims the key, else a filter that
\* does.
LEMMA GdtCheck ==
    ASSUME NEW g \in bf_gdt, NEW m, bf_gdt_check(g, m) # 0
    PROVE  /\ bf_gdt_check(g, m) \in DOMAIN g
           /\ bf_check(g[bf_gdt_check(g, m)], m)
<1> DEFINE H == {i \in Nat : i \in DOMAIN g /\ bf_check(g[i], m)}
<1>1. DOMAIN g = 1 .. Len(g) /\ Len(g) \in Nat
  BY LenProperties DEF bf_gdt
<1>2. H \in SUBSET Nat /\ H # {}
  BY <1>1 DEF bf_gdt_check
<1> HIDE DEF H
<1>3. PICK i \in H : \A j \in H : i <= j
  <2>1. IsWellFoundedOn(OpToRel(<, Nat), Nat)
    BY NatLessThanWellFounded, Zenon
  <2> DEFINE R == OpToRel(<, Nat)
  <2>2. \A i, j \in Nat : j < i => <<j, i>> \in R
    BY DEF OpToRel
  <2> HIDE DEF R
  <2>3. PICK i \in H : \A j \in H : ~(<<j, i>> \in R)
    BY <1>2, <2>1, WFMin, Zenon DEF R
  <2>4. ASSUME NEW j \in H PROVE i <= j
    <3>1. i \in Nat /\ j \in Nat /\ ~(j < i)
      BY <1>2, <2>2, <2>3, Zenon
    <3> QED
      BY <3>1
  <2> QED
    BY <2>4
<1>4. i \in DOMAIN g /\ bf_check(g[i], m) /\ \A j \in 1 .. i - 1 : ~bf_check(g[j], m)
  BY ONLY <1>1, <1>3 DEF H
<1> QED
  BY <1>4 DEF bf_gdt_check

\* The slots of an updated table: those it had keep their ids and ports and
\* only the updated filter's bits change; at most one is new, the filter's own.
UpdatedSlots(g, h, bf) ==
    /\ h \in bf_gdt
    /\ Len(h) >= Len(g)
    /\ \A i \in 1 .. Len(g) :
        /\ h[i].bf_id = g[i].bf_id
        /\ h[i].port_no = g[i].port_no
        /\ h[i].array = IF g[i].bf_id = bf.bf_id THEN bf.array ELSE g[i].array
    /\ \A i \in 1 .. Len(h) : i > Len(g) => h[i] = bf /\ bf.bf_id \notin GdtIds(g)

\* bf_gdt_update_filter keeps a table free of duplicates and within capacity
\* and changes no filter but the one with the updated id.
LEMMA UpdateFilter ==
    ASSUME NEW g \in bf_gdt, UniqueIds(g), WithinCapacity(g),
           NEW bf \in bloom_filter
    PROVE  /\ UpdatedSlots(g, bf_gdt_update_filter(g, bf), bf)
           /\ UniqueIds(bf_gdt_update_filter(g, bf))
           /\ WithinCapacity(bf_gdt_update_filter(g, bf))
<1> DEFINE k == bf_gdt_find_filter(g, bf.bf_id)
           h == bf_gdt_update_filter(g, bf)
<1>0. /\ DOMAIN g = 1 .. Len(g) /\ Len(g) \in Nat
      /\ \A i \in 1 .. Len(g) : g[i] \in bloom_filter
  BY LenProperties, Zenon DEF bf_gdt
<1>1. CASE bf.bf_id \in GdtIds(g)
  <2>1. k \in 1 .. Len(g) /\ g[k].bf_id = bf.bf_id
    BY <1>0, <1>1, FindFilter, Zenon
  <2> DEFINE e == [g[k] EXCEPT !.array = bf.array]
  <2>2. h = [g EXCEPT ![k] = e]
    BY ONLY <2>1 DEF bf_gdt_update_filter
  <2>3. e \in bloom_filter
    BY <1>0, <2>1 DEF bloom_filter
  <2>3a. e.bf_id = g[k].bf_id /\ e.port_no = g[k].port_no /\ e.array = bf.array
    BY <1>0, <2>1 DEF bloom_filter
  <2> HIDE DEF e, h, k
  <2>4. /\ h \in bf_gdt /\ Len(h) = Len(g)
        /\ \A j \in 1 .. Len(g) : h[j] = IF j = k THEN e ELSE g[j]
    BY <2>1, <2>2, <2>3, ExceptSeq DEF bf_gdt
  <2>5. \A j \in 1 .. Len(g) : j # k => g[j].bf_id # bf.bf_id
    BY <1>0, <2>1, Zenon DEF UniqueIds
  <2>6. UpdatedSlots(g, h, bf)
    BY ONLY <1>0, <2>1, <2>3a, <2>4, <2>5 DEF UpdatedSlots
  <2>7. DOMAIN h = 1 .. Len(g)
    BY <2>4, LenProperties, Zenon DEF bf_gdt
  <2>8. \A j \in 1 .. Len(g) : h[j].bf_id = g[j].bf_id
    BY <2>1, <2>3a, <2>4, Zenon
  <2>9. UniqueIds(h)
    BY <1>0, <2>7, <2>8, Zenon DEF UniqueIds
  <2>10. WithinCapacity(h)
    BY <2>4, Zenon DEF WithinCapacity
  <2> QED
    BY <2>6, <2>9, <2>10 DEF h
<1>2. CASE bf.bf_id \notin GdtIds(g) /\ GdtFull(g)
  <2>1. h = g
    BY <1>2, FindFilter, Zenon DEF bf_gdt_update_filter, bf_gdt_insert_filter
  <2>2. \A i \in 1 .. Len(g) : g[i].bf_id # bf.bf_id
    BY ONLY <1>0, <1>2 DEF GdtIds
  <2> QED
    BY <1>0, <2>1, <2>2 DEF UpdatedSlots
<1>3. CASE bf.bf_id \notin GdtIds(g) /\ ~GdtFull(g)
  <2>1. h = Append(g, bf)
    BY <1>3, FindFilter, Zenon DEF bf_gdt_update_filter, bf_gdt_insert_filter
  <2>2. \A i \in 1 .. Len(g) : g[i].bf_id # bf.bf_id
    BY <1>0, <1>3, Zenon DEF GdtIds
  <2> HIDE DEF h
  <2>3. /\ h \in bf_gdt /\ Len(h) = Len(g) + 1
        /\ \A i \in 1 .. Len(g) : h[i] = g[i]
        /\ h[Len(g) + 1] = bf
    BY <2>1, AppendProperties DEF bf_gdt
  <2>4. UpdatedSlots(g, h, bf)
    BY <1>0, <1>3, <2>2, <2>3 DEF UpdatedSlots
  <2>5. DOMAIN h = 1 .. Len(g) + 1
    BY <2>3, LenProperties, Zenon DEF bf_gdt
  <2>6. UniqueIds(h)
    BY <1>0, <2>2, <2>3, <2>5 DEF UniqueIds
  <2>7. WithinCapacity(h)
    BY ONLY <1>0, <1>3, <2>3, BfGdtAssumption DEF WithinCapacity, GdtFull
  <2> QED
    BY <2>4, <2>6, <2>7, Zenon DEF h
<1> QED
  BY <1>1, <1>2, <1>3
-----------------------------------------------------------------------------

\* What the inductive invariant says of tables g and d of switch s, as
\* predicates on values.

\* The first slot is the filter of the switch itself.
Own(g, s) == Len(g) >= 1 /\ g[1].bf_id = s

\* A kernel table, if there is one, begins with the switch's own filter, which
\* stays empty; every other filter leads to the remote port.
Kernel(g, s) ==
    g # <<>> => /\ g[1].bf_id = s
                /\ g[1].array = {}
                /\ \A i \in 2 .. Len(g) : g[i].port_no = LC_BF_REMOTE_PORT

\* No bit without a host of the filter's switch.
SoundFilter(bf) == bf.array \subseteq HostBits(bf.bf_id)
Sound(g) == \A i \in 1 .. Len(g) : SoundFilter(g[i])

\* The first slot has the bits bf_add has set before bit l[2] of address l[1].
Begun(g, s, l) ==
    /\ l[1] \in Hosts[s]
    /\ \A k \in 1 .. l[2] - 1 : Hash[l[1]][k] \in g[1].array

\* The first slot has every bit of the addresses in macs.
Has(g, macs) == \A m \in macs : \A k \in 1 .. NFuncs : Hash[m][k] \in g[1].array

\* If g has a filter of bf's switch, it has bf's bits.
Agree(g, bf) ==
    \A i \in 1 .. Len(g) : g[i].bf_id = bf.bf_id => g[i].array = bf.array

\* Except for the ids in X, table d has a filter with the same bits for every
\* filter of g.
Follows(g, d, X) ==
    \A i \in 1 .. Len(g) : g[i].bf_id \notin X =>
        \E j \in 1 .. Len(d) : d[j].bf_id = g[i].bf_id /\ d[j].array = g[i].array
-----------------------------------------------------------------------------
\* The inductive invariant, switch by switch.

\* What phase a bridge is in decides which of its parts exist.
PhaseInv(s) ==
    /\ phase[s] = "down" => /\ gdt[s] = <<>> /\ learned[s] = {}
                            /\ send[s] = "idle" /\ recv[s] = "idle"
    /\ phase[s] # "down" => Own(gdt[s], s)
    /\ phase[s] = "run" => dp[s] # <<>>
    /\ (recv[s] = "push") = (held[s].bf_id # s)

\* Both tables are free of duplicates and within capacity.
TableInv(s) ==
    /\ UniqueIds(gdt[s]) /\ WithinCapacity(gdt[s])
    /\ UniqueIds(dp[s]) /\ WithinCapacity(dp[s])

DpInv(s) == Kernel(dp[s], s)

\* No filter, stored or held, has a bit its switch's hosts do not account for.
SoundInv(s) == Sound(gdt[s]) /\ Sound(dp[s]) /\ SoundFilter(held[s])

\* The local filter has every bit bf_add has set so far.
LearnInv(s) ==
    /\ learning[s] # <<>> => phase[s] = "run" /\ Begun(gdt[s], s, learning[s])
    /\ Has(gdt[s], learned[s])

\* A filter mc_recv is about to push is what br->gdt has for its id, if br->gdt
\* had room for it.
PendingInv(s) == recv[s] = "push" => Agree(gdt[s], held[s])

\* Every other remote filter whose last push arrived is in the kernel with the
\* same bits.
FollowInv(s) == Follows(gdt[s], dp[s], {s, held[s].bf_id} \cup missed[s])

SwitchInv(s) ==
    /\ PhaseInv(s)
    /\ TableInv(s)
    /\ DpInv(s)
    /\ SoundInv(s)
    /\ LearnInv(s)
    /\ PendingInv(s)
    /\ FollowInv(s)

\* No datagram in the network has such a bit either.
NetInv == \A msg \in net : SoundFilter(msg)

IInv ==
    /\ TypeOK
    /\ NetInv
    /\ \A s \in Switch : SwitchInv(s)
-----------------------------------------------------------------------------
\* The predicates and the operations on tables.

\* Of an empty table everything is true.
LEMMA EmptyTable ==
    /\ <<>> \in bf_gdt /\ UniqueIds(<<>>) /\ WithinCapacity(<<>>) /\ Sound(<<>>)
    /\ \A s : Kernel(<<>>, s)
    /\ \A d, X : Follows(<<>>, d, X)
    /\ \A bf : Agree(<<>>, bf)
<1>1. <<>> \in bf_gdt /\ Len(<<>>) = 0 /\ DOMAIN <<>> = {}
  BY ONLY EmptySeq DEF bf_gdt
<1>2. \A s : Kernel(<<>>, s)
  BY DEF Kernel
<1>3. UniqueIds(<<>>) /\ WithinCapacity(<<>>)
  BY <1>1, BfGdtAssumption DEF UniqueIds, WithinCapacity
<1>4. Sound(<<>>) /\ (\A d, X : Follows(<<>>, d, X)) /\ (\A bf : Agree(<<>>, bf))
  BY <1>1 DEF Sound, Follows, Agree
<1> QED
  BY <1>1, <1>2, <1>3, <1>4, Zenon

\* The table a bridge or a datapath starts with.
LEMMA FirstTable ==
    ASSUME NEW s \in Switch
    PROVE  LET g == bf_gdt_add_filter(<<>>, s, LC_BF_LOCAL_PORT)
           IN  /\ g \in bf_gdt /\ g # <<>> /\ UniqueIds(g) /\ WithinCapacity(g)
               /\ Own(g, s) /\ Kernel(g, s) /\ Sound(g)
               /\ \A d, X : s \in X => Follows(g, d, X)
<1> DEFINE e == bf_create(s, LC_BF_LOCAL_PORT)
           g == bf_gdt_add_filter(<<>>, s, LC_BF_LOCAL_PORT)
<1>1. e \in bloom_filter /\ e.bf_id = s /\ e.array = {}
  BY Zenon DEF bf_create, bloom_filter, Switch, Port
<1>2. ~GdtFull(<<>>)
  BY BfGdtAssumption DEF GdtFull
<1>3. g = <<e>>
  BY <1>2 DEF bf_gdt_add_filter
<1> HIDE DEF e, g
<1>4. <<e>> \in Seq(bloom_filter) /\ Len(<<e>>) = 1 /\ DOMAIN <<e>> = 1 .. 1
  BY <1>1
<1>5. <<e>>[1] = e
  OBVIOUS
<1>6. g \in Seq(bloom_filter) /\ Len(g) = 1 /\ DOMAIN g = 1 .. 1 /\ g[1] = e
  BY <1>3, <1>4, <1>5, Zenon
<1>7. g # <<>>
  BY ONLY <1>6, EmptySeq
<1>8. UniqueIds(g) /\ WithinCapacity(g)
  BY <1>6, BfGdtAssumption DEF UniqueIds, WithinCapacity
<1>9. Own(g, s) /\ Kernel(g, s)
  BY ONLY <1>1, <1>6 DEF Own, Kernel
<1>10. Sound(g)
  BY ONLY <1>1, <1>6 DEF Sound, SoundFilter
<1>11. \A d, X : s \in X => Follows(g, d, X)
  BY ONLY <1>1, <1>6 DEF Follows
<1> QED
  BY <1>6, <1>7, <1>8, <1>9, <1>10, <1>11, Zenon DEF bf_gdt, g

\* An update with a sound filter leaves a table sound.
LEMMA UpdateSound ==
    ASSUME NEW g \in bf_gdt, NEW h, NEW bf, UpdatedSlots(g, h, bf),
           Sound(g), SoundFilter(bf)
    PROVE  Sound(h)
<1> SUFFICES ASSUME NEW i \in 1 .. Len(h) PROVE SoundFilter(h[i])
  BY Zenon DEF Sound
<1>0. Len(g) \in Nat /\ Len(h) \in Nat
  BY LenProperties DEF bf_gdt, UpdatedSlots
<1>1. CASE i \in 1 .. Len(g)
  <2>1. SoundFilter(g[i])
    BY <1>1, Zenon DEF Sound
  <2>2. /\ h[i].bf_id = g[i].bf_id
        /\ h[i].array = IF g[i].bf_id = bf.bf_id THEN bf.array ELSE g[i].array
    BY <1>1 DEF UpdatedSlots
  <2> QED
    BY <2>1, <2>2, Zenon DEF SoundFilter
<1>2. CASE i > Len(g)
  BY <1>2, Zenon DEF UpdatedSlots
<1> QED
  BY <1>0, <1>1, <1>2

\* An update with the filter of another switch leaves the first slot alone.
LEMMA UpdateOwn ==
    ASSUME NEW g \in bf_gdt, NEW h, NEW bf, UpdatedSlots(g, h, bf),
           NEW s, Own(g, s), bf.bf_id # s
    PROVE  Own(h, s) /\ h[1].array = g[1].array
<1>1. Len(g) \in Nat /\ Len(h) \in Nat /\ Len(h) >= Len(g)
  BY LenProperties, Zenon DEF bf_gdt, UpdatedSlots
<1>2. 1 \in 1 .. Len(g) /\ g[1].bf_id = s
  BY <1>1 DEF Own
<1>3. h[1].bf_id = s /\ h[1].array = g[1].array
  BY <1>2, Zenon DEF UpdatedSlots
<1> QED
  BY ONLY <1>1, <1>2, <1>3 DEF Own

\* The kernel's table stays one when it stores a remote filter.
LEMMA UpdateKernel ==
    ASSUME NEW g \in bf_gdt, NEW h, NEW bf, UpdatedSlots(g, h, bf),
           NEW s, Kernel(g, s), g # <<>>, bf.bf_id # s, bf.port_no = LC_BF_REMOTE_PORT
    PROVE  Kernel(h, s) /\ h # <<>>
<1>1. /\ Len(g) \in Nat /\ Len(g) >= 1 /\ Len(h) \in Nat /\ Len(h) >= Len(g)
      /\ h # <<>>
  BY LenProperties, EmptySeq DEF bf_gdt, UpdatedSlots
<1>2. Own(g, s) /\ g[1].array = {}
  BY <1>1, Zenon DEF Kernel, Own
<1>3. h[1].bf_id = s /\ h[1].array = {}
  BY <1>2, UpdateOwn DEF Own
<1>4. ASSUME NEW i \in 2 .. Len(h) PROVE h[i].port_no = LC_BF_REMOTE_PORT
  <2>1. CASE i \in 2 .. Len(g)
    <3>1. g[i].port_no = LC_BF_REMOTE_PORT /\ i \in 1 .. Len(g)
      BY <1>1, <2>1 DEF Kernel
    <3> QED
      BY <3>1, Zenon DEF UpdatedSlots
  <2>2. CASE i > Len(g)
    <3>1. i \in 1 .. Len(h)
      BY ONLY <1>1, <1>4
    <3> QED
      BY <2>2, <3>1, Zenon DEF UpdatedSlots
  <2> QED
    BY ONLY <1>1, <1>4, <2>1, <2>2
<1> QED
  BY <1>1, <1>3, <1>4, Zenon DEF Kernel

\* An updated table agrees with the filter it was updated with.
LEMMA UpdateAgrees ==
    ASSUME NEW g \in bf_gdt, NEW h, NEW bf, UpdatedSlots(g, h, bf)
    PROVE  Agree(h, bf)
<1> SUFFICES ASSUME NEW i \in 1 .. Len(h), h[i].bf_id = bf.bf_id
             PROVE  h[i].array = bf.array
  BY Zenon DEF Agree
<1>0. Len(g) \in Nat /\ Len(h) \in Nat
  BY LenProperties, Zenon DEF bf_gdt, UpdatedSlots
<1>1. CASE i \in 1 .. Len(g)
  BY <1>1, Zenon DEF UpdatedSlots
<1>2. CASE i > Len(g)
  BY <1>2, Zenon DEF UpdatedSlots
<1> QED
  BY ONLY <1>0, <1>1, <1>2

\* After an update of br->gdt the kernel still follows it, except for the
\* updated filter, and for that one too if the update changed nothing.
LEMMA UpdateFollowed ==
    ASSUME NEW g \in bf_gdt, NEW h, NEW bf, UpdatedSlots(g, h, bf),
           NEW d, NEW X, NEW Y, Follows(g, d, X), X \subseteq Y,
           bf.bf_id \in Y \/ (bf.bf_id \in GdtIds(g) /\ Agree(g, bf))
    PROVE  Follows(h, d, Y)
<1> SUFFICES ASSUME NEW i \in 1 .. Len(h), h[i].bf_id \notin Y
             PROVE  \E j \in 1 .. Len(d) :
                        d[j].bf_id = h[i].bf_id /\ d[j].array = h[i].array
  BY Zenon DEF Follows
<1>0. Len(g) \in Nat /\ Len(h) \in Nat
  BY LenProperties, Zenon DEF bf_gdt, UpdatedSlots
<1>1. i \in 1 .. Len(g)
  <2>1. i > Len(g) => h[i] = bf /\ bf.bf_id \notin GdtIds(g)
    BY Zenon DEF UpdatedSlots
  <2> QED
    BY <1>0, <2>1
<1>2. /\ h[i].bf_id = g[i].bf_id
      /\ h[i].array = IF g[i].bf_id = bf.bf_id THEN bf.array ELSE g[i].array
  BY <1>1, Zenon DEF UpdatedSlots
<1>3. h[i].array = g[i].array
  BY <1>1, <1>2, Zenon DEF Agree
<1>4. g[i].bf_id \notin X
  BY <1>2, Zenon
<1> QED
  BY <1>1, <1>2, <1>3, <1>4, Zenon DEF Follows

\* After a push the kernel follows br->gdt, the pushed filter included if the
\* kernel had room for it.
LEMMA UpdateFollows ==
    ASSUME NEW g \in bf_gdt, NEW d \in bf_gdt, NEW h, NEW bf, UpdatedSlots(d, h, bf),
           NEW X, NEW Y, Follows(g, d, X), Agree(g, bf), X \subseteq Y \cup {bf.bf_id},
           bf.bf_id \in Y \/ bf.bf_id \in GdtIds(h)
    PROVE  Follows(g, h, Y)
<1> SUFFICES ASSUME NEW i \in 1 .. Len(g), g[i].bf_id \notin Y
             PROVE  \E j \in 1 .. Len(h) :
                        h[j].bf_id = g[i].bf_id /\ h[j].array = g[i].array
  BY Zenon DEF Follows
<1>0. /\ Len(d) \in Nat /\ Len(h) \in Nat /\ Len(h) >= Len(d)
      /\ DOMAIN h = 1 .. Len(h)
  BY LenProperties, Zenon DEF bf_gdt, UpdatedSlots
<1>1. CASE g[i].bf_id = bf.bf_id
  <2>1. PICK j \in 1 .. Len(h) : h[j].bf_id = bf.bf_id
    BY <1>0, <1>1, Zenon DEF GdtIds
  <2>2. h[j].array = bf.array
    BY <2>1, UpdateAgrees DEF Agree
  <2>3. g[i].array = bf.array
    BY <1>1, Zenon DEF Agree
  <2> QED
    BY <1>1, <2>1, <2>2, <2>3, Zenon
<1>2. CASE g[i].bf_id # bf.bf_id
  <2>1. PICK j \in 1 .. Len(d) : d[j].bf_id = g[i].bf_id /\ d[j].array = g[i].array
    BY <1>2, Zenon DEF Follows
  <2>2. h[j].bf_id = d[j].bf_id /\ h[j].array = d[j].array
    BY <1>2, <2>1, Zenon DEF UpdatedSlots
  <2>3. j \in 1 .. Len(h)
    BY ONLY <1>0, <2>1
  <2> QED
    BY <2>1, <2>2, <2>3, Zenon
<1> QED
  BY <1>1, <1>2, Zenon

\* Setting a bit of the first slot.
LEMMA SetBit ==
    ASSUME NEW g \in bf_gdt, NEW s, Own(g, s), NEW x \in Bit
    PROVE  LET h == [g EXCEPT ![1] = [g[1] EXCEPT !.array = @ \cup {x}]]
           IN  /\ h \in bf_gdt /\ Len(h) = Len(g) /\ DOMAIN h = DOMAIN g
               /\ \A i \in DOMAIN g : h[i].bf_id = g[i].bf_id
               /\ \A i \in DOMAIN g : i # 1 => h[i] = g[i]
               /\ h[1].array = g[1].array \cup {x}
<1> DEFINE e == [g[1] EXCEPT !.array = @ \cup {x}]
           h == [g EXCEPT ![1] = e]
<1>1. /\ Len(g) \in Nat /\ DOMAIN g = 1 .. Len(g) /\ 1 \in 1 .. Len(g)
      /\ g[1] \in bloom_filter
  BY LenProperties, ElementOfSeq DEF bf_gdt, Own
<1>2. /\ e \in bloom_filter /\ e.bf_id = g[1].bf_id
      /\ e.array = g[1].array \cup {x}
  BY <1>1, Zenon DEF bloom_filter
<1> HIDE DEF e
<1>3. /\ h \in bf_gdt /\ Len(h) = Len(g)
      /\ \A i \in 1 .. Len(g) : h[i] = IF i = 1 THEN e ELSE g[i]
  BY ONLY <1>1, <1>2, ExceptSeq DEF bf_gdt
<1> HIDE DEF h
<1>4. DOMAIN h = 1 .. Len(h)
  BY <1>3, LenProperties, Zenon DEF bf_gdt
<1>5. /\ h \in bf_gdt /\ Len(h) = Len(g) /\ DOMAIN h = DOMAIN g
      /\ \A i \in DOMAIN g : h[i].bf_id = g[i].bf_id
      /\ \A i \in DOMAIN g : i # 1 => h[i] = g[i]
      /\ h[1].array = g[1].array \cup {x}
  BY <1>1, <1>2, <1>3, <1>4, Zenon
<1> QED
  BY <1>5, Zenon DEF h, e
-----------------------------------------------------------------------------
\* A step that leaves a switch alone preserves its invariant.
LEMMA Frame ==
    ASSUME NEW t \in Switch, SwitchInv(t),
           phase'[t] = phase[t], gdt'[t] = gdt[t], dp'[t] = dp[t],
           send'[t] = send[t], recv'[t] = recv[t], held'[t] = held[t],
           learning'[t] = learning[t], learned'[t] = learned[t],
           missed'[t] = missed[t]
    PROVE  SwitchInv(t)'
<1>1. PhaseInv(t)' /\ TableInv(t)' /\ DpInv(t)'
  BY Zenon DEF SwitchInv, PhaseInv, TableInv, DpInv
<1>2. SoundInv(t)' /\ LearnInv(t)' /\ PendingInv(t)' /\ FollowInv(t)'
  BY Zenon DEF SwitchInv, SoundInv, LearnInv, PendingInv, FollowInv
<1> QED
  BY <1>1, <1>2, Zenon DEF SwitchInv

\* The tables of a switch are sequences of filters.
LEMMA Tables ==
    ASSUME TypeOK, NEW s \in Switch
    PROVE  /\ gdt[s] \in bf_gdt /\ dp[s] \in bf_gdt
           /\ Len(gdt[s]) \in Nat /\ DOMAIN gdt[s] = 1 .. Len(gdt[s])
           /\ Len(dp[s]) \in Nat /\ DOMAIN dp[s] = 1 .. Len(dp[s])
           /\ \A i \in 1 .. Len(gdt[s]) : gdt[s][i] \in bloom_filter
<1>1. gdt[s] \in Seq(bloom_filter) /\ dp[s] \in Seq(bloom_filter)
  BY Zenon DEF TypeOK, bf_gdt
<1>2. /\ Len(gdt[s]) \in Nat /\ DOMAIN gdt[s] = 1 .. Len(gdt[s])
      /\ Len(dp[s]) \in Nat /\ DOMAIN dp[s] = 1 .. Len(dp[s])
      /\ \A i \in 1 .. Len(gdt[s]) : gdt[s][i] \in bloom_filter
  BY <1>1, LenProperties, ElementOfSeq, Zenon
<1> QED
  BY <1>1, <1>2, Zenon DEF bf_gdt

\* In a bridge that exists the local filter is in the first slot, where
\* mc_send and bf_add find it.
LEMMA LocalFirst ==
    ASSUME IInv, NEW s \in Switch, phase[s] # "down"
    PROVE  /\ LocalSlot(s) = 1 /\ Own(gdt[s], s) /\ s \in GdtIds(gdt[s])
           /\ 1 \in 1 .. Len(gdt[s]) /\ gdt[s][1].bf_id = s
<1>1. TypeOK /\ Own(gdt[s], s) /\ UniqueIds(gdt[s])
  BY Zenon DEF IInv, SwitchInv, PhaseInv, TableInv
<1>2. 1 \in DOMAIN gdt[s] /\ gdt[s][1].bf_id = s /\ DOMAIN gdt[s] = 1 .. Len(gdt[s])
  BY ONLY <1>1, Tables DEF Own
<1>3. s \in GdtIds(gdt[s])
  BY <1>2, Zenon DEF GdtIds
<1>4. LocalSlot(s) \in DOMAIN gdt[s] /\ gdt[s][LocalSlot(s)].bf_id = s
  BY <1>1, <1>3, Tables, FindFilter, Zenon DEF LocalSlot
<1>5. LocalSlot(s) = 1
  BY <1>1, <1>2, <1>4, Zenon DEF UniqueIds
<1> QED
  BY <1>1, <1>2, <1>3, <1>5, Zenon

\* The message mc_recv holds when there is none to push.
LEMMA NothingHeld ==
    ASSUME NEW s \in Switch
    PROVE  /\ NoMessage(s) \in Message /\ NoMessage(s).bf_id = s
           /\ SoundFilter(NoMessage(s))
BY Zenon DEF NoMessage, Message, bf_create, Switch, SoundFilter
-----------------------------------------------------------------------------
\* No bridge exists yet and every table is empty.
LEMMA InitIInv == Init => IInv
<1> SUFFICES ASSUME Init PROVE IInv
  BY Zenon
<1>1. TypeOK
  BY EmptyTable, NothingHeld, GFibAssumption DEF Init, TypeOK
<1>2. NetInv
  BY Zenon DEF Init, NetInv
<1>3. ASSUME NEW s \in Switch PROVE SwitchInv(s)
  <2>1. /\ phase[s] = "down" /\ gdt[s] = <<>> /\ dp[s] = <<>> /\ send[s] = "idle"
        /\ recv[s] = "idle" /\ held[s] = NoMessage(s) /\ learning[s] = <<>>
        /\ learned[s] = {}
    BY Zenon DEF Init
  <2>2. PhaseInv(s) /\ LearnInv(s)
    BY <2>1, NothingHeld, Zenon DEF PhaseInv, LearnInv, Has
  <2>3. TableInv(s) /\ DpInv(s) /\ SoundInv(s) /\ PendingInv(s) /\ FollowInv(s)
    BY <2>1, EmptyTable, NothingHeld, Zenon
    DEF TableInv, DpInv, SoundInv, PendingInv, FollowInv
  <2> QED
    BY <2>2, <2>3 DEF SwitchInv
<1> QED
  BY <1>1, <1>2, <1>3 DEF IInv
-----------------------------------------------------------------------------
\* A bridge comes, goes and learns its hosts.

\* bridge_create starts with a table whose only filter is the local one.
LEMMA BridgeCreateStep ==
    ASSUME IInv, NEW s \in Switch, bridge_create(s)
    PROVE  IInv'
<1> DEFINE g == bf_gdt_add_filter(<<>>, s, LC_BF_LOCAL_PORT)
<1>0. TypeOK /\ NetInv /\ \A t \in Switch : SwitchInv(t)
  BY Zenon DEF IInv
<1>1. /\ phase' = [phase EXCEPT ![s] = "lc"] /\ gdt' = [gdt EXCEPT ![s] = g]
      /\ UNCHANGED <<dp, send, copied, recv, held, learning, net, learned, missed, stops>>
      /\ phase[s] = "down"
  BY DEF bridge_create
<1>2. /\ g \in bf_gdt /\ UniqueIds(g) /\ WithinCapacity(g) /\ Own(g, s) /\ Sound(g)
      /\ \A d, X : s \in X => Follows(g, d, X)
  BY FirstTable, Zenon
<1> HIDE DEF g
<1>3. /\ phase'[s] = "lc" /\ gdt'[s] = g
      /\ \A t \in Switch \ {s} : phase'[t] = phase[t] /\ gdt'[t] = gdt[t]
  BY <1>0, <1>1, Zenon DEF TypeOK
<1>4. TypeOK'
  BY <1>0, <1>1, <1>2, Zenon DEF TypeOK
<1>5. NetInv'
  BY <1>0, <1>1, Zenon DEF NetInv
<1>6. ASSUME NEW t \in Switch \ {s} PROVE SwitchInv(t)'
  BY <1>0, <1>1, <1>3, Frame, Zenon
<1>7. SwitchInv(s)'
  <2>0. SwitchInv(s) /\ learned[s] = {} /\ learning[s] = <<>> /\ recv[s] = "idle"
    BY <1>0, <1>1, Zenon DEF SwitchInv, PhaseInv, LearnInv
  <2>1. PhaseInv(s)' /\ LearnInv(s)' /\ PendingInv(s)'
    BY <1>1, <1>2, <1>3, <2>0, Zenon DEF SwitchInv, PhaseInv, LearnInv, PendingInv, Has
  <2>2. TableInv(s)' /\ DpInv(s)' /\ SoundInv(s)'
    BY <1>1, <1>2, <1>3, <2>0, Zenon DEF SwitchInv, TableInv, DpInv, SoundInv
  <2>3. FollowInv(s)'
    BY <1>2, <1>3, Zenon DEF FollowInv
  <2> QED
    BY <2>1, <2>2, <2>3, Zenon DEF SwitchInv
<1> QED
  BY <1>4, <1>5, <1>6, <1>7, Zenon DEF IInv

\* A datapath table that ovs_dp_cmd_new creates or finds.
LEMMA DpCmdNew ==
    ASSUME IInv, NEW s \in Switch, NEW d, d = ovs_dp_cmd_new(s)
    PROVE  /\ d \in bf_gdt /\ d # <<>> /\ UniqueIds(d) /\ WithinCapacity(d)
           /\ Kernel(d, s) /\ Sound(d)
           /\ Follows(gdt[s], d, {s, held[s].bf_id} \cup missed[s])
<1>1. /\ TypeOK /\ UniqueIds(dp[s]) /\ WithinCapacity(dp[s])
      /\ Kernel(dp[s], s) /\ Sound(dp[s])
      /\ Follows(gdt[s], dp[s], {s, held[s].bf_id} \cup missed[s])
  BY Zenon DEF IInv, SwitchInv, TableInv, DpInv, SoundInv, FollowInv
<1>2. CASE dp[s] = <<>>
  <2>1. d = bf_gdt_add_filter(<<>>, s, LC_BF_LOCAL_PORT)
    BY <1>2, Zenon DEF ovs_dp_cmd_new
  <2>2. \A i \in 1 .. Len(gdt[s]) : gdt[s][i].bf_id \in {s, held[s].bf_id} \cup missed[s]
    <3>1. Len(dp[s]) = 0
      BY ONLY <1>2
    <3> QED
      BY ONLY <1>1, <3>1 DEF Follows
  <2>3. Follows(gdt[s], d, {s, held[s].bf_id} \cup missed[s])
    BY <2>2, Zenon DEF Follows
  <2> QED
    BY <2>1, <2>3, FirstTable, Zenon
<1>3. CASE dp[s] # <<>>
  <2>1. d = dp[s]
    BY <1>3, Zenon DEF ovs_dp_cmd_new
  <2> QED
    BY <1>1, <1>3, <2>1, Tables, Zenon
<1> QED
  BY <1>2, <1>3, Zenon

\* ofproto_create_lc keeps br->gdt and an existing kernel table.
LEMMA OfprotoCreateStep ==
    ASSUME IInv, NEW s \in Switch, ofproto_create(s)
    PROVE  IInv'
<1> DEFINE d == ovs_dp_cmd_new(s)
<1>0. TypeOK /\ NetInv /\ \A t \in Switch : SwitchInv(t)
  BY Zenon DEF IInv
<1>1. /\ phase' = [phase EXCEPT ![s] = "run"] /\ dp' = [dp EXCEPT ![s] = d]
      /\ UNCHANGED <<gdt, send, copied, recv, held, learning, net, learned, missed, stops>>
      /\ phase[s] = "lc"
  BY Zenon DEF ofproto_create
<1>2. /\ d \in bf_gdt /\ d # <<>> /\ UniqueIds(d) /\ WithinCapacity(d)
      /\ Kernel(d, s) /\ Sound(d)
      /\ Follows(gdt[s], d, {s, held[s].bf_id} \cup missed[s])
  BY DpCmdNew, Zenon
<1> HIDE DEF d
<1>3. /\ phase'[s] = "run" /\ dp'[s] = d
      /\ \A t \in Switch \ {s} : phase'[t] = phase[t] /\ dp'[t] = dp[t]
  BY <1>0, <1>1, Zenon DEF TypeOK
<1>4. TypeOK'
  BY <1>0, <1>1, <1>2, Zenon DEF TypeOK
<1>5. NetInv'
  BY <1>0, <1>1, Zenon DEF NetInv
<1>6. ASSUME NEW t \in Switch \ {s} PROVE SwitchInv(t)'
  BY <1>0, <1>1, <1>3, Frame, Zenon
<1>7. SwitchInv(s)'
  <2>0. SwitchInv(s)
    BY <1>0, Zenon
  <2>1. PhaseInv(s)' /\ LearnInv(s)' /\ PendingInv(s)'
    BY <1>1, <1>2, <1>3, <2>0, Zenon DEF SwitchInv, PhaseInv, LearnInv, PendingInv
  <2>2. DpInv(s)' /\ SoundInv(s)' /\ TableInv(s)' /\ FollowInv(s)'
    BY <1>1, <1>2, <1>3, <2>0, Zenon DEF SwitchInv, DpInv, SoundInv, TableInv, FollowInv
  <2> QED
    BY <2>1, <2>2, Zenon DEF SwitchInv
<1> QED
  BY <1>4, <1>5, <1>6, <1>7, Zenon DEF IInv

\* A bridge that goes away, by a crash, by bridge_destroy or because
\* ofproto_create_lc failed, leaves a consistent kernel table behind.
LEMMA BridgeGoneStep ==
    ASSUME IInv, NEW s \in Switch, BridgeGone(s), UNCHANGED net,
           dp' \in {dp, [dp EXCEPT ![s] = ovs_dp_cmd_new(s)]}
    PROVE  IInv'
<1>0. TypeOK /\ NetInv /\ \A t \in Switch : SwitchInv(t)
  BY Zenon DEF IInv
<1>1. /\ phase'[s] = "down" /\ gdt'[s] = <<>> /\ send'[s] = "idle"
      /\ recv'[s] = "idle" /\ held'[s] = NoMessage(s) /\ learning'[s] = <<>>
      /\ learned'[s] = {}
  BY <1>0, Zenon DEF BridgeGone, TypeOK
<1>2. ASSUME NEW t \in Switch \ {s}
      PROVE  /\ phase'[t] = phase[t] /\ gdt'[t] = gdt[t] /\ send'[t] = send[t]
             /\ recv'[t] = recv[t] /\ held'[t] = held[t] /\ learning'[t] = learning[t]
             /\ learned'[t] = learned[t] /\ dp'[t] = dp[t] /\ missed'[t] = missed[t]
  BY <1>0, ZenonT(30) DEF BridgeGone, TypeOK
<1>3. /\ dp' \in [Switch -> bf_gdt]
      /\ UniqueIds(dp'[s]) /\ WithinCapacity(dp'[s]) /\ Kernel(dp'[s], s) /\ Sound(dp'[s])
  <2>1. CASE dp' = dp
    BY <1>0, <2>1, Zenon DEF TypeOK, SwitchInv, TableInv, DpInv, SoundInv
  <2>2. CASE dp' = [dp EXCEPT ![s] = ovs_dp_cmd_new(s)]
    <3>1. dp'[s] = ovs_dp_cmd_new(s)
      BY <1>0, <2>2, Zenon DEF TypeOK
    <3>2. ovs_dp_cmd_new(s) \in bf_gdt
      BY DpCmdNew, Zenon
    <3>3. dp' \in [Switch -> bf_gdt]
      BY <1>0, <2>2, <3>2, Zenon DEF TypeOK
    <3> QED
      BY <3>1, <3>3, DpCmdNew, Zenon
  <2> QED
    BY <2>1, <2>2, Zenon
<1>4. TypeOK'
  <2>1. gdt' \in [Switch -> bf_gdt] /\ held' \in [Switch -> Message]
    BY <1>0, EmptyTable, NothingHeld, Zenon DEF BridgeGone, TypeOK
  <2>2. stops' \in 0 .. MaxStops
    BY <1>0, GFibAssumption DEF BridgeGone, TypeOK
  <2> QED
    BY <1>0, <1>3, <2>1, <2>2, Zenon DEF BridgeGone, TypeOK
<1>5. NetInv'
  BY <1>0, Zenon DEF NetInv
<1>6. ASSUME NEW t \in Switch \ {s} PROVE SwitchInv(t)'
  BY <1>0, <1>2, Frame, Zenon
<1>7. SwitchInv(s)'
  <2>1. PhaseInv(s)' /\ LearnInv(s)' /\ PendingInv(s)'
    BY <1>1, NothingHeld, Zenon DEF PhaseInv, LearnInv, PendingInv, Has
  <2>2. TableInv(s)' /\ DpInv(s)' /\ SoundInv(s)' /\ FollowInv(s)'
    <3>1. TableInv(s)' /\ DpInv(s)'
      BY <1>1, <1>3, EmptyTable, Zenon DEF TableInv, DpInv
    <3>2. SoundInv(s)'
      BY <1>1, <1>3, EmptyTable, NothingHeld, Zenon DEF SoundInv
    <3>3. FollowInv(s)'
      BY <1>1, EmptyTable, ZenonT(30) DEF FollowInv
    <3> QED
      BY <3>1, <3>2, <3>3, Zenon
  <2> QED
    BY <2>1, <2>2, Zenon DEF SwitchInv
<1> QED
  BY <1>4, <1>5, <1>6, <1>7, Zenon DEF IInv

\* ovs_dp_cmd_del drops the kernel table of a bridge that is down.
LEMMA DpCmdDelStep ==
    ASSUME IInv, NEW s \in Switch, ovs_dp_cmd_del(s)
    PROVE  IInv'
<1>0. TypeOK /\ NetInv /\ \A t \in Switch : SwitchInv(t)
  BY Zenon DEF IInv
<1>1. /\ dp' = [dp EXCEPT ![s] = <<>>] /\ phase[s] = "down"
      /\ UNCHANGED <<phase, gdt, send, copied, recv, held, learning, net,
                      learned, missed, stops>>
  BY Zenon DEF ovs_dp_cmd_del
<1>2. dp'[s] = <<>> /\ \A t \in Switch \ {s} : dp'[t] = dp[t]
  BY <1>0, <1>1, Zenon DEF TypeOK
<1>3. TypeOK'
  BY <1>0, <1>1, EmptyTable, Zenon DEF TypeOK
<1>4. NetInv'
  BY <1>0, <1>1, Zenon DEF NetInv
<1>5. ASSUME NEW t \in Switch \ {s} PROVE SwitchInv(t)'
  BY <1>0, <1>1, <1>2, Frame, Zenon
<1>6. SwitchInv(s)'
  <2>0. SwitchInv(s) /\ gdt[s] = <<>>
    BY <1>0, <1>1, Zenon DEF SwitchInv, PhaseInv
  <2>1. PhaseInv(s)' /\ LearnInv(s)' /\ PendingInv(s)'
    BY <1>1, <1>2, <2>0, Zenon DEF SwitchInv, PhaseInv, LearnInv, PendingInv
  <2>2. TableInv(s)' /\ DpInv(s)' /\ SoundInv(s)' /\ FollowInv(s)'
    BY <1>1, <1>2, <2>0, EmptyTable, Zenon DEF SwitchInv, TableInv, DpInv, SoundInv, FollowInv
  <2> QED
    BY <2>1, <2>2, Zenon DEF SwitchInv
<1> QED
  BY <1>3, <1>4, <1>5, <1>6, Zenon DEF IInv

\* handle_miss_upcall finds the local filter and starts bf_add.
LEMMA MissUpcallStep ==
    ASSUME IInv, NEW s \in Switch, NEW m \in Mac, NEW d \in Mac,
           handle_miss_upcall(s, m, d)
    PROVE  IInv'
<1>0. TypeOK /\ NetInv /\ \A t \in Switch : SwitchInv(t)
  BY Zenon DEF IInv
<1>1. LocalSlot(s) = 1 /\ s \in GdtIds(gdt[s]) /\ phase[s] = "run" /\ m \in Hosts[s]
  BY LocalFirst, Zenon DEF handle_miss_upcall
<1>2. /\ gdt' = gdt /\ learning' = [learning EXCEPT ![s] = <<m, 1>>]
      /\ UNCHANGED <<phase, dp, send, copied, recv, held, net, learned, missed, stops>>
  BY <1>0, <1>1 DEF handle_miss_upcall, TypeOK, FirstBit
<1>3. learning'[s] = <<m, 1>> /\ \A t \in Switch \ {s} : learning'[t] = learning[t]
  BY <1>0, <1>2, Zenon DEF TypeOK
<1>4. TypeOK'
  <2>1. <<m, 1>> \in Mac \X (1 .. NFuncs)
    BY ONLY BfGdtAssumption
  <2>2. learning' \in [Switch -> (Mac \X (1 .. NFuncs)) \cup {<<>>}]
    BY <1>0, <1>2, <2>1, Zenon DEF TypeOK
  <2> QED
    BY <1>0, <1>2, <2>2, Zenon DEF TypeOK
<1>5. NetInv'
  BY <1>0, <1>2, Zenon DEF NetInv
<1>6. ASSUME NEW t \in Switch \ {s} PROVE SwitchInv(t)'
  BY <1>0, <1>2, <1>3, Frame, Zenon
<1>7. SwitchInv(s)'
  <2>0. SwitchInv(s)
    BY <1>0, Zenon
  <2>1. PhaseInv(s)' /\ TableInv(s)' /\ DpInv(s)'
    BY <1>2, <2>0, Zenon DEF SwitchInv, PhaseInv, TableInv, DpInv
  <2>2. SoundInv(s)' /\ PendingInv(s)' /\ FollowInv(s)'
    BY <1>2, <2>0, Zenon DEF SwitchInv, SoundInv, PendingInv, FollowInv
  <2>3. Begun(gdt[s], s, <<m, 1>>)
    <3>1. <<m, 1>>[1] = m /\ <<m, 1>>[2] = 1
      BY ONLY TRUE
    <3>2. \A j \in 1 .. 1 - 1 : FALSE
      BY ONLY TRUE
    <3> QED
      BY <1>1, <3>1, <3>2, Zenon DEF Begun
  <2>4. LearnInv(s)'
    BY <1>1, <1>2, <1>3, <2>0, <2>3, Zenon DEF SwitchInv, LearnInv
  <2> QED
    BY <2>1, <2>2, <2>4, Zenon DEF SwitchInv
<1> QED
  BY <1>4, <1>5, <1>6, <1>7, Zenon DEF IInv

\* What bf_add does with the bit it has come to.
LEMMA AddBit ==
    ASSUME IInv, NEW s \in Switch, bf_add_bit(s)
    PROVE  \E m \in Hosts[s], k \in 1 .. NFuncs, h \in bf_gdt :
            /\ m \in Mac /\ learning[s] = <<m, k>> /\ phase[s] = "run"
            /\ Hash[m][k] \in Bit /\ Hash[m][k] \in HostBits(s)
            /\ gdt' = [gdt EXCEPT ![s] = h]
            /\ Len(h) = Len(gdt[s]) /\ DOMAIN h = DOMAIN gdt[s]
            /\ \A i \in DOMAIN gdt[s] : h[i].bf_id = gdt[s][i].bf_id
            /\ \A i \in DOMAIN gdt[s] : i # 1 => h[i] = gdt[s][i]
            /\ h[1].array = gdt[s][1].array \cup {Hash[m][k]}
<1> DEFINE m == learning[s][1]
           k == learning[s][2]
           h == [gdt[s] EXCEPT ![1] = [gdt[s][1] EXCEPT !.array = @ \cup {Hash[m][k]}]]
<1>1. TypeOK /\ learning[s] # <<>> /\ phase[s] = "run" /\ Begun(gdt[s], s, learning[s])
  BY Zenon DEF IInv, bf_add_bit, SwitchInv, LearnInv
<1>2. learning[s] \in Mac \X (1 .. NFuncs)
  BY <1>1, Zenon DEF TypeOK
<1>3. m \in Mac /\ k \in 1 .. NFuncs /\ learning[s] = <<m, k>>
  BY ONLY <1>2
<1>4. m \in Hosts[s]
  BY <1>1, Zenon DEF Begun
<1>5. Hash[m][k] \in Bit /\ Hash[m][k] \in HostBits(s)
  BY ONLY <1>3, <1>4, BfGdtAssumption DEF HostBits, HashBits
<1>6. LocalSlot(s) = 1 /\ Own(gdt[s], s) /\ gdt[s] \in bf_gdt
  BY <1>1, LocalFirst, Tables, Zenon
<1>7. gdt' = [gdt EXCEPT ![s] = h]
  BY <1>6, Zenon DEF bf_add_bit
<1>8. /\ h \in bf_gdt /\ Len(h) = Len(gdt[s]) /\ DOMAIN h = DOMAIN gdt[s]
      /\ \A i \in DOMAIN gdt[s] : h[i].bf_id = gdt[s][i].bf_id
      /\ \A i \in DOMAIN gdt[s] : i # 1 => h[i] = gdt[s][i]
      /\ h[1].array = gdt[s][1].array \cup {Hash[m][k]}
  BY <1>5, <1>6, SetBit, Zenon
<1> HIDE DEF m, k, h
<1> QED
  BY <1>1, <1>3, <1>4, <1>5, <1>7, <1>8, Zenon

\* Each bit bf_add sets belongs to a host of the switch.
LEMMA AddBitStep ==
    ASSUME IInv, NEW s \in Switch, bf_add_bit(s)
    PROVE  IInv'
<1>0. TypeOK /\ NetInv /\ \A t \in Switch : SwitchInv(t)
  BY Zenon DEF IInv
<1>1. PICK m \in Hosts[s], k \in 1 .. NFuncs, h \in bf_gdt :
            /\ m \in Mac /\ learning[s] = <<m, k>> /\ phase[s] = "run"
            /\ Hash[m][k] \in Bit /\ Hash[m][k] \in HostBits(s)
            /\ gdt' = [gdt EXCEPT ![s] = h]
            /\ Len(h) = Len(gdt[s]) /\ DOMAIN h = DOMAIN gdt[s]
            /\ \A i \in DOMAIN gdt[s] : h[i].bf_id = gdt[s][i].bf_id
            /\ \A i \in DOMAIN gdt[s] : i # 1 => h[i] = gdt[s][i]
            /\ h[1].array = gdt[s][1].array \cup {Hash[m][k]}
  BY AddBit, Zenon
<1>2. learning[s][1] = m /\ learning[s][2] = k
  BY ONLY <1>1
<1>3. \/ /\ k = NFuncs
         /\ learning' = [learning EXCEPT ![s] = <<>>]
         /\ learned' = [learned EXCEPT ![s] = @ \cup {m}]
      \/ /\ k # NFuncs
         /\ learning' = [learning EXCEPT ![s] = <<m, k + 1>>]
         /\ learned' = learned
  BY <1>2, Zenon DEF bf_add_bit
<1>4. UNCHANGED <<phase, dp, send, copied, recv, held, net, missed, stops>>
  BY Zenon DEF bf_add_bit
<1>5. gdt'[s] = h /\ \A t \in Switch \ {s} : gdt'[t] = gdt[t]
  BY <1>0, <1>1, Zenon DEF TypeOK
<1>6. ASSUME NEW t \in Switch \ {s}
      PROVE  learning'[t] = learning[t] /\ learned'[t] = learned[t]
  BY <1>0, <1>3, ZenonT(30) DEF TypeOK
<1>7. TypeOK'
  <2>1. gdt' \in [Switch -> bf_gdt]
    BY <1>0, <1>1, Zenon DEF TypeOK
  <2>2. k # NFuncs => <<m, k + 1>> \in Mac \X (1 .. NFuncs)
    <3>1. m \in Mac /\ k \in 1 .. NFuncs
      BY <1>1, Zenon
    <3> QED
      BY ONLY <3>1, BfGdtAssumption
  <2>3. learning' \in [Switch -> (Mac \X (1 .. NFuncs)) \cup {<<>>}]
    BY <1>0, <1>3, <2>2, Zenon DEF TypeOK
  <2>4. learned' \in [Switch -> SUBSET Mac]
    <3>1. learned \in [Switch -> SUBSET Mac] /\ m \in Mac
      BY <1>0, <1>1, Zenon DEF TypeOK
    <3>2. [learned EXCEPT ![s] = @ \cup {m}] \in [Switch -> SUBSET Mac]
      BY <3>1, Zenon
    <3> QED
      BY <1>3, <3>1, <3>2, Zenon
  <2> QED
    BY <1>0, <1>4, <2>1, <2>3, <2>4, Zenon DEF TypeOK
<1>8. NetInv'
  BY <1>0, <1>4, Zenon DEF NetInv
<1>9. ASSUME NEW t \in Switch \ {s} PROVE SwitchInv(t)'
  BY <1>0, <1>4, <1>5, <1>6, Frame, Zenon
<1>10. SwitchInv(s)'
  <2>0. /\ SwitchInv(s) /\ DOMAIN gdt[s] = 1 .. Len(gdt[s]) /\ Own(gdt[s], s)
        /\ 1 \in DOMAIN gdt[s] /\ gdt[s][1].bf_id = s
    BY <1>0, <1>1, LocalFirst, Tables, Zenon
  <2>1. PhaseInv(s)' /\ DpInv(s)'
    <3>1. Own(h, s)
      BY <1>1, <2>0, Zenon DEF Own
    <3> QED
      BY <1>1, <1>4, <1>5, <2>0, <3>1, Zenon DEF SwitchInv, PhaseInv, DpInv
  <2>2. TableInv(s)'
    <3>1. UniqueIds(gdt[s]) /\ WithinCapacity(gdt[s])
      BY <2>0, Zenon DEF SwitchInv, TableInv
    <3>2. UniqueIds(h) /\ WithinCapacity(h)
      BY <1>1, <3>1, Zenon DEF UniqueIds, WithinCapacity
    <3> QED
      BY <1>4, <1>5, <2>0, <3>2, Zenon DEF SwitchInv, TableInv
  <2>3. SoundInv(s)'
    <3>1. Sound(gdt[s])
      BY <2>0, Zenon DEF SwitchInv, SoundInv
    <3>2. SoundFilter(h[1])
      BY <1>1, <2>0, <3>1, Zenon DEF Sound, SoundFilter
    <3>3. Sound(h)
      BY <1>1, <2>0, <3>1, <3>2, Zenon DEF Sound
    <3> QED
      BY <1>4, <1>5, <2>0, <3>3, Zenon DEF SwitchInv, SoundInv
  <2>4. LearnInv(s)'
    <3>1. Begun(gdt[s], s, learning[s]) /\ Has(gdt[s], learned[s])
      <4>1. LearnInv(s)
        BY <2>0, Zenon DEF SwitchInv
      <4>2. learning[s] # <<>>
        BY Zenon DEF bf_add_bit
      <4> QED
        BY <4>1, <4>2, Zenon DEF LearnInv
    <3>2. Has(h, learned[s])
      BY <1>1, <3>1, Zenon DEF Has
    <3>3. \A j \in 1 .. k : Hash[m][j] \in h[1].array
      <4>1. \A j \in 1 .. k - 1 : Hash[m][j] \in gdt[s][1].array
        BY <1>2, <3>1, Zenon DEF Begun
      <4>2. k \in 1 .. NFuncs /\ h[1].array = gdt[s][1].array \cup {Hash[m][k]}
        BY <1>1, Zenon
      <4>3. \A j \in 1 .. k : j \in 1 .. k - 1 \/ j = k
        BY ONLY <4>2, BfGdtAssumption
      <4> QED
        BY <4>1, <4>2, <4>3, Zenon
    <3>4. CASE k = NFuncs
      <4>1. learning'[s] = <<>> /\ learned'[s] = learned[s] \cup {m}
        BY <1>0, <1>3, <3>4, Zenon DEF TypeOK
      <4>2. Has(h, learned[s] \cup {m})
        BY <3>2, <3>3, <3>4, Zenon DEF Has
      <4> QED
        BY <1>5, <4>1, <4>2, Zenon DEF LearnInv
    <3>5. CASE k # NFuncs
      <4>1. learning'[s] = <<m, k + 1>> /\ learned'[s] = learned[s]
        BY <1>0, <1>3, <3>5, Zenon DEF TypeOK
      <4>2. <<m, k + 1>>[1] = m /\ <<m, k + 1>>[2] = k + 1 /\ (k + 1) - 1 = k
        <5>1. k \in 1 .. NFuncs
          BY <1>1, Zenon
        <5> QED
          BY ONLY <5>1, BfGdtAssumption
      <4>3. Begun(h, s, <<m, k + 1>>)
        BY <3>3, <4>2, Zenon DEF Begun
      <4> QED
        BY <1>1, <1>4, <1>5, <3>2, <4>1, <4>3, Zenon DEF LearnInv
    <3> QED
      BY <3>4, <3>5, ZenonT(30)
  <2>5. PendingInv(s)'
    <3>1. recv[s] = "push" => Agree(gdt[s], held[s]) /\ held[s].bf_id # s
      BY <2>0, Zenon DEF SwitchInv, PhaseInv, PendingInv
    <3>2. recv[s] = "push" => Agree(h, held[s])
      BY <1>1, <2>0, <3>1, Zenon DEF Agree
    <3> QED
      BY <1>4, <1>5, <3>2, Zenon DEF PendingInv
  <2>6. FollowInv(s)'
    <3>1. Follows(gdt[s], dp[s], {s, held[s].bf_id} \cup missed[s])
      BY <2>0, Zenon DEF SwitchInv, FollowInv
    <3>2. Follows(h, dp[s], {s, held[s].bf_id} \cup missed[s])
      <4> SUFFICES ASSUME NEW i \in 1 .. Len(h),
                          h[i].bf_id \notin {s, held[s].bf_id} \cup missed[s]
                   PROVE  \E j \in 1 .. Len(dp[s]) :
                            /\ dp[s][j].bf_id = h[i].bf_id
                            /\ dp[s][j].array = h[i].array
        BY Zenon DEF Follows
      <4>1. i \in 1 .. Len(gdt[s]) /\ i # 1 /\ h[i] = gdt[s][i]
        BY <1>1, <2>0, Zenon
      <4> QED
        BY <3>1, <4>1, ZenonT(30) DEF Follows
    <3> QED
      BY <1>4, <1>5, <3>2, Zenon DEF FollowInv
  <2> QED
    BY <2>1, <2>2, <2>3, <2>4, <2>5, <2>6, Zenon DEF SwitchInv
<1> QED
  BY <1>7, <1>8, <1>9, <1>10, Zenon DEF IInv
-----------------------------------------------------------------------------
\* mc_send and mc_recv.

\* mc_send begins its copy of the local filter.
LEMMA SendLockStep ==
    ASSUME IInv, NEW s \in Switch, mc_send_lock(s)
    PROVE  IInv'
<1>0. TypeOK /\ NetInv /\ \A t \in Switch : SwitchInv(t)
  BY Zenon DEF IInv
<1>1. /\ UNCHANGED <<phase, gdt, dp, recv, held, learning, net, learned, missed, stops>>
      /\ send' = [send EXCEPT ![s] = "copy"]
      /\ copied' = [copied EXCEPT ![s] = gdt[s][LocalSlot(s)].array]
      /\ phase[s] # "down"
  BY DEF mc_send_lock
<1>2. TypeOK'
  <2>1. gdt[s][LocalSlot(s)].array \in SUBSET Bit
    BY <1>0, <1>1, LocalFirst, Tables, Zenon DEF bloom_filter
  <2> QED
    BY <1>0, <1>1, <2>1 DEF TypeOK
<1>3. NetInv'
  BY <1>0, <1>1, Zenon DEF NetInv
<1>4. ASSUME NEW t \in Switch \ {s} PROVE SwitchInv(t)'
  <2>1. send'[t] = send[t]
    BY <1>0, <1>1, Zenon DEF TypeOK
  <2> QED
    BY <1>0, <1>1, <2>1, Frame, Zenon
<1>5. SwitchInv(s)'
  <2>0. SwitchInv(s)
    BY <1>0, Zenon
  <2>1. PhaseInv(s)' /\ TableInv(s)' /\ DpInv(s)' /\ SoundInv(s)'
    BY <1>1, <2>0, Zenon DEF SwitchInv, PhaseInv, TableInv, DpInv, SoundInv
  <2>2. LearnInv(s)' /\ PendingInv(s)' /\ FollowInv(s)'
    BY <1>1, <2>0, Zenon DEF SwitchInv, LearnInv, PendingInv, FollowInv
  <2> QED
    BY <2>1, <2>2, Zenon DEF SwitchInv
<1> QED
  BY <1>2, <1>3, <1>4, <1>5 DEF IInv

\* A torn copy has no bit the local filter has not.
LEMMA SendUnlockStep ==
    ASSUME IInv, NEW s \in Switch, mc_send_unlock(s)
    PROVE  IInv'
<1>0. TypeOK /\ NetInv /\ \A t \in Switch : SwitchInv(t)
  BY Zenon DEF IInv
<1>1. /\ UNCHANGED <<phase, gdt, dp, recv, held, learning, learned, missed, stops>>
      /\ send' = [send EXCEPT ![s] = "idle"]
      /\ copied' = [copied EXCEPT ![s] = {}]
      /\ send[s] = "copy"
  BY Zenon DEF mc_send_unlock
<1>2. phase[s] # "down"
  BY <1>0, <1>1 DEF SwitchInv, PhaseInv
<1>3. /\ LocalSlot(s) = 1 /\ 1 \in 1 .. Len(gdt[s]) /\ gdt[s][1].bf_id = s
      /\ gdt[s][1] \in bloom_filter
  BY <1>0, <1>2, LocalFirst, Tables, Zenon
<1>4. PICK array \in SUBSET gdt[s][1].array :
        net' \subseteq net \cup {[bf_id |-> s, port_no |-> LC_BF_LOCAL_PORT, array |-> array]}
  BY <1>3, Zenon DEF mc_send_unlock
<1> DEFINE msg == [bf_id |-> s, port_no |-> LC_BF_LOCAL_PORT, array |-> array]
<1>5. SoundFilter(gdt[s][1])
  BY <1>0, <1>3, Zenon DEF SwitchInv, SoundInv, Sound
<1>6. msg \in Message /\ SoundFilter(msg)
  BY <1>3, <1>5, Zenon DEF Message, Switch, SoundFilter, bloom_filter
<1> HIDE DEF msg
<1>7. net' \subseteq net \cup {msg}
  BY <1>4, Zenon DEF msg
<1>8. TypeOK'
  <2>1. net' \subseteq Message
    BY <1>0, <1>6, <1>7, Zenon DEF TypeOK
  <2> QED
    BY <1>0, <1>1, <2>1, Zenon DEF TypeOK
<1>9. NetInv'
  BY <1>0, <1>6, <1>7, Zenon DEF NetInv
<1>10. ASSUME NEW t \in Switch \ {s} PROVE SwitchInv(t)'
  <2>1. send'[t] = send[t]
    BY <1>0, <1>1, Zenon DEF TypeOK
  <2> QED
    BY <1>0, <1>1, <2>1, Frame, Zenon
<1>11. SwitchInv(s)'
  <2>0. SwitchInv(s)
    BY <1>0, Zenon
  <2>1. PhaseInv(s)' /\ TableInv(s)' /\ DpInv(s)' /\ SoundInv(s)'
    BY <1>1, <1>2, <2>0, Zenon DEF SwitchInv, PhaseInv, TableInv, DpInv, SoundInv
  <2>2. LearnInv(s)' /\ PendingInv(s)' /\ FollowInv(s)'
    BY <1>1, <2>0, Zenon DEF SwitchInv, LearnInv, PendingInv, FollowInv
  <2> QED
    BY <2>1, <2>2, Zenon DEF SwitchInv
<1> QED
  BY <1>8, <1>9, <1>10, <1>11, Zenon DEF IInv

\* What mc_recv does with the filter of another switch.
LEMMA RecvUpdate ==
    ASSUME IInv, NEW s \in Switch, NEW msg \in net, mc_recv_update(s, msg)
    PROVE  /\ msg \in Message /\ msg.bf_id # s /\ SoundFilter(msg)
           /\ UpdatedSlots(gdt[s], bf_gdt_update_filter(gdt[s], msg), msg)
           /\ UniqueIds(bf_gdt_update_filter(gdt[s], msg))
           /\ WithinCapacity(bf_gdt_update_filter(gdt[s], msg))
           /\ ~(bf_gdt_update_ret(gdt[s], msg) > 0) =>
                msg.bf_id \in GdtIds(gdt[s]) /\ Agree(gdt[s], msg)
<1>1. /\ TypeOK /\ UniqueIds(gdt[s]) /\ WithinCapacity(gdt[s]) /\ gdt[s] \in bf_gdt
      /\ DOMAIN gdt[s] = 1 .. Len(gdt[s]) /\ Len(gdt[s]) \in Nat
  BY Tables, Zenon DEF IInv, SwitchInv, TableInv
<1>2. msg \in Message /\ msg.bf_id # s /\ SoundFilter(msg)
  BY <1>1, Zenon DEF IInv, NetInv, mc_recv_update, FromOther, TypeOK
<1>3. msg \in bloom_filter
  BY <1>2, Zenon DEF Message, bloom_filter, Port
<1>4. /\ UpdatedSlots(gdt[s], bf_gdt_update_filter(gdt[s], msg), msg)
      /\ UniqueIds(bf_gdt_update_filter(gdt[s], msg))
      /\ WithinCapacity(bf_gdt_update_filter(gdt[s], msg))
  BY <1>1, <1>3, UpdateFilter, Zenon
<1>5. ASSUME ~(bf_gdt_update_ret(gdt[s], msg) > 0)
      PROVE  msg.bf_id \in GdtIds(gdt[s]) /\ Agree(gdt[s], msg)
  <2>1. msg.bf_id \in GdtIds(gdt[s])
    BY ONLY <1>1, <1>5, FindFilter DEF bf_gdt_update_ret
  <2>2. ASSUME NEW i \in 1 .. Len(gdt[s]), gdt[s][i].bf_id = msg.bf_id
        PROVE  gdt[s][i].array = msg.array
    <3>1. bf_gdt_find_filter(gdt[s], msg.bf_id) = i
      BY ONLY <1>1, <2>1, <2>2, FindFilter DEF UniqueIds
    <3> QED
      BY ONLY <1>5, <2>2, <3>1 DEF bf_gdt_update_ret
  <2> QED
    BY <2>1, <2>2, Zenon DEF Agree
<1> QED
  BY <1>2, <1>4, <1>5, Zenon

\* A received filter changes only the slot of its own switch, and is held for a
\* push unless nothing changed.
LEMMA RecvUpdateStep ==
    ASSUME IInv, NEW s \in Switch, NEW msg \in net, mc_recv_update(s, msg)
    PROVE  IInv'
<1>0. TypeOK /\ NetInv /\ \A t \in Switch : SwitchInv(t)
  BY Zenon DEF IInv
<1> DEFINE h == bf_gdt_update_filter(gdt[s], msg)
           changed == bf_gdt_update_ret(gdt[s], msg) > 0
<1>1. /\ msg \in Message /\ msg.bf_id # s /\ SoundFilter(msg)
      /\ UpdatedSlots(gdt[s], h, msg) /\ UniqueIds(h) /\ WithinCapacity(h)
      /\ ~changed => msg.bf_id \in GdtIds(gdt[s]) /\ Agree(gdt[s], msg)
  BY RecvUpdate, Zenon
<1>2. /\ UNCHANGED <<phase, dp, send, copied, learning, net, learned, missed, stops>>
      /\ gdt' = [gdt EXCEPT ![s] = h] /\ phase[s] # "down" /\ recv[s] = "idle"
  BY Zenon DEF mc_recv_update
<1>3. \/ /\ changed
         /\ recv' = [recv EXCEPT ![s] = "push"] /\ held' = [held EXCEPT ![s] = msg]
      \/ ~changed /\ recv' = recv /\ held' = held
  BY Zenon DEF mc_recv_update, NeedsPush
<1> HIDE DEF h, changed
<1>4. gdt'[s] = h /\ \A t \in Switch \ {s} : gdt'[t] = gdt[t]
  BY <1>0, <1>2, Zenon DEF TypeOK
<1>5. ASSUME NEW t \in Switch \ {s} PROVE recv'[t] = recv[t] /\ held'[t] = held[t]
  BY <1>0, <1>3, Zenon DEF TypeOK
<1>6. \/ changed /\ recv'[s] = "push" /\ held'[s] = msg
      \/ ~changed /\ recv'[s] = "idle" /\ held'[s] = held[s]
  BY <1>0, <1>2, <1>3, Zenon DEF TypeOK
<1>7. TypeOK'
  <2>1. gdt' \in [Switch -> bf_gdt]
    BY <1>0, <1>1, <1>2, Zenon DEF TypeOK, UpdatedSlots
  <2>2. recv' \in [Switch -> {"idle", "push"}] /\ held' \in [Switch -> Message]
    BY <1>0, <1>1, <1>3, ZenonT(60) DEF TypeOK
  <2> QED
    BY <1>0, <1>2, <2>1, <2>2, Zenon DEF TypeOK
<1>8. NetInv'
  BY <1>0, <1>2, Zenon DEF NetInv
<1>9. ASSUME NEW t \in Switch \ {s} PROVE SwitchInv(t)'
  BY <1>0, <1>2, <1>4, <1>5, Frame, Zenon
<1>10. SwitchInv(s)'
  <2>0. SwitchInv(s) /\ gdt[s] \in bf_gdt
    BY <1>0, Tables, Zenon
  <2>1. Own(h, s) /\ h[1].array = gdt[s][1].array
    <3>1. Own(gdt[s], s)
      BY <1>2, <2>0, Zenon DEF SwitchInv, PhaseInv
    <3> QED
      BY <1>1, <2>0, <3>1, UpdateOwn, Zenon
  <2>2. PhaseInv(s)'
    BY <1>1, <1>2, <1>4, <1>6, <2>0, <2>1, Zenon DEF SwitchInv, PhaseInv
  <2>3. TableInv(s)' /\ DpInv(s)'
    BY <1>1, <1>2, <1>4, <2>0, Zenon DEF SwitchInv, TableInv, DpInv
  <2>4. SoundInv(s)'
    <3>1. Sound(h)
      BY <1>1, <2>0, UpdateSound, Zenon DEF SwitchInv, SoundInv
    <3> QED
      BY <1>1, <1>2, <1>4, <1>6, <2>0, <3>1, Zenon DEF SwitchInv, SoundInv
  <2>5. LearnInv(s)'
    <3>1. Has(h, learned[s])
      BY <2>0, <2>1, Zenon DEF SwitchInv, LearnInv, Has
    <3>2. learning[s] # <<>> => phase[s] = "run" /\ Begun(h, s, learning[s])
      BY <2>0, <2>1, Zenon DEF SwitchInv, LearnInv, Begun
    <3> QED
      BY <1>2, <1>4, <3>1, <3>2, Zenon DEF LearnInv
  <2>6. PendingInv(s)'
    <3>1. Agree(h, msg)
      BY <1>1, <2>0, UpdateAgrees, Zenon
    <3> QED
      BY <1>4, <1>6, <3>1, Zenon DEF PendingInv
  <2>7. FollowInv(s)'
    <3> DEFINE X == {s, held[s].bf_id} \cup missed[s]
               Y == {s, held'[s].bf_id} \cup missed[s]
    <3>1. held[s].bf_id = s
      BY <1>2, <2>0, Zenon DEF SwitchInv, PhaseInv
    <3>2. X \subseteq Y
      BY <3>1, Zenon
    <3>3. msg.bf_id \in Y \/ (msg.bf_id \in GdtIds(gdt[s]) /\ Agree(gdt[s], msg))
      BY <1>1, <1>6, Zenon
    <3>4. Follows(gdt[s], dp[s], X)
      BY <2>0, Zenon DEF SwitchInv, FollowInv
    <3> HIDE DEF X, Y
    <3>5. Follows(h, dp[s], Y)
      BY <1>1, <2>0, <3>2, <3>3, <3>4, UpdateFollowed, Zenon
    <3> QED
      BY <1>2, <1>4, <3>5, Zenon DEF FollowInv, Y
  <2> QED
    BY <2>2, <2>3, <2>4, <2>5, <2>6, <2>7, Zenon DEF SwitchInv
<1> QED
  BY <1>7, <1>8, <1>9, <1>10, Zenon DEF IInv

\* A push brings the kernel to what br->gdt has, or is recorded as missed.
LEMMA RecvPushStep ==
    ASSUME IInv, NEW s \in Switch, mc_recv_push(s)
    PROVE  IInv'
<1>0. TypeOK /\ NetInv /\ \A t \in Switch : SwitchInv(t)
  BY Zenon DEF IInv
<1> DEFINE bf == PushedFilter(s)
           h == bf_gdt_update_filter(dp[s], bf)
           id == held[s].bf_id
           found == bf_gdt_find_filter(h, id) # 0
<1>1. /\ SwitchInv(s) /\ gdt[s] \in bf_gdt /\ dp[s] \in bf_gdt
      /\ held[s] \in Message /\ recv[s] = "push" /\ missed[s] \subseteq Id
  BY <1>0, Tables, Zenon DEF mc_recv_push, TypeOK
<1>2. /\ bf \in bloom_filter /\ bf.bf_id = id /\ bf.array = held[s].array
      /\ bf.port_no = LC_BF_REMOTE_PORT /\ id \in Id
  BY <1>1, Zenon DEF PushedFilter, Message, bloom_filter, Port
<1>3. id # s /\ SoundFilter(held[s]) /\ Agree(gdt[s], held[s])
  BY <1>1, Zenon DEF SwitchInv, PhaseInv, SoundInv, PendingInv
<1>4. /\ UNCHANGED <<phase, gdt, send, copied, learning, net, learned, stops>>
      /\ recv' = [recv EXCEPT ![s] = "idle"]
      /\ held' = [held EXCEPT ![s] = NoMessage(s)]
  BY Zenon DEF mc_recv_push
<1>5. \/ /\ phase[s] = "run" /\ dp' = [dp EXCEPT ![s] = h]
         /\ missed' = [missed EXCEPT ![s] = IF found THEN @ \ {id} ELSE @ \cup {id}]
      \/ dp' = dp /\ missed' = [missed EXCEPT ![s] = @ \cup {id}]
  BY Zenon DEF mc_recv_push
<1> HIDE DEF bf
<1>6. UpdatedSlots(dp[s], h, bf) /\ UniqueIds(h) /\ WithinCapacity(h)
  BY <1>1, <1>2, UpdateFilter, Zenon DEF SwitchInv, TableInv
<1>7. h \in bf_gdt
  BY <1>6, Zenon DEF UpdatedSlots
<1>8. found => id \in GdtIds(h)
  BY <1>6, <1>7, FindFilter, Zenon
<1>9. SoundFilter(bf) /\ Agree(gdt[s], bf)
  BY <1>2, <1>3, Zenon DEF SoundFilter, Agree
<1> HIDE DEF h, id, found
<1>10. \/ /\ phase[s] = "run" /\ dp'[s] = h
          /\ missed'[s] = IF found THEN missed[s] \ {id} ELSE missed[s] \cup {id}
       \/ dp'[s] = dp[s] /\ missed'[s] = missed[s] \cup {id}
  BY <1>0, <1>5, Zenon DEF TypeOK
<1>11. recv'[s] = "idle" /\ held'[s] = NoMessage(s)
  BY <1>0, <1>4, Zenon DEF TypeOK
<1>12. ASSUME NEW t \in Switch \ {s}
       PROVE  /\ recv'[t] = recv[t] /\ held'[t] = held[t]
              /\ dp'[t] = dp[t] /\ missed'[t] = missed[t]
  BY <1>0, <1>4, <1>5, Zenon DEF TypeOK
<1>13. TypeOK'
  <2>1. dp' \in [Switch -> bf_gdt]
    BY <1>0, <1>5, <1>7, Zenon DEF TypeOK
  <2>2. missed' \in [Switch -> SUBSET Id]
    BY ONLY <1>0, <1>2, <1>5 DEF TypeOK
  <2>3. recv' \in [Switch -> {"idle", "push"}] /\ held' \in [Switch -> Message]
    BY <1>0, <1>4, NothingHeld, Zenon DEF TypeOK
  <2> QED
    BY <1>0, <1>4, <2>1, <2>2, <2>3, Zenon DEF TypeOK
<1>14. NetInv'
  BY <1>0, <1>4, Zenon DEF NetInv
<1>15. ASSUME NEW t \in Switch \ {s} PROVE SwitchInv(t)'
  BY <1>0, <1>4, <1>12, Frame, Zenon
<1>16. SwitchInv(s)'
  <2>1. /\ phase[s] = "run" => dp'[s] # <<>>
        /\ Kernel(dp'[s], s) /\ Sound(dp'[s]) /\ UniqueIds(dp'[s]) /\ WithinCapacity(dp'[s])
    <3>1. CASE dp'[s] = dp[s]
      BY <1>1, <3>1, Zenon DEF SwitchInv, PhaseInv, TableInv, DpInv, SoundInv
    <3>2. CASE phase[s] = "run" /\ dp'[s] = h
      <4>1. dp[s] # <<>> /\ Kernel(dp[s], s) /\ Sound(dp[s])
        BY <1>1, <3>2, Zenon DEF SwitchInv, PhaseInv, DpInv, SoundInv
      <4>2. Kernel(h, s) /\ h # <<>>
        BY <1>1, <1>2, <1>3, <1>6, <4>1, UpdateKernel, Zenon
      <4>3. Sound(h)
        BY <1>1, <1>6, <1>9, <4>1, UpdateSound, Zenon
      <4> QED
        BY <1>6, <3>2, <4>2, <4>3, Zenon
    <3> QED
      BY <1>10, <3>1, <3>2, Zenon
  <2>2. PhaseInv(s)'
    BY <1>1, <1>4, <1>11, <2>1, NothingHeld, Zenon DEF SwitchInv, PhaseInv
  <2>3. LearnInv(s)' /\ PendingInv(s)'
    BY <1>1, <1>4, <1>11, Zenon DEF SwitchInv, LearnInv, PendingInv
  <2>4. TableInv(s)' /\ DpInv(s)' /\ SoundInv(s)'
    BY <1>1, <1>4, <1>11, <2>1, NothingHeld, Zenon DEF SwitchInv, TableInv, DpInv, SoundInv
  <2>5. FollowInv(s)'
    <3> DEFINE X == {s, id} \cup missed[s]
               Y == {s} \cup missed'[s]
    <3>1. Follows(gdt[s], dp[s], X)
      BY <1>1, Zenon DEF SwitchInv, FollowInv, id
    <3>2. X \subseteq Y \cup {id}
      BY <1>10, Zenon
    <3>3. Follows(gdt[s], dp'[s], Y)
      <4>1. CASE dp'[s] = dp[s] /\ missed'[s] = missed[s] \cup {id}
        <5>1. X = Y
          BY <4>1, Zenon
        <5> QED
          BY <3>1, <4>1, <5>1, Zenon
      <4>2. CASE /\ dp'[s] = h
                 /\ missed'[s] = IF found THEN missed[s] \ {id} ELSE missed[s] \cup {id}
        <5>1. bf.bf_id \in Y \/ bf.bf_id \in GdtIds(h)
          BY <1>2, <1>8, <4>2, Zenon DEF id
        <5>2. X \subseteq Y \cup {bf.bf_id}
          BY <1>2, <3>2, Zenon DEF id
        <5> HIDE DEF X, Y
        <5>3. Follows(gdt[s], h, Y)
          BY <1>1, <1>6, <1>9, <3>1, <5>1, <5>2, UpdateFollows, Zenon
        <5> QED
          BY <4>2, <5>3, Zenon
      <4> QED
        BY <1>10, <4>1, <4>2, Zenon
    <3>4. {s, held'[s].bf_id} \cup missed'[s] = Y
      BY <1>11, NothingHeld, Zenon
    <3> HIDE DEF X, Y
    <3> QED
      BY <1>4, <3>3, <3>4, Zenon DEF FollowInv
  <2> QED
    BY <2>2, <2>3, <2>4, <2>5, Zenon DEF SwitchInv
<1> QED
  BY <1>13, <1>14, <1>15, <1>16, Zenon DEF IInv

-----------------------------------------------------------------------------
\* All steps, and what follows.

\* Every step of every switch preserves the inductive invariant.
THEOREM NextIInv == IInv /\ [Next]_vars => IInv'
<1> SUFFICES ASSUME IInv, [Next]_vars PROVE IInv'
  BY Zenon
<1>1. CASE UNCHANGED vars
  <2>1. TypeOK'
    BY <1>1, Zenon DEF IInv, TypeOK, vars
  <2>2. NetInv'
    BY <1>1, Zenon DEF IInv, NetInv, vars
  <2>3. ASSUME NEW t \in Switch PROVE SwitchInv(t)'
    BY <1>1, Frame, Zenon DEF IInv, vars
  <2> QED
    BY <2>1, <2>2, <2>3 DEF IInv
<1>2. ASSUME NEW s \in Switch, SwitchNext(s) PROVE IInv'
  <2>1. CASE bridge_create(s)
    BY <2>1, BridgeCreateStep, Zenon
  <2>2. CASE ofproto_create(s)
    BY <2>2, OfprotoCreateStep, Zenon
  <2>3. CASE ofproto_create_fails(s)
    BY <2>3, BridgeGoneStep, Zenon DEF ofproto_create_fails
  <2>4. CASE bridge_destroy(s)
    BY <2>4, BridgeGoneStep, Zenon DEF bridge_destroy
  <2>5. CASE Crash(s)
    BY <2>5, BridgeGoneStep, Zenon DEF Crash
  <2>6. CASE ovs_dp_cmd_del(s)
    BY <2>6, DpCmdDelStep, Zenon
  <2>7. CASE \E m, d \in Mac : handle_miss_upcall(s, m, d)
    BY <2>7, MissUpcallStep, Zenon
  <2>8. CASE bf_add_bit(s)
    BY <2>8, AddBitStep, Zenon
  <2>9. CASE mc_send_lock(s)
    BY <2>9, SendLockStep, Zenon
  <2>10. CASE mc_send_unlock(s)
    BY <2>10, SendUnlockStep, Zenon
  <2>11. CASE \E msg \in net : mc_recv_update(s, msg)
    BY <2>11, RecvUpdateStep, Zenon
  <2>12. CASE mc_recv_push(s)
    BY <2>12, RecvPushStep, Zenon
  <2> QED
    BY <1>2, <2>1, <2>2, <2>3, <2>4, <2>5, <2>6, <2>7, <2>8, <2>9, <2>10,
       <2>11, <2>12, Zenon DEF SwitchNext
<1> QED
  BY <1>1, <1>2, Zenon DEF Next

\* The invariant holds in every reachable state.
THEOREM Inductive == Spec => []IInv
BY InitIInv, NextIInv, PTL DEF Spec

\* Every variable of every switch keeps its type.
THEOREM TypeCorrect == Spec => []TypeOK
<1>1. IInv => TypeOK
  BY Zenon DEF IInv
<1> QED
  BY <1>1, Inductive, PTL

\* No table ever holds two filters of one switch or overflows.
THEOREM TablesCorrect == Spec => []TablesWellFormed
<1>1. IInv => TablesWellFormed
  BY Zenon DEF IInv, SwitchInv, TableInv, TablesWellFormed
<1> QED
  BY <1>1, Inductive, PTL

\* No bit of any filter is without a host of the filter's switch.
THEOREM FiltersCorrect == Spec => []FiltersSound
<1>1. IInv => FiltersSound
  BY Tables, Zenon DEF IInv, SwitchInv, SoundInv, Sound, SoundFilter, FiltersSound
<1> QED
  BY <1>1, Inductive, PTL

\* The kernel of a switch never tunnels a packet to the switch itself.
THEOREM EncapCorrect == Spec => []NeverEncapToSelf
<1>1. IInv => NeverEncapToSelf
  <2> SUFFICES ASSUME IInv, NEW s \in Switch, NEW m \in Mac,
                      bf_gdt_check(dp[s], m) # 0
               PROVE  /\ dp[s][bf_gdt_check(dp[s], m)].bf_id # s
                      /\ dp[s][bf_gdt_check(dp[s], m)].port_no = LC_BF_REMOTE_PORT
    BY Zenon DEF NeverEncapToSelf
  <2> DEFINE i == bf_gdt_check(dp[s], m)
  <2>1. TypeOK /\ DpInv(s) /\ UniqueIds(dp[s])
    BY Zenon DEF IInv, SwitchInv, TableInv
  <2>2. i \in DOMAIN dp[s] /\ bf_check(dp[s][i], m)
    BY <2>1, GdtCheck, Tables, Zenon
  <2>3. DOMAIN dp[s] = 1 .. Len(dp[s]) /\ Len(dp[s]) \in Nat
    BY <2>1, Tables, Zenon
  <2> HIDE DEF i
  <2>4. dp[s] # <<>>
    BY ONLY <2>2, <2>3
  <2>5. dp[s][i].array # {}
    BY ONLY <2>2, BfGdtAssumption DEF bf_check
  <2>6. i # 1 /\ i \in 2 .. Len(dp[s]) /\ 1 \in DOMAIN dp[s]
    BY ONLY <2>1, <2>2, <2>3, <2>4, <2>5 DEF DpInv, Kernel
  <2>7. dp[s][i].bf_id # s
    BY <2>1, <2>2, <2>4, <2>6, Zenon DEF DpInv, Kernel, UniqueIds
  <2> QED
    BY <2>1, <2>4, <2>6, <2>7, Zenon DEF DpInv, Kernel, i
<1> QED
  BY <1>1, Inductive, PTL

\* A host that bf_add has added stays in the local filter.
THEOREM LearnedCorrect == Spec => []LearnedAreLocal
<1>1. IInv => LearnedAreLocal
  <2> SUFFICES ASSUME IInv, NEW s \in Switch, NEW m \in learned[s]
               PROVE  /\ bf_gdt_find_filter(gdt[s], s) # 0
                      /\ bf_check(gdt[s][bf_gdt_find_filter(gdt[s], s)], m)
    BY Zenon DEF LearnedAreLocal
  <2>1. SwitchInv(s) /\ phase[s] # "down"
    BY Zenon DEF IInv, SwitchInv, PhaseInv
  <2>2. bf_gdt_find_filter(gdt[s], s) = 1
    BY <2>1, LocalFirst, Zenon DEF LocalSlot
  <2> QED
    BY ONLY <2>1, <2>2 DEF SwitchInv, LearnInv, Has, bf_check
<1> QED
  BY <1>1, Inductive, PTL

\* The kernel table differs from br->gdt only while a push is on its way or
\* after one was lost.
THEOREM DpCorrect == Spec => []DpFollows
<1>1. IInv => DpFollows
  <2> SUFFICES ASSUME IInv, NEW s \in Switch, NEW i \in DOMAIN gdt[s],
                      gdt[s][i].bf_id # s, gdt[s][i].bf_id \notin missed[s],
                      ~(recv[s] = "push" /\ held[s].bf_id = gdt[s][i].bf_id)
               PROVE  LET j == bf_gdt_find_filter(dp[s], gdt[s][i].bf_id)
                      IN  j # 0 /\ dp[s][j].array = gdt[s][i].array
    BY Zenon DEF DpFollows
  <2> DEFINE t == gdt[s][i].bf_id
  <2>1. TypeOK /\ PhaseInv(s) /\ FollowInv(s) /\ UniqueIds(dp[s])
    BY Zenon DEF IInv, SwitchInv, TableInv
  <2>2. PICK k \in DOMAIN dp[s] : dp[s][k].bf_id = t /\ dp[s][k].array = gdt[s][i].array
    <3>1. t \notin {s, held[s].bf_id} \cup missed[s]
      BY <2>1, Zenon DEF PhaseInv
    <3>2. DOMAIN gdt[s] = 1 .. Len(gdt[s]) /\ DOMAIN dp[s] = 1 .. Len(dp[s])
      BY <2>1, Tables, Zenon
    <3> QED
      BY <2>1, <3>1, <3>2, Zenon DEF FollowInv, Follows
  <2>3. t \in GdtIds(dp[s])
    BY <2>2, Zenon DEF GdtIds
  <2>4. /\ bf_gdt_find_filter(dp[s], t) \in DOMAIN dp[s]
        /\ dp[s][bf_gdt_find_filter(dp[s], t)].bf_id = t
    BY <2>1, <2>3, FindFilter, Tables, Zenon
  <2>5. bf_gdt_find_filter(dp[s], t) = k /\ k # 0
    <3>1. DOMAIN dp[s] = 1 .. Len(dp[s]) /\ Len(dp[s]) \in Nat
      BY <2>1, Tables, LenProperties, Zenon DEF bf_gdt
    <3>2. k # 0
      BY ONLY <2>2, <3>1, SMT
    <3> QED
      BY <2>1, <2>2, <2>4, <3>2, Zenon DEF UniqueIds
  <2> QED
    BY <2>2, <2>5, Zenon
<1> QED
  BY <1>1, Inductive, PTL

\* Table h still has the filters of table g of switch s, in the same slots, and
\* the bits of the local one.
Kept(g, h, s) ==
    \A i \in DOMAIN g :
        /\ i \in DOMAIN h
        /\ h[i].bf_id = g[i].bf_id
        /\ g[i].bf_id = s => g[i].array \subseteq h[i].array

\* bf_add's next bit leaves every filter in its slot.
LEMMA AddBitKeeps ==
    ASSUME IInv, NEW s \in Switch, bf_add_bit(s)
    PROVE  Kept(gdt[s], gdt'[s], s) /\ \A t \in Switch \ {s} : gdt'[t] = gdt[t]
<1>1. TypeOK /\ phase[s] = "run"
  BY Zenon DEF IInv, bf_add_bit, SwitchInv, LearnInv
<1>2. PICK m \in Hosts[s], k \in 1 .. NFuncs, h \in bf_gdt :
        /\ m \in Mac /\ learning[s] = <<m, k>> /\ phase[s] = "run"
        /\ Hash[m][k] \in Bit /\ Hash[m][k] \in HostBits(s)
        /\ gdt' = [gdt EXCEPT ![s] = h]
        /\ Len(h) = Len(gdt[s]) /\ DOMAIN h = DOMAIN gdt[s]
        /\ \A i \in DOMAIN gdt[s] : h[i].bf_id = gdt[s][i].bf_id
        /\ \A i \in DOMAIN gdt[s] : i # 1 => h[i] = gdt[s][i]
        /\ h[1].array = gdt[s][1].array \cup {Hash[m][k]}
  BY AddBit, Zenon
<1>3. gdt'[s] = h /\ \A t \in Switch \ {s} : gdt'[t] = gdt[t]
  BY <1>1, <1>2, Zenon DEF TypeOK
<1>4. \A i \in DOMAIN gdt[s] : gdt[s][i].array \subseteq h[i].array
  BY <1>2, Zenon
<1> QED
  BY <1>2, <1>3, <1>4, Zenon DEF Kept

\* A received filter leaves every filter in its slot and the local bits alone.
LEMMA RecvUpdateKeeps ==
    ASSUME IInv, NEW s \in Switch, NEW msg \in net, mc_recv_update(s, msg)
    PROVE  Kept(gdt[s], gdt'[s], s) /\ \A t \in Switch \ {s} : gdt'[t] = gdt[t]
<1> DEFINE h == bf_gdt_update_filter(gdt[s], msg)
<1>1. TypeOK /\ msg.bf_id # s /\ UpdatedSlots(gdt[s], h, msg)
  BY RecvUpdate, Zenon DEF IInv
<1>2. gdt' = [gdt EXCEPT ![s] = h]
  BY Zenon DEF mc_recv_update
<1> HIDE DEF h
<1>3. gdt'[s] = h /\ \A t \in Switch \ {s} : gdt'[t] = gdt[t]
  BY <1>1, <1>2, Zenon DEF TypeOK
<1>4. /\ Len(h) \in Nat /\ DOMAIN h = 1 .. Len(h) /\ Len(h) >= Len(gdt[s])
      /\ Len(gdt[s]) \in Nat /\ DOMAIN gdt[s] = 1 .. Len(gdt[s])
  BY <1>1, Tables, LenProperties, Zenon DEF UpdatedSlots, bf_gdt
<1> QED
  BY ONLY <1>1, <1>3, <1>4, SMTT(20) DEF Kept, UpdatedSlots

\* No step makes a bridge that stays up forget a filter or a local bit: only
\* bridge_create, bridge_destroy and a crash replace a table.
THEOREM ForgetsNothing == Spec => NothingForgotten
<1> DEFINE Keeps == \A s \in Switch : (phase[s] # "down" /\ phase'[s] # "down") =>
                        Kept(gdt[s], gdt'[s], s)
<1>1. ASSUME IInv, NEW s \in Switch, SwitchNext(s) PROVE Keeps
  <2>1. TypeOK
    BY <1>1, Zenon DEF IInv
  <2>2. \A t \in Switch : gdt'[t] = gdt[t] => Kept(gdt[t], gdt'[t], t)
    BY Zenon DEF Kept
  <2>3. CASE bridge_create(s)
    BY <2>1, <2>2, <2>3, Zenon DEF bridge_create, TypeOK
  <2>4. CASE ofproto_create_fails(s) \/ bridge_destroy(s) \/ Crash(s)
    BY <2>1, <2>2, <2>4, Zenon DEF ofproto_create_fails, bridge_destroy, Crash, BridgeGone, TypeOK
  <2>5. CASE bf_add_bit(s)
    BY <2>2, <2>5, <1>1, AddBitKeeps, Zenon
  <2>6. CASE \E msg \in net : mc_recv_update(s, msg)
    BY <2>2, <2>6, <1>1, RecvUpdateKeeps, Zenon
  <2>7. CASE \E m, d \in Mac : handle_miss_upcall(s, m, d)
    <3>1. phase[s] # "down"
      BY <2>7, Zenon DEF handle_miss_upcall
    <3>2. LocalSlot(s) # 0
      <4>1. LocalSlot(s) = 1
        BY <1>1, <3>1, LocalFirst, Zenon
      <4> QED
        BY ONLY <4>1
    <3>3. gdt' = gdt
      BY <2>1, <2>7, <3>2, Zenon DEF handle_miss_upcall, TypeOK
    <3> QED
      BY <2>2, <3>3, Zenon
  <2>8. CASE ofproto_create(s) \/ ovs_dp_cmd_del(s) \/ mc_send_lock(s)
              \/ mc_send_unlock(s) \/ mc_recv_push(s)
    <3>1. gdt' = gdt
      BY <2>8, Zenon DEF ofproto_create, ovs_dp_cmd_del, mc_send_lock, mc_send_unlock, mc_recv_push
    <3> QED
      BY <2>2, <3>1, Zenon
  <2> QED
    BY <1>1, <2>3, <2>4, <2>5, <2>6, <2>7, <2>8, Zenon DEF SwitchNext
<1>2. IInv /\ [Next]_vars => [Keeps]_vars
  BY <1>1, Zenon DEF Next
<1>3. [Keeps]_vars => [\A s \in Switch : (phase[s] # "down" /\ phase'[s] # "down") =>
            \A i \in DOMAIN gdt[s] :
                /\ i \in DOMAIN gdt'[s]
                /\ gdt'[s][i].bf_id = gdt[s][i].bf_id
                /\ gdt[s][i].bf_id = s => gdt[s][i].array \subseteq gdt'[s][i].array]_vars
  BY Zenon DEF Kept
<1> QED
  BY <1>2, <1>3, Inductive, PTL DEF Spec, NothingForgotten
=============================================================================
