--------------------------- MODULE DatapathProofs ---------------------------
(***************************************************************************)
(* The kernel's filter table and the packets that search it, for any       *)
(* number of processors, filters, keys, hash functions and flow actions.   *)
(*                                                                         *)
(* Between two stores of a command the slots hold the table but for the    *)
(* slot the command works on (SlotsOK).  A search during which nothing is  *)
(* deleted has every filter that claims its key still before it (Kept),    *)
(* and what it has met of a filter was there (Shown).                      *)
(***************************************************************************)
EXTENDS Datapath, TLAPS, SequenceTheorems

USE Zenon

\* Slot k holds what the table says.
Same(k) == bf_array[k] \in kmem /\ filt[bf_array[k]] = table[k]

\* No two of the slots 1 .. n are the same filter; what comes after them is free.
Apart(n) == \A i, k \in 1 .. n : bf_array[i] = bf_array[k] => i = k
Free(n) == \A k \in Slot : k > n => bf_array[k] = NULL

CmdObj ==
    [op : {"none", "add", "copy", "move", "clear", "shrink"}, bf : bloom_filter \cup {NULL},
     at : Ptr \cup {NULL}, i : 0 .. BF_GDT_MAX_FILTERS, left : SUBSET (Bit \cup {"slot", "count"})]

Typed ==
    /\ gdt \in {"table", "null", "oops"}
    /\ kmem \subseteq Ptr
    /\ filt \in [Ptr -> bloom_filter]
    /\ nbf \in 0 .. BF_GDT_MAX_FILTERS
    /\ bf_array \in [Slot -> Ptr \cup {NULL}]
    /\ cmd \in CmdObj
    /\ table \in bf_gdt /\ UniqueIds(table) /\ WithinCapacity(table)

\* No command is under way.
Settled ==
    /\ nbf = Len(table)
    /\ \A k \in 1 .. nbf : Same(k)
    /\ Apart(nbf)
    /\ Free(nbf)

\* A filter is added, after the others: its slot and the count are stored in
\* either order.
Adding ==
    /\ cmd.i = Len(table) /\ cmd.i \in Slot
    /\ cmd.bf = table[cmd.i]
    /\ \A k \in 1 .. cmd.i - 1 : Same(k) /\ bf_array[k] # cmd.at
    /\ Apart(cmd.i - 1)
    /\ Free(cmd.i)
    /\ cmd.at \in kmem
    /\ filt[cmd.at] = bf_create(cmd.bf.bf_id, cmd.bf.port_no)
    /\ cmd.left \in (SUBSET {"slot", "count"}) \ {{}}
    /\ bf_array[cmd.i] = IF "slot" \in cmd.left THEN NULL ELSE cmd.at
    /\ nbf = IF "count" \in cmd.left THEN cmd.i - 1 ELSE cmd.i

\* The bits of a filter are copied.
Copying ==
    /\ nbf = Len(table) /\ cmd.i \in 1 .. nbf
    /\ bf_array[cmd.i] = cmd.at /\ cmd.at \in kmem
    /\ \A k \in (1 .. nbf) \ {cmd.i} : Same(k)
    /\ Apart(nbf)
    /\ Free(nbf)
    /\ filt[cmd.at].bf_id = table[cmd.i].bf_id
    /\ filt[cmd.at].port_no = table[cmd.i].port_no
    /\ cmd.bf.array = table[cmd.i].array
    /\ cmd.left \subseteq Bit
    /\ \A b \in Bit \ cmd.left : b \in filt[cmd.at].array <=> b \in table[cmd.i].array

\* A filter was freed, and the last one takes its slot.
Moving ==
    /\ nbf = Len(table) + 1 /\ cmd.i \in 1 .. nbf
    /\ \A k \in (1 .. nbf - 1) \ {cmd.i} : Same(k)
    /\ cmd.i < nbf => bf_array[nbf] \in kmem /\ filt[bf_array[nbf]] = table[cmd.i]
    /\ Apart(nbf)
    /\ Free(nbf)

Moved ==
    /\ nbf = Len(table) + 1
    /\ \A k \in 1 .. nbf - 1 : Same(k)
    /\ Apart(nbf - 1)
    /\ Free(nbf)

SlotsOK ==
    /\ gdt = "null" => cmd = NoCommand /\ nbf = 0
    /\ cmd.op = "none" => cmd = NoCommand /\ Settled
    /\ cmd.op = "add" => Adding
    /\ cmd.op = "copy" => Copying
    /\ cmd.op = "move" => Moving
    /\ cmd.op = "clear" => Moved
    /\ cmd.op = "shrink" => Moved /\ bf_array[nbf] = NULL

Kernel == Typed /\ SlotsOK
-----------------------------------------------------------------------------
\* Searches.

ScanObj ==
    [pc : {"none", "count", "slot", "bits", "return", "hit", "miss"}, key : Mac \cup {NULL},
     i : 0 .. BF_GDT_MAX_FILTERS + 1, at : Ptr \cup {NULL}, j : 0 .. NFuncs]

SeenObj == [all : SUBSET Id, bits : SUBSET (Id \X Bit), del : BOOLEAN]

ScanTyped(s) ==
    /\ s.pc = "none" => s = NoScan
    /\ s.pc # "none" => s.key \in Mac /\ s.i >= 1 /\ s.j >= 1
    /\ s.pc \in {"slot", "bits", "return", "hit"} => s.i \in Slot
    /\ s.pc \in {"count", "slot"} => s.j = 1

\* A filter with this id claims the key now and is still to be searched.
Ahead(c, id) ==
    \E k \in scan[c].i .. nbf :
        /\ bf_array[k] # NULL /\ table[k].bf_id = id
        /\ bf_check(filt[bf_array[k]], scan[c].key) /\ bf_check(table[k], scan[c].key)

Kept(c) ==
    IF scan[c].pc = "miss" THEN seen[c].all = {} ELSE \A id \in seen[c].all : Ahead(c, id)

\* The bits of the key that a filter or the table has have been seen.
Shown(c) ==
    \A b \in HashBits(scan[c].key) :
        /\ \A k \in 1 .. nbf :
            bf_array[k] # NULL /\ b \in filt[bf_array[k]].array => <<table[k].bf_id, b>> \in seen[c].bits
        /\ \A k \in DOMAIN table : b \in table[k].array => <<table[k].bf_id, b>> \in seen[c].bits

\* How many bits of the key the search has found in its filter.
Met(c) ==
    IF scan[c].pc = "bits" THEN scan[c].j - 1
    ELSE IF scan[c].pc \in {"return", "hit"} THEN NFuncs ELSE 0

ScanOK(c) ==
    /\ cmd.op \in {"none", "add", "copy"}
    /\ scan[c].pc \in {"slot", "bits", "return", "hit"} => scan[c].i <= nbf
    /\ scan[c].pc \in {"bits", "return", "hit"} => scan[c].at = bf_array[scan[c].i] /\ scan[c].at # NULL
    /\ Kept(c)
    /\ Shown(c)
    /\ \A n \in 1 .. Met(c) : <<table[scan[c].i].bf_id, Hash[scan[c].key][n]>> \in seen[c].bits

\* Nothing was deleted during the search of c.
Undisturbed(c) == scan[c].pc # "none" /\ ~seen[c].del

Scans ==
    /\ scan \in [Cpu -> ScanObj]
    /\ seen \in [Cpu -> SeenObj]
    /\ \A c \in Cpu : ScanTyped(scan[c]) /\ (Undisturbed(c) => ScanOK(c))
-----------------------------------------------------------------------------
\* Packets.

SkbObj ==
    [pc : {"idle", "decap", "lookup", "scan", "upcall", "execute", "done"}, encaped : BOOLEAN,
     acts : Seq(Action), outer : Seq(Seq(Action)), prev_port : BOOLEAN, gone : Nat,
     used : BOOLEAN, nohead : BOOLEAN]

\* A packet does not leak.  One that got its header is used while it is not gone,
\* unless an action inside a SAMPLE fails.
SkbOK(s) ==
    /\ s.pc = "done" => s.gone >= 1
    /\ ~s.nohead /\ ~FailedInSample(s) => ~s.used /\ s.gone = IF s.pc = "done" THEN 1 ELSE 0

Packets ==
    /\ skb \in [Cpu -> SkbObj]
    /\ \A c \in Cpu : SkbOK(skb[c]) /\ (scan[c].pc # "none" => skb[c].pc = "scan")

IInv == Kernel /\ Scans /\ Packets
-----------------------------------------------------------------------------
\* Tables.

\* The filters of a table are filters.
LEMMA TableFacts ==
    ASSUME NEW g \in bf_gdt
    PROVE  /\ DOMAIN g = 1 .. Len(g) /\ Len(g) \in Nat
           /\ \A k \in 1 .. Len(g) : g[k] \in bloom_filter /\ g[k].bf_id \in Id /\ g[k].array \subseteq Bit
<1>1. /\ DOMAIN g = 1 .. Len(g) /\ Len(g) \in Nat
      /\ \A k \in 1 .. Len(g) : g[k] \in bloom_filter
  BY LenProperties DEF bf_gdt
<1>2. \A f \in bloom_filter : f.bf_id \in Id /\ f.array \subseteq Bit
  BY SMT DEF bloom_filter
<1> QED
  BY <1>1, <1>2

\* Slot i is where table g has an id, or 0 if it does not.
At(g, id, i) ==
    \/ i = 0 /\ id \notin GdtIds(g)
    \/ i \in 1 .. Len(g) /\ g[i].bf_id = id

\* bf_gdt_find_filter returns the slot of an id.
LEMMA FindFilter ==
    ASSUME NEW g \in bf_gdt, UniqueIds(g), NEW id
    PROVE  At(g, id, bf_gdt_find_filter(g, id))
<1>0. DOMAIN g = 1 .. Len(g) /\ Len(g) \in Nat
  BY TableFacts
<1>1. CASE id \in GdtIds(g)
  <2>1. PICK k \in DOMAIN g : g[k].bf_id = id
    BY <1>1 DEF GdtIds
  <2>2. \A j \in 1 .. k - 1 : g[j].bf_id # id
    BY <1>0, <2>1, SMT DEF UniqueIds
  <2> QED
    BY <1>0, <1>1, <2>1, <2>2, Zenon DEF bf_gdt_find_filter, At
<1>2. CASE id \notin GdtIds(g)
  BY <1>2 DEF bf_gdt_find_filter, At
<1> QED
  BY <1>1, <1>2

\* An id has one slot.
LEMMA OneSlot ==
    ASSUME NEW g \in bf_gdt, UniqueIds(g), NEW id, NEW i, NEW k, At(g, id, i), At(g, id, k)
    PROVE  i = k
BY TableFacts, SMT DEF At, UniqueIds, GdtIds

\* Between commands the search of the slots finds what a search of the table
\* finds.
LEMMA Find ==
    ASSUME Typed, Settled, NEW id
    PROVE  At(table, id, bf_gdt_find(id)) /\ bf_gdt_find_filter(table, id) = bf_gdt_find(id)
<1>0. /\ table \in bf_gdt /\ UniqueIds(table)
      /\ nbf = Len(table) /\ nbf \in Nat /\ DOMAIN table = 1 .. nbf
      /\ \A k \in 1 .. nbf : filt[bf_array[k]].bf_id = table[k].bf_id
  BY TableFacts DEF Typed, Settled, Same
<1> DEFINE found == {i \in 1 .. nbf : filt[bf_array[i]].bf_id = id}
<1>1. bf_gdt_find(id) = IF found = {} THEN 0 ELSE CHOOSE i \in found : \A k \in found : i <= k
  BY DEF bf_gdt_find
<1>2. \A i \in found : i \in 1 .. nbf /\ table[i].bf_id = id
  BY <1>0
<1>3. \A i, k \in found : i = k
  BY <1>0, <1>2, SMT DEF UniqueIds
<1>4. CASE found = {}
  <2>1. id \notin GdtIds(table)
    BY <1>0, <1>4, ZenonT(60) DEF GdtIds
  <2>2. At(table, id, bf_gdt_find(id))
    BY <1>1, <1>4, <2>1 DEF At
  <2> QED
    BY <1>0, <2>2, FindFilter, OneSlot
<1>5. CASE found # {}
  <2>1. PICK i : i \in found
    BY <1>5
  <2> HIDE DEF found
  <2>2. i \in Nat /\ \A k \in found : i <= k
    BY <1>0, <1>2, <1>3, <2>1, SMT
  <2>3. bf_gdt_find(id) \in found
    BY <1>1, <1>5, <2>1, <2>2
  <2>4. At(table, id, bf_gdt_find(id))
    BY <1>0, <1>2, <2>3 DEF At
  <2> QED
    BY <1>0, <2>4, FindFilter, OneSlot
<1> QED
  BY <1>4, <1>5

\* Table h is table g with the bits of filter bf in slot i.
IsSet(g, h, i, bf) ==
    /\ h \in bf_gdt /\ UniqueIds(h) /\ WithinCapacity(h)
    /\ Len(h) = Len(g)
    /\ \A k \in (1 .. Len(g)) \ {i} : h[k] = g[k]
    /\ h[i].bf_id = g[i].bf_id /\ h[i].port_no = g[i].port_no /\ h[i].array = bf.array

\* Table h is table g with filter bf after the others.
IsNew(g, h, bf) ==
    /\ h \in bf_gdt /\ UniqueIds(h) /\ WithinCapacity(h)
    /\ Len(h) = Len(g) + 1
    /\ \A k \in 1 .. Len(g) : h[k] = g[k]
    /\ h[Len(g) + 1] = bf

\* Table h is table g with its last filter in slot i.
IsDel(g, h, i) ==
    /\ h \in bf_gdt /\ UniqueIds(h) /\ WithinCapacity(h)
    /\ Len(h) = Len(g) - 1
    /\ \A k \in 1 .. Len(g) - 1 : h[k] = IF k = i THEN g[Len(g)] ELSE g[k]

\* bf_gdt_update_filter copies the bits of a filter the table has ...
LEMMA SetTable ==
    ASSUME NEW g \in bf_gdt, UniqueIds(g), WithinCapacity(g), NEW bf \in bloom_filter, NEW i,
           i = bf_gdt_find_filter(g, bf.bf_id), i # 0
    PROVE  i \in 1 .. Len(g) /\ g[i].bf_id = bf.bf_id /\ IsSet(g, bf_gdt_update_filter(g, bf), i, bf)
<1>0. /\ DOMAIN g = 1 .. Len(g) /\ Len(g) \in Nat
      /\ \A k \in 1 .. Len(g) : g[k] \in bloom_filter
  BY TableFacts
<1>1. i \in 1 .. Len(g) /\ g[i].bf_id = bf.bf_id
  BY FindFilter DEF At
<1>2. PICK e, h : e = [g[i] EXCEPT !.array = bf.array] /\ h = bf_gdt_update_filter(g, bf)
  OBVIOUS
<1>3. h = [g EXCEPT ![i] = e]
  BY <1>2 DEF bf_gdt_update_filter
<1>4. g[i] \in bloom_filter
  BY <1>0, <1>1
<1>5. e \in bloom_filter /\ e.bf_id = g[i].bf_id /\ e.port_no = g[i].port_no /\ e.array = bf.array
  BY <1>2, <1>4, SMT DEF bloom_filter
<1>6. /\ h \in bf_gdt /\ Len(h) = Len(g)
      /\ \A j \in 1 .. Len(g) : h[j] = IF j = i THEN e ELSE g[j]
  BY <1>1, <1>3, <1>5, ExceptSeq, SMT DEF bf_gdt
<1>7. DOMAIN h = 1 .. Len(g) /\ \A j \in 1 .. Len(g) : h[j].bf_id = g[j].bf_id
  BY <1>1, <1>5, <1>6, TableFacts
<1>8. UniqueIds(h)
  BY <1>0, <1>7 DEF UniqueIds
<1>9. WithinCapacity(h)
  BY <1>6 DEF WithinCapacity
<1>10. /\ h[i].bf_id = g[i].bf_id /\ h[i].port_no = g[i].port_no /\ h[i].array = bf.array
       /\ \A k \in (1 .. Len(g)) \ {i} : h[k] = g[k]
  BY <1>1, <1>5, <1>6
<1>11. IsSet(g, h, i, bf)
  BY <1>6, <1>8, <1>9, <1>10 DEF IsSet
<1> QED
  BY <1>1, <1>2, <1>11

\* ... and puts another one after those it has, if there is room.
LEMMA NewTable ==
    ASSUME NEW g \in bf_gdt, UniqueIds(g), NEW bf \in bloom_filter,
           bf_gdt_find_filter(g, bf.bf_id) = 0, Len(g) < BF_GDT_MAX_FILTERS
    PROVE  IsNew(g, bf_gdt_update_filter(g, bf), bf)
<1>0. DOMAIN g = 1 .. Len(g) /\ Len(g) \in Nat
  BY TableFacts
<1>1. bf.bf_id \notin GdtIds(g)
  BY <1>0, FindFilter, SMT DEF At
<1>2. \A k \in 1 .. Len(g) : g[k].bf_id # bf.bf_id
  BY <1>0, <1>1 DEF GdtIds
<1>3. ~GdtFull(g)
  BY <1>0, BfGdtAssumption, SMT DEF GdtFull
<1>4. PICK h : h = bf_gdt_update_filter(g, bf)
  OBVIOUS
<1>5. h = Append(g, bf)
  BY <1>3, <1>4 DEF bf_gdt_update_filter, bf_gdt_insert_filter
<1>6. /\ h \in bf_gdt /\ Len(h) = Len(g) + 1
      /\ \A k \in 1 .. Len(g) : h[k] = g[k]
      /\ h[Len(g) + 1] = bf
  BY <1>5, AppendProperties, SMT DEF bf_gdt
<1>7. DOMAIN h = 1 .. Len(g) + 1
  BY <1>6, TableFacts
<1>8. UniqueIds(h)
  BY <1>0, <1>2, <1>6, <1>7, SMT DEF UniqueIds
<1>9. WithinCapacity(h)
  BY <1>0, <1>6, BfGdtAssumption, SMT DEF WithinCapacity
<1>10. IsNew(g, h, bf)
  BY <1>6, <1>8, <1>9 DEF IsNew
<1> QED
  BY <1>4, <1>10

\* bf_gdt_del_filter moves the last filter into the slot of the deleted one.
LEMMA DelTable ==
    ASSUME NEW g \in bf_gdt, UniqueIds(g), WithinCapacity(g), NEW id, NEW i,
           i = bf_gdt_find_filter(g, id), i # 0
    PROVE  i \in 1 .. Len(g) /\ IsDel(g, bf_gdt_del_filter(g, id), i)
<1>0. /\ DOMAIN g = 1 .. Len(g) /\ Len(g) \in Nat
      /\ \A k \in 1 .. Len(g) : g[k] \in bloom_filter
  BY TableFacts
<1>1. i \in 1 .. Len(g)
  BY FindFilter DEF At
<1>2. PICK h : h = bf_gdt_del_filter(g, id)
  OBVIOUS
<1>3. h = [j \in 1 .. Len(g) - 1 |-> IF j = i THEN g[Len(g)] ELSE g[j]]
  BY <1>2 DEF bf_gdt_del_filter
<1>4. /\ \A k \in 1 .. Len(g) - 1 : h[k] = IF k = i THEN g[Len(g)] ELSE g[k]
      /\ DOMAIN h = 1 .. Len(g) - 1
  BY <1>3
<1>5. Len(g) - 1 \in Nat /\ \A k \in 1 .. Len(g) - 1 : k \in 1 .. Len(g) /\ k # Len(g)
  <2>1. PICK n : n = Len(g)
    OBVIOUS
  <2>2. n \in Nat /\ i \in 1 .. n
    BY <1>0, <1>1, <2>1
  <2>3. n - 1 \in Nat /\ \A k \in 1 .. n - 1 : k \in 1 .. n /\ k # n
    BY ONLY <2>2, SMT
  <2> QED
    BY <2>1, <2>3
<1>6. Len(g) \in 1 .. Len(g)
  BY <1>0, <1>1, SMT
<1>7. \A k \in 1 .. Len(g) - 1 : h[k] \in bloom_filter
  BY <1>0, <1>4, <1>5, <1>6
<1>8. h \in [1 .. Len(g) - 1 -> bloom_filter]
  BY <1>3, <1>4, <1>7
<1>9. h \in bf_gdt /\ Len(h) = Len(g) - 1
  <2>1. Len(g) - 1 \in Nat
    BY <1>5, Zenon
  <2>2. h \in Seq(bloom_filter) /\ Len(h) = Len(g) - 1
    BY ONLY <1>8, <2>1, SMT
  <2> QED
    BY <2>2, Zenon DEF bf_gdt
<1>10. UniqueIds(h)
  <2> SUFFICES ASSUME NEW j \in 1 .. Len(g) - 1, NEW k \in 1 .. Len(g) - 1, h[j].bf_id = h[k].bf_id
               PROVE  j = k
    BY <1>4 DEF UniqueIds
  <2>1. PICK x, y : x = (IF j = i THEN Len(g) ELSE j) /\ y = (IF k = i THEN Len(g) ELSE k)
    OBVIOUS
  <2>2. h[j] = g[x] /\ h[k] = g[y] /\ x \in DOMAIN g /\ y \in DOMAIN g
    BY <1>0, <1>4, <1>5, <1>6, <2>1
  <2>3. x = y
    BY <2>2 DEF UniqueIds
  <2>4. j # Len(g) /\ k # Len(g)
    BY <1>5
  <2> QED
    BY <2>1, <2>3, <2>4
<1>11. WithinCapacity(h)
  BY <1>0, <1>9, BfGdtAssumption, SMT DEF WithinCapacity
<1>12. IsDel(g, h, i)
  BY <1>4, <1>9, <1>10, <1>11 DEF IsDel
<1> QED
  BY <1>1, <1>2, <1>12
-----------------------------------------------------------------------------
\* Commands and the slots.

\* A filter that is pushed is a filter; no command is no operation.
LEMMA PushedFilter ==
    ASSUME NEW bf \in Pushed
    PROVE  bf \in bloom_filter /\ bf.bf_id \in Id /\ bf.port_no \in Port /\ bf.array \subseteq Bit
BY DatapathAssumption, Zenon DEF Pushed, bloom_filter, Port

LEMMA NoCommandOp == NoCommand.op = "none" /\ NoCommand \in CmdObj
BY BfGdtAssumption, SMT DEF NoCommand, CmdObj

\* bf_create makes an empty filter.
LEMMA Created ==
    ASSUME NEW id \in Id, NEW port \in Port
    PROVE  /\ bf_create(id, port) \in bloom_filter
           /\ bf_create(id, port).bf_id = id /\ bf_create(id, port).port_no = port
           /\ bf_create(id, port).array = {}
BY SMT DEF bf_create, bloom_filter

\* While a command that deletes nothing runs, what a search can reach is
\* allocated, and is the filter whose id the table has there.
LEMMA Reach ==
    ASSUME Kernel, cmd.op \in {"none", "add", "copy"}
    PROVE  /\ nbf \in Nat /\ Len(table) \in Nat /\ nbf <= Len(table) /\ DOMAIN table = 1 .. Len(table)
           /\ \A k \in 1 .. nbf : k \in Slot /\ k \in DOMAIN table
           /\ \A k \in 1 .. nbf :
                bf_array[k] # NULL =>
                    /\ bf_array[k] \in kmem /\ bf_array[k] \in Ptr
                    /\ filt[bf_array[k]].bf_id = table[k].bf_id
<1>0. /\ Len(table) \in Nat /\ DOMAIN table = 1 .. Len(table)
      /\ nbf \in 0 .. BF_GDT_MAX_FILTERS /\ kmem \subseteq Ptr
      /\ \A k \in 1 .. Len(table) : table[k] \in bloom_filter
  BY TableFacts DEF Kernel, Typed
<1>1. nbf \in Nat /\ \A k \in 1 .. nbf : k \in Slot
  BY <1>0, BfGdtAssumption, SMT DEF Slot
<1>2. CASE cmd.op = "none"
  <2>1. nbf = Len(table) /\ \A k \in 1 .. nbf : Same(k)
    BY <1>2 DEF Kernel, SlotsOK, Settled
  <2> QED
    BY <1>0, <1>1, <2>1, SMT DEF Same
<1>3. CASE cmd.op = "add"
  <2>1. Adding
    BY <1>3 DEF Kernel, SlotsOK
  <2>2. /\ cmd.i = Len(table) /\ nbf \in {cmd.i - 1, cmd.i} /\ cmd.at \in kmem
        /\ \A k \in 1 .. cmd.i - 1 : Same(k)
        /\ bf_array[cmd.i] \in {NULL, cmd.at}
        /\ filt[cmd.at] = bf_create(cmd.bf.bf_id, cmd.bf.port_no) /\ cmd.bf = table[cmd.i]
    BY <2>1 DEF Adding
  <2>3. filt[cmd.at].bf_id = table[cmd.i].bf_id
    BY <2>2, SMT DEF bf_create
  <2>4. nbf <= Len(table) /\ \A k \in 1 .. nbf : k \in 1 .. cmd.i - 1 \/ k = cmd.i
    <3>1. cmd.i = Len(table) /\ nbf \in {cmd.i - 1, cmd.i} /\ Len(table) \in Nat /\ nbf \in Nat
      BY <1>0, <1>1, <2>2
    <3> QED
      BY ONLY <3>1, SMT
  <2>5. \A k \in 1 .. nbf : k \in DOMAIN table
    BY ONLY <1>0, <1>1, <2>4, SMT
  <2>6. ASSUME NEW k \in 1 .. nbf, bf_array[k] # NULL
        PROVE  bf_array[k] \in kmem /\ filt[bf_array[k]].bf_id = table[k].bf_id
    <3>1. CASE k \in 1 .. cmd.i - 1
      BY <2>2, <3>1 DEF Same
    <3>2. CASE k = cmd.i
      BY <2>2, <2>3, <2>6, <3>2
    <3> QED
      BY <2>4, <3>1, <3>2
  <2> QED
    BY <1>0, <1>1, <2>4, <2>5, <2>6
<1>4. CASE cmd.op = "copy"
  <2>1. Copying
    BY <1>4 DEF Kernel, SlotsOK
  <2>2. /\ nbf = Len(table) /\ cmd.at \in kmem /\ bf_array[cmd.i] = cmd.at
        /\ \A k \in (1 .. nbf) \ {cmd.i} : Same(k)
        /\ filt[cmd.at].bf_id = table[cmd.i].bf_id
    BY <2>1 DEF Copying
  <2>3. nbf <= Len(table)
    BY <1>1, <2>2, SMT
  <2>4. ASSUME NEW k \in 1 .. nbf
        PROVE  bf_array[k] \in kmem /\ filt[bf_array[k]].bf_id = table[k].bf_id
    <3>1. CASE k = cmd.i
      BY <2>2, <3>1
    <3>2. CASE k # cmd.i
      BY <2>2, <3>2 DEF Same
    <3> QED
      BY <3>1, <3>2
  <2> QED
    BY <1>0, <1>1, <2>2, <2>3, <2>4
<1> QED
  BY <1>2, <1>3, <1>4

\* A step that leaves the table alone, but for the death of the kernel.
LEMMA SameKernel ==
    ASSUME Kernel, UNCHANGED <<kmem, filt, nbf, bf_array, cmd, table>>, gdt' \in {gdt, "oops"}
    PROVE  Kernel'
<1>0. /\ kmem' = kmem /\ filt' = filt /\ nbf' = nbf /\ bf_array' = bf_array
      /\ cmd' = cmd /\ table' = table
  OBVIOUS
<1>1. Typed'
  BY <1>0 DEF Kernel, Typed
<1>2. /\ Settled => Settled'
      /\ Moved => Moved'
  BY <1>0 DEF Settled, Moved, Same, Apart, Free
<1>3. Adding => Adding'
  BY <1>0, ZenonT(60) DEF Adding, Same, Apart, Free
<1>4. Copying => Copying'
  BY <1>0, ZenonT(60) DEF Copying, Same, Apart, Free
<1>5. Moving => Moving'
  BY <1>0, ZenonT(60) DEF Moving, Same, Apart, Free
<1>6. SlotsOK'
  BY <1>0, <1>2, <1>3, <1>4, <1>5 DEF Kernel, SlotsOK
<1> QED
  BY <1>1, <1>6 DEF Kernel

LEMMA FlushKernel ==
    ASSUME Kernel, flush_bf_gdt
    PROVE  Kernel'
<1>0. /\ kmem' = kmem /\ filt' = filt /\ nbf' = nbf /\ bf_array' = bf_array
      /\ cmd' = cmd /\ table' = table /\ cmd = NoCommand
      /\ gdt' \in {"null", "oops"} /\ (gdt' = "null" => nbf = 0)
  BY DEF flush_bf_gdt
<1>1. Typed'
  BY <1>0 DEF Kernel, Typed
<1>2. Settled'
  BY <1>0, NoCommandOp DEF Kernel, SlotsOK, Settled, Same, Apart, Free
<1>3. cmd' = NoCommand /\ cmd'.op = "none" /\ (gdt' = "null" => nbf' = 0)
  BY <1>0, NoCommandOp
<1>4. SlotsOK'
  BY <1>2, <1>3 DEF SlotsOK
<1> QED
  BY <1>1, <1>4 DEF Kernel

\* A filter that is in the table is going to be copied.
LEMMA SetKernel ==
    ASSUME Kernel, NEW bf \in Pushed, cmd_set(bf)
    PROVE  /\ Kernel' /\ cmd'.op = "copy"
           /\ UNCHANGED <<kmem, filt, nbf, bf_array>>
           /\ \E i : IsSet(table, table', i, bf)
<1>1. PICK i : i = bf_gdt_find(bf.bf_id)
  OBVIOUS
<1>2. /\ gdt = "table" /\ cmd = NoCommand /\ i # 0
      /\ cmd' = [op |-> "copy", bf |-> bf, at |-> bf_array[i], i |-> i, left |-> Bit]
      /\ table' = bf_gdt_update_filter(table, bf)
      /\ gdt' = gdt /\ kmem' = kmem /\ filt' = filt /\ nbf' = nbf /\ bf_array' = bf_array
  BY <1>1 DEF cmd_set
<1>3. Typed /\ Settled /\ bf \in bloom_filter
  BY <1>2, NoCommandOp, PushedFilter DEF Kernel, SlotsOK
<1>4. i = bf_gdt_find_filter(table, bf.bf_id)
  BY <1>1, <1>3, Find
<1>5. i \in 1 .. Len(table) /\ IsSet(table, table', i, bf)
  BY <1>2, <1>3, <1>4, SetTable DEF Typed
<1>6. nbf = Len(table) /\ nbf \in 0 .. BF_GDT_MAX_FILTERS /\ i \in 1 .. nbf
  BY <1>3, <1>5 DEF Settled, Typed
<1>7. i \in Slot
  BY <1>6, BfGdtAssumption, SMT DEF Slot
<1>8. bf_array[i] \in kmem /\ filt[bf_array[i]] = table[i] /\ bf_array[i] \in Ptr
  BY <1>3, <1>6 DEF Settled, Same, Typed
<1>9. /\ cmd'.op = "copy" /\ cmd'.bf = bf /\ cmd'.at = bf_array[i] /\ cmd'.i = i /\ cmd'.left = Bit
      /\ cmd' \in CmdObj
  BY ONLY <1>2, <1>3, <1>7, <1>8, SMT DEF CmdObj, Slot
<1>10. Typed'
  BY <1>2, <1>3, <1>5, <1>9 DEF Typed, IsSet
<1>11. \A k \in (1 .. nbf) \ {i} : Same(k)'
  BY <1>2, <1>3, <1>5, <1>6 DEF Settled, Same, IsSet
<1>12. Apart(nbf)' /\ Free(nbf)'
  BY <1>2, <1>3, ZenonT(30) DEF Settled, Apart, Free
<1>13. Copying'
  BY <1>2, <1>5, <1>6, <1>8, <1>9, <1>11, <1>12 DEF Copying, IsSet
<1>14. SlotsOK'
  BY <1>2, <1>9, <1>13 DEF SlotsOK
<1> QED
  BY <1>2, <1>5, <1>9, <1>10, <1>14 DEF Kernel

\* A filter that is not is created.
LEMMA NewKernel ==
    ASSUME Kernel, NEW bf \in Pushed, NEW p \in Ptr, cmd_new(bf, p)
    PROVE  /\ Kernel' /\ cmd'.op = "add"
           /\ UNCHANGED <<nbf, bf_array>>
           /\ \A q \in kmem : filt'[q] = filt[q]
           /\ nbf = Len(table) /\ IsNew(table, table', bf)
<1>1. /\ gdt = "table" /\ cmd = NoCommand /\ bf_gdt_find(bf.bf_id) = 0 /\ nbf < BF_GDT_MAX_FILTERS
      /\ p \notin kmem /\ kmem' = kmem \cup {p}
      /\ filt' = [filt EXCEPT ![p] = bf_create(bf.bf_id, bf.port_no)]
      /\ cmd' = [op |-> "add", bf |-> bf, at |-> p, i |-> nbf + 1, left |-> {"slot", "count"}]
      /\ table' = bf_gdt_update_filter(table, bf)
      /\ gdt' = gdt /\ nbf' = nbf /\ bf_array' = bf_array
  BY DEF cmd_new
<1>2. Typed /\ Settled /\ bf \in bloom_filter /\ bf.bf_id \in Id /\ bf.port_no \in Port
  BY <1>1, NoCommandOp, PushedFilter DEF Kernel, SlotsOK
<1>3. /\ nbf = Len(table) /\ nbf \in 0 .. BF_GDT_MAX_FILTERS /\ table \in bf_gdt /\ UniqueIds(table)
      /\ filt \in [Ptr -> bloom_filter] /\ kmem \subseteq Ptr
  BY <1>2 DEF Settled, Typed
<1>4. IsNew(table, table', bf)
  BY <1>1, <1>2, <1>3, Find, NewTable
<1>5. /\ table' \in bf_gdt /\ UniqueIds(table') /\ WithinCapacity(table')
      /\ Len(table') = nbf + 1 /\ table'[nbf + 1] = bf
      /\ \A k \in 1 .. nbf : table'[k] = table[k]
  BY <1>3, <1>4 DEF IsNew
<1>6. nbf \in Nat /\ nbf + 1 \in Slot /\ nbf + 1 \in 0 .. BF_GDT_MAX_FILTERS /\ (nbf + 1) - 1 = nbf
  BY ONLY <1>1, <1>3, BfGdtAssumption, SMT DEF Slot
<1>7. PICK e : e = bf_create(bf.bf_id, bf.port_no)
  OBVIOUS
<1>8. e \in bloom_filter
  BY <1>2, <1>7, Created
<1>9. filt' \in [Ptr -> bloom_filter] /\ filt'[p] = e /\ \A q \in kmem : filt'[q] = filt[q]
  BY <1>1, <1>3, <1>7, <1>8
<1>10. /\ cmd'.op = "add" /\ cmd'.bf = bf /\ cmd'.at = p /\ cmd'.i = nbf + 1 /\ cmd'.left = {"slot", "count"}
       /\ cmd' \in CmdObj
  BY <1>1, <1>2, <1>6, Zenon DEF CmdObj
<1>11. Typed'
  BY <1>1, <1>2, <1>5, <1>9, <1>10 DEF Typed
<1>12. \A k \in 1 .. nbf : Same(k)' /\ bf_array'[k] # p
  <2> SUFFICES ASSUME NEW k \in 1 .. nbf PROVE Same(k)' /\ bf_array'[k] # p
    OBVIOUS
  <2>1. bf_array[k] \in kmem /\ filt[bf_array[k]] = table[k]
    BY <1>2 DEF Settled, Same
  <2>2. bf_array'[k] \in kmem' /\ filt'[bf_array'[k]] = table'[k] /\ bf_array'[k] # p
    BY <1>1, <1>5, <1>9, <2>1
  <2> QED
    BY <2>2 DEF Same
<1>13. Apart(nbf)' /\ bf_array'[nbf + 1] = NULL
  <2>1. nbf + 1 > nbf
    BY <1>6, SMT
  <2>2. Apart(nbf)'
    BY <1>1, <1>2, ZenonT(60) DEF Settled, Apart
  <2>3. bf_array[nbf + 1] = NULL
    BY <1>2, <1>6, <2>1 DEF Settled, Free
  <2> QED
    BY <1>1, <2>2, <2>3
<1>14. Free(nbf + 1)'
  <2>1. \A k \in Slot : k > nbf + 1 => k > nbf
    BY <1>6, SMT DEF Slot
  <2> QED
    BY <1>1, <1>2, <2>1 DEF Settled, Free
<1>15. \A k \in 1 .. cmd'.i - 1 : Same(k)' /\ bf_array'[k] # cmd'.at
  BY <1>6, <1>10, <1>12
<1>16. Apart(cmd.i - 1)' /\ Free(cmd.i)'
  <2>1. cmd'.i = nbf' + 1 /\ cmd'.i - 1 = nbf'
    BY <1>1, <1>6, <1>10
  <2> QED
    BY <1>13, <1>14, <2>1 DEF Apart, Free
<1>17. cmd'.i = Len(table') /\ cmd'.i \in Slot /\ cmd'.bf = table'[cmd'.i]
  BY <1>5, <1>6, <1>10
<1>18. cmd'.at \in kmem' /\ filt'[cmd'.at] = bf_create(cmd'.bf.bf_id, cmd'.bf.port_no)
  BY <1>1, <1>7, <1>9, <1>10
<1>19. /\ cmd'.left \in (SUBSET {"slot", "count"}) \ {{}} /\ "slot" \in cmd'.left /\ "count" \in cmd'.left
       /\ bf_array'[cmd'.i] = NULL /\ nbf' = cmd'.i - 1
  BY <1>1, <1>6, <1>10, <1>13
<1>20. Adding'
  BY <1>15, <1>16, <1>17, <1>18, <1>19 DEF Adding
<1>21. SlotsOK'
  BY <1>1, <1>10, <1>20 DEF SlotsOK
<1> QED
  BY <1>1, <1>3, <1>4, <1>9, <1>10, <1>11, <1>21 DEF Kernel

\* A store of bf_array[nbf++] = bf ends the creation or leaves the other one.
LEMMA StoredWhat ==
    ASSUME Typed, NEW what \in {"slot", "count"}, what \in cmd.left, Stored(what), Adding
    PROVE  /\ cmd' \in CmdObj
           /\ cmd'.bf = cmd.bf /\ cmd'.at = cmd.at /\ cmd'.i = cmd.i
           /\ \/ cmd'.op = "copy" /\ cmd'.left = Bit /\ cmd.left = {what}
              \/ /\ cmd'.op = cmd.op
                 /\ cmd'.left = cmd.left \ {what} /\ cmd'.left \in (SUBSET {"slot", "count"}) \ {{}}
<1>1. cmd \in CmdObj /\ cmd.left \in SUBSET {"slot", "count"}
  BY DEF Typed, Adding
<1>2. cmd' = IF cmd.left = {what} THEN [cmd EXCEPT !.op = "copy", !.left = Bit]
             ELSE [cmd EXCEPT !.left = cmd.left \ {what}]
  BY DEF Stored
<1>3. CASE cmd.left = {what}
  <2>1. cmd' = [cmd EXCEPT !.op = "copy", !.left = Bit]
    BY <1>2, <1>3
  <2>a. PICK left : left = Bit
    OBVIOUS
  <2>b. left \in SUBSET (Bit \cup {"slot", "count"}) /\ cmd' = [cmd EXCEPT !.op = "copy", !.left = left]
    BY <2>1, <2>a
  <2>2. /\ cmd' \in CmdObj /\ cmd'.bf = cmd.bf /\ cmd'.at = cmd.at /\ cmd'.i = cmd.i
        /\ cmd'.op = "copy" /\ cmd'.left = Bit
    <3>1. PICK d : d = [cmd EXCEPT !.op = "copy"]
      OBVIOUS
    <3>2. d \in CmdObj /\ d.bf = cmd.bf /\ d.at = cmd.at /\ d.i = cmd.i /\ d.op = "copy"
      BY ONLY <1>1, <3>1, SMT DEF CmdObj
    <3>3. cmd' = [d EXCEPT !.left = left]
      BY <2>b, <3>1
    <3>4. /\ cmd' \in CmdObj /\ cmd'.bf = d.bf /\ cmd'.at = d.at /\ cmd'.i = d.i
          /\ cmd'.op = d.op /\ cmd'.left = left
      BY ONLY <2>b, <3>2, <3>3, Zenon DEF CmdObj
    <3> QED
      BY <2>a, <3>2, <3>4
  <2> QED
    BY <1>3, <2>2
<1>4. CASE cmd.left # {what}
  <2>1. cmd' = [cmd EXCEPT !.left = cmd.left \ {what}]
    BY <1>2, <1>4
  <2>a. PICK left : left = cmd.left \ {what}
    OBVIOUS
  <2>b. left \in SUBSET (Bit \cup {"slot", "count"}) /\ cmd' = [cmd EXCEPT !.left = left]
    BY <1>1, <2>1, <2>a
  <2>2. /\ cmd' \in CmdObj /\ cmd'.bf = cmd.bf /\ cmd'.at = cmd.at /\ cmd'.i = cmd.i
        /\ cmd'.op = cmd.op /\ cmd'.left = cmd.left \ {what}
    <3>1. /\ cmd' \in CmdObj /\ cmd'.bf = cmd.bf /\ cmd'.at = cmd.at /\ cmd'.i = cmd.i
          /\ cmd'.op = cmd.op /\ cmd'.left = left
      BY <1>1, <2>b, Zenon DEF CmdObj
    <3> QED
      BY <2>a, <3>1
  <2>3. cmd.left \ {what} # {}
    BY <1>4
  <2> QED
    BY <1>1, <2>2, <2>3
<1> QED
  BY <1>3, <1>4

\* Once the slot and the count are stored the bits are copied.
LEMMA StoreKernel ==
    ASSUME Kernel, store_slot \/ store_count
    PROVE  /\ Kernel' /\ cmd'.op \in {"add", "copy"} /\ Adding /\ Typed
           /\ cmd'.i = cmd.i
           /\ UNCHANGED <<kmem, filt, table, scan, seen>>
           /\ \/ nbf' = nbf /\ bf_array[cmd.i] = NULL /\ bf_array'[cmd.i] = cmd.at
              \/ nbf = cmd.i - 1 /\ nbf' = cmd.i /\ bf_array'[cmd.i] = bf_array[cmd.i]
           /\ \A k \in Slot : k # cmd.i => bf_array'[k] = bf_array[k]
<1>1. PICK what \in {"slot", "count"} :
        /\ cmd.op = "add" /\ what \in cmd.left /\ Stored(what)
        /\ bf_array' = IF what = "slot" THEN [bf_array EXCEPT ![cmd.i] = cmd.at] ELSE bf_array
        /\ nbf' = IF what = "count" THEN cmd.i ELSE nbf
        /\ gdt' = gdt /\ kmem' = kmem /\ filt' = filt /\ table' = table /\ scan' = scan /\ seen' = seen
  BY DEF store_slot, store_count
<1>2. Typed /\ Adding
  BY <1>1 DEF Kernel, SlotsOK
<1>3. /\ cmd' \in CmdObj
      /\ cmd'.bf = cmd.bf /\ cmd'.at = cmd.at /\ cmd'.i = cmd.i
      /\ \/ cmd'.op = "copy" /\ cmd'.left = Bit /\ cmd.left = {what}
         \/ /\ cmd'.op = "add"
            /\ cmd'.left = cmd.left \ {what} /\ cmd'.left \in (SUBSET {"slot", "count"}) \ {{}}
  BY <1>1, <1>2, StoredWhat
<1>4. /\ bf_array \in [Slot -> Ptr \cup {NULL}] /\ nbf \in 0 .. BF_GDT_MAX_FILTERS
      /\ cmd.i \in Slot /\ cmd.at \in kmem /\ kmem \subseteq Ptr /\ cmd.i = Len(table) /\ cmd.bf = table[cmd.i]
      /\ bf_array[cmd.i] = IF "slot" \in cmd.left THEN NULL ELSE cmd.at
      /\ nbf = IF "count" \in cmd.left THEN cmd.i - 1 ELSE cmd.i
      /\ filt[cmd.at] = bf_create(cmd.bf.bf_id, cmd.bf.port_no)
      /\ table \in bf_gdt
  BY <1>2 DEF Typed, Adding
<1>5. /\ cmd.i \in Nat /\ cmd.i \in 0 .. BF_GDT_MAX_FILTERS /\ cmd.i \in 1 .. cmd.i
      /\ \A k \in 1 .. cmd.i - 1 : k # cmd.i /\ k \in Slot
      /\ \A k \in Slot : k > cmd.i => k # cmd.i
      /\ \A k \in 1 .. cmd.i : k \in 1 .. cmd.i - 1 \/ k = cmd.i
  BY <1>4, BfGdtAssumption, SMT DEF Slot
<1>6. /\ bf_array' \in [Slot -> Ptr \cup {NULL}] /\ nbf' \in 0 .. BF_GDT_MAX_FILTERS
      /\ \A k \in Slot : k # cmd.i => bf_array'[k] = bf_array[k]
      /\ what = "slot" => bf_array'[cmd.i] = cmd.at
      /\ what = "count" => bf_array'[cmd.i] = bf_array[cmd.i]
  BY <1>1, <1>4, <1>5
<1>7. Typed'
  BY <1>1, <1>2, <1>3, <1>6 DEF Typed
<1>8. \A k \in 1 .. cmd.i - 1 : Same(k)' /\ bf_array'[k] # cmd.at
  BY <1>1, <1>2, <1>5, <1>6 DEF Adding, Same
<1>9. Apart(cmd.i - 1)'
  <2>1. Apart(cmd.i - 1)
    BY <1>2 DEF Adding
  <2>2. \A k \in 1 .. cmd.i - 1 : bf_array'[k] = bf_array[k]
    BY <1>5, <1>6
  <2>3. \A j, k \in 1 .. cmd.i - 1 : bf_array'[j] = bf_array'[k] => j = k
    BY <2>1, <2>2 DEF Apart
  <2> QED
    BY <1>3, <2>3 DEF Apart
<1>10. Free(cmd.i)'
  BY <1>2, <1>3, <1>5, <1>6 DEF Adding, Free
<1>10a. gdt' # "null"
  BY <1>1, NoCommandOp DEF Kernel, SlotsOK
<1>11. ASSUME cmd'.op = "add" PROVE SlotsOK'
  <2>1. cmd'.left = cmd.left \ {what} /\ cmd'.left \in (SUBSET {"slot", "count"}) \ {{}}
    BY <1>3, <1>11
  <2>2. bf_array'[cmd.i] = IF "slot" \in cmd'.left THEN NULL ELSE cmd.at
    BY <1>1, <1>4, <1>6, <2>1
  <2>3. nbf' = IF "count" \in cmd'.left THEN cmd.i - 1 ELSE cmd.i
    BY <1>1, <1>4, <2>1
  <2>4. Adding'
    BY <1>1, <1>3, <1>4, <1>8, <1>9, <1>10, <2>1, <2>2, <2>3, ZenonT(30) DEF Adding
  <2> QED
    BY <1>10a, <1>11, <2>4 DEF SlotsOK
<1>12. ASSUME cmd'.op = "copy" PROVE SlotsOK'
  <2>1. cmd'.left = Bit /\ cmd.left = {what}
    BY <1>3, <1>12
  <2>2. nbf' = cmd.i /\ bf_array'[cmd.i] = cmd.at
    BY <1>1, <1>4, <1>6, <2>1
  <2>3. Apart(nbf)'
    <3> SUFFICES ASSUME NEW j \in 1 .. cmd.i, NEW k \in 1 .. cmd.i, bf_array'[j] = bf_array'[k]
                 PROVE  j = k
      BY <2>2 DEF Apart
    <3>1. CASE j = cmd.i \/ k = cmd.i
      BY <1>5, <1>8, <2>2, <3>1
    <3>2. CASE j \in 1 .. cmd.i - 1 /\ k \in 1 .. cmd.i - 1
      BY <1>3, <1>9, <3>2 DEF Apart
    <3> QED
      BY <1>5, <3>1, <3>2
  <2>4. \A k \in (1 .. nbf') \ {cmd'.i} : Same(k)'
    BY <1>3, <1>5, <1>8, <2>2
  <2>5. Free(nbf)'
    BY <1>3, <1>10, <2>2 DEF Free
  <2>7. filt[cmd.at].bf_id = table[cmd.i].bf_id /\ filt[cmd.at].port_no = table[cmd.i].port_no
    BY ONLY <1>4, SMT DEF bf_create
  <2>8. Copying'
    BY <1>1, <1>3, <1>4, <1>5, <2>1, <2>2, <2>3, <2>4, <2>5, <2>7 DEF Copying
  <2> QED
    BY <1>10a, <1>12, <2>8 DEF SlotsOK
<1>13. SlotsOK'
  BY <1>3, <1>11, <1>12
<1>14. \/ nbf' = nbf /\ bf_array[cmd.i] = NULL /\ bf_array'[cmd.i] = cmd.at
       \/ nbf = cmd.i - 1 /\ nbf' = cmd.i /\ bf_array'[cmd.i] = bf_array[cmd.i]
  BY <1>1, <1>4, <1>6
<1> QED
  BY <1>1, <1>2, <1>3, <1>6, <1>7, <1>13, <1>14 DEF Kernel

\* What a copied bit makes of a filter.
CopyOf(f, e, b) == e = [f EXCEPT !.array = CopyBit(f.array, b)]

LEMMA Copied ==
    ASSUME NEW f \in bloom_filter, NEW b \in Bit, NEW e, CopyOf(f, e, b)
    PROVE  /\ e \in bloom_filter /\ e.bf_id = f.bf_id /\ e.port_no = f.port_no
           /\ b \in e.array <=> b \in cmd.bf.array
           /\ \A x : x # b => (x \in e.array <=> x \in f.array)
<1>1. PICK a : a = CopyBit(f.array, b)
  OBVIOUS
<1>2. f.array \subseteq Bit
  BY SMT DEF bloom_filter
<1>3. a \in SUBSET Bit
  BY <1>1, <1>2 DEF CopyBit
<1>4. e \in bloom_filter /\ e.bf_id = f.bf_id /\ e.port_no = f.port_no /\ e.array = a
  BY <1>1, <1>3, Zenon DEF bloom_filter, CopyOf
<1>5. /\ b \in a <=> b \in cmd.bf.array
      /\ \A x : x # b => (x \in a <=> x \in f.array)
  BY <1>1 DEF CopyBit
<1> QED
  BY <1>4, <1>5

\* Filters with the same fields are the same.
LEMMA SameFilter ==
    ASSUME NEW e \in bloom_filter, NEW f \in bloom_filter, e.bf_id = f.bf_id, e.port_no = f.port_no,
           \A x \in Bit : x \in e.array <=> x \in f.array
    PROVE  e = f
<1>1. e.array \subseteq Bit /\ f.array \subseteq Bit
  BY Zenon DEF bloom_filter
<1>2. e.array = f.array
  BY <1>1
<1>3. /\ e = [bf_id |-> e.bf_id, port_no |-> e.port_no, array |-> e.array]
      /\ f = [bf_id |-> f.bf_id, port_no |-> f.port_no, array |-> f.array]
  BY Zenon DEF bloom_filter
<1> QED
  BY <1>2, <1>3

\* A bit is copied; with the last one the command is over.
LEMMA CopyKernel ==
    ASSUME Kernel, NEW b \in Bit, copy_bit(b)
    PROVE  /\ Kernel' /\ cmd'.op \in {"none", "copy"} /\ Copying /\ Typed
           /\ UNCHANGED <<kmem, nbf, bf_array, table, scan, seen>>
           /\ \A q \in Ptr \ {cmd.at} : filt'[q] = filt[q]
           /\ b \in filt'[cmd.at].array <=> b \in table[cmd.i].array
           /\ \A x : x # b => (x \in filt'[cmd.at].array <=> x \in filt[cmd.at].array)
<1>1. /\ cmd.op = "copy" /\ b \in cmd.left
      /\ filt' = [filt EXCEPT ![cmd.at].array = CopyBit(@, b)]
      /\ cmd' = IF cmd.left = {b} THEN NoCommand ELSE [cmd EXCEPT !.left = cmd.left \ {b}]
      /\ gdt' = gdt /\ kmem' = kmem /\ nbf' = nbf /\ bf_array' = bf_array /\ table' = table
      /\ scan' = scan /\ seen' = seen
  BY DEF copy_bit
<1>2. Typed /\ Copying /\ gdt' # "null"
  BY <1>1, NoCommandOp DEF Kernel, SlotsOK
<1>3. /\ cmd.at \in Ptr /\ filt \in [Ptr -> bloom_filter] /\ filt[cmd.at] \in bloom_filter
      /\ cmd \in CmdObj /\ cmd.left \subseteq Bit /\ cmd.i \in 1 .. nbf
      /\ bf_array[cmd.i] = cmd.at /\ nbf = Len(table) /\ table \in bf_gdt
      /\ cmd.at \in kmem /\ kmem \subseteq Ptr
  BY <1>2 DEF Typed, Copying
<1>4. PICK e : e = [filt[cmd.at] EXCEPT !.array = CopyBit(filt[cmd.at].array, b)]
  OBVIOUS
<1>5. filt' = [filt EXCEPT ![cmd.at] = e]
  BY <1>1, <1>4
<1>6. /\ e \in bloom_filter /\ e.bf_id = filt[cmd.at].bf_id /\ e.port_no = filt[cmd.at].port_no
      /\ b \in e.array <=> b \in cmd.bf.array
      /\ \A x : x # b => (x \in e.array <=> x \in filt[cmd.at].array)
  <2>1. PICK f : f = filt[cmd.at]
    OBVIOUS
  <2>2. f \in bloom_filter /\ CopyOf(f, e, b)
    BY <1>3, <1>4, <2>1 DEF CopyOf
  <2>3. /\ e \in bloom_filter /\ e.bf_id = f.bf_id /\ e.port_no = f.port_no
        /\ b \in e.array <=> b \in cmd.bf.array
        /\ \A x : x # b => (x \in e.array <=> x \in f.array)
    BY <2>2, Copied
  <2> QED
    BY <2>1, <2>3
<1>7. filt' \in [Ptr -> bloom_filter] /\ filt'[cmd.at] = e /\ \A q \in Ptr \ {cmd.at} : filt'[q] = filt[q]
  BY <1>3, <1>5, <1>6
<1>8. cmd.bf.array = table[cmd.i].array /\ e.bf_id = table[cmd.i].bf_id /\ e.port_no = table[cmd.i].port_no
  BY <1>2, <1>6 DEF Copying
<1>9. \A k \in (1 .. nbf) \ {cmd.i} : Same(k)'
  <2> SUFFICES ASSUME NEW k \in (1 .. nbf) \ {cmd.i} PROVE Same(k)'
    OBVIOUS
  <2>1. bf_array[k] \in kmem /\ filt[bf_array[k]] = table[k] /\ bf_array[k] # cmd.at
    BY <1>2, <1>3 DEF Copying, Same, Apart
  <2>2. filt'[bf_array[k]] = table[k]
    BY <1>3, <1>7, <2>1
  <2> QED
    BY <1>1, <2>1, <2>2 DEF Same
<1>10. Apart(nbf)' /\ Free(nbf)'
  BY <1>1, <1>2, ZenonT(60) DEF Copying, Apart, Free
<1>11. \A x \in Bit : x \notin cmd.left \/ x = b => (x \in e.array <=> x \in table[cmd.i].array)
  BY <1>2, <1>6, <1>8 DEF Copying
<1>12. ASSUME cmd.left = {b} PROVE Kernel' /\ cmd'.op \in {"none", "copy"}
  <2>1. cmd' = NoCommand /\ cmd'.op = "none" /\ cmd' \in CmdObj
    BY <1>1, <1>12, NoCommandOp
  <2>2. \A x \in Bit : x \in e.array <=> x \in table[cmd.i].array
    BY <1>11, <1>12
  <2>3. table[cmd.i] \in bloom_filter
    BY <1>3, TableFacts
  <2>4. e = table[cmd.i]
    BY <1>6, <1>8, <2>2, <2>3, SameFilter
  <2>5. ASSUME NEW k \in 1 .. nbf PROVE Same(k)'
    <3>1. CASE k = cmd.i
      BY <1>1, <1>3, <1>7, <2>4, <3>1 DEF Same
    <3> QED
      BY <1>9, <3>1
  <2>6. Settled'
    BY <1>1, <1>3, <1>10, <2>5 DEF Settled
  <2>7. SlotsOK'
    BY <1>2, <2>1, <2>6 DEF SlotsOK
  <2>8. Typed'
    BY <1>1, <1>2, <1>7, <2>1 DEF Typed
  <2> QED
    BY <2>1, <2>7, <2>8 DEF Kernel
<1>13. ASSUME cmd.left # {b} PROVE Kernel' /\ cmd'.op \in {"none", "copy"}
  <2>1. PICK left : left = cmd.left \ {b}
    OBVIOUS
  <2>2. left \in SUBSET (Bit \cup {"slot", "count"}) /\ cmd' = [cmd EXCEPT !.left = left]
    BY <1>1, <1>3, <1>13, <2>1
  <2>3. /\ cmd' \in CmdObj /\ cmd'.bf = cmd.bf /\ cmd'.at = cmd.at /\ cmd'.i = cmd.i
        /\ cmd'.op = cmd.op /\ cmd'.left = left
    BY ONLY <1>3, <2>2, Zenon DEF CmdObj
  <2>4. \A x \in Bit \ left : x \in e.array <=> x \in table[cmd.i].array
    BY <1>11, <2>1
  <2>5. Copying'
    <3>1. /\ nbf' = Len(table') /\ cmd'.i \in 1 .. nbf' /\ bf_array'[cmd'.i] = cmd'.at /\ cmd'.at \in kmem'
          /\ \A k \in (1 .. nbf') \ {cmd'.i} : Same(k)'
      <4>1. /\ nbf' = Len(table') /\ cmd'.i \in 1 .. nbf' /\ bf_array'[cmd'.i] = cmd'.at /\ cmd'.at \in kmem'
        <5>1. nbf' = Len(table') /\ bf_array'[cmd'.i] = cmd'.at /\ cmd'.at \in kmem'
          BY ONLY <1>1, <1>3, <2>3, SMT
        <5>2. cmd'.i \in 1 .. nbf'
          BY <1>1, <1>3, <2>3
        <5> QED
          BY <5>1, <5>2
      <4>2. \A k \in (1 .. nbf') \ {cmd'.i} : Same(k)'
        BY <1>1, <1>9, <2>3
      <4> QED
        BY <4>1, <4>2
    <3>2. /\ filt'[cmd'.at].bf_id = table'[cmd'.i].bf_id
          /\ filt'[cmd'.at].port_no = table'[cmd'.i].port_no
          /\ cmd'.bf.array = table'[cmd'.i].array
      BY <1>1, <1>7, <1>8, <2>3
    <3>3. /\ cmd'.left \subseteq Bit
          /\ \A x \in Bit \ cmd'.left : x \in filt'[cmd'.at].array <=> x \in table'[cmd'.i].array
      BY <1>1, <1>3, <1>7, <2>1, <2>3, <2>4
    <3> QED
      BY <1>10, <3>1, <3>2, <3>3 DEF Copying
  <2>6. SlotsOK'
    BY <1>1, <1>2, <2>3, <2>5 DEF SlotsOK
  <2>7. Typed'
    BY <1>1, <1>2, <1>7, <2>3 DEF Typed
  <2> QED
    BY <1>1, <2>3, <2>6, <2>7 DEF Kernel
<1>14. Kernel' /\ cmd'.op \in {"none", "copy"}
  BY <1>12, <1>13
<1> QED
  BY <1>1, <1>2, <1>6, <1>7, <1>8, <1>14

\* The steps of a deletion leave the slots as Moving and Moved say.
LEMMA DelKernel ==
    ASSUME Kernel, NEW id \in Id, cmd_del(id)
    PROVE  Kernel'
<1>1. PICK i : i = bf_gdt_find(id)
  OBVIOUS
<1>2. /\ gdt = "table" /\ cmd = NoCommand /\ i # 0
      /\ kmem' = kmem \ {bf_array[i]}
      /\ filt' = [filt EXCEPT ![bf_array[i]] = OldFilter]
      /\ cmd' = [op |-> "move", bf |-> NULL, at |-> NULL, i |-> i, left |-> {}]
      /\ table' = bf_gdt_del_filter(table, id)
      /\ gdt' = gdt /\ nbf' = nbf /\ bf_array' = bf_array
  BY <1>1 DEF cmd_del
<1>3. Typed /\ Settled
  BY <1>2, NoCommandOp DEF Kernel, SlotsOK
<1>4. /\ i = bf_gdt_find_filter(table, id) /\ table \in bf_gdt /\ UniqueIds(table) /\ WithinCapacity(table)
      /\ nbf = Len(table) /\ nbf \in 0 .. BF_GDT_MAX_FILTERS /\ kmem \subseteq Ptr
      /\ filt \in [Ptr -> bloom_filter]
  BY <1>1, <1>3, Find DEF Typed, Settled
<1>5. i \in 1 .. nbf /\ IsDel(table, table', i)
  BY <1>2, <1>4, DelTable
<1>6. /\ table' \in bf_gdt /\ UniqueIds(table') /\ WithinCapacity(table')
      /\ Len(table') = nbf - 1
      /\ \A k \in 1 .. nbf - 1 : table'[k] = IF k = i THEN table[nbf] ELSE table[k]
  BY <1>4, <1>5 DEF IsDel
<1>7. /\ i \in 0 .. BF_GDT_MAX_FILTERS /\ nbf = (nbf - 1) + 1 /\ nbf \in 1 .. nbf
      /\ \A k \in 1 .. nbf - 1 : k \in 1 .. nbf
      /\ i < nbf => i \in 1 .. nbf - 1 /\ i # nbf
  BY <1>4, <1>5, BfGdtAssumption, SMT
<1>8. OldFilter \in bloom_filter
  BY KernelGdtAssumption, Created, Zenon DEF OldFilter, Port
<1>9. \A k \in 1 .. nbf : /\ bf_array[k] \in kmem /\ filt[bf_array[k]] = table[k]
                          /\ k # i => bf_array[k] # bf_array[i]
  BY <1>3, <1>5 DEF Settled, Same, Apart
<1>10. bf_array[i] \in Ptr
  BY <1>4, <1>5, <1>9
<1>11. filt' \in [Ptr -> bloom_filter] /\ \A q \in kmem : q # bf_array[i] => filt'[q] = filt[q]
  BY <1>2, <1>4, <1>8, <1>10
<1>12. \A k \in 1 .. nbf : k # i => bf_array[k] \in kmem' /\ filt'[bf_array[k]] = table[k]
  BY <1>2, <1>9, <1>11
<1>13. cmd' \in CmdObj /\ cmd'.op = "move" /\ cmd'.i = i
  BY <1>2, <1>7, Zenon DEF CmdObj
<1>14. Typed'
  BY <1>2, <1>3, <1>6, <1>11, <1>13 DEF Typed
<1>15. \A k \in (1 .. nbf - 1) \ {i} : Same(k)'
  BY <1>2, <1>6, <1>7, <1>12 DEF Same
<1>16. i < nbf => bf_array[nbf] \in kmem' /\ filt'[bf_array[nbf]] = table'[i]
  BY <1>6, <1>7, <1>12
<1>17. Apart(nbf)' /\ Free(nbf)'
  BY <1>2, <1>3 DEF Settled, Apart, Free
<1>18. Moving'
  BY <1>2, <1>5, <1>6, <1>7, <1>13, <1>15, <1>16, <1>17 DEF Moving
<1>19. SlotsOK'
  BY <1>2, <1>13, <1>18 DEF SlotsOK
<1> QED
  BY <1>14, <1>19 DEF Kernel

LEMMA MoveKernel ==
    ASSUME Kernel, del_move
    PROVE  Kernel'
<1>1. /\ cmd.op = "move"
      /\ bf_array' = [bf_array EXCEPT ![cmd.i] = bf_array[nbf]]
      /\ cmd' = [cmd EXCEPT !.op = "clear"]
      /\ gdt' = gdt /\ kmem' = kmem /\ filt' = filt /\ nbf' = nbf /\ table' = table
  BY DEF del_move
<1>2. Typed /\ Moving /\ gdt # "null"
  BY <1>1, NoCommandOp DEF Kernel, SlotsOK
<1>3. /\ nbf = Len(table) + 1 /\ cmd.i \in 1 .. nbf /\ nbf \in 0 .. BF_GDT_MAX_FILTERS /\ cmd \in CmdObj
      /\ bf_array \in [Slot -> Ptr \cup {NULL}]
      /\ \A k \in (1 .. nbf - 1) \ {cmd.i} : bf_array[k] \in kmem /\ filt[bf_array[k]] = table[k]
      /\ cmd.i < nbf => bf_array[nbf] \in kmem /\ filt[bf_array[nbf]] = table[cmd.i]
      /\ \A j, k \in 1 .. nbf : bf_array[j] = bf_array[k] => j = k
      /\ \A k \in Slot : k > nbf => bf_array[k] = NULL
  BY <1>2 DEF Typed, Moving, Same, Apart, Free
<1>4. cmd' \in CmdObj /\ cmd'.op = "clear"
  BY <1>1, <1>3, Zenon DEF CmdObj
<1>5. /\ cmd.i \in Slot /\ nbf \in Slot /\ nbf \in 1 .. nbf
      /\ \A k \in 1 .. nbf - 1 : k \in Slot /\ k \in 1 .. nbf /\ k # nbf /\ (k = cmd.i => cmd.i < nbf)
      /\ \A k \in Slot : k > nbf => k # cmd.i
  BY ONLY <1>3, BfGdtAssumption, SMT DEF Slot
<1>6. bf_array' \in [Slot -> Ptr \cup {NULL}]
  BY <1>1, <1>3, <1>5
<1>7. \A k \in Slot : bf_array'[k] = IF k = cmd.i THEN bf_array[nbf] ELSE bf_array[k]
  BY <1>1, <1>3, <1>5
<1>8. Typed'
  BY <1>1, <1>2, <1>4, <1>6 DEF Typed
<1>9. \A k \in 1 .. nbf - 1 : bf_array'[k] \in kmem /\ filt[bf_array'[k]] = table[k]
  BY <1>3, <1>5, <1>7
<1>10. ASSUME NEW j \in 1 .. nbf - 1, NEW k \in 1 .. nbf - 1, bf_array'[j] = bf_array'[k] PROVE j = k
  <2>1. PICK x, y : x = (IF j = cmd.i THEN nbf ELSE j) /\ y = (IF k = cmd.i THEN nbf ELSE k)
    OBVIOUS
  <2>2. bf_array'[j] = bf_array[x] /\ bf_array'[k] = bf_array[y] /\ x \in 1 .. nbf /\ y \in 1 .. nbf
    BY <1>5, <1>7, <2>1
  <2>3. x = y
    <3>1. bf_array[x] = bf_array[y] /\ x \in 1 .. nbf /\ y \in 1 .. nbf
      BY <1>10, <2>2
    <3>2. \A m, n \in 1 .. nbf : bf_array[m] = bf_array[n] => m = n
      BY <1>3
    <3> QED
      BY ONLY <3>1, <3>2, Zenon
  <2>4. j # nbf /\ k # nbf
    BY <1>5
  <2> QED
    BY <2>1, <2>3, <2>4
<1>11. \A k \in Slot : k > nbf => bf_array'[k] = NULL
  BY <1>3, <1>5, <1>7
<1>12. Moved'
  <2>1. \A k \in 1 .. nbf' - 1 : Same(k)'
    BY <1>1, <1>9 DEF Same
  <2>2. Apart(nbf - 1)'
    BY <1>1, <1>10 DEF Apart
  <2>3. Free(nbf)'
    BY <1>1, <1>11 DEF Free
  <2> QED
    BY <1>1, <1>3, <2>1, <2>2, <2>3 DEF Moved
<1>13. SlotsOK'
  BY <1>1, <1>2, <1>4, <1>12 DEF SlotsOK
<1> QED
  BY <1>8, <1>13 DEF Kernel

LEMMA ClearKernel ==
    ASSUME Kernel, del_clear
    PROVE  Kernel'
<1>1. /\ cmd.op = "clear"
      /\ bf_array' = [bf_array EXCEPT ![nbf] = NULL]
      /\ cmd' = [cmd EXCEPT !.op = "shrink"]
      /\ gdt' = gdt /\ kmem' = kmem /\ filt' = filt /\ nbf' = nbf /\ table' = table
  BY DEF del_clear
<1>2. Typed /\ Moved /\ gdt # "null"
  BY <1>1, NoCommandOp DEF Kernel, SlotsOK
<1>3. /\ nbf = Len(table) + 1 /\ nbf \in 0 .. BF_GDT_MAX_FILTERS /\ cmd \in CmdObj /\ table \in bf_gdt
      /\ bf_array \in [Slot -> Ptr \cup {NULL}]
      /\ \A k \in 1 .. nbf - 1 : bf_array[k] \in kmem /\ filt[bf_array[k]] = table[k]
      /\ \A j, k \in 1 .. nbf - 1 : bf_array[j] = bf_array[k] => j = k
      /\ \A k \in Slot : k > nbf => bf_array[k] = NULL
  BY <1>2 DEF Typed, Moved, Same, Apart, Free
<1>4. cmd' \in CmdObj /\ cmd'.op = "shrink"
  BY <1>1, <1>3, Zenon DEF CmdObj
<1>5. Len(table) \in Nat
  BY <1>3, TableFacts
<1>6. /\ nbf \in Slot
      /\ \A k \in 1 .. nbf - 1 : k \in Slot /\ k # nbf
      /\ \A k \in Slot : k > nbf => k # nbf
  BY <1>3, <1>5, BfGdtAssumption, SMT DEF Slot
<1>7. /\ bf_array' \in [Slot -> Ptr \cup {NULL}] /\ bf_array'[nbf] = NULL
      /\ \A k \in Slot : k # nbf => bf_array'[k] = bf_array[k]
  BY <1>1, <1>3, <1>6
<1>8. Typed'
  BY <1>1, <1>2, <1>4, <1>7 DEF Typed
<1>9. /\ \A k \in 1 .. nbf - 1 : bf_array'[k] \in kmem /\ filt[bf_array'[k]] = table[k]
      /\ \A j, k \in 1 .. nbf - 1 : bf_array'[j] = bf_array'[k] => j = k
      /\ \A k \in Slot : k > nbf => bf_array'[k] = NULL
  <2>1. \A k \in 1 .. nbf - 1 : bf_array'[k] = bf_array[k]
    BY <1>6, <1>7
  <2>2. \A k \in Slot : k > nbf => bf_array'[k] = NULL
    BY <1>3, <1>6, <1>7
  <2>3. \A k \in 1 .. nbf - 1 : bf_array'[k] \in kmem /\ filt[bf_array'[k]] = table[k]
    BY <1>3, <2>1
  <2>4. ASSUME NEW j \in 1 .. nbf - 1, NEW k \in 1 .. nbf - 1, bf_array'[j] = bf_array'[k] PROVE j = k
    <3>1. bf_array[j] = bf_array[k]
      BY <2>1, <2>4
    <3>2. \A m, n \in 1 .. nbf - 1 : bf_array[m] = bf_array[n] => m = n
      BY <1>3
    <3> QED
      BY <3>1, <3>2
  <2> QED
    BY <2>2, <2>3, <2>4
<1>10. Moved'
  BY <1>1, <1>3, <1>9, ZenonT(60) DEF Moved, Same, Apart, Free
<1>11. SlotsOK'
  BY <1>1, <1>2, <1>4, <1>7, <1>10 DEF SlotsOK
<1> QED
  BY <1>8, <1>11 DEF Kernel

LEMMA ShrinkKernel ==
    ASSUME Kernel, del_shrink
    PROVE  Kernel'
<1>1. /\ cmd.op = "shrink" /\ nbf' = nbf - 1 /\ cmd' = NoCommand
      /\ gdt' = gdt /\ kmem' = kmem /\ filt' = filt /\ bf_array' = bf_array /\ table' = table
  BY DEF del_shrink
<1>2. Typed /\ Moved /\ bf_array[nbf] = NULL /\ gdt # "null"
  BY <1>1, NoCommandOp DEF Kernel, SlotsOK
<1>3. /\ nbf = Len(table) + 1 /\ nbf \in 0 .. BF_GDT_MAX_FILTERS /\ table \in bf_gdt
      /\ \A k \in 1 .. nbf - 1 : Same(k)
      /\ Apart(nbf - 1)
      /\ \A k \in Slot : k > nbf => bf_array[k] = NULL
  BY <1>2 DEF Typed, Moved, Free
<1>4. Len(table) \in Nat
  BY <1>3, TableFacts
<1>5. /\ nbf - 1 \in 0 .. BF_GDT_MAX_FILTERS /\ nbf - 1 = Len(table)
      /\ \A k \in Slot : k > nbf - 1 => k > nbf \/ k = nbf
  BY <1>3, <1>4, BfGdtAssumption, SMT DEF Slot
<1>6. cmd' \in CmdObj /\ cmd'.op = "none"
  BY <1>1, NoCommandOp
<1>7. Typed'
  BY <1>1, <1>2, <1>5, <1>6 DEF Typed
<1>8. \A k \in Slot : k > nbf' => bf_array'[k] = NULL
  BY <1>1, <1>2, <1>3, <1>5
<1>9. Settled'
  BY <1>1, <1>3, <1>5, <1>8, ZenonT(30) DEF Settled, Same, Apart, Free
<1>10. SlotsOK'
  BY <1>1, <1>2, <1>6, <1>9 DEF SlotsOK
<1> QED
  BY <1>7, <1>10 DEF Kernel
-----------------------------------------------------------------------------
\* Commands and searches.

\* Who claims a key, and which of its bits are there.
LEMMA ClaimsAre ==
    ASSUME NEW F, NEW m, NEW id
    PROVE  id \in Claims(F, m) <=> \E f \in F : bf_check(f, m) /\ f.bf_id = id
BY DEF Claims

LEMMA BitsHave ==
    ASSUME NEW F, NEW m, NEW f \in F, NEW b \in HashBits(m), b \in f.array
    PROVE  <<f.bf_id, b>> \in Bits(F, m)
<1>1. PICK S : S = {<<f.bf_id, x>> : x \in f.array \cap HashBits(m)}
  OBVIOUS
<1>2. b \in f.array \cap HashBits(m)
  OBVIOUS
<1>3. <<f.bf_id, b>> \in S
  BY <1>1, <1>2
<1>4. S \in {{<<g.bf_id, x>> : x \in g.array \cap HashBits(m)} : g \in F}
  BY <1>1
<1> QED
  BY <1>3, <1>4 DEF Bits

LEMMA ClaimsTyped ==
    ASSUME NEW F, F \subseteq bloom_filter, NEW m
    PROVE  Claims(F, m) \subseteq Id /\ Bits(F, m) \subseteq Id \X Bit
<1>1. \A f \in F : f.bf_id \in Id /\ f.array \subseteq Bit
  BY Zenon DEF bloom_filter
<1>2. Claims(F, m) \subseteq Id
  BY <1>1, ClaimsAre
<1>3. Bits(F, m) \subseteq Id \X Bit
  <2> SUFFICES ASSUME NEW p \in Bits(F, m) PROVE p \in Id \X Bit
    OBVIOUS
  <2>1. PICK S \in {{<<g.bf_id, x>> : x \in g.array \cap HashBits(m)} : g \in F} : p \in S
    BY DEF Bits
  <2>2. PICK f \in F : S = {<<f.bf_id, x>> : x \in f.array \cap HashBits(m)}
    BY <2>1
  <2>3. PICK b \in f.array \cap HashBits(m) : p = <<f.bf_id, b>>
    BY <2>1, <2>2
  <2>4. f.bf_id \in Id /\ b \in Bit
    BY <1>1, <2>3
  <2> QED
    BY <2>3, <2>4
<1> QED
  BY <1>2, <1>3

LEMMA TableRange ==
    ASSUME NEW g \in bf_gdt
    PROVE  /\ Range(g) \subseteq bloom_filter
           /\ \A f : f \in Range(g) <=> \E k \in DOMAIN g : f = g[k]
BY TableFacts DEF Range

LEMMA NoScanFacts == NoScan.pc = "none" /\ NoScan \in ScanObj /\ ScanTyped(NoScan)
<1>1. NoScan.pc = "none" /\ NoScan \in ScanObj
  BY BfGdtAssumption, SMT DEF NoScan, ScanObj
<1> QED
  BY <1>1 DEF ScanTyped

LEMMA SeenFacts ==
    ASSUME NEW A \in SUBSET Id, NEW B \in SUBSET (Id \X Bit)
    PROVE  /\ Seen(A, B) \in SeenObj /\ Seen(A, B).all = A /\ Seen(A, B).bits = B /\ Seen(A, B).del = FALSE
           /\ NoneSeen \in SeenObj /\ NoneSeen.del = FALSE /\ Deleted \in SeenObj /\ Deleted.del = TRUE
<1>1. Seen(A, B) \in SeenObj /\ Seen(A, B).all = A /\ Seen(A, B).bits = B /\ Seen(A, B).del = FALSE
  BY Zenon DEF Seen, SeenObj
<1>2. NoneSeen \in SeenObj /\ NoneSeen.del = FALSE
  BY Zenon DEF Seen, SeenObj, NoneSeen
<1>3. Deleted \in SeenObj /\ Deleted.del = TRUE
  BY Zenon DEF SeenObj, Deleted
<1> QED
  BY <1>1, <1>2, <1>3

\* A search that is under way has a key and a place.
LEMMA ScanFacts ==
    ASSUME Scans, NEW c \in Cpu
    PROVE  /\ scan[c] \in ScanObj /\ scan[c].i \in Nat /\ scan[c].j \in Nat
           /\ scan[c].pc \in {"none", "count", "slot", "bits", "return", "hit", "miss"}
           /\ scan[c].at \in Ptr \cup {NULL}
           /\ scan[c].i \in 0 .. BF_GDT_MAX_FILTERS + 1 /\ scan[c].j \in 0 .. NFuncs
           /\ ScanTyped(scan[c]) /\ seen[c] \in SeenObj /\ seen[c].del \in BOOLEAN
           /\ scan[c].pc = "none" <=> scan[c] = NoScan
<1>1. scan[c] \in ScanObj /\ ScanTyped(scan[c]) /\ seen[c] \in SeenObj
  BY DEF Scans
<1>2. /\ scan[c].i \in 0 .. BF_GDT_MAX_FILTERS + 1 /\ scan[c].j \in 0 .. NFuncs
      /\ scan[c].pc \in {"none", "count", "slot", "bits", "return", "hit", "miss"}
      /\ scan[c].at \in Ptr \cup {NULL}
  BY <1>1, Zenon DEF ScanObj
<1>3. scan[c].i \in Nat /\ scan[c].j \in Nat
  BY ONLY <1>2, BfGdtAssumption, SMT
<1>4. seen[c].del \in BOOLEAN
  BY <1>1 DEF SeenObj
<1>5. scan[c].pc = "none" <=> scan[c] = NoScan
  BY <1>1, NoScanFacts DEF ScanTyped
<1> QED
  BY <1>1, <1>2, <1>3, <1>4, <1>5

\* What a step of a command must not do to a search.
Stays(c) ==
    /\ cmd'.op \in {"none", "add", "copy"}
    /\ nbf' \in Nat /\ nbf <= nbf'
    /\ \A k \in 1 .. nbf : bf_array[k] # NULL => bf_array'[k] = bf_array[k]
    /\ \A k \in 1 .. nbf : table'[k].bf_id = table[k].bf_id
    /\ seen'[c].all \subseteq seen[c].all /\ seen[c].bits \subseteq seen'[c].bits
    /\ \A k \in 1 .. nbf :
        /\ bf_array[k] # NULL /\ table[k].bf_id \in seen'[c].all
        /\ bf_check(filt[bf_array[k]], scan[c].key) /\ bf_check(table[k], scan[c].key)
        => bf_check(filt'[bf_array[k]], scan[c].key) /\ bf_check(table'[k], scan[c].key)
    /\ Shown(c)'

LEMMA ScanStays ==
    ASSUME Kernel, Scans, NEW c \in Cpu, scan' = scan, scan[c].pc # "none", ScanOK(c), Stays(c)
    PROVE  ScanOK(c)'
<1>0. nbf \in Nat /\ scan[c].i \in Nat /\ scan[c].i >= 1 /\ nbf' \in Nat /\ nbf <= nbf'
  <2>1. nbf \in 0 .. BF_GDT_MAX_FILTERS
    BY DEF Kernel, Typed
  <2>2. nbf \in Nat
    BY <2>1, BfGdtAssumption, SMT
  <2> QED
    BY <2>2, ScanFacts DEF ScanTyped, Stays
<1>1. \A k \in scan[c].i .. nbf : k \in 1 .. nbf /\ k \in scan[c].i .. nbf'
  BY ONLY <1>0, SMT
<1>2. ASSUME NEW id \in seen'[c].all, Ahead(c, id) PROVE Ahead(c, id)'
  <2>1. PICK k \in scan[c].i .. nbf :
            /\ bf_array[k] # NULL /\ table[k].bf_id = id
            /\ bf_check(filt[bf_array[k]], scan[c].key) /\ bf_check(table[k], scan[c].key)
    BY <1>2 DEF Ahead
  <2>2. /\ bf_array'[k] = bf_array[k] /\ table'[k].bf_id = id
        /\ bf_check(filt'[bf_array[k]], scan[c].key) /\ bf_check(table'[k], scan[c].key)
    BY <1>1, <1>2, <2>1 DEF Stays
  <2>3. k \in scan'[c].i .. nbf'
    BY <1>1
  <2>4. /\ bf_array'[k] # NULL /\ table'[k].bf_id = id
        /\ bf_check(filt'[bf_array'[k]], scan'[c].key) /\ bf_check(table'[k], scan'[c].key)
    BY <2>1, <2>2
  <2> QED
    BY <2>3, <2>4 DEF Ahead
<1>3. Kept(c)'
  <2>1. CASE scan[c].pc = "miss"
    BY <2>1 DEF ScanOK, Kept, Stays
  <2>2. CASE scan[c].pc # "miss"
    <3>1. \A id \in seen'[c].all : Ahead(c, id)
      BY <2>2 DEF ScanOK, Kept, Stays
    <3> QED
      BY <1>2, <2>2, <3>1 DEF Kept
  <2> QED
    BY <2>1, <2>2
<1>4. ASSUME scan[c].pc \in {"slot", "bits", "return", "hit"} PROVE scan[c].i <= nbf' /\ scan[c].i \in 1 .. nbf
  <2>1. scan[c].i <= nbf
    BY <1>4 DEF ScanOK
  <2> QED
    BY <1>0, <2>1, SMT
<1>5. scan'[c].pc \in {"bits", "return", "hit"} => scan'[c].at = bf_array'[scan'[c].i] /\ scan'[c].at # NULL
  <2> SUFFICES ASSUME scan[c].pc \in {"bits", "return", "hit"}
               PROVE  scan[c].at = bf_array'[scan[c].i] /\ scan[c].at # NULL
    OBVIOUS
  <2>1. scan[c].at = bf_array[scan[c].i] /\ scan[c].at # NULL
    BY DEF ScanOK
  <2> QED
    BY <1>4, <2>1 DEF Stays
<1>6. ASSUME NEW n \in 1 .. Met(c)' PROVE <<table'[scan'[c].i].bf_id, Hash[scan'[c].key][n]>> \in seen'[c].bits
  <2>1. Met(c)' = Met(c)
    BY DEF Met
  <2>2. <<table[scan[c].i].bf_id, Hash[scan[c].key][n]>> \in seen[c].bits
    BY <1>6, <2>1 DEF ScanOK
  <2>3. scan[c].pc \in {"bits", "return", "hit"}
    BY ONLY <1>6, <2>1, SMT DEF Met
  <2>4. table'[scan[c].i].bf_id = table[scan[c].i].bf_id
    BY <1>4, <2>3 DEF Stays
  <2> QED
    BY <2>2, <2>4 DEF Stays
<1>7. scan'[c].pc \in {"slot", "bits", "return", "hit"} => scan'[c].i <= nbf'
  BY <1>4
<1>8. cmd'.op \in {"none", "add", "copy"} /\ Shown(c)'
  BY DEF Stays
<1> QED
  BY <1>3, <1>5, <1>6, <1>7, <1>8 DEF ScanOK

\* A command that is watched: the searches under way see the new table.
LEMMA WatchScans ==
    ASSUME Kernel, Scans, cmd.op = "none", scan' = scan, Watch,
           table' \in bf_gdt, UniqueIds(table'), cmd'.op \in {"none", "add", "copy"},
           nbf' = nbf, bf_array' = bf_array,
           \A k \in 1 .. nbf : /\ filt'[bf_array[k]] = filt[bf_array[k]]
                               /\ k \in DOMAIN table' /\ table'[k].bf_id = table[k].bf_id
    PROVE  Scans'
<1>0. nbf \in Nat /\ nbf <= nbf /\ \A k \in 1 .. nbf : k \in DOMAIN table
  <2>1. nbf \in Nat /\ \A k \in 1 .. nbf : k \in DOMAIN table
    BY Reach
  <2> QED
    BY ONLY <2>1, SMT
<1>1. ASSUME NEW c \in Cpu
      PROVE  /\ seen'[c] \in SeenObj
             /\ Undisturbed(c)' =>
                  /\ Undisturbed(c)
                  /\ seen'[c].all = seen[c].all \cap Claims(Range(table'), scan[c].key)
                  /\ seen'[c].bits = seen[c].bits \cup Bits(Range(table'), scan[c].key)
  <2>1. PICK A, B : /\ A = seen[c].all \cap Claims(Range(table'), scan[c].key)
                    /\ B = seen[c].bits \cup Bits(Range(table'), scan[c].key)
    OBVIOUS
  <2>2. seen'[c] = IF scan[c] = NoScan \/ seen[c].del THEN seen[c] ELSE Seen(A, B)
    BY <2>1 DEF Watch
  <2>3. seen[c] \in SeenObj /\ (scan[c].pc = "none" <=> scan[c] = NoScan)
    BY ScanFacts
  <2>4. seen[c].all \subseteq Id /\ seen[c].bits \subseteq Id \X Bit
    BY <2>3, Zenon DEF SeenObj
  <2>5. A \in SUBSET Id /\ B \in SUBSET (Id \X Bit)
    BY <2>1, <2>4, ClaimsTyped, TableRange
  <2>6. Seen(A, B) \in SeenObj /\ Seen(A, B).all = A /\ Seen(A, B).bits = B /\ Seen(A, B).del = FALSE
    BY <2>5, SeenFacts
  <2>7. seen'[c] \in SeenObj
    BY <2>2, <2>3, <2>6
  <2>8. ASSUME Undisturbed(c)' PROVE Undisturbed(c) /\ seen'[c].all = A /\ seen'[c].bits = B
    <3>1. scan[c].pc # "none" /\ ~seen'[c].del
      BY <2>8 DEF Undisturbed
    <3>2. ~seen[c].del
      BY <2>2, <3>1
    <3>3. seen'[c] = Seen(A, B)
      BY <2>2, <2>3, <3>1, <3>2
    <3> QED
      BY <2>6, <3>1, <3>2, <3>3 DEF Undisturbed
  <2> QED
    BY <2>1, <2>7, <2>8
<1>2. ASSUME NEW c \in Cpu, Undisturbed(c)' PROVE ScanOK(c)'
  <2>1. /\ Undisturbed(c) /\ scan[c].pc # "none" /\ ScanOK(c)
        /\ seen'[c].all = seen[c].all \cap Claims(Range(table'), scan[c].key)
        /\ seen'[c].bits = seen[c].bits \cup Bits(Range(table'), scan[c].key)
    BY <1>1, <1>2 DEF Undisturbed, Scans
  <2>2. seen'[c].all \subseteq seen[c].all /\ seen[c].bits \subseteq seen'[c].bits
    BY <2>1
  <2>3. ASSUME NEW k \in 1 .. nbf, table[k].bf_id \in seen'[c].all PROVE bf_check(table'[k], scan[c].key)
    <3>1. PICK f \in Range(table') : bf_check(f, scan[c].key) /\ f.bf_id = table[k].bf_id
      <4>1. table[k].bf_id \in Claims(Range(table'), scan[c].key)
        BY <2>1, <2>3
      <4> QED
        BY <4>1 DEF Claims
    <3>2. PICK n \in DOMAIN table' : f = table'[n]
      BY <3>1, TableRange
    <3>3. k \in DOMAIN table' /\ table'[k].bf_id = table'[n].bf_id
      BY <3>1, <3>2
    <3>4. k = n
      BY <3>2, <3>3 DEF UniqueIds
    <3> QED
      BY <3>1, <3>2, <3>4
  <2>4. Shown(c)'
    <3> SUFFICES ASSUME NEW b \in HashBits(scan[c].key)
                 PROVE  /\ \A k \in 1 .. nbf : bf_array[k] # NULL /\ b \in filt'[bf_array[k]].array
                                => <<table'[k].bf_id, b>> \in seen'[c].bits
                        /\ \A k \in DOMAIN table' : b \in table'[k].array
                                => <<table'[k].bf_id, b>> \in seen'[c].bits
      BY DEF Shown
    <3>1. ASSUME NEW k \in 1 .. nbf, bf_array[k] # NULL, b \in filt'[bf_array[k]].array
          PROVE  <<table'[k].bf_id, b>> \in seen'[c].bits
      <4>1. b \in filt[bf_array[k]].array /\ table'[k].bf_id = table[k].bf_id
        BY <3>1
      <4>2. <<table[k].bf_id, b>> \in seen[c].bits
        BY <2>1, <3>1, <4>1 DEF ScanOK, Shown
      <4> QED
        BY <2>2, <4>1, <4>2
    <3>2. ASSUME NEW k \in DOMAIN table', b \in table'[k].array
          PROVE  <<table'[k].bf_id, b>> \in seen'[c].bits
      <4>1. table'[k] \in Range(table')
        BY TableRange
      <4>2. <<table'[k].bf_id, b>> \in Bits(Range(table'), scan[c].key)
        BY <3>2, <4>1, BitsHave
      <4> QED
        BY <2>1, <4>2
    <3> QED
      BY <3>1, <3>2
  <2>5. Stays(c)
    BY <1>0, <2>2, <2>3, <2>4 DEF Stays
  <2> QED
    BY <2>1, <2>5, ScanStays
<1>3. seen' \in [Cpu -> SeenObj]
  BY <1>1 DEF Watch
<1> QED
  BY <1>2, <1>3 DEF Scans

LEMMA SetScans ==
    ASSUME Kernel, Scans, NEW bf \in Pushed, cmd_set(bf)
    PROVE  Scans'
<1>1. cmd.op = "none" /\ scan' = scan /\ Watch
  BY NoCommandOp DEF cmd_set
<1>2. PICK i : IsSet(table, table', i, bf)
  BY SetKernel
<1>3. cmd'.op = "copy" /\ filt' = filt /\ nbf' = nbf /\ bf_array' = bf_array
  BY SetKernel
<1>4. DOMAIN table' = 1 .. Len(table') /\ \A k \in 1 .. nbf : k \in 1 .. Len(table)
  BY <1>1, <1>2, TableFacts, Reach DEF IsSet
<1>5. \A k \in 1 .. nbf : k \in DOMAIN table' /\ table'[k].bf_id = table[k].bf_id
  BY <1>2, <1>4 DEF IsSet
<1> QED
  BY <1>1, <1>2, <1>3, <1>5, WatchScans DEF IsSet

LEMMA NewScans ==
    ASSUME Kernel, Scans, NEW bf \in Pushed, NEW p \in Ptr, cmd_new(bf, p)
    PROVE  Scans'
<1>1. cmd.op = "none" /\ scan' = scan /\ Watch
  BY NoCommandOp DEF cmd_new
<1>2. /\ cmd'.op = "add" /\ nbf' = nbf /\ bf_array' = bf_array /\ nbf = Len(table)
      /\ \A q \in kmem : filt'[q] = filt[q]
      /\ IsNew(table, table', bf)
  BY NewKernel
<1>3. \A k \in 1 .. nbf : bf_array[k] \in kmem
  BY <1>1 DEF Kernel, SlotsOK, Settled, Same
<1>4. nbf \in Nat /\ DOMAIN table' = 1 .. nbf + 1
  BY <1>1, <1>2, TableFacts, Reach DEF IsNew
<1>5. \A k \in 1 .. nbf : k \in 1 .. nbf + 1
  BY ONLY <1>4, SMT
<1>6. \A k \in 1 .. nbf : /\ filt'[bf_array[k]] = filt[bf_array[k]]
                          /\ k \in DOMAIN table' /\ table'[k].bf_id = table[k].bf_id
  BY <1>2, <1>3, <1>4, <1>5 DEF IsNew
<1> QED
  BY <1>1, <1>2, <1>6, WatchScans DEF IsNew

\* A deletion is seen by every search.
LEMMA DeleteScans ==
    ASSUME Scans, scan' = scan, WatchDelete
    PROVE  Scans'
<1>1. ASSUME NEW c \in Cpu PROVE seen'[c] \in SeenObj /\ ~Undisturbed(c)'
  <2>1. seen'[c] = IF scan[c] = NoScan THEN seen[c] ELSE Deleted
    BY DEF WatchDelete
  <2>2. seen[c] \in SeenObj /\ (scan[c].pc = "none" <=> scan[c] = NoScan)
    BY ScanFacts
  <2>3. Deleted \in SeenObj /\ Deleted.del = TRUE
    BY SeenFacts
  <2>4. CASE scan[c] = NoScan
    BY <2>1, <2>2, <2>4 DEF Undisturbed
  <2>5. CASE scan[c] # NoScan
    BY <2>1, <2>3, <2>5 DEF Undisturbed
  <2> QED
    BY <2>4, <2>5
<1>2. seen' \in [Cpu -> SeenObj]
  BY <1>1 DEF WatchDelete
<1> QED
  BY <1>1, <1>2 DEF Scans

\* A new filter is empty until its bits are copied.
LEMMA StoreScans ==
    ASSUME Kernel, Scans, store_slot \/ store_count
    PROVE  Scans'
<1>1. /\ Kernel' /\ cmd'.op \in {"add", "copy"} /\ Adding /\ Typed /\ cmd'.i = cmd.i
      /\ filt' = filt /\ table' = table /\ scan' = scan /\ seen' = seen
      /\ \/ nbf' = nbf /\ bf_array[cmd.i] = NULL /\ bf_array'[cmd.i] = cmd.at
         \/ nbf = cmd.i - 1 /\ nbf' = cmd.i /\ bf_array'[cmd.i] = bf_array[cmd.i]
      /\ \A k \in Slot : k # cmd.i => bf_array'[k] = bf_array[k]
  BY StoreKernel
<1>2. /\ cmd.i \in Slot /\ nbf \in 0 .. BF_GDT_MAX_FILTERS /\ nbf \in {cmd.i - 1, cmd.i}
      /\ bf_array[cmd.i] \in {NULL, cmd.at}
      /\ filt[cmd.at] = bf_create(cmd.bf.bf_id, cmd.bf.port_no)
  BY <1>1 DEF Typed, Adding
<1>3. /\ nbf \in Nat /\ nbf' \in Nat /\ nbf <= nbf'
      /\ \A k \in 1 .. nbf : k \in Slot
      /\ \A k \in 1 .. nbf' : k \in 1 .. nbf \/ k = cmd.i
      /\ \A k \in 1 .. nbf' : k \in Slot
  BY ONLY <1>1, <1>2, BfGdtAssumption, SMT DEF Slot
<1>4. filt[cmd.at].array = {}
  BY ONLY <1>2, SMT DEF bf_create
<1>5. \A k \in 1 .. nbf : bf_array[k] # NULL => bf_array'[k] = bf_array[k]
  BY <1>1, <1>3
<1>6. bf_array'[cmd.i] \in {NULL, cmd.at}
  BY <1>1, <1>2
<1>7. ASSUME NEW c \in Cpu, Undisturbed(c) PROVE ScanOK(c)'
  <2>1. ScanOK(c) /\ scan[c].pc # "none"
    BY <1>7 DEF Scans, Undisturbed
  <2>2. Shown(c)'
    <3> SUFFICES ASSUME NEW b \in HashBits(scan[c].key)
                 PROVE  /\ \A k \in 1 .. nbf' : bf_array'[k] # NULL /\ b \in filt[bf_array'[k]].array
                                => <<table[k].bf_id, b>> \in seen[c].bits
                        /\ \A k \in DOMAIN table : b \in table[k].array
                                => <<table[k].bf_id, b>> \in seen[c].bits
      BY <1>1 DEF Shown
    <3>1. ASSUME NEW k \in 1 .. nbf', bf_array'[k] # NULL, b \in filt[bf_array'[k]].array
          PROVE  <<table[k].bf_id, b>> \in seen[c].bits
      <4>1. k # cmd.i
        BY <1>4, <1>6, <3>1
      <4>2. k \in 1 .. nbf /\ bf_array'[k] = bf_array[k]
        BY <1>1, <1>3, <4>1
      <4> QED
        BY <2>1, <3>1, <4>2 DEF ScanOK, Shown
    <3>2. \A k \in DOMAIN table : b \in table[k].array => <<table[k].bf_id, b>> \in seen[c].bits
      BY <2>1 DEF ScanOK, Shown
    <3> QED
      BY <3>1, <3>2
  <2>3. Stays(c)
    BY <1>1, <1>3, <1>5, <2>2 DEF Stays
  <2> QED
    BY <1>1, <2>1, <2>3, ScanStays
<1> QED
  BY <1>1, <1>7 DEF Scans, Undisturbed

\* A copied bit is one that the old filter or the new one has.
LEMMA CopyScans ==
    ASSUME Kernel, Scans, NEW b \in Bit, copy_bit(b)
    PROVE  Scans'
<1>1. /\ cmd'.op \in {"none", "copy"} /\ Copying /\ Typed
      /\ kmem' = kmem /\ nbf' = nbf /\ bf_array' = bf_array /\ table' = table /\ scan' = scan /\ seen' = seen
      /\ \A q \in Ptr \ {cmd.at} : filt'[q] = filt[q]
      /\ b \in filt'[cmd.at].array <=> b \in table[cmd.i].array
      /\ \A x : x # b => (x \in filt'[cmd.at].array <=> x \in filt[cmd.at].array)
  BY CopyKernel
<1>2. /\ nbf \in Nat /\ nbf = Len(table) /\ \A k \in 1 .. nbf : k \in DOMAIN table
      /\ cmd.i \in 1 .. nbf /\ bf_array[cmd.i] = cmd.at
      /\ \A j, k \in 1 .. nbf : bf_array[j] = bf_array[k] => j = k
  <2>1. cmd.op = "copy"
    BY DEF copy_bit
  <2> QED
    BY <1>1, <2>1, Reach DEF Copying, Apart
<1>3. \A k \in 1 .. nbf : bf_array[k] # NULL => bf_array[k] \in Ptr
  <2>1. cmd.op = "copy"
    BY DEF copy_bit
  <2> QED
    BY <2>1, Reach
<1>4. ASSUME NEW k \in 1 .. nbf, bf_array[k] # NULL, NEW x,
             x \in filt'[bf_array[k]].array
      PROVE  x \in filt[bf_array[k]].array \/ x \in table[k].array
  <2>1. CASE bf_array[k] # cmd.at
    BY <1>1, <1>3, <1>4, <2>1
  <2>2. CASE bf_array[k] = cmd.at
    <3>1. k = cmd.i
      BY <1>2, <2>2
    <3> QED
      BY <1>1, <1>4, <2>2, <3>1
  <2> QED
    BY <2>1, <2>2
<1>5. ASSUME NEW k \in 1 .. nbf, bf_array[k] # NULL, NEW x,
             x \in filt[bf_array[k]].array, x \in table[k].array
      PROVE  x \in filt'[bf_array[k]].array
  <2>1. CASE bf_array[k] # cmd.at
    BY <1>1, <1>3, <1>5, <2>1
  <2>2. CASE bf_array[k] = cmd.at
    <3>1. k = cmd.i
      BY <1>2, <2>2
    <3> QED
      BY <1>1, <1>5, <2>2, <3>1
  <2> QED
    BY <2>1, <2>2
<1>6. ASSUME NEW c \in Cpu, Undisturbed(c) PROVE ScanOK(c)'
  <2>1. ScanOK(c) /\ scan[c].pc # "none"
    BY <1>6 DEF Scans, Undisturbed
  <2>2. Shown(c)'
    <3> SUFFICES ASSUME NEW x \in HashBits(scan[c].key)
                 PROVE  /\ \A k \in 1 .. nbf : bf_array[k] # NULL /\ x \in filt'[bf_array[k]].array
                                => <<table[k].bf_id, x>> \in seen[c].bits
                        /\ \A k \in DOMAIN table : x \in table[k].array
                                => <<table[k].bf_id, x>> \in seen[c].bits
      BY <1>1 DEF Shown
    <3>1. \A k \in DOMAIN table : x \in table[k].array => <<table[k].bf_id, x>> \in seen[c].bits
      BY <2>1 DEF ScanOK, Shown
    <3>2. ASSUME NEW k \in 1 .. nbf, bf_array[k] # NULL, x \in filt'[bf_array[k]].array
          PROVE  <<table[k].bf_id, x>> \in seen[c].bits
      <4>1. CASE x \in filt[bf_array[k]].array
        BY <2>1, <3>2, <4>1 DEF ScanOK, Shown
      <4>2. CASE x \in table[k].array
        BY <1>2, <3>1, <4>2
      <4> QED
        BY <1>4, <3>2, <4>1, <4>2
    <3> QED
      BY <3>1, <3>2
  <2>3. ASSUME NEW k \in 1 .. nbf, bf_array[k] # NULL,
               bf_check(filt[bf_array[k]], scan[c].key), bf_check(table[k], scan[c].key)
        PROVE  bf_check(filt'[bf_array[k]], scan[c].key)
    BY <1>5, <2>3 DEF bf_check
  <2>4. nbf <= nbf
    BY ONLY <1>2, SMT
  <2>5. Stays(c)
    BY <1>1, <1>2, <2>2, <2>3, <2>4 DEF Stays
  <2> QED
    BY <1>1, <2>1, <2>5, ScanStays
<1> QED
  BY <1>1, <1>6 DEF Scans, Undisturbed
-----------------------------------------------------------------------------
\* Searches step by step.

\* A search that does not move is not disturbed by a step of another one.
LEMMA OtherScan ==
    ASSUME NEW d \in Cpu, scan'[d] = scan[d], seen'[d] = seen[d],
           UNCHANGED <<filt, nbf, bf_array, cmd, table>>,
           Undisturbed(d) => ScanOK(d)
    PROVE  Undisturbed(d)' => ScanOK(d)'
<1>0. filt' = filt /\ nbf' = nbf /\ bf_array' = bf_array /\ cmd' = cmd /\ table' = table
  OBVIOUS
<1>1. \A id : Ahead(d, id)' <=> Ahead(d, id)
  BY <1>0 DEF Ahead
<1>2. Kept(d)' <=> Kept(d)
  BY <1>1 DEF Kept
<1>3. Shown(d)' <=> Shown(d)
  BY <1>0 DEF Shown
<1>4. Met(d)' = Met(d) /\ (Undisturbed(d)' <=> Undisturbed(d))
  <2>1. Met(d)' = Met(d)
    BY Zenon DEF Met
  <2>2. Undisturbed(d)' <=> Undisturbed(d)
    <3>1. scan'[d].pc = scan[d].pc /\ seen'[d].del = seen[d].del
      OBVIOUS
    <3> QED
      BY ONLY <3>1 DEF Undisturbed
  <2> QED
    BY <2>1, <2>2
<1> QED
  BY <1>0, <1>2, <1>3, <1>4 DEF ScanOK

\* A step of the search on processor c.
LEMMA OneScan ==
    ASSUME Scans, NEW c \in Cpu, UNCHANGED <<filt, nbf, bf_array, cmd, table>>,
           scan' \in [Cpu -> ScanObj], seen' \in [Cpu -> SeenObj],
           \A d \in Cpu \ {c} : scan'[d] = scan[d] /\ seen'[d] = seen[d],
           ScanTyped(scan'[c]), Undisturbed(c)' => ScanOK(c)'
    PROVE  Scans'
<1>1. ASSUME NEW d \in Cpu \ {c} PROVE ScanTyped(scan'[d]) /\ (Undisturbed(d)' => ScanOK(d)')
  <2>1. ScanTyped(scan[d]) /\ (Undisturbed(d) => ScanOK(d)) /\ scan'[d] = scan[d] /\ seen'[d] = seen[d]
    BY DEF Scans
  <2> QED
    BY <2>1, OtherScan
<1>2. \A d \in Cpu : ScanTyped(scan'[d]) /\ (Undisturbed(d)' => ScanOK(d)')
  BY <1>1
<1> QED
  BY <1>2 DEF Scans

\* Searches do not notice a step that changes no filter.
LEMMA SameScans ==
    ASSUME Scans, UNCHANGED <<filt, nbf, bf_array, cmd, table>>, scan' = scan, seen' = seen
    PROVE  Scans'
<1>1. \A d \in Cpu : ScanTyped(scan'[d]) /\ (Undisturbed(d)' => ScanOK(d)')
  <2> SUFFICES ASSUME NEW d \in Cpu PROVE ScanTyped(scan'[d]) /\ (Undisturbed(d)' => ScanOK(d)')
    OBVIOUS
  <2>1. ScanTyped(scan[d]) /\ (Undisturbed(d) => ScanOK(d)) /\ scan'[d] = scan[d] /\ seen'[d] = seen[d]
    BY DEF Scans
  <2> QED
    BY <2>1, OtherScan
<1> QED
  BY <1>1 DEF Scans

LEMMA FlushScans ==
    ASSUME Scans, flush_bf_gdt
    PROVE  Scans'
<1>1. UNCHANGED <<filt, nbf, bf_array, cmd, table>> /\ scan' = scan /\ seen' = seen
  BY DEF flush_bf_gdt
<1> QED
  BY <1>1, SameScans

\* A search is over.
LEMMA EndScans ==
    ASSUME Scans, NEW c \in Cpu, scan_end(c), UNCHANGED <<filt, nbf, bf_array, cmd, table>>
    PROVE  Scans'
<1>1. scan' = [scan EXCEPT ![c] = NoScan] /\ seen' = [seen EXCEPT ![c] = NoneSeen]
  BY DEF scan_end
<1>2. scan \in [Cpu -> ScanObj] /\ seen \in [Cpu -> SeenObj]
  BY DEF Scans
<1>3. NoScan.pc = "none" /\ NoScan \in ScanObj /\ ScanTyped(NoScan) /\ NoneSeen \in SeenObj
  BY NoScanFacts, SeenFacts
<1>4. /\ scan' \in [Cpu -> ScanObj] /\ seen' \in [Cpu -> SeenObj]
      /\ scan'[c] = NoScan
      /\ \A d \in Cpu \ {c} : scan'[d] = scan[d] /\ seen'[d] = seen[d]
  BY <1>1, <1>2, <1>3
<1>5. ~Undisturbed(c)'
  BY <1>3, <1>4 DEF Undisturbed
<1> QED
  BY <1>3, <1>4, <1>5, OneScan

\* A search begins with what the filters hold.
LEMMA BeginScans ==
    ASSUME Kernel, Scans, NEW c \in Cpu, NEW m \in Mac, scan_begin(c, m),
           UNCHANGED <<filt, nbf, bf_array, cmd, table>>
    PROVE  Scans'
<1>1. PICK now, A, B, s, e :
        /\ now = {filt[bf_array[k]] : k \in {i \in 1 .. nbf : bf_array[i] # NULL}}
        /\ A = Claims(now, m) \cap Claims(Range(table), m)
        /\ B = Bits(now \cup Range(table), m)
        /\ s = [pc |-> IF gdt = "null" THEN "miss" ELSE "count", key |-> m, i |-> 1, at |-> NULL, j |-> 1]
        /\ e = IF cmd.op \in {"move", "clear", "shrink"} THEN Deleted ELSE Seen(A, B)
  OBVIOUS
<1>2. scan' = [scan EXCEPT ![c] = s] /\ seen' = [seen EXCEPT ![c] = e]
  BY <1>1 DEF scan_begin
<1>3. /\ s.pc = (IF gdt = "null" THEN "miss" ELSE "count") /\ s.key = m /\ s.i = 1 /\ s.at = NULL /\ s.j = 1
      /\ s \in ScanObj
  BY ONLY <1>1, BfGdtAssumption, SMT DEF ScanObj
<1>4. ScanTyped(s)
  <2>1. s.i >= 1 /\ s.j >= 1
    BY ONLY <1>3, SMT
  <2> QED
    BY <1>3, <2>1 DEF ScanTyped
<1>5. ASSUME cmd.op \in {"none", "add", "copy"} PROVE now \subseteq bloom_filter
  <2>1. \A k \in 1 .. nbf : bf_array[k] # NULL => bf_array[k] \in Ptr
    BY <1>5, Reach
  <2>2. filt \in [Ptr -> bloom_filter]
    BY DEF Kernel, Typed
  <2> QED
    BY <1>1, <2>1, <2>2
<1>6. cmd.op \in {"none", "add", "copy", "move", "clear", "shrink"} /\ table \in bf_gdt
  BY SMT DEF Kernel, Typed, CmdObj
<1>7. ASSUME cmd.op \in {"none", "add", "copy"}
      PROVE  e \in SeenObj /\ e.all = A /\ e.bits = B /\ e.del = FALSE
  <2>1. now \cup Range(table) \subseteq bloom_filter
    BY <1>5, <1>6, <1>7, TableRange
  <2>2. A \in SUBSET Id /\ B \in SUBSET (Id \X Bit)
    <3>1. Claims(Range(table), m) \subseteq Id
      BY <1>6, TableRange, ClaimsTyped
    <3>2. Bits(now \cup Range(table), m) \subseteq Id \X Bit
      BY <2>1, ClaimsTyped
    <3> QED
      BY <1>1, <3>1, <3>2
  <2>3. e = Seen(A, B)
    BY <1>1, <1>7
  <2> QED
    BY <2>2, <2>3, SeenFacts, ZenonT(60)
<1>8. e \in SeenObj /\ (cmd.op \in {"move", "clear", "shrink"} => e.del = TRUE)
  <2>1. ASSUME cmd.op \in {"move", "clear", "shrink"} PROVE e = Deleted
    BY <1>1, <2>1
  <2>2. Deleted \in SeenObj /\ Deleted.del = TRUE
    BY SeenFacts
  <2>3. cmd.op \in {"move", "clear", "shrink"} \/ cmd.op \in {"none", "add", "copy"}
    BY <1>6
  <2> QED
    BY <1>7, <2>1, <2>2, <2>3
<1>9. /\ scan' \in [Cpu -> ScanObj] /\ seen' \in [Cpu -> SeenObj]
      /\ scan'[c] = s /\ seen'[c] = e
      /\ \A d \in Cpu \ {c} : scan'[d] = scan[d] /\ seen'[d] = seen[d]
  BY <1>2, <1>3, <1>8 DEF Scans
<1>10. ASSUME Undisturbed(c)' PROVE ScanOK(c)'
  <2>0. cmd.op \in {"none", "add", "copy"} /\ e.all = A /\ e.bits = B
    BY <1>6, <1>7, <1>8, <1>9, <1>10 DEF Undisturbed
  <2>1. /\ nbf \in Nat /\ DOMAIN table = 1 .. Len(table)
        /\ \A k \in 1 .. nbf : k \in DOMAIN table
        /\ \A k \in 1 .. nbf : bf_array[k] # NULL => filt[bf_array[k]].bf_id = table[k].bf_id
    BY <2>0, Reach
  <2>2. ASSUME NEW id \in A
        PROVE  \E k \in 1 .. nbf : /\ bf_array[k] # NULL /\ table[k].bf_id = id
                                   /\ bf_check(filt[bf_array[k]], m) /\ bf_check(table[k], m)
    <3>1. PICK f \in now : bf_check(f, m) /\ f.bf_id = id
      BY <1>1, <2>2 DEF Claims
    <3>2. PICK k \in 1 .. nbf : bf_array[k] # NULL /\ f = filt[bf_array[k]]
      BY <1>1, <3>1
    <3>3. PICK g \in Range(table) : bf_check(g, m) /\ g.bf_id = id
      BY <1>1, <2>2 DEF Claims
    <3>4. PICK n \in DOMAIN table : g = table[n]
      BY <1>6, <3>3, TableRange
    <3>5. k \in DOMAIN table /\ table[k].bf_id = table[n].bf_id
      BY <2>1, <3>1, <3>2, <3>3, <3>4
    <3>6. k = n
      BY <3>4, <3>5 DEF Kernel, Typed, UniqueIds
    <3> QED
      BY <2>1, <3>1, <3>2, <3>3, <3>4, <3>6
  <2>3. Kept(c)'
    <3>1. ASSUME gdt = "null" PROVE seen'[c].all = {}
      <4>1. nbf = 0
        BY <3>1 DEF Kernel, SlotsOK
      <4>2. \A k : k \notin 1 .. nbf
        BY <4>1, SMT
      <4> QED
        BY <1>9, <2>0, <2>2, <4>2
    <3>2. ASSUME NEW id \in seen'[c].all PROVE Ahead(c, id)'
      <4>1. PICK k \in 1 .. nbf : /\ bf_array[k] # NULL /\ table[k].bf_id = id
                                  /\ bf_check(filt[bf_array[k]], m) /\ bf_check(table[k], m)
        BY <1>9, <2>0, <2>2, <3>2
      <4>2. k \in scan'[c].i .. nbf' /\ scan'[c].key = m
        BY <1>3, <1>9
      <4> QED
        BY <4>1, <4>2 DEF Ahead
    <3> QED
      BY <1>3, <1>9, <3>1, <3>2 DEF Kept
  <2>4. Shown(c)'
    <3> SUFFICES ASSUME NEW b \in HashBits(m)
                 PROVE  /\ \A k \in 1 .. nbf : bf_array[k] # NULL /\ b \in filt[bf_array[k]].array
                                => <<table[k].bf_id, b>> \in B
                        /\ \A k \in DOMAIN table : b \in table[k].array => <<table[k].bf_id, b>> \in B
      BY <1>3, <1>9, <2>0 DEF Shown
    <3>1. ASSUME NEW k \in 1 .. nbf, bf_array[k] # NULL, b \in filt[bf_array[k]].array
          PROVE  <<table[k].bf_id, b>> \in B
      <4>1. filt[bf_array[k]] \in now \cup Range(table)
        BY <1>1, <3>1
      <4>2. <<filt[bf_array[k]].bf_id, b>> \in Bits(now \cup Range(table), m)
        BY <3>1, <4>1, BitsHave
      <4> QED
        BY <1>1, <2>1, <3>1, <4>2
    <3>2. ASSUME NEW k \in DOMAIN table, b \in table[k].array PROVE <<table[k].bf_id, b>> \in B
      <4>1. table[k] \in now \cup Range(table)
        BY <1>6, TableRange
      <4>2. <<table[k].bf_id, b>> \in Bits(now \cup Range(table), m)
        BY <3>2, <4>1, BitsHave
      <4> QED
        BY <1>1, <4>2
    <3> QED
      BY <3>1, <3>2
  <2>5. Met(c)' = 0 /\ scan'[c].pc \in {"count", "miss"} /\ \A n : n \notin 1 .. 0
    <3>1. scan'[c].pc \in {"count", "miss"}
      BY <1>3, <1>9
    <3>2. \A n : n \notin 1 .. 0
      BY ONLY SMT
    <3> QED
      BY <3>1, <3>2 DEF Met
  <2> QED
    BY <2>0, <2>3, <2>4, <2>5 DEF ScanOK
<1> QED
  BY <1>4, <1>9, <1>10, OneScan

\* A search moves within a slot.
PutAt(s, e, w, p) ==
    /\ e = [s EXCEPT !.pc = w, !.at = p]
    /\ s \in ScanObj /\ p \in Ptr \cup {NULL}
    /\ w \in {"none", "count", "slot", "bits", "return", "hit", "miss"}

LEMMA ScanAt ==
    ASSUME NEW s, NEW e, NEW w, NEW p, PutAt(s, e, w, p)
    PROVE  e \in ScanObj /\ e.pc = w /\ e.key = s.key /\ e.i = s.i /\ e.at = p /\ e.j = s.j
<1>1. PICK d : d = [s EXCEPT !.pc = w]
  OBVIOUS
<1>2. d \in ScanObj /\ d.pc = w /\ d.key = s.key /\ d.i = s.i /\ d.j = s.j
  BY <1>1, SMT DEF ScanObj, PutAt
<1>3. e = [d EXCEPT !.at = p] /\ p \in Ptr \cup {NULL}
  BY <1>1 DEF PutAt
<1>4. e \in ScanObj /\ e.pc = d.pc /\ e.key = d.key /\ e.i = d.i /\ e.at = p /\ e.j = d.j
  BY <1>2, <1>3, SMT DEF ScanObj
<1> QED
  BY <1>2, <1>4

\* A search moves on to slot e.i, or nowhere.
Moves(c, e) ==
    /\ scan' \in [Cpu -> ScanObj] /\ scan'[c] = e
    /\ \A d \in Cpu \ {c} : scan'[d] = scan[d]

\* What a search has found in slot n of what it was looking for.
Hits(c, s, n) == \A k \in 1 .. n : <<table[s.i].bf_id, Hash[s.key][k]>> \in seen[c].bits

\* A search that goes on with the same key, and that passes no filter that
\* claims it.
LEMMA MoveScans ==
    ASSUME Kernel, Scans, NEW c \in Cpu, NEW e, Moves(c, e), e.key = scan[c].key, ScanTyped(e),
           scan[c].pc # "none", e.pc # "none", seen' = seen, UNCHANGED <<filt, nbf, bf_array, cmd, table>>,
           ScanOK(c) =>
                /\ e.pc \in {"slot", "bits", "return", "hit"} => e.i <= nbf
                /\ e.pc \in {"bits", "return", "hit"} => e.at = bf_array[e.i] /\ e.at # NULL
                /\ \A id \in seen[c].all : \E k \in e.i .. nbf :
                        /\ e.pc # "miss"
                        /\ bf_array[k] # NULL /\ table[k].bf_id = id
                        /\ bf_check(filt[bf_array[k]], e.key) /\ bf_check(table[k], e.key)
                /\ e.pc = "bits" => Hits(c, e, e.j - 1)
                /\ e.pc \in {"return", "hit"} => Hits(c, e, NFuncs)
    PROVE  Scans'
<1>0. /\ scan'[c] = e /\ scan' \in [Cpu -> ScanObj] /\ seen' \in [Cpu -> SeenObj]
      /\ \A d \in Cpu \ {c} : scan'[d] = scan[d] /\ seen'[d] = seen[d]
      /\ filt' = filt /\ nbf' = nbf /\ bf_array' = bf_array /\ cmd' = cmd /\ table' = table
  BY DEF Moves, Scans
<1>1. ASSUME Undisturbed(c)' PROVE ScanOK(c)'
  <2>1. ScanOK(c)
    BY <1>1 DEF Undisturbed, Scans
  <2>2. /\ cmd'.op \in {"none", "add", "copy"}
        /\ scan'[c].pc \in {"slot", "bits", "return", "hit"} => scan'[c].i <= nbf'
        /\ scan'[c].pc \in {"bits", "return", "hit"} =>
                scan'[c].at = bf_array'[scan'[c].i] /\ scan'[c].at # NULL
    BY <1>0, <2>1 DEF ScanOK
  <2>3. \A id \in seen[c].all : \E k \in e.i .. nbf :
                        /\ e.pc # "miss"
                        /\ bf_array[k] # NULL /\ table[k].bf_id = id
                        /\ bf_check(filt[bf_array[k]], e.key) /\ bf_check(table[k], e.key)
    BY <2>1
  <2>4. \A id \in seen'[c].all : e.pc # "miss" /\ Ahead(c, id)'
    <3> SUFFICES ASSUME NEW id \in seen[c].all PROVE e.pc # "miss" /\ Ahead(c, id)'
      OBVIOUS
    <3>1. PICK k \in e.i .. nbf :
                        /\ e.pc # "miss"
                        /\ bf_array[k] # NULL /\ table[k].bf_id = id
                        /\ bf_check(filt[bf_array[k]], e.key) /\ bf_check(table[k], e.key)
      BY <2>3
    <3> QED
      BY <1>0, <3>1, ZenonT(60) DEF Ahead
  <2>5. Kept(c)'
    BY <1>0, <2>4 DEF Kept
  <2>6. Shown(c)'
    BY <1>0, <2>1 DEF ScanOK, Shown
  <2>7. Hits(c, e, Met(c)')
    <3>1. CASE e.pc = "bits"
      BY <1>0, <2>1, <3>1 DEF Met
    <3>2. CASE e.pc \in {"return", "hit"}
      BY <1>0, <2>1, <3>2 DEF Met
    <3>3. CASE e.pc \notin {"bits", "return", "hit"}
      <4>1. Met(c)' = 0
        BY <1>0, <3>3 DEF Met
      <4>2. \A n : n \notin 1 .. 0
        BY ONLY SMT
      <4> QED
        BY <4>1, <4>2 DEF Hits
    <3> QED
      BY <3>1, <3>2, <3>3
  <2>8. \A n \in 1 .. Met(c)' : <<table'[scan'[c].i].bf_id, Hash[scan'[c].key][n]>> \in seen'[c].bits
    BY <1>0, <2>7 DEF Hits
  <2> QED
    BY <2>2, <2>5, <2>6, <2>8 DEF ScanOK
<1> QED
  BY <1>0, <1>1, OneScan


\* i < gdt->nbf.
LEMMA CountScans ==
    ASSUME Kernel, Scans, NEW c \in Cpu, scan_count(c)
    PROVE  Scans'
<1>1. PICK e : e = [scan[c] EXCEPT !.pc = IF scan[c].i <= nbf THEN "slot" ELSE "miss"]
  OBVIOUS
<1>2. /\ scan[c].pc = "count" /\ scan' = [scan EXCEPT ![c] = e] /\ seen' = seen
      /\ UNCHANGED <<filt, nbf, bf_array, cmd, table>>
  BY <1>1 DEF scan_count
<1>3. /\ scan[c] \in ScanObj /\ scan[c].i \in Nat /\ ScanTyped(scan[c])
  BY ScanFacts
<1>4. /\ e \in ScanObj /\ e.key = scan[c].key /\ e.i = scan[c].i /\ e.j = scan[c].j
      /\ e.pc = IF scan[c].i <= nbf THEN "slot" ELSE "miss"
  BY <1>1, <1>3, Zenon DEF ScanObj
<1>5. nbf \in 0 .. BF_GDT_MAX_FILTERS
  BY DEF Kernel, Typed
<1>6. scan[c].key \in Mac /\ scan[c].i >= 1 /\ scan[c].j >= 1 /\ scan[c].j = 1
  BY <1>2, <1>3 DEF ScanTyped
<1>7. scan[c].i <= nbf => scan[c].i \in Slot
  BY ONLY <1>3, <1>5, <1>6, BfGdtAssumption, SMT DEF Slot
<1>8. ScanTyped(e)
  BY <1>4, <1>6, <1>7 DEF ScanTyped
<1>9. Moves(c, e)
  BY <1>2, <1>4 DEF Moves, Scans
<1>10. ASSUME ScanOK(c), NEW id \in seen[c].all
       PROVE  \E k \in e.i .. nbf :
                /\ e.pc # "miss" /\ bf_array[k] # NULL /\ table[k].bf_id = id
                /\ bf_check(filt[bf_array[k]], e.key) /\ bf_check(table[k], e.key)
  <2>1. PICK k \in scan[c].i .. nbf :
            /\ bf_array[k] # NULL /\ table[k].bf_id = id
            /\ bf_check(filt[bf_array[k]], scan[c].key) /\ bf_check(table[k], scan[c].key)
    BY <1>2, <1>10 DEF ScanOK, Kept, Ahead
  <2>2. scan[c].i <= nbf
    BY ONLY <1>3, <1>5, <2>1, BfGdtAssumption, SMT
  <2> QED
    BY <1>4, <2>1, <2>2
<1>11. e.pc \in {"slot", "miss"} /\ (e.pc = "slot" => e.i <= nbf) /\ e.pc # "none"
  BY <1>4
<1> QED
  BY <1>2, <1>4, <1>8, <1>9, <1>10, <1>11, MoveScans, ZenonT(30)

\* A slot is left that has no filter, or none that claims the key.
LEMMA NextScans ==
    ASSUME Kernel, Scans, NEW c \in Cpu, scan[c].pc \in {"slot", "bits"}, NextSlot(c),
           seen' = seen, UNCHANGED <<filt, nbf, bf_array, cmd, table>>,
           ScanOK(c) => \/ bf_array[scan[c].i] = NULL
                        \/ ~bf_check(filt[bf_array[scan[c].i]], scan[c].key)
    PROVE  Scans'
<1>1. PICK i : i = scan[c].i + 1
  OBVIOUS
<1>2. PICK e : e = [scan[c] EXCEPT !.pc = "count", !.i = i, !.j = 1]
  OBVIOUS
<1>3. /\ scan[c] \in ScanObj /\ scan[c].i \in Nat /\ ScanTyped(scan[c])
  BY ScanFacts
<1>4. scan \in [Cpu -> ScanObj]
  BY DEF Scans
<1>5. scan' = [scan EXCEPT ![c] = e]
  BY <1>1, <1>2, <1>4 DEF NextSlot
<1>6. scan[c].i \in Slot /\ scan[c].key \in Mac
  BY <1>3 DEF ScanTyped
<1>7. i \in 0 .. BF_GDT_MAX_FILTERS + 1 /\ i >= 1 /\ 1 \in 0 .. NFuncs /\ 1 >= 1
  BY ONLY <1>1, <1>6, BfGdtAssumption, SMT DEF Slot
<1>8. /\ e \in ScanObj /\ e.pc = "count" /\ e.key = scan[c].key /\ e.i = i /\ e.j = 1
  <2>0. PICK b : b = [scan[c] EXCEPT !.pc = "count"]
    OBVIOUS
  <2>0a. b \in ScanObj /\ b.pc = "count" /\ b.key = scan[c].key
    BY ONLY <1>3, <2>0, SMT DEF ScanObj
  <2>1. PICK d : d = [b EXCEPT !.i = i]
    OBVIOUS
  <2>2. d \in ScanObj /\ d.pc = "count" /\ d.key = scan[c].key /\ d.i = i
    BY ONLY <1>7, <2>0a, <2>1, SMT DEF ScanObj
  <2>3. e = [d EXCEPT !.j = 1]
    BY <1>2, <2>0, <2>1
  <2>4. e \in ScanObj /\ e.pc = d.pc /\ e.key = d.key /\ e.i = d.i /\ e.j = 1
    BY ONLY <1>7, <2>2, <2>3, Zenon DEF ScanObj
  <2> QED
    BY <2>2, <2>4
<1>9. ScanTyped(e)
  BY <1>6, <1>7, <1>8 DEF ScanTyped
<1>10. Moves(c, e)
  BY <1>4, <1>5, <1>8 DEF Moves
<1>11. ASSUME ScanOK(c), NEW id \in seen[c].all
       PROVE  \E k \in e.i .. nbf :
                /\ e.pc # "miss" /\ bf_array[k] # NULL /\ table[k].bf_id = id
                /\ bf_check(filt[bf_array[k]], e.key) /\ bf_check(table[k], e.key)
  <2>1. PICK k \in scan[c].i .. nbf :
            /\ bf_array[k] # NULL /\ table[k].bf_id = id
            /\ bf_check(filt[bf_array[k]], scan[c].key) /\ bf_check(table[k], scan[c].key)
    BY <1>11 DEF ScanOK, Kept, Ahead
  <2>2. k # scan[c].i
    BY <1>11, <2>1
  <2>3. nbf \in 0 .. BF_GDT_MAX_FILTERS
    BY DEF Kernel, Typed
  <2>4. k \in i .. nbf
    BY ONLY <1>1, <1>3, <2>1, <2>2, <2>3, BfGdtAssumption, SMT
  <2> QED
    BY <1>8, <2>1, <2>4
<1>12. scan[c].pc # "none" /\ e.pc \notin {"none", "slot", "bits", "return", "hit"}
  BY <1>8
<1> QED
  BY <1>8, <1>9, <1>10, <1>11, <1>12, MoveScans

\* bf_array[i] is read.
LEMMA SlotScans ==
    ASSUME Kernel, Scans, NEW c \in Cpu, scan_slot(c)
    PROVE  Scans'
<1>0. /\ scan[c].pc = "slot" /\ seen' = seen /\ UNCHANGED <<filt, nbf, bf_array, cmd, table>>
  BY DEF scan_slot
<1>1. CASE bf_array[scan[c].i] = NULL
  <2>1. NextSlot(c)
    BY <1>1 DEF scan_slot
  <2> QED
    BY <1>0, <1>1, <2>1, NextScans
<1>2. CASE bf_array[scan[c].i] # NULL
  <2>1. PICK p : p = bf_array[scan[c].i]
    OBVIOUS
  <2>2. PICK e : e = [scan[c] EXCEPT !.pc = "bits", !.at = p]
    OBVIOUS
  <2>3. scan \in [Cpu -> ScanObj] /\ scan[c] \in ScanObj /\ ScanTyped(scan[c])
    BY ScanFacts DEF Scans
  <2>4. scan' = [scan EXCEPT ![c] = e]
    BY <1>2, <2>1, <2>2, <2>3 DEF scan_slot
  <2>5. scan[c].i \in Slot /\ scan[c].key \in Mac /\ scan[c].j = 1 /\ scan[c].i >= 1 /\ scan[c].j >= 1
    BY <1>0, <2>3 DEF ScanTyped
  <2>6. p \in Ptr \cup {NULL}
    BY <2>1, <2>5 DEF Kernel, Typed
  <2>7. /\ e \in ScanObj /\ e.pc = "bits" /\ e.key = scan[c].key /\ e.i = scan[c].i /\ e.at = p /\ e.j = scan[c].j
    <3>1. PutAt(scan[c], e, "bits", p)
      BY <2>2, <2>3, <2>6 DEF PutAt
    <3> QED
      BY <3>1, ScanAt
  <2>8. ScanTyped(e)
    BY <2>5, <2>7 DEF ScanTyped
  <2>9. Moves(c, e)
    BY <2>3, <2>4, <2>7 DEF Moves
  <2>10. ASSUME ScanOK(c)
         PROVE  /\ e.i <= nbf /\ e.at = bf_array[e.i] /\ e.at # NULL
                /\ \A id \in seen[c].all : \E k \in e.i .. nbf :
                        /\ e.pc # "miss" /\ bf_array[k] # NULL /\ table[k].bf_id = id
                        /\ bf_check(filt[bf_array[k]], e.key) /\ bf_check(table[k], e.key)
    <3>1. e.i <= nbf
      BY <1>0, <2>7, <2>10 DEF ScanOK
    <3>2. \A id \in seen[c].all : Ahead(c, id)
      BY <1>0, <2>10 DEF ScanOK, Kept
    <3> QED
      BY <1>2, <2>1, <2>7, <3>1, <3>2 DEF Ahead
  <2>11. Hits(c, e, e.j - 1)
    <3>1. \A k : k \notin 1 .. e.j - 1
      BY ONLY <2>5, <2>7, SMT
    <3> QED
      BY <3>1 DEF Hits
  <2>12. e.pc # "none" /\ e.pc \notin {"return", "hit"} /\ scan[c].pc # "none"
    BY <1>0, <2>7
  <2> QED
    BY <1>0, <2>7, <2>8, <2>9, <2>10, <2>11, <2>12, MoveScans
<1> QED
  BY <1>1, <1>2

\* A bit of the key is looked up in the filter that was read.
LEMMA BitScans ==
    ASSUME Kernel, Scans, NEW c \in Cpu, scan_bit(c)
    PROVE  Scans'
<1>0. /\ scan[c].pc = "bits" /\ seen' = seen /\ UNCHANGED <<filt, nbf, bf_array, cmd, table>>
  BY DEF scan_bit
<1>1. PICK f \in Read(scan[c].at) :
        IF Hash[scan[c].key][scan[c].j] \notin f.array THEN NextSlot(c)
        ELSE scan' = IF scan[c].j = NFuncs THEN [scan EXCEPT ![c].pc = "return"]
                     ELSE [scan EXCEPT ![c].j = @ + 1]
  BY DEF scan_bit
<1>2. /\ scan \in [Cpu -> ScanObj] /\ scan[c] \in ScanObj /\ ScanTyped(scan[c])
      /\ scan[c].j \in 0 .. NFuncs /\ scan[c].i \in Nat
  BY ScanFacts DEF Scans
<1>3. scan[c].i \in Slot /\ scan[c].key \in Mac /\ scan[c].i >= 1 /\ scan[c].j >= 1
  BY <1>0, <1>2 DEF ScanTyped
<1>4. scan[c].j \in 1 .. NFuncs
  BY ONLY <1>2, <1>3, BfGdtAssumption, SMT
<1>5. PICK x : x = Hash[scan[c].key][scan[c].j]
  OBVIOUS
<1>6. ASSUME ScanOK(c)
      PROVE  /\ f = filt[bf_array[scan[c].i]] /\ scan[c].i <= nbf /\ scan[c].i \in 1 .. nbf
             /\ scan[c].at = bf_array[scan[c].i] /\ scan[c].at # NULL
  <2>1. /\ cmd.op \in {"none", "add", "copy"} /\ scan[c].i <= nbf
        /\ scan[c].at = bf_array[scan[c].i] /\ scan[c].at # NULL
    BY <1>0, <1>6 DEF ScanOK
  <2>2. nbf \in Nat
    BY <2>1, Reach
  <2>3. scan[c].i \in 1 .. nbf
    BY ONLY <1>2, <1>3, <2>1, <2>2, SMT
  <2>4. scan[c].at \in kmem
    BY <2>1, <2>3, Reach
  <2>5. f = filt[scan[c].at]
    BY <1>1, <2>4 DEF Read
  <2> QED
    BY <2>1, <2>3, <2>5
<1>7. CASE x \notin f.array
  <2>1. NextSlot(c)
    BY <1>1, <1>5, <1>7
  <2>2. ~bf_check(f, scan[c].key)
    BY <1>4, <1>5, <1>7 DEF bf_check
  <2>3. ScanOK(c) => ~bf_check(filt[bf_array[scan[c].i]], scan[c].key)
    BY <1>6, <2>2
  <2>4. scan[c].pc \in {"slot", "bits"}
    BY <1>0
  <2> QED
    BY <1>0, <2>1, <2>3, <2>4, NextScans
<1>8. CASE x \in f.array
  <2>1. scan' = IF scan[c].j = NFuncs THEN [scan EXCEPT ![c].pc = "return"]
                ELSE [scan EXCEPT ![c].j = @ + 1]
    BY <1>1, <1>5, <1>8
  <2>2. ASSUME ScanOK(c) PROVE Hits(c, scan[c], scan[c].j)
    <3>1. <<table[scan[c].i].bf_id, x>> \in seen[c].bits
      <4>1. x \in HashBits(scan[c].key)
        BY <1>4, <1>5 DEF HashBits
      <4>2. bf_array[scan[c].i] # NULL /\ x \in filt[bf_array[scan[c].i]].array /\ scan[c].i \in 1 .. nbf
        BY <1>6, <1>8, <2>2
      <4> QED
        BY <2>2, <4>1, <4>2 DEF ScanOK, Shown
    <3>2. Met(c) = scan[c].j - 1
      BY <1>0 DEF Met
    <3>3. \A k \in 1 .. scan[c].j - 1 : <<table[scan[c].i].bf_id, Hash[scan[c].key][k]>> \in seen[c].bits
      BY <2>2, <3>2 DEF ScanOK
    <3>4. \A k \in 1 .. scan[c].j : k \in 1 .. scan[c].j - 1 \/ k = scan[c].j
      BY ONLY <1>4, SMT
    <3> QED
      BY <1>5, <3>1, <3>3, <3>4 DEF Hits
  <2>3. ASSUME ScanOK(c)
        PROVE  \A id \in seen[c].all : \E k \in scan[c].i .. nbf :
                    /\ bf_array[k] # NULL /\ table[k].bf_id = id
                    /\ bf_check(filt[bf_array[k]], scan[c].key) /\ bf_check(table[k], scan[c].key)
    BY <1>0, <2>3 DEF ScanOK, Kept, Ahead
  <2>4. CASE scan[c].j = NFuncs
    <3>1. PICK e : e = [scan[c] EXCEPT !.pc = "return"]
      OBVIOUS
    <3>2. scan' = [scan EXCEPT ![c] = e]
      BY <2>1, <2>4, <3>1
    <3>3. /\ e \in ScanObj /\ e.pc = "return" /\ e.key = scan[c].key /\ e.i = scan[c].i /\ e.at = scan[c].at
          /\ e.j = scan[c].j
      BY <1>2, <3>1, Zenon DEF ScanObj
    <3>4. ScanTyped(e)
      BY <1>3, <3>3 DEF ScanTyped
    <3>5. Moves(c, e)
      BY <1>2, <3>2, <3>3 DEF Moves
    <3>6. ScanOK(c) => Hits(c, e, NFuncs)
      BY <2>2, <2>4, <3>3 DEF Hits
    <3>7. ASSUME ScanOK(c)
          PROVE  /\ e.i <= nbf /\ e.at = bf_array[e.i] /\ e.at # NULL
                 /\ \A id \in seen[c].all : \E k \in e.i .. nbf :
                        /\ e.pc # "miss" /\ bf_array[k] # NULL /\ table[k].bf_id = id
                        /\ bf_check(filt[bf_array[k]], e.key) /\ bf_check(table[k], e.key)
      BY <1>6, <2>3, <3>3, <3>7
    <3>8. e.pc # "none" /\ e.pc # "bits" /\ scan[c].pc # "none"
      BY <1>0, <3>3
    <3> QED
      BY <1>0, <3>3, <3>4, <3>5, <3>6, <3>7, <3>8, MoveScans
  <2>5. CASE scan[c].j # NFuncs
    <3>1. PICK j : j = scan[c].j + 1
      OBVIOUS
    <3>2. PICK e : e = [scan[c] EXCEPT !.j = j]
      OBVIOUS
    <3>3. scan' = [scan EXCEPT ![c] = e]
      BY <2>1, <2>5, <3>1, <3>2
    <3>4. j \in 0 .. NFuncs /\ j >= 1 /\ j - 1 = scan[c].j
      BY ONLY <1>4, <2>5, <3>1, BfGdtAssumption, SMT
    <3>5. /\ e \in ScanObj /\ e.pc = scan[c].pc /\ e.key = scan[c].key /\ e.i = scan[c].i /\ e.at = scan[c].at
          /\ e.j = j
      BY <1>2, <3>2, <3>4, Zenon DEF ScanObj
    <3>6. ScanTyped(e)
      BY <1>0, <1>3, <3>4, <3>5 DEF ScanTyped
    <3>7. Moves(c, e)
      BY <1>2, <3>3, <3>5 DEF Moves
    <3>8. ScanOK(c) => Hits(c, e, e.j - 1)
      BY <2>2, <3>4, <3>5 DEF Hits
    <3>9. ASSUME ScanOK(c)
          PROVE  /\ e.i <= nbf /\ e.at = bf_array[e.i] /\ e.at # NULL
                 /\ \A id \in seen[c].all : \E k \in e.i .. nbf :
                        /\ e.pc # "miss" /\ bf_array[k] # NULL /\ table[k].bf_id = id
                        /\ bf_check(filt[bf_array[k]], e.key) /\ bf_check(table[k], e.key)
      BY <1>0, <1>6, <2>3, <3>5, <3>9
    <3>10. e.pc # "none" /\ e.pc \notin {"return", "hit"} /\ scan[c].pc # "none"
      BY <1>0, <3>5
    <3> QED
      BY <1>0, <3>5, <3>6, <3>7, <3>8, <3>9, <3>10, MoveScans
  <2> QED
    BY <2>4, <2>5
<1> QED
  BY <1>7, <1>8

\* bf_array[i] is read again: it is the same filter unless one was deleted.
LEMMA ReturnScans ==
    ASSUME Kernel, Scans, NEW c \in Cpu, scan_return(c)
    PROVE  Scans'
<1>1. PICK p : p = bf_array[scan[c].i]
  OBVIOUS
<1>2. PICK e : e = [scan[c] EXCEPT !.pc = IF p = NULL THEN "miss" ELSE "hit", !.at = p]
  OBVIOUS
<1>3. scan \in [Cpu -> ScanObj] /\ scan[c] \in ScanObj /\ ScanTyped(scan[c])
  BY ScanFacts DEF Scans
<1>4. /\ scan[c].pc = "return" /\ scan' = [scan EXCEPT ![c] = e] /\ seen' = seen
      /\ UNCHANGED <<filt, nbf, bf_array, cmd, table>>
  BY <1>1, <1>2, <1>3 DEF scan_return
<1>5. scan[c].i \in Slot /\ scan[c].key \in Mac /\ scan[c].i >= 1 /\ scan[c].j >= 1
  BY <1>3, <1>4 DEF ScanTyped
<1>6. p \in Ptr \cup {NULL}
  BY <1>1, <1>5 DEF Kernel, Typed
<1>7. PICK where \in {"miss", "hit"} : where = IF p = NULL THEN "miss" ELSE "hit"
  OBVIOUS
<1>8. /\ e \in ScanObj /\ e.pc = where /\ e.key = scan[c].key /\ e.i = scan[c].i /\ e.at = p /\ e.j = scan[c].j
  <2>1. PutAt(scan[c], e, where, p)
    BY <1>2, <1>3, <1>6, <1>7 DEF PutAt
  <2> QED
    BY <2>1, ScanAt
<1>9. ScanTyped(e)
  BY <1>5, <1>7, <1>8 DEF ScanTyped
<1>10. Moves(c, e)
  BY <1>3, <1>4, <1>8 DEF Moves
<1>11. ASSUME ScanOK(c)
       PROVE  /\ e.i <= nbf /\ e.at = bf_array[e.i] /\ e.at # NULL /\ e.pc = "hit"
              /\ \A id \in seen[c].all : \E k \in e.i .. nbf :
                    /\ e.pc # "miss" /\ bf_array[k] # NULL /\ table[k].bf_id = id
                    /\ bf_check(filt[bf_array[k]], e.key) /\ bf_check(table[k], e.key)
              /\ Hits(c, e, NFuncs)
  <2>1. /\ scan[c].i <= nbf /\ scan[c].at = bf_array[scan[c].i] /\ scan[c].at # NULL
        /\ \A id \in seen[c].all : Ahead(c, id)
    BY <1>4, <1>11 DEF ScanOK, Kept
  <2>2. p # NULL /\ e.pc = "hit"
    BY <1>1, <1>7, <1>8, <2>1
  <2>3. Met(c) = NFuncs
    BY <1>4 DEF Met
  <2>4. Hits(c, e, NFuncs)
    BY <1>8, <1>11, <2>3 DEF ScanOK, Hits
  <2> QED
    BY <1>1, <1>8, <2>1, <2>2, <2>4 DEF Ahead
<1>12. e.pc # "none" /\ e.pc # "bits" /\ scan[c].pc # "none"
  BY <1>4, <1>7, <1>8
<1> QED
  BY <1>4, <1>8, <1>9, <1>10, <1>11, <1>12, MoveScans
-----------------------------------------------------------------------------
\* Packets.

Where == {"idle", "decap", "lookup", "scan", "upcall", "execute", "done"}

\* A packet that is still here, and one that was disposed of once.
Live(s) == ~s.nohead => ~s.used /\ s.gone = 0
Gone(s) == s.gone >= 1 /\ (~s.nohead => ~s.used /\ s.gone = 1)

LEMMA Touched ==
    ASSUME NEW s \in SkbObj
    PROVE  /\ Touch(s) \in SkbObj /\ Touch(s).pc = s.pc
           /\ Touch(s).acts = s.acts /\ Touch(s).outer = s.outer
           /\ Touch(s).nohead = s.nohead /\ Touch(s).gone = s.gone
           /\ Live(s) => Live(Touch(s))
<1>1. PICK u : u = (s.used \/ s.gone > 0)
  OBVIOUS
<1>2. u \in BOOLEAN
  BY <1>1
<1>3. Touch(s) = [s EXCEPT !.used = u]
  BY <1>1 DEF Touch
<1>4. [s EXCEPT !.used = u] \in SkbObj
  BY <1>2 DEF SkbObj
<1>5. /\ [s EXCEPT !.used = u].pc = s.pc /\ [s EXCEPT !.used = u].acts = s.acts
      /\ [s EXCEPT !.used = u].nohead = s.nohead /\ [s EXCEPT !.used = u].gone = s.gone
      /\ [s EXCEPT !.used = u].used = u /\ [s EXCEPT !.used = u].outer = s.outer
  BY DEF SkbObj
<1>6. s.gone = 0 => ~(s.gone > 0)
  BY SMT
<1>7. Live(s) => Live(Touch(s))
  BY <1>1, <1>3, <1>5, <1>6 DEF Live
<1> QED
  BY <1>3, <1>4, <1>5, <1>7

LEMMA Disposed ==
    ASSUME NEW s \in SkbObj
    PROVE  /\ Dispose(s) \in SkbObj /\ Dispose(s).pc = s.pc
           /\ Dispose(s).acts = s.acts /\ Dispose(s).outer = s.outer
           /\ Dispose(s).nohead = s.nohead
           /\ Live(s) => Gone(Dispose(s))
<1>1. PICK t, n : t = Touch(s) /\ n = t.gone + 1
  OBVIOUS
<1>2. /\ t \in SkbObj /\ t.pc = s.pc /\ t.acts = s.acts /\ t.outer = s.outer
      /\ t.nohead = s.nohead /\ t.gone = s.gone
      /\ Live(s) => Live(t)
  BY <1>1, Touched
<1>3. t.gone \in Nat
  BY <1>2 DEF SkbObj
<1>4. n \in Nat /\ n >= 1 /\ (t.gone = 0 => n = 1)
  BY ONLY <1>1, <1>3, SMT
<1>5. Dispose(s) = [t EXCEPT !.gone = n]
  BY <1>1 DEF Dispose
<1>6. [t EXCEPT !.gone = n] \in SkbObj
  BY <1>2, <1>4 DEF SkbObj
<1>7. /\ [t EXCEPT !.gone = n].pc = t.pc /\ [t EXCEPT !.gone = n].acts = t.acts
      /\ [t EXCEPT !.gone = n].nohead = t.nohead /\ [t EXCEPT !.gone = n].used = t.used
      /\ [t EXCEPT !.gone = n].gone = n /\ [t EXCEPT !.gone = n].outer = t.outer
  BY <1>2 DEF SkbObj
<1>8. Live(s) => Gone(Dispose(s))
  BY <1>2, <1>4, <1>5, <1>7 DEF Live, Gone
<1> QED
  BY <1>2, <1>5, <1>6, <1>7, <1>8

LEMMA Sent ==
    ASSUME NEW s \in SkbObj, NEW w \in Where
    PROVE  /\ To(s, w) \in SkbObj /\ To(s, w).pc = w
           /\ To(s, w).acts = s.acts /\ To(s, w).outer = s.outer
           /\ Live(s) => Live(To(s, w))
           /\ Gone(s) => Gone(To(s, w))
<1>1. To(s, w) = [s EXCEPT !.pc = w]
  BY DEF To
<1>2. [s EXCEPT !.pc = w] \in SkbObj
  BY DEF SkbObj, Where
<1>3. /\ [s EXCEPT !.pc = w].pc = w /\ [s EXCEPT !.pc = w].acts = s.acts
      /\ [s EXCEPT !.pc = w].nohead = s.nohead /\ [s EXCEPT !.pc = w].used = s.used
      /\ [s EXCEPT !.pc = w].gone = s.gone /\ [s EXCEPT !.pc = w].outer = s.outer
  BY DEF SkbObj
<1> QED
  BY <1>1, <1>2, <1>3 DEF Live, Gone

\* A list of actions is given to a packet.
LEMMA Listed ==
    ASSUME NEW s \in SkbObj, NEW list \in Seq(Action)
    PROVE  /\ [s EXCEPT !.acts = list] \in SkbObj /\ [s EXCEPT !.acts = list].pc = s.pc
           /\ [s EXCEPT !.acts = list].acts = list /\ [s EXCEPT !.acts = list].outer = s.outer
           /\ Live(s) => Live([s EXCEPT !.acts = list])
<1>1. [s EXCEPT !.acts = list] \in SkbObj
  BY DEF SkbObj
<1>2. /\ [s EXCEPT !.acts = list].pc = s.pc /\ [s EXCEPT !.acts = list].nohead = s.nohead
      /\ [s EXCEPT !.acts = list].used = s.used /\ [s EXCEPT !.acts = list].gone = s.gone
      /\ [s EXCEPT !.acts = list].acts = list /\ [s EXCEPT !.acts = list].outer = s.outer
  BY DEF SkbObj
<1> QED
  BY <1>1, <1>2 DEF Live

LEMMA NextAction ==
    ASSUME NEW s \in SkbObj, s.acts # <<>>, NEW out \in BOOLEAN
    PROVE  /\ Ok(s, out) \in SkbObj /\ Ok(s, out).pc = s.pc
           /\ Ok(s, out).acts = Tail(s.acts) /\ Ok(s, out).outer = s.outer
           /\ Live(s) => Live(Ok(s, out))
<1>1. PICK t, l : t = Touch(s) /\ l = Tail(s.acts)
  OBVIOUS
<1>2. /\ t \in SkbObj /\ t.pc = s.pc /\ t.acts = s.acts /\ t.outer = s.outer
      /\ Live(s) => Live(t)
  BY <1>1, Touched
<1>3. s.acts \in Seq(Action)
  BY DEF SkbObj
<1>4. l \in Seq(Action)
  BY <1>1, <1>3, HeadTailProperties
<1>5. PICK u : u = [t EXCEPT !.acts = l]
  OBVIOUS
<1>6. u \in SkbObj /\ u.pc = t.pc /\ u.acts = l /\ u.outer = t.outer /\ (Live(t) => Live(u))
  BY <1>2, <1>4, <1>5, Listed
<1>7. Ok(s, out) = [u EXCEPT !.prev_port = out]
  BY <1>1, <1>2, <1>5 DEF Ok
<1>8. [u EXCEPT !.prev_port = out] \in SkbObj
  BY <1>6 DEF SkbObj
<1>9. /\ [u EXCEPT !.prev_port = out].pc = u.pc /\ [u EXCEPT !.prev_port = out].nohead = u.nohead
      /\ [u EXCEPT !.prev_port = out].used = u.used /\ [u EXCEPT !.prev_port = out].gone = u.gone
      /\ [u EXCEPT !.prev_port = out].acts = u.acts /\ [u EXCEPT !.prev_port = out].outer = u.outer
  BY <1>6 DEF SkbObj
<1> QED
  BY <1>1, <1>2, <1>6, <1>7, <1>8, <1>9 DEF Live

\* A packet without room for a header is freed and sent all the same.
LEMMA Encapsulation ==
    ASSUME NEW s \in SkbObj, NEW e \in Encapsulated(s)
    PROVE  e \in SkbObj /\ e.pc = s.pc /\ e.acts = s.acts /\ e.outer = s.outer /\ (Live(s) => Live(e))
<1>1. CASE e = Touch(s)
  BY <1>1, Touched
<1>2. CASE e = [Touch(Dispose(s)) EXCEPT !.nohead = TRUE]
  <2>1. PICK t : t = Touch(Dispose(s))
    OBVIOUS
  <2>2. t \in SkbObj /\ t.pc = s.pc /\ t.acts = s.acts /\ t.outer = s.outer
    BY <2>1, Touched, Disposed
  <2>3. e = [t EXCEPT !.nohead = TRUE]
    BY <1>2, <2>1
  <2>4. [t EXCEPT !.nohead = TRUE] \in SkbObj
    BY <2>2 DEF SkbObj
  <2>5. /\ [t EXCEPT !.nohead = TRUE].pc = t.pc /\ [t EXCEPT !.nohead = TRUE].acts = t.acts
        /\ [t EXCEPT !.nohead = TRUE].nohead = TRUE /\ [t EXCEPT !.nohead = TRUE].outer = t.outer
    BY <2>2 DEF SkbObj
  <2> QED
    BY <2>2, <2>3, <2>4, <2>5 DEF Live
<1> QED
  BY <1>1, <1>2 DEF Encapsulated

\* The remaining list of the call around joins the ones it is in.
LEMMA Pushing ==
    ASSUME NEW list \in Seq(Action), NEW o \in Seq(Seq(Action))
    PROVE  <<list>> \o o \in Seq(Seq(Action)) /\ Len(<<list>> \o o) = 1 + Len(o)
BY SMT

\* A SAMPLE is passed over, or its list is what comes next.
LEMMA Sampling ==
    ASSUME NEW s \in SkbObj, s.acts # <<>>, Head(s.acts) \in Sample, NEW e \in Sampled(s)
    PROVE  /\ e \in SkbObj /\ e.pc = s.pc /\ (Live(s) => Live(e))
           /\ \/ e.outer = s.outer /\ e.acts = Tail(s.acts)
              \/ e.outer = <<Tail(s.acts)>> \o s.outer /\ e.acts = Nested[Head(s.acts)]
<1>1. PICK t, l, o : t = Ok(s, FALSE) /\ l = Nested[Head(s.acts)] /\ o = <<Tail(s.acts)>> \o s.outer
  OBVIOUS
<1>2. /\ t \in SkbObj /\ t.pc = s.pc /\ t.acts = Tail(s.acts) /\ t.outer = s.outer
      /\ Live(s) => Live(t)
  BY <1>1, NextAction
<1>3. l \in Seq(Action)
  BY <1>1, DatapathAssumption
<1>4. o \in Seq(Seq(Action))
  <2>1. Tail(s.acts) \in Seq(Action) /\ s.outer \in Seq(Seq(Action))
    BY <1>2 DEF SkbObj
  <2> QED
    BY <1>1, <2>1, Pushing
<1>5. PICK u : u = [t EXCEPT !.acts = l]
  OBVIOUS
<1>6. u \in SkbObj /\ u.pc = t.pc /\ u.acts = l /\ u.outer = t.outer /\ (Live(t) => Live(u))
  BY <1>2, <1>3, <1>5, Listed
<1>7. PICK v : v = [u EXCEPT !.outer = o]
  OBVIOUS
<1>8. v \in SkbObj
  BY <1>4, <1>6, <1>7 DEF SkbObj
<1>9. /\ v.pc = u.pc /\ v.acts = u.acts /\ v.outer = o /\ v.nohead = u.nohead
      /\ v.used = u.used /\ v.gone = u.gone
  BY <1>6, <1>7 DEF SkbObj
<1>10. Live(u) => Live(v)
  BY <1>9 DEF Live
<1>11. e = t \/ e = [t EXCEPT !.acts = l, !.outer = <<t.acts>> \o @]
  BY <1>1 DEF Sampled
<1>12. [t EXCEPT !.acts = l, !.outer = <<t.acts>> \o @] = v
  BY <1>1, <1>2, <1>5, <1>6, <1>7
<1>13. CASE e = t
  BY <1>2, <1>13
<1>14. CASE e = v
  BY <1>1, <1>2, <1>6, <1>8, <1>9, <1>10, <1>14
<1> QED
  BY <1>11, <1>12, <1>13, <1>14

\* A packet whose action fails is freed, once if the action is not inside a SAMPLE.
LEMMA Failing ==
    ASSUME NEW s \in SkbObj, Live(s)
    PROVE  Failed(s) \in SkbObj /\ SkbOK(Failed(s)) /\ Failed(s).outer = s.outer
<1>1. PICK t, n, u : t = To(Dispose(s), "done") /\ n = t.gone + Len(s.outer) /\ u = (t.used \/ s.outer # <<>>)
  OBVIOUS
<1>2. Dispose(s) \in SkbObj /\ Dispose(s).outer = s.outer /\ Gone(Dispose(s))
  BY Disposed
<1>3. t \in SkbObj /\ t.pc = "done" /\ t.outer = s.outer /\ Gone(t)
  BY <1>1, <1>2, Sent DEF Where
<1>4. t.gone \in Nat /\ s.outer \in Seq(Seq(Action)) /\ u \in BOOLEAN /\ t.gone >= 1
  BY <1>1, <1>3 DEF SkbObj, Gone
<1>5. Len(s.outer) \in Nat /\ (s.outer = <<>> => Len(s.outer) = 0)
  BY <1>4, LenProperties, EmptySeq
<1>6. n \in Nat /\ n >= 1 /\ (Len(s.outer) = 0 => n = t.gone)
  BY ONLY <1>1, <1>4, <1>5, SMT
<1>7. PICK v : v = [t EXCEPT !.gone = n]
  OBVIOUS
<1>8. v \in SkbObj /\ v.pc = "done" /\ v.outer = s.outer /\ v.gone = n /\ v.used = t.used /\ v.nohead = t.nohead
  BY <1>3, <1>6, <1>7 DEF SkbObj
<1>9. PICK w : w = [v EXCEPT !.used = u]
  OBVIOUS
<1>10. w \in SkbObj /\ w.pc = "done" /\ w.outer = s.outer /\ w.gone = n /\ w.used = u /\ w.nohead = t.nohead
  BY <1>4, <1>8, <1>9 DEF SkbObj
<1>11. Failed(s) = w
  BY <1>1, <1>3, <1>7, <1>8, <1>9 DEF Failed
<1>12. ASSUME ~w.nohead, ~FailedInSample(w) PROVE ~w.used /\ w.gone = 1
  <2>1. s.outer = <<>>
    BY <1>10, <1>12 DEF FailedInSample
  <2>2. ~t.used /\ t.gone = 1
    BY <1>3, <1>10, <1>12 DEF Gone
  <2> QED
    BY <1>1, <1>5, <1>6, <1>10, <2>1, <2>2
<1> QED
  BY <1>6, <1>10, <1>11, <1>12 DEF SkbOK

\* At the end of its own list a packet is given away; at the end of a list inside a
\* SAMPLE it goes back to the list around it.
LEMMA Ending ==
    ASSUME NEW s \in SkbObj, s.pc = "execute", Live(s)
    PROVE  /\ Ended(s) \in SkbObj /\ SkbOK(Ended(s))
           /\ s.outer = <<>> => Ended(s).outer = <<>>
           /\ s.outer # <<>> => Ended(s).outer = Tail(s.outer)
<1>1. CASE s.outer = <<>>
  <2>1. Ended(s) = To(Dispose(s), "done")
    BY <1>1 DEF Ended
  <2>2. Dispose(s) \in SkbObj /\ Gone(Dispose(s)) /\ Dispose(s).outer = <<>>
    BY <1>1, Disposed
  <2>3. /\ To(Dispose(s), "done") \in SkbObj /\ To(Dispose(s), "done").pc = "done"
        /\ Gone(To(Dispose(s), "done")) /\ To(Dispose(s), "done").outer = <<>>
    BY <2>2, Sent DEF Where
  <2> QED
    BY <1>1, <2>1, <2>3 DEF SkbOK, Gone
<1>2. CASE s.outer # <<>>
  <2>1. PICK t, l, o : t = Touch(s) /\ l = Head(s.outer) /\ o = Tail(s.outer)
    OBVIOUS
  <2>2. t \in SkbObj /\ t.pc = "execute" /\ t.outer = s.outer /\ Live(t)
    BY <2>1, Touched
  <2>3. s.outer \in Seq(Seq(Action))
    BY DEF SkbObj
  <2>4. l \in Seq(Action) /\ o \in Seq(Seq(Action))
    BY <1>2, <2>1, <2>3, HeadTailProperties
  <2>5. PICK u : u = [t EXCEPT !.acts = l]
    OBVIOUS
  <2>6. u \in SkbObj /\ u.pc = "execute" /\ u.outer = s.outer /\ Live(u)
    BY <2>2, <2>4, <2>5, Listed
  <2>7. PICK v : v = [u EXCEPT !.outer = o]
    OBVIOUS
  <2>8. v \in SkbObj /\ v.pc = u.pc /\ v.outer = o /\ v.nohead = u.nohead /\ v.used = u.used /\ v.gone = u.gone
    BY <2>4, <2>6, <2>7 DEF SkbObj
  <2>9. PICK w : w = [v EXCEPT !.prev_port = FALSE]
    OBVIOUS
  <2>10. w \in SkbObj /\ w.pc = v.pc /\ w.outer = v.outer /\ w.nohead = v.nohead /\ w.used = v.used /\ w.gone = v.gone
    BY <2>8, <2>9 DEF SkbObj
  <2>11. Ended(s) = w
    BY <1>2, <2>1, <2>2, <2>5, <2>6, <2>7, <2>9 DEF Ended
  <2>12. Live(w) /\ w.pc = "execute"
    BY <2>6, <2>8, <2>10 DEF Live
  <2> QED
    BY <1>2, <2>1, <2>8, <2>10, <2>11, <2>12 DEF SkbOK, Live
<1> QED
  BY <1>1, <1>2

\* What may become of an action.
LEMMA Outcomes ==
    ASSUME NEW s \in SkbObj, s.acts # <<>>, NEW e \in Executed(s)
    PROVE  /\ \/ e \in {Ok(s, TRUE), Ok(s, FALSE), Failed(s)}
              \/ \E t \in Encapsulated(s) : e = Ok(t, TRUE)
              \/ Head(s.acts) \in Sample /\ e \in Sampled(s)
           /\ Head(s.acts) = "USERSPACE" => e = Ok(s, FALSE)
<1>1. s.acts \in Seq(Action)
  BY DEF SkbObj
<1>2. Head(s.acts) \in Action
  BY <1>1, HeadTailProperties
<1>3. \A a \in Plain : a \notin Sample
  BY DatapathAssumption
<1>4. CASE Head(s.acts) = "OUTPUT"
  <2>1. e = Ok(s, TRUE)
    BY <1>3, <1>4 DEF Executed, Plain
  <2> QED
    BY <1>4, <2>1
<1>5. CASE Head(s.acts) = "REMOTE"
  <2>1. \E t \in Encapsulated(s) : e = Ok(t, TRUE)
    BY <1>3, <1>5 DEF Executed, Plain
  <2> QED
    BY <1>5, <2>1
<1>6. CASE Head(s.acts) = "USERSPACE"
  <2>1. e = Ok(s, FALSE)
    BY <1>3, <1>6 DEF Executed, Plain
  <2> QED
    BY <2>1
<1>7. CASE Head(s.acts) \in {"SET", "PUSH_VLAN"}
  <2>1. e = Ok(s, FALSE) \/ e = Failed(s)
    BY <1>3, <1>7 DEF Executed, Plain
  <2> QED
    BY <1>7, <2>1
<1>8. CASE Head(s.acts) \in Sample
  <2>1. Head(s.acts) \notin Plain
    BY <1>3, <1>8
  <2>2. e \in Sampled(s)
    BY <1>8, <2>1 DEF Executed, Plain
  <2> QED
    BY <1>8, <2>1, <2>2 DEF Plain
<1> QED
  BY <1>2, <1>4, <1>5, <1>6, <1>7, <1>8 DEF Action, Plain

\* Whatever becomes of an action, the packet is disposed of when it is done.
LEMMA Execution ==
    ASSUME NEW s \in SkbObj, s.acts # <<>>, s.pc = "execute", SkbOK(s), NEW e \in Executed(s)
    PROVE  e \in SkbObj /\ SkbOK(e)
<1>1. Live(s)
  BY DEF SkbOK, Live, FailedInSample
<1>2. \A t \in SkbObj : t.pc = "execute" /\ Live(t) => SkbOK(t)
  BY DEF SkbOK, Live
<1>3. CASE e \in {Ok(s, TRUE), Ok(s, FALSE)}
  BY <1>1, <1>2, <1>3, NextAction
<1>4. CASE e = Failed(s)
  BY <1>1, <1>4, Failing
<1>5. CASE \E t \in Encapsulated(s) : e = Ok(t, TRUE)
  <2>1. PICK t \in Encapsulated(s) : e = Ok(t, TRUE)
    BY <1>5
  <2>2. t \in SkbObj /\ t.pc = "execute" /\ t.acts # <<>> /\ Live(t)
    BY <1>1, Encapsulation
  <2>3. Ok(t, TRUE) \in SkbObj /\ Ok(t, TRUE).pc = "execute" /\ Live(Ok(t, TRUE))
    BY <2>2, NextAction
  <2> QED
    BY <1>2, <2>1, <2>3
<1>6. CASE Head(s.acts) \in Sample /\ e \in Sampled(s)
  BY <1>1, <1>2, <1>6, Sampling
<1> QED
  BY <1>3, <1>4, <1>5, <1>6, Outcomes

\* A step of the packet on processor c.
LEMMA OnePacket ==
    ASSUME Packets, NEW c \in Cpu, NEW e \in SkbObj, SkbOK(e), skb' = [skb EXCEPT ![c] = e],
           \A d \in Cpu \ {c} : scan'[d] = scan[d],
           scan'[c].pc # "none" => e.pc = "scan"
    PROVE  Packets'
<1>1. skb \in [Cpu -> SkbObj] /\ \A d \in Cpu : SkbOK(skb[d]) /\ (scan[d].pc # "none" => skb[d].pc = "scan")
  BY DEF Packets
<1>2. skb' \in [Cpu -> SkbObj] /\ skb'[c] = e /\ \A d \in Cpu \ {c} : skb'[d] = skb[d]
  BY <1>1
<1>3. ASSUME NEW d \in Cpu PROVE SkbOK(skb'[d]) /\ (scan'[d].pc # "none" => skb'[d].pc = "scan")
  <2>1. CASE d = c
    BY <1>2, <2>1
  <2>2. CASE d # c
    <3>1. skb'[d] = skb[d] /\ scan'[d] = scan[d]
      BY <1>2, <2>2
    <3> QED
      BY <1>1, <3>1
  <2> QED
    BY <2>1, <2>2
<1> QED
  BY <1>2, <1>3 DEF Packets

\* A packet that is neither done nor searched for is live.
LEMMA PacketFacts ==
    ASSUME Packets, NEW c \in Cpu
    PROVE  /\ skb[c] \in SkbObj /\ SkbOK(skb[c])
           /\ skb[c].pc # "done" => Live(skb[c])
           /\ skb[c].pc # "scan" => scan[c].pc = "none"
           /\ scan[c].pc # "none" => skb[c].pc = "scan"
<1>1. skb[c] \in SkbObj /\ SkbOK(skb[c]) /\ (scan[c].pc # "none" => skb[c].pc = "scan")
  BY DEF Packets
<1> QED
  BY <1>1 DEF SkbOK, Live, FailedInSample

\* Where a live packet may go, and how it ends.
LEMMA GoesOn ==
    ASSUME NEW s \in SkbObj, Live(s), NEW w \in Where \ {"done"}
    PROVE  /\ To(Touch(s), w) \in SkbObj /\ SkbOK(To(Touch(s), w)) /\ To(Touch(s), w).pc = w
           /\ Live(To(Touch(s), w))
           /\ To(s, w) \in SkbObj /\ SkbOK(To(s, w)) /\ To(s, w).pc = w /\ Live(To(s, w))
<1>1. Touch(s) \in SkbObj /\ Live(Touch(s))
  BY Touched
<1>2. \A t \in SkbObj : t.pc = w /\ Live(t) => SkbOK(t)
  BY DEF SkbOK, Live
<1>3. To(Touch(s), w) \in SkbObj /\ To(Touch(s), w).pc = w /\ Live(To(Touch(s), w))
  BY <1>1, Sent
<1>4. To(s, w) \in SkbObj /\ To(s, w).pc = w /\ Live(To(s, w))
  BY Sent
<1> QED
  BY <1>2, <1>3, <1>4

LEMMA Ends ==
    ASSUME NEW s \in SkbObj, Live(s)
    PROVE  To(Dispose(s), "done") \in SkbObj /\ SkbOK(To(Dispose(s), "done"))
<1>1. Dispose(s) \in SkbObj /\ Gone(Dispose(s))
  BY Disposed
<1>2. To(Dispose(s), "done") \in SkbObj /\ To(Dispose(s), "done").pc = "done" /\ Gone(To(Dispose(s), "done"))
  BY <1>1, Sent DEF Where
<1> QED
  BY <1>2 DEF SkbOK, Gone

LEMMA NoPacketOK ==
    ASSUME NEW w \in Where \ {"done"}, NEW t \in BOOLEAN
    PROVE  /\ NoPacket \in SkbObj /\ SkbOK(NoPacket)
           /\ [NoPacket EXCEPT !.encaped = t, !.pc = w] \in SkbObj
           /\ SkbOK([NoPacket EXCEPT !.encaped = t, !.pc = w])
<1>1. <<>> \in Seq(Action) /\ <<>> \in Seq(Seq(Action))
  BY EmptySeq
<1>2. /\ NoPacket \in SkbObj /\ NoPacket.pc = "idle" /\ NoPacket.used = FALSE /\ NoPacket.gone = 0
  <2>1. 0 \in Nat
    BY Zenon
  <2> QED
    BY <1>1, <2>1 DEF NoPacket, SkbObj
<1>3. PICK d : d = [NoPacket EXCEPT !.encaped = t]
  OBVIOUS
<1>4. d \in SkbObj /\ d.used = FALSE /\ d.gone = 0
  BY <1>2, <1>3 DEF SkbObj
<1>5. Live(NoPacket) /\ Live(d)
  BY <1>2, <1>4 DEF Live
<1>6. [NoPacket EXCEPT !.encaped = t, !.pc = w] = To(d, w)
  BY <1>3 DEF To
<1>7. To(d, w) \in SkbObj /\ SkbOK(To(d, w))
  BY <1>4, <1>5, GoesOn
<1>8. SkbOK(NoPacket)
  BY <1>2, <1>5 DEF SkbOK, Live
<1> QED
  BY <1>2, <1>6, <1>7, <1>8

\* A step of a packet that does not touch the searches.
LEMMA AlonePacket ==
    ASSUME Packets, NEW c \in Cpu, NEW e \in SkbObj, SkbOK(e), skb' = [skb EXCEPT ![c] = e],
           skb[c].pc # "scan", scan' = scan
    PROVE  Packets'
BY PacketFacts, OnePacket

LEMMA ReceiveStep ==
    ASSUME IInv, NEW c \in Cpu, NEW tunnel \in BOOLEAN, ovs_vport_receive(c, tunnel)
    PROVE  Packets' /\ UNCHANGED kvars
<1>1. PICK w \in {"decap", "lookup"} : w = IF tunnel THEN "decap" ELSE "lookup"
  OBVIOUS
<1>2. PICK e : e = [NoPacket EXCEPT !.encaped = tunnel, !.pc = w]
  OBVIOUS
<1>3. skb[c].pc = "idle" /\ skb' = [skb EXCEPT ![c] = e] /\ UNCHANGED kvars
  BY <1>1, <1>2 DEF ovs_vport_receive
<1>4. w \in Where \ {"done"}
  BY DEF Where
<1>5. e \in SkbObj /\ SkbOK(e)
  BY <1>2, <1>4, NoPacketOK
<1>6. scan' = scan
  BY <1>3 DEF kvars
<1>7. Packets /\ skb[c].pc # "scan"
  BY <1>3 DEF IInv
<1> QED
  BY <1>3, <1>5, <1>6, <1>7, AlonePacket

\* The steps of a packet outside the search.
QuietStep(c) ==
    \/ decapulation(c) \/ flow_extract_fails(c)
    \/ \E list \in FlowActions : flow_hit(c, list)
    \/ ovs_dp_upcall(c)
    \/ do_execute_action(c) \/ do_execute_end(c) \/ done(c)

LEMMA QuietPacket ==
    ASSUME IInv, NEW c \in Cpu, QuietStep(c)
    PROVE  Packets' /\ UNCHANGED kvars
<1>0. UNCHANGED kvars
  BY DEF QuietStep, decapulation, flow_extract_fails, flow_hit, ovs_dp_upcall, do_execute_action,
         do_execute_end, done
<1>1. PICK s : s = skb[c]
  OBVIOUS
<1>2. Packets /\ scan' = scan
  BY <1>0 DEF IInv, kvars
<1>3. s \in SkbObj /\ SkbOK(s) /\ (s.pc # "done" => Live(s))
  BY <1>1, <1>2, PacketFacts
<1>4. s.pc # "scan" /\ \E e : skb' = [skb EXCEPT ![c] = e] /\ e \in SkbObj /\ SkbOK(e)
  <2>1. ASSUME s.pc \notin {"done", "scan"}, skb' = [skb EXCEPT ![c] = To(Dispose(skb[c]), "done")]
        PROVE  s.pc # "scan" /\ \E e : skb' = [skb EXCEPT ![c] = e] /\ e \in SkbObj /\ SkbOK(e)
    <3>1. To(Dispose(s), "done") \in SkbObj /\ SkbOK(To(Dispose(s), "done"))
      BY <1>3, <2>1, Ends
    <3> QED
      BY <1>1, <2>1, <3>1
  <2>2. CASE decapulation(c)
    <3>1. s.pc = "decap"
      BY <1>1, <2>2 DEF decapulation
    <3>2. CASE skb' = [skb EXCEPT ![c] = To(Dispose(skb[c]), "done")]
      BY <2>1, <3>1, <3>2
    <3>3. CASE skb' = [skb EXCEPT ![c] = To(Touch(skb[c]), "lookup")]
      <4>1. To(Touch(s), "lookup") \in SkbObj /\ SkbOK(To(Touch(s), "lookup"))
        BY <1>3, <3>1, GoesOn DEF Where
      <4> QED
        BY <1>1, <3>1, <3>3, <4>1
    <3> QED
      BY <2>2, <3>2, <3>3 DEF decapulation
  <2>3. CASE flow_extract_fails(c)
    <3>1. s.pc = "lookup" /\ skb' = [skb EXCEPT ![c] = To(Dispose(skb[c]), "done")]
      BY <1>1, <2>3 DEF flow_extract_fails
    <3> QED
      BY <2>1, <3>1
  <2>4. CASE \E list \in FlowActions : flow_hit(c, list)
    <3>1. PICK list \in FlowActions : flow_hit(c, list)
      BY <2>4
    <3>2. PICK t : t = To(Touch(s), "execute")
      OBVIOUS
    <3>3. s.pc = "lookup" /\ skb' = [skb EXCEPT ![c] = [t EXCEPT !.acts = list]]
      BY <1>1, <3>1, <3>2 DEF flow_hit
    <3>4. t \in SkbObj /\ Live(t) /\ t.pc = "execute"
      BY <1>3, <3>2, <3>3, GoesOn DEF Where
    <3>5. list \in Seq(Action)
      BY DatapathAssumption
    <3>6. PICK e : e = [t EXCEPT !.acts = list]
      OBVIOUS
    <3>7. e \in SkbObj /\ e.pc = "execute" /\ Live(e)
      BY <3>4, <3>5, <3>6, Listed
    <3>8. SkbOK(e)
      BY <3>7 DEF SkbOK, Live
    <3> QED
      BY <3>3, <3>6, <3>7, <3>8
  <2>5. CASE ovs_dp_upcall(c)
    <3>1. s.pc = "upcall" /\ skb' = [skb EXCEPT ![c] = To(Dispose(skb[c]), "done")]
      BY <1>1, <2>5 DEF ovs_dp_upcall
    <3> QED
      BY <2>1, <3>1
  <2>6. CASE do_execute_action(c)
    <3>1. s.pc = "execute" /\ s.acts # <<>> /\ \E e \in Executed(s) : skb' = [skb EXCEPT ![c] = e]
      BY <1>1, <2>6 DEF do_execute_action
    <3> QED
      BY <1>3, <3>1, Execution
  <2>7. CASE do_execute_end(c)
    <3>1. s.pc = "execute" /\ skb' = [skb EXCEPT ![c] = Ended(s)]
      BY <1>1, <2>7 DEF do_execute_end
    <3>2. Ended(s) \in SkbObj /\ SkbOK(Ended(s))
      BY <1>3, <3>1, Ending
    <3> QED
      BY <3>1, <3>2
  <2>8. CASE done(c)
    <3>1. s.pc = "done" /\ skb' = [skb EXCEPT ![c] = NoPacket]
      BY <1>1, <2>8 DEF done
    <3>2. NoPacket \in SkbObj /\ SkbOK(NoPacket)
      <4>1. "idle" \in Where \ {"done"} /\ TRUE \in BOOLEAN
        BY DEF Where
      <4> QED
        BY <4>1, NoPacketOK
    <3> QED
      BY <3>1, <3>2
  <2> QED
    BY <2>2, <2>3, <2>4, <2>5, <2>6, <2>7, <2>8 DEF QuietStep
<1> QED
  BY <1>0, <1>1, <1>2, <1>4, AlonePacket

\* A packet without a flow is searched for or handed up.
LEMMA MissStep ==
    ASSUME IInv, NEW c \in Cpu, flow_miss(c)
    PROVE  IInv'
<1>0. Kernel /\ Scans /\ Packets
  BY DEF IInv
<1>1. PICK s : s = skb[c]
  OBVIOUS
<1>2. /\ s.pc = "lookup" /\ gdt' = gdt
      /\ kmem' = kmem /\ filt' = filt /\ nbf' = nbf /\ bf_array' = bf_array /\ cmd' = cmd /\ table' = table
  BY <1>1 DEF flow_miss
<1>3. s \in SkbObj /\ Live(s) /\ scan[c].pc = "none"
  BY <1>0, <1>1, <1>2, PacketFacts
<1>4. Kernel'
  BY <1>0, <1>2, SameKernel
<1>5. CASE /\ \E m \in Mac : scan_begin(c, m)
           /\ skb' = [skb EXCEPT ![c] = To(Touch(skb[c]), "scan")]
  <2>1. PICK m \in Mac : scan_begin(c, m)
    BY <1>5
  <2>2. Scans'
    BY <1>0, <1>2, <2>1, BeginScans
  <2>3. PICK e : e = To(Touch(s), "scan")
    OBVIOUS
  <2>4. e \in SkbObj /\ SkbOK(e) /\ e.pc = "scan"
    BY <1>3, <2>3, GoesOn DEF Where
  <2>5. \A d \in Cpu \ {c} : scan'[d] = scan[d]
    BY <1>0, <2>1 DEF scan_begin, Scans
  <2>6. Packets'
    BY <1>0, <1>1, <1>5, <2>3, <2>4, <2>5, OnePacket
  <2> QED
    BY <1>4, <2>2, <2>6 DEF IInv
<1>6. CASE /\ skb' = [skb EXCEPT ![c] = To(Touch(skb[c]), "upcall")]
           /\ UNCHANGED <<scan, seen>>
  <2>1. PICK e : e = To(Touch(s), "upcall")
    OBVIOUS
  <2>2. e \in SkbObj /\ SkbOK(e)
    BY <1>3, <2>1, GoesOn DEF Where
  <2>3. Packets'
    BY <1>0, <1>1, <1>2, <1>6, <2>1, <2>2, AlonePacket
  <2>4. Scans'
    BY <1>0, <1>2, <1>6, SameScans
  <2> QED
    BY <1>4, <2>3, <2>4 DEF IInv
<1> QED
  BY <1>5, <1>6 DEF flow_miss

\* A step of a search and the packet it is for.
LEMMA SearchStep ==
    ASSUME Kernel, Packets, Scans', NEW c \in Cpu, skb[c].pc = "scan", skb' = skb,
           UNCHANGED <<gdt, kmem, filt, nbf, bf_array, cmd, table>>,
           \A d \in Cpu \ {c} : scan'[d] = scan[d]
    PROVE  IInv'
<1>1. Kernel'
  BY SameKernel
<1>2. ASSUME NEW d \in Cpu PROVE scan'[d].pc # "none" => skb'[d].pc = "scan"
  <2>1. CASE d = c
    BY <2>1
  <2>2. CASE d # c
    <3>1. scan'[d] = scan[d]
      BY <2>2
    <3> QED
      BY <3>1 DEF Packets
  <2> QED
    BY <2>1, <2>2
<1>3. Packets'
  BY <1>2 DEF Packets
<1> QED
  BY <1>1, <1>3 DEF IInv

\* A step of the search leaves the packet alone.
LEMMA CheckStep ==
    ASSUME IInv, NEW c \in Cpu, bf_gdt_check_step(c)
    PROVE  IInv'
<1>0. Kernel /\ Scans /\ Packets /\ scan \in [Cpu -> ScanObj]
  BY DEF IInv, Scans
<1>1. skb[c].pc = "scan" /\ skb' = skb
  BY DEF bf_gdt_check_step
<1>2. CASE scan_count(c)
  <2>1. UNCHANGED <<gdt, kmem, filt, nbf, bf_array, cmd, table>> /\ \A d \in Cpu \ {c} : scan'[d] = scan[d]
    BY <1>0, <1>2 DEF scan_count
  <2> QED
    BY <1>0, <1>1, <1>2, <2>1, CountScans, SearchStep
<1>3. CASE scan_slot(c)
  <2>1. UNCHANGED <<gdt, kmem, filt, nbf, bf_array, cmd, table>> /\ \A d \in Cpu \ {c} : scan'[d] = scan[d]
    BY <1>0, <1>3 DEF scan_slot, NextSlot
  <2> QED
    BY <1>0, <1>1, <1>3, <2>1, SlotScans, SearchStep
<1>4. CASE scan_bit(c)
  <2>1. UNCHANGED <<gdt, kmem, filt, nbf, bf_array, cmd, table>> /\ \A d \in Cpu \ {c} : scan'[d] = scan[d]
    BY <1>0, <1>4 DEF scan_bit, NextSlot
  <2> QED
    BY <1>0, <1>1, <1>4, <2>1, BitScans, SearchStep
<1>5. CASE scan_return(c)
  <2>1. UNCHANGED <<gdt, kmem, filt, nbf, bf_array, cmd, table>> /\ \A d \in Cpu \ {c} : scan'[d] = scan[d]
    BY <1>0, <1>5 DEF scan_return
  <2> QED
    BY <1>0, <1>1, <1>5, <2>1, ReturnScans, SearchStep
<1> QED
  BY <1>2, <1>3, <1>4, <1>5 DEF bf_gdt_check_step

\* A search that is over makes a flow, or hands the packet up.
LEMMA EndStep ==
    ASSUME IInv, NEW c \in Cpu, build_flow(c) \/ scan_miss(c)
    PROVE  IInv'
<1>0. Kernel /\ Scans /\ Packets
  BY DEF IInv
<1>1. PICK s, t : s = skb[c] /\ t = To(s, "execute")
  OBVIOUS
<1>2. /\ scan[c].pc \in {"hit", "miss"} /\ scan_end(c)
      /\ kmem' = kmem /\ filt' = filt /\ nbf' = nbf /\ bf_array' = bf_array /\ cmd' = cmd /\ table' = table
      /\ gdt' \in {gdt, "oops"}
  BY DEF build_flow, scan_miss
<1>3. s \in SkbObj /\ Live(s) /\ s.pc = "scan"
  BY <1>0, <1>1, <1>2, PacketFacts
<1>4. Kernel'
  BY <1>0, <1>2, SameKernel
<1>5. Scans'
  BY <1>0, <1>2, EndScans
<1>6. /\ \A d \in Cpu \ {c} : scan'[d] = scan[d]
      /\ scan'[c].pc = "none"
  BY <1>0, <1>2, NoScanFacts DEF scan_end, Scans
<1>7. \E e : skb' = [skb EXCEPT ![c] = e] /\ e \in SkbObj /\ SkbOK(e)
  <2>1. CASE build_flow(c)
    <3>1. t \in SkbObj /\ Live(t) /\ t.pc = "execute"
      BY <1>1, <1>3, GoesOn DEF Where
    <3>2. PICK list : list = <<"REMOTE">>
      OBVIOUS
    <3>3. list \in Seq(Action)
      BY <3>2, SMT DEF Action, Plain
    <3>4. PICK e : e = [t EXCEPT !.acts = list]
      OBVIOUS
    <3>5. e \in SkbObj /\ e.pc = "execute" /\ Live(e)
      BY <3>1, <3>3, <3>4, Listed
    <3>6. SkbOK(e)
      BY <3>5 DEF SkbOK, Live
    <3>7. skb' = [skb EXCEPT ![c] = e]
      BY <1>1, <2>1, <3>2, <3>4 DEF build_flow
    <3> QED
      BY <3>5, <3>6, <3>7
  <2>2. CASE scan_miss(c)
    <3>1. skb' = [skb EXCEPT ![c] = To(s, "upcall")]
      BY <1>1, <2>2 DEF scan_miss
    <3>2. To(s, "upcall") \in SkbObj /\ SkbOK(To(s, "upcall"))
      BY <1>3, GoesOn DEF Where
    <3> QED
      BY <3>1, <3>2
  <2> QED
    BY <2>1, <2>2
<1>8. Packets'
  BY <1>0, <1>6, <1>7, OnePacket
<1> QED
  BY <1>4, <1>5, <1>8 DEF IInv

\* A command leaves the packets alone.
LEMMA CommandStep ==
    ASSUME IInv, Command
    PROVE  IInv'
<1>0. Kernel /\ Scans /\ Packets /\ skb' = skb
  BY DEF IInv, Command
<1>1. scan' = scan /\ Kernel' /\ Scans'
  <2>1. ASSUME NEW bf \in Pushed, cmd_set(bf) PROVE scan' = scan /\ Kernel' /\ Scans'
    BY <1>0, <2>1, SetKernel, SetScans DEF cmd_set
  <2>2. ASSUME NEW bf \in Pushed, NEW p \in Ptr, cmd_new(bf, p) PROVE scan' = scan /\ Kernel' /\ Scans'
    BY <1>0, <2>2, NewKernel, NewScans DEF cmd_new
  <2>3. ASSUME store_slot \/ store_count PROVE scan' = scan /\ Kernel' /\ Scans'
    BY <1>0, <2>3, StoreKernel, StoreScans
  <2>4. ASSUME NEW b \in Bit, copy_bit(b) PROVE scan' = scan /\ Kernel' /\ Scans'
    BY <1>0, <2>4, CopyKernel, CopyScans
  <2>5. ASSUME NEW id \in Id, cmd_del(id) PROVE scan' = scan /\ Kernel' /\ Scans'
    <3>1. scan' = scan /\ WatchDelete
      BY <2>5 DEF cmd_del
    <3> QED
      BY <1>0, <2>5, <3>1, DelKernel, DeleteScans
  <2>6. ASSUME del_move \/ del_clear \/ del_shrink PROVE scan' = scan /\ Kernel' /\ Scans'
    <3>1. scan' = scan /\ WatchDelete
      BY <2>6 DEF del_move, del_clear, del_shrink
    <3> QED
      BY <1>0, <2>6, <3>1, MoveKernel, ClearKernel, ShrinkKernel, DeleteScans
  <2>7. ASSUME flush_bf_gdt PROVE scan' = scan /\ Kernel' /\ Scans'
    <3>1. scan' = scan
      BY <2>7 DEF flush_bf_gdt
    <3> QED
      BY <1>0, <2>7, <3>1, FlushKernel, FlushScans
  <2> QED
    BY <2>1, <2>2, <2>3, <2>4, <2>5, <2>6, <2>7 DEF Command
<1>2. Packets'
  BY <1>0, <1>1 DEF Packets
<1> QED
  BY <1>1, <1>2 DEF IInv

LEMMA IInvNext ==
    ASSUME IInv, [Next]_vars
    PROVE  IInv'
<1>1. ASSUME UNCHANGED kvars, Packets' PROVE IInv'
  <2>1. /\ gdt' = gdt /\ kmem' = kmem /\ filt' = filt /\ nbf' = nbf /\ bf_array' = bf_array
        /\ cmd' = cmd /\ table' = table /\ scan' = scan /\ seen' = seen
    BY <1>1 DEF kvars
  <2>2. Kernel'
    BY <2>1, SameKernel DEF IInv
  <2>3. Scans'
    BY <2>1, SameScans DEF IInv
  <2> QED
    BY <1>1, <2>2, <2>3 DEF IInv
<1>2. CASE Command
  BY <1>2, CommandStep
<1>3. ASSUME NEW c \in Cpu, Packet(c) PROVE IInv'
  <2>1. CASE QuietStep(c)
    BY <1>1, <2>1, QuietPacket
  <2>2. CASE flow_miss(c)
    BY <2>2, MissStep
  <2>3. CASE bf_gdt_check_step(c)
    BY <2>3, CheckStep
  <2>4. CASE build_flow(c) \/ scan_miss(c)
    BY <2>4, EndStep
  <2> QED
    BY <1>3, <2>1, <2>2, <2>3, <2>4 DEF Packet, QuietStep
<1>4. ASSUME NEW c \in Cpu, NEW tunnel \in BOOLEAN, ovs_vport_receive(c, tunnel) PROVE IInv'
  BY <1>1, <1>4, ReceiveStep
<1>5. CASE UNCHANGED vars
  <2>1. UNCHANGED kvars /\ skb' = skb /\ scan' = scan
    BY <1>5 DEF vars, kvars
  <2>2. Packets'
    BY <2>1 DEF IInv, Packets
  <2> QED
    BY <1>1, <2>1, <2>2
<1> QED
  BY <1>2, <1>3, <1>4, <1>5 DEF Next

\* The filter a search has read is the one of its slot.
FilterOf(c) == scan[c].at \in kmem /\ filt[scan[c].at].bf_id = table[scan[c].i].bf_id

LEMMA ReadsFilter ==
    ASSUME IInv, NEW c \in Cpu, ScanOK(c), scan[c].pc \in {"bits", "hit"}
    PROVE  FilterOf(c)
<1>0. Kernel /\ Scans
  BY DEF IInv
<1>1. /\ cmd.op \in {"none", "add", "copy"} /\ scan[c].i <= nbf
      /\ scan[c].at = bf_array[scan[c].i] /\ scan[c].at # NULL
  BY DEF ScanOK
<1>2. scan[c].i \in Nat /\ scan[c].i >= 1
  BY <1>0, ScanFacts DEF ScanTyped
<1>3. nbf \in Nat
  BY <1>0, <1>1, Reach
<1>4. scan[c].i \in 1 .. nbf
  BY ONLY <1>1, <1>2, <1>3, SMT
<1> QED
  BY <1>0, <1>1, <1>4, Reach DEF FilterOf

\* A new datapath has one filter, the local one.
LEMMA IInvInit == Init => IInv
<1> SUFFICES ASSUME Init PROVE IInv
  OBVIOUS
<1>1. PICK p \in Ptr :
        /\ gdt = "table" /\ kmem = {p} /\ filt = [q \in Ptr |-> OldFilter] /\ nbf = 1
        /\ bf_array = [i \in Slot |-> IF i = 1 THEN p ELSE NULL]
        /\ cmd = NoCommand
        /\ table = bf_gdt_add_filter(<<>>, Local, LC_BF_LOCAL_PORT)
        /\ scan = [c \in Cpu |-> NoScan]
        /\ seen = [c \in Cpu |-> NoneSeen]
        /\ skb = [c \in Cpu |-> NoPacket]
  BY DEF Init, KInit
<1>2. OldFilter \in bloom_filter
  BY ONLY KernelGdtAssumption, Created, SMT DEF OldFilter, Port
<1>3. ~GdtFull(<<>>)
  BY ONLY BfGdtAssumption, SMT DEF GdtFull
<1>4. table = Append(<<>>, OldFilter)
  BY <1>1, <1>3 DEF bf_gdt_add_filter, OldFilter
<1>5. table \in bf_gdt /\ Len(table) = 1 /\ table[1] = OldFilter
  BY ONLY <1>2, <1>4, SMT DEF bf_gdt
<1>6. DOMAIN table = 1 .. 1 /\ (\A k \in 1 .. 1 : k = 1) /\ 1 \in Slot /\ 1 \in 0 .. BF_GDT_MAX_FILTERS
      /\ 1 <= BF_GDT_MAX_FILTERS /\ \A k \in Slot : k > 1 => k # 1
  <2>1. DOMAIN table = 1 .. 1
    BY <1>5, TableFacts
  <2>2. (\A k \in 1 .. 1 : k = 1) /\ 1 \in Slot /\ 1 \in 0 .. BF_GDT_MAX_FILTERS
        /\ 1 <= BF_GDT_MAX_FILTERS /\ \A k \in Slot : k > 1 => k # 1
    BY ONLY BfGdtAssumption, SMT DEF Slot
  <2> QED
    BY <2>1, <2>2
<1>7. UniqueIds(table) /\ WithinCapacity(table)
  BY <1>5, <1>6 DEF UniqueIds, WithinCapacity
<1>8. /\ filt \in [Ptr -> bloom_filter] /\ bf_array \in [Slot -> Ptr \cup {NULL}]
      /\ filt[p] = OldFilter /\ bf_array[1] = p /\ \A k \in Slot : k > 1 => bf_array[k] = NULL
  BY <1>1, <1>2, <1>6
<1>9. Typed
  BY <1>1, <1>5, <1>6, <1>7, <1>8, NoCommandOp DEF Typed
<1>10. Settled
  <2>1. \A k \in 1 .. nbf : Same(k)
    BY <1>1, <1>5, <1>6, <1>8 DEF Same
  <2>2. Apart(nbf) /\ Free(nbf)
    BY <1>1, <1>6, <1>8 DEF Apart, Free
  <2> QED
    BY <1>1, <1>5, <2>1, <2>2 DEF Settled
<1>11. Kernel
  BY <1>1, <1>9, <1>10, NoCommandOp DEF Kernel, SlotsOK
<1>12. Scans
  <2>1. NoneSeen \in SeenObj
    BY SeenFacts
  <2>2. scan \in [Cpu -> ScanObj] /\ seen \in [Cpu -> SeenObj] /\ \A c \in Cpu : scan[c] = NoScan
    BY <1>1, <2>1, NoScanFacts
  <2> QED
    BY <2>2, NoScanFacts DEF Scans, Undisturbed
<1>13. Packets
  <2>1. "idle" \in Where \ {"done"} /\ TRUE \in BOOLEAN
    BY DEF Where
  <2>2. NoPacket \in SkbObj /\ SkbOK(NoPacket)
    BY <2>1, NoPacketOK
  <2> QED
    BY <1>1, <2>2, NoScanFacts DEF Packets
<1> QED
  BY <1>11, <1>12, <1>13 DEF IInv

\* The invariant is inductive.
LEMMA IInvInductive == Spec => []IInv
<1>1. IInv /\ [Next]_vars => IInv'
  BY IInvNext
<1> QED
  BY <1>1, IInvInit, PTL DEF Spec
-----------------------------------------------------------------------------

\* Slots, filters, searches and packets keep their types, for any table size,
\* any number of processors and any lists of actions.
THEOREM DatapathTyped == Spec => []TypeOK
<1>1. IInv => TypeOK
  <2> SUFFICES ASSUME IInv PROVE TypeOK
    OBVIOUS
  <2>1. Typed /\ Scans /\ Packets
    BY DEF IInv, Kernel
  <2>2. \A c \in Cpu : scan[c].i \in 0 .. BF_GDT_MAX_FILTERS + 1 /\ scan[c].j \in 0 .. NFuncs
    BY <2>1, ScanFacts
  <2>3. ASSUME NEW c \in Cpu
        PROVE  skb[c].acts \in Seq(Action) /\ skb[c].outer \in Seq(Seq(Action)) /\ skb[c].gone \in Nat
    <3>1. skb[c] \in SkbObj
      BY <2>1, PacketFacts
    <3> QED
      BY <3>1 DEF SkbObj
  <2> QED
    BY <2>1, <2>2, <2>3 DEF TypeOK, Typed
<1> QED
  BY <1>1, IInvInductive, PTL

\* Between commands the slots of dp->gdt hold the table that bf_gdt_update_filter
\* and bf_gdt_del_filter make of the same commands, each filter in memory of its
\* own, whatever commands came and in whichever order their stores were seen.
THEOREM CommandsMakeTable == Spec => []SlotsMakeTable
<1>1. IInv => SlotsMakeTable
  <2> SUFFICES ASSUME IInv, cmd = NoCommand
               PROVE  /\ nbf = Len(table)
                      /\ \A i \in 1 .. nbf : bf_array[i] \in kmem /\ filt[bf_array[i]] = table[i]
                      /\ \A i, k \in 1 .. nbf : bf_array[i] = bf_array[k] => i = k
    BY DEF SlotsMakeTable
  <2>1. Settled
    BY NoCommandOp DEF IInv, Kernel, SlotsOK
  <2> QED
    BY <2>1 DEF Settled, Same, Apart
<1> QED
  BY <1>1, IInvInductive, PTL

\* While bf_gdt_check reads a filter, or returns one, that filter is allocated,
\* unless one was deleted during the search: no lock is needed against the
\* commands that add filters and copy bits.
THEOREM SearchesReadLive == Spec => []SearchReadsLive
<1>1. IInv => SearchReadsLive
  <2> SUFFICES ASSUME IInv, NEW c \in Cpu, scan[c].pc \in {"bits", "hit"}, ~seen[c].del
               PROVE  scan[c].at \in kmem
    BY DEF SearchReadsLive
  <2>1. ScanOK(c)
    BY DEF IInv, Scans, Undisturbed
  <2>2. FilterOf(c)
    BY <2>1, ReadsFilter
  <2> QED
    BY <2>2 DEF FilterOf
<1> QED
  BY <1>1, IInvInductive, PTL

\* bf_gdt_check returns without a filter only if none claimed the key from the
\* beginning of the search to its end, unless one was deleted meanwhile.
THEOREM SearchesComplete == Spec => []SearchComplete
<1>1. IInv => SearchComplete
  <2> SUFFICES ASSUME IInv, NEW c \in Cpu, scan[c].pc = "miss", ~seen[c].del
               PROVE  seen[c].all = {}
    BY DEF SearchComplete
  <2>1. ScanOK(c)
    BY DEF IInv, Scans, Undisturbed
  <2> QED
    BY <2>1 DEF ScanOK, Kept
<1> QED
  BY <1>1, IInvInductive, PTL

\* Each bit of the key was set, at some moment of the search, in the filter that
\* bf_gdt_check returns or in what a command was copying into it, unless one was
\* deleted meanwhile.
THEOREM SearchesSound == Spec => []SearchSound
<1>1. IInv => SearchSound
  <2> SUFFICES ASSUME IInv, NEW c \in Cpu, scan[c].pc = "hit", ~seen[c].del,
                      NEW b \in HashBits(scan[c].key)
               PROVE  <<filt[scan[c].at].bf_id, b>> \in seen[c].bits
    BY DEF SearchSound
  <2>1. ScanOK(c)
    BY DEF IInv, Scans, Undisturbed
  <2>2. filt[scan[c].at].bf_id = table[scan[c].i].bf_id
    BY <2>1, ReadsFilter DEF FilterOf
  <2>3. PICK n \in 1 .. NFuncs : b = Hash[scan[c].key][n]
    BY DEF HashBits
  <2>4. Met(c) = NFuncs
    BY DEF Met
  <2> QED
    BY <2>1, <2>2, <2>3, <2>4 DEF ScanOK
<1> QED
  BY <1>1, IInvInductive, PTL

\* No packet leaks; it is freed or given away once, and not used afterwards,
\* whichever action of its list fails, however many it has and whatever SAMPLE lists
\* are among them, unless an action inside a SAMPLE failed, or skb_cow_head in
\* do_remote_encapulation.
THEOREM PacketsDisposedOnce == Spec => []PacketDisposedOnce
<1>1. IInv => PacketDisposedOnce
  <2> SUFFICES ASSUME IInv, NEW c \in Cpu
               PROVE  /\ skb[c].pc = "done" => skb[c].gone >= 1
                      /\ ~skb[c].nohead /\ ~FailedInSample(skb[c]) =>
                          ~skb[c].used /\ (skb[c].pc = "done" => skb[c].gone = 1)
    BY DEF PacketDisposedOnce
  <2>1. SkbOK(skb[c])
    BY PacketFacts DEF IInv
  <2> QED
    BY <2>1 DEF SkbOK
<1> QED
  BY <1>1, IInvInductive, PTL
-----------------------------------------------------------------------------
\* The flows of ovs-vswitchd: compose_sflow_action puts USERSPACE inside a SAMPLE.

\* A packet inside a SAMPLE has only USERSPACE before it, and one list to go back to.
SampleOK(s) ==
    s.outer # <<>> => s.pc = "execute" /\ s.acts \in Seq({"USERSPACE"}) /\ Len(s.outer) = 1

Samples == \A c \in Cpu : SampleOK(skb[c])

\* An action of a list, inside a SAMPLE or not, keeps to that.
LEMMA SampleExecution ==
    ASSUME \A a \in Sample : Nested[a] \in Seq({"USERSPACE"}),
           NEW s \in SkbObj, s.acts # <<>>, s.pc = "execute", SkbOK(s), SampleOK(s), NEW e \in Executed(s)
    PROVE  SampleOK(e)
<1>1. Live(s)
  BY DEF SkbOK, Live, FailedInSample
<1>2. CASE s.outer = <<>>
  <2>1. CASE e \in {Ok(s, TRUE), Ok(s, FALSE)}
    BY <1>2, <2>1, NextAction DEF SampleOK
  <2>2. CASE e = Failed(s)
    BY <1>1, <1>2, <2>2, Failing DEF SampleOK
  <2>3. CASE \E t \in Encapsulated(s) : e = Ok(t, TRUE)
    <3>1. PICK t \in Encapsulated(s) : e = Ok(t, TRUE)
      BY <2>3
    <3>2. t \in SkbObj /\ t.acts # <<>> /\ t.outer = <<>>
      BY <1>2, Encapsulation
    <3>3. Ok(t, TRUE).outer = <<>>
      BY <3>2, NextAction
    <3> QED
      BY <3>1, <3>3 DEF SampleOK
  <2>4. CASE Head(s.acts) \in Sample /\ e \in Sampled(s)
    <3>1. /\ e.pc = "execute"
          /\ \/ e.outer = <<>>
             \/ e.outer = <<Tail(s.acts)>> \o s.outer /\ e.acts = Nested[Head(s.acts)]
      BY <1>2, <2>4, Sampling
    <3>2. CASE e.outer = <<Tail(s.acts)>> \o s.outer /\ e.acts = Nested[Head(s.acts)]
      <4>1. e.acts \in Seq({"USERSPACE"})
        BY <2>4, <3>2
      <4>2. s.acts \in Seq(Action) /\ s.outer \in Seq(Seq(Action))
        BY DEF SkbObj
      <4>3. Tail(s.acts) \in Seq(Action)
        BY <4>2, HeadTailProperties
      <4>4. Len(e.outer) = 1 + Len(s.outer)
        BY <3>2, <4>2, <4>3, Pushing
      <4>5. Len(s.outer) = 0
        BY <1>2, EmptySeq
      <4>6. Len(e.outer) = 1
        BY ONLY <4>4, <4>5, SMT
      <4> QED
        BY <3>1, <4>1, <4>6 DEF SampleOK
    <3> QED
      BY <3>1, <3>2 DEF SampleOK
  <2> QED
    BY <2>1, <2>2, <2>3, <2>4, Outcomes
<1>3. CASE s.outer # <<>>
  <2>1. s.acts \in Seq({"USERSPACE"}) /\ Len(s.outer) = 1
    BY <1>3 DEF SampleOK
  <2>2. Head(s.acts) \in {"USERSPACE"} /\ Tail(s.acts) \in Seq({"USERSPACE"})
    BY <2>1, HeadTailProperties
  <2>3. e = Ok(s, FALSE)
    BY <2>2, Outcomes
  <2>4. e.pc = "execute" /\ e.acts = Tail(s.acts) /\ e.outer = s.outer
    BY <2>3, NextAction
  <2> QED
    BY <2>1, <2>2, <2>4 DEF SampleOK
<1> QED
  BY <1>2, <1>3

\* So does the end of a list.
LEMMA SampleEnding ==
    ASSUME NEW s \in SkbObj, s.pc = "execute", SkbOK(s), SampleOK(s)
    PROVE  SampleOK(Ended(s))
<1>1. Live(s)
  BY DEF SkbOK, Live, FailedInSample
<1>2. CASE s.outer = <<>>
  BY <1>1, <1>2, Ending DEF SampleOK
<1>3. CASE s.outer # <<>>
  <2>1. s.outer \in Seq(Seq(Action)) /\ Len(s.outer) = 1
    BY <1>3 DEF SampleOK, SkbObj
  <2>2. Tail(s.outer) = <<>>
    <3>1. Tail(s.outer) \in Seq(Seq(Action)) /\ Len(Tail(s.outer)) = Len(s.outer) - 1
      BY <1>3, <2>1, HeadTailProperties
    <3>2. Len(Tail(s.outer)) = 0
      BY ONLY <2>1, <3>1, SMT
    <3> QED
      BY <3>1, <3>2, EmptySeq
  <2> QED
    BY <1>1, <1>3, <2>2, Ending DEF SampleOK
<1> QED
  BY <1>2, <1>3

\* A packet outside do_execute_actions is inside no SAMPLE, and stays so.
LEMMA SampleOutside ==
    ASSUME NEW s \in SkbObj, SampleOK(s), s.pc # "execute", NEW w \in Where
    PROVE  /\ To(s, w).outer = <<>> /\ To(Touch(s), w).outer = <<>> /\ To(Dispose(s), w).outer = <<>>
           /\ To(s, w) \in SkbObj /\ To(Touch(s), w) \in SkbObj
<1>1. s.outer = <<>>
  BY DEF SampleOK
<1>2. /\ Touch(s) \in SkbObj /\ Touch(s).outer = s.outer
      /\ Dispose(s) \in SkbObj /\ Dispose(s).outer = s.outer
  BY Touched, Disposed
<1> QED
  BY <1>1, <1>2, Sent

LEMMA SamplesNext ==
    ASSUME \A a \in Sample : Nested[a] \in Seq({"USERSPACE"}), IInv, Samples, [Next]_vars
    PROVE  Samples'
<1>1. Packets
  BY DEF IInv
<1>2. CASE skb' = skb
  BY <1>2 DEF Samples
<1>3. ASSUME NEW c \in Cpu, NEW e, skb' = [skb EXCEPT ![c] = e], SampleOK(e) PROVE Samples'
  <2>1. skb \in [Cpu -> SkbObj]
    BY <1>1 DEF Packets
  <2>2. \A d \in Cpu : skb'[d] = IF d = c THEN e ELSE skb[d]
    BY <1>3, <2>1
  <2> QED
    BY <1>3, <2>2 DEF Samples
<1>4. \A e : e.outer = <<>> => SampleOK(e)
  BY DEF SampleOK
<1>5. ASSUME NEW c \in Cpu, Packet(c) PROVE Samples'
  <2>1. PICK s : s = skb[c]
    OBVIOUS
  <2>2. s \in SkbObj /\ SkbOK(s) /\ SampleOK(s)
    BY <1>1, <2>1, PacketFacts DEF Samples
  <2>3. ASSUME s.pc # "execute", skb' = [skb EXCEPT ![c] = To(Dispose(skb[c]), "done")] PROVE Samples'
    BY <1>3, <1>4, <2>1, <2>2, <2>3, SampleOutside DEF Where
  <2>4. CASE decapulation(c)
    <3>1. s.pc = "decap"
      BY <2>1, <2>4 DEF decapulation
    <3>2. CASE skb' = [skb EXCEPT ![c] = To(Touch(skb[c]), "lookup")]
      BY <1>3, <1>4, <2>1, <2>2, <3>1, <3>2, SampleOutside DEF Where
    <3> QED
      BY <2>3, <2>4, <3>1, <3>2 DEF decapulation
  <2>5. CASE flow_extract_fails(c) \/ ovs_dp_upcall(c)
    BY <2>1, <2>3, <2>5 DEF flow_extract_fails, ovs_dp_upcall
  <2>6. CASE \E list \in FlowActions : flow_hit(c, list)
    <3>1. PICK list \in FlowActions : flow_hit(c, list)
      BY <2>6
    <3>2. PICK t, e : t = To(Touch(s), "execute") /\ e = [t EXCEPT !.acts = list]
      OBVIOUS
    <3>3. s.pc = "lookup" /\ skb' = [skb EXCEPT ![c] = e]
      BY <2>1, <3>1, <3>2 DEF flow_hit
    <3>4. t \in SkbObj /\ t.outer = <<>>
      BY <2>2, <3>2, <3>3, SampleOutside DEF Where
    <3>5. list \in Seq(Action)
      BY DatapathAssumption
    <3>6. e.outer = <<>>
      BY <3>2, <3>4, <3>5, Listed
    <3> QED
      BY <1>3, <1>4, <3>3, <3>6
  <2>7. CASE flow_miss(c)
    <3>1. s.pc = "lookup" /\ \E w \in {"scan", "upcall"} : skb' = [skb EXCEPT ![c] = To(Touch(s), w)]
      BY <2>1, <2>7 DEF flow_miss
    <3> QED
      <4>1. PICK w \in {"scan", "upcall"} : skb' = [skb EXCEPT ![c] = To(Touch(s), w)]
        BY <3>1
      <4>2. To(Touch(s), w).outer = <<>>
        BY <2>2, <3>1, SampleOutside DEF Where
      <4> QED
        BY <1>3, <1>4, <4>1, <4>2
  <2>8. CASE bf_gdt_check_step(c)
    BY <1>2, <2>8 DEF bf_gdt_check_step
  <2>9. CASE build_flow(c)
    <3>1. PICK t, e, list : t = To(s, "execute") /\ list = <<"REMOTE">> /\ e = [t EXCEPT !.acts = list]
      OBVIOUS
    <3>2. scan[c].pc = "hit" /\ skb' = [skb EXCEPT ![c] = e]
      BY <2>1, <2>9, <3>1 DEF build_flow
    <3>3. s.pc = "scan"
      BY <1>1, <2>1, <3>2, PacketFacts
    <3>4. t \in SkbObj /\ t.outer = <<>>
      BY <2>2, <3>1, <3>3, SampleOutside DEF Where
    <3>5. list \in Seq(Action)
      BY <3>1, SMT DEF Action, Plain
    <3>6. e.outer = <<>>
      BY <3>1, <3>4, <3>5, Listed
    <3> QED
      BY <1>3, <1>4, <3>2, <3>6
  <2>10. CASE scan_miss(c)
    <3>1. scan[c].pc = "miss" /\ skb' = [skb EXCEPT ![c] = To(s, "upcall")]
      BY <2>1, <2>10 DEF scan_miss
    <3>2. s.pc = "scan"
      BY <1>1, <2>1, <3>1, PacketFacts
    <3> QED
      BY <1>3, <1>4, <2>2, <3>1, <3>2, SampleOutside DEF Where
  <2>11. CASE do_execute_action(c)
    <3>1. s.pc = "execute" /\ s.acts # <<>> /\ \E e \in Executed(s) : skb' = [skb EXCEPT ![c] = e]
      BY <2>1, <2>11 DEF do_execute_action
    <3> QED
      BY <1>3, <2>2, <3>1, SampleExecution
  <2>12. CASE do_execute_end(c)
    <3>1. s.pc = "execute" /\ skb' = [skb EXCEPT ![c] = Ended(s)]
      BY <2>1, <2>12 DEF do_execute_end
    <3> QED
      BY <1>3, <2>2, <3>1, SampleEnding
  <2>13. CASE done(c)
    BY <1>3, <1>4, <2>13 DEF done, NoPacket
  <2> QED
    BY <1>5, <2>4, <2>5, <2>6, <2>7, <2>8, <2>9, <2>10, <2>11, <2>12, <2>13 DEF Packet
<1>6. ASSUME NEW c \in Cpu, NEW tunnel \in BOOLEAN, ovs_vport_receive(c, tunnel) PROVE Samples'
  <2>1. PICK w : w = IF tunnel THEN "decap" ELSE "lookup"
    OBVIOUS
  <2>2. [NoPacket EXCEPT !.encaped = tunnel, !.pc = w].outer = <<>>
    BY DEF NoPacket
  <2> QED
    BY <1>3, <1>4, <1>6, <2>1, <2>2 DEF ovs_vport_receive
<1>7. Command \/ UNCHANGED vars => skb' = skb
  BY DEF Command, vars
<1> QED
  BY <1>2, <1>5, <1>6, <1>7 DEF Next

\* With the flows of ovs-vswitchd, whose SAMPLE lists hold only USERSPACE, no action
\* inside a SAMPLE fails: every packet that got its tunnel header is freed or given
\* away exactly once and not used afterwards.
THEOREM VswitchdFlowsDisposeOnce ==
    ASSUME \A a \in Sample : Nested[a] \in Seq({"USERSPACE"})
    PROVE  Spec => [](\A c \in Cpu : ~skb[c].nohead =>
                        ~skb[c].used /\ (skb[c].pc = "done" => skb[c].gone = 1))
<1>1. Init => Samples
  <2>1. NoPacket.outer = <<>>
    BY DEF NoPacket
  <2>2. Init => skb = [c \in Cpu |-> NoPacket]
    BY DEF Init
  <2> QED
    BY <2>1, <2>2 DEF Samples, SampleOK
<1>2. IInv /\ Samples /\ [Next]_vars => Samples'
  BY SamplesNext
<1>3. IInv /\ Samples => \A c \in Cpu : ~skb[c].nohead =>
                           ~skb[c].used /\ (skb[c].pc = "done" => skb[c].gone = 1)
  <2> SUFFICES ASSUME IInv, Samples, NEW c \in Cpu, ~skb[c].nohead
               PROVE  ~skb[c].used /\ (skb[c].pc = "done" => skb[c].gone = 1)
    OBVIOUS
  <2>1. SkbOK(skb[c]) /\ SampleOK(skb[c])
    BY PacketFacts DEF IInv, Samples
  <2>2. ~FailedInSample(skb[c])
    BY <2>1 DEF SampleOK, FailedInSample
  <2> QED
    BY <2>1, <2>2 DEF SkbOK
<1> QED
  BY <1>1, <1>2, <1>3, IInvInductive, PTL DEF Spec
=============================================================================
