------------------------------- MODULE BfGdt -------------------------------
(***************************************************************************)
(* The bloom filter (lib/bf.c) and the group distribution table            *)
(* (lib/bf-gdt.c) that hold LazyCtrl's group forwarding information, the   *)
(* G-FIB.  The two files are compiled into ovs-vswitchd and into the       *)
(* kernel datapath; every table of the system is a value of this module.   *)
(*                                                                         *)
(* A filter's bit array is the set of positions whose bit is one, a table  *)
(* is the sequence bf_array[0 .. nbf-1], and the empty sequence also stands *)
(* for a NULL table: every reader of the table treats both alike.          *)
(***************************************************************************)
EXTENDS Integers, Sequences

CONSTANTS
    Id,                   \* bf_id values: the IP addresses of edge switches
    Mac,                  \* host MAC addresses, the keys of the filters
    Bit,                  \* bit positions 0 .. len-1 of a filter
    NFuncs,               \* nfuncs, the number of hash functions
    Hash,                 \* Hash[m][i] is funcs[i](m) % len
    BF_GDT_MAX_FILTERS    \* slots of a table, the local filter's included

ASSUME BfGdtAssumption ==
    /\ NFuncs \in Nat \ {0}
    /\ Hash \in [Mac -> [1 .. NFuncs -> Bit]]
    /\ BF_GDT_MAX_FILTERS \in Nat \ {0}

LC_BF_LOCAL_PORT == "local"
LC_BF_REMOTE_PORT == "remote"
Port == {LC_BF_LOCAL_PORT, LC_BF_REMOTE_PORT}

bloom_filter == [bf_id : Id, port_no : Port, array : SUBSET Bit]
bf_gdt == Seq(bloom_filter)
-----------------------------------------------------------------------------
\* lib/bf.c

bf_create(bf_id, port_no) ==
    [bf_id |-> bf_id, port_no |-> port_no, array |-> {}]

\* The positions a key occupies.
HashBits(m) == {Hash[m][i] : i \in 1 .. NFuncs}

bf_add(bf, m) == [bf EXCEPT !.array = @ \cup HashBits(m)]

bf_check(bf, m) == \A i \in 1 .. NFuncs : Hash[m][i] \in bf.array
-----------------------------------------------------------------------------
\* lib/bf-gdt.c

GdtIds(gdt) == {gdt[i].bf_id : i \in DOMAIN gdt}

\* The slot of the first filter with the given id, 0 when there is none.
bf_gdt_find_filter(gdt, bf_id) ==
    IF bf_id \in GdtIds(gdt)
    THEN CHOOSE i \in DOMAIN gdt :
            /\ gdt[i].bf_id = bf_id
            /\ \A j \in 1 .. i - 1 : gdt[j].bf_id # bf_id
    ELSE 0

GdtFull(gdt) == Len(gdt) >= BF_GDT_MAX_FILTERS

\* Appends an empty filter; a full table is left as it is.
bf_gdt_add_filter(gdt, bf_id, port_no) ==
    IF GdtFull(gdt) THEN gdt ELSE Append(gdt, bf_create(bf_id, port_no))

\* nbf is not incremented.
bf_gdt_insert_filter_Mutant(gdt, bf) ==
    IF GdtFull(gdt) THEN gdt ELSE [gdt EXCEPT ![Len(gdt)] = bf]

\* Appends a copy of a filter; a full table is left as it is.
bf_gdt_insert_filter(gdt, bf) ==
    IF GdtFull(gdt) THEN gdt ELSE Append(gdt, bf)

\* The filter is inserted without a look for its id.
bf_gdt_update_filter_Mutant(gdt, bf) == bf_gdt_insert_filter(gdt, bf)

\* A changed filter is not copied.
bf_gdt_update_filter_NoCopy_Mutant(gdt, bf) ==
    IF bf_gdt_find_filter(gdt, bf.bf_id) # 0 THEN gdt
    ELSE bf_gdt_insert_filter(gdt, bf)

\* The table after an update: a known filter takes the new bits and keeps its
\* port, an unknown one is inserted if there is room.
bf_gdt_update_filter(gdt, bf) ==
    LET i == bf_gdt_find_filter(gdt, bf.bf_id)
    IN  IF i # 0 THEN [gdt EXCEPT ![i].array = bf.array]
                 ELSE bf_gdt_insert_filter(gdt, bf)

\* The result of that update: -1 for no change, 1 for changed bits, and 2 when
\* the filter was unknown, whether or not there was room for it.
bf_gdt_update_ret(gdt, bf) ==
    LET i == bf_gdt_find_filter(gdt, bf.bf_id)
    IN  IF i = 0 THEN 2 ELSE IF gdt[i].array = bf.array THEN -1 ELSE 1

\* The last filter moves into the slot of the deleted one.
bf_gdt_del_filter(gdt, bf_id) ==
    LET i == bf_gdt_find_filter(gdt, bf_id)
        n == Len(gdt)
    IN  IF i = 0 THEN gdt
        ELSE [j \in 1 .. n - 1 |-> IF j = i THEN gdt[n] ELSE gdt[j]]

\* bf_gdt_add_item: adds a key to the first filter with the given id.
bf_gdt_add_item(gdt, bf_id, m) ==
    LET i == bf_gdt_find_filter(gdt, bf_id)
    IN  IF i = 0 THEN gdt ELSE [gdt EXCEPT ![i] = bf_add(gdt[i], m)]

\* The slot of the first filter that claims a key, 0 when none does.
bf_gdt_check(gdt, m) ==
    IF \E i \in DOMAIN gdt : bf_check(gdt[i], m)
    THEN CHOOSE i \in DOMAIN gdt :
            /\ bf_check(gdt[i], m)
            /\ \A j \in 1 .. i - 1 : ~bf_check(gdt[j], m)
    ELSE 0
-----------------------------------------------------------------------------
\* What every table of the system satisfies.

\* No id occupies two slots: bf_gdt_insert_filter's "guarantee no existed yet".
UniqueIds(gdt) ==
    \A i, j \in DOMAIN gdt : gdt[i].bf_id = gdt[j].bf_id => i = j

WithinCapacity(gdt) == Len(gdt) <= BF_GDT_MAX_FILTERS
=============================================================================
