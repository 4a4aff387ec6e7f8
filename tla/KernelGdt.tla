----------------------------- MODULE KernelGdt ------------------------------
(***************************************************************************)
(* The filter table of a kernel datapath, dp->gdt, store by store: the     *)
(* netlink commands that change it (datapath/datapath.c) and the packets   *)
(* that search it meanwhile (bf_gdt_check of lib/bf-gdt.c).                *)
(*                                                                         *)
(* Commands hold the genl mutex, so that one runs at a time.  Packets take *)
(* no lock that commands respect: they see a filter half copied, and the   *)
(* stores of bf_array[nbf++] = bf in either order.                         *)
(***************************************************************************)
EXTENDS BfGdt, Functions

CONSTANTS
    Ptr,        \* addresses of bloom_filter objects
    NULL,
    Cpu,        \* processors that handle packets
    Local       \* LC_BF_LOCAL_ID

ASSUME KernelGdtAssumption ==
    /\ NULL \notin Ptr
    /\ Local \in Id

VARIABLES
    gdt,        \* dp->gdt: "table", "null", or "oops" once the kernel has died
    kmem,       \* the addresses that are allocated
    filt,       \* filt[p]: the bloom_filter at address p
    nbf,        \* dp->gdt->nbf
    bf_array,   \* dp->gdt->bf_array, from slot 1
    cmd,        \* what the holder of the genl mutex is doing
    table,      \* history: the table that the commands so far should have made
    scan,       \* scan[c]: how far bf_gdt_check is on processor c
    seen        \* history: seen[c], what the filters held during that search

kvars == <<gdt, kmem, filt, nbf, bf_array, cmd, table, scan, seen>>

Slot == 1 .. BF_GDT_MAX_FILTERS

NoCommand == [op |-> "none", bf |-> NULL, at |-> NULL, i |-> 0, left |-> {}]
NoScan == [pc |-> "none", key |-> NULL, i |-> 0, at |-> NULL, j |-> 0]
Seen(all, bits) == [all |-> all, bits |-> bits, del |-> FALSE]
NoneSeen == Seen({}, {})
Deleted == [all |-> {}, bits |-> {}, del |-> TRUE]

\* The contents of freed memory, which nobody looks at (see Read).
OldFilter == bf_create(Local, LC_BF_LOCAL_PORT)

\* The datapath is new: a table with an empty local filter.
KInit ==
    \E p \in Ptr :
        /\ gdt = "table"
        /\ kmem = {p}
        /\ filt = [q \in Ptr |-> OldFilter]
        /\ nbf = 1
        /\ bf_array = [i \in Slot |-> IF i = 1 THEN p ELSE NULL]
        /\ cmd = NoCommand
        /\ table = bf_gdt_add_filter(<<>>, Local, LC_BF_LOCAL_PORT)
        /\ scan = [c \in Cpu |-> NoScan]
        /\ seen = [c \in Cpu |-> NoneSeen]

\* The ids of the filters that have all bits of a key, and their bits.
Claims(filters, m) == {f.bf_id : f \in {g \in filters : bf_check(g, m)}}
Bits(filters, m) == UNION {{<<f.bf_id, b>> : b \in f.array \cap HashBits(m)} : f \in filters}

\* Every command is seen by the searches under way; nothing is said of those
\* during which a filter is deleted.
Watch ==
    seen' = [c \in Cpu |->
                IF scan[c] = NoScan \/ seen[c].del THEN seen[c]
                ELSE Seen(seen[c].all \cap Claims(Range(table'), scan[c].key),
                          seen[c].bits \cup Bits(Range(table'), scan[c].key))]

WatchDelete == seen' = [c \in Cpu |-> IF scan[c] = NoScan THEN seen[c] ELSE Deleted]
-----------------------------------------------------------------------------
\* Commands.

\* The slot of the first filter with an id, 0 when there is none.
bf_gdt_find(id) ==
    LET found == {i \in 1 .. nbf : filt[bf_array[i]].bf_id = id}
    IN  IF found = {} THEN 0 ELSE CHOOSE i \in found : \A k \in found : i <= k

\* A new object takes the place of the old one, which is freed.
cmd_set_Mutant(bf) ==
    LET i == bf_gdt_find(bf.bf_id)
        old == bf_array[i]
    IN  /\ gdt = "table" /\ cmd = NoCommand
        /\ i # 0
        /\ \E p \in Ptr \ kmem :
            /\ kmem' = (kmem \ {old}) \cup {p}
            /\ filt' = [filt EXCEPT ![p] = bf, ![old] = OldFilter]
            /\ bf_array' = [bf_array EXCEPT ![i] = p]
        /\ table' = bf_gdt_update_filter(table, bf)
        /\ UNCHANGED <<gdt, nbf, cmd, scan>>
        /\ Watch

\* ovs_bf_gdt_cmd_new_or_set for a filter that is in the table: its bits are
\* going to be copied unless none has changed.
cmd_set(bf) ==
    LET i == bf_gdt_find(bf.bf_id)
    IN  /\ gdt = "table" /\ cmd = NoCommand
        /\ i # 0
        /\ filt[bf_array[i]].array # bf.array
        /\ cmd' = [op |-> "copy", bf |-> bf, at |-> bf_array[i], i |-> i, left |-> Bit]
        /\ table' = bf_gdt_update_filter(table, bf)
        /\ UNCHANGED <<gdt, kmem, filt, nbf, bf_array, scan>>
        /\ Watch

\* bf_create leaves the array as it came from kmalloc.
cmd_new_Mutant(bf, p) ==
    /\ gdt = "table" /\ cmd = NoCommand
    /\ bf_gdt_find(bf.bf_id) = 0
    /\ nbf < BF_GDT_MAX_FILTERS
    /\ p \notin kmem
    /\ kmem' = kmem \cup {p}
    /\ filt' = [filt EXCEPT ![p] = [bf EXCEPT !.array = Bit]]
    /\ cmd' = [op |-> "add", bf |-> bf, at |-> p, i |-> nbf + 1, left |-> {"slot", "count"}]
    /\ table' = bf_gdt_update_filter(table, bf)
    /\ UNCHANGED <<gdt, nbf, bf_array, scan>>
    /\ Watch

\* ... and for one that is not, if there is room: an empty filter is created.
cmd_new(bf, p) ==
    /\ gdt = "table" /\ cmd = NoCommand
    /\ bf_gdt_find(bf.bf_id) = 0
    /\ nbf < BF_GDT_MAX_FILTERS
    /\ p \notin kmem
    /\ kmem' = kmem \cup {p}
    /\ filt' = [filt EXCEPT ![p] = bf_create(bf.bf_id, bf.port_no)]
    /\ cmd' = [op |-> "add", bf |-> bf, at |-> p, i |-> nbf + 1, left |-> {"slot", "count"}]
    /\ table' = bf_gdt_update_filter(table, bf)
    /\ UNCHANGED <<gdt, nbf, bf_array, scan>>
    /\ Watch

\* bf_array[nbf++] = bf: two stores, which the compiler may swap.
Stored(what) ==
    cmd' = IF cmd.left = {what} THEN [cmd EXCEPT !.op = "copy", !.left = Bit]
           ELSE [cmd EXCEPT !.left = @ \ {what}]

store_slot ==
    /\ cmd.op = "add"
    /\ "slot" \in cmd.left
    /\ bf_array' = [bf_array EXCEPT ![cmd.i] = cmd.at]
    /\ Stored("slot")
    /\ UNCHANGED <<gdt, kmem, filt, nbf, table, scan, seen>>

store_count ==
    /\ cmd.op = "add"
    /\ "count" \in cmd.left
    /\ nbf' = cmd.i
    /\ Stored("count")
    /\ UNCHANGED <<gdt, kmem, filt, bf_array, table, scan, seen>>

\* The array is cleared before it is copied.
CopyBit_Mutant(old, b) ==
    (IF cmd.left = Bit THEN {} ELSE old \ {b}) \cup ({b} \cap cmd.bf.array)

\* memcpy of the array, part after part.
CopyBit(old, b) == (old \ {b}) \cup ({b} \cap cmd.bf.array)

copy_bit(b) ==
    /\ cmd.op = "copy"
    /\ b \in cmd.left
    /\ filt' = [filt EXCEPT ![cmd.at].array = CopyBit(@, b)]
    /\ cmd' = IF cmd.left = {b} THEN NoCommand ELSE [cmd EXCEPT !.left = @ \ {b}]
    /\ UNCHANGED <<gdt, kmem, nbf, bf_array, table, scan, seen>>

\* ovs_bf_gdt_cmd_del, bf_gdt_del_filter: the filter is freed ...
cmd_del(id) ==
    LET i == bf_gdt_find(id)
    IN  /\ gdt = "table" /\ cmd = NoCommand
        /\ i # 0
        /\ kmem' = kmem \ {bf_array[i]}
        /\ filt' = [filt EXCEPT ![bf_array[i]] = OldFilter]
        /\ cmd' = [op |-> "move", bf |-> NULL, at |-> NULL, i |-> i, left |-> {}]
        /\ table' = bf_gdt_del_filter(table, id)
        /\ UNCHANGED <<gdt, nbf, bf_array, scan>>
        /\ WatchDelete

\* The last filter is not moved.
del_move_Mutant ==
    /\ cmd.op = "move"
    /\ cmd' = [cmd EXCEPT !.op = "clear"]
    /\ UNCHANGED <<gdt, kmem, filt, nbf, bf_array, table, scan>>
    /\ WatchDelete

\* ... the last one takes its slot ...
del_move ==
    /\ cmd.op = "move"
    /\ bf_array' = [bf_array EXCEPT ![cmd.i] = bf_array[nbf]]
    /\ cmd' = [cmd EXCEPT !.op = "clear"]
    /\ UNCHANGED <<gdt, kmem, filt, nbf, table, scan>>
    /\ WatchDelete

\* ... its own is cleared ...
del_clear ==
    /\ cmd.op = "clear"
    /\ bf_array' = [bf_array EXCEPT ![nbf] = NULL]
    /\ cmd' = [cmd EXCEPT !.op = "shrink"]
    /\ UNCHANGED <<gdt, kmem, filt, nbf, table, scan>>
    /\ WatchDelete

\* The count goes down twice.
del_shrink_Mutant ==
    /\ cmd.op = "shrink"
    /\ nbf' = nbf - 2
    /\ cmd' = NoCommand
    /\ UNCHANGED <<gdt, kmem, filt, bf_array, table, scan>>
    /\ WatchDelete

\* ... and the count goes down.
del_shrink ==
    /\ cmd.op = "shrink"
    /\ nbf' = nbf - 1
    /\ cmd' = NoCommand
    /\ UNCHANGED <<gdt, kmem, filt, bf_array, table, scan>>
    /\ WatchDelete

\* ovs_bf_gdt_cmd_del without an id: flush_bf_gdt.  bf_destroy hands kfree an
\* array that is inside the filter, and the table is freed under its readers:
\* only an empty table that nobody reads is destroyed without harm.
flush_bf_gdt ==
    /\ gdt = "table" /\ cmd = NoCommand
    /\ gdt' = IF nbf = 0 /\ \A c \in Cpu : scan[c] = NoScan THEN "null" ELSE "oops"
    /\ UNCHANGED <<kmem, filt, nbf, bf_array, cmd, table, scan, seen>>
-----------------------------------------------------------------------------
\* bf_gdt_check on processor c.

\* What a read of the filter at p may return; freed memory holds anything.
Read(p) == IF p \in kmem THEN {filt[p]} ELSE bloom_filter

scan_begin(c, m) ==
    /\ scan' = [scan EXCEPT ![c] = [pc |-> IF gdt = "null" THEN "miss" ELSE "count",
                                    key |-> m, i |-> 1, at |-> NULL, j |-> 1]]
    /\ LET now == {filt[bf_array[k]] : k \in {i \in 1 .. nbf : bf_array[i] # NULL}}
           all == Claims(now, m) \cap Claims(Range(table), m)
           bits == Bits(now \cup Range(table), m)
       IN  seen' = [seen EXCEPT ![c] = IF cmd.op \in {"move", "clear", "shrink"} THEN Deleted
                                       ELSE Seen(all, bits)]

NextSlot(c) == scan' = [scan EXCEPT ![c].pc = "count", ![c].i = @ + 1, ![c].j = 1]

\* i < gdt->nbf
scan_count(c) ==
    /\ scan[c].pc = "count"
    /\ scan' = [scan EXCEPT ![c].pc = IF scan[c].i <= nbf THEN "slot" ELSE "miss"]
    /\ UNCHANGED <<gdt, kmem, filt, nbf, bf_array, cmd, table, seen>>

\* A NULL slot is not skipped.
scan_slot_Mutant(c) ==
    /\ scan[c].pc = "slot"
    /\ bf_array[scan[c].i] # NULL
    /\ scan' = [scan EXCEPT ![c].pc = "bits", ![c].at = bf_array[scan[c].i]]
    /\ UNCHANGED <<gdt, kmem, filt, nbf, bf_array, cmd, table, seen>>

\* bf_array[i], which bf_check does not mind to be NULL.
scan_slot(c) ==
    /\ scan[c].pc = "slot"
    /\ LET p == bf_array[scan[c].i]
       IN  IF p = NULL THEN NextSlot(c)
           ELSE scan' = [scan EXCEPT ![c].pc = "bits", ![c].at = p]
    /\ UNCHANGED <<gdt, kmem, filt, nbf, bf_array, cmd, table, seen>>

scan_bit(c) ==
    /\ scan[c].pc = "bits"
    /\ \E f \in Read(scan[c].at) :
        IF Hash[scan[c].key][scan[c].j] \notin f.array THEN NextSlot(c)
        ELSE scan' = IF scan[c].j = NFuncs THEN [scan EXCEPT ![c].pc = "return"]
                     ELSE [scan EXCEPT ![c].j = @ + 1]
    /\ UNCHANGED <<gdt, kmem, filt, nbf, bf_array, cmd, table, seen>>

\* bf_array[i] is read again to be returned.
scan_return(c) ==
    /\ scan[c].pc = "return"
    /\ LET p == bf_array[scan[c].i]
       IN  scan' = [scan EXCEPT ![c].pc = IF p = NULL THEN "miss" ELSE "hit", ![c].at = p]
    /\ UNCHANGED <<gdt, kmem, filt, nbf, bf_array, cmd, table, seen>>

scan_end(c) ==
    /\ scan' = [scan EXCEPT ![c] = NoScan]
    /\ seen' = [seen EXCEPT ![c] = NoneSeen]
=============================================================================
