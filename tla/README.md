# LazyCtrl in TLA+

LazyCtrl (this repository) puts the edge switches of a data centre into *local
control groups* (LCGs). Inside a group switches find each other's hosts without
the central controller: every switch keeps a Bloom filter of the hosts behind
it (its L-FIB), multicasts it to its group, and keeps a table of the filters of
the others (its G-FIB), which its kernel datapath consults before it asks
anybody. Between groups the central controller decides. A daemon regroups the
switches from the traffic they report.

Paths below are relative to `src/lcm/openvswitch-lc/` unless they begin with
`ccm/`, `lcm/` or `others/`, which are under `src/`.

## 1. Inventory

| Part | State | Operations | Talks to |
|---|---|---|---|
| Filters and tables: `lib/bf.c`, `lib/bf-gdt.c` | bit array of a filter; array of at most 64 filters with a count | create, add, check; table add, insert, update, delete, find, check, destroy | used by vswitchd and, compiled again, by the kernel module |
| Bridge and exchange: `vswitchd/bridge.c`, `vswitchd/ovs-mcast.c` | `br->gdt`, `br->local_id`, `br->ofproto` | create, learn from an upcall (`bridge_update_local_bf`), `mc_send`, `mc_recv`, destroy | the other switches by UDP multicast; the kernel by netlink |
| Threads: `bridge_start_mcast`, `bridge_end_mcast`, `ovs-mcast.c` | two threads per bridge, one mutex for the process, one UDP port, two stop flags | start, lock, copy, send, receive, update, push, stop, join, free | the main thread |
| Push: `ofproto/ofproto.c`, `ofproto/ofproto-dpif.c`, `lib/dpif.c`, `lib/dpif-linux.c` | none | pass one filter down | `genl_sock` |
| Netlink: `lib/netlink-socket.c` | `next_seq`, the socket's receive queue | transact one or several requests | kernel |
| Flow table: `datapath/flow.c` and the flow commands of `datapath/datapath.c` | `dp->table`, flows with two list nodes each, RCU callbacks | new, set, delete, flush, expand, rehash, look up | vswitchd, packets |
| Datapath: `datapath/datapath.c`, `actions.c`, `remote.c`, `vport.c` | `dp->gdt`, packet buffers | new, set, delete, flush, get, dump of filters; receive, look up, encapsulate, decapsulate, execute | vswitchd, other switches |
| Group assignment: `ccm/daemons/groupManager.py`, `push_agent.py`, `bridge_lc_init` | `/tmp/lc_gid.dat` on each switch, group id and addresses of each bridge | push, truncate, write, read, join | switches by ssh |
| Statistics: `lcm/agent.sh`, `ccm/daemons/pull_agent.py`, `collect_agent.sh`, `doGroup` | files under `/tmp` and `tmp/` | write, copy, sort, append, collect, partition | each other through files only |
| Controller: `DCM.java` in `ccm/floodlight-lc` | two tables per switch: MAC to port, MAC to port and remote address | packet-in, packet-out, flow installation, flow removed | switches by OpenFlow |
| Simulator: `others/lc_sim` | a sequential model of a data centre | a batch run | METIS |
| METIS, upstream Open vSwitch, upstream Floodlight | | | |

What makes the system hard, and where it bites, is the list `hazards` of
`PROJECT.json`. In short: three threads share `br->gdt` and one of them takes no
lock; datagrams are lost, repeated and late; the kernel's table outlives the
daemon that fills it; a push is made once; one mutex and one port serve all
bridges of a process; a netlink socket made for one thread is used by two; a
file is truncated and then written while it is read; packets search two tables
of the kernel while commands change them; the controller and a switch change
what they know of each other with messages under way.

What each part should guarantee:

* tables: no duplicates, no overflow, nothing forgotten;
* exchange: no bit a host does not account for, convergence, the kernel follows;
* threads: exclusion, no use of freed memory, every stop ends, every bridge keeps sending;
* groups: different groups never meet, one group does;
* netlink: every call returns what the kernel did;
* datapath: a packet goes out at most once, to the right switch, unharmed;
* statistics: no half-written line counts, the partition is defined for every input;
* controller: no flow outlives the position of the host it was made for.

## 2. Plan

1. **Done.** `BfGdt` and `GFib`, the core, `McastThreads`, `Grouping` and `NlSock`, with
   proofs of their safety properties.
2. **Done.** The kernel: `KernelGdt` and `Datapath` (filters and packets),
   `FlowTable` against its abstract specification `FlowMap`, with proofs of
   all their safety properties and of the refinement.
3. **Done.** The controller: `DCM`, with a proof.
4. **Open.** The statistics pipeline and `doGroup`, with the files as shared state.
5. **Open.** The simulator, as operators checked against a reference.

## 3. Modules

| Module | Models |
|---|---|
| `BfGdt` | filters and tables as values: `bf.c`, `bf-gdt.c` |
| `GFib` | a group of switches: learning, exchange, push, crash |
| `McastThreads` | the threads of one vswitchd process |
| `Grouping` | the group id from `doPush` to the address a thread joins |
| `NlSock` | transactions on a netlink socket |
| `KernelGdt` | the kernel's filter table, store by store, and the search of it |
| `Datapath` | a packet's way through the kernel, beside the commands of `KernelGdt` |
| `FlowMap` | what the kernel's flow table promises: a map |
| `FlowTable` | the flow table itself, with RCU, list nodes and rebuilds |
| `DCM` | the controller's forwarding and one switch, with messages between them |
| `MC*` | their instances for TLC |
| `GFibProofs` | lemmas about `BfGdt`'s operators, the inductive invariant of `GFib`, that every action preserves it, and the theorems about `GFib` |
| `McastThreadsProofs` | no use after free, and exclusion, for any number of bridges; what ends the wait of a lone one |
| `GroupingProofs` | the addresses of groups, and who hears whom |
| `NlSockProofs` | what is done stays done for any threads; a call of a lone thread is right |
| `FlowTableProofs` | ownership in the flow table; what its readers may meet |
| `FlowTableRefinement` | the flow table implements `FlowMap` |
| `DatapathProofs` | the kernel's filter table, the searches of it and the packets |
| `DCMProofs` | flows stay paired |

### BfGdt

A filter is a record of the fields that matter (`bf_id`, `port_no`, `array`); its
array is the set of the bits that are set. The two hash functions of `bf.c` are
the constant `Hash`, the bits of each address in the order `bf_add` sets them. A
table is the sequence of the used slots, so that `nbf` is its length; a full
table (`GdtFull`) has `BF_GDT_MAX_FILTERS` filters. Each operator is one function
of `bf-gdt.c`; `bf_gdt_update_ret` is the value `bf_gdt_update_filter` returns.

### GFib

State of switch `s`: `phase` (no bridge, bridge without ofproto, running), `gdt`
(`br->gdt`), `dp` (`dp->gdt`), `send` and `copied` (the local variables of
`mc_send`), `recv` and `held` (those of `mc_recv`), `learning` (how far `bf_add`
got). `net` is the set of datagrams under way; not removing one models its
duplication, removing it unread its loss, a set its reordering. `learned` and
`missed` are history: the addresses whose `bf_add` returned, and the filters
whose last push did not arrive.

The main thread takes no lock, so `handle_miss_upcall` and each bit of `bf_add`
interleave with the copy in `mc_send`; the copy is two steps, in which the array
may be seen partly old and partly new. A push is a step of its own after the
update and may be lost; before `ofproto_create` it always is, because
`br->ofproto` is NULL. `Crash` and `bridge_destroy` lose `br->gdt`, never `dp->gdt`;
`ovs_dp_cmd_del` loses the latter. That `bf_gdt_destroy` aborts the whole process
is in `McastThreads`; for one bridge it has the effect of `Crash`.

### McastThreads

`pc` is the place of each thread, `main` that of the main thread, `mem` what is
allocated for each bridge, `mutex` the state of the C library's mutex (free,
locked, locked with sleepers), which `bridge_create` sets back to free because
`bridge_start_mcast` initialises it for every bridge. `port` is the bridge that
has port 5000 bound. A receiver fails to bind it when another has it, may get no
socket at all, and may fail to join its group or, at the end, to leave it; each
time it returns, and in the last two cases it keeps the port. A sender may fail
to open its socket, and a datagram may be lost on the way to the own receiver.
`inbox` holds what `recvfrom` may return; `mc_recv_error` is a `recvfrom` that
fails. `PeerSends` stands for the other switches, which may fall silent.

`bridge_end_mcast` waits for a receiver that only looks at its stop flag after a
datagram. `EndMcastReturns` says that the joins end unless this is what they wait
for (`Deserted`): the receiver in `recvfrom`, nothing to receive, for ever.
`OnlyOthersEndTheWait` says that this wait is real: the own sender, whose datagrams
would wake the receiver, has been joined by then, so that only another switch, or
an error of `recvfrom`, ends it. `TypeOK` has more than types: a bridge's objects are
there or gone together (`Allocation`), so that none is leaked.

### Grouping

A file is the sequence of its numbers, empty while it is truncated. Addresses
are four bytes in network order and `Plus` is the 32-bit addition of a
little-endian machine with its carries, so that `htonl(gid)` and `gid` land in
different bytes. `doPush` starts the push to the next switch of the list
(truncating its file), `push_write` completes it. `gdt_gid`, `msg_gid` and
`is_DDCM` are what a bridge read, at the times it reads them. `failed` names the
threads of a bridge that have returned because a socket call failed, the bind of
a process's second receiver among them: such a bridge is deaf or mute until it is
created again, and `DefaultGroupHears` speaks of the others.

### NlSock

The state of the socket (`next_seq`, the receive queue, an overflow that
`recvmsg` has to report) and of the calling threads. `nl_sock_allocate_seq` is
two steps, as nothing protects it. The answer of the kernel to a request is that
of its kind: an acknowledgement, a reply, an error or nothing. An answer may be
dropped for want of memory, which sets the overflow. `UINT32_MAX / 2` is
`SeqLimit`.

### KernelGdt and Datapath

A filter has an address here, `bf_array` holds addresses, and `kmem` is what is
allocated. The genl mutex lets one command run at a time (`cmd`), but each of its
stores is a step: the two of `bf_array[nbf++] = bf` in either order, the bits that
`bf_gdt_update_filter` copies one by one, the move, clear and decrement of
`bf_gdt_del_filter`. `scan` is a packet in `bf_gdt_check`, which reads `nbf`, the
slot, each bit, and the slot once more to return it. `table` is history: the
value the operators of `BfGdt` make of the same commands, so that
`SlotsMakeTable` ties this module to the table `GFib` works with. `seen` is
history too: what the filters claimed while the search went on.

A flush destroys a table that readers may have in hand, and `bf_destroy` frees an
array inside the filter; NULL from `kmalloc` passes `IS_ERR`. These end in
`"oops"`, after which nothing is said. A deletion frees a filter under its
readers although a comment at `datapath.c:97` says reads are protected by RCU; a
read of freed memory returns anything, and the properties of the search exempt
searches that a deletion overtakes (`seen[c].del`).

`skb` is the packet: `gone` counts how often it was freed or given away, `used`
records a use after that. `do_remote_encapulation` tests the result of the
encapsulation the wrong way round (`actions.c:366`), so that a packet for which
there was no memory is freed and used; that case is modelled (`nohead`) and
exempted by `PacketDisposedOnce`. A `SAMPLE` runs its list on the same packet now and
then; `acts` is what is left of the list being run and `outer` what is left of the
lists around it. `validate_actions` takes any actions inside, to a bounded depth. An
action that fails there frees the packet, and so does each list around it, which gets
the error from `sample` (`Failed`): the second case that `PacketDisposedOnce` exempts
(`FailedInSample`). vswitchd puts nothing but `USERSPACE` into a `SAMPLE`
(`compose_sflow_action`), which does not fail; see `VswitchdFlowsDisposeOnce` below. The
flow table is what `FlowMap` makes of it: a lookup hits or misses.

### FlowMap and FlowTable

`FlowMap` is a map from keys to actions that commands change at once, and lookups
that answer with what the map held at some moment of the lookup. `FlowTable` is
the code: addresses of tables, flows and actions, hash lists, callbacks of
`call_rcu` with the processors they wait for. A rebuild (`ovs_flow_tbl_expand`,
`ovs_flow_tbl_rehash`) links the same flows through their other list node; the
old table is freed without its flows (`keep_flows`). Uninitialised list nodes
hold `Junk`, which a reader must never follow. `Refines` states the refinement:
the map is read off the current table, and the history variable `look` records
what a lookup may answer and does.

The promise has an exception that the search for a refinement brought out: a
reader whose lookup spans the end of one rebuild and the start of the next walks
nodes that are being linked again, and may miss a flow that was there all the
time. The packet then takes the way of a miss.

### DCM

`ports` is the entry of the switch in `macVlanToSwitchPortMap`, `flows` the
switch's flow table, `up` and `down` the two directions of the connection, in
order. Hosts move between ports (`Move`). A new connection clears the flows and
is a new `IOFSwitch`, for which nothing is learned. `removeEldestEntry` forgets any
host at any time, as other hosts' addresses may drive it out. A flow with idle
timeout ends when nobody uses it; the pairs in `Stream` use theirs without
pause, which is when only the deletion of the reverse flow gets rid of a stale
one. No addition is refused: a table has room for `UINT_MAX` flows unless a
`flow_limit` is configured, and nothing of LazyCtrl configures one.

## 4. Runs

All bounds are constants: `MaxStops`, `MaxInits`, `MaxCreates`, `MaxFaults` count
crashes, starts, bridges created and netlink failures; `MaxInFlight` bounds the
datagrams under way; `MaxQueue`, `MaxOutages`, `MaxMoves` bound the messages,
lost connections and moves of `DCM`.

| Run | Checks | Result |
|---|---|---|
| `gfib_torn` | all safety properties of `GFib`, a host of two bits, one crash | hold |
| `gfib_converge` | `GdtConverges`, one crash | holds |
| `dp_stale` | `DpCatchesUp` | fails: a lost push is not repeated |
| `grouping_meet` | `GroupIsolation`, `GroupAddresses`, `DefaultGroupHears` | hold |
| `grouping_deaf` | `GroupHears` | fails: byte order of the address that is joined |
| `threads_one` | `NoUseAfterFree`, exclusion, stop, the wait that only others end, broadcasting for one bridge | hold |
| `threads_asleep` | `KeepsBroadcasting`, two bridges | fails: a sleeper is lost |
| `nl_one` | all properties of `NlSock`, one thread | hold |
| `nl_shared` | `TransactRight`, two threads | fails: one thread takes the other's answer |
| `flow_rcu` | `NoReadAfterFree`, `OneOwner`, `Refines` | hold |
| `datapath_gdt` | `SlotsMakeTable`; what a search reads, finds and misses; `PacketDisposedOnce`, `PacketDone` | hold |
| `dcm_moves` | `FlowsPaired`, `StaleFlowsDie` | hold |

The runs that fail state what a comment, a log message or the README of the
repository says; `findings` in `PROJECT.json` quotes it.

Some behaviour of the code needs no search to be seen and is modelled as it is,
without a run of its own:

* a running bridge keeps the group it started in, whatever is pushed to it
  (`mc_recv` only warns), and one that starts between truncation and write of
  the file starts in group 0;
* no bridge ever becomes a ddcm, because `push_agent` drops the flag;
* a receiver that cannot join or leave its group keeps the port, and with it every
  later receiver of the process is deaf; so is that of any second bridge;
* a host whose packets cause no upcall is never learned (the guard of
  `handle_miss_upcall`), so that the switches of its group do not find it;
* a packet whose destination was learned behind the port it came from is
  ignored by the controller until the destination sends something;
* REMOTE flows have no reverse flow; one to a host that is no longer remote
  goes only when it idles out, and `StaleFlowsDie` leaves their output port out;
* destroying a table ends the process (`bf_destroy` frees an array that is
  inside the filter);
* a filter that a full table refused is pushed to the kernel all the same;
* a packet is freed once more for each `SAMPLE` around an action that fails;
* `nl_sock_transact_multiple` goes on for as long as `sendmsg` fails:
  `TransactReturns` is checked with at most `MaxFaults` failures and promises
  nothing when they never end.

**Why the bounds are enough.** In `GFib` a table is disturbed by at most two
switches at a time, the one that owns it and one whose datagram it takes; two
datagrams under way give an old and a new copy, two bits the torn one, one crash
the old kernel table under a new bridge; a table of `gfib_torn` has room for one
filter more than there are switches, so that a duplicate would not be refused for
want of room. The theorems remove these bounds, and cover full tables; the
kernel's is filled in `datapath_gdt`, where the filters of three switches compete
for two slots. In `Grouping` the ids 0 and 255 are the default and the one at
which the last byte of 239.0.0.1 overflows. Two bridges in
`threads_asleep` have all pairs of threads; one, created again after it was
destroyed, is enough for `threads_one`, whose memory property is proved for any
number. `NlSock` takes every sequence of up to three requests in every division
into batches, with a limit that lets the sequence numbers wrap, and large enough
that a stale answer never carries a number in use again: the real limit is
2^31. `flow_rcu` has one
processor, as readers do not change what others read (the theorems have any
number), one bucket, so that all flows share a list, and three tables: the one a
packet began in, the current one and the one being built. `datapath_gdt` has a
key of two bits, so that a filter can be half copied when it is read, and four
bit arrays: with the key, with more, and with either half. Its lists of actions have
each action before an output, the `SAMPLE` of vswitchd, one whose first action may
fail, and one around that. `dcm_moves` has three
ports, so that a host can be in a place that neither a flow nor the map knows,
one move and one lost connection, each at any time.

**Fairness.** `GFib`: the loops of `mc_send` and `mc_recv` run for ever, hence weak
fairness of their steps; the network is fair-lossy, hence strong fairness of
sending a filter with nothing older under way and of receiving what is sent again
and again (`mc_send` repeats every few seconds, longer than a datagram lives).
`Grouping`: the
same, and a push that began is completed. `McastThreads`: every thread that is
not blocked runs, and one that finds the mutex free again and again gets it,
because the holders sleep or block between their uses. Nothing makes a peer send or
`recvfrom` fail. `NlSock`: a calling thread goes on. `Datapath`: a processor goes on with its
packet; commands may come for ever or never. `DCM`: the controller and the
switch handle the messages they have, a lost connection is made again, streams
send, and each flow nobody uses idles out. Moves end (`MaxMoves`): with a host
that moves for ever its flows are written for ever too.

## 5. Proofs

`GFibProofs` proves, for every set of switches and addresses, any hash functions,
any table size and any bound on crashes and datagrams (the assumptions
`BfGdtAssumption` and `GFibAssumption`), that `Spec` implies each safety property
of `gfib_torn`, and the action property `NothingForgotten`. The first lemmas state once what finding, checking and updating do to a table.

The argument is one inductive invariant, `IInv`. The properties alone are not
inductive:

* soundness of tables needs soundness of the datagrams under way (`NetInv`) and of
  the one `mc_recv` holds (`SoundInv`);
* `NeverEncapToSelf` needs that the kernel's first slot is the switch's own, empty
  filter and that all others lead to the remote port (`DpInv`), which in turn needs
  that nothing is pushed under the switch's own id (`PhaseInv`);
* `LearnedAreLocal` needs which bits of the address `bf_add` is at are set
  (`LearnInv`), and that the own filter is in the first slot;
* `DpFollows` needs that the filter about to be pushed is the one that was stored
  (`PendingInv`), and is itself stated with a slot (`FollowInv`) because
  `bf_gdt_find_filter` takes the first of several.

The parts are stated with predicates on table values (`Own`, `Kernel`, `Sound`,
`Begun`, `Has`, `Agree`, `Follows`), so that what
`bf_gdt_update_filter` does to each is one lemma (`UpdateSound`, `UpdateOwn`,
`UpdateKernel`, `UpdateAgrees`, `UpdateFollowed`, `UpdateFollows`) and the steps
of `mc_recv` only cite them. Each action has a lemma that it preserves `IInv`; `Frame` says that a switch an action leaves alone
keeps its part. `NextIInv` puts them together.

`McastThreadsProofs` proves `NoUseAfterFree` for any number of bridges. It is not
inductive: that `bridge_end_mcast` may free the stop flags and the bridge rests
on the two joins before, so that `Inv` adds what the main thread knows at each
of its places. Every step of a thread is shown to be a `ThreadStep`, which frees
nothing, and one lemma deals with those.

It also says when `MutexExclusion` holds. One mutex serves the process and
`bridge_start_mcast` initialises it for every bridge, so that with several
bridges exclusion fails in the model when a bridge is created while a thread is
in its critical section. `MutexExcludes` shows that this is the only way: for any
number of bridges `Spec` implies exclusion under `[][QuietCreate]_vars`, which
says no more than that bridges are created while no thread holds the mutex.
`OneBridgeExcludes` needs no such condition: a process with one bridge creates it
again only after both joins. `OneBridgeWaitsForOthers` proves `OnlyOthersEndTheWait`
for such a process: when the main thread is at the second join, the sender has
returned (`Inv`), and no other thread writes to the receiver's `inbox`.

`FlowTableProofs` proves `OneOwner` and `NoReadAfterFree` for any
numbers of keys, buckets, flows, tables and processors (`FlowTableAssumption`: the
kinds of addresses are distinct). `Store` is what commands and callbacks keep among
themselves: ownership, what a rebuild has copied, and that the lists of the
current table and of the one being built are doubly linked, without which a
deletion would leave a link to the freed flow. `Readers` adds what a packet may
meet. A flow deleted during its lookup is still safe for it, because the callback
waits for it (`Safe`); and the flows with an initialised node of the version it
reads lead only to one another (`Good`), even when a rebuild links these nodes
again.

`FlowTableRefinement` proves the refinement, `Spec => Refines`, for the same
constants. The map changes in the step that links, unlinks or replaces, so that
commands are simple; the lookups are not, as a packet walks lists that change
under it, some of them lists of the table before. The invariant `LInv` adds to
`Readers`:

* `Right`: every flow a packet may meet that has its key carries actions that the
  key had during the lookup. An answer is then an answer of `FlowMap`.
* `Sure`: while the key has had a flow throughout and no second rebuild began, the
  packet is inside a set of flows that its links leave only through the flow it
  looks for (`Path`). It cannot come to the end of the list, so that it does not
  miss. The set replaces "the flow comes later in the list", which would be an
  induction over the list.
* `Whole`: such sets exist for each flow of the current table and of the one being
  built (`Reached`), and back pointers name what points to a flow (`Back`), without
  which `hlist_del_rcu` would cut a path to another flow. `PathKept` and `PathWithout`
  say what a deletion does to a path, for a packet that may stand at the deleted
  flow and for one that may not.

After a rebuild the packets of the old table keep their paths because a new flow is
linked through the other node, and the next rebuild, which uses theirs again, is
the exception `FlowMap` makes (`links = "reused"`).

`DatapathProofs` proves every safety property of `datapath_gdt`: for any number of
processors, any table size, ids, keys and hash functions, and any lists of actions
(`BfGdtAssumption`, `KernelGdtAssumption`, `DatapathAssumption`). Its invariant has three
parts.

* `Kernel` says what the slots hold between any two stores of a command: the
  table `table` but for the slot that is worked on, which holds nothing or a new
  filter (`Adding`), a filter some of whose bits are copied (`Copying`), or a freed
  one (`Moving`, `Moved`). Filters stay in memory of their own (`Apart`).
  `CommandsMakeTable` is the case in which no command is under way.
* `Scans` is about the searches during which nothing was deleted. What every
  filter claimed since the beginning is still ahead of the search (`Kept`), so that
  the end of the table means that there is no such filter; every bit that is, or
  is about to be, in a filter has been recorded (`Shown`), and those the search
  found are among them (`Met`). `Kept` needs that slots are not reused, which
  holds without deletions only, and that a copy never clears a bit that old and
  new filter share.
* `Packets`: a packet that got its header is not gone while it is on its way, and is
  gone once when it is done, whatever its actions, unless one inside a `SAMPLE`
  failed; one that is done is gone in any case.

`VswitchdFlowsDisposeOnce` drops the exception for flows as vswitchd makes them. Its
hypothesis is that each `Nested[a]` has `USERSPACE` actions only, and the invariant
`Samples` that a packet inside a `SAMPLE` has only those before it and one list to go
back to. The exception for `nohead` stays, as REMOTE flows are what LazyCtrl makes.

`DCMProofs` proves `TypeOK` and `FlowsPaired` for any hosts, ports, streams and lengths of
the queues. The invariant adds that a flow under way to the switch has its pair
beside it in the queue, or is at the head and its pair has arrived
(`QueuedPaired`); a flow that arrives is then paired at once.

`NlSockProofs` proves `TypeOK` and `DoneStaysDone` for any number of threads, and
`TransactRight` for a socket that one thread uses (`OneCallerIsRight`): for any requests,
batch limit and number of failing sends and dropped answers. With two threads it
does not hold (`nl_shared`). The assumption on the constants (`NlSockAssumption`) is that
`SeqLimit > (MaxFaults + 2) * MaxBatch`: the code has 2^31 numbers and batches of at
most 128 (`MAX_IOVS`), so that it stands for some sixteen million faults. It cannot be
dropped: with so few numbers that they come round while an answer is left in the
queue, it is taken for one of a later batch. The invariant `Alone` adds:

* `Old`: how many numbers ago, counted around the limit (`Before`), the oldest answer
  left in the queue was asked for. Each fault leaves at most a batch behind, so that
  the distance stays within `Span`, less than a round.
* `Waiting`: while a batch is received, every request that has an answer finds it in
  the queue, in order and after all that is older. A request passed over for the
  answer to a later one was therefore silent, and the result 0 recorded for it is
  right; an empty queue means the same of the rest of the batch.
* `Done` for the requests before `at`, which is `TransactRight` when the call returns.

`GroupingProofs` proves the safety properties of `grouping_meet` for any list of
switches, any bounds and all group ids of up to three bytes (`GroupingAssumption`). The
lemmas on addresses come first: the sum in `bridge_lc_init` is 239.b2.b1.b0+1 for
the bytes of the id (`SendIs`), without a carry from one into another, so that no two
groups share an address (`SendInjective`, which `AddressesApart` states of every
reachable state). What is joined has the bytes the other way round (`RecvIs`), and is
some group's address only if the lowest byte of the id is 0 (`RecvIsSend`).
The inductive invariant `IInv` says that a datagram carries the address of the group
its sender was in (`Datagram`), that what a bridge heard was sent to the address it
listens on (`Tuned`), and that a bridge that is gone has heard nobody (`Quiet`), which
makes `Tuned` survive a restart in another group. `HeardAreExchanged` is the
consequence for all ids: a bridge hears the group whose id is its own with the upper
bytes exchanged, and no other. `GroupsStayApart` (`GroupIsolation`) has the hypothesis
that ids have at most two bytes, which `gpmetis` keeps to, as it numbers the groups from
0. It leaves the default group as the only one whose members hear anybody, which is
the positive side of what `grouping_deaf` shows; and without the hypothesis it would be
false, as a bridge of group 256 listens to the address of group 65536.

**Only model-checked:**

* liveness (`GdtConverges`, `DefaultGroupHears`, `EndMcastReturns`,
  `KeepsBroadcasting`, `TransactReturns`, `PacketDone`, `StaleFlowsDie`), which the
  prover cannot do under fairness;
* `MutexExclusion` for the steps between a creation that is not quiet and the next
  release, where it does not hold.

## 6. Not modelled

* The hash functions and the false positives of Bloom filters beyond collisions
  of the bits of `Hash`; `lib/bf.c`'s allocation failures.
* Of the datapath: packet contents (decapsulation overwrites the inner addresses,
  `remote.c:111`), packets that arrive with a flow (patch ports),
  `OVS_PACKET_CMD_EXECUTE`, the loop counter, and the end of a datapath, whose
  table is freed after the callback that frees the datapath is registered
  (`datapath.c:2059`).
* Of the flow table: the reference that a tunnel's header cache holds on a flow
  (`tunnel.c`), and the end of the table with its datapath.
* Of the controller: the packets it sends back to a switch, the REST interface,
  the start-up file of remote hosts, a switch in fail-open mode, and one whose
  flow table is limited (`flow_limit`, `overflow_policy`).
* The statistics pipeline: scripts that copy, sort and delete files; its hazards
  are listed with the lines where they bite. `doGroup` is an arbitrary assignment
  of groups, METIS likewise.
* The simulator, a sequential batch program that is no part of the running system.
* Upstream Open vSwitch and Floodlight beyond what LazyCtrl's code calls and what
  the modules above name.
