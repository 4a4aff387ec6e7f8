---------------------------- MODULE McastThreads ----------------------------
(***************************************************************************)
(* The threads of one ovs-vswitchd process: the main thread creates and    *)
(* destroys bridges, and every bridge has a thread mc_send and a thread    *)
(* mc_recv.  All of them share one mutex, which bridge_start_mcast         *)
(* initialises for every bridge; the mc_recv threads of a host share the   *)
(* UDP port LC_MCAST_GROUP_PORT.                                           *)
(*                                                                         *)
(* The mutex is the one of the C library: a word that is 0 (free), 1       *)
(* (locked) or 2 (locked, perhaps with sleepers), and a thread that sleeps *)
(* until an unlock that saw 2 wakes it.                                    *)
(***************************************************************************)
EXTENDS Integers, FiniteSets

CONSTANTS
    Bridge,         \* bridges the process may have
    NoBridge,       \* no bridge
    MaxCreates      \* how often bridges are created

ASSUME McastThreadsAssumption ==
    /\ NoBridge \notin Bridge
    /\ MaxCreates \in Nat

Thread == {"mc_send", "mc_recv"} \X Bridge

VARIABLES
    main,       \* [pc, br]: what the main thread does, and for which bridge
    pc,         \* pc[t]: where thread t is; "none" before pthread_create
    mem,        \* mem[b]: which of the objects of bridge b are allocated
    stop,       \* stop[b]: *send_arg.stop and *recv_arg.stop
    mutex,      \* the lock word: 0, 1 or 2
    port,       \* the bridge whose mc_recv has bound the port, or NoBridge
    inbox,      \* inbox[b]: who sent the datagrams that wait at mc_recv's socket
    creates     \* history: how often bridges were created

vars == <<main, pc, mem, stop, mutex, port, inbox, creates>>

\* What a bridge allocates: the bridge, its table, the stop flags, its ofproto.
Object == {"br", "gdt", "stop", "ofproto"}

Idle == [pc |-> "idle", br |-> NoBridge]

Init ==
    /\ main = Idle
    /\ pc = [t \in Thread |-> "none"]
    /\ mem = [b \in Bridge |-> {}]
    /\ stop = [b \in Bridge |-> FALSE]
    /\ mutex = 0
    /\ port = NoBridge
    /\ inbox = [b \in Bridge |-> {}]
    /\ creates = 0

\* The place of thread t moves from one label to another.
Goto(t, from, to) == pc[t] = from /\ pc' = [pc EXCEPT ![t] = to]
-----------------------------------------------------------------------------
\* The mutex.

Asleep == {t \in Thread : pc[t] = "asleep"}

\* pthread_mutex_lock: t enters its critical section, or marks the mutex as
\* contended and sleeps.  A thread that was woken leaves that mark.
Lock(t, critical) ==
    /\ pc[t] \in {"lock", "relock"}
    /\ IF mutex = 0
       THEN /\ pc' = [pc EXCEPT ![t] = critical]
            /\ mutex' = IF pc[t] = "lock" THEN 1 ELSE 2
       ELSE /\ pc' = [pc EXCEPT ![t] = "asleep"]
            /\ mutex' = 2
    /\ UNCHANGED <<main, mem, stop, port, inbox, creates>>

\* pthread_mutex_unlock: one sleeper is woken if the mutex was contended.
Unlock(t, next) ==
    /\ mutex' = 0
    /\ IF mutex = 2 /\ Asleep # {}
       THEN \E u \in Asleep :
                pc' = [pc EXCEPT ![t] = next, ![u] = "relock"]
       ELSE pc' = [pc EXCEPT ![t] = next]
-----------------------------------------------------------------------------
\* The main thread.

\* bridge_create up to the first pthread_create of bridge_start_mcast.
bridge_create(b) ==
    /\ main = Idle
    /\ mem[b] = {}
    /\ creates < MaxCreates
    /\ creates' = creates + 1
    /\ mem' = [mem EXCEPT ![b] = {"br", "gdt", "stop"}]
    /\ stop' = [stop EXCEPT ![b] = FALSE]
    /\ mutex' = 0
    /\ pc' = [pc EXCEPT ![<<"mc_send", b>>] = "open", ![<<"mc_recv", b>>] = "none"]
    /\ main' = [pc |-> "sleep", br |-> b]
    /\ UNCHANGED <<port, inbox>>

\* The second pthread_create, after sleep(1).
bridge_start_recv ==
    /\ main.pc = "sleep"
    /\ Goto(<<"mc_recv", main.br>>, "none", "open")
    /\ main' = Idle
    /\ UNCHANGED <<mem, stop, mutex, port, inbox, creates>>

\* The flags are not set.
SetStop_Mutant(b) ==
    /\ UNCHANGED stop
    /\ main' = [pc |-> "join_send", br |-> b]

\* bridge_end_mcast up to the joins.
SetStop(b) ==
    /\ stop' = [stop EXCEPT ![b] = TRUE]
    /\ main' = [pc |-> "join_send", br |-> b]

\* bridge_add_ofprotos: a bridge whose ofproto cannot be created is destroyed.
bridge_add_ofprotos(b) ==
    /\ main = Idle
    /\ "br" \in mem[b] /\ "ofproto" \notin mem[b]
    /\ \/ mem' = [mem EXCEPT ![b] = @ \cup {"ofproto"}] /\ UNCHANGED <<main, stop>>
       \/ SetStop(b) /\ UNCHANGED mem
    /\ UNCHANGED <<pc, mutex, port, inbox, creates>>

bridge_destroy(b) ==
    /\ main = Idle
    /\ mem[b] = Object
    /\ SetStop(b)
    /\ UNCHANGED <<pc, mem, mutex, port, inbox, creates>>

\* mc_send is not joined.
join_send_Mutant ==
    /\ main.pc = "join_send"
    /\ main' = [main EXCEPT !.pc = "join_recv"]
    /\ UNCHANGED <<pc, mem, stop, mutex, port, inbox, creates>>

\* pthread_join of mc_send.
join_send ==
    /\ main.pc = "join_send"
    /\ pc[<<"mc_send", main.br>>] = "returned"
    /\ main' = [main EXCEPT !.pc = "join_recv"]
    /\ UNCHANGED <<pc, mem, stop, mutex, port, inbox, creates>>

\* pthread_join of mc_recv, and the stop flags are freed.
join_recv ==
    /\ main.pc = "join_recv"
    /\ pc[<<"mc_recv", main.br>>] = "returned"
    /\ mem' = [mem EXCEPT ![main.br] = @ \ {"stop"}]
    /\ main' = [main EXCEPT !.pc = "destroy"]
    /\ UNCHANGED <<pc, stop, mutex, port, inbox, creates>>

\* The process is gone, its sockets are closed, and its monitor starts it again.
ProcessDies ==
    /\ main' = Idle
    /\ pc' = [t \in Thread |-> "none"]
    /\ mem' = [b \in Bridge |-> {}]
    /\ stop' = [b \in Bridge |-> FALSE]
    /\ mutex' = 0
    /\ port' = NoBridge
    /\ inbox' = [b \in Bridge |-> {}]
    /\ UNCHANGED creates

\* bridge_destroy forgets the ofproto.
bf_gdt_destroy_Mutant ==
    /\ main.pc = "destroy"
    /\ \/ /\ mem' = [mem EXCEPT ![main.br] = @ \ {"br", "gdt"}]
          /\ main' = Idle
          /\ UNCHANGED <<pc, stop, mutex, port, inbox, creates>>
       \/ ProcessDies

\* bf_gdt_destroy, then the rest of bridge_destroy.  bf_destroy frees an array
\* that lies inside its filter: the C library aborts the process, or, when it
\* is told not to check, goes on.
bf_gdt_destroy ==
    /\ main.pc = "destroy"
    /\ \/ /\ mem' = [mem EXCEPT ![main.br] = {}]
          /\ main' = Idle
          /\ UNCHANGED <<pc, stop, mutex, port, inbox, creates>>
       \/ ProcessDies
-----------------------------------------------------------------------------
\* mc_send.

\* The socket is opened, or mc_send returns at once.
mc_send_open(b) ==
    /\ \/ Goto(<<"mc_send", b>>, "open", "loop")
       \/ Goto(<<"mc_send", b>>, "open", "returned")
    /\ UNCHANGED <<main, mem, stop, mutex, port, inbox, creates>>

\* The test of the loop.  The local filter was created with the table, so that
\* it is found.
mc_send_loop(b) ==
    /\ Goto(<<"mc_send", b>>, "loop", IF stop[b] THEN "returned" ELSE "lock")
    /\ UNCHANGED <<main, mem, stop, mutex, port, inbox, creates>>

mc_send_lock(b) == Lock(<<"mc_send", b>>, "copy")

NotJoined == {"none", "open", "join", "returned"}

\* A datagram for the group reaches the socket that has the port once its
\* mc_recv has joined the group; the host's own datagrams are looped back.
Deliver(who) ==
    inbox' = IF port # NoBridge /\ pc[<<"mc_recv", port>>] \notin NotJoined
             THEN [inbox EXCEPT ![port] = @ \cup {who}] ELSE inbox

\* The filter is copied and the mutex released; then the datagram is sent.
mc_send_unlock(b) ==
    /\ pc[<<"mc_send", b>>] = "copy"
    /\ Unlock(<<"mc_send", b>>, "sendto")
    /\ UNCHANGED <<main, mem, stop, port, inbox, creates>>

\* An error of sendto is logged, and the datagram is lost.
mc_send_sendto(b) ==
    /\ Goto(<<"mc_send", b>>, "sendto", "loop")
    /\ Deliver("self") \/ UNCHANGED inbox
    /\ UNCHANGED <<main, mem, stop, mutex, port, creates>>
-----------------------------------------------------------------------------
\* mc_recv.

\* socket and bind.  bind fails when another socket has the port, and both may
\* fail for other reasons; mc_recv then returns.
mc_recv_bind(b) ==
    /\ \/ port = NoBridge /\ port' = b /\ Goto(<<"mc_recv", b>>, "open", "join")
       \/ UNCHANGED port /\ Goto(<<"mc_recv", b>>, "open", "returned")
    /\ UNCHANGED <<main, mem, stop, mutex, inbox, creates>>

\* IP_ADD_MEMBERSHIP; when it fails mc_recv returns and its socket stays open.
mc_recv_join(b) ==
    /\ \/ Goto(<<"mc_recv", b>>, "join", "loop")
       \/ Goto(<<"mc_recv", b>>, "join", "returned")
    /\ UNCHANGED <<main, mem, stop, mutex, port, inbox, creates>>

\* The test of the loop; after it mc_recv leaves the group and closes its socket.
\* When IP_DROP_MEMBERSHIP fails it returns without closing it.
mc_recv_loop(b) ==
    /\ Goto(<<"mc_recv", b>>, "loop", IF stop[b] THEN "returned" ELSE "recvfrom")
    /\ \/ stop[b] /\ port' = NoBridge /\ inbox' = [inbox EXCEPT ![b] = {}]
       \/ UNCHANGED <<port, inbox>>
    /\ UNCHANGED <<main, mem, stop, mutex, creates>>

\* What is in msg is used even if recvfrom returned without a datagram.
mc_recv_recvfrom_Mutant(b) ==
    /\ \E who \in inbox[b] \cup {"nobody"} :
        /\ inbox' = [inbox EXCEPT ![b] = @ \ {who}]
        /\ Goto(<<"mc_recv", b>>, "recvfrom", IF who = "self" THEN "loop" ELSE "lock")
    /\ UNCHANGED <<main, mem, stop, mutex, port, creates>>

\* recvfrom blocks until there is a datagram; the host's own are ignored.
mc_recv_recvfrom(b) ==
    /\ \E who \in inbox[b] :
        /\ inbox' = [inbox EXCEPT ![b] = @ \ {who}]
        /\ Goto(<<"mc_recv", b>>, "recvfrom", IF who = "self" THEN "loop" ELSE "lock")
    /\ UNCHANGED <<main, mem, stop, mutex, port, creates>>

\* recvfrom fails, and the loop begins again.  Nothing makes it fail.
mc_recv_error(b) ==
    /\ Goto(<<"mc_recv", b>>, "recvfrom", "loop")
    /\ UNCHANGED <<main, mem, stop, mutex, port, inbox, creates>>

\* mc_recv updates the table without the mutex.
mc_recv_lock_Mutant(b) ==
    /\ Goto(<<"mc_recv", b>>, "lock", "update")
    /\ UNCHANGED <<main, mem, stop, mutex, port, inbox, creates>>

mc_recv_lock(b) == Lock(<<"mc_recv", b>>, "update")

\* The mutex is not released.
mc_recv_unlock_Mutant(b) ==
    /\ Goto(<<"mc_recv", b>>, "update", "push")
    /\ UNCHANGED <<main, mem, stop, mutex, port, inbox, creates>>

mc_recv_unlock(b) ==
    /\ pc[<<"mc_recv", b>>] = "update"
    /\ Unlock(<<"mc_recv", b>>, "push")
    /\ UNCHANGED <<main, mem, stop, port, inbox, creates>>

\* The push through br->ofproto and the statistics end the round.
mc_recv_push(b) ==
    /\ Goto(<<"mc_recv", b>>, "push", "loop")
    /\ UNCHANGED <<main, mem, stop, mutex, port, inbox, creates>>

\* Another switch of the group, if there is one, multicasts its filter.
PeerSends ==
    /\ Deliver("peer")
    /\ UNCHANGED <<main, pc, mem, stop, mutex, port, creates>>
-----------------------------------------------------------------------------
MainNext ==
    \/ \E b \in Bridge : bridge_create(b) \/ bridge_add_ofprotos(b) \/ bridge_destroy(b)
    \/ bridge_start_recv
    \/ join_send
    \/ join_recv
    \/ bf_gdt_destroy

SendNext(b) ==
    \/ mc_send_open(b) \/ mc_send_loop(b) \/ mc_send_lock(b)
    \/ mc_send_unlock(b) \/ mc_send_sendto(b)

RecvNext(b) ==
    \/ mc_recv_bind(b) \/ mc_recv_join(b) \/ mc_recv_loop(b) \/ mc_recv_recvfrom(b)
    \/ mc_recv_lock(b) \/ mc_recv_unlock(b) \/ mc_recv_push(b)

Next ==
    \/ MainNext
    \/ \E b \in Bridge : SendNext(b) \/ RecvNext(b) \/ mc_recv_error(b)
    \/ PeerSends

Spec == Init /\ [][Next]_vars

\* The scheduler runs every thread that is not blocked, and the main thread goes
\* on with what it has begun.  A thread that finds the mutex free again and again
\* gets it: both threads sleep or block between their uses of it.  Nothing makes
\* another switch send or recvfrom fail.
Fairness ==
    /\ WF_vars(bridge_start_recv \/ join_send \/ join_recv \/ bf_gdt_destroy)
    /\ \A b \in Bridge :
        /\ WF_vars(SendNext(b))
        /\ WF_vars(RecvNext(b))
        /\ SF_vars(mc_send_lock(b) /\ mutex = 0)
        /\ SF_vars(mc_recv_lock(b) /\ mutex = 0)

FairSpec == Spec /\ Fairness
-----------------------------------------------------------------------------
\* Properties.

Label == {"none", "open", "loop", "lock", "relock", "asleep", "copy", "sendto",
          "join", "recvfrom", "update", "push", "returned"}

\* A bridge's objects are there or gone together, but for the stop flags, which
\* bridge_end_mcast frees first, and the ofproto, which comes later or not at all.
Allocation == {{}} \cup {objects \in SUBSET Object : {"br", "gdt"} \subseteq objects}

\* The state has its types, and no object outlives its bridge.
TypeOK ==
    /\ main.pc \in {"idle", "sleep", "join_send", "join_recv", "destroy"}
    /\ main.br \in Bridge \cup {NoBridge}
    /\ (main.pc = "idle") = (main.br = NoBridge)
    /\ pc \in [Thread -> Label]
    /\ mem \in [Bridge -> Allocation]
    /\ stop \in [Bridge -> BOOLEAN]
    /\ mutex \in 0 .. 2
    /\ port \in Bridge \cup {NoBridge}
    /\ inbox \in [Bridge -> SUBSET {"self", "peer"}]
    /\ creates \in 0 .. MaxCreates

Running(t) == pc[t] \notin {"none", "returned"}

\* While a thread runs, the bridge, the table and the stop flag it works on are
\* allocated, however bridges are created, fail and are destroyed around it.
NoUseAfterFree ==
    \A t \in Thread : Running(t) => {"br", "gdt", "stop"} \subseteq mem[t[2]]

\* The copy of the local filter and the update of the table exclude each other.
MutexExclusion ==
    Cardinality({t \in Thread : pc[t] \in {"copy", "update"}}) <= 1

Joining == main.pc \in {"join_send", "join_recv"}

\* mc_recv of the bridge that is being destroyed is in recvfrom with nothing to
\* receive, and the main thread waits for it.
Deserted ==
    /\ main.pc = "join_recv"
    /\ pc[<<"mc_recv", main.br>>] = "recvfrom"
    /\ inbox[main.br] = {}

\* bridge_end_mcast returns, unless mc_recv ends up in recvfrom for ever because
\* no other switch sends and recvfrom does not fail: no other wait of the joins
\* (for the mutex, the flags or the sockets) goes on for ever.
EndMcastReturns ==
    <>[]Joining => <>[]Deserted

\* A bridge that is alone in the process cannot end that wait by itself.  Its own
\* datagrams would wake mc_recv, but mc_send is joined first: only a datagram of
\* another switch or an error of recvfrom lets bridge_end_mcast return.
OnlyOthersEndTheWait ==
    [][Deserted => \/ Deserted'
                   \/ inbox'[main.br] = {"peer"}
                   \/ mc_recv_error(main.br)]_vars

\* "broadcasting": mc_send of a bridge sends its filter again and again until
\* it returns.
KeepsBroadcasting ==
    \A b \in Bridge :
        pc[<<"mc_send", b>>] = "loop" ~> pc[<<"mc_send", b>>] \in {"sendto", "returned", "none"}
=============================================================================
