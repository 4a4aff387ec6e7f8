------------------------- MODULE McastThreadsProofs -------------------------
(***************************************************************************)
(* No thread of a bridge uses what has been freed, for any number of       *)
(* bridges in one process.                                                 *)
(*                                                                         *)
(* NoUseAfterFree is not inductive: that join_recv may free the stop flags *)
(* rests on the join of mc_send before it, and that a bridge may be freed  *)
(* on both.  Inv adds what the main thread knows at each of its places.    *)
(*                                                                         *)
(* The mutex excludes as long as bridge_create, which initialises it again *)
(* for every bridge, does so while no thread holds it (Excludes).          *)
(***************************************************************************)
EXTENDS McastThreads, FiniteSetTheorems, TLAPS

Needed == {"br", "gdt", "stop"}

\* A bridge has all that its threads need, from its creation to the joins.
Allocated(b) == Needed \subseteq mem[b]

Inv ==
    /\ TypeOK
    /\ NoUseAfterFree
    /\ \A b \in Bridge : mem[b] # {} => Allocated(b) \/ (main.pc = "destroy" /\ main.br = b)
    /\ main.pc \in {"sleep", "join_send", "join_recv"} => Allocated(main.br)
    /\ main.pc \in {"join_recv", "destroy"} => pc[<<"mc_send", main.br>>] = "returned"
    /\ main.pc = "destroy" => pc[<<"mc_recv", main.br>>] = "returned"

\* What the main thread makes of a bridge's objects is an allocation.
LEMMA Allocations ==
    /\ {} \in Allocation /\ Needed \in Allocation
    /\ \A objects \in Allocation :
        Needed \subseteq objects =>
            objects \cup {"ofproto"} \in Allocation /\ objects \ {"stop"} \in Allocation
BY DEF Allocation, Object, Needed

\* A step of one thread, by which it or a sleeper moves on, and which frees
\* nothing.
ThreadStep(t) ==
    /\ Running(t)
    /\ pc' \in [Thread -> Label]
    /\ \A u \in Thread : u # t /\ ~Running(u) => pc'[u] = pc[u]
    /\ UNCHANGED <<main, mem, stop, creates>>
    /\ mutex' \in 0 .. 2
    /\ port' \in Bridge \cup {NoBridge}
    /\ inbox' \in [Bridge -> SUBSET {"self", "peer"}]

\* A step of one thread between its creation and its join keeps the invariant.
LEMMA ThreadStepKeeps ==
    ASSUME NEW t \in Thread PROVE Inv /\ ThreadStep(t) => Inv'
<1> SUFFICES ASSUME Inv, ThreadStep(t) PROVE Inv'
  BY Zenon
<1>1. TypeOK'
  BY DEF Inv, ThreadStep, TypeOK
<1>2. NoUseAfterFree'
  <2> SUFFICES ASSUME NEW u \in Thread, Running(u)' PROVE Needed \subseteq mem[u[2]]
    BY DEF NoUseAfterFree, Needed, ThreadStep
  <2>1. Running(u)
    BY DEF ThreadStep, Running
  <2> QED
    BY <2>1 DEF Inv, NoUseAfterFree, Needed
<1>3. main.br \in Bridge => <<"mc_send", main.br>> \in Thread /\ <<"mc_recv", main.br>> \in Thread
  BY DEF Thread
<1>4. main.pc \in {"join_recv", "destroy"} => main.br \in Bridge
  BY DEF Inv, TypeOK
<1>5. \A u \in Thread : pc[u] = "returned" => pc'[u] = "returned"
  BY DEF ThreadStep, Running
<1> QED
  BY <1>1, <1>2, <1>3, <1>4, <1>5 DEF Inv, Allocated, ThreadStep

\* The steps of mc_send and mc_recv are such steps.
LEMMA SendIsThreadStep ==
    ASSUME NEW b \in Bridge, TypeOK, SendNext(b) PROVE ThreadStep(<<"mc_send", b>>)
<1> DEFINE t == <<"mc_send", b>>
<1>1. t \in Thread
  BY DEF Thread
<1>2. ASSUME NEW from \in Label \ {"none", "returned"}, NEW to \in Label, Goto(t, from, to),
             UNCHANGED <<main, mem, stop, mutex, port, creates>>,
             inbox' \in [Bridge -> SUBSET {"self", "peer"}]
      PROVE  ThreadStep(t)
  BY <1>1, <1>2 DEF Goto, ThreadStep, Running, TypeOK
<1> HIDE DEF t
<1>3. CASE mc_send_open(b)
  BY <1>2, <1>3 DEF mc_send_open, Label, t, TypeOK
<1>4. CASE mc_send_loop(b)
  BY <1>2, <1>4 DEF mc_send_loop, Label, t, TypeOK
<1>5. CASE mc_send_lock(b)
  BY <1>1, <1>5 DEF mc_send_lock, Lock, Label, t, TypeOK, ThreadStep, Running
<1>6. CASE mc_send_unlock(b)
  BY <1>1, <1>6 DEF mc_send_unlock, Unlock, Asleep, Label, t, TypeOK, ThreadStep, Running
<1>7. CASE mc_send_sendto(b)
  <2>1. inbox' \in [Bridge -> SUBSET {"self", "peer"}]
    BY <1>7 DEF mc_send_sendto, Deliver, TypeOK
  <2> QED
    BY <1>2, <1>7, <2>1 DEF mc_send_sendto, Label, t
<1> QED
  BY <1>3, <1>4, <1>5, <1>6, <1>7 DEF SendNext, t

\* Every step of mc_recv is such a step.
LEMMA RecvIsThreadStep ==
    ASSUME NEW b \in Bridge, TypeOK, RecvNext(b) \/ mc_recv_error(b)
    PROVE  ThreadStep(<<"mc_recv", b>>)
<1> DEFINE t == <<"mc_recv", b>>
<1>1. t \in Thread
  BY DEF Thread
<1>2. ASSUME NEW from \in Label \ {"none", "returned"}, NEW to \in Label, Goto(t, from, to),
             UNCHANGED <<main, mem, stop, mutex, creates>>,
             port' \in Bridge \cup {NoBridge},
             inbox' \in [Bridge -> SUBSET {"self", "peer"}]
      PROVE  ThreadStep(t)
  BY <1>1, <1>2 DEF Goto, ThreadStep, Running, TypeOK
<1> HIDE DEF t
<1>3. CASE mc_recv_bind(b)
  BY <1>2, <1>3 DEF mc_recv_bind, Label, t, TypeOK
<1>4. CASE mc_recv_join(b)
  BY <1>2, <1>4 DEF mc_recv_join, Label, t, TypeOK
<1>5. CASE mc_recv_loop(b)
  BY <1>2, <1>5 DEF mc_recv_loop, Label, t, TypeOK
<1>6. CASE mc_recv_recvfrom(b)
  BY <1>2, <1>6 DEF mc_recv_recvfrom, Label, t, TypeOK
<1>7. CASE mc_recv_lock(b)
  BY <1>1, <1>7 DEF mc_recv_lock, Lock, Label, t, TypeOK, ThreadStep, Running
<1>8. CASE mc_recv_unlock(b)
  BY <1>1, <1>8 DEF mc_recv_unlock, Unlock, Asleep, Label, t, TypeOK, ThreadStep, Running
<1>9. CASE mc_recv_push(b)
  BY <1>2, <1>9 DEF mc_recv_push, Label, t, TypeOK
<1>10. CASE mc_recv_error(b)
  BY <1>2, <1>10 DEF mc_recv_error, Label, t, TypeOK
<1> QED
  BY <1>3, <1>4, <1>5, <1>6, <1>7, <1>8, <1>9, <1>10 DEF RecvNext, t

\* The main thread frees nothing that a thread of the bridge still needs.
LEMMA MainKeeps ==
    Inv /\ MainNext => Inv'
<1> SUFFICES ASSUME Inv, MainNext PROVE Inv'
  BY Zenon
<1> USE McastThreadsAssumption
<1>0. \A b \in Bridge : <<"mc_send", b>> \in Thread /\ <<"mc_recv", b>> \in Thread
  BY DEF Thread
<1>1. ASSUME NEW b \in Bridge, bridge_create(b) PROVE Inv'
  <2>1. /\ main = Idle /\ main' = [pc |-> "sleep", br |-> b]
        /\ mem[b] = {} /\ mem' = [mem EXCEPT ![b] = Needed]
        /\ pc' = [pc EXCEPT ![<<"mc_send", b>>] = "open", ![<<"mc_recv", b>>] = "none"]
    BY <1>1 DEF bridge_create, Needed
  <2>2. TypeOK'
    <3>1. mem' \in [Bridge -> Allocation]
      BY <2>1, Allocations DEF Inv, TypeOK
    <3> QED
      BY <1>0, <1>1, <3>1 DEF Inv, TypeOK, bridge_create, Label, Idle
  <2>3. NoUseAfterFree'
    <3> SUFFICES ASSUME NEW t \in Thread, Running(t)' PROVE Needed \subseteq mem'[t[2]]
      BY DEF NoUseAfterFree, Needed
    <3>1. t[2] \in Bridge
      BY DEF Thread
    <3>2. CASE t[2] = b
      BY <2>1, <3>2 DEF Inv, TypeOK
    <3>3. CASE t[2] # b
      <4>1. Running(t) /\ mem'[t[2]] = mem[t[2]]
        BY <1>0, <2>1, <3>1, <3>3 DEF Running, Inv, TypeOK
      <4> QED
        BY <4>1 DEF Inv, NoUseAfterFree, Needed
    <3> QED
      BY <3>2, <3>3
  <2>4. \A a \in Bridge : mem'[a] # {} => Needed \subseteq mem'[a]
    BY <2>1 DEF Inv, TypeOK, Allocated, Idle
  <2>5. main'.pc = "sleep" /\ main'.br = b /\ Needed \subseteq mem'[b]
    BY <2>1 DEF Inv, TypeOK
  <2> QED
    BY <2>2, <2>3, <2>4, <2>5 DEF Inv, Allocated
<1>2. ASSUME NEW b \in Bridge, bridge_add_ofprotos(b) PROVE Inv'
  <2>1. /\ main = Idle /\ Allocated(b)
        /\ UNCHANGED <<pc, mutex, port, inbox, creates>>
    BY <1>2 DEF bridge_add_ofprotos, Inv, Idle, TypeOK
  <2>2. CASE mem' = [mem EXCEPT ![b] = @ \cup {"ofproto"}] /\ UNCHANGED <<main, stop>>
    <3>1. mem' \in [Bridge -> Allocation]
      BY <2>1, <2>2, Allocations, Zenon DEF Inv, TypeOK, Allocated
    <3> QED
      BY <2>1, <2>2, <3>1 DEF Inv, TypeOK, NoUseAfterFree, Running, Allocated, Needed, Idle
  <2>3. CASE SetStop(b) /\ UNCHANGED mem
    BY <2>1, <2>3 DEF SetStop, Inv, TypeOK, NoUseAfterFree, Running, Allocated, Idle
  <2> QED
    BY <1>2, <2>2, <2>3 DEF bridge_add_ofprotos
<1>3. ASSUME NEW b \in Bridge, bridge_destroy(b) PROVE Inv'
  BY <1>3 DEF bridge_destroy, SetStop, Inv, TypeOK, NoUseAfterFree, Running, Allocated, Needed,
              Object, Idle
<1>4. CASE bridge_start_recv
  <2>1. /\ main.pc = "sleep" /\ main.br \in Bridge /\ Allocated(main.br) /\ main' = Idle
        /\ pc' = [pc EXCEPT ![<<"mc_recv", main.br>>] = "open"]
        /\ UNCHANGED <<mem, stop, mutex, port, inbox, creates>>
    BY <1>4 DEF bridge_start_recv, Goto, Inv, TypeOK
  <2>2. TypeOK'
    BY <1>0, <2>1, Zenon DEF Inv, TypeOK, Label, Idle
  <2>3. NoUseAfterFree'
    <3> SUFFICES ASSUME NEW t \in Thread, Running(t)' PROVE Needed \subseteq mem[t[2]]
      BY <2>1 DEF NoUseAfterFree, Needed
    <3>1. CASE t = <<"mc_recv", main.br>>
      BY <2>1, <3>1 DEF Allocated
    <3>2. CASE t # <<"mc_recv", main.br>>
      BY <2>1, <3>2 DEF Inv, TypeOK, NoUseAfterFree, Running, Needed
    <3> QED
      BY <3>1, <3>2
  <2> QED
    BY <2>1, <2>2, <2>3 DEF Inv, Allocated, Idle
<1>5. CASE join_send
  BY <1>5 DEF join_send, Inv, TypeOK, NoUseAfterFree, Running, Allocated
<1>6. CASE join_recv
  <2>1. /\ main.pc = "join_recv" /\ main.br \in Bridge
        /\ pc[<<"mc_send", main.br>>] = "returned" /\ pc[<<"mc_recv", main.br>>] = "returned"
        /\ mem' = [mem EXCEPT ![main.br] = @ \ {"stop"}]
        /\ main' = [main EXCEPT !.pc = "destroy"]
        /\ UNCHANGED <<pc, stop, mutex, port, inbox, creates>>
    BY <1>6 DEF join_recv, Inv, TypeOK
  <2>2. TypeOK'
    <3>1. mem' \in [Bridge -> Allocation]
      BY <2>1, Allocations, Zenon DEF Inv, TypeOK, Allocated
    <3> QED
      BY <2>1, <3>1 DEF Inv, TypeOK
  <2>3. NoUseAfterFree'
    <3> SUFFICES ASSUME NEW t \in Thread, Running(t) PROVE Needed \subseteq mem'[t[2]]
      BY <2>1 DEF NoUseAfterFree, Needed, Running
    <3>1. t[2] # main.br /\ t[2] \in Bridge
      BY <2>1 DEF Running, Thread
    <3> QED
      BY <2>1, <3>1 DEF Inv, TypeOK, NoUseAfterFree, Needed
  <2>4. main'.br = main.br /\ main'.pc = "destroy"
    BY <2>1 DEF Inv, TypeOK
  <2>5. \A b \in Bridge : mem'[b] # {} => Needed \subseteq mem'[b] \/ b = main.br
    BY <2>1 DEF Inv, TypeOK, Allocated
  <2> QED
    BY <2>1, <2>2, <2>3, <2>4, <2>5 DEF Inv, Allocated
<1>7. CASE bf_gdt_destroy
  <2>1. /\ main.pc = "destroy" /\ main.br \in Bridge
        /\ pc[<<"mc_send", main.br>>] = "returned" /\ pc[<<"mc_recv", main.br>>] = "returned"
    BY <1>7 DEF bf_gdt_destroy, Inv, TypeOK
  <2>2. CASE mem' = [mem EXCEPT ![main.br] = {}] /\ main' = Idle
             /\ UNCHANGED <<pc, stop, mutex, port, inbox, creates>>
    <3>1. TypeOK'
      <4>1. mem' \in [Bridge -> Allocation]
        BY <2>2, Allocations, Zenon DEF Inv, TypeOK
      <4> QED
        BY <2>2, <4>1, Zenon DEF Inv, TypeOK, Idle
    <3>2. NoUseAfterFree'
      <4> SUFFICES ASSUME NEW t \in Thread, Running(t) PROVE Needed \subseteq mem'[t[2]]
        BY <2>2 DEF NoUseAfterFree, Needed, Running
      <4>1. t[2] # main.br /\ t[2] \in Bridge
        BY <2>1 DEF Running, Thread
      <4> QED
        BY <2>2, <4>1 DEF Inv, TypeOK, NoUseAfterFree, Needed
    <3>3. \A b \in Bridge : mem'[b] # {} => Needed \subseteq mem'[b]
      BY <2>1, <2>2 DEF Inv, TypeOK, Allocated
    <3> QED
      BY <2>2, <3>1, <3>2, <3>3 DEF Inv, Allocated, Idle
  <2>3. CASE ProcessDies
    BY <2>3, Allocations DEF ProcessDies, Inv, TypeOK, NoUseAfterFree, Running, Label, Idle
  <2> QED
    BY <1>7, <2>2, <2>3 DEF bf_gdt_destroy
<1> QED
  BY <1>1, <1>2, <1>3, <1>4, <1>5, <1>6, <1>7, Zenon DEF MainNext

\* The invariant holds in every reachable state.
LEMMA InvInductive == Spec => []Inv
<1>1. Init => Inv
  BY McastThreadsAssumption, Allocations
     DEF Init, Inv, TypeOK, NoUseAfterFree, Running, Label, Idle
<1>2. Inv /\ [Next]_vars => Inv'
  <2> SUFFICES ASSUME Inv, [Next]_vars PROVE Inv'
    BY Zenon
  <2>1. CASE MainNext
    BY <2>1, MainKeeps
  <2>2. ASSUME NEW b \in Bridge, SendNext(b) PROVE Inv'
    <3>1. <<"mc_send", b>> \in Thread /\ TypeOK
      BY DEF Thread, Inv
    <3> QED
      BY <2>2, <3>1, SendIsThreadStep, ThreadStepKeeps, Zenon
  <2>3. ASSUME NEW b \in Bridge, RecvNext(b) \/ mc_recv_error(b) PROVE Inv'
    <3>1. <<"mc_recv", b>> \in Thread /\ TypeOK
      BY DEF Thread, Inv
    <3> QED
      BY <2>3, <3>1, RecvIsThreadStep, ThreadStepKeeps, Zenon
  <2>4. CASE PeerSends
    BY <2>4 DEF PeerSends, Deliver, Inv, TypeOK, NoUseAfterFree, Running, Allocated
  <2>5. CASE UNCHANGED vars
    BY <2>5 DEF vars, Inv, TypeOK, NoUseAfterFree, Running, Allocated
  <2> QED
    BY <2>1, <2>2, <2>3, <2>4, <2>5, Zenon DEF Next
<1> QED
  BY <1>1, <1>2, PTL DEF Spec

\* A running thread's bridge, table and stop flag are allocated, with any number of
\* bridges: bridge_destroy and bridge_end_mcast free them after both joins only.
THEOREM ThreadsUseLiveMemory == Spec => []NoUseAfterFree
<1>1. Inv => NoUseAfterFree
  BY DEF Inv
<1> QED
  BY <1>1, InvInductive, PTL

\* The fields of the model hold what the code can store in them.
THEOREM ThreadsTyped == Spec => []TypeOK
<1>1. Inv => TypeOK
  BY DEF Inv
<1> QED
  BY <1>1, InvInductive, PTL
-----------------------------------------------------------------------------
\* The mutex.

Critical == {t \in Thread : pc[t] \in {"copy", "update"}}

\* One thread at most has the mutex, and the mutex shows it.
Excludes ==
    /\ \A t, u \in Critical : t = u
    /\ Critical # {} => mutex # 0

\* bridge_create initialises the mutex when no thread holds it.
QuietCreate == (\E b \in Bridge : bridge_create(b)) => Critical = {}

\* Steps that leave the mutex alone and enter no critical section.
LEMMA OtherStepExcludes ==
    ASSUME Excludes, Critical' \subseteq Critical, mutex' = mutex
    PROVE  Excludes'
BY DEF Excludes

LEMMA LockExcludes ==
    ASSUME TypeOK, Excludes, NEW t \in Thread, NEW critical, Lock(t, critical)
    PROVE  Excludes'
<1>1. CASE mutex = 0
  <2>1. Critical = {} /\ mutex' # 0 /\ pc' = [pc EXCEPT ![t] = critical]
    BY <1>1 DEF Lock, Excludes
  <2>2. Critical' \subseteq {t}
    BY <2>1 DEF Critical, TypeOK
  <2> QED
    BY <2>1, <2>2 DEF Excludes
<1>2. CASE mutex # 0
  <2>1. mutex' = 2 /\ pc' = [pc EXCEPT ![t] = "asleep"]
    BY <1>2 DEF Lock
  <2>2. Critical' \subseteq Critical
    BY <2>1 DEF Critical, TypeOK
  <2> QED
    BY <2>1, <2>2 DEF Excludes
<1> QED
  BY <1>1, <1>2

LEMMA UnlockExcludes ==
    ASSUME TypeOK, Excludes, NEW t \in Critical, NEW next \in {"sendto", "push"}, Unlock(t, next)
    PROVE  Excludes'
<1>1. \A u \in Thread : u # t => pc[u] \notin {"copy", "update"}
  BY DEF Excludes, Critical
<1>2. CASE mutex = 2 /\ Asleep # {}
  <2>1. PICK u \in Asleep : pc' = [pc EXCEPT ![t] = next, ![u] = "relock"]
    BY <1>2 DEF Unlock
  <2>2. Critical' = {}
    BY <1>1, <2>1 DEF Critical, Asleep, TypeOK
  <2> QED
    BY <2>2 DEF Excludes
<1>3. CASE ~(mutex = 2 /\ Asleep # {})
  <2>1. pc' = [pc EXCEPT ![t] = next]
    BY <1>3 DEF Unlock
  <2>2. Critical' = {}
    BY <1>1, <2>1 DEF Critical, TypeOK
  <2> QED
    BY <2>2 DEF Excludes
<1> QED
  BY <1>2, <1>3

\* A thread that goes on outside its critical sections.
LEMMA GotoExcludes ==
    ASSUME TypeOK, Excludes, NEW t \in Thread, NEW from, NEW to \in Label \ {"copy", "update"},
           Goto(t, from, to), mutex' = mutex
    PROVE  Excludes'
<1>1. Critical' \subseteq Critical
  BY DEF Critical, Goto, TypeOK
<1> QED
  BY <1>1, OtherStepExcludes

LEMMA ThreadExcludes ==
    ASSUME TypeOK, Excludes, NEW b \in Bridge, SendNext(b) \/ RecvNext(b) \/ mc_recv_error(b)
    PROVE  Excludes'
<1>0. <<"mc_send", b>> \in Thread /\ <<"mc_recv", b>> \in Thread
  BY DEF Thread
<1>1. CASE mc_send_lock(b)
  BY <1>0, <1>1, LockExcludes, Zenon DEF mc_send_lock
<1>2. CASE mc_recv_lock(b)
  BY <1>0, <1>2, LockExcludes, Zenon DEF mc_recv_lock
<1>3. CASE mc_send_unlock(b)
  BY <1>0, <1>3, UnlockExcludes DEF mc_send_unlock, Critical
<1>4. CASE mc_recv_unlock(b)
  BY <1>0, <1>4, UnlockExcludes DEF mc_recv_unlock, Critical
<1>5. CASE mc_send_open(b) \/ mc_send_loop(b) \/ mc_send_sendto(b)
  BY <1>0, <1>5, GotoExcludes DEF mc_send_open, mc_send_loop, mc_send_sendto, Label
<1>6. CASE mc_recv_bind(b) \/ mc_recv_join(b) \/ mc_recv_loop(b) \/ mc_recv_recvfrom(b)
           \/ mc_recv_push(b) \/ mc_recv_error(b)
  BY <1>0, <1>6, GotoExcludes
     DEF mc_recv_bind, mc_recv_join, mc_recv_loop, mc_recv_recvfrom, mc_recv_push,
         mc_recv_error, Label
<1> QED
  BY <1>1, <1>2, <1>3, <1>4, <1>5, <1>6, Zenon DEF SendNext, RecvNext

LEMMA MainExcludes ==
    ASSUME Inv, Excludes, MainNext, QuietCreate
    PROVE  Excludes'
<1>0. TypeOK /\ \A b \in Bridge : <<"mc_send", b>> \in Thread /\ <<"mc_recv", b>> \in Thread
  BY DEF Thread, Inv
<1>1. ASSUME NEW b \in Bridge, bridge_create(b) PROVE Excludes'
  <2>1. Critical = {} /\ pc' = [pc EXCEPT ![<<"mc_send", b>>] = "open", ![<<"mc_recv", b>>] = "none"]
    BY <1>1, Zenon DEF QuietCreate, bridge_create
  <2>2. Critical' = {}
    BY <1>0, <2>1 DEF Critical, TypeOK
  <2> QED
    BY <2>2 DEF Excludes
<1>2. ASSUME NEW b \in Bridge, bridge_add_ofprotos(b) \/ bridge_destroy(b) PROVE Excludes'
  BY <1>2, OtherStepExcludes DEF bridge_add_ofprotos, bridge_destroy, Critical
<1>3. CASE bridge_start_recv
  <2>1. main.br \in Bridge
    BY <1>0, <1>3 DEF TypeOK, bridge_start_recv
  <2> QED
    BY <1>0, <1>3, <2>1, GotoExcludes, Zenon DEF bridge_start_recv, Label
<1>4. CASE join_send \/ join_recv
  BY <1>4, OtherStepExcludes DEF join_send, join_recv, Critical
<1>5. CASE bf_gdt_destroy
  <2>1. CASE UNCHANGED <<pc, mutex>>
    BY <2>1, OtherStepExcludes DEF Critical
  <2>2. CASE ProcessDies
    BY <2>2 DEF ProcessDies, Excludes, Critical
  <2> QED
    BY <1>5, <2>1, <2>2 DEF bf_gdt_destroy
<1> QED
  BY <1>1, <1>2, <1>3, <1>4, <1>5, Zenon DEF MainNext

LEMMA StepExcludes ==
    Inv /\ Excludes /\ [Next]_vars /\ [QuietCreate]_vars => Excludes'
<1> SUFFICES ASSUME Inv, Excludes, [Next]_vars, [QuietCreate]_vars PROVE Excludes'
  BY Zenon
<1>1. CASE UNCHANGED vars
  BY <1>1, OtherStepExcludes DEF vars, Critical
<1>2. CASE MainNext /\ QuietCreate
  BY <1>2, MainExcludes, Zenon
<1>3. ASSUME NEW b \in Bridge, SendNext(b) \/ RecvNext(b) \/ mc_recv_error(b) PROVE Excludes'
  BY <1>3, ThreadExcludes, Zenon DEF Inv
<1>4. CASE PeerSends
  BY <1>4, OtherStepExcludes DEF PeerSends, Critical
<1> QED
  BY <1>1, <1>2, <1>3, <1>4, Zenon DEF Next

\* A set without two different members has one at most.
LEMMA ExcludesCounts == Excludes => MutexExclusion
<1> SUFFICES ASSUME Excludes PROVE Cardinality(Critical) <= 1
  BY DEF MutexExclusion, Critical
<1>1. CASE Critical = {}
  BY <1>1, FS_EmptySet
<1>2. CASE Critical # {}
  <2>1. PICK t : Critical = {t}
    BY <1>2 DEF Excludes
  <2> QED
    <3>1. Cardinality({t}) = 1
      BY FS_Singleton, Zenon
    <3>2. Cardinality(Critical) = 1
      BY <2>1, <3>1, Zenon
    <3> QED
      BY <3>2
<1> QED
  BY <1>1, <1>2

\* The copy of the local filter and the update of the table exclude each other,
\* with any number of bridges, as long as no bridge is created, and the one mutex
\* of the process initialised again, while a thread holds it.
THEOREM MutexExcludes == Spec /\ [][QuietCreate]_vars => []MutexExclusion
<1>1. Init => Excludes
  BY DEF Init, Excludes, Critical
<1> QED
  BY <1>1, StepExcludes, InvInductive, ExcludesCounts, PTL DEF Spec

\* They always exclude each other in a process with one bridge, which is created
\* again only after its threads were joined.
THEOREM OneBridgeExcludes ==
    ASSUME NEW br, Bridge = {br}
    PROVE  Spec => []MutexExclusion
<1>1. Inv => [QuietCreate]_vars
  <2> SUFFICES ASSUME Inv, NEW b \in Bridge, bridge_create(b) PROVE Critical = {}
    BY DEF QuietCreate
  <2>1. b = br /\ mem[br] = {} /\ \A t \in Thread : t[2] = br
    BY DEF bridge_create, Thread
  <2>2. \A t \in Thread : ~Running(t)
    BY <2>1 DEF Inv, NoUseAfterFree
  <2> QED
    BY <2>2 DEF Critical, Running
<1> QED
  BY <1>1, InvInductive, MutexExcludes, PTL
-----------------------------------------------------------------------------
\* The end of a bridge.

\* A thread whose mc_send was joined and whose mc_recv is in recvfrom with an empty
\* inbox takes no step but the error of recvfrom.
LEMMA DesertedThreads ==
    ASSUME Inv, Deserted
    PROVE  ~MainNext /\ ~SendNext(main.br) /\ ~RecvNext(main.br)
<1>1. pc[<<"mc_send", main.br>>] = "returned" /\ pc[<<"mc_recv", main.br>>] = "recvfrom"
  BY DEF Inv, Deserted
<1>2. ~MainNext
  <2>1. main # Idle /\ main.pc \notin {"sleep", "join_send", "destroy"}
    BY DEF Deserted, Idle
  <2> QED
    BY <1>1, <2>1, Zenon
       DEF MainNext, bridge_create, bridge_add_ofprotos, bridge_destroy,
           bridge_start_recv, join_send, join_recv, bf_gdt_destroy
<1>3. ~SendNext(main.br)
  BY <1>1 DEF SendNext, mc_send_open, mc_send_loop, mc_send_lock, mc_send_unlock,
              mc_send_sendto, Goto, Lock
<1>4. ~RecvNext(main.br)
  BY <1>1 DEF Deserted, RecvNext, mc_recv_bind, mc_recv_join, mc_recv_loop, mc_recv_recvfrom,
              mc_recv_lock, mc_recv_unlock, mc_recv_push, Goto, Lock
<1> QED
  BY <1>2, <1>3, <1>4

\* A process with one bridge that waits for its mc_recv in bridge_end_mcast, with
\* nothing to receive, cannot end the wait: only another switch or an error of
\* recvfrom can.
THEOREM OneBridgeWaitsForOthers ==
    ASSUME NEW br, Bridge = {br}
    PROVE  Spec => OnlyOthersEndTheWait
<1> DEFINE Waits == Deserted => \/ Deserted'
                                \/ inbox'[main.br] = {"peer"}
                                \/ mc_recv_error(main.br)
<1>1. Inv /\ [Next]_vars => [Waits]_vars
  <2> SUFFICES ASSUME Inv, Next, Deserted PROVE Waits
    BY Zenon
  <2>1. main.br = br
    BY DEF Inv, TypeOK, Deserted
  <2>2. \A b \in Bridge : b = main.br
    BY <2>1
  <2>3. CASE PeerSends
    <3>1. UNCHANGED <<main, pc>> /\ (inbox' = inbox \/ inbox' = [inbox EXCEPT ![main.br] = @ \cup {"peer"}])
      BY <2>2, <2>3, Zenon DEF PeerSends, Deliver, Inv, TypeOK
    <3>2. CASE inbox' = inbox
      BY <3>1, <3>2 DEF Deserted
    <3>3. CASE inbox' = [inbox EXCEPT ![main.br] = @ \cup {"peer"}]
      BY <2>1, <3>3 DEF Deserted, Inv, TypeOK
    <3> QED
      BY <3>1, <3>2, <3>3
  <2>4. ASSUME NEW b \in Bridge, mc_recv_error(b) PROVE Waits
    BY <2>2, <2>4, Zenon
  <2> QED
    BY <2>2, <2>3, <2>4, DesertedThreads, Zenon DEF Next
<1> QED
  BY <1>1, InvInductive, PTL DEF Spec, OnlyOthersEndTheWait
=============================================================================
