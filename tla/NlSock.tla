------------------------------- MODULE NlSock -------------------------------
(***************************************************************************)
(* Netlink transactions (lib/netlink-socket.c): how ovs-vswitchd sends     *)
(* requests to the kernel over a socket and matches replies to them.       *)
(*                                                                         *)
(* nl_sock_transact_multiple sends its requests in batches.  The kernel    *)
(* executes a batch inside sendmsg and queues what it answers on the       *)
(* socket; an answer for which it has no memory is dropped and makes the   *)
(* next receive fail with ENOBUFS, upon which the rest is sent again.      *)
(*                                                                         *)
(* dpif-linux.c has one such socket, genl_sock.  Its users are the main    *)
(* thread and, through dpif_linux_bf_gdt_put, every mc_recv thread.        *)
(***************************************************************************)
EXTENDS Integers, Sequences, FiniteSets, Functions

CONSTANTS
    Thread,         \* the threads that use the socket
    Batches,        \* the sequences of requests that are transacted at once
    MaxBatch,       \* max_batch_count
    SeqLimit,       \* UINT32_MAX / 2; numbers come round later than queued answers stay
    MaxFaults       \* how often sendmsg fails or an answer is dropped

\* What the kernel does with a request: it succeeds without an answer, with a
\* reply or with an acknowledgement, or it fails.
Request == {"silent", "reply", "ack", "fail"}

ASSUME NlSockAssumption ==
    /\ Batches \subseteq Seq(Request) \ {<<>>}
    /\ MaxBatch \in Nat \ {0}
    /\ MaxFaults \in Nat
    /\ SeqLimit \in Nat /\ SeqLimit > (MaxFaults + 2) * MaxBatch

VARIABLES
    next_seq,   \* sock->next_seq
    queue,      \* the answers in the socket's receive queue
    overflow,   \* the kernel dropped an answer since the last ENOBUFS
    pc,         \* pc[t]: where thread t is
    txn,        \* txn[t]: the requests of the transactions
    res,        \* res[t]: their results so far
    exec,       \* history: exec[t], those the kernel has executed
    at,         \* at[t]: how many transactions are done
    n,          \* n[t]: how many of the current batch are not
    base_seq,   \* base_seq[t]: the sequence number of the first of those
    faults      \* history: how often sendmsg failed or dropped answers

vars == <<next_seq, queue, overflow, pc, txn, res, exec, at, n, base_seq, faults>>

Init ==
    /\ next_seq = 1
    /\ queue = <<>>
    /\ overflow = FALSE
    /\ pc = [t \in Thread |-> "returned"]
    /\ txn = [t \in Thread |-> <<>>]
    /\ res = [t \in Thread |-> <<>>]
    /\ exec = [t \in Thread |-> {}]
    /\ at = [t \in Thread |-> 0]
    /\ n = [t \in Thread |-> 0]
    /\ base_seq = [t \in Thread |-> 0]
    /\ faults = 0

\* A caller transacts requests; "unset" is the uninitialised error member.
nl_sock_transact_multiple(t, requests) ==
    /\ pc[t] = "returned"
    /\ pc' = [pc EXCEPT ![t] = "batch"]
    /\ txn' = [txn EXCEPT ![t] = requests]
    /\ res' = [res EXCEPT ![t] = [i \in DOMAIN requests |-> "unset"]]
    /\ exec' = [exec EXCEPT ![t] = {}]
    /\ at' = [at EXCEPT ![t] = 0]
    /\ UNCHANGED <<next_seq, queue, overflow, n, base_seq, faults>>

\* The next batch, as large as the limits on its count and its bytes allow,
\* and the first half of nl_sock_allocate_seq.
allocate_seq_load(t) ==
    /\ pc[t] = "batch"
    /\ \E count \in 1 .. MaxBatch :
        /\ count <= Len(txn[t]) - at[t]
        /\ n' = [n EXCEPT ![t] = count]
    /\ base_seq' = [base_seq EXCEPT ![t] = next_seq]
    /\ pc' = [pc EXCEPT ![t] = "allocate"]
    /\ UNCHANGED <<next_seq, queue, overflow, txn, res, exec, at, faults>>

NextSeq_Mutant(seq, count) == seq + count
NextSeq(seq, count) == IF seq + count >= SeqLimit THEN 1 ELSE seq + count

\* The sequence number is not advanced.
allocate_seq_store_Mutant(t) ==
    /\ pc[t] = "allocate"
    /\ pc' = [pc EXCEPT ![t] = "send"]
    /\ UNCHANGED <<next_seq, queue, overflow, txn, res, exec, at, n, base_seq, faults>>

\* The second half of nl_sock_allocate_seq.
allocate_seq_store(t) ==
    /\ pc[t] = "allocate"
    /\ next_seq' = NextSeq(base_seq[t], n[t])
    /\ pc' = [pc EXCEPT ![t] = "send"]
    /\ UNCHANGED <<queue, overflow, txn, res, exec, at, n, base_seq, faults>>

\* Results of t from one transaction to another.
Record(t, first, last, result) ==
    [i \in DOMAIN res[t] |-> IF i \in first .. last THEN result ELSE res[t][i]]

\* The error is recorded for transactions that are done, too.
send_fails_Mutant(t) ==
    /\ pc[t] = "send"
    /\ faults < MaxFaults
    /\ faults' = faults + 1
    /\ res' = [res EXCEPT ![t] = Record(t, 1, Len(txn[t]), "error")]
    /\ pc' = [pc EXCEPT ![t] = "batch"]
    /\ UNCHANGED <<next_seq, queue, overflow, txn, exec, at, n, base_seq>>

\* sendmsg fails.  ENOBUFS is retried; any other error is recorded for all that
\* is left, which is then tried again too.
send_fails(t) ==
    /\ pc[t] = "send"
    /\ faults < MaxFaults
    /\ faults' = faults + 1
    /\ \/ UNCHANGED res
       \/ res' = [res EXCEPT ![t] = Record(t, at[t] + 1, Len(txn[t]), "error")]
    /\ pc' = [pc EXCEPT ![t] = "batch"]
    /\ UNCHANGED <<next_seq, queue, overflow, txn, exec, at, n, base_seq>>

\* The requests of t's batch that the kernel answers, and its answer to one.
Answered(t) == {i \in 1 .. n[t] : txn[t][at[t] + i] # "silent"}
Answer(t, i) == [seq |-> base_seq[t] + i - 1, what |-> txn[t][at[t] + i]]

\* The one way to put the numbers in I in order.
InOrder(I) ==
    {order \in [1 .. Cardinality(I) -> I] :
        /\ Range(order) = I
        /\ \A j, k \in DOMAIN order : j < k => order[j] < order[k]}

\* sendmsg succeeds, and the kernel executes the batch and queues its answers
\* in order, but for the lost ones.
send(t) ==
    /\ pc[t] = "send"
    /\ \E lost \in SUBSET Answered(t) : \E order \in InOrder(Answered(t) \ lost) :
        /\ queue' = queue \o [j \in DOMAIN order |-> Answer(t, order[j])]
        /\ overflow' = (overflow \/ lost # {})
        /\ IF lost = {} THEN UNCHANGED faults
           ELSE faults < MaxFaults /\ faults' = faults + 1
    /\ exec' = [exec EXCEPT ![t] = @ \cup (at[t] + 1 .. at[t] + n[t])]
    /\ pc' = [pc EXCEPT ![t] = "recv"]
    /\ UNCHANGED <<next_seq, txn, res, at, n, base_seq>>

\* k transactions of the batch are done.
Advance(t, k) ==
    /\ at' = [at EXCEPT ![t] = @ + k]
    /\ n' = [n EXCEPT ![t] = @ - k]
    /\ base_seq' = [base_seq EXCEPT ![t] = @ + k]

\* Where t goes on when transactions are done.
After(t, done, batchOver) ==
    IF done = Len(txn[t]) THEN "returned" ELSE IF batchOver THEN "batch" ELSE "recv"

\* ENOBUFS: what is left is sent again.
recv_ENOBUFS(t) ==
    /\ pc[t] = "recv"
    /\ overflow
    /\ overflow' = FALSE
    /\ pc' = [pc EXCEPT ![t] = "batch"]
    /\ UNCHANGED <<next_seq, queue, txn, res, exec, at, n, base_seq, faults>>

\* The transactions are not counted as done.
recv_EAGAIN_Mutant(t) ==
    /\ pc[t] = "recv"
    /\ ~overflow
    /\ queue = <<>>
    /\ res' = [res EXCEPT ![t] = Record(t, at[t] + 1, at[t] + n[t], "ok")]
    /\ pc' = [pc EXCEPT ![t] = "batch"]
    /\ UNCHANGED <<next_seq, queue, overflow, txn, exec, at, n, base_seq, faults>>

\* EAGAIN: no answer is left, so that the rest of the batch had none.
recv_EAGAIN(t) ==
    /\ pc[t] = "recv"
    /\ ~overflow
    /\ queue = <<>>
    /\ res' = [res EXCEPT ![t] = Record(t, at[t] + 1, at[t] + n[t], "ok")]
    /\ Advance(t, n[t])
    /\ pc' = [pc EXCEPT ![t] = After(t, at[t] + n[t], TRUE)]
    /\ UNCHANGED <<next_seq, queue, overflow, txn, exec, faults>>

\* The answer belongs to one of the transactions of t that are left.
Matches(t, answer) ==
    base_seq[t] <= answer.seq /\ answer.seq < base_seq[t] + n[t]

recv_unexpected(t) ==
    /\ pc[t] = "recv"
    /\ ~overflow
    /\ queue # <<>> /\ ~Matches(t, Head(queue))
    /\ queue' = Tail(queue)
    /\ UNCHANGED <<next_seq, overflow, pc, txn, res, exec, at, n, base_seq, faults>>

\* What a request's transaction reports when all goes well.
Result(request) ==
    CASE request \in {"silent", "ack"} -> "ok"
      [] request = "reply" -> "reply"
      [] request = "fail" -> "error"

\* An answer: the transactions of the batch before its own had none.
recv_answer(t) ==
    /\ pc[t] = "recv"
    /\ ~overflow
    /\ queue # <<>> /\ Matches(t, Head(queue))
    /\ queue' = Tail(queue)
    /\ LET k == Head(queue).seq - base_seq[t] + 1
       IN  /\ res' = [res EXCEPT ![t] =
                [Record(t, at[t] + 1, at[t] + k, "ok")
                    EXCEPT ![at[t] + k] = Result(Head(queue).what)]]
           /\ Advance(t, k)
           /\ pc' = [pc EXCEPT ![t] = After(t, at[t] + k, k = n[t])]
    /\ UNCHANGED <<next_seq, overflow, txn, exec, faults>>
-----------------------------------------------------------------------------
\* A call is under way and takes a step.
Step(t) ==
    \/ allocate_seq_load(t)
    \/ allocate_seq_store(t)
    \/ send_fails(t)
    \/ send(t)
    \/ recv_ENOBUFS(t)
    \/ recv_EAGAIN(t)
    \/ recv_unexpected(t)
    \/ recv_answer(t)

Next ==
    \E t \in Thread :
        \/ \E requests \in Batches : nl_sock_transact_multiple(t, requests)
        \/ Step(t)

Spec == Init /\ [][Next]_vars

\* A thread runs on.
FairSpec == Spec /\ \A t \in Thread : WF_vars(Step(t))
-----------------------------------------------------------------------------
\* Properties.

TypeOK ==
    /\ next_seq \in 1 .. SeqLimit - 1
    /\ queue \in Seq([seq : 1 .. SeqLimit + MaxBatch - 1, what : Request])
    /\ overflow \in BOOLEAN
    /\ pc \in [Thread -> {"returned", "batch", "allocate", "send", "recv"}]
    /\ \A t \in Thread :
        /\ txn[t] \in Batches \cup {<<>>}
        /\ res[t] \in Seq({"unset", "ok", "reply", "error"})
        /\ Len(res[t]) = Len(txn[t])
        /\ exec[t] \subseteq DOMAIN txn[t]
        /\ at[t] \in 0 .. Len(txn[t])
        /\ n[t] \in 0 .. MaxBatch /\ at[t] + n[t] <= Len(txn[t])
        /\ base_seq[t] \in 0 .. SeqLimit + MaxBatch - 1
    /\ faults \in 0 .. MaxFaults

\* "Fills in the 'error' member of each transaction with 0 if it was successful,
\* otherwise with a positive errno value": a call returns, for every request,
\* what the kernel did with it, and the kernel has executed it, however often
\* answers were dropped, batches cut and requests sent again.
TransactRight ==
    \A t \in Thread : pc[t] = "returned" =>
        \A i \in DOMAIN txn[t] : res[t][i] = Result(txn[t][i]) /\ i \in exec[t]

\* A result that is known stays: what is done is not sent again.
DoneStaysDone ==
    [][\A t \in Thread : pc[t] # "returned" =>
            \A i \in 1 .. at[t] : res'[t][i] = res[t][i]]_vars

\* "If successful, returns 0.  On failure, returns a positive errno value": a
\* call returns.
TransactReturns ==
    \A t \in Thread : pc[t] # "returned" ~> pc[t] = "returned"
=============================================================================
