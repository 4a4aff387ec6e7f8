---------------------------- MODULE NlSockProofs ----------------------------
(***************************************************************************)
(* Netlink transactions, for any batches, batch limit, sequence number     *)
(* limit and number of faults: the types and what is done stays done for   *)
(* any threads, and for a socket that one thread uses, that a call reports *)
(* what the kernel did with every request.                                 *)
(*                                                                         *)
(* The last rests on the distance in sequence numbers of what is left in   *)
(* the queue (Old): an answer that is not read before ENOBUFS stays there, *)
(* and must not be taken for one of a later batch.                         *)
(***************************************************************************)
EXTENDS NlSock, TLAPS, FiniteSetTheorems, SequenceTheorems

USE Zenon

\* What holds of every thread by itself: besides its types, what has returned
\* is done, and the numbers of a batch start from an allocated one.
ThreadOK(t) ==
    /\ Len(res[t]) = Len(txn[t])
    /\ exec[t] \subseteq DOMAIN txn[t]
    /\ at[t] + n[t] <= Len(txn[t])
    /\ n[t] <= MaxBatch
    /\ base_seq[t] + n[t] <= SeqLimit + MaxBatch - 1
    /\ pc[t] = "returned" => at[t] = Len(txn[t])
    /\ pc[t] \in {"allocate", "send", "recv"} => base_seq[t] >= 1

Where == {"returned", "batch", "allocate", "send", "recv"}
Outcome == {"unset", "ok", "reply", "error"}
AnswerSet == [seq : 1 .. SeqLimit + MaxBatch - 1, what : Request]

Typed ==
    /\ pc \in [Thread -> Where]
    /\ txn \in [Thread -> Seq(Request)]
    /\ res \in [Thread -> Seq(Outcome)]
    /\ exec \in [Thread -> SUBSET Nat]
    /\ at \in [Thread -> Nat]
    /\ n \in [Thread -> Nat]
    /\ base_seq \in [Thread -> Nat]
    /\ \A t \in Thread : txn[t] \in Batches \cup {<<>>}

Shared ==
    /\ next_seq \in 1 .. SeqLimit - 1
    /\ queue \in Seq(AnswerSet)
    /\ overflow \in BOOLEAN
    /\ faults \in 0 .. MaxFaults

TInv == Shared /\ Typed /\ \A t \in Thread : ThreadOK(t)

\* A step of t leaves the other threads alone.
Rest(t) ==
    \A u \in Thread \ {t} :
        /\ pc'[u] = pc[u] /\ txn'[u] = txn[u] /\ res'[u] = res[u] /\ exec'[u] = exec[u]
        /\ at'[u] = at[u] /\ n'[u] = n[u] /\ base_seq'[u] = base_seq[u]

\* Number s was given out before number x is, at most d numbers earlier; the
\* numbers start again at 1 when SeqLimit is reached.
Before(s, x, d) ==
    \/ s < x /\ x - s <= d
    \/ x <= s /\ (x - 1) + (SeqLimit - s) <= d

\* All that is queued is that old.
Old(x, d) == \A j \in 1 .. Len(queue) : Before(queue[j].seq, x, d)

\* How far back what is left of the batches that met a fault reaches.
Span == faults * MaxBatch

\* The number s is one of m numbers from b on.
Within(s, b, m) == b <= s /\ s < b + m

\* What queue q holds for a batch of m requests, which are those of x after the
\* first a and have the numbers from b on: every one that has an answer finds it
\* there, in order and after all that is older.
Waiting(q, x, a, b, m) ==
    /\ \A j \in 1 .. Len(q) : Within(q[j].seq, b, m) => q[j].what = x[a + (q[j].seq - b) + 1]
    /\ \A i \in 1 .. m : x[a + i] # "silent" => \E j \in 1 .. Len(q) : q[j].seq = b + i - 1
    /\ \A j, k \in 1 .. Len(q) : j < k /\ Within(q[j].seq, b, m) =>
            Within(q[k].seq, b, m) /\ q[j].seq < q[k].seq

\* What is done is right.
Done(t) ==
    \A i \in 1 .. at[t] : res[t][i] = Result(txn[t][i]) /\ i \in exec[t]

\* The queue where t is.
Queued(t) ==
    /\ pc[t] = "returned" => queue = <<>>
    /\ pc[t] # "recv" => ~overflow
    /\ pc[t] \in {"batch", "allocate"} => Old(next_seq, Span)
    /\ pc[t] = "allocate" => base_seq[t] = next_seq
    /\ pc[t] \in {"allocate", "send"} => base_seq[t] <= SeqLimit - 1 /\ n[t] >= 1
    /\ pc[t] = "send" => Old(base_seq[t], Span) /\ next_seq = NextSeq(base_seq[t], n[t])
    /\ pc[t] = "recv" /\ overflow => Old(next_seq, Span)
    /\ pc[t] = "recv" /\ ~overflow => Waiting(queue, txn[t], at[t], base_seq[t], n[t])
    /\ pc[t] = "recv" => at[t] + 1 .. at[t] + n[t] \subseteq exec[t]

\* The invariant of a socket with one user.
Alone(t) == Done(t) /\ Queued(t)
-----------------------------------------------------------------------------
\* The constants.

\* The assumption on the constants, with the product written out.
LEMMA Constants ==
    /\ MaxBatch \in Nat /\ MaxBatch >= 1
    /\ MaxFaults \in Nat
    /\ SeqLimit \in Nat /\ SeqLimit > 2 * MaxBatch
<1>1. MaxBatch \in Nat /\ MaxBatch >= 1 /\ MaxFaults \in Nat /\ SeqLimit \in Nat
      /\ SeqLimit > (MaxFaults + 2) * MaxBatch
  BY ONLY NlSockAssumption, SMT
<1>2. ASSUME NEW m \in Nat, NEW b \in Nat PROVE (m + 2) * b >= 2 * b
  BY ONLY TRUE, SMT
<1> QED
  BY ONLY <1>1, <1>2, SMT

\* What f faults leave behind spans less than the numbers there are.
LEMMA Spans ==
    ASSUME NEW f \in 0 .. MaxFaults
    PROVE  /\ f * MaxBatch \in Nat
           /\ f * MaxBatch + 2 * MaxBatch < SeqLimit
           /\ (f + 1) * MaxBatch = f * MaxBatch + MaxBatch
<1>1. MaxBatch \in Nat /\ MaxBatch >= 1 /\ MaxFaults \in Nat /\ SeqLimit \in Nat
      /\ SeqLimit > (MaxFaults + 2) * MaxBatch
  BY ONLY NlSockAssumption, SMT
<1>2. ASSUME NEW m \in Nat, NEW b \in Nat, NEW k \in 0 .. m
      PROVE  /\ k * b \in Nat
             /\ (k + 1) * b = k * b + b
             /\ k * b + 2 * b <= (m + 2) * b
  <2>1. k * b \in Nat /\ (k + 1) * b = k * b + b
    BY ONLY TRUE, SMT
  <2>2. PICK c \in Nat : m = k + c
    BY ONLY TRUE, SMT
  <2>3. (k + c + 2) * b = k * b + c * b + 2 * b /\ c * b \in Nat
    BY ONLY TRUE, SMT
  <2> QED
    BY ONLY <2>1, <2>2, <2>3, SMT
<1> QED
  BY ONLY <1>1, <1>2, SMT
-----------------------------------------------------------------------------
\* Types, for any threads.

\* A function with one value changed.
LEMMA ExceptIn ==
    ASSUME NEW S, NEW f \in [Thread -> S], NEW t \in Thread, NEW v \in S
    PROVE  /\ [f EXCEPT ![t] = v] \in [Thread -> S]
           /\ [f EXCEPT ![t] = v][t] = v
           /\ \A u \in Thread \ {t} : [f EXCEPT ![t] = v][u] = f[u]
  OBVIOUS

LEMMA TypesOK ==
    ASSUME TInv PROVE TypeOK
<1>1. ASSUME NEW t \in Thread
      PROVE  /\ txn[t] \in Batches \cup {<<>>} /\ res[t] \in Seq({"unset", "ok", "reply", "error"})
             /\ Len(res[t]) = Len(txn[t]) /\ exec[t] \subseteq DOMAIN txn[t]
             /\ at[t] \in 0 .. Len(txn[t])
             /\ n[t] \in 0 .. MaxBatch /\ at[t] + n[t] <= Len(txn[t])
             /\ base_seq[t] \in 0 .. SeqLimit + MaxBatch - 1
  <2>1. ThreadOK(t) /\ txn[t] \in Batches \cup {<<>>} /\ txn[t] \in Seq(Request)
        /\ res[t] \in Seq(Outcome)
        /\ at[t] \in Nat /\ n[t] \in Nat /\ base_seq[t] \in Nat
    BY DEF TInv, Typed
  <2>2. Len(txn[t]) \in Nat
    BY ONLY <2>1, LenProperties, Zenon
  <2> QED
    BY ONLY <2>1, <2>2, Constants, SMT DEF ThreadOK, Outcome
<1>2. /\ next_seq \in 1 .. SeqLimit - 1
      /\ queue \in Seq([seq : 1 .. SeqLimit + MaxBatch - 1, what : Request])
      /\ overflow \in BOOLEAN
      /\ pc \in [Thread -> {"returned", "batch", "allocate", "send", "recv"}]
      /\ faults \in 0 .. MaxFaults
  BY DEF TInv, Shared, Typed, AnswerSet, Where
<1> QED
  BY <1>1, <1>2 DEF TypeOK

LEMMA OthersOK ==
    ASSUME TInv, NEW t \in Thread, Rest(t), Shared', Typed', ThreadOK(t)'
    PROVE  TInv'
<1>1. ASSUME NEW u \in Thread \ {t} PROVE ThreadOK(u)'
  <2>1. ThreadOK(u)
    BY DEF TInv
  <2>2. /\ pc'[u] = pc[u] /\ txn'[u] = txn[u] /\ res'[u] = res[u] /\ exec'[u] = exec[u]
        /\ at'[u] = at[u] /\ n'[u] = n[u] /\ base_seq'[u] = base_seq[u]
    BY DEF Rest
  <2> QED
    BY ONLY <2>1, <2>2, Zenon DEF ThreadOK
<1> QED
  BY <1>1 DEF TInv

LEMMA TInvInit ==
    ASSUME Init PROVE TInv
<1>1. Shared
  <2>1. next_seq \in 1 .. SeqLimit - 1 /\ faults \in 0 .. MaxFaults
    BY Constants, SMT DEF Init
  <2>2. queue \in Seq(AnswerSet)
    BY SMT DEF Init
  <2> QED
    BY <2>1, <2>2 DEF Shared, Init
<1>2. <<>> \in Seq(Request) /\ <<>> \in Seq(Outcome) /\ 0 \in Nat /\ Len(<<>>) = 0
  BY SMT
<1>3. Typed
  BY <1>2 DEF Init, Typed, Where
<1>4. ASSUME NEW t \in Thread PROVE ThreadOK(t)
  <2>1. /\ pc[t] = "returned" /\ txn[t] = <<>> /\ res[t] = <<>> /\ exec[t] = {}
        /\ at[t] = 0 /\ n[t] = 0 /\ base_seq[t] = 0
    BY DEF Init
  <2> QED
    BY ONLY <2>1, <1>2, Constants, SMT DEF ThreadOK
<1> QED
  BY <1>1, <1>3, <1>4 DEF TInv

\* What is known of a thread.
LEMMA ThreadTypes ==
    ASSUME TInv, NEW t \in Thread
    PROVE  /\ ThreadOK(t)
           /\ pc[t] \in Where
           /\ txn[t] \in Seq(Request) /\ Len(txn[t]) \in Nat /\ DOMAIN txn[t] = 1 .. Len(txn[t])
           /\ txn[t] \in Batches \cup {<<>>}
           /\ res[t] \in Seq(Outcome) /\ DOMAIN res[t] = 1 .. Len(txn[t])
           /\ exec[t] \in SUBSET Nat
           /\ at[t] \in Nat /\ n[t] \in Nat /\ base_seq[t] \in Nat
<1>1. /\ ThreadOK(t)
      /\ pc[t] \in Where
      /\ txn[t] \in Seq(Request) /\ txn[t] \in Batches \cup {<<>>}
      /\ res[t] \in Seq(Outcome)
      /\ exec[t] \in SUBSET Nat
      /\ at[t] \in Nat /\ n[t] \in Nat /\ base_seq[t] \in Nat
  BY DEF TInv, Typed
<1>2. Len(txn[t]) \in Nat /\ DOMAIN txn[t] = 1 .. Len(txn[t])
  BY ONLY <1>1, LenProperties, Zenon
<1>3. DOMAIN res[t] = 1 .. Len(res[t]) /\ Len(res[t]) = Len(txn[t])
  BY ONLY <1>1, LenProperties, Zenon DEF ThreadOK
<1> QED
  BY ONLY <1>1, <1>2, <1>3, Zenon

\* What Record makes of the results of t.
Recorded(t, first, last, result) ==
    /\ Record(t, first, last, result) \in Seq(Outcome)
    /\ DOMAIN Record(t, first, last, result) = 1 .. Len(txn[t])
    /\ Len(Record(t, first, last, result)) = Len(txn[t])
    /\ \A i \in 1 .. Len(txn[t]) :
         Record(t, first, last, result)[i] =
             IF i \in first .. last THEN result ELSE res[t][i]

\* The results, with some of them recorded.
LEMMA RecordIs ==
    ASSUME TInv, NEW t \in Thread, NEW first \in Nat, NEW last \in Nat, NEW result \in Outcome
    PROVE  Recorded(t, first, last, result)
<1>1. /\ res[t] \in Seq(Outcome) /\ DOMAIN res[t] = 1 .. Len(txn[t])
      /\ Len(txn[t]) \in Nat
  BY ThreadTypes
<1>2. \A i \in 1 .. Len(txn[t]) : res[t][i] \in Outcome
  BY ONLY <1>1, ElementOfSeq, LenProperties, Zenon
<1>3. Record(t, first, last, result) =
        [i \in 1 .. Len(txn[t]) |-> IF i \in first .. last THEN result ELSE res[t][i]]
  BY ONLY <1>1, Zenon DEF Record
<1> DEFINE r == Record(t, first, last, result)
<1>4. r \in [1 .. Len(txn[t]) -> Outcome]
  BY <1>2, <1>3
<1>5. r \in Seq(Outcome) /\ Len(r) = Len(txn[t])
  <2> HIDE DEF r
  <2> QED
    BY ONLY <1>1, <1>4, SMT
<1> QED
  BY <1>3, <1>4, <1>5 DEF Recorded

LEMMA StartTInv ==
    ASSUME TInv, NEW t \in Thread, NEW requests \in Batches,
           nl_sock_transact_multiple(t, requests)
    PROVE  TInv'
<1> DEFINE r == [i \in DOMAIN requests |-> "unset"]
<1>1. requests \in Seq(Request) /\ Len(requests) \in Nat /\ DOMAIN requests = 1 .. Len(requests)
  BY NlSockAssumption, LenProperties
<1>2. r \in Seq(Outcome) /\ Len(r) = Len(requests)
  <2>1. r \in [1 .. Len(requests) -> Outcome]
    BY <1>1 DEF Outcome
  <2> QED
    BY ONLY <1>1, <2>1, SMT
<1>3. Typed
  BY DEF TInv
<1>4. /\ pc' \in [Thread -> Where] /\ pc'[t] = "batch"
      /\ \A u \in Thread \ {t} : pc'[u] = pc[u]
  BY <1>3, ExceptIn, ZenonT(60) DEF nl_sock_transact_multiple, Typed, Where
<1>5. /\ txn' \in [Thread -> Seq(Request)] /\ txn'[t] = requests
      /\ \A u \in Thread \ {t} : txn'[u] = txn[u]
  BY <1>1, <1>3, ExceptIn, ZenonT(60) DEF nl_sock_transact_multiple, Typed
<1>6. /\ res' \in [Thread -> Seq(Outcome)] /\ res'[t] = r
      /\ \A u \in Thread \ {t} : res'[u] = res[u]
  BY <1>2, <1>3, ExceptIn, ZenonT(60) DEF nl_sock_transact_multiple, Typed
<1>7. /\ exec' \in [Thread -> SUBSET Nat] /\ exec'[t] = {}
      /\ \A u \in Thread \ {t} : exec'[u] = exec[u]
  BY <1>3, ExceptIn, ZenonT(60) DEF nl_sock_transact_multiple, Typed
<1>8. /\ at' \in [Thread -> Nat] /\ at'[t] = 0
      /\ \A u \in Thread \ {t} : at'[u] = at[u]
  <2>1. 0 \in Nat
    BY ONLY TRUE, SMT
  <2> QED
    BY <1>3, <2>1, ExceptIn, ZenonT(60) DEF nl_sock_transact_multiple, Typed
<1>9. n' = n /\ base_seq' = base_seq /\ next_seq' = next_seq /\ queue' = queue
      /\ overflow' = overflow /\ faults' = faults
  BY DEF nl_sock_transact_multiple
<1>10. Rest(t)
  BY ONLY <1>4, <1>5, <1>6, <1>7, <1>8, <1>9, Zenon DEF Rest
<1>11. Typed'
  BY ONLY <1>3, <1>4, <1>5, <1>6, <1>7, <1>8, <1>9, Zenon DEF Typed
<1>12. Shared'
  BY <1>9 DEF TInv, Shared
<1>13. ThreadOK(t)'
  <2>1. pc[t] = "returned"
    BY DEF nl_sock_transact_multiple
  <2>2. ThreadOK(t) /\ Len(txn[t]) \in Nat /\ at[t] \in Nat /\ n[t] \in Nat /\ base_seq[t] \in Nat
    BY ThreadTypes
  <2>3. n[t] = 0 /\ base_seq[t] <= SeqLimit + MaxBatch - 1
    <3>1. PICK a, m, l, b : a = at[t] /\ m = n[t] /\ l = Len(txn[t]) /\ b = base_seq[t]
      OBVIOUS
    <3>2. /\ a \in Nat /\ m \in Nat /\ l \in Nat /\ b \in Nat
          /\ a + m <= l /\ a = l /\ b + m <= SeqLimit + MaxBatch - 1
      BY ONLY <2>1, <2>2, <3>1, Zenon DEF ThreadOK
    <3>3. m = 0 /\ b <= SeqLimit + MaxBatch - 1
      BY ONLY <3>2, Constants, SMT
    <3> QED
      BY ONLY <3>1, <3>3, Zenon
  <2>4. pc'[t] = "batch" /\ res'[t] = r /\ txn'[t] = requests /\ exec'[t] = {} /\ at'[t] = 0
        /\ n'[t] = 0 /\ base_seq'[t] = base_seq[t]
    BY <1>4, <1>5, <1>6, <1>7, <1>8, <1>9, <2>3
  <2> HIDE DEF r
  <2> QED
    BY ONLY <1>1, <1>2, <2>2, <2>3, <2>4, Constants, SMT DEF ThreadOK
<1> QED
  BY <1>10, <1>11, <1>12, <1>13, OthersOK

LEMMA LoadTInv ==
    ASSUME TInv, NEW t \in Thread, allocate_seq_load(t)
    PROVE  TInv'
<1>1. PICK count \in 1 .. MaxBatch :
        count <= Len(txn[t]) - at[t] /\ n' = [n EXCEPT ![t] = count]
  BY DEF allocate_seq_load
<1>2. Typed /\ Shared
  BY DEF TInv
<1>3. next_seq \in Nat /\ count \in Nat
  BY ONLY <1>1, <1>2, Constants, SMT DEF Shared
<1>4. /\ pc' \in [Thread -> Where] /\ pc'[t] = "allocate"
      /\ \A u \in Thread \ {t} : pc'[u] = pc[u]
  BY <1>2, ExceptIn, ZenonT(60) DEF allocate_seq_load, Typed, Where
<1>5. /\ n' \in [Thread -> Nat] /\ n'[t] = count
      /\ \A u \in Thread \ {t} : n'[u] = n[u]
  BY <1>1, <1>2, <1>3, ExceptIn, ZenonT(60) DEF Typed
<1>6. /\ base_seq' \in [Thread -> Nat] /\ base_seq'[t] = next_seq
      /\ \A u \in Thread \ {t} : base_seq'[u] = base_seq[u]
  <2>1. base_seq \in [Thread -> Nat] /\ base_seq' = [base_seq EXCEPT ![t] = next_seq]
    BY <1>2 DEF allocate_seq_load, Typed
  <2> QED
    BY ONLY <1>3, <2>1, t \in Thread, ExceptIn, Zenon
<1>7. txn' = txn /\ res' = res /\ exec' = exec /\ at' = at /\ next_seq' = next_seq
      /\ queue' = queue /\ overflow' = overflow /\ faults' = faults
  BY DEF allocate_seq_load
<1>8. Rest(t)
  BY ONLY <1>4, <1>5, <1>6, <1>7, Zenon DEF Rest
<1>9. Typed'
  BY ONLY <1>2, <1>4, <1>5, <1>6, <1>7, Zenon DEF Typed
<1>10. Shared'
  BY ONLY <1>2, <1>7, Zenon DEF Shared
<1>11. ThreadOK(t)'
  <2>1. ThreadOK(t) /\ Len(txn[t]) \in Nat /\ at[t] \in Nat
    BY ThreadTypes
  <2>2. next_seq \in 1 .. SeqLimit - 1
    BY <1>2 DEF Shared
  <2> QED
    <3>1. PICK l, a, x : l = Len(txn[t]) /\ a = at[t] /\ x = next_seq
      OBVIOUS
    <3>2. /\ l \in Nat /\ a \in Nat /\ x \in 1 .. SeqLimit - 1
          /\ count \in 1 .. MaxBatch /\ count <= l - a
      BY ONLY <1>1, <2>1, <2>2, <3>1, Zenon
    <3>3. /\ a + count <= l /\ count <= MaxBatch
          /\ x + count <= SeqLimit + MaxBatch - 1 /\ x >= 1
      BY ONLY <3>2, Constants, SMT
    <3> QED
      BY ONLY <1>4, <1>5, <1>6, <1>7, <2>1, <3>1, <3>3, Zenon DEF ThreadOK
<1> QED
  BY <1>8, <1>9, <1>10, <1>11, OthersOK

\* Allocation goes on below the limit.
LEMMA NextSeqIs ==
    ASSUME NEW x \in 1 .. SeqLimit + MaxBatch - 1, NEW c \in Nat
    PROVE  NextSeq(x, c) \in 1 .. SeqLimit - 1
  BY Constants, SMT DEF NextSeq

LEMMA StoreTInv ==
    ASSUME TInv, NEW t \in Thread, allocate_seq_store(t)
    PROVE  TInv'
<1>1. Typed /\ Shared
  BY DEF TInv
<1>2. /\ pc' \in [Thread -> Where] /\ pc'[t] = "send"
      /\ \A u \in Thread \ {t} : pc'[u] = pc[u]
  BY <1>1, ExceptIn, ZenonT(60) DEF allocate_seq_store, Typed, Where
<1>3. txn' = txn /\ res' = res /\ exec' = exec /\ at' = at /\ n' = n /\ base_seq' = base_seq
      /\ queue' = queue /\ overflow' = overflow /\ faults' = faults
  BY DEF allocate_seq_store
<1>4. /\ ThreadOK(t) /\ n[t] \in Nat /\ base_seq[t] \in Nat
      /\ pc[t] = "allocate"
  BY ThreadTypes DEF allocate_seq_store
<1>5. base_seq[t] >= 1 /\ base_seq[t] + n[t] <= SeqLimit + MaxBatch - 1
  BY ONLY <1>4, Zenon DEF ThreadOK
<1>6. next_seq' \in 1 .. SeqLimit - 1
  <2>1. base_seq[t] \in 1 .. SeqLimit + MaxBatch - 1
    BY ONLY <1>4, <1>5, Constants, SMT
  <2> QED
    BY <1>4, <2>1, NextSeqIs DEF allocate_seq_store
<1>7. Rest(t)
  BY ONLY <1>2, <1>3, Zenon DEF Rest
<1>8. Typed'
  BY ONLY <1>1, <1>2, <1>3, Zenon DEF Typed
<1>9. Shared'
  BY ONLY <1>1, <1>3, <1>6, Zenon DEF Shared
<1>10. ThreadOK(t)'
  BY ONLY <1>2, <1>3, <1>4, <1>5, SMT DEF ThreadOK
<1> QED
  BY <1>7, <1>8, <1>9, <1>10, OthersOK

LEMMA SendFailsTInv ==
    ASSUME TInv, NEW t \in Thread, send_fails(t)
    PROVE  TInv'
<1>1. Typed /\ Shared
  BY DEF TInv
<1>2. /\ pc' \in [Thread -> Where] /\ pc'[t] = "batch"
      /\ \A u \in Thread \ {t} : pc'[u] = pc[u]
  BY <1>1, ExceptIn, ZenonT(60) DEF send_fails, Typed, Where
<1>3. txn' = txn /\ exec' = exec /\ at' = at /\ n' = n /\ base_seq' = base_seq
      /\ next_seq' = next_seq /\ queue' = queue /\ overflow' = overflow
  BY DEF send_fails
<1>4. /\ ThreadOK(t) /\ res[t] \in Seq(Outcome) /\ Len(txn[t]) \in Nat /\ at[t] \in Nat
  BY ThreadTypes
<1>5. /\ res' \in [Thread -> Seq(Outcome)] /\ Len(res'[t]) = Len(txn[t])
      /\ \A u \in Thread \ {t} : res'[u] = res[u]
  <2>1. CASE UNCHANGED res
    BY <1>1, <1>4, <2>1 DEF Typed, ThreadOK
  <2>2. CASE res' = [res EXCEPT ![t] = Record(t, at[t] + 1, Len(txn[t]), "error")]
    <3>1. at[t] + 1 \in Nat
      BY ONLY <1>4, SMT
    <3>2. /\ Record(t, at[t] + 1, Len(txn[t]), "error") \in Seq(Outcome)
          /\ Len(Record(t, at[t] + 1, Len(txn[t]), "error")) = Len(txn[t])
      <4>1. "error" \in Outcome
        BY DEF Outcome
      <4> QED
        <5>1. PICK a \in Nat, b \in Nat : a = at[t] + 1 /\ b = Len(txn[t])
          BY ONLY <1>4, <3>1, Zenon
        <5>2. /\ Record(t, a, b, "error") \in Seq(Outcome)
              /\ Len(Record(t, a, b, "error")) = Len(txn[t])
          <6>1. Recorded(t, a, b, "error")
            BY ONLY TInv, t \in Thread, a \in Nat, b \in Nat, <4>1, RecordIs, Zenon
          <6> QED
            BY ONLY <6>1, Zenon DEF Recorded
        <5> QED
          BY ONLY <5>1, <5>2, Zenon
    <3> QED
      BY <1>1, <2>2, <3>2, ExceptIn, ZenonT(60) DEF Typed
  <2> QED
    BY <2>1, <2>2 DEF send_fails
<1>6. faults' \in 0 .. MaxFaults
  <2>1. faults \in 0 .. MaxFaults /\ faults < MaxFaults /\ faults' = faults + 1
    BY <1>1 DEF Shared, send_fails
  <2> QED
    BY ONLY <2>1, Constants, SMT
<1>7. Rest(t)
  BY ONLY <1>2, <1>3, <1>5, Zenon DEF Rest
<1>8. Typed'
  BY ONLY <1>1, <1>2, <1>3, <1>5, Zenon DEF Typed
<1>9. Shared'
  BY ONLY <1>1, <1>3, <1>6, Zenon DEF Shared
<1>10. ThreadOK(t)'
  BY ONLY <1>2, <1>3, <1>4, <1>5, SMT DEF ThreadOK
<1> QED
  BY <1>7, <1>8, <1>9, <1>10, OthersOK

\* sendmsg queues c answers, those to the requests f[1], f[2], ... of the batch.
Sent(t, lost, c, f) ==
    /\ lost \subseteq Answered(t)
    /\ c \in Nat
    /\ f \in [1 .. c -> Answered(t) \ lost]
    /\ \A i \in Answered(t) \ lost : \E j \in 1 .. c : f[j] = i
    /\ \A j, k \in 1 .. c : j < k => f[j] < f[k]
    /\ queue' \in Seq(AnswerSet)
    /\ Len(queue') = Len(queue) + c
    /\ \A j \in 1 .. Len(queue) : queue'[j] = queue[j]
    /\ \A j \in 1 .. c : queue'[Len(queue) + j] = Answer(t, f[j])
    /\ overflow' = (overflow \/ lost # {})
    /\ IF lost = {} THEN faults' = faults ELSE faults < MaxFaults /\ faults' = faults + 1

LEMMA OrderIs ==
    ASSUME NEW m \in Nat, NEW I \in SUBSET (1 .. m), NEW order \in InOrder(I)
    PROVE  \E c \in Nat :
             /\ order \in [1 .. c -> I]
             /\ \A i \in I : \E j \in 1 .. c : order[j] = i
             /\ \A j, k \in 1 .. c : j < k => order[j] < order[k]
<1>1. Cardinality(I) \in Nat
  <2>1. IsFiniteSet(1 .. m)
    BY FS_Interval, SMT
  <2> QED
    BY <2>1, FS_Subset, FS_CardinalityType
<1>2. /\ order \in [1 .. Cardinality(I) -> I] /\ Range(order) = I
      /\ \A j, k \in DOMAIN order : j < k => order[j] < order[k]
  BY DEF InOrder
<1>3. \A i \in I : \E j \in 1 .. Cardinality(I) : order[j] = i
  BY <1>2 DEF Range
<1> QED
  BY <1>1, <1>2, <1>3

LEMMA AnswerIs ==
    ASSUME TInv, NEW t \in Thread, pc[t] = "send", NEW i \in Answered(t)
    PROVE  Answer(t, i) \in AnswerSet
<1>1. /\ ThreadOK(t) /\ txn[t] \in Seq(Request) /\ Len(txn[t]) \in Nat
      /\ at[t] \in Nat /\ n[t] \in Nat /\ base_seq[t] \in Nat
  BY ThreadTypes
<1>2. i \in 1 .. n[t]
  BY DEF Answered
<1>3. /\ at[t] + n[t] <= Len(txn[t]) /\ base_seq[t] >= 1
      /\ base_seq[t] + n[t] <= SeqLimit + MaxBatch - 1
  BY ONLY <1>1, pc[t] = "send", Zenon DEF ThreadOK
<1>4. at[t] + i \in 1 .. Len(txn[t]) /\ base_seq[t] + i - 1 \in 1 .. SeqLimit + MaxBatch - 1
  <2>1. PICK a, m, l, b : a = at[t] /\ m = n[t] /\ l = Len(txn[t]) /\ b = base_seq[t]
    OBVIOUS
  <2>2. /\ a \in Nat /\ m \in Nat /\ l \in Nat /\ b \in Nat /\ i \in 1 .. m
        /\ a + m <= l /\ b >= 1 /\ b + m <= SeqLimit + MaxBatch - 1
    BY ONLY <1>1, <1>2, <1>3, <2>1, Zenon
  <2>3. a + i \in 1 .. l /\ b + i - 1 \in 1 .. SeqLimit + MaxBatch - 1
    BY ONLY <2>2, Constants, SMT
  <2> QED
    BY ONLY <2>1, <2>3, Zenon
<1>5. txn[t][at[t] + i] \in Request
  BY ONLY <1>1, <1>4, ElementOfSeq, Zenon
<1> QED
  BY <1>4, <1>5 DEF Answer, AnswerSet

LEMMA SendIs ==
    ASSUME TInv, NEW t \in Thread, send(t)
    PROVE  \E lost, c, f : Sent(t, lost, c, f)
<1>1. PICK lost \in SUBSET Answered(t) : \E order \in InOrder(Answered(t) \ lost) :
        /\ queue' = queue \o [j \in DOMAIN order |-> Answer(t, order[j])]
        /\ overflow' = (overflow \/ lost # {})
        /\ IF lost = {} THEN UNCHANGED faults
           ELSE faults < MaxFaults /\ faults' = faults + 1
  BY DEF send
<1>2. PICK f \in InOrder(Answered(t) \ lost) :
        /\ queue' = queue \o [j \in DOMAIN f |-> Answer(t, f[j])]
        /\ overflow' = (overflow \/ lost # {})
        /\ IF lost = {} THEN UNCHANGED faults
           ELSE faults < MaxFaults /\ faults' = faults + 1
  BY <1>1
<1>3. Answered(t) \ lost \in SUBSET (1 .. n[t]) /\ n[t] \in Nat
  BY ThreadTypes DEF Answered
<1>4. PICK c \in Nat :
        /\ f \in [1 .. c -> Answered(t) \ lost]
        /\ \A i \in Answered(t) \ lost : \E j \in 1 .. c : f[j] = i
        /\ \A j, k \in 1 .. c : j < k => f[j] < f[k]
  BY ONLY <1>2, <1>3, OrderIs, ZenonT(60)
<1> DEFINE q == [j \in 1 .. c |-> Answer(t, f[j])]
<1>5. queue' = queue \o q
  BY <1>2, <1>4
<1>6. q \in [1 .. c -> AnswerSet]
  <2>1. pc[t] = "send"
    BY DEF send
  <2>2. \A j \in 1 .. c : f[j] \in Answered(t)
    BY <1>4
  <2> QED
    BY <2>1, <2>2, AnswerIs
<1>7. queue \in Seq(AnswerSet)
  BY DEF TInv, Shared
<1>8. \A j \in 1 .. c : q[j] = Answer(t, f[j])
  OBVIOUS
<1>9. q \in Seq(AnswerSet) /\ Len(q) = c
  <2> HIDE DEF q
  <2> QED
    BY ONLY <1>4, <1>6, SMT
<1>10. /\ queue' \in Seq(AnswerSet)
       /\ Len(queue') = Len(queue) + c
       /\ \A j \in 1 .. Len(queue) : queue'[j] = queue[j]
       /\ \A j \in 1 .. c : queue'[Len(queue) + j] = q[j]
  <2> HIDE DEF q
  <2>1. /\ queue' \in Seq(AnswerSet) /\ Len(queue') = Len(queue) + Len(q)
        /\ \A i \in 1 .. Len(queue) + Len(q) :
             queue'[i] = IF i <= Len(queue) THEN queue[i] ELSE q[i - Len(queue)]
    BY ONLY <1>5, <1>7, <1>9, ConcatProperties, Zenon
  <2>2. Len(queue) \in Nat
    BY ONLY <1>7, LenProperties, Zenon
  <2>3. PICK l : l = Len(queue)
    OBVIOUS
  <2>4. /\ l \in Nat /\ c \in Nat
        /\ \A i \in 1 .. l + c : queue'[i] = IF i <= l THEN queue[i] ELSE q[i - l]
    BY ONLY <1>4, <1>9, <2>1, <2>2, <2>3, Zenon
  <2>5. ASSUME NEW j \in 1 .. c PROVE queue'[l + j] = q[j]
    <3>1. l + j \in 1 .. l + c /\ ~(l + j <= l) /\ (l + j) - l = j
      BY ONLY <2>4, j \in 1 .. c, SMT
    <3> QED
      BY ONLY <2>4, <3>1, Zenon
  <2>6. ASSUME NEW j \in 1 .. l PROVE queue'[j] = queue[j]
    <3>1. j \in 1 .. l + c /\ j <= l
      BY ONLY <2>4, j \in 1 .. l, SMT
    <3> QED
      BY ONLY <2>4, <3>1, Zenon
  <2> QED
    BY ONLY <1>9, <2>1, <2>3, <2>5, <2>6, Zenon
<1>11. \A j \in 1 .. c : queue'[Len(queue) + j] = Answer(t, f[j])
  BY ONLY <1>8, <1>10, Zenon
<1>12. Sent(t, lost, c, f)
  BY ONLY <1>1, <1>2, <1>4, <1>10, <1>11, Zenon DEF Sent
<1> QED
  BY <1>12

LEMMA SendTInv ==
    ASSUME TInv, NEW t \in Thread, send(t)
    PROVE  TInv'
<1>1. Typed /\ Shared
  BY DEF TInv
<1>2. PICK lost, c, f : Sent(t, lost, c, f)
  BY SendIs
<1>3. /\ pc' \in [Thread -> Where] /\ pc'[t] = "recv"
      /\ \A u \in Thread \ {t} : pc'[u] = pc[u]
  BY <1>1, ExceptIn, ZenonT(60) DEF send, Typed, Where
<1>4. txn' = txn /\ res' = res /\ at' = at /\ n' = n /\ base_seq' = base_seq
      /\ next_seq' = next_seq
  BY DEF send
<1>5. /\ ThreadOK(t) /\ Len(txn[t]) \in Nat /\ DOMAIN txn[t] = 1 .. Len(txn[t])
      /\ at[t] \in Nat /\ n[t] \in Nat /\ base_seq[t] \in Nat /\ exec[t] \in SUBSET Nat
      /\ pc[t] = "send"
  BY ThreadTypes DEF send
<1>6. /\ at[t] + n[t] <= Len(txn[t]) /\ exec[t] \subseteq DOMAIN txn[t]
      /\ base_seq[t] >= 1
  BY ONLY <1>5, Zenon DEF ThreadOK
<1>7. at[t] + 1 .. at[t] + n[t] \subseteq DOMAIN txn[t] /\ DOMAIN txn[t] \subseteq Nat
  BY ONLY <1>5, <1>6, SMT
<1>8. /\ exec' \in [Thread -> SUBSET Nat] /\ exec'[t] \subseteq DOMAIN txn[t]
      /\ \A u \in Thread \ {t} : exec'[u] = exec[u]
  <2> DEFINE e == exec[t] \cup (at[t] + 1 .. at[t] + n[t])
  <2>1. e \in SUBSET Nat /\ e \subseteq DOMAIN txn[t]
    BY <1>6, <1>7
  <2>2. exec' = [exec EXCEPT ![t] = e]
    BY DEF send
  <2>3. exec \in [Thread -> SUBSET Nat]
    BY <1>1 DEF Typed
  <2> HIDE DEF e
  <2> QED
    BY ONLY <2>1, <2>2, <2>3, t \in Thread, ExceptIn, ZenonT(60)
<1>9. Shared'
  <2>1. faults' \in 0 .. MaxFaults
    <3>1. faults \in 0 .. MaxFaults
      BY <1>1 DEF Shared
    <3>2. IF lost = {} THEN faults' = faults ELSE faults < MaxFaults /\ faults' = faults + 1
      BY <1>2 DEF Sent
    <3> QED
      BY ONLY <3>1, <3>2, Constants, SMT
  <2>2. overflow' \in BOOLEAN /\ queue' \in Seq(AnswerSet)
    BY <1>2 DEF Sent
  <2> QED
    BY ONLY <1>1, <1>4, <2>1, <2>2, Zenon DEF Shared
<1>10. Rest(t)
  BY ONLY <1>3, <1>4, <1>8, Zenon DEF Rest
<1>11. Typed'
  BY ONLY <1>1, <1>3, <1>4, <1>8, Zenon DEF Typed
<1>12. ThreadOK(t)'
  BY ONLY <1>3, <1>4, <1>5, <1>6, <1>8, SMT DEF ThreadOK
<1> QED
  BY <1>9, <1>10, <1>11, <1>12, OthersOK

LEMMA HeadIs ==
    ASSUME TInv, queue # <<>>
    PROVE  /\ Len(queue) \in Nat /\ Len(queue) >= 1
           /\ Head(queue) = queue[1] /\ queue[1] \in AnswerSet
           /\ queue[1].seq \in Nat /\ queue[1].what \in Request
           /\ Tail(queue) \in Seq(AnswerSet)
           /\ Len(Tail(queue)) = Len(queue) - 1
           /\ \A j \in 1 .. Len(queue) - 1 : Tail(queue)[j] = queue[j + 1]
<1>1. queue \in Seq(AnswerSet)
  BY DEF TInv, Shared
<1>2. /\ Len(queue) \in Nat /\ Len(queue) >= 1
      /\ Head(queue) = queue[1]
      /\ Tail(queue) \in Seq(AnswerSet)
      /\ Len(Tail(queue)) = Len(queue) - 1
      /\ \A j \in 1 .. Len(queue) - 1 : Tail(queue)[j] = queue[j + 1]
  BY ONLY <1>1, queue # <<>>, SMT
<1>3. 1 \in 1 .. Len(queue)
  BY ONLY <1>2, SMT
<1>4. queue[1] \in AnswerSet
  BY ONLY <1>1, <1>3, ElementOfSeq, Zenon
<1>5. queue[1].seq \in 1 .. SeqLimit + MaxBatch - 1 /\ queue[1].what \in Request
  BY ONLY <1>4, Zenon DEF AnswerSet
<1>6. queue[1].seq \in Nat
  BY ONLY <1>5, Constants, SMT
<1> QED
  BY ONLY <1>2, <1>4, <1>5, <1>6, Zenon

\* k transactions of t are done, and r are its results.
LEMMA Advanced ==
    ASSUME TInv, NEW t \in Thread, pc[t] = "recv", NEW k \in 0 .. n[t], Advance(t, k),
           NEW over \in BOOLEAN, pc' = [pc EXCEPT ![t] = After(t, at[t] + k, over)],
           NEW r \in Seq(Outcome), Len(r) = Len(txn[t]), res' = [res EXCEPT ![t] = r],
           txn' = txn, exec' = exec
    PROVE  /\ Typed' /\ Rest(t) /\ ThreadOK(t)'
           /\ at'[t] = at[t] + k /\ n'[t] = n[t] - k /\ base_seq'[t] = base_seq[t] + k
           /\ pc'[t] = After(t, at[t] + k, over) /\ res'[t] = r
<1>1. Typed
  BY DEF TInv
<1>2. /\ ThreadOK(t) /\ Len(txn[t]) \in Nat
      /\ at[t] \in Nat /\ n[t] \in Nat /\ base_seq[t] \in Nat
  BY ThreadTypes
<1>3. at[t] + k \in Nat /\ n[t] - k \in Nat /\ base_seq[t] + k \in Nat /\ k \in Nat
  BY ONLY <1>2, k \in 0 .. n[t], SMT
<1>4. /\ After(t, at[t] + k, over) \in Where
      /\ After(t, at[t] + k, over) = "returned" => at[t] + k = Len(txn[t])
  BY DEF After, Where
<1>5. /\ at' \in [Thread -> Nat] /\ at'[t] = at[t] + k
      /\ \A u \in Thread \ {t} : at'[u] = at[u]
  BY <1>1, <1>3, ExceptIn, ZenonT(60) DEF Advance, Typed
<1>6. /\ n' \in [Thread -> Nat] /\ n'[t] = n[t] - k
      /\ \A u \in Thread \ {t} : n'[u] = n[u]
  BY <1>1, <1>3, ExceptIn, ZenonT(60) DEF Advance, Typed
<1>7. /\ base_seq' \in [Thread -> Nat] /\ base_seq'[t] = base_seq[t] + k
      /\ \A u \in Thread \ {t} : base_seq'[u] = base_seq[u]
  BY <1>1, <1>3, ExceptIn, ZenonT(60) DEF Advance, Typed
<1>8. /\ pc' \in [Thread -> Where] /\ pc'[t] = After(t, at[t] + k, over)
      /\ \A u \in Thread \ {t} : pc'[u] = pc[u]
  BY <1>1, <1>4, ExceptIn, ZenonT(60) DEF Typed
<1>9. /\ res' \in [Thread -> Seq(Outcome)] /\ res'[t] = r
      /\ \A u \in Thread \ {t} : res'[u] = res[u]
  BY <1>1, ExceptIn, ZenonT(60) DEF Typed
<1>10. Rest(t)
  BY ONLY <1>5, <1>6, <1>7, <1>8, <1>9, txn' = txn, exec' = exec, Zenon DEF Rest
<1>11. Typed'
  BY ONLY <1>1, <1>5, <1>6, <1>7, <1>8, <1>9, txn' = txn, exec' = exec, Zenon DEF Typed
<1>12. ThreadOK(t)'
  <2>1. /\ exec[t] \subseteq DOMAIN txn[t]
        /\ at[t] + n[t] <= Len(txn[t]) /\ n[t] <= MaxBatch
        /\ base_seq[t] + n[t] <= SeqLimit + MaxBatch - 1
        /\ base_seq[t] >= 1
    BY ONLY <1>2, pc[t] = "recv", Zenon DEF ThreadOK
  <2>2. /\ at'[t] + n'[t] <= Len(txn[t]) /\ n'[t] <= MaxBatch
        /\ base_seq'[t] + n'[t] <= SeqLimit + MaxBatch - 1
        /\ base_seq'[t] >= 1
    <3>1. PICK a, m, b, len, a1, m1, b1 :
            /\ a = at[t] /\ m = n[t] /\ b = base_seq[t] /\ len = Len(txn[t])
            /\ a1 = at'[t] /\ m1 = n'[t] /\ b1 = base_seq'[t]
      BY ONLY TRUE, Zenon
    <3>2. a1 = a + k /\ m1 = m - k /\ b1 = b + k
      BY ONLY <1>5, <1>6, <1>7, <3>1, Zenon
    <3>3. a \in Nat /\ m \in Nat /\ b \in Nat /\ len \in Nat /\ k \in Nat
          /\ a + m <= len /\ m <= MaxBatch /\ b + m <= SeqLimit + MaxBatch - 1 /\ b >= 1
      BY ONLY <1>2, <1>3, <2>1, <3>1, Zenon
    <3>4. /\ a1 + m1 <= len /\ m1 <= MaxBatch
          /\ b1 + m1 <= SeqLimit + MaxBatch - 1 /\ b1 >= 1
      BY ONLY <3>2, <3>3, Constants, SMT
    <3> QED
      BY ONLY <3>1, <3>4, Zenon
  <2>3. Len(res'[t]) = Len(txn'[t]) /\ exec'[t] = exec[t] /\ txn'[t] = txn[t]
    BY <1>9
  <2>4. pc'[t] = "returned" => at'[t] = Len(txn[t])
    BY ONLY <1>4, <1>5, <1>8, Zenon
  <2> QED
    BY ONLY <2>1, <2>2, <2>3, <2>4, Zenon DEF ThreadOK
<1> QED
  BY ONLY <1>5, <1>6, <1>7, <1>8, <1>9, <1>10, <1>11, <1>12, Zenon

LEMMA EnobufsTInv ==
    ASSUME TInv, NEW t \in Thread, recv_ENOBUFS(t)
    PROVE  TInv'
<1>1. Typed /\ Shared
  BY DEF TInv
<1>2. /\ pc' \in [Thread -> Where] /\ pc'[t] = "batch"
      /\ \A u \in Thread \ {t} : pc'[u] = pc[u]
  BY <1>1, ExceptIn, ZenonT(60) DEF recv_ENOBUFS, Typed, Where
<1>3. txn' = txn /\ res' = res /\ exec' = exec /\ at' = at /\ n' = n /\ base_seq' = base_seq
      /\ next_seq' = next_seq /\ queue' = queue /\ overflow' = FALSE /\ faults' = faults
  BY DEF recv_ENOBUFS
<1>4. ThreadOK(t)
  BY ThreadTypes
<1>5. Rest(t)
  BY ONLY <1>2, <1>3, Zenon DEF Rest
<1>6. Typed'
  BY ONLY <1>1, <1>2, <1>3, Zenon DEF Typed
<1>7. Shared'
  BY ONLY <1>1, <1>3, Zenon DEF Shared
<1>8. ThreadOK(t)'
  BY ONLY <1>2, <1>3, <1>4, SMT DEF ThreadOK
<1> QED
  BY <1>5, <1>6, <1>7, <1>8, OthersOK

LEMMA EagainIs ==
    ASSUME TInv, NEW t \in Thread, recv_EAGAIN(t)
    PROVE  /\ TInv'
           /\ at'[t] = at[t] + n[t] /\ n'[t] = n[t] - n[t] /\ base_seq'[t] = base_seq[t] + n[t]
           /\ pc'[t] = After(t, at[t] + n[t], TRUE)
           /\ \A i \in 1 .. Len(txn[t]) :
                res'[t][i] = IF i \in at[t] + 1 .. at[t] + n[t] THEN "ok" ELSE res[t][i]
<1>1. at[t] \in Nat /\ n[t] \in Nat
  BY ThreadTypes
<1>2. at[t] + 1 \in Nat /\ at[t] + n[t] \in Nat /\ n[t] \in 0 .. n[t]
  BY ONLY <1>1, SMT
<1>3. PICK r : r = Record(t, at[t] + 1, at[t] + n[t], "ok")
  OBVIOUS
<1>4. /\ r \in Seq(Outcome) /\ Len(r) = Len(txn[t])
      /\ \A i \in 1 .. Len(txn[t]) :
           r[i] = IF i \in at[t] + 1 .. at[t] + n[t] THEN "ok" ELSE res[t][i]
  <2>1. "ok" \in Outcome
    BY DEF Outcome
  <2>2. /\ Record(t, at[t] + 1, at[t] + n[t], "ok") \in Seq(Outcome)
        /\ Len(Record(t, at[t] + 1, at[t] + n[t], "ok")) = Len(txn[t])
        /\ \A i \in 1 .. Len(txn[t]) :
             Record(t, at[t] + 1, at[t] + n[t], "ok")[i] =
                 IF i \in at[t] + 1 .. at[t] + n[t] THEN "ok" ELSE res[t][i]
    <3>1. PICK a \in Nat, b \in Nat : a = at[t] + 1 /\ b = at[t] + n[t]
      BY ONLY <1>2, Zenon
    <3>2. /\ Record(t, a, b, "ok") \in Seq(Outcome)
          /\ DOMAIN Record(t, a, b, "ok") = 1 .. Len(txn[t])
          /\ Len(Record(t, a, b, "ok")) = Len(txn[t])
          /\ \A i \in 1 .. Len(txn[t]) :
               Record(t, a, b, "ok")[i] = IF i \in a .. b THEN "ok" ELSE res[t][i]
      <4>1. Recorded(t, a, b, "ok")
        BY ONLY TInv, t \in Thread, a \in Nat, b \in Nat, <2>1, RecordIs, Zenon
      <4> QED
        BY ONLY <4>1, Zenon DEF Recorded
    <3> QED
      BY ONLY <3>1, <3>2, Zenon
  <2> QED
    BY ONLY <1>3, <2>2, Zenon
<1>5. /\ Advance(t, n[t]) /\ res' = [res EXCEPT ![t] = r]
      /\ pc' = [pc EXCEPT ![t] = After(t, at[t] + n[t], TRUE)]
      /\ txn' = txn /\ exec' = exec /\ next_seq' = next_seq
      /\ queue' = queue /\ overflow' = overflow /\ faults' = faults
      /\ pc[t] = "recv"
  BY <1>3 DEF recv_EAGAIN
<1>6. /\ Typed' /\ Rest(t) /\ ThreadOK(t)'
      /\ at'[t] = at[t] + n[t] /\ n'[t] = n[t] - n[t] /\ base_seq'[t] = base_seq[t] + n[t]
      /\ pc'[t] = After(t, at[t] + n[t], TRUE) /\ res'[t] = r
  BY <1>2, <1>4, <1>5, Advanced
<1>7. Shared'
  BY <1>5 DEF TInv, Shared
<1>8. TInv'
  BY <1>6, <1>7, OthersOK
<1> QED
  BY <1>4, <1>6, <1>8

LEMMA UnexpectedTInv ==
    ASSUME TInv, NEW t \in Thread, recv_unexpected(t)
    PROVE  TInv'
<1>1. pc' = pc /\ txn' = txn /\ res' = res /\ exec' = exec /\ at' = at /\ n' = n
      /\ base_seq' = base_seq /\ next_seq' = next_seq
      /\ overflow' = overflow /\ faults' = faults /\ queue' = Tail(queue) /\ queue # <<>>
  BY DEF recv_unexpected
<1>2. queue' \in Seq(AnswerSet)
  BY <1>1, HeadIs
<1>3. Shared'
  BY <1>1, <1>2 DEF TInv, Shared
<1>4. Typed'
  BY <1>1 DEF TInv, Typed
<1>5. ASSUME NEW u \in Thread PROVE ThreadOK(u)'
  <2>1. ThreadOK(u)
    BY DEF TInv
  <2> QED
    BY ONLY <1>1, <2>1, Zenon DEF ThreadOK
<1> QED
  BY <1>3, <1>4, <1>5 DEF TInv

LEMMA ResultIs ==
    /\ \A w \in Request : Result(w) \in {"ok", "reply", "error"}
    /\ Result("silent") = "ok"
  BY SMT DEF Request, Result

\* How many transactions an answer makes done.
Count(t) == queue[1].seq - base_seq[t] + 1

LEMMA AnswerStepIs ==
    ASSUME TInv, NEW t \in Thread, recv_answer(t)
    PROVE  /\ TInv'
           /\ Count(t) \in 1 .. n[t]
           /\ at'[t] = at[t] + Count(t) /\ n'[t] = n[t] - Count(t)
           /\ base_seq'[t] = base_seq[t] + Count(t)
           /\ pc'[t] = After(t, at[t] + Count(t), Count(t) = n[t])
           /\ \A i \in 1 .. Len(txn[t]) :
                res'[t][i] = IF i = at[t] + Count(t) THEN Result(queue[1].what)
                             ELSE IF i \in at[t] + 1 .. at[t] + Count(t) THEN "ok"
                             ELSE res[t][i]
<1>1. /\ ThreadOK(t) /\ at[t] \in Nat /\ n[t] \in Nat /\ base_seq[t] \in Nat
      /\ Len(txn[t]) \in Nat
  BY ThreadTypes
<1>2. /\ pc[t] = "recv" /\ queue # <<>> /\ Matches(t, Head(queue)) /\ queue' = Tail(queue)
      /\ txn' = txn /\ exec' = exec /\ next_seq' = next_seq
      /\ overflow' = overflow /\ faults' = faults
  BY DEF recv_answer
<1>3. /\ Head(queue) = queue[1] /\ queue[1].seq \in Nat /\ queue[1].what \in Request
      /\ Tail(queue) \in Seq(AnswerSet)
  BY <1>2, HeadIs
<1>4. PICK k : k = Count(t)
  OBVIOUS
<1>5. k \in 1 .. n[t]
  <2>1. base_seq[t] <= queue[1].seq /\ queue[1].seq < base_seq[t] + n[t]
    BY <1>2, <1>3 DEF Matches
  <2>2. PICK b, m, s : b = base_seq[t] /\ m = n[t] /\ s = queue[1].seq
    OBVIOUS
  <2>3. b \in Nat /\ m \in Nat /\ s \in Nat /\ b <= s /\ s < b + m /\ k = s - b + 1
    BY <1>1, <1>3, <1>4, <2>1, <2>2 DEF Count
  <2>4. k \in 1 .. m
    BY ONLY <2>3, SMT
  <2> QED
    BY ONLY <2>2, <2>4, Zenon
<1>6. k \in 0 .. n[t] /\ at[t] + 1 \in Nat /\ at[t] + k \in Nat
  BY ONLY <1>1, <1>5, SMT
<1>7. PICK r0 : r0 = Record(t, at[t] + 1, at[t] + k, "ok")
  OBVIOUS
<1>8. /\ r0 \in Seq(Outcome) /\ Len(r0) = Len(txn[t]) /\ DOMAIN r0 = 1 .. Len(txn[t])
      /\ \A i \in 1 .. Len(txn[t]) :
           r0[i] = IF i \in at[t] + 1 .. at[t] + k THEN "ok" ELSE res[t][i]
  <2>1. "ok" \in Outcome
    BY DEF Outcome
  <2>2. /\ Record(t, at[t] + 1, at[t] + k, "ok") \in Seq(Outcome)
        /\ DOMAIN Record(t, at[t] + 1, at[t] + k, "ok") = 1 .. Len(txn[t])
        /\ Len(Record(t, at[t] + 1, at[t] + k, "ok")) = Len(txn[t])
        /\ \A i \in 1 .. Len(txn[t]) :
             Record(t, at[t] + 1, at[t] + k, "ok")[i] =
                 IF i \in at[t] + 1 .. at[t] + k THEN "ok" ELSE res[t][i]
    <3>1. PICK a \in Nat, b \in Nat : a = at[t] + 1 /\ b = at[t] + k
      BY ONLY <1>6, Zenon
    <3>2. /\ Record(t, a, b, "ok") \in Seq(Outcome)
          /\ DOMAIN Record(t, a, b, "ok") = 1 .. Len(txn[t])
          /\ Len(Record(t, a, b, "ok")) = Len(txn[t])
          /\ \A i \in 1 .. Len(txn[t]) :
               Record(t, a, b, "ok")[i] = IF i \in a .. b THEN "ok" ELSE res[t][i]
      <4>1. Recorded(t, a, b, "ok")
        BY ONLY TInv, t \in Thread, a \in Nat, b \in Nat, <2>1, RecordIs, Zenon
      <4> QED
        BY ONLY <4>1, Zenon DEF Recorded
    <3> QED
      BY ONLY <3>1, <3>2, Zenon
  <2> QED
    BY ONLY <1>7, <2>2, Zenon
<1>9. PICK r : r = [r0 EXCEPT ![at[t] + k] = Result(queue[1].what)]
  OBVIOUS
<1>10. Result(queue[1].what) \in Outcome
  BY <1>3, ResultIs DEF Outcome
<1>11. r \in Seq(Outcome) /\ Len(r) = Len(txn[t])
  <2>1. PICK x, w : x = at[t] + k /\ w = Result(queue[1].what)
    OBVIOUS
  <2>2. r = [r0 EXCEPT ![x] = w] /\ w \in Outcome
    BY ONLY <1>9, <1>10, <2>1, Zenon
  <2>3. r \in [1 .. Len(txn[t]) -> Outcome]
    <3>1. r0 \in [1 .. Len(txn[t]) -> Outcome]
      BY ONLY <1>8, SeqDef, LenProperties, Zenon
    <3> QED
      BY ONLY <2>2, <3>1, Zenon
  <2> QED
    BY ONLY <1>1, <2>3, SMT
<1>12. \A i \in 1 .. Len(txn[t]) :
         r[i] = IF i = at[t] + k THEN Result(queue[1].what) ELSE r0[i]
  BY ONLY <1>8, <1>9, Zenon
<1>13. \A i \in 1 .. Len(txn[t]) :
         r[i] = IF i = at[t] + k THEN Result(queue[1].what)
                ELSE IF i \in at[t] + 1 .. at[t] + k THEN "ok" ELSE res[t][i]
  BY ONLY <1>8, <1>12, Zenon
<1>14. /\ Advance(t, k) /\ res' = [res EXCEPT ![t] = r]
       /\ pc' = [pc EXCEPT ![t] = After(t, at[t] + k, k = n[t])]
  BY <1>3, <1>4, <1>7, <1>9 DEF recv_answer, Count
<1>15. /\ Typed' /\ Rest(t) /\ ThreadOK(t)'
       /\ at'[t] = at[t] + k /\ n'[t] = n[t] - k /\ base_seq'[t] = base_seq[t] + k
       /\ pc'[t] = After(t, at[t] + k, k = n[t]) /\ res'[t] = r
  <2>1. PICK over \in BOOLEAN : over = (k = n[t])
    BY ONLY TRUE, Zenon
  <2>2. pc' = [pc EXCEPT ![t] = After(t, at[t] + k, over)]
    BY ONLY <1>14, <2>1, Zenon
  <2>3. /\ Typed' /\ Rest(t) /\ ThreadOK(t)'
        /\ at'[t] = at[t] + k /\ n'[t] = n[t] - k /\ base_seq'[t] = base_seq[t] + k
        /\ pc'[t] = After(t, at[t] + k, over) /\ res'[t] = r
    <3>1. Advance(t, k) /\ res' = [res EXCEPT ![t] = r] /\ txn' = txn /\ exec' = exec
      BY ONLY <1>2, <1>14, Zenon
    <3>2. pc[t] = "recv" /\ k \in 0 .. n[t]
      BY ONLY <1>2, <1>6, Zenon
    <3> QED
      BY ONLY TInv, t \in Thread, over \in BOOLEAN, <1>11, <2>2, <3>1, <3>2, Advanced, Zenon
  <2> QED
    BY ONLY <2>1, <2>3, Zenon
<1>16. Shared'
  BY <1>2, <1>3 DEF TInv, Shared
<1>17. TInv'
  BY <1>15, <1>16, OthersOK
<1> QED
  BY ONLY <1>4, <1>5, <1>13, <1>15, <1>17, Zenon

LEMMA TInvNext ==
    ASSUME TInv, [Next]_vars PROVE TInv'
<1>1. CASE UNCHANGED vars
  <2>1. /\ pc' = pc /\ txn' = txn /\ res' = res /\ exec' = exec /\ at' = at /\ n' = n
        /\ base_seq' = base_seq /\ next_seq' = next_seq
        /\ overflow' = overflow /\ faults' = faults /\ queue' = queue
    BY ONLY <1>1, Zenon DEF vars
  <2>2. Shared' /\ Typed'
    BY ONLY TInv, <2>1, Zenon DEF TInv, Shared, Typed
  <2>3. ASSUME NEW u \in Thread PROVE ThreadOK(u)'
    <3>1. ThreadOK(u)
      BY DEF TInv
    <3> QED
      BY ONLY <2>1, <3>1, Zenon DEF ThreadOK
  <2> QED
    BY ONLY <2>2, <2>3, Zenon DEF TInv
<1>2. ASSUME NEW t \in Thread, NEW requests \in Batches, nl_sock_transact_multiple(t, requests)
      PROVE  TInv'
  BY <1>2, StartTInv
<1>3. ASSUME NEW t \in Thread, Step(t) PROVE TInv'
  BY <1>3, LoadTInv, StoreTInv, SendFailsTInv, SendTInv, EnobufsTInv, EagainIs, UnexpectedTInv,
     AnswerStepIs DEF Step
<1> QED
  BY <1>1, <1>2, <1>3 DEF Next

\* The state of the socket and of every call has its type, for any number of
\* threads: nl_sock_allocate_seq gives numbers below the limit and a batch stays
\* within the transactions of its call.
THEOREM TypesHold == Spec => []TypeOK
<1>1. Init => TInv
  BY TInvInit
<1>2. TInv /\ [Next]_vars => TInv'
  BY TInvNext
<1>3. TInv => TypeOK
  BY TypesOK
<1> QED
  BY <1>1, <1>2, <1>3, PTL DEF Spec
-----------------------------------------------------------------------------
\* What is done stays done.

LEMMA ResKept ==
    ASSUME TInv, [Next]_vars, NEW t \in Thread, pc[t] # "returned", NEW i \in 1 .. at[t]
    PROVE  res'[t][i] = res[t][i]
<1>1. res \in [Thread -> Seq(Outcome)]
  BY DEF TInv, Typed
<1>2. /\ ThreadOK(t) /\ Len(txn[t]) \in Nat /\ at[t] \in Nat /\ n[t] \in Nat
  BY ThreadTypes
<1>3. at[t] + n[t] <= Len(txn[t])
  BY ONLY <1>2, Zenon DEF ThreadOK
<1>4. i \in 1 .. Len(txn[t]) /\ \A b : i \notin at[t] + 1 .. b
  BY ONLY <1>2, <1>3, i \in 1 .. at[t], SMT
<1>5. CASE UNCHANGED vars
  BY <1>5 DEF vars
<1>6. ASSUME NEW u \in Thread, u # t,
             \/ \E requests \in Batches : nl_sock_transact_multiple(u, requests)
             \/ Step(u)
      PROVE  res'[t] = res[t]
  <2>1. res' = res \/ \E v : res' = [res EXCEPT ![u] = v]
    BY <1>6 DEF Step, nl_sock_transact_multiple, allocate_seq_load, allocate_seq_store,
       send_fails, send, recv_ENOBUFS, recv_EAGAIN, recv_unexpected, recv_answer
  <2> QED
    BY ONLY <1>1, <2>1, t \in Thread, u \in Thread, <1>6, Zenon
<1>7. ASSUME Step(t) PROVE res'[t][i] = res[t][i]
  <2>1. CASE res' = res
    BY <2>1
  <2>2. ASSUME send_fails(t), res' # res PROVE res'[t][i] = res[t][i]
    <3>1. at[t] + 1 \in Nat
      BY ONLY <1>2, SMT
    <3>2. res'[t] = Record(t, at[t] + 1, Len(txn[t]), "error")
      BY <1>1, <2>2 DEF send_fails
    <3>3. \A j \in 1 .. Len(txn[t]) :
            Record(t, at[t] + 1, Len(txn[t]), "error")[j] =
                IF j \in at[t] + 1 .. Len(txn[t]) THEN "error" ELSE res[t][j]
      <4>1. PICK a \in Nat, b \in Nat : a = at[t] + 1 /\ b = Len(txn[t])
        BY ONLY <1>2, <3>1, Zenon
      <4>2. /\ Record(t, a, b, "error") \in Seq(Outcome)
            /\ DOMAIN Record(t, a, b, "error") = 1 .. Len(txn[t])
            /\ Len(Record(t, a, b, "error")) = Len(txn[t])
            /\ \A j \in 1 .. Len(txn[t]) :
                 Record(t, a, b, "error")[j] = IF j \in a .. b THEN "error" ELSE res[t][j]
        <5>1. "error" \in Outcome
          BY DEF Outcome
        <5> QED
          <6>1. Recorded(t, a, b, "error")
            BY ONLY TInv, t \in Thread, a \in Nat, b \in Nat, <5>1, RecordIs, Zenon
          <6> QED
            BY ONLY <6>1, Zenon DEF Recorded
      <4> QED
        BY ONLY <4>1, <4>2, Zenon
    <3> QED
      BY ONLY <1>4, <3>2, <3>3, Zenon
  <2>3. ASSUME recv_EAGAIN(t) PROVE res'[t][i] = res[t][i]
    BY <1>4, <2>3, EagainIs
  <2>4. ASSUME recv_answer(t) PROVE res'[t][i] = res[t][i]
    <3>1. PICK k : k = Count(t)
      OBVIOUS
    <3>2. k \in 1 .. n[t] /\ res'[t][i] = IF i = at[t] + k THEN Result(queue[1].what)
                                          ELSE IF i \in at[t] + 1 .. at[t] + k THEN "ok"
                                          ELSE res[t][i]
      BY ONLY TInv, t \in Thread, <1>4, <2>4, <3>1, AnswerStepIs, Zenon
    <3>3. i # at[t] + k
      BY ONLY <1>2, <3>2, i \in 1 .. at[t], SMT
    <3> QED
      BY ONLY <1>4, <3>2, <3>3, Zenon
  <2> QED
    BY <1>7, <2>1, <2>2, <2>3, <2>4 DEF Step, allocate_seq_load, allocate_seq_store, send,
       recv_ENOBUFS, recv_unexpected
<1>8. ASSUME NEW requests \in Batches, nl_sock_transact_multiple(t, requests) PROVE FALSE
  BY <1>8 DEF nl_sock_transact_multiple
<1> QED
  BY <1>5, <1>6, <1>7, <1>8 DEF Next

\* What nl_sock_transact_multiple has recorded for a transaction it counts as
\* done is never written again in that call: not by a later batch, by a send
\* that fails or by a retry, whatever other threads do with the socket.
THEOREM DoneIsFinal == Spec => DoneStaysDone
<1>1. Init => TInv
  BY TInvInit
<1>2. TInv /\ [Next]_vars => TInv'
  BY TInvNext
<1>3. TInv /\ [Next]_vars =>
        [\A t \in Thread : pc[t] # "returned" =>
            \A i \in 1 .. at[t] : res'[t][i] = res[t][i]]_vars
  BY ResKept
<1> QED
  BY <1>1, <1>2, <1>3, PTL DEF Spec, DoneStaysDone
-----------------------------------------------------------------------------
\* A socket with one user.  First, how far apart numbers are.

LEMMA BeforeNext ==
    ASSUME NEW d \in Nat, NEW x \in 1 .. SeqLimit - 1, NEW c \in 1 .. MaxBatch,
           NEW s \in 1 .. SeqLimit + MaxBatch - 1, Before(s, x, d)
    PROVE  Before(s, NextSeq(x, c), d + MaxBatch)
  BY ONLY d \in Nat, x \in 1 .. SeqLimit - 1, c \in 1 .. MaxBatch,
     s \in 1 .. SeqLimit + MaxBatch - 1, Before(s, x, d), Constants, SMT DEF Before, NextSeq

LEMMA BeforeOwn ==
    ASSUME NEW d \in Nat, NEW x \in 1 .. SeqLimit - 1, NEW c \in 1 .. MaxBatch,
           NEW i \in 1 .. c
    PROVE  Before(x + i - 1, NextSeq(x, c), d + MaxBatch)
  BY ONLY d \in Nat, x \in 1 .. SeqLimit - 1, c \in 1 .. MaxBatch, i \in 1 .. c,
     Constants, SMT DEF Before, NextSeq

\* What is old enough is not taken for an answer to a new batch.
LEMMA BeforeApart ==
    ASSUME NEW d \in Nat, d + 2 * MaxBatch < SeqLimit,
           NEW x \in 1 .. SeqLimit - 1, NEW c \in 1 .. MaxBatch,
           NEW s \in 1 .. SeqLimit + MaxBatch - 1, Before(s, x, d)
    PROVE  ~Within(s, x, c)
  BY ONLY d \in Nat, d + 2 * MaxBatch < SeqLimit, x \in 1 .. SeqLimit - 1, c \in 1 .. MaxBatch,
     s \in 1 .. SeqLimit + MaxBatch - 1, Before(s, x, d), Constants, SMT DEF Before, Within

\* An answer that is not expected is older than the batch.
LEMMA WaitTail ==
    ASSUME NEW q \in Seq(AnswerSet), q # <<>>, NEW x,
           NEW a \in Nat, NEW b \in Nat, NEW m \in Nat,
           Waiting(q, x, a, b, m), ~Within(q[1].seq, b, m)
    PROVE  Waiting(Tail(q), x, a, b, m)
<1>1. /\ Len(q) \in Nat /\ Len(q) >= 1 /\ Len(Tail(q)) = Len(q) - 1
      /\ \A j \in 1 .. Len(q) - 1 : Tail(q)[j] = q[j + 1]
  BY ONLY q \in Seq(AnswerSet), q # <<>>, SMT
<1>2. PICK p, l : p = Tail(q) /\ l = Len(q)
  OBVIOUS
<1>3. l \in Nat /\ l >= 1 /\ Len(p) = l - 1 /\ \A j \in 1 .. l - 1 : p[j] = q[j + 1]
  BY ONLY <1>1, <1>2, Zenon
<1>4. \A j \in 1 .. l - 1 : j \in 1 .. l /\ j + 1 \in 1 .. l
  BY ONLY <1>3, SMT
<1>5. ASSUME NEW j \in 1 .. Len(p), Within(p[j].seq, b, m)
      PROVE  p[j].what = x[a + (p[j].seq - b) + 1]
  <2>1. j \in 1 .. l - 1
    BY ONLY <1>3, j \in 1 .. Len(p), Zenon
  <2>2. p[j] = q[j + 1] /\ j + 1 \in 1 .. l
    BY ONLY <1>3, <1>4, <2>1, Zenon
  <2>3. PICK r : r = q[j + 1]
    OBVIOUS
  <2>4. p[j] = r /\ Within(r.seq, b, m)
    BY ONLY <1>5, <2>2, <2>3, Zenon
  <2>5. r.what = x[a + (r.seq - b) + 1]
    BY ONLY <1>2, <2>2, <2>3, <2>4, Waiting(q, x, a, b, m), Zenon DEF Waiting
  <2> QED
    BY ONLY <2>4, <2>5, Zenon
<1>6. ASSUME NEW i \in 1 .. m, x[a + i] # "silent"
      PROVE  \E j \in 1 .. Len(p) : p[j].seq = b + i - 1
  <2>1. PICK j \in 1 .. l : q[j].seq = b + i - 1
    BY ONLY <1>2, <1>6, i \in 1 .. m, Waiting(q, x, a, b, m), Zenon DEF Waiting
  <2>2. Within(q[j].seq, b, m)
    <3>1. PICK s : s = q[j].seq
      OBVIOUS
    <3>2. s = b + i - 1
      BY ONLY <2>1, <3>1, Zenon
    <3>3. Within(s, b, m)
      BY ONLY <3>2, i \in 1 .. m, b \in Nat, m \in Nat, SMT DEF Within
    <3> QED
      BY ONLY <3>1, <3>3, Zenon
  <2>3. j # 1
    BY ONLY <2>2, ~Within(q[1].seq, b, m), Zenon
  <2>4. j - 1 \in 1 .. l - 1 /\ (j - 1) + 1 = j
    BY ONLY <1>3, <2>1, <2>3, j \in 1 .. l, SMT
  <2>5. p[j - 1] = q[j]
    BY ONLY <1>3, <2>4, Zenon
  <2> QED
    BY ONLY <1>3, <2>1, <2>4, <2>5, Zenon
<1>7. ASSUME NEW j \in 1 .. Len(p), NEW k \in 1 .. Len(p), j < k, Within(p[j].seq, b, m)
      PROVE  Within(p[k].seq, b, m) /\ p[j].seq < p[k].seq
  <2>1. j \in 1 .. l - 1 /\ k \in 1 .. l - 1
    BY ONLY <1>3, j \in 1 .. Len(p), k \in 1 .. Len(p), Zenon
  <2>2. j + 1 \in 1 .. l /\ k + 1 \in 1 .. l /\ j + 1 < k + 1
    BY ONLY <1>3, <1>7, <2>1, SMT
  <2>3. p[j] = q[j + 1] /\ p[k] = q[k + 1]
    BY ONLY <1>3, <2>1, Zenon
  <2> QED
    BY ONLY <1>2, <1>7, <2>2, <2>3, Waiting(q, x, a, b, m), Zenon DEF Waiting
<1>8. Waiting(p, x, a, b, m)
  BY ONLY <1>5, <1>6, <1>7, Zenon DEF Waiting
<1> QED
  BY ONLY <1>2, <1>8, Zenon

\* The next answer is to the k-th request of the batch.
Expected(q, x, a, b, m, k) ==
    /\ q \in Seq(AnswerSet) /\ q # <<>>
    /\ a \in Nat /\ b \in Nat /\ m \in Nat /\ k \in 1 .. m
    /\ Waiting(q, x, a, b, m)
    /\ q[1].seq = b + k - 1

\* The requests before it had none, and what is queued after it answers the rest.
LEMMA WaitAnswer ==
    ASSUME NEW q, NEW x, NEW a, NEW b, NEW m, NEW k, Expected(q, x, a, b, m, k)
    PROVE  /\ \A i \in 1 .. k - 1 : x[a + i] = "silent"
           /\ q[1].what = x[a + k]
           /\ Waiting(Tail(q), x, a + k, b + k, m - k)
           /\ k = m => Tail(q) = <<>>
<1> /\ q \in Seq(AnswerSet) /\ q # <<>>
    /\ a \in Nat /\ b \in Nat /\ m \in Nat /\ k \in 1 .. m
    /\ Waiting(q, x, a, b, m)
    /\ q[1].seq = b + k - 1
  BY DEF Expected
<1>1. /\ Len(q) \in Nat /\ Len(q) >= 1 /\ Len(Tail(q)) = Len(q) - 1
      /\ \A j \in 1 .. Len(q) - 1 : Tail(q)[j] = q[j + 1]
  BY ONLY q \in Seq(AnswerSet), q # <<>>, SMT
<1>2. PICK p, l : p = Tail(q) /\ l = Len(q)
  OBVIOUS
<1>3. l \in Nat /\ l >= 1 /\ Len(p) = l - 1 /\ \A j \in 1 .. l - 1 : p[j] = q[j + 1]
  BY ONLY <1>1, <1>2, Zenon
<1>4. 1 \in 1 .. l /\ \A j \in 1 .. l - 1 : j \in 1 .. l /\ j + 1 \in 1 .. l
  BY ONLY <1>3, SMT
<1>5. k \in Nat /\ m - k \in Nat /\ a + k \in Nat /\ b + k \in Nat
  BY ONLY a \in Nat, b \in Nat, m \in Nat, k \in 1 .. m, SMT
<1>6. Within(q[1].seq, b, m)
  <2>1. Within(b + k - 1, b, m)
    BY ONLY b \in Nat, m \in Nat, k \in 1 .. m, SMT DEF Within
  <2> QED
    BY ONLY <2>1, q[1].seq = b + k - 1, Zenon
<1>7. ASSUME NEW j \in 1 .. l, j # 1
      PROVE  /\ q[j].seq \in Nat /\ Within(q[j].seq, b, m) /\ b + k - 1 < q[j].seq
             /\ Within(q[j].seq, b + k, m - k)
  <2>1. 1 < j
    BY ONLY <1>3, <1>7, j \in 1 .. l, SMT
  <2>2. Within(q[j].seq, b, m) /\ b + k - 1 < q[j].seq
    BY ONLY <1>2, <1>4, <1>6, <2>1, j \in 1 .. l, q[1].seq = b + k - 1, Waiting(q, x, a, b, m), Zenon
       DEF Waiting
  <2>3. q[j] \in AnswerSet
    BY ONLY <1>2, j \in 1 .. l, q \in Seq(AnswerSet), ElementOfSeq, Zenon
  <2>4. q[j].seq \in Nat
    <3>1. q[j].seq \in 1 .. SeqLimit + MaxBatch - 1
      BY ONLY <2>3, Zenon DEF AnswerSet
    <3> QED
      BY ONLY <3>1, Constants, SMT
  <2>5. Within(q[j].seq, b + k, m - k)
    <3>1. PICK s : s = q[j].seq
      OBVIOUS
    <3>2. s \in Nat /\ Within(s, b, m) /\ b + k - 1 < s
      BY ONLY <2>2, <2>4, <3>1, Zenon
    <3>3. Within(s, b + k, m - k)
      BY ONLY <1>5, <3>2, b \in Nat, m \in Nat, SMT DEF Within
    <3> QED
      BY ONLY <3>1, <3>3, Zenon
  <2> QED
    BY ONLY <2>2, <2>4, <2>5, Zenon
<1>8. ASSUME NEW i \in 1 .. k - 1, x[a + i] # "silent" PROVE FALSE
  <2>1. i \in 1 .. m /\ b + i - 1 < b + k - 1 /\ b + i - 1 \in Int /\ b + k - 1 \in Int
    BY ONLY <1>5, i \in 1 .. k - 1, m \in Nat, b \in Nat, SMT
  <2>2. PICK j \in 1 .. l : q[j].seq = b + i - 1
    BY ONLY <1>2, <1>8, <2>1, Waiting(q, x, a, b, m), Zenon DEF Waiting
  <2>3. PICK u, v : u = b + i - 1 /\ v = b + k - 1
    OBVIOUS
  <2>4. u < v /\ u \in Int /\ v \in Int
    BY ONLY <2>1, <2>3, Zenon
  <2>5. CASE j = 1
    <3>1. u = v
      BY ONLY <2>2, <2>3, <2>5, q[1].seq = b + k - 1, Zenon
    <3> QED
      BY ONLY <2>4, <3>1, SMT
  <2>6. CASE j # 1
    <3>1. v < u
      BY ONLY <1>7, <2>2, <2>3, <2>6, Zenon
    <3> QED
      BY ONLY <2>4, <3>1, SMT
  <2> QED
    BY ONLY <2>5, <2>6, Zenon
<1>9. q[1].what = x[a + k]
  <2>1. q[1].what = x[a + ((b + k - 1) - b) + 1]
    BY ONLY <1>2, <1>4, <1>6, q[1].seq = b + k - 1, Waiting(q, x, a, b, m), Zenon DEF Waiting
  <2>2. a + ((b + k - 1) - b) + 1 = a + k
    BY ONLY <1>5, a \in Nat, b \in Nat, SMT
  <2> QED
    BY ONLY <2>1, <2>2, Zenon
<1>10. ASSUME NEW j \in 1 .. Len(p), Within(p[j].seq, b + k, m - k)
       PROVE  p[j].what = x[(a + k) + (p[j].seq - (b + k)) + 1]
  <2>1. j \in 1 .. l - 1
    BY ONLY <1>3, j \in 1 .. Len(p), Zenon
  <2>2. j + 1 \in 1 .. l /\ j + 1 # 1
    BY ONLY <1>3, <2>1, SMT
  <2>3. PICK s : s = q[j + 1].seq
    OBVIOUS
  <2>4. s \in Nat /\ q[j + 1].what = x[a + (s - b) + 1]
    BY ONLY <1>2, <1>7, <2>2, <2>3, Waiting(q, x, a, b, m), Zenon DEF Waiting
  <2>5. (a + k) + (s - (b + k)) + 1 = a + (s - b) + 1
    BY ONLY <1>5, <2>4, a \in Nat, b \in Nat, SMT
  <2>6. p[j] = q[j + 1]
    BY ONLY <1>3, <2>1, Zenon
  <2> QED
    BY ONLY <2>3, <2>4, <2>5, <2>6, Zenon
<1>11. ASSUME NEW i \in 1 .. m - k, x[(a + k) + i] # "silent"
       PROVE  \E j \in 1 .. Len(p) : p[j].seq = (b + k) + i - 1
  <2>1. /\ k + i \in 1 .. m /\ a + (k + i) = (a + k) + i
        /\ b + (k + i) - 1 = (b + k) + i - 1 /\ b + (k + i) - 1 # b + k - 1
    BY ONLY <1>5, a \in Nat, b \in Nat, m \in Nat, i \in 1 .. m - k, SMT
  <2>2. PICK j \in 1 .. l : q[j].seq = b + (k + i) - 1
    BY ONLY <1>2, <1>11, <2>1, Waiting(q, x, a, b, m), Zenon DEF Waiting
  <2>3. j # 1
    BY ONLY <2>1, <2>2, q[1].seq = b + k - 1, Zenon
  <2>4. j - 1 \in 1 .. l - 1 /\ (j - 1) + 1 = j
    BY ONLY <1>3, <2>3, j \in 1 .. l, SMT
  <2>5. p[j - 1] = q[j]
    BY ONLY <1>3, <2>4, Zenon
  <2> QED
    BY ONLY <1>3, <2>1, <2>2, <2>4, <2>5, Zenon
<1>12. ASSUME NEW j \in 1 .. Len(p), NEW h \in 1 .. Len(p), j < h
       PROVE  Within(p[h].seq, b + k, m - k) /\ p[j].seq < p[h].seq
  <2>1. j \in 1 .. l - 1 /\ h \in 1 .. l - 1
    BY ONLY <1>3, j \in 1 .. Len(p), h \in 1 .. Len(p), Zenon
  <2>2. j + 1 \in 1 .. l /\ h + 1 \in 1 .. l /\ j + 1 < h + 1 /\ j + 1 # 1 /\ h + 1 # 1
    BY ONLY <1>3, <1>12, <2>1, SMT
  <2>3. p[j] = q[j + 1] /\ p[h] = q[h + 1]
    BY ONLY <1>3, <2>1, Zenon
  <2>4. Within(q[h + 1].seq, b + k, m - k) /\ Within(q[j + 1].seq, b, m)
    BY ONLY <1>7, <2>2, Zenon
  <2>5. q[j + 1].seq < q[h + 1].seq
    BY ONLY <1>2, <2>2, <2>4, Waiting(q, x, a, b, m), Zenon DEF Waiting
  <2> QED
    BY ONLY <2>3, <2>4, <2>5, Zenon
<1>13. Waiting(p, x, a + k, b + k, m - k)
  BY ONLY <1>10, <1>11, <1>12, Zenon DEF Waiting
<1>14. ASSUME k = m PROVE p = <<>>
  <2>1. CASE l = 1
    <3>1. p \in Seq(AnswerSet)
      BY ONLY <1>2, q \in Seq(AnswerSet), q # <<>>, SMT
    <3> QED
      BY ONLY <1>3, <2>1, <3>1, SMT
  <2>2. CASE l # 1
    <3>1. 2 \in 1 .. l /\ 2 # 1
      BY ONLY <1>3, <2>2, SMT
    <3>2. q[2].seq \in Nat /\ Within(q[2].seq, b + k, m - k)
      BY ONLY <1>7, <3>1, Zenon
    <3>3. PICK s : s = q[2].seq
      OBVIOUS
    <3>4. s \in Nat /\ Within(s, b + k, m - k)
      BY ONLY <3>2, <3>3, Zenon
    <3> QED
      BY ONLY <1>5, <1>14, <3>4, b \in Nat, SMT DEF Within
  <2> QED
    BY ONLY <2>1, <2>2, Zenon
<1> QED
  BY ONLY <1>2, <1>8, <1>9, <1>13, <1>14, Zenon

\* All answers to a batch are queued, after what is too old to be taken for one.
AllSent(q, l, q1, c, f, x, a, b, m) ==
    /\ l \in Nat /\ c \in Nat /\ a \in Nat /\ b \in Nat /\ m \in Nat
    /\ Len(q1) = l + c
    /\ f \in [1 .. c -> 1 .. m]
    /\ \A j, k \in 1 .. c : j < k => f[j] < f[k]
    /\ \A i \in 1 .. m : x[a + i] # "silent" => \E j \in 1 .. c : f[j] = i
    /\ \A j \in 1 .. l : q1[j] = q[j] /\ ~Within(q[j].seq, b, m)
    /\ \A j \in 1 .. c : q1[l + j] = [seq |-> b + f[j] - 1, what |-> x[a + f[j]]]

LEMMA WaitSent ==
    ASSUME NEW q, NEW l, NEW q1, NEW c, NEW f, NEW x, NEW a, NEW b, NEW m,
           AllSent(q, l, q1, c, f, x, a, b, m)
    PROVE  Waiting(q1, x, a, b, m)
<1> /\ l \in Nat /\ c \in Nat /\ a \in Nat /\ b \in Nat /\ m \in Nat
    /\ Len(q1) = l + c
    /\ f \in [1 .. c -> 1 .. m]
    /\ \A j, k \in 1 .. c : j < k => f[j] < f[k]
    /\ \A i \in 1 .. m : x[a + i] # "silent" => \E j \in 1 .. c : f[j] = i
    /\ \A j \in 1 .. l : q1[j] = q[j] /\ ~Within(q[j].seq, b, m)
    /\ \A j \in 1 .. c : q1[l + j] = [seq |-> b + f[j] - 1, what |-> x[a + f[j]]]
  BY DEF AllSent
<1>1. ASSUME NEW j \in 1 .. c
      PROVE  /\ f[j] \in 1 .. m
             /\ q1[l + j].seq = b + f[j] - 1 /\ q1[l + j].what = x[a + f[j]]
             /\ Within(q1[l + j].seq, b, m)
             /\ l + j \in 1 .. Len(q1)
  <2>1. f[j] \in 1 .. m
    BY ONLY j \in 1 .. c, f \in [1 .. c -> 1 .. m], Zenon
  <2>2. q1[l + j] = [seq |-> b + f[j] - 1, what |-> x[a + f[j]]]
    BY ONLY j \in 1 .. c,
       \A h \in 1 .. c : q1[l + h] = [seq |-> b + f[h] - 1, what |-> x[a + f[h]]], Zenon
  <2>3. q1[l + j].seq = b + f[j] - 1 /\ q1[l + j].what = x[a + f[j]]
    BY ONLY <2>2, SMT
  <2>4. PICK i : i = f[j]
    OBVIOUS
  <2>5. i \in 1 .. m
    BY ONLY <2>1, <2>4, Zenon
  <2>6. Within(b + i - 1, b, m)
    BY ONLY <2>5, b \in Nat, m \in Nat, SMT DEF Within
  <2>7. l + j \in 1 .. Len(q1)
    BY ONLY j \in 1 .. c, c \in Nat, l \in Nat, Len(q1) = l + c, SMT
  <2> QED
    BY ONLY <2>1, <2>3, <2>4, <2>6, <2>7, Zenon
<1>2. ASSUME NEW j \in 1 .. Len(q1), Within(q1[j].seq, b, m)
      PROVE  \E h \in 1 .. c : j = l + h
  <2>1. j \notin 1 .. l
    BY ONLY <1>2, \A h \in 1 .. l : q1[h] = q[h] /\ ~Within(q[h].seq, b, m), Zenon
  <2>2. j - l \in 1 .. c /\ j = l + (j - l)
    BY ONLY <2>1, j \in 1 .. Len(q1), c \in Nat, l \in Nat, Len(q1) = l + c, SMT
  <2> QED
    BY ONLY <2>2, Zenon
<1>3. ASSUME NEW j \in 1 .. Len(q1), Within(q1[j].seq, b, m)
      PROVE  q1[j].what = x[a + (q1[j].seq - b) + 1]
  <2>1. PICK h \in 1 .. c : j = l + h
    BY ONLY <1>2, <1>3, j \in 1 .. Len(q1), Zenon
  <2>2. PICK i : i = f[h]
    OBVIOUS
  <2>3. i \in 1 .. m /\ q1[j].seq = b + i - 1 /\ q1[j].what = x[a + i]
    BY ONLY <1>1, <2>1, <2>2, Zenon
  <2>4. a + ((b + i - 1) - b) + 1 = a + i
    BY ONLY <2>3, a \in Nat, b \in Nat, m \in Nat, SMT
  <2> QED
    BY ONLY <2>3, <2>4, Zenon
<1>4. ASSUME NEW i \in 1 .. m, x[a + i] # "silent"
      PROVE  \E j \in 1 .. Len(q1) : q1[j].seq = b + i - 1
  <2>1. PICK j \in 1 .. c : f[j] = i
    BY ONLY <1>4, i \in 1 .. m,
       \A h \in 1 .. m : x[a + h] # "silent" => \E j \in 1 .. c : f[j] = h, Zenon
  <2> QED
    BY ONLY <1>1, <2>1, Zenon
<1>5. ASSUME NEW j \in 1 .. Len(q1), NEW k \in 1 .. Len(q1), j < k, Within(q1[j].seq, b, m)
      PROVE  Within(q1[k].seq, b, m) /\ q1[j].seq < q1[k].seq
  <2>1. PICK h \in 1 .. c : j = l + h
    BY ONLY <1>2, <1>5, j \in 1 .. Len(q1), Zenon
  <2>2. /\ k - l \in 1 .. c /\ k = l + (k - l) /\ h < k - l
    BY ONLY <1>5, <2>1, h \in 1 .. c, k \in 1 .. Len(q1), c \in Nat, l \in Nat,
       Len(q1) = l + c, SMT
  <2>3. PICK g \in 1 .. c : g = k - l
    BY ONLY <2>2, Zenon
  <2>4. k = l + g /\ h < g
    BY ONLY <2>2, <2>3, Zenon
  <2>5. PICK i1, i2 : i1 = f[h] /\ i2 = f[g]
    OBVIOUS
  <2>6. i1 \in 1 .. m /\ i2 \in 1 .. m /\ i1 < i2
    BY ONLY <1>1, <2>4, <2>5, h \in 1 .. c, g \in 1 .. c,
       \A j1, k1 \in 1 .. c : j1 < k1 => f[j1] < f[k1], Zenon
  <2>7. b + i1 - 1 < b + i2 - 1
    BY ONLY <2>6, b \in Nat, m \in Nat, SMT
  <2>8. /\ q1[j].seq = b + i1 - 1 /\ q1[k].seq = b + i2 - 1
        /\ Within(q1[k].seq, b, m)
    BY ONLY <1>1, <2>1, <2>4, <2>5, h \in 1 .. c, g \in 1 .. c, Zenon
  <2> QED
    BY ONLY <2>7, <2>8, Zenon
<1> QED
  BY ONLY <1>3, <1>4, <1>5, Zenon DEF Waiting
-----------------------------------------------------------------------------
\* The steps of the one user.

LEMMA QueueSeq ==
    ASSUME TInv, NEW j \in 1 .. Len(queue)
    PROVE  queue[j].seq \in 1 .. SeqLimit + MaxBatch - 1
<1>1. queue \in Seq(AnswerSet)
  BY DEF TInv, Shared
<1>2. queue[j] \in AnswerSet
  BY ONLY <1>1, j \in 1 .. Len(queue), ElementOfSeq, Zenon
<1> QED
  BY ONLY <1>2, Zenon DEF AnswerSet

\* The span is a number, and a fault adds a batch to it.
LEMMA SpanIs ==
    ASSUME TInv
    PROVE  /\ Span \in Nat /\ Span + 2 * MaxBatch < SeqLimit
           /\ faults' = faults + 1 => Span' = Span + MaxBatch
<1>1. faults \in 0 .. MaxFaults
  BY DEF TInv, Shared
<1> QED
  BY ONLY <1>1, Spans, Zenon DEF Span

\* What is done stays right while nothing is added to it.
LEMMA DoneKept ==
    ASSUME TInv, [Next]_vars, NEW t \in Thread, Done(t), pc[t] # "returned",
           at'[t] = at[t], txn'[t] = txn[t], exec[t] \subseteq exec'[t]
    PROVE  Done(t)'
<1>1. \A i \in 1 .. at[t] : res'[t][i] = res[t][i]
  BY ResKept
<1> QED
  BY ONLY <1>1, Done(t), at'[t] = at[t], txn'[t] = txn[t], exec[t] \subseteq exec'[t], Zenon DEF Done

LEMMA StartAlone ==
    ASSUME TInv, NEW t \in Thread, Alone(t), NEW requests \in Batches,
           nl_sock_transact_multiple(t, requests)
    PROVE  Alone(t)'
<1>1. Typed
  BY DEF TInv
<1>2. pc[t] = "returned" /\ queue' = queue /\ overflow' = overflow
  BY DEF nl_sock_transact_multiple
<1>3. queue = <<>> /\ ~overflow
  BY ONLY <1>2, Alone(t), Zenon DEF Alone, Queued
<1>4. pc'[t] = "batch" /\ at'[t] = 0
  BY <1>1 DEF nl_sock_transact_multiple, Typed
<1>5. 1 .. 0 = {} /\ 1 .. Len(<<>>) = {}
  BY ONLY TRUE, SMT
<1>6. Done(t)'
  BY ONLY <1>4, <1>5, Zenon DEF Done
<1>7. Old(next_seq, Span)'
  BY ONLY <1>2, <1>3, <1>5, Zenon DEF Old
<1>8. Queued(t)'
  BY ONLY <1>2, <1>3, <1>4, <1>7, Zenon DEF Queued
<1> QED
  BY ONLY <1>6, <1>8, Zenon DEF Alone

LEMMA LoadAlone ==
    ASSUME TInv, NEW t \in Thread, Alone(t), allocate_seq_load(t)
    PROVE  Alone(t)'
<1>1. Typed /\ Shared
  BY DEF TInv
<1>2. pc[t] = "batch" /\ queue' = queue /\ overflow' = overflow /\ next_seq' = next_seq
      /\ faults' = faults /\ at' = at /\ res' = res /\ txn' = txn /\ exec' = exec
  BY DEF allocate_seq_load
<1>3. Old(next_seq, Span) /\ ~overflow /\ Done(t)
  BY ONLY <1>2, Alone(t), Zenon DEF Alone, Queued
<1>4. PICK count \in 1 .. MaxBatch : n' = [n EXCEPT ![t] = count]
  BY DEF allocate_seq_load
<1>5. pc'[t] = "allocate" /\ base_seq'[t] = next_seq /\ n'[t] = count
  BY <1>1, <1>4 DEF allocate_seq_load, Typed
<1>6. n'[t] >= 1 /\ base_seq'[t] <= SeqLimit - 1
  <2>1. count >= 1
    BY ONLY count \in 1 .. MaxBatch, Constants, SMT
  <2>2. next_seq <= SeqLimit - 1
    BY ONLY <1>1, Constants, SMT DEF Shared
  <2> QED
    BY ONLY <1>5, <2>1, <2>2, Zenon
<1>7. Done(t)'
  BY ONLY <1>2, <1>3, Zenon DEF Done
<1>8. Old(next_seq, Span)'
  BY ONLY <1>2, <1>3, Zenon DEF Old, Span
<1>9. Queued(t)'
  BY ONLY <1>2, <1>3, <1>5, <1>6, <1>8, Zenon DEF Queued
<1> QED
  BY ONLY <1>7, <1>9, Zenon DEF Alone

LEMMA StoreAlone ==
    ASSUME TInv, NEW t \in Thread, Alone(t), allocate_seq_store(t)
    PROVE  Alone(t)'
<1>1. Typed
  BY DEF TInv
<1>2. /\ pc[t] = "allocate" /\ queue' = queue /\ overflow' = overflow /\ faults' = faults
      /\ at' = at /\ res' = res /\ txn' = txn /\ exec' = exec /\ n' = n /\ base_seq' = base_seq
      /\ next_seq' = NextSeq(base_seq[t], n[t])
  BY DEF allocate_seq_store
<1>3. /\ Old(next_seq, Span) /\ ~overflow /\ Done(t) /\ base_seq[t] = next_seq
      /\ base_seq[t] <= SeqLimit - 1 /\ n[t] >= 1
  BY ONLY <1>2, Alone(t), Zenon DEF Alone, Queued
<1>4. pc'[t] = "send"
  BY <1>1 DEF allocate_seq_store, Typed
<1>5. Done(t)'
  BY ONLY <1>2, <1>3, Zenon DEF Done
<1>6. Old(base_seq[t], Span)'
  BY ONLY <1>2, <1>3, Zenon DEF Old, Span
<1>7. next_seq' = NextSeq(base_seq[t], n[t])'
  BY ONLY <1>2, Zenon DEF NextSeq
<1>8. Queued(t)'
  BY ONLY <1>2, <1>3, <1>4, <1>6, <1>7, Zenon DEF Queued
<1> QED
  BY ONLY <1>5, <1>8, Zenon DEF Alone

\* The batch of a thread that sends.
LEMMA SendingIs ==
    ASSUME TInv, NEW t \in Thread, Alone(t), pc[t] = "send"
    PROVE  /\ base_seq[t] \in 1 .. SeqLimit - 1 /\ n[t] \in 1 .. MaxBatch
           /\ Old(base_seq[t], Span) /\ next_seq = NextSeq(base_seq[t], n[t])
           /\ ~overflow /\ Done(t)
<1>1. /\ base_seq[t] <= SeqLimit - 1 /\ n[t] >= 1
      /\ Old(base_seq[t], Span) /\ next_seq = NextSeq(base_seq[t], n[t])
      /\ ~overflow /\ Done(t)
  BY ONLY pc[t] = "send", Alone(t), Zenon DEF Alone, Queued
<1>2. ThreadOK(t) /\ base_seq[t] \in Nat /\ n[t] \in Nat
  BY ThreadTypes
<1>3. base_seq[t] >= 1 /\ n[t] <= MaxBatch
  BY ONLY <1>2, pc[t] = "send", Zenon DEF ThreadOK
<1>4. base_seq[t] \in 1 .. SeqLimit - 1 /\ n[t] \in 1 .. MaxBatch
  <2>1. PICK b, m : b = base_seq[t] /\ m = n[t]
    OBVIOUS
  <2>2. b \in Nat /\ m \in Nat /\ b >= 1 /\ m <= MaxBatch /\ b <= SeqLimit - 1 /\ m >= 1
    BY ONLY <1>1, <1>2, <1>3, <2>1, Zenon
  <2>3. b \in 1 .. SeqLimit - 1 /\ m \in 1 .. MaxBatch
    BY ONLY <2>2, Constants, SMT
  <2> QED
    BY ONLY <2>1, <2>3, Zenon
<1> QED
  BY ONLY <1>1, <1>4, Zenon

\* What was queued before is older still once the batch has its numbers.
LEMMA SendingOld ==
    ASSUME TInv, NEW t \in Thread, Alone(t), pc[t] = "send", NEW j \in 1 .. Len(queue)
    PROVE  /\ Before(queue[j].seq, next_seq, Span + MaxBatch)
           /\ ~Within(queue[j].seq, base_seq[t], n[t])
<1>1. /\ base_seq[t] \in 1 .. SeqLimit - 1 /\ n[t] \in 1 .. MaxBatch
      /\ Old(base_seq[t], Span) /\ next_seq = NextSeq(base_seq[t], n[t])
  BY SendingIs
<1>2. queue[j].seq \in 1 .. SeqLimit + MaxBatch - 1
  BY QueueSeq
<1>3. Span \in Nat /\ Span + 2 * MaxBatch < SeqLimit
  BY SpanIs
<1>4. Before(queue[j].seq, base_seq[t], Span)
  BY ONLY <1>1, j \in 1 .. Len(queue), Zenon DEF Old
<1>5. PICK s, x, c, d : s = queue[j].seq /\ x = base_seq[t] /\ c = n[t] /\ d = Span
  OBVIOUS
<1>6. /\ s \in 1 .. SeqLimit + MaxBatch - 1 /\ x \in 1 .. SeqLimit - 1 /\ c \in 1 .. MaxBatch
      /\ d \in Nat /\ d + 2 * MaxBatch < SeqLimit /\ Before(s, x, d)
  BY ONLY <1>1, <1>2, <1>3, <1>4, <1>5, Zenon
<1>7. Before(s, NextSeq(x, c), d + MaxBatch)
  BY ONLY <1>6, BeforeNext, Zenon
<1>8. ~Within(s, x, c)
  BY ONLY <1>6, BeforeApart, Zenon
<1> QED
  BY ONLY <1>1, <1>5, <1>7, <1>8, Zenon

LEMMA SendFailsAlone ==
    ASSUME TInv, NEW t \in Thread, Alone(t), send_fails(t)
    PROVE  Alone(t)'
<1>1. Typed
  BY DEF TInv
<1>2. /\ pc[t] = "send" /\ queue' = queue /\ overflow' = overflow /\ faults' = faults + 1
      /\ next_seq' = next_seq /\ at' = at /\ txn' = txn /\ exec' = exec
  BY DEF send_fails
<1>3. ~overflow /\ Done(t)
  BY <1>2, SendingIs
<1>4. pc'[t] = "batch"
  BY <1>1 DEF send_fails, Typed
<1>5. Done(t)'
  <2>1. [Next]_vars
    BY DEF Next, Step
  <2>2. pc[t] # "returned"
    BY <1>2
  <2> QED
    BY <1>2, <1>3, <2>1, <2>2, DoneKept
<1>6. Old(next_seq, Span)'
  <2>1. \A j \in 1 .. Len(queue) : Before(queue[j].seq, next_seq, Span + MaxBatch)
    BY <1>2, SendingOld
  <2>2. Span' = Span + MaxBatch
    BY <1>2, SpanIs
  <2> QED
    BY ONLY <1>2, <2>1, <2>2, Zenon DEF Old
<1>7. Queued(t)'
  BY ONLY <1>2, <1>3, <1>4, <1>6, Zenon DEF Queued
<1> QED
  BY ONLY <1>5, <1>7, Zenon DEF Alone

LEMMA SendAlone ==
    ASSUME TInv, NEW t \in Thread, Alone(t), send(t)
    PROVE  Alone(t)'
<1>1. Typed
  BY DEF TInv
<1>2. /\ pc[t] = "send" /\ next_seq' = next_seq /\ txn' = txn /\ res' = res /\ at' = at
      /\ n' = n /\ base_seq' = base_seq
  BY DEF send
<1>3. /\ base_seq[t] \in 1 .. SeqLimit - 1 /\ n[t] \in 1 .. MaxBatch
      /\ next_seq = NextSeq(base_seq[t], n[t]) /\ ~overflow /\ Done(t)
  BY <1>2, SendingIs
<1>4. pc'[t] = "recv" /\ exec'[t] = exec[t] \cup (at[t] + 1 .. at[t] + n[t])
  BY <1>1 DEF send, Typed
<1>5. Done(t)'
  BY ONLY <1>2, <1>3, <1>4, Zenon DEF Done
<1>6. PICK lost, c, f : Sent(t, lost, c, f)
  BY SendIs
<1>7. /\ c \in Nat /\ f \in [1 .. c -> Answered(t) \ lost]
      /\ \A i \in Answered(t) \ lost : \E j \in 1 .. c : f[j] = i
      /\ \A j, k \in 1 .. c : j < k => f[j] < f[k]
      /\ Len(queue') = Len(queue) + c
      /\ \A j \in 1 .. Len(queue) : queue'[j] = queue[j]
      /\ \A j \in 1 .. c : queue'[Len(queue) + j] = Answer(t, f[j])
      /\ overflow' = (overflow \/ lost # {})
      /\ lost # {} => faults' = faults + 1
  BY ONLY <1>6, Zenon DEF Sent
<1>8. Len(queue) \in Nat
  <2>1. queue \in Seq(AnswerSet)
    BY DEF TInv, Shared
  <2> QED
    BY ONLY <2>1, LenProperties, Zenon
<1>9. ASSUME NEW j \in 1 .. c PROVE f[j] \in 1 .. n[t] /\ f[j] \in Answered(t) \ lost
  BY ONLY <1>7, j \in 1 .. c, Zenon DEF Answered
<1>10. ASSUME lost # {} PROVE Old(next_seq, Span)'
  <2>1. Span \in Nat /\ Span' = Span + MaxBatch
    BY <1>7, <1>10, SpanIs
  <2>2. ASSUME NEW j \in 1 .. Len(queue')
        PROVE  Before(queue'[j].seq, next_seq, Span + MaxBatch)
    <3>1. CASE j \in 1 .. Len(queue)
      <4>1. Before(queue[j].seq, next_seq, Span + MaxBatch)
        BY <1>2, <3>1, SendingOld
      <4> QED
        BY ONLY <1>7, <3>1, <4>1, Zenon
    <3>2. CASE j \notin 1 .. Len(queue)
      <4>1. PICK h \in 1 .. c : j = Len(queue) + h
        <5>1. j - Len(queue) \in 1 .. c /\ j = Len(queue) + (j - Len(queue))
          BY ONLY <1>7, <1>8, <3>2, j \in 1 .. Len(queue'), SMT
        <5> QED
          BY ONLY <5>1, Zenon
      <4>2. queue'[j].seq = base_seq[t] + f[h] - 1
        <5>1. queue'[j] = Answer(t, f[h])
          BY ONLY <1>7, <4>1, Zenon
        <5> QED
          BY ONLY <5>1, SMT DEF Answer
      <4>3. PICK d, x, m, i : d = Span /\ x = base_seq[t] /\ m = n[t] /\ i = f[h]
        OBVIOUS
      <4>4. d \in Nat /\ x \in 1 .. SeqLimit - 1 /\ m \in 1 .. MaxBatch /\ i \in 1 .. m
        BY ONLY <1>3, <1>9, <2>1, <4>1, <4>3, Zenon
      <4>5. Before(x + i - 1, NextSeq(x, m), d + MaxBatch)
        BY ONLY <4>4, BeforeOwn, Zenon
      <4> QED
        BY ONLY <1>3, <4>2, <4>3, <4>5, Zenon
    <3> QED
      BY ONLY <3>1, <3>2, Zenon
  <2> QED
    BY ONLY <1>2, <2>1, <2>2, Zenon DEF Old
<1>11. ASSUME lost = {} PROVE Waiting(queue, txn[t], at[t], base_seq[t], n[t])'
  <2>1. PICK x, a, b, m, l, q, q1 :
          /\ x = txn[t] /\ a = at[t] /\ b = base_seq[t] /\ m = n[t] /\ l = Len(queue)
          /\ q = queue /\ q1 = queue'
    OBVIOUS
  <2>2. a \in Nat /\ b \in Nat /\ m \in Nat /\ l \in Nat
    BY <1>8, <2>1, ThreadTypes
  <2>3. f \in [1 .. c -> 1 .. m]
    BY ONLY <1>7, <1>9, <2>1, Zenon
  <2>4. \A i \in 1 .. m : x[a + i] # "silent" => \E j \in 1 .. c : f[j] = i
    BY ONLY <1>7, <1>11, <2>1, Zenon DEF Answered
  <2>5. \A j \in 1 .. l : q1[j] = q[j] /\ ~Within(q[j].seq, b, m)
    BY <1>2, <1>7, <2>1, SendingOld
  <2>6. \A j \in 1 .. c : q1[l + j] = [seq |-> b + f[j] - 1, what |-> x[a + f[j]]]
    BY ONLY <1>7, <2>1, Zenon DEF Answer
  <2>7. c \in Nat /\ Len(q1) = l + c /\ \A j, k \in 1 .. c : j < k => f[j] < f[k]
    BY ONLY <1>7, <2>1, Zenon
  <2>8. Waiting(q1, x, a, b, m)
    <3>1. AllSent(q, l, q1, c, f, x, a, b, m)
      BY ONLY <2>2, <2>3, <2>4, <2>5, <2>6, <2>7, Zenon DEF AllSent
    <3> QED
      BY ONLY <3>1, WaitSent, Zenon
  <2> QED
    BY ONLY <1>2, <2>1, <2>8, Zenon
<1>12. (overflow' => lost # {}) /\ (~overflow' => lost = {})
  BY ONLY <1>3, <1>7, Zenon
<1>13. (at[t] + 1 .. at[t] + n[t] \subseteq exec[t])'
  BY ONLY <1>2, <1>4, Zenon
<1>14. Queued(t)'
  BY ONLY <1>4, <1>10, <1>11, <1>12, <1>13, Zenon DEF Queued
<1> QED
  BY ONLY <1>5, <1>14, Zenon DEF Alone

LEMMA EnobufsAlone ==
    ASSUME TInv, NEW t \in Thread, Alone(t), recv_ENOBUFS(t)
    PROVE  Alone(t)'
<1>1. Typed
  BY DEF TInv
<1>2. /\ pc[t] = "recv" /\ overflow /\ ~overflow' /\ queue' = queue /\ next_seq' = next_seq
      /\ faults' = faults /\ txn' = txn /\ res' = res /\ at' = at /\ exec' = exec
  BY DEF recv_ENOBUFS
<1>3. Old(next_seq, Span) /\ Done(t)
  BY ONLY <1>2, Alone(t), Zenon DEF Alone, Queued
<1>4. pc'[t] = "batch"
  BY <1>1 DEF recv_ENOBUFS, Typed
<1>5. Done(t)'
  BY ONLY <1>2, <1>3, Zenon DEF Done
<1>6. Old(next_seq, Span)'
  BY ONLY <1>2, <1>3, Zenon DEF Old, Span
<1>7. Queued(t)'
  BY ONLY <1>2, <1>4, <1>6, Zenon DEF Queued
<1> QED
  BY ONLY <1>5, <1>7, Zenon DEF Alone

LEMMA UnexpectedAlone ==
    ASSUME TInv, NEW t \in Thread, Alone(t), recv_unexpected(t)
    PROVE  Alone(t)'
<1>1. /\ pc[t] = "recv" /\ ~overflow /\ queue # <<>> /\ ~Matches(t, Head(queue))
      /\ queue' = Tail(queue) /\ overflow' = overflow /\ pc' = pc /\ txn' = txn /\ res' = res
      /\ at' = at /\ exec' = exec /\ n' = n /\ base_seq' = base_seq
  BY DEF recv_unexpected
<1>2. /\ Waiting(queue, txn[t], at[t], base_seq[t], n[t]) /\ Done(t)
      /\ at[t] + 1 .. at[t] + n[t] \subseteq exec[t]
  BY ONLY <1>1, Alone(t), Zenon DEF Alone, Queued
<1>3. Done(t)'
  BY ONLY <1>1, <1>2, Zenon DEF Done
<1>4. Waiting(Tail(queue), txn[t], at[t], base_seq[t], n[t])
  <2>1. queue \in Seq(AnswerSet)
    BY DEF TInv, Shared
  <2>2. at[t] \in Nat /\ base_seq[t] \in Nat /\ n[t] \in Nat
    BY ThreadTypes
  <2>3. Head(queue) = queue[1]
    BY <1>1, HeadIs
  <2>4. ~Within(queue[1].seq, base_seq[t], n[t])
    BY ONLY <1>1, <2>3, Zenon DEF Within, Matches
  <2> QED
    BY ONLY <1>1, <1>2, <2>1, <2>2, <2>4, WaitTail, Zenon
<1>5. Waiting(queue, txn[t], at[t], base_seq[t], n[t])'
  BY ONLY <1>1, <1>4, Zenon
<1>6. (at[t] + 1 .. at[t] + n[t] \subseteq exec[t])'
  BY ONLY <1>1, <1>2, Zenon
<1>7. Queued(t)'
  BY ONLY <1>1, <1>5, <1>6, Zenon DEF Queued
<1> QED
  BY ONLY <1>3, <1>7, Zenon DEF Alone

LEMMA EagainAlone ==
    ASSUME TInv, NEW t \in Thread, Alone(t), recv_EAGAIN(t)
    PROVE  Alone(t)'
<1>1. /\ pc[t] = "recv" /\ ~overflow /\ queue = <<>>
      /\ queue' = queue /\ overflow' = overflow /\ txn' = txn /\ exec' = exec
  BY DEF recv_EAGAIN
<1>2. /\ Waiting(queue, txn[t], at[t], base_seq[t], n[t]) /\ Done(t)
      /\ at[t] + 1 .. at[t] + n[t] \subseteq exec[t]
  BY ONLY <1>1, Alone(t), Zenon DEF Alone, Queued
<1>3. /\ ThreadOK(t) /\ at[t] \in Nat /\ n[t] \in Nat /\ Len(txn[t]) \in Nat
  BY ThreadTypes
<1>4. at[t] + n[t] <= Len(txn[t])
  BY ONLY <1>3, Zenon DEF ThreadOK
<1>5. /\ at'[t] = at[t] + n[t] /\ pc'[t] = After(t, at[t] + n[t], TRUE)
      /\ \A i \in 1 .. Len(txn[t]) :
           res'[t][i] = IF i \in at[t] + 1 .. at[t] + n[t] THEN "ok" ELSE res[t][i]
  BY EagainIs
<1>6. 1 .. Len(<<>>) = {}
  BY ONLY TRUE, SMT
<1>7. \A j \in 1 .. n[t] : txn[t][at[t] + j] = "silent"
  BY ONLY <1>1, <1>2, <1>6, Zenon DEF Waiting
<1>8. Done(t)'
  <2>1. ASSUME NEW i \in 1 .. at[t] + n[t]
        PROVE  res'[t][i] = Result(txn[t][i]) /\ i \in exec[t]
    <3>1. i \in 1 .. Len(txn[t])
      BY ONLY <1>3, <1>4, i \in 1 .. at[t] + n[t], SMT
    <3>2. CASE i \in at[t] + 1 .. at[t] + n[t]
      <4>1. i - at[t] \in 1 .. n[t] /\ at[t] + (i - at[t]) = i
        BY ONLY <1>3, <3>2, SMT
      <4>2. txn[t][i] = "silent"
        BY ONLY <1>7, <4>1, Zenon
      <4> QED
        BY ONLY <1>2, <1>5, <3>1, <3>2, <4>2, ResultIs, Zenon
    <3>3. CASE i \notin at[t] + 1 .. at[t] + n[t]
      <4>1. i \in 1 .. at[t]
        BY ONLY <1>3, <3>1, <3>3, i \in 1 .. at[t] + n[t], SMT
      <4> QED
        BY ONLY <1>2, <1>5, <3>1, <3>3, <4>1, Zenon DEF Done
    <3> QED
      BY ONLY <3>2, <3>3, Zenon
  <2> QED
    BY ONLY <1>1, <1>5, <2>1, Zenon DEF Done
<1>9. pc'[t] \in {"returned", "batch"}
  BY ONLY <1>5, Zenon DEF After
<1>10. Old(next_seq, Span)'
  BY ONLY <1>1, <1>6, Zenon DEF Old
<1>11. Queued(t)'
  BY ONLY <1>1, <1>9, <1>10, Zenon DEF Queued
<1> QED
  BY ONLY <1>8, <1>11, Zenon DEF Alone

LEMMA AnswerAlone ==
    ASSUME TInv, NEW t \in Thread, Alone(t), recv_answer(t)
    PROVE  Alone(t)'
<1>1. /\ pc[t] = "recv" /\ ~overflow /\ queue # <<>>
      /\ queue' = Tail(queue) /\ overflow' = overflow /\ txn' = txn /\ exec' = exec
  BY DEF recv_answer
<1>2. /\ Waiting(queue, txn[t], at[t], base_seq[t], n[t]) /\ Done(t)
      /\ at[t] + 1 .. at[t] + n[t] \subseteq exec[t]
  BY ONLY <1>1, Alone(t), Zenon DEF Alone, Queued
<1>3. /\ ThreadOK(t) /\ at[t] \in Nat /\ n[t] \in Nat /\ base_seq[t] \in Nat
      /\ Len(txn[t]) \in Nat
  BY ThreadTypes
<1>4. at[t] + n[t] <= Len(txn[t])
  BY ONLY <1>3, Zenon DEF ThreadOK
<1>5. PICK k : k = Count(t)
  OBVIOUS
<1>6. /\ k \in 1 .. n[t]
      /\ at'[t] = at[t] + k /\ n'[t] = n[t] - k /\ base_seq'[t] = base_seq[t] + k
      /\ pc'[t] = After(t, at[t] + k, k = n[t])
      /\ \A i \in 1 .. Len(txn[t]) :
           res'[t][i] = IF i = at[t] + k THEN Result(queue[1].what)
                        ELSE IF i \in at[t] + 1 .. at[t] + k THEN "ok"
                        ELSE res[t][i]
  <2>1. /\ Count(t) \in 1 .. n[t]
        /\ at'[t] = at[t] + Count(t) /\ n'[t] = n[t] - Count(t)
        /\ base_seq'[t] = base_seq[t] + Count(t)
        /\ pc'[t] = After(t, at[t] + Count(t), Count(t) = n[t])
        /\ \A i \in 1 .. Len(txn[t]) :
             res'[t][i] = IF i = at[t] + Count(t) THEN Result(queue[1].what)
                          ELSE IF i \in at[t] + 1 .. at[t] + Count(t) THEN "ok"
                          ELSE res[t][i]
    BY ONLY TInv, t \in Thread, recv_answer(t), AnswerStepIs, Zenon
  <2> QED
    BY ONLY <1>5, <2>1, Zenon
<1>7. queue[1].seq = base_seq[t] + k - 1
  <2>1. PICK s, b : s = queue[1].seq /\ b = base_seq[t]
    OBVIOUS
  <2>2. s \in Nat /\ b \in Nat /\ k = s - b + 1
    BY <1>1, <1>3, <1>5, <2>1, HeadIs DEF Count
  <2>3. s = b + k - 1
    BY ONLY <2>2, SMT
  <2> QED
    BY ONLY <2>1, <2>3, Zenon
<1>8. /\ \A i \in 1 .. k - 1 : txn[t][at[t] + i] = "silent"
      /\ queue[1].what = txn[t][at[t] + k]
      /\ Waiting(Tail(queue), txn[t], at[t] + k, base_seq[t] + k, n[t] - k)
      /\ k = n[t] => Tail(queue) = <<>>
  <2>1. queue \in Seq(AnswerSet)
    BY DEF TInv, Shared
  <2>2. PICK x, a, b, m : x = txn[t] /\ a = at[t] /\ b = base_seq[t] /\ m = n[t]
    OBVIOUS
  <2>3. /\ a \in Nat /\ b \in Nat /\ m \in Nat /\ k \in 1 .. m
        /\ Waiting(queue, x, a, b, m) /\ queue[1].seq = b + k - 1
    BY ONLY <1>2, <1>3, <1>6, <1>7, <2>2, Zenon
  <2>4. /\ \A i \in 1 .. k - 1 : x[a + i] = "silent"
        /\ queue[1].what = x[a + k]
        /\ Waiting(Tail(queue), x, a + k, b + k, m - k)
        /\ k = m => Tail(queue) = <<>>
    <3>1. queue # <<>>
      BY ONLY <1>1, Zenon
    <3> QED
      <4>1. Expected(queue, x, a, b, m, k)
        BY ONLY <2>1, <2>3, <3>1, Zenon DEF Expected
      <4> QED
        BY ONLY <4>1, WaitAnswer, Zenon
  <2> QED
    BY ONLY <2>2, <2>4, Zenon
<1>9. Done(t)'
  <2>1. ASSUME NEW i \in 1 .. at[t] + k
        PROVE  res'[t][i] = Result(txn[t][i]) /\ i \in exec[t]
    <3>1. PICK a, m, l : a = at[t] /\ m = n[t] /\ l = Len(txn[t])
      OBVIOUS
    <3>2. /\ a \in Nat /\ m \in Nat /\ l \in Nat /\ a + m <= l /\ k \in 1 .. m
          /\ i \in 1 .. a + k
      BY ONLY <1>3, <1>4, <1>6, <3>1, i \in 1 .. at[t] + k, Zenon
    <3>3. /\ i \in 1 .. l
          /\ i \in a + 1 .. a + k => i \in a + 1 .. a + m /\ a + (i - a) = i
          /\ i \in a + 1 .. a + k /\ i # a + k => i - a \in 1 .. k - 1
          /\ i \notin a + 1 .. a + k => i \in 1 .. a /\ i # a + k
          /\ i = a + k => i \in a + 1 .. a + k
      BY ONLY <3>2, SMT
    <3>4. CASE i = a + k
      <4>1. i \in exec[t]
        BY ONLY <1>2, <3>1, <3>3, <3>4, Zenon
      <4>2. res'[t][i] = Result(queue[1].what)
        BY ONLY <1>6, <3>1, <3>3, <3>4, Zenon
      <4>3. queue[1].what = txn[t][i]
        BY ONLY <1>8, <3>1, <3>4, Zenon
      <4> QED
        BY ONLY <4>1, <4>2, <4>3, Zenon
    <3>5. CASE i # a + k /\ i \in a + 1 .. a + k
      <4>1. i \in exec[t]
        BY ONLY <1>2, <3>1, <3>3, <3>5, Zenon
      <4>2. res'[t][i] = "ok"
        BY ONLY <1>6, <3>1, <3>3, <3>5, Zenon
      <4>3. txn[t][i] = "silent"
        <5>1. txn[t][a + (i - a)] = "silent"
          BY ONLY <1>8, <3>1, <3>3, <3>5, Zenon
        <5> QED
          BY ONLY <3>3, <3>5, <5>1, Zenon
      <4> QED
        BY ONLY <4>1, <4>2, <4>3, ResultIs, Zenon
    <3>6. CASE i \notin a + 1 .. a + k
      <4>1. i \in 1 .. a /\ i # a + k
        BY ONLY <3>3, <3>6, Zenon
      <4>2. res'[t][i] = res[t][i]
        BY ONLY <1>6, <3>1, <3>3, <3>6, <4>1, Zenon
      <4> QED
        BY ONLY <1>2, <3>1, <4>1, <4>2, Zenon DEF Done
    <3> QED
      BY ONLY <3>4, <3>5, <3>6, Zenon
  <2> QED
    BY ONLY <1>1, <1>6, <2>1, Zenon DEF Done
<1>10. (at[t] + 1 .. at[t] + n[t] \subseteq exec[t])'
  <2>1. PICK a, m : a = at[t] /\ m = n[t]
    OBVIOUS
  <2>2. a \in Nat /\ m \in Nat /\ k \in 1 .. m
    BY ONLY <1>3, <1>6, <2>1, Zenon
  <2>3. (a + k) + 1 .. (a + k) + (m - k) \subseteq a + 1 .. a + m
    BY ONLY <2>2, SMT
  <2> QED
    BY ONLY <1>1, <1>2, <1>6, <2>1, <2>3, Zenon
<1>11. Waiting(queue, txn[t], at[t], base_seq[t], n[t])'
  BY ONLY <1>1, <1>6, <1>8, Zenon
<1>12. CASE k = n[t]
  <2>1. pc'[t] \in {"returned", "batch"}
    BY ONLY <1>6, <1>12, Zenon DEF After
  <2>2. queue' = <<>>
    BY ONLY <1>1, <1>8, <1>12, Zenon
  <2>3. 1 .. Len(<<>>) = {}
    BY ONLY TRUE, SMT
  <2>4. Old(next_seq, Span)'
    BY ONLY <2>2, <2>3, Zenon DEF Old
  <2>5. Queued(t)'
    BY ONLY <1>1, <2>1, <2>2, <2>4, Zenon DEF Queued
  <2> QED
    BY ONLY <1>9, <2>5, Zenon DEF Alone
<1>13. CASE k # n[t]
  <2>1. at[t] + k # Len(txn[t])
    BY ONLY <1>3, <1>4, <1>6, <1>13, SMT
  <2>2. pc'[t] = "recv"
    BY ONLY <1>6, <1>13, <2>1, Zenon DEF After
  <2>3. Queued(t)'
    BY ONLY <1>1, <1>10, <1>11, <2>2, Zenon DEF Queued
  <2> QED
    BY ONLY <1>9, <2>3, Zenon DEF Alone
<1> QED
  BY ONLY <1>12, <1>13, Zenon

LEMMA AloneInit ==
    ASSUME Init, NEW t \in Thread PROVE Alone(t)
<1>1. pc[t] = "returned" /\ at[t] = 0 /\ queue = <<>> /\ ~overflow
  BY DEF Init
<1>2. 1 .. 0 = {}
  BY ONLY TRUE, SMT
<1>3. Done(t)
  BY ONLY <1>1, <1>2, Zenon DEF Done
<1>4. Queued(t)
  BY ONLY <1>1, Zenon DEF Queued
<1> QED
  BY ONLY <1>3, <1>4, Zenon DEF Alone

LEMMA AloneNext ==
    ASSUME NEW t, Thread = {t}, TInv, Alone(t), [Next]_vars
    PROVE  Alone(t)'
<1>1. t \in Thread /\ \A u \in Thread : u = t
  OBVIOUS
<1>2. CASE UNCHANGED vars
  <2>1. /\ pc' = pc /\ txn' = txn /\ res' = res /\ exec' = exec /\ at' = at /\ n' = n
        /\ base_seq' = base_seq /\ next_seq' = next_seq
        /\ overflow' = overflow /\ faults' = faults /\ queue' = queue
    BY ONLY <1>2, Zenon DEF vars
  <2>2. Done(t)'
    BY ONLY <2>1, Alone(t), Zenon DEF Alone, Done
  <2>3. (Old(next_seq, Span) <=> Old(next_seq, Span)')
        /\ (Old(base_seq[t], Span) <=> Old(base_seq[t], Span)')
    BY ONLY <2>1, Zenon DEF Old, Span
  <2>4. Queued(t)'
    BY ONLY <2>1, <2>3, Alone(t), Zenon DEF Alone, Queued
  <2> QED
    BY ONLY <2>2, <2>4, Zenon DEF Alone
<1>3. ASSUME NEW requests \in Batches, nl_sock_transact_multiple(t, requests) PROVE Alone(t)'
  BY <1>1, <1>3, StartAlone
<1>4. ASSUME Step(t) PROVE Alone(t)'
  BY <1>1, <1>4, LoadAlone, StoreAlone, SendFailsAlone, SendAlone, EnobufsAlone, EagainAlone,
     UnexpectedAlone, AnswerAlone DEF Step
<1> QED
  BY <1>1, <1>2, <1>3, <1>4 DEF Next

LEMMA AloneRight ==
    ASSUME NEW t, Thread = {t}, TInv, Alone(t)
    PROVE  TransactRight
<1>1. ASSUME pc[t] = "returned", NEW i \in DOMAIN txn[t]
      PROVE  res[t][i] = Result(txn[t][i]) /\ i \in exec[t]
  <2>1. ThreadOK(t) /\ DOMAIN txn[t] = 1 .. Len(txn[t])
    BY ThreadTypes
  <2>2. at[t] = Len(txn[t])
    BY ONLY <1>1, <2>1, Zenon DEF ThreadOK
  <2> QED
    BY ONLY <2>1, <2>2, i \in DOMAIN txn[t], Alone(t), Zenon DEF Alone, Done
<1> QED
  BY <1>1 DEF TransactRight

\* A socket that one thread uses, which genl_sock is not: whatever answers the
\* kernel drops, however the requests are cut into batches and however often
\* what is left is sent again, nl_sock_transact_multiple returns what the kernel
\* did with every request.  An answer that an earlier batch left in the queue is
\* never taken for one of this batch, since its number was given out less than
\* a whole round of numbers ago.
THEOREM OneCallerIsRight ==
    ASSUME NEW t, Thread = {t}
    PROVE  Spec => []TransactRight
<1>1. Init => TInv /\ Alone(t)
  BY TInvInit, AloneInit
<1>2. TInv /\ Alone(t) /\ [Next]_vars => TInv' /\ Alone(t)'
  BY TInvNext, AloneNext
<1>3. TInv /\ Alone(t) => TransactRight
  BY AloneRight
<1> QED
  BY <1>1, <1>2, <1>3, PTL DEF Spec
=============================================================================
