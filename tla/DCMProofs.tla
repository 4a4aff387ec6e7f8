----------------------------- MODULE DCMProofs ------------------------------
(***************************************************************************)
(* Every OUTPUT flow is paired with the flow of the answers (FlowsPaired), *)
(* for any hosts, ports and streams, and however long the queues get.      *)
(*                                                                         *)
(* FlowsPaired is not inductive: a flow that is under way to the switch    *)
(* must be paired by the time it arrives.  The two flows that DCM writes   *)
(* for a packet stay neighbours on their way, and between the arrivals of  *)
(* the first and the second the first is there or its end is reported.     *)
(***************************************************************************)
EXTENDS DCM, FiniteSetTheorems, SequenceTheorems, TLAPS

USE Zenon

UpMessage == [type : {"PACKET_IN", "FLOW_REMOVED"}, src : Host, dst : Host, in : Port]

Add == [type : {"ADD"}, flow : Flow]
Delete == [type : {"DELETE"}, src : Host, dst : Host, out : Port]
DownMessage == Add \cup Delete \cup {ClearAll}

Typed ==
    /\ loc \in [Host -> Port]
    /\ ports \in [Host -> Port \cup {None}]
    /\ flows \subseteq Flow
    /\ IsFiniteSet(flows)
    /\ up \in Seq(UpMessage)
    /\ down \in Seq(DownMessage)
    /\ conn \in BOOLEAN
    /\ \A f, g \in flows : SameMatch(f, g) => f = g

\* The parts of Paired, as sets of messages.
Flown(f, F) == \E g \in F : Matches(g, f.dst, f.src, f.out)
Coming(f, D) == \E m \in D : m.type = "ADD" /\ Matches(m.flow, f.dst, f.src, f.out)
Reported(f, U) == \E m \in U : m.type = "FLOW_REMOVED" /\ Matches(m, f.dst, f.src, f.out)
Doomed(f, D) == OFPFC_DELETE(f.src, f.dst, f.out) \in D \/ ClearAll \in D
PairedIn(f, F, U, D, c) == Flown(f, F) \/ Coming(f, D) \/ Reported(f, U) \/ Doomed(f, D) \/ ~c

\* A neighbour in the queue that is the flow of the answers.
Answers(m, f) == m.type = "ADD" /\ Matches(m.flow, f.dst, f.src, f.out)

\* The i-th message of queue d, if it adds an OUTPUT flow, has its pair beside it,
\* or it is the first and its pair has arrived.
QueuedPaired(i, F, U, d, c) ==
    d[i].type = "ADD" /\ ~d[i].flow.remote =>
        \/ i < Len(d) /\ Answers(d[i + 1], d[i].flow)
        \/ i > 1 /\ Answers(d[i - 1], d[i].flow)
        \/ i = 1 /\ PairedIn(d[i].flow, F, U, Range(d), c)

AllPaired(F, U, d, c) ==
    /\ \A f \in F : ~f.remote => PairedIn(f, F, U, Range(d), c)
    /\ \A i \in 1 .. Len(d) : QueuedPaired(i, F, U, d, c)

IInv == Typed /\ AllPaired(flows, Range(up), down, conn)
-----------------------------------------------------------------------------
\* Queues.

\* A queue holds its head and what its tail holds.
LEMMA TailRange ==
    ASSUME NEW S, NEW s \in Seq(S), s # <<>>
    PROVE  /\ Head(s) = s[1]
           /\ Range(s) = {Head(s)} \cup Range(Tail(s))
<1>1. /\ Len(s) \in Nat \ {0} /\ DOMAIN s = 1 .. Len(s)
      /\ Tail(s) \in Seq(S) /\ Len(Tail(s)) = Len(s) - 1
      /\ DOMAIN Tail(s) = 1 .. Len(s) - 1
      /\ \A i \in 1 .. Len(s) - 1 : Tail(s)[i] = s[i + 1]
  BY EmptySeq, LenProperties, HeadTailProperties
<1>2. Head(s) = s[1]
  BY ONLY <1>1, SMT
<1>3. ASSUME NEW i \in DOMAIN s PROVE s[i] \in {Head(s)} \cup Range(Tail(s))
  <2>1. CASE i = 1
    BY <1>2, <2>1
  <2>2. CASE i # 1
    <3>1. i - 1 \in DOMAIN Tail(s) /\ Tail(s)[i - 1] = s[i]
      BY ONLY <1>1, <2>2, SMT
    <3> QED
      BY <3>1 DEF Range
  <2> QED
    BY <2>1, <2>2
<1>4. ASSUME NEW i \in DOMAIN Tail(s) PROVE Tail(s)[i] \in Range(s)
  <2>1. i + 1 \in DOMAIN s /\ Tail(s)[i] = s[i + 1]
    BY ONLY <1>1, SMT
  <2> QED
    BY <2>1 DEF Range
<1>5. Head(s) \in Range(s)
  BY ONLY <1>1, <1>2, SMT DEF Range
<1> QED
  BY <1>2, <1>3, <1>4, <1>5, Zenon DEF Range

\* What is appended is added to what a queue holds.
LEMMA ConcatRange ==
    ASSUME NEW S, NEW s \in Seq(S), NEW t \in Seq(S)
    PROVE  Range(s \o t) = Range(s) \cup Range(t)
<1>1. /\ Len(s) \in Nat /\ DOMAIN s = 1 .. Len(s)
      /\ Len(t) \in Nat /\ DOMAIN t = 1 .. Len(t)
      /\ DOMAIN (s \o t) = 1 .. Len(s) + Len(t)
      /\ \A i \in 1 .. Len(s) + Len(t) :
            (s \o t)[i] = IF i <= Len(s) THEN s[i] ELSE t[i - Len(s)]
  BY ONLY LenProperties, ConcatProperties, SMT
<1>2. ASSUME NEW i \in DOMAIN (s \o t) PROVE (s \o t)[i] \in Range(s) \cup Range(t)
  <2>1. CASE i <= Len(s)
    BY ONLY <1>1, <2>1, SMT DEF Range
  <2>2. CASE ~(i <= Len(s))
    <3>1. i - Len(s) \in DOMAIN t /\ (s \o t)[i] = t[i - Len(s)]
      BY ONLY <1>1, <2>2, SMT
    <3> QED
      BY <3>1 DEF Range
  <2> QED
    BY <2>1, <2>2
<1>3. ASSUME NEW i \in DOMAIN s PROVE s[i] \in Range(s \o t)
  <2>1. i \in DOMAIN (s \o t) /\ (s \o t)[i] = s[i]
    BY ONLY <1>1, SMT
  <2> QED
    BY <2>1 DEF Range
<1>4. ASSUME NEW i \in DOMAIN t PROVE t[i] \in Range(s \o t)
  <2>1. Len(s) + i \in DOMAIN (s \o t) /\ (s \o t)[Len(s) + i] = t[i]
    BY ONLY <1>1, SMT
  <2> QED
    BY <2>1 DEF Range
<1> QED
  BY <1>2, <1>3, <1>4 DEF Range
-----------------------------------------------------------------------------
\* What the steps do to the pairs.

\* The head of a queue moves on, and its tail is what it was.
LEMMA TailQueue ==
    ASSUME NEW d \in Seq(DownMessage), d # <<>>
    PROVE  /\ Len(d) \in Nat \ {0} /\ Len(Tail(d)) = Len(d) - 1
           /\ Tail(d) \in Seq(DownMessage)
           /\ d[1] = Head(d) /\ d[1] \in DownMessage
           /\ \A i \in 1 .. Len(d) - 1 : Tail(d)[i] = d[i + 1] /\ d[i + 1] \in Range(Tail(d))
           /\ Range(d) = {d[1]} \cup Range(Tail(d))
<1>1. /\ Len(d) \in Nat \ {0} /\ Len(Tail(d)) = Len(d) - 1 /\ Tail(d) \in Seq(DownMessage)
      /\ \A i \in 1 .. Len(d) - 1 : Tail(d)[i] = d[i + 1]
      /\ Head(d) \in DownMessage
  BY EmptySeq, LenProperties, HeadTailProperties
<1>2. \A i \in 1 .. Len(d) - 1 : Tail(d)[i] \in Range(Tail(d))
  BY <1>1, LenProperties DEF Range
<1> QED
  BY <1>1, <1>2, TailRange

\* When the head has been handled, the messages behind it keep their neighbours;
\* it remains to see to the one that is first now, if it was the head's.
LEMMA QueueMoves ==
    ASSUME NEW F, NEW U, NEW G, NEW V, NEW c, NEW d \in Seq(DownMessage), d # <<>>,
           \A i \in 1 .. Len(d) : QueuedPaired(i, F, U, d, c),
           Len(d) > 1 /\ d[2].type = "ADD" /\ Answers(d[1], d[2].flow)
               => PairedIn(d[2].flow, G, V, Range(Tail(d)), c)
    PROVE  \A i \in 1 .. Len(Tail(d)) : QueuedPaired(i, G, V, Tail(d), c)
<1> DEFINE e == Tail(d)
<1>1. /\ Len(d) \in Nat \ {0} /\ Len(e) = Len(d) - 1
      /\ \A i \in 1 .. Len(d) - 1 : e[i] = d[i + 1]
  BY TailQueue
<1> HIDE DEF e
<1>2. SUFFICES ASSUME NEW i \in 1 .. Len(e), e[i].type = "ADD", ~e[i].flow.remote
               PROVE  \/ i < Len(e) /\ Answers(e[i + 1], e[i].flow)
                      \/ i > 1 /\ Answers(e[i - 1], e[i].flow)
                      \/ i = 1 /\ PairedIn(e[i].flow, G, V, Range(e), c)
  BY DEF QueuedPaired, e
<1>3. /\ i + 1 \in 1 .. Len(d) /\ i + 1 > 1 /\ i + 1 - 1 = i /\ e[i] = d[i + 1]
  BY ONLY <1>1, SMT
<1>4. \/ i + 1 < Len(d) /\ Answers(d[i + 2], d[i + 1].flow)
      \/ Answers(d[i], d[i + 1].flow)
  <2>1. QueuedPaired(i + 1, F, U, d, c)
    BY <1>3
  <2> QED
    BY ONLY <2>1, <1>2, <1>3, SMT DEF QueuedPaired
<1>5. CASE i + 1 < Len(d) /\ Answers(d[i + 2], d[i + 1].flow)
  BY ONLY <1>1, <1>3, <1>5, SMT
<1>6. CASE Answers(d[i], d[i + 1].flow) /\ i > 1
  <2>1. e[i - 1] = d[i]
    BY ONLY <1>1, <1>6, SMT
  <2> QED
    BY <2>1, <1>3, <1>6, Zenon
<1>7. CASE Answers(d[i], d[i + 1].flow) /\ i = 1
  <2>1. d[i + 1] = d[2] /\ Len(d) > 1
    BY ONLY <1>1, <1>3, <1>7, SMT
  <2>2. d[2].type = "ADD" /\ Answers(d[1], d[2].flow)
    BY <1>2, <1>3, <1>7, <2>1, Zenon
  <2> QED
    BY <1>3, <1>7, <2>1, <2>2, Zenon DEF e
<1> QED
  BY ONLY <1>4, <1>5, <1>6, <1>7, SMT

\* add_flow: the flow that is added brings its pair, or has it; the one it
\* replaces was a pair of the same flows.
LEMMA AddStep ==
    ASSUME NEW F, NEW U, NEW c, NEW d \in Seq(DownMessage), d # <<>>, d[1].type = "ADD",
           AllPaired(F, U, d, c), NEW G,
           G = {f \in F : ~SameMatch(f, d[1].flow)} \cup {d[1].flow}
    PROVE  AllPaired(G, U, Tail(d), c)
<1> DEFINE D == Range(Tail(d))
<1>1. Range(d) = {d[1]} \cup D
  BY TailQueue
<1>2. Len(d) \in Nat \ {0} /\ \A i \in 1 .. Len(d) - 1 : d[i + 1] \in D
  BY TailQueue
<1> HIDE DEF D
<1>3. ASSUME NEW f, PairedIn(f, F, U, Range(d), c)
      PROVE  PairedIn(f, G, U, D, c)
  <2>1. CASE Flown(f, F)
    <3>1. Flown(f, G)
      BY <2>1 DEF Flown, Matches, SameMatch
    <3> QED
      BY <3>1 DEF PairedIn
  <2>2. CASE Coming(f, Range(d))
    <3>1. Coming(f, D) \/ Flown(f, G)
      BY <2>2, <1>1 DEF Coming, Flown
    <3> QED
      BY <3>1 DEF PairedIn
  <2>3. CASE Doomed(f, Range(d))
    <3>1. d[1] # OFPFC_DELETE(f.src, f.dst, f.out) /\ d[1] # ClearAll
      BY SMT DEF OFPFC_DELETE, ClearAll
    <3>2. Doomed(f, D)
      BY <2>3, <3>1, <1>1, Zenon DEF Doomed
    <3> QED
      BY <3>2 DEF PairedIn
  <2> QED
    BY <1>3, <2>1, <2>2, <2>3, Zenon DEF PairedIn
<1>4. ASSUME ~d[1].flow.remote PROVE PairedIn(d[1].flow, G, U, D, c)
  <2>1. QueuedPaired(1, F, U, d, c)
    <3>1. 1 \in 1 .. Len(d)
      BY ONLY <1>2, SMT
    <3> QED
      BY <3>1, Zenon DEF AllPaired
  <2>2. CASE 1 < Len(d) /\ Answers(d[1 + 1], d[1].flow)
    <3>0. d[1 + 1] \in D
      BY ONLY <2>2, <1>2, SMT
    <3>1. Coming(d[1].flow, D)
      BY <2>2, <3>0 DEF Coming, Answers
    <3> QED
      BY <3>1 DEF PairedIn
  <2>3. CASE PairedIn(d[1].flow, F, U, Range(d), c)
    BY <2>3, <1>3
  <2> QED
    <3>1. ~(1 > 1)
      BY ONLY TRUE, SMT
    <3> QED
      BY <1>4, <2>1, <2>2, <2>3, <3>1, Zenon DEF QueuedPaired
<1>5. \A f \in G : ~f.remote => PairedIn(f, G, U, D, c)
  BY <1>3, <1>4 DEF AllPaired
<1>6. d[2].type = "ADD" /\ Answers(d[1], d[2].flow) => PairedIn(d[2].flow, G, U, D, c)
  BY DEF Answers, PairedIn, Flown
<1>7. \A i \in 1 .. Len(Tail(d)) : QueuedPaired(i, G, U, Tail(d), c)
  BY <1>6, QueueMoves DEF AllPaired, D
<1> QED
  BY <1>5, <1>7 DEF AllPaired, D

\* delete_flows_loose: a flow whose pair is deleted has the report of it.
LEMMA DeleteStep ==
    ASSUME NEW F, NEW U, NEW c, NEW d \in Seq(DownMessage), d # <<>>, d[1].type # "ADD",
           AllPaired(F, U, d, c), NEW R, NEW V, U \subseteq V,
           \A f \in R : OFPT_FLOW_REMOVED(f) \in V,
           d[1] = ClearAll => F \subseteq R,
           \A f \in F : d[1] = OFPFC_DELETE(f.src, f.dst, f.out) => f \in R
    PROVE  AllPaired(F \ R, V, Tail(d), c)
<1> DEFINE D == Range(Tail(d))
<1>1. Range(d) = {d[1]} \cup D
  BY TailQueue
<1> HIDE DEF D
<1>2. ASSUME NEW f \in F \ R, ~f.remote PROVE PairedIn(f, F \ R, V, D, c)
  <2>1. PairedIn(f, F, U, Range(d), c)
    BY <1>2 DEF AllPaired
  <2>2. CASE Flown(f, F)
    <3>1. PICK g \in F : Matches(g, f.dst, f.src, f.out)
      BY <2>2 DEF Flown
    <3>2. CASE g \in R
      <4>1. OFPT_FLOW_REMOVED(g) \in V
        BY <3>2
      <4>2. Reported(f, V)
        BY <3>1, <4>1 DEF Reported, OFPT_FLOW_REMOVED, Matches
      <4> QED
        BY <4>2 DEF PairedIn
    <3>3. CASE g \notin R
      BY <3>1, <3>3 DEF PairedIn, Flown
    <3> QED
      BY <3>2, <3>3
  <2>3. CASE Coming(f, Range(d))
    BY <2>3, <1>1 DEF Coming, PairedIn
  <2>4. CASE Reported(f, U)
    BY <2>4 DEF Reported, PairedIn
  <2>5. CASE Doomed(f, Range(d))
    BY <2>5, <1>1, <1>2, Zenon DEF Doomed, PairedIn
  <2> QED
    BY <2>1, <2>2, <2>3, <2>4, <2>5, Zenon DEF PairedIn
<1>3. \A i \in 1 .. Len(Tail(d)) : QueuedPaired(i, F \ R, V, Tail(d), c)
  <2>1. \A f : ~Answers(d[1], f)
    BY DEF Answers
  <2> QED
    BY <2>1, QueueMoves DEF AllPaired
<1> QED
  BY <1>2, <1>3 DEF AllPaired, D

\* The controller appends: nothing, a flow for a remote host, two flows that are
\* each other's pair, or the deletion of the flow whose pair was reported.
LEMMA AppendStep ==
    ASSUME NEW F, NEW U, NEW c, NEW d \in Seq(DownMessage), NEW e \in Seq(DownMessage),
           AllPaired(F, U, d, c), NEW V,
           \A f : Reported(f, U) => Reported(f, V) \/ Doomed(f, Range(e)),
           \A i \in 1 .. Len(e) : e[i].type = "ADD" /\ ~e[i].flow.remote =>
               \/ i < Len(e) /\ Answers(e[i + 1], e[i].flow)
               \/ i > 1 /\ Answers(e[i - 1], e[i].flow)
    PROVE  AllPaired(F, V, d \o e, c)
<1> DEFINE q == d \o e
<1>1. /\ Len(d) \in Nat /\ Len(e) \in Nat /\ Len(q) = Len(d) + Len(e)
      /\ \A i \in 1 .. Len(d) + Len(e) : q[i] = IF i <= Len(d) THEN d[i] ELSE e[i - Len(d)]
  BY LenProperties, ConcatProperties
<1>0. Len(d) \in Nat /\ Len(e) \in Nat /\ Len(q) = Len(d) + Len(e)
  BY <1>1, Zenon
<1>2. Range(q) = Range(d) \cup Range(e)
  BY ONLY ConcatRange, SMT
<1> HIDE DEF q
<1>3. ASSUME NEW f, PairedIn(f, F, U, Range(d), c) PROVE PairedIn(f, F, V, Range(q), c)
  <2>1. Coming(f, Range(d)) => Coming(f, Range(q))
    BY <1>2 DEF Coming
  <2>2. Doomed(f, Range(d)) \/ Doomed(f, Range(e)) => Doomed(f, Range(q))
    BY <1>2 DEF Doomed
  <2> QED
    BY <1>3, <2>1, <2>2, Zenon DEF PairedIn
<1>4. ASSUME NEW i \in 1 .. Len(q) PROVE QueuedPaired(i, F, V, q, c)
  <2>1. CASE i <= Len(d)
    <3>1. /\ i \in 1 .. Len(d) /\ q[i] = d[i]
          /\ i < Len(d) => i < Len(q) /\ q[i + 1] = d[i + 1]
          /\ i > 1 => q[i - 1] = d[i - 1]
      <4>1. /\ i \in 1 .. Len(d) /\ i \in 1 .. Len(d) + Len(e)
            /\ i < Len(d) => i < Len(q) /\ i + 1 \in 1 .. Len(d) + Len(e) /\ i + 1 <= Len(d)
            /\ i > 1 => i - 1 \in 1 .. Len(d) + Len(e) /\ i - 1 <= Len(d)
        BY ONLY <1>0, <2>1, SMT
      <4> QED
        BY <1>1, <2>1, <4>1, Zenon
    <3>2. QueuedPaired(i, F, U, d, c)
      BY <3>1 DEF AllPaired
    <3>3. PairedIn(d[i].flow, F, U, Range(d), c) => PairedIn(d[i].flow, F, V, Range(q), c)
      BY <1>3
    <3> QED
      BY <3>1, <3>2, <3>3, Zenon DEF QueuedPaired
  <2>2. CASE ~(i <= Len(d))
    <3> DEFINE k == i - Len(d)
    <3>1. /\ k \in 1 .. Len(e) /\ q[i] = e[k]
          /\ k < Len(e) => i < Len(q) /\ q[i + 1] = e[k + 1]
          /\ k > 1 => i > 1 /\ q[i - 1] = e[k - 1]
      <4>1. /\ k \in 1 .. Len(e) /\ i \in 1 .. Len(d) + Len(e)
            /\ k < Len(e) => /\ i < Len(q) /\ i + 1 \in 1 .. Len(d) + Len(e)
                             /\ ~(i + 1 <= Len(d)) /\ i + 1 - Len(d) = k + 1
            /\ k > 1 => /\ i > 1 /\ i - 1 \in 1 .. Len(d) + Len(e)
                        /\ ~(i - 1 <= Len(d)) /\ i - 1 - Len(d) = k - 1
        BY ONLY <1>0, <2>2, SMT
      <4>2. q[i] = e[k]
        BY <1>1, <2>2, <4>1, Zenon
      <4>3. k < Len(e) => q[i + 1] = e[k + 1]
        BY ONLY <1>1, <2>2, SMT
      <4>4. k > 1 => q[i - 1] = e[k - 1]
        BY <1>1, <4>1, Zenon
      <4> QED
        BY <4>1, <4>2, <4>3, <4>4, Zenon
    <3> HIDE DEF k
    <3>2. e[k].type = "ADD" /\ ~e[k].flow.remote =>
              \/ k < Len(e) /\ Answers(e[k + 1], e[k].flow)
              \/ k > 1 /\ Answers(e[k - 1], e[k].flow)
      BY <3>1
    <3> QED
      BY <3>1, <3>2 DEF QueuedPaired
  <2> QED
    BY <2>1, <2>2
<1> QED
  BY <1>3, <1>4 DEF AllPaired, q

\* rule_expire: the flow that goes is reported, or nobody is connected.
LEMMA ExpireStep ==
    ASSUME NEW F, NEW U, NEW c, NEW d, AllPaired(F, U, d, c), NEW g \in F,
           NEW V, U \subseteq V, c => OFPT_FLOW_REMOVED(g) \in V
    PROVE  AllPaired(F \ {g}, V, d, c)
<1>1. ASSUME NEW f, PairedIn(f, F, U, Range(d), c)
      PROVE  PairedIn(f, F \ {g}, V, Range(d), c)
  <2>1. CASE Flown(f, F)
    <3>1. CASE Matches(g, f.dst, f.src, f.out) /\ c
      <4>1. Reported(f, V)
        BY <3>1 DEF Reported, OFPT_FLOW_REMOVED, Matches
      <4> QED
        BY <4>1 DEF PairedIn
    <3>2. CASE ~Matches(g, f.dst, f.src, f.out)
      BY <2>1, <3>2 DEF Flown, PairedIn
    <3> QED
      BY <3>1, <3>2 DEF PairedIn
  <2>2. CASE Reported(f, U)
    BY <2>2 DEF Reported, PairedIn
  <2> QED
    BY <1>1, <2>1, <2>2 DEF PairedIn
<1> QED
  BY <1>1 DEF AllPaired, QueuedPaired
-----------------------------------------------------------------------------
\* The specification.

\* The flows of processPacketInMessage are messages, and each other's pair.
LEMMA FlowsAreMessages ==
    ASSUME NEW src \in Host, NEW dst \in Host, NEW in \in Port, NEW out \in Port
    PROVE  LET e == FlowsBetween(src, dst, in, out)
           IN  /\ e \in Seq(DownMessage) /\ Len(e) = 2
               /\ Answers(e[2], e[1].flow) /\ Answers(e[1], e[2].flow)
<1> DEFINE f == [src |-> src, dst |-> dst, in |-> in, out |-> out, remote |-> FALSE]
           g == [src |-> dst, dst |-> src, in |-> out, out |-> in, remote |-> FALSE]
<1>1. OFPFC_ADD(f) \in DownMessage /\ OFPFC_ADD(g) \in DownMessage
  BY DEF OFPFC_ADD, DownMessage, Add, Flow
<1>2. FlowsBetween(src, dst, in, out) = <<OFPFC_ADD(f), OFPFC_ADD(g)>>
  BY DEF FlowsBetween
<1>3. Answers(OFPFC_ADD(g), OFPFC_ADD(f).flow) /\ Answers(OFPFC_ADD(f), OFPFC_ADD(g).flow)
  BY DEF Answers, Matches, OFPFC_ADD
<1> HIDE DEF f, g
<1> QED
  BY ONLY <1>1, <1>2, <1>3, SMT

\* The flow for a remote host is a message the controller may send.
LEMMA RemoteIsMessage ==
    ASSUME NEW src \in Host, NEW dst \in Host, NEW in \in Port
    PROVE  LET e == RemoteFlow(src, dst, in)
           IN  e \in Seq(DownMessage) /\ Len(e) = 1 /\ e[1].flow.remote
BY ONLY DCMAssumption, SMT DEF RemoteFlow, OFPFC_ADD, DownMessage, Add, Flow

\* A report that is not the head of a queue stays in it.
LEMMA ReportStays ==
    ASSUME NEW u \in Seq(UpMessage), u # <<>>, NEW f, Reported(f, Range(u))
    PROVE  \/ Reported(f, Range(Tail(u)))
           \/ Head(u).type = "FLOW_REMOVED" /\ Matches(Head(u), f.dst, f.src, f.out)
BY TailRange DEF Reported

\* processPacketInMessage keeps the invariant.
LEMMA PacketInKeeps ==
    IInv /\ processPacketInMessage => IInv'
<1> SUFFICES ASSUME IInv, processPacketInMessage PROVE IInv'
  OBVIOUS
<1> DEFINE m == Head(up)
           out == ports'[m.dst]
           e == IF out \notin {None, m.in} THEN FlowsBetween(m.src, m.dst, m.in, out)
                ELSE IF out = None /\ m.dst \in Remote THEN RemoteFlow(m.src, m.dst, m.in)
                ELSE <<>>
<1>1. /\ up # <<>> /\ m.type = "PACKET_IN"
      /\ ports' = [ports EXCEPT ![m.src] = m.in]
      /\ down' = down \o e /\ up' = Tail(up)
      /\ UNCHANGED <<loc, flows, conn>>
  BY DEF processPacketInMessage
<1>2. m \in UpMessage /\ Tail(up) \in Seq(UpMessage)
  BY <1>1, HeadTailProperties DEF IInv, Typed
<1>3. m.src \in Host /\ m.dst \in Host /\ m.in \in Port
  BY <1>2, Zenon DEF UpMessage
<1>4. ports' \in [Host -> Port \cup {None}] /\ out \in Port \cup {None}
  BY <1>1, <1>3 DEF IInv, Typed
<1>5. /\ e \in Seq(DownMessage)
      /\ \A i \in 1 .. Len(e) : e[i].type = "ADD" /\ ~e[i].flow.remote =>
             \/ i < Len(e) /\ Answers(e[i + 1], e[i].flow)
             \/ i > 1 /\ Answers(e[i - 1], e[i].flow)
  <2>1. CASE out \notin {None, m.in}
    <3> DEFINE b == FlowsBetween(m.src, m.dst, m.in, out)
    <3>1. e = b /\ out \in Port
      BY <2>1, <1>4
    <3>2. /\ b \in Seq(DownMessage) /\ Len(b) = 2
          /\ Answers(b[2], b[1].flow) /\ Answers(b[1], b[2].flow)
      BY <3>1, <1>3, FlowsAreMessages
    <3> HIDE DEF e, b
    <3> QED
      BY ONLY <3>1, <3>2, SMT
  <2>2. CASE out \in {None, m.in} /\ out = None /\ m.dst \in Remote
    <3> DEFINE b == RemoteFlow(m.src, m.dst, m.in)
    <3>1. e = b
      BY <2>2
    <3>2. b \in Seq(DownMessage) /\ Len(b) = 1 /\ b[1].flow.remote
      BY <1>3, RemoteIsMessage
    <3> HIDE DEF e, b
    <3> QED
      BY ONLY <3>1, <3>2, SMT
  <2>3. CASE out \in {None, m.in} /\ ~(out = None /\ m.dst \in Remote)
    <3>1. e = <<>>
      BY <2>3
    <3> HIDE DEF e
    <3> QED
      BY ONLY <3>1, SMT
  <2> QED
    BY <2>1, <2>2, <2>3
<1> HIDE DEF e, out
<1>6. down' \in Seq(DownMessage)
  BY <1>1, <1>5, ConcatProperties, Zenon DEF IInv, Typed
<1>7. \A f : Reported(f, Range(up)) => Reported(f, Range(up'))
  BY <1>1, ReportStays DEF IInv, Typed
<1>8. AllPaired(flows, Range(up'), down \o e, conn)
  BY <1>5, <1>7, AppendStep, Zenon DEF IInv, Typed
<1>9. Typed'
  BY <1>1, <1>2, <1>4, <1>6, Zenon DEF IInv, Typed
<1> QED
  BY <1>1, <1>8, <1>9, Zenon DEF IInv

\* processFlowRemovedMessage keeps the invariant.
LEMMA FlowRemovedKeeps ==
    IInv /\ processFlowRemovedMessage => IInv'
<1> SUFFICES ASSUME IInv, processFlowRemovedMessage PROVE IInv'
  OBVIOUS
<1> DEFINE m == Head(up)
           e == <<OFPFC_DELETE(m.dst, m.src, m.in)>>
<1>1. /\ up # <<>> /\ m.type = "FLOW_REMOVED"
      /\ ports' = [ports EXCEPT ![m.src] = None]
      /\ down' = Append(down, OFPFC_DELETE(m.dst, m.src, m.in)) /\ up' = Tail(up)
      /\ UNCHANGED <<loc, flows, conn>>
  BY DEF processFlowRemovedMessage
<1>2. m \in UpMessage /\ Tail(up) \in Seq(UpMessage)
  BY <1>1, HeadTailProperties DEF IInv, Typed
<1>3. OFPFC_DELETE(m.dst, m.src, m.in) \in DownMessage
  BY <1>2 DEF UpMessage, OFPFC_DELETE, DownMessage, Delete
<1>4. /\ e \in Seq(DownMessage) /\ Len(e) = 1 /\ e[1].type # "ADD"
      /\ OFPFC_DELETE(m.dst, m.src, m.in) \in Range(e)
  <2>1. e \in Seq(DownMessage) /\ Len(e) = 1 /\ e[1] = OFPFC_DELETE(m.dst, m.src, m.in)
        /\ 1 \in DOMAIN e
    BY ONLY <1>3, SMT
  <2>2. OFPFC_DELETE(m.dst, m.src, m.in).type # "ADD"
    BY DEF OFPFC_DELETE
  <2> QED
    BY <2>1, <2>2 DEF Range
<1>5. down' = down \o e /\ down \o e \in Seq(DownMessage)
  <2>1. down' = down \o e
    <3>1. down \in Seq(DownMessage)
      BY Zenon DEF IInv, Typed
    <3> QED
      BY ONLY <1>1, <1>3, <3>1, SMT
  <2> QED
    BY <2>1, <1>4, ConcatProperties DEF IInv, Typed
<1> HIDE DEF e
<1>6. ASSUME NEW f, Reported(f, Range(up))
      PROVE  Reported(f, Range(up')) \/ Doomed(f, Range(e))
  <2>1. Reported(f, Range(Tail(up))) \/ Matches(m, f.dst, f.src, f.out)
    BY <1>1, <1>6, ReportStays, Zenon DEF IInv, Typed
  <2>2. Matches(m, f.dst, f.src, f.out) => Doomed(f, Range(e))
    BY <1>4 DEF Matches, Doomed
  <2> QED
    BY <1>1, <2>1, <2>2, Zenon
<1>7. AllPaired(flows, Range(up'), down \o e, conn)
  <2>1. down \in Seq(DownMessage) /\ AllPaired(flows, Range(up), down, conn)
    BY Zenon DEF IInv, Typed
  <2>2. ASSUME NEW i \in 1 .. Len(e) PROVE e[i].type # "ADD"
    BY ONLY <1>4, SMT
  <2> QED
    BY <1>4, <1>6, <2>1, <2>2, AppendStep, Zenon
<1>8. ports' \in [Host -> Port \cup {None}]
  BY <1>1, <1>2 DEF UpMessage, IInv, Typed
<1>9. Typed'
  BY <1>1, <1>2, <1>5, <1>8, Zenon DEF IInv, Typed
<1> QED
  BY <1>1, <1>5, <1>7, <1>9 DEF IInv

\* add_flow, with the flow it replaces, keeps the invariant.
LEMMA AddKeeps ==
    IInv /\ add_flow => IInv'
<1> SUFFICES ASSUME IInv, add_flow PROVE IInv'
  OBVIOUS
<1> DEFINE g == Head(down).flow
<1>1. /\ down # <<>> /\ Head(down).type = "ADD"
      /\ flows' = {f \in flows : ~SameMatch(f, g)} \cup {g}
      /\ down' = Tail(down)
      /\ UNCHANGED <<loc, ports, up, conn>>
  BY DEF add_flow
<1>2. down[1] = Head(down) /\ down[1] \in DownMessage /\ Tail(down) \in Seq(DownMessage)
  BY <1>1, TailQueue DEF IInv, Typed
<1>3. g \in Flow
  BY ONLY <1>1, <1>2, SMT DEF DownMessage, Add, Delete, ClearAll
<1>4. AllPaired(flows', Range(up), Tail(down), conn)
  <2>1. down \in Seq(DownMessage) /\ AllPaired(flows, Range(up), down, conn)
    BY Zenon DEF IInv, Typed
  <2>2. /\ down # <<>> /\ down[1].type = "ADD"
        /\ flows' = {f \in flows : ~SameMatch(f, down[1].flow)} \cup {down[1].flow}
    BY <1>1, <1>2, Zenon
  <2> QED
    BY ONLY <2>1, <2>2, AddStep, Zenon
<1>5. IsFiniteSet(flows')
  <2>1. IsFiniteSet({f \in flows : ~SameMatch(f, g)})
    BY FS_Subset DEF IInv, Typed
  <2> QED
    BY <1>1, <2>1, FS_AddElement
<1>6. \A f, h \in flows' : SameMatch(f, h) => f = h
  <2>1. \A f, h \in flows : SameMatch(f, h) => f = h
    BY DEF IInv, Typed
  <2>2. \A f, h : SameMatch(f, h) => SameMatch(h, f)
    BY DEF SameMatch, Matches
  <2> HIDE DEF g
  <2> QED
    BY <1>1, <2>1, <2>2
<1>7. flows' \subseteq Flow
  BY <1>1, <1>3 DEF IInv, Typed
<1>8. Typed'
  BY <1>1, <1>2, <1>5, <1>6, <1>7, Zenon DEF IInv, Typed
<1> QED
  BY <1>1, <1>4, <1>8, Zenon DEF IInv

\* Each flow of a finite set is in every order of it.
LEMMA OrderHasAll ==
    ASSUME NEW S, IsFiniteSet(S), NEW order \in SetToSeqs(S)
    PROVE  /\ Cardinality(S) \in Nat
           /\ order \in [1 .. Cardinality(S) -> S]
           /\ \A x \in S : \E i \in 1 .. Cardinality(S) : order[i] = x
<1> DEFINE n == Cardinality(S)
<1>1. n \in Nat
  BY FS_CardinalityType
<1>2. IsFiniteSet(1 .. n) /\ Cardinality(1 .. n) = n
  BY ONLY <1>1, FS_Interval, SMT
<1>3. order \in [1 .. n -> S] /\ \A i, j \in 1 .. n : i # j => order[i] # order[j]
  BY DEF SetToSeqs
<1> HIDE DEF n
<1>4. order \in Injection(1 .. n, S)
  BY <1>3 DEF Injection, IsInjective
<1>5. order \in Surjection(1 .. n, S)
  BY <1>2, <1>4, FS_Injection DEF n
<1> QED
  BY <1>1, <1>3, <1>5, Zenon DEF Surjection, n

\* delete_flows_loose, with the removals it reports, keeps the invariant.
LEMMA DeleteKeeps ==
    IInv /\ delete_flows_loose => IInv'
<1> SUFFICES ASSUME IInv, delete_flows_loose PROVE IInv'
  OBVIOUS
<1> DEFINE m == Head(down)
           R == collect_rules_loose(m)
<1>1. /\ down # <<>> /\ m.type \in {"DELETE", "CLEAR"}
      /\ flows' = flows \ R
      /\ down' = Tail(down)
      /\ UNCHANGED <<loc, ports, conn>>
  BY DEF delete_flows_loose
<1>2. PICK order \in SetToSeqs(R) :
           up' = up \o [i \in DOMAIN order |-> OFPT_FLOW_REMOVED(order[i])]
  BY DEF delete_flows_loose
<1>3. R \subseteq flows /\ IsFiniteSet(R) /\ IsFiniteSet(flows')
  <2>1. R \subseteq flows
    BY DEF collect_rules_loose
  <2> QED
    BY <1>1, <2>1, FS_Subset, Zenon DEF IInv, Typed
<1>4. down[1] = m /\ Tail(down) \in Seq(DownMessage)
  BY <1>1, TailQueue DEF IInv, Typed
<1>5. /\ m = ClearAll => flows \subseteq R
      /\ \A f \in flows : m = OFPFC_DELETE(f.src, f.dst, f.out) => f \in R
  BY ONLY SMT DEF collect_rules_loose, OFPFC_DELETE, ClearAll
<1> HIDE DEF R, m
<1> DEFINE n == Cardinality(R)
           e == [i \in DOMAIN order |-> OFPT_FLOW_REMOVED(order[i])]
<1>6. /\ n \in Nat /\ order \in [1 .. n -> R]
      /\ \A f \in R : \E i \in 1 .. n : order[i] = f
  BY <1>3, OrderHasAll
<1> HIDE DEF n
<1>7. \A f \in R : OFPT_FLOW_REMOVED(f) \in UpMessage
  BY <1>3 DEF OFPT_FLOW_REMOVED, UpMessage, Flow, IInv, Typed
<1>8. e \in Seq(UpMessage) /\ \A f \in R : OFPT_FLOW_REMOVED(f) \in Range(e)
  <2>1. DOMAIN order = 1 .. n
    BY <1>6
  <2>2. e = [i \in 1 .. n |-> OFPT_FLOW_REMOVED(order[i])]
    BY <2>1
  <2>3. \A i \in 1 .. n : OFPT_FLOW_REMOVED(order[i]) \in UpMessage
    BY <1>6, <1>7
  <2>4. e \in Seq(UpMessage)
    BY ONLY <1>6, <2>2, <2>3, SMT
  <2>5. ASSUME NEW f \in R PROVE OFPT_FLOW_REMOVED(f) \in Range(e)
    <3>1. PICK i \in 1 .. n : order[i] = f
      BY <1>6
    <3>2. i \in DOMAIN e /\ e[i] = OFPT_FLOW_REMOVED(f)
      BY <2>2, <3>1
    <3> HIDE DEF e
    <3> QED
      BY <3>2 DEF Range
  <2> QED
    BY <2>4, <2>5
<1>9. up' = up \o e
  BY <1>2
<1> HIDE DEF e
<1>10. up' \in Seq(UpMessage) /\ Range(up') = Range(up) \cup Range(e)
  BY <1>8, <1>9, ConcatProperties, ConcatRange, ZenonT(60) DEF IInv, Typed
<1>11. AllPaired(flows \ R, Range(up'), Tail(down), conn)
  BY <1>1, <1>4, <1>5, <1>8, <1>10, DeleteStep DEF IInv, Typed
<1>12. Typed'
  BY <1>1, <1>3, <1>4, <1>10, Zenon DEF IInv, Typed
<1> QED
  BY <1>1, <1>11, <1>12 DEF IInv

\* rule_expire, with the removal it reports, keeps the invariant.
LEMMA ExpireKeeps ==
    ASSUME NEW f \in flows PROVE IInv /\ rule_expire(f) => IInv'
<1> SUFFICES ASSUME IInv, rule_expire(f) PROVE IInv'
  OBVIOUS
<1>1. /\ flows' = flows \ {f}
      /\ up' = IF conn THEN Append(up, OFPT_FLOW_REMOVED(f)) ELSE up
      /\ UNCHANGED <<loc, ports, down, conn>>
  BY DEF rule_expire
<1>2. OFPT_FLOW_REMOVED(f) \in UpMessage
  BY DEF OFPT_FLOW_REMOVED, UpMessage, Flow, IInv, Typed
<1>3. /\ up' \in Seq(UpMessage) /\ Range(up) \subseteq Range(up')
      /\ conn => OFPT_FLOW_REMOVED(f) \in Range(up')
  <2>1. CASE conn
    <3> DEFINE e == <<OFPT_FLOW_REMOVED(f)>>
    <3>1. e \in Seq(UpMessage) /\ up' = up \o e /\ up \in Seq(UpMessage)
      <4>1. up \in Seq(UpMessage)
        BY Zenon DEF IInv, Typed
      <4> QED
        BY ONLY <1>1, <1>2, <2>1, <4>1, SMT
    <3>2. 1 \in DOMAIN e /\ e[1] = OFPT_FLOW_REMOVED(f)
      BY ONLY SMT
    <3> HIDE DEF e
    <3>3. OFPT_FLOW_REMOVED(f) \in Range(e)
      BY <3>2 DEF Range
    <3> QED
      BY ONLY <3>1, <3>3, ConcatProperties, ConcatRange, SMTT(20)
  <2>2. CASE ~conn
    BY <1>1, <2>2 DEF IInv, Typed
  <2> QED
    BY <2>1, <2>2
<1>4. AllPaired(flows \ {f}, Range(up'), down, conn)
  BY <1>3, ExpireStep DEF IInv
<1>5. IsFiniteSet(flows')
  BY <1>1, FS_Subset DEF IInv, Typed
<1>6. Typed'
  BY <1>1, <1>3, <1>5 DEF IInv, Typed
<1> QED
  BY <1>1, <1>4, <1>6 DEF IInv

\* A packet of a host keeps the invariant.
LEMMA SendKeeps ==
    ASSUME NEW src \in Host, NEW dst \in Host PROVE IInv /\ Send(src, dst) => IInv'
<1> SUFFICES ASSUME IInv, Send(src, dst) PROVE IInv'
  OBVIOUS
<1> DEFINE e == <<OFPT_PACKET_IN(src, dst, loc[src])>>
<1>1. up' = Append(up, OFPT_PACKET_IN(src, dst, loc[src]))
      /\ UNCHANGED <<loc, ports, flows, down, conn>>
  BY DEF Send
<1>2. OFPT_PACKET_IN(src, dst, loc[src]) \in UpMessage
  BY DEF OFPT_PACKET_IN, UpMessage, IInv, Typed
<1>3. up' = up \o e /\ e \in Seq(UpMessage) /\ up \in Seq(UpMessage)
  <2>1. up \in Seq(UpMessage)
    BY Zenon DEF IInv, Typed
  <2> QED
    BY ONLY <1>1, <1>2, <2>1, SMT
<1> HIDE DEF e
<1>4. up' \in Seq(UpMessage) /\ Range(up) \subseteq Range(up')
  BY ONLY <1>3, ConcatProperties, ConcatRange, SMT
<1>5. \A f : PairedIn(f, flows, Range(up), Range(down), conn)
              => PairedIn(f, flows, Range(up'), Range(down), conn)
  BY <1>4 DEF PairedIn, Reported
<1>6. AllPaired(flows, Range(up'), down, conn)
  BY <1>5 DEF IInv, AllPaired, QueuedPaired
<1>7. Typed'
  BY <1>1, <1>4 DEF IInv, Typed
<1> QED
  BY <1>1, <1>6, <1>7 DEF IInv

\* Without a connection, or with a fresh one, everything is paired.
LEMMA ConnectionKeeps ==
    IInv /\ (addSwitch \/ Disconnect) => IInv'
<1> SUFFICES ASSUME IInv, addSwitch \/ Disconnect PROVE IInv'
  OBVIOUS
<1>1. CASE addSwitch
  <2>1. /\ conn' = TRUE /\ ports' = [h \in Host |-> None] /\ down' = <<ClearAll>>
        /\ UNCHANGED <<loc, flows, up>>
    BY <1>1 DEF addSwitch
  <2>2. down' \in Seq(DownMessage) /\ Len(down') = 1 /\ down'[1] = ClearAll /\ 1 \in DOMAIN down'
    BY ONLY <2>1, SMT DEF DownMessage
  <2>3. ClearAll \in Range(down')
    BY <2>2 DEF Range
  <2>4. ClearAll.type # "ADD"
    BY DEF ClearAll
  <2>5. \A i \in 1 .. Len(down') : QueuedPaired(i, flows, Range(up), down', TRUE)
    BY ONLY <2>2, <2>4, SMT DEF QueuedPaired
  <2>6. AllPaired(flows, Range(up), down', TRUE)
    BY <2>3, <2>5 DEF AllPaired, PairedIn, Doomed
  <2>7. Typed'
    BY <2>1, <2>2 DEF IInv, Typed
  <2> QED
    BY <2>1, <2>6, <2>7 DEF IInv
<1>2. CASE Disconnect
  <2>1. /\ conn' = FALSE /\ up' = <<>> /\ down' = <<>>
        /\ UNCHANGED <<loc, ports, flows>>
    BY <1>2 DEF Disconnect
  <2>2. Typed'
    <3>1. up' \in Seq(UpMessage) /\ down' \in Seq(DownMessage)
      BY <2>1, EmptySeq
    <3> QED
      BY <2>1, <3>1 DEF IInv, Typed
  <2>3. AllPaired(flows, Range(up'), down', FALSE)
    BY ONLY <2>1, SMT DEF AllPaired, PairedIn
  <2> QED
    BY <2>1, <2>2, <2>3 DEF IInv
<1> QED
  BY <1>1, <1>2

\* IInv is an invariant.
LEMMA Inductive == Spec => []IInv
<1>1. Init => IInv
  <2> SUFFICES ASSUME Init PROVE IInv
    OBVIOUS
  <2>1. IsFiniteSet(flows)
    BY FS_EmptySet DEF Init
  <2>2. Typed
    BY <2>1, SMT DEF Init, Typed
  <2>3. AllPaired(flows, Range(up), down, conn)
    BY SMT DEF Init, AllPaired
  <2> QED
    BY <2>2, <2>3 DEF IInv
<1>2. IInv /\ [Next]_vars => IInv'
  <2> SUFFICES ASSUME IInv, [Next]_vars PROVE IInv'
    OBVIOUS
  <2>1. CASE processPacketInMessage
    BY <2>1, PacketInKeeps
  <2>2. CASE processFlowRemovedMessage
    BY <2>2, FlowRemovedKeeps
  <2>3. CASE addSwitch \/ Disconnect
    BY <2>3, ConnectionKeeps
  <2>4. CASE add_flow
    BY <2>4, AddKeeps
  <2>5. CASE delete_flows_loose
    BY <2>5, DeleteKeeps
  <2>6. ASSUME NEW h \in Host, removeEldestEntry(h) PROVE IInv'
    BY <2>6 DEF removeEldestEntry, IInv, Typed
  <2>7. ASSUME NEW f \in flows, rule_expire(f) PROVE IInv'
    BY <2>7, ExpireKeeps
  <2>8. ASSUME NEW src \in Host, NEW dst \in Host, Send(src, dst) PROVE IInv'
    BY <2>8, SendKeeps
  <2>9. ASSUME NEW h \in Host, NEW p \in Port, Move(h, p) PROVE IInv'
    BY <2>9 DEF Move, IInv, Typed
  <2>10. CASE UNCHANGED vars
    BY <2>10 DEF vars, IInv, Typed
  <2> QED
    BY <2>1, <2>2, <2>3, <2>4, <2>5, <2>6, <2>7, <2>8, <2>9, <2>10
       DEF Next, Controller, Switch
<1> QED
  BY <1>1, <1>2, PTL DEF Spec

\* The flow table has its type and no two flows of one match.
THEOREM FlowTableTyped == Spec => []TypeOK
<1>1. IInv => TypeOK
  BY DEF IInv, Typed, TypeOK
<1> QED
  BY <1>1, Inductive, PTL

\* Every OUTPUT flow that DCM has installed has the flow of the answers beside it,
\* or that flow's end is on its way to end this one: processFlowRemovedMessage and
\* the two OFPFC_ADDs of processPacketInMessage do what their comments say, with
\* any number of hosts and ports, any delay and any lost connection.
THEOREM PairsHold == Spec => []FlowsPaired
<1>1. ASSUME NEW f PROVE PairedIn(f, flows, Range(up), Range(down), conn) <=> Paired(f)
  BY DEF PairedIn, Paired, Flown, Coming, Reported, Doomed
<1>2. IInv => FlowsPaired
  BY <1>1 DEF IInv, AllPaired, FlowsPaired
<1> QED
  BY <1>2, Inductive, PTL
=============================================================================
