--------------------------- MODULE GroupingProofs ---------------------------
(***************************************************************************)
(* Groups and their addresses, for any list of switches, any pushes and    *)
(* restarts, and any number of datagrams under way.                        *)
(*                                                                         *)
(* The address of a group is 239.b2.b1.b0+1 for the bytes of its id, so    *)
(* that no two groups share one.  The address mc_recv joins has the bytes  *)
(* the other way round: it is a group's address only if the lowest byte of *)
(* the id is 0, and then that of the group with the other two exchanged.   *)
(***************************************************************************)
EXTENDS Grouping, TLAPS, SequenceTheorems

USE Zenon

\* The ids that bridges may use.
Id == Gid \cup {0}

\* What a datagram carries.
Datagram(msg) ==
    /\ msg.src \in Switch
    /\ msg.gid \in Id /\ msg.group \in Id
    /\ msg.to = SendGroupIp(msg.group)

\* A bridge that is gone has heard nobody.
Quiet(s) == bridge[s] = "none" => heard[s] = {} /\ recv[s] = "none"

Typed ==
    /\ pos \in DOMAIN Dcm
    /\ writing \in Message \cup {<<>>}
    /\ file \in [Switch -> Message \cup {NoFile, <<>>}]
    /\ bridge \in [Switch -> {"none", "up"}]
    /\ gdt_gid \in [Switch -> Id]
    /\ is_DDCM \in [Switch -> {0, 1}]
    /\ msg_gid \in [Switch -> Id \cup {-1}]
    /\ recv \in [Switch -> {"none", "start", "joined", "returned"}]
    /\ failed \in [Switch -> SUBSET {"mc_send", "mc_recv"}]
    /\ heard \in [Switch -> SUBSET (Switch \X Id)]
    /\ inits \in 0 .. MaxInits

\* What a bridge has heard was sent to the address it listens on.
Tuned(s) == \A h \in heard[s] : RecvGroupIp(gdt_gid[s]) = SendGroupIp(h[2])

IInv ==
    /\ Typed
    /\ \A msg \in net : Datagram(msg)
    /\ \A s \in Switch : Quiet(s) /\ Tuned(s)
-----------------------------------------------------------------------------
\* Addresses.

\* The number with the bytes b0, b1 and b2, lowest first.
Number(b0, b1, b2) == b0 + 256 * b1 + 65536 * b2
Max16 == 65535

\* The ranges, as the provers take them.
LEMMA Ranges ==
    /\ \A b : b \in Byte <=> b \in Nat /\ b <= 255
    /\ \A g : g \in 0 .. MaxGid <=> g \in Nat /\ g <= 16777215
    /\ \A g : g \in 0 .. Max16 <=> g \in Nat /\ g <= 65535
<1>1. ASSUME NEW m \in Nat PROVE \A b : b \in 0 .. m <=> b \in Nat /\ b <= m
  BY ONLY m \in Nat, SMT
<1>2. PICK byte, gid, word : byte = 255 /\ gid = 16777215 /\ word = 65535
  BY ONLY TRUE, SMT
<1>3. byte \in Nat /\ gid \in Nat /\ word \in Nat
  BY ONLY <1>2, SMT
<1>4. Byte = 0 .. byte /\ 0 .. MaxGid = 0 .. gid /\ 0 .. Max16 = 0 .. word
  <2>1. MaxGid = gid /\ Max16 = word
    BY ONLY <1>2, SMT DEF MaxGid, Max16
  <2>2. Byte = 0 .. byte
    <3>1. byte = 255
      BY ONLY <1>2, SMT
    <3> QED
      BY ONLY <3>1, Zenon DEF Byte
  <2> QED
    BY ONLY <2>1, <2>2, Zenon
<1>5. /\ \A b : b \in Byte <=> b \in Nat /\ b <= byte
      /\ \A g : g \in 0 .. MaxGid <=> g \in Nat /\ g <= gid
      /\ \A g : g \in 0 .. Max16 <=> g \in Nat /\ g <= word
  BY ONLY <1>1, <1>3, <1>4, Zenon
<1> QED
  BY ONLY <1>2, <1>5, SMT

\* An id is its three bytes.
LEMMA BytesOf ==
    ASSUME NEW g \in 0 .. MaxGid
    PROVE  \E b0, b1, b2 \in Byte :
             g = Number(b0, b1, b2) /\ HostOrder(g) = <<b0, b1, b2, 0>>
<1>1. PICK b0, b1, b2 :
        b0 = g % 256 /\ b1 = (g \div 256) % 256 /\ b2 = (g \div 65536) % 256
  BY ONLY TRUE, SMT
<1>2. g \in Nat /\ g <= 16777215
  BY ONLY g \in 0 .. MaxGid, Ranges, SMT
<1>3. b0 \in Nat /\ b0 <= 255 /\ b1 \in Nat /\ b1 <= 255 /\ b2 \in Nat /\ b2 <= 255
  BY ONLY <1>1, <1>2, SMT
<1>4. b0 \in Byte /\ b1 \in Byte /\ b2 \in Byte
  BY ONLY <1>3, Ranges, SMT
<1>5. g = Number(b0, b1, b2)
  BY ONLY <1>1, <1>2, SMT DEF Number
<1>6. HostOrder(g) = <<b0, b1, b2, 0>>
  <2>1. g \div 16777216 = 0
    BY ONLY <1>2, SMT
  <2> QED
    BY ONLY <1>1, <2>1, SMT DEF HostOrder
<1> QED
  BY ONLY <1>4, <1>5, <1>6, Zenon

\* The address of a group: its lowest byte is last, one up, and never carries
\* into another.
LEMMA SendIs ==
    ASSUME NEW g \in 0 .. MaxGid
    PROVE  \E b0, b1, b2 \in Byte :
             g = Number(b0, b1, b2) /\ SendGroupIp(g) = <<239, b2, b1, (1 + b0) % 256>>
<1>1. PICK b0, b1, b2 \in Byte : g = Number(b0, b1, b2) /\ HostOrder(g) = <<b0, b1, b2, 0>>
  BY BytesOf
<1>2. htonl(g) = <<0, b2, b1, b0>>
  BY ONLY <1>1, SMT DEF htonl
<1>3. Plus(<<239, 0, 0, 1>>, <<0, b2, b1, b0>>) = <<239, b2, b1, (1 + b0) % 256>>
  BY ONLY b0 \in Byte, b1 \in Byte, b2 \in Byte, SMT DEF Plus, Byte
<1>4. SendGroupIp(g) = <<239, b2, b1, (1 + b0) % 256>>
  BY ONLY <1>2, <1>3, SMT DEF SendGroupIp, LC_MCAST_GROUP_IP
<1> QED
  BY ONLY <1>1, <1>4, SMT

\* The address mc_recv joins, if it is in the same block.
LEMMA RecvIs ==
    ASSUME NEW g \in 0 .. MaxGid, RecvGroupIp(g)[1] = 239
    PROVE  \E b1, b2 \in Byte :
             g = Number(0, b1, b2) /\ RecvGroupIp(g) = <<239, b1, b2, 1>>
<1>1. PICK b0, b1, b2 \in Byte : g = Number(b0, b1, b2) /\ HostOrder(g) = <<b0, b1, b2, 0>>
  BY BytesOf
<1>2. RecvGroupIp(g) = Plus(<<239, 0, 0, 1>>, <<b0, b1, b2, 0>>)
  BY ONLY <1>1, SMT DEF RecvGroupIp, LC_MCAST_GROUP_IP
<1>3. Plus(<<239, 0, 0, 1>>, <<b0, b1, b2, 0>>)[1] = (239 + b0) % 256
  BY ONLY TRUE, SMT DEF Plus
<1>4. b0 = 0
  <2>1. (239 + b0) % 256 = 239
    BY ONLY <1>2, <1>3, RecvGroupIp(g)[1] = 239, SMT
  <2> QED
    <3>1. b0 \in Nat /\ b0 <= 255
      BY ONLY b0 \in Byte, Ranges, SMT
    <3> QED
      BY ONLY <2>1, <3>1, SMT
<1>5. Plus(<<239, 0, 0, 1>>, <<0, b1, b2, 0>>) = <<239, b1, b2, 1>>
  BY ONLY b1 \in Byte, b2 \in Byte, SMT DEF Plus, Byte
<1>6. RecvGroupIp(g) = <<239, b1, b2, 1>>
  BY ONLY <1>2, <1>4, <1>5, SMT
<1> QED
  BY ONLY <1>1, <1>4, <1>6, SMT

\* No two groups have the same address.
LEMMA SendInjective ==
    ASSUME NEW g \in 0 .. MaxGid, NEW h \in 0 .. MaxGid, SendGroupIp(g) = SendGroupIp(h)
    PROVE  g = h
<1>1. PICK b0, b1, b2 \in Byte :
        g = Number(b0, b1, b2) /\ SendGroupIp(g) = <<239, b2, b1, (1 + b0) % 256>>
  BY ONLY g \in 0 .. MaxGid, SendIs, SMT
<1>2. PICK c0, c1, c2 \in Byte :
        h = Number(c0, c1, c2) /\ SendGroupIp(h) = <<239, c2, c1, (1 + c0) % 256>>
  BY ONLY h \in 0 .. MaxGid, SendIs, SMT
<1>3. b2 = c2 /\ b1 = c1 /\ (1 + b0) % 256 = (1 + c0) % 256
  BY ONLY <1>1, <1>2, SendGroupIp(g) = SendGroupIp(h), SMT
<1>4. b0 = c0
  <2>1. b0 \in Nat /\ b0 <= 255 /\ c0 \in Nat /\ c0 <= 255
    BY ONLY b0 \in Byte, c0 \in Byte, Ranges, SMT
  <2>2. \A b \in Nat : b <= 255 => (1 + b) % 256 = IF b = 255 THEN 0 ELSE 1 + b
    BY ONLY TRUE, SMT
  <2> QED
    BY ONLY <1>3, <2>1, <2>2, SMT
<1> QED
  BY ONLY <1>1, <1>2, <1>3, <1>4, Zenon

\* Whom a bridge hears: the bytes above the lowest are exchanged.
LEMMA RecvIsSend ==
    ASSUME NEW g \in 0 .. MaxGid, NEW h \in 0 .. MaxGid, RecvGroupIp(g) = SendGroupIp(h)
    PROVE  \E b1, b2 \in Byte : g = Number(0, b1, b2) /\ h = Number(0, b2, b1)
<1>1. PICK c0, c1, c2 \in Byte :
        h = Number(c0, c1, c2) /\ SendGroupIp(h) = <<239, c2, c1, (1 + c0) % 256>>
  BY ONLY h \in 0 .. MaxGid, SendIs, SMT
<1>2. RecvGroupIp(g)[1] = 239
  BY ONLY <1>1, RecvGroupIp(g) = SendGroupIp(h), SMT
<1>3. PICK b1, b2 \in Byte : g = Number(0, b1, b2) /\ RecvGroupIp(g) = <<239, b1, b2, 1>>
  BY ONLY <1>2, g \in 0 .. MaxGid, RecvIs, SMT
<1>4. b1 = c2 /\ b2 = c1 /\ (1 + c0) % 256 = 1
  BY ONLY <1>1, <1>3, RecvGroupIp(g) = SendGroupIp(h), SMT
<1>5. c0 = 0
  <2>1. c0 \in Nat /\ c0 <= 255
    BY ONLY c0 \in Byte, Ranges, SMT
  <2> QED
    BY ONLY <1>4, <2>1, SMT
<1> QED
  BY ONLY <1>1, <1>3, <1>4, <1>5, Zenon

\* Ids of two bytes leave no other group to hear than the default one.
LEMMA RecvOwn ==
    ASSUME NEW g \in 0 .. Max16, NEW h \in 0 .. Max16, RecvGroupIp(g) = SendGroupIp(h)
    PROVE  g = h
<1>1. g \in 0 .. MaxGid /\ h \in 0 .. MaxGid
  BY ONLY g \in 0 .. Max16, h \in 0 .. Max16, Ranges, SMT
<1>2. PICK b1, b2 \in Byte : g = Number(0, b1, b2) /\ h = Number(0, b2, b1)
  BY <1>1, RecvIsSend
<1>3. b2 = 0 /\ b1 = 0
  <2>1. b1 \in Nat /\ b2 \in Nat
    BY ONLY b1 \in Byte, b2 \in Byte, Ranges, SMT
  <2>2. g <= 65535 /\ h <= 65535
    BY ONLY g \in 0 .. Max16, h \in 0 .. Max16, Ranges, SMT
  <2> QED
    BY ONLY <1>2, <2>1, <2>2, SMT DEF Number
<1> QED
  BY ONLY <1>2, <1>3, Zenon

\* Every address of a group is in the block for local multicast.
LEMMA SendBytes ==
    ASSUME NEW g \in 0 .. MaxGid
    PROVE  SendGroupIp(g)[1] = 239 /\ \A i \in 1 .. 4 : SendGroupIp(g)[i] \in Byte
<1>1. PICK b0, b1, b2 \in Byte :
        g = Number(b0, b1, b2) /\ SendGroupIp(g) = <<239, b2, b1, (1 + b0) % 256>>
  BY ONLY g \in 0 .. MaxGid, SendIs, SMT
<1>2. 239 \in Byte
  BY ONLY Ranges, SMT
<1>3. (1 + b0) % 256 \in Byte
  <2>1. b0 \in Nat
    BY ONLY b0 \in Byte, Ranges, SMT
  <2>2. (1 + b0) % 256 \in Nat /\ (1 + b0) % 256 <= 255
    BY ONLY <2>1, SMT
  <2> QED
    BY ONLY <2>2, Ranges, SMT
<1>4. PICK a, b : a = 239 /\ b = (1 + b0) % 256
  BY ONLY TRUE, SMT
<1>5. a \in Byte /\ b \in Byte /\ SendGroupIp(g) = <<a, b2, b1, b>>
  BY ONLY <1>1, <1>2, <1>3, <1>4, SMT
<1>6. \A i \in 1 .. 4 : SendGroupIp(g)[i] \in Byte
  BY ONLY <1>5, b1 \in Byte, b2 \in Byte, SMT
<1> QED
  BY ONLY <1>1, <1>6, SMT

\* The ids of bridges have three bytes.
LEMMA IdRange == Id \subseteq 0 .. MaxGid
<1>1. 0 \in 0 .. MaxGid
  BY ONLY Ranges, SMT
<1> QED
  BY ONLY <1>1, GroupingAssumption, Zenon DEF Id
-----------------------------------------------------------------------------
\* Helpers.

\* What an update of one entry leaves.
LEMMA ExceptIn ==
    ASSUME NEW S, NEW T, NEW f \in [S -> T], NEW s \in S, NEW v \in T
    PROVE  /\ [f EXCEPT ![s] = v] \in [S -> T]
           /\ [f EXCEPT ![s] = v][s] = v
           /\ \A u \in S : u # s => [f EXCEPT ![s] = v][u] = f[u]
  OBVIOUS

\* The list of switches is walked round and round.
LEMMA Walk ==
    ASSUME pos \in DOMAIN Dcm
    PROVE  Dcm[pos] \in Switch /\ (pos % Len(Dcm)) + 1 \in DOMAIN Dcm
<1>1. Dcm[pos] \in Switch
  BY pos \in DOMAIN Dcm DEF Switch
<1>2. Len(Dcm) \in Nat /\ DOMAIN Dcm = 1 .. Len(Dcm)
  <2>1. Dcm \in Seq(Switch)
    BY GroupingAssumption
  <2> QED
    BY ONLY <2>1, LenProperties, SMT
<1>3. PICK n, p : n = Len(Dcm) /\ p = pos
  OBVIOUS
<1>4. n \in Nat /\ p \in 1 .. n
  BY ONLY <1>2, <1>3, pos \in DOMAIN Dcm, Zenon
<1>5. (p % n) + 1 \in 1 .. n
  BY ONLY <1>4, SMT
<1> QED
  BY ONLY <1>1, <1>2, <1>3, <1>5, Zenon

\* Messages have one or two numbers, an id and a flag.
LEMMA MessageIs ==
    ASSUME NEW f \in Message
    PROVE  /\ Len(f) >= 1 => f[1] \in Gid
           /\ Len(f) >= 2 => f[2] \in {0, 1}
<1>1. CASE \E g \in Gid : f = <<g>>
  BY ONLY <1>1, SMT
<1>2. CASE \E g \in Gid, d \in {0, 1} : f = <<g, d>>
  BY ONLY <1>2, SMT
<1>3. (\E g \in Gid : f = <<g>>) \/ \E g \in Gid, d \in {0, 1} : f = <<g, d>>
  BY ONLY f \in Message, SMT DEF Message
<1> QED
  BY <1>1, <1>2, <1>3

\* The fields read from a file.
LEMMA FieldIs ==
    ASSUME NEW f \in Message \cup {NoFile, <<>>}
    PROVE  Field(f, 1) \in Id /\ Field(f, 2) \in {0, 1}
<1>1. CASE f = NoFile
  BY <1>1 DEF Field, Id
<1>2. CASE f # NoFile /\ f = <<>>
  <2>1. ~(Len(f) >= 1) /\ ~(Len(f) >= 2)
    BY ONLY <1>2, SMT
  <2> QED
    BY <1>2, <2>1 DEF Field, Id
<1>3. CASE f # NoFile /\ f \in Message
  BY <1>3, MessageIs DEF Field, Id
<1> QED
  BY <1>1, <1>2, <1>3

\* The ids that bridge_lc_init and mc_send take.
LEMMA GidIs ==
    ASSUME Typed, NEW s \in Switch
    PROVE  InitGid(s) \in Id /\ Field(file[s], 2) \in {0, 1} /\ ReadGid(s) \in Id
<1>1. file[s] \in Message \cup {NoFile, <<>>} /\ gdt_gid[s] \in Id
  BY DEF Typed
<1>2. Field(file[s], 1) \in Id /\ Field(file[s], 2) \in {0, 1}
  BY ONLY <1>1, FieldIs, Zenon
<1>3. LC_GROUP_DFT_ID \in Id
  BY DEF LC_GROUP_DFT_ID, Id
<1> QED
  BY <1>1, <1>2, <1>3 DEF InitGid, ReadGid
-----------------------------------------------------------------------------
\* The steps.

LEMMA InitInv == Init => IInv
<1> SUFFICES ASSUME Init PROVE IInv
  OBVIOUS
<1>1. pos \in DOMAIN Dcm
  <2>1. Dcm \in Seq(Switch) /\ Dcm # <<>>
    BY GroupingAssumption
  <2>2. Len(Dcm) \in Nat /\ DOMAIN Dcm = 1 .. Len(Dcm) /\ Len(Dcm) # 0
    BY ONLY <2>1, LenProperties, EmptySeq, SMT
  <2>3. 1 \in 1 .. Len(Dcm)
    BY ONLY <2>2, SMT
  <2> QED
    BY ONLY <2>2, <2>3, Init, Zenon DEF Init
<1>2. inits \in 0 .. MaxInits
  BY ONLY Init, GroupingAssumption, SMT DEF Init
<1>3. Typed
  <2>1. gdt_gid \in [Switch -> Id] /\ msg_gid \in [Switch -> Id \cup {-1}]
    BY DEF Init, Id, LC_GROUP_DFT_ID
  <2>2. heard \in [Switch -> SUBSET (Switch \X Id)]
          /\ failed \in [Switch -> SUBSET {"mc_send", "mc_recv"}]
    BY DEF Init
  <2> QED
    BY <1>1, <1>2, <2>1, <2>2 DEF Init, Typed
<1>4. \A s \in Switch : Quiet(s) /\ Tuned(s)
  BY DEF Init, Quiet, Tuned
<1> QED
  BY <1>3, <1>4 DEF Init, IInv

\* A step that leaves bridges alone.
LEMMA BridgesStay ==
    ASSUME IInv, UNCHANGED <<bridge, gdt_gid, recv, net, heard>>
    PROVE  (\A msg \in net' : Datagram(msg)) /\ \A s \in Switch : Quiet(s)' /\ Tuned(s)'
  BY DEF IInv, Quiet, Tuned

\* The threads of a bridge fail one by one, and are forgotten with it.
LEMMA FailedType ==
    ASSUME IInv, NEW s \in Switch,
           \/ UNCHANGED failed
           \/ failed' = [failed EXCEPT ![s] = {}]
           \/ \E t \in {"mc_send", "mc_recv"} : failed' = [failed EXCEPT ![s] = @ \cup {t}]
    PROVE  failed' \in [Switch -> SUBSET {"mc_send", "mc_recv"}]
<1>1. failed \in [Switch -> SUBSET {"mc_send", "mc_recv"}]
  BY DEF IInv, Typed
<1> QED
  BY <1>1, SMT

LEMMA PushInv == ASSUME IInv, NEW g \in Gid, doPush(g) PROVE IInv'
<1>1. Typed
  BY DEF IInv
<1>2. Dcm[pos] \in Switch /\ (pos % Len(Dcm)) + 1 \in DOMAIN Dcm
  BY <1>1, Walk DEF Typed
<1>3. pos' \in DOMAIN Dcm
  BY <1>1, <1>2 DEF doPush, Typed
<1>4. writing' \in Message \cup {<<>>}
  <2>1. CASE UNCHANGED writing
    BY <1>1, <2>1 DEF Typed
  <2>2. CASE \E d : writing' = push_agent(<<g, d>>)
    <3>1. writing' = <<g>>
      BY ONLY <2>2, SMT DEF push_agent
    <3> QED
      BY ONLY <3>1, g \in Gid, SMT DEF Message
  <2> QED
    BY <2>1, <2>2 DEF doPush
<1>5. file' \in [Switch -> Message \cup {NoFile, <<>>}]
  <2>1. CASE UNCHANGED file
    BY <1>1, <2>1 DEF Typed
  <2>2. CASE file' = [file EXCEPT ![Dcm[pos]] = <<>>]
    BY <1>1, <1>2, <2>2, ExceptIn DEF Typed
  <2> QED
    BY <2>1, <2>2 DEF doPush
<1>6. UNCHANGED <<bridge, gdt_gid, is_DDCM, msg_gid, recv, failed, net, heard, inits>>
  BY DEF doPush
<1>7. Typed'
  BY <1>1, <1>3, <1>4, <1>5, <1>6 DEF Typed
<1> QED
  BY <1>6, <1>7, BridgesStay DEF IInv

LEMMA WriteInv == ASSUME IInv, push_write PROVE IInv'
<1>1. Typed
  BY DEF IInv
<1>2. Dcm[pos] \in Switch /\ pos' \in DOMAIN Dcm
  BY <1>1, Walk DEF Typed, push_write
<1>3. file' \in [Switch -> Message \cup {NoFile, <<>>}]
  <2>1. writing \in Message
    BY <1>1 DEF Typed, push_write
  <2> QED
    BY <1>1, <1>2, <2>1, ExceptIn DEF Typed, push_write
<1>4. UNCHANGED <<bridge, gdt_gid, is_DDCM, msg_gid, recv, failed, net, heard, inits>>
  BY DEF push_write
<1>5. Typed'
  BY <1>1, <1>2, <1>3, <1>4 DEF Typed, push_write
<1> QED
  BY <1>4, <1>5, BridgesStay DEF IInv

LEMMA BridgeInitInv == ASSUME IInv, NEW s \in Switch, bridge_lc_init(s) PROVE IInv'
<1>1. Typed
  BY DEF IInv
<1>2. /\ InitGid(s) \in Id
      /\ Field(file[s], 2) \in {0, 1}
  BY <1>1, GidIs
<1>3. heard[s] = {}
  BY DEF IInv, Quiet, bridge_lc_init
<1>4. bridge' \in [Switch -> {"none", "up"}] /\ bridge'[s] = "up"
        /\ \A u \in Switch : u # s => bridge'[u] = bridge[u]
  <2>1. bridge \in [Switch -> {"none", "up"}] /\ bridge' = [bridge EXCEPT ![s] = "up"]
    BY <1>1 DEF bridge_lc_init, Typed
  <2>2. "up" \in {"none", "up"}
    OBVIOUS
  <2> QED
    BY ONLY <2>1, <2>2, s \in Switch, ExceptIn, Zenon
<1>5. gdt_gid' \in [Switch -> Id] /\ \A u \in Switch : u # s => gdt_gid'[u] = gdt_gid[u]
  <2>1. gdt_gid \in [Switch -> Id] /\ gdt_gid' = [gdt_gid EXCEPT ![s] = InitGid(s)]
    BY <1>1 DEF bridge_lc_init, Typed
  <2> QED
    BY ONLY <1>2, <2>1, s \in Switch, ExceptIn, Zenon
<1>6. is_DDCM' \in [Switch -> {0, 1}]
  BY <1>1, <1>2, ExceptIn DEF bridge_lc_init, Typed
<1>7. recv' \in [Switch -> {"none", "start", "joined", "returned"}]
        /\ \A u \in Switch : u # s => recv'[u] = recv[u]
  <2>1. recv \in [Switch -> {"none", "start", "joined", "returned"}]
          /\ recv' = [recv EXCEPT ![s] = "start"]
    BY <1>1 DEF bridge_lc_init, Typed
  <2>2. "start" \in {"none", "start", "joined", "returned"}
    OBVIOUS
  <2> QED
    BY ONLY <2>1, <2>2, s \in Switch, ExceptIn, Zenon
<1>8. inits' \in 0 .. MaxInits
  <2>1. inits \in 0 .. MaxInits /\ inits < MaxInits /\ inits' = inits + 1
    BY <1>1 DEF bridge_lc_init, Typed
  <2>2. MaxInits \in Nat
    BY GroupingAssumption
  <2> QED
    BY ONLY <2>1, <2>2, SMT
<1>9. UNCHANGED <<pos, writing, file, msg_gid, failed, net, heard>>
  BY DEF bridge_lc_init
<1>10. Typed'
  BY <1>1, <1>4, <1>5, <1>6, <1>7, <1>8, <1>9 DEF Typed
<1>11. ASSUME NEW u \in Switch PROVE Quiet(u)' /\ Tuned(u)'
  <2>1. CASE u = s
    BY <1>3, <1>4, <1>9, <2>1 DEF Quiet, Tuned
  <2>2. CASE u # s
    <3>1. Quiet(u) /\ Tuned(u)
      BY DEF IInv
    <3>2. bridge'[u] = bridge[u] /\ recv'[u] = recv[u] /\ heard'[u] = heard[u]
            /\ gdt_gid'[u] = gdt_gid[u]
      BY ONLY <1>4, <1>5, <1>7, <1>9, <2>2, u \in Switch, Zenon
    <3> QED
      BY ONLY <3>1, <3>2, Zenon DEF Quiet, Tuned
  <2> QED
    BY <2>1, <2>2
<1> QED
  BY <1>9, <1>10, <1>11 DEF IInv

LEMMA BridgeGoneInv == ASSUME IInv, NEW s \in Switch, BridgeGone(s) PROVE IInv'
<1>1. Typed
  BY DEF IInv
<1>2. LC_GROUP_DFT_ID \in Id
  BY DEF LC_GROUP_DFT_ID, Id
<1>3. bridge' \in [Switch -> {"none", "up"}]
        /\ \A u \in Switch : u # s => bridge'[u] = bridge[u]
  <2>1. bridge \in [Switch -> {"none", "up"}] /\ bridge' = [bridge EXCEPT ![s] = "none"]
    BY <1>1 DEF BridgeGone, Typed
  <2>2. "none" \in {"none", "up"}
    OBVIOUS
  <2> QED
    BY ONLY <2>1, <2>2, s \in Switch, ExceptIn, Zenon
<1>4. gdt_gid' \in [Switch -> Id] /\ \A u \in Switch : u # s => gdt_gid'[u] = gdt_gid[u]
  <2>1. gdt_gid \in [Switch -> Id] /\ gdt_gid' = [gdt_gid EXCEPT ![s] = LC_GROUP_DFT_ID]
    BY <1>1 DEF BridgeGone, Typed
  <2> QED
    BY ONLY <1>2, <2>1, s \in Switch, ExceptIn, Zenon
<1>5. is_DDCM' \in [Switch -> {0, 1}]
  BY <1>1, ExceptIn DEF BridgeGone, Typed
<1>6. msg_gid' \in [Switch -> Id \cup {-1}]
  BY <1>1, ExceptIn DEF BridgeGone, Typed
<1>7. recv' \in [Switch -> {"none", "start", "joined", "returned"}] /\ recv'[s] = "none"
        /\ \A u \in Switch : u # s => recv'[u] = recv[u]
  <2>1. recv \in [Switch -> {"none", "start", "joined", "returned"}]
          /\ recv' = [recv EXCEPT ![s] = "none"]
    BY <1>1 DEF BridgeGone, Typed
  <2>2. "none" \in {"none", "start", "joined", "returned"}
    OBVIOUS
  <2> QED
    BY ONLY <2>1, <2>2, s \in Switch, ExceptIn, Zenon
<1>8. heard' \in [Switch -> SUBSET (Switch \X Id)] /\ heard'[s] = {}
        /\ \A u \in Switch : u # s => heard'[u] = heard[u]
  <2>1. {} \in SUBSET (Switch \X Id)
    OBVIOUS
  <2> QED
    <3>1. heard \in [Switch -> SUBSET (Switch \X Id)] /\ heard' = [heard EXCEPT ![s] = {}]
      BY <1>1 DEF BridgeGone, Typed
    <3> QED
      BY ONLY <2>1, <3>1, s \in Switch, ExceptIn, Zenon
<1>9. UNCHANGED <<pos, writing, file, net, inits>>
  BY DEF BridgeGone
<1>10. Typed'
  <2>1. failed' \in [Switch -> SUBSET {"mc_send", "mc_recv"}]
    BY FailedType DEF BridgeGone
  <2> QED
    BY <1>1, <1>3, <1>4, <1>5, <1>6, <1>7, <1>8, <1>9, <2>1 DEF Typed
<1>11. ASSUME NEW u \in Switch PROVE Quiet(u)' /\ Tuned(u)'
  <2>1. CASE u = s
    BY <1>7, <1>8, <2>1 DEF Quiet, Tuned
  <2>2. CASE u # s
    <3>1. Quiet(u) /\ Tuned(u)
      BY DEF IInv
    <3>2. bridge'[u] = bridge[u] /\ recv'[u] = recv[u] /\ heard'[u] = heard[u]
            /\ gdt_gid'[u] = gdt_gid[u]
      BY ONLY <1>3, <1>4, <1>7, <1>8, <2>2, u \in Switch, Zenon
    <3> QED
      BY ONLY <3>1, <3>2, Zenon DEF Quiet, Tuned
  <2> QED
    BY <2>1, <2>2
<1> QED
  BY <1>9, <1>10, <1>11 DEF IInv

LEMMA SendStartInv == ASSUME IInv, NEW s \in Switch, mc_send_start(s) PROVE IInv'
<1>1. Typed
  BY DEF IInv
<1>2. msg_gid' \in [Switch -> Id \cup {-1}]
  <2>1. ReadGid(s) \in Id \cup {-1}
    BY <1>1, GidIs
  <2>2. CASE msg_gid' = [msg_gid EXCEPT ![s] = ReadGid(s)]
    BY <1>1, <2>1, <2>2, ExceptIn DEF Typed
  <2>3. CASE UNCHANGED msg_gid
    BY <1>1, <2>3 DEF Typed
  <2> QED
    BY <2>2, <2>3 DEF mc_send_start
<1>3. UNCHANGED <<pos, writing, file, bridge, gdt_gid, is_DDCM, recv, net, heard, inits>>
  BY DEF mc_send_start
<1>4. Typed'
  <2>1. failed' \in [Switch -> SUBSET {"mc_send", "mc_recv"}]
    BY FailedType DEF mc_send_start
  <2> QED
    BY <1>1, <1>2, <1>3, <2>1 DEF Typed
<1> QED
  BY <1>3, <1>4, BridgesStay DEF IInv

LEMMA SendInv == ASSUME IInv, NEW s \in Switch, mc_send(s) PROVE IInv'
<1>1. Typed
  BY DEF IInv
<1> DEFINE msg == [src |-> s, to |-> SendGroupIp(gdt_gid[s]),
                   gid |-> msg_gid[s], group |-> gdt_gid[s]]
<1>2. gdt_gid[s] \in Id /\ msg_gid[s] \in Id
  <2>1. gdt_gid[s] \in Id /\ msg_gid[s] \in Id \cup {-1} /\ msg_gid[s] # -1
    BY <1>1 DEF Typed, mc_send
  <2> QED
    BY <2>1
<1>3. Datagram(msg)
  <2>1. /\ msg.src = s /\ msg.to = SendGroupIp(gdt_gid[s])
        /\ msg.gid = msg_gid[s] /\ msg.group = gdt_gid[s]
    BY ONLY TRUE, SMT
  <2> HIDE DEF msg
  <2> QED
    BY <1>2, <2>1 DEF Datagram
<1>4. net' \subseteq net \cup {msg}
  BY DEF mc_send
<1> HIDE DEF msg
<1>5. \A m \in net' : Datagram(m)
  BY <1>3, <1>4 DEF IInv
<1>6. UNCHANGED <<pos, writing, file, bridge, gdt_gid, is_DDCM, msg_gid, recv, failed, heard, inits>>
  BY DEF mc_send
<1>7. Typed'
  BY <1>1, <1>6 DEF Typed
<1>8. \A u \in Switch : Quiet(u)' /\ Tuned(u)'
  BY <1>6 DEF IInv, Quiet, Tuned
<1> QED
  BY <1>5, <1>7, <1>8 DEF IInv

LEMMA RecvStartInv == ASSUME IInv, NEW s \in Switch, mc_recv_start(s) PROVE IInv'
<1>1. Typed
  BY DEF IInv
<1>2. PICK r \in {"joined", "returned"} : recv' = [recv EXCEPT ![s] = r]
  BY DEF mc_recv_start
<1>3. recv' \in [Switch -> {"none", "start", "joined", "returned"}]
        /\ \A u \in Switch : u # s => recv'[u] = recv[u]
  <2>1. r \in {"none", "start", "joined", "returned"}
    OBVIOUS
  <2> QED
    <3>1. recv \in [Switch -> {"none", "start", "joined", "returned"}]
      BY <1>1 DEF Typed
    <3> QED
      BY ONLY <1>2, <2>1, <3>1, s \in Switch, ExceptIn, Zenon
<1>4. UNCHANGED <<pos, writing, file, bridge, gdt_gid, is_DDCM, msg_gid, net, heard, inits>>
  BY DEF mc_recv_start
<1>5. Typed'
  <2>1. failed' \in [Switch -> SUBSET {"mc_send", "mc_recv"}]
    BY FailedType DEF mc_recv_start
  <2> QED
    BY <1>1, <1>3, <1>4, <2>1 DEF Typed
<1>6. bridge[s] # "none"
  BY DEF IInv, Quiet, mc_recv_start
<1>7. ASSUME NEW u \in Switch PROVE Quiet(u)' /\ Tuned(u)'
  <2>1. CASE u = s
    BY <1>4, <1>6, <2>1 DEF IInv, Quiet, Tuned
  <2>2. CASE u # s
    BY <1>3, <1>4, <2>2 DEF IInv, Quiet, Tuned
  <2> QED
    BY <2>1, <2>2
<1> QED
  BY <1>4, <1>5, <1>7 DEF IInv

LEMMA RecvInv ==
    ASSUME IInv, NEW s \in Switch, NEW msg \in net, mc_recv(s, msg)
    PROVE  IInv'
<1>1. Typed
  BY DEF IInv
<1>2. Datagram(msg)
  BY DEF IInv
<1> DEFINE new == heard[s] \cup {<<msg.src, msg.group>>}
<1>3. new \in SUBSET (Switch \X Id)
  <2>1. heard[s] \in SUBSET (Switch \X Id)
    BY <1>1 DEF Typed
  <2>2. msg.src \in Switch /\ msg.group \in Id
    BY <1>2 DEF Datagram
  <2>3. <<msg.src, msg.group>> \in Switch \X Id
    BY ONLY <2>2, SMT
  <2> QED
    BY <2>1, <2>3
<1>4. heard' = [heard EXCEPT ![s] = new]
  BY DEF mc_recv
<1>5. \A h \in new : RecvGroupIp(gdt_gid[s]) = SendGroupIp(h[2])
  <2>1. RecvGroupIp(gdt_gid[s]) = SendGroupIp(msg.group)
    BY <1>2 DEF Datagram, mc_recv
  <2>2. <<msg.src, msg.group>>[2] = msg.group
    BY ONLY TRUE, SMT
  <2>3. Tuned(s)
    BY DEF IInv
  <2> QED
    BY <2>1, <2>2, <2>3 DEF Tuned
<1> HIDE DEF new
<1>6. heard' \in [Switch -> SUBSET (Switch \X Id)] /\ heard'[s] = new
        /\ \A u \in Switch : u # s => heard'[u] = heard[u]
  <2>1. heard \in [Switch -> SUBSET (Switch \X Id)]
    BY <1>1 DEF Typed
  <2> QED
    BY ONLY <1>3, <1>4, <2>1, s \in Switch, ExceptIn, Zenon
<1>7. UNCHANGED <<pos, writing, file, bridge, gdt_gid, is_DDCM, msg_gid, recv, failed, net, inits>>
  BY DEF mc_recv
<1>8. Typed'
  BY <1>1, <1>6, <1>7 DEF Typed
<1>9. bridge[s] # "none"
  BY DEF IInv, Quiet, mc_recv
<1>10. ASSUME NEW u \in Switch PROVE Quiet(u)' /\ Tuned(u)'
  <2>1. CASE u = s
    BY <1>5, <1>6, <1>7, <1>9, <2>1 DEF Quiet, Tuned
  <2>2. CASE u # s
    BY <1>6, <1>7, <2>2 DEF IInv, Quiet, Tuned
  <2> QED
    BY <2>1, <2>2
<1> QED
  BY <1>7, <1>8, <1>10 DEF IInv

LEMMA NextInv == IInv /\ [Next]_vars => IInv'
<1> SUFFICES ASSUME IInv, [Next]_vars PROVE IInv'
  OBVIOUS
<1>1. CASE UNCHANGED vars
  BY <1>1 DEF vars, IInv, Typed, Quiet, Tuned
<1>2. CASE Next
  BY <1>2, PushInv, WriteInv, BridgeInitInv, BridgeGoneInv, SendStartInv, SendInv,
     RecvStartInv, RecvInv DEF Next
<1> QED
  BY <1>1, <1>2

LEMMA Invariant == Spec => []IInv
  BY InitInv, NextInv, PTL DEF Spec
-----------------------------------------------------------------------------
\* The theorems.

\* Every field keeps its type: among them the three numbers of bridge_lc_init
\* and the address, id and group of every datagram under way.
THEOREM TypesHold == Spec => []TypeOK
<1>1. IInv => TypeOK
  <2> SUFFICES ASSUME IInv PROVE TypeOK
    OBVIOUS
  <2>1. Typed
    BY DEF IInv
  <2>2. ASSUME NEW msg \in net
        PROVE  /\ msg.src \in Switch
               /\ \A i \in 1 .. 4 : msg.to[i] \in Byte
               /\ {msg.gid, msg.group} \subseteq Gid \cup {0}
    <3>1. Datagram(msg)
      BY DEF IInv
    <3>2. \A i \in 1 .. 4 : msg.to[i] \in Byte
      <4>1. msg.group \in 0 .. MaxGid /\ msg.to = SendGroupIp(msg.group)
        BY <3>1, IdRange DEF Datagram
      <4>2. \A i \in 1 .. 4 : SendGroupIp(msg.group)[i] \in Byte
        BY ONLY <4>1, SendBytes, SMT
      <4> QED
        BY ONLY <4>1, <4>2, Zenon
    <3> QED
      BY <3>1, <3>2 DEF Datagram, Id
  <2>3. msg_gid \in [Switch -> Gid \cup {0, -1}]
    BY <2>1 DEF Typed, Id
  <2> QED
    BY <2>1, <2>2, <2>3 DEF Typed, TypeOK, Id
<1> QED
  BY <1>1, Invariant, PTL

\* Bridges send to local multicast addresses, and to the same one only in the
\* same group: the sum in bridge_lc_init never carries from one byte of the
\* group id into another, for all ids of up to three bytes.
THEOREM AddressesApart == Spec => []GroupAddresses
<1>1. IInv => GroupAddresses
  <2> SUFFICES ASSUME IInv, NEW s \in Switch, NEW t \in Switch
               PROVE  /\ IsLocalMulticast(SendGroupIp(gdt_gid[s]))
                      /\ SendGroupIp(gdt_gid[s]) = SendGroupIp(gdt_gid[t])
                            => gdt_gid[s] = gdt_gid[t]
    BY DEF GroupAddresses
  <2>1. gdt_gid[s] \in 0 .. MaxGid /\ gdt_gid[t] \in 0 .. MaxGid
    BY IdRange DEF IInv, Typed
  <2>2. SendGroupIp(gdt_gid[s])[1] = 239
    BY ONLY <2>1, SendBytes, SMT
  <2>3. IsLocalMulticast(SendGroupIp(gdt_gid[s]))
    BY ONLY <2>2, SMT DEF IsLocalMulticast
  <2>4. SendGroupIp(gdt_gid[s]) = SendGroupIp(gdt_gid[t]) => gdt_gid[s] = gdt_gid[t]
    BY ONLY <2>1, SendInjective, Zenon
  <2> QED
    BY ONLY <2>3, <2>4, Zenon
<1> QED
  BY <1>1, Invariant, PTL

\* Whom a bridge hears: only bridges of the group whose id is its own with the
\* two upper bytes exchanged, and only if the lowest byte is 0.  The lack of
\* htonl in the address that mc_recv joins has no other effect.
ExchangedOnly ==
    \A s \in Switch : \A h \in heard[s] :
        \E b1, b2 \in Byte : gdt_gid[s] = Number(0, b1, b2) /\ h[2] = Number(0, b2, b1)

THEOREM HeardAreExchanged == Spec => []ExchangedOnly
<1>1. IInv => ExchangedOnly
  <2> SUFFICES ASSUME IInv, NEW s \in Switch, NEW h \in heard[s]
               PROVE  \E b1, b2 \in Byte :
                        gdt_gid[s] = Number(0, b1, b2) /\ h[2] = Number(0, b2, b1)
    BY DEF ExchangedOnly
  <2>1. gdt_gid[s] \in Id /\ heard[s] \subseteq Switch \X Id
    BY DEF IInv, Typed
  <2>2. h[2] \in Id
    BY ONLY <2>1, h \in heard[s], SMT
  <2>3. gdt_gid[s] \in 0 .. MaxGid /\ h[2] \in 0 .. MaxGid
    BY <2>1, <2>2, IdRange
  <2>4. RecvGroupIp(gdt_gid[s]) = SendGroupIp(h[2])
    BY DEF IInv, Tuned
  <2> QED
    BY ONLY <2>3, <2>4, RecvIsSend, Zenon
<1> QED
  BY <1>1, Invariant, PTL

\* No bridge stores a filter from another group, through any pushes, restarts
\* and late datagrams, when ids have at most two bytes: the only id that then
\* equals its exchanged form is the default.  Beyond that it would not hold: a
\* bridge of group 256 listens where group 65536 sends.
THEOREM GroupsStayApart ==
    ASSUME Gid \subseteq 0 .. Max16
    PROVE  Spec => []GroupIsolation
<1>1. IInv => GroupIsolation
  <2> SUFFICES ASSUME IInv, NEW s \in Switch, NEW h \in heard[s]
               PROVE  h[2] = gdt_gid[s]
    BY DEF GroupIsolation
  <2>1. gdt_gid[s] \in Id /\ heard[s] \subseteq Switch \X Id
    BY DEF IInv, Typed
  <2>2. h[2] \in Id
    BY ONLY <2>1, h \in heard[s], SMT
  <2>3. 0 \in 0 .. Max16
    BY ONLY Ranges, SMT
  <2>4. gdt_gid[s] \in 0 .. Max16 /\ h[2] \in 0 .. Max16
    BY <2>1, <2>2, <2>3 DEF Id
  <2>5. RecvGroupIp(gdt_gid[s]) = SendGroupIp(h[2])
    BY DEF IInv, Tuned
  <2> QED
    BY ONLY <2>4, <2>5, RecvOwn, Zenon
<1> QED
  BY <1>1, Invariant, PTL
=============================================================================
