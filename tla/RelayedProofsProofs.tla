------------------------ MODULE RelayedProofsProofs ------------------------
(***************************************************************************)
(* Theorems about RelayedProofs.                                           *)
(***************************************************************************)
EXTENDS RelayedProofs, SequenceTheorems, TLAPS

-----------------------------------------------------------------------------
(* Texts and keys put together from their parts *)

\* A sequence that agrees with s and then with t is their concatenation.
LEMMA Join ==
  ASSUME NEW S, NEW s \in Seq(S), NEW t \in Seq(S), NEW u \in Seq(S),
         Len(u) = Len(s) + Len(t),
         \A i \in 1 .. Len(s) : u[i] = s[i],
         \A i \in 1 .. Len(t) : u[Len(s) + i] = t[i]
  PROVE  s \o t = u
<1>1. \A i \in 1 .. Len(u) : u[i] = IF i <= Len(s) THEN s[i] ELSE t[i - Len(s)]
  <2> SUFFICES ASSUME NEW i \in 1 .. Len(u), ~(i <= Len(s))
               PROVE  u[i] = t[i - Len(s)]
    OBVIOUS
  <2>1. i - Len(s) \in 1 .. Len(t) /\ Len(s) + (i - Len(s)) = i
    OBVIOUS
  <2> QED
    BY <2>1
<1> QED
  BY <1>1, ConcatProperties, SeqEqual

LEMMA Join1_1 ==
  ASSUME NEW a1, NEW b1
  PROVE  <<a1>> \o <<b1>> = <<a1, b1>>
<1> DEFINE S == {a1, b1}
           s == <<a1>>
           t == <<b1>>
           u == <<a1, b1>>
<1>1. s \in Seq(S) /\ t \in Seq(S) /\ u \in Seq(S)
  OBVIOUS
<1>2. Len(u) = Len(s) + Len(t)
  OBVIOUS
<1>3. \A i \in 1 .. Len(s) : u[i] = s[i]
  OBVIOUS
<1>4. \A i \in 1 .. Len(t) : u[Len(s) + i] = t[i]
  OBVIOUS
<1> HIDE DEF S, s, t, u
<1>5. s \o t = u
  BY <1>1, <1>2, <1>3, <1>4, Join
<1> QED
  BY <1>5 DEF s, t, u

LEMMA Join2_2 ==
  ASSUME NEW a1, NEW a2, NEW b1, NEW b2
  PROVE  <<a1, a2>> \o <<b1, b2>> = <<a1, a2, b1, b2>>
<1> DEFINE S == {a1, a2, b1, b2}
           s == <<a1, a2>>
           t == <<b1, b2>>
           u == <<a1, a2, b1, b2>>
<1>1. s \in Seq(S) /\ t \in Seq(S) /\ u \in Seq(S)
  OBVIOUS
<1>2. Len(u) = Len(s) + Len(t)
  OBVIOUS
<1>3. \A i \in 1 .. Len(s) : u[i] = s[i]
  OBVIOUS
<1>4. \A i \in 1 .. Len(t) : u[Len(s) + i] = t[i]
  OBVIOUS
<1> HIDE DEF S, s, t, u
<1>5. s \o t = u
  BY <1>1, <1>2, <1>3, <1>4, Join
<1> QED
  BY <1>5 DEF s, t, u

LEMMA Join4_1 ==
  ASSUME NEW a1, NEW a2, NEW a3, NEW a4, NEW b1
  PROVE  <<a1, a2, a3, a4>> \o <<b1>> = <<a1, a2, a3, a4, b1>>
<1> DEFINE S == {a1, a2, a3, a4, b1}
           s == <<a1, a2, a3, a4>>
           t == <<b1>>
           u == <<a1, a2, a3, a4, b1>>
<1>1. s \in Seq(S) /\ t \in Seq(S) /\ u \in Seq(S)
  OBVIOUS
<1>2. Len(u) = Len(s) + Len(t)
  OBVIOUS
<1>3. \A i \in 1 .. Len(s) : u[i] = s[i]
  OBVIOUS
<1>4. \A i \in 1 .. Len(t) : u[Len(s) + i] = t[i]
  OBVIOUS
<1> HIDE DEF S, s, t, u
<1>5. s \o t = u
  BY <1>1, <1>2, <1>3, <1>4, Join
<1> QED
  BY <1>5 DEF s, t, u

LEMMA Join4_2 ==
  ASSUME NEW a1, NEW a2, NEW a3, NEW a4, NEW b1, NEW b2
  PROVE  <<a1, a2, a3, a4>> \o <<b1, b2>> = <<a1, a2, a3, a4, b1, b2>>
<1> DEFINE S == {a1, a2, a3, a4, b1, b2}
           s == <<a1, a2, a3, a4>>
           t == <<b1, b2>>
           u == <<a1, a2, a3, a4, b1, b2>>
<1>1. s \in Seq(S) /\ t \in Seq(S) /\ u \in Seq(S)
  OBVIOUS
<1>2. Len(u) = Len(s) + Len(t)
  OBVIOUS
<1>3. \A i \in 1 .. Len(s) : u[i] = s[i]
  OBVIOUS
<1>4. \A i \in 1 .. Len(t) : u[Len(s) + i] = t[i]
  OBVIOUS
<1> HIDE DEF S, s, t, u
<1>5. s \o t = u
  BY <1>1, <1>2, <1>3, <1>4, Join
<1> QED
  BY <1>5 DEF s, t, u

LEMMA Join1_4 ==
  ASSUME NEW a1, NEW b1, NEW b2, NEW b3, NEW b4
  PROVE  <<a1>> \o <<b1, b2, b3, b4>> = <<a1, b1, b2, b3, b4>>
<1> DEFINE S == {a1, b1, b2, b3, b4}
           s == <<a1>>
           t == <<b1, b2, b3, b4>>
           u == <<a1, b1, b2, b3, b4>>
<1>1. s \in Seq(S) /\ t \in Seq(S) /\ u \in Seq(S)
  OBVIOUS
<1>2. Len(u) = Len(s) + Len(t)
  OBVIOUS
<1>3. \A i \in 1 .. Len(s) : u[i] = s[i]
  OBVIOUS
<1>4. \A i \in 1 .. Len(t) : u[Len(s) + i] = t[i]
  OBVIOUS
<1> HIDE DEF S, s, t, u
<1>5. s \o t = u
  BY <1>1, <1>2, <1>3, <1>4, Join
<1> QED
  BY <1>5 DEF s, t, u

LEMMA Join1_6 ==
  ASSUME NEW a1, NEW b1, NEW b2, NEW b3, NEW b4, NEW b5, NEW b6
  PROVE  <<a1>> \o <<b1, b2, b3, b4, b5, b6>> = <<a1, b1, b2, b3, b4, b5, b6>>
<1> DEFINE S == {a1, b1, b2, b3, b4, b5, b6}
           s == <<a1>>
           t == <<b1, b2, b3, b4, b5, b6>>
           u == <<a1, b1, b2, b3, b4, b5, b6>>
<1>1. s \in Seq(S) /\ t \in Seq(S) /\ u \in Seq(S)
  OBVIOUS
<1>2. Len(u) = Len(s) + Len(t)
  OBVIOUS
<1>3. \A i \in 1 .. Len(s) : u[i] = s[i]
  OBVIOUS
<1>4. \A i \in 1 .. Len(t) : u[Len(s) + i] = t[i]
  OBVIOUS
<1> HIDE DEF S, s, t, u
<1>5. s \o t = u
  BY <1>1, <1>2, <1>3, <1>4, Join
<1> QED
  BY <1>5 DEF s, t, u

LEMMA Join8_8 ==
  ASSUME NEW a1, NEW a2, NEW a3, NEW a4, NEW a5, NEW a6, NEW a7, NEW a8,
         NEW b1, NEW b2, NEW b3, NEW b4, NEW b5, NEW b6, NEW b7, NEW b8
  PROVE  <<a1, a2, a3, a4, a5, a6, a7, a8>> \o <<b1, b2, b3, b4, b5, b6, b7, b8>>
           = <<a1, a2, a3, a4, a5, a6, a7, a8, b1, b2, b3, b4, b5, b6, b7, b8>>
<1> DEFINE S == {a1, a2, a3, a4, a5, a6, a7, a8, b1, b2, b3, b4, b5, b6, b7, b8}
           s == <<a1, a2, a3, a4, a5, a6, a7, a8>>
           t == <<b1, b2, b3, b4, b5, b6, b7, b8>>
           u == <<a1, a2, a3, a4, a5, a6, a7, a8, b1, b2, b3, b4, b5, b6, b7, b8>>
<1>1. s \in Seq(S) /\ t \in Seq(S) /\ u \in Seq(S)
  OBVIOUS
<1>2. Len(u) = Len(s) + Len(t)
  OBVIOUS
<1>3. \A i \in 1 .. Len(s) : u[i] = s[i]
  OBVIOUS
<1>4. \A i \in 1 .. Len(t) : u[Len(s) + i] = t[i]
  OBVIOUS
<1> HIDE DEF S, s, t, u
<1>5. s \o t = u
  BY <1>1, <1>2, <1>3, <1>4, Join
<1> QED
  BY <1>5 DEF s, t, u

\* What is left of a concatenation without its first element
LEMMA TailOfJoin ==
  ASSUME NEW S, NEW x \in S, NEW s \in Seq(S), NEW t \in Seq(S)
  PROVE  Tail(<<x>> \o s \o t) = s \o t
<1> DEFINE u == s \o t
           v == <<x>> \o u
<1>1. <<x>> \in Seq(S) /\ Len(<<x>>) = 1
  OBVIOUS
<1>2. u \in Seq(S)
  BY ConcatProperties
<1>3. <<x>> \o s \o t = v
  BY <1>1, ConcatAssociative
<1> HIDE DEF u
<1>4. /\ v \in Seq(S) /\ Len(v) = 1 + Len(u)
      /\ \A i \in 1 .. 1 + Len(u) : v[i] = IF i <= 1 THEN <<x>>[i] ELSE u[i - 1]
  BY <1>1, <1>2, ConcatProperties
<1>5. Len(u) \in Nat
  BY <1>2, LenProperties
<1> HIDE DEF v
<1>6. v # <<>>
  BY <1>4, <1>5, EmptySeq
<1>7. /\ Tail(v) \in Seq(S) /\ Len(Tail(v)) = Len(v) - 1
      /\ \A i \in 1 .. Len(Tail(v)) : Tail(v)[i] = v[i + 1]
  BY <1>4, <1>6, HeadTailProperties
<1>8. \A i \in 1 .. Len(Tail(v)) : Tail(v)[i] = u[i]
  BY <1>4, <1>5, <1>7
<1>9. Len(Tail(v)) = Len(u)
  BY <1>4, <1>5, <1>7
<1>10. Tail(v) = u
  BY <1>2, <1>7, <1>8, <1>9, SeqEqual
<1> QED
  BY <1>3, <1>10 DEF u

-----------------------------------------------------------------------------
(* The order of heights and the order of their keys *)

TwoBytes == {n \in Nat : n < 65536}

Pairs == TwoBytes \X TwoBytes

LEMMA ByteOrder ==
  ASSUME NEW m \in TwoBytes, NEW n \in TwoBytes
  PROVE  /\ m < n <=> \/ m \div 256 < n \div 256
                      \/ m \div 256 = n \div 256 /\ m % 256 < n % 256
         /\ m = n <=> m \div 256 = n \div 256 /\ m % 256 = n % 256
         /\ m \div 256 \in Nat /\ m % 256 \in Nat
  BY DEF TwoBytes

KeyBytes(h) ==
  <<0, 0, 0, 0, 0, 0, h[1] \div 256, h[1] % 256,
    0, 0, 0, 0, 0, 0, h[2] \div 256, h[2] % 256>>

LEMMA KeyOf ==
  ASSUME NEW h
  PROVE  Tail(iteration_key(h)) = KeyBytes(h)
<1>1. ASSUME NEW word, NEW a, NEW b, NEW c, NEW d
      PROVE  Tail(<<word>> \o <<0, 0, 0, 0, 0, 0, a, b>> \o <<0, 0, 0, 0, 0, 0, c, d>>)
               = <<0, 0, 0, 0, 0, 0, a, b, 0, 0, 0, 0, 0, 0, c, d>>
  <2> DEFINE S == {word, 0, a, b, c, d}
             s == <<0, 0, 0, 0, 0, 0, a, b>>
             t == <<0, 0, 0, 0, 0, 0, c, d>>
  <2>1. word \in S /\ s \in Seq(S) /\ t \in Seq(S)
    OBVIOUS
  <2>2. s \o t = <<0, 0, 0, 0, 0, 0, a, b, 0, 0, 0, 0, 0, 0, c, d>>
    BY Join8_8
  <2> HIDE DEF S, s, t
  <2>3. Tail(<<word>> \o s \o t) = s \o t
    BY <2>1, TailOfJoin
  <2> QED
    BY <2>2, <2>3 DEF s, t
<1>2. iteration_key(h) = <<"iterateConsensusStates">>
        \o <<0, 0, 0, 0, 0, 0, h[1] \div 256, h[1] % 256>>
        \o <<0, 0, 0, 0, 0, 0, h[2] \div 256, h[2] % 256>>
  BY DEF iteration_key, ToBeBytes
<1> QED
  BY <1>1, <1>2 DEF KeyBytes

LEMMA KeyOrder ==
  ASSUME NEW h \in Pairs, NEW g \in Pairs
  PROVE  KeyLess(h, g) <=> HeightLess(h, g)
<1> h[1] \in TwoBytes /\ h[2] \in TwoBytes /\ g[1] \in TwoBytes /\ g[2] \in TwoBytes
  BY DEF Pairs
<1> DEFINE a == KeyBytes(h)
           b == KeyBytes(g)
<1>1. KeyLess(h, g) <=> BytesLess(a, b)
  <2>1. Tail(iteration_key(h)) = a /\ Tail(iteration_key(g)) = b
    BY KeyOf
  <2> HIDE DEF a, b
  <2> QED
    BY <2>1 DEF KeyLess
<1>2. DOMAIN a = 1 .. 16
  BY DEF KeyBytes
<1>3. \A i \in 1 .. 16 : i \notin {7, 8, 15, 16} => a[i] = 0 /\ b[i] = 0
  BY DEF KeyBytes
<1> HIDE DEF a, b
<1>4. BytesLess(a, b) <=>
        \/ a[7] < b[7]
        \/ a[7] = b[7] /\ a[8] < b[8]
        \/ a[7] = b[7] /\ a[8] = b[8] /\ a[15] < b[15]
        \/ a[7] = b[7] /\ a[8] = b[8] /\ a[15] = b[15] /\ a[16] < b[16]
  <2>1. ASSUME NEW i \in 1 .. 16, a[i] < b[i], \A j \in 1 .. i - 1 : a[j] = b[j]
        PROVE  \/ a[7] < b[7]
               \/ a[7] = b[7] /\ a[8] < b[8]
               \/ a[7] = b[7] /\ a[8] = b[8] /\ a[15] < b[15]
               \/ a[7] = b[7] /\ a[8] = b[8] /\ a[15] = b[15] /\ a[16] < b[16]
    <3>1. i \in {7, 8, 15, 16}
      BY <1>3, <2>1
    <3> QED
      BY <2>1, <3>1
  <2>2. ASSUME NEW i \in {7, 8, 15, 16}, a[i] < b[i],
               \A j \in {7, 8, 15, 16} : j < i => a[j] = b[j]
        PROVE  BytesLess(a, b)
    <3>1. \A j \in 1 .. i - 1 : a[j] = b[j]
      BY <1>3, <2>2
    <3> QED
      BY <1>2, <2>2, <3>1 DEF BytesLess
  <2> QED
    BY <1>2, <2>1, <2>2 DEF BytesLess
<1>5. /\ a[7] = h[1] \div 256 /\ a[8] = h[1] % 256
      /\ a[15] = h[2] \div 256 /\ a[16] = h[2] % 256
      /\ b[7] = g[1] \div 256 /\ b[8] = g[1] % 256
      /\ b[15] = g[2] \div 256 /\ b[16] = g[2] % 256
  BY DEF a, b, KeyBytes
<1> QED
  BY <1>1, <1>4, <1>5, ByteOrder DEF HeightLess

LEMMA HeightsArePairs ==
  ASSUME NEW h \in Heights
  PROVE  h \in Pairs
  BY NumbersAssumption, HeightsAssumption DEF Pairs, TwoBytes

LEMMA NeighboursAlike ==
  IterationFindsNeighbours
<1> SUFFICES ASSUME NEW c \in Clients, NEW h \in Heights
             PROVE  LET all == consensus_state_heights(c)
                    IN  /\ next_consensus_state(c, h) = Least({g \in all : KeyLess(h, g)}, KeyLess)
                        /\ prev_consensus_state(c, h)
                             = Least({g \in all : KeyLess(g, h)}, LAMBDA a, b : KeyLess(b, a))
  BY DEF IterationFindsNeighbours
<1> DEFINE all == consensus_state_heights(c)
<1>1. \A a, b \in Heights : KeyLess(a, b) <=> HeightLess(a, b)
  BY HeightsArePairs, KeyOrder
<1>2. all \subseteq Heights
  BY DEF consensus_state_heights
<1> HIDE DEF all
<1>3. {g \in all : HeightLess(h, g)} = {g \in all : KeyLess(h, g)}
  BY <1>1, <1>2
<1>4. {g \in all : HeightLess(g, h)} = {g \in all : KeyLess(g, h)}
  BY <1>1, <1>2
<1>5. ASSUME NEW some, some \subseteq Heights
      PROVE  /\ Least(some, HeightLess) = Least(some, KeyLess)
             /\ Least(some, LAMBDA a, b : HeightLess(b, a)) = Least(some, LAMBDA a, b : KeyLess(b, a))
  <2>1. \A a \in some : (\A g \in some \ {a} : HeightLess(a, g)) <=> (\A g \in some \ {a} : KeyLess(a, g))
    BY <1>1, <1>5
  <2>2. \A a \in some : (\A g \in some \ {a} : HeightLess(g, a)) <=> (\A g \in some \ {a} : KeyLess(g, a))
    BY <1>1, <1>5
  <2> QED
    BY <2>1, <2>2 DEF Least
<1>6. next_consensus_state(c, h) = Least({g \in all : KeyLess(h, g)}, KeyLess)
  BY <1>2, <1>3, <1>5 DEF next_consensus_state, all
<1>7. prev_consensus_state(c, h) = Least({g \in all : KeyLess(g, h)}, LAMBDA a, b : KeyLess(b, a))
  BY <1>2, <1>4, <1>5 DEF prev_consensus_state, all
<1> QED
  BY <1>6, <1>7 DEF all

\* In every state of a host, going through a client's consensus states by the
\* keys of ics24-host's iteration_key finds the neighbours that the testkit's
\* next_consensus_state and prev_consensus_state find by height.
THEOREM IterationFindsNeighboursHolds ==
  Spec => []IterationFindsNeighbours
<1>1. IterationFindsNeighbours
  BY NeighboursAlike
<1> QED
  BY <1>1, PTL

-----------------------------------------------------------------------------
(* The store, the blocks and the queries: what is true of a host *)

Kept(records) == IsStore(records) /\ HasClient(records)

BlocksInv ==
  /\ blocks \in Seq({blocks[i] : i \in DOMAIN blocks})
  /\ Len(blocks) \in 1 .. MaxBlocks
  /\ \A i \in DOMAIN blocks :
       /\ blocks[i].height = <<host_chain_id.revision_number, i>>
       /\ Kept(blocks[i].records)

\* The values a path may be claimed to have
Valued(p, v) ==
  /\ p[1] = "Connection" => ConnectionEndShape(v)
  /\ p[1] = "ChannelEnd" => ChannelEndShape(v)
  /\ p[1] \in {"SeqSend", "SeqRecv", "SeqAck"} => v \in Numbers

LEMMA ValuesAreValued ==
  ASSUME NEW p, NEW v, IsValue(p, v)
  PROVE  Valued(p, v)
  BY DEF IsValue, Valued, IsConnectionEnd, IsChannelEnd

AnswerKinds == {"ClientState", "ClientConsensusState", "ClientConnection", "Connection",
                "ChannelEnd", "SeqSend", "SeqRecv", "Commitment", "Ack", "Receipt"}

\* What an answer is about: the record whose proof it comes with
AnswerOK(q) ==
  /\ q.proved = q.path /\ PathShape(q.path) /\ q.path[1] \in AnswerKinds
  /\ Valued(q.path, q.value) \/ q.value = Missing

QueryInv ==
  /\ query.step \in {"none", "read", "answered"}
  /\ query.step \in {"read", "answered"} => AnswerOK(query)
  /\ query.step = "answered" =>
       /\ is_provable(query.path)
       /\ \E i \in DOMAIN blocks : blocks[i].height = query.height

HostInv == Kept(store) /\ BlocksInv /\ QueryInv

LEMMA InsertKept ==
  ASSUME NEW records, Kept(records), NEW path, NEW value, IsPath(path), IsValue(path, value)
  PROVE  Kept(Insert(records, path, value))
<1> DEFINE new == Insert(records, path, value)
<1>1. DOMAIN new = DOMAIN records \cup {path}
  BY DEF Insert
<1>2. \A p \in DOMAIN new : new[p] = IF p = path THEN value ELSE records[p]
  BY DEF Insert
<1> HIDE DEF new
<1>3. IsStore(new)
  BY <1>1, <1>2 DEF Kept, IsStore
<1>4. HasClient(new)
  BY <1>1 DEF Kept, HasClient
<1> QED
  BY <1>3, <1>4 DEF Kept, new

LEMMA RemoveKept ==
  ASSUME NEW records, Kept(records), NEW paths, \A p \in paths : p[1] # "ClientState"
  PROVE  Kept([p \in DOMAIN records \ paths |-> records[p]])
  BY DEF Kept, IsStore, HasClient

LEMMA PutKeeps ==
  ASSUME NEW path, NEW value, Kept(store), IsPath(path), IsValue(path, value), Put(path, value)
  PROVE  Kept(store') /\ UNCHANGED <<blocks, query>>
  BY InsertKept DEF Put, Write

LEMMA RemoveKeeps ==
  ASSUME NEW paths, Kept(store), \A p \in paths : p[1] # "ClientState", Remove(paths)
  PROVE  Kept(store') /\ UNCHANGED <<blocks, query>>
  BY RemoveKept DEF Remove, Write

StoreSteps == \/ StoreClients \/ StoreConnections \/ StoreChannels \/ StorePackets \/ StoreUpgrades
              \/ increase_client_counter \/ increase_connection_counter \/ increase_channel_counter

LEMMA StoreClientsKeeps ==
  ASSUME HostInv, StoreClients
  PROVE  Kept(store') /\ UNCHANGED <<blocks, query>>
<1> PICK c \in Clients :
      \/ \E cs \in ClientStates : store_client_state(c, cs)
      \/ \E h \in Heights :
           \/ store_consensus_state(c, h)
           \/ delete_consensus_state(c, h)
           \/ store_update_meta(c, h)
           \/ delete_update_meta(c, h)
      \/ \E id \in ConnectionIds : store_connection_to_client(c, id)
  BY DEF StoreClients
<1>a. validate_client_identifier(c)
  BY IdentifiersAssumption
<1>b. Kept(store)
  BY DEF HostInv
<1>1. ASSUME NEW cs \in ClientStates, store_client_state(c, cs)
      PROVE  Kept(store') /\ UNCHANGED <<blocks, query>>
  <2>1. IsPath(<<"ClientState", c>>)
    BY <1>a DEF IsPath, PathShape
  <2>2. IsValue(<<"ClientState", c>>, cs)
    BY BytesAssumption DEF IsValue
  <2> QED
    BY <1>1, <1>b, <2>1, <2>2, PutKeeps DEF store_client_state
<1>2. ASSUME NEW h \in Heights
      PROVE  /\ IsPath(<<"ClientConsensusState", c, h>>)
             /\ IsPath(<<"ClientUpdateTime", c, h>>)
             /\ IsPath(<<"ClientUpdateHeight", c, h>>)
  BY <1>a, HeightsAssumption DEF IsPath, PathShape
<1>3. ASSUME NEW h \in Heights, store_consensus_state(c, h)
      PROVE  Kept(store') /\ UNCHANGED <<blocks, query>>
  <2>1. IsValue(<<"ClientConsensusState", c, h>>, HostConsensusState(h))
    BY DEF IsValue, HostConsensusState
  <2> QED
    BY <1>2, <1>3, <1>b, <2>1, PutKeeps DEF store_consensus_state
<1>4. ASSUME NEW h \in Heights, delete_consensus_state(c, h)
      PROVE  Kept(store') /\ UNCHANGED <<blocks, query>>
  BY <1>4, <1>b, RemoveKeeps DEF delete_consensus_state
<1>5. ASSUME NEW h \in Heights, store_update_meta(c, h)
      PROVE  Kept(store') /\ UNCHANGED <<blocks, query>>
  <2>1. /\ IsValue(<<"ClientUpdateTime", c, h>>, Len(blocks))
        /\ IsValue(<<"ClientUpdateHeight", c, h>>, host_height)
    BY DEF IsValue
  <2>2. Kept(Insert(store, <<"ClientUpdateTime", c, h>>, Len(blocks)))
    BY <1>2, <1>b, <2>1, InsertKept
  <2>3. Kept(Insert(Insert(store, <<"ClientUpdateTime", c, h>>, Len(blocks)),
                    <<"ClientUpdateHeight", c, h>>, host_height))
    BY <1>2, <2>1, <2>2, InsertKept
  <2> QED
    BY <1>5, <2>3 DEF store_update_meta, Write
<1>6. ASSUME NEW h \in Heights, delete_update_meta(c, h)
      PROVE  Kept(store') /\ UNCHANGED <<blocks, query>>
  BY <1>6, <1>b, RemoveKeeps DEF delete_update_meta
<1>7. ASSUME NEW id \in ConnectionIds, store_connection_to_client(c, id)
      PROVE  Kept(store') /\ UNCHANGED <<blocks, query>>
  <2>1. IsPath(<<"ClientConnection", c>>)
    BY <1>a DEF IsPath, PathShape
  <2>2. IsValue(<<"ClientConnection", c>>, id)
    BY DEF IsValue
  <2> QED
    BY <1>7, <1>b, <2>1, <2>2, PutKeeps DEF store_connection_to_client
<1> QED
  BY <1>1, <1>3, <1>4, <1>5, <1>6, <1>7

LEMMA StoreConnectionsKeeps ==
  ASSUME HostInv, StoreConnections
  PROVE  Kept(store') /\ UNCHANGED <<blocks, query>>
<1> PICK id \in ConnectionIds : \E end \in ConnectionEnds[id] : store_connection(id, end)
  BY DEF StoreConnections
<1> PICK end \in ConnectionEnds[id] : store_connection(id, end)
  OBVIOUS
<1>1. IsPath(<<"Connection", id>>)
  BY IdentifiersAssumption DEF IsPath, PathShape
<1>2. IsValue(<<"Connection", id>>, end)
  BY EndsAssumption DEF IsValue
<1> QED
  BY <1>1, <1>2, PutKeeps DEF store_connection, HostInv

LEMMA ChannelPaths ==
  ASSUME NEW port \in PortIds, NEW ch \in ChannelIds
  PROVE  /\ IsPath(<<"ChannelEnd", port, ch>>) /\ IsPath(<<"SeqSend", port, ch>>)
         /\ IsPath(<<"SeqRecv", port, ch>>) /\ IsPath(<<"SeqAck", port, ch>>)
         /\ \A s \in Sequences :
              /\ IsPath(<<"Commitment", port, ch, s>>)
              /\ IsPath(<<"Receipt", port, ch, s>>)
              /\ IsPath(<<"Ack", port, ch, s>>)
  BY IdentifiersAssumption, SequencesAssumption DEF IsPath, PathShape

LEMMA StoreChannelsKeeps ==
  ASSUME HostInv, StoreChannels
  PROVE  Kept(store') /\ UNCHANGED <<blocks, query>>
<1> PICK port \in PortIds, ch \in ChannelIds :
      \/ \E end \in ChannelEnds[ch] : store_channel(port, ch, end)
      \/ \E s \in Sequences :
           \/ store_next_sequence_send(port, ch, s)
           \/ store_next_sequence_recv(port, ch, s)
           \/ store_next_sequence_ack(port, ch, s)
  BY DEF StoreChannels
<1>a. Kept(store)
  BY DEF HostInv
<1>1. ASSUME NEW end \in ChannelEnds[ch], store_channel(port, ch, end)
      PROVE  Kept(store') /\ UNCHANGED <<blocks, query>>
  <2>1. IsValue(<<"ChannelEnd", port, ch>>, end)
    BY EndsAssumption DEF IsValue
  <2> QED
    BY <1>1, <1>a, <2>1, ChannelPaths, PutKeeps DEF store_channel
<1>2. ASSUME NEW s \in Sequences, NEW kind \in {"SeqSend", "SeqRecv", "SeqAck"},
             Put(<<kind, port, ch>>, s)
      PROVE  Kept(store') /\ UNCHANGED <<blocks, query>>
  <2>1. IsValue(<<kind, port, ch>>, s)
    BY SequencesAssumption DEF IsValue
  <2>2. IsPath(<<kind, port, ch>>)
    BY ChannelPaths
  <2> QED
    BY <1>2, <1>a, <2>1, <2>2, PutKeeps
<1> QED
  BY <1>1, <1>2 DEF store_next_sequence_send, store_next_sequence_recv, store_next_sequence_ack

LEMMA StorePacketsKeeps ==
  ASSUME HostInv, StorePackets
  PROVE  Kept(store') /\ UNCHANGED <<blocks, query>>
<1> PICK port \in PortIds, ch \in ChannelIds, s \in Sequences :
      \/ \E commitment \in Commitments : store_packet_commitment(port, ch, s, commitment)
      \/ delete_packet_commitment(port, ch, s)
      \/ store_packet_receipt(port, ch, s)
      \/ \E ack \in Acks : store_packet_acknowledgement(port, ch, s, ack)
      \/ delete_packet_acknowledgement(port, ch, s)
  BY DEF StorePackets
<1>a. Kept(store)
  BY DEF HostInv
<1>1. ASSUME NEW kind \in {"Commitment", "Receipt", "Ack"}, NEW v, v # <<>>,
             Put(<<kind, port, ch, s>>, v)
      PROVE  Kept(store') /\ UNCHANGED <<blocks, query>>
  <2>1. IsValue(<<kind, port, ch, s>>, v)
    BY <1>1 DEF IsValue
  <2>2. IsPath(<<kind, port, ch, s>>)
    BY ChannelPaths
  <2> QED
    BY <1>1, <1>a, <2>1, <2>2, PutKeeps
<1>2. ASSUME NEW commitment \in Commitments, store_packet_commitment(port, ch, s, commitment)
      PROVE  Kept(store') /\ UNCHANGED <<blocks, query>>
  BY <1>1, <1>2, BytesAssumption DEF store_packet_commitment
<1>3. ASSUME store_packet_receipt(port, ch, s)
      PROVE  Kept(store') /\ UNCHANGED <<blocks, query>>
  <2>1. <<"Receipt">> # <<>>
    OBVIOUS
  <2> QED
    BY <1>1, <1>3, <2>1 DEF store_packet_receipt
<1>4. ASSUME NEW ack \in Acks, store_packet_acknowledgement(port, ch, s, ack)
      PROVE  Kept(store') /\ UNCHANGED <<blocks, query>>
  BY <1>1, <1>4, BytesAssumption DEF store_packet_acknowledgement
<1>5. ASSUME delete_packet_commitment(port, ch, s) \/ delete_packet_acknowledgement(port, ch, s)
      PROVE  Kept(store') /\ UNCHANGED <<blocks, query>>
  BY <1>5, <1>a, RemoveKeeps DEF delete_packet_commitment, delete_packet_acknowledgement
<1> QED
  BY <1>2, <1>3, <1>4, <1>5

LEMMA ParsedRevision ==
  ASSUME NEW text, NEW s \in parse_chain_id_string(text)
  PROVE  s[2] \in Nat
<1>1. PICK n \in Numbers : s = <<text[1], n>>
  BY DEF parse_chain_id_string, ParseU64
<1> QED
  BY <1>1, NumbersAssumption

LEMMA FromStrRevision ==
  ASSUME NEW text, NEW id \in ChainIdFromStr(text)
  PROVE  id.revision_number \in Nat
<1> DEFINE split == parse_chain_id_string(text)
<1>1. \/ \E s \in split : id = [id |-> text, revision_number |-> s[2]]
      \/ id = [id |-> text, revision_number |-> 0]
  BY DEF ChainIdFromStr, When
<1> HIDE DEF split
<1>2. \A s \in split : s[2] \in Nat
  BY ParsedRevision DEF split
<1> QED
  BY <1>1, <1>2

LEMMA HostRevision == host_chain_id.revision_number \in Nat
<1>1. host_chain_id \in ChainIdFromStr(ChainText)
  BY ChainIdAssumption DEF host_chain_id
<1> QED
  BY <1>1, FromStrRevision

LEMMA LastBlock ==
  ASSUME BlocksInv
  PROVE  /\ DOMAIN blocks = 1 .. Len(blocks)
         /\ Len(blocks) \in DOMAIN blocks
         /\ \A i \in DOMAIN blocks :
              blocks[i].height \in Nat \X Nat /\ blocks[i].height[2] \in 1 .. i
         /\ Kept(blocks[Len(blocks)].records)
<1>1. DOMAIN blocks = 1 .. Len(blocks)
  BY LenProperties DEF BlocksInv
<1>2. Len(blocks) \in DOMAIN blocks
  BY <1>1, BlocksAssumption DEF BlocksInv
<1>3. ASSUME NEW i \in DOMAIN blocks
      PROVE  blocks[i].height \in Nat \X Nat /\ blocks[i].height[2] \in 1 .. i
  <2>1. blocks[i].height = <<host_chain_id.revision_number, i>>
    BY DEF BlocksInv
  <2>2. i \in Nat \ {0}
    BY <1>1
  <2> QED
    BY <2>1, <2>2, HostRevision
<1> QED
  BY <1>1, <1>2, <1>3 DEF BlocksInv

\* The heights of the blocks have numerals.
LEMMA HeightsHaveNumerals ==
  ASSUME BlocksInv, NEW i \in DOMAIN blocks
  PROVE  blocks[i].height[2] \in Numbers
<1>1. i \in 1 .. Len(blocks) /\ blocks[i].height[2] \in 1 .. i
  BY LastBlock
<1>2. blocks[i].height[2] \in 1 .. MaxBlocks
  BY <1>1, BlocksAssumption DEF BlocksInv
<1> QED
  BY <1>2, BlocksAssumption

LEMMA StoreUpgradesKeeps ==
  ASSUME HostInv, StoreUpgrades
  PROVE  Kept(store') /\ UNCHANGED <<blocks, query>>
<1>1. PICK n \in 1 .. MaxBlocks, cs \in ClientStates :
        \/ store_upgraded_client_state(n, cs)
        \/ store_upgraded_consensus_state(n, cs)
  BY DEF StoreUpgrades
<1>2. n \in Numbers
  BY BlocksAssumption
<1>3. /\ IsPath(<<"UpgradedClientState", n>>)
      /\ IsPath(<<"UpgradedClientConsensusState", n>>)
  BY <1>2 DEF IsPath, PathShape
<1>4. /\ IsValue(<<"UpgradedClientState", n>>, cs)
      /\ IsValue(<<"UpgradedClientConsensusState", n>>, cs)
  BY BytesAssumption DEF IsValue
<1> QED
  BY <1>1, <1>3, <1>4, PutKeeps
  DEF HostInv, store_upgraded_client_state, store_upgraded_consensus_state

LEMMA IncreaseKeeps ==
  ASSUME HostInv,
         NEW kind \in {"NextClientSequence", "NextConnectionSequence", "NextChannelSequence"},
         Increase(<<kind>>)
  PROVE  Kept(store') /\ UNCHANGED <<blocks, query>>
<1> DEFINE n == Counter(store, <<kind>>)
<1>1. n \in Nat
  <2>1. ASSUME <<kind>> \in DOMAIN store
        PROVE  store[<<kind>>] \in Nat
    <3>1. IsValue(<<kind>>, store[<<kind>>])
      BY <2>1 DEF HostInv, Kept, IsStore
    <3> QED
      BY <3>1 DEF IsValue
  <2> QED
    BY <2>1 DEF Counter
<1>2. IsPath(<<kind>>)
  BY DEF IsPath, PathShape
<1>3. Put(<<kind>>, n + 1)
  BY DEF Increase
<1> HIDE DEF n
<1>4. IsValue(<<kind>>, n + 1)
  BY <1>1 DEF IsValue
<1> QED
  BY <1>2, <1>3, <1>4, PutKeeps DEF HostInv

LEMMA StoreStepsKeep ==
  ASSUME HostInv, StoreSteps
  PROVE  Kept(store') /\ UNCHANGED <<blocks, query>>
  BY StoreClientsKeeps, StoreConnectionsKeeps, StoreChannelsKeeps, StorePacketsKeeps,
     StoreUpgradesKeeps, IncreaseKeeps
  DEF StoreSteps, increase_client_counter, increase_connection_counter, increase_channel_counter

LEMMA HostInitInv ==
  ASSUME HostInit
  PROVE  HostInv
<1> DEFINE first == [height |-> <<host_chain_id.revision_number, 1>>, records |-> InitStore]
<1>1. blocks = <<first>> /\ store = InitStore /\ query = NoQuery
  BY DEF HostInit
<1>2. Kept(InitStore)
  BY InitStoreAssumption DEF Kept
<1>3. first.height = <<host_chain_id.revision_number, 1>> /\ first.records = InitStore
  OBVIOUS
<1> HIDE DEF first
<1>4. Len(blocks) = 1 /\ DOMAIN blocks = {1} /\ blocks[1] = first
  BY <1>1
<1>5. BlocksInv
  <2>1. blocks \in Seq({blocks[i] : i \in DOMAIN blocks})
    BY <1>1, <1>4
  <2>2. Len(blocks) \in 1 .. MaxBlocks
    BY <1>4, BlocksAssumption
  <2> QED
    BY <1>2, <1>3, <1>4, <2>1, <2>2 DEF BlocksInv
<1>6. QueryInv
  BY <1>1 DEF QueryInv, NoQuery
<1> QED
  BY <1>1, <1>2, <1>5, <1>6 DEF HostInv

LEMMA CommitKeeps ==
  ASSUME HostInv, Commit
  PROVE  HostInv'
<1> DEFINE n   == Len(blocks)
           h   == <<host_chain_id.revision_number, n + 1>>
           new == [height |-> h, records |-> store]
<1>1. /\ n \in Nat \ {0} /\ DOMAIN blocks = 1 .. n /\ n \in DOMAIN blocks
      /\ blocks \in Seq({blocks[i] : i \in DOMAIN blocks})
  BY LastBlock, BlocksAssumption DEF HostInv, BlocksInv
<1>2. host_height[2] = n
  BY <1>1 DEF HostInv, BlocksInv, host_height
<1>3. blocks' = Append(blocks, new) /\ UNCHANGED <<store, writes, query>>
  BY <1>2 DEF Commit
<1>4. n < MaxBlocks /\ query.step # "answered"
  BY DEF Commit
<1>5. new.height = h /\ new.records = store
  OBVIOUS
<1> HIDE DEF new
<1>6. /\ Len(blocks') = n + 1 /\ DOMAIN blocks' = 1 .. n + 1
      /\ \A i \in 1 .. n : blocks'[i] = blocks[i]
      /\ blocks'[n + 1] = new
  BY <1>1, <1>3
<1> HIDE DEF n
<1>7. BlocksInv'
  <2>1. blocks' \in Seq({blocks'[i] : i \in DOMAIN blocks'})
    <3> DEFINE S == {blocks[i] : i \in DOMAIN blocks}
               T == {blocks'[i] : i \in DOMAIN blocks'}
    <3>a. n + 1 \in DOMAIN blocks' /\ \A i \in 1 .. n : i \in DOMAIN blocks'
      BY <1>1, <1>6
    <3>b. new \in T
      BY <1>6, <3>a, Zenon
    <3>c. S \subseteq T
      <4> SUFFICES ASSUME NEW i \in 1 .. n
                   PROVE  blocks[i] \in T
        BY <1>1
      <4>1. blocks[i] = blocks'[i] /\ i \in DOMAIN blocks'
        BY <1>6, <3>a
      <4> QED
        BY <4>1, Zenon
    <3>1. S \subseteq T /\ new \in T
      BY <3>b, <3>c
    <3>2. blocks \in Seq(S)
      BY <1>1
    <3> HIDE DEF S, T
    <3>3. blocks \in Seq(T)
      BY <3>1, <3>2, SeqMonotonic
    <3>4. Append(blocks, new) \in Seq(T)
      BY <3>1, <3>3
    <3> QED
      BY <1>3, <3>4 DEF T
  <2>2. Len(blocks') \in 1 .. MaxBlocks
    BY <1>1, <1>4, <1>6, BlocksAssumption
  <2>3. ASSUME NEW i \in DOMAIN blocks'
        PROVE  /\ blocks'[i].height = <<host_chain_id.revision_number, i>>
               /\ Kept(blocks'[i].records)
    <3>1. CASE i \in 1 .. n
      BY <1>1, <1>6, <3>1 DEF HostInv, BlocksInv
    <3>2. CASE i = n + 1
      BY <1>5, <1>6, <3>2 DEF HostInv
    <3> QED
      BY <1>1, <1>6, <3>1, <3>2
  <2> QED
    BY <2>1, <2>2, <2>3, Zenon DEF BlocksInv
<1>8. QueryInv'
  BY <1>3, <1>4 DEF HostInv, QueryInv
<1>9. Kept(store)'
  BY <1>3 DEF HostInv
<1> QED
  BY <1>7, <1>8, <1>9 DEF HostInv

IsRead(q) == q.step = "read" /\ AnswerOK(q)

LEMMA LookupIsRead ==
  ASSUME IsStore(store), NEW p, PathShape(p), p[1] \in AnswerKinds, NEW q \in Lookup(p)
  PROVE  IsRead(q)
<1>1. /\ p \in DOMAIN store
      /\ q = [step |-> "read", path |-> p, value |-> store[p], proved |-> p]
  BY DEF Lookup, Answer, Get, When
<1>2. Valued(p, store[p])
  BY <1>1, ValuesAreValued DEF IsStore
<1>3. q.step = "read" /\ q.path = p /\ q.proved = p /\ q.value = store[p]
  BY <1>1
<1> QED
  BY <1>2, <1>3 DEF IsRead, AnswerOK

LEMMA ClientReads ==
  ASSUME IsStore(store), NEW c
  PROVE  /\ \A q \in query_client_state(c) : IsRead(q)
         /\ \A q \in query_client_connections(c) : IsRead(q)
         /\ \A h \in Heights : \A q \in query_consensus_state(c, h) : IsRead(q)
         /\ \A q \in query_latest_consensus_state(c) : IsRead(q)
<1>1. /\ PathShape(<<"ClientState", c>>) /\ <<"ClientState", c>>[1] \in AnswerKinds
      /\ PathShape(<<"ClientConnection", c>>) /\ <<"ClientConnection", c>>[1] \in AnswerKinds
  BY DEF PathShape, AnswerKinds
<1>2. \A q \in query_client_state(c) : IsRead(q)
  BY <1>1, LookupIsRead DEF query_client_state
<1>3. \A q \in query_client_connections(c) : IsRead(q)
  BY <1>1, LookupIsRead DEF query_client_connections
<1>4. ASSUME NEW h \in Heights, NEW q \in query_consensus_state(c, h)
      PROVE  IsRead(q)
  <2>1. /\ PathShape(<<"ClientConsensusState", c, h>>)
        /\ <<"ClientConsensusState", c, h>>[1] \in AnswerKinds
    BY HeightsAssumption DEF PathShape, AnswerKinds
  <2> QED
    BY <2>1, LookupIsRead DEF query_consensus_state
<1>5. ASSUME NEW q \in query_latest_consensus_state(c)
      PROVE  IsRead(q)
  <2>1. PICK h \in consensus_state_heights(c) : q \in query_consensus_state(c, h)
    BY DEF query_latest_consensus_state, Least
  <2> QED
    BY <1>4, <2>1 DEF consensus_state_heights
<1> QED
  BY <1>2, <1>3, <1>4, <1>5

LEMMA ConnectionReads ==
  ASSUME IsStore(store), NEW id
  PROVE  /\ \A q \in query_connection(id) : IsRead(q)
         /\ \A q \in query_connection_client_state(id) : IsRead(q)
         /\ \A h \in Heights : \A q \in query_connection_consensus_state(id, h) : IsRead(q)
<1>1. PathShape(<<"Connection", id>>) /\ <<"Connection", id>>[1] \in AnswerKinds
  BY DEF PathShape, AnswerKinds
<1>2. \A q \in query_connection(id) : IsRead(q)
  BY <1>1, LookupIsRead DEF query_connection
<1>3. ASSUME NEW q \in query_connection_client_state(id)
      PROVE  IsRead(q)
  <2>1. \E end : q \in query_client_state(end.client_id)
    BY DEF query_connection_client_state
  <2> QED
    BY <2>1, ClientReads
<1>4. ASSUME NEW h \in Heights, NEW q \in query_connection_consensus_state(id, h)
      PROVE  IsRead(q)
  <2>1. \E end : q \in query_consensus_state(end.client_id, h)
    BY DEF query_connection_consensus_state
  <2> QED
    BY <2>1, ClientReads
<1> QED
  BY <1>2, <1>3, <1>4

LEMMA ChannelReads ==
  ASSUME IsStore(store), NEW port, NEW ch
  PROVE  /\ \A q \in query_channel(port, ch) : IsRead(q)
         /\ \A q \in query_channel_client_state(port, ch) : IsRead(q)
         /\ \A h \in Heights : \A q \in query_channel_consensus_state(port, ch, h) : IsRead(q)
         /\ \A q \in query_next_sequence_send(port, ch) : IsRead(q)
         /\ \A q \in query_next_sequence_receive(port, ch) : IsRead(q)
<1>1. \A kind \in {"ChannelEnd", "SeqSend", "SeqRecv"} :
        PathShape(<<kind, port, ch>>) /\ <<kind, port, ch>>[1] \in AnswerKinds
  BY DEF PathShape, AnswerKinds
<1>2. \A q \in query_channel(port, ch) : IsRead(q)
  BY <1>1, LookupIsRead DEF query_channel
<1>3. \A q \in query_next_sequence_send(port, ch) : IsRead(q)
  BY <1>1, LookupIsRead DEF query_next_sequence_send
<1>4. \A q \in query_next_sequence_receive(port, ch) : IsRead(q)
  BY <1>1, LookupIsRead DEF query_next_sequence_receive
<1>5. ASSUME NEW q \in query_channel_client_state(port, ch)
      PROVE  IsRead(q)
  <2>1. \E id : q \in query_connection_client_state(id)
    BY DEF query_channel_client_state
  <2> QED
    BY <2>1, ConnectionReads
<1>6. ASSUME NEW h \in Heights, NEW q \in query_channel_consensus_state(port, ch, h)
      PROVE  IsRead(q)
  <2>1. \E id : q \in query_connection_consensus_state(id, h)
    BY DEF query_channel_consensus_state
  <2> QED
    BY <2>1, ConnectionReads
<1> QED
  BY <1>2, <1>3, <1>4, <1>5, <1>6

LEMMA PacketReads ==
  ASSUME IsStore(store), NEW port, NEW ch, NEW s \in Sequences
  PROVE  /\ \A q \in query_packet_commitment(port, ch, s) : IsRead(q)
         /\ \A q \in query_packet_receipt(port, ch, s) : IsRead(q)
         /\ \A q \in query_packet_acknowledgement(port, ch, s) : IsRead(q)
<1>1. \A kind \in {"Commitment", "Ack", "Receipt"} :
        PathShape(<<kind, port, ch, s>>) /\ <<kind, port, ch, s>>[1] \in AnswerKinds
  BY SequencesAssumption DEF PathShape, AnswerKinds
<1>2. \A q \in query_packet_commitment(port, ch, s) : IsRead(q)
  BY <1>1, LookupIsRead DEF query_packet_commitment
<1>3. \A q \in query_packet_acknowledgement(port, ch, s) : IsRead(q)
  BY <1>1, LookupIsRead DEF query_packet_acknowledgement
<1>4. ASSUME NEW q \in query_packet_receipt(port, ch, s)
      PROVE  IsRead(q)
  <2> DEFINE path == <<"Receipt", port, ch, s>>
  <2>1. PathShape(path) /\ path[1] \in AnswerKinds
    BY <1>1
  <2> HIDE DEF path
  <2>2. \/ q \in Lookup(path)
        \/ q = [step |-> "read", path |-> path, value |-> Missing, proved |-> path]
    BY DEF query_packet_receipt, path
  <2>3. CASE q \in Lookup(path)
    BY <2>1, <2>3, LookupIsRead
  <2>4. CASE q = [step |-> "read", path |-> path, value |-> Missing, proved |-> path]
    BY <2>1, <2>4 DEF IsRead, AnswerOK
  <2> QED
    BY <2>2, <2>3, <2>4
<1> QED
  BY <1>2, <1>3, <1>4

LEMMA QueryStepsKeep ==
  ASSUME HostInv, QueryRead \/ QueryProve \/ QueryDone
  PROVE  HostInv'
<1>1. UNCHANGED <<store, blocks>>
  BY DEF QueryRead, QueryProve, QueryDone
<1>2. ASSUME QueryRead
      PROVE  QueryInv'
  <2> IsStore(store)
    BY DEF HostInv, Kept
  <2>1. IsRead(query')
    <3>1. ASSUME NEW c \in Clients,
                 \/ query' \in query_client_state(c)
                 \/ query' \in query_latest_consensus_state(c)
                 \/ query' \in query_client_connections(c)
                 \/ \E h \in Heights : query' \in query_consensus_state(c, h)
          PROVE  IsRead(query')
      BY <3>1, ClientReads
    <3>2. ASSUME NEW id \in ConnectionIds,
                 \/ query' \in query_connection(id)
                 \/ query' \in query_connection_client_state(id)
                 \/ \E h \in Heights : query' \in query_connection_consensus_state(id, h)
          PROVE  IsRead(query')
      BY <3>2, ConnectionReads
    <3>3. ASSUME NEW port \in PortIds, NEW ch \in ChannelIds,
                 \/ query' \in query_channel(port, ch)
                 \/ query' \in query_channel_client_state(port, ch)
                 \/ \E h \in Heights : query' \in query_channel_consensus_state(port, ch, h)
                 \/ query' \in query_next_sequence_send(port, ch)
                 \/ query' \in query_next_sequence_receive(port, ch)
          PROVE  IsRead(query')
      BY <3>3, ChannelReads
    <3>4. ASSUME NEW port \in PortIds, NEW ch \in ChannelIds, NEW s \in Sequences,
                 \/ query' \in query_packet_commitment(port, ch, s)
                 \/ query' \in query_packet_receipt(port, ch, s)
                 \/ query' \in query_packet_acknowledgement(port, ch, s)
          PROVE  IsRead(query')
      BY <3>4, PacketReads
    <3> QED
      BY <1>2, <3>1, <3>2, <3>3, <3>4 DEF QueryRead
  <2> QED
    BY <2>1 DEF IsRead, QueryInv
<1>3. ASSUME QueryProve
      PROVE  QueryInv'
  <2> DEFINE block == blocks[Len(blocks)]
             sent  == [step |-> "answered", path |-> query.path, value |-> query.value,
                       proved |-> query.proved, height |-> block.height]
  <2>1. query.step = "read" /\ AnswerOK(query)
    BY <1>3 DEF QueryProve, HostInv, QueryInv
  <2>2. \/ query' = NoQuery
        \/ query' = sent /\ get_proof(block.records, query.proved) # {}
    BY <1>3 DEF QueryProve
  <2>3. CASE query' = NoQuery
    BY <2>3 DEF QueryInv, NoQuery
  <2>4. CASE query' = sent /\ get_proof(block.records, query.proved) # {}
    <3>1. is_provable(query.proved)
      BY <2>4 DEF get_proof, When
    <3>2. Len(blocks) \in DOMAIN blocks
      BY LastBlock DEF HostInv
    <3> HIDE DEF block
    <3>3. /\ query'.step = "answered" /\ query'.path = query.path /\ query'.proved = query.proved
          /\ query'.height = block.height /\ query'.value = query.value
      BY <2>4
    <3>4. AnswerOK(query')
      BY <2>1, <3>3 DEF AnswerOK
    <3>5. is_provable(query'.path)
      BY <2>1, <3>1, <3>3 DEF AnswerOK
    <3>6. \E i \in DOMAIN blocks' : blocks'[i].height = query'.height
      BY <1>1, <3>2, <3>3 DEF block
    <3> QED
      BY <3>3, <3>4, <3>5, <3>6 DEF QueryInv
  <2> QED
    BY <2>2, <2>3, <2>4
<1>4. ASSUME QueryDone
      PROVE  QueryInv'
  BY <1>4 DEF QueryDone, QueryInv, NoQuery
<1>5. Kept(store)' /\ BlocksInv'
  BY <1>1 DEF HostInv, BlocksInv
<1> QED
  BY <1>2, <1>3, <1>4, <1>5 DEF HostInv

LEMMA HostNextKeeps ==
  ASSUME HostInv, HostNext
  PROVE  HostInv'
<1>1. ASSUME StoreSteps
      PROVE  HostInv'
  <2>1. Kept(store') /\ UNCHANGED <<blocks, query>>
    BY <1>1, StoreStepsKeep
  <2> QED
    BY <2>1 DEF HostInv, BlocksInv, QueryInv
<1> QED
  BY <1>1, CommitKeeps, QueryStepsKeep DEF HostNext, StoreSteps

LEMMA HostUnchanged ==
  ASSUME HostInv, UNCHANGED hostVars
  PROVE  HostInv'
  BY DEF hostVars, HostInv, BlocksInv, QueryInv

\* What is in a host's store and in its blocks is of the type of its path, the
\* blocks are numbered one by one (advance_host_chain_height), and an answer is
\* about the record whose proof it comes with.
THEOREM HostInvHolds ==
  Spec => []HostInv
<1>1. Init => HostInv
  BY HostInitInv DEF Init
<1>2. HostInv /\ [Next]_vars => HostInv'
  <2> SUFFICES ASSUME HostInv, [Next]_vars
               PROVE  HostInv'
    OBVIOUS
  <2>1. ASSUME HostStep
        PROVE  HostInv'
    BY <2>1, HostNextKeeps DEF HostStep
  <2>2. ASSUME Receive \/ NextMessage \/ UNCHANGED vars
        PROVE  HostInv'
    BY <2>2, HostUnchanged DEF Receive, NextMessage, vars, hostVars
  <2> QED
    BY <2>1, <2>2 DEF Next
<1> QED
  BY <1>1, <1>2, PTL DEF Spec

-----------------------------------------------------------------------------
(* The text of a path names no other path *)

LEMMA CounterTexts ==
  /\ PathText(<<"NextClientSequence">>) = <<"nextClientSequence">>
  /\ PathText(<<"NextConnectionSequence">>) = <<"nextConnectionSequence">>
  /\ PathText(<<"NextChannelSequence">>) = <<"nextChannelSequence">>
  BY DEF PathText, NextSequenceText

LEMMA ShortTexts ==
  ASSUME NEW a
  PROVE  /\ PathText(<<"ClientState", a>>) = <<"clients", a, "clientState">>
         /\ PathText(<<"ClientConnection", a>>) = <<"clients", a, "connections">>
         /\ PathText(<<"Connection", a>>) = <<"connections", a>>
         /\ PathText(<<"UpgradedClientState", a>>)
              = <<"upgradedIBCState", Numeral(a), "upgradedClient">>
         /\ PathText(<<"UpgradedClientConsensusState", a>>)
              = <<"upgradedIBCState", Numeral(a), "upgradedConsState">>
  BY DEF PathText, ClientStateText, ClientConnectionText, ConnectionText, UpgradeClientText

LEMMA UpdateTexts ==
  ASSUME NEW a, NEW b
  PROVE  /\ PathText(<<"ClientConsensusState", a, b>>)
              = <<"clients", a, "consensusStates", HeightText(b)>>
         /\ PathText(<<"ClientUpdateTime", a, b>>)
              = <<"clients", a, "consensusStates", HeightText(b), "processedTime">>
         /\ PathText(<<"ClientUpdateHeight", a, b>>)
              = <<"clients", a, "consensusStates", HeightText(b), "processedHeight">>
<1>1. \A word : <<"clients", a, "consensusStates", HeightText(b)>> \o <<word>>
                  = <<"clients", a, "consensusStates", HeightText(b), word>>
  BY Join4_1
<1>2. PathText(<<"ClientUpdateTime", a, b>>)
        = <<"clients", a, "consensusStates", HeightText(b)>> \o <<"processedTime">>
  BY DEF PathText, ClientUpdateTimeText, ClientConsensusStateText
<1>3. PathText(<<"ClientUpdateHeight", a, b>>)
        = <<"clients", a, "consensusStates", HeightText(b)>> \o <<"processedHeight">>
  BY DEF PathText, ClientUpdateHeightText, ClientConsensusStateText
<1>4. PathText(<<"ClientConsensusState", a, b>>)
        = <<"clients", a, "consensusStates", HeightText(b)>>
  BY DEF PathText, ClientConsensusStateText
<1> QED
  BY <1>1, <1>2, <1>3, <1>4

LEMMA ChannelPart ==
  ASSUME NEW p
  PROVE  ChannelText(p) = <<"ports", p[2], "channels", p[3]>>
  BY Join2_2 DEF ChannelText, PortText

LEMMA ChannelTexts ==
  ASSUME NEW a, NEW b
  PROVE  /\ PathText(<<"ChannelEnd", a, b>>) = <<"channelEnds", "ports", a, "channels", b>>
         /\ PathText(<<"SeqSend", a, b>>) = <<"nextSequenceSend", "ports", a, "channels", b>>
         /\ PathText(<<"SeqRecv", a, b>>) = <<"nextSequenceRecv", "ports", a, "channels", b>>
         /\ PathText(<<"SeqAck", a, b>>) = <<"nextSequenceAck", "ports", a, "channels", b>>
<1>1. \A word : <<word>> \o <<"ports", a, "channels", b>> = <<word, "ports", a, "channels", b>>
  BY Join1_4
<1>2. \A kind : ChannelText(<<kind, a, b>>) = <<"ports", a, "channels", b>>
  BY ChannelPart
<1>3. PathText(<<"ChannelEnd", a, b>>) = <<"channelEnds">> \o ChannelText(<<"ChannelEnd", a, b>>)
  BY DEF PathText, ChannelEndText
<1>4. PathText(<<"SeqSend", a, b>>) = <<"nextSequenceSend">> \o ChannelText(<<"SeqSend", a, b>>)
  BY DEF PathText, SeqSendText
<1>5. PathText(<<"SeqRecv", a, b>>) = <<"nextSequenceRecv">> \o ChannelText(<<"SeqRecv", a, b>>)
  BY DEF PathText, SeqRecvText
<1>6. PathText(<<"SeqAck", a, b>>) = <<"nextSequenceAck">> \o ChannelText(<<"SeqAck", a, b>>)
  BY DEF PathText, SeqAckText
<1> QED
  BY <1>1, <1>2, <1>3, <1>4, <1>5, <1>6

LEMMA PacketTexts ==
  ASSUME NEW a, NEW b, NEW n
  PROVE  /\ PathText(<<"Commitment", a, b, n>>)
              = <<"commitments", "ports", a, "channels", b, "sequences", Numeral(n)>>
         /\ PathText(<<"Ack", a, b, n>>)
              = <<"acks", "ports", a, "channels", b, "sequences", Numeral(n)>>
         /\ PathText(<<"Receipt", a, b, n>>)
              = <<"receipts", "ports", a, "channels", b, "sequences", Numeral(n)>>
<1>1. \A word : <<word>> \o <<"ports", a, "channels", b, "sequences", Numeral(n)>>
                  = <<word, "ports", a, "channels", b, "sequences", Numeral(n)>>
  BY Join1_6
<1>2. \A kind : PacketText(<<kind, a, b, n>>)
                  = <<"ports", a, "channels", b, "sequences", Numeral(n)>>
  <2> TAKE kind
  <2>1. ChannelText(<<kind, a, b, n>>) = <<"ports", a, "channels", b>>
    BY ChannelPart
  <2>2. PacketText(<<kind, a, b, n>>) = <<"ports", a, "channels", b>> \o <<"sequences", Numeral(n)>>
    BY <2>1 DEF PacketText
  <2> QED
    BY <2>2, Join4_2
<1>3. PathText(<<"Commitment", a, b, n>>) = <<"commitments">> \o PacketText(<<"Commitment", a, b, n>>)
  BY DEF PathText, CommitmentText
<1>4. PathText(<<"Ack", a, b, n>>) = <<"acks">> \o PacketText(<<"Ack", a, b, n>>)
  BY DEF PathText, AckText
<1>5. PathText(<<"Receipt", a, b, n>>) = <<"receipts">> \o PacketText(<<"Receipt", a, b, n>>)
  BY DEF PathText, ReceiptText
<1> QED
  BY <1>1, <1>2, <1>3, <1>4, <1>5

\* What a text says of its path's kind: its length and its own words
KindOf(t) ==
  IF Len(t) = 1 THEN IF t[1] = "nextClientSequence" THEN "NextClientSequence"
                     ELSE IF t[1] = "nextConnectionSequence" THEN "NextConnectionSequence"
                     ELSE "NextChannelSequence"
  ELSE IF Len(t) = 2 THEN "Connection"
  ELSE IF Len(t) = 3 THEN IF t[3] = "clientState" THEN "ClientState"
                          ELSE IF t[3] = "connections" THEN "ClientConnection"
                          ELSE IF t[3] = "upgradedClient" THEN "UpgradedClientState"
                          ELSE "UpgradedClientConsensusState"
  ELSE IF Len(t) = 4 THEN "ClientConsensusState"
  ELSE IF Len(t) = 5 THEN IF t[1] = "channelEnds" THEN "ChannelEnd"
                          ELSE IF t[1] = "nextSequenceSend" THEN "SeqSend"
                          ELSE IF t[1] = "nextSequenceRecv" THEN "SeqRecv"
                          ELSE IF t[1] = "nextSequenceAck" THEN "SeqAck"
                          ELSE IF t[5] = "processedTime" THEN "ClientUpdateTime"
                          ELSE "ClientUpdateHeight"
  ELSE IF t[1] = "commitments" THEN "Commitment"
  ELSE IF t[1] = "acks" THEN "Ack" ELSE "Receipt"

LEMMA KindRead ==
  ASSUME NEW p, PathShape(p)
  PROVE  KindOf(PathText(p)) = p[1]
<1>1. CASE p \in {<<"NextClientSequence">>, <<"NextConnectionSequence">>, <<"NextChannelSequence">>}
  BY <1>1, CounterTexts DEF KindOf
<1>2. CASE p[1] \in {"ClientState", "ClientConnection", "Connection"} /\ p = <<p[1], p[2]>>
  <2>1. PICK a : p = <<p[1], a>>
    BY <1>2
  <2>2. CASE p[1] = "ClientState"
    <3>1. p = <<"ClientState", a>>
      BY <2>1, <2>2
    <3>2. PathText(p) = <<"clients", a, "clientState">>
      BY <3>1, ShortTexts
    <3> QED
      BY <3>1, <3>2 DEF KindOf
  <2>3. CASE p[1] = "ClientConnection"
    <3>1. p = <<"ClientConnection", a>>
      BY <2>1, <2>3
    <3>2. PathText(p) = <<"clients", a, "connections">>
      BY <3>1, ShortTexts
    <3> QED
      BY <3>1, <3>2 DEF KindOf
  <2>4. CASE p[1] = "Connection"
    <3>1. p = <<"Connection", a>>
      BY <2>1, <2>4
    <3>2. PathText(p) = <<"connections", a>>
      BY <3>1, ShortTexts
    <3> QED
      BY <3>1, <3>2 DEF KindOf
  <2> QED
    BY <1>2, <2>2, <2>3, <2>4
<1>3. CASE /\ p[1] \in {"ClientConsensusState", "ClientUpdateTime", "ClientUpdateHeight"}
           /\ p = <<p[1], p[2], p[3]>>
  <2>1. PICK a, b : p = <<p[1], a, b>>
    BY <1>3
  <2>2. CASE p[1] = "ClientConsensusState"
    <3>1. p = <<"ClientConsensusState", a, b>>
      BY <2>1, <2>2
    <3>2. PathText(p) = <<"clients", a, "consensusStates", HeightText(b)>>
      BY <3>1, UpdateTexts
    <3> QED
      BY <3>1, <3>2 DEF KindOf
  <2>3. CASE p[1] = "ClientUpdateTime"
    <3>1. p = <<"ClientUpdateTime", a, b>>
      BY <2>1, <2>3
    <3>2. PathText(p) = <<"clients", a, "consensusStates", HeightText(b), "processedTime">>
      BY <3>1, UpdateTexts
    <3> QED
      BY <3>1, <3>2 DEF KindOf
  <2>4. CASE p[1] = "ClientUpdateHeight"
    <3>1. p = <<"ClientUpdateHeight", a, b>>
      BY <2>1, <2>4
    <3>2. PathText(p) = <<"clients", a, "consensusStates", HeightText(b), "processedHeight">>
      BY <3>1, UpdateTexts
    <3> QED
      BY <3>1, <3>2 DEF KindOf
  <2> QED
    BY <1>3, <2>2, <2>3, <2>4
<1>4. CASE /\ p[1] \in {"ChannelEnd", "SeqSend", "SeqRecv", "SeqAck"}
           /\ p = <<p[1], p[2], p[3]>>
  <2>1. PICK a, b : p = <<p[1], a, b>>
    BY <1>4
  <2>2. CASE p[1] = "ChannelEnd"
    <3>1. p = <<"ChannelEnd", a, b>>
      BY <2>1, <2>2
    <3>2. PathText(p) = <<"channelEnds", "ports", a, "channels", b>>
      BY <3>1, ChannelTexts
    <3> QED
      BY <3>1, <3>2 DEF KindOf
  <2>3. CASE p[1] = "SeqSend"
    <3>1. p = <<"SeqSend", a, b>>
      BY <2>1, <2>3
    <3>2. PathText(p) = <<"nextSequenceSend", "ports", a, "channels", b>>
      BY <3>1, ChannelTexts
    <3> QED
      BY <3>1, <3>2 DEF KindOf
  <2>4. CASE p[1] = "SeqRecv"
    <3>1. p = <<"SeqRecv", a, b>>
      BY <2>1, <2>4
    <3>2. PathText(p) = <<"nextSequenceRecv", "ports", a, "channels", b>>
      BY <3>1, ChannelTexts
    <3> QED
      BY <3>1, <3>2 DEF KindOf
  <2>5. CASE p[1] = "SeqAck"
    <3>1. p = <<"SeqAck", a, b>>
      BY <2>1, <2>5
    <3>2. PathText(p) = <<"nextSequenceAck", "ports", a, "channels", b>>
      BY <3>1, ChannelTexts
    <3> QED
      BY <3>1, <3>2 DEF KindOf
  <2> QED
    BY <1>4, <2>2, <2>3, <2>4, <2>5
<1>5. CASE p[1] \in {"Commitment", "Ack", "Receipt"} /\ p = <<p[1], p[2], p[3], p[4]>>
  <2>1. PICK a, b, n : p = <<p[1], a, b, n>>
    BY <1>5
  <2>2. CASE p[1] = "Commitment"
    <3>1. p = <<"Commitment", a, b, n>>
      BY <2>1, <2>2
    <3>2. PathText(p) = <<"commitments", "ports", a, "channels", b, "sequences", Numeral(n)>>
      BY <3>1, PacketTexts
    <3> QED
      BY <3>1, <3>2 DEF KindOf
  <2>3. CASE p[1] = "Ack"
    <3>1. p = <<"Ack", a, b, n>>
      BY <2>1, <2>3
    <3>2. PathText(p) = <<"acks", "ports", a, "channels", b, "sequences", Numeral(n)>>
      BY <3>1, PacketTexts
    <3> QED
      BY <3>1, <3>2 DEF KindOf
  <2>4. CASE p[1] = "Receipt"
    <3>1. p = <<"Receipt", a, b, n>>
      BY <2>1, <2>4
    <3>2. PathText(p) = <<"receipts", "ports", a, "channels", b, "sequences", Numeral(n)>>
      BY <3>1, PacketTexts
    <3> QED
      BY <3>1, <3>2 DEF KindOf
  <2> QED
    BY <1>5, <2>2, <2>3, <2>4
<1>6. CASE /\ p[1] \in {"UpgradedClientState", "UpgradedClientConsensusState"}
           /\ p = <<p[1], p[2]>>
  <2>1. PICK a : p = <<p[1], a>>
    BY <1>6
  <2>2. CASE p[1] = "UpgradedClientState"
    <3>1. p = <<"UpgradedClientState", a>>
      BY <2>1, <2>2
    <3>2. PathText(p) = <<"upgradedIBCState", Numeral(a), "upgradedClient">>
      BY <3>1, ShortTexts
    <3> QED
      BY <3>1, <3>2 DEF KindOf
  <2>3. CASE p[1] = "UpgradedClientConsensusState"
    <3>1. p = <<"UpgradedClientConsensusState", a>>
      BY <2>1, <2>3
    <3>2. PathText(p) = <<"upgradedIBCState", Numeral(a), "upgradedConsState">>
      BY <3>1, ShortTexts
    <3> QED
      BY <3>1, <3>2 DEF KindOf
  <2> QED
    BY <1>6, <2>2, <2>3
<1> QED
  BY <1>1, <1>2, <1>3, <1>4, <1>5, <1>6 DEF PathShape

LEMMA NumeralsDiffer ==
  ASSUME NEW m \in Numbers, NEW n \in Numbers, Numeral(m) = Numeral(n)
  PROVE  m = n
  BY NumeralAssumption DEF NumeralsOf

LEMMA HeightTextsDiffer ==
  ASSUME NEW g \in Numbers \X Numbers, NEW h \in Numbers \X Numbers, HeightText(g) = HeightText(h)
  PROVE  g = h
<1> DEFINE m == g[1]
           n == g[2]
           i == h[1]
           j == h[2]
<1>1. m \in Numbers /\ n \in Numbers /\ i \in Numbers /\ j \in Numbers
  OBVIOUS
<1>2. Dashed(Numeral(m), Numeral(n)) = Dashed(Numeral(i), Numeral(j))
  BY DEF HeightText
<1>3. Numeral(i) \in NumeralsOf(i) /\ Numeral(j) \in NumeralsOf(j)
  BY DEF NumeralsOf
<1> HIDE DEF m, n, i, j
<1>4. m = i /\ n = j
  BY <1>1, <1>2, <1>3, DashAssumption
<1> QED
  BY <1>4 DEF m, n, i, j

\* No two paths share a text.
LEMMA TextsDiffer ==
  ASSUME NEW p, NEW q, PathShape(p), PathShape(q), PathText(p) = PathText(q)
  PROVE  p = q
<1>0. p[1] = q[1]
  BY KindRead
<1>1. CASE p \in {<<"NextClientSequence">>, <<"NextConnectionSequence">>, <<"NextChannelSequence">>}
  <2>1. q \in {<<"NextClientSequence">>, <<"NextConnectionSequence">>, <<"NextChannelSequence">>}
    BY <1>0, <1>1 DEF PathShape
  <2> QED
    BY <1>0, <1>1, <2>1
<1>2. CASE p[1] \in {"ClientState", "ClientConnection", "Connection"} /\ p = <<p[1], p[2]>>
  <2>1. PICK a : p = <<p[1], a>>
    BY <1>2
  <2>2. q = <<p[1], q[2]>>
    BY <1>0, <1>2 DEF PathShape
  <2>3. PICK b : q = <<p[1], b>>
    BY <2>2
  <2>4. a = b
    <3>1. CASE p[1] = "ClientState"
      <4>1. p = <<"ClientState", a>> /\ q = <<"ClientState", b>>
        BY <2>1, <2>3, <3>1
      <4>2. PathText(p) = <<"clients", a, "clientState">>
        BY <4>1, ShortTexts
      <4>3. PathText(q) = <<"clients", b, "clientState">>
        BY <4>1, ShortTexts
      <4>4. PathText(p)[2] = a
        BY <4>2
      <4>5. PathText(q)[2] = b
        BY <4>3
      <4> QED
        BY <4>4, <4>5
    <3>2. CASE p[1] = "ClientConnection"
      <4>1. p = <<"ClientConnection", a>> /\ q = <<"ClientConnection", b>>
        BY <2>1, <2>3, <3>2
      <4>2. PathText(p) = <<"clients", a, "connections">>
        BY <4>1, ShortTexts
      <4>3. PathText(q) = <<"clients", b, "connections">>
        BY <4>1, ShortTexts
      <4>4. PathText(p)[2] = a
        BY <4>2
      <4>5. PathText(q)[2] = b
        BY <4>3
      <4> QED
        BY <4>4, <4>5
    <3>3. CASE p[1] = "Connection"
      <4>1. p = <<"Connection", a>> /\ q = <<"Connection", b>>
        BY <2>1, <2>3, <3>3
      <4>2. PathText(p) = <<"connections", a>>
        BY <4>1, ShortTexts
      <4>3. PathText(q) = <<"connections", b>>
        BY <4>1, ShortTexts
      <4>4. PathText(p)[2] = a
        BY <4>2
      <4>5. PathText(q)[2] = b
        BY <4>3
      <4> QED
        BY <4>4, <4>5
    <3> QED
      BY <1>2, <3>1, <3>2, <3>3
  <2> QED
    BY <2>1, <2>3, <2>4
<1>3. CASE /\ p[1] \in {"ClientConsensusState", "ClientUpdateTime", "ClientUpdateHeight"}
           /\ p = <<p[1], p[2], p[3]>> /\ p[3] \in Numbers \X Numbers
  <2>1. PICK a, h : p = <<p[1], a, h>> /\ h \in Numbers \X Numbers
    BY <1>3
  <2>2. q = <<p[1], q[2], q[3]>> /\ q[3] \in Numbers \X Numbers
    BY <1>0, <1>3 DEF PathShape
  <2>3. PICK b, g : q = <<p[1], b, g>> /\ g \in Numbers \X Numbers
    BY <2>2
  <2>4. a = b /\ HeightText(h) = HeightText(g)
    <3>1. CASE p[1] = "ClientConsensusState"
      <4>1. p = <<"ClientConsensusState", a, h>> /\ q = <<"ClientConsensusState", b, g>>
        BY <2>1, <2>3, <3>1
      <4>2. PathText(p) = <<"clients", a, "consensusStates", HeightText(h)>>
        BY <4>1, UpdateTexts
      <4>3. PathText(q) = <<"clients", b, "consensusStates", HeightText(g)>>
        BY <4>1, UpdateTexts
      <4>4. PathText(p)[2] = a /\ PathText(p)[4] = HeightText(h)
        BY <4>2
      <4>5. PathText(q)[2] = b /\ PathText(q)[4] = HeightText(g)
        BY <4>3
      <4> QED
        BY <4>4, <4>5
    <3>2. CASE p[1] = "ClientUpdateTime"
      <4>1. p = <<"ClientUpdateTime", a, h>> /\ q = <<"ClientUpdateTime", b, g>>
        BY <2>1, <2>3, <3>2
      <4>2. PathText(p) = <<"clients", a, "consensusStates", HeightText(h), "processedTime">>
        BY <4>1, UpdateTexts
      <4>3. PathText(q) = <<"clients", b, "consensusStates", HeightText(g), "processedTime">>
        BY <4>1, UpdateTexts
      <4>4. PathText(p)[2] = a /\ PathText(p)[4] = HeightText(h)
        BY <4>2
      <4>5. PathText(q)[2] = b /\ PathText(q)[4] = HeightText(g)
        BY <4>3
      <4> QED
        BY <4>4, <4>5
    <3>3. CASE p[1] = "ClientUpdateHeight"
      <4>1. p = <<"ClientUpdateHeight", a, h>> /\ q = <<"ClientUpdateHeight", b, g>>
        BY <2>1, <2>3, <3>3
      <4>2. PathText(p) = <<"clients", a, "consensusStates", HeightText(h), "processedHeight">>
        BY <4>1, UpdateTexts
      <4>3. PathText(q) = <<"clients", b, "consensusStates", HeightText(g), "processedHeight">>
        BY <4>1, UpdateTexts
      <4>4. PathText(p)[2] = a /\ PathText(p)[4] = HeightText(h)
        BY <4>2
      <4>5. PathText(q)[2] = b /\ PathText(q)[4] = HeightText(g)
        BY <4>3
      <4> QED
        BY <4>4, <4>5
    <3> QED
      BY <1>3, <3>1, <3>2, <3>3
  <2> QED
    BY <2>1, <2>3, <2>4, HeightTextsDiffer
<1>4. CASE /\ p[1] \in {"ChannelEnd", "SeqSend", "SeqRecv", "SeqAck"}
           /\ p = <<p[1], p[2], p[3]>>
  <2>1. PICK a, b : p = <<p[1], a, b>>
    BY <1>4
  <2>2. q = <<p[1], q[2], q[3]>>
    BY <1>0, <1>4 DEF PathShape
  <2>3. PICK c, d : q = <<p[1], c, d>>
    BY <2>2
  <2>4. a = c /\ b = d
    <3>1. CASE p[1] = "ChannelEnd"
      <4>1. p = <<"ChannelEnd", a, b>> /\ q = <<"ChannelEnd", c, d>>
        BY <2>1, <2>3, <3>1
      <4>2. PathText(p) = <<"channelEnds", "ports", a, "channels", b>>
        BY <4>1, ChannelTexts
      <4>3. PathText(q) = <<"channelEnds", "ports", c, "channels", d>>
        BY <4>1, ChannelTexts
      <4>4. PathText(p)[3] = a /\ PathText(p)[5] = b
        BY <4>2
      <4>5. PathText(q)[3] = c /\ PathText(q)[5] = d
        BY <4>3
      <4> QED
        BY <4>4, <4>5
    <3>2. CASE p[1] = "SeqSend"
      <4>1. p = <<"SeqSend", a, b>> /\ q = <<"SeqSend", c, d>>
        BY <2>1, <2>3, <3>2
      <4>2. PathText(p) = <<"nextSequenceSend", "ports", a, "channels", b>>
        BY <4>1, ChannelTexts
      <4>3. PathText(q) = <<"nextSequenceSend", "ports", c, "channels", d>>
        BY <4>1, ChannelTexts
      <4>4. PathText(p)[3] = a /\ PathText(p)[5] = b
        BY <4>2
      <4>5. PathText(q)[3] = c /\ PathText(q)[5] = d
        BY <4>3
      <4> QED
        BY <4>4, <4>5
    <3>3. CASE p[1] = "SeqRecv"
      <4>1. p = <<"SeqRecv", a, b>> /\ q = <<"SeqRecv", c, d>>
        BY <2>1, <2>3, <3>3
      <4>2. PathText(p) = <<"nextSequenceRecv", "ports", a, "channels", b>>
        BY <4>1, ChannelTexts
      <4>3. PathText(q) = <<"nextSequenceRecv", "ports", c, "channels", d>>
        BY <4>1, ChannelTexts
      <4>4. PathText(p)[3] = a /\ PathText(p)[5] = b
        BY <4>2
      <4>5. PathText(q)[3] = c /\ PathText(q)[5] = d
        BY <4>3
      <4> QED
        BY <4>4, <4>5
    <3>4. CASE p[1] = "SeqAck"
      <4>1. p = <<"SeqAck", a, b>> /\ q = <<"SeqAck", c, d>>
        BY <2>1, <2>3, <3>4
      <4>2. PathText(p) = <<"nextSequenceAck", "ports", a, "channels", b>>
        BY <4>1, ChannelTexts
      <4>3. PathText(q) = <<"nextSequenceAck", "ports", c, "channels", d>>
        BY <4>1, ChannelTexts
      <4>4. PathText(p)[3] = a /\ PathText(p)[5] = b
        BY <4>2
      <4>5. PathText(q)[3] = c /\ PathText(q)[5] = d
        BY <4>3
      <4> QED
        BY <4>4, <4>5
    <3> QED
      BY <1>4, <3>1, <3>2, <3>3, <3>4
  <2> QED
    BY <2>1, <2>3, <2>4
<1>5. CASE /\ p[1] \in {"Commitment", "Ack", "Receipt"}
           /\ p = <<p[1], p[2], p[3], p[4]>> /\ p[4] \in Numbers
  <2>1. PICK a, b, m : p = <<p[1], a, b, m>> /\ m \in Numbers
    BY <1>5
  <2>2. q = <<p[1], q[2], q[3], q[4]>> /\ q[4] \in Numbers
    BY <1>0, <1>5 DEF PathShape
  <2>3. PICK c, d, n : q = <<p[1], c, d, n>> /\ n \in Numbers
    BY <2>2
  <2>4. a = c /\ b = d /\ Numeral(m) = Numeral(n)
    <3>1. CASE p[1] = "Commitment"
      <4>1. p = <<"Commitment", a, b, m>> /\ q = <<"Commitment", c, d, n>>
        BY <2>1, <2>3, <3>1
      <4>2. PathText(p) = <<"commitments", "ports", a, "channels", b, "sequences", Numeral(m)>>
        BY <4>1, PacketTexts
      <4>3. PathText(q) = <<"commitments", "ports", c, "channels", d, "sequences", Numeral(n)>>
        BY <4>1, PacketTexts
      <4>4. PathText(p)[3] = a /\ PathText(p)[5] = b /\ PathText(p)[7] = Numeral(m)
        BY <4>2
      <4>5. PathText(q)[3] = c /\ PathText(q)[5] = d /\ PathText(q)[7] = Numeral(n)
        BY <4>3
      <4> QED
        BY <4>4, <4>5
    <3>2. CASE p[1] = "Ack"
      <4>1. p = <<"Ack", a, b, m>> /\ q = <<"Ack", c, d, n>>
        BY <2>1, <2>3, <3>2
      <4>2. PathText(p) = <<"acks", "ports", a, "channels", b, "sequences", Numeral(m)>>
        BY <4>1, PacketTexts
      <4>3. PathText(q) = <<"acks", "ports", c, "channels", d, "sequences", Numeral(n)>>
        BY <4>1, PacketTexts
      <4>4. PathText(p)[3] = a /\ PathText(p)[5] = b /\ PathText(p)[7] = Numeral(m)
        BY <4>2
      <4>5. PathText(q)[3] = c /\ PathText(q)[5] = d /\ PathText(q)[7] = Numeral(n)
        BY <4>3
      <4> QED
        BY <4>4, <4>5
    <3>3. CASE p[1] = "Receipt"
      <4>1. p = <<"Receipt", a, b, m>> /\ q = <<"Receipt", c, d, n>>
        BY <2>1, <2>3, <3>3
      <4>2. PathText(p) = <<"receipts", "ports", a, "channels", b, "sequences", Numeral(m)>>
        BY <4>1, PacketTexts
      <4>3. PathText(q) = <<"receipts", "ports", c, "channels", d, "sequences", Numeral(n)>>
        BY <4>1, PacketTexts
      <4>4. PathText(p)[3] = a /\ PathText(p)[5] = b /\ PathText(p)[7] = Numeral(m)
        BY <4>2
      <4>5. PathText(q)[3] = c /\ PathText(q)[5] = d /\ PathText(q)[7] = Numeral(n)
        BY <4>3
      <4> QED
        BY <4>4, <4>5
    <3> QED
      BY <1>5, <3>1, <3>2, <3>3
  <2> QED
    BY <2>1, <2>3, <2>4, NumeralsDiffer
<1>6. CASE /\ p[1] \in {"UpgradedClientState", "UpgradedClientConsensusState"}
           /\ p = <<p[1], p[2]>> /\ p[2] \in Numbers
  <2>1. PICK m : p = <<p[1], m>> /\ m \in Numbers
    BY <1>6
  <2>2. q = <<p[1], q[2]>> /\ q[2] \in Numbers
    BY <1>0, <1>6 DEF PathShape
  <2>3. PICK n : q = <<p[1], n>> /\ n \in Numbers
    BY <2>2
  <2>4. Numeral(m) = Numeral(n)
    <3>1. CASE p[1] = "UpgradedClientState"
      <4>1. p = <<"UpgradedClientState", m>> /\ q = <<"UpgradedClientState", n>>
        BY <2>1, <2>3, <3>1
      <4>2. PathText(p) = <<"upgradedIBCState", Numeral(m), "upgradedClient">>
        BY <4>1, ShortTexts
      <4>3. PathText(q) = <<"upgradedIBCState", Numeral(n), "upgradedClient">>
        BY <4>1, ShortTexts
      <4>4. PathText(p)[2] = Numeral(m)
        BY <4>2
      <4>5. PathText(q)[2] = Numeral(n)
        BY <4>3
      <4> QED
        BY <4>4, <4>5
    <3>2. CASE p[1] = "UpgradedClientConsensusState"
      <4>1. p = <<"UpgradedClientConsensusState", m>> /\ q = <<"UpgradedClientConsensusState", n>>
        BY <2>1, <2>3, <3>2
      <4>2. PathText(p) = <<"upgradedIBCState", Numeral(m), "upgradedConsState">>
        BY <4>1, ShortTexts
      <4>3. PathText(q) = <<"upgradedIBCState", Numeral(n), "upgradedConsState">>
        BY <4>1, ShortTexts
      <4>4. PathText(p)[2] = Numeral(m)
        BY <4>2
      <4>5. PathText(q)[2] = Numeral(n)
        BY <4>3
      <4> QED
        BY <4>4, <4>5
    <3> QED
      BY <1>6, <3>1, <3>2
  <2> QED
    BY <2>1, <2>3, <2>4, NumeralsDiffer
<1> QED
  BY <1>1, <1>2, <1>3, <1>4, <1>5, <1>6 DEF PathShape

-----------------------------------------------------------------------------
(* The bytes of a value are no other value's *)

LEMMA ConnStateNumbers ==
  /\ ConnStateToI32("Uninitialized") = 0 /\ ConnStateToI32("Init") = 1
  /\ ConnStateToI32("TryOpen") = 2 /\ ConnStateToI32("Open") = 3
<1>1. /\ ConnStates[1] = "Uninitialized" /\ ConnStates[2] = "Init"
      /\ ConnStates[3] = "TryOpen" /\ ConnStates[4] = "Open"
  BY DEF ConnStates
<1>2. /\ (CHOOSE i \in 1 .. 4 : ConnStates[i] = "Uninitialized") = 1
      /\ (CHOOSE i \in 1 .. 4 : ConnStates[i] = "Init") = 2
      /\ (CHOOSE i \in 1 .. 4 : ConnStates[i] = "TryOpen") = 3
      /\ (CHOOSE i \in 1 .. 4 : ConnStates[i] = "Open") = 4
  BY <1>1
<1> QED
  BY <1>2 DEF ConnStateToI32

LEMMA ChanStateNumbers ==
  /\ ChanStateToI32("Init") = 1 /\ ChanStateToI32("TryOpen") = 2
  /\ ChanStateToI32("Open") = 3 /\ ChanStateToI32("Closed") = 4
<1>1. /\ ChanStates[1] = "Uninitialized" /\ ChanStates[2] = "Init"
      /\ ChanStates[3] = "TryOpen" /\ ChanStates[4] = "Open" /\ ChanStates[5] = "Closed"
  BY DEF ChanStates
<1>2. /\ (CHOOSE i \in 1 .. 5 : ChanStates[i] = "Init") = 2
      /\ (CHOOSE i \in 1 .. 5 : ChanStates[i] = "TryOpen") = 3
      /\ (CHOOSE i \in 1 .. 5 : ChanStates[i] = "Open") = 4
      /\ (CHOOSE i \in 1 .. 5 : ChanStates[i] = "Closed") = 5
  BY <1>1
<1> QED
  BY <1>2 DEF ChanStateToI32

LEMMA OrderNumbers ==
  OrderToI32("Unordered") = 1 /\ OrderToI32("Ordered") = 2
<1>1. Orders[1] = "None" /\ Orders[2] = "Unordered" /\ Orders[3] = "Ordered"
  BY DEF Orders
<1>2. /\ (CHOOSE i \in 1 .. 3 : Orders[i] = "Unordered") = 2
      /\ (CHOOSE i \in 1 .. 3 : Orders[i] = "Ordered") = 3
  BY <1>1
<1> QED
  BY <1>2 DEF OrderToI32

LEMMA ConnectionEndRaw ==
  ASSUME NEW end, ConnectionEndShape(end)
  PROVE  ConnectionEndToRaw(end) =
           [state |-> ConnStateToI32(end.state), client_id |-> end.client_id,
            versions |-> end.versions, delay_period |-> end.delay_period,
            counterparty |-> [client_id     |-> end.counterparty.client_id,
                              connection_id |-> OptionToText(end.counterparty.connection_id),
                              prefix        |-> end.counterparty.prefix]]
<1>1. ASSUME NEW st, NEW c, NEW v, NEW d, NEW cc, NEW ci, NEW cp,
             end = [state |-> st, client_id |-> c, versions |-> v, delay_period |-> d,
                    counterparty |-> [client_id |-> cc, connection_id |-> ci, prefix |-> cp]]
      PROVE  ConnectionEndToRaw(end) =
               [state |-> ConnStateToI32(st), client_id |-> c, versions |-> v, delay_period |-> d,
                counterparty |-> [client_id |-> cc, connection_id |-> OptionToText(ci), prefix |-> cp]]
  <2>1. end.state = st /\ end.counterparty = [client_id |-> cc, connection_id |-> ci, prefix |-> cp]
    BY <1>1
  <2>2. ConnCounterpartyToRaw(end.counterparty)
          = [client_id |-> cc, connection_id |-> OptionToText(ci), prefix |-> cp]
    BY <2>1 DEF ConnCounterpartyToRaw
  <2>3. ConnectionEndToRaw(end) = [end EXCEPT !.state = ConnStateToI32(st),
                                     !.counterparty = ConnCounterpartyToRaw(end.counterparty)]
    BY <2>1 DEF ConnectionEndToRaw
  <2> QED
    BY <1>1, <2>2, <2>3
<1>2. end = [state |-> end.state, client_id |-> end.client_id, versions |-> end.versions,
             delay_period |-> end.delay_period,
             counterparty |-> [client_id     |-> end.counterparty.client_id,
                               connection_id |-> end.counterparty.connection_id,
                               prefix        |-> end.counterparty.prefix]]
  BY Zenon DEF ConnectionEndShape
<1> QED
  BY <1>1, <1>2, Zenon

LEMMA ChannelEndRaw ==
  ASSUME NEW end, ChannelEndShape(end)
  PROVE  ChannelEndToRaw(end) =
           [state |-> ChanStateToI32(end.state), ordering |-> OrderToI32(end.ordering),
            counterparty |-> [port_id |-> end.remote.port_id,
                              channel_id |-> OptionToText(end.remote.channel_id)],
            connection_hops |-> end.connection_hops, version |-> end.version,
            upgrade_sequence |-> 0]
<1>1. end.remote = [port_id |-> end.remote.port_id, channel_id |-> end.remote.channel_id]
  <2>1. ASSUME NEW st, NEW o, NEW r, NEW h, NEW v,
               end = [state |-> st, ordering |-> o, remote |-> r, connection_hops |-> h,
                      version |-> v]
        PROVE  end.remote = r
    BY <2>1
  <2> QED
    BY <2>1, Zenon DEF ChannelEndShape
<1>2. ASSUME NEW remote, NEW po, NEW ch, remote = [port_id |-> po, channel_id |-> ch]
      PROVE  ChanCounterpartyToRaw(remote) = [port_id |-> po, channel_id |-> OptionToText(ch)]
  BY <1>2 DEF ChanCounterpartyToRaw
<1>3. ChanCounterpartyToRaw(end.remote)
        = [port_id |-> end.remote.port_id, channel_id |-> OptionToText(end.remote.channel_id)]
  BY <1>1, <1>2
<1> QED
  BY <1>3 DEF ChannelEndToRaw

LEMMA OptionTextsDiffer ==
  ASSUME NEW a, NEW b, a # "", b # "", OptionToText(a) = OptionToText(b)
  PROVE  a = b
  BY DEF OptionToText, NoId

LEMMA ConnectionEndsDiffer ==
  ASSUME NEW e, NEW f, ConnectionEndShape(e), ConnectionEndShape(f),
         ConnectionEndToRaw(e) = ConnectionEndToRaw(f)
  PROVE  e = f
<1> DEFINE r == ConnectionEndToRaw(e)
           s == ConnectionEndToRaw(f)
<1>1. /\ r.state = ConnStateToI32(e.state) /\ r.client_id = e.client_id
      /\ r.versions = e.versions /\ r.delay_period = e.delay_period
      /\ r.counterparty.client_id = e.counterparty.client_id
      /\ r.counterparty.connection_id = OptionToText(e.counterparty.connection_id)
      /\ r.counterparty.prefix = e.counterparty.prefix
  BY ConnectionEndRaw
<1>2. /\ s.state = ConnStateToI32(f.state) /\ s.client_id = f.client_id
      /\ s.versions = f.versions /\ s.delay_period = f.delay_period
      /\ s.counterparty.client_id = f.counterparty.client_id
      /\ s.counterparty.connection_id = OptionToText(f.counterparty.connection_id)
      /\ s.counterparty.prefix = f.counterparty.prefix
  BY ConnectionEndRaw
<1>3. r = s
  OBVIOUS
<1> HIDE DEF r, s
<1>4. e.state = f.state
  <2>1. ConnStateToI32(e.state) = ConnStateToI32(f.state)
    BY <1>1, <1>2, <1>3
  <2>2. /\ e.state \in {"Uninitialized", "Init", "TryOpen", "Open"}
        /\ f.state \in {"Uninitialized", "Init", "TryOpen", "Open"}
    BY DEF ConnectionEndShape
  <2> QED
    BY <2>1, <2>2, ConnStateNumbers
<1>5. e.counterparty.connection_id = f.counterparty.connection_id
  <2>1. e.counterparty.connection_id # "" /\ f.counterparty.connection_id # ""
    BY DEF ConnectionEndShape
  <2> QED
    BY <1>1, <1>2, <1>3, <2>1, OptionTextsDiffer
<1>6. /\ e = [state |-> e.state, client_id |-> e.client_id, versions |-> e.versions,
              delay_period |-> e.delay_period,
              counterparty |-> [client_id     |-> e.counterparty.client_id,
                                connection_id |-> e.counterparty.connection_id,
                                prefix        |-> e.counterparty.prefix]]
      /\ f = [state |-> f.state, client_id |-> f.client_id, versions |-> f.versions,
              delay_period |-> f.delay_period,
              counterparty |-> [client_id     |-> f.counterparty.client_id,
                                connection_id |-> f.counterparty.connection_id,
                                prefix        |-> f.counterparty.prefix]]
  BY Zenon DEF ConnectionEndShape
<1> QED
  BY <1>1, <1>2, <1>3, <1>4, <1>5, <1>6

LEMMA ChannelEndsDiffer ==
  ASSUME NEW e, NEW f, ChannelEndShape(e), ChannelEndShape(f),
         ChannelEndToRaw(e) = ChannelEndToRaw(f)
  PROVE  e = f
<1> DEFINE r == ChannelEndToRaw(e)
           s == ChannelEndToRaw(f)
<1>1. /\ r.state = ChanStateToI32(e.state) /\ r.ordering = OrderToI32(e.ordering)
      /\ r.counterparty.port_id = e.remote.port_id
      /\ r.counterparty.channel_id = OptionToText(e.remote.channel_id)
      /\ r.connection_hops = e.connection_hops /\ r.version = e.version
  BY ChannelEndRaw
<1>2. /\ s.state = ChanStateToI32(f.state) /\ s.ordering = OrderToI32(f.ordering)
      /\ s.counterparty.port_id = f.remote.port_id
      /\ s.counterparty.channel_id = OptionToText(f.remote.channel_id)
      /\ s.connection_hops = f.connection_hops /\ s.version = f.version
  BY ChannelEndRaw
<1>3. r = s
  OBVIOUS
<1> HIDE DEF r, s
<1>4. e.state = f.state
  <2>1. ChanStateToI32(e.state) = ChanStateToI32(f.state)
    BY <1>1, <1>2, <1>3
  <2>2. /\ e.state \in {"Init", "TryOpen", "Open", "Closed"}
        /\ f.state \in {"Init", "TryOpen", "Open", "Closed"}
    BY DEF ChannelEndShape
  <2> QED
    BY <2>1, <2>2, ChanStateNumbers
<1>5. e.ordering = f.ordering
  <2>1. OrderToI32(e.ordering) = OrderToI32(f.ordering)
    BY <1>1, <1>2, <1>3
  <2>2. e.ordering \in {"Unordered", "Ordered"} /\ f.ordering \in {"Unordered", "Ordered"}
    BY DEF ChannelEndShape
  <2> QED
    BY <2>1, <2>2, OrderNumbers
<1>6. e.remote.channel_id = f.remote.channel_id
  <2>1. e.remote.channel_id # "" /\ f.remote.channel_id # ""
    BY DEF ChannelEndShape
  <2> QED
    BY <1>1, <1>2, <1>3, <2>1, OptionTextsDiffer
<1>7. /\ e = [state |-> e.state, ordering |-> e.ordering,
              remote |-> [port_id |-> e.remote.port_id, channel_id |-> e.remote.channel_id],
              connection_hops |-> e.connection_hops, version |-> e.version]
      /\ f = [state |-> f.state, ordering |-> f.ordering,
              remote |-> [port_id |-> f.remote.port_id, channel_id |-> f.remote.channel_id],
              connection_hops |-> f.connection_hops, version |-> f.version]
  BY Zenon DEF ChannelEndShape
<1> QED
  BY <1>1, <1>2, <1>3, <1>4, <1>5, <1>6, <1>7

LEMMA SequencesDiffer ==
  ASSUME NEW m \in Numbers, NEW n \in Numbers, SequenceToVec(m) = SequenceToVec(n)
  PROVE  m = n
<1>1. m \in TwoBytes /\ n \in TwoBytes
  BY NumbersAssumption DEF TwoBytes
<1>2. /\ SequenceToVec(m)[7] = m \div 256 /\ SequenceToVec(m)[8] = m % 256
      /\ SequenceToVec(n)[7] = n \div 256 /\ SequenceToVec(n)[8] = n % 256
  BY DEF SequenceToVec, ToBeBytes
<1> QED
  BY <1>1, <1>2, ByteOrder

LEMMA BytesDiffer ==
  ASSUME NEW p, NEW v, NEW w, Valued(p, v), Valued(p, w), ValueBytes(p, v) = ValueBytes(p, w)
  PROVE  v = w
<1>1. CASE p[1] = "Connection"
  BY <1>1, ConnectionEndsDiffer DEF Valued, ValueBytes
<1>2. CASE p[1] = "ChannelEnd"
  BY <1>2, ChannelEndsDiffer DEF Valued, ValueBytes
<1>3. CASE p[1] \in {"SeqSend", "SeqRecv", "SeqAck"}
  BY <1>3, SequencesDiffer DEF Valued, ValueBytes
<1>4. CASE p[1] \notin {"Connection", "ChannelEnd", "SeqSend", "SeqRecv", "SeqAck"}
  BY <1>4 DEF ValueBytes
<1> QED
  BY <1>1, <1>2, <1>3, <1>4

-----------------------------------------------------------------------------
(* Merkle proofs show what is in a block, and all that is in it *)

\* The tree of a store has the bytes of every provable record of the store
\* under the text of its path, and no other text of a path.
LEMMA TreeHolds ==
  ASSUME NEW records, IsStore(records), NEW q, PathShape(q), is_provable(q)
  PROVE  /\ PathText(q) \in DOMAIN TreeOf(records, StoreOf(q)) <=> q \in DOMAIN records
         /\ q \in DOMAIN records =>
              TreeOf(records, StoreOf(q))[PathText(q)] = ValueBytes(q, records[q])
<1> DEFINE kept == {p \in DOMAIN records : is_provable(p) /\ StoreOf(p) = StoreOf(q)}
           texts == {PathText(p) : p \in kept}
           Found(text) == CHOOSE x \in kept : PathText(x) = text
           tree == [text \in texts |-> ValueBytes(Found(text), records[Found(text)])]
<1>1. TreeOf(records, StoreOf(q)) = tree
  BY DEF TreeOf
<1>2. \A p \in kept : PathShape(p)
  BY DEF IsStore, IsPath
<1>3. \A p \in kept : PathText(p) = PathText(q) => p = q
  BY <1>2, TextsDiffer
<1>4. q \in kept <=> q \in DOMAIN records
  OBVIOUS
<1> HIDE DEF kept
<1>5. PathText(q) \in texts <=> q \in kept
  BY <1>3
<1>6. q \in kept => Found(PathText(q)) = q
  BY <1>3
<1> HIDE DEF Found
<1>7. DOMAIN tree = texts
  OBVIOUS
<1>8. q \in kept => tree[PathText(q)] = ValueBytes(q, records[q])
  BY <1>5, <1>6
<1> QED
  BY <1>1, <1>4, <1>5, <1>7, <1>8

LEMMA StoresOfMultistore ==
  ASSUME NEW records
  PROVE  /\ DOMAIN Multistore(records) = {IbcPrefix, UpgradePrefix}
         /\ \A prefix \in {IbcPrefix, UpgradePrefix} :
              Multistore(records)[prefix] = TreeOf(records, prefix)
         /\ \A path : StoreOf(path) \in {IbcPrefix, UpgradePrefix}
  BY DEF Multistore, StoreOf

\* An entry for a key that the tree has, or for one that it has not
LeafMade(entry) ==
  \/ \E tree, key : key \in DOMAIN tree /\ entry = ExistProof(tree, key)
  \/ \E tree, key : key \notin DOMAIN tree /\ entry = NonExistProof(tree, key)

\* A proof that someone can make: a leaf in any tree at all, and a store in
\* some multistore
Made(proof) ==
  \E leaf, records, prefix :
    /\ LeafMade(leaf) /\ prefix \in {IbcPrefix, UpgradePrefix}
    /\ proof = <<leaf, ExistProof(Multistore(records), prefix)>>

IsClaim(claim) ==
  /\ PathShape(claim.path) /\ is_provable(claim.path)
  /\ claim.prefix = StoreOf(claim.path)
  /\ Valued(claim.path, claim.value) \/ claim.value = Missing

LEMMA KeysOf ==
  ASSUME NEW prefix, NEW text
  PROVE  apply_prefix(prefix, <<text>>) = <<prefix, text>>
  BY Join1_1 DEF apply_prefix

\* The store entry of a proof ties its leaf's tree to the block.
LEMMA LeafIsInBlock ==
  ASSUME NEW proof, Made(proof), NEW records, NEW prefix, NEW text, NEW value, NEW start \in {0, 1},
         start = 1 => value = proof[1].tree,
         verify_membership(proof, Specs, Multistore(records), <<prefix, text>>, value, start)
  PROVE  /\ prefix \in {IbcPrefix, UpgradePrefix} => proof[1].tree = TreeOf(records, prefix)
         /\ start = 0 => /\ proof[1].kind = "Exist" /\ proof[1].key = text
                         /\ proof[1].value = value
<1>1. PICK leaf, other, p : /\ LeafMade(leaf) /\ p \in {IbcPrefix, UpgradePrefix}
                            /\ proof = <<leaf, ExistProof(Multistore(other), p)>>
  BY DEF Made
<1>2. Len(proof) = 2 /\ proof[1] = leaf /\ proof[2] = ExistProof(Multistore(other), p)
  BY <1>1
<1>3. /\ \A i \in start + 1 .. 2 :
           /\ proof[i].kind = "Exist"
           /\ ics23_verify_membership(proof[i], proof[i].tree, <<prefix, text>>[3 - i],
                IF i = start + 1 THEN value ELSE proof[i - 1].tree)
      /\ Multistore(records) = proof[2].tree
  BY <1>2 DEF verify_membership, calculate_existence_root
<1>4. /\ proof[2].kind = "Exist"
      /\ ics23_verify_membership(proof[2], proof[2].tree, prefix, proof[1].tree)
  BY <1>3
<1>5. proof[2].key = prefix /\ proof[2].value = proof[1].tree
  BY <1>4 DEF ics23_verify_membership
<1>6. proof[2].key = p /\ proof[2].value = Multistore(other)[p] /\ proof[2].tree = Multistore(other)
  BY <1>2 DEF ExistProof
<1>7. prefix = p /\ proof[1].tree = Multistore(records)[prefix]
  BY <1>3, <1>5, <1>6
<1>8. ASSUME start = 0
      PROVE  /\ proof[1].kind = "Exist"
             /\ ics23_verify_membership(proof[1], proof[1].tree, text, value)
  BY <1>3, <1>8
<1> QED
  BY <1>7, <1>8, StoresOfMultistore DEF ics23_verify_membership

\* What a leaf says of its tree
LEMMA LeafSays ==
  ASSUME NEW leaf, LeafMade(leaf)
  PROVE  /\ leaf.kind = "Exist" => leaf.key \in DOMAIN leaf.tree /\ leaf.value = leaf.tree[leaf.key]
         /\ leaf.kind = "Nonexist" => leaf.key \notin DOMAIN leaf.tree
<1>1. ASSUME NEW tree, NEW key, key \in DOMAIN tree, leaf = ExistProof(tree, key)
      PROVE  /\ leaf.kind = "Exist" /\ leaf.key \in DOMAIN leaf.tree
             /\ leaf.value = leaf.tree[leaf.key]
  BY <1>1 DEF ExistProof
<1>2. ASSUME NEW tree, NEW key, key \notin DOMAIN tree, leaf = NonExistProof(tree, key)
      PROVE  leaf.kind = "Nonexist" /\ leaf.key \notin DOMAIN leaf.tree
  BY <1>2 DEF NonExistProof
<1> QED
  BY <1>1, <1>2 DEF LeafMade

LEMMA LeafOfMade ==
  ASSUME NEW proof, Made(proof)
  PROVE  LeafMade(proof[1])
<1>1. PICK leaf, other, p : /\ LeafMade(leaf)
                            /\ proof = <<leaf, ExistProof(Multistore(other), p)>>
  BY DEF Made
<1>2. proof[1] = leaf
  BY <1>1
<1> QED
  BY <1>1, <1>2

\* What is verified is so.
LEMMA Sound ==
  ASSUME NEW records, IsStore(records), NEW claim, IsClaim(claim), NEW proof, Made(proof),
         Verified(claim, proof, Multistore(records))
  PROVE  IsTrue(claim, records)
<1> DEFINE q    == claim.path
           text == PathText(q)
           tree == TreeOf(records, StoreOf(q))
<1>1. /\ PathShape(q) /\ is_provable(q) /\ claim.prefix = StoreOf(q)
      /\ claim.value # Missing => Valued(q, claim.value)
  BY DEF IsClaim
<1>2. /\ text \in DOMAIN tree <=> q \in DOMAIN records
      /\ q \in DOMAIN records => tree[text] = ValueBytes(q, records[q])
  BY <1>1, TreeHolds
<1>3. StoreOf(q) \in {IbcPrefix, UpgradePrefix}
  BY StoresOfMultistore
<1>4. apply_prefix(claim.prefix, <<text>>) = <<StoreOf(q), text>>
  BY <1>1, KeysOf
<1>5. LeafMade(proof[1])
  BY LeafOfMade
<1>6. CASE claim.value # Missing
  <2> DEFINE bytes == ValueBytes(q, claim.value)
  <2>1. verify_membership(proof, Specs, Multistore(records), <<StoreOf(q), text>>, bytes, 0)
    BY <1>4, <1>6 DEF Verified
  <2> HIDE DEF bytes
  <2>2. /\ proof[1].tree = tree /\ proof[1].kind = "Exist" /\ proof[1].key = text
        /\ proof[1].value = bytes
    BY <1>3, <2>1, LeafIsInBlock
  <2>3. text \in DOMAIN tree /\ bytes = tree[text]
    BY <1>5, <2>2, LeafSays
  <2>4. q \in DOMAIN records /\ ValueBytes(q, records[q]) = ValueBytes(q, claim.value)
    BY <1>2, <2>3 DEF bytes
  <2>5. Valued(q, records[q])
    BY <2>4, ValuesAreValued DEF IsStore
  <2>6. records[q] = claim.value
    BY <1>1, <1>6, <2>4, <2>5, BytesDiffer
  <2> QED
    BY <1>6, <2>4, <2>6 DEF IsTrue
<1>7. CASE claim.value = Missing
  <2>1. verify_non_membership(proof, Specs, Multistore(records), <<StoreOf(q), text>>)
    BY <1>4, <1>7 DEF Verified
  <2>2. /\ proof[1].kind = "Nonexist" /\ proof[1].key = text
        /\ verify_membership(proof, Specs, Multistore(records), <<StoreOf(q), text>>,
                             proof[1].tree, 1)
    BY <2>1 DEF verify_non_membership, ics23_verify_non_membership, calculate_non_existence_root
  <2>3. proof[1].tree = tree
    BY <1>3, <2>2, LeafIsInBlock
  <2>4. text \notin DOMAIN tree
    BY <1>5, <2>2, <2>3, LeafSays
  <2> QED
    BY <1>2, <1>7, <2>4 DEF IsTrue
<1> QED
  BY <1>6, <1>7

\* The paths that messages and answers are about
ClaimKinds == {"ClientState", "ClientConsensusState", "Connection", "ChannelEnd", "SeqSend",
               "SeqRecv", "Commitment", "Ack", "Receipt", "UpgradedClientState",
               "UpgradedClientConsensusState"}

LEMMA BytesThere ==
  ASSUME NEW p, NEW v, IsValue(p, v), p[1] \in ClaimKinds
  PROVE  ValueBytes(p, v) # <<>>
<1>1. CASE p[1] = "Connection"
  <2>1. ConnectionEndShape(v)
    BY <1>1 DEF IsValue, IsConnectionEnd
  <2>2. "state" \in DOMAIN ConnectionEndToRaw(v)
    BY <2>1, ConnectionEndRaw
  <2> QED
    BY <1>1, <2>2 DEF ValueBytes
<1>2. CASE p[1] = "ChannelEnd"
  <2>1. ChannelEndShape(v)
    BY <1>2 DEF IsValue, IsChannelEnd
  <2>2. "state" \in DOMAIN ChannelEndToRaw(v)
    BY <2>1, ChannelEndRaw
  <2> QED
    BY <1>2, <2>2 DEF ValueBytes
<1>3. CASE p[1] \in {"SeqSend", "SeqRecv"}
  BY <1>3 DEF ValueBytes, SequenceToVec, ToBeBytes
<1>4. CASE p[1] \in ClaimKinds \ {"Connection", "ChannelEnd", "SeqSend", "SeqRecv"}
  BY <1>4 DEF ValueBytes, IsValue, ClaimKinds
<1> QED
  BY <1>1, <1>2, <1>3, <1>4

\* The proof that the host gives
LEMMA ProofGiven ==
  ASSUME NEW records, NEW q, is_provable(q)
  PROVE  get_proof(records, q) =
           {<<IF PathText(q) \in DOMAIN TreeOf(records, StoreOf(q))
              THEN ExistProof(TreeOf(records, StoreOf(q)), PathText(q))
              ELSE NonExistProof(TreeOf(records, StoreOf(q)), PathText(q)),
              ExistProof(Multistore(records), StoreOf(q))>>}
<1>1. Multistore(records)[StoreOf(q)] = TreeOf(records, StoreOf(q))
  BY StoresOfMultistore
<1> QED
  BY <1>1 DEF get_proof, When

LEMMA HostTreeNotEmpty ==
  ASSUME NEW records, Kept(records)
  PROVE  DOMAIN TreeOf(records, IbcPrefix) # {}
<1>1. PICK p \in DOMAIN records : p[1] = "ClientState"
  BY DEF Kept, HasClient
<1>2. PathShape(p) /\ is_provable(p) /\ StoreOf(p) = IbcPrefix
  BY <1>1 DEF Kept, IsStore, IsPath, is_provable, StoreOf
<1>3. PathText(p) \in DOMAIN TreeOf(records, StoreOf(p))
  BY <1>1, <1>2, TreeHolds DEF Kept
<1> QED
  BY <1>2, <1>3

\* The host's proof of what is so is verified.
LEMMA Complete ==
  ASSUME NEW records, Kept(records), NEW claim,
         PathShape(claim.path), is_provable(claim.path), claim.path[1] \in ClaimKinds,
         claim.prefix = StoreOf(claim.path),
         claim.value = Missing => claim.prefix = IbcPrefix,
         IsTrue(claim, records), NEW proof \in get_proof(records, claim.path)
  PROVE  Verified(claim, proof, Multistore(records))
<1> DEFINE q    == claim.path
           text == PathText(q)
           tree == TreeOf(records, StoreOf(q))
           ms   == Multistore(records)
           leaf == IF text \in DOMAIN tree THEN ExistProof(tree, text) ELSE NonExistProof(tree, text)
<1>1. /\ text \in DOMAIN tree <=> q \in DOMAIN records
      /\ q \in DOMAIN records => tree[text] = ValueBytes(q, records[q])
  BY TreeHolds DEF Kept
<1>2. apply_prefix(claim.prefix, <<text>>) = <<StoreOf(q), text>>
  BY KeysOf
<1>3. proof = <<leaf, ExistProof(ms, StoreOf(q))>>
  BY ProofGiven
<1>4. ms[StoreOf(q)] = tree
  BY StoresOfMultistore
<1> HIDE DEF text, tree, ms, leaf
<1>5. /\ Len(proof) = 2 /\ proof[1] = leaf
      /\ proof[2].kind = "Exist" /\ proof[2].key = StoreOf(q) /\ proof[2].value = tree
      /\ proof[2].tree = ms
  BY <1>3, <1>4 DEF ExistProof
<1>6. Shaped(proof, Specs, <<StoreOf(q), text>>)
  BY <1>5 DEF Shaped, Specs
<1>7. CASE claim.value # Missing
  <2> DEFINE bytes == ValueBytes(q, claim.value)
  <2>1. q \in DOMAIN records /\ records[q] = claim.value
    BY <1>7 DEF IsTrue
  <2>2. bytes # <<>>
    <3>1. IsValue(q, claim.value)
      BY <2>1 DEF Kept, IsStore
    <3> QED
      BY <3>1, BytesThere
  <2>3. text \in DOMAIN tree /\ tree[text] = bytes
    BY <1>1, <2>1
  <2> HIDE DEF bytes
  <2>4. /\ proof[1].kind = "Exist" /\ proof[1].key = text /\ proof[1].value = bytes
        /\ proof[1].tree = tree
    BY <1>5, <2>3 DEF leaf, ExistProof
  <2>5. verify_membership(proof, Specs, ms, <<StoreOf(q), text>>, bytes, 0)
    <3>1. ASSUME NEW i \in 1 .. 2
          PROVE  /\ proof[i].kind = "Exist"
                 /\ ics23_verify_membership(proof[i], proof[i].tree, <<StoreOf(q), text>>[3 - i],
                                            IF i = 1 THEN bytes ELSE proof[i - 1].tree)
      <4>1. CASE i = 1
        BY <2>4, <4>1 DEF ics23_verify_membership
      <4>2. CASE i = 2
        BY <1>5, <2>4, <4>2 DEF ics23_verify_membership
      <4> QED
        BY <4>1, <4>2
    <3> QED
      BY <1>5, <1>6, <2>2, <3>1 DEF verify_membership, calculate_existence_root
  <2> QED
    BY <1>2, <1>7, <2>5 DEF Verified, bytes, text, ms
<1>8. CASE claim.value = Missing
  <2>1. text \notin DOMAIN tree
    BY <1>1, <1>8 DEF IsTrue
  <2>2. DOMAIN tree # {}
    BY <1>8, HostTreeNotEmpty DEF tree
  <2>3. /\ proof[1].kind = "Nonexist" /\ proof[1].key = text /\ proof[1].tree = tree
    BY <1>5, <2>1 DEF leaf, NonExistProof
  <2>4. tree # <<>>
    BY <2>2
  <2>5. verify_membership(proof, Specs, ms, <<StoreOf(q), text>>, tree, 1)
    <3>1. ASSUME NEW i \in 2 .. 2
          PROVE  /\ proof[i].kind = "Exist"
                 /\ ics23_verify_membership(proof[i], proof[i].tree, <<StoreOf(q), text>>[3 - i],
                                            IF i = 2 THEN tree ELSE proof[i - 1].tree)
      <4>1. i = 2
        OBVIOUS
      <4> QED
        BY <1>5, <4>1 DEF ics23_verify_membership
    <3> QED
      BY <1>5, <1>6, <2>4, <3>1 DEF verify_membership, calculate_existence_root
  <2>6. verify_non_membership(proof, Specs, ms, <<StoreOf(q), text>>)
    BY <1>6, <2>2, <2>3, <2>5
    DEF verify_non_membership, HasNeighbour, ics23_verify_non_membership,
        calculate_non_existence_root
  <2> QED
    BY <1>2, <1>8, <2>6 DEF Verified, text, ms
<1> QED
  BY <1>7, <1>8

LEMMA SomeProof ==
  ASSUME NEW records, NEW q, is_provable(q)
  PROVE  \E proof : get_proof(records, q) = {proof}
  BY ProofGiven, Zenon

LEMMA GivenIsMade ==
  ASSUME NEW records, NEW q, is_provable(q), NEW proof \in get_proof(records, q)
  PROVE  Made(proof)
<1> DEFINE tree == TreeOf(records, StoreOf(q))
           text == PathText(q)
           leaf == IF text \in DOMAIN tree THEN ExistProof(tree, text) ELSE NonExistProof(tree, text)
<1>1. proof = <<leaf, ExistProof(Multistore(records), StoreOf(q))>>
  BY ProofGiven
<1>2. StoreOf(q) \in {IbcPrefix, UpgradePrefix}
  BY StoresOfMultistore
<1> HIDE DEF tree, text
<1>3. LeafMade(leaf)
  BY DEF LeafMade
<1> HIDE DEF leaf
<1> QED
  BY <1>1, <1>2, <1>3 DEF Made

\* An answer verifies with its proof exactly when the block at the proof's
\* height holds the value that was read, whatever was written and committed
\* between the reading and the proving (ibc-query).
THEOREM AnswerVerifiesIffCurrentHolds ==
  Spec => []AnswerVerifiesIffCurrent
<1>1. HostInv => AnswerVerifiesIffCurrent
  <2> SUFFICES ASSUME HostInv, query.step = "answered"
               PROVE  AnswerVerifiesIffCurrent
    BY DEF AnswerVerifiesIffCurrent
  <2> DEFINE n     == CHOOSE i \in DOMAIN blocks : blocks[i].height = query.height
             held  == blocks[n].records
             claim == Claim("proof", StoreOf(query.path), query.path, query.value)
  <2>1. /\ AnswerOK(query) /\ is_provable(query.path)
        /\ \E i \in DOMAIN blocks : blocks[i].height = query.height
    BY DEF HostInv, QueryInv
  <2>2. n \in DOMAIN blocks
    BY <2>1
  <2> HIDE DEF n
  <2>3. Kept(held)
    BY <2>2 DEF HostInv, BlocksInv
  <2> HIDE DEF held
  <2>4. claim.path = query.path /\ claim.prefix = StoreOf(query.path) /\ claim.value = query.value
    BY DEF Claim
  <2>5. StoreOf(query.path) = IbcPrefix /\ query.path[1] \in ClaimKinds
    BY <2>1 DEF AnswerOK, AnswerKinds, is_provable, StoreOf, ClaimKinds
  <2> HIDE DEF claim
  <2>6. IsClaim(claim)
    BY <2>1, <2>4 DEF IsClaim, AnswerOK
  <2>7. query.proved = query.path
    BY <2>1 DEF AnswerOK
  <2>8. \E proof : proof \in get_proof(held, query.path)
    BY <2>1, SomeProof
  <2>9. ASSUME IsTrue(claim, held)
        PROVE  \E proof \in get_proof(held, query.proved) : Verified(claim, proof, Multistore(held))
    <3>1. PICK proof \in get_proof(held, query.path) : TRUE
      BY <2>8
    <3>2. PathShape(claim.path) /\ is_provable(claim.path)
      BY <2>6 DEF IsClaim
    <3>3. Verified(claim, proof, Multistore(held))
      BY <2>3, <2>4, <2>5, <2>9, <3>1, <3>2, Complete
    <3> QED
      BY <2>7, <3>1, <3>3
  <2>10. ASSUME NEW proof \in get_proof(held, query.proved), Verified(claim, proof, Multistore(held))
         PROVE  IsTrue(claim, held)
    <3>1. Made(proof)
      BY <2>1, <2>7, <2>10, GivenIsMade
    <3> QED
      BY <2>3, <2>6, <2>10, <3>1, Sound DEF Kept
  <2> QED
    BY <2>9, <2>10 DEF AnswerVerifiesIffCurrent, n, held, claim
<1> QED
  BY <1>1, HostInvHolds, PTL

-----------------------------------------------------------------------------
(* A message arrives as it was sent, or not at all *)

Kinds == {"client", "connection", "port", "channel", "any", "proof", "bytes", "height", "sequence",
          "zero", "empty", "packet", "version", "optional_version", "versions", "counterparty",
          "new_counterparty", "init_channel", "try_channel", "plain"}

\* What the fields of a message type are like
KindsOK(type, msg) ==
  \A f \in DOMAIN msg :
    /\ msg[f] \in Kinds
    /\ f = "proof_height" => msg[f] = "height"
    /\ msg[f] = "try_channel" => type = "ChannelOpenTry" /\ f = "channel"

LEMMA MessageTypes ==
  ASSUME NEW type \in DOMAIN Envelope
  PROVE  KindsOK(type, Envelope[type])
<1>1. DOMAIN Envelope =
        {"CreateClient", "UpdateClient", "SubmitMisbehaviour", "UpgradeClient",
         "ConnectionOpenInit", "ConnectionOpenTry", "ConnectionOpenAck", "ConnectionOpenConfirm",
         "ChannelOpenInit", "ChannelOpenTry", "ChannelOpenAck", "ChannelOpenConfirm",
         "ChannelCloseInit", "ChannelCloseConfirm", "RecvPacket", "Acknowledgement",
         "Timeout", "TimeoutOnClose"}
  BY DEF Envelope
<1>2. CASE type = "CreateClient"
  <2>1. Envelope[type] = MsgCreateClient
    BY <1>2 DEF Envelope
  <2>2. KindsOK("CreateClient", MsgCreateClient)
    BY DEF KindsOK, Kinds, MsgCreateClient
  <2> QED
    BY <1>2, <2>1, <2>2
<1>3. CASE type = "UpdateClient"
  <2>1. Envelope[type] = MsgUpdateClient
    BY <1>3 DEF Envelope
  <2>2. KindsOK("UpdateClient", MsgUpdateClient)
    BY DEF KindsOK, Kinds, MsgUpdateClient
  <2> QED
    BY <1>3, <2>1, <2>2
<1>4. CASE type = "SubmitMisbehaviour"
  <2>1. Envelope[type] = MsgSubmitMisbehaviour
    BY <1>4 DEF Envelope
  <2>2. KindsOK("SubmitMisbehaviour", MsgSubmitMisbehaviour)
    BY DEF KindsOK, Kinds, MsgSubmitMisbehaviour
  <2> QED
    BY <1>4, <2>1, <2>2
<1>5. CASE type = "UpgradeClient"
  <2>1. Envelope[type] = MsgUpgradeClient
    BY <1>5 DEF Envelope
  <2>2. KindsOK("UpgradeClient", MsgUpgradeClient)
    BY DEF KindsOK, Kinds, MsgUpgradeClient
  <2> QED
    BY <1>5, <2>1, <2>2
<1>6. CASE type = "ConnectionOpenInit"
  <2>1. Envelope[type] = MsgConnectionOpenInit
    BY <1>6 DEF Envelope
  <2>2. KindsOK("ConnectionOpenInit", MsgConnectionOpenInit)
    BY DEF KindsOK, Kinds, MsgConnectionOpenInit
  <2> QED
    BY <1>6, <2>1, <2>2
<1>7. CASE type = "ConnectionOpenTry"
  <2>1. Envelope[type] = MsgConnectionOpenTry
    BY <1>7 DEF Envelope
  <2>2. KindsOK("ConnectionOpenTry", MsgConnectionOpenTry)
    BY DEF KindsOK, Kinds, MsgConnectionOpenTry
  <2> QED
    BY <1>7, <2>1, <2>2
<1>8. CASE type = "ConnectionOpenAck"
  <2>1. Envelope[type] = MsgConnectionOpenAck
    BY <1>8 DEF Envelope
  <2>2. KindsOK("ConnectionOpenAck", MsgConnectionOpenAck)
    BY DEF KindsOK, Kinds, MsgConnectionOpenAck
  <2> QED
    BY <1>8, <2>1, <2>2
<1>9. CASE type = "ConnectionOpenConfirm"
  <2>1. Envelope[type] = MsgConnectionOpenConfirm
    BY <1>9 DEF Envelope
  <2>2. KindsOK("ConnectionOpenConfirm", MsgConnectionOpenConfirm)
    BY DEF KindsOK, Kinds, MsgConnectionOpenConfirm
  <2> QED
    BY <1>9, <2>1, <2>2
<1>10. CASE type = "ChannelOpenInit"
  <2>1. Envelope[type] = MsgChannelOpenInit
    BY <1>10 DEF Envelope
  <2>2. KindsOK("ChannelOpenInit", MsgChannelOpenInit)
    BY DEF KindsOK, Kinds, MsgChannelOpenInit
  <2> QED
    BY <1>10, <2>1, <2>2
<1>11. CASE type = "ChannelOpenTry"
  <2>1. Envelope[type] = MsgChannelOpenTry
    BY <1>11 DEF Envelope
  <2>2. KindsOK("ChannelOpenTry", MsgChannelOpenTry)
    BY DEF KindsOK, Kinds, MsgChannelOpenTry
  <2> QED
    BY <1>11, <2>1, <2>2
<1>12. CASE type = "ChannelOpenAck"
  <2>1. Envelope[type] = MsgChannelOpenAck
    BY <1>12 DEF Envelope
  <2>2. KindsOK("ChannelOpenAck", MsgChannelOpenAck)
    BY DEF KindsOK, Kinds, MsgChannelOpenAck
  <2> QED
    BY <1>12, <2>1, <2>2
<1>13. CASE type = "ChannelOpenConfirm"
  <2>1. Envelope[type] = MsgChannelOpenConfirm
    BY <1>13 DEF Envelope
  <2>2. KindsOK("ChannelOpenConfirm", MsgChannelOpenConfirm)
    BY DEF KindsOK, Kinds, MsgChannelOpenConfirm
  <2> QED
    BY <1>13, <2>1, <2>2
<1>14. CASE type = "ChannelCloseInit"
  <2>1. Envelope[type] = MsgChannelCloseInit
    BY <1>14 DEF Envelope
  <2>2. KindsOK("ChannelCloseInit", MsgChannelCloseInit)
    BY DEF KindsOK, Kinds, MsgChannelCloseInit
  <2> QED
    BY <1>14, <2>1, <2>2
<1>15. CASE type = "ChannelCloseConfirm"
  <2>1. Envelope[type] = MsgChannelCloseConfirm
    BY <1>15 DEF Envelope
  <2>2. KindsOK("ChannelCloseConfirm", MsgChannelCloseConfirm)
    BY DEF KindsOK, Kinds, MsgChannelCloseConfirm
  <2> QED
    BY <1>15, <2>1, <2>2
<1>16. CASE type = "RecvPacket"
  <2>1. Envelope[type] = MsgRecvPacket
    BY <1>16 DEF Envelope
  <2>2. KindsOK("RecvPacket", MsgRecvPacket)
    BY DEF KindsOK, Kinds, MsgRecvPacket
  <2> QED
    BY <1>16, <2>1, <2>2
<1>17. CASE type = "Acknowledgement"
  <2>1. Envelope[type] = MsgAcknowledgement
    BY <1>17 DEF Envelope
  <2>2. KindsOK("Acknowledgement", MsgAcknowledgement)
    BY DEF KindsOK, Kinds, MsgAcknowledgement
  <2> QED
    BY <1>17, <2>1, <2>2
<1>18. CASE type = "Timeout"
  <2>1. Envelope[type] = MsgTimeout
    BY <1>18 DEF Envelope
  <2>2. KindsOK("Timeout", MsgTimeout)
    BY DEF KindsOK, Kinds, MsgTimeout
  <2> QED
    BY <1>18, <2>1, <2>2
<1>19. CASE type = "TimeoutOnClose"
  <2>1. Envelope[type] = MsgTimeoutOnClose
    BY <1>19 DEF Envelope
  <2>2. KindsOK("TimeoutOnClose", MsgTimeoutOnClose)
    BY DEF KindsOK, Kinds, MsgTimeoutOnClose
  <2> QED
    BY <1>19, <2>1, <2>2
<1> QED
  BY <1>1, <1>2, <1>3, <1>4, <1>5, <1>6, <1>7, <1>8, <1>9, <1>10,
     <1>11, <1>12, <1>13, <1>14, <1>15, <1>16, <1>17, <1>18, <1>19

LEMMA EmptyIsNoIdentifier ==
  /\ ~validate_client_identifier("") /\ ~validate_connection_identifier("")
  /\ ~validate_port_identifier("") /\ ~validate_channel_identifier("")
<1>1. ASSUME NEW id, Len(id) = 0, NEW min \in Nat, NEW max \in Nat
      PROVE  ~validate_identifier_length(id, min, max)
  BY <1>1 DEF validate_identifier_length
<1>2. /\ ~validate_identifier_length("", 9, 64) /\ ~validate_identifier_length("", 10, 64)
      /\ ~validate_identifier_length("", 2, 128) /\ ~validate_identifier_length("", 8, 64)
  BY <1>1, EmptyTextAssumption
<1> QED
  BY <1>2 DEF validate_client_identifier, validate_connection_identifier,
    validate_port_identifier, validate_channel_identifier

\* A packet that no message may carry is not read.
LEMMA BadPacketsRefused ==
  ASSUME NEW p \in BadPackets
  PROVE  PacketFromRaw(p) = {}
<1>1. /\ p.timeout_height \in Nat \X Nat
      /\ p.sequence = 0 \/ p.data = <<>> \/ (p.timeout_height = Never /\ p.timeout_timestamp = 0)
  BY BadPacketsAssumption
<1>2. ASSUME NEW x \in TimeoutHeightFromRaw(p.timeout_height), p.timeout_height = Never
      PROVE  x = Never
  BY <1>2 DEF TimeoutHeightFromRaw, Never
<1> QED
  BY <1>1, <1>2 DEF PacketFromRaw

LEMMA UnusableRefused ==
  ASSUME NEW kind \in Kinds, NEW bad \in Unusable(kind)
  PROVE  ParseField(kind, bad) = {}
<1>1. CASE kind \in {"client", "connection", "port", "channel"}
  <2>1. bad = "" \/ bad \in Malformed
    BY <1>1 DEF Unusable
  <2>2. /\ ~validate_client_identifier(bad) /\ ~validate_connection_identifier(bad)
        /\ ~validate_port_identifier(bad) /\ ~validate_channel_identifier(bad)
    <3>1. CASE bad = ""
      BY <3>1, EmptyIsNoIdentifier
    <3>2. CASE bad \in Malformed
      BY <3>2 DEF validate_client_identifier, validate_connection_identifier,
        validate_port_identifier, validate_channel_identifier, validate_identifier_chars
    <3> QED
      BY <2>1, <3>1, <3>2
  <2> QED
    BY <1>1, <2>2 DEF ParseField, When
<1>2. CASE kind \in {"proof", "bytes", "versions"}
  BY <1>2 DEF Unusable, ParseField, When
<1>3. CASE kind = "height"
  BY <1>3 DEF Unusable, ParseField, When, HeightFromRaw
<1>4. CASE kind = "packet"
  <2>1. bad \in BadPackets \/ bad = Missing
    BY <1>4 DEF Unusable
  <2>2. PacketFromRaw(bad) = {}
    BY <2>1, BadPacketsRefused DEF PacketFromRaw
  <2> QED
    BY <1>4, <2>2 DEF ParseField
<1>5. CASE kind \in {"sequence", "zero", "empty"}
  <2>1. CASE kind = "sequence"
    BY <2>1 DEF Unusable, ParseField, When
  <2>2. CASE kind = "zero"
    BY <2>2 DEF Unusable, ParseField, When
  <2>3. CASE kind = "empty"
    <3>1. bad = "x" /\ "x" # ""
      BY <2>3 DEF Unusable
    <3> QED
      BY <2>3, <3>1 DEF ParseField, When
  <2> QED
    BY <1>5, <2>1, <2>2, <2>3
<1>6. CASE kind \in {"plain", "optional_version"}
  BY <1>6 DEF Unusable
<1>7. CASE kind \in {"any", "version"}
  BY <1>7 DEF Unusable, ParseField, When, VersionFromRaw
<1>8. CASE kind \in {"counterparty", "new_counterparty", "init_channel", "try_channel"}
  <2>1. bad = Missing
    BY <1>8 DEF Unusable
  <2> QED
    BY <1>8, <2>1 DEF ParseField, ConnCounterpartyFromRaw, ParseNewCounterparty, ParseChannel
<1> QED
  BY <1>1, <1>2, <1>3, <1>4, <1>5, <1>6, <1>7, <1>8 DEF Kinds

LEMMA ChanStateRead ==
  ASSUME NEW state \in {"Init", "TryOpen", "Open", "Closed"}
  PROVE  ChanStateFromI32(ChanStateToI32(state)) = {state}
  BY ChanStateNumbers DEF ChanStateFromI32, ChanStates

LEMMA OrderRead ==
  ASSUME NEW order \in {"Unordered", "Ordered"}
  PROVE  OrderFromI32(OrderToI32(order)) = {order}
  BY OrderNumbers DEF OrderFromI32, Orders

LEMMA OptionRead ==
  ASSUME NEW id, id # "", NEW valid, NEW r \in OptionFromText(OptionToText(id), valid)
  PROVE  r = id
  BY DEF OptionFromText, OptionToText, When

\* What a field's conversions leave of its value
AsRead(kind, v) == IF kind = "try_channel" THEN [v EXCEPT !.version = ""] ELSE v

LEMMA PacketRead ==
  ASSUME NEW v, PacketShape(v), NEW w \in PacketFromRaw(PacketToRaw(v))
  PROVE  w = v
<1>1. ASSUME NEW s, NEW a, NEW b, NEW c, NEW d, NEW e, NEW h \in Nat \X Nat, NEW t,
             v = [sequence |-> s, source_port |-> a, source_channel |-> b, destination_port |-> c,
                  destination_channel |-> d, data |-> e, timeout_height |-> h,
                  timeout_timestamp |-> t]
      PROVE  w = v
  <2>1. PacketToRaw(v) = v /\ v.timeout_height = h
    BY <1>1 DEF PacketToRaw, TimeoutHeightToRaw
  <2>2. \E x \in TimeoutHeightFromRaw(h) : w = [v EXCEPT !.timeout_height = x]
    BY <2>1 DEF PacketFromRaw
  <2>3. \A x \in TimeoutHeightFromRaw(h) : x = h
    BY MissingAssumption DEF TimeoutHeightFromRaw, HeightFromRaw, When, Never
  <2> QED
    BY <1>1, <2>2, <2>3
<1> QED
  BY <1>1 DEF PacketShape

LEMMA CounterpartyRead ==
  ASSUME NEW v, NEW c, NEW i, NEW p, v = [client_id |-> c, connection_id |-> i, prefix |-> p],
         i # "", NEW w \in ConnCounterpartyFromRaw(ConnCounterpartyToRaw(v))
  PROVE  w = v
<1> DEFINE raw == ConnCounterpartyToRaw(v)
<1>1. raw.client_id = c /\ raw.connection_id = OptionToText(i) /\ raw.prefix = p
  BY DEF ConnCounterpartyToRaw
<1> HIDE DEF raw
<1>2. \E id \in OptionFromText(raw.connection_id, validate_connection_identifier(raw.connection_id)) :
        w = [client_id |-> raw.client_id, connection_id |-> id, prefix |-> raw.prefix]
  BY DEF ConnCounterpartyFromRaw, raw
<1>3. \A id \in OptionFromText(raw.connection_id,
                               validate_connection_identifier(raw.connection_id)) : id = i
  BY <1>1, OptionRead
<1> QED
  BY <1>1, <1>2, <1>3

LEMMA ChannelEndRead ==
  ASSUME NEW v, ChannelEndShape(v), NEW w \in ChannelEndFromRaw(ChannelEndToRaw(v))
  PROVE  w = v
<1> DEFINE raw == ChannelEndToRaw(v)
           cp  == [port_id |-> v.remote.port_id, channel_id |-> OptionToText(v.remote.channel_id)]
<1>1. /\ raw.state = ChanStateToI32(v.state) /\ raw.ordering = OrderToI32(v.ordering)
      /\ raw.counterparty = cp
      /\ raw.connection_hops = v.connection_hops /\ raw.version = v.version
  BY ChannelEndRaw
<1>2. /\ v.state \in {"Init", "TryOpen", "Open", "Closed"}
      /\ v.ordering \in {"Unordered", "Ordered"} /\ v.remote.channel_id # ""
  BY DEF ChannelEndShape
<1> HIDE DEF raw, cp
<1>3. \E s \in ChanStateFromI32(raw.state), o \in OrderFromI32(raw.ordering),
         r \in ChanCounterpartyFromRaw(raw.counterparty) :
        w = [state |-> s, ordering |-> o, remote |-> r,
             connection_hops |-> raw.connection_hops, version |-> raw.version]
  BY DEF ChannelEndFromRaw, raw
<1>4. /\ \A s \in ChanStateFromI32(raw.state) : s = v.state
      /\ \A o \in OrderFromI32(raw.ordering) : o = v.ordering
  BY <1>1, <1>2, ChanStateRead, OrderRead
<1>5. ASSUME NEW r \in ChanCounterpartyFromRaw(cp)
      PROVE  r = [port_id |-> v.remote.port_id, channel_id |-> v.remote.channel_id]
  <2>1. \E id \in OptionFromText(cp.channel_id, validate_channel_identifier(cp.channel_id)) :
          r = [port_id |-> cp.port_id, channel_id |-> id]
    BY DEF ChanCounterpartyFromRaw
  <2>2. cp.port_id = v.remote.port_id /\ cp.channel_id = OptionToText(v.remote.channel_id)
    BY DEF cp
  <2>3. \A id \in OptionFromText(cp.channel_id, validate_channel_identifier(cp.channel_id)) :
          id = v.remote.channel_id
    BY <1>2, <2>2, OptionRead
  <2> QED
    BY <2>1, <2>2, <2>3
<1>6. w = [state |-> v.state, ordering |-> v.ordering,
           remote |-> [port_id |-> v.remote.port_id, channel_id |-> v.remote.channel_id],
           connection_hops |-> v.connection_hops, version |-> v.version]
  BY <1>1, <1>3, <1>4, <1>5
<1>7. v = [state |-> v.state, ordering |-> v.ordering,
           remote |-> [port_id |-> v.remote.port_id, channel_id |-> v.remote.channel_id],
           connection_hops |-> v.connection_hops, version |-> v.version]
  BY Zenon DEF ChannelEndShape
<1> QED
  BY <1>6, <1>7, Zenon

\* The end without its version: another shape, the rest the same
Unversioned(v, u) ==
  /\ ChannelEndShape(u)
  /\ u.ordering = v.ordering /\ u.connection_hops = v.connection_hops /\ u.remote = v.remote

LEMMA UnversionedShape ==
  ASSUME NEW v, ChannelEndShape(v), NEW new
  PROVE  Unversioned(v, [v EXCEPT !.version = new])
<1>1. ASSUME NEW st, NEW o, NEW r, NEW po, NEW ch, NEW h, NEW ver,
             v = [state |-> st, ordering |-> o, remote |-> r, connection_hops |-> h, version |-> ver],
             r = [port_id |-> po, channel_id |-> ch],
             st \in {"Init", "TryOpen", "Open", "Closed"}, o \in {"Unordered", "Ordered"}, ch # ""
      PROVE  Unversioned(v, [v EXCEPT !.version = new])
  <2> DEFINE u == [v EXCEPT !.version = new]
  <2>1. v = [state |-> st, ordering |-> o, remote |-> r, connection_hops |-> h, version |-> ver]
    BY <1>1, Zenon
  <2>2. u = [state |-> st, ordering |-> o, remote |-> r, connection_hops |-> h, version |-> new]
    BY <2>1
  <2>3. v.ordering = o /\ v.connection_hops = h /\ v.remote = r
    BY <1>1
  <2> HIDE DEF u
  <2>4. u.state = st /\ u.ordering = o /\ u.remote = r /\ u.connection_hops = h /\ u.version = new
    BY <2>2
  <2>5. r.port_id = po /\ r.channel_id = ch
    BY <1>1
  <2>6. u.remote.port_id = po /\ u.remote.channel_id = ch
    BY <2>4, <2>5
  <2>7. u = [state |-> u.state, ordering |-> u.ordering,
             remote |-> [port_id |-> u.remote.port_id, channel_id |-> u.remote.channel_id],
             connection_hops |-> u.connection_hops, version |-> u.version]
    BY <1>1, <2>2, <2>4, <2>6
  <2>8. ChannelEndShape(u)
    BY <1>1, <2>4, <2>6, <2>7, Zenon DEF ChannelEndShape
  <2> QED
    BY <2>3, <2>4, <2>8 DEF Unversioned, u
<1> QED
  BY <1>1, Zenon DEF ChannelEndShape

LEMMA PlainRead ==
  ASSUME NEW kind \in {"client", "connection", "port", "channel", "any", "proof", "bytes", "height",
                       "sequence", "zero", "empty", "version", "optional_version", "versions",
                       "plain"},
         NEW v, NEW w \in ParseField(kind, UnparseField(kind, v))
  PROVE  w = v
<1>1. UnparseField(kind, v) = v
  BY DEF UnparseField
<1>2. CASE kind \in {"client", "connection", "port", "channel"}
  BY <1>1, <1>2 DEF ParseField, When
<1>3. CASE kind \in {"any", "proof", "bytes", "plain"}
  BY <1>1, <1>3 DEF ParseField, When
<1>4. CASE kind \in {"sequence", "zero"}
  BY <1>1, <1>4 DEF ParseField, When
<1>5. CASE kind = "empty"
  BY <1>1, <1>5 DEF ParseField, When
<1>6. CASE kind = "height"
  BY <1>1, <1>6 DEF ParseField, When, HeightFromRaw
<1>7. CASE kind \in {"version", "optional_version"}
  BY <1>1, <1>7 DEF ParseField, When, VersionFromRaw, ParseOptionalVersion
<1>8. CASE kind = "versions"
  BY <1>1, <1>8 DEF ParseField, When, AllOf
<1> QED
  BY <1>2, <1>3, <1>4, <1>5, <1>6, <1>7, <1>8

\* From and TryFrom of a field
LEMMA RoundTrip ==
  ASSUME NEW kind \in Kinds, NEW v, FieldShape(kind, v),
         NEW w \in ParseField(kind, UnparseField(kind, v))
  PROVE  w = AsRead(kind, v)
<1>1. CASE kind \in Kinds \ {"packet", "counterparty", "new_counterparty", "init_channel",
                             "try_channel"}
  BY <1>1, PlainRead DEF Kinds, AsRead
<1>2. CASE kind = "packet"
  <2>1. PacketShape(v) /\ w \in PacketFromRaw(PacketToRaw(v))
    BY <1>2 DEF FieldShape, UnparseField, ParseField
  <2> QED
    BY <1>2, <2>1, PacketRead DEF AsRead
<1>3. CASE kind \in {"counterparty", "new_counterparty"}
  <2>1. w \in ConnCounterpartyFromRaw(ConnCounterpartyToRaw(v))
    BY <1>3 DEF UnparseField, ParseField, ParseNewCounterparty
  <2>2. /\ v = [client_id |-> v.client_id, connection_id |-> v.connection_id, prefix |-> v.prefix]
        /\ v.connection_id # ""
    BY <1>3, Zenon DEF FieldShape
  <2>3. w = v
    BY <2>1, <2>2, CounterpartyRead, Zenon
  <2> QED
    BY <1>3, <2>3 DEF AsRead
<1>4. CASE kind = "init_channel"
  <2>1. ChannelEndShape(v) /\ w \in ChannelEndFromRaw(ChannelEndToRaw(v))
    BY <1>4 DEF FieldShape, UnparseField, ParseField, ParseChannel
  <2> QED
    BY <1>4, <2>1, ChannelEndRead DEF AsRead
<1>5. CASE kind = "try_channel"
  <2> DEFINE u == [v EXCEPT !.version = ""]
  <2>1. ChannelEndShape(v) /\ w \in ChannelEndFromRaw(ChannelEndToRaw(u))
    BY <1>5 DEF FieldShape, UnparseField, ParseField, ParseChannel
  <2>2. ChannelEndShape(u)
    BY <2>1, UnversionedShape DEF Unversioned
  <2> HIDE DEF u
  <2>3. w = u
    BY <2>1, <2>2, ChannelEndRead
  <2> QED
    BY <1>5, <2>3 DEF AsRead, u
<1> QED
  BY <1>1, <1>2, <1>3, <1>4, <1>5

\* A message as it is read: field by field
Arrived(type, sent) ==
  [f \in DOMAIN Envelope[type] |-> AsRead(Envelope[type][f], sent[f])]

IsDraft(type, draft, height) ==
  /\ type \in DOMAIN Drafts /\ draft \in Drafts[type]
  /\ height \in Nat \X Nat /\ height[2] # 0

LEMMA FilledField ==
  ASSUME NEW type, NEW draft, NEW height, NEW f \in DOMAIN Envelope[type]
  PROVE  /\ IsProof(type, f) => Filled(type, draft, height)[f] = <<"proof">>
         /\ ~IsProof(type, f) /\ f = "proof_height" => Filled(type, draft, height)[f] = height
         /\ ~IsProof(type, f) /\ f # "proof_height" => Filled(type, draft, height)[f] = draft[f]
  BY DEF Filled

LEMMA FieldArrives ==
  ASSUME NEW type, NEW draft, NEW height, IsDraft(type, draft, height),
         NEW f \in DOMAIN Envelope[type]
  PROVE  LET kind == Envelope[type][f]
             v    == Filled(type, draft, height)[f]
             read == ParseField(kind, UnparseField(kind, v))
         IN  read # {} /\ \A w \in read : w = AsRead(kind, v)
<1> DEFINE kind == Envelope[type][f]
           v    == Filled(type, draft, height)[f]
           read == ParseField(kind, UnparseField(kind, v))
<1> SUFFICES read # {} /\ \A w \in read : w = AsRead(kind, v)
  OBVIOUS
<1>1. /\ type \in DOMAIN Envelope
      /\ f \in DraftFields(type) =>
           FieldShape(kind, draft[f]) /\ ParseField(kind, UnparseField(kind, draft[f])) # {}
  BY DraftsAssumption DEF IsDraft
<1>2. kind \in Kinds /\ (f = "proof_height" => kind = "height")
  BY <1>1, MessageTypes DEF KindsOK
<1>3. CASE IsProof(type, f)
  <2>1. kind = "proof" /\ v = <<"proof">>
    BY <1>3, FilledField DEF IsProof
  <2> HIDE DEF kind, v
  <2>2. read = {v}
    BY <2>1 DEF ParseField, UnparseField, When
  <2> QED
    BY <2>1, <2>2 DEF AsRead
<1>4. CASE ~IsProof(type, f) /\ f = "proof_height"
  <2>1. kind = "height" /\ v = height
    BY <1>2, <1>4, FilledField
  <2>2. height # Missing /\ height[2] # 0
    BY MissingAssumption DEF IsDraft
  <2> HIDE DEF kind, v
  <2>3. read = {v}
    BY <2>1, <2>2 DEF ParseField, UnparseField, When, HeightFromRaw
  <2> QED
    BY <2>1, <2>3 DEF AsRead
<1>5. CASE ~IsProof(type, f) /\ f # "proof_height"
  <2>1. f \in DraftFields(type) /\ v = draft[f]
    BY <1>5, FilledField DEF DraftFields, IsProof
  <2>2. FieldShape(kind, v) /\ read # {}
    BY <1>1, <2>1
  <2> HIDE DEF kind, v
  <2> QED
    BY <1>2, <2>2, RoundTrip
<1> QED
  BY <1>3, <1>4, <1>5

LEMMA DecodeReads ==
  ASSUME NEW type, NEW raw, NEW m, m = [f \in DOMAIN Envelope[type] |-> m[f]],
         \A f \in DOMAIN Envelope[type] :
           /\ ParseField(Envelope[type][f], raw[f]) # {}
           /\ \A w \in ParseField(Envelope[type][f], raw[f]) : w = m[f]
  PROVE  Decode(type, raw) = {m}
<1> DEFINE Chosen(f) == CHOOSE v \in ParseField(Envelope[type][f], raw[f]) : TRUE
<1>1. \A f \in DOMAIN Envelope[type] : Chosen(f) = m[f]
  OBVIOUS
<1>2. Decode(type, raw) = {[f \in DOMAIN Envelope[type] |-> Chosen(f)]}
  BY DEF Decode, When
<1> HIDE DEF Chosen
<1>3. [f \in DOMAIN Envelope[type] |-> Chosen(f)] = m
  BY <1>1
<1> QED
  BY <1>2, <1>3

\* A message that nobody spoils is read, and in one way.
LEMMA SentArrives ==
  ASSUME NEW type, NEW draft, NEW height, IsDraft(type, draft, height)
  PROVE  Decode(type, Encode(type, Filled(type, draft, height)))
           = {Arrived(type, Filled(type, draft, height))}
<1> DEFINE sent    == Filled(type, draft, height)
           raw     == Encode(type, sent)
           m       == Arrived(type, sent)
<1>1. \A f \in DOMAIN Envelope[type] : raw[f] = UnparseField(Envelope[type][f], sent[f])
  BY DEF Encode
<1>2. /\ m = [f \in DOMAIN Envelope[type] |-> m[f]]
      /\ \A f \in DOMAIN Envelope[type] : m[f] = AsRead(Envelope[type][f], sent[f])
  BY DEF Arrived
<1>3. \A f \in DOMAIN Envelope[type] :
        /\ ParseField(Envelope[type][f], raw[f]) # {}
        /\ \A w \in ParseField(Envelope[type][f], raw[f]) : w = m[f]
  BY <1>1, <1>2, FieldArrives
<1> HIDE DEF raw, m
<1>a. m = [f \in DOMAIN Envelope[type] |-> m[f]]
  BY <1>2
<1>4. Decode(type, raw) = {m}
  BY <1>a, <1>3, DecodeReads
<1> QED
  BY <1>4 DEF raw, m

LEMMA ArrivedField ==
  ASSUME NEW type, NEW sent, NEW f \in DOMAIN Envelope[type]
  PROVE  Arrived(type, sent)[f] = AsRead(Envelope[type][f], sent[f])
  BY DEF Arrived

LEMMA TryType ==
  /\ "channel" \in DOMAIN Envelope["ChannelOpenTry"]
  /\ Envelope["ChannelOpenTry"]["channel"] = "try_channel"
<1>1. Envelope["ChannelOpenTry"] = MsgChannelOpenTry
  BY DEF Envelope
<1> QED
  BY <1>1 DEF MsgChannelOpenTry

LEMMA NestedExcept ==
  ASSUME NEW sent, NEW m, NEW fields, sent = [f \in fields |-> sent[f]],
         m = [f \in fields |-> m[f]], "channel" \in fields, NEW new,
         \A f \in fields : m[f] = IF f = "channel" THEN [sent[f] EXCEPT !.version = new] ELSE sent[f]
  PROVE  m = [sent EXCEPT !.channel.version = new]
<1> DEFINE e == [sent EXCEPT !.channel.version = new]
<1>1. e = [f \in fields |-> e[f]]
  OBVIOUS
<1>2. \A f \in fields : e[f] = IF f = "channel" THEN [sent[f] EXCEPT !.version = new] ELSE sent[f]
  OBVIOUS
<1> HIDE DEF e
<1>3. m = e
  BY <1>1, <1>2
<1> QED
  BY <1>3 DEF e

\* Only MsgChannelOpenTry leaves something on the way.
LEMMA ArrivedIs ==
  ASSUME NEW type \in DOMAIN Envelope, NEW sent, sent = [f \in DOMAIN Envelope[type] |-> sent[f]]
  PROVE  Arrived(type, sent) =
           IF type = "ChannelOpenTry" THEN [sent EXCEPT !.channel.version = ""] ELSE sent
<1> DEFINE m == Arrived(type, sent)
<1>1. m = [f \in DOMAIN Envelope[type] |-> m[f]]
  BY DEF Arrived
<1>2. \A f \in DOMAIN Envelope[type] : m[f] = AsRead(Envelope[type][f], sent[f])
  BY ArrivedField
<1>3. \A f \in DOMAIN Envelope[type] :
        Envelope[type][f] = "try_channel" => type = "ChannelOpenTry" /\ f = "channel"
  BY MessageTypes DEF KindsOK
<1> HIDE DEF m
<1>4. CASE type = "ChannelOpenTry"
  <2>1. "channel" \in DOMAIN Envelope[type] /\ Envelope[type]["channel"] = "try_channel"
    BY <1>4, TryType
  <2>2. \A f \in DOMAIN Envelope[type] :
          m[f] = IF f = "channel" THEN [sent[f] EXCEPT !.version = ""] ELSE sent[f]
    BY <1>2, <1>3, <2>1 DEF AsRead
  <2>3. m = [sent EXCEPT !.channel.version = ""]
    BY <1>1, <2>1, <2>2, NestedExcept, Zenon
  <2> QED
    BY <1>4, <2>3 DEF m
<1>5. CASE type # "ChannelOpenTry"
  <2>1. \A f \in DOMAIN Envelope[type] : m[f] = sent[f]
    BY <1>2, <1>3, <1>5 DEF AsRead
  <2>2. m = sent
    BY <1>1, <2>1
  <2> QED
    BY <1>5, <2>2 DEF m
<1> QED
  BY <1>4, <1>5

\* A message with an unusable field is not read.
LEMMA SpoiledRefused ==
  ASSUME NEW type \in DOMAIN Envelope, NEW sent, NEW f \in DOMAIN Envelope[type],
         NEW bad \in Unusable(Envelope[type][f])
  PROVE  Decode(type, [Encode(type, sent) EXCEPT ![f] = bad]) = {}
<1> DEFINE raw == [Encode(type, sent) EXCEPT ![f] = bad]
<1>1. raw[f] = bad
  BY DEF Encode
<1>2. Envelope[type][f] \in Kinds
  BY MessageTypes DEF KindsOK
<1>3. ParseField(Envelope[type][f], raw[f]) = {}
  BY <1>1, <1>2, UnusableRefused
<1> HIDE DEF raw
<1>4. Decode(type, raw) = {}
  BY <1>3 DEF Decode, When
<1> QED
  BY <1>4 DEF raw

-----------------------------------------------------------------------------
(* What the handlers have verified *)

ClaimOK(c) ==
  /\ "path" \in DOMAIN c /\ IsClaim(c) /\ c.path[1] \in ClaimKinds
  /\ c.value = Missing => c.prefix = IbcPrefix

ClaimsOK(claims) ==
  /\ Len(claims) \in 0 .. 3 /\ DOMAIN claims = 1 .. Len(claims)
  /\ \A i \in DOMAIN claims : ClaimOK(claims[i])

\* Each claim comes with a proof of its own.
OneProofEach(claims) ==
  \A i, j \in DOMAIN claims : claims[i].proof = claims[j].proof => i = j

\* What a message must be for its claims to be about records
MsgOK(type, m) ==
  /\ type = "ConnectionOpenTry" =>
       m.counterparty.prefix = IbcPrefix /\ m.consensus_height \in Numbers \X Numbers
  /\ type = "ConnectionOpenAck" => m.consensus_height \in Numbers \X Numbers
  /\ type = "ChannelOpenTry" => m.channel.ordering \in {"Unordered", "Ordered"}
  /\ type \in PacketMsgs => m.packet.sequence \in Numbers
  /\ type = "UpgradeClient" => m.client_state # Missing /\ m.consensus_state # Missing

LEMMA ClaimMade ==
  ASSUME NEW proof, NEW prefix, NEW path, NEW value, PathShape(path), path[1] \in ClaimKinds,
         prefix = StoreOf(path), Valued(path, value) \/ value = Missing,
         value = Missing => prefix = IbcPrefix
  PROVE  ClaimOK(Claim(proof, prefix, path, value))
<1> DEFINE c == Claim(proof, prefix, path, value)
<1>1. "path" \in DOMAIN c /\ c.prefix = prefix /\ c.path = path /\ c.value = value
  BY DEF Claim
<1>2. is_provable(path)
  BY DEF is_provable, ClaimKinds
<1> HIDE DEF c
<1>3. ClaimOK(c)
  BY <1>1, <1>2 DEF ClaimOK, IsClaim
<1> QED
  BY <1>3 DEF c

LEMMA ClaimProof ==
  ASSUME NEW proof, NEW prefix, NEW path, NEW value
  PROVE  Claim(proof, prefix, path, value).proof = proof
  BY DEF Claim

LEMMA OneClaim ==
  ASSUME NEW a, ClaimOK(a)
  PROVE  ClaimsOK(<<a>>) /\ OneProofEach(<<a>>)
  BY DEF ClaimsOK, OneProofEach

LEMMA TwoClaims ==
  ASSUME NEW a, NEW b, ClaimOK(a), ClaimOK(b)
  PROVE  ClaimsOK(<<a, b>>) /\ (a.proof # b.proof => OneProofEach(<<a, b>>))
<1> DEFINE s == <<a, b>>
<1>1. Len(s) = 2 /\ DOMAIN s = 1 .. 2 /\ s[1] = a /\ s[2] = b
  OBVIOUS
<1> HIDE DEF s
<1>2. ClaimsOK(s) /\ (a.proof # b.proof => OneProofEach(s))
  BY <1>1 DEF ClaimsOK, OneProofEach
<1> QED
  BY <1>2 DEF s

LEMMA ThreeClaims ==
  ASSUME NEW a, NEW b, NEW c, ClaimOK(a), ClaimOK(b), ClaimOK(c),
         a.proof # b.proof, a.proof # c.proof, b.proof # c.proof
  PROVE  ClaimsOK(<<a, b, c>>) /\ OneProofEach(<<a, b, c>>)
<1> DEFINE s == <<a, b, c>>
<1>1. Len(s) = 3 /\ DOMAIN s = 1 .. 3 /\ s[1] = a /\ s[2] = b /\ s[3] = c
  OBVIOUS
<1> HIDE DEF s
<1>2. ClaimsOK(s) /\ OneProofEach(s)
  BY <1>1 DEF ClaimsOK, OneProofEach
<1> QED
  BY <1>2 DEF s

\* Claims about connections, client states and channel ends
LEMMA ConnectionClaim ==
  ASSUME NEW proof, NEW id, NEW state \in {"Init", "TryOpen", "Open"}, NEW client, NEW versions,
         NEW delay, NEW cl, NEW own, own # "", NEW pre
  PROVE  ClaimOK(Claim(proof, IbcPrefix, <<"Connection", id>>,
                       [state |-> state, client_id |-> client,
                        counterparty |-> [client_id |-> cl, connection_id |-> own, prefix |-> pre],
                        versions |-> versions, delay_period |-> delay]))
<1> DEFINE cp   == [client_id |-> cl, connection_id |-> own, prefix |-> pre]
           end  == [state |-> state, client_id |-> client, counterparty |-> cp,
                    versions |-> versions, delay_period |-> delay]
           path == <<"Connection", id>>
<1>1. cp.client_id = cl /\ cp.connection_id = own /\ cp.prefix = pre
  OBVIOUS
<1>2. cp = [client_id |-> cp.client_id, connection_id |-> cp.connection_id, prefix |-> cp.prefix]
  OBVIOUS
<1> HIDE DEF cp
<1>3. /\ end.state = state /\ end.client_id = client /\ end.counterparty = cp
      /\ end.versions = versions /\ end.delay_period = delay
  OBVIOUS
<1>4. end = [state |-> state, client_id |-> client, versions |-> versions, delay_period |-> delay,
             counterparty |-> cp]
  OBVIOUS
<1> HIDE DEF end
<1>5. ConnectionEndShape(end)
  BY <1>1, <1>2, <1>3, <1>4 DEF ConnectionEndShape
<1>6. /\ PathShape(path) /\ path[1] \in ClaimKinds /\ path[1] = "Connection"
      /\ StoreOf(path) = IbcPrefix
  BY DEF PathShape, ClaimKinds, StoreOf
<1> HIDE DEF path
<1>7. Valued(path, end)
  BY <1>5, <1>6 DEF Valued
<1>8. ClaimOK(Claim(proof, IbcPrefix, path, end))
  BY <1>6, <1>7, ClaimMade
<1> QED
  BY <1>8 DEF path, end, cp

IsRemote(r) == r = [port_id |-> r.port_id, channel_id |-> r.channel_id] /\ r.channel_id # ""

LEMMA RemoteMade ==
  ASSUME NEW po, NEW ch, ch # ""
  PROVE  IsRemote([port_id |-> po, channel_id |-> ch])
  BY DEF IsRemote

LEMMA ChannelEndClaim ==
  ASSUME NEW proof, NEW port, NEW ch, NEW state \in {"Init", "TryOpen", "Open", "Closed"},
         NEW ordering \in {"Unordered", "Ordered"}, NEW r, IsRemote(r), NEW hops, NEW version
  PROVE  ClaimOK(Claim(proof, IbcPrefix, <<"ChannelEnd", port, ch>>,
                       [state |-> state, ordering |-> ordering, remote |-> r,
                        connection_hops |-> hops, version |-> version]))
<1> DEFINE end  == [state |-> state, ordering |-> ordering, remote |-> r,
                    connection_hops |-> hops, version |-> version]
           path == <<"ChannelEnd", port, ch>>
<1>1. /\ end.state = state /\ end.ordering = ordering /\ end.remote = r
      /\ end.connection_hops = hops /\ end.version = version
  OBVIOUS
<1>2. end = [state |-> state, ordering |-> ordering, remote |-> r, connection_hops |-> hops,
             version |-> version]
  OBVIOUS
<1> HIDE DEF end
<1>3. r = [port_id |-> r.port_id, channel_id |-> r.channel_id] /\ r.channel_id # ""
  BY Zenon DEF IsRemote
<1>4. ChannelEndShape(end)
  BY <1>1, <1>2, <1>3 DEF ChannelEndShape
<1>5. /\ PathShape(path) /\ path[1] \in ClaimKinds /\ path[1] = "ChannelEnd"
      /\ StoreOf(path) = IbcPrefix
  BY DEF PathShape, ClaimKinds, StoreOf
<1> HIDE DEF path
<1>6. Valued(path, end)
  BY <1>4, <1>5 DEF Valued
<1>7. ClaimOK(Claim(proof, IbcPrefix, path, end))
  BY <1>5, <1>6, ClaimMade
<1> QED
  BY <1>7 DEF path, end

LEMMA ClientClaims ==
  ASSUME NEW proof, NEW id, NEW value, NEW h \in Numbers \X Numbers
  PROVE  /\ ClaimOK(Claim(proof, IbcPrefix, <<"ClientState", id>>, value))
         /\ ClaimOK(Claim(proof, IbcPrefix, <<"ClientConsensusState", id, h>>, value))
<1>1. ASSUME NEW path, PathShape(path), path[1] \in {"ClientState", "ClientConsensusState"}
      PROVE  ClaimOK(Claim(proof, IbcPrefix, path, value))
  <2>1. path[1] \in ClaimKinds /\ StoreOf(path) = IbcPrefix /\ Valued(path, value)
    BY <1>1 DEF ClaimKinds, StoreOf, Valued
  <2> QED
    BY <1>1, <2>1, ClaimMade
<1>2. PathShape(<<"ClientState", id>>) /\ PathShape(<<"ClientConsensusState", id, h>>)
  BY DEF PathShape
<1> QED
  BY <1>1, <1>2

\* The three claims of a handshake message
Handshake(a, id, state, client, versions, delay, cl, own, cs, h) ==
  <<Claim(a, IbcPrefix, <<"Connection", id>>,
          [state |-> state, client_id |-> client,
           counterparty |-> [client_id |-> cl, connection_id |-> own, prefix |-> OwnPrefix],
           versions |-> versions, delay_period |-> delay]),
    Claim("proof_client", IbcPrefix, <<"ClientState", client>>, cs),
    Claim("proof_consensus", IbcPrefix, <<"ClientConsensusState", client, h>>,
          HostConsensusState(h))>>

LEMMA HandshakeClaims ==
  ASSUME NEW a, NEW id, NEW state \in {"Init", "TryOpen", "Open"}, NEW client, NEW versions,
         NEW delay, NEW cl, NEW own, own # "", NEW cs, NEW h \in Numbers \X Numbers,
         a \notin {"proof_client", "proof_consensus"}
  PROVE  /\ ClaimsOK(Handshake(a, id, state, client, versions, delay, cl, own, cs, h))
         /\ OneProofEach(Handshake(a, id, state, client, versions, delay, cl, own, cs, h))
<1> DEFINE c1 == Claim(a, IbcPrefix, <<"Connection", id>>,
                       [state |-> state, client_id |-> client,
                        counterparty |-> [client_id |-> cl, connection_id |-> own,
                                          prefix |-> OwnPrefix],
                        versions |-> versions, delay_period |-> delay])
           c2 == Claim("proof_client", IbcPrefix, <<"ClientState", client>>, cs)
           c3 == Claim("proof_consensus", IbcPrefix, <<"ClientConsensusState", client, h>>,
                       HostConsensusState(h))
<1>1. ClaimOK(c1)
  BY ConnectionClaim
<1>2. ClaimOK(c2) /\ ClaimOK(c3)
  BY ClientClaims
<1>3. c1.proof = a
  BY DEF Claim
<1>4. c2.proof = "proof_client"
  BY DEF Claim
<1>5. c3.proof = "proof_consensus"
  BY DEF Claim
<1> HIDE DEF c1, c2, c3
<1>6. ClaimsOK(<<c1, c2, c3>>) /\ OneProofEach(<<c1, c2, c3>>)
  BY <1>1, <1>2, <1>3, <1>4, <1>5, ThreeClaims
<1> QED
  BY <1>6, Zenon DEF Handshake, c1, c2, c3

LEMMA ConnectionOpenTryOK ==
  ASSUME NEW m, MsgOK("ConnectionOpenTry", m), NEW claims \in ConnectionOpenTryClaims(m)
  PROVE  ClaimsOK(claims) /\ OneProofEach(claims)
<1> DEFINE c == m.counterparty
           h == m.consensus_height
<1>1. c.prefix = IbcPrefix /\ h \in Numbers \X Numbers
  BY DEF MsgOK
<1>2. claims = Handshake("proof_init", c.connection_id, "Init", c.client_id,
                         m.counterparty_versions, m.delay_period, m.client_id, NoId,
                         m.client_state, h)
  BY <1>1 DEF ConnectionOpenTryClaims, When, Handshake
<1>3. NoId # "" /\ "proof_init" \notin {"proof_client", "proof_consensus"}
  BY DEF NoId
<1> HIDE DEF c, h
<1> QED
  BY <1>1, <1>2, <1>3, HandshakeClaims

LEMMA ConnectionOpenAckOK ==
  ASSUME NEW m, MsgOK("ConnectionOpenAck", m), NEW claims \in ConnectionOpenAckClaims(m)
  PROVE  ClaimsOK(claims) /\ OneProofEach(claims)
<1> DEFINE own == OwnConnections[m.connection_id]
           c   == own.counterparty
           h   == m.consensus_height
<1>1. m.connection_id \in DOMAIN OwnConnections
  BY DEF ConnectionOpenAckClaims
<1>2. c.prefix = IbcPrefix /\ m.connection_id # ""
  BY <1>1, OwnAssumption
<1>3. h \in Numbers \X Numbers
  BY DEF MsgOK
<1>4. claims = Handshake("proof_try", m.counterparty_connection_id, "TryOpen", c.client_id,
                         <<m.version>>, own.delay_period, own.client_id, m.connection_id,
                         m.client_state, h)
  BY <1>1, <1>2 DEF ConnectionOpenAckClaims, Handshake
<1> HIDE DEF own, c, h
<1> QED
  BY <1>2, <1>3, <1>4, HandshakeClaims

LEMMA ConnectionOpenConfirmOK ==
  ASSUME NEW m, NEW claims \in ConnectionOpenConfirmClaims(m)
  PROVE  ClaimsOK(claims) /\ OneProofEach(claims)
<1> DEFINE own == OwnConnections[m.connection_id]
           c   == own.counterparty
<1>1. m.connection_id \in DOMAIN OwnConnections
  BY DEF ConnectionOpenConfirmClaims
<1>2. c.prefix = IbcPrefix /\ m.connection_id # ""
  BY <1>1, OwnAssumption
<1> DEFINE claim == Claim("proof_ack", c.prefix, <<"Connection", c.connection_id>>,
                          [state |-> "Open", client_id |-> c.client_id,
                           counterparty |-> [client_id |-> own.client_id,
                                             connection_id |-> m.connection_id,
                                             prefix |-> OwnPrefix],
                           versions |-> own.versions, delay_period |-> own.delay_period])
<1>3. claims = <<claim>>
  BY <1>1 DEF ConnectionOpenConfirmClaims, When
<1> HIDE DEF own, c
<1>4. ClaimOK(claim)
  BY <1>2, ConnectionClaim
<1> HIDE DEF claim
<1> QED
  BY <1>3, <1>4, OneClaim

\* One claim, with that proof
Single(claims, proof) == \E a : claims = <<a>> /\ ClaimOK(a) /\ a.proof = proof

LEMMA SingleOK ==
  ASSUME NEW claims, NEW proof, Single(claims, proof)
  PROVE  ClaimsOK(claims) /\ OneProofEach(claims)
  BY OneClaim DEF Single

LEMMA OneMoreClaim ==
  ASSUME NEW claims, NEW proof, Single(claims, proof), NEW b, ClaimOK(b)
  PROVE  ClaimsOK(Append(claims, b))
<1>1. PICK a : claims = <<a>> /\ ClaimOK(a)
  BY DEF Single
<1> DEFINE S == {a, b}
           s == Append(claims, b)
<1>2. claims \in Seq(S) /\ Len(claims) = 1 /\ claims[1] = a /\ b \in S
  BY <1>1
<1> HIDE DEF S
<1>a. claims \in Seq(S) /\ b \in S
  BY <1>2
<1>3. /\ s \in Seq(S) /\ Len(s) = Len(claims) + 1
      /\ \A i \in 1 .. Len(claims) : s[i] = claims[i]
      /\ s[Len(claims) + 1] = b
  BY <1>a, AppendProperties
<1> HIDE DEF S, s
<1>4. DOMAIN s = 1 .. Len(s)
  BY <1>3, LenProperties
<1>5. Len(s) = 2 /\ s[1] = a /\ s[2] = b
  BY <1>2, <1>3
<1>6. ClaimsOK(s)
  BY <1>1, <1>4, <1>5 DEF ClaimsOK
<1> QED
  BY <1>6 DEF s

\* What ChannelClaim, and with it OwnEndClaim, make
LEMMA ChannelClaimOK ==
  ASSUME NEW proof, NEW hops, NEW state \in {"Init", "TryOpen", "Open", "Closed"},
         NEW ordering \in {"Unordered", "Ordered"}, NEW r, IsRemote(r), NEW version,
         NEW port, NEW channel,
         NEW claims \in ChannelClaim(proof, hops, state, ordering, r, version, port, channel)
  PROVE  Single(claims, proof)
<1> DEFINE c == OwnConnections[Head(hops)].counterparty
           a == Claim(proof, c.prefix, <<"ChannelEnd", port, channel>>,
                      [state |-> state, ordering |-> ordering, remote |-> r,
                       connection_hops |-> <<c.connection_id>>, version |-> version])
<1>1. Head(hops) \in DOMAIN OwnConnections /\ claims = <<a>>
  BY DEF ChannelClaim, When
<1>2. c.prefix = IbcPrefix
  BY <1>1, OwnAssumption
<1> HIDE DEF c
<1>3. ClaimOK(a)
  BY <1>2, ChannelEndClaim
<1>4. a.proof = proof
  BY DEF Claim
<1> HIDE DEF a
<1> QED
  BY <1>1, <1>3, <1>4 DEF Single

\* This chain's ends
LEMMA OwnEndOK ==
  ASSUME NEW port, NEW channel, NEW own \in OwnEnd(port, channel)
  PROVE  /\ channel # "" /\ own.ordering \in {"Unordered", "Ordered"}
         /\ PrefixOf(own) = IbcPrefix
<1>1. <<port, channel>> \in DOMAIN OwnChannels /\ own = OwnChannels[<<port, channel>>]
  BY DEF OwnEnd, When
<1>2. /\ <<port, channel>>[2] # "" /\ own.ordering \in {"Unordered", "Ordered"}
      /\ Head(own.connection_hops) \in DOMAIN OwnConnections
  BY <1>1, OwnAssumption
<1> QED
  BY <1>2, OwnAssumption DEF PrefixOf

LEMMA OwnEndClaimOK ==
  ASSUME NEW proof, NEW port, NEW channel, NEW own \in OwnEnd(port, channel),
         NEW state \in {"Init", "TryOpen", "Open", "Closed"}, NEW version, NEW far,
         NEW claims \in OwnEndClaim(proof, own, state, port, channel, version, far)
  PROVE  Single(claims, proof)
<1> DEFINE r == [port_id |-> port, channel_id |-> channel]
<1>1. channel # "" /\ own.ordering \in {"Unordered", "Ordered"}
  BY OwnEndOK
<1>2. IsRemote(r)
  BY <1>1, RemoteMade
<1>3. claims \in ChannelClaim(proof, own.connection_hops, state, own.ordering, r, version,
                              own.remote.port_id, far)
  BY DEF OwnEndClaim
<1> HIDE DEF r
<1> QED
  BY <1>1, <1>2, <1>3, ChannelClaimOK

LEMMA ChannelMessagesOK ==
  ASSUME NEW m
  PROVE  /\ MsgOK("ChannelOpenTry", m) =>
              \A claims \in ChannelOpenTryClaims(m) : ClaimsOK(claims) /\ OneProofEach(claims)
         /\ \A claims \in ChannelOpenAckClaims(m) : ClaimsOK(claims) /\ OneProofEach(claims)
         /\ \A claims \in ChannelOpenConfirmClaims(m) : ClaimsOK(claims) /\ OneProofEach(claims)
         /\ \A claims \in ChannelCloseConfirmClaims(m) : ClaimsOK(claims) /\ OneProofEach(claims)
<1>1. ASSUME MsgOK("ChannelOpenTry", m), NEW claims \in ChannelOpenTryClaims(m)
      PROVE  ClaimsOK(claims) /\ OneProofEach(claims)
  <2>1. m.channel.ordering \in {"Unordered", "Ordered"} /\ NoId # ""
    BY <1>1 DEF MsgOK, NoId
  <2> DEFINE r == [port_id |-> m.port_id, channel_id |-> NoId]
  <2>2. IsRemote(r)
    BY <2>1, RemoteMade
  <2>3. claims \in ChannelClaim("proof_init", m.channel.connection_hops, "Init",
                                m.channel.ordering, r, m.counterparty_version,
                                m.channel.remote.port_id, m.channel.remote.channel_id)
    BY <1>1 DEF ChannelOpenTryClaims
  <2> HIDE DEF r
  <2>4. Single(claims, "proof_init")
    BY <2>1, <2>2, <2>3, ChannelClaimOK
  <2> QED
    BY <2>4, SingleOK
<1>2. ASSUME NEW claims \in ChannelOpenAckClaims(m)
      PROVE  ClaimsOK(claims) /\ OneProofEach(claims)
  <2>1. PICK own \in OwnEnd(m.port_id, m.channel_id) :
          claims \in OwnEndClaim("proof_try", own, "TryOpen", m.port_id, m.channel_id,
                                 m.counterparty_version, m.counterparty_channel_id)
    BY <1>2 DEF ChannelOpenAckClaims
  <2>2. Single(claims, "proof_try")
    BY <2>1, OwnEndClaimOK
  <2> QED
    BY <2>2, SingleOK
<1>3. ASSUME NEW claims \in ChannelOpenConfirmClaims(m)
      PROVE  ClaimsOK(claims) /\ OneProofEach(claims)
  <2>1. PICK own \in OwnEnd(m.port_id, m.channel_id) :
          claims \in OwnEndClaim("proof_ack", own, "Open", m.port_id, m.channel_id,
                                 own.version, own.remote.channel_id)
    BY <1>3 DEF ChannelOpenConfirmClaims
  <2>2. Single(claims, "proof_ack")
    BY <2>1, OwnEndClaimOK
  <2> QED
    BY <2>2, SingleOK
<1>4. ASSUME NEW claims \in ChannelCloseConfirmClaims(m)
      PROVE  ClaimsOK(claims) /\ OneProofEach(claims)
  <2>1. PICK own \in OwnEnd(m.port_id, m.channel_id) :
          claims \in OwnEndClaim("proof_init", own, "Closed", m.port_id, m.channel_id,
                                 own.version, own.remote.channel_id)
    BY <1>4 DEF ChannelCloseConfirmClaims
  <2>2. Single(claims, "proof_init")
    BY <2>1, OwnEndClaimOK
  <2> QED
    BY <2>2, SingleOK
<1> QED
  BY <1>1, <1>2, <1>3, <1>4

LEMMA PacketClaim ==
  ASSUME NEW proof, NEW kind \in {"Commitment", "Ack", "Receipt"}, NEW port, NEW ch,
         NEW s \in Numbers, NEW value
  PROVE  ClaimOK(Claim(proof, IbcPrefix, <<kind, port, ch, s>>, value))
<1> DEFINE path == <<kind, port, ch, s>>
<1>1. PathShape(path) /\ path[1] = kind
  BY DEF PathShape
<1> HIDE DEF path
<1>2. path[1] \in ClaimKinds /\ StoreOf(path) = IbcPrefix /\ Valued(path, value)
  BY <1>1 DEF ClaimKinds, StoreOf, Valued
<1>3. ClaimOK(Claim(proof, IbcPrefix, path, value))
  BY <1>1, <1>2, ClaimMade
<1> QED
  BY <1>3 DEF path

LEMMA UnreceivedOK ==
  ASSUME NEW p, p.sequence \in Numbers, NEW port, NEW ch, NEW own \in OwnEnd(port, ch)
  PROVE  ClaimOK(UnreceivedClaim(p, own))
<1>1. PrefixOf(own) = IbcPrefix
  BY OwnEndOK
<1>2. CASE own.ordering = "Ordered"
  <2> DEFINE path == <<"SeqRecv", p.destination_port, p.destination_channel>>
  <2>1. PathShape(path) /\ path[1] = "SeqRecv"
    BY DEF PathShape
  <2>2. UnreceivedClaim(p, own) = Claim("proof_unreceived", IbcPrefix, path, p.sequence)
    BY <1>1, <1>2 DEF UnreceivedClaim
  <2> HIDE DEF path
  <2>3. path[1] \in ClaimKinds /\ StoreOf(path) = IbcPrefix /\ Valued(path, p.sequence)
    BY <2>1 DEF ClaimKinds, StoreOf, Valued
  <2> QED
    BY <2>1, <2>2, <2>3, ClaimMade
<1>3. CASE own.ordering # "Ordered"
  BY <1>1, <1>3, PacketClaim DEF UnreceivedClaim
<1> QED
  BY <1>2, <1>3

LEMMA PacketMessagesOK ==
  ASSUME NEW m, m.packet.sequence \in Numbers
  PROVE  /\ \A claims \in RecvPacketClaims(m) : ClaimsOK(claims) /\ OneProofEach(claims)
         /\ \A claims \in AcknowledgementClaims(m) : ClaimsOK(claims) /\ OneProofEach(claims)
         /\ \A claims \in TimeoutClaims(m) : ClaimsOK(claims) /\ OneProofEach(claims)
         /\ \A claims \in TimeoutOnCloseClaims(m) : ClaimsOK(claims)
<1> DEFINE p == m.packet
<1>1. ASSUME NEW claims \in RecvPacketClaims(m)
      PROVE  ClaimsOK(claims) /\ OneProofEach(claims)
  <2> DEFINE a == Claim("proof_commitment", IbcPrefix,
                        <<"Commitment", p.source_port, p.source_channel, p.sequence>>,
                        CommitmentOf(p))
  <2>1. claims = <<a>>
    BY <1>1, OwnEndOK DEF RecvPacketClaims
  <2>2. ClaimOK(a)
    BY PacketClaim
  <2> HIDE DEF a
  <2> QED
    BY <2>1, <2>2, OneClaim
<1>2. ASSUME NEW claims \in AcknowledgementClaims(m)
      PROVE  ClaimsOK(claims) /\ OneProofEach(claims)
  <2> DEFINE a == Claim("proof_acked", IbcPrefix,
                        <<"Ack", p.destination_port, p.destination_channel, p.sequence>>,
                        AckCommitment(m.acknowledgement))
  <2>1. claims = <<a>>
    BY <1>2, OwnEndOK DEF AcknowledgementClaims
  <2>2. ClaimOK(a)
    BY PacketClaim
  <2> HIDE DEF a
  <2> QED
    BY <2>1, <2>2, OneClaim
<1>3. ASSUME NEW claims \in TimeoutClaims(m)
      PROVE  ClaimsOK(claims) /\ OneProofEach(claims)
  <2>1. PICK own \in OwnEnd(p.source_port, p.source_channel) :
          claims = <<UnreceivedClaim(p, own)>>
    BY <1>3 DEF TimeoutClaims
  <2>2. ClaimOK(UnreceivedClaim(p, own))
    BY <2>1, UnreceivedOK
  <2> QED
    BY <2>1, <2>2, OneClaim
<1>4. ASSUME NEW claims \in TimeoutOnCloseClaims(m)
      PROVE  ClaimsOK(claims)
  <2>1. PICK own \in OwnEnd(p.source_port, p.source_channel) :
          \E closed \in OwnEndClaim("proof_unreceived", own, "Closed", p.source_port,
                                    p.source_channel, own.version, own.remote.channel_id) :
            claims = Append(closed, UnreceivedClaim(p, own))
    BY <1>4 DEF TimeoutOnCloseClaims
  <2>2. PICK closed \in OwnEndClaim("proof_unreceived", own, "Closed", p.source_port,
                                    p.source_channel, own.version, own.remote.channel_id) :
          claims = Append(closed, UnreceivedClaim(p, own))
    BY <2>1
  <2>3. Single(closed, "proof_unreceived")
    BY <2>1, <2>2, OwnEndClaimOK
  <2>4. ClaimOK(UnreceivedClaim(p, own))
    BY <2>1, UnreceivedOK
  <2> QED
    BY <2>2, <2>3, <2>4, OneMoreClaim
<1> QED
  BY <1>1, <1>2, <1>3, <1>4

LEMMA UpgradeClientOK ==
  ASSUME NEW m, MsgOK("UpgradeClient", m), NEW latest, latest[2] \in Numbers,
         NEW claims \in UpgradeClientClaims(m, latest)
  PROVE  ClaimsOK(claims) /\ OneProofEach(claims)
<1>1. m.client_state # Missing /\ m.consensus_state # Missing
  BY DEF MsgOK
<1> DEFINE p1 == <<"UpgradedClientState", latest[2]>>
           p2 == <<"UpgradedClientConsensusState", latest[2]>>
           a  == Claim("proof_upgrade_client", UpgradePrefix, p1, m.client_state)
           b  == Claim("proof_upgrade_consensus_state", UpgradePrefix, p2, m.consensus_state)
<1>2. claims = <<a, b>>
  BY OwnAssumption DEF UpgradeClientClaims
<1>3. /\ PathShape(p1) /\ p1[1] = "UpgradedClientState"
      /\ PathShape(p2) /\ p2[1] = "UpgradedClientConsensusState"
  BY DEF PathShape
<1> HIDE DEF p1, p2
<1>4. /\ p1[1] \in ClaimKinds /\ StoreOf(p1) = UpgradePrefix /\ Valued(p1, m.client_state)
      /\ p2[1] \in ClaimKinds /\ StoreOf(p2) = UpgradePrefix /\ Valued(p2, m.consensus_state)
  BY <1>3 DEF ClaimKinds, StoreOf, Valued
<1>5. ClaimOK(a) /\ ClaimOK(b)
  BY <1>1, <1>3, <1>4, ClaimMade
<1>6. a.proof # b.proof
  BY DEF Claim
<1> HIDE DEF a, b
<1> QED
  BY <1>2, <1>5, <1>6, TwoClaims

LEMMA ClaimsAreOK ==
  ASSUME NEW type, NEW m, MsgOK(type, m), NEW latest, latest[2] \in Numbers,
         NEW claims \in Claims(type, m, latest)
  PROVE  ClaimsOK(claims) /\ (type # "TimeoutOnClose" => OneProofEach(claims))
<1>1. CASE type = "ConnectionOpenTry"
  BY <1>1, ConnectionOpenTryOK DEF Claims
<1>2. CASE type = "ConnectionOpenAck"
  BY <1>2, ConnectionOpenAckOK DEF Claims
<1>3. CASE type = "ConnectionOpenConfirm"
  BY <1>3, ConnectionOpenConfirmOK DEF Claims
<1>4. CASE type \in {"ChannelOpenTry", "ChannelOpenAck", "ChannelOpenConfirm",
                     "ChannelCloseConfirm"}
  BY <1>4, ChannelMessagesOK DEF Claims
<1>5. CASE type \in PacketMsgs
  <2>1. m.packet.sequence \in Numbers
    BY <1>5 DEF MsgOK
  <2> QED
    BY <1>5, <2>1, PacketMessagesOK DEF Claims, PacketMsgs
<1>6. CASE type = "UpgradeClient"
  BY <1>6, UpgradeClientOK DEF Claims
<1>7. CASE type \notin {"ConnectionOpenTry", "ConnectionOpenAck", "ConnectionOpenConfirm",
                        "ChannelOpenTry", "ChannelOpenAck", "ChannelOpenConfirm",
                        "ChannelCloseConfirm", "RecvPacket", "Acknowledgement", "Timeout",
                        "TimeoutOnClose", "UpgradeClient"}
  <2>1. claims = <<>>
    BY <1>7 DEF Claims
  <2> QED
    BY <2>1 DEF ClaimsOK, OneProofEach
<1> QED
  BY <1>1, <1>2, <1>3, <1>4, <1>5, <1>6, <1>7 DEF PacketMsgs

-----------------------------------------------------------------------------
(* A draft, filled in, sent and read *)

\* The fields that claims and routes are made from
LEMMA NamedFields ==
  /\ {"counterparty", "consensus_height"} \subseteq DOMAIN Envelope["ConnectionOpenTry"]
  /\ Envelope["ConnectionOpenTry"]["counterparty"] = "counterparty"
  /\ Envelope["ConnectionOpenTry"]["consensus_height"] = "height"
  /\ "consensus_height" \in DOMAIN Envelope["ConnectionOpenAck"]
  /\ Envelope["ConnectionOpenAck"]["consensus_height"] = "height"
  /\ {"client_state", "consensus_state"} \subseteq DOMAIN Envelope["UpgradeClient"]
  /\ Envelope["UpgradeClient"]["client_state"] = "any"
  /\ Envelope["UpgradeClient"]["consensus_state"] = "any"
<1>1. /\ Envelope["ConnectionOpenTry"] = MsgConnectionOpenTry
      /\ Envelope["ConnectionOpenAck"] = MsgConnectionOpenAck
      /\ Envelope["UpgradeClient"] = MsgUpgradeClient
  BY DEF Envelope
<1> QED
  BY <1>1 DEF MsgConnectionOpenTry, MsgConnectionOpenAck, MsgUpgradeClient

LEMMA PortField ==
  ASSUME NEW type \in ChannelMsgs
  PROVE  "port_id" \in DOMAIN Envelope[type] /\ Envelope[type]["port_id"] = "port"
<1>1. Envelope[type] \in {MsgChannelOpenInit, MsgChannelOpenTry, MsgChannelOpenAck,
                          MsgChannelOpenConfirm, MsgChannelCloseInit, MsgChannelCloseConfirm}
  BY DEF Envelope, ChannelMsgs
<1>2. \A msg \in {MsgChannelOpenInit, MsgChannelOpenTry, MsgChannelOpenAck,
                  MsgChannelOpenConfirm, MsgChannelCloseInit, MsgChannelCloseConfirm} :
        "port_id" \in DOMAIN msg /\ msg["port_id"] = "port"
  BY DEF MsgChannelOpenInit, MsgChannelOpenTry, MsgChannelOpenAck,
    MsgChannelOpenConfirm, MsgChannelCloseInit, MsgChannelCloseConfirm
<1> QED
  BY <1>1, <1>2

LEMMA PacketField ==
  ASSUME NEW type \in PacketMsgs
  PROVE  "packet" \in DOMAIN Envelope[type] /\ Envelope[type]["packet"] = "packet"
<1>1. Envelope[type] \in {MsgRecvPacket, MsgAcknowledgement, MsgTimeout, MsgTimeoutOnClose}
  BY DEF Envelope, PacketMsgs
<1>2. \A msg \in {MsgRecvPacket, MsgAcknowledgement, MsgTimeout, MsgTimeoutOnClose} :
        "packet" \in DOMAIN msg /\ msg["packet"] = "packet"
  BY DEF MsgRecvPacket, MsgAcknowledgement, MsgTimeout, MsgTimeoutOnClose
<1> QED
  BY <1>1, <1>2

LEMMA SentField ==
  ASSUME NEW type, NEW draft, NEW height, IsDraft(type, draft, height),
         NEW f \in DOMAIN Envelope[type], Envelope[type][f] # "proof", f # "proof_height"
  PROVE  /\ Filled(type, draft, height)[f] = draft[f]
         /\ FieldShape(Envelope[type][f], draft[f])
         /\ ParseField(Envelope[type][f], UnparseField(Envelope[type][f], draft[f])) # {}
<1>1. Filled(type, draft, height)[f] = draft[f]
  BY FilledField DEF IsProof
<1>2. f \in DraftFields(type)
  BY DEF DraftFields
<1> QED
  BY <1>1, <1>2, DraftsAssumption DEF IsDraft

LEMMA SentOK ==
  ASSUME NEW type, NEW draft, NEW height, IsDraft(type, draft, height)
  PROVE  MsgOK(type, Filled(type, draft, height))
<1> DEFINE sent == Filled(type, draft, height)
<1> HIDE DEF sent
<1>1. ASSUME type = "ConnectionOpenTry"
      PROVE  sent.counterparty.prefix = IbcPrefix /\ sent.consensus_height \in Numbers \X Numbers
  <2>1. sent["counterparty"] = draft["counterparty"] /\ FieldShape("counterparty", draft["counterparty"])
    BY <1>1, NamedFields, SentField DEF sent
  <2>2. /\ sent["consensus_height"] = draft["consensus_height"]
        /\ FieldShape("height", draft["consensus_height"])
    BY <1>1, NamedFields, SentField DEF sent
  <2> QED
    BY <2>1, <2>2 DEF FieldShape
<1>2. ASSUME type = "ConnectionOpenAck"
      PROVE  sent.consensus_height \in Numbers \X Numbers
  <2>1. /\ sent["consensus_height"] = draft["consensus_height"]
        /\ FieldShape("height", draft["consensus_height"])
    BY <1>2, NamedFields, SentField DEF sent
  <2> QED
    BY <2>1 DEF FieldShape
<1>3. ASSUME type = "ChannelOpenTry"
      PROVE  sent.channel.ordering \in {"Unordered", "Ordered"}
  <2>1. sent["channel"] = draft["channel"] /\ FieldShape("try_channel", draft["channel"])
    BY <1>3, TryType, SentField DEF sent
  <2>2. ChannelEndShape(sent["channel"])
    BY <2>1 DEF FieldShape
  <2> QED
    BY <2>2 DEF ChannelEndShape
<1>4. ASSUME type \in PacketMsgs
      PROVE  sent.packet.sequence \in Numbers
  <2>1. sent["packet"] = draft["packet"] /\ FieldShape("packet", draft["packet"])
    BY <1>4, PacketField, SentField DEF sent
  <2>2. PacketShape(sent["packet"])
    BY <2>1 DEF FieldShape
  <2> QED
    BY <2>2 DEF PacketShape
<1>5. ASSUME type = "UpgradeClient"
      PROVE  sent.client_state # Missing /\ sent.consensus_state # Missing
  <2>1. /\ sent["client_state"] = draft["client_state"]
        /\ ParseField("any", UnparseField("any", draft["client_state"])) # {}
        /\ sent["consensus_state"] = draft["consensus_state"]
        /\ ParseField("any", UnparseField("any", draft["consensus_state"])) # {}
    BY <1>5, NamedFields, SentField DEF sent
  <2>2. \A v : ParseField("any", UnparseField("any", v)) # {} => v # Missing
    BY DEF ParseField, UnparseField, When
  <2> QED
    BY <2>1, <2>2
<1>6. MsgOK(type, sent)
  BY <1>1, <1>2, <1>3, <1>4, <1>5 DEF MsgOK
<1> QED
  BY <1>6 DEF sent

\* What is read claims what was sent, and nothing else.
LEMMA ArrivedClaims ==
  ASSUME NEW type, NEW draft, NEW height, IsDraft(type, draft, height), NEW latest
  PROVE  LET sent == Filled(type, draft, height)
             m    == Arrived(type, sent)
         IN  Claims(type, m, latest) = Claims(type, sent, latest)
<1> DEFINE sent == Filled(type, draft, height)
           m    == Arrived(type, sent)
<1>1. type \in DOMAIN Envelope
  BY DraftsAssumption DEF IsDraft
<1>2. sent = [f \in DOMAIN Envelope[type] |-> sent[f]]
  BY DEF Filled
<1>3. CASE type # "ChannelOpenTry"
  <2> HIDE DEF sent
  <2>1. m = sent
    BY <1>1, <1>2, <1>3, ArrivedIs
  <2> QED
    BY <2>1 DEF sent
<1>4. CASE type = "ChannelOpenTry"
  <2> DEFINE v == sent.channel
             u == m.channel
  <2>1. {"channel", "port_id", "counterparty_version"} \subseteq DOMAIN Envelope[type]
    <3>1. Envelope[type] = MsgChannelOpenTry
      BY <1>4 DEF Envelope
    <3> QED
      BY <3>1 DEF MsgChannelOpenTry
  <2>2. /\ Envelope[type]["channel"] = "try_channel"
        /\ Envelope[type]["port_id"] # "try_channel"
        /\ Envelope[type]["counterparty_version"] # "try_channel"
    BY <1>1, <1>4, <2>1, TryType, MessageTypes DEF KindsOK
  <2> HIDE DEF sent
  <2>3. /\ u = AsRead("try_channel", v)
        /\ m["port_id"] = AsRead(Envelope[type]["port_id"], sent["port_id"])
        /\ m["counterparty_version"]
             = AsRead(Envelope[type]["counterparty_version"], sent["counterparty_version"])
    BY <2>1, <2>2, ArrivedField
  <2>a. m["port_id"] = sent["port_id"] /\ m["counterparty_version"] = sent["counterparty_version"]
    BY <2>2, <2>3, Zenon DEF AsRead
  <2>4. ChannelEndShape(v)
    <3>1. sent["channel"] = draft["channel"] /\ FieldShape("try_channel", draft["channel"])
      BY <1>4, TryType, SentField DEF sent
    <3> QED
      BY <3>1 DEF FieldShape
  <2> HIDE DEF m
  <2>5. Unversioned(v, u)
    <3> HIDE DEF v, u
    <3>1. u = [v EXCEPT !.version = ""]
      BY <2>3, Zenon DEF AsRead
    <3>2. \A new : Unversioned(v, [v EXCEPT !.version = new])
      BY <2>4, UnversionedShape
    <3> QED
      BY <3>1, <3>2, Zenon
  <2>6. u.ordering = v.ordering /\ u.connection_hops = v.connection_hops /\ u.remote = v.remote
    BY <2>5 DEF Unversioned
  <2>7. ChannelOpenTryClaims(m) = ChannelOpenTryClaims(sent)
    BY <2>a, <2>6 DEF ChannelOpenTryClaims
  <2>8. Claims(type, m, latest) = Claims(type, sent, latest)
    BY <1>4, <2>7 DEF Claims
  <2> QED
    BY <2>8 DEF sent, m
<1> QED
  BY <1>3, <1>4

LEMMA SentRouted ==
  ASSUME NEW type, NEW draft, NEW height, IsDraft(type, draft, height)
  PROVE  Routed(type, Arrived(type, Filled(type, draft, height)))
<1> DEFINE sent == Filled(type, draft, height)
           m    == Arrived(type, sent)
<1> HIDE DEF sent, m
<1>1. /\ type \in ChannelMsgs => draft.port_id \in DOMAIN OwnRouter
      /\ type = "RecvPacket" => draft.packet.destination_port \in DOMAIN OwnRouter
      /\ type \in PacketMsgs \ {"RecvPacket"} => draft.packet.source_port \in DOMAIN OwnRouter
  BY RoutesAssumption DEF IsDraft
<1>2. ASSUME type \in ChannelMsgs
      PROVE  m["port_id"] = draft["port_id"]
  <2>1. "port_id" \in DOMAIN Envelope[type] /\ Envelope[type]["port_id"] = "port"
    BY <1>2, PortField
  <2>2. sent["port_id"] = draft["port_id"]
    BY <2>1, SentField DEF sent
  <2>3. m["port_id"] = AsRead(Envelope[type]["port_id"], sent["port_id"])
    BY <2>1, ArrivedField DEF m
  <2>4. Envelope[type]["port_id"] # "try_channel"
    BY <2>1
  <2> QED
    BY <2>2, <2>3, <2>4, Zenon DEF AsRead
<1>3. ASSUME type \in PacketMsgs
      PROVE  m["packet"] = draft["packet"]
  <2>1. "packet" \in DOMAIN Envelope[type] /\ Envelope[type]["packet"] = "packet"
    BY <1>3, PacketField
  <2>2. sent["packet"] = draft["packet"]
    BY <2>1, SentField DEF sent
  <2>3. m["packet"] = AsRead(Envelope[type]["packet"], sent["packet"])
    BY <2>1, ArrivedField DEF m
  <2>4. Envelope[type]["packet"] # "try_channel"
    BY <2>1
  <2> QED
    BY <2>2, <2>3, <2>4, Zenon DEF AsRead
<1>4. Routed(type, m)
  BY <1>1, <1>2, <1>3 DEF Routed, channel_msg_to_port_id, packet_msg_to_port_id, PacketMsgs
<1> QED
  BY <1>4 DEF m, sent

-----------------------------------------------------------------------------
(* The proofs that come with a message *)

LEMMA ShownByThere ==
  ASSUME NEW claims, ClaimsOK(claims), NEW i \in DOMAIN claims
  PROVE  /\ ShownBy(claims, i) \in DOMAIN claims
         /\ OneProofEach(claims) => ShownBy(claims, i) = i
<1> DEFINE n == Len(claims)
           Last(j) == /\ claims[j].proof = claims[i].proof
                      /\ \A k \in j + 1 .. n : claims[k].proof # claims[i].proof
<1>1. n \in 0 .. 3 /\ DOMAIN claims = 1 .. n /\ i \in 1 .. n
  BY DEF ClaimsOK
<1>2. \E j \in i .. n : Last(j)
  <2> HIDE DEF n
  <2>1. CASE claims[n].proof = claims[i].proof
    <3>1. n \in i .. n /\ Last(n)
      BY <1>1, <2>1
    <3> QED
      BY <3>1
  <2>2. CASE claims[n].proof # claims[i].proof /\ claims[n - 1].proof = claims[i].proof
    <3>1. n - 1 \in i .. n
      BY <1>1, <2>2
    <3>2. \A k \in (n - 1) + 1 .. n : k = n
      BY <1>1
    <3>3. Last(n - 1)
      BY <2>2, <3>2
    <3> QED
      BY <3>1, <3>3
  <2>3. CASE claims[n].proof # claims[i].proof /\ claims[n - 1].proof # claims[i].proof
    <3>1. i # n /\ i # n - 1
      BY <2>3
    <3>2. n = 3 /\ i = 1
      BY <1>1, <3>1
    <3>3. \A k \in 1 + 1 .. n : k = n \/ k = n - 1
      BY <3>2
    <3>4. Last(1)
      BY <2>3, <3>2, <3>3
    <3> QED
      BY <3>2, <3>4
  <2> QED
    BY <2>1, <2>2, <2>3
<1> DEFINE j == ShownBy(claims, i)
<1>3. j \in i .. n /\ claims[j].proof = claims[i].proof
  BY <1>2 DEF ShownBy
<1> HIDE DEF j
<1>4. j \in DOMAIN claims
  BY <1>1, <1>3
<1>5. OneProofEach(claims) => j = i
  BY <1>3, <1>4 DEF OneProofEach
<1> QED
  BY <1>4, <1>5 DEF j

SourceOK(source) ==
  /\ source.kind \in {"genuine", "forged", "other"}
  /\ source.kind = "other" => is_provable(source.path)

LEMMA GenuineThere ==
  ASSUME NEW records, NEW claim, is_provable(claim.path)
  PROVE  Genuine(records, claim) \in get_proof(records, claim.path)
  BY SomeProof DEF Genuine

\* Whatever the relayer does, it makes proofs of what is in some tree.
LEMMA ProofsAreMade ==
  ASSUME NEW source, SourceOK(source), NEW claim, ClaimOK(claim)
  PROVE  Made(ProofFrom(source, claim))
<1>1. /\ PathShape(claim.path) /\ is_provable(claim.path) /\ claim.path[1] \in ClaimKinds
      /\ claim.prefix = StoreOf(claim.path) /\ "path" \in DOMAIN claim
  BY DEF ClaimOK, IsClaim
<1>2. CASE source.kind = "genuine"
  <2>1. Genuine(source.records, claim) \in get_proof(source.records, claim.path)
    BY <1>1, GenuineThere
  <2> QED
    BY <1>1, <1>2, <2>1, GivenIsMade DEF ProofFrom
<1>3. CASE source.kind = "forged"
  <2> DEFINE text == PathText(claim.path)
             tree == IF claim.value = Missing THEN [key \in {<<"forged">>} |-> <<>>]
                     ELSE [key \in {text} |-> ValueBytes(claim.path, claim.value)]
             leaf == IF claim.value = Missing THEN NonExistProof(tree, text) ELSE ExistProof(tree, text)
  <2>1. text # <<"forged">>
    <3>1. KindOf(text) \in ClaimKinds
      BY <1>1, KindRead
    <3>2. KindOf(<<"forged">>) \notin ClaimKinds
      BY DEF KindOf, ClaimKinds
    <3> QED
      BY <3>1, <3>2
  <2>2. claim.value = Missing => text \notin DOMAIN tree
    BY <2>1
  <2>3. claim.value # Missing => text \in DOMAIN tree
    OBVIOUS
  <2>4. ProofFrom(source, claim) = <<leaf, ExistProof(Multistore(source.records), claim.prefix)>>
    BY <1>3 DEF ProofFrom, Forged
  <2>5. claim.prefix \in {IbcPrefix, UpgradePrefix}
    BY <1>1, StoresOfMultistore
  <2> HIDE DEF text, tree
  <2>6. LeafMade(leaf)
    BY <2>2, <2>3 DEF LeafMade
  <2> HIDE DEF leaf
  <2> QED
    BY <2>4, <2>5, <2>6 DEF Made
<1>4. CASE source.kind = "other"
  <2> DEFINE other == [claim EXCEPT !.path = source.path]
  <2>1. other.path = source.path /\ is_provable(source.path)
    BY <1>1, <1>4 DEF SourceOK
  <2> HIDE DEF other
  <2>2. Genuine(source.records, other) \in get_proof(source.records, other.path)
    BY <2>1, GenuineThere
  <2>3. Made(Genuine(source.records, other))
    BY <2>1, <2>2, GivenIsMade
  <2> QED
    BY <1>4, <2>3 DEF ProofFrom, other
<1> QED
  BY <1>2, <1>3, <1>4 DEF SourceOK

-----------------------------------------------------------------------------
(* What becomes of a message *)

\* The message that is read, if there is one, is the one that was sent, and
\* its claims are so.
LEMMA ProcessedIsTrue ==
  ASSUME NEW type, NEW draft, NEW block, IsDraft(type, draft, block.height),
         block.height[2] \in Numbers, Kept(block.records), NEW source, SourceOK(source),
         NEW m \in Process(type, Sent(type, draft, block), block, source)
  PROVE  /\ m = Arrived(type, Filled(type, draft, block.height))
         /\ \E claims \in Claims(type, m, block.height) : AllTrue(claims, block.records)
<1> DEFINE sent == Filled(type, draft, block.height)
<1>1. m = Arrived(type, sent)
  BY SentArrives DEF Process, Sent
<1>2. PICK claims \in Claims(type, m, block.height) :
        \A i \in DOMAIN claims :
          Verified(claims[i], ProofFrom(source, claims[ShownBy(claims, i)]),
                   Multistore(block.records))
  BY DEF Process
<1>3. claims \in Claims(type, sent, block.height)
  BY <1>1, <1>2, ArrivedClaims
<1>4. ClaimsOK(claims)
  BY <1>3, SentOK, ClaimsAreOK
<1>5. ASSUME NEW i \in DOMAIN claims
      PROVE  IsTrue(claims[i], block.records)
  <2> DEFINE shown == claims[ShownBy(claims, i)]
  <2>1. ClaimOK(claims[i]) /\ ClaimOK(shown)
    BY <1>4, ShownByThere DEF ClaimsOK
  <2>2. Made(ProofFrom(source, shown))
    BY <2>1, ProofsAreMade
  <2>3. Verified(claims[i], ProofFrom(source, shown), Multistore(block.records))
    BY <1>2
  <2> HIDE DEF shown
  <2> QED
    BY <2>1, <2>2, <2>3, Sound DEF ClaimOK, Kept
<1>6. AllTrue(claims, block.records)
  BY <1>5 DEF AllTrue
<1> QED
  BY <1>1, <1>2, <1>6

\* What an honest relayer brings is accepted when it is so.
LEMMA HonestIsProcessed ==
  ASSUME NEW type, type # "TimeoutOnClose", NEW draft, NEW block,
         IsDraft(type, draft, block.height), block.height[2] \in Numbers, Kept(block.records),
         NEW claims \in Claims(type, Filled(type, draft, block.height), block.height),
         AllTrue(claims, block.records)
  PROVE  Process(type, Sent(type, draft, block), block, GenuineOf(block)) # {}
<1> DEFINE sent   == Filled(type, draft, block.height)
           m      == Arrived(type, sent)
           source == GenuineOf(block)
<1>1. m \in Decode(type, Sent(type, draft, block))
  BY SentArrives DEF Sent
<1>2. Routed(type, m)
  BY SentRouted
<1>3. claims \in Claims(type, m, block.height)
  BY ArrivedClaims
<1>4. ClaimsOK(claims) /\ OneProofEach(claims)
  BY SentOK, ClaimsAreOK
<1>5. source.kind = "genuine" /\ source.records = block.records
  BY DEF GenuineOf
<1> HIDE DEF source
<1>6. ASSUME NEW i \in DOMAIN claims
      PROVE  Verified(claims[i], ProofFrom(source, claims[ShownBy(claims, i)]),
                      Multistore(block.records))
  <2> DEFINE c == claims[i]
  <2>1. claims[ShownBy(claims, i)] = c
    BY <1>4, ShownByThere
  <2>2. ClaimOK(c) /\ IsTrue(c, block.records)
    BY <1>4 DEF ClaimsOK, AllTrue
  <2> HIDE DEF c
  <2>3. /\ PathShape(c.path) /\ is_provable(c.path) /\ c.path[1] \in ClaimKinds
        /\ c.prefix = StoreOf(c.path) /\ (c.value = Missing => c.prefix = IbcPrefix)
    BY <2>2 DEF ClaimOK, IsClaim
  <2>4. ProofFrom(source, c) \in get_proof(block.records, c.path)
    BY <1>5, <2>3, GenuineThere DEF ProofFrom
  <2>5. Verified(c, ProofFrom(source, c), Multistore(block.records))
    BY <2>2, <2>3, <2>4, Complete
  <2> QED
    BY <2>1, <2>5 DEF c
<1> HIDE DEF m
<1>7. m \in Process(type, Sent(type, draft, block), block, source)
  BY <1>1, <1>2, <1>3, <1>6 DEF Process
<1> QED
  BY <1>7 DEF source

DeliveredOK == AcceptedIsTrue /\ ReceivedAsSent /\ HonestIsAccepted

LEMMA NothingIsOK ==
  ASSUME delivered' = Nothing
  PROVE  DeliveredOK'
  BY DEF Nothing, DeliveredOK, AcceptedIsTrue, ReceivedAsSent, HonestIsAccepted

\* A message that is not read, and that nobody need read, leaves nothing.
LEMMA RefusedIsNothing ==
  ASSUME NEW type, NEW draft, NEW block, NEW raw, NEW source, Decode(type, raw) = {},
         Deliver(type, draft, block, FALSE, raw, source)
  PROVE  delivered' = Nothing
<1>1. Process(type, raw, block, source) = {}
  BY DEF Process
<1> QED
  BY <1>1 DEF Deliver

LEMMA SentIsOK ==
  ASSUME NEW type, NEW draft, NEW block, IsDraft(type, draft, block.height),
         block.height[2] \in Numbers, Kept(block.records), NEW source, SourceOK(source),
         NEW honest, honest => source = GenuineOf(block),
         Deliver(type, draft, block, honest, Sent(type, draft, block), source)
  PROVE  DeliveredOK'
<1> DEFINE sent     == Filled(type, draft, block.height)
           raw      == Sent(type, draft, block)
           accepted == Process(type, raw, block, source)
           truthful == \E claims \in Claims(type, sent, block.height) :
                         AllTrue(claims, block.records)
           got      == CHOOSE m \in accepted : TRUE
           record   == [outcome |-> "accepted", type |-> type, sent |-> sent, got |-> got,
                        spoiled |-> raw # Encode(type, sent), records |-> block.records,
                        height |-> block.height]
<1>1. delivered' = IF accepted = {}
                   THEN IF honest /\ truthful THEN [outcome |-> "refused", type |-> type]
                                              ELSE Nothing
                   ELSE record
  BY DEF Deliver
<1>2. CASE accepted # {}
  <2>1. got \in accepted
    BY <1>2
  <2>2. /\ got = Arrived(type, sent)
        /\ \E claims \in Claims(type, got, block.height) : AllTrue(claims, block.records)
    BY <2>1, ProcessedIsTrue
  <2>3. raw = Encode(type, sent)
    BY DEF Sent
  <2>4. type \in DOMAIN Envelope
    BY DraftsAssumption DEF IsDraft
  <2>5. sent = [f \in DOMAIN Envelope[type] |-> sent[f]]
    BY DEF Filled
  <2> HIDE DEF got, sent, raw
  <2>6. got = IF type = "ChannelOpenTry" THEN [sent EXCEPT !.channel.version = ""] ELSE sent
    BY <2>2, <2>4, <2>5, ArrivedIs, Zenon
  <2>7. /\ delivered'.outcome = "accepted" /\ delivered'.type = type /\ delivered'.sent = sent
        /\ delivered'.got = got /\ delivered'.records = block.records
        /\ delivered'.height = block.height
    BY <1>1, <1>2
  <2>8. ~delivered'.spoiled
    BY <1>1, <1>2, <2>3
  <2>9. AcceptedIsTrue'
    BY <2>2, <2>7 DEF AcceptedIsTrue
  <2>10. ReceivedAsSent'
    BY <2>6, <2>7, <2>8, Zenon DEF ReceivedAsSent
  <2>11. HonestIsAccepted'
    BY <2>7 DEF HonestIsAccepted
  <2> QED
    BY <2>9, <2>10, <2>11 DEF DeliveredOK
<1>3. CASE accepted = {}
  <2>1. CASE honest /\ truthful
    <3>1. type = "TimeoutOnClose"
      BY <1>3, <2>1, HonestIsProcessed
    <3>2. delivered' = [outcome |-> "refused", type |-> type]
      BY <1>1, <1>3, <2>1
    <3>3. delivered'.outcome = "refused" /\ delivered'.type = type
      BY <3>2
    <3> QED
      BY <3>1, <3>3 DEF DeliveredOK, AcceptedIsTrue, ReceivedAsSent, HonestIsAccepted
  <2>2. CASE ~(honest /\ truthful)
    BY <1>1, <1>3, <2>2, NothingIsOK
  <2> QED
    BY <2>1, <2>2
<1> QED
  BY <1>2, <1>3

LEMMA HeightNamesBlock ==
  ASSUME BlocksInv, NEW i \in DOMAIN blocks, NEW j \in DOMAIN blocks,
         blocks[i].height = blocks[j].height
  PROVE  i = j
  BY DEF BlocksInv

LEMMA ReceiveOK ==
  ASSUME HostInv, Receive
  PROVE  DeliveredOK'
<1>1. PICK type \in DOMAIN Drafts : \E draft \in Drafts[type], i \in DOMAIN blocks :
        \/ Relay(type, draft, blocks[i])
        \/ RelayForged(type, draft, blocks[i])
        \/ RelayOtherRecord(type, draft, blocks[i])
        \/ RelaySpoiled(type, draft, blocks[i])
  BY DEF Receive
<1>2. PICK draft \in Drafts[type], i \in DOMAIN blocks :
        \/ Relay(type, draft, blocks[i])
        \/ RelayForged(type, draft, blocks[i])
        \/ RelayOtherRecord(type, draft, blocks[i])
        \/ RelaySpoiled(type, draft, blocks[i])
  BY <1>1
<1> DEFINE block == blocks[i]
<1>3. BlocksInv
  BY DEF HostInv
<1>4. block.height[2] \in Numbers
  BY <1>3, HeightsHaveNumerals
<1>5. /\ block.height \in Nat \X Nat /\ block.height[2] \in 1 .. i
      /\ Kept(block.records)
  BY <1>3, LastBlock DEF BlocksInv
<1>6. IsDraft(type, draft, block.height)
  <2>1. i \in Nat
    BY <1>3, LastBlock
  <2>2. block.height[2] # 0
    BY <1>5, <2>1
  <2> QED
    BY <1>5, <2>2 DEF IsDraft
<1> HIDE DEF block
<1>7. ASSUME NEW j \in DOMAIN blocks,
             Deliver(type, draft, block, blocks[j].height = block.height,
                     Sent(type, draft, block), GenuineOf(blocks[j]))
      PROVE  DeliveredOK'
  <2> DEFINE honest == blocks[j].height = block.height
             source == GenuineOf(blocks[j])
  <2>1. SourceOK(source)
    BY DEF SourceOK, GenuineOf
  <2>2. honest => source = GenuineOf(block)
    BY <1>3, HeightNamesBlock DEF block
  <2>3. Deliver(type, draft, block, honest, Sent(type, draft, block), source)
    BY <1>7
  <2> HIDE DEF honest, source
  <2> QED
    BY <1>4, <1>5, <1>6, <2>1, <2>2, <2>3, SentIsOK
<1>8. ASSUME NEW source, SourceOK(source),
             Deliver(type, draft, block, FALSE, Sent(type, draft, block), source)
      PROVE  DeliveredOK'
  BY <1>4, <1>5, <1>6, <1>8, SentIsOK
<1>9. CASE Relay(type, draft, block)
  BY <1>7, <1>9 DEF Relay
<1>10. CASE RelayForged(type, draft, block)
  <2> DEFINE source == [kind |-> "forged", records |-> block.records]
  <2>1. SourceOK(source)
    BY DEF SourceOK
  <2>2. Deliver(type, draft, block, FALSE, Sent(type, draft, block), source)
    BY <1>10 DEF RelayForged
  <2> HIDE DEF source
  <2> QED
    BY <1>8, <2>1, <2>2
<1>11. CASE RelayOtherRecord(type, draft, block)
  <2>1. PICK path : /\ is_provable(path)
                    /\ Deliver(type, draft, block, FALSE, Sent(type, draft, block),
                               [kind |-> "other", records |-> block.records, path |-> path])
    BY <1>11 DEF RelayOtherRecord
  <2> DEFINE source == [kind |-> "other", records |-> block.records, path |-> path]
  <2>2. SourceOK(source)
    BY <2>1 DEF SourceOK
  <2>3. Deliver(type, draft, block, FALSE, Sent(type, draft, block), source)
    BY <2>1
  <2> HIDE DEF source
  <2> QED
    BY <1>8, <2>2, <2>3
<1>12. CASE RelaySpoiled(type, draft, block)
  <2>1. PICK f \in DOMAIN Envelope[type] : \E bad \in Unusable(Envelope[type][f]) :
          Deliver(type, draft, block, FALSE, [Sent(type, draft, block) EXCEPT ![f] = bad],
                  GenuineOf(block))
    BY <1>12 DEF RelaySpoiled
  <2>2. PICK bad \in Unusable(Envelope[type][f]) :
          Deliver(type, draft, block, FALSE, [Sent(type, draft, block) EXCEPT ![f] = bad],
                  GenuineOf(block))
    BY <2>1
  <2> DEFINE raw == [Sent(type, draft, block) EXCEPT ![f] = bad]
  <2>3. type \in DOMAIN Envelope
    BY DraftsAssumption
  <2>4. Decode(type, raw) = {}
    BY <2>3, SpoiledRefused DEF Sent
  <2>5. Deliver(type, draft, block, FALSE, raw, GenuineOf(block))
    BY <2>2
  <2> HIDE DEF raw
  <2> QED
    BY <2>4, <2>5, RefusedIsNothing, NothingIsOK
<1> QED
  BY <1>2, <1>9, <1>10, <1>11, <1>12 DEF block

LEMMA DeliveredInv ==
  Spec => []DeliveredOK
<1>1. Init => DeliveredOK
  BY DEF Init, Nothing, DeliveredOK, AcceptedIsTrue, ReceivedAsSent, HonestIsAccepted
<1>2. HostInv /\ DeliveredOK /\ [Next]_vars => DeliveredOK'
  <2> SUFFICES ASSUME HostInv, DeliveredOK, [Next]_vars
               PROVE  DeliveredOK'
    OBVIOUS
  <2>1. ASSUME UNCHANGED delivered
        PROVE  DeliveredOK'
    BY <2>1 DEF DeliveredOK, AcceptedIsTrue, ReceivedAsSent, HonestIsAccepted
  <2>2. CASE HostStep
    BY <2>1, <2>2 DEF HostStep
  <2>3. CASE Receive
    BY <2>3, ReceiveOK
  <2>4. CASE NextMessage
    BY <2>4, NothingIsOK DEF NextMessage
  <2>5. CASE UNCHANGED vars
    BY <2>1, <2>5 DEF vars
  <2> QED
    BY <2>2, <2>3, <2>4, <2>5 DEF Next
<1> QED
  BY <1>1, <1>2, HostInvHolds, PTL DEF Spec

\* What a handler relies on is what the counterparty had committed at the
\* proof's height, whatever proofs the relayer made: of another block, of
\* another record, or of a tree of its own (verify_membership,
\* verify_non_membership and the claims of every handler).
THEOREM AcceptedIsTrueHolds ==
  Spec => []AcceptedIsTrue
<1>1. DeliveredOK => AcceptedIsTrue
  BY DEF DeliveredOK
<1> QED
  BY <1>1, DeliveredInv, PTL

\* A message that says the truth and comes with the counterparty's own proofs
\* is accepted, MsgTimeoutOnClose aside.
THEOREM HonestIsAcceptedHolds ==
  Spec => []HonestIsAccepted
<1>1. DeliveredOK => HonestIsAccepted
  BY DEF DeliveredOK
<1> QED
  BY <1>1, DeliveredInv, PTL

\* A message reaches a handler's end as it was sent, but for the version that
\* MsgChannelOpenTry proposes, and with an unusable field it does not
\* (TryFrom<RawMsg>, MsgEnvelope::try_from).
THEOREM ReceivedAsSentHolds ==
  Spec => []ReceivedAsSent
<1>1. DeliveredOK => ReceivedAsSent
  BY DEF DeliveredOK
<1> QED
  BY <1>1, DeliveredInv, PTL

-----------------------------------------------------------------------------
(* A text is read back as the path it was written for *)

LEMMA U64Read ==
  ASSUME NEW n \in Numbers
  PROVE  ParseU64(Numeral(n)) = {n}
  BY NumeralAssumption DEF ParseU64, NumeralsOf

LEMMA HeightRead ==
  ASSUME NEW h \in Numbers \X Numbers
  PROVE  ParseHeight(HeightText(h)) = {h}
<1> DEFINE text == HeightText(h)
<1>1. h \in ParseHeight(text)
  <2>1. Numeral(h[1]) \in NumeralsOf(h[1]) /\ Numeral(h[2]) \in NumeralsOf(h[2])
    BY DEF NumeralsOf
  <2> QED
    BY <2>1 DEF ParseHeight, HeightText
<1>2. ASSUME NEW g \in ParseHeight(text)
      PROVE  g = h
  <2>1. g \in Numbers \X Numbers
    BY DEF ParseHeight
  <2>2. PICK r \in NumeralsOf(g[1]), k \in NumeralsOf(g[2]) : text = Dashed(r, k)
    BY DEF ParseHeight
  <2>3. h[1] \in Numbers /\ h[2] \in Numbers /\ g[1] \in Numbers /\ g[2] \in Numbers
    BY <2>1
  <2>4. Dashed(Numeral(h[1]), Numeral(h[2])) = Dashed(r, k)
    BY <2>2 DEF HeightText
  <2>5. h[1] = g[1] /\ h[2] = g[2]
    BY <2>3, <2>4, DashAssumption
  <2> QED
    BY <2>1, <2>5
<1> QED
  BY <1>1, <1>2

\* The parsers in the order in which a text is given to them
Tried(c) ==
  <<parse_next_sequence(c), parse_client_paths(c), parse_connections(c),
    parse_ports(c), parse_channel_ends(c), parse_seqs(c), parse_commitments(c),
    parse_acks(c), parse_receipts(c), parse_upgrades(c)>>

LEMMA FirstDecides ==
  ASSUME NEW c, NEW k \in 1 .. 10, NEW p, Tried(c)[k] = {p},
         \A j \in 1 .. k - 1 : Tried(c)[j] = {}
  PROVE  PathFromStr(c) = {p}
<1> DEFINE tried == Tried(c)
<1>1. PathFromStr(c) = UNION {tried[i] : i \in {m \in 1 .. 10 : \A j \in 1 .. m - 1 : tried[j] = {}}}
  BY DEF PathFromStr, Tried
<1> HIDE DEF tried
<1>2. tried[k] = {p} /\ \A j \in 1 .. k - 1 : tried[j] = {}
  BY DEF tried
<1>3. ASSUME NEW i \in 1 .. 10, \A j \in 1 .. i - 1 : tried[j] = {}
      PROVE  tried[i] \subseteq {p}
  <2>1. CASE i > k
    BY <1>2, <1>3, <2>1
  <2>2. CASE i < k
    BY <1>2, <2>2
  <2>3. CASE i = k
    BY <1>2, <2>3
  <2> QED
    BY <2>1, <2>2, <2>3
<1>4. \A x \in PathFromStr(c) : x = p
  BY <1>1, <1>3
<1>5. p \in PathFromStr(c)
  BY <1>1, <1>2
<1> QED
  BY <1>4, <1>5

\* Each parser knows the texts it is for by their first word and their length.
LEMMA OthersRefuse ==
  ASSUME NEW c
  PROVE  /\ Len(c) # 1 => parse_next_sequence(c) = {}
         /\ c[1] # "clients" => parse_client_paths(c) = {}
         /\ c[1] # "connections" => parse_connections(c) = {}
         /\ c[1] # "ports" => parse_ports(c) = {}
         /\ c[1] # "channelEnds" => parse_channel_ends(c) = {}
         /\ c[1] \notin {"nextSequenceSend", "nextSequenceRecv", "nextSequenceAck"} =>
              parse_seqs(c) = {}
         /\ c[1] # "commitments" => parse_commitments(c) = {}
         /\ c[1] # "acks" => parse_acks(c) = {}
         /\ c[1] # "receipts" => parse_receipts(c) = {}
<1>1. ASSUME Len(c) # 1
      PROVE  parse_next_sequence(c) = {}
  <2>1. \A p : Len(NextSequenceText(p)) = 1
    BY DEF NextSequenceText
  <2> QED
    BY <1>1, <2>1 DEF parse_next_sequence
<1>2. c[1] # "clients" => parse_client_paths(c) = {}
  BY DEF parse_client_paths
<1>3. c[1] # "connections" => parse_connections(c) = {}
  BY DEF parse_connections, When
<1>4. c[1] # "ports" => parse_ports(c) = {}
  BY DEF parse_ports, When
<1>5. c[1] # "channelEnds" => parse_channel_ends(c) = {}
  BY DEF parse_channel_ends
<1>6. c[1] \notin {"nextSequenceSend", "nextSequenceRecv", "nextSequenceAck"} => parse_seqs(c) = {}
  BY DEF parse_seqs, When
<1>7. /\ c[1] # "commitments" => parse_commitments(c) = {}
      /\ c[1] # "acks" => parse_acks(c) = {}
      /\ c[1] # "receipts" => parse_receipts(c) = {}
  BY DEF parse_commitments, parse_acks, parse_receipts, ParsePacketPath
<1> QED
  BY <1>1, <1>2, <1>3, <1>4, <1>5, <1>6, <1>7

LEMMA CounterPathsRead ==
  ASSUME NEW p \in {<<"NextClientSequence">>, <<"NextConnectionSequence">>, <<"NextChannelSequence">>}
  PROVE  PathFromStr(PathText(p)) = {p}
<1> DEFINE c == PathText(p)
<1>1. NextSequenceText(p) = c
  BY DEF PathText
<1>2. /\ NextSequenceText(<<"NextClientSequence">>) = <<"nextClientSequence">>
      /\ NextSequenceText(<<"NextConnectionSequence">>) = <<"nextConnectionSequence">>
      /\ NextSequenceText(<<"NextChannelSequence">>) = <<"nextChannelSequence">>
  BY DEF NextSequenceText
<1> HIDE DEF c
<1>3. parse_next_sequence(c) = {p}
  BY <1>1, <1>2 DEF parse_next_sequence
<1>4. Tried(c)[1] = {p}
  BY <1>3 DEF Tried
<1> QED
  BY <1>4, FirstDecides DEF c

\* A text with that first word is for its own parser to decide.
LEMMA WordDecides ==
  ASSUME NEW c, NEW p, Len(c) # 1,
         \/ c[1] = "clients" /\ parse_client_paths(c) = {p}
         \/ c[1] = "connections" /\ parse_connections(c) = {p}
         \/ c[1] = "channelEnds" /\ parse_channel_ends(c) = {p}
         \/ c[1] \in {"nextSequenceSend", "nextSequenceRecv", "nextSequenceAck"}
            /\ parse_seqs(c) = {p}
         \/ c[1] = "commitments" /\ parse_commitments(c) = {p}
         \/ c[1] = "acks" /\ parse_acks(c) = {p}
         \/ c[1] = "receipts" /\ parse_receipts(c) = {p}
         \/ c[1] = "upgradedIBCState" /\ parse_upgrades(c) = {p}
  PROVE  PathFromStr(c) = {p}
<1>1. /\ Tried(c)[1] = parse_next_sequence(c) /\ Tried(c)[2] = parse_client_paths(c)
      /\ Tried(c)[3] = parse_connections(c) /\ Tried(c)[4] = parse_ports(c)
      /\ Tried(c)[5] = parse_channel_ends(c) /\ Tried(c)[6] = parse_seqs(c)
      /\ Tried(c)[7] = parse_commitments(c) /\ Tried(c)[8] = parse_acks(c)
      /\ Tried(c)[9] = parse_receipts(c) /\ Tried(c)[10] = parse_upgrades(c)
  BY DEF Tried
<1>2. parse_next_sequence(c) = {}
  BY OthersRefuse
<1>3. CASE c[1] = "clients" /\ parse_client_paths(c) = {p}
  <2>1. Tried(c)[2] = {p} /\ \A j \in 1 .. 2 - 1 : Tried(c)[j] = {}
    BY <1>1, <1>2, <1>3
  <2> QED
    BY <2>1, FirstDecides
<1>4. CASE c[1] = "connections" /\ parse_connections(c) = {p}
  <2>1. parse_client_paths(c) = {}
    BY <1>4, OthersRefuse
  <2>2. Tried(c)[3] = {p} /\ \A j \in 1 .. 3 - 1 : Tried(c)[j] = {}
    BY <1>1, <1>2, <1>4, <2>1
  <2> QED
    BY <2>2, FirstDecides
<1>5. CASE c[1] \notin {"clients", "connections"}
  <2>1. c[1] # "ports" /\ parse_client_paths(c) = {} /\ parse_connections(c) = {} /\ parse_ports(c) = {}
    BY <1>5, OthersRefuse
  <2>2. CASE c[1] = "channelEnds" /\ parse_channel_ends(c) = {p}
    <3>1. Tried(c)[5] = {p} /\ \A j \in 1 .. 5 - 1 : Tried(c)[j] = {}
      BY <1>1, <1>2, <2>1, <2>2
    <3> QED
      BY <3>1, FirstDecides
  <2>3. CASE c[1] # "channelEnds"
    <3>1. parse_channel_ends(c) = {}
      BY <2>3, OthersRefuse
    <3>2. CASE parse_seqs(c) = {p}
      <4>1. Tried(c)[6] = {p} /\ \A j \in 1 .. 6 - 1 : Tried(c)[j] = {}
        BY <1>1, <1>2, <2>1, <3>1, <3>2
      <4> QED
        BY <4>1, FirstDecides
    <3>3. CASE c[1] \in {"commitments", "acks", "receipts", "upgradedIBCState"}
      <4>1. parse_seqs(c) = {}
        BY <3>3, OthersRefuse
      <4>2. CASE c[1] = "commitments" /\ parse_commitments(c) = {p}
        <5>1. Tried(c)[7] = {p} /\ \A j \in 1 .. 7 - 1 : Tried(c)[j] = {}
          BY <1>1, <1>2, <2>1, <3>1, <4>1, <4>2
        <5> QED
          BY <5>1, FirstDecides
      <4>3. CASE c[1] = "acks" /\ parse_acks(c) = {p}
        <5>1. parse_commitments(c) = {}
          BY <4>3, OthersRefuse
        <5>2. Tried(c)[8] = {p} /\ \A j \in 1 .. 8 - 1 : Tried(c)[j] = {}
          BY <1>1, <1>2, <2>1, <3>1, <4>1, <4>3, <5>1
        <5> QED
          BY <5>2, FirstDecides
      <4>4. CASE c[1] = "receipts" /\ parse_receipts(c) = {p}
        <5>1. parse_commitments(c) = {} /\ parse_acks(c) = {}
          BY <4>4, OthersRefuse
        <5>2. Tried(c)[9] = {p} /\ \A j \in 1 .. 9 - 1 : Tried(c)[j] = {}
          BY <1>1, <1>2, <2>1, <3>1, <4>1, <4>4, <5>1
        <5> QED
          BY <5>2, FirstDecides
      <4>5. CASE c[1] = "upgradedIBCState" /\ parse_upgrades(c) = {p}
        <5>1. parse_commitments(c) = {} /\ parse_acks(c) = {} /\ parse_receipts(c) = {}
          BY <4>5, OthersRefuse
        <5>2. Tried(c)[10] = {p} /\ \A j \in 1 .. 10 - 1 : Tried(c)[j] = {}
          BY <1>1, <1>2, <2>1, <3>1, <4>1, <4>5, <5>1
        <5> QED
          BY <5>2, FirstDecides
      <4> QED
        BY <3>3, <4>2, <4>3, <4>4, <4>5
    <3> QED
      BY <1>5, <2>3, <3>2, <3>3
  <2> QED
    BY <1>5, <2>2, <2>3
<1> QED
  BY <1>3, <1>4, <1>5

LEMMA ClientPathsRead ==
  ASSUME NEW a, validate_client_identifier(a)
  PROVE  /\ PathFromStr(PathText(<<"ClientState", a>>)) = {<<"ClientState", a>>}
         /\ PathFromStr(PathText(<<"ClientConnection", a>>)) = {<<"ClientConnection", a>>}
<1>1. ASSUME NEW c, c = <<"clients", a, "clientState">>
      PROVE  PathFromStr(c) = {<<"ClientState", a>>}
  <2>1. c[1] = "clients" /\ Len(c) = 3 /\ c[2] = a /\ c[3] = "clientState"
    BY <1>1
  <2>2. parse_client_paths(c) = {<<"ClientState", a>>}
    BY <2>1 DEF parse_client_paths, When
  <2>3. Len(c) # 1
    BY <2>1
  <2> QED
    BY <2>1, <2>2, <2>3, WordDecides, Zenon
<1>2. ASSUME NEW c, c = <<"clients", a, "connections">>
      PROVE  PathFromStr(c) = {<<"ClientConnection", a>>}
  <2>1. c[1] = "clients" /\ Len(c) = 3 /\ c[2] = a /\ c[3] = "connections"
    BY <1>2
  <2>2. parse_client_paths(c) = {<<"ClientConnection", a>>}
    BY <2>1 DEF parse_client_paths, When
  <2>3. Len(c) # 1
    BY <2>1
  <2> QED
    BY <2>1, <2>2, <2>3, WordDecides, Zenon
<1> QED
  BY <1>1, <1>2, ShortTexts

LEMMA ConnectionPathRead ==
  ASSUME NEW a, validate_connection_identifier(a)
  PROVE  PathFromStr(PathText(<<"Connection", a>>)) = {<<"Connection", a>>}
<1>1. ASSUME NEW c, c = <<"connections", a>>
      PROVE  PathFromStr(c) = {<<"Connection", a>>}
  <2>1. c[1] = "connections" /\ Len(c) = 2 /\ c[2] = a
    BY <1>1
  <2>2. parse_connections(c) = {<<"Connection", a>>}
    BY <2>1 DEF parse_connections, When
  <2>3. Len(c) # 1
    BY <2>1
  <2> QED
    BY <2>1, <2>2, <2>3, WordDecides, Zenon
<1> QED
  BY <1>1, ShortTexts

LEMMA UpgradePathsRead ==
  ASSUME NEW n \in Numbers
  PROVE  /\ PathFromStr(PathText(<<"UpgradedClientState", n>>)) = {<<"UpgradedClientState", n>>}
         /\ PathFromStr(PathText(<<"UpgradedClientConsensusState", n>>))
              = {<<"UpgradedClientConsensusState", n>>}
<1>1. ASSUME NEW c, NEW word, c = <<"upgradedIBCState", Numeral(n), word>>
      PROVE  /\ c[1] = "upgradedIBCState" /\ Len(c) = 3 /\ c[3] = word
             /\ ParseU64(c[2]) = {n}
  BY <1>1, U64Read
<1>2. ASSUME NEW c, c = <<"upgradedIBCState", Numeral(n), "upgradedClient">>
      PROVE  PathFromStr(c) = {<<"UpgradedClientState", n>>}
  <2>1. c[1] = "upgradedIBCState" /\ Len(c) = 3 /\ c[3] = "upgradedClient" /\ ParseU64(c[2]) = {n}
    BY <1>1, <1>2
  <2>2. parse_upgrades(c) = {<<"UpgradedClientState", n>>}
    BY <2>1 DEF parse_upgrades, When
  <2>3. Len(c) # 1
    BY <2>1
  <2> QED
    BY <2>1, <2>2, <2>3, WordDecides, Zenon
<1>3. ASSUME NEW c, c = <<"upgradedIBCState", Numeral(n), "upgradedConsState">>
      PROVE  PathFromStr(c) = {<<"UpgradedClientConsensusState", n>>}
  <2>1. c[1] = "upgradedIBCState" /\ Len(c) = 3 /\ c[3] = "upgradedConsState" /\ ParseU64(c[2]) = {n}
    BY <1>1, <1>3
  <2>2. parse_upgrades(c) = {<<"UpgradedClientConsensusState", n>>}
    BY <2>1 DEF parse_upgrades, When
  <2>3. Len(c) # 1
    BY <2>1
  <2> QED
    BY <2>1, <2>2, <2>3, WordDecides, Zenon
<1> QED
  BY <1>2, <1>3, ShortTexts

LEMMA UpdatePathsRead ==
  ASSUME NEW a, validate_client_identifier(a), NEW h \in Numbers \X Numbers
  PROVE  /\ PathFromStr(PathText(<<"ClientConsensusState", a, h>>)) = {<<"ClientConsensusState", a, h>>}
         /\ PathFromStr(PathText(<<"ClientUpdateTime", a, h>>)) = {<<"ClientUpdateTime", a, h>>}
         /\ PathFromStr(PathText(<<"ClientUpdateHeight", a, h>>)) = {<<"ClientUpdateHeight", a, h>>}
<1>0. ParseHeight(HeightText(h)) = {h}
  BY HeightRead
<1>1. ASSUME NEW c, c = <<"clients", a, "consensusStates", HeightText(h)>>
      PROVE  PathFromStr(c) = {<<"ClientConsensusState", a, h>>}
  <2>1. /\ c[1] = "clients" /\ Len(c) = 4 /\ c[2] = a /\ c[3] = "consensusStates"
        /\ ParseHeight(c[4]) = {h}
    BY <1>0, <1>1
  <2>2. parse_client_paths(c) = {<<"ClientConsensusState", a, h>>}
    BY <2>1 DEF parse_client_paths, When
  <2>3. Len(c) # 1
    BY <2>1
  <2> QED
    BY <2>1, <2>2, <2>3, WordDecides, Zenon
<1>2. ASSUME NEW c, c = <<"clients", a, "consensusStates", HeightText(h), "processedTime">>
      PROVE  PathFromStr(c) = {<<"ClientUpdateTime", a, h>>}
  <2>1. /\ c[1] = "clients" /\ Len(c) = 5 /\ c[2] = a /\ c[3] = "consensusStates"
        /\ ParseHeight(c[4]) = {h} /\ c[5] = "processedTime"
    BY <1>0, <1>2
  <2>2. parse_client_paths(c) = {<<"ClientUpdateTime", a, h>>}
    BY <2>1 DEF parse_client_paths, When
  <2>3. Len(c) # 1
    BY <2>1
  <2> QED
    BY <2>1, <2>2, <2>3, WordDecides, Zenon
<1>3. ASSUME NEW c, c = <<"clients", a, "consensusStates", HeightText(h), "processedHeight">>
      PROVE  PathFromStr(c) = {<<"ClientUpdateHeight", a, h>>}
  <2>1. /\ c[1] = "clients" /\ Len(c) = 5 /\ c[2] = a /\ c[3] = "consensusStates"
        /\ ParseHeight(c[4]) = {h} /\ c[5] = "processedHeight"
    BY <1>0, <1>3
  <2>2. parse_client_paths(c) = {<<"ClientUpdateHeight", a, h>>}
    BY <2>1 DEF parse_client_paths, When
  <2>3. Len(c) # 1
    BY <2>1
  <2> QED
    BY <2>1, <2>2, <2>3, WordDecides, Zenon
<1> QED
  BY <1>1, <1>2, <1>3, UpdateTexts

\* Two components out of the text
LEMMA Slice ==
  ASSUME NEW S, NEW c \in Seq(S), NEW i \in Nat, NEW j, j = i + 1, 1 <= i, j <= Len(c)
  PROVE  Len(SubSeq(c, i, j)) = 2 /\ SubSeq(c, i, j)[1] = c[i] /\ SubSeq(c, i, j)[2] = c[j]
<1>1. i \in Int /\ j \in Int /\ \A k \in i .. j : c[k] \in S
  BY LenProperties
<1> DEFINE d == SubSeq(c, i, j)
<1>2. /\ Len(d) = (IF i <= j THEN j - i + 1 ELSE 0)
      /\ \A k \in 1 .. j - i + 1 : d[k] = c[i + k - 1]
  BY <1>1, SubSeqProperties
<1> HIDE DEF d
<1>3. 1 \in 1 .. j - i + 1 /\ 2 \in 1 .. j - i + 1
  OBVIOUS
<1>4. d[1] = c[i + 1 - 1] /\ d[2] = c[i + 2 - 1]
  BY <1>2, <1>3
<1> QED
  BY <1>2, <1>4 DEF d

\* The middle of a channel's path, and the end of a packet's
LEMMA MiddleRead ==
  ASSUME NEW word, NEW a, NEW b, NEW c, c = <<word, "ports", a, "channels", b>>,
         validate_port_identifier(a), validate_channel_identifier(b)
  PROVE  /\ c[1] = word /\ Len(c) = 5
         /\ parse_ports(SubSeq(c, 2, 3)) = {<<"Ports", a>>}
         /\ parse_channels(SubSeq(c, 4, 5)) = {b}
<1>1. /\ c \in Seq({word, "ports", a, "channels", b}) /\ Len(c) = 5
      /\ c[1] = word /\ c[2] = "ports" /\ c[3] = a /\ c[4] = "channels" /\ c[5] = b
  OBVIOUS
<1> DEFINE x == SubSeq(c, 2, 3)
           y == SubSeq(c, 4, 5)
<1>2. Len(x) = 2 /\ x[1] = "ports" /\ x[2] = a
  BY <1>1, Slice
<1>3. Len(y) = 2 /\ y[1] = "channels" /\ y[2] = b
  BY <1>1, Slice
<1> HIDE DEF x, y
<1>4. parse_ports(x) = {<<"Ports", a>>}
  BY <1>2 DEF parse_ports, When
<1>5. parse_channels(y) = {b}
  BY <1>3 DEF parse_channels, When
<1> QED
  BY <1>1, <1>4, <1>5 DEF x, y

LEMMA LongerRead ==
  ASSUME NEW word, NEW a, NEW b, NEW n \in Numbers,
         NEW c, c = <<word, "ports", a, "channels", b, "sequences", Numeral(n)>>,
         validate_port_identifier(a), validate_channel_identifier(b)
  PROVE  /\ c[1] = word /\ Len(c) = 7
         /\ parse_ports(SubSeq(c, 2, 3)) = {<<"Ports", a>>}
         /\ parse_channels(SubSeq(c, 4, 5)) = {b}
         /\ parse_sequences(SubSeq(c, 6, 7)) = {n}
<1>1. /\ c \in Seq({word, "ports", a, "channels", b, "sequences", Numeral(n)}) /\ Len(c) = 7
      /\ c[1] = word /\ c[2] = "ports" /\ c[3] = a /\ c[4] = "channels" /\ c[5] = b
      /\ c[6] = "sequences" /\ c[7] = Numeral(n)
  OBVIOUS
<1> DEFINE x == SubSeq(c, 2, 3)
           y == SubSeq(c, 4, 5)
           z == SubSeq(c, 6, 7)
<1>2. Len(x) = 2 /\ x[1] = "ports" /\ x[2] = a
  BY <1>1, Slice
<1>3. Len(y) = 2 /\ y[1] = "channels" /\ y[2] = b
  BY <1>1, Slice
<1>4. Len(z) = 2 /\ z[1] = "sequences" /\ z[2] = Numeral(n)
  BY <1>1, Slice
<1> HIDE DEF x, y, z
<1>5. parse_ports(x) = {<<"Ports", a>>}
  BY <1>2 DEF parse_ports, When
<1>6. parse_channels(y) = {b}
  BY <1>3 DEF parse_channels, When
<1>7. parse_sequences(z) = {n}
  BY <1>4, U64Read DEF parse_sequences
<1> QED
  BY <1>1, <1>5, <1>6, <1>7 DEF x, y, z

LEMMA ChannelPathsRead ==
  ASSUME NEW a, NEW b, validate_port_identifier(a), validate_channel_identifier(b)
  PROVE  /\ PathFromStr(PathText(<<"ChannelEnd", a, b>>)) = {<<"ChannelEnd", a, b>>}
         /\ PathFromStr(PathText(<<"SeqSend", a, b>>)) = {<<"SeqSend", a, b>>}
         /\ PathFromStr(PathText(<<"SeqRecv", a, b>>)) = {<<"SeqRecv", a, b>>}
         /\ PathFromStr(PathText(<<"SeqAck", a, b>>)) = {<<"SeqAck", a, b>>}
<1> DEFINE port == <<"Ports", a>>
<1>0. port[2] = a
  OBVIOUS
<1> HIDE DEF port
<1>1. ASSUME NEW c, c = <<"channelEnds", "ports", a, "channels", b>>
      PROVE  PathFromStr(c) = {<<"ChannelEnd", a, b>>}
  <2>1. /\ c[1] = "channelEnds" /\ Len(c) = 5
        /\ parse_ports(SubSeq(c, 2, 3)) = {port} /\ parse_channels(SubSeq(c, 4, 5)) = {b}
    BY <1>1, MiddleRead DEF port
  <2>2. parse_channel_ends(c) = {<<"ChannelEnd", a, b>>}
    BY <1>0, <2>1 DEF parse_channel_ends
  <2>3. Len(c) # 1
    BY <2>1
  <2> QED
    BY <2>1, <2>2, <2>3, WordDecides, Zenon
<1>2. ASSUME NEW c, NEW word, NEW kind, c = <<word, "ports", a, "channels", b>>,
             \/ word = "nextSequenceSend" /\ kind = "SeqSend"
             \/ word = "nextSequenceRecv" /\ kind = "SeqRecv"
             \/ word = "nextSequenceAck" /\ kind = "SeqAck"
      PROVE  PathFromStr(c) = {<<kind, a, b>>}
  <2>1. /\ c[1] = word /\ Len(c) = 5
        /\ parse_ports(SubSeq(c, 2, 3)) = {port} /\ parse_channels(SubSeq(c, 4, 5)) = {b}
    BY <1>2, MiddleRead DEF port
  <2> DEFINE kinds == When(c[1] = "nextSequenceSend", "SeqSend")
                        \cup When(c[1] = "nextSequenceRecv", "SeqRecv")
                        \cup When(c[1] = "nextSequenceAck", "SeqAck")
  <2>2. kinds = {kind}
    BY <1>2, <2>1 DEF When
  <2>3. parse_seqs(c) = {<<k, p[2], ch>> : p \in {port}, ch \in {b}, k \in kinds}
    BY <2>1 DEF parse_seqs
  <2> HIDE DEF kinds
  <2>4. parse_seqs(c) = {<<kind, a, b>>}
    BY <1>0, <2>2, <2>3
  <2>5. Len(c) # 1 /\ c[1] \in {"nextSequenceSend", "nextSequenceRecv", "nextSequenceAck"}
    BY <1>2, <2>1
  <2> QED
    BY <2>4, <2>5, WordDecides, Zenon
<1> QED
  BY <1>1, <1>2, ChannelTexts

LEMMA PacketPathsRead ==
  ASSUME NEW a, NEW b, NEW n \in Numbers,
         validate_port_identifier(a), validate_channel_identifier(b)
  PROVE  /\ PathFromStr(PathText(<<"Commitment", a, b, n>>)) = {<<"Commitment", a, b, n>>}
         /\ PathFromStr(PathText(<<"Ack", a, b, n>>)) = {<<"Ack", a, b, n>>}
         /\ PathFromStr(PathText(<<"Receipt", a, b, n>>)) = {<<"Receipt", a, b, n>>}
<1> DEFINE port == <<"Ports", a>>
<1>0. port[2] = a
  OBVIOUS
<1> HIDE DEF port
<1>1. ASSUME NEW c, NEW word, NEW kind,
             c = <<word, "ports", a, "channels", b, "sequences", Numeral(n)>>
      PROVE  /\ ParsePacketPath(c, word, kind) = {<<kind, a, b, n>>}
             /\ c[1] = word /\ Len(c) # 1
  <2>1. /\ c[1] = word /\ Len(c) = 7
        /\ parse_ports(SubSeq(c, 2, 3)) = {port} /\ parse_channels(SubSeq(c, 4, 5)) = {b}
        /\ parse_sequences(SubSeq(c, 6, 7)) = {n}
    BY <1>1, LongerRead DEF port
  <2>2. ParsePacketPath(c, word, kind) = {<<kind, p[2], ch, s>> : p \in {port}, ch \in {b}, s \in {n}}
    BY <2>1 DEF ParsePacketPath
  <2> QED
    BY <1>0, <2>1, <2>2
<1>2. ASSUME NEW c, c = <<"commitments", "ports", a, "channels", b, "sequences", Numeral(n)>>
      PROVE  PathFromStr(c) = {<<"Commitment", a, b, n>>}
  <2>1. parse_commitments(c) = {<<"Commitment", a, b, n>>} /\ c[1] = "commitments" /\ Len(c) # 1
    BY <1>1, <1>2 DEF parse_commitments
  <2> QED
    BY <2>1, WordDecides, Zenon
<1>3. ASSUME NEW c, c = <<"acks", "ports", a, "channels", b, "sequences", Numeral(n)>>
      PROVE  PathFromStr(c) = {<<"Ack", a, b, n>>}
  <2>1. parse_acks(c) = {<<"Ack", a, b, n>>} /\ c[1] = "acks" /\ Len(c) # 1
    BY <1>1, <1>3 DEF parse_acks
  <2> QED
    BY <2>1, WordDecides, Zenon
<1>4. ASSUME NEW c, c = <<"receipts", "ports", a, "channels", b, "sequences", Numeral(n)>>
      PROVE  PathFromStr(c) = {<<"Receipt", a, b, n>>}
  <2>1. parse_receipts(c) = {<<"Receipt", a, b, n>>} /\ c[1] = "receipts" /\ Len(c) # 1
    BY <1>1, <1>4 DEF parse_receipts
  <2> QED
    BY <2>1, WordDecides, Zenon
<1> QED
  BY <1>2, <1>3, <1>4, PacketTexts

\* Every path is read back from its text (Path's Display and FromStr).
LEMMA PathsReadBack ==
  ASSUME NEW p, IsPath(p)
  PROVE  PathFromStr(PathText(p)) = {p}
<1>1. CASE p \in {<<"NextClientSequence">>, <<"NextConnectionSequence">>, <<"NextChannelSequence">>}
  BY <1>1, CounterPathsRead
<1>2. CASE p[1] \in {"ClientState", "ClientConnection", "Connection"} /\ p = <<p[1], p[2]>>
  <2>1. PICK a : p = <<p[1], a>> /\ p[2] = a
    BY <1>2
  <2>2. CASE p[1] = "Connection"
    <3>1. p = <<"Connection", a>> /\ validate_connection_identifier(a)
      BY <2>1, <2>2 DEF IsPath
    <3> QED
      BY <3>1, ConnectionPathRead
  <2>3. CASE p[1] \in {"ClientState", "ClientConnection"}
    <3>1. /\ p = <<"ClientState", a>> \/ p = <<"ClientConnection", a>>
          /\ validate_client_identifier(a)
      BY <2>1, <2>3 DEF IsPath
    <3> QED
      BY <3>1, ClientPathsRead
  <2> QED
    BY <1>2, <2>2, <2>3
<1>3. CASE /\ p[1] \in {"ClientConsensusState", "ClientUpdateTime", "ClientUpdateHeight"}
           /\ p = <<p[1], p[2], p[3]>> /\ p[3] \in Numbers \X Numbers
  <2>1. PICK a, h : p = <<p[1], a, h>> /\ p[2] = a /\ p[3] = h
    BY <1>3
  <2>2. validate_client_identifier(a) /\ h \in Numbers \X Numbers
    BY <1>3, <2>1 DEF IsPath
  <2>3. \/ p = <<"ClientConsensusState", a, h>> \/ p = <<"ClientUpdateTime", a, h>>
        \/ p = <<"ClientUpdateHeight", a, h>>
    BY <1>3, <2>1
  <2>4. /\ PathFromStr(PathText(<<"ClientConsensusState", a, h>>)) = {<<"ClientConsensusState", a, h>>}
        /\ PathFromStr(PathText(<<"ClientUpdateTime", a, h>>)) = {<<"ClientUpdateTime", a, h>>}
        /\ PathFromStr(PathText(<<"ClientUpdateHeight", a, h>>)) = {<<"ClientUpdateHeight", a, h>>}
    BY <2>2, UpdatePathsRead
  <2> QED
    BY <2>3, <2>4, Zenon
<1>4. CASE p[1] \in {"ChannelEnd", "SeqSend", "SeqRecv", "SeqAck"} /\ p = <<p[1], p[2], p[3]>>
  <2>1. PICK a, b : p = <<p[1], a, b>> /\ p[2] = a /\ p[3] = b
    BY <1>4
  <2>2. validate_port_identifier(a) /\ validate_channel_identifier(b)
    BY <1>4, <2>1 DEF IsPath
  <2>3. \/ p = <<"ChannelEnd", a, b>> \/ p = <<"SeqSend", a, b>>
        \/ p = <<"SeqRecv", a, b>> \/ p = <<"SeqAck", a, b>>
    BY <1>4, <2>1
  <2>4. /\ PathFromStr(PathText(<<"ChannelEnd", a, b>>)) = {<<"ChannelEnd", a, b>>}
        /\ PathFromStr(PathText(<<"SeqSend", a, b>>)) = {<<"SeqSend", a, b>>}
        /\ PathFromStr(PathText(<<"SeqRecv", a, b>>)) = {<<"SeqRecv", a, b>>}
        /\ PathFromStr(PathText(<<"SeqAck", a, b>>)) = {<<"SeqAck", a, b>>}
    BY <2>2, ChannelPathsRead
  <2> QED
    BY <2>3, <2>4, Zenon
<1>5. CASE /\ p[1] \in {"Commitment", "Ack", "Receipt"}
           /\ p = <<p[1], p[2], p[3], p[4]>> /\ p[4] \in Numbers
  <2>1. PICK a, b, n : p = <<p[1], a, b, n>> /\ p[2] = a /\ p[3] = b /\ p[4] = n
    BY <1>5
  <2>2. validate_port_identifier(a) /\ validate_channel_identifier(b) /\ n \in Numbers
    BY <1>5, <2>1 DEF IsPath
  <2>3. p = <<"Commitment", a, b, n>> \/ p = <<"Ack", a, b, n>> \/ p = <<"Receipt", a, b, n>>
    BY <1>5, <2>1
  <2>4. /\ PathFromStr(PathText(<<"Commitment", a, b, n>>)) = {<<"Commitment", a, b, n>>}
        /\ PathFromStr(PathText(<<"Ack", a, b, n>>)) = {<<"Ack", a, b, n>>}
        /\ PathFromStr(PathText(<<"Receipt", a, b, n>>)) = {<<"Receipt", a, b, n>>}
    BY <2>2, PacketPathsRead
  <2> QED
    BY <2>3, <2>4, Zenon
<1>6. CASE /\ p[1] \in {"UpgradedClientState", "UpgradedClientConsensusState"}
           /\ p = <<p[1], p[2]>> /\ p[2] \in Numbers
  <2>1. PICK n : p = <<p[1], n>> /\ p[2] = n
    BY <1>6
  <2>2. n \in Numbers
    BY <1>6, <2>1
  <2>3. p = <<"UpgradedClientState", n>> \/ p = <<"UpgradedClientConsensusState", n>>
    BY <1>6, <2>1
  <2> QED
    BY <2>2, <2>3, UpgradePathsRead
<1> QED
  BY <1>1, <1>2, <1>3, <1>4, <1>5, <1>6 DEF IsPath, PathShape

-----------------------------------------------------------------------------
(* The bytes of an end are read back as the end *)

LEMMA OptionIsRead ==
  ASSUME NEW id, id # "", NEW valid, id # NoId => valid
  PROVE  OptionFromText(OptionToText(id), valid) = {id}
  BY DEF OptionFromText, OptionToText, When, NoId

LEMMA ChannelEndIsRead ==
  ASSUME NEW v, IsChannelEnd(v)
  PROVE  ChannelEndFromRaw(ChannelEndToRaw(v)) = {v}
<1>0. ChannelEndShape(v)
  BY DEF IsChannelEnd
<1> DEFINE raw == ChannelEndToRaw(v)
           port == v.remote.port_id
           chan == v.remote.channel_id
           cp  == [port_id |-> port, channel_id |-> OptionToText(chan)]
           r   == [port_id |-> port, channel_id |-> chan]
<1>1. /\ raw.state = ChanStateToI32(v.state) /\ raw.ordering = OrderToI32(v.ordering)
      /\ raw.counterparty = cp
      /\ raw.connection_hops = v.connection_hops /\ raw.version = v.version
  BY <1>0, ChannelEndRaw
<1>2. /\ v.state \in {"Init", "TryOpen", "Open", "Closed"}
      /\ v.ordering \in {"Unordered", "Ordered"} /\ chan # ""
  BY <1>0 DEF ChannelEndShape
<1>3. ChanStateFromI32(raw.state) = {v.state} /\ OrderFromI32(raw.ordering) = {v.ordering}
  BY <1>1, <1>2, ChanStateRead, OrderRead
<1>4. raw.counterparty = ChanCounterpartyToRaw(v.remote)
  BY DEF ChannelEndToRaw
<1>5. /\ validate_port_identifier(port) /\ raw.counterparty # Missing
      /\ chan # NoId => validate_channel_identifier(chan)
      /\ \A i \in DOMAIN v.connection_hops : validate_connection_identifier(v.connection_hops[i])
  BY <1>4 DEF IsChannelEnd
<1> HIDE DEF raw, port, chan
<1>6. r \in ChanCounterpartyFromRaw(cp)
  <2>1. chan # NoId => OptionToText(chan) = chan
    BY DEF OptionToText
  <2>2. OptionFromText(OptionToText(chan), validate_channel_identifier(OptionToText(chan))) = {chan}
    BY <1>2, <1>5, <2>1, OptionIsRead
  <2>3. cp # Missing /\ cp.port_id = port /\ cp.channel_id = OptionToText(chan)
    BY <1>1, <1>5
  <2> HIDE DEF cp
  <2> QED
    BY <1>5, <2>2, <2>3 DEF ChanCounterpartyFromRaw
<1> HIDE DEF cp, r
<1>7. [state |-> v.state, ordering |-> v.ordering, remote |-> r,
       connection_hops |-> raw.connection_hops, version |-> raw.version] \in ChannelEndFromRaw(raw)
  <2>1. v.state # "Uninitialized" /\ v.ordering # "None"
    BY <1>2
  <2>2. \A i \in DOMAIN raw.connection_hops : validate_connection_identifier(raw.connection_hops[i])
    BY <1>1, <1>5
  <2> QED
    BY <1>1, <1>3, <1>6, <2>1, <2>2 DEF ChannelEndFromRaw
<1>8. \A w \in ChannelEndFromRaw(raw) : w = v
  BY <1>0, ChannelEndRead DEF raw
<1> QED
  BY <1>7, <1>8 DEF raw

LEMMA ConnStateRead ==
  ASSUME NEW state \in {"Uninitialized", "Init", "TryOpen", "Open"}
  PROVE  ConnStateFromI32(ConnStateToI32(state)) = {state}
  BY ConnStateNumbers DEF ConnStateFromI32, ConnStates

LEMMA CounterpartyIsRead ==
  ASSUME NEW c, NEW i, NEW p, NEW raw,
         raw = [client_id |-> c, connection_id |-> OptionToText(i), prefix |-> p],
         raw # Missing, i # "", validate_client_identifier(c), p \notin {Missing, ""},
         i # NoId => validate_connection_identifier(i)
  PROVE  ConnCounterpartyFromRaw(raw) = {[client_id |-> c, connection_id |-> i, prefix |-> p]}
<1>1. raw.client_id = c /\ raw.connection_id = OptionToText(i) /\ raw.prefix = p
  OBVIOUS
<1>2. i # NoId => OptionToText(i) = i
  BY DEF OptionToText
<1>3. OptionFromText(raw.connection_id, validate_connection_identifier(raw.connection_id)) = {i}
  BY <1>1, <1>2, OptionIsRead
<1> QED
  BY <1>1, <1>3 DEF ConnCounterpartyFromRaw

LEMMA ConnectionEndIsRead ==
  ASSUME NEW v, IsConnectionEnd(v)
  PROVE  ConnectionEndFromRaw(ConnectionEndToRaw(v)) = {v}
<1>0. ConnectionEndShape(v)
  BY DEF IsConnectionEnd
<1>1. ASSUME NEW st, NEW c, NEW vs, NEW d, NEW cc, NEW ci, NEW cp, NEW far,
             far = [client_id |-> cc, connection_id |-> ci, prefix |-> cp],
             v = [state |-> st, client_id |-> c, versions |-> vs, delay_period |-> d,
                  counterparty |-> far]
      PROVE  ConnectionEndFromRaw(ConnectionEndToRaw(v)) = {v}
  <2>0. v = [state |-> st, client_id |-> c, versions |-> vs, delay_period |-> d,
             counterparty |-> far]
    BY <1>1, Zenon
  <2>1. /\ v.state = st /\ v.client_id = c /\ v.versions = vs /\ v.delay_period = d
        /\ v.counterparty = far
    BY <2>0
  <2>2. far.client_id = cc /\ far.connection_id = ci /\ far.prefix = cp
    BY <1>1
  <2> DEFINE rawFar == ConnCounterpartyToRaw(far)
             raw == ConnectionEndToRaw(v)
  <2>3. raw = [v EXCEPT !.state = ConnStateToI32(st), !.counterparty = rawFar]
    BY <2>1 DEF ConnectionEndToRaw
  <2>4. rawFar = [client_id |-> cc, connection_id |-> OptionToText(ci), prefix |-> cp]
    BY <1>1, <2>2 DEF ConnCounterpartyToRaw
  <2> HIDE DEF rawFar, raw
  <2>A. raw = [state |-> ConnStateToI32(st), client_id |-> c, versions |-> vs,
               delay_period |-> d, counterparty |-> rawFar]
    BY <2>0, <2>3
  <2>5. /\ st \in {"Uninitialized", "Init", "TryOpen", "Open"} /\ ci # ""
        /\ validate_client_identifier(c) /\ vs # <<>>
        /\ \A i \in DOMAIN vs : VersionFromRaw(vs[i]) # {}
        /\ st # "Init" => Len(vs) = 1
        /\ validate_client_identifier(cc) /\ cp \notin {Missing, ""}
        /\ ci # NoId => validate_connection_identifier(ci)
        /\ rawFar # Missing
    BY <1>0, <2>1, <2>2 DEF IsConnectionEnd, ConnectionEndShape, rawFar
  <2>6. ConnCounterpartyFromRaw(rawFar) = {far}
    <3>1. ConnCounterpartyFromRaw(rawFar) = {[client_id |-> cc, connection_id |-> ci, prefix |-> cp]}
      BY <2>4, <2>5, CounterpartyIsRead
    <3>2. far = [client_id |-> cc, connection_id |-> ci, prefix |-> cp]
      BY <1>1, Zenon
    <3> QED
      BY <3>1, <3>2, Zenon
  <2>7. ConnStateFromI32(ConnStateToI32(st)) = {st}
    BY <2>5, ConnStateRead
  <2>8. /\ raw.state = ConnStateToI32(st) /\ raw.client_id = c /\ raw.versions = vs
        /\ raw.counterparty = rawFar
    BY <2>A
  <2>9. ConnectionEndFromRaw(raw) = {[raw EXCEPT !.state = st, !.counterparty = far]}
    <3> DEFINE ss == {x \in ConnStateFromI32(raw.state) :
                        /\ validate_client_identifier(raw.client_id)
                        /\ raw.versions # <<>>
                        /\ \A i \in DOMAIN raw.versions : VersionFromRaw(raw.versions[i]) # {}
                        /\ x # "Init" => Len(raw.versions) = 1}
    <3>1. ss = {st}
      BY <2>5, <2>7, <2>8
    <3>2. ConnectionEndFromRaw(raw) =
            {[raw EXCEPT !.state = s, !.counterparty = x] :
               s \in ss, x \in ConnCounterpartyFromRaw(raw.counterparty)}
      BY DEF ConnectionEndFromRaw
    <3> HIDE DEF ss
    <3>3. ConnCounterpartyFromRaw(raw.counterparty) = {far}
      BY <2>6, <2>8
    <3> QED
      BY <3>1, <3>2, <3>3
  <2>10. [raw EXCEPT !.state = st, !.counterparty = far] = v
    <3>1. ASSUME NEW x, NEW y, NEW s, NEW r, NEW q,
                 r = [state |-> s, client_id |-> c, versions |-> vs, delay_period |-> d,
                      counterparty |-> y],
                 q = [r EXCEPT !.state = st, !.counterparty = x]
          PROVE  q = [state |-> st, client_id |-> c, versions |-> vs, delay_period |-> d,
                      counterparty |-> x]
      BY <3>1
    <3> DEFINE new == [raw EXCEPT !.state = st, !.counterparty = far]
    <3>2. new = [raw EXCEPT !.state = st, !.counterparty = far]
      OBVIOUS
    <3> HIDE DEF new
    <3>3. new = [state |-> st, client_id |-> c, versions |-> vs, delay_period |-> d,
                 counterparty |-> far]
      BY <2>A, <3>1, <3>2, Zenon
    <3> QED
      BY <2>0, <3>2, <3>3, Zenon
  <2> QED
    BY <2>9, <2>10 DEF raw
<1>2. v = [state |-> v.state, client_id |-> v.client_id, versions |-> v.versions,
           delay_period |-> v.delay_period,
           counterparty |-> [client_id     |-> v.counterparty.client_id,
                             connection_id |-> v.counterparty.connection_id,
                             prefix        |-> v.counterparty.prefix]]
  BY <1>0, Zenon DEF ConnectionEndShape
<1> QED
  BY <1>1, <1>2, Zenon

LEMMA EndsReadBack ==
  ASSUME NEW p, NEW v, IsValue(p, v), p[1] \in {"Connection", "ChannelEnd"}
  PROVE  EndFromBytes(p, ValueBytes(p, v)) = {v}
<1>1. CASE p[1] = "Connection"
  <2>1. IsConnectionEnd(v)
    BY <1>1 DEF IsValue
  <2> QED
    BY <1>1, <2>1, ConnectionEndIsRead DEF EndFromBytes, ValueBytes
<1>2. CASE p[1] = "ChannelEnd"
  <2>1. IsChannelEnd(v)
    BY <1>2 DEF IsValue
  <2> QED
    BY <1>2, <2>1, ChannelEndIsRead DEF EndFromBytes, ValueBytes
<1> QED
  BY <1>1, <1>2

-----------------------------------------------------------------------------
(* The counters of a host stay within what its writes allow, so that the   *)
(* identifiers made from them are identifiers.                             *)

CounterKinds == {"NextClientSequence", "NextConnectionSequence", "NextChannelSequence"}

CountersInv ==
  /\ writes \in 0 .. MaxWrites
  /\ \A path \in CounterPaths : Counter(store, path) \in 0 .. Counter(InitStore, path) + writes

LEMMA FirstCounts ==
  ASSUME NEW path \in CounterPaths
  PROVE  Counter(InitStore, path) \in Nat
<1>1. path[1] \in CounterKinds
  BY DEF CounterPaths, CounterKinds
<1>2. ASSUME path \in DOMAIN InitStore
      PROVE  InitStore[path] \in Nat
  <2>1. IsValue(path, InitStore[path])
    BY <1>2, InitStoreAssumption DEF IsStore
  <2> QED
    BY <1>1, <2>1 DEF IsValue, CounterKinds
<1> QED
  BY <1>2 DEF Counter

LEMMA WriteCounts ==
  ASSUME CountersInv, NEW records, Write(records),
         \A path \in CounterPaths : Counter(records, path) = Counter(store, path)
  PROVE  CountersInv'
<1>1. writes \in Nat /\ writes < MaxWrites /\ writes' = writes + 1 /\ store' = records
  BY WritesAssumption DEF CountersInv, Write
<1>2. writes' \in 0 .. MaxWrites
  BY <1>1, WritesAssumption
<1>3. ASSUME NEW path \in CounterPaths
      PROVE  Counter(store', path) \in 0 .. Counter(InitStore, path) + writes'
  <2>1. Counter(store', path) = Counter(store, path)
    BY <1>1
  <2>2. Counter(store, path) \in 0 .. Counter(InitStore, path) + writes
    BY DEF CountersInv
  <2>3. Counter(InitStore, path) \in Nat
    BY FirstCounts
  <2> QED
    BY <1>1, <2>1, <2>2, <2>3
<1> QED
  BY <1>2, <1>3 DEF CountersInv

LEMMA InsertCounts ==
  ASSUME NEW records, NEW path, path[1] \notin CounterKinds, NEW value, NEW counter \in CounterPaths
  PROVE  Counter(Insert(records, path, value), counter) = Counter(records, counter)
<1>1. counter # path
  BY DEF CounterPaths, CounterKinds
<1> QED
  BY <1>1 DEF Insert, Counter

LEMMA PutCounts ==
  ASSUME CountersInv, NEW path, path[1] \notin CounterKinds, NEW value, Put(path, value)
  PROVE  CountersInv'
<1>1. Write(Insert(store, path, value))
  BY DEF Put
<1> QED
  BY <1>1, InsertCounts, WriteCounts

LEMMA RemoveCounts ==
  ASSUME CountersInv, NEW paths, \A p \in paths : p[1] \notin CounterKinds, Remove(paths)
  PROVE  CountersInv'
<1> DEFINE records == [p \in DOMAIN store \ paths |-> store[p]]
<1>1. Write(records)
  BY DEF Remove
<1>2. ASSUME NEW path \in CounterPaths
      PROVE  Counter(records, path) = Counter(store, path)
  <2>1. path \notin paths
    BY DEF CounterPaths, CounterKinds
  <2> QED
    BY <2>1 DEF Counter
<1> HIDE DEF records
<1> QED
  BY <1>1, <1>2, WriteCounts

LEMMA StoreClientsCounts ==
  ASSUME CountersInv, StoreClients
  PROVE  CountersInv'
<1> PICK c \in Clients :
      \/ \E cs \in ClientStates : store_client_state(c, cs)
      \/ \E h \in Heights :
           \/ store_consensus_state(c, h)
           \/ delete_consensus_state(c, h)
           \/ store_update_meta(c, h)
           \/ delete_update_meta(c, h)
      \/ \E id \in ConnectionIds : store_connection_to_client(c, id)
  BY DEF StoreClients
<1>1. ASSUME NEW cs \in ClientStates, store_client_state(c, cs)
      PROVE  CountersInv'
  <2>1. <<"ClientState", c>>[1] \notin CounterKinds
    BY DEF CounterKinds
  <2> QED
    BY <1>1, <2>1, PutCounts DEF store_client_state
<1>2. ASSUME NEW h \in Heights
      PROVE  /\ <<"ClientConsensusState", c, h>>[1] \notin CounterKinds
             /\ <<"ClientUpdateTime", c, h>>[1] \notin CounterKinds
             /\ <<"ClientUpdateHeight", c, h>>[1] \notin CounterKinds
  BY DEF CounterKinds
<1>3. ASSUME NEW h \in Heights, store_consensus_state(c, h)
      PROVE  CountersInv'
  BY <1>2, <1>3, PutCounts DEF store_consensus_state
<1>4. ASSUME NEW h \in Heights, delete_consensus_state(c, h)
      PROVE  CountersInv'
  <2>1. \A p \in {<<"ClientConsensusState", c, h>>} : p[1] \notin CounterKinds
    BY DEF CounterKinds
  <2> QED
    BY <1>4, <2>1, RemoveCounts DEF delete_consensus_state
<1>5. ASSUME NEW h \in Heights, store_update_meta(c, h)
      PROVE  CountersInv'
  <2> DEFINE time == Insert(store, <<"ClientUpdateTime", c, h>>, Len(blocks))
             both == Insert(time, <<"ClientUpdateHeight", c, h>>, host_height)
  <2>1. \A path \in CounterPaths : Counter(time, path) = Counter(store, path)
    BY <1>2, InsertCounts
  <2> HIDE DEF time
  <2>2. \A path \in CounterPaths : Counter(both, path) = Counter(time, path)
    BY <1>2, InsertCounts
  <2> HIDE DEF both
  <2>3. Write(both)
    BY <1>5 DEF store_update_meta, both, time
  <2> QED
    BY <2>1, <2>2, <2>3, WriteCounts
<1>6. ASSUME NEW h \in Heights, delete_update_meta(c, h)
      PROVE  CountersInv'
  <2>1. \A p \in {<<"ClientUpdateTime", c, h>>, <<"ClientUpdateHeight", c, h>>} :
          p[1] \notin CounterKinds
    BY DEF CounterKinds
  <2> QED
    BY <1>6, <2>1, RemoveCounts DEF delete_update_meta
<1>7. ASSUME NEW id \in ConnectionIds, store_connection_to_client(c, id)
      PROVE  CountersInv'
  <2>1. <<"ClientConnection", c>>[1] \notin CounterKinds
    BY DEF CounterKinds
  <2> QED
    BY <1>7, <2>1, PutCounts DEF store_connection_to_client
<1> QED
  BY <1>1, <1>3, <1>4, <1>5, <1>6, <1>7

LEMMA StoreRecordsCounts ==
  ASSUME CountersInv, StoreConnections \/ StoreChannels \/ StorePackets \/ StoreUpgrades
  PROVE  CountersInv'
<1>1. CASE StoreConnections
  <2> PICK id \in ConnectionIds : \E end \in ConnectionEnds[id] : store_connection(id, end)
    BY <1>1 DEF StoreConnections
  <2> PICK end \in ConnectionEnds[id] : store_connection(id, end)
    OBVIOUS
  <2>1. <<"Connection", id>>[1] \notin CounterKinds
    BY DEF CounterKinds
  <2> QED
    BY <2>1, PutCounts DEF store_connection
<1>2. CASE StoreChannels
  <2>1. ASSUME NEW kind \in {"ChannelEnd", "SeqSend", "SeqRecv", "SeqAck"}, NEW port, NEW ch, NEW v,
               Put(<<kind, port, ch>>, v)
        PROVE  CountersInv'
    <3>1. <<kind, port, ch>>[1] \notin CounterKinds
      BY DEF CounterKinds
    <3> QED
      BY <2>1, <3>1, PutCounts
  <2>2. PICK port \in PortIds, ch \in ChannelIds :
          \/ \E end \in ChannelEnds[ch] : store_channel(port, ch, end)
          \/ \E s \in Sequences :
               \/ store_next_sequence_send(port, ch, s)
               \/ store_next_sequence_recv(port, ch, s)
               \/ store_next_sequence_ack(port, ch, s)
    BY <1>2 DEF StoreChannels
  <2> QED
    BY <2>1, <2>2
    DEF store_channel, store_next_sequence_send, store_next_sequence_recv, store_next_sequence_ack
<1>3. CASE StorePackets
  <2>1. ASSUME NEW kind \in {"Commitment", "Receipt", "Ack"}, NEW port, NEW ch, NEW s
        PROVE  <<kind, port, ch, s>>[1] \notin CounterKinds
    BY DEF CounterKinds
  <2>2. PICK port \in PortIds, ch \in ChannelIds, s \in Sequences :
          \/ \E commitment \in Commitments : store_packet_commitment(port, ch, s, commitment)
          \/ delete_packet_commitment(port, ch, s)
          \/ store_packet_receipt(port, ch, s)
          \/ \E ack \in Acks : store_packet_acknowledgement(port, ch, s, ack)
          \/ delete_packet_acknowledgement(port, ch, s)
    BY <1>3 DEF StorePackets
  <2>3. ASSUME NEW kind \in {"Commitment", "Receipt", "Ack"}, NEW v, Put(<<kind, port, ch, s>>, v)
        PROVE  CountersInv'
    BY <2>1, <2>3, PutCounts
  <2>4. ASSUME NEW kind \in {"Commitment", "Receipt", "Ack"}, Remove({<<kind, port, ch, s>>})
        PROVE  CountersInv'
    <3>1. \A p \in {<<kind, port, ch, s>>} : p[1] \notin CounterKinds
      BY <2>1
    <3> QED
      BY <2>4, <3>1, RemoveCounts
  <2> QED
    BY <2>2, <2>3, <2>4
    DEF store_packet_commitment, delete_packet_commitment, store_packet_receipt,
        store_packet_acknowledgement, delete_packet_acknowledgement
<1>4. CASE StoreUpgrades
  <2>1. ASSUME NEW kind \in {"UpgradedClientState", "UpgradedClientConsensusState"}, NEW n, NEW v,
               Put(<<kind, n>>, v)
        PROVE  CountersInv'
    <3>1. <<kind, n>>[1] \notin CounterKinds
      BY DEF CounterKinds
    <3> QED
      BY <2>1, <3>1, PutCounts
  <2>2. PICK n \in 1 .. MaxBlocks, cs \in ClientStates :
          \/ store_upgraded_client_state(n, cs)
          \/ store_upgraded_consensus_state(n, cs)
    BY <1>4 DEF StoreUpgrades
  <2> QED
    BY <2>1, <2>2 DEF store_upgraded_client_state, store_upgraded_consensus_state
<1> QED
  BY <1>1, <1>2, <1>3, <1>4

LEMMA IncreaseCounts ==
  ASSUME CountersInv, NEW counter \in CounterPaths, Increase(counter)
  PROVE  CountersInv'
<1> DEFINE n == Counter(store, counter)
           records == Insert(store, counter, n + 1)
<1>1. Write(records)
  BY DEF Increase, Put
<1>2. writes \in Nat /\ writes < MaxWrites /\ writes' = writes + 1 /\ store' = records
  BY <1>1, WritesAssumption DEF CountersInv, Write
<1>3. writes' \in 0 .. MaxWrites
  BY <1>2, WritesAssumption
<1> HIDE DEF n
<1>4. /\ Counter(records, counter) = n + 1
      /\ \A path \in CounterPaths : path # counter => Counter(records, path) = Counter(store, path)
  BY DEF Insert, Counter
<1> HIDE DEF records
<1>5. ASSUME NEW path \in CounterPaths
      PROVE  Counter(store', path) \in 0 .. Counter(InitStore, path) + writes'
  <2>1. Counter(store, path) \in 0 .. Counter(InitStore, path) + writes
    BY DEF CountersInv
  <2>2. Counter(InitStore, path) \in Nat
    BY FirstCounts
  <2>3. CASE path = counter
    BY <1>2, <1>4, <2>1, <2>2, <2>3 DEF n
  <2>4. CASE path # counter
    BY <1>2, <1>4, <2>1, <2>2, <2>4
  <2> QED
    BY <2>3, <2>4
<1> QED
  BY <1>3, <1>5 DEF CountersInv

\* The counters stay within what the writes allow.
THEOREM CountersInvHolds ==
  Spec => []CountersInv
<1>1. Init => CountersInv
  <2> SUFFICES ASSUME Init
               PROVE  CountersInv
    OBVIOUS
  <2>1. store = InitStore /\ writes = 0
    BY DEF Init, HostInit
  <2> QED
    BY <2>1, FirstCounts, WritesAssumption DEF CountersInv
<1>2. CountersInv /\ [Next]_vars => CountersInv'
  <2> SUFFICES ASSUME CountersInv, [Next]_vars
               PROVE  CountersInv'
    OBVIOUS
  <2>1. CASE UNCHANGED <<store, writes>>
    BY <2>1 DEF CountersInv
  <2>2. CASE StoreSteps
    <3>1. /\ <<"NextClientSequence">> \in CounterPaths /\ <<"NextConnectionSequence">> \in CounterPaths
          /\ <<"NextChannelSequence">> \in CounterPaths
      BY DEF CounterPaths
    <3> QED
      BY <2>2, <3>1, StoreClientsCounts, StoreRecordsCounts, IncreaseCounts
      DEF StoreSteps, increase_client_counter, increase_connection_counter, increase_channel_counter
  <2>3. StoreSteps \/ UNCHANGED <<store, writes>>
    <3>1. ASSUME HostNext
          PROVE  StoreSteps \/ UNCHANGED <<store, writes>>
      BY <3>1 DEF HostNext, StoreSteps, Commit, QueryRead, QueryProve, QueryDone
    <3>2. ASSUME Receive \/ NextMessage \/ UNCHANGED vars
          PROVE  UNCHANGED <<store, writes>>
      BY <3>2 DEF Receive, NextMessage, vars, hostVars
    <3> QED
      BY <3>1, <3>2 DEF Next, HostStep
  <2> QED
    BY <2>1, <2>2, <2>3
<1> QED
  BY <1>1, <1>2, PTL DEF Spec

LEMMA NextPathsAreMade ==
  ASSUME CountersInv, NEW p \in NextPaths
  PROVE  IsPath(p)
<1>1. ASSUME NEW path \in CounterPaths
      PROVE  Counter(store, path) \in Counts
  <2>1. /\ Counter(store, path) \in 0 .. Counter(InitStore, path) + writes
        /\ writes \in 0 .. MaxWrites /\ Counter(InitStore, path) \in Nat
    BY FirstCounts DEF CountersInv
  <2>2. Counter(store, path) \in 0 .. Counter(InitStore, path) + MaxWrites
    BY <2>1, WritesAssumption
  <2> QED
    BY <2>2, Zenon DEF Counts
<1> DEFINE a == Counter(store, <<"NextClientSequence">>)
           b == Counter(store, <<"NextConnectionSequence">>)
           d == Counter(store, <<"NextChannelSequence">>)
<1>2. a \in Counts /\ b \in Counts /\ d \in Counts
  BY <1>1 DEF CounterPaths
<1>3. \/ \E id \in ClientIdNew("07-tendermint", a) : p = <<"ClientState", id>>
      \/ p = <<"Connection", ConnectionIdNew(b)>>
      \/ \E port \in PortIds : p = <<"ChannelEnd", port, ChannelIdNew(d)>>
  BY DEF NextPaths
<1> HIDE DEF a, b, d
<1>4. ASSUME NEW id \in ClientIdNew("07-tendermint", a), p = <<"ClientState", id>>
      PROVE  IsPath(p)
  <2>1. validate_client_identifier(id)
    BY <1>2, GeneratedAssumption
  <2> QED
    BY <1>4, <2>1 DEF IsPath, PathShape
<1>5. ASSUME p = <<"Connection", ConnectionIdNew(b)>>
      PROVE  IsPath(p)
  <2>1. validate_connection_identifier(ConnectionIdNew(b))
    BY <1>2, GeneratedAssumption
  <2> QED
    BY <1>5, <2>1 DEF IsPath, PathShape
<1>6. ASSUME NEW port \in PortIds, p = <<"ChannelEnd", port, ChannelIdNew(d)>>
      PROVE  IsPath(p)
  <2>1. validate_channel_identifier(ChannelIdNew(d)) /\ validate_port_identifier(port)
    BY <1>2, GeneratedAssumption, IdentifiersAssumption
  <2> QED
    BY <1>6, <2>1 DEF IsPath, PathShape
<1> QED
  BY <1>3, <1>4, <1>5, <1>6

\* The text of every record in the store or about to be made is read back as
\* its path, and the bytes of every end as the end (Path's Display and FromStr,
\* the conversions of ConnectionEnd and ChannelEnd), for all identifiers,
\* numbers and ends.
THEOREM RecordsReadBackHolds ==
  Spec => []RecordsReadBack
<1>1. HostInv /\ CountersInv => RecordsReadBack
  <2> SUFFICES ASSUME HostInv, CountersInv
               PROVE  RecordsReadBack
    OBVIOUS
  <2>1. \A p \in DOMAIN store : IsPath(p) /\ IsValue(p, store[p])
    BY DEF HostInv, Kept, IsStore
  <2>2. \A p \in DOMAIN store \cup NextPaths : PathFromStr(PathText(p)) = {p}
    BY <2>1, NextPathsAreMade, PathsReadBack
  <2>3. ASSUME NEW p \in DOMAIN store, p[1] \in {"Connection", "ChannelEnd"}
        PROVE  EndFromBytes(p, ValueBytes(p, store[p])) = {store[p]}
    BY <2>1, <2>3, EndsReadBack
  <2> QED
    BY <2>2, <2>3 DEF RecordsReadBack
<1> QED
  BY <1>1, HostInvHolds, CountersInvHolds, PTL

============================================================================
