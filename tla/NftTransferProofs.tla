------------------------- MODULE NftTransferProofs -------------------------
(***************************************************************************)
(* Proofs about NftTransfer: a token has one owner or is under way, and a  *)
(* voucher has the metadata of the token it stands for, for every number   *)
(* of chains, channels, accounts, tokens, hops and packets.                *)
(*                                                                         *)
(* Classes: a class is read back as it was written.  Token lists: a list   *)
(* names each token of its set once.  Records: a step changes the records  *)
(* of some tokens of one class on one chain.  Packets: a step changes the  *)
(* standing of one packet.  Places: the two changes balance, token by      *)
(* token, whether the packet carries one of them or many.                  *)
(***************************************************************************)
EXTENDS NftTransfer, FiniteSetTheorems, SequenceTheorems, TLAPS

----------------------------------------------------------------------------
\* Classes and their texts.

HopOf(e) == <<e.port, e.chan>>

LEMMA EndFacts ==
  ASSUME NEW e \in End
  PROVE  /\ e = [chain |-> e.chain, port |-> e.port, chan |-> e.chan]
         /\ e.chain \in Chains /\ e \in Holders
         /\ e.port \in PortIds /\ e.chan \in ChannelIds
         /\ HopOf(e) \in Hops
         /\ Peer(e) \in End /\ Peer(Peer(e)) = e
  <1>1. e \in [chain : Chains, port : PortIds, chan : ChannelIds]
    BY EndAssumption
  <1>2. e = [chain |-> e.chain, port |-> e.port, chan |-> e.chan]
    BY <1>1
  <1> QED BY <1>1, <1>2, PeerAssumption DEF Holders, Hops, TracePrefix, HopOf

LEMMA HopFacts ==
  ASSUME NEW h \in Hops
  PROVE  h = <<h[1], h[2]>> /\ h[1] \in PortIds /\ h[2] \in ChannelIds
  <1>1. PICK e \in End : h = <<e.port, e.chan>>
    BY DEF Hops, TracePrefix
  <1>2. e.port \in PortIds /\ e.chan \in ChannelIds
    BY EndFacts
  <1> QED BY <1>1, <1>2

LEMMA ClassFacts ==
  ASSUME NEW k \in Classes
  PROVE  /\ k.trace \in Seq(Hops) /\ Len(k.trace) \in Nat /\ Len(k.trace) <= MaxHops
         /\ k.base = BaseClass
         /\ k = [trace |-> k.trace, base |-> BaseClass]
  <1>1. PICK n \in 0..MaxHops : k.trace \in [1..n -> Hops]
    BY DEF Classes
  <1>2. n \in Nat /\ n <= MaxHops
    BY BoundsAssumption
  <1>3. k.trace \in Seq(Hops) /\ Len(k.trace) = n
    BY <1>1, <1>2
  <1>4. k.base = BaseClass /\ k = [trace |-> k.trace, base |-> BaseClass]
    BY DEF Classes
  <1> QED BY <1>2, <1>3, <1>4

LEMMA ClassMade ==
  ASSUME NEW t \in Seq(Hops), Len(t) <= MaxHops
  PROVE  [trace |-> t, base |-> BaseClass] \in Classes
  <1>1. Len(t) \in 0..MaxHops /\ t \in [1..Len(t) -> Hops]
    BY BoundsAssumption
  <1> QED BY <1>1 DEF Classes

\* Native is the class without a trace.
LEMMA NativeFacts ==
  /\ Native \in Classes
  /\ \A k \in Classes : k.trace = <<>> <=> k = Native
  <1>1. <<>> \in Seq(Hops) /\ Len(<<>>) <= MaxHops
    BY BoundsAssumption
  <1>2. Native \in Classes
    BY <1>1, ClassMade DEF Native
  <1>3. ASSUME NEW k \in Classes PROVE k.trace = <<>> <=> k = Native
    <2>1. k = [trace |-> k.trace, base |-> BaseClass]
      BY ClassFacts
    <2> QED BY <2>1 DEF Native
  <1> QED BY <1>2, <1>3

\* Of two parts of a text the first is a port, the second a channel.
LEMMA Halves ==
  ASSUME NEW n \in Int, NEW i \in Int, 1 <= i, i <= 2 * n
  PROVE  n - ((i - 1) \div 2) \in 1..n /\ 1 + ((i - 1) % 2) \in {1, 2}
  <1>1. PICK k \in Int : k = i - 1
    OBVIOUS
  <1>2. k \div 2 \in Int /\ k % 2 \in 0..1 /\ k = 2 * (k \div 2) + (k % 2)
    OBVIOUS
  <1>3. 0 <= k \div 2 /\ k \div 2 < n
    BY <1>1, <1>2
  <1> QED BY <1>1, <1>2, <1>3

LEMMA Doubles ==
  ASSUME NEW k \in Nat
  PROVE  /\ (2 * k) \div 2 = k /\ (2 * k) % 2 = 0
         /\ (2 * k + 1) \div 2 = k /\ (2 * k + 1) % 2 = 1
  OBVIOUS

\* The text of a trace: its parts, and the trace that they are read as.
LEMMA TraceReadBack ==
  ASSUME NEW t \in Seq(Hops)
  PROVE  /\ TraceToText(t) \in Seq(PortIds \cup ChannelIds)
         /\ TraceFromParts(TraceToText(t)) = {t}
  <1> DEFINE n == Len(t)
             u == TraceToText(t)
  <1>1. n \in Nat
    OBVIOUS
  <1>2. \A i \in 1..n : /\ t[i] = <<t[i][1], t[i][2]>>
                         /\ t[i][1] \in PortIds /\ t[i][2] \in ChannelIds
    BY HopFacts
  <1>3. \A i \in 1..(2 * n) : n - ((i - 1) \div 2) \in 1..n /\ 1 + ((i - 1) % 2) \in {1, 2}
    <2> HIDE DEF n
    <2> QED BY <1>1, Halves
  <1> HIDE DEF n
  <1>4. u = [i \in 1..(2 * n) |-> t[n - ((i - 1) \div 2)][1 + ((i - 1) % 2)]]
    BY DEF TraceToText, n
  <1>5. \A i \in 1..(2 * n) : u[i] \in PortIds \cup ChannelIds
    <2> TAKE i \in 1..(2 * n)
    <2> DEFINE j == n - ((i - 1) \div 2)
               k == 1 + ((i - 1) % 2)
    <2>1. j \in 1..n /\ k \in {1, 2}
      BY <1>3
    <2>2. u[i] = t[j][k]
      BY <1>4
    <2> HIDE DEF j, k
    <2> QED BY <1>2, <2>1, <2>2
  <1>6. u \in Seq(PortIds \cup ChannelIds) /\ Len(u) = 2 * n
    BY <1>1, <1>4, <1>5
  <1> HIDE DEF u
  <1>7. Len(u) \div 2 = n /\ Len(u) % 2 = 0
    BY <1>1, <1>6, Doubles
  <1>8. ASSUME NEW i \in 1..n
        PROVE  <<u[2 * (n - i) + 1], u[2 * (n - i) + 2]>> = t[i]
    <2>1. PICK k \in Nat : k = n - i
      BY <1>1
    <2>2. 2 * k + 1 \in 1..(2 * n) /\ 2 * k + 2 \in 1..(2 * n)
      BY <1>1, <2>1
    <2>3. (2 * k + 1) - 1 = 2 * k /\ (2 * k + 2) - 1 = 2 * k + 1
      OBVIOUS
    <2>4. u[2 * k + 1] = t[n - k][1 + 0] /\ u[2 * k + 2] = t[n - k][1 + 1]
      BY <1>4, <2>2, <2>3, Doubles
    <2>5. n - k = i
      BY <1>1, <2>1
    <2> QED BY <1>2, <2>1, <2>4, <2>5
  <1>9. TraceFromParts(u) = {t}
    <2>1. t = [i \in 1..n |-> t[i]]
      BY <1>1 DEF n
    <2>2. [i \in 1..n |-> <<u[2 * (n - i) + 1], u[2 * (n - i) + 2]>>] = t
      BY <1>8, <2>1
    <2> QED BY <1>2, <1>7, <1>8, <2>2 DEF TraceFromParts, TracePrefix
  <1> QED BY <1>6, <1>9 DEF u

\* PrefixedClassId::from_str reads back what Display wrote.
LEMMA ClassReadBack ==
  ASSUME NEW k \in Classes
  PROVE  ClassFromStr(ClassToText(k)) = {k}
  <1> DEFINE u == TraceToText(k.trace)
             b == BaseClass[1]
             text == ClassToText(k)
             A == PortIds \cup ChannelIds
  <1>1. /\ k = [trace |-> k.trace, base |-> <<b>>] /\ b # Blank
        /\ u \in Seq(A) /\ TraceFromParts(u) = {k.trace}
    BY ClassFacts, TraceReadBack, BaseAssumption
  <1>2. text = u \o <<b>>
    <2>1. text = TraceToText(k.trace) \o k.base
      BY DEF ClassToText, DenomToText
    <2>2. k.base = <<b>>
      BY <1>1
    <2> QED BY <2>1, <2>2
  <1> HIDE DEF u, text, b
  <1>3. text = Append(u, b)
    BY <1>1, <1>2
  <1>4. Front(text) = u /\ Last(text) = b
    BY <1>1, <1>3 DEF Front, Last
  <1>5. BaseDenomFromStr(<<b>>) = {<<b>>}
    BY <1>1 DEF BaseDenomFromStr
  <1> QED BY <1>1, <1>4, <1>5 DEF ClassFromStr, DenomFromStr, text

----------------------------------------------------------------------------
\* Token lists.

\* A list has each token of its set once.
LEMMA TokenIdsFacts ==
  ASSUME NEW set \in SUBSET Tokens
  PROVE  LET ids == TokenIds(set) IN
         /\ IsFiniteSet(set) /\ Cardinality(set) \in Nat
         /\ ids \in [1..Cardinality(set) -> set]
         /\ \A t \in set : \E i \in 1..Cardinality(set) : ids[i] = t
         /\ \A i, j \in 1..Cardinality(set) : ids[i] = ids[j] => i = j
  <1> DEFINE n == Cardinality(set)
             Below(t) == {u \in set : u < t}
             r == [t \in set |-> Cardinality(Below(t))]
             ids == TokenIds(set)
  <1>1. IsFiniteSet(set) /\ n \in Nat /\ set \subseteq Nat
    BY TokensAssumption, FS_Subset, FS_CardinalityType
  <1>2. ASSUME NEW t \in set PROVE r[t] \in 0..(n - 1)
    <2>1. Below(t) \in SUBSET (set \ {t})
      BY <1>1
    <2>2. IsFiniteSet(set \ {t}) /\ Cardinality(set \ {t}) = n - 1
      BY <1>1, FS_RemoveElement
    <2>3. IsFiniteSet(Below(t)) /\ Cardinality(Below(t)) <= n - 1
      BY <2>1, <2>2, FS_Subset
    <2>4. Cardinality(Below(t)) \in Nat
      BY <2>3, FS_CardinalityType
    <2> QED BY <1>1, <2>3, <2>4
  <1>3. ASSUME NEW s \in set, NEW t \in set, s < t PROVE r[s] # r[t]
    <2>1. Below(s) \in SUBSET Below(t) /\ Below(s) # Below(t)
      <3>1. s \in Nat /\ t \in Nat /\ ~ (s < s)
        BY <1>1
      <3>2. \A u \in set : u < s => u < t
        BY <1>1, <1>3
      <3>3. s \in Below(t) /\ s \notin Below(s)
        BY <1>3, <3>1
      <3> QED BY <3>2, <3>3
    <2>2. IsFiniteSet(Below(t))
      BY <1>1, FS_Subset
    <2>3. Cardinality(Below(s)) # Cardinality(Below(t))
      BY <2>1, <2>2, FS_Subset
    <2> QED BY <2>3
  <1>4. r \in Injection(set, 0..(n - 1))
    <2>1. \A s, t \in set : s # t => s < t \/ t < s
      BY <1>1
    <2>2. r \in [set -> 0..(n - 1)]
      BY <1>2
    <2>3. \A s, t \in set : r[s] = r[t] => s = t
      BY <1>3, <2>1
    <2> HIDE DEF r
    <2> QED BY <2>2, <2>3 DEF Injection, IsInjective
  <1>5. IsFiniteSet(0..(n - 1)) /\ Cardinality(0..(n - 1)) = n
    <2> HIDE DEF n
    <2>1. n - 1 \in Int /\ 0 \in Int
      BY <1>1
    <2> QED BY <1>1, <2>1, FS_Interval
  <1>6. r \in Surjection(set, 0..(n - 1))
    <2> HIDE DEF r
    <2> QED BY <1>4, <1>5, FS_Injection
  <1>7. \A i \in 1..n : ids[i] \in set /\ r[ids[i]] = i - 1
    <2> TAKE i \in 1..n
    <2>1. \E t \in set : r[t] = i - 1
      <3>1. i - 1 \in 0..(n - 1)
        BY <1>1
      <3> HIDE DEF r
      <3> QED BY <1>6, <3>1 DEF Surjection
    <2>2. ids[i] = CHOOSE t \in set : Cardinality(Below(t)) = i - 1
      BY DEF TokenIds
    <2> HIDE DEF ids
    <2> QED BY <2>1, <2>2
  <1>8. ids \in [1..n -> set]
    <2>1. ids = [i \in 1..n |-> CHOOSE t \in set : Cardinality(Below(t)) = i - 1]
      BY DEF TokenIds
    <2>2. DOMAIN ids = 1..n /\ ids = [i \in DOMAIN ids |-> ids[i]]
      <3> HIDE DEF n, Below, ids
      <3> QED BY <2>1
    <2> HIDE DEF ids, n, r
    <2> QED BY <1>7, <2>2
  <1>9. ASSUME NEW t \in set PROVE \E i \in 1..n : ids[i] = t
    <2>1. r[t] + 1 \in 1..n /\ (r[t] + 1) - 1 = r[t]
      BY <1>1, <1>2
    <2>2. r[ids[r[t] + 1]] = r[t] /\ ids[r[t] + 1] \in set
      <3> HIDE DEF ids, r
      <3> QED BY <1>7, <2>1
    <2>3. ids[r[t] + 1] = t
      <3> HIDE DEF ids, r
      <3> QED BY <1>4, <2>2 DEF Injection, IsInjective
    <2> HIDE DEF ids, r
    <2> QED BY <2>1, <2>3
  <1>10. ASSUME NEW i \in 1..n, NEW j \in 1..n, ids[i] = ids[j] PROVE i = j
    <2>1. i - 1 = j - 1
      <3> HIDE DEF ids, r
      <3> QED BY <1>7, <1>10
    <2> QED BY <1>1, <2>1
  <1> HIDE DEF ids, n, r
  <1> QED BY <1>1, <1>8, <1>9, <1>10 DEF ids, n

----------------------------------------------------------------------------
\* The inductive invariant.

Outcomes == {"none", "success", "error", "unreadable", "timeout"}
Data == [class : {ClassToText(k) : k \in Classes}, tokens : Seq(Tokens),
         uris : Seq(Tokens \cup {None}), datas : Seq(Tokens \cup {None}),
         sender : Names, receiver : Receivers]
Packet == [seq : Nat, data : Data]

Tables == [Classes -> [Tokens -> Records \cup {None}]]

Types ==
  /\ nfts \in [Chains -> Tables]
  /\ leaked \in SUBSET Tokens
  /\ sent \in [End -> Seq(Packet)]
  /\ received \in [End -> Seq(Packet)]
  /\ settled \in [End -> Seq([packet : Packet, outcome : Outcomes])]
  /\ reply \in [End -> [1..MaxSends -> Outcomes]]

\* Packets are numbered from 1 on and stay within the bound, and what was
\* delivered or settled had been sent.
Books ==
  /\ IsFiniteSet(SentSoFar)
  /\ \A e \in End : \A i \in DOMAIN sent[e] : sent[e][i].seq = i /\ i <= MaxSends
  /\ \A e \in End : \A i \in DOMAIN received[e] : received[e][i] \in Packets(Peer(e))
  /\ \A e \in End : \A i \in DOMAIN settled[e] : settled[e][i].packet \in Packets(e)

\* The class that e sent, with room for another hop if e is its source.
Sendable(e, k) == k \in Classes /\ (class_sender_is_source(e, k) => Len(k.trace) < MaxHops)

\* No packet names a token twice, and each is of a class.
WellMade ==
  \A e \in End : \A p \in Packets(e) :
    /\ \A i, j \in DOMAIN p.data.tokens : p.data.tokens[i] = p.data.tokens[j] => i = j
    /\ \E k \in Classes : p.data.class = ClassToText(k) /\ Sendable(e, k)

FewPlaces == \A t \in Tokens : IsFiniteSet(Owned(t)) /\ IsFiniteSet(UnderWay(t))

\* The tokens of the native class are at home, with their metadata.
NativeKept ==
  /\ \A t \in Tokens : /\ nfts[Home][Native][t] # None
                       /\ nfts[Home][Native][t].uri \in {t, None}
                       /\ nfts[Home][Native][t].data \in {t, None}
  /\ \A c \in Chains \ {Home} : \A t \in Tokens : nfts[c][Native][t] = None

\* What a voucher or a packet has for t when the native token has o.
Meta(o, t) == IF o.uri # None /\ o.data # None THEN t ELSE None

PacketMetadata ==
  \A e \in End : \A p \in Packets(e) : \A i \in DOMAIN p.data.tokens :
    LET t == p.data.tokens[i] IN
    /\ At(p.data.uris, i) = Meta(nfts[Home][Native][t], t)
    /\ At(p.data.datas, i) = Meta(nfts[Home][Native][t], t)

NftInv ==
  /\ Types /\ Books /\ WellMade
  /\ FewPlaces /\ OneOwner
  /\ NativeKept /\ PacketMetadata /\ VoucherMetadata

----------------------------------------------------------------------------
\* Records.

IsOwned(n) == n # None /\ n.owner \notin End
OwnedIn(ns, t) == {x \in Chains \X Classes : IsOwned(ns[x[1]][x[2]][t])}

LEMMA OwnedAs ==
  ASSUME NEW t
  PROVE  Owned(t) = OwnedIn(nfts, t) /\ Owned(t)' = OwnedIn(nfts', t)
  BY DEF Owned, OwnedIn, IsOwned

LEMMA AccountFacts ==
  ASSUME NEW c \in Chains, NEW n \in Names
  PROVE  Account(c, n) \in Holders /\ Account(c, n) \notin End
  <1>1. Account(c, n) \in Holders
    BY DEF Holders
  <1>2. ASSUME Account(c, n) \in End PROVE FALSE
    <2>1. DOMAIN Account(c, n) = {"chain", "name"}
      BY DEF Account
    <2>2. PICK e \in End : e = Account(c, n)
      BY <1>2
    <2>3. DOMAIN e = {"chain", "port", "chan"}
      BY EndAssumption
    <2>4. "port" \in DOMAIN e /\ "port" \notin DOMAIN e
      BY <2>1, <2>2, <2>3
    <2> QED BY <2>4
  <1> QED BY <1>1, <1>2

\* From ns to ns1, only tokens of set changed, of class k on chain c.
Elsewhere(ns, ns1, c, k, set) ==
  /\ ns1 \in [Chains -> Tables]
  /\ \A a \in Chains, j \in Classes, t \in Tokens :
       ~ (a = c /\ j = k /\ t \in set) => ns1[a][j][t] = ns[a][j][t]

\* A table for one class, put in its place.
Becomes(ns, ns1, c, tab) == ns1 = [ns EXCEPT ![c] = tab]
Put(ns, ns1, c, k, row) == Becomes(ns, ns1, c, [ns[c] EXCEPT ![k] = row])
NewRow(ns, c, k, set, row) ==
  /\ row \in [Tokens -> Records \cup {None}]
  /\ \A t \in Tokens \ set : row[t] = ns[c][k][t]

LEMMA TablePut ==
  ASSUME NEW ns \in [Chains -> Tables], NEW c \in Chains, NEW k \in Classes,
         NEW set \in SUBSET Tokens, NEW row, NewRow(ns, c, k, set, row),
         NEW ns1, Put(ns, ns1, c, k, row)
  PROVE  Elsewhere(ns, ns1, c, k, set) /\ ns1[c][k] = row
  <1>1. ns[c] \in Tables
    OBVIOUS
  <1> DEFINE tab == [ns[c] EXCEPT ![k] = row]
  <1>2. /\ tab \in Tables /\ tab[k] = row
        /\ \A j \in Classes : j # k => tab[j] = ns[c][j]
    BY <1>1 DEF Tables, NewRow
  <1> HIDE DEF tab
  <1>3. /\ ns1 \in [Chains -> Tables] /\ ns1[c] = tab
        /\ \A a \in Chains : a # c => ns1[a] = ns[a]
    BY <1>2 DEF tab, Put, Becomes
  <1>4. ASSUME NEW a \in Chains, NEW j \in Classes, NEW t \in Tokens,
               ~ (a = c /\ j = k /\ t \in set)
        PROVE  ns1[a][j][t] = ns[a][j][t]
    BY <1>2, <1>3, <1>4 DEF NewRow
  <1> QED BY <1>2, <1>3, <1>4 DEF Elsewhere

LEMMA NftFacts ==
  ASSUME NEW h \in Holders, NEW u \in Tokens \cup {None}, NEW d \in Tokens \cup {None}
  PROVE  /\ Nft(h, u, d) \in Records /\ Nft(h, u, d) # None
         /\ Nft(h, u, d).owner = h /\ Nft(h, u, d).uri = u /\ Nft(h, u, d).data = d
  <1>1. /\ Nft(h, u, d) \in Records
        /\ Nft(h, u, d).owner = h /\ Nft(h, u, d).uri = u /\ Nft(h, u, d).data = d
    BY DEF Nft, Records
  <1> QED BY <1>1, NoneAssumption

LEMMA HandedFacts ==
  ASSUME NEW r \in Records, NEW h \in Holders
  PROVE  LET n == [r EXCEPT !.owner = h] IN
         n \in Records /\ n # None /\ n.owner = h /\ n.uri = r.uri /\ n.data = r.data
  <1>1. LET n == [r EXCEPT !.owner = h] IN
        n \in Records /\ n.owner = h /\ n.uri = r.uri /\ n.data = r.data
    BY DEF Records
  <1> QED BY <1>1, NoneAssumption

LEMMA GiveFacts ==
  ASSUME NEW ns \in [Chains -> Tables], NEW c \in Chains, NEW k \in Classes,
         NEW set \in SUBSET Tokens, \A t \in set : ns[c][k][t] # None,
         NEW h, set # {} => h \in Holders,
         NEW ns1, Becomes(ns, ns1, c, give_nft(ns[c], k, set, h))
  PROVE  /\ Elsewhere(ns, ns1, c, k, set)
         /\ \A t \in set : /\ ns1[c][k][t] # None /\ ns1[c][k][t].owner = h
                           /\ ns1[c][k][t].uri = ns[c][k][t].uri
                           /\ ns1[c][k][t].data = ns[c][k][t].data
  <1> DEFINE row == [t \in Tokens |->
                      IF t \in set THEN [ns[c][k][t] EXCEPT !.owner = h] ELSE ns[c][k][t]]
  <1>1. \A t \in Tokens : ns[c][k][t] \in Records \cup {None}
    BY DEF Tables
  <1>2. ASSUME NEW t \in set
        PROVE  /\ row[t] \in Records /\ row[t] # None /\ row[t].owner = h
               /\ row[t].uri = ns[c][k][t].uri /\ row[t].data = ns[c][k][t].data
    <2>1. ns[c][k][t] \in Records
      BY <1>1
    <2>2. row[t] = [ns[c][k][t] EXCEPT !.owner = h]
      OBVIOUS
    <2> HIDE DEF row
    <2>3. h \in Holders
      OBVIOUS
    <2> QED BY <2>1, <2>2, <2>3, HandedFacts
  <1>3. \A t \in Tokens \ set : row[t] = ns[c][k][t]
    OBVIOUS
  <1>4. row \in [Tokens -> Records \cup {None}]
    <2>1. \A t \in Tokens : row[t] \in Records \cup {None}
      <3> HIDE DEF row
      <3> QED BY <1>1, <1>2, <1>3
    <2>2. row = [t \in Tokens |-> row[t]]
      OBVIOUS
    <2> HIDE DEF row
    <2> QED BY <2>1, <2>2
  <1>5. Put(ns, ns1, c, k, row)
    BY DEF give_nft, Put
  <1> HIDE DEF row
  <1>6. Elsewhere(ns, ns1, c, k, set) /\ ns1[c][k] = row
    <2>1. NewRow(ns, c, k, set, row)
      BY <1>3, <1>4 DEF NewRow
    <2> QED BY <1>5, <2>1, TablePut
  <1> QED BY <1>2, <1>6

LEMMA BurnFacts ==
  ASSUME NEW ns \in [Chains -> Tables], NEW c \in Chains, NEW k \in Classes,
         NEW set \in SUBSET Tokens,
         NEW ns1, Becomes(ns, ns1, c, burn_nft(ns[c], k, set))
  PROVE  /\ Elsewhere(ns, ns1, c, k, set)
         /\ \A t \in set : ns1[c][k][t] = None
  <1> DEFINE row == [t \in Tokens |-> IF t \in set THEN None ELSE ns[c][k][t]]
  <1>1. \A t \in Tokens : ns[c][k][t] \in Records \cup {None}
    BY DEF Tables
  <1>2. row \in [Tokens -> Records \cup {None}]
    BY <1>1
  <1>3. /\ \A t \in Tokens \ set : row[t] = ns[c][k][t]
        /\ \A t \in set : row[t] = None
    OBVIOUS
  <1>4. Put(ns, ns1, c, k, row)
    BY DEF burn_nft, Put
  <1> HIDE DEF row
  <1>5. Elsewhere(ns, ns1, c, k, set) /\ ns1[c][k] = row
    <2>1. NewRow(ns, c, k, set, row)
      BY <1>2, <1>3 DEF NewRow
    <2> QED BY <1>4, <2>1, TablePut
  <1> QED BY <1>3, <1>5

LEMMA MintFacts ==
  ASSUME NEW ns \in [Chains -> Tables], NEW c \in Chains, NEW k \in Classes,
         NEW set \in SUBSET Tokens, NEW h, set # {} => h \in Holders, NEW data, NEW M,
         \A t \in set : /\ M[t] \in Tokens \cup {None}
                        /\ At(data.uris, PlaceOf(data, t)) = M[t]
                        /\ At(data.datas, PlaceOf(data, t)) = M[t],
         NEW ns1, Becomes(ns, ns1, c, mint_nft(ns[c], k, set, h, data))
  PROVE  /\ Elsewhere(ns, ns1, c, k, set)
         /\ \A t \in set : /\ ns1[c][k][t] # None /\ ns1[c][k][t].owner = h
                           /\ ns1[c][k][t].uri = M[t] /\ ns1[c][k][t].data = M[t]
  <1> DEFINE row == [t \in Tokens |->
                      IF t \in set THEN Nft(h, At(data.uris, PlaceOf(data, t)),
                                              At(data.datas, PlaceOf(data, t)))
                      ELSE ns[c][k][t]]
  <1>1. \A t \in Tokens : ns[c][k][t] \in Records \cup {None}
    BY DEF Tables
  <1>2. ASSUME NEW t \in set
        PROVE  /\ row[t] \in Records /\ row[t] # None /\ row[t].owner = h
               /\ row[t].uri = M[t] /\ row[t].data = M[t]
    <2>1. row[t] = Nft(h, M[t], M[t])
      OBVIOUS
    <2> HIDE DEF row
    <2>2. h \in Holders
      OBVIOUS
    <2> QED BY <2>1, <2>2, NftFacts
  <1>3. \A t \in Tokens \ set : row[t] = ns[c][k][t]
    OBVIOUS
  <1>4. row \in [Tokens -> Records \cup {None}]
    <2>1. \A t \in Tokens : row[t] \in Records \cup {None}
      <3> HIDE DEF row
      <3> QED BY <1>1, <1>2, <1>3
    <2>2. row = [t \in Tokens |-> row[t]]
      OBVIOUS
    <2> HIDE DEF row
    <2> QED BY <2>1, <2>2
  <1>5. Put(ns, ns1, c, k, row)
    BY DEF mint_nft, Put
  <1> HIDE DEF row
  <1>6. Elsewhere(ns, ns1, c, k, set) /\ ns1[c][k] = row
    <2>1. NewRow(ns, c, k, set, row)
      BY <1>3, <1>4 DEF NewRow
    <2> QED BY <1>5, <2>1, TablePut
  <1> QED BY <1>2, <1>6

\* The records that accounts own change only where ns does.
LEMMA OwnedStays ==
  ASSUME NEW ns, NEW ns1, NEW c \in Chains, NEW k \in Classes, NEW set \in SUBSET Tokens,
         Elsewhere(ns, ns1, c, k, set), NEW t \in Tokens \ set
  PROVE  OwnedIn(ns1, t) = OwnedIn(ns, t)
  BY DEF Elsewhere, OwnedIn

LEMMA OwnedGains ==
  ASSUME NEW ns, NEW ns1, NEW c \in Chains, NEW k \in Classes, NEW set \in SUBSET Tokens,
         Elsewhere(ns, ns1, c, k, set), NEW t \in set,
         ~ IsOwned(ns[c][k][t]), IsOwned(ns1[c][k][t])
  PROVE  /\ OwnedIn(ns1, t) = OwnedIn(ns, t) \cup {<<c, k>>}
         /\ <<c, k>> \notin OwnedIn(ns, t)
  <1>1. \A x \in Chains \X Classes :
          IsOwned(ns1[x[1]][x[2]][t]) <=> IsOwned(ns[x[1]][x[2]][t]) \/ x = <<c, k>>
    <2> TAKE x \in Chains \X Classes
    <2>1. x = <<x[1], x[2]>> /\ x[1] \in Chains /\ x[2] \in Classes
      OBVIOUS
    <2>2. CASE x = <<c, k>>
      BY <2>2
    <2>3. CASE x # <<c, k>>
      <3>1. ns1[x[1]][x[2]][t] = ns[x[1]][x[2]][t]
        BY <2>1, <2>3 DEF Elsewhere
      <3> QED BY <2>3, <3>1
    <2> QED BY <2>2, <2>3
  <1> QED BY <1>1 DEF OwnedIn

LEMMA OwnedLoses ==
  ASSUME NEW ns, NEW ns1, NEW c \in Chains, NEW k \in Classes, NEW set \in SUBSET Tokens,
         Elsewhere(ns, ns1, c, k, set), NEW t \in set,
         IsOwned(ns[c][k][t]), ~ IsOwned(ns1[c][k][t])
  PROVE  /\ OwnedIn(ns1, t) = OwnedIn(ns, t) \ {<<c, k>>}
         /\ <<c, k>> \in OwnedIn(ns, t)
  <1>1. \A x \in Chains \X Classes :
          IsOwned(ns1[x[1]][x[2]][t]) <=> IsOwned(ns[x[1]][x[2]][t]) /\ x # <<c, k>>
    <2> TAKE x \in Chains \X Classes
    <2>1. x = <<x[1], x[2]>> /\ x[1] \in Chains /\ x[2] \in Classes
      OBVIOUS
    <2>2. CASE x = <<c, k>>
      BY <2>2
    <2>3. CASE x # <<c, k>>
      <3>1. ns1[x[1]][x[2]][t] = ns[x[1]][x[2]][t]
        BY <2>1, <2>3 DEF Elsewhere
      <3> QED BY <2>3, <3>1
    <2> QED BY <2>2, <2>3
  <1> QED BY <1>1 DEF OwnedIn

----------------------------------------------------------------------------
\* Metadata.

\* Tokens of set, of class k on chain c, are handed on with what they have,
\* or, unless k is Native, burnt or minted with what their native tokens have.
Touched(ns, ns1, c, k, set) ==
  /\ Elsewhere(ns, ns1, c, k, set)
  /\ \A t \in set :
       \/ /\ ns[c][k][t] # None /\ ns1[c][k][t] # None
          /\ ns1[c][k][t].uri = ns[c][k][t].uri /\ ns1[c][k][t].data = ns[c][k][t].data
       \/ k # Native /\ ns1[c][k][t] = None
       \/ /\ k # Native
          /\ ns1[c][k][t].uri = Meta(ns[Home][Native][t], t)
          /\ ns1[c][k][t].data = Meta(ns[Home][Native][t], t)

\* What a native token has, it has for good.
LEMMA NativeStays ==
  ASSUME NativeKept, NEW c \in Chains, NEW k \in Classes, NEW set \in SUBSET Tokens,
         Touched(nfts, nfts', c, k, set)
  PROVE  /\ NativeKept'
         /\ \A t \in Tokens : Meta(nfts'[Home][Native][t], t) = Meta(nfts[Home][Native][t], t)
  <1>1. ASSUME NEW a \in Chains, NEW t \in Tokens
        PROVE  \/ nfts'[a][Native][t] = nfts[a][Native][t]
               \/ /\ nfts[a][Native][t] # None /\ nfts'[a][Native][t] # None
                  /\ nfts'[a][Native][t].uri = nfts[a][Native][t].uri
                  /\ nfts'[a][Native][t].data = nfts[a][Native][t].data
    <2>1. CASE a = c /\ k = Native /\ t \in set
      BY <2>1 DEF Touched
    <2>2. CASE ~ (a = c /\ k = Native /\ t \in set)
      BY <2>2, NativeFacts DEF Touched, Elsewhere
    <2> QED BY <2>1, <2>2
  <1>2. ASSUME NEW t \in Tokens
        PROVE  /\ nfts'[Home][Native][t] # None
               /\ nfts'[Home][Native][t].uri = nfts[Home][Native][t].uri
               /\ nfts'[Home][Native][t].data = nfts[Home][Native][t].data
    BY <1>1, HomeAssumption DEF NativeKept
  <1>3. NativeKept'
    BY <1>1, <1>2 DEF NativeKept
  <1>4. \A t \in Tokens : Meta(nfts'[Home][Native][t], t) = Meta(nfts[Home][Native][t], t)
    BY <1>2 DEF Meta
  <1> QED BY <1>3, <1>4

\* A voucher as VoucherMetadata has it.
HasMeta(n, o, t) == n # None => n.uri = Meta(o, t) /\ n.data = Meta(o, t)

LEMMA VoucherMetadataAs ==
  /\ VoucherMetadata <=>
       \A c \in Chains, k \in Classes, t \in Tokens :
         k.trace # <<>> => HasMeta(nfts[c][k][t], nfts[Home][Native][t], t)
  /\ VoucherMetadata' <=>
       \A c \in Chains, k \in Classes, t \in Tokens :
         k.trace # <<>> => HasMeta(nfts'[c][k][t], nfts'[Home][Native][t], t)
  <1>1. VoucherMetadata <=>
       \A c \in Chains, k \in Classes, t \in Tokens :
         k.trace # <<>> => HasMeta(nfts[c][k][t], nfts[Home][Native][t], t)
    BY DEF VoucherMetadata, HasMeta, Meta
  <1>2. VoucherMetadata' <=>
       \A c \in Chains, k \in Classes, t \in Tokens :
         k.trace # <<>> => HasMeta(nfts'[c][k][t], nfts'[Home][Native][t], t)
    BY DEF VoucherMetadata, HasMeta, Meta
  <1> QED BY <1>1, <1>2

LEMMA MetadataKept ==
  ASSUME NativeKept, VoucherMetadata,
         NEW c \in Chains, NEW k \in Classes, NEW set \in SUBSET Tokens,
         Touched(nfts, nfts', c, k, set)
  PROVE  VoucherMetadata'
  <1>1. \A t \in Tokens : Meta(nfts'[Home][Native][t], t) = Meta(nfts[Home][Native][t], t)
    BY NativeStays
  <1>2. ASSUME NEW a \in Chains, NEW j \in Classes, NEW t \in Tokens, j.trace # <<>>
        PROVE  HasMeta(nfts'[a][j][t], nfts'[Home][Native][t], t)
    <2>1. HasMeta(nfts[a][j][t], nfts[Home][Native][t], t)
      BY <1>2, VoucherMetadataAs
    <2>2. CASE ~ (a = c /\ j = k /\ t \in set)
      <3>1. nfts'[a][j][t] = nfts[a][j][t]
        BY <2>2 DEF Touched, Elsewhere
      <3> QED BY <1>1, <2>1, <3>1 DEF HasMeta
    <2>3. CASE a = c /\ j = k /\ t \in set
      BY <1>1, <2>1, <2>3 DEF HasMeta, Touched
    <2> QED BY <2>2, <2>3
  <1> QED BY <1>2, VoucherMetadataAs

\* A held token that has both has its own, and the native one has them too.
LEMMA HeldMetadata ==
  ASSUME NativeKept, VoucherMetadata,
         NEW c \in Chains, NEW k \in Classes, NEW t \in Tokens, nfts[c][k][t] # None
  PROVE  LET n == nfts[c][k][t]
             m == Meta(nfts[Home][Native][t], t)
         IN IF n.uri # None /\ n.data # None THEN n.uri = t /\ n.data = t /\ m = t
            ELSE m = None
  <1>1. t # None
    BY NoneAssumption
  <1>2. CASE k = Native
    BY <1>1, <1>2 DEF NativeKept, Meta
  <1>3. CASE k # Native
    <2>1. HasMeta(nfts[c][k][t], nfts[Home][Native][t], t)
      BY <1>3, NativeFacts, VoucherMetadataAs
    <2> QED BY <1>1, <2>1 DEF HasMeta, Meta
  <1> QED BY <1>2, <1>3

----------------------------------------------------------------------------
\* Packets.

Entry == [packet : Packet, outcome : Outcomes]
Carries(q, t) == \E i \in DOMAIN q.data.tokens : q.data.tokens[i] = t

\* Not delivered with success, and not given back.
Waiting(e, q) ==
  /\ ~ ( /\ q \in Channel!Elements(received[Peer(e)])
         /\ reply[Peer(e)][q.seq] = "success")
  /\ \A s \in Channel!Elements(settled[e]) : s.packet = q => s.outcome = "success"

LEMMA UnderWayAs ==
  ASSUME NEW t, NEW x
  PROVE  /\ x \in UnderWay(t) <=>
              \E e \in End : \E q \in Packets(e) : x = <<e, q>> /\ Carries(q, t) /\ Waiting(e, q)
         /\ x \in UnderWay(t)' <=>
              \E e \in End : \E q \in Packets(e)' : x = <<e, q>> /\ Carries(q, t) /\ Waiting(e, q)'
  <1>1. x \in UnderWay(t) <=>
          \E e \in End : \E q \in Packets(e) : x = <<e, q>> /\ Carries(q, t) /\ Waiting(e, q)
    BY DEF UnderWay, Waiting, Carries
  <1>2. x \in UnderWay(t)' <=>
          \E e \in End : \E q \in Packets(e)' : x = <<e, q>> /\ Carries(q, t) /\ Waiting(e, q)'
    BY DEF UnderWay, Waiting, Carries
  <1> QED BY <1>1, <1>2

LEMMA ElementsAppend ==
  ASSUME NEW A, NEW s \in Seq(A), NEW x \in A
  PROVE  /\ Append(s, x) \in Seq(A)
         /\ Channel!Elements(Append(s, x)) = Channel!Elements(s) \cup {x}
  <1>1. /\ Append(s, x) \in Seq(A)
        /\ DOMAIN Append(s, x) = 1..(Len(s) + 1) /\ DOMAIN s = 1..Len(s) /\ Len(s) \in Nat
        /\ Append(s, x)[Len(s) + 1] = x
        /\ \A i \in 1..Len(s) : Append(s, x)[i] = s[i]
    OBVIOUS
  <1>2. ASSUME NEW y \in Channel!Elements(Append(s, x)), y # x
        PROVE  y \in Channel!Elements(s)
    BY <1>1, <1>2 DEF Channel!Elements
  <1>3. ASSUME NEW y \in Channel!Elements(s)
        PROVE  y \in Channel!Elements(Append(s, x))
    BY <1>1 DEF Channel!Elements
  <1>4. x \in Channel!Elements(Append(s, x))
    BY <1>1 DEF Channel!Elements
  <1> QED BY <1>1, <1>2, <1>3, <1>4

\* A packet is known by its end and its number, which the bound allows.
LEMMA PacketFacts ==
  ASSUME Types, Books, NEW e \in End, NEW p \in Packets(e)
  PROVE  /\ p \in Packet /\ p.seq \in 1..MaxSends
         /\ p.seq \in DOMAIN sent[e] /\ sent[e][p.seq] = p
         /\ \A q \in Packets(e) : q.seq = p.seq => q = p
  <1>1. sent[e] \in Seq(Packet) /\ DOMAIN sent[e] = 1..Len(sent[e]) /\ Len(sent[e]) \in Nat
    BY DEF Types
  <1>2. \A q \in Packets(e) : \E i \in DOMAIN sent[e] : q = sent[e][i] /\ q.seq = i
    BY DEF Books, Packets, Channel!Elements
  <1>3. PICK i \in DOMAIN sent[e] : p = sent[e][i] /\ p.seq = i
    BY <1>2
  <1>4. i \in 1..MaxSends
    BY <1>1, <1>3, BoundsAssumption DEF Books
  <1>5. p \in Packet
    BY <1>1, <1>3
  <1> QED BY <1>2, <1>3, <1>4, <1>5

\* What is received was sent by the peer, what is settled by the end itself.
LEMMA BooksAs ==
  ASSUME Books, NEW e \in End
  PROVE  /\ Channel!Elements(received[e]) \subseteq Packets(Peer(e))
         /\ \A s \in Channel!Elements(settled[e]) : s.packet \in Packets(e)
  BY DEF Books, Channel!Elements

\* The bound on all packets bounds those of an end.
LEMMA Room ==
  ASSUME Types, Books, NEW e \in End, Cardinality(SentSoFar) < MaxSends
  PROVE  Len(sent[e]) \in Nat /\ Len(sent[e]) + 1 <= MaxSends
  <1> DEFINE n == Len(sent[e])
  <1>1. n \in Nat /\ DOMAIN sent[e] = 1..n
    BY DEF Types
  <1> HIDE DEF n
  <1>2. IsFiniteSet(1..n) /\ Cardinality(1..n) = n
    BY <1>1, FS_Interval
  <1>3. IsFiniteSet({e}) /\ Cardinality({e}) = 1
    BY FS_Singleton
  <1>4. Cardinality({e} \X (1..n)) = n
    <2>1. Cardinality({e} \X (1..n)) = Cardinality({e}) * Cardinality(1..n)
      BY <1>2, <1>3, FS_Product
    <2> QED BY <1>1, <1>2, <1>3, <2>1
  <1>5. {e} \X (1..n) \in SUBSET SentSoFar
    BY <1>1 DEF SentSoFar
  <1>6. Cardinality({e} \X (1..n)) <= Cardinality(SentSoFar)
    BY <1>5, FS_Subset DEF Books
  <1>7. Cardinality(SentSoFar) \in Nat
    BY FS_CardinalityType DEF Books
  <1> QED BY <1>1, <1>4, <1>6, <1>7, BoundsAssumption DEF n

BookTypes ==
  /\ sent \in [End -> Seq(Packet)]
  /\ received \in [End -> Seq(Packet)]
  /\ settled \in [End -> Seq(Entry)]
  /\ reply \in [End -> [1..MaxSends -> Outcomes]]

\* All packets but p of e stand as before.
OthersStand(e, p) ==
  \A f \in End : \A q \in Packets(f) : ~ (f = e /\ q = p) => (Waiting(f, q)' <=> Waiting(f, q))
SamePackets == \A f \in End : Packets(f)' = Packets(f)

\* The packet p is new at e, and waits.
Ships(e, p) ==
  /\ p \notin Packets(e)
  /\ \A f \in End : Packets(f)' = IF f = e THEN Packets(f) \cup {p} ELSE Packets(f)
  /\ OthersStand(e, p)
  /\ Waiting(e, p)'

\* send_packet: one packet more, which nobody has received.
LEMMA SendStep ==
  ASSUME Types, Books, NEW e \in End, NEW p \in Packet, Cardinality(SentSoFar) < MaxSends,
         Channel!DSend(e, p)
  PROVE  BookTypes' /\ Books' /\ Ships(e, p)
  <1>1. /\ p.seq = Len(sent[e]) + 1
        /\ sent' = [sent EXCEPT ![e] = Append(@, p)]
        /\ received' = received /\ settled' = settled /\ reply' = reply
    BY DEF Channel!DSend
  <1>2. /\ sent \in [End -> Seq(Packet)] /\ sent[e] \in Seq(Packet)
        /\ Len(sent[e]) \in Nat /\ Len(sent[e]) + 1 <= MaxSends
        /\ DOMAIN sent[e] = 1..Len(sent[e])
    <2>1. sent \in [End -> Seq(Packet)]
      BY DEF Types
    <2>2. Len(sent[e]) \in Nat /\ Len(sent[e]) + 1 <= MaxSends
      BY Room
    <2> QED BY <2>1, <2>2
  <1>3. ASSUME NEW f \in End
        PROVE  /\ sent'[f] = IF f = e THEN Append(sent[f], p) ELSE sent[f]
               /\ Packets(f)' = IF f = e THEN Packets(f) \cup {p} ELSE Packets(f)
    <2>1. sent'[f] = IF f = e THEN Append(sent[f], p) ELSE sent[f]
      BY <1>1, <1>2
    <2>2. Channel!Elements(Append(sent[e], p)) = Channel!Elements(sent[e]) \cup {p}
      BY <1>2, ElementsAppend
    <2> QED BY <2>1, <2>2 DEF Packets
  <1>4. p \notin Packets(e)
    <2> SUFFICES ASSUME p \in Packets(e) PROVE FALSE
      OBVIOUS
    <2>1. p.seq \in 1..Len(sent[e])
      BY <1>2, PacketFacts
    <2> QED BY <1>1, <1>2, <2>1
  <1>5. \A f \in End : \A q : Waiting(f, q)' <=> Waiting(f, q)
    BY <1>1 DEF Waiting
  <1>6. Waiting(e, p)
    <2>1. Peer(e) \in End /\ Peer(Peer(e)) = e
      BY EndFacts
    <2>2. /\ Channel!Elements(received[Peer(e)]) \subseteq Packets(e)
          /\ \A s \in Channel!Elements(settled[e]) : s.packet \in Packets(e)
      BY <2>1, BooksAs
    <2> QED BY <1>4, <2>2 DEF Waiting
  <1>7. BookTypes'
    <2>1. sent' \in [End -> Seq(Packet)]
      BY <1>1, <1>2, ElementsAppend
    <2> QED BY <1>1, <2>1 DEF Types, BookTypes, Entry
  <1>8. /\ DOMAIN sent'[e] = DOMAIN sent[e] \cup {p.seq}
        /\ sent'[e][p.seq] = p
        /\ \A i \in DOMAIN sent[e] : sent'[e][i] = sent[e][i]
    <2>1. sent'[e] = Append(sent[e], p)
      BY <1>3
    <2>2. /\ DOMAIN Append(sent[e], p) = 1..(Len(sent[e]) + 1)
          /\ Append(sent[e], p)[Len(sent[e]) + 1] = p
          /\ \A i \in 1..Len(sent[e]) : Append(sent[e], p)[i] = sent[e][i]
      BY <1>2
    <2>3. 1..(Len(sent[e]) + 1) = (1..Len(sent[e])) \cup {Len(sent[e]) + 1}
      BY <1>2
    <2> QED BY <1>1, <1>2, <2>1, <2>2, <2>3
  <1>9. IsFiniteSet(SentSoFar')
    <2>1. SentSoFar' = SentSoFar \cup {<<e, p.seq>>}
      <3>1. \A f \in End : {f} \X DOMAIN sent'[f] =
              IF f = e THEN ({f} \X DOMAIN sent[f]) \cup {<<e, p.seq>>} ELSE {f} \X DOMAIN sent[f]
        BY <1>3, <1>8
      <3> QED BY <3>1 DEF SentSoFar
    <2>2. IsFiniteSet(SentSoFar)
      BY DEF Books
    <2> QED BY <2>1, <2>2, FS_AddElement
  <1>10. \A f \in End : \A i \in DOMAIN sent'[f] : sent'[f][i].seq = i /\ i <= MaxSends
    <2> TAKE f \in End
    <2>1. CASE f # e
      BY <1>3, <2>1 DEF Books
    <2>2. CASE f = e
      <3> TAKE i \in DOMAIN sent'[f]
      <3>1. CASE i = p.seq
        BY <1>1, <1>2, <1>8, <2>2, <3>1
      <3>2. CASE i \in DOMAIN sent[e]
        BY <1>8, <2>2, <3>2 DEF Books
      <3> QED BY <1>8, <2>2, <3>1, <3>2
    <2> QED BY <2>1, <2>2
  <1>11. Books'
    <2>1. \A f \in End : Packets(f) \subseteq Packets(f)'
      BY <1>3
    <2>2. \A f \in End : \A i \in DOMAIN received[f] : received[f][i] \in Packets(Peer(f))'
      BY <2>1, EndFacts DEF Books
    <2>3. \A f \in End : \A i \in DOMAIN settled[f] : settled[f][i].packet \in Packets(f)'
      BY <2>1 DEF Books
    <2> QED BY <1>1, <1>9, <1>10, <2>2, <2>3 DEF Books
  <1> QED BY <1>3, <1>4, <1>5, <1>6, <1>7, <1>11 DEF OthersStand, Ships

\* recv_packet: the packet was waiting, and still is unless the answer is success.
LEMMA DeliverStep ==
  ASSUME Types, Books, NEW e \in End, NEW p \in Packets(Peer(e)),
         NEW a \in {"success", "error", "unreadable"}, Channel!DDeliver(e, p, a)
  PROVE  /\ BookTypes' /\ Books' /\ SamePackets /\ OthersStand(Peer(e), p)
         /\ Waiting(Peer(e), p)
         /\ Waiting(Peer(e), p)' <=> a # "success"
  <1> DEFINE src == Peer(e)
  <1>0. src \in End /\ Peer(src) = e
    BY EndFacts
  <1>1. /\ p \notin Channel!Elements(received[e])
        /\ \A i \in DOMAIN settled[src] : settled[src][i].packet # p
        /\ received' = [received EXCEPT ![e] = Append(@, p)]
        /\ reply' = [reply EXCEPT ![e][p.seq] = a]
        /\ sent' = sent /\ settled' = settled
    BY DEF Channel!DDeliver
  <1>2. p.seq \in 1..MaxSends /\ p \in Packet
    BY <1>0, PacketFacts
  <1>3. received \in [End -> Seq(Packet)] /\ received[e] \in Seq(Packet)
    BY DEF Types
  <1>4. ASSUME NEW f \in End
        PROVE  Channel!Elements(received'[f]) =
                 IF f = e THEN Channel!Elements(received[f]) \cup {p}
                 ELSE Channel!Elements(received[f])
    <2>1. received'[f] = IF f = e THEN Append(received[f], p) ELSE received[f]
      BY <1>1, <1>3
    <2>2. Channel!Elements(Append(received[e], p)) = Channel!Elements(received[e]) \cup {p}
      BY <1>2, <1>3, ElementsAppend
    <2> QED BY <2>1, <2>2
  <1>5. reply \in [End -> [1..MaxSends -> Outcomes]] /\ a \in Outcomes
    BY DEF Types, Outcomes
  <1>6. /\ reply' \in [End -> [1..MaxSends -> Outcomes]]
        /\ \A f \in End, s \in 1..MaxSends :
             reply'[f][s] = IF f = e /\ s = p.seq THEN a ELSE reply[f][s]
    BY <1>1, <1>2, <1>5
  <1>7. SamePackets
    BY <1>1 DEF SamePackets, Packets
  <1>8. \A s \in Channel!Elements(settled[src]) : s.packet # p
    BY <1>1 DEF Channel!Elements
  <1>9. Waiting(src, p)
    BY <1>0, <1>1, <1>8 DEF Waiting
  <1>10. Waiting(src, p)' <=> a # "success"
    <2>1. p \in Channel!Elements(received'[e]) /\ reply'[e][p.seq] = a
      BY <1>2, <1>4, <1>6
    <2>2. \A s \in Channel!Elements(settled'[src]) : s.packet # p
      BY <1>1, <1>8
    <2> QED BY <1>0, <2>1, <2>2 DEF Waiting
  <1>11. OthersStand(src, p)
    <2> SUFFICES ASSUME NEW f \in End, NEW q \in Packets(f), ~ (f = src /\ q = p)
                 PROVE  Waiting(f, q)' <=> Waiting(f, q)
      BY DEF OthersStand
    <2>1. Peer(f) \in End /\ (Peer(f) = e => f = src)
      BY EndFacts
    <2>2. q.seq \in 1..MaxSends /\ (f = src => q.seq # p.seq)
      BY <1>0, PacketFacts
    <2>3. reply'[Peer(f)][q.seq] = reply[Peer(f)][q.seq]
      BY <1>6, <2>1, <2>2
    <2>4. q \in Channel!Elements(received'[Peer(f)]) <=> q \in Channel!Elements(received[Peer(f)])
      BY <1>4, <2>1
    <2> QED BY <1>1, <2>3, <2>4 DEF Waiting
  <1>12. BookTypes'
    <2>1. received' \in [End -> Seq(Packet)]
      BY <1>1, <1>2, <1>3, ElementsAppend
    <2> QED BY <1>1, <1>6, <2>1 DEF Types, BookTypes, Entry
  <1>13. Books'
    <2>1. \A f \in End : \A i \in DOMAIN received'[f] : received'[f][i] \in Packets(Peer(f))'
      <3> TAKE f \in End
      <3>1. Peer(f) \in End /\ Packets(Peer(f))' = Packets(Peer(f))
        BY <1>7, EndFacts DEF SamePackets
      <3>2. Channel!Elements(received'[f]) \subseteq Packets(Peer(f))
        BY <1>4, BooksAs
      <3> QED BY <3>1, <3>2 DEF Channel!Elements
    <2>2. \A f \in End : \A i \in DOMAIN settled'[f] : settled'[f][i].packet \in Packets(f)'
      BY <1>1, <1>7 DEF SamePackets, Books
    <2>3. SentSoFar' = SentSoFar
      BY <1>1 DEF SentSoFar
    <2> QED BY <1>1, <2>1, <2>2, <2>3 DEF Books
  <1> QED BY <1>0, <1>7, <1>9, <1>10, <1>11, <1>12, <1>13

\* acknowledge_packet and timeout_packet: the packet was waiting unless the
\* answer was success, and is no longer.
LEMMA SettleStep ==
  ASSUME Types, Books, NEW e \in End, NEW p \in Packets(e), NEW o \in Outcomes,
         Channel!DSettle(e, p, o),
         \/ o = "timeout" /\ p \notin Channel!Elements(received[Peer(e)])
         \/ o = reply[Peer(e)][p.seq] /\ p \in Channel!Elements(received[Peer(e)])
  PROVE  /\ BookTypes' /\ Books' /\ SamePackets /\ OthersStand(e, p)
         /\ Waiting(e, p) <=> o # "success"
         /\ ~ Waiting(e, p)'
  <1> DEFINE new == [packet |-> p, outcome |-> o]
  <1>1. /\ \A i \in DOMAIN settled[e] : settled[e][i].packet # p
        /\ settled' = [settled EXCEPT ![e] = Append(@, new)]
        /\ sent' = sent /\ received' = received /\ reply' = reply
    BY DEF Channel!DSettle, Channel!InFlight
  <1>2. p \in Packet /\ new \in Entry
    BY PacketFacts DEF Entry
  <1>3. settled \in [End -> Seq(Entry)] /\ settled[e] \in Seq(Entry)
    BY DEF Types, Entry
  <1>4. ASSUME NEW f \in End
        PROVE  Channel!Elements(settled'[f]) =
                 IF f = e THEN Channel!Elements(settled[f]) \cup {new}
                 ELSE Channel!Elements(settled[f])
    <2>1. settled'[f] = IF f = e THEN Append(settled[f], new) ELSE settled[f]
      BY <1>1, <1>3
    <2>2. Channel!Elements(Append(settled[e], new)) = Channel!Elements(settled[e]) \cup {new}
      BY <1>2, <1>3, ElementsAppend
    <2> QED BY <2>1, <2>2
  <1>5. SamePackets
    BY <1>1 DEF SamePackets, Packets
  <1>6. \A s \in Channel!Elements(settled[e]) : s.packet # p
    BY <1>1 DEF Channel!Elements
  <1>7. Waiting(e, p) <=> o # "success"
    BY <1>6 DEF Waiting
  <1>8. new.packet = p /\ new.outcome = o
    OBVIOUS
  <1> HIDE DEF new
  <1>9. ~ Waiting(e, p)'
    <2>1. new \in Channel!Elements(settled'[e])
      BY <1>4
    <2>2. CASE o # "success"
      BY <1>8, <2>1, <2>2 DEF Waiting
    <2>3. CASE o = "success"
      BY <1>1, <2>3 DEF Waiting
    <2> QED BY <2>2, <2>3
  <1>10. OthersStand(e, p)
    <2> SUFFICES ASSUME NEW f \in End, NEW q \in Packets(f), ~ (f = e /\ q = p)
                 PROVE  Waiting(f, q)' <=> Waiting(f, q)
      BY DEF OthersStand
    <2>1. f = e => new.packet # q
      BY <1>8
    <2>2. (\A s \in Channel!Elements(settled'[f]) : s.packet = q => s.outcome = "success")
            <=> (\A s \in Channel!Elements(settled[f]) : s.packet = q => s.outcome = "success")
      BY <1>4, <2>1
    <2> QED BY <1>1, <2>2 DEF Waiting
  <1>11. BookTypes'
    <2>1. settled' \in [End -> Seq(Entry)]
      BY <1>1, <1>2, <1>3, ElementsAppend
    <2> QED BY <1>1, <2>1 DEF Types, BookTypes
  <1>12. Books'
    <2>1. \A f \in End : Packets(f)' = Packets(f) /\ Packets(Peer(f))' = Packets(Peer(f))
      BY <1>5, EndFacts DEF SamePackets
    <2>2. \A f \in End : \A i \in DOMAIN settled'[f] : settled'[f][i].packet \in Packets(f)'
      <3> TAKE f \in End
      <3>1. \A s \in Channel!Elements(settled'[f]) : s.packet \in Packets(f)
        BY <1>4, <1>8, BooksAs
      <3> QED BY <2>1, <3>1 DEF Channel!Elements
    <2>3. SentSoFar' = SentSoFar
      BY <1>1 DEF SentSoFar
    <2> QED BY <1>1, <2>1, <2>2, <2>3 DEF Books
  <1> QED BY <1>5, <1>7, <1>9, <1>10, <1>11, <1>12

----------------------------------------------------------------------------
\* Places.

\* What is under way when a packet starts, ends, or stands as it did.
LEMMA UnderWayStarts ==
  ASSUME NEW e \in End, NEW p, Ships(e, p), NEW t
  PROVE  IF Carries(p, t)
         THEN UnderWay(t)' = UnderWay(t) \cup {<<e, p>>} /\ <<e, p>> \notin UnderWay(t)
         ELSE UnderWay(t)' = UnderWay(t)
  <1>1. <<e, p>> \notin UnderWay(t)
    BY UnderWayAs DEF Ships
  <1>2. ASSUME NEW x \in UnderWay(t) PROVE x \in UnderWay(t)'
    <2>1. PICK f \in End : \E q \in Packets(f) : x = <<f, q>> /\ Carries(q, t) /\ Waiting(f, q)
      BY UnderWayAs
    <2>2. PICK q \in Packets(f) : x = <<f, q>> /\ Carries(q, t) /\ Waiting(f, q)
      BY <2>1
    <2>3. Waiting(f, q)' /\ q \in Packets(f)'
      BY <2>2 DEF OthersStand, Ships
    <2> QED BY <2>2, <2>3, UnderWayAs
  <1>3. ASSUME NEW x \in UnderWay(t)', x # <<e, p>> PROVE x \in UnderWay(t)
    <2>1. PICK f \in End : \E q \in Packets(f)' : x = <<f, q>> /\ Carries(q, t) /\ Waiting(f, q)'
      BY UnderWayAs
    <2>2. PICK q \in Packets(f)' : x = <<f, q>> /\ Carries(q, t) /\ Waiting(f, q)'
      BY <2>1
    <2>3. q \in Packets(f) /\ ~ (f = e /\ q = p)
      BY <1>3, <2>2 DEF Ships
    <2>4. Waiting(f, q)
      BY <2>2, <2>3 DEF OthersStand, Ships
    <2> QED BY <2>2, <2>3, <2>4, UnderWayAs
  <1>4. <<e, p>> \in UnderWay(t)' <=> Carries(p, t)
    <2>1. p \in Packets(e)'
      BY DEF Ships
    <2>2. ASSUME Carries(p, t) PROVE <<e, p>> \in UnderWay(t)'
      BY <2>1, <2>2, UnderWayAs DEF Ships
    <2>3. ASSUME <<e, p>> \in UnderWay(t)' PROVE Carries(p, t)
      BY <2>3, UnderWayAs
    <2> QED BY <2>2, <2>3
  <1> QED BY <1>1, <1>2, <1>3, <1>4

LEMMA UnderWayEnds ==
  ASSUME NEW e \in End, NEW p \in Packets(e), OthersStand(e, p), SamePackets, NEW t
  PROVE  IF Carries(p, t) /\ Waiting(e, p) /\ ~ Waiting(e, p)'
         THEN UnderWay(t)' = UnderWay(t) \ {<<e, p>>} /\ <<e, p>> \in UnderWay(t)
         ELSE (Waiting(e, p)' <=> Waiting(e, p)) \/ ~ Carries(p, t) => UnderWay(t)' = UnderWay(t)
  <1>1. ASSUME NEW x, x # <<e, p>> PROVE x \in UnderWay(t)' <=> x \in UnderWay(t)
    <2>1. ASSUME NEW f \in End, NEW q \in Packets(f), x = <<f, q>>
          PROVE  Waiting(f, q)' <=> Waiting(f, q)
      BY <1>1, <2>1 DEF OthersStand
    <2> QED BY <2>1, UnderWayAs DEF SamePackets
  <1>2. <<e, p>> \in UnderWay(t) <=> Carries(p, t) /\ Waiting(e, p)
    BY UnderWayAs
  <1>3. <<e, p>> \in UnderWay(t)' <=> Carries(p, t) /\ Waiting(e, p)'
    BY UnderWayAs DEF SamePackets
  <1> QED BY <1>1, <1>2, <1>3

\* Sets of places: one leaves the first and one joins the second, or one joins.
LEMMA PlaceMoves ==
  ASSUME NEW A, IsFiniteSet(A), NEW B, IsFiniteSet(B), NEW x \in A, NEW y, y \notin B
  PROVE  /\ IsFiniteSet(A \ {x}) /\ IsFiniteSet(B \cup {y})
         /\ Cardinality(A \ {x}) + Cardinality(B \cup {y}) = Cardinality(A) + Cardinality(B)
  <1>1. Cardinality(A) \in Nat /\ Cardinality(B) \in Nat
    BY FS_CardinalityType
  <1>2. IsFiniteSet(A \ {x}) /\ Cardinality(A \ {x}) = Cardinality(A) - 1
    BY FS_RemoveElement
  <1>3. IsFiniteSet(B \cup {y}) /\ Cardinality(B \cup {y}) = Cardinality(B) + 1
    BY FS_AddElement
  <1> QED BY <1>1, <1>2, <1>3

LEMMA PlaceJoins ==
  ASSUME NEW A, IsFiniteSet(A), NEW B, IsFiniteSet(B), NEW x,
         Cardinality(A) + Cardinality(B) >= 1
  PROVE  IsFiniteSet(A \cup {x}) /\ Cardinality(A \cup {x}) + Cardinality(B) >= 1
  <1>1. Cardinality(A) \in Nat /\ Cardinality(B) \in Nat
    BY FS_CardinalityType
  <1>2. IsFiniteSet(A \cup {x}) /\ Cardinality(A \cup {x}) \in {Cardinality(A), Cardinality(A) + 1}
    BY FS_AddElement
  <1> QED BY <1>1, <1>2

\* One token's share of FewPlaces and OneOwner.
WellPlaced(A, B, isLeaked) ==
  /\ IsFiniteSet(A) /\ IsFiniteSet(B)
  /\ IF isLeaked THEN Cardinality(A) + Cardinality(B) >= 1
     ELSE Cardinality(A) + Cardinality(B) = 1

LEMMA PlacedOut ==
  ASSUME NEW A, NEW B, NEW l, WellPlaced(A, B, l), NEW x \in A, NEW y, y \notin B
  PROVE  WellPlaced(A \ {x}, B \cup {y}, l)
  <1>1. IsFiniteSet(A) /\ IsFiniteSet(B)
    BY DEF WellPlaced
  <1>2. /\ IsFiniteSet(A \ {x}) /\ IsFiniteSet(B \cup {y})
        /\ Cardinality(A \ {x}) + Cardinality(B \cup {y}) = Cardinality(A) + Cardinality(B)
    BY <1>1, PlaceMoves
  <1> QED BY <1>2 DEF WellPlaced

LEMMA PlacedIn ==
  ASSUME NEW A, NEW B, NEW l, WellPlaced(A, B, l), NEW x, x \notin A, NEW y \in B
  PROVE  WellPlaced(A \cup {x}, B \ {y}, l)
  <1>1. IsFiniteSet(A) /\ IsFiniteSet(B)
    BY DEF WellPlaced
  <1>2. /\ IsFiniteSet(B \ {y}) /\ IsFiniteSet(A \cup {x})
        /\ Cardinality(B \ {y}) + Cardinality(A \cup {x}) = Cardinality(B) + Cardinality(A)
    BY <1>1, PlaceMoves
  <1>3. /\ Cardinality(A) \in Nat /\ Cardinality(B) \in Nat
        /\ Cardinality(A \cup {x}) \in Nat /\ Cardinality(B \ {y}) \in Nat
    BY <1>1, <1>2, FS_CardinalityType
  <1> QED BY <1>2, <1>3 DEF WellPlaced

LEMMA WellPlacedAs ==
  /\ FewPlaces /\ OneOwner <=> \A t \in Tokens : WellPlaced(Owned(t), UnderWay(t), t \in leaked)
  /\ (FewPlaces /\ OneOwner)' <=>
       \A t \in Tokens : WellPlaced(Owned(t)', UnderWay(t)', t \in leaked')
  BY DEF WellPlaced, FewPlaces, OneOwner

\* Accounts give up, or get, the tokens of set.
MoveOut(c, k, set) ==
  /\ Elsewhere(nfts, nfts', c, k, set)
  /\ \A t \in set : IsOwned(nfts[c][k][t]) /\ ~ IsOwned(nfts'[c][k][t])
MoveIn(c, k, set) ==
  /\ Elsewhere(nfts, nfts', c, k, set)
  /\ \A t \in set : ~ IsOwned(nfts[c][k][t]) /\ IsOwned(nfts'[c][k][t])

\* A transfer starts: what accounts give up, the packet carries.
LEMMA ShipStep ==
  ASSUME FewPlaces, OneOwner, leaked' = leaked,
         NEW c \in Chains, NEW k \in Classes, NEW set \in SUBSET Tokens, MoveOut(c, k, set),
         NEW e \in End, NEW p, Ships(e, p),
         \A t \in Tokens : Carries(p, t) <=> t \in set
  PROVE  FewPlaces' /\ OneOwner'
  <1> SUFFICES ASSUME NEW t \in Tokens PROVE WellPlaced(Owned(t)', UnderWay(t)', t \in leaked')
    BY WellPlacedAs
  <1>1. WellPlaced(Owned(t), UnderWay(t), t \in leaked)
    BY WellPlacedAs
  <1>2. CASE t \notin set
    <2>1. Owned(t)' = Owned(t)
      BY <1>2, OwnedStays, OwnedAs DEF MoveOut
    <2>2. UnderWay(t)' = UnderWay(t)
      BY <1>2, UnderWayStarts
    <2> QED BY <1>1, <2>1, <2>2
  <1>3. CASE t \in set
    <2>1. Owned(t)' = Owned(t) \ {<<c, k>>} /\ <<c, k>> \in Owned(t)
      BY <1>3, OwnedLoses, OwnedAs DEF MoveOut
    <2>2. UnderWay(t)' = UnderWay(t) \cup {<<e, p>>} /\ <<e, p>> \notin UnderWay(t)
      BY <1>3, UnderWayStarts
    <2>3. WellPlaced(Owned(t) \ {<<c, k>>}, UnderWay(t) \cup {<<e, p>>}, t \in leaked)
      BY <1>1, <2>1, <2>2, PlacedOut
    <2> QED BY <2>1, <2>2, <2>3
  <1> QED BY <1>2, <1>3

\* A transfer ends: what the packet carried, accounts get.
LEMMA LandStep ==
  ASSUME FewPlaces, OneOwner, leaked' = leaked,
         NEW c \in Chains, NEW k \in Classes, NEW set \in SUBSET Tokens, MoveIn(c, k, set),
         NEW e \in End, NEW p \in Packets(e), OthersStand(e, p), SamePackets,
         Waiting(e, p), ~ Waiting(e, p)',
         \A t \in Tokens : Carries(p, t) <=> t \in set
  PROVE  FewPlaces' /\ OneOwner'
  <1> SUFFICES ASSUME NEW t \in Tokens PROVE WellPlaced(Owned(t)', UnderWay(t)', t \in leaked')
    BY WellPlacedAs
  <1>1. WellPlaced(Owned(t), UnderWay(t), t \in leaked)
    BY WellPlacedAs
  <1>2. CASE t \notin set
    <2>1. Owned(t)' = Owned(t)
      BY <1>2, OwnedStays, OwnedAs DEF MoveIn
    <2>2. UnderWay(t)' = UnderWay(t)
      BY <1>2, UnderWayEnds
    <2> QED BY <1>1, <2>1, <2>2
  <1>3. CASE t \in set
    <2>1. Owned(t)' = Owned(t) \cup {<<c, k>>} /\ <<c, k>> \notin Owned(t)
      BY <1>3, OwnedGains, OwnedAs DEF MoveIn
    <2>2. UnderWay(t)' = UnderWay(t) \ {<<e, p>>} /\ <<e, p>> \in UnderWay(t)
      BY <1>3, UnderWayEnds
    <2>3. WellPlaced(Owned(t) \cup {<<c, k>>}, UnderWay(t) \ {<<e, p>>}, t \in leaked)
      BY <1>1, <2>1, <2>2, PlacedIn
    <2> QED BY <2>1, <2>2, <2>3
  <1> QED BY <1>2, <1>3

\* A receive fails: what it handed out is leaked, the packet stands.
LEMMA LeakStep ==
  ASSUME FewPlaces, OneOwner,
         NEW c \in Chains, NEW k \in Classes, NEW set \in SUBSET Tokens, MoveIn(c, k, set),
         leaked' = leaked \cup set,
         NEW e \in End, NEW p \in Packets(e), OthersStand(e, p), SamePackets,
         Waiting(e, p)' <=> Waiting(e, p)
  PROVE  FewPlaces' /\ OneOwner'
  <1> SUFFICES ASSUME NEW t \in Tokens PROVE WellPlaced(Owned(t)', UnderWay(t)', t \in leaked')
    BY WellPlacedAs
  <1>1. WellPlaced(Owned(t), UnderWay(t), t \in leaked)
    BY WellPlacedAs
  <1>2. UnderWay(t)' = UnderWay(t)
    BY UnderWayEnds
  <1>3. CASE t \notin set
    <2>1. Owned(t)' = Owned(t)
      BY <1>3, OwnedStays, OwnedAs DEF MoveIn
    <2> QED BY <1>1, <1>2, <1>3, <2>1
  <1>4. CASE t \in set
    <2>1. Owned(t)' = Owned(t) \cup {<<c, k>>} /\ <<c, k>> \notin Owned(t)
      BY <1>4, OwnedGains, OwnedAs DEF MoveIn
    <2>2. Cardinality(Owned(t)) + Cardinality(UnderWay(t)) >= 1
      BY <1>1 DEF WellPlaced
    <2> QED BY <1>1, <1>2, <1>4, <2>1, <2>2, PlaceJoins DEF WellPlaced
  <1> QED BY <1>3, <1>4

----------------------------------------------------------------------------
\* The classes that a transfer goes through.

LEMMA Retraced ==
  ASSUME NEW T, NEW U, NEW B, NEW d \in [trace : T, base : B], NEW u \in U
  PROVE  [d EXCEPT !.trace = u] = [trace |-> u, base |-> d.base]
  OBVIOUS

LEMMA RetracedClass ==
  ASSUME NEW k \in Classes, NEW u \in Seq(Hops), Len(u) <= MaxHops
  PROVE  /\ [k EXCEPT !.trace = u] = [trace |-> u, base |-> BaseClass]
         /\ [k EXCEPT !.trace = u] \in Classes
  <1>1. [k EXCEPT !.trace = u] = [trace |-> u, base |-> k.base]
    BY Retraced DEF Classes
  <1>2. k.base = BaseClass /\ [trace |-> u, base |-> BaseClass] \in Classes
    BY ClassFacts, ClassMade
  <1> QED BY <1>1, <1>2

LEMMA RemovePrefix ==
  ASSUME NEW e \in End, NEW k \in Classes, class_receiver_is_source(e, k)
  PROVE  k # Native /\ class_remove_prefix(k, e) \in Classes
  <1> DEFINE h == TracePrefix(e.port, e.chan)
             u == Front(k.trace)
  <1>1. k.trace # <<>> /\ starts_with(k.trace, h)
    BY DEF class_receiver_is_source, is_receiver_chain_source, starts_with
  <1>2. k.trace \in Seq(Hops) /\ Len(k.trace) \in Nat /\ Len(k.trace) <= MaxHops
    BY ClassFacts
  <1>3. u \in Seq(Hops) /\ Len(u) <= MaxHops
    <2>1. Len(k.trace) # 0
      BY <1>1, <1>2
    <2>2. u \in Seq(Hops) /\ Len(u) = Len(k.trace) - 1
      BY <1>2, <2>1 DEF Front
    <2> HIDE DEF u
    <2> QED BY <1>2, <2>2, BoundsAssumption
  <1>4. class_remove_prefix(k, e) = [k EXCEPT !.trace = u]
    BY <1>1, Zenon DEF class_remove_prefix, remove_trace_prefix, remove_prefix
  <1> HIDE DEF u
  <1>5. [k EXCEPT !.trace = u] \in Classes
    BY <1>3, RetracedClass
  <1> QED BY <1>1, <1>4, <1>5, NativeFacts

LEMMA AddPrefix ==
  ASSUME NEW e \in End, NEW k \in Classes, Len(k.trace) < MaxHops
  PROVE  class_add_prefix(k, e) \in Classes /\ class_add_prefix(k, e) # Native
  <1> DEFINE u == Append(k.trace, HopOf(e))
  <1>1. k.trace \in Seq(Hops) /\ Len(k.trace) \in Nat /\ HopOf(e) \in Hops
    BY ClassFacts, EndFacts
  <1>2. u \in Seq(Hops) /\ Len(u) = Len(k.trace) + 1
    BY <1>1
  <1>3. class_add_prefix(k, e) = [k EXCEPT !.trace = u]
    BY Zenon DEF class_add_prefix, add_trace_prefix, add_prefix, HopOf, TracePrefix
  <1> HIDE DEF u
  <1>4. Len(u) <= MaxHops /\ u # <<>>
    BY <1>1, <1>2, BoundsAssumption
  <1>5. /\ [k EXCEPT !.trace = u] = [trace |-> u, base |-> BaseClass]
        /\ [k EXCEPT !.trace = u] \in Classes
    BY <1>2, <1>4, RetracedClass
  <1>6. [k EXCEPT !.trace = u].trace = u
    BY <1>5
  <1> QED BY <1>3, <1>4, <1>5, <1>6, NativeFacts

\* The class that e mints or gives for a class that its peer sent.
LandsAs(e, k) ==
  IF class_receiver_is_source(Peer(e), k) THEN class_remove_prefix(k, Peer(e))
  ELSE class_add_prefix(k, e)

LEMMA LandsFacts ==
  ASSUME NEW e \in End, NEW k, Sendable(Peer(e), k)
  PROVE  /\ LandsAs(e, k) \in Classes
         /\ ~ class_receiver_is_source(Peer(e), k) => LandsAs(e, k) # Native
  <1>1. Peer(e) \in End /\ k \in Classes
    BY EndFacts DEF Sendable
  <1>2. CASE class_receiver_is_source(Peer(e), k)
    BY <1>1, <1>2, RemovePrefix DEF LandsAs
  <1>3. CASE ~ class_receiver_is_source(Peer(e), k)
    <2>1. Len(k.trace) < MaxHops
      BY <1>3 DEF Sendable, class_sender_is_source
    <2> QED BY <1>1, <1>3, <2>1, AddPrefix DEF LandsAs
  <1> QED BY <1>2, <1>3

\* The class that a packet names is read as it was sent.
LEMMA ClassOfPacket ==
  ASSUME WellMade, NEW e \in End, NEW p \in Packets(e)
  PROVE  \E k \in Classes : ClassFromStr(p.data.class) = {k} /\ Sendable(e, k)
  <1>1. PICK k \in Classes : p.data.class = ClassToText(k) /\ Sendable(e, k)
    BY DEF WellMade
  <1>2. ClassFromStr(ClassToText(k)) = {k}
    BY ClassReadBack
  <1> QED BY <1>1, <1>2

----------------------------------------------------------------------------
\* The steps.

\* Packet data for the tokens of set, with what the native tokens of ns have.
Fits(data, k, set, ns) ==
  /\ data \in Data /\ data.class = ClassToText(k)
  /\ \A t \in Tokens : (\E i \in DOMAIN data.tokens : data.tokens[i] = t) <=> t \in set
  /\ \A i, j \in DOMAIN data.tokens : data.tokens[i] = data.tokens[j] => i = j
  /\ \A i \in DOMAIN data.tokens :
       /\ At(data.uris, i) = Meta(ns[Home][Native][data.tokens[i]], data.tokens[i])
       /\ At(data.datas, i) = Meta(ns[Home][Native][data.tokens[i]], data.tokens[i])

\* PacketData of a message that passed validate_basic: the tokens of the
\* message, and for each what its native token has.
LEMMA PacketDataFacts ==
  ASSUME Types, NativeKept, VoucherMetadata,
         NEW c \in Chains, NEW k \in Classes, NEW set \in SUBSET Tokens,
         \A t \in set : nfts[c][k][t] # None,
         NEW sender \in Names, NEW receiver \in Receivers,
         validate_basic(PacketDataOf(nfts[c], k, set, sender, receiver))
  PROVE  Fits(PacketDataOf(nfts[c], k, set, sender, receiver), k, set, nfts)
  <1> DEFINE data == PacketDataOf(nfts[c], k, set, sender, receiver)
             F == {t \in set : nfts[c][k][t].uri # None /\ nfts[c][k][t].data # None}
             ids == TokenIds(set)
             full == TokenIds(F)
             n == Cardinality(set)
             m == Cardinality(F)
  <1>1. /\ \A t \in F : /\ nfts[c][k][t].uri = t /\ nfts[c][k][t].data = t
                        /\ Meta(nfts[Home][Native][t], t) = t
        /\ \A t \in set \ F : Meta(nfts[Home][Native][t], t) = None
    <2> SUFFICES ASSUME NEW t \in set
                 PROVE  IF t \in F THEN /\ nfts[c][k][t].uri = t /\ nfts[c][k][t].data = t
                                        /\ Meta(nfts[Home][Native][t], t) = t
                        ELSE Meta(nfts[Home][Native][t], t) = None
      OBVIOUS
    <2> QED BY HeldMetadata
  <1>2. /\ n \in Nat /\ ids \in [1..n -> set] /\ IsFiniteSet(set)
        /\ \A t \in set : \E i \in 1..n : ids[i] = t
        /\ \A i, j \in 1..n : ids[i] = ids[j] => i = j
    BY TokenIdsFacts
  <1>3. F \in SUBSET set /\ F \in SUBSET Tokens
    OBVIOUS
  <1> HIDE DEF F
  <1>4. m \in Nat /\ full \in [1..m -> F] /\ IsFiniteSet(F)
    BY <1>3, TokenIdsFacts
  <1>5. /\ data.class = ClassToText(k) /\ data.tokens = ids
        /\ data.sender = sender /\ data.receiver = receiver
        /\ data.uris = [i \in DOMAIN full |-> nfts[c][k][full[i]].uri]
        /\ data.datas = [i \in DOMAIN full |-> nfts[c][k][full[i]].data]
        /\ data = [class |-> data.class, tokens |-> data.tokens, uris |-> data.uris,
                   datas |-> data.datas, sender |-> data.sender, receiver |-> data.receiver]
    BY DEF PacketDataOf, F
  <1> HIDE DEF ids, full, n, m, data
  <1>6. data.uris = full /\ data.datas = full
    <2>1. \A i \in DOMAIN full : /\ nfts[c][k][full[i]].uri = full[i]
                                 /\ nfts[c][k][full[i]].data = full[i]
      BY <1>1, <1>4
    <2>2. full = [i \in DOMAIN full |-> full[i]]
      BY <1>4
    <2> QED BY <1>5, <2>1, <2>2
  <1>7. /\ ids \in Seq(Tokens) /\ Len(ids) = n
        /\ full \in Seq(Tokens \cup {None}) /\ Len(full) = m
    <2>1. ids \in [1..n -> Tokens] /\ full \in [1..m -> Tokens \cup {None}]
      BY <1>2, <1>3, <1>4
    <2> QED BY <1>2, <1>4, <2>1
  <1>8. data \in Data
    BY <1>5, <1>6, <1>7 DEF Data
  <1>9. m = 0 \/ m = n
    <2>1. Len(data.uris) \in {0, Len(data.tokens)}
      BY DEF validate_basic, data
    <2> QED BY <1>5, <1>6, <1>7, <2>1
  <1>10. F = {} \/ F = set
    <2>1. CASE m = 0
      BY <1>4, <2>1, FS_EmptySet DEF m
    <2>2. CASE m = n
      BY <1>2, <1>3, <2>2, FS_Subset DEF m, n
    <2> QED BY <1>9, <2>1, <2>2
  <1>11. ASSUME NEW i \in 1..n
         PROVE  At(full, i) = Meta(nfts[Home][Native][ids[i]], ids[i])
    <2>1. CASE F = {}
      <3>1. DOMAIN full = {}
        BY <1>4, <2>1
      <3> QED BY <1>1, <1>2, <2>1, <3>1 DEF At
    <2>2. CASE F = set
      <3>1. full = ids
        BY <2>2 DEF full, ids
      <3>2. At(full, i) = ids[i] /\ ids[i] \in F
        BY <1>2, <2>2, <3>1 DEF At
      <3> QED BY <1>1, <3>2
    <2> QED BY <1>10, <2>1, <2>2
  <1>12. DOMAIN data.tokens = 1..n
    BY <1>2, <1>5
  <1>13. \A t \in Tokens : (\E i \in DOMAIN data.tokens : data.tokens[i] = t) <=> t \in set
    BY <1>2, <1>5, <1>12
  <1>14. \A i, j \in DOMAIN data.tokens : data.tokens[i] = data.tokens[j] => i = j
    BY <1>2, <1>5, <1>12
  <1>15. \A i \in DOMAIN data.tokens :
            /\ At(data.uris, i) = Meta(nfts[Home][Native][data.tokens[i]], data.tokens[i])
            /\ At(data.datas, i) = Meta(nfts[Home][Native][data.tokens[i]], data.tokens[i])
    BY <1>5, <1>6, <1>11, <1>12
  <1>16. Fits(data, k, set, nfts)
    BY <1>5, <1>8, <1>13, <1>14, <1>15 DEF Fits
  <1> QED BY <1>16 DEF data

\* A packet as PacketMetadata has it.
HasMetas(ns, p) ==
  \A i \in DOMAIN p.data.tokens :
    /\ At(p.data.uris, i) = Meta(ns[Home][Native][p.data.tokens[i]], p.data.tokens[i])
    /\ At(p.data.datas, i) = Meta(ns[Home][Native][p.data.tokens[i]], p.data.tokens[i])

LEMMA PacketMetadataAs ==
  /\ PacketMetadata <=> \A e \in End : \A p \in Packets(e) : HasMetas(nfts, p)
  /\ PacketMetadata' <=> \A e \in End : \A p \in Packets(e)' : HasMetas(nfts', p)
  <1>1. PacketMetadata <=> \A e \in End : \A p \in Packets(e) : HasMetas(nfts, p)
    BY DEF PacketMetadata, HasMetas
  <1>2. PacketMetadata' <=> \A e \in End : \A p \in Packets(e)' : HasMetas(nfts', p)
    BY DEF PacketMetadata, HasMetas
  <1> QED BY <1>1, <1>2

LEMMA TokensOfPacket ==
  ASSUME NEW p \in Packet
  PROVE  /\ p.data.tokens \in Seq(Tokens) /\ p.data.sender \in Names
         /\ Channel!Elements(p.data.tokens) \in SUBSET Tokens
         /\ \A t : Carries(p, t) <=> t \in Channel!Elements(p.data.tokens)
  <1>1. p.data \in Data
    BY DEF Packet
  <1>2. p.data.tokens \in Seq(Tokens) /\ p.data.sender \in Names
    BY <1>1 DEF Data
  <1>3. \A i \in DOMAIN p.data.tokens : p.data.tokens[i] \in Tokens
    BY <1>2
  <1> QED BY <1>2, <1>3 DEF Channel!Elements, Carries

LEMMA HasMetasStays ==
  ASSUME NEW p \in Packet, NEW ns, NEW ns1, HasMetas(ns, p),
         \A t \in Tokens : Meta(ns1[Home][Native][t], t) = Meta(ns[Home][Native][t], t)
  PROVE  HasMetas(ns1, p)
  <1>1. \A i \in DOMAIN p.data.tokens : p.data.tokens[i] \in Tokens
    BY TokensOfPacket DEF Channel!Elements
  <1> QED BY <1>1 DEF HasMetas

\* The metadata at the place of a token that a packet carries.
LEMMA PlaceFacts ==
  ASSUME NEW p \in Packet, NEW ns, HasMetas(ns, p), NEW t, Carries(p, t)
  PROVE  /\ At(p.data.uris, PlaceOf(p.data, t)) = Meta(ns[Home][Native][t], t)
         /\ At(p.data.datas, PlaceOf(p.data, t)) = Meta(ns[Home][Native][t], t)
  <1>1. PlaceOf(p.data, t) \in DOMAIN p.data.tokens /\ p.data.tokens[PlaceOf(p.data, t)] = t
    BY DEF Carries, PlaceOf
  <1> QED BY <1>1 DEF HasMetas

\* Everything but Places follows when a step touches records and no packet.
LEMMA TouchStep ==
  ASSUME NftInv, NEW c \in Chains, NEW k \in Classes, NEW set \in SUBSET Tokens,
         Touched(nfts, nfts', c, k, set), SamePackets,
         leaked' \in SUBSET Tokens, BookTypes', Books', FewPlaces' /\ OneOwner'
  PROVE  NftInv'
  <1>1. /\ NativeKept'
        /\ \A t \in Tokens : Meta(nfts'[Home][Native][t], t) = Meta(nfts[Home][Native][t], t)
    BY NativeStays DEF NftInv
  <1>2. VoucherMetadata'
    BY MetadataKept DEF NftInv
  <1>3. Types'
    BY DEF Touched, Elsewhere, Types, BookTypes, Entry
  <1>4. WellMade'
    BY DEF NftInv, WellMade, SamePackets
  <1>5. PacketMetadata'
    <2> SUFFICES ASSUME NEW e \in End, NEW p \in Packets(e) PROVE HasMetas(nfts', p)
      BY PacketMetadataAs DEF SamePackets
    <2>1. p \in Packet
      BY PacketFacts DEF NftInv
    <2>2. HasMetas(nfts, p)
      BY PacketMetadataAs DEF NftInv
    <2> QED BY <1>1, <2>1, <2>2, HasMetasStays
  <1> QED BY <1>1, <1>2, <1>3, <1>4, <1>5 DEF NftInv

\* send_nft_transfer: escrow or burn, and one packet more.
LEMMA SendKeeps ==
  ASSUME NftInv, NEW e \in End, Send(e)
  PROVE  NftInv'
  <1>0. /\ Types /\ Books /\ WellMade /\ FewPlaces /\ OneOwner
        /\ NativeKept /\ PacketMetadata /\ VoucherMetadata
    BY DEF NftInv
  <1>1. PICK sender \in Names, receiver \in Receivers, k \in Classes, set \in SUBSET Tokens :
          /\ Cardinality(SentSoFar) < MaxSends
          /\ class_sender_is_source(e, k) => Len(k.trace) < MaxHops
          /\ SendNftTransfer(e, sender, receiver, k, set)
    BY DEF Send
  <1> DEFINE c == e.chain
             data == PacketDataOf(nfts[c], k, set, sender, receiver)
             p == [seq |-> Len(sent[e]) + 1, data |-> data]
             source == class_sender_is_source(e, k)
             to == Account(c, sender)
  <1>2. /\ \A t \in set : nfts[c][k][t] # None /\ nfts[c][k][t].owner = to
        /\ validate_basic(data)
        /\ Becomes(nfts, nfts', c, IF source THEN give_nft(nfts[c], k, set, e)
                                   ELSE burn_nft(nfts[c], k, set))
        /\ leaked' = leaked
        /\ Channel!DSend(e, p)
    BY <1>1 DEF SendNftTransfer, Holds, Becomes
  <1> HIDE DEF c, data, to, source, p
  <1>3. c \in Chains /\ e \in Holders /\ to \in Holders /\ to \notin End
    BY EndFacts, AccountFacts DEF c, to
  <1>4. /\ data \in Data /\ data.class = ClassToText(k)
        /\ \A t \in Tokens : (\E i \in DOMAIN data.tokens : data.tokens[i] = t) <=> t \in set
        /\ \A i, j \in DOMAIN data.tokens : data.tokens[i] = data.tokens[j] => i = j
        /\ \A i \in DOMAIN data.tokens :
             /\ At(data.uris, i) = Meta(nfts[Home][Native][data.tokens[i]], data.tokens[i])
             /\ At(data.datas, i) = Meta(nfts[Home][Native][data.tokens[i]], data.tokens[i])
    <2>1. \A t \in set : nfts[c][k][t] # None
      BY <1>2
    <2>2. validate_basic(PacketDataOf(nfts[c], k, set, sender, receiver))
      BY <1>2 DEF data
    <2>3. Fits(data, k, set, nfts)
      BY <1>0, <1>3, <2>1, <2>2, PacketDataFacts DEF data
    <2> QED BY <2>3 DEF Fits
  <1>5. p \in Packet /\ p.data = data
    <2>1. Len(sent[e]) + 1 \in Nat
      BY DEF NftInv, Types
    <2> QED BY <1>4, <2>1 DEF p, Packet
  <1>6. BookTypes' /\ Books' /\ Ships(e, p)
    BY <1>0, <1>1, <1>2, <1>5, SendStep
  <1>7. nfts \in [Chains -> Tables]
    BY DEF NftInv, Types
  <1>8. MoveOut(c, k, set) /\ Touched(nfts, nfts', c, k, set)
    <2>1. CASE source
      <3>1. Becomes(nfts, nfts', c, give_nft(nfts[c], k, set, e))
        BY <1>2, <2>1
      <3>2. /\ Elsewhere(nfts, nfts', c, k, set)
            /\ \A t \in set : /\ nfts'[c][k][t] # None /\ nfts'[c][k][t].owner = e
                              /\ nfts'[c][k][t].uri = nfts[c][k][t].uri
                              /\ nfts'[c][k][t].data = nfts[c][k][t].data
        <4>1. \A t \in set : nfts[c][k][t] # None
          BY <1>2
        <4> QED BY <1>3, <1>7, <3>1, <4>1, GiveFacts
      <3> QED BY <1>2, <1>3, <3>2 DEF MoveOut, Touched, IsOwned
    <2>2. CASE ~ source
      <3>1. Becomes(nfts, nfts', c, burn_nft(nfts[c], k, set))
        BY <1>2, <2>2
      <3>2. /\ Elsewhere(nfts, nfts', c, k, set)
            /\ \A t \in set : nfts'[c][k][t] = None
        BY <1>3, <1>7, <3>1, BurnFacts
      <3>3. k # Native
        BY <2>2, RemovePrefix DEF source, class_sender_is_source
      <3> QED BY <1>2, <1>3, <3>2, <3>3 DEF MoveOut, Touched, IsOwned
    <2> QED BY <2>1, <2>2
  <1>9. \A t \in Tokens : Carries(p, t) <=> t \in set
    BY <1>4, <1>5 DEF Carries
  <1>10. FewPlaces' /\ OneOwner'
    BY <1>0, <1>2, <1>3, <1>6, <1>8, <1>9, ShipStep
  <1>11. /\ NativeKept'
         /\ \A t \in Tokens : Meta(nfts'[Home][Native][t], t) = Meta(nfts[Home][Native][t], t)
    BY <1>0, <1>3, <1>8, NativeStays
  <1>12. VoucherMetadata'
    BY <1>0, <1>3, <1>8, MetadataKept
  <1>13. Types'
    BY <1>2, <1>6, <1>8 DEF Touched, Elsewhere, NftInv, Types, BookTypes, Entry
  <1>14. WellMade'
    <2> SUFFICES ASSUME NEW f \in End, NEW q \in Packets(f)'
                 PROVE  /\ \A i, j \in DOMAIN q.data.tokens :
                             q.data.tokens[i] = q.data.tokens[j] => i = j
                        /\ \E j \in Classes : q.data.class = ClassToText(j) /\ Sendable(f, j)
      BY DEF WellMade
    <2>1. CASE q \in Packets(f)
      BY <2>1 DEF NftInv, WellMade
    <2>2. CASE f = e /\ q = p
      BY <1>1, <1>4, <1>5, <2>2 DEF Sendable
    <2> QED BY <1>6, <2>1, <2>2 DEF Ships
  <1>15. PacketMetadata'
    <2> SUFFICES ASSUME NEW f \in End, NEW q \in Packets(f)' PROVE HasMetas(nfts', q)
      BY PacketMetadataAs
    <2>1. q \in Packet /\ HasMetas(nfts, q)
      <3>1. CASE q \in Packets(f)
        <4>1. q \in Packet
          BY <3>1, PacketFacts DEF NftInv
        <4> QED BY <3>1, <4>1, PacketMetadataAs DEF NftInv
      <3>2. CASE q = p
        BY <1>4, <1>5, <3>2 DEF HasMetas
      <3> QED BY <1>6, <3>1, <3>2 DEF Ships
    <2> QED BY <1>11, <2>1, HasMetasStays
  <1> QED BY <1>6, <1>10, <1>11, <1>12, <1>13, <1>14, <1>15 DEF NftInv

\* A packet of the books is as the invariant has it.
LEMMA KnownPacket ==
  ASSUME NftInv, NEW e \in End, NEW p \in Packets(e)
  PROVE  /\ p \in Packet /\ HasMetas(nfts, p)
         /\ \E k \in Classes : ClassFromStr(p.data.class) = {k} /\ Sendable(e, k)
  <1>1. p \in Packet
    BY PacketFacts DEF NftInv
  <1>2. HasMetas(nfts, p)
    BY PacketMetadataAs DEF NftInv
  <1>3. \E k \in Classes : ClassFromStr(p.data.class) = {k} /\ Sendable(e, k)
    BY ClassOfPacket DEF NftInv
  <1> QED BY <1>1, <1>2, <1>3

\* Tokens come to an account of c, out of escrow or made anew.
LEMMA GivenIn ==
  ASSUME nfts \in [Chains -> Tables], NEW c \in Chains, NEW k \in Classes,
         NEW set \in SUBSET Tokens, NEW n, set # {} => n \in Names, NEW e \in End,
         \A t \in set : Holds(nfts[c], k, t, e),
         Becomes(nfts, nfts', c, give_nft(nfts[c], k, set, Account(c, n)))
  PROVE  MoveIn(c, k, set) /\ Touched(nfts, nfts', c, k, set)
  <1> DEFINE h == Account(c, n)
  <1>1. \A t \in set : nfts[c][k][t] # None /\ nfts[c][k][t].owner = e
    BY DEF Holds
  <1>2. set # {} => h \in Holders /\ h \notin End
    BY AccountFacts
  <1>3. Becomes(nfts, nfts', c, give_nft(nfts[c], k, set, h))
    OBVIOUS
  <1> HIDE DEF h
  <1>4. /\ Elsewhere(nfts, nfts', c, k, set)
        /\ \A t \in set : /\ nfts'[c][k][t] # None /\ nfts'[c][k][t].owner = h
                          /\ nfts'[c][k][t].uri = nfts[c][k][t].uri
                          /\ nfts'[c][k][t].data = nfts[c][k][t].data
    <2>1. \A t \in set : nfts[c][k][t] # None
      BY <1>1
    <2>2. set # {} => h \in Holders
      BY <1>2
    <2> QED BY <1>3, <2>1, <2>2, GiveFacts
  <1> QED BY <1>1, <1>2, <1>4 DEF MoveIn, Touched, IsOwned

LEMMA MintedIn ==
  ASSUME nfts \in [Chains -> Tables], NEW c \in Chains, NEW k \in Classes, k # Native,
         NEW set \in SUBSET Tokens, NEW n, set # {} => n \in Names,
         NEW p \in Packet, HasMetas(nfts, p), \A t \in set : Carries(p, t),
         \A t \in set : nfts[c][k][t] = None,
         Becomes(nfts, nfts', c, mint_nft(nfts[c], k, set, Account(c, n), p.data))
  PROVE  MoveIn(c, k, set) /\ Touched(nfts, nfts', c, k, set)
  <1> DEFINE h == Account(c, n)
             M == [t \in set |-> Meta(nfts[Home][Native][t], t)]
  <1>1. \A t \in set : /\ M[t] = Meta(nfts[Home][Native][t], t)
                       /\ M[t] \in Tokens \cup {None}
    BY DEF Meta
  <1>2. set # {} => h \in Holders /\ h \notin End
    BY AccountFacts
  <1>3. Becomes(nfts, nfts', c, mint_nft(nfts[c], k, set, h, p.data))
    OBVIOUS
  <1> HIDE DEF h, M
  <1>4. \A t \in set : /\ M[t] \in Tokens \cup {None}
                       /\ At(p.data.uris, PlaceOf(p.data, t)) = M[t]
                       /\ At(p.data.datas, PlaceOf(p.data, t)) = M[t]
    BY <1>1, PlaceFacts
  <1>5. /\ Elsewhere(nfts, nfts', c, k, set)
        /\ \A t \in set : /\ nfts'[c][k][t] # None /\ nfts'[c][k][t].owner = h
                          /\ nfts'[c][k][t].uri = M[t] /\ nfts'[c][k][t].data = M[t]
    <2>1. set # {} => h \in Holders
      BY <1>2
    <2> QED BY <1>3, <1>4, <2>1, MintFacts
  <1> QED BY <1>1, <1>2, <1>5 DEF MoveIn, Touched, IsOwned

\* refund_packet_nft: all that the packet carries comes back to the sender.
LEMMA RefundMoves ==
  ASSUME NftInv, NEW e \in End, NEW p \in Packets(e),
         NEW k \in Classes, ClassFromStr(p.data.class) = {k},
         refund_packet_nft(e, k, p.data)
  PROVE  /\ MoveIn(e.chain, k, Channel!Elements(p.data.tokens))
         /\ Touched(nfts, nfts', e.chain, k, Channel!Elements(p.data.tokens))
         /\ leaked' = leaked
  <1> DEFINE c == e.chain
             set == Channel!Elements(p.data.tokens)
             source == class_sender_is_source(e, k)
  <1>1. p \in Packet /\ HasMetas(nfts, p)
    BY KnownPacket
  <1>2. /\ p.data.sender \in Names /\ set \in SUBSET Tokens
        /\ \A t : Carries(p, t) <=> t \in set
    BY <1>1, TokensOfPacket
  <1>3. c \in Chains /\ nfts \in [Chains -> Tables]
    BY EndFacts DEF NftInv, Types
  <1>4. /\ source => \A t \in set : Holds(nfts[c], k, t, e)
        /\ ~ source => \A t \in set : nfts[c][k][t] = None
    BY DEF refund_packet_nft, Channel!Elements
  <1>5. /\ source => Becomes(nfts, nfts', c, give_nft(nfts[c], k, set, Account(c, p.data.sender)))
        /\ ~ source =>
             Becomes(nfts, nfts', c, mint_nft(nfts[c], k, set, Account(c, p.data.sender), p.data))
        /\ leaked' = leaked
    BY DEF refund_packet_nft, RefundedAll, Becomes
  <1> HIDE DEF c, set
  <1>6. CASE source
    BY <1>2, <1>3, <1>4, <1>5, <1>6, GivenIn DEF c, set
  <1>7. CASE ~ source
    <2>1. k # Native
      BY <1>7, RemovePrefix DEF class_sender_is_source
    <2> QED BY <1>1, <1>2, <1>3, <1>4, <1>5, <1>7, <2>1, MintedIn DEF c, set
  <1> QED BY <1>6, <1>7

\* A refund, with the packet settled.
LEMMA RefundKeeps ==
  ASSUME NftInv, NEW e \in End, NEW p \in Packets(e),
         NEW k \in Classes, ClassFromStr(p.data.class) = {k},
         refund_packet_nft(e, k, p.data),
         BookTypes', Books', SamePackets, OthersStand(e, p), Waiting(e, p), ~ Waiting(e, p)'
  PROVE  NftInv'
  <1> DEFINE set == Channel!Elements(p.data.tokens)
  <1>1. /\ MoveIn(e.chain, k, set) /\ Touched(nfts, nfts', e.chain, k, set)
        /\ leaked' = leaked
    BY RefundMoves
  <1>2. /\ set \in SUBSET Tokens
        /\ \A t \in Tokens : Carries(p, t) <=> t \in set
    BY KnownPacket, TokensOfPacket
  <1>3. e.chain \in Chains /\ leaked' \in SUBSET Tokens
    BY <1>1, EndFacts DEF NftInv, Types
  <1> HIDE DEF set
  <1>4. FewPlaces /\ OneOwner
    BY DEF NftInv
  <1>5. FewPlaces' /\ OneOwner'
    BY <1>1, <1>2, <1>3, <1>4, LandStep
  <1> QED BY <1>1, <1>2, <1>3, <1>5, TouchStep

\* on_acknowledgement_packet.
LEMMA AcknowledgeKeeps ==
  ASSUME NftInv, NEW e \in End, NEW p \in Packets(e), AcknowledgePacket(e, p)
  PROVE  NftInv'
  <1> DEFINE o == reply[Peer(e)][p.seq]
  <1>0. Types /\ Books
    BY DEF NftInv
  <1>1. PICK k \in Classes : ClassFromStr(p.data.class) = {k}
    BY KnownPacket
  <1>2. /\ IF o = "success" THEN UNCHANGED <<nfts, classes, leaked>>
           ELSE refund_packet_nft(e, k, p.data)
        /\ Channel!DAcknowledge(e, p)
    BY <1>1 DEF AcknowledgePacket
  <1>3. p \in Channel!Elements(received[Peer(e)]) /\ Channel!DSettle(e, p, o)
    BY <1>2 DEF Channel!DAcknowledge
  <1>4. o \in Outcomes
    <2>1. Peer(e) \in End /\ p.seq \in 1..MaxSends
      BY <1>0, EndFacts, PacketFacts
    <2> QED BY <2>1 DEF NftInv, Types
  <1>5. /\ BookTypes' /\ Books' /\ SamePackets /\ OthersStand(e, p)
        /\ Waiting(e, p) <=> o # "success"
        /\ ~ Waiting(e, p)'
    BY <1>0, <1>3, <1>4, SettleStep
  <1> HIDE DEF o
  <1>6. CASE o # "success"
    BY <1>1, <1>2, <1>5, <1>6, RefundKeeps
  <1>7. CASE o = "success"
    <2>1. nfts' = nfts /\ leaked' = leaked
      BY <1>2, <1>7
    <2>2. \A t \in Tokens : UnderWay(t)' = UnderWay(t)
      BY <1>5, <1>7, UnderWayEnds
    <2>3. \A t \in Tokens : Owned(t)' = Owned(t)
      BY <2>1, OwnedAs
    <2>4. FewPlaces' /\ OneOwner'
      BY <2>1, <2>2, <2>3, WellPlacedAs DEF NftInv
    <2>5. e.chain \in Chains /\ nfts \in [Chains -> Tables] /\ leaked \in SUBSET Tokens
      BY EndFacts DEF NftInv, Types
    <2>6. Touched(nfts, nfts', e.chain, k, {})
      BY <2>1, <2>5 DEF Touched, Elsewhere
    <2> QED BY <1>5, <2>1, <2>4, <2>5, <2>6, TouchStep
  <1> QED BY <1>6, <1>7

\* on_timeout_packet.
LEMMA TimeoutKeeps ==
  ASSUME NftInv, NEW e \in End, NEW p \in Packets(e), TimeoutPacket(e, p)
  PROVE  NftInv'
  <1>0. Types /\ Books
    BY DEF NftInv
  <1>1. PICK k \in Classes : ClassFromStr(p.data.class) = {k}
    BY KnownPacket
  <1>2. refund_packet_nft(e, k, p.data) /\ Channel!DTimeout(e, p)
    BY <1>1 DEF TimeoutPacket
  <1>3. p \notin Channel!Elements(received[Peer(e)]) /\ Channel!DSettle(e, p, "timeout")
    BY <1>2 DEF Channel!DTimeout
  <1>4. /\ BookTypes' /\ Books' /\ SamePackets /\ OthersStand(e, p)
        /\ Waiting(e, p) /\ ~ Waiting(e, p)'
    <2>1. "timeout" \in Outcomes /\ "timeout" # "success"
      BY DEF Outcomes
    <2> QED BY <1>0, <1>3, <2>1, SettleStep
  <1> QED BY <1>1, <1>2, <1>4, RefundKeeps

\* What on_recv_packet did when it ended: the tokens of set were accepted and
\* handed out, all of them or, when it failed, the first few.
Received(e, p, k, set, a) ==
  /\ \A t \in set : TokenAccepted(e, k, t) /\ Carries(p, t)
  /\ set # {} => p.data.receiver \in Names
  /\ Becomes(nfts, nfts', e.chain, RecvTokens(e, k, p.data, set, nfts[e.chain]))
  /\ IF a = "success"
     THEN set = Channel!Elements(p.data.tokens) /\ leaked' = leaked
     ELSE leaked' = leaked \cup set
  /\ Channel!DDeliver(e, p, a)

LEMMA RecvAs ==
  ASSUME NEW e \in End, NEW p \in Packet, NEW k, ClassFromStr(p.data.class) = {k},
         RecvPacket(e, p)
  PROVE  \E a \in {"success", "error", "unreadable"} : \E set : Received(e, p, k, set, a)
  <1> DEFINE data == p.data
             n == Len(data.tokens)
  <1>0. PICK class \in ClassFromStr(p.data.class),
             refuses \in SUBSET Tokens, enabled \in BOOLEAN,
             text \in {"error", "unreadable"}, done \in 0..Len(p.data.tokens) :
          process_recv_packet_execute(e, p, class, refuses, enabled, text, done)
    BY DEF RecvPacket
  <1> DEFINE start == enabled /\ data.receiver \in Names
             ok == start /\ done = n
             set == Given(data, done)
             a == IF ok THEN "success" ELSE text
  <1>1. /\ IF start THEN \A i \in 1..done : TokenAccepted(e, k, data.tokens[i]) ELSE done = 0
        /\ nfts' = [nfts EXCEPT ![e.chain] = RecvTokens(e, k, data, set, nfts[e.chain])]
        /\ leaked' = IF ok THEN leaked ELSE leaked \cup set
        /\ Channel!DDeliver(e, p, a)
    <2>1. class = k
      OBVIOUS
    <2> QED BY <1>0, <2>1 DEF process_recv_packet_execute
  <1>2. data.tokens \in Seq(Tokens) /\ n \in Nat /\ DOMAIN data.tokens = 1..n
    BY TokensOfPacket
  <1>3. \A i \in 1..done : i \in 1..n
    BY <1>2
  <1>4. a \in {"success", "error", "unreadable"} /\ (a = "success" <=> ok)
    OBVIOUS
  <1>5. \A t \in set : TokenAccepted(e, k, t) /\ Carries(p, t)
    <2> TAKE t \in set
    <2>1. PICK i \in 1..done : t = data.tokens[i]
      BY DEF Given
    <2>2. done # 0
      BY <2>1
    <2> QED BY <1>1, <1>2, <1>3, <2>1, <2>2 DEF Carries
  <1>6. set # {} => data.receiver \in Names
    BY <1>1 DEF Given
  <1>7. ok => set = Channel!Elements(data.tokens)
    BY <1>2 DEF Channel!Elements, Given
  <1>8. Becomes(nfts, nfts', e.chain, RecvTokens(e, k, data, set, nfts[e.chain]))
    BY <1>1 DEF Becomes
  <1>9. Channel!DDeliver(e, p, a) /\ leaked' = IF ok THEN leaked ELSE leaked \cup set
    BY <1>1
  <1> HIDE DEF set, a, ok
  <1>10. Received(e, p, k, set, a)
    BY <1>4, <1>5, <1>6, <1>7, <1>8, <1>9 DEF Received
  <1> QED BY <1>4, <1>10

LEMMA RecvKeeps ==
  ASSUME NftInv, NEW e \in End, NEW p \in Packets(Peer(e)), RecvPacket(e, p)
  PROVE  NftInv'
  <1> DEFINE c == e.chain
             src == Peer(e)
             all == Channel!Elements(p.data.tokens)
  <1>0. Types /\ Books /\ FewPlaces /\ OneOwner
    BY DEF NftInv
  <1>1. src \in End /\ c \in Chains /\ nfts \in [Chains -> Tables] /\ leaked \in SUBSET Tokens
    BY <1>0, EndFacts DEF Types
  <1>2. p \in Packet /\ HasMetas(nfts, p)
    BY <1>1, KnownPacket
  <1>3. PICK k \in Classes : ClassFromStr(p.data.class) = {k} /\ Sendable(src, k)
    BY <1>1, KnownPacket
  <1>4. PICK a \in {"success", "error", "unreadable"} : \E set : Received(e, p, k, set, a)
    BY <1>2, <1>3, RecvAs
  <1>5. PICK set : Received(e, p, k, set, a)
    BY <1>4
  <1> DEFINE j == LandsAs(e, k)
             from == class_receiver_is_source(src, k)
             to == p.data.receiver
  <1>6. j \in Classes /\ (~ from => j # Native)
    BY <1>3, LandsFacts
  <1>7. /\ all \in SUBSET Tokens /\ set \in SUBSET Tokens
        /\ \A t : Carries(p, t) <=> t \in all
    BY <1>2, <1>5, TokensOfPacket DEF Received
  <1>8. /\ from => \A t \in set : Holds(nfts[c], j, t, e)
        /\ ~ from => \A t \in set : nfts[c][j][t] = None
        /\ \A t \in set : Carries(p, t)
    BY <1>5 DEF Received, TokenAccepted, LandsAs
  <1>9. /\ from => Becomes(nfts, nfts', c, give_nft(nfts[c], j, set, Account(c, to)))
        /\ ~ from => Becomes(nfts, nfts', c, mint_nft(nfts[c], j, set, Account(c, to), p.data))
        /\ set # {} => to \in Names
    BY <1>5 DEF Received, RecvTokens, LandsAs
  <1> HIDE DEF j, from, c
  <1>10. MoveIn(c, j, set) /\ Touched(nfts, nfts', c, j, set)
    <2>1. CASE from
      BY <1>1, <1>6, <1>7, <1>8, <1>9, <2>1, GivenIn
    <2>2. CASE ~ from
      BY <1>1, <1>2, <1>6, <1>7, <1>8, <1>9, <2>2, MintedIn
    <2> QED BY <2>1, <2>2
  <1>11. /\ BookTypes' /\ Books' /\ SamePackets /\ OthersStand(src, p)
         /\ Waiting(src, p)
         /\ Waiting(src, p)' <=> a # "success"
    <2>1. Channel!DDeliver(e, p, a)
      BY <1>5 DEF Received
    <2> QED BY <1>0, <2>1, DeliverStep
  <1> HIDE DEF src, all
  <1>12. leaked' \in SUBSET Tokens
    BY <1>1, <1>5, <1>7 DEF Received
  <1>13. p \in Packets(src)
    BY DEF src
  <1>14. FewPlaces' /\ OneOwner'
    <2>1. CASE a = "success"
      <3>1. set = all /\ leaked' = leaked
        BY <1>5, <2>1 DEF Received, all
      <3>2. \A t \in Tokens : Carries(p, t) <=> t \in set
        BY <1>7, <3>1
      <3>3. ~ Waiting(src, p)'
        BY <1>11, <2>1
      <3> QED BY <1>0, <1>1, <1>6, <1>7, <1>10, <1>11, <1>13, <3>1, <3>2, <3>3, LandStep
    <2>2. CASE a # "success"
      <3>1. leaked' = leaked \cup set
        BY <1>5, <2>2 DEF Received
      <3>2. Waiting(src, p)' <=> Waiting(src, p)
        BY <1>11, <2>2
      <3> QED BY <1>0, <1>1, <1>6, <1>7, <1>10, <1>11, <1>13, <3>1, <3>2, LeakStep
    <2> QED BY <2>1, <2>2
  <1> QED BY <1>1, <1>6, <1>7, <1>10, <1>11, <1>12, <1>14, TouchStep

----------------------------------------------------------------------------
\* The theorems.

LEMMA InitHolds ==
  ASSUME Init
  PROVE  NftInv
  <1>1. PICK who \in Names : \E meta \in [Tokens -> Metadata] :
          nfts = [c \in Chains |-> [k \in Classes |-> [t \in Tokens |->
                    IF c # Home \/ k # Native THEN None
                    ELSE Nft(Account(Home, who), IF "uri" \in meta[t] THEN t ELSE None,
                                                IF "data" \in meta[t] THEN t ELSE None)]]]
    BY DEF Init
  <1>2. PICK meta \in [Tokens -> Metadata] :
          nfts = [c \in Chains |-> [k \in Classes |-> [t \in Tokens |->
                    IF c # Home \/ k # Native THEN None
                    ELSE Nft(Account(Home, who), IF "uri" \in meta[t] THEN t ELSE None,
                                                IF "data" \in meta[t] THEN t ELSE None)]]]
    BY <1>1
  <1> DEFINE U(t) == IF "uri" \in meta[t] THEN t ELSE None
             D(t) == IF "data" \in meta[t] THEN t ELSE None
             first(t) == Nft(Account(Home, who), U(t), D(t))
  <1>3. \A t \in Tokens : /\ first(t) \in Records /\ first(t) # None
                          /\ first(t).owner = Account(Home, who)
                          /\ first(t).uri = U(t) /\ first(t).data = D(t)
                          /\ U(t) \in {t, None} /\ D(t) \in {t, None}
    <2> TAKE t \in Tokens
    <2>1. U(t) \in Tokens \cup {None} /\ D(t) \in Tokens \cup {None}
      OBVIOUS
    <2>2. U(t) \in {t, None} /\ D(t) \in {t, None}
      OBVIOUS
    <2>3. PICK h \in Holders : h = Account(Home, who)
      BY AccountFacts, HomeAssumption
    <2>4. PICK u \in Tokens \cup {None}, d \in Tokens \cup {None} : u = U(t) /\ d = D(t)
      BY <2>1
    <2>5. first(t) = Nft(h, u, d)
      BY <2>3, <2>4
    <2>6. /\ Nft(h, u, d) \in Records /\ Nft(h, u, d) # None
          /\ Nft(h, u, d).owner = h /\ Nft(h, u, d).uri = u /\ Nft(h, u, d).data = d
      BY NftFacts
    <2> HIDE DEF U, D, first
    <2> QED BY <2>2, <2>3, <2>4, <2>5, <2>6
  <1> HIDE DEF U, D
  <1>4. \A c \in Chains, k \in Classes, t \in Tokens :
          nfts[c][k][t] = IF c # Home \/ k # Native THEN None ELSE first(t)
    BY <1>2 DEF U, D
  <1> HIDE DEF first
  <1>5. nfts \in [Chains -> Tables]
    <2>1. \A c \in Chains, k \in Classes, t \in Tokens : nfts[c][k][t] \in Records \cup {None}
      BY <1>3, <1>4
    <2>2. /\ DOMAIN nfts = Chains /\ nfts = [c \in Chains |-> nfts[c]]
          /\ \A c \in Chains : /\ nfts[c] = [k \in Classes |-> nfts[c][k]]
                               /\ \A k \in Classes : nfts[c][k] = [t \in Tokens |-> nfts[c][k][t]]
      BY <1>2
    <2>3. ASSUME NEW c \in Chains PROVE nfts[c] \in Tables
      <3>1. \A k \in Classes : nfts[c][k] \in [Tokens -> Records \cup {None}]
        BY <2>1, <2>2
      <3> QED BY <2>2, <3>1 DEF Tables
    <2> QED BY <2>2, <2>3
  <1>6. /\ leaked = {} /\ sent = [e \in End |-> <<>>] /\ received = [e \in End |-> <<>>]
        /\ settled = [e \in End |-> <<>>] /\ reply = [e \in End |-> [s \in 1..MaxSends |-> "none"]]
    BY DEF Init, Channel!DInit
  <1>7. \A e \in End : /\ DOMAIN sent[e] = {} /\ DOMAIN received[e] = {} /\ DOMAIN settled[e] = {}
                       /\ Packets(e) = {}
    BY <1>6 DEF Packets, Channel!Elements
  <1>8. Types
    <2>1. /\ <<>> \in Seq(Packet) /\ <<>> \in Seq([packet : Packet, outcome : Outcomes])
          /\ [s \in 1..MaxSends |-> "none"] \in [1..MaxSends -> Outcomes]
      BY DEF Outcomes
    <2> QED BY <1>5, <1>6, <2>1 DEF Types
  <1>9. Books
    <2>1. SentSoFar = {}
      BY <1>7 DEF SentSoFar
    <2> QED BY <1>7, <2>1, FS_EmptySet DEF Books
  <1>10. WellMade /\ PacketMetadata
    BY <1>7 DEF WellMade, PacketMetadata
  <1>11. NativeKept
    BY <1>3, <1>4, NativeFacts, HomeAssumption DEF NativeKept
  <1>12. VoucherMetadata
    BY <1>4, NativeFacts DEF VoucherMetadata
  <1>13. FewPlaces /\ OneOwner
    <2> SUFFICES ASSUME NEW t \in Tokens
                 PROVE  WellPlaced(Owned(t), UnderWay(t), t \in leaked)
      BY WellPlacedAs
    <2>1. UnderWay(t) = {}
      BY <1>7, UnderWayAs
    <2>2. Owned(t) = {<<Home, Native>>}
      <3>1. IsOwned(first(t)) /\ ~ IsOwned(None)
        BY <1>3, AccountFacts, HomeAssumption DEF IsOwned
      <3>2. \A x \in Chains \X Classes : IsOwned(nfts[x[1]][x[2]][t]) <=> x = <<Home, Native>>
        BY <1>4, <3>1
      <3>3. <<Home, Native>> \in Chains \X Classes
        BY NativeFacts, HomeAssumption
      <3>4. OwnedIn(nfts, t) = {<<Home, Native>>}
        BY <3>2, <3>3 DEF OwnedIn
      <3> QED BY <3>4, OwnedAs
    <2>3. IsFiniteSet(Owned(t)) /\ Cardinality(Owned(t)) = 1
      BY <2>2, FS_Singleton
    <2>4. IsFiniteSet(UnderWay(t)) /\ Cardinality(UnderWay(t)) = 0
      BY <2>1, FS_EmptySet
    <2> QED BY <1>6, <2>3, <2>4 DEF WellPlaced
  <1> QED BY <1>8, <1>9, <1>10, <1>11, <1>12, <1>13 DEF NftInv

LEMMA StutterHolds ==
  ASSUME NftInv, UNCHANGED vars
  PROVE  NftInv'
  <1>1. /\ nfts' = nfts /\ leaked' = leaked /\ sent' = sent /\ received' = received
        /\ settled' = settled /\ reply' = reply
    BY DEF vars
  <1>2. SamePackets /\ SentSoFar' = SentSoFar
    BY <1>1 DEF SamePackets, Packets, SentSoFar
  <1>3. Types' /\ Books' /\ WellMade'
    <2>1. Types'
      BY <1>1 DEF NftInv, Types
    <2>2. Books'
      <3>1. \A e \in End : Packets(e)' = Packets(e) /\ Packets(Peer(e))' = Packets(Peer(e))
        BY <1>2, EndFacts DEF SamePackets
      <3> QED BY <1>1, <1>2, <3>1 DEF NftInv, Books
    <2>3. WellMade'
      BY <1>2 DEF NftInv, WellMade, SamePackets
    <2> QED BY <2>1, <2>2, <2>3
  <1>4. FewPlaces' /\ OneOwner'
    <2>1. \A t \in Tokens : Owned(t)' = Owned(t) /\ UnderWay(t)' = UnderWay(t)
      BY <1>1 DEF Owned, UnderWay, Packets
    <2> QED BY <1>1, <2>1, WellPlacedAs DEF NftInv
  <1>5. NativeKept' /\ VoucherMetadata' /\ PacketMetadata'
    BY <1>1, <1>2 DEF NftInv, NativeKept, VoucherMetadata, PacketMetadata, SamePackets
  <1> QED BY <1>3, <1>4, <1>5 DEF NftInv

\* Every step of the ICS-721 callbacks keeps the invariant: a transfer takes
\* from accounts what its packet carries, and a receive or a refund gives it
\* back, whatever the host refuses.
THEOREM NftInvHolds == Spec => []NftInv
  <1>1. Init => NftInv
    BY InitHolds
  <1>2. NftInv /\ [Next]_vars => NftInv'
    <2> SUFFICES ASSUME NftInv, [Next]_vars PROVE NftInv'
      OBVIOUS
    <2>1. ASSUME NEW e \in End, Send(e) PROVE NftInv'
      BY <2>1, SendKeeps
    <2>2. ASSUME NEW e \in End, NEW p \in Packets(Peer(e)), RecvPacket(e, p) PROVE NftInv'
      BY <2>2, RecvKeeps
    <2>3. ASSUME NEW e \in End, NEW p \in Packets(e), AcknowledgePacket(e, p) PROVE NftInv'
      BY <2>3, AcknowledgeKeeps
    <2>4. ASSUME NEW e \in End, NEW p \in Packets(e), TimeoutPacket(e, p) PROVE NftInv'
      BY <2>4, TimeoutKeeps
    <2>5. CASE UNCHANGED vars
      BY <2>5, StutterHolds
    <2> QED BY <2>1, <2>2, <2>3, <2>4, <2>5 DEF Next
  <1> QED BY <1>1, <1>2, PTL DEF Spec

\* A token is with one account on one chain or under way in one packet; only
\* what a failed receive handed out may be in more places, and is never lost.
THEOREM OneOwnerHolds == Spec => []OneOwner
  <1>1. NftInv => OneOwner
    BY DEF NftInv
  <1> QED BY <1>1, NftInvHolds, PTL

\* A voucher has the URI and the data of the token it stands for if that had
\* both, and neither otherwise, after any number of hops, returns and refunds.
THEOREM VoucherMetadataHolds == Spec => []VoucherMetadata
  <1>1. NftInv => VoucherMetadata
    BY DEF NftInv
  <1> QED BY <1>1, NftInvHolds, PTL

============================================================================
