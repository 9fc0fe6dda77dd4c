------------------------ MODULE TokenTransferProofs ------------------------
(***************************************************************************)
(* Proofs about TokenTransfer: no account is ever overdrawn, coins are     *)
(* conserved, and transfers that were all refunded leave no trace, for     *)
(* every number of chains, channels, accounts, coins and hops.             *)
(*                                                                         *)
(* The argument has four parts.  Sums over finite sets: Total takes its    *)
(* elements in any order.  Texts: a denomination is read back as it was    *)
(* written, and two are never written alike.  Money: each way in which a   *)
(* callback moves coins keeps the balance between escrows, vouchers and    *)
(* what is under way.  Packets: each step changes the standing of one      *)
(* packet, by the amount that it carries.                                  *)
(***************************************************************************)
EXTENDS TokenTransfer, FiniteSetTheorems, SequenceTheorems, TLAPS

----------------------------------------------------------------------------
\* Sums.

\* A set of natural numbers that is not empty has a least element.
LEMMA LeastExists ==
  ASSUME NEW S \in SUBSET Nat, S # {}
  PROVE  \E x \in S : \A y \in S : x <= y
  <1> DEFINE R == {ss \in Nat \X Nat : ss[1] < ss[2]}
  <1>1. R = OpToRel(<, Nat)
    BY DEF OpToRel
  <1>2. IsWellFoundedOn(R, Nat)
    BY <1>1, NatLessThanWellFounded
  <1>3. PICK x \in S : \A y \in S : ~ (<<y, x>> \in R)
    <2> HIDE DEF R
    <2> QED BY <1>2, WFMin
  <1>4. ASSUME NEW y \in S PROVE x <= y
    <2>1. y < x => <<y, x>> \in R
      OBVIOUS
    <2>2. ~ (y < x)
      BY <1>3, <2>1
    <2> QED BY <2>2
  <1> QED BY <1>4

\* Of the finite sets in B one has no other member of B inside it.
LEMMA SmallestSet ==
  ASSUME NEW S, IsFiniteSet(S), NEW B \in SUBSET (SUBSET S), B # {}
  PROVE  \E s \in B : \A t \in B : t \subseteq s => t = s
  <1> DEFINE R == StrictSubsetOrdering(S)
  <1>1. IsWellFoundedOn(R, SUBSET S)
    BY FS_StrictSubsetOrderingWellFounded, FS_FiniteSubsetsOfFinite
  <1>2. PICK s \in B : \A t \in B : ~ (<<t, s>> \in R)
    <2> HIDE DEF R
    <2> QED BY <1>1, WFMin
  <1>3. ASSUME NEW t \in B, t \subseteq s, t # s PROVE FALSE
    BY <1>2, <1>3 DEF StrictSubsetOrdering
  <1> QED BY <1>3

----------------------------------------------------------------------------
First(s) == CHOOSE x \in s : TRUE

\* One level of the sum: what g gives for s when g has the smaller sets.
Level(w, g, s) == IF s = {} THEN 0 ELSE w[First(s)] + g[s \ {First(s)}]

\* g sums w over the sets in D.
Sums(w, g, D) == g = [s \in D |-> Level(w, g, s)]

LEMMA FirstIn ==
  ASSUME NEW s, s # {}
  PROVE  First(s) \in s
  BY DEF First

LEMMA TotalIsSum ==
  ASSUME NEW w, NEW S
  PROVE  Total(w, S) = (CHOOSE g : Sums(w, g, SUBSET S))[S]
  BY Zenon DEF Total, MapThenSumSet, MapThenFoldSet, Sums, Level, First

\* Sums over all subsets of a finite set exist.
LEMMA SumsExist ==
  ASSUME NEW S, IsFiniteSet(S), NEW w, \A x \in S : w[x] \in Int
  PROVE  \E g : Sums(w, g, SUBSET S)
  <1> DEFINE D(n) == {s \in SUBSET S : Cardinality(s) <= n}
             Bad == {n \in Nat : ~ \E g : Sums(w, g, D(n))}
  <1>1. \A s \in SUBSET S : IsFiniteSet(s) /\ Cardinality(s) \in Nat
    BY FS_Subset, FS_CardinalityType
  <1>2. \A s \in SUBSET S : s # {} =>
          /\ s \ {First(s)} \in SUBSET S
          /\ Cardinality(s \ {First(s)}) = Cardinality(s) - 1
    BY <1>1, FirstIn, FS_RemoveElement
  <1>3. SUFFICES Bad = {}
    <2>1. D(Cardinality(S)) = SUBSET S
      BY <1>1, FS_Subset, FS_CardinalityType
    <2>2. Cardinality(S) \in Nat
      BY <1>1
    <2> QED BY <2>1, <2>2
  <1>4. SUFFICES ASSUME Bad # {} PROVE FALSE
    OBVIOUS
  <1>5. PICK n \in Bad : \A m \in Bad : n <= m
    <2>1. Bad \in SUBSET Nat
      OBVIOUS
    <2> HIDE DEF Bad
    <2> QED BY <1>4, <2>1, LeastExists
  <1>6. n # 0
    <2> SUFFICES ASSUME n = 0 PROVE FALSE
      OBVIOUS
    <2>1. D(0) = {{}}
      BY <1>1, FS_EmptySet
    <2> DEFINE g == [s \in {{}} |-> 0]
    <2>2. Sums(w, g, {{}})
      BY DEF Sums, Level
    <2> QED BY <1>5, <2>1, <2>2
  <1>7. n - 1 \in Nat /\ n - 1 \notin Bad
    <2>1. n \in Nat
      OBVIOUS
    <2>2. n - 1 \in Nat /\ ~ (n <= n - 1)
      BY <1>6, <2>1
    <2> HIDE DEF Bad
    <2> QED BY <1>5, <2>2
  <1>8. PICK f : Sums(w, f, D(n - 1))
    BY <1>7
  <1> DEFINE g == [s \in D(n) |-> Level(w, f, s)]
  <1>9. \A s \in D(n) : g[s] = Level(w, g, s)
    <2> SUFFICES ASSUME NEW s \in D(n), s # {} PROVE g[s \ {First(s)}] = f[s \ {First(s)}]
      BY DEF Level
    <2> DEFINE t == s \ {First(s)}
    <2>1. t \in D(n - 1) /\ t \in D(n)
      BY <1>1, <1>2, <1>5
    <2>2. f[t] = Level(w, f, t)
      BY <1>8, <2>1, Zenon DEF Sums
    <2> QED BY <2>1, <2>2
  <1>10. Sums(w, g, D(n))
    BY <1>9 DEF Sums
  <1> QED BY <1>5, <1>10

\* The sums over the subsets of S and of a part T of it agree, and are integers.
LEMMA SumsUnique ==
  ASSUME NEW S, IsFiniteSet(S), NEW w, \A x \in S : w[x] \in Int,
         NEW T \in SUBSET S, NEW f, NEW g, Sums(w, f, SUBSET S), Sums(w, g, SUBSET T)
  PROVE  \A s \in SUBSET T : g[s] = f[s] /\ g[s] \in Int
  <1> DEFINE Bad == {s \in SUBSET T : ~ (g[s] = f[s] /\ g[s] \in Int)}
  <1>1. SUFFICES ASSUME Bad # {} PROVE FALSE
    OBVIOUS
  <1>2. PICK s \in Bad : \A t \in Bad : t \subseteq s => t = s
    <2>1. Bad \in SUBSET (SUBSET S)
      OBVIOUS
    <2> HIDE DEF Bad
    <2> QED BY <1>1, <2>1, SmallestSet
  <1>3. g[s] = Level(w, g, s) /\ f[s] = Level(w, f, s)
    BY Zenon DEF Sums
  <1>4. s # {}
    BY <1>3 DEF Level
  <1> DEFINE t == s \ {First(s)}
  <1>5. First(s) \in s /\ First(s) \in S
    BY <1>4, FirstIn
  <1>6. t \in SUBSET T /\ t \notin Bad
    <2>1. t \subseteq s /\ t # s /\ t \in SUBSET T
      BY <1>5
    <2> HIDE DEF Bad
    <2> QED BY <1>2, <2>1
  <1>7. g[t] = f[t] /\ g[t] \in Int
    BY <1>6
  <1>8. g[s] = w[First(s)] + g[t] /\ f[s] = w[First(s)] + f[t]
    BY <1>3, <1>4 DEF Level
  <1> QED BY <1>5, <1>7, <1>8

\* A total is an integer, and takes one element and then the others.
LEMMA TotalStep ==
  ASSUME NEW S, IsFiniteSet(S), NEW w, \A x \in S : w[x] \in Int
  PROVE  /\ Total(w, S) \in Int
         /\ S = {} => Total(w, S) = 0
         /\ S # {} => Total(w, S) = w[First(S)] + Total(w, S \ {First(S)})
  <1> DEFINE f == CHOOSE g : Sums(w, g, SUBSET S)
             T == S \ {First(S)}
             g == CHOOSE g : Sums(w, g, SUBSET T)
  <1>1. IsFiniteSet(T) /\ T \in SUBSET S
    BY FS_RemoveElement
  <1>2. Sums(w, f, SUBSET S)
    BY SumsExist
  <1>3. Sums(w, g, SUBSET T)
    BY <1>1, SumsExist
  <1>4. Total(w, S) = f[S] /\ Total(w, T) = g[T]
    BY TotalIsSum
  <1> HIDE DEF f, g
  <1>5. f[S] = Level(w, f, S)
    BY <1>2, Zenon DEF Sums
  <1>6. g[T] = f[T]
    <2>1. T \in SUBSET T
      OBVIOUS
    <2> HIDE DEF T
    <2> QED BY <1>1, <1>2, <1>3, <2>1, SumsUnique
  <1>7. f[S] \in Int
    BY <1>2, SumsUnique
  <1> QED BY <1>4, <1>5, <1>6, <1>7 DEF Level

\* The order of the elements does not matter: any one can be taken out.
LEMMA TotalRemove ==
  ASSUME NEW S, IsFiniteSet(S), NEW w, \A x \in S : w[x] \in Int, NEW x \in S
  PROVE  Total(w, S) = w[x] + Total(w, S \ {x})
  <1> DEFINE Bad == {s \in SUBSET S : ~ \A y \in s : Total(w, s) = w[y] + Total(w, s \ {y})}
  <1>1. SUFFICES ASSUME Bad # {} PROVE FALSE
    OBVIOUS
  <1>2. PICK s \in Bad : \A t \in Bad : t \subseteq s => t = s
    <2>1. Bad \in SUBSET (SUBSET S)
      OBVIOUS
    <2> HIDE DEF Bad
    <2> QED BY <1>1, <2>1, SmallestSet
  <1>3. PICK y \in s : ~ (Total(w, s) = w[y] + Total(w, s \ {y}))
    OBVIOUS
  <1>4. s # {} /\ First(s) \in s
    BY <1>3, FirstIn
  <1> DEFINE c == First(s)
  <1>5. \A t \in SUBSET s : IsFiniteSet(t) /\ \A z \in t : w[z] \in Int
    BY FS_Subset
  <1>6. Total(w, s) = w[c] + Total(w, s \ {c})
    BY <1>4, <1>5, TotalStep
  <1>7. y # c
    BY <1>3, <1>6
  <1>8. /\ Total(w, s \ {c}) = w[y] + Total(w, (s \ {c}) \ {y})
        /\ Total(w, s \ {y}) = w[c] + Total(w, (s \ {y}) \ {c})
    <2>1. s \ {c} \notin Bad /\ s \ {y} \notin Bad
      <3> HIDE DEF Bad
      <3> QED BY <1>2, <1>4
    <2> QED BY <1>4, <1>7, <2>1
  <1>9. (s \ {c}) \ {y} = (s \ {y}) \ {c}
    OBVIOUS
  <1>10. Total(w, (s \ {c}) \ {y}) \in Int
    BY <1>5, TotalStep
  <1>11. w[y] \in Int /\ w[c] \in Int
    BY <1>4, <1>5
  <1>12. Total(w, s \ {y}) = w[c] + Total(w, (s \ {c}) \ {y})
    BY <1>8, <1>9
  <1>13. \A a, b, k : a \in Int /\ b \in Int /\ k \in Int =>
           a + (b + k) = b + (a + k)
    OBVIOUS
  <1> HIDE DEF c, Bad
  <1> QED BY <1>3, <1>6, <1>8, <1>12, <1>10, <1>11, <1>13

\* Only the values on the set count.
LEMMA TotalSame ==
  ASSUME NEW S, IsFiniteSet(S), NEW w, \A x \in S : w[x] \in Int,
         NEW v, \A x \in S : v[x] = w[x]
  PROVE  Total(v, S) = Total(w, S)
  <1> DEFINE Bad == {s \in SUBSET S : Total(v, s) # Total(w, s)}
  <1>1. SUFFICES ASSUME Bad # {} PROVE FALSE
    OBVIOUS
  <1>2. PICK s \in Bad : \A t \in Bad : t \subseteq s => t = s
    <2>1. Bad \in SUBSET (SUBSET S)
      OBVIOUS
    <2> HIDE DEF Bad
    <2> QED BY <1>1, <2>1, SmallestSet
  <1>3. /\ IsFiniteSet(s)
        /\ \A x \in s : w[x] \in Int
        /\ \A x \in s : v[x] \in Int
    BY FS_Subset
  <1>4. s # {}
    BY <1>3, TotalStep
  <1> DEFINE c == First(s)
  <1>5. c \in s /\ v[c] = w[c]
    BY <1>4, FirstIn
  <1>6. /\ Total(w, s) = w[c] + Total(w, s \ {c})
        /\ Total(v, s) = v[c] + Total(v, s \ {c})
    BY <1>3, <1>5, TotalRemove
  <1>7. s \ {c} \notin Bad /\ s \ {c} \in SUBSET S
    <2>1. s \in SUBSET S
      OBVIOUS
    <2> HIDE DEF Bad
    <2> QED BY <1>2, <1>5, <2>1
  <1> QED BY <1>2, <1>5, <1>6, <1>7

\* A total of natural numbers is one, and no smaller than any of them.
LEMMA TotalNat ==
  ASSUME NEW S, IsFiniteSet(S), NEW w, \A x \in S : w[x] \in Nat
  PROVE  Total(w, S) \in Nat /\ \A x \in S : w[x] <= Total(w, S)
  <1> DEFINE Bad == {s \in SUBSET S : Total(w, s) \notin Nat}
  <1>1. \A s \in SUBSET S : IsFiniteSet(s) /\ \A x \in s : w[x] \in Int
    BY FS_Subset
  <1>2. Bad = {}
    <2> SUFFICES ASSUME Bad # {} PROVE FALSE
      OBVIOUS
    <2>1. PICK s \in Bad : \A t \in Bad : t \subseteq s => t = s
      <3>1. Bad \in SUBSET (SUBSET S)
        OBVIOUS
      <3> HIDE DEF Bad
      <3> QED BY <3>1, SmallestSet
    <2>2. s # {}
      <3>1. IsFiniteSet(s) /\ \A x \in s : w[x] \in Int
        BY <1>1
      <3>2. Total(w, s) \notin Nat
        OBVIOUS
      <3>3. s = {} => Total(w, s) = 0
        BY <3>1, TotalStep
      <3> QED BY <3>2, <3>3
    <2> DEFINE c == First(s)
    <2>3. c \in s
      BY <2>2, FirstIn
    <2>4. Total(w, s) = w[c] + Total(w, s \ {c})
      BY <1>1, <2>3, TotalRemove
    <2>5. s \ {c} \notin Bad /\ s \ {c} \in SUBSET S
      <3>1. s \in SUBSET S
        OBVIOUS
      <3>2. s \ {c} \subseteq s /\ s \ {c} # s
        BY <2>3
      <3> HIDE DEF Bad, c
      <3> QED BY <2>1, <3>1, <3>2
    <2> QED BY <2>3, <2>4, <2>5
  <1>3. ASSUME NEW x \in S PROVE w[x] <= Total(w, S)
    <2>1. Total(w, S) = w[x] + Total(w, S \ {x})
      BY <1>1, TotalRemove
    <2>2. S \ {x} \in SUBSET S /\ S \ {x} \notin Bad
      BY <1>2
    <2> QED BY <2>1, <2>2
  <1> QED BY <1>2, <1>3

\* v counts d more than w at x and the same elsewhere.
LEMMA TotalChange ==
  ASSUME NEW S, IsFiniteSet(S), NEW w, \A y \in S : w[y] \in Int,
         NEW v, NEW d \in Int, NEW x \in S,
         \A y \in S : v[y] = IF y = x THEN w[y] + d ELSE w[y]
  PROVE  Total(v, S) = Total(w, S) + d
  <1> DEFINE T == S \ {x}
  <1>1. IsFiniteSet(T) /\ \A y \in T : w[y] \in Int /\ v[y] = w[y]
    BY FS_RemoveElement
  <1>2. Total(v, T) = Total(w, T) /\ Total(w, T) \in Int
    BY <1>1, TotalSame, TotalStep
  <1>3. \A y \in S : v[y] \in Int
    OBVIOUS
  <1>4. Total(w, S) = w[x] + Total(w, T)
    BY TotalRemove
  <1>5. Total(v, S) = v[x] + Total(v, T)
    BY <1>3, TotalRemove
  <1> HIDE DEF T
  <1> QED BY <1>2, <1>4, <1>5

\* A total of nothing is nothing.
LEMMA TotalZero ==
  ASSUME NEW S, IsFiniteSet(S), NEW w, \A x \in S : w[x] = 0
  PROVE  Total(w, S) = 0
  <1> DEFINE Bad == {s \in SUBSET S : Total(w, s) # 0}
  <1>1. SUFFICES ASSUME Bad # {} PROVE FALSE
    OBVIOUS
  <1>2. PICK s \in Bad : \A t \in Bad : t \subseteq s => t = s
    <2>1. Bad \in SUBSET (SUBSET S)
      OBVIOUS
    <2> HIDE DEF Bad
    <2> QED BY <1>1, <2>1, SmallestSet
  <1>3. IsFiniteSet(s) /\ \A x \in s : w[x] = 0 /\ w[x] \in Int
    BY FS_Subset
  <1>4. s # {}
    BY <1>3, TotalStep
  <1> DEFINE c == First(s)
  <1>5. c \in s
    BY <1>4, FirstIn
  <1>6. Total(w, s) = w[c] + Total(w, s \ {c})
    BY <1>3, <1>5, TotalRemove
  <1>7. s \ {c} \notin Bad /\ s \ {c} \in SUBSET S
    <2>1. s \in SUBSET S
      OBVIOUS
    <2> HIDE DEF Bad
    <2> QED BY <1>2, <1>5, <2>1
  <1> QED BY <1>2, <1>3, <1>5, <1>6, <1>7

----------------------------------------------------------------------------
\* Texts.

LEMMA HopFacts ==
  ASSUME NEW h \in Hops
  PROVE  h = <<h[1], h[2]>> /\ h[1] \in PortIds /\ h[2] \in ChannelIds
  <1>1. PICK e \in End : h = <<e.port, e.chan>>
    BY DEF Hops, TracePrefix
  <1>2. e.port \in PortIds /\ e.chan \in ChannelIds
    BY EndAssumption
  <1> QED BY <1>1, <1>2

LEMMA DenomFacts ==
  ASSUME NEW d \in Denoms
  PROVE  /\ d.trace \in Seq(Hops) /\ Len(d.trace) <= MaxHops
         /\ d.base \in Bases
         /\ d = [trace |-> d.trace, base |-> d.base]
  <1>1. PICK n \in 0..MaxHops : d.trace \in [1..n -> Hops]
    BY DEF Denoms
  <1>2. n \in Nat /\ n <= MaxHops
    BY BoundsAssumption
  <1>3. d.trace \in Seq(Hops) /\ Len(d.trace) = n
    BY <1>1, <1>2
  <1>4. d.base \in Bases /\ d = [trace |-> d.trace, base |-> d.base]
    BY DEF Denoms
  <1> QED BY <1>2, <1>3, <1>4

LEMMA DenomMade ==
  ASSUME NEW t \in Seq(Hops), Len(t) <= MaxHops, NEW b \in Bases
  PROVE  [trace |-> t, base |-> b] \in Denoms
  <1>1. Len(t) \in 0..MaxHops /\ t \in [1..Len(t) -> Hops]
    BY BoundsAssumption
  <1> QED BY <1>1 DEF Denoms

\* The hop and the identifier in it that each part of a text is.
LEMMA Halves ==
  ASSUME NEW n \in Int, NEW i \in Int, 1 <= i, i <= 2 * n
  PROVE  n - ((i - 1) \div 2) \in 1..n /\ 1 + ((i - 1) % 2) \in {1, 2}
  <1>1. PICK k \in Int : k = i - 1
    OBVIOUS
  <1>2. k \div 2 \in Int /\ k % 2 \in 0..1 /\ k = 2 * (k \div 2) + (k % 2)
    OBVIOUS
  <1>3. 0 <= k \div 2 /\ k \div 2 < n
    BY <1>1, <1>2
  <1> QED BY <1>1, <1>2, <1>3

LEMMA Doubles ==
  ASSUME NEW k \in Nat
  PROVE  /\ (2 * k) \div 2 = k /\ (2 * k) % 2 = 0
         /\ (2 * k + 1) \div 2 = k /\ (2 * k + 1) % 2 = 1
  OBVIOUS

\* PrefixedDenom::from_str reads back what Display wrote.
LEMMA ReadBack ==
  ASSUME NEW d \in Denoms
  PROVE  DenomFromStr(DenomToText(d)) = {d}
  <1> DEFINE t == d.trace
             n == Len(t)
             u == TraceToText(t)
             b == d.base[1]
             text == DenomToText(d)
  <1>1. t \in Seq(Hops) /\ n \in Nat /\ d = [trace |-> t, base |-> <<b>>] /\ b # Blank
    BY DenomFacts, BasesAssumption
  <1>2. \A i \in 1..n : /\ t[i] = <<t[i][1], t[i][2]>>
                         /\ t[i][1] \in PortIds /\ t[i][2] \in ChannelIds
    BY <1>1, HopFacts
  <1>3. \A i \in 1..(2 * n) : n - ((i - 1) \div 2) \in 1..n /\ 1 + ((i - 1) % 2) \in {1, 2}
    <2> HIDE DEF n
    <2> QED BY <1>1, Halves
  <1> HIDE DEF t, n, b
  <1>4. u = [i \in 1..(2 * n) |-> t[n - ((i - 1) \div 2)][1 + ((i - 1) % 2)]]
    BY DEF TraceToText, n
  <1> DEFINE A == PortIds \cup ChannelIds
  <1>5. \A i \in 1..(2 * n) : u[i] \in A
    <2> TAKE i \in 1..(2 * n)
    <2> DEFINE j == n - ((i - 1) \div 2)
               k == 1 + ((i - 1) % 2)
    <2>1. j \in 1..n /\ k \in {1, 2}
      BY <1>3
    <2>2. u[i] = t[j][k]
      BY <1>4
    <2> HIDE DEF j, k
    <2> QED BY <1>2, <2>1, <2>2
  <1>6. u \in Seq(A) /\ Len(u) = 2 * n
    BY <1>1, <1>4, <1>5
  <1>7. text = Append(u, b)
    <2>1. text = u \o <<b>>
      <3>1. text = TraceToText(d.trace) \o d.base
        BY DEF DenomToText
      <3>2. d.trace = t /\ d.base = <<b>>
        BY <1>1
      <3> QED BY <3>1, <3>2
    <2> HIDE DEF u, text
    <2> QED BY <1>6, <2>1
  <1> HIDE DEF u, text
  <1>8. Front(text) = u /\ Last(text) = b
    BY <1>6, <1>7 DEF Front, Last
  <1>9. Len(u) \div 2 = n /\ Len(u) % 2 = 0
    BY <1>1, <1>6, Doubles
  <1>10. ASSUME NEW i \in 1..n
         PROVE  <<u[2 * (n - i) + 1], u[2 * (n - i) + 2]>> = t[i]
    <2>1. PICK k \in Nat : k = n - i
      BY <1>1
    <2>2. 2 * k + 1 \in 1..(2 * n) /\ 2 * k + 2 \in 1..(2 * n)
      BY <1>1, <2>1
    <2>3. (2 * k + 1) - 1 = 2 * k /\ (2 * k + 2) - 1 = 2 * k + 1
      OBVIOUS
    <2>4. u[2 * k + 1] = t[n - k][1 + 0] /\ u[2 * k + 2] = t[n - k][1 + 1]
      BY <1>4, <2>2, <2>3, Doubles
    <2>5. n - k = i
      BY <1>1, <2>1
    <2> QED BY <1>2, <2>1, <2>4, <2>5
  <1>11. TraceFromParts(u) = {t}
    <2>1. t = [i \in 1..n |-> t[i]]
      BY <1>1 DEF n
    <2>2. [i \in 1..n |-> <<u[2 * (n - i) + 1], u[2 * (n - i) + 2]>>] = t
      BY <1>10, <2>1
    <2> QED BY <1>2, <1>9, <1>10, <2>2 DEF TraceFromParts, TracePrefix
  <1>12. BaseDenomFromStr(<<b>>) = {<<b>>}
    BY <1>1 DEF BaseDenomFromStr
  <1> QED BY <1>1, <1>8, <1>11, <1>12 DEF DenomFromStr, text

\* No two denominations are written alike.
LEMMA TextsDiffer ==
  ASSUME NEW d \in Denoms, NEW c \in Denoms, DenomToText(d) = DenomToText(c)
  PROVE  d = c
  <1>1. {d} = {c}
    BY ReadBack
  <1> QED BY <1>1

----------------------------------------------------------------------------
\* Accounts.

\* The image of a finite set is finite.
LEMMA ImageFinite ==
  ASSUME NEW S, IsFiniteSet(S), NEW f
  PROVE  IsFiniteSet({f[x] : x \in S})
  <1> DEFINE T == {f[x] : x \in S}
             g == [x \in S |-> f[x]]
  <1>1. g \in Surjection(S, T)
    BY DEF Surjection
  <1> HIDE DEF g
  <1>2. IsFiniteSet(T)
    BY <1>1, FS_Surjection
  <1> QED BY <1>2

LEMMA EndFacts ==
  ASSUME NEW e \in End
  PROVE  /\ e = [chain |-> e.chain, port |-> e.port, chan |-> e.chan]
         /\ e.chain \in Chains /\ e \in Holders
         /\ <<e.port, e.chan>> \in Hops
         /\ Peer(e) \in End /\ Peer(Peer(e)) = e
  <1>1. e \in [chain : Chains, port : PortIds, chan : ChannelIds]
    BY EndAssumption
  <1>2. e = [chain |-> e.chain, port |-> e.port, chan |-> e.chan]
    BY <1>1
  <1> QED BY <1>1, <1>2, PeerAssumption DEF Holders, Hops, TracePrefix

\* An end is known by its chain and its hop.
LEMMA SameEnd ==
  ASSUME NEW e \in End, NEW f \in End, e.chain = f.chain,
         <<e.port, e.chan>> = <<f.port, f.chan>>
  PROVE  e = f
  BY EndFacts

LEMMA AccountFacts ==
  ASSUME NEW c \in Chains, NEW n \in Names
  PROVE  /\ Account(c, n) \in Holders /\ Account(c, n) \notin End
         /\ Account(c, n).chain = c
  <1>1. Account(c, n) \in Holders /\ Account(c, n).chain = c
    BY DEF Holders, Account
  <1>2. ASSUME Account(c, n) \in End PROVE FALSE
    <2>1. DOMAIN Account(c, n) = {"chain", "name"}
      BY DEF Account
    <2>2. PICK e \in End : e = Account(c, n)
      BY <1>2
    <2>3. DOMAIN e = {"chain", "port", "chan"}
      BY EndAssumption
    <2>4. "port" \in DOMAIN e /\ "port" \notin DOMAIN e
      BY <2>1, <2>2, <2>3
    <2> QED BY <2>4
  <1> QED BY <1>1, <1>2

\* The accounts on one chain.
On(c) == {h \in Holders : h.chain = c}

LEMMA HoldersFinite ==
  ASSUME NEW c
  PROVE  IsFiniteSet(On(c))
  <1> DEFINE f == [e \in End |-> e.chain]
             g == [x \in Chains \X Names |-> Account(x[1], x[2])]
             As == {g[x] : x \in Chains \X Names}
  <1>1. IsFiniteSet(Chains)
    <2>1. Chains = {f[e] : e \in End}
      BY DEF Chains
    <2> HIDE DEF f
    <2> QED BY <2>1, ImageFinite, EndAssumption
  <1>2. IsFiniteSet(As)
    <2>1. IsFiniteSet(Chains \X Names)
      BY <1>1, FS_Product, EndAssumption
    <2> HIDE DEF g
    <2> QED BY <2>1, ImageFinite
  <1>3. Holders = As \cup End
    <2>1. ASSUME NEW h \in Holders, h \notin End PROVE h \in As
      <3>1. PICK a \in Chains, n \in Names : h = Account(a, n)
        BY <2>1 DEF Holders
      <3>2. <<a, n>> \in Chains \X Names /\ g[<<a, n>>] = h
        BY <3>1
      <3> HIDE DEF g
      <3> QED BY <3>2
    <2>2. ASSUME NEW h \in As PROVE h \in Holders
      BY <2>2 DEF Holders
    <2>3. End \subseteq Holders
      BY DEF Holders
    <2> HIDE DEF As
    <2> QED BY <2>1, <2>2, <2>3
  <1>4. IsFiniteSet(Holders)
    BY <1>2, <1>3, FS_Union, EndAssumption
  <1>5. On(c) \in SUBSET Holders
    BY DEF On
  <1> QED BY <1>4, <1>5, FS_Subset

----------------------------------------------------------------------------
\* Money.

\* Accounts with debts allowed, and k coins of d more for h.
Ledger == [Holders -> [Denoms -> Int]]
Move(b, h, d, k) == [b EXCEPT ![h][d] = @ + k]

LEMMA MoveFacts ==
  ASSUME NEW b \in Ledger, NEW h \in Holders, NEW d \in Denoms, NEW k \in Int
  PROVE  /\ Move(b, h, d, k) \in Ledger
         /\ \A g \in Holders, c \in Denoms :
              Move(b, h, d, k)[g][c] = IF g = h /\ c = d THEN b[g][c] + k ELSE b[g][c]
  BY DEF Ledger, Move

LEMMA MoveAt ==
  ASSUME NEW b \in Ledger, NEW h \in Holders, NEW d \in Denoms, NEW k \in Int,
         NEW g \in Holders, NEW c \in Denoms, NEW m, m = Move(b, h, d, k)
  PROVE  m[g][c] = IF g = h /\ c = d THEN b[g][c] + k ELSE b[g][c]
  BY MoveFacts

LEMMA SupplyInt ==
  ASSUME NEW b \in Ledger, NEW c, NEW d \in Denoms
  PROVE  Supply(b, c, d) \in Int
  <1> DEFINE w == [g \in Holders |-> b[g][d]]
  <1>1. IsFiniteSet(On(c)) /\ \A g \in On(c) : w[g] \in Int
    BY HoldersFinite DEF Ledger, On
  <1>2. Supply(b, c, d) = Total(w, On(c))
    BY DEF Supply, On
  <1> HIDE DEF w
  <1> QED BY <1>1, <1>2, TotalStep

LEMMA SupplyMove ==
  ASSUME NEW b \in Ledger, NEW h \in Holders, NEW d \in Denoms, NEW k \in Int,
         NEW c, NEW d2 \in Denoms
  PROVE  Supply(Move(b, h, d, k), c, d2) =
           IF d2 = d /\ h.chain = c THEN Supply(b, c, d2) + k ELSE Supply(b, c, d2)
  <1> DEFINE m == Move(b, h, d, k)
             w == [g \in Holders |-> b[g][d2]]
             v == [g \in Holders |-> m[g][d2]]
  <1>1. On(c) \subseteq Holders /\ IsFiniteSet(On(c)) /\ (h \in On(c) <=> h.chain = c)
    BY HoldersFinite DEF On
  <1>2. Supply(b, c, d2) = Total(w, On(c)) /\ Supply(m, c, d2) = Total(v, On(c))
    BY DEF Supply, On
  <1>3. \A g \in On(c) : w[g] \in Int
    BY <1>1 DEF Ledger
  <1>4. \A g \in On(c) : v[g] = IF g = h /\ d2 = d THEN w[g] + k ELSE w[g]
    <2> HIDE DEF m
    <2>1. \A g \in Holders : m[g][d2] = IF g = h /\ d2 = d THEN b[g][d2] + k ELSE b[g][d2]
      BY MoveFacts DEF m
    <2> QED BY <1>1, <2>1
  <1> HIDE DEF w, v, m
  <1>5. CASE d2 = d /\ h.chain = c
    BY <1>1, <1>2, <1>3, <1>4, <1>5, TotalChange DEF m
  <1>6. CASE ~ (d2 = d /\ h.chain = c)
    <2>1. \A g \in On(c) : v[g] = w[g]
      BY <1>1, <1>4, <1>6 DEF On
    <2>2. Total(v, On(c)) = Total(w, On(c))
      BY <1>1, <1>3, <2>1, TotalSame
    <2> QED BY <1>2, <1>6, <2>2 DEF m
  <1> QED BY <1>5, <1>6

\* From b to b1, the escrow of e got k more of d from accounts of its chain.
Escrowed(b, b1, e, d, k) ==
  /\ \A f \in End, c \in Denoms :
       b1[f][c] = IF f = e /\ c = d THEN b[f][c] + k ELSE b[f][c]
  /\ \A a \in Chains, c \in Denoms : Supply(b1, a, c) = Supply(b, a, c)

\* From b to b1, chain a got k more of d, and no escrow changed.
Made(b, b1, a, d, k) ==
  /\ \A f \in End, c \in Denoms : b1[f][c] = b[f][c]
  /\ \A i \in Chains, c \in Denoms :
       Supply(b1, i, c) = IF i = a /\ c = d THEN Supply(b, i, c) + k ELSE Supply(b, i, c)

\* Two accounts of one chain, one of them an escrow, exchange coins.
LEMMA TwoMoves ==
  ASSUME NEW b \in Ledger, NEW e \in End, NEW h \in Holders, h \notin End,
         h.chain = e.chain, NEW d \in Denoms, NEW k \in Int
  PROVE  /\ Escrowed(b, Move(Move(b, h, d, -k), e, d, k), e, d, k)
         /\ Escrowed(b, Move(Move(b, e, d, -k), h, d, k), e, d, -k)
         /\ Move(Move(b, h, d, -k), e, d, k) \in Ledger
         /\ Move(Move(b, e, d, -k), h, d, k) \in Ledger
  <1>0. -k \in Int
    OBVIOUS
  <1>1. e \in Holders /\ -k \in Int /\ \A f \in End : f \in Holders
    BY <1>0 DEF Holders
  <1>2. PICK m1 \in Ledger : m1 = Move(b, h, d, -k)
    BY <1>1, MoveFacts
  <1>3. PICK m2 \in Ledger : m2 = Move(b, e, d, -k)
    BY <1>1, MoveFacts
  <1>4. PICK n1 \in Ledger : n1 = Move(m1, e, d, k)
    BY <1>1, MoveFacts
  <1>5. PICK n2 \in Ledger : n2 = Move(m2, h, d, k)
    BY <1>1, MoveFacts
  <1>6. ASSUME NEW f \in End, NEW c \in Denoms
        PROVE  /\ n1[f][c] = IF f = e /\ c = d THEN b[f][c] + k ELSE b[f][c]
               /\ n2[f][c] = IF f = e /\ c = d THEN b[f][c] - k ELSE b[f][c]
    <2>1. f \in Holders /\ f # h /\ b[f][c] \in Int
      BY <1>1 DEF Ledger
    <2>2. m1[f][c] = b[f][c]
      BY <1>1, <1>2, <2>1, MoveAt
    <2>3. n1[f][c] = IF f = e /\ c = d THEN m1[f][c] + k ELSE m1[f][c]
      BY <1>1, <1>4, <2>1, MoveAt
    <2>4. m2[f][c] = IF f = e /\ c = d THEN b[f][c] + -k ELSE b[f][c]
      BY <1>1, <1>3, <2>1, MoveAt
    <2>5. n2[f][c] = m2[f][c]
      BY <1>1, <1>5, <2>1, MoveAt
    <2> QED BY <2>1, <2>2, <2>3, <2>4, <2>5
  <1>7. ASSUME NEW a \in Chains, NEW c \in Denoms
        PROVE  Supply(n1, a, c) = Supply(b, a, c) /\ Supply(n2, a, c) = Supply(b, a, c)
    <2> DEFINE hit == c = d /\ e.chain = a
    <2>1. Supply(b, a, c) \in Int
      BY SupplyInt
    <2>2. /\ Supply(m1, a, c) = IF hit THEN Supply(b, a, c) + -k ELSE Supply(b, a, c)
          /\ Supply(m2, a, c) = IF hit THEN Supply(b, a, c) + -k ELSE Supply(b, a, c)
      BY <1>1, <1>2, <1>3, SupplyMove
    <2>3. /\ Supply(n1, a, c) = IF hit THEN Supply(m1, a, c) + k ELSE Supply(m1, a, c)
          /\ Supply(n2, a, c) = IF hit THEN Supply(m2, a, c) + k ELSE Supply(m2, a, c)
      BY <1>1, <1>4, <1>5, SupplyMove
    <2> HIDE DEF hit
    <2> QED BY <2>1, <2>2, <2>3
  <1>8. Escrowed(b, n1, e, d, k)
    BY <1>6, <1>7 DEF Escrowed
  <1>9. Escrowed(b, n2, e, d, -k)
    <2>1. \A f \in End, c \in Denoms :
            n2[f][c] = IF f = e /\ c = d THEN b[f][c] + -k ELSE b[f][c]
      <3> TAKE f \in End, c \in Denoms
      <3>1. b[f][c] \in Int
        BY <1>1 DEF Ledger
      <3> QED BY <1>6, <3>1
    <2> QED BY <1>7, <2>1 DEF Escrowed
  <1> QED BY <1>2, <1>3, <1>4, <1>5, <1>8, <1>9

LEMMA OneMove ==
  ASSUME NEW b \in Ledger, NEW h \in Holders, h \notin End,
         NEW d \in Denoms, NEW k \in Int
  PROVE  Made(b, Move(b, h, d, k), h.chain, d, k)
  <1>1. ASSUME NEW f \in End, NEW c \in Denoms
        PROVE  Move(b, h, d, k)[f][c] = b[f][c]
    <2>1. f \in Holders /\ f # h
      BY EndFacts
    <2> QED BY <2>1, MoveFacts
  <1>2. ASSUME NEW a \in Chains, NEW c \in Denoms
        PROVE  Supply(Move(b, h, d, k), a, c) =
                 IF a = h.chain /\ c = d THEN Supply(b, a, c) + k ELSE Supply(b, a, c)
    BY SupplyMove
  <1> QED BY <1>1, <1>2 DEF Made

----------------------------------------------------------------------------
\* The balance of escrows, vouchers and coins under way.

HopOf(e) == <<e.port, e.chan>>
Flow == [End \X Denoms -> Int]
Shift(t, e, d, k) == [t EXCEPT ![<<e, d>>] = @ + k]

\* EscrowBacksVouchers for the accounts b and the amounts t under way.
Backed(b, t) ==
  \A e \in End, d \in Denoms :
    IsOrigin(e, d) =>
      b[e][d] = Supply(b, Peer(e).chain, Voucher(e, d))
                + t[<<e, d>>] + t[<<Peer(e), Voucher(e, d)>>]

LEMMA ShiftFacts ==
  ASSUME NEW t \in Flow, NEW e \in End, NEW d \in Denoms, NEW k \in Int
  PROVE  /\ Shift(t, e, d, k) \in Flow
         /\ \A f \in End, c \in Denoms :
              /\ t[<<f, c>>] \in Int
              /\ Shift(t, e, d, k)[<<f, c>>] =
                   IF f = e /\ c = d THEN t[<<f, c>>] + k ELSE t[<<f, c>>]
  BY DEF Flow, Shift

LEMMA ShiftAt ==
  ASSUME NEW t \in Flow, NEW e \in End, NEW d \in Denoms, NEW k \in Int,
         NEW f \in End, NEW c \in Denoms, NEW t1, t1 = Shift(t, e, d, k)
  PROVE  t1[<<f, c>>] = IF f = e /\ c = d THEN t[<<f, c>>] + k ELSE t[<<f, c>>]
  BY DEF Flow, Shift

\* Whether e is the source of d, by the last hop.
LEMMA SourceFacts ==
  ASSUME NEW e, NEW d
  PROVE  /\ is_receiver_chain_source(e.port, e.chan, d) <=>
              d.trace # <<>> /\ Last(d.trace) = HopOf(e)
         /\ is_sender_chain_source(e.port, e.chan, d) <=>
              (d.trace # <<>> => Last(d.trace) # HopOf(e))
         /\ IsOrigin(e, d) <=>
              Len(d.trace) < MaxHops /\ is_sender_chain_source(e.port, e.chan, d)
  BY DEF is_sender_chain_source, is_receiver_chain_source, starts_with,
         TracePrefix, HopOf, IsOrigin

\* What replacing the trace of a denomination leaves.
LEMMA Retraced ==
  ASSUME NEW T, NEW U, NEW B, NEW d \in [trace : T, base : B], NEW u \in U
  PROVE  [d EXCEPT !.trace = u] = [trace |-> u, base |-> d.base]
  OBVIOUS

\* A voucher is a denomination, with the hop of the peer last.
LEMMA VoucherFacts ==
  ASSUME NEW e \in End, NEW d \in Denoms, Len(d.trace) < MaxHops
  PROVE  /\ Voucher(e, d) \in Denoms
         /\ Voucher(e, d).trace # <<>>
         /\ Last(Voucher(e, d).trace) = HopOf(Peer(e))
         /\ Front(Voucher(e, d).trace) = d.trace
         /\ Voucher(e, d).base = d.base
  <1>1. /\ d.trace \in Seq(Hops) /\ d.base \in Bases
        /\ d = [trace |-> d.trace, base |-> d.base]
    BY DenomFacts
  <1>2. HopOf(Peer(e)) \in Hops
    BY EndFacts DEF HopOf
  <1> DEFINE u == Append(d.trace, HopOf(Peer(e)))
  <1>3. Voucher(e, d) = [trace |-> u, base |-> d.base]
    <2>1. Voucher(e, d) = [d EXCEPT !.trace = u]
      BY Zenon DEF Voucher, HopOf
    <2>2. u \in Seq(Hops)
      <3> HIDE DEF HopOf
      <3> QED BY <1>1, <1>2
    <2> HIDE DEF u
    <2> QED BY <2>1, <2>2, Retraced DEF Denoms
  <1>4. /\ u \in Seq(Hops) /\ Len(u) = Len(d.trace) + 1 /\ u # <<>>
        /\ Last(u) = HopOf(Peer(e)) /\ Front(u) = d.trace
    <2> HIDE DEF HopOf
    <2> QED BY <1>1, <1>2 DEF Last, Front
  <1>5. Len(u) <= MaxHops
    BY <1>1, <1>4, BoundsAssumption
  <1> HIDE DEF u
  <1> QED BY <1>1, <1>3, <1>4, <1>5, DenomMade

\* Two denominations have the same voucher only if they are the same.
LEMMA VouchersDiffer ==
  ASSUME NEW e \in End, NEW d \in Denoms, Len(d.trace) < MaxHops,
         NEW c \in Denoms, Len(c.trace) < MaxHops, Voucher(e, d) = Voucher(e, c)
  PROVE  d = c
  <1>1. d.trace = c.trace /\ d.base = c.base
    BY VoucherFacts
  <1> QED BY <1>1, DenomFacts

\* What the equation of one origin is made of.
LEMMA BackedTypes ==
  ASSUME NEW b \in Ledger, NEW t \in Flow, NEW e \in End, NEW d \in Denoms, IsOrigin(e, d)
  PROVE  /\ Peer(e) \in End /\ Peer(e).chain \in Chains /\ e \in Holders
         /\ Voucher(e, d) \in Denoms
         /\ Voucher(e, d).trace # <<>> /\ Last(Voucher(e, d).trace) = HopOf(Peer(e))
         /\ b[e][d] \in Int /\ Supply(b, Peer(e).chain, Voucher(e, d)) \in Int
         /\ t[<<e, d>>] \in Int /\ t[<<Peer(e), Voucher(e, d)>>] \in Int
  <1>1. Len(d.trace) < MaxHops
    BY DEF IsOrigin
  <1>2. Peer(e) \in End /\ Peer(e).chain \in Chains /\ e \in Holders
    BY EndFacts
  <1>3. /\ Voucher(e, d) \in Denoms
        /\ Voucher(e, d).trace # <<>> /\ Last(Voucher(e, d).trace) = HopOf(Peer(e))
    BY <1>1, VoucherFacts
  <1>4. b[e][d] \in Int
    BY <1>2 DEF Ledger
  <1>5. Supply(b, Peer(e).chain, Voucher(e, d)) \in Int
    BY <1>3, SupplyInt
  <1>6. t[<<e, d>>] \in Int /\ t[<<Peer(e), Voucher(e, d)>>] \in Int
    BY <1>2, <1>3 DEF Flow
  <1> QED BY <1>2, <1>3, <1>4, <1>5, <1>6

\* Coins sent from where they come from, and their refund (k negative).
LEMMA EscrowBalance ==
  ASSUME NEW b \in Ledger, NEW t \in Flow, Backed(b, t),
         NEW e1 \in End, NEW d1 \in Denoms, NEW k \in Int,
         is_sender_chain_source(e1.port, e1.chan, d1),
         NEW b1, Escrowed(b, b1, e1, d1, k)
  PROVE  Backed(b1, Shift(t, e1, d1, k))
  <1> DEFINE t1 == Shift(t, e1, d1, k)
  <1>1. ASSUME NEW e \in End, NEW d \in Denoms, IsOrigin(e, d)
        PROVE  b1[e][d] = Supply(b1, Peer(e).chain, Voucher(e, d))
                          + t1[<<e, d>>] + t1[<<Peer(e), Voucher(e, d)>>]
    <2> DEFINE v == Voucher(e, d)
               P == Peer(e)
    <2>1. /\ P \in End /\ P.chain \in Chains /\ v \in Denoms
          /\ v.trace # <<>> /\ Last(v.trace) = HopOf(P)
          /\ b[e][d] \in Int /\ Supply(b, P.chain, v) \in Int
          /\ t[<<e, d>>] \in Int /\ t[<<P, v>>] \in Int
      BY <1>1, BackedTypes
    <2>2. b[e][d] = Supply(b, P.chain, v) + t[<<e, d>>] + t[<<P, v>>]
      BY <1>1 DEF Backed
    <2> HIDE DEF v, P
    <2>3. Supply(b1, P.chain, v) = Supply(b, P.chain, v)
      BY <2>1 DEF Escrowed
    <2>4. b1[e][d] = IF e = e1 /\ d = d1 THEN b[e][d] + k ELSE b[e][d]
      BY DEF Escrowed
    <2>5. t1[<<e, d>>] = IF e = e1 /\ d = d1 THEN t[<<e, d>>] + k ELSE t[<<e, d>>]
      BY ShiftAt
    <2>6. ~ (P = e1 /\ v = d1)
      BY <2>1, SourceFacts
    <2>7. t1[<<P, v>>] = t[<<P, v>>]
      BY <2>1, <2>6, ShiftAt
    <2> HIDE DEF t1
    <2>8. b1[e][d] = Supply(b1, P.chain, v) + t1[<<e, d>>] + t1[<<P, v>>]
      BY <2>1, <2>2, <2>3, <2>4, <2>5, <2>7
    <2> QED BY <2>8 DEF v, P
  <1> HIDE DEF t1
  <1>2. Backed(b1, t1)
    BY <1>1 DEF Backed
  <1> QED BY <1>2 DEF t1

\* Vouchers sent back over the channel they came by, and their refund.
LEMMA BurnBalance ==
  ASSUME NEW b \in Ledger, NEW t \in Flow, Backed(b, t),
         NEW e1 \in End, NEW d1 \in Denoms, NEW k \in Int,
         ~ is_sender_chain_source(e1.port, e1.chan, d1),
         NEW b1, Made(b, b1, e1.chain, d1, -k)
  PROVE  Backed(b1, Shift(t, e1, d1, k))
  <1> DEFINE t1 == Shift(t, e1, d1, k)
  <1>0. d1.trace # <<>> /\ Last(d1.trace) = HopOf(e1)
    BY SourceFacts
  <1>1. ASSUME NEW e \in End, NEW d \in Denoms, IsOrigin(e, d)
        PROVE  b1[e][d] = Supply(b1, Peer(e).chain, Voucher(e, d))
                          + t1[<<e, d>>] + t1[<<Peer(e), Voucher(e, d)>>]
    <2> DEFINE v == Voucher(e, d)
               P == Peer(e)
    <2>1. /\ P \in End /\ P.chain \in Chains /\ v \in Denoms
          /\ v.trace # <<>> /\ Last(v.trace) = HopOf(P)
          /\ b[e][d] \in Int /\ Supply(b, P.chain, v) \in Int
          /\ t[<<e, d>>] \in Int /\ t[<<P, v>>] \in Int
      BY <1>1, BackedTypes
    <2>2. b[e][d] = Supply(b, P.chain, v) + t[<<e, d>>] + t[<<P, v>>]
      BY <1>1 DEF Backed
    <2> HIDE DEF v, P
    <2>3. b1[e][d] = b[e][d]
      BY DEF Made
    <2>4. (P.chain = e1.chain /\ v = d1) <=> (P = e1 /\ v = d1)
      BY <1>0, <2>1, SameEnd DEF HopOf
    <2>5. Supply(b1, P.chain, v) =
            IF P = e1 /\ v = d1 THEN Supply(b, P.chain, v) + -k ELSE Supply(b, P.chain, v)
      BY <2>1, <2>4 DEF Made
    <2>6. ~ (e = e1 /\ d = d1)
      BY <1>0, <1>1 DEF IsOrigin, HopOf
    <2>7. t1[<<e, d>>] = t[<<e, d>>]
      BY <2>6, ShiftAt
    <2>8. t1[<<P, v>>] = IF P = e1 /\ v = d1 THEN t[<<P, v>>] + k ELSE t[<<P, v>>]
      <3>1. P \in End /\ v \in Denoms
        BY <2>1
      <3> QED BY <3>1, ShiftAt
    <2> HIDE DEF t1
    <2>9. b1[e][d] = Supply(b1, P.chain, v) + t1[<<e, d>>] + t1[<<P, v>>]
      BY <2>1, <2>2, <2>3, <2>5, <2>7, <2>8
    <2> QED BY <2>9 DEF v, P
  <1> HIDE DEF t1
  <1>2. Backed(b1, t1)
    BY <1>1 DEF Backed
  <1> QED BY <1>2 DEF t1

\* Vouchers that arrive where they come from, and are paid out of escrow.
LEMMA HomeBalance ==
  ASSUME NEW b \in Ledger, NEW t \in Flow, Backed(b, t),
         NEW e2 \in End, NEW home \in Denoms, Len(home.trace) < MaxHops, NEW k \in Int,
         NEW b1, Escrowed(b, b1, e2, home, k)
  PROVE  Backed(b1, Shift(t, Peer(e2), Voucher(e2, home), k))
  <1> DEFINE src == Peer(e2)
             d1 == Voucher(e2, home)
             t1 == Shift(t, src, d1, k)
  <1>0. /\ src \in End /\ Peer(src) = e2 /\ d1 \in Denoms
        /\ d1.trace # <<>> /\ Last(d1.trace) = HopOf(src)
    BY EndFacts, VoucherFacts
  <1>1. ASSUME NEW e \in End, NEW d \in Denoms, IsOrigin(e, d)
        PROVE  b1[e][d] = Supply(b1, Peer(e).chain, Voucher(e, d))
                          + t1[<<e, d>>] + t1[<<Peer(e), Voucher(e, d)>>]
    <2> DEFINE v == Voucher(e, d)
               P == Peer(e)
    <2>1. /\ P \in End /\ P.chain \in Chains /\ v \in Denoms
          /\ v.trace # <<>> /\ Last(v.trace) = HopOf(P)
          /\ b[e][d] \in Int /\ Supply(b, P.chain, v) \in Int
          /\ t[<<e, d>>] \in Int /\ t[<<P, v>>] \in Int
      BY <1>1, BackedTypes
    <2>2. b[e][d] = Supply(b, P.chain, v) + t[<<e, d>>] + t[<<P, v>>]
      BY <1>1 DEF Backed
    <2>3. (P = src /\ v = d1) <=> (e = e2 /\ d = home)
      <3>1. P = src => e = e2
        BY EndFacts
      <3>2. e = e2 /\ v = d1 => d = home
        BY <1>1, VouchersDiffer DEF IsOrigin
      <3> QED BY <3>1, <3>2
    <2> HIDE DEF v, P, src, d1
    <2>4. Supply(b1, P.chain, v) = Supply(b, P.chain, v)
      BY <2>1 DEF Escrowed
    <2>5. b1[e][d] = IF e = e2 /\ d = home THEN b[e][d] + k ELSE b[e][d]
      BY DEF Escrowed
    <2>6. ~ (e = src /\ d = d1)
      BY <1>0, <1>1 DEF IsOrigin, HopOf
    <2>7. t1[<<e, d>>] = t[<<e, d>>]
      BY <1>0, <2>6, ShiftAt
    <2>8. t1[<<P, v>>] = IF P = src /\ v = d1 THEN t[<<P, v>>] + k ELSE t[<<P, v>>]
      <3>1. P \in End /\ v \in Denoms /\ src \in End /\ d1 \in Denoms
        BY <1>0, <2>1
      <3> QED BY <3>1, ShiftAt
    <2> HIDE DEF t1
    <2>9. b1[e][d] = Supply(b1, P.chain, v) + t1[<<e, d>>] + t1[<<P, v>>]
      BY <2>1, <2>2, <2>3, <2>4, <2>5, <2>7, <2>8
    <2> QED BY <2>9 DEF v, P
  <1> HIDE DEF t1
  <1>2. Backed(b1, t1)
    BY <1>1 DEF Backed
  <1> QED BY <1>2 DEF t1

\* Coins that arrive on another chain, as vouchers.
LEMMA AwayBalance ==
  ASSUME NEW b \in Ledger, NEW t \in Flow, Backed(b, t),
         NEW src \in End, NEW d1 \in Denoms, IsOrigin(src, d1), NEW k \in Int,
         NEW b1, Made(b, b1, Peer(src).chain, Voucher(src, d1), -k)
  PROVE  Backed(b1, Shift(t, src, d1, k))
  <1> DEFINE e2 == Peer(src)
             v1 == Voucher(src, d1)
             t1 == Shift(t, src, d1, k)
  <1>0. /\ e2 \in End /\ Peer(e2) = src /\ v1 \in Denoms
        /\ v1.trace # <<>> /\ Last(v1.trace) = HopOf(e2)
    BY EndFacts, VoucherFacts DEF IsOrigin
  <1>1. ASSUME NEW e \in End, NEW d \in Denoms, IsOrigin(e, d)
        PROVE  b1[e][d] = Supply(b1, Peer(e).chain, Voucher(e, d))
                          + t1[<<e, d>>] + t1[<<Peer(e), Voucher(e, d)>>]
    <2> DEFINE v == Voucher(e, d)
               P == Peer(e)
    <2>1. /\ P \in End /\ P.chain \in Chains /\ v \in Denoms
          /\ v.trace # <<>> /\ Last(v.trace) = HopOf(P)
          /\ b[e][d] \in Int /\ Supply(b, P.chain, v) \in Int
          /\ t[<<e, d>>] \in Int /\ t[<<P, v>>] \in Int
      BY <1>1, BackedTypes
    <2>2. b[e][d] = Supply(b, P.chain, v) + t[<<e, d>>] + t[<<P, v>>]
      BY <1>1 DEF Backed
    <2>3. (P.chain = e2.chain /\ v = v1) <=> (e = src /\ d = d1)
      <3>1. P.chain = e2.chain /\ v = v1 => P = e2
        <4> HIDE DEF P, v, e2, v1
        <4> QED BY <1>0, <2>1, SameEnd DEF HopOf
      <3>2. P = e2 => e = src
        BY EndFacts
      <3>3. e = src /\ v = v1 => d = d1
        BY <1>1, VouchersDiffer DEF IsOrigin
      <3> QED BY <3>1, <3>2, <3>3
    <2>4. b1[e][d] = b[e][d]
      BY DEF Made
    <2> HIDE DEF v, P
    <2>5. Supply(b1, P.chain, v) =
            IF P.chain = e2.chain /\ v = v1 THEN Supply(b, P.chain, v) + -k
            ELSE Supply(b, P.chain, v)
      BY <2>1 DEF Made
    <2> HIDE DEF e2, v1
    <2>6. ~ (P = src /\ v = d1)
      BY <2>1 DEF IsOrigin, HopOf
    <2>7. t1[<<P, v>>] = t[<<P, v>>]
      BY <2>1, <2>6, ShiftAt
    <2>8. t1[<<e, d>>] = IF e = src /\ d = d1 THEN t[<<e, d>>] + k ELSE t[<<e, d>>]
      BY ShiftAt
    <2> HIDE DEF t1
    <2>9. b1[e][d] = Supply(b1, P.chain, v) + t1[<<e, d>>] + t1[<<P, v>>]
      BY <2>1, <2>2, <2>3, <2>4, <2>5, <2>7, <2>8
    <2> QED BY <2>9 DEF v, P
  <1> HIDE DEF t1
  <1>2. Backed(b1, t1)
    BY <1>1 DEF Backed
  <1> QED BY <1>2 DEF t1

----------------------------------------------------------------------------
\* Packets.

\* The denominations and the packets that e may send.
Sendable(e) ==
  {d \in Denoms : is_sender_chain_source(e.port, e.chan, d) => Len(d.trace) < MaxHops}
SentBy(e) ==
  [seq : Nat, data : [denom : {DenomToText(d) : d \in Sendable(e)}, amount : Amounts,
                      sender : Names, receiver : Receivers]]
AnyPacket == UNION {SentBy(e) : e \in End}

\* The denomination that a packet carries.
Of(p) == CHOOSE d \in Denoms : DenomToText(d) = p.data.denom

LEMMA SentFacts ==
  ASSUME NEW e \in End, NEW p \in SentBy(e)
  PROVE  /\ p \in AnyPacket /\ p.seq \in Nat
         /\ p.data.amount \in Nat /\ p.data.sender \in Names
         /\ Of(p) \in Denoms
         /\ is_sender_chain_source(e.port, e.chan, Of(p)) => IsOrigin(e, Of(p))
         /\ \A c \in Denoms : p.data.denom = DenomToText(c) <=> c = Of(p)
         /\ PacketDataFromRaw(p.data) =
              {[coin |-> [denom |-> Of(p), amount |-> p.data.amount],
                sender |-> p.data.sender, receiver |-> p.data.receiver]}
  <1>1. PICK d \in Sendable(e) : p.data.denom = DenomToText(d)
    BY DEF SentBy
  <1>2. /\ d \in Denoms
        /\ is_sender_chain_source(e.port, e.chan, d) => Len(d.trace) < MaxHops
    BY DEF Sendable
  <1>3. \A c \in Denoms : p.data.denom = DenomToText(c) <=> c = d
    BY <1>1, <1>2, TextsDiffer
  <1>4. Of(p) = d
    <2>1. Of(p) \in Denoms /\ DenomToText(Of(p)) = p.data.denom
      BY <1>1, <1>2 DEF Of
    <2> QED BY <1>3, <2>1
  <1>5. is_sender_chain_source(e.port, e.chan, d) => IsOrigin(e, d)
    BY <1>2, SourceFacts
  <1>6. PacketDataFromRaw(p.data) =
          {[coin |-> [denom |-> c, amount |-> p.data.amount],
            sender |-> p.data.sender, receiver |-> p.data.receiver] : c \in {d}}
    BY <1>1, <1>2, ReadBack DEF PacketDataFromRaw
  <1>7. p \in AnyPacket
    BY DEF AnyPacket
  <1>8. p.seq \in Nat /\ p.data.amount \in Nat /\ p.data.sender \in Names
    BY BoundsAssumption DEF SentBy
  <1> QED BY <1>1, <1>2, <1>3, <1>4, <1>5, <1>6, <1>7, <1>8

LEMMA ElementsAppend ==
  ASSUME NEW A, NEW s \in Seq(A), NEW x \in A
  PROVE  /\ Append(s, x) \in Seq(A)
         /\ Channel!Elements(Append(s, x)) = Channel!Elements(s) \cup {x}
  <1>1. /\ Append(s, x) \in Seq(A)
        /\ DOMAIN Append(s, x) = 1..(Len(s) + 1) /\ DOMAIN s = 1..Len(s) /\ Len(s) \in Nat
        /\ Append(s, x)[Len(s) + 1] = x
        /\ \A i \in 1..Len(s) : Append(s, x)[i] = s[i]
    OBVIOUS
  <1>2. ASSUME NEW y \in Channel!Elements(Append(s, x)), y # x
        PROVE  y \in Channel!Elements(s)
    BY <1>1, <1>2 DEF Channel!Elements
  <1>3. ASSUME NEW y \in Channel!Elements(s)
        PROVE  y \in Channel!Elements(Append(s, x))
    BY <1>1 DEF Channel!Elements
  <1>4. x \in Channel!Elements(Append(s, x))
    BY <1>1 DEF Channel!Elements
  <1> QED BY <1>1, <1>2, <1>3, <1>4

LEMMA ElementsFinite ==
  ASSUME NEW A, NEW s \in Seq(A)
  PROVE  IsFiniteSet(Channel!Elements(s))
  <1>1. DOMAIN s = 1..Len(s) /\ Len(s) \in Nat
    OBVIOUS
  <1>2. IsFiniteSet(1..Len(s))
    BY <1>1, FS_Interval
  <1>3. Channel!Elements(s) = {s[i] : i \in 1..Len(s)}
    BY <1>1 DEF Channel!Elements
  <1> QED BY <1>2, <1>3, ImageFinite

\* The books of the channels: what is in them was sent, numbered from one, and
\* no packet is both credited and refunded.
SentOK ==
  /\ sent \in [End -> Seq(AnyPacket)]
  /\ \A e \in End :
       /\ Len(sent[e]) <= MaxSends
       /\ \A i \in 1..Len(sent[e]) : sent[e][i] \in SentBy(e) /\ sent[e][i].seq = i
ReceivedOK ==
  /\ received \in [End -> Seq(AnyPacket)]
  /\ \A e \in End : Channel!Elements(received[e]) \subseteq Packets(Peer(e))
SettledOK ==
  /\ settled \in [End -> Seq([packet : AnyPacket,
                              outcome : Replies \cup {"none", "timeout"}])]
  /\ \A e \in End : \A s \in Channel!Elements(settled[e]) : s.packet \in Packets(e)
ReplyOK == reply \in [End -> [1..MaxSends -> Replies \cup {"none"}]]
NeverBoth == \A e \in End : \A p \in Packets(e) : ~ (Credited(e, p) /\ Refunded(e, p))
Books == SentOK /\ ReceivedOK /\ SettledOK /\ ReplyOK /\ NeverBoth

\* A packet is known by its end and its number.
LEMMA PacketFacts ==
  ASSUME SentOK, NEW e \in End, NEW p \in Packets(e)
  PROVE  /\ p \in SentBy(e) /\ p.seq \in 1..MaxSends /\ p.seq <= Len(sent[e])
         /\ sent[e][p.seq] = p
         /\ \A q \in Packets(e) : q.seq = p.seq => q = p
  <1>1. sent[e] \in Seq(AnyPacket) /\ DOMAIN sent[e] = 1..Len(sent[e]) /\ Len(sent[e]) \in Nat
    BY DEF SentOK
  <1>2. \A q \in Packets(e) : \E i \in 1..Len(sent[e]) : q = sent[e][i] /\ q.seq = i
    BY <1>1 DEF SentOK, Packets, Channel!Elements
  <1>3. PICK i \in 1..Len(sent[e]) : p = sent[e][i] /\ p.seq = i
    BY <1>2
  <1>4. p \in SentBy(e) /\ i \in 1..MaxSends
    BY <1>1, <1>3, BoundsAssumption DEF SentOK
  <1> QED BY <1>1, <1>2, <1>3, <1>4

\* No settled packet means no refund.
LEMMA RefundedFacts ==
  ASSUME NEW e \in End, NEW p, Books
  PROVE  /\ Refunded(e, p) => p \in Packets(e)
         /\ Credited(e, p) => p \in Packets(e)
         /\ (\A i \in DOMAIN settled[e] : settled[e][i].packet # p) => ~ Refunded(e, p)
  <1>1. Peer(e) \in End /\ Peer(Peer(e)) = e
    BY EndFacts
  <1>2. Credited(e, p) => p \in Packets(e)
    BY <1>1 DEF Credited, Books, ReceivedOK
  <1>3. Refunded(e, p) => p \in Packets(e)
    BY DEF Refunded, Books, SettledOK
  <1>4. (\A i \in DOMAIN settled[e] : settled[e][i].packet # p) => ~ Refunded(e, p)
    BY DEF Refunded, Channel!Elements
  <1> QED BY <1>2, <1>3, <1>4

\* All packets but p of e stand as before.
OthersStand(e, p) ==
  \A f \in End : \A q \in Packets(f) :
    ~ (f = e /\ q = p) => /\ Credited(f, q)' <=> Credited(f, q)
                          /\ Refunded(f, q)' <=> Refunded(f, q)
SamePackets == \A f \in End : Packets(f)' = Packets(f)

\* send_packet: one packet more, which nobody has received.
LEMMA SendStep ==
  ASSUME Books, NEW e \in End, NEW p \in SentBy(e), Len(sent[e]) < MaxSends,
         Channel!DSend(e, p)
  PROVE  /\ Books'
         /\ p \notin Packets(e)
         /\ \A f \in End : Packets(f)' = IF f = e THEN Packets(f) \cup {p} ELSE Packets(f)
         /\ OthersStand(e, p)
         /\ ~ Credited(e, p)' /\ ~ Refunded(e, p)'
  <1>1. /\ p.seq = Len(sent[e]) + 1
        /\ sent' = [sent EXCEPT ![e] = Append(@, p)]
        /\ received' = received /\ settled' = settled /\ reply' = reply
    BY DEF Channel!DSend
  <1>2. p \in AnyPacket /\ sent \in [End -> Seq(AnyPacket)] /\ sent[e] \in Seq(AnyPacket)
    BY SentFacts DEF Books, SentOK
  <1>3. ASSUME NEW f \in End
        PROVE  /\ Packets(f)' = IF f = e THEN Packets(f) \cup {p} ELSE Packets(f)
               /\ sent'[f] = IF f = e THEN Append(sent[f], p) ELSE sent[f]
    <2>1. sent'[f] = IF f = e THEN Append(sent[f], p) ELSE sent[f]
      BY <1>1, <1>2
    <2>2. Channel!Elements(Append(sent[e], p)) = Channel!Elements(sent[e]) \cup {p}
      BY <1>2, ElementsAppend
    <2> QED BY <2>1, <2>2 DEF Packets
  <1>4. p \notin Packets(e)
    <2> SUFFICES ASSUME p \in Packets(e) PROVE FALSE
      OBVIOUS
    <2>1. p.seq <= Len(sent[e]) /\ Len(sent[e]) \in Nat
      BY <1>2, PacketFacts DEF Books
    <2> QED BY <1>1, <2>1
  <1>5. \A f \in End : \A q : /\ Credited(f, q)' <=> Credited(f, q)
                              /\ Refunded(f, q)' <=> Refunded(f, q)
    BY <1>1 DEF Credited, Refunded
  <1>6. ~ Credited(e, p) /\ ~ Refunded(e, p)
    BY <1>4, RefundedFacts
  <1>7. SentOK'
    <2>1. sent' \in [End -> Seq(AnyPacket)]
      BY <1>1, <1>2, ElementsAppend
    <2>2. ASSUME NEW f \in End
          PROVE  /\ Len(sent'[f]) <= MaxSends
                 /\ \A i \in 1..Len(sent'[f]) : sent'[f][i] \in SentBy(f) /\ sent'[f][i].seq = i
      <3>1. CASE f # e
        BY <1>3, <3>1 DEF Books, SentOK
      <3>2. CASE f = e
        <4>1. sent'[e] = Append(sent[e], p)
          BY <1>3
        <4>2. /\ Len(Append(sent[e], p)) = Len(sent[e]) + 1 /\ Len(sent[e]) \in Nat
              /\ Append(sent[e], p)[Len(sent[e]) + 1] = p
              /\ \A i \in 1..Len(sent[e]) : Append(sent[e], p)[i] = sent[e][i]
          BY <1>2
        <4>3. \A i \in 1..(Len(sent[e]) + 1) : i \in 1..Len(sent[e]) \/ i = Len(sent[e]) + 1
          BY <4>2
        <4>4. \A i \in 1..Len(sent[e]) : sent[e][i] \in SentBy(e) /\ sent[e][i].seq = i
          BY DEF Books, SentOK
        <4> QED BY <1>1, <3>2, <4>1, <4>2, <4>3, <4>4, BoundsAssumption
      <3> QED BY <3>1, <3>2
    <2> QED BY <2>1, <2>2 DEF SentOK
  <1>8. ReceivedOK' /\ SettledOK' /\ ReplyOK'
    <2>1. \A f \in End : Packets(f) \subseteq Packets(f)'
      BY <1>3
    <2>2. ReceivedOK'
      <3>1. \A f \in End : Channel!Elements(received[f]) \subseteq Packets(Peer(f))'
        BY <2>1, EndFacts DEF Books, ReceivedOK
      <3> QED BY <1>1, <3>1 DEF Books, ReceivedOK
    <2>3. SettledOK'
      <3>1. \A f \in End : \A s \in Channel!Elements(settled[f]) : s.packet \in Packets(f)'
        BY <2>1 DEF Books, SettledOK
      <3> QED BY <1>1, <3>1 DEF Books, SettledOK
    <2>4. ReplyOK'
      BY <1>1 DEF Books, ReplyOK
    <2> QED BY <2>2, <2>3, <2>4
  <1>9. NeverBoth'
    BY <1>3, <1>5, <1>6 DEF Books, NeverBoth
  <1> QED BY <1>3, <1>4, <1>5, <1>6, <1>7, <1>8, <1>9 DEF Books, OthersStand

\* recv_packet: the packet was open, and is credited if the answer is success.
LEMMA DeliverStep ==
  ASSUME Books, NEW e \in End, NEW p \in Packets(Peer(e)), NEW a \in Replies,
         Channel!DDeliver(e, p, a)
  PROVE  /\ Books' /\ SamePackets /\ OthersStand(Peer(e), p)
         /\ ~ Credited(Peer(e), p) /\ ~ Refunded(Peer(e), p) /\ ~ Refunded(Peer(e), p)'
         /\ Credited(Peer(e), p)' <=> a = "success"
  <1> DEFINE src == Peer(e)
  <1>0. src \in End /\ Peer(src) = e
    BY EndFacts
  <1>1. /\ p \notin Channel!Elements(received[e])
        /\ \A i \in DOMAIN settled[src] : settled[src][i].packet # p
        /\ received' = [received EXCEPT ![e] = Append(@, p)]
        /\ reply' = [reply EXCEPT ![e][p.seq] = a]
        /\ sent' = sent /\ settled' = settled
    BY DEF Channel!DDeliver
  <1>2. p \in SentBy(src) /\ p.seq \in 1..MaxSends /\ p \in AnyPacket
    BY <1>0, PacketFacts, SentFacts DEF Books
  <1>3. received \in [End -> Seq(AnyPacket)] /\ received[e] \in Seq(AnyPacket)
    BY DEF Books, ReceivedOK
  <1>4. ASSUME NEW f \in End
        PROVE  Channel!Elements(received'[f]) =
                 IF f = e THEN Channel!Elements(received[f]) \cup {p}
                 ELSE Channel!Elements(received[f])
    <2>1. received'[f] = IF f = e THEN Append(received[f], p) ELSE received[f]
      BY <1>1, <1>3
    <2>2. Channel!Elements(Append(received[e], p)) = Channel!Elements(received[e]) \cup {p}
      BY <1>2, <1>3, ElementsAppend
    <2> QED BY <2>1, <2>2
  <1>5. reply \in [End -> [1..MaxSends -> Replies \cup {"none"}]]
    BY DEF Books, ReplyOK
  <1>6. /\ reply' \in [End -> [1..MaxSends -> Replies \cup {"none"}]]
        /\ \A f \in End, s \in 1..MaxSends :
             reply'[f][s] = IF f = e /\ s = p.seq THEN a ELSE reply[f][s]
    BY <1>1, <1>2, <1>5
  <1>7. SamePackets
    BY <1>1 DEF SamePackets, Packets
  <1>8. \A f \in End : \A q : Refunded(f, q)' <=> Refunded(f, q)
    BY <1>1 DEF Refunded
  <1>9. ~ Credited(src, p) /\ ~ Refunded(src, p)
    BY <1>0, <1>1, RefundedFacts DEF Credited
  <1>10. Credited(src, p)' <=> a = "success"
    <2>1. p \in Channel!Elements(received'[e]) /\ reply'[e][p.seq] = a
      BY <1>2, <1>4, <1>6
    <2> QED BY <1>0, <2>1 DEF Credited
  <1>11. ASSUME NEW f \in End, NEW q \in Packets(f), ~ (f = src /\ q = p)
         PROVE  Credited(f, q)' <=> Credited(f, q)
    <2>1. Peer(f) \in End /\ (Peer(f) = e => f = src)
      BY EndFacts
    <2>2. q.seq \in 1..MaxSends /\ (f = src => q.seq # p.seq)
      BY <1>0, <1>11, PacketFacts DEF Books
    <2>3. reply'[Peer(f)][q.seq] = reply[Peer(f)][q.seq]
      BY <1>6, <2>1, <2>2
    <2>4. q \in Channel!Elements(received'[Peer(f)]) <=> q \in Channel!Elements(received[Peer(f)])
      BY <1>4, <1>11, <2>1
    <2> QED BY <2>3, <2>4 DEF Credited
  <1>12. SentOK' /\ SettledOK' /\ ReplyOK'
    <2>1. \A f \in End : Packets(f)' = Packets(f)
      BY <1>7 DEF SamePackets
    <2>2. SentOK'
      BY <1>1 DEF Books, SentOK
    <2>3. SettledOK'
      BY <1>1, <2>1 DEF Books, SettledOK
    <2>4. ReplyOK'
      BY <1>6 DEF ReplyOK
    <2> QED BY <2>2, <2>3, <2>4
  <1>13. ReceivedOK'
    <2>1. received' \in [End -> Seq(AnyPacket)]
      BY <1>1, <1>2, <1>3, ElementsAppend
    <2>2. \A f \in End : Channel!Elements(received'[f]) \subseteq Packets(Peer(f))'
      <3> TAKE f \in End
      <3>1. Peer(f) \in End /\ Packets(Peer(f))' = Packets(Peer(f))
        BY <1>7, EndFacts DEF SamePackets
      <3>2. Channel!Elements(received[f]) \subseteq Packets(Peer(f))
        BY DEF Books, ReceivedOK
      <3> QED BY <1>4, <3>1, <3>2
    <2> QED BY <2>1, <2>2 DEF ReceivedOK
  <1>14. NeverBoth'
    <2>1. \A f \in End : Packets(f)' = Packets(f)
      BY <1>7 DEF SamePackets
    <2>2. ASSUME NEW f \in End, NEW q \in Packets(f)
          PROVE  ~ (Credited(f, q)' /\ Refunded(f, q)')
      <3>1. CASE f = src /\ q = p
        BY <1>8, <1>9, <3>1, <1>0
      <3>2. CASE ~ (f = src /\ q = p)
        BY <1>8, <1>11, <3>2 DEF Books, NeverBoth
      <3> QED BY <3>1, <3>2
    <2> QED BY <2>1, <2>2 DEF NeverBoth
  <1>15. OthersStand(src, p)
    BY <1>8, <1>11 DEF OthersStand
  <1> QED BY <1>0, <1>7, <1>8, <1>9, <1>10, <1>12, <1>13, <1>14, <1>15 DEF Books

\* acknowledge_packet and timeout_packet: the packet was not refunded, and is
\* now unless the answer was success; a refunded packet is not credited.
LEMMA SettleStep ==
  ASSUME Books, NEW e \in End, NEW p \in Packets(e),
         NEW o \in Replies \cup {"none", "timeout"},
         Channel!DSettle(e, p, o),
         \/ o = "timeout" /\ p \notin Channel!Elements(received[Peer(e)])
         \/ o = reply[Peer(e)][p.seq]
  PROVE  /\ Books' /\ SamePackets /\ OthersStand(e, p)
         /\ Credited(e, p)' <=> Credited(e, p)
         /\ ~ Refunded(e, p)
         /\ Refunded(e, p)' <=> o # "success"
         /\ o # "success" => ~ Credited(e, p)
  <1> DEFINE new == [packet |-> p, outcome |-> o]
             Entry == [packet : AnyPacket, outcome : Replies \cup {"none", "timeout"}]
  <1>1. /\ \A i \in DOMAIN settled[e] : settled[e][i].packet # p
        /\ settled' = [settled EXCEPT ![e] = Append(@, new)]
        /\ sent' = sent /\ received' = received /\ reply' = reply
    BY DEF Channel!DSettle, Channel!InFlight
  <1>2. p \in AnyPacket /\ new \in Entry
    BY PacketFacts, SentFacts DEF Books
  <1>3. settled \in [End -> Seq(Entry)] /\ settled[e] \in Seq(Entry)
    BY DEF Books, SettledOK
  <1> HIDE DEF Entry
  <1>4. ASSUME NEW f \in End
        PROVE  Channel!Elements(settled'[f]) =
                 IF f = e THEN Channel!Elements(settled[f]) \cup {new}
                 ELSE Channel!Elements(settled[f])
    <2>1. settled'[f] = IF f = e THEN Append(settled[f], new) ELSE settled[f]
      BY <1>1, <1>3
    <2>2. Channel!Elements(Append(settled[e], new)) = Channel!Elements(settled[e]) \cup {new}
      BY <1>2, <1>3, ElementsAppend
    <2> QED BY <2>1, <2>2
  <1>5. SamePackets
    BY <1>1 DEF SamePackets, Packets
  <1>6. \A f \in End : \A q : Credited(f, q)' <=> Credited(f, q)
    BY <1>1 DEF Credited
  <1>7. ~ Refunded(e, p)
    BY <1>1, RefundedFacts
  <1>8. new.packet = p /\ new.outcome = o
    OBVIOUS
  <1>9. Refunded(e, p)' <=> o # "success"
    <2>1. Refunded(e, p)' <=>
            \E s \in Channel!Elements(settled[e]) \cup {new} : s.packet = p /\ s.outcome # "success"
      BY <1>4 DEF Refunded
    <2>2. ~ \E s \in Channel!Elements(settled[e]) : s.packet = p /\ s.outcome # "success"
      BY <1>7 DEF Refunded
    <2> QED BY <1>8, <2>1, <2>2
  <1>10. ASSUME NEW f \in End, NEW q \in Packets(f), ~ (f = e /\ q = p)
         PROVE  Refunded(f, q)' <=> Refunded(f, q)
    <2>1. f = e => new.packet # q
      BY <1>8, <1>10
    <2> HIDE DEF new
    <2> QED BY <1>4, <2>1 DEF Refunded
  <1>11. o # "success" => ~ Credited(e, p)
    BY DEF Credited
  <1>12. SentOK' /\ ReceivedOK' /\ ReplyOK'
    <2>1. \A f \in End : Packets(Peer(f))' = Packets(Peer(f))
      BY <1>5, EndFacts DEF SamePackets
    <2>2. SentOK'
      BY <1>1 DEF Books, SentOK
    <2>3. ReceivedOK'
      BY <1>1, <2>1 DEF Books, ReceivedOK
    <2>4. ReplyOK'
      BY <1>1 DEF Books, ReplyOK
    <2> QED BY <2>2, <2>3, <2>4
  <1>13. SettledOK'
    <2>1. settled' \in [End -> Seq(Entry)]
      BY <1>1, <1>2, <1>3, ElementsAppend
    <2>2. ASSUME NEW f \in End, NEW s \in Channel!Elements(settled'[f])
          PROVE  s.packet \in Packets(f)'
      <3>1. Packets(f)' = Packets(f)
        BY <1>5 DEF SamePackets
      <3>2. CASE s \in Channel!Elements(settled[f])
        BY <3>1, <3>2 DEF Books, SettledOK
      <3>3. CASE s = new /\ f = e
        BY <1>8, <3>1, <3>3
      <3> QED BY <1>4, <2>2, <3>2, <3>3
    <2> QED BY <2>1, <2>2 DEF SettledOK, Entry
  <1>14. NeverBoth'
    <2>1. \A f \in End : Packets(f)' = Packets(f)
      BY <1>5 DEF SamePackets
    <2>2. ASSUME NEW f \in End, NEW q \in Packets(f)
          PROVE  ~ (Credited(f, q)' /\ Refunded(f, q)')
      <3>1. CASE f = e /\ q = p
        BY <1>6, <1>9, <1>11, <3>1
      <3>2. CASE ~ (f = e /\ q = p)
        BY <1>6, <1>10, <3>2 DEF Books, NeverBoth
      <3> QED BY <3>1, <3>2
    <2> QED BY <2>1, <2>2 DEF NeverBoth
  <1>15. OthersStand(e, p)
    BY <1>6, <1>10 DEF OthersStand
  <1> QED BY <1>5, <1>6, <1>7, <1>9, <1>11, <1>12, <1>13, <1>14, <1>15 DEF Books

----------------------------------------------------------------------------
\* What is under way.

Transit == [x \in End \X Denoms |-> InTransit(x[1], x[2])]

LEMMA CarriedFacts ==
  ASSUME NEW ps, IsFiniteSet(ps), \A q \in ps : q.data.amount \in Nat
  PROVE  /\ Carried(ps) \in Nat
         /\ ps = {} => Carried(ps) = 0
         /\ \A q \in ps : Carried(ps) = q.data.amount + Carried(ps \ {q})
  <1> DEFINE w == [q \in ps |-> q.data.amount]
  <1>1. \A q \in ps : w[q] \in Nat
    OBVIOUS
  <1>2. \A q \in ps : w[q] \in Int
    OBVIOUS
  <1>3. Carried(ps) = Total(w, ps)
    BY DEF Carried
  <1>4. ASSUME NEW q \in ps
        PROVE  Carried(ps) = q.data.amount + Carried(ps \ {q})
    <2> DEFINE v == [x \in ps \ {q} |-> x.data.amount]
    <2>1. Carried(ps \ {q}) = Total(v, ps \ {q})
      BY DEF Carried
    <2>2. IsFiniteSet(ps \ {q}) /\ \A x \in ps \ {q} : w[x] \in Int /\ v[x] = w[x]
      BY FS_RemoveElement
    <2>3. w[q] = q.data.amount
      OBVIOUS
    <2> HIDE DEF w, v
    <2>4. Total(v, ps \ {q}) = Total(w, ps \ {q})
      BY <2>2, TotalSame
    <2>5. Total(w, ps) = w[q] + Total(w, ps \ {q})
      BY <1>2, TotalRemove
    <2> QED BY <1>3, <2>1, <2>3, <2>4, <2>5
  <1> HIDE DEF w
  <1>5. Total(w, ps) \in Nat
    BY <1>1, TotalNat
  <1>6. ps = {} => Total(w, ps) = 0
    BY <1>2, TotalStep
  <1> QED BY <1>3, <1>4, <1>5, <1>6

LEMMA OpenFacts ==
  ASSUME Books, NEW e \in End, NEW d \in Denoms
  PROVE  /\ IsFiniteSet(OpenPackets(e, d))
         /\ OpenPackets(e, d) \subseteq Packets(e)
         /\ \A q \in OpenPackets(e, d) : q.data.amount \in Nat
         /\ InTransit(e, d) \in Nat
  <1>1. sent[e] \in Seq(AnyPacket)
    BY DEF Books, SentOK
  <1>2. IsFiniteSet(Packets(e))
    BY <1>1, ElementsFinite DEF Packets
  <1>3. OpenPackets(e, d) \subseteq Packets(e)
    BY DEF OpenPackets
  <1>4. IsFiniteSet(OpenPackets(e, d))
    BY <1>2, <1>3, FS_Subset
  <1>5. \A q \in OpenPackets(e, d) : q.data.amount \in Nat
    BY <1>3, PacketFacts, SentFacts DEF Books
  <1>6. PICK ps : ps = OpenPackets(e, d)
    OBVIOUS
  <1>7. Carried(ps) \in Nat
    BY <1>4, <1>5, <1>6, CarriedFacts
  <1> QED BY <1>3, <1>4, <1>5, <1>6, <1>7 DEF InTransit

\* A set of open packets gains or loses one.
LEMMA CarriedAdd ==
  ASSUME NEW ps, NEW qs, NEW p, IsFiniteSet(ps), \A q \in ps : q.data.amount \in Nat,
         p.data.amount \in Nat, p \notin ps, qs = ps \cup {p}
  PROVE  Carried(qs) = Carried(ps) + p.data.amount
  <1>1. IsFiniteSet(qs) /\ p \in qs /\ qs \ {p} = ps /\ \A q \in qs : q.data.amount \in Nat
    BY FS_AddElement
  <1>2. Carried(qs) = p.data.amount + Carried(qs \ {p})
    BY <1>1, CarriedFacts
  <1>3. Carried(ps) \in Nat
    BY CarriedFacts
  <1>4. Carried(qs) = p.data.amount + Carried(ps)
    BY <1>1, <1>2
  <1> QED BY <1>3, <1>4

LEMMA TransitType ==
  ASSUME Books
  PROVE  Transit \in Flow
  BY OpenFacts DEF Transit, Flow

LEMMA InTransitPrime ==
  ASSUME NEW f \in End, NEW d \in Denoms, NEW qs, qs = OpenPackets(f, d)'
  PROVE  InTransit(f, d)' = Carried(qs)
  BY DEF InTransit

\* A flow that differs at one place is the shifted flow.
DiffersAt(t, t1, e, d, k) ==
  /\ t1 = [x \in End \X Denoms |-> t1[x]]
  /\ \A f \in End, c \in Denoms :
       t1[<<f, c>>] = IF f = e /\ c = d THEN t[<<f, c>>] + k ELSE t[<<f, c>>]

LEMMA ShiftedFlow ==
  ASSUME NEW t \in Flow, NEW e \in End, NEW d \in Denoms, NEW k \in Int,
         NEW t1, DiffersAt(t, t1, e, d, k)
  PROVE  t1 = Shift(t, e, d, k)
  <1>1. ASSUME NEW x \in End \X Denoms
        PROVE  t1[x] = Shift(t, e, d, k)[x]
    <2>1. PICK f \in End, c \in Denoms : x = <<f, c>>
      OBVIOUS
    <2>2. Shift(t, e, d, k)[<<f, c>>] = IF f = e /\ c = d THEN t[<<f, c>>] + k ELSE t[<<f, c>>]
      BY ShiftAt
    <2> QED BY <2>1, <2>2 DEF DiffersAt
  <1>2. Shift(t, e, d, k) \in [End \X Denoms -> Int]
    BY ShiftFacts DEF Flow
  <1>3. Shift(t, e, d, k) = [x \in End \X Denoms |-> Shift(t, e, d, k)[x]]
    BY <1>2
  <1> QED BY <1>1, <1>3 DEF DiffersAt

\* A packet more is under way.
LEMMA Opens ==
  ASSUME Books, NEW e \in End, NEW p \in SentBy(e), p \notin Packets(e),
         \A f \in End : Packets(f)' = IF f = e THEN Packets(f) \cup {p} ELSE Packets(f),
         OthersStand(e, p), ~ Credited(e, p)', ~ Refunded(e, p)'
  PROVE  Transit' = Shift(Transit, e, Of(p), p.data.amount)
  <1>1. /\ p.data.amount \in Nat /\ Of(p) \in Denoms
        /\ \A c \in Denoms : p.data.denom = DenomToText(c) <=> c = Of(p)
    BY SentFacts
  <1>2. ASSUME NEW f \in End, NEW d \in Denoms
        PROVE  InTransit(f, d)' = IF f = e /\ d = Of(p) THEN InTransit(f, d) + p.data.amount
                                  ELSE InTransit(f, d)
    <2>1. PICK ps : ps = OpenPackets(f, d)
      OBVIOUS
    <2>2. PICK qs : qs = OpenPackets(f, d)'
      OBVIOUS
    <2>3. /\ IsFiniteSet(ps) /\ \A q \in ps : q.data.amount \in Nat
          /\ ps \subseteq Packets(f)
      BY <2>1, OpenFacts
    <2>4. CASE f = e /\ d = Of(p)
      <3>1. qs = ps \cup {p}
        BY <1>1, <2>1, <2>2, <2>4 DEF OpenPackets, OthersStand
      <3>2. Carried(qs) = Carried(ps) + p.data.amount
        BY <1>1, <2>3, <2>4, <3>1, CarriedAdd
      <3> QED BY <2>1, <2>2, <2>4, <3>2, InTransitPrime DEF InTransit
    <2>5. CASE ~ (f = e /\ d = Of(p))
      <3>1. qs = ps
        BY <1>1, <2>1, <2>2, <2>5 DEF OpenPackets, OthersStand
      <3> QED BY <2>1, <2>2, <2>5, <3>1, InTransitPrime DEF InTransit
    <2> QED BY <2>4, <2>5
  <1>3. PICK t \in Flow : t = Transit
    BY TransitType
  <1>4. PICK t1 : t1 = Transit'
    OBVIOUS
  <1>5. t1 = [x \in End \X Denoms |-> t1[x]]
    BY <1>4 DEF Transit
  <1>6. \A f \in End, c \in Denoms :
          t1[<<f, c>>] = IF f = e /\ c = Of(p) THEN t[<<f, c>>] + p.data.amount ELSE t[<<f, c>>]
    BY <1>2, <1>3, <1>4 DEF Transit
  <1>7. PICK k \in Int : k = p.data.amount
    BY <1>1
  <1>8. DiffersAt(t, t1, e, Of(p), k)
    BY <1>5, <1>6, <1>7 DEF DiffersAt
  <1>9. t1 = Shift(t, e, Of(p), k)
    BY <1>1, <1>8, ShiftedFlow
  <1> QED BY <1>3, <1>4, <1>7, <1>9

\* A packet less is under way.
LEMMA Closes ==
  ASSUME Books, NEW e \in End, NEW p \in Packets(e), SamePackets, OthersStand(e, p),
         ~ Credited(e, p), ~ Refunded(e, p), Credited(e, p)' \/ Refunded(e, p)'
  PROVE  Transit' = Shift(Transit, e, Of(p), - p.data.amount)
  <1>1. /\ p.data.amount \in Nat /\ Of(p) \in Denoms
        /\ \A c \in Denoms : p.data.denom = DenomToText(c) <=> c = Of(p)
    BY PacketFacts, SentFacts DEF Books
  <1>2. ASSUME NEW f \in End, NEW d \in Denoms
        PROVE  InTransit(f, d)' = IF f = e /\ d = Of(p) THEN InTransit(f, d) + - p.data.amount
                                  ELSE InTransit(f, d)
    <2>1. PICK ps : ps = OpenPackets(f, d)
      OBVIOUS
    <2>2. PICK qs : qs = OpenPackets(f, d)'
      OBVIOUS
    <2>3. /\ IsFiniteSet(ps) /\ \A q \in ps : q.data.amount \in Nat
          /\ ps \subseteq Packets(f)
      BY <2>1, OpenFacts
    <2>4. Packets(f)' = Packets(f)
      BY DEF SamePackets
    <2>5. CASE f = e /\ d = Of(p)
      <3>1. p \in ps /\ qs = ps \ {p}
        BY <1>1, <2>1, <2>2, <2>4, <2>5 DEF OpenPackets, OthersStand
      <3>2. IsFiniteSet(qs) /\ \A q \in qs : q.data.amount \in Nat
        BY <2>3, <3>1, FS_RemoveElement
      <3>3. Carried(ps) = p.data.amount + Carried(qs) /\ Carried(qs) \in Nat
        BY <2>3, <3>1, <3>2, CarriedFacts
      <3>4. Carried(qs) = Carried(ps) + - p.data.amount
        BY <1>1, <3>3
      <3> QED BY <2>1, <2>2, <2>5, <3>4, InTransitPrime DEF InTransit
    <2>6. CASE ~ (f = e /\ d = Of(p))
      <3>1. qs = ps
        BY <1>1, <2>1, <2>2, <2>4, <2>6 DEF OpenPackets, OthersStand
      <3> QED BY <2>1, <2>2, <2>6, <3>1, InTransitPrime DEF InTransit
    <2> QED BY <2>5, <2>6
  <1>3. PICK t \in Flow : t = Transit
    BY TransitType
  <1>4. PICK t1 : t1 = Transit'
    OBVIOUS
  <1>5. t1 = [x \in End \X Denoms |-> t1[x]]
    BY <1>4 DEF Transit
  <1>6. \A f \in End, c \in Denoms :
          t1[<<f, c>>] = IF f = e /\ c = Of(p) THEN t[<<f, c>>] + - p.data.amount ELSE t[<<f, c>>]
    BY <1>2, <1>3, <1>4 DEF Transit
  <1>7. PICK k \in Int : k = - p.data.amount
    BY <1>1
  <1>8. DiffersAt(t, t1, e, Of(p), k)
    BY <1>5, <1>6, <1>7 DEF DiffersAt
  <1>9. t1 = Shift(t, e, Of(p), k)
    BY <1>1, <1>8, ShiftedFlow
  <1> QED BY <1>3, <1>4, <1>7, <1>9

----------------------------------------------------------------------------
\* The host's operations.

Purse == [Holders -> [Denoms -> Nat]]
Coin(d, n) == [denom |-> d, amount |-> n]

LEMMA CoinMoves ==
  ASSUME NEW b \in Ledger, NEW h \in Holders, NEW d \in Denoms, NEW n \in Nat
  PROVE  /\ mint_coins(b, h, Coin(d, n)) = Move(b, h, d, n)
         /\ burn_coins(b, h, Coin(d, n)) = Move(b, h, d, -n)
  <1>1. Coin(d, n).denom = d /\ Coin(d, n).amount = n
    BY DEF Coin
  <1>2. mint_coins(b, h, Coin(d, n)) = Move(b, h, d, n)
    BY <1>1 DEF mint_coins, Move
  <1>3. b[h][d] \in Int
    BY DEF Ledger
  <1>4. b[h][d] - n = b[h][d] + -n
    BY <1>3
  <1>5. burn_coins(b, h, Coin(d, n)) = Move(b, h, d, -n)
    BY <1>1, <1>4 DEF burn_coins, Move, Ledger
  <1> QED BY <1>2, <1>5

LEMMA PurseMove ==
  ASSUME NEW b \in Purse, NEW h \in Holders, NEW d \in Denoms, NEW k \in Int,
         b[h][d] + k \in Nat
  PROVE  Move(b, h, d, k) \in Purse
  BY DEF Purse, Move

LEMMA PurseLedger == Purse \subseteq Ledger
  BY DEF Purse, Ledger

\* What each operation does to escrows and supplies, and that none overdraws.
LEMMA Payments ==
  ASSUME NEW b \in Purse, NEW e \in End, NEW h \in Holders, h \notin End,
         h.chain = e.chain, NEW d \in Denoms, NEW n \in Nat
  PROVE  /\ /\ mint_coins(b, h, Coin(d, n)) \in Purse
            /\ Made(b, mint_coins(b, h, Coin(d, n)), e.chain, d, n)
         /\ CanPay(b, h, Coin(d, n)) =>
              /\ burn_coins(b, h, Coin(d, n)) \in Purse
              /\ Made(b, burn_coins(b, h, Coin(d, n)), e.chain, d, -n)
         /\ CanPay(b, h, Coin(d, n)) =>
              /\ escrow_coins(b, h, e, Coin(d, n)) \in Purse
              /\ Escrowed(b, escrow_coins(b, h, e, Coin(d, n)), e, d, n)
         /\ CanPay(b, e, Coin(d, n)) =>
              /\ unescrow_coins(b, h, e, Coin(d, n)) \in Purse
              /\ Escrowed(b, unescrow_coins(b, h, e, Coin(d, n)), e, d, -n)
  <1>1. /\ b \in Ledger /\ e \in Holders /\ n \in Int /\ -n \in Int
        /\ Coin(d, n).denom = d /\ Coin(d, n).amount = n
        /\ \A g \in Holders : b[g][d] \in Nat
    <2>1. n \in Int /\ -n \in Int
      OBVIOUS
    <2>2. e \in Holders
      BY DEF Holders
    <2>3. b \in Ledger /\ \A g \in Holders : b[g][d] \in Nat
      BY PurseLedger DEF Purse
    <2> QED BY <2>1, <2>2, <2>3 DEF Coin
  <1>2. /\ mint_coins(b, h, Coin(d, n)) \in Purse
        /\ Made(b, mint_coins(b, h, Coin(d, n)), e.chain, d, n)
    <2>1. mint_coins(b, h, Coin(d, n)) = Move(b, h, d, n)
      BY <1>1, CoinMoves
    <2>2. b[h][d] + n \in Nat
      BY <1>1
    <2> QED BY <1>1, <2>1, <2>2, PurseMove, OneMove
  <1>3. ASSUME CanPay(b, h, Coin(d, n))
        PROVE  /\ burn_coins(b, h, Coin(d, n)) \in Purse
               /\ Made(b, burn_coins(b, h, Coin(d, n)), e.chain, d, -n)
               /\ escrow_coins(b, h, e, Coin(d, n)) \in Purse
               /\ Escrowed(b, escrow_coins(b, h, e, Coin(d, n)), e, d, n)
    <2>1. PICK m : m = Move(b, h, d, -n)
      OBVIOUS
    <2>2. burn_coins(b, h, Coin(d, n)) = m
      BY <1>1, <2>1, CoinMoves
    <2>3. b[h][d] + -n \in Nat
      BY <1>1, <1>3 DEF CanPay
    <2>4. m \in Purse /\ m \in Ledger /\ Made(b, m, e.chain, d, -n)
      BY <1>1, <2>1, <2>3, PurseMove, OneMove, PurseLedger
    <2>5. escrow_coins(b, h, e, Coin(d, n)) = Move(m, e, d, n)
      BY <1>1, <2>2, <2>4, CoinMoves DEF escrow_coins
    <2>6. m[e][d] + n \in Nat
      BY <1>1, <2>4 DEF Purse
    <2>7. Move(m, e, d, n) \in Purse
      BY <1>1, <2>4, <2>6, PurseMove
    <2>8. Escrowed(b, Move(m, e, d, n), e, d, n)
      BY <1>1, <2>1, TwoMoves
    <2> QED BY <2>2, <2>4, <2>5, <2>7, <2>8
  <1>4. ASSUME CanPay(b, e, Coin(d, n))
        PROVE  /\ unescrow_coins(b, h, e, Coin(d, n)) \in Purse
               /\ Escrowed(b, unescrow_coins(b, h, e, Coin(d, n)), e, d, -n)
    <2>1. PICK m : m = Move(b, e, d, -n)
      OBVIOUS
    <2>2. burn_coins(b, e, Coin(d, n)) = m
      BY <1>1, <2>1, CoinMoves
    <2>3. b[e][d] + -n \in Nat
      BY <1>1, <1>4 DEF CanPay
    <2>4. m \in Purse /\ m \in Ledger
      BY <1>1, <2>1, <2>3, PurseMove, PurseLedger
    <2>5. unescrow_coins(b, h, e, Coin(d, n)) = Move(m, h, d, n)
      BY <1>1, <2>2, <2>4, CoinMoves DEF unescrow_coins
    <2>6. m[h][d] + n \in Nat
      BY <1>1, <2>4 DEF Purse
    <2>7. Move(m, h, d, n) \in Purse
      BY <1>1, <2>4, <2>6, PurseMove
    <2>8. Escrowed(b, Move(m, h, d, n), e, d, -n)
      BY <1>1, <2>1, TwoMoves
    <2> QED BY <2>5, <2>7, <2>8
  <1> QED BY <1>2, <1>3, <1>4

----------------------------------------------------------------------------
\* CoinsConserved for the accounts b and the amounts t under way.
NativeKept(b) ==
  \A c \in Chains, d \in Denoms :
    d.trace = <<>> => Supply(b, c, d) = Supply(InitBank, c, d)
Conserved(b, t) == Backed(b, t) /\ NativeKept(b)

LEMMA ConservedNow ==
  ASSUME NEW b, b = bank, NEW t, t = Transit
  PROVE  CoinsConserved <=> Conserved(b, t)
  <1>1. ASSUME NEW e \in End, NEW d \in Denoms, IsOrigin(e, d)
        PROVE  /\ t[<<e, d>>] = InTransit(e, d)
               /\ t[<<Peer(e), Voucher(e, d)>>] = InTransit(Peer(e), Voucher(e, d))
    <2>1. Peer(e) \in End /\ Voucher(e, d) \in Denoms
      BY <1>1, EndFacts, VoucherFacts DEF IsOrigin
    <2> QED BY <2>1 DEF Transit
  <1>2. EscrowBacksVouchers <=> Backed(b, t)
    BY <1>1 DEF EscrowBacksVouchers, Backed
  <1> QED BY <1>2 DEF CoinsConserved, Conserved, NativeSupplyConstant, NativeKept

LEMMA ConservedNext ==
  ASSUME NEW b, b = bank', NEW t, t = Transit', Conserved(b, t)
  PROVE  CoinsConserved'
  <1>1. ASSUME NEW e \in End, NEW d \in Denoms, IsOrigin(e, d)
        PROVE  bank'[e][d] = Supply(bank', Peer(e).chain, Voucher(e, d))
                             + InTransit(e, d)' + InTransit(Peer(e), Voucher(e, d))'
    <2>1. Peer(e) \in End /\ Voucher(e, d) \in Denoms
      BY <1>1, EndFacts, VoucherFacts DEF IsOrigin
    <2>2. /\ t[<<e, d>>] = InTransit(e, d)'
          /\ t[<<Peer(e), Voucher(e, d)>>] = InTransit(Peer(e), Voucher(e, d))'
      BY <2>1 DEF Transit
    <2>3. b[e][d] = Supply(b, Peer(e).chain, Voucher(e, d))
                    + t[<<e, d>>] + t[<<Peer(e), Voucher(e, d)>>]
      BY <1>1 DEF Conserved, Backed
    <2> QED BY <2>2, <2>3
  <1>2. EscrowBacksVouchers'
    BY <1>1 DEF EscrowBacksVouchers
  <1>3. NativeSupplyConstant'
    BY DEF Conserved, NativeKept, NativeSupplyConstant
  <1> QED BY <1>2, <1>3 DEF CoinsConserved

\* An exchange with an escrow keeps every supply; made or burnt are vouchers.
LEMMA NativeEscrowed ==
  ASSUME NEW b, NativeKept(b), NEW b1, NEW e, NEW d, NEW k, Escrowed(b, b1, e, d, k)
  PROVE  NativeKept(b1)
  BY DEF NativeKept, Escrowed

LEMMA NativeMade ==
  ASSUME NEW b, NativeKept(b), NEW b1, NEW a, NEW d, NEW k, Made(b, b1, a, d, k),
         d.trace # <<>>
  PROVE  NativeKept(b1)
  BY DEF NativeKept, Made

----------------------------------------------------------------------------
\* The steps.  Every one sends a packet, credits one, refunds one, or does
\* nothing to the coins.

Origin(e, p) == is_sender_chain_source(e.port, e.chan, Of(p))
CoinOf(p) == Coin(Of(p), p.data.amount)
From(e, p) == Account(e.chain, p.data.sender)
To(e, p) == Account(Peer(e).chain, p.data.receiver)
HomeOf(d) == [d EXCEPT !.trace = Front(@)]

Sends(e, p) ==
  /\ p \in SentBy(e) /\ p \notin Packets(e)
  /\ p.seq \in 1..MaxSends /\ \A q \in Packets(e) : q.seq # p.seq
  /\ \A f \in End : Packets(f)' = IF f = e THEN Packets(f) \cup {p} ELSE Packets(f)
  /\ OthersStand(e, p) /\ ~ Credited(e, p)' /\ ~ Refunded(e, p)'
  /\ CanPay(bank, From(e, p), CoinOf(p))
  /\ bank' = IF Origin(e, p) THEN escrow_coins(bank, From(e, p), e, CoinOf(p))
             ELSE burn_coins(bank, From(e, p), CoinOf(p))

Refunds(e, p) ==
  /\ p \in Packets(e) /\ SamePackets /\ OthersStand(e, p)
  /\ ~ Credited(e, p) /\ ~ Refunded(e, p)
  /\ ~ Credited(e, p)' /\ Refunded(e, p)'
  /\ Origin(e, p) => CanPay(bank, e, CoinOf(p))
  /\ bank' = IF Origin(e, p) THEN unescrow_coins(bank, From(e, p), e, CoinOf(p))
             ELSE mint_coins(bank, From(e, p), CoinOf(p))

\* p of e is credited at the other end.
Credits(e, p) ==
  /\ p \in Packets(e) /\ SamePackets /\ OthersStand(e, p)
  /\ ~ Credited(e, p) /\ ~ Refunded(e, p)
  /\ Credited(e, p)' /\ ~ Refunded(e, p)'
  /\ p.data.receiver \in Names
  /\ ~ Origin(e, p) => CanPay(bank, Peer(e), Coin(HomeOf(Of(p)), p.data.amount))
  /\ bank' = IF Origin(e, p)
             THEN mint_coins(bank, To(e, p), Coin(Voucher(e, Of(p)), p.data.amount))
             ELSE unescrow_coins(bank, To(e, p), Peer(e),
                                 Coin(HomeOf(Of(p)), p.data.amount))

Idles ==
  /\ bank' = bank /\ SamePackets
  /\ \A f \in End : \A q \in Packets(f) : /\ Credited(f, q)' <=> Credited(f, q)
                                          /\ Refunded(f, q)' <=> Refunded(f, q)

LEMMA SendIsSend ==
  ASSUME Books, NEW e \in End, Send(e)
  PROVE  Books' /\ \E p : Sends(e, p)
  <1>1. PICK sender \in Names, receiver \in Receivers, d \in Denoms, n \in Amounts :
          /\ Total([x \in End |-> Len(sent[x])], End) < MaxSends
          /\ is_sender_chain_source(e.port, e.chan, d) => Len(d.trace) < MaxHops
          /\ SendTransfer(e, sender, receiver, [denom |-> d, amount |-> n])
    BY Zenon DEF Send
  <1> DEFINE p == [seq |-> Len(sent[e]) + 1,
                   data |-> PacketDataToRaw(sender, receiver, [denom |-> d, amount |-> n])]
  <1>2. /\ CanPay(bank, Account(e.chain, sender), Coin(d, n))
        /\ bank' = IF is_sender_chain_source(e.port, e.chan, d)
                   THEN escrow_coins(bank, Account(e.chain, sender), e, Coin(d, n))
                   ELSE burn_coins(bank, Account(e.chain, sender), Coin(d, n))
        /\ Channel!DSend(e, p)
    BY <1>1, Zenon DEF SendTransfer, Coin
  <1>3. \A x \in End : Len(sent[x]) \in Nat
    BY DEF Books, SentOK
  <1>4. Len(sent[e]) < MaxSends
    <2>1. PICK w : w = [x \in End |-> Len(sent[x])]
      OBVIOUS
    <2>2. \A x \in End : w[x] \in Nat /\ w[x] = Len(sent[x])
      BY <1>3, <2>1
    <2>3. Total(w, End) \in Nat /\ w[e] <= Total(w, End)
      BY <2>2, TotalNat, EndAssumption
    <2>4. Total(w, End) < MaxSends
      BY <1>1, <2>1
    <2> QED BY <2>2, <2>3, <2>4, BoundsAssumption
  <1>5. /\ p.data.denom = DenomToText(d) /\ p.data.amount = n
        /\ p.data.sender = sender /\ p.data.receiver = receiver /\ p.seq = Len(sent[e]) + 1
    BY DEF PacketDataToRaw
  <1>6. p \in SentBy(e)
    <2>1. d \in Sendable(e)
      BY <1>1 DEF Sendable
    <2>2. Len(sent[e]) + 1 \in Nat
      BY <1>3
    <2> QED BY <2>1, <2>2 DEF SentBy, PacketDataToRaw
  <1>7. PICK q \in SentBy(e) : q = p
    BY <1>6
  <1> HIDE DEF p
  <1>8. Of(q) = d
    BY <1>5, <1>7, SentFacts
  <1>9. /\ Books' /\ q \notin Packets(e)
        /\ \A f \in End : Packets(f)' = IF f = e THEN Packets(f) \cup {q} ELSE Packets(f)
        /\ OthersStand(e, q) /\ ~ Credited(e, q)' /\ ~ Refunded(e, q)'
    BY <1>2, <1>4, <1>7, SendStep
  <1>10. From(e, q) = Account(e.chain, sender) /\ CoinOf(q) = Coin(d, n)
    BY <1>5, <1>7, <1>8 DEF CoinOf, From
  <1>11. Origin(e, q) <=> is_sender_chain_source(e.port, e.chan, d)
    BY <1>8 DEF Origin
  <1>12. q.seq \in 1..MaxSends /\ \A r \in Packets(e) : r.seq # q.seq
    <2>1. q.seq = Len(sent[e]) + 1 /\ Len(sent[e]) \in Nat
      BY <1>3, <1>5, <1>7
    <2>2. \A r \in Packets(e) : r.seq \in 1..MaxSends /\ r.seq <= Len(sent[e])
      BY PacketFacts DEF Books
    <2> QED BY <1>4, <2>1, <2>2, BoundsAssumption
  <1>13. Sends(e, q)
    BY <1>2, <1>9, <1>10, <1>11, <1>12 DEF Sends
  <1> QED BY <1>9, <1>13

\* The denomination that comes home is the one that the voucher stands for.
LEMMA HomeFacts ==
  ASSUME NEW e \in End, NEW d \in Denoms, ~ is_sender_chain_source(e.port, e.chan, d)
  PROVE  /\ remove_trace_prefix(d, TracePrefix(e.port, e.chan)) = HomeOf(d)
         /\ HomeOf(d) \in Denoms /\ Len(HomeOf(d).trace) < MaxHops
         /\ Voucher(Peer(e), HomeOf(d)) = d
  <1>1. d.trace # <<>> /\ Last(d.trace) = HopOf(e)
    BY SourceFacts
  <1>2. /\ d.trace \in Seq(Hops) /\ Len(d.trace) <= MaxHops /\ d.base \in Bases
        /\ d = [trace |-> d.trace, base |-> d.base]
    BY DenomFacts
  <1> DEFINE f == Front(d.trace)
  <1>3. /\ f \in Seq(Hops) /\ Len(f) = Len(d.trace) - 1 /\ Len(d.trace) \in Nat
        /\ d.trace = Append(f, Last(d.trace))
    <2>1. PICK t \in Seq(Hops) : t = d.trace
      BY <1>2
    <2>2. PICK n \in Nat : n = Len(t) /\ n # 0
      BY <1>1, <2>1
    <2>3. /\ SubSeq(t, 1, Len(t) - 1) \in Seq(Hops)
          /\ Len(SubSeq(t, 1, Len(t) - 1)) = Len(t) - 1
          /\ \A i \in 1..(Len(t) - 1) : SubSeq(t, 1, Len(t) - 1)[i] = t[i]
      <3>1. Len(t) - 1 \in Int /\ \A i \in 1..(Len(t) - 1) : t[i] \in Hops
        BY <2>2
      <3>2. \A i \in 1..(Len(t) - 1) : 1 + i - 1 = i /\ i \in 1..((Len(t) - 1) - 1 + 1)
        BY <2>2
      <3>3. /\ SubSeq(t, 1, Len(t) - 1) \in Seq(Hops)
            /\ Len(SubSeq(t, 1, Len(t) - 1)) =
                 IF 1 <= Len(t) - 1 THEN (Len(t) - 1) - 1 + 1 ELSE 0
            /\ \A i \in 1..((Len(t) - 1) - 1 + 1) : SubSeq(t, 1, Len(t) - 1)[i] = t[1 + i - 1]
        BY <3>1, SubSeqProperties
      <3>4. Len(SubSeq(t, 1, Len(t) - 1)) = Len(t) - 1
        <4>1. (IF 1 <= n - 1 THEN (n - 1) - 1 + 1 ELSE 0) = n - 1
          BY <2>2
        <4> QED BY <2>2, <3>3, <4>1
      <3> QED BY <3>2, <3>3, <3>4
    <2>4. t = Append(SubSeq(t, 1, Len(t) - 1), t[Len(t)])
      BY <2>2, <2>3
    <2> QED BY <2>1, <2>2, <2>3, <2>4 DEF Front, Last
  <1>4. HomeOf(d) = [trace |-> f, base |-> d.base]
    BY <1>2 DEF HomeOf
  <1>5. remove_trace_prefix(d, TracePrefix(e.port, e.chan)) = HomeOf(d)
    BY <1>1 DEF remove_trace_prefix, remove_prefix, starts_with, TracePrefix, HopOf, HomeOf
  <1> HIDE DEF f
  <1>6. Len(f) < MaxHops /\ Len(f) <= MaxHops
    BY <1>2, <1>3, BoundsAssumption
  <1>7. [trace |-> f, base |-> d.base] \in Denoms
    BY <1>2, <1>3, <1>6, DenomMade
  <1>8. Voucher(Peer(e), HomeOf(d)) = [trace |-> Append(f, HopOf(e)), base |-> d.base]
    <2>1. PICK c : c = Peer(e)
      OBVIOUS
    <2>2. Peer(c) = e
      BY <2>1, EndFacts
    <2>3. Voucher(c, [trace |-> f, base |-> d.base]) =
            [trace |-> Append(f, HopOf(e)), base |-> d.base]
      BY <2>2 DEF Voucher, HopOf
    <2> QED BY <1>4, <2>1, <2>3
  <1>9. Voucher(Peer(e), HomeOf(d)) = d
    BY <1>1, <1>2, <1>3, <1>8
  <1>10. HomeOf(d).trace = f
    BY <1>4
  <1> QED BY <1>4, <1>5, <1>6, <1>7, <1>9, <1>10

\* on_recv_packet: the packet is credited, or nothing happens.
LEMMA RecvIsStep ==
  ASSUME Books, NEW e \in End, NEW p \in Packets(Peer(e)), RecvPacket(e, p)
  PROVE  Books' /\ (Idles \/ Credits(Peer(e), p))
  <1> DEFINE src == Peer(e)
             data == [coin |-> [denom |-> Of(p), amount |-> p.data.amount],
                      sender |-> p.data.sender, receiver |-> p.data.receiver]
             after == process_recv_packet(e, data)
  <1>0. src \in End /\ Peer(src) = e /\ p \in SentBy(src)
    BY EndFacts, PacketFacts DEF Books
  <1>1. /\ PacketDataFromRaw(p.data) = {data} /\ Of(p) \in Denoms
        /\ Origin(src, p) => IsOrigin(src, Of(p))
    BY <1>0, SentFacts DEF Origin
  <1>2. UNION {process_recv_packet(e, x) : x \in PacketDataFromRaw(p.data)} = after
    BY <1>1
  <1>3. PICK a \in Replies :
          /\ Channel!DDeliver(e, p, a)
          /\ IF a = "success" THEN bank' \in after ELSE bank' = bank
    <2> HIDE DEF after
    <2> QED BY <1>2 DEF RecvPacket, Replies
  <1>4. /\ Books' /\ SamePackets /\ OthersStand(src, p)
        /\ ~ Credited(src, p) /\ ~ Refunded(src, p) /\ ~ Refunded(src, p)'
        /\ Credited(src, p)' <=> a = "success"
    BY <1>3, DeliverStep
  <1>5. CASE a # "success"
    <2>1. bank' = bank /\ ~ Credited(src, p)'
      BY <1>3, <1>4, <1>5
    <2> HIDE DEF src
    <2>2. Idles
      BY <1>4, <2>1 DEF Idles, OthersStand
    <2> QED BY <1>4, <2>2
  <1>6. CASE a = "success"
    <2>1. bank' \in after /\ Credited(src, p)'
      BY <1>3, <1>4, <1>6
    <2>2. data.receiver = p.data.receiver /\ data.coin = CoinOf(p)
      BY DEF CoinOf, Coin
    <2>3. is_receiver_chain_source(src.port, src.chan, Of(p)) <=> ~ Origin(src, p)
      BY DEF Origin, is_sender_chain_source
    <2>4. CoinOf(p).denom = Of(p) /\ CoinOf(p).amount = p.data.amount
      BY DEF CoinOf, Coin
    <2>5. p.data.receiver \in Names
      BY <2>1, <2>2 DEF process_recv_packet
    <2>6. CASE Origin(src, p)
      <3>1. [CoinOf(p) EXCEPT !.denom = add_trace_prefix(@, TracePrefix(e.port, e.chan))] =
              Coin(Voucher(src, Of(p)), p.data.amount)
        <4>1. add_trace_prefix(Of(p), TracePrefix(e.port, e.chan)) = Voucher(src, Of(p))
          <5>1. Peer(src).port = e.port /\ Peer(src).chan = e.chan
            BY <1>0
          <5> HIDE DEF src
          <5> QED BY <5>1 DEF add_trace_prefix, add_prefix, TracePrefix, Voucher
        <4> QED BY <4>1 DEF CoinOf, Coin
      <3>2. bank' = mint_coins(bank, Account(e.chain, p.data.receiver),
                               Coin(Voucher(src, Of(p)), p.data.amount))
        BY <2>1, <2>2, <2>3, <2>4, <2>5, <2>6, <3>1 DEF process_recv_packet
      <3>3. Credits(src, p)
        BY <1>0, <1>4, <2>1, <2>5, <2>6, <3>2 DEF Credits, To
      <3> QED BY <1>4, <3>3
    <2>7. CASE ~ Origin(src, p)
      <3>1. [CoinOf(p) EXCEPT !.denom = remove_trace_prefix(@, TracePrefix(src.port, src.chan))] =
              Coin(HomeOf(Of(p)), p.data.amount)
        <4>1. remove_trace_prefix(Of(p), TracePrefix(src.port, src.chan)) = HomeOf(Of(p))
          BY <1>0, <1>1, <2>7, HomeFacts DEF Origin
        <4> QED BY <4>1 DEF CoinOf, Coin
      <3>2. /\ CanPay(bank, e, Coin(HomeOf(Of(p)), p.data.amount))
            /\ bank' = unescrow_coins(bank, Account(e.chain, p.data.receiver), e,
                                      Coin(HomeOf(Of(p)), p.data.amount))
        BY <2>1, <2>2, <2>3, <2>4, <2>5, <2>7, <3>1 DEF process_recv_packet
      <3>3. Credits(src, p)
        BY <1>0, <1>4, <2>1, <2>5, <2>7, <3>2 DEF Credits, To
      <3> QED BY <1>4, <3>3
    <2> QED BY <2>6, <2>7
  <1> QED BY <1>5, <1>6

\* refund_packet_token on the data of a packet.
LEMMA RefundFacts ==
  ASSUME Books, NEW e \in End, NEW p \in Packets(e),
         NEW data \in PacketDataFromRaw(p.data), Refund(e, data)
  PROVE  /\ Origin(e, p) => CanPay(bank, e, CoinOf(p))
         /\ bank' = IF Origin(e, p) THEN unescrow_coins(bank, From(e, p), e, CoinOf(p))
                    ELSE mint_coins(bank, From(e, p), CoinOf(p))
  <1>1. p \in SentBy(e)
    BY PacketFacts DEF Books
  <1>2. data = [coin |-> [denom |-> Of(p), amount |-> p.data.amount],
                sender |-> p.data.sender, receiver |-> p.data.receiver]
    BY <1>1, SentFacts
  <1>3. data.coin = CoinOf(p) /\ data.coin.denom = Of(p) /\ data.sender = p.data.sender
    BY <1>2 DEF CoinOf, Coin
  <1> QED BY <1>3 DEF Refund, refund_packet_token, Origin, From

\* on_acknowledgement_packet: nothing for a success, a refund for an error.
LEMMA AckIsStep ==
  ASSUME Books, NEW e \in End, NEW p \in Packets(e), AcknowledgePacket(e, p)
  PROVE  Books' /\ (Idles \/ Refunds(e, p))
  <1>1. PICK data \in PacketDataFromRaw(p.data) :
          /\ IF reply[Peer(e)][p.seq] = "success" THEN bank' = bank ELSE Refund(e, data)
          /\ Channel!DAcknowledge(e, p)
    BY DEF AcknowledgePacket
  <1>2. Peer(e) \in End /\ p.seq \in 1..MaxSends
    BY EndFacts, PacketFacts DEF Books
  <1>3. PICK o \in Replies \cup {"none", "timeout"} : o = reply[Peer(e)][p.seq]
    BY <1>2 DEF Books, ReplyOK
  <1>4. Channel!DSettle(e, p, o)
    BY <1>1, <1>3 DEF Channel!DAcknowledge
  <1>5. /\ Books' /\ SamePackets /\ OthersStand(e, p)
        /\ Credited(e, p)' <=> Credited(e, p)
        /\ ~ Refunded(e, p)
        /\ Refunded(e, p)' <=> o # "success"
        /\ o # "success" => ~ Credited(e, p)
    BY <1>3, <1>4, SettleStep
  <1>6. CASE o = "success"
    <2>1. bank' = bank
      BY <1>1, <1>3, <1>6
    <2>2. Idles
      BY <1>5, <1>6, <2>1 DEF Idles, OthersStand
    <2> QED BY <1>5, <2>2
  <1>7. CASE o # "success"
    <2>1. Refund(e, data)
      BY <1>1, <1>3, <1>7
    <2>2. Refunds(e, p)
      BY <1>5, <1>7, <2>1, RefundFacts DEF Refunds
    <2> QED BY <1>5, <2>2
  <1> QED BY <1>6, <1>7

\* on_timeout_packet: a refund.
LEMMA TimeoutIsStep ==
  ASSUME Books, NEW e \in End, NEW p \in Packets(e), TimeoutPacket(e, p)
  PROVE  Books' /\ Refunds(e, p)
  <1>1. PICK data \in PacketDataFromRaw(p.data) : Refund(e, data) /\ Channel!DTimeout(e, p)
    BY DEF TimeoutPacket
  <1>2. PICK o \in Replies \cup {"none", "timeout"} : o = "timeout"
    OBVIOUS
  <1>3. p \notin Channel!Elements(received[Peer(e)]) /\ Channel!DSettle(e, p, o)
    BY <1>1, <1>2 DEF Channel!DTimeout
  <1>4. /\ Books' /\ SamePackets /\ OthersStand(e, p)
        /\ Credited(e, p)' <=> Credited(e, p)
        /\ ~ Refunded(e, p)
        /\ Refunded(e, p)' <=> o # "success"
        /\ o # "success" => ~ Credited(e, p)
    BY <1>2, <1>3, SettleStep
  <1>5. o # "success"
    BY <1>2
  <1>6. Refunds(e, p)
    BY <1>1, <1>4, <1>5, RefundFacts DEF Refunds
  <1> QED BY <1>4, <1>6

\* Every step is one of the four.
LEMMA StepKinds ==
  ASSUME Books, [Next]_vars
  PROVE  /\ Books'
         /\ Idles \/ \E e \in End : \E p : Sends(e, p) \/ Credits(e, p) \/ Refunds(e, p)
  <1>1. CASE Next
    <2>1. PICK e \in End :
            \/ Send(e)
            \/ \E p \in Packets(Peer(e)) : RecvPacket(e, p)
            \/ \E p \in Packets(e) : AcknowledgePacket(e, p)
            \/ \E p \in Packets(e) : TimeoutPacket(e, p)
      BY <1>1 DEF Next
    <2>2. CASE Send(e)
      BY <2>2, SendIsSend
    <2>3. CASE \E p \in Packets(Peer(e)) : RecvPacket(e, p)
      <3>1. Peer(e) \in End
        BY EndFacts
      <3> QED BY <2>3, <3>1, RecvIsStep
    <2>4. CASE \E p \in Packets(e) : AcknowledgePacket(e, p)
      BY <2>4, AckIsStep
    <2>5. CASE \E p \in Packets(e) : TimeoutPacket(e, p)
      BY <2>5, TimeoutIsStep
    <2> QED BY <2>1, <2>2, <2>3, <2>4, <2>5
  <1>2. CASE UNCHANGED vars
    <2>1. bank' = bank /\ sent' = sent /\ received' = received /\ settled' = settled /\ reply' = reply
      BY <1>2 DEF vars
    <2>2. Idles
      BY <2>1 DEF Idles, SamePackets, Packets, Credited, Refunded
    <2>3. Books'
      BY <2>1 DEF Books, SentOK, ReceivedOK, SettledOK, ReplyOK, NeverBoth,
                  Packets, Credited, Refunded
    <2> QED BY <2>2, <2>3
  <1> QED BY <1>1, <1>2

----------------------------------------------------------------------------
\* Each kind of step keeps the accounts typed and the coins conserved.

LEMMA Settled ==
  ASSUME NEW b1 \in Purse, b1 = bank', NEW t1, t1 = Transit', Backed(b1, t1), NativeKept(b1)
  PROVE  bank' \in Purse /\ CoinsConserved'
  BY ConservedNext DEF Conserved

LEMMA ToSend ==
  ASSUME Books, bank \in Purse, CoinsConserved, NEW e \in End, NEW p, Sends(e, p)
  PROVE  bank' \in Purse /\ CoinsConserved'
  <1>1. PICK d \in Denoms, n \in Nat :
          d = Of(p) /\ n = p.data.amount /\ CoinOf(p) = Coin(d, n)
    BY SentFacts DEF Sends, CoinOf
  <1>2. PICK h \in Holders : h = From(e, p) /\ h \notin End /\ h.chain = e.chain
    BY SentFacts, EndFacts, AccountFacts DEF Sends, From
  <1>3. PICK b \in Purse, t \in Flow : b = bank /\ t = Transit
    BY TransitType
  <1>4. b \in Ledger /\ Backed(b, t) /\ NativeKept(b) /\ n \in Int /\ -n \in Int
    <2>1. n \in Int /\ -n \in Int
      OBVIOUS
    <2> QED BY <1>3, <2>1, PurseLedger, ConservedNow DEF Conserved
  <1>5. PICK b1 : b1 = bank'
    OBVIOUS
  <1>6. PICK t1 : t1 = Transit' /\ t1 = Shift(t, e, d, n)
    BY <1>1, <1>3, Opens DEF Sends
  <1>7. CASE Origin(e, p)
    <2>1. CanPay(b, h, Coin(d, n)) /\ b1 = escrow_coins(b, h, e, Coin(d, n))
      BY <1>1, <1>2, <1>3, <1>5, <1>7 DEF Sends
    <2>2. b1 \in Purse /\ Escrowed(b, b1, e, d, n)
      BY <1>2, <2>1, Payments
    <2>3. is_sender_chain_source(e.port, e.chan, d)
      BY <1>1, <1>7 DEF Origin
    <2>4. Backed(b1, t1)
      BY <1>4, <1>6, <2>2, <2>3, EscrowBalance
    <2>5. NativeKept(b1)
      BY <1>4, <2>2, NativeEscrowed
    <2> QED BY <1>5, <1>6, <2>2, <2>4, <2>5, Settled
  <1>8. CASE ~ Origin(e, p)
    <2>1. CanPay(b, h, Coin(d, n)) /\ b1 = burn_coins(b, h, Coin(d, n))
      BY <1>1, <1>2, <1>3, <1>5, <1>8 DEF Sends
    <2>2. b1 \in Purse /\ Made(b, b1, e.chain, d, -n)
      BY <1>2, <2>1, Payments
    <2>3. ~ is_sender_chain_source(e.port, e.chan, d)
      BY <1>1, <1>8 DEF Origin
    <2>4. Backed(b1, t1)
      BY <1>4, <1>6, <2>2, <2>3, BurnBalance
    <2>5. NativeKept(b1)
      BY <1>4, <2>2, <2>3, NativeMade, SourceFacts
    <2> QED BY <1>5, <1>6, <2>2, <2>4, <2>5, Settled
  <1> QED BY <1>7, <1>8

LEMMA ToRefund ==
  ASSUME Books, bank \in Purse, CoinsConserved, NEW e \in End, NEW p, Refunds(e, p)
  PROVE  bank' \in Purse /\ CoinsConserved'
  <1>0. p \in SentBy(e)
    BY PacketFacts DEF Refunds, Books
  <1>1. PICK d \in Denoms, n \in Nat :
          d = Of(p) /\ n = p.data.amount /\ CoinOf(p) = Coin(d, n)
    BY <1>0, SentFacts DEF CoinOf
  <1>2. PICK h \in Holders : h = From(e, p) /\ h \notin End /\ h.chain = e.chain
    BY <1>0, SentFacts, EndFacts, AccountFacts DEF From
  <1>3. PICK b \in Purse, t \in Flow : b = bank /\ t = Transit
    BY TransitType
  <1>4. PICK k \in Int : k = -n /\ -k = n
    OBVIOUS
  <1>5. b \in Ledger /\ Backed(b, t) /\ NativeKept(b)
    BY <1>3, PurseLedger, ConservedNow DEF Conserved
  <1>6. PICK b1 : b1 = bank'
    OBVIOUS
  <1>7. PICK t1 : t1 = Transit' /\ t1 = Shift(t, e, d, k)
    BY <1>1, <1>3, <1>4, Closes DEF Refunds
  <1>8. CASE Origin(e, p)
    <2>1. CanPay(b, e, Coin(d, n)) /\ b1 = unescrow_coins(b, h, e, Coin(d, n))
      BY <1>1, <1>2, <1>3, <1>6, <1>8 DEF Refunds
    <2>2. b1 \in Purse /\ Escrowed(b, b1, e, d, k)
      BY <1>2, <1>4, <2>1, Payments
    <2>3. is_sender_chain_source(e.port, e.chan, d)
      BY <1>1, <1>8 DEF Origin
    <2>4. Backed(b1, t1)
      BY <1>5, <1>7, <2>2, <2>3, EscrowBalance
    <2>5. NativeKept(b1)
      BY <1>5, <2>2, NativeEscrowed
    <2> QED BY <1>6, <1>7, <2>2, <2>4, <2>5, Settled
  <1>9. CASE ~ Origin(e, p)
    <2>1. b1 = mint_coins(b, h, Coin(d, n))
      BY <1>1, <1>2, <1>3, <1>6, <1>9 DEF Refunds
    <2>2. b1 \in Purse /\ Made(b, b1, e.chain, d, n)
      BY <1>2, <2>1, Payments
    <2>3. Made(b, b1, e.chain, d, -k)
      BY <1>4, <2>2
    <2>4. ~ is_sender_chain_source(e.port, e.chan, d)
      BY <1>1, <1>9 DEF Origin
    <2>5. Backed(b1, t1)
      BY <1>5, <1>7, <2>3, <2>4, BurnBalance
    <2>6. NativeKept(b1)
      BY <1>5, <2>2, <2>4, NativeMade, SourceFacts
    <2> QED BY <1>6, <1>7, <2>2, <2>5, <2>6, Settled
  <1> QED BY <1>8, <1>9

LEMMA ToCredit ==
  ASSUME Books, bank \in Purse, CoinsConserved, NEW e \in End, NEW p, Credits(e, p)
  PROVE  bank' \in Purse /\ CoinsConserved'
  <1>0. p \in SentBy(e)
    BY PacketFacts DEF Credits, Books
  <1>1. PICK d \in Denoms, n \in Nat : d = Of(p) /\ n = p.data.amount
    BY <1>0, SentFacts
  <1>2. PICK f \in End : f = Peer(e) /\ Peer(f) = e
    BY EndFacts
  <1>3. PICK h \in Holders : h = To(e, p) /\ h \notin End /\ h.chain = f.chain
    BY <1>2, EndFacts, AccountFacts DEF Credits, To
  <1>4. PICK b \in Purse, t \in Flow : b = bank /\ t = Transit
    BY TransitType
  <1>5. PICK k \in Int : k = -n /\ -k = n
    OBVIOUS
  <1>6. b \in Ledger /\ Backed(b, t) /\ NativeKept(b)
    BY <1>4, PurseLedger, ConservedNow DEF Conserved
  <1>7. PICK b1 : b1 = bank'
    OBVIOUS
  <1>8. PICK t1 : t1 = Transit' /\ t1 = Shift(t, e, d, k)
    BY <1>1, <1>4, <1>5, Closes DEF Credits
  <1>9. CASE Origin(e, p)
    <2>1. IsOrigin(e, d) /\ Len(d.trace) < MaxHops
      BY <1>0, <1>1, <1>9, SentFacts DEF Origin, IsOrigin
    <2>2. PICK v \in Denoms : v = Voucher(e, d) /\ v.trace # <<>>
      BY <2>1, VoucherFacts
    <2>3. b1 = mint_coins(b, h, Coin(v, n))
      BY <1>1, <1>3, <1>4, <1>7, <1>9, <2>2 DEF Credits
    <2>4. b1 \in Purse /\ Made(b, b1, f.chain, v, n)
      BY <1>3, <2>3, Payments
    <2>5. Made(b, b1, Peer(e).chain, Voucher(e, d), -k)
      BY <1>2, <1>5, <2>2, <2>4
    <2>6. Backed(b1, t1)
      BY <1>6, <1>8, <2>1, <2>5, AwayBalance
    <2>7. NativeKept(b1)
      BY <1>6, <2>2, <2>4, NativeMade
    <2> QED BY <1>7, <1>8, <2>4, <2>6, <2>7, Settled
  <1>10. CASE ~ Origin(e, p)
    <2>1. ~ is_sender_chain_source(e.port, e.chan, d)
      BY <1>1, <1>10 DEF Origin
    <2>2. PICK c \in Denoms : c = HomeOf(d) /\ Len(c.trace) < MaxHops /\ Voucher(f, c) = d
      BY <1>2, <2>1, HomeFacts
    <2>3. CanPay(b, f, Coin(c, n)) /\ b1 = unescrow_coins(b, h, f, Coin(c, n))
      BY <1>1, <1>2, <1>3, <1>4, <1>7, <1>10, <2>2 DEF Credits
    <2>4. b1 \in Purse /\ Escrowed(b, b1, f, c, k)
      BY <1>3, <1>5, <2>3, Payments
    <2>5. Backed(b1, Shift(t, Peer(f), Voucher(f, c), k))
      BY <1>6, <2>2, <2>4, HomeBalance
    <2>6. Backed(b1, t1)
      BY <1>2, <1>8, <2>2, <2>5
    <2>7. NativeKept(b1)
      BY <1>6, <2>4, NativeEscrowed
    <2> QED BY <1>7, <1>8, <2>4, <2>6, <2>7, Settled
  <1> QED BY <1>9, <1>10

LEMMA ToIdle ==
  ASSUME bank \in Purse, CoinsConserved, Idles
  PROVE  bank' \in Purse /\ CoinsConserved'
  <1>1. ASSUME NEW f \in End, NEW d \in Denoms
        PROVE  InTransit(f, d)' = InTransit(f, d)
    <2>1. Packets(f)' = Packets(f)
      BY DEF Idles, SamePackets
    <2>2. OpenPackets(f, d)' = OpenPackets(f, d)
      BY <2>1 DEF OpenPackets, Idles
    <2> QED BY <2>2, InTransitPrime DEF InTransit
  <1>2. Transit' = Transit
    BY <1>1 DEF Transit
  <1>3. PICK b, t : b = bank /\ t = Transit
    OBVIOUS
  <1>4. b = bank' /\ t = Transit'
    BY <1>2, <1>3 DEF Idles
  <1>5. Conserved(b, t)
    BY <1>3, ConservedNow
  <1> QED BY <1>4, <1>5, ConservedNext DEF Idles

----------------------------------------------------------------------------
\* Every account is what it was at first and what the packets did to it.

\* What sending and crediting p of e does to the d of h; a refund undoes the
\* sending.
Sending(e, p, h, d) ==
  IF d # Of(p) THEN 0
  ELSE IF h = From(e, p) THEN - p.data.amount
  ELSE IF Origin(e, p) /\ h = e THEN p.data.amount ELSE 0
Crediting(e, p, h, d) ==
  IF d # (IF Origin(e, p) THEN Voucher(e, Of(p)) ELSE HomeOf(Of(p))) THEN 0
  ELSE IF h = To(e, p) THEN p.data.amount
  ELSE IF ~ Origin(e, p) /\ h = Peer(e) THEN - p.data.amount ELSE 0
Effect(e, p, h, d) ==
  (IF Refunded(e, p) THEN 0 ELSE Sending(e, p, h, d))
  + (IF Credited(e, p) THEN Crediting(e, p, h, d) ELSE 0)

\* The packets by end and number, and their effects on the d of h.
Slots == End \X (1..MaxSends)
At(e, i) == {p \in Packets(e) : p.seq = i}
Posts(h, d) ==
  [x \in Slots |-> IF At(x[1], x[2]) = {} THEN 0
                   ELSE Effect(x[1], First(At(x[1], x[2])), h, d)]
Posted ==
  \A h \in Holders, d \in Denoms :
    bank[h][d] = InitBank[h][d] + Total(Posts(h, d), Slots)

LEMMA PaymentAt ==
  ASSUME NEW b \in Purse, NEW e \in End, NEW h \in Holders, h \notin End,
         NEW d \in Denoms, NEW n \in Nat, NEW g \in Holders, NEW c \in Denoms, NEW b1
  PROVE  /\ b[g][c] \in Int
         /\ b1 = mint_coins(b, h, Coin(d, n)) =>
              b1[g][c] = b[g][c] + (IF c # d THEN 0 ELSE IF g = h THEN n ELSE 0)
         /\ b1 = burn_coins(b, h, Coin(d, n)) =>
              b1[g][c] = b[g][c] + (IF c # d THEN 0 ELSE IF g = h THEN -n ELSE 0)
         /\ b1 = escrow_coins(b, h, e, Coin(d, n)) =>
              b1[g][c] = b[g][c] + (IF c # d THEN 0 ELSE IF g = h THEN -n
                                    ELSE IF g = e THEN n ELSE 0)
         /\ b1 = unescrow_coins(b, h, e, Coin(d, n)) =>
              b1[g][c] = b[g][c] + (IF c # d THEN 0 ELSE IF g = h THEN n
                                    ELSE IF g = e THEN -n ELSE 0)
  <1>1. PICK k \in Int : k = -n
    OBVIOUS
  <1>2. b \in Ledger /\ e \in Holders /\ n \in Int /\ b[g][c] \in Int /\ e # h
    <2>1. n \in Int
      OBVIOUS
    <2>2. b \in Ledger /\ b[g][c] \in Int
      BY PurseLedger DEF Purse
    <2> QED BY <2>1, <2>2, EndFacts
  <1>3. PICK m \in Ledger : m = Move(b, h, d, k)
    BY <1>2, MoveFacts
  <1>4. PICK l \in Ledger : l = Move(b, e, d, k)
    BY <1>2, MoveFacts
  <1>5. /\ burn_coins(b, h, Coin(d, n)) = m /\ burn_coins(b, e, Coin(d, n)) = l
        /\ mint_coins(b, h, Coin(d, n)) = Move(b, h, d, n)
        /\ escrow_coins(b, h, e, Coin(d, n)) = Move(m, e, d, n)
        /\ unescrow_coins(b, h, e, Coin(d, n)) = Move(l, h, d, n)
    BY <1>1, <1>2, <1>3, <1>4, CoinMoves DEF escrow_coins, unescrow_coins
  <1>6. /\ m[g][c] = IF g = h /\ c = d THEN b[g][c] + k ELSE b[g][c]
        /\ l[g][c] = IF g = e /\ c = d THEN b[g][c] + k ELSE b[g][c]
    BY <1>2, <1>3, <1>4, MoveAt
  <1>7. /\ b1 = Move(b, h, d, n) => b1[g][c] = IF g = h /\ c = d THEN b[g][c] + n ELSE b[g][c]
        /\ b1 = Move(m, e, d, n) => b1[g][c] = IF g = e /\ c = d THEN m[g][c] + n ELSE m[g][c]
        /\ b1 = Move(l, h, d, n) => b1[g][c] = IF g = h /\ c = d THEN l[g][c] + n ELSE l[g][c]
    BY <1>2, MoveAt
  <1> QED BY <1>1, <1>2, <1>5, <1>6, <1>7

LEMMA EffectInt ==
  ASSUME NEW e \in End, NEW p \in SentBy(e), NEW h, NEW d
  PROVE  /\ Sending(e, p, h, d) \in Int /\ Crediting(e, p, h, d) \in Int
         /\ Effect(e, p, h, d) \in Int
  <1>1. p.data.amount \in Int /\ - p.data.amount \in Int /\ 0 \in Int
    BY SentFacts
  <1>2. Sending(e, p, h, d) \in Int /\ Crediting(e, p, h, d) \in Int
    BY <1>1 DEF Sending, Crediting
  <1> QED BY <1>2 DEF Effect

\* The packet of a slot.
LEMMA SlotFacts ==
  ASSUME Books, NEW e \in End, NEW p \in Packets(e)
  PROVE  /\ At(e, p.seq) = {p} /\ First(At(e, p.seq)) = p
         /\ <<e, p.seq>> \in Slots /\ p \in SentBy(e)
  <1>1. /\ p \in SentBy(e) /\ p.seq \in 1..MaxSends
        /\ \A q \in Packets(e) : q.seq = p.seq => q = p
    BY PacketFacts DEF Books
  <1>2. At(e, p.seq) = {p}
    BY <1>1 DEF At
  <1> QED BY <1>1, <1>2 DEF First, Slots

LEMMA PostsInt ==
  ASSUME Books, NEW h, NEW d, NEW x \in Slots
  PROVE  Posts(h, d)[x] \in Int
  <1>1. PICK e \in End, i \in 1..MaxSends : x = <<e, i>>
    BY DEF Slots
  <1>2. Posts(h, d)[x] = IF At(e, i) = {} THEN 0 ELSE Effect(e, First(At(e, i)), h, d)
    BY <1>1 DEF Posts
  <1>3. ASSUME At(e, i) # {} PROVE Effect(e, First(At(e, i)), h, d) \in Int
    <2>1. PICK p \in Packets(e) : p.seq = i
      BY <1>3 DEF At
    <2>2. First(At(e, i)) = p /\ p \in SentBy(e)
      BY <2>1, SlotFacts
    <2>3. Effect(e, p, h, d) \in Int
      BY <2>2, EffectInt
    <2> QED BY <2>2, <2>3
  <1> QED BY <1>2, <1>3

LEMMA SlotsFinite == IsFiniteSet(Slots)
  <1>1. IsFiniteSet(1..MaxSends)
    BY BoundsAssumption, FS_Interval
  <1> QED BY <1>1, EndAssumption, FS_Product DEF Slots

\* From w to v, the slot s counts k more.
PostMore(w, v, s, k) ==
  \A x \in Slots : w[x] \in Int /\ v[x] = IF x = s THEN w[x] + k ELSE w[x]

LEMMA OnePost ==
  ASSUME NEW w, NEW v, NEW s \in Slots, NEW k \in Int, PostMore(w, v, s, k)
  PROVE  Total(w, Slots) \in Int /\ Total(v, Slots) = Total(w, Slots) + k
  <1>1. \A x \in Slots : w[x] \in Int
    BY DEF PostMore
  <1>2. \A x \in Slots : v[x] = IF x = s THEN w[x] + k ELSE w[x]
    BY DEF PostMore
  <1>3. Total(w, Slots) \in Int
    BY <1>1, SlotsFinite, TotalStep
  <1>4. Total(v, Slots) = Total(w, Slots) + k
    BY <1>1, <1>2, SlotsFinite, TotalChange
  <1> QED BY <1>3, <1>4

\* p of e changes its effect by k.
LEMMA PostChanged ==
  ASSUME Books, NEW e \in End, NEW p \in Packets(e), SamePackets, OthersStand(e, p),
         NEW h, NEW d, NEW k, Effect(e, p, h, d)' = Effect(e, p, h, d) + k,
         NEW x \in Slots
  PROVE  Posts(h, d)'[x] =
           IF x = <<e, p.seq>> THEN Posts(h, d)[x] + k ELSE Posts(h, d)[x]
  <1>1. PICK f \in End, i \in 1..MaxSends : x = <<f, i>>
    BY DEF Slots
  <1>2. /\ Posts(h, d)[x] = IF At(f, i) = {} THEN 0 ELSE Effect(f, First(At(f, i)), h, d)
        /\ Posts(h, d)'[x] = IF At(f, i)' = {} THEN 0 ELSE Effect(f, First(At(f, i)), h, d)'
    BY <1>1 DEF Posts
  <1>3. At(f, i)' = At(f, i)
    BY DEF At, SamePackets
  <1>4. CASE At(f, i) = {}
    <2>1. x # <<e, p.seq>>
      BY <1>1, <1>4, SlotFacts
    <2> QED BY <1>2, <1>3, <1>4, <2>1
  <1>5. CASE At(f, i) # {}
    <2>1. PICK q \in Packets(f) : q.seq = i
      BY <1>5 DEF At
    <2>2. At(f, i) = {q} /\ First(At(f, i)) = q
      BY <2>1, SlotFacts
    <2>3. First(At(f, i))' = q
      BY <1>3, <2>2 DEF First
    <2>4. /\ Posts(h, d)[x] = Effect(f, q, h, d)
          /\ Posts(h, d)'[x] = Effect(f, q, h, d)'
      BY <1>2, <1>3, <2>2, <2>3 DEF Effect
    <2>5. CASE x = <<e, p.seq>>
      <3>1. f = e /\ q = p
        BY <1>1, <2>1, <2>2, <2>5, SlotFacts
      <3> QED BY <2>4, <2>5, <3>1
    <2>6. CASE x # <<e, p.seq>>
      <3>1. ~ (f = e /\ q = p)
        BY <1>1, <2>1, <2>6
      <3>2. Effect(f, q, h, d)' = Effect(f, q, h, d)
        BY <3>1 DEF Effect, OthersStand
      <3> QED BY <2>4, <2>6, <3>2
    <2> QED BY <2>5, <2>6
  <1> QED BY <1>4, <1>5

\* p of e is a packet more.
LEMMA PostAdded ==
  ASSUME Books, NEW e \in End, NEW p, Sends(e, p),
         NEW h, NEW d, NEW k \in Int, Effect(e, p, h, d)' = k,
         NEW x \in Slots
  PROVE  Posts(h, d)'[x] =
           IF x = <<e, p.seq>> THEN Posts(h, d)[x] + k ELSE Posts(h, d)[x]
  <1>1. PICK f \in End, i \in 1..MaxSends : x = <<f, i>>
    BY DEF Slots
  <1>2. /\ Posts(h, d)[x] = IF At(f, i) = {} THEN 0 ELSE Effect(f, First(At(f, i)), h, d)
        /\ Posts(h, d)'[x] = IF At(f, i)' = {} THEN 0 ELSE Effect(f, First(At(f, i)), h, d)'
    BY <1>1 DEF Posts
  <1>3. CASE x = <<e, p.seq>>
    <2>1. At(f, i) = {} /\ At(f, i)' = {p} /\ f = e
      BY <1>1, <1>3 DEF At, Sends
    <2>2. First(At(f, i))' = p
      BY <2>1 DEF First
    <2>3. Posts(h, d)'[x] = Effect(e, p, h, d)'
      BY <1>2, <2>1, <2>2 DEF Effect
    <2> QED BY <1>2, <1>3, <2>1, <2>3
  <1>4. CASE x # <<e, p.seq>>
    <2>1. At(f, i)' = At(f, i)
      BY <1>1, <1>4 DEF At, Sends
    <2>2. CASE At(f, i) = {}
      BY <1>2, <1>4, <2>1, <2>2
    <2>3. CASE At(f, i) # {}
      <3>1. PICK q \in Packets(f) : q.seq = i
        BY <2>3 DEF At
      <3>2. At(f, i) = {q} /\ First(At(f, i)) = q
        BY <3>1, SlotFacts
      <3>3. First(At(f, i))' = q
        BY <2>1, <3>2 DEF First
      <3>4. /\ Posts(h, d)[x] = Effect(f, q, h, d)
            /\ Posts(h, d)'[x] = Effect(f, q, h, d)'
        BY <1>2, <2>1, <3>2, <3>3 DEF Effect
      <3>5. ~ (f = e /\ q = p)
        BY <1>1, <1>4, <3>1
      <3>6. Effect(f, q, h, d)' = Effect(f, q, h, d)
        BY <3>1, <3>5 DEF Effect, OthersStand, Sends
      <3> QED BY <1>4, <3>4, <3>6
    <2> QED BY <2>2, <2>3
  <1> QED BY <1>3, <1>4

LEMMA PostStep ==
  ASSUME Books, Posted, NEW h \in Holders, NEW d \in Denoms, NEW s \in Slots, NEW k \in Int,
         \A x \in Slots :
           Posts(h, d)'[x] = IF x = s THEN Posts(h, d)[x] + k ELSE Posts(h, d)[x],
         bank'[h][d] = bank[h][d] + k
  PROVE  bank'[h][d] = InitBank[h][d] + Total(Posts(h, d)', Slots)
  <1>1. PICK w : w = Posts(h, d) /\ \A x \in Slots : w[x] \in Int
    BY PostsInt
  <1>2. PICK v : v = Posts(h, d)'
    OBVIOUS
  <1>3. PostMore(w, v, s, k)
    BY <1>1, <1>2 DEF PostMore
  <1>4. Total(w, Slots) \in Int /\ Total(v, Slots) = Total(w, Slots) + k
    BY <1>3, OnePost
  <1>5. InitBank[h][d] \in Int
    BY BankAssumption
  <1>6. bank[h][d] = InitBank[h][d] + Total(w, Slots)
    BY <1>1 DEF Posted
  <1> QED BY <1>2, <1>4, <1>5, <1>6

LEMMA PostSend ==
  ASSUME Books, bank \in Purse, Posted, NEW e \in End, NEW p, Sends(e, p)
  PROVE  Posted'
  <1> SUFFICES ASSUME NEW g \in Holders, NEW c \in Denoms
               PROVE  bank'[g][c] = InitBank[g][c] + Total(Posts(g, c)', Slots)
    BY DEF Posted
  <1>1. p \in SentBy(e) /\ <<e, p.seq>> \in Slots
    <2>1. p \in SentBy(e) /\ p.seq \in 1..MaxSends
      BY DEF Sends
    <2> QED BY <2>1 DEF Slots
  <1>2. PICK d \in Denoms, n \in Nat :
          d = Of(p) /\ n = p.data.amount /\ CoinOf(p) = Coin(d, n)
    BY <1>1, SentFacts DEF CoinOf
  <1>3. PICK h \in Holders : h = From(e, p) /\ h \notin End
    BY <1>1, SentFacts, EndFacts, AccountFacts DEF From
  <1>4. PICK k \in Int : k = Sending(e, p, g, c)
    BY <1>1, EffectInt
  <1>5. k = IF c # d THEN 0 ELSE IF g = h THEN -n
            ELSE IF Origin(e, p) /\ g = e THEN n ELSE 0
    BY <1>2, <1>3, <1>4 DEF Sending
  <1>b. PICK b \in Purse : b = bank
    OBVIOUS
  <1>6. PICK b1 : b1 = bank'
    OBVIOUS
  <1>7. b1 = IF Origin(e, p) THEN escrow_coins(b, h, e, Coin(d, n))
             ELSE burn_coins(b, h, Coin(d, n))
    BY <1>2, <1>3, <1>b, <1>6 DEF Sends
  <1>8. b1[g][c] = b[g][c] + k
    BY <1>3, <1>5, <1>7, PaymentAt
  <1>9. Effect(e, p, g, c)' = k
    BY <1>4 DEF Effect, Sends
  <1>10. \A x \in Slots :
           Posts(g, c)'[x] = IF x = <<e, p.seq>> THEN Posts(g, c)[x] + k ELSE Posts(g, c)[x]
    BY <1>9, PostAdded
  <1> QED BY <1>1, <1>b, <1>6, <1>8, <1>10, PostStep

LEMMA PostRefund ==
  ASSUME Books, bank \in Purse, Posted, NEW e \in End, NEW p, Refunds(e, p)
  PROVE  Posted'
  <1> SUFFICES ASSUME NEW g \in Holders, NEW c \in Denoms
               PROVE  bank'[g][c] = InitBank[g][c] + Total(Posts(g, c)', Slots)
    BY DEF Posted
  <1>1. p \in SentBy(e) /\ <<e, p.seq>> \in Slots
    BY SlotFacts DEF Refunds
  <1>2. PICK d \in Denoms, n \in Nat :
          d = Of(p) /\ n = p.data.amount /\ CoinOf(p) = Coin(d, n)
    BY <1>1, SentFacts DEF CoinOf
  <1>3. PICK h \in Holders : h = From(e, p) /\ h \notin End
    BY <1>1, SentFacts, EndFacts, AccountFacts DEF From
  <1>4. PICK k \in Int : k = - Sending(e, p, g, c) /\ Sending(e, p, g, c) + k = 0
    BY <1>1, EffectInt
  <1>5. k = IF c # d THEN 0 ELSE IF g = h THEN n
            ELSE IF Origin(e, p) /\ g = e THEN -n ELSE 0
    BY <1>2, <1>3, <1>4 DEF Sending
  <1>b. PICK b \in Purse : b = bank
    OBVIOUS
  <1>6. PICK b1 : b1 = bank'
    OBVIOUS
  <1>7. b1 = IF Origin(e, p) THEN unescrow_coins(b, h, e, Coin(d, n))
             ELSE mint_coins(b, h, Coin(d, n))
    BY <1>2, <1>3, <1>b, <1>6 DEF Refunds
  <1>8. b1[g][c] = b[g][c] + k
    BY <1>3, <1>5, <1>7, PaymentAt
  <1>9. Effect(e, p, g, c)' = Effect(e, p, g, c) + k
    <2>1. Sending(e, p, g, c) \in Int
      BY <1>1, EffectInt
    <2>2. Effect(e, p, g, c) = Sending(e, p, g, c) /\ Effect(e, p, g, c)' = 0
      BY <2>1 DEF Effect, Refunds
    <2> QED BY <1>4, <2>2
  <1>10. \A x \in Slots :
           Posts(g, c)'[x] = IF x = <<e, p.seq>> THEN Posts(g, c)[x] + k ELSE Posts(g, c)[x]
    BY <1>9, PostChanged DEF Refunds
  <1> QED BY <1>1, <1>b, <1>6, <1>8, <1>10, PostStep

LEMMA PostCredit ==
  ASSUME Books, bank \in Purse, Posted, NEW e \in End, NEW p, Credits(e, p)
  PROVE  Posted'
  <1> SUFFICES ASSUME NEW g \in Holders, NEW c \in Denoms
               PROVE  bank'[g][c] = InitBank[g][c] + Total(Posts(g, c)', Slots)
    BY DEF Posted
  <1>1. p \in SentBy(e) /\ <<e, p.seq>> \in Slots
    BY SlotFacts DEF Credits
  <1>2. PICK n \in Nat : n = p.data.amount
    BY <1>1, SentFacts
  <1>3. PICK f \in End : f = Peer(e)
    BY EndFacts
  <1>4. PICK h \in Holders : h = To(e, p) /\ h \notin End
    BY <1>3, EndFacts, AccountFacts DEF Credits, To
  <1>5. PICK d \in Denoms : d = IF Origin(e, p) THEN Voucher(e, Of(p)) ELSE HomeOf(Of(p))
    <2>1. Of(p) \in Denoms /\ (Origin(e, p) => Len(Of(p).trace) < MaxHops)
      BY <1>1, SentFacts DEF Origin, IsOrigin
    <2> QED BY <2>1, VoucherFacts, HomeFacts DEF Origin
  <1>6. PICK k \in Int : k = Crediting(e, p, g, c)
    BY <1>1, EffectInt
  <1>7. k = IF c # d THEN 0 ELSE IF g = h THEN n
            ELSE IF ~ Origin(e, p) /\ g = f THEN -n ELSE 0
    BY <1>2, <1>3, <1>4, <1>5, <1>6 DEF Crediting
  <1>b. PICK b \in Purse : b = bank
    OBVIOUS
  <1>8. PICK b1 : b1 = bank'
    OBVIOUS
  <1>9. b1 = IF Origin(e, p) THEN mint_coins(b, h, Coin(d, n))
             ELSE unescrow_coins(b, h, f, Coin(d, n))
    BY <1>2, <1>3, <1>4, <1>5, <1>b, <1>8 DEF Credits
  <1>10. b1[g][c] = b[g][c] + k
    BY <1>4, <1>7, <1>9, PaymentAt
  <1>11. Effect(e, p, g, c)' = Effect(e, p, g, c) + k
    <2>1. Sending(e, p, g, c) \in Int
      BY <1>1, EffectInt
    <2>2. /\ Effect(e, p, g, c) = Sending(e, p, g, c) + 0
          /\ Effect(e, p, g, c)' = Sending(e, p, g, c) + k
      BY <1>6 DEF Effect, Credits
    <2> QED BY <2>1, <2>2
  <1>12. \A x \in Slots :
           Posts(g, c)'[x] = IF x = <<e, p.seq>> THEN Posts(g, c)[x] + k ELSE Posts(g, c)[x]
    BY <1>11, PostChanged DEF Credits
  <1> QED BY <1>1, <1>b, <1>8, <1>10, <1>12, PostStep

LEMMA PostIdle ==
  ASSUME Books, Posted, Idles
  PROVE  Posted'
  <1> SUFFICES ASSUME NEW g \in Holders, NEW c \in Denoms
               PROVE  bank'[g][c] = InitBank[g][c] + Total(Posts(g, c)', Slots)
    BY DEF Posted
  <1>1. ASSUME NEW f \in End, NEW i \in 1..MaxSends
        PROVE  /\ At(f, i)' = At(f, i)
               /\ At(f, i) # {} =>
                    Effect(f, First(At(f, i)), g, c)' = Effect(f, First(At(f, i)), g, c)
    <2>1. At(f, i)' = At(f, i)
      BY DEF Idles, SamePackets, At
    <2>2. ASSUME At(f, i) # {}
          PROVE  Effect(f, First(At(f, i)), g, c)' = Effect(f, First(At(f, i)), g, c)
      <3>1. PICK q \in Packets(f) : q.seq = i
        BY <2>2 DEF At
      <3>2. At(f, i) = {q} /\ First(At(f, i)) = q
        BY <3>1, SlotFacts
      <3>3. First(At(f, i))' = q
        BY <2>1, <3>2 DEF First
      <3>4. Effect(f, q, g, c)' = Effect(f, q, g, c)
        BY DEF Effect, Idles
      <3> QED BY <3>2, <3>3, <3>4 DEF Effect
    <2> QED BY <2>1, <2>2
  <1>2. \A x \in Slots : x[1] \in End /\ x[2] \in 1..MaxSends
    BY DEF Slots
  <1>3. Posts(g, c)' = Posts(g, c)
    BY <1>1, <1>2 DEF Posts
  <1> QED BY <1>3 DEF Posted, Idles

----------------------------------------------------------------------------
\* The start: nothing was sent.
LEMMA BooksInit ==
  ASSUME Init
  PROVE  Books /\ \A e \in End : Packets(e) = {}
  <1>1. /\ sent = [e \in End |-> <<>>] /\ received = [e \in End |-> <<>>]
        /\ settled = [e \in End |-> <<>>]
        /\ reply = [e \in End |-> [s \in 1..MaxSends |-> "none"]]
    BY DEF Init, Channel!DInit
  <1>2. Channel!Elements(<<>>) = {}
    BY DEF Channel!Elements
  <1>3. \A e \in End : Packets(e) = {}
    BY <1>1, <1>2 DEF Packets
  <1>4. SentOK
    BY <1>1, BoundsAssumption DEF SentOK
  <1>5. ReceivedOK
    BY <1>1, <1>2 DEF ReceivedOK
  <1>6. SettledOK
    BY <1>1, <1>2 DEF SettledOK
  <1>7. ReplyOK
    BY <1>1 DEF ReplyOK
  <1>8. NeverBoth
    BY <1>3 DEF NeverBoth
  <1> QED BY <1>3, <1>4, <1>5, <1>6, <1>7, <1>8 DEF Books

LEMMA InitConserved ==
  ASSUME Init
  PROVE  bank \in Purse /\ CoinsConserved
  <1>1. bank = InitBank /\ InitBank \in Purse
    BY BankAssumption DEF Init, Purse
  <1>2. ASSUME NEW e \in End, NEW d \in Denoms
        PROVE  InTransit(e, d) = 0
    <2>1. PICK ps : ps = OpenPackets(e, d)
      OBVIOUS
    <2>2. ps = {}
      BY <2>1, BooksInit DEF OpenPackets
    <2>3. IsFiniteSet(ps)
      BY <2>2, FS_EmptySet
    <2>4. Carried(ps) = 0
      BY <2>2, <2>3, CarriedFacts
    <2> QED BY <2>1, <2>4 DEF InTransit
  <1>3. EscrowBacksVouchers
    <2> SUFFICES ASSUME NEW e \in End, NEW d \in Denoms, IsOrigin(e, d)
                 PROVE  bank[e][d] = Supply(bank, Peer(e).chain, Voucher(e, d))
                          + InTransit(e, d) + InTransit(Peer(e), Voucher(e, d))
      BY DEF EscrowBacksVouchers
    <2>1. Peer(e) \in End /\ Voucher(e, d) \in Denoms
      BY EndFacts, VoucherFacts DEF IsOrigin
    <2>2. InTransit(e, d) = 0 /\ InTransit(Peer(e), Voucher(e, d)) = 0
      BY <1>2, <2>1
    <2>3. InitBank[e][d] = Supply(InitBank, Peer(e).chain, Voucher(e, d))
      BY BankAssumption
    <2>4. InitBank[e][d] \in Int
      <3>1. e \in Holders
        BY EndFacts
      <3> QED BY <3>1, BankAssumption
    <2> QED BY <1>1, <2>2, <2>3, <2>4
  <1>4. NativeSupplyConstant
    BY <1>1 DEF NativeSupplyConstant
  <1> QED BY <1>1, <1>3, <1>4 DEF CoinsConserved

\* Posts that add up to nothing leave an account as it was.
LEMMA NothingPosted ==
  ASSUME NEW h \in Holders, NEW d \in Denoms, \A x \in Slots : Posts(h, d)[x] = 0
  PROVE  InitBank[h][d] + Total(Posts(h, d), Slots) = InitBank[h][d]
  <1>1. PICK w : w = Posts(h, d)
    OBVIOUS
  <1>2. Total(w, Slots) = 0
    BY <1>1, SlotsFinite, TotalZero
  <1>3. InitBank[h][d] \in Int
    BY BankAssumption
  <1> QED BY <1>1, <1>2, <1>3

LEMMA InitPosted ==
  ASSUME Init
  PROVE  Posted
  <1> SUFFICES ASSUME NEW h \in Holders, NEW d \in Denoms
               PROVE  bank[h][d] = InitBank[h][d] + Total(Posts(h, d), Slots)
    BY DEF Posted
  <1>1. \A x \in Slots : x[1] \in End
    BY DEF Slots
  <1>2. \A x \in Slots : At(x[1], x[2]) = {}
    BY <1>1, BooksInit DEF At
  <1>3. \A x \in Slots : Posts(h, d)[x] = 0
    BY <1>2 DEF Posts
  <1>4. bank = InitBank
    BY DEF Init
  <1> QED BY <1>3, <1>4, NothingPosted

----------------------------------------------------------------------------
\* The invariant: the accounts are typed, the books of the channels are in
\* order, the coins are conserved, and every balance is accounted for.
TransferInv == bank \in Purse /\ Books /\ CoinsConserved /\ Posted

\* TransferInv is inductive: send_transfer, on_recv_packet,
\* on_acknowledgement_packet and on_timeout_packet keep it.
THEOREM TransferInvHolds == Spec => []TransferInv
  <1>1. Init => TransferInv
    BY BooksInit, InitConserved, InitPosted DEF TransferInv
  <1>2. TransferInv /\ [Next]_vars => TransferInv'
    <2> SUFFICES ASSUME TransferInv, [Next]_vars PROVE TransferInv'
      OBVIOUS
    <2>1. bank \in Purse /\ Books /\ CoinsConserved /\ Posted
      BY DEF TransferInv
    <2>2. /\ Books'
          /\ Idles \/ \E e \in End : \E p : Sends(e, p) \/ Credits(e, p) \/ Refunds(e, p)
      BY <2>1, StepKinds
    <2>3. CASE Idles
      BY <2>1, <2>2, <2>3, ToIdle, PostIdle DEF TransferInv
    <2>4. CASE \E e \in End : \E p : Sends(e, p) \/ Credits(e, p) \/ Refunds(e, p)
      <3>1. PICK e \in End : \E p : Sends(e, p) \/ Credits(e, p) \/ Refunds(e, p)
        BY <2>4
      <3>2. PICK p : Sends(e, p) \/ Credits(e, p) \/ Refunds(e, p)
        BY <3>1
      <3>3. bank' \in Purse /\ CoinsConserved'
        BY <2>1, <3>2, ToSend, ToCredit, ToRefund
      <3>4. Posted'
        BY <2>1, <3>2, PostSend, PostCredit, PostRefund
      <3> QED BY <2>2, <3>3, <3>4 DEF TransferInv
    <2> QED BY <2>2, <2>3, <2>4
  <1> QED BY <1>1, <1>2, PTL DEF Spec

\* No transfer, receipt or refund overdraws an account or an escrow: balances
\* stay natural numbers, and every answer written is one the code writes.
THEOREM TransferTypeCorrect == Spec => []TypeOK
  <1>1. TransferInv => TypeOK
    BY DEF TransferInv, TypeOK, Purse, Books, ReplyOK
  <1> QED BY <1>1, TransferInvHolds, PTL

\* Coins are conserved over all chains and channels, whatever is refused, times
\* out or fails: escrows back exactly the vouchers and the coins under way, and
\* the supply of a native coin never changes.
THEOREM CoinsAlwaysConserved == Spec => []CoinsConserved
  <1>1. TransferInv => CoinsConserved
    BY DEF TransferInv
  <1> QED BY <1>1, TransferInvHolds, PTL

\* When every transfer that was ever sent was refunded, after an error answer or
\* a timeout, every balance of every account and escrow is the one of the start.
THEOREM FailureNeverLeavesTrace == Spec => []FailureLeavesNoTrace
  <1>1. TransferInv => FailureLeavesNoTrace
    <2> SUFFICES ASSUME TransferInv, \A e \in End : \A p \in Packets(e) : Refunded(e, p)
                 PROVE  bank = InitBank
      BY DEF FailureLeavesNoTrace
    <2>1. bank \in Purse /\ InitBank \in Purse /\ Books /\ Posted
      BY BankAssumption DEF TransferInv, Purse
    <2>2. ASSUME NEW h \in Holders, NEW d \in Denoms
          PROVE  bank[h][d] = InitBank[h][d]
      <3>1. ASSUME NEW x \in Slots PROVE Posts(h, d)[x] = 0
        <4>1. PICK e \in End, i \in 1..MaxSends : x = <<e, i>>
          BY DEF Slots
        <4>2. Posts(h, d)[x] = IF At(e, i) = {} THEN 0 ELSE Effect(e, First(At(e, i)), h, d)
          BY <4>1 DEF Posts
        <4>3. ASSUME At(e, i) # {} PROVE Effect(e, First(At(e, i)), h, d) = 0
          <5>1. PICK p \in Packets(e) : p.seq = i
            BY <4>3 DEF At
          <5>2. First(At(e, i)) = p
            BY <2>1, <5>1, SlotFacts
          <5>3. Refunded(e, p) /\ ~ Credited(e, p)
            BY <2>1 DEF Books, NeverBoth
          <5>4. Effect(e, p, h, d) = 0
            BY <5>3 DEF Effect
          <5> QED BY <5>2, <5>4
        <4> QED BY <4>2, <4>3
      <3>2. bank[h][d] = InitBank[h][d] + Total(Posts(h, d), Slots)
        BY <2>1 DEF Posted
      <3> QED BY <3>1, <3>2, NothingPosted
    <2> QED BY <2>1, <2>2 DEF Purse
  <1> QED BY <1>1, TransferInvHolds, PTL

============================================================================
