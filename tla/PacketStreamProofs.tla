-------------------------- MODULE PacketStreamProofs ---------------------------
(***************************************************************************)
(* Proof of PacketsKept for every number of sockets, every radix, every    *)
(* size of the send buffer and all packets whose lengths fit their digits. *)
(* Writing: what is begun is what is handed on and then what the pending   *)
(* write holds.  Reading: what is consumed is the packets that are parsed  *)
(* and then what the queue holds of the next one, so that MQTTPacket_decode*)
(* finds the digits that MQTTPacket_encode wrote.                          *)
(***************************************************************************)
EXTENDS PacketStream, ProofBasics

-------------------------------------------------------------------------------
\* Sequences of sequences, one after the other.

\* FlattenSeq is the last part, if the parts are built up from the first.
LEMMA FlattenIs ==
  ASSUME NEW X \in Seq(Seq(Nat)), Len(X) > 0, NEW F \in [1..Len(X) -> Seq(Nat)],
         \A i \in 1..Len(X) : F[i] = IF i = 1 THEN X[i] ELSE F[i - 1] \o X[i]
  PROVE  FlattenSeq(X) = F[Len(X)]
<1> DEFINE Def(g) == g = [i \in 1..Len(X) |-> IF i = 1 THEN X[i] ELSE g[i - 1] \o X[i]]
           f == CHOOSE g : Def(g)
           T == {i \in 1..Len(X) : f[i] # F[i]}
<1>1. Def(F)
  OBVIOUS
<1>2. Def(f)
  <2> HIDE DEF Def
  <2> QED BY <1>1
<1>3. \A i \in 1..Len(X) : f[i] = IF i = 1 THEN X[i] ELSE f[i - 1] \o X[i]
  <2> HIDE DEF f
  <2> QED BY <1>2
<1>4. T = {}
  <2> HIDE DEF f
  <2>1. SUFFICES ASSUME T # {} PROVE FALSE
    OBVIOUS
  <2>2. PICK x \in T : \A y \in T : x <= y
    <3>1. T \in SUBSET Nat
      OBVIOUS
    <3> HIDE DEF T
    <3> QED BY <2>1, <3>1, LeastElement
  <2>3. x = 1 \/ f[x - 1] = F[x - 1]
    BY <2>2
  <2> QED BY <1>3, <2>2, <2>3
<1>5. FlattenSeq(X) = f[Len(X)]
  BY DEF FlattenSeq
<1>6. Len(X) \in 1..Len(X)
  OBVIOUS
<1> QED
  <2> HIDE DEF f
  <2> QED BY <1>4, <1>5, <1>6

\* There are such parts.
LEMMA FlattenSteps ==
  ASSUME NEW X \in Seq(Seq(Nat))
  PROVE  \E F \in [0..Len(X) -> Seq(Nat)] :
           F[0] = <<>> /\ \A i \in 1..Len(X) : F[i] = F[i - 1] \o X[i]
<1> DEFINE Steps(F, k) == F[0] = <<>> /\ \A i \in 1..k : F[i] = F[i - 1] \o X[i]
           T == {k \in 0..Len(X) : ~ \E F \in [0..k -> Seq(Nat)] : Steps(F, k)}
<1>1. SUFFICES ASSUME T # {} PROVE FALSE
  <2>1. Len(X) \in 0..Len(X)
    OBVIOUS
  <2> QED BY <2>1
<1>2. PICK k \in T : \A y \in T : k <= y
  <2>1. T \in SUBSET Nat
    <3> HIDE DEF Steps
    <3>1. T \subseteq 0..Len(X)
      OBVIOUS
    <3> HIDE DEF T
    <3> QED BY <3>1
  <2> HIDE DEF T
  <2> QED BY <1>1, <2>1, LeastElement
<1>3. k # 0
  <2>1. [i \in 0..0 |-> <<>>] \in [0..0 -> Seq(Nat)] /\ Steps([i \in 0..0 |-> <<>>], 0)
    OBVIOUS
  <2> QED BY <2>1, <1>2
<1>4. PICK F \in [0..(k - 1) -> Seq(Nat)] : Steps(F, k - 1)
  <2>1. k - 1 \in 0..Len(X) /\ k - 1 \notin T
    <3> HIDE DEF Steps
    <3>1. k \in 0..Len(X)
      BY <1>2
    <3>2. k - 1 \notin T
      <4> HIDE DEF T
      <4> QED BY <1>2, <3>1
    <3> QED BY <1>3, <3>1, <3>2
  <2> HIDE DEF Steps
  <2> QED BY <2>1
<1> DEFINE G == [i \in 0..k |-> IF i = k THEN F[k - 1] \o X[k] ELSE F[i]]
<1>5. G \in [0..k -> Seq(Nat)]
  BY <1>2, <1>3, <1>4
<1>6. Steps(G, k)
  <2>1. k \in 1..Len(X) /\ 0 # k
    BY <1>2, <1>3
  <2>2. G[0] = <<>>
    BY <1>4, <2>1
  <2>3. ASSUME NEW i \in 1..k PROVE G[i] = G[i - 1] \o X[i]
    <3>1. CASE i = k
      <4>1. k \in 0..k /\ k - 1 \in 0..k /\ k - 1 # k
        BY <2>1
      <4>2. G[k] = F[k - 1] \o X[k] /\ G[k - 1] = F[k - 1]
        BY <4>1
      <4> QED BY <3>1, <4>2
    <3>2. CASE i # k
      <4>1. i \in 0..k /\ i - 1 \in 0..k /\ i - 1 # k /\ i \in 1..(k - 1)
        BY <3>2, <2>1
      <4>2. F[i] = F[i - 1] \o X[i]
        BY <4>1, <1>4
      <4>3. G[i] = F[i] /\ G[i - 1] = F[i - 1]
        BY <4>1, <3>2
      <4> QED BY <4>2, <4>3
    <3> QED BY <3>1, <3>2
  <2> QED BY <2>2, <2>3
<1> QED BY <1>2, <1>5, <1>6

\* FlattenSeq adds its sequences one at a time.
LEMMA FlattenParts ==
  ASSUME NEW X \in Seq(Seq(Nat))
  PROVE  \E F \in [0..Len(X) -> Seq(Nat)] :
           /\ F[0] = <<>> /\ F[Len(X)] = FlattenSeq(X)
           /\ \A i \in 1..Len(X) : F[i] = F[i - 1] \o X[i]
           /\ \A i \in 0..Len(X) : FlattenSeq(SubSeq(X, 1, i)) = F[i]
<1>1. PICK F \in [0..Len(X) -> Seq(Nat)] :
         F[0] = <<>> /\ \A i \in 1..Len(X) : F[i] = F[i - 1] \o X[i]
  BY FlattenSteps
<1>2. ASSUME NEW k \in 0..Len(X) PROVE FlattenSeq(SubSeq(X, 1, k)) = F[k]
  <2> DEFINE Y == SubSeq(X, 1, k)
  <2>1. Y \in Seq(Seq(Nat)) /\ Len(Y) = k /\ \A i \in 1..k : Y[i] = X[i]
    OBVIOUS
  <2>2. CASE k = 0
    <3>1. Y = <<>>
      BY <2>1, <2>2
    <3> QED BY <3>1, <1>1, <2>2 DEF FlattenSeq
  <2>3. CASE k > 0
    <3> DEFINE H == [i \in 1..k |-> F[i]]
    <3>1. H \in [1..Len(Y) -> Seq(Nat)]
      <4>1. \A i \in 1..k : F[i] \in Seq(Nat)
        <5> TAKE i \in 1..k
        <5>1. i \in 0..Len(X)
          OBVIOUS
        <5> QED BY <5>1
      <4> HIDE DEF Y
      <4> QED BY <2>1, <4>1
    <3>2. F[1] = X[1]
      <4>1. 1 \in 1..Len(X) /\ 1 - 1 = 0
        BY <2>3
      <4>2. X[1] \in Seq(Nat)
        BY <4>1
      <4>4. F[1] = F[1 - 1] \o X[1] /\ F[0] = <<>>
        BY <1>1, <4>1
      <4>3. F[1] = <<>> \o X[1]
        BY <4>1, <4>4
      <4> QED BY <4>2, <4>3
    <3>3. \A i \in 1..Len(Y) : H[i] = IF i = 1 THEN Y[i] ELSE H[i - 1] \o Y[i]
      <4> TAKE i \in 1..Len(Y)
      <4>1. i \in 1..k /\ i \in 1..Len(X) /\ Y[i] = X[i] /\ H[i] = F[i]
        BY <2>1
      <4>2. i # 1 => H[i - 1] = F[i - 1]
        BY <4>1
      <4>3. F[i] = F[i - 1] \o X[i]
        BY <4>1, <1>1
      <4> HIDE DEF Y, H
      <4> QED BY <4>1, <4>2, <4>3, <3>2
    <3>4. FlattenSeq(Y) = H[Len(Y)]
      <4> HIDE DEF Y, H
      <4> QED BY <2>1, <2>3, <3>1, <3>3, FlattenIs
    <3> QED BY <3>4, <2>1, <2>3
  <2> QED BY <2>2, <2>3
<1>3. SubSeq(X, 1, Len(X)) = X
  OBVIOUS
<1>4. Len(X) \in 0..Len(X)
  OBVIOUS
<1> QED BY <1>1, <1>2, <1>3, <1>4

\* Sequences of bytes.
LEMMA Bytes ==
  ASSUME NEW a \in Seq(Nat), NEW b \in Seq(Nat)
  PROVE  /\ a \o b \in Seq(Nat) /\ Len(a \o b) = Len(a) + Len(b)
         /\ a \o <<>> = a /\ <<>> \o a = a /\ Len(a) \in Nat
         /\ \A i \in 1..Len(a) : (a \o b)[i] = a[i]
         /\ \A i \in 1..Len(b) : (a \o b)[Len(a) + i] = b[i]
OBVIOUS

\* Joining sequences of bytes is associative.
LEMMA BytesAssociative ==
  ASSUME NEW a \in Seq(Nat), NEW b \in Seq(Nat), NEW c \in Seq(Nat)
  PROVE  (a \o b) \o c = a \o (b \o c)
BY ConcatAssociative

\* Each part is a prefix of the whole.
LEMMA PartsGrow ==
  ASSUME NEW X \in Seq(Seq(Nat)), NEW F \in [0..Len(X) -> Seq(Nat)],
         \A i \in 1..Len(X) : F[i] = F[i - 1] \o X[i],
         NEW k \in 0..Len(X), NEW j \in k..Len(X)
  PROVE  \E rest \in Seq(Nat) : F[j] = F[k] \o rest
<1> DEFINE T == {i \in k..Len(X) : ~ \E rest \in Seq(Nat) : F[i] = F[k] \o rest}
<1>1. SUFFICES ASSUME T # {} PROVE FALSE
  OBVIOUS
<1>2. PICK i \in T : \A y \in T : i <= y
  <2>1. T \in SUBSET Nat
    <3>1. T \subseteq k..Len(X)
      OBVIOUS
    <3> HIDE DEF T
    <3> QED BY <3>1
  <2> HIDE DEF T
  <2> QED BY <1>1, <2>1, LeastElement
<1>3. i \in k..Len(X)
  BY <1>2
<1>4. F[k] \in Seq(Nat)
  OBVIOUS
<1>5. i # k
  <2>1. F[k] = F[k] \o <<>> /\ <<>> \in Seq(Nat)
    BY <1>4, Bytes
  <2> QED BY <1>2, <2>1
<1>6. i - 1 \in k..Len(X) /\ i - 1 \notin T
  <2> HIDE DEF T
  <2> QED BY <1>2, <1>3, <1>5
<1>7. PICK rest \in Seq(Nat) : F[i - 1] = F[k] \o rest
  BY <1>6
<1>8. i \in 1..Len(X) /\ X[i] \in Seq(Nat)
  BY <1>3, <1>5
<1>9. F[i] = (F[k] \o rest) \o X[i]
  BY <1>7, <1>8
<1>10. F[i] = F[k] \o (rest \o X[i]) /\ rest \o X[i] \in Seq(Nat)
  <2>1. rest \o X[i] \in Seq(Nat)
    BY <1>8, Bytes
  <2>2. (F[k] \o rest) \o X[i] = F[k] \o (rest \o X[i])
    BY <1>4, <1>8, BytesAssociative
  <2> QED BY <1>9, <2>1, <2>2
<1> QED BY <1>2, <1>10

\* Sums adds up the lengths.
LEMMA SumsIs ==
  ASSUME NEW L \in Seq(Nat), NEW g \in [0..Len(L) -> Nat],
         g[0] = 0, \A j \in 1..Len(L) : g[j] = g[j - 1] + L[j]
  PROVE  Sums(L) = g
<1> DEFINE Def(f) == f = [j \in 0..Len(L) |-> IF j = 0 THEN 0 ELSE f[j - 1] + L[j]]
           u == CHOOSE f : Def(f)
           T == {i \in 0..Len(L) : u[i] # g[i]}
<1>1. Def(g)
  OBVIOUS
<1>2. Def(u)
  <2> HIDE DEF Def
  <2> QED BY <1>1
<1>3. \A j \in 0..Len(L) : u[j] = IF j = 0 THEN 0 ELSE u[j - 1] + L[j]
  <2> HIDE DEF u
  <2> QED BY <1>2
<1>4. T = {}
  <2> HIDE DEF u
  <2>1. SUFFICES ASSUME T # {} PROVE FALSE
    OBVIOUS
  <2>2. PICK x \in T : \A y \in T : x <= y
    <3>1. T \in SUBSET Nat
      OBVIOUS
    <3> HIDE DEF T
    <3> QED BY <2>1, <3>1, LeastElement
  <2>3. x = 0 \/ u[x - 1] = g[x - 1]
    BY <2>2
  <2> QED BY <1>3, <2>2, <2>3
<1>5. Sums(L) = u
  BY DEF Sums
<1>6. u = [j \in 0..Len(L) |-> u[j]] /\ g = [j \in 0..Len(L) |-> g[j]]
  <2> HIDE DEF u
  <2> QED BY <1>2
<1> QED
  <2> HIDE DEF u
  <2> QED BY <1>4, <1>5, <1>6

\* There is a function that adds them up.
LEMMA SumsExists ==
  ASSUME NEW L \in Seq(Nat)
  PROVE  \E g \in [0..Len(L) -> Nat] : g[0] = 0 /\ \A j \in 1..Len(L) : g[j] = g[j - 1] + L[j]
<1> DEFINE Steps(F, k) == F[0] = 0 /\ \A i \in 1..k : F[i] = F[i - 1] + L[i]
           T == {k \in 0..Len(L) : ~ \E F \in [0..k -> Nat] : Steps(F, k)}
<1>1. SUFFICES ASSUME T # {} PROVE FALSE
  <2>1. Len(L) \in 0..Len(L)
    OBVIOUS
  <2> QED BY <2>1
<1>2. PICK k \in T : \A y \in T : k <= y
  <2>1. T \in SUBSET Nat
    <3> HIDE DEF Steps
    <3>1. T \subseteq 0..Len(L)
      OBVIOUS
    <3> HIDE DEF T
    <3> QED BY <3>1
  <2> HIDE DEF T
  <2> QED BY <1>1, <2>1, LeastElement
<1>3. k # 0
  <2>1. [i \in 0..0 |-> 0] \in [0..0 -> Nat] /\ Steps([i \in 0..0 |-> 0], 0)
    OBVIOUS
  <2> QED BY <2>1, <1>2
<1>4. PICK F \in [0..(k - 1) -> Nat] : Steps(F, k - 1)
  <2>1. k - 1 \in 0..Len(L) /\ k - 1 \notin T
    <3> HIDE DEF Steps
    <3>1. k \in 0..Len(L)
      BY <1>2
    <3>2. k - 1 \notin T
      <4> HIDE DEF T
      <4> QED BY <1>2, <3>1
    <3> QED BY <1>3, <3>1, <3>2
  <2> HIDE DEF Steps
  <2> QED BY <2>1
<1> DEFINE G == [i \in 0..k |-> IF i = k THEN F[k - 1] + L[k] ELSE F[i]]
<1>5. k \in 1..Len(L) /\ L[k] \in Nat
  BY <1>2, <1>3
<1>6. G \in [0..k -> Nat]
  BY <1>4, <1>5
<1>7. Steps(G, k)
  BY <1>4, <1>5
<1> QED BY <1>2, <1>6, <1>7

\* Where a sum ends is where the part of the whole ends.
LEMMA SumsOfParts ==
  ASSUME NEW X \in Seq(Seq(Nat)), NEW F \in [0..Len(X) -> Seq(Nat)], F[0] = <<>>,
         \A i \in 1..Len(X) : F[i] = F[i - 1] \o X[i],
         NEW k \in 0..Len(X)
  PROVE  Sums([j \in DOMAIN X |-> Len(X[j])])[k] = Len(F[k])
<1> DEFINE L == [j \in DOMAIN X |-> Len(X[j])]
           g == [j \in 0..Len(X) |-> Len(F[j])]
<1>1. L \in Seq(Nat) /\ Len(L) = Len(X) /\ \A j \in 1..Len(X) : L[j] = Len(X[j])
  <2>1. DOMAIN X = 1..Len(X) /\ Len(X) \in Nat
    OBVIOUS
  <2>2. \A j \in 1..Len(X) : Len(X[j]) \in Nat
    <3> TAKE j \in 1..Len(X)
    <3>1. X[j] \in Seq(Nat)
      OBVIOUS
    <3> QED BY <3>1
  <2>3. L = [j \in 1..Len(X) |-> Len(X[j])]
    BY <2>1
  <2> QED BY <2>1, <2>2, <2>3
<1>2. g \in [0..Len(X) -> Nat] /\ g[0] = 0
  OBVIOUS
<1>3. ASSUME NEW j \in 1..Len(X) PROVE g[j] = g[j - 1] + Len(X[j])
  <2>0. j - 1 \in 0..Len(X) /\ j \in 0..Len(X)
    OBVIOUS
  <2>1. F[j - 1] \in Seq(Nat) /\ X[j] \in Seq(Nat) /\ F[j] = F[j - 1] \o X[j]
    <3>1. F[j - 1] \in Seq(Nat)
      BY <2>0
    <3>2. X[j] \in Seq(Nat)
      OBVIOUS
    <3> HIDE DEF L, g
    <3> QED BY <3>1, <3>2
  <2>2. Len(F[j]) = Len(F[j - 1]) + Len(X[j])
    BY <2>1
  <2> QED BY <2>0, <2>2
<1>4. Sums(L) = g
  <2> HIDE DEF L, g
  <2> QED BY <1>1, <1>2, <1>3, SumsIs
<1> QED BY <1>4

-------------------------------------------------------------------------------
\* Lengths as digits: MQTTPacket_encode ...

\* Quotient and remainder.
LEMMA Division ==
  ASSUME NEW R \in Nat, R > 1, NEW n \in Nat
  PROVE  /\ n % R \in 0..(R - 1) /\ n \div R \in Nat
         /\ n = (n % R) + R * (n \div R)
         /\ n >= R => n \div R < n
         /\ n < R => n % R = n
<1>1. n % R \in 0..(R - 1) /\ n \div R \in Nat
  OBVIOUS
<1>2. n = (n % R) + R * (n \div R)
  OBVIOUS
<1>3. ASSUME NEW q \in Nat, NEW r \in 0..(R - 1), n = r + R * q, n >= R PROVE q < n
  BY <1>3
<1>4. n < R => n % R = n
  OBVIOUS
<1> QED BY <1>1, <1>2, <1>3, <1>4

\* The bit that says "more digits" is not part of the digit.
LEMMA TopBit ==
  ASSUME NEW R \in Nat, R > 1, NEW x \in 0..(R - 1)
  PROVE  (x + R) % R = x
OBVIOUS

\* Encoded satisfies its recursion.
LEMMA EncodedIs ==
  \A n \in 0..(Stride - 1) :
    Encoded[n] = IF n < Radix THEN <<n>> ELSE <<(n % Radix) + Radix>> \o Encoded[n \div Radix]
<1> DEFINE One(F, n) == IF n < Radix THEN <<n>> ELSE <<(n % Radix) + Radix>> \o F[n \div Radix]
           Def(g) == g = [n \in 0..(Stride - 1) |-> One(g, n)]
           Steps(F, k) == \A n \in 0..k : F[n] = One(F, n)
           T == {k \in 0..(Stride - 1) : ~ \E F \in [0..k -> Seq(Nat)] : Steps(F, k)}
<1>0. Radix \in Nat /\ Stride \in Nat /\ Stride > 0 /\ Radix > 1
  BY StreamAssumption
<1>1. T = {}
  <2>1. SUFFICES ASSUME T # {} PROVE FALSE
    OBVIOUS
  <2>2. PICK k \in T : \A y \in T : k <= y
    <3>1. T \in SUBSET Nat
      <4> HIDE DEF Steps
      <4>1. T \subseteq 0..(Stride - 1)
        OBVIOUS
      <4> HIDE DEF T
      <4> QED BY <4>1, <1>0
    <3> HIDE DEF T
    <3> QED BY <2>1, <3>1, LeastElement
  <2>3. k \in 0..(Stride - 1) /\ ~ \E F \in [0..k -> Seq(Nat)] : Steps(F, k)
    <3> HIDE DEF Steps
    <3> QED BY <2>2
  <2>4. k # 0
    <3>1. [i \in 0..0 |-> <<0>>] \in [0..0 -> Seq(Nat)] /\ Steps([i \in 0..0 |-> <<0>>], 0)
      BY <1>0
    <3> HIDE DEF Steps
    <3> QED BY <3>1, <2>3
  <2>5. PICK F \in [0..(k - 1) -> Seq(Nat)] : Steps(F, k - 1)
    <3>1. k - 1 \in 0..(Stride - 1)
      BY <1>0, <2>3, <2>4
    <3>2. k - 1 \notin T
      <4> HIDE DEF T
      <4> QED BY <2>2, <2>3, <1>0
    <3> HIDE DEF Steps
    <3> QED BY <3>1, <3>2
  <2> DEFINE G == [n \in 0..k |-> IF n = k THEN One(F, k) ELSE F[n]]
  <2>6. \A n \in 0..k : n >= Radix => n \div Radix \in 0..(k - 1) /\ n \div Radix < n
    <3> SUFFICES ASSUME NEW n \in 0..k, n >= Radix
                 PROVE  n \div Radix \in 0..(k - 1) /\ n \div Radix < n
      OBVIOUS
    <3> DEFINE q == n \div Radix
    <3>1. n \in Nat /\ n <= k /\ k \in Nat
      BY <2>3, <1>0
    <3>2. q \in Nat /\ q < n
      BY <1>0, <3>1, Division
    <3> HIDE DEF q
    <3>3. q \in 0..(k - 1)
      BY <3>1, <3>2
    <3> QED BY <3>2, <3>3 DEF q
  <2>7. One(F, k) \in Seq(Nat)
    <3>1. k < Radix => <<k>> \in Seq(Nat)
      BY <2>3, <1>0
    <3>2. ASSUME k >= Radix PROVE <<(k % Radix) + Radix>> \o F[k \div Radix] \in Seq(Nat)
      <4>1. F[k \div Radix] \in Seq(Nat)
        <5>1. k \in 0..k
          BY <2>3, <1>0
        <5>2. k \div Radix \in 0..(k - 1)
          BY <2>6, <3>2, <5>1
        <5> QED BY <5>2, <2>5
      <4>2. <<(k % Radix) + Radix>> \in Seq(Nat)
        BY <1>0, <2>3, Division
      <4> QED BY <4>1, <4>2, Bytes
    <3> QED BY <3>1, <3>2, <2>3, <1>0
  <2>8. G \in [0..k -> Seq(Nat)]
    <3> HIDE DEF One
    <3> QED BY <2>3, <2>5, <2>7, <1>0
  <2>9. Steps(G, k)
    <3>1. ASSUME NEW n \in 0..k PROVE G[n] = One(F, n)
      <4> HIDE DEF One
      <4>1. n # k => n \in 0..(k - 1)
        BY <2>3, <1>0
      <4>2. n # k => F[n] = One(F, n)
        BY <2>5, <4>1
      <4> QED BY <4>2
    <3>2. ASSUME NEW n \in 0..k PROVE One(G, n) = One(F, n)
      <4>1. n >= Radix => G[n \div Radix] = F[n \div Radix]
        <5> DEFINE q == n \div Radix
        <5>1. n >= Radix => q \in 0..(k - 1)
          BY <2>6
        <5>2. n >= Radix => q \in 0..k /\ q # k
          <6> HIDE DEF q
          <6> QED BY <5>1, <2>3, <1>0
        <5> HIDE DEF One
        <5> QED BY <5>1, <5>2
      <4> HIDE DEF G
      <4> QED BY <4>1, <1>0, <2>3
    <3> HIDE DEF G, One
    <3> QED BY <3>1, <3>2
  <2> HIDE DEF G, Steps
  <2> QED BY <2>3, <2>8, <2>9
<1>2. PICK F \in [0..(Stride - 1) -> Seq(Nat)] : Steps(F, Stride - 1)
  <2>1. Stride - 1 \in 0..(Stride - 1)
    BY <1>0
  <2> HIDE DEF Steps
  <2> QED BY <1>1, <2>1
<1>3. Def(F)
  <2> HIDE DEF One
  <2>1. \A n \in 0..(Stride - 1) : F[n] = One(F, n)
    BY <1>2
  <2>2. F = [n \in 0..(Stride - 1) |-> F[n]]
    OBVIOUS
  <2> QED BY <2>1, <2>2
<1>4. Encoded = CHOOSE g : Def(g)
  BY DEF Encoded
<1>5. Def(Encoded)
  <2> HIDE DEF Def
  <2> QED BY <1>3, <1>4
<1>6. ASSUME NEW n \in 0..(Stride - 1) PROVE Encoded[n] = One(Encoded, n)
  <2> HIDE DEF One
  <2> QED BY <1>5
<1> QED BY <1>6

EncodedWell(n) ==
  /\ Encoded[n] \in Seq(Nat) /\ Len(Encoded[n]) > 0
  /\ Encoded[n][Len(Encoded[n])] < Radix
  /\ \A i \in 1..(Len(Encoded[n]) - 1) : Encoded[n][i] >= Radix

\* The digits of a length: all but the last say that another follows.
LEMMA EncodedEnds == \A n \in 0..(Stride - 1) : EncodedWell(n)
<1> DEFINE T == {n \in 0..(Stride - 1) : ~EncodedWell(n)}
<1>0. Radix \in Nat /\ Stride \in Nat /\ Stride > 0 /\ Radix > 1
  BY StreamAssumption
<1>1. SUFFICES ASSUME T # {} PROVE FALSE
  OBVIOUS
<1>2. PICK n \in T : \A y \in T : n <= y
  <2>1. T \in SUBSET Nat
    BY <1>0
  <2> HIDE DEF T
  <2> QED BY <1>1, <2>1, LeastElement
<1>3. n \in 0..(Stride - 1) /\ ~EncodedWell(n)
  BY <1>2
<1>4. CASE n < Radix
  <2>1. Encoded[n] = <<n>>
    BY <1>3, <1>4, EncodedIs
  <2>2. EncodedWell(n)
    BY <2>1, <1>3, <1>4, <1>0 DEF EncodedWell
  <2> QED BY <2>2, <1>3
<1>5. CASE n >= Radix
  <2> DEFINE q == n \div Radix
             d == (n % Radix) + Radix
             E == Encoded[q]
  <2>1. q \in 0..(Stride - 1) /\ q < n /\ d \in Nat /\ d >= Radix
    <3>1. n \in Nat /\ n < Stride
      BY <1>3, <1>0
    <3>2. q \in Nat /\ q < n /\ n % Radix \in 0..(Radix - 1)
      BY <1>0, <1>5, <3>1, Division
    <3>3. d \in Nat /\ d >= Radix
      BY <3>2, <1>0
    <3> HIDE DEF q, d
    <3> QED BY <3>1, <3>2, <3>3, <1>0
  <2>2. EncodedWell(q)
    <3>1. q \notin T
      <4> HIDE DEF T, q
      <4> QED BY <1>2, <2>1, <1>3, <1>0
    <3> HIDE DEF q
    <3> QED BY <3>1, <2>1
  <2>3. Encoded[n] = <<d>> \o E
    <3>1. ~(n < Radix)
      BY <1>5, <1>0, <1>3
    <3> QED BY <3>1, <1>3, EncodedIs
  <2> HIDE DEF q, d, E
  <2>4. E \in Seq(Nat) /\ Len(E) > 0 /\ E[Len(E)] < Radix /\ \A i \in 1..(Len(E) - 1) : E[i] >= Radix
    BY <2>2 DEF EncodedWell, E
  <2>5. /\ <<d>> \o E \in Seq(Nat) /\ Len(<<d>> \o E) = Len(E) + 1
        /\ (<<d>> \o E)[1] = d /\ \A i \in 1..Len(E) : (<<d>> \o E)[i + 1] = E[i]
    BY <2>1, <2>4
  <2>6. EncodedWell(n)
    <3> DEFINE c == <<d>> \o E
    <3>1. c[Len(c)] < Radix
      BY <2>4, <2>5
    <3>2. ASSUME NEW i \in 1..(Len(c) - 1) PROVE c[i] >= Radix
      <4>1. i = 1 \/ (i - 1 \in 1..(Len(E) - 1) /\ c[(i - 1) + 1] = E[i - 1])
        BY <2>4, <2>5
      <4>2. i = 1 \/ c[i] = E[i - 1]
        BY <4>1
      <4> QED BY <4>1, <4>2, <2>4, <2>5, <2>1
    <3>3. c \in Seq(Nat) /\ Len(c) > 0
      BY <2>5, <2>4
    <3> HIDE DEF c
    <3> QED BY <2>3, <3>1, <3>2, <3>3 DEF EncodedWell, c
  <2> QED BY <2>6, <1>3
<1> QED BY <1>4, <1>5, <1>3, <1>0

-------------------------------------------------------------------------------
\* ... and MQTTPacket_decode.

Totals == [value : Nat, multiplier : Nat]

\* The totals of MQTTPacket_decode after each digit.
Accumulates(g, digits) ==
  /\ g[0].value = 0 /\ g[0].multiplier = 1
  /\ \A i \in 1..Len(digits) :
       /\ g[i].value = g[i - 1].value + (digits[i] % Radix) * g[i - 1].multiplier
       /\ g[i].multiplier = g[i - 1].multiplier * Radix

\* Decoded is the last total.
LEMMA DecodedIs ==
  ASSUME NEW digits \in Seq(Nat), NEW g \in [0..Len(digits) -> Totals], Accumulates(g, digits)
  PROVE  Decoded(digits) = g[Len(digits)].value
<1> DEFINE One(f, i) ==
             IF i = 0 THEN [value |-> 0, multiplier |-> 1]
             ELSE [value |-> f[i - 1].value + (digits[i] % Radix) * f[i - 1].multiplier,
                   multiplier |-> f[i - 1].multiplier * Radix]
           Def(f) == f = [i \in 0..Len(digits) |-> One(f, i)]
           u == CHOOSE f : Def(f)
           T == {i \in 0..Len(digits) : u[i] # g[i]}
<1>0. Radix \in Nat /\ Radix > 1 /\ Len(digits) \in Nat
  BY StreamAssumption
<1>1. Def(g)
  <2>1. ASSUME NEW i \in 0..Len(digits) PROVE g[i] = One(g, i)
    <3>1. g[i] \in Totals
      OBVIOUS
    <3>2. g[i] = [value |-> g[i].value, multiplier |-> g[i].multiplier]
      BY <3>1 DEF Totals
    <3>3. CASE i = 0
      BY <3>2, <3>3 DEF Accumulates
    <3>4. CASE i # 0
      <4>1. i \in 1..Len(digits)
        BY <3>4, <1>0
      <4> QED BY <3>2, <3>4, <4>1 DEF Accumulates
    <3> QED BY <3>3, <3>4
  <2>2. g = [i \in 0..Len(digits) |-> g[i]]
    OBVIOUS
  <2> HIDE DEF One
  <2> QED BY <2>1, <2>2
<1>2. Def(u)
  <2> HIDE DEF Def
  <2> QED BY <1>1
<1>3. ASSUME NEW i \in 0..Len(digits) PROVE u[i] = One(u, i) /\ g[i] = One(g, i)
  <2> HIDE DEF u, One
  <2> QED BY <1>1, <1>2
<1>4. T = {}
  <2> HIDE DEF u
  <2>1. SUFFICES ASSUME T # {} PROVE FALSE
    OBVIOUS
  <2>2. PICK x \in T : \A y \in T : x <= y
    <3>1. T \in SUBSET Nat
      OBVIOUS
    <3> HIDE DEF T
    <3> QED BY <2>1, <3>1, LeastElement
  <2>3. x \in 0..Len(digits) /\ u[x] # g[x]
    BY <2>2
  <2>4. x = 0 \/ u[x - 1] = g[x - 1]
    <3>1. x - 1 \notin T
      <4> HIDE DEF T
      <4> QED BY <2>2, <2>3, <1>0
    <3>2. x = 0 \/ x - 1 \in 0..Len(digits)
      BY <2>3, <1>0
    <3> QED BY <3>1, <3>2
  <2>5. One(u, x) = One(g, x)
    BY <2>4
  <2> HIDE DEF One
  <2> QED BY <1>3, <2>3, <2>5
<1>5. Decoded(digits) = u[Len(digits)].value
  BY DEF Decoded
<1>6. Len(digits) \in 0..Len(digits)
  BY <1>0
<1> QED
  <2> HIDE DEF u
  <2> QED BY <1>4, <1>5, <1>6

\* No digit: 0.
LEMMA DecodedEmpty == Decoded(<<>>) = 0 /\ \E g \in [0..0 -> Totals] : Accumulates(g, <<>>)
<1> DEFINE g == [i \in 0..0 |-> [value |-> 0, multiplier |-> 1]]
<1>1. g \in [0..0 -> Totals] /\ g[0].value = 0 /\ g[0].multiplier = 1
  BY DEF Totals
<1>2. Accumulates(g, <<>>)
  BY <1>1 DEF Accumulates
<1>3. <<>> \in Seq(Nat) /\ Len(<<>>) = 0
  OBVIOUS
<1>4. Decoded(<<>>) = g[0].value
  <2> HIDE DEF g
  <2> QED BY <1>1, <1>2, <1>3, DecodedIs
<1> QED BY <1>1, <1>2, <1>4

\* A digit in front: the totals of the others, one place higher.
LEMMA DecodedCons ==
  ASSUME NEW ds \in Seq(Nat), NEW d \in Nat,
         NEW g \in [0..Len(ds) -> Totals], Accumulates(g, ds)
  PROVE  /\ Decoded(<<d>> \o ds) = (d % Radix) + Radix * Decoded(ds)
         /\ \E h \in [0..(Len(ds) + 1) -> Totals] : Accumulates(h, <<d>> \o ds)
<1> DEFINE h == [i \in 0..(Len(ds) + 1) |->
                   IF i = 0 THEN [value |-> 0, multiplier |-> 1]
                   ELSE [value |-> (d % Radix) + Radix * g[i - 1].value,
                         multiplier |-> Radix * g[i - 1].multiplier]]
           c == <<d>> \o ds
<1>0. Radix \in Nat /\ Radix > 1 /\ Len(ds) \in Nat
  BY StreamAssumption
<1>1. c \in Seq(Nat) /\ Len(c) = Len(ds) + 1 /\ c[1] = d /\ \A i \in 2..(Len(ds) + 1) : c[i] = ds[i - 1]
  BY <1>0
<1>2. d % Radix \in Nat /\ \A i \in 1..Len(ds) : ds[i] % Radix \in Nat
  <2>1. \A i \in 1..Len(ds) : ds[i] \in Nat
    OBVIOUS
  <2> QED BY <1>0, <2>1
<1>3. \A i \in 0..Len(ds) : g[i].value \in Nat /\ g[i].multiplier \in Nat
  BY DEF Totals
<1>4. h \in [0..(Len(ds) + 1) -> Totals]
  <2>1. ASSUME NEW i \in 0..(Len(ds) + 1), i # 0
        PROVE  (d % Radix) + Radix * g[i - 1].value \in Nat /\ Radix * g[i - 1].multiplier \in Nat
    <3>1. g[i - 1].value \in Nat /\ g[i - 1].multiplier \in Nat
      BY <1>3, <2>1, <1>0
    <3>2. \A x \in Nat : Radix * x \in Nat
      BY <1>0
    <3>3. Radix * g[i - 1].value \in Nat /\ Radix * g[i - 1].multiplier \in Nat
      BY <3>1, <3>2
    <3> QED BY <3>3, <1>2
  <2> QED BY <2>1 DEF Totals
<1>5. ASSUME NEW i \in 1..(Len(ds) + 1)
      PROVE  /\ h[i].value = h[i - 1].value + (c[i] % Radix) * h[i - 1].multiplier
             /\ h[i].multiplier = h[i - 1].multiplier * Radix
  <2>0. i \in 0..(Len(ds) + 1) /\ i # 0 /\ i - 1 \in 0..Len(ds) /\ i - 1 \in 0..(Len(ds) + 1)
    BY <1>0
  <2>1. h[i].value = (d % Radix) + Radix * g[i - 1].value /\ h[i].multiplier = Radix * g[i - 1].multiplier
    BY <2>0
  <2>2. CASE i = 1
    <3>1. g[i - 1].value = 0 /\ g[i - 1].multiplier = 1
      BY <2>2 DEF Accumulates
    <3>2. h[i - 1].value = 0 /\ h[i - 1].multiplier = 1
      BY <2>2, <2>0
    <3>3. c[i] = d
      BY <1>1, <2>2
    <3> HIDE DEF h, c
    <3> QED BY <2>1, <3>1, <3>2, <3>3, <1>2, <1>0
  <2>3. CASE i # 1
    <3> DEFINE v == g[(i - 1) - 1].value
               m == g[(i - 1) - 1].multiplier
               t == ds[i - 1] % Radix
               a == d % Radix
    <3>1. i - 1 \in 1..Len(ds) /\ (i - 1) - 1 \in 0..Len(ds) /\ i - 1 # 0 /\ i \in 2..(Len(ds) + 1)
      BY <2>3, <2>0, <1>0
    <3>2. g[i - 1].value = v + t * m /\ g[i - 1].multiplier = m * Radix
      BY <3>1 DEF Accumulates
    <3>3. h[i - 1].value = a + Radix * v /\ h[i - 1].multiplier = Radix * m
      BY <3>1, <2>0
    <3>4. c[i] % Radix = t
      BY <1>1, <3>1
    <3>5. v \in Nat /\ m \in Nat /\ t \in Nat /\ a \in Nat
      BY <1>2, <1>3, <3>1
    <3>6. h[i].value = a + Radix * (v + t * m) /\ h[i].multiplier = Radix * (m * Radix)
      BY <2>1, <3>2
    <3> HIDE DEF h, c, v, m, t, a
    <3>7. a + Radix * (v + t * m) = (a + Radix * v) + t * (Radix * m)
      BY <3>5, <1>0
    <3>8. Radix * (m * Radix) = (Radix * m) * Radix
      BY <3>5, <1>0
    <3> QED BY <3>3, <3>4, <3>6, <3>7, <3>8
  <2> QED BY <2>2, <2>3
<1>6. h[0].value = 0 /\ h[0].multiplier = 1
  BY <1>0
<1>7. Accumulates(h, c)
  <2> HIDE DEF h, c
  <2> QED BY <1>1, <1>5, <1>6 DEF Accumulates
<1>8. Decoded(c) = h[Len(ds) + 1].value
  <2> HIDE DEF h, c
  <2> QED BY <1>1, <1>4, <1>7, DecodedIs
<1>9. h[Len(ds) + 1].value = (d % Radix) + Radix * g[Len(ds)].value
  <2>1. Len(ds) + 1 \in 0..(Len(ds) + 1) /\ Len(ds) + 1 # 0 /\ (Len(ds) + 1) - 1 = Len(ds)
    BY <1>0
  <2> QED BY <2>1
<1>10. Decoded(ds) = g[Len(ds)].value
  BY DecodedIs
<1> QED
  <2> HIDE DEF h
  <2> QED BY <1>4, <1>7, <1>8, <1>9, <1>10

\* MQTTPacket_decode finds the length that MQTTPacket_encode wrote.
LEMMA LengthIsRead == \A n \in 0..(Stride - 1) : Decoded(Encoded[n]) = n
<1> DEFINE Good(n) == Decoded(Encoded[n]) = n /\ \E g \in [0..Len(Encoded[n]) -> Totals] : Accumulates(g, Encoded[n])
           T == {n \in 0..(Stride - 1) : ~Good(n)}
<1>0. Radix \in Nat /\ Stride \in Nat /\ Stride > 0 /\ Radix > 1
  BY StreamAssumption
<1>1. SUFFICES ASSUME T # {} PROVE FALSE
  OBVIOUS
<1>2. PICK n \in T : \A y \in T : n <= y
  <2>1. T \in SUBSET Nat
    <3> HIDE DEF Good
    <3> QED BY <1>0
  <2> HIDE DEF T
  <2> QED BY <1>1, <2>1, LeastElement
<1> HIDE DEF Good
<1>3. n \in 0..(Stride - 1) /\ ~Good(n) /\ n \in Nat
  BY <1>2, <1>0
<1>4. CASE n < Radix
  <2>1. Encoded[n] = <<n>>
    BY <1>3, <1>4, EncodedIs
  <2>2. <<n>> \o <<>> = <<n>> /\ <<>> \in Seq(Nat) /\ Len(<<>>) = 0 /\ Len(<<n>>) = 0 + 1
    BY <1>3
  <2>3. PICK g \in [0..0 -> Totals] : Accumulates(g, <<>>)
    BY DecodedEmpty
  <2>4. /\ Decoded(<<n>> \o <<>>) = (n % Radix) + Radix * Decoded(<<>>)
        /\ \E h \in [0..(0 + 1) -> Totals] : Accumulates(h, <<n>> \o <<>>)
    BY <1>3, <2>2, <2>3, DecodedCons
  <2>5. n % Radix = n
    BY <1>0, <1>3, <1>4, Division
  <2>6. Decoded(<<n>>) = n
    BY <2>2, <2>4, <2>5, DecodedEmpty, <1>0, <1>3
  <2>7. Good(n)
    BY <2>1, <2>2, <2>4, <2>6 DEF Good
  <2> QED BY <1>3, <2>7
<1>5. CASE n >= Radix
  <2> DEFINE q == n \div Radix
             r == n % Radix
             d == r + Radix
             E == Encoded[q]
  <2>1. q \in 0..(Stride - 1) /\ q < n /\ q \in Nat /\ d \in Nat /\ r \in 0..(Radix - 1) /\ n = r + Radix * q
    <3>1. n \in Nat /\ n < Stride
      BY <1>3, <1>0
    <3>2. q \in Nat /\ q < n /\ r \in 0..(Radix - 1) /\ n = r + Radix * q
      BY <1>0, <1>5, <3>1, Division
    <3>3. d \in Nat
      BY <3>2, <1>0
    <3> HIDE DEF q, d, r
    <3> QED BY <3>1, <3>2, <3>3, <1>0
  <2>2. Good(q)
    <3>1. q \notin T
      <4> HIDE DEF T, q
      <4> QED BY <1>2, <2>1, <1>3, <1>0
    <3> HIDE DEF q
    <3> QED BY <3>1, <2>1
  <2>3. Encoded[n] = <<d>> \o E
    <3>1. ~(n < Radix)
      BY <1>5, <1>0, <1>3
    <3> QED BY <3>1, <1>3, EncodedIs
  <2>4. d % Radix = r
    <3> HIDE DEF r
    <3> QED BY <2>1, <1>0, TopBit
  <2> HIDE DEF q, r, d, E
  <2>5. E \in Seq(Nat)
    BY <2>1, EncodedEnds DEF EncodedWell, E
  <2>6. Decoded(E) = q /\ \E g \in [0..Len(E) -> Totals] : Accumulates(g, E)
    BY <2>2 DEF Good, E
  <2>7. PICK g \in [0..Len(E) -> Totals] : Accumulates(g, E)
    BY <2>6
  <2>8. /\ Decoded(<<d>> \o E) = (d % Radix) + Radix * Decoded(E)
        /\ \E h \in [0..(Len(E) + 1) -> Totals] : Accumulates(h, <<d>> \o E)
    BY <2>1, <2>5, <2>7, DecodedCons
  <2>9. Len(<<d>> \o E) = Len(E) + 1
    BY <2>1, <2>5
  <2>10. Decoded(<<d>> \o E) = n
    BY <2>1, <2>4, <2>6, <2>8
  <2>11. Good(n)
    BY <2>3, <2>8, <2>9, <2>10 DEF Good
  <2> QED BY <2>11, <1>3
<1> QED BY <1>4, <1>5, <1>3, <1>0

-------------------------------------------------------------------------------
\* What is written.

\* The smaller of two numbers.
LEMMA MinOfTwo ==
  ASSUME NEW a \in Int, NEW b \in Int
  PROVE  Min({a, b}) = IF a <= b THEN a ELSE b
<1> DEFINE m == IF a <= b THEN a ELSE b
           Least(x) == x \in {a, b} /\ \A y \in {a, b} : x <= y
<1>1. Least(m)
  OBVIOUS
<1>2. \A x : Least(x) => x = m
  OBVIOUS
<1>3. Min({a, b}) = CHOOSE x \in {a, b} : \A y \in {a, b} : x <= y
  BY DEF Min
<1> QED BY <1>1, <1>2, <1>3

\* Sequences that are cut.
LEMMA Slice ==
  ASSUME NEW all \in Seq(Nat), NEW a \in Nat, NEW c \in Nat, a <= c, c <= Len(all)
  PROVE  /\ SubSeq(all, a + 1, c) \in Seq(Nat) /\ Len(SubSeq(all, a + 1, c)) = c - a
         /\ \A i \in 1..(c - a) : SubSeq(all, a + 1, c)[i] = all[a + i]
<1>1. \A i \in (a + 1)..c : all[i] \in Nat
  OBVIOUS
<1>2. SubSeq(all, a + 1, c) \in Seq(Nat)
  BY <1>1, SubSeqProperties
<1>3. Len(SubSeq(all, a + 1, c)) = c - a
  BY <1>1, SubSeqProperties
<1>4. \A i \in 1..(c - a) : SubSeq(all, a + 1, c)[i] = all[a + i]
  <2> TAKE i \in 1..(c - a)
  <2>1. SubSeq(all, a + 1, c)[i] = all[(a + 1) + i - 1]
    BY <1>1, SubSeqProperties
  <2>2. (a + 1) + i - 1 = a + i
    OBVIOUS
  <2> QED BY <2>1, <2>2
<1> QED BY <1>2, <1>3, <1>4

\* What is left of a sequence, cut once more.
LEMMA CutOnce ==
  ASSUME NEW all \in Seq(Nat), NEW b \in 0..Len(all), NEW e \in b..Len(all), NEW k \in 0..(e - b)
  PROVE  /\ SubSeq(all, b + 1, e) \in Seq(Nat) /\ Len(SubSeq(all, b + 1, e)) = e - b
         /\ SubSeq(SubSeq(all, b + 1, e), 1, k) = SubSeq(all, b + 1, b + k)
         /\ SubSeq(all, b + 1, Len(all)) =
              SubSeq(all, b + 1, b + k) \o SubSeq(all, b + k + 1, Len(all))
<1> DEFINE m == SubSeq(all, b + 1, e)
           x == SubSeq(all, b + 1, b + k)
           y == SubSeq(all, b + k + 1, Len(all))
           z == SubSeq(all, b + 1, Len(all))
           u == SubSeq(m, 1, k)
           l == Len(all)
<1>1. l \in Nat /\ b \in Nat /\ e \in Nat /\ k \in Nat /\ b <= e /\ e <= l /\ b + k <= e
  OBVIOUS
<1>2. m \in Seq(Nat) /\ Len(m) = e - b /\ \A i \in 1..(e - b) : m[i] = all[b + i]
  BY <1>1, Slice
<1>3. x \in Seq(Nat) /\ Len(x) = (b + k) - b /\ \A i \in 1..((b + k) - b) : x[i] = all[b + i]
  <2>1. b + k \in Nat /\ b <= b + k /\ b + k <= Len(all)
    BY <1>1
  <2> QED BY <1>1, <2>1, Slice
<1>4. y \in Seq(Nat) /\ Len(y) = l - (b + k) /\ \A i \in 1..(l - (b + k)) : y[i] = all[(b + k) + i]
  <2> DEFINE a == b + k
  <2>1. a \in Nat /\ a <= Len(all) /\ Len(all) \in Nat
    BY <1>1
  <2> HIDE DEF a
  <2>2. /\ SubSeq(all, a + 1, Len(all)) \in Seq(Nat) /\ Len(SubSeq(all, a + 1, Len(all))) = Len(all) - a
        /\ \A i \in 1..(Len(all) - a) : SubSeq(all, a + 1, Len(all))[i] = all[a + i]
    BY <2>1, Slice
  <2> QED BY <2>2 DEF a
<1>5. z \in Seq(Nat) /\ Len(z) = l - b /\ \A i \in 1..(l - b) : z[i] = all[b + i]
  <2>1. b <= l
    BY <1>1
  <2> QED BY <1>1, <2>1, Slice
<1>6. u \in Seq(Nat) /\ Len(u) = k /\ \A i \in 1..k : u[i] = m[i]
  <2> HIDE DEF m, l
  <2>1. 0 + 1 = 1 /\ k - 0 = k /\ k <= Len(m) /\ 0 \in Nat /\ 0 <= k
    BY <1>1, <1>2
  <2>2. SubSeq(m, 0 + 1, k) \in Seq(Nat) /\ Len(SubSeq(m, 0 + 1, k)) = k - 0 /\ \A i \in 1..(k - 0) : SubSeq(m, 0 + 1, k)[i] = m[0 + i]
    BY <1>1, <1>2, <2>1, Slice, ZenonT(60)
  <2>3. \A i \in 1..k : 0 + i = i
    BY <1>1
  <2> QED BY <2>1, <2>2, <2>3
<1> HIDE DEF m, x, y, z, u, l
<1>7. u = x
  <2>0. (b + k) - b = k
    BY <1>1
  <2>1. \A i \in 1..k : i \in 1..(e - b) /\ i \in 1..((b + k) - b)
    BY <1>1
  <2>2. \A i \in 1..k : u[i] = x[i]
    BY <1>2, <1>3, <1>6, <2>1
  <2>3. Len(u) = Len(x)
    BY <2>0, <1>3, <1>6
  <2> QED BY <2>2, <2>3, <1>3, <1>6, SeqEqual
<1>8. z = x \o y
  <2>0. Len(x) = k
    BY <1>1, <1>3
  <2>1. x \o y \in Seq(Nat) /\ Len(x \o y) = k + Len(y)
    BY <2>0, <1>3, <1>4, Bytes
  <2>2. Len(x \o y) = Len(z)
    BY <2>1, <1>1, <1>4, <1>5
  <2>3. ASSUME NEW i \in 1..Len(z) PROVE z[i] = (x \o y)[i]
    <3>0. i \in 1..(l - b) /\ z[i] = all[b + i]
      BY <1>5
    <3>1. CASE i <= k
      <4>1. i \in 1..Len(x) /\ i \in 1..((b + k) - b)
        BY <3>0, <3>1, <2>0, <1>1
      <4>2. (x \o y)[i] = x[i]
        BY <4>1, <1>3, <1>4, Bytes
      <4> QED BY <3>0, <4>1, <4>2, <1>3
    <3>2. CASE i > k
      <4>1. i - k \in 1..(l - (b + k)) /\ Len(x) + (i - k) = i /\ (b + k) + (i - k) = b + i
        BY <3>0, <3>2, <2>0, <1>1
      <4>2. (x \o y)[Len(x) + (i - k)] = y[i - k]
        BY <4>1, <1>3, <1>4, Bytes, SMTT(60)
      <4>3. y[i - k] = all[(b + k) + (i - k)]
        BY <4>1, <1>4
      <4> QED BY <3>0, <4>1, <4>2, <4>3
    <3>3. i <= k \/ i > k
      BY <3>0, <1>1
    <3> QED BY <3>1, <3>2, <3>3
  <2> QED BY <2>1, <2>2, <2>3, <1>5, SeqEqual
<1> QED
  BY <1>2, <1>7, <1>8 DEF m, x, y, z, u

\* Buffers of bytes make bytes.
LEMMA FlattenType ==
  ASSUME NEW X \in Seq(Seq(Nat))
  PROVE  FlattenSeq(X) \in Seq(Nat)
<1>1. PICK F \in [0..Len(X) -> Seq(Nat)] : F[Len(X)] = FlattenSeq(X)
  BY FlattenParts
<1>2. Len(X) \in 0..Len(X)
  OBVIOUS
<1> QED BY <1>1, <1>2

\* No write, no bytes.
LEMMA NoWriteFlat ==
  /\ NoWrite.iovecs \in Seq(Seq(Nat)) /\ NoWrite.total = 0 /\ NoWrite.bytes = 0
  /\ FlattenSeq(NoWrite.iovecs) = <<>>
BY DEF NoWrite, FlattenSeq

Writes == [iovecs : Seq(Seq(Nat)), total : Nat, bytes : Nat]

\* NoWrite is a write.
LEMMA NoWriteType == NoWrite \in Writes
BY DEF NoWrite, Writes

\* Sums of lengths are numbers.
LEMMA SumsType ==
  ASSUME NEW L \in Seq(Nat)
  PROVE  Sums(L) \in [0..Len(L) -> Nat]
BY SumsExists, SumsIs

\* Socket_continueWrite offers what comes next, and no more than there is.
LEMMA OfferIs ==
  ASSUME NEW w \in Writes, w.total = Len(FlattenSeq(w.iovecs)), w.bytes <= w.total
  PROVE  \E e \in w.bytes..w.total : Offer(w) = SubSeq(FlattenSeq(w.iovecs), w.bytes + 1, e)
<1> DEFINE X == w.iovecs
           all == FlattenSeq(X)
           upTo == Sums([j \in DOMAIN X |-> Len(X[j])])
           cut == {j \in DOMAIN X : upTo[j - 1] < w.bytes /\ w.bytes < upTo[j]}
<1>1. X \in Seq(Seq(Nat)) /\ w.total \in Nat /\ w.bytes \in Nat
  BY DEF Writes
<1>2. all \in Seq(Nat) /\ w.total = Len(all)
  <2> HIDE DEF X
  <2>1. all \in Seq(Nat)
    BY <1>1, FlattenType
  <2> QED BY <2>1 DEF X
<1>3. Offer(w) = IF cut = {} THEN SubSeq(all, w.bytes + 1, Len(all)) ELSE SubSeq(all, w.bytes + 1, upTo[Min(cut)])
  BY DEF Offer
<1>4. CASE cut = {}
  <2>1. w.total \in w.bytes..w.total
    BY <1>1
  <2> HIDE DEF cut, all
  <2> QED BY <2>1, <1>2, <1>3, <1>4 DEF all
<1>5. CASE cut # {}
  <2>0. cut \in SUBSET Nat
    <3>1. DOMAIN X = 1..Len(X) /\ Len(X) \in Nat
      BY <1>1
    <3> QED BY <3>1
  <2>1. Min(cut) \in cut
    <3> HIDE DEF cut
    <3>1. \E x \in cut : \A y \in cut : x <= y
      BY <2>0, <1>5, LeastElement
    <3> QED BY <3>1 DEF Min
  <2> DEFINE j == Min(cut)
  <2>2. j \in DOMAIN X /\ w.bytes < upTo[j]
    <3> HIDE DEF upTo, X
    <3>1. j \in cut
      BY <2>1
    <3> HIDE DEF j
    <3> QED BY <3>1
  <2>3. upTo[j] \in Nat /\ upTo[j] <= Len(all)
    <3> HIDE DEF j, X, cut
    <3>1. PICK F \in [0..Len(X) -> Seq(Nat)] :
            /\ F[0] = <<>> /\ F[Len(X)] = all
            /\ \A i \in 1..Len(X) : F[i] = F[i - 1] \o X[i]
      BY <1>1, FlattenParts
    <3>2. j \in 0..Len(X) /\ Len(X) \in j..Len(X)
      BY <2>2, <1>1
    <3>3. upTo[j] = Len(F[j])
      BY <3>1, <3>2, <1>1, SumsOfParts
    <3>4. PICK rest \in Seq(Nat) : all = F[j] \o rest
      <4>1. \E rest \in Seq(Nat) : F[Len(X)] = F[j] \o rest
        BY <3>1, <3>2, <1>1, PartsGrow
      <4> QED BY <4>1, <3>1
    <3>5. F[j] \in Seq(Nat)
      BY <3>2
    <3>6. Len(all) = Len(F[j]) + Len(rest) /\ Len(F[j]) \in Nat /\ Len(rest) \in Nat
      <4> HIDE DEF all, upTo
      <4> QED BY <3>4, <3>5, Bytes
    <3> HIDE DEF all, upTo
    <3> QED BY <3>3, <3>6
  <2>4. upTo[j] \in w.bytes..w.total
    <3> HIDE DEF upTo, all, j
    <3> QED BY <2>2, <2>3, <1>1, <1>2
  <2> HIDE DEF cut, upTo
  <2> QED BY <2>4, <1>3, <1>5
<1> QED BY <1>4, <1>5

\* The application's packets are buffers of bytes.
LEMMA BuffersType ==
  ASSUME NEW s \in Streams, NEW p \in 1..Len(OutPackets[s])
  PROVE  Buffers[s][p] \in Seq(Seq(Nat))
<1> DEFINE L == OutPackets[s][p]
           upTo == Sums(L)
           head == <<Stride * p>> \o Encoded[upTo[Len(L)]]
           others == [j \in DOMAIN L |-> [i \in 1..L[j] |-> Stride * p + upTo[j - 1] + i]]
<1>1. OutPackets[s] \in Seq(Seq(Nat)) /\ s \in DOMAIN OutPackets /\ Stride \in Nat
  BY StreamAssumption DEF Streams
<1>2. L \in Seq(Nat) /\ p \in DOMAIN OutPackets[s] /\ p \in Nat
  BY <1>1
<1>3. Buffers[s][p] = <<head>> \o others
  BY <1>2 DEF Buffers
<1>4. upTo \in [0..Len(L) -> Nat] /\ Len(L) \in Nat /\ DOMAIN L = 1..Len(L)
  <2> HIDE DEF L
  <2> QED BY <1>2, SumsType
<1>5. head \in Seq(Nat)
  <2>1. upTo[Len(L)] < Stride
    BY <1>2, OutAssumption
  <2>2. upTo[Len(L)] \in 0..(Stride - 1)
    <3> HIDE DEF upTo, L
    <3>1. upTo[Len(L)] \in Nat
      BY <1>4
    <3> QED BY <2>1, <3>1, <1>1
  <2>3. Encoded[upTo[Len(L)]] \in Seq(Nat)
    <3> HIDE DEF upTo, L
    <3> QED BY <2>2, EncodedEnds DEF EncodedWell
  <2>4. Stride * p \in Nat
    BY <1>1, <1>2
  <2>5. <<Stride * p>> \in Seq(Nat)
    BY <2>4
  <2> HIDE DEF upTo, L
  <2> QED BY <2>3, <2>5, Bytes
<1>6. others \in Seq(Seq(Nat))
  <2> HIDE DEF upTo, L
  <2>1. Stride * p \in Nat
    BY <1>1, <1>2
  <2>2. ASSUME NEW j \in 1..Len(L) PROVE [i \in 1..L[j] |-> Stride * p + upTo[j - 1] + i] \in Seq(Nat)
    <3>1. L[j] \in Nat /\ upTo[j - 1] \in Nat
      BY <1>2, <1>4
    <3> DEFINE a == Stride * p
    <3>2. \A i \in 1..L[j] : a + upTo[j - 1] + i \in Nat
      <4> HIDE DEF a
      <4>1. a \in Nat
        BY <2>1 DEF a
      <4> QED BY <4>1, <3>1
    <3> HIDE DEF a
    <3>3. [i \in 1..L[j] |-> a + upTo[j - 1] + i] \in Seq(Nat)
      BY <3>1, <3>2
    <3> QED BY <3>3 DEF a
  <2>3. others = [j \in 1..Len(L) |-> [i \in 1..L[j] |-> Stride * p + upTo[j - 1] + i]]
    BY <1>4
  <2> QED BY <1>4, <2>2, <2>3, SMTT(60)
<1> QED
  <2> HIDE DEF head, others
  <2> QED BY <1>3, <1>5, <1>6

\* What has been handed of what has been begun (h of b), what the broker has
\* drained (d), the pending write (w) and whether the socket is open (o).
WriteSound(h, b, d, w, o) ==
  /\ d <= Len(h) /\ Len(h) - d <= SendRoom
  /\ w.total = Len(FlattenSeq(w.iovecs)) /\ w.bytes <= w.total
  /\ o => b = h \o SubSeq(FlattenSeq(w.iovecs), w.bytes + 1, w.total)
  /\ ~o => IsPrefix(h, b)

\* Socket_putdatas with the buffers X hands on k bytes.
PutResult(X, h, b, d, k, w1, h1, b1) ==
  /\ k = Min({Len(FlattenSeq(X)), SendRoom - (Len(h) - d)})
  /\ w1 = IF k = Len(FlattenSeq(X)) THEN NoWrite
          ELSE [iovecs |-> X, total |-> Len(FlattenSeq(X)), bytes |-> k]
  /\ h1 = h \o SubSeq(FlattenSeq(X), 1, k) /\ b1 = b \o FlattenSeq(X)

\* Socket_putdatas on a socket without a pending write.
LEMMA PutSound ==
  ASSUME NEW h \in Seq(Nat), NEW b \in Seq(Nat), NEW d \in Nat, WriteSound(h, b, d, NoWrite, TRUE),
         NEW X \in Seq(Seq(Nat)), NEW k, NEW w1, NEW h1, NEW b1, PutResult(X, h, b, d, k, w1, h1, b1)
  PROVE  h1 \in Seq(Nat) /\ b1 \in Seq(Nat) /\ w1 \in Writes /\ WriteSound(h1, b1, d, w1, TRUE)
<1> USE DEF PutResult
<1> DEFINE all == FlattenSeq(X)
           cut == SubSeq(all, 1, k)
           left == SubSeq(all, k + 1, Len(all))
<1>1. all \in Seq(Nat) /\ Len(all) \in Nat
  BY FlattenType
<1>2. SendRoom \in Nat
  BY StreamAssumption
<1>3. d <= Len(h) /\ Len(h) - d <= SendRoom /\ Len(h) \in Nat
  BY DEF WriteSound
<1>4. k \in 0..Len(all) /\ k <= SendRoom - (Len(h) - d)
  <2> HIDE DEF all
  <2>1. SendRoom - (Len(h) - d) \in Nat
    BY <1>2, <1>3
  <2>2. k = IF Len(all) <= SendRoom - (Len(h) - d) THEN Len(all) ELSE SendRoom - (Len(h) - d)
    <3>1. Len(all) \in Int /\ SendRoom - (Len(h) - d) \in Int
      BY <1>1, <2>1
    <3>2. k = Min({Len(all), SendRoom - (Len(h) - d)})
      BY DEF all
    <3> QED BY <3>1, <3>2, MinOfTwo, Zenon
  <2> QED BY <1>1, <2>1, <2>2
<1>5. cut \in Seq(Nat) /\ Len(cut) = k /\ left \in Seq(Nat) /\ all = cut \o left
  <2> HIDE DEF all
  <2>1. 0 \in 0..Len(all) /\ Len(all) \in 0..Len(all) /\ k \in 0..(Len(all) - 0)
    BY <1>1, <1>4
  <2>2. SubSeq(all, 0 + 1, Len(all)) = SubSeq(all, 0 + 1, 0 + k) \o SubSeq(all, 0 + k + 1, Len(all))
    BY <1>1, <2>1, CutOnce
  <2>3. SubSeq(all, 1, Len(all)) = all
    BY <1>1
  <2>4. 0 + 1 = 1 /\ 0 + k = k
    BY <1>4
  <2>5. cut \in Seq(Nat) /\ Len(cut) = k
    <3>1. k \in Nat /\ k <= Len(all) /\ k - 0 = k
      BY <1>4, <1>1
    <3>2. SubSeq(all, 0 + 1, k) \in Seq(Nat) /\ Len(SubSeq(all, 0 + 1, k)) = k - 0
      <4>1. 0 \in Nat /\ 0 <= k
        BY <3>1
      <4> QED BY <1>1, <3>1, <4>1, Slice, Zenon
    <3> QED BY <3>1, <3>2, <2>4
  <2>6. left \in Seq(Nat)
    <3>1. k \in Nat /\ k <= Len(all)
      BY <1>4, <1>1
    <3>2. Len(all) <= Len(all)
      BY <1>1
    <3> QED BY <1>1, <3>1, <3>2, Slice, Zenon
  <2> QED BY <2>2, <2>3, <2>4, <2>5, <2>6
<1>6. b = h
  <2>1. b = h \o SubSeq(<<>>, 0 + 1, 0)
    BY NoWriteFlat DEF WriteSound
  <2>2. SubSeq(<<>>, 0 + 1, 0) = <<>>
    OBVIOUS
  <2> QED BY <2>1, <2>2, Bytes
<1>7. h1 \in Seq(Nat) /\ b1 \in Seq(Nat) /\ Len(h1) = Len(h) + k
  <2>1. h1 = h \o cut /\ b1 = b \o all
    OBVIOUS
  <2> HIDE DEF all, cut, left, PutResult
  <2>2. h \o cut \in Seq(Nat) /\ b \o all \in Seq(Nat) /\ Len(h \o cut) = Len(h) + Len(cut)
    BY <1>1, <1>5, Bytes, Zenon
  <2> QED BY <2>1, <2>2, <1>5, Zenon
<1>8. b1 = h1 \o left
  <2>1. b1 = h \o (cut \o left)
    BY <1>5, <1>6
  <2> HIDE DEF all, cut, left
  <2> QED BY <2>1, <1>5, BytesAssociative DEF cut, all
<1>9. d <= Len(h1) /\ Len(h1) - d <= SendRoom
  <2> DEFINE x == Len(h)
             y == Len(h1)
             l == Len(all)
             j == k
  <2>1. /\ SendRoom \in Nat /\ x \in Nat /\ d <= x /\ x - d <= SendRoom /\ l \in Nat
        /\ j \in 0..l /\ j <= SendRoom - (x - d) /\ y = x + j
    BY <1>1, <1>2, <1>3, <1>4, <1>7, Zenon
  <2> HIDE DEF x, y, l, j, PutResult
  <2>2. d <= y /\ y - d <= SendRoom
    BY <2>1, SMT
  <2> QED BY <2>2, Zenon DEF y
<1>10. CASE k = Len(all)
  <2>1. w1 = NoWrite
    BY <1>10
  <2>2. left = <<>>
    <3> HIDE DEF all
    <3>1. k + 1 > Len(all) /\ k + 1 \in Int /\ Len(all) \in Int
      BY <1>10, <1>1
    <3> QED BY <3>1, SubSeqEmpty
  <2>3. b1 = h1 \o SubSeq(<<>>, 0 + 1, 0)
    <3>1. SubSeq(<<>>, 0 + 1, 0) = <<>>
      OBVIOUS
    <3> HIDE DEF left
    <3> QED BY <1>8, <2>2, <3>1
  <2>4. WriteSound(h1, b1, d, NoWrite, TRUE)
    BY <1>9, <2>3, NoWriteFlat DEF WriteSound
  <2> QED BY <2>1, <2>4, <1>7, NoWriteType
<1>11. CASE k # Len(all)
  <2>1. w1.iovecs = X /\ w1.total = Len(all) /\ w1.bytes = k /\ w1 \in Writes
    BY <1>11, <1>1, <1>4 DEF Writes
  <2> HIDE DEF all, cut
  <2>2. w1.bytes <= w1.total
    BY <2>1, <1>1, <1>4
  <2>3. WriteSound(h1, b1, d, w1, TRUE)
    BY <1>8, <1>9, <2>1, <2>2 DEF WriteSound, all, left
  <2> QED BY <2>1, <2>3, <1>7
<1> QED BY <1>10, <1>11

\* Socket_continueWrite.
LEMMA ContinueSound ==
  ASSUME NEW h \in Seq(Nat), NEW b \in Seq(Nat), NEW d \in Nat, NEW w \in Writes,
         WriteSound(h, b, d, w, TRUE),
         NEW k, k = Min({Len(Offer(w)), SendRoom - (Len(h) - d)}),
         NEW w1, w1 = IF w.bytes + k = w.total THEN NoWrite ELSE [w EXCEPT !.bytes = @ + k],
         NEW h1, h1 = h \o SubSeq(Offer(w), 1, k)
  PROVE  h1 \in Seq(Nat) /\ w1 \in Writes /\ WriteSound(h1, b, d, w1, TRUE)
<1> DEFINE all == FlattenSeq(w.iovecs)
           cut == SubSeq(all, w.bytes + 1, w.bytes + k)
           left == SubSeq(all, w.bytes + k + 1, Len(all))
<1>0. w.iovecs \in Seq(Seq(Nat)) /\ w.total \in Nat /\ w.bytes \in Nat
  BY DEF Writes
<1>1. all \in Seq(Nat) /\ Len(all) \in Nat
  BY <1>0, FlattenType
<1>2. SendRoom \in Nat
  BY StreamAssumption
<1>3. d <= Len(h) /\ Len(h) - d <= SendRoom /\ Len(h) \in Nat
  BY DEF WriteSound
<1>4. w.total = Len(all) /\ w.bytes <= w.total /\ b = h \o SubSeq(all, w.bytes + 1, w.total)
  BY DEF WriteSound
<1>5. PICK e \in w.bytes..w.total : Offer(w) = SubSeq(all, w.bytes + 1, e)
  BY <1>4, OfferIs
<1> HIDE DEF all
<1>6. w.bytes \in 0..Len(all) /\ e \in w.bytes..Len(all) /\ e \in Nat
  BY <1>0, <1>1, <1>4, <1>5
<1>7. Len(Offer(w)) = e - w.bytes
  BY <1>0, <1>1, <1>5, <1>6, Slice
<1>8. k \in 0..(e - w.bytes) /\ k <= SendRoom - (Len(h) - d)
  <2>1. SendRoom - (Len(h) - d) \in Nat /\ Len(Offer(w)) \in Nat
    <3>1. SendRoom - (Len(h) - d) \in Nat
      BY <1>2, <1>3
    <3>2. e - w.bytes \in Nat
      BY <1>0, <1>5, <1>6
    <3> QED BY <3>1, <3>2, <1>7, Zenon
  <2>2. k = IF Len(Offer(w)) <= SendRoom - (Len(h) - d) THEN Len(Offer(w)) ELSE SendRoom - (Len(h) - d)
    <3>1. Len(Offer(w)) \in Int /\ SendRoom - (Len(h) - d) \in Int
      BY <2>1
    <3> QED BY <3>1, MinOfTwo, Zenon
  <2> DEFINE room == SendRoom - (Len(h) - d)
             size == Len(Offer(w))
  <2> HIDE DEF room, size
  <2>3. room \in Nat /\ size \in Nat /\ k = (IF size <= room THEN size ELSE room)
    BY <2>1, <2>2, Zenon DEF room, size
  <2>4. k \in 0..size /\ k <= room
    BY <2>3
  <2> QED BY <2>4, <1>7, Zenon DEF room, size
<1>9. SubSeq(Offer(w), 1, k) = cut /\ SubSeq(all, w.bytes + 1, Len(all)) = cut \o left
  BY <1>1, <1>5, <1>6, <1>8, CutOnce
<1>10. w.bytes + k \in Nat /\ w.bytes <= w.bytes + k /\ w.bytes + k <= Len(all) /\ k \in Nat
  <2> DEFINE x == w.bytes
             l == Len(all)
             j == k
  <2>1. w.bytes <= e /\ e <= Len(all)
    BY <1>0, <1>1, <1>6
  <2>2. x \in Nat /\ e \in Nat /\ l \in Nat /\ x <= e /\ e <= l /\ j \in 0..(e - x)
    BY <2>1, <1>0, <1>1, <1>6, <1>8, Zenon
  <2> HIDE DEF x, l, j
  <2>3. x + j \in Nat /\ x <= x + j /\ x + j <= l /\ j \in Nat
    BY <2>2, SMT
  <2> QED BY <2>3, Zenon DEF x, l, j
<1>11. cut \in Seq(Nat) /\ Len(cut) = k
  <2>1. Len(cut) = (w.bytes + k) - w.bytes /\ cut \in Seq(Nat)
    BY <1>0, <1>1, <1>10, Slice, ZenonT(60)
  <2>2. (w.bytes + k) - w.bytes = k
    BY <1>0, <1>10
  <2> QED BY <2>1, <2>2, Zenon
<1>12. left \in Seq(Nat)
  <2> DEFINE a == w.bytes + k
  <2>1. a \in Nat /\ a <= Len(all)
    BY <1>10
  <2> HIDE DEF a
  <2>2. SubSeq(all, a + 1, Len(all)) \in Seq(Nat)
    BY <2>1, <1>1, Slice
  <2> QED BY <2>2 DEF a
<1> HIDE DEF cut
<1>13. h1 \in Seq(Nat) /\ Len(h1) = Len(h) + k
  <2>1. h1 = h \o cut
    BY <1>9, Zenon
  <2>2. h \o cut \in Seq(Nat) /\ Len(h \o cut) = Len(h) + Len(cut)
    BY <1>11, Bytes, Zenon
  <2> QED BY <2>1, <2>2, <1>11, Zenon
<1>14. b = h1 \o left
  <2> HIDE DEF left
  <2>1. b = h \o (cut \o left)
    BY <1>4, <1>9, Zenon
  <2>2. h \o (cut \o left) = (h \o cut) \o left
    BY <1>11, <1>12, BytesAssociative, Zenon
  <2>3. h1 = h \o cut
    BY <1>9, Zenon
  <2> QED BY <2>1, <2>2, <2>3, Zenon
<1>15. d <= Len(h1) /\ Len(h1) - d <= SendRoom
  BY <1>2, <1>3, <1>8, <1>10, <1>13
<1>16. CASE w.bytes + k = w.total
  <2>1. w1 = NoWrite
    BY <1>16
  <2>2. left = <<>>
    <3>1. w.bytes + k + 1 > Len(all) /\ w.bytes + k + 1 \in Int /\ Len(all) \in Int
      <4> DEFINE a == w.bytes + k
                 l == Len(all)
      <4>1. a \in Nat /\ l \in Nat /\ a = l
        BY <1>10, <1>1, <1>4, <1>16, Zenon
      <4> HIDE DEF a, l
      <4>2. a + 1 > l /\ a + 1 \in Int /\ l \in Int
        BY <4>1
      <4> QED BY <4>2, Zenon DEF a, l
    <3> QED BY <3>1, SubSeqEmpty
  <2>3. b = h1 \o SubSeq(<<>>, 0 + 1, 0)
    <3>1. SubSeq(<<>>, 0 + 1, 0) = <<>>
      OBVIOUS
    <3> HIDE DEF left
    <3> QED BY <1>14, <2>2, <3>1
  <2>4. WriteSound(h1, b, d, NoWrite, TRUE)
    BY <1>15, <2>3, NoWriteFlat DEF WriteSound
  <2> QED BY <2>1, <2>4, <1>13, NoWriteType
<1>17. CASE w.bytes + k # w.total
  <2>1. w1.iovecs = w.iovecs /\ w1.total = w.total /\ w1.bytes = w.bytes + k /\ w1 \in Writes
    BY <1>17, <1>0, <1>10 DEF Writes
  <2>2. w1.bytes <= w1.total
    BY <2>1, <1>4, <1>10
  <2>3. b = h1 \o SubSeq(all, w1.bytes + 1, w1.total)
    BY <1>14, <2>1, <1>4
  <2>4. WriteSound(h1, b, d, w1, TRUE)
    BY <1>4, <1>15, <2>1, <2>2, <2>3 DEF WriteSound, all
  <2> QED BY <2>1, <2>4, <1>13
<1> QED BY <1>16, <1>17

-------------------------------------------------------------------------------
\* What the broker sends.

\* The broker's packets, and its stream before the packets after P.
Packets(s) == [p \in DOMAIN InPackets[s] |-> PacketBytes(p, InPackets[s][p])]
Before(s, P) == FlattenSeq(SubSeq(Packets(s), 1, P))

\* The length of the packet after P, and the number of its digits.
Size(s, P) == InPackets[s][P + 1]
Digits(s, P) == Len(Encoded[Size(s, P)])
Base(s, P) == Len(Before(s, P))

\* Where the packets are in the stream.
LEMMA StreamLayout ==
  ASSUME NEW s \in Streams, NEW P \in 0..(Len(InPackets[s]) - 1)
  PROVE  /\ Size(s, P) \in 0..(Stride - 1) /\ Digits(s, P) \in Nat \ {0}
         /\ Digits(s, P) <= MAX_NO_OF_REMAINING_LENGTH_BYTES
         /\ BrokerStream[s] \in Seq(Nat) /\ Base(s, P) \in Nat
         /\ Base(s, P + 1) = Base(s, P) + 1 + Digits(s, P) + Size(s, P)
         /\ Base(s, P + 1) <= Len(BrokerStream[s])
         /\ BrokerStream[s][Base(s, P) + 1] = Stride * (P + 1)
         /\ \A i \in 1..Digits(s, P) : BrokerStream[s][Base(s, P) + 1 + i] = Encoded[Size(s, P)][i]
         /\ \A i \in 1..Size(s, P) :
              BrokerStream[s][Base(s, P) + 1 + Digits(s, P) + i] = Stride * (P + 1) + i
<1> DEFINE N == Len(InPackets[s])
           X == Packets(s)
           n == Size(s, P)
           E == Encoded[n]
           B == Body(P + 1, n)
           pb == PacketBytes(P + 1, n)
<1>1. InPackets[s] \in Seq(0..(Stride - 1)) /\ Stride \in Nat /\ Stride > 0
  BY StreamAssumption DEF Streams
<1>2. N \in Nat /\ DOMAIN InPackets[s] = 1..N /\ P \in Nat /\ P + 1 \in 1..N
  BY <1>1
<1>3. \A p \in 1..N : InPackets[s][p] \in 0..(Stride - 1)
  BY <1>1
<1>4. n \in 0..(Stride - 1) /\ n \in Nat
  BY <1>1, <1>2, <1>3 DEF Size
<1>5. ASSUME NEW p \in Nat, NEW m \in 0..(Stride - 1)
      PROVE  /\ Encoded[m] \in Seq(Nat) /\ Len(Encoded[m]) \in Nat \ {0}
             /\ Body(p, m) \in Seq(Nat) /\ Len(Body(p, m)) = m /\ \A i \in 1..m : Body(p, m)[i] = Stride * p + i
             /\ <<Stride * p>> \in Seq(Nat) /\ PacketBytes(p, m) \in Seq(Nat)
  <2>1. Encoded[m] \in Seq(Nat) /\ Len(Encoded[m]) \in Nat \ {0}
    BY EncodedEnds DEF EncodedWell
  <2> DEFINE a == Stride * p
  <2>2. a \in Nat
    BY <1>1
  <2>3. m \in Nat
    BY <1>1
  <2> HIDE DEF a
  <2>4. [i \in 1..m |-> a + i] \in Seq(Nat) /\ Len([i \in 1..m |-> a + i]) = m
    <3>1. \A i \in 1..m : a + i \in Nat
      BY <2>2, <2>3
    <3> QED BY <3>1, <2>3
  <2>5. Body(p, m) \in Seq(Nat) /\ Len(Body(p, m)) = m /\ \A i \in 1..m : Body(p, m)[i] = a + i
    BY <2>4 DEF Body, a
  <2>6. <<a>> \in Seq(Nat)
    BY <2>2
  <2>7. PacketBytes(p, m) = (<<a>> \o Encoded[m]) \o Body(p, m)
    BY DEF PacketBytes, a
  <2>8. <<a>> \o Encoded[m] \in Seq(Nat)
    BY <2>1, <2>6, Bytes
  <2>9. PacketBytes(p, m) \in Seq(Nat)
    BY <2>5, <2>7, <2>8, Bytes
  <2> QED BY <2>1, <2>5, <2>6, <2>9 DEF a
<1>6. X \in Seq(Seq(Nat)) /\ Len(X) = N /\ X[P + 1] = pb
  <2>1. X = [p \in 1..N |-> PacketBytes(p, InPackets[s][p])]
    BY <1>2 DEF Packets
  <2>2. \A p \in 1..N : PacketBytes(p, InPackets[s][p]) \in Seq(Nat)
    BY <1>3, <1>5
  <2> HIDE DEF X
  <2>3. X \in Seq(Seq(Nat)) /\ Len(X) = N
    BY <1>2, <2>1, <2>2
  <2> QED BY <1>2, <2>1, <2>3 DEF Size
<1>7. BrokerStream[s] = FlattenSeq(X)
  BY DEF BrokerStream, Packets
<1> HIDE DEF X
<1>8. PICK F \in [0..N -> Seq(Nat)] :
        /\ F[0] = <<>> /\ F[N] = BrokerStream[s]
        /\ \A i \in 1..N : F[i] = F[i - 1] \o X[i]
        /\ \A i \in 0..N : FlattenSeq(SubSeq(X, 1, i)) = F[i]
  <2>1. \E F \in [0..Len(X) -> Seq(Nat)] :
          /\ F[0] = <<>> /\ F[Len(X)] = FlattenSeq(X)
          /\ \A i \in 1..Len(X) : F[i] = F[i - 1] \o X[i]
          /\ \A i \in 0..Len(X) : FlattenSeq(SubSeq(X, 1, i)) = F[i]
    BY <1>6, FlattenParts, Zenon
  <2> QED BY <2>1, <1>6, <1>7, Zenon
<1>9. Before(s, P) = F[P] /\ Before(s, P + 1) = F[P + 1] /\ F[P] \in Seq(Nat) /\ F[P + 1] \in Seq(Nat)
  <2>1. P \in 0..N /\ P + 1 \in 0..N
    BY <1>2
  <2> QED BY <1>8, <2>1 DEF Before, X
<1>10. F[P + 1] = F[P] \o pb
  <2>1. (P + 1) - 1 = P
    BY <1>2
  <2>2. F[P + 1] = F[(P + 1) - 1] \o X[P + 1]
    BY <1>2, <1>8
  <2> QED BY <1>6, <2>1, <2>2
<1>11. PICK rest \in Seq(Nat) : BrokerStream[s] = F[P + 1] \o rest
  <2>1. P + 1 \in 0..N /\ N \in (P + 1)..N
    BY <1>2
  <2>2. \E rest \in Seq(Nat) : F[N] = F[P + 1] \o rest
    <3>1. /\ F \in [0..Len(X) -> Seq(Nat)] /\ P + 1 \in 0..Len(X) /\ N \in (P + 1)..Len(X)
          /\ \A i \in 1..Len(X) : F[i] = F[i - 1] \o X[i]
      BY <1>6, <1>8, <2>1
    <3> QED BY <3>1, <1>6, PartsGrow
  <2> QED BY <1>8, <2>2
<1> DEFINE T == <<Stride * (P + 1)>>
           st == BrokerStream[s]
           b == Len(F[P])
           L == Len(E)
<1>12. /\ E \in Seq(Nat) /\ L \in Nat \ {0} /\ B \in Seq(Nat) /\ Len(B) = n
       /\ T \in Seq(Nat) /\ \A i \in 1..n : B[i] = Stride * (P + 1) + i
  <2>1. P + 1 \in Nat
    BY <1>2
  <2> QED BY <2>1, <1>4, <1>5, Zenon
<1>13. pb = (T \o E) \o B
  BY DEF PacketBytes
<1>14. Base(s, P) = b /\ b \in Nat /\ Digits(s, P) = L /\ Size(s, P) = n
  BY <1>9 DEF Base, Digits
<1> HIDE DEF n, E, B, L, b, st, pb
<1>15. T \o E \in Seq(Nat) /\ Len(T \o E) = 1 + L
  BY <1>12 DEF L
<1>16. (T \o E)[1] = Stride * (P + 1) /\ \A i \in 1..L : (T \o E)[1 + i] = E[i]
  BY <1>12 DEF L
<1>17. pb \in Seq(Nat) /\ Len(pb) = 1 + L + n
  <2>1. (T \o E) \o B \in Seq(Nat) /\ Len((T \o E) \o B) = Len(T \o E) + Len(B)
    BY <1>12, <1>15, Bytes, Zenon
  <2> QED BY <2>1, <1>12, <1>13, <1>15, Zenon
<1>18. F[P + 1] \in Seq(Nat) /\ Len(F[P + 1]) = b + (1 + L + n) /\ Len(F[P + 1]) \in Nat
  <2>1. Len(F[P] \o pb) = Len(F[P]) + Len(pb)
    BY <1>9, <1>17, Bytes, Zenon
  <2>2. Len(F[P + 1]) = b + (1 + L + n)
    BY <2>1, <1>10, <1>17, Zenon DEF b
  <2>3. Len(F[P + 1]) \in Nat
    BY <1>9
  <2> QED BY <1>9, <2>2, <2>3, Zenon
<1>19. st \in Seq(Nat) /\ Len(F[P + 1]) <= Len(st)
  <2>1. st = F[P + 1] \o rest
    BY <1>11 DEF st
  <2>2. Len(st) = Len(F[P + 1]) + Len(rest) /\ st \in Seq(Nat) /\ Len(rest) \in Nat
    BY <2>1, <1>18, Bytes
  <2> QED BY <2>2, <1>18
<1>20. ASSUME NEW i \in 1..(1 + L + n) PROVE st[b + i] = pb[i]
  <2>1. F[P + 1][b + i] = pb[i]
    <3>1. i \in 1..Len(pb)
      BY <1>17, Zenon
    <3>2. (F[P] \o pb)[Len(F[P]) + i] = pb[i]
      BY <3>1, <1>9, <1>17, Bytes, Zenon
    <3> QED BY <3>2, <1>10, Zenon DEF b
  <2>2. b + i \in 1..Len(F[P + 1])
    BY <1>12, <1>14, <1>18, <1>4
  <2>3. st[b + i] = F[P + 1][b + i]
    <3>1. (F[P + 1] \o rest)[b + i] = F[P + 1][b + i]
      BY <2>2, <1>18, Bytes, Zenon
    <3> QED BY <3>1, <1>11, Zenon DEF st
  <2> QED BY <2>1, <2>3
<1>21. ASSUME NEW i \in 1..(1 + L) PROVE pb[i] = (T \o E)[i]
  <2> DEFINE x == T \o E
  <2>1. x \in Seq(Nat) /\ i \in 1..Len(x) /\ B \in Seq(Nat)
    BY <1>12, <1>15, Zenon
  <2> HIDE DEF x
  <2>2. (x \o B)[i] = x[i]
    BY <2>1, Bytes, Zenon
  <2> QED BY <2>2, <1>13, Zenon DEF x
<1>22. ASSUME NEW i \in 1..n PROVE pb[(1 + L) + i] = Stride * (P + 1) + i
  <2> DEFINE x == T \o E
  <2>1. x \in Seq(Nat) /\ Len(x) = 1 + L /\ B \in Seq(Nat) /\ i \in 1..Len(B)
    BY <1>12, <1>15, Zenon
  <2> HIDE DEF x
  <2>2. (x \o B)[Len(x) + i] = B[i]
    BY <2>1, Bytes, Zenon
  <2>3. pb[(1 + L) + i] = B[i]
    BY <2>1, <2>2, <1>13, Zenon DEF x
  <2> QED BY <2>3, <1>12, Zenon
<1>23. n \in Nat /\ L \in Nat /\ L > 0
  BY <1>4, <1>12, <1>1
<1>24. st[b + 1] = Stride * (P + 1)
  <2>1. 1 \in 1..(1 + L + n) /\ 1 \in 1..(1 + L)
    BY <1>23
  <2>2. st[b + 1] = pb[1] /\ pb[1] = (T \o E)[1]
    BY <2>1, <1>20, <1>21
  <2> QED BY <2>2, <1>16
<1>25. ASSUME NEW i \in 1..L PROVE st[b + 1 + i] = E[i]
  <2>1. 1 + i \in 1..(1 + L + n) /\ 1 + i \in 1..(1 + L) /\ b + (1 + i) = b + 1 + i
    BY <1>23, <1>14
  <2>2. st[b + (1 + i)] = pb[1 + i] /\ pb[1 + i] = (T \o E)[1 + i]
    BY <2>1, <1>20, <1>21
  <2>3. st[b + (1 + i)] = E[i]
    BY <2>2, <1>16
  <2> QED BY <2>1, <2>3
<1>26. ASSUME NEW i \in 1..n PROVE st[b + 1 + L + i] = Stride * (P + 1) + i
  <2>1. (1 + L) + i \in 1..(1 + L + n) /\ b + ((1 + L) + i) = b + 1 + L + i
    BY <1>23, <1>14
  <2>2. st[b + ((1 + L) + i)] = pb[(1 + L) + i]
    BY <2>1, <1>20
  <2> QED BY <2>1, <2>2, <1>22
<1>27. L <= MAX_NO_OF_REMAINING_LENGTH_BYTES
  <2>1. P + 1 \in DOMAIN InPackets[s]
    BY <1>2
  <2> QED BY <2>1, LengthAssumption DEF L, E, n, Size
<1>28. Base(s, P + 1) = b + 1 + L + n
  <2>1. Base(s, P + 1) = b + (1 + L + n)
    BY <1>9, <1>18 DEF Base
  <2> QED BY <2>1, <1>23, <1>14
<1>29. Base(s, P + 1) <= Len(st)
  BY <1>9, <1>19 DEF Base
<1> QED
  BY <1>4, <1>12, <1>14, <1>19, <1>23, <1>24, <1>25, <1>26, <1>27, <1>28, <1>29, Zenon DEF E, st

\* Where the stream begins and ends.
LEMMA StreamEnds ==
  ASSUME NEW s \in Streams
  PROVE  /\ Base(s, 0) = 0 /\ BrokerStream[s] \in Seq(Nat) /\ Len(InPackets[s]) \in Nat
         /\ Base(s, Len(InPackets[s])) = Len(BrokerStream[s])
<1> DEFINE N == Len(InPackets[s])
           X == Packets(s)
<1>1. InPackets[s] \in Seq(0..(Stride - 1)) /\ Stride \in Nat /\ Stride > 0
  BY StreamAssumption DEF Streams
<1>2. N \in Nat /\ DOMAIN InPackets[s] = 1..N
  BY <1>1
<1>3. X \in Seq(Seq(Nat)) /\ Len(X) = N
  <2>1. X = [p \in 1..N |-> PacketBytes(p, InPackets[s][p])]
    BY <1>2 DEF Packets
  <2>2. ASSUME NEW p \in 1..N PROVE PacketBytes(p, InPackets[s][p]) \in Seq(Nat)
    <3> DEFINE a == Stride * p
               m == InPackets[s][p]
    <3>1. a \in Nat /\ m \in 0..(Stride - 1) /\ m \in Nat
      BY <1>1, <1>2
    <3> HIDE DEF a, m
    <3>2. Encoded[m] \in Seq(Nat)
      BY <3>1, EncodedEnds DEF EncodedWell
    <3>3. <<a>> \o Encoded[m] \in Seq(Nat)
      BY <3>1, <3>2
    <3>4. [i \in 1..m |-> a + i] \in Seq(Nat)
      <4>1. \A i \in 1..m : a + i \in Nat
        BY <3>1
      <4> QED BY <4>1, <3>1
    <3>5. (<<a>> \o Encoded[m]) \o [i \in 1..m |-> a + i] \in Seq(Nat)
      BY <3>3, <3>4, Bytes
    <3> QED BY <3>5 DEF PacketBytes, Body, a, m
  <2> HIDE DEF X
  <2> QED BY <1>2, <2>1, <2>2
<1>4. BrokerStream[s] = FlattenSeq(X)
  BY DEF BrokerStream, Packets
<1> HIDE DEF X
<1>5. PICK F \in [0..N -> Seq(Nat)] :
        /\ F[0] = <<>> /\ F[N] = BrokerStream[s]
        /\ \A i \in 0..N : FlattenSeq(SubSeq(X, 1, i)) = F[i]
  BY <1>3, <1>4, FlattenParts, ZenonT(60)
<1>6. 0 \in 0..N /\ N \in 0..N
  BY <1>2
<1> QED BY <1>2, <1>5, <1>6 DEF Base, Before, X

-------------------------------------------------------------------------------
\* What is read.

Queues == [header : Seq(Nat), data : Seq(Nat)]

\* The queue q holds the first bytes of the packet after the P that are parsed.
QueueSound(s, q, P) ==
  /\ Len(q.header) <= 1 + Digits(s, P) /\ Len(q.data) <= Size(s, P)
  /\ q.data # <<>> => Len(q.header) = 1 + Digits(s, P)
  /\ \A i \in 1..Len(q.header) : q.header[i] = BrokerStream[s][Base(s, P) + i]
  /\ \A i \in 1..Len(q.data) : q.data[i] = BrokerStream[s][Base(s, P) + 1 + Digits(s, P) + i]

Whole(s, p) == <<Stride * p>> \o Body(p, InPackets[s][p])

\* What has reached the socket (r), what is consumed of it (c), the queue (q)
\* and the packets (ps).
ReadSound(s, r, c, q, ps) ==
  /\ c <= r /\ r <= Len(BrokerStream[s]) /\ Len(ps) <= Len(InPackets[s])
  /\ ps = [p \in 1..Len(ps) |-> Whole(s, p)]
  /\ c = Base(s, Len(ps)) + Len(q.header) + Len(q.data)
  /\ IF Len(ps) = Len(InPackets[s]) THEN q = NoQueue ELSE QueueSound(s, q, Len(ps))

\* The header that is queued and what is on the socket.
Seen(s, r, c, q) == q.header \o SubSeq(BrokerStream[s], c + 1, r)

\* The bytes that MQTTPacket_Factory sees: those of the header in their places,
\* the others after what is queued of the data.
LEMMA SeenBytes ==
  ASSUME NEW s \in Streams, NEW P \in 0..(Len(InPackets[s]) - 1), NEW q \in Queues, QueueSound(s, q, P),
         NEW r \in Nat, NEW c \in Nat, c <= r, r <= Len(BrokerStream[s]),
         c = Base(s, P) + Len(q.header) + Len(q.data)
  PROVE  /\ Seen(s, r, c, q) \in Seq(Nat) /\ Len(Seen(s, r, c, q)) = Len(q.header) + (r - c)
         /\ \A i \in 1..Len(Seen(s, r, c, q)) :
              i <= 1 + Digits(s, P) => Seen(s, r, c, q)[i] = BrokerStream[s][Base(s, P) + i]
         /\ \A i \in 1..Len(Seen(s, r, c, q)) :
              i > 1 + Digits(s, P) => Seen(s, r, c, q)[i] = BrokerStream[s][Base(s, P) + Len(q.data) + i]
<1> DEFINE h == Seen(s, r, c, q)
           st == BrokerStream[s]
           b == Base(s, P)
           L == Digits(s, P)
           new == SubSeq(st, c + 1, r)
           a == Len(q.header)
           k == Len(q.data)
<1>1. st \in Seq(Nat) /\ b \in Nat /\ L \in Nat
  BY StreamLayout
<1>2. q.header \in Seq(Nat) /\ q.data \in Seq(Nat)
  BY DEF Queues
<1>3. a \in Nat /\ k \in Nat
  BY <1>2
<1>4. new \in Seq(Nat) /\ Len(new) = r - c /\ \A i \in 1..(r - c) : new[i] = st[c + i]
  BY <1>1, Slice
<1>5. /\ a <= 1 + L /\ (k # 0 => a = 1 + L) /\ \A i \in 1..a : q.header[i] = st[b + i]
  <2>1. k # 0 => q.data # <<>>
    BY <1>2
  <2> QED BY <2>1 DEF QueueSound
<1>6. c = b + a + k /\ h = q.header \o new
  BY DEF Seen
<1> HIDE DEF h, st, b, L, new, a, k
<1>7. h \in Seq(Nat) /\ Len(h) = a + (r - c)
  <2>1. q.header \o new \in Seq(Nat) /\ Len(q.header \o new) = Len(q.header) + Len(new)
    BY <1>2, <1>4, Bytes, Zenon
  <2> QED BY <2>1, <1>4, <1>6, Zenon DEF a
<1>8. ASSUME NEW i \in 1..Len(h), i <= a PROVE h[i] = st[b + i]
  <2>1. i \in 1..a
    BY <1>8, <1>3, <1>7
  <2>2. h[i] = q.header[i]
    BY <2>1, <1>2, <1>4, <1>6, Bytes DEF a
  <2> QED BY <2>1, <2>2, <1>5
<1>9. ASSUME NEW i \in 1..Len(h), i > a PROVE h[i] = st[b + k + i]
  <2>0. i \in Nat /\ i <= a + (r - c)
    BY <1>7
  <2>1. i - a \in 1..(r - c) /\ a + (i - a) = i /\ c + (i - a) = b + k + i
    <3>1. i - a \in 1..(r - c) /\ a + (i - a) = i
      BY <1>9, <1>3, <2>0
    <3>2. c = b + a + k
      BY <1>6, Zenon
    <3>3. c + (i - a) = b + k + i
      <4>1. b \in Nat /\ a \in Nat /\ k \in Nat /\ i \in Nat
        BY <2>0, <1>1, <1>3, Zenon
      <4>2. (b + a + k) + (i - a) = b + k + i
        BY <4>1, SMT
      <4> QED BY <3>2, <4>2, Zenon
    <3> QED BY <3>1, <3>3, Zenon
  <2>2. h[a + (i - a)] = new[i - a]
    <3>1. i - a \in 1..Len(new)
      BY <2>1, <1>4, Zenon
    <3>2. (q.header \o new)[Len(q.header) + (i - a)] = new[i - a]
      BY <3>1, <1>2, <1>4, Bytes, Zenon
    <3> QED BY <3>2, <1>6, Zenon DEF a
  <2>3. new[i - a] = st[c + (i - a)]
    BY <2>1, <1>4
  <2> QED BY <2>1, <2>2, <2>3
<1>10. ASSUME NEW i \in 1..Len(h), i <= 1 + L PROVE h[i] = st[b + i]
  <2>1. CASE i <= a
    BY <2>1, <1>8
  <2>2. CASE i > a
    <3>1. k = 0
      BY <2>2, <1>10, <1>5, <1>1, <1>3, <1>7
    <3>2. b + k + i = b + i
      BY <3>1, <1>1, <1>7
    <3> QED BY <2>2, <3>2, <1>9
  <2>3. i <= a \/ i > a
    BY <1>3, <1>7
  <2> QED BY <2>1, <2>2, <2>3
<1>11. ASSUME NEW i \in 1..Len(h), i > 1 + L PROVE h[i] = st[b + k + i]
  <2>1. i > a
    BY <1>11, <1>5, <1>1, <1>3, <1>7
  <2> QED BY <2>1, <1>9
<1> QED BY <1>7, <1>10, <1>11, Zenon DEF h, st, b, L, a, k

\* MQTTPacket_decode ends at the last digit, or when there are no more bytes.
LEMMA HeaderEnds ==
  ASSUME NEW s \in Streams, NEW P \in 0..(Len(InPackets[s]) - 1), NEW h \in Seq(Nat),
         \A i \in 1..Len(h) : i <= 1 + Digits(s, P) => h[i] = BrokerStream[s][Base(s, P) + i],
         NEW ends,
         ends = {i \in 2..Min({Len(h), MAX_NO_OF_REMAINING_LENGTH_BYTES + 1}) : h[i] < Radix}
  PROVE  /\ ends = {} <=> Len(h) < 1 + Digits(s, P)
         /\ ends # {} => Min(ends) = 1 + Digits(s, P) /\ Decoded(SubSeq(h, 2, Min(ends))) = Size(s, P)
<1> DEFINE L == Digits(s, P)
           E == Encoded[Size(s, P)]
           last == Min({Len(h), MAX_NO_OF_REMAINING_LENGTH_BYTES + 1})
<1>1. /\ Size(s, P) \in 0..(Stride - 1) /\ L \in Nat \ {0} /\ L <= MAX_NO_OF_REMAINING_LENGTH_BYTES
      /\ \A i \in 1..L : BrokerStream[s][Base(s, P) + 1 + i] = E[i]
      /\ Base(s, P) \in Nat
  BY StreamLayout
<1>2. E \in Seq(Nat) /\ Len(E) = L /\ E[L] < Radix /\ \A i \in 1..(L - 1) : E[i] >= Radix
  BY <1>1, EncodedEnds DEF EncodedWell, Digits
<1>3. MAX_NO_OF_REMAINING_LENGTH_BYTES \in Nat /\ Radix \in Nat /\ Len(h) \in Nat
  BY StreamAssumption
<1>4. last = IF Len(h) <= MAX_NO_OF_REMAINING_LENGTH_BYTES + 1 THEN Len(h) ELSE MAX_NO_OF_REMAINING_LENGTH_BYTES + 1
  <2>1. Len(h) \in Int /\ MAX_NO_OF_REMAINING_LENGTH_BYTES + 1 \in Int
    BY <1>3
  <2> QED BY <2>1, MinOfTwo, Zenon
<1>5. \A i : i \in ends <=> i \in 2..last /\ h[i] < Radix
  OBVIOUS
<1> HIDE DEF last
<1>6. ASSUME NEW j \in 1..L, 1 + j <= Len(h) PROVE h[1 + j] = E[j]
  <2>1. 1 + j \in 1..Len(h) /\ 1 + j <= 1 + L /\ Base(s, P) + (1 + j) = Base(s, P) + 1 + j
    <3> HIDE DEF L
    <3>1. j \in Nat /\ j >= 1 /\ j <= L /\ L \in Nat
      BY <1>1
    <3>2. 1 + j \in 1..Len(h) /\ 1 + j <= 1 + L
      BY <1>6, <3>1, <1>3
    <3>3. Base(s, P) + (1 + j) = Base(s, P) + 1 + j
      BY <3>1, <1>1
    <3> QED BY <3>2, <3>3, Zenon
  <2>2. h[1 + j] = BrokerStream[s][Base(s, P) + (1 + j)]
    BY <2>1, Zenon
  <2> QED BY <2>1, <2>2, <1>1, Zenon
<1> HIDE DEF L, E
<1>7. ASSUME NEW i \in ends PROVE i >= 1 + L /\ i \in Nat
  <2>1. i \in 2..last /\ h[i] < Radix
    BY <1>5, Zenon
  <2>2. i \in Nat /\ i >= 2 /\ i <= Len(h)
    BY <2>1, <1>3, <1>4
  <2>3. SUFFICES ASSUME i < 1 + L PROVE FALSE
    BY <2>2, <1>1
  <2> DEFINE j == i - 1
  <2>4. j \in 1..L /\ j \in 1..(L - 1) /\ 1 + j <= Len(h) /\ 1 + j = i
    BY <2>2, <2>3, <1>1
  <2> HIDE DEF j
  <2>5. h[i] = E[j]
    BY <2>4, <1>6, Zenon
  <2>6. E[j] >= Radix /\ E[j] \in Nat
    <3>1. E[j] >= Radix
      BY <2>4, <1>2, Zenon
    <3>2. E[j] \in Nat
      <4>1. j \in 1..Len(E)
        BY <2>4, <1>2, Zenon
      <4> QED BY <4>1, <1>2
    <3> QED BY <3>1, <3>2, Zenon
  <2> QED BY <2>1, <2>5, <2>6, <1>3
<1>8. CASE Len(h) < 1 + L
  <2>1. ends = {}
    <3>1. SUFFICES ASSUME NEW i \in ends PROVE FALSE
      BY Zenon
    <3>2. i >= 1 + L /\ i \in Nat
      BY <1>7
    <3>3. i \in 2..last
      BY <1>5, Zenon
    <3>4. i <= Len(h)
      BY <3>3, <1>3, <1>4
    <3> QED BY <3>2, <3>4, <1>8, <1>1, <1>3
  <2> QED BY <1>8, <2>1, Zenon DEF L
<1>9. CASE Len(h) >= 1 + L
  <2>1. 1 + L \in 2..last /\ L \in 1..L /\ 1 + L <= Len(h)
    BY <1>9, <1>1, <1>3, <1>4
  <2>2. 1 + L \in ends
    <3>1. h[1 + L] = E[L]
      BY <2>1, <1>6, Zenon
    <3> QED BY <2>1, <3>1, <1>2, <1>5, Zenon
  <2>3. Min(ends) = 1 + L
    <3>1. \A y \in ends : 1 + L <= y
      BY <1>7, <1>1
    <3>2. ASSUME NEW x \in ends, \A y \in ends : x <= y PROVE x = 1 + L
      <4>1. x <= 1 + L /\ x >= 1 + L /\ x \in Nat
        BY <2>2, <3>2, <1>7, Zenon
      <4> QED BY <4>1, <1>1
    <3>3. Min(ends) = CHOOSE x \in ends : \A y \in ends : x <= y
      BY DEF Min
    <3> QED BY <2>2, <3>1, <3>2, <3>3, Zenon
  <2>4. SubSeq(h, 2, 1 + L) = E
    <3> DEFINE g == SubSeq(h, 1 + 1, 1 + L)
    <3>1. 1 \in Nat /\ 1 + L \in Nat /\ 1 <= 1 + L /\ 1 + L <= Len(h) /\ (1 + L) - 1 = L /\ 1 + 1 = 2
      BY <2>1, <1>1
    <3>2. g \in Seq(Nat) /\ Len(g) = (1 + L) - 1 /\ \A i \in 1..((1 + L) - 1) : g[i] = h[1 + i]
      BY <3>1, Slice, Zenon
    <3> HIDE DEF g
    <3>3. \A i \in 1..L : g[i] = E[i]
      <4> TAKE i \in 1..L
      <4>1. g[i] = h[1 + i]
        BY <3>1, <3>2, Zenon
      <4>2. 1 + i <= Len(h)
        BY <3>1, <1>1, <1>3
      <4>3. h[1 + i] = E[i]
        BY <4>2, <1>6, Zenon
      <4> QED BY <4>1, <4>3, Zenon
    <3>4. g = E
      BY <3>1, <3>2, <3>3, <1>2, SeqEqual
    <3> QED BY <3>1, <3>4, Zenon DEF g
  <2>5. Decoded(E) = Size(s, P)
    BY <1>1, LengthIsRead, Zenon DEF E
  <2>6. ~(Len(h) < 1 + L)
    BY <1>9, <1>1, <1>3
  <2> QED BY <2>2, <2>3, <2>4, <2>5, <2>6, Zenon DEF L
<1>10. Len(h) < 1 + L \/ Len(h) >= 1 + L
  BY <1>1, <1>3
<1> QED BY <1>8, <1>9, <1>10, Zenon

\* MQTTPacket_Factory is interrupted in the header.
LEMMA CutInHeader ==
  ASSUME NEW s \in Streams, NEW q \in Queues, NEW ps \in Seq(Seq(Nat)), NEW r \in Nat, NEW c \in Nat,
         ReadSound(s, r, c, q, ps), Len(ps) # Len(InPackets[s]),
         Len(Seen(s, r, c, q)) < 1 + Digits(s, Len(ps))
  PROVE  /\ Seen(s, r, c, q) \in Seq(Nat)
         /\ ReadSound(s, r, r, [header |-> Seen(s, r, c, q), data |-> <<>>], ps)
<1> DEFINE P == Len(ps)
           h == Seen(s, r, c, q)
           L == Digits(s, P)
           b == Base(s, P)
           a == Len(q.header)
           k == Len(q.data)
           q1 == [header |-> h, data |-> <<>>]
<1>1. /\ c <= r /\ r <= Len(BrokerStream[s]) /\ P <= Len(InPackets[s])
      /\ ps = [p \in 1..P |-> Whole(s, p)]
      /\ c = b + a + k /\ QueueSound(s, q, P)
  BY DEF ReadSound
<1>2. P \in 0..(Len(InPackets[s]) - 1)
  BY <1>1, StreamEnds
<1>3. L \in Nat /\ b \in Nat /\ Size(s, P) \in Nat
  <2>1. Stride \in Nat
    BY StreamAssumption
  <2> QED BY <1>2, <2>1, StreamLayout
<1>4. q.data \in Seq(Nat) /\ a \in Nat /\ k \in Nat
  BY DEF Queues
<1> HIDE DEF P, L, b, a, k, h
<1>5. /\ h \in Seq(Nat) /\ Len(h) = a + (r - c)
      /\ \A i \in 1..Len(h) : i <= 1 + L => h[i] = BrokerStream[s][b + i]
  <2>1. c = Base(s, P) + Len(q.header) + Len(q.data)
    BY <1>1, Zenon DEF b, a, k
  <2>2. /\ h \in Seq(Nat) /\ Len(h) = Len(q.header) + (r - c)
        /\ \A i \in 1..Len(h) : i <= 1 + Digits(s, P) => h[i] = BrokerStream[s][Base(s, P) + i]
    <3>1. c <= r /\ r <= Len(BrokerStream[s]) /\ QueueSound(s, q, P)
      BY <1>1, Zenon
    <3> HIDE DEF h
    <3>2. /\ Seen(s, r, c, q) \in Seq(Nat) /\ Len(Seen(s, r, c, q)) = Len(q.header) + (r - c)
          /\ \A i \in 1..Len(Seen(s, r, c, q)) :
               i <= 1 + Digits(s, P) => Seen(s, r, c, q)[i] = BrokerStream[s][Base(s, P) + i]
      BY <1>2, <2>1, <3>1, SeenBytes, ZenonT(120)
    <3> QED BY <3>2, Zenon DEF h
  <2> QED BY <2>2, Zenon DEF L, b, a
<1>6. k = 0
  <2>1. Len(h) < 1 + L
    BY Zenon DEF P, L, h
  <2>2. a # 1 + L
    <3>1. \A x, y, z, l \in Nat : z <= y /\ x + (y - z) < 1 + l => x # 1 + l
      BY SMT
    <3> QED BY <2>1, <3>1, <1>1, <1>3, <1>4, <1>5, Zenon
  <2>3. q.data = <<>>
    BY <2>2, <1>1 DEF QueueSound, a, L
  <2> QED BY <2>3, EmptySeq DEF k
<1>7. r = b + Len(h) + 0
  <2>1. c = b + a + k
    BY <1>1
  <2>2. c = b + a + 0
    BY <2>1, <1>6, Zenon
  <2>3. b + (a + (r - c)) + 0 = r
    BY <2>2, <1>3, <1>4, SMT
  <2> QED BY <2>3, <1>5, Zenon
<1>8. q1.header = h /\ q1.data = <<>> /\ Len(<<>>) = 0
  OBVIOUS
<1> HIDE DEF q1
<1>9. QueueSound(s, q1, P)
  <2>0. Len(h) \in Nat
    BY <1>5, LenProperties, Zenon
  <2>1. Len(h) < 1 + L
    BY Zenon DEF P, L, h
  <2>2. Len(h) <= 1 + L /\ 0 <= Size(s, P)
    <3>1. \A x, y \in Nat : 0 <= x /\ (x < 1 + y => x <= 1 + y)
      BY SMT
    <3> QED BY <2>0, <2>1, <3>1, <1>3, Zenon
  <2>3. \A i \in 1..Len(h) : h[i] = BrokerStream[s][b + i]
    <3>1. \A l, x \in Nat : x <= 1 + l => \A i \in 1..x : i <= 1 + l
      BY SMT
    <3> QED BY <2>0, <2>2, <3>1, <1>3, <1>5, Zenon
  <2>4. \A i \in 1..0 : FALSE
    OBVIOUS
  <2> QED BY <2>2, <2>3, <2>4, <1>8, Zenon DEF QueueSound, L, b
<1>10. r <= r
  OBVIOUS
<1> QED
  BY <1>1, <1>5, <1>7, <1>8, <1>9, <1>10, Zenon DEF ReadSound, P, b, q1, h

\* The data after a read that takes `got' bytes of it.
DataThen(s, P, q, h, got) == q.data \o SubSeq(h, 1 + Digits(s, P) + 1, 1 + Digits(s, P) + got)

\* ... is in its place in the stream.
LEMMA DataRead ==
  ASSUME NEW s \in Streams, NEW P \in 0..(Len(InPackets[s]) - 1), NEW q \in Queues, QueueSound(s, q, P),
         NEW h \in Seq(Nat),
         \A i \in 1..Len(h) : i > 1 + Digits(s, P) => h[i] = BrokerStream[s][Base(s, P) + Len(q.data) + i],
         NEW got \in Nat, 1 + Digits(s, P) + got <= Len(h)
  PROVE  /\ DataThen(s, P, q, h, got) \in Seq(Nat) /\ Len(DataThen(s, P, q, h, got)) = Len(q.data) + got
         /\ \A i \in 1..Len(DataThen(s, P, q, h, got)) :
              DataThen(s, P, q, h, got)[i] = BrokerStream[s][Base(s, P) + 1 + Digits(s, P) + i]
<1> DEFINE data == DataThen(s, P, q, h, got)
           n == 1 + Digits(s, P)
           b == Base(s, P)
           k == Len(q.data)
           more == SubSeq(h, n + 1, n + got)
           st == BrokerStream[s]
<1>1. n \in Nat /\ b \in Nat
  BY StreamLayout, SMTT(60)
<1>2. q.data \in Seq(Nat) /\ k \in Nat
  BY DEF Queues
<1>3. \A i \in 1..k : q.data[i] = st[b + 1 + Digits(s, P) + i]
  BY DEF QueueSound
<1>4. data = q.data \o more /\ n + got <= Len(h)
  BY DEF DataThen
<1>5. b + 1 + Digits(s, P) = b + n
  BY StreamLayout
<1>6. \A i \in 1..Len(h) : i > n => h[i] = st[b + k + i]
  OBVIOUS
<1> HIDE DEF n, b, k, st, data
<1>7. more \in Seq(Nat) /\ Len(more) = got /\ \A i \in 1..got : more[i] = h[n + i]
  <2> DEFINE e == n + got
  <2>1. e \in Nat /\ n <= e /\ e <= Len(h) /\ e - n = got
    BY <1>1, <1>4
  <2> HIDE DEF e
  <2>2. /\ SubSeq(h, n + 1, e) \in Seq(Nat) /\ Len(SubSeq(h, n + 1, e)) = e - n
        /\ \A i \in 1..(e - n) : SubSeq(h, n + 1, e)[i] = h[n + i]
    BY <1>1, <2>1, Slice, Zenon
  <2> QED BY <2>1, <2>2, Zenon DEF e
<1> HIDE DEF more
<1>8. data \in Seq(Nat) /\ Len(data) = k + got
  <2>1. q.data \o more \in Seq(Nat) /\ Len(q.data \o more) = Len(q.data) + Len(more)
    BY <1>2, <1>7, Bytes, Zenon
  <2> QED BY <2>1, <1>4, <1>7, Zenon DEF k
<1>9. ASSUME NEW i \in 1..Len(data) PROVE data[i] = st[b + n + i]
  <2>0. i \in Nat /\ i > 0 /\ i <= k + got
    BY <1>8
  <2>1. CASE i <= k
    <3>1. i \in 1..k
      BY <2>0, <2>1, <1>2
    <3>2. (q.data \o more)[i] = q.data[i]
      BY <3>1, <1>2, <1>7, Bytes, Zenon DEF k
    <3>3. q.data[i] = st[b + n + i]
      BY <3>1, <1>3, <1>5, Zenon
    <3> QED BY <3>2, <3>3, <1>4, Zenon
  <2>2. CASE i > k
    <3> DEFINE j == i - k
    <3>1. j \in 1..got /\ k + j = i /\ n + j \in Nat /\ n + j > n /\ n + j <= Len(h) /\ b + k + (n + j) = b + n + i
      <4>1. j \in Nat /\ j > 0 /\ j <= got /\ k + j = i
        BY <2>0, <2>2, <1>2
      <4> HIDE DEF j
      <4>2. j \in 1..got /\ n + j \in Nat /\ n + j > n
        BY <4>1, <1>1
      <4>3. n + j <= Len(h)
        BY <4>1, <1>1, <1>4
      <4>4. b + k + (n + j) = b + n + i
        BY <4>1, <1>1, <1>2
      <4> QED BY <4>1, <4>2, <4>3, <4>4, Zenon
    <3> HIDE DEF j
    <3>2. (q.data \o more)[Len(q.data) + j] = more[j]
      <4>1. j \in 1..Len(more)
        BY <3>1, <1>7, Zenon
      <4> QED BY <4>1, <1>2, <1>7, Bytes, Zenon
    <3>3. data[i] = more[j]
      BY <3>1, <3>2, <1>4, Zenon DEF k
    <3>4. more[j] = h[n + j]
      BY <3>1, <1>7, Zenon
    <3>5. n + j \in 1..Len(h)
      BY <3>1, <1>1
    <3>6. h[n + j] = st[b + k + (n + j)]
      BY <3>1, <3>5, <1>6, Zenon
    <3> QED BY <3>1, <3>3, <3>4, <3>6, Zenon
  <2>3. i <= k \/ i > k
    BY <2>0, <1>2
  <2> QED BY <2>1, <2>2, <2>3, Zenon
<1>10. \A i \in 1..Len(data) : data[i] = st[b + 1 + Digits(s, P) + i]
  BY <1>5, <1>9, Zenon
<1> QED BY <1>8, <1>10, Zenon DEF k, st, b, data

\* The bytes of the data that a read takes.
Got(s, P, q, h) == Min({Size(s, P) - Len(q.data), Len(h) - (1 + Digits(s, P))})

\* What MQTTPacket_Factory sees when the header is complete.
ReadView(s, P, q, r, c) ==
  LET h == Seen(s, r, c, q)
      got == Got(s, P, q, h)
      data == DataThen(s, P, q, h, got)
  IN  /\ Digits(s, P) \in Nat /\ Size(s, P) \in Nat /\ Base(s, P) \in Nat
      /\ Len(q.header) \in Nat /\ Len(q.data) \in Nat
      /\ h \in Seq(Nat) /\ Len(h) = Len(q.header) + (r - c)
      /\ \A i \in 1..(1 + Digits(s, P)) : h[i] = BrokerStream[s][Base(s, P) + i]
      /\ got \in Nat /\ got <= Size(s, P) - Len(q.data) /\ got <= Len(h) - (1 + Digits(s, P))
      /\ got = Size(s, P) - Len(q.data) \/ got = Len(h) - (1 + Digits(s, P))
      /\ data \in Seq(Nat) /\ Len(data) = Len(q.data) + got
      /\ \A i \in 1..Len(data) : data[i] = BrokerStream[s][Base(s, P) + 1 + Digits(s, P) + i]

\* ... is what the queue and the socket together hold of the packet.
LEMMA ReadFacts ==
  ASSUME NEW s \in Streams, NEW q \in Queues, NEW P \in Nat, NEW r \in Nat, NEW c \in Nat,
         P <= Len(InPackets[s]), P # Len(InPackets[s]), QueueSound(s, q, P),
         c <= r, r <= Len(BrokerStream[s]), c = Base(s, P) + Len(q.header) + Len(q.data),
         Len(Seen(s, r, c, q)) >= 1 + Digits(s, P)
  PROVE  ReadView(s, P, q, r, c)
<1> DEFINE h == Seen(s, r, c, q)
           L == Digits(s, P)
           n == Size(s, P)
           b == Base(s, P)
           k == Len(q.data)
           got == Got(s, P, q, h)
           data == DataThen(s, P, q, h, got)
<1>1. P \in 0..(Len(InPackets[s]) - 1)
  BY StreamEnds
<1>2. L \in Nat /\ b \in Nat /\ n \in Nat
  <2>1. Stride \in Nat
    BY StreamAssumption
  <2>2. n \in 0..(Stride - 1) /\ L \in Nat /\ b \in Nat
    BY <1>1, StreamLayout
  <2> HIDE DEF n, L, b
  <2> QED BY <2>1, <2>2
<1>3. Len(q.header) \in Nat /\ k \in Nat
  BY DEF Queues
<1>4. /\ h \in Seq(Nat) /\ Len(h) = Len(q.header) + (r - c)
      /\ \A i \in 1..Len(h) : i <= 1 + L => h[i] = BrokerStream[s][b + i]
      /\ \A i \in 1..Len(h) : i > 1 + L => h[i] = BrokerStream[s][b + k + i]
  BY <1>1, SeenBytes, ZenonT(120)
<1>5. k <= n
  BY DEF QueueSound
<1>6. got = Min({n - k, Len(h) - (1 + L)}) /\ Len(h) >= 1 + L
  BY DEF Got
<1> HIDE DEF h, L, n, b, k, got, data
<1>8. Len(h) \in Nat
  BY <1>4, LenProperties, Zenon
<1>9. got = IF n - k <= Len(h) - (1 + L) THEN n - k ELSE Len(h) - (1 + L)
  <2>1. n - k \in Int /\ Len(h) - (1 + L) \in Int
    BY <1>2, <1>3, <1>8, SMT
  <2> QED BY <2>1, <1>6, MinOfTwo, Zenon
<1>10. /\ got \in Nat /\ got <= n - k /\ got <= Len(h) - (1 + L)
       /\ got = n - k \/ got = Len(h) - (1 + L)
  <2> DEFINE x == Len(h)
  <2>1. x \in Nat /\ x >= 1 + L /\ got = IF n - k <= x - (1 + L) THEN n - k ELSE x - (1 + L)
    BY <1>6, <1>8, <1>9, Zenon
  <2> HIDE DEF x
  <2>2. /\ got \in Nat /\ got <= n - k /\ got <= x - (1 + L)
        /\ got = n - k \/ got = x - (1 + L)
    BY <2>1, <1>2, <1>3, <1>5, SMT
  <2> QED BY <2>2, Zenon DEF x
<1>11. 1 + L + got <= Len(h)
  <2> DEFINE x == Len(h)
  <2> HIDE DEF x
  <2>1. x \in Nat /\ got <= x - (1 + L)
    BY <1>8, <1>10, Zenon DEF x
  <2>2. 1 + L + got <= x
    BY <2>1, <1>2, <1>10, SMT
  <2> QED BY <2>2, Zenon DEF x
<1>12. /\ data \in Seq(Nat) /\ Len(data) = k + got
       /\ \A i \in 1..Len(data) : data[i] = BrokerStream[s][b + 1 + L + i]
  <2>1. /\ 1 + Digits(s, P) + got <= Len(h) /\ got \in Nat /\ h \in Seq(Nat)
        /\ \A i \in 1..Len(h) : i > 1 + Digits(s, P) => h[i] = BrokerStream[s][Base(s, P) + Len(q.data) + i]
    BY <1>4, <1>10, <1>11, Zenon DEF L, b, k
  <2>2. /\ DataThen(s, P, q, h, got) \in Seq(Nat) /\ Len(DataThen(s, P, q, h, got)) = Len(q.data) + got
        /\ \A i \in 1..Len(DataThen(s, P, q, h, got)) :
              DataThen(s, P, q, h, got)[i] = BrokerStream[s][Base(s, P) + 1 + Digits(s, P) + i]
    BY <1>1, <2>1, DataRead, ZenonT(60)
  <2> QED BY <2>2, Zenon DEF L, b, k, data
<1>13. \A i \in 1..(1 + L) : h[i] = BrokerStream[s][b + i]
  <2>1. ASSUME NEW i \in 1..(1 + L) PROVE i \in 1..Len(h) /\ i <= 1 + L
    <3> DEFINE x == Len(h)
    <3> HIDE DEF x
    <3>1. x \in Nat /\ x >= 1 + L
      BY <1>6, <1>8, Zenon DEF x
    <3>2. i \in 1..x /\ i <= 1 + L
      BY <3>1, <1>2, SMT
    <3> QED BY <3>2, Zenon DEF x
  <2> QED BY <2>1, <1>4, Zenon
<1> QED
  BY <1>2, <1>3, <1>4, <1>10, <1>12, <1>13, Zenon DEF ReadView, h, L, n, b, k, got, data

\* MQTTPacket_Factory is interrupted in the data.
LEMMA CutInData ==
  ASSUME NEW s \in Streams, NEW q \in Queues, NEW ps \in Seq(Seq(Nat)), NEW r \in Nat, NEW c \in Nat,
         ReadSound(s, r, c, q, ps), Len(ps) # Len(InPackets[s]),
         Len(Seen(s, r, c, q)) >= 1 + Digits(s, Len(ps)),
         Got(s, Len(ps), q, Seen(s, r, c, q)) < Size(s, Len(ps)) - Len(q.data)
  PROVE  LET q1 == [header |-> SubSeq(Seen(s, r, c, q), 1, 1 + Digits(s, Len(ps))),
                    data |-> DataThen(s, Len(ps), q, Seen(s, r, c, q), Got(s, Len(ps), q, Seen(s, r, c, q)))]
         IN  q1 \in Queues /\ ReadSound(s, r, r, q1, ps)
<1> DEFINE P == Len(ps)
           h == Seen(s, r, c, q)
           L == Digits(s, P)
           n == Size(s, P)
           b == Base(s, P)
           a == Len(q.header)
           k == Len(q.data)
           got == Got(s, P, q, h)
           data == DataThen(s, P, q, h, got)
           hd == SubSeq(h, 1, 1 + L)
           q1 == [header |-> hd, data |-> data]
           st == BrokerStream[s]
<1>1. /\ c <= r /\ r <= Len(st) /\ P <= Len(InPackets[s])
      /\ ps = [p \in 1..P |-> Whole(s, p)]
      /\ c = b + a + k /\ QueueSound(s, q, P)
  BY DEF ReadSound
<1>2. P \in Nat /\ P # Len(InPackets[s]) /\ Len(h) >= 1 + L /\ got < n - k
  OBVIOUS
<1>3. /\ L \in Nat /\ n \in Nat /\ b \in Nat /\ a \in Nat /\ k \in Nat
      /\ h \in Seq(Nat) /\ Len(h) = a + (r - c)
      /\ \A i \in 1..(1 + L) : h[i] = st[b + i]
      /\ got \in Nat /\ (got = n - k \/ got = Len(h) - (1 + L))
      /\ data \in Seq(Nat) /\ Len(data) = k + got
      /\ \A i \in 1..Len(data) : data[i] = st[b + 1 + L + i]
  <2>1. /\ P <= Len(InPackets[s]) /\ QueueSound(s, q, P) /\ c <= r /\ r <= Len(BrokerStream[s])
        /\ c = Base(s, P) + Len(q.header) + Len(q.data) /\ Len(Seen(s, r, c, q)) >= 1 + Digits(s, P)
    BY <1>1, <1>2, Zenon
  <2>2. P \in Nat /\ P # Len(InPackets[s])
    BY <1>2, Zenon
  <2> HIDE DEF P
  <2>3. ReadView(s, P, q, r, c)
    BY <2>1, <2>2, ReadFacts
  <2> QED BY <2>3, Zenon DEF ReadView
<1> HIDE DEF P, h, L, n, b, a, k, got, data, st
<1>4. got = (a + (r - c)) - (1 + L)
  <2>1. got # n - k
    BY <1>2, <1>3, SMT
  <2> QED BY <2>1, <1>3, Zenon
<1>5. hd \in Seq(Nat) /\ Len(hd) = 1 + L /\ \A i \in 1..(1 + L) : hd[i] = st[b + i]
  <2> DEFINE e == 1 + L
  <2>1. e \in Nat /\ 0 <= e /\ 0 + 1 = 1 /\ e - 0 = e /\ 0 \in Nat
    BY <1>3, SMT
  <2>2. e <= Len(h)
    <3>1. \A x, y \in Nat : x >= y => y <= x
      BY SMT
    <3>2. Len(h) \in Nat
      BY <1>3, LenProperties, Zenon
    <3> QED BY <3>1, <3>2, <2>1, <1>2, Zenon
  <2> HIDE DEF e
  <2>3. /\ SubSeq(h, 0 + 1, e) \in Seq(Nat) /\ Len(SubSeq(h, 0 + 1, e)) = e - 0
        /\ \A i \in 1..(e - 0) : SubSeq(h, 0 + 1, e)[i] = h[0 + i]
    <3>1. h \in Seq(Nat)
      BY <1>3, Zenon
    <3> QED BY <2>1, <2>2, <3>1, Slice, Zenon
  <2>4. \A i \in 1..e : 0 + i = i
    BY <2>1, SMT
  <2> QED BY <2>1, <2>3, <2>4, <1>3, ZenonT(60) DEF e
<1> HIDE DEF hd
<1>6. q1.header = hd /\ q1.data = data /\ q1 \in Queues
  BY <1>3, <1>5, Zenon DEF Queues
<1> HIDE DEF q1
<1>7. r = b + (1 + L) + (k + got)
  <2>1. c = b + a + k
    BY <1>1, Zenon
  <2> QED BY <2>1, <1>3, <1>4, SMT
<1>8. k + got <= n
  BY <1>2, <1>3, SMTT(60)
<1>9. QueueSound(s, q1, P)
  <2>1. 1 + L <= 1 + L
    BY <1>3, SMT
  <2> QED BY <2>1, <1>3, <1>5, <1>6, <1>8, Zenon DEF QueueSound, L, n, b, st
<1>10. r <= r
  OBVIOUS
<1>11. ReadSound(s, r, r, q1, ps)
  BY <1>1, <1>2, <1>3, <1>5, <1>6, <1>7, <1>9, <1>10, Zenon DEF ReadSound, P, b, st
<1> QED
  BY <1>6, <1>11, Zenon DEF q1, hd, data, got, h, L, P

\* MQTTPacket_Factory returns a packet.
LEMMA PacketIsRead ==
  ASSUME NEW s \in Streams, NEW q \in Queues, NEW ps \in Seq(Seq(Nat)), NEW r \in Nat, NEW c \in Nat,
         ReadSound(s, r, c, q, ps), Len(ps) # Len(InPackets[s]),
         Len(Seen(s, r, c, q)) >= 1 + Digits(s, Len(ps)),
         Got(s, Len(ps), q, Seen(s, r, c, q)) = Size(s, Len(ps)) - Len(q.data)
  PROVE  LET h  == Seen(s, r, c, q)
             c1 == c + ((1 + Digits(s, Len(ps))) - Len(q.header)) + Got(s, Len(ps), q, h)
             pk == <<h[1]>> \o DataThen(s, Len(ps), q, h, Got(s, Len(ps), q, h))
         IN  c1 \in Nat /\ pk \in Seq(Nat) /\ ReadSound(s, r, c1, NoQueue, Append(ps, pk))
<1> DEFINE P == Len(ps)
           h == Seen(s, r, c, q)
           L == Digits(s, P)
           n == Size(s, P)
           b == Base(s, P)
           a == Len(q.header)
           k == Len(q.data)
           got == Got(s, P, q, h)
           data == DataThen(s, P, q, h, got)
           st == BrokerStream[s]
           c1 == c + ((1 + L) - a) + got
           pk == <<h[1]>> \o data
           ps1 == Append(ps, pk)
<1>1. /\ c <= r /\ r <= Len(st) /\ P <= Len(InPackets[s])
      /\ ps = [p \in 1..P |-> Whole(s, p)]
      /\ c = b + a + k /\ QueueSound(s, q, P)
  BY DEF ReadSound
<1>2. P \in Nat /\ P # Len(InPackets[s]) /\ Len(h) >= 1 + L /\ got = n - k
  OBVIOUS
<1>3. /\ L \in Nat /\ n \in Nat /\ b \in Nat /\ a \in Nat /\ k \in Nat
      /\ h \in Seq(Nat) /\ Len(h) = a + (r - c)
      /\ \A i \in 1..(1 + L) : h[i] = st[b + i]
      /\ got \in Nat /\ got <= Len(h) - (1 + L)
      /\ data \in Seq(Nat) /\ Len(data) = k + got
      /\ \A i \in 1..Len(data) : data[i] = st[b + 1 + L + i]
  <2>1. /\ P <= Len(InPackets[s]) /\ QueueSound(s, q, P) /\ c <= r /\ r <= Len(BrokerStream[s])
        /\ c = Base(s, P) + Len(q.header) + Len(q.data) /\ Len(Seen(s, r, c, q)) >= 1 + Digits(s, P)
    BY <1>1, <1>2, Zenon
  <2>2. P \in Nat /\ P # Len(InPackets[s])
    BY <1>2, Zenon
  <2> HIDE DEF P
  <2>3. ReadView(s, P, q, r, c)
    BY <2>1, <2>2, ReadFacts
  <2> QED BY <2>3, Zenon DEF ReadView
<1>4. P \in 0..(Len(InPackets[s]) - 1)
  BY <1>1, <1>2, StreamEnds
<1>5. /\ Base(s, P + 1) = b + 1 + L + n /\ st[b + 1] = Stride * (P + 1)
      /\ \A i \in 1..n : st[b + 1 + L + i] = Stride * (P + 1) + i
  <2> HIDE DEF P
  <2> QED BY <1>4, StreamLayout
<1> HIDE DEF P, h, L, n, b, a, k, got, data, st
<1>6. c1 = b + 1 + L + n /\ c1 \in Nat /\ c1 <= r
  <2>1. c = b + a + k
    BY <1>1, Zenon
  <2>2. got <= (a + (r - c)) - (1 + L)
    BY <1>3, Zenon
  <2>3. c1 = b + 1 + L + n
    BY <2>1, <1>2, <1>3, SMT
  <2>4. c1 \in Nat
    BY <2>3, <1>3, SMT
  <2>5. c1 <= r
    BY <2>1, <2>2, <1>3, SMT
  <2> QED BY <2>3, <2>4, <2>5, Zenon
<1>7. h[1] = Stride * (P + 1)
  <2>1. 1 \in 1..(1 + L)
    BY <1>3, SMT
  <2> QED BY <2>1, <1>3, <1>5, Zenon
<1>8. Len(data) = n
  BY <1>2, <1>3, SMT
<1>9. data = Body(P + 1, n)
  <2> DEFINE w == Stride * (P + 1)
  <2>0. w \in Nat
    <3>1. Stride \in Nat
      BY StreamAssumption
    <3> QED BY <3>1, <1>2, SMT
  <2>1. Body(P + 1, n) = [i \in 1..n |-> w + i]
    BY DEF Body
  <2> HIDE DEF w
  <2>2. \A i \in 1..n : data[i] = w + i
    BY <1>3, <1>5, <1>8, Zenon DEF w
  <2>3. data = [i \in 1..n |-> data[i]]
    BY <1>3, <1>8, LenProperties
  <2> QED BY <2>1, <2>2, <2>3, Zenon
<1>10. pk = Whole(s, P + 1)
  BY <1>7, <1>9, Zenon DEF Whole, n, Size
<1>11. pk \in Seq(Nat)
  <2>1. h[1] \in Nat
    <3>1. Stride \in Nat
      BY StreamAssumption
    <3> DEFINE w == Stride * (P + 1)
    <3>2. w \in Nat
      BY <3>1, <1>2, SMT
    <3> QED BY <3>2, <1>7, Zenon
  <2>2. <<h[1]>> \in Seq(Nat)
    BY <2>1, SMT
  <2> QED BY <2>2, <1>3, Bytes, Zenon
<1> HIDE DEF pk, c1
<1>12. Len(ps1) = P + 1 /\ ps1 = [p \in 1..(P + 1) |-> Whole(s, p)]
  <2>1. Len(ps1) = P + 1 /\ ps1 \in Seq(Seq(Nat)) /\ \A i \in 1..P : ps1[i] = ps[i] /\ ps1[P + 1] = pk
    BY <1>11 DEF P
  <2>2. ps1 = [p \in 1..(P + 1) |-> ps1[p]]
    <3> HIDE DEF ps1
    <3> QED BY <2>1, <1>2, LenProperties
  <2>3. ASSUME NEW p \in 1..(P + 1) PROVE ps1[p] = Whole(s, p)
    <3> HIDE DEF ps1
    <3>1. CASE p \in 1..P
      <4>1. ps[p] = Whole(s, p)
        BY <3>1, <1>1
      <4> QED BY <4>1, <3>1, <2>1, Zenon
    <3>2. CASE p = P + 1
      <4>1. ps1[P + 1] = pk
        BY AppendProperties, <1>11, <1>2 DEF ps1, P
      <4> QED BY <3>2, <4>1, <1>10, Zenon
    <3>3. p \in 1..P \/ p = P + 1
      BY <1>2, SMT
    <3> QED BY <3>1, <3>2, <3>3, Zenon
  <2> HIDE DEF ps1
  <2> QED BY <2>1, <2>2, <2>3, Zenon
<1> HIDE DEF ps1
<1>13. NoQueue.header = <<>> /\ NoQueue.data = <<>> /\ Len(<<>>) = 0 /\ NoQueue \in Queues
  BY DEF NoQueue, Queues
<1>14. P + 1 <= Len(InPackets[s])
  <2>1. Len(InPackets[s]) \in Nat
    BY StreamEnds, Zenon
  <2> QED BY <1>4, <2>1, SMT
<1>15. P + 1 # Len(InPackets[s]) => QueueSound(s, NoQueue, P + 1)
  <2>1. SUFFICES ASSUME P + 1 # Len(InPackets[s]) PROVE QueueSound(s, NoQueue, P + 1)
    BY Zenon
  <2>2. Len(InPackets[s]) \in Nat
    BY StreamEnds, Zenon
  <2>3. P + 1 \in 0..(Len(InPackets[s]) - 1)
    BY <2>1, <2>2, <1>2, <1>14, SMT
  <2> DEFINE Q == P + 1
  <2> HIDE DEF Q
  <2>4. Size(s, Q) \in 0..(Stride - 1) /\ Digits(s, Q) \in Nat
    BY <2>3, StreamLayout DEF Q
  <2>5. 0 <= 1 + Digits(s, Q) /\ 0 <= Size(s, Q)
    <3>1. Stride \in Nat
      BY StreamAssumption
    <3> QED BY <3>1, <2>4, SMT
  <2>6. \A i \in 1..0 : FALSE
    BY SMT
  <2>7. QueueSound(s, NoQueue, Q)
    BY <2>5, <2>6, <1>13, Zenon DEF QueueSound
  <2> QED BY <2>7, Zenon DEF Q
<1>16. c1 = Base(s, P + 1) + 0 + 0
  <2> DEFINE w == Base(s, P + 1)
  <2>1. c1 = w /\ c1 \in Nat
    BY <1>5, <1>6, Zenon
  <2> HIDE DEF w
  <2>2. w + 0 + 0 = w
    BY <2>1, SMT
  <2> QED BY <2>1, <2>2, Zenon DEF w
<1>17. ReadSound(s, r, c1, NoQueue, ps1)
  BY <1>1, <1>6, <1>12, <1>13, <1>14, <1>15, <1>16, Zenon DEF ReadSound, st
<1> QED
  BY <1>6, <1>11, <1>17, Zenon DEF c1, pk, ps1, h, L, a, got, data, P

-------------------------------------------------------------------------------
\* The inductive invariant, action by action.

\* The writing half of the invariant.
WriteInv ==
  /\ handed \in [Streams -> Seq(Nat)] /\ begun \in [Streams -> Seq(Nat)] /\ drained \in [Streams -> Nat]
  /\ wpending \in [Streams -> Writes] /\ opened \in [Streams -> BOOLEAN] /\ appOut \in [Streams -> Nat]
  /\ \A s \in Streams : WriteSound(handed[s], begun[s], drained[s], wpending[s], opened[s])

\* The reading half.
ReadInv ==
  /\ reached \in [Streams -> Nat] /\ consumed \in [Streams -> Nat]
  /\ rqueue \in [Streams -> Queues] /\ parsed \in [Streams -> Seq(Seq(Nat))]
  /\ \A s \in Streams : ReadSound(s, reached[s], consumed[s], rqueue[s], parsed[s])

\* The inductive invariant.
StreamInv == WriteInv /\ ReadInv

\* A sequence is a prefix of what it is continued to.
LEMMA PrefixOfConcat ==
  ASSUME NEW h \in Seq(Nat), NEW rest \in Seq(Nat)
  PROVE  IsPrefix(h, h \o rest)
<1> DEFINE b == h \o rest
<1>1. b \in Seq(Nat) /\ Len(b) = Len(h) + Len(rest) /\ Len(h) \in Nat /\ Len(rest) \in Nat
      /\ \A i \in 1..Len(h) : b[i] = h[i]
  BY Bytes
<1> HIDE DEF b
<1>2. SubSeq(h, 1, Len(h)) = h
  BY SubSeqFull
<1>3. SubSeq(b, 1, Len(h)) = h
  <2>1. SubSeq(b, 1, Len(h)) \in Seq(Nat) /\ Len(SubSeq(b, 1, Len(h))) = Len(h)
        /\ \A i \in 1..Len(h) : SubSeq(b, 1, Len(h))[i] = b[i]
    BY <1>1
  <2> QED BY <2>1, <1>1, SeqEqual
<1>4. Len(h) <= Len(b)
  BY <1>1
<1> QED BY <1>2, <1>3, <1>4 DEF IsPrefix, b

\* What a pending write still holds.
LEMMA LeftIsBytes ==
  ASSUME NEW h \in Seq(Nat), NEW b \in Seq(Nat), NEW d \in Nat, NEW w \in Writes, WriteSound(h, b, d, w, TRUE)
  PROVE  /\ SubSeq(FlattenSeq(w.iovecs), w.bytes + 1, w.total) \in Seq(Nat)
         /\ Len(SubSeq(FlattenSeq(w.iovecs), w.bytes + 1, w.total)) = w.total - w.bytes
<1>1. w.iovecs \in Seq(Seq(Nat)) /\ w.total \in Nat /\ w.bytes \in Nat
  BY DEF Writes
<1>2. FlattenSeq(w.iovecs) \in Seq(Nat)
  BY <1>1, FlattenType
<1>3. w.total = Len(FlattenSeq(w.iovecs)) /\ w.bytes <= w.total
  BY DEF WriteSound
<1> DEFINE all == FlattenSeq(w.iovecs)
<1> HIDE DEF all
<1>4. all \in Seq(Nat) /\ w.total <= Len(all)
  <2>1. w.total = Len(all)
    BY <1>3 DEF all
  <2> QED BY <2>1, <1>1, <1>2 DEF all
<1>5. SubSeq(all, w.bytes + 1, w.total) \in Seq(Nat) /\ Len(SubSeq(all, w.bytes + 1, w.total)) = w.total - w.bytes
  BY <1>1, <1>3, <1>4, Slice, SMTT(60)
<1> QED BY <1>5 DEF all

\* Socket_putdatas keeps the writing half.
LEMMA PutKeeps ==
  ASSUME WriteInv, NEW s \in Streams, opened[s], NoPendingWrites(s), NEW X \in Seq(Seq(Nat)),
         PutDatas(s, X), UNCHANGED <<drained, opened>>, appOut' \in [Streams -> Nat]
  PROVE  WriteInv'
<1> DEFINE all == FlattenSeq(X)
           k == Min({Len(all), Room(s)})
           w1 == IF k = Len(all) THEN NoWrite ELSE [iovecs |-> X, total |-> Len(all), bytes |-> k]
           h1 == handed[s] \o SubSeq(all, 1, k)
           b1 == begun[s] \o all
<1>1. /\ handed' = [handed EXCEPT ![s] = h1] /\ wpending' = [wpending EXCEPT ![s] = w1]
      /\ begun' = [begun EXCEPT ![s] = b1]
  BY DEF PutDatas
<1>2. /\ handed[s] \in Seq(Nat) /\ begun[s] \in Seq(Nat) /\ drained[s] \in Nat
      /\ WriteSound(handed[s], begun[s], drained[s], NoWrite, TRUE)
  BY DEF WriteInv, NoPendingWrites
<1>3. h1 \in Seq(Nat) /\ b1 \in Seq(Nat) /\ w1 \in Writes /\ WriteSound(h1, b1, drained[s], w1, TRUE)
  <2>1. PutResult(X, handed[s], begun[s], drained[s], k, w1, h1, b1)
    BY DEF PutResult, Room
  <2> HIDE DEF k, w1, h1, b1
  <2> QED BY <1>2, <2>1, PutSound, ZenonT(20)
<1> HIDE DEF h1, b1, w1
<1>4. /\ handed' \in [Streams -> Seq(Nat)] /\ begun' \in [Streams -> Seq(Nat)]
      /\ wpending' \in [Streams -> Writes]
  BY <1>1, <1>3 DEF WriteInv
<1>5. ASSUME NEW t \in Streams
      PROVE  WriteSound(handed'[t], begun'[t], drained'[t], wpending'[t], opened'[t])
  <2>1. CASE t = s
    <3>1. handed'[t] = h1 /\ begun'[t] = b1 /\ wpending'[t] = w1 /\ drained'[t] = drained[s] /\ opened'[t] = opened[s]
      BY <1>1, <2>1 DEF WriteInv
    <3>2. opened[s] = TRUE
      BY DEF WriteInv
    <3> QED BY <1>3, <3>1, <3>2
  <2>2. CASE t # s
    <3>1. handed'[t] = handed[t] /\ begun'[t] = begun[t] /\ wpending'[t] = wpending[t]
          /\ drained'[t] = drained[t] /\ opened'[t] = opened[t]
      BY <1>1, <2>2 DEF WriteInv
    <3> QED BY <3>1 DEF WriteInv
  <2> QED BY <2>1, <2>2
<1> QED BY <1>4, <1>5 DEF WriteInv

\* The application writes a packet.
LEMMA AppWritesKeeps ==
  ASSUME StreamInv, NEW s \in Streams, AppWrites(s)
  PROVE  StreamInv'
<1>1. WriteInv'
  <2> DEFINE p == appOut[s] + 1
  <2>1. appOut[s] \in Nat /\ appOut' \in [Streams -> Nat] /\ appOut'[s] = p
    BY DEF AppWrites, StreamInv, WriteInv
  <2>2. p \in 1..Len(OutPackets[s])
    <3>1. appOut[s] < Len(OutPackets[s])
      BY DEF AppWrites
    <3>2. OutPackets[s] \in Seq(Seq(Nat))
      BY StreamAssumption DEF Streams
    <3>3. Len(OutPackets[s]) \in Nat
      BY <3>2, LenProperties
    <3> QED BY <2>1, <3>1, <3>3
  <2>3. Buffers[s][p] \in Seq(Seq(Nat))
    <3> HIDE DEF p
    <3> QED BY <2>2, BuffersType
  <2>4. PutDatas(s, Buffers[s][p]) /\ opened[s] /\ NoPendingWrites(s) /\ UNCHANGED <<drained, opened>>
    BY <2>1 DEF AppWrites
  <2> HIDE DEF p
  <2> QED BY <2>1, <2>3, <2>4, PutKeeps DEF StreamInv
<1>2. ReadInv'
  BY DEF StreamInv, ReadInv, AppWrites
<1> QED BY <1>1, <1>2 DEF StreamInv

\* A write that was cut goes on.
LEMMA ContinueKeeps ==
  ASSUME StreamInv, NEW s \in Streams, ContinueWrite(s)
  PROVE  StreamInv'
<1> DEFINE w == wpending[s]
           k == Min({Len(Offer(w)), Room(s)})
           w1 == IF w.bytes + k = w.total THEN NoWrite ELSE [w EXCEPT !.bytes = @ + k]
           h1 == handed[s] \o SubSeq(Offer(w), 1, k)
<1>0. opened[s] /\ UNCHANGED <<begun, drained, opened, appOut, reached, consumed, rqueue, parsed>>
  BY DEF ContinueWrite, Continues
<1>1. handed' = [handed EXCEPT ![s] = h1] /\ wpending' = [wpending EXCEPT ![s] = w1]
  BY DEF ContinueWrite
<1>2. /\ handed[s] \in Seq(Nat) /\ begun[s] \in Seq(Nat) /\ drained[s] \in Nat /\ w \in Writes
      /\ opened[s] = TRUE /\ WriteSound(handed[s], begun[s], drained[s], w, TRUE)
  BY <1>0 DEF StreamInv, WriteInv
<1>3. h1 \in Seq(Nat) /\ w1 \in Writes /\ WriteSound(h1, begun[s], drained[s], w1, TRUE)
  <2>1. /\ k = Min({Len(Offer(w)), SendRoom - (Len(handed[s]) - drained[s])})
        /\ w1 = IF w.bytes + k = w.total THEN NoWrite ELSE [w EXCEPT !.bytes = @ + k]
        /\ h1 = handed[s] \o SubSeq(Offer(w), 1, k)
    BY DEF Room
  <2> HIDE DEF w, k, w1, h1
  <2> QED BY <1>2, <2>1, ContinueSound, ZenonT(60)
<1> HIDE DEF h1, w1
<1>4. handed' \in [Streams -> Seq(Nat)] /\ wpending' \in [Streams -> Writes]
  BY <1>1, <1>3 DEF StreamInv, WriteInv
<1>5. ASSUME NEW t \in Streams
      PROVE  WriteSound(handed'[t], begun'[t], drained'[t], wpending'[t], opened'[t])
  <2>1. CASE t = s
    <3>1. handed'[t] = h1 /\ begun'[t] = begun[s] /\ wpending'[t] = w1 /\ drained'[t] = drained[s] /\ opened'[t] = opened[s]
      BY <1>0, <1>1, <2>1 DEF StreamInv, WriteInv
    <3> QED BY <1>2, <1>3, <3>1
  <2>2. CASE t # s
    <3>1. handed'[t] = handed[t] /\ begun'[t] = begun[t] /\ wpending'[t] = wpending[t]
          /\ drained'[t] = drained[t] /\ opened'[t] = opened[t]
      BY <1>0, <1>1, <2>2 DEF StreamInv, WriteInv
    <3> QED BY <3>1 DEF StreamInv, WriteInv
  <2> QED BY <2>1, <2>2
<1>6. WriteInv'
  BY <1>0, <1>4, <1>5 DEF StreamInv, WriteInv
<1>7. ReadInv'
  BY <1>0 DEF StreamInv, ReadInv
<1> QED BY <1>6, <1>7 DEF StreamInv

\* The broker sends or reads a byte.
LEMMA BrokerKeeps ==
  ASSUME StreamInv, NEW s \in Streams, BrokerByte(s) \/ BrokerDrains(s)
  PROVE  StreamInv'
<1>1. CASE BrokerByte(s)
  <2>1. WriteInv'
    BY <1>1 DEF StreamInv, WriteInv, BrokerByte
  <2>2. reached' = [reached EXCEPT ![s] = @ + 1] /\ reached[s] < Len(BrokerStream[s]) /\ UNCHANGED <<consumed, rqueue, parsed>>
    BY <1>1 DEF BrokerByte
  <2>3. reached' \in [Streams -> Nat]
    BY <2>2 DEF StreamInv, ReadInv
  <2>4. ASSUME NEW t \in Streams PROVE ReadSound(t, reached'[t], consumed'[t], rqueue'[t], parsed'[t])
    <3>1. CASE t = s
      <4>1. reached[s] \in Nat /\ consumed[s] \in Nat /\ ReadSound(s, reached[s], consumed[s], rqueue[s], parsed[s])
        BY DEF StreamInv, ReadInv
      <4>2. Len(BrokerStream[s]) \in Nat
        BY StreamEnds, LenProperties
      <4>3. reached'[s] = reached[s] + 1
        BY <2>2 DEF StreamInv, ReadInv
      <4>4. consumed[s] <= reached[s]
        BY <4>1 DEF ReadSound
      <4>5. consumed[s] <= reached[s] + 1 /\ reached[s] + 1 <= Len(BrokerStream[s])
        BY <4>1, <4>2, <4>4, <2>2
      <4>6. ReadSound(s, reached[s] + 1, consumed[s], rqueue[s], parsed[s])
        BY <4>1, <4>5, Zenon DEF ReadSound
      <4> QED BY <3>1, <2>2, <4>3, <4>6
    <3>2. CASE t # s
      <4>1. reached'[t] = reached[t]
        BY <3>2, <2>2 DEF StreamInv, ReadInv
      <4> QED BY <4>1, <2>2 DEF StreamInv, ReadInv
    <3> QED BY <3>1, <3>2
  <2>5. ReadInv'
    BY <2>2, <2>3, <2>4 DEF StreamInv, ReadInv
  <2> QED BY <2>1, <2>5 DEF StreamInv
<1>2. CASE BrokerDrains(s)
  <2>1. ReadInv'
    BY <1>2 DEF StreamInv, ReadInv, BrokerDrains
  <2>2. drained' = [drained EXCEPT ![s] = @ + 1] /\ drained[s] < Len(handed[s]) /\ UNCHANGED <<handed, begun, wpending, opened, appOut>>
    BY <1>2 DEF BrokerDrains
  <2>3. drained' \in [Streams -> Nat]
    BY <2>2 DEF StreamInv, WriteInv
  <2>4. ASSUME NEW t \in Streams PROVE WriteSound(handed'[t], begun'[t], drained'[t], wpending'[t], opened'[t])
    <3>1. CASE t = s
      <4>1. /\ handed[s] \in Seq(Nat) /\ drained[s] \in Nat
            /\ WriteSound(handed[s], begun[s], drained[s], wpending[s], opened[s])
        BY DEF StreamInv, WriteInv
      <4>2. Len(handed[s]) \in Nat /\ SendRoom \in Nat
        BY <4>1, StreamAssumption, LenProperties
      <4>3. drained'[s] = drained[s] + 1
        BY <2>2 DEF StreamInv, WriteInv
      <4>4. Len(handed[s]) - drained[s] <= SendRoom
        BY <4>1 DEF WriteSound
      <4>5. drained[s] + 1 <= Len(handed[s]) /\ Len(handed[s]) - (drained[s] + 1) <= SendRoom
        BY <4>1, <4>2, <4>4, <2>2
      <4>6. WriteSound(handed[s], begun[s], drained[s] + 1, wpending[s], opened[s])
        BY <4>1, <4>5, Zenon DEF WriteSound
      <4> QED BY <3>1, <2>2, <4>3, <4>6
    <3>2. CASE t # s
      <4>1. drained'[t] = drained[t]
        BY <3>2, <2>2 DEF StreamInv, WriteInv
      <4> QED BY <4>1, <2>2 DEF StreamInv, WriteInv
    <3> QED BY <3>1, <3>2
  <2>5. WriteInv'
    BY <2>2, <2>3, <2>4 DEF StreamInv, WriteInv
  <2> QED BY <2>1, <2>5 DEF StreamInv
<1> QED BY <1>1, <1>2

\* The acknowledgement of a PUBLISH is written, or the socket is closed.
LEMMA AcknowledgeKeeps ==
  ASSUME WriteInv, NEW s \in Streams, opened[s], Acknowledge(s), UNCHANGED <<drained, appOut>>
  PROVE  WriteInv'
<1> DEFINE X == <<<<5000, 2>>, <<5001, 5002>>>>
<1>0. appOut' \in [Streams -> Nat]
  BY DEF WriteInv
<1>1. CASE NoPendingWrites(s)
  <2>1. X \in Seq(Seq(Nat))
    <3>1. <<5000, 2>> \in Seq(Nat) /\ <<5001, 5002>> \in Seq(Nat)
      OBVIOUS
    <3> DEFINE x == <<5000, 2>>
               y == <<5001, 5002>>
    <3> HIDE DEF x, y
    <3>2. <<x, y>> \in Seq(Seq(Nat))
      BY <3>1 DEF x, y
    <3> QED BY <3>2 DEF x, y
  <2>2. PutDatas(s, X) /\ UNCHANGED <<drained, opened>>
    BY <1>1 DEF Acknowledge
  <2> HIDE DEF X
  <2> QED BY <1>0, <1>1, <2>1, <2>2, PutKeeps
<1>2. CASE ~NoPendingWrites(s)
  <2>1. /\ opened' = [opened EXCEPT ![s] = FALSE] /\ wpending' = [wpending EXCEPT ![s] = NoWrite]
        /\ UNCHANGED <<handed, begun>>
    BY <1>2 DEF Acknowledge
  <2>2. opened' \in [Streams -> BOOLEAN] /\ wpending' \in [Streams -> Writes]
    BY <2>1, NoWriteType DEF WriteInv
  <2>3. ASSUME NEW t \in Streams PROVE WriteSound(handed'[t], begun'[t], drained'[t], wpending'[t], opened'[t])
    <3>1. CASE t = s
      <4> DEFINE h == handed[s]
                 b == begun[s]
                 d == drained[s]
                 w == wpending[s]
      <4>1. h \in Seq(Nat) /\ b \in Seq(Nat) /\ d \in Nat /\ w \in Writes /\ WriteSound(h, b, d, w, TRUE)
        <5>1. opened[s] = TRUE
          BY DEF WriteInv
        <5> QED BY <5>1 DEF WriteInv
      <4> HIDE DEF h, b, d, w
      <4>2. IsPrefix(h, b)
        <5> DEFINE left == SubSeq(FlattenSeq(w.iovecs), w.bytes + 1, w.total)
        <5>1. left \in Seq(Nat)
          BY <4>1, LeftIsBytes, Zenon
        <5>2. b = h \o left
          BY <4>1 DEF WriteSound
        <5> HIDE DEF left
        <5> QED BY <4>1, <5>1, <5>2, PrefixOfConcat
      <4>3. d <= Len(h) /\ Len(h) - d <= SendRoom
        BY <4>1 DEF WriteSound
      <4>4. WriteSound(h, b, d, NoWrite, FALSE)
        BY <4>2, <4>3, NoWriteFlat DEF WriteSound
      <4>5. handed'[s] = h /\ begun'[s] = b /\ drained'[s] = d /\ wpending'[s] = NoWrite /\ opened'[s] = FALSE
        BY <2>1 DEF WriteInv, h, b, d
      <4> QED BY <3>1, <4>4, <4>5
    <3>2. CASE t # s
      <4>1. wpending'[t] = wpending[t] /\ opened'[t] = opened[t]
        BY <3>2, <2>1 DEF WriteInv
      <4> QED BY <4>1, <2>1 DEF WriteInv
    <3> QED BY <3>1, <3>2
  <2> QED BY <2>1, <2>2, <2>3 DEF WriteInv
<1> QED BY <1>1, <1>2

\* MQTTPacket_Factory is interrupted or returns a packet.
LEMMA ReadKeeps ==
  ASSUME StreamInv, NEW s \in Streams, ReadPacket(s)
  PROVE  StreamInv'
<1> DEFINE q == rqueue[s]
           r == reached[s]
           c == consumed[s]
           ps == parsed[s]
           P == Len(ps)
           N == Len(InPackets[s])
           h == Seen(s, r, c, q)
           ends == {i \in 2..Min({Len(h), MAX_NO_OF_REMAINING_LENGTH_BYTES + 1}) : h[i] < Radix}
           n == Min(ends)
           length == Decoded(SubSeq(h, 2, n))
           wanted == length - Len(q.data)
           got == Min({wanted, Len(h) - n})
           data == q.data \o SubSeq(h, n + 1, n + got)
           Header == /\ ends = {}
                     /\ rqueue' = [rqueue EXCEPT ![s] = [header |-> h, data |-> <<>>]]
                     /\ consumed' = [consumed EXCEPT ![s] = r]
                     /\ UNCHANGED <<parsed, wpending, handed, begun, opened>>
           Data == /\ ends # {} /\ got < wanted
                   /\ rqueue' = [rqueue EXCEPT ![s] = [header |-> SubSeq(h, 1, n), data |-> data]]
                   /\ consumed' = [consumed EXCEPT ![s] = r]
                   /\ UNCHANGED <<parsed, wpending, handed, begun, opened>>
           Packet == /\ ends # {} /\ got = wanted
                     /\ consumed' = [consumed EXCEPT ![s] = @ + (n - Len(q.header)) + got]
                     /\ parsed' = [parsed EXCEPT ![s] = Append(@, <<h[1]>> \o data)]
                     /\ rqueue' = [rqueue EXCEPT ![s] = NoQueue]
                     /\ IF length > 0 THEN Acknowledge(s) ELSE UNCHANGED <<wpending, handed, begun, opened>>
<1>1. (Header \/ Data \/ Packet) /\ opened[s] /\ UNCHANGED <<reached, drained, appOut>>
  BY Zenon DEF ReadPacket, OnSocket, Seen, QueuedRead
<1>2. /\ r \in Nat /\ c \in Nat /\ q \in Queues /\ ps \in Seq(Seq(Nat)) /\ ReadSound(s, r, c, q, ps)
  BY DEF StreamInv, ReadInv
<1> HIDE DEF q, r, c, ps, ends, length, h, Header, Data, Packet
<1>3. /\ c <= r /\ r <= Len(BrokerStream[s]) /\ P <= N
      /\ c = Base(s, P) + Len(q.header) + Len(q.data)
      /\ IF P = N THEN q = NoQueue ELSE QueueSound(s, q, P)
  BY <1>2 DEF ReadSound
<1>4. P \in Nat /\ N \in Nat /\ BrokerStream[s] \in Seq(Nat)
  BY <1>2, StreamEnds, LenProperties
\* The writing half.
<1>5. WriteInv'
  <2>1. CASE Packet /\ length > 0
    <3>1. Acknowledge(s)
      BY <2>1 DEF Packet
    <3> QED BY <1>1, <3>1, AcknowledgeKeeps DEF StreamInv
  <2>2. CASE ~(Packet /\ length > 0)
    <3>1. UNCHANGED <<wpending, handed, begun, opened>>
      BY <1>1, <2>2 DEF Header, Data, Packet
    <3> QED BY <1>1, <3>1 DEF StreamInv, WriteInv
  <2> QED BY <2>1, <2>2
\* The reading half, at s and elsewhere.
<1>6. ASSUME NEW c1 \in Nat, NEW q1 \in Queues, NEW ps1 \in Seq(Seq(Nat)),
             consumed' = [consumed EXCEPT ![s] = c1], rqueue' = [rqueue EXCEPT ![s] = q1],
             parsed' = [parsed EXCEPT ![s] = ps1], ReadSound(s, r, c1, q1, ps1)
      PROVE  ReadInv'
  <2>1. /\ reached' \in [Streams -> Nat] /\ consumed' \in [Streams -> Nat]
        /\ rqueue' \in [Streams -> Queues] /\ parsed' \in [Streams -> Seq(Seq(Nat))]
    BY <1>1, <1>6 DEF StreamInv, ReadInv
  <2>2. ASSUME NEW t \in Streams PROVE ReadSound(t, reached'[t], consumed'[t], rqueue'[t], parsed'[t])
    <3>1. CASE t = s
      <4>1. reached'[s] = r /\ consumed'[s] = c1 /\ rqueue'[s] = q1 /\ parsed'[s] = ps1
        BY <1>1, <1>6 DEF StreamInv, ReadInv, r
      <4> QED BY <3>1, <4>1, <1>6
    <3>2. CASE t # s
      <4>1. reached'[t] = reached[t] /\ consumed'[t] = consumed[t] /\ rqueue'[t] = rqueue[t] /\ parsed'[t] = parsed[t]
        BY <1>1, <1>6, <3>2 DEF StreamInv, ReadInv
      <4> QED BY <4>1 DEF StreamInv, ReadInv
    <3> QED BY <3>1, <3>2
  <2> QED BY <2>1, <2>2 DEF ReadInv
<1>7. UNCHANGED parsed => parsed' = [parsed EXCEPT ![s] = ps]
  BY DEF StreamInv, ReadInv, ps
\* All packets have been read: nothing is on the socket.
<1>8. CASE P = N
  <2>1. q = NoQueue /\ q.header = <<>> /\ q.data = <<>> /\ Len(<<>>) = 0
    BY <1>3, <1>8 DEF NoQueue
  <2>2. c = r
    <3>1. Base(s, P) = Len(BrokerStream[s])
      BY <1>8, StreamEnds
    <3>2. Len(BrokerStream[s]) \in Nat
      BY <1>4, LenProperties
    <3>3. c = Len(BrokerStream[s]) + 0 + 0
      BY <1>3, <2>1, <3>1, Zenon
    <3> QED BY <3>2, <3>3, <1>2, <1>3, SMT
  <2>3. h = <<>>
    <3>1. c + 1 \in Int /\ r \in Int /\ r < c + 1
      BY <2>2, <1>2, SMT
    <3>2. SubSeq(BrokerStream[s], c + 1, r) = <<>>
      BY <3>1, SubSeqEmpty
    <3>3. <<>> \o <<>> = <<>>
      OBVIOUS
    <3> QED BY <2>1, <3>2, <3>3, Zenon DEF h, Seen
  <2>4. ends = {}
    <3>1. MAX_NO_OF_REMAINING_LENGTH_BYTES \in Nat
      BY StreamAssumption
    <3>2. 0 \in Int /\ MAX_NO_OF_REMAINING_LENGTH_BYTES + 1 \in Int /\ 0 <= MAX_NO_OF_REMAINING_LENGTH_BYTES + 1
      BY <3>1, SMT
    <3>3. Min({0, MAX_NO_OF_REMAINING_LENGTH_BYTES + 1}) = 0
      BY <3>2, MinOfTwo, Zenon
    <3>4. 2..0 = {}
      OBVIOUS
    <3> QED BY <2>1, <2>3, <3>3, <3>4 DEF ends
  <2>5. Header
    BY <1>1, <2>4 DEF Data, Packet
  <2>6. [header |-> h, data |-> <<>>] = q
    BY <2>1, <2>3 DEF NoQueue
  <2>7. consumed' = [consumed EXCEPT ![s] = r] /\ rqueue' = [rqueue EXCEPT ![s] = q] /\ UNCHANGED parsed
    BY <2>5, <2>6 DEF Header
  <2>8. ReadSound(s, r, r, q, ps)
    BY <1>2, <2>2
  <2>9. ReadInv'
    BY <1>2, <1>6, <1>7, <2>7, <2>8
  <2> QED BY <1>5, <2>9 DEF StreamInv
<1>9. CASE P # N
  <2> DEFINE L == Digits(s, P)
  <2>1. P \in 0..(N - 1) /\ QueueSound(s, q, P)
    <3>1. P \in 0..(N - 1)
      BY <1>3, <1>4, <1>9, SMT
    <3> QED BY <3>1, <1>3, <1>9
  <2>2. h \in Seq(Nat) /\ \A i \in 1..Len(h) : i <= 1 + L => h[i] = BrokerStream[s][Base(s, P) + i]
    BY <1>2, <1>3, <2>1, SeenBytes DEF h
  <2>3. /\ ends = {} <=> Len(h) < 1 + L
        /\ ends # {} => n = 1 + L /\ length = Size(s, P)
    BY <2>1, <2>2, HeaderEnds DEF ends, length
  <2>4. L \in Nat /\ Len(h) \in Nat
    BY <2>1, <2>2, StreamLayout, LenProperties
  <2>5. CASE Header
    <3>1. Len(h) < 1 + L
      BY <2>3, <2>5 DEF Header
    <3>2. h \in Seq(Nat) /\ ReadSound(s, r, r, [header |-> h, data |-> <<>>], ps)
      BY <1>2, <1>9, <3>1, CutInHeader DEF h
    <3>3. [header |-> h, data |-> <<>>] \in Queues
      BY <3>2 DEF Queues
    <3>4. /\ consumed' = [consumed EXCEPT ![s] = r] /\ UNCHANGED parsed
          /\ rqueue' = [rqueue EXCEPT ![s] = [header |-> h, data |-> <<>>]]
      BY <2>5 DEF Header
    <3>5. ReadInv'
      BY <1>2, <1>6, <1>7, <3>2, <3>3, <3>4, Zenon
    <3> QED BY <1>5, <3>5 DEF StreamInv
  <2>6. ASSUME ends # {}
        PROVE  /\ n = 1 + L /\ length = Size(s, P) /\ Len(h) >= 1 + L
               /\ got = Got(s, P, q, h) /\ wanted = Size(s, P) - Len(q.data)
               /\ data = DataThen(s, P, q, h, Got(s, P, q, h))
    <3>1. n = 1 + L /\ length = Size(s, P) /\ ~(Len(h) < 1 + L)
      BY <2>3, <2>6, Zenon
    <3>2. Len(h) >= 1 + L
      BY <2>4, <3>1, SMT
    <3>3. got = Got(s, P, q, h)
      BY <3>1, Zenon DEF Got
    <3> QED BY <3>1, <3>2, <3>3, Zenon DEF DataThen
  <2> HIDE DEF n, wanted, got, data
  <2>7. CASE Data
    <3>1. ends # {} /\ got < wanted
      BY <2>7 DEF Data
    <3>2. Got(s, P, q, h) < Size(s, P) - Len(q.data) /\ Len(h) >= 1 + L
      BY <2>6, <3>1, Zenon
    <3> DEFINE q1 == [header |-> SubSeq(h, 1, 1 + L), data |-> DataThen(s, P, q, h, Got(s, P, q, h))]
    <3>3. q1 \in Queues /\ ReadSound(s, r, r, q1, ps)
      BY <1>2, <1>9, <3>2, CutInData, Zenon DEF h
    <3>4. /\ consumed' = [consumed EXCEPT ![s] = r] /\ UNCHANGED parsed /\ rqueue' = [rqueue EXCEPT ![s] = q1]
      BY <2>6, <2>7, <3>1, Zenon DEF Data
    <3> HIDE DEF q1
    <3>5. ReadInv'
      BY <1>2, <1>6, <1>7, <3>3, <3>4, Zenon
    <3> QED BY <1>5, <3>5 DEF StreamInv
  <2>8. CASE Packet
    <3>1. ends # {} /\ got = wanted
      BY <2>8 DEF Packet
    <3>2. Got(s, P, q, h) = Size(s, P) - Len(q.data) /\ Len(h) >= 1 + L
      BY <2>6, <3>1, Zenon
    <3> DEFINE c1 == c + ((1 + L) - Len(q.header)) + Got(s, P, q, h)
               pk == <<h[1]>> \o DataThen(s, P, q, h, Got(s, P, q, h))
    <3>3. c1 \in Nat /\ pk \in Seq(Nat) /\ ReadSound(s, r, c1, NoQueue, Append(ps, pk))
      BY <1>2, <1>9, <3>2, PacketIsRead, Zenon DEF h
    <3>4. /\ consumed' = [consumed EXCEPT ![s] = c1] /\ parsed' = [parsed EXCEPT ![s] = Append(ps, pk)]
          /\ rqueue' = [rqueue EXCEPT ![s] = NoQueue]
      BY <2>6, <2>8, <3>1 DEF Packet, c, ps
    <3> HIDE DEF c1, pk
    <3>5. Append(ps, pk) \in Seq(Seq(Nat)) /\ NoQueue \in Queues
      BY <1>2, <3>3, AppendProperties DEF NoQueue, Queues
    <3>6. ReadInv'
      BY <1>6, <3>3, <3>4, <3>5, Zenon
    <3> QED BY <1>5, <3>6 DEF StreamInv
  <2> QED BY <1>1, <2>5, <2>7, <2>8
<1> QED BY <1>8, <1>9

\* The sockets at first.
LEMMA StreamInitKept == StreamInit => StreamInv
<1> SUFFICES ASSUME StreamInit PROVE StreamInv
  OBVIOUS
<1>1. <<>> \in Seq(Nat) /\ <<>> \in Seq(Seq(Nat)) /\ NoQueue \in Queues /\ Len(<<>>) = 0
  BY DEF NoQueue, Queues
<1>2. WriteInv
  <2>1. /\ handed \in [Streams -> Seq(Nat)] /\ begun \in [Streams -> Seq(Nat)] /\ drained \in [Streams -> Nat]
        /\ wpending \in [Streams -> Writes] /\ opened \in [Streams -> BOOLEAN] /\ appOut \in [Streams -> Nat]
    BY <1>1, NoWriteType DEF StreamInit
  <2>2. WriteSound(<<>>, <<>>, 0, NoWrite, TRUE)
    <3>1. SubSeq(<<>>, 0 + 1, 0) = <<>> /\ <<>> \o <<>> = <<>>
      OBVIOUS
    <3>2. 0 <= 0 /\ 0 - 0 <= SendRoom
      BY StreamAssumption
    <3> QED BY <1>1, <3>1, <3>2, NoWriteFlat DEF WriteSound
  <2>3. ASSUME NEW s \in Streams PROVE WriteSound(handed[s], begun[s], drained[s], wpending[s], opened[s])
    <3>1. handed[s] = <<>> /\ begun[s] = <<>> /\ drained[s] = 0 /\ wpending[s] = NoWrite /\ opened[s] = TRUE
      BY DEF StreamInit
    <3> QED BY <2>2, <3>1
  <2> QED BY <2>1, <2>3 DEF WriteInv
<1>3. ReadInv
  <2>1. /\ reached \in [Streams -> Nat] /\ consumed \in [Streams -> Nat]
        /\ rqueue \in [Streams -> Queues] /\ parsed \in [Streams -> Seq(Seq(Nat))]
    BY <1>1 DEF StreamInit
  <2>2. ASSUME NEW s \in Streams PROVE ReadSound(s, reached[s], consumed[s], rqueue[s], parsed[s])
    <3>1. reached[s] = 0 /\ consumed[s] = 0 /\ rqueue[s] = NoQueue /\ parsed[s] = <<>>
      BY DEF StreamInit
    <3>2. Base(s, 0) = 0 /\ Len(BrokerStream[s]) \in Nat /\ Len(InPackets[s]) \in Nat
      BY StreamEnds, LenProperties
    <3>3. NoQueue.header = <<>> /\ NoQueue.data = <<>>
      BY DEF NoQueue
    <3>4. 0 <= 0 /\ 0 <= Len(BrokerStream[s]) /\ 0 <= Len(InPackets[s]) /\ 0 = 0 + 0 + 0
      BY <3>2
    <3>5. <<>> = [p \in 1..0 |-> Whole(s, p)]
      OBVIOUS
    <3>6. 0 # Len(InPackets[s]) => QueueSound(s, NoQueue, 0)
      <4>1. SUFFICES ASSUME 0 # Len(InPackets[s]) PROVE QueueSound(s, NoQueue, 0)
        OBVIOUS
      <4>2. 0 \in 0..(Len(InPackets[s]) - 1)
        BY <4>1, <3>2
      <4>3. Size(s, 0) \in 0..(Stride - 1) /\ Digits(s, 0) \in Nat
        BY <4>2, StreamLayout
      <4>4. Stride \in Nat
        BY StreamAssumption
      <4>5. 0 <= 1 + Digits(s, 0) /\ 0 <= Size(s, 0)
        BY <4>3, <4>4
      <4>6. \A i \in 1..0 : FALSE
        OBVIOUS
      <4> QED BY <4>5, <4>6, <3>3, <1>1, Zenon DEF QueueSound
    <3> QED BY <1>1, <3>1, <3>2, <3>3, <3>4, <3>5, <3>6, Zenon DEF ReadSound
  <2> QED BY <2>1, <2>2 DEF ReadInv
<1> QED BY <1>2, <1>3 DEF StreamInv

\* Every step keeps the invariant.
LEMMA StreamStepKept == StreamInv /\ [StreamNext]_streamVars => StreamInv'
<1> SUFFICES ASSUME StreamInv, [StreamNext]_streamVars PROVE StreamInv'
  OBVIOUS
<1>1. ASSUME NEW s \in Streams, AppWrites(s) PROVE StreamInv'
  BY <1>1, AppWritesKeeps
<1>2. ASSUME NEW s \in Streams, ContinueWrite(s) PROVE StreamInv'
  BY <1>2, ContinueKeeps
<1>3. ASSUME NEW s \in Streams, SelectReady(s) PROVE StreamInv'
  BY <1>3 DEF SelectReady, StreamInv, WriteInv, ReadInv
<1>4. ASSUME NEW s \in Streams, ReadPacket(s) PROVE StreamInv'
  BY <1>4, ReadKeeps
<1>5. ASSUME NEW s \in Streams, BrokerByte(s) \/ BrokerDrains(s) PROVE StreamInv'
  BY <1>5, BrokerKeeps
<1>6. CASE UNCHANGED streamVars
  BY <1>6 DEF streamVars, StreamInv, WriteInv, ReadInv
<1> QED
  BY <1>1, <1>2, <1>3, <1>4, <1>5, <1>6 DEF StreamNext, StreamReads, BrokerSide

\* The invariant says what is handed on and what has been read.
LEMMA StreamInvKeeps == StreamInv => PacketsKept
<1> SUFFICES ASSUME StreamInv PROVE PacketsKept
  OBVIOUS
<1>1. ASSUME NEW s \in Streams
      PROVE  /\ IsPrefix(handed[s], begun[s])
             /\ opened[s] => Len(begun[s]) - Len(handed[s]) = wpending[s].total - wpending[s].bytes
  <2> DEFINE h == handed[s]
             b == begun[s]
             d == drained[s]
             w == wpending[s]
  <2>1. /\ h \in Seq(Nat) /\ b \in Seq(Nat) /\ d \in Nat /\ w \in Writes /\ opened[s] \in BOOLEAN
        /\ WriteSound(h, b, d, w, opened[s])
    BY DEF StreamInv, WriteInv
  <2> HIDE DEF h, b, d, w
  <2>2. CASE opened[s]
    <3>1. WriteSound(h, b, d, w, TRUE)
      <4>1. opened[s] = TRUE
        BY <2>1, <2>2
      <4> QED BY <2>1, <4>1
    <3> DEFINE left == SubSeq(FlattenSeq(w.iovecs), w.bytes + 1, w.total)
    <3>2. left \in Seq(Nat) /\ Len(left) = w.total - w.bytes
      BY <2>1, <3>1, LeftIsBytes, Zenon
    <3>3. b = h \o left
      BY <3>1 DEF WriteSound
    <3> HIDE DEF left
    <3>4. IsPrefix(h, b)
      BY <2>1, <3>2, <3>3, PrefixOfConcat
    <3>5. Len(b) = Len(h) + Len(left) /\ Len(h) \in Nat /\ Len(left) \in Nat
      BY <2>1, <3>2, <3>3, Bytes
    <3>6. Len(b) - Len(h) = Len(left)
      BY <3>5
    <3> QED BY <3>2, <3>4, <3>6 DEF h, b, w
  <2>3. CASE ~opened[s]
    BY <2>1, <2>3 DEF WriteSound, h, b
  <2> QED BY <2>2, <2>3
<1>2. ASSUME NEW s \in Streams
      PROVE  parsed[s] = [p \in 1..Len(parsed[s]) |-> <<Stride * p>> \o Body(p, InPackets[s][p])]
  BY DEF StreamInv, ReadInv, ReadSound, Whole
<1> QED BY <1>1, <1>2 DEF PacketsKept, PacketsNotMixed, PacketsWhole

\* Whatever cuts reads and writes short, on every socket the bytes handed to
\* writev are the packets given to Socket_putdatas in their order, and the packets
\* MQTTPacket_Factory returns are those the broker sent.
THEOREM PacketsKeptAlways == StreamSpec => []PacketsKept
<1>1. StreamInit => StreamInv
  BY StreamInitKept
<1>2. StreamInv /\ [StreamNext]_streamVars => StreamInv'
  BY StreamStepKept
<1>3. StreamInv => PacketsKept
  BY StreamInvKeeps
<1> QED BY <1>1, <1>2, <1>3, PTL DEF StreamSpec
================================================================================
