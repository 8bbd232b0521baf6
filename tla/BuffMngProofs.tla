----------------------------- MODULE BuffMngProofs -----------------------------
(***************************************************************************)
(* For any number of buffers, blocks of any number and size, and appends   *)
(* of any lengths: the pool keeps every block, every chain ends and fits   *)
(* its buffer, and the buffers read along their chains are FIFOs of bytes. *)
(*                                                                         *)
(* A chain is what a recursive function finds along the links.  All that   *)
(* is shown of it rests on one induction: a sequence that the links follow *)
(* is the chain (ChainIs).  From there on chains are sequences.            *)
(***************************************************************************)
EXTENDS BuffMng, FiniteSetTheorems, SequenceTheorems, WellFoundedInduction, TLAPS

LEMMA LeastOf ==
  ASSUME NEW T, T \subseteq Nat, T # {}
  PROVE  \E x \in T : \A y \in T : x <= y
<1> DEFINE R == StrictSubsetOrdering(Nat)
           S == FiniteSubsetsOf(Nat)
           U == {0 .. x : x \in T}
<1>1. IsWellFoundedOn(R, S)
  BY FS_StrictSubsetOrderingWellFounded
<1>2. U \subseteq S
  <2>1. \A x \in T : 0 .. x \subseteq Nat /\ x \in Int
    OBVIOUS
  <2>2. \A x \in T : IsFiniteSet(0 .. x)
    BY <2>1, FS_Interval
  <2> QED BY <2>1, <2>2 DEF FiniteSubsetsOf
<1>3. U # {}
  OBVIOUS
<1>4. \E x \in U : \A y \in U : ~ (<<y, x>> \in R)
  <2> HIDE DEF R, S, U
  <2> QED BY <1>1, <1>2, <1>3, WFMin
<1>5. PICK x \in T : \A y \in T : ~ (<<0 .. y, 0 .. x>> \in R)
  BY <1>4
<1>6. \A y \in T : x <= y
  <2> SUFFICES ASSUME NEW y \in T, y < x PROVE FALSE
    OBVIOUS
  <2>1. 0 .. y \subseteq 0 .. x /\ x \in 0 .. x /\ x \notin 0 .. y
    OBVIOUS
  <2>2. 0 .. y \in SUBSET Nat /\ 0 .. x \in SUBSET Nat
    OBVIOUS
  <2>3. <<0 .. y, 0 .. x>> \in R
    BY <2>1, <2>2 DEF StrictSubsetOrdering
  <2> QED BY <2>3, <1>5
<1> QED BY <1>6

(* Induction, as a statement about sets.                                   *)
LEMMA Induction ==
  ASSUME NEW S, 0 \in S, \A n \in S \cap Nat : n + 1 \in S
  PROVE  Nat \subseteq S
<1> SUFFICES ASSUME Nat \ S # {} PROVE FALSE
  OBVIOUS
<1>1. PICK x \in Nat \ S : \A y \in Nat \ S : x <= y
  BY LeastOf
<1>2. x # 0 /\ x - 1 \in Nat
  OBVIOUS
<1>3. x - 1 \in S
  BY <1>1, <1>2
<1>4. (x - 1) + 1 \in S
  BY <1>2, <1>3
<1> QED BY <1>4

-----------------------------------------------------------------------------
(* Chains as sequences.                                                    *)
At(s, k) == IF k \in 1 .. Len(s) THEN s[k] ELSE Nil

(* Blocks one after the other, none twice.                                 *)
Row == {s \in Seq(Blocks) : IsInjective(s)}

(* The links f lead from block i through s, and end there.                 *)
Follows(f, s, i) ==
  /\ s \in Row
  /\ i = At(s, 1)
  /\ \A k \in 1 .. Len(s) : f[s[k]] = At(s, k + 1)

Links == [Blocks -> Blocks \cup {Nil}]

LEMMA BlocksFinite ==
  /\ BlockNum \in Nat \ {0} /\ BLOCKSIZE \in Nat \ {0} /\ Values \in Nat \ {0}
  /\ IsFiniteSet(Blocks) /\ Cardinality(Blocks) = BlockNum
  /\ Nil \notin Blocks /\ Blocks \subseteq Nat
<1>1. BlockNum \in Nat \ {0} /\ BLOCKSIZE \in Nat \ {0} /\ Values \in Nat \ {0}
  BY BuffMngAssumption
<1>2. IsFiniteSet(0 .. BlockNum - 1) /\ Cardinality(0 .. BlockNum - 1) = BlockNum
  BY <1>1, FS_Interval
<1> QED BY <1>1, <1>2 DEF Blocks, Nil

LEMMA InjectiveLen ==
  ASSUME NEW s \in Row
  PROVE  /\ Len(s) <= BlockNum
         /\ Len(s) = Cardinality(ToSet(s))
         /\ IsFiniteSet(ToSet(s))
<1>0. s \in Seq(Blocks) /\ IsInjective(s)
  BY DEF Row
<1>1. IsFiniteSet(1 .. Len(s)) /\ Cardinality(1 .. Len(s)) = Len(s)
  <2>1. 1 \in Int /\ Len(s) \in Int /\ Len(s) \in Nat
    BY <1>0
  <2> QED BY SMTT(30), <2>1, FS_Interval
<1>2. ToSet(s) \subseteq Blocks
  BY <1>0 DEF ToSet
<1>3. IsFiniteSet(ToSet(s)) /\ Cardinality(ToSet(s)) <= BlockNum
  BY <1>2, BlocksFinite, FS_Subset
<1>4. s \in Bijection(1 .. Len(s), ToSet(s))
  BY <1>0 DEF Bijection, Injection, Surjection, IsInjective, ToSet
<1>5. Cardinality(1 .. Len(s)) = Cardinality(ToSet(s))
  BY <1>1, <1>3, <1>4, FS_Bijection DEF ExistsBijection
<1> QED BY <1>1, <1>3, <1>5

LEMMA ChainIs ==
  ASSUME NEW f, NEW s, NEW i, Follows(f, s, i)
  PROVE  ChainIn(f, i) = s
<1> DEFINE g == [k \in 0 .. BlockNum |-> At(s, k + 1)]
           D(h) == h = [k \in 0 .. BlockNum |->
                          IF k = 0 THEN i
                          ELSE IF h[k - 1] = Nil THEN Nil ELSE f[h[k - 1]]]
           at == Walk(f, i)
           n == Len(s)
<1>1. n \in Nat /\ n <= BlockNum /\ \A k \in 1 .. n : s[k] \in Blocks /\ s[k] # Nil
  BY BlocksFinite, InjectiveLen DEF Follows, Row
<1>2. D(g)
  <2>1. ASSUME NEW k \in 0 .. BlockNum
        PROVE  g[k] = IF k = 0 THEN i ELSE IF g[k - 1] = Nil THEN Nil ELSE f[g[k - 1]]
    <3>1. CASE k = 0
      BY <3>1 DEF Follows
    <3>2. CASE k # 0
      <4>1. k - 1 \in 0 .. BlockNum /\ g[k - 1] = At(s, k) /\ g[k] = At(s, k + 1)
        BY <3>2, BlocksFinite
      <4> QED BY <1>1, <3>2, <4>1 DEF Follows, At
    <3> QED BY <3>1, <3>2
  <2> QED BY <2>1
<1>3. D(at)
  <2>1. at = CHOOSE h : D(h)
    BY DEF Walk
  <2> HIDE DEF D
  <2> QED BY <1>2, <2>1
<1>4. \A k \in 0 .. BlockNum : at[k] = At(s, k + 1)
  <2> DEFINE S == {k \in Nat : k \in 0 .. BlockNum => at[k] = g[k]}
  <2>1. 0 \in S
    BY <1>2, <1>3, BlocksFinite
  <2>2. ASSUME NEW k \in S, k + 1 \in 0 .. BlockNum PROVE at[k + 1] = g[k + 1]
    <3>1. k \in 0 .. BlockNum /\ at[k] = g[k] /\ (k + 1) - 1 = k /\ k + 1 # 0
      BY <2>2, BlocksFinite
    <3>2. at[k + 1] = IF at[k] = Nil THEN Nil ELSE f[at[k]]
      BY <1>3, <2>2, <3>1
    <3>3. g[k + 1] = IF g[k] = Nil THEN Nil ELSE f[g[k]]
      BY <1>2, <2>2, <3>1
    <3> QED BY <3>1, <3>2, <3>3
  <2>3. \A k \in S \cap Nat : k + 1 \in S
    BY <2>2
  <2>4. Nat \subseteq S
    <3> HIDE DEF S
    <3> QED BY <2>1, <2>3, Induction
  <2>5. ASSUME NEW k \in 0 .. BlockNum PROVE at[k] = g[k] /\ g[k] = At(s, k + 1)
    <3>1. k \in Nat
      BY BlocksFinite
    <3>2. k \in S
      BY <2>4, <3>1
    <3> QED BY <3>2
  <2> QED BY <2>5
<1>5. {k \in 0 .. BlockNum : at[k] # Nil} = 0 .. n - 1
  BY SMTT(30), <1>1, <1>4, BlocksFinite DEF At
<1>6. Cardinality(0 .. n - 1) = n
  <2>1. 0 \in Int /\ n - 1 \in Int /\ n \in Nat
    BY <1>1
  <2> HIDE DEF n
  <2> QED BY <2>1, FS_Interval
<1>7. ChainIn(f, i) = [k \in 1 .. n |-> at[k - 1]]
  BY <1>5, <1>6 DEF ChainIn
<1>8. \A k \in 1 .. n : at[k - 1] = s[k]
  BY <1>1, <1>4, BlocksFinite DEF At
<1>9. s = [k \in 1 .. n |-> s[k]]
  BY DEF Follows, Row
<1> QED BY <1>7, <1>8, <1>9

LEMMA RowFacts ==
  ASSUME NEW s \in Row
  PROVE  /\ s \in Seq(Blocks) /\ Len(s) \in Nat /\ DOMAIN s = 1 .. Len(s)
         /\ \A k \in 1 .. Len(s) : s[k] \in Blocks /\ s[k] # Nil /\ s[k] \in ToSet(s)
         /\ \A j, k \in 1 .. Len(s) : s[j] = s[k] => j = k
         /\ \A x \in ToSet(s) : \E k \in 1 .. Len(s) : s[k] = x
         /\ ToSet(s) \subseteq Blocks
         /\ s = <<>> <=> Len(s) = 0
<1>1. s \in Seq(Blocks) /\ IsInjective(s)
  BY DEF Row
<1>2. Len(s) \in Nat /\ DOMAIN s = 1 .. Len(s) /\ \A k \in 1 .. Len(s) : s[k] \in Blocks
  BY <1>1
<1>3. s = <<>> <=> Len(s) = 0
  BY <1>1, EmptySeq
<1> QED BY <1>1, <1>2, <1>3, BlocksFinite DEF IsInjective, ToSet

LEMMA IsRow ==
  ASSUME NEW s \in Seq(Blocks), \A j, k \in 1 .. Len(s) : s[j] = s[k] => j = k
  PROVE  s \in Row
BY DEF Row, IsInjective

LEMMA JoinedRow ==
  ASSUME NEW s \in Row, NEW t \in Row, ToSet(s) \cap ToSet(t) = {}
  PROVE  /\ s \o t \in Row /\ Len(s \o t) = Len(s) + Len(t)
         /\ ToSet(s \o t) = ToSet(s) \cup ToSet(t)
         /\ \A k \in 1 .. Len(s) : (s \o t)[k] = s[k]
         /\ \A k \in 1 .. Len(t) : (s \o t)[Len(s) + k] = t[k]
<1> DEFINE r == s \o t
<1>0. Len(s) \in Nat /\ Len(t) \in Nat
  BY RowFacts
<1>1. /\ r \in Seq(Blocks) /\ Len(r) = Len(s) + Len(t)
      /\ \A k \in 1 .. Len(r) : r[k] = IF k <= Len(s) THEN s[k] ELSE t[k - Len(s)]
  BY RowFacts, ConcatProperties
<1> HIDE DEF r
<1>2. /\ \A k \in 1 .. Len(s) : k \in 1 .. Len(r) /\ r[k] = s[k]
      /\ \A k \in 1 .. Len(t) : Len(s) + k \in 1 .. Len(r) /\ r[Len(s) + k] = t[k]
  BY <1>0, <1>1
<1>3. ASSUME NEW k \in 1 .. Len(r)
      PROVE  \/ (k \in 1 .. Len(s) /\ r[k] = s[k])
             \/ (k - Len(s) \in 1 .. Len(t) /\ r[k] = t[k - Len(s)])
  <2>1. r[k] = IF k <= Len(s) THEN s[k] ELSE t[k - Len(s)]
    BY <1>1
  <2>2. k \in 1 .. Len(s) + Len(t)
    BY <1>1
  <2> QED BY <1>0, <2>1, <2>2
<1>a. /\ \A j, k \in 1 .. Len(s) : s[j] = s[k] => j = k
      /\ \A j, k \in 1 .. Len(t) : t[j] = t[k] => j = k
  BY RowFacts
<1>4. ASSUME NEW j \in 1 .. Len(r), NEW k \in 1 .. Len(r), r[j] = r[k] PROVE j = k
  <2>1. CASE j \in 1 .. Len(s) /\ k \in 1 .. Len(s) /\ r[j] = s[j] /\ r[k] = s[k]
    BY <1>4, <2>1, <1>a
  <2>2. CASE /\ j - Len(s) \in 1 .. Len(t) /\ k - Len(s) \in 1 .. Len(t)
             /\ r[j] = t[j - Len(s)] /\ r[k] = t[k - Len(s)]
    <3>1. j - Len(s) = k - Len(s)
      BY <1>4, <2>2, <1>a
    <3> QED BY <1>0, <1>1, <3>1
  <2>3. ASSUME NEW a \in 1 .. Len(s), NEW b \in 1 .. Len(t), s[a] = t[b] PROVE FALSE
    BY <2>3, RowFacts
  <2> QED BY <1>3, <1>4, <2>1, <2>2, <2>3
<1>5. ToSet(r) = ToSet(s) \cup ToSet(t)
  <2>1. r \in Row
    BY <1>1, <1>4, IsRow
  <2>2. ASSUME NEW x \in ToSet(r) PROVE x \in ToSet(s) \cup ToSet(t)
    <3>1. PICK k \in 1 .. Len(r) : r[k] = x
      BY <2>1, RowFacts
    <3> QED BY <1>3, <3>1, RowFacts
  <2>3. ASSUME NEW x \in ToSet(s) \cup ToSet(t) PROVE x \in ToSet(r)
    <3>1. \/ \E k \in 1 .. Len(s) : s[k] = x
          \/ \E k \in 1 .. Len(t) : t[k] = x
      BY RowFacts
    <3>2. \E k \in 1 .. Len(r) : r[k] = x
      BY <1>2, <3>1
    <3> QED BY <2>1, <3>2, RowFacts
  <2> QED BY <2>2, <2>3
<1>6. r \in Row
  BY <1>1, <1>4, IsRow
<1> QED BY <1>1, <1>2, <1>5, <1>6 DEF r

LEMMA ReversedRow ==
  ASSUME NEW s \in Row
  PROVE  /\ Reverse(s) \in Row /\ Len(Reverse(s)) = Len(s)
         /\ ToSet(Reverse(s)) = ToSet(s)
         /\ \A k \in 1 .. Len(s) : Reverse(s)[k] = s[Len(s) - k + 1]
<1> DEFINE r == Reverse(s)
<1>0. Len(s) \in Nat
  BY RowFacts
<1>1. \A k \in 1 .. Len(s) : Len(s) - k + 1 \in 1 .. Len(s) /\ (Len(s) - k) + 1 = Len(s) - k + 1
  BY <1>0
<1>2. /\ r \in Seq(Blocks) /\ Len(r) = Len(s)
      /\ \A k \in 1 .. Len(s) : r[k] = s[Len(s) - k + 1]
  BY <1>0, <1>1, RowFacts DEF Reverse
<1> HIDE DEF r
<1>3. r \in Row
  <2>1. ASSUME NEW j \in 1 .. Len(r), NEW k \in 1 .. Len(r), r[j] = r[k] PROVE j = k
    <3>0. \A a, b \in 1 .. Len(s) : s[a] = s[b] => a = b
      BY RowFacts
    <3>1. Len(s) - j + 1 = Len(s) - k + 1
      BY <1>1, <1>2, <2>1, <3>0
    <3> QED BY <1>0, <1>2, <3>1
  <2> QED BY <1>2, <2>1, IsRow
<1>4. ToSet(r) = ToSet(s)
  <2>1. ASSUME NEW x \in ToSet(r) PROVE x \in ToSet(s)
    <3>1. PICK k \in 1 .. Len(r) : r[k] = x
      BY <1>3, RowFacts
    <3>2. Len(s) - k + 1 \in 1 .. Len(s) /\ s[Len(s) - k + 1] = x
      BY <1>1, <1>2, <3>1
    <3> QED BY <3>2, RowFacts
  <2>2. ASSUME NEW x \in ToSet(s) PROVE x \in ToSet(r)
    <3>1. PICK k \in 1 .. Len(s) : s[k] = x
      BY RowFacts
    <3>2. Len(s) - (Len(s) - k + 1) + 1 = k
      BY <1>0
    <3>3. Len(s) - k + 1 \in 1 .. Len(r) /\ r[Len(s) - k + 1] = x
      BY <1>1, <1>2, <3>1, <3>2
    <3> QED BY <1>3, <3>3, RowFacts
  <2> QED BY <2>1, <2>2
<1> QED BY <1>2, <1>3, <1>4 DEF r

LEMMA CutRow ==
  ASSUME NEW s \in Row, NEW n \in 0 .. Len(s)
  PROVE  /\ First(s, n) \in Row /\ Len(First(s, n)) = n
         /\ \A k \in 1 .. n : First(s, n)[k] = s[k]
         /\ Beyond(s, n) \in Row /\ Len(Beyond(s, n)) = Len(s) - n
         /\ \A k \in 1 .. Len(s) - n : Beyond(s, n)[k] = s[n + k]
         /\ ToSet(First(s, n)) \cap ToSet(Beyond(s, n)) = {}
         /\ ToSet(First(s, n)) \cup ToSet(Beyond(s, n)) = ToSet(s)
<1> DEFINE f == First(s, n)
           r == Beyond(s, n)
<1>0. Len(s) \in Nat /\ n \in Nat /\ n <= Len(s)
  BY RowFacts
<1>1. /\ f \in Seq(Blocks) /\ Len(f) = n
      /\ \A k \in 1 .. n : f[k] = s[k] /\ k \in 1 .. Len(s)
  <2>1. \A i \in 1 .. n : s[i] \in Blocks
    BY <1>0, RowFacts
  <2>2. 1 \in Int /\ n \in Int
    BY <1>0
  <2> QED BY <1>0, <2>1, <2>2, SubSeqProperties DEF First
<1>2. /\ r \in Seq(Blocks) /\ Len(r) = Len(s) - n
      /\ \A k \in 1 .. Len(s) - n : r[k] = s[n + k] /\ n + k \in 1 .. Len(s)
  <2>1. \A i \in n + 1 .. Len(s) : s[i] \in Blocks
    BY <1>0, RowFacts
  <2>2. n + 1 \in Int /\ Len(s) \in Int
    BY <1>0
  <2> DEFINE t == SubSeq(s, n + 1, Len(s))
  <2>3. /\ t \in Seq(Blocks)
        /\ Len(t) = IF n + 1 <= Len(s) THEN Len(s) - (n + 1) + 1 ELSE 0
        /\ \A i \in 1 .. Len(s) - (n + 1) + 1 : t[i] = s[n + 1 + i - 1]
    BY <2>1, <2>2, SubSeqProperties
  <2> HIDE DEF t
  <2>4. \A k \in 1 .. Len(s) - n : /\ k \in 1 .. Len(s) - (n + 1) + 1
                                   /\ n + 1 + k - 1 = n + k
    BY <1>0
  <2> QED BY <1>0, <2>3, <2>4 DEF Beyond, t
<1> HIDE DEF f, r
<1>3. f \in Row
  BY <1>1, RowFacts, IsRow
<1>4. r \in Row
  <2>1. ASSUME NEW j \in 1 .. Len(r), NEW k \in 1 .. Len(r), r[j] = r[k] PROVE j = k
    <3>1. n + j = n + k
      BY SMTT(30), <1>2, <2>1, RowFacts
    <3> QED BY <1>0, <1>2, <3>1
  <2> QED BY <1>2, <2>1, IsRow
<1>5. ToSet(f) \cap ToSet(r) = {}
  <2> SUFFICES ASSUME NEW j \in 1 .. Len(f), NEW k \in 1 .. Len(r), f[j] = r[k] PROVE FALSE
    BY <1>3, <1>4, RowFacts
  <2>1. j \in 1 .. Len(s) /\ n + k \in 1 .. Len(s) /\ s[j] = s[n + k]
    BY <1>0, <1>1, <1>2
  <2>2. j = n + k
    BY <2>1, RowFacts
  <2> QED BY <1>0, <1>1, <1>2, <2>2
<1>6. ToSet(f) \cup ToSet(r) = ToSet(s)
  <2>1. ASSUME NEW x \in ToSet(f) \cup ToSet(r) PROVE x \in ToSet(s)
    <3>1. \/ \E k \in 1 .. Len(f) : f[k] = x
          \/ \E k \in 1 .. Len(r) : r[k] = x
      BY <1>3, <1>4, RowFacts
    <3>2. \E k \in 1 .. Len(s) : s[k] = x
      BY <1>1, <1>2, <3>1
    <3> QED BY <3>2, RowFacts
  <2>2. ASSUME NEW x \in ToSet(s) PROVE x \in ToSet(f) \cup ToSet(r)
    <3>1. PICK k \in 1 .. Len(s) : s[k] = x
      BY RowFacts
    <3>2. CASE k <= n
      BY <1>0, <1>1, <1>3, <3>1, <3>2, RowFacts
    <3>3. CASE k > n
      <4>1. k - n \in 1 .. Len(r) /\ n + (k - n) = k
        BY <1>0, <1>2, <3>3
      <4>2. r[k - n] = x
        BY <1>2, <3>1, <4>1
      <4> QED BY <1>4, <4>1, <4>2, RowFacts
    <3> QED BY <1>0, <3>2, <3>3
  <2> QED BY <2>1, <2>2
<1> QED BY <1>1, <1>2, <1>3, <1>4, <1>5, <1>6 DEF f, r

-----------------------------------------------------------------------------
(* What becomes of chains when blocks are taken and given back.            *)
LEMMA FollowsFacts ==
  ASSUME NEW f, NEW s, NEW i, Follows(f, s, i)
  PROVE  /\ s \in Row /\ i \in Blocks \cup {Nil}
         /\ s = <<>> => i = Nil
         /\ s # <<>> => i = s[1] /\ i # Nil /\ Last(s) = s[Len(s)] /\ Last(s) \in ToSet(s)
         /\ s # <<>> => f[Last(s)] = Nil
<1>1. s \in Row /\ i = At(s, 1) /\ \A k \in 1 .. Len(s) : f[s[k]] = At(s, k + 1)
  BY DEF Follows
<1>2. CASE s = <<>>
  BY <1>1, <1>2, RowFacts DEF At
<1>3. CASE s # <<>>
  <2>1. Len(s) \in Nat /\ Len(s) # 0 /\ 1 \in 1 .. Len(s) /\ Len(s) \in 1 .. Len(s)
    BY <1>1, <1>3, RowFacts
  <2>2. i = s[1] /\ s[1] \in Blocks /\ s[1] # Nil /\ s[Len(s)] \in ToSet(s)
    BY <1>1, <2>1, RowFacts DEF At
  <2>3. f[s[Len(s)]] = Nil
    BY <1>1, <2>1 DEF At
  <2> QED BY <1>1, <1>3, <2>2, <2>3 DEF Last
<1> QED BY <1>2, <1>3

LEMMA LinkedFacts ==
  ASSUME NEW f \in Links, NEW s \in Row, NEW i \in Blocks \cup {Nil}
  PROVE  /\ Linked(f, s, i) \in Links
         /\ \A x \in Blocks \ ToSet(s) : Linked(f, s, i)[x] = f[x]
         /\ \A k \in 1 .. Len(s) :
              Linked(f, s, i)[s[k]] = IF k = Len(s) THEN i ELSE s[k + 1]
<1> DEFINE g == Linked(f, s, i)
           The(x) == CHOOSE j \in 1 .. Len(s) : s[j] = x
<1>0. /\ s \in Seq(Blocks) /\ Len(s) \in Nat
      /\ \A k \in 1 .. Len(s) : s[k] \in Blocks
      /\ \A j, k \in 1 .. Len(s) : s[j] = s[k] => j = k
  BY RowFacts
<1>1. \A x : x \in ToSet(s) <=> Contains(s, x)
  BY <1>0, RowFacts DEF Contains
<1>2. g = [x \in Blocks |-> IF Contains(s, x)
                           THEN IF The(x) = Len(s) THEN i ELSE s[The(x) + 1]
                           ELSE f[x]]
  BY DEF Linked
<1>3. ASSUME NEW k \in 1 .. Len(s) PROVE The(s[k]) = k
  <2>1. \E j \in 1 .. Len(s) : s[j] = s[k]
    OBVIOUS
  <2>2. The(s[k]) \in 1 .. Len(s) /\ s[The(s[k])] = s[k]
    BY <2>1
  <2> HIDE DEF The
  <2> QED BY <1>0, <2>2
<1>4. ASSUME NEW k \in 1 .. Len(s) PROVE g[s[k]] = IF k = Len(s) THEN i ELSE s[k + 1]
  <2>1. Contains(s, s[k]) /\ s[k] \in Blocks
    BY <1>0 DEF Contains
  <2> HIDE DEF The
  <2> QED BY <1>2, <1>3, <2>1
<1>5. ASSUME NEW x \in Blocks \ ToSet(s) PROVE g[x] = f[x]
  BY <1>1, <1>2
<1>6. ASSUME NEW x \in Blocks PROVE g[x] \in Blocks \cup {Nil}
  <2>1. CASE x \in ToSet(s)
    <3>1. PICK k \in 1 .. Len(s) : s[k] = x
      BY <2>1, RowFacts
    <3>2. k # Len(s) => k + 1 \in 1 .. Len(s)
      BY <1>0
    <3>3. g[x] = IF k = Len(s) THEN i ELSE s[k + 1]
      BY <1>4, <3>1
    <3> QED BY <1>0, <3>2, <3>3
  <2>2. CASE x \notin ToSet(s)
    BY <1>5, <2>2 DEF Links
  <2> QED BY <2>1, <2>2
<1>7. g \in Links
  BY <1>2, <1>6 DEF Links
<1> QED BY <1>4, <1>5, <1>7

(* A chain does not notice what happens to the links of other blocks.      *)
LEMMA FollowsElse ==
  ASSUME NEW f, NEW g, NEW s, NEW i, Follows(f, s, i), \A x \in ToSet(s) : g[x] = f[x]
  PROVE  Follows(g, s, i)
<1>1. s \in Row
  BY DEF Follows
<1> QED BY <1>1, RowFacts DEF Follows

LEMMA FollowsRest ==
  ASSUME NEW f, NEW s, NEW i, Follows(f, s, i), NEW n \in 0 .. Len(s)
  PROVE  Follows(f, Beyond(s, n), At(s, n + 1))
<1> DEFINE r == Beyond(s, n)
<1>0. s \in Row /\ Len(s) \in Nat /\ n \in Nat /\ n <= Len(s)
  BY RowFacts DEF Follows
<1>1. r \in Row /\ Len(r) = Len(s) - n /\ \A k \in 1 .. Len(s) - n : r[k] = s[n + k]
  BY <1>0, CutRow
<1> HIDE DEF r
<1>2. ASSUME NEW k \in Nat \ {0} PROVE At(r, k) = At(s, n + k)
  BY <1>0, <1>1 DEF At
<1>3. ASSUME NEW k \in 1 .. Len(r) PROVE f[r[k]] = At(r, k + 1)
  <2>1. n + k \in 1 .. Len(s) /\ k + 1 \in Nat \ {0} /\ (n + k) + 1 = n + (k + 1)
    BY <1>0, <1>1
  <2>2. f[s[n + k]] = At(s, n + (k + 1))
    BY <2>1 DEF Follows
  <2>3. r[k] = s[n + k]
    BY <1>1
  <2> QED BY <1>2, <2>1, <2>2, <2>3
<1>4. At(r, 1) = At(s, n + 1)
  BY <1>2
<1> QED BY <1>1, <1>3, <1>4 DEF Follows, r

(* DestroyObjects puts the blocks s, the last one first, before the free   *)
(* ones.                                                                   *)
LEMMA Destroyed ==
  ASSUME NEW f \in Links, NEW fr, NEW h, Follows(f, fr, h), NEW s \in Row,
         ToSet(s) \cap ToSet(fr) = {}
  PROVE  Follows(Linked(f, Reverse(s), h), Reverse(s) \o fr, IF s = <<>> THEN h ELSE Last(s))
<1> DEFINE r == Reverse(s)
           g == Linked(f, r, h)
           t == r \o fr
           n == Len(s)
<1>0. fr \in Row /\ h \in Blocks \cup {Nil} /\ n \in Nat /\ Len(fr) \in Nat
  BY FollowsFacts, RowFacts
<1>1. /\ r \in Row /\ Len(r) = n /\ ToSet(r) = ToSet(s)
      /\ \A k \in 1 .. n : r[k] = s[n - k + 1]
  BY ReversedRow
<1>2. /\ t \in Row /\ Len(t) = n + Len(fr)
      /\ \A k \in 1 .. n : t[k] = r[k]
      /\ \A k \in 1 .. Len(fr) : t[n + k] = fr[k]
  <2> HIDE DEF r
  <2>1. ToSet(r) \cap ToSet(fr) = {}
    BY <1>1
  <2>2. /\ t \in Row /\ Len(t) = Len(r) + Len(fr)
        /\ \A k \in 1 .. Len(r) : t[k] = r[k]
        /\ \A k \in 1 .. Len(fr) : t[Len(r) + k] = fr[k]
    BY <1>0, <1>1, <2>1, JoinedRow
  <2> QED BY <1>1, <2>2
<1>3. /\ \A x \in Blocks \ ToSet(s) : g[x] = f[x]
      /\ \A k \in 1 .. n : g[r[k]] = IF k = n THEN h ELSE r[k + 1]
  <2> HIDE DEF r
  <2> QED BY SMTT(30), <1>0, <1>1, LinkedFacts
<1> HIDE DEF r, g, t
<1>4. ASSUME NEW k \in Nat \ {0} PROVE At(t, n + k) = At(fr, k)
  BY <1>0, <1>2 DEF At
<1>5. h = At(fr, 1) /\ \A k \in 1 .. Len(fr) : f[fr[k]] = At(fr, k + 1)
  BY DEF Follows
<1>6. ASSUME NEW k \in 1 .. n PROVE g[t[k]] = At(t, k + 1)
  <2>1. g[t[k]] = IF k = n THEN h ELSE r[k + 1]
    BY <1>2, <1>3
  <2>2. k # n => At(t, k + 1) = r[k + 1]
    BY <1>0, <1>2 DEF At
  <2>3. At(t, n + 1) = h
    BY <1>4, <1>5
  <2> QED BY <2>1, <2>2, <2>3
<1>7. ASSUME NEW k \in 1 .. Len(fr) PROVE g[t[n + k]] = At(t, (n + k) + 1)
  <2>1. t[n + k] = fr[k] /\ fr[k] \in ToSet(fr) /\ fr[k] \in Blocks
    BY <1>0, <1>2, RowFacts
  <2>2. g[t[n + k]] = At(fr, k + 1)
    BY <1>3, <1>5, <2>1
  <2>3. (n + k) + 1 = n + (k + 1) /\ k + 1 \in Nat \ {0}
    BY <1>0
  <2> QED BY <1>4, <2>2, <2>3
<1>8. \A k \in 1 .. Len(t) : g[t[k]] = At(t, k + 1)
  <2> SUFFICES ASSUME NEW k \in 1 .. Len(t), k \notin 1 .. n PROVE g[t[k]] = At(t, k + 1)
    BY <1>6
  <2>1. k - n \in 1 .. Len(fr) /\ n + (k - n) = k
    BY <1>0, <1>2
  <2> QED BY <1>7, <2>1
<1>9. (IF s = <<>> THEN h ELSE Last(s)) = At(t, 1)
  <2>1. CASE s = <<>>
    <3>1. n = 0 /\ n + 1 = 1
      BY <2>1
    <3> QED BY <1>4, <1>5, <2>1, <3>1
  <2>2. CASE s # <<>>
    <3>1. n # 0 /\ 1 \in 1 .. n /\ n - 1 + 1 = n /\ 1 \in 1 .. Len(t)
      BY <1>0, <1>2, <2>2, RowFacts
    <3> QED BY <1>1, <1>2, <2>2, <3>1 DEF At, Last
  <2> QED BY <2>1, <2>2
<1> QED BY <1>2, <1>8, <1>9 DEF Follows, r, g, t

(* CreateObjects on an empty buffer: the first free blocks are its chain.  *)
LEMMA CreatedFirst ==
  ASSUME NEW f \in Links, NEW fr, NEW h, Follows(f, fr, h), NEW n \in 1 .. Len(fr)
  PROVE  /\ Follows(Linked(f, First(fr, n), Nil), First(fr, n), First(fr, n)[1])
         /\ Follows(Linked(f, First(fr, n), Nil), Beyond(fr, n), At(fr, n + 1))
<1> DEFINE s == First(fr, n)
           r == Beyond(fr, n)
           g == Linked(f, s, Nil)
<1>0. fr \in Row /\ n \in Nat \ {0} /\ n \in 0 .. Len(fr)
  BY FollowsFacts, RowFacts
<1>1. /\ s \in Row /\ Len(s) = n /\ r \in Row
      /\ ToSet(s) \cap ToSet(r) = {} /\ ToSet(r) \subseteq Blocks
  BY <1>0, CutRow, RowFacts
<1>2. /\ \A x \in Blocks \ ToSet(s) : g[x] = f[x]
      /\ \A k \in 1 .. n : g[s[k]] = IF k = n THEN Nil ELSE s[k + 1]
  <2> HIDE DEF s
  <2> QED BY <1>1, LinkedFacts
<1>3. Follows(f, r, At(fr, n + 1))
  BY <1>0, FollowsRest
<1> HIDE DEF s, r, g
<1>4. Follows(g, r, At(fr, n + 1))
  BY <1>1, <1>2, <1>3, FollowsElse
<1>5. \A k \in 1 .. n : g[s[k]] = At(s, k + 1)
  BY <1>0, <1>1, <1>2 DEF At
<1>6. Follows(g, s, s[1])
  BY <1>0, <1>1, <1>5 DEF Follows, At
<1> QED BY <1>4, <1>6 DEF s, r, g

(* CreateObjects behind the last block of a buffer: its chain grows by the *)
(* first free blocks.                                                      *)
LEMMA Created ==
  ASSUME NEW f \in Links, NEW fr, NEW h, Follows(f, fr, h), NEW n \in 0 .. Len(fr),
         NEW c, NEW i, Follows(f, c, i), c # <<>>, ToSet(c) \cap ToSet(fr) = {}
  PROVE  /\ Follows(Linked(f, <<Last(c)>> \o First(fr, n), Nil), c \o First(fr, n), i)
         /\ Follows(Linked(f, <<Last(c)>> \o First(fr, n), Nil), Beyond(fr, n), At(fr, n + 1))
         /\ ToSet(<<Last(c)>> \o First(fr, n)) = {Last(c)} \cup ToSet(First(fr, n))
         /\ <<Last(c)>> \o First(fr, n) \in Row
<1> DEFINE s == First(fr, n)
           r == Beyond(fr, n)
           l == Last(c)
           u == <<l>> \o s
           g == Linked(f, u, Nil)
           t == c \o s
           m == Len(c)
<1>0. /\ fr \in Row /\ c \in Row /\ n \in Nat /\ m \in Nat /\ m \in 1 .. m
      /\ l \in ToSet(c) /\ l = c[m] /\ l \in Blocks /\ i = c[1]
  BY FollowsFacts, RowFacts
<1>1. /\ s \in Row /\ Len(s) = n /\ r \in Row
      /\ ToSet(s) \cap ToSet(r) = {} /\ ToSet(r) \subseteq Blocks
      /\ ToSet(s) \subseteq ToSet(fr) /\ ToSet(r) \subseteq ToSet(fr)
  <2>1. /\ s \in Row /\ Len(s) = n /\ r \in Row
        /\ ToSet(s) \cap ToSet(r) = {} /\ ToSet(s) \cup ToSet(r) = ToSet(fr)
    BY <1>0, CutRow
  <2>2. ToSet(fr) \subseteq Blocks
    BY <1>0, RowFacts
  <2> QED BY <2>1, <2>2
<1>2. <<l>> \in Row /\ Len(<<l>>) = 1 /\ ToSet(<<l>>) = {l} /\ <<l>>[1] = l
  <2>1. <<l>> \in Seq(Blocks) /\ Len(<<l>>) = 1 /\ <<l>>[1] = l
    BY <1>0
  <2>2. <<l>> \in Row
    <3> DEFINE v == <<l>>
    <3>1. v \in Seq(Blocks) /\ \A j, k \in 1 .. Len(v) : v[j] = v[k] => j = k
      BY <2>1
    <3> HIDE DEF v
    <3>2. v \in Row
      BY <3>1, IsRow
    <3> QED BY <3>2 DEF v
  <2>3. \A x \in ToSet(<<l>>) : \E k \in 1 .. 1 : <<l>>[k] = x
    BY <2>1, <2>2, RowFacts
  <2>4. l \in ToSet(<<l>>)
    BY <2>1, <2>2, RowFacts
  <2> QED BY <2>1, <2>2, <2>3, <2>4
<1>3. Follows(f, r, At(fr, n + 1))
  BY FollowsRest
<1> HIDE DEF s, r
<1>4. ToSet(<<l>>) \cap ToSet(s) = {} /\ ToSet(c) \cap ToSet(s) = {}
  BY <1>0, <1>1, <1>2
<1>5. /\ u \in Row /\ Len(u) = n + 1 /\ ToSet(u) = {l} \cup ToSet(s)
      /\ u[1] = l /\ \A k \in 1 .. n : u[1 + k] = s[k]
  <2> DEFINE v == <<l>>
  <2>1. /\ v \in Row /\ Len(v) = 1 /\ ToSet(v) = {l} /\ v[1] = l
        /\ ToSet(v) \cap ToSet(s) = {}
    BY <1>2, <1>4
  <2>2. u = v \o s
    OBVIOUS
  <2> HIDE DEF v, l, u
  <2>a. s \in Row /\ v \in Row /\ ToSet(v) \cap ToSet(s) = {}
    BY <1>1, <2>1
  <2>b. /\ v \o s \in Row /\ Len(v \o s) = Len(v) + Len(s)
        /\ ToSet(v \o s) = ToSet(v) \cup ToSet(s)
        /\ \A k \in 1 .. Len(v) : (v \o s)[k] = v[k]
        /\ \A k \in 1 .. Len(s) : (v \o s)[Len(v) + k] = s[k]
    BY <2>a, JoinedRow
  <2>3. /\ u \in Row /\ Len(u) = Len(v) + Len(s) /\ ToSet(u) = ToSet(v) \cup ToSet(s)
        /\ \A k \in 1 .. Len(v) : u[k] = v[k]
        /\ \A k \in 1 .. Len(s) : u[Len(v) + k] = s[k]
    BY <2>2, <2>b
  <2>4. Len(u) = n + 1 /\ 1 \in 1 .. Len(v)
    BY <1>0, <1>1, <2>1, <2>3
  <2> QED BY <1>1, <2>1, <2>3, <2>4
<1>6. /\ t \in Row /\ Len(t) = m + n
      /\ \A k \in 1 .. m : t[k] = c[k]
      /\ \A k \in 1 .. n : t[m + k] = s[k]
  BY ZenonT(40), <1>0, <1>1, <1>4, JoinedRow
<1> HIDE DEF l, u, t
<1>7. /\ \A x \in Blocks \ ToSet(u) : g[x] = f[x]
      /\ \A k \in 1 .. n + 1 : g[u[k]] = IF k = n + 1 THEN Nil ELSE u[k + 1]
  BY <1>5, LinkedFacts
<1> HIDE DEF g
<1>8. Follows(g, r, At(fr, n + 1))
  <2>1. \A x \in ToSet(r) : x \in Blocks \ ToSet(u)
    BY <1>0, <1>1, <1>5
  <2> QED BY <1>3, <1>7, <2>1, FollowsElse
<1>9. ASSUME NEW k \in 1 .. Len(t) PROVE g[t[k]] = At(t, k + 1)
  <2>1. CASE k < m
    <3>1. k \in 1 .. m /\ k + 1 \in 1 .. m /\ k + 1 \in 1 .. Len(t)
      BY <1>0, <1>1, <1>6, <2>1
    <3>2. c[k] # l /\ c[k] \in ToSet(c) /\ c[k] \in Blocks
      BY <1>0, <2>1, <3>1, RowFacts
    <3>3. g[c[k]] = f[c[k]]
      BY <1>4, <1>5, <1>7, <3>2
    <3>4. f[c[k]] = c[k + 1]
      BY <3>1 DEF Follows, At
    <3> QED BY <1>6, <3>1, <3>3, <3>4 DEF At
  <2>2. CASE k >= m
    <3>1. k - m + 1 \in 1 .. n + 1 /\ u[k - m + 1] = t[k]
      <4>1. CASE k = m
        BY <1>0, <1>5, <1>6, <4>1
      <4>2. CASE k # m
        <5>1. k - m \in 1 .. n /\ m + (k - m) = k /\ 1 + (k - m) = k - m + 1
          BY <1>0, <1>6, <2>2, <4>2
        <5>2. u[1 + (k - m)] = s[k - m] /\ t[m + (k - m)] = s[k - m]
          BY <1>5, <1>6, <5>1
        <5>3. k - m + 1 \in 1 .. n + 1
          BY <1>0, <5>1
        <5> QED BY <5>1, <5>2, <5>3
      <4> QED BY <4>1, <4>2
    <3>2. CASE k = m + n
      <4>1. k - m + 1 = n + 1 /\ k + 1 \notin 1 .. Len(t)
        BY <1>0, <1>6, <3>2
      <4> QED BY <1>7, <3>1, <4>1 DEF At
    <3>3. CASE k # m + n
      <4>1. /\ k - m + 1 # n + 1 /\ k - m + 1 \in 1 .. n /\ k + 1 \in 1 .. Len(t)
            /\ 1 + (k - m + 1) = (k - m + 1) + 1 /\ m + (k - m + 1) = k + 1
        BY SMTT(30), <1>0, <1>6, <2>2, <3>3
      <4>2. g[t[k]] = u[(k - m + 1) + 1]
        BY <1>7, <3>1, <4>1
      <4>3. u[(k - m + 1) + 1] = s[k - m + 1] /\ t[k + 1] = s[k - m + 1]
        BY <1>5, <1>6, <4>1
      <4> QED BY <4>1, <4>2, <4>3 DEF At
    <3> QED BY <3>2, <3>3
  <2> QED BY <1>0, <2>1, <2>2
<1>10. i = At(t, 1)
  BY <1>0, <1>1, <1>6 DEF At
<1>11. Follows(g, t, i)
  BY <1>6, <1>9, <1>10 DEF Follows
<1> QED BY <1>5, <1>8, <1>11 DEF s, r, l, u, g, t

-----------------------------------------------------------------------------
(* Places in a chain of blocks: byte p is in block p \div BLOCKSIZE.       *)
LEMMA Place ==
  ASSUME NEW p \in Nat
  PROVE  /\ p \div BLOCKSIZE \in Nat /\ p % BLOCKSIZE \in 0 .. BLOCKSIZE - 1
         /\ p = BLOCKSIZE * (p \div BLOCKSIZE) + (p % BLOCKSIZE)
<1>1. \A b \in Nat \ {0} : p \div b \in Nat /\ p % b \in 0 .. b - 1 /\ p = b * (p \div b) + (p % b)
  OBVIOUS
<1> QED BY <1>1, BlocksFinite

LEMMA Multiple ==
  ASSUME NEW a \in Int, NEW b \in Int, a < b
  PROVE  /\ BLOCKSIZE * a \in Int /\ BLOCKSIZE * b \in Int
         /\ BLOCKSIZE * a + BLOCKSIZE <= BLOCKSIZE * b
<1>1. BLOCKSIZE \in Nat \ {0}
  BY BlocksFinite
<1>2. b - a - 1 \in Nat /\ BLOCKSIZE * (b - a - 1) >= 0
  BY <1>1
<1>3. BLOCKSIZE * (b - a - 1) = BLOCKSIZE * b - BLOCKSIZE * a - BLOCKSIZE
  BY <1>1
<1> QED BY <1>1, <1>2, <1>3

LEMMA OnlyPlace ==
  ASSUME NEW p \in Nat, NEW q \in Int, NEW r \in 0 .. BLOCKSIZE - 1, p = BLOCKSIZE * q + r
  PROVE  p \div BLOCKSIZE = q /\ p % BLOCKSIZE = r
<1> DEFINE u == p \div BLOCKSIZE
           v == p % BLOCKSIZE
<1>1. u \in Nat /\ v \in 0 .. BLOCKSIZE - 1 /\ p = BLOCKSIZE * u + v /\ BLOCKSIZE \in Nat \ {0}
  BY Place, BlocksFinite
<1> HIDE DEF u, v
<1>2. ~ (u < q)
  <2> SUFFICES ASSUME u < q PROVE FALSE
    OBVIOUS
  <2>1. BLOCKSIZE * u + BLOCKSIZE <= BLOCKSIZE * q /\ BLOCKSIZE * u \in Int /\ BLOCKSIZE * q \in Int
    BY <1>1, Multiple
  <2> QED BY <1>1, <2>1
<1>3. ~ (q < u)
  <2> SUFFICES ASSUME q < u PROVE FALSE
    OBVIOUS
  <2>1. BLOCKSIZE * q + BLOCKSIZE <= BLOCKSIZE * u /\ BLOCKSIZE * u \in Int /\ BLOCKSIZE * q \in Int
    BY <1>1, Multiple
  <2> QED BY <1>1, <2>1
<1>4. u = q
  BY <1>1, <1>2, <1>3
<1>5. BLOCKSIZE * q \in Int
  BY <1>1
<1>6. v = r
  BY <1>1, <1>4, <1>5
<1> QED BY <1>4, <1>6 DEF u, v

(* n bytes need q blocks.                                                  *)
LEMMA Needed ==
  ASSUME NEW n \in Nat
  PROVE  /\ BlocksOf(n) \in Nat
         /\ BLOCKSIZE * BlocksOf(n) \in Nat
         /\ BLOCKSIZE * BlocksOf(n) < n + BLOCKSIZE
         /\ n <= BLOCKSIZE * BlocksOf(n)
         /\ BlocksOf(n) = 0 <=> n = 0
<1>1. BLOCKSIZE \in Nat \ {0} /\ n + BLOCKSIZE - 1 \in Nat
  BY BlocksFinite
<1> DEFINE u == BlocksOf(n)
           v == (n + BLOCKSIZE - 1) % BLOCKSIZE
<1>2. u \in Nat /\ v \in 0 .. BLOCKSIZE - 1 /\ n + BLOCKSIZE - 1 = BLOCKSIZE * u + v
  BY <1>1, Place DEF BlocksOf
<1> HIDE DEF u, v
<1>3. BLOCKSIZE * u \in Nat
  BY <1>1, <1>2
<1>4. BLOCKSIZE * u < n + BLOCKSIZE /\ n <= BLOCKSIZE * u
  BY <1>1, <1>2, <1>3
<1>5. u = 0 => n = 0
  BY <1>1, <1>4
<1>6. n = 0 => u = 0
  <2> SUFFICES ASSUME n = 0, 0 < u PROVE FALSE
    BY <1>2
  <2>1. BLOCKSIZE * 0 + BLOCKSIZE <= BLOCKSIZE * u
    BY <1>2, Multiple
  <2> QED BY <1>1, <1>3, <1>4, <2>1
<1> QED BY <1>2, <1>3, <1>4, <1>5, <1>6 DEF u

LEMMA OnlyNeeded ==
  ASSUME NEW n \in Nat, NEW q \in Int, BLOCKSIZE * q < n + BLOCKSIZE, n <= BLOCKSIZE * q
  PROVE  BlocksOf(n) = q
<1> DEFINE u == BlocksOf(n)
<1>1. /\ u \in Nat /\ BLOCKSIZE * u \in Nat /\ BLOCKSIZE * u < n + BLOCKSIZE
      /\ n <= BLOCKSIZE * u /\ BLOCKSIZE \in Nat \ {0} /\ BLOCKSIZE * q \in Int
  BY Needed, BlocksFinite
<1> HIDE DEF u
<1>2. ~ (u < q)
  <2> SUFFICES ASSUME u < q PROVE FALSE
    OBVIOUS
  <2>1. BLOCKSIZE * u + BLOCKSIZE <= BLOCKSIZE * q
    BY <1>1, Multiple
  <2> QED BY <1>1, <2>1
<1>3. ~ (q < u)
  <2> SUFFICES ASSUME q < u PROVE FALSE
    OBVIOUS
  <2>1. BLOCKSIZE * q + BLOCKSIZE <= BLOCKSIZE * u
    BY <1>1, Multiple
  <2> QED BY <1>1, <2>1
<1> QED BY <1>1, <1>2, <1>3 DEF u

LEMMA MinOfTwo ==
  ASSUME NEW a \in Int, NEW b \in Int
  PROVE  Min({a, b}) = IF a <= b THEN a ELSE b
<1>1. \E x \in {a, b} : \A y \in {a, b} : x <= y
  OBVIOUS
<1>2. Min({a, b}) \in {a, b} /\ \A y \in {a, b} : Min({a, b}) <= y
  BY <1>1 DEF Min
<1> QED BY <1>2

(* Behind e bytes there is room in the last block, unless it is full, and  *)
(* the blocks for n more bytes are those that all of them need.            *)
LEMMA RoomBehind ==
  ASSUME NEW e \in Nat, NEW n \in Nat
  PROVE  LET d    == e % BLOCKSIZE
             room == IF d > 0 THEN BLOCKSIZE - d ELSE 0
             full == IF d > 0 THEN BlocksOf(e) - 1 ELSE BlocksOf(e)
         IN /\ e = BLOCKSIZE * full + d
            /\ BlocksOf(n - Min({n, room})) \in Nat
            /\ BlocksOf(e + n) = BlocksOf(e) + BlocksOf(n - Min({n, room}))
<1> DEFINE d    == e % BLOCKSIZE
           room == IF d > 0 THEN BLOCKSIZE - d ELSE 0
           q    == e \div BLOCKSIZE
           full == IF d > 0 THEN BlocksOf(e) - 1 ELSE BlocksOf(e)
           w    == n - Min({n, room})
           z    == BlocksOf(w)
<1>0. BLOCKSIZE \in Nat \ {0}
  BY BlocksFinite
<1>1. q \in Nat /\ d \in 0 .. BLOCKSIZE - 1 /\ e = BLOCKSIZE * q + d /\ BLOCKSIZE * q \in Nat
  BY <1>0, Place
<1> HIDE DEF d, q
<1>2. full = q
  <2>1. CASE d > 0
    <3>1. BLOCKSIZE * (q + 1) = BLOCKSIZE * q + BLOCKSIZE
      BY <1>0, <1>1
    <3>2. BlocksOf(e) = q + 1
      BY <1>0, <1>1, <2>1, <3>1, OnlyNeeded
    <3> QED BY <1>1, <2>1, <3>2
  <2>2. CASE d = 0
    <3>1. BlocksOf(e) = q
      BY <1>0, <1>1, <2>2, OnlyNeeded
    <3> QED BY <2>2, <3>1
  <2> QED BY <1>1, <2>1, <2>2
<1>3. room \in Nat /\ w \in Nat /\ w = IF n <= room THEN 0 ELSE n - room
  BY <1>0, <1>1, MinOfTwo
<1> HIDE DEF w
<1>4. /\ z \in Nat /\ BLOCKSIZE * z \in Nat /\ BLOCKSIZE * z < w + BLOCKSIZE
      /\ w <= BLOCKSIZE * z /\ (z = 0 <=> w = 0)
  BY <1>3, Needed
<1> HIDE DEF z
<1>5. BlocksOf(e + n) = BlocksOf(e) + z
  <2>1. CASE d > 0
    <3>1. BlocksOf(e) = q + 1
      BY <1>1, <1>2, <2>1, Needed
    <3>2. BLOCKSIZE * (q + 1 + z) = BLOCKSIZE * q + BLOCKSIZE + BLOCKSIZE * z
      BY <1>0, <1>1, <1>4
    <3>3. room = BLOCKSIZE - d
      BY <2>1
    <3>4. CASE n <= room
      <4>1. w = 0 /\ z = 0 /\ BLOCKSIZE * z = 0
        BY <1>0, <1>3, <1>4, <3>4
      <4>2. BLOCKSIZE * (q + 1) = BLOCKSIZE * q + BLOCKSIZE
        BY <1>0, <1>1
      <4>3. BlocksOf(e + n) = q + 1
        BY <1>0, <1>1, <2>1, <3>3, <3>4, <4>2, OnlyNeeded
      <4> QED BY <1>1, <3>1, <4>1, <4>3
    <3>5. CASE ~ (n <= room)
      <4>1. w = n - (BLOCKSIZE - d)
        BY <1>3, <3>3, <3>5
      <4>2. q + 1 + z \in Int /\ e + n \in Nat
        BY <1>1, <1>4
      <4>3. /\ BLOCKSIZE * (q + 1 + z) < (e + n) + BLOCKSIZE
            /\ e + n <= BLOCKSIZE * (q + 1 + z)
        BY <1>0, <1>1, <1>4, <3>2, <4>1
      <4>4. BlocksOf(e + n) = q + 1 + z
        BY <4>2, <4>3, OnlyNeeded
      <4> QED BY <3>1, <4>4
    <3> QED BY <3>4, <3>5
  <2>2. CASE d = 0
    <3>1. BlocksOf(e) = q
      BY <1>2, <2>2
    <3>2. w = n
      BY <1>3, <2>2
    <3>3. BLOCKSIZE * (q + z) = BLOCKSIZE * q + BLOCKSIZE * z
      BY <1>0, <1>1, <1>4
    <3>4. BLOCKSIZE * (q + z) < (e + n) + BLOCKSIZE /\ e + n <= BLOCKSIZE * (q + z)
      BY <1>0, <1>1, <1>4, <2>2, <3>2, <3>3
    <3>5. q + z \in Int /\ e + n \in Nat
      BY <1>1, <1>4
    <3>6. BlocksOf(e + n) = q + z
      BY <3>4, <3>5, OnlyNeeded
    <3> QED BY <3>1, <3>6
  <2> QED BY <1>1, <2>1, <2>2
<1>6. e = BLOCKSIZE * full + d
  BY <1>1, <1>2
<1> QED BY <1>4, <1>5, <1>6 DEF d, w, z

(* The first n of e bytes have been taken out, and with them the blocks in *)
(* front of byte n.                                                        *)
LEMMA BlocksLeft ==
  ASSUME NEW e \in Nat, NEW n \in Nat, n < e
  PROVE  /\ n \div BLOCKSIZE \in Nat /\ n \div BLOCKSIZE < BlocksOf(e)
         /\ BlocksOf((n % BLOCKSIZE) + (e - n)) = BlocksOf(e) - n \div BLOCKSIZE
         /\ (n % BLOCKSIZE) + (e - n) = e - BLOCKSIZE * (n \div BLOCKSIZE)
<1> DEFINE q == n \div BLOCKSIZE
           r == n % BLOCKSIZE
           u == BlocksOf(e)
<1>0. BLOCKSIZE \in Nat \ {0}
  BY BlocksFinite
<1>1. q \in Nat /\ r \in 0 .. BLOCKSIZE - 1 /\ n = BLOCKSIZE * q + r /\ BLOCKSIZE * q \in Nat
  BY <1>0, Place
<1>2. /\ u \in Nat /\ BLOCKSIZE * u \in Nat /\ BLOCKSIZE * u < e + BLOCKSIZE
      /\ e <= BLOCKSIZE * u
  BY Needed
<1> HIDE DEF q, r, u
<1>3. q < u
  <2> SUFFICES ASSUME u <= q PROVE FALSE
    BY <1>1, <1>2
  <2>1. BLOCKSIZE * u <= BLOCKSIZE * q
    <3>1. CASE u = q
      BY <1>1, <3>1
    <3>2. CASE u < q
      BY <1>0, <1>1, <1>2, <3>2, Multiple
    <3> QED BY <1>1, <1>2, <3>1, <3>2
  <2> QED BY <1>0, <1>1, <1>2, <2>1
<1>4. BLOCKSIZE * (u - q) = BLOCKSIZE * u - BLOCKSIZE * q
  BY <1>0, <1>1, <1>2
<1>5. r + (e - n) = e - BLOCKSIZE * q /\ r + (e - n) \in Nat
  BY <1>0, <1>1
<1>6. BLOCKSIZE * (u - q) < (r + (e - n)) + BLOCKSIZE /\ r + (e - n) <= BLOCKSIZE * (u - q)
  BY <1>0, <1>1, <1>2, <1>4, <1>5
<1>7. BlocksOf(r + (e - n)) = u - q
  BY <1>1, <1>2, <1>5, <1>6, OnlyNeeded
<1> QED BY <1>1, <1>3, <1>5, <1>7 DEF q, r, u

-----------------------------------------------------------------------------
(* The inductive invariant: PoolRight, and what it leaves open.  All       *)
(* chains end, and a buffer without a block holds nothing.                 *)
Free == Chain(m_iFreeHead)

ChainsEnd ==
  /\ Follows(m_piDsInfo, Free, m_iFreeHead)
  /\ \A b \in Bufs : Follows(m_piDsInfo, Held(b), m_pBuffItem[b].m_iBuffIdx)

ItemsWhole ==
  \A b \in Bufs :
    LET item == m_pBuffItem[b] IN
      /\ Len(Held(b)) = BlocksOf(item.m_iBuffOffset + item.m_iBuffSize)
      /\ IF item.m_iBuffIdx = Nil THEN item = NoItem ELSE item.m_iBuffSize > 0

IInv == PoolRight /\ ChainsEnd /\ ItemsWhole

Memory == [Blocks -> [0 .. BLOCKSIZE - 1 -> {Stale} \cup (Bufs \X (0 .. Values - 1))]]
Item   == [m_iBuffIdx : Blocks \cup {Nil}, m_iLastBuffIdx : Blocks \cup {Nil},
           m_iBuffOffset : 0 .. BLOCKSIZE - 1, m_iBuffSize : Nat]
Idle   == {b \in Bufs : m_pBuffItem[b].m_iBuffIdx = Nil}

(* What an action on b leaves alone.                                       *)
Others(b) ==
  /\ \A x \in Blocks \ (ToSet(Free) \cup ToSet(Held(b))) : m_piDsInfo'[x] = m_piDsInfo[x]
  /\ \A c \in Bufs \ {b} : m_pBuffItem'[c] = m_pBuffItem[c] /\ (c \notin failed' => c \notin failed)

(* After it, fr are the free blocks and h those of b: they are the same    *)
(* blocks as before.                                                       *)
Shared(b, fr, h) ==
  /\ Follows(m_piDsInfo', fr, m_iFreeHead')
  /\ Follows(m_piDsInfo', h, m_pBuffItem'[b].m_iBuffIdx)
  /\ ToSet(fr) \cap ToSet(h) = {}
  /\ ToSet(fr) \cup ToSet(h) = ToSet(Free) \cup ToSet(Held(b))
  /\ m_iUsedCount' \in Int /\ Len(fr) = BlockNum - m_iUsedCount'

(* And h fits what b holds.                                                *)
Fits(b, h) ==
  LET item == m_pBuffItem'[b] IN
    /\ Len(h) = BlocksOf(item.m_iBuffOffset + item.m_iBuffSize)
    /\ IF item.m_iBuffIdx = Nil THEN item = NoItem ELSE item.m_iBuffSize > 0
    /\ b \notin failed' /\ h # <<>> => Last(h) = item.m_iLastBuffIdx

StepTypes ==
  /\ m_piDsInfo' \in Links /\ m_pObjMem' \in Memory /\ m_pBuffItem' \in [Bufs -> Item]
  /\ failed' \subseteq Bufs /\ next' \in [Bufs -> 0 .. Values - 1]

LEMMA ChainsAfter ==
  ASSUME IInv, NEW b \in Bufs, NEW fr, NEW h, Others(b), Shared(b, fr, h)
  PROVE  /\ Free' = fr /\ Held(b)' = h
         /\ \A c \in Bufs \ {b} : Held(c)' = Held(c)
         /\ ChainsEnd'
<1>1. Free' = fr
  BY ChainIs DEF Shared, Free, Chain
<1>2. Held(b)' = h
  BY ChainIs DEF Shared, Held, Chain
<1>3. ASSUME NEW c \in Bufs \ {b}
      PROVE  Follows(m_piDsInfo', Held(c), m_pBuffItem'[c].m_iBuffIdx) /\ Held(c)' = Held(c)
  <2>1. Follows(m_piDsInfo, Held(c), m_pBuffItem[c].m_iBuffIdx)
    BY DEF IInv, ChainsEnd
  <2>2. ToSet(Held(c)) \cap (ToSet(Free) \cup ToSet(Held(b))) = {}
    BY DEF IInv, PoolRight, BlocksOwned, Free
  <2>3. ToSet(Held(c)) \subseteq Blocks
    BY <2>1, RowFacts DEF Follows
  <2>4. \A x \in ToSet(Held(c)) : m_piDsInfo'[x] = m_piDsInfo[x]
    BY <2>2, <2>3 DEF Others
  <2>5. Follows(m_piDsInfo', Held(c), m_pBuffItem[c].m_iBuffIdx)
    BY <2>1, <2>4, FollowsElse
  <2>6. m_pBuffItem'[c] = m_pBuffItem[c]
    BY DEF Others
  <2>7. ChainIn(m_piDsInfo', m_pBuffItem'[c].m_iBuffIdx) = Held(c)
    BY <2>5, <2>6, ChainIs
  <2> QED BY <2>5, <2>6, <2>7 DEF Held, Chain
<1>4. Follows(m_piDsInfo', Free', m_iFreeHead')
  BY <1>1 DEF Shared
<1>5. ASSUME NEW c \in Bufs PROVE Follows(m_piDsInfo', Held(c)', m_pBuffItem'[c].m_iBuffIdx)
  BY <1>2, <1>3 DEF Shared
<1> QED BY <1>1, <1>2, <1>3, <1>4, <1>5 DEF ChainsEnd

LEMMA OwnedAfter ==
  ASSUME IInv, NEW b \in Bufs, NEW fr, NEW h, Others(b), Shared(b, fr, h),
         m_iFreeBuffNum' = Cardinality(Idle')
  PROVE  BlocksOwned'
<1>1. /\ Free' = fr /\ Held(b)' = h
      /\ \A c \in Bufs \ {b} : Held(c)' = Held(c)
  BY ChainsAfter
<1>2. /\ ToSet(fr) \cap ToSet(h) = {}
      /\ ToSet(fr) \cup ToSet(h) = ToSet(Free) \cup ToSet(Held(b))
      /\ Len(fr) = BlockNum - m_iUsedCount'
  BY DEF Shared
<1>3. /\ \A c \in Bufs : /\ ToSet(Held(c)) \cap ToSet(Free) = {}
                        /\ \A d \in Bufs \ {c} : ToSet(Held(c)) \cap ToSet(Held(d)) = {}
      /\ (UNION {ToSet(Held(c)) : c \in Bufs}) \cup ToSet(Free) = Blocks
  BY DEF IInv, PoolRight, BlocksOwned, Free
<1>4. ASSUME NEW c \in Bufs \ {b}
      PROVE  ToSet(Held(c)) \cap ToSet(fr) = {} /\ ToSet(Held(c)) \cap ToSet(h) = {}
  <2>1. ToSet(Held(c)) \cap ToSet(Free) = {} /\ ToSet(Held(c)) \cap ToSet(Held(b)) = {}
    BY <1>3
  <2> QED BY <1>2, <2>1
<1>5. ASSUME NEW c \in Bufs
      PROVE  /\ ToSet(Held(c)') \cap ToSet(Free') = {}
             /\ \A d \in Bufs \ {c} : ToSet(Held(c)') \cap ToSet(Held(d)') = {}
  <2>1. CASE c = b
    BY <1>1, <1>2, <1>4, <2>1
  <2>2. CASE c # b
    <3>1. ASSUME NEW d \in Bufs \ {c} PROVE ToSet(Held(c)') \cap ToSet(Held(d)') = {}
      <4>1. CASE d = b
        BY <1>1, <1>4, <2>2, <4>1
      <4>2. CASE d # b
        BY <1>1, <1>3, <2>2, <4>2
      <4> QED BY <4>1, <4>2
    <3>2. ToSet(Held(c)') \cap ToSet(Free') = {}
      BY <1>1, <1>4, <2>2
    <3> QED BY <3>1, <3>2
  <2> QED BY <2>1, <2>2
<1>6. (UNION {ToSet(Held(c)') : c \in Bufs}) \cup ToSet(Free') = Blocks
  <2>0. \A x \in Blocks : x \in ToSet(Free) \/ \E c \in Bufs : x \in ToSet(Held(c))
    <3>1. \A x \in UNION {ToSet(Held(c)) : c \in Bufs} : \E c \in Bufs : x \in ToSet(Held(c))
      OBVIOUS
    <3> QED BY <1>3, <3>1
  <2>1. ASSUME NEW x \in Blocks
        PROVE  x \in ToSet(Free') \/ \E c \in Bufs : x \in ToSet(Held(c)')
    <3>1. CASE x \in ToSet(Free) \cup ToSet(Held(b))
      <4>1. x \in ToSet(fr) \/ x \in ToSet(h)
        BY <1>2, <3>1
      <4> QED BY <1>1, <4>1
    <3>2. CASE x \notin ToSet(Free) \cup ToSet(Held(b))
      <4>1. PICK c \in Bufs : x \in ToSet(Held(c))
        BY <2>0, <3>2
      <4>2. c # b /\ x \in ToSet(Held(c)')
        BY <1>1, <3>2, <4>1
      <4> QED BY <4>2
    <3> QED BY <3>1, <3>2
  <2>2. ASSUME NEW c \in Bufs PROVE ToSet(Held(c)') \subseteq Blocks
    <3>1. ChainsEnd'
      BY ChainsAfter
    <3>2. Held(c)' \in Row
      BY <3>1 DEF ChainsEnd, Follows
    <3> QED BY <3>2, RowFacts
  <2>3. ToSet(Free') \subseteq Blocks
    <3>1. fr \in Row
      BY DEF Shared, Follows
    <3>2. ToSet(fr) \subseteq Blocks
      BY <3>1, RowFacts
    <3> QED BY <1>1, <3>2
  <2>4. \A x \in Blocks : x \in (UNION {ToSet(Held(c)') : c \in Bufs}) \cup ToSet(Free')
    BY <2>1
  <2>5. UNION {ToSet(Held(c)') : c \in Bufs} \subseteq Blocks
    BY <2>2
  <2> QED BY <2>3, <2>4, <2>5
<1>7. Len(Free') = BlockNum - m_iUsedCount'
  BY <1>1, <1>2
<1> QED BY <1>5, <1>6, <1>7 DEF BlocksOwned, Free, Idle

(* An action that says all this of one buffer keeps the invariant.         *)
LEMMA OneBuffer ==
  ASSUME IInv, NEW b \in Bufs, NEW fr, NEW h, Others(b), Shared(b, fr, h), Fits(b, h),
         StepTypes, m_iFreeBuffNum' = Cardinality(Idle')
  PROVE  IInv'
<1>1. /\ Free' = fr /\ Held(b)' = h
      /\ \A c \in Bufs \ {b} : Held(c)' = Held(c)
      /\ ChainsEnd'
  BY ChainsAfter
<1>2. BlocksOwned'
  BY OwnedAfter
<1>3. ASSUME NEW c \in Bufs
      PROVE  LET item == m_pBuffItem'[c] IN
               /\ Len(Held(c)') = BlocksOf(item.m_iBuffOffset + item.m_iBuffSize)
               /\ IF item.m_iBuffIdx = Nil THEN item = NoItem ELSE item.m_iBuffSize > 0
               /\ c \notin failed' /\ Held(c)' # <<>> => Last(Held(c)') = item.m_iLastBuffIdx
  <2>1. CASE c = b
    BY <1>1, <2>1 DEF Fits
  <2>2. CASE c # b
    <3>1. m_pBuffItem'[c] = m_pBuffItem[c] /\ (c \notin failed' => c \notin failed)
          /\ Held(c)' = Held(c)
      BY <1>1, <2>2 DEF Others
    <3>2. LET item == m_pBuffItem[c] IN
            /\ Len(Held(c)) = BlocksOf(item.m_iBuffOffset + item.m_iBuffSize)
            /\ IF item.m_iBuffIdx = Nil THEN item = NoItem ELSE item.m_iBuffSize > 0
            /\ c \notin failed /\ Held(c) # <<>> => Last(Held(c)) = item.m_iLastBuffIdx
      BY DEF IInv, ItemsWhole, PoolRight, ChainFits
    <3> QED BY <3>1, <3>2
  <2> QED BY <2>1, <2>2
<1>4. ItemsWhole'
  BY <1>3 DEF ItemsWhole
<1>5. ChainFits'
  BY <1>3 DEF ChainFits
<1>6. TypeOK'
  <2>1. fr \in Row /\ m_iFreeHead' \in Blocks \cup {Nil}
    BY FollowsFacts DEF Shared
  <2>2. m_iUsedCount' \in 0 .. BlockNum
    <3>1. Len(fr) <= BlockNum /\ Len(fr) \in Nat /\ BlockNum \in Nat
      BY <2>1, InjectiveLen, RowFacts, BlocksFinite
    <3>2. m_iUsedCount' \in Int /\ Len(fr) = BlockNum - m_iUsedCount'
      BY DEF Shared
    <3> DEFINE l == Len(fr)
               u == m_iUsedCount'
    <3> HIDE DEF l, u
    <3>3. l \in Nat /\ l <= BlockNum /\ BlockNum \in Nat /\ u \in Int /\ l = BlockNum - u
      BY <3>1, <3>2 DEF l, u
    <3>4. u \in 0 .. BlockNum
      BY <3>3
    <3> QED BY <3>4 DEF u
  <2>3. ASSUME NEW c \in Bufs PROVE m_pBuffItem'[c].m_iBuffSize \in 0 .. BlockNum * BLOCKSIZE
    <3> DEFINE off == m_pBuffItem'[c].m_iBuffOffset
               sz  == m_pBuffItem'[c].m_iBuffSize
               q   == Len(Held(c)')
    <3>1. off \in Nat /\ sz \in Nat
      BY BlocksFinite DEF StepTypes, Item
    <3>2. Held(c)' \in Row
      BY <1>1 DEF ChainsEnd, Follows
    <3>3. q \in Nat /\ q <= BlockNum
      BY <3>2, InjectiveLen, RowFacts
    <3>4. q = BlocksOf(off + sz)
      BY <1>3
    <3> HIDE DEF off, sz, q
    <3>5. off + sz <= BLOCKSIZE * q
      BY <3>1, <3>4, Needed
    <3>6. BLOCKSIZE * q <= BLOCKSIZE * BlockNum /\ BLOCKSIZE * q \in Nat /\ BLOCKSIZE * BlockNum \in Nat
      <4>1. BLOCKSIZE \in Nat \ {0} /\ BlockNum \in Nat \ {0}
        BY BlocksFinite
      <4>2. CASE q = BlockNum
        BY <4>1, <4>2
      <4>3. CASE q < BlockNum
        BY <3>3, <4>1, <4>3, Multiple
      <4> QED BY <3>3, <4>1, <4>2, <4>3
    <3>7. BLOCKSIZE * BlockNum = BlockNum * BLOCKSIZE
      BY BlocksFinite
    <3>8. sz \in 0 .. BlockNum * BLOCKSIZE
      BY <3>1, <3>5, <3>6, <3>7
    <3> QED BY <3>8 DEF sz
  <2>4. m_pBuffItem' \in
          [Bufs -> [m_iBuffIdx : Blocks \cup {Nil}, m_iLastBuffIdx : Blocks \cup {Nil},
                    m_iBuffOffset : 0 .. BLOCKSIZE - 1,
                    m_iBuffSize : 0 .. BlockNum * BLOCKSIZE]]
    BY <2>3 DEF StepTypes, Item
  <2>5. m_iFreeBuffNum' \in 0 .. Cardinality(Bufs)
    <3>1. IsFiniteSet(Bufs) /\ Idle' \subseteq Bufs
      BY BuffMngAssumption DEF Idle
    <3>2. Cardinality(Idle') \in Nat /\ Cardinality(Idle') <= Cardinality(Bufs) /\ Cardinality(Bufs) \in Nat
      BY <3>1, FS_Subset, FS_CardinalityType
    <3> QED BY <3>2
  <2> QED BY <2>1, <2>2, <2>4, <2>5 DEF TypeOK, StepTypes, Links, Memory
<1> QED BY <1>1, <1>2, <1>4, <1>5, <1>6 DEF IInv, PoolRight

-----------------------------------------------------------------------------
LEMMA StateFacts ==
  ASSUME IInv, NEW b \in Bufs
  PROVE  /\ Follows(m_piDsInfo, Free, m_iFreeHead) /\ Free \in Row
         /\ Follows(m_piDsInfo, Held(b), m_pBuffItem[b].m_iBuffIdx) /\ Held(b) \in Row
         /\ ToSet(Held(b)) \cap ToSet(Free) = {}
         /\ m_piDsInfo \in Links /\ m_pObjMem \in Memory /\ m_pBuffItem \in [Bufs -> Item]
         /\ failed \subseteq Bufs /\ next \in [Bufs -> 0 .. Values - 1]
         /\ m_iUsedCount \in Nat /\ Len(Free) = BlockNum - m_iUsedCount
         /\ m_iFreeBuffNum = Cardinality(Idle)
         /\ m_pBuffItem[b] \in Item
         /\ m_pBuffItem[b].m_iBuffIdx = Nil <=> Held(b) = <<>>
         /\ m_pBuffItem[b].m_iBuffIdx = Nil => m_pBuffItem[b] = NoItem
         /\ m_pBuffItem[b].m_iBuffIdx # Nil => m_pBuffItem[b].m_iBuffSize > 0
         /\ Len(Held(b)) = BlocksOf(m_pBuffItem[b].m_iBuffOffset + m_pBuffItem[b].m_iBuffSize)
         /\ b \notin failed /\ Held(b) # <<>> => Last(Held(b)) = m_pBuffItem[b].m_iLastBuffIdx
<1>1. /\ Follows(m_piDsInfo, Free, m_iFreeHead) /\ Free \in Row
      /\ Follows(m_piDsInfo, Held(b), m_pBuffItem[b].m_iBuffIdx) /\ Held(b) \in Row
  BY DEF IInv, ChainsEnd, Follows
<1>2. m_pBuffItem[b].m_iBuffIdx = Nil <=> Held(b) = <<>>
  BY <1>1, FollowsFacts
<1>3. TypeOK
  BY DEF IInv, PoolRight
<1>4. /\ m_piDsInfo \in Links /\ m_pObjMem \in Memory
      /\ failed \subseteq Bufs /\ next \in [Bufs -> 0 .. Values - 1]
      /\ m_iUsedCount \in Nat
  BY <1>3, BlocksFinite DEF TypeOK, Links, Memory
<1>5. m_pBuffItem \in [Bufs -> Item]
  <2>1. BlockNum * BLOCKSIZE \in Nat
    BY BlocksFinite
  <2>2. 0 .. BlockNum * BLOCKSIZE \subseteq Nat
    BY <2>1
  <2> QED BY <1>3, <2>2 DEF TypeOK, Item
<1>6. /\ ToSet(Held(b)) \cap ToSet(Free) = {}
      /\ Len(Free) = BlockNum - m_iUsedCount
      /\ m_iFreeBuffNum = Cardinality(Idle)
  BY DEF IInv, PoolRight, BlocksOwned, Free, Idle
<1>7. /\ m_pBuffItem[b].m_iBuffIdx = Nil => m_pBuffItem[b] = NoItem
      /\ m_pBuffItem[b].m_iBuffIdx # Nil => m_pBuffItem[b].m_iBuffSize > 0
      /\ Len(Held(b)) = BlocksOf(m_pBuffItem[b].m_iBuffOffset + m_pBuffItem[b].m_iBuffSize)
      /\ b \notin failed /\ Held(b) # <<>> => Last(Held(b)) = m_pBuffItem[b].m_iLastBuffIdx
  BY DEF IInv, PoolRight, ItemsWhole, ChainFits
<1> QED BY <1>1, <1>2, <1>4, <1>5, <1>6, <1>7

LEMMA IdleCount ==
  ASSUME IInv, NEW b \in Bufs
  PROVE  /\ IsFiniteSet(Idle) /\ m_iFreeBuffNum \in Nat
         /\ Cardinality(Idle) = m_iFreeBuffNum
         /\ b \in Idle => Cardinality(Idle \ {b}) = m_iFreeBuffNum - 1
         /\ b \notin Idle => Cardinality(Idle \cup {b}) = m_iFreeBuffNum + 1
<1>1. IsFiniteSet(Idle)
  BY BuffMngAssumption, FS_Subset DEF Idle
<1>2. m_iFreeBuffNum = Cardinality(Idle)
  BY StateFacts
<1> QED BY <1>1, <1>2, FS_AddElement, FS_RemoveElement, FS_CardinalityType

LEMMA BytesFacts ==
  ASSUME IInv, NEW b \in Bufs, NEW n \in Nat
  PROVE  /\ Bytes(b, n) \in Seq(Bufs \X (0 .. Values - 1)) /\ Len(Bytes(b, n)) = n
         /\ Taken(b, n) \in [Bufs -> 0 .. Values - 1]
<1>1. next \in [Bufs -> 0 .. Values - 1] /\ Values \in Nat \ {0}
  BY StateFacts, BlocksFinite
<1>2. \A m \in Int, v \in Nat \ {0} : m >= 0 => m % v \in 0 .. v - 1
  OBVIOUS
<1>3. \A k \in 1 .. n : next[b] + k - 1 \in Int /\ next[b] + k - 1 >= 0
  BY <1>1
<1>4. \A k \in 1 .. n : (next[b] + k - 1) % Values \in 0 .. Values - 1
  BY <1>1, <1>2, <1>3
<1>5. (next[b] + n) % Values \in 0 .. Values - 1
  <2>1. next[b] + n \in Int /\ next[b] + n >= 0
    BY <1>1
  <2> QED BY <1>1, <1>2, <2>1
<1>6. Bytes(b, n) \in Seq(Bufs \X (0 .. Values - 1)) /\ Len(Bytes(b, n)) = n
  BY <1>4 DEF Bytes
<1>7. Taken(b, n) \in [Bufs -> 0 .. Values - 1]
  BY <1>1, <1>5 DEF Taken
<1> QED BY <1>6, <1>7

LEMMA WrittenType ==
  ASSUME m_pObjMem \in Memory, NEW c, NEW p, NEW s \in Seq(Bufs \X (0 .. Values - 1))
  PROVE  Written(c, p, s) \in Memory
<1> DEFINE Hit(x, k) == {j \in 1 .. Len(s) :
                   c[(p + j - 1) \div BLOCKSIZE + 1] = x /\ (p + j - 1) % BLOCKSIZE = k}
           Byte(x, k) == IF Hit(x, k) = {} THEN m_pObjMem[x][k]
                         ELSE s[CHOOSE j \in Hit(x, k) : TRUE]
<1>1. Written(c, p, s) = [x \in Blocks |-> [k \in 0 .. BLOCKSIZE - 1 |-> Byte(x, k)]]
  BY DEF Written
<1>2. \A x, k : Hit(x, k) \subseteq 1 .. Len(s)
  OBVIOUS
<1> HIDE DEF Hit
<1>3. ASSUME NEW x \in Blocks, NEW k \in 0 .. BLOCKSIZE - 1
      PROVE  Byte(x, k) \in {Stale} \cup (Bufs \X (0 .. Values - 1))
  <2>1. CASE Hit(x, k) = {}
    BY <2>1 DEF Memory
  <2>2. CASE Hit(x, k) # {}
    <3>1. (CHOOSE j \in Hit(x, k) : TRUE) \in 1 .. Len(s)
      BY <1>2, <2>2
    <3> QED BY <2>2, <3>1
  <2> QED BY <2>1, <2>2
<1> HIDE DEF Byte
<1> QED BY <1>1, <1>3 DEF Memory

LEMMA WithoutType ==
  ASSUME m_pObjMem \in Memory, NEW s
  PROVE  Without(s) \in Memory
BY DEF Memory, Without

LEMMA LensFacts == ASSUME NEW n \in Lens PROVE n \in Nat /\ n # 0
BY BuffMngAssumption

LEMMA FirstKeeps ==
  ASSUME IInv, NEW b \in Bufs, NEW n \in Lens, failed = {}, AppendFirst(b, n)
  PROVE  /\ IInv' /\ Held(b)' = First(Free, BlocksOf(n))
         /\ \A c \in Bufs \ {b} : Held(c)' = Held(c)
<1> DEFINE k    == BlocksOf(n)
           new  == First(Free, k)
           rest == Beyond(Free, k)
<1>1. n \in Nat /\ n # 0 /\ k \in Nat /\ k # 0
  BY LensFacts, Needed
<1>2. /\ m_pBuffItem[b].m_iBuffIdx = Nil /\ k <= Len(Free)
      /\ m_piDsInfo' = Linked(m_piDsInfo, new, Nil)
      /\ m_iFreeHead' = IF k < Len(Free) THEN Free[k + 1] ELSE Nil
      /\ m_iUsedCount' = m_iUsedCount + k
      /\ m_pObjMem' = Written(new, 0, Bytes(b, n))
      /\ m_pBuffItem' = [m_pBuffItem EXCEPT ![b] =
           [m_iBuffIdx |-> new[1], m_iLastBuffIdx |-> Last(new),
            m_iBuffOffset |-> 0, m_iBuffSize |-> n]]
      /\ m_iFreeBuffNum' = m_iFreeBuffNum - 1 /\ next' = Taken(b, n) /\ failed' = failed
  BY DEF AppendFirst, CreateObjects, Free
<1>3. /\ Free \in Row /\ Follows(m_piDsInfo, Free, m_iFreeHead)
      /\ ToSet(Held(b)) \cap ToSet(Free) = {} /\ Held(b) = <<>>
      /\ m_piDsInfo \in Links /\ m_pObjMem \in Memory /\ m_pBuffItem \in [Bufs -> Item]
      /\ m_iUsedCount \in Nat /\ Len(Free) = BlockNum - m_iUsedCount
  BY <1>2, StateFacts
<1>4. Len(Free) \in Nat /\ k \in 1 .. Len(Free) /\ k \in 0 .. Len(Free)
  BY <1>1, <1>2, <1>3, RowFacts
<1>5. /\ Follows(m_piDsInfo', new, new[1]) /\ Follows(m_piDsInfo', rest, At(Free, k + 1))
  BY <1>2, <1>3, <1>4, CreatedFirst
<1>6. /\ new \in Row /\ Len(new) = k /\ rest \in Row /\ Len(rest) = Len(Free) - k
      /\ ToSet(new) \cap ToSet(rest) = {} /\ ToSet(new) \cup ToSet(rest) = ToSet(Free)
  BY <1>3, <1>4, CutRow
<1> HIDE DEF new, rest
<1>7. m_iFreeHead' = At(Free, k + 1)
  BY <1>2, <1>4 DEF At
<1>8. /\ m_pBuffItem'[b] = [m_iBuffIdx |-> new[1], m_iLastBuffIdx |-> Last(new),
                            m_iBuffOffset |-> 0, m_iBuffSize |-> n]
      /\ \A c \in Bufs \ {b} : m_pBuffItem'[c] = m_pBuffItem[c]
  BY <1>2, <1>3
<1>9. new[1] \in Blocks /\ new[1] # Nil /\ Last(new) \in Blocks /\ new # <<>>
  <2>1. new # <<>>
    BY <1>4, <1>6
  <2>2. 1 \in 1 .. Len(new) /\ Len(new) \in 1 .. Len(new)
    BY <1>4, <1>6
  <2> QED BY <1>6, <2>1, <2>2, RowFacts DEF Last
<1>10. ToSet(Held(b)) = {}
  BY <1>3 DEF ToSet
<1>11. Others(b)
  <2>1. \A x \in Blocks \ ToSet(new) : m_piDsInfo'[x] = m_piDsInfo[x]
    BY <1>2, <1>3, <1>6, LinkedFacts
  <2> QED BY <1>2, <1>6, <1>8, <2>1 DEF Others
<1>12. Shared(b, rest, new)
  <2>1. m_iUsedCount' \in Int /\ Len(rest) = BlockNum - m_iUsedCount'
    BY <1>1, <1>2, <1>3, <1>6, BlocksFinite
  <2> QED BY <1>5, <1>6, <1>7, <1>8, <1>10, <2>1 DEF Shared
<1>13. Fits(b, new)
  <2>1. 0 + n = n /\ n > 0
    BY <1>1
  <2> QED BY <1>6, <1>8, <1>9, <2>1 DEF Fits
<1>14. StepTypes
  <2>1. m_piDsInfo' \in Links
    BY <1>2, <1>3, <1>6, LinkedFacts
  <2>2. m_pObjMem' \in Memory /\ next' \in [Bufs -> 0 .. Values - 1]
    BY <1>1, <1>2, <1>3, BytesFacts, WrittenType
  <2>3. m_pBuffItem' \in [Bufs -> Item]
    <3>1. m_pBuffItem'[b] \in Item
      BY <1>1, <1>8, <1>9, BlocksFinite DEF Item
    <3> HIDE DEF new
    <3> QED BY <1>2, <1>3, <1>8, <3>1
  <2> QED BY <1>2, <2>1, <2>2, <2>3 DEF StepTypes
<1>15. m_iFreeBuffNum' = Cardinality(Idle')
  <2>1. Idle' = Idle \ {b} /\ b \in Idle
    BY <1>2, <1>8, <1>9 DEF Idle
  <2> QED BY <1>2, <2>1, IdleCount
<1> QED BY <1>11, <1>12, <1>13, <1>14, <1>15, OneBuffer, ChainsAfter DEF new

(* When blocks run out, the ones that were taken are given back, the last  *)
(* taken first; the buffer's own are as before.                            *)
LEMMA GivenBack ==
  ASSUME IInv, NEW b \in Bufs, failed = {}, CreateObjectsFails(m_pBuffItem[b].m_iLastBuffIdx)
  PROVE  /\ m_piDsInfo' \in Links
         /\ \A x \in Blocks \ ToSet(Free) : m_piDsInfo'[x] = m_piDsInfo[x]
         /\ Follows(m_piDsInfo', Reverse(Free), m_iFreeHead')
         /\ Follows(m_piDsInfo', Held(b), m_pBuffItem[b].m_iBuffIdx)
         /\ ToSet(Reverse(Free)) = ToSet(Free)
         /\ m_iUsedCount' \in Int /\ Len(Reverse(Free)) = BlockNum - m_iUsedCount'
<1> DEFINE last == m_pBuffItem[b].m_iLastBuffIdx
           back == Reverse(Free)
<1>1. /\ m_iFreeHead' = IF Free = <<>> THEN Nil ELSE Last(Free)
      /\ m_piDsInfo' = Linked(IF last = Nil THEN m_piDsInfo ELSE [m_piDsInfo EXCEPT ![last] = Nil],
                              back, Nil)
      /\ m_iUsedCount' = m_iUsedCount
  BY DEF CreateObjectsFails, Free
<1>2. /\ Free \in Row /\ Follows(m_piDsInfo, Held(b), m_pBuffItem[b].m_iBuffIdx)
      /\ ToSet(Held(b)) \cap ToSet(Free) = {} /\ m_piDsInfo \in Links
      /\ m_iUsedCount \in Nat /\ Len(Free) = BlockNum - m_iUsedCount
  BY StateFacts
<1>3. /\ m_pBuffItem[b].m_iBuffIdx = Nil <=> Held(b) = <<>>
      /\ m_pBuffItem[b].m_iBuffIdx = Nil => m_pBuffItem[b] = NoItem
      /\ b \notin failed /\ Held(b) # <<>> => Last(Held(b)) = last
  BY StateFacts
<1>4. back \in Row /\ ToSet(back) = ToSet(Free) /\ Len(back) = Len(Free)
  BY <1>2, ReversedRow
<1>5. m_piDsInfo' = Linked(m_piDsInfo, back, Nil)
  <2>1. CASE Held(b) = <<>>
    <3>1. last = Nil
      BY <1>3, <2>1 DEF NoItem
    <3> QED BY <1>1, <3>1
  <2>2. CASE Held(b) # <<>>
    <3>1. Last(Held(b)) = last
      BY <1>3, <2>2
    <3>2. m_piDsInfo[last] = Nil
      BY <1>2, <2>2, <3>1, FollowsFacts
    <3>3. [m_piDsInfo EXCEPT ![last] = Nil] = m_piDsInfo
      BY <1>2, <3>2 DEF Links
    <3> QED BY <1>1, <3>3
  <2> QED BY <2>1, <2>2
<1>6. \A x \in Blocks \ ToSet(Free) : m_piDsInfo'[x] = m_piDsInfo[x]
  BY <1>2, <1>4, <1>5, LinkedFacts
<1>7. m_piDsInfo' \in Links
  BY <1>2, <1>4, <1>5, LinkedFacts
<1>8. Follows(m_piDsInfo, <<>>, Nil)
  <2>0. <<>> \in Seq(Blocks) /\ Len(<<>>) = 0
    OBVIOUS
  <2>1. <<>> \in Row
    BY <2>0 DEF Row, IsInjective
  <2> QED BY <2>1 DEF Follows, At
<1>9. Follows(m_piDsInfo', back, m_iFreeHead')
  <2>1. ToSet(Free) \cap ToSet(<<>>) = {}
    BY DEF ToSet
  <2>2. Follows(Linked(m_piDsInfo, back, Nil), back \o <<>>, IF Free = <<>> THEN Nil ELSE Last(Free))
    BY <1>2, <1>8, <2>1, Destroyed
  <2>3. back \o <<>> = back
    BY <1>4, RowFacts
  <2> QED BY <1>1, <1>5, <2>2, <2>3
<1>10. Follows(m_piDsInfo', Held(b), m_pBuffItem[b].m_iBuffIdx)
  <2>1. ToSet(Held(b)) \subseteq Blocks
    BY <1>2, RowFacts DEF Follows
  <2>2. \A x \in ToSet(Held(b)) : m_piDsInfo'[x] = m_piDsInfo[x]
    BY <1>2, <1>6, <2>1
  <2> QED BY <1>2, <2>2, FollowsElse
<1>11. m_iUsedCount' \in Int /\ Len(back) = BlockNum - m_iUsedCount'
  BY <1>1, <1>2, <1>4
<1> QED BY <1>4, <1>6, <1>7, <1>9, <1>10, <1>11

LEMMA FirstFailsKeeps ==
  ASSUME IInv, NEW b \in Bufs, NEW n \in Lens, failed = {}, AppendFirstFails(b, n)
  PROVE  IInv' /\ \A c \in Bufs : Held(c)' = Held(c)
<1>1. /\ CreateObjectsFails(Nil) /\ failed' = failed \cup {b} /\ m_pBuffItem[b].m_iBuffIdx = Nil
      /\ UNCHANGED <<m_pObjMem, m_pBuffItem, m_iFreeBuffNum, next>>
  BY DEF AppendFirstFails
<1>2. /\ m_pBuffItem[b] = NoItem /\ m_pBuffItem \in [Bufs -> Item] /\ m_pObjMem \in Memory
      /\ next \in [Bufs -> 0 .. Values - 1] /\ failed \subseteq Bufs
      /\ ToSet(Held(b)) \cap ToSet(Free) = {} /\ m_iFreeBuffNum = Cardinality(Idle)
      /\ Len(Held(b)) = BlocksOf(m_pBuffItem[b].m_iBuffOffset + m_pBuffItem[b].m_iBuffSize)
  BY <1>1, StateFacts
<1>3. CreateObjectsFails(m_pBuffItem[b].m_iLastBuffIdx)
  BY <1>1, <1>2 DEF NoItem
<1>4. /\ m_piDsInfo' \in Links
      /\ \A x \in Blocks \ ToSet(Free) : m_piDsInfo'[x] = m_piDsInfo[x]
      /\ Follows(m_piDsInfo', Reverse(Free), m_iFreeHead')
      /\ Follows(m_piDsInfo', Held(b), m_pBuffItem[b].m_iBuffIdx)
      /\ ToSet(Reverse(Free)) = ToSet(Free)
      /\ m_iUsedCount' \in Int /\ Len(Reverse(Free)) = BlockNum - m_iUsedCount'
  BY <1>3, GivenBack
<1>5. Others(b)
  BY <1>1, <1>4 DEF Others
<1>6. Shared(b, Reverse(Free), Held(b))
  BY <1>1, <1>2, <1>4 DEF Shared
<1>7. Fits(b, Held(b))
  BY <1>1, <1>2 DEF Fits
<1>8. StepTypes
  BY <1>1, <1>2, <1>4 DEF StepTypes
<1>9. m_iFreeBuffNum' = Cardinality(Idle')
  <2>1. Idle' = Idle
    BY <1>1 DEF Idle
  <2> QED BY <1>1, <1>2, <2>1
<1>10. Held(b)' = Held(b) /\ \A c \in Bufs \ {b} : Held(c)' = Held(c)
  BY <1>5, <1>6, ChainsAfter
<1> QED BY <1>5, <1>6, <1>7, <1>8, <1>9, <1>10, OneBuffer


(* How many blocks an append needs besides the ones there are.             *)
LEMMA MoreFacts ==
  ASSUME IInv, NEW b \in Bufs, NEW n \in Nat
  PROVE  LET e    == m_pBuffItem[b].m_iBuffOffset + m_pBuffItem[b].m_iBuffSize
             d    == BlockDataLen(b)
             room == IF d > 0 THEN BLOCKSIZE - d ELSE 0
         IN /\ e \in Nat /\ d = e % BLOCKSIZE /\ d \in 0 .. BLOCKSIZE - 1
            /\ e = BLOCKSIZE * (IF d > 0 THEN Len(Held(b)) - 1 ELSE Len(Held(b))) + d
            /\ MoreBlocks(b, n) \in Nat
            /\ BlocksOf(e + n) = Len(Held(b)) + MoreBlocks(b, n)
            /\ n <= room => MoreBlocks(b, n) = 0
<1> DEFINE off  == m_pBuffItem[b].m_iBuffOffset
           sz   == m_pBuffItem[b].m_iBuffSize
           e    == off + sz
           d    == BlockDataLen(b)
           room == IF d > 0 THEN BLOCKSIZE - d ELSE 0
<1>0. BLOCKSIZE \in Nat \ {0}
  BY BlocksFinite
<1>1. off \in Nat /\ sz \in Nat /\ Len(Held(b)) = BlocksOf(off + sz)
  BY <1>0, StateFacts DEF Item
<1>2. d = (sz + off) % BLOCKSIZE
  BY DEF BlockDataLen
<1>3. MoreBlocks(b, n) = BlocksOf(n - Min({n, room}))
  BY DEF MoreBlocks
<1> HIDE DEF off, sz, d
<1>4. e \in Nat /\ sz + off = e
  BY <1>1
<1>5. d = e % BLOCKSIZE
  BY <1>2, <1>4
<1> HIDE DEF e
<1>6. d \in 0 .. BLOCKSIZE - 1
  BY <1>4, <1>5, Place
<1>7. /\ e = BLOCKSIZE * (IF d > 0 THEN BlocksOf(e) - 1 ELSE BlocksOf(e)) + d
      /\ BlocksOf(n - Min({n, room})) \in Nat
      /\ BlocksOf(e + n) = BlocksOf(e) + BlocksOf(n - Min({n, room}))
  BY <1>4, <1>5, RoomBehind
<1>8. n <= room => BlocksOf(n - Min({n, room})) = 0
  <2>1. room \in Int
    BY <1>0, <1>6
  <2> HIDE DEF room
  <2>2. n <= room => n - Min({n, room}) = 0
    BY <2>1, MinOfTwo
  <2>3. BlocksOf(0) = 0
    BY Needed
  <2> QED BY <2>2, <2>3
<1>9. Len(Held(b)) = BlocksOf(e)
  BY <1>1 DEF e
<1> QED BY <1>3, <1>4, <1>5, <1>6, <1>7, <1>8, <1>9 DEF off, sz, e, d

LEMMA MoreFailsKeeps ==
  ASSUME IInv, NEW b \in Bufs, NEW n \in Lens, failed = {}, AppendMoreFails(b, n)
  PROVE  IInv' /\ \A c \in Bufs : Held(c)' = Held(c)
<1> DEFINE last  == m_pBuffItem[b].m_iLastBuffIdx
           last2 == IF Free = <<>> THEN last ELSE Last(Free)
           d     == BlockDataLen(b)
           c     == Taking(b, <<>>)
           m     == Len(c) * BLOCKSIZE - d
<1>1. /\ CreateObjectsFails(last) /\ failed' = failed \cup {b} /\ m_pBuffItem[b].m_iBuffIdx # Nil
      /\ MoreBlocks(b, n) > Len(Free)
      /\ m_pObjMem' = Written(c, d, First(Bytes(b, n), m))
      /\ m_pBuffItem' = [m_pBuffItem EXCEPT ![b].m_iLastBuffIdx = last2]
      /\ UNCHANGED <<m_iFreeBuffNum, next>>
  BY DEF AppendMoreFails, Free
<1>2. /\ m_pBuffItem \in [Bufs -> Item] /\ m_pObjMem \in Memory /\ m_pBuffItem[b] \in Item
      /\ next \in [Bufs -> 0 .. Values - 1] /\ failed \subseteq Bufs /\ Free \in Row
      /\ ToSet(Held(b)) \cap ToSet(Free) = {} /\ m_iFreeBuffNum = Cardinality(Idle)
      /\ Len(Held(b)) = BlocksOf(m_pBuffItem[b].m_iBuffOffset + m_pBuffItem[b].m_iBuffSize)
      /\ m_pBuffItem[b].m_iBuffSize > 0
  BY <1>1, StateFacts
<1>3. /\ m_piDsInfo' \in Links
      /\ \A x \in Blocks \ ToSet(Free) : m_piDsInfo'[x] = m_piDsInfo[x]
      /\ Follows(m_piDsInfo', Reverse(Free), m_iFreeHead')
      /\ Follows(m_piDsInfo', Held(b), m_pBuffItem[b].m_iBuffIdx)
      /\ ToSet(Reverse(Free)) = ToSet(Free)
      /\ m_iUsedCount' \in Int /\ Len(Reverse(Free)) = BlockNum - m_iUsedCount'
  BY <1>1, GivenBack
<1>4. last2 \in Blocks \cup {Nil}
  <2>1. CASE Free = <<>>
    BY <1>2, <2>1 DEF Item
  <2>2. CASE Free # <<>>
    <3>1. Len(Free) \in 1 .. Len(Free)
      BY <1>2, <2>2, RowFacts
    <3>2. Last(Free) \in Blocks
      BY <1>2, <3>1, RowFacts DEF Last
    <3> QED BY <2>2, <3>2
  <2> QED BY <2>1, <2>2
<1> HIDE DEF last2
<1>5. /\ m_pBuffItem' \in [Bufs -> Item]
      /\ m_pBuffItem'[b].m_iBuffIdx = m_pBuffItem[b].m_iBuffIdx
      /\ m_pBuffItem'[b].m_iBuffOffset = m_pBuffItem[b].m_iBuffOffset
      /\ m_pBuffItem'[b].m_iBuffSize = m_pBuffItem[b].m_iBuffSize
      /\ \A x \in Bufs \ {b} : m_pBuffItem'[x] = m_pBuffItem[x]
  BY <1>1, <1>2, <1>4 DEF Item
<1>6. m_pObjMem' \in Memory
  <2>1. n \in Nat
    BY LensFacts
  <2>2. /\ d \in 0 .. BLOCKSIZE - 1 /\ BLOCKSIZE \in Nat
        /\ ~ (n <= (IF d > 0 THEN BLOCKSIZE - d ELSE 0))
    <3>1. Len(Free) \in Nat
      BY <1>2, RowFacts
    <3>2. MoreBlocks(b, n) # 0
      BY <1>1, <2>1, <3>1, MoreFacts
    <3> QED BY <2>1, <3>2, MoreFacts, BlocksFinite
  <2>3. Len(c) = IF d > 0 THEN 1 ELSE 0
    BY DEF Taking
  <2> HIDE DEF c, d
  <2>4. m \in 0 .. n
    BY <2>1, <2>2, <2>3
  <2> HIDE DEF m
  <2>5. Bytes(b, n) \in Seq(Bufs \X (0 .. Values - 1)) /\ Len(Bytes(b, n)) = n
    BY <2>1, BytesFacts
  <2>6. First(Bytes(b, n), m) \in Seq(Bufs \X (0 .. Values - 1))
    BY <2>4, <2>5 DEF First
  <2> QED BY <1>1, <1>2, <2>6, WrittenType
<1>7. Others(b)
  BY <1>1, <1>3, <1>5 DEF Others
<1>8. Shared(b, Reverse(Free), Held(b))
  BY <1>2, <1>3, <1>5 DEF Shared
<1>9. Fits(b, Held(b))
  BY <1>1, <1>2, <1>5 DEF Fits
<1>10. StepTypes
  BY <1>1, <1>2, <1>3, <1>5, <1>6 DEF StepTypes
<1>11. m_iFreeBuffNum' = Cardinality(Idle')
  <2>1. Idle' = Idle
    BY <1>5 DEF Idle
  <2> QED BY <1>1, <1>2, <2>1
<1>12. Held(b)' = Held(b) /\ \A x \in Bufs \ {b} : Held(x)' = Held(x)
  BY <1>7, <1>8, ChainsAfter
<1> QED BY <1>7, <1>8, <1>9, <1>10, <1>11, <1>12, OneBuffer


LEMMA MoreKeeps ==
  ASSUME IInv, NEW b \in Bufs, NEW n \in Lens, failed = {}, AppendMore(b, n)
  PROVE  /\ IInv' /\ Held(b)' = Held(b) \o First(Free, MoreBlocks(b, n))
         /\ \A c \in Bufs \ {b} : Held(c)' = Held(c)
<1> DEFINE last == m_pBuffItem[b].m_iLastBuffIdx
           k    == MoreBlocks(b, n)
           new  == First(Free, k)
           rest == Beyond(Free, k)
           last2 == IF new = <<>> THEN last ELSE Last(new)
<1>1. /\ m_pBuffItem[b].m_iBuffIdx # Nil /\ k <= Len(Free)
      /\ m_piDsInfo' = Linked(m_piDsInfo, IF last = Nil THEN new ELSE <<last>> \o new, Nil)
      /\ m_iFreeHead' = IF k < Len(Free) THEN Free[k + 1] ELSE Nil
      /\ m_iUsedCount' = m_iUsedCount + k
      /\ m_pObjMem' = Written(Taking(b, new), BlockDataLen(b), Bytes(b, n))
      /\ m_pBuffItem' = [m_pBuffItem EXCEPT ![b].m_iLastBuffIdx = last2,
                                            ![b].m_iBuffSize = @ + n]
      /\ next' = Taken(b, n) /\ m_iFreeBuffNum' = m_iFreeBuffNum /\ failed' = failed
  BY DEF AppendMore, CreateObjects, Free
<1>2. /\ m_pBuffItem \in [Bufs -> Item] /\ m_pObjMem \in Memory /\ m_pBuffItem[b] \in Item
      /\ Free \in Row /\ Follows(m_piDsInfo, Free, m_iFreeHead)
      /\ Held(b) \in Row /\ Follows(m_piDsInfo, Held(b), m_pBuffItem[b].m_iBuffIdx)
      /\ m_piDsInfo \in Links /\ failed \subseteq Bufs
      /\ ToSet(Held(b)) \cap ToSet(Free) = {} /\ m_iFreeBuffNum = Cardinality(Idle)
      /\ m_pBuffItem[b].m_iBuffSize > 0 /\ Held(b) # <<>>
      /\ m_iUsedCount \in Nat /\ Len(Free) = BlockNum - m_iUsedCount
      /\ Last(Held(b)) = last
  BY <1>1, StateFacts
<1>3. n \in Nat /\ n # 0
  BY LensFacts
<1>4. k \in Nat /\ Len(Free) \in Nat /\ k \in 0 .. Len(Free)
  BY <1>1, <1>2, <1>3, MoreFacts, RowFacts
<1>5. /\ new \in Row /\ Len(new) = k /\ rest \in Row /\ Len(rest) = Len(Free) - k
      /\ ToSet(new) \cap ToSet(rest) = {} /\ ToSet(new) \cup ToSet(rest) = ToSet(Free)
  BY <1>2, <1>4, CutRow
<1>6. last \in ToSet(Held(b)) /\ last \in Blocks /\ last # Nil
  <2>1. last \in ToSet(Held(b))
    BY <1>2, FollowsFacts
  <2> QED BY <1>2, <2>1, RowFacts, BlocksFinite
<1>7. m_piDsInfo' = Linked(m_piDsInfo, <<Last(Held(b))>> \o new, Nil)
  BY <1>1, <1>2, <1>6
<1>8. /\ Follows(m_piDsInfo', Held(b) \o new, m_pBuffItem[b].m_iBuffIdx)
      /\ Follows(m_piDsInfo', rest, At(Free, k + 1))
      /\ ToSet(<<Last(Held(b))>> \o new) = {last} \cup ToSet(new)
      /\ <<Last(Held(b))>> \o new \in Row
  BY <1>2, <1>4, <1>7, Created
<1> HIDE DEF new, rest, k
<1>9. m_iFreeHead' = At(Free, k + 1)
  BY <1>1, <1>4 DEF At
<1>10. last2 \in Blocks
  <2>1. CASE new = <<>>
    BY <1>6, <2>1
  <2>2. CASE new # <<>>
    <3>1. Len(new) \in 1 .. Len(new)
      BY <1>5, <2>2, RowFacts
    <3>2. Last(new) \in Blocks
      BY <1>5, <3>1, RowFacts DEF Last
    <3> QED BY <2>2, <3>2
  <2> QED BY <2>1, <2>2
<1>11. /\ Held(b) \o new \in Row /\ Len(Held(b) \o new) = Len(Held(b)) + k
       /\ ToSet(Held(b) \o new) = ToSet(Held(b)) \cup ToSet(new)
       /\ Last(Held(b) \o new) = last2
  <2>1. ToSet(Held(b)) \cap ToSet(new) = {}
    BY <1>2, <1>5
  <2>2. /\ Held(b) \o new \in Row /\ Len(Held(b) \o new) = Len(Held(b)) + Len(new)
        /\ ToSet(Held(b) \o new) = ToSet(Held(b)) \cup ToSet(new)
        /\ \A j \in 1 .. Len(Held(b)) : (Held(b) \o new)[j] = Held(b)[j]
        /\ \A j \in 1 .. Len(new) : (Held(b) \o new)[Len(Held(b)) + j] = new[j]
    BY <1>2, <1>5, <2>1, JoinedRow
  <2>3. Last(Held(b) \o new) = last2
    <3>1. CASE new = <<>>
      <4>1. Len(Held(b) \o new) = Len(Held(b)) /\ Len(Held(b)) \in 1 .. Len(Held(b))
        BY <1>2, <2>2, <3>1, RowFacts
      <4> QED BY <1>2, <2>2, <3>1, <4>1 DEF Last
    <3>2. CASE new # <<>>
      <4>1. Len(new) \in 1 .. Len(new)
        BY <1>5, <3>2, RowFacts
      <4> QED BY <2>2, <3>2, <4>1 DEF Last
    <3> QED BY <3>1, <3>2
  <2> QED BY <1>5, <2>2, <2>3
<1> HIDE DEF last2
<1>12. /\ m_pBuffItem' \in [Bufs -> Item]
       /\ m_pBuffItem'[b].m_iBuffIdx = m_pBuffItem[b].m_iBuffIdx
       /\ m_pBuffItem'[b].m_iBuffOffset = m_pBuffItem[b].m_iBuffOffset
       /\ m_pBuffItem'[b].m_iBuffSize = m_pBuffItem[b].m_iBuffSize + n
       /\ m_pBuffItem'[b].m_iLastBuffIdx = last2
       /\ \A x \in Bufs \ {b} : m_pBuffItem'[x] = m_pBuffItem[x]
  <2>1. m_pBuffItem[b].m_iBuffSize + n \in Nat
    BY <1>2, <1>3 DEF Item
  <2> QED BY <1>1, <1>2, <1>10, <2>1 DEF Item
<1>13. Others(b)
  <2>1. \A x \in Blocks \ ToSet(<<Last(Held(b))>> \o new) : m_piDsInfo'[x] = m_piDsInfo[x]
    BY <1>2, <1>7, <1>8, LinkedFacts
  <2>2. \A x \in Blocks \ (ToSet(Free) \cup ToSet(Held(b))) : m_piDsInfo'[x] = m_piDsInfo[x]
    BY <1>5, <1>6, <1>8, <2>1
  <2> QED BY <1>1, <1>12, <2>2 DEF Others
<1>14. Shared(b, rest, Held(b) \o new)
  <2>1. m_iUsedCount' \in Int /\ Len(rest) = BlockNum - m_iUsedCount'
    <3> DEFINE u == m_iUsedCount
               l == Len(Free)
    <3>1. u \in Nat /\ l = BlockNum - u /\ m_iUsedCount' = u + k /\ Len(rest) = l - k
      BY <1>1, <1>2, <1>5
    <3> HIDE DEF u, l
    <3> QED BY <1>4, <3>1, BlocksFinite
  <2>2. ToSet(rest) \cap ToSet(Held(b) \o new) = {}
    BY <1>2, <1>5, <1>11
  <2>3. ToSet(rest) \cup ToSet(Held(b) \o new) = ToSet(Free) \cup ToSet(Held(b))
    BY <1>5, <1>11
  <2> QED BY <1>8, <1>9, <1>12, <2>1, <2>2, <2>3 DEF Shared
<1>15. Fits(b, Held(b) \o new)
  <2> DEFINE off == m_pBuffItem[b].m_iBuffOffset
             sz  == m_pBuffItem[b].m_iBuffSize
  <2>1. BlocksOf((off + sz) + n) = Len(Held(b)) + k
    BY <1>3, MoreFacts DEF k
  <2>2. off \in Nat /\ sz \in Nat /\ sz > 0
    BY <1>2, BlocksFinite DEF Item
  <2> HIDE DEF off, sz
  <2>3. (off + sz) + n = off + (sz + n) /\ sz + n > 0
    BY <1>3, <2>2
  <2>4. Len(Held(b) \o new) = BlocksOf(off + (sz + n))
    BY <1>11, <2>1, <2>3
  <2>5. m_pBuffItem'[b].m_iBuffOffset = off /\ m_pBuffItem'[b].m_iBuffSize = sz + n
    BY <1>12 DEF off, sz
  <2> QED BY <1>1, <1>11, <1>12, <2>3, <2>4, <2>5 DEF Fits
<1>16. StepTypes
  <2>1. m_piDsInfo' \in Links
    BY <1>2, <1>7, <1>8, LinkedFacts
  <2>2. m_pObjMem' \in Memory /\ next' \in [Bufs -> 0 .. Values - 1]
    BY <1>1, <1>2, <1>3, BytesFacts, WrittenType
  <2> QED BY <1>1, <1>2, <1>12, <2>1, <2>2 DEF StepTypes
<1>17. m_iFreeBuffNum' = Cardinality(Idle')
  <2>1. Idle' = Idle
    BY <1>12 DEF Idle
  <2> QED BY <1>1, <1>2, <2>1
<1> QED BY <1>13, <1>14, <1>15, <1>16, <1>17, OneBuffer, ChainsAfter DEF new, k

(* The first q blocks of a buffer are freed, last of them first.           *)
LEMMA GivenUp ==
  ASSUME IInv, NEW b \in Bufs, NEW q \in 0 .. Len(Held(b)), DestroyObjects(First(Held(b), q))
  PROVE  LET s  == First(Held(b), q)
             h  == Beyond(Held(b), q)
             fr == Reverse(s) \o Free
         IN /\ m_piDsInfo' \in Links /\ m_pObjMem' = Without(s) /\ m_pObjMem' \in Memory
            /\ \A x \in Blocks \ ToSet(Held(b)) : m_piDsInfo'[x] = m_piDsInfo[x]
            /\ Follows(m_piDsInfo', fr, m_iFreeHead')
            /\ Follows(m_piDsInfo', h, At(Held(b), q + 1))
            /\ ToSet(fr) \cap ToSet(h) = {}
            /\ ToSet(fr) \cup ToSet(h) = ToSet(Free) \cup ToSet(Held(b))
            /\ m_iUsedCount' \in Int /\ Len(fr) = BlockNum - m_iUsedCount'
<1> DEFINE s    == First(Held(b), q)
           h    == Beyond(Held(b), q)
           back == Reverse(s)
           fr   == back \o Free
<1>1. /\ m_iFreeHead' = IF s = <<>> THEN m_iFreeHead ELSE Last(s)
      /\ m_piDsInfo' = Linked(m_piDsInfo, back, m_iFreeHead)
      /\ m_iUsedCount' = m_iUsedCount - Len(s)
      /\ m_pObjMem' = Without(s)
  BY DEF DestroyObjects
<1>2. /\ Free \in Row /\ Follows(m_piDsInfo, Free, m_iFreeHead)
      /\ Held(b) \in Row /\ Follows(m_piDsInfo, Held(b), m_pBuffItem[b].m_iBuffIdx)
      /\ ToSet(Held(b)) \cap ToSet(Free) = {} /\ m_piDsInfo \in Links /\ m_pObjMem \in Memory
      /\ m_iUsedCount \in Nat /\ Len(Free) = BlockNum - m_iUsedCount
  BY StateFacts
<1>3. /\ s \in Row /\ Len(s) = q /\ h \in Row
      /\ ToSet(s) \cap ToSet(h) = {} /\ ToSet(s) \cup ToSet(h) = ToSet(Held(b))
  BY <1>2, CutRow
<1>4. Follows(m_piDsInfo, h, At(Held(b), q + 1))
  BY <1>2, FollowsRest
<1> HIDE DEF s, h
<1>5. back \in Row /\ ToSet(back) = ToSet(s) /\ Len(back) = q
  BY <1>3, ReversedRow
<1>6. ToSet(s) \cap ToSet(Free) = {} /\ ToSet(h) \cap ToSet(Free) = {}
  BY <1>2, <1>3
<1>7. Follows(m_piDsInfo', fr, m_iFreeHead')
  BY <1>1, <1>2, <1>3, <1>6, Destroyed
<1>8. m_iFreeHead \in Blocks \cup {Nil}
  BY <1>2, FollowsFacts
<1>9. /\ m_piDsInfo' \in Links
      /\ \A x \in Blocks \ ToSet(s) : m_piDsInfo'[x] = m_piDsInfo[x]
  <2> DEFINE g == Linked(m_piDsInfo, back, m_iFreeHead)
  <2>1. g \in Links /\ \A x \in Blocks \ ToSet(back) : g[x] = m_piDsInfo[x]
    BY <1>2, <1>5, <1>8, LinkedFacts
  <2>2. m_piDsInfo' = g
    BY <1>1
  <2> HIDE DEF g, back
  <2> QED BY <1>5, <2>1, <2>2
<1>10. Follows(m_piDsInfo', h, At(Held(b), q + 1))
  <2>1. ToSet(h) \subseteq Blocks
    BY <1>3, RowFacts
  <2>2. \A x \in ToSet(h) : m_piDsInfo'[x] = m_piDsInfo[x]
    BY <1>3, <1>9, <2>1
  <2> QED BY <1>4, <2>2, FollowsElse
<1>11. ToSet(fr) = ToSet(s) \cup ToSet(Free) /\ Len(fr) = q + Len(Free)
  BY <1>2, <1>5, <1>6, JoinedRow
<1>12. ToSet(fr) \cap ToSet(h) = {}
  BY <1>3, <1>6, <1>11
<1>13. ToSet(fr) \cup ToSet(h) = ToSet(Free) \cup ToSet(Held(b))
  BY <1>3, <1>11
<1>14. m_iUsedCount' \in Int /\ Len(fr) = BlockNum - m_iUsedCount'
  <2> DEFINE u == m_iUsedCount
             l == Len(Free)
  <2>1. u \in Nat /\ l = BlockNum - u /\ m_iUsedCount' = u - q /\ Len(fr) = q + l
    BY <1>1, <1>2, <1>3, <1>11
  <2>2. q \in Int
    <3>1. Len(Held(b)) \in Nat
      BY <1>2, RowFacts
    <3> QED BY <3>1
  <2> HIDE DEF u, l, fr
  <2> QED BY <2>1, <2>2, BlocksFinite
<1>15. m_pObjMem' \in Memory
  BY <1>1, <1>2, WithoutType
<1>16. \A x \in Blocks \ ToSet(Held(b)) : m_piDsInfo'[x] = m_piDsInfo[x]
  BY <1>3, <1>9
<1> QED BY <1>1, <1>7, <1>9, <1>10, <1>12, <1>13, <1>14, <1>15, <1>16 DEF s, h


(* A buffer that is given up as a whole: sent to its end, or its           *)
(* connection closed.                                                      *)
LEMMA WholeGone ==
  ASSUME IInv, NEW b \in Bufs, m_pBuffItem[b].m_iBuffIdx # Nil, DestroyObjects(Held(b)),
         m_pBuffItem' = [m_pBuffItem EXCEPT ![b] = NoItem],
         m_iFreeBuffNum' = m_iFreeBuffNum + 1,
         failed' \subseteq Bufs, \A c \in Bufs \ {b} : c \notin failed' => c \notin failed,
         UNCHANGED next
  PROVE  /\ IInv' /\ Held(b)' = <<>> /\ m_pObjMem' = Without(Held(b))
         /\ \A c \in Bufs \ {b} : Held(c)' = Held(c)
<1> DEFINE q  == Len(Held(b))
           fr == Reverse(First(Held(b), q)) \o Free
           h  == Beyond(Held(b), q)
<1>1. /\ Held(b) \in Row /\ m_pBuffItem \in [Bufs -> Item]
      /\ next \in [Bufs -> 0 .. Values - 1] /\ m_iFreeBuffNum = Cardinality(Idle)
  BY StateFacts
<1>2. q \in Nat /\ q \in 0 .. q
  BY <1>1, RowFacts
<1>3. First(Held(b), q) = Held(b) /\ h = <<>>
  <2>1. h \in Row /\ Len(h) = q - q
    BY <1>1, <1>2, CutRow
  <2>2. h = <<>>
    BY <1>2, <2>1, RowFacts
  <2>3. SubSeq(Held(b), 1, Len(Held(b))) = Held(b)
    BY <1>1, RowFacts
  <2> QED BY <2>2, <2>3 DEF First
<1>4. At(Held(b), q + 1) = Nil
  BY <1>2 DEF At
<1>5. DestroyObjects(First(Held(b), q))
  BY <1>3
<1>6. /\ m_piDsInfo' \in Links /\ m_pObjMem' = Without(First(Held(b), q)) /\ m_pObjMem' \in Memory
      /\ \A x \in Blocks \ ToSet(Held(b)) : m_piDsInfo'[x] = m_piDsInfo[x]
      /\ Follows(m_piDsInfo', fr, m_iFreeHead')
      /\ Follows(m_piDsInfo', h, At(Held(b), q + 1))
      /\ ToSet(fr) \cap ToSet(h) = {}
      /\ ToSet(fr) \cup ToSet(h) = ToSet(Free) \cup ToSet(Held(b))
      /\ m_iUsedCount' \in Int /\ Len(fr) = BlockNum - m_iUsedCount'
  BY <1>2, <1>5, GivenUp
<1> HIDE DEF fr, h
<1>7. /\ m_pBuffItem'[b] = NoItem /\ m_pBuffItem' \in [Bufs -> Item]
      /\ \A c \in Bufs \ {b} : m_pBuffItem'[c] = m_pBuffItem[c]
  <2>1. NoItem \in Item
    BY BlocksFinite DEF NoItem, Item
  <2> QED BY <1>1, <2>1
<1>8. Others(b)
  BY <1>6, <1>7 DEF Others
<1>9. Shared(b, fr, h)
  BY <1>4, <1>6, <1>7 DEF Shared, NoItem
<1>10. Fits(b, h)
  <2>1. BlocksOf(0 + 0) = 0 /\ Len(h) = 0
    BY <1>3, Needed
  <2> QED BY <1>3, <1>7, <2>1 DEF Fits, NoItem
<1>11. StepTypes
  BY <1>1, <1>6, <1>7 DEF StepTypes
<1>12. m_iFreeBuffNum' = Cardinality(Idle')
  <2>1. Idle' = Idle \cup {b} /\ b \notin Idle
    BY <1>7 DEF Idle, NoItem
  <2> QED BY <2>1, IdleCount
<1>13. Held(b)' = h /\ \A c \in Bufs \ {b} : Held(c)' = Held(c)
  BY <1>8, <1>9, ChainsAfter
<1> QED BY <1>3, <1>6, <1>8, <1>9, <1>10, <1>11, <1>12, <1>13, OneBuffer

(* The socket takes n bytes, not all of them.                              *)
SentPartly(b, n) ==
  /\ n < m_pBuffItem[b].m_iBuffSize
  /\ DestroyObjects(First(Held(b), (m_pBuffItem[b].m_iBuffOffset + n) \div BLOCKSIZE))
  /\ m_pBuffItem' = [m_pBuffItem EXCEPT ![b] = Sent(b, n)]
  /\ UNCHANGED <<m_iFreeBuffNum, failed, next>>

LEMMA PartKeeps ==
  ASSUME IInv, NEW b \in Bufs, NEW n \in Nat \ {0}, failed = {}, SentPartly(b, n)
  PROVE  LET q == (m_pBuffItem[b].m_iBuffOffset + n) \div BLOCKSIZE IN
         /\ IInv' /\ q \in 0 .. Len(Held(b)) /\ Held(b)' = Beyond(Held(b), q)
         /\ m_pObjMem' = Without(First(Held(b), q))
         /\ m_pBuffItem'[b].m_iBuffOffset = (m_pBuffItem[b].m_iBuffOffset + n) % BLOCKSIZE
         /\ m_pBuffItem'[b].m_iBuffSize = m_pBuffItem[b].m_iBuffSize - n
         /\ \A c \in Bufs \ {b} : Held(c)' = Held(c)
<1> DEFINE off == m_pBuffItem[b].m_iBuffOffset
           sz  == m_pBuffItem[b].m_iBuffSize
           q   == (off + n) \div BLOCKSIZE
           r   == (off + n) % BLOCKSIZE
           l   == Len(Held(b))
           fr  == Reverse(First(Held(b), q)) \o Free
           h   == Beyond(Held(b), q)
<1>1. /\ Held(b) \in Row /\ m_pBuffItem \in [Bufs -> Item] /\ m_pBuffItem[b] \in Item
      /\ next \in [Bufs -> 0 .. Values - 1] /\ m_iFreeBuffNum = Cardinality(Idle)
      /\ l = BlocksOf(off + sz) /\ failed \subseteq Bufs
      /\ m_pBuffItem[b].m_iBuffIdx = Nil => m_pBuffItem[b] = NoItem
      /\ b \notin failed /\ Held(b) # <<>> => Last(Held(b)) = m_pBuffItem[b].m_iLastBuffIdx
  BY StateFacts
<1>2. /\ n < sz /\ DestroyObjects(First(Held(b), q))
      /\ m_pBuffItem' = [m_pBuffItem EXCEPT ![b] = Sent(b, n)]
      /\ m_iFreeBuffNum' = m_iFreeBuffNum /\ failed' = failed /\ next' = next
  BY DEF SentPartly
<1>3. off \in Nat /\ sz \in Nat /\ n \in Nat /\ n > 0
  BY <1>1, BlocksFinite DEF Item
<1>4. m_pBuffItem[b].m_iBuffIdx # Nil
  BY <1>1, <1>2, <1>3 DEF NoItem
<1>5. /\ q \in Nat /\ q < l /\ BlocksOf(r + (sz - n)) = l - q /\ r \in 0 .. BLOCKSIZE - 1
      /\ l \in Nat
  <2> HIDE DEF off, sz
  <2> DEFINE e == off + sz
             m == off + n
  <2>1. e \in Nat /\ m \in Nat /\ m < e /\ e - m = sz - n
    BY <1>2, <1>3
  <2> HIDE DEF e, m
  <2>2. /\ m \div BLOCKSIZE \in Nat /\ m \div BLOCKSIZE < BlocksOf(e)
        /\ BlocksOf((m % BLOCKSIZE) + (e - m)) = BlocksOf(e) - m \div BLOCKSIZE
    BY <2>1, BlocksLeft
  <2>3. l = BlocksOf(e) /\ q = m \div BLOCKSIZE /\ r = m % BLOCKSIZE
    BY <1>1 DEF e, m, off, sz
  <2>4. m % BLOCKSIZE \in 0 .. BLOCKSIZE - 1
    BY <2>1, Place
  <2>5. BlocksOf(e) \in Nat
    BY <2>1, Needed
  <2> QED BY <2>1, <2>2, <2>3, <2>4, <2>5
<1> HIDE DEF r, q, l
<1>6. q \in 0 .. Len(Held(b)) /\ q + 1 \in 1 .. Len(Held(b)) /\ Len(Held(b)) = l
  BY <1>5 DEF l
<1>7. /\ m_piDsInfo' \in Links /\ m_pObjMem' = Without(First(Held(b), q)) /\ m_pObjMem' \in Memory
      /\ \A x \in Blocks \ ToSet(Held(b)) : m_piDsInfo'[x] = m_piDsInfo[x]
      /\ Follows(m_piDsInfo', fr, m_iFreeHead')
      /\ Follows(m_piDsInfo', h, At(Held(b), q + 1))
      /\ ToSet(fr) \cap ToSet(h) = {}
      /\ ToSet(fr) \cup ToSet(h) = ToSet(Free) \cup ToSet(Held(b))
      /\ m_iUsedCount' \in Int /\ Len(fr) = BlockNum - m_iUsedCount'
  BY <1>2, <1>6, GivenUp
<1>8. /\ h \in Row /\ Len(h) = l - q
      /\ \A k \in 1 .. l - q : h[k] = Held(b)[q + k]
  <2>1. /\ h \in Row /\ Len(h) = Len(Held(b)) - q
        /\ \A k \in 1 .. Len(Held(b)) - q : h[k] = Held(b)[q + k]
    BY <1>1, <1>6, CutRow
  <2> HIDE DEF h
  <2> QED BY <1>6, <2>1
<1>9. h # <<>> /\ h[1] = At(Held(b), q + 1) /\ h[1] \in Blocks /\ h[1] # Nil
      /\ Last(h) = Last(Held(b))
  <2>1. Len(h) \in Nat \ {0} /\ 1 \in 1 .. Len(h)
    BY <1>5, <1>8
  <2>2. h[1] = Held(b)[q + 1] /\ h[l - q] = Held(b)[l]
    BY <1>5, <1>8, <2>1
  <2>3. h # <<>> /\ h[1] \in Blocks /\ h[1] # Nil
    BY <1>8, <2>1, RowFacts
  <2> QED BY <1>6, <1>8, <2>2, <2>3 DEF At, Last
<1>10. Sent(b, n) = [m_pBuffItem[b] EXCEPT !.m_iBuffIdx = h[1], !.m_iBuffOffset = r,
                                          !.m_iBuffSize = sz - n]
  BY DEF Sent, Held, h, r, q, off, sz
<1> HIDE DEF h, fr
<1>11. /\ m_pBuffItem'[b].m_iBuffIdx = h[1]
       /\ m_pBuffItem'[b].m_iLastBuffIdx = m_pBuffItem[b].m_iLastBuffIdx
       /\ m_pBuffItem'[b].m_iBuffOffset = r
       /\ m_pBuffItem'[b].m_iBuffSize = sz - n
       /\ \A c \in Bufs \ {b} : m_pBuffItem'[c] = m_pBuffItem[c]
  BY <1>1, <1>2, <1>10 DEF Item
<1>12. sz - n \in Nat /\ sz - n > 0
  BY <1>2, <1>3
<1>13. m_pBuffItem' \in [Bufs -> Item]
  <2>1. Sent(b, n) \in Item
    BY <1>1, <1>5, <1>9, <1>10, <1>12 DEF Item
  <2> QED BY <1>1, <1>2, <2>1
<1>14. Others(b)
  BY <1>2, <1>7, <1>11 DEF Others
<1>15. Shared(b, fr, h)
  BY <1>7, <1>9, <1>11 DEF Shared
<1>16. Fits(b, h)
  <2>1. Held(b) # <<>>
    BY <1>1, <1>6, RowFacts
  <2> QED BY <1>1, <1>2, <1>5, <1>8, <1>9, <1>11, <1>12, <2>1 DEF Fits
<1>17. StepTypes
  BY <1>1, <1>2, <1>7, <1>13 DEF StepTypes
<1>18. m_iFreeBuffNum' = Cardinality(Idle')
  <2>1. Idle' = Idle
    BY <1>4, <1>9, <1>11 DEF Idle
  <2> QED BY <1>1, <1>2, <2>1
<1>19. Held(b)' = h /\ \A c \in Bufs \ {b} : Held(c)' = Held(c)
  BY <1>14, <1>15, ChainsAfter
<1> QED BY <1>6, <1>7, <1>11, <1>14, <1>15, <1>16, <1>17, <1>18, <1>19, OneBuffer DEF h, q, r, off, sz

LEMMA SendCases ==
  ASSUME NEW b \in Bufs, NEW n, SendBufferToSocket(b, n)
  PROVE  \/ SentPartly(b, n)
         \/ /\ m_pBuffItem[b].m_iBuffIdx # Nil /\ DestroyObjects(Held(b))
            /\ n = m_pBuffItem[b].m_iBuffSize
            /\ m_pBuffItem' = [m_pBuffItem EXCEPT ![b] = NoItem]
            /\ m_iFreeBuffNum' = m_iFreeBuffNum + 1
            /\ UNCHANGED <<failed, next>>
BY DEF SendBufferToSocket, SentPartly, Held


LEMMA SendKeeps ==
  ASSUME IInv, NEW b \in Bufs, NEW n \in 1 .. m_pBuffItem[b].m_iBuffSize,
         SendBufferToSocket(b, n)
  PROVE  IInv'
<1>1. failed = {} /\ n \in Nat \ {0}
  <2>1. m_pBuffItem[b].m_iBuffSize \in Nat
    BY StateFacts DEF Item
  <2> QED BY <2>1 DEF SendBufferToSocket
<1>2. CASE SentPartly(b, n)
  BY <1>1, <1>2, PartKeeps
<1>3. CASE ~ SentPartly(b, n)
  <2>1. /\ m_pBuffItem[b].m_iBuffIdx # Nil /\ DestroyObjects(Held(b))
        /\ m_pBuffItem' = [m_pBuffItem EXCEPT ![b] = NoItem]
        /\ m_iFreeBuffNum' = m_iFreeBuffNum + 1
        /\ UNCHANGED <<failed, next>>
    BY <1>3, SendCases
  <2> QED BY <1>1, <2>1, WholeGone
<1> QED BY <1>2, <1>3

LEMMA FreeKeeps ==
  ASSUME IInv, NEW b \in Bufs, FreeBuffer(b)
  PROVE  /\ IInv' /\ \A c \in Bufs \ {b} : Held(c)' = Held(c)
         /\ \/ Held(b)' = <<>> /\ m_pObjMem' = Without(Held(b)) /\ m_pBuffItem'[b] = NoItem
            \/ Held(b)' = Held(b) /\ UNCHANGED <<m_pObjMem, m_pBuffItem>>
<1>1. failed \subseteq {b} /\ failed' = {} /\ next' = next
  BY DEF FreeBuffer
<1>2. CASE /\ m_pBuffItem[b].m_iBuffIdx # Nil /\ DestroyObjects(Held(b))
           /\ m_pBuffItem' = [m_pBuffItem EXCEPT ![b] = NoItem]
           /\ m_iFreeBuffNum' = m_iFreeBuffNum + 1
  <2>1. \A c \in Bufs \ {b} : c \notin failed' => c \notin failed
    BY <1>1
  <2>2. /\ IInv' /\ Held(b)' = <<>> /\ m_pObjMem' = Without(Held(b))
        /\ \A c \in Bufs \ {b} : Held(c)' = Held(c)
    BY <1>1, <1>2, <2>1, WholeGone
  <2>3. m_pBuffItem'[b] = NoItem
    BY <1>2, StateFacts
  <2> QED BY <2>2, <2>3
<1>3. CASE /\ m_pBuffItem[b].m_iBuffIdx = Nil
           /\ UNCHANGED <<pool, m_pObjMem, m_pBuffItem, m_iFreeBuffNum>>
  <2>0. /\ m_iFreeHead' = m_iFreeHead /\ m_piDsInfo' = m_piDsInfo /\ m_iUsedCount' = m_iUsedCount
        /\ m_pObjMem' = m_pObjMem /\ m_pBuffItem' = m_pBuffItem
        /\ m_iFreeBuffNum' = m_iFreeBuffNum
    BY <1>3 DEF pool
  <2>1. /\ Follows(m_piDsInfo, Free, m_iFreeHead)
        /\ Follows(m_piDsInfo, Held(b), m_pBuffItem[b].m_iBuffIdx)
        /\ ToSet(Held(b)) \cap ToSet(Free) = {}
        /\ m_piDsInfo \in Links /\ m_pObjMem \in Memory /\ m_pBuffItem \in [Bufs -> Item]
        /\ next \in [Bufs -> 0 .. Values - 1]
        /\ m_iUsedCount \in Nat /\ Len(Free) = BlockNum - m_iUsedCount
        /\ m_iFreeBuffNum = Cardinality(Idle)
    BY StateFacts
  <2>2. /\ m_pBuffItem[b].m_iBuffIdx = Nil <=> Held(b) = <<>>
        /\ m_pBuffItem[b].m_iBuffIdx = Nil => m_pBuffItem[b] = NoItem
        /\ Len(Held(b)) = BlocksOf(m_pBuffItem[b].m_iBuffOffset + m_pBuffItem[b].m_iBuffSize)
    BY StateFacts
  <2>3. Others(b)
    BY <1>1, <2>0 DEF Others
  <2>4. Shared(b, Free, Held(b))
    BY <2>0, <2>1 DEF Shared
  <2>5. Fits(b, Held(b))
    BY <1>3, <2>0, <2>2 DEF Fits
  <2>6. StepTypes
    BY <1>1, <2>0, <2>1 DEF StepTypes
  <2>7. m_iFreeBuffNum' = Cardinality(Idle')
    <3>1. Idle' = Idle
      BY <2>0 DEF Idle
    <3> QED BY <2>0, <2>1, <3>1
  <2>8. Held(b)' = Held(b) /\ \A c \in Bufs \ {b} : Held(c)' = Held(c)
    BY <2>3, <2>4, ChainsAfter
  <2> QED BY <2>0, <2>3, <2>4, <2>5, <2>6, <2>7, <2>8, OneBuffer
<1> QED BY <1>2, <1>3 DEF FreeBuffer, Held

LEMMA InitKeeps == Init => IInv
<1> SUFFICES ASSUME Init PROVE IInv
  OBVIOUS
<1> DEFINE s == [k \in 1 .. BlockNum |-> k - 1]
<1>0. BlockNum \in Nat \ {0} /\ BLOCKSIZE \in Nat \ {0} /\ Values \in Nat \ {0}
  BY BlocksFinite
<1>1. /\ m_iFreeHead = 0 /\ m_iUsedCount = 0 /\ failed = {}
      /\ m_piDsInfo = [i \in Blocks |-> IF i + 1 \in Blocks THEN i + 1 ELSE Nil]
      /\ m_pObjMem = [i \in Blocks |-> [k \in 0 .. BLOCKSIZE - 1 |-> Stale]]
      /\ m_pBuffItem = [b \in Bufs |-> NoItem]
      /\ m_iFreeBuffNum = Cardinality(Bufs)
      /\ next = [b \in Bufs |-> 0]
  BY DEF Init
<1>2. /\ s \in Seq(Blocks) /\ Len(s) = BlockNum /\ \A k \in 1 .. Len(s) : s[k] = k - 1
  BY <1>0 DEF Blocks
<1>3. s \in Row
  BY <1>0, <1>2, IsRow
<1>4. Follows(m_piDsInfo, s, m_iFreeHead)
  <2>1. 0 = At(s, 1)
    BY <1>0, <1>2 DEF At
  <2>2. ASSUME NEW k \in 1 .. Len(s) PROVE m_piDsInfo[s[k]] = At(s, k + 1)
    <3>1. s[k] = k - 1 /\ k - 1 \in Blocks /\ k - 1 + 1 = k
      BY <1>0, <1>2 DEF Blocks
    <3>2. m_piDsInfo[k - 1] = IF k \in Blocks THEN k ELSE Nil
      BY <1>1, <3>1
    <3>3. CASE k < BlockNum
      <4>1. k \in Blocks /\ k + 1 \in 1 .. Len(s) /\ k + 1 - 1 = k
        BY <1>0, <1>2, <3>3 DEF Blocks
      <4> HIDE DEF s
      <4>2. s[k + 1] = k
        BY <1>2, <4>1
      <4> QED BY <3>1, <3>2, <4>1, <4>2 DEF At
    <3>4. CASE k = BlockNum
      <4>1. k \notin Blocks /\ k + 1 \notin 1 .. Len(s)
        BY <1>0, <1>2, <3>4 DEF Blocks
      <4> HIDE DEF s
      <4> QED BY <3>1, <3>2, <4>1 DEF At
    <3> QED BY <1>0, <1>2, <3>3, <3>4
  <2> HIDE DEF s
  <2> QED BY <1>1, <1>3, <2>1, <2>2 DEF Follows
<1>5. Free = s
  <2> HIDE DEF s
  <2> QED BY <1>4, ChainIs DEF Free, Chain
<1>6. Follows(m_piDsInfo, <<>>, Nil)
  <2>0. <<>> \in Seq(Blocks) /\ Len(<<>>) = 0
    OBVIOUS
  <2>1. <<>> \in Row
    BY <2>0 DEF Row, IsInjective
  <2> QED BY <2>1 DEF Follows, At
<1>7. \A b \in Bufs : m_pBuffItem[b] = NoItem /\ m_pBuffItem[b].m_iBuffIdx = Nil
  BY <1>1 DEF NoItem
<1>8. \A b \in Bufs : Held(b) = <<>>
  BY <1>6, <1>7, ChainIs DEF Held, Chain
<1>9. ToSet(s) = Blocks
  <2>1. ASSUME NEW x \in Blocks PROVE x \in ToSet(s)
    <3>1. x \in Int /\ x + 1 \in 1 .. Len(s)
      BY <1>0, <1>2 DEF Blocks
    <3> HIDE DEF s
    <3>2. PICK k \in 1 .. Len(s) : k = x + 1
      BY <3>1
    <3>3. s[k] = k - 1 /\ s[k] \in ToSet(s)
      BY <1>2, <1>3, RowFacts
    <3> QED BY <3>1, <3>2, <3>3
  <2> HIDE DEF s
  <2> QED BY <1>3, <2>1, RowFacts
<1> HIDE DEF s
<1>10. ToSet(<<>>) = {} /\ Len(<<>>) = 0
  BY DEF ToSet
<1>11. BlocksOwned
  <2>1. {b \in Bufs : m_pBuffItem[b].m_iBuffIdx = Nil} = Bufs
    BY <1>7
  <2>2. UNION {ToSet(Held(b)) : b \in Bufs} = {}
    BY <1>8, <1>10
  <2>3. \A b \in Bufs : ToSet(Held(b)) = {}
    BY <1>8, <1>10
  <2>4. ToSet(Free) = Blocks /\ Len(Free) = BlockNum - m_iUsedCount
    BY <1>0, <1>1, <1>2, <1>5, <1>9
  <2>5. (UNION {ToSet(Held(b)) : b \in Bufs}) \cup ToSet(Free) = Blocks
    BY <2>2, <2>4
  <2>6. \A b \in Bufs : /\ ToSet(Held(b)) \cap ToSet(Free) = {}
                        /\ \A c \in Bufs \ {b} : ToSet(Held(b)) \cap ToSet(Held(c)) = {}
    BY <2>3
  <2>7. m_iFreeBuffNum = Cardinality({b \in Bufs : m_pBuffItem[b].m_iBuffIdx = Nil})
    BY <1>1, <2>1
  <2> QED BY <2>4, <2>5, <2>6, <2>7 DEF BlocksOwned, Free
<1>12. ItemsWhole
  <2>1. ASSUME NEW b \in Bufs
        PROVE  /\ Len(Held(b)) = BlocksOf(m_pBuffItem[b].m_iBuffOffset + m_pBuffItem[b].m_iBuffSize)
               /\ m_pBuffItem[b].m_iBuffIdx = Nil /\ m_pBuffItem[b] = NoItem
    <3>1. m_pBuffItem[b].m_iBuffOffset = 0 /\ m_pBuffItem[b].m_iBuffSize = 0
      BY <1>7 DEF NoItem
    <3>2. BlocksOf(0) = 0 /\ 0 + 0 = 0
      BY Needed
    <3>3. Len(Held(b)) = 0
      BY <1>8, <1>10
    <3> QED BY <1>7, <3>1, <3>2, <3>3
  <2> QED BY <2>1 DEF ItemsWhole
<1>13. ChainFits
  BY <1>12, <1>8 DEF ChainFits, ItemsWhole
<1>14. ChainsEnd
  BY <1>4, <1>5, <1>6, <1>7, <1>8 DEF ChainsEnd
<1>15. TypeOK
  <2>1. 0 \in Blocks /\ m_piDsInfo \in [Blocks -> Blocks \cup {Nil}]
    BY <1>0, <1>1 DEF Blocks
  <2>2. NoItem \in [m_iBuffIdx : Blocks \cup {Nil}, m_iLastBuffIdx : Blocks \cup {Nil},
                    m_iBuffOffset : 0 .. BLOCKSIZE - 1, m_iBuffSize : 0 .. BlockNum * BLOCKSIZE]
    <3>1. BlockNum * BLOCKSIZE \in Nat /\ 0 \in 0 .. BlockNum * BLOCKSIZE /\ 0 \in 0 .. BLOCKSIZE - 1
      BY <1>0
    <3> QED BY <3>1 DEF NoItem
  <2>3. m_iFreeBuffNum \in 0 .. Cardinality(Bufs)
    BY <1>1, BuffMngAssumption, FS_CardinalityType
  <2>4. m_pObjMem \in [Blocks -> [0 .. BLOCKSIZE - 1 -> {Stale} \cup (Bufs \X (0 .. Values - 1))]]
    BY <1>1
  <2> QED BY <1>0, <1>1, <2>1, <2>2, <2>3, <2>4 DEF TypeOK
<1> QED BY <1>11, <1>12, <1>13, <1>14, <1>15 DEF IInv, PoolRight

LEMMA NextKeeps == IInv /\ [Next]_vars => IInv'
<1> SUFFICES ASSUME IInv, [Next]_vars PROVE IInv'
  OBVIOUS
<1>1. ASSUME NEW b \in Bufs, NEW n \in Lens, AppendBuffer(b, n) PROVE IInv'
  BY <1>1, FirstKeeps, FirstFailsKeeps, MoreKeeps, MoreFailsKeeps DEF AppendBuffer
<1>2. ASSUME NEW b \in Bufs, NEW n \in 1 .. m_pBuffItem[b].m_iBuffSize, SendBufferToSocket(b, n)
      PROVE  IInv'
  BY <1>2, SendKeeps
<1>3. ASSUME NEW b \in Bufs, FreeBuffer(b) PROVE IInv'
  BY <1>3, FreeKeeps
<1>4. CASE UNCHANGED vars
  <2>0. /\ m_iFreeHead' = m_iFreeHead /\ m_piDsInfo' = m_piDsInfo /\ m_iUsedCount' = m_iUsedCount
        /\ m_pObjMem' = m_pObjMem /\ m_pBuffItem' = m_pBuffItem
        /\ m_iFreeBuffNum' = m_iFreeBuffNum /\ failed' = failed /\ next' = next
    BY <1>4 DEF vars, pool
  <2>1. Free' = Free /\ \A b \in Bufs : Held(b)' = Held(b)
    BY <2>0 DEF Free, Held, Chain
  <2>2. TypeOK'
    BY <2>0 DEF IInv, PoolRight, TypeOK
  <2>3. BlocksOwned'
    <3>1. {ToSet(Held(b)') : b \in Bufs} = {ToSet(Held(b)) : b \in Bufs}
      BY <2>1
    <3>2. BlocksOwned
      BY DEF IInv, PoolRight
    <3>3. (UNION {ToSet(Held(b)') : b \in Bufs}) \cup ToSet(Free') = Blocks
      BY <2>1, <3>1, <3>2 DEF BlocksOwned, Free
    <3>4. \A b \in Bufs : /\ ToSet(Held(b)') \cap ToSet(Free') = {}
                          /\ \A c \in Bufs \ {b} : ToSet(Held(b)') \cap ToSet(Held(c)') = {}
      BY <2>1, <3>2 DEF BlocksOwned, Free
    <3>5. Len(Free') = BlockNum - m_iUsedCount'
      BY <2>0, <2>1, <3>2 DEF BlocksOwned, Free
    <3>6. m_iFreeBuffNum' = Cardinality({b \in Bufs : m_pBuffItem'[b].m_iBuffIdx = Nil})
      BY <2>0, <3>2 DEF BlocksOwned
    <3> QED BY <3>3, <3>4, <3>5, <3>6 DEF BlocksOwned, Free
  <2>4. ChainFits'
    BY <2>0, <2>1 DEF IInv, PoolRight, ChainFits
  <2>5. ChainsEnd'
    BY <2>0, <2>1 DEF IInv, ChainsEnd
  <2>6. ItemsWhole'
    BY <2>0, <2>1 DEF IInv, ItemsWhole
  <2> QED BY <2>2, <2>3, <2>4, <2>5, <2>6 DEF IInv, PoolRight
<1> QED BY <1>1, <1>2, <1>3, <1>4 DEF Next

-----------------------------------------------------------------------------
(* The inductive invariant holds in every state: besides what PoolRight    *)
(* says, following the links from a buffer's first block, or from the      *)
(* first free one, always comes to an end (FreeObjList, IdxObjMng.cpp).    *)
THEOREM BuffInvariant == Spec => []IInv
BY InitKeeps, NextKeeps, PTL DEF Spec

(* However appends, sends and closings follow each other, and however      *)
(* appends fail: every block is free or belongs to one buffer, once, the   *)
(* counts by which SCC stops sending are right, and every buffer's chain   *)
(* has the blocks its bytes need and ends where the next append goes on.   *)
THEOREM BuffPoolRight == Spec => []PoolRight
<1>1. IInv => PoolRight
  BY DEF IInv
<1> QED BY <1>1, BuffInvariant, PTL


-----------------------------------------------------------------------------
(* The bytes of a buffer are at the places of its chain, BLOCKSIZE in a    *)
(* block.                                                                  *)
LEMMA Shift ==
  ASSUME NEW a \in Nat, NEW p \in Nat
  PROVE  /\ (BLOCKSIZE * a + p) \div BLOCKSIZE = a + p \div BLOCKSIZE
         /\ (BLOCKSIZE * a + p) % BLOCKSIZE = p % BLOCKSIZE
         /\ BLOCKSIZE * a + p \in Nat
<1> DEFINE q == p \div BLOCKSIZE
           r == p % BLOCKSIZE
<1>0. BLOCKSIZE \in Nat \ {0}
  BY BlocksFinite
<1>1. q \in Nat /\ r \in 0 .. BLOCKSIZE - 1 /\ p = BLOCKSIZE * q + r /\ BLOCKSIZE * q \in Nat
  BY <1>0, Place
<1> HIDE DEF q, r
<1>2. BLOCKSIZE * (a + q) = BLOCKSIZE * a + BLOCKSIZE * q /\ BLOCKSIZE * a \in Nat
  BY <1>0, <1>1
<1>3. BLOCKSIZE * a + p = BLOCKSIZE * (a + q) + r /\ BLOCKSIZE * a + p \in Nat /\ a + q \in Int
  BY <1>0, <1>1, <1>2
<1>4. (BLOCKSIZE * a + p) \div BLOCKSIZE = a + q /\ (BLOCKSIZE * a + p) % BLOCKSIZE = r
  BY <1>1, <1>3, OnlyPlace
<1> QED BY <1>3, <1>4 DEF q, r

LEMMA Within ==
  ASSUME NEW p \in Nat, NEW l \in Nat, p < BLOCKSIZE * l
  PROVE  p \div BLOCKSIZE + 1 \in 1 .. l
<1> DEFINE q == p \div BLOCKSIZE
<1>0. BLOCKSIZE \in Nat \ {0}
  BY BlocksFinite
<1>1. q \in Nat /\ BLOCKSIZE * q \in Nat /\ BLOCKSIZE * q <= p
  BY <1>0, Place
<1> HIDE DEF q
<1>2. q < l
  <2> SUFFICES ASSUME l <= q PROVE FALSE
    BY <1>1
  <2>1. BLOCKSIZE * l \in Nat
    BY <1>0
  <2>2. CASE l = q
    BY <1>1, <2>1, <2>2
  <2>3. CASE l < q
    BY <1>0, <1>1, <2>1, <2>3, Multiple
  <2> QED BY <1>1, <2>2, <2>3
<1>3. q + 1 \in 1 .. l
  BY <1>1, <1>2
<1> QED BY <1>3 DEF q

(* Two places are in the same block of a chain at the same byte only if    *)
(* they are the same.                                                      *)
LEMMA SamePlace ==
  ASSUME NEW p \in Nat, NEW q \in Nat, p \div BLOCKSIZE = q \div BLOCKSIZE,
         p % BLOCKSIZE = q % BLOCKSIZE
  PROVE  p = q
<1>1. /\ p = BLOCKSIZE * (p \div BLOCKSIZE) + (p % BLOCKSIZE)
      /\ q = BLOCKSIZE * (q \div BLOCKSIZE) + (q % BLOCKSIZE)
  BY Place
<1> QED BY <1>1

(* What is behind byte p of the chain h, in the memory m.                  *)
ByteIn(m, h, p) == m[h[p \div BLOCKSIZE + 1]][p % BLOCKSIZE]

(* Byte i of what is written from byte d of c on comes to byte k of block  *)
(* x.                                                                      *)
Hits(c, d, i, x, k) == c[(d + i - 1) \div BLOCKSIZE + 1] = x /\ (d + i - 1) % BLOCKSIZE = k

LEMMA WrittenFacts ==
  ASSUME NEW c, NEW d, NEW s, NEW x \in Blocks, NEW k \in 0 .. BLOCKSIZE - 1
  PROVE  LET hit == {i \in 1 .. Len(s) : Hits(c, d, i, x, k)} IN
         Written(c, d, s)[x][k] = IF hit = {} THEN m_pObjMem[x][k] ELSE s[CHOOSE i \in hit : TRUE]
BY DEF Written, Hits

LEMMA WrittenHit ==
  ASSUME NEW c, NEW d, NEW s, NEW x \in Blocks, NEW k \in 0 .. BLOCKSIZE - 1, NEW j \in 1 .. Len(s),
         Hits(c, d, j, x, k), \A i \in 1 .. Len(s) : Hits(c, d, i, x, k) => i = j
  PROVE  Written(c, d, s)[x][k] = s[j]
<1>1. {i \in 1 .. Len(s) : Hits(c, d, i, x, k)} = {j}
  OBVIOUS
<1> QED BY <1>1, WrittenFacts

LEMMA NotWritten ==
  ASSUME NEW c, NEW d, NEW s, NEW x \in Blocks, NEW k \in 0 .. BLOCKSIZE - 1,
         \A i \in 1 .. Len(s) : ~ Hits(c, d, i, x, k)
  PROVE  Written(c, d, s)[x][k] = m_pObjMem[x][k]
<1>1. {i \in 1 .. Len(s) : Hits(c, d, i, x, k)} = {}
  OBVIOUS
<1> QED BY <1>1, WrittenFacts

(* c is the chain h without its first blocks.                              *)
Behind(c, h, base) == \A i \in 1 .. Len(h) - base : c[i] = h[base + i]

(* What writing the bytes s from byte d of c on does to the chain h.       *)
Goes(h, e, c, d, s) ==
  /\ \A j \in 1 .. Len(s) : ByteIn(Written(c, d, s), h, e + j - 1) = s[j]
  /\ \A p \in 0 .. e - 1 : p < BLOCKSIZE * Len(h) =>
       ByteIn(Written(c, d, s), h, p) = ByteIn(m_pObjMem, h, p)
  /\ \A x \in Blocks \ ToSet(h) : \A k \in 0 .. BLOCKSIZE - 1 :
       Written(c, d, s)[x][k] = m_pObjMem[x][k]

(* Bytes that are written from byte d of c on are behind the first e of h, *)
(* and nothing else changes.                                               *)
LEMMA AppendWrites ==
  ASSUME NEW h \in Row, NEW base \in Nat, NEW c, NEW d \in 0 .. BLOCKSIZE - 1, NEW e \in Nat,
         e = BLOCKSIZE * base + d,
         Behind(c, h, base),
         NEW s, Len(s) \in Nat, e + Len(s) <= BLOCKSIZE * Len(h)
  PROVE  Goes(h, e, c, d, s)
<1> DEFINE l == Len(s)
           Block(j) == c[(d + j - 1) \div BLOCKSIZE + 1]
           Byte(j)  == (d + j - 1) % BLOCKSIZE
<1>0. BLOCKSIZE \in Nat \ {0} /\ Len(h) \in Nat /\ l \in Nat /\ BLOCKSIZE * Len(h) \in Nat
  <2>1. BLOCKSIZE \in Nat \ {0} /\ Len(h) \in Nat
    BY BlocksFinite, RowFacts
  <2> QED BY <2>1
<1>1. ASSUME NEW j \in 1 .. l
      PROVE  /\ e + j - 1 \in Nat /\ d + j - 1 \in Nat
             /\ e + j - 1 = BLOCKSIZE * base + (d + j - 1)
             /\ (e + j - 1) \div BLOCKSIZE = base + (d + j - 1) \div BLOCKSIZE
             /\ (e + j - 1) % BLOCKSIZE = Byte(j)
             /\ (e + j - 1) \div BLOCKSIZE + 1 \in 1 .. Len(h)
             /\ Block(j) = h[(e + j - 1) \div BLOCKSIZE + 1]
  <2> DEFINE p == d + j - 1
             q == e + j - 1
  <2>1. p \in Nat /\ q \in Nat /\ BLOCKSIZE * base \in Nat
    BY <1>0
  <2>2. q = BLOCKSIZE * base + p
    BY <1>0, <2>1
  <2>3. q < BLOCKSIZE * Len(h)
    BY <1>0
  <2> HIDE DEF q, p
  <2>4. q \div BLOCKSIZE = base + p \div BLOCKSIZE /\ q % BLOCKSIZE = p % BLOCKSIZE
    BY <2>1, <2>2, Shift
  <2>5. q \div BLOCKSIZE + 1 \in 1 .. Len(h)
    BY <1>0, <2>1, <2>3, Within
  <2>6. p \div BLOCKSIZE \in Nat
    BY <2>1, Place
  <2> DEFINE u == p \div BLOCKSIZE
             v == q \div BLOCKSIZE
  <2> HIDE DEF u, v
  <2>7. u \in Nat /\ v = base + u /\ v + 1 \in 1 .. Len(h)
    BY <2>4, <2>5, <2>6 DEF u, v
  <2>8. u + 1 \in 1 .. Len(h) - base /\ v + 1 = base + (u + 1)
    BY <1>0, <2>7
  <2>9. c[u + 1] = h[v + 1]
    <3>1. PICK i \in 1 .. Len(h) - base : i = u + 1
      BY <2>8
    <3>2. c[i] = h[base + i]
      BY DEF Behind
    <3>3. base + i = v + 1
      BY <2>8, <3>1
    <3> QED BY <3>1, <3>2, <3>3
  <2> QED BY <2>1, <2>2, <2>4, <2>5, <2>9 DEF p, q, u, v
<1>2. \A i, j \in 1 .. Len(h) : h[i] = h[j] => i = j
  BY RowFacts
<1> HIDE DEF l, Block, Byte
(* Where a place below BLOCKSIZE * Len(h) is hit.                          *)
<1>3. ASSUME NEW p \in Nat, p < BLOCKSIZE * Len(h), NEW j \in 1 .. l,
             Block(j) = h[p \div BLOCKSIZE + 1], Byte(j) = p % BLOCKSIZE
      PROVE  p = e + j - 1
  <2>1. p \div BLOCKSIZE + 1 \in 1 .. Len(h) /\ p \div BLOCKSIZE \in Nat
    BY <1>0, <1>3, Within, Place
  <2>2. (e + j - 1) \div BLOCKSIZE + 1 = p \div BLOCKSIZE + 1
    BY <1>1, <1>2, <1>3, <2>1
  <2>3. (e + j - 1) \div BLOCKSIZE \in Nat
    BY <1>1, Place
  <2>4. (e + j - 1) \div BLOCKSIZE = p \div BLOCKSIZE
    BY SMTT(30), <2>1, <2>2, <2>3
  <2> QED BY <1>1, <1>3, <2>4, SamePlace
<1>4. ASSUME NEW p \in Nat, p < BLOCKSIZE * Len(h)
      PROVE  h[p \div BLOCKSIZE + 1] \in Blocks /\ p % BLOCKSIZE \in 0 .. BLOCKSIZE - 1
  BY <1>0, <1>4, Within, Place, RowFacts
<1>6. ASSUME NEW j \in 1 .. l PROVE ByteIn(Written(c, d, s), h, e + j - 1) = s[j]
  <2> DEFINE p == e + j - 1
  <2>1. p \in Nat /\ p < BLOCKSIZE * Len(h)
    <3> DEFINE m == BLOCKSIZE * Len(h)
    <3>1. m \in Nat /\ e + l <= m
      BY <1>0 DEF l
    <3> HIDE DEF m
    <3>2. p \in Nat /\ p < m
      BY <1>0, <3>1
    <3> QED BY <3>2 DEF m
  <2>2. Block(j) = h[p \div BLOCKSIZE + 1] /\ Byte(j) = p % BLOCKSIZE
    BY <1>1
  <2>3. h[p \div BLOCKSIZE + 1] \in Blocks /\ p % BLOCKSIZE \in 0 .. BLOCKSIZE - 1
    BY <1>4, <2>1
  <2>4. ASSUME NEW i \in 1 .. l, Block(i) = h[p \div BLOCKSIZE + 1], Byte(i) = p % BLOCKSIZE
        PROVE  i = j
    <3>1. p = e + i - 1
      BY <1>3, <2>1, <2>4
    <3> QED BY <3>1, <1>0
  <2> HIDE DEF p
  <2>5. Written(c, d, s)[h[p \div BLOCKSIZE + 1]][p % BLOCKSIZE] = s[j]
    <3> DEFINE x == h[p \div BLOCKSIZE + 1]
               k == p % BLOCKSIZE
    <3>1. Hits(c, d, j, x, k) /\ j \in 1 .. Len(s)
      BY <2>2 DEF l, Block, Byte, Hits
    <3>2. x \in Blocks /\ k \in 0 .. BLOCKSIZE - 1
      BY <2>3
    <3>3. ASSUME NEW i \in 1 .. Len(s), Hits(c, d, i, x, k) PROVE i = j
      BY <2>4, <3>3 DEF l, Block, Byte, Hits
    <3> HIDE DEF x, k
    <3>4. Written(c, d, s)[x][k] = s[j]
      BY <3>1, <3>2, <3>3, WrittenHit
    <3> QED BY <3>4 DEF x, k
  <2> QED BY <2>5 DEF ByteIn, p
<1>7. ASSUME NEW p \in 0 .. e - 1, p < BLOCKSIZE * Len(h)
      PROVE  ByteIn(Written(c, d, s), h, p) = ByteIn(m_pObjMem, h, p)
  <2>1. p \in Nat
    OBVIOUS
  <2>2. h[p \div BLOCKSIZE + 1] \in Blocks /\ p % BLOCKSIZE \in 0 .. BLOCKSIZE - 1
    BY <1>4, <1>7, <2>1
  <2>3. ASSUME NEW j \in 1 .. l, Block(j) = h[p \div BLOCKSIZE + 1], Byte(j) = p % BLOCKSIZE
        PROVE  FALSE
    <3>1. p = e + j - 1
      BY <1>3, <1>7, <2>1, <2>3
    <3> QED BY <3>1, <1>0
  <2>4. Written(c, d, s)[h[p \div BLOCKSIZE + 1]][p % BLOCKSIZE]
          = m_pObjMem[h[p \div BLOCKSIZE + 1]][p % BLOCKSIZE]
    <3> DEFINE x == h[p \div BLOCKSIZE + 1]
               k == p % BLOCKSIZE
    <3>1. x \in Blocks /\ k \in 0 .. BLOCKSIZE - 1
      BY <2>2
    <3>2. ASSUME NEW i \in 1 .. Len(s), Hits(c, d, i, x, k) PROVE FALSE
      BY <2>3, <3>2 DEF l, Block, Byte, Hits
    <3> HIDE DEF x, k
    <3>3. Written(c, d, s)[x][k] = m_pObjMem[x][k]
      BY <3>1, <3>2, NotWritten
    <3> QED BY <3>3 DEF x, k
  <2> QED BY <2>4 DEF ByteIn
<1>8. ASSUME NEW x \in Blocks \ ToSet(h), NEW k \in 0 .. BLOCKSIZE - 1
      PROVE  Written(c, d, s)[x][k] = m_pObjMem[x][k]
  <2>1. ASSUME NEW j \in 1 .. l PROVE Block(j) # x
    <3>1. Block(j) \in ToSet(h)
      BY SMTT(30), <1>1, RowFacts
    <3> QED BY <3>1
  <2>2. \A j \in 1 .. Len(s) : ~ Hits(c, d, j, x, k)
    BY <2>1 DEF l, Block, Hits
  <2> QED BY <2>2, NotWritten
<1> QED BY <1>6, <1>7, <1>8 DEF l, Goes


-----------------------------------------------------------------------------
(* What a buffer holds, read block by block.                               *)
Cell       == {Stale} \cup (Bufs \X (0 .. Values - 1))
Content(b) == [k \in 1 .. m_pBuffItem[b].m_iBuffSize |->
                 ByteIn(m_pObjMem, Held(b), m_pBuffItem[b].m_iBuffOffset + k - 1)]
Contents   == [b \in Bufs |-> Content(b)]

LEMMA ContentFacts ==
  ASSUME IInv, NEW b \in Bufs
  PROVE  LET off == m_pBuffItem[b].m_iBuffOffset
             sz  == m_pBuffItem[b].m_iBuffSize
         IN /\ off \in Nat /\ sz \in Nat /\ off + sz <= BLOCKSIZE * Len(Held(b))
            /\ Len(Held(b)) \in Nat /\ BLOCKSIZE * Len(Held(b)) \in Nat
            /\ \A p \in 0 .. off + sz - 1 : /\ p \in Nat /\ p < BLOCKSIZE * Len(Held(b))
                                            /\ p \div BLOCKSIZE + 1 \in 1 .. Len(Held(b))
                                            /\ p % BLOCKSIZE \in 0 .. BLOCKSIZE - 1
            /\ Content(b) \in Seq(Cell) /\ Len(Content(b)) = sz
            /\ GetBuffer(b, sz) = Content(b)
<1> DEFINE off == m_pBuffItem[b].m_iBuffOffset
           sz  == m_pBuffItem[b].m_iBuffSize
           l   == Len(Held(b))
<1>1. /\ m_pBuffItem[b] \in Item /\ Held(b) \in Row /\ m_pObjMem \in Memory
      /\ l = BlocksOf(off + sz)
  BY StateFacts
<1>2. off \in Nat /\ sz \in Nat /\ l \in Nat /\ BLOCKSIZE \in Nat \ {0}
  BY <1>1, BlocksFinite, RowFacts DEF Item
<1>3. off + sz <= BLOCKSIZE * l /\ BLOCKSIZE * l \in Nat
  <2>1. off + sz \in Nat
    BY <1>2
  <2> QED BY <1>1, <2>1, Needed
<1>4. ASSUME NEW p \in 0 .. off + sz - 1
      PROVE  /\ p \in Nat /\ p < BLOCKSIZE * l /\ p \div BLOCKSIZE + 1 \in 1 .. l
             /\ p % BLOCKSIZE \in 0 .. BLOCKSIZE - 1
  <2> DEFINE w == BLOCKSIZE * l
  <2> HIDE DEF w, off, sz, l
  <2>0. off \in Nat /\ sz \in Nat /\ w \in Nat /\ off + sz <= w
    BY <1>2, <1>3 DEF w
  <2>1. p \in Nat /\ p < w
    BY <2>0
  <2>2. p < BLOCKSIZE * l
    BY <2>1 DEF w
  <2> QED BY <1>2, <2>1, <2>2, Within, Place
<1>5. ASSUME NEW p \in 0 .. off + sz - 1 PROVE ByteIn(m_pObjMem, Held(b), p) \in Cell
  <2>1. Held(b)[p \div BLOCKSIZE + 1] \in Blocks
    BY <1>1, <1>4, RowFacts
  <2> QED BY <1>1, <1>4, <2>1 DEF ByteIn, Memory, Cell
<1>6. Content(b) \in Seq(Cell) /\ Len(Content(b)) = sz
  <2>1. \A k \in 1 .. sz : off + k - 1 \in 0 .. off + sz - 1
    BY <1>2
  <2>2. \A k \in 1 .. sz : ByteIn(m_pObjMem, Held(b), off + k - 1) \in Cell
    BY <1>5, <2>1
  <2>3. Content(b) = [k \in 1 .. sz |-> ByteIn(m_pObjMem, Held(b), off + k - 1)]
    BY DEF Content
  <2> HIDE DEF off, sz
  <2> QED BY <1>2, <2>2, <2>3
<1>7. GetBuffer(b, sz) = Content(b)
  <2>1. Min({sz, sz}) = sz
    BY <1>2, MinOfTwo
  <2> QED BY <2>1 DEF GetBuffer, Content, ByteIn, Held
<1> QED BY <1>2, <1>3, <1>4, <1>6, <1>7

FifoRight == [b \in Bufs |-> GetBuffer(b, m_pBuffItem[b].m_iBuffSize)] = Contents

LEMMA FifoIs == IInv => FifoRight
BY ContentFacts DEF Contents, FifoRight

LEMMA Unchanged ==
  ASSUME IInv, NEW b \in Bufs, Held(b)' = Held(b),
         m_pBuffItem'[b].m_iBuffOffset = m_pBuffItem[b].m_iBuffOffset,
         m_pBuffItem'[b].m_iBuffSize = m_pBuffItem[b].m_iBuffSize,
         \A p \in 0 .. m_pBuffItem[b].m_iBuffOffset + m_pBuffItem[b].m_iBuffSize - 1 :
           ByteIn(m_pObjMem', Held(b), p) = ByteIn(m_pObjMem, Held(b), p)
  PROVE  Content(b)' = Content(b)
<1> DEFINE off == m_pBuffItem[b].m_iBuffOffset
           sz  == m_pBuffItem[b].m_iBuffSize
<1>1. off \in Nat /\ sz \in Nat
  BY ContentFacts
<1>2. \A k \in 1 .. sz : off + k - 1 \in 0 .. off + sz - 1
  BY <1>1
<1>3. \A k \in 1 .. sz : ByteIn(m_pObjMem', Held(b), off + k - 1) = ByteIn(m_pObjMem, Held(b), off + k - 1)
  BY <1>2
<1>4. Content(b)' = [k \in 1 .. sz |-> ByteIn(m_pObjMem', Held(b), off + k - 1)]
  BY DEF Content
<1>5. Content(b) = [k \in 1 .. sz |-> ByteIn(m_pObjMem, Held(b), off + k - 1)]
  BY DEF Content
<1> HIDE DEF off, sz
<1> QED BY <1>3, <1>4, <1>5

(* Only blocks of H, none of which is another buffer's, were written to or *)
(* given up.                                                               *)
LEMMA OthersUnchanged ==
  ASSUME IInv, NEW b \in Bufs, NEW H,
         \A c \in Bufs \ {b} : /\ Held(c)' = Held(c) /\ m_pBuffItem'[c] = m_pBuffItem[c]
                               /\ ToSet(Held(c)) \cap H = {},
         \A x \in Blocks \ H : \A k \in 0 .. BLOCKSIZE - 1 : m_pObjMem'[x][k] = m_pObjMem[x][k]
  PROVE  \A c \in Bufs \ {b} : Content(c)' = Content(c)
<1> SUFFICES ASSUME NEW c \in Bufs \ {b} PROVE Content(c)' = Content(c)
  OBVIOUS
<1>1. /\ Held(c)' = Held(c) /\ m_pBuffItem'[c] = m_pBuffItem[c]
      /\ ToSet(Held(c)) \cap H = {}
  OBVIOUS
<1>2. Held(c) \in Row
  BY StateFacts
<1>3. ASSUME NEW p \in 0 .. m_pBuffItem[c].m_iBuffOffset + m_pBuffItem[c].m_iBuffSize - 1
      PROVE  ByteIn(m_pObjMem', Held(c), p) = ByteIn(m_pObjMem, Held(c), p)
  <2>1. p \div BLOCKSIZE + 1 \in 1 .. Len(Held(c)) /\ p % BLOCKSIZE \in 0 .. BLOCKSIZE - 1
    BY ContentFacts
  <2>2. Held(c)[p \div BLOCKSIZE + 1] \in Blocks \ H
    BY <1>1, <1>2, <2>1, RowFacts
  <2> QED BY <2>1, <2>2 DEF ByteIn
<1> QED BY <1>1, <1>3, Unchanged

LEMMA Appended ==
  ASSUME NEW S, NEW s \in Seq(S), NEW t \in Seq(S), NEW u \in Seq(S), Len(u) = Len(s) + Len(t),
         \A k \in 1 .. Len(s) : u[k] = s[k],
         \A j \in 1 .. Len(t) : u[Len(s) + j] = t[j]
  PROVE  u = s \o t
<1>1. s \o t \in Seq(S) /\ Len(s \o t) = Len(s) + Len(t)
  OBVIOUS
<1>2. ASSUME NEW k \in 1 .. Len(u) PROVE u[k] = (s \o t)[k]
  <2>1. CASE k \in 1 .. Len(s)
    BY <2>1
  <2>2. CASE k \notin 1 .. Len(s)
    <3>1. k - Len(s) \in 1 .. Len(t) /\ Len(s) + (k - Len(s)) = k
      BY <2>2
    <3>2. u[Len(s) + (k - Len(s))] = t[k - Len(s)]
      BY <3>1
    <3>3. (s \o t)[k] = t[k - Len(s)]
      BY <2>2, <3>1
    <3> QED BY <3>1, <3>2, <3>3
  <2> QED BY <2>1, <2>2
<1> QED BY <1>1, <1>2


HeldFits(b) ==
  /\ Held(b) \in Row
  /\ m_pBuffItem[b].m_iBuffOffset + m_pBuffItem[b].m_iBuffSize <= BLOCKSIZE * Len(Held(b))
  /\ Content(b) \in Seq(Cell) /\ Len(Content(b)) = m_pBuffItem[b].m_iBuffSize

LEMMA FitsBefore == IInv => \A b \in Bufs : HeldFits(b)
BY ContentFacts, StateFacts DEF HeldFits

LEMMA FitsAfter == IInv' => (\A b \in Bufs : HeldFits(b))'
BY FitsBefore, PTL

(* An append: n bytes are written behind the e = BLOCKSIZE * base + d that *)
(* are in front of the end, from byte d of the last blocks c on.           *)
LEMMA PutBytes ==
  ASSUME IInv, IInv', NEW b \in Bufs, NEW n \in Lens, NEW h, h = Held(b)',
         NEW base \in Nat, NEW c, NEW d \in 0 .. BLOCKSIZE - 1,
         m_pBuffItem[b].m_iBuffOffset + m_pBuffItem[b].m_iBuffSize = BLOCKSIZE * base + d,
         \A i \in 1 .. Len(Held(b)) : h[i] = Held(b)[i],
         Behind(c, h, base),
         m_pObjMem' = Written(c, d, Bytes(b, n)),
         m_pBuffItem'[b].m_iBuffOffset = m_pBuffItem[b].m_iBuffOffset,
         m_pBuffItem'[b].m_iBuffSize = m_pBuffItem[b].m_iBuffSize + n,
         \A x \in Bufs \ {b} : Held(x)' = Held(x) /\ m_pBuffItem'[x] = m_pBuffItem[x]
  PROVE  /\ Content(b)' = Content(b) \o Bytes(b, n)
         /\ \A x \in Bufs \ {b} : Content(x)' = Content(x)
<1> DEFINE off == m_pBuffItem[b].m_iBuffOffset
           sz  == m_pBuffItem[b].m_iBuffSize
           e   == off + sz
           s   == Bytes(b, n)
           mem == m_pObjMem'
           u   == Content(b)'
<1>0. BLOCKSIZE \in Nat \ {0} /\ n \in Nat
  BY BlocksFinite, LensFacts
<1>1. /\ off \in Nat /\ sz \in Nat /\ e \in Nat
      /\ \A p \in 0 .. off + sz - 1 : p \in Nat /\ p \div BLOCKSIZE + 1 \in 1 .. Len(Held(b))
      /\ Content(b) \in Seq(Cell) /\ Len(Content(b)) = sz
  BY ContentFacts
<1>2. s \in Seq(Bufs \X (0 .. Values - 1)) /\ Len(s) = n
  BY <1>0, BytesFacts
<1>3. /\ Held(b)' \in Row
      /\ m_pBuffItem'[b].m_iBuffOffset + m_pBuffItem'[b].m_iBuffSize <= BLOCKSIZE * Len(Held(b)')
      /\ Content(b)' \in Seq(Cell) /\ Len(Content(b)') = m_pBuffItem'[b].m_iBuffSize
  BY FitsAfter DEF HeldFits
<1>4. h \in Row /\ u \in Seq(Cell) /\ Len(u) = sz + n
      /\ off + (sz + n) <= BLOCKSIZE * Len(h)
  BY <1>3
<1> HIDE DEF e, s, mem, u, off, sz
<1>5. /\ e + Len(s) <= BLOCKSIZE * Len(h) /\ e = BLOCKSIZE * base + d
      /\ e = off + sz
  <2> DEFINE w == BLOCKSIZE * Len(h)
  <2> HIDE DEF w
  <2>1. off + (sz + n) <= w
    BY <1>4 DEF w
  <2>2. e = off + sz
    BY DEF e
  <2>3. e + n <= w
    <3>1. off + (sz + n) = (off + sz) + n
      BY <1>0, <1>1
    <3> QED BY <2>1, <2>2, <3>1
  <2>4. e = BLOCKSIZE * base + d
    BY DEF e, off, sz
  <2> QED BY <1>2, <2>2, <2>3, <2>4 DEF w
<1>6. mem = Written(c, d, s)
  BY DEF mem, s
<1>7. /\ \A j \in 1 .. n : ByteIn(mem, h, e + j - 1) = s[j]
      /\ \A p \in 0 .. e - 1 : p < BLOCKSIZE * Len(h) => ByteIn(mem, h, p) = ByteIn(m_pObjMem, h, p)
      /\ \A x \in Blocks \ ToSet(h) : \A k \in 0 .. BLOCKSIZE - 1 : mem[x][k] = m_pObjMem[x][k]
  <2>1. Len(s) \in Nat
    BY <1>0, <1>2
  <2>2. Goes(h, e, c, d, s)
    BY <1>1, <1>4, <1>5, <2>1, AppendWrites
  <2> QED BY <1>2, <1>6, <2>2 DEF Goes
<1>8. u = [k \in 1 .. sz + n |-> ByteIn(mem, h, off + k - 1)]
  BY DEF u, Content, mem, off, sz
<1>9. ASSUME NEW k \in 1 .. sz PROVE u[k] = Content(b)[k]
  <2> DEFINE p == off + k - 1
  <2>1. p \in 0 .. off + sz - 1 /\ k \in 1 .. sz + n /\ p \in 0 .. e - 1
    BY <1>0, <1>1, <1>5
  <2>2. u[k] = ByteIn(mem, h, p)
    BY <1>8, <2>1
  <2>3. Content(b)[k] = ByteIn(m_pObjMem, Held(b), p)
    BY DEF Content, off, sz
  <2>4. p < BLOCKSIZE * Len(h)
    <3> DEFINE w == BLOCKSIZE * Len(h)
    <3> HIDE DEF w
    <3>1. e + n <= w
      BY <1>2, <1>5 DEF w
    <3>2. Len(h) \in Nat
      BY <1>4, RowFacts
    <3>3. w \in Nat
      BY <1>0, <3>2 DEF w
    <3> HIDE DEF p
    <3>4. p < w
      BY <1>0, <1>1, <2>1, <3>1, <3>3
    <3> QED BY <3>4 DEF w
  <2>5. p \div BLOCKSIZE + 1 \in 1 .. Len(Held(b))
    BY <1>1, <2>1
  <2> HIDE DEF p
  <2>6. ByteIn(mem, h, p) = ByteIn(m_pObjMem, h, p)
    BY <1>7, <2>1, <2>4
  <2>7. ByteIn(m_pObjMem, h, p) = ByteIn(m_pObjMem, Held(b), p)
    BY <2>5 DEF ByteIn
  <2> QED BY <2>2, <2>3, <2>6, <2>7
<1>10. ASSUME NEW j \in 1 .. n PROVE u[sz + j] = s[j]
  <2>1. sz + j \in 1 .. sz + n /\ off + (sz + j) - 1 = e + j - 1
    BY SMTT(30), <1>0, <1>1, <1>5
  <2>2. u[sz + j] = ByteIn(mem, h, off + (sz + j) - 1)
    BY <1>8, <2>1
  <2>3. ByteIn(mem, h, e + j - 1) = s[j]
    BY <1>7
  <2> QED BY <2>1, <2>2, <2>3
<1>11. u = Content(b) \o s
  <2>1. s \in Seq(Cell)
    BY <1>2 DEF Cell
  <2>2. Len(u) = Len(Content(b)) + Len(s)
    BY <1>1, <1>2, <1>4
  <2>3. \A k \in 1 .. Len(Content(b)) : u[k] = Content(b)[k]
    BY <1>1, <1>9
  <2>4. \A j \in 1 .. Len(s) : u[Len(Content(b)) + j] = s[j]
    BY <1>1, <1>2, <1>10
  <2> QED BY <1>1, <1>4, <2>1, <2>2, <2>3, <2>4, Appended
<1>12. \A x \in Bufs \ {b} : Content(x)' = Content(x)
  <2>1. \A x \in Bufs \ {b} : ToSet(Held(x)) \cap ToSet(h) = {}
    <3>1. \A x \in Bufs \ {b} : ToSet(Held(b)') \cap ToSet(Held(x)') = {}
      BY DEF IInv, PoolRight, BlocksOwned
    <3> QED BY <3>1
  <2>2. \A x \in Blocks \ ToSet(h) : \A k \in 0 .. BLOCKSIZE - 1 : m_pObjMem'[x][k] = m_pObjMem[x][k]
    BY <1>7 DEF mem
  <2>3. \A x \in Bufs \ {b} : /\ Held(x)' = Held(x) /\ m_pBuffItem'[x] = m_pBuffItem[x]
                               /\ ToSet(Held(x)) \cap ToSet(h) = {}
    BY <2>1
  <2> QED BY <2>2, <2>3, OthersUnchanged
<1> QED BY <1>11, <1>12 DEF u, s


(* A step that puts n bytes into b, for the buffers' bytes alone.          *)
Puts(b, n) ==
  /\ Content(b)' = Content(b) \o Bytes(b, n)
  /\ \A x \in Bufs \ {b} : Content(x)' = Content(x)

LEMMA FirstPuts ==
  ASSUME IInv, NEW b \in Bufs, NEW n \in Lens, failed = {}, AppendFirst(b, n)
  PROVE  Puts(b, n)
<1> DEFINE new == First(Free, BlocksOf(n))
<1>1. /\ m_pBuffItem[b].m_iBuffIdx = Nil
      /\ m_pObjMem' = Written(new, 0, Bytes(b, n))
      /\ m_pBuffItem' = [m_pBuffItem EXCEPT ![b] =
           [m_iBuffIdx |-> new[1], m_iLastBuffIdx |-> Last(new),
            m_iBuffOffset |-> 0, m_iBuffSize |-> n]]
  BY DEF AppendFirst, Free
<1>2. IInv' /\ Held(b)' = new /\ \A c \in Bufs \ {b} : Held(c)' = Held(c)
  BY FirstKeeps
<1> HIDE DEF new
<1>3. m_pBuffItem[b] = NoItem /\ Held(b) = <<>> /\ m_pBuffItem \in [Bufs -> Item]
  BY <1>1, StateFacts
<1>4. /\ m_pBuffItem[b].m_iBuffOffset = 0 /\ m_pBuffItem[b].m_iBuffSize = 0
      /\ n \in Nat /\ BLOCKSIZE \in Nat \ {0}
  BY <1>3, LensFacts, BlocksFinite DEF NoItem
<1>5. /\ m_pBuffItem'[b].m_iBuffOffset = m_pBuffItem[b].m_iBuffOffset
      /\ m_pBuffItem'[b].m_iBuffSize = m_pBuffItem[b].m_iBuffSize + n
      /\ \A x \in Bufs \ {b} : m_pBuffItem'[x] = m_pBuffItem[x]
  BY <1>1, <1>3, <1>4
<1>6. m_pBuffItem[b].m_iBuffOffset + m_pBuffItem[b].m_iBuffSize = BLOCKSIZE * 0 + 0
  BY <1>4
<1>7. new \in Row
  BY <1>2, FitsAfter DEF HeldFits
<1>8. Behind(new, new, 0)
  <2>1. Len(new) \in Nat
    BY <1>7, RowFacts
  <2> QED BY <2>1 DEF Behind
<1>9. \A i \in 1 .. Len(Held(b)) : new[i] = Held(b)[i]
  BY <1>3
<1>10. 0 \in Nat /\ 0 \in 0 .. BLOCKSIZE - 1
  BY <1>4
<1> QED BY <1>1, <1>2, <1>5, <1>6, <1>8, <1>9, <1>10, PutBytes DEF Puts

(* The blocks the next byte goes to, the last one of b first if there is   *)
(* room in it.                                                             *)
LEMMA TakingFacts ==
  ASSUME IInv, NEW b \in Bufs, failed = {}, m_pBuffItem[b].m_iBuffIdx # Nil, NEW new \in Row,
         NEW h, h = Held(b) \o new
  PROVE  LET d    == BlockDataLen(b)
             base == IF d > 0 THEN Len(Held(b)) - 1 ELSE Len(Held(b))
         IN /\ base \in Nat /\ d \in 0 .. BLOCKSIZE - 1
            /\ m_pBuffItem[b].m_iBuffOffset + m_pBuffItem[b].m_iBuffSize = BLOCKSIZE * base + d
            /\ Behind(Taking(b, new), h, base)
            /\ Len(Taking(b, new)) = (IF d > 0 THEN 1 ELSE 0) + Len(new)
            /\ \A i \in 1 .. Len(Held(b)) : h[i] = Held(b)[i]
<1> DEFINE d    == BlockDataLen(b)
           l    == Len(Held(b))
           base == IF d > 0 THEN l - 1 ELSE l
           last == m_pBuffItem[b].m_iLastBuffIdx
           c    == Taking(b, new)
           e    == m_pBuffItem[b].m_iBuffOffset + m_pBuffItem[b].m_iBuffSize
<1>1. Held(b) \in Row /\ Held(b) # <<>> /\ Last(Held(b)) = last
  BY StateFacts
<1>2. /\ l \in Nat /\ l > 0 /\ Held(b) \in Seq(Blocks) /\ new \in Seq(Blocks) /\ Len(new) \in Nat
      /\ Held(b)[l] = last
  BY <1>1, RowFacts DEF Last
<1>3. d \in 0 .. BLOCKSIZE - 1 /\ e = BLOCKSIZE * base + d
  <2>1. 0 \in Nat
    OBVIOUS
  <2> QED BY <2>1, MoreFacts
<1>4. base \in Nat
  BY <1>2, <1>3, BlocksFinite
<1>5. /\ Len(h) = l + Len(new)
      /\ \A i \in 1 .. l : h[i] = Held(b)[i]
      /\ \A i \in 1 .. Len(new) : h[l + i] = new[i]
  BY <1>2
<1>6. c = (IF d > 0 THEN <<last>> ELSE <<>>) \o new
  BY DEF Taking
<1> HIDE DEF d, l, last, c
<1>7. CASE d > 0
  <2>1. /\ c = <<last>> \o new /\ base = l - 1 /\ h[l] = last
    BY <1>2, <1>5, <1>6, <1>7 DEF l
  <2>2. Len(c) = 1 + Len(new) /\ c[1] = last /\ \A i \in 1 .. Len(new) : c[1 + i] = new[i]
    BY <1>2, <2>1
  <2>3. ASSUME NEW i \in 1 .. Len(h) - base PROVE c[i] = h[base + i]
    <3>1. CASE i = 1
      <4>1. base + i = l
        BY <1>2, <2>1, <3>1
      <4> QED BY <2>1, <2>2, <3>1, <4>1
    <3>2. CASE i # 1
      <4>1. i - 1 \in 1 .. Len(new) /\ 1 + (i - 1) = i /\ l + (i - 1) = base + i
        BY <1>2, <1>5, <2>1, <3>2
      <4>2. c[1 + (i - 1)] = new[i - 1] /\ h[l + (i - 1)] = new[i - 1]
        BY <1>5, <2>2, <4>1
      <4> QED BY <4>1, <4>2
    <3> QED BY <3>1, <3>2
  <2> QED BY <1>3, <1>4, <1>5, <1>7, <2>2, <2>3 DEF Behind, c, d, l
<1>8. CASE ~ (d > 0)
  <2>1. c = new /\ base = l
    BY <1>2, <1>6, <1>8
  <2>2. ASSUME NEW i \in 1 .. Len(h) - base PROVE c[i] = h[base + i]
    <3>1. i \in 1 .. Len(new)
      BY <1>2, <1>5, <2>1
    <3> QED BY <1>5, <2>1, <3>1
  <2> QED BY <1>2, <1>3, <1>4, <1>5, <1>8, <2>1, <2>2 DEF Behind, c, d, l
<1> QED BY <1>7, <1>8

LEMMA MorePuts ==
  ASSUME IInv, NEW b \in Bufs, NEW n \in Lens, failed = {}, AppendMore(b, n)
  PROVE  Puts(b, n)
<1> DEFINE new  == First(Free, MoreBlocks(b, n))
           d    == BlockDataLen(b)
           base == IF d > 0 THEN Len(Held(b)) - 1 ELSE Len(Held(b))
           last == m_pBuffItem[b].m_iLastBuffIdx
           c    == Taking(b, new)
<1>1. /\ m_pBuffItem[b].m_iBuffIdx # Nil /\ MoreBlocks(b, n) <= Len(Free)
      /\ m_pObjMem' = Written(c, d, Bytes(b, n))
      /\ m_pBuffItem' = [m_pBuffItem EXCEPT
          ![b].m_iLastBuffIdx = IF new = <<>> THEN last ELSE Last(new),
          ![b].m_iBuffSize = @ + n]
  BY DEF AppendMore, Free
<1>2. IInv' /\ Held(b)' = Held(b) \o new /\ \A x \in Bufs \ {b} : Held(x)' = Held(x)
  BY MoreKeeps
<1>3. new \in Row
  <2>1. Free \in Row /\ Len(Free) \in Nat /\ n \in Nat
    BY StateFacts, RowFacts, LensFacts
  <2>2. MoreBlocks(b, n) \in Nat
    BY <2>1, MoreFacts
  <2> QED BY <1>1, <2>1, <2>2, CutRow
<1> HIDE DEF new
<1>4. m_pBuffItem \in [Bufs -> Item] /\ m_pBuffItem[b] \in Item
  BY StateFacts
<1>5. /\ m_pBuffItem'[b].m_iBuffOffset = m_pBuffItem[b].m_iBuffOffset
      /\ m_pBuffItem'[b].m_iBuffSize = m_pBuffItem[b].m_iBuffSize + n
      /\ \A x \in Bufs \ {b} : m_pBuffItem'[x] = m_pBuffItem[x]
  BY <1>1, <1>4 DEF Item
<1> DEFINE h == Held(b) \o new
<1> HIDE DEF h
<1>6. h = Held(b) \o new
  BY DEF h
<1>7. /\ base \in Nat /\ d \in 0 .. BLOCKSIZE - 1
      /\ m_pBuffItem[b].m_iBuffOffset + m_pBuffItem[b].m_iBuffSize = BLOCKSIZE * base + d
      /\ Behind(c, h, base)
      /\ \A i \in 1 .. Len(Held(b)) : h[i] = Held(b)[i]
  BY <1>1, <1>3, <1>6, TakingFacts
<1>8. h = Held(b)'
  BY <1>2, <1>6
<1> HIDE DEF base, d, c
<1> QED BY <1>1, <1>2, <1>5, <1>7, <1>8, PutBytes DEF Puts


(* An append that is refused leaves every buffer's bytes alone.            *)
Stays == \A x \in Bufs : Content(x)' = Content(x)

LEMMA FirstFailsStays ==
  ASSUME IInv, NEW b \in Bufs, NEW n \in Lens, failed = {}, AppendFirstFails(b, n)
  PROVE  Stays
<1>1. m_pObjMem' = m_pObjMem /\ m_pBuffItem' = m_pBuffItem
  BY DEF AppendFirstFails
<1>2. \A x \in Bufs : Held(x)' = Held(x)
  BY FirstFailsKeeps
<1> QED BY <1>1, <1>2, Unchanged DEF Stays

LEMMA MoreFailsStays ==
  ASSUME IInv, NEW b \in Bufs, NEW n \in Lens, failed = {}, AppendMoreFails(b, n)
  PROVE  Stays
<1> DEFINE last == m_pBuffItem[b].m_iLastBuffIdx
           last2 == IF Free = <<>> THEN last ELSE Last(Free)
           d    == BlockDataLen(b)
           c    == Taking(b, <<>>)
           m    == Len(c) * BLOCKSIZE - d
           s    == First(Bytes(b, n), m)
           h    == Held(b)
           base == IF d > 0 THEN Len(h) - 1 ELSE Len(h)
           e    == m_pBuffItem[b].m_iBuffOffset + m_pBuffItem[b].m_iBuffSize
<1>1. /\ m_pBuffItem[b].m_iBuffIdx # Nil /\ MoreBlocks(b, n) > Len(Free)
      /\ m_pObjMem' = Written(c, d, s)
      /\ m_pBuffItem' = [m_pBuffItem EXCEPT ![b].m_iLastBuffIdx = last2]
  BY DEF AppendMoreFails, Free
<1>2. \A x \in Bufs : Held(x)' = Held(x)
  BY MoreFailsKeeps
<1>3. n \in Nat /\ BLOCKSIZE \in Nat \ {0} /\ h \in Row /\ Len(h) \in Nat
  BY LensFacts, BlocksFinite, StateFacts, RowFacts
<1>4. /\ base \in Nat /\ d \in 0 .. BLOCKSIZE - 1 /\ e = BLOCKSIZE * base + d
      /\ Behind(c, h, base) /\ Len(c) = IF d > 0 THEN 1 ELSE 0
  <2>0. <<>> \in Seq(Blocks) /\ Len(<<>>) = 0
    OBVIOUS
  <2>1. <<>> \in Row
    BY <2>0 DEF Row, IsInjective
  <2>2. h \o <<>> = h
    BY <1>3, RowFacts
  <2>3. /\ base \in Nat /\ d \in 0 .. BLOCKSIZE - 1 /\ e = BLOCKSIZE * base + d
        /\ Behind(c, h, base) /\ Len(c) = (IF d > 0 THEN 1 ELSE 0) + Len(<<>>)
    BY <1>1, <2>1, <2>2, TakingFacts
  <2> QED BY <2>0, <2>3
<1>5. ~ (n <= (IF d > 0 THEN BLOCKSIZE - d ELSE 0))
  <2>1. Len(Free) \in Nat
    BY StateFacts, RowFacts
  <2>2. MoreBlocks(b, n) # 0
    BY <1>1, <1>3, <2>1, MoreFacts
  <2> QED BY <1>3, <2>2, MoreFacts
<1>6. e \in Nat
  <2>1. m_pBuffItem[b].m_iBuffOffset \in Nat /\ m_pBuffItem[b].m_iBuffSize \in Nat
    BY ContentFacts
  <2> QED BY <2>1
<1>7. Bytes(b, n) \in Seq(Bufs \X (0 .. Values - 1)) /\ Len(Bytes(b, n)) = n
  BY <1>3, BytesFacts
<1> HIDE DEF c, d, h, e
<1>8. m \in 0 .. n /\ e + m <= BLOCKSIZE * Len(h)
  <2>1. CASE d > 0
    <3>1. m = BLOCKSIZE - d /\ base = Len(h) - 1
      BY <1>3, <1>4, <2>1
    <3>2. BLOCKSIZE * (Len(h) - 1) = BLOCKSIZE * Len(h) - BLOCKSIZE /\ BLOCKSIZE * Len(h) \in Int
      BY <1>3
    <3> DEFINE w == BLOCKSIZE * Len(h)
    <3>3. e = w - BLOCKSIZE + d /\ w \in Int
      BY <1>4, <3>1, <3>2
    <3> HIDE DEF w, m
    <3>4. m \in 0 .. n /\ e + m <= w
      BY <1>3, <1>4, <1>5, <2>1, <3>1, <3>3
    <3> QED BY <3>4 DEF w
  <2>2. CASE ~ (d > 0)
    <3>1. m = 0 /\ base = Len(h) /\ d = 0
      BY <1>3, <1>4, <2>2
    <3>2. BLOCKSIZE * Len(h) \in Int
      BY <1>3
    <3> HIDE DEF m
    <3> QED BY <1>3, <1>4, <1>6, <3>1, <3>2
  <2> QED BY <2>1, <2>2
<1> HIDE DEF m
<1>9. Len(s) = m
  BY <1>3, <1>7, <1>8 DEF First
<1> HIDE DEF s, base
<1>10. Goes(h, e, c, d, s)
  <2>1. Len(s) \in Nat /\ e + Len(s) <= BLOCKSIZE * Len(h)
    BY <1>8, <1>9
  <2> QED BY <1>3, <1>4, <1>6, <2>1, AppendWrites
<1>11. m_pBuffItem \in [Bufs -> Item] /\ m_pBuffItem[b] \in Item
  BY StateFacts
<1>12. /\ m_pBuffItem'[b].m_iBuffOffset = m_pBuffItem[b].m_iBuffOffset
       /\ m_pBuffItem'[b].m_iBuffSize = m_pBuffItem[b].m_iBuffSize
       /\ \A x \in Bufs \ {b} : m_pBuffItem'[x] = m_pBuffItem[x]
  BY <1>1, <1>11 DEF Item
<1>13. Content(b)' = Content(b)
  <2>2. ASSUME NEW p \in 0 .. m_pBuffItem[b].m_iBuffOffset + m_pBuffItem[b].m_iBuffSize - 1
        PROVE  ByteIn(m_pObjMem', Held(b), p) = ByteIn(m_pObjMem, Held(b), p)
    <3>0. m_pBuffItem[b].m_iBuffOffset \in Nat /\ m_pBuffItem[b].m_iBuffSize \in Nat
      BY ContentFacts
    <3>1. p \in 0 .. e - 1
      BY <3>0 DEF e
    <3>2. p < BLOCKSIZE * Len(h)
      BY ContentFacts DEF h
    <3>3. ByteIn(m_pObjMem', h, p) = ByteIn(m_pObjMem, h, p)
      BY <1>1, <1>10, <3>1, <3>2 DEF Goes
    <3> QED BY <3>3 DEF h
  <2> QED BY <1>2, <1>12, <2>2, Unchanged
<1>14. \A x \in Bufs \ {b} : Content(x)' = Content(x)
  <2>1. \A x \in Bufs \ {b} : ToSet(Held(x)) \cap ToSet(h) = {}
    <3>1. \A x \in Bufs \ {b} : ToSet(Held(b)) \cap ToSet(Held(x)) = {}
      BY DEF IInv, PoolRight, BlocksOwned
    <3> QED BY <3>1 DEF h
  <2>2. \A x \in Blocks \ ToSet(h) : \A k \in 0 .. BLOCKSIZE - 1 : m_pObjMem'[x][k] = m_pObjMem[x][k]
    BY <1>1, <1>10 DEF Goes
  <2>3. \A x \in Bufs \ {b} : /\ Held(x)' = Held(x) /\ m_pBuffItem'[x] = m_pBuffItem[x]
                             /\ ToSet(Held(x)) \cap ToSet(h) = {}
    BY <1>2, <1>12, <2>1
  <2> QED BY <2>2, <2>3, OthersUnchanged
<1> QED BY <1>13, <1>14 DEF Stays

(* A step that takes n bytes out of b.                                     *)
Takes(b, n) ==
  /\ Content(b)' = SubSeq(Content(b), n + 1, Len(Content(b)))
  /\ \A x \in Bufs \ {b} : Content(x)' = Content(x)

(* The blocks that are given up are b's; no other buffer's bytes are in    *)
(* them.                                                                   *)
LEMMA OthersUntouched ==
  ASSUME IInv, NEW b \in Bufs, NEW s, ToSet(s) \subseteq ToSet(Held(b)), m_pObjMem' = Without(s),
         \A x \in Bufs \ {b} : Held(x)' = Held(x) /\ m_pBuffItem'[x] = m_pBuffItem[x]
  PROVE  \A x \in Bufs \ {b} : Content(x)' = Content(x)
<1>1. \A x \in Bufs \ {b} : ToSet(Held(x)) \cap ToSet(Held(b)) = {}
  BY DEF IInv, PoolRight, BlocksOwned
<1>2. \A x \in Blocks \ ToSet(s) : \A k \in 0 .. BLOCKSIZE - 1 : m_pObjMem'[x][k] = m_pObjMem[x][k]
  BY DEF Without
<1>3. \A x \in Bufs \ {b} : /\ Held(x)' = Held(x) /\ m_pBuffItem'[x] = m_pBuffItem[x]
                           /\ ToSet(Held(x)) \cap ToSet(s) = {}
  BY <1>1
<1> QED BY <1>2, <1>3, OthersUnchanged

LEMMA WholeTakes ==
  ASSUME IInv, IInv', NEW b \in Bufs, Held(b)' = <<>>, m_pObjMem' = Without(Held(b)),
         m_pBuffItem' = [m_pBuffItem EXCEPT ![b] = NoItem],
         \A x \in Bufs \ {b} : Held(x)' = Held(x)
  PROVE  Takes(b, m_pBuffItem[b].m_iBuffSize)
<1> DEFINE sz == m_pBuffItem[b].m_iBuffSize
<1>1. sz \in Nat /\ Content(b) \in Seq(Cell) /\ Len(Content(b)) = sz
  BY ContentFacts
<1>2. m_pBuffItem \in [Bufs -> Item]
  BY StateFacts
<1>3. m_pBuffItem'[b].m_iBuffSize = 0 /\ \A x \in Bufs \ {b} : m_pBuffItem'[x] = m_pBuffItem[x]
  BY <1>2 DEF NoItem
<1>4. Content(b)' \in Seq(Cell) /\ Len(Content(b)') = 0
  BY <1>3, FitsAfter DEF HeldFits
<1>5. Content(b)' = <<>>
  BY <1>4
<1>6. SubSeq(Content(b), sz + 1, Len(Content(b))) = <<>>
  BY <1>1
<1>7. \A x \in Bufs \ {b} : Content(x)' = Content(x)
  BY <1>3, OthersUntouched
<1> QED BY <1>5, <1>6, <1>7 DEF Takes


LEMMA PartTakes ==
  ASSUME IInv, NEW b \in Bufs, NEW n \in Nat \ {0}, failed = {}, SentPartly(b, n)
  PROVE  Takes(b, n)
<1> DEFINE off  == m_pBuffItem[b].m_iBuffOffset
           sz   == m_pBuffItem[b].m_iBuffSize
           q    == (off + n) \div BLOCKSIZE
           r    == (off + n) % BLOCKSIZE
           s    == First(Held(b), q)
           u    == Content(b)'
           old  == Content(b)
           mem  == m_pObjMem
           mem2 == m_pObjMem'
           h    == Held(b)
           h2   == Held(b)'
<1>1. /\ IInv' /\ q \in 0 .. Len(h) /\ h2 = Beyond(h, q) /\ mem2 = Without(s)
      /\ m_pBuffItem'[b].m_iBuffOffset = r /\ m_pBuffItem'[b].m_iBuffSize = sz - n
      /\ \A c \in Bufs \ {b} : Held(c)' = Held(c)
  BY PartKeeps
<1>2. /\ n < sz /\ m_pBuffItem' = [m_pBuffItem EXCEPT ![b] = Sent(b, n)]
  BY DEF SentPartly
<1>3. /\ off \in Nat /\ sz \in Nat /\ Len(h) \in Nat
      /\ \A p \in 0 .. off + sz - 1 : p \in Nat /\ p \div BLOCKSIZE + 1 \in 1 .. Len(h)
                                      /\ p % BLOCKSIZE \in 0 .. BLOCKSIZE - 1
      /\ old \in Seq(Cell) /\ Len(old) = sz
  BY ContentFacts
<1>4. h \in Row /\ BLOCKSIZE \in Nat \ {0}
  BY StateFacts, BlocksFinite
<1>5. u \in Seq(Cell) /\ Len(u) = sz - n /\ h2 \in Row
  BY <1>1, FitsAfter DEF HeldFits
<1>6. u = [k \in 1 .. sz - n |-> ByteIn(mem2, h2, r + k - 1)]
  BY <1>1 DEF Content
<1>7. old = [k \in 1 .. sz |-> ByteIn(mem, h, off + k - 1)]
  BY DEF Content
<1>8. q \in Nat /\ r \in 0 .. BLOCKSIZE - 1 /\ off + n = BLOCKSIZE * q + r /\ BLOCKSIZE * q \in Nat
  <2> DEFINE w == off + n
  <2>1. w \in Nat
    BY <1>3
  <2> HIDE DEF w
  <2>2. /\ w \div BLOCKSIZE \in Nat /\ w % BLOCKSIZE \in 0 .. BLOCKSIZE - 1
        /\ w = BLOCKSIZE * (w \div BLOCKSIZE) + (w % BLOCKSIZE)
    BY <2>1, Place
  <2>3. q = w \div BLOCKSIZE /\ r = w % BLOCKSIZE /\ off + n = w
    BY DEF w
  <2> HIDE DEF q, r
  <2>4. q \in Nat /\ BLOCKSIZE * q \in Nat
    <3>1. q \in Nat
      BY <2>2, <2>3
    <3> QED BY <1>4, <3>1
  <2> QED BY <2>2, <2>3, <2>4
<1>9. /\ s \in Row /\ \A k \in 1 .. Len(h) - q : h2[k] = h[q + k]
      /\ ToSet(s) \cap ToSet(h2) = {} /\ ToSet(s) \subseteq ToSet(h) /\ Len(h2) = Len(h) - q
  <2>1. s = First(h, q)
    OBVIOUS
  <2> HIDE DEF s, h, h2, q
  <2>2. /\ First(h, q) \in Row /\ \A k \in 1 .. Len(h) - q : Beyond(h, q)[k] = h[q + k]
        /\ ToSet(First(h, q)) \cap ToSet(Beyond(h, q)) = {}
        /\ ToSet(First(h, q)) \cup ToSet(Beyond(h, q)) = ToSet(h)
        /\ Len(Beyond(h, q)) = Len(h) - q
    BY <1>1, <1>4, CutRow
  <2> QED BY <1>1, <2>1, <2>2
<1> HIDE DEF off, sz, q, r, s, u, old, mem, mem2, h, h2
<1>10. ASSUME NEW k \in 1 .. sz - n PROVE u[k] = old[n + k]
  <2> DEFINE p  == off + (n + k) - 1
             p2 == r + k - 1
  <2>1. p \in 0 .. off + sz - 1 /\ n + k \in 1 .. sz /\ p2 \in Nat /\ p = BLOCKSIZE * q + p2
    BY <1>2, <1>3, <1>4, <1>8
  <2>2. u[k] = ByteIn(mem2, h2, p2)
    BY <1>6
  <2>3. old[n + k] = ByteIn(mem, h, p)
    BY <1>7, <2>1
  <2> HIDE DEF p, p2
  <2>4. p \div BLOCKSIZE = q + p2 \div BLOCKSIZE /\ p % BLOCKSIZE = p2 % BLOCKSIZE
    BY <1>8, <2>1, Shift
  <2>5. p2 \div BLOCKSIZE \in Nat
    BY <2>1, Place
  <2>6. p \div BLOCKSIZE + 1 \in 1 .. Len(h) /\ p % BLOCKSIZE \in 0 .. BLOCKSIZE - 1
    BY <1>3, <2>1
  <2> DEFINE v  == p \div BLOCKSIZE
             v2 == p2 \div BLOCKSIZE
  <2> HIDE DEF v, v2
  <2>7. v = q + v2 /\ v2 \in Nat /\ v + 1 \in 1 .. Len(h)
    BY <2>4, <2>5, <2>6 DEF v, v2
  <2>8. v2 + 1 \in 1 .. Len(h) - q /\ q + (v2 + 1) = v + 1
    BY <1>3, <1>8, <2>7
  <2>9. h2[v2 + 1] = h[v + 1]
    <3>1. PICK j \in 1 .. Len(h) - q : j = v2 + 1
      BY <2>8
    <3>2. h2[j] = h[q + j]
      BY <1>9
    <3> QED BY <2>8, <3>1, <3>2
  <2>10. h2[v2 + 1] \in ToSet(h2) /\ h2[v2 + 1] \in Blocks
    BY <1>5, <1>9, <2>8, RowFacts
  <2>11. mem2[h2[v2 + 1]] = mem[h2[v2 + 1]]
    BY <1>1, <1>9, <2>10 DEF Without, mem
  <2> QED BY <2>2, <2>3, <2>4, <2>9, <2>11 DEF ByteIn, v, v2
<1>11. u = SubSeq(old, n + 1, Len(old))
  <2> DEFINE t == SubSeq(old, n + 1, Len(old))
  <2>1. t \in Seq(Cell) /\ Len(t) = sz - n /\ \A k \in 1 .. sz - n : t[k] = old[n + k]
    BY <1>2, <1>3
  <2> HIDE DEF t
  <2>2. \A k \in 1 .. sz - n : u[k] = t[k]
    BY <1>10, <2>1
  <2>3. u = t
    BY <1>5, <2>1, <2>2
  <2> QED BY <2>3 DEF t
<1>12. \A x \in Bufs \ {b} : m_pBuffItem'[x] = m_pBuffItem[x]
  BY <1>2, StateFacts
<1>13. \A x \in Bufs \ {b} : Content(x)' = Content(x)
  BY <1>1, <1>9, <1>12, OthersUntouched DEF s, h, mem2
<1> QED BY <1>11, <1>13 DEF Takes, u, old

LEMMA SendTakes ==
  ASSUME IInv, NEW b \in Bufs, NEW n \in 1 .. m_pBuffItem[b].m_iBuffSize,
         SendBufferToSocket(b, n)
  PROVE  Takes(b, n)
<1>1. failed = {} /\ n \in Nat \ {0}
  <2>1. m_pBuffItem[b].m_iBuffSize \in Nat
    BY StateFacts DEF Item
  <2> QED BY <2>1 DEF SendBufferToSocket
<1>2. CASE SentPartly(b, n)
  BY <1>1, <1>2, PartTakes
<1>3. CASE ~ SentPartly(b, n)
  <2>1. /\ m_pBuffItem[b].m_iBuffIdx # Nil /\ DestroyObjects(Held(b))
        /\ n = m_pBuffItem[b].m_iBuffSize
        /\ m_pBuffItem' = [m_pBuffItem EXCEPT ![b] = NoItem]
        /\ m_iFreeBuffNum' = m_iFreeBuffNum + 1
        /\ UNCHANGED <<failed, next>>
    BY <1>3, SendCases
  <2>2. /\ IInv' /\ Held(b)' = <<>> /\ m_pObjMem' = Without(Held(b))
        /\ \A c \in Bufs \ {b} : Held(c)' = Held(c)
    BY <1>1, <2>1, WholeGone
  <2> QED BY <2>1, <2>2, WholeTakes
<1> QED BY <1>2, <1>3

(* Closing a connection takes all its buffer holds.                        *)
LEMMA FreeTakes ==
  ASSUME IInv, NEW b \in Bufs, FreeBuffer(b)
  PROVE  \/ Stays
         \/ Takes(b, m_pBuffItem[b].m_iBuffSize) /\ m_pBuffItem[b].m_iBuffSize > 0
<1>1. failed \subseteq {b} /\ failed' = {} /\ next' = next
  BY DEF FreeBuffer
<1>2. CASE /\ m_pBuffItem[b].m_iBuffIdx # Nil /\ DestroyObjects(Held(b))
           /\ m_pBuffItem' = [m_pBuffItem EXCEPT ![b] = NoItem]
           /\ m_iFreeBuffNum' = m_iFreeBuffNum + 1
  <2>1. \A c \in Bufs \ {b} : c \notin failed' => c \notin failed
    BY <1>1
  <2>2. /\ IInv' /\ Held(b)' = <<>> /\ m_pObjMem' = Without(Held(b))
        /\ \A c \in Bufs \ {b} : Held(c)' = Held(c)
    BY <1>1, <1>2, <2>1, WholeGone
  <2>3. m_pBuffItem[b].m_iBuffSize > 0
    BY <1>2, StateFacts
  <2> QED BY <1>2, <2>2, <2>3, WholeTakes
<1>3. CASE UNCHANGED <<pool, m_pObjMem, m_pBuffItem, m_iFreeBuffNum>>
  <2>1. m_piDsInfo' = m_piDsInfo /\ m_pObjMem' = m_pObjMem /\ m_pBuffItem' = m_pBuffItem
    BY <1>3 DEF pool
  <2>2. \A x \in Bufs : Held(x)' = Held(x)
    BY <2>1 DEF Held, Chain
  <2> QED BY <2>1, <2>2, Unchanged DEF Stays
<1> QED BY <1>2, <1>3 DEF FreeBuffer, Held


-----------------------------------------------------------------------------
(* The refinement, step by step.                                           *)
LEMMA InitRefines == Init => Fifos!Init
<1> SUFFICES ASSUME Init PROVE Fifos!Init
  OBVIOUS
<1>1. IInv
  BY InitKeeps
<1>2. [b \in Bufs |-> GetBuffer(b, m_pBuffItem[b].m_iBuffSize)] = Contents
  BY <1>1, FifoIs DEF FifoRight
<1>3. ASSUME NEW b \in Bufs PROVE Content(b) = <<>>
  <2>1. m_pBuffItem[b].m_iBuffSize = 0
    BY DEF Init, NoItem
  <2>2. Content(b) \in Seq(Cell) /\ Len(Content(b)) = 0
    BY <1>1, <2>1, ContentFacts
  <2> QED BY <2>2
<1>4. Contents = [b \in Bufs |-> <<>>]
  BY <1>3 DEF Contents
<1> QED BY <1>2, <1>4 DEF Fifos!Init, Init

LEMMA FifoIsAfter == IInv' => FifoRight'
BY FifoIs, PTL

LEMMA PutRefines ==
  ASSUME IInv, IInv', NEW b \in Bufs, NEW n \in Lens, Puts(b, n), next' = Taken(b, n)
  PROVE  Fifos!Put(b, n)
<1>1. [x \in Bufs |-> GetBuffer(x, m_pBuffItem[x].m_iBuffSize)] = Contents
  BY FifoIs DEF FifoRight
<1>2. [x \in Bufs |-> GetBuffer(x, m_pBuffItem[x].m_iBuffSize)]' = Contents'
  BY FifoIsAfter DEF FifoRight
<1>3. Contents' = [Contents EXCEPT ![b] = @ \o Bytes(b, n)]
  BY DEF Puts, Contents
<1> QED BY <1>1, <1>2, <1>3 DEF Fifos!Put, Taken, Bytes

LEMMA TakeRefines ==
  ASSUME IInv, IInv', NEW b \in Bufs, NEW n \in 1 .. m_pBuffItem[b].m_iBuffSize, Takes(b, n),
         next' = next
  PROVE  Fifos!Next
<1>1. [x \in Bufs |-> GetBuffer(x, m_pBuffItem[x].m_iBuffSize)] = Contents
  BY FifoIs DEF FifoRight
<1>2. [x \in Bufs |-> GetBuffer(x, m_pBuffItem[x].m_iBuffSize)]' = Contents'
  BY FifoIsAfter DEF FifoRight
<1>3. Contents' = [Contents EXCEPT ![b] = SubSeq(@, n + 1, Len(@))]
  BY DEF Takes, Contents
<1>4. Contents[b] = Content(b) /\ n \in 1 .. Len(Content(b)) /\ n <= Len(Content(b))
  BY ContentFacts DEF Contents
<1>5. Fifos!Take(b, n)
  BY <1>1, <1>2, <1>3, <1>4 DEF Fifos!Take
<1>6. n \in 1 .. Len([x \in Bufs |-> GetBuffer(x, m_pBuffItem[x].m_iBuffSize)][b])
  BY <1>1, <1>4
<1> QED BY <1>5, <1>6 DEF Fifos!Next

LEMMA StayRefines ==
  ASSUME IInv, IInv', Stays, next' = next
  PROVE  UNCHANGED Fifos!vars
<1>1. [x \in Bufs |-> GetBuffer(x, m_pBuffItem[x].m_iBuffSize)] = Contents
  BY FifoIs DEF FifoRight
<1>2. [x \in Bufs |-> GetBuffer(x, m_pBuffItem[x].m_iBuffSize)]' = Contents'
  BY FifoIsAfter DEF FifoRight
<1>3. Contents' = Contents
  BY DEF Stays, Contents
<1> QED BY <1>1, <1>2, <1>3 DEF Fifos!vars

LEMMA NextRefines == IInv /\ IInv' /\ [Next]_vars => [Fifos!Next]_Fifos!vars
<1> SUFFICES ASSUME IInv, IInv', [Next]_vars PROVE [Fifos!Next]_Fifos!vars
  OBVIOUS
<1>1. ASSUME NEW b \in Bufs, NEW n \in Lens, AppendBuffer(b, n) PROVE [Fifos!Next]_Fifos!vars
  <2>0. failed = {}
    BY <1>1 DEF AppendBuffer
  <2>1. CASE AppendFirst(b, n)
    <3>1. Puts(b, n) /\ next' = Taken(b, n)
      BY <2>0, <2>1, FirstPuts DEF AppendFirst
    <3>2. Fifos!Put(b, n)
      BY <3>1, PutRefines
    <3> QED BY <3>2 DEF Fifos!Next
  <2>2. CASE AppendMore(b, n)
    <3>1. Puts(b, n) /\ next' = Taken(b, n)
      BY <2>0, <2>2, MorePuts DEF AppendMore
    <3>2. Fifos!Put(b, n)
      BY <3>1, PutRefines
    <3> QED BY <3>2 DEF Fifos!Next
  <2>3. CASE AppendFirstFails(b, n)
    <3>1. Stays /\ next' = next
      BY <2>0, <2>3, FirstFailsStays DEF AppendFirstFails
    <3> QED BY <3>1, StayRefines
  <2>4. CASE AppendMoreFails(b, n)
    <3>1. Stays /\ next' = next
      BY <2>0, <2>4, MoreFailsStays DEF AppendMoreFails
    <3> QED BY <3>1, StayRefines
  <2> QED BY <1>1, <2>1, <2>2, <2>3, <2>4 DEF AppendBuffer
<1>2. ASSUME NEW b \in Bufs, NEW n \in 1 .. m_pBuffItem[b].m_iBuffSize, SendBufferToSocket(b, n)
      PROVE  [Fifos!Next]_Fifos!vars
  <2>1. Takes(b, n) /\ next' = next
    BY <1>2, SendTakes DEF SendBufferToSocket
  <2> QED BY <2>1, TakeRefines
<1>3. ASSUME NEW b \in Bufs, FreeBuffer(b) PROVE [Fifos!Next]_Fifos!vars
  <2>0. next' = next
    BY <1>3 DEF FreeBuffer
  <2>1. CASE Stays
    BY <2>0, <2>1, StayRefines
  <2>2. CASE ~ Stays
    <3>1. /\ Takes(b, m_pBuffItem[b].m_iBuffSize)
          /\ m_pBuffItem[b].m_iBuffSize \in 1 .. m_pBuffItem[b].m_iBuffSize
      <4>1. m_pBuffItem[b].m_iBuffSize \in Nat
        BY ContentFacts
      <4> QED BY <1>3, <2>2, <4>1, FreeTakes
    <3> QED BY <2>0, <3>1, TakeRefines
  <2> QED BY <2>1, <2>2
<1>4. CASE UNCHANGED vars
  <2>1. /\ m_piDsInfo' = m_piDsInfo /\ m_pObjMem' = m_pObjMem /\ m_pBuffItem' = m_pBuffItem
        /\ next' = next
    BY <1>4 DEF vars, pool
  <2>2. \A x \in Bufs : Held(x)' = Held(x)
    BY <2>1 DEF Held, Chain
  <2>3. Stays
    BY <2>1, <2>2, Unchanged DEF Stays
  <2> QED BY <2>1, <2>3, StayRefines
<1> QED BY <1>1, <1>2, <1>3, <1>4 DEF Next

(* Read back block by block, every buffer is a FIFO of bytes: whole        *)
(* appends go in or none of it, bytes come out in the order they went in,  *)
(* and no connection ever sees those of another, for any pool, any number  *)
(* of buffers and any lengths (BuffMng.cpp, IdxObjMng.cpp).                *)
THEOREM BuffImplementsFifos == Spec => ImplementsFifos
BY InitRefines, NextRefines, BuffInvariant, PTL DEF Spec, ImplementsFifos, Fifos!Spec
================================================================================
