-------------------------- MODULE SelectionsProofs --------------------------
(***************************************************************************)
(* What a selection holds: the kth position is one of the set, each is the *)
(* kth for one k, and so nothing is lost, doubled or put out of order.     *)
(* And what a sum over a set of amounts does: it takes its members in any  *)
(* order, grows with them, and is the same whatever they are called.       *)
(***************************************************************************)
EXTENDS Selections, Integers, Functions, FiniteSetTheorems, SequenceTheorems, TLAPS

Below(I, i) == {j \in I : j < i}

\* How many members of I are below i says which one i is.
LEMMA BelowProperties ==
    ASSUME NEW I \in SUBSET Int, IsFiniteSet(I), NEW i \in I
    PROVE  /\ IsFiniteSet(Below(I, i))
           /\ Cardinality(Below(I, i)) \in 0 .. Cardinality(I) - 1
           /\ \A j \in I : j < i => Cardinality(Below(I, j)) < Cardinality(Below(I, i))
<1>1. IsFiniteSet(Below(I, i)) /\ Below(I, i) \in SUBSET I
  BY FS_Subset DEF Below
<1>2. Cardinality(I) \in Nat /\ Cardinality(Below(I, i)) \in Nat
  BY <1>1, FS_CardinalityType
<1>3. i \notin Below(I, i)
  BY DEF Below
<1>4. Cardinality(Below(I, i)) <= Cardinality(I) /\ Cardinality(Below(I, i)) # Cardinality(I)
  BY <1>1, <1>3, FS_Subset
<1>5. ASSUME NEW j \in I, j < i
      PROVE  Cardinality(Below(I, j)) < Cardinality(Below(I, i))
  <2>0. i \in Int /\ j \in Int
    OBVIOUS
  <2>1. Below(I, j) \in SUBSET Below(I, i)
    <3>1. ASSUME NEW k \in Below(I, j) PROVE k \in Below(I, i)
      <4>1. k \in I /\ k \in Int /\ k < j
        BY DEF Below
      <4>2. k < i
        BY <1>5, <2>0, <4>1
      <4> QED BY <4>1, <4>2 DEF Below
    <3> QED BY <3>1
  <2>2. j \in Below(I, i) /\ j \notin Below(I, j)
    BY <1>5 DEF Below
  <2>3. /\ IsFiniteSet(Below(I, j))
        /\ Cardinality(Below(I, j)) <= Cardinality(Below(I, i))
        /\ Cardinality(Below(I, j)) # Cardinality(Below(I, i))
    BY <1>1, <2>1, <2>2, FS_Subset
  <2>4. Cardinality(Below(I, j)) \in Nat
    BY <2>3, FS_CardinalityType
  <2> QED BY <1>2, <2>3, <2>4
<1> QED BY <1>1, <1>2, <1>4, <1>5

\* As many different values from 0 on as the set has members: each value is taken.
LEMMA EachValueTaken ==
    ASSUME NEW S, IsFiniteSet(S), NEW f,
           \A x \in S : f[x] \in 0 .. Cardinality(S) - 1,
           \A x, y \in S : f[x] = f[y] => x = y
    PROVE  \A v \in 0 .. Cardinality(S) - 1 : \E x \in S : f[x] = v
<1> DEFINE n == Cardinality(S)
           T == 0 .. n - 1
           g == [x \in S |-> f[x]]
<1>1. n \in Nat /\ Cardinality(S) = n
  BY FS_CardinalityType
<1>2. g \in Injection(S, T)
  BY DEF Injection, IsInjective
<1>3. IsFiniteSet(T) /\ Cardinality(T) = n
  <2> HIDE DEF n
  <2>1. 0 \in Int /\ n - 1 \in Int
    BY <1>1
  <2>2. /\ IsFiniteSet(0 .. n - 1)
        /\ Cardinality(0 .. n - 1) = IF 0 > n - 1 THEN 0 ELSE n - 1 - 0 + 1
    BY <2>1, FS_Interval
  <2> QED BY <1>1, <2>2
<1> HIDE DEF n, T
<1>4. g \in Surjection(S, T)
  BY <1>1, <1>2, <1>3, FS_Injection
<1>5. \A v \in T : \E x \in S : g[x] = v
  BY <1>4 DEF Surjection
<1> QED BY <1>5 DEF T, n

\* Below each number less than the size of I there is a member with so many below it.
LEMMA NthExists ==
    ASSUME NEW I \in SUBSET Int, IsFiniteSet(I), NEW k \in 1 .. Cardinality(I)
    PROVE  \E i \in I : Cardinality(Below(I, i)) = k - 1
<1> DEFINE n == Cardinality(I)
           rank == [i \in I |-> Cardinality(Below(I, i))]
<1>1. n \in Nat
  BY FS_CardinalityType
<1>2. \A i \in I : rank[i] \in 0 .. n - 1
  BY BelowProperties
<1>3. ASSUME NEW i \in I, NEW j \in I, rank[i] = rank[j], i # j PROVE FALSE
  <2>1. i < j \/ j < i
    BY <1>3
  <2>2. rank[i] \in Int /\ rank[j] \in Int
    BY <1>1, <1>2
  <2> QED BY <1>3, <2>1, <2>2, BelowProperties
<1>4. \A v \in 0 .. n - 1 : \E i \in I : rank[i] = v
  <2> DEFINE S == I
             f == rank
  <2>1. /\ IsFiniteSet(S)
        /\ \A x \in S : f[x] \in 0 .. Cardinality(S) - 1
        /\ \A x, y \in S : f[x] = f[y] => x = y
    BY <1>2, <1>3
  <2> HIDE DEF S, f
  <2>2. \A v \in 0 .. Cardinality(S) - 1 : \E x \in S : f[x] = v
    BY <2>1, EachValueTaken
  <2> QED BY <2>2 DEF S, f
<1> HIDE DEF rank
<1>5. k - 1 \in 0 .. n - 1
  BY <1>1
<1>6. PICK i \in I : rank[i] = k - 1
  BY <1>4, <1>5
<1> QED BY <1>6 DEF rank

LEMMA NthProperties ==
    ASSUME NEW I \in SUBSET Int, IsFiniteSet(I), NEW k \in 1 .. Cardinality(I)
    PROVE  Nth(I, k) \in I /\ Cardinality(Below(I, Nth(I, k))) = k - 1
BY NthExists DEF Nth, Below

\* A member with k below it is the one after the kth.
LEMMA NthOf ==
    ASSUME NEW I \in SUBSET Int, IsFiniteSet(I), NEW i \in I
    PROVE  /\ Cardinality(Below(I, i)) + 1 \in 1 .. Cardinality(I)
           /\ Nth(I, Cardinality(Below(I, i)) + 1) = i
<1> DEFINE k == Cardinality(Below(I, i)) + 1
<1>1. k \in 1 .. Cardinality(I)
  BY BelowProperties, FS_CardinalityType
<1>2. k \in Nat /\ k - 1 = Cardinality(Below(I, i))
  BY BelowProperties, FS_CardinalityType
<1> HIDE DEF k
<1>3. Nth(I, k) \in I /\ Cardinality(Below(I, Nth(I, k))) = k - 1
  BY <1>1, NthProperties
<1>4. ASSUME Nth(I, k) # i PROVE FALSE
  <2> DEFINE m == Nth(I, k)
  <2>1. m \in I /\ m \in Int /\ i \in Int /\ m # i
    BY <1>3, <1>4
  <2>2. /\ m < i => Cardinality(Below(I, m)) < Cardinality(Below(I, i))
        /\ i < m => Cardinality(Below(I, i)) < Cardinality(Below(I, m))
    BY <2>1, BelowProperties
  <2>3. Cardinality(Below(I, m)) = Cardinality(Below(I, i)) /\ Cardinality(Below(I, i)) \in Int
    BY <1>2, <1>3
  <2> HIDE DEF m
  <2>4. m < i \/ i < m
    BY <2>1
  <2> QED BY <2>2, <2>3, <2>4
<1> QED BY <1>1, <1>4 DEF k

Injective(s) == \A i, j \in DOMAIN s : s[i] = s[j] => i = j

\* What is picked from a sequence, and that nothing is picked twice.
LEMMA PickProperties ==
    ASSUME NEW S, NEW s \in Seq(S), NEW I \in SUBSET DOMAIN s
    PROVE  /\ Pick(s, I) \in Seq(S)
           /\ Len(Pick(s, I)) = Cardinality(I)
           /\ DOMAIN Pick(s, I) = 1 .. Cardinality(I)
           /\ \A k \in DOMAIN Pick(s, I) : Nth(I, k) \in I /\ Pick(s, I)[k] = s[Nth(I, k)]
           /\ \A i \in I : \E k \in DOMAIN Pick(s, I) : Pick(s, I)[k] = s[i]
           /\ (\A i, j \in I : s[i] = s[j] => i = j)
                => \A k, l \in DOMAIN Pick(s, I) : Pick(s, I)[k] = Pick(s, I)[l] => k = l
<1> DEFINE n == Cardinality(I)
<1>1. Len(s) \in Nat /\ DOMAIN s = 1 .. Len(s)
  BY LenProperties
<1>2. IsFiniteSet(I) /\ I \in SUBSET Int
  <2>1. IsFiniteSet(1 .. Len(s))
    BY <1>1, 1 \in Int, Len(s) \in Int, FS_Interval
  <2> QED BY <1>1, <2>1, FS_Subset
<1>3. n \in Nat
  BY <1>2, FS_CardinalityType
<1>4. \A k \in 1 .. n : Nth(I, k) \in I /\ Cardinality(Below(I, Nth(I, k))) = k - 1
  BY <1>2, NthProperties
<1>5. \A k \in 1 .. n : s[Nth(I, k)] \in S
  BY <1>1, <1>4, ElementOfSeq
<1> DEFINE picked == Pick(s, I)
<1>6. picked = [k \in 1 .. n |-> s[Nth(I, k)]]
  BY DEF Pick
<1> HIDE DEF n, picked
<1>7. picked \in [1 .. n -> S]
  BY <1>5, <1>6
<1>8. picked \in Seq(S)
  BY <1>3, <1>7, SeqDef
<1>9. DOMAIN picked = 1 .. n /\ Len(picked) = n
  BY <1>3, <1>7, <1>8, LenProperties
<1>10. \A k \in 1 .. n : picked[k] = s[Nth(I, k)]
  BY <1>6
<1>11. ASSUME NEW i \in I PROVE \E k \in 1 .. n : picked[k] = s[i]
  <2>1. Cardinality(Below(I, i)) + 1 \in 1 .. n /\ Nth(I, Cardinality(Below(I, i)) + 1) = i
    BY <1>2, NthOf DEF n
  <2> QED BY <1>10, <2>1
<1>12. ASSUME \A i, j \in I : s[i] = s[j] => i = j,
              NEW k \in 1 .. n, NEW l \in 1 .. n, picked[k] = picked[l]
       PROVE  k = l
  <2>1. Nth(I, k) = Nth(I, l)
    BY <1>4, <1>10, <1>12
  <2> QED BY <1>4, <2>1
<1> QED BY <1>4, <1>8, <1>9, <1>10, <1>11, <1>12 DEF n, picked

\* A function has finitely many values on a finite set.
LEMMA ValuesAreFinite ==
    ASSUME NEW S, IsFiniteSet(S), NEW f
    PROVE  IsFiniteSet({f[x] : x \in S})
<1> DEFINE T == {f[x] : x \in S}
           g == [x \in S |-> f[x]]
<1>1. g \in Surjection(S, T)
  BY DEF Surjection
<1> HIDE DEF T, g
<1>2. IsFiniteSet(T)
  BY <1>1, FS_Surjection
<1> QED BY <1>2 DEF T

\* A function with different values on a finite set has as many values as the set members.
LEMMA ValuesAreAsMany ==
    ASSUME NEW S, IsFiniteSet(S), NEW f, \A x, y \in S : f[x] = f[y] => x = y
    PROVE  Cardinality({f[x] : x \in S}) = Cardinality(S)
<1> DEFINE T == {f[x] : x \in S}
           g == [x \in S |-> f[x]]
<1>1. g \in Surjection(S, T) /\ g \in Injection(S, T)
  BY DEF Surjection, Injection, IsInjective
<1> HIDE DEF T, g
<1>2. Cardinality(T) = Cardinality(S)
  BY <1>1, FS_Surjection
<1> QED BY <1>2 DEF T

\* What is picked is of the set its members are of.
LEMMA PickTyped ==
    ASSUME NEW S, NEW s \in Seq(S), NEW I \in SUBSET DOMAIN s, NEW T,
           \A i \in I : s[i] \in T, \A i, j \in I : s[i] = s[j] => i = j
    PROVE  Pick(s, I) \in Seq(T) /\ Injective(Pick(s, I))
<1> DEFINE picked == Pick(s, I)
<1>1. /\ picked \in Seq(S)
      /\ DOMAIN picked = 1 .. Len(picked)
      /\ \A k \in DOMAIN picked : Nth(I, k) \in I /\ picked[k] = s[Nth(I, k)]
      /\ \A k, l \in DOMAIN picked : picked[k] = picked[l] => k = l
  BY PickProperties
<1>2. \A k \in DOMAIN picked : picked[k] \in T
  BY <1>1
<1> HIDE DEF picked
<1>3. Len(picked) \in Nat /\ picked \in [1 .. Len(picked) -> T]
  BY <1>1, <1>2, LenProperties
<1>4. picked \in Seq(T)
  BY <1>3, SeqDef
<1> QED BY <1>1, <1>4 DEF picked, Injective

\* Two places in a selection are of two positions.
LEMMA NthInjective ==
    ASSUME NEW I \in SUBSET Int, IsFiniteSet(I),
           NEW k \in 1 .. Cardinality(I), NEW l \in 1 .. Cardinality(I), Nth(I, k) = Nth(I, l)
    PROVE  k = l
<1>1. Cardinality(I) \in Nat
  BY FS_CardinalityType
<1>2. k - 1 = l - 1
  BY NthProperties
<1> QED BY <1>1, <1>2

\* The positions come in their order.
LEMMA NthIncreases ==
    ASSUME NEW I \in SUBSET Int, IsFiniteSet(I),
           NEW k \in 1 .. Cardinality(I), NEW l \in 1 .. Cardinality(I), k < l
    PROVE  Nth(I, k) < Nth(I, l)
<1>1. Cardinality(I) \in Nat /\ k \in Int /\ l \in Int
  BY FS_CardinalityType
<1>2. /\ Nth(I, k) \in I /\ Cardinality(Below(I, Nth(I, k))) = k - 1
      /\ Nth(I, l) \in I /\ Cardinality(Below(I, Nth(I, l))) = l - 1
  BY NthProperties
<1>3. Nth(I, l) < Nth(I, k) => l - 1 < k - 1
  BY <1>2, BelowProperties
<1>4. Nth(I, k) # Nth(I, l)
  BY <1>1, <1>2
<1>5. Nth(I, k) \in Int /\ Nth(I, l) \in Int
  BY <1>2
<1> QED BY <1>1, <1>3, <1>4, <1>5

\* Of the members of V those in W: the kth of W is where it is the kth of them.
LEMMA NthOfNth ==
    ASSUME NEW V \in SUBSET Int, IsFiniteSet(V), NEW W \in SUBSET V
    PROVE  LET U == {k \in 1 .. Cardinality(V) : Nth(V, k) \in W} IN
           /\ Cardinality(U) = Cardinality(W)
           /\ \A k \in 1 .. Cardinality(W) : Nth(U, k) \in U /\ Nth(V, Nth(U, k)) = Nth(W, k)
<1> DEFINE n == Cardinality(V)
           at == [k \in 1 .. n |-> Nth(V, k)]
           U == {k \in 1 .. n : at[k] \in W}
<1>1. n \in Nat /\ IsFiniteSet(W) /\ IsFiniteSet(1 .. n)
  <2>1. n \in Nat
    BY FS_CardinalityType
  <2>2. IsFiniteSet(W)
    BY FS_Subset
  <2> HIDE DEF n
  <2>3. 1 \in Int /\ n \in Int
    BY <2>1
  <2>4. IsFiniteSet(1 .. n)
    BY <2>3, FS_Interval
  <2> QED BY <2>1, <2>2, <2>4
<1>2. U \in SUBSET (1 .. n) /\ U \in SUBSET Int /\ IsFiniteSet(U)
  <2>1. U \in SUBSET (1 .. n)
    OBVIOUS
  <2> HIDE DEF U, n
  <2>2. U \in SUBSET Int
    BY <2>1
  <2>3. IsFiniteSet(U)
    BY <1>1, <2>1, FS_Subset
  <2> QED BY <2>1, <2>2, <2>3
<1>3. ASSUME NEW k \in 1 .. n
      PROVE  at[k] \in V /\ Cardinality(Below(V, at[k])) = k - 1
  BY NthProperties
<1>4. ASSUME NEW k \in 1 .. n, NEW l \in 1 .. n PROVE at[k] = at[l] => k = l
  BY <1>1, NthInjective
<1>5. ASSUME NEW i \in V PROVE \E k \in 1 .. n : at[k] = i
  BY NthOf
<1>6. \A k \in 1 .. n : k \in U <=> at[k] \in W
  OBVIOUS
<1>7. U = {k \in 1 .. n : Nth(V, k) \in W}
  OBVIOUS
<1> HIDE DEF n, at, U
<1>8. ASSUME NEW k \in 1 .. n, NEW l \in 1 .. n PROVE at[k] < at[l] <=> k < l
  <2>1. at[k] \in V /\ at[l] \in V /\ at[k] \in Int /\ at[l] \in Int
    BY <1>3
  <2>2. /\ at[k] < at[l] => k - 1 < l - 1
        /\ at[l] < at[k] => l - 1 < k - 1
    BY <1>3, <2>1, BelowProperties
  <2>3. at[k] = at[l] => k = l
    BY <1>4
  <2>4. k \in Int /\ l \in Int
    BY <1>1
  <2> QED BY <2>1, <2>2, <2>3, <2>4
<1>9. ASSUME NEW A \in SUBSET U PROVE Cardinality({at[k] : k \in A}) = Cardinality(A)
  <2>1. IsFiniteSet(A)
    BY <1>2, FS_Subset
  <2>2. \A k, l \in A : at[k] = at[l] => k = l
    BY <1>2, <1>4
  <2> QED BY <2>1, <2>2, ValuesAreAsMany
<1>10. W = {at[k] : k \in U}
  BY <1>5, <1>6, <1>2
<1>11. Cardinality(U) = Cardinality(W)
  BY <1>9, <1>10
<1>12. ASSUME NEW k \in 1 .. Cardinality(W)
       PROVE  Nth(U, k) \in U /\ at[Nth(U, k)] = Nth(W, k)
  <2> DEFINE u == Nth(U, k)
  <2>1. u \in U /\ Cardinality(Below(U, u)) = k - 1
    BY <1>2, <1>11, NthProperties
  <2> HIDE DEF u
  <2>2. at[u] \in W
    BY <1>2, <1>6, <2>1
  <2>3. Below(W, at[u]) = {at[j] : j \in Below(U, u)}
    BY <1>2, <1>8, <1>10, <2>1 DEF Below
  <2>4. Cardinality(Below(W, at[u])) = k - 1
    BY <1>9, <2>1, <2>3 DEF Below
  <2>5. Nth(W, Cardinality(Below(W, at[u])) + 1) = at[u]
    BY <1>1, <2>2, NthOf
  <2>6. k - 1 + 1 = k
    OBVIOUS
  <2> QED BY <2>1, <2>4, <2>5, <2>6 DEF u
<1>13. \A k \in U : at[k] = Nth(V, k)
  BY <1>2 DEF at, n
<1> QED BY <1>7, <1>11, <1>12, <1>13 DEF n

\* What is picked of what was picked is what is picked at once.
THEOREM PickOfPick ==
    ASSUME NEW S, NEW s \in Seq(S), NEW V \in SUBSET DOMAIN s, NEW W \in SUBSET V
    PROVE  Pick(Pick(s, V), {k \in DOMAIN Pick(s, V) : Nth(V, k) \in W}) = Pick(s, W)
<1> DEFINE U == {k \in 1 .. Cardinality(V) : Nth(V, k) \in W}
<1>1. IsFiniteSet(V) /\ V \in SUBSET Int
  <2>1. IsFiniteSet(1 .. Len(s)) /\ V \in SUBSET (1 .. Len(s))
    BY FS_Interval
  <2> QED BY <2>1, FS_Subset
<1>2. /\ Cardinality(U) = Cardinality(W)
      /\ \A k \in 1 .. Cardinality(W) : Nth(U, k) \in U /\ Nth(V, Nth(U, k)) = Nth(W, k)
  BY <1>1, NthOfNth
<1>3. DOMAIN Pick(s, V) = 1 .. Cardinality(V)
  BY DEF Pick
<1>4. \A k \in U : Pick(s, V)[k] = s[Nth(V, k)]
  BY DEF Pick
<1> HIDE DEF U
<1>5. Pick(Pick(s, V), U) = Pick(s, W)
  BY <1>2, <1>4 DEF Pick
<1> QED BY <1>3, <1>5 DEF U

\* Of finitely many numbers one is the largest: the one with all others below it.
THEOREM LargestExists ==
    ASSUME NEW I \in SUBSET Int, IsFiniteSet(I), I # {}
    PROVE  \E i \in I : \A j \in I : j <= i
<1> DEFINE n == Cardinality(I)
<1>1. n \in Nat /\ n # 0
  BY FS_CardinalityType, FS_EmptySet
<1>2. n \in 1 .. Cardinality(I)
  BY <1>1
<1>3. PICK i \in I : Cardinality(Below(I, i)) = n - 1
  BY <1>2, NthExists
<1>4. ASSUME NEW j \in I, i < j PROVE FALSE
  <2>1. Cardinality(Below(I, i)) < Cardinality(Below(I, j))
    BY <1>4, BelowProperties
  <2>2. Cardinality(Below(I, j)) \in 0 .. n - 1
    BY BelowProperties
  <2> QED BY <1>1, <1>3, <2>1, <2>2
<1>5. i \in Int /\ \A j \in I : j \in Int
  OBVIOUS
<1> QED BY <1>4, <1>5

\* And one is the smallest.
LEMMA SmallestExists ==
    ASSUME NEW I \in SUBSET Int, IsFiniteSet(I), I # {}
    PROVE  \E i \in I : \A j \in I : i <= j
<1>1. Cardinality(I) \in Nat /\ Cardinality(I) # 0
  BY FS_CardinalityType, FS_EmptySet
<1>2. 1 \in 1 .. Cardinality(I)
  BY <1>1
<1>3. PICK i \in I : Cardinality(Below(I, i)) = 0
  BY <1>2, NthExists
<1>4. IsFiniteSet(Below(I, i))
  BY BelowProperties
<1>5. Below(I, i) = {}
  BY <1>3, <1>4, FS_EmptySet
<1> QED BY <1>5 DEF Below

-----------------------------------------------------------------------------
(* A set in an order, a list of it that begins with what is before all else. *)

\* Of two members one is before the other.
StrictOrder(S, before) ==
    /\ \A x \in S : <<x, x>> \notin before
    /\ \A x, y \in S : x # y => <<x, y>> \in before \/ <<y, x>> \in before
    /\ \A x, y, z \in S : <<x, y>> \in before /\ <<y, z>> \in before => <<x, z>> \in before

\* The members ahead of one.
AheadOf(S, before, x) == {y \in S : <<y, x>> \in before}

\* How many members are ahead of one says which one it is.
LEMMA AheadProperties ==
    ASSUME NEW S, IsFiniteSet(S), NEW before, StrictOrder(S, before), NEW c \in S
    PROVE  /\ Cardinality(AheadOf(S, before, c)) \in 0 .. Cardinality(S) - 1
           /\ \A d \in S : <<d, c>> \in before =>
                 Cardinality(AheadOf(S, before, d)) < Cardinality(AheadOf(S, before, c))
<1>2. AheadOf(S, before, c) \in SUBSET S /\ c \notin AheadOf(S, before, c)
  BY DEF StrictOrder, AheadOf
<1>3. /\ IsFiniteSet(AheadOf(S, before, c))
      /\ Cardinality(AheadOf(S, before, c)) <= Cardinality(S)
      /\ Cardinality(AheadOf(S, before, c)) # Cardinality(S)
  BY <1>2, FS_Subset
<1>4. Cardinality(S) \in Nat /\ Cardinality(AheadOf(S, before, c)) \in Nat
  BY <1>3, FS_CardinalityType
<1>5. ASSUME NEW d \in S, <<d, c>> \in before
      PROVE  Cardinality(AheadOf(S, before, d)) < Cardinality(AheadOf(S, before, c))
  <2>1. AheadOf(S, before, d) \in SUBSET AheadOf(S, before, c)
    <3> SUFFICES ASSUME NEW e \in S, <<e, d>> \in before PROVE <<e, c>> \in before
      BY DEF AheadOf
    <3> QED BY <1>5 DEF StrictOrder
  <2>2. d \in AheadOf(S, before, c) /\ d \notin AheadOf(S, before, d)
    BY <1>5 DEF StrictOrder, AheadOf
  <2>3. /\ IsFiniteSet(AheadOf(S, before, d))
        /\ Cardinality(AheadOf(S, before, d)) <= Cardinality(AheadOf(S, before, c))
        /\ Cardinality(AheadOf(S, before, d)) # Cardinality(AheadOf(S, before, c))
    BY <1>3, <2>1, <2>2, FS_Subset
  <2>4. Cardinality(AheadOf(S, before, d)) \in Nat
    BY <2>3, FS_CardinalityType
  <2> QED BY <1>4, <2>3, <2>4
<1> QED BY <1>3, <1>4, <1>5

\* For each place one member has as many ahead of it.
LEMMA PlaceIsTaken ==
    ASSUME NEW S, IsFiniteSet(S), NEW before, StrictOrder(S, before), NEW k \in 1 .. Cardinality(S)
    PROVE  \E c \in S : Cardinality(AheadOf(S, before, c)) = k - 1
<1> DEFINE n == Cardinality(S)
           place == [c \in S |-> Cardinality(AheadOf(S, before, c))]
<1>1. IsFiniteSet(S) /\ n \in Nat
  BY FS_CardinalityType
<1>2. \A c \in S : place[c] \in 0 .. n - 1
  BY AheadProperties
<1>3. ASSUME NEW c \in S, NEW d \in S, place[c] = place[d], c # d PROVE FALSE
  <2>1. <<c, d>> \in before \/ <<d, c>> \in before
    BY <1>3 DEF StrictOrder
  <2>2. place[c] \in Int /\ place[d] \in Int
    BY <1>1, <1>2
  <2>3. /\ <<c, d>> \in before => place[c] < place[d]
        /\ <<d, c>> \in before => place[d] < place[c]
    BY AheadProperties
  <2> HIDE DEF place
  <2> QED BY <1>3, <2>1, <2>2, <2>3
<1> HIDE DEF place
<1>4. \A v \in 0 .. n - 1 : \E c \in S : place[c] = v
  BY <1>1, <1>2, <1>3, EachValueTaken
<1>5. k - 1 \in 0 .. n - 1
  BY <1>1
<1>6. PICK c \in S : place[c] = k - 1
  BY <1>4, <1>5
<1> QED BY <1>6 DEF place

\* A set in an order is as long a list as the set is large.
LEMMA SortedLength ==
    ASSUME NEW S, NEW before
    PROVE  DOMAIN Sorted(S, before) = 1 .. Cardinality(S)
BY DEF Sorted

\* In its order a set has every member once, each ahead of those after it.
THEOREM SortedProperties ==
    ASSUME NEW S, IsFiniteSet(S), NEW before, StrictOrder(S, before)
    PROVE  LET sorted == Sorted(S, before) IN
           /\ sorted \in Seq(S) /\ Len(sorted) = Cardinality(S)
           /\ \A i, j \in DOMAIN sorted : i < j => <<sorted[i], sorted[j]>> \in before
           /\ \A c \in S : \E i \in DOMAIN sorted : sorted[i] = c
<1> DEFINE n == Cardinality(S)
           sorted == Sorted(S, before)
<1>1. n \in Nat
  BY FS_CardinalityType
<1>2. DOMAIN sorted = 1 .. n /\ sorted = [k \in 1 .. n |-> sorted[k]]
  <2> DEFINE placed ==
               [k \in 1 .. n |-> CHOOSE c \in S : Cardinality(AheadOf(S, before, c)) = k - 1]
  <2>1. sorted = placed
    BY DEF Sorted, Placed, AheadOf
  <2>2. DOMAIN placed = 1 .. n /\ placed = [k \in 1 .. n |-> placed[k]]
    OBVIOUS
  <2> HIDE DEF placed, n, sorted
  <2> QED BY <2>1, <2>2
<1>3. ASSUME NEW k \in 1 .. n
      PROVE  sorted[k] \in S /\ Cardinality(AheadOf(S, before, sorted[k])) = k - 1
  <2>1. sorted[k] = CHOOSE c \in S : Cardinality(AheadOf(S, before, c)) = k - 1
    BY DEF Sorted, Placed, AheadOf
  <2> QED BY <2>1, PlaceIsTaken
<1> HIDE DEF n, sorted
<1>4. sorted \in Seq(S)
  BY <1>1, <1>2, <1>3, SeqDef
<1>5. ASSUME NEW i \in 1 .. n, NEW j \in 1 .. n, i < j
      PROVE  <<sorted[i], sorted[j]>> \in before
  <2>0. i \in Int /\ j \in Int
    BY <1>1
  <2>1. sorted[i] # sorted[j]
    BY <1>3, <1>5, <2>0
  <2>2. <<sorted[j], sorted[i]>> \in before => j - 1 < i - 1
    BY <1>3, AheadProperties
  <2>3. <<sorted[j], sorted[i]>> \notin before
    BY <1>5, <2>0, <2>2
  <2> QED BY <1>3, <2>1, <2>3 DEF StrictOrder
<1>6. ASSUME NEW c \in S PROVE \E i \in 1 .. n : sorted[i] = c
  <2> DEFINE k == Cardinality(AheadOf(S, before, c)) + 1
  <2>1. k \in 1 .. n /\ k - 1 = Cardinality(AheadOf(S, before, c))
    BY <1>1, AheadProperties DEF n
  <2> HIDE DEF k
  <2>2. sorted[k] \in S /\ Cardinality(AheadOf(S, before, sorted[k])) = k - 1
    BY <1>3, <2>1
  <2>3. /\ <<sorted[k], c>> \in before => k - 1 < k - 1
        /\ <<c, sorted[k]>> \in before => k - 1 < k - 1
    BY <2>1, <2>2, AheadProperties
  <2>4. ~ (k - 1 < k - 1)
    BY <1>1, <2>1
  <2>5. sorted[k] = c
    BY <2>2, <2>3, <2>4 DEF StrictOrder
  <2> QED BY <2>1, <2>5
<1>7. Len(sorted) = n
  BY <1>1, <1>2
<1> QED BY <1>2, <1>4, <1>5, <1>6, <1>7 DEF sorted, n

-----------------------------------------------------------------------------
(* Induction over the parts of a finite set and over an interval.           *)

\* A family that has the empty set and with a set every set of one member more has them all.
LEMMA FiniteInduction ==
    ASSUME NEW S, IsFiniteSet(S), NEW P \in SUBSET SUBSET S, {} \in P,
           \A T \in P : \A x \in S \ T : T \cup {x} \in P
    PROVE  S \in P
<1> DEFINE n == Cardinality(S)
           bad == {k \in 0 .. n : \E T \in SUBSET S : T \notin P /\ Cardinality(T) = k}
<1>1. n \in Nat /\ bad \in SUBSET Int /\ IsFiniteSet(bad)
  <2>1. n \in Nat
    BY FS_CardinalityType
  <2>2. IsFiniteSet(0 .. n) /\ bad \in SUBSET (0 .. n)
    BY <2>1, FS_Interval
  <2> QED BY <2>1, <2>2, FS_Subset
<1>2. SUFFICES ASSUME S \notin P PROVE FALSE
  OBVIOUS
<1>3. n \in bad
  BY <1>1, <1>2
<1> HIDE DEF bad
<1>4. PICK k \in bad : \A j \in bad : k <= j
  BY <1>1, <1>3, SmallestExists
<1>5. PICK T \in SUBSET S : T \notin P /\ Cardinality(T) = k /\ k \in 0 .. n
  BY <1>4 DEF bad
<1>6. IsFiniteSet(T) /\ T # {}
  BY <1>5, FS_Subset
<1>7. PICK x \in T : TRUE
  BY <1>6
<1>8. IsFiniteSet(T \ {x}) /\ Cardinality(T \ {x}) = k - 1
  BY <1>5, <1>6, <1>7, FS_RemoveElement
<1>9. k - 1 \in 0 .. n /\ k - 1 \notin bad
  <2>1. k - 1 \in Nat
    BY <1>8, FS_CardinalityType
  <2>2. k \in Int /\ n \in Int
    BY <1>1, <1>5
  <2> QED BY <1>4, <1>5, <2>1, <2>2
<1>10. T \ {x} \in P
  BY <1>8, <1>9 DEF bad
<1>11. (T \ {x}) \cup {x} \in P /\ (T \ {x}) \cup {x} = T
  BY <1>7, <1>10
<1> QED BY <1>5, <1>11

\* What holds of 0, and of the next number as long as it is in reach, holds of all.
LEMMA UpInduction ==
    ASSUME NEW n \in Nat, NEW P, 0 \in P, \A k \in P : k \in 0 .. n - 1 => k + 1 \in P
    PROVE  \A k \in 0 .. n : k \in P
<1> DEFINE bad == {k \in 0 .. n : k \notin P}
<1>1. IsFiniteSet(bad) /\ bad \in SUBSET Int
  <2>1. IsFiniteSet(0 .. n) /\ bad \in SUBSET (0 .. n)
    BY FS_Interval
  <2> QED BY <2>1, FS_Subset
<1>2. SUFFICES ASSUME bad # {} PROVE FALSE
  OBVIOUS
<1> HIDE DEF bad
<1>3. PICK k \in bad : \A j \in bad : k <= j
  BY <1>1, <1>2, SmallestExists
<1>4. k \in 0 .. n /\ k \notin P
  BY DEF bad
<1>5. k # 0 /\ k - 1 \in 0 .. n /\ k - 1 \in 0 .. n - 1
  BY <1>4
<1>6. k - 1 \notin bad
  BY <1>3, <1>4, <1>5
<1>7. k - 1 \in P
  BY <1>5, <1>6 DEF bad
<1>8. (k - 1) + 1 = k
  BY <1>4
<1> QED BY <1>4, <1>5, <1>7, <1>8

-----------------------------------------------------------------------------
(* Sums. *)

\* A sum takes some member and adds the sum of the others.
SumStep(f, g, s) ==
    IF s = {} THEN 0 ELSE f[CHOOSE x \in s : TRUE] + g[s \ {CHOOSE x \in s : TRUE}]
SumBy(f, S) == CHOOSE g : g = [s \in SUBSET S |-> SumStep(f, g, s)]

LEMMA SumIsBy == ASSUME NEW f, NEW S PROVE SumFunctionOnSet(f, S) = SumBy(f, S)[S]
BY DEF SumFunctionOnSet, FoldFunctionOnSet, MapThenFoldSet, SumBy, SumStep

\* There is a function that does so for all parts of a finite set.
LEMMA SumByExists ==
    ASSUME NEW S, IsFiniteSet(S), NEW f
    PROVE  SumBy(f, S) = [s \in SUBSET S |-> SumStep(f, SumBy(f, S), s)]
<1> DEFINE n == Cardinality(S)
           Small(k) == {s \in SUBSET S : Cardinality(s) <= k}
           Good(k) == \E g : \A s \in Small(k) : g[s] = SumStep(f, g, s)
           P == {k \in 0 .. n : Good(k)}
<1>1. n \in Nat /\ \A s \in SUBSET S : IsFiniteSet(s) /\ Cardinality(s) \in 0 .. n
  <2>1. n \in Nat
    BY FS_CardinalityType
  <2>2. ASSUME NEW s \in SUBSET S PROVE IsFiniteSet(s) /\ Cardinality(s) \in 0 .. n
    <3>1. IsFiniteSet(s) /\ Cardinality(s) <= n
      BY FS_Subset
    <3>2. Cardinality(s) \in Nat
      BY <3>1, FS_CardinalityType
    <3> HIDE DEF n
    <3> QED BY <2>1, <3>1, <3>2
  <2> QED BY <2>1, <2>2
<1> HIDE DEF n
<1>2. 0 \in P
  <2>1. \A s \in Small(0) : s = {}
    <3> SUFFICES ASSUME NEW s \in Small(0) PROVE s = {}
      OBVIOUS
    <3>1. Cardinality(s) = 0 /\ IsFiniteSet(s)
      BY <1>1
    <3> QED BY <3>1, FS_EmptySet
  <2> DEFINE g == [s \in Small(0) |-> 0]
  <2>2. \A s \in Small(0) : g[s] = SumStep(f, g, s)
    BY <2>1 DEF SumStep
  <2>3. Good(0)
    BY <2>2
  <2> QED BY <1>1, <2>3
<1>3. ASSUME NEW k \in P, k \in 0 .. n - 1 PROVE k + 1 \in P
  <2>1. PICK g : \A s \in Small(k) : g[s] = SumStep(f, g, s)
    OBVIOUS
  <2> DEFINE h == [s \in Small(k + 1) |-> SumStep(f, g, s)]
  <2>2. ASSUME NEW s \in Small(k + 1), s # {}
        PROVE  s \ {CHOOSE x \in s : TRUE} \in Small(k)
    <3> DEFINE x == CHOOSE y \in s : TRUE
    <3>1. x \in s
      BY <2>2
    <3>2. IsFiniteSet(s) /\ Cardinality(s) \in 0 .. n /\ Cardinality(s) <= k + 1
      BY <1>1
    <3> HIDE DEF x
    <3>3. Cardinality(s \ {x}) = Cardinality(s) - 1
      BY <3>1, <3>2, FS_RemoveElement
    <3>4. Cardinality(s \ {x}) <= k
      BY <1>1, <1>3, <3>2, <3>3
    <3> QED BY <3>4 DEF x
  <2>3. ASSUME NEW s \in Small(k) PROVE s \in Small(k + 1) /\ h[s] = g[s]
    <3>1. Cardinality(s) \in 0 .. n /\ Cardinality(s) <= k
      BY <1>1
    <3>2. Cardinality(s) <= k + 1
      BY <1>1, <1>3, <3>1
    <3> QED BY <2>1, <3>2
  <2>4. \A s \in Small(k + 1) : h[s] = SumStep(f, h, s)
    <3> SUFFICES ASSUME NEW s \in Small(k + 1) PROVE SumStep(f, g, s) = SumStep(f, h, s)
      OBVIOUS
    <3> HIDE DEF h
    <3> QED BY <2>2, <2>3 DEF SumStep
  <2> HIDE DEF h
  <2>5. Good(k + 1)
    BY <2>4
  <2> QED BY <1>1, <1>3, <2>5
<1>4. n \in P
  <2> HIDE DEF P
  <2> QED BY <1>1, <1>2, <1>3, UpInduction
<1>5. PICK g : \A s \in SUBSET S : g[s] = SumStep(f, g, s)
  <2>1. Small(n) = SUBSET S
    BY <1>1
  <2> QED BY <1>4, <2>1
<1> DEFINE h == [s \in SUBSET S |-> g[s]]
<1>6. h = [s \in SUBSET S |-> SumStep(f, h, s)]
  <2>1. ASSUME NEW s \in SUBSET S PROVE SumStep(f, g, s) = SumStep(f, h, s)
    <3>1. s \ {CHOOSE x \in s : TRUE} \in SUBSET S
      OBVIOUS
    <3>2. h[s \ {CHOOSE x \in s : TRUE}] = g[s \ {CHOOSE x \in s : TRUE}]
      BY <3>1
    <3> QED BY <3>2 DEF SumStep
  <2> QED BY <1>5, <2>1
<1> HIDE DEF h
<1> QED BY <1>6 DEF SumBy

LEMMA SumBySteps ==
    ASSUME NEW S, IsFiniteSet(S), NEW f, NEW s \in SUBSET S
    PROVE  SumBy(f, S)[s] = SumStep(f, SumBy(f, S), s)
<1> DEFINE g == SumBy(f, S)
<1>1. g = [t \in SUBSET S |-> SumStep(f, g, t)]
  BY SumByExists
<1> HIDE DEF g
<1>2. g[s] = SumStep(f, g, s)
  <2> DEFINE h == [t \in SUBSET S |-> SumStep(f, g, t)]
  <2>1. h[s] = SumStep(f, g, s)
    OBVIOUS
  <2> HIDE DEF h
  <2>2. g = h
    BY <1>1 DEF h
  <2> QED BY <2>1, <2>2
<1> QED BY <1>2 DEF g

\* The part of a set is summed as on its own.
LEMMA SumOfPart ==
    ASSUME NEW S, IsFiniteSet(S), NEW f, NEW T \in SUBSET S
    PROVE  /\ SumFunctionOnSet(f, T) = SumBy(f, S)[T]
           /\ SumFunctionOnSet(f, {}) = 0
           /\ T # {} =>
                 \E y \in T : SumFunctionOnSet(f, T) = f[y] + SumFunctionOnSet(f, T \ {y})
<1> DEFINE P(R) == {s \in SUBSET R : SumBy(f, S)[s] = SumBy(f, R)[s]}
<1>1. ASSUME NEW R \in SUBSET S PROVE R \in P(R)
  <2>1. IsFiniteSet(R)
    BY FS_Subset
  <2>2. /\ \A s \in SUBSET S : SumBy(f, S)[s] = SumStep(f, SumBy(f, S), s)
        /\ \A s \in SUBSET R : SumBy(f, R)[s] = SumStep(f, SumBy(f, R), s)
    BY <2>1, SumBySteps
  <2> DEFINE n == Cardinality(R)
             same == {s \in SUBSET R : SumBy(f, S)[s] = SumBy(f, R)[s]}
             Q == {k \in 0 .. n : \A s \in SUBSET R : Cardinality(s) <= k => s \in same}
  <2>3. n \in Nat /\ \A s \in SUBSET R : IsFiniteSet(s) /\ Cardinality(s) \in 0 .. n
    <3>1. n \in Nat
      BY <2>1, FS_CardinalityType
    <3>2. ASSUME NEW s \in SUBSET R PROVE IsFiniteSet(s) /\ Cardinality(s) \in 0 .. n
      <4>1. IsFiniteSet(s) /\ Cardinality(s) <= n
        BY <2>1, FS_Subset
      <4>2. Cardinality(s) \in Nat
        BY <4>1, FS_CardinalityType
      <4> HIDE DEF n
      <4> QED BY <3>1, <4>1, <4>2
    <3> QED BY <3>1, <3>2
  <2> HIDE DEF n
  <2>4. 0 \in Q
    <3>1. ASSUME NEW s \in SUBSET R, Cardinality(s) <= 0 PROVE s \in same
      <4>1. s = {}
        <5>1. IsFiniteSet(s) /\ Cardinality(s) = 0
          BY <2>3, <3>1
        <5> QED BY <5>1, FS_EmptySet
      <4>2. s \in SUBSET S
        OBVIOUS
      <4> QED BY <2>2, <4>1, <4>2 DEF SumStep
    <3> QED BY <2>3, <3>1
  <2>5. ASSUME NEW k \in Q, k \in 0 .. n - 1 PROVE k + 1 \in Q
    <3>1. ASSUME NEW s \in SUBSET R, Cardinality(s) <= k + 1 PROVE s \in same
      <4>1. CASE s = {}
        BY <2>2, <4>1 DEF SumStep
      <4>2. CASE s # {}
        <5> DEFINE x == CHOOSE y \in s : TRUE
        <5>1. x \in s /\ s \in SUBSET S
          BY <4>2
        <5>2. IsFiniteSet(s) /\ Cardinality(s) \in 0 .. n
          BY <2>3
        <5> HIDE DEF x
        <5>3. Cardinality(s \ {x}) = Cardinality(s) - 1
          BY <5>1, <5>2, FS_RemoveElement
        <5>4. Cardinality(s \ {x}) <= k
          BY <2>3, <2>5, <3>1, <5>2, <5>3
        <5>5. s \ {x} \in same
          BY <2>5, <5>4
        <5>6. /\ SumBy(f, S)[s] = f[x] + SumBy(f, S)[s \ {x}]
              /\ SumBy(f, R)[s] = f[x] + SumBy(f, R)[s \ {x}]
          BY <2>2, <4>2, <5>1 DEF SumStep, x
        <5> QED BY <5>5, <5>6
      <4> QED BY <4>1, <4>2
    <3>2. k + 1 \in 0 .. n
      BY <2>3, <2>5
    <3> QED BY <3>1, <3>2
  <2>6. n \in Q
    <3> HIDE DEF Q
    <3> QED BY <2>3, <2>4, <2>5, UpInduction
  <2>7. R \in SUBSET R /\ Cardinality(R) <= n
    BY <2>3 DEF n
  <2> QED BY <2>6, <2>7
<1>2. \A R \in SUBSET S : SumFunctionOnSet(f, R) = SumBy(f, S)[R]
  BY <1>1, SumIsBy
<1>3. \A s \in SUBSET S : SumBy(f, S)[s] = SumStep(f, SumBy(f, S), s)
  BY SumBySteps
<1>4. SumFunctionOnSet(f, {}) = 0
  BY <1>2, <1>3 DEF SumStep
<1>5. ASSUME T # {} PROVE \E y \in T : SumFunctionOnSet(f, T) = f[y] + SumFunctionOnSet(f, T \ {y})
  <2> DEFINE y == CHOOSE z \in T : TRUE
  <2>1. y \in T /\ T \ {y} \in SUBSET S
    BY <1>5
  <2>2. SumBy(f, S)[T] = f[y] + SumBy(f, S)[T \ {y}]
    BY <1>3, <1>5 DEF SumStep
  <2> HIDE DEF y
  <2> QED BY <1>2, <2>1, <2>2
<1> QED BY <1>2, <1>4, <1>5

\* A sum of numbers is a number, and any member may be taken first.
THEOREM SumProperties ==
    ASSUME NEW S, IsFiniteSet(S), NEW f, \A x \in S : f[x] \in Int
    PROVE  /\ SumFunctionOnSet(f, {}) = 0
           /\ SumFunctionOnSet(f, S) \in Int
           /\ \A x \in S : SumFunctionOnSet(f, S) = f[x] + SumFunctionOnSet(f, S \ {x})
<1> DEFINE n == Cardinality(S)
           Sum(T) == SumFunctionOnSet(f, T)
           Any(T) == Sum(T) \in Int /\ \A x \in T : Sum(T) = f[x] + Sum(T \ {x})
           Q == {k \in 0 .. n : \A T \in SUBSET S : Cardinality(T) <= k => Any(T)}
<1>1. n \in Nat /\ \A s \in SUBSET S : IsFiniteSet(s) /\ Cardinality(s) \in 0 .. n
  <2>1. n \in Nat
    BY FS_CardinalityType
  <2>2. ASSUME NEW s \in SUBSET S PROVE IsFiniteSet(s) /\ Cardinality(s) \in 0 .. n
    <3>1. IsFiniteSet(s) /\ Cardinality(s) <= n
      BY FS_Subset
    <3>2. Cardinality(s) \in Nat
      BY <3>1, FS_CardinalityType
    <3> HIDE DEF n
    <3> QED BY <2>1, <3>1, <3>2
  <2> QED BY <2>1, <2>2
<1> HIDE DEF n
<1>2. /\ Sum({}) = 0
      /\ \A T \in SUBSET S : T # {} => \E y \in T : Sum(T) = f[y] + Sum(T \ {y})
  BY SumOfPart
<1>3. 0 \in Q
  <2>1. ASSUME NEW s \in SUBSET S, Cardinality(s) <= 0 PROVE s = {}
    <3>1. IsFiniteSet(s) /\ Cardinality(s) = 0
      BY <1>1, <2>1
    <3> QED BY <3>1, FS_EmptySet
  <2> HIDE DEF Sum
  <2> QED BY <1>1, <1>2, <2>1
<1>4. ASSUME NEW k \in Q, k \in 0 .. n - 1 PROVE k + 1 \in Q
  <2>1. ASSUME NEW T \in SUBSET S, Cardinality(T) <= k + 1, T # {} PROVE Any(T)
    <3>1. ASSUME NEW s \in SUBSET T, s # T PROVE Any(s)
      <4>1. IsFiniteSet(T) /\ Cardinality(T) \in 0 .. n
        BY <1>1
      <4>2. PICK z \in T : s \in SUBSET (T \ {z})
        BY <3>1
      <4>3. Cardinality(T \ {z}) = Cardinality(T) - 1 /\ IsFiniteSet(T \ {z})
        BY <4>1, FS_RemoveElement
      <4>4. Cardinality(s) <= Cardinality(T \ {z}) /\ Cardinality(s) \in 0 .. n
        BY <1>1, <4>2, <4>3, FS_Subset
      <4>5. Cardinality(s) <= k
        BY <1>1, <1>4, <2>1, <4>1, <4>3, <4>4
      <4> QED BY <1>4, <4>5
    <3>2. PICK y \in T : Sum(T) = f[y] + Sum(T \ {y})
      BY <1>2, <2>1
    <3> HIDE DEF Sum
    <3>3. Sum(T) \in Int
      BY <3>1, <3>2
    <3>4. ASSUME NEW x \in T, x # y PROVE Sum(T) = f[x] + Sum(T \ {x})
      <4> DEFINE rest == Sum((T \ {x}) \ {y})
      <4>1. (T \ {y}) \ {x} = (T \ {x}) \ {y} /\ x \in T \ {y} /\ y \in T \ {x}
        BY <3>4
      <4>2. Sum(T \ {y}) = f[x] + rest
        BY <3>1, <4>1
      <4>3. Sum(T \ {x}) = f[y] + rest
        BY <3>1, <4>1
      <4>4. rest \in Int
        BY <3>1, <3>4
      <4> QED BY <3>2, <4>2, <4>3, <4>4
    <3> QED BY <3>2, <3>3, <3>4
  <2>2. k + 1 \in 0 .. n
    BY <1>1, <1>4
  <2>3. Any({})
    <3> HIDE DEF Sum
    <3> QED BY <1>2
  <2> HIDE DEF Any
  <2> QED BY <2>1, <2>2, <2>3
<1>5. n \in Q
  <2> HIDE DEF Q
  <2> QED BY <1>1, <1>3, <1>4, UpInduction
<1>6. S \in SUBSET S /\ Cardinality(S) <= n
  BY <1>1 DEF n
<1> QED BY <1>2, <1>5, <1>6

\* What is added up of numbers is a number.
LEMMA AddUpIsNumber ==
    ASSUME NEW S, IsFiniteSet(S), NEW value, \A x \in S : value[x] \in Int
    PROVE  AddUp(S, value) \in Int
BY SumProperties DEF AddUp

\* Nothing adds up to nothing.
LEMMA AddUpNothing == ASSUME NEW value PROVE AddUp({}, value) = 0
<1>1. IsFiniteSet({}) /\ {} \in SUBSET {}
  BY FS_EmptySet
<1> QED BY <1>1, SumOfPart DEF AddUp

\* Functions that agree have one sum.
LEMMA SumAgrees ==
    ASSUME NEW S, IsFiniteSet(S), NEW f, NEW g, \A x \in S : f[x] \in Int /\ g[x] = f[x]
    PROVE  SumFunctionOnSet(f, S) = SumFunctionOnSet(g, S)
<1> DEFINE P == {T \in SUBSET S : SumFunctionOnSet(f, T) = SumFunctionOnSet(g, T)}
<1>1. {} \in P
  BY SumOfPart
<1>2. ASSUME NEW T \in P, NEW x \in S \ T PROVE T \cup {x} \in P
  <2> DEFINE U == T \cup {x}
  <2>1. IsFiniteSet(U) /\ U \ {x} = T /\ U \in SUBSET S
    BY FS_Subset
  <2>2. \A y \in U : f[y] \in Int /\ g[y] \in Int
    BY <2>1
  <2> HIDE DEF U
  <2>3. \A y \in U : SumFunctionOnSet(f, U) = f[y] + SumFunctionOnSet(f, U \ {y})
    BY <2>1, <2>2, SumProperties
  <2>4. \A y \in U : SumFunctionOnSet(g, U) = g[y] + SumFunctionOnSet(g, U \ {y})
    BY <2>1, <2>2, SumProperties
  <2>5. x \in U
    BY DEF U
  <2>6. SumFunctionOnSet(f, U) = SumFunctionOnSet(g, U)
    BY <2>1, <2>3, <2>4, <2>5
  <2> QED BY <2>1, <2>6 DEF U
<1>3. S \in P
  <2> HIDE DEF P
  <2>1. P \in SUBSET SUBSET S
    BY DEF P
  <2> QED BY <1>1, <1>2, <2>1, FiniteInduction
<1> QED BY <1>3

\* What one more member adds.
LEMMA SumOfOneMore ==
    ASSUME NEW S, IsFiniteSet(S), NEW f, \A x \in S : f[x] \in Int,
           NEW T \in SUBSET S, NEW x \in S \ T
    PROVE  /\ SumFunctionOnSet(f, T \cup {x}) = f[x] + SumFunctionOnSet(f, T)
           /\ SumFunctionOnSet(f, T) \in Int /\ SumFunctionOnSet(f, T \cup {x}) \in Int
<1> DEFINE U == T \cup {x}
<1>1. IsFiniteSet(U) /\ IsFiniteSet(T) /\ U \ {x} = T /\ x \in U /\ \A y \in U : f[y] \in Int
  BY FS_Subset
<1>2. SumFunctionOnSet(f, T) \in Int
  BY <1>1, SumProperties
<1> HIDE DEF U
<1>3. SumFunctionOnSet(f, U) \in Int /\ SumFunctionOnSet(f, U) = f[x] + SumFunctionOnSet(f, U \ {x})
  BY <1>1, SumProperties
<1> QED BY <1>1, <1>2, <1>3 DEF U

\* A sum grows with what is summed.
LEMMA SumGrows ==
    ASSUME NEW S, IsFiniteSet(S), NEW f, NEW g,
           \A x \in S : f[x] \in Int /\ g[x] \in Int /\ f[x] <= g[x]
    PROVE  SumFunctionOnSet(f, S) <= SumFunctionOnSet(g, S)
<1> DEFINE P == {T \in SUBSET S : SumFunctionOnSet(f, T) <= SumFunctionOnSet(g, T)}
<1>1. {} \in P
  BY SumOfPart
<1>2. ASSUME NEW T \in P, NEW x \in S \ T PROVE T \cup {x} \in P
  <2>1. /\ SumFunctionOnSet(f, T \cup {x}) = f[x] + SumFunctionOnSet(f, T)
        /\ SumFunctionOnSet(f, T) \in Int
    BY SumOfOneMore
  <2>2. /\ SumFunctionOnSet(g, T \cup {x}) = g[x] + SumFunctionOnSet(g, T)
        /\ SumFunctionOnSet(g, T) \in Int
    BY SumOfOneMore
  <2>3. f[x] \in Int /\ g[x] \in Int /\ f[x] <= g[x]
    OBVIOUS
  <2>4. SumFunctionOnSet(f, T \cup {x}) <= SumFunctionOnSet(g, T \cup {x})
    BY <2>1, <2>2, <2>3
  <2> QED BY <2>4
<1>3. S \in P
  <2> HIDE DEF P
  <2>1. P \in SUBSET SUBSET S
    BY DEF P
  <2> QED BY <1>1, <1>2, <2>1, FiniteInduction
<1> QED BY <1>3

\* The sum of amounts, none negative, is not less than that of a part of them.
LEMMA SumOfLess ==
    ASSUME NEW S, IsFiniteSet(S), NEW f, \A x \in S : f[x] \in Nat, NEW T \in SUBSET S
    PROVE  /\ SumFunctionOnSet(f, S) \in Nat /\ SumFunctionOnSet(f, T) \in Nat
           /\ SumFunctionOnSet(f, T) <= SumFunctionOnSet(f, S)
<1> DEFINE P == {U \in SUBSET S : /\ SumFunctionOnSet(f, U) \in Nat
                                  /\ SumFunctionOnSet(f, U \cap T) \in Nat
                                  /\ SumFunctionOnSet(f, U \cap T) <= SumFunctionOnSet(f, U)}
<1>1. {} \in P
  BY SumOfPart
<1>2. ASSUME NEW U \in P, NEW x \in S \ U PROVE U \cup {x} \in P
  <2>1. /\ SumFunctionOnSet(f, U \cup {x}) = f[x] + SumFunctionOnSet(f, U)
        /\ f[x] \in Nat /\ SumFunctionOnSet(f, U) \in Nat
    BY SumOfOneMore
  <2>2. CASE x \in T
    <3>1. (U \cup {x}) \cap T = (U \cap T) \cup {x} /\ U \cap T \in SUBSET S /\ x \in S \ (U \cap T)
      BY <2>2
    <3>2. SumFunctionOnSet(f, (U \cap T) \cup {x}) = f[x] + SumFunctionOnSet(f, U \cap T)
      BY <3>1, SumOfOneMore
    <3>3. /\ SumFunctionOnSet(f, U \cap T) \in Nat
          /\ SumFunctionOnSet(f, U \cap T) <= SumFunctionOnSet(f, U)
      OBVIOUS
    <3> DEFINE all == SumFunctionOnSet(f, U \cup {x})
               part == SumFunctionOnSet(f, (U \cup {x}) \cap T)
               before == SumFunctionOnSet(f, U)
               partBefore == SumFunctionOnSet(f, U \cap T)
               more == f[x]
    <3>4. all = more + before /\ part = more + partBefore
      BY <2>1, <3>1, <3>2
    <3>5. more \in Nat /\ before \in Nat /\ partBefore \in Nat /\ partBefore <= before
      BY <2>1, <3>3
    <3>6. U \cup {x} \in SUBSET S
      OBVIOUS
    <3> HIDE DEF all, part, before, partBefore, more
    <3>7. all \in Nat /\ part \in Nat /\ part <= all
      BY <3>4, <3>5
    <3> QED BY <3>6, <3>7 DEF all, part
  <2>3. CASE x \notin T
    <3>1. (U \cup {x}) \cap T = U \cap T
      BY <2>3
    <3>2. /\ SumFunctionOnSet(f, U \cap T) \in Nat
          /\ SumFunctionOnSet(f, U \cap T) <= SumFunctionOnSet(f, U)
      OBVIOUS
    <3> DEFINE all == SumFunctionOnSet(f, U \cup {x})
               before == SumFunctionOnSet(f, U)
               part == SumFunctionOnSet(f, U \cap T)
               more == f[x]
    <3>3. all = more + before /\ more \in Nat /\ before \in Nat /\ part \in Nat /\ part <= before
      BY <2>1, <3>2
    <3>4. U \cup {x} \in SUBSET S
      OBVIOUS
    <3>5. SumFunctionOnSet(f, (U \cup {x}) \cap T) = part
      BY <3>1
    <3> HIDE DEF all, before, part, more
    <3>6. all \in Nat /\ part \in Nat /\ part <= all
      BY <3>3
    <3> QED BY <3>4, <3>5, <3>6 DEF all
  <2> QED BY <2>2, <2>3
<1>3. S \in P
  <2> HIDE DEF P
  <2>1. P \in SUBSET SUBSET S
    BY DEF P
  <2> QED BY <1>1, <1>2, <2>1, FiniteInduction
<1>4. S \cap T = T
  OBVIOUS
<1> QED BY <1>3, <1>4

\* Amounts that are all less, of a part of what is added up, add up to less.
LEMMA AddUpFalls ==
    ASSUME NEW S, IsFiniteSet(S), NEW f, \A x \in S : f[x] \in Nat,
           NEW T \in SUBSET S, T # {}, NEW g, \A x \in T : g[x] \in Nat /\ g[x] < f[x]
    PROVE  AddUp(S, f) \in Nat /\ AddUp(T, g) \in Nat /\ AddUp(T, g) < AddUp(S, f)
<1>1. IsFiniteSet(T)
  BY FS_Subset
<1>2. PICK x \in T : TRUE
  OBVIOUS
<1> DEFINE U == T \ {x}
<1>3. IsFiniteSet(U)
  BY <1>1, FS_Subset
<1>4. /\ SumFunctionOnSet(f, T) = f[x] + SumFunctionOnSet(f, U)
      /\ SumFunctionOnSet(g, T) = g[x] + SumFunctionOnSet(g, U)
  <2>1. \A y \in T : f[y] \in Int /\ g[y] \in Int
    OBVIOUS
  <2> QED BY <1>1, <2>1, SumProperties
<1>5. SumFunctionOnSet(g, U) <= SumFunctionOnSet(f, U)
  <2>1. \A y \in U : g[y] \in Int /\ f[y] \in Int /\ g[y] <= f[y]
    OBVIOUS
  <2> HIDE DEF U
  <2> QED BY <1>3, <2>1, SumGrows
<1>6. SumFunctionOnSet(f, U) \in Int /\ SumFunctionOnSet(g, U) \in Int
  <2>1. \A y \in U : g[y] \in Int /\ f[y] \in Int
    OBVIOUS
  <2> HIDE DEF U
  <2> QED BY <1>3, <2>1, SumProperties
<1>7. SumFunctionOnSet(f, S) \in Nat /\ SumFunctionOnSet(f, T) <= SumFunctionOnSet(f, S)
         /\ SumFunctionOnSet(f, T) \in Nat
  BY SumOfLess
<1>8. SumFunctionOnSet(g, T) \in Nat
  BY <1>1, SumOfLess
<1> HIDE DEF U
<1> QED BY <1>2, <1>4, <1>5, <1>6, <1>7, <1>8 DEF AddUp

\* A sum over what a set is mapped to, one for one, is a sum over the set.
LEMMA SumRenamed ==
    ASSUME NEW S, IsFiniteSet(S), NEW h, \A x, y \in S : h[x] = h[y] => x = y,
           NEW f, \A x \in S : f[h[x]] \in Int
    PROVE  SumFunctionOnSet(f, {h[x] : x \in S})
               = SumFunctionOnSet([x \in S |-> f[h[x]]], S)
<1> DEFINE g == [x \in S |-> f[h[x]]]
           Image(T) == {h[x] : x \in T}
           P == {T \in SUBSET S : SumFunctionOnSet(f, Image(T)) = SumFunctionOnSet(g, T)}
<1>1. {} \in P
  <2>1. Image({}) = {}
    OBVIOUS
  <2>2. SumFunctionOnSet(f, {}) = 0 /\ SumFunctionOnSet(g, {}) = 0
    BY SumOfPart
  <2> HIDE DEF Image, g
  <2> QED BY <2>1, <2>2
<1>2. IsFiniteSet(Image(S)) /\ \A y \in Image(S) : f[y] \in Int
  BY ValuesAreFinite
<1>3. ASSUME NEW T \in P, NEW x \in S \ T PROVE T \cup {x} \in P
  <2>1. /\ Image(T \cup {x}) = Image(T) \cup {h[x]}
        /\ Image(T) \in SUBSET Image(S) /\ h[x] \in Image(S) \ Image(T)
    OBVIOUS
  <2>2. \A y \in S : g[y] \in Int /\ g[y] = f[h[y]]
    OBVIOUS
  <2> HIDE DEF Image, g
  <2>3. /\ SumFunctionOnSet(f, Image(T) \cup {h[x]}) = f[h[x]] + SumFunctionOnSet(f, Image(T))
    BY <1>2, <2>1, SumOfOneMore
  <2>4. SumFunctionOnSet(g, T \cup {x}) = g[x] + SumFunctionOnSet(g, T)
    BY <2>2, SumOfOneMore
  <2> QED BY <2>1, <2>2, <2>3, <2>4
<1>4. S \in P
  <2> HIDE DEF P
  <2>1. P \in SUBSET SUBSET S
    BY DEF P
  <2> QED BY <1>1, <1>3, <2>1, FiniteInduction
<1> QED BY <1>4

\* What n members get of an amount divided among them: each one share, and the first of them, as
\* many as are left over, one more; together all of it, and less if some take less.
LEMMA SharesAddUp ==
    ASSUME NEW E \in SUBSET Int, IsFiniteSet(E), NEW f, NEW base \in Nat,
           NEW rest \in 0 .. Cardinality(E),
           \A k \in 1 .. Cardinality(E) :
              /\ f[Nth(E, k)] \in Int
              /\ f[Nth(E, k)] <= base + (IF k <= rest THEN 1 ELSE 0)
    PROVE  /\ AddUp(E, f) \in Int
           /\ AddUp(E, f) <= Cardinality(E) * base + rest
           /\ (\A k \in 1 .. Cardinality(E) : f[Nth(E, k)] = base + (IF k <= rest THEN 1 ELSE 0))
                 => AddUp(E, f) = Cardinality(E) * base + rest
<1> DEFINE n == Cardinality(E)
           share(k) == base + (IF k <= rest THEN 1 ELSE 0)
           first(m) == {Nth(E, k) : k \in 1 .. m}
           total(m) == m * base + (IF m <= rest THEN m ELSE rest)
           sum(m) == SumFunctionOnSet(f, first(m))
           exact == \A k \in 1 .. n : f[Nth(E, k)] = share(k)
           P == {m \in 0 .. n : sum(m) \in Int /\ sum(m) <= total(m) /\ (exact => sum(m) = total(m))}
<1>1. n \in Nat
  BY FS_CardinalityType
<1>2. \A k \in 1 .. n : Nth(E, k) \in E
  BY NthProperties
<1>3. \A x \in E : \E k \in 1 .. n : Nth(E, k) = x
  BY NthOf
<1>4. \A x \in E : f[x] \in Int
  BY <1>3
<1>5. \A k, l \in 1 .. n : Nth(E, k) = Nth(E, l) => k = l
  BY NthInjective
<1>6. 0 \in P
  <2>1. first(0) = {}
    OBVIOUS
  <2>2. sum(0) = 0
    BY <2>1, <1>4, SumProperties
  <2>3. total(0) = 0
    OBVIOUS
  <2> HIDE DEF sum, total, exact
  <2> QED BY <1>1, <2>2, <2>3
<1>7. ASSUME NEW m \in P, m \in 0 .. n - 1 PROVE m + 1 \in P
  <2>1. m + 1 \in 1 .. n /\ m \in Nat
    BY <1>1, <1>7
  <2>2. first(m + 1) = first(m) \cup {Nth(E, m + 1)}
    BY <2>1
  <2>3. first(m) \in SUBSET E /\ Nth(E, m + 1) \in E \ first(m)
    <3>1. \A k \in 1 .. m : k \in 1 .. n /\ k # m + 1
      BY <1>1, <1>7
    <3> QED BY <1>2, <1>5, <2>1, <3>1
  <2> HIDE DEF first
  <2>4. sum(m + 1) = f[Nth(E, m + 1)] + sum(m) /\ sum(m) \in Int /\ sum(m + 1) \in Int
    <3> DEFINE T == first(m)
               x == Nth(E, m + 1)
    <3>1. T \in SUBSET E /\ x \in E \ T
      BY <2>3
    <3>2. sum(m + 1) = SumFunctionOnSet(f, T \cup {x}) /\ sum(m) = SumFunctionOnSet(f, T)
      BY <2>2
    <3> HIDE DEF T, x
    <3>3. /\ SumFunctionOnSet(f, T \cup {x}) = f[x] + SumFunctionOnSet(f, T)
          /\ SumFunctionOnSet(f, T) \in Int /\ SumFunctionOnSet(f, T \cup {x}) \in Int
      BY <1>4, <3>1, SumOfOneMore
    <3> QED BY <3>2, <3>3 DEF x
  <2>5. total(m + 1) = total(m) + share(m + 1) /\ total(m) \in Int /\ share(m + 1) \in Int
    <3>1. (m + 1) * base = m * base + base /\ m * base \in Int
      BY <2>1
    <3> QED BY <1>1, <2>1, <3>1
  <2>6. /\ f[Nth(E, m + 1)] \in Int /\ f[Nth(E, m + 1)] <= share(m + 1)
        /\ exact => f[Nth(E, m + 1)] = share(m + 1)
    BY <2>1
  <2>7. sum(m) <= total(m) /\ (exact => sum(m) = total(m))
    OBVIOUS
  <2> HIDE DEF sum, total, share, exact
  <2>8. sum(m + 1) <= total(m + 1) /\ (exact => sum(m + 1) = total(m + 1))
    BY <2>4, <2>5, <2>6, <2>7
  <2> QED BY <1>1, <2>1, <2>4, <2>8
<1>8. n \in P
  <2> HIDE DEF P
  <2>1. \A k \in 0 .. n : k \in P
    BY <1>1, <1>6, <1>7, UpInduction
  <2> QED BY <1>1, <2>1
<1>9. first(n) = E
  BY <1>2, <1>3
<1>10. total(n) = n * base + rest
  BY <1>1
<1> HIDE DEF first, total
<1> QED BY <1>8, <1>9, <1>10 DEF AddUp
=============================================================================
