------------------------- MODULE StreamNames_proofs -------------------------
(***************************************************************************)
(* Proofs about the stream names, for names of any length over any         *)
(* letters.  Every stage of the sanitisation keeps the letters in their    *)
(* order: there is a rising map from the positions of its result to those  *)
(* of its argument (LettersKept), and such maps compose.                   *)
(***************************************************************************)
EXTENDS StreamNames, TLAPS, SequenceTheorems, FiniteSetTheorems, WellFoundedInduction

\* A non-empty set of natural numbers has a least element.
LEMMA LeastPosition ==
  ASSUME NEW T \in SUBSET Nat, T # {}
  PROVE  \E x \in T : \A y \in T : x <= y
<1>1. PICK R : R = OpToRel(<, Nat)
  BY Zenon
<1>2. \A x, y \in Nat : y < x => <<y, x>> \in R
  BY <1>1, Zenon DEF OpToRel
<1>3. IsWellFoundedOn(R, Nat)
  BY <1>1, NatLessThanWellFounded, Zenon
<1>4. \E x \in T : \A y \in T : <<y, x>> \notin R
  BY <1>3, WFMin, Zenon
<1>5. \E x \in T : \A y \in T : ~ (y < x)
  BY <1>2, <1>4, Zenon
<1>. HIDE <1>1
<1>. QED  BY <1>5, SMT

-----------------------------------------------------------------------------
(***************************************************************************)
(* f lists the elements of K in order.                                     *)
(***************************************************************************)
Rising(f, n, K) == f \in [1 .. n -> K] /\ \A i, j \in 1 .. n : i < j => f[i] < f[j]

Lists(f, n, K) == Rising(f, n, K) /\ \A k \in K : \E i \in 1 .. n : f[i] = k

\* Two lists of one set agree: the first difference cannot be made good.
LEMMA ListsAgree ==
  ASSUME NEW K \in SUBSET Nat, NEW n \in Nat, NEW m \in Nat, NEW f, NEW g,
         Lists(f, n, K), Lists(g, m, K)
  PROVE  n <= m /\ \A i \in 1 .. n : f[i] = g[i]
<1>. DEFINE D == {i \in 1 .. n : i > m \/ f[i] # g[i]}
<1>1. /\ \A i \in 1 .. n : f[i] \in K /\ f[i] \in Nat
      /\ \A i, j \in 1 .. n : i < j => f[i] < f[j]
      /\ \A k \in K : \E i \in 1 .. n : f[i] = k
  BY DEF Lists, Rising
<1>2. /\ \A i \in 1 .. m : g[i] \in K /\ g[i] \in Nat
      /\ \A i, j \in 1 .. m : i < j => g[i] < g[j]
      /\ \A k \in K : \E i \in 1 .. m : g[i] = k
  BY DEF Lists, Rising
<1>3. ASSUME D # {}  PROVE FALSE
  <2>1. D \in SUBSET Nat
    OBVIOUS
  <2>2. PICK x \in D : \A y \in D : x <= y
    BY <1>3, <2>1, LeastPosition
  <2>3. x \in 1 .. n /\ \A j \in 1 .. n : j < x => j <= m /\ f[j] = g[j]
    BY <2>2
  <2>4. f[x] \in K /\ f[x] \in Nat
    BY <1>1, <2>3
  <2>5. PICK j \in 1 .. m : g[j] = f[x]
    BY <1>2, <2>4
  <2>6. ~(j < x)
    <3>1. SUFFICES ASSUME j < x  PROVE FALSE
      OBVIOUS
    <3>2. j \in 1 .. n /\ f[j] = g[j] /\ f[j] < f[x]
      BY <1>1, <2>3, <3>1
    <3>. QED  BY <2>4, <2>5, <3>2
  <2>7. x \in 1 .. m /\ f[x] # g[x] /\ j # x
    BY <2>2, <2>3, <2>5, <2>6
  <2>8. g[x] < f[x] /\ g[x] \in K /\ g[x] \in Nat
    BY <1>2, <2>5, <2>6, <2>7
  <2>9. PICK k \in 1 .. n : f[k] = g[x]
    BY <1>1, <2>8
  <2>10. k < x
    <3>1. ~(x < k) /\ x # k
      BY <1>1, <2>3, <2>4, <2>8, <2>9
    <3>. QED  BY <2>3, <3>1
  <2>11. k \in 1 .. m /\ g[k] = f[k] /\ g[k] < g[x]
    BY <1>2, <2>3, <2>7, <2>10
  <2>. QED  BY <2>8, <2>9, <2>11
<1>4. CASE D = {}
  <2>1. \A i \in 1 .. n : i <= m /\ f[i] = g[i]
    BY <1>4
  <2>. QED  BY <2>1
<1>. QED  BY <1>3, <1>4

\* A strictly growing rank within the number of elements takes every value.
LEMMA RankOnto ==
  ASSUME NEW K \in SUBSET Nat, IsFiniteSet(K), NEW r \in [K -> 1 .. Cardinality(K)],
         \A i, j \in K : i < j => r[i] < r[j]
  PROVE  /\ \A i, j \in K : r[i] = r[j] => i = j
         /\ \A k \in 1 .. Cardinality(K) : \E i \in K : r[i] = k
<1>1. Cardinality(K) \in Nat
  BY FS_CardinalityType
<1>2. \A i, j \in K : r[i] = r[j] => i = j
  <2>1. \A i \in K : i \in Nat /\ r[i] \in Nat
    BY <1>1
  <2>2. \A i, j \in K : i # j => i < j \/ j < i
    BY <2>1
  <2>. QED  BY <2>1, <2>2
<1>3. r \in Injection(K, 1 .. Cardinality(K))
  BY <1>2 DEF Injection, IsInjective
<1>4. IsFiniteSet(1 .. Cardinality(K)) /\ Cardinality(1 .. Cardinality(K)) = Cardinality(K)
  BY <1>1, FS_Interval
<1>5. r \in Surjection(K, 1 .. Cardinality(K))
  BY <1>3, <1>4, FS_Injection
<1>. QED  BY <1>2, <1>5 DEF Surjection

\* The elements in the order of their rank.
LEMMA RankLists ==
  ASSUME NEW K \in SUBSET Nat, NEW n \in Nat, NEW r \in [K -> 1 .. n],
         \A i, j \in K : i < j => r[i] < r[j],
         \A i, j \in K : r[i] = r[j] => i = j,
         NEW f, f \in [1 .. n -> K], \A k \in 1 .. n : r[f[k]] = k
  PROVE  Lists(f, n, K)
<1>1. ASSUME NEW i \in 1 .. n, NEW j \in 1 .. n, i < j  PROVE f[i] < f[j]
  <2>1. f[i] \in K /\ f[j] \in K /\ f[i] \in Nat /\ f[j] \in Nat
    OBVIOUS
  <2>2. ~(f[j] < f[i]) /\ f[i] # f[j]
    BY <1>1, <2>1
  <2>. QED  BY <2>1, <2>2
<1>2. ASSUME NEW k \in K  PROVE \E i \in 1 .. n : f[i] = k
  <2>1. r[k] \in 1 .. n /\ f[r[k]] \in K /\ r[f[r[k]]] = r[k]
    OBVIOUS
  <2>. QED  BY <2>1
<1>. QED  BY <1>1, <1>2 DEF Lists, Rising

\* The definition of Picked yields the list of a finite set.
LEMMA PickedLists ==
  ASSUME NEW K \in SUBSET Nat, IsFiniteSet(K), NEW s
  PROVE  /\ Cardinality(K) \in Nat
         /\ \E f : /\ Lists(f, Cardinality(K), K)
                   /\ Picked(s, K) = [k \in 1 .. Cardinality(K) |-> s[f[k]]]
<1>. DEFINE n == Cardinality(K)
            r == [i \in K |-> Cardinality({j \in K : j < i}) + 1]
            f == [k \in 1 .. n |-> CHOOSE i \in K : Cardinality({j \in K : j < i}) = k - 1]
<1>1. n \in Nat
  BY FS_CardinalityType
<1>2. ASSUME NEW i \in K
      PROVE  /\ Cardinality({j \in K : j < i}) \in Nat
             /\ Cardinality({j \in K : j < i}) < n
  <2>1. {j \in K : j < i} \in SUBSET K /\ {j \in K : j < i} # K
    OBVIOUS
  <2>2. /\ IsFiniteSet({j \in K : j < i}) /\ Cardinality({j \in K : j < i}) <= n
        /\ Cardinality({j \in K : j < i}) # n
    BY <2>1, FS_Subset
  <2>3. Cardinality({j \in K : j < i}) \in Nat
    BY <2>2, FS_CardinalityType
  <2>. QED  BY <1>1, <2>2, <2>3
<1>3. ASSUME NEW i \in K, NEW j \in K, i < j  PROVE r[i] < r[j]
  <2>. DEFINE A == {k \in K : k < i}
              B == {k \in K : k < j}
  <2>1. A \in SUBSET B /\ A # B /\ B \in SUBSET K
    <3>1. i \in B /\ i \notin A
      BY <1>3
    <3>2. \A k \in A : k < j
      BY <1>3
    <3>. QED  BY <3>1, <3>2
  <2>2. IsFiniteSet(B)
    BY <2>1, FS_Subset
  <2>3. Cardinality(A) <= Cardinality(B) /\ Cardinality(A) # Cardinality(B)
    BY <2>1, <2>2, FS_Subset
  <2>4. /\ r[i] = Cardinality(A) + 1 /\ r[j] = Cardinality(B) + 1
        /\ Cardinality(A) \in Nat /\ Cardinality(B) \in Nat
    BY <1>2
  <2>. HIDE DEF A, B, r
  <2>. QED  BY <2>3, <2>4
<1>4. r \in [K -> 1 .. n]
  BY <1>1, <1>2
<1>5. /\ \A i, j \in K : r[i] = r[j] => i = j
      /\ \A k \in 1 .. n : \E i \in K : r[i] = k
  <2>. HIDE DEF r
  <2>. QED  BY <1>3, <1>4, RankOnto
<1>6. ASSUME NEW k \in 1 .. n  PROVE f[k] \in K /\ r[f[k]] = k
  <2>1. PICK i \in K : r[i] = k
    BY <1>5
  <2>2. Cardinality({j \in K : j < i}) = k - 1
    BY <1>2, <2>1
  <2>3. f[k] \in K /\ Cardinality({j \in K : j < f[k]}) = k - 1
    BY <2>2
  <2>. QED  BY <1>2, <2>3
<1>7. f \in [1 .. n -> K] /\ Picked(s, K) = [k \in 1 .. n |-> s[f[k]]]
  <2>1. f \in [1 .. n -> K]
    BY <1>6
  <2>2. \A k \in 1 .. n : s[f[k]] = s[CHOOSE i \in K : Cardinality({j \in K : j < i}) = k - 1]
    OBVIOUS
  <2>. QED  BY <2>1, <2>2, Zenon DEF Picked
<1>8. Lists(f, n, K)
  <2>. HIDE DEF r, f, n
  <2>. QED  BY <1>1, <1>3, <1>4, <1>5, <1>6, <1>7, RankLists
<1>. QED  BY <1>1, <1>7, <1>8

-----------------------------------------------------------------------------
(***************************************************************************)
(* The stages of the sanitisation keep the letters.                        *)
(***************************************************************************)
Names == Seq(Chars)

LettersOf(s) == {i \in DOMAIN s : s[i] \in Letters}
Lettered(s) == Picked(s, LettersOf(s))

\* f leads from the positions of y to those of x and misses no letter.
Leads(f, x, y) ==
  /\ Rising(f, Len(y), 1 .. Len(x))
  /\ \A k \in 1 .. Len(y) : y[k] \in Letters \/ x[f[k]] \in Letters => y[k] = x[f[k]]
  /\ \A i \in LettersOf(x) : \E k \in 1 .. Len(y) : f[k] = i

LettersKept(x, y) == \E f : Leads(f, x, y)

LEMMA CharFacts ==
  /\ \A c \in {" ", "_", "(", "non-ascii"} : c \in Chars /\ c \notin Letters
  /\ Letters \subseteq Chars
  BY StreamNamesAssumption DEF StreamNamesAssumption, Chars

LEMMA NameFacts ==
  ASSUME NEW s \in Names
  PROVE  /\ Len(s) \in Nat /\ DOMAIN s = 1 .. Len(s)
         /\ \A i \in 1 .. Len(s) : s[i] \in Chars
  BY DEF Names

\* What Picked does to a name.
LEMMA PickedName ==
  ASSUME NEW s \in Names, NEW K \in SUBSET (DOMAIN s)
  PROVE  /\ Picked(s, K) \in Names
         /\ \E f : /\ Lists(f, Len(Picked(s, K)), K)
                   /\ \A k \in 1 .. Len(Picked(s, K)) : Picked(s, K)[k] = s[f[k]]
<1>1. /\ Len(s) \in Nat /\ DOMAIN s = 1 .. Len(s)
      /\ \A i \in 1 .. Len(s) : s[i] \in Chars
  BY NameFacts
<1>2. K \in SUBSET Nat /\ K \in SUBSET (1 .. Len(s))
  BY <1>1
<1>3. IsFiniteSet(K)
  <2>1. IsFiniteSet(1 .. Len(s))
    BY <1>1, FS_Interval
  <2>. QED  BY <1>2, <2>1, FS_Subset
<1>4. /\ Cardinality(K) \in Nat
      /\ \E f : /\ Lists(f, Cardinality(K), K)
                /\ Picked(s, K) = [k \in 1 .. Cardinality(K) |-> s[f[k]]]
  BY <1>2, <1>3, PickedLists
<1>5. PICK f : /\ Lists(f, Cardinality(K), K)
               /\ Picked(s, K) = [k \in 1 .. Cardinality(K) |-> s[f[k]]]
  BY <1>4
<1>. DEFINE n == Cardinality(K)
<1>6. \A k \in 1 .. n : s[f[k]] \in Chars
  BY <1>1, <1>2, <1>5 DEF Lists, Rising
<1>. HIDE DEF n
<1>7. Picked(s, K) \in [1 .. n -> Chars] /\ \A k \in 1 .. n : Picked(s, K)[k] = s[f[k]]
  BY <1>5, <1>6 DEF n
<1>8. Picked(s, K) \in Names /\ Len(Picked(s, K)) = n
  BY <1>4, <1>7 DEF Names, n
<1>. QED  BY <1>5, <1>7, <1>8 DEF n

\* A selection that takes every letter keeps the letters.
LEMMA PickedKeeps ==
  ASSUME NEW s \in Names, NEW K \in SUBSET (DOMAIN s), LettersOf(s) \subseteq K
  PROVE  LettersKept(s, Picked(s, K))
<1>1. PICK f : /\ Lists(f, Len(Picked(s, K)), K)
               /\ \A k \in 1 .. Len(Picked(s, K)) : Picked(s, K)[k] = s[f[k]]
  BY PickedName
<1>2. K \subseteq 1 .. Len(s)
  BY NameFacts
<1>3. Leads(f, s, Picked(s, K))
  BY <1>1, <1>2 DEF Leads, Lists, Rising
<1>. QED  BY <1>3 DEF LettersKept

\* A set of positions has a first and a last one.
LEMMA FirstLast ==
  ASSUME NEW b \in Nat, NEW T \in SUBSET (1 .. b), T # {}
  PROVE  /\ Min(T) \in T /\ Max(T) \in T
         /\ \A x \in T : Min(T) <= x /\ x <= Max(T)
<1>1. \E x \in T : \A y \in T : x <= y
  <2>1. T \in SUBSET Nat
    OBVIOUS
  <2>. QED  BY <2>1, LeastPosition
<1>2. \E x \in T : \A y \in T : x >= y
  <2>. DEFINE U == {i \in Nat : b - i \in T}
  <2>1. U \in SUBSET Nat
    OBVIOUS
  <2>2. U # {}
    <3>1. PICK x \in T : TRUE
      OBVIOUS
    <3>2. b - x \in Nat /\ b - (b - x) = x
      BY <3>1
    <3>3. b - x \in U
      BY <3>1, <3>2
    <3>. QED  BY <3>3
  <2>3. PICK u \in U : \A v \in U : u <= v
    BY <2>1, <2>2, LeastPosition
  <2>4. \A y \in T : b - y \in U
    <3>1. SUFFICES ASSUME NEW y \in T  PROVE b - y \in Nat /\ b - (b - y) \in T
      OBVIOUS
    <3>2. y \in 1 .. b
      OBVIOUS
    <3>3. b - y \in Nat /\ b - (b - y) = y
      BY <3>2
    <3>. QED  BY <3>3
  <2>5. b - u \in T /\ u \in Nat
    BY <2>3
  <2>6. \A y \in T : u <= b - y
    BY <2>3, <2>4
  <2>7. \A y \in T : b - u >= y
    BY <2>5, <2>6
  <2>. QED  BY <2>5, <2>7
<1>. QED  BY <1>1, <1>2 DEF Min, Max

\* Stripping blanks or underscores: from the first other character to the last.
LEMMA StripFacts ==
  ASSUME NEW s \in Names, NEW c \in Chars \ Letters
  PROVE  /\ Strip(s, c) \in Names /\ LettersKept(s, Strip(s, c))
         /\ Strip(s, c) # <<>> =>
              /\ Strip(s, c)[1] # c /\ Strip(s, c)[Len(Strip(s, c))] # c
              /\ \E a \in Nat : \A k \in 1 .. Len(Strip(s, c)) :
                   a + k \in 1 .. Len(s) /\ Strip(s, c)[k] = s[a + k]
         /\ Len(s) > 0 /\ s[1] # c /\ s[Len(s)] # c => Strip(s, c) = s
<1>. DEFINE T == {i \in DOMAIN s : s[i] # c}
<1>1. /\ Len(s) \in Nat /\ DOMAIN s = 1 .. Len(s)
      /\ \A i \in 1 .. Len(s) : s[i] \in Chars
  BY NameFacts
<1>2. CASE T = {}
  <2>1. Strip(s, c) = <<>>
    BY <1>2 DEF Strip
  <2>2. <<>> \in Names /\ Len(<<>>) = 0
    BY DEF Names
  <2>3. LettersOf(s) = {}
    BY <1>2 DEF LettersOf
  <2>4. Leads([k \in 1 .. 0 |-> 0], s, <<>>)
    BY <2>2, <2>3 DEF Leads, Rising
  <2>5. ~(Len(s) > 0 /\ s[1] # c)
    BY <1>1, <1>2
  <2>. QED  BY <2>1, <2>2, <2>4, <2>5 DEF LettersKept
<1>3. CASE T # {}
  <2>. DEFINE lo == Min(T)
              hi == Max(T)
              r == SubSeq(s, lo, hi)
  <2>1. Strip(s, c) = r
    BY <1>3 DEF Strip
  <2>2. lo \in T /\ hi \in T /\ \A x \in T : lo <= x /\ x <= hi
    BY <1>1, <1>3, FirstLast
  <2>. HIDE DEF lo, hi
  <2>3. lo \in 1 .. Len(s) /\ hi \in 1 .. Len(s) /\ lo <= hi /\ s[lo] # c /\ s[hi] # c
    BY <1>1, <2>2
  <2>4. /\ r \in Names /\ Len(r) = hi - lo + 1
        /\ \A k \in 1 .. hi - lo + 1 : r[k] = s[lo + k - 1]
    <3>1. \A i \in lo .. hi : s[i] \in Chars
      BY <1>1, <2>3
    <3>. QED  BY <2>3, <3>1, SubSeqProperties DEF Names
  <2>. HIDE DEF r
  <2>5. LettersKept(s, r)
    <3>. DEFINE f == [k \in 1 .. hi - lo + 1 |-> lo + k - 1]
    <3>1. Rising(f, Len(r), 1 .. Len(s))
      BY <1>1, <2>3, <2>4 DEF Rising
    <3>2. \A k \in 1 .. Len(r) : r[k] = s[f[k]]
      BY <2>3, <2>4
    <3>3. ASSUME NEW i \in LettersOf(s)  PROVE \E k \in 1 .. Len(r) : f[k] = i
      <4>1. i \in T
        BY <3>3 DEF LettersOf
      <4>2. i \in lo .. hi
        BY <1>1, <2>2, <2>3, <4>1
      <4>3. i - lo + 1 \in 1 .. Len(r) /\ f[i - lo + 1] = i
        BY <2>3, <2>4, <4>2
      <4>. QED  BY <4>3
    <3>. HIDE DEF f
    <3>4. Leads(f, s, r)
      BY <3>1, <3>2, <3>3 DEF Leads
    <3>. QED  BY <3>4 DEF LettersKept
  <2>6. r[1] # c /\ r[Len(r)] # c
    BY <2>3, <2>4
  <2>7. \E a \in Nat : \A k \in 1 .. Len(r) : a + k \in 1 .. Len(s) /\ r[k] = s[a + k]
    <3>1. lo - 1 \in Nat /\ \A k \in 1 .. Len(r) :
            (lo - 1) + k \in 1 .. Len(s) /\ r[k] = s[(lo - 1) + k]
      BY <1>1, <2>3, <2>4
    <3>. QED  BY <3>1
  <2>8. ASSUME Len(s) > 0, s[1] # c, s[Len(s)] # c  PROVE r = s
    <3>1. 1 \in T /\ Len(s) \in T
      BY <1>1, <2>8
    <3>2. lo = 1 /\ hi = Len(s)
      BY <1>1, <2>2, <2>3, <3>1
    <3>. QED  BY <3>2, SubSeqFull DEF r, Names
  <2>. QED  BY <2>1, <2>4, <2>5, <2>6, <2>7, <2>8
<1>. QED  BY <1>2, <1>3

\* Underscores for everything but letters.
LEMMA UnderscoredFacts ==
  ASSUME NEW s \in Names
  PROVE  /\ Underscored(s) \in Names /\ LettersKept(s, Underscored(s))
         /\ Len(Underscored(s)) = Len(s)
         /\ \A i \in 1 .. Len(s) :
              Underscored(s)[i] = IF s[i] \in Letters THEN s[i] ELSE "_"
<1>. DEFINE u == Underscored(s)
<1>1. /\ Len(s) \in Nat /\ DOMAIN s = 1 .. Len(s)
      /\ \A i \in 1 .. Len(s) : s[i] \in Chars
  BY NameFacts
<1>2. /\ u \in [1 .. Len(s) -> Chars]
      /\ \A i \in 1 .. Len(s) : u[i] = IF s[i] \in Letters THEN s[i] ELSE "_"
  BY <1>1, CharFacts DEF Underscored
<1>. HIDE DEF u
<1>3. u \in Names /\ Len(u) = Len(s)
  <2>1. u \in [1 .. Len(s) -> Chars] /\ Len(s) \in Nat
    BY <1>1, <1>2
  <2>. QED  BY <2>1 DEF Names
<1>4. LettersKept(s, u)
  <2>. DEFINE f == [k \in 1 .. Len(s) |-> k]
  <2>1. Rising(f, Len(u), 1 .. Len(s))
    BY <1>1, <1>3 DEF Rising
  <2>2. \A k \in 1 .. Len(u) : u[k] \in Letters \/ s[f[k]] \in Letters => u[k] = s[f[k]]
    BY <1>2, <1>3, CharFacts
  <2>3. \A i \in LettersOf(s) : i \in 1 .. Len(u) /\ f[i] = i
    BY <1>1, <1>3 DEF LettersOf
  <2>. HIDE DEF f
  <2>4. Leads(f, s, u)
    BY <2>1, <2>2, <2>3 DEF Leads
  <2>. QED  BY <2>4 DEF LettersKept
<1>. QED  BY <1>2, <1>3, <1>4 DEF u

\* Of a list, neighbours have no element between them.
LEMMA NoneBetween ==
  ASSUME NEW l \in Nat, NEW K \in SUBSET (1 .. l), NEW n \in Nat, NEW f, Lists(f, n, K),
         NEW i \in 2 .. n, NEW x \in K, f[i - 1] < x
  PROVE  f[i] <= x
<1>1. /\ \A k \in 1 .. n : f[k] \in K /\ f[k] \in Nat
      /\ \A j, k \in 1 .. n : j < k => f[j] < f[k]
      /\ \A y \in K : \E k \in 1 .. n : f[k] = y
  <2>1. f \in [1 .. n -> K] /\ \A y \in K : y \in Nat
    BY DEF Lists, Rising
  <2>. QED  BY <2>1, Zenon DEF Lists, Rising
<1>2. PICK k \in 1 .. n : f[k] = x
  BY <1>1
<1>3. i \in 1 .. n /\ i - 1 \in 1 .. n /\ x \in Nat
  OBVIOUS
<1>4. ~(k < i - 1) /\ k # i - 1
  BY <1>1, <1>2, <1>3
<1>5. i <= k
  BY <1>3, <1>4
<1>. QED  BY <1>1, <1>2, <1>3, <1>5

\* Two underscores that become neighbours had no letter between them.
Plain(s) == \A i \in 1 .. Len(s) : s[i] \in Letters \union {"_"}

NoRuns(s) == \A i \in 1 .. Len(s) : i > 1 /\ s[i] = "_" => s[i - 1] # "_"

LEMMA MergedFacts ==
  ASSUME NEW s \in Names, Plain(s)
  PROVE  /\ Merged(s) \in Names /\ LettersKept(s, Merged(s))
         /\ NoRuns(Merged(s)) /\ Plain(Merged(s))
<1>. DEFINE K == {i \in DOMAIN s : i = 1 \/ s[i] # "_" \/ s[i - 1] # "_"}
            m == Merged(s)
<1>1. Len(s) \in Nat /\ DOMAIN s = 1 .. Len(s)
  BY NameFacts
<1>2. m = Picked(s, K) /\ K \in SUBSET (DOMAIN s)
  BY DEF Merged
<1>3. LettersOf(s) \subseteq K
  BY CharFacts DEF LettersOf
<1>. HIDE DEF m
<1>4. m \in Names /\ LettersKept(s, m)
  BY <1>2, <1>3, PickedName, PickedKeeps
<1>. HIDE DEF K
<1>5. PICK f : Lists(f, Len(m), K) /\ \A k \in 1 .. Len(m) : m[k] = s[f[k]]
  BY <1>2, PickedName
<1>. USE DEF K
<1>6. Len(m) \in Nat
  BY <1>4, NameFacts
<1>7. /\ \A i \in K : i \in 1 .. Len(s) /\ (i = 1 \/ s[i] # "_" \/ s[i - 1] # "_")
      /\ \A i \in 1 .. Len(s) : i = 1 \/ s[i] # "_" \/ s[i - 1] # "_" => i \in K
  BY <1>1
<1>. HIDE DEF K
<1>8. /\ \A k \in 1 .. Len(m) : f[k] \in K
      /\ \A i, j \in 1 .. Len(m) : i < j => f[i] < f[j]
      /\ \A i \in K : \E k \in 1 .. Len(m) : f[k] = i
  BY <1>5 DEF Lists, Rising
<1>9. Plain(m)
  BY <1>5, <1>7, <1>8 DEF Plain
<1>10. PICK l \in Nat, n \in Nat : l = Len(s) /\ n = Len(m)
  BY <1>1, <1>6
<1>11. K \in SUBSET (1 .. l) /\ Lists(f, n, K)
  BY <1>5, <1>7, <1>10
<1>12. ASSUME NEW i \in 2 .. n, m[i] = "_"  PROVE m[i - 1] # "_"
  <2>0. SUFFICES ASSUME m[i - 1] = "_"  PROVE FALSE
    OBVIOUS
  <2>1. i \in 1 .. n /\ i - 1 \in 1 .. n /\ i - 1 < i
    OBVIOUS
  <2>2. PICK p \in 1 .. l, q \in 1 .. l : p = f[i] /\ q = f[i - 1]
    BY <1>8, <1>10, <1>11, <2>1
  <2>3. s[p] = "_" /\ s[q] = "_"
    BY <1>5, <1>10, <1>12, <2>0, <2>1, <2>2
  <2>4. p \in K /\ q < p
    BY <1>8, <1>10, <2>1, <2>2
  <2>5. p - 1 \in 1 .. l /\ p # 1
    BY <2>4
  <2>6. p - 1 \in K /\ q # p - 1
    <3>1. s[p - 1] # "_"
      BY <1>7, <2>3, <2>4, <2>5
    <3>. QED  BY <1>7, <1>10, <2>3, <2>5, <3>1, Zenon
  <2>7. f[i] <= p - 1
    <3>1. q < p - 1
      BY <2>4, <2>5, <2>6
    <3>. QED  BY <1>11, <2>2, <2>6, <3>1, NoneBetween
  <2>. QED  BY <2>2, <2>7
<1>13. NoRuns(m)
  <2>1. \A i \in 1 .. Len(m) : i > 1 => i \in 2 .. n
    BY <1>10
  <2>. QED  BY <1>12, <2>1, Zenon DEF NoRuns
<1>. QED  BY <1>4, <1>9, <1>13 DEF m

-----------------------------------------------------------------------------
(***************************************************************************)
(* The stages together.                                                    *)
(***************************************************************************)
LEMMA KeptTransitive ==
  ASSUME NEW x \in Names, NEW y \in Names, NEW z \in Names,
         LettersKept(x, y), LettersKept(y, z)
  PROVE  LettersKept(x, z)
<1>1. PICK f : Leads(f, x, y)
  BY DEF LettersKept
<1>2. PICK g : Leads(g, y, z)
  BY DEF LettersKept
<1>. DEFINE h == [k \in 1 .. Len(z) |-> f[g[k]]]
<1>3. /\ \A k \in 1 .. Len(z) : g[k] \in 1 .. Len(y)
      /\ \A i, j \in 1 .. Len(z) : i < j => g[i] < g[j]
  BY <1>2 DEF Leads, Rising
<1>4. /\ \A k \in 1 .. Len(y) : f[k] \in 1 .. Len(x)
      /\ \A i, j \in 1 .. Len(y) : i < j => f[i] < f[j]
  BY <1>1 DEF Leads, Rising
<1>5. Rising(h, Len(z), 1 .. Len(x))
  BY <1>3, <1>4 DEF Rising
<1>6. ASSUME NEW k \in 1 .. Len(z), z[k] \in Letters \/ x[h[k]] \in Letters
      PROVE  z[k] = x[h[k]]
  <2>1. h[k] = f[g[k]] /\ g[k] \in 1 .. Len(y)
    BY <1>3
  <2>2. z[k] \in Letters \/ y[g[k]] \in Letters => z[k] = y[g[k]]
    BY <1>2 DEF Leads
  <2>3. y[g[k]] \in Letters \/ x[f[g[k]]] \in Letters => y[g[k]] = x[f[g[k]]]
    BY <1>1, <2>1 DEF Leads
  <2>. QED  BY <1>6, <2>1, <2>2, <2>3
<1>7. ASSUME NEW i \in LettersOf(x)  PROVE \E k \in 1 .. Len(z) : h[k] = i
  <2>1. PICK j \in 1 .. Len(y) : f[j] = i
    BY <1>1 DEF Leads
  <2>2. y[j] = x[i]
    BY <1>1, <2>1 DEF Leads, LettersOf
  <2>3. j \in LettersOf(y)
    BY <2>1, <2>2, NameFacts DEF LettersOf
  <2>4. PICK k \in 1 .. Len(z) : g[k] = j
    BY <1>2, <2>3 DEF Leads
  <2>. QED  BY <2>1, <2>4
<1>. HIDE DEF h
<1>8. Leads(h, x, z)
  BY <1>5, <1>6, <1>7 DEF Leads
<1>. QED  BY <1>8 DEF LettersKept

\* Names between which the letters are kept have the same letters in order.
LEMMA KeptLettered ==
  ASSUME NEW x \in Names, NEW y \in Names, LettersKept(x, y)
  PROVE  Lettered(y) = Lettered(x)
<1>. DEFINE K == LettersOf(x)
            L == LettersOf(y)
<1>1. /\ Len(x) \in Nat /\ DOMAIN x = 1 .. Len(x) /\ Len(y) \in Nat /\ DOMAIN y = 1 .. Len(y)
  BY NameFacts
<1>2. K \in SUBSET (DOMAIN x) /\ L \in SUBSET (DOMAIN y) /\ K \in SUBSET Nat
  BY <1>1 DEF LettersOf
<1>3. PICK f : Leads(f, x, y)
  BY DEF LettersKept
<1>. DEFINE a == Lettered(x)
            b == Lettered(y)
<1>4. a \in Names /\ b \in Names
  BY <1>2, PickedName DEF Lettered
<1>5. PICK g : Lists(g, Len(a), K) /\ \A k \in 1 .. Len(a) : a[k] = x[g[k]]
  BY <1>2, PickedName DEF Lettered
<1>6. PICK h : Lists(h, Len(b), L) /\ \A k \in 1 .. Len(b) : b[k] = y[h[k]]
  BY <1>2, PickedName DEF Lettered
<1>7. Len(a) \in Nat /\ Len(b) \in Nat
  BY <1>4, NameFacts
<1>. HIDE DEF a, b, K, L
<1>. DEFINE fh == [k \in 1 .. Len(b) |-> f[h[k]]]
<1>8. /\ \A k \in 1 .. Len(b) : h[k] \in L /\ h[k] \in 1 .. Len(y)
      /\ \A i, j \in 1 .. Len(b) : i < j => h[i] < h[j]
      /\ \A l \in L : \E k \in 1 .. Len(b) : h[k] = l
  BY <1>1, <1>2, <1>6 DEF Lists, Rising
<1>9. /\ \A k \in 1 .. Len(y) : f[k] \in 1 .. Len(x)
      /\ \A i, j \in 1 .. Len(y) : i < j => f[i] < f[j]
      /\ \A k \in 1 .. Len(y) : y[k] \in Letters \/ x[f[k]] \in Letters => y[k] = x[f[k]]
      /\ \A i \in K : \E k \in 1 .. Len(y) : f[k] = i
  BY <1>3 DEF Leads, Rising, K
<1>10. \A l \in L : f[l] \in K /\ y[l] = x[f[l]]
  BY <1>1, <1>2, <1>9 DEF K, L, LettersOf
<1>11. \A i \in K : \E l \in L : f[l] = i
  BY <1>1, <1>9 DEF K, L, LettersOf
<1>12. Lists(fh, Len(b), K)
  <2>1. fh \in [1 .. Len(b) -> K]
    BY <1>8, <1>10
  <2>2. \A i, j \in 1 .. Len(b) : i < j => fh[i] < fh[j]
    BY <1>8, <1>9
  <2>3. \A i \in K : \E k \in 1 .. Len(b) : fh[k] = i
    BY <1>8, <1>11
  <2>. HIDE DEF fh
  <2>. QED  BY <2>1, <2>2, <2>3 DEF Lists, Rising
<1>13. \A k \in 1 .. Len(b) : b[k] = x[fh[k]]
  BY <1>6, <1>8, <1>10
<1>. HIDE DEF fh
<1>14. Len(a) <= Len(b) /\ \A i \in 1 .. Len(a) : g[i] = fh[i]
  BY <1>2, <1>5, <1>7, <1>12, ListsAgree
<1>15. Len(b) <= Len(a)
  BY <1>2, <1>5, <1>7, <1>12, ListsAgree
<1>16. Len(a) = Len(b) /\ \A i \in 1 .. Len(a) : a[i] = b[i]
  BY <1>5, <1>7, <1>13, <1>14, <1>15
<1>17. a = b
  BY <1>4, <1>16, SeqEqual DEF Names
<1>. QED  BY <1>17 DEF a, b
\* Cutting underscores off both ends keeps the inside as it was.
LEMMA StripPlain ==
  ASSUME NEW m \in Names, Plain(m), NoRuns(m)
  PROVE  Plain(Strip(m, "_")) /\ NoRuns(Strip(m, "_"))
<1>. DEFINE r == Strip(m, "_")
<1>1. "_" \in Chars \ Letters
  BY CharFacts
<1>2. r \in Names /\ Len(m) \in Nat /\ Len(r) \in Nat
  BY <1>1, StripFacts, NameFacts
<1>3. CASE r = <<>>
  <2>. HIDE DEF r
  <2>0. Len(<<>>) = 0
    OBVIOUS
  <2>1. Len(r) = 0
    BY <1>3, <2>0, Zenon
  <2>2. 1 .. Len(r) = {}
    BY <2>1
  <2>3. Plain(r) /\ NoRuns(r)
    BY <2>2, Zenon DEF Plain, NoRuns
  <2>. QED  BY <2>3 DEF r
<1>4. CASE r # <<>>
  <2>1. PICK a \in Nat : \A k \in 1 .. Len(r) : a + k \in 1 .. Len(m) /\ r[k] = m[a + k]
    BY <1>1, <1>4, StripFacts
  <2>. HIDE DEF r
  <2>2. Plain(r)
    BY <2>1 DEF Plain
  <2>3. ASSUME NEW i \in 1 .. Len(r), i > 1  PROVE r[i] = "_" => r[i - 1] # "_"
    <3>0. SUFFICES ASSUME r[i] = "_"  PROVE r[i - 1] # "_"
      OBVIOUS
    <3>1. i - 1 \in 1 .. Len(r) /\ (a + i) - 1 = a + (i - 1)
      BY <1>2, <2>3
    <3>2. PICK p \in 1 .. Len(m) : p = a + i
      BY <2>1
    <3>3. p > 1
      BY <1>2, <2>3, <3>2
    <3>4. p - 1 = a + (i - 1)
      BY <3>1, <3>2
    <3>5. m[p] = "_"
      BY <2>1, <3>0, <3>2
    <3>6. m[p - 1] # "_"
      BY <3>3, <3>5, Zenon DEF NoRuns
    <3>7. r[i - 1] = m[p - 1]
      BY <2>1, <3>1, <3>4
    <3>. QED  BY <3>6, <3>7, Zenon
  <2>4. NoRuns(r)
    BY <2>3, Zenon DEF NoRuns
  <2>. QED  BY <2>2, <2>4 DEF r
<1>. QED  BY <1>3, <1>4

LEMMA SanitizeFacts ==
  ASSUME NEW s \in Names
  PROVE  /\ Sanitize(s) \in Names /\ LettersKept(s, Sanitize(s))
         /\ Plain(Sanitize(s)) /\ NoRuns(Sanitize(s))
         /\ Sanitize(s) # <<>> =>
              Sanitize(s)[1] # "_" /\ Sanitize(s)[Len(Sanitize(s))] # "_"
<1>. DEFINE a == Ascii(s)
            b == Strip(a, " ")
            u == Underscored(b)
            m == Merged(u)
            r == Strip(m, "_")
<1>1. " " \in Chars \ Letters /\ "_" \in Chars \ Letters
  BY CharFacts
<1>2. a \in Names /\ LettersKept(s, a)
  <2>. DEFINE K == {i \in DOMAIN s : s[i] # "non-ascii"}
  <2>1. K \in SUBSET (DOMAIN s) /\ LettersOf(s) \subseteq K /\ a = Picked(s, K)
    BY CharFacts DEF LettersOf, Ascii, Without
  <2>. HIDE DEF K, a
  <2>. QED  BY <2>1, PickedName, PickedKeeps
<1>. HIDE DEF a
<1>3. b \in Names /\ LettersKept(a, b)
  BY <1>1, <1>2, StripFacts
<1>. HIDE DEF b
<1>4. u \in Names /\ LettersKept(b, u) /\ Plain(u)
  <2>1. u \in Names /\ LettersKept(b, u) /\ Len(u) = Len(b)
    BY <1>3, UnderscoredFacts
  <2>2. \A i \in 1 .. Len(b) : u[i] \in Letters \union {"_"}
    BY <1>3, UnderscoredFacts
  <2>. QED  BY <2>1, <2>2 DEF Plain
<1>. HIDE DEF u
<1>5. m \in Names /\ LettersKept(u, m) /\ NoRuns(m) /\ Plain(m)
  BY <1>4, MergedFacts
<1>. HIDE DEF m
<1>6. r \in Names /\ LettersKept(m, r) /\ (r # <<>> => r[1] # "_" /\ r[Len(r)] # "_")
  BY <1>1, <1>5, StripFacts
<1>7. Plain(r) /\ NoRuns(r)
  BY <1>5, StripPlain
<1>. HIDE DEF r
<1>8. LettersKept(s, b)
  BY <1>2, <1>3, KeptTransitive
<1>9. LettersKept(s, u)
  BY <1>3, <1>4, <1>8, KeptTransitive
<1>10. LettersKept(s, m)
  BY <1>4, <1>5, <1>9, KeptTransitive
<1>11. LettersKept(s, r)
  BY <1>5, <1>6, <1>10, KeptTransitive
<1>12. Sanitize(s) = r
  BY DEF Sanitize, r, m, u, b, a
<1>. QED  BY <1>6, <1>7, <1>11, <1>12

-----------------------------------------------------------------------------
(***************************************************************************)
(* Names of letters and single blanks.                                     *)
(***************************************************************************)

\* Picking every position changes nothing.
LEMMA PickedAll ==
  ASSUME NEW s \in Names
  PROVE  Picked(s, DOMAIN s) = s
<1>. DEFINE p == Picked(s, DOMAIN s)
            n == Len(s)
            id == [i \in 1 .. n |-> i]
<1>1. n \in Nat /\ DOMAIN s = 1 .. n
  BY NameFacts
<1>2. PICK f : Lists(f, Len(p), DOMAIN s) /\ \A k \in 1 .. Len(p) : p[k] = s[f[k]]
  BY PickedName
<1>3. p \in Names
  BY PickedName
<1>4. Len(p) \in Nat
  BY <1>3, NameFacts
<1>. HIDE DEF p, n
<1>5. Lists(id, n, 1 .. n)
  BY <1>1 DEF Lists, Rising
<1>. HIDE DEF id
<1>6. 1 .. n \in SUBSET Nat /\ Lists(f, Len(p), 1 .. n)
  BY <1>1, <1>2
<1>7. ASSUME NEW K \in SUBSET Nat, Lists(f, Len(p), K), Lists(id, n, K)
      PROVE  /\ Len(p) <= n /\ n <= Len(p)
             /\ \A i \in 1 .. Len(p) : f[i] = id[i]
  <2>1. n \in Nat /\ Len(p) \in Nat
    BY <1>1, <1>4
  <2>2. Len(p) <= n /\ \A i \in 1 .. Len(p) : f[i] = id[i]
    <3>1. Len(p) <= n
      BY <1>7, <2>1, ListsAgree, Zenon
    <3>2. ASSUME NEW i \in 1 .. Len(p)  PROVE f[i] = id[i]
      BY <1>7, <2>1, ListsAgree
    <3>. QED  BY <3>1, <3>2, Zenon
  <2>3. n <= Len(p)
    BY <1>7, <2>1, ListsAgree, Zenon
  <2>. QED  BY <2>2, <2>3, Zenon
<1>8. /\ Len(p) <= n /\ n <= Len(p)
      /\ \A i \in 1 .. Len(p) : f[i] = id[i]
  BY <1>5, <1>6, <1>7, Zenon
<1>9. Len(p) = n
  BY <1>1, <1>4, <1>8
<1>10. \A i \in 1 .. Len(p) : p[i] = s[i]
  BY <1>2, <1>8, <1>9 DEF id
<1>11. p = s
  BY <1>3, <1>9, <1>10, SeqEqual DEF Names, n
<1>. QED  BY <1>11 DEF p

\* Nothing of such a name is cut, merged or dropped.
LEMMA SpacedFacts ==
  ASSUME NEW s \in Names, Spaced(s)
  PROVE  Sanitize(s) = ServerName(s)
<1>. DEFINE u == Underscored(s)
<1>1. Len(s) \in Nat /\ DOMAIN s = 1 .. Len(s) /\ Len(s) > 0
  BY NameFacts DEF Spaced
<1>2. \A i \in 1 .. Len(s) : s[i] \in Letters \/ s[i] = " "
  BY <1>1, Zenon DEF Spaced
<1>3. 1 \in 1 .. Len(s) /\ Len(s) \in 1 .. Len(s)
  BY <1>1
<1>4. s[1] \in Letters /\ s[Len(s)] \in Letters
  <2>1. ~(1 < 1) /\ ~(Len(s) < Len(s))
    BY <1>1
  <2>. QED  BY <1>1, <1>3, <2>1, Zenon DEF Spaced
<1>5. Ascii(s) = s
  <2>1. \A i \in DOMAIN s : s[i] # "non-ascii"
    BY <1>1, <1>2, CharFacts
  <2>2. {i \in DOMAIN s : s[i] # "non-ascii"} = DOMAIN s
    BY <2>1
  <2>. QED  BY <2>2, PickedAll, Zenon DEF Ascii, Without
<1>6. Strip(s, " ") = s
  <2>1. " " \in Chars \ Letters /\ s[1] # " " /\ s[Len(s)] # " "
    BY <1>4, CharFacts
  <2>. QED  BY <1>1, <2>1, StripFacts
<1>7. u \in Names /\ Len(u) = Len(s) /\ DOMAIN u = 1 .. Len(s)
  BY UnderscoredFacts, NameFacts
<1>8. \A i \in 1 .. Len(s) : u[i] = IF s[i] \in Letters THEN s[i] ELSE "_"
  BY UnderscoredFacts
<1>9. u = ServerName(s)
  BY <1>1, <1>2, CharFacts DEF Underscored, ServerName
<1>. HIDE DEF u
<1>10. Merged(u) = u
  <2>1. ASSUME NEW i \in 1 .. Len(s), i # 1  PROVE u[i] = "_" => u[i - 1] # "_"
    <3>0. SUFFICES ASSUME u[i] = "_"  PROVE u[i - 1] # "_"
      OBVIOUS
    <3>1. s[i] \notin Letters
      BY <1>8, <3>0, CharFacts
    <3>2. s[i - 1] # " "
      BY <1>1, <3>1, Zenon DEF Spaced
    <3>3. i - 1 \in 1 .. Len(s)
      BY <1>1, <2>1
    <3>4. PICK j \in 1 .. Len(s) : j = i - 1
      BY <3>3
    <3>5. s[j] \in Letters
      BY <1>2, <3>2, <3>4
    <3>6. u[j] # "_"
      BY <1>8, <3>5, CharFacts
    <3>. QED  BY <3>4, <3>6
  <2>2. {i \in DOMAIN u : i = 1 \/ u[i] # "_" \/ u[i - 1] # "_"} = DOMAIN u
    BY <1>7, <2>1, Zenon
  <2>. QED  BY <1>7, <2>2, PickedAll, Zenon DEF Merged
<1>11. Strip(u, "_") = u
  <2>1. "_" \in Chars \ Letters
    BY CharFacts
  <2>2. u[1] = s[1] /\ u[Len(s)] = s[Len(s)]
    BY <1>3, <1>4, <1>8
  <2>3. u[1] # "_" /\ u[Len(u)] # "_"
    BY <1>4, <1>7, <2>2, CharFacts
  <2>. QED  BY <1>1, <1>7, <2>1, <2>3, StripFacts
<1>. QED  BY <1>5, <1>6, <1>9, <1>10, <1>11 DEF Sanitize, u

-----------------------------------------------------------------------------
(***************************************************************************)
(* The specification: a URL holds what the name of its device was          *)
(* sanitised to, and names do not change.                                  *)
(***************************************************************************)
NamesInv ==
  /\ name \in [Devices -> Names]
  /\ DOMAIN url = Devices
  /\ \A d \in Streaming : url[d][1] = Sanitize(name[d])

LEMMA InitNames == Init => NamesInv
<1>. SUFFICES ASSUME Init  PROVE NamesInv
  OBVIOUS
<1>1. name \in [Devices -> SeqOf(Chars, MaxName)]
  BY DEF Init
<1>2. SeqOf(Chars, MaxName) \subseteq Names
  <2>1. ASSUME NEW n \in 0 .. MaxName  PROVE [1 .. n -> Chars] \subseteq Seq(Chars)
    <3>1. MaxName \in Nat
      BY StreamNamesAssumption DEF StreamNamesAssumption
    <3>2. n \in Nat
      BY <3>1
    <3>. QED  BY <3>2, SeqDef, Zenon
  <2>. QED  BY <2>1, Zenon DEF SeqOf, Names
<1>3. name \in [Devices -> Names]
  BY <1>1, <1>2
<1>4. DOMAIN url = Devices /\ Streaming = {}
  BY DEF Init, Streaming
<1>. QED  BY <1>3, <1>4 DEF NamesInv

LEMMA NextNames == NamesInv /\ [Next]_vars => NamesInv'
<1>. SUFFICES ASSUME NamesInv, [Next]_vars  PROVE NamesInv'
  OBVIOUS
<1>. USE DEF NamesInv
<1>1. CASE NewMaps
  BY <1>1 DEF NewMaps, Streaming
<1>2. ASSUME NEW d \in Devices, Start(d)  PROVE NamesInv'
  <2>1. /\ UNCHANGED name /\ url' = [url EXCEPT ![d] = Url(d)]
    BY <1>2 DEF Start
  <2>2. url'[d] = Url(d) /\ \A e \in Devices : e # d => url'[e] = url[e]
    BY <2>1
  <2>3. Url(d)[1] = Sanitize(name[d])
    BY DEF Url
  <2>4. ASSUME NEW e \in Streaming'  PROVE url'[e][1] = Sanitize(name'[e])
    BY <2>1, <2>2, <2>3 DEF Streaming
  <2>. QED  BY <2>1, <2>4
<1>3. ASSUME NEW d \in Devices, Stop(d)  PROVE NamesInv'
  <2>1. /\ UNCHANGED name /\ url' = [url EXCEPT ![d] = <<>>]
    BY <1>3 DEF Stop
  <2>2. url'[d] = <<>> /\ \A e \in Devices : e # d => url'[e] = url[e]
    BY <2>1
  <2>3. ASSUME NEW e \in Streaming'  PROVE url'[e][1] = Sanitize(name'[e])
    BY <2>1, <2>2 DEF Streaming
  <2>. QED  BY <2>1, <2>3
<1>4. CASE UNCHANGED vars
  BY <1>4 DEF vars, Streaming
<1>. QED  BY <1>1, <1>2, <1>3, <1>4 DEF Next

LEMMA NamesAlways == Spec => []NamesInv
  BY InitNames, NextNames, PTL DEF Spec

\* Letters in order with single underscores between them: what is left of a name.
LEMMA NamesSafe == NamesInv => SafeNames
<1>. SUFFICES ASSUME NamesInv, NEW d \in Streaming
     PROVE  LET s == url[d][1] IN
       /\ Without(s, "_") = Picked(name[d], LettersOf(name[d]))
       /\ \A i \in DOMAIN s : s[i] = "_" =>
            i \notin {1, Len(s)} /\ s[i - 1] \in Letters /\ s[i + 1] \in Letters
  BY Zenon DEF SafeNames, LettersOf
<1>. DEFINE n == name[d]
            s == url[d][1]
<1>1. n \in Names /\ s = Sanitize(n)
  BY DEF NamesInv, Streaming
<1>. HIDE DEF n, s
<1>2. /\ s \in Names /\ LettersKept(n, s) /\ Plain(s) /\ NoRuns(s)
      /\ s # <<>> => s[1] # "_" /\ s[Len(s)] # "_"
  BY <1>1, SanitizeFacts
<1>3. Len(s) \in Nat /\ DOMAIN s = 1 .. Len(s)
  BY <1>2, NameFacts
<1>4. Without(s, "_") = Lettered(n)
  <2>1. {i \in DOMAIN s : s[i] # "_"} = LettersOf(s)
    <3>1. \A i \in DOMAIN s : s[i] # "_" <=> s[i] \in Letters
      BY <1>2, <1>3, CharFacts, Zenon DEF Plain
    <3>. QED  BY <3>1, Zenon DEF LettersOf
  <2>2. Lettered(s) = Lettered(n)
    BY <1>1, <1>2, KeptLettered
  <2>. QED  BY <2>1, <2>2, Zenon DEF Without, Lettered
<1>5. ASSUME NEW i \in DOMAIN s, s[i] = "_"
      PROVE  i \notin {1, Len(s)} /\ s[i - 1] \in Letters /\ s[i + 1] \in Letters
  <2>1. i \in 1 .. Len(s) /\ s # <<>>
    BY <1>3
  <2>2. i # 1 /\ i # Len(s)
    BY <1>2, <1>5, <2>1
  <2>3. PICK j \in 1 .. Len(s), k \in 1 .. Len(s) : j = i - 1 /\ k = i + 1
    BY <1>3, <2>1, <2>2
  <2>4. i > 1 /\ k > 1 /\ k - 1 = i
    BY <1>3, <2>1, <2>3
  <2>5. s[j] # "_"
    BY <1>2, <1>5, <2>1, <2>3, <2>4, Zenon DEF NoRuns
  <2>6. s[k] # "_"
    BY <1>2, <1>5, <2>3, <2>4, Zenon DEF NoRuns
  <2>7. s[j] \in Letters /\ s[k] \in Letters
    BY <1>2, <2>5, <2>6 DEF Plain
  <2>. QED  BY <2>2, <2>3, <2>7
<1>. QED  BY <1>4, <1>5 DEF n, s, Lettered

(***************************************************************************)
(* Whatever the names are, a stream name holds the letters of the device   *)
(* name in their order and single underscores between them, nothing else.  *)
(***************************************************************************)
THEOREM SafeNamesHold == Spec => []SafeNames
  BY NamesAlways, NamesSafe, PTL

LEMMA NamesAgree == NamesInv => SpacedNamesAgree
<1>. SUFFICES ASSUME NamesInv, NEW d \in Streaming, Spaced(name[d])
     PROVE  url[d][1] = ServerName(name[d])
  BY DEF SpacedNamesAgree
<1>1. name[d] \in Names /\ url[d][1] = Sanitize(name[d])
  BY DEF NamesInv, Streaming
<1>. QED  BY <1>1, SpacedFacts

(***************************************************************************)
(* Whatever the letters are, a name of letters and single blanks is pushed *)
(* to where the Server pulls it from.                                      *)
(***************************************************************************)
THEOREM SpacedNamesAgreeHolds == Spec => []SpacedNamesAgree
  BY NamesAlways, NamesAgree, PTL
=============================================================================
