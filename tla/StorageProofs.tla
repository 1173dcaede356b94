---------------------------- MODULE StorageProofs -----------------------------
(***************************************************************************)
(* What is allocated: the memory of the kernel (KMem), for a pool, a       *)
(* bitmap and blocks of any size, and the inodes, blocks and directory     *)
(* entries of the disk (Fs), for any number of them; and the areas that    *)
(* formatting gives a disk (Format), for disks of any size.                *)
(*                                                                         *)
(* The loops of the code are recursive functions in the models.  What such *)
(* a function computes is proved without induction: that it satisfies its  *)
(* equation because some function does, and that nothing else does by the  *)
(* least argument where two solutions differ.                              *)
(***************************************************************************)
EXTENDS KMem, Fs, Format, FiniteSetTheorems, SequenceTheorems, WellFoundedInduction, TLAPS

\* A set of natural numbers has a least element.
LEMMA MinFacts ==
    ASSUME NEW S, S \subseteq Nat, S # {}
    PROVE  Min(S) \in S /\ \A y \in S : Min(S) <= y
<1>1. PICK x \in S : \A y \in S : ~(<<y, x>> \in OpToRel(<, Nat))
  BY NatLessThanWellFounded, WFMin
<1>2. \A y \in S : x <= y
  <2> SUFFICES ASSUME NEW y \in S PROVE x <= y
    OBVIOUS
  <2>1. ~(y < x)
    <3>1. <<y, x>> \in Nat \X Nat
      OBVIOUS
    <3> QED BY <1>1, <3>1 DEF OpToRel
  <2> QED BY <2>1
<1> QED BY <1>2 DEF Min

\* Just one element is a least one.
LEMMA MinUnique ==
    ASSUME NEW S, S \subseteq Nat, NEW x \in S, \A y \in S : x <= y
    PROVE  Min(S) = x
<1>1. Min(S) \in S /\ \A y \in S : Min(S) <= y
  BY MinFacts
<1>2. Min(S) \in Nat /\ x \in Nat /\ Min(S) <= x /\ x <= Min(S)
  BY <1>1
<1> QED BY <1>2

-----------------------------------------------------------------------------
(* The search of bitmap_alloc() *)

\* What the search returns from bit i on when `f' is the rest of it.
SearchStep(cnt, f, i) ==
    LET set == {j \in 1..cnt - 1 : i + j \in pool}
    IN  CASE i >= BitmapBits -> -1
          [] i < BitmapBits /\ i \in pool -> f[i + 1]
          [] OTHER -> IF set = {} THEN i ELSE f[i + Min(set) + 1]

\* The first runs of clear bits from bit i on, and what the search should return.
FitsFrom(cnt, i) == {k \in i..BitmapBits - 1 : Pages(k, cnt) \cap pool = {}}
FirstFrom(cnt, i) == IF FitsFrom(cnt, i) = {} THEN -1 ELSE Min(FitsFrom(cnt, i))

\* The search is the solution of its equation, if there is one.
LEMMA SearchIs ==
    ASSUME NEW cnt
    PROVE  bitmap_alloc(cnt) =
              (CHOOSE f : f = [i \in 0..BitmapBits + cnt |-> SearchStep(cnt, f, i)])[0]
BY DEF bitmap_alloc, SearchStep

\* The bits that the search goes past begin no run.
LEMMA SearchFits ==
    ASSUME NEW cnt \in 1..MaxRun, pool \subseteq Nat, NEW f,
           NEW i \in 0..BitmapBits + cnt,
           \A k \in 0..BitmapBits + cnt : k > i => f[k] = FirstFrom(cnt, k)
    PROVE  SearchStep(cnt, f, i) = FirstFrom(cnt, i)
<1> USE KMemAssumption
<1> DEFINE set == {j \in 1..cnt - 1 : i + j \in pool}
<1>1. CASE i >= BitmapBits
  <2>1. FitsFrom(cnt, i) = {}
    BY <1>1 DEF FitsFrom
  <2> QED BY <1>1, <2>1 DEF SearchStep, FirstFrom
<1>2. CASE i < BitmapBits /\ i \in pool
  <2>1. FitsFrom(cnt, i) = FitsFrom(cnt, i + 1)
    <3>1. i \in Pages(i, cnt)
      BY DEF Pages
    <3> QED BY <1>2, <3>1 DEF FitsFrom
  <2>2. SearchStep(cnt, f, i) = f[i + 1]
    BY <1>2 DEF SearchStep
  <2>3. f[i + 1] = FirstFrom(cnt, i + 1)
    BY <1>2
  <2> QED BY <2>1, <2>2, <2>3 DEF FirstFrom
<1>3. CASE i < BitmapBits /\ i \notin pool /\ set = {}
  <2>1. SearchStep(cnt, f, i) = i
    BY <1>3 DEF SearchStep
  <2>2. Pages(i, cnt) \cap pool = {}
    <3> SUFFICES ASSUME NEW x \in Pages(i, cnt), x \in pool PROVE FALSE
      OBVIOUS
    <3>1. x \in i..i + cnt - 1 /\ x # i
      BY <1>3 DEF Pages
    <3>2. x - i \in 1..cnt - 1 /\ i + (x - i) = x
      BY <3>1
    <3>3. x - i \in set
      BY <3>2
    <3> QED BY <3>3, <1>3
  <2>3. i \in FitsFrom(cnt, i) /\ FitsFrom(cnt, i) \subseteq Nat
        /\ \A y \in FitsFrom(cnt, i) : i <= y
    BY <1>3, <2>2 DEF FitsFrom
  <2>4. Min(FitsFrom(cnt, i)) = i
    BY <2>3, MinUnique
  <2> QED BY <2>1, <2>3, <2>4 DEF FirstFrom
<1>4. CASE i < BitmapBits /\ i \notin pool /\ set # {}
  <2> DEFINE m == Min(set)
  <2>1. m \in set
    BY <1>4, MinFacts
  <2>2. SearchStep(cnt, f, i) = f[i + m + 1]
    BY <1>4 DEF SearchStep
  <2>3. m \in 1..cnt - 1 /\ i + m \in pool
    BY <2>1
  <2> HIDE DEF m, set
  <2>4. FitsFrom(cnt, i) = FitsFrom(cnt, i + m + 1)
    <3>1. \A k \in i..i + m : i + m \in Pages(k, cnt)
      BY <2>3 DEF Pages
    <3>2. \A k \in FitsFrom(cnt, i) : k \in i + m + 1..BitmapBits - 1
      BY <2>3, <3>1 DEF FitsFrom
    <3> QED BY <2>3, <3>2 DEF FitsFrom
  <2>5. f[i + m + 1] = FirstFrom(cnt, i + m + 1)
    BY <2>3, <1>4
  <2> QED BY <2>2, <2>4, <2>5 DEF FirstFrom
<1> QED BY <1>1, <1>2, <1>3, <1>4

\* bitmap_alloc() returns the first run of cnt clear bits.
LEMMA SearchFirst ==
    ASSUME NEW cnt \in 1..MaxRun, pool \subseteq Nat
    PROVE  bitmap_alloc(cnt) = FirstFrom(cnt, 0)
<1> USE KMemAssumption
<1> DEFINE D == 0..BitmapBits + cnt
           IsSearch(f) == f = [i \in D |-> SearchStep(cnt, f, i)]
           g == [i \in D |-> FirstFrom(cnt, i)]
<1>1. IsSearch(g)
  <2>1. \A i \in D : SearchStep(cnt, g, i) = FirstFrom(cnt, i)
    <3> SUFFICES ASSUME NEW i \in D PROVE SearchStep(cnt, g, i) = FirstFrom(cnt, i)
      OBVIOUS
    <3>1. \A k \in D : k > i => g[k] = FirstFrom(cnt, k)
      OBVIOUS
    <3> HIDE DEF g
    <3> QED BY <3>1, SearchFits
  <2> QED BY <2>1
<1> DEFINE s == CHOOSE f : IsSearch(f)
<1>2. IsSearch(s)
  <2> HIDE DEF IsSearch, g
  <2> QED BY <1>1
<1> HIDE DEF s, g
<1>3. \A i \in D : s[i] = SearchStep(cnt, s, i)
  BY <1>2
<1>4. \A i \in D : s[i] = FirstFrom(cnt, i)
  <2> DEFINE bad == {n \in D : s[BitmapBits + cnt - n] # FirstFrom(cnt, BitmapBits + cnt - n)}
  <2>1. bad = {}
    <3> SUFFICES ASSUME bad # {} PROVE FALSE
      OBVIOUS
    <3> DEFINE n == Min(bad)
               i == BitmapBits + cnt - n
    <3>1. n \in bad /\ \A y \in bad : n <= y
      BY MinFacts
    <3>2. n \in D /\ i \in D /\ s[i] # FirstFrom(cnt, i)
      BY <3>1
    <3>3. \A k \in D : k > i => s[k] = FirstFrom(cnt, k)
      <4> SUFFICES ASSUME NEW k \in D, k > i, s[k] # FirstFrom(cnt, k) PROVE FALSE
        OBVIOUS
      <4> DEFINE y == BitmapBits + cnt - k
      <4>1. y \in D /\ y < n /\ BitmapBits + cnt - y = k
        BY <3>2
      <4>2. y \in bad
        BY <4>1
      <4> QED BY <4>1, <4>2, <3>1, <3>2
    <3> HIDE DEF n, i, bad
    <3>4. SearchStep(cnt, s, i) = FirstFrom(cnt, i)
      BY <3>2, <3>3, SearchFits
    <3> QED BY <3>2, <3>4, <1>3
  <2> SUFFICES ASSUME NEW i \in D, s[i] # FirstFrom(cnt, i) PROVE FALSE
    OBVIOUS
  <2>2. BitmapBits + cnt - i \in D /\ BitmapBits + cnt - (BitmapBits + cnt - i) = i
    OBVIOUS
  <2>3. BitmapBits + cnt - i \in bad
    BY <2>2
  <2> QED BY <2>1, <2>3
<1>5. bitmap_alloc(cnt) = s[0]
  BY SearchIs DEF s
<1> QED BY <1>4, <1>5

\* What the callers of bitmap_alloc() need: a run that it returns is clear.
LEMMA SearchClear ==
    ASSUME NEW cnt \in 1..MaxRun, pool \subseteq Nat, bitmap_alloc(cnt) # -1
    PROVE  /\ bitmap_alloc(cnt) \in 0..BitmapBits - 1
           /\ Pages(bitmap_alloc(cnt), cnt) \cap pool = {}
<1>1. FitsFrom(cnt, 0) # {} /\ bitmap_alloc(cnt) = Min(FitsFrom(cnt, 0))
  BY SearchFirst DEF FirstFrom
<1>2. FitsFrom(cnt, 0) \subseteq Nat
  BY DEF FitsFrom
<1>3. bitmap_alloc(cnt) \in FitsFrom(cnt, 0)
  BY <1>1, <1>2, MinFacts
<1> QED BY <1>3 DEF FitsFrom

LEMMA FitHolds ==
    ASSUME pool \subseteq Nat
    PROVE  FirstFit
<1> SUFFICES ASSUME NEW cnt \in 1..MaxRun
             PROVE  LET fits == {i \in 0..BitmapBits - 1 : Pages(i, cnt) \cap pool = {}}
                    IN  bitmap_alloc(cnt) = IF fits = {} THEN -1 ELSE Min(fits)
  BY DEF FirstFit
<1> QED BY SearchFirst DEF FirstFrom, FitsFrom

-----------------------------------------------------------------------------
(* The sizes of the blocks *)

\* The loop of block_desc_init() has a result: the sizes of the first n
\* descriptors extend to one more.
LEMMA SizesExist ==
    ASSUME NEW n \in Nat
    PROVE  \E f \in [0..n -> Nat] : \A d \in 0..n : f[d] = IF d = 0 THEN 16 ELSE 2 * f[d - 1]
<1> DEFINE Doubles(f, k) == \A d \in 0..k : f[d] = IF d = 0 THEN 16 ELSE 2 * f[d - 1]
           Ok(k) == \E f \in [0..k -> Nat] : Doubles(f, k)
           bad == {k \in Nat : ~Ok(k)}
<1>1. bad = {}
  <2> SUFFICES ASSUME bad # {} PROVE FALSE
    OBVIOUS
  <2> DEFINE m == Min(bad)
  <2>1. m \in bad /\ \A k \in bad : m <= k
    BY MinFacts
  <2>2. m \in Nat /\ ~Ok(m) /\ \A k \in Nat : k < m => Ok(k)
    <3> HIDE DEF Ok
    <3>1. m \in Nat /\ ~Ok(m)
      BY <2>1
    <3>2. \A k \in Nat : k < m => k \notin bad
      BY <2>1, <3>1
    <3> QED BY <3>1, <3>2
  <2> HIDE DEF m, bad
  <2>3. m # 0
    <3> DEFINE f == [d \in 0..0 |-> 16]
    <3>1. f \in [0..0 -> Nat] /\ Doubles(f, 0)
      OBVIOUS
    <3> QED BY <2>2, <3>1
  <2>4. m - 1 \in Nat /\ m - 1 < m
    BY <2>2, <2>3
  <2>5. Ok(m - 1)
    BY <2>2, <2>4
  <2>6. PICK f \in [0..m - 1 -> Nat] : Doubles(f, m - 1)
    BY <2>5
  <2> DEFINE g == [d \in 0..m |-> IF d = m THEN 2 * f[m - 1] ELSE f[d]]
  <2>7. g \in [0..m -> Nat]
    BY <2>2, <2>4, <2>6
  <2>8. Doubles(g, m)
    <3> SUFFICES ASSUME NEW d \in 0..m
                 PROVE  g[d] = IF d = 0 THEN 16 ELSE 2 * g[d - 1]
      OBVIOUS
    <3>1. CASE d = m
      BY <2>2, <2>3, <2>4, <3>1
    <3>2. CASE d # m
      <4>1. d \in 0..m - 1 /\ g[d] = f[d]
        BY <2>2, <3>2
      <4>2. f[d] = IF d = 0 THEN 16 ELSE 2 * f[d - 1]
        BY <2>6, <4>1
      <4>3. d # 0 => d - 1 \in 0..m /\ g[d - 1] = f[d - 1]
        BY <2>2, <3>2
      <4> HIDE DEF g
      <4> QED BY <4>1, <4>2, <4>3
    <3> QED BY <3>1, <3>2
  <2> HIDE DEF g
  <2> QED BY <2>2, <2>7, <2>8
<1>2. Ok(n)
  BY <1>1
<1> QED BY <1>2

LEMMA SizesDouble ==
    /\ block_size \in [Descs -> Nat]
    /\ \A d \in Descs : block_size[d] = IF d = 0 THEN 16 ELSE 2 * block_size[d - 1]
<1> USE KMemAssumption
<1> DEFINE IsSizes(f) == f = [d \in Descs |-> IF d = 0 THEN 16 ELSE 2 * f[d - 1]]
<1>1. DESC_CNT - 1 \in Nat
  OBVIOUS
<1>2. PICK f \in [Descs -> Nat] : \A d \in Descs : f[d] = IF d = 0 THEN 16 ELSE 2 * f[d - 1]
  BY <1>1, SizesExist DEF Descs
<1>3. IsSizes(f)
  BY <1>2
<1>4. IsSizes(block_size)
  <2>1. block_size = CHOOSE h : IsSizes(h)
    BY DEF block_size
  <2> HIDE DEF IsSizes
  <2> QED BY <1>3, <2>1
<1>5. \A d \in Descs : block_size[d] = IF d = 0 THEN 16 ELSE 2 * block_size[d - 1]
  BY <1>4
<1>6. \A d \in Descs : block_size[d] \in Nat
  <2> DEFINE bad == {d \in Descs : block_size[d] \notin Nat}
  <2> SUFFICES ASSUME bad # {} PROVE FALSE
    OBVIOUS
  <2>1. bad \subseteq Nat
    BY DEF Descs
  <2>2. PICK d \in bad : \A e \in bad : d <= e
    BY <2>1, MinFacts
  <2>3. d \in Descs /\ block_size[d] \notin Nat
    BY <2>2
  <2>4. d # 0
    BY <2>3, <1>5
  <2>5. d - 1 \in Descs /\ ~(d <= d - 1)
    BY <2>3, <2>4 DEF Descs
  <2>6. block_size[d - 1] \in Nat
    BY <2>2, <2>5
  <2> QED BY <2>3, <2>4, <2>6, <1>5
<1>7. DOMAIN block_size = Descs /\ block_size = [d \in DOMAIN block_size |-> block_size[d]]
  BY <1>4
<1> QED BY <1>5, <1>6, <1>7

\* Every size is at least 16 and none is larger than the last.
LEMMA SizesBounds ==
    \A d \in Descs : /\ block_size[d] \in Nat /\ block_size[d] >= 16
                     /\ block_size[d] <= block_size[DESC_CNT - 1]
<1> USE KMemAssumption, SizesDouble
<1>1. \A d \in Descs : block_size[d] \in Nat
  OBVIOUS
<1>2. \A d \in Descs : block_size[d] >= 16
  <2> DEFINE bad == {d \in Descs : ~(block_size[d] >= 16)}
  <2> SUFFICES ASSUME bad # {} PROVE FALSE
    OBVIOUS
  <2>1. bad \subseteq Nat
    BY DEF Descs
  <2>2. PICK d \in bad : \A e \in bad : d <= e
    BY <2>1, MinFacts
  <2>3. d \in Descs /\ d # 0
    BY <2>2
  <2>4. d - 1 \in Descs /\ ~(d <= d - 1)
    BY <2>3 DEF Descs
  <2>5. block_size[d - 1] >= 16 /\ block_size[d - 1] \in Nat
    BY <2>2, <2>4
  <2>6. block_size[d] = 2 * block_size[d - 1]
    BY <2>3
  <2> QED BY <2>2, <2>5, <2>6
<1>3. \A d \in Descs : block_size[d] <= block_size[DESC_CNT - 1]
  <2> DEFINE bad == {k \in Descs : ~(block_size[DESC_CNT - 1 - k] <= block_size[DESC_CNT - 1])}
  <2>1. bad = {}
    <3> SUFFICES ASSUME bad # {} PROVE FALSE
      OBVIOUS
    <3>1. bad \subseteq Nat
      BY DEF Descs
    <3>2. PICK k \in bad : \A e \in bad : k <= e
      BY <3>1, MinFacts
    <3> DEFINE d == DESC_CNT - 1 - k
    <3>3. k \in Descs /\ d \in Descs /\ ~(block_size[d] <= block_size[DESC_CNT - 1])
      BY <3>2 DEF Descs
    <3>4. DESC_CNT - 1 \in Descs
      BY DEF Descs
    <3>5. k # 0
      BY <3>3, <3>4, <1>1
    <3>6. k - 1 \in Descs /\ ~(k <= k - 1) /\ DESC_CNT - 1 - (k - 1) = d + 1
          /\ d + 1 \in Descs /\ d + 1 # 0 /\ (d + 1) - 1 = d
      BY <3>3, <3>5 DEF Descs
    <3>7. block_size[d + 1] <= block_size[DESC_CNT - 1]
      BY <3>2, <3>6
    <3> HIDE DEF d, bad
    <3>8. block_size[d + 1] = 2 * block_size[d]
      BY <3>6
    <3> QED BY <3>3, <3>4, <3>6, <3>7, <3>8, <1>1
  <2> SUFFICES ASSUME NEW d \in Descs, ~(block_size[d] <= block_size[DESC_CNT - 1]) PROVE FALSE
    OBVIOUS
  <2>2. DESC_CNT - 1 - d \in Descs /\ DESC_CNT - 1 - (DESC_CNT - 1 - d) = d
    BY DEF Descs
  <2>3. DESC_CNT - 1 - d \in bad
    BY <2>2
  <2> QED BY <2>1, <2>3
<1> QED BY <1>1, <1>2, <1>3

\* kalloc() finds a descriptor, and the blocks of it are large enough.
LEMMA DescFacts ==
    ASSUME NEW size \in Sizes
    PROVE  desc_idx(size) \in Descs /\ size <= block_size[desc_idx(size)] /\ size \in Nat /\ size >= 1
<1> DEFINE S == {d \in Descs : size <= block_size[d]}
<1>1. DESC_CNT - 1 \in Descs /\ size \in 1..block_size[DESC_CNT - 1]
  BY KMemAssumption DEF Descs
<1>2. block_size[DESC_CNT - 1] \in Nat
  BY <1>1, SizesBounds
<1>3. size \in Nat /\ size >= 1 /\ size <= block_size[DESC_CNT - 1]
  BY <1>1, <1>2
<1>4. S # {}
  BY <1>1, <1>3
<1>5. S \subseteq Nat
  BY KMemAssumption DEF Descs
<1>6. Min(S) \in S
  BY <1>4, <1>5, MinFacts
<1> QED BY <1>3, <1>6 DEF desc_idx

-----------------------------------------------------------------------------
(* The free lists *)

\* list_append() of a new element.
LEMMA AppendElements ==
    ASSUME NEW list \in Seq(Nat), NEW e \in Nat
    PROVE  /\ Append(list, e) \in Seq(Nat)
           /\ ToSet(Append(list, e)) = ToSet(list) \cup {e}
           /\ IsInjective(list) /\ e \notin ToSet(list) => IsInjective(Append(list, e))
<1> DEFINE l == Append(list, e)
<1>1. /\ l \in Seq(Nat) /\ Len(l) = Len(list) + 1 /\ l[Len(list) + 1] = e
      /\ \A i \in 1..Len(list) : l[i] = list[i]
  OBVIOUS
<1>2. DOMAIN l = 1..Len(list) + 1 /\ DOMAIN list = 1..Len(list) /\ Len(list) \in Nat
  BY <1>1
<1> HIDE DEF l
<1>3. ToSet(l) = ToSet(list) \cup {e}
  BY <1>1, <1>2, SMTT(60) DEF ToSet
<1>4. IsInjective(list) /\ e \notin ToSet(list) => IsInjective(l)
  <2> SUFFICES ASSUME IsInjective(list), e \notin ToSet(list),
                      NEW i \in 1..Len(list) + 1, NEW j \in 1..Len(list) + 1, l[i] = l[j]
               PROVE  i = j
    BY <1>2 DEF IsInjective
  <2>1. \A m \in 1..Len(list) : list[m] # e
    BY <1>2 DEF ToSet
  <2>2. CASE i = Len(list) + 1
    BY <1>1, <1>2, <2>1, <2>2
  <2>3. CASE j = Len(list) + 1
    BY <1>1, <1>2, <2>1, <2>3, SMTT(60)
  <2>4. CASE i \in 1..Len(list) /\ j \in 1..Len(list)
    BY <1>1, <1>2, <2>4 DEF IsInjective
  <2> QED BY <1>2, <2>2, <2>3, <2>4
<1> QED BY <1>1, <1>3, <1>4 DEF l

\* The head of a list is an element of it, and the others are the tail.
LEMMA TailElements ==
    ASSUME NEW list \in Seq(Nat), list # <<>>, IsInjective(list)
    PROVE  /\ Head(list) \in Nat /\ Head(list) \in ToSet(list) /\ Tail(list) \in Seq(Nat)
           /\ ToSet(Tail(list)) = ToSet(list) \ {Head(list)}
           /\ IsInjective(Tail(list))
<1> DEFINE l == Tail(list)
<1>1. /\ Len(list) \in Nat /\ Len(list) >= 1 /\ Head(list) = list[1] /\ l \in Seq(Nat)
      /\ Len(l) = Len(list) - 1 /\ \A i \in 1..Len(l) : l[i] = list[i + 1]
  OBVIOUS
<1>2. DOMAIN l = 1..Len(list) - 1 /\ DOMAIN list = 1..Len(list)
  BY <1>1
<1> HIDE DEF l
<1>3. IsInjective(l)
  <2> SUFFICES ASSUME NEW a \in DOMAIN l, NEW b \in DOMAIN l, l[a] = l[b] PROVE a = b
    BY DEF IsInjective
  <2>1. a \in 1..Len(l) /\ b \in 1..Len(l) /\ Len(l) \in Nat
    BY <1>1, <1>2
  <2>2. a + 1 \in DOMAIN list /\ b + 1 \in DOMAIN list /\ list[a + 1] = list[b + 1]
    <3>1. l[a] = list[a + 1] /\ l[b] = list[b + 1]
      BY <1>1, <2>1
    <3>2. a + 1 \in 1..Len(list) /\ b + 1 \in 1..Len(list)
      <4> DEFINE m == Len(list)
                 n == Len(l)
      <4>1. m \in Nat /\ n = m - 1 /\ a \in 1..n /\ b \in 1..n
        BY <1>1, <2>1
      <4> HIDE DEF m, n
      <4>2. a + 1 \in 1..m /\ b + 1 \in 1..m
        BY <4>1
      <4> QED BY <4>2 DEF m
    <3> QED BY <1>2, <3>1, <3>2
  <2>3. a + 1 = b + 1
    BY <2>2 DEF IsInjective
  <2> QED BY <1>1, <1>2, <2>3
<1>4. ToSet(l) \subseteq ToSet(list) \ {Head(list)}
  <2> SUFFICES ASSUME NEW a \in DOMAIN l PROVE l[a] \in ToSet(list) \ {Head(list)}
    BY DEF ToSet
  <2>1. a + 1 \in DOMAIN list /\ 1 \in DOMAIN list /\ a + 1 # 1 /\ l[a] = list[a + 1]
    BY <1>1, <1>2, SMTT(60)
  <2>2. list[a + 1] # list[1]
    BY <2>1 DEF IsInjective
  <2> QED BY <1>1, <2>1, <2>2 DEF ToSet
<1>5. ASSUME NEW x \in ToSet(list), x # Head(list)
      PROVE  x \in ToSet(l)
  <2>1. PICK i \in 1..Len(list) : x = list[i]
    BY <1>2 DEF ToSet
  <2>2. i - 1 \in 1..Len(list) - 1 /\ (i - 1) + 1 = i
    BY <1>1, <1>5, <2>1
  <2>3. l[i - 1] = x
    BY <1>1, <2>1, <2>2
  <2> QED BY <1>2, <2>2, <2>3 DEF ToSet
<1>6. list[1] \in ToSet(list) /\ list[1] \in Nat
  BY <1>1, <1>2, SMTT(60) DEF ToSet
<1> QED BY <1>1, <1>3, <1>4, <1>5, <1>6 DEF l

\* What the loop of kfree() has kept of the first i blocks of a list when `f' is
\* what it has kept of fewer.
KeptStep(list, gone, f, i) ==
    IF i = 0 THEN <<>>
    ELSE IF list[i] \in gone THEN f[i - 1] ELSE Append(f[i - 1], list[i])

LEMMA KeptExists ==
    ASSUME NEW list, NEW gone, NEW n \in Nat
    PROVE  \E f : f = [i \in 0..n |-> KeptStep(list, gone, f, i)]
<1> DEFINE Kept(f, k) == f = [i \in 0..k |-> KeptStep(list, gone, f, i)]
           Ok(k) == \E f : Kept(f, k)
           bad == {k \in Nat : ~Ok(k)}
<1>1. bad = {}
  <2> SUFFICES ASSUME bad # {} PROVE FALSE
    OBVIOUS
  <2> DEFINE m == Min(bad)
  <2>1. m \in bad /\ \A k \in bad : m <= k
    BY MinFacts
  <2>2. m \in Nat /\ ~Ok(m) /\ \A k \in Nat : k < m => Ok(k)
    <3> HIDE DEF Ok
    <3>1. m \in Nat /\ ~Ok(m)
      BY <2>1
    <3>2. \A k \in Nat : k < m => k \notin bad
      BY <2>1, <3>1
    <3> QED BY <3>1, <3>2
  <2> HIDE DEF m, bad
  <2>3. m # 0
    <3> DEFINE f == [i \in 0..0 |-> <<>>]
    <3>1. f = [i \in 0..0 |-> KeptStep(list, gone, f, i)]
      BY DEF KeptStep
    <3> HIDE DEF f
    <3>2. Ok(0)
      BY <3>1
    <3> QED BY <2>2, <3>2
  <2>4. m - 1 \in Nat /\ m - 1 < m
    BY <2>2, <2>3
  <2>5. PICK f : Kept(f, m - 1)
    BY <2>2, <2>4
  <2> DEFINE g == [i \in 0..m |-> IF i = m THEN KeptStep(list, gone, f, m) ELSE f[i]]
  <2>6. \A i \in 0..m : g[i] = KeptStep(list, gone, g, i)
    <3> SUFFICES ASSUME NEW i \in 0..m PROVE g[i] = KeptStep(list, gone, g, i)
      OBVIOUS
    <3>1. g[i] = KeptStep(list, gone, f, i)
      <4>1. CASE i = m
        BY <4>1
      <4>2. CASE i # m
        <5>1. i \in 0..m - 1
          BY <2>2, <4>2
        <5>2. f[i] = KeptStep(list, gone, f, i)
          <6> DEFINE S(j) == KeptStep(list, gone, f, j)
          <6> HIDE DEF S
          <6>1. f = [j \in 0..m - 1 |-> S(j)]
            BY <2>5 DEF S
          <6>2. f[i] = S(i)
            BY <6>1, <5>1
          <6> QED BY <6>2 DEF S
        <5> QED BY <4>2, <5>2
      <4> QED BY <4>1, <4>2
    <3>2. i # 0 => i - 1 \in 0..m /\ g[i - 1] = f[i - 1]
      BY <2>2
    <3> HIDE DEF g
    <3> QED BY <3>1, <3>2 DEF KeptStep
  <2>7. g = [i \in 0..m |-> KeptStep(list, gone, g, i)]
    <3>1. g = [i \in 0..m |-> g[i]]
      OBVIOUS
    <3> HIDE DEF g
    <3> QED BY <2>6, <3>1
  <2> HIDE DEF g
  <2>8. Ok(m)
    BY <2>7
  <2> QED BY <2>2, <2>8
<1>2. Ok(n)
  BY <1>1
<1> QED BY <1>2

\* What stays in a list when the blocks `gone' are taken out of it.
LEMMA WithoutFacts ==
    ASSUME NEW list \in Seq(Nat), IsInjective(list), NEW gone
    PROVE  /\ free_list_without(list, gone) \in Seq(Nat)
           /\ ToSet(free_list_without(list, gone)) = ToSet(list) \ gone
           /\ IsInjective(free_list_without(list, gone))
<1> DEFINE N == Len(list)
           IsKept(f) == f = [i \in 0..N |-> KeptStep(list, gone, f, i)]
           kept == CHOOSE f : IsKept(f)
<1>1. N \in Nat /\ DOMAIN list = 1..N /\ \A i \in 1..N : list[i] \in Nat
  OBVIOUS
<1>2. free_list_without(list, gone) = kept[N]
  BY DEF free_list_without, KeptStep
<1>3. IsKept(kept)
  <2>1. \E f : IsKept(f)
    BY <1>1, KeptExists
  <2> HIDE DEF IsKept
  <2> QED BY <2>1
<1> HIDE DEF kept
<1>4. \A i \in 0..N : kept[i] = KeptStep(list, gone, kept, i)
  <2> DEFINE S(j) == KeptStep(list, gone, kept, j)
  <2> HIDE DEF S
  <2>1. kept = [j \in 0..N |-> S(j)]
    BY <1>3 DEF S
  <2>2. \A i \in 0..N : kept[i] = S(i)
    BY <2>1
  <2> QED BY <2>2 DEF S
<1> HIDE DEF IsKept
<1> DEFINE Good(k) == /\ kept[k] \in Seq(Nat)
                      /\ ToSet(kept[k]) = {list[j] : j \in 1..k} \ gone
                      /\ IsInjective(kept[k])
<1>5. \A k \in 0..N : Good(k)
  <2> DEFINE bad == {k \in 0..N : ~Good(k)}
  <2> SUFFICES ASSUME bad # {} PROVE FALSE
    OBVIOUS
  <2>1. PICK k \in bad : \A j \in bad : k <= j
    <3> HIDE DEF Good
    <3>1. bad \subseteq Nat
      BY <1>1
    <3> HIDE DEF bad
    <3> QED BY <3>1, MinFacts
  <2>2. k \in 0..N /\ ~Good(k)
    BY <2>1
  <2>3. k # 0
    <3>1. kept[0] = <<>>
      BY <1>1, <1>4 DEF KeptStep
    <3>2. Good(0)
      BY <3>1 DEF ToSet, IsInjective
    <3> QED BY <2>2, <3>2
  <2>4. k - 1 \in 0..N /\ ~(k <= k - 1) /\ k \in 1..N
    BY <2>2, <2>3, <1>1
  <2>5. Good(k - 1)
    BY <2>1, <2>4
  <2>6. {list[j] : j \in 1..k} = {list[j] : j \in 1..k - 1} \cup {list[k]}
    BY <2>4, <1>1, SMTT(60)
  <2>7. list[k] \notin {list[j] : j \in 1..k - 1}
    <3> SUFFICES ASSUME NEW j \in 1..k - 1, list[j] = list[k] PROVE FALSE
      OBVIOUS
    <3>1. j \in DOMAIN list /\ k \in DOMAIN list /\ j # k
      BY <2>4, <1>1
    <3> QED BY <3>1 DEF IsInjective
  <2>8. CASE list[k] \in gone
    <3>1. kept[k] = kept[k - 1]
      BY <1>4, <2>4, <2>8, SMTT(60) DEF KeptStep
    <3> QED BY <2>2, <2>5, <2>6, <2>8, <3>1
  <2>9. CASE list[k] \notin gone
    <3>1. kept[k] = Append(kept[k - 1], list[k])
      <4>1. kept[k] = KeptStep(list, gone, kept, k)
        BY <1>4, <2>2
      <4> QED BY <2>3, <2>9, <4>1 DEF KeptStep
    <3>2. list[k] \in Nat /\ list[k] \notin ToSet(kept[k - 1])
      BY <1>1, <2>4, <2>5, <2>7
    <3>3. /\ kept[k] \in Seq(Nat) /\ IsInjective(kept[k])
          /\ ToSet(kept[k]) = ToSet(kept[k - 1]) \cup {list[k]}
      <4>1. kept[k - 1] \in Seq(Nat) /\ IsInjective(kept[k - 1])
        BY <2>5
      <4> HIDE DEF Good
      <4> QED BY <3>1, <3>2, <4>1, AppendElements
    <3> QED BY <2>2, <2>5, <2>6, <2>9, <3>3
  <2> QED BY <2>8, <2>9
<1>6. Good(N)
  <2>1. N \in 0..N
    BY <1>1
  <2> HIDE DEF Good
  <2> QED BY <1>5, <2>1
<1>7. ToSet(list) = {list[j] : j \in 1..N}
  BY <1>1 DEF ToSet
<1> QED BY <1>2, <1>6, <1>7

-----------------------------------------------------------------------------
(* The blocks of an arena *)

LEMMA DivFacts ==
    ASSUME NEW n \in Nat, NEW b \in Nat \ {0}
    PROVE  n \div b \in Nat /\ b * (n \div b) <= n /\ n < b * (n \div b) + b
OBVIOUS

\* Quotient and remainder of an address in page p.
LEMMA PageOf ==
    ASSUME NEW g \in Nat \ {0}, NEW p \in Nat, NEW x \in Nat, NEW r \in 0..g - 1,
           x = p * g + r
    PROVE  x \div g = p /\ x % g = r
OBVIOUS

\* At least one block fits in an arena, and the last one ends within the page.
LEMMA PerArena ==
    ASSUME NEW d \in Descs
    PROVE  /\ blocks_per_arena(d) \in Nat /\ blocks_per_arena(d) >= 1
           /\ sizeof_arena + block_size[d] * blocks_per_arena(d) <= PG_SIZE
           /\ blocks_per_arena(d) <= PG_SIZE
           /\ PG_SIZE \in Nat \ {0} /\ block_size[d] \in Nat /\ block_size[d] >= 16
<1> DEFINE B == block_size[d]
           n == blocks_per_arena(d)
           room == PG_SIZE - sizeof_arena
<1>1. B \in Nat /\ B >= 16 /\ B <= block_size[DESC_CNT - 1]
  BY SizesBounds
<1>2. DESC_CNT - 1 \in Descs
  BY KMemAssumption DEF Descs
<1>3. block_size[DESC_CNT - 1] \in Nat
  BY <1>2, SizesBounds
<1>4. PG_SIZE \in Nat /\ PG_SIZE >= 16 + block_size[DESC_CNT - 1]
  BY KMemAssumption DEF sizeof_arena
<1>5. room \in Nat /\ room >= B /\ room = PG_SIZE - 16
  BY <1>1, <1>3, <1>4 DEF sizeof_arena
<1>6. n = room \div B
  BY DEF blocks_per_arena
<1> HIDE DEF room, n, B
<1>7. n \in Nat /\ B * n <= room /\ room < B * n + B
  BY <1>1, <1>5, <1>6, DivFacts
<1>8. n >= 1
  <2> SUFFICES ASSUME n = 0 PROVE FALSE
    BY <1>7
  <2>1. B * n = 0
    BY <1>1
  <2> QED BY <1>1, <1>5, <1>7, <2>1
<1>9. n <= B * n
  BY <1>1, <1>7
<1>10. B * n \in Nat
  BY <1>1, <1>7
<1> QED BY <1>1, <1>4, <1>5, <1>7, <1>8, <1>9, <1>10 DEF B, n, sizeof_arena

\* Where a block lies: in its page, behind the struct arena.
LEMMA BlockPlace ==
    ASSUME NEW p \in Nat, NEW d \in Descs, NEW idx \in 0..blocks_per_arena(d) - 1
    PROVE  LET a == arena2block(p, d, idx)
           IN  /\ a \in Nat /\ block2arena(a) = p /\ a % PG_SIZE >= sizeof_arena
               /\ p * PG_SIZE <= a
               /\ a + block_size[d] <= p * PG_SIZE + PG_SIZE
<1> DEFINE B == block_size[d]
           n == blocks_per_arena(d)
           a == arena2block(p, d, idx)
           r == 16 + B * idx
<1>1. /\ n \in Nat /\ 16 + B * n <= PG_SIZE /\ B \in Nat /\ B >= 16
      /\ PG_SIZE \in Nat \ {0}
  BY PerArena DEF sizeof_arena
<1>2. idx \in 0..n - 1 /\ idx \in Nat /\ idx + 1 <= n
  BY <1>1
<1>3. a = p * PG_SIZE + 16 + B * idx
  BY DEF arena2block, sizeof_arena
<1> HIDE DEF n, a, B
<1>4. B * idx + B <= B * n
  BY <1>1, <1>2
<1>5. B * idx \in Nat /\ B * n \in Nat /\ p * PG_SIZE \in Nat
  BY <1>1, <1>2
<1>6. r \in 0..PG_SIZE - 1 /\ r + B <= PG_SIZE /\ r >= 16 /\ r \in Nat
  BY <1>1, <1>4, <1>5
<1>7. a = p * PG_SIZE + r /\ a \in Nat
  BY <1>3, <1>5
<1> HIDE DEF r
<1>8. a \div PG_SIZE = p /\ a % PG_SIZE = r
  BY <1>1, <1>6, <1>7, PageOf
<1>9. a + B <= p * PG_SIZE + PG_SIZE /\ p * PG_SIZE <= a
  BY <1>1, <1>5, <1>6, <1>7
<1> QED BY <1>6, <1>7, <1>8, <1>9 DEF a, B, block2arena, sizeof_arena

\* Two blocks of an arena do not overlap.
LEMMA BlocksApart ==
    ASSUME NEW p \in Nat, NEW d \in Descs,
           NEW i \in 0..blocks_per_arena(d) - 1, NEW j \in 0..blocks_per_arena(d) - 1, i < j
    PROVE  arena2block(p, d, i) + block_size[d] <= arena2block(p, d, j)
<1> DEFINE B == block_size[d]
<1>1. B \in Nat /\ PG_SIZE \in Nat /\ blocks_per_arena(d) \in Nat
  BY PerArena
<1>2. i \in Nat /\ j \in Nat /\ i + 1 <= j
  BY <1>1
<1> HIDE DEF B
<1>3. B * i + B <= B * j /\ B * i \in Nat /\ B * j \in Nat /\ p * PG_SIZE \in Nat
  BY <1>1, <1>2
<1>4. p * PG_SIZE + 16 + B * i + B <= p * PG_SIZE + 16 + B * j
  BY <1>1, <1>3
<1> QED BY <1>4 DEF arena2block, sizeof_arena, B

\* The blocks of an arena: all in its page, and blocks_per_arena(d) of them.
LEMMA ArenaFacts ==
    ASSUME NEW p \in Nat, NEW d \in Descs
    PROVE  /\ \A a \in ArenaBlocks(p, d) :
                 /\ a \in Nat /\ block2arena(a) = p /\ a % PG_SIZE >= sizeof_arena
                 /\ p * PG_SIZE <= a /\ a + block_size[d] <= p * PG_SIZE + PG_SIZE
           /\ \A a, b \in ArenaBlocks(p, d) :
                 a = b \/ a + block_size[d] <= b \/ b + block_size[d] <= a
           /\ IsFiniteSet(ArenaBlocks(p, d))
           /\ Cardinality(ArenaBlocks(p, d)) = blocks_per_arena(d)
           /\ ArenaBlocks(p, d) # {}
<1> DEFINE n == blocks_per_arena(d)
           A == ArenaBlocks(p, d)
           f == [idx \in 0..n - 1 |-> arena2block(p, d, idx)]
<1>1. n \in Nat /\ n >= 1 /\ block_size[d] \in Nat /\ block_size[d] >= 16 /\ PG_SIZE \in Nat
  BY PerArena
<1>2. \A a \in A : \E idx \in 0..n - 1 : a = arena2block(p, d, idx)
  BY DEF ArenaBlocks
<1>3. \A a \in A : /\ a \in Nat /\ block2arena(a) = p /\ a % PG_SIZE >= sizeof_arena
                   /\ p * PG_SIZE <= a /\ a + block_size[d] <= p * PG_SIZE + PG_SIZE
  BY <1>2, BlockPlace
<1>4. \A a, b \in A : a = b \/ a + block_size[d] <= b \/ b + block_size[d] <= a
  <2> SUFFICES ASSUME NEW a \in A, NEW b \in A
               PROVE  a = b \/ a + block_size[d] <= b \/ b + block_size[d] <= a
    OBVIOUS
  <2>1. PICK i \in 0..n - 1 : a = arena2block(p, d, i)
    BY <1>2
  <2>2. PICK j \in 0..n - 1 : b = arena2block(p, d, j)
    BY <1>2
  <2>3. i = j \/ i < j \/ j < i
    BY <1>1
  <2>4. i < j => a + block_size[d] <= b
    BY <2>1, <2>2, BlocksApart
  <2>5. j < i => b + block_size[d] <= a
    BY <2>1, <2>2, BlocksApart
  <2> QED BY <2>1, <2>2, <2>3, <2>4, <2>5
<1>5. f \in Bijection(0..n - 1, A)
  <2>1. f \in [0..n - 1 -> A]
    BY DEF ArenaBlocks
  <2>2. \A a \in A : \E idx \in 0..n - 1 : f[idx] = a
    BY <1>2
  <2>3. \A i, j \in 0..n - 1 : i < j => f[i] # f[j]
    <3> SUFFICES ASSUME NEW i \in 0..n - 1, NEW j \in 0..n - 1, i < j, f[i] = f[j] PROVE FALSE
      OBVIOUS
    <3>1. f[i] + block_size[d] <= f[j]
      BY BlocksApart
    <3>2. f[i] \in Nat
      BY <1>3, <2>1
    <3> HIDE DEF f
    <3> QED BY <3>1, <3>2, <1>1
  <2> HIDE DEF f, A
  <2>4. \A i, j \in 0..n - 1 : f[i] = f[j] => i = j
    <3> SUFFICES ASSUME NEW i \in 0..n - 1, NEW j \in 0..n - 1, f[i] = f[j], i # j PROVE FALSE
      OBVIOUS
    <3>1. i < j \/ j < i
      BY <1>1
    <3> QED BY <3>1, <2>3
  <2>5. IsInjective(f)
    BY <2>1, <2>4 DEF IsInjective
  <2> QED BY <2>1, <2>2, <2>5 DEF Bijection, Injection, Surjection
<1>6. IsFiniteSet(0..n - 1) /\ Cardinality(0..n - 1) = n
  <2>1. IsFiniteSet(0..n - 1)
        /\ Cardinality(0..n - 1) = IF 0 > n - 1 THEN 0 ELSE n - 1 - 0 + 1
    <3> HIDE DEF n
    <3>1. n - 1 \in Int
      BY <1>1
    <3> DEFINE k == n - 1
    <3> HIDE DEF k
    <3>2. k \in Int
      BY <3>1 DEF k
    <3>3. IsFiniteSet(0..k) /\ Cardinality(0..k) = IF 0 > k THEN 0 ELSE k - 0 + 1
      BY <3>2, FS_Interval
    <3> QED BY <3>3 DEF k
  <2> QED BY <1>1, <2>1
<1>7. IsFiniteSet(A) /\ Cardinality(A) = n
  <2> HIDE DEF A, n, f
  <2>1. ExistsBijection(0..n - 1, A)
    BY <1>5 DEF ExistsBijection
  <2> QED BY <2>1, <1>6, FS_Bijection
<1>8. A # {}
  <2>1. 0 \in 0..n - 1
    BY <1>1
  <2> QED BY <2>1 DEF ArenaBlocks
<1> QED BY <1>3, <1>4, <1>7, <1>8

\* The list of a new arena holds its blocks, each once.
LEMMA ListFacts ==
    ASSUME NEW p \in Nat, NEW d \in Descs
    PROVE  /\ arena_list(p, d) \in Seq(Nat) /\ arena_list(p, d) # <<>>
           /\ ToSet(arena_list(p, d)) = ArenaBlocks(p, d)
           /\ IsInjective(arena_list(p, d))
<1> DEFINE n == blocks_per_arena(d)
           l == arena_list(p, d)
<1>1. n \in Nat /\ n >= 1 /\ block_size[d] \in Nat /\ block_size[d] >= 16
  BY PerArena
<1>2. DOMAIN l = 1..n /\ \A i \in 1..n : l[i] = arena2block(p, d, n - i)
  BY DEF arena_list
<1>3. l = [i \in 1..n |-> l[i]]
  BY DEF arena_list
<1>4. \A i \in 1..n : n - i \in 0..n - 1 /\ n - (n - i) = i
  BY <1>1
<1>5. \A i \in 0..n - 1 : n - i \in 1..n /\ n - (n - i) = i
  BY <1>1
<1> HIDE DEF n, l
<1>6. ToSet(l) = ArenaBlocks(p, d)
  <2>1. \A x \in ToSet(l) : x \in ArenaBlocks(p, d)
    BY <1>2, <1>4 DEF ToSet, ArenaBlocks, n
  <2>2. ASSUME NEW idx \in 0..n - 1
        PROVE  arena2block(p, d, idx) \in ToSet(l)
    <3>1. n - idx \in 1..n /\ l[n - idx] = arena2block(p, d, idx)
      BY <1>2, <1>5
    <3> QED BY <3>1, <1>2 DEF ToSet
  <2> QED BY <2>1, <2>2 DEF ArenaBlocks, n
<1>7. \A i \in 1..n : l[i] \in Nat
  <2>1. \A i \in 1..n : l[i] \in ArenaBlocks(p, d)
    BY <1>2, <1>6 DEF ToSet
  <2> QED BY <2>1, ArenaFacts
<1>8. l \in Seq(Nat) /\ l # <<>>
  <2>1. l \in [1..n -> Nat]
    BY <1>3, <1>7
  <2>2. n \in Nat /\ 1 \in 1..n
    BY <1>1
  <2>3. l \in Seq(Nat)
    BY <2>1, <2>2
  <2>4. 1 \in DOMAIN l
    BY <2>1, <2>2
  <2> QED BY <2>3, <2>4
<1>9. IsInjective(l)
  <2>1. \A i, j \in 1..n : i < j => l[i] # l[j]
    <3> SUFFICES ASSUME NEW i \in 1..n, NEW j \in 1..n, i < j, l[i] = l[j] PROVE FALSE
      OBVIOUS
    <3>1. n - i \in 0..n - 1 /\ n - j \in 0..n - 1 /\ n - j < n - i
      BY <1>1
    <3>2. l[j] + block_size[d] <= l[i]
      BY <3>1, <1>2, BlocksApart DEF n
    <3> QED BY <1>1, <1>7, <3>2
  <2> SUFFICES ASSUME NEW i \in 1..n, NEW j \in 1..n, l[i] = l[j], i # j PROVE FALSE
    BY <1>2 DEF IsInjective
  <2>2. i < j \/ j < i
    BY <1>1
  <2> QED BY <2>1, <2>2
<1> QED BY <1>6, <1>8, <1>9 DEF l

-----------------------------------------------------------------------------
(* The inductive invariant *)

\* The pages that hold a block in use, the addresses in use, the pages of the runs
\* and the blocks of an arena that are not in use.
Arenas == {block2arena(b.addr) : b \in blocks}
Addrs == {b.addr : b \in blocks}
RunPages == UNION {Pages(r.first, r.cnt) : r \in runs}
Unused(p) == ArenaBlocks(p, arena[p].desc) \ Addrs

\* The blocks in use are blocks of their arenas, each once.
BlocksOK ==
    /\ \A b \in blocks :
          LET p == block2arena(b.addr)
          IN  /\ p \in 0..PoolPages - 1
              /\ b.addr \in ArenaBlocks(p, arena[p].desc)
              /\ b.size <= block_size[arena[p].desc]
    /\ \A b, c \in blocks : b.addr = c.addr => b = c

\* The set bits are the pages of the arenas and of the runs, each page in one.
PagesOK ==
    /\ pool = Arenas \cup RunPages
    /\ \A r \in runs : Pages(r.first, r.cnt) \cap Arenas = {}
    /\ \A r, s \in runs : r # s => Pages(r.first, r.cnt) \cap Pages(s.first, s.cnt) = {}

\* a is a free block of descriptor d.
IsFree(a, d) ==
    LET p == block2arena(a)
    IN  p \in Arenas /\ arena[p].desc = d /\ a \in Unused(p)

\* The free lists hold the free blocks, each once.
ListsOK ==
    \A d \in Descs : /\ IsInjective(free_list[d])
                     /\ \A a : a \in ToSet(free_list[d]) <=> IsFree(a, d)

CountsOK == \A p \in Arenas : arena[p].free_block_cnt = Cardinality(Unused(p))

KMemInv == KMemTypeOK /\ ~panic /\ BlocksOK /\ PagesOK /\ ListsOK /\ CountsOK

LEMMA KMemInitial == KMemInit => KMemInv
<1> SUFFICES ASSUME KMemInit PROVE KMemInv
  OBVIOUS
<1> USE KMemAssumption DEF KMemInit
<1>1. Arenas = {} /\ Addrs = {} /\ RunPages = {}
  BY DEF Arenas, Addrs, RunPages
<1>2. KMemTypeOK
  <2>1. 0 \in Descs /\ 0 \in 0..PG_SIZE
    BY DEF Descs
  <2>2. arena \in [0..PoolPages - 1 -> [desc : Descs, free_block_cnt : 0..PG_SIZE]]
    BY <2>1
  <2>3. free_list \in [Descs -> Seq(Nat)]
    OBVIOUS
  <2> QED BY <2>2, <2>3 DEF KMemTypeOK
<1>3. BlocksOK /\ PagesOK /\ CountsOK
  BY <1>1 DEF BlocksOK, PagesOK, CountsOK
<1>4. ListsOK
  BY <1>1 DEF ListsOK, IsFree, IsInjective, ToSet
<1> QED BY <1>2, <1>3, <1>4 DEF KMemInv

\* What the steps need of the current state.
LEMMA Now ==
    ASSUME KMemInv
    PROVE  /\ pool \subseteq Nat /\ Arenas \subseteq 0..PoolPages - 1 /\ Arenas \subseteq pool
           /\ \A p \in 0..PoolPages - 1 :
                 /\ p \in Nat /\ arena[p].desc \in Descs
                 /\ arena[p].free_block_cnt \in 0..PG_SIZE
           /\ \A r \in runs : Pages(r.first, r.cnt) \subseteq pool
           /\ \A b \in blocks : b.addr \in Nat /\ b.addr \in Addrs
                                /\ block2arena(b.addr) \in Arenas
           /\ \A p \in Arenas : /\ IsFiniteSet(Unused(p)) /\ Cardinality(Unused(p)) \in Nat
                                /\ \A a \in Unused(p) : a \in Nat /\ block2arena(a) = p
<1> USE DEF KMemInv
<1>1. PoolPages \in Nat
  BY KMemAssumption
<1>2. pool \subseteq Nat
  BY DEF KMemTypeOK
<1>3. \A p \in 0..PoolPages - 1 : /\ p \in Nat /\ arena[p].desc \in Descs
                                  /\ arena[p].free_block_cnt \in 0..PG_SIZE
  BY <1>1 DEF KMemTypeOK
<1>4. Arenas \subseteq 0..PoolPages - 1
  BY DEF Arenas, BlocksOK
<1>5. Arenas \subseteq pool /\ \A r \in runs : Pages(r.first, r.cnt) \subseteq pool
  BY DEF PagesOK, RunPages
<1>6. \A b \in blocks : b.addr \in Nat /\ b.addr \in Addrs /\ block2arena(b.addr) \in Arenas
  BY DEF KMemTypeOK, Arenas, Addrs
<1>7. ASSUME NEW p \in Arenas
      PROVE  /\ IsFiniteSet(Unused(p)) /\ Cardinality(Unused(p)) \in Nat
             /\ \A a \in Unused(p) : a \in Nat /\ block2arena(a) = p
  <2> DEFINE A == ArenaBlocks(p, arena[p].desc)
  <2>1. p \in Nat /\ arena[p].desc \in Descs
    BY <1>3, <1>4
  <2>2. IsFiniteSet(A) /\ \A a \in A : a \in Nat /\ block2arena(a) = p
    BY <2>1, ArenaFacts
  <2>3. Unused(p) \in SUBSET A
    BY DEF Unused
  <2>4. IsFiniteSet(Unused(p))
    BY <2>2, <2>3, FS_Subset
  <2> QED BY <2>2, <2>3, <2>4, FS_CardinalityType
<1> QED BY <1>2, <1>3, <1>4, <1>5, <1>6, <1>7

-----------------------------------------------------------------------------
(* The steps *)

LEMMA AllocPagesInv ==
    ASSUME KMemInv, NEW cnt \in 1..MaxRun, AllocPages(cnt)
    PROVE  KMemInv'
<1> DEFINE first == bitmap_alloc(cnt)
           r == [first |-> first, cnt |-> cnt]
<1> USE KMemAssumption
<1>1. pool \subseteq Nat
  BY Now
<1>2. first \in 0..BitmapBits - 1 /\ Pages(first, cnt) \cap pool = {}
  BY <1>1, SearchClear DEF AllocPages
<1>3. /\ ~panic /\ pool' = pool \cup Pages(first, cnt) /\ runs' = runs \cup {r}
      /\ UNCHANGED <<arena, free_list, blocks, panic>>
  BY DEF AllocPages
<1> HIDE DEF first
<1>4. KMemTypeOK'
  <2>1. Pages(first, cnt) \subseteq 0..BitmapBits + MaxRun - 2
    BY <1>2 DEF Pages
  <2>2. r \in [first : 0..BitmapBits - 1, cnt : 1..MaxRun]
    BY <1>2
  <2> QED BY <1>3, <2>1, <2>2 DEF KMemInv, KMemTypeOK
<1>5. Arenas' = Arenas /\ Addrs' = Addrs /\ \A p : Unused(p)' = Unused(p)
  BY <1>3 DEF Arenas, Addrs, Unused, ArenaBlocks
<1>6. BlocksOK'
  BY <1>3 DEF KMemInv, BlocksOK, ArenaBlocks
<1>7. PagesOK'
  <2>1. RunPages' = RunPages \cup Pages(first, cnt)
    <3>1. \A x : x \in RunPages' <=> \E q \in runs' : x \in Pages(q.first, q.cnt)
      BY DEF RunPages, Pages
    <3>2. \A x : x \in RunPages <=> \E q \in runs : x \in Pages(q.first, q.cnt)
      BY DEF RunPages
    <3>3. r.first = first /\ r.cnt = cnt
      OBVIOUS
    <3> HIDE DEF r
    <3>4. \A x : x \in RunPages' <=> x \in RunPages \/ x \in Pages(first, cnt)
      BY <1>3, <3>1, <3>2, <3>3
    <3> QED BY <3>4
  <2>2. pool' = Arenas' \cup RunPages'
    BY <1>3, <1>5, <2>1 DEF KMemInv, PagesOK
  <2>3. \A q \in runs' : Pages(q.first, q.cnt) \cap Arenas' = {}
    BY <1>2, <1>3, <1>5, Now DEF KMemInv, PagesOK
  <2>4. \A q, s \in runs' : q # s => Pages(q.first, q.cnt) \cap Pages(s.first, s.cnt) = {}
    <3>1. r.first = first /\ r.cnt = cnt
      OBVIOUS
    <3>2. \A q \in runs : Pages(q.first, q.cnt) \cap Pages(first, cnt) = {}
      BY <1>2, Now
    <3>3. \A q, s \in runs : q # s => Pages(q.first, q.cnt) \cap Pages(s.first, s.cnt) = {}
      BY DEF KMemInv, PagesOK
    <3> HIDE DEF r
    <3> QED BY <1>3, <3>1, <3>2, <3>3
  <2> QED BY <2>2, <2>3, <2>4 DEF PagesOK
<1>8. ListsOK'
  <2>1. \A a, d : IsFree(a, d)' <=> IsFree(a, d)
    BY <1>3, <1>5 DEF IsFree
  <2> QED BY <1>3, <2>1 DEF KMemInv, ListsOK
<1>9. CountsOK'
  BY <1>3, <1>5 DEF KMemInv, CountsOK
<1> QED BY <1>3, <1>4, <1>6, <1>7, <1>8, <1>9 DEF KMemInv

LEMMA FreePagesInv ==
    ASSUME KMemInv, NEW r \in runs, FreePages(r)
    PROVE  KMemInv'
<1>1. Pages(r.first, r.cnt) \subseteq pool
  BY Now
<1>2. /\ ~panic' /\ pool' = pool \ Pages(r.first, r.cnt) /\ runs' = runs \ {r}
      /\ UNCHANGED <<arena, free_list, blocks>>
  BY <1>1 DEF FreePages
<1>3. KMemTypeOK'
  BY <1>2 DEF KMemInv, KMemTypeOK, FreePages
<1>4. Arenas' = Arenas /\ Addrs' = Addrs /\ \A p : Unused(p)' = Unused(p)
  BY <1>2 DEF Arenas, Addrs, Unused, ArenaBlocks
<1>5. BlocksOK'
  BY <1>2 DEF KMemInv, BlocksOK, ArenaBlocks
<1>6. PagesOK'
  <2>1. RunPages' = RunPages \ Pages(r.first, r.cnt)
    BY <1>2 DEF KMemInv, PagesOK, RunPages
  <2>2. pool' = Arenas' \cup RunPages'
    BY <1>2, <1>4, <2>1 DEF KMemInv, PagesOK
  <2> QED BY <1>2, <1>4, <2>2 DEF KMemInv, PagesOK
<1>7. ListsOK'
  <2>1. \A a, d : IsFree(a, d)' <=> IsFree(a, d)
    BY <1>2, <1>4 DEF IsFree
  <2> QED BY <1>2, <2>1 DEF KMemInv, ListsOK
<1>8. CountsOK'
  BY <1>2, <1>4 DEF KMemInv, CountsOK
<1> QED BY <1>2, <1>3, <1>5, <1>6, <1>7, <1>8 DEF KMemInv

LEMMA KallocFreeInv ==
    ASSUME KMemInv, NEW size \in Sizes, KallocFree(size)
    PROVE  KMemInv'
<1> DEFINE d == desc_idx(size)
           b == Head(free_list[d])
           p == block2arena(b)
           new == [addr |-> b, size |-> size]
<1>1. d \in Descs /\ size <= block_size[d]
  BY DescFacts
<1>2. /\ ~panic /\ free_list[d] # <<>>
      /\ free_list' = [free_list EXCEPT ![d] = Tail(@)]
      /\ arena' = [arena EXCEPT ![p].free_block_cnt = @ - 1]
      /\ blocks' = blocks \cup {new}
      /\ UNCHANGED <<pool, runs, panic>>
  BY DEF KallocFree
<1> HIDE DEF d
<1>3. /\ free_list \in [Descs -> Seq(Nat)]
      /\ arena \in [0..PoolPages - 1 -> [desc : Descs, free_block_cnt : 0..PG_SIZE]]
      /\ blocks \subseteq [addr : Nat, size : Sizes]
  BY DEF KMemInv, KMemTypeOK
<1>4. free_list[d] \in Seq(Nat) /\ IsInjective(free_list[d])
  BY <1>1, <1>3 DEF KMemInv, ListsOK
<1>5. /\ b \in Nat /\ b \in ToSet(free_list[d]) /\ Tail(free_list[d]) \in Seq(Nat)
      /\ ToSet(Tail(free_list[d])) = ToSet(free_list[d]) \ {b}
      /\ IsInjective(Tail(free_list[d]))
  BY <1>2, <1>4, TailElements
<1> HIDE DEF b
<1>6. IsFree(b, d)
  BY <1>1, <1>5 DEF KMemInv, ListsOK
<1>7. /\ p \in Arenas /\ p \in 0..PoolPages - 1 /\ p \in Nat /\ arena[p].desc = d
      /\ b \in Unused(p) /\ b \in ArenaBlocks(p, d) /\ b \notin Addrs
  BY <1>6, Now DEF IsFree, Unused
<1> HIDE DEF p
<1>8. new.addr = b /\ new.size = size /\ p = block2arena(new.addr)
  BY DEF p
<1> HIDE DEF new
<1>9. \A q \in 0..PoolPages - 1 : arena'[q].desc = arena[q].desc
  BY <1>2, <1>3, <1>7
<1>10. Arenas' = Arenas /\ Addrs' = Addrs \cup {b}
  <2>1. Arenas' = Arenas \cup {p}
    BY <1>2, <1>8 DEF Arenas, block2arena
  <2> QED BY <1>2, <1>7, <1>8, <2>1 DEF Addrs
<1>11. \A q \in Arenas : Unused(q)' = Unused(q) \ {b}
  <2> SUFFICES ASSUME NEW q \in Arenas PROVE Unused(q)' = Unused(q) \ {b}
    OBVIOUS
  <2>1. arena'[q].desc = arena[q].desc
    BY <1>9, Now
  <2>2. ArenaBlocks(q, arena[q].desc)' = ArenaBlocks(q, arena[q].desc)
    BY <2>1 DEF ArenaBlocks
  <2> QED BY <1>10, <2>2 DEF Unused
<1>12. arena'[p].free_block_cnt = arena[p].free_block_cnt - 1
       /\ \A q \in 0..PoolPages - 1 : q # p => arena'[q] = arena[q]
  BY <1>2, <1>3, <1>7
<1>13. Cardinality(Unused(p)) = arena[p].free_block_cnt /\ arena[p].free_block_cnt \in 0..PG_SIZE
       /\ IsFiniteSet(Unused(p))
  BY <1>7, Now DEF KMemInv, CountsOK
<1>14. Cardinality(Unused(p) \ {b}) = arena[p].free_block_cnt - 1
  BY <1>7, <1>13, FS_RemoveElement
<1>15. arena[p].free_block_cnt - 1 \in 0..PG_SIZE
  <2>1. IsFiniteSet(Unused(p) \ {b})
    BY <1>13, FS_RemoveElement
  <2>2. Cardinality(Unused(p) \ {b}) \in Nat
    BY <2>1, FS_CardinalityType
  <2> QED BY <1>13, <1>14, <2>2, KMemAssumption
<1>16. KMemTypeOK'
  <2>1. arena' \in [0..PoolPages - 1 -> [desc : Descs, free_block_cnt : 0..PG_SIZE]]
    BY <1>2, <1>3, <1>15
  <2>2. free_list' \in [Descs -> Seq(Nat)]
    BY <1>2, <1>3, <1>5
  <2>3. blocks' \subseteq [addr : Nat, size : Sizes]
    BY <1>2, <1>3, <1>5 DEF new
  <2> QED BY <1>2, <2>1, <2>2, <2>3 DEF KMemInv, KMemTypeOK
<1>17. BlocksOK'
  <2>1. \A c \in blocks' : LET q == block2arena(c.addr)
                           IN  /\ q \in 0..PoolPages - 1
                               /\ c.addr \in ArenaBlocks(q, arena'[q].desc)
                               /\ c.size <= block_size[arena'[q].desc]
    <3> SUFFICES ASSUME NEW c \in blocks'
                 PROVE  LET q == block2arena(c.addr)
                        IN  /\ q \in 0..PoolPages - 1
                            /\ c.addr \in ArenaBlocks(q, arena'[q].desc)
                            /\ c.size <= block_size[arena'[q].desc]
      OBVIOUS
    <3>1. CASE c = new
      BY <1>1, <1>7, <1>8, <1>9, <3>1
    <3>2. CASE c \in blocks
      BY <1>9, <3>2 DEF KMemInv, BlocksOK
    <3> QED BY <1>2, <3>1, <3>2
  <2>2. \A c, e \in blocks' : c.addr = e.addr => c = e
    BY <1>2, <1>7, <1>8, Now DEF KMemInv, BlocksOK
  <2> QED BY <2>1, <2>2 DEF BlocksOK, ArenaBlocks, block2arena, arena2block, blocks_per_arena
<1>18. PagesOK'
  <2>1. RunPages' = RunPages
    BY <1>2 DEF RunPages
  <2> QED BY <1>2, <1>10, <2>1 DEF KMemInv, PagesOK
<1>19. ListsOK'
  <2>1. \A a, e : IsFree(a, e)' <=> IsFree(a, e) /\ a # b
    <3> SUFFICES ASSUME NEW a, NEW e PROVE IsFree(a, e)' <=> IsFree(a, e) /\ a # b
      OBVIOUS
    <3>1. block2arena(a) \in Arenas => arena'[block2arena(a)].desc = arena[block2arena(a)].desc
      BY <1>9, Now
    <3>2. block2arena(a)' = block2arena(a)
      BY DEF block2arena
    <3> QED BY <1>10, <1>11, <3>1, <3>2 DEF IsFree
  <2>2. \A e \in Descs : e # d => ~IsFree(b, e)
    BY <1>7 DEF IsFree, p
  <2>3. \A e \in Descs : free_list'[e] = IF e = d THEN Tail(free_list[d]) ELSE free_list[e]
    BY <1>2, <1>3
  <2> QED BY <1>1, <1>5, <2>1, <2>2, <2>3 DEF KMemInv, ListsOK
<1>20. CountsOK'
  <2> SUFFICES ASSUME NEW q \in Arenas
               PROVE  arena'[q].free_block_cnt = Cardinality(Unused(q)')
    BY <1>10 DEF CountsOK
  <2>1. CASE q = p
    BY <1>11, <1>12, <1>14, <2>1
  <2>2. CASE q # p
    <3>1. b \notin Unused(q)
      BY <2>2, Now DEF p
    <3>2. Unused(q)' = Unused(q)
      BY <1>11, <3>1
    <3>3. arena'[q] = arena[q]
      BY <1>12, <2>2, Now
    <3> QED BY <3>2, <3>3 DEF KMemInv, CountsOK
  <2> QED BY <2>1, <2>2
<1> QED BY <1>2, <1>16, <1>17, <1>18, <1>19, <1>20 DEF KMemInv

LEMMA KallocArenaInv ==
    ASSUME KMemInv, NEW size \in Sizes, KallocArena(size)
    PROVE  KMemInv'
<1> DEFINE d == desc_idx(size)
           page == bitmap_alloc(1)
           list == arena_list(page, d)
           b == Head(list)
           new == [addr |-> b, size |-> size]
           n == blocks_per_arena(d)
<1>1. d \in Descs /\ size <= block_size[d]
  BY DescFacts
<1>2. /\ ~panic /\ free_list[d] = <<>> /\ page # -1
      /\ pool' = pool \cup {page}
      /\ free_list' = [free_list EXCEPT ![d] = Tail(list)]
      /\ arena' = [arena EXCEPT ![page] = [desc |-> d, free_block_cnt |-> n - 1]]
      /\ blocks' = blocks \cup {new}
      /\ UNCHANGED <<runs, panic>>
  BY DEF KallocArena
<1>3. page \in 0..BitmapBits - 1 /\ page \notin pool
  <2>1. 1 \in 1..MaxRun /\ pool \subseteq Nat
    BY KMemAssumption, Now
  <2>2. page \in 0..BitmapBits - 1 /\ Pages(page, 1) \cap pool = {}
    BY <1>2, <2>1, SearchClear
  <2>3. page \in Pages(page, 1)
    BY <2>2, KMemAssumption DEF Pages
  <2> QED BY <2>2, <2>3
<1> HIDE DEF d, page
<1>4. page \in 0..PoolPages - 1 /\ page \in Nat /\ page \notin Arenas
  BY <1>3, KMemAssumption, Now
<1>5. /\ free_list \in [Descs -> Seq(Nat)]
      /\ arena \in [0..PoolPages - 1 -> [desc : Descs, free_block_cnt : 0..PG_SIZE]]
      /\ blocks \subseteq [addr : Nat, size : Sizes]
  BY DEF KMemInv, KMemTypeOK
<1>6. list \in Seq(Nat) /\ list # <<>> /\ ToSet(list) = ArenaBlocks(page, d) /\ IsInjective(list)
  BY <1>1, <1>4, ListFacts
<1> HIDE DEF list
<1>7. /\ b \in Nat /\ b \in ArenaBlocks(page, d) /\ Tail(list) \in Seq(Nat)
      /\ ToSet(Tail(list)) = ArenaBlocks(page, d) \ {b} /\ IsInjective(Tail(list))
  BY <1>6, TailElements
<1> HIDE DEF b
<1>8. /\ \A a \in ArenaBlocks(page, d) : block2arena(a) = page
      /\ IsFiniteSet(ArenaBlocks(page, d)) /\ Cardinality(ArenaBlocks(page, d)) = n
  BY <1>1, <1>4, ArenaFacts
<1>9. n \in Nat /\ n >= 1 /\ n <= PG_SIZE /\ PG_SIZE \in Nat
  BY <1>1, PerArena
<1> HIDE DEF n
<1>10. new.addr = b /\ new.size = size /\ block2arena(b) = page
  BY <1>7, <1>8
<1> HIDE DEF new
\* No block in use lies in the new page.
<1>11. \A a \in Addrs : block2arena(a) # page
  BY <1>4, Now DEF Addrs
<1>12. arena'[page] = [desc |-> d, free_block_cnt |-> n - 1]
       /\ \A q \in 0..PoolPages - 1 : q # page => arena'[q] = arena[q]
  BY <1>2, <1>4, <1>5
<1>13. arena'[page].desc = d /\ arena'[page].free_block_cnt = n - 1
  BY <1>12
<1>14. Arenas' = Arenas \cup {page} /\ Addrs' = Addrs \cup {b}
  <2>1. Arenas' = Arenas \cup {block2arena(new.addr)}
    BY <1>2 DEF Arenas, block2arena
  <2> QED BY <1>2, <1>10, <2>1 DEF Addrs
<1>15. \A q : q = page => Unused(q)' = ArenaBlocks(page, d) \ {b}
  <2> SUFFICES ASSUME NEW q, q = page PROVE Unused(q)' = ArenaBlocks(page, d) \ {b}
    OBVIOUS
  <2>1. Unused(q)' = ArenaBlocks(q, arena'[q].desc) \ Addrs'
    BY DEF Unused, ArenaBlocks
  <2>2. \A a \in ArenaBlocks(page, d) : a \notin Addrs
    BY <1>8, <1>11
  <2> QED BY <1>13, <1>14, <2>1, <2>2
<1>16. \A q \in Arenas : Unused(q)' = Unused(q)
  <2> SUFFICES ASSUME NEW q \in Arenas PROVE Unused(q)' = Unused(q)
    OBVIOUS
  <2>1. q # page /\ arena'[q] = arena[q]
    BY <1>4, <1>12, Now
  <2>2. ArenaBlocks(q, arena[q].desc)' = ArenaBlocks(q, arena[q].desc)
    BY <2>1 DEF ArenaBlocks
  <2>3. b \notin Unused(q)
    BY <1>10, <2>1, Now
  <2> QED BY <1>14, <2>2, <2>3 DEF Unused
<1>17. Cardinality(ArenaBlocks(page, d) \ {b}) = n - 1
  BY <1>7, <1>8, FS_RemoveElement
<1>18. KMemTypeOK'
  <2>1. [desc |-> d, free_block_cnt |-> n - 1] \in [desc : Descs, free_block_cnt : 0..PG_SIZE]
    BY <1>1, <1>9
  <2>2. arena' \in [0..PoolPages - 1 -> [desc : Descs, free_block_cnt : 0..PG_SIZE]]
    BY <1>2, <1>5, <2>1
  <2>3. free_list' \in [Descs -> Seq(Nat)]
    BY <1>2, <1>5, <1>7
  <2>4. blocks' \subseteq [addr : Nat, size : Sizes]
    BY <1>2, <1>5, <1>7 DEF new
  <2>5. page \in 0..BitmapBits + MaxRun - 2
    BY <1>3, KMemAssumption
  <2> QED BY <1>2, <2>2, <2>3, <2>4, <2>5 DEF KMemInv, KMemTypeOK
<1>19. BlocksOK'
  <2>1. \A c \in blocks' : LET q == block2arena(c.addr)
                           IN  /\ q \in 0..PoolPages - 1
                               /\ c.addr \in ArenaBlocks(q, arena'[q].desc)
                               /\ c.size <= block_size[arena'[q].desc]
    <3> SUFFICES ASSUME NEW c \in blocks'
                 PROVE  LET q == block2arena(c.addr)
                        IN  /\ q \in 0..PoolPages - 1
                            /\ c.addr \in ArenaBlocks(q, arena'[q].desc)
                            /\ c.size <= block_size[arena'[q].desc]
      OBVIOUS
    <3>1. CASE c = new
      BY <1>1, <1>4, <1>7, <1>10, <1>13, <3>1
    <3>2. CASE c \in blocks
      <4> DEFINE q == block2arena(c.addr)
      <4>1. q \in Arenas /\ q \in 0..PoolPages - 1
        BY <3>2, Now
      <4>2. arena'[q] = arena[q]
        BY <1>4, <1>12, <4>1
      <4> QED BY <3>2, <4>2 DEF KMemInv, BlocksOK
    <3> QED BY <1>2, <3>1, <3>2
  <2>2. \A c \in blocks : c.addr # b
    BY <1>10, <1>11, Now
  <2>3. \A c, e \in blocks' : c.addr = e.addr => c = e
    BY <1>2, <1>10, <2>2 DEF KMemInv, BlocksOK
  <2> QED BY <2>1, <2>3 DEF BlocksOK, ArenaBlocks, block2arena, arena2block, blocks_per_arena
<1>20. PagesOK'
  <2>1. RunPages' = RunPages
    BY <1>2 DEF RunPages
  <2>2. \A r \in runs : page \notin Pages(r.first, r.cnt)
    BY <1>3, Now
  <2> QED BY <1>2, <1>14, <2>1, <2>2 DEF KMemInv, PagesOK
<1>21. ListsOK'
  <2>1. \A a, e : IsFree(a, e)' <=> \/ IsFree(a, e)
                                    \/ e = d /\ a \in ArenaBlocks(page, d) \ {b}
    <3> SUFFICES ASSUME NEW a, NEW e
                 PROVE  IsFree(a, e)' <=> \/ IsFree(a, e)
                                          \/ e = d /\ a \in ArenaBlocks(page, d) \ {b}
      OBVIOUS
    <3> DEFINE q == block2arena(a)
    <3>1. IsFree(a, e)' <=> q \in Arenas' /\ arena'[q].desc = e /\ a \in Unused(q)'
      BY DEF IsFree, block2arena, Unused, ArenaBlocks
    <3>2. IsFree(a, e) <=> q \in Arenas /\ arena[q].desc = e /\ a \in Unused(q)
      BY DEF IsFree
    <3>3. a \in ArenaBlocks(page, d) => q = page
      BY <1>8
    <3> HIDE DEF q
    <3>4. CASE q = page
      BY <1>4, <1>13, <1>14, <1>15, <3>1, <3>2, <3>4
    <3>5. CASE q \in Arenas
      <4>1. arena'[q].desc = arena[q].desc
        BY <1>4, <1>12, <3>5, Now
      <4> QED BY <1>4, <1>14, <1>16, <3>1, <3>2, <3>3, <3>5, <4>1
    <3>6. CASE q \notin Arenas \cup {page}
      BY <1>14, <3>1, <3>2, <3>3, <3>6
    <3> QED BY <3>4, <3>5, <3>6
  <2>2. \A a : ~IsFree(a, d)
    <3>1. ToSet(free_list[d]) = {}
      BY <1>2 DEF ToSet
    <3> QED BY <1>1, <3>1 DEF KMemInv, ListsOK
  <2>3. \A e \in Descs : free_list'[e] = IF e = d THEN Tail(list) ELSE free_list[e]
    BY <1>2, <1>5
  <2> QED BY <1>7, <2>1, <2>2, <2>3 DEF KMemInv, ListsOK
<1>22. CountsOK'
  <2> SUFFICES ASSUME NEW q \in Arenas \cup {page}
               PROVE  arena'[q].free_block_cnt = Cardinality(Unused(q)')
    BY <1>14 DEF CountsOK
  <2>1. CASE q = page
    BY <1>13, <1>15, <1>17, <2>1
  <2>2. CASE q \in Arenas
    <3>1. Unused(q)' = Unused(q) /\ arena'[q] = arena[q]
      BY <1>4, <1>12, <1>16, <2>2, Now
    <3> QED BY <2>2, <3>1 DEF KMemInv, CountsOK
  <2> QED BY <2>1, <2>2
<1> QED BY <1>2, <1>18, <1>19, <1>20, <1>21, <1>22 DEF KMemInv

\* What kfree() leaves when other blocks of the arena are in use, and when not.
LEMMA KfreeInv ==
    ASSUME KMemInv, NEW b \in blocks, Kfree(b)
    PROVE  KMemInv'
<1> DEFINE page == block2arena(b.addr)
           d == arena[page].desc
           A == ArenaBlocks(page, d)
           list == Append(free_list[d], b.addr)
           cnt == arena[page].free_block_cnt + 1
           gone == IF ArenaEmpty(cnt, d) THEN A ELSE {}
           U == Unused(page) \cup {b.addr}
<1>1. /\ ~panic
      /\ panic' = ~ /\ ~Contains(free_list[d], b.addr)
                    /\ gone \subseteq ToSet(list)
                    /\ gone # {} => page \in pool
      /\ free_list' = [free_list EXCEPT ![d] = free_list_without(list, gone)]
      /\ arena' = [arena EXCEPT ![page].free_block_cnt = cnt]
      /\ pool' = IF gone # {} THEN pool \ {page} ELSE pool
      /\ blocks' = blocks \ {b}
      /\ UNCHANGED runs
  BY DEF Kfree
<1>2. /\ page \in Arenas /\ page \in 0..PoolPages - 1 /\ page \in Nat /\ page \in pool
      /\ d \in Descs /\ b.addr \in Nat /\ b.addr \in Addrs
  BY Now
<1>3. /\ free_list \in [Descs -> Seq(Nat)]
      /\ arena \in [0..PoolPages - 1 -> [desc : Descs, free_block_cnt : 0..PG_SIZE]]
      /\ blocks \subseteq [addr : Nat, size : Sizes]
  BY DEF KMemInv, KMemTypeOK
<1>4. /\ b.addr \in A
      /\ \A c \in blocks : c.addr = b.addr => c = b
  BY DEF KMemInv, BlocksOK
<1>5. /\ \A a \in A : block2arena(a) = page
      /\ IsFiniteSet(A) /\ Cardinality(A) = blocks_per_arena(d) /\ A # {}
  BY <1>2, ArenaFacts
<1>6. blocks_per_arena(d) \in Nat /\ blocks_per_arena(d) <= PG_SIZE /\ PG_SIZE \in Nat
  BY <1>2, PerArena
\* The count of the arena counts the blocks of U.
<1>7. U \in SUBSET A /\ b.addr \notin Unused(page) /\ Unused(page) = A \ Addrs
  BY <1>2, <1>4 DEF Unused
<1>8. IsFiniteSet(U) /\ Cardinality(U) = cnt /\ cnt \in 0..PG_SIZE
  <2>1. IsFiniteSet(Unused(page)) /\ Cardinality(Unused(page)) = arena[page].free_block_cnt
    BY <1>2, Now DEF KMemInv, CountsOK
  <2>2. IsFiniteSet(U) /\ Cardinality(U) = cnt
    BY <1>7, <2>1, FS_AddElement
  <2>3. Cardinality(U) <= Cardinality(A)
    BY <1>5, <1>7, FS_Subset
  <2>4. Cardinality(U) \in Nat
    BY <2>2, FS_CardinalityType
  <2> QED BY <1>5, <1>6, <2>2, <2>3, <2>4
<1>9. ArenaEmpty(cnt, d) <=> U = A
  <2>1. Cardinality(A) = Cardinality(U) => A = U
    BY <1>5, <1>7, FS_Subset
  <2> QED BY <1>5, <1>8, <2>1 DEF ArenaEmpty
\* The list.
<1>10. /\ free_list[d] \in Seq(Nat) /\ IsInjective(free_list[d])
       /\ \A a : a \in ToSet(free_list[d]) <=> IsFree(a, d)
  BY <1>2, <1>3 DEF KMemInv, ListsOK
<1>11. b.addr \notin ToSet(free_list[d])
  BY <1>2, <1>10 DEF IsFree, Unused
<1>12. list \in Seq(Nat) /\ ToSet(list) = ToSet(free_list[d]) \cup {b.addr} /\ IsInjective(list)
  BY <1>2, <1>10, <1>11, AppendElements
<1>13. U \subseteq ToSet(list)
  <2>1. \A a \in Unused(page) : IsFree(a, d)
    BY <1>2, <1>5, <1>7, SMTT(60) DEF IsFree
  <2> QED BY <1>10, <1>12, <2>1
<1>14. ~panic'
  <2>1. ~Contains(free_list[d], b.addr)
    <3> DEFINE s == free_list[d]
    <3> HIDE DEF s
    <3>1. s \in Seq(Nat) /\ b.addr \notin ToSet(s)
      BY <1>10, <1>11 DEF s
    <3>2. DOMAIN s = 1..Len(s)
      BY <3>1
    <3>3. ~Contains(s, b.addr)
      BY <3>1, <3>2 DEF Contains, ToSet
    <3> QED BY <3>3 DEF s
  <2>2. gone \subseteq ToSet(list)
    BY <1>9, <1>13
  <2> QED BY <1>1, <1>2, <2>1, <2>2
<1> DEFINE rest == free_list_without(list, gone)
<1>15. rest \in Seq(Nat) /\ ToSet(rest) = ToSet(list) \ gone /\ IsInjective(rest)
  BY <1>12, WithoutFacts
<1> HIDE DEF list, rest, U, A
<1>16. \A e \in Descs : free_list'[e] = IF e = d THEN rest ELSE free_list[e]
  BY <1>1, <1>3 DEF A, list, rest
<1>17. /\ \A q \in 0..PoolPages - 1 : arena'[q].desc = arena[q].desc
       /\ \A q \in 0..PoolPages - 1 : q # page => arena'[q] = arena[q]
       /\ arena'[page].free_block_cnt = cnt
  BY <1>1, <1>2, <1>3
<1>18. KMemTypeOK'
  <2>1. arena' \in [0..PoolPages - 1 -> [desc : Descs, free_block_cnt : 0..PG_SIZE]]
    BY <1>1, <1>3, <1>8
  <2>2. free_list' \in [Descs -> Seq(Nat)]
    BY <1>1, <1>3, <1>15 DEF list, A, rest
  <2> QED BY <1>1, <1>14, <2>1, <2>2 DEF KMemInv, KMemTypeOK
<1>19. BlocksOK'
  <2>1. \A c \in blocks' : LET q == block2arena(c.addr)
                           IN  /\ q \in 0..PoolPages - 1
                               /\ c.addr \in ArenaBlocks(q, arena'[q].desc)
                               /\ c.size <= block_size[arena'[q].desc]
    BY <1>1, <1>17 DEF KMemInv, BlocksOK
  <2>2. \A c, e \in blocks' : c.addr = e.addr => c = e
    BY <1>1 DEF KMemInv, BlocksOK
  <2> QED BY <2>1, <2>2 DEF BlocksOK, ArenaBlocks, block2arena, arena2block, blocks_per_arena
<1>20. Addrs' = Addrs \ {b.addr}
  BY <1>1, <1>4 DEF Addrs
<1>21. \A q \in Arenas : Unused(q)' = Unused(q) \cup (IF q = page THEN {b.addr} ELSE {})
  <2> SUFFICES ASSUME NEW q \in Arenas
               PROVE  Unused(q)' = Unused(q) \cup (IF q = page THEN {b.addr} ELSE {})
    OBVIOUS
  <2>1. q \in Nat /\ arena[q].desc \in Descs /\ arena'[q].desc = arena[q].desc
    BY <1>17, Now
  <2>2. Unused(q)' = ArenaBlocks(q, arena[q].desc) \ Addrs'
    BY <2>1 DEF Unused, ArenaBlocks
  <2>3. b.addr \in ArenaBlocks(q, arena[q].desc) <=> q = page
    BY <1>4, <2>1, ArenaFacts DEF A
  <2> QED BY <1>2, <1>20, <2>2, <2>3 DEF Unused
<1>22. \A a, e : IsFree(a, e)' <=> /\ block2arena(a) \in Arenas' /\ arena'[block2arena(a)].desc = e
                                   /\ a \in Unused(block2arena(a))'
  BY DEF IsFree, block2arena, Unused, ArenaBlocks
<1>23. RunPages' = RunPages
  BY <1>1 DEF RunPages
<1>24. CASE ArenaEmpty(cnt, d)
  <2>1. gone = A /\ U = A /\ gone # {}
    BY <1>5, <1>9, <1>24
  \* No other block of the arena is in use.
  <2>2. \A c \in blocks : c # b => block2arena(c.addr) # page
    <3> SUFFICES ASSUME NEW c \in blocks, c # b, block2arena(c.addr) = page PROVE FALSE
      OBVIOUS
    <3>1. c.addr \in A /\ c.addr \in Addrs /\ c.addr # b.addr
      BY <1>4, Now DEF KMemInv, BlocksOK, A
    <3> QED BY <1>7, <2>1, <3>1 DEF U
  <2>3. Arenas' = Arenas \ {page}
    <3>1. Arenas' = {block2arena(c.addr) : c \in blocks'}
      BY DEF Arenas, block2arena
    <3> QED BY <1>1, <2>2, <3>1 DEF Arenas
  <2>4. pool' = pool \ {page}
    BY <1>1, <2>1
  <2>5. PagesOK'
    <3>1. page \notin RunPages
      BY <1>2 DEF KMemInv, PagesOK, RunPages
    <3> QED BY <1>1, <1>23, <2>3, <2>4, <3>1 DEF KMemInv, PagesOK
  <2>6. ListsOK'
    <3>1. \A a, e : IsFree(a, e)' <=> IsFree(a, e) /\ block2arena(a) # page
      <4> SUFFICES ASSUME NEW a, NEW e
                   PROVE  IsFree(a, e)' <=> IsFree(a, e) /\ block2arena(a) # page
        OBVIOUS
      <4> DEFINE q == block2arena(a)
      <4>1. IsFree(a, e) <=> q \in Arenas /\ arena[q].desc = e /\ a \in Unused(q)
        BY DEF IsFree
      <4>2. q \in Arenas => arena'[q].desc = arena[q].desc
        BY <1>17, Now
      <4>3. IsFree(a, e)' <=> q \in Arenas' /\ arena'[q].desc = e /\ a \in Unused(q)'
        BY <1>22
      <4> HIDE DEF q, page
      <4> QED BY <1>21, <2>3, <4>1, <4>2, <4>3 DEF q
    <3>2. ToSet(rest) = ToSet(list) \ A
      BY <1>15, <2>1
    <3>3. \A a : a \in ToSet(rest) <=> IsFree(a, d) /\ block2arena(a) # page
      <4> SUFFICES ASSUME NEW a PROVE a \in ToSet(rest) <=> IsFree(a, d) /\ block2arena(a) # page
        OBVIOUS
      <4>1. a \in ToSet(list) <=> IsFree(a, d) \/ a = b.addr
        BY <1>10, <1>12
      <4>2. a \in A => block2arena(a) = page
        BY <1>5
      <4>3. IsFree(a, d) /\ block2arena(a) = page => a \in A
        BY DEF IsFree, Unused, A
      <4> QED BY <1>4, <3>2, <4>1, <4>2, <4>3
    <3>4. \A e \in Descs : e # d =>
             \A a : a \in ToSet(free_list[e]) <=> IsFree(a, e) /\ block2arena(a) # page
      BY DEF KMemInv, ListsOK, IsFree
    <3> QED BY <1>15, <1>16, <3>1, <3>3, <3>4 DEF KMemInv, ListsOK
  <2>7. CountsOK'
    <3> SUFFICES ASSUME NEW q \in Arenas, q # page
                 PROVE  arena'[q].free_block_cnt = Cardinality(Unused(q)')
      BY <2>3 DEF CountsOK
    <3>1. Unused(q)' = Unused(q) /\ arena'[q] = arena[q]
      BY <1>17, <1>21, Now
    <3> QED BY <3>1 DEF KMemInv, CountsOK
  <2> QED BY <1>14, <1>18, <1>19, <2>5, <2>6, <2>7 DEF KMemInv
<1>25. CASE ~ArenaEmpty(cnt, d)
  <2>1. gone = {} /\ U # A
    BY <1>9, <1>25
  \* Another block of the arena is in use.
  <2>2. PICK c \in blocks : c # b /\ block2arena(c.addr) = page
    <3>1. PICK a \in A : a \notin U
      BY <1>7, <2>1
    <3>2. a \in Addrs /\ a # b.addr
      BY <1>7, <3>1 DEF U
    <3> QED BY <1>5, <3>1, <3>2 DEF Addrs
  <2>3. Arenas' = Arenas
    <3>1. Arenas' = {block2arena(e.addr) : e \in blocks'}
      BY DEF Arenas, block2arena
    <3>2. c \in blocks'
      BY <1>1, <2>2
    <3> QED BY <1>1, <2>2, <3>1, <3>2 DEF Arenas
  <2>4. pool' = pool
    BY <1>1, <2>1
  <2>5. PagesOK'
    BY <1>1, <1>23, <2>3, <2>4 DEF KMemInv, PagesOK
  <2>6. ListsOK'
    <3>1. \A a, e : IsFree(a, e)' <=> IsFree(a, e) \/ (a = b.addr /\ e = d)
      <4> SUFFICES ASSUME NEW a, NEW e
                   PROVE  IsFree(a, e)' <=> IsFree(a, e) \/ (a = b.addr /\ e = d)
        OBVIOUS
      <4> DEFINE q == block2arena(a)
      <4>1. IsFree(a, e) <=> q \in Arenas /\ arena[q].desc = e /\ a \in Unused(q)
        BY DEF IsFree
      <4>2. q \in Arenas => arena'[q].desc = arena[q].desc
        BY <1>17, Now
      <4>3. IsFree(a, e)' <=> q \in Arenas' /\ arena'[q].desc = e /\ a \in Unused(q)'
        BY <1>22
      <4>4. a = b.addr => q = page
        OBVIOUS
      <4> HIDE DEF q, page
      <4> QED BY <1>2, <1>21, <2>3, <4>1, <4>2, <4>3, <4>4
    <3>2. ToSet(rest) = ToSet(free_list[d]) \cup {b.addr}
      BY <1>12, <1>15, <2>1
    <3> QED BY <1>10, <1>15, <1>16, <3>1, <3>2 DEF KMemInv, ListsOK
  <2>7. CountsOK'
    <3> SUFFICES ASSUME NEW q \in Arenas
                 PROVE  arena'[q].free_block_cnt = Cardinality(Unused(q)')
      BY <2>3 DEF CountsOK
    <3>1. CASE q = page
      BY <1>8, <1>17, <1>21, <3>1 DEF U
    <3>2. CASE q # page
      <4>1. Unused(q)' = Unused(q) /\ arena'[q] = arena[q]
        BY <1>17, <1>21, <3>2, Now
      <4> QED BY <4>1 DEF KMemInv, CountsOK
    <3> QED BY <3>1, <3>2
  <2> QED BY <1>14, <1>18, <1>19, <2>5, <2>6, <2>7 DEF KMemInv
<1> QED BY <1>24, <1>25

LEMMA KMemPreserved == KMemInv /\ [KMemNext]_kmem_vars => KMemInv'
<1> SUFFICES ASSUME KMemInv, [KMemNext]_kmem_vars PROVE KMemInv'
  OBVIOUS
<1>1. CASE \E cnt \in 1..MaxRun : AllocPages(cnt)
  BY <1>1, AllocPagesInv
<1>2. CASE \E r \in runs : FreePages(r)
  BY <1>2, FreePagesInv
<1>3. CASE \E size \in Sizes : KallocFree(size) \/ KallocArena(size)
  BY <1>3, KallocFreeInv, KallocArenaInv
<1>4. CASE \E b \in blocks : Kfree(b)
  BY <1>4, KfreeInv
<1>5. CASE UNCHANGED kmem_vars
  <2> USE <1>5 DEF kmem_vars
  <2>1. KMemTypeOK' /\ ~panic' /\ BlocksOK'
    BY DEF KMemInv, KMemTypeOK, BlocksOK, ArenaBlocks
  <2>2. /\ Arenas' = Arenas /\ Addrs' = Addrs /\ RunPages' = RunPages
        /\ \A p : Unused(p)' = Unused(p)
    BY DEF Arenas, Addrs, RunPages, Unused, ArenaBlocks
  <2>3. PagesOK' /\ CountsOK'
    BY <2>2 DEF KMemInv, PagesOK, CountsOK
  <2>4. \A a, d : IsFree(a, d)' <=> IsFree(a, d)
    BY <2>2 DEF IsFree
  <2>5. ListsOK'
    BY <2>4 DEF KMemInv, ListsOK
  <2> QED BY <2>1, <2>3, <2>5 DEF KMemInv
<1> QED BY <1>1, <1>2, <1>3, <1>4, <1>5 DEF KMemNext

-----------------------------------------------------------------------------
(* What the invariant says *)

\* The pages of smaller number end before.
LEMMA PageOrder ==
    ASSUME NEW g \in Nat, NEW p \in Nat, NEW q \in Nat, p < q
    PROVE  p * g + g <= q * g /\ p * g \in Nat /\ q * g \in Nat
<1>1. p + 1 <= q
  OBVIOUS
<1>2. (p + 1) * g <= q * g /\ (p + 1) * g = p * g + g
  BY <1>1
<1> QED BY <1>2

\* Where the bytes of a block in use lie.
LEMMA BytesPlace ==
    ASSUME KMemInv, NEW b \in blocks
    PROVE  LET p == block2arena(b.addr)
           IN  /\ p \in Nat /\ b.addr \in Nat /\ b.size \in Nat /\ b.size >= 1
               /\ p * PG_SIZE <= b.addr /\ b.addr + b.size <= p * PG_SIZE + PG_SIZE
               /\ b.addr % PG_SIZE >= sizeof_arena
               /\ block2arena(b.addr + b.size - 1) = p
<1> DEFINE p == block2arena(b.addr)
           d == arena[p].desc
<1>1. /\ p \in Nat /\ d \in Descs /\ b.addr \in ArenaBlocks(p, d) /\ b.size <= block_size[d]
  BY Now DEF KMemInv, BlocksOK
<1>2. b.size \in Nat /\ b.size >= 1
  <2>1. b.size \in Sizes
    BY DEF KMemInv, KMemTypeOK
  <2> QED BY <2>1, DescFacts
<1>3. /\ b.addr \in Nat /\ b.addr % PG_SIZE >= sizeof_arena /\ p * PG_SIZE <= b.addr
      /\ b.addr + block_size[d] <= p * PG_SIZE + PG_SIZE
  BY <1>1, ArenaFacts
<1>4. block_size[d] \in Nat /\ PG_SIZE \in Nat \ {0}
  BY <1>1, PerArena
<1> HIDE DEF p, d
<1>5. p * PG_SIZE \in Nat
  BY <1>1, <1>4
<1>6. b.addr + b.size <= p * PG_SIZE + PG_SIZE
  BY <1>1, <1>2, <1>3, <1>4, <1>5
<1>7. block2arena(b.addr + b.size - 1) = p
  <2> DEFINE x == b.addr + b.size - 1
             r == x - p * PG_SIZE
  <2>1. x \in Nat /\ r \in 0..PG_SIZE - 1 /\ x = p * PG_SIZE + r
    BY <1>2, <1>3, <1>4, <1>5, <1>6
  <2> HIDE DEF x, r
  <2>2. x \div PG_SIZE = p
    BY <1>1, <1>4, <2>1, PageOf
  <2> QED BY <2>2 DEF x, block2arena
<1> QED BY <1>1, <1>2, <1>3, <1>6, <1>7 DEF p

LEMMA InvApart == KMemInv => MemoryApart
<1> SUFFICES ASSUME KMemInv PROVE MemoryApart
  OBVIOUS
<1>1. PG_SIZE \in Nat /\ MaxRun \in Nat /\ BitmapBits \in Nat
  BY KMemAssumption
<1>2. ASSUME NEW b \in blocks, NEW c \in blocks, b # c
      PROVE  Bytes(b) \cap Bytes(c) = {}
  <2> DEFINE p == block2arena(b.addr)
             q == block2arena(c.addr)
  <2>1. /\ p \in Nat /\ b.addr \in Nat /\ b.size \in Nat
        /\ p * PG_SIZE <= b.addr /\ b.addr + b.size <= p * PG_SIZE + PG_SIZE
    BY BytesPlace
  <2>2. /\ q \in Nat /\ c.addr \in Nat /\ c.size \in Nat
        /\ q * PG_SIZE <= c.addr /\ c.addr + c.size <= q * PG_SIZE + PG_SIZE
    BY BytesPlace
  <2>3. b.addr + b.size <= c.addr \/ c.addr + c.size <= b.addr
    <3>1. CASE p = q
      <4> DEFINE d == arena[p].desc
      <4>1. /\ d \in Descs /\ b.addr \in ArenaBlocks(p, d) /\ c.addr \in ArenaBlocks(p, d)
            /\ b.size <= block_size[d] /\ c.size <= block_size[d] /\ b.addr # c.addr
        BY <1>2, <3>1, Now DEF KMemInv, BlocksOK
      <4>2. b.addr + block_size[d] <= c.addr \/ c.addr + block_size[d] <= b.addr
        BY <2>1, <4>1, ArenaFacts
      <4>3. block_size[d] \in Nat
        BY <4>1, SizesBounds
      <4> HIDE DEF d
      <4> QED BY <2>1, <2>2, <4>1, <4>2, <4>3
    <3> HIDE DEF p, q
    <3>2. CASE p < q
      BY <1>1, <2>1, <2>2, <3>2, PageOrder
    <3>3. CASE q < p
      BY <1>1, <2>1, <2>2, <3>3, PageOrder
    <3> QED BY <2>1, <2>2, <3>1, <3>2, <3>3
  <2> QED BY <2>1, <2>2, <2>3 DEF Bytes
<1>3. \A r \in runs : /\ r.first \in Nat /\ r.cnt \in Nat /\ r.cnt >= 1
  BY <1>1 DEF KMemInv, KMemTypeOK
<1>4. ASSUME NEW r \in runs, NEW s \in runs, r # s
      PROVE  RunBytes(r) \cap RunBytes(s) = {}
  <2> DEFINE a == r.first + r.cnt
             c == s.first + s.cnt
  <2>1. /\ r.first \in Nat /\ r.cnt \in Nat /\ r.cnt >= 1 /\ a \in Nat
        /\ s.first \in Nat /\ s.cnt \in Nat /\ s.cnt >= 1 /\ c \in Nat
    BY <1>3
  <2>2. Pages(r.first, r.cnt) \cap Pages(s.first, s.cnt) = {}
    BY <1>4 DEF KMemInv, PagesOK
  <2>3. a <= s.first \/ c <= r.first
    BY <2>1, <2>2 DEF Pages
  <2>4. /\ \A x \in RunBytes(r) : x \in Nat /\ r.first * PG_SIZE <= x /\ x < a * PG_SIZE
        /\ \A x \in RunBytes(s) : x \in Nat /\ s.first * PG_SIZE <= x /\ x < c * PG_SIZE
    <3>1. r.first * PG_SIZE \in Nat /\ s.first * PG_SIZE \in Nat
          /\ a * PG_SIZE \in Nat /\ c * PG_SIZE \in Nat
      BY <1>1, <2>1
    <3> QED BY <3>1 DEF RunBytes
  <2> HIDE DEF a, c
  <2>5. a * PG_SIZE <= s.first * PG_SIZE \/ c * PG_SIZE <= r.first * PG_SIZE
    BY <1>1, <2>1, <2>3
  <2>6. r.first * PG_SIZE \in Nat /\ s.first * PG_SIZE \in Nat
        /\ a * PG_SIZE \in Nat /\ c * PG_SIZE \in Nat
    BY <1>1, <2>1
  <2> QED BY <2>4, <2>5, <2>6
<1>5. ASSUME NEW b \in blocks, NEW r \in runs
      PROVE  Bytes(b) \cap RunBytes(r) = {}
  <2> DEFINE p == block2arena(b.addr)
             a == r.first + r.cnt
  <2>1. /\ p \in Nat /\ b.addr \in Nat /\ b.size \in Nat
        /\ p * PG_SIZE <= b.addr /\ b.addr + b.size <= p * PG_SIZE + PG_SIZE
    BY BytesPlace
  <2>2. r.first \in Nat /\ r.cnt \in Nat /\ r.cnt >= 1 /\ a \in Nat
    BY <1>3
  <2>3. p \notin Pages(r.first, r.cnt)
    BY Now DEF KMemInv, PagesOK
  <2>4. p < r.first \/ a <= p
    BY <2>1, <2>2, <2>3 DEF Pages
  <2>5. \A x \in RunBytes(r) : x \in Nat /\ r.first * PG_SIZE <= x /\ x < a * PG_SIZE
    <3>1. r.first * PG_SIZE \in Nat /\ a * PG_SIZE \in Nat
      BY <1>1, <2>2
    <3> QED BY <3>1 DEF RunBytes
  <2> HIDE DEF p, a
  <2>6. p * PG_SIZE + PG_SIZE <= r.first * PG_SIZE \/ a * PG_SIZE <= p * PG_SIZE
    BY <1>1, <2>1, <2>2, <2>4, PageOrder
  <2>7. p * PG_SIZE \in Nat /\ r.first * PG_SIZE \in Nat /\ a * PG_SIZE \in Nat
    BY <1>1, <2>1, <2>2
  <2>8. \A x \in Bytes(b) : x \in Nat /\ p * PG_SIZE <= x /\ x < p * PG_SIZE + PG_SIZE
    BY <1>1, <2>1, <2>7 DEF Bytes
  <2> QED BY <1>1, <2>5, <2>6, <2>7, <2>8
<1>6. \A b \in blocks : /\ b.addr % PG_SIZE >= sizeof_arena
                        /\ block2arena(b.addr + b.size - 1) = block2arena(b.addr)
  BY BytesPlace
<1>7. ASSUME NEW b \in blocks PROVE b.addr + b.size <= PoolPages * PG_SIZE
  <2> DEFINE p == block2arena(b.addr)
  <2>1. /\ p \in Nat /\ b.addr \in Nat /\ b.size \in Nat
        /\ b.addr + b.size <= p * PG_SIZE + PG_SIZE
    BY BytesPlace
  <2>2. PoolPages \in Nat /\ p < PoolPages
    BY KMemAssumption DEF KMemInv, BlocksOK
  <2> HIDE DEF p
  <2>3. p * PG_SIZE + PG_SIZE <= PoolPages * PG_SIZE /\ p * PG_SIZE \in Nat
        /\ PoolPages * PG_SIZE \in Nat
    BY <1>1, <2>1, <2>2, PageOrder
  <2> QED BY <1>1, <2>1, <2>3
<1>8. \A r \in runs : r.cnt <= SafeRun => r.first + r.cnt <= PoolPages
  BY <1>1, KMemAssumption DEF KMemInv, KMemTypeOK, SafeRun
<1> QED BY <1>2, <1>4, <1>5, <1>6, <1>7, <1>8 DEF MemoryApart, KMemInv

LEMMA InvExact == KMemInv => ArenasExact
<1> SUFFICES ASSUME KMemInv PROVE ArenasExact
  OBVIOUS
<1>1. pool = Arenas \cup UNION {Pages(r.first, r.cnt) : r \in runs}
  BY DEF KMemInv, PagesOK, RunPages
<1>2. ASSUME NEW d \in Descs
      PROVE  /\ IsInjective(free_list[d])
             /\ ToSet(free_list[d]) = UNION {Unused(p) : p \in {q \in Arenas : arena[q].desc = d}}
  <2>1. \A a : a \in ToSet(free_list[d]) <=> \E p \in Arenas : arena[p].desc = d /\ a \in Unused(p)
    BY Now DEF KMemInv, ListsOK, IsFree
  <2>2. \A a : a \in UNION {Unused(p) : p \in {q \in Arenas : arena[q].desc = d}}
               <=> \E p \in Arenas : arena[p].desc = d /\ a \in Unused(p)
    OBVIOUS
  <2> QED BY <2>1, <2>2 DEF KMemInv, ListsOK
<1>3. \A p \in Arenas : arena[p].free_block_cnt = Cardinality(Unused(p))
  BY DEF KMemInv, CountsOK
<1> QED BY <1>1, <1>2, <1>3 DEF ArenasExact, Arenas, Addrs, Unused

-----------------------------------------------------------------------------
(* The theorems *)

\* The inductive invariant holds: every variable keeps its type, no ASSERT of
\* memory.c fails, the blocks in use are blocks of their arenas, the set bits are
\* the pages in use, and the free lists and counts are those of the arenas.
THEOREM KMemInvariant == KMemSpec => []KMemInv
<1>1. KMemInit => KMemInv
  BY KMemInitial
<1>2. KMemInv /\ [KMemNext]_kmem_vars => KMemInv'
  BY KMemPreserved
<1> QED BY <1>1, <1>2, PTL DEF KMemSpec

\* kalloc() and alloc_pages() never give out memory that is in use, and no ASSERT
\* of memory.c fails, for any size of the pool, the bitmap, the pages and the blocks.
\* Blocks, and runs of at most SafeRun pages, lie in the pool; no assumption keeps
\* longer runs inside it, as the code does not.
THEOREM KMemMemoryApart == KMemSpec => []MemoryApart
<1>1. KMemInv => MemoryApart
  BY InvApart
<1> QED BY <1>1, KMemInvariant, PTL

\* No page of the kernel leaks and no free list holds a block of a page that was
\* given back, for any size of the pool, the bitmap, the pages and the blocks.
THEOREM KMemArenasExact == KMemSpec => []ArenasExact
<1>1. KMemInv => ArenasExact
  BY InvExact
<1> QED BY <1>1, KMemInvariant, PTL

\* bitmap_alloc() finds the first run of clear bits, and fails only if there is
\* none, for a bitmap of any size and runs of any length.
THEOREM KMemFirstFit == KMemSpec => []FirstFit
<1>1. KMemInv => FirstFit
  BY Now, FitHolds
<1> QED BY <1>1, KMemInvariant, PTL

-----------------------------------------------------------------------------
(* Files: the inductive invariant *)

\* The labels of the maker, and those at which op.i_no is an inode that it has
\* made (New), that has the name Name in op.dir (Found), or that is allocated.
Labels == {"user", "path", "stuck", "alloc", "zero", "add", "retype", "readd", "dot", "ddot",
           "empty", "bfree", "trunc", "del"}
HasInode == Labels \ {"user", "path", "stuck", "alloc"}
New == pc[maker] \in {"zero", "add", "readd"} \/ (pc[maker] \in {"bfree", "trunc"} /\ op.call = "undo")
Found == pc[maker] \in {"retype", "empty", "del"} \/ (pc[maker] \in {"bfree", "trunc"} /\ op.call # "undo")

\* The maker is inside block_modify().
Busy == io[maker].phase # "none"

Special == {0, w_no, v_no}
Dirent == [filename : Names \cup {".", "..", "w", "v"}, i_no : Inodes, f_type : {"FT_REG", "FT_DIR"}]
Snapshots == {<<>>} \cup UNION {[SameBlock(i) -> DiskInode] : i \in Inodes}

TypesOK ==
    /\ TypeOK
    /\ entries \in [Inodes -> Seq(Dirent)]
    /\ op \in [call : Calls \cup {"none", "undo"}, path : Seq(Names), dir : Inodes, i_no : Inodes]
    /\ io \in [Procs -> [phase : {"none", "asked", "read"}, block : Snapshots]]
    /\ pc \in [Procs -> Labels \cup {"grow"}]

PcOK ==
    /\ pc[maker] \in Labels
    /\ pc[maker] # "user" => op.path # <<>>
    /\ pc[maker] \in {"user", "path", "stuck", "alloc", "empty", "bfree"} => ~Busy
    /\ pc[maker] = "zero" => Busy
    /\ op.call = "undo" => pc[maker] \in {"bfree", "trunc"}
    /\ \A p \in Writers : pc[p] \in {"user", "grow"} /\ (pc[p] = "user" <=> io[p].phase = "none")
    /\ \A p \in Procs : io[p].phase = "read" => io[p].block \in [SameBlock(Target(p)) -> DiskInode]

\* The second half of BlocksExact.
OwnersOK ==
    /\ block_bitmap = UNION {Owned(i) : i \in Inodes}
    /\ \A i \in Inodes :
          /\ Len(disk_inode[i].direct) = DIV_ROUND_UP(disk_inode[i].size)
          /\ IsInjective(disk_inode[i].direct)
          /\ \A j \in Inodes \ {i} : Owned(i) \cap Owned(j) = {}

\* The size of a directory is ahead of its entries while its inode is written.
SizeOf(i) ==
    IF ~(Busy /\ i = Target(maker)) THEN Len(entries[i])
    ELSE CASE pc[maker] \in Adding -> Len(entries[i]) + 1
           [] pc[maker] \in {"del", "retype"} -> Len(entries[i]) - 1
           [] OTHER -> 0

SizesOK ==
    /\ \A i \in Inodes \ {w_no} : disk_inode[i].size = SizeOf(i)
    /\ \A i \in Inodes \ inode_bitmap :
          disk_inode[i] = Empty \/ (pc[maker] = "trunc" /\ ~Busy /\ i = op.i_no)
    /\ pc[maker] = "zero" => disk_inode[op.i_no] = Empty /\ entries[op.i_no] = <<>>

\* Entry k of directory i is a name for a file, not . or ..
Link(i, k) == k \in DOMAIN entries[i] /\ entries[i][k].filename \notin {".", ".."}

NamesOK ==
    \A i \in Inodes :
        /\ \A j, k \in DOMAIN entries[i] : entries[i][j].filename = entries[i][k].filename => j = k
        /\ \A k \in DOMAIN entries[i] :
              /\ entries[i][k].filename = "." => entries[i][k].i_no = i
              /\ entries[i][k].filename \in Names => entries[i][k].i_no \notin Special

LinksOK ==
    /\ \A i, j \in Inodes : \A k, l \in Nat : Link(i, k) /\ Link(j, l) /\ entries[i][k].i_no = entries[j][l].i_no
                                             => i = j /\ k = l
    /\ \A i \in Inodes : \A k \in Nat : Link(i, k) =>
          /\ entries[i][k].i_no # i
          /\ entries[i][k].i_no \in inode_bitmap \/ (Unlinking /\ entries[i][k].i_no = op.i_no)

OpOK ==
    /\ Special \subseteq inode_bitmap
    /\ op.dir \in inode_bitmap \ {w_no, v_no}
    /\ pc[maker] \in HasInode => op.i_no \notin Special /\ op.i_no # op.dir
    /\ pc[maker] \in HasInode \ {"trunc", "del"} => op.i_no \in inode_bitmap
    /\ pc[maker] \in {"trunc", "del"} => op.i_no \notin inode_bitmap
    /\ New => \A i \in Inodes : \A k \in Nat : Link(i, k) => entries[i][k].i_no # op.i_no
    /\ Found => \E k \in DOMAIN entries[op.dir] :
                   entries[op.dir][k].filename = Name /\ entries[op.dir][k].i_no = op.i_no
    /\ Busy /\ pc[maker] \in Adding => Matching(Target(maker), NewDirent.filename) = {}

LocksOK ==
    /\ \A p \in Writers : pc[p] = "grow" => inode_lock[w_no] = p
    /\ Busy /\ pc[maker] # "zero" => inode_lock[Target(maker)] = maker

FsInv == TypesOK /\ PcOK /\ OwnersOK /\ SizesOK /\ NamesOK /\ LinksOK /\ OpOK /\ LocksOK

\* The inode table on the disk.
TableOK ==
    \A i \in Inodes \ lost :
        \/ table[i] = disk_inode[i]
        \/ Busy /\ i = Target(maker)
        \/ i = w_no /\ \E p \in Writers : pc[p] = "grow"
-----------------------------------------------------------------------------
(* Files: the blocks that a file gets and gives back *)

LEMMA MulLess ==
    ASSUME NEW P \in Nat \ {0}, NEW x \in Nat, NEW y \in Nat, x < y
    PROVE  P * x + P <= P * y
<1>1. PICK d \in Nat : y = (x + 1) + d
  <2>1. y - (x + 1) \in Nat /\ y = (x + 1) + (y - (x + 1))
    OBVIOUS
  <2> QED BY <2>1
<1>2. P * y = P * (x + 1) + P * d
  BY <1>1
<1>3. P * (x + 1) = P * x + P
  OBVIOUS
<1>4. P * d \in Nat
  OBVIOUS
<1>5. P * x \in Nat /\ P * (x + 1) \in Nat /\ P * y \in Nat
  OBVIOUS
<1> QED BY <1>2, <1>3, <1>4, <1>5

\* The number of blocks grows with the size, and by one at most for a block of data.
LEMMA RoundUp ==
    ASSUME NEW m \in Nat, NEW n \in Nat
    PROVE  /\ DIV_ROUND_UP(n) \in Nat
           /\ DIV_ROUND_UP(0) = 0
           /\ m <= n => DIV_ROUND_UP(m) <= DIV_ROUND_UP(n)
           /\ n <= m + PerBlock => DIV_ROUND_UP(n) <= DIV_ROUND_UP(m) + 1
<1> DEFINE P == PerBlock
<1>1. P \in Nat \ {0}
  BY FsAssumption
<1> HIDE DEF P
<1> DEFINE a == m + P - 1
           b == n + P - 1
           c == P - 1
           x == a \div P
           y == b \div P
           z == c \div P
<1>2. a \in Nat /\ b \in Nat /\ c \in Nat
  BY <1>1
<1>3. x \in Nat /\ P * x <= a /\ a < P * x + P /\ P * x \in Nat
  <2> HIDE DEF a
  <2> QED BY <1>1, <1>2, DivFacts
<1>4. y \in Nat /\ P * y <= b /\ b < P * y + P /\ P * y \in Nat
  <2> HIDE DEF b
  <2> QED BY <1>1, <1>2, DivFacts
<1>5. z \in Nat /\ P * z <= c /\ P * z \in Nat
  <2> HIDE DEF c
  <2> QED BY <1>1, <1>2, DivFacts
<1>6. x = DIV_ROUND_UP(m) /\ y = DIV_ROUND_UP(n) /\ z = DIV_ROUND_UP(0)
  <2>1. 0 + P - 1 = c
    BY <1>1
  <2> QED BY <2>1 DEF DIV_ROUND_UP, P
<1> HIDE DEF x, y, z
<1>7. z = 0
  <2> SUFFICES ASSUME 0 < z PROVE FALSE
    BY <1>5
  <2>1. P * 0 + P <= P * z
    BY <1>1, <1>5, MulLess
  <2> QED BY <1>1, <1>5, <2>1
<1>8. ASSUME m <= n PROVE x <= y
  <2> SUFFICES ASSUME y < x PROVE FALSE
    BY <1>3, <1>4
  <2>1. P * y + P <= P * x
    BY <1>1, <1>3, <1>4, MulLess
  <2> QED BY <1>1, <1>3, <1>4, <1>8, <2>1
<1>9. ASSUME n <= m + P PROVE y <= x + 1
  <2> SUFFICES ASSUME x + 1 < y PROVE FALSE
    BY <1>3, <1>4
  <2>1. P * (x + 1) + P <= P * y
    BY <1>1, <1>3, <1>4, MulLess
  <2>2. P * (x + 1) = P * x + P
    BY <1>1, <1>3
  <2> QED BY <1>1, <1>3, <1>4, <1>9, <2>1, <2>2
<1> QED BY <1>4, <1>6, <1>7, <1>8, <1>9 DEF P

\* f is the function that Lowest(n) defines.
Lowests(f, n) == f = [k \in 1..n |-> Min(Free \ {f[j] : j \in 1..k - 1})]

LEMMA LowestsExists ==
    ASSUME NEW n \in Nat
    PROVE  \E f : Lowests(f, n)
<1> DEFINE Ok(m) == \E f : Lowests(f, m)
           Bad == {m \in Nat : ~Ok(m)}
<1> SUFFICES ASSUME ~Ok(n) PROVE FALSE
  OBVIOUS
<1> DEFINE m == Min(Bad)
<1>1. m \in Bad /\ \A y \in Bad : m <= y
  <2> HIDE DEF Ok
  <2>1. Bad \subseteq Nat /\ Bad # {}
    OBVIOUS
  <2> HIDE DEF Bad
  <2> QED BY <2>1, MinFacts
<1> HIDE DEF m
<1>2. CASE m = 0
  <2> DEFINE f == [i \in 1..0 |-> i]
  <2>1. f = [k \in 1..0 |-> Min(Free \ {f[j] : j \in 1..k - 1})]
    OBVIOUS
  <2> HIDE DEF f
  <2>2. Ok(0)
    BY <2>1 DEF Lowests
  <2> QED BY <1>1, <1>2, <2>2
<1>3. CASE m # 0
  <2>1. m \in Nat /\ m - 1 \in Nat
    BY <1>1, <1>3
  <2>2. Ok(m - 1)
    <3> HIDE DEF Ok
    <3> QED BY <1>1, <2>1
  <2>3. PICK f : Lowests(f, m - 1)
    BY <2>2
  <2> DEFINE g == [k \in 1..m |-> Min(Free \ {f[j] : j \in 1..k - 1})]
  <2>4. ASSUME NEW k \in 1..m - 1 PROVE f[k] = g[k]
    <3>1. f[k] = Min(Free \ {f[j] : j \in 1..k - 1})
      BY <2>3 DEF Lowests
    <3>2. k \in 1..m
      BY <2>1
    <3>3. g[k] = Min(Free \ {f[j] : j \in 1..k - 1})
      BY <3>2
    <3> QED BY <3>1, <3>3
  <2>5. ASSUME NEW k \in 1..m PROVE {f[j] : j \in 1..k - 1} = {g[j] : j \in 1..k - 1}
    <3>1. \A j \in 1..k - 1 : j \in 1..m - 1
      BY <2>1
    <3>2. \A j \in 1..k - 1 : f[j] = g[j]
      BY <2>4, <3>1
    <3> HIDE DEF g
    <3> QED BY <3>2
  <2>6. g = [k \in 1..m |-> Min(Free \ {g[j] : j \in 1..k - 1})]
    BY <2>5
  <2> HIDE DEF g
  <2>7. Ok(m)
    BY <2>6, ZenonT(60) DEF Lowests
  <2> QED BY <1>1, <2>7
<1> QED BY <1>2, <1>3

\* The blocks that are found are free, and no two are the same.
LEMMA LowestFacts ==
    ASSUME block_bitmap \subseteq Blocks, NEW n \in Nat, n <= Cardinality(Free)
    PROVE  /\ Lowest(n) \in Seq(Blocks) /\ Len(Lowest(n)) = n
           /\ \A k \in 1..n : Lowest(n)[k] \in Free
           /\ \A j, k \in 1..n : Lowest(n)[j] = Lowest(n)[k] => j = k
<1> DEFINE f == Lowest(n)
<1>1. f = [k \in 1..n |-> Min(Free \ {f[j] : j \in 1..k - 1})]
  <2>1. \E g : Lowests(g, n)
    BY LowestsExists
  <2> DEFINE h == CHOOSE g : Lowests(g, n)
  <2>2. Lowests(h, n)
    BY <2>1
  <2>3. f = h
    BY DEF Lowest, Lowests
  <2> HIDE DEF h
  <2> QED BY <2>2, <2>3, ZenonT(60) DEF Lowests
<1> HIDE DEF f
<1>2. IsFiniteSet(Free) /\ Free \subseteq Nat /\ Free \subseteq Blocks
  <2>1. NBlocks \in Int
    BY FsAssumption
  <2>2. IsFiniteSet(Blocks) /\ Free \subseteq Blocks
    BY <2>1, FS_Interval, 1 \in Int DEF Blocks, Free
  <2>3. IsFiniteSet(Free)
    BY <2>2, FS_Subset
  <2> QED BY <2>1, <2>2, <2>3 DEF Blocks
<1>3. ASSUME NEW k \in 1..n
      PROVE  f[k] \in Free \ {f[j] : j \in 1..k - 1}
  <2> DEFINE S == {f[j] : j \in 1..k - 1}
  <2>1. IsFiniteSet(S) /\ Cardinality(S) <= k - 1
    <3> DEFINE g == [j \in 1..k - 1 |-> f[j]]
    <3>1. IsFiniteSet(1..k - 1) /\ Cardinality(1..k - 1) = k - 1
      <4>1. k - 1 \in Int /\ 1 \in Int /\ (1 > k - 1 => k - 1 = 0)
        OBVIOUS
      <4> QED BY <4>1, FS_Interval
    <3>2. g \in Surjection(1..k - 1, S)
      BY DEF Surjection
    <3> QED BY <3>1, <3>2, FS_Surjection
  <2>2. Free \ S # {}
    <3> SUFFICES ASSUME Free \subseteq S PROVE FALSE
      OBVIOUS
    <3>1. Cardinality(Free) <= Cardinality(S)
      BY <2>1, FS_Subset
    <3>2. Cardinality(Free) \in Nat /\ Cardinality(S) \in Nat
      BY <1>2, <2>1, FS_CardinalityType
    <3> QED BY <2>1, <3>1, <3>2
  <2>3. f[k] = Min(Free \ S)
    BY <1>1
  <2> HIDE DEF S
  <2>4. Min(Free \ S) \in Free \ S
    <3> DEFINE T == Free \ S
    <3>1. T \subseteq Nat /\ T # {}
      BY <1>2, <2>2
    <3> HIDE DEF T
    <3>2. Min(T) \in T
      BY <3>1, MinFacts
    <3> QED BY <3>2 DEF T
  <2> QED BY <2>3, <2>4 DEF S
<1>4. \A k \in 1..n : f[k] \in Free
  BY <1>3
<1>5. f \in Seq(Blocks) /\ Len(f) = n
  <2>1. f \in [1..n -> Blocks]
    BY <1>1, <1>2, <1>4
  <2> QED BY <2>1
<1>6. ASSUME NEW j \in 1..n, NEW k \in 1..n, f[j] = f[k], j < k PROVE FALSE
  <2>1. j \in 1..k - 1
    BY <1>6
  <2> QED BY <1>3, <1>6, <2>1
<1>7. \A j, k \in 1..n : f[j] = f[k] => j = k
  <2> SUFFICES ASSUME NEW j \in 1..n, NEW k \in 1..n, f[j] = f[k], j # k PROVE FALSE
    OBVIOUS
  <2>1. j < k \/ k < j
    OBVIOUS
  <2> QED BY <1>6, <2>1
<1> QED BY <1>4, <1>5, <1>7 DEF f

\* Two sequences without duplicates and without a common element.
LEMMA JoinFacts ==
    ASSUME NEW S, NEW old \in Seq(S), NEW more \in Seq(S),
           IsInjective(old), IsInjective(more), ToSet(old) \cap ToSet(more) = {}
    PROVE  /\ old \o more \in Seq(S) /\ Len(old \o more) = Len(old) + Len(more)
           /\ IsInjective(old \o more)
           /\ ToSet(old \o more) = ToSet(old) \cup ToSet(more)
<1> DEFINE n == Len(old)
           m == Len(more)
           d == old \o more
<1>1. n \in Nat /\ m \in Nat /\ DOMAIN old = 1..n /\ DOMAIN more = 1..m
  OBVIOUS
<1>2. /\ d \in Seq(S) /\ Len(d) = n + m
      /\ \A k \in 1..n : d[k] = old[k]
      /\ \A k \in 1..m : d[n + k] = more[k]
  OBVIOUS
<1>3. DOMAIN d = 1..n + m
  BY <1>1, <1>2
<1> HIDE DEF n, m, d
<1>4. \A k \in 1..n + m : k \in 1..n \/ (k - n \in 1..m /\ n + (k - n) = k)
  BY <1>1
<1>5. \A k \in 1..n + m : k \in 1..n \/ (k - n \in 1..m /\ d[k] = more[k - n])
  BY <1>2, <1>4
<1>6. ToSet(old) = {old[k] : k \in 1..n} /\ ToSet(more) = {more[k] : k \in 1..m}
      /\ ToSet(d) = {d[k] : k \in 1..n + m}
  BY <1>1, <1>3 DEF ToSet
<1>7. \A j \in 1..n, k \in 1..m : old[j] # more[k]
  BY <1>6
<1>8. /\ \A j, k \in 1..n : old[j] = old[k] => j = k
      /\ \A j, k \in 1..m : more[j] = more[k] => j = k
  BY <1>1 DEF IsInjective
<1>9. ASSUME NEW j \in 1..n + m, NEW k \in 1..n + m, d[j] = d[k] PROVE j = k
  <2>1. CASE j \in 1..n /\ k \in 1..n
    BY <1>2, <1>8, <1>9, <2>1
  <2>2. CASE j \in 1..n /\ k \notin 1..n
    BY <1>2, <1>5, <1>7, <1>9, <2>2
  <2>3. CASE j \notin 1..n /\ k \in 1..n
    BY <1>2, <1>5, <1>7, <1>9, <2>3
  <2>4. CASE j \notin 1..n /\ k \notin 1..n
    <3>1. j - n = k - n
      BY <1>5, <1>8, <1>9, <2>4
    <3> QED BY <1>1, <3>1
  <2> QED BY <2>1, <2>2, <2>3, <2>4
<1>10. IsInjective(d)
  BY <1>3, <1>9 DEF IsInjective
<1>11. ToSet(d) = ToSet(old) \cup ToSet(more)
  <2>1. \A k \in 1..n + m : d[k] \in ToSet(old) \cup ToSet(more)
    BY <1>2, <1>5, <1>6
  <2>2. (\A k \in 1..n : k \in 1..n + m) /\ (\A k \in 1..m : n + k \in 1..n + m)
    BY <1>1
  <2>3. ToSet(old) \subseteq ToSet(d)
    BY <1>2, <1>6, <2>2
  <2>4. ToSet(more) \subseteq ToSet(d)
    BY <1>2, <1>6, <2>2
  <2> QED BY <1>6, <2>1, <2>3, <2>4, ZenonT(60)
<1> QED BY <1>2, <1>10, <1>11 DEF n, m, d

\* The blocks of a file after a change of its size: the ones that it keeps and the
\* lowest free ones; the others it gives back.
MoreBlocks(old, new) == Lowest(new - Min({new, Len(old)}))
NewDirect(old, new) == SubSeq(old, 1, Min({new, Len(old)})) \o MoreBlocks(old, new)
FreedBlocks(old, new) == {old[k] : k \in new + 1..Len(old)}

LEMMA NewDirectFacts ==
    ASSUME block_bitmap \subseteq Blocks, NEW old \in Seq(Blocks), NEW new \in Nat,
           new - Len(old) <= Cardinality(Free), IsInjective(old), ToSet(old) \cap Free = {}
    PROVE  /\ NewDirect(old, new) \in Seq(Blocks) /\ Len(NewDirect(old, new)) = new
           /\ IsInjective(NewDirect(old, new))
           /\ ToSet(NewDirect(old, new)) =
                 (ToSet(old) \cup ToSet(MoreBlocks(old, new))) \ FreedBlocks(old, new)
           /\ ToSet(MoreBlocks(old, new)) \subseteq Free
           /\ FreedBlocks(old, new) \subseteq ToSet(old)
<1> DEFINE d == NewDirect(old, new)
           more == MoreBlocks(old, new)
           freed == FreedBlocks(old, new)
           n == Len(old)
<1>1. n \in Nat /\ DOMAIN old = 1..n /\ \A k \in 1..n : old[k] \in Blocks
  OBVIOUS
<1>2. \A j, k \in 1..n : old[j] = old[k] => j = k
  BY <1>1 DEF IsInjective
<1>3. ToSet(old) = {old[k] : k \in 1..n}
  BY <1>1 DEF ToSet
<1>4. Cardinality(Free) \in Nat
  <2>1. NBlocks \in Int
    BY FsAssumption
  <2>2. IsFiniteSet(Blocks) /\ Free \subseteq Blocks
    BY <2>1, FS_Interval, 1 \in Int DEF Blocks, Free
  <2> QED BY <2>2, FS_Subset, FS_CardinalityType
<1> HIDE DEF n, d, more, freed
<1>5. CASE n <= new
  <2>1. Min({new, n}) = n
    <3> DEFINE S == {new, n}
    <3>1. S \subseteq Nat /\ n \in S /\ \A y \in S : n <= y
      BY <1>1, <1>5
    <3> HIDE DEF S
    <3>2. Min(S) = n
      BY <3>1, MinUnique
    <3> QED BY <3>2 DEF S
  <2>2. d = old \o more /\ more = Lowest(new - n)
    <3>1. SubSeq(old, 1, n) = old
      BY DEF n
    <3> QED BY <2>1, <3>1 DEF NewDirect, MoreBlocks, n, d, more
  <2> DEFINE m == new - n
  <2>3. m \in Nat /\ m <= Cardinality(Free)
    BY <1>1, <1>5 DEF n
  <2> HIDE DEF m
  <2>4. /\ more \in Seq(Blocks) /\ Len(more) = m
        /\ \A k \in 1..m : more[k] \in Free
        /\ \A j, k \in 1..m : more[j] = more[k] => j = k
    BY <2>2, <2>3, LowestFacts DEF m
  <2>5. DOMAIN more = 1..m
    BY <2>3, <2>4
  <2>6. IsInjective(more) /\ ToSet(more) \subseteq Free
    BY <2>4, <2>5 DEF IsInjective, ToSet
  <2>7. /\ old \o more \in Seq(Blocks) /\ Len(old \o more) = Len(old) + Len(more)
        /\ IsInjective(old \o more)
        /\ ToSet(old \o more) = ToSet(old) \cup ToSet(more)
    <3>1. ToSet(old) \cap ToSet(more) = {}
      BY <2>6
    <3> QED BY <2>4, <2>6, <3>1, JoinFacts
  <2>8. freed = {}
    <3>1. new + 1..n = {}
      BY <1>1, <1>5
    <3> QED BY <3>1 DEF n, freed, FreedBlocks
  <2>9. Len(old) + Len(more) = new
    BY <1>1, <2>4 DEF n, m
  <2> QED BY <2>2, <2>6, <2>7, <2>8, <2>9 DEF d, more, freed
<1>6. CASE new < n
  <2>1. Min({new, n}) = new
    <3> DEFINE S == {new, n}
    <3>1. S \subseteq Nat /\ new \in S /\ \A y \in S : new <= y
      BY <1>1, <1>6
    <3> HIDE DEF S
    <3>2. Min(S) = new
      BY <3>1, MinUnique
    <3> QED BY <3>2 DEF S
  <2>2. more = <<>>
    <3>1. /\ Lowest(0) \in Seq(Blocks) /\ Len(Lowest(0)) = 0
      BY <1>4, LowestFacts
    <3>2. more = Lowest(0)
      BY <2>1 DEF n, more, MoreBlocks
    <3> QED BY <3>1, <3>2
  <2>3. d = SubSeq(old, 1, new)
    <3>1. d = SubSeq(old, 1, new) \o more
      BY <2>1 DEF NewDirect, n, d, more
    <3>2. SubSeq(old, 1, new) \in Seq(Blocks)
      BY <1>1, <1>6 DEF n
    <3> QED BY <2>2, <3>1, <3>2
  <2>4. d \in Seq(Blocks) /\ Len(d) = new /\ \A k \in 1..new : d[k] = old[k]
    BY <1>1, <1>6, <2>3 DEF n
  <2>5. DOMAIN d = 1..new /\ ToSet(d) = {d[k] : k \in 1..new}
    BY <2>4 DEF ToSet
  <2>6. \A k \in 1..new : k \in 1..n
    BY <1>1, <1>6
  <2>7. IsInjective(d)
    BY <1>2, <2>4, <2>5, <2>6 DEF IsInjective
  <2>8. freed = {old[k] : k \in new + 1..n} /\ \A k \in new + 1..n : k \in 1..n
    BY <1>1 DEF n, freed, FreedBlocks
  <2>9. \A k \in 1..n : k \in 1..new \/ k \in new + 1..n
    BY <1>1
  <2>10. \A j \in 1..new : \A k \in new + 1..n : old[j] # old[k]
    <3>1. \A j \in 1..new : \A k \in new + 1..n : j # k
      OBVIOUS
    <3> QED BY <1>2, <2>6, <2>8, <3>1
  <2>11. freed \subseteq ToSet(old)
    BY <1>3, <2>8
  <2>12. ToSet(d) = {old[k] : k \in 1..new}
    BY <2>4, <2>5
  <2>13. ToSet(d) = ToSet(old) \ freed
    BY <1>3, <2>6, <2>8, <2>9, <2>10, <2>12
  <2>14. ToSet(more) = {}
    BY <2>2 DEF ToSet
  <2> QED BY <2>4, <2>7, <2>11, <2>13, <2>14 DEF d, more, freed
<1>7. n <= new \/ new < n
  BY <1>1
<1> QED BY <1>5, <1>6, <1>7

\* inode_size_change() keeps the blocks of the files apart.
LEMMA SizeChanged ==
    ASSUME TypeOK, OwnersOK, NEW p \in Procs, NEW i \in Inodes, NEW size \in 0..NDIRECT * PerBlock,
           DIV_ROUND_UP(size) - Len(disk_inode[i].direct) <= Cardinality(Free),
           inode_size_change(p, i, size)
    PROVE  /\ block_bitmap' \subseteq Blocks /\ disk_inode' \in [Inodes -> DiskInode] /\ OwnersOK'
           /\ disk_inode'[i].size = size /\ \A j \in Inodes \ {i} : disk_inode'[j] = disk_inode[j]
           /\ size = 0 => disk_inode'[i] = Empty
<1> DEFINE old == disk_inode[i].direct
           new == DIV_ROUND_UP(size)
           d == NewDirect(old, new)
           freed == Freed(i, size)
           more == MoreBlocks(old, new)
           rec == [size |-> size, direct |-> d]
<1>1. /\ disk_inode' = [disk_inode EXCEPT ![i] = rec]
      /\ block_bitmap' = (block_bitmap \cup ToSet(more)) \ freed
  BY DEF inode_size_change, NewDirect, MoreBlocks
<1>2. /\ block_bitmap \subseteq Blocks /\ disk_inode \in [Inodes -> DiskInode]
      /\ old \in Seq(Blocks) /\ freed = FreedBlocks(old, new)
  BY DEF TypeOK, DiskInode, Freed, FreedBlocks
<1>3. size \in Nat
  BY FsAssumption
<1>4. new \in Nat /\ (size = 0 => new = 0)
  BY <1>3, RoundUp
<1>5. IsInjective(old) /\ ToSet(old) = Owned(i) /\ Owned(i) \subseteq block_bitmap
  BY DEF OwnersOK, Owned
<1>6. ToSet(old) \cap Free = {}
  BY <1>5 DEF Free
<1> HIDE DEF new, old
<1>7. /\ d \in Seq(Blocks) /\ Len(d) = new /\ IsInjective(d)
      /\ ToSet(d) = (ToSet(old) \cup ToSet(more)) \ freed
      /\ ToSet(more) \subseteq Free /\ freed \subseteq ToSet(old)
  <2>1. new - Len(old) <= Cardinality(Free)
    BY DEF new, old
  <2> QED BY <1>2, <1>4, <1>5, <1>6, <2>1, NewDirectFacts
<1> HIDE DEF d, more, freed
<1>8. rec \in DiskInode /\ rec.size = size /\ rec.direct = d
  BY <1>7 DEF DiskInode
<1> HIDE DEF rec
<1>9. /\ disk_inode' \in [Inodes -> DiskInode] /\ disk_inode'[i] = rec
      /\ \A j \in Inodes \ {i} : disk_inode'[j] = disk_inode[j]
  BY <1>1, <1>2, <1>8
<1>10. block_bitmap' \subseteq Blocks
  BY <1>1, <1>2, <1>7 DEF Free
<1> DEFINE O(j) == Owned(j)
           N(j) == ToSet(disk_inode'[j].direct)
<1>11. N(i) = (O(i) \cup ToSet(more)) \ freed /\ \A j \in Inodes \ {i} : N(j) = O(j)
  BY <1>5, <1>7, <1>8, <1>9 DEF Owned
<1>12. /\ block_bitmap = UNION {O(j) : j \in Inodes}
       /\ \A j \in Inodes : \A k \in Inodes \ {j} : O(j) \cap O(k) = {}
  BY DEF OwnersOK
<1>13. ToSet(more) \cap block_bitmap = {} /\ freed \subseteq O(i)
  BY <1>5, <1>7 DEF Free
<1>14. Owned(i)' = N(i) /\ \A j \in Inodes : Owned(j)' = N(j)
  BY DEF Owned
<1> HIDE DEF O, N
<1>15. \A j \in Inodes : O(j) \subseteq block_bitmap
  BY <1>12
<1>16. block_bitmap' = UNION {N(j) : j \in Inodes}
  <2>1. ASSUME NEW x \in block_bitmap' PROVE \E j \in Inodes : x \in N(j)
    <3>1. CASE x \in ToSet(more)
      BY <1>1, <1>11, <2>1, <3>1
    <3>2. CASE x \in block_bitmap
      <4>1. PICK j \in Inodes : x \in O(j)
        BY <1>12, <3>2
      <4>2. x \notin freed
        BY <1>1, <2>1
      <4> QED BY <1>11, <4>1, <4>2
    <3> QED BY <1>1, <2>1, <3>1, <3>2
  <2>2. ASSUME NEW j \in Inodes, NEW x \in N(j) PROVE x \in block_bitmap'
    <3>1. CASE j = i
      BY <1>1, <1>11, <1>15, <2>2, <3>1
    <3>2. CASE j # i
      <4>1. x \in O(j) /\ x \notin O(i)
        BY <1>11, <1>12, <2>2, <3>2
      <4> QED BY <1>1, <1>13, <1>15, <4>1
    <3> QED BY <3>1, <3>2
  <2> QED BY <2>1, <2>2
<1>17. ASSUME NEW j \in Inodes, NEW k \in Inodes \ {j} PROVE N(j) \cap N(k) = {}
  <2>1. O(j) \cap O(k) = {} /\ O(j) \subseteq block_bitmap /\ O(k) \subseteq block_bitmap
    BY <1>12, <1>15
  <2> QED BY <1>11, <1>13, <2>1
<1>18. ASSUME NEW j \in Inodes
       PROVE  /\ Len(disk_inode'[j].direct) = DIV_ROUND_UP(disk_inode'[j].size)
              /\ IsInjective(disk_inode'[j].direct)
  <2>1. CASE j = i
    BY <1>7, <1>8, <1>9, <2>1 DEF new
  <2>2. CASE j # i
    BY <1>9, <2>2 DEF OwnersOK
  <2> QED BY <2>1, <2>2
<1>19. OwnersOK'
  BY <1>14, <1>16, <1>17, <1>18 DEF OwnersOK
<1>20. size = 0 => rec = Empty
  <2> SUFFICES ASSUME size = 0 PROVE rec = Empty
    OBVIOUS
  <2>1. d = <<>>
    BY <1>4, <1>7
  <2> QED BY <2>1 DEF rec, Empty
<1> QED BY <1>8, <1>9, <1>10, <1>19, <1>20

-----------------------------------------------------------------------------
(* Files: what the invariant says of the variables *)

LEMMA FsNow ==
    ASSUME FsInv
    PROVE  /\ maker \in Procs /\ maker \notin Writers /\ NULL # maker
           /\ \A p \in Writers : p \in Procs /\ p # maker
           /\ inode_bitmap \subseteq Inodes /\ block_bitmap \subseteq Blocks
           /\ disk_inode \in [Inodes -> DiskInode] /\ table \in [Inodes -> DiskInode]
           /\ inode_lock \in [Inodes -> Procs \cup {NULL}]
           /\ entries \in [Inodes -> Seq(Dirent)]
           /\ op.dir \in Inodes /\ op.i_no \in Inodes /\ op.path \in Seq(Names)
           /\ op.call \in Calls \cup {"none", "undo"}
           /\ pc \in [Procs -> Labels \cup {"grow"}] /\ pc[maker] \in Labels
           /\ io \in [Procs -> [phase : {"none", "asked", "read"}, block : Snapshots]]
           /\ 0 \in Inodes /\ w_no \in Inodes /\ v_no \in Inodes
           /\ 0 # w_no /\ 0 # v_no /\ w_no # v_no
BY FsAssumption DEF FsInv, TypesOK, TypeOK, PcOK, Procs

\* The directories that are read.
LEMMA EntryFacts ==
    ASSUME FsInv, NEW i \in Inodes
    PROVE  /\ entries[i] \in Seq(Dirent) /\ Len(entries[i]) \in Nat
           /\ DOMAIN entries[i] = 1..Len(entries[i])
           /\ \A k \in DOMAIN entries[i] :
                 /\ entries[i][k] \in Dirent /\ entries[i][k].i_no \in Inodes
                 /\ k \in Nat
<1>1. entries[i] \in Seq(Dirent)
  BY FsNow
<1> DEFINE s == entries[i]
<1> HIDE DEF s
<1>2. s \in Seq(Dirent)
  BY <1>1 DEF s
<1>3. Len(s) \in Nat /\ DOMAIN s = 1..Len(s) /\ \A k \in DOMAIN s : s[k] \in Dirent /\ k \in Nat
  BY <1>2
<1>4. \A k \in DOMAIN s : s[k].i_no \in Inodes
  BY <1>3 DEF Dirent
<1> QED BY <1>2, <1>3, <1>4 DEF s

\* The entry that dirent_search() finds.
LEMMA DirentFacts ==
    ASSUME FsInv, NEW i \in Inodes, NEW name, Matching(i, name) # {}
    PROVE  \E k \in DOMAIN entries[i] :
              /\ k = Min(Matching(i, name)) /\ dirent(i, name) = entries[i][k]
              /\ entries[i][k].filename = name
<1>1. Matching(i, name) \subseteq Nat
  BY EntryFacts DEF Matching
<1>2. Min(Matching(i, name)) \in Matching(i, name)
  BY <1>1, MinFacts
<1> QED BY <1>2 DEF Matching, dirent

\* The inode that a call of block_modify() is about.
LEMMA TargetIs ==
    /\ pc[maker] \in {"add", "readd", "retype", "del"} => Target(maker) = op.dir
    /\ pc[maker] \in {"zero", "dot", "ddot", "trunc"} => Target(maker) = op.i_no
    /\ \A p \in Writers : pc[p] = "grow" => Target(p) = w_no
BY DEF Target

\* The maker writes neither to the writers' file nor to the other one.
LEMMA MakerTarget ==
    ASSUME FsInv, Busy
    PROVE  /\ pc[maker] \in {"add", "readd", "retype", "del", "zero", "dot", "ddot", "trunc"}
           /\ Target(maker) \in {op.dir, op.i_no} \ {w_no, v_no}
           /\ Target(maker) \in Inodes
<1>1. pc[maker] \in {"add", "readd", "retype", "del", "zero", "dot", "ddot", "trunc"}
  BY DEF FsInv, PcOK, Labels
<1>2. op.dir \notin {w_no, v_no} /\ op.i_no \notin {w_no, v_no}
  BY <1>1 DEF FsInv, OpOK, HasInode, Labels, Special
<1>3. Target(maker) \in {op.dir, op.i_no}
  BY <1>1, TargetIs
<1> QED BY <1>1, <1>2, <1>3, FsNow

-----------------------------------------------------------------------------
(* Files: steps that leave the disk alone *)

\* Who owns a block only depends on what the kernel knows of the disk.
LEMMA OwnersSame ==
    ASSUME OwnersOK, block_bitmap' = block_bitmap, disk_inode' = disk_inode
    PROVE  OwnersOK'
<1>1. ASSUME NEW i PROVE Owned(i)' = Owned(i)
  BY DEF Owned
<1>2. UNION {Owned(i)' : i \in Inodes} = UNION {Owned(i) : i \in Inodes}
  BY <1>1
<1> QED BY <1>1, <1>2 DEF OwnersOK

\* A step of the maker outside block_modify() that changes nothing on the disk
\* keeps all but what op is about.
LEMMA ControlStep ==
    ASSUME FsInv, UNCHANGED <<disk, io>>, ~Busy,
           pc[maker] \notin {"trunc", "del", "zero"},
           NEW to \in Labels \ {"zero", "trunc", "del"}, pc' = [pc EXCEPT ![maker] = to],
           op' \in [call : Calls \cup {"none", "undo"}, path : Seq(Names), dir : Inodes, i_no : Inodes],
           to # "user" => op'.path # <<>>,
           op'.call = "undo" => to = "bfree",
           inode_lock' \in [Inodes -> Procs \cup {NULL}], inode_lock'[w_no] = inode_lock[w_no],
           OpOK'
    PROVE  FsInv'
<1> USE FsNow DEF disk
<1>1. /\ pc'[maker] = to /\ \A p \in Writers : pc'[p] = pc[p]
      /\ pc' \in [Procs -> Labels \cup {"grow"}]
  OBVIOUS
<1>2. ~Busy' /\ (\A i \in Inodes : SizeOf(i) = Len(entries[i]) /\ SizeOf(i)' = Len(entries[i]))
  BY DEF Busy, SizeOf
<1>3. TypesOK'
  BY <1>1 DEF TypesOK, TypeOK, FsInv
<1>4. PcOK'
  <2>1. ASSUME NEW p \in Procs, io'[p].phase = "read"
        PROVE  io'[p].block \in [SameBlock(Target(p)') -> DiskInode]
    <3>1. p \in Writers /\ pc[p] = "grow"
      BY <2>1 DEF FsInv, PcOK, Busy, Procs
    <3>2. Target(p) = w_no /\ Target(p)' = w_no
      BY <1>1, <3>1 DEF Target
    <3> QED BY <2>1, <3>2 DEF FsInv, PcOK
  <2>2. \A p \in Procs : io'[p].phase = "read" => io'[p].block \in [SameBlock(Target(p)') -> DiskInode]
    BY <2>1
  <2> QED BY <1>1, <1>2, <2>2, ZenonT(60) DEF FsInv, PcOK, SameBlock
<1>5. OwnersOK'
  BY OwnersSame DEF FsInv
<1>6. SizesOK'
  <2>1. \A i \in Inodes \ {w_no} : disk_inode'[i].size = SizeOf(i)'
    <3>1. \A i \in Inodes \ {w_no} : disk_inode[i].size = SizeOf(i)
      BY DEF FsInv, SizesOK
    <3>2. disk_inode' = disk_inode /\ \A i \in Inodes : SizeOf(i)' = SizeOf(i)
      BY <1>2
    <3> QED BY <3>1, <3>2
  <2>2. \A i \in Inodes \ inode_bitmap' : disk_inode'[i] = Empty
    BY DEF FsInv, SizesOK
  <2>3. pc'[maker] # "zero"
    BY <1>1
  <2> QED BY <2>1, <2>2, <2>3 DEF SizesOK
<1>7. NamesOK'
  BY DEF FsInv, NamesOK
<1>8. LinksOK'
  <2>1. \A i, k : Link(i, k)' = Link(i, k)
    BY DEF Link
  <2>2. ~Unlinking
    BY DEF Unlinking
  <2> QED BY <2>1, <2>2, SMTT(60) DEF FsInv, LinksOK
<1>9. LocksOK'
  BY <1>1, <1>2 DEF FsInv, LocksOK
<1> QED BY <1>3, <1>4, <1>5, <1>6, <1>7, <1>8, <1>9 DEF FsInv

OpSet == [call : Calls \cup {"none", "undo"}, path : Seq(Names), dir : Inodes, i_no : Inodes]

\* What op has to be outside of the calls that have an inode.
LEMMA SimpleOp ==
    ASSUME FsInv, UNCHANGED <<inode_bitmap>>, ~Busy', pc'[maker] \in {"user", "path", "stuck", "alloc"},
           op'.dir \in inode_bitmap \ {w_no, v_no}
    PROVE  OpOK'
BY DEF FsInv, OpOK, HasInode, Labels, New, Found, Special

LEMMA NoCallFacts ==
    ASSUME FsInv
    PROVE  NoCall \in OpSet /\ NoCall.dir \in inode_bitmap \ {w_no, v_no} /\ NoCall.call # "undo"
<1>1. <<>> \in Seq(Names) /\ 0 \in Inodes
  BY FsNow
<1>2. 0 \in inode_bitmap \ {w_no, v_no}
  BY FsNow DEF FsInv, OpOK, Special
<1> QED BY <1>1, <1>2 DEF NoCall, OpSet

LEMMA CallStep ==
    ASSUME FsInv, NEW call \in Calls, NEW path \in Paths, Call(call, path)
    PROVE  FsInv'
<1> DEFINE o == [call |-> call, path |-> path, dir |-> 0, i_no |-> 0]
<1>1. /\ pc[maker] = "user" /\ pc' = [pc EXCEPT ![maker] = "path"] /\ op' = o
      /\ UNCHANGED <<disk, inode_lock, io>>
  BY DEF Call, MakerTo, Goto
<1>2. path \in Seq(Names) /\ path # <<>>
  BY FsAssumption
<1>3. o \in OpSet /\ o.path = path /\ o.dir = 0 /\ o.call # "undo"
  BY <1>2, FsNow DEF OpSet, Calls
<1> HIDE DEF o
<1>4. ~Busy /\ ~Busy' /\ pc'[maker] = "path"
  BY <1>1, FsNow DEF FsInv, PcOK, Busy
<1>5. 0 \in inode_bitmap \ {w_no, v_no}
  BY FsNow DEF FsInv, OpOK, Special
<1>6. OpOK'
  BY <1>1, <1>3, <1>4, <1>5, SimpleOp DEF disk
<1> QED BY <1>1, <1>2, <1>3, <1>4, <1>6, ControlStep, FsNow DEF OpSet, Labels

\* The parts of op.
LEMMA OpFacts ==
    ASSUME FsInv
    PROVE  /\ op \in OpSet
           /\ \A x \in Inodes : /\ [op EXCEPT !.i_no = x] \in OpSet
                                /\ [op EXCEPT !.i_no = x].path = op.path
                                /\ [op EXCEPT !.i_no = x].dir = op.dir
                                /\ [op EXCEPT !.i_no = x].call = op.call
                                /\ [op EXCEPT !.i_no = x].i_no = x
BY DEF FsInv, TypesOK, OpSet

\* A name of the maker leads to an inode that is in use.
LEMMA NamedInode ==
    ASSUME FsInv, ~Unlinking, NEW name \in Names, Matching(op.dir, name) # {}
    PROVE  /\ dirent(op.dir, name).i_no \in inode_bitmap \ Special
           /\ dirent(op.dir, name).i_no # op.dir
           /\ dirent(op.dir, name).i_no \in Inodes
           /\ \E k \in DOMAIN entries[op.dir] :
                 /\ entries[op.dir][k].filename = name
                 /\ entries[op.dir][k].i_no = dirent(op.dir, name).i_no
<1>1. op.dir \in Inodes
  BY FsNow
<1>2. PICK k \in DOMAIN entries[op.dir] : dirent(op.dir, name) = entries[op.dir][k] /\ entries[op.dir][k].filename = name
  BY <1>1, DirentFacts
<1>3. k \in Nat /\ entries[op.dir][k].i_no \in Inodes
  BY <1>1, <1>2, EntryFacts
<1>4. Link(op.dir, k)
  BY <1>2 DEF Link, Names
<1>5. entries[op.dir][k].i_no \notin Special
  BY <1>1, <1>2 DEF FsInv, NamesOK
<1>6. entries[op.dir][k].i_no # op.dir /\ entries[op.dir][k].i_no \in inode_bitmap
  BY <1>1, <1>3, <1>4 DEF FsInv, LinksOK
<1> QED BY <1>2, <1>3, <1>5, <1>6

LEMMA PathFacts ==
    ASSUME FsInv, pc[maker] = "path"
    PROVE  ~Busy /\ ~Unlinking /\ op.path # <<>> /\ op.call # "undo" /\ Head(op.path) \in Names
           /\ op.dir \in inode_bitmap \ {w_no, v_no} /\ Tail(op.path) \in Seq(Names)
<1>1. ~Busy /\ ~Unlinking /\ op.path # <<>> /\ op.call # "undo" /\ op.dir \in inode_bitmap \ {w_no, v_no}
  BY DEF FsInv, PcOK, Unlinking, OpOK
<1>2. op.path \in Seq(Names)
  BY FsNow
<1> QED BY <1>1, <1>2

LEMMA PathDownStep ==
    ASSUME FsInv, PathDown
    PROVE  FsInv'
<1> DEFINE de == dirent(op.dir, Head(op.path))
           to == IF de.f_type = "FT_DIR" THEN "path" ELSE "user"
           o == [op EXCEPT !.dir = de.i_no, !.path = Tail(op.path)]
<1>1. /\ pc[maker] = "path" /\ pc' = [pc EXCEPT ![maker] = to] /\ op' = IF to = "user" THEN NoCall ELSE o
      /\ UNCHANGED <<disk, inode_lock, io>> /\ Len(op.path) > 1 /\ Matching(op.dir, Head(op.path)) # {}
  BY DEF PathDown, MakerTo, Goto
<1>2. /\ ~Busy /\ ~Unlinking /\ op.call # "undo" /\ Head(op.path) \in Names /\ Tail(op.path) \in Seq(Names)
  BY <1>1, PathFacts
<1>3. de.i_no \in inode_bitmap \ Special /\ de.i_no \in Inodes
  BY <1>1, <1>2, NamedInode
<1>4. Tail(op.path) # <<>>
  <2>1. op.path \in Seq(Names) /\ op.path # <<>>
    BY <1>1, FsNow, PathFacts
  <2>2. Len(Tail(op.path)) = Len(op.path) - 1 /\ Len(op.path) \in Nat
    BY <2>1, HeadTailProperties
  <2>3. Len(op.path) > 1
    BY DEF PathDown
  <2> DEFINE n == Len(op.path)
             m == Len(Tail(op.path))
  <2> HIDE DEF n, m
  <2>4. m = n - 1 /\ n \in Nat /\ n > 1
    BY <2>2, <2>3 DEF n, m
  <2>5. m # 0
    BY <2>4
  <2>6. ASSUME Tail(op.path) = <<>> PROVE m = 0
    <3>1. Len(<<>>) = 0
      BY EmptySeq
    <3> QED BY <2>6, <3>1, Zenon DEF m
  <2> QED BY <2>5, <2>6
<1>5. o \in OpSet /\ o.path = Tail(op.path) /\ o.dir = de.i_no /\ o.call = op.call
  BY <1>2, <1>3, OpFacts DEF OpSet
<1>6. to \in {"path", "user"}
  OBVIOUS
<1> HIDE DEF de, to, o
<1>7. /\ op' \in OpSet /\ op'.dir \in inode_bitmap \ {w_no, v_no} /\ op'.call # "undo"
      /\ to # "user" => op'.path # <<>>
  BY <1>1, <1>2, <1>3, <1>4, <1>5, NoCallFacts DEF Special
<1>8. ~Busy' /\ pc'[maker] = to
  BY <1>1, <1>2, FsNow DEF Busy
<1>9. OpOK'
  BY <1>1, <1>6, <1>7, <1>8, SimpleOp DEF disk
<1> QED BY <1>1, <1>2, <1>6, <1>7, <1>9, ControlStep, FsNow DEF OpSet, Labels

LEMMA PathStuckStep ==
    ASSUME FsInv, PathStuck
    PROVE  FsInv'
<1>1. /\ pc[maker] = "path" /\ pc' = [pc EXCEPT ![maker] = "stuck"] /\ op' = op
      /\ UNCHANGED <<disk, io>> /\ inode_lock' = [inode_lock EXCEPT ![op.dir] = maker]
  BY DEF PathStuck, MakerTo, Goto, Lock
<1>2. ~Busy /\ op.path # <<>> /\ op.call # "undo" /\ op.dir \in inode_bitmap \ {w_no, v_no}
  BY <1>1, PathFacts
<1>3. ~Busy' /\ pc'[maker] = "stuck"
  BY <1>1, <1>2, FsNow DEF Busy
<1>4. OpOK'
  BY <1>1, <1>2, <1>3, SimpleOp DEF disk
<1>5. inode_lock' \in [Inodes -> Procs \cup {NULL}] /\ inode_lock'[w_no] = inode_lock[w_no]
  BY <1>1, <1>2, FsNow
<1>6. op' \in OpSet
  BY <1>1, OpFacts
<1> QED BY <1>1, <1>2, <1>4, <1>5, <1>6, ControlStep DEF OpSet, Labels

LEMMA PathMissingStep ==
    ASSUME FsInv, PathMissing
    PROVE  FsInv'
<1> DEFINE to == IF op.call \in {"mknod", "mkdir"} THEN "alloc" ELSE "user"
<1>1. /\ pc[maker] = "path" /\ pc' = [pc EXCEPT ![maker] = to] /\ op' = IF to = "user" THEN NoCall ELSE op
      /\ UNCHANGED <<disk, inode_lock, io>>
  BY DEF PathMissing, MakerTo, Goto
<1>2. ~Busy /\ op.path # <<>> /\ op.call # "undo" /\ op.dir \in inode_bitmap \ {w_no, v_no}
  BY <1>1, PathFacts
<1>3. to \in {"alloc", "user"}
  OBVIOUS
<1> HIDE DEF to
<1>4. /\ op' \in OpSet /\ op'.dir \in inode_bitmap \ {w_no, v_no} /\ op'.call # "undo"
      /\ to # "user" => op'.path # <<>>
  BY <1>1, <1>2, NoCallFacts, OpFacts
<1>5. ~Busy' /\ pc'[maker] = to
  BY <1>1, <1>2, FsNow DEF Busy
<1>6. OpOK'
  BY <1>1, <1>3, <1>4, <1>5, SimpleOp DEF disk
<1> QED BY <1>1, <1>2, <1>3, <1>4, <1>6, ControlStep, FsNow DEF OpSet, Labels

LEMMA PathFoundStep ==
    ASSUME FsInv, PathFound
    PROVE  FsInv'
<1> DEFINE de == dirent(op.dir, Name)
           to == CASE op.call = "unlink" /\ de.f_type # "FT_DIR" -> "bfree"
                   [] op.call = "rmdir"  /\ de.f_type = "FT_DIR" -> "empty"
                   [] OTHER -> "user"
           o == [op EXCEPT !.i_no = de.i_no]
<1>1. /\ pc[maker] = "path" /\ pc' = [pc EXCEPT ![maker] = to] /\ op' = IF to = "user" THEN NoCall ELSE o
      /\ UNCHANGED <<disk, inode_lock, io>> /\ Matching(op.dir, Name) # {}
  BY DEF PathFound, MakerTo, Goto
<1>2. /\ ~Busy /\ ~Unlinking /\ op.call # "undo" /\ Name \in Names /\ op.path # <<>>
      /\ op.dir \in inode_bitmap \ {w_no, v_no}
  BY <1>1, PathFacts DEF Name
<1>3. /\ de.i_no \in inode_bitmap \ Special /\ de.i_no \in Inodes /\ de.i_no # op.dir
      /\ \E k \in DOMAIN entries[op.dir] :
            entries[op.dir][k].filename = Name /\ entries[op.dir][k].i_no = de.i_no
  BY <1>1, <1>2, NamedInode
<1>4. to \in {"bfree", "empty", "user"}
  OBVIOUS
<1>5. o \in OpSet /\ o.path = op.path /\ o.dir = op.dir /\ o.call = op.call /\ o.i_no = de.i_no
  BY <1>3, OpFacts
<1> HIDE DEF de, to, o
<1>6. /\ op' \in OpSet /\ op'.dir \in inode_bitmap \ {w_no, v_no} /\ op'.call # "undo"
      /\ to # "user" => op'.path # <<>>
  BY <1>1, <1>2, <1>5, NoCallFacts
<1>7. ~Busy' /\ pc'[maker] = to
  BY <1>1, <1>2, FsNow DEF Busy
<1>8. OpOK'
  <2>1. CASE to = "user"
    BY <1>1, <2>1, <1>6, <1>7, SimpleOp DEF disk
  <2>2. CASE to # "user"
    <3>1. op' = o /\ Name' = Name /\ inode_bitmap' = inode_bitmap /\ entries' = entries
      BY <1>1, <1>5, <2>2 DEF Name, disk
    <3>2. ~New' /\ Special \subseteq inode_bitmap
      BY <1>2, <1>4, <1>5, <1>7, <3>1 DEF New, FsInv, OpOK
    <3>3. \E k \in DOMAIN entries'[op'.dir] :
            entries'[op'.dir][k].filename = Name' /\ entries'[op'.dir][k].i_no = op'.i_no
      BY <1>3, <1>5, <3>1
    <3>4. pc'[maker] \in {"bfree", "empty"}
      BY <1>4, <1>7, <2>2
    <3> QED BY <1>2, <1>3, <1>5, <1>7, <3>1, <3>2, <3>3, <3>4 DEF OpOK, HasInode, Special
  <2> QED BY <2>1, <2>2
<1> QED BY <1>1, <1>2, <1>4, <1>6, <1>8, ControlStep, FsNow DEF OpSet, Labels

LEMMA AllocFullStep ==
    ASSUME FsInv, AllocFull
    PROVE  FsInv'
<1>1. /\ pc[maker] = "alloc" /\ pc' = [pc EXCEPT ![maker] = "user"] /\ op' = NoCall
      /\ UNCHANGED <<disk, inode_lock, io>>
  BY DEF AllocFull, MakerTo, Goto
<1>2. ~Busy
  BY <1>1 DEF FsInv, PcOK
<1>3. ~Busy' /\ pc'[maker] = "user"
  BY <1>1, <1>2, FsNow DEF Busy
<1>4. OpOK'
  BY <1>1, <1>3, SimpleOp, NoCallFacts DEF disk
<1> QED BY <1>1, <1>2, <1>4, NoCallFacts, ControlStep, FsNow DEF OpSet, Labels

LEMMA AddFailedStep ==
    ASSUME FsInv, AddFailed
    PROVE  FsInv'
<1> DEFINE o == [op EXCEPT !.call = "undo"]
<1>1. /\ pc[maker] = "add" /\ pc' = [pc EXCEPT ![maker] = "bfree"] /\ op' = o /\ ~Busy
      /\ UNCHANGED <<disk, io>> /\ inode_lock' = [inode_lock EXCEPT ![op.dir] = maker]
  BY DEF AddFailed, MakerTo, Goto, Lock, NoIo, Busy
<1>2. o \in OpSet /\ o.path = op.path /\ o.dir = op.dir /\ o.call = "undo" /\ o.i_no = op.i_no
  BY OpFacts DEF OpSet
<1> HIDE DEF o
<1>3. op.path # <<>> /\ op.dir \in inode_bitmap \ {w_no, v_no}
  BY <1>1 DEF FsInv, PcOK, OpOK
<1>4. ~Busy' /\ pc'[maker] = "bfree" /\ New /\ New' /\ ~Found'
  BY <1>1, <1>2, FsNow DEF Busy, New, Found
<1>5. OpOK'
  BY <1>1, <1>2, <1>3, <1>4 DEF FsInv, OpOK, HasInode, Labels, Special, disk, Link
<1>6. inode_lock' \in [Inodes -> Procs \cup {NULL}] /\ inode_lock'[w_no] = inode_lock[w_no]
  BY <1>1, <1>3, FsNow
<1> QED BY <1>1, <1>2, <1>3, <1>5, <1>6, ControlStep DEF OpSet, Labels

LEMMA AddIgnoredStep ==
    ASSUME FsInv, AddIgnored
    PROVE  FsInv'
<1> DEFINE d == Target(maker)
<1>1. pc[maker] \in {"readd", "dot", "ddot"} /\ ~Busy /\ UNCHANGED <<disk, io>>
  BY DEF AddIgnored, Adding, NoIo, Busy
<1>2. /\ Added \in {"dot", "ddot", "user"} /\ pc' = [pc EXCEPT ![maker] = Added]
      /\ op' = IF Added = "user" THEN NoCall ELSE op
  BY <1>1 DEF AddIgnored, MakerTo, Goto, Added
<1>3. inode_lock' = [inode_lock EXCEPT ![d] = maker] \/ inode_lock' = [inode_lock EXCEPT ![d] = NULL]
  BY DEF AddIgnored, Lock, Unlock
<1>4. /\ op.path # <<>> /\ op.dir \in inode_bitmap \ {w_no, v_no} /\ op.i_no \notin Special
      /\ op.call # "undo"
  BY <1>1 DEF FsInv, PcOK, OpOK, HasInode, Labels
<1>5. d \in {op.dir, op.i_no}
  BY <1>1, TargetIs
<1> HIDE DEF d
<1>6. inode_lock' \in [Inodes -> Procs \cup {NULL}] /\ inode_lock'[w_no] = inode_lock[w_no]
  <2>1. d \in Inodes /\ d # w_no
    BY <1>4, <1>5, FsNow DEF Special
  <2>2. CASE inode_lock' = [inode_lock EXCEPT ![d] = maker]
    BY <2>1, <2>2, FsNow
  <2>3. CASE inode_lock' = [inode_lock EXCEPT ![d] = NULL]
    BY <2>1, <2>3, FsNow
  <2> QED BY <1>3, <2>2, <2>3
<1>7. ~Busy' /\ pc'[maker] = Added
  BY <1>1, <1>2, FsNow DEF Busy
<1>8. OpOK'
  <2>1. CASE Added = "user"
    BY <1>1, <1>2, <1>7, <2>1, SimpleOp, NoCallFacts DEF disk
  <2>2. CASE Added # "user"
    BY <1>1, <1>2, <1>4, <1>7, <2>2 DEF FsInv, OpOK, HasInode, Labels, Special, New, Found, disk
  <2> QED BY <2>1, <2>2
<1>9. op' \in OpSet /\ op'.call # "undo" /\ (Added # "user" => op'.path # <<>>)
  BY <1>2, <1>4, NoCallFacts, OpFacts
<1> QED BY <1>1, <1>2, <1>6, <1>8, <1>9, ControlStep DEF OpSet, Labels

LEMMA EmptyTestStep ==
    ASSUME FsInv, EmptyTest
    PROVE  FsInv'
<1> DEFINE to == IF disk_inode[op.i_no].size = 2 THEN "bfree" ELSE "user"
<1>1. /\ pc[maker] = "empty" /\ pc' = [pc EXCEPT ![maker] = to] /\ op' = IF to = "user" THEN NoCall ELSE op
      /\ UNCHANGED <<disk, inode_lock, io>>
  BY DEF EmptyTest, MakerTo, Goto
<1>2. ~Busy /\ op.path # <<>> /\ op.call # "undo" /\ op.dir \in inode_bitmap \ {w_no, v_no}
  BY <1>1 DEF FsInv, PcOK, OpOK
<1>3. to \in {"bfree", "user"}
  OBVIOUS
<1> HIDE DEF to
<1>4. ~Busy' /\ pc'[maker] = to
  BY <1>1, <1>2, FsNow DEF Busy
<1>5. OpOK'
  <2>1. CASE to = "user"
    BY <1>1, <1>4, <2>1, SimpleOp, NoCallFacts DEF disk
  <2>2. CASE to = "bfree"
    BY <1>1, <1>2, <1>4, <2>2 DEF FsInv, OpOK, HasInode, Labels, Special, New, Found, disk, Name
  <2> QED BY <1>3, <2>1, <2>2
<1>6. op' \in OpSet /\ op'.call # "undo" /\ (to # "user" => op'.path # <<>>)
  BY <1>1, <1>2, NoCallFacts, OpFacts
<1> QED BY <1>1, <1>2, <1>3, <1>5, <1>6, ControlStep, FsNow DEF OpSet, Labels

-----------------------------------------------------------------------------
(* Files: block_modify() and the inode bitmap *)

\* What is asked for is not empty.
LEMMA AskedFacts ==
    ASSUME FsInv
    PROVE  /\ \A p \in Procs : [io EXCEPT ![p] = [phase |-> "asked", block |-> <<>>]]
                                  \in [Procs -> [phase : {"none", "asked", "read"}, block : Snapshots]]
           /\ \A p \in Procs : [io EXCEPT ![p] = [phase |-> "none", block |-> <<>>]]
                                  \in [Procs -> [phase : {"none", "asked", "read"}, block : Snapshots]]
<1>1. <<>> \in Snapshots
  BY DEF Snapshots
<1> QED BY <1>1, FsNow

\* A task inside block_modify() has an inode to write.
LEMMA IoTarget ==
    ASSUME FsInv, NEW p \in Procs, io[p].phase # "none"
    PROVE  Target(p) \in Inodes
<1>1. CASE p = maker
  BY <1>1, MakerTarget DEF Busy
<1>2. CASE p \in Writers
  <2>1. pc[p] = "grow"
    BY <1>2 DEF FsInv, PcOK
  <2> QED BY <1>2, <2>1, TargetIs, FsNow
<1> QED BY <1>1, <1>2 DEF Procs

LEMMA BlockReadStep ==
    ASSUME FsInv, NEW p \in Procs, BlockRead(p)
    PROVE  FsInv'
<1> DEFINE b == [j \in SameBlock(Target(p)) |-> table[j]]
           r == [phase |-> "read", block |-> b]
<1>1. /\ io[p].phase = "asked" /\ io' = [io EXCEPT ![p] = r]
      /\ UNCHANGED <<inode_bitmap, block_bitmap, disk_inode, table, entries, inode_lock, pc, op>>
  BY DEF BlockRead, disk
<1>2. Target(p) \in Inodes
  BY <1>1, IoTarget
<1>3. b \in [SameBlock(Target(p)) -> DiskInode]
  BY FsNow DEF SameBlock
<1>4. b \in Snapshots
  BY <1>2, <1>3 DEF Snapshots
<1> HIDE DEF b
<1>5. r \in [phase : {"none", "asked", "read"}, block : Snapshots] /\ r.phase = "read" /\ r.block = b
  BY <1>4
<1> HIDE DEF r
<1>6. /\ io' \in [Procs -> [phase : {"none", "asked", "read"}, block : Snapshots]]
      /\ io'[p] = r /\ \A q \in Procs : q # p => io'[q] = io[q]
  BY <1>1, <1>5, FsNow
<1>7. Busy' = Busy /\ \A q \in Procs : (io'[q].phase = "none") = (io[q].phase = "none")
  BY <1>1, <1>5, <1>6, FsNow DEF Busy
<1>8. /\ \A q : Target(q)' = Target(q)
      /\ \A i \in Inodes : SizeOf(i)' = SizeOf(i)
      /\ New' = New /\ Found' = Found /\ Name' = Name /\ NewDirent' = NewDirent /\ Unlinking' = Unlinking
      /\ \A i, n : Matching(i, n)' = Matching(i, n)
      /\ \A i, k : Link(i, k)' = Link(i, k)
  <2>1. \A q : Target(q)' = Target(q)
    BY <1>1 DEF Target
  <2>2. New' = New /\ Found' = Found /\ Unlinking' = Unlinking
    BY <1>1 DEF New, Found, Unlinking
  <2>3. Name' = Name /\ NewDirent' = NewDirent
    BY <1>1 DEF Name, NewDirent
  <2>4. \A i, n : Matching(i, n)' = Matching(i, n)
    BY <1>1 DEF Matching
  <2>5. \A i, k : Link(i, k)' = Link(i, k)
    BY <1>1 DEF Link
  <2> QED BY <1>1, <1>7, <2>1, <2>2, <2>3, <2>4, <2>5 DEF SizeOf
<1>9. TypesOK'
  BY <1>1, <1>6 DEF FsInv, TypesOK, TypeOK
<1>10. PcOK'
  <2>1. ASSUME NEW q \in Procs, io'[q].phase = "read"
        PROVE  io'[q].block \in [SameBlock(Target(q)') -> DiskInode]
    BY <1>3, <1>5, <1>6, <1>8, <2>1 DEF FsInv, PcOK
  <2>2. \A q \in Procs : io'[q].phase = "read" => io'[q].block \in [SameBlock(Target(q))' -> DiskInode]
    BY <2>1 DEF SameBlock
  <2> QED BY <1>1, <1>7, <2>2, FsNow DEF FsInv, PcOK
<1>11. OwnersOK'
  BY <1>1, OwnersSame DEF FsInv
<1>12. SizesOK'
  BY <1>1, <1>7, <1>8 DEF FsInv, SizesOK
<1>13. NamesOK' /\ LinksOK'
  BY <1>1, <1>8 DEF FsInv, NamesOK, LinksOK
<1>14. OpOK'
  BY <1>1, <1>7, <1>8 DEF FsInv, OpOK
<1>15. LocksOK'
  BY <1>1, <1>7, <1>8 DEF FsInv, LocksOK
<1> QED BY <1>9, <1>10, <1>11, <1>12, <1>13, <1>14, <1>15 DEF FsInv

\* PcOK after a step of the maker.
LEMMA PcStep ==
    ASSUME FsInv, NEW to \in Labels, pc' = [pc EXCEPT ![maker] = to],
           to # "user" => op'.path # <<>>,
           to \in {"user", "path", "stuck", "alloc", "empty", "bfree"} => ~Busy',
           to = "zero" => Busy',
           op'.call = "undo" => to \in {"bfree", "trunc"},
           \A p \in Writers : io'[p] = io[p],
           io'[maker].phase # "read"
    PROVE  PcOK'
<1>1. /\ pc'[maker] = to /\ \A p \in Writers : pc'[p] = pc[p]
  BY FsNow
<1>2. ASSUME NEW p \in Procs, io'[p].phase = "read"
      PROVE  io'[p].block \in [SameBlock(Target(p))' -> DiskInode]
  <2>1. p \in Writers /\ io'[p] = io[p]
    BY <1>2 DEF Procs
  <2>2. pc[p] = "grow" /\ pc'[p] = "grow"
    BY <1>1, <1>2, <2>1 DEF FsInv, PcOK
  <2>3. Target(p) = w_no /\ Target(p)' = w_no
    BY <2>2 DEF Target
  <2>4. SameBlock(Target(p))' = SameBlock(w_no)
    BY <2>3 DEF SameBlock
  <2>5. io[p].block \in [SameBlock(w_no) -> DiskInode]
    BY <1>2, <2>1, <2>3 DEF FsInv, PcOK
  <2> QED BY <2>1, <2>4, <2>5
<1> QED BY <1>1, <1>2 DEF FsInv, PcOK

LEMMA AllocInodeStep ==
    ASSUME FsInv, AllocInode
    PROVE  FsInv'
<1> DEFINE x == Min(Inodes \ inode_bitmap)
           o == [op EXCEPT !.i_no = x]
           r == [phase |-> "asked", block |-> <<>>]
<1>1. /\ pc[maker] = "alloc" /\ pc' = [pc EXCEPT ![maker] = "zero"] /\ op' = o
      /\ inode_bitmap' = inode_bitmap \cup {x} /\ io' = [io EXCEPT ![maker] = r]
      /\ UNCHANGED <<block_bitmap, disk_inode, table, entries, inode_lock>>
  BY DEF AllocInode, MakerTo, Goto
<1>2. x \in Inodes \ inode_bitmap
  <2>1. Inodes \ inode_bitmap # {} /\ Inodes \ inode_bitmap \subseteq Nat
    BY FsNow, FsAssumption DEF AllocInode
  <2> QED BY <2>1, MinFacts
<1> HIDE DEF x
<1>3. o \in OpSet /\ o.path = op.path /\ o.dir = op.dir /\ o.call = op.call /\ o.i_no = x
  BY <1>2, OpFacts
<1> HIDE DEF o
<1>4. /\ ~Busy /\ op.path # <<>> /\ op.call # "undo" /\ op.dir \in inode_bitmap \ {w_no, v_no}
      /\ Special \subseteq inode_bitmap /\ ~Unlinking
  BY <1>1 DEF FsInv, PcOK, OpOK, Unlinking
<1>5. r.phase = "asked"
  OBVIOUS
<1>6. io' \in [Procs -> [phase : {"none", "asked", "read"}, block : Snapshots]]
  BY <1>1, AskedFacts, FsNow
<1> HIDE DEF r
<1>7. /\ pc'[maker] = "zero" /\ (\A p \in Writers : pc'[p] = pc[p] /\ io'[p] = io[p])
      /\ pc' \in [Procs -> Labels \cup {"grow"}] /\ io'[maker] = r /\ Busy'
  BY <1>1, <1>5, FsNow DEF Busy, Labels
<1>8. Target(maker)' = x
  BY <1>1, <1>3, <1>7 DEF Target
<1>9. /\ disk_inode[x] = Empty /\ entries[x] = <<>> /\ x # w_no
      /\ \A i \in Inodes : SizeOf(i) = Len(entries[i]) /\ SizeOf(i)' = IF i = x THEN 0 ELSE Len(entries[i])
  <2>1. x # w_no /\ disk_inode[x] = Empty
    BY <1>1, <1>2, <1>4 DEF FsInv, SizesOK, Special
  <2>2. \A i \in Inodes : SizeOf(i) = Len(entries[i])
    BY <1>4 DEF SizeOf
  <2>3. Len(entries[x]) = 0 /\ entries[x] \in Seq(Dirent)
    BY <1>2, <2>1, <2>2, FsNow DEF FsInv, SizesOK, Empty
  <2>4. entries[x] = <<>>
    BY <2>3, EmptySeq
  <2>5. \A i \in Inodes : SizeOf(i)' = IF i = x THEN 0 ELSE Len(entries[i])
    BY <1>1, <1>7, <1>8 DEF SizeOf, Adding
  <2> QED BY <2>1, <2>2, <2>4, <2>5
<1>10. TypesOK'
  BY <1>1, <1>2, <1>3, <1>6, <1>7 DEF FsInv, TypesOK, TypeOK, OpSet
<1>11. PcOK'
  BY <1>1, <1>3, <1>4, <1>5, <1>7, PcStep DEF Labels
<1>12. OwnersOK'
  BY <1>1, OwnersSame DEF FsInv
<1>13. SizesOK'
  <2>1. Empty.size = 0
    BY DEF Empty
  <2> QED BY <1>1, <1>2, <1>3, <1>4, <1>7, <1>9, <2>1 DEF FsInv, SizesOK
<1>14. NamesOK'
  BY <1>1 DEF FsInv, NamesOK
<1>15. \A i \in Inodes : \A k \in Nat : Link(i, k) => entries[i][k].i_no \in inode_bitmap
  BY <1>4 DEF FsInv, LinksOK
<1>16. LinksOK'
  BY <1>1, <1>15 DEF FsInv, LinksOK, Link
<1>17. OpOK'
  <2>1. ~Found' /\ ~(pc'[maker] \in Adding)
    BY <1>7 DEF Found, Adding
  <2> QED BY <1>1, <1>2, <1>3, <1>4, <1>7, <1>15, <2>1 DEF OpOK, Link, Special
<1>18. LocksOK'
  BY <1>1, <1>7 DEF FsInv, LocksOK
<1> QED BY <1>10, <1>11, <1>12, <1>13, <1>14, <1>16, <1>17, <1>18 DEF FsInv

LEMMA FreeInodeStep ==
    ASSUME FsInv, FreeInode
    PROVE  FsInv'
<1>1. /\ pc[maker] = "bfree" /\ pc' = [pc EXCEPT ![maker] = "trunc"] /\ op' = op
      /\ inode_bitmap' = inode_bitmap \ {op.i_no}
      /\ UNCHANGED <<block_bitmap, disk_inode, table, entries, inode_lock, io>>
  BY DEF FreeInode, MakerTo, Goto
<1>2. /\ ~Busy /\ op.path # <<>> /\ op.dir \in inode_bitmap \ {w_no, v_no}
      /\ Special \subseteq inode_bitmap /\ op.i_no \notin Special /\ op.i_no # op.dir /\ ~Unlinking
  BY <1>1 DEF FsInv, PcOK, OpOK, Unlinking, HasInode, Labels
<1>3. /\ pc'[maker] = "trunc" /\ (\A p \in Writers : pc'[p] = pc[p] /\ io'[p] = io[p])
      /\ pc' \in [Procs -> Labels \cup {"grow"}] /\ ~Busy' /\ io'[maker].phase # "read"
  BY <1>1, <1>2, FsNow DEF Busy, Labels
<1>4. \A i \in Inodes : SizeOf(i) = Len(entries[i]) /\ SizeOf(i)' = Len(entries[i])
  BY <1>1, <1>2, <1>3 DEF SizeOf
<1>5. New' = New /\ Found' = Found /\ Unlinking' = (op.call # "undo")
  BY <1>1, <1>3 DEF New, Found, Unlinking
<1>6. TypesOK'
  BY <1>1, <1>3 DEF FsInv, TypesOK, TypeOK
<1>7. PcOK'
  BY <1>1, <1>2, <1>3, PcStep DEF Labels
<1>8. OwnersOK'
  BY <1>1, OwnersSame DEF FsInv
<1>9. SizesOK'
  BY <1>1, <1>3, <1>4 DEF FsInv, SizesOK
<1>10. NamesOK'
  BY <1>1 DEF FsInv, NamesOK
<1>11. LinksOK'
  <2>1. ASSUME NEW i \in Inodes, NEW k \in Nat, Link(i, k)
        PROVE  entries[i][k].i_no \in inode_bitmap' \/ (Unlinking' /\ entries[i][k].i_no = op'.i_no)
    <3>1. entries[i][k].i_no \in inode_bitmap
      BY <1>2, <2>1 DEF FsInv, LinksOK
    <3>2. op.call = "undo" => New
      BY <1>1 DEF New
    <3>3. op.call = "undo" => entries[i][k].i_no # op.i_no
      BY <2>1, <3>2 DEF FsInv, OpOK
    <3> QED BY <1>1, <1>5, <3>1, <3>3
  <2>2. \A i, k : Link(i, k)' = Link(i, k)
    BY <1>1 DEF Link
  <2> QED BY <1>1, <2>1, <2>2 DEF FsInv, LinksOK
<1>12. OpOK'
  <2>1. \A i, k : Link(i, k)' = Link(i, k)
    BY <1>1 DEF Link
  <2>2. Name' = Name /\ pc'[maker] \notin Adding
    BY <1>1, <1>3 DEF Name, Adding
  <2>3. New' => \A i \in Inodes : \A k \in Nat : Link(i, k)' => entries'[i][k].i_no # op'.i_no
    BY <1>1, <1>5, <2>1 DEF FsInv, OpOK
  <2>4. Found' => \E k \in DOMAIN entries'[op'.dir] :
                     entries'[op'.dir][k].filename = Name' /\ entries'[op'.dir][k].i_no = op'.i_no
    BY <1>1, <1>5, <2>2 DEF FsInv, OpOK
  <2> QED BY <1>1, <1>2, <1>3, <2>2, <2>3, <2>4 DEF OpOK, HasInode, Labels, Special
<1>13. LocksOK'
  BY <1>1, <1>3 DEF FsInv, LocksOK
<1> QED BY <1>6, <1>7, <1>8, <1>9, <1>10, <1>11, <1>12, <1>13 DEF FsInv

-----------------------------------------------------------------------------
(* Files: inode_size_change() *)

\* The maker asks for a new size of a directory, or of the file that it removes.
LEMMA StartStep ==
    ASSUME FsInv, ~Busy, pc[maker] \in Adding \cup {"trunc", "del", "retype"},
           UNCHANGED <<inode_bitmap, table, entries, pc, op>>,
           NEW size \in 0..NDIRECT * PerBlock,
           DIV_ROUND_UP(size) - Len(disk_inode[Target(maker)].direct) <= Cardinality(Free),
           inode_size_change(maker, Target(maker), size), Lock(maker, Target(maker)),
           pc[maker] \in Adding => size = Len(entries[Target(maker)]) + 1
                                   /\ Matching(Target(maker), NewDirent.filename) = {},
           pc[maker] \in {"del", "retype"} => size = Len(entries[Target(maker)]) - 1,
           pc[maker] = "trunc" => size = 0
    PROVE  FsInv'
<1> DEFINE d == Target(maker)
           r == [phase |-> "asked", block |-> <<>>]
<1>1. /\ op.dir \in inode_bitmap \ {w_no, v_no} /\ op.i_no \notin Special
      /\ d \in {op.dir, op.i_no} /\ (pc[maker] # "trunc" => d \in inode_bitmap)
      /\ (pc[maker] = "trunc" => d = op.i_no)
  <2>1. op.dir \in inode_bitmap \ {w_no, v_no} /\ op.i_no \notin Special
    BY DEF FsInv, OpOK, HasInode, Labels, Adding
  <2>2. /\ d \in {op.dir, op.i_no} /\ (pc[maker] = "trunc" => d = op.i_no)
        /\ d = op.dir \/ pc[maker] \in {"dot", "ddot", "trunc"}
    BY TargetIs DEF Adding
  <2>3. pc[maker] \in {"dot", "ddot"} => op.i_no \in inode_bitmap
    BY DEF FsInv, OpOK, HasInode, Labels
  <2> QED BY <2>1, <2>2, <2>3
<1>2. d \in Inodes /\ d # w_no
  BY <1>1, FsNow DEF Special
<1>3. /\ block_bitmap' \subseteq Blocks /\ disk_inode' \in [Inodes -> DiskInode] /\ OwnersOK'
      /\ disk_inode'[d].size = size /\ \A j \in Inodes \ {d} : disk_inode'[j] = disk_inode[j]
      /\ size = 0 => disk_inode'[d] = Empty
  BY <1>2, SizeChanged, FsNow DEF FsInv, TypesOK
<1>4. io' = [io EXCEPT ![maker] = r]
  BY DEF inode_size_change
<1>5. io' \in [Procs -> [phase : {"none", "asked", "read"}, block : Snapshots]]
  BY <1>4, AskedFacts, FsNow
<1>6. Busy' /\ io'[maker].phase = "asked" /\ \A p \in Writers : io'[p] = io[p]
  BY <1>4, FsNow DEF Busy
<1>7. inode_lock' = [inode_lock EXCEPT ![d] = maker]
  BY DEF Lock
<1>8. /\ inode_lock' \in [Inodes -> Procs \cup {NULL}] /\ inode_lock'[w_no] = inode_lock[w_no]
      /\ inode_lock'[d] = maker
  BY <1>2, <1>7, FsNow
<1>9. /\ Target(maker)' = d /\ NewDirent' = NewDirent /\ Name' = Name /\ New' = New /\ Found' = Found
      /\ Unlinking' = Unlinking
      /\ \A i, n : Matching(i, n)' = Matching(i, n)
      /\ \A i, k : Link(i, k)' = Link(i, k)
  <2>1. Target(maker)' = d
    BY DEF Target
  <2>2. NewDirent' = NewDirent /\ Name' = Name
    BY DEF NewDirent, Name
  <2>3. New' = New /\ Found' = Found /\ Unlinking' = Unlinking
    BY DEF New, Found, Unlinking
  <2>4. (\A i, n : Matching(i, n)' = Matching(i, n)) /\ (\A i, k : Link(i, k)' = Link(i, k))
    BY DEF Matching, Link
  <2> QED BY <2>1, <2>2, <2>3, <2>4
<1>10. /\ \A i \in Inodes : SizeOf(i) = Len(entries[i])
       /\ \A i \in Inodes \ {d} : SizeOf(i)' = Len(entries[i])
       /\ \A i \in Inodes : i = d => SizeOf(i)' = size
  <2>1. \A i \in Inodes : SizeOf(i) = Len(entries[i])
    BY DEF SizeOf
  <2>2. \A i \in Inodes \ {d} : SizeOf(i)' = Len(entries[i])
    BY <1>9 DEF SizeOf
  <2>3. \A i \in Inodes : i = d => SizeOf(i)' = size
    BY <1>6, <1>9 DEF SizeOf, Adding
  <2> QED BY <2>1, <2>2, <2>3
<1> HIDE DEF d, r
<1>11. TypesOK'
  BY <1>3, <1>5, <1>8 DEF FsInv, TypesOK, TypeOK
<1>12. PcOK'
  <2>1. pc' = [pc EXCEPT ![maker] = pc[maker]] /\ pc[maker] \in Labels
    BY FsNow
  <2>2. op'.path # <<>> /\ (op'.call = "undo" => pc[maker] \in {"bfree", "trunc"})
    BY DEF FsInv, PcOK, Adding
  <2>3. pc[maker] \notin {"user", "path", "stuck", "alloc", "empty", "bfree", "zero"}
    BY DEF Adding
  <2> QED BY <1>6, <2>1, <2>2, <2>3, PcStep
<1>13. SizesOK'
  <2>1. \A i \in Inodes \ {w_no} : disk_inode'[i].size = SizeOf(i)'
    <3>1. \A i \in Inodes \ {w_no} : disk_inode[i].size = Len(entries[i])
      BY <1>10 DEF FsInv, SizesOK
    <3>2. ASSUME NEW i \in Inodes \ {w_no}, i # d PROVE disk_inode'[i].size = SizeOf(i)'
      BY <1>3, <1>10, <3>1, <3>2
    <3>3. ASSUME NEW i \in Inodes, i = d PROVE disk_inode'[i].size = SizeOf(i)'
      BY <1>3, <1>10, <3>3
    <3> QED BY <3>2, <3>3
  <2>2. ASSUME NEW i \in Inodes \ inode_bitmap' PROVE disk_inode'[i] = Empty
    <3>1. CASE i = d
      BY <1>1, <1>3, <2>2, <3>1
    <3>2. CASE i # d
      BY <1>1, <1>3, <2>2, <3>2 DEF FsInv, SizesOK
    <3> QED BY <3>1, <3>2
  <2>3. pc'[maker] # "zero"
    BY DEF Adding
  <2> QED BY <2>1, <2>2, <2>3 DEF SizesOK
<1>14. NamesOK' /\ LinksOK'
  BY <1>9 DEF FsInv, NamesOK, LinksOK
<1>15. OpOK'
  <2>1. Busy' /\ pc'[maker] \in Adding => Matching(Target(maker), NewDirent.filename)' = {}
    BY <1>9 DEF d
  <2> QED BY <1>9, <2>1 DEF FsInv, OpOK
<1>16. LocksOK'
  BY <1>8, <1>9 DEF FsInv, LocksOK
<1> QED BY <1>3, <1>11, <1>12, <1>13, <1>14, <1>15, <1>16 DEF FsInv

LEMMA MaxSize == NDIRECT * PerBlock \in Nat
<1>1. NDIRECT \in Nat /\ PerBlock \in Nat
  BY FsAssumption
<1> QED BY <1>1

\* The blocks that are free can be counted.
LEMMA FreeFinite == IsFiniteSet(Free) /\ Cardinality(Free) \in Nat
<1>1. IsFiniteSet(Blocks)
  BY FsAssumption, FS_Interval DEF Blocks
<1>2. IsFiniteSet(Free)
  BY <1>1, FS_Subset DEF Free
<1> QED BY <1>2, FS_CardinalityType

\* A directory that nobody writes is as long as its inode says.
LEMMA DirSize ==
    ASSUME FsInv, ~Busy, NEW i \in Inodes \ {w_no}
    PROVE  /\ disk_inode[i].size = Len(entries[i]) /\ disk_inode[i].size \in 0..NDIRECT * PerBlock
           /\ Len(disk_inode[i].direct) = DIV_ROUND_UP(disk_inode[i].size)
<1>1. disk_inode[i] \in DiskInode
  BY FsNow
<1> QED BY <1>1 DEF FsInv, SizesOK, SizeOf, OwnersOK, DiskInode

LEMMA AddStartStep ==
    ASSUME FsInv, AddStart
    PROVE  FsInv'
<1> DEFINE d == Target(maker)
           size == disk_inode[d].size + 1
<1>1. /\ pc[maker] \in Adding /\ ~Busy /\ ~CannotAdd /\ Lock(maker, d)
      /\ inode_size_change(maker, d, size) /\ UNCHANGED <<inode_bitmap, table, entries, pc, op>>
  BY DEF AddStart, NoIo, Busy
<1>2. d \in Inodes \ {w_no}
  <2>1. op.dir \in Inodes \ {w_no} /\ op.i_no \in Inodes \ {w_no}
    BY <1>1, FsNow DEF FsInv, OpOK, HasInode, Labels, Adding, Special
  <2> QED BY <1>1, <2>1, TargetIs DEF Adding
<1>3. /\ Matching(d, NewDirent.filename) = {} /\ ~(size > NDIRECT * PerBlock)
      /\ ~(DIV_ROUND_UP(size) - Len(disk_inode[d].direct) > Cardinality(Free))
  BY <1>1 DEF CannotAdd, NoRoom, TooBig
<1>4. disk_inode[d].size = Len(entries[d]) /\ disk_inode[d].size \in 0..NDIRECT * PerBlock
      /\ disk_inode[d].direct \in Seq(Blocks)
  <2>1. disk_inode[d] \in DiskInode
    BY <1>2, FsNow
  <2> QED BY <1>1, <1>2, <2>1, DirSize DEF DiskInode
<1>5. size \in 0..NDIRECT * PerBlock /\ size = Len(entries[d]) + 1 /\ size \in Nat
  <2> DEFINE N == NDIRECT * PerBlock
             m == disk_inode[d].size
  <2>1. N \in Nat
    BY MaxSize
  <2> HIDE DEF N, m
  <2>2. ~(m + 1 > N) /\ m \in 0..N /\ m = Len(entries[d])
    BY <1>3, <1>4 DEF N, m
  <2>3. m + 1 \in 0..N /\ m + 1 \in Nat
    BY <2>1, <2>2
  <2> QED BY <2>2, <2>3 DEF N, m
<1>6. DIV_ROUND_UP(size) - Len(disk_inode[d].direct) <= Cardinality(Free)
  <2>1. DIV_ROUND_UP(size) \in Nat /\ Cardinality(Free) \in Nat /\ Len(disk_inode[d].direct) \in Nat
    <3>1. Len(disk_inode[d].direct) \in Nat
      BY <1>4
    <3>2. size \in Nat
      BY <1>5
    <3> HIDE DEF size, d
    <3>3. DIV_ROUND_UP(size) \in Nat
      BY <3>2, RoundUp
    <3> QED BY <3>1, <3>3, FreeFinite
  <2> HIDE DEF size, d
  <2> QED BY <1>3, <2>1
<1>7. pc[maker] \notin {"del", "retype", "trunc"}
  BY <1>1 DEF Adding
<1> HIDE DEF size
<1> QED BY <1>1, <1>3, <1>5, <1>6, <1>7, StartStep

LEMMA TruncStartStep ==
    ASSUME FsInv, TruncStart
    PROVE  FsInv'
<1>1. /\ pc[maker] = "trunc" /\ ~Busy /\ Lock(maker, op.i_no)
      /\ inode_size_change(maker, op.i_no, 0) /\ UNCHANGED <<inode_bitmap, table, entries, pc, op>>
  BY DEF TruncStart, NoIo, Busy
<1>2. Target(maker) = op.i_no /\ op.i_no \in Inodes
  BY <1>1, TargetIs, FsNow
<1>3. 0 \in 0..NDIRECT * PerBlock
  BY FsAssumption
<1>4. DIV_ROUND_UP(0) - Len(disk_inode[Target(maker)].direct) <= Cardinality(Free)
  <2>1. DIV_ROUND_UP(0) = 0
    BY RoundUp
  <2>2. disk_inode[op.i_no] \in DiskInode
    BY <1>2, FsNow
  <2>3. disk_inode[op.i_no].direct \in Seq(Blocks)
    BY <2>2 DEF DiskInode
  <2>4. Len(disk_inode[op.i_no].direct) \in Nat
    BY <2>3
  <2> QED BY <1>2, <2>1, <2>4, FreeFinite
<1>5. pc[maker] \notin Adding \cup {"del", "retype"}
  BY <1>1 DEF Adding
<1> QED BY <1>1, <1>2, <1>3, <1>4, <1>5, StartStep

LEMMA DelStartStep ==
    ASSUME FsInv, DelStart
    PROVE  FsInv'
<1> DEFINE d == op.dir
           size == disk_inode[d].size - 1
<1>1. /\ pc[maker] \in {"del", "retype"} /\ ~Busy /\ Lock(maker, d) /\ Matching(d, Name) # {}
      /\ inode_size_change(maker, d, size) /\ UNCHANGED <<inode_bitmap, table, entries, pc, op>>
  BY DEF DelStart, NoIo, Busy
<1>2. d \in Inodes \ {w_no} /\ Target(maker) = d
  BY <1>1, TargetIs, FsNow DEF FsInv, OpOK
<1>3. /\ disk_inode[d].size = Len(entries[d]) /\ disk_inode[d].size \in 0..NDIRECT * PerBlock
      /\ Len(disk_inode[d].direct) = DIV_ROUND_UP(disk_inode[d].size)
  BY <1>1, <1>2, DirSize
<1>4. Len(entries[d]) >= 1 /\ Len(entries[d]) \in Nat
  BY <1>1, <1>2, EntryFacts DEF Matching
<1>5. /\ size \in 0..NDIRECT * PerBlock /\ size = Len(entries[d]) - 1 /\ size \in Nat
      /\ size <= disk_inode[d].size /\ disk_inode[d].size \in Nat
  <2> DEFINE N == NDIRECT * PerBlock
             m == disk_inode[d].size
  <2>1. N \in Nat
    BY MaxSize
  <2> HIDE DEF N, m
  <2>2. m \in 0..N /\ m = Len(entries[d]) /\ m >= 1
    BY <1>3, <1>4 DEF N, m
  <2>3. m - 1 \in 0..N /\ m - 1 \in Nat /\ m - 1 <= m /\ m \in Nat
    BY <2>1, <2>2
  <2> QED BY <2>2, <2>3 DEF N, m
<1>6. DIV_ROUND_UP(size) - Len(disk_inode[d].direct) <= Cardinality(Free)
  <2>1. /\ DIV_ROUND_UP(size) \in Nat /\ Cardinality(Free) \in Nat
        /\ DIV_ROUND_UP(disk_inode[d].size) \in Nat
        /\ DIV_ROUND_UP(size) <= DIV_ROUND_UP(disk_inode[d].size)
    <3> HIDE DEF size
    <3> QED BY <1>5, RoundUp, FreeFinite
  <2> HIDE DEF size, d
  <2> QED BY <1>3, <2>1
<1>7. pc[maker] \notin Adding /\ pc[maker] # "trunc"
  BY <1>1 DEF Adding
<1> HIDE DEF size, d
<1> QED BY <1>1, <1>2, <1>5, <1>6, <1>7, StartStep

-----------------------------------------------------------------------------
(* Files: the ends of block_modify() *)

\* What block_modify() leaves behind.
LEMMA WrittenFacts ==
    ASSUME FsInv, NEW p \in Procs, NEW val \in DiskInode, BlockWritten(p, val)
    PROVE  /\ io[p].phase = "read" /\ table' \in [Inodes -> DiskInode]
           /\ io[p].block \in [SameBlock(Target(p)) -> DiskInode]
           /\ \A j \in Inodes : table'[j] = IF j = Target(p) THEN val
                                            ELSE IF j \in SameBlock(Target(p)) THEN io[p].block[j]
                                            ELSE table[j]
           /\ io' \in [Procs -> [phase : {"none", "asked", "read"}, block : Snapshots]]
           /\ io'[p].phase = "none" /\ \A q \in Procs \ {p} : io'[q] = io[q]
<1> DEFINE f(j) == CASE j = Target(p) -> val
                     [] j # Target(p) /\ j \in DOMAIN io[p].block -> io[p].block[j]
                     [] OTHER -> table[j]
<1>1. /\ io[p].phase = "read" /\ table' = [j \in Inodes |-> f(j)]
      /\ io' = [io EXCEPT ![p] = [phase |-> "none", block |-> <<>>]]
  BY DEF BlockWritten
<1>2. io[p].block \in [SameBlock(Target(p)) -> DiskInode]
  BY <1>1 DEF FsInv, PcOK
<1>3. \A j \in Inodes : f(j) = IF j = Target(p) THEN val
                                ELSE IF j \in SameBlock(Target(p)) THEN io[p].block[j]
                                ELSE table[j]
  BY <1>2
<1>4. \A j \in Inodes : f(j) \in DiskInode
  BY <1>2, <1>3, FsNow
<1> HIDE DEF f
<1>5. table' \in [Inodes -> DiskInode] /\ \A j \in Inodes : table'[j] = f(j)
  BY <1>1, <1>4
<1>6. io' \in [Procs -> [phase : {"none", "asked", "read"}, block : Snapshots]]
  BY <1>1, AskedFacts
<1>7. io'[p].phase = "none" /\ \A q \in Procs \ {p} : io'[q] = io[q]
  BY <1>1, FsNow
<1> QED BY <1>1, <1>2, <1>3, <1>5, <1>6, <1>7

\* The maker has written its inode and goes on with the entries of the directory.
LEMMA DoneStep ==
    ASSUME FsInv, NEW val \in DiskInode, BlockWritten(maker, val),
           UNCHANGED <<inode_bitmap, block_bitmap, disk_inode>>,
           NEW to \in Labels \ {"zero"}, pc' = [pc EXCEPT ![maker] = to], op' \in OpSet,
           to # "user" => op'.path # <<>>,
           op'.call = "undo" => to \in {"bfree", "trunc"},
           inode_lock' \in [Inodes -> Procs \cup {NULL}], inode_lock'[w_no] = inode_lock[w_no],
           entries' \in [Inodes -> Seq(Dirent)],
           \A i \in Inodes \ {w_no} : disk_inode[i].size = Len(entries'[i]),
           NamesOK', LinksOK', OpOK'
    PROVE  FsInv'
<1>1. /\ io[maker].phase = "read" /\ table' \in [Inodes -> DiskInode]
      /\ io' \in [Procs -> [phase : {"none", "asked", "read"}, block : Snapshots]]
      /\ io'[maker].phase = "none" /\ \A q \in Procs \ {maker} : io'[q] = io[q]
  BY WrittenFacts, FsNow
<1>2. Busy /\ ~Busy' /\ \A q \in Writers : io'[q] = io[q]
  BY <1>1, FsNow DEF Busy
<1>3. pc'[maker] = to /\ pc' \in [Procs -> Labels \cup {"grow"}] /\ \A p \in Writers : pc'[p] = pc[p]
  BY FsNow
<1>4. \A i \in Inodes : SizeOf(i)' = Len(entries'[i])
  BY <1>2 DEF SizeOf
<1>5. TypesOK'
  <2>1. ASSUME NEW i \in Inodes, NEW k \in DOMAIN entries'[i] PROVE entries'[i][k].i_no \in Inodes
    <3>1. entries'[i] \in Seq(Dirent)
      OBVIOUS
    <3>2. entries'[i][k] \in Dirent
      BY <2>1, <3>1
    <3> QED BY <3>2 DEF Dirent
  <2> QED BY <1>1, <1>3, <2>1 DEF FsInv, TypesOK, TypeOK, OpSet
<1>6. PcOK'
  BY <1>1, <1>2, PcStep
<1>7. OwnersOK'
  BY OwnersSame DEF FsInv
<1>8. SizesOK'
  BY <1>2, <1>3, <1>4 DEF FsInv, SizesOK
<1>9. LocksOK'
  BY <1>2, <1>3 DEF FsInv, LocksOK
<1> QED BY <1>5, <1>6, <1>7, <1>8, <1>9 DEF FsInv

LEMMA ZeroDoneStep ==
    ASSUME FsInv, ZeroDone
    PROVE  FsInv'
<1>1. /\ pc[maker] = "zero" /\ pc' = [pc EXCEPT ![maker] = "add"] /\ op' = op
      /\ BlockWritten(maker, Empty) /\ disk_inode' = [disk_inode EXCEPT ![op.i_no] = Empty]
      /\ UNCHANGED <<inode_bitmap, block_bitmap, entries, inode_lock>>
  BY DEF ZeroDone, MakerTo, Goto
<1>2. disk_inode' = disk_inode
  <2>1. disk_inode[op.i_no] = Empty /\ op.i_no \in Inodes
    BY <1>1, FsNow DEF FsInv, SizesOK
  <2> QED BY <1>1, <2>1, FsNow
<1>3. Empty \in DiskInode /\ Empty.size = 0
  <2>1. <<>> \in Seq(Blocks) /\ 0 \in 0..NDIRECT * PerBlock
    BY MaxSize
  <2> QED BY <2>1 DEF Empty, DiskInode
<1>4. /\ op.path # <<>> /\ op.call # "undo" /\ op \in OpSet
  BY <1>1, OpFacts DEF FsInv, PcOK
<1>5. \A i \in Inodes \ {w_no} : disk_inode[i].size = Len(entries'[i])
  <2>1. disk_inode[op.i_no] = Empty /\ entries[op.i_no] = <<>>
    BY <1>1 DEF FsInv, SizesOK
  <2>2. \A i \in Inodes \ {op.i_no} : SizeOf(i) = Len(entries[i])
    BY <1>1, TargetIs DEF SizeOf
  <2>3. \A i \in Inodes \ {w_no, op.i_no} : disk_inode[i].size = Len(entries[i])
    BY <2>2 DEF FsInv, SizesOK
  <2>4. Len(<<>>) = 0
    BY EmptySeq
  <2>5. disk_inode[op.i_no].size = Len(entries[op.i_no])
    BY <1>3, <2>1, <2>4
  <2>6. ASSUME NEW i \in Inodes \ {w_no} PROVE disk_inode[i].size = Len(entries[i])
    BY <2>3, <2>5
  <2> QED BY <1>1, <2>6
<1>6. NamesOK' /\ LinksOK'
  <2>1. \A i, k : Link(i, k)' = Link(i, k)
    BY <1>1 DEF Link
  <2>2. ~Unlinking
    BY <1>1 DEF Unlinking
  <2> QED BY <1>1, <2>1, <2>2 DEF FsInv, NamesOK, LinksOK
<1>7. OpOK'
  <2>1. \A i, k : Link(i, k)' = Link(i, k)
    BY <1>1 DEF Link
  <2>2. pc'[maker] = "add" /\ New /\ New' /\ ~Found'
    BY <1>1, FsNow DEF New, Found
  <2>3. ~Busy'
    BY <1>1, <1>3, WrittenFacts, FsNow DEF Busy
  <2> QED BY <1>1, <2>1, <2>2, <2>3 DEF FsInv, OpOK, HasInode, Labels
<1> QED BY <1>1, <1>2, <1>3, <1>4, <1>5, <1>6, <1>7, DoneStep, FsNow DEF Labels

\* Sizes while the maker writes its inode.
LEMMA BusySizes ==
    ASSUME FsInv, Busy
    PROVE  /\ \A i \in Inodes \ {w_no, Target(maker)} : disk_inode[i].size = Len(entries[i])
           /\ pc[maker] \in Adding => disk_inode[Target(maker)].size = Len(entries[Target(maker)]) + 1
           /\ pc[maker] \in {"del", "retype"} => disk_inode[Target(maker)].size = Len(entries[Target(maker)]) - 1
           /\ pc[maker] = "trunc" => disk_inode[Target(maker)].size = 0
<1>1. Target(maker) \in Inodes \ {w_no}
  BY MakerTarget
<1>2. \A i \in Inodes \ {w_no} : disk_inode[i].size = SizeOf(i)
  BY DEF FsInv, SizesOK
<1>3. \A i \in Inodes : i # Target(maker) => SizeOf(i) = Len(entries[i])
  BY DEF SizeOf
<1>4. pc[maker] \in Adding => SizeOf(Target(maker)) = Len(entries[Target(maker)]) + 1
  BY DEF SizeOf, Adding
<1>5. pc[maker] \in {"del", "retype"} => SizeOf(Target(maker)) = Len(entries[Target(maker)]) - 1
  BY DEF SizeOf, Adding
<1>6. pc[maker] = "trunc" => SizeOf(Target(maker)) = 0
  BY DEF SizeOf, Adding
<1> QED BY <1>1, <1>2, <1>3, <1>4, <1>5, <1>6

LEMMA TruncDoneStep ==
    ASSUME FsInv, TruncDone
    PROVE  FsInv'
<1> DEFINE to == IF op.call = "undo" THEN "user" ELSE "del"
<1>1. /\ pc[maker] = "trunc" /\ pc' = [pc EXCEPT ![maker] = to] /\ op' = IF to = "user" THEN NoCall ELSE op
      /\ BlockWritten(maker, Empty) /\ entries' = [entries EXCEPT ![op.i_no] = <<>>]
      /\ inode_lock' = [i \in Inodes |->
              IF i = op.i_no \/ (op.call = "undo" /\ i = op.dir) THEN NULL ELSE inode_lock[i]]
      /\ UNCHANGED <<inode_bitmap, block_bitmap, disk_inode>>
  BY DEF TruncDone, MakerTo, Goto
<1>2. Empty \in DiskInode
  <2>1. <<>> \in Seq(Blocks) /\ 0 \in 0..NDIRECT * PerBlock
    BY MaxSize
  <2> QED BY <2>1 DEF Empty, DiskInode
<1>3. /\ op.i_no \in Inodes \ Special /\ op.dir \in inode_bitmap \ {w_no, v_no} /\ op.i_no # op.dir
      /\ op.path # <<>> /\ op \in OpSet /\ Target(maker) = op.i_no
  BY <1>1, OpFacts, FsNow, TargetIs DEF FsInv, PcOK, OpOK, HasInode, Labels
<1>4. Busy /\ ~Busy'
  BY <1>1, <1>2, WrittenFacts, FsNow DEF Busy
<1>5. entries' \in [Inodes -> Seq(Dirent)] /\ entries'[op.i_no] = <<>>
      /\ \A i \in Inodes \ {op.i_no} : entries'[i] = entries[i]
  <2>1. <<>> \in Seq(Dirent)
    OBVIOUS
  <2> QED BY <1>1, <1>3, <2>1, FsNow
<1>6. \A i \in Inodes \ {w_no} : disk_inode[i].size = Len(entries'[i])
  <2>1. /\ \A i \in Inodes \ {w_no, op.i_no} : disk_inode[i].size = Len(entries[i])
        /\ disk_inode[op.i_no].size = 0
    BY <1>1, <1>3, <1>4, BusySizes
  <2>2. Len(<<>>) = 0
    BY EmptySeq
  <2>3. Len(entries'[op.i_no]) = 0
    BY <1>5, <2>2
  <2>4. ASSUME NEW i \in Inodes \ {w_no}, i # op.i_no PROVE disk_inode[i].size = Len(entries'[i])
    BY <1>5, <2>1, <2>4
  <2> QED BY <2>1, <2>3, <2>4
<1>7. to \in {"user", "del"} /\ (to = "user" <=> op.call = "undo")
  OBVIOUS
<1> HIDE DEF to
<1>8. pc'[maker] = to
  BY <1>1, FsNow
<1>9. /\ \A i \in Inodes : \A k \in DOMAIN entries'[i] : i # op.i_no /\ entries'[i] = entries[i]
      /\ \A i \in Inodes : \A k \in Nat : Link(i, k)' => Link(i, k) /\ i # op.i_no /\ entries'[i] = entries[i]
  <2>1. \A i \in Inodes : \A k \in DOMAIN entries'[i] : i # op.i_no /\ entries'[i] = entries[i]
    BY <1>5
  <2> QED BY <2>1 DEF Link
<1>10. NamesOK'
  BY <1>9 DEF FsInv, NamesOK
<1>11. LinksOK'
  <2>1. ASSUME NEW i \in Inodes, NEW k \in Nat, Link(i, k)'
        PROVE  entries'[i][k].i_no \in inode_bitmap' \/ (Unlinking' /\ entries'[i][k].i_no = op'.i_no)
    <3>1. Link(i, k) /\ entries'[i] = entries[i]
      BY <1>9, <2>1
    <3>2. entries[i][k].i_no \in inode_bitmap \/ (Unlinking /\ entries[i][k].i_no = op.i_no)
      BY <3>1 DEF FsInv, LinksOK
    <3>3. Unlinking => Unlinking' /\ op' = op
      BY <1>1, <1>7, <1>8 DEF Unlinking
    <3> QED BY <1>1, <3>1, <3>2, <3>3
  <2>2. ASSUME NEW i \in Inodes, NEW k \in Nat, Link(i, k)'
        PROVE  entries'[i][k].i_no # i
    BY <1>9, <2>2 DEF FsInv, LinksOK
  <2>3. ASSUME NEW i \in Inodes, NEW j \in Inodes, NEW k \in Nat, NEW l \in Nat,
               Link(i, k)', Link(j, l)', entries'[i][k].i_no = entries'[j][l].i_no
        PROVE  i = j /\ k = l
    <3>1. /\ Link(i, k) /\ entries'[i] = entries[i]
          /\ Link(j, l) /\ entries'[j] = entries[j]
      BY <1>9, <2>3
    <3> QED BY <2>3, <3>1 DEF FsInv, LinksOK
  <2> QED BY <2>1, <2>2, <2>3 DEF LinksOK
<1>12. OpOK'
  <2>1. CASE to = "user"
    BY <1>1, <1>4, <1>8, <2>1, SimpleOp, NoCallFacts
  <2>2. CASE to = "del"
    <3>1. op' = op /\ Name' = Name /\ Found /\ ~New' /\ entries'[op.dir] = entries[op.dir]
      BY <1>1, <1>3, <1>5, <1>7, <1>8, <2>2, FsNow DEF Name, Found, New
    <3>2. op.i_no \notin inode_bitmap
      BY <1>1 DEF FsInv, OpOK
    <3>3. \E k \in DOMAIN entries'[op'.dir] :
             entries'[op'.dir][k].filename = Name' /\ entries'[op'.dir][k].i_no = op'.i_no
      BY <3>1 DEF FsInv, OpOK
    <3>4. Special \subseteq inode_bitmap
      BY DEF FsInv, OpOK
    <3> QED BY <1>1, <1>3, <1>4, <1>8, <2>2, <3>1, <3>2, <3>3, <3>4 DEF OpOK, HasInode, Special
  <2> QED BY <1>7, <2>1, <2>2
<1>13. op' \in OpSet /\ op'.call # "undo" /\ (to # "user" => op'.path # <<>>)
  BY <1>1, <1>3, <1>7, NoCallFacts
<1>14. inode_lock' \in [Inodes -> Procs \cup {NULL}] /\ inode_lock'[w_no] = inode_lock[w_no]
  BY <1>1, <1>3, FsNow DEF Special
<1> QED BY <1>1, <1>2, <1>5, <1>6, <1>7, <1>10, <1>11, <1>12, <1>13, <1>14, DoneStep DEF Labels

\* Append adds one entry at the end.
LEMMA AppendFacts ==
    ASSUME NEW S, NEW s \in Seq(S), NEW e \in S
    PROVE  /\ Append(s, e) \in Seq(S) /\ Len(Append(s, e)) = Len(s) + 1 /\ Len(s) \in Nat
           /\ DOMAIN Append(s, e) = 1..Len(s) + 1 /\ DOMAIN s = 1..Len(s)
           /\ \A k \in 1..Len(s) : Append(s, e)[k] = s[k]
           /\ Append(s, e)[Len(s) + 1] = e
OBVIOUS

\* What dirent_add() adds.
LEMMA NewDirentFacts ==
    ASSUME FsInv, pc[maker] \in Adding
    PROVE  /\ NewDirent \in Dirent
           /\ pc[maker] \in {"add", "readd"} => NewDirent.filename = Name /\ NewDirent.i_no = op.i_no
                                                /\ New /\ Target(maker) = op.dir
           /\ pc[maker] \in {"dot", "ddot"} => NewDirent.filename \in {".", ".."} /\ Target(maker) = op.i_no
           /\ NewDirent.filename = "." => NewDirent.i_no = op.i_no /\ pc[maker] = "dot"
           /\ NewDirent.filename \in Names => pc[maker] \in {"add", "readd"}
           /\ Name \in Names
<1>1. op.path # <<>> /\ op.path \in Seq(Names) /\ op.i_no \in Inodes /\ op.dir \in Inodes
  BY FsNow DEF FsInv, PcOK, Adding
<1>2. Name \in Names
  BY <1>1 DEF Name
<1>3. Name # "."
  BY <1>2 DEF Names
<1>4. CASE pc[maker] = "add"
  <2>1. NewDirent = [filename |-> Name, i_no |-> op.i_no, f_type |-> "FT_REG"]
    BY <1>4 DEF NewDirent
  <2> QED BY <1>1, <1>2, <1>3, <1>4, <2>1, TargetIs DEF Dirent, New
<1>5. CASE pc[maker] = "readd"
  <2>1. NewDirent = [filename |-> Name, i_no |-> op.i_no, f_type |-> "FT_DIR"]
    BY <1>5 DEF NewDirent
  <2> QED BY <1>1, <1>2, <1>3, <1>5, <2>1, TargetIs DEF Dirent, New
<1>6. CASE pc[maker] = "dot"
  <2>1. NewDirent = [filename |-> ".", i_no |-> op.i_no, f_type |-> "FT_DIR"]
    BY <1>6 DEF NewDirent
  <2> QED BY <1>1, <1>2, <1>3, <1>6, <2>1, TargetIs DEF Dirent, Names
<1>7. CASE pc[maker] = "ddot"
  <2>1. NewDirent = [filename |-> "..", i_no |-> op.dir, f_type |-> "FT_DIR"]
    BY <1>7 DEF NewDirent
  <2> QED BY <1>1, <1>2, <1>3, <1>7, <2>1, TargetIs DEF Dirent, Names
<1> QED BY <1>4, <1>5, <1>6, <1>7 DEF Adding

\* The entries of the directories after dirent_add().
LEMMA AddEntries ==
    ASSUME FsInv, AddDone
    PROVE  /\ Target(maker) \in Inodes \ {w_no} /\ NewDirent \in Dirent
           /\ entries' \in [Inodes -> Seq(Dirent)] /\ Len(entries[Target(maker)]) \in Nat
           /\ \A i \in Inodes \ {Target(maker)} : entries'[i] = entries[i]
           /\ Len(entries'[Target(maker)]) = Len(entries[Target(maker)]) + 1
           /\ DOMAIN entries'[Target(maker)] = 1..Len(entries[Target(maker)]) + 1
           /\ DOMAIN entries[Target(maker)] = 1..Len(entries[Target(maker)])
           /\ \A k \in 1..Len(entries[Target(maker)]) :
                 entries'[Target(maker)][k] = entries[Target(maker)][k]
           /\ entries'[Target(maker)][Len(entries[Target(maker)]) + 1] = NewDirent
<1> DEFINE d == Target(maker)
           n == Len(entries[d])
           e == NewDirent
<1>1. pc[maker] \in Adding /\ entries' = [entries EXCEPT ![d] = Append(entries[d], e)]
  BY DEF AddDone
<1>2. d \in Inodes \ {w_no}
  <2>1. d \in {op.dir, op.i_no}
    BY <1>1, TargetIs DEF Adding
  <2>2. op.i_no \in Inodes \ {w_no} /\ op.dir \in Inodes \ {w_no}
    BY <1>1, FsNow DEF FsInv, OpOK, HasInode, Labels, Adding, Special
  <2> QED BY <2>1, <2>2
<1>3. e \in Dirent
  BY <1>1, NewDirentFacts
<1> HIDE DEF e, d
<1> DEFINE s == entries[d]
           t == Append(s, e)
<1>4. s \in Seq(Dirent)
  BY <1>2, FsNow
<1>5. /\ t \in Seq(Dirent) /\ Len(t) = n + 1 /\ n \in Nat /\ DOMAIN t = 1..n + 1 /\ DOMAIN s = 1..n
      /\ \A k \in 1..n : t[k] = s[k]
      /\ t[n + 1] = e
  BY <1>3, <1>4, AppendFacts
<1> HIDE DEF t
<1>6. entries' \in [Inodes -> Seq(Dirent)] /\ entries'[d] = t /\ \A i \in Inodes \ {d} : entries'[i] = entries[i]
  BY <1>1, <1>2, <1>5, FsNow DEF t
<1> QED BY <1>2, <1>3, <1>5, <1>6 DEF d, e

LEMMA AddDoneStep ==
    ASSUME FsInv, AddDone
    PROVE  FsInv'
<1> DEFINE d == Target(maker)
           n == Len(entries[d])
           e == NewDirent
<1>1. /\ pc[maker] \in Adding /\ pc' = [pc EXCEPT ![maker] = Added]
      /\ op' = IF Added = "user" THEN NoCall ELSE op
      /\ BlockWritten(maker, disk_inode[d]) /\ entries' = [entries EXCEPT ![d] = Append(entries[d], e)]
      /\ inode_lock' \in {inode_lock, [inode_lock EXCEPT ![d] = NULL]}
      /\ UNCHANGED <<inode_bitmap, block_bitmap, disk_inode>>
  BY DEF AddDone, MakerTo, Goto, Unlock
<1>2. /\ op.i_no \in inode_bitmap \ Special /\ op.dir \in inode_bitmap \ {w_no, v_no} /\ op.i_no # op.dir
      /\ op.path # <<>> /\ op \in OpSet /\ op.call # "undo" /\ ~Unlinking
  BY <1>1, OpFacts DEF FsInv, PcOK, OpOK, HasInode, Labels, Adding, Unlinking
<1>3. d \in Inodes \ {w_no} /\ disk_inode[d] \in DiskInode
  BY AddEntries, FsNow
<1>4. Busy /\ ~Busy'
  BY <1>1, <1>3, WrittenFacts, FsNow DEF Busy
<1>5. /\ e \in Dirent /\ (\A k \in 1..n : entries[d][k].filename # e.filename)
      /\ pc[maker] \in {"add", "readd"} => e.filename = Name /\ e.i_no = op.i_no /\ New /\ d = op.dir
      /\ pc[maker] \in {"dot", "ddot"} => e.filename \in {".", ".."} /\ d = op.i_no
      /\ e.filename = "." => e.i_no = op.i_no /\ d = op.i_no
      /\ e.filename \in Names => pc[maker] \in {"add", "readd"}
  <2>1. Matching(d, e.filename) = {}
    BY <1>1, <1>4 DEF FsInv, OpOK
  <2>2. \A k \in 1..n : entries[d][k].filename # e.filename
    BY <1>3, <2>1, EntryFacts DEF Matching
  <2> QED BY <1>1, <2>2, NewDirentFacts
<1>6. /\ Added \in Labels \ {"zero"} /\ (Added # "user" => Added \in {"retype", "dot", "ddot"})
      /\ (Added = "retype" => pc[maker] = "add")
  BY <1>1 DEF Added, Adding, Labels
<1>7. pc'[maker] = Added
  BY <1>1, FsNow
<1> HIDE DEF e, d
<1>8. /\ entries' \in [Inodes -> Seq(Dirent)] /\ n \in Nat
      /\ \A i \in Inodes \ {d} : entries'[i] = entries[i]
      /\ DOMAIN entries'[d] = 1..n + 1 /\ DOMAIN entries[d] = 1..n /\ Len(entries'[d]) = n + 1
      /\ \A k \in 1..n : entries'[d][k] = entries[d][k]
      /\ entries'[d][n + 1] = e
  BY AddEntries DEF d, e
<1>9. \A i \in Inodes \ {w_no} : disk_inode[i].size = Len(entries'[i])
  <2>1. \A i \in Inodes \ {w_no, d} : disk_inode[i].size = Len(entries[i])
    BY <1>4, BusySizes DEF d
  <2>2. disk_inode[d].size = n + 1
    BY <1>1, <1>4, BusySizes DEF d
  <2>3. ASSUME NEW i \in Inodes \ {w_no}, i # d PROVE disk_inode[i].size = Len(entries'[i])
    BY <1>8, <2>1, <2>3
  <2> QED BY <1>8, <2>2, <2>3
<1> DEFINE g == n + 1
<1>10. /\ g \in Nat /\ g \notin 1..n /\ \A k \in 1..n + 1 : k \in 1..n \/ k = g
  BY <1>8
<1>11. DOMAIN entries'[d] = 1..n \cup {g} /\ entries'[d][g] = e /\ 1..n \subseteq Nat
  BY <1>8, <1>10
<1> HIDE DEF g, n
<1>12. NamesOK'
  <2>1. ASSUME NEW i \in Inodes, NEW j \in DOMAIN entries'[i], NEW k \in DOMAIN entries'[i],
               entries'[i][j].filename = entries'[i][k].filename
        PROVE  j = k
    <3>1. CASE i # d
      BY <1>8, <2>1, <3>1 DEF FsInv, NamesOK
    <3>2. CASE i = d
      <4>1. CASE j \in 1..n /\ k \in 1..n
        BY <1>8, <2>1, <3>2, <4>1 DEF FsInv, NamesOK
      <4>2. CASE j = g /\ k \in 1..n
        BY <1>5, <1>8, <1>11, <2>1, <3>2, <4>2 DEF n
      <4>3. CASE k = g /\ j \in 1..n
        BY <1>5, <1>8, <1>11, <2>1, <3>2, <4>3 DEF n
      <4> QED BY <1>11, <2>1, <3>2, <4>1, <4>2, <4>3
    <3> QED BY <3>1, <3>2
  <2>2. ASSUME NEW i \in Inodes, NEW k \in DOMAIN entries'[i]
        PROVE  /\ entries'[i][k].filename = "." => entries'[i][k].i_no = i
               /\ entries'[i][k].filename \in Names => entries'[i][k].i_no \notin Special
    <3>1. CASE i # d
      BY <1>8, <2>2, <3>1 DEF FsInv, NamesOK
    <3>2. CASE i = d /\ k \in 1..n
      BY <1>8, <2>2, <3>2 DEF FsInv, NamesOK
    <3>3. CASE i = d /\ k = g
      BY <1>2, <1>5, <1>11, <3>3
    <3> QED BY <1>11, <2>2, <3>1, <3>2, <3>3
  <2> QED BY <2>1, <2>2 DEF NamesOK
<1>13. \A i \in Inodes : \A k \in Nat : Link(i, k)' =>
            \/ Link(i, k) /\ entries'[i][k] = entries[i][k]
            \/ i = d /\ k = g /\ entries'[i][k] = e /\ pc[maker] \in {"add", "readd"}
  <2> SUFFICES ASSUME NEW i \in Inodes, NEW k \in Nat, Link(i, k)'
               PROVE  \/ Link(i, k) /\ entries'[i][k] = entries[i][k]
                      \/ i = d /\ k = g /\ entries'[i][k] = e /\ pc[maker] \in {"add", "readd"}
    OBVIOUS
  <2>1. k \in DOMAIN entries'[i] /\ entries'[i][k].filename \notin {".", ".."}
    BY DEF Link
  <2>2. CASE i # d
    BY <1>8, <2>1, <2>2 DEF Link
  <2>3. CASE i = d /\ k \in 1..n
    BY <1>8, <2>1, <2>3 DEF Link
  <2>4. CASE i = d /\ k = g
    <3>1. entries'[i][k] = e
      BY <1>11, <2>4
    <3> QED BY <1>1, <1>5, <2>1, <2>4, <3>1 DEF Adding
  <2> QED BY <1>11, <2>1, <2>2, <2>3, <2>4
<1>14. \A i \in Inodes : \A k \in Nat : Link(i, k) /\ New => entries[i][k].i_no # op.i_no
  BY DEF FsInv, OpOK
<1>15. LinksOK'
  <2>1. ASSUME NEW i \in Inodes, NEW k \in Nat, Link(i, k)'
        PROVE  entries'[i][k].i_no # i /\ entries'[i][k].i_no \in inode_bitmap
    <3>1. CASE Link(i, k) /\ entries'[i][k] = entries[i][k]
      BY <1>2, <3>1 DEF FsInv, LinksOK
    <3>2. CASE i = d /\ k = g /\ entries'[i][k] = e /\ pc[maker] \in {"add", "readd"}
      BY <1>2, <1>5, <3>2
    <3> QED BY <1>13, <2>1, <3>1, <3>2
  <2>2. ASSUME NEW i \in Inodes, NEW j \in Inodes, NEW k \in Nat, NEW l \in Nat,
               Link(i, k)', Link(j, l)', entries'[i][k].i_no = entries'[j][l].i_no
        PROVE  i = j /\ k = l
    <3>1. CASE Link(i, k) /\ entries'[i][k] = entries[i][k] /\ Link(j, l) /\ entries'[j][l] = entries[j][l]
      BY <2>2, <3>1 DEF FsInv, LinksOK
    <3>2. CASE Link(i, k) /\ entries'[i][k] = entries[i][k]
               /\ j = d /\ l = g /\ entries'[j][l] = e /\ pc[maker] \in {"add", "readd"}
      BY <1>5, <1>14, <2>2, <3>2
    <3>3. CASE Link(j, l) /\ entries'[j][l] = entries[j][l]
               /\ i = d /\ k = g /\ entries'[i][k] = e /\ pc[maker] \in {"add", "readd"}
      BY <1>5, <1>14, <2>2, <3>3
    <3>4. CASE i = d /\ k = g /\ j = d /\ l = g
      BY <3>4
    <3> QED BY <1>13, <2>2, <3>1, <3>2, <3>3, <3>4
  <2>3. inode_bitmap' = inode_bitmap
    BY <1>1
  <2> QED BY <2>1, <2>2, <2>3 DEF LinksOK
<1>16. OpOK'
  <2>1. CASE Added = "user"
    BY <1>1, <1>4, <1>7, <2>1, SimpleOp, NoCallFacts
  <2>2. CASE Added # "user"
    <3>1. op' = op /\ Name' = Name /\ ~New' /\ (Found' => Added = "retype")
      BY <1>1, <1>6, <1>7, <2>2 DEF Name, Found, New
    <3>2. Added = "retype" => \E k \in DOMAIN entries'[op'.dir] :
             entries'[op'.dir][k].filename = Name' /\ entries'[op'.dir][k].i_no = op'.i_no
      BY <1>5, <1>6, <1>11, <3>1
    <3>3. Special \subseteq inode_bitmap
      BY DEF FsInv, OpOK
    <3> QED BY <1>1, <1>2, <1>4, <1>6, <1>7, <2>2, <3>1, <3>2, <3>3 DEF OpOK, HasInode, Special
  <2> QED BY <2>1, <2>2
<1>17. op' \in OpSet /\ op'.call # "undo" /\ (Added # "user" => op'.path # <<>>)
  BY <1>1, <1>2, NoCallFacts
<1>18. inode_lock' \in [Inodes -> Procs \cup {NULL}] /\ inode_lock'[w_no] = inode_lock[w_no]
  BY <1>1, <1>3, FsNow
<1> QED BY <1>1, <1>3, <1>6, <1>8, <1>9, <1>12, <1>15, <1>16, <1>17, <1>18, DoneStep

\* The entry of the old directory that is at position j of the new one.
Source(k, n, j) == IF j = k THEN n ELSE j

\* dirent_delete() fills the gap at k with the last entry.
Filled(s, k) == Front([s EXCEPT ![k] = Last(s)])

LEMMA FillGap ==
    ASSUME NEW S, NEW s \in Seq(S), NEW k \in 1..Len(s)
    PROVE  /\ Filled(s, k) \in Seq(S) /\ Len(Filled(s, k)) = Len(s) - 1
           /\ DOMAIN Filled(s, k) = 1..Len(s) - 1
           /\ \A j \in 1..Len(s) - 1 :
                 /\ Filled(s, k)[j] = s[Source(k, Len(s), j)]
                 /\ Source(k, Len(s), j) \in 1..Len(s) /\ Source(k, Len(s), j) # k
           /\ \A i, j \in 1..Len(s) - 1 : Source(k, Len(s), i) = Source(k, Len(s), j) => i = j
<1> DEFINE n == Len(s)
           u == [s EXCEPT ![k] = s[n]]
           t == SubSeq(u, 1, n - 1)
<1>1. n \in Nat /\ n >= 1 /\ DOMAIN s = 1..n /\ k \in 1..n /\ \A j \in 1..n : s[j] \in S
  OBVIOUS
<1>2. u = [j \in 1..n |-> IF j = k THEN s[n] ELSE s[j]]
  BY <1>1
<1>3. u \in Seq(S) /\ Len(u) = n /\ \A j \in 1..n : u[j] = s[Source(k, n, j)]
  <2>1. \A j \in 1..n : (IF j = k THEN s[n] ELSE s[j]) \in S
    BY <1>1
  <2>2. u \in Seq(S) /\ Len(u) = n
    BY <1>1, <1>2, <2>1
  <2> QED BY <1>2, <2>2 DEF Source
<1>4. Filled(s, k) = t
  BY <1>3 DEF Filled, Front, Last
<1> HIDE DEF u
<1>5. 1 \in 1..n + 1 /\ n - 1 \in 0..n
  BY <1>1
<1>6. t \in Seq(S) /\ Len(t) = n - 1 /\ \A j \in 1..n - 1 : t[j] = u[j]
  <2> DEFINE m == n - 1
  <2>1. m \in Nat /\ m <= n
    BY <1>1
  <2> HIDE DEF m, n
  <2>2. SubSeq(u, 1, m) \in Seq(S) /\ Len(SubSeq(u, 1, m)) = m /\ \A j \in 1..m : SubSeq(u, 1, m)[j] = u[j]
    BY <1>1, <1>3, <2>1
  <2> QED BY <2>2 DEF m
<1>7. DOMAIN t = 1..n - 1
  BY <1>1, <1>6
<1> HIDE DEF t, n
<1>8. \A j \in 1..n - 1 : j \in 1..n /\ Source(k, n, j) \in 1..n /\ Source(k, n, j) # k
  BY <1>1 DEF Source
<1>9. \A i, j \in 1..n - 1 : Source(k, n, i) = Source(k, n, j) => i = j
  BY <1>1 DEF Source
<1>10. \A j \in 1..n - 1 : t[j] = s[Source(k, n, j)]
  BY <1>3, <1>6, <1>8
<1> QED BY <1>4, <1>6, <1>7, <1>8, <1>9, <1>10 DEF n

\* The entry that dirent_delete() takes away, and the others after it.
LEMMA DelEntries ==
    ASSUME FsInv, DelDone
    PROVE  \E k \in DOMAIN entries[op.dir] :
              LET n == Len(entries[op.dir])
              IN  /\ Link(op.dir, k) /\ entries[op.dir][k].i_no = op.i_no
                  /\ k \in Nat /\ n \in Nat /\ k \in 1..n
                  /\ entries' \in [Inodes -> Seq(Dirent)] /\ Len(entries'[op.dir]) = n - 1
                  /\ \A i \in Inodes \ {op.dir} : entries'[i] = entries[i]
                  /\ DOMAIN entries'[op.dir] = 1..n - 1 /\ DOMAIN entries[op.dir] = 1..n
                  /\ \A j \in 1..n - 1 : /\ entries'[op.dir][j] = entries[op.dir][Source(k, n, j)]
                                         /\ Source(k, n, j) \in 1..n /\ Source(k, n, j) # k
                  /\ \A i, j \in 1..n - 1 : Source(k, n, i) = Source(k, n, j) => i = j
<1> DEFINE d == op.dir
           k == Min(Matching(d, Name))
           n == Len(entries[d])
<1>1. pc[maker] \in {"del", "retype"} /\ entries' = [entries EXCEPT ![d] = WithoutDirent(d, Name)]
  BY DEF DelDone
<1>2. d \in Inodes /\ op.path # <<>> /\ Found
  BY <1>1, FsNow DEF FsInv, PcOK, Found
<1>3. /\ k \in DOMAIN entries[d] /\ entries[d][k].filename = Name /\ entries[d][k].i_no = op.i_no
      /\ k \in 1..n /\ n \in Nat /\ k \in Nat
  <2>1. PICK h \in DOMAIN entries[d] : entries[d][h].filename = Name /\ entries[d][h].i_no = op.i_no
    BY <1>2 DEF FsInv, OpOK
  <2>2. h \in Matching(d, Name)
    BY <2>1 DEF Matching
  <2>3. k \in DOMAIN entries[d] /\ entries[d][k].filename = Name
    BY <1>2, <2>2, DirentFacts
  <2>4. k = h
    BY <1>2, <2>1, <2>3 DEF FsInv, NamesOK
  <2> QED BY <1>2, <2>1, <2>3, <2>4, EntryFacts
<1>4. Link(d, k)
  <2>1. Name \in Names
    BY <1>2, FsNow DEF Name
  <2> QED BY <1>3, <2>1 DEF Link, Names
<1> HIDE DEF k
<1> DEFINE s == entries[d]
           t == Filled(s, k)
<1>5. s \in Seq(Dirent) /\ DOMAIN s = 1..n
  BY <1>2, EntryFacts
<1>6. /\ t \in Seq(Dirent) /\ Len(t) = n - 1 /\ DOMAIN t = 1..n - 1
      /\ \A j \in 1..n - 1 : /\ t[j] = s[Source(k, n, j)]
                             /\ Source(k, n, j) \in 1..n /\ Source(k, n, j) # k
      /\ \A i, j \in 1..n - 1 : Source(k, n, i) = Source(k, n, j) => i = j
  <2>1. k \in 1..Len(s) /\ Len(s) = n
    BY <1>3
  <2> HIDE DEF s, n
  <2>2. /\ t \in Seq(Dirent) /\ Len(t) = Len(s) - 1 /\ DOMAIN t = 1..Len(s) - 1
        /\ \A j \in 1..Len(s) - 1 : /\ t[j] = s[Source(k, Len(s), j)]
                                    /\ Source(k, Len(s), j) \in 1..Len(s) /\ Source(k, Len(s), j) # k
        /\ \A i, j \in 1..Len(s) - 1 : Source(k, Len(s), i) = Source(k, Len(s), j) => i = j
    BY <1>5, <2>1, FillGap, SMTT(60)
  <2> HIDE DEF t
  <2> QED BY <2>1, <2>2
<1>7. WithoutDirent(d, Name) = t
  BY DEF WithoutDirent, Filled, k
<1> HIDE DEF t
<1>8. entries' \in [Inodes -> Seq(Dirent)] /\ entries'[d] = t /\ \A i \in Inodes \ {d} : entries'[i] = entries[i]
  BY <1>1, <1>2, <1>6, <1>7, FsNow
<1> WITNESS k \in DOMAIN entries[op.dir]
<1> QED BY <1>3, <1>4, <1>5, <1>6, <1>8

LEMMA DelDoneStep ==
    ASSUME FsInv, DelDone
    PROVE  FsInv'
<1> DEFINE d == op.dir
           to == IF pc[maker] = "retype" THEN "readd" ELSE "user"
           n == Len(entries[d])
<1>1. /\ pc[maker] \in {"del", "retype"} /\ pc' = [pc EXCEPT ![maker] = to]
      /\ op' = IF to = "user" THEN NoCall ELSE op
      /\ BlockWritten(maker, disk_inode[d])
      /\ inode_lock' \in {inode_lock, [inode_lock EXCEPT ![d] = NULL]}
      /\ UNCHANGED <<inode_bitmap, block_bitmap, disk_inode>>
  BY DEF DelDone, MakerTo, Goto, Unlock
<1>2. /\ op.i_no \in Inodes \ Special /\ d \in inode_bitmap \ {w_no, v_no} /\ op.i_no # d
      /\ op.path # <<>> /\ op \in OpSet /\ op.call # "undo"
      /\ (pc[maker] = "retype" => op.i_no \in inode_bitmap) /\ Found
  BY <1>1, OpFacts, FsNow DEF FsInv, PcOK, OpOK, HasInode, Labels, Found
<1>3. d \in Inodes \ {w_no} /\ disk_inode[d] \in DiskInode /\ Target(maker) = d
  BY <1>1, <1>2, TargetIs, FsNow
<1>4. Busy /\ ~Busy'
  BY <1>1, <1>3, WrittenFacts, FsNow DEF Busy
<1>5. PICK k \in DOMAIN entries[d] :
         /\ Link(d, k) /\ entries[d][k].i_no = op.i_no /\ k \in Nat /\ n \in Nat
         /\ entries' \in [Inodes -> Seq(Dirent)] /\ Len(entries'[d]) = n - 1
         /\ \A i \in Inodes \ {d} : entries'[i] = entries[i]
         /\ DOMAIN entries'[d] = 1..n - 1 /\ DOMAIN entries[d] = 1..n
         /\ \A j \in 1..n - 1 : /\ entries'[d][j] = entries[d][Source(k, n, j)]
                                /\ Source(k, n, j) \in 1..n /\ Source(k, n, j) # k
         /\ \A i, j \in 1..n - 1 : Source(k, n, i) = Source(k, n, j) => i = j
  BY DelEntries
<1> DEFINE Src(i, j) == IF i = d THEN Source(k, n, j) ELSE j
<1>7. to \in {"readd", "user"} /\ (to = "readd" <=> pc[maker] = "retype")
  OBVIOUS
<1> HIDE DEF to
<1>9. \A i \in Inodes \ {w_no} : disk_inode[i].size = Len(entries'[i])
  <2>1. \A i \in Inodes \ {w_no, d} : disk_inode[i].size = Len(entries[i])
    BY <1>3, <1>4, BusySizes
  <2>2. disk_inode[d].size = n - 1
    BY <1>1, <1>3, <1>4, BusySizes
  <2>3. ASSUME NEW i \in Inodes \ {w_no}, i # d PROVE disk_inode[i].size = Len(entries'[i])
    BY <1>5, <2>1, <2>3
  <2> QED BY <1>5, <2>2, <2>3
<1>10. /\ \A i \in Inodes : \A j \in DOMAIN entries'[i] :
             /\ Src(i, j) \in DOMAIN entries[i] /\ entries'[i][j] = entries[i][Src(i, j)]
             /\ ~(i = d /\ Src(i, j) = k)
       /\ \A i \in Inodes : \A j, l \in DOMAIN entries'[i] : Src(i, j) = Src(i, l) => j = l
  <2> HIDE DEF n
  <2>1. ASSUME NEW i \in Inodes, NEW j \in DOMAIN entries'[i]
        PROVE  /\ Src(i, j) \in DOMAIN entries[i] /\ entries'[i][j] = entries[i][Src(i, j)]
               /\ ~(i = d /\ Src(i, j) = k)
    BY <1>5, <2>1
  <2>2. ASSUME NEW i \in Inodes, NEW j \in DOMAIN entries'[i], NEW l \in DOMAIN entries'[i],
               Src(i, j) = Src(i, l)
        PROVE  j = l
    BY <1>5, <2>2
  <2> QED BY <2>1, <2>2
<1> HIDE DEF Src, n
<1>11. NamesOK'
  <2>1. ASSUME NEW i \in Inodes, NEW j \in DOMAIN entries'[i], NEW l \in DOMAIN entries'[i],
               entries'[i][j].filename = entries'[i][l].filename
        PROVE  j = l
    BY <1>10, <2>1 DEF FsInv, NamesOK
  <2>2. ASSUME NEW i \in Inodes, NEW j \in DOMAIN entries'[i]
        PROVE  /\ entries'[i][j].filename = "." => entries'[i][j].i_no = i
               /\ entries'[i][j].filename \in Names => entries'[i][j].i_no \notin Special
    BY <1>10, <2>2 DEF FsInv, NamesOK
  <2> QED BY <2>1, <2>2 DEF NamesOK
<1>12. \A i \in Inodes : \A j \in Nat : Link(i, j)' =>
          /\ j \in DOMAIN entries'[i] /\ Src(i, j) \in Nat /\ Link(i, Src(i, j))
          /\ entries'[i][j] = entries[i][Src(i, j)] /\ entries'[i][j].i_no # op.i_no
  <2> SUFFICES ASSUME NEW i \in Inodes, NEW j \in Nat, Link(i, j)'
               PROVE  /\ j \in DOMAIN entries'[i] /\ Src(i, j) \in Nat /\ Link(i, Src(i, j))
                      /\ entries'[i][j] = entries[i][Src(i, j)] /\ entries'[i][j].i_no # op.i_no
    OBVIOUS
  <2>1. j \in DOMAIN entries'[i] /\ entries'[i][j].filename \notin {".", ".."}
    BY DEF Link
  <2>2. /\ Src(i, j) \in DOMAIN entries[i] /\ entries'[i][j] = entries[i][Src(i, j)]
        /\ ~(i = d /\ Src(i, j) = k)
    BY <1>10, <2>1
  <2>3. Link(i, Src(i, j)) /\ Src(i, j) \in Nat
    BY <2>1, <2>2, EntryFacts DEF Link
  <2>4. entries[i][Src(i, j)].i_no # op.i_no
    BY <1>3, <1>5, <2>2, <2>3, SMTT(60) DEF FsInv, LinksOK
  <2> QED BY <2>1, <2>2, <2>3, <2>4
<1>13. LinksOK'
  <2>1. ASSUME NEW i \in Inodes, NEW j \in Nat, Link(i, j)'
        PROVE  entries'[i][j].i_no # i /\ entries'[i][j].i_no \in inode_bitmap
    BY <1>12, <2>1 DEF FsInv, LinksOK
  <2>2. ASSUME NEW i \in Inodes, NEW j \in Inodes, NEW l \in Nat, NEW m \in Nat,
               Link(i, l)', Link(j, m)', entries'[i][l].i_no = entries'[j][m].i_no
        PROVE  i = j /\ l = m
    <3>1. i = j /\ Src(i, l) = Src(j, m)
      BY <1>12, <2>2 DEF FsInv, LinksOK
    <3> QED BY <1>10, <1>12, <2>2, <3>1
  <2>3. inode_bitmap' = inode_bitmap
    BY <1>1
  <2> QED BY <2>1, <2>2, <2>3 DEF LinksOK
<1>14. pc'[maker] = to
  BY <1>1, FsNow
<1>15. OpOK'
  <2>1. CASE to = "user"
    BY <1>1, <1>4, <1>14, <2>1, SimpleOp, NoCallFacts
  <2>2. CASE to = "readd"
    <3>1. op' = op /\ ~Found' /\ op.i_no \in inode_bitmap
      BY <1>1, <1>2, <1>7, <1>14, <2>2 DEF Found
    <3>2. \A i \in Inodes : \A j \in Nat : Link(i, j)' => entries'[i][j].i_no # op'.i_no
      BY <1>12, <3>1
    <3>3. Special \subseteq inode_bitmap
      BY DEF FsInv, OpOK
    <3> QED BY <1>1, <1>2, <1>4, <1>14, <2>2, <3>1, <3>2, <3>3 DEF OpOK, HasInode, Special
  <2> QED BY <1>7, <2>1, <2>2
<1>16. op' \in OpSet /\ op'.call # "undo" /\ (to # "user" => op'.path # <<>>)
  BY <1>1, <1>2, NoCallFacts
<1>17. inode_lock' \in [Inodes -> Procs \cup {NULL}] /\ inode_lock'[w_no] = inode_lock[w_no]
  BY <1>1, <1>3, FsNow
<1> QED BY <1>1, <1>3, <1>7, <1>5, <1>9, <1>11, <1>13, <1>15, <1>16, <1>17, DoneStep DEF Labels

-----------------------------------------------------------------------------
(* Files: the writers *)

\* A step of a writer disturbs nothing but the file w_no.
LEMMA WriterStep ==
    ASSUME FsInv, NEW p \in Writers, NEW to \in {"user", "grow"}, pc' = [pc EXCEPT ![p] = to],
           UNCHANGED <<inode_bitmap, entries, op>>,
           table' \in [Inodes -> DiskInode], disk_inode' \in [Inodes -> DiskInode],
           block_bitmap' \subseteq Blocks, OwnersOK',
           \A i \in Inodes \ {w_no} : disk_inode'[i] = disk_inode[i],
           inode_lock' \in [Inodes -> Procs \cup {NULL}],
           \A i \in Inodes \ {w_no} : inode_lock'[i] = inode_lock[i],
           \A q \in Writers : pc'[q] = "grow" => inode_lock'[w_no] = q,
           io' \in [Procs -> [phase : {"none", "asked", "read"}, block : Snapshots]],
           \A q \in Procs \ {p} : io'[q] = io[q],
           to = "user" <=> io'[p].phase = "none", io'[p].phase # "read"
    PROVE  FsInv'
<1>1. /\ pc'[maker] = pc[maker] /\ pc'[p] = to /\ (\A q \in Procs \ {p} : pc'[q] = pc[q])
      /\ pc' \in [Procs -> Labels \cup {"grow"}] /\ io'[maker] = io[maker] /\ pc[maker] # "grow"
      /\ maker # p
  <2>1. pc' \in [Procs -> Labels \cup {"grow"}]
    BY FsNow DEF Labels
  <2>2. pc'[maker] = pc[maker] /\ pc'[p] = to /\ (\A q \in Procs \ {p} : pc'[q] = pc[q])
    BY FsNow
  <2> QED BY <2>1, <2>2, FsNow DEF Labels
<1>2. Busy' = Busy /\ Target(maker)' = Target(maker)
  BY <1>1 DEF Busy, Target
<1>3. /\ NewDirent' = NewDirent /\ Name' = Name /\ New' = New /\ Found' = Found /\ Unlinking' = Unlinking
      /\ \A i, n : Matching(i, n)' = Matching(i, n)
      /\ \A i, k : Link(i, k)' = Link(i, k)
  <2>1. Name' = Name
    BY DEF Name
  <2>2. NewDirent' = NewDirent
    BY <1>1, <2>1 DEF NewDirent
  <2>3. New' = New /\ Found' = Found /\ Unlinking' = Unlinking
    BY <1>1 DEF New, Found, Unlinking
  <2>4. (\A i, n : Matching(i, n)' = Matching(i, n)) /\ (\A i, k : Link(i, k)' = Link(i, k))
    BY DEF Matching, Link
  <2> QED BY <2>1, <2>2, <2>3, <2>4
<1>4. \A i \in Inodes : SizeOf(i)' = SizeOf(i)
  BY <1>1, <1>2 DEF SizeOf
<1>5. TypesOK'
  BY <1>1 DEF FsInv, TypesOK, TypeOK
<1>6. PcOK'
  <2>1. ASSUME NEW q \in Procs, io'[q].phase = "read"
        PROVE  io'[q].block \in [SameBlock(Target(q))' -> DiskInode]
    <3>1. q # p /\ io'[q] = io[q] /\ pc'[q] = pc[q]
      BY <1>1, <2>1
    <3>2. Target(q)' = Target(q)
      BY <3>1 DEF Target
    <3>3. SameBlock(Target(q))' = SameBlock(Target(q))
      BY <3>2 DEF SameBlock
    <3>4. io[q].block \in [SameBlock(Target(q)) -> DiskInode]
      BY <2>1, <3>1 DEF FsInv, PcOK
    <3> QED BY <3>1, <3>3, <3>4
  <2>2. ASSUME NEW q \in Writers PROVE pc'[q] \in {"user", "grow"} /\ (pc'[q] = "user" <=> io'[q].phase = "none")
    <3>1. CASE q = p
      BY <1>1, <3>1
    <3>2. CASE q # p
      BY <1>1, <3>2, FsNow DEF FsInv, PcOK
    <3> QED BY <3>1, <3>2
  <2> QED BY <1>1, <1>2, <2>1, <2>2 DEF FsInv, PcOK
<1>7. SizesOK'
  <2>1. w_no \in inode_bitmap /\ (pc[maker] = "zero" => op.i_no \in Inodes \ {w_no})
    BY FsNow DEF FsInv, OpOK, Special, HasInode, Labels
  <2> QED BY <1>1, <1>2, <1>4, <2>1 DEF FsInv, SizesOK
<1>8. NamesOK' /\ LinksOK'
  BY <1>3 DEF FsInv, NamesOK, LinksOK
<1>9. OpOK'
  BY <1>1, <1>2, <1>3 DEF FsInv, OpOK
<1>10. LocksOK'
  <2>1. Busy => Target(maker) \in Inodes \ {w_no}
    BY MakerTarget
  <2> QED BY <1>1, <1>2, <2>1 DEF FsInv, LocksOK
<1> QED BY <1>5, <1>6, <1>7, <1>8, <1>9, <1>10 DEF FsInv

\* The writers' file.
LEMMA FileSize ==
    ASSUME FsInv, NEW i \in Inodes
    PROVE  /\ disk_inode[i] \in DiskInode /\ disk_inode[i].size \in Nat
           /\ Len(disk_inode[i].direct) \in Nat
           /\ Len(disk_inode[i].direct) = DIV_ROUND_UP(disk_inode[i].size)
<1>1. disk_inode[i] \in DiskInode
  BY FsNow
<1>2. disk_inode[i].size \in 0..NDIRECT * PerBlock /\ disk_inode[i].direct \in Seq(Blocks)
  BY <1>1 DEF DiskInode
<1>3. disk_inode[i].size \in Nat /\ Len(disk_inode[i].direct) \in Nat
  BY <1>2
<1> QED BY <1>1, <1>3 DEF FsInv, OwnersOK

LEMMA GrowStartStep ==
    ASSUME FsInv, NEW p \in Writers, NEW n \in WriteSizes, GrowStart(p, n)
    PROVE  FsInv'
<1> DEFINE size == disk_inode[w_no].size + n
           r == [phase |-> "asked", block |-> <<>>]
<1>1. /\ pc[p] = "user" /\ pc' = [pc EXCEPT ![p] = "grow"] /\ inode_lock[w_no] = NULL
      /\ ~(size > NDIRECT * PerBlock)
      /\ ~(DIV_ROUND_UP(size) - Len(disk_inode[w_no].direct) > Cardinality(Free))
      /\ inode_lock' = [inode_lock EXCEPT ![w_no] = p] /\ inode_size_change(p, w_no, size)
      /\ UNCHANGED <<inode_bitmap, table, entries, op>>
  BY DEF GrowStart, Goto, Unlocked, NoRoom, TooBig, Lock
<1>2. disk_inode[w_no].size \in Nat /\ Len(disk_inode[w_no].direct) \in Nat /\ n \in Nat
  BY FileSize, FsNow, FsAssumption
<1>3. size \in 0..NDIRECT * PerBlock /\ size \in Nat
  <2> DEFINE N == NDIRECT * PerBlock
             m == disk_inode[w_no].size + n
  <2>1. N \in Nat /\ m \in Nat
    BY MaxSize, <1>2
  <2> HIDE DEF N, m
  <2>2. ~(m > N)
    BY <1>1 DEF N, m
  <2>3. m \in 0..N
    BY <2>1, <2>2
  <2> QED BY <2>1, <2>3 DEF N, m
<1> HIDE DEF size
<1>4. DIV_ROUND_UP(size) - Len(disk_inode[w_no].direct) <= Cardinality(Free)
  <2>1. DIV_ROUND_UP(size) \in Nat /\ Cardinality(Free) \in Nat
    BY <1>3, RoundUp, FreeFinite
  <2> QED BY <1>1, <1>2, <2>1
<1>5. /\ block_bitmap' \subseteq Blocks /\ disk_inode' \in [Inodes -> DiskInode] /\ OwnersOK'
      /\ \A j \in Inodes \ {w_no} : disk_inode'[j] = disk_inode[j]
  BY <1>1, <1>3, <1>4, SizeChanged, FsNow DEF FsInv, TypesOK
<1>6. io' = [io EXCEPT ![p] = r]
  BY <1>1 DEF inode_size_change
<1>7. /\ io' \in [Procs -> [phase : {"none", "asked", "read"}, block : Snapshots]]
      /\ io'[p].phase = "asked" /\ \A q \in Procs \ {p} : io'[q] = io[q]
  BY <1>6, AskedFacts, FsNow
<1>8. /\ inode_lock' \in [Inodes -> Procs \cup {NULL}] /\ inode_lock'[w_no] = p
      /\ \A i \in Inodes \ {w_no} : inode_lock'[i] = inode_lock[i]
  BY <1>1, FsNow
<1>9. ASSUME NEW q \in Writers, pc'[q] = "grow" PROVE q = p
  <2>1. SUFFICES ASSUME q # p PROVE FALSE
    OBVIOUS
  <2>2. pc[q] = "grow"
    BY <1>1, <1>9, <2>1, FsNow
  <2>3. inode_lock[w_no] = q
    BY <2>2 DEF FsInv, LocksOK
  <2> QED BY <1>1, <2>3, FsAssumption DEF Procs
<1>10. table' \in [Inodes -> DiskInode]
  BY <1>1, FsNow
<1> QED BY <1>1, <1>5, <1>7, <1>8, <1>9, <1>10, WriterStep

\* No write needs more than one block more.
SmallWrites == \A n \in WriteSizes : n <= PerBlock

LEMMA GrowFailedStep ==
    ASSUME FsInv, SmallWrites, NEW p \in Writers, NEW n \in WriteSizes, GrowFailed(p, n)
    PROVE  FsInv'
<1> DEFINE size == disk_inode[w_no].size + n
<1>1. /\ pc[p] = "user" /\ pc' = [pc EXCEPT ![p] = "user"]
      /\ size > NDIRECT * PerBlock
            \/ DIV_ROUND_UP(size) - Len(disk_inode[w_no].direct) > Cardinality(Free)
      /\ block_bitmap' = IF size > NDIRECT * PerBlock THEN block_bitmap ELSE Blocks
      /\ UNCHANGED <<inode_bitmap, disk_inode, table, entries, inode_lock, op, io>>
  BY DEF GrowFailed, Goto, NoRoom, TooBig
<1>2. /\ disk_inode[w_no].size \in Nat /\ Len(disk_inode[w_no].direct) \in Nat /\ n \in Nat
      /\ Len(disk_inode[w_no].direct) = DIV_ROUND_UP(disk_inode[w_no].size) /\ n <= PerBlock
  BY FileSize, FsNow, FsAssumption DEF SmallWrites
<1>3. block_bitmap' = block_bitmap
  <2>1. CASE size > NDIRECT * PerBlock
    BY <1>1, <2>1
  <2>2. CASE ~(size > NDIRECT * PerBlock)
    <3> DEFINE m == disk_inode[w_no].size
    <3>1. size \in Nat /\ m \in Nat /\ size <= m + PerBlock
      <4>1. m \in Nat /\ n \in Nat /\ n <= PerBlock /\ PerBlock \in Nat
        BY <1>2, FsAssumption
      <4> HIDE DEF m
      <4>2. m + n \in Nat /\ m + n <= m + PerBlock
        BY <4>1
      <4> QED BY <4>1, <4>2 DEF m
    <3> HIDE DEF size, m
    <3>2. DIV_ROUND_UP(size) \in Nat /\ DIV_ROUND_UP(m) \in Nat /\ DIV_ROUND_UP(size) <= DIV_ROUND_UP(m) + 1
      BY <3>1, RoundUp
    <3>3. DIV_ROUND_UP(size) - DIV_ROUND_UP(m) > Cardinality(Free)
      BY <1>1, <1>2, <2>2 DEF m
    <3>4. Cardinality(Free) = 0
      BY <3>2, <3>3, FreeFinite
    <3>5. Free = {}
      BY <3>4, FreeFinite, FS_EmptySet
    <3> QED BY <1>1, <2>2, <3>5, FsNow DEF Free
  <2> QED BY <2>1, <2>2
<1>4. OwnersOK'
  BY <1>1, <1>3, OwnersSame DEF FsInv
<1>5. \A q \in Writers : pc'[q] = "grow" => pc[q] = "grow"
  BY <1>1, FsNow
<1>6. \A q \in Writers : pc'[q] = "grow" => inode_lock'[w_no] = q
  BY <1>1, <1>5 DEF FsInv, LocksOK
<1>7. io[p].phase = "none"
  BY <1>1 DEF FsInv, PcOK
<1> HIDE DEF size
<1> QED BY <1>1, <1>3, <1>4, <1>6, <1>7, WriterStep, FsNow

LEMMA GrowDoneStep ==
    ASSUME FsInv, NEW p \in Writers, GrowDone(p)
    PROVE  FsInv'
<1>1. /\ pc[p] = "grow" /\ pc' = [pc EXCEPT ![p] = "user"] /\ BlockWritten(p, disk_inode[w_no])
      /\ inode_lock' = [inode_lock EXCEPT ![w_no] = NULL]
      /\ UNCHANGED <<inode_bitmap, block_bitmap, disk_inode, entries, op>>
  BY DEF GrowDone, Goto, Unlock
<1>2. /\ table' \in [Inodes -> DiskInode]
      /\ io' \in [Procs -> [phase : {"none", "asked", "read"}, block : Snapshots]]
      /\ io'[p].phase = "none" /\ \A q \in Procs \ {p} : io'[q] = io[q]
  BY <1>1, WrittenFacts, FsNow
<1>3. /\ inode_lock' \in [Inodes -> Procs \cup {NULL}]
      /\ \A i \in Inodes \ {w_no} : inode_lock'[i] = inode_lock[i]
  BY <1>1, FsNow
<1>4. \A q \in Writers : pc'[q] # "grow"
  <2>1. SUFFICES ASSUME NEW q \in Writers, pc'[q] = "grow" PROVE FALSE
    OBVIOUS
  <2>2. q # p /\ pc[q] = "grow"
    BY <1>1, <2>1, FsNow
  <2> QED BY <1>1, <2>2 DEF FsInv, LocksOK
<1>5. OwnersOK'
  BY <1>1, OwnersSame DEF FsInv
<1> QED BY <1>1, <1>2, <1>3, <1>4, <1>5, WriterStep, FsNow

-----------------------------------------------------------------------------
(* Files: the theorems *)

\* create_root_dir() and the two files.
LEMMA FsInitial ==
    ASSUME Init
    PROVE  FsInv
<1> DEFINE D == DIV_ROUND_UP(4)
           ids == [k \in 1..D |-> k]
           root == [size |-> 4, direct |-> ids]
<1>1. D \in Nat /\ D <= NBlocks /\ 4 <= NDIRECT * PerBlock
  BY RoundUp, FsAssumption
<1>2. DIV_ROUND_UP(0) = 0
  BY RoundUp
<1> HIDE DEF D
<1>3. /\ ids \in Seq(Blocks) /\ Len(ids) = D /\ IsInjective(ids) /\ ToSet(ids) = 1..D
      /\ 1..D \subseteq Blocks
  <2>1. 1..D \subseteq Blocks
    BY <1>1, FsAssumption DEF Blocks
  <2>2. ids \in Seq(Blocks) /\ Len(ids) = D
    BY <1>1, <2>1
  <2> QED BY <2>1, <2>2 DEF IsInjective, ToSet
<1>4. /\ Empty \in DiskInode /\ Empty.size = 0 /\ Empty.direct = <<>>
      /\ IsInjective(<<>>) /\ ToSet(<<>>) = {} /\ Len(<<>>) = 0
  <2>1. <<>> \in Seq(Blocks) /\ 0 \in 0..NDIRECT * PerBlock /\ Len(<<>>) = 0
    BY MaxSize
  <2>2. IsInjective(<<>>) /\ ToSet(<<>>) = {}
    BY DEF IsInjective, ToSet
  <2> QED BY <2>1, <2>2 DEF Empty, DiskInode
<1>5. root \in DiskInode /\ root.size = 4 /\ root.direct = ids
  <2>1. 4 \in 0..NDIRECT * PerBlock
    BY <1>1, MaxSize
  <2> HIDE DEF ids
  <2> QED BY <1>3, <2>1 DEF DiskInode
<1>6. /\ inode_bitmap = {0, w_no, v_no} /\ block_bitmap = ToSet(ids)
      /\ disk_inode = [[i \in Inodes |-> Empty] EXCEPT ![0] = root] /\ table = disk_inode
      /\ entries = [[i \in Inodes |-> <<>>] EXCEPT ![0] = FirstDirents]
      /\ inode_lock = [i \in Inodes |-> NULL] /\ pc = [p \in Procs |-> "user"] /\ op = NoCall
      /\ io = [p \in Procs |-> [phase |-> "none", block |-> <<>>]]
  BY DEF Init, D
<1> HIDE DEF root, ids
<1>7. /\ 0 \in Inodes /\ w_no \in Inodes \ {0} /\ v_no \in Inodes \ {0} /\ w_no # v_no
      /\ maker \in Procs /\ maker \notin Writers /\ Writers \subseteq Procs
  BY FsAssumption DEF Procs
<1>8. /\ FirstDirents \in Seq(Dirent) /\ Len(FirstDirents) = 4 /\ DOMAIN FirstDirents = 1..4
      /\ FirstDirents[1].filename = ".." /\ FirstDirents[2].filename = "."
      /\ FirstDirents[3].filename = "w" /\ FirstDirents[4].filename = "v"
      /\ FirstDirents[1].i_no = 0 /\ FirstDirents[2].i_no = 0
      /\ FirstDirents[3].i_no = w_no /\ FirstDirents[4].i_no = v_no
  BY <1>7 DEF FirstDirents, Dirent
<1>9. /\ disk_inode \in [Inodes -> DiskInode] /\ disk_inode[0] = root
      /\ \A i \in Inodes \ {0} : disk_inode[i] = Empty
  BY <1>4, <1>5, <1>6, <1>7
<1>10. /\ entries \in [Inodes -> Seq(Dirent)] /\ entries[0] = FirstDirents
       /\ \A i \in Inodes \ {0} : entries[i] = <<>>
  <2>1. <<>> \in Seq(Dirent)
    OBVIOUS
  <2> QED BY <1>6, <1>7, <1>8, <2>1
<1>11. ~Busy /\ pc[maker] = "user" /\ \A p \in Procs : pc[p] = "user" /\ io[p].phase = "none"
  BY <1>6, <1>7 DEF Busy
<1>12. TypesOK
  <2>1. op \in [call : Calls \cup {"none", "undo"}, path : Seq(Names), dir : Inodes, i_no : Inodes]
    <3>1. <<>> \in Seq(Names)
      OBVIOUS
    <3> QED BY <1>6, <1>7, <3>1 DEF NoCall
  <2>2. io \in [Procs -> [phase : {"none", "asked", "read"}, block : Snapshots]]
    <3>1. <<>> \in Snapshots
      BY DEF Snapshots
    <3> QED BY <1>6, <3>1
  <2>3. pc \in [Procs -> Labels \cup {"grow"}]
    BY <1>6 DEF Labels
  <2>4. ASSUME NEW i \in Inodes, NEW k \in DOMAIN entries[i] PROVE entries[i][k].i_no \in Inodes
    <3>1. entries[i] \in Seq(Dirent)
      BY <1>10
    <3>2. entries[i][k] \in Dirent
      BY <2>4, <3>1
    <3> QED BY <3>2 DEF Dirent
  <2>5. inode_lock \in [Inodes -> Procs \cup {NULL}] /\ inode_bitmap \subseteq Inodes
    BY <1>6, <1>7
  <2> QED BY <1>3, <1>6, <1>9, <1>10, <2>1, <2>2, <2>3, <2>4, <2>5 DEF TypesOK, TypeOK
<1>13. PcOK
  <2>1. op.call = "none"
    BY <1>6 DEF NoCall
  <2> QED BY <1>7, <1>11, <2>1 DEF PcOK, Labels
<1>14. OwnersOK
  <2>1. Owned(0) = 1..D /\ \A i \in Inodes \ {0} : Owned(i) = {}
    BY <1>3, <1>4, <1>5, <1>9 DEF Owned
  <2>2. block_bitmap = UNION {Owned(i) : i \in Inodes}
    BY <1>3, <1>6, <1>7, <2>1
  <2>3. \A i \in Inodes : /\ Len(disk_inode[i].direct) = DIV_ROUND_UP(disk_inode[i].size)
                          /\ IsInjective(disk_inode[i].direct)
    BY <1>2, <1>3, <1>4, <1>5, <1>9 DEF D
  <2> QED BY <2>1, <2>2, <2>3 DEF OwnersOK
<1>15. SizesOK
  <2>1. \A i \in Inodes : SizeOf(i) = Len(entries[i])
    BY <1>11 DEF SizeOf
  <2>2. \A i \in Inodes : disk_inode[i].size = Len(entries[i])
    BY <1>4, <1>5, <1>8, <1>9, <1>10
  <2> QED BY <1>6, <1>9, <1>11, <2>1, <2>2 DEF SizesOK
<1>16. DOMAIN entries[0] = {1, 2, 3, 4} /\ \A i \in Inodes \ {0} : DOMAIN entries[i] = {}
  BY <1>8, <1>10
<1>17. NamesOK
  BY <1>8, <1>10, <1>16, SMTT(60) DEF NamesOK, Names
<1>18. \A i \in Inodes : \A k \in Nat : Link(i, k) =>
           i = 0 /\ ((k = 3 /\ entries[i][k].i_no = w_no) \/ (k = 4 /\ entries[i][k].i_no = v_no))
  BY <1>8, <1>10, <1>16 DEF Link
<1>19. LinksOK
  BY <1>6, <1>7, <1>18 DEF LinksOK
<1>20. OpOK
  <2>1. op.dir = 0
    BY <1>6 DEF NoCall
  <2> QED BY <1>6, <1>7, <1>11, <2>1 DEF OpOK, HasInode, New, Found, Special
<1>21. LocksOK
  BY <1>7, <1>11 DEF LocksOK
<1> QED BY <1>12, <1>13, <1>14, <1>15, <1>17, <1>19, <1>20, <1>21 DEF FsInv

LEMMA FsStutter ==
    ASSUME FsInv, UNCHANGED vars
    PROVE  FsInv'
<1> USE DEF vars, disk
<1>1. /\ \A q : Target(q)' = Target(q)
      /\ New' = New /\ Found' = Found /\ Name' = Name /\ NewDirent' = NewDirent /\ Unlinking' = Unlinking
      /\ Busy' = Busy
      /\ \A i, n : Matching(i, n)' = Matching(i, n)
      /\ \A i, k : Link(i, k)' = Link(i, k)
  <2>1. (\A q : Target(q)' = Target(q)) /\ Busy' = Busy
    BY DEF Target, Busy
  <2>2. New' = New /\ Found' = Found /\ Unlinking' = Unlinking
    BY DEF New, Found, Unlinking
  <2>3. Name' = Name /\ NewDirent' = NewDirent
    BY DEF Name, NewDirent
  <2>4. (\A i, n : Matching(i, n)' = Matching(i, n)) /\ (\A i, k : Link(i, k)' = Link(i, k))
    BY DEF Matching, Link
  <2> QED BY <2>1, <2>2, <2>3, <2>4
<1>2. \A i \in Inodes : SizeOf(i)' = SizeOf(i)
  BY <1>1 DEF SizeOf
<1>3. TypesOK'
  BY DEF FsInv, TypesOK, TypeOK
<1>4. PcOK'
  <2>1. \A q : SameBlock(Target(q))' = SameBlock(Target(q))
    BY <1>1 DEF SameBlock
  <2> QED BY <1>1, <2>1 DEF FsInv, PcOK
<1>5. OwnersOK'
  BY OwnersSame DEF FsInv
<1>6. SizesOK'
  BY <1>1, <1>2 DEF FsInv, SizesOK
<1>7. NamesOK' /\ LinksOK'
  BY <1>1 DEF FsInv, NamesOK, LinksOK
<1>8. OpOK' /\ LocksOK'
  BY <1>1 DEF FsInv, OpOK, LocksOK
<1> QED BY <1>3, <1>4, <1>5, <1>6, <1>7, <1>8 DEF FsInv

\* FsInv holds in every state that the calls and the writers reach.
THEOREM FsInvariant ==
    ASSUME SmallWrites
    PROVE  Spec => []FsInv
<1>1. Init => FsInv
  BY FsInitial
<1>2. FsInv /\ [Next]_vars => FsInv'
  <2> SUFFICES ASSUME FsInv, [Next]_vars PROVE FsInv'
    OBVIOUS
  <2>1. ASSUME NEW call \in Calls, NEW path \in Paths, Call(call, path) PROVE FsInv'
    BY <2>1, CallStep
  <2>2. CASE PathDown \/ PathStuck \/ PathMissing \/ PathFound
    BY <2>2, PathDownStep, PathStuckStep, PathMissingStep, PathFoundStep
  <2>3. CASE AllocInode \/ AllocFull \/ ZeroDone
    BY <2>3, AllocInodeStep, AllocFullStep, ZeroDoneStep
  <2>4. CASE AddStart \/ AddDone \/ AddFailed \/ AddIgnored
    BY <2>4, AddStartStep, AddDoneStep, AddFailedStep, AddIgnoredStep
  <2>5. CASE EmptyTest \/ FreeInode \/ TruncStart \/ TruncDone \/ DelStart \/ DelDone
    BY <2>5, EmptyTestStep, FreeInodeStep, TruncStartStep, TruncDoneStep, DelStartStep, DelDoneStep
  <2>6. ASSUME NEW p \in Writers, NEW n \in WriteSizes, GrowStart(p, n) \/ GrowFailed(p, n) PROVE FsInv'
    BY <2>6, GrowStartStep, GrowFailedStep
  <2>7. ASSUME NEW p \in Writers, GrowDone(p) PROVE FsInv'
    BY <2>7, GrowDoneStep
  <2>8. ASSUME NEW p \in Procs, BlockRead(p) PROVE FsInv'
    BY <2>8, BlockReadStep
  <2>9. CASE UNCHANGED vars \/ Undefined
    BY <2>9, FsStutter DEF Undefined
  <2> QED BY <2>1, <2>2, <2>3, <2>4, <2>5, <2>6, <2>7, <2>8, <2>9 DEF Next, Step
<1> QED BY <1>1, <1>2, PTL DEF Spec

\* A block belongs to one file, no file outgrows its NDIRECT blocks and no block
\* leaks (inode.c:86-152), as long as no write needs two blocks at once: of those that
\* inode_size_change() finds before the bitmap is at its end, none is given back.
THEOREM FsBlocksExact ==
    ASSUME SmallWrites
    PROVE  Spec => []BlocksExact
<1>1. FsInv => BlocksExact
  BY DEF FsInv, TypesOK, OwnersOK, BlocksExact
<1> QED BY <1>1, FsInvariant, PTL

\* Directories are sound whatever was added and removed before (dir.c:27-49).
THEOREM FsEntriesSound ==
    ASSUME SmallWrites
    PROVE  Spec => []EntriesSound
<1>1. ASSUME FsInv PROVE EntriesSound
  <2>1. ASSUME NEW i \in inode_bitmap \ {w_no}, Unlocked(i) PROVE disk_inode[i].size = Len(entries[i])
    <3>1. i \in Inodes /\ maker # NULL
      BY <1>1, FsNow
    <3>2. CASE ~(Busy /\ i = Target(maker))
      BY <1>1, <3>1, <3>2 DEF FsInv, SizesOK, SizeOf
    <3>3. CASE Busy /\ i = Target(maker)
      <4>1. pc[maker] = "zero"
        BY <1>1, <2>1, <3>1, <3>3 DEF FsInv, LocksOK, Unlocked
      <4>2. i = op.i_no /\ disk_inode[i] = Empty /\ entries[i] = <<>>
        BY <1>1, <3>3, <4>1, TargetIs DEF FsInv, SizesOK
      <4>3. Len(<<>>) = 0 /\ Empty.size = 0
        BY EmptySeq DEF Empty
      <4> QED BY <4>2, <4>3
    <3> QED BY <3>2, <3>3
  <2>2. inode_bitmap \subseteq Inodes
    BY <1>1, FsNow
  <2>3. ASSUME NEW l \in Links
        PROVE  /\ l[1] \in Inodes /\ l[2] \in Nat /\ Link(l[1], l[2]) /\ l = <<l[1], l[2]>>
               /\ Linked(l) = entries[l[1]][l[2]].i_no
    <3>1. PICK i \in Inodes : l \in {i} \X DOMAIN entries[i]
      BY <2>3 DEF Links
    <3>2. l[1] = i /\ l[2] \in DOMAIN entries[i] /\ l = <<l[1], l[2]>>
      BY <3>1
    <3>3. entries[l[1]][l[2]].filename \notin {".", ".."}
      BY <2>3 DEF Links
    <3>4. l[2] \in Nat
      BY <1>1, <3>2, EntryFacts
    <3> QED BY <3>2, <3>3, <3>4 DEF Link, Linked
  <2>4. ASSUME NEW l \in Links, NEW m \in Links, Linked(l) = Linked(m) PROVE l = m
    <3>1. l[1] = m[1] /\ l[2] = m[2]
      BY <1>1, <2>3, <2>4 DEF FsInv, LinksOK
    <3> QED BY <2>3, <3>1
  <2>5. ASSUME NEW l \in Links
        PROVE  Linked(l) \in inode_bitmap \/ (Unlinking /\ Linked(l) = op.i_no)
    BY <1>1, <2>3 DEF FsInv, LinksOK
  <2>6. \A i \in inode_bitmap \ {w_no} :
          /\ \A j, k \in DOMAIN entries[i] :
                entries[i][j].filename = entries[i][k].filename => j = k
          /\ \A k \in DOMAIN entries[i] :
                entries[i][k].filename = "." => entries[i][k].i_no = i
    BY <1>1, <2>2 DEF FsInv, NamesOK
  <2> QED BY <2>1, <2>4, <2>5, <2>6 DEF EntriesSound
<1>2. FsInv => EntriesSound
  BY <1>1
<1> QED BY <1>2, FsInvariant, PTL

-----------------------------------------------------------------------------
(* Files: the inode table on the disk *)

\* A step that neither reads nor writes the table, outside block_modify() of the maker.
LEMMA TableSame ==
    ASSUME FsInv, TableOK, lost = {}, ~Busy, UNCHANGED <<table, disk_inode>>,
           \A p \in Writers : pc[p] = "grow" => pc'[p] = "grow"
    PROVE  TableOK'
BY DEF TableOK

\* The inode table when a new size is set.
LEMMA TableStart ==
    ASSUME FsInv, TableOK, lost = {}, UNCHANGED table, NEW p \in Procs, io[p].phase = "none",
           p = maker => Busy' /\ \A q \in Writers : pc'[q] = pc[q],
           p \in Writers => pc'[p] = "grow" /\ Busy' = Busy /\ Target(maker)' = Target(maker)
                            /\ \A q \in Writers : pc[q] = "grow" => pc'[q] = "grow",
           \A j \in Inodes : j # Target(p)' => disk_inode'[j] = disk_inode[j],
           p \in Writers => Target(p)' = w_no
    PROVE  TableOK'
<1> SUFFICES ASSUME NEW i \in Inodes
             PROVE  \/ table'[i] = disk_inode'[i]
                    \/ Busy' /\ i = Target(maker)'
                    \/ i = w_no /\ \E q \in Writers : pc'[q] = "grow"
  BY DEF TableOK
<1>1. CASE p = maker
  <2>1. ~Busy
    BY <1>1 DEF Busy
  <2> QED BY <1>1, <2>1 DEF TableOK
<1>2. CASE p \in Writers
  BY <1>2 DEF TableOK
<1> QED BY <1>1, <1>2 DEF Procs

\* block_modify() changes one inode of the table, and those that are lost.
LEMMA OneWritten ==
    ASSUME FsInv, NEW p \in Procs, NEW val \in DiskInode, BlockWritten(p, val), Observe
    PROVE  /\ table'[Target(p)] = val /\ Target(p) \in Inodes
           /\ \A j \in Inodes \ lost' : j # Target(p) => table'[j] = table[j]
           /\ io[p].phase = "read" /\ io'[p].phase = "none" /\ \A q \in Procs \ {p} : io'[q] = io[q]
<1>1. /\ io[p].phase = "read"
      /\ io[p].block \in [SameBlock(Target(p)) -> DiskInode]
      /\ \A j \in Inodes : table'[j] = IF j = Target(p) THEN val
                                       ELSE IF j \in SameBlock(Target(p)) THEN io[p].block[j]
                                       ELSE table[j]
      /\ io'[p].phase = "none" /\ \A q \in Procs \ {p} : io'[q] = io[q]
  BY WrittenFacts
<1>2. Target(p) \in Inodes
  BY <1>1, IoTarget
<1>3. Outdated(p) \subseteq lost'
  BY <1>1 DEF Observe
<1>4. ASSUME NEW j \in SameBlock(Target(p)), j \notin lost', j # Target(p)
      PROVE  io[p].block[j] = table[j]
  BY <1>1, <1>3, <1>4 DEF Outdated
<1> QED BY <1>1, <1>2, <1>4

LEMMA TableMakerDone ==
    ASSUME FsInv, TableOK, lost = {}, NEW val \in DiskInode, BlockWritten(maker, val), Observe,
           \A j \in Inodes : j # Target(maker) => disk_inode'[j] = disk_inode[j],
           disk_inode'[Target(maker)] = val,
           \A q \in Writers : pc'[q] = pc[q]
    PROVE  TableOK'
<1> DEFINE x == Target(maker)
<1>1. /\ table'[x] = val /\ x \in Inodes
      /\ \A j \in Inodes \ lost' : j # x => table'[j] = table[j]
  BY OneWritten, FsNow
<1> SUFFICES ASSUME NEW i \in Inodes \ lost'
             PROVE  \/ table'[i] = disk_inode'[i]
                    \/ i = w_no /\ \E q \in Writers : pc'[q] = "grow"
  BY DEF TableOK
<1>2. CASE i = x
  BY <1>1, <1>2
<1>3. CASE i # x
  <2>1. table'[i] = table[i] /\ disk_inode'[i] = disk_inode[i]
    BY <1>1, <1>3
  <2> QED BY <1>3, <2>1 DEF TableOK
<1> QED BY <1>2, <1>3

LEMMA TableGrowDone ==
    ASSUME FsInv, TableOK, lost = {}, NEW p \in Writers, GrowDone(p), Observe
    PROVE  TableOK'
<1>1. /\ pc[p] = "grow" /\ pc' = [pc EXCEPT ![p] = "user"] /\ BlockWritten(p, disk_inode[w_no])
      /\ UNCHANGED <<disk_inode, op>>
  BY DEF GrowDone, Goto
<1>2. Target(p) = w_no /\ p \in Procs /\ disk_inode[w_no] \in DiskInode
  BY <1>1, TargetIs, FsNow
<1>3. /\ table'[w_no] = disk_inode[w_no]
      /\ \A j \in Inodes \ lost' : j # w_no => table'[j] = table[j]
      /\ \A q \in Procs \ {p} : io'[q] = io[q]
  BY <1>1, <1>2, OneWritten
<1>4. Target(maker)' = Target(maker) /\ Busy' = Busy
  <2>1. pc'[maker] = pc[maker] /\ io'[maker] = io[maker]
    BY <1>1, <1>3, FsNow
  <2> QED BY <1>1, <2>1 DEF Target, Busy
<1> SUFFICES ASSUME NEW i \in Inodes \ lost'
             PROVE  table'[i] = disk_inode'[i] \/ (Busy' /\ i = Target(maker)')
  BY DEF TableOK
<1>5. CASE i = w_no
  BY <1>1, <1>3, <1>5
<1>6. CASE i # w_no
  BY <1>1, <1>3, <1>4, <1>6 DEF TableOK
<1> QED BY <1>5, <1>6

LEMMA TableBlockRead ==
    ASSUME FsInv, TableOK, lost = {}, NEW p \in Procs, BlockRead(p)
    PROVE  TableOK'
<1>1. /\ io[p].phase = "asked" /\ UNCHANGED <<table, disk_inode, pc, op>>
      /\ \E b : io' = [io EXCEPT ![p] = [phase |-> "read", block |-> b]]
  BY DEF BlockRead, disk
<1>2. Target(maker)' = Target(maker)
  BY <1>1 DEF Target
<1>3. Busy' = Busy
  BY <1>1, FsNow DEF Busy
<1> QED BY <1>1, <1>2, <1>3 DEF TableOK

\* The steps of the maker that leave the table and the sizes alone.
Quiet ==
    \/ \E call \in Calls, path \in Paths : Call(call, path)
    \/ PathDown \/ PathStuck \/ PathMissing \/ PathFound
    \/ AllocInode \/ AllocFull \/ AddFailed \/ AddIgnored \/ EmptyTest \/ FreeInode

LEMMA TableQuiet ==
    ASSUME FsInv, TableOK, lost = {}, Quiet
    PROVE  TableOK'
<1>1. /\ UNCHANGED <<table, disk_inode>> /\ io' \in {io, [io EXCEPT ![maker] = [phase |-> "asked", block |-> <<>>]]}
  BY DEF Quiet, Call, PathDown, PathStuck, PathMissing, PathFound, AllocInode, AllocFull, AddFailed,
         AddIgnored, EmptyTest, FreeInode, disk
<1>2. \E to : pc' = [pc EXCEPT ![maker] = to]
  <2>1. CASE \E call \in Calls, path \in Paths : Call(call, path)
    BY <2>1 DEF Call, MakerTo, Goto
  <2>2. CASE PathDown \/ PathStuck \/ PathMissing \/ PathFound
    BY <2>2 DEF PathDown, PathStuck, PathMissing, PathFound, MakerTo, Goto
  <2>3. CASE AllocInode \/ AllocFull \/ EmptyTest \/ FreeInode
    BY <2>3 DEF AllocInode, AllocFull, EmptyTest, FreeInode, MakerTo, Goto
  <2>4. CASE AddFailed \/ AddIgnored
    BY <2>4 DEF AddFailed, AddIgnored, MakerTo, Goto
  <2> QED BY <2>1, <2>2, <2>3, <2>4 DEF Quiet
<1>3. ~Busy
  <2>1. CASE AddFailed \/ AddIgnored
    BY <2>1 DEF AddFailed, AddIgnored, NoIo, Busy
  <2>2. CASE ~(AddFailed \/ AddIgnored)
    <3>1. pc[maker] \in {"user", "path", "alloc", "empty", "bfree"}
      BY <2>2 DEF Quiet, Call, PathDown, PathStuck, PathMissing, PathFound, AllocInode, AllocFull,
                  EmptyTest, FreeInode, MakerTo, Goto
    <3> QED BY <3>1 DEF FsInv, PcOK
  <2> QED BY <2>1, <2>2
<1>4. \A p \in Writers : pc'[p] = pc[p]
  BY <1>2, FsNow
<1> QED BY <1>1, <1>3, <1>4, TableSame

\* The disk inode of a file whose size is set.
LEMMA SizeSet ==
    ASSUME FsInv, NEW p \in Procs, NEW i \in Inodes, NEW size, inode_size_change(p, i, size)
    PROVE  /\ \A j \in Inodes : j # i => disk_inode'[j] = disk_inode[j]
           /\ io'[p].phase = "asked" /\ \A q \in Procs \ {p} : io'[q] = io[q]
<1> DEFINE rec == [size |-> size,
                   direct |-> NewDirect(disk_inode[i].direct, DIV_ROUND_UP(size))]
<1>1. disk_inode' = [disk_inode EXCEPT ![i] = rec]
  BY DEF inode_size_change, NewDirect, MoreBlocks
<1> HIDE DEF rec
<1>2. io' = [io EXCEPT ![p] = [phase |-> "asked", block |-> <<>>]]
  BY DEF inode_size_change
<1> QED BY <1>1, <1>2, FsNow

LEMMA TableMakerStart ==
    ASSUME FsInv, TableOK, lost = {}, AddStart \/ TruncStart \/ DelStart
    PROVE  TableOK'
<1>1. /\ UNCHANGED <<table, pc, op>> /\ io[maker].phase = "none"
      /\ pc[maker] \in Adding \cup {"trunc", "del", "retype"}
  BY DEF AddStart, TruncStart, DelStart, NoIo
<1>2. \E size : inode_size_change(maker, Target(maker), size)
  <2>1. CASE AddStart
    BY <2>1 DEF AddStart
  <2>2. CASE TruncStart
    BY <2>2, TargetIs DEF TruncStart
  <2>3. CASE DelStart
    BY <2>3, TargetIs DEF DelStart
  <2> QED BY <2>1, <2>2, <2>3
<1>3. Target(maker) \in Inodes /\ Target(maker)' = Target(maker)
  <2>1. Target(maker) \in {op.dir, op.i_no}
    BY <1>1, TargetIs DEF Adding
  <2>2. Target(maker)' = Target(maker)
    BY <1>1 DEF Target
  <2> QED BY <2>1, <2>2, FsNow
<1>4. /\ \A j \in Inodes : j # Target(maker) => disk_inode'[j] = disk_inode[j]
      /\ io'[maker].phase = "asked" /\ \A q \in Procs \ {maker} : io'[q] = io[q]
  BY <1>2, <1>3, SizeSet, FsNow
<1>5. Busy'
  BY <1>4 DEF Busy
<1> QED BY <1>1, <1>3, <1>4, <1>5, TableStart, FsNow

LEMMA TableGrowStart ==
    ASSUME FsInv, TableOK, lost = {}, NEW p \in Writers, NEW n \in WriteSizes, GrowStart(p, n)
    PROVE  TableOK'
<1>1. /\ pc[p] = "user" /\ pc' = [pc EXCEPT ![p] = "grow"] /\ UNCHANGED <<table, op>>
      /\ \E size : inode_size_change(p, w_no, size)
  BY DEF GrowStart, Goto
<1>2. io[p].phase = "none"
  BY <1>1 DEF FsInv, PcOK
<1>3. /\ \A j \in Inodes : j # w_no => disk_inode'[j] = disk_inode[j]
      /\ io'[p].phase = "asked" /\ \A q \in Procs \ {p} : io'[q] = io[q]
  BY <1>1, SizeSet, FsNow
<1>4. pc'[p] = "grow" /\ pc'[maker] = pc[maker] /\ io'[maker] = io[maker] /\ p # maker
      /\ \A q \in Writers : pc[q] = "grow" => pc'[q] = "grow"
  BY <1>1, <1>3, FsNow
<1>5. Target(p)' = w_no /\ Target(maker)' = Target(maker) /\ Busy' = Busy
  BY <1>1, <1>4 DEF Target, Busy
<1>6. /\ \A j \in Inodes : j # Target(p)' => disk_inode'[j] = disk_inode[j]
      /\ p \in Procs /\ UNCHANGED table
  BY <1>1, <1>3, <1>5, FsNow
<1> QED BY <1>2, <1>4, <1>5, <1>6, TableStart

LEMMA TableDone ==
    ASSUME FsInv, TableOK, lost = {}, Observe, ZeroDone \/ AddDone \/ TruncDone \/ DelDone
    PROVE  TableOK'
<1>1. \E to : pc' = [pc EXCEPT ![maker] = to]
  BY DEF ZeroDone, AddDone, TruncDone, DelDone, MakerTo, Goto
<1>2. \A q \in Writers : pc'[q] = pc[q]
  BY <1>1, FsNow
<1>3. Empty \in DiskInode
  <2>1. <<>> \in Seq(Blocks) /\ 0 \in 0..NDIRECT * PerBlock
    BY MaxSize
  <2> QED BY <2>1 DEF Empty, DiskInode
<1>4. CASE ZeroDone
  <2>1. /\ pc[maker] = "zero" /\ BlockWritten(maker, Empty)
        /\ disk_inode' = [disk_inode EXCEPT ![op.i_no] = Empty]
    BY <1>4 DEF ZeroDone, MakerTo, Goto
  <2>2. Target(maker) = op.i_no
    BY <2>1, TargetIs
  <2> QED BY <1>2, <1>3, <2>1, <2>2, TableMakerDone, FsNow
<1>5. CASE AddDone
  <2>1. /\ BlockWritten(maker, disk_inode[Target(maker)]) /\ UNCHANGED disk_inode
    BY <1>5 DEF AddDone
  <2>2. Target(maker) \in Inodes
    BY <2>1, IoTarget, FsNow DEF BlockWritten
  <2> QED BY <1>2, <2>1, <2>2, TableMakerDone, FsNow
<1>6. CASE DelDone
  <2>1. /\ BlockWritten(maker, disk_inode[Target(maker)]) /\ UNCHANGED disk_inode
    BY <1>6, TargetIs DEF DelDone
  <2>2. Target(maker) \in Inodes
    BY <2>1, IoTarget, FsNow DEF BlockWritten
  <2> QED BY <1>2, <2>1, <2>2, TableMakerDone, FsNow
<1>7. CASE TruncDone
  <2>1. pc[maker] = "trunc" /\ BlockWritten(maker, Empty) /\ UNCHANGED disk_inode
    BY <1>7 DEF TruncDone, MakerTo, Goto
  <2>2. Target(maker) = op.i_no /\ op.i_no \in Inodes \ inode_bitmap
    BY <2>1, TargetIs, FsNow DEF FsInv, OpOK
  <2>3. Busy
    BY <2>1 DEF BlockWritten, Busy
  <2>4. disk_inode[op.i_no] = Empty
    BY <2>2, <2>3 DEF FsInv, SizesOK
  <2> QED BY <1>2, <1>3, <2>1, <2>2, <2>4, TableMakerDone
<1> QED BY <1>4, <1>5, <1>6, <1>7

\* What the kernel knows of a file that nobody is changing is on the disk, whichever
\* inodes share a block of the inode table, up to the first block_modify() that overlaps
\* with another of its block, and that one sets back only the inodes that were written
\* between its read and its write (bio.c:28-32); as long as no write needs two blocks.
THEOREM FsDurable ==
    ASSUME SmallWrites
    PROVE  Spec => []Durable
<1>1. Init => TableOK
  <2> SUFFICES ASSUME Init PROVE TableOK
    OBVIOUS
  <2>1. table = disk_inode
    BY DEF Init
  <2> QED BY <2>1 DEF TableOK
<1>2. FsInv /\ TableOK /\ [Next]_vars => TableOK'
  <2> SUFFICES ASSUME FsInv, TableOK, [Next]_vars PROVE TableOK'
    OBVIOUS
  <2>0. CASE UNCHANGED vars \/ Undefined
    BY <2>0 DEF TableOK, Target, Busy, Undefined, vars, disk
  <2> SUFFICES ASSUME lost = {}, Step, Observe PROVE TableOK'
    BY <2>0 DEF Next
  <2>1. CASE Quiet
    BY <2>1, TableQuiet
  <2>2. CASE AddStart \/ TruncStart \/ DelStart
    BY <2>2, TableMakerStart
  <2>3. CASE ZeroDone \/ AddDone \/ TruncDone \/ DelDone
    BY <2>3, TableDone
  <2>4. ASSUME NEW p \in Writers, NEW n \in WriteSizes, GrowStart(p, n) PROVE TableOK'
    BY <2>4, TableGrowStart
  <2>5. ASSUME NEW p \in Writers, NEW n \in WriteSizes, GrowFailed(p, n) PROVE TableOK'
    <3>1. /\ pc[p] = "user" /\ pc' = [pc EXCEPT ![p] = "user"]
          /\ UNCHANGED <<table, disk_inode, op, io>>
      BY <2>5 DEF GrowFailed, Goto
    <3>2. pc' = pc
      BY <3>1, FsNow
    <3>3. Target(maker)' = Target(maker) /\ Busy' = Busy
      BY <3>1, <3>2 DEF Target, Busy
    <3> QED BY <3>1, <3>2, <3>3 DEF TableOK
  <2>6. ASSUME NEW p \in Writers, GrowDone(p) PROVE TableOK'
    BY <2>6, TableGrowDone
  <2>7. ASSUME NEW p \in Procs, BlockRead(p) PROVE TableOK'
    BY <2>7, TableBlockRead
  <2> QED BY <2>1, <2>2, <2>3, <2>4, <2>5, <2>6, <2>7 DEF Step, Quiet
<1>3. FsInv /\ TableOK => Durable
  <2> SUFFICES ASSUME FsInv, TableOK, NEW i \in inode_bitmap \ lost, Unlocked(i),
                      ~(pc[maker] = "zero" /\ op.i_no = i)
               PROVE  table[i] = disk_inode[i]
    BY DEF Durable
  <2>1. i \in Inodes /\ NULL # maker /\ NULL \notin Writers
    BY FsNow, FsAssumption DEF Procs
  <2>2. ~(Busy /\ i = Target(maker))
    <3> SUFFICES ASSUME Busy, i = Target(maker) PROVE FALSE
      OBVIOUS
    <3>1. CASE pc[maker] = "zero"
      BY <3>1, TargetIs
    <3>2. CASE pc[maker] # "zero"
      BY <2>1, <3>2 DEF FsInv, LocksOK, Unlocked
    <3> QED BY <3>1, <3>2
  <2>3. ~(i = w_no /\ \E p \in Writers : pc[p] = "grow")
    BY <2>1 DEF FsInv, LocksOK, Unlocked
  <2> QED BY <2>1, <2>2, <2>3 DEF TableOK
<1> QED BY <1>1, <1>2, <1>3, FsInvariant, PTL DEF Spec

-----------------------------------------------------------------------------
(* Files: no inode leaks *)

\* Entry k of directory i is the name of x; x is a directory; x has . and ..
Leads(i, k, x) == Link(i, k) /\ entries[i][k].i_no = x
IsDir(x) == x = 0 \/ \E i \in Inodes, k \in Nat : Leads(i, k, x) /\ entries[i][k].f_type = "FT_DIR"
HasDots(x) ==
    \E a, b \in DOMAIN entries[x] : entries[x][a].filename = "." /\ entries[x][b].filename = ".."

\* No name leads to the root; a regular file has no entries, and a directory that is
\* neither being made nor removed has . and ..
KindsOK ==
    \A i \in Inodes, k \in Nat : Link(i, k) =>
        /\ entries[i][k].i_no # 0
        /\ entries[i][k].f_type = "FT_REG" => entries[entries[i][k].i_no] = <<>>
        /\ entries[i][k].f_type = "FT_DIR" =>
              HasDots(entries[i][k].i_no)
              \/ (pc[maker] \in {"dot", "ddot", "del"} /\ entries[i][k].i_no = op.i_no)

\* Entries are added to directories, and only what has none is removed.
PlacesOK ==
    /\ pc[maker] # "user" => IsDir(op.dir)
    /\ pc[maker] \in {"dot", "ddot", "empty"} => IsDir(op.i_no)
    /\ New \/ pc[maker] = "retype" => entries[op.i_no] = <<>>
    /\ pc[maker] = "ddot" => \E a \in DOMAIN entries[op.i_no] : entries[op.i_no][a].filename = "."
    /\ pc[maker] \in {"bfree", "trunc"} => \A k \in Nat : ~Link(op.i_no, k)

\* What is allocated has a name, or is about to get one or to be given back.
UsedOK ==
    \A x \in inode_bitmap : x = 0 \/ (New /\ x = op.i_no) \/ \E i \in Inodes, k \in Nat : Leads(i, k, x)

LeakInv == KindsOK /\ PlacesOK /\ UsedOK

\* A name of a directory says that it is one.
LEMMA DirLink ==
    ASSUME FsInv, KindsOK, NEW i \in Inodes, NEW k \in Nat, Link(i, k), IsDir(entries[i][k].i_no)
    PROVE  entries[i][k].f_type = "FT_DIR"
<1>1. entries[i][k].i_no # 0
  BY DEF KindsOK
<1>2. PICK j \in Inodes, l \in Nat : Leads(j, l, entries[i][k].i_no) /\ entries[j][l].f_type = "FT_DIR"
  BY <1>1 DEF IsDir
<1>3. i = j /\ k = l
  BY <1>2 DEF FsInv, LinksOK, Leads
<1> QED BY <1>2, <1>3

\* The kind of an entry.
LEMMA KindOf ==
    ASSUME FsInv, NEW i \in Inodes, NEW k \in DOMAIN entries[i]
    PROVE  entries[i][k].f_type \in {"FT_REG", "FT_DIR"} /\ k \in Nat /\ entries[i][k].i_no \in Inodes
<1>1. entries[i][k] \in Dirent /\ k \in Nat
  BY EntryFacts
<1> QED BY <1>1 DEF Dirent

LEMMA NoEntries ==
    ASSUME NEW i, entries[i] = <<>>
    PROVE  \A k : ~Link(i, k)
BY DEF Link

\* Steps that change no entry.
LEMMA EntriesSame ==
    ASSUME entries' = entries
    PROVE  /\ \A i, k : Link(i, k)' = Link(i, k)
           /\ \A i, k, x : Leads(i, k, x)' = Leads(i, k, x)
           /\ \A x : IsDir(x)' = IsDir(x)
           /\ \A x : HasDots(x)' = HasDots(x)
<1>1. \A i, k : Link(i, k)' = Link(i, k)
  BY DEF Link
<1>2. \A i, k, x : Leads(i, k, x)' = Leads(i, k, x)
  BY <1>1 DEF Leads
<1>3. \A x : IsDir(x)' = IsDir(x)
  BY <1>2 DEF IsDir
<1>4. \A x : HasDots(x)' = HasDots(x)
  BY DEF HasDots
<1> QED BY <1>1, <1>2, <1>3, <1>4

LEMMA LeakSame ==
    ASSUME LeakInv, UNCHANGED <<entries, inode_bitmap, op>>, pc'[maker] = pc[maker]
    PROVE  LeakInv'
<1>1. New' = New
  BY DEF New
<1>2. KindsOK'
  BY EntriesSame DEF LeakInv, KindsOK
<1>3. PlacesOK'
  BY <1>1, EntriesSame DEF LeakInv, PlacesOK
<1>4. UsedOK'
  BY <1>1, EntriesSame DEF LeakInv, UsedOK
<1> QED BY <1>2, <1>3, <1>4 DEF LeakInv

LEMMA LeakControl ==
    ASSUME FsInv, LeakInv, entries' = entries, pc[maker] \notin {"dot", "ddot", "del"},
           PlacesOK',
           \A x \in inode_bitmap' : x \in inode_bitmap \/ (New' /\ x = op'.i_no),
           New => (New' /\ op'.i_no = op.i_no) \/ op.i_no \notin inode_bitmap'
    PROVE  LeakInv'
<1>1. KindsOK'
  BY EntriesSame DEF LeakInv, KindsOK
<1>2. UsedOK'
  BY EntriesSame DEF LeakInv, UsedOK
<1> QED BY <1>1, <1>2 DEF LeakInv

\* Between two calls there is nothing to say.
LEMMA UserPlaces ==
    ASSUME pc'[maker] = "user"
    PROVE  PlacesOK' /\ ~New'
BY DEF PlacesOK, New

LEMMA LeakCall ==
    ASSUME FsInv, LeakInv, NEW call \in Calls, NEW path \in Paths, Call(call, path)
    PROVE  LeakInv'
<1>1. /\ pc[maker] = "user" /\ pc' = [pc EXCEPT ![maker] = "path"]
      /\ op' = [call |-> call, path |-> path, dir |-> 0, i_no |-> 0]
      /\ entries' = entries /\ inode_bitmap' = inode_bitmap
  BY DEF Call, MakerTo, Goto, disk
<1>2. pc'[maker] = "path" /\ ~New /\ ~New' /\ op'.dir = 0
  BY <1>1, FsNow DEF New
<1>3. PlacesOK'
  BY <1>1, <1>2 DEF PlacesOK, IsDir
<1> QED BY <1>1, <1>2, <1>3, LeakControl

LEMMA LeakPath ==
    ASSUME FsInv, LeakInv, PathDown \/ PathStuck \/ PathMissing \/ PathFound
    PROVE  LeakInv'
<1>1. /\ pc[maker] = "path" /\ entries' = entries /\ inode_bitmap' = inode_bitmap
      /\ ~New /\ ~Unlinking /\ Head(op.path) \in Names /\ IsDir(op.dir)
  <2>1. pc[maker] = "path" /\ entries' = entries /\ inode_bitmap' = inode_bitmap
    BY DEF PathDown, PathStuck, PathMissing, PathFound, MakerTo, Goto, disk
  <2>2. IsDir(op.dir)
    BY <2>1 DEF LeakInv, PlacesOK
  <2> QED BY <2>1, <2>2, PathFacts DEF New
<1>2. PlacesOK'
  <2>1. CASE PathDown
    <3> DEFINE de == dirent(op.dir, Head(op.path))
               to == IF de.f_type = "FT_DIR" THEN "path" ELSE "user"
               o == [op EXCEPT !.dir = de.i_no, !.path = Tail(op.path)]
    <3>1. /\ pc' = [pc EXCEPT ![maker] = to] /\ op' = IF to = "user" THEN NoCall ELSE o
          /\ Matching(op.dir, Head(op.path)) # {}
      BY <2>1 DEF PathDown, MakerTo, Goto
    <3>2. PICK k \in DOMAIN entries[op.dir] :
             dirent(op.dir, Head(op.path)) = entries[op.dir][k] /\ entries[op.dir][k].filename = Head(op.path)
      <4>1. Matching(op.dir, Head(op.path)) # {} /\ op.dir \in Inodes
        BY <3>1, FsNow
      <4> QED BY <4>1, DirentFacts
    <3>3. k \in Nat /\ Link(op.dir, k)
      BY <1>1, <3>2, EntryFacts, FsNow DEF Link, Names
    <3>4. de.f_type = "FT_DIR" => IsDir(de.i_no)
      BY <3>2, <3>3, FsNow DEF IsDir, Leads
    <3>5. to \in {"path", "user"} /\ (to = "path" => de.f_type = "FT_DIR") /\ o.dir = de.i_no
      BY OpFacts DEF OpSet
    <3> HIDE DEF de, to, o
    <3>6. pc'[maker] = to
      BY <3>1, FsNow
    <3>7. CASE to = "user"
      BY <3>6, <3>7, UserPlaces
    <3>8. CASE to = "path"
      <4>1. op'.dir = de.i_no /\ ~New'
        BY <3>1, <3>5, <3>6, <3>8 DEF New
      <4>2. IsDir(op'.dir)
        BY <3>4, <3>5, <3>8, <4>1
      <4>3. IsDir(op.dir)'
        BY <1>1, <4>2 DEF IsDir, Leads, Link
      <4> QED BY <3>6, <3>8, <4>1, <4>3 DEF PlacesOK
    <3> QED BY <3>5, <3>7, <3>8
  <2>2. CASE PathStuck \/ PathMissing
    <3>1. PICK to \in {"stuck", "alloc", "user"} : pc' = [pc EXCEPT ![maker] = to] /\ (to # "user" => op' = op)
      <4>1. CASE PathStuck
        BY <4>1 DEF PathStuck, MakerTo, Goto
      <4>2. CASE PathMissing
        BY <4>2 DEF PathMissing, MakerTo, Goto
      <4> QED BY <2>2, <4>1, <4>2
    <3>2. pc'[maker] = to
      BY <3>1, FsNow
    <3>3. CASE to = "user"
      BY <3>2, <3>3, UserPlaces
    <3>4. CASE to # "user"
      <4>1. IsDir(op.dir)'
        BY <1>1, <3>1, <3>4 DEF IsDir, Leads, Link
      <4> QED BY <3>1, <3>2, <3>4, <4>1 DEF PlacesOK, New
    <3> QED BY <3>3, <3>4
  <2>3. CASE PathFound
    <3> DEFINE de == dirent(op.dir, Name)
               to == CASE op.call = "unlink" /\ de.f_type # "FT_DIR" -> "bfree"
                       [] op.call = "rmdir"  /\ de.f_type = "FT_DIR" -> "empty"
                       [] OTHER -> "user"
               o == [op EXCEPT !.i_no = de.i_no]
    <3>1. /\ pc' = [pc EXCEPT ![maker] = to] /\ op' = IF to = "user" THEN NoCall ELSE o
          /\ Matching(op.dir, Name) # {}
      BY <2>3 DEF PathFound, MakerTo, Goto
    <3>2. PICK k \in DOMAIN entries[op.dir] :
             dirent(op.dir, Name) = entries[op.dir][k] /\ entries[op.dir][k].filename = Name
      <4>1. Matching(op.dir, Name) # {} /\ op.dir \in Inodes
        BY <3>1, FsNow
      <4> QED BY <4>1, DirentFacts
    <3>3. k \in Nat /\ Link(op.dir, k) /\ de.f_type \in {"FT_REG", "FT_DIR"} /\ de.i_no \in Inodes
      BY <1>1, <3>2, KindOf, FsNow DEF Link, Names, Name
    <3>4. de.f_type = "FT_DIR" => IsDir(de.i_no)
      BY <3>2, <3>3, FsNow DEF IsDir, Leads
    <3>5. de.f_type = "FT_REG" => entries[de.i_no] = <<>>
      BY <3>2, <3>3, FsNow DEF LeakInv, KindsOK
    <3>6. /\ to \in {"bfree", "empty", "user"} /\ (to = "bfree" => op.call = "unlink" /\ de.f_type # "FT_DIR")
          /\ (to = "empty" => op.call = "rmdir" /\ de.f_type = "FT_DIR")
      OBVIOUS
    <3>7. o.i_no = de.i_no /\ o.dir = op.dir /\ o.call = op.call
      BY <3>3, OpFacts
    <3> HIDE DEF de, to, o
    <3>8. pc'[maker] = to
      BY <3>1, FsNow
    <3>9. CASE to = "user"
      BY <3>8, <3>9, UserPlaces
    <3>10. CASE to # "user"
      <4>1. op'.i_no = de.i_no /\ op'.dir = op.dir /\ ~New'
        BY <3>1, <3>6, <3>7, <3>8, <3>10 DEF New
      <4>2. IsDir(op.dir)' /\ (to = "empty" => IsDir(op.i_no)')
        <5>1. IsDir(op'.dir) /\ (to = "empty" => IsDir(op'.i_no))
          BY <1>1, <3>4, <3>6, <4>1
        <5> QED BY <1>1, <5>1 DEF IsDir, Leads, Link
      <4>3. to = "bfree" => \A h \in Nat : ~Link(op.i_no, h)'
        <5>1. to = "bfree" => \A h \in Nat : ~Link(op'.i_no, h)
          BY <3>3, <3>5, <3>6, <4>1, NoEntries
        <5> QED BY <1>1, <5>1 DEF Link
      <4> QED BY <3>6, <3>8, <3>10, <4>1, <4>2, <4>3 DEF PlacesOK
    <3> QED BY <3>9, <3>10
  <2> QED BY <2>1, <2>2, <2>3
<1> QED BY <1>1, <1>2, LeakControl

LEMMA LeakAlloc ==
    ASSUME FsInv, FsInv', LeakInv, AllocInode \/ AllocFull \/ ZeroDone
    PROVE  LeakInv'
<1>1. CASE AllocInode
  <2> DEFINE x == Min(Inodes \ inode_bitmap)
             o == [op EXCEPT !.i_no = x]
  <2>1. /\ pc[maker] = "alloc" /\ pc' = [pc EXCEPT ![maker] = "zero"] /\ op' = o /\ entries' = entries
        /\ inode_bitmap' = inode_bitmap \cup {x}
    BY <1>1 DEF AllocInode, MakerTo, Goto
  <2>2. o.dir = op.dir /\ o.i_no = x
    BY OpFacts DEF OpSet
  <2> HIDE DEF x, o
  <2>3. pc'[maker] = "zero" /\ ~New /\ New'
    BY <2>1, FsNow DEF New
  <2>4. entries'[op'.i_no] = <<>>
    BY <2>3 DEF FsInv, SizesOK
  <2>5. IsDir(op.dir)'
    <3>1. IsDir(op'.dir)
      BY <2>1, <2>2 DEF LeakInv, PlacesOK
    <3> QED BY <2>1, <3>1 DEF IsDir, Leads, Link
  <2>6. PlacesOK'
    BY <2>3, <2>4, <2>5 DEF PlacesOK
  <2> QED BY <2>1, <2>2, <2>3, <2>6, LeakControl
<1>2. CASE AllocFull
  <2>1. /\ pc[maker] = "alloc" /\ pc' = [pc EXCEPT ![maker] = "user"] /\ UNCHANGED <<entries, inode_bitmap>>
    BY <1>2 DEF AllocFull, MakerTo, Goto, disk
  <2>2. pc'[maker] = "user" /\ ~New
    BY <2>1, FsNow DEF New
  <2> QED BY <2>1, <2>2, UserPlaces, LeakControl
<1>3. CASE ZeroDone
  <2>1. /\ pc[maker] = "zero" /\ pc' = [pc EXCEPT ![maker] = "add"] /\ op' = op
        /\ UNCHANGED <<entries, inode_bitmap>>
    BY <1>3 DEF ZeroDone, MakerTo, Goto
  <2>2. pc'[maker] = "add" /\ New /\ New'
    BY <2>1, FsNow DEF New
  <2>3. IsDir(op.dir)' /\ entries'[op'.i_no] = <<>>
    <3>1. IsDir(op'.dir) /\ entries[op.i_no] = <<>>
      BY <2>1, <2>2 DEF LeakInv, PlacesOK
    <3> QED BY <2>1, <3>1 DEF IsDir, Leads, Link
  <2>4. PlacesOK'
    BY <2>2, <2>3 DEF PlacesOK
  <2> QED BY <2>1, <2>2, <2>4, LeakControl
<1> QED BY <1>1, <1>2, <1>3

LEMMA LeakRemove ==
    ASSUME FsInv, LeakInv, AddFailed \/ EmptyTest \/ FreeInode
    PROVE  LeakInv'
<1>1. CASE AddFailed
  <2> DEFINE o == [op EXCEPT !.call = "undo"]
  <2>1. /\ pc[maker] = "add" /\ pc' = [pc EXCEPT ![maker] = "bfree"] /\ op' = o
        /\ UNCHANGED <<entries, inode_bitmap>>
    BY <1>1 DEF AddFailed, MakerTo, Goto, disk
  <2>2. o.dir = op.dir /\ o.i_no = op.i_no /\ o.call = "undo"
    BY OpFacts DEF OpSet
  <2> HIDE DEF o
  <2>3. pc'[maker] = "bfree" /\ New /\ New'
    BY <2>1, <2>2, FsNow DEF New
  <2>4. IsDir(op.dir)' /\ entries'[op'.i_no] = <<>> /\ \A k \in Nat : ~Link(op.i_no, k)'
    <3>1. IsDir(op'.dir) /\ entries[op.i_no] = <<>>
      BY <2>1, <2>2, <2>3 DEF LeakInv, PlacesOK
    <3>2. \A k \in Nat : ~Link(op'.i_no, k)
      BY <2>1, <2>2, <3>1, NoEntries
    <3> QED BY <2>1, <2>2, <3>1, <3>2 DEF IsDir, Leads, Link
  <2>5. PlacesOK'
    BY <2>3, <2>4 DEF PlacesOK
  <2> QED BY <2>1, <2>2, <2>3, <2>5, LeakControl
<1>2. CASE EmptyTest
  <2> DEFINE to == IF disk_inode[op.i_no].size = 2 THEN "bfree" ELSE "user"
  <2>1. /\ pc[maker] = "empty" /\ pc' = [pc EXCEPT ![maker] = to] /\ op' = IF to = "user" THEN NoCall ELSE op
        /\ UNCHANGED <<entries, inode_bitmap>>
    BY <1>2 DEF EmptyTest, MakerTo, Goto, disk
  <2>2. to \in {"bfree", "user"} /\ (to = "bfree" => disk_inode[op.i_no].size = 2)
    OBVIOUS
  <2> HIDE DEF to
  <2>3. pc'[maker] = to /\ ~New
    BY <2>1, FsNow DEF New
  <2>4. CASE to = "user"
    BY <2>1, <2>3, <2>4, UserPlaces, LeakControl
  <2>5. CASE to = "bfree"
    <3>1. ~Busy /\ op.i_no \in Inodes \ {0, w_no} /\ op.call # "undo" /\ op' = op
      BY <2>1, <2>5, FsNow DEF FsInv, PcOK, OpOK, HasInode, Labels, Special
    <3>2. Len(entries[op.i_no]) = 2
      BY <2>2, <2>5, <3>1, DirSize
    <3>3. HasDots(op.i_no)
      <4>1. PICK j \in Inodes, l \in Nat : Leads(j, l, op.i_no) /\ entries[j][l].f_type = "FT_DIR"
        BY <2>1, <3>1 DEF LeakInv, PlacesOK, IsDir
      <4> QED BY <2>1, <4>1 DEF LeakInv, KindsOK, Leads
    <3>4. DOMAIN entries[op.i_no] = {1, 2}
      BY <3>1, <3>2, EntryFacts
    <3>5. \A k \in Nat : ~Link(op.i_no, k)
      BY <3>3, <3>4 DEF HasDots, Link
    <3>6. IsDir(op.dir)
      BY <2>1 DEF LeakInv, PlacesOK
    <3>7. ~New'
      BY <2>3, <2>5, <3>1 DEF New
    <3>8. PlacesOK'
      BY <2>1, <2>3, <2>5, <3>1, <3>5, <3>6, <3>7, EntriesSame DEF PlacesOK
    <3> QED BY <2>1, <2>3, <3>8, LeakControl
  <2> QED BY <2>2, <2>4, <2>5
<1>3. CASE FreeInode
  <2>1. /\ pc[maker] = "bfree" /\ pc' = [pc EXCEPT ![maker] = "trunc"] /\ op' = op
        /\ entries' = entries /\ inode_bitmap' = inode_bitmap \ {op.i_no}
    BY <1>3 DEF FreeInode, MakerTo, Goto
  <2>2. pc'[maker] = "trunc" /\ New' = New
    BY <2>1, FsNow DEF New
  <2>3. PlacesOK'
    BY <2>1, <2>2, EntriesSame DEF LeakInv, PlacesOK
  <2> QED BY <2>1, <2>2, <2>3, LeakControl
<1> QED BY <1>1, <1>2, <1>3

\* dirent_add() keeps the entries that are there, and adds one.
LEMMA AddLinks ==
    ASSUME FsInv, AddDone, NEW g, g = Len(entries[Target(maker)]) + 1
    PROVE  /\ g \in Nat /\ entries'[Target(maker)][g] = NewDirent /\ g \in DOMAIN entries'[Target(maker)]
           /\ \A i \in Inodes : \A k \in DOMAIN entries[i] :
                 k \in DOMAIN entries'[i] /\ entries'[i][k] = entries[i][k]
           /\ \A i \in Inodes : \A k \in DOMAIN entries'[i] :
                 \/ k \in DOMAIN entries[i] /\ entries'[i][k] = entries[i][k]
                 \/ i = Target(maker) /\ k = g
           /\ \A i \in Inodes : \A k \in Nat : Link(i, k) => Link(i, k)' /\ entries'[i][k] = entries[i][k]
           /\ \A i \in Inodes : \A k \in Nat : Link(i, k)' =>
                 \/ Link(i, k) /\ entries'[i][k] = entries[i][k]
                 \/ i = Target(maker) /\ k = g
           /\ \A x : IsDir(x) => IsDir(x)'
           /\ \A x \in Inodes : HasDots(x) => HasDots(x)'
<1> DEFINE d == Target(maker)
           n == Len(entries[d])
<1>1. /\ d \in Inodes /\ n \in Nat
      /\ \A i \in Inodes \ {d} : entries'[i] = entries[i]
      /\ DOMAIN entries'[d] = 1..n + 1 /\ DOMAIN entries[d] = 1..n
      /\ \A k \in 1..n : entries'[d][k] = entries[d][k]
      /\ entries'[d][n + 1] = NewDirent
  BY AddEntries
<1> HIDE DEF d
<1>2. /\ g \in Nat /\ entries'[d][g] = NewDirent
      /\ g \in DOMAIN entries'[d]
  BY <1>1 DEF d
<1>3. \A k : k \in 1..n + 1 <=> k \in 1..n \/ k = g
  BY <1>1 DEF d
<1> HIDE DEF n
<1>4. ASSUME NEW i \in Inodes, NEW k \in DOMAIN entries[i]
      PROVE  k \in DOMAIN entries'[i] /\ entries'[i][k] = entries[i][k]
  BY <1>1, <1>3, <1>4
<1>5. ASSUME NEW i \in Inodes, NEW k \in DOMAIN entries'[i]
      PROVE  (k \in DOMAIN entries[i] /\ entries'[i][k] = entries[i][k]) \/ (i = d /\ k = g)
  BY <1>1, <1>3, <1>5
<1>6. \A i \in Inodes : \A k \in Nat : Link(i, k) => Link(i, k)' /\ entries'[i][k] = entries[i][k]
  BY <1>4 DEF Link
<1>7. \A i \in Inodes : \A k \in Nat : Link(i, k)' =>
         (Link(i, k) /\ entries'[i][k] = entries[i][k]) \/ (i = d /\ k = g)
  BY <1>5 DEF Link
<1>8. \A x : IsDir(x) => IsDir(x)'
  BY <1>6 DEF IsDir, Leads
<1>9. \A x \in Inodes : HasDots(x) => HasDots(x)'
  BY <1>4 DEF HasDots
<1> QED BY <1>2, <1>4, <1>5, <1>6, <1>7, <1>8, <1>9 DEF d

\* Where dirent_add() adds what.
LEMMA AddCases ==
    ASSUME FsInv, LeakInv, AddDone
    PROVE  /\ pc[maker] \in Adding /\ pc'[maker] = Added /\ op' = (IF Added = "user" THEN NoCall ELSE op)
           /\ inode_bitmap' = inode_bitmap /\ Target(maker) \in Inodes /\ IsDir(Target(maker)) /\ IsDir(op.dir)
           /\ op.i_no \in Inodes \ {0} /\ op.i_no # op.dir /\ op.dir \in Inodes
           /\ pc[maker] = "add" => /\ Added \in {"retype", "user"} /\ New /\ Target(maker) = op.dir
                                   /\ NewDirent = [filename |-> Name, i_no |-> op.i_no, f_type |-> "FT_REG"]
           /\ pc[maker] = "readd" => /\ Added = "dot" /\ New /\ Target(maker) = op.dir
                                     /\ NewDirent = [filename |-> Name, i_no |-> op.i_no, f_type |-> "FT_DIR"]
           /\ pc[maker] = "dot" => Added = "ddot" /\ Target(maker) = op.i_no /\ NewDirent.filename = "." /\ ~New
           /\ pc[maker] = "ddot" => Added = "user" /\ Target(maker) = op.i_no /\ NewDirent.filename = ".." /\ ~New
           /\ Name \notin {".", ".."}
<1>1. /\ pc[maker] \in Adding /\ pc' = [pc EXCEPT ![maker] = Added]
      /\ op' = (IF Added = "user" THEN NoCall ELSE op) /\ inode_bitmap' = inode_bitmap
  BY DEF AddDone, MakerTo, Goto
<1>2. pc'[maker] = Added
  BY <1>1, FsNow
<1>3. op.i_no \in Inodes \ {0} /\ op.i_no # op.dir /\ op.dir \in Inodes
  BY <1>1, FsNow DEF FsInv, OpOK, HasInode, Labels, Adding, Special
<1>4. Name \notin {".", ".."}
  <2>1. Name \in Names
    BY <1>1, NewDirentFacts
  <2> QED BY <2>1 DEF Names
<1>5. IsDir(op.dir) /\ (pc[maker] \in {"dot", "ddot"} => IsDir(op.i_no))
  BY <1>1 DEF LeakInv, PlacesOK, Adding
<1>6. /\ pc[maker] \in {"add", "readd"} => Target(maker) = op.dir
      /\ pc[maker] \in {"dot", "ddot"} => Target(maker) = op.i_no
  BY TargetIs
<1>7. Target(maker) \in Inodes /\ IsDir(Target(maker))
  BY <1>1, <1>3, <1>5, <1>6 DEF Adding
<1>8. CASE pc[maker] = "add"
  BY <1>1, <1>2, <1>3, <1>4, <1>5, <1>6, <1>7, <1>8 DEF NewDirent, Added, New
<1>9. CASE pc[maker] = "readd"
  BY <1>1, <1>2, <1>3, <1>4, <1>5, <1>6, <1>7, <1>9 DEF NewDirent, Added, New
<1>10. CASE pc[maker] = "dot"
  BY <1>1, <1>2, <1>3, <1>4, <1>5, <1>6, <1>7, <1>10 DEF NewDirent, Added, New
<1>11. CASE pc[maker] = "ddot"
  BY <1>1, <1>2, <1>3, <1>4, <1>5, <1>6, <1>7, <1>11 DEF NewDirent, Added, New
<1> QED BY <1>1, <1>8, <1>9, <1>10, <1>11 DEF Adding

LEMMA LeakAddDone ==
    ASSUME FsInv, LeakInv, AddDone
    PROVE  LeakInv'
<1> DEFINE e == NewDirent
<1>1. PICK d \in Inodes, g \in Nat, x \in Inodes :
         d = Target(maker) /\ g = Len(entries[Target(maker)]) + 1 /\ x = op.i_no
  <2>1. Target(maker) \in Inodes /\ Len(entries[Target(maker)]) \in Nat /\ op.i_no \in Inodes
    BY AddEntries, FsNow
  <2>2. Len(entries[Target(maker)]) + 1 \in Nat
    BY <2>1
  <2> QED BY <2>1, <2>2
<1>2. /\ pc[maker] \in Adding /\ pc'[maker] = Added /\ op' = (IF Added = "user" THEN NoCall ELSE op)
      /\ inode_bitmap' = inode_bitmap /\ IsDir(d) /\ IsDir(op.dir)
      /\ x # 0 /\ x # op.dir /\ op.dir \in Inodes
      /\ pc[maker] = "add" => /\ Added \in {"retype", "user"} /\ New /\ d = op.dir
                              /\ e = [filename |-> Name, i_no |-> x, f_type |-> "FT_REG"]
      /\ pc[maker] = "readd" => /\ Added = "dot" /\ New /\ d = op.dir
                                /\ e = [filename |-> Name, i_no |-> x, f_type |-> "FT_DIR"]
      /\ pc[maker] = "dot" => Added = "ddot" /\ d = x /\ e.filename = "." /\ ~New
      /\ pc[maker] = "ddot" => Added = "user" /\ d = x /\ e.filename = ".." /\ ~New
      /\ Name \notin {".", ".."}
  BY <1>1, AddCases
<1>3. /\ entries'[d][g] = e /\ g \in DOMAIN entries'[d]
      /\ \A i \in Inodes : \A k \in DOMAIN entries[i] :
            k \in DOMAIN entries'[i] /\ entries'[i][k] = entries[i][k]
      /\ \A i \in Inodes : \A k \in Nat : Link(i, k) => Link(i, k)' /\ entries'[i][k] = entries[i][k]
      /\ \A i \in Inodes : \A k \in Nat : Link(i, k)' =>
            \/ Link(i, k) /\ entries'[i][k] = entries[i][k]
            \/ i = d /\ k = g
      /\ \A y : IsDir(y) => IsDir(y)'
      /\ \A y \in Inodes : HasDots(y) => HasDots(y)'
  BY <1>1, AddLinks
<1>4. \A i \in Inodes \ {d} : entries'[i] = entries[i]
  BY <1>1, AddEntries
<1> HIDE DEF e
<1>5. ASSUME pc[maker] \in {"add", "readd"}
      PROVE  /\ Link(d, g)' /\ entries'[d][g].i_no = x /\ New /\ entries'[x] = <<>>
             /\ (pc[maker] = "readd" => entries'[d][g].f_type = "FT_DIR")
             /\ (pc[maker] = "add" => entries'[d][g].f_type = "FT_REG")
  <2>1. /\ New /\ x # d /\ e.filename = Name /\ e.i_no = x
        /\ (pc[maker] = "readd" => e.f_type = "FT_DIR") /\ (pc[maker] = "add" => e.f_type = "FT_REG")
    BY <1>2, <1>5
  <2>2. entries[x] = <<>>
    BY <1>1, <2>1 DEF LeakInv, PlacesOK
  <2>3. entries'[d][g] = e /\ g \in DOMAIN entries'[d] /\ Name \notin {".", ".."}
    BY <1>2, <1>3
  <2>4. Link(d, g)'
    BY <2>1, <2>3 DEF Link
  <2> QED BY <1>4, <2>1, <2>2, <2>3, <2>4
<1>6. pc[maker] \in {"dot", "ddot"} => ~Link(d, g)'
  BY <1>2, <1>3 DEF Link
<1>7. ASSUME pc[maker] = "ddot" PROVE HasDots(x)'
  <2>1. PICK a \in DOMAIN entries[x] : entries[x][a].filename = "."
    BY <1>1, <1>7 DEF LeakInv, PlacesOK
  <2>2. a \in DOMAIN entries'[x] /\ entries'[x][a].filename = "."
    BY <1>3, <2>1
  <2>3. g \in DOMAIN entries'[x] /\ entries'[x][g].filename = ".."
    BY <1>2, <1>3, <1>7
  <2> QED BY <2>2, <2>3 DEF HasDots
<1>8. ASSUME NEW i \in Inodes, NEW k \in Nat, Link(i, k)'
      PROVE  /\ entries'[i][k].i_no # 0
             /\ entries'[i][k].f_type = "FT_REG" => entries'[entries'[i][k].i_no] = <<>>
             /\ entries'[i][k].f_type = "FT_DIR" =>
                   HasDots(entries[i][k].i_no)'
                   \/ (pc'[maker] \in {"dot", "ddot", "del"} /\ entries'[i][k].i_no = op'.i_no)
  <2>1. CASE Link(i, k) /\ entries'[i][k] = entries[i][k]
    <3>1. PICK y : y = entries[i][k].i_no
      OBVIOUS
    <3>2. y \in Inodes /\ y # 0
      BY <2>1, <3>1, KindOf DEF LeakInv, KindsOK, Link
    <3>3. ASSUME entries[i][k].f_type = "FT_REG" PROVE entries'[y] = <<>>
      <4>1. entries[y] = <<>>
        BY <2>1, <3>1, <3>3 DEF LeakInv, KindsOK
      <4>2. y # d
        BY <1>2, <2>1, <3>1, <3>3, DirLink DEF LeakInv
      <4> QED BY <1>4, <3>2, <4>1, <4>2
    <3>4. ASSUME entries[i][k].f_type = "FT_DIR"
          PROVE  HasDots(y)' \/ (pc'[maker] \in {"dot", "ddot", "del"} /\ y = op'.i_no)
      <4>1. CASE HasDots(y)
        BY <1>3, <3>2, <4>1
      <4>2. CASE ~HasDots(y)
        <5>1. pc[maker] \in {"dot", "ddot", "del"} /\ y = x
          BY <1>1, <2>1, <3>1, <3>4, <4>2 DEF LeakInv, KindsOK
        <5>2. CASE pc[maker] = "dot"
          BY <1>1, <1>2, <5>1, <5>2
        <5>3. CASE pc[maker] = "ddot"
          BY <1>7, <5>1, <5>3
        <5> QED BY <1>2, <5>1, <5>2, <5>3 DEF Adding
      <4> QED BY <4>1, <4>2
    <3>5. HasDots(entries[i][k].i_no)' = HasDots(y)'
      BY <2>1, <3>1 DEF HasDots
    <3> QED BY <2>1, <3>1, <3>2, <3>3, <3>4, <3>5
  <2>2. CASE i = d /\ k = g
    <3>1. pc[maker] \in {"add", "readd"}
      BY <1>2, <1>6, <1>8, <2>2 DEF Adding
    <3>2. entries'[i][k].i_no = x /\ entries'[x] = <<>>
          /\ (pc[maker] = "add" => entries'[i][k].f_type = "FT_REG")
      BY <1>5, <2>2, <3>1
    <3>3. CASE pc[maker] = "add"
      BY <1>2, <3>2, <3>3
    <3>4. CASE pc[maker] = "readd"
      BY <1>1, <1>2, <3>2, <3>4
    <3> QED BY <3>1, <3>3, <3>4
  <2> QED BY <1>3, <1>8, <2>1, <2>2
<1>9. KindsOK'
  BY <1>8 DEF KindsOK
<1>10. PlacesOK'
  <2>1. CASE Added = "user"
    BY <1>2, <2>1, UserPlaces
  <2>2. CASE Added # "user"
    <3>1. op' = op /\ Added \in {"retype", "dot", "ddot"} /\ ~New'
      BY <1>2, <2>2 DEF Adding, New
    <3>2. PICK c : c = op.dir
      OBVIOUS
    <3>3. IsDir(op.dir)'
      <4>1. IsDir(c)'
        BY <1>2, <1>3, <3>2
      <4> QED BY <3>1, <3>2, <4>1 DEF IsDir
    <3>4. Added \in {"dot", "ddot"} => IsDir(op.i_no)'
      <4>1. CASE pc[maker] = "readd"
        <5>1. IsDir(x)'
          BY <1>5, <4>1 DEF IsDir, Leads
        <5> QED BY <1>1, <3>1, <5>1 DEF IsDir
      <4>2. CASE pc[maker] = "dot"
        <5>1. IsDir(x)'
          BY <1>2, <1>3, <4>2
        <5> QED BY <1>1, <3>1, <5>1 DEF IsDir
      <4> QED BY <1>2, <4>1, <4>2 DEF Adding
    <3>5. Added = "retype" => entries'[op'.i_no] = <<>>
      BY <1>1, <1>2, <1>5, <3>1 DEF Adding
    <3>6. Added = "ddot" => \E a \in DOMAIN entries'[op'.i_no] : entries'[op'.i_no][a].filename = "."
      BY <1>1, <1>2, <1>3, <3>1 DEF Adding
    <3> QED BY <1>2, <3>1, <3>3, <3>4, <3>5, <3>6 DEF PlacesOK
  <2> QED BY <2>1, <2>2
<1>11. UsedOK'
  <2> SUFFICES ASSUME NEW y \in inode_bitmap, y # 0 PROVE \E i \in Inodes, k \in Nat : Leads(i, k, y)'
    BY <1>2 DEF UsedOK
  <2>1. CASE New /\ y = op.i_no
    <3>1. pc[maker] \in {"add", "readd"}
      BY <1>2, <2>1 DEF Adding
    <3>2. Leads(d, g, y)'
      BY <1>1, <1>5, <2>1, <3>1 DEF Leads
    <3> QED BY <3>2
  <2>2. CASE \E i \in Inodes, k \in Nat : Leads(i, k, y)
    <3>1. PICK i \in Inodes, k \in Nat : Leads(i, k, y)
      BY <2>2
    <3>2. Leads(i, k, y)'
      BY <1>3, <3>1 DEF Leads
    <3> QED BY <3>2
  <2> QED BY <2>1, <2>2 DEF LeakInv, UsedOK
<1> QED BY <1>9, <1>10, <1>11 DEF LeakInv

LEMMA LeakTruncDone ==
    ASSUME FsInv, LeakInv, TruncDone
    PROVE  LeakInv'
<1> DEFINE to == IF op.call = "undo" THEN "user" ELSE "del"
<1>1. /\ pc[maker] = "trunc" /\ pc' = [pc EXCEPT ![maker] = to] /\ op' = IF to = "user" THEN NoCall ELSE op
      /\ entries' = [entries EXCEPT ![op.i_no] = <<>>] /\ inode_bitmap' = inode_bitmap
  BY DEF TruncDone, MakerTo, Goto
<1>2. PICK x \in Inodes : x = op.i_no
  BY FsNow
<1>3. entries'[x] = <<>> /\ \A i \in Inodes \ {x} : entries'[i] = entries[i]
  BY <1>1, <1>2, FsNow
<1>4. to \in {"user", "del"} /\ (to = "user" <=> op.call = "undo") /\ (to = "user" <=> New)
  BY <1>1 DEF New
<1> HIDE DEF to
<1>5. pc'[maker] = to /\ ~New'
  BY <1>1, <1>4, FsNow DEF New
<1>6. \A k \in Nat : ~Link(x, k)
  BY <1>1, <1>2 DEF LeakInv, PlacesOK
<1>7. /\ \A i \in Inodes : \A k \in Nat : Link(i, k)' => Link(i, k) /\ entries'[i] = entries[i]
      /\ \A i \in Inodes : \A k \in Nat : Link(i, k) => Link(i, k)' /\ entries'[i] = entries[i]
  <2>1. ASSUME NEW i \in Inodes, NEW k \in Nat, Link(i, k)' PROVE Link(i, k) /\ entries'[i] = entries[i]
    <3>1. i # x
      BY <1>3, <2>1 DEF Link
    <3> QED BY <1>3, <2>1, <3>1 DEF Link
  <2>2. ASSUME NEW i \in Inodes, NEW k \in Nat, Link(i, k) PROVE Link(i, k)' /\ entries'[i] = entries[i]
    <3>1. i # x
      BY <1>6, <2>2
    <3> QED BY <1>3, <2>2, <3>1 DEF Link
  <2> QED BY <2>1, <2>2
<1>8. ASSUME NEW i \in Inodes, NEW k \in Nat, Link(i, k)'
      PROVE  /\ entries'[i][k].i_no # 0
             /\ entries'[i][k].f_type = "FT_REG" => entries'[entries'[i][k].i_no] = <<>>
             /\ entries'[i][k].f_type = "FT_DIR" =>
                   HasDots(entries[i][k].i_no)'
                   \/ (pc'[maker] \in {"dot", "ddot", "del"} /\ entries'[i][k].i_no = op'.i_no)
  <2>1. Link(i, k) /\ entries'[i][k] = entries[i][k]
    BY <1>7, <1>8
  <2>2. PICK y : y = entries[i][k].i_no
    OBVIOUS
  <2>3. y \in Inodes /\ y # 0
    BY <2>1, <2>2, KindOf DEF LeakInv, KindsOK, Link
  <2>4. ASSUME entries[i][k].f_type = "FT_REG" PROVE entries'[y] = <<>>
    BY <1>3, <2>1, <2>2, <2>3, <2>4 DEF LeakInv, KindsOK
  <2>5. ASSUME entries[i][k].f_type = "FT_DIR"
        PROVE  HasDots(y)' \/ (pc'[maker] \in {"dot", "ddot", "del"} /\ y = op'.i_no)
    <3>1. CASE y = x
      <4>1. ~New
        BY <1>2, <2>1, <2>2, <3>1 DEF FsInv, OpOK
      <4> QED BY <1>1, <1>2, <1>4, <1>5, <3>1, <4>1
    <3>2. CASE y # x
      <4>1. HasDots(y)
        BY <1>1, <2>1, <2>2, <2>5 DEF LeakInv, KindsOK
      <4>2. entries'[y] = entries[y]
        BY <1>3, <2>3, <3>2
      <4> QED BY <4>1, <4>2 DEF HasDots
    <3> QED BY <3>1, <3>2
  <2>6. HasDots(entries[i][k].i_no)' = HasDots(y)'
    BY <2>1, <2>2 DEF HasDots
  <2> QED BY <2>1, <2>2, <2>3, <2>4, <2>5, <2>6
<1>9. KindsOK'
  BY <1>8 DEF KindsOK
<1>10. PlacesOK'
  <2>1. CASE to = "user"
    BY <1>5, <2>1, UserPlaces
  <2>2. CASE to = "del"
    <3>1. PICK c : c = op.dir
      OBVIOUS
    <3>2. IsDir(c)
      BY <1>1, <3>1 DEF LeakInv, PlacesOK
    <3>3. IsDir(c)'
      BY <1>7, <3>2 DEF IsDir, Leads
    <3>4. op' = op
      BY <1>1, <2>2
    <3>5. IsDir(op.dir)'
      BY <3>1, <3>3, <3>4 DEF IsDir
    <3> QED BY <1>5, <2>2, <3>5 DEF PlacesOK
  <2> QED BY <1>4, <2>1, <2>2
<1>11. UsedOK'
  <2> SUFFICES ASSUME NEW y \in inode_bitmap, y # 0 PROVE \E i \in Inodes, k \in Nat : Leads(i, k, y)'
    BY <1>1 DEF UsedOK
  <2>1. y # op.i_no
    BY <1>1 DEF FsInv, OpOK
  <2>2. PICK i \in Inodes, k \in Nat : Leads(i, k, y)
    BY <2>1 DEF LeakInv, UsedOK
  <2>3. Leads(i, k, y)'
    BY <1>7, <2>2 DEF Leads
  <2> QED BY <2>3
<1> QED BY <1>9, <1>10, <1>11 DEF LeakInv

\* dirent_delete() takes one entry away, and keeps the others.
LEMMA DelLinks ==
    ASSUME FsInv, DelDone
    PROVE  \E d \in Inodes, k \in Nat :
              /\ d = op.dir /\ Leads(d, k, op.i_no)
              /\ \A i \in Inodes \ {d} : entries'[i] = entries[i]
              /\ \A i \in Inodes : \A h \in DOMAIN entries[i] :
                    (i = d /\ h = k) \/ \E j \in DOMAIN entries'[i] : j \in Nat /\ entries'[i][j] = entries[i][h]
              /\ \A i \in Inodes : \A j \in DOMAIN entries'[i] :
                    \E h \in DOMAIN entries[i] : /\ h \in Nat /\ entries'[i][j] = entries[i][h]
                                                 /\ ~(i = d /\ h = k)
<1>1. PICK d \in Inodes : d = op.dir
  BY FsNow
<1>2. PICK k \in DOMAIN entries[op.dir] :
         LET n == Len(entries[op.dir])
         IN  /\ Link(op.dir, k) /\ entries[op.dir][k].i_no = op.i_no
             /\ k \in Nat /\ n \in Nat /\ k \in 1..n
             /\ entries' \in [Inodes -> Seq(Dirent)] /\ Len(entries'[op.dir]) = n - 1
             /\ \A i \in Inodes \ {op.dir} : entries'[i] = entries[i]
             /\ DOMAIN entries'[op.dir] = 1..n - 1 /\ DOMAIN entries[op.dir] = 1..n
             /\ \A j \in 1..n - 1 : /\ entries'[op.dir][j] = entries[op.dir][Source(k, n, j)]
                                    /\ Source(k, n, j) \in 1..n /\ Source(k, n, j) # k
             /\ \A i, j \in 1..n - 1 : Source(k, n, i) = Source(k, n, j) => i = j
  BY DelEntries
<1> DEFINE n == Len(entries[d])
<1>3. /\ Link(d, k) /\ entries[d][k].i_no = op.i_no /\ k \in Nat /\ n \in Nat /\ k \in 1..n
      /\ \A i \in Inodes \ {d} : entries'[i] = entries[i]
      /\ DOMAIN entries'[d] = 1..n - 1 /\ DOMAIN entries[d] = 1..n
      /\ \A j \in 1..n - 1 : entries'[d][j] = entries[d][Source(k, n, j)]
                             /\ Source(k, n, j) \in 1..n /\ Source(k, n, j) # k
  BY <1>1, <1>2
<1> HIDE DEF n
<1>4. ASSUME NEW h \in 1..n, h # k
      PROVE  \E j \in 1..n - 1 : Source(k, n, j) = h /\ j \in Nat
  <2>1. CASE h = n
    <3>1. k \in 1..n - 1 /\ Source(k, n, k) = h
      BY <1>3, <1>4, <2>1 DEF Source
    <3> QED BY <1>3, <3>1
  <2>2. CASE h # n
    <3>1. h \in 1..n - 1 /\ Source(k, n, h) = h /\ h \in Nat
      BY <1>3, <1>4, <2>2 DEF Source
    <3> QED BY <3>1
  <2> QED BY <2>1, <2>2
<1>5. ASSUME NEW i \in Inodes, NEW h \in DOMAIN entries[i], ~(i = d /\ h = k)
      PROVE  \E j \in DOMAIN entries'[i] : j \in Nat /\ entries'[i][j] = entries[i][h]
  <2>1. CASE i = d
    <3>1. PICK j \in 1..n - 1 : Source(k, n, j) = h /\ j \in Nat
      BY <1>3, <1>4, <1>5, <2>1
    <3> QED BY <1>3, <2>1, <3>1
  <2>2. CASE i # d
    BY <1>3, <1>5, <2>2, EntryFacts
  <2> QED BY <2>1, <2>2
<1>6. ASSUME NEW i \in Inodes, NEW j \in DOMAIN entries'[i]
      PROVE  \E h \in DOMAIN entries[i] : h \in Nat /\ entries'[i][j] = entries[i][h] /\ ~(i = d /\ h = k)
  <2>1. CASE i = d
    <3>1. Source(k, n, j) \in 1..n /\ Source(k, n, j) # k /\ entries'[d][j] = entries[d][Source(k, n, j)]
      BY <1>3, <1>6, <2>1
    <3>2. Source(k, n, j) \in Nat /\ Source(k, n, j) \in DOMAIN entries[d]
      BY <1>3, <3>1
    <3> QED BY <2>1, <3>1, <3>2
  <2>2. CASE i # d
    BY <1>3, <1>6, <2>2, EntryFacts
  <2> QED BY <2>1, <2>2
<1>7. Leads(d, k, op.i_no)
  BY <1>3 DEF Leads
<1>8. k \in Nat
  BY <1>3
<1>9. /\ \A i \in Inodes \ {d} : entries'[i] = entries[i]
      /\ \A i \in Inodes : \A h \in DOMAIN entries[i] :
            (i = d /\ h = k) \/ \E j \in DOMAIN entries'[i] : j \in Nat /\ entries'[i][j] = entries[i][h]
  BY <1>3, <1>5
<1>10. \A i \in Inodes : \A j \in DOMAIN entries'[i] :
          \E h \in DOMAIN entries[i] : h \in Nat /\ entries'[i][j] = entries[i][h] /\ ~(i = d /\ h = k)
  BY <1>6
<1> QED BY <1>1, <1>7, <1>8, <1>9, <1>10, Zenon

LEMMA LeakDelDone ==
    ASSUME FsInv, LeakInv, DelDone
    PROVE  LeakInv'
<1> DEFINE to == IF pc[maker] = "retype" THEN "readd" ELSE "user"
<1>1. /\ pc[maker] \in {"del", "retype"} /\ pc' = [pc EXCEPT ![maker] = to]
      /\ op' = IF to = "user" THEN NoCall ELSE op
      /\ inode_bitmap' = inode_bitmap
  BY DEF DelDone, MakerTo, Goto
<1>2. PICK d \in Inodes, k \in Nat :
         /\ d = op.dir /\ Leads(d, k, op.i_no)
         /\ \A i \in Inodes \ {d} : entries'[i] = entries[i]
         /\ \A i \in Inodes : \A h \in DOMAIN entries[i] :
               (i = d /\ h = k) \/ \E j \in DOMAIN entries'[i] : j \in Nat /\ entries'[i][j] = entries[i][h]
         /\ \A i \in Inodes : \A j \in DOMAIN entries'[i] :
               \E h \in DOMAIN entries[i] : /\ h \in Nat /\ entries'[i][j] = entries[i][h]
                                            /\ ~(i = d /\ h = k)
  BY DelLinks
<1>3. PICK x \in Inodes : x = op.i_no
  BY FsNow
<1>4. to \in {"readd", "user"} /\ (to = "readd" <=> pc[maker] = "retype")
  OBVIOUS
<1> HIDE DEF to
<1>5. pc'[maker] = to /\ ~New /\ (New' <=> to = "readd")
  BY <1>1, <1>4, FsNow DEF New
<1>6. x # d /\ IsDir(d) /\ Link(d, k) /\ entries[d][k].i_no = x
  <2>1. op.i_no # op.dir /\ IsDir(op.dir)
    BY <1>1 DEF FsInv, OpOK, HasInode, Labels, LeakInv, PlacesOK
  <2> QED BY <1>2, <1>3, <2>1 DEF Leads
<1>7. ASSUME NEW i \in Inodes, NEW h \in Nat, Link(i, h), ~(i = d /\ h = k)
      PROVE  \E j \in Nat : Link(i, j)' /\ entries'[i][j] = entries[i][h]
  <2>1. PICK j \in DOMAIN entries'[i] : j \in Nat /\ entries'[i][j] = entries[i][h]
    BY <1>2, <1>7 DEF Link
  <2>2. Link(i, j)'
    BY <1>7, <2>1 DEF Link
  <2> QED BY <2>1, <2>2
<1>8. ASSUME NEW i \in Inodes, NEW j \in Nat, Link(i, j)'
      PROVE  \E h \in Nat : Link(i, h) /\ entries'[i][j] = entries[i][h] /\ entries[i][h].i_no # x
  <2>1. j \in DOMAIN entries'[i] /\ entries'[i][j].filename \notin {".", ".."}
    BY <1>8 DEF Link
  <2>2. PICK h \in DOMAIN entries[i] : h \in Nat /\ entries'[i][j] = entries[i][h] /\ ~(i = d /\ h = k)
    BY <1>2, <2>1
  <2>3. Link(i, h)
    BY <2>1, <2>2 DEF Link
  <2>4. entries[i][h].i_no # x
    BY <1>6, <2>2, <2>3 DEF FsInv, LinksOK
  <2> QED BY <2>2, <2>3, <2>4
<1>9. ASSUME NEW y \in Inodes, HasDots(y) PROVE HasDots(y)'
  <2>1. CASE y # d
    <3>1. entries'[y] = entries[y]
      BY <1>2, <2>1
    <3> QED BY <1>9, <3>1 DEF HasDots
  <2>2. CASE y = d
    <3>1. PICK a, b \in DOMAIN entries[d] : entries[d][a].filename = "." /\ entries[d][b].filename = ".."
      BY <1>9, <2>2 DEF HasDots
    <3>2. a # k /\ b # k
      BY <1>6, <3>1 DEF Link
    <3>3. PICK e \in DOMAIN entries'[d] : entries'[d][e] = entries[d][a]
      BY <1>2, <3>1, <3>2
    <3>4. PICK f \in DOMAIN entries'[d] : entries'[d][f] = entries[d][b]
      BY <1>2, <3>1, <3>2
    <3> QED BY <2>2, <3>1, <3>3, <3>4 DEF HasDots
  <2> QED BY <2>1, <2>2
<1>10. ASSUME NEW i \in Inodes, NEW j \in Nat, Link(i, j)'
       PROVE  /\ entries'[i][j].i_no # 0
              /\ entries'[i][j].f_type = "FT_REG" => entries'[entries'[i][j].i_no] = <<>>
              /\ entries'[i][j].f_type = "FT_DIR" => HasDots(entries[i][j].i_no)'
  <2>1. PICK h \in Nat : Link(i, h) /\ entries'[i][j] = entries[i][h] /\ entries[i][h].i_no # x
    BY <1>8, <1>10
  <2>2. PICK y : y = entries[i][h].i_no
    OBVIOUS
  <2>3. y \in Inodes /\ y # 0
    BY <2>1, <2>2, KindOf DEF LeakInv, KindsOK, Link
  <2>4. ASSUME entries[i][h].f_type = "FT_REG" PROVE entries'[y] = <<>>
    <3>1. entries[y] = <<>>
      BY <2>1, <2>2, <2>4 DEF LeakInv, KindsOK
    <3>2. y # d
      BY <1>6, <2>1, <2>2, <2>4, DirLink DEF LeakInv
    <3> QED BY <1>2, <2>3, <3>1, <3>2
  <2>5. ASSUME entries[i][h].f_type = "FT_DIR" PROVE HasDots(y)'
    <3>1. HasDots(y)
      BY <1>3, <2>1, <2>2, <2>5 DEF LeakInv, KindsOK
    <3> QED BY <1>9, <2>3, <3>1
  <2>6. HasDots(entries[i][j].i_no)' = HasDots(y)'
    BY <2>1, <2>2 DEF HasDots
  <2> QED BY <2>1, <2>2, <2>3, <2>4, <2>5, <2>6
<1>11. KindsOK'
  BY <1>10 DEF KindsOK
<1>12. PlacesOK'
  <2>1. CASE to = "user"
    BY <1>5, <2>1, UserPlaces
  <2>2. CASE to = "readd"
    <3>1. IsDir(d)'
      <4>1. CASE d = 0
        BY <4>1 DEF IsDir
      <4>2. CASE d # 0
        <5>1. PICK i \in Inodes, h \in Nat : Leads(i, h, d) /\ entries[i][h].f_type = "FT_DIR"
          BY <1>6, <4>2 DEF IsDir
        <5>2. PICK j \in Nat : Link(i, j)' /\ entries'[i][j] = entries[i][h]
          BY <1>6, <1>7, <5>1 DEF Leads
        <5>3. Leads(i, j, d)' /\ entries'[i][j].f_type = "FT_DIR"
          BY <5>1, <5>2 DEF Leads
        <5> QED BY <5>3 DEF IsDir
      <4> QED BY <4>1, <4>2
    <3>2. op' = op
      BY <1>1, <2>2, <1>4
    <3>3. IsDir(op.dir)'
      BY <1>2, <3>1, <3>2 DEF IsDir
    <3>4. entries'[op'.i_no] = <<>>
      <4>1. entries[x] = <<>>
        BY <1>3, <1>4, <2>2 DEF LeakInv, PlacesOK
      <4> QED BY <1>2, <1>3, <1>6, <3>2, <4>1
    <3> QED BY <1>5, <2>2, <3>3, <3>4 DEF PlacesOK
  <2> QED BY <1>4, <2>1, <2>2
<1>13. UsedOK'
  <2> SUFFICES ASSUME NEW y \in inode_bitmap, y # 0
               PROVE  (New' /\ y = op'.i_no) \/ \E i \in Inodes, j \in Nat : Leads(i, j, y)'
    BY <1>1 DEF UsedOK
  <2>1. PICK i \in Inodes, h \in Nat : Leads(i, h, y)
    BY <1>5 DEF LeakInv, UsedOK
  <2>2. CASE i = d /\ h = k
    <3>1. y = op.i_no
      BY <1>3, <1>6, <2>1, <2>2 DEF Leads
    <3>2. pc[maker] = "retype"
      BY <1>1, <3>1 DEF FsInv, OpOK
    <3> QED BY <1>1, <1>4, <1>5, <3>1, <3>2
  <2>3. CASE ~(i = d /\ h = k)
    <3>1. PICK j \in Nat : Link(i, j)' /\ entries'[i][j] = entries[i][h]
      BY <1>7, <2>1, <2>3 DEF Leads
    <3>2. Leads(i, j, y)'
      BY <2>1, <3>1 DEF Leads
    <3> QED BY <3>2
  <2> QED BY <2>2, <2>3
<1> QED BY <1>11, <1>12, <1>13 DEF LeakInv

LEMMA LeakInitial ==
    ASSUME Init
    PROVE  LeakInv
<1>1. /\ 0 \in Inodes /\ w_no \in Inodes \ {0} /\ v_no \in Inodes \ {0} /\ maker \in Procs
  BY FsAssumption DEF Procs
<1>2. inode_bitmap = {0, w_no, v_no} /\ pc[maker] = "user"
  BY <1>1 DEF Init
<1>3. entries = [[i \in Inodes |-> <<>>] EXCEPT ![0] = FirstDirents]
  BY DEF Init
<1>4. entries[0] = FirstDirents /\ \A i \in Inodes \ {0} : entries[i] = <<>>
  BY <1>1, <1>3
<1>5. /\ DOMAIN FirstDirents = {1, 2, 3, 4}
      /\ FirstDirents[1].filename = ".." /\ FirstDirents[2].filename = "."
      /\ FirstDirents[3].filename = "w" /\ FirstDirents[4].filename = "v"
      /\ FirstDirents[3].i_no = w_no /\ FirstDirents[4].i_no = v_no
      /\ FirstDirents[3].f_type = "FT_REG" /\ FirstDirents[4].f_type = "FT_REG"
  BY DEF FirstDirents
<1>6. ASSUME NEW i \in Inodes, NEW k \in Nat, Link(i, k) PROVE i = 0 /\ k \in {3, 4}
  <2>1. k \in DOMAIN entries[i] /\ entries[i][k].filename \notin {".", ".."}
    BY <1>6 DEF Link
  <2>2. i = 0
    BY <1>4, <2>1
  <2> QED BY <1>4, <1>5, <2>1, <2>2
<1>7. KindsOK
  <2> SUFFICES ASSUME NEW i \in Inodes, NEW k \in Nat, Link(i, k)
               PROVE  /\ entries[i][k].i_no \in Inodes \ {0} /\ entries[i][k].f_type = "FT_REG"
                      /\ entries[entries[i][k].i_no] = <<>>
    BY DEF KindsOK
  <2>1. i = 0 /\ k \in {3, 4}
    BY <1>6
  <2> QED BY <1>1, <1>4, <1>5, <2>1
<1>8. PlacesOK
  BY <1>2 DEF PlacesOK, New
<1>9. UsedOK
  <2>1. Leads(0, 3, w_no) /\ Leads(0, 4, v_no)
    BY <1>4, <1>5 DEF Leads, Link
  <2>2. 3 \in Nat /\ 4 \in Nat
    OBVIOUS
  <2> QED BY <1>1, <1>2, <2>1, <2>2 DEF UsedOK
<1> QED BY <1>7, <1>8, <1>9 DEF LeakInv

\* Between two calls the allocated inodes are those that have a name (file.c:62-68),
\* in every behaviour in which the calls of dirent_add() in sys_mkdir(), whose results
\* it ignores (dir.c), find room, and no write needs two blocks at once.
THEOREM FsNoLeak ==
    ASSUME SmallWrites
    PROVE  Spec /\ [][~AddIgnored]_vars => []NoLeak
<1>1. Init => LeakInv
  BY LeakInitial
<1>2. FsInv /\ FsInv' /\ LeakInv /\ [Next]_vars /\ [~AddIgnored]_vars => LeakInv'
  <2> SUFFICES ASSUME FsInv, FsInv', LeakInv, [Next]_vars, [~AddIgnored]_vars PROVE LeakInv'
    OBVIOUS
  <2>1. ASSUME NEW call \in Calls, NEW path \in Paths, Call(call, path) PROVE LeakInv'
    BY <2>1, LeakCall
  <2>2. CASE PathDown \/ PathStuck \/ PathMissing \/ PathFound
    BY <2>2, LeakPath
  <2>3. CASE AllocInode \/ AllocFull \/ ZeroDone
    BY <2>3, LeakAlloc
  <2>4. CASE AddDone
    BY <2>4, LeakAddDone
  <2>5. CASE AddFailed \/ EmptyTest \/ FreeInode
    BY <2>5, LeakRemove
  <2>6. CASE TruncDone
    BY <2>6, LeakTruncDone
  <2>7. CASE DelDone
    BY <2>7, LeakDelDone
  <2>8. CASE AddStart \/ TruncStart \/ DelStart
    <3>1. UNCHANGED <<entries, inode_bitmap, op, pc>>
      BY <2>8 DEF AddStart, TruncStart, DelStart
    <3> QED BY <3>1, LeakSame
  <2>9. ASSUME NEW p \in Writers, NEW n \in WriteSizes,
               GrowStart(p, n) \/ GrowFailed(p, n)
        PROVE  LeakInv'
    <3>1. /\ UNCHANGED <<entries, inode_bitmap, op>>
          /\ \E to : pc' = [pc EXCEPT ![p] = to]
      BY <2>9 DEF GrowStart, GrowFailed, Goto
    <3>2. pc'[maker] = pc[maker]
      BY <3>1, FsNow
    <3> QED BY <3>1, <3>2, LeakSame
  <2>10. ASSUME NEW p \in Writers, GrowDone(p) PROVE LeakInv'
    <3>1. UNCHANGED <<entries, inode_bitmap, op>> /\ pc' = [pc EXCEPT ![p] = "user"]
      BY <2>10 DEF GrowDone, Goto
    <3>2. pc'[maker] = pc[maker]
      BY <3>1, FsNow
    <3> QED BY <3>1, <3>2, LeakSame
  <2>11. ASSUME NEW p \in Procs, BlockRead(p) PROVE LeakInv'
    <3>1. UNCHANGED <<entries, inode_bitmap, op, pc>>
      BY <2>11 DEF BlockRead, disk
    <3> QED BY <3>1, LeakSame
  <2>12. CASE UNCHANGED vars \/ Undefined
    <3>1. UNCHANGED <<entries, inode_bitmap, op, pc>>
      BY <2>12 DEF Undefined, vars, disk
    <3> QED BY <3>1, LeakSame
  <2>13. ~AddIgnored \/ UNCHANGED vars
    OBVIOUS
  <2> QED BY <2>1, <2>2, <2>3, <2>4, <2>5, <2>6, <2>7, <2>8, <2>9, <2>10, <2>11, <2>12, <2>13 DEF Next, Step
<1>3. FsInv /\ LeakInv => NoLeak
  <2> SUFFICES ASSUME FsInv, LeakInv, pc[maker] \in {"user", "stuck"}
               PROVE  inode_bitmap = {0} \cup {Linked(l) : l \in Links}
    BY DEF NoLeak
  <2>1. ~New /\ ~Unlinking
    BY DEF New, Unlinking
  <2>2. ASSUME NEW x \in inode_bitmap, x # 0 PROVE \E l \in Links : x = Linked(l)
    <3>1. PICK i \in Inodes, k \in Nat : Leads(i, k, x)
      BY <2>1, <2>2 DEF LeakInv, UsedOK
    <3>2. <<i, k>> \in Links /\ Linked(<<i, k>>) = x
      BY <3>1 DEF Leads, Link, Links, Linked
    <3> QED BY <3>2
  <2>3. ASSUME NEW l \in Links PROVE Linked(l) \in inode_bitmap
    <3>1. PICK i \in Inodes : l \in {i} \X DOMAIN entries[i]
      BY <2>3 DEF Links
    <3>2. l[1] = i /\ l[2] \in DOMAIN entries[i] /\ entries[l[1]][l[2]].filename \notin {".", ".."}
      BY <2>3, <3>1 DEF Links
    <3>3. l[2] \in Nat /\ Link(i, l[2]) /\ Linked(l) = entries[i][l[2]].i_no
      BY <3>2, EntryFacts DEF Link, Linked
    <3> QED BY <2>1, <3>3 DEF FsInv, LinksOK
  <2>4. 0 \in inode_bitmap
    BY DEF FsInv, OpOK, Special
  <2> QED BY <2>2, <2>3, <2>4
<1> QED BY <1>1, <1>2, <1>3, FsInvariant, PTL DEF Spec

-----------------------------------------------------------------------------
(* Formatting *)

\* The quotient is the only number of times that b goes into n.
LEMMA Quotient ==
    ASSUME NEW n \in Nat, NEW b \in Nat \ {0}, NEW q \in Nat, b * q <= n, n < b * q + b
    PROVE  n \div b = q
<1> DEFINE x == n \div b
<1>1. x \in Nat /\ b * x <= n /\ n < b * x + b /\ b * x \in Nat /\ b * q \in Nat
  BY DivFacts
<1> HIDE DEF x
<1>2. ~(x < q)
  <2> SUFFICES ASSUME x < q PROVE FALSE
    OBVIOUS
  <2>1. b * x + b <= b * q
    BY <1>1, MulLess
  <2> QED BY <1>1, <2>1
<1>3. ~(q < x)
  <2> SUFFICES ASSUME q < x PROVE FALSE
    OBVIOUS
  <2>1. b * q + b <= b * x
    BY <1>1, MulLess
  <2> QED BY <1>1, <2>1
<1> QED BY <1>1, <1>2, <1>3 DEF x

LEMMA Multiple ==
    ASSUME NEW n \in Nat, NEW b \in Nat \ {0}, n % b = 0
    PROVE  \E m \in Nat : n = b * m
<1> DEFINE q == n \div b
           r == n - b * q
<1>1. q \in Nat /\ b * q <= n /\ n < b * q + b /\ b * q \in Nat /\ q * b = b * q
  BY DivFacts
<1> HIDE DEF q
<1>2. r \in 0..b - 1 /\ n = q * b + r
  BY <1>1
<1> HIDE DEF r
<1>3. n % b = r
  BY <1>1, <1>2, PageOf
<1>4. n = b * q
  BY <1>1, <1>2, <1>3
<1> QED BY <1>1, <1>4

\* BlocksFor(n, g) blocks are just enough for n bytes.
LEMMA BlocksForFacts ==
    ASSUME NEW g, NEW B \in Nat \ {0}, B = g.BLOCK_SIZE, NEW n \in Nat
    PROVE  /\ BlocksFor(n, g) \in Nat /\ B * BlocksFor(n, g) \in Nat
           /\ n <= B * BlocksFor(n, g) /\ B * BlocksFor(n, g) <= n + B - 1
           /\ \A i \in 0..n - 1 : i \div B \in 0..BlocksFor(n, g) - 1
           /\ n \in 1..B => BlocksFor(n, g) = 1
<1> DEFINE c == BlocksFor(n, g)
           a == n + B - 1
<1>1. c = a \div B /\ a \in Nat
  BY DEF BlocksFor
<1> HIDE DEF c
<1>2. c \in Nat /\ B * c <= a /\ a < B * c + B /\ B * c \in Nat
  <2> HIDE DEF a
  <2> QED BY <1>1, DivFacts, SMTT(60)
<1>3. n <= B * c /\ B * c <= n + B - 1
  BY <1>2
<1>4. ASSUME NEW i \in 0..n - 1 PROVE i \div B \in 0..c - 1
  <2> DEFINE q == i \div B
  <2>1. i \in Nat /\ i < n
    OBVIOUS
  <2>2. q \in Nat /\ B * q <= i /\ B * q \in Nat
    BY <2>1, DivFacts
  <2> HIDE DEF q
  <2>3. q < c
    <3> SUFFICES ASSUME ~(q < c) PROVE FALSE
      OBVIOUS
    <3>1. c < q \/ c = q
      BY <1>2, <2>2
    <3>2. CASE c < q
      <4>1. B * c + B <= B * q
        BY <1>2, <2>2, <3>2, MulLess
      <4> QED BY <1>2, <1>3, <2>1, <2>2, <4>1
    <3>3. CASE c = q
      BY <1>2, <1>3, <2>1, <2>2, <3>3
    <3> QED BY <3>1, <3>2, <3>3
  <2>4. q \in 0..c - 1
    BY <1>2, <2>2, <2>3
  <2> QED BY <2>4 DEF q
<1>5. ASSUME n \in 1..B PROVE c = 1
  <2>1. B * 1 = B /\ 1 \in Nat /\ B <= a /\ a < B + B
    BY <1>5
  <2>2. a \div B = 1
    <3> HIDE DEF a
    <3> QED BY <1>1, <2>1, Quotient
  <2> QED BY <1>1, <2>2
<1> QED BY <1>2, <1>3, <1>4, <1>5 DEF c

\* The numbers of a disk.
LEMMA DiskNumbers ==
    ASSUME NEW g \in Geometries
    PROVE  /\ g.BLOCK_SIZE \in Nat \ {0} /\ g.SECTS_PER_BLOCK \in Nat \ {0}
           /\ g.INODE_CNT_MAX \in Nat \ {0} /\ g.DISK_INODE_SIZE \in Nat \ {0}
           /\ mbr_init(g).start_lba \in Nat /\ mbr_init(g).sec_cnt \in Nat
<1>1. CASE g = BootDisk
  <2> DEFINE p == Part(128, 2048, 18112)
             I == {i \in {1} : <<p>>[i].bootable = 128}
  <2>1. g.mbr = <<p>> /\ DOMAIN g.mbr = {1}
    BY <1>1 DEF BootDisk
  <2>2. I = {1}
    BY DEF Part
  <2>3. mbr_init(g) = <<p>>[CHOOSE i \in I : \A j \in I : i <= j]
    BY <2>1 DEF mbr_init
  <2> HIDE DEF I
  <2>4. (CHOOSE i \in I : \A j \in I : i <= j) = 1
    BY <2>2
  <2> HIDE DEF p
  <2>5. <<p>>[1] = p
    OBVIOUS
  <2>6. mbr_init(g) = p
    BY <2>3, <2>4, <2>5
  <2> QED BY <1>1, <2>6 DEF BootDisk, Part, p
<1>2. CASE g \in SmallDisks
  <2>1. PICK size \in BlockSizes, inodes \in InodeCounts, start \in Starts, cnt \in SectorCounts :
           g = [BLOCK_SIZE |-> size, SECTS_PER_BLOCK |-> 2, INODE_CNT_MAX |-> inodes, DISK_INODE_SIZE |-> 2,
                mbr |-> <<Part(0, 0, 2 * start), Part(128, 2 * start, cnt)>>]
    BY <1>2 DEF SmallDisks
  <2> DEFINE p == Part(0, 0, 2 * start)
             r == Part(128, 2 * start, cnt)
             I == {i \in {1, 2} : <<p, r>>[i].bootable = 128}
  <2>2. size \in Nat \ {0} /\ inodes \in Nat \ {0} /\ start \in Nat /\ cnt \in Nat /\ 2 * start \in Nat
    BY FormatAssumption
  <2>3. g.mbr = <<p, r>> /\ DOMAIN g.mbr = {1, 2}
    BY <2>1
  <2>4. I = {2}
    BY DEF Part
  <2>5. mbr_init(g) = <<p, r>>[CHOOSE i \in I : \A j \in I : i <= j]
    BY <2>3 DEF mbr_init
  <2> HIDE DEF I
  <2>6. (CHOOSE i \in I : \A j \in I : i <= j) = 2
    BY <2>4
  <2>7. r.start_lba \in Nat /\ r.sec_cnt \in Nat
    BY <2>2 DEF Part
  <2> HIDE DEF p, r
  <2>8. <<p, r>>[2] = r
    OBVIOUS
  <2>9. mbr_init(g) = r
    BY <2>5, <2>6, <2>8
  <2> QED BY <2>1, <2>2, <2>7, <2>9
<1> QED BY <1>1, <1>2 DEF Geometries

\* Each inode has its place in the inode table, and the table has no other block.
LEMMA InodeTable ==
    ASSUME NEW g \in Geometries, NEW c, c = BlocksFor(g.INODE_CNT_MAX * g.DISK_INODE_SIZE, g)
    PROVE  {(i * g.DISK_INODE_SIZE) \div g.BLOCK_SIZE : i \in 0..g.INODE_CNT_MAX - 1} = 0..c - 1
<1>1. PICK B \in Nat \ {0}, N \in Nat \ {0}, D \in Nat \ {0} :
         B = g.BLOCK_SIZE /\ N = g.INODE_CNT_MAX /\ D = g.DISK_INODE_SIZE
  BY DiskNumbers
<1>2. D * N \in Nat /\ N * D = D * N
  OBVIOUS
<1>3. /\ c \in Nat /\ B * c \in Nat /\ B * c <= D * N + B - 1
      /\ \A i \in 0..D * N - 1 : i \div B \in 0..c - 1
  <2>1. c = BlocksFor(D * N, g)
    BY <1>1, <1>2
  <2> QED BY <1>1, <1>2, <2>1, BlocksForFacts
<1>4. B % D = 0
  BY <1>1, FormatAssumption
<1>5. PICK m \in Nat : B = D * m
  BY <1>4, Multiple
<1>6. ASSUME NEW i \in 0..N - 1 PROVE (i * D) \div B \in 0..c - 1
  <2>1. i \in Nat /\ i < N /\ D * i \in Nat /\ i * D = D * i
    OBVIOUS
  <2>2. D * i + D <= D * N
    BY <2>1, MulLess
  <2>3. D * i \in 0..D * N - 1
    BY <1>2, <2>1, <2>2
  <2> QED BY <1>3, <2>1, <2>3
<1>7. ASSUME NEW q \in 0..c - 1 PROVE \E i \in 0..N - 1 : (i * D) \div B = q
  <2>1. q \in Nat /\ q < c
    BY <1>3
  <2>2. B * q + B <= B * c /\ B * q \in Nat
    BY <1>3, <2>1, MulLess
  <2>3. B * q < D * N
    BY <1>2, <1>3, <2>2
  <2> DEFINE i == m * q
  <2>4. i \in Nat /\ D * i = B * q /\ i * D = D * i
    BY <1>5, <2>1
  <2> HIDE DEF i
  <2>5. i < N
    <3> SUFFICES ASSUME ~(i < N) PROVE FALSE
      OBVIOUS
    <3>1. CASE i = N
      BY <2>3, <2>4, <3>1
    <3>2. CASE N < i
      <4>1. D * N + D <= D * i
        BY <2>4, <3>2, MulLess
      <4> QED BY <1>2, <2>2, <2>3, <2>4, <4>1
    <3> QED BY <2>4, <3>1, <3>2
  <2>6. (i * D) \div B = q
    <3>1. B * q < B * q + B
      BY <2>2
    <3>2. (B * q) \div B = q
      <4> DEFINE n == B * q
      <4>1. n \in Nat /\ B * q <= n /\ n < B * q + B
        BY <2>2, <3>1
      <4> HIDE DEF n
      <4>2. n \div B = q
        BY <2>1, <4>1, Quotient
      <4> QED BY <4>2 DEF n
    <3> QED BY <2>4, <3>2
  <2>7. i \in 0..N - 1
    BY <2>4, <2>5, SMTT(60)
  <2> QED BY <2>6, <2>7
<1> QED BY <1>1, <1>6, <1>7

\* Where partition_format() puts what.
LEMMA FormatPlaces ==
    ASSUME NEW g \in Geometries
    PROVE  LaidOut(g)
<1> DEFINE part   == mbr_init(g)
           hd     == partition_format(g)
           first  == part.start_lba \div g.SECTS_PER_BLOCK
           cnt    == part.sec_cnt \div g.SECTS_PER_BLOCK
           end    == (part.start_lba + part.sec_cnt) \div g.SECTS_PER_BLOCK
           B      == g.BLOCK_SIZE
           N      == g.INODE_CNT_MAX
           bmap   == BlocksFor(cnt, g)
           imap   == BlocksFor(N, g)
           tab    == BlocksFor(N * g.DISK_INODE_SIZE, g)
           i0     == first + 1 + bmap
           t0     == i0 + imap
           sb     == [block_bitmap_start |-> first + 1, block_bitmap_size |-> cnt,
                      inode_bitmap_start |-> i0, inode_cnt_max |-> N,
                      inode_table_start |-> t0, data_start |-> t0 + tab]
           occ    == Occupied(g, cnt)
           bits(size, occur) == [i \in 0..B - 1 |-> IF i < occur \/ i >= size THEN 1 ELSE 0]
           d1     == [b \in {first} |-> sb]
           d2     == [b \in DOMAIN d1 \cup (first + 1..first + 1 + bmap - 1) |->
                        IF b \in first + 1..first + 1 + bmap - 1 THEN bits(cnt, occ) ELSE d1[b]]
           d3     == [b \in DOMAIN d2 \cup (i0..i0 + imap - 1) |->
                        IF b \in i0..i0 + imap - 1 THEN bits(N, 0) ELSE d2[b]]
<1>1. hd = d3
  BY DEF partition_format, bitmap_format
<1>2. /\ first \in Nat /\ cnt \in Nat /\ end = first + cnt
  <2>1. PICK S \in Nat \ {0}, p \in Nat, q \in Nat :
           S = g.SECTS_PER_BLOCK /\ p = part.start_lba /\ q = part.sec_cnt
    BY DiskNumbers
  <2>2. p % S = 0
    BY <2>1, FormatAssumption
  <2>3. PICK m \in Nat : p = S * m
    BY <2>2, Multiple
  <2> DEFINE x == q \div S
  <2>4. x \in Nat /\ S * x <= q /\ q < S * x + S /\ S * x \in Nat /\ S * m \in Nat
    BY DivFacts
  <2> HIDE DEF x
  <2>5. S * (m + x) = S * m + S * x
    BY <2>4
  <2>6. p \div S = m
    <3>1. S * m <= p /\ p < S * m + S
      BY <2>3, <2>4
    <3> QED BY <3>1, Quotient
  <2>7. (p + q) \div S = m + x
    <3> DEFINE y == m + x
               r == p + q
    <3>1. y \in Nat /\ r \in Nat /\ S * y <= r /\ r < S * y + S
      BY <2>3, <2>4, <2>5
    <3> HIDE DEF y, r
    <3>2. r \div S = y
      BY <3>1, Quotient
    <3> QED BY <3>2 DEF y, r
  <2> QED BY <2>1, <2>4, <2>6, <2>7 DEF x
<1>3. /\ B \in Nat \ {0} /\ N \in Nat \ {0} /\ N * g.DISK_INODE_SIZE \in Nat
      /\ occ < cnt /\ cnt <= B /\ occ = 1 + bmap + imap + tab
  BY DiskNumbers, FormatAssumption DEF Occupied
<1>4. PICK z \in Nat : z = N * g.DISK_INODE_SIZE
  BY <1>3
<1>5. /\ sb.block_bitmap_start = first + 1 /\ sb.block_bitmap_size = cnt /\ sb.inode_bitmap_start = i0
      /\ sb.inode_table_start = t0 /\ sb.data_start = t0 + tab
  OBVIOUS
<1>6. {(i * g.DISK_INODE_SIZE) \div B : i \in 0..N - 1} = 0..tab - 1
  BY InodeTable
<1>7. tab = BlocksFor(z, g)
  BY <1>4
<1> HIDE DEF sb, first, cnt, end, tab, hd, B, N, occ
<1>8. imap \in Nat /\ tab \in Nat /\ bmap \in Nat /\ \A i \in 0..N - 1 : i \div B \in 0..imap - 1
  BY <1>2, <1>3, <1>4, <1>7, BlocksForFacts DEF B
<1>9. bmap = 1
  <2>1. cnt \in 1..B
    BY <1>2, <1>3, <1>8
  <2> QED BY <1>2, <1>3, <2>1, BlocksForFacts DEF B
<1> HIDE DEF imap, bmap
<1>10. DOMAIN hd = first..t0 - 1
  <2>1. DOMAIN d3 = {first} \cup (first + 1..first + 1 + bmap - 1) \cup (i0..i0 + imap - 1)
    OBVIOUS
  <2>2. {first} \cup (first + 1..first + 1 + bmap - 1) \cup (i0..i0 + imap - 1) = first..t0 - 1
    BY <1>2, <1>8, <1>9
  <2> QED BY <1>1, <2>1, <2>2
<1>11. hd[first] = sb
  <2>1. first \notin i0..i0 + imap - 1 /\ first \notin first + 1..first + 1 + bmap - 1
    BY <1>2, <1>8, <1>9
  <2> QED BY <1>1, <2>1
<1>12. hd[first + 1] = bits(cnt, occ)
  <2>1. first + 1 \notin i0..i0 + imap - 1 /\ first + 1 \in first + 1..first + 1 + bmap - 1
    BY <1>2, <1>8, <1>9
  <2> HIDE DEF bits
  <2> QED BY <1>1, <2>1
<1>13. \A b \in i0..i0 + imap - 1 : hd[b] = bits(N, 0)
  <2> HIDE DEF bits, i0
  <2> QED BY <1>1
<1>14. {block_id(g, sb, i) : i \in 0..N - 1} = t0..t0 + tab - 1
  <2>1. \A i : block_id(g, sb, i) = (i * g.DISK_INODE_SIZE) \div B + t0
    BY <1>5 DEF block_id, B
  <2>2. t0 \in Nat
    BY <1>2, <1>8
  <2> HIDE DEF t0
  <2>3. ASSUME NEW i \in 0..N - 1 PROVE block_id(g, sb, i) \in t0..t0 + tab - 1
    <3> DEFINE q == (i * g.DISK_INODE_SIZE) \div B
    <3>1. q \in 0..tab - 1
      BY <1>6
    <3> HIDE DEF q
    <3>2. q + t0 \in t0..t0 + tab - 1
      BY <1>8, <2>2, <3>1
    <3> QED BY <2>1, <3>2 DEF q
  <2>4. ASSUME NEW b \in t0..t0 + tab - 1 PROVE \E i \in 0..N - 1 : block_id(g, sb, i) = b
    <3>1. b - t0 \in 0..tab - 1 /\ (b - t0) + t0 = b
      BY <1>8, <2>2
    <3>2. PICK i \in 0..N - 1 : (i * g.DISK_INODE_SIZE) \div B = b - t0
      BY <1>6, <3>1
    <3> QED BY <2>1, <3>1, <3>2
  <2> QED BY <2>3, <2>4
<1>15. \A j \in 0..cnt - 1 : bitmap_byte(hd, g, first + 1, j) = (IF j < occ THEN 1 ELSE 0)
  <2> SUFFICES ASSUME NEW j \in 0..cnt - 1
               PROVE  bitmap_byte(hd, g, first + 1, j) = (IF j < occ THEN 1 ELSE 0)
    OBVIOUS
  <2>1. j \in Nat /\ j < cnt /\ j \in 0..B - 1
    BY <1>2, <1>3
  <2>2. j \div B = 0 /\ j % B = j
    <3>1. j = 0 * B + j /\ 0 \in Nat
      BY <1>3, <2>1
    <3> QED BY <1>3, <2>1, <3>1, PageOf
  <2>3. 0 + (first + 1) = first + 1
    BY <1>2
  <2>4. bitmap_byte(hd, g, first + 1, j) = bits(cnt, occ)[j]
    <3> HIDE DEF bits
    <3> QED BY <1>12, <2>2, <2>3 DEF bitmap_byte, B
  <2>5. bits(cnt, occ)[j] = IF j < occ \/ j >= cnt THEN 1 ELSE 0
    BY <2>1
  <2>6. ~(j >= cnt)
    BY <1>2, <2>1
  <2> QED BY <2>4, <2>5, <2>6
<1>16. {direct(sb, i) : i \in {j \in 0..cnt - 1 : bitmap_byte(hd, g, first + 1, j) = 0}} = t0 + tab..end - 1
  <2>1. \A i : direct(sb, i) = i + (first + 1) - 1
    BY <1>5 DEF direct
  <2>2. {j \in 0..cnt - 1 : bitmap_byte(hd, g, first + 1, j) = 0} = {j \in 0..cnt - 1 : ~(j < occ)}
    BY <1>15
  <2>3. occ \in Nat /\ occ = 1 + bmap + imap + tab
    BY <1>3, <1>8
  <2>4. {j \in 0..cnt - 1 : ~(j < occ)} = occ..cnt - 1
    BY <1>2, <2>3
  <2>5. t0 + tab = first + occ /\ end = first + cnt
    BY <1>2, <1>8, <2>3
  <2>6. {i + (first + 1) - 1 : i \in occ..cnt - 1} = first + occ..first + cnt - 1
    <3>1. ASSUME NEW b \in first + occ..first + cnt - 1 PROVE \E i \in occ..cnt - 1 : b = i + (first + 1) - 1
      <4>1. b - first \in occ..cnt - 1 /\ b = (b - first) + (first + 1) - 1
        BY <1>2, <2>3
      <4> QED BY <4>1
    <3>2. ASSUME NEW i \in occ..cnt - 1 PROVE i + (first + 1) - 1 \in first + occ..first + cnt - 1
      BY <1>2, <2>3
    <3> QED BY <3>1, <3>2
  <2>7. {direct(sb, i) : i \in {j \in 0..cnt - 1 : bitmap_byte(hd, g, first + 1, j) = 0}}
           = {i + (first + 1) - 1 : i \in occ..cnt - 1}
    BY <2>1, <2>2, <2>4
  <2> HIDE DEF t0
  <2>8. t0 + tab..end - 1 = first + occ..first + cnt - 1
    <3> DEFINE a == t0 + tab
               b == first + occ
               c == first + cnt
    <3>1. a = b /\ end = c
      BY <2>5
    <3> HIDE DEF a, b, c
    <3>2. a..end - 1 = b..c - 1
      BY <3>1
    <3>3. c - 1 = first + cnt - 1
      BY <1>2 DEF c
    <3> QED BY <3>2, <3>3 DEF a, b
  <2> QED BY <2>6, <2>7, <2>8
<1>17. \A i \in 0..N - 1 : bitmap_byte(hd, g, i0, i) = 0
  <2> SUFFICES ASSUME NEW i \in 0..N - 1 PROVE bitmap_byte(hd, g, i0, i) = 0
    OBVIOUS
  <2> DEFINE q == i \div B
             r == i % B
  <2>1. q \in 0..imap - 1
    BY <1>8
  <2>2. r \in 0..B - 1 /\ r < N
    <3> DEFINE s == i - B * q
    <3>1. q \in Nat /\ B * q <= i /\ i < B * q + B /\ B * q \in Nat /\ q * B = B * q
      BY <1>3, DivFacts
    <3> HIDE DEF q
    <3>2. s \in 0..B - 1 /\ i = q * B + s /\ s < N
      BY <1>3, <3>1
    <3> HIDE DEF s
    <3>3. r = s
      BY <1>3, <3>1, <3>2, PageOf
    <3> QED BY <3>2, <3>3
  <2>3. bitmap_byte(hd, g, i0, i) = hd[q + i0][r]
    BY DEF bitmap_byte, B
  <2> HIDE DEF q, r
  <2>4. q + i0 \in i0..i0 + imap - 1
    BY <1>2, <1>8, <2>1
  <2>5. hd[q + i0] = bits(N, 0)
    <3> HIDE DEF bits, i0
    <3> QED BY <1>13, <2>4
  <2>6. bits(N, 0)[r] = 0
    BY <1>3, <2>2
  <2> QED BY <2>3, <2>5, <2>6
<1> HIDE DEF i0, t0, bits
<1> DEFINE s == hd[first]
<1>18. s = sb
  BY <1>11
<1> HIDE DEF s
<1>19. DOMAIN hd = first..s.inode_table_start - 1
  BY <1>5, <1>10, <1>18
<1>20. {block_id(g, s, i) : i \in 0..N - 1} = s.inode_table_start..s.data_start - 1
  <2>1. s.inode_table_start..s.data_start - 1 = t0..t0 + tab - 1
    <3>1. s.inode_table_start = t0 /\ s.data_start = t0 + tab
      BY <1>5, <1>18
    <3>2. t0 \in Nat /\ tab \in Nat
      BY <1>2, <1>8 DEF t0, i0
    <3> QED BY <3>1, <3>2
  <2>2. {block_id(g, s, i) : i \in 0..N - 1} = {block_id(g, sb, i) : i \in 0..N - 1}
    BY <1>18
  <2> QED BY <1>14, <2>1, <2>2
<1>21. {direct(s, i) : i \in {j \in 0..s.block_bitmap_size - 1 :
            bitmap_byte(hd, g, s.block_bitmap_start, j) = 0}} = s.data_start..end - 1
  BY <1>5, <1>16, <1>18
<1>22. \A i \in 0..N - 1 : bitmap_byte(hd, g, s.inode_bitmap_start, i) = 0
  BY <1>5, <1>17, <1>18
<1> QED BY <1>19, <1>20, <1>21, <1>22 DEF LaidOut, s, hd, first, end, N

\* The areas of the disk lie in order inside the bootable partition and not over each
\* other, and the free bits are those of the data blocks and of all inodes
\* (partition_format, fs.c), for blocks, partitions and numbers of inodes of any size
\* for which the block bitmap fits in one block.
THEOREM FormatLayout == FormatSpec => []LayoutExact
<1> DEFINE GInv == geometry \in Geometries \/ geometry = NoDisk
<1>1. FormatInit => GInv
  BY DEF FormatInit
<1>2. GInv /\ [filesys_init]_geometry => GInv'
  BY DEF filesys_init
<1>3. GInv => LayoutExact
  BY FormatPlaces DEF LayoutExact
<1> QED BY <1>1, <1>2, <1>3, PTL DEF FormatSpec
===============================================================================
