---------------------------- MODULE Listing_proofs ----------------------------
(***************************************************************************)
(* Proofs about Listing, for any finite set of names, any size of the      *)
(* buffer and any number of changes.                                       *)
(*                                                                         *)
(* The invariant is built in layers.  TypeInv: types, and how far the list *)
(* and the array have come at each label.  DirInv: what the changes leave  *)
(* of the directory, and that the entries of one getdents() differ.        *)
(* CountInv: unless names both came and went, the numbers that the passes  *)
(* arrive at are those of the names that readdir() has returned.  HurtInv: *)
(* what the second pass can find, against what the first one counted; it   *)
(* holds OnlyChangesHurt.  FillInv: as long as the pointers are those of   *)
(* one batch, the batch is all that was fetched.  ListInv and PrintInv:    *)
(* then the sorted list has every name that stayed, and what is printed    *)
(* is what is visible of it.                                               *)
(*                                                                         *)
(* qsort() is the choice of a permutation that orders; that there is one   *)
(* for a list of any length is OrderingExists, by induction over the       *)
(* length as the least length without one.                                 *)
(***************************************************************************)
EXTENDS Listing, FiniteSetTheorems, WellFoundedInduction, TLAPS

-----------------------------------------------------------------------------
(* qsort() finds an order.                                                 *)

LEMMA Least ==
    ASSUME NEW S, S \subseteq Nat, S # {}
    PROVE  \E n \in S : \A m \in S : n <= m
<1> DEFINE R == {p \in Nat \X Nat : p[1] < p[2]}
<1>1. IsWellFoundedOn(R, Nat)
  BY NatLessThanWellFounded DEF OpToRel
<1>2. PICK n \in S : \A m \in S : <<m, n>> \notin R
  <2> HIDE DEF R
  <2>1. QED
    BY <1>1, WFMin
<1>3. ASSUME NEW m \in S PROVE n <= m
  <2>1. <<m, n>> \notin R /\ m \in Nat /\ n \in Nat
    BY <1>2
  <2>2. QED
    BY <2>1
<1>4. QED
  BY <1>3

\* f puts the n elements of s in order.
Ordering(f, s, n) ==
    /\ f \in [1 .. n -> 1 .. n]
    /\ \A j, k \in 1 .. n : f[j] = f[k] => j = k
    /\ \A m \in 1 .. n : \E k \in 1 .. n : f[k] = m
    /\ \A j, k \in 1 .. n : j < k => s[f[j]] <= s[f[k]]

\* The positions of 1 .. n without m, in order.
Skip(m, k) == IF k < m THEN k ELSE k + 1

LEMMA SkipFacts ==
    ASSUME NEW n \in Nat, n # 0, NEW m \in 1 .. n
    PROVE  /\ \A k \in 1 .. (n - 1) : Skip(m, k) \in 1 .. n /\ Skip(m, k) # m
           /\ \A j, k \in 1 .. (n - 1) : Skip(m, j) = Skip(m, k) => j = k
           /\ \A x \in 1 .. n : x # m => \E k \in 1 .. (n - 1) : Skip(m, k) = x
<1>1. \A k \in 1 .. (n - 1) : Skip(m, k) \in 1 .. n /\ Skip(m, k) # m
  BY DEF Skip
<1>2. \A j, k \in 1 .. (n - 1) : Skip(m, j) = Skip(m, k) => j = k
  BY DEF Skip
<1>3. ASSUME NEW x \in 1 .. n, x # m PROVE \E k \in 1 .. (n - 1) : Skip(m, k) = x
  <2>1. CASE x < m
    <3>1. x \in 1 .. (n - 1) /\ Skip(m, x) = x
      BY <2>1 DEF Skip
    <3>2. QED
      BY <3>1
  <2>2. CASE x > m
    <3>1. x - 1 \in 1 .. (n - 1) /\ Skip(m, x - 1) = x
      BY <2>2 DEF Skip
    <3>2. QED
      BY <3>1
  <2>3. QED
    BY <1>3, <2>1, <2>2
<1>4. QED
  BY <1>1, <1>2, <1>3

\* The smallest element first, then the others in order.
LEMMA OrderingNext ==
    ASSUME NEW n \in Nat, n # 0, NEW s \in [1 .. n -> Nat],
           \A t \in [1 .. (n - 1) -> Nat] : \E f : Ordering(f, t, n - 1)
    PROVE  \E f : Ordering(f, s, n)
<1>1. PICK m \in 1 .. n : \A k \in 1 .. n : s[m] <= s[k]
  <2> DEFINE V == {s[k] : k \in 1 .. n}
  <2>1. V \subseteq Nat /\ s[1] \in V
    BY 1 \in 1 .. n
  <2> HIDE DEF V
  <2>2. PICK v \in V : \A w \in V : v <= w
    BY <2>1, Least
  <2>3. QED
    BY <2>2 DEF V
<1> DEFINE t == [k \in 1 .. (n - 1) |-> s[Skip(m, k)]]
<1>2. t \in [1 .. (n - 1) -> Nat]
  BY SkipFacts
<1>3. PICK f : Ordering(f, t, n - 1)
  BY <1>2
<1> DEFINE g == [k \in 1 .. n |-> IF k = 1 THEN m ELSE Skip(m, f[k - 1])]
<1>4. \A k \in 1 .. n : k # 1 => k - 1 \in 1 .. (n - 1) /\ f[k - 1] \in 1 .. (n - 1)
  <2>1. \A k \in 1 .. n : k # 1 => k - 1 \in 1 .. (n - 1)
    OBVIOUS
  <2>2. f \in [1 .. (n - 1) -> 1 .. (n - 1)]
    BY <1>3 DEF Ordering
  <2> HIDE DEF g, t
  <2>3. QED
    BY <2>1, <2>2
<1>5. g[1] = m /\ \A k \in 1 .. n : k # 1 => g[k] = Skip(m, f[k - 1])
  OBVIOUS
<1>6. g \in [1 .. n -> 1 .. n]
  <2>1. \A k \in 1 .. n : g[k] \in 1 .. n
    BY <1>4, <1>5, SkipFacts
  <2>2. QED
    BY <2>1
<1>7. \A k \in 1 .. n : k # 1 => s[g[k]] = t[f[k - 1]]
  BY <1>4, <1>5
<1> HIDE DEF g, t
<1>8. \A j, k \in 1 .. n : g[j] = g[k] => j = k
  <2> SUFFICES ASSUME NEW j \in 1 .. n, NEW k \in 1 .. n, g[j] = g[k] PROVE j = k
    OBVIOUS
  <2>1. j = 1 <=> k = 1
    <3>1. ASSUME NEW x \in 1 .. n PROVE x = 1 <=> g[x] = m
      <4>1. CASE x = 1
        BY <1>5, <4>1
      <4>2. CASE x # 1
        <5>1. g[x] = Skip(m, f[x - 1]) /\ f[x - 1] \in 1 .. (n - 1)
          BY <1>4, <1>5, <4>2
        <5>2. Skip(m, f[x - 1]) # m
          BY <5>1, SkipFacts
        <5>3. QED
          BY <4>2, <5>1, <5>2
      <4>3. QED
        BY <4>1, <4>2
    <3>2. QED
      BY <3>1
  <2>2. CASE j # 1 /\ k # 1
    <3>1. f[j - 1] = f[k - 1]
      <4>1. /\ f[j - 1] \in 1 .. (n - 1) /\ f[k - 1] \in 1 .. (n - 1)
            /\ Skip(m, f[j - 1]) = Skip(m, f[k - 1])
        BY <1>4, <1>5, <2>2
      <4>2. PICK x \in 1 .. (n - 1) : x = f[j - 1]
        BY <4>1
      <4>3. PICK y \in 1 .. (n - 1) : y = f[k - 1]
        BY <4>1
      <4>4. Skip(m, x) = Skip(m, y)
        BY <4>1, <4>2, <4>3
      <4>5. x = y
        BY <4>4, SkipFacts
      <4>6. QED
        BY <4>2, <4>3, <4>5
    <3>2. j - 1 = k - 1
      BY <1>3, <1>4, <2>2, <3>1 DEF Ordering
    <3>3. QED
      BY <3>2
  <2>3. QED
    BY <2>1, <2>2
<1>9. \A x \in 1 .. n : \E k \in 1 .. n : g[k] = x
  <2> SUFFICES ASSUME NEW x \in 1 .. n PROVE \E k \in 1 .. n : g[k] = x
    OBVIOUS
  <2>1. CASE x = m
    BY <1>5, <2>1, 1 \in 1 .. n
  <2>2. CASE x # m
    <3>1. PICK y \in 1 .. (n - 1) : Skip(m, y) = x
      BY <2>2, SkipFacts
    <3>2. PICK k \in 1 .. (n - 1) : f[k] = y
      BY <1>3 DEF Ordering
    <3>3. k + 1 \in 1 .. n /\ k + 1 # 1 /\ k + 1 - 1 = k
      OBVIOUS
    <3>4. g[k + 1] = x
      BY <1>5, <3>1, <3>2, <3>3
    <3>5. QED
      BY <3>3, <3>4
  <2>3. QED
    BY <2>1, <2>2
<1>10. \A j, k \in 1 .. n : j < k => s[g[j]] <= s[g[k]]
  <2> SUFFICES ASSUME NEW j \in 1 .. n, NEW k \in 1 .. n, j < k PROVE s[g[j]] <= s[g[k]]
    OBVIOUS
  <2>1. CASE j = 1
    <3>1. g[j] = m /\ g[k] \in 1 .. n
      BY <1>5, <1>6, <2>1
    <3>2. QED
      BY <1>1, <3>1
  <2>2. CASE j # 1
    <3>1. k # 1 /\ j - 1 < k - 1
      BY <2>2
    <3>2. t[f[j - 1]] <= t[f[k - 1]]
      BY <1>3, <1>4, <2>2, <3>1 DEF Ordering
    <3>3. QED
      BY <1>7, <2>2, <3>1, <3>2
  <2>3. QED
    BY <2>1, <2>2
<1>11. Ordering(g, s, n)
  BY <1>6, <1>8, <1>9, <1>10 DEF Ordering
<1>12. QED
  BY <1>11

LEMMA OrderingExists ==
    ASSUME NEW n \in Nat, NEW s \in [1 .. n -> Nat]
    PROVE  \E f : Ordering(f, s, n)
<1> DEFINE Bad == {k \in Nat : ~\A t \in [1 .. k -> Nat] : \E f : Ordering(f, t, k)}
<1>1. ASSUME NEW k \in Bad, \A l \in Bad : k <= l PROVE FALSE
  <2>1. k \in Nat /\ ~\A t \in [1 .. k -> Nat] : \E f : Ordering(f, t, k)
    OBVIOUS
  <2>2. CASE k = 0
    <3>1. ASSUME NEW t \in [1 .. k -> Nat] PROVE \E f : Ordering(f, t, k)
      <4> DEFINE f == [x \in 1 .. k |-> x]
      <4>1. 1 .. k = {}
        BY <2>2
      <4>2. Ordering(f, t, k)
        BY <4>1 DEF Ordering
      <4>3. QED
        BY <4>2
    <3>2. QED
      BY <2>1, <3>1
  <2>3. CASE k # 0
    <3>1. k - 1 \in Nat /\ ~(k <= k - 1)
      BY <2>1, <2>3
    <3>2. k - 1 \notin Bad
      BY <1>1, <3>1
    <3>3. \A t \in [1 .. (k - 1) -> Nat] : \E f : Ordering(f, t, k - 1)
      BY <3>1, <3>2
    <3> HIDE DEF Bad
    <3>4. \A t \in [1 .. k -> Nat] : \E f : Ordering(f, t, k)
      BY <2>1, <2>3, <3>3, OrderingNext
    <3>5. QED
      BY <2>1, <3>4
  <2>4. QED
    BY <2>2, <2>3
<1>2. Bad \subseteq Nat
  OBVIOUS
<1>3. Bad = {}
  <2> HIDE DEF Bad
  <2>1. QED
    BY <1>1, <1>2, Least
<1>4. n \notin Bad
  BY <1>3
<1>5. \A t \in [1 .. n -> Nat] : \E f : Ordering(f, t, n)
  BY <1>4
<1>6. QED
  BY <1>5

\* t has the n elements of s, as often as s has them, in order.
InOrder(t, s, n) ==
    /\ t \in Seq(Nat) /\ Len(t) = n /\ DOMAIN t = 1 .. n
    /\ \A k \in 1 .. n : \E j \in 1 .. n : t[k] = s[j]
    /\ \A j \in 1 .. n : \E k \in 1 .. n : t[k] = s[j]
    /\ \A j, k \in 1 .. n : j < k => t[j] <= t[k]
    /\ (\A j, k \in 1 .. n : s[j] = s[k] => j = k)
          => \A j, k \in 1 .. n : t[j] = t[k] => j = k

LEMMA SortedFacts ==
    ASSUME NEW s \in Seq(Nat), NEW n \in Nat, n = Len(s)
    PROVE  InOrder(Sorted(s), s, n)
<1> DEFINE order == CHOOSE f \in Bijection(DOMAIN s, DOMAIN s) :
                        \A j, k \in DOMAIN s : j < k => s[f[j]] <= s[f[k]]
<1>1. DOMAIN s = 1 .. n /\ s \in [1 .. n -> Nat]
  OBVIOUS
<1>2. PICK f : Ordering(f, s, n)
  BY <1>1, OrderingExists
<1>3. f \in Bijection(DOMAIN s, DOMAIN s)
  BY <1>1, <1>2 DEF Ordering, Bijection, Injection, Surjection, IsInjective
<1>4. \A j, k \in DOMAIN s : j < k => s[f[j]] <= s[f[k]]
  BY <1>1, <1>2 DEF Ordering
<1>5. /\ order \in Bijection(DOMAIN s, DOMAIN s)
      /\ \A j, k \in DOMAIN s : j < k => s[order[j]] <= s[order[k]]
  BY <1>3, <1>4
<1>6. Sorted(s) = [k \in DOMAIN s |-> s[order[k]]]
  BY DEF Sorted
<1> HIDE DEF order
<1>7. /\ order \in [1 .. n -> 1 .. n]
      /\ \A j, k \in 1 .. n : order[j] = order[k] => j = k
      /\ \A m \in 1 .. n : \E k \in 1 .. n : order[k] = m
  BY <1>1, <1>5 DEF Bijection, Injection, Surjection, IsInjective
<1>8. DOMAIN Sorted(s) = 1 .. n /\ \A k \in 1 .. n : order[k] \in 1 .. n /\ Sorted(s)[k] = s[order[k]]
  BY <1>1, <1>6, <1>7
<1>9. Sorted(s) \in [1 .. n -> Nat]
  <2>1. \A k \in DOMAIN s : s[order[k]] \in Nat
    BY <1>1, <1>7
  <2>2. QED
    BY <1>1, <1>6, <2>1
<1>10. Sorted(s) \in Seq(Nat) /\ Len(Sorted(s)) = n
  BY <1>9
<1>11. \A j, k \in 1 .. n : j < k => Sorted(s)[j] <= Sorted(s)[k]
  BY <1>1, <1>5, <1>8
<1>12. \A j \in 1 .. n : \E k \in 1 .. n : Sorted(s)[k] = s[j]
  BY <1>7, <1>8
<1>13. (\A j, k \in 1 .. n : s[j] = s[k] => j = k)
          => \A j, k \in 1 .. n : Sorted(s)[j] = Sorted(s)[k] => j = k
  <2> SUFFICES ASSUME \A j, k \in 1 .. n : s[j] = s[k] => j = k,
                      NEW j \in 1 .. n, NEW k \in 1 .. n, Sorted(s)[j] = Sorted(s)[k]
               PROVE  j = k
    OBVIOUS
  <2>1. order[j] \in 1 .. n /\ order[k] \in 1 .. n /\ s[order[j]] = s[order[k]]
    BY <1>8
  <2>2. order[j] = order[k]
    BY <2>1
  <2>3. QED
    BY <1>7, <2>2
<1>14. \A k \in 1 .. n : \E j \in 1 .. n : Sorted(s)[k] = s[j]
  BY <1>8
<1>15. QED
  BY <1>8, <1>10, <1>11, <1>12, <1>13, <1>14 DEF InOrder

-----------------------------------------------------------------------------
(* Types.                                                                  *)

Early == {"options", "helped", "refused"}
Listed == {"print", "readlink", "done"}

TypeInv ==
    /\ TypeOK
    /\ pc \in Early =>
          /\ buffer = <<>> /\ filled = 0 /\ pos = 0 /\ offered = {}
          /\ size = 0 /\ blocks = 0
    /\ pc \in Early \cup {"count", "lstat"} => array = <<>>
    /\ pc \in {"options", "count", "lstat", "fill"} => i = 1 /\ printed = <<>> /\ list = <<>>
    /\ pc = "lstat" => pos >= 1
    /\ pc \in Listed => Len(list) = size /\ Len(array) >= size
    /\ pc = "readlink" => i <= size

LEMMA SeqWiden ==
    ASSUME NEW m \in Nat, NEW n \in Nat, m <= n, NEW s \in Seq(1 .. m)
    PROVE  s \in Seq(1 .. n)
<1>1. \A k \in 1 .. Len(s) : s[k] \in 1 .. n
  <2> SUFFICES ASSUME NEW k \in 1 .. Len(s) PROVE s[k] \in 1 .. n
    OBVIOUS
  <2>1. s[k] \in 1 .. m
    OBVIOUS
  <2>2. QED
    BY <2>1
<1>2. s \in [1 .. Len(s) -> 1 .. n] /\ Len(s) \in Nat
  BY <1>1
<1>3. QED
  BY <1>2

\* What a call of getdents() brings.
LEMMA BatchFacts ==
    ASSUME NEW b \in Batches, TypeOK
    PROVE  /\ b \in Seq(Names) /\ Len(b) \in 1 .. BatchSize /\ DOMAIN b = 1 .. Len(b)
           /\ \A j, k \in 1 .. Len(b) : b[j] = b[k] => j = k
           /\ \A k \in 1 .. Len(b) : b[k] \in dir /\ b[k] \notin offered
           /\ \A k \in 1 .. Len(b) : b[k] \in since \/ b[k] \in dir \ since
<1>1. PICK m \in 1 .. BatchSize : b \in [1 .. m -> (since \ offered) \cup ((dir \ since) \ offered)]
  BY DEF Batches
<1>2. m \in Nat /\ Len(b) = m /\ DOMAIN b = 1 .. m
  BY <1>1, ListingAssumption
<1>3. \A k \in 1 .. m : b[k] \in dir /\ b[k] \notin offered /\ b[k] \in Names
  BY <1>1 DEF TypeOK
<1>4. b \in Seq(Names)
  BY <1>1, <1>2, <1>3
<1>5. \A j, k \in DOMAIN b : b[j] = b[k] => j = k
  BY DEF Batches
<1>6. QED
  BY <1>2, <1>3, <1>4, <1>5

LEMMA OverlayFacts ==
    ASSUME NEW b \in Batches, TypeOK
    PROVE  /\ Overlay(b) \in Seq(Names)
           /\ Len(Overlay(b)) >= Len(buffer) /\ Len(Overlay(b)) >= Len(b)
           /\ Len(Overlay(b)) <= BatchSize
           /\ \A k \in 1 .. Len(b) : Overlay(b)[k] = b[k]
           /\ \A k \in 1 .. Len(Overlay(b)) :
                 \/ k \in 1 .. Len(b) /\ Overlay(b)[k] = b[k]
                 \/ k \in 1 .. Len(buffer) /\ Overlay(b)[k] = buffer[k]
<1> DEFINE m == IF Len(b) > Len(buffer) THEN Len(b) ELSE Len(buffer)
<1>1. /\ b \in Seq(Names) /\ buffer \in Seq(Names)
      /\ Len(b) \in Nat /\ Len(buffer) \in Nat /\ BatchSize \in Nat
      /\ Len(b) <= BatchSize /\ Len(buffer) <= BatchSize
  <2>1. b \in Seq(Names) /\ Len(b) \in 1 .. BatchSize
    BY BatchFacts
  <2>2. buffer \in Seq(Names) /\ Len(buffer) <= BatchSize
    BY DEF TypeOK
  <2>3. QED
    BY <2>1, <2>2, ListingAssumption
<1>2. m \in Nat /\ m >= Len(b) /\ m >= Len(buffer) /\ m <= BatchSize /\ (m = Len(b) \/ m = Len(buffer))
  BY <1>1
<1> HIDE DEF m
<1>3. Overlay(b) = [k \in 1 .. m |-> IF k <= Len(b) THEN b[k] ELSE buffer[k]]
  BY DEF Overlay, m
<1>4. \A k \in 1 .. m : k <= Len(b) => k \in 1 .. Len(b) /\ Overlay(b)[k] = b[k]
  BY <1>1, <1>2, <1>3
<1>5. \A k \in 1 .. m : ~(k <= Len(b)) => k \in 1 .. Len(buffer) /\ Overlay(b)[k] = buffer[k]
  BY <1>1, <1>2, <1>3
<1>6. Overlay(b) \in [1 .. m -> Names]
  <2>1. \A k \in 1 .. m : Overlay(b)[k] \in Names
    BY <1>1, <1>4, <1>5
  <2>2. QED
    BY <1>3, <2>1
<1>7. Overlay(b) \in Seq(Names) /\ Len(Overlay(b)) = m
  BY <1>2, <1>6
<1>8. \A k \in 1 .. Len(b) : k \in 1 .. m /\ k <= Len(b)
  BY <1>1, <1>2
<1>9. QED
  BY <1>2, <1>4, <1>5, <1>7, <1>8

\* What the pointers lead to.
Pointed == [k \in 1 .. size |-> buffer[array[k]]]

LEMMA PointedFacts ==
    ASSUME TypeOK, Len(array) >= size
    PROVE  /\ Pointed \in Seq(Names) /\ Pointed \in Seq(Nat) /\ Len(Pointed) = size
           /\ \A k \in 1 .. size : /\ k \in 1 .. Len(array) /\ array[k] \in 1 .. Len(buffer)
                                   /\ Pointed[k] = buffer[array[k]]
<1>1. size \in Nat /\ buffer \in Seq(Names) /\ array \in Seq(1 .. Len(buffer))
  BY DEF TypeOK
<1>2. \A k \in 1 .. size : k \in 1 .. Len(array)
  BY <1>1
<1>3. \A k \in 1 .. Len(array) : array[k] \in 1 .. Len(buffer)
  BY <1>1
<1>4. \A k \in 1 .. Len(buffer) : buffer[k] \in Names
  BY <1>1
<1>5. Pointed \in [1 .. size -> Names] /\ \A k \in 1 .. size : Pointed[k] = buffer[array[k]]
  BY <1>2, <1>3, <1>4 DEF Pointed
<1>6. Pointed \in Seq(Names) /\ Len(Pointed) = size
  BY <1>1, <1>5
<1>7. Pointed \in Seq(Nat)
  <2>1. \A k \in 1 .. size : Pointed[k] \in Nat
    BY <1>5, ListingAssumption
  <2>2. Pointed \in [1 .. size -> Nat]
    BY <1>5, <2>1
  <2>3. QED
    BY <1>1, <2>2
<1>8. QED
  BY <1>2, <1>3, <1>5, <1>6, <1>7

\* The sorted list has the names that the pointers lead to.
LEMMA SortFacts ==
    ASSUME TypeOK, Len(array) >= size
    PROVE  /\ Sorted(Pointed) \in Seq(Names) /\ Len(Sorted(Pointed)) = size
           /\ \A k \in 1 .. size : \E j \in 1 .. size : Sorted(Pointed)[k] = Pointed[j]
           /\ \A j \in 1 .. size : \E k \in 1 .. size : Sorted(Pointed)[k] = Pointed[j]
           /\ \A j, k \in 1 .. size : j < k => Sorted(Pointed)[j] <= Sorted(Pointed)[k]
           /\ (\A j, k \in 1 .. size : Pointed[j] = Pointed[k] => j = k)
                 => \A j, k \in 1 .. size : Sorted(Pointed)[j] = Sorted(Pointed)[k] => j = k
<1>1. PICK s \in Seq(Nat) : s = Pointed
  BY PointedFacts
<1>2. size = Len(s) /\ size \in Nat /\ s \in Seq(Names)
  BY <1>1, PointedFacts DEF TypeOK
<1>3. /\ Sorted(s) \in Seq(Nat) /\ Len(Sorted(s)) = size
      /\ \A k \in 1 .. size : \E j \in 1 .. size : Sorted(s)[k] = s[j]
      /\ \A j \in 1 .. size : \E k \in 1 .. size : Sorted(s)[k] = s[j]
      /\ \A j, k \in 1 .. size : j < k => Sorted(s)[j] <= Sorted(s)[k]
      /\ (\A j, k \in 1 .. size : s[j] = s[k] => j = k)
            => \A j, k \in 1 .. size : Sorted(s)[j] = Sorted(s)[k] => j = k
  <2>1. PICK n \in Nat : n = size
    BY <1>2
  <2>2. n = Len(s)
    BY <1>2, <2>1
  <2>3. InOrder(Sorted(s), s, n)
    BY <2>2, SortedFacts
  <2>4. QED
    BY <2>1, <2>3 DEF InOrder
<1>4. \A k \in 1 .. size : Sorted(s)[k] \in Names
  <2> SUFFICES ASSUME NEW k \in 1 .. size PROVE Sorted(s)[k] \in Names
    OBVIOUS
  <2>1. PICK j \in 1 .. size : Sorted(s)[k] = s[j]
    BY <1>3
  <2>2. s[j] \in Names
    BY <1>2
  <2>3. QED
    BY <2>1, <2>2
<1>5. Sorted(s) \in Seq(Names)
  <2>1. PICK t \in Seq(Nat) : t = Sorted(s)
    BY <1>3
  <2>2. Len(t) = size /\ \A k \in 1 .. size : t[k] \in Names
    BY <1>3, <1>4, <2>1
  <2>3. t \in [1 .. size -> Names]
    BY <1>2, <2>1, <2>2
  <2>4. QED
    BY <1>2, <2>1, <2>3
<1>6. QED
  BY <1>1, <1>3, <1>5

LEMMA TypeInit == Init => TypeInv
<1> SUFFICES ASSUME Init PROVE TypeInv
  OBVIOUS
<1>1. Len(<<>>) = 0 /\ BatchSize \in Nat
  BY ListingAssumption
<1>2. TypeOK
  <2>1. pc \in Labels /\ faulted \in BOOLEAN
    BY DEF Init, Labels, Ended
  <2>2. QED
    BY <1>1, <2>1 DEF Init, TypeOK
<1>3. QED
  BY <1>2 DEF Init, TypeInv, Early, Listed

LEMMA TypeStep == TypeInv /\ [Next]_vars => TypeInv'
<1> SUFFICES ASSUME TypeInv, [Next]_vars PROVE TypeInv'
  OBVIOUS
<1>a. \A b \in Batches :
         /\ Overlay(b) \in Seq(Names) /\ Len(Overlay(b)) <= BatchSize
         /\ Len(Overlay(b)) >= Len(buffer) /\ Len(Overlay(b)) >= Len(b)
         /\ Len(b) \in Nat /\ Fetched(b) \subseteq Names
  <2> SUFFICES ASSUME NEW b \in Batches
               PROVE  /\ Overlay(b) \in Seq(Names) /\ Len(Overlay(b)) <= BatchSize
                      /\ Len(Overlay(b)) >= Len(buffer) /\ Len(Overlay(b)) >= Len(b)
                      /\ Len(b) \in Nat /\ Fetched(b) \subseteq Names
    OBVIOUS
  <2>1. TypeOK
    BY DEF TypeInv
  <2>2. b \in Seq(Names) /\ DOMAIN b = 1 .. Len(b)
    BY <2>1, BatchFacts
  <2>3. Fetched(b) \subseteq Names
    BY <2>2 DEF Fetched
  <2>4. QED
    BY <2>1, <2>2, <2>3, OverlayFacts
<1>b. Len(array) >= size =>
          Sorted(Pointed) \in Seq(Names) /\ Len(Sorted(Pointed)) = size
  BY SortFacts DEF TypeInv
<1> USE DEF TypeInv, TypeOK, Labels, Ended, Early, Listed, stream, world
<1>1. CASE Options
  BY <1>1 DEF Options
<1>2. CASE Refill
  <2>1. PICK b \in Batches : /\ buffer' = Overlay(b) /\ filled' = Len(b)
                             /\ offered' = offered \cup Fetched(b)
    BY <1>2 DEF Refill
  <2>2. /\ Overlay(b) \in Seq(Names) /\ Len(Overlay(b)) <= BatchSize
        /\ Len(Overlay(b)) >= Len(buffer) /\ Len(Overlay(b)) >= Len(b)
        /\ Len(b) \in Nat /\ Fetched(b) \subseteq Names
    BY <1>a
  <2>3. array \in Seq(1 .. Len(buffer'))
    BY <2>1, <2>2, SeqWiden
  <2>5. /\ pc \in {"count", "fill"} /\ pos' = 0
        /\ UNCHANGED <<flags, pc, since, size, blocks, array, list, i, printed>>
        /\ UNCHANGED world
    BY <1>2 DEF Refill
  <2>6. TypeOK'
    BY <2>1, <2>2, <2>3, <2>5
  <2>7. QED
    BY <2>5, <2>6
<1>3. CASE CountEntry
  BY <1>3 DEF CountEntry
<1>4. CASE StatCounted
  BY <1>4 DEF StatCounted
<1>5. CASE Rewind
  BY <1>5 DEF Rewind
<1>6. CASE FillEntry
  BY <1>6 DEF FillEntry
<1>q. ASSUME Qsort, pc = "fill", faulted' \in BOOLEAN,
             UNCHANGED <<dir, initial, created, removed>>
      PROVE  TypeInv'
  <2>1. CASE Len(array) >= size /\ list' = Sorted(Pointed) /\ pc' = "print"
    <3>1. list' \in Seq(Names) /\ Len(list') = size
      BY <2>1, <1>b
    <3>2. QED
      BY <1>q, <2>1, <3>1 DEF Qsort
  <2>2. CASE pc' = "crashed" /\ UNCHANGED list
    BY <1>q, <2>2 DEF Qsort
  <2>3. QED
    <3>1. \/ Len(array) >= size /\ list' = Sorted(Pointed) /\ pc' = "print"
          \/ pc' = "crashed" /\ UNCHANGED list
      BY <1>q, Zenon DEF Qsort, Pointed
    <3>2. QED
      BY <2>1, <2>2, <3>1
<1>7. CASE Sort
  BY <1>7, <1>q DEF Sort
<1>8. CASE SkipHidden
  BY <1>8 DEF SkipHidden
<1>9. CASE PrintEntry
  <2>1. list[i] \in Names
    <3>1. list \in Seq(Names) /\ i \in 1 .. Len(list)
      BY <1>9 DEF PrintEntry
    <3>2. QED
      BY <3>1
  <2>2. printed \in Seq(Names) /\ Append(printed, list[i]) \in Seq(Names)
    BY <2>1
  <2>3. printed' \in Seq(Names) /\ i' \in 1 .. size + 1 /\ (pc' = "readlink" => i' <= size)
    <3>1. printed' = printed \/ printed' = Append(printed, list[i])
      BY <1>9 DEF PrintEntry
    <3>2. i <= size /\ (i' = i \/ i' = i + 1)
      BY <1>9 DEF PrintEntry
    <3>3. pc' = "readlink" => i' = i
      BY <1>9 DEF PrintEntry
    <3>4. size \in Nat /\ i \in 1 .. size + 1
      OBVIOUS
    <3>5. i' \in 1 .. size + 1
      BY <3>2, <3>4
    <3>6. printed' \in Seq(Names)
      BY <2>2, <3>1
    <3>7. QED
      BY <3>2, <3>3, <3>5, <3>6
  <2>4. /\ pc = "print" /\ pc' \in {"print", "readlink", "failed"}
        /\ UNCHANGED <<flags, size, blocks, array, list>> /\ UNCHANGED stream
        /\ UNCHANGED world
    BY <1>9 DEF PrintEntry
  <2>5. TypeOK'
    BY <2>3, <2>4
  <2>6. QED
    BY <2>3, <2>4, <2>5
<1>10. CASE ReadLink
  BY <1>10 DEF ReadLink
<1>11. CASE Finish
  BY <1>11 DEF Finish
<1>12. CASE \E n \in Names : Create(n) \/ Remove(n)
  BY <1>12 DEF Create, Remove
<1>13. CASE UNCHANGED vars
  BY <1>13 DEF vars
<1>r. CASE ReadFails
  BY <1>r, <1>q DEF ReadFails
<1>c. CASE CallFails
  <2>1. /\ pc \in {"count", "lstat", "readlink", "print"} /\ pc' \in {"failed", "crashed"}
        /\ faulted' = TRUE
        /\ UNCHANGED <<flags, size, blocks, array, list, i, printed>> /\ UNCHANGED stream
        /\ UNCHANGED <<dir, initial, created, removed>>
    BY <1>c DEF CallFails
  <2>2. QED
    BY <2>1
<1>14. QED
  BY <1>1, <1>2, <1>3, <1>4, <1>5, <1>6, <1>7, <1>8, <1>9, <1>10, <1>11, <1>12, <1>13,
     <1>r, <1>c DEF Next, Step

-----------------------------------------------------------------------------
(* What the changes leave of the directory.                                *)

DirInv ==
    /\ initial \ removed \subseteq dir
    /\ created = {} /\ removed = {} => dir = initial
    /\ pc \notin Early => initial \ removed \subseteq since
    /\ pc \notin Early /\ created = {} => since = dir
    /\ removed = {} => offered \subseteq dir
    /\ removed = {} => \A k \in DOMAIN buffer : buffer[k] \in dir
    /\ removed = {} => \A k \in DOMAIN list : list[k] \in dir
    /\ \A j, k \in 1 .. filled : buffer[j] = buffer[k] => j = k

LEMMA DirInit == Init => DirInv
  BY DEF Init, DirInv, Early

\* The entries of one call are different ones and exist.
LEMMA DirRefill ==
    ASSUME TypeInv, DirInv, Refill
    PROVE  DirInv'
<1>1. PICK b \in Batches : /\ buffer' = Overlay(b) /\ filled' = Len(b)
                           /\ offered' = offered \cup Fetched(b)
  BY DEF Refill
<1>2. TypeOK
  BY DEF TypeInv
<1>3. UNCHANGED <<pc, since, list>> /\ UNCHANGED world
  BY DEF Refill
<1>4. /\ \A k \in 1 .. Len(b) : b[k] \in dir
      /\ \A j, k \in 1 .. Len(b) : b[j] = b[k] => j = k
      /\ DOMAIN b = 1 .. Len(b)
  BY <1>2, BatchFacts
<1>5. /\ \A k \in 1 .. Len(b) : buffer'[k] = b[k]
      /\ \A k \in 1 .. Len(buffer') : \/ k \in 1 .. Len(b) /\ buffer'[k] = b[k]
                                      \/ k \in 1 .. Len(buffer) /\ buffer'[k] = buffer[k]
      /\ DOMAIN buffer' = 1 .. Len(buffer') /\ DOMAIN buffer = 1 .. Len(buffer)
  <2>1. Overlay(b) \in Seq(Names) /\ buffer \in Seq(Names)
    BY <1>2, OverlayFacts DEF TypeOK
  <2>2. DOMAIN Overlay(b) = 1 .. Len(Overlay(b)) /\ DOMAIN buffer = 1 .. Len(buffer)
    BY <2>1
  <2>3. QED
    BY <1>1, <1>2, <2>2, OverlayFacts
<1>6. (\A j, k \in 1 .. filled : buffer[j] = buffer[k] => j = k)'
  BY <1>1, <1>4, <1>5
<1>7. (removed = {} => \A k \in DOMAIN buffer : buffer[k] \in dir)'
  BY <1>3, <1>4, <1>5 DEF DirInv, world
<1>8. (removed = {} => offered \subseteq dir)'
  BY <1>1, <1>3, <1>4 DEF DirInv, world, Fetched
<1>9. QED
  BY <1>3, <1>6, <1>7, <1>8 DEF DirInv, world

LEMMA DirSort ==
    ASSUME TypeInv, DirInv, pc = "fill", Qsort,
           UNCHANGED <<dir, initial, created, removed>>
    PROVE  DirInv'
<1>1. /\ UNCHANGED stream /\ UNCHANGED <<dir, initial, created, removed>> /\ pc \notin Early
      /\ \/ Len(array) >= size /\ list' = Sorted(Pointed)
         \/ UNCHANGED list
  <2>1. pc \notin Early
    BY DEF Early
  <2>2. QED
    BY <2>1, Zenon DEF Qsort, Pointed
<1>2. TypeOK
  BY DEF TypeInv
<1>3. ASSUME Len(array) >= size, list' = Sorted(Pointed), removed = {}
      PROVE  \A k \in DOMAIN list' : list'[k] \in dir
  <2>1. DOMAIN list' = 1 .. size
    <3>1. list' \in Seq(Names) /\ Len(list') = size
      BY <1>2, <1>3, SortFacts
    <3>2. QED
      BY <3>1
  <2> SUFFICES ASSUME NEW k \in 1 .. size PROVE list'[k] \in dir
    BY <2>1
  <2>2. PICK j \in 1 .. size : list'[k] = Pointed[j]
    BY <1>2, <1>3, SortFacts
  <2>3. array[j] \in 1 .. Len(buffer) /\ Pointed[j] = buffer[array[j]]
    BY <1>2, <1>3, PointedFacts
  <2>4. DOMAIN buffer = 1 .. Len(buffer)
    BY <1>2 DEF TypeOK
  <2>5. QED
    BY <1>3, <2>2, <2>3, <2>4 DEF DirInv
<1>4. QED
  BY <1>1, <1>3 DEF DirInv, stream, Early

LEMMA DirStep == TypeInv /\ DirInv /\ [Next]_vars => DirInv'
<1> SUFFICES ASSUME TypeInv, DirInv, [Next]_vars PROVE DirInv'
  OBVIOUS
<1>0. TypeOK
  BY DEF TypeInv
<1> USE DEF DirInv, Early, stream, world
<1>1. CASE Options
  <2>1. /\ pc = "options" /\ UNCHANGED <<dir, initial, created, removed, buffer, filled, offered, list>>
        /\ since' = dir \/ pc' \in Early
    BY <1>1 DEF Options
  <2>2. QED
    BY <2>1
<1>2. CASE Refill
  BY <1>2, DirRefill
<1>3. CASE CountEntry
  BY <1>3 DEF CountEntry
<1>4. CASE StatCounted
  BY <1>4 DEF StatCounted
<1>5. CASE Rewind
  <2>1. filled' = 0 /\ offered' = {} /\ since' = dir /\ UNCHANGED <<dir, initial, created, removed, buffer, list>>
    BY <1>5 DEF Rewind
  <2>2. QED
    BY <2>1
<1>6. CASE FillEntry
  BY <1>6 DEF FillEntry
<1>7. CASE Sort
  BY <1>7, DirSort DEF Sort
<1>8. CASE SkipHidden
  BY <1>8 DEF SkipHidden
<1>9. CASE PrintEntry
  BY <1>9 DEF PrintEntry
<1>10. CASE ReadLink
  BY <1>10 DEF ReadLink
<1>11. CASE Finish
  BY <1>11 DEF Finish
<1>12. ASSUME NEW n \in Names, Create(n) PROVE DirInv'
  <2>1. /\ dir' = dir \cup {n} /\ created' = created \cup {n} /\ offered' = offered \ {n}
        /\ UNCHANGED <<pc, buffer, filled, since, list, initial, removed>>
    BY <1>12 DEF Create
  <2>2. QED
    BY <2>1
<1>13. ASSUME NEW n \in Names, Remove(n) PROVE DirInv'
  <2>1. /\ dir' = dir \ {n} /\ removed' = removed \cup {n} /\ since' = since \ {n}
        /\ UNCHANGED <<pc, buffer, filled, offered, list, initial, created>>
    BY <1>13 DEF Remove
  <2>2. QED
    BY <2>1
<1>14. CASE UNCHANGED vars
  BY <1>14 DEF vars
<1>r. CASE ReadFails
  BY <1>r, DirSort DEF ReadFails
<1>c. CASE CallFails
  <2>1. /\ pc \notin Early /\ UNCHANGED <<dir, initial, created, removed, list>>
        /\ UNCHANGED stream
    BY <1>c DEF CallFails
  <2>2. QED
    BY <2>1
<1>15. QED
  BY <1>1, <1>2, <1>3, <1>4, <1>5, <1>6, <1>7, <1>8, <1>9, <1>10, <1>11, <1>12, <1>13, <1>14,
     <1>r, <1>c DEF Next, Step

-----------------------------------------------------------------------------
(* What readdir() has returned.                                            *)

Calm == created = {} \/ removed = {}

\* Of the names o that were fetched, those before place p of the f entries in
\* the buffer b, and of the earlier calls.
Returned(o, b, f, p) == o \ {b[k] : k \in (p + 1) .. f}

Shown(fl, S) == {n \in S : "all" \in fl \/ n \notin Hidden}

LEMMA FiniteNames ==
    ASSUME NEW S, S \subseteq Names
    PROVE  IsFiniteSet(S) /\ Cardinality(S) \in Nat
  BY ListingAssumption, FS_Subset, FS_CardinalityType

\* readdir() returns the next entry of the buffer.
LEMMA ReturnedNext ==
    ASSUME NEW o, o \subseteq Names, NEW f \in Nat, NEW b, NEW p \in Nat, p < f,
           \A k \in 1 .. f : b[k] \in o,
           \A j, k \in 1 .. f : b[j] = b[k] => j = k
    PROVE  /\ Returned(o, b, f, p + 1) = Returned(o, b, f, p) \cup {b[p + 1]}
           /\ b[p + 1] \notin Returned(o, b, f, p)
<1>1. p + 1 \in 1 .. f /\ p + 1 \in (p + 1) .. f
  OBVIOUS
<1>2. b[p + 1] \in o
  BY <1>1
<1>3. b[p + 1] \notin Returned(o, b, f, p)
  BY <1>1 DEF Returned
<1>4. \A k \in (p + 1 + 1) .. f : k \in 1 .. f /\ k # p + 1 /\ k \in (p + 1) .. f
  OBVIOUS
<1>5. \A k \in (p + 1) .. f : k = p + 1 \/ k \in (p + 1 + 1) .. f
  OBVIOUS
<1>6. b[p + 1] \in Returned(o, b, f, p + 1)
  BY <1>1, <1>2, <1>4 DEF Returned
<1>7. ASSUME NEW x \in Returned(o, b, f, p + 1), x # b[p + 1] PROVE x \in Returned(o, b, f, p)
  <2>1. x \in o /\ \A k \in (p + 1 + 1) .. f : x # b[k]
    BY DEF Returned
  <2>2. \A k \in (p + 1) .. f : x # b[k]
    BY <1>5, <1>7, <2>1
  <2>3. QED
    BY <2>1, <2>2 DEF Returned
<1>8. ASSUME NEW x \in Returned(o, b, f, p) PROVE x \in Returned(o, b, f, p + 1)
  <2>1. x \in o /\ \A k \in (p + 1) .. f : x # b[k]
    BY DEF Returned
  <2>2. \A k \in (p + 1 + 1) .. f : x # b[k]
    BY <1>4, <2>1
  <2>3. QED
    BY <2>1, <2>2 DEF Returned
<1>9. QED
  BY <1>3, <1>6, <1>7, <1>8

LEMMA ReturnedCount ==
    ASSUME NEW o, o \subseteq Names, NEW f \in Nat, NEW b, NEW p \in Nat, p < f,
           \A k \in 1 .. f : b[k] \in o,
           \A j, k \in 1 .. f : b[j] = b[k] => j = k
    PROVE  Cardinality(Returned(o, b, f, p + 1)) = Cardinality(Returned(o, b, f, p)) + 1
<1>1. PICK R : R = Returned(o, b, f, p)
  OBVIOUS
<1>2. PICK x : x = b[p + 1]
  OBVIOUS
<1>3. Returned(o, b, f, p + 1) = R \cup {x} /\ x \notin R
  BY <1>1, <1>2, ReturnedNext
<1>4. IsFiniteSet(R) /\ Cardinality(R) \in Nat
  <2>1. R \subseteq Names
    BY <1>1 DEF Returned
  <2>2. QED
    BY <2>1, FiniteNames
<1>5. Cardinality(R \cup {x}) = Cardinality(R) + 1
  BY <1>3, <1>4, FS_AddElement
<1>6. QED
  BY <1>1, <1>3, <1>5

LEMMA ShownCount ==
    ASSUME NEW R, R \subseteq Names, NEW x, x \notin R, NEW fl
    PROVE  /\ "all" \in fl \/ x \notin Hidden
                 => Cardinality(Shown(fl, R \cup {x})) = Cardinality(Shown(fl, R)) + 1
           /\ ~("all" \in fl \/ x \notin Hidden)
                 => Cardinality(Shown(fl, R \cup {x})) = Cardinality(Shown(fl, R))
<1>1. PICK S : S = Shown(fl, R)
  OBVIOUS
<1>2. IsFiniteSet(S) /\ x \notin S
  <2>1. S \subseteq Names /\ x \notin S
    BY <1>1 DEF Shown
  <2>2. QED
    BY <2>1, FiniteNames
<1>3. CASE "all" \in fl \/ x \notin Hidden
  <2>1. Shown(fl, R \cup {x}) = S \cup {x}
    BY <1>1, <1>3 DEF Shown
  <2>2. Cardinality(S \cup {x}) = Cardinality(S) + 1
    BY <1>2, FS_AddElement
  <2>3. QED
    BY <1>1, <1>3, <2>1, <2>2
<1>4. CASE ~("all" \in fl \/ x \notin Hidden)
  <2>1. Shown(fl, R \cup {x}) = S
    BY <1>1, <1>4 DEF Shown
  <2>2. QED
    BY <1>1, <1>4, <2>1
<1>5. QED
  BY <1>3, <1>4

LEMMA ReturnedAll ==
    ASSUME NEW o, NEW b, NEW f \in Nat
    PROVE  Returned(o, b, f, f) = o
<1>1. (f + 1) .. f = {}
  OBVIOUS
<1>2. QED
  BY <1>1 DEF Returned

\* Nothing of a call has been returned yet.
LEMMA ReturnedNone ==
    ASSUME NEW b \in Batches, TypeOK
    PROVE  Returned(offered \cup Fetched(b), Overlay(b), Len(b), 0) = offered
<1>1. DOMAIN b = 1 .. Len(b) /\ \A k \in 1 .. Len(b) : b[k] \notin offered
  BY BatchFacts
<1>2. \A k \in 1 .. Len(b) : Overlay(b)[k] = b[k]
  BY OverlayFacts
<1>3. {Overlay(b)[k] : k \in (0 + 1) .. Len(b)} = Fetched(b)
  BY <1>1, <1>2 DEF Fetched
<1>4. Fetched(b) \cap offered = {}
  BY <1>1 DEF Fetched
<1>5. QED
  BY <1>3, <1>4 DEF Returned

CountInv ==
    Calm =>
       /\ \A k \in 1 .. filled : buffer[k] \in offered
       /\ pc = "count" =>
             /\ size = Cardinality(Returned(offered, buffer, filled, pos))
             /\ blocks = Cardinality(Shown(flags, Returned(offered, buffer, filled, pos)))
       /\ pc = "lstat" =>
             /\ size = Cardinality(Returned(offered, buffer, filled, pos - 1))
             /\ blocks = Cardinality(Shown(flags, Returned(offered, buffer, filled, pos - 1)))
       /\ pc = "fill" => Len(array) = Cardinality(Returned(offered, buffer, filled, pos))

LEMMA CountInit == Init => CountInv
  BY DEF Init, CountInv

LEMMA CountOptions ==
    ASSUME TypeInv, CountInv, Options
    PROVE  CountInv'
<1>1. /\ pc = "options" /\ filled = 0 /\ pos = 0 /\ size = 0 /\ blocks = 0 /\ offered = {}
      /\ UNCHANGED <<buffer, filled, pos, offered, size, blocks, array>>
      /\ pc' \in {"helped", "refused", "count"}
  BY DEF Options, TypeInv, Early
<1>2. Returned(offered', buffer', filled', pos') = {} /\ Shown(flags', {}) = {}
  BY <1>1 DEF Returned, Shown
<1>3. Cardinality({}) = 0
  BY FS_EmptySet
<1>4. 1 .. filled' = {} /\ pc' # "lstat" /\ pc' # "fill" /\ size' = 0 /\ blocks' = 0
  BY <1>1
<1>5. QED
  BY <1>2, <1>3, <1>4 DEF CountInv

LEMMA CountRefill ==
    ASSUME TypeInv, CountInv, Refill
    PROVE  CountInv'
<1> SUFFICES ASSUME Calm' PROVE CountInv'
  BY DEF CountInv
<1>1. PICK b \in Batches : /\ buffer' = Overlay(b) /\ filled' = Len(b)
                           /\ offered' = offered \cup Fetched(b)
  BY DEF Refill
<1>2. TypeOK /\ filled \in Nat /\ pos = filled
  BY DEF TypeInv, TypeOK, Refill
<1>3. /\ pc \in {"count", "fill"} /\ pos' = 0
      /\ UNCHANGED <<flags, pc, size, blocks, array>> /\ Calm
  <2>1. /\ pc \in {"count", "fill"} /\ pos' = 0
        /\ UNCHANGED <<flags, pc, size, blocks, array>> /\ UNCHANGED world
    BY DEF Refill
  <2>2. created' = created /\ removed' = removed /\ Calm'
    BY <2>1 DEF world
  <2>4. Calm
    BY <2>2 DEF Calm
  <2>3. QED
    BY <2>1, <2>4
<1>4. Returned(offered, buffer, filled, pos) = offered
  BY <1>2, ReturnedAll
<1>5. Returned(offered', buffer', filled', pos') = offered
  BY <1>1, <1>2, <1>3, ReturnedNone
<1>6. \A k \in 1 .. filled' : buffer'[k] \in offered'
  <2>1. DOMAIN b = 1 .. Len(b)
    BY <1>2, BatchFacts
  <2>2. \A k \in 1 .. Len(b) : b[k] \in Fetched(b)
    BY <2>1 DEF Fetched
  <2>3. \A k \in 1 .. Len(b) : Overlay(b)[k] = b[k]
    BY <1>2, OverlayFacts
  <2>4. QED
    BY <1>1, <2>2, <2>3
<1>7. QED
  BY <1>3, <1>4, <1>5, <1>6 DEF CountInv

LEMMA CountCountEntry ==
    ASSUME TypeInv, CountInv, CountEntry
    PROVE  CountInv'
<1>1. /\ pc = "count" /\ pc' = "lstat" /\ pos' = pos + 1 /\ pos \in Nat
      /\ UNCHANGED <<flags, buffer, filled, offered, size, blocks, array>> /\ UNCHANGED world
  BY DEF CountEntry, TypeInv, TypeOK
<1>2. pos' - 1 = pos
  BY <1>1
<1>3. QED
  BY <1>1, <1>2 DEF CountInv, Calm, world

LEMMA CountStat ==
    ASSUME TypeInv, DirInv, CountInv, StatCounted
    PROVE  CountInv'
<1> SUFFICES ASSUME Calm' PROVE CountInv'
  BY DEF CountInv
<1>1. /\ pc = "lstat" /\ UNCHANGED <<flags, array>> /\ UNCHANGED stream /\ Calm
  BY DEF StatCounted, Calm, world
<1>2. CASE pc' = "failed"
  BY <1>1, <1>2 DEF CountInv, stream
<1>3. CASE pc' # "failed"
  <2>1. PICK p \in Nat : p = pos - 1 /\ p + 1 = pos /\ p < filled
    BY <1>1 DEF TypeInv, TypeOK
  <2>2. PICK R : R = Returned(offered, buffer, filled, p)
    OBVIOUS
  <2>3. size = Cardinality(R) /\ blocks = Cardinality(Shown(flags, R))
    BY <1>1, <2>1, <2>2 DEF CountInv
  <2>4. filled \in Nat /\ offered \subseteq Names
    BY DEF TypeInv, TypeOK
  <2>5. \A k \in 1 .. filled : buffer[k] \in offered
    BY <1>1 DEF CountInv
  <2>6. \A j, k \in 1 .. filled : buffer[j] = buffer[k] => j = k
    BY DEF DirInv
  <2>7. PICK x : x = buffer[p + 1]
    OBVIOUS
  <2>8. Returned(offered, buffer, filled, p + 1) = R \cup {x} /\ x \notin R
    <3>1. /\ Returned(offered, buffer, filled, p + 1)
                = Returned(offered, buffer, filled, p) \cup {buffer[p + 1]}
          /\ buffer[p + 1] \notin Returned(offered, buffer, filled, p)
      BY <2>1, <2>4, <2>5, <2>6, ReturnedNext
    <3>2. QED
      BY <2>2, <2>7, <3>1
  <2>9. Cardinality(Returned(offered, buffer, filled, p + 1)) = Cardinality(R) + 1
    BY <2>1, <2>2, <2>4, <2>5, <2>6, ReturnedCount
  <2>10. R \subseteq Names
    BY <2>2, <2>4 DEF Returned
  <2>11. /\ Visible(x) => Cardinality(Shown(flags, R \cup {x})) = Cardinality(Shown(flags, R)) + 1
         /\ ~Visible(x) => Cardinality(Shown(flags, R \cup {x})) = Cardinality(Shown(flags, R))
    BY <2>8, <2>10, ShownCount DEF Visible
  <2>12. /\ pc' = "count" /\ size' = size + 1
         /\ Visible(x) => blocks' = blocks + 1
         /\ ~Visible(x) => blocks' = blocks
    BY <1>3, <2>1, <2>7 DEF StatCounted
  <2>13. /\ size' = Cardinality(R \cup {x})
         /\ blocks' = Cardinality(Shown(flags, R \cup {x}))
    BY <2>3, <2>8, <2>9, <2>11, <2>12
  <2>14. Returned(offered', buffer', filled', pos') = R \cup {x} /\ flags' = flags
    BY <1>1, <2>1, <2>8 DEF stream
  <2>15. \A k \in 1 .. filled' : buffer'[k] \in offered'
    BY <1>1, <2>5 DEF stream
  <2>16. QED
    BY <2>12, <2>13, <2>14, <2>15 DEF CountInv
<1>4. QED
  BY <1>2, <1>3

LEMMA CountRewind ==
    ASSUME TypeInv, CountInv, Rewind
    PROVE  CountInv'
<1>1. /\ pc' = "fill" /\ filled' = 0 /\ pos' = 0 /\ offered' = {} /\ array' = <<>>
  BY DEF Rewind, TypeInv
<1>2. Returned(offered', buffer', filled', pos') = {} /\ Cardinality({}) = 0 /\ Len(<<>>) = 0
  BY <1>1, FS_EmptySet DEF Returned
<1>3. QED
  BY <1>1, <1>2 DEF CountInv

LEMMA CountFill ==
    ASSUME TypeInv, DirInv, CountInv, FillEntry
    PROVE  CountInv'
<1> SUFFICES ASSUME Calm' PROVE CountInv'
  BY DEF CountInv
<1>1. /\ pc = "fill" /\ pc' = "fill" /\ pos' = pos + 1 /\ Calm
      /\ UNCHANGED <<buffer, filled, offered>>
  BY DEF FillEntry, Calm, world
<1>2. filled \in Nat /\ offered \subseteq Names /\ pos \in Nat /\ pos < filled
  BY DEF TypeInv, TypeOK, FillEntry
<1>3. \A k \in 1 .. filled : buffer[k] \in offered
  BY <1>1 DEF CountInv
<1>4. \A j, k \in 1 .. filled : buffer[j] = buffer[k] => j = k
  BY DEF DirInv
<1>5. Cardinality(Returned(offered, buffer, filled, pos + 1))
        = Cardinality(Returned(offered, buffer, filled, pos)) + 1
  BY <1>2, <1>3, <1>4, ReturnedCount
<1>6. Len(array') = Len(array) + 1
  BY DEF FillEntry, TypeInv, TypeOK
<1>7. QED
  BY <1>1, <1>3, <1>5, <1>6 DEF CountInv

LEMMA CountStep == TypeInv /\ DirInv /\ CountInv /\ [Next]_vars => CountInv'
<1> SUFFICES ASSUME TypeInv, DirInv, CountInv, [Next]_vars PROVE CountInv'
  OBVIOUS
<1>1. CASE Options
  BY <1>1, CountOptions
<1>2. CASE Refill
  BY <1>2, CountRefill
<1>3. CASE CountEntry
  BY <1>3, CountCountEntry
<1>4. CASE StatCounted
  BY <1>4, CountStat
<1>5. CASE Rewind
  BY <1>5, CountRewind
<1>6. CASE FillEntry
  BY <1>6, CountFill
<1>7. CASE Sort
  BY <1>7 DEF Sort, Qsort, CountInv, Calm, stream, world
<1>8. CASE SkipHidden
  BY <1>8 DEF SkipHidden, CountInv, Calm, stream, world
<1>9. CASE PrintEntry
  BY <1>9 DEF PrintEntry, CountInv, Calm, stream, world
<1>10. CASE ReadLink
  BY <1>10 DEF ReadLink, CountInv, Calm, stream, world
<1>11. CASE Finish
  BY <1>11 DEF Finish, CountInv, Calm, stream, world
<1>12. ASSUME NEW n \in Names, Create(n) PROVE CountInv'
  <2> SUFFICES ASSUME Calm' PROVE CountInv'
    BY DEF CountInv
  <2>1. /\ n \notin dir /\ created' = created \cup {n} /\ offered' = offered \ {n}
        /\ UNCHANGED <<flags, pc, buffer, filled, pos, size, blocks, array, removed>>
    BY <1>12 DEF Create
  <2>2. removed = {}
    BY <2>1 DEF Calm
  <2>3. offered' = offered /\ Calm
    BY <2>1, <2>2 DEF DirInv, Calm
  <2>4. QED
    BY <2>1, <2>3 DEF CountInv
<1>13. ASSUME NEW n \in Names, Remove(n) PROVE CountInv'
  <2>1. /\ Calm' => Calm
        /\ UNCHANGED <<flags, pc, buffer, filled, pos, offered, size, blocks, array>>
    BY <1>13 DEF Remove, Calm
  <2>2. QED
    BY <2>1 DEF CountInv
<1>14. CASE UNCHANGED vars
  BY <1>14 DEF vars, CountInv, Calm
<1>r. CASE ReadFails
  BY <1>r DEF ReadFails, Qsort, CountInv, Calm, stream
<1>c. CASE CallFails
  <2>1. /\ pc' \in {"failed", "crashed"}
        /\ UNCHANGED <<flags, size, blocks, array, created, removed>> /\ UNCHANGED stream
    BY <1>c DEF CallFails
  <2>2. QED
    BY <2>1 DEF CountInv, Calm, stream
<1>15. QED
  BY <1>1, <1>2, <1>3, <1>4, <1>5, <1>6, <1>7, <1>8, <1>9, <1>10, <1>11, <1>12, <1>13, <1>14,
     <1>r, <1>c DEF Next, Step

-----------------------------------------------------------------------------
(* Only changes hurt.                                                      *)

\* What the second pass will find, against what the first one counted.
HurtInv ==
    /\ pc \in Early \cup {"count", "lstat"} => ~Overrun
    /\ pc = "fill" /\ created = {} => Cardinality(dir \cup offered) <= size
    /\ pc = "fill" /\ removed = {} => size <= Cardinality(since)
    /\ pc \in Listed \cup {"fill"} /\ created = {} /\ removed = {} =>
          blocks = Cardinality(Shown(flags, dir))
    /\ OnlyChangesHurt

LEMMA HurtInit == Init => HurtInv
<1>1. Len(<<>>) = 0
  OBVIOUS
<1>2. QED
  BY <1>1 DEF Init, HurtInv, OnlyChangesHurt, Overrun, Early, Listed

LEMMA HurtRefill ==
    ASSUME TypeInv, DirInv, HurtInv, Refill
    PROVE  HurtInv'
<1>1. PICK b \in Batches : offered' = offered \cup Fetched(b)
  BY DEF Refill
<1>2. /\ UNCHANGED <<flags, pc, since, size, blocks, array>> /\ UNCHANGED world
      /\ pc \in {"count", "fill"}
  BY DEF Refill
<1>3. TypeOK /\ DOMAIN b = 1 .. Len(b) /\ \A k \in 1 .. Len(b) : b[k] \in dir
  BY BatchFacts DEF TypeInv
<1>4. dir \cup offered' = dir \cup offered
  BY <1>1, <1>3 DEF Fetched
<1>5. (pc = "fill" /\ created = {} => Cardinality(dir \cup offered) <= size)'
  BY <1>2, <1>4 DEF HurtInv, world
<1>6. OnlyChangesHurt'
  BY <1>2 DEF HurtInv, OnlyChangesHurt, Overrun, world
<1>7. QED
  BY <1>2, <1>5, <1>6 DEF HurtInv, Early, Listed, Overrun, world

LEMMA HurtRewind ==
    ASSUME TypeInv, DirInv, CountInv, HurtInv, Rewind
    PROVE  HurtInv'
<1>1. /\ pc = "count" /\ pc' = "fill" /\ offered' = {} /\ since' = dir
      /\ UNCHANGED <<flags, size, blocks, array>> /\ UNCHANGED world
  BY DEF Rewind
<1>2. filled \in Nat /\ pos = filled /\ since \subseteq offered /\ offered \subseteq Names
      /\ dir \subseteq Names
  BY DEF Rewind, AtEnd, TypeInv, TypeOK
<1>3. Calm => size = Cardinality(offered) /\ blocks = Cardinality(Shown(flags, offered))
  BY <1>1, <1>2, ReturnedAll DEF CountInv
<1>4. (pc = "fill" /\ created = {} => Cardinality(dir \cup offered) <= size)'
  <2> SUFFICES ASSUME created = {} PROVE Cardinality(dir) <= size
    BY <1>1 DEF world
  <2>1. dir \subseteq offered
    BY <1>1, <1>2 DEF DirInv, Early
  <2>2. Cardinality(dir) <= Cardinality(offered)
    BY <1>2, <2>1, FiniteNames, FS_Subset
  <2>3. QED
    BY <1>3, <2>2 DEF Calm
<1>5. (pc = "fill" /\ removed = {} => size <= Cardinality(since))'
  <2> SUFFICES ASSUME removed = {} PROVE size <= Cardinality(dir)
    BY <1>1 DEF world
  <2>1. Cardinality(offered) <= Cardinality(dir)
    BY <1>2, FiniteNames, FS_Subset DEF DirInv
  <2>2. QED
    BY <1>3, <2>1 DEF Calm
<1>6. ASSUME created = {}, removed = {} PROVE blocks = Cardinality(Shown(flags, dir))
  <2>1. dir = offered
    BY <1>1, <1>2, <1>6 DEF DirInv, Early
  <2>2. QED
    BY <1>3, <1>6, <2>1 DEF Calm
<1>7. OnlyChangesHurt'
  <2>1. ~Overrun
    BY <1>1 DEF HurtInv
  <2>2. QED
    BY <1>1, <2>1 DEF OnlyChangesHurt, Overrun
<1>8. QED
  BY <1>1, <1>4, <1>5, <1>6, <1>7 DEF HurtInv, Early, Listed, world

LEMMA HurtFill ==
    ASSUME TypeInv, DirInv, CountInv, HurtInv, FillEntry, CountInv'
    PROVE  HurtInv'
<1>1. /\ pc = "fill" /\ pc' = "fill" /\ UNCHANGED <<flags, buffer, filled, offered, since, size, blocks>>
      /\ UNCHANGED world
  BY DEF FillEntry
<1>2. ASSUME created = {} PROVE ~Overrun'
  <2>1. Len(array') = Cardinality(Returned(offered', buffer', filled', pos'))
    BY <1>1, <1>2 DEF CountInv, Calm, world
  <2>2. PICK R : R = Returned(offered', buffer', filled', pos')
    OBVIOUS
  <2>3. R \subseteq offered /\ offered \subseteq Names /\ dir \subseteq Names /\ size \in Nat
    BY <1>1, <2>2 DEF Returned, TypeInv, TypeOK
  <2>4. R \subseteq dir \cup offered /\ dir \cup offered \subseteq Names
    BY <2>3
  <2>5. /\ Cardinality(R) <= Cardinality(dir \cup offered)
        /\ Cardinality(R) \in Nat /\ Cardinality(dir \cup offered) \in Nat
    BY <2>4, FiniteNames, FS_Subset
  <2>6. Cardinality(dir \cup offered) <= size
    BY <1>1, <1>2 DEF HurtInv
  <2>7. Len(array') <= size
    BY <2>1, <2>2, <2>3, <2>5, <2>6
  <2>8. Len(array') \in Nat
    BY <2>1, <2>2, <2>5
  <2>9. QED
    BY <1>1, <2>3, <2>7, <2>8 DEF Overrun
<1>3. OnlyChangesHurt'
  BY <1>1, <1>2 DEF OnlyChangesHurt, world
<1>4. QED
  BY <1>1, <1>3 DEF HurtInv, Early, Listed, world

LEMMA HurtSort ==
    ASSUME TypeInv, DirInv, CountInv, HurtInv, Sort
    PROVE  HurtInv'
<1>1. /\ pc = "fill" /\ UNCHANGED <<flags, size, blocks, array>> /\ UNCHANGED world
      /\ pc' = "print" \/ (pc' = "crashed" /\ Len(array) # size)
  BY DEF Sort, Qsort
<1>2. /\ filled \in Nat /\ pos = filled /\ since \subseteq offered /\ offered \subseteq Names
      /\ since \subseteq Names /\ size \in Nat /\ Len(array) \in Nat
  BY DEF Sort, AtEnd, TypeInv, TypeOK
<1>3. ASSUME removed = {}, Len(array) # size PROVE Overrun
  <2>1. Len(array) = Cardinality(offered)
    BY <1>1, <1>2, <1>3, ReturnedAll DEF CountInv, Calm
  <2>2. /\ Cardinality(since) <= Cardinality(offered)
        /\ Cardinality(since) \in Nat /\ Cardinality(offered) \in Nat
    BY <1>2, FiniteNames, FS_Subset
  <2>3. size <= Cardinality(since)
    BY <1>1, <1>3 DEF HurtInv
  <2>4. size <= Len(array)
    BY <1>2, <2>1, <2>2, <2>3
  <2>5. QED
    BY <1>2, <1>3, <2>4 DEF Overrun
<1>4. OnlyChangesHurt'
  BY <1>1, <1>3 DEF HurtInv, OnlyChangesHurt, Overrun, world
<1>5. QED
  BY <1>1, <1>4 DEF HurtInv, Early, Listed, world

LEMMA HurtStep == TypeInv /\ DirInv /\ CountInv /\ HurtInv /\ [Next]_vars => HurtInv'
<1> SUFFICES ASSUME TypeInv, DirInv, CountInv, HurtInv, [Next]_vars PROVE HurtInv'
  OBVIOUS
<1>0. CountInv'
  BY CountStep
<1>1. CASE Options
  <2>1. /\ pc \in Early /\ pc' \in Early \cup {"count"} /\ UNCHANGED <<size, array>>
    BY <1>1 DEF Options, Early
  <2>2. ~Overrun'
    BY <2>1 DEF HurtInv, Overrun
  <2>3. QED
    BY <2>1, <2>2 DEF HurtInv, OnlyChangesHurt, Early, Listed
<1>2. CASE Refill
  BY <1>2, HurtRefill
<1>3. CASE CountEntry
  BY <1>3 DEF CountEntry, HurtInv, OnlyChangesHurt, Overrun, Early, Listed, world
<1>4. CASE StatCounted
  <2>1. ~Overrun'
    BY <1>4 DEF StatCounted, TypeInv, TypeOK, Overrun
  <2>2. pc' = "failed" => removed # {}
    <3>1. pos \in DOMAIN buffer
      BY <1>4 DEF StatCounted, TypeInv, TypeOK
    <3>2. QED
      BY <1>4, <3>1 DEF StatCounted, DirInv
  <2>3. pc' \in {"failed", "count"} /\ UNCHANGED world
    BY <1>4 DEF StatCounted
  <2>4. QED
    BY <2>1, <2>2, <2>3 DEF HurtInv, OnlyChangesHurt, Early, Listed, world
<1>5. CASE Rewind
  BY <1>5, HurtRewind
<1>6. CASE FillEntry
  BY <1>0, <1>6, HurtFill
<1>7. CASE Sort
  BY <1>7, HurtSort
<1>8. CASE SkipHidden
  BY <1>8 DEF SkipHidden, HurtInv, OnlyChangesHurt, Overrun, Early, Listed, world
<1>9. CASE PrintEntry
  <2>1. i \in DOMAIN list
    BY <1>9 DEF PrintEntry, TypeInv, TypeOK, Listed
  <2>2. pc' = "failed" => removed # {}
    BY <1>9, <2>1 DEF PrintEntry, DirInv
  <2>3. /\ pc = "print" /\ pc' \in {"failed", "print", "readlink"}
        /\ UNCHANGED <<flags, size, blocks, array>> /\ UNCHANGED world
    BY <1>9 DEF PrintEntry
  <2>4. QED
    BY <2>2, <2>3 DEF HurtInv, OnlyChangesHurt, Overrun, Early, Listed, world
<1>10. CASE ReadLink
  <2>1. i \in DOMAIN list
    BY <1>10 DEF ReadLink, TypeInv, TypeOK, Listed
  <2>2. pc' = "failed" => removed # {}
    BY <1>10, <2>1 DEF ReadLink, DirInv
  <2>3. /\ pc = "readlink" /\ pc' \in {"failed", "print"}
        /\ UNCHANGED <<flags, size, blocks, array>> /\ UNCHANGED world
    BY <1>10 DEF ReadLink
  <2>4. QED
    BY <2>2, <2>3 DEF HurtInv, OnlyChangesHurt, Overrun, Early, Listed, world
<1>11. CASE Finish
  BY <1>11 DEF Finish, HurtInv, OnlyChangesHurt, Overrun, Early, Listed, world
<1>12. ASSUME NEW n \in Names, Create(n) PROVE HurtInv'
  <2>1. /\ created' = created \cup {n} /\ created' # {} /\ pc \notin Ended
        /\ UNCHANGED <<flags, pc, since, size, blocks, array, removed>>
    BY <1>12 DEF Create
  <2>2. QED
    BY <2>1 DEF HurtInv, OnlyChangesHurt, Overrun, Early, Listed, Ended
<1>13. ASSUME NEW n \in Names, Remove(n) PROVE HurtInv'
  <2>1. /\ dir' = dir \ {n} /\ removed' = removed \cup {n} /\ removed' # {} /\ pc \notin Ended
        /\ UNCHANGED <<flags, pc, offered, size, blocks, array, created>>
    BY <1>13 DEF Remove
  <2>2. (pc = "fill" /\ created = {} => Cardinality(dir \cup offered) <= size)'
    <3> SUFFICES ASSUME pc = "fill", created = {} PROVE Cardinality(dir' \cup offered) <= size
      BY <2>1
    <3>1. /\ dir' \cup offered \subseteq dir \cup offered
          /\ dir' \cup offered \subseteq Names /\ dir \cup offered \subseteq Names /\ size \in Nat
      BY <2>1 DEF TypeInv, TypeOK
    <3>2. /\ Cardinality(dir' \cup offered) <= Cardinality(dir \cup offered)
          /\ Cardinality(dir' \cup offered) \in Nat /\ Cardinality(dir \cup offered) \in Nat
      BY <3>1, FiniteNames, FS_Subset
    <3>3. Cardinality(dir \cup offered) <= size
      BY DEF HurtInv
    <3>4. QED
      BY <3>1, <3>2, <3>3
  <2>3. OnlyChangesHurt'
    BY <2>1 DEF HurtInv, OnlyChangesHurt, Overrun
  <2>4. QED
    BY <2>1, <2>2, <2>3 DEF HurtInv, Overrun, Early, Listed, Ended
<1>14. CASE UNCHANGED vars
  BY <1>14 DEF vars, HurtInv, OnlyChangesHurt, Overrun
<1>r. CASE ReadFails
  <2>1. /\ pc = "fill" /\ pc' \in {"print", "crashed"} /\ faulted' = TRUE
        /\ UNCHANGED <<flags, size, blocks, array, dir, initial, created, removed>>
    BY <1>r DEF ReadFails, Qsort
  <2>2. QED
    BY <2>1 DEF HurtInv, OnlyChangesHurt, Overrun, Early, Listed
<1>c. CASE CallFails
  <2>1. /\ pc' \in {"failed", "crashed"} /\ faulted' = TRUE
        /\ UNCHANGED <<flags, size, blocks, array, dir, initial, created, removed>>
    BY <1>c DEF CallFails
  <2>2. QED
    BY <2>1 DEF HurtInv, OnlyChangesHurt, Overrun, Early, Listed
<1>15. QED
  BY <1>1, <1>2, <1>3, <1>4, <1>5, <1>6, <1>7, <1>8, <1>9, <1>10, <1>11, <1>12, <1>13, <1>14,
     <1>r, <1>c DEF Next, Step

-----------------------------------------------------------------------------
(* A listing of one batch is in order and complete.                        *)

\* The pointers lead to the entries of the one call, in their order: all that
\* was fetched is in the buffer, or the next call has just been made.
FillInv ==
    pc = "fill" /\ OneBatch =>
       \/ pos = 0 /\ filled > 0 /\ array # <<>>
       \/ Len(array) = pos /\ \A n \in offered : \E k \in 1 .. filled : buffer[k] = n

Whole == ~faulted /\ ~Overrun /\ OneBatch

ListInv ==
    pc \in Listed /\ Whole =>
       /\ \A j, k \in 1 .. size : j < k => list[j] < list[k]
       /\ \A n \in initial \ removed : \E k \in 1 .. size : list[k] = n

\* out shows what is visible of the first m names in l.
ShowsOf(out, l, m, fl) ==
    /\ \A j, k \in DOMAIN out : j < k => out[j] < out[k]
    /\ \A k \in DOMAIN out : \E j \in 1 .. m :
          out[k] = l[j] /\ ("all" \in fl \/ l[j] \notin Hidden)
    /\ \A j \in 1 .. m : "all" \in fl \/ l[j] \notin Hidden =>
          \E k \in DOMAIN out : out[k] = l[j]

PrintInv ==
    /\ pc = "print" /\ Whole => ShowsOf(printed, list, i - 1, flags)
    /\ pc = "readlink" /\ Whole => ShowsOf(printed, list, i, flags)
    /\ pc = "done" /\ Whole => ShowsOf(printed, list, size, flags)

LEMMA FillInit == Init => FillInv
  BY DEF Init, FillInv

LEMMA FillRefill ==
    ASSUME TypeInv, FillInv, Refill
    PROVE  FillInv'
<1> SUFFICES ASSUME pc' = "fill", OneBatch' PROVE FillInv'
  BY DEF FillInv
<1>1. PICK b \in Batches : /\ buffer' = Overlay(b) /\ filled' = Len(b)
                           /\ offered' = offered \cup Fetched(b)
  BY DEF Refill
<1>2. pc = "fill" /\ UNCHANGED array /\ OneBatch /\ pos = filled /\ pos' = 0
  BY DEF Refill, OneBatch
<1>3. TypeOK
  BY DEF TypeInv
<1>4. Len(b) \in 1 .. BatchSize /\ DOMAIN b = 1 .. Len(b) /\ \A k \in 1 .. Len(b) : Overlay(b)[k] = b[k]
  BY <1>3, BatchFacts, OverlayFacts
<1>5. filled' > 0
  BY <1>1, <1>4, ListingAssumption
<1>6. CASE array # <<>>
  BY <1>2, <1>5, <1>6 DEF FillInv
<1>7. CASE array = <<>>
  <2>1. Len(array) = 0 /\ filled \in Nat
    BY <1>3, <1>7 DEF TypeOK
  <2>2. filled = 0 /\ \A n \in offered : \E k \in 1 .. filled : buffer[k] = n
    BY <1>2, <1>7, <2>1 DEF FillInv
  <2>3. offered = {}
    BY <2>2
  <2>4. \A n \in offered' : \E k \in 1 .. filled' : buffer'[k] = n
    BY <1>1, <1>4, <2>3 DEF Fetched
  <2>5. QED
    BY <1>2, <2>1, <2>4 DEF FillInv
<1>8. QED
  BY <1>6, <1>7

LEMMA FillFill ==
    ASSUME TypeInv, FillInv, FillEntry
    PROVE  FillInv'
<1> SUFFICES ASSUME OneBatch' PROVE FillInv'
  BY DEF FillInv
<1>1. /\ pc = "fill" /\ pos' = pos + 1 /\ array' = Append(array, pos + 1)
      /\ UNCHANGED <<buffer, filled, offered>>
  BY DEF FillEntry
<1>2. PICK m \in Nat : m = Len(array)
  BY DEF TypeInv, TypeOK
<1>3. /\ array \in Seq(1 .. Len(buffer)) /\ DOMAIN array = 1 .. m /\ pos \in Nat
      /\ Len(buffer) \in Nat
  BY <1>2 DEF TypeInv, TypeOK
<1>4. /\ DOMAIN array' = 1 .. (m + 1) /\ Len(array') = m + 1 /\ array'[m + 1] = pos + 1
      /\ \A k \in 1 .. m : array'[k] = array[k]
  BY <1>1, <1>2, <1>3
<1>5. \A k \in 1 .. m : k \in 1 .. (m + 1)
  OBVIOUS
<1>6. OneBatch
  BY <1>3, <1>4, <1>5 DEF OneBatch
<1>7. pos = m
  <2>1. m + 1 \in 1 .. (m + 1)
    BY <1>2
  <2>2. array'[m + 1] = m + 1
    BY <1>4, <2>1 DEF OneBatch
  <2>3. QED
    BY <1>2, <1>3, <1>4, <2>2
<1>8. array # <<>> => m # 0
  BY <1>2, <1>3
<1>9. \A n \in offered : \E k \in 1 .. filled : buffer[k] = n
  BY <1>1, <1>2, <1>6, <1>7, <1>8 DEF FillInv
<1>10. Len(array') = pos'
  BY <1>1, <1>4, <1>7
<1>11. QED
  BY <1>1, <1>9, <1>10 DEF FillInv

LEMMA FillStep == TypeInv /\ FillInv /\ [Next]_vars => FillInv'
<1> SUFFICES ASSUME TypeInv, FillInv, [Next]_vars PROVE FillInv'
  OBVIOUS
<1>1. CASE Options
  BY <1>1 DEF Options, FillInv
<1>2. CASE Refill
  BY <1>2, FillRefill
<1>3. CASE CountEntry
  BY <1>3 DEF CountEntry, FillInv
<1>4. CASE StatCounted
  BY <1>4 DEF StatCounted, FillInv
<1>5. CASE Rewind
  <2>1. array' = <<>> /\ Len(<<>>) = 0 /\ offered' = {} /\ pos' = 0
    BY <1>5 DEF Rewind, TypeInv
  <2>2. QED
    BY <2>1 DEF FillInv
<1>6. CASE FillEntry
  BY <1>6, FillFill
<1>7. CASE Sort
  BY <1>7 DEF Sort, Qsort, FillInv
<1>8. CASE SkipHidden
  BY <1>8 DEF SkipHidden, FillInv
<1>9. CASE PrintEntry
  BY <1>9 DEF PrintEntry, FillInv
<1>10. CASE ReadLink
  BY <1>10 DEF ReadLink, FillInv
<1>11. CASE Finish
  BY <1>11 DEF Finish, FillInv
<1>12. ASSUME NEW n \in Names, Create(n) PROVE FillInv'
  BY <1>12 DEF Create, FillInv, OneBatch
<1>13. ASSUME NEW n \in Names, Remove(n) PROVE FillInv'
  BY <1>13 DEF Remove, FillInv, OneBatch
<1>14. CASE UNCHANGED vars
  BY <1>14 DEF vars, FillInv, OneBatch
<1>r. CASE ReadFails
  BY <1>r DEF ReadFails, Qsort, FillInv
<1>c. CASE CallFails
  BY <1>c DEF CallFails, FillInv
<1>15. QED
  BY <1>1, <1>2, <1>3, <1>4, <1>5, <1>6, <1>7, <1>8, <1>9, <1>10, <1>11, <1>12, <1>13, <1>14,
     <1>r, <1>c DEF Next, Step

LEMMA ListInit == Init => ListInv
  BY DEF Init, ListInv, Listed

LEMMA ListSort ==
    ASSUME TypeInv, DirInv, FillInv, Sort
    PROVE  ListInv'
<1> SUFFICES ASSUME pc' \in Listed, Whole' PROVE ListInv'
  BY DEF ListInv
<1>1. /\ pc = "fill" /\ UNCHANGED <<size, array>> /\ UNCHANGED stream /\ UNCHANGED world
      /\ pos = filled /\ since \subseteq offered
      /\ Len(array) >= size /\ list' = Sorted(Pointed)
  BY Zenon DEF Sort, Qsort, Pointed, AtEnd, Listed
<1>2. TypeOK
  BY DEF TypeInv
<1>3. /\ Len(array) \in Nat /\ size \in Nat /\ filled \in Nat /\ DOMAIN array = 1 .. Len(array)
      /\ buffer \in Seq(Names)
  BY <1>2 DEF TypeOK
<1>4. Whole /\ Len(array) = size
  <2>1. size' = size /\ array' = array
    BY <1>1
  <2>2. Whole
    BY <1>1, <2>1 DEF Whole, OneBatch, Overrun, world
  <2>3. ~(Len(array) > size)
    BY <2>2 DEF Whole, Overrun
  <2>4. PICK m \in Nat : m = Len(array)
    BY <1>3
  <2>5. m = size
    <3>1. size \in Nat
      BY <1>3
    <3>2. m >= size
      BY <1>1, <2>4
    <3>3. ~(m > size)
      BY <2>3, <2>4
    <3>4. QED
      BY <3>1, <3>2, <3>3
  <2>6. QED
    BY <2>2, <2>4, <2>5
<1>5. size = filled /\ \A n \in offered : \E k \in 1 .. size : buffer[k] = n
  <2>1. \/ pos = 0 /\ filled > 0
        \/ Len(array) = pos /\ \A n \in offered : \E k \in 1 .. filled : buffer[k] = n
    BY <1>1, <1>4 DEF FillInv, Whole
  <2>2. QED
    BY <1>1, <1>3, <1>4, <2>1
<1>6. \A k \in 1 .. size : Pointed[k] = buffer[k]
  BY <1>1, <1>2, <1>3, <1>4, PointedFacts DEF Whole, OneBatch
<1>7. \A j, k \in 1 .. size : Pointed[j] = Pointed[k] => j = k
  BY <1>5, <1>6 DEF DirInv
<1>8. /\ \A j, k \in 1 .. size : j < k => list'[j] <= list'[k]
      /\ \A j, k \in 1 .. size : list'[j] = list'[k] => j = k
      /\ \A j \in 1 .. size : \E k \in 1 .. size : list'[k] = Pointed[j]
      /\ list' \in Seq(Names) /\ Len(list') = size
  BY <1>1, <1>2, <1>7, SortFacts
<1>9. \A j, k \in 1 .. size : j < k => list'[j] < list'[k]
  <2> SUFFICES ASSUME NEW j \in 1 .. size, NEW k \in 1 .. size, j < k PROVE list'[j] < list'[k]
    OBVIOUS
  <2>1. list'[j] \in Nat /\ list'[k] \in Nat
    <3>1. list'[j] \in Names /\ list'[k] \in Names
      BY <1>8
    <3>2. QED
      BY <3>1, ListingAssumption
  <2>2. list'[j] <= list'[k] /\ list'[j] # list'[k]
    <3>1. j \in Nat /\ k \in Nat /\ j # k
      BY <1>3
    <3>2. QED
      BY <1>8, <3>1
  <2>3. QED
    BY <2>1, <2>2
<1>10. \A n \in initial \ removed : \E k \in 1 .. size : list'[k] = n
  <2> SUFFICES ASSUME NEW n \in initial \ removed PROVE \E k \in 1 .. size : list'[k] = n
    OBVIOUS
  <2>1. n \in offered
    BY <1>1 DEF DirInv, Early
  <2>2. PICK j \in 1 .. size : buffer[j] = n
    BY <1>5, <2>1
  <2>3. QED
    BY <1>6, <1>8, <2>2
<1>11. QED
  BY <1>1, <1>9, <1>10 DEF ListInv, world

LEMMA ListStep == TypeInv /\ DirInv /\ FillInv /\ ListInv /\ [Next]_vars => ListInv'
<1> SUFFICES ASSUME TypeInv, DirInv, FillInv, ListInv, [Next]_vars PROVE ListInv'
  OBVIOUS
<1> USE DEF ListInv, Listed, Whole, OneBatch, Overrun, stream, world
<1>1. CASE Options
  BY <1>1 DEF Options
<1>2. CASE Refill
  BY <1>2 DEF Refill
<1>3. CASE CountEntry
  BY <1>3 DEF CountEntry
<1>4. CASE StatCounted
  BY <1>4 DEF StatCounted
<1>5. CASE Rewind
  BY <1>5 DEF Rewind
<1>6. CASE FillEntry
  BY <1>6 DEF FillEntry
<1>7. CASE Sort
  BY <1>7, ListSort
<1>8. CASE SkipHidden
  BY <1>8 DEF SkipHidden
<1>9. CASE PrintEntry
  BY <1>9 DEF PrintEntry
<1>10. CASE ReadLink
  BY <1>10 DEF ReadLink
<1>11. CASE Finish
  BY <1>11 DEF Finish
<1>12. ASSUME NEW n \in Names, Create(n) PROVE ListInv'
  BY <1>12 DEF Create
<1>13. ASSUME NEW n \in Names, Remove(n) PROVE ListInv'
  BY <1>13 DEF Remove
<1>14. CASE UNCHANGED vars
  BY <1>14 DEF vars
<1>r. CASE ReadFails
  BY <1>r DEF ReadFails
<1>c. CASE CallFails
  BY <1>c DEF CallFails
<1>15. QED
  BY <1>1, <1>2, <1>3, <1>4, <1>5, <1>6, <1>7, <1>8, <1>9, <1>10, <1>11, <1>12, <1>13, <1>14,
     <1>r, <1>c DEF Next, Step

LEMMA PrintInit == Init => PrintInv
  BY DEF Init, PrintInv

\* An entry that is not shown.
LEMMA ShowsSkip ==
    ASSUME NEW out, NEW l, NEW m \in Nat, m # 0, NEW fl, ShowsOf(out, l, m - 1, fl),
           ~("all" \in fl \/ l[m] \notin Hidden)
    PROVE  ShowsOf(out, l, m, fl)
<1>1. \A j \in 1 .. m : j = m \/ j \in 1 .. (m - 1)
  OBVIOUS
<1>2. \A j \in 1 .. (m - 1) : j \in 1 .. m
  OBVIOUS
<1>3. QED
  BY <1>1, <1>2 DEF ShowsOf

\* An entry that is.
LEMMA ShowsNext ==
    ASSUME NEW out \in Seq(Names), NEW l \in Seq(Names), NEW m \in 1 .. Len(l), NEW fl,
           ShowsOf(out, l, m - 1, fl),
           "all" \in fl \/ l[m] \notin Hidden,
           \A j, k \in 1 .. Len(l) : j < k => l[j] < l[k]
    PROVE  ShowsOf(Append(out, l[m]), l, m, fl)
<1> DEFINE new == Append(out, l[m])
<1>1. PICK q \in Nat : q = Len(out) /\ DOMAIN out = 1 .. q
  OBVIOUS
<1>2. l[m] \in Names /\ m \in Nat /\ Len(l) \in Nat
  OBVIOUS
<1>3. /\ DOMAIN new = 1 .. (q + 1) /\ new[q + 1] = l[m] /\ \A k \in 1 .. q : new[k] = out[k]
  BY <1>1, <1>2
<1> HIDE DEF new
<1>4. \A k \in 1 .. (q + 1) : k \in 1 .. q \/ k = q + 1
  BY <1>1
<1>5. \A k \in 1 .. q : k \in 1 .. (q + 1)
  BY <1>1
<1>6. \A k \in 1 .. q : out[k] < l[m]
  <2> SUFFICES ASSUME NEW k \in 1 .. q PROVE out[k] < l[m]
    OBVIOUS
  <2>1. PICK j \in 1 .. (m - 1) : out[k] = l[j]
    BY <1>1 DEF ShowsOf
  <2>2. j \in 1 .. Len(l) /\ j < m
    BY <1>2
  <2>3. QED
    BY <2>1, <2>2
<1>7. \A j, k \in DOMAIN new : j < k => new[j] < new[k]
  <2> SUFFICES ASSUME NEW j \in 1 .. (q + 1), NEW k \in 1 .. (q + 1), j < k
               PROVE  new[j] < new[k]
    BY <1>3
  <2>1. j \in 1 .. q
    BY <1>1
  <2>2. CASE k = q + 1
    BY <1>3, <1>6, <2>1, <2>2
  <2>3. CASE k \in 1 .. q
    BY <1>1, <1>3, <2>1, <2>3 DEF ShowsOf
  <2>4. QED
    BY <1>4, <2>2, <2>3
<1>8. \A j \in 1 .. (m - 1) : j \in 1 .. m
  BY <1>2
<1>9. m \in 1 .. m /\ \A j \in 1 .. m : j = m \/ j \in 1 .. (m - 1)
  BY <1>2
<1>10. \A k \in DOMAIN new : \E j \in 1 .. m :
          new[k] = l[j] /\ ("all" \in fl \/ l[j] \notin Hidden)
  <2> SUFFICES ASSUME NEW k \in 1 .. (q + 1)
               PROVE  \E j \in 1 .. m : new[k] = l[j] /\ ("all" \in fl \/ l[j] \notin Hidden)
    BY <1>3
  <2>1. CASE k = q + 1
    BY <1>3, <1>9, <2>1
  <2>2. CASE k \in 1 .. q
    <3>1. PICK j \in 1 .. (m - 1) : out[k] = l[j] /\ ("all" \in fl \/ l[j] \notin Hidden)
      BY <1>1, <2>2 DEF ShowsOf
    <3>2. QED
      BY <1>3, <1>8, <2>2, <3>1
  <2>3. QED
    BY <1>4, <2>1, <2>2
<1>11. \A j \in 1 .. m : "all" \in fl \/ l[j] \notin Hidden => \E k \in DOMAIN new : new[k] = l[j]
  <2> SUFFICES ASSUME NEW j \in 1 .. m, "all" \in fl \/ l[j] \notin Hidden
               PROVE  \E k \in DOMAIN new : new[k] = l[j]
    OBVIOUS
  <2>1. CASE j = m
    <3>1. q + 1 \in DOMAIN new
      BY <1>1, <1>3
    <3>2. QED
      BY <1>3, <2>1, <3>1
  <2>2. CASE j \in 1 .. (m - 1)
    <3>1. PICK k \in 1 .. q : out[k] = l[j]
      BY <1>1, <2>2 DEF ShowsOf
    <3>2. QED
      BY <1>3, <1>5, <3>1
  <2>3. QED
    BY <1>9, <2>1, <2>2
<1>12. ShowsOf(new, l, m, fl)
  BY <1>7, <1>10, <1>11 DEF ShowsOf
<1>13. QED
  BY <1>12 DEF new

LEMMA PrintPrint ==
    ASSUME TypeInv, ListInv, PrintInv, PrintEntry
    PROVE  PrintInv'
<1> SUFFICES ASSUME Whole', pc' \in {"print", "readlink"} PROVE PrintInv'
  BY DEF PrintInv, PrintEntry
<1>1. /\ pc = "print" /\ i <= size /\ Visible(list[i]) /\ printed' = Append(printed, list[i])
      /\ UNCHANGED <<flags, size, array, list>>
      /\ \/ pc' = "readlink" /\ i' = i
         \/ pc' = "print" /\ i' = i + 1
  BY DEF PrintEntry
<1>2. Whole
  <2>1. faulted' = faulted
    BY DEF PrintEntry, world
  <2>2. QED
    BY <1>1, <2>1 DEF Whole, OneBatch, Overrun
<1>3. ShowsOf(printed, list, i - 1, flags)
  BY <1>1, <1>2 DEF PrintInv
<1>4. printed \in Seq(Names) /\ list \in Seq(Names) /\ i \in 1 .. Len(list) /\ Len(list) = size
  BY <1>1 DEF TypeInv, TypeOK, Listed
<1>5. \A j, k \in 1 .. Len(list) : j < k => list[j] < list[k]
  BY <1>1, <1>2, <1>4 DEF ListInv, Listed
<1>6. ShowsOf(Append(printed, list[i]), list, i, flags)
  BY <1>1, <1>3, <1>4, <1>5, ShowsNext DEF Visible
<1>7. pc' = "print" => i' - 1 = i
  BY <1>1, <1>4
<1>8. QED
  BY <1>1, <1>6, <1>7, Zenon DEF PrintInv

LEMMA PrintStep == TypeInv /\ ListInv /\ PrintInv /\ [Next]_vars => PrintInv'
<1> SUFFICES ASSUME TypeInv, ListInv, PrintInv, [Next]_vars PROVE PrintInv'
  OBVIOUS
<1>1. CASE Options
  BY <1>1 DEF Options, PrintInv
<1>2. CASE Refill
  BY <1>2 DEF Refill, PrintInv
<1>3. CASE CountEntry
  BY <1>3 DEF CountEntry, PrintInv
<1>4. CASE StatCounted
  BY <1>4 DEF StatCounted, PrintInv
<1>5. CASE Rewind
  BY <1>5 DEF Rewind, PrintInv
<1>6. CASE FillEntry
  BY <1>6 DEF FillEntry, PrintInv
<1>7. CASE Sort
  <2>1. printed' = <<>> /\ i' - 1 = 0 /\ pc' \notin {"readlink", "done"}
    BY <1>7 DEF Sort, Qsort, TypeInv
  <2>2. ShowsOf(printed', list', i' - 1, flags')
    BY <2>1 DEF ShowsOf
  <2>3. QED
    BY <2>1, <2>2 DEF PrintInv
<1>8. CASE SkipHidden
  <2>1. /\ pc = "print" /\ pc' = "print" /\ i' = i + 1 /\ ~Visible(list[i])
        /\ UNCHANGED <<flags, size, array, list, printed>>
    BY <1>8 DEF SkipHidden
  <2>0. faulted' = faulted
    BY <1>8 DEF SkipHidden, world
  <2>2. i \in Nat /\ i # 0 /\ i + 1 - 1 = i
    BY DEF TypeInv, TypeOK
  <2>3. Whole => ShowsOf(printed, list, i, flags)
    BY <2>1, <2>2, ShowsSkip DEF PrintInv, Visible
  <2>4. QED
    BY <2>0, <2>1, <2>2, <2>3 DEF PrintInv, Whole, OneBatch, Overrun
<1>9. CASE PrintEntry
  BY <1>9, PrintPrint
<1>10. CASE ReadLink
  <2>1. /\ pc = "readlink" /\ UNCHANGED <<flags, size, array, list, printed>>
        /\ \/ pc' = "failed"
           \/ pc' = "print" /\ i' = i + 1
    BY <1>10 DEF ReadLink
  <2>2. pc' = "print" => i' - 1 = i
    BY <2>1 DEF TypeInv, TypeOK
  <2>3. Whole' => Whole
    BY <1>10, <2>1 DEF ReadLink, Whole, OneBatch, Overrun, world
  <2>4. Whole => ShowsOf(printed, list, i, flags)
    BY <2>1 DEF PrintInv
  <2>5. QED
    BY <2>1, <2>2, <2>3, <2>4 DEF PrintInv
<1>11. CASE Finish
  <2>1. /\ pc = "print" /\ pc' = "done" /\ UNCHANGED <<flags, size, array, list, printed>>
    BY <1>11 DEF Finish
  <2>0. faulted' = faulted
    BY <1>11 DEF Finish, world
  <2>2. i - 1 = size
    BY <1>11 DEF Finish, TypeInv, TypeOK
  <2>3. QED
    BY <2>0, <2>1, <2>2 DEF PrintInv, Whole, OneBatch, Overrun
<1>12. ASSUME NEW n \in Names, Create(n) PROVE PrintInv'
  BY <1>12 DEF Create, PrintInv, Whole, OneBatch, Overrun
<1>13. ASSUME NEW n \in Names, Remove(n) PROVE PrintInv'
  BY <1>13 DEF Remove, PrintInv, Whole, OneBatch, Overrun
<1>14. CASE UNCHANGED vars
  BY <1>14 DEF vars, PrintInv, Whole, OneBatch, Overrun
<1>r. CASE ReadFails
  BY <1>r DEF ReadFails, PrintInv, Whole
<1>c. CASE CallFails
  BY <1>c DEF CallFails, PrintInv
<1>15. QED
  BY <1>1, <1>2, <1>3, <1>4, <1>5, <1>6, <1>7, <1>8, <1>9, <1>10, <1>11, <1>12, <1>13, <1>14,
     <1>r, <1>c DEF Next, Step

-----------------------------------------------------------------------------
(* The theorems.                                                           *)

IInv == TypeInv /\ DirInv /\ CountInv /\ HurtInv /\ FillInv /\ ListInv /\ PrintInv

\* A sequence in order has as many elements as it has names.
LEMMA LengthIsCount ==
    ASSUME NEW s \in Seq(Names), \A j, k \in DOMAIN s : j < k => s[j] < s[k]
    PROVE  /\ \A j, k \in DOMAIN s : s[j] = s[k] => j = k
           /\ Cardinality({s[k] : k \in DOMAIN s}) = Len(s)
<1>1. PICK q \in Nat : q = Len(s) /\ DOMAIN s = 1 .. q
  OBVIOUS
<1>2. \A k \in 1 .. q : s[k] \in Nat
  <2>1. \A k \in 1 .. q : s[k] \in Names
    BY <1>1
  <2>2. QED
    BY <2>1, ListingAssumption
<1>3. \A j, k \in 1 .. q : s[j] = s[k] => j = k
  <2> SUFFICES ASSUME NEW j \in 1 .. q, NEW k \in 1 .. q, s[j] = s[k] PROVE j = k
    OBVIOUS
  <2>1. ~(j < k) /\ ~(k < j)
    BY <1>1, <1>2
  <2>2. QED
    BY <2>1
<1> DEFINE S == {s[k] : k \in DOMAIN s}
           f == [k \in 1 .. q |-> s[k]]
<1>4. f \in Bijection(1 .. q, S)
  BY <1>1, <1>3 DEF Bijection, Injection, Surjection, IsInjective
<1>5. ExistsBijection(1 .. q, S)
  BY <1>4 DEF ExistsBijection
<1>6. Cardinality(S) = q
  <2> HIDE DEF S
  <2>1. QED
    BY <1>5, FS_CountingElements
<1>7. QED
  BY <1>1, <1>3, <1>6

LEMMA SteadyHolds == IInv => SteadyListed
<1> SUFFICES ASSUME IInv, pc = "done", Whole
             PROVE  /\ \A j, k \in DOMAIN printed : j < k => printed[j] <= printed[k]
                    /\ \A n \in initial \ removed : Visible(n) => Times(n) = 1
                    /\ \A n \in Names \ created : Times(n) <= 1
                    /\ created = {} /\ removed = {} => blocks = Len(printed)
  BY DEF SteadyListed, Whole
<1>1. ShowsOf(printed, list, size, flags) /\ printed \in Seq(Names) /\ list \in Seq(Names)
  BY DEF IInv, PrintInv, TypeInv, TypeOK
<1>2. \A j, k \in DOMAIN printed : j < k => printed[j] < printed[k]
  BY <1>1 DEF ShowsOf
<1>3. PICK q \in Nat : q = Len(printed) /\ DOMAIN printed = 1 .. q
  BY <1>1
<1>4. \A j, k \in DOMAIN printed : j < k => printed[j] <= printed[k]
  <2>1. \A k \in 1 .. q : printed[k] \in Nat
    <3>1. \A k \in 1 .. q : printed[k] \in Names
      BY <1>1, <1>3
    <3>2. QED
      BY <3>1, ListingAssumption
  <2>2. QED
    BY <1>2, <1>3, <2>1
<1>5. \A j, k \in DOMAIN printed : printed[j] = printed[k] => j = k
  BY <1>1, <1>2, LengthIsCount
<1>6. ASSUME NEW n, NEW k \in DOMAIN printed, printed[k] = n PROVE Times(n) = 1
  <2>1. {j \in DOMAIN printed : printed[j] = n} = {k}
    BY <1>5, <1>6
  <2>2. Cardinality({k}) = 1
    BY FS_Singleton
  <2>3. QED
    BY <2>1, <2>2 DEF Times
<1>7. ASSUME NEW n \in initial \ removed, Visible(n) PROVE Times(n) = 1
  <2>1. PICK j \in 1 .. size : list[j] = n
    BY DEF IInv, ListInv, Listed
  <2>2. PICK k \in DOMAIN printed : printed[k] = n
    BY <1>1, <1>7, <2>1 DEF ShowsOf, Visible
  <2>3. QED
    BY <1>6, <2>2
<1>8. ASSUME NEW n PROVE Times(n) <= 1
  <2>1. CASE \E k \in DOMAIN printed : printed[k] = n
    <3>1. Times(n) = 1
      BY <1>6, <2>1
    <3>2. QED
      BY <3>1
  <2>2. CASE ~\E k \in DOMAIN printed : printed[k] = n
    <3>1. {j \in DOMAIN printed : printed[j] = n} = {}
      BY <2>2
    <3>2. Times(n) = 0
      BY <3>1, FS_EmptySet DEF Times
    <3>3. QED
      BY <3>2
  <2>3. QED
    BY <2>1, <2>2
<1>9. ASSUME created = {}, removed = {} PROVE blocks = Len(printed)
  <2>1. dir = initial /\ \A k \in DOMAIN list : list[k] \in dir
    BY <1>9 DEF IInv, DirInv
  <2>2. DOMAIN list = 1 .. size
    BY <1>1 DEF IInv, TypeInv, Listed
  <2>3. \A n \in dir : \E k \in 1 .. size : list[k] = n
    BY <1>9, <2>1 DEF IInv, ListInv, Listed
  <2> DEFINE S == {printed[k] : k \in DOMAIN printed}
  <2>4. ASSUME NEW n \in S PROVE n \in Shown(flags, dir)
    <3>1. PICK k \in DOMAIN printed : printed[k] = n
      OBVIOUS
    <3>2. PICK j \in 1 .. size : n = list[j] /\ ("all" \in flags \/ list[j] \notin Hidden)
      BY <1>1, <3>1 DEF ShowsOf
    <3>3. QED
      BY <2>1, <2>2, <3>2 DEF Shown
  <2>5. ASSUME NEW n \in Shown(flags, dir) PROVE n \in S
    <3>1. PICK j \in 1 .. size : list[j] = n
      BY <2>3 DEF Shown
    <3>2. PICK k \in DOMAIN printed : printed[k] = list[j]
      BY <1>1, <3>1 DEF ShowsOf, Shown
    <3>3. QED
      BY <3>1, <3>2
  <2>6. S = Shown(flags, dir)
    BY <2>4, <2>5
  <2>7. Cardinality(S) = Len(printed)
    BY <1>1, <1>2, LengthIsCount
  <2>8. blocks = Cardinality(Shown(flags, dir))
    BY <1>9 DEF IInv, HurtInv, Listed
  <2>9. QED
    BY <2>6, <2>7, <2>8
<1>10. QED
  BY <1>4, <1>7, <1>8, <1>9

\* The inductive invariant.
THEOREM Invariance == Spec => []IInv
<1>1. Init => IInv
  BY TypeInit, DirInit, CountInit, HurtInit, FillInit, ListInit, PrintInit DEF IInv
<1>2. IInv /\ [Next]_vars => IInv'
  BY TypeStep, DirStep, CountStep, HurtStep, FillStep, ListStep, PrintStep DEF IInv
<1>3. QED
  BY <1>1, <1>2, PTL DEF Spec

\* Types, for any set of names and any size of the buffer: the pointers that
\* ls keeps lead into the buffer of the DIR, the count of blocks is at most
\* that of the entries, and the loop that prints stays within them.
THEOREM TypeCorrect == Spec => []TypeOK
<1>1. IInv => TypeOK
  BY DEF IInv, TypeInv
<1>2. QED
  BY <1>1, Invariance, PTL

\* ls fails only over a directory that changes or when a call fails over an
\* entry that is there, and overruns its array only if entries came, for a
\* directory and a buffer of any size and any number of changes (main.c:400-432).
THEOREM OnlyChangesHurtIt == Spec => []OnlyChangesHurt
<1>1. IInv => OnlyChangesHurt
  BY DEF IInv, HurtInv
<1>2. QED
  BY <1>1, Invariance, PTL

\* What ls prints of a directory that fits into one buffer is in order,
\* complete and without repetition, whatever other programs do to it meanwhile
\* (main.c:412-447).
THEOREM ListsSteadily == Spec => []SteadyListed
<1>1. QED
  BY SteadyHolds, Invariance, PTL
=============================================================================
