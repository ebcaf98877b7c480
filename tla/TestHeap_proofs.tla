--------------------------- MODULE TestHeap_proofs ---------------------------
(***************************************************************************)
(* The checked heap, for any addresses and any number of tests: blocks are *)
(* in the list once, a block with an overwritten guard stays there, a test *)
(* or teardown function that passes leaves nothing behind, and none is     *)
(* charged with a leak that is not its own.                                *)
(*                                                                         *)
(* The argument is about the order of the list.  Blocks are in the list in *)
(* the order of their epochs, so a check point that is still in the list   *)
(* divides it into the blocks older and the blocks younger than itself.    *)
(* The lemmas say so of lists; the operators after them are the parts of   *)
(* the inductive invariant.                                                *)
(***************************************************************************)
EXTENDS TestHeap, SequenceTheorems, FiniteSetTheorems, WellFoundedInduction, TLAPS

\* The blocks of a list.
Elems(list) == {list[i] : i \in DOMAIN list}

\* Block x is in the list at a place before one of block y.
Precedes(list, x, y) ==
    \E i, j \in DOMAIN list : i < j /\ list[i] = x /\ list[j] = y

NoDuplicates(list) == \A x : ~ Precedes(list, x, x)

\* The list t is what is left of s after some blocks were removed.
Thinner(t, s) ==
    /\ t \in Seq(Addresses)
    /\ Elems(t) \subseteq Elems(s)
    /\ \A x, y : Precedes(t, x, y) => Precedes(s, x, y)

\* The check point cp ends the first k places of the list s.
CutsAt(s, cp, k) ==
    /\ cp = ListHead => k = 0
    /\ cp # ListHead => k \in 1 .. Len(s) /\ s[k] = cp
    /\ Before(s, cp) \in Seq(Addresses) /\ Len(Before(s, cp)) = k
    /\ \A j \in 1 .. k : Before(s, cp)[j] = s[j]
    /\ After(s, cp) \in Seq(Addresses) /\ Len(After(s, cp)) = Len(s) - k
    /\ \A j \in 1 .. Len(s) - k : After(s, cp)[j] = s[k + j]

\* A list of different blocks in the order of the epochs b in which they were
\* allocated, none of them later than e.
Ordered(list, b, e) ==
    /\ list \in Seq(Addresses)
    /\ b \in [Addresses -> Nat]
    /\ e \in Nat
    /\ NoDuplicates(list)
    /\ \A x, y : Precedes(list, x, y) => b[x] <= b[y]
    /\ \A x \in Elems(list) : b[x] <= e

\* The check point cp divides the list at epoch n: the blocks behind it, and no
\* others, were allocated in epoch n or later.
Divides(list, b, cp, n) ==
    \/ cp = ListHead /\ \A x \in Elems(list) : b[x] >= n
    \/ /\ cp \in Elems(list)
       /\ b[cp] < n
       /\ \A y : Precedes(list, cp, y) => b[y] >= n

-----------------------------------------------------------------------------
(* Lists.                                                                  *)

\* A set of naturals that is not empty has a least element.
LEMMA LeastElement ==
    ASSUME NEW S, S \subseteq Nat, S # {}
    PROVE  \E k \in S : \A j \in S : k <= j
<1> DEFINE R == OpToRel(<, Nat)
<1>1. IsWellFoundedOn(R, Nat)
  BY NatLessThanWellFounded
<1>2. \A x, y \in Nat : y < x => <<y, x>> \in R
  BY DEF OpToRel
<1> HIDE DEF R
<1>3. PICK k \in S : \A j \in S : ~ (<<j, k>> \in R)
  BY <1>1, WFMin
<1>4. ASSUME NEW j \in S PROVE k <= j
  <2>1. k \in Nat /\ j \in Nat
    OBVIOUS
  <2>2. ~ (<<j, k>> \in R)
    BY <1>3
  <2>3. ~ (j < k)
    BY <1>2, <2>1, <2>2
  <2> QED
    BY <2>1, <2>3
<1> QED
  BY <1>4

\* A list whose places map to places of s in the same order is thinner than s.
LEMMA ThinnerByPlaces ==
    ASSUME NEW s, NEW t \in Seq(Addresses), NEW g \in [DOMAIN t -> DOMAIN s],
           \A i \in DOMAIN t : t[i] = s[g[i]],
           \A i, j \in DOMAIN t : i < j => g[i] < g[j]
    PROVE  Thinner(t, s)
<1>1. Elems(t) \subseteq Elems(s)
  BY DEF Elems
<1>2. ASSUME NEW x, NEW y, Precedes(t, x, y) PROVE Precedes(s, x, y)
  <2>1. PICK i \in DOMAIN t, j \in DOMAIN t : i < j /\ t[i] = x /\ t[j] = y
    BY <1>2 DEF Precedes
  <2>2. g[i] \in DOMAIN s /\ g[j] \in DOMAIN s /\ g[i] < g[j]
    BY <2>1
  <2> QED
    BY <2>1, <2>2 DEF Precedes
<1> QED
  BY <1>1, <1>2 DEF Thinner

\* A list with a block appended.
LEMMA Appended ==
    ASSUME NEW s \in Seq(Addresses), NEW a \in Addresses, NEW t, t = Append(s, a)
    PROVE  /\ t \in Seq(Addresses)
           /\ Elems(t) = Elems(s) \cup {a}
           /\ \A x, y : Precedes(t, x, y) =>
                 Precedes(s, x, y) \/ (x \in Elems(s) /\ y = a)
<1>1. PICK n \in Nat : n = Len(s)
  OBVIOUS
<1>2. /\ t \in Seq(Addresses) /\ Len(t) = n + 1 /\ t[n + 1] = a
      /\ \A i \in 1 .. n : t[i] = s[i]
  BY <1>1, AppendProperties
<1>3. DOMAIN t = 1 .. n + 1 /\ DOMAIN s = 1 .. n
  BY <1>1, <1>2
<1>4. Elems(t) = Elems(s) \cup {a}
  BY <1>1, <1>2, <1>3 DEF Elems
<1>5. ASSUME NEW x, NEW y, Precedes(t, x, y)
      PROVE  Precedes(s, x, y) \/ (x \in Elems(s) /\ y = a)
  <2>1. PICK i \in 1 .. n + 1, j \in 1 .. n + 1 : i < j /\ t[i] = x /\ t[j] = y
    BY <1>3, <1>5 DEF Precedes
  <2>2. i \in 1 .. n /\ (j \in 1 .. n \/ j = n + 1)
    BY <1>1, <2>1
  <2> QED
    BY <1>2, <1>3, <2>1, <2>2 DEF Precedes, Elems
<1> QED
  BY <1>2, <1>4, <1>5

\* A block is at one place of a list without duplicates.
LEMMA OnePlace ==
    ASSUME NEW s \in Seq(Addresses), NoDuplicates(s),
           NEW i \in DOMAIN s, NEW j \in DOMAIN s, s[i] = s[j]
    PROVE  i = j
<1>1. i \in Nat /\ j \in Nat
  OBVIOUS
<1>2. ~ (i < j) /\ ~ (j < i)
  BY DEF NoDuplicates, Precedes
<1> QED
  BY <1>1, <1>2

\* list_remove takes one block out and keeps the order of the others.
LEMMA Unlinked ==
    ASSUME NEW s \in Seq(Addresses), NoDuplicates(s), NEW a \in Elems(s),
           NEW t, t = Unlink(s, a)
    PROVE  Thinner(t, s) /\ Elems(t) = Elems(s) \ {a}
<1>1. PICK n \in Nat : n = Len(s) /\ DOMAIN s = 1 .. n
  OBVIOUS
<1>2. PICK i : i = CHOOSE j \in DOMAIN s : s[j] = a
  OBVIOUS
<1>3. i \in 1 .. n /\ s[i] = a
  BY <1>1, <1>2 DEF Elems
<1>4. PICK u, w : u = SubSeq(s, 1, i - 1) /\ w = SubSeq(s, i + 1, n)
  OBVIOUS
<1>5. t = u \o w
  BY <1>1, <1>2, <1>4 DEF Unlink
<1>6. /\ u \in Seq(Addresses) /\ Len(u) = i - 1 /\ \A j \in 1 .. i - 1 : u[j] = s[j]
  <2>1. 1 \in 1 .. Len(s) + 1 /\ i - 1 \in 0 .. Len(s)
    BY <1>1, <1>3
  <2> QED
    BY <1>1, <1>3, <1>4, <2>1, SubSeqProperties
<1>7. /\ w \in Seq(Addresses) /\ Len(w) = n - i
      /\ \A j \in 1 .. n - i : w[j] = s[i + j]
  <2>1. i + 1 \in 1 .. Len(s) + 1 /\ n \in i .. Len(s)
    BY <1>1, <1>3
  <2> QED
    BY <1>1, <1>3, <1>4, <2>1, SubSeqProperties
<1>8. /\ t \in Seq(Addresses) /\ Len(t) = n - 1
      /\ \A j \in 1 .. i - 1 : t[j] = s[j]
      /\ \A j \in i .. n - 1 : t[j] = s[j + 1]
  <2>1. t \in Seq(Addresses) /\ Len(t) = Len(u) + Len(w)
        /\ \A j \in 1 .. Len(u) + Len(w) :
              t[j] = IF j <= Len(u) THEN u[j] ELSE w[j - Len(u)]
    <3>1. u \in Seq(Addresses) /\ w \in Seq(Addresses)
      BY <1>6, <1>7
    <3>2. /\ u \o w \in Seq(Addresses) /\ Len(u \o w) = Len(u) + Len(w)
          /\ \A j \in 1 .. Len(u) + Len(w) :
                (u \o w)[j] = IF j <= Len(u) THEN u[j] ELSE w[j - Len(u)]
      BY <3>1, ConcatProperties
    <3> QED
      BY <1>5, <3>2
  <2>2. Len(t) = n - 1
    BY <1>1, <1>3, <1>6, <1>7, <2>1
  <2>3. ASSUME NEW j \in 1 .. i - 1 PROVE t[j] = s[j]
    <3>1. j \in 1 .. Len(u) + Len(w) /\ j <= Len(u)
      BY <1>1, <1>3, <1>6, <1>7
    <3> QED
      BY <1>6, <2>1, <3>1
  <2>4. ASSUME NEW j \in i .. n - 1 PROVE t[j] = s[j + 1]
    <3>1. j \in 1 .. Len(u) + Len(w) /\ ~ (j <= Len(u)) /\ j - Len(u) \in 1 .. n - i
          /\ i + (j - Len(u)) = j + 1
      BY <1>1, <1>3, <1>6, <1>7, <2>4
    <3> QED
      BY <1>7, <2>1, <3>1
  <2> QED
    BY <2>1, <2>2, <2>3, <2>4
<1>9. DOMAIN t = 1 .. n - 1
  BY <1>8
<1>10. PICK g : g = [j \in 1 .. n - 1 |-> IF j < i THEN j ELSE j + 1]
  OBVIOUS
<1>11. g \in [DOMAIN t -> DOMAIN s]
  BY <1>1, <1>3, <1>9, <1>10
<1>12. \A j \in DOMAIN t : t[j] = s[g[j]] /\ g[j] # i
  BY <1>1, <1>3, <1>8, <1>9, <1>10
<1>13. \A j, k \in DOMAIN t : j < k => g[j] < g[k]
  BY <1>1, <1>3, <1>9, <1>10
<1>14. Thinner(t, s)
  BY <1>8, <1>11, <1>12, <1>13, ThinnerByPlaces
<1>15. ASSUME NEW x \in Elems(t) PROVE x # a
  <2>1. PICK j \in DOMAIN t : t[j] = x
    BY DEF Elems
  <2>2. g[j] \in DOMAIN s /\ s[g[j]] = x /\ g[j] # i /\ i \in DOMAIN s
    BY <1>1, <1>3, <1>11, <1>12, <2>1
  <2> QED
    BY <1>3, <2>2, OnePlace
<1>16. ASSUME NEW x \in Elems(s), x # a PROVE x \in Elems(t)
  <2>1. PICK j \in 1 .. n : s[j] = x
    BY <1>1 DEF Elems
  <2>2. CASE j < i
    <3>1. j \in 1 .. i - 1 /\ j \in 1 .. n - 1
      BY <1>1, <1>3, <2>1, <2>2
    <3> QED
      BY <1>8, <1>9, <2>1, <3>1 DEF Elems
  <2>3. CASE j > i
    <3>1. j - 1 \in i .. n - 1 /\ j - 1 \in 1 .. n - 1 /\ (j - 1) + 1 = j
      BY <1>1, <1>3, <2>1, <2>3
    <3> QED
      BY <1>8, <1>9, <2>1, <3>1 DEF Elems
  <2>4. j # i
    BY <1>3, <1>16, <2>1
  <2> QED
    BY <1>3, <2>1, <2>2, <2>3, <2>4
<1> QED
  BY <1>14, <1>15, <1>16 DEF Thinner

\* A check point that is a node cuts the list in two.
LEMMA CutAt ==
    ASSUME NEW s \in Seq(Addresses), NEW cp, cp = ListHead \/ cp \in Elems(s)
    PROVE  \E k \in 0 .. Len(s) : CutsAt(s, cp, k)
<1>1. PICK n \in Nat : n = Len(s) /\ DOMAIN s = 1 .. n
  OBVIOUS
<1>2. PICK u : u = Before(s, cp)
  OBVIOUS
<1>3. PICK k \in 0 .. n :
         /\ cp = ListHead => k = 0
         /\ cp # ListHead => k \in 1 .. n /\ s[k] = cp
         /\ u \in Seq(Addresses) /\ Len(u) = k
         /\ \A j \in 1 .. k : u[j] = s[j]
  <2>1. CASE cp = ListHead
    <3>1. u = <<>> /\ 0 \in 0 .. n
      BY <1>1, <1>2, <2>1 DEF Before
    <3> QED
      BY <2>1, <3>1
  <2>2. CASE cp # ListHead
    <3>1. PICK i : i = CHOOSE j \in DOMAIN s : s[j] = cp
      OBVIOUS
    <3>2. i \in 1 .. n /\ s[i] = cp
      BY <1>1, <2>2, <3>1 DEF Elems
    <3>3. u = SubSeq(s, 1, i)
      BY <1>2, <2>2, <3>1 DEF Before
    <3>4. \A j \in 1 .. i : s[j] \in Addresses
      BY <1>1, <3>2
    <3>5. u \in Seq(Addresses) /\ Len(u) = i /\ \A j \in 1 .. i : u[j] = s[j]
      BY <1>1, <3>2, <3>3, <3>4, SubSeqProperties
    <3>6. i \in 0 .. n
      BY <1>1, <3>2
    <3> QED
      BY <2>2, <3>2, <3>5, <3>6
  <2> QED
    BY <2>1, <2>2
<1>4. PICK w : w = After(s, cp)
  OBVIOUS
<1>5. w = SubSeq(s, k + 1, n)
  BY <1>1, <1>2, <1>3, <1>4 DEF After
<1>6. w \in Seq(Addresses) /\ Len(w) = n - k /\ \A j \in 1 .. n - k : w[j] = s[k + j]
  <2>1. \A j \in k + 1 .. n : s[j] \in Addresses
    BY <1>1, <1>3
  <2> QED
    BY <1>1, <1>3, <1>5, <2>1, SubSeqProperties
<1> QED
  BY <1>1, <1>2, <1>3, <1>4, <1>6 DEF CutsAt

\* free_allocated_blocks removes blocks, and none with an overwritten guard.
LEMMA FreedAfter ==
    ASSUME NEW s \in Seq(Addresses), NEW cp, cp = ListHead \/ cp \in Elems(s),
           NEW t, t = FreeAfter(s, cp)
    PROVE  /\ Thinner(t, s)
           /\ \A x \in Elems(s) : ~ GuardsIntact(x) => x \in Elems(t)
<1>1. PICK n \in Nat : n = Len(s) /\ DOMAIN s = 1 .. n
  OBVIOUS
<1>2. PICK u, w : u = Before(s, cp) /\ w = After(s, cp)
  OBVIOUS
<1>3. PICK k \in 0 .. n :
         /\ u \in Seq(Addresses) /\ Len(u) = k /\ \A j \in 1 .. k : u[j] = s[j]
         /\ w \in Seq(Addresses) /\ Len(w) = n - k
         /\ \A j \in 1 .. n - k : w[j] = s[k + j]
  <2>1. PICK k \in 0 .. Len(s) : CutsAt(s, cp, k)
    BY CutAt
  <2> QED
    BY <1>1, <1>2, <2>1 DEF CutsAt
<1>4. PICK bad : bad = {i \in DOMAIN w : ~ GuardsIntact(w[i])}
  OBVIOUS
<1>5. DOMAIN w = 1 .. n - k /\ DOMAIN u = 1 .. k
  BY <1>3
<1>6. CASE bad = {}
  <2>1. t = u
    BY <1>2, <1>4, <1>6 DEF FreeAfter
  <2>2. PICK g : g = [j \in 1 .. k |-> j]
    OBVIOUS
  <2>3. g \in [DOMAIN t -> DOMAIN s]
    BY <1>1, <1>3, <1>5, <2>1, <2>2
  <2>4. \A i \in DOMAIN t : t[i] = s[g[i]]
    BY <1>3, <1>5, <2>1, <2>2
  <2>5. \A i, j \in DOMAIN t : i < j => g[i] < g[j]
    BY <1>5, <2>1, <2>2
  <2>6. Thinner(t, s)
    BY <1>3, <2>1, <2>3, <2>4, <2>5, ThinnerByPlaces
  <2>7. ASSUME NEW x \in Elems(s), ~ GuardsIntact(x) PROVE x \in Elems(t)
    <3>1. PICK i \in 1 .. n : s[i] = x
      BY <1>1 DEF Elems
    <3>2. ~ (i > k)
      <4> SUFFICES ASSUME i > k PROVE FALSE
        OBVIOUS
      <4>1. i - k \in 1 .. n - k /\ k + (i - k) = i
        BY <1>1, <1>3, <3>1
      <4>2. i - k \in bad
        BY <1>3, <1>4, <1>5, <2>7, <3>1, <4>1
      <4> QED
        BY <1>6, <4>2
    <3>3. i \in 1 .. k
      BY <1>1, <1>3, <3>1, <3>2
    <3> QED
      BY <1>3, <1>5, <2>1, <3>1, <3>3 DEF Elems
  <2> QED
    BY <2>6, <2>7
<1>7. CASE bad # {}
  <2>1. PICK first : first = CHOOSE i \in bad : \A j \in bad : i <= j
    OBVIOUS
  <2>2. first \in bad /\ \A j \in bad : first <= j
    <3>1. bad \subseteq Nat
      BY <1>1, <1>3, <1>4, <1>5
    <3>2. \E i \in bad : \A j \in bad : i <= j
      BY <1>7, <3>1, LeastElement
    <3> QED
      BY <2>1, <3>2
  <2>3. first \in 1 .. n - k
    BY <1>4, <1>5, <2>2
  <2>4. PICK v : v = SubSeq(w, first, Len(w))
    OBVIOUS
  <2>5. t = u \o v
    BY <1>2, <1>4, <1>7, <2>1, <2>4 DEF FreeAfter
  <2>6. PICK m \in Nat : m = (n - k) - first + 1
    <3>1. n \in Nat /\ k \in Nat /\ first \in Nat /\ first <= n - k
      BY <1>1, <1>3, <2>3
    <3>2. (n - k) - first + 1 \in Nat
      BY <3>1
    <3> QED
      BY <3>2
  <2>7. /\ v \in Seq(Addresses) /\ Len(v) = m
        /\ \A j \in 1 .. m : v[j] = w[first + j - 1]
    <3>1. \A j \in first .. n - k : w[j] \in Addresses
      BY <1>1, <1>3, <1>5, <2>3
    <3> QED
      BY <1>1, <1>3, <2>3, <2>4, <2>6, <3>1, SubSeqProperties
  <2>8. /\ t \in Seq(Addresses) /\ Len(t) = k + m
        /\ \A j \in 1 .. k + m : t[j] = IF j <= k THEN u[j] ELSE v[j - k]
    <3>1. u \in Seq(Addresses) /\ v \in Seq(Addresses) /\ Len(u) = k /\ Len(v) = m
      BY <1>3, <2>7
    <3>2. /\ u \o v \in Seq(Addresses) /\ Len(u \o v) = Len(u) + Len(v)
          /\ \A j \in 1 .. Len(u) + Len(v) :
                (u \o v)[j] = IF j <= Len(u) THEN u[j] ELSE v[j - Len(u)]
      BY <3>1, ConcatProperties
    <3> QED
      BY <2>5, <3>1, <3>2
  <2>9. k \in Nat /\ DOMAIN t = 1 .. k + m
    BY <1>1, <1>3, <2>6, <2>8
  <2>10. ASSUME NEW j \in 1 .. k + m, ~ (j <= k)
         PROVE  j + first - 1 \in k + 1 .. n /\ t[j] = s[j + first - 1]
    <3>1. /\ j - k \in 1 .. m /\ first + (j - k) - 1 \in 1 .. n - k
          /\ k + (first + (j - k) - 1) = j + first - 1
          /\ j + first - 1 \in k + 1 .. n
      BY <1>1, <1>3, <2>3, <2>6, <2>9, <2>10
    <3>2. t[j] = v[j - k]
      BY <2>8, <2>10
    <3>3. v[j - k] = w[first + (j - k) - 1]
      BY <2>7, <3>1
    <3>4. w[first + (j - k) - 1] = s[k + (first + (j - k) - 1)]
      BY <1>3, <3>1
    <3> QED
      BY <3>1, <3>2, <3>3, <3>4
  <2>11. PICK g : g = [j \in 1 .. k + m |-> IF j <= k THEN j ELSE j + first - 1]
    OBVIOUS
  <2>12. \A j \in 1 .. k + m : g[j] \in 1 .. n /\ t[j] = s[g[j]]
    <3> SUFFICES ASSUME NEW j \in 1 .. k + m
                 PROVE  g[j] \in 1 .. n /\ t[j] = s[g[j]]
      OBVIOUS
    <3>1. CASE j <= k
      <4>1. j \in 1 .. k /\ j \in 1 .. n /\ g[j] = j
        BY <1>1, <1>3, <2>9, <2>11, <3>1
      <4> QED
        BY <1>3, <2>8, <3>1, <4>1
    <3>2. CASE ~ (j <= k)
      <4>1. g[j] = j + first - 1
        BY <2>11, <3>2
      <4>2. j + first - 1 \in 1 .. n
        BY <1>1, <1>3, <2>9, <2>10, <3>2
      <4> QED
        BY <2>10, <3>2, <4>1, <4>2
    <3> QED
      BY <3>1, <3>2
  <2>13. g \in [DOMAIN t -> DOMAIN s]
    BY <1>1, <2>9, <2>11, <2>12
  <2>14. \A i, j \in 1 .. k + m : i < j => g[i] < g[j]
    BY <1>1, <1>3, <2>3, <2>6, <2>9, <2>11
  <2>15. Thinner(t, s)
    <3>1. \A i \in DOMAIN t : t[i] = s[g[i]]
      BY <2>9, <2>12
    <3>2. \A i, j \in DOMAIN t : i < j => g[i] < g[j]
      BY <2>9, <2>14
    <3>3. t \in Seq(Addresses)
      BY <2>8
    <3> QED
      BY <2>13, <3>1, <3>2, <3>3, ThinnerByPlaces
  <2>16. ASSUME NEW x \in Elems(s), ~ GuardsIntact(x) PROVE x \in Elems(t)
    <3>1. PICK i \in 1 .. n : s[i] = x
      BY <1>1 DEF Elems
    <3>2. CASE i <= k
      <4>1. i \in 1 .. k /\ i \in 1 .. k + m
        BY <1>1, <1>3, <2>6, <2>9, <3>1, <3>2
      <4>2. t[i] = s[i]
        BY <1>3, <2>8, <3>2, <4>1
      <4> QED
        BY <2>9, <3>1, <4>1, <4>2 DEF Elems
    <3>3. CASE i > k
      <4>1. i - k \in 1 .. n - k /\ k + (i - k) = i
        BY <1>1, <1>3, <2>9, <3>1, <3>3
      <4>2. i - k \in bad
        BY <1>3, <1>4, <1>5, <2>16, <3>1, <4>1
      <4>3. first <= i - k
        BY <2>2, <4>2
      <4>4. PICK j : j = i - first + 1
        OBVIOUS
      <4>5. j \in 1 .. k + m /\ ~ (j <= k) /\ j + first - 1 = i
        BY <1>1, <1>3, <2>3, <2>6, <2>9, <3>1, <3>3, <4>3, <4>4
      <4>6. t[j] = s[i]
        BY <2>10, <4>5
      <4> QED
        BY <2>9, <3>1, <4>5, <4>6 DEF Elems
    <3> QED
      BY <1>1, <1>3, <2>9, <3>1, <3>2, <3>3
  <2> QED
    BY <2>15, <2>16
<1> QED
  BY <1>6, <1>7

-----------------------------------------------------------------------------
(* The order of the list.                                                  *)

\* Removing blocks keeps the order, and a check point that is still there.
LEMMA ThinnerOrdered ==
    ASSUME NEW s, NEW t, NEW b, NEW e, Ordered(s, b, e), Thinner(t, s)
    PROVE  /\ Ordered(t, b, e)
           /\ \A cp, n : (Divides(s, b, cp, n) /\ (cp = ListHead \/ cp \in Elems(t)))
                            => Divides(t, b, cp, n)
<1>1. /\ b \in [Addresses -> Nat] /\ e \in Nat
      /\ \A x : ~ Precedes(s, x, x)
      /\ \A x, y : Precedes(s, x, y) => b[x] <= b[y]
      /\ \A x \in Elems(s) : b[x] <= e
  BY DEF Ordered, NoDuplicates
<1>2. /\ t \in Seq(Addresses)
      /\ Elems(t) \subseteq Elems(s)
      /\ \A x, y : Precedes(t, x, y) => Precedes(s, x, y)
  BY DEF Thinner
<1>3. NoDuplicates(t)
  BY <1>1, <1>2 DEF NoDuplicates
<1>4. Ordered(t, b, e)
  BY <1>1, <1>2, <1>3 DEF Ordered
<1>5. ASSUME NEW cp, NEW n, Divides(s, b, cp, n), cp = ListHead \/ cp \in Elems(t)
      PROVE  Divides(t, b, cp, n)
  <2>1. CASE cp = ListHead /\ \A x \in Elems(s) : b[x] >= n
    BY <1>2, <2>1 DEF Divides
  <2>2. CASE /\ cp \in Elems(s) /\ b[cp] < n
             /\ \A y : Precedes(s, cp, y) => b[y] >= n
    <3>1. cp # ListHead
      BY <2>2, AddressesAssumption DEF Ordered, Elems
    <3> QED
      BY <1>2, <1>5, <2>2, <3>1 DEF Divides
  <2> QED
    BY <1>5, <2>1, <2>2 DEF Divides
<1> QED
  BY <1>4, <1>5

\* So does appending a block that is allocated in the last epoch.
LEMMA AppendedOrdered ==
    ASSUME NEW s, NEW b, NEW e, Ordered(s, b, e), NEW a \in Addresses \ Elems(s),
           NEW t, t = Append(s, a), NEW c, c = [b EXCEPT ![a] = e]
    PROVE  /\ Ordered(t, c, e)
           /\ \A cp : \A n \in Nat : (Divides(s, b, cp, n) /\ n <= e) => Divides(t, c, cp, n)
<1>1. /\ s \in Seq(Addresses) /\ b \in [Addresses -> Nat] /\ e \in Nat
      /\ \A x : ~ Precedes(s, x, x)
      /\ \A x, y : Precedes(s, x, y) => b[x] <= b[y]
      /\ \A x \in Elems(s) : b[x] <= e
  BY DEF Ordered, NoDuplicates
<1>2. /\ t \in Seq(Addresses) /\ Elems(t) = Elems(s) \cup {a}
      /\ \A x, y : Precedes(t, x, y) => Precedes(s, x, y) \/ (x \in Elems(s) /\ y = a)
  BY <1>1, Appended
<1>3. \A x, y : Precedes(s, x, y) => x \in Elems(s) /\ y \in Elems(s)
  BY DEF Precedes, Elems
<1>4. c \in [Addresses -> Nat] /\ c[a] = e /\ \A x \in Elems(s) : c[x] = b[x]
  <2>1. Elems(s) \subseteq Addresses
    BY <1>1 DEF Elems
  <2> QED
    BY <1>1, <2>1
<1>5. Ordered(t, c, e)
  <2>1. NoDuplicates(t)
    BY <1>1, <1>2 DEF NoDuplicates
  <2>2. \A x, y : Precedes(t, x, y) => c[x] <= c[y]
    BY <1>1, <1>2, <1>3, <1>4
  <2>3. \A x \in Elems(t) : c[x] <= e
    BY <1>1, <1>2, <1>4
  <2> QED
    BY <1>1, <1>2, <1>4, <2>1, <2>2, <2>3 DEF Ordered
<1>6. ASSUME NEW cp, NEW n \in Nat, Divides(s, b, cp, n), n <= e
      PROVE  Divides(t, c, cp, n)
  <2>1. CASE cp = ListHead /\ \A x \in Elems(s) : b[x] >= n
    <3>1. \A x \in Elems(t) : c[x] >= n
      BY <1>1, <1>2, <1>4, <1>6, <2>1
    <3> QED
      BY <2>1, <3>1 DEF Divides
  <2>2. CASE /\ cp \in Elems(s) /\ b[cp] < n
             /\ \A y : Precedes(s, cp, y) => b[y] >= n
    <3>1. cp \in Elems(t) /\ c[cp] < n
      BY <1>2, <1>4, <2>2
    <3>2. \A y : Precedes(t, cp, y) => c[y] >= n
      BY <1>1, <1>2, <1>3, <1>4, <1>6, <2>2
    <3> QED
      BY <3>1, <3>2 DEF Divides
  <2> QED
    BY <1>6, <2>1, <2>2 DEF Divides
<1> QED
  BY <1>5, <1>6

\* The end of the list divides it at the epoch that is to begin.
LEMMA LastDivides ==
    ASSUME NEW e, Ordered(blocks, born, e)
    PROVE  LastNode \in Addresses \cup {ListHead} /\ Divides(blocks, born, LastNode, e + 1)
<1>1. /\ blocks \in Seq(Addresses) /\ born \in [Addresses -> Nat] /\ e \in Nat
      /\ \A x \in Elems(blocks) : born[x] <= e
  BY DEF Ordered
<1>2. PICK n \in Nat : n = Len(blocks) /\ DOMAIN blocks = 1 .. n
  BY <1>1
<1>3. CASE blocks = <<>>
  BY <1>3 DEF LastNode, Divides, Elems
<1>4. CASE blocks # <<>>
  <2>1. n \in 1 .. n /\ LastNode = blocks[n]
    BY <1>1, <1>2, <1>4, EmptySeq DEF LastNode
  <2>2. LastNode \in Elems(blocks) /\ LastNode \in Addresses
    BY <1>1, <1>2, <2>1 DEF Elems
  <2>3. born[LastNode] < e + 1
    BY <1>1, <2>2
  <2>4. ASSUME NEW y, Precedes(blocks, LastNode, y) PROVE FALSE
    <3>1. PICK i \in 1 .. n, j \in 1 .. n : i < j /\ blocks[i] = LastNode
      BY <1>2, <2>4 DEF Precedes
    <3>2. i \in DOMAIN blocks /\ n \in DOMAIN blocks /\ blocks[i] = blocks[n] /\ i < n
      BY <1>2, <2>1, <3>1
    <3>3. NoDuplicates(blocks)
      BY DEF Ordered
    <3>4. i = n
      BY <1>1, <3>2, <3>3, OnePlace
    <3> QED
      BY <1>2, <3>2, <3>4
  <2> QED
    BY <2>2, <2>3, <2>4 DEF Divides
<1> QED
  BY <1>3, <1>4

\* The blocks behind a check point that divides the list at epoch n are those
\* that were allocated in epoch n or later.
LEMMA BehindCheckPoint ==
    ASSUME NEW s, NEW b, NEW e, Ordered(s, b, e), NEW n \in Nat,
           NEW cp, Divides(s, b, cp, n)
    PROVE  /\ cp = ListHead \/ cp \in Elems(s)
           /\ After(s, cp) = <<>> <=> {x \in Elems(s) : b[x] >= n} = {}
<1>1. /\ s \in Seq(Addresses) /\ b \in [Addresses -> Nat] /\ NoDuplicates(s)
      /\ \A x, y : Precedes(s, x, y) => b[x] <= b[y]
  BY DEF Ordered
<1>2. cp = ListHead \/ cp \in Elems(s)
  BY DEF Divides
<1>3. PICK m \in Nat : m = Len(s) /\ DOMAIN s = 1 .. m
  BY <1>1
<1>4. PICK w : w = After(s, cp)
  OBVIOUS
<1>5. PICK k \in 0 .. m :
         /\ cp = ListHead => k = 0
         /\ cp # ListHead => k \in 1 .. m /\ s[k] = cp
         /\ w \in Seq(Addresses) /\ Len(w) = m - k
         /\ \A j \in 1 .. m - k : w[j] = s[k + j]
  <2>1. PICK k \in 0 .. Len(s) : CutsAt(s, cp, k)
    <3>1. s \in Seq(Addresses)
      BY <1>1
    <3> QED
      BY <1>2, <3>1, CutAt
  <2> QED
    BY <1>3, <1>4, <2>1 DEF CutsAt
<1>6. Elems(s) \subseteq Addresses
  BY <1>1 DEF Elems
<1>7. ASSUME NEW i \in 1 .. m PROVE b[s[i]] >= n <=> i > k
  <2>1. s[i] \in Elems(s) /\ s[i] \in Addresses /\ b[s[i]] \in Nat /\ i \in DOMAIN s
    BY <1>1, <1>3, <1>6 DEF Elems
  <2>2. CASE cp = ListHead
    <3>1. \A x \in Elems(s) : b[x] >= n
      BY <1>6, <2>2, AddressesAssumption DEF Divides
    <3> QED
      BY <1>5, <2>1, <2>2, <3>1
  <2>3. CASE cp # ListHead
    <3>1. k \in 1 .. m /\ s[k] = cp /\ k \in DOMAIN s /\ b[cp] < n
          /\ \A y : Precedes(s, cp, y) => b[y] >= n
      BY <1>3, <1>5, <2>3 DEF Divides
    <3>2. CASE i > k
      <4>1. Precedes(s, cp, s[i])
        BY <1>3, <2>1, <3>1, <3>2 DEF Precedes
      <4> QED
        BY <3>1, <3>2, <4>1
    <3>3. CASE i = k
      BY <2>1, <3>1, <3>3
    <3>4. CASE i < k
      <4>1. Precedes(s, s[i], cp)
        BY <1>3, <2>1, <3>1, <3>4 DEF Precedes
      <4>2. b[s[i]] <= b[cp] /\ b[cp] \in Nat
        BY <1>1, <1>2, <1>6, <2>3, <4>1
      <4> QED
        BY <1>3, <1>5, <2>1, <3>1, <3>4, <4>2
    <3> QED
      BY <1>3, <1>5, <3>1, <3>2, <3>3, <3>4
  <2> QED
    BY <2>2, <2>3
<1>8. w = <<>> <=> m = k
  <2>1. w = <<>> <=> Len(w) = 0
    BY <1>5, EmptySeq
  <2> QED
    BY <1>3, <1>5, <2>1
<1>9. ASSUME m # k PROVE {x \in Elems(s) : b[x] >= n} # {}
  <2>1. m \in 1 .. m /\ m > k
    BY <1>3, <1>5, <1>9
  <2>2. s[m] \in Elems(s) /\ b[s[m]] >= n
    BY <1>3, <1>7, <2>1 DEF Elems
  <2> QED
    BY <2>2
<1>10. ASSUME m = k PROVE {x \in Elems(s) : b[x] >= n} = {}
  <2> SUFFICES ASSUME NEW x \in Elems(s), b[x] >= n PROVE FALSE
    OBVIOUS
  <2>1. PICK i \in 1 .. m : s[i] = x
    BY <1>3 DEF Elems
  <2>2. i > k
    BY <1>7, <2>1
  <2> QED
    BY <1>3, <1>10, <2>1, <2>2
<1> QED
  BY <1>2, <1>4, <1>8, <1>9, <1>10

\* A list without duplicates has as many blocks as places.
LEMMA CountOfBlocks ==
    ASSUME NEW s \in Seq(Addresses), NoDuplicates(s)
    PROVE  Cardinality(Elems(s)) = Len(s)
<1>1. PICK n \in Nat : n = Len(s) /\ DOMAIN s = 1 .. n
  OBVIOUS
<1>2. s \in [1 .. n -> Elems(s)]
  <2>1. \A i \in 1 .. n : s[i] \in Elems(s)
    BY <1>1 DEF Elems
  <2>2. s = [i \in 1 .. n |-> s[i]]
    BY <1>1
  <2> QED
    BY <2>1, <2>2
<1>3. \A i, j \in 1 .. n : s[i] = s[j] => i = j
  BY <1>1, OnePlace
<1>4. \A x \in Elems(s) : \E i \in 1 .. n : s[i] = x
  BY <1>1 DEF Elems
<1>5. s \in Bijection(1 .. n, Elems(s))
  BY <1>2, <1>3, <1>4 DEF Bijection, Injection, Surjection, IsInjective
<1>6. ExistsBijection(1 .. n, Elems(s))
  BY <1>5 DEF ExistsBijection
<1> QED
  BY <1>1, <1>6, FS_CountingElements

-----------------------------------------------------------------------------
(* The inductive invariant.                                                *)

Ended == {"returned", "exited"}

CheckPoints == Addresses \cup {ListHead, Null}

\* The list is in the order of the epochs, and has all corrupt blocks.
ListInv ==
    /\ Ordered(blocks, born, epoch)
    /\ corrupt \subseteq Elems(blocks)

RunInv ==
    /\ stage \in {"group", "group_setup", "setup", "test", "teardown",
                  "group_teardown", "returned", "exited"}
    /\ running \in BOOLEAN
    /\ tests \in 0 .. MaxTests
    /\ verdict \in {"none", "passed", "stopped", "failed", "leak", "fault"}
    /\ checkPoint \in CheckPoints
    /\ testCheckPoint \in CheckPoints
    /\ running => checkPoint # Null /\ verdict = "none" /\ stage \notin Ended

\* A check point cp with the note r about it: unless its block was freed, it
\* divides the list at the epoch at which it was taken.
Holds(list, b, e, cp, r) ==
    /\ r \in Notes
    /\ r.at <= e
    /\ (cp # Null /\ ~ r.lost) => Divides(list, b, cp, r.at)

\* After the last check of the group no check point is used any more.
PointInv ==
    /\ since = [body |-> since.body, test |-> since.test]
    /\ since.body \in Notes
    /\ since.test \in Notes
    /\ stage \notin Ended =>
          /\ Holds(blocks, born, epoch, checkPoint, since.body)
          /\ Holds(blocks, born, epoch, testCheckPoint, since.test)

HeapInv == ListInv /\ RunInv /\ PointInv /\ PassedLeavesNothing

-----------------------------------------------------------------------------
(* How the notes on the check points follow the list.                      *)

\* A check point holds in a thinner list if its block is noted when it is gone.
LEMMA HoldsThinner ==
    ASSUME NEW s, NEW t, NEW b, NEW e, Ordered(s, b, e), Thinner(t, s),
           NEW cp \in CheckPoints, NEW r, Holds(s, b, e, cp, r),
           NEW q \in Notes, q.at = r.at,
           ~ q.lost => ~ r.lost /\ ~ (cp \in Elems(s) /\ cp \notin Elems(t))
    PROVE  Holds(t, b, e, cp, q)
<1>1. q.at <= e
  BY DEF Holds
<1>2. ASSUME cp # Null, ~ q.lost PROVE Divides(t, b, cp, q.at)
  <2>1. Divides(s, b, cp, r.at)
    BY <1>2 DEF Holds
  <2>2. cp = ListHead \/ cp \in Elems(t)
    BY <1>2, <2>1 DEF Divides
  <2>3. Divides(t, b, cp, r.at)
    BY <2>1, <2>2, ThinnerOrdered
  <2> QED
    BY <2>3
<1> QED
  BY <1>1, <1>2 DEF Holds

\* A check point holds in a list with a new block appended.
LEMMA HoldsAppended ==
    ASSUME NEW s, NEW b, NEW e, Ordered(s, b, e), NEW a \in Addresses \ Elems(s),
           NEW t, t = Append(s, a), NEW c, c = [b EXCEPT ![a] = e],
           NEW cp, NEW r, Holds(s, b, e, cp, r)
    PROVE  Holds(t, c, e, cp, r)
<1>1. r \in Notes /\ r.at <= e /\ r.at \in Nat
  BY DEF Holds, Notes
<1>2. ASSUME cp # Null, ~ r.lost PROVE Divides(t, c, cp, r.at)
  <2>1. Divides(s, b, cp, r.at)
    BY <1>2 DEF Holds
  <2>2. PICK n \in Nat : n = r.at /\ n <= e
    BY <1>1
  <2>3. Divides(s, b, cp, n)
    BY <2>1, <2>2
  <2>4. Divides(t, c, cp, n)
    BY <2>2, <2>3, AppendedOrdered
  <2> QED
    BY <2>2, <2>4
<1> QED
  BY <1>1, <1>2 DEF Holds

\* Every check point with a note of an earlier epoch holds in a later one.
LEMMA HoldsLater ==
    ASSUME NEW s, NEW b, NEW e, Ordered(s, b, e), NEW cp, NEW r
    PROVE  /\ Ordered(s, b, e + 1)
           /\ Holds(s, b, e, cp, r) => Holds(s, b, e + 1, cp, r)
<1>1. /\ e \in Nat /\ e + 1 \in Nat /\ b \in [Addresses -> Nat]
      /\ s \in Seq(Addresses) /\ \A x \in Elems(s) : b[x] <= e
  BY DEF Ordered
<1>2. \A x \in Elems(s) : b[x] <= e + 1
  <2>1. Elems(s) \subseteq Addresses
    BY <1>1 DEF Elems
  <2> QED
    BY <1>1, <2>1
<1>3. Ordered(s, b, e + 1)
  BY <1>1, <1>2 DEF Ordered
<1>4. ASSUME Holds(s, b, e, cp, r) PROVE Holds(s, b, e + 1, cp, r)
  <2>1. r \in Notes /\ r.at \in Nat /\ r.at <= e
    BY <1>4 DEF Holds, Notes
  <2>2. r.at <= e + 1
    BY <1>1, <2>1
  <2> QED
    BY <1>4, <2>1, <2>2 DEF Holds
<1> QED
  BY <1>3, <1>4

\* A check point taken at the end of the list, and the list head as the check
\* point of the group, hold in the epoch that begins.
LEMMA HoldsTaken ==
    ASSUME ListInv
    PROVE  /\ LastNode \in Addresses \cup {ListHead}
           /\ Holds(blocks, born, epoch + 1, LastNode, Taken(epoch + 1))
           /\ Holds(blocks, born, epoch + 1, ListHead, Taken(0))
           /\ \A n \in 0 .. epoch + 1 : Holds(blocks, born, epoch + 1, Null, Taken(n))
<1>1. /\ Ordered(blocks, born, epoch) /\ epoch \in Nat /\ epoch + 1 \in Nat
      /\ born \in [Addresses -> Nat] /\ Elems(blocks) \subseteq Addresses
  BY DEF ListInv, Ordered, Elems
<1>2. \A n \in Nat : Taken(n) \in Notes /\ Taken(n).at = n /\ ~ Taken(n).lost
  BY DEF Taken, Notes
<1>3. /\ LastNode \in Addresses \cup {ListHead}
      /\ Divides(blocks, born, LastNode, epoch + 1)
  BY <1>1, LastDivides
<1>4. Divides(blocks, born, ListHead, 0)
  BY <1>1 DEF Divides
<1>5. Holds(blocks, born, epoch + 1, LastNode, Taken(epoch + 1))
  BY <1>1, <1>2, <1>3 DEF Holds
<1>6. Holds(blocks, born, epoch + 1, ListHead, Taken(0))
  BY <1>1, <1>2, <1>4 DEF Holds
<1>7. ASSUME NEW n \in 0 .. epoch + 1
      PROVE  Holds(blocks, born, epoch + 1, Null, Taken(n))
  BY <1>1, <1>2 DEF Holds
<1> QED
  BY <1>3, <1>5, <1>6, <1>7

\* The node behind a node of a list is one of the list, or the list head.
LEMMA NextNodeType ==
    ASSUME NEW list \in Seq(Addresses), NEW cp, cp = ListHead \/ cp \in Elems(list)
    PROVE  NextNode(list, cp) \in Addresses \cup {ListHead}
<1>1. PICK after : after = After(list, cp)
  OBVIOUS
<1>2. after \in Seq(Addresses)
  BY <1>1, CutAt DEF CutsAt
<1>3. after # <<>> => Head(after) \in Addresses
  BY <1>2
<1> QED
  BY <1>1, <1>3 DEF NextNode

\* A note keeps its epoch when its block is lost, and remembers the loss.
LEMMA LostNote ==
    ASSUME NEW r \in Notes, NEW gone, NEW list \in Seq(Addresses), NEW cp,
           gone \subseteq Elems(list)
    PROVE  /\ LoseIf(gone, list, cp, r) \in Notes
           /\ LoseIf(gone, list, cp, r).at = r.at
           /\ ~ LoseIf(gone, list, cp, r).lost => ~ r.lost /\ cp \notin gone
<1>1. CASE cp \in gone
  <2>1. PICK n \in Addresses \cup {ListHead} : n = NextNode(list, cp)
    BY <1>1, NextNodeType
  <2>2. LoseIf(gone, list, cp, r) = [r EXCEPT !.lost = TRUE, !.link = n]
    BY <1>1, <2>1 DEF LoseIf
  <2> QED
    BY <2>2 DEF Notes
<1>2. CASE cp \notin gone
  BY <1>2 DEF LoseIf
<1> QED
  BY <1>1, <1>2

\* Both notes keep their epochs when blocks of the list are freed, and remember
\* the loss of the block that they are about.
LEMMA Lost ==
    ASSUME PointInv, NEW list \in Seq(Addresses), Elems(blocks) \subseteq Elems(list),
           Lose(list)
    PROVE  /\ since' = [body |-> since'.body, test |-> since'.test]
           /\ since'.body \in Notes /\ since'.body.at = since.body.at
           /\ ~ since'.body.lost =>
                 ~ since.body.lost
                 /\ ~ (checkPoint \in Elems(blocks) /\ checkPoint \notin Elems(blocks'))
           /\ since'.test \in Notes /\ since'.test.at = since.test.at
           /\ ~ since'.test.lost =>
                 ~ since.test.lost
                 /\ ~ (testCheckPoint \in Elems(blocks)
                       /\ testCheckPoint \notin Elems(blocks'))
<1>1. Allocated = Elems(blocks) /\ Allocated' = Elems(blocks')
  BY DEF Allocated, Elems
<1>2. PICK r, q : r = since.body /\ q = since.test
  OBVIOUS
<1>3. r \in Notes /\ q \in Notes
  BY <1>2 DEF PointInv
<1>4. PICK gone : gone = Allocated \ Allocated'
  OBVIOUS
<1>5. gone \subseteq Elems(list)
  BY <1>1, <1>4
<1>6. PICK p, o : p = checkPoint /\ o = testCheckPoint
  OBVIOUS
<1>7. PICK r1, q1 : r1 = LoseIf(gone, list, p, r) /\ q1 = LoseIf(gone, list, o, q)
  OBVIOUS
<1>8. since' = [body |-> r1, test |-> q1]
  BY <1>2, <1>4, <1>6, <1>7 DEF Lose
<1>9. since'.body = r1 /\ since'.test = q1
  BY <1>8
<1>10. r1 \in Notes /\ r1.at = r.at /\ (~ r1.lost => ~ r.lost /\ p \notin gone)
  BY <1>3, <1>5, <1>7, LostNote
<1>11. q1 \in Notes /\ q1.at = q.at /\ (~ q1.lost => ~ q.lost /\ o \notin gone)
  BY <1>3, <1>5, <1>7, LostNote
<1>12. \A x : x \in gone <=> x \in Elems(blocks) /\ x \notin Elems(blocks')
  BY <1>1, <1>4
<1> QED
  BY <1>2, <1>6, <1>8, <1>9, <1>10, <1>11, <1>12

-----------------------------------------------------------------------------
(* The steps.                                                              *)

\* Blocks are freed.
LEMMA FreeingStep ==
    ASSUME ListInv, PointInv, Lose(blocks),
           checkPoint \in CheckPoints, testCheckPoint \in CheckPoints,
           Thinner(blocks', blocks), corrupt \subseteq Elems(blocks'),
           UNCHANGED <<corrupt, born, stage, checkPoint, testCheckPoint, epoch>>
    PROVE  ListInv' /\ PointInv'
<1>1. PICK s, t : s = blocks /\ t = blocks'
  OBVIOUS
<1>2. PICK b, e, p, q : b = born /\ e = epoch /\ p = checkPoint /\ q = testCheckPoint
  OBVIOUS
<1>3. Ordered(s, b, e) /\ Thinner(t, s)
  BY <1>1, <1>2 DEF ListInv
<1>4. Ordered(t, b, e)
  BY <1>3, ThinnerOrdered
<1>5. Ordered(blocks, born, epoch)'
  BY <1>1, <1>2, <1>4
<1>6. ListInv'
  BY <1>5 DEF ListInv
<1>7. PICK m, n, m1, n1 : m = since.body /\ n = since.test
                          /\ m1 = since'.body /\ n1 = since'.test
  OBVIOUS
<1>8. /\ since' = [body |-> m1, test |-> n1]
      /\ m1 \in Notes /\ m1.at = m.at
      /\ ~ m1.lost => ~ m.lost /\ ~ (p \in Elems(s) /\ p \notin Elems(t))
      /\ n1 \in Notes /\ n1.at = n.at
      /\ ~ n1.lost => ~ n.lost /\ ~ (q \in Elems(s) /\ q \notin Elems(t))
  <2>1. blocks \in Seq(Addresses)
    BY DEF ListInv, Ordered
  <2> QED
    BY <1>1, <1>2, <1>7, <2>1, Lost
<1>9. ASSUME stage \notin Ended
      PROVE  Holds(t, b, e, p, m1) /\ Holds(t, b, e, q, n1)
  <2>1. Holds(s, b, e, p, m) /\ Holds(s, b, e, q, n)
    BY <1>1, <1>2, <1>7, <1>9 DEF PointInv
  <2>2. p \in CheckPoints /\ q \in CheckPoints
    BY <1>2
  <2>3. Holds(t, b, e, p, m1)
    BY <1>3, <1>8, <2>1, <2>2, HoldsThinner
  <2>4. Holds(t, b, e, q, n1)
    BY <1>3, <1>8, <2>1, <2>2, HoldsThinner
  <2> QED
    BY <2>3, <2>4
<1>10. PointInv'
  BY <1>1, <1>2, <1>7, <1>8, <1>9 DEF PointInv
<1> QED
  BY <1>6, <1>10

\* A block is allocated.
LEMMA AllocatingStep ==
    ASSUME ListInv, NEW a \in Addresses, Link(a), blocks' = Append(blocks, a),
           UNCHANGED <<corrupt, stage, checkPoint, testCheckPoint, epoch, since>>
    PROVE  ListInv' /\ (PointInv => PointInv')
<1>1. PICK s, t : s = blocks /\ t = blocks'
  OBVIOUS
<1>2. PICK b, c, e : b = born /\ c = born' /\ e = epoch
  OBVIOUS
<1>3. /\ Ordered(s, b, e) /\ a \in Addresses \ Elems(s)
      /\ t = Append(s, a) /\ c = [b EXCEPT ![a] = e]
  BY <1>1, <1>2 DEF ListInv, Link, Allocated, Elems
<1>4. Ordered(t, c, e)
  BY <1>3, AppendedOrdered
<1>5. Elems(s) \subseteq Elems(t)
  <2>1. s \in Seq(Addresses)
    BY <1>3 DEF Ordered
  <2>2. Elems(t) = Elems(s) \cup {a}
    BY <1>3, <2>1, Appended
  <2> QED
    BY <2>2
<1>6. ListInv'
  BY <1>1, <1>2, <1>4, <1>5 DEF ListInv
<1>7. ASSUME NEW p, NEW r, Holds(s, b, e, p, r) PROVE Holds(t, c, e, p, r)
  BY <1>3, <1>7, HoldsAppended
<1>8. ASSUME PointInv PROVE PointInv'
  <2>1. PICK p, q, m, n : /\ p = checkPoint /\ q = testCheckPoint
                          /\ m = since.body /\ n = since.test
    OBVIOUS
  <2>2. stage \notin Ended => Holds(s, b, e, p, m) /\ Holds(s, b, e, q, n)
    BY <1>1, <1>2, <1>8, <2>1 DEF PointInv
  <2>3. stage \notin Ended => Holds(t, c, e, p, m) /\ Holds(t, c, e, q, n)
    BY <1>7, <2>2
  <2> QED
    BY <1>1, <1>2, <1>8, <2>1, <2>3 DEF PointInv
<1> QED
  BY <1>6, <1>8

\* A function of the program starts.
LEMMA BeginningStep ==
    ASSUME ListInv, NEW f \in {"group_setup", "setup", "test", "teardown",
                               "group_teardown"},
           NEW cp \in Addresses \cup {ListHead}, NEW tcp \in CheckPoints,
           NEW r, NEW q,
           Holds(blocks, born, epoch + 1, cp, r),
           Holds(blocks, born, epoch + 1, tcp, q),
           Begin(f, cp, tcp, r, q), tests' \in 0 .. MaxTests
    PROVE  HeapInv'
<1>1. /\ stage' = f /\ running' = TRUE /\ verdict' = "none" /\ checkPoint' = cp
      /\ testCheckPoint' = tcp /\ epoch' = epoch + 1
      /\ since' = [body |-> r, test |-> q]
      /\ blocks' = blocks /\ corrupt' = corrupt /\ born' = born
  BY DEF Begin, heapVars
<1>2. Ordered(blocks, born, epoch + 1)
  BY HoldsLater DEF ListInv
<1>3. ListInv'
  BY <1>1, <1>2 DEF ListInv
<1>4. cp # Null
  BY AddressesAssumption
<1>5. RunInv'
  BY <1>1, <1>4 DEF RunInv, CheckPoints, Ended
<1>6. since'.body = r /\ since'.test = q
  BY <1>1
<1>7. r \in Notes /\ q \in Notes
  BY DEF Holds
<1>8. PointInv'
  BY <1>1, <1>6, <1>7 DEF PointInv
<1>9. PassedLeavesNothing'
  BY <1>1 DEF PassedLeavesNothing
<1> QED
  BY <1>3, <1>5, <1>8, <1>9 DEF HeapInv

\* The comparison of the heap with a node of the list.
LEMMA Compared ==
    ASSUME ListInv, NEW cp, IsNode(cp), CompareWith(cp)
    PROVE  /\ Thinner(blocks', blocks)
           /\ corrupt \subseteq Elems(blocks')
           /\ verdict' \in {"leak", "passed"}
           /\ verdict' = "leak" => After(blocks, cp) # <<>>
           /\ verdict' = "passed" => After(blocks, cp) = <<>> /\ blocks' = blocks
<1>1. blocks \in Seq(Addresses) /\ corrupt \subseteq Elems(blocks)
  BY DEF ListInv, Ordered
<1>2. cp = ListHead \/ cp \in Elems(blocks)
  BY DEF IsNode, Allocated, Elems
<1>3. CASE /\ After(blocks, cp) # <<>> /\ verdict' = "leak"
           /\ blocks' = FreeAfter(blocks, cp)
  <2>1. PICK s, t : s = blocks /\ t = blocks'
    OBVIOUS
  <2>2. s \in Seq(Addresses) /\ (cp = ListHead \/ cp \in Elems(s)) /\ t = FreeAfter(s, cp)
    BY <1>1, <1>2, <1>3, <2>1
  <2>3. /\ Thinner(t, s)
        /\ \A x \in Elems(s) : ~ GuardsIntact(x) => x \in Elems(t)
    BY <2>2, FreedAfter
  <2>4. corrupt \subseteq Elems(t)
    BY <1>1, <2>1, <2>3 DEF GuardsIntact
  <2> QED
    BY <1>3, <2>1, <2>3, <2>4
<1>4. CASE After(blocks, cp) = <<>> /\ verdict' = "passed" /\ UNCHANGED blocks
  <2>1. Thinner(blocks, blocks)
    BY <1>1 DEF Thinner
  <2> QED
    BY <1>1, <1>4, <2>1
<1> QED
  BY <1>3, <1>4 DEF CompareWith

\* fail_if_blocks_allocated, with a check point that may be lost.
LEMMA Failed ==
    ASSUME ListInv, NEW cp, fail_if_blocks_allocated(cp)
    PROVE  /\ Thinner(blocks', blocks)
           /\ corrupt \subseteq Elems(blocks')
           /\ verdict' \in {"leak", "passed", "fault"}
           /\ IsNode(cp) /\ verdict' = "leak" => After(blocks, cp) # <<>>
           /\ IsNode(cp) /\ verdict' = "passed" =>
                 After(blocks, cp) = <<>> /\ blocks' = blocks
<1>1. CASE IsNode(cp) /\ CompareWith(cp)
  BY <1>1, Compared
<1>2. CASE ~ IsNode(cp) /\ verdict' = "fault" /\ UNCHANGED blocks
  <2>1. Thinner(blocks, blocks) /\ corrupt \subseteq Elems(blocks)
    BY DEF Thinner, ListInv, Ordered
  <2> QED
    BY <1>2, <2>1
<1>3. CASE /\ ~ IsNode(cp)
           /\ \E c \in Allocated \cup {ListHead} :
                 NextNode(blocks, c) = since.body.link /\ CompareWith(c)
  <2>1. PICK c \in Allocated \cup {ListHead} : CompareWith(c)
    BY <1>3
  <2>2. IsNode(c)
    BY DEF IsNode
  <2>3. /\ Thinner(blocks', blocks) /\ corrupt \subseteq Elems(blocks')
        /\ verdict' \in {"leak", "passed"}
    BY <2>1, <2>2, Compared
  <2> QED
    BY <1>3, <2>3
<1> QED
  BY <1>1, <1>2, <1>3 DEF fail_if_blocks_allocated

\* The check points of the functions, in the order of the group.
LEMMA BeginKeepsInv ==
    ASSUME HeapInv,
           \/ begin_group_setup \/ begin_setup \/ begin_test
           \/ begin_teardown \/ begin_group_teardown
    PROVE  HeapInv'
<1>1. ListInv /\ RunInv /\ PointInv
  BY DEF HeapInv
<1>2. /\ LastNode \in Addresses \cup {ListHead}
      /\ Holds(blocks, born, epoch + 1, LastNode, Taken(epoch + 1))
      /\ Holds(blocks, born, epoch + 1, ListHead, Taken(0))
      /\ \A n \in 0 .. epoch + 1 : Holds(blocks, born, epoch + 1, Null, Taken(n))
  BY <1>1, HoldsTaken
<1>3. epoch \in Nat /\ 0 \in 0 .. epoch + 1 /\ epoch + 1 \in 0 .. epoch + 1
  BY <1>1 DEF ListInv, Ordered
<1>4. tests \in 0 .. MaxTests /\ Null \in CheckPoints /\ LastNode \in CheckPoints
      /\ testCheckPoint \in CheckPoints
  BY <1>1, <1>2 DEF RunInv, CheckPoints
<1>5. ASSUME NextTest PROVE tests' \in 0 .. MaxTests
  BY <1>4, <1>5, MaxTestsAssumption DEF NextTest
<1>6. ASSUME stage \notin Ended
      PROVE  Holds(blocks, born, epoch + 1, testCheckPoint, since.test)
  <2>1. Holds(blocks, born, epoch, testCheckPoint, since.test)
    BY <1>1, <1>6 DEF PointInv
  <2>2. Ordered(blocks, born, epoch)
    BY <1>1 DEF ListInv
  <2> QED
    BY <2>1, <2>2, HoldsLater
<1>7. CASE begin_group_setup
  <2>1. Begin("group_setup", ListHead, Null, Taken(0), Taken(0)) /\ tests' = tests
    BY <1>7 DEF begin_group_setup
  <2>2. Holds(blocks, born, epoch + 1, Null, Taken(0))
    BY <1>2, <1>3
  <2> QED
    BY <1>1, <1>2, <1>4, <2>1, <2>2, BeginningStep
<1>8. CASE begin_setup
  <2>1. /\ Begin("setup", LastNode, LastNode, Taken(epoch + 1), Taken(epoch + 1))
        /\ tests' \in 0 .. MaxTests
    BY <1>5, <1>8 DEF begin_setup
  <2> QED
    BY <1>1, <1>2, <1>4, <2>1, BeginningStep
<1>9. CASE NextTest /\ Begin("test", LastNode, Null, Taken(epoch + 1), Taken(epoch + 1))
  <2>1. tests' \in 0 .. MaxTests
    BY <1>5, <1>9
  <2>2. Holds(blocks, born, epoch + 1, Null, Taken(epoch + 1))
    BY <1>2, <1>3
  <2> QED
    BY <1>1, <1>2, <1>4, <1>9, <2>1, <2>2, BeginningStep
<1>10. CASE /\ stage = "setup" /\ tests' = tests
            /\ Begin("test", LastNode, testCheckPoint, Taken(epoch + 1), since.test)
  <2>1. Holds(blocks, born, epoch + 1, testCheckPoint, since.test)
    BY <1>6, <1>10 DEF Ended
  <2> QED
    BY <1>1, <1>2, <1>4, <1>10, <2>1, BeginningStep
<1>11. CASE begin_teardown
  <2>1. /\ stage = "test" /\ tests' = tests
        /\ Begin("teardown", FixtureCheckPoint(testCheckPoint), testCheckPoint,
                 IF testCheckPoint # Null THEN since.test ELSE Taken(epoch + 1),
                 since.test)
    BY <1>11 DEF begin_teardown
  <2>2. Holds(blocks, born, epoch + 1, testCheckPoint, since.test)
    BY <1>6, <2>1 DEF Ended
  <2>3. CASE testCheckPoint # Null
    <3>1. Begin("teardown", testCheckPoint, testCheckPoint, since.test, since.test)
      BY <2>1, <2>3 DEF FixtureCheckPoint
    <3>2. testCheckPoint \in Addresses \cup {ListHead}
      BY <1>4, <2>3 DEF CheckPoints
    <3> QED
      BY <1>1, <1>4, <2>1, <2>2, <3>1, <3>2, BeginningStep
  <2>4. CASE testCheckPoint = Null
    <3>1. Begin("teardown", LastNode, testCheckPoint, Taken(epoch + 1), since.test)
      BY <2>1, <2>4 DEF FixtureCheckPoint
    <3> QED
      BY <1>1, <1>2, <1>4, <2>1, <2>2, <3>1, BeginningStep
  <2> QED
    BY <2>3, <2>4
<1>12. CASE begin_group_teardown
  <2>1. Begin("group_teardown", ListHead, Null, Taken(0), Taken(0)) /\ tests' = tests
    BY <1>12 DEF begin_group_teardown
  <2>2. Holds(blocks, born, epoch + 1, Null, Taken(0))
    BY <1>2, <1>3
  <2> QED
    BY <1>1, <1>2, <1>4, <2>1, <2>2, BeginningStep
<1>13. ASSUME begin_test PROVE HeapInv'
  BY <1>9, <1>10, <1>13 DEF begin_test
<1> QED
  BY <1>7, <1>8, <1>11, <1>12, <1>13

\* While a function runs, no verdict is given, and none is given by a step that
\* only changes the heap.
LEMMA RunningStep ==
    ASSUME HeapInv, running, ListInv', PointInv', UNCHANGED runVars
    PROVE  HeapInv'
<1>1. /\ stage' = stage /\ running' = running /\ tests' = tests /\ verdict' = verdict
      /\ checkPoint' = checkPoint /\ testCheckPoint' = testCheckPoint
  BY DEF runVars
<1>2. RunInv /\ verdict = "none"
  BY DEF HeapInv, RunInv
<1>3. RunInv'
  BY <1>1, <1>2 DEF RunInv
<1>4. PassedLeavesNothing'
  BY <1>1, <1>2 DEF PassedLeavesNothing
<1> QED
  BY <1>3, <1>4 DEF HeapInv

\* What the running function does to the heap.
LEMMA HeapKeepsInv ==
    ASSUME HeapInv, NEW a \in Addresses, NEW b \in Addresses,
           test_malloc(a) \/ overrun(a) \/ test_free(a) \/ test_realloc(a, b)
    PROVE  HeapInv'
<1>1. /\ ListInv /\ RunInv /\ PointInv
      /\ checkPoint \in CheckPoints /\ testCheckPoint \in CheckPoints
  BY DEF HeapInv, RunInv
<1>2. /\ Ordered(blocks, born, epoch) /\ blocks \in Seq(Addresses)
      /\ NoDuplicates(blocks) /\ corrupt \subseteq Elems(blocks)
  BY <1>1 DEF ListInv, Ordered
<1>3. CASE test_malloc(a)
  <2>1. /\ running /\ Link(a) /\ blocks' = Append(blocks, a)
        /\ UNCHANGED <<corrupt, stage, checkPoint, testCheckPoint, epoch, since>>
        /\ UNCHANGED runVars
    BY <1>3 DEF test_malloc, runVars
  <2>2. ListInv' /\ PointInv'
    BY <1>1, <2>1, AllocatingStep
  <2> QED
    BY <2>1, <2>2, RunningStep
<1>4. CASE overrun(a)
  <2>1. /\ running /\ a \in Elems(blocks) /\ corrupt' = corrupt \cup {a}
        /\ UNCHANGED runVars /\ blocks' = blocks /\ born' = born /\ since' = since
    BY <1>4 DEF overrun, Allocated, Elems
  <2>2. /\ epoch' = epoch /\ stage' = stage /\ checkPoint' = checkPoint
        /\ testCheckPoint' = testCheckPoint
    BY <2>1 DEF runVars
  <2>3. ListInv'
    BY <1>2, <2>1, <2>2 DEF ListInv
  <2>4. PointInv'
    BY <1>1, <2>1, <2>2 DEF PointInv
  <2> QED
    BY <2>1, <2>3, <2>4, RunningStep
<1>5. CASE test_free(a)
  <2>1. /\ running /\ a \in Elems(blocks) /\ a \notin corrupt
        /\ blocks' = Unlink(blocks, a) /\ Lose(blocks)
        /\ UNCHANGED runVars
        /\ UNCHANGED <<corrupt, born, stage, checkPoint, testCheckPoint, epoch>>
    BY <1>5 DEF test_free, Allocated, Elems, GuardsIntact, runVars
  <2>2. PICK s, t : s = blocks /\ t = blocks'
    OBVIOUS
  <2>3. /\ s \in Seq(Addresses) /\ NoDuplicates(s) /\ a \in Elems(s)
        /\ t = Unlink(s, a)
    BY <1>2, <2>1, <2>2
  <2>4. Thinner(t, s) /\ Elems(t) = Elems(s) \ {a}
    BY <2>3, Unlinked
  <2>5. Thinner(blocks', blocks) /\ corrupt \subseteq Elems(blocks')
    BY <1>2, <2>1, <2>2, <2>4
  <2>6. ListInv' /\ PointInv'
    BY <1>1, <2>1, <2>5, FreeingStep
  <2> QED
    BY <2>1, <2>6, RunningStep
<1>6. CASE test_realloc(a, b)
  <2>1. /\ running /\ a \in Elems(blocks) /\ a \notin corrupt
        /\ b \in Addresses \ Elems(blocks) /\ born' = [born EXCEPT ![b] = epoch]
        /\ blocks' = Unlink(Append(blocks, b), a) /\ Lose(Append(blocks, b))
        /\ UNCHANGED runVars
        /\ UNCHANGED <<corrupt, stage, checkPoint, testCheckPoint, epoch>>
    BY <1>6 DEF test_realloc, Link, Allocated, Elems, GuardsIntact, runVars
  <2>2. PICK s, u, t : s = blocks /\ u = Append(s, b) /\ t = blocks'
    OBVIOUS
  <2>3. PICK o, c, e : o = born /\ c = born' /\ e = epoch
    OBVIOUS
  <2>4. /\ Ordered(s, o, e) /\ b \in Addresses \ Elems(s) /\ c = [o EXCEPT ![b] = e]
    BY <1>2, <2>1, <2>2, <2>3
  <2>5. Ordered(u, c, e)
    BY <2>2, <2>4, AppendedOrdered
  <2>6. Elems(u) = Elems(s) \cup {b}
    BY <1>2, <2>2, Appended
  <2>7. /\ u \in Seq(Addresses) /\ NoDuplicates(u) /\ a \in Elems(u)
        /\ t = Unlink(u, a)
    BY <2>1, <2>2, <2>5, <2>6 DEF Ordered
  <2>8. Thinner(t, u) /\ Elems(t) = Elems(u) \ {a}
    BY <2>7, Unlinked
  <2>9. Ordered(t, c, e)
    BY <2>5, <2>8, ThinnerOrdered
  <2>10. ListInv'
    <3>1. corrupt \subseteq Elems(t)
      BY <1>2, <2>1, <2>2, <2>6, <2>8
    <3> QED
      BY <2>1, <2>2, <2>3, <2>9, <3>1 DEF ListInv
  <2>11. PICK p, q, m, n, m1, n1 :
            /\ p = checkPoint /\ q = testCheckPoint
            /\ m = since.body /\ n = since.test
            /\ m1 = since'.body /\ n1 = since'.test
    OBVIOUS
  <2>12. /\ since' = [body |-> m1, test |-> n1]
         /\ m1 \in Notes /\ m1.at = m.at
         /\ ~ m1.lost => ~ m.lost /\ ~ (p \in Elems(s) /\ p \notin Elems(t))
         /\ n1 \in Notes /\ n1.at = n.at
         /\ ~ n1.lost => ~ n.lost /\ ~ (q \in Elems(s) /\ q \notin Elems(t))
    <3>1. PICK list : list = Append(blocks, b)
      OBVIOUS
    <3>2. list \in Seq(Addresses) /\ Elems(blocks) \subseteq Elems(list)
      BY <2>2, <2>6, <2>7, <3>1
    <3>3. Lose(list)
      BY <2>1, <3>1
    <3> QED
      BY <1>1, <2>2, <2>11, <3>2, <3>3, Lost
  <2>13. \A x : x \in Elems(u) /\ x \notin Elems(t) => x \in Elems(s) /\ x \notin Elems(t)
    BY <2>1, <2>2, <2>6, <2>8
  <2>14. ASSUME stage \notin Ended
         PROVE  Holds(t, c, e, p, m1) /\ Holds(t, c, e, q, n1)
    <3>1. Holds(s, o, e, p, m) /\ Holds(s, o, e, q, n)
      BY <1>1, <2>2, <2>3, <2>11, <2>14 DEF PointInv
    <3>2. Holds(u, c, e, p, m) /\ Holds(u, c, e, q, n)
      BY <2>2, <2>4, <3>1, HoldsAppended
    <3>3. p \in CheckPoints /\ q \in CheckPoints
      BY <1>1, <2>11
    <3>4. ~ m1.lost => ~ m.lost /\ ~ (p \in Elems(u) /\ p \notin Elems(t))
      BY <2>12, <2>13
    <3>5. ~ n1.lost => ~ n.lost /\ ~ (q \in Elems(u) /\ q \notin Elems(t))
      BY <2>12, <2>13
    <3>6. Holds(t, c, e, p, m1)
      BY <2>5, <2>8, <2>12, <3>2, <3>3, <3>4, HoldsThinner
    <3>7. Holds(t, c, e, q, n1)
      BY <2>5, <2>8, <2>12, <3>2, <3>3, <3>5, HoldsThinner
    <3> QED
      BY <3>6, <3>7
  <2>15. PointInv'
    BY <2>1, <2>2, <2>3, <2>11, <2>12, <2>14 DEF PointInv
  <2> QED
    BY <2>1, <2>10, <2>15, RunningStep
<1> QED
  BY <1>3, <1>4, <1>5, <1>6

\* Unless the block at its check point was freed, the blocks that the running
\* function leaked are those behind the check point.
LEMMA LeaksAreBehind ==
    ASSUME HeapInv, running, ~ since.body.lost
    PROVE  IsNode(checkPoint) /\ (After(blocks, checkPoint) = <<>> <=> Leaks = {})
<1>1. /\ Ordered(blocks, born, epoch) /\ stage \notin Ended /\ checkPoint # Null
      /\ PointInv
  BY DEF HeapInv, ListInv, RunInv
<1>2. since.body.at \in Nat /\ Divides(blocks, born, checkPoint, since.body.at)
  BY <1>1 DEF PointInv, Holds, Notes
<1>3. /\ checkPoint = ListHead \/ checkPoint \in Elems(blocks)
      /\ After(blocks, checkPoint) = <<>>
            <=> {x \in Elems(blocks) : born[x] >= since.body.at} = {}
  BY <1>1, <1>2, BehindCheckPoint
<1>4. Allocated = Elems(blocks)
  BY DEF Allocated, Elems
<1> QED
  BY <1>3, <1>4 DEF IsNode, Leaks

\* A function of the program ends.
LEMMA EndKeepsInv ==
    ASSUME HeapInv,
           \/ function_returns \/ function_jumps
           \/ \E a, b \in Addresses : test_realloc_fails(a, b)
    PROVE  HeapInv'
<1>1. /\ ListInv /\ RunInv /\ PointInv
      /\ checkPoint \in CheckPoints /\ testCheckPoint \in CheckPoints
  BY DEF HeapInv, RunInv
<1>2. ASSUME running' = FALSE, verdict' \in {"passed", "stopped", "failed", "leak", "fault"},
             UNCHANGED <<stage, tests, checkPoint, testCheckPoint>>
      PROVE  RunInv'
  BY <1>1, <1>2 DEF RunInv
<1>3. CASE function_returns
  <2>1. /\ running /\ running' = FALSE /\ Lose(blocks)
        /\ UNCHANGED <<stage, tests, checkPoint, testCheckPoint>>
        /\ UNCHANGED <<corrupt, born, stage, checkPoint, testCheckPoint, epoch>>
    BY <1>3 DEF function_returns
  <2>2. CASE stage \in {"setup", "group_setup"}
    <3>1. verdict' = "passed" /\ blocks' = blocks
      BY <1>3, <2>2 DEF function_returns
    <3>2. Thinner(blocks', blocks) /\ corrupt \subseteq Elems(blocks')
      BY <1>1, <3>1 DEF Thinner, ListInv, Ordered
    <3>3. ListInv' /\ PointInv'
      BY <1>1, <2>1, <3>2, FreeingStep
    <3>4. RunInv'
      BY <1>2, <2>1, <3>1
    <3>5. PassedLeavesNothing'
      BY <2>1, <2>2 DEF PassedLeavesNothing
    <3> QED
      BY <3>3, <3>4, <3>5 DEF HeapInv
  <2>3. CASE stage \notin {"setup", "group_setup"}
    <3>1. fail_if_blocks_allocated(checkPoint)
      BY <1>3, <2>3 DEF function_returns
    <3>2. /\ Thinner(blocks', blocks)
          /\ corrupt \subseteq Elems(blocks')
          /\ verdict' \in {"leak", "passed", "fault"}
          /\ IsNode(checkPoint) /\ verdict' = "passed" =>
                After(blocks, checkPoint) = <<>> /\ blocks' = blocks
      BY <1>1, <3>1, Failed
    <3>3. ListInv' /\ PointInv'
      BY <1>1, <2>1, <3>2, FreeingStep
    <3>4. RunInv'
      BY <1>2, <2>1, <3>2
    <3>5. ASSUME verdict' = "passed", ~ since'.body.lost PROVE Leaks' = {}
      <4>1. ~ since.body.lost /\ since'.body.at = since.body.at
        <5>1. blocks \in Seq(Addresses)
          BY <1>1 DEF ListInv, Ordered
        <5> QED
          BY <1>1, <2>1, <3>5, <5>1, Lost
      <4>2. IsNode(checkPoint) /\ (After(blocks, checkPoint) = <<>> <=> Leaks = {})
        BY <2>1, <4>1, LeaksAreBehind
      <4>3. Leaks = {} /\ blocks' = blocks
        BY <3>2, <3>5, <4>2
      <4>4. Allocated' = Allocated
        BY <4>3 DEF Allocated
      <4> QED
        BY <2>1, <4>1, <4>3, <4>4 DEF Leaks
    <3>6. PassedLeavesNothing'
      BY <3>5 DEF PassedLeavesNothing
    <3> QED
      BY <3>3, <3>4, <3>6 DEF HeapInv
  <2> QED
    BY <2>2, <2>3
<1>4. CASE function_jumps
  <2>1. /\ running' = FALSE /\ verdict' \in {"failed", "stopped"}
        /\ blocks' = blocks /\ corrupt' = corrupt /\ born' = born
        /\ stage' = stage /\ tests' = tests /\ checkPoint' = checkPoint
        /\ testCheckPoint' = testCheckPoint /\ epoch' = epoch /\ since' = since
    BY <1>4 DEF function_jumps, heapVars
  <2>2. ListInv'
    BY <1>1, <2>1 DEF ListInv
  <2>3. PointInv'
    BY <1>1, <2>1 DEF PointInv
  <2>4. RunInv'
    BY <1>2, <2>1
  <2>5. PassedLeavesNothing'
    BY <2>1 DEF PassedLeavesNothing
  <2> QED
    BY <2>2, <2>3, <2>4, <2>5 DEF HeapInv
<1>5. CASE \E a, b \in Addresses : test_realloc_fails(a, b)
  <2>1. PICK a \in Addresses, b \in Addresses : test_realloc_fails(a, b)
    BY <1>5
  <2>2. /\ Link(b) /\ blocks' = Append(blocks, b) /\ running' = FALSE
        /\ verdict' = "failed"
        /\ UNCHANGED <<stage, tests, checkPoint, testCheckPoint>>
        /\ UNCHANGED <<corrupt, stage, checkPoint, testCheckPoint, epoch, since>>
    BY <2>1 DEF test_realloc_fails
  <2>3. ListInv' /\ PointInv'
    BY <1>1, <2>2, AllocatingStep
  <2>4. RunInv'
    BY <1>2, <2>2
  <2>5. PassedLeavesNothing'
    BY <2>2 DEF PassedLeavesNothing
  <2> QED
    BY <2>3, <2>4, <2>5 DEF HeapInv
<1> QED
  BY <1>3, <1>4, <1>5

\* The last check of the group.
LEMMA GroupEndKeepsInv ==
    ASSUME HeapInv, group_ends
    PROVE  HeapInv'
<1>1. /\ ListInv /\ RunInv /\ PointInv
  BY DEF HeapInv
<1>2. /\ ~ running /\ fail_if_blocks_allocated(ListHead) /\ stage' \in Ended
      /\ corrupt' = corrupt /\ born' = born /\ running' = running /\ tests' = tests
      /\ checkPoint' = checkPoint /\ testCheckPoint' = testCheckPoint
      /\ epoch' = epoch /\ since' = since
  BY DEF group_ends, NoTestPending, Ended
<1>3. /\ Thinner(blocks', blocks) /\ corrupt \subseteq Elems(blocks')
      /\ verdict' \in {"leak", "passed", "fault"}
  BY <1>1, <1>2, Failed
<1>4. ListInv'
  <2>1. PICK s, t, b, e : s = blocks /\ t = blocks' /\ b = born /\ e = epoch
    OBVIOUS
  <2>2. Ordered(s, b, e) /\ Thinner(t, s)
    BY <1>1, <1>3, <2>1 DEF ListInv
  <2>3. Ordered(t, b, e)
    BY <2>2, ThinnerOrdered
  <2> QED
    BY <1>2, <1>3, <2>1, <2>3 DEF ListInv
<1>5. RunInv'
  BY <1>1, <1>2, <1>3 DEF RunInv, Ended
<1>6. PointInv'
  BY <1>1, <1>2 DEF PointInv
<1>7. PassedLeavesNothing'
  BY <1>2 DEF PassedLeavesNothing, Ended
<1> QED
  BY <1>4, <1>5, <1>6, <1>7 DEF HeapInv

\* At the start the heap is empty and no check point is taken.
LEMMA InitHasInv ==
    ASSUME Init
    PROVE  HeapInv
<1>1. /\ blocks = <<>> /\ corrupt = {} /\ born = [a \in Addresses |-> 0]
      /\ stage = "group" /\ running = FALSE /\ tests = 0 /\ verdict = "none"
      /\ checkPoint = Null /\ testCheckPoint = Null /\ epoch = 0
      /\ since = [body |-> Taken(0), test |-> Taken(0)]
  BY DEF Init
<1>2. blocks \in Seq(Addresses) /\ DOMAIN blocks = {}
  BY <1>1
<1>3. Elems(blocks) = {} /\ \A x, y : ~ Precedes(blocks, x, y)
  BY <1>2 DEF Elems, Precedes
<1>4. born \in [Addresses -> Nat] /\ epoch \in Nat
  BY <1>1
<1>5. ListInv
  BY <1>1, <1>2, <1>3, <1>4 DEF ListInv, Ordered, NoDuplicates
<1>6. RunInv
  <2>1. tests \in 0 .. MaxTests
    BY <1>1, MaxTestsAssumption
  <2>2. ~ running /\ running \in BOOLEAN
    BY <1>1
  <2>3. checkPoint \in CheckPoints /\ testCheckPoint \in CheckPoints
    BY <1>1 DEF CheckPoints
  <2> QED
    BY <1>1, <2>1, <2>2, <2>3 DEF RunInv
<1>7. since.body = Taken(0) /\ since.test = Taken(0)
  BY <1>1
<1>8. Taken(0) \in Notes /\ Taken(0).at = 0
  BY DEF Taken, Notes
<1>9. PointInv
  BY <1>1, <1>7, <1>8 DEF PointInv, Holds
<1>10. PassedLeavesNothing
  BY <1>1 DEF PassedLeavesNothing
<1> QED
  BY <1>5, <1>6, <1>9, <1>10 DEF HeapInv

\* Every step keeps the invariant.
LEMMA NextKeepsInv ==
    ASSUME HeapInv, [Next]_vars
    PROVE  HeapInv'
<1>1. CASE Next
  <2>1. CASE \/ begin_group_setup \/ begin_setup \/ begin_test
             \/ begin_teardown \/ begin_group_teardown
    BY <2>1, BeginKeepsInv
  <2>2. CASE group_ends
    BY <2>2, GroupEndKeepsInv
  <2>3. CASE function_returns \/ function_jumps
    BY <2>3, EndKeepsInv
  <2>4. CASE \E a \in Addresses : test_malloc(a) \/ overrun(a) \/ test_free(a)
    BY <2>4, HeapKeepsInv
  <2>5. CASE \E a, b \in Addresses : test_realloc(a, b) \/ test_realloc_fails(a, b)
    <3>1. PICK a \in Addresses, b \in Addresses :
             test_realloc(a, b) \/ test_realloc_fails(a, b)
      BY <2>5
    <3>2. CASE test_realloc(a, b)
      BY <3>2, HeapKeepsInv
    <3>3. CASE test_realloc_fails(a, b)
      BY <3>3, EndKeepsInv
    <3> QED
      BY <3>1, <3>2, <3>3
  <2> QED
    BY <1>1, <2>1, <2>2, <2>3, <2>4, <2>5 DEF Next
<1>2. CASE UNCHANGED vars
  <2>1. /\ blocks' = blocks /\ corrupt' = corrupt /\ born' = born
        /\ stage' = stage /\ running' = running /\ tests' = tests /\ verdict' = verdict
        /\ checkPoint' = checkPoint /\ testCheckPoint' = testCheckPoint
        /\ epoch' = epoch /\ since' = since
    BY <1>2 DEF vars, heapVars, runVars
  <2>2. ListInv'
    BY <2>1 DEF HeapInv, ListInv
  <2>3. RunInv'
    BY <2>1 DEF HeapInv, RunInv
  <2>4. PointInv'
    BY <2>1 DEF HeapInv, PointInv
  <2>5. PassedLeavesNothing'
    <3>1. Allocated' = Allocated
      BY <2>1 DEF Allocated
    <3>2. Leaks' = Leaks
      BY <2>1, <3>1 DEF Leaks
    <3> QED
      BY <2>1, <3>2 DEF HeapInv, PassedLeavesNothing
  <2> QED
    BY <2>2, <2>3, <2>4, <2>5 DEF HeapInv
<1> QED
  BY <1>1, <1>2

\* The type invariant and the fate of corrupt blocks follow from the invariant.
LEMMA InvHasType ==
    ASSUME HeapInv
    PROVE  TypeOK /\ CorruptNeverFreed
<1>1. /\ blocks \in Seq(Addresses) /\ NoDuplicates(blocks) /\ born \in [Addresses -> Nat]
      /\ epoch \in Nat /\ corrupt \subseteq Elems(blocks)
  BY DEF HeapInv, ListInv, Ordered
<1>2. Allocated = Elems(blocks)
  BY DEF Allocated, Elems
<1>3. Cardinality(Allocated) = Len(blocks)
  BY <1>1, <1>2, CountOfBlocks
<1>4. corrupt \subseteq Addresses /\ corrupt \subseteq Allocated
  BY <1>1, <1>2 DEF Elems
<1>5. since \in [body : Notes, test : Notes]
  <2>1. /\ since = [body |-> since.body, test |-> since.test]
        /\ since.body \in Notes /\ since.test \in Notes
    BY DEF HeapInv, PointInv
  <2> QED
    BY <2>1
<1>6. RunInv
  BY DEF HeapInv
<1>7. TypeOK
  BY <1>1, <1>3, <1>4, <1>5, <1>6 DEF TypeOK, RunInv, CheckPoints
<1> QED
  BY <1>4, <1>7 DEF CorruptNeverFreed

-----------------------------------------------------------------------------
(* The theorems.                                                           *)

\* HeapInv is an invariant of every group, for any addresses and any number of
\* tests.
LEMMA HeapInvariant == Spec => []HeapInv
<1>1. Init => HeapInv
  BY InitHasInv
<1>2. HeapInv /\ [Next]_vars => HeapInv'
  BY NextKeepsInv
<1> QED
  BY <1>1, <1>2, PTL DEF Spec

\* Every block is in the list of allocated blocks once, whatever order the
\* program allocates, reallocates and frees in, and a function that runs has a
\* check point, as display_allocated_blocks asserts.
THEOREM TypeCorrect == Spec => []TypeOK
<1>1. HeapInv => TypeOK
  BY InvHasType
<1> QED
  BY <1>1, HeapInvariant, PTL

\* A block whose guard was overwritten stays in the list: neither test_free,
\* test_realloc nor free_allocated_blocks releases it.
THEOREM CorruptStays == Spec => []CorruptNeverFreed
<1>1. HeapInv => CorruptNeverFreed
  BY InvHasType
<1> QED
  BY <1>1, HeapInvariant, PTL

\* A test or teardown function that passes left no block that was allocated
\* since its check point was taken, if the block at that check point was not
\* freed: fail_if_blocks_allocated misses no leak then.
THEOREM PassedIsClean == Spec => []PassedLeavesNothing
<1>1. HeapInv => PassedLeavesNothing
  BY DEF HeapInv
<1> QED
  BY <1>1, HeapInvariant, PTL

\* fail_if_blocks_allocated charges a function with a leak only if one of the
\* blocks allocated since its check point was taken is still there.
THEOREM ChargeIsJust == Spec => ChargedIsLeak
<1> DEFINE Just == (running /\ verdict' = "leak" /\ ~ since.body.lost) => Leaks # {}
<1>1. ASSUME HeapInv, [Next]_vars PROVE Just
  <2> SUFFICES ASSUME running, verdict' = "leak", ~ since.body.lost
               PROVE  Leaks # {}
    OBVIOUS
  <2>1. ListInv /\ verdict = "none"
    BY <1>1 DEF HeapInv, RunInv
  <2>2. fail_if_blocks_allocated(checkPoint)
    <3>1. Next
      BY <1>1, <2>1 DEF vars, runVars
    <3>2. ~ (\/ begin_group_setup \/ begin_setup \/ begin_test
             \/ begin_teardown \/ begin_group_teardown)
      BY DEF begin_group_setup, begin_setup, begin_test, begin_teardown,
             begin_group_teardown, Begin
    <3>3. ~ group_ends /\ ~ function_jumps
      BY DEF group_ends, NoTestPending, function_jumps
    <3>4. ~ \E a \in Addresses : test_malloc(a) \/ overrun(a) \/ test_free(a)
      BY <2>1 DEF test_malloc, overrun, test_free, runVars
    <3>5. ~ \E a, b \in Addresses : test_realloc(a, b) \/ test_realloc_fails(a, b)
      BY <2>1 DEF test_realloc, test_realloc_fails, runVars
    <3>6. function_returns
      BY <3>1, <3>2, <3>3, <3>4, <3>5 DEF Next
    <3> QED
      BY <3>6 DEF function_returns
  <2>3. IsNode(checkPoint) /\ (After(blocks, checkPoint) = <<>> <=> Leaks = {})
    BY <1>1, LeaksAreBehind
  <2>4. After(blocks, checkPoint) # <<>>
    BY <2>1, <2>2, <2>3, Failed
  <2> QED
    BY <2>3, <2>4
<1>2. HeapInv /\ [Next]_vars => [Just]_vars
  BY <1>1
<1> QED
  BY <1>2, HeapInvariant, PTL DEF Spec, ChargedIsLeak
=============================================================================
