--------------------------- MODULE Routines_proofs ---------------------------
(***************************************************************************)
(* Proofs about the checks of values (what a stored check is applied to,   *)
(* what each check accepts, when two floats are equal, what a dump tells)  *)
(* and about the helper routines.  Inductions are over sets of natural     *)
(* numbers.                                                                *)
(***************************************************************************)
EXTENDS ValueChecks, HelperRoutines, TLAPS, NaturalsInduction, WellFoundedInduction,
        FiniteSetTheorems, SequenceTheorems

-----------------------------------------------------------------------------
(* Induction and recursion, with sets in the place of formulas.            *)

\* A set of natural numbers that is not empty has a least element.
LEMMA LeastElement ==
    ASSUME NEW T, T \subseteq Nat, T # {}
    PROVE  \E x \in T : \A y \in T : x <= y
<1> DEFINE R == OpToRel(<, Nat)
<1>1. IsWellFoundedOn(R, Nat)
  BY NatLessThanWellFounded
<1>2. \A x, y \in Nat : y < x => <<y, x>> \in R
  BY DEF OpToRel
<1> HIDE DEF R
<1>3. PICK x \in T : \A y \in T : ~ (<<y, x>> \in R)
  BY <1>1, WFMin
<1>4. ASSUME NEW y \in T PROVE x <= y
  <2>1. x \in Nat /\ y \in Nat
    OBVIOUS
  <2>2. ~ (y < x)
    BY <1>2, <1>3, <2>1
  <2> QED
    BY <2>1, <2>2
<1> QED
  BY <1>4

\* Induction: a set with 0 and the successor of each of its elements.
LEMMA Induction ==
    ASSUME NEW S, 0 \in S, \A n \in Nat : n \in S => n + 1 \in S
    PROVE  \A n \in Nat : n \in S
<1> SUFFICES ASSUME NEW m \in Nat, m \notin S PROVE FALSE
  OBVIOUS
<1> DEFINE T == {n \in Nat : n \notin S}
<1>1. PICK x \in T : \A y \in T : x <= y
  <2>1. T \subseteq Nat /\ T # {}
    OBVIOUS
  <2> HIDE DEF T
  <2> QED
    BY <2>1, LeastElement
<1>2. x \in Nat /\ x \notin S /\ x # 0
  OBVIOUS
<1>3. x - 1 \in Nat /\ (x - 1) + 1 = x
  BY <1>2
<1>4. x - 1 \notin T
  <2>1. ~ (x <= x - 1)
    BY <1>2
  <2> HIDE DEF T
  <2> QED
    BY <1>1, <2>1
<1> QED
  BY <1>2, <1>3, <1>4

\* n steps from a value, each a function of the value before it.
Runs(V, base, n, step) ==
    {f \in [0 .. n -> V] : f[0] = base /\ \A i \in 1 .. n : f[i] = step[i][f[i - 1]]}

\* Recursion: there is such a run.
LEMMA Recursion ==
    ASSUME NEW V, NEW base \in V, NEW n \in Nat,
           NEW step \in [1 .. n -> [V -> V]]
    PROVE  Runs(V, base, n, step) # {}
<1> DEFINE Solves(f, k) == f[0] = base /\ \A i \in 1 .. k : f[i] = step[i][f[i - 1]]
           S == {k \in Nat : k <= n => \E f \in [0 .. k -> V] : Solves(f, k)}
<1>1. 0 \in S
  <2>1. [i \in 0 .. 0 |-> base] \in [0 .. 0 -> V]
    OBVIOUS
  <2>2. Solves([i \in 0 .. 0 |-> base], 0)
    OBVIOUS
  <2> QED
    BY <2>1, <2>2
<1>2. ASSUME NEW k \in Nat, k \in S PROVE k + 1 \in S
  <2> SUFFICES ASSUME k + 1 <= n PROVE \E f \in [0 .. k + 1 -> V] : Solves(f, k + 1)
    OBVIOUS
  <2>1. PICK f \in [0 .. k -> V] : Solves(f, k)
    BY <1>2
  <2> DEFINE g == [i \in 0 .. k + 1 |-> IF i <= k THEN f[i] ELSE step[k + 1][f[k]]]
  <2>2. k \in 0 .. k /\ f[k] \in V /\ step[k + 1] \in [V -> V]
    OBVIOUS
  <2>3. step[k + 1][f[k]] \in V
    BY <2>2
  <2>4. g \in [0 .. k + 1 -> V]
    BY <2>3
  <2>5. Solves(g, k + 1)
    <3>1. g[0] = base
      BY <2>1
    <3>2. ASSUME NEW i \in 1 .. k + 1 PROVE g[i] = step[i][g[i - 1]]
      <4>1. CASE i <= k
        <5>1. i \in 1 .. k /\ g[i] = f[i] /\ g[i - 1] = f[i - 1]
          BY <4>1
        <5> QED
          BY <2>1, <5>1
      <4>2. CASE i = k + 1
        <5>1. g[i] = step[k + 1][f[k]] /\ g[i - 1] = f[k]
          BY <4>2
        <5> QED
          BY <4>2, <5>1
      <4> QED
        BY <4>1, <4>2
    <3> QED
      BY <3>1, <3>2
  <2> HIDE DEF g, Solves
  <2> QED
    BY <2>4, <2>5
<1>3. n \in S
  <2> HIDE DEF S
  <2> QED
    BY <1>1, <1>2, Induction
<1> QED
  BY <1>3 DEF Runs

-----------------------------------------------------------------------------
(* FlattenSeq.                                                             *)

\* The definition of FlattenSeq has a solution.
LEMMA FlattenDef ==
    ASSUME NEW T, NEW ss \in Seq(Seq(T)), Len(ss) # 0
    PROVE  \E f \in [1 .. Len(ss) -> Seq(T)] :
              /\ f[1] = ss[1]
              /\ \A i \in 2 .. Len(ss) : f[i] = f[i - 1] \o ss[i]
              /\ FlattenSeq(ss) = f[Len(ss)]
<1> DEFINE n == Len(ss)
           Body(g) == [i \in 1 .. n |-> IF i = 1 THEN ss[i] ELSE g[i - 1] \o ss[i]]
           flat == CHOOSE g : g = Body(g)
           V == Seq(T)
           step == [i \in 1 .. n |-> [v \in V |-> v \o ss[i]]]
<1>1. n \in Nat /\ n >= 1 /\ \A i \in 1 .. n : ss[i] \in V
  OBVIOUS
<1>2. FlattenSeq(ss) = flat[n]
  BY DEF FlattenSeq
<1> HIDE DEF n
<1>3. step \in [1 .. n -> [V -> V]]
  BY <1>1
<1>4. PICK f \in [0 .. n -> V] : f[0] = <<>> /\ \A i \in 1 .. n : f[i] = step[i][f[i - 1]]
  <2> DEFINE b == <<>>
  <2>1. b \in V
    OBVIOUS
  <2>2. n \in Nat
    BY <1>1
  <2> HIDE DEF V, step, b
  <2>3. Runs(V, b, n, step) # {}
    BY <2>1, <2>2, <1>3, Recursion
  <2> QED
    BY <2>3 DEF Runs, b
<1>5. ASSUME NEW i \in 1 .. n PROVE f[i - 1] \in V /\ f[i] = f[i - 1] \o ss[i]
  <2>1. i - 1 \in 0 .. n
    BY <1>1
  <2>2. f[i - 1] \in V /\ f[i] = step[i][f[i - 1]]
    BY <1>4, <2>1
  <2> HIDE DEF V
  <2> QED
    BY <2>2
<1>6. f[1] = ss[1]
  <2>1. 1 \in 1 .. n /\ 1 - 1 = 0
    BY <1>1
  <2>2. f[1] = f[0] \o ss[1] /\ ss[1] \in V
    BY <1>1, <1>5, <2>1
  <2>3. f[1] = <<>> \o ss[1]
    BY <2>2, <1>4
  <2> QED
    BY <2>2, <2>3
<1> DEFINE g == [i \in 1 .. n |-> f[i]]
<1>7. g = Body(g)
  <2> SUFFICES ASSUME NEW i \in 1 .. n
               PROVE  g[i] = IF i = 1 THEN ss[i] ELSE g[i - 1] \o ss[i]
    OBVIOUS
  <2>1. CASE i = 1
    BY <2>1, <1>6
  <2>2. CASE i # 1
    <3>1. i - 1 \in 1 .. n
      BY <2>2, <1>1
    <3>2. f[i] = f[i - 1] \o ss[i]
      BY <1>5
    <3> QED
      BY <2>2, <3>1, <3>2
  <2> QED
    BY <2>1, <2>2
<1>8. flat = Body(flat)
  <2> HIDE DEF Body, g
  <2> QED
    BY <1>7
<1> HIDE DEF flat, g
<1>9. flat[1] = ss[1] /\ \A i \in 2 .. n : flat[i] = flat[i - 1] \o ss[i]
  <2>1. \A i \in 1 .. n : flat[i] = IF i = 1 THEN ss[i] ELSE flat[i - 1] \o ss[i]
    BY <1>8
  <2>2. 1 \in 1 .. n /\ \A i \in 2 .. n : i \in 1 .. n /\ i # 1
    BY <1>1
  <2> QED
    BY <2>1, <2>2
<1>10. flat \in [1 .. n -> V]
  <2> DEFINE S == {k \in Nat : k + 1 <= n => flat[k + 1] \in V}
  <2>1. 0 \in S
    BY <1>1, <1>9
  <2>2. ASSUME NEW k \in Nat, k \in S PROVE k + 1 \in S
    <3> SUFFICES ASSUME (k + 1) + 1 <= n PROVE flat[(k + 1) + 1] \in V
      OBVIOUS
    <3>1. (k + 1) + 1 \in 2 .. n /\ k + 1 <= n /\ ((k + 1) + 1) - 1 = k + 1
      BY <1>1
    <3>2. flat[(k + 1) + 1] = flat[k + 1] \o ss[(k + 1) + 1]
      BY <1>9, <3>1
    <3>3. flat[k + 1] \in V /\ ss[(k + 1) + 1] \in V
      BY <1>1, <2>2, <3>1
    <3> QED
      BY <3>2, <3>3
  <2>3. \A k \in Nat : k \in S
    <3> HIDE DEF S
    <3> QED
      BY <2>1, <2>2, Induction
  <2>4. ASSUME NEW i \in 1 .. n PROVE flat[i] \in V
    <3>1. i - 1 \in Nat /\ (i - 1) + 1 = i /\ i <= n
      BY <1>1
    <3>2. i - 1 \in S
      BY <2>3, <3>1
    <3> QED
      BY <3>1, <3>2
  <2>5. flat = [i \in 1 .. n |-> flat[i]]
    BY <1>8
  <2> QED
    BY <2>4, <2>5
<1> QED
  BY <1>2, <1>9, <1>10 DEF n

\* FlattenSeq of one sequence more.
LEMMA FlattenAppend ==
    ASSUME NEW T, NEW ss \in Seq(Seq(T)), NEW t \in Seq(T)
    PROVE  FlattenSeq(Append(ss, t)) = FlattenSeq(ss) \o t
<1> DEFINE n == Len(ss)
           tt == Append(ss, t)
<1>1. n \in Nat /\ tt \in Seq(Seq(T)) /\ Len(tt) = n + 1 /\ tt[n + 1] = t
      /\ \A i \in 1 .. n : tt[i] = ss[i]
  OBVIOUS
<1>2. PICK g \in [1 .. n + 1 -> Seq(T)] :
              /\ g[1] = tt[1]
              /\ \A i \in 2 .. n + 1 : g[i] = g[i - 1] \o tt[i]
              /\ FlattenSeq(tt) = g[n + 1]
  <2>1. Len(tt) # 0
    BY <1>1
  <2> HIDE DEF tt, n
  <2>2. \E g \in [1 .. Len(tt) -> Seq(T)] :
              /\ g[1] = tt[1]
              /\ \A i \in 2 .. Len(tt) : g[i] = g[i - 1] \o tt[i]
              /\ FlattenSeq(tt) = g[Len(tt)]
    BY <1>1, <2>1, FlattenDef
  <2> QED
    BY <1>1, <2>2
<1>3. CASE n = 0
  <2>1. FlattenSeq(ss) = ss /\ ss = <<>>
    BY <1>3 DEF FlattenSeq
  <2>2. FlattenSeq(tt) = tt[1] /\ tt[1] = t
    BY <1>1, <1>2, <1>3
  <2> QED
    BY <2>1, <2>2
<1>4. CASE n # 0
  <2>1. PICK f \in [1 .. n -> Seq(T)] :
              /\ f[1] = ss[1]
              /\ \A i \in 2 .. n : f[i] = f[i - 1] \o ss[i]
              /\ FlattenSeq(ss) = f[n]
    BY <1>4, FlattenDef
  <2> HIDE DEF n, tt
  <2> DEFINE S == {k \in Nat : k + 1 <= n => f[k + 1] = g[k + 1]}
  <2>2. 0 \in S
    BY <1>1, <1>2, <1>4, <2>1
  <2>3. ASSUME NEW k \in Nat, k \in S PROVE k + 1 \in S
    <3> SUFFICES ASSUME (k + 1) + 1 <= n PROVE f[(k + 1) + 1] = g[(k + 1) + 1]
      OBVIOUS
    <3> DEFINE m == (k + 1) + 1
    <3>1. m \in 2 .. n /\ m \in 2 .. n + 1 /\ m - 1 = k + 1 /\ m \in 1 .. n /\ k + 1 <= n
      BY <1>1
    <3>2. f[k + 1] = g[k + 1]
      BY <2>3, <3>1
    <3> HIDE DEF m
    <3>3. f[m] = f[m - 1] \o ss[m] /\ g[m] = g[m - 1] \o tt[m] /\ tt[m] = ss[m]
      BY <1>1, <1>2, <2>1, <3>1
    <3> QED
      BY <3>1, <3>2, <3>3 DEF m
  <2>4. n - 1 \in S
    <3>1. n - 1 \in Nat
      BY <1>1, <1>4
    <3> HIDE DEF S
    <3> QED
      BY <2>2, <2>3, <3>1, Induction
  <2>5. f[n] = g[n]
    <3>1. (n - 1) + 1 = n
      BY <1>1
    <3> QED
      BY <2>4, <3>1, <1>1
  <2>6. n + 1 \in 2 .. n + 1 /\ (n + 1) - 1 = n
    BY <1>1, <1>4
  <2>7. g[n + 1] = g[n] \o t
    BY <1>1, <1>2, <2>6
  <2> QED
    BY <1>2, <2>1, <2>5, <2>7 DEF tt
<1> QED
  BY <1>3, <1>4

\* The elements of two sequences in a row.
LEMMA ToSetConcat ==
    ASSUME NEW T, NEW s \in Seq(T), NEW t \in Seq(T)
    PROVE  ToSet(s \o t) = ToSet(s) \cup ToSet(t)
<1>1. DOMAIN s = 1 .. Len(s) /\ DOMAIN t = 1 .. Len(t) /\ Len(s) \in Nat /\ Len(t) \in Nat
      /\ DOMAIN (s \o t) = 1 .. Len(s) + Len(t)
  OBVIOUS
<1>2. ASSUME NEW v \in ToSet(s \o t) PROVE v \in ToSet(s) \cup ToSet(t)
  <2>1. PICK i \in 1 .. Len(s) + Len(t) : v = (s \o t)[i]
    BY <1>1 DEF ToSet
  <2>2. CASE i <= Len(s)
    BY <1>1, <2>1, <2>2 DEF ToSet
  <2>3. CASE i > Len(s)
    <3>1. i - Len(s) \in 1 .. Len(t) /\ v = t[i - Len(s)]
      BY <1>1, <2>1, <2>3
    <3> QED
      BY <1>1, <3>1 DEF ToSet
  <2> QED
    BY <1>1, <2>2, <2>3
<1>3. ASSUME NEW v \in ToSet(s) PROVE v \in ToSet(s \o t)
  <2>1. PICK i \in 1 .. Len(s) : v = s[i]
    BY <1>1 DEF ToSet
  <2>2. i \in 1 .. Len(s) + Len(t) /\ (s \o t)[i] = v
    BY <1>1, <2>1
  <2> QED
    BY <1>1, <2>2 DEF ToSet
<1>4. ASSUME NEW v \in ToSet(t) PROVE v \in ToSet(s \o t)
  <2>1. PICK i \in 1 .. Len(t) : v = t[i]
    BY <1>1 DEF ToSet
  <2>2. i + Len(s) \in 1 .. Len(s) + Len(t) /\ (s \o t)[i + Len(s)] = v
    BY <1>1, <2>1
  <2> QED
    BY <1>1, <2>2 DEF ToSet
<1> QED
  BY <1>2, <1>3, <1>4

\* The elements of FlattenSeq are those of the parts.
LEMMA FlattenElements ==
    ASSUME NEW T, NEW ss \in Seq(Seq(T)), NEW v
    PROVE  v \in ToSet(FlattenSeq(ss)) <=> \E i \in 1 .. Len(ss) : v \in ToSet(ss[i])
<1> DEFINE n == Len(ss)
<1>1. n \in Nat
  OBVIOUS
<1>2. CASE n = 0
  <2>1. FlattenSeq(ss) = <<>>
    BY <1>2 DEF FlattenSeq
  <2> QED
    BY <1>2, <2>1 DEF ToSet
<1>3. CASE n # 0
  <2>1. PICK f \in [1 .. n -> Seq(T)] :
              /\ f[1] = ss[1]
              /\ \A i \in 2 .. n : f[i] = f[i - 1] \o ss[i]
              /\ FlattenSeq(ss) = f[n]
    BY <1>3, FlattenDef
  <2>2. \A i \in 1 .. n : ss[i] \in Seq(T)
    OBVIOUS
  <2> HIDE DEF n
  <2> DEFINE S == {k \in Nat : k + 1 <= n =>
                      (v \in ToSet(f[k + 1]) <=> \E i \in 1 .. k + 1 : v \in ToSet(ss[i]))}
  <2>3. 0 \in S
    BY <2>1
  <2>4. ASSUME NEW k \in Nat, k \in S PROVE k + 1 \in S
    <3> DEFINE m == (k + 1) + 1
    <3> SUFFICES ASSUME m <= n
                 PROVE  v \in ToSet(f[m]) <=> \E i \in 1 .. m : v \in ToSet(ss[i])
      OBVIOUS
    <3>1. m \in 2 .. n /\ m - 1 = k + 1 /\ m \in 1 .. n /\ k + 1 \in 1 .. n /\ m \in Nat
      BY <1>1
    <3>2. v \in ToSet(f[k + 1]) <=> \E i \in 1 .. k + 1 : v \in ToSet(ss[i])
      BY <2>4, <3>1, <1>1
    <3>3. f[m] = f[k + 1] \o ss[m]
      <4> HIDE DEF m
      <4>1. f[m] = f[m - 1] \o ss[m]
        BY <2>1, <3>1
      <4> QED
        BY <3>1, <4>1
    <3>4. 1 .. m = (1 .. k + 1) \cup {m}
      BY <3>1
    <3> HIDE DEF m
    <3>5. ToSet(f[m]) = ToSet(f[k + 1]) \cup ToSet(ss[m])
      <4>1. f[k + 1] \in Seq(T) /\ ss[m] \in Seq(T)
        BY <2>1, <2>2, <3>1
      <4> QED
        BY <3>3, <4>1, ToSetConcat
    <3> QED
      BY <3>2, <3>4, <3>5
  <2>5. n - 1 \in S
    <3>1. n - 1 \in Nat
      BY <1>1, <1>3
    <3> HIDE DEF S
    <3> QED
      BY <2>3, <2>4, <3>1, Induction
  <2>6. (n - 1) + 1 = n /\ n <= n
    BY <1>1
  <2>7. v \in ToSet(f[n]) <=> \E i \in 1 .. n : v \in ToSet(ss[i])
    BY <2>5, <2>6
  <2> QED
    BY <2>1, <2>7 DEF n
<1> QED
  BY <1>2, <1>3

-----------------------------------------------------------------------------
(* Checks of values: the invariant.                                        *)

FloatChecks == {"float", "not_float", "double", "not_double"}

\* What a check is applied to.
Fits(c, x, d) ==
    /\ c \notin FloatChecks
    /\ c \in ArrayChecks \cup MemoryChecks => d \in Seq(Nat)
    /\ c \in MemoryChecks => x \in Seq(Nat) /\ Len(x) = Len(d)
    /\ c \in RangeChecks \cup IntChecks =>
          x \in Words /\ d[1] \in Words /\ d[2] \in Words

\* A stored check has its own data, except a check of a string.
EventInv ==
    event # NoEvent =>
        /\ event.check \in ArrayChecks \cup MemoryChecks \cup StringChecks \cup RangeChecks
                              \cup ValueChecked \cup {"any"}
        /\ IF event.check \in StringChecks THEN event.shared ELSE ~ event.shared
        /\ event.check \in ArrayChecks \cup MemoryChecks =>
              event.data = given /\ event.data \in Seq(Nat)
        /\ event.check \in RangeChecks => event.data[1] \in Words /\ event.data[2] \in Words

\* The result of a check is that of its definition, on data that it can take.
ResultInv ==
    Made => /\ Fits(result.check, result.value, result.data)
            /\ result.ok <=> Accepts(result.check, result.value, result.data)
            /\ result.check \in ArrayChecks \cup MemoryChecks => result.data = given
            /\ result.check = "memory" /\ ~ result.ok =>
                  result.dump = print_data_diff(result.value, result.data)

\* The same for a comparison of floats.
FloatInv ==
    result.check \in FloatChecks =>
        /\ result.left \in Floats /\ result.right \in Floats
        /\ \E e \in Tolerances : result.epsilon = Fin(e)
        /\ (result.ok <=> result.check \in {"float", "double"})
              <=> float_compare(result.left, result.right, result.epsilon)

CheckInv == array \in Seq(Nat) /\ EventInv /\ ResultInv /\ FloatInv

\* Nothing is stored or checked when a test begins.
LEMMA CheckInvInit == Init => CheckInv
<1> SUFFICES ASSUME Init PROVE CheckInv
  OBVIOUS
<1>1. array = <<>> /\ event = NoEvent /\ result = NoResult
  BY DEF Init
<1>2. array \in Seq(Nat)
  BY <1>1
<1>3. ~ Made /\ result.check = "none"
  BY <1>1 DEF Made, NoResult
<1> QED
  BY <1>1, <1>2, <1>3 DEF CheckInv, EventInv, ResultInv, FloatInv, FloatChecks

\* What Apply leaves for the properties to read.
LEMMA ApplyResult ==
    ASSUME CheckInv, NEW c, NEW x, NEW d, Apply(c, x, d), Fits(c, x, d),
           c \in ArrayChecks \cup MemoryChecks => d = given'
    PROVE  ResultInv' /\ FloatInv' /\ array' \in Seq(Nat)
<1>1. array' = <<>> /\ result'.check = c /\ result'.value = x /\ result'.data = d
  BY DEF Apply
<1>2. result'.ok <=> Accepts(c, x, d)
  BY DEF Apply
<1>3. c \notin FloatChecks
  BY DEF Fits
<1>4. ASSUME c = "memory", ~ result'.ok PROVE result'.dump = print_data_diff(x, d)
  <2>1. ~ memory_equal(x, d)
    BY <1>2, <1>4 DEF Accepts
  <2>2. result'.dump = IF c = "memory" /\ ~ memory_equal(x, d)
                       THEN print_data_diff(x, d) ELSE <<>>
    BY DEF Apply
  <2> QED
    BY <1>4, <2>1, <2>2
<1> QED
  BY <1>1, <1>2, <1>3, <1>4 DEF ResultInv, FloatInv

\* A stored check keeps the data it was given.
LEMMA StoreEvent ==
    ASSUME CheckInv, NEW c, NEW d, NEW shared \in BOOLEAN, Store(c, d, shared),
           c \in ArrayChecks \cup MemoryChecks \cup StringChecks \cup RangeChecks
                    \cup ValueChecked \cup {"any"},
           IF c \in StringChecks THEN shared ELSE ~ shared,
           c \in ArrayChecks \cup MemoryChecks => d \in Seq(Nat),
           c \in RangeChecks => d[1] \in Words /\ d[2] \in Words
    PROVE  CheckInv'
<1>1. event'.check = c /\ event'.data = d /\ event'.shared = shared /\ given' = d
  BY DEF Store
<1>2. array' = array /\ result' = result /\ result = NoResult
  BY DEF Store, Ready
<1>3. ~ Made' /\ result'.check = "none"
  BY <1>2 DEF Made, NoResult
<1>4. EventInv'
  BY <1>1 DEF EventInv
<1> QED
  BY <1>2, <1>3, <1>4 DEF CheckInv, ResultInv, FloatInv, FloatChecks

\* An assertion applies its check at once.
LEMMA AssertionResult ==
    ASSUME CheckInv, NEW c, NEW x, NEW d, Assertion(c, x, d), Fits(c, x, d)
    PROVE  CheckInv'
<1>1. Apply(c, x, d) /\ given' = d /\ event' = event /\ event = NoEvent
  BY DEF Assertion, Ready
<1>2. ResultInv' /\ FloatInv' /\ array' \in Seq(Nat)
  BY <1>1, ApplyResult
<1> QED
  BY <1>1, <1>2 DEF CheckInv, EventInv

\* A comparison of floats.
LEMMA ComparedResult ==
    ASSUME CheckInv, NEW c \in FloatChecks, NEW l \in Floats, NEW r \in Floats,
           NEW e \in Tolerances, NEW ok \in BOOLEAN, Compared(c, l, r, Fin(e), ok),
           (ok <=> c \in {"float", "double"}) <=> float_compare(l, r, Fin(e))
    PROVE  CheckInv'
<1>1. /\ result'.check = c /\ result'.left = l /\ result'.right = r
      /\ result'.epsilon = Fin(e) /\ result'.ok = ok
  BY DEF Compared
<1>2. array' = <<>> /\ event' = event /\ event = NoEvent /\ ~ Made'
  BY DEF Compared, Ready, Made
<1>3. FloatInv'
  BY <1>1 DEF FloatInv
<1> QED
  BY <1>2, <1>3 DEF CheckInv, EventInv, ResultInv

-----------------------------------------------------------------------------
\* Every action keeps the invariant.
LEMMA CheckInvNext == CheckInv /\ [Next]_vars => CheckInv'
<1> SUFFICES ASSUME CheckInv, [Next]_vars PROVE CheckInv'
  OBVIOUS
<1>0. array \in Seq(Nat)
  BY DEF CheckInv
<1>1. CASE next_test
  <2>1. Init'
    BY <1>1 DEF next_test, Init
  <2>2. array' \in Seq(Nat) /\ event' = NoEvent /\ ~ Made' /\ result'.check = "none"
    BY <2>1 DEF Init, Made, NoResult
  <2> QED
    BY <2>2 DEF CheckInv, EventInv, ResultInv, FloatInv, FloatChecks
<1>2. ASSUME NEW a \in Arrays, test_writes(a) PROVE CheckInv'
  <2>1. array' \in Seq(Nat) /\ UNCHANGED <<event, given, result>>
    BY <1>2, ArraysAssumption DEF test_writes
  <2> QED
    BY <2>1 DEF CheckInv, EventInv, ResultInv, FloatInv, Made
<1>3. ASSUME NEW c \in ArrayChecks \cup MemoryChecks, expect_set(c) \/ expect_memory(c)
      PROVE  CheckInv'
  <2>1. Store(c, array, FALSE)
    BY <1>3 DEF expect_set, expect_memory
  <2>2. c \notin StringChecks \cup RangeChecks
    BY <1>3 DEF ArrayChecks, MemoryChecks, StringChecks, RangeChecks
  <2> QED
    BY <1>0, <2>1, <2>2, StoreEvent
<1>4. CASE expect_nothing
  <2>1. result' = [check |-> "refused"] /\ UNCHANGED <<array, event, given>>
    BY <1>4 DEF expect_nothing
  <2>2. ~ Made' /\ result'.check = "refused"
    BY <2>1 DEF Made
  <2> QED
    BY <2>1, <2>2 DEF CheckInv, EventInv, ResultInv, FloatInv, FloatChecks
<1>5. ASSUME NEW c \in StringChecks, expect_string(c) PROVE CheckInv'
  <2>1. Store(c, <<>>, TRUE) /\ c \notin ArrayChecks \cup MemoryChecks \cup RangeChecks
    BY <1>5 DEF expect_string, ArrayChecks, MemoryChecks, StringChecks, RangeChecks
  <2> QED
    BY <2>1, StoreEvent
<1>6. CASE expect_any
  <2>1. Store("any", <<>>, FALSE)
    BY <1>6 DEF expect_any
  <2>2. "any" \notin ArrayChecks \cup MemoryChecks \cup StringChecks \cup RangeChecks
    BY DEF ArrayChecks, MemoryChecks, StringChecks, RangeChecks
  <2> QED
    BY <2>1, <2>2, StoreEvent
<1>7. ASSUME NEW lo \in Words, NEW hi \in Words, NEW c \in RangeChecks,
             expect_range(c, lo, hi)
      PROVE  CheckInv'
  <2>1. Store(c, <<lo, hi>>, FALSE) /\ c \notin ArrayChecks \cup MemoryChecks \cup StringChecks
    BY <1>7 DEF expect_range, ArrayChecks, MemoryChecks, StringChecks, RangeChecks
  <2> QED
    BY <2>1, StoreEvent
<1>8. ASSUME NEW v \in Words, NEW c \in ValueChecked, expect_value(c, v) PROVE CheckInv'
  <2>1. Store(c, <<v>>, FALSE)
    BY <1>8 DEF expect_value
  <2>2. c \notin ArrayChecks \cup MemoryChecks \cup StringChecks \cup RangeChecks
    BY <1>8 DEF ArrayChecks, MemoryChecks, StringChecks, RangeChecks, ValueChecked
  <2> QED
    BY <2>1, <2>2, StoreEvent
<1>9. ASSUME NEW c \in MemoryChecks, NEW d, NEW x \in Values(c, d)
       PROVE  x \in Seq(Nat) /\ Len(x) = Len(d)
  <2>1. x \in Arrays \cup {<<>>} /\ Len(x) = Len(d)
    BY DEF Values, MemoryChecks, StringChecks
  <2>2. <<>> \in Seq(Nat)
    OBVIOUS
  <2> QED
    BY <2>1, <2>2, ArraysAssumption
<1>10. CASE check_expected
  <2> DEFINE data == IF event.shared THEN array ELSE event.data
             c    == event.check
  <2>1. PICK x \in Values(c, data) : Apply(c, x, data)
    BY <1>10 DEF check_expected
  <2>2. event # NoEvent /\ event' = NoEvent /\ given' = given
    BY <1>10 DEF check_expected
  <2>3. /\ c \in ArrayChecks \cup MemoryChecks \cup StringChecks \cup RangeChecks
                    \cup ValueChecked \cup {"any"}
        /\ c \in ArrayChecks \cup MemoryChecks =>
              data = given /\ data \in Seq(Nat)
        /\ c \in RangeChecks => data[1] \in Words /\ data[2] \in Words
    BY <2>2 DEF CheckInv, EventInv, ArrayChecks, MemoryChecks, StringChecks, RangeChecks
  <2>4. c \in RangeChecks => x \in Words
    BY <2>1 DEF Values, RangeChecks, StringChecks, MemoryChecks
  <2>5. c \in MemoryChecks => x \in Seq(Nat) /\ Len(x) = Len(data)
    BY <1>9, <2>1
  <2>6. c \notin IntChecks \cup FloatChecks
    BY <2>3 DEF IntChecks, FloatChecks, ArrayChecks, MemoryChecks, StringChecks,
                RangeChecks, ValueChecked
  <2> HIDE DEF data, c
  <2>7. Fits(c, x, data)
    BY <2>3, <2>4, <2>5, <2>6 DEF Fits
  <2>8. ResultInv' /\ FloatInv' /\ array' \in Seq(Nat)
    BY <2>1, <2>2, <2>3, <2>7, ApplyResult
  <2> QED
    BY <2>2, <2>8 DEF CheckInv, EventInv
<1>11. ASSUME NEW x, NEW c \in ArrayChecks \cup MemoryChecks \cup StringChecks,
              Assertion(c, x, array),
              c \in MemoryChecks => x \in Values(c, array)
       PROVE  CheckInv'
  <2>1. Fits(c, x, array)
    BY <1>0, <1>11, <1>9 DEF Fits, FloatChecks, RangeChecks, IntChecks, ArrayChecks, MemoryChecks,
                       StringChecks
  <2> QED
    BY <1>11, <2>1, AssertionResult
<1>12. ASSUME NEW x \in Words, NEW lo \in Words, NEW hi \in Words,
              NEW c \in RangeChecks \cup IntChecks, assert_range(c, x, lo, hi)
       PROVE  CheckInv'
  <2>1. Fits(c, x, <<lo, hi>>)
    BY <1>12 DEF Fits, FloatChecks, RangeChecks, IntChecks, ArrayChecks, MemoryChecks
  <2> QED
    BY <1>12, <2>1, AssertionResult DEF assert_range
<1>13. ASSUME NEW x, NEW d, NEW c \in ValueChecked \cup TruthChecks, Assertion(c, x, d)
       PROVE  CheckInv'
  <2>1. Fits(c, x, d)
    BY <1>13 DEF Fits, FloatChecks, RangeChecks, IntChecks, ArrayChecks, MemoryChecks,
                 ValueChecked, TruthChecks
  <2> QED
    BY <1>13, <2>1, AssertionResult
<1>14. ASSUME NEW l \in Floats, NEW r \in Floats, NEW e \in Tolerances,
              \/ assert_float_equal(l, r, Fin(e)) \/ assert_float_not_equal(l, r, Fin(e))
              \/ assert_double_equal(l, r, Fin(e)) \/ assert_double_not_equal(l, r, Fin(e))
       PROVE  CheckInv'
  <2> DEFINE close == float_compare(l, r, Fin(e))
  <2>1. close \in BOOLEAN
    BY DEF float_compare
  <2>2. \E c \in FloatChecks : \E ok \in BOOLEAN :
           /\ Compared(c, l, r, Fin(e), ok)
           /\ (ok <=> c \in {"float", "double"}) <=> close
    <3>1. \A c \in FloatChecks : c \in {"float", "double"} \/ c \in {"not_float", "not_double"}
      BY DEF FloatChecks
    <3>2. {"float", "double"} \cap {"not_float", "not_double"} = {}
      OBVIOUS
    <3>3. {"float", "double", "not_float", "not_double"} \subseteq FloatChecks
      BY DEF FloatChecks
    <3>4. CASE Compared("float", l, r, Fin(e), close) \/ Compared("double", l, r, Fin(e), close)
      <4>1. \E c \in {"float", "double"} : Compared(c, l, r, Fin(e), close)
        BY <3>4
      <4> HIDE DEF close
      <4> QED
        BY <2>1, <3>3, <4>1
    <3>5. CASE Compared("not_float", l, r, Fin(e), ~ close)
                  \/ Compared("not_double", l, r, Fin(e), ~ close)
      <4>1. \E c \in {"not_float", "not_double"} : Compared(c, l, r, Fin(e), ~ close)
        BY <3>5
      <4> HIDE DEF close
      <4> QED
        BY <2>1, <3>2, <3>3, <4>1
    <3> QED
      BY <1>14, <3>4, <3>5 DEF assert_float_equal, assert_float_not_equal,
             assert_double_equal, assert_double_not_equal, double_compare
  <2> HIDE DEF close
  <2>3. PICK c \in FloatChecks : \E ok \in BOOLEAN :
           /\ Compared(c, l, r, Fin(e), ok)
           /\ (ok <=> c \in {"float", "double"}) <=> close
    BY <2>2
  <2>4. PICK ok \in BOOLEAN :
           /\ Compared(c, l, r, Fin(e), ok)
           /\ (ok <=> c \in {"float", "double"}) <=> close
    BY <2>3
  <2> QED
    BY <2>4, ComparedResult DEF close
<1>15. CASE UNCHANGED vars
  BY <1>15 DEF vars, CheckInv, EventInv, ResultInv, FloatInv, Made
<1>16. CASE Next
  <2>1. CASE \E x \in Words : \E c \in ArrayChecks : assert_set(c, x)
    BY <2>1, <1>11 DEF assert_set, ArrayChecks, MemoryChecks
  <2>2. CASE \E c \in StringChecks : \E x \in Arrays : assert_string(c, x)
    BY <2>2, <1>11 DEF assert_string, StringChecks, MemoryChecks
  <2>3. CASE \E c \in MemoryChecks : \E x \in Values(c, array) : assert_memory(c, x)
    BY <2>3, <1>11 DEF assert_memory
  <2>4. CASE \E x, y \in Words : \E c \in ValueChecked :
                assert_equal(c, x, y) \/ assert_ptr(c, x, y)
    BY <2>4, <1>13 DEF assert_equal, assert_ptr
  <2>5. CASE \E x \in Words : \E c \in TruthChecks : assert_truth(c, x)
    BY <2>5, <1>13 DEF assert_truth
  <2>6. CASE \E c \in ArrayChecks : expect_set(c)
    BY <2>6, <1>3
  <2>7. CASE \E c \in MemoryChecks : expect_memory(c)
    BY <2>7, <1>3
  <2> QED
    BY <1>16, <1>1, <1>2, <1>4, <1>5, <1>6, <1>7, <1>8, <1>10, <1>12, <1>14,
       <2>1, <2>2, <2>3, <2>4, <2>5, <2>6, <2>7 DEF Next
<1> QED
  BY <1>15, <1>16

\* The invariant of every behaviour.
LEMMA CheckInvariant == Spec => []CheckInv
  BY CheckInvInit, CheckInvNext, PTL DEF Spec

-----------------------------------------------------------------------------
(* What the checks accept.                                                 *)

\* The scan of a set answers by membership.  What it returns from element i on
\* is known in closed form, which shows that the recursion has a solution; that
\* the solution is this one is shown at the last element where they would differ.
LEMMA ScanIsMembership ==
    ASSUME NEW x, NEW set \in Seq(Nat), NEW invert \in BOOLEAN
    PROVE  value_in_set(x, set, invert)
              = IF \E i \in 1 .. Len(set) : set[i] = x THEN ~ invert ELSE invert
<1> DEFINE n == Len(set)
           D == 1 .. n + 1
           Found(i) == \E j \in i .. n : set[j] = x
           Body(g) == [i \in D |-> IF i > n THEN invert
                                   ELSE IF set[i] = x THEN ~ invert ELSE g[i + 1]]
           closed == [i \in D |-> IF Found(i) THEN ~ invert ELSE invert]
           scan == CHOOSE g : g = Body(g)
<1>1. n \in Nat
  OBVIOUS
<1>2. value_in_set(x, set, invert) = scan[1]
  BY DEF value_in_set
<1> HIDE DEF n
<1>3. \A i \in D : i > n => ~ Found(i)
  BY <1>1
<1>4. \A i \in D : i <= n => i + 1 \in D /\ (Found(i) <=> set[i] = x \/ Found(i + 1))
  BY <1>1
<1> HIDE DEF Found
<1>5. closed = Body(closed)
  <2> SUFFICES ASSUME NEW i \in D PROVE closed[i] = Body(closed)[i]
    OBVIOUS
  <2>1. CASE i > n
    BY <2>1, <1>3
  <2>2. CASE ~ (i > n)
    <3>1. i <= n
      BY <2>2, <1>1
    <3> QED
      BY <3>1, <2>2, <1>4
  <2> QED
    BY <2>1, <2>2
<1>6. scan = Body(scan)
  <2> HIDE DEF closed, Body
  <2> QED
    BY <1>5
<1> HIDE DEF scan
<1>7. \A i \in D : scan[i] = closed[i]
  <2> SUFFICES ASSUME NEW m \in D, scan[m] # closed[m] PROVE FALSE
    OBVIOUS
  <2> DEFINE Bad == {k \in Nat : \E i \in D : k = n + 1 - i /\ scan[i] # closed[i]}
  <2>1. n + 1 - m \in Bad
    BY <1>1
  <2>2. PICK k \in Bad : \A y \in Bad : k <= y
    BY <2>1, LeastElement
  <2>3. PICK i \in D : k = n + 1 - i /\ scan[i] # closed[i]
    BY <2>2
  <2>4. i <= n
    <3>1. i > n => scan[i] = invert /\ closed[i] = invert
      BY <1>3, <1>6
    <3> QED
      BY <3>1, <2>3, <1>1
  <2>5. i + 1 \in D /\ scan[i + 1] = closed[i + 1]
    <3>1. i + 1 \in D /\ n + 1 - (i + 1) \in Nat /\ n + 1 - (i + 1) < k
      BY <2>3, <2>4, <1>1
    <3>2. scan[i + 1] # closed[i + 1] => n + 1 - (i + 1) \in Bad
      BY <3>1
    <3>3. k \in Nat
      BY <2>2
    <3> HIDE DEF Bad
    <3>4. n + 1 - (i + 1) \notin Bad
      BY <3>1, <3>3, <2>2
    <3> QED
      BY <3>1, <3>2, <3>4
  <2>6. scan[i] = IF set[i] = x THEN ~ invert ELSE scan[i + 1]
    BY <1>1, <1>6, <2>4
  <2> QED
    BY <1>1, <1>4, <2>3, <2>4, <2>5, <2>6
<1>8. 1 \in D
  BY <1>1
<1>9. scan[1] = IF Found(1) THEN ~ invert ELSE invert
  BY <1>7, <1>8
<1> QED
  BY <1>2, <1>9 DEF Found, n

\* Two comparisons of memory that are coded separately: one that stops at a byte
\* that differs, and one that counts the bytes that do not.
LEMMA MemoryNegation ==
    ASSUME NEW a, NEW b \in Seq(Nat)
    PROVE  memory_not_equal(a, b) <=> ~ memory_equal(a, b)
<1> DEFINE D == 1 .. Len(b)
           S == {i \in D : a[i] = b[i]}
<1>1. Len(b) \in Nat /\ DOMAIN b = D
  OBVIOUS
<1>2. IsFiniteSet(D) /\ Cardinality(D) = Len(b)
  <2>1. IsFiniteSet(1 .. Len(b)) /\ Cardinality(1 .. Len(b)) =
           IF 1 > Len(b) THEN 0 ELSE Len(b) - 1 + 1
    BY <1>1, FS_Interval
  <2> QED
    BY <1>1, <2>1
<1>3. Cardinality(S) = Len(b) <=> S = D
  <2>1. S \subseteq D
    OBVIOUS
  <2>2. Cardinality(S) = Cardinality(D) => S = D
    BY <1>2, <2>1, FS_Subset
  <2> QED
    BY <1>2, <2>2
<1>4. memory_equal(a, b) <=> S = D
  BY <1>1 DEF memory_equal
<1>5. memory_not_equal(a, b) <=> Cardinality(S) # Len(b)
  BY <1>1 DEF memory_not_equal
<1> QED
  BY <1>3, <1>4, <1>5

\* A set check accepts its members, its negation the others.
LEMMA SetsAreMembership == CheckInv => SetIsMembership
<1> SUFFICES ASSUME CheckInv, Made, result.check \in ArrayChecks
             PROVE  result.ok <=> ((result.value \in ToSet(result.data))
                                      <=> result.check = "in_set")
  BY DEF SetIsMembership
<1> DEFINE x == result.value
           d == result.data
           found == \E i \in 1 .. Len(d) : d[i] = x
<1>1. d \in Seq(Nat) /\ (result.ok <=> Accepts(result.check, x, d))
  BY DEF CheckInv, ResultInv, Fits
<1>2. x \in ToSet(d) <=> found
  <2>1. DOMAIN d = 1 .. Len(d)
    BY <1>1
  <2> QED
    BY <2>1 DEF ToSet
<1>3. result.check \in {"in_set", "not_in_set"}
  BY DEF ArrayChecks
<1>4. value_in_set(x, d, FALSE) <=> found
  BY <1>1, ScanIsMembership
<1>5. value_in_set(x, d, TRUE) <=> ~ found
  BY <1>1, ScanIsMembership
<1> HIDE DEF x, d, found
<1>6. Accepts("in_set", x, d) <=> value_in_set(x, d, FALSE)
  BY DEF Accepts
<1>7. Accepts("not_in_set", x, d) <=> value_in_set(x, d, TRUE)
  BY DEF Accepts
<1> QED
  BY <1>1, <1>2, <1>3, <1>4, <1>5, <1>6, <1>7 DEF x, d

\* A word read with its sign is an integer, and not more than the word.
LEMMA SignedWords ==
    /\ 2^Width \in Int /\ 2^(Width - 1) \in Int
    /\ \A w \in Words : w \in Int /\ Signed(w) \in Int
<1>1. 2^Width \in Int
  BY WidthAssumption
<1>2. 2^(Width - 1) \in Int
  BY WidthAssumption
<1> QED
  BY <1>1, <1>2 DEF Words, Signed

\* No check agrees with its negation.
LEMMA NegationsAreOpposite == CheckInv => NegationsDisagree
<1> SUFFICES ASSUME CheckInv, Made, NEW p \in Negations, result.check \in {p[1], p[2]}
             PROVE  Accepts(p[1], result.value, result.data)
                       # Accepts(p[2], result.value, result.data)
  BY DEF NegationsDisagree
<1> DEFINE x == result.value
           d == result.data
<1>1. Fits(result.check, x, d)
  BY DEF CheckInv, ResultInv
<1> HIDE DEF x, d
<1>2. CASE p = <<"value", "not_value">>
  BY <1>2 DEF Accepts, values_equal, values_not_equal, x, d
<1>3. CASE p = <<"string", "not_string">>
  BY <1>3 DEF Accepts, string_equal, string_not_equal, x, d
<1>4. CASE p = <<"true", "false">>
  BY <1>4 DEF Accepts, x, d
<1>5. CASE p = <<"in_range", "not_in_range">>
  <2>1. x \in Int /\ d[1] \in Int /\ d[2] \in Int
    BY <1>1, <1>5, SignedWords DEF Fits, RangeChecks
  <2>2. uint_in_range(x, d[1], d[2]) <=> ~ uint_not_in_range(x, d[1], d[2])
    BY <2>1 DEF uint_in_range, uint_not_in_range
  <2> QED
    BY <1>5, <2>2 DEF Accepts, x, d
<1>6. CASE p = <<"int_in_range", "int_not_in_range">>
  <2>1. Signed(x) \in Int /\ Signed(d[1]) \in Int /\ Signed(d[2]) \in Int
    BY <1>1, <1>6, SignedWords DEF Fits, IntChecks
  <2>2. int_in_range(x, d[1], d[2]) <=> ~ int_not_in_range(x, d[1], d[2])
    BY <2>1 DEF int_in_range, int_not_in_range
  <2> QED
    BY <1>6, <2>2 DEF Accepts, x, d
<1>7. CASE p = <<"memory", "not_memory">>
  <2>1. d \in Seq(Nat)
    BY <1>1, <1>7 DEF Fits, MemoryChecks
  <2>2. memory_not_equal(x, d) <=> ~ memory_equal(x, d)
    BY <2>1, MemoryNegation
  <2> QED
    BY <1>7, <2>2 DEF Accepts, x, d
<1> QED
  BY <1>2, <1>3, <1>4, <1>5, <1>6, <1>7 DEF Negations

\* Words of one sign are in the same order with and without it.
LEMMA RangesOfOneSign == CheckInv => RangeOfOneSign
<1> SUFFICES ASSUME CheckInv, Made, result.check = "in_range",
                    Signed(result.data[1]) <= Signed(result.data[2]),
                    (Signed(result.data[1]) < 0) = (Signed(result.data[2]) < 0)
             PROVE  result.ok <=> Signed(result.value)
                                     \in Signed(result.data[1]) .. Signed(result.data[2])
  BY DEF RangeOfOneSign
<1> DEFINE x  == result.value
           lo == result.data[1]
           hi == result.data[2]
           P  == 2^Width
           H  == 2^(Width - 1)
<1>1. x \in Words /\ lo \in Words /\ hi \in Words
  BY DEF CheckInv, ResultInv, Fits, RangeChecks
<1>2. result.ok <=> uint_in_range(x, lo, hi)
  BY DEF CheckInv, ResultInv, Accepts
<1>3. P \in Int /\ H \in Int
  BY SignedWords
<1>4. Words = 0 .. P - 1
  BY DEF Words
<1>5. \A w : Signed(w) = IF w < H THEN w ELSE w - P
  BY DEF Signed
<1>6. (Signed(lo) < 0) = (Signed(hi) < 0) /\ Signed(lo) <= Signed(hi)
  OBVIOUS
<1> HIDE DEF x, lo, hi, P, H
<1>7. lo <= x /\ x <= hi <=> Signed(lo) <= Signed(x) /\ Signed(x) <= Signed(hi)
  BY <1>1, <1>3, <1>4, <1>5, <1>6
<1>8. Signed(x) \in Int /\ Signed(lo) \in Int /\ Signed(hi) \in Int
      /\ x \in Int /\ lo \in Int /\ hi \in Int
  BY <1>1, SignedWords
<1>9. uint_in_range(x, lo, hi) <=> lo <= x /\ x <= hi
  BY <1>8 DEF uint_in_range
<1> QED
  BY <1>2, <1>7, <1>8, <1>9 DEF x, lo, hi

-----------------------------------------------------------------------------
(* Floats.                                                                 *)

AbsoluteValue(i) == IF i >= 0 THEN i ELSE -i
Greater(i, j) == IF i < j THEN j ELSE i

\* The comparisons on what they are needed for.
LEMMA Orders ==
    /\ \A a, b \in Int : Less(Fin(a), Fin(b)) <=> a < b
    /\ \A a, b \in Int : AtMost(Fin(a), Fin(b)) <=> a <= b
    /\ \A a \in Int : Less(Fin(a), Inf(1)) /\ ~ AtMost(Inf(1), Fin(a))
    /\ \A x : ~ Less(x, NaN) /\ ~ Less(NaN, x) /\ ~ AtMost(NaN, x) /\ ~ AtMost(x, NaN)
    /\ ~ Less(Inf(1), Inf(1))
    /\ \A x : ~ Less(Inf(1), x)
<1>1. \A a, b \in Int : Less(Fin(a), Fin(b)) <=> a < b
  BY DEF Less, Fin, Inf, NaN, IsFinite
<1>2. \A a, b \in Int : Fin(a) = Fin(b) <=> a = b
  BY DEF Fin
<1>3. \A a \in Int : Fin(a) # NaN /\ Fin(a) # Inf(1)
  BY DEF Fin, NaN, Inf
<1>4. \A a, b \in Int : AtMost(Fin(a), Fin(b)) <=> a <= b
  BY <1>1, <1>2, <1>3 DEF AtMost
<1>5. Inf(1) # NaN /\ Inf(1) # Inf(-1) /\ ~ IsFinite(Inf(1))
  BY DEF Inf, NaN, IsFinite
<1>6. \A x : ~ Less(Inf(1), x)
  BY <1>5 DEF Less
<1>7. \A a \in Int : Less(Fin(a), Inf(1)) /\ ~ AtMost(Inf(1), Fin(a))
  BY <1>3, <1>5, <1>6 DEF Less, AtMost
<1>8. \A x : ~ Less(x, NaN) /\ ~ Less(NaN, x) /\ ~ AtMost(NaN, x) /\ ~ AtMost(x, NaN)
  BY DEF Less, AtMost
<1> QED
  BY <1>1, <1>4, <1>6, <1>7, <1>8

\* fabs() of finite and other floats.
LEMMA Magnitudes ==
    /\ \A a \in Int : Magnitude(Fin(a)) = Fin(AbsoluteValue(a))
    /\ Magnitude(Inf(1)) = Inf(1) /\ Magnitude(Inf(-1)) = Inf(1) /\ Magnitude(NaN) = NaN
<1>1. \A a \in Int : Negated(Fin(a)) = Fin(-a)
  BY DEF Negated, Fin
<1>2. \A a \in Int : AtMost(Fin(0), Fin(a)) <=> 0 <= a
  BY Orders
<1>3. \A a \in Int : Magnitude(Fin(a)) = Fin(AbsoluteValue(a))
  BY <1>1, <1>2 DEF Magnitude, AbsoluteValue
<1>4. Negated(Inf(-1)) = Inf(1) /\ Negated(NaN) = NaN
  <2>1. -(-1) = 1 /\ -0 = 0
    <3>1. \A i \in Int : -(-i) = i /\ (i + i = 0 => -i = i)
      OBVIOUS
    <3>2. 0 + 0 = 0 /\ 0 \in Int /\ 1 \in Int
      OBVIOUS
    <3> QED
      BY <3>1, <3>2
  <2>2. \A s : Inf(s)[1] = "inf" /\ Inf(s)[2] = s
    BY DEF Inf
  <2>3. NaN[1] = "nan" /\ NaN[2] = 0
    BY DEF NaN
  <2> QED
    BY <2>1, <2>2, <2>3 DEF Negated, Inf, NaN
<1>5. AtMost(Fin(0), Inf(1)) /\ ~ AtMost(Fin(0), NaN)
  BY Orders DEF AtMost
<1>6. ~ AtMost(Fin(0), Inf(-1))
  BY DEF AtMost, Less, Fin, Inf, NaN, IsFinite
<1> QED
  BY <1>3, <1>4, <1>5, <1>6 DEF Magnitude

\* A quotient compares like the product.
LEMMA Quotient ==
    ASSUME NEW M \in Nat, NEW E \in Nat \ {0}, NEW D \in Nat
    PROVE  M \div E \in Int /\ (D <= M \div E <=> D * E <= M)
<1>1. M \div E \in Int
  OBVIOUS
<1>2. D <= M \div E <=> D * E <= M
  OBVIOUS
<1> QED
  BY <1>1, <1>2

\* Of two finite floats the comparison decides by their distance, also where
\* the difference is beyond the largest float.
LEMMA FiniteFloats ==
    ASSUME NEW i \in -MaxFloat .. MaxFloat, NEW j \in -MaxFloat .. MaxFloat,
           NEW e \in Tolerances
    PROVE  float_compare(Fin(i), Fin(j), Fin(e)) <=>
              \/ AbsoluteValue(i - j) <= e
              \/ AbsoluteValue(i - j) * EpsilonInverse
                    <= Greater(AbsoluteValue(i), AbsoluteValue(j))
<1> DEFINE D == AbsoluteValue(i - j)
           M == Greater(AbsoluteValue(i), AbsoluteValue(j))
           E == EpsilonInverse
           diff == Magnitude(Minus(Fin(i), Fin(j)))
<1>1. /\ MaxFloat \in Nat /\ E \in Nat \ {0} /\ e \in Nat /\ e <= MaxFloat
      /\ i \in Int /\ j \in Int /\ i - j \in Int
  BY FloatAssumption
<1>2. D \in Nat /\ M \in Nat /\ M <= MaxFloat
  BY <1>1 DEF AbsoluteValue, Greater
<1>3. Minus(Fin(i), Fin(j)) = Rounded(i - j)
  <2>1. NaN \notin {Fin(i), Fin(j)} /\ ~ IsInfinite(Fin(i)) /\ ~ IsInfinite(Fin(j))
    BY DEF NaN, Fin, IsInfinite
  <2>2. Fin(i)[2] = i /\ Fin(j)[2] = j
    BY DEF Fin
  <2> QED
    BY <2>1, <2>2 DEF Minus
<1>4. diff = IF D > MaxFloat THEN Inf(1) ELSE Fin(D)
  <2>1. CASE i - j > MaxFloat
    BY <2>1, <1>1, <1>3, Magnitudes DEF Rounded, AbsoluteValue
  <2>2. CASE i - j < -MaxFloat
    BY <2>2, <1>1, <1>3, Magnitudes DEF Rounded, AbsoluteValue
  <2>3. CASE ~ (i - j > MaxFloat) /\ ~ (i - j < -MaxFloat)
    <3>1. diff = Fin(D)
      BY <2>3, <1>1, <1>3, Magnitudes DEF Rounded
    <3>2. ~ (D > MaxFloat)
      BY <2>3, <1>1 DEF AbsoluteValue
    <3> QED
      BY <3>1, <3>2
  <2> QED
    BY <2>1, <2>2, <2>3
<1>5. Largest(Fin(i), Fin(j)) = Fin(M)
  <2>1. /\ Magnitude(Fin(i)) = Fin(AbsoluteValue(i))
        /\ Magnitude(Fin(j)) = Fin(AbsoluteValue(j))
    BY <1>1, Magnitudes
  <2>2. AbsoluteValue(i) \in Int /\ AbsoluteValue(j) \in Int
    BY <1>1 DEF AbsoluteValue
  <2>3. Less(Fin(AbsoluteValue(i)), Fin(AbsoluteValue(j)))
           <=> AbsoluteValue(i) < AbsoluteValue(j)
    BY <2>2, Orders
  <2> QED
    BY <2>1, <2>3 DEF Largest, Greater
<1>6. TimesEpsilon(Largest(Fin(i), Fin(j))) = Fin(M \div E)
  <2> HIDE DEF M, E
  <2>1. IsFinite(Fin(M)) /\ Fin(M)[2] = M
    BY DEF IsFinite, Fin
  <2> QED
    BY <1>5, <2>1 DEF TimesEpsilon, E
<1>7. M \div E \in Int /\ (D <= M \div E <=> D * E <= M)
  BY <1>1, <1>2, Quotient
<1>8. float_compare(Fin(i), Fin(j), Fin(e)) <=>
         AtMost(diff, Fin(e)) \/ ~ Less(Fin(M \div E), diff)
  BY <1>6 DEF float_compare
<1>9. D * E <= M => D <= M
  <2> HIDE DEF D, M, E
  <2>1. D * E >= D
    BY <1>1, <1>2
  <2> QED
    BY <1>1, <1>2, <2>1
<1> HIDE DEF D, M, E, diff
<1>10. CASE D > MaxFloat
  <2>1. ~ (D <= e) /\ ~ (D * E <= M)
    BY <1>10, <1>1, <1>2, <1>9
  <2>2. ~ AtMost(diff, Fin(e)) /\ Less(Fin(M \div E), diff)
    BY <1>10, <1>1, <1>4, <1>7, Orders
  <2> QED
    BY <1>8, <2>1, <2>2 DEF D, M, E
<1>11. CASE ~ (D > MaxFloat)
  <2>1. AtMost(diff, Fin(e)) <=> D <= e
    BY <1>11, <1>1, <1>2, <1>4, Orders
  <2>2. Less(Fin(M \div E), diff) <=> M \div E < D
    BY <1>11, <1>1, <1>2, <1>4, <1>7, Orders
  <2>3. ~ (M \div E < D) <=> D * E <= M
    BY <1>2, <1>7
  <2> QED
    BY <1>8, <2>1, <2>2, <2>3 DEF D, M, E
<1> QED
  BY <1>10, <1>11

\* The maximum of two integers, as the property takes it.
LEMMA MaxOfTwo ==
    /\ \A i \in Int : Max({i, -i}) = AbsoluteValue(i)
    /\ \A i, j \in Int : Max({i, j}) = Greater(i, j)
<1>1. ASSUME NEW i \in Int, NEW j \in Int PROVE Max({i, j}) = Greater(i, j)
  <2>1. Greater(i, j) \in {i, j} /\ \A y \in {i, j} : Greater(i, j) >= y
    BY DEF Greater
  <2>2. Max({i, j}) \in {i, j} /\ \A y \in {i, j} : Max({i, j}) >= y
    <3> DEFINE IsMax(x) == x \in {i, j} /\ \A y \in {i, j} : x >= y
    <3>1. \E x : IsMax(x)
      BY <2>1
    <3>2. Max({i, j}) = CHOOSE x \in {i, j} : \A y \in {i, j} : x >= y
      BY DEF Max
    <3> QED
      BY <3>1, <3>2
  <2> QED
    BY <2>1, <2>2
<1>2. ASSUME NEW i \in Int PROVE Max({i, -i}) = AbsoluteValue(i)
  <2>1. -i \in Int /\ Greater(i, -i) = AbsoluteValue(i)
    BY DEF Greater, AbsoluteValue
  <2> QED
    BY <1>1, <2>1
<1> QED
  BY <1>1, <1>2

\* Every comparison of floats that was made is the one the property describes.
LEMMA FloatsAreClose == CheckInv => FloatIsClose
<1> SUFFICES ASSUME CheckInv, result.check \in FloatChecks,
                    IsFinite(result.left), IsFinite(result.right)
             PROVE  FloatIsClose
  BY DEF FloatIsClose, FloatChecks
<1> DEFINE l == result.left
           r == result.right
           Abs(i) == Max({i, -i})
           Distance == Abs(l[2] - r[2])
           close == \/ Distance <= result.epsilon[2]
                    \/ Distance * EpsilonInverse <= Max({Abs(l[2]), Abs(r[2])})
<1>1. l \in Floats /\ r \in Floats
      /\ ((result.ok <=> result.check \in {"float", "double"})
              <=> float_compare(l, r, result.epsilon))
  BY DEF CheckInv, FloatInv
<1>2. PICK e \in Tolerances : result.epsilon = Fin(e)
  BY DEF CheckInv, FloatInv
<1>3. float_compare(l, r, result.epsilon) <=> close
  <2>1. \A x \in Floats : IsFinite(x) => \E i \in -MaxFloat .. MaxFloat : x = Fin(i)
    BY DEF Floats, IsFinite, NaN, Inf
  <2>2. PICK i \in -MaxFloat .. MaxFloat : l = Fin(i)
    BY <1>1, <2>1
  <2>3. PICK j \in -MaxFloat .. MaxFloat : r = Fin(j)
    BY <1>1, <2>1
  <2>4. l[2] = i /\ r[2] = j /\ result.epsilon[2] = e
    BY <1>2, <2>2, <2>3 DEF Fin
  <2>5. i \in Int /\ j \in Int /\ i - j \in Int
    BY FloatAssumption
  <2>6. /\ Max({i, -i}) = AbsoluteValue(i) /\ Max({j, -j}) = AbsoluteValue(j)
        /\ Max({i - j, -(i - j)}) = AbsoluteValue(i - j)
    BY <2>5, MaxOfTwo
  <2>7. AbsoluteValue(i) \in Int /\ AbsoluteValue(j) \in Int
    BY <2>5 DEF AbsoluteValue
  <2>8. Max({AbsoluteValue(i), AbsoluteValue(j)})
           = Greater(AbsoluteValue(i), AbsoluteValue(j))
    BY <2>7, MaxOfTwo
  <2>9. close <=> \/ AbsoluteValue(i - j) <= e
                  \/ AbsoluteValue(i - j) * EpsilonInverse
                        <= Greater(AbsoluteValue(i), AbsoluteValue(j))
    BY <2>4, <2>6, <2>8
  <2> QED
    BY <1>2, <2>2, <2>3, <2>9, FiniteFloats
<1> QED
  BY <1>1, <1>3 DEF FloatIsClose

-----------------------------------------------------------------------------
(* Checks of values: the dump of unequal memory.                           *)

\* The first byte is 0 and every byte is the next one: all of them are 0.
LEMMA AllZero ==
    ASSUME NEW buf \in Seq(Nat), all_zero(buf)
    PROVE  \A i \in 1 .. Len(buf) : buf[i] = 0
<1> DEFINE n == Len(buf)
           S == {k \in Nat : k + 1 <= n => buf[k + 1] = 0}
<1>1. n \in Nat
  OBVIOUS
<1>2. n >= 1 => buf[1] = 0 /\ \A i \in 1 .. n - 1 : buf[i] = buf[i + 1]
  BY DEF all_zero
<1>3. 0 \in S
  BY <1>1, <1>2
<1> HIDE DEF n
<1>4. ASSUME NEW k \in Nat, k \in S PROVE k + 1 \in S
  <2> SUFFICES ASSUME (k + 1) + 1 <= n PROVE buf[(k + 1) + 1] = 0
    OBVIOUS
  <2>1. k + 1 \in 1 .. n - 1 /\ n >= 1 /\ k + 1 <= n
    BY <1>1
  <2>2. buf[k + 1] = 0 /\ buf[k + 1] = buf[(k + 1) + 1]
    BY <1>2, <1>4, <2>1
  <2> QED
    BY <2>2
<1>5. \A k \in Nat : k \in S
  <2> HIDE DEF S
  <2> QED
    BY <1>3, <1>4, Induction
<1>6. ASSUME NEW i \in 1 .. n PROVE buf[i] = 0
  <2>1. i - 1 \in Nat /\ (i - 1) + 1 = i /\ i <= n
    BY <1>1
  <2>2. i - 1 \in S
    BY <1>5, <2>1
  <2> QED
    BY <2>1, <2>2
<1> QED
  BY <1>6 DEF n

\* A dump has a line for every started block, numbered from 0.
LEMMA LinesOfDump ==
    ASSUME NEW len \in Nat \ {0}
    PROVE  /\ (len - 1) \div BlockSize \in Nat
           /\ DumpLines(len) = 0 .. (len - 1) \div BlockSize
           /\ Cardinality(DumpLines(len)) = ((len - 1) \div BlockSize) + 1
<1> DEFINE B == BlockSize
           q == (len - 1) \div B
<1>1. B \in Nat \ {0}
  BY WidthAssumption
<1>2. len - 1 \in Nat /\ len \in Nat
  OBVIOUS
<1>3. q \in Int /\ len \div B \in Int
      /\ \A n \in Nat : (n <= q <=> n * B <= len - 1) /\ (n <= len \div B <=> n * B <= len)
  <2> HIDE DEF B
  <2> QED
    BY <1>1, <1>2, Quotient
<1> HIDE DEF B, q
<1>4. q \in Nat
  <2>1. 0 * B = 0
    BY <1>1
  <2> QED
    BY <1>2, <1>3, <2>1
<1>5. ASSUME NEW n \in Nat PROVE n <= q <=> n <= len \div B /\ n * B < len
  <2>1. n * B \in Nat
    BY <1>1
  <2> QED
    BY <1>2, <1>3, <2>1
<1>6. DumpLines(len) = 0 .. q
  <2>1. DumpLines(len) = {n \in 0 .. len \div B : n * B < len}
    BY DEF DumpLines, B
  <2> QED
    BY <1>3, <1>4, <1>5, <2>1
<1>7. Cardinality(0 .. q) = q + 1
  <2>1. Cardinality(0 .. q) = IF 0 > q THEN 0 ELSE q - 0 + 1
    BY <1>4, FS_Interval
  <2> QED
    BY <1>4, <2>1
<1> QED
  BY <1>4, <1>6, <1>7 DEF q, B

\* Byte i is in line (i - 1) \div BlockSize, and no line is empty.
LEMMA BytesOfLine ==
    ASSUME NEW buf \in Seq(Nat), NEW i \in 1 .. Len(buf)
    PROVE  LET n == (i - 1) \div BlockSize IN
           /\ n \in DumpLines(Len(buf))
           /\ Line(buf, n) \in Seq(Nat)
           /\ i - n * BlockSize \in 1 .. Len(Line(buf, n))
           /\ Line(buf, n)[i - n * BlockSize] = buf[i]
<1> DEFINE B == BlockSize
           len == Len(buf)
           n == (i - 1) \div B
           last == IF (n + 1) * B < len THEN (n + 1) * B ELSE len
<1>1. B \in Nat \ {0} /\ len \in Nat \ {0} /\ i \in 1 .. len /\ i - 1 \in Nat
  BY WidthAssumption
<1>2. n \in Nat /\ n * B <= i - 1 /\ i - 1 < (n + 1) * B
  <2>1. n \in Int /\ \A m \in Nat : m <= n <=> m * B <= i - 1
    <3> HIDE DEF B
    <3> QED
      BY <1>1, Quotient
  <2> HIDE DEF B, n
  <2>2. 0 * B <= i - 1
    BY <1>1
  <2>3. n \in Nat
    <3>1. 0 <= n
      BY <2>1, <2>2
    <3> QED
      BY <2>1, <3>1
  <2>4. n + 1 \in Nat /\ ~ (n + 1 <= n) /\ (n + 1) * B \in Nat
    BY <1>1, <2>3
  <2> QED
    BY <1>1, <2>1, <2>3, <2>4
<1>3. n \in DumpLines(len)
  <2>1. (len - 1) \div B \in Int /\ (n <= (len - 1) \div B <=> n * B <= len - 1)
    <3>1. len - 1 \in Nat
      BY <1>1
    <3> HIDE DEF B, n, len
    <3> QED
      BY <1>1, <1>2, <3>1, Quotient
  <2>2. n * B \in Nat
    BY <1>1, <1>2
  <2>3. n * B <= len - 1
    <3> HIDE DEF B, n, len
    <3> QED
      BY <1>1, <1>2, <2>2
  <2>4. DumpLines(len) = 0 .. (len - 1) \div B
    <3> HIDE DEF len
    <3> QED
      BY <1>1, LinesOfDump DEF B
  <2> QED
    BY <1>2, <2>1, <2>3, <2>4
<1>4. Line(buf, n) = SubSeq(buf, n * B + 1, last)
  BY DEF Line
<1> HIDE DEF B, n, len
<1>5. n * B \in Nat /\ (n + 1) * B \in Nat
  BY <1>1, <1>2
<1>6. last \in n * B + 1 .. len /\ i <= last /\ n * B + 1 \in 1 .. len + 1
      /\ i - n * B \in 1 .. (last - n * B)
  BY <1>1, <1>2, <1>5
<1> HIDE DEF last
<1>7. /\ SubSeq(buf, n * B + 1, last) \in Seq(Nat)
      /\ Len(SubSeq(buf, n * B + 1, last)) = last - n * B
      /\ \A j \in 1 .. last - n * B : SubSeq(buf, n * B + 1, last)[j] = buf[(n * B + 1) + j - 1]
  <2> DEFINE m == n * B + 1
  <2>1. m \in Nat /\ last \in Nat /\ m <= last /\ last - n * B = last - m + 1
        /\ \A j \in m .. last : j \in 1 .. len
    <3> DEFINE c == n * B
    <3>1. c \in Nat /\ last \in c + 1 .. len /\ m = c + 1
      BY <1>5, <1>6
    <3> HIDE DEF c, m
    <3>2. m \in Nat /\ last \in Nat /\ m <= last /\ last - c = last - m + 1
          /\ \A j \in m .. last : j \in 1 .. len
      BY <1>1, <3>1
    <3> QED
      BY <3>2 DEF c
  <2> HIDE DEF m
  <2>2. /\ SubSeq(buf, m, last) \in Seq(Nat)
        /\ Len(SubSeq(buf, m, last)) = last - m + 1
        /\ \A j \in 1 .. last - m + 1 : SubSeq(buf, m, last)[j] = buf[m + j - 1]
    <3>1. \A j \in m .. last : buf[j] \in Nat
      BY <2>1 DEF len
    <3>2. m \in Int /\ last \in Int
      BY <2>1
    <3>3. /\ SubSeq(buf, m, last) \in Seq(Nat)
          /\ Len(SubSeq(buf, m, last)) = IF m <= last THEN last - m + 1 ELSE 0
          /\ \A j \in 1 .. last - m + 1 : SubSeq(buf, m, last)[j] = buf[m + j - 1]
      BY <3>1, <3>2, SubSeqProperties
    <3> QED
      BY <2>1, <3>3
  <2> QED
    BY <2>1, <2>2 DEF m
<1>8. (n * B + 1) + (i - n * B) - 1 = i
  BY <1>1, <1>5
<1> QED
  BY <1>3, <1>4, <1>6, <1>7, <1>8 DEF n, B, len

\* No line of a dump is empty.
LEMMA LineNotEmpty ==
    ASSUME NEW buf \in Seq(Nat), NEW n \in DumpLines(Len(buf))
    PROVE  Line(buf, n) # <<>>
<1> DEFINE B == BlockSize
           i == n * B + 1
<1>1. B \in Nat \ {0} /\ n \in Nat /\ Len(buf) \in Nat /\ n * B < Len(buf)
  <2>1. BlockSize \in Nat \ {0} /\ Len(buf) \in Nat
    BY WidthAssumption
  <2>2. n \in 0 .. Len(buf) \div BlockSize /\ n * BlockSize < Len(buf)
    BY DEF DumpLines
  <2>3. Len(buf) \div BlockSize \in Int
    BY <2>1
  <2> QED
    BY <2>1, <2>2, <2>3
<1> HIDE DEF B
<1>2. n * B \in Nat
  BY <1>1
<1>3. i \in 1 .. Len(buf) /\ i - 1 = n * B
  BY <1>1, <1>2
<1>4. (n * B) \div B = n
  BY <1>1
<1>5. i - n * B \in 1 .. Len(Line(buf, n))
  <2> HIDE DEF i
  <2>1. LET m == (i - 1) \div B IN i - m * B \in 1 .. Len(Line(buf, m))
    BY <1>3, BytesOfLine DEF B
  <2> QED
    BY <1>3, <1>4, <2>1
<1> SUFFICES ASSUME Line(buf, n) = <<>> PROVE FALSE
  OBVIOUS
<1>6. Len(Line(buf, n)) = 0
  OBVIOUS
<1> QED
  BY <1>5, <1>6

\* What can be printed for line n.
LineMarks(a, b, n) ==
    IF IsSkipped(a, b, n)
    THEN IF IsSkipped(a, b, n - 1) THEN {} ELSE {SkippingZeros}
    ELSE IF Line(a, n) = Line(b, n)
    THEN {<<"equal", n, Line(a, n)>>}
    ELSE {<<"minus", n, Line(a, n)>>, <<"plus", n, Line(b, n)>>}

\* The dump consists of what is printed for each of its lines.
LEMMA ElementsOfDump ==
    ASSUME NEW a \in Seq(Nat), NEW b \in Seq(Nat), Len(b) # 0
    PROVE  \A p : p \in ToSet(print_data_diff(a, b))
                     <=> \E n \in DumpLines(Len(b)) : p \in LineMarks(a, b, n)
<1> SUFFICES ASSUME NEW p
             PROVE  p \in ToSet(print_data_diff(a, b))
                       <=> \E n \in DumpLines(Len(b)) : p \in LineMarks(a, b, n)
  OBVIOUS
<1> DEFINE q == (Len(b) - 1) \div BlockSize
           T == UNION {LineMarks(a, b, n) : n \in DumpLines(Len(b))}
           ss == [k \in 1 .. q + 1 |-> LinePrinted(a, b, k - 1)]
<1>1. q \in Nat /\ DumpLines(Len(b)) = 0 .. q /\ Cardinality(DumpLines(Len(b))) = q + 1
  <2>1. Len(b) \in Nat \ {0}
    OBVIOUS
  <2> QED
    BY <2>1, LinesOfDump
<1> HIDE DEF q
<1>2. print_data_diff(a, b) = FlattenSeq(ss)
  BY <1>1 DEF print_data_diff
<1>3. ASSUME NEW n \in DumpLines(Len(b))
      PROVE  LinePrinted(a, b, n) \in Seq(T) /\ ToSet(LinePrinted(a, b, n)) = LineMarks(a, b, n)
  <2>1. LineMarks(a, b, n) \subseteq T
    OBVIOUS
  <2> HIDE DEF T
  <2>2. n > 0 \/ ~ IsSkipped(a, b, n)
    BY DEF IsSkipped
  <2>3. \A u, v : ToSet(<<u>>) = {u} /\ ToSet(<<u, v>>) = {u, v} /\ ToSet(<<>>) = {}
    BY DEF ToSet
  <2>4. \A u, v \in T : <<u>> \in Seq(T) /\ <<u, v>> \in Seq(T)
    OBVIOUS
  <2>5. <<>> \in Seq(T)
    OBVIOUS
  <2>6. CASE IsSkipped(a, b, n) /\ IsSkipped(a, b, n - 1)
    BY <2>2, <2>3, <2>5, <2>6 DEF LinePrinted, LineMarks
  <2>7. CASE IsSkipped(a, b, n) /\ ~ IsSkipped(a, b, n - 1)
    <3>1. LinePrinted(a, b, n) = <<SkippingZeros>> /\ LineMarks(a, b, n) = {SkippingZeros}
      BY <2>7 DEF LinePrinted, LineMarks
    <3> QED
      BY <2>1, <2>3, <2>4, <3>1
  <2>8. CASE ~ IsSkipped(a, b, n) /\ Line(a, n) = Line(b, n)
    <3> DEFINE u == <<"equal", n, Line(a, n)>>
    <3>1. LinePrinted(a, b, n) = <<u>> /\ LineMarks(a, b, n) = {u}
      BY <2>8 DEF LinePrinted, LineMarks, print_data_block16
    <3> HIDE DEF u
    <3> QED
      BY <2>1, <2>3, <2>4, <3>1
  <2>9. CASE ~ IsSkipped(a, b, n) /\ Line(a, n) # Line(b, n)
    <3> DEFINE u == <<"minus", n, Line(a, n)>>
               v == <<"plus", n, Line(b, n)>>
    <3>1. LinePrinted(a, b, n) = <<u, v>> /\ LineMarks(a, b, n) = {u, v}
      BY <2>9 DEF LinePrinted, LineMarks, print_data_block16
    <3> HIDE DEF u, v
    <3> QED
      BY <2>1, <2>3, <2>4, <3>1
  <2> QED
    BY <2>6, <2>7, <2>8, <2>9
<1> HIDE DEF T
<1>4. \A k \in 1 .. q + 1 : k - 1 \in DumpLines(Len(b))
  BY <1>1
<1>5. ss \in Seq(Seq(T)) /\ Len(ss) = q + 1
  <2>1. \A k \in 1 .. q + 1 : LinePrinted(a, b, k - 1) \in Seq(T)
    BY <1>3, <1>4
  <2>2. q + 1 \in Nat
    BY <1>1
  <2>3. ss \in [1 .. q + 1 -> Seq(T)]
    BY <2>1
  <2> HIDE DEF ss
  <2> QED
    BY <2>2, <2>3
<1>6. \A k \in 1 .. q + 1 : ToSet(ss[k]) = LineMarks(a, b, k - 1)
  BY <1>3, <1>4
<1> HIDE DEF ss
<1>7. p \in ToSet(FlattenSeq(ss)) <=> \E k \in 1 .. q + 1 : p \in ToSet(ss[k])
  BY <1>5, FlattenElements
<1>8. (\E k \in 1 .. q + 1 : p \in LineMarks(a, b, k - 1))
         <=> \E n \in DumpLines(Len(b)) : p \in LineMarks(a, b, n)
  <2>1. ASSUME NEW n \in DumpLines(Len(b)), p \in LineMarks(a, b, n)
        PROVE  \E k \in 1 .. q + 1 : p \in LineMarks(a, b, k - 1)
    <3>1. n + 1 \in 1 .. q + 1 /\ (n + 1) - 1 = n
      BY <1>1
    <3> QED
      BY <2>1, <3>1
  <2> QED
    BY <1>4, <2>1
<1> QED
  BY <1>2, <1>6, <1>7, <1>8

\* A reader finds byte i of a buffer c in the lines printed with its mark.
LEMMA ReadBackByte ==
    ASSUME NEW a \in Seq(Nat), NEW b \in Seq(Nat), Len(a) = Len(b),
           NEW i \in 1 .. Len(b)
    PROVE  /\ ReadBack(print_data_diff(a, b), {"minus", "equal"}, i) = {a[i]}
           /\ ReadBack(print_data_diff(a, b), {"plus", "equal"}, i) = {b[i]}
<1> SUFFICES ASSUME NEW mark, NEW c, (mark = "minus" /\ c = a) \/ (mark = "plus" /\ c = b)
             PROVE  ReadBack(print_data_diff(a, b), {mark, "equal"}, i) = {c[i]}
  OBVIOUS
<1> DEFINE n == (i - 1) \div BlockSize
           j == i - n * BlockSize
           dump == print_data_diff(a, b)
           hits == {p \in ToSet(dump) : p[1] \in {mark, "equal"} /\ p[2] = n}
<1>1. ReadBack(dump, {mark, "equal"}, i)
         = IF hits = {} THEN {0} ELSE {p[3][j] : p \in hits}
  BY DEF ReadBack
<1>2. Len(b) # 0
  <2>1. Len(b) \in Nat /\ i \in 1 .. Len(b)
    OBVIOUS
  <2> QED
    BY <2>1
<1>3. \A p : p \in ToSet(dump) <=> \E m \in DumpLines(Len(b)) : p \in LineMarks(a, b, m)
  BY <1>2, ElementsOfDump
<1>4. /\ n \in DumpLines(Len(b)) /\ Line(c, n) \in Seq(Nat)
      /\ j \in 1 .. Len(Line(c, n)) /\ Line(c, n)[j] = c[i]
  <2>1. c \in Seq(Nat) /\ Len(c) = Len(b) /\ i \in 1 .. Len(c)
    OBVIOUS
  <2> QED
    BY <2>1, BytesOfLine
<1> HIDE DEF n, j, dump
<1>5. ASSUME NEW m \in DumpLines(Len(b)), NEW p \in LineMarks(a, b, m), p[1] \in {mark, "equal"}
      PROVE  /\ ~ IsSkipped(a, b, m) /\ p[2] = m /\ p[3] = Line(c, m)
  <2>1. p # SkippingZeros
    <3>1. SkippingZeros[1] = "skipping"
      BY DEF SkippingZeros
    <3> QED
      BY <1>5, <3>1
  <2>2. ~ IsSkipped(a, b, m)
    BY <2>1 DEF LineMarks
  <2>3. CASE Line(a, m) = Line(b, m)
    <3>1. p = <<"equal", m, Line(a, m)>>
      BY <2>2, <2>3 DEF LineMarks
    <3> QED
      BY <2>2, <2>3, <3>1
  <2>4. CASE Line(a, m) # Line(b, m)
    <3>1. p = <<"minus", m, Line(a, m)>> \/ p = <<"plus", m, Line(b, m)>>
      BY <2>2, <2>4 DEF LineMarks
    <3>2. \/ p[1] = "minus" /\ p[2] = m /\ p[3] = Line(a, m)
          \/ p[1] = "plus" /\ p[2] = m /\ p[3] = Line(b, m)
      BY <3>1
    <3> QED
      BY <1>5, <2>2, <3>2
  <2> QED
    BY <2>3, <2>4
<1>6. CASE IsSkipped(a, b, n)
  <2>1. hits = {}
    BY <1>3, <1>5, <1>6
  <2>2. all_zero(Line(c, n))
    BY <1>6 DEF IsSkipped
  <2>3. c[i] = 0
    BY <1>4, <2>2, AllZero
  <2> QED
    BY <1>1, <2>1, <2>3 DEF dump
<1>7. CASE ~ IsSkipped(a, b, n)
  <2>1. ASSUME NEW p \in hits PROVE p[3] = Line(c, n)
    <3>1. p[1] \in {mark, "equal"} /\ p[2] = n /\ p \in ToSet(dump)
      OBVIOUS
    <3>2. PICK m \in DumpLines(Len(b)) : p \in LineMarks(a, b, m)
      BY <1>3, <3>1
    <3>3. p[2] = m /\ p[3] = Line(c, m)
      BY <1>5, <3>1, <3>2
    <3> QED
      BY <3>1, <3>3
  <2>2. hits # {}
    <3>1. CASE Line(a, n) = Line(b, n)
      <4> DEFINE u == <<"equal", n, Line(a, n)>>
      <4>1. u \in LineMarks(a, b, n) /\ u[1] = "equal" /\ u[2] = n
        BY <1>7, <3>1 DEF LineMarks
      <4> HIDE DEF u
      <4> QED
        BY <1>3, <1>4, <4>1
    <3>2. CASE Line(a, n) # Line(b, n)
      <4> DEFINE u == <<mark, n, Line(c, n)>>
      <4>1. u \in LineMarks(a, b, n) /\ u[1] = mark /\ u[2] = n
        BY <1>7, <3>2 DEF LineMarks
      <4> HIDE DEF u
      <4> QED
        BY <1>3, <1>4, <4>1
    <3> QED
      BY <3>1, <3>2
  <2> HIDE DEF hits
  <2>3. {p[3][j] : p \in hits} = {c[i]}
    BY <1>4, <2>1, <2>2
  <2> QED
    BY <1>1, <2>2, <2>3 DEF dump
<1> QED
  BY <1>6, <1>7

\* The dump of two buffers of one length tells all of both.
LEMMA DumpIsEnough == CheckInv => DumpTellsAll
<1> SUFFICES ASSUME CheckInv, Made, result.check = "memory", ~ result.ok
             PROVE  DumpTellsAll
  BY DEF DumpTellsAll
<1> DEFINE a == result.value
           b == result.data
           dump == result.dump
           lines == DumpLines(Len(b))
<1>1. a \in Seq(Nat) /\ b \in Seq(Nat) /\ Len(a) = Len(b)
      /\ dump = print_data_diff(a, b) /\ ~ Accepts("memory", a, b)
  BY DEF CheckInv, ResultInv, Fits, MemoryChecks, ArrayChecks
<1>2. Len(b) # 0 /\ DOMAIN b = 1 .. Len(b)
  BY <1>1 DEF Accepts, memory_equal
<1> HIDE DEF a, b, dump
<1>3. \A p : p \in ToSet(dump) <=> \E n \in lines : p \in LineMarks(a, b, n)
  BY <1>1, <1>2, ElementsOfDump
<1>4. \A n \in lines : n \in Nat /\ Line(a, n) # <<>> /\ Line(b, n) # <<>>
  <2>1. \A n \in lines : Line(a, n) # <<>> /\ Line(b, n) # <<>>
    BY <1>1, LineNotEmpty
  <2>2. Len(b) \in Nat \ {0}
    BY <1>1, <1>2
  <2>3. lines = 0 .. (Len(b) - 1) \div BlockSize /\ (Len(b) - 1) \div BlockSize \in Nat
    <3> HIDE DEF lines
    <3> QED
      BY <2>2, LinesOfDump DEF lines
  <2> QED
    BY <2>1, <2>3
<1> HIDE DEF lines
<1>5. ASSUME NEW n \in lines, NEW p \in LineMarks(a, b, n)
      PROVE  \/ p = SkippingZeros /\ p[2] = 0 /\ IsSkipped(a, b, n)
             \/ p[2] = n /\ p[3] # <<>> /\ p # SkippingZeros /\ ~ IsSkipped(a, b, n)
  <2>1. CASE IsSkipped(a, b, n)
    <3>1. p = SkippingZeros
      BY <2>1 DEF LineMarks
    <3> QED
      BY <2>1, <3>1 DEF SkippingZeros
  <2>2. CASE ~ IsSkipped(a, b, n)
    <3>1. \/ p = <<"equal", n, Line(a, n)>> \/ p = <<"minus", n, Line(a, n)>>
          \/ p = <<"plus", n, Line(b, n)>>
      BY <2>2 DEF LineMarks
    <3>2. p[2] = n /\ p[3] # <<>>
      <4>1. p[2] = n /\ (p[3] = Line(a, n) \/ p[3] = Line(b, n))
        BY <3>1
      <4> QED
        BY <1>4, <4>1
    <3>3. SkippingZeros[3] = <<>>
      BY DEF SkippingZeros
    <3> QED
      BY <2>2, <3>2, <3>3
  <2> QED
    BY <2>1, <2>2
<1>6. \A p \in ToSet(dump) : p = SkippingZeros \/ p[3] # <<>>
  BY <1>3, <1>5
<1>7. ASSUME NEW i \in DOMAIN b
      PROVE  /\ ReadBack(dump, {"minus", "equal"}, i) = {a[i]}
             /\ ReadBack(dump, {"plus", "equal"}, i) = {b[i]}
  <2>1. i \in 1 .. Len(b)
    BY <1>2
  <2>2. /\ ReadBack(print_data_diff(a, b), {"minus", "equal"}, i) = {a[i]}
        /\ ReadBack(print_data_diff(a, b), {"plus", "equal"}, i) = {b[i]}
    BY <1>1, <2>1, ReadBackByte
  <2> QED
    BY <1>1, <2>2
<1>8. ASSUME NEW n \in lines, \A p \in ToSet(dump) : p[2] # n
      PROVE  SkippingZeros \in ToSet(dump)
  <2>1. IsSkipped(a, b, n)
    <3> SUFFICES ASSUME ~ IsSkipped(a, b, n) PROVE FALSE
      OBVIOUS
    <3>1. \E p : p \in LineMarks(a, b, n)
      BY DEF LineMarks
    <3> QED
      BY <1>3, <1>5, <1>8, <3>1
  <2> DEFINE T == {m \in lines : IsSkipped(a, b, m)}
  <2>2. PICK m \in T : \A l \in T : m <= l
    <3>1. T \subseteq Nat /\ T # {}
      BY <1>4, <2>1
    <3> HIDE DEF T
    <3> QED
      BY <3>1, LeastElement
  <2>3. m \in lines /\ IsSkipped(a, b, m) /\ m \in Nat /\ m > 0
    BY <1>4 DEF IsSkipped
  <2>4. m - 1 \in lines
    <3>1. Len(b) \in Nat \ {0}
      BY <1>1, <1>2
    <3>2. lines = 0 .. (Len(b) - 1) \div BlockSize /\ (Len(b) - 1) \div BlockSize \in Nat
      BY <3>1, LinesOfDump DEF lines
    <3> QED
      BY <2>3, <3>2
  <2>5. ~ IsSkipped(a, b, m - 1)
    <3>1. ~ (m <= m - 1)
      BY <2>3
    <3> QED
      BY <2>2, <2>4, <3>1
  <2>6. SkippingZeros \in LineMarks(a, b, m)
    BY <2>3, <2>5 DEF LineMarks
  <2> QED
    BY <1>3, <2>3, <2>6
<1>9. ASSUME SkippingZeros \in ToSet(dump)
      PROVE  \E n \in lines : \A p \in ToSet(dump) : p[2] # n
  <2>1. PICK n \in lines : SkippingZeros \in LineMarks(a, b, n)
    BY <1>3, <1>9
  <2>2. IsSkipped(a, b, n) /\ n # 0
    BY <1>4, <1>5, <2>1 DEF IsSkipped
  <2>3. \A p \in ToSet(dump) : p[2] # n
    BY <1>3, <1>5, <2>2
  <2> QED
    BY <2>3
<1> QED
  BY <1>6, <1>7, <1>8, <1>9 DEF DumpTellsAll, a, b, dump, lines

-----------------------------------------------------------------------------
(* Helper routines: blocks and times.                                      *)

\* Rounding down to a multiple.
LEMMA AlignedDown ==
    ASSUME NEW x \in Nat, NEW A \in Nat \ {0}
    PROVE  /\ x % A \in 0 .. A - 1 /\ x % A <= x
           /\ (x - (x % A)) % A = 0
<1>1. x % A \in 0 .. A - 1
  OBVIOUS
<1>2. x \div A \in Nat /\ x = (A * (x \div A)) + (x % A)
  <2>1. x \div A \in Int /\ x = A * (x \div A) + (x % A)
    OBVIOUS
  <2>2. \A q \in Int : q < 0 => A * q <= -A
    OBVIOUS
  <2> QED
    BY <1>1, <2>1, <2>2
<1>3. \A q \in Nat : (A * q) % A = 0
  OBVIOUS
<1>4. x - (x % A) = A * (x \div A)
  BY <1>1, <1>2
<1>5. A * (x \div A) \in Nat
  BY <1>2
<1>6. x % A <= x
  BY <1>1, <1>4, <1>5
<1>7. (x - (x % A)) % A = 0
  <2>1. (A * (x \div A)) % A = 0
    BY <1>2, <1>3
  <2> QED
    BY <1>4, <2>1
<1> QED
  BY <1>1, <1>6, <1>7

\* The sum of the sizes wraps around exactly when the result is too small.
LEMMA NoWrap ==
    ASSUME NEW W \in Nat, NEW size \in 0 .. W - 1, NEW K \in Nat, K < W,
           (size + K) % W > size
    PROVE  (size + K) % W = size + K
<1>1. CASE size + K < W
  BY <1>1
<1>2. CASE size + K >= W
  <2>1. size + K - W \in 0 .. W - 1 /\ size + K = W * 1 + (size + K - W)
    BY <1>2
  <2>2. (size + K) % W = size + K - W
    BY <2>1
  <2> QED
    BY <2>2
<1> QED
  BY <1>1, <1>2

\* There is a number of sizes.
LEMMA PowerOfTwo == 2^SizeBits \in Nat /\ 2^SizeBits > 0
<1>1. 2^SizeBits \in Int
  BY SizesAssumption
<1>2. /\ InfoSize \in Nat \ {0} /\ GuardSize \in Nat \ {0} /\ Alignment \in Nat \ {0}
      /\ InfoSize + 2 * GuardSize + Alignment < 2^SizeBits
  BY SizesAssumption
<1> DEFINE W == 2^SizeBits
<1> HIDE DEF W
<1>3. W \in Int /\ InfoSize + 2 * GuardSize + Alignment < W
  BY <1>1, <1>2 DEF W
<1>4. W \in Nat /\ W > 0
  BY <1>2, <1>3
<1> QED
  BY <1>4 DEF W

\* A block of the size asked for holds what was wanted, if the size was wanted.
LEMMA MallocLayout ==
    ASSUME NEW size \in Sizes, test_malloc_layout(size, size)
    PROVE  BlockHoldsRequest'
<1> DEFINE W == 2^SizeBits
           K == 2 * GuardSize + InfoSize + Alignment
           total == AllocateSize(size)
<1>1. /\ GuardSize \in Nat \ {0} /\ InfoSize \in Nat \ {0} /\ Alignment \in Nat \ {0}
      /\ K \in Nat /\ K < W /\ W \in Nat /\ size \in 0 .. W - 1
  <2>1. GuardSize \in Nat \ {0} /\ InfoSize \in Nat \ {0} /\ Alignment \in Nat \ {0}
        /\ InfoSize + 2 * GuardSize + Alignment < 2^SizeBits
    BY SizesAssumption
  <2> QED
    BY <2>1, PowerOfTwo DEF Sizes
<1>2. CASE total <= size
  <2>1. call' = [routine |-> "refused"]
    BY <1>2 DEF test_malloc_layout, Called
  <2> QED
    BY <2>1 DEF BlockHoldsRequest
<1>3. CASE ~ (total <= size)
  <2>1. total = (size + K) % W
    BY <1>1 DEF AllocateSize
  <2> HIDE DEF total, K, W
  <2>2. (size + K) % W > size
    <3>1. (size + K) % W \in Nat
      BY <1>1
    <3> QED
      BY <1>1, <1>3, <2>1, <3>1
  <2>3. total = size + K
    BY <1>1, <2>1, <2>2, NoWrap
  <2> USE DEF total
  <2>4. PICK block \in Sizes :
           LET ptr == AlignDown(block + GuardSize + InfoSize + Alignment) IN
           call' = [routine |-> "malloc", wanted |-> size, block |-> block,
                    allocated |-> total, ptr |-> ptr, info |-> ptr - (GuardSize + InfoSize),
                    endGuard |-> ptr + size]
    BY <1>3 DEF test_malloc_layout, Called
  <2> HIDE DEF total
  <2> DEFINE x == block + GuardSize + InfoSize + Alignment
             ptr == AlignDown(x)
  <2>5. block \in Nat /\ size \in Nat /\ x \in Nat
    BY <1>1 DEF Sizes, W
  <2>6. /\ call'.block = block /\ call'.info = ptr - (GuardSize + InfoSize)
        /\ call'.ptr = ptr /\ call'.wanted = size /\ call'.endGuard = ptr + size
        /\ call'.allocated = total
    BY <2>4
  <2>7. ptr = x - (x % Alignment) /\ x % Alignment \in 0 .. Alignment - 1
        /\ x % Alignment <= x /\ ptr % Alignment = 0
    <3> HIDE DEF x
    <3> QED
      BY <1>1, <2>5, AlignedDown DEF AlignDown
  <2> DEFINE r == x % Alignment
  <2>8. ptr \in Int /\ r \in 0 .. Alignment - 1
        /\ ptr = block + GuardSize + InfoSize + Alignment - r
    BY <1>1, <2>5, <2>7
  <2>9. total = size + 2 * GuardSize + InfoSize + Alignment
    BY <1>1, <2>3 DEF K
  <2> HIDE DEF x, ptr, r
  <2>10. block <= ptr - (GuardSize + InfoSize)
    BY <1>1, <2>5, <2>8
  <2>11. ptr - (GuardSize + InfoSize) + InfoSize + GuardSize = ptr
    BY <1>1, <2>8
  <2>12. ptr + size + GuardSize <= block + total
    BY <1>1, <2>5, <2>8, <2>9
  <2> QED
    BY <2>6, <2>7, <2>10, <2>11, <2>12 DEF BlockHoldsRequest
<1> QED
  BY <1>2, <1>3

\* The product of test_calloc is exact when it is used.
LEMMA CallocLayout ==
    ASSUME NEW n \in Sizes, NEW size \in Sizes, test_calloc_layout(n, size)
    PROVE  BlockHoldsRequest'
<1> DEFINE W == 2^SizeBits
<1>1. W \in Nat /\ W > 0 /\ n \in 0 .. W - 1 /\ size \in 0 .. W - 1
  BY PowerOfTwo DEF Sizes
<1>2. CASE size > 0 /\ n > (W - 1) \div size
  <2>1. call' = [routine |-> "null"]
    BY <1>2 DEF test_calloc_layout, Called
  <2> QED
    BY <2>1 DEF BlockHoldsRequest
<1>3. CASE ~ (size > 0 /\ n > (W - 1) \div size)
  <2>1. test_malloc_layout(n * size, (n * size) % W)
    BY <1>3 DEF test_calloc_layout
  <2> HIDE DEF W
  <2>2. n * size \in Nat /\ n * size <= W - 1
    <3>1. CASE size = 0
      BY <1>1, <3>1
    <3>2. CASE size > 0
      <4>1. size \in Nat \ {0} /\ W - 1 \in Nat /\ n \in Nat
        BY <1>1, <3>2
      <4>2. (W - 1) \div size \in Int /\ (n <= (W - 1) \div size <=> n * size <= W - 1)
        BY <4>1, Quotient
      <4>3. n <= (W - 1) \div size
        BY <1>3, <3>2, <4>1, <4>2
      <4> QED
        BY <4>1, <4>2, <4>3
    <3> QED
      BY <1>1, <3>1, <3>2
  <2>3. (n * size) % W = n * size /\ n * size \in 0 .. W - 1
    <3> DEFINE p == n * size
    <3>1. p \in Nat /\ p <= W - 1
      BY <2>2
    <3> HIDE DEF p
    <3>2. p % W = p /\ p \in 0 .. W - 1
      BY <1>1, <3>1
    <3> QED
      BY <3>2 DEF p
  <2>4. n * size \in Sizes
    BY <2>3 DEF Sizes, W
  <2> QED
    BY <2>1, <2>3, <2>4, MallocLayout
<1> QED
  BY <1>2, <1>3

\* The difference of two times whose seconds did not go back.
LEMMA MeasuredTime ==
    ASSUME NEW start \in Times, NEW finish \in Times, measure(finish, start)
    PROVE  RuntimeIsElapsed'
<1>1. call' = [routine |-> "time", start |-> start, finish |-> finish,
               runtime |-> cm_secdiff(finish, start)]
  BY DEF measure, Called
<1>2. call'.start = start /\ call'.finish = finish /\ call'.runtime = cm_secdiff(finish, start)
  BY <1>1
<1> SUFFICES ASSUME finish[1] >= start[1]
             PROVE  start[1] * Second + start[2] + cm_secdiff(finish, start)
                       = finish[1] * Second + finish[2]
  BY <1>2 DEF RuntimeIsElapsed
<1> DEFINE s1 == start[1]
           s2 == start[2]
           f1 == finish[1]
           f2 == finish[2]
<1>3. s1 \in Nat /\ s2 \in Nat /\ f1 \in Nat /\ f2 \in Nat /\ Second \in Nat
  BY SizesAssumption DEF Times
<1>4. cm_secdiff(finish, start) = ((f1 - s1) * 1) * Second + (f2 - s2)
  <2>1. ~ IsBackward(finish, start)
    BY <1>3 DEF IsBackward
  <2>2. cm_tspecdiff(finish, start) = <<(f1 - s1) * 1, f2 - s2>>
    BY <2>1 DEF cm_tspecdiff
  <2> QED
    BY <2>2 DEF cm_secdiff
<1> HIDE DEF s1, s2, f1, f2
<1>5. (f1 - s1) * 1 = f1 - s1 /\ (f1 - s1) * Second = f1 * Second - s1 * Second
  BY <1>3
<1>6. s1 * Second \in Int /\ f1 * Second \in Int
  BY <1>3
<1> QED
  BY <1>3, <1>4, <1>5, <1>6 DEF s1, s2, f1, f2

-----------------------------------------------------------------------------
(* Helper routines: the error message.                                     *)

\* The characters of prints; <<0, 0>> of NoMessage is none of them.
Chars == Nat \X (Nat \ {0})

\* What is kept of a print, and of all of them.
KeptPart(n, len) == Printed(n, IF len < MessageBuffer THEN len ELSE len - 1)
Pieces(lens) == [n \in DOMAIN lens |-> KeptPart(n, lens[n])]

\* What is kept of a print consists of characters, no more than were printed.
LEMMA KeptIsShort ==
    ASSUME NEW n \in Nat, NEW len \in Nat
    PROVE  KeptPart(n, len) \in Seq(Chars) /\ Len(KeptPart(n, len)) <= len
<1> DEFINE m == IF len < MessageBuffer THEN len ELSE len - 1
<1>1. m \in Nat /\ m <= len
  BY SizesAssumption
<1>2. KeptPart(n, len) = [i \in 1 .. m |-> <<n, i>>]
  BY DEF KeptPart, Printed
<1> HIDE DEF m
<1>3. \A i \in 1 .. m : <<n, i>> \in Chars
  BY <1>1 DEF Chars
<1> QED
  BY <1>1, <1>2, <1>3

\* One print more is one piece more.
LEMMA PiecesAppend ==
    ASSUME NEW lens \in Seq(Nat), NEW len \in Nat
    PROVE  /\ Pieces(lens) \in Seq(Seq(Chars))
           /\ Pieces(Append(lens, len))
                 = Append(Pieces(lens), KeptPart(Len(lens) + 1, len))
<1> DEFINE n == Len(lens)
           more == Append(lens, len)
<1>1. /\ n \in Nat /\ DOMAIN lens = 1 .. n /\ DOMAIN more = 1 .. n + 1
      /\ more[n + 1] = len /\ \A i \in 1 .. n : lens[i] \in Nat /\ more[i] = lens[i]
  OBVIOUS
<1> HIDE DEF n, more
<1>2. Pieces(lens) = [i \in 1 .. n |-> KeptPart(i, lens[i])]
  BY <1>1 DEF Pieces
<1>3. Pieces(lens) \in Seq(Seq(Chars)) /\ Len(Pieces(lens)) = n
  <2>1. \A i \in 1 .. n : i \in Nat /\ lens[i] \in Nat
    BY <1>1
  <2>2. \A i \in 1 .. n : KeptPart(i, lens[i]) \in Seq(Chars)
    BY <2>1, KeptIsShort
  <2> QED
    BY <1>1, <1>2, <2>2
<1>4. Pieces(more) = [i \in 1 .. n + 1 |-> KeptPart(i, more[i])]
  BY <1>1 DEF Pieces
<1> DEFINE last == KeptPart(n + 1, len)
<1>5. last \in Seq(Chars)
  <2>1. n + 1 \in Nat
    BY <1>1
  <2> QED
    BY <2>1, KeptIsShort
<1> HIDE DEF last
<1>6. Append(Pieces(lens), last)
         = [i \in 1 .. n + 1 |-> IF i <= n THEN Pieces(lens)[i] ELSE last]
  <2> DEFINE ss == Pieces(lens)
             sum == Append(ss, last)
             V == Seq(Chars)
  <2>1. ss \in Seq(V) /\ Len(ss) = n /\ last \in V
    BY <1>3, <1>5
  <2> HIDE DEF ss, V
  <2>2. sum \in Seq(V) /\ Len(sum) = n + 1
    BY <2>1
  <2>3. sum = [i \in 1 .. n + 1 |-> sum[i]]
    <3> HIDE DEF sum
    <3>1. sum \in [1 .. Len(sum) -> V]
      BY <2>2, LenProperties
    <3> QED
      BY <2>2, <3>1
  <2>4. ASSUME NEW i \in 1 .. n + 1 PROVE sum[i] = IF i <= n THEN ss[i] ELSE last
    BY <1>1, <2>1
  <2> HIDE DEF sum
  <2>5. sum = [i \in 1 .. n + 1 |-> IF i <= n THEN ss[i] ELSE last]
    BY <2>3, <2>4
  <2> QED
    BY <2>5 DEF sum, ss
<1>7. ASSUME NEW i \in 1 .. n + 1
      PROVE  KeptPart(i, more[i]) = IF i <= n THEN Pieces(lens)[i] ELSE last
  <2>1. CASE i <= n
    BY <1>1, <1>2, <2>1
  <2>2. CASE i = n + 1
    BY <1>1, <2>2 DEF last
  <2> QED
    BY <1>1, <2>1, <2>2
<1> QED
  BY <1>3, <1>4, <1>6, <1>7 DEF n, more, last

\* The state of the message: the pieces in a row, in the room allocated.
MessageInv ==
    /\ prints \in Seq(Nat)
    /\ Before \in Seq(Chars)
    /\ Before = FlattenSeq(Pieces(prints))
    /\ cm_error_message # NoMessage => Len(cm_error_message) < room

\* NoMessage is not made of characters of prints.
LEMMA NoMessageIsNone == NoMessage \notin Seq(Chars)
<1> SUFFICES ASSUME NoMessage \in Seq(Chars) PROVE FALSE
  OBVIOUS
<1>1. NoMessage[1] \in Chars /\ NoMessage[1] = <<0, 0>>
  BY DEF NoMessage
<1> QED
  BY <1>1 DEF Chars

\* A print keeps the message whole, also if no memory is found for it.
LEMMA MessagePrint ==
    ASSUME MessageInv, NEW len \in Nat, NEW allocated \in BOOLEAN,
           vcmocka_print_error(len, allocated)
    PROVE  MessageInv'
<1>1. MessageBuffer \in Nat \ {0} /\ Len(prints) \in Nat
  BY SizesAssumption DEF MessageInv
<1> DEFINE n == Len(prints) + 1
<1>2. n \in Nat
  BY <1>1
<1>3. CASE ~ allocated
  <2>1. prints' = Append(prints, 0) /\ UNCHANGED <<cm_error_message, room>>
    BY <1>3 DEF vcmocka_print_error
  <2>2. KeptPart(n, 0) = <<>>
    BY <1>1 DEF KeptPart, Printed
  <2>3. FlattenSeq(Append(Pieces(prints), <<>>)) = FlattenSeq(Pieces(prints)) \o <<>>
    <3> DEFINE ss == Pieces(prints)
               e == <<>>
    <3>1. ss \in Seq(Seq(Chars)) /\ e \in Seq(Chars)
      BY PiecesAppend, <1>1 DEF MessageInv
    <3> HIDE DEF ss, e
    <3>2. FlattenSeq(Append(ss, e)) = FlattenSeq(ss) \o e
      BY <3>1, FlattenAppend
    <3> QED
      BY <3>2 DEF ss, e
  <2>4. Pieces(prints') = Append(Pieces(prints), <<>>)
    BY <2>1, <2>2, PiecesAppend DEF MessageInv
  <2>5. FlattenSeq(Pieces(prints)) \o <<>> = FlattenSeq(Pieces(prints))
    BY DEF MessageInv
  <2>6. Before' = Before
    BY <2>1 DEF Before
  <2>7. prints' \in Seq(Nat)
    BY <2>1 DEF MessageInv
  <2>8. FlattenSeq(Pieces(prints')) = FlattenSeq(Pieces(prints))
    BY <2>3, <2>4, <2>5
  <2> QED
    BY <2>1, <2>6, <2>7, <2>8 DEF MessageInv, NoMessage
<1>4. CASE allocated
  <2> DEFINE piece == KeptPart(n, len)
  <2>1. prints' = Append(prints, len) /\ room' = Len(Before) + len + 1
    BY <1>4 DEF vcmocka_print_error
  <2>2. cm_error_message' = Before \o piece
    <3>1. cm_error_message' =
             Before \o (IF FitsBuffer(len) THEN FromBuffer(n, len) ELSE Printed(n, len - 1))
      BY <1>4 DEF vcmocka_print_error
    <3>2. CASE FitsBuffer(len)
      <4>1. len < MessageBuffer
        BY <3>2 DEF FitsBuffer
      <4>2. FromBuffer(n, len) = Printed(n, len)
        BY <1>1, <4>1 DEF FromBuffer, Printed
      <4> QED
        BY <3>1, <3>2, <4>1, <4>2 DEF KeptPart
    <3>3. CASE ~ FitsBuffer(len)
      <4>1. ~ (len < MessageBuffer)
        BY <3>3 DEF FitsBuffer
      <4> QED
        BY <3>1, <3>3, <4>1 DEF KeptPart
    <3> QED
      BY <3>2, <3>3
  <2>3. piece \in Seq(Chars) /\ Len(piece) <= len
    BY <1>2, KeptIsShort
  <2> HIDE DEF piece
  <2>4. /\ cm_error_message' \in Seq(Chars)
        /\ Len(cm_error_message') = Len(Before) + Len(piece)
    BY <2>2, <2>3 DEF MessageInv
  <2>5. Before' = cm_error_message'
    BY <2>4, NoMessageIsNone DEF Before, NoMessage
  <2>6. Pieces(prints') = Append(Pieces(prints), piece) /\ Pieces(prints) \in Seq(Seq(Chars))
    BY <2>1, PiecesAppend DEF MessageInv, piece
  <2>7. FlattenSeq(Pieces(prints')) = FlattenSeq(Pieces(prints)) \o piece
    <3> DEFINE ss == Pieces(prints)
    <3>1. ss \in Seq(Seq(Chars))
      BY <2>6
    <3> HIDE DEF ss
    <3>2. FlattenSeq(Append(ss, piece)) = FlattenSeq(ss) \o piece
      BY <2>3, <3>1, FlattenAppend
    <3> QED
      BY <2>6, <3>2 DEF ss
  <2>8. Len(cm_error_message') < room'
    <3>1. Len(Before) \in Nat /\ Len(piece) \in Nat
      BY <2>3 DEF MessageInv
    <3> QED
      BY <2>1, <2>3, <2>4, <3>1
  <2>9. prints' \in Seq(Nat)
    BY <2>1 DEF MessageInv
  <2> QED
    BY <2>2, <2>4, <2>5, <2>7, <2>8, <2>9 DEF MessageInv
<1> QED
  BY <1>3, <1>4

\* A message without prints.
LEMMA MessageStart ==
    ASSUME cm_error_message = NoMessage, prints = <<>>
    PROVE  MessageInv
<1>1. Before = <<>>
  BY DEF Before
<1>2. Pieces(prints) = <<>>
  BY DEF Pieces
<1>3. FlattenSeq(<<>>) = <<>>
  BY DEF FlattenSeq
<1> QED
  BY <1>1, <1>2, <1>3 DEF MessageInv

\* What MessageInv says of the message is what the property says.
LEMMA MessageInvIsWhole ==
    ASSUME MessageInv
    PROVE  MessageIsWhole
  BY DEF MessageInv, MessageIsWhole, Pieces, KeptPart

-----------------------------------------------------------------------------
(* Helper routines: filters.                                               *)

\* The places of str from which on it matches the pattern from j on, if it does
\* so from the places in next on from j + 1 on.
StartsAt(str, pattern, j, next) ==
    {i \in 1 .. Len(str) + 1 :
        IF j > Len(pattern) THEN i > Len(str)
        ELSE IF pattern[j] = "*"
        THEN j = Len(pattern) \/ \E k \in i .. Len(str) : k \in next
        ELSE i <= Len(str) /\ pattern[j] \in {"?", str[i]} /\ i + 1 \in next}

\* The solutions of the recursion of c_strmatch.
StartSets(str, pattern) ==
    {f \in [1 .. Len(pattern) + 1 -> SUBSET (1 .. Len(str) + 1)] :
        \A j \in 1 .. Len(pattern) + 1 : f[j] = StartsAt(str, pattern, j, f[j + 1])}

\* There is one, and c_strmatch reads its result from one.
LEMMA StrmatchDef ==
    ASSUME NEW str \in Seq(STRING), NEW pattern \in Seq(STRING)
    PROVE  \E f \in StartSets(str, pattern) : c_strmatch(str, pattern) <=> 1 \in f[1]
<1> DEFINE n == Len(pattern)
           V == SUBSET (1 .. Len(str) + 1)
           base == StartsAt(str, pattern, n + 1, {})
           step == [k \in 1 .. n |-> [v \in V |-> StartsAt(str, pattern, (n + 1) - k, v)]]
           Body(f) == [j \in 1 .. n + 1 |-> StartsAt(str, pattern, j, f[j + 1])]
           starts == CHOOSE f : f = Body(f)
<1>1. n \in Nat /\ Len(str) \in Nat
  OBVIOUS
<1>2. c_strmatch(str, pattern) <=> 1 \in starts[1]
  BY DEF c_strmatch, StartsAt
<1> HIDE DEF n
<1>3. \A j, v : StartsAt(str, pattern, j, v) \in V
  BY DEF StartsAt
<1>4. PICK g \in [0 .. n -> V] : g[0] = base /\ \A i \in 1 .. n : g[i] = step[i][g[i - 1]]
  <2>1. base \in V
    BY <1>3
  <2>2. step \in [1 .. n -> [V -> V]]
    BY <1>3
  <2>3. n \in Nat
    BY <1>1
  <2> HIDE DEF V, step, base
  <2>4. Runs(V, base, n, step) # {}
    BY <2>1, <2>2, <2>3, Recursion
  <2> QED
    BY <2>4 DEF Runs
<1> DEFINE f == [j \in 1 .. n + 1 |-> g[(n + 1) - j]]
<1>5. f = Body(f)
  <2> SUFFICES ASSUME NEW j \in 1 .. n + 1
               PROVE  f[j] = StartsAt(str, pattern, j, f[j + 1])
    OBVIOUS
  <2>1. CASE j = n + 1
    <3>1. f[j] = base
      BY <1>1, <1>4, <2>1
    <3>2. \A v : StartsAt(str, pattern, n + 1, v) = StartsAt(str, pattern, n + 1, {})
      BY <1>1 DEF StartsAt, n
    <3> QED
      BY <2>1, <3>1, <3>2
  <2>2. CASE j # n + 1
    <3> DEFINE k == (n + 1) - j
    <3>1. k \in 1 .. n /\ k - 1 \in 0 .. n /\ k \in 0 .. n /\ (n + 1) - k = j
          /\ j + 1 \in 1 .. n + 1 /\ (n + 1) - (j + 1) = k - 1
      BY <1>1, <2>2
    <3>2. f[j] = g[k] /\ f[j + 1] = g[k - 1] /\ g[k - 1] \in V
      BY <1>4, <3>1
    <3> HIDE DEF k, V
    <3>3. g[k] = step[k][g[k - 1]]
      BY <1>4, <3>1
    <3>4. step[k][g[k - 1]] = StartsAt(str, pattern, (n + 1) - k, g[k - 1])
      BY <3>1, <3>2
    <3> QED
      BY <3>1, <3>2, <3>3, <3>4
  <2> QED
    BY <2>1, <2>2
<1>6. starts = Body(starts)
  <2> HIDE DEF Body, f
  <2> QED
    BY <1>5
<1> HIDE DEF starts
<1>7. starts \in StartSets(str, pattern)
  <2>1. \A j \in 1 .. n + 1 : starts[j] = StartsAt(str, pattern, j, starts[j + 1])
    BY <1>6
  <2>2. starts \in [1 .. n + 1 -> V]
    BY <1>3, <1>6
  <2> QED
    BY <2>1, <2>2 DEF StartSets, n
<1> QED
  BY <1>2, <1>7

\* The k-th character of the pattern matches name up to end[k].
EndsRight(name, pattern, end, k) ==
    \/ pattern[k] = "*" /\ end[k] >= end[k - 1]
    \/ /\ end[k] = end[k - 1] + 1
       /\ pattern[k] \in {"?", name[end[k]]}

\* Ways for the pattern behind j to match name behind i.
Ways(name, pattern, j, i) ==
    {end \in [j .. Len(pattern) -> 0 .. Len(name)] :
        /\ end[j] = i /\ end[Len(pattern)] = Len(name)
        /\ \A k \in j + 1 .. Len(pattern) : EndsRight(name, pattern, end, k)}

\* The documented meaning of a pattern in these words.
LEMMA MatchesIsAWay ==
    ASSUME NEW name, NEW pattern
    PROVE  Matches(name, pattern) <=> Ways(name, pattern, 0, 0) # {}
  BY DEF Matches, Ways, EndsRight

\* A way is extended by one character of the pattern.
LEMMA WayExtended ==
    ASSUME NEW name \in Seq(STRING), NEW pattern \in Seq(STRING),
           NEW j \in 1 .. Len(pattern), NEW i \in 0 .. Len(name), NEW k \in i .. Len(name),
           Ways(name, pattern, j, k) # {},
           pattern[j] = "*" \/ (k = i + 1 /\ pattern[j] \in {"?", name[k]})
    PROVE  Ways(name, pattern, j - 1, i) # {}
<1> DEFINE n == Len(pattern)
           m == Len(name)
<1>1. n \in Nat /\ m \in Nat
  OBVIOUS
<1>2. PICK old \in Ways(name, pattern, j, k) : TRUE
  OBVIOUS
<1>3. old \in [j .. n -> 0 .. m] /\ old[j] = k /\ old[n] = m
      /\ \A l \in j + 1 .. n : EndsRight(name, pattern, old, l)
  BY <1>2 DEF Ways
<1> HIDE DEF n, m
<1>4. j \in 1 .. n /\ i \in 0 .. m /\ k \in i .. m
  BY DEF n, m
<1> DEFINE end == [l \in j - 1 .. n |-> IF l = j - 1 THEN i ELSE old[l]]
<1>5. end \in [j - 1 .. n -> 0 .. m]
  BY <1>1, <1>3, <1>4
<1>6. end[j - 1] = i /\ end[j] = k /\ end[n] = m
  BY <1>1, <1>3, <1>4
<1>7. ASSUME NEW l \in j .. n PROVE EndsRight(name, pattern, end, l)
  <2>1. CASE l = j
    <3> HIDE DEF end
    <3> QED
      BY <1>1, <1>4, <1>6, <2>1 DEF EndsRight
  <2>2. CASE l # j
    <3>1. l \in j + 1 .. n
      BY <1>1, <1>4, <2>2
    <3>2. end[l] = old[l] /\ end[l - 1] = old[l - 1]
      BY <1>1, <1>4, <3>1
    <3>3. EndsRight(name, pattern, old, l)
      BY <1>3, <3>1
    <3> HIDE DEF end
    <3> QED
      BY <3>2, <3>3 DEF EndsRight
  <2> QED
    BY <2>1, <2>2
<1>8. (j - 1) + 1 = j
  BY <1>1, <1>4
<1> HIDE DEF end
<1>9. end \in Ways(name, pattern, j - 1, i)
  BY <1>5, <1>6, <1>7, <1>8 DEF Ways, n, m
<1> QED
  BY <1>9

\* Where c_strmatch finds a start, the pattern has a way to match.
LEMMA StartHasAWay ==
    ASSUME NEW str \in Seq(STRING), NEW pattern \in Seq(STRING),
           NEW f \in StartSets(str, pattern)
    PROVE  \A k \in Nat : k <= Len(pattern) =>
              \A i \in f[(Len(pattern) - k) + 1] :
                 Ways(str, pattern, Len(pattern) - k, i - 1) # {}
<1> DEFINE n == Len(pattern)
           m == Len(str)
           S == {k \in Nat : k <= n => \A i \in f[(n - k) + 1] :
                                Ways(str, pattern, n - k, i - 1) # {}}
<1>1. n \in Nat /\ m \in Nat
  OBVIOUS
<1>2. \A j \in 1 .. n + 1 : f[j] = StartsAt(str, pattern, j, f[j + 1])
  BY DEF StartSets
<1>3. 0 \in S
  <2> SUFFICES ASSUME NEW i \in f[n + 1] PROVE Ways(str, pattern, n, i - 1) # {}
    BY <1>1
  <2>1. i \in StartsAt(str, pattern, n + 1, f[(n + 1) + 1])
    BY <1>1, <1>2
  <2>2. i \in 1 .. m + 1 /\ i > m
    BY <1>1, <2>1 DEF StartsAt
  <2>3. i - 1 = m
    BY <1>1, <2>2
  <2> DEFINE end == [l \in n .. n |-> m]
  <2>4. end \in [n .. n -> 0 .. m] /\ end[n] = m /\ n + 1 .. n = {}
    BY <1>1
  <2> HIDE DEF end
  <2>5. end \in Ways(str, pattern, n, m)
    BY <2>4 DEF Ways
  <2> QED
    BY <2>3, <2>5
<1>4. ASSUME NEW k \in Nat, k \in S PROVE k + 1 \in S
  <2> SUFFICES ASSUME k + 1 <= n, NEW i \in f[(n - (k + 1)) + 1]
               PROVE  Ways(str, pattern, n - (k + 1), i - 1) # {}
    OBVIOUS
  <2> DEFINE j == n - k
  <2>1. j \in 1 .. n /\ j \in 1 .. n + 1 /\ (n - (k + 1)) + 1 = j /\ n - (k + 1) = j - 1
        /\ k <= n /\ ~ (j > n)
    BY <1>1
  <2>2. \A l \in f[j + 1] : Ways(str, pattern, j, l - 1) # {}
    BY <1>4, <2>1
  <2> HIDE DEF j, S, n, m
  <2>3. i \in StartsAt(str, pattern, j, f[j + 1])
    BY <1>2, <2>1
  <2>4. i \in 1 .. m + 1 /\ IF pattern[j] = "*"
           THEN j = n \/ \E l \in i .. m : l \in f[j + 1]
           ELSE i <= m /\ pattern[j] \in {"?", str[i]} /\ i + 1 \in f[j + 1]
    BY <2>1, <2>3 DEF StartsAt, n, m
  <2>5. i - 1 \in 0 .. m
    BY <1>1, <2>4
  <2>6. j \in 1 .. Len(pattern) /\ i - 1 \in 0 .. Len(str)
    BY <2>1, <2>5 DEF n, m
  <2>7. CASE pattern[j] = "*" /\ j = n
    <3> DEFINE end == [l \in n .. n |-> m]
    <3>1. end \in [n .. n -> 0 .. m] /\ end[n] = m /\ n + 1 .. n = {}
      BY <1>1
    <3> HIDE DEF end
    <3>2. end \in Ways(str, pattern, j, m)
      BY <2>7, <3>1 DEF Ways, n, m
    <3>3. m \in i - 1 .. Len(str)
      BY <1>1, <2>5 DEF m
    <3>4. Ways(str, pattern, j - 1, i - 1) # {}
      BY <2>6, <2>7, <3>2, <3>3, WayExtended
    <3> QED
      BY <2>1, <3>4
  <2>8. CASE pattern[j] = "*" /\ \E l \in i .. m : l \in f[j + 1]
    <3>1. PICK l \in i .. m : l \in f[j + 1]
      BY <2>8
    <3>2. l - 1 \in i - 1 .. Len(str) /\ Ways(str, pattern, j, l - 1) # {}
      BY <1>1, <2>2, <2>4, <3>1 DEF m
    <3>3. Ways(str, pattern, j - 1, i - 1) # {}
      BY <2>6, <2>8, <3>2, WayExtended
    <3> QED
      BY <2>1, <3>3
  <2>9. CASE i <= m /\ pattern[j] \in {"?", str[i]} /\ i + 1 \in f[j + 1]
    <3>1. (i + 1) - 1 = i /\ i \in i - 1 .. Len(str) /\ i = (i - 1) + 1
      BY <1>1, <2>4, <2>9 DEF m
    <3>2. Ways(str, pattern, j, i) # {}
      BY <2>2, <2>9, <3>1
    <3>3. Ways(str, pattern, j - 1, i - 1) # {}
      BY <2>6, <2>9, <3>1, <3>2, WayExtended
    <3> QED
      BY <2>1, <3>3
  <2> QED
    BY <2>4, <2>7, <2>8, <2>9
<1>5. \A k \in Nat : k \in S
  <2> HIDE DEF S
  <2> QED
    BY <1>3, <1>4, Induction
<1> QED
  BY <1>5

\* What c_strmatch accepts matches the pattern.
LEMMA StrmatchIsSound ==
    ASSUME NEW str \in Seq(STRING), NEW pattern \in Seq(STRING), c_strmatch(str, pattern)
    PROVE  Matches(str, pattern)
<1>1. PICK f \in StartSets(str, pattern) : c_strmatch(str, pattern) <=> 1 \in f[1]
  BY StrmatchDef
<1> DEFINE n == Len(pattern)
<1>2. n \in Nat /\ n <= n /\ (n - n) + 1 = 1 /\ n - n = 0 /\ 1 - 1 = 0
  OBVIOUS
<1>3. \A i \in f[(n - n) + 1] : Ways(str, pattern, n - n, i - 1) # {}
  BY <1>2, StartHasAWay
<1>4. Ways(str, pattern, 0, 0) # {}
  BY <1>1, <1>2, <1>3
<1> QED
  BY <1>4, MatchesIsAWay

\* What matches a pattern without adjacent stars is accepted: behind a star
\* there is a character for the next one, so the star need not reach the end.
LEMMA StrmatchIsComplete ==
    ASSUME NEW str \in Seq(STRING), NEW pattern \in Seq(STRING), NoAdjacentStars(pattern),
           Matches(str, pattern)
    PROVE  c_strmatch(str, pattern)
<1>1. PICK f \in StartSets(str, pattern) : c_strmatch(str, pattern) <=> 1 \in f[1]
  BY StrmatchDef
<1>2. PICK end \in Ways(str, pattern, 0, 0) : TRUE
  BY MatchesIsAWay
<1> DEFINE n == Len(pattern)
           m == Len(str)
           S == {k \in Nat : k <= n => end[n - k] + 1 \in f[(n - k) + 1]}
<1>3. n \in Nat /\ m \in Nat
  OBVIOUS
<1>4. /\ end \in [0 .. n -> 0 .. m] /\ end[0] = 0 /\ end[n] = m
      /\ \A k \in 1 .. n : EndsRight(str, pattern, end, k)
  BY <1>2 DEF Ways
<1>5. \A j \in 1 .. n + 1 : f[j] = StartsAt(str, pattern, j, f[j + 1])
  BY DEF StartSets
<1>6. 0 \in S
  <2>1. m + 1 \in StartsAt(str, pattern, n + 1, f[(n + 1) + 1])
    BY <1>3 DEF StartsAt
  <2>2. m + 1 \in f[n + 1]
    BY <1>3, <1>5, <2>1
  <2> QED
    BY <1>3, <1>4, <2>2
<1>7. ASSUME NEW k \in Nat, k \in S PROVE k + 1 \in S
  <2> SUFFICES ASSUME k + 1 <= n
               PROVE  end[n - (k + 1)] + 1 \in f[(n - (k + 1)) + 1]
    OBVIOUS
  <2> DEFINE j == n - k
             e == end[j]
             i == end[j - 1]
  <2>1. j \in 1 .. n /\ j \in 0 .. n /\ j - 1 \in 0 .. n /\ j \in 1 .. n + 1
        /\ (n - (k + 1)) + 1 = j /\ n - (k + 1) = j - 1 /\ k <= n
    BY <1>3
  <2>2. end[j] + 1 \in f[j + 1]
    BY <1>7, <2>1
  <2> HIDE DEF j, S, n, m
  <2>3. e \in 0 .. m /\ i \in 0 .. m /\ EndsRight(str, pattern, end, j)
    BY <1>4, <2>1
  <2>4. CASE pattern[j] = "*" /\ e >= i
    <3>1. CASE j = n
      <4>1. i + 1 \in 1 .. m + 1 /\ ~ (j > n)
        BY <1>3, <2>1, <2>3
      <4> HIDE DEF e, i
      <4>2. i + 1 \in StartsAt(str, pattern, j, f[j + 1])
        BY <2>4, <3>1, <4>1 DEF StartsAt, n, m
      <4> QED
        BY <1>5, <2>1, <4>2 DEF i
    <3>2. CASE j # n
      <4>1. j + 1 \in 1 .. n /\ j \in 1 .. n - 1 /\ (j + 1) - 1 = j /\ j + 1 \in 0 .. n
        BY <1>3, <2>1, <3>2
      <4>2. pattern[j + 1] # "*" /\ EndsRight(str, pattern, end, j + 1)
        BY <1>4, <2>4, <4>1 DEF NoAdjacentStars, n
      <4>3. end[j + 1] = e + 1 /\ end[j + 1] \in 0 .. m
        BY <1>4, <4>1, <4>2 DEF EndsRight
      <4>4. e + 1 \in i + 1 .. m /\ e + 1 \in f[j + 1]
        BY <1>3, <2>2, <2>3, <2>4, <4>3
      <4> HIDE DEF e, i
      <4>5. i + 1 \in StartsAt(str, pattern, j, f[j + 1])
        BY <1>3, <2>1, <2>3, <2>4, <4>4 DEF StartsAt, n, m
      <4> QED
        BY <1>5, <2>1, <4>5 DEF i
    <3> QED
      BY <3>1, <3>2
  <2>5. CASE pattern[j] # "*"
    <3>1. e = i + 1 /\ pattern[j] \in {"?", str[e]}
      BY <2>3, <2>5 DEF EndsRight
    <3>2. e + 1 \in f[j + 1]
      BY <2>2
    <3> HIDE DEF e, i
    <3>3. i + 1 \in 1 .. m + 1 /\ i + 1 <= m /\ ~ (j > n)
      BY <1>3, <2>1, <2>3, <3>1
    <3>4. i + 1 \in StartsAt(str, pattern, j, f[j + 1])
      BY <2>5, <3>1, <3>2, <3>3 DEF StartsAt, n, m
    <3> QED
      BY <1>5, <2>1, <3>4 DEF i
  <2>6. CASE pattern[j] = "*" /\ ~ (e >= i)
    <3>1. e = i + 1
      BY <2>3, <2>6 DEF EndsRight
    <3> QED
      BY <2>3, <2>6, <3>1
  <2> QED
    BY <2>4, <2>5, <2>6
<1>8. n \in S
  <2>1. \A k \in Nat : k \in S
    <3> HIDE DEF S
    <3> QED
      BY <1>6, <1>7, Induction
  <2> QED
    BY <1>3, <2>1
<1>9. 1 \in f[1]
  <2>1. n <= n /\ n - n = 0 /\ (n - n) + 1 = 1
    BY <1>3
  <2> QED
    BY <1>4, <1>8, <2>1
<1> QED
  BY <1>1, <1>9

\* Ways to read list off the entries chosen among the first i of group, each
\* once and in their order.
Places(group, chosen, i, list) ==
    {place \in [1 .. Len(list) -> {l \in 1 .. i : l \in chosen}] :
        /\ \A k \in 1 .. Len(list) : list[k] = group[place[k]]
        /\ \A k, l \in 1 .. Len(list) : k < l => place[k] < place[l]
        /\ \A l \in 1 .. i : l \in chosen => \E k \in 1 .. Len(list) : place[k] = l}

\* An entry that is not chosen is passed over.
LEMMA PlacesSkip ==
    ASSUME NEW T, NEW group \in Seq(T), NEW chosen, NEW i \in Nat, NEW list \in Seq(T),
           i + 1 \notin chosen, Places(group, chosen, i, list) # {}
    PROVE  Places(group, chosen, i + 1, list) # {}
<1>1. \A l \in chosen : l \in 1 .. i + 1 <=> l \in 1 .. i
  OBVIOUS
<1>2. {l \in 1 .. i + 1 : l \in chosen} = {l \in 1 .. i : l \in chosen}
  BY <1>1
<1>3. PICK place \in Places(group, chosen, i, list) : TRUE
  OBVIOUS
<1>4. place \in Places(group, chosen, i + 1, list)
  BY <1>1, <1>2, <1>3 DEF Places
<1> QED
  BY <1>4

\* An entry that is chosen comes last.
LEMMA PlacesTake ==
    ASSUME NEW T, NEW group \in Seq(T), NEW chosen, NEW i \in Nat, NEW list \in Seq(T),
           i + 1 \in chosen, i + 1 <= Len(group), Places(group, chosen, i, list) # {}
    PROVE  Places(group, chosen, i + 1, Append(list, group[i + 1])) # {}
<1> DEFINE m == Len(list)
           more == Append(list, group[i + 1])
<1>1. m \in Nat /\ Len(more) = m + 1 /\ more[m + 1] = group[i + 1]
      /\ \A k \in 1 .. m : more[k] = list[k]
  OBVIOUS
<1> HIDE DEF more
<1>2. PICK old \in Places(group, chosen, i, list) : TRUE
  OBVIOUS
<1>3. /\ old \in [1 .. m -> {l \in 1 .. i : l \in chosen}]
      /\ \A k \in 1 .. m : list[k] = group[old[k]]
      /\ \A k, l \in 1 .. m : k < l => old[k] < old[l]
      /\ \A l \in 1 .. i : l \in chosen => \E k \in 1 .. m : old[k] = l
  BY <1>2 DEF Places
<1> HIDE DEF m
<1> DEFINE place == [k \in 1 .. m + 1 |-> IF k <= m THEN old[k] ELSE i + 1]
<1>4. \A k \in 1 .. m : k \in 1 .. m + 1 /\ k <= m /\ place[k] = old[k]
                        /\ old[k] \in 1 .. i /\ old[k] \in chosen
  BY <1>1, <1>3
<1>5. m + 1 \in 1 .. m + 1 /\ place[m + 1] = i + 1
  BY <1>1
<1>6. \A k \in 1 .. m + 1 : k \in 1 .. m \/ k = m + 1
  BY <1>1
<1>7. DOMAIN place = 1 .. m + 1 /\ place = [k \in 1 .. m + 1 |-> place[k]]
  OBVIOUS
<1> HIDE DEF place
<1>8. \A k \in 1 .. m + 1 : place[k] \in 1 .. i + 1 /\ place[k] \in chosen
  BY <1>4, <1>5, <1>6
<1>9. place \in [1 .. m + 1 -> {l \in 1 .. i + 1 : l \in chosen}]
  BY <1>7, <1>8
<1>10. \A k \in 1 .. m + 1 : more[k] = group[place[k]]
  BY <1>1, <1>3, <1>4, <1>5, <1>6
<1>11. ASSUME NEW k \in 1 .. m + 1, NEW l \in 1 .. m + 1, k < l PROVE place[k] < place[l]
  <2>1. k \in 1 .. m
    BY <1>1, <1>11
  <2>2. CASE l \in 1 .. m
    BY <1>3, <1>4, <1>11, <2>1, <2>2
  <2>3. CASE l = m + 1
    BY <1>4, <1>5, <2>1, <2>3
  <2> QED
    BY <1>6, <2>2, <2>3
<1>12. ASSUME NEW l \in 1 .. i + 1, l \in chosen PROVE \E k \in 1 .. m + 1 : place[k] = l
  <2>1. CASE l = i + 1
    BY <1>5, <2>1
  <2>2. CASE l \in 1 .. i
    BY <1>3, <1>4, <1>12, <2>2
  <2> QED
    BY <2>1, <2>2
<1>13. place \in Places(group, chosen, i + 1, more)
  BY <1>1, <1>9, <1>10, <1>11, <1>12 DEF Places
<1> QED
  BY <1>13 DEF more

\* The loop takes the selected entries of a group, each once and in their order.
LEMMA SelectedInOrder ==
    ASSUME NEW T, NEW group \in Seq(T)
    PROVE  /\ Selected(group) \in Seq(T)
           /\ Places(group, {i \in 1 .. Len(group) : IsSelected(group[i])},
                     Len(group), Selected(group)) # {}
<1> DEFINE n == Len(group)
           V == Seq(T)
           step == [i \in 1 .. n |-> [v \in V |->
                       IF IsSelected(group[i]) THEN Append(v, group[i]) ELSE v]]
           Body(f) == [i \in 0 .. n |-> IF i = 0 THEN <<>>
                          ELSE IF IsSelected(group[i]) THEN Append(f[i - 1], group[i])
                          ELSE f[i - 1]]
           taken == CHOOSE f : f = Body(f)
           chosen == {i \in 1 .. n : IsSelected(group[i])}
           b == <<>>
<1>1. n \in Nat /\ \A i \in 1 .. n : group[i] \in T
  OBVIOUS
<1>2. Selected(group) = taken[n]
  BY DEF Selected
<1> HIDE DEF n
<1>3. b \in V /\ step \in [1 .. n -> [V -> V]]
  BY <1>1
<1>4. PICK f \in [0 .. n -> V] : f[0] = b /\ \A i \in 1 .. n : f[i] = step[i][f[i - 1]]
  <2> HIDE DEF V, step, b
  <2>1. Runs(V, b, n, step) # {}
    BY <1>1, <1>3, Recursion
  <2> QED
    BY <2>1 DEF Runs
<1>5. f = Body(f)
  <2> SUFFICES ASSUME NEW i \in 0 .. n PROVE f[i] = Body(f)[i]
    OBVIOUS
  <2>1. CASE i = 0
    BY <1>4, <2>1
  <2>2. CASE i # 0
    <3>1. i \in 1 .. n /\ i - 1 \in 0 .. n
      BY <1>1, <2>2
    <3>2. f[i - 1] \in V /\ f[i] = step[i][f[i - 1]]
      BY <1>4, <3>1
    <3> HIDE DEF V
    <3> QED
      BY <2>2, <3>1, <3>2
  <2> QED
    BY <2>1, <2>2
<1>6. taken = Body(taken)
  <2> HIDE DEF Body
  <2> QED
    BY <1>5
<1> HIDE DEF taken
<1>7. taken[0] = <<>>
  BY <1>1, <1>6
<1>8. ASSUME NEW i \in 1 .. n
      PROVE  taken[i] = IF i \in chosen THEN Append(taken[i - 1], group[i]) ELSE taken[i - 1]
  <2>1. i \in 0 .. n /\ i # 0
    BY <1>1
  <2> QED
    BY <1>6, <2>1
<1> DEFINE Good(i) == taken[i] \in V /\ Places(group, chosen, i, taken[i]) # {}
           S == {i \in Nat : i <= n => Good(i)}
<1>9. 0 \in S
  <2> DEFINE none == [k \in 1 .. 0 |-> 0]
  <2>1. none \in Places(group, chosen, 0, <<>>)
    BY DEF Places
  <2>2. Good(0)
    BY <1>3, <1>7, <2>1
  <2> HIDE DEF Good
  <2> QED
    BY <2>2
<1>10. ASSUME NEW i \in Nat, i \in S PROVE i + 1 \in S
  <2> SUFFICES ASSUME i + 1 <= n PROVE Good(i + 1)
    <3> HIDE DEF Good
    <3> QED
      OBVIOUS
  <2>1. i + 1 \in 1 .. n /\ (i + 1) - 1 = i /\ i <= n /\ i + 1 <= Len(group)
    BY <1>1 DEF n
  <2>2. Good(i)
    <3> HIDE DEF Good
    <3> QED
      BY <1>10, <2>1
  <2>3. taken[i + 1] = IF i + 1 \in chosen THEN Append(taken[i], group[i + 1]) ELSE taken[i]
    BY <1>8, <2>1
  <2> HIDE DEF chosen, S
  <2>4. CASE i + 1 \in chosen
    <3>1. taken[i + 1] = Append(taken[i], group[i + 1])
      BY <2>3, <2>4
    <3>2. taken[i + 1] \in V
      BY <1>1, <2>1, <2>2, <3>1
    <3>3. Places(group, chosen, i + 1, Append(taken[i], group[i + 1])) # {}
      BY <2>1, <2>2, <2>4, PlacesTake
    <3> QED
      BY <3>1, <3>2, <3>3
  <2>5. CASE i + 1 \notin chosen
    <3>1. taken[i + 1] = taken[i]
      BY <2>3, <2>5
    <3>2. Places(group, chosen, i + 1, taken[i]) # {}
      BY <2>2, <2>5, PlacesSkip
    <3> QED
      BY <2>2, <3>1, <3>2
  <2> QED
    BY <2>4, <2>5
<1>11. \A i \in Nat : i \in S
  <2> HIDE DEF S
  <2> QED
    BY <1>9, <1>10, Induction
<1>12. Good(n)
  <2> HIDE DEF Good
  <2> QED
    BY <1>1, <1>11
<1> QED
  BY <1>2, <1>12 DEF n

\* The documented choice of a test.
IsWanted(t) ==
    /\ t[1] # NoString /\ t[2]
    /\ test_filter # NoString => Matches(t[1], test_filter)
    /\ skip_filter # NoString => ~ Matches(t[1], skip_filter)

\* A filter is a pattern or not set.
Filters == Seq(STRING) \cup {NoString}

\* The filters choose what is documented unless one has adjacent stars.
LEMMA SelectedIsWanted ==
    ASSUME test_filter \in Filters, skip_filter \in Filters,
           NoAdjacentStars(test_filter), NoAdjacentStars(skip_filter),
           NEW t \in Seq(STRING) \X BOOLEAN
    PROVE  IsSelected(t) <=> IsWanted(t)
<1>1. t[1] \in Seq(STRING)
  OBVIOUS
<1>2. test_filter # NoString =>
         (c_strmatch(t[1], test_filter) <=> Matches(t[1], test_filter))
  BY <1>1, StrmatchIsSound, StrmatchIsComplete DEF Filters
<1>3. skip_filter # NoString =>
         (c_strmatch(t[1], skip_filter) <=> Matches(t[1], skip_filter))
  BY <1>1, StrmatchIsSound, StrmatchIsComplete DEF Filters
<1> QED
  BY <1>2, <1>3 DEF IsSelected, IsWanted

\* A group is filtered as documented.
LEMMA SelectStep ==
    ASSUME test_filter \in Filters, skip_filter \in Filters,
           NEW group \in Seq(Seq(STRING) \X BOOLEAN), select_tests(group)
    PROVE  SelectsMatching'
<1> DEFINE T == Seq(STRING) \X BOOLEAN
           list == Selected(group)
           chosen == {i \in 1 .. Len(group) : IsSelected(group[i])}
           wanted == {i \in DOMAIN group : IsWanted(group[i])}
           plain == NoAdjacentStars(test_filter) /\ NoAdjacentStars(skip_filter)
           Shown == IF plain
                    THEN \E place \in [DOMAIN list -> wanted] :
                            /\ \A k \in DOMAIN list : list[k] = group[place[k]]
                            /\ \A k, l \in DOMAIN list : k < l => place[k] < place[l]
                            /\ \A i \in wanted : \E k \in DOMAIN list : place[k] = i
                    ELSE \A t \in ToSet(list) :
                            test_filter # NoString => Matches(t[1], test_filter)
<1>1. /\ call' = [routine |-> "select", group |-> group, selected |-> list]
      /\ test_filter' = test_filter /\ skip_filter' = skip_filter
  BY DEF select_tests, Called, filterVars
<1>2. call'.group = group /\ call'.selected = list
  BY <1>1
<1>3. SelectsMatching' <=> (call'.routine = "select" => Shown)
  BY <1>1, <1>2 DEF SelectsMatching, IsWanted, NoString
<1>4. /\ list \in Seq(T)
      /\ Places(group, chosen, Len(group), list) # {}
  <2>1. group \in Seq(T)
    OBVIOUS
  <2> HIDE DEF T
  <2> QED
    BY <2>1, SelectedInOrder
<1> HIDE DEF list
<1>5. DOMAIN list = 1 .. Len(list) /\ DOMAIN group = 1 .. Len(group)
      /\ \A i \in 1 .. Len(group) : group[i] \in T
  BY <1>4
<1>6. PICK place \in [1 .. Len(list) -> {l \in 1 .. Len(group) : l \in chosen}] :
         /\ \A k \in 1 .. Len(list) : list[k] = group[place[k]]
         /\ \A k, l \in 1 .. Len(list) : k < l => place[k] < place[l]
         /\ \A l \in 1 .. Len(group) : l \in chosen => \E k \in 1 .. Len(list) : place[k] = l
  <2> HIDE DEF chosen
  <2> QED
    BY <1>4 DEF Places
<1>7. CASE plain
  <2>1. \A i \in 1 .. Len(group) : IsSelected(group[i]) <=> IsWanted(group[i])
    BY <1>5, <1>7, SelectedIsWanted
  <2>2. wanted = {l \in 1 .. Len(group) : l \in chosen}
    BY <1>5, <2>1
  <2> HIDE DEF wanted
  <2>3. place \in [DOMAIN list -> wanted]
    BY <1>5, <1>6, <2>2
  <2>4. /\ \A k \in DOMAIN list : list[k] = group[place[k]]
        /\ \A k, l \in DOMAIN list : k < l => place[k] < place[l]
        /\ \A i \in wanted : \E k \in DOMAIN list : place[k] = i
    BY <1>5, <1>6, <2>2
  <2>5. Shown
    BY <1>7, <2>3, <2>4
  <2> QED
    BY <1>3, <2>5
<1>8. CASE ~ plain
  <2>1. ASSUME NEW t \in ToSet(list), test_filter # NoString PROVE Matches(t[1], test_filter)
    <3>1. PICK k \in 1 .. Len(list) : t = list[k]
      BY <1>5 DEF ToSet
    <3>2. place[k] \in 1 .. Len(group) /\ IsSelected(group[place[k]]) /\ t = group[place[k]]
      BY <1>6, <3>1
    <3>3. t \in T /\ c_strmatch(t[1], test_filter)
      BY <1>5, <2>1, <3>2 DEF IsSelected
    <3>4. t[1] \in Seq(STRING) /\ test_filter \in Seq(STRING)
      BY <2>1, <3>3 DEF Filters
    <3> QED
      BY <3>3, <3>4, StrmatchIsSound
  <2>2. Shown
    BY <1>8, <2>1
  <2> QED
    BY <1>3, <2>2
<1> QED
  BY <1>7, <1>8

-----------------------------------------------------------------------------
(* Helper routines: replacing a pattern.  What c_strreplace finds in place *)
(* is compared with a reader, who goes through the text once.              *)

\* What a reader knows, and how it goes through a text.
Readings(Ch) == [text : Seq(Ch), next : Nat]

Reader(Ch, s, p, r) ==
    {f \in [0 .. Len(s) -> Readings(Ch)] :
        /\ f[0] = [text |-> <<>>, next |-> 1]
        /\ \A k \in 1 .. Len(s) : f[k] = ReadOne(f[k - 1], s, k, p, r)
        /\ Rewritten(s, p, r) = f[Len(s)].text}

\* A reader has a text and a place again after each character.
LEMMA ReadOneType ==
    ASSUME NEW Ch, NEW s \in Seq(Ch), NEW p \in Seq(Ch), NEW r \in Seq(Ch),
           NEW k \in 1 .. Len(s), NEW v \in Readings(Ch)
    PROVE  ReadOne(v, s, k, p, r) \in Readings(Ch)
<1>1. v.text \in Seq(Ch) /\ v.next \in Nat /\ s[k] \in Ch /\ Len(p) \in Nat /\ k \in Nat
  BY DEF Readings
<1>2. v.text \o r \in Seq(Ch) /\ Append(v.text, s[k]) \in Seq(Ch)
      /\ k + Len(p) \in Nat /\ k + 1 \in Nat
  BY <1>1, ConcatProperties, AppendProperties
<1> QED
  BY <1>2 DEF ReadOne, Readings

\* There is a reader, who finds what the text becomes.
LEMMA RewrittenDef ==
    ASSUME NEW Ch, NEW s \in Seq(Ch), NEW p \in Seq(Ch), NEW r \in Seq(Ch)
    PROVE  Reader(Ch, s, p, r) # {}
<1> DEFINE n == Len(s)
           V == Readings(Ch)
           b == [text |-> <<>>, next |-> 1]
           step == [k \in 1 .. n |-> [v \in V |-> ReadOne(v, s, k, p, r)]]
           Body(f) == [k \in 0 .. n |-> IF k = 0 THEN [text |-> <<>>, next |-> 1]
                                        ELSE ReadOne(f[k - 1], s, k, p, r)]
           read == CHOOSE f : f = Body(f)
<1>1. n \in Nat
  OBVIOUS
<1>2. Rewritten(s, p, r) = read[n].text
  BY DEF Rewritten
<1>3. b \in V
  <2>1. <<>> \in Seq(Ch) /\ 1 \in Nat
    BY EmptySeq
  <2> QED
    BY <2>1 DEF Readings
<1>4. step \in [1 .. n -> [V -> V]]
  <2>1. \A k \in 1 .. n : \A v \in V : ReadOne(v, s, k, p, r) \in V
    BY ReadOneType
  <2> HIDE DEF V
  <2> QED
    BY <2>1
<1> HIDE DEF n, V
<1>5. PICK f \in [0 .. n -> V] : f[0] = b /\ \A i \in 1 .. n : f[i] = step[i][f[i - 1]]
  <2> HIDE DEF step, b
  <2>1. Runs(V, b, n, step) # {}
    BY <1>1, <1>3, <1>4, Recursion
  <2> QED
    BY <2>1 DEF Runs
<1>6. \A k \in 1 .. n : f[k] = ReadOne(f[k - 1], s, k, p, r)
  <2> TAKE k \in 1 .. n
  <2>1. k - 1 \in 0 .. n
    BY <1>1
  <2> QED
    BY <1>5, <2>1
<1>7. f = Body(f)
  <2> SUFFICES ASSUME NEW i \in 0 .. n PROVE f[i] = Body(f)[i]
    OBVIOUS
  <2>1. CASE i = 0
    BY <1>5, <2>1
  <2>2. CASE i # 0
    <3>1. i \in 1 .. n
      BY <1>1, <2>2
    <3> QED
      BY <1>6, <2>2, <3>1
  <2> QED
    BY <2>1, <2>2
<1>8. read = Body(read)
  <2> HIDE DEF Body
  <2> QED
    BY <1>7
<1> HIDE DEF read
<1>9. read[0] = b /\ \A k \in 1 .. n : read[k] = ReadOne(read[k - 1], s, k, p, r)
  <2>1. 0 \in 0 .. n /\ \A k \in 1 .. n : k \in 0 .. n /\ k # 0
    BY <1>1
  <2>2. \A k \in 0 .. n : read[k] = IF k = 0 THEN b ELSE ReadOne(read[k - 1], s, k, p, r)
    BY <1>8
  <2> HIDE DEF b
  <2> QED
    BY <2>1, <2>2
<1> DEFINE S == {k \in Nat : k <= n => read[k] \in V}
<1>10. \A k \in 0 .. n : read[k] \in V
  <2>1. \A k \in Nat : k \in S
    <3>1. 0 \in S
      BY <1>3, <1>9
    <3>2. ASSUME NEW k \in Nat, k \in S PROVE k + 1 \in S
      <4> SUFFICES ASSUME k + 1 <= n PROVE read[k + 1] \in V
        OBVIOUS
      <4>1. k + 1 \in 1 .. n /\ (k + 1) - 1 = k /\ k <= n
        BY <1>1
      <4>2. read[k] \in V /\ read[k + 1] = ReadOne(read[k], s, k + 1, p, r)
        BY <1>9, <3>2, <4>1
      <4> QED
        BY <4>1, <4>2, ReadOneType DEF V, n
    <3> HIDE DEF S
    <3> QED
      BY <3>1, <3>2, Induction
  <2> QED
    BY <1>1, <2>1
<1>11. read \in [0 .. n -> V]
  <2>1. read = [k \in 0 .. n |-> read[k]]
    BY <1>8
  <2> QED
    BY <1>10, <2>1
<1>12. read \in Reader(Ch, s, p, r)
  BY <1>2, <1>9, <1>11 DEF Reader, n, V
<1> QED
  BY <1>12

\* What a reader has is a text and a place in front of the rest.
LEMMA ReaderType ==
    ASSUME NEW Ch, NEW s \in Seq(Ch), NEW p \in Seq(Ch), NEW r \in Seq(Ch), p # <<>>,
           NEW f \in Reader(Ch, s, p, r)
    PROVE  \A k \in 0 .. Len(s) :
              /\ f[k].text \in Seq(Ch) /\ f[k].next \in Nat
              /\ k < f[k].next /\ f[k].next <= Len(s) + 1
<1>1. PICK n, L : n = Len(s) /\ L = Len(p) /\ n \in Nat /\ L \in Nat /\ L > 0
  <2>1. Len(s) \in Nat /\ Len(p) \in Nat /\ Len(p) > 0
    OBVIOUS
  <2> QED
    BY <2>1
<1>2. /\ f \in [0 .. n -> Readings(Ch)] /\ f[0] = [text |-> <<>>, next |-> 1]
      /\ \A k \in 1 .. n : f[k] = ReadOne(f[k - 1], s, k, p, r)
  BY <1>1 DEF Reader
<1>3. \A k \in 0 .. n : f[k].text \in Seq(Ch) /\ f[k].next \in Nat
  <2>1. \A k \in 0 .. n : f[k] \in Readings(Ch)
    BY <1>2
  <2> QED
    BY <2>1 DEF Readings
<1> DEFINE S == {k \in Nat : k <= n => k < f[k].next /\ f[k].next <= n + 1}
<1>4. 0 \in S
  BY <1>1, <1>2
<1>5. ASSUME NEW k \in Nat, k \in S PROVE k + 1 \in S
  <2> SUFFICES ASSUME k + 1 <= n PROVE k + 1 < f[k + 1].next /\ f[k + 1].next <= n + 1
    OBVIOUS
  <2>1. k + 1 \in 1 .. n /\ (k + 1) - 1 = k /\ k \in 0 .. n /\ k <= n
    BY <1>1
  <2>2. k < f[k].next /\ f[k].next <= n + 1 /\ f[k].next \in Nat
    BY <1>3, <1>5, <2>1
  <2>3. f[k + 1] = ReadOne(f[k], s, k + 1, p, r)
    BY <1>2, <2>1
  <2>4. CASE f[k].next > k + 1
    BY <2>2, <2>3, <2>4 DEF ReadOne
  <2>5. CASE ~ (f[k].next > k + 1) /\ Occurs(s, k + 1, p)
    <3>1. f[k + 1].next = (k + 1) + L
      BY <1>1, <2>3, <2>5 DEF ReadOne
    <3>2. (k + 1) + L - 1 <= n
      BY <1>1, <2>5 DEF Occurs
    <3> QED
      BY <1>1, <3>1, <3>2
  <2>6. CASE ~ (f[k].next > k + 1) /\ ~ Occurs(s, k + 1, p)
    <3>1. f[k + 1].next = (k + 1) + 1
      BY <2>3, <2>6 DEF ReadOne
    <3> QED
      BY <1>1, <3>1
  <2> QED
    BY <2>4, <2>5, <2>6
<1>6. \A k \in Nat : k \in S
  <2> HIDE DEF S
  <2> QED
    BY <1>4, <1>5, Induction
<1> QED
  BY <1>1, <1>3, <1>6

\* t is the text a, followed by the characters of s behind q up to m.
Joins(t, Ch, a, s, q, m) ==
    /\ t \in Seq(Ch) /\ Len(t) = Len(a) + (m - q)
    /\ \A i \in 1 .. Len(a) : t[i] = a[i]
    /\ \A i \in 1 .. m - q : t[Len(a) + i] = s[q + i]

\* There is only one.
LEMMA JoinsOnce ==
    ASSUME NEW Ch, NEW a \in Seq(Ch), NEW s, NEW q \in Nat, NEW m \in Nat, q <= m, NEW t, NEW u,
           Joins(t, Ch, a, s, q, m), Joins(u, Ch, a, s, q, m)
    PROVE  t = u
<1>1. PICK o : o = Len(a) /\ o \in Nat
  <2>1. Len(a) \in Nat
    OBVIOUS
  <2> QED
    BY <2>1
<1>2. /\ t \in Seq(Ch) /\ u \in Seq(Ch) /\ Len(t) = o + (m - q) /\ Len(u) = o + (m - q)
      /\ \A i \in 1 .. o : t[i] = a[i] /\ u[i] = a[i]
      /\ \A i \in 1 .. m - q : t[o + i] = s[q + i] /\ u[o + i] = s[q + i]
  BY <1>1 DEF Joins
<1>3. ASSUME NEW i \in 1 .. Len(t) PROVE t[i] = u[i]
  <2>1. CASE i <= o
    BY <1>1, <1>2, <2>1
  <2>2. CASE i > o
    <3>1. PICK j : j = i - o
      OBVIOUS
    <3>2. j \in 1 .. m - q /\ o + j = i
      BY <1>1, <1>2, <2>2, <3>1
    <3> QED
      BY <1>2, <3>2
  <2> QED
    BY <1>1, <1>2, <2>1, <2>2
<1> QED
  BY <1>2, <1>3, SeqEqual

\* The reader is in front of the next character.
AtEdge(f, k) == f[k].next = k + 1

\* Where the pattern does not occur, the text is copied.
LEMMA ReaderCopies ==
    ASSUME NEW Ch, NEW s \in Seq(Ch), NEW p \in Seq(Ch), NEW r \in Seq(Ch), p # <<>>,
           NEW f \in Reader(Ch, s, p, r), NEW q \in 0 .. Len(s), NEW m \in q .. Len(s),
           AtEdge(f, q), \A i \in q + 1 .. m : ~ Occurs(s, i, p)
    PROVE  AtEdge(f, m) /\ Joins(f[m].text, Ch, f[q].text, s, q, m)
<1>1. PICK n \in Nat, o \in Nat : /\ n = Len(s) /\ o = Len(f[q].text)
                                 /\ q \in Nat /\ m \in Nat
  <2>1. Len(s) \in Nat /\ f[q].text \in Seq(Ch) /\ q \in Nat /\ m \in Nat
    BY ReaderType
  <2>2. Len(f[q].text) \in Nat
    BY <2>1, LenProperties
  <2> QED
    BY <2>1, <2>2
<1>2. /\ \A k \in 1 .. n : f[k] = ReadOne(f[k - 1], s, k, p, r)
      /\ \A k \in 0 .. n : f[k].text \in Seq(Ch)
      /\ \A k \in 1 .. n : s[k] \in Ch
  <2>1. \A k \in 1 .. n : f[k] = ReadOne(f[k - 1], s, k, p, r)
    BY <1>1 DEF Reader
  <2>2. \A k \in 0 .. n : f[k].text \in Seq(Ch)
    BY <1>1, ReaderType
  <2>3. \A k \in 1 .. n : s[k] \in Ch
    BY <1>1
  <2> QED
    BY <2>1, <2>2, <2>3
<1> DEFINE S == {d \in Nat : q + d <= m =>
                    AtEdge(f, q + d) /\ Joins(f[q + d].text, Ch, f[q].text, s, q, q + d)}
<1>3. 0 \in S
  <2>1. q + 0 = q /\ q - q = 0 /\ q \in 0 .. n /\ 1 .. 0 = {}
    BY <1>1
  <2>2. Joins(f[q].text, Ch, f[q].text, s, q, q)
    BY <1>1, <1>2, <2>1 DEF Joins
  <2> QED
    BY <2>1, <2>2
<1>4. ASSUME NEW d \in Nat, d \in S PROVE d + 1 \in S
  <2> SUFFICES ASSUME q + (d + 1) <= m
               PROVE  /\ AtEdge(f, q + (d + 1))
                      /\ Joins(f[q + (d + 1)].text, Ch, f[q].text, s, q, q + (d + 1))
    OBVIOUS
  <2>1. q \in Nat
    BY <1>1
  <2>2. PICK k \in Nat : k = q + (d + 1)
    BY <1>1
  <2>3. /\ k \in 1 .. n /\ k - 1 = q + d /\ k - 1 \in 0 .. n /\ q + d <= m /\ k \in q + 1 .. m
        /\ k <= m
    BY <1>1, <2>2
  <2>4. PICK x, y : x = f[k - 1] /\ y = f[k]
    OBVIOUS
  <2>5. x.next = k /\ Joins(x.text, Ch, f[q].text, s, q, k - 1)
    <3>1. AtEdge(f, q + d) /\ Joins(f[q + d].text, Ch, f[q].text, s, q, q + d)
      BY <1>4, <2>3
    <3>2. (k - 1) + 1 = k
      OBVIOUS
    <3> QED
      BY <2>3, <2>4, <3>1, <3>2 DEF AtEdge
  <2>6. y = [text |-> Append(x.text, s[k]), next |-> k + 1]
    <3>1. ~ Occurs(s, k, p) /\ ~ (x.next > k)
      BY <2>3, <2>5
    <3>2. y = ReadOne(x, s, k, p, r)
      BY <1>2, <2>3, <2>4
    <3> QED
      BY <3>1, <3>2 DEF ReadOne
  <2>7. PICK t, u, c : t = x.text /\ u = y.text /\ c = s[k]
    OBVIOUS
  <2>8. /\ t \in Seq(Ch) /\ Len(t) = o + d
        /\ \A i \in 1 .. o : t[i] = f[q].text[i]
        /\ \A i \in 1 .. d : t[o + i] = s[q + i]
    <3>1. (k - 1) - q = d
      BY <2>3
    <3> QED
      BY <1>1, <2>5, <2>7, <3>1 DEF Joins
  <2>9. u = Append(t, c) /\ c \in Ch /\ y.next = k + 1
    BY <1>2, <2>3, <2>6, <2>7
  <2>10. /\ u \in Seq(Ch) /\ Len(u) = (o + d) + 1 /\ u[(o + d) + 1] = c
         /\ \A i \in 1 .. o + d : u[i] = t[i]
    <3>1. t \in Seq(Ch) /\ c \in Ch /\ Len(t) = o + d
      BY <2>8, <2>9
    <3>2. /\ Append(t, c) \in Seq(Ch) /\ Len(Append(t, c)) = Len(t) + 1
          /\ \A i \in 1 .. Len(t) : Append(t, c)[i] = t[i]
          /\ Append(t, c)[Len(t) + 1] = c
      BY <3>1, AppendProperties
    <3> QED
      BY <2>9, <3>1, <3>2
  <2>11. \A i \in 1 .. o : u[i] = f[q].text[i]
    <3>1. \A i \in 1 .. o : i \in 1 .. o + d
      BY <1>1
    <3> QED
      BY <2>8, <2>10, <3>1
  <2>12. ASSUME NEW i \in 1 .. d + 1 PROVE u[o + i] = s[q + i]
    <3>1. CASE i <= d
      <4>1. o + i \in 1 .. o + d /\ i \in 1 .. d
        BY <1>1, <3>1
      <4> QED
        BY <2>8, <2>10, <4>1
    <3>2. CASE i = d + 1
      <4>1. o + i = (o + d) + 1
        BY <3>2
      <4>2. q + i = k
        BY <2>1, <2>2, <3>2
      <4> QED
        BY <2>7, <2>10, <4>1, <4>2
    <3> QED
      BY <3>1, <3>2
  <2>13. Joins(u, Ch, f[q].text, s, q, k)
    <3>1. k - q = d + 1
      BY <2>1, <2>2
    <3>2. (o + d) + 1 = o + (d + 1)
      OBVIOUS
    <3> QED
      BY <1>1, <2>10, <2>11, <2>12, <3>1, <3>2 DEF Joins
  <2> QED
    BY <2>2, <2>4, <2>7, <2>9, <2>13 DEF AtEdge
<1>5. \A d \in Nat : d \in S
  <2> HIDE DEF S
  <2> QED
    BY <1>3, <1>4, Induction
<1>6. PICK d \in Nat : q + d = m
  <2>1. m - q \in Nat /\ q + (m - q) = m
    BY <1>1
  <2> QED
    BY <2>1
<1>7. q + d <= m
  BY <1>1, <1>6
<1>8. AtEdge(f, q + d) /\ Joins(f[q + d].text, Ch, f[q].text, s, q, q + d)
  BY <1>5, <1>7
<1> QED
  BY <1>6, <1>8

\* Where it occurs, the replacement is written.
LEMMA ReaderReplaces ==
    ASSUME NEW Ch, NEW s \in Seq(Ch), NEW p \in Seq(Ch), NEW r \in Seq(Ch), p # <<>>,
           NEW f \in Reader(Ch, s, p, r), NEW q \in 0 .. Len(s),
           AtEdge(f, q), Occurs(s, q + 1, p)
    PROVE  /\ q + Len(p) \in 0 .. Len(s) /\ AtEdge(f, q + Len(p))
           /\ f[q + Len(p)].text = f[q].text \o r
<1>1. PICK n, L : n = Len(s) /\ n \in Nat /\ L = Len(p) /\ L \in Nat /\ L > 0
  <2>1. Len(s) \in Nat /\ Len(p) \in Nat /\ Len(p) > 0
    OBVIOUS
  <2> QED
    BY <2>1
<1>2. q + L <= n
  <2>1. (q + 1) + L - 1 <= n
    BY <1>1 DEF Occurs
  <2> QED
    BY <1>1, <2>1
<1>3. \A k \in 1 .. n : f[k] = ReadOne(f[k - 1], s, k, p, r)
  BY <1>1 DEF Reader
<1> DEFINE y == [text |-> f[q].text \o r, next |-> (q + 1) + L]
           S == {d \in Nat : q + (d + 1) <= q + L => f[q + (d + 1)] = y}
<1>4. 0 \in S
  <2>1. q + (0 + 1) = q + 1 /\ q + 1 \in 1 .. n /\ (q + 1) - 1 = q
    BY <1>1, <1>2
  <2>2. f[q + 1] = ReadOne(f[q], s, q + 1, p, r)
    BY <1>3, <2>1
  <2>3. ~ (f[q].next > q + 1)
    BY DEF AtEdge
  <2> QED
    BY <1>1, <2>1, <2>2, <2>3 DEF ReadOne
<1>5. ASSUME NEW d \in Nat, d \in S PROVE d + 1 \in S
  <2> SUFFICES ASSUME q + ((d + 1) + 1) <= q + L PROVE f[q + ((d + 1) + 1)] = y
    OBVIOUS
  <2>1. PICK k \in Nat : k = q + ((d + 1) + 1)
    BY <1>1
  <2>2. k \in 1 .. n /\ k - 1 = q + (d + 1) /\ q + (d + 1) <= q + L /\ (q + 1) + L > k
    BY <1>1, <1>2, <2>1
  <2>3. f[k - 1] = y /\ y.next = (q + 1) + L
    BY <1>5, <2>2
  <2>4. f[k] = ReadOne(f[k - 1], s, k, p, r)
    BY <1>3, <2>2
  <2> HIDE DEF y
  <2> QED
    BY <2>1, <2>2, <2>3, <2>4 DEF ReadOne
<1>6. \A d \in Nat : d \in S
  <2> HIDE DEF S
  <2> QED
    BY <1>4, <1>5, Induction
<1>7. PICK d \in Nat : d + 1 = L
  <2>1. L - 1 \in Nat /\ (L - 1) + 1 = L
    BY <1>1
  <2> QED
    BY <2>1
<1>8. f[q + L] = y /\ (q + 1) + L = (q + L) + 1
  <2>1. q + (d + 1) <= q + L
    BY <1>1, <1>7
  <2>2. f[q + (d + 1)] = y
    <3> HIDE DEF y
    <3> QED
      BY <1>6, <2>1
  <2>3. (q + 1) + L = (q + L) + 1
    BY <1>1
  <2> QED
    BY <1>7, <2>2, <2>3
<1> QED
  BY <1>1, <1>2, <1>7, <1>8 DEF AtEdge

\* Numbers that stay or change by the same amount are bounded by the first and
\* the last one.
LEMMA FirstOrLast ==
    ASSUME NEW n \in Nat, NEW e \in [0 .. n -> Int], NEW change \in Int,
           \A k \in Nat : k + 1 <= n => e[k + 1] = e[k] \/ e[k + 1] = e[k] + change
    PROVE  \A k \in 0 .. n : e[k] <= e[0] \/ e[k] <= e[n]
<1>1. 0 \in 0 .. n /\ n \in 0 .. n
  OBVIOUS
<1>2. CASE change <= 0
  <2> DEFINE S == {k \in Nat : k <= n => e[k] <= e[0]}
  <2>1. 0 \in S
    BY <1>1
  <2>2. ASSUME NEW k \in Nat, k \in S PROVE k + 1 \in S
    <3> SUFFICES ASSUME k + 1 <= n PROVE e[k + 1] <= e[0]
      OBVIOUS
    <3>1. k \in 0 .. n /\ k + 1 \in 0 .. n /\ k <= n
      OBVIOUS
    <3>2. e[k] \in Int /\ e[k + 1] \in Int /\ e[0] \in Int
      BY <1>1, <3>1
    <3>3. e[k] <= e[0]
      BY <2>2, <3>1
    <3>4. e[k + 1] = e[k] \/ e[k + 1] = e[k] + change
      OBVIOUS
    <3> QED
      BY <1>2, <3>2, <3>3, <3>4
  <2>3. \A k \in Nat : k \in S
    <3> HIDE DEF S
    <3> QED
      BY <2>1, <2>2, Induction
  <2> QED
    BY <2>3
<1>3. CASE change >= 0
  <2> DEFINE S == {d \in Nat : d <= n => e[n - d] <= e[n]}
  <2>1. 0 \in S
    <3>1. n - 0 = n /\ e[n] \in Int
      BY <1>1
    <3> QED
      BY <3>1
  <2>2. ASSUME NEW d \in Nat, d \in S PROVE d + 1 \in S
    <3> SUFFICES ASSUME d + 1 <= n PROVE e[n - (d + 1)] <= e[n]
      OBVIOUS
    <3>1. PICK k \in Nat : k = n - (d + 1)
      OBVIOUS
    <3>2. k \in 0 .. n /\ k + 1 \in 0 .. n /\ k + 1 = n - d /\ d <= n /\ k + 1 <= n
      BY <3>1
    <3>3. e[k] \in Int /\ e[k + 1] \in Int /\ e[n] \in Int
      BY <1>1, <3>2
    <3>4. e[k + 1] <= e[n]
      BY <2>2, <3>2
    <3>5. e[k + 1] = e[k] \/ e[k + 1] = e[k] + change
      BY <3>2
    <3> QED
      BY <1>3, <3>1, <3>3, <3>4, <3>5
  <2>3. \A d \in Nat : d \in S
    <3> HIDE DEF S
    <3> QED
      BY <2>1, <2>2, Induction
  <2>4. ASSUME NEW k \in 0 .. n PROVE e[k] <= e[n]
    <3>1. PICK d \in Nat : d <= n /\ n - d = k
      <4>1. n - k \in Nat /\ n - k <= n /\ n - (n - k) = k
        OBVIOUS
      <4> QED
        BY <4>1
    <3> QED
      BY <2>3, <3>1
  <2> QED
    BY <2>4
<1> QED
  BY <1>2, <1>3

\* The length of what the reader has, with the rest of the text.
LengthAt(f, s, k) == Len(f[k].text) + (Len(s) + 1) - f[k].next

\* It is never more than that of the text, or of what it becomes.
LEMMA ReaderLength ==
    ASSUME NEW Ch, NEW s \in Seq(Ch), NEW p \in Seq(Ch), NEW r \in Seq(Ch), p # <<>>,
           NEW f \in Reader(Ch, s, p, r), NEW k \in 0 .. Len(s)
    PROVE  LengthAt(f, s, k) <= Len(s) \/ LengthAt(f, s, k) <= Len(Rewritten(s, p, r))
<1>1. PICK n \in Nat, L \in Nat, R \in Nat : n = Len(s) /\ L = Len(p) /\ R = Len(r)
  <2>1. Len(s) \in Nat /\ Len(p) \in Nat /\ Len(r) \in Nat
    OBVIOUS
  <2> QED
    BY <2>1
<1>2. \A i \in 0 .. n : /\ f[i].text \in Seq(Ch) /\ f[i].next \in Nat
                        /\ i < f[i].next /\ f[i].next <= n + 1
  BY <1>1, ReaderType
<1>3. \A i \in 0 .. n : Len(f[i].text) \in Nat
  BY <1>2, LenProperties
<1>4. /\ f[0] = [text |-> <<>>, next |-> 1]
      /\ \A i \in 1 .. n : f[i] = ReadOne(f[i - 1], s, i, p, r)
      /\ Rewritten(s, p, r) = f[n].text
  BY <1>1 DEF Reader
<1> DEFINE e == [i \in 0 .. n |-> LengthAt(f, s, i)]
<1>5. \A i \in 0 .. n : e[i] = Len(f[i].text) + (n + 1) - f[i].next /\ e[i] \in Int
  BY <1>1, <1>2, <1>3 DEF LengthAt
<1>6. e \in [0 .. n -> Int]
  <2>1. \A i \in 0 .. n : LengthAt(f, s, i) \in Int
    BY <1>1, <1>2, <1>3 DEF LengthAt
  <2> QED
    BY <2>1
<1> HIDE DEF e
<1>7. ASSUME NEW i \in Nat, i + 1 <= n
      PROVE  e[i + 1] = e[i] \/ e[i + 1] = e[i] + (R - L)
  <2>1. i \in 0 .. n /\ i + 1 \in 0 .. n /\ i + 1 \in 1 .. n /\ (i + 1) - 1 = i
    BY <1>7
  <2>2. PICK x, y : x = f[i] /\ y = f[i + 1]
    OBVIOUS
  <2>3. y = ReadOne(x, s, i + 1, p, r)
    BY <1>4, <2>1, <2>2
  <2>4. PICK t \in Seq(Ch), l \in Nat, j \in Nat : t = x.text /\ l = Len(t) /\ j = x.next
    <3>1. x.text \in Seq(Ch) /\ x.next \in Nat /\ Len(x.text) \in Nat
      BY <1>2, <1>3, <2>1, <2>2
    <3> QED
      BY <3>1
  <2>5. e[i] = l + (n + 1) - j /\ e[i + 1] = Len(y.text) + (n + 1) - y.next /\ i < j
    <3>1. e[i] = l + (n + 1) - j /\ e[i + 1] = Len(y.text) + (n + 1) - y.next
      BY <1>5, <2>1, <2>2, <2>4
    <3>2. i < j
      BY <1>2, <2>1, <2>2, <2>4
    <3> QED
      BY <3>1, <3>2
  <2>6. CASE j > i + 1
    BY <2>2, <2>3, <2>4, <2>5, <2>6 DEF ReadOne
  <2>7. CASE ~ (j > i + 1) /\ Occurs(s, i + 1, p)
    <3>1. y.text = t \o r /\ y.next = (i + 1) + L
      BY <1>1, <2>3, <2>4, <2>7 DEF ReadOne
    <3>2. Len(y.text) = l + R
      BY <1>1, <2>4, <3>1, ConcatProperties
    <3>3. j = i + 1
      BY <2>5, <2>7
    <3>4. e[i] = l + (n + 1) - (i + 1) /\ e[i + 1] = (l + R) + (n + 1) - ((i + 1) + L)
      BY <2>5, <3>1, <3>2, <3>3
    <3> QED
      BY <3>4
  <2>8. CASE ~ (j > i + 1) /\ ~ Occurs(s, i + 1, p)
    <3>1. y.text = Append(t, s[i + 1]) /\ y.next = (i + 1) + 1
      BY <2>3, <2>4, <2>8 DEF ReadOne
    <3>2. Len(y.text) = l + 1
      <4>1. s[i + 1] \in Ch
        BY <1>1, <2>1
      <4> QED
        BY <2>4, <3>1, <4>1, AppendProperties
    <3>3. j = i + 1
      BY <2>5, <2>8
    <3>4. e[i] = l + (n + 1) - (i + 1) /\ e[i + 1] = (l + 1) + (n + 1) - ((i + 1) + 1)
      BY <2>5, <3>1, <3>2, <3>3
    <3> QED
      BY <3>4
  <2> QED
    BY <2>6, <2>7, <2>8
<1>8. \A i \in 0 .. n : e[i] <= e[0] \/ e[i] <= e[n]
  <2>1. R - L \in Int
    OBVIOUS
  <2> QED
    BY <1>6, <1>7, <2>1, FirstOrLast
<1>9. e[0] = n
  <2>1. 0 \in 0 .. n /\ f[0].text = <<>> /\ f[0].next = 1
    BY <1>4
  <2>2. e[0] = 0 + (n + 1) - 1
    BY <1>5, <2>1
  <2> QED
    BY <2>2
<1>10. e[n] = Len(Rewritten(s, p, r))
  <2>1. PICK l \in Nat : l = Len(f[n].text)
    BY <1>3
  <2>2. f[n].next = n + 1
    <3>1. f[n].next \in Nat /\ n < f[n].next /\ f[n].next <= n + 1
      BY <1>2
    <3> QED
      BY <3>1
  <2>3. e[n] = l + (n + 1) - (n + 1)
    BY <1>5, <2>1, <2>2
  <2>4. e[n] = l
    BY <2>3
  <2> QED
    BY <1>4, <2>1, <2>4
<1>11. k \in 0 .. n /\ e[k] = LengthAt(f, s, k)
  BY <1>1 DEF e
<1> QED
  BY <1>1, <1>8, <1>9, <1>10, <1>11

\* The pattern does not occur in s behind q.
NoneBehind(s, p, q) == \A i \in q + 1 .. Len(s) : ~ Occurs(s, i, p)

\* The first place behind q where it does.
FirstBehind(s, p, q) ==
    {j \in 1 .. Len(s) - q : /\ Occurs(s, q + j, p)
                             /\ \A i \in q + 1 .. q + j - 1 : ~ Occurs(s, i, p)}

\* The search finds the first place, in a text whose end is that of s.
LEMMA StrstrFinds ==
    ASSUME NEW Ch, NEW s \in Seq(Ch), NEW p \in Seq(Ch), p # <<>>, NEW a \in Seq(Ch),
           NEW q \in 0 .. Len(s), NEW t, Joins(t, Ch, a, s, q, Len(s))
    PROVE  \/ strstr(t, p, Len(a) + 1) = 0 /\ NoneBehind(s, p, q)
           \/ /\ strstr(t, p, Len(a) + 1) \in Nat \ {0}
              /\ strstr(t, p, Len(a) + 1) - Len(a) \in FirstBehind(s, p, q)
<1>1. PICK n \in Nat, L \in Nat, o \in Nat :
         n = Len(s) /\ L = Len(p) /\ o = Len(a) /\ L > 0 /\ q \in Nat /\ q <= n
  <2>1. Len(s) \in Nat /\ Len(p) \in Nat /\ Len(p) > 0 /\ Len(a) \in Nat
        /\ q \in Nat /\ q <= Len(s)
    OBVIOUS
  <2> QED
    BY <2>1
<1>2. q \in Nat /\ q <= n /\ L > 0
  BY <1>1
<1>3. /\ t \in Seq(Ch) /\ Len(t) = o + (n - q)
      /\ \A i \in 1 .. n - q : t[o + i] = s[q + i]
  BY <1>1 DEF Joins
<1> DEFINE hits == {i \in o + 1 .. Len(t) + 1 - L : SubSeq(t, i, i + L - 1) = p}
<1>4. strstr(t, p, Len(a) + 1) = IF hits = {} THEN 0 ELSE Min(hits)
  BY <1>1 DEF strstr
<1>5. ASSUME NEW j \in 1 .. n - q
      PROVE  Occurs(s, q + j, p) <=> o + j \in hits
  <2>1. j \in Nat
    BY <1>2
  <2>2. (q + j) + L - 1 <= n <=> o + j \in o + 1 .. Len(t) + 1 - L
    <3>1. Len(t) + 1 - L = o + (n - q) + 1 - L
      BY <1>3
    <3> QED
      BY <1>2, <2>1, <3>1
  <2>3. ASSUME (q + j) + L - 1 <= n
        PROVE  SubSeq(s, q + j, (q + j) + L - 1) = SubSeq(t, o + j, (o + j) + L - 1)
    <3>1. PICK b, c, d, e : /\ b = q + j /\ c = (q + j) + L - 1
                            /\ d = o + j /\ e = (o + j) + L - 1
      OBVIOUS
    <3>2. b \in Int /\ c \in Int /\ d \in Int /\ e \in Int
          /\ c - b + 1 = L /\ e - d + 1 = L /\ b <= c /\ d <= e
      BY <1>2, <2>1, <3>1
    <3>3. \A i \in b .. c : s[i] \in Ch
      <4>1. \A i \in b .. c : i \in 1 .. Len(s)
        <5>1. b >= 1 /\ c <= n
          BY <1>2, <2>1, <2>3, <3>1
        <5> QED
          BY <1>1, <3>2, <5>1
      <4> QED
        BY <4>1
    <3>4. \A i \in d .. e : t[i] \in Ch
      <4>1. \A i \in d .. e : i \in 1 .. Len(t)
        <5>1. d >= 1 /\ e <= o + (n - q)
          BY <1>2, <2>1, <2>3, <3>1
        <5> QED
          BY <1>3, <3>2, <5>1
      <4> QED
        BY <1>3, <4>1
    <3>5. /\ SubSeq(s, b, c) \in Seq(Ch) /\ Len(SubSeq(s, b, c)) = L
          /\ \A i \in 1 .. L : SubSeq(s, b, c)[i] = s[b + i - 1]
      <4>1. /\ SubSeq(s, b, c) \in Seq(Ch)
            /\ Len(SubSeq(s, b, c)) = IF b <= c THEN c - b + 1 ELSE 0
            /\ \A i \in 1 .. c - b + 1 : SubSeq(s, b, c)[i] = s[b + i - 1]
        BY <3>2, <3>3, SubSeqProperties
      <4> QED
        BY <3>2, <4>1
    <3>6. /\ SubSeq(t, d, e) \in Seq(Ch) /\ Len(SubSeq(t, d, e)) = L
          /\ \A i \in 1 .. L : SubSeq(t, d, e)[i] = t[d + i - 1]
      <4>1. /\ SubSeq(t, d, e) \in Seq(Ch)
            /\ Len(SubSeq(t, d, e)) = IF d <= e THEN e - d + 1 ELSE 0
            /\ \A i \in 1 .. e - d + 1 : SubSeq(t, d, e)[i] = t[d + i - 1]
        BY <3>2, <3>4, SubSeqProperties
      <4> QED
        BY <3>2, <4>1
    <3>7. ASSUME NEW i \in 1 .. L PROVE s[b + i - 1] = t[d + i - 1]
      <4>1. PICK g : g = j + i - 1
        OBVIOUS
      <4>2. g \in 1 .. n - q /\ b + i - 1 = q + g /\ d + i - 1 = o + g
        BY <1>2, <2>1, <2>3, <3>1, <4>1
      <4> QED
        BY <1>3, <4>2
    <3>8. SubSeq(s, b, c) = SubSeq(t, d, e)
      BY <3>5, <3>6, <3>7, SeqEqual
    <3> QED
      BY <3>1, <3>8
  <2>4. Occurs(s, q + j, p) <=> /\ (q + j) + L - 1 <= n
                                /\ SubSeq(s, q + j, (q + j) + L - 1) = p
    BY <1>1 DEF Occurs
  <2> QED
    BY <2>2, <2>3, <2>4
<1>6. ASSUME NEW i \in hits PROVE i - o \in 1 .. n - q /\ o + (i - o) = i /\ i \in Nat
  <2>1. i \in o + 1 .. o + (n - q) + 1 - L
    BY <1>3
  <2> HIDE DEF hits
  <2> QED
    BY <1>2, <2>1
<1> HIDE DEF hits
<1>7. CASE hits = {}
  <2>1. ASSUME NEW i \in q + 1 .. n PROVE ~ Occurs(s, i, p)
    <3>1. PICK j : j \in 1 .. n - q /\ q + j = i
      <4>1. i - q \in 1 .. n - q /\ q + (i - q) = i
        BY <1>2
      <4> QED
        BY <4>1
    <3> QED
      BY <1>5, <1>7, <3>1
  <2> QED
    BY <1>1, <1>4, <1>7, <2>1 DEF NoneBehind
<1>8. CASE hits # {}
  <2>1. PICK h \in hits : \A i \in hits : h <= i
    <3>1. hits \subseteq Nat
      BY <1>6
    <3> QED
      BY <1>8, <3>1, LeastElement
  <2>2. Min(hits) \in hits /\ \A i \in hits : Min(hits) <= i
    BY <2>1 DEF Min
  <2>3. PICK m, j : m = Min(hits) /\ j = m - o
    OBVIOUS
  <2>4. m \in hits /\ m \in Nat /\ j \in 1 .. n - q /\ o + j = m /\ \A i \in hits : m <= i
    BY <1>6, <2>2, <2>3
  <2>5. Occurs(s, q + j, p)
    BY <1>5, <2>4
  <2>6. ASSUME NEW i \in q + 1 .. q + j - 1 PROVE ~ Occurs(s, i, p)
    <3>1. PICK l : l = i - q
      OBVIOUS
    <3>2. l \in 1 .. n - q /\ q + l = i /\ l < j
      BY <1>2, <2>4, <3>1
    <3>3. o + l \notin hits
      <4>1. ~ (m <= o + l)
        BY <2>4, <3>2
      <4> QED
        BY <2>4, <4>1
    <3> QED
      BY <1>5, <3>2, <3>3
  <2>7. j \in FirstBehind(s, p, q)
    BY <1>1, <2>4, <2>5, <2>6 DEF FirstBehind
  <2>8. m \in Nat \ {0}
    BY <2>4
  <2> QED
    BY <1>1, <1>4, <1>8, <2>3, <2>7, <2>8
<1> QED
  BY <1>7, <1>8

\* Where everything is when the pattern of L characters is replaced by R others:
\* P is its place in a text of T characters, the first o of them written.
InPlace(n, L, R, o, q, j, m, z, P, T) ==
    /\ P - 1 = o + (m - q) /\ P + L = o + (z - q) + 1
    /\ (o + (m - q) + R) + 1 = P + R /\ (o + (m - q) + R) + (n - z) = T + R - L

\* The sums for the next lemma.
LEMMA SpliceSums ==
    ASSUME NEW n \in Nat, NEW L \in Nat, NEW R \in Nat, NEW o \in Nat, NEW q \in Nat,
           NEW j \in Nat, NEW m \in Nat, NEW z \in Nat, NEW P, NEW T,
           q <= n, L > 0, 1 <= j, m + 1 = q + j, z = m + L, z <= n,
           P = o + j, T = o + (n - q)
    PROVE  InPlace(n, L, R, o, q, j, m, z, P, T)
  BY DEF InPlace

\* The first part of such a text, up to the character m of s.
LEMMA JoinsCut ==
    ASSUME NEW Ch, NEW a \in Seq(Ch), NEW s, NEW q \in Nat, NEW m \in Nat, NEW n \in Nat,
           q <= m, m <= n, NEW t, Joins(t, Ch, a, s, q, n)
    PROVE  Joins(SubSeq(t, 1, Len(a) + (m - q)), Ch, a, s, q, m)
<1>1. PICK o : o \in Nat /\ o = Len(a)
  <2>1. Len(a) \in Nat
    OBVIOUS
  <2> QED
    BY <2>1
<1>2. PICK d, T : /\ d = o + (m - q) /\ T = o + (n - q)
                  /\ d \in Nat /\ T \in Nat /\ d <= T /\ o <= d /\ d - o = m - q
  <2>1. PICK d, T : d = o + (m - q) /\ T = o + (n - q)
    OBVIOUS
  <2>2. d \in Nat /\ T \in Nat /\ d <= T /\ o <= d /\ d - o = m - q
    BY <1>1, <2>1
  <2> QED
    BY <2>1, <2>2
<1>3. /\ t \in Seq(Ch) /\ Len(t) = T
      /\ \A i \in 1 .. o : t[i] = a[i]
      /\ \A i \in 1 .. n - q : t[o + i] = s[q + i]
  BY <1>1, <1>2 DEF Joins
<1>4. PICK b : b = SubSeq(t, 1, d)
  OBVIOUS
<1>5. b \in Seq(Ch) /\ Len(b) = d /\ \A i \in 1 .. d : b[i] = t[i]
  <2>1. \A i \in 1 .. d : i \in 1 .. T
    BY <1>2
  <2>2. \A i \in 1 .. d : t[i] \in Ch
    BY <1>3, <2>1
  <2>3. d \in Int
    BY <1>2
  <2>4. /\ SubSeq(t, 1, d) \in Seq(Ch)
        /\ Len(SubSeq(t, 1, d)) = IF 1 <= d THEN d - 1 + 1 ELSE 0
        /\ \A i \in 1 .. d - 1 + 1 : SubSeq(t, 1, d)[i] = t[1 + i - 1]
    BY <2>2, <2>3, SubSeqProperties
  <2>5. d - 1 + 1 = d /\ (~ (1 <= d) => d = 0) /\ \A i \in 1 .. d : 1 + i - 1 = i
    BY <1>2
  <2> QED
    BY <1>4, <2>4, <2>5
<1>6. \A i \in 1 .. o : b[i] = a[i]
  <2>1. \A i \in 1 .. o : i \in 1 .. d
    BY <1>1, <1>2
  <2> QED
    BY <1>3, <1>5, <2>1
<1>7. \A i \in 1 .. m - q : b[o + i] = s[q + i]
  <2>1. \A i \in 1 .. m - q : o + i \in 1 .. d /\ i \in 1 .. n - q
    BY <1>1, <1>2
  <2> QED
    BY <1>3, <1>5, <2>1
<1> QED
  BY <1>1, <1>2, <1>4, <1>5, <1>6, <1>7 DEF Joins

\* b is what s holds behind z.
Rest(b, Ch, s, z, n) ==
    b \in Seq(Ch) /\ Len(b) = n - z /\ \A i \in 1 .. n - z : b[i] = s[z + i]

\* The last part of such a text.
LEMMA JoinsRest ==
    ASSUME NEW Ch, NEW a \in Seq(Ch), NEW s, NEW q \in Nat, NEW z \in Nat, NEW n \in Nat,
           q <= z, z <= n, NEW t, Joins(t, Ch, a, s, q, n)
    PROVE  Rest(SubSeq(t, Len(a) + (z - q) + 1, Len(t)), Ch, s, z, n)
<1>1. PICK o : o \in Nat /\ o = Len(a)
  <2>1. Len(a) \in Nat
    OBVIOUS
  <2> QED
    BY <2>1
<1>2. PICK d, e : /\ d = o + (z - q) + 1 /\ e = o + (n - q)
                  /\ d \in Nat /\ e \in Nat /\ d >= 1 /\ e - d + 1 = n - z
                  /\ (d > e => n - z = 0) /\ n - z \in Nat
  <2>1. PICK d, e : d = o + (z - q) + 1 /\ e = o + (n - q)
    OBVIOUS
  <2>2. /\ d \in Nat /\ e \in Nat /\ d >= 1 /\ e - d + 1 = n - z
        /\ (d > e => n - z = 0) /\ n - z \in Nat
    BY <1>1, <2>1
  <2> QED
    BY <2>1, <2>2
<1>3. /\ t \in Seq(Ch) /\ Len(t) = e
      /\ \A i \in 1 .. n - q : t[o + i] = s[q + i]
  BY <1>1, <1>2 DEF Joins
<1>4. PICK b : b = SubSeq(t, d, e)
  OBVIOUS
<1>5. /\ b \in Seq(Ch) /\ Len(b) = n - z
      /\ \A i \in 1 .. n - z : b[i] = t[d + i - 1]
  <2>1. \A i \in d .. e : i \in 1 .. e
    BY <1>2
  <2>2. \A i \in d .. e : t[i] \in Ch
    BY <1>3, <2>1
  <2>3. d \in Int /\ e \in Int
    BY <1>2
  <2>4. /\ SubSeq(t, d, e) \in Seq(Ch)
        /\ Len(SubSeq(t, d, e)) = IF d <= e THEN e - d + 1 ELSE 0
        /\ \A i \in 1 .. e - d + 1 : SubSeq(t, d, e)[i] = t[d + i - 1]
    BY <2>2, <2>3, SubSeqProperties
  <2>5. ~ (d <= e) => n - z = 0
    BY <1>2
  <2> QED
    BY <1>2, <1>4, <2>4, <2>5
<1>6. ASSUME NEW i \in 1 .. n - z PROVE b[i] = s[z + i]
  <2>1. PICK h : h = (z - q) + i
    OBVIOUS
  <2>2. h \in 1 .. n - q /\ o + h = d + i - 1 /\ q + h = z + i
    BY <1>1, <1>2, <2>1
  <2>3. b[i] = t[d + i - 1]
    BY <1>5
  <2> QED
    BY <1>3, <2>2, <2>3
<1> QED
  BY <1>1, <1>2, <1>3, <1>4, <1>5, <1>6 DEF Rest

\* t with the pattern replaced at P is what the reader has at z, with the rest.
SplicedAt(Ch, s, p, r, f, q, t, P, z) ==
    /\ z \in 0 .. Len(s) /\ q < z /\ AtEdge(f, z)
    /\ Joins(ReplaceSubSeqAt(P, r, p, t), Ch, f[z].text, s, z, Len(s))
    /\ Len(f[z].text) + 1 = P + Len(r)
    /\ Len(ReplaceSubSeqAt(P, r, p, t)) = Len(t) + Len(r) - Len(p)

\* The occurrence of the pattern behind q is replaced: the text is then what the
\* reader has written behind that place, with the rest of s.
LEMMA Spliced ==
    ASSUME NEW Ch, NEW s \in Seq(Ch), NEW p \in Seq(Ch), NEW r \in Seq(Ch), p # <<>>,
           NEW f \in Reader(Ch, s, p, r), NEW q \in 0 .. Len(s), AtEdge(f, q),
           NEW t, Joins(t, Ch, f[q].text, s, q, Len(s)),
           NEW j \in FirstBehind(s, p, q), NEW P, P = Len(f[q].text) + j,
           NEW z, z = q + j - 1 + Len(p)
    PROVE  SplicedAt(Ch, s, p, r, f, q, t, P, z)
<1>1. PICK n \in Nat, L \in Nat, R \in Nat, o \in Nat :
         n = Len(s) /\ L = Len(p) /\ R = Len(r) /\ o = Len(f[q].text) /\ L > 0
  <2>1. f[q].text \in Seq(Ch)
    BY ReaderType
  <2>2. Len(s) \in Nat /\ Len(p) \in Nat /\ Len(p) > 0 /\ Len(r) \in Nat
    OBVIOUS
  <2>3. Len(f[q].text) \in Nat
    BY <2>1, LenProperties
  <2> QED
    BY <2>2, <2>3
<1>2. q \in Nat /\ q <= n /\ L > 0
  BY <1>1
<1>3. n \in Nat /\ L \in Nat /\ R \in Nat /\ o \in Nat
  OBVIOUS
<1>4. j \in 1 .. n - q /\ Occurs(s, q + j, p) /\ \A i \in q + 1 .. q + j - 1 : ~ Occurs(s, i, p)
  BY <1>1 DEF FirstBehind
<1>5. j \in Nat /\ 1 <= j /\ q + j <= n
  <2>1. j \in 1 .. n - q
    BY <1>4
  <2> QED
    BY <1>2, <2>1
<1>6. q + j - 1 \in Nat
  BY <1>2, <1>5
<1>7. PICK m \in Nat : m = q + j - 1
  BY <1>6
<1>8. m + 1 = q + j /\ q <= m /\ m < n /\ m <= n /\ m \in Nat
  BY <1>2, <1>5, <1>7
<1>9. m \in q .. n /\ m \in 0 .. n /\ m \in 0 .. Len(s) /\ m \in q .. Len(s)
  <2>1. m \in q .. n /\ m \in 0 .. n
    BY <1>2, <1>8
  <2> QED
    BY <1>1, <2>1
<1>10. AtEdge(f, m) /\ Joins(f[m].text, Ch, f[q].text, s, q, m)
  <2>1. \A i \in q + 1 .. m : ~ Occurs(s, i, p)
    BY <1>4, <1>7
  <2> QED
    BY <1>9, <2>1, ReaderCopies
<1>11. z = m + L
  BY <1>1, <1>7
<1>12. z \in 0 .. n /\ AtEdge(f, z) /\ f[z].text = f[m].text \o r
  <2>1. Occurs(s, m + 1, p)
    BY <1>4, <1>7
  <2>2. /\ m + Len(p) \in 0 .. Len(s) /\ AtEdge(f, m + Len(p))
        /\ f[m + Len(p)].text = f[m].text \o r
    BY <1>9, <1>10, <2>1, ReaderReplaces
  <2>3. z = m + Len(p)
    BY <1>1, <1>11
  <2> QED
    BY <1>1, <2>2, <2>3
<1>13. z \in Nat /\ q < z /\ n - z \in Nat /\ z <= n
  <2>1. z \in 0 .. n
    BY <1>12
  <2> QED
    BY <1>3, <1>2, <1>8, <1>11, <2>1
<1>14. /\ t \in Seq(Ch) /\ Len(t) = o + (n - q)
       /\ \A i \in 1 .. o : t[i] = f[q].text[i]
       /\ \A i \in 1 .. n - q : t[o + i] = s[q + i]
  BY <1>1 DEF Joins
<1>15. PICK T : T = Len(t) /\ T = o + (n - q)
  BY <1>14
<1>16. InPlace(n, L, R, o, q, j, m, z, P, T)
  <2>1. P = o + j /\ T = o + (n - q)
    BY <1>1, <1>15
  <2>2. /\ n \in Nat /\ L \in Nat /\ R \in Nat /\ o \in Nat /\ q \in Nat /\ j \in Nat
        /\ m \in Nat /\ z \in Nat
    BY <1>3, <1>2, <1>5, <1>8, <1>13
  <2>3. q <= n /\ L > 0 /\ 1 <= j /\ m + 1 = q + j /\ z = m + L /\ z <= n
    BY <1>2, <1>5, <1>8, <1>11, <1>13
  <2> QED
    BY <2>1, <2>2, <2>3, SpliceSums
<1>17. /\ P - 1 = o + (m - q) /\ (o + (m - q) + R) + 1 = P + R
       /\ (o + (m - q) + R) + (n - z) = T + R - L
  BY <1>16, Zenon DEF InPlace
<1>19. PICK a, b : a = SubSeq(t, 1, P - 1) /\ b = SubSeq(t, P + L, Len(t))
  OBVIOUS
<1>20. ReplaceSubSeqAt(P, r, p, t) = (a \o r) \o b
  BY <1>1, <1>19 DEF ReplaceSubSeqAt
<1>21. Joins(a, Ch, f[q].text, s, q, m)
  <2>1. Joins(SubSeq(t, 1, Len(f[q].text) + (m - q)), Ch, f[q].text, s, q, m)
    <3>1. f[q].text \in Seq(Ch)
      BY ReaderType
    <3>2. Joins(t, Ch, f[q].text, s, q, n) /\ q \in Nat /\ m \in Nat /\ n \in Nat
      BY <1>1, <1>2, <1>8
    <3>3. q <= m /\ m <= n
      BY <1>8
    <3> QED
      BY <3>1, <3>2, <3>3, JoinsCut
  <2>2. P - 1 = Len(f[q].text) + (m - q)
    BY <1>1, <1>17
  <2> QED
    BY <1>19, <2>1, <2>2
<1>22. a = f[m].text
  <2>1. f[q].text \in Seq(Ch)
    BY ReaderType
  <2>2. q <= m
    BY <1>8
  <2> QED
    BY <1>2, <1>10, <1>21, <2>1, <2>2, JoinsOnce
<1>23. PICK w \in Seq(Ch), g \in Nat : w = a \o r /\ g = Len(w) /\ w = f[z].text /\ g = o + (m - q) + R
  <2>1. a \in Seq(Ch) /\ Len(a) = o + (m - q)
    BY <1>1, <1>21 DEF Joins
  <2>2. a \o r \in Seq(Ch) /\ Len(a \o r) = o + (m - q) + R
    BY <1>1, <2>1, ConcatProperties
  <2>3. o + (m - q) + R \in Nat
    BY <1>3, <1>2, <1>8
  <2> QED
    BY <1>12, <1>22, <2>2, <2>3
<1>24. /\ b \in Seq(Ch) /\ Len(b) = n - z
       /\ \A i \in 1 .. n - z : b[i] = s[z + i]
  <2>1. Rest(SubSeq(t, Len(f[q].text) + (z - q) + 1, Len(t)), Ch, s, z, n)
    <3>1. f[q].text \in Seq(Ch)
      BY ReaderType
    <3>2. Joins(t, Ch, f[q].text, s, q, n) /\ q \in Nat /\ z \in Nat /\ n \in Nat
      BY <1>1, <1>2, <1>13
    <3>3. q <= z /\ z <= n
      BY <1>2, <1>13
    <3> QED
      BY <3>1, <3>2, <3>3, JoinsRest
  <2>2. P + L = Len(f[q].text) + (z - q) + 1
    <3>1. P + L = o + (z - q) + 1
      BY <1>16, Zenon DEF InPlace
    <3> QED
      BY <1>1, <3>1
  <2> QED
    BY <1>19, <2>1, <2>2 DEF Rest
<1>25. PICK u : u = w \o b
  OBVIOUS
<1>26. /\ u \in Seq(Ch) /\ Len(u) = g + (n - z)
       /\ \A i \in 1 .. g + (n - z) : u[i] = IF i <= g THEN w[i] ELSE b[i - g]
  <2>2. /\ w \o b \in Seq(Ch) /\ Len(w \o b) = Len(w) + Len(b)
        /\ \A i \in 1 .. Len(w) + Len(b) :
              (w \o b)[i] = IF i <= Len(w) THEN w[i] ELSE b[i - Len(w)]
    <3>1. w \in Seq(Ch) /\ b \in Seq(Ch)
      BY <1>24
    <3> QED
      BY <3>1, ConcatProperties, Zenon
  <2> QED
    BY <1>23, <1>24, <1>25, <2>2
<1>27. Joins(u, Ch, w, s, z, n)
  <2>1. \A i \in 1 .. g : i \in 1 .. g + (n - z) /\ i <= g
    BY <1>13
  <2>2. \A i \in 1 .. n - z : g + i \in 1 .. g + (n - z) /\ ~ (g + i <= g) /\ (g + i) - g = i
    BY <1>13
  <2>3. \A i \in 1 .. n - z : u[g + i] = s[z + i]
    <3> TAKE i \in 1 .. n - z
    <3>1. u[g + i] = b[(g + i) - g]
      BY <1>26, <2>2
    <3> QED
      BY <1>24, <2>2, <3>1
  <2> QED
    BY <1>23, <1>26, <2>1, <2>3 DEF Joins
<1>28. g + 1 = P + R /\ g + (n - z) = Len(t) + R - L
  <2>1. g = o + (m - q) + R /\ g \in Nat
    BY <1>23
  <2>2. g + 1 = P + R /\ g + (n - z) = T + R - L
    BY <1>17, <2>1
  <2> QED
    BY <1>15, <2>2
<1>29. ReplaceSubSeqAt(P, r, p, t) = u
  BY <1>20, <1>23, <1>25
<1> QED
  BY <1>1, <1>12, <1>13, <1>23, <1>26, <1>27, <1>28, <1>29 DEF SplicedAt

\* What a round of c_strreplace has, and one that has come to the place q of s:
\* its text is what the reader has written there, with the rest of s.
Rounds(Ch) == [text : Seq(Ch), from : Nat, ended : BOOLEAN, ok : BOOLEAN]

RoundAt(x, k, q, Ch, s, size, p, r, f) ==
    /\ x \in Rounds(Ch) /\ q \in 0 .. Len(s) /\ AtEdge(f, q)
    /\ Joins(x.text, Ch, f[q].text, s, q, Len(s))
    /\ x.from = Len(f[q].text) + 1
    /\ ~ x.ended => k <= q /\ x.ok
    /\ (x.ended /\ x.ok) => NoneBehind(s, p, q)
    /\ ~ x.ok => ~ HasRoom(x.text, size, p, r)
    /\ Len(x.text) < size

GoodRound(x, k, Ch, s, size, p, r, f) == \E q : RoundAt(x, k, q, Ch, s, size, p, r, f)

\* Room for the longer of two is room for the second.
LEMMA RoomIsEnough ==
    ASSUME NEW Ch, NEW p \in Seq(Ch), NEW r \in Seq(Ch), NEW t \in Seq(Ch), NEW size \in Nat,
           HasRoom(t, size, p, r)
    PROVE  Len(t) + Len(r) - Len(p) < size
<1>1. PICK L \in Nat, R \in Nat, T \in Nat : L = Len(p) /\ R = Len(r) /\ T = Len(t)
  <2>1. Len(p) \in Nat /\ Len(r) \in Nat /\ Len(t) \in Nat
    OBVIOUS
  <2> QED
    BY <2>1
<1>2. PICK M : M = Max({L, R}) /\ M = Greater(L, R)
  BY MaxOfTwo
<1>3. size > T + M + 1
  BY <1>1, <1>2 DEF HasRoom
<1>4. M \in Nat /\ M >= R
  BY <1>2 DEF Greater
<1>5. T + R - L < size
  BY <1>3, <1>4
<1> QED
  BY <1>1, <1>5

\* A round that comes to an end.
LEMMA RoundEnds ==
    ASSUME NEW Ch, NEW s \in Seq(Ch), NEW p \in Seq(Ch), NEW r \in Seq(Ch), NEW size \in Nat,
           NEW f, NEW k \in Nat, NEW x, NEW q, RoundAt(x, k, q, Ch, s, size, p, r, f),
           NEW ok \in BOOLEAN, NEW y, y = [x EXCEPT !.ended = TRUE, !.ok = ok],
           ok => NoneBehind(s, p, q), ~ ok => ~ HasRoom(x.text, size, p, r)
    PROVE  RoundAt(y, k + 1, q, Ch, s, size, p, r, f)
<1>1. x \in Rounds(Ch)
  BY DEF RoundAt
<1>2. y \in Rounds(Ch) /\ y.text = x.text /\ y.from = x.from /\ y.ended = TRUE /\ y.ok = ok
  BY <1>1 DEF Rounds
<1> QED
  BY <1>2 DEF RoundAt

\* A round that goes on.
LEMMA RoundReplaces ==
    ASSUME NEW Ch, NEW s \in Seq(Ch), NEW p \in Seq(Ch), NEW r \in Seq(Ch), p # <<>>,
           NEW size \in Nat, NEW f \in Reader(Ch, s, p, r), NEW k \in Nat, NEW x, NEW q,
           RoundAt(x, k, q, Ch, s, size, p, r, f), ~ x.ended,
           NEW P, P - Len(f[q].text) \in FirstBehind(s, p, q), P \in Nat,
           HasRoom(x.text, size, p, r), NEW y,
           y = [x EXCEPT !.text = ReplaceSubSeqAt(P, r, p, x.text), !.from = P + Len(r)]
    PROVE  GoodRound(y, k + 1, Ch, s, size, p, r, f)
<1>1. /\ x \in Rounds(Ch) /\ q \in 0 .. Len(s) /\ AtEdge(f, q) /\ x.text \in Seq(Ch)
      /\ Joins(x.text, Ch, f[q].text, s, q, Len(s)) /\ k <= q /\ x.ok = TRUE
      /\ x.ended = FALSE
  BY DEF RoundAt, Rounds
<1>2. PICK o \in Nat : o = Len(f[q].text)
  <2>1. f[q].text \in Seq(Ch)
    BY <1>1, ReaderType
  <2> QED
    BY <2>1, LenProperties
<1>3. PICK j \in FirstBehind(s, p, q) : P = o + j
  <2>1. P - o \in FirstBehind(s, p, q)
    BY <1>2
  <2>2. P = o + (P - o)
    OBVIOUS
  <2> QED
    BY <2>1, <2>2
<1>4. P = Len(f[q].text) + j
  BY <1>2, <1>3
<1>5. PICK z : z = q + j - 1 + Len(p)
  OBVIOUS
<1>6. PICK u : u = ReplaceSubSeqAt(P, r, p, x.text)
  OBVIOUS
<1>7. /\ z \in 0 .. Len(s) /\ q < z /\ AtEdge(f, z)
      /\ Joins(u, Ch, f[z].text, s, z, Len(s))
      /\ Len(f[z].text) + 1 = P + Len(r)
      /\ Len(u) = Len(x.text) + Len(r) - Len(p)
  <2>1. PICK t : t = x.text /\ Joins(t, Ch, f[q].text, s, q, Len(s))
    BY <1>1
  <2>2. SplicedAt(Ch, s, p, r, f, q, t, P, z)
    BY <1>1, <1>4, <1>5, <2>1, Spliced
  <2> QED
    BY <1>6, <2>1, <2>2 DEF SplicedAt
<1>8. u \in Seq(Ch) /\ P + Len(r) \in Nat
  <2>1. u \in Seq(Ch)
    BY <1>7 DEF Joins
  <2>2. Len(r) \in Nat
    OBVIOUS
  <2> QED
    BY <2>1, <2>2
<1>9. /\ y \in Rounds(Ch) /\ y.text = u /\ y.from = P + Len(r) /\ y.ended = FALSE
      /\ y.ok = TRUE
  BY <1>1, <1>6, <1>8 DEF Rounds
<1>10. Len(u) < size
  BY <1>1, <1>7, RoomIsEnough
<1>11. k + 1 <= z
  <2>1. q \in Nat /\ z \in Nat /\ q < z /\ k <= q
    <3>1. Len(s) \in Nat
      OBVIOUS
    <3>2. q \in 0 .. Len(s) /\ z \in 0 .. Len(s)
      BY <1>1, <1>7
    <3> QED
      BY <1>1, <1>7, <3>1, <3>2
  <2> QED
    BY <2>1
<1>12. RoundAt(y, k + 1, z, Ch, s, size, p, r, f)
  BY <1>7, <1>9, <1>10, <1>11 DEF RoundAt
<1> QED
  BY <1>12 DEF GoodRound

\* Every round keeps to it.
LEMMA RoundKept ==
    ASSUME NEW Ch, NEW s \in Seq(Ch), NEW p \in Seq(Ch), NEW r \in Seq(Ch), p # <<>>,
           NEW size \in Nat, NEW f \in Reader(Ch, s, p, r), NEW k \in Nat, NEW x,
           GoodRound(x, k, Ch, s, size, p, r, f)
    PROVE  GoodRound(ReplaceOnce(x, size, p, r), k + 1, Ch, s, size, p, r, f)
<1>1. PICK q : RoundAt(x, k, q, Ch, s, size, p, r, f)
  BY DEF GoodRound
<1>2. /\ x \in Rounds(Ch) /\ q \in 0 .. Len(s) /\ x.text \in Seq(Ch)
      /\ Joins(x.text, Ch, f[q].text, s, q, Len(s)) /\ x.from = Len(f[q].text) + 1
      /\ x.ended \in BOOLEAN /\ x.ok \in BOOLEAN
  BY <1>1 DEF RoundAt, Rounds
<1>3. f[q].text \in Seq(Ch)
  BY <1>2, ReaderType
<1>4. PICK P : P = strstr(x.text, p, x.from)
  OBVIOUS
<1>5. \/ P = 0 /\ NoneBehind(s, p, q)
      \/ P \in Nat \ {0} /\ P - Len(f[q].text) \in FirstBehind(s, p, q)
  <2>1. P = strstr(x.text, p, Len(f[q].text) + 1)
    BY <1>2, <1>4
  <2> QED
    BY <1>2, <1>3, <2>1, StrstrFinds
<1>6. PICK y : y = ReplaceOnce(x, size, p, r)
  OBVIOUS
<1>7. CASE x.ended \/ P = 0
  <2>1. y = [x EXCEPT !.ended = TRUE]
    BY <1>4, <1>6, <1>7 DEF ReplaceOnce
  <2>2. y = [x EXCEPT !.ended = TRUE, !.ok = x.ok]
    BY <1>2, <2>1 DEF Rounds
  <2>3. x.ok => NoneBehind(s, p, q)
    <3>1. CASE x.ended
      BY <1>1, <3>1 DEF RoundAt
    <3>2. CASE P = 0
      BY <1>5, <3>2
    <3> QED
      BY <1>7, <3>1, <3>2
  <2>4. ~ x.ok => ~ HasRoom(x.text, size, p, r)
    BY <1>1 DEF RoundAt
  <2>5. RoundAt(y, k + 1, q, Ch, s, size, p, r, f)
    BY <1>1, <1>2, <2>2, <2>3, <2>4, RoundEnds
  <2> QED
    BY <1>6, <2>5 DEF GoodRound
<1>8. CASE ~ (x.ended \/ P = 0) /\ ~ HasRoom(x.text, size, p, r)
  <2>1. y = [x EXCEPT !.ended = TRUE, !.ok = FALSE]
    BY <1>4, <1>6, <1>8 DEF ReplaceOnce
  <2>2. PICK ok \in BOOLEAN : ok = FALSE
    OBVIOUS
  <2>3. RoundAt(y, k + 1, q, Ch, s, size, p, r, f)
    BY <1>1, <1>8, <2>1, <2>2, RoundEnds
  <2> QED
    BY <1>6, <2>3 DEF GoodRound
<1>9. CASE ~ (x.ended \/ P = 0) /\ HasRoom(x.text, size, p, r)
  <2>1. y = [x EXCEPT !.text = ReplaceSubSeqAt(P, r, p, x.text), !.from = P + Len(r)]
    BY <1>4, <1>6, <1>9 DEF ReplaceOnce, SearchFrom
  <2>2. P - Len(f[q].text) \in FirstBehind(s, p, q) /\ P \in Nat
    BY <1>5, <1>9
  <2>3. GoodRound(y, k + 1, Ch, s, size, p, r, f)
    BY <1>1, <1>9, <2>1, <2>2, RoundReplaces
  <2> QED
    BY <1>6, <2>3
<1> QED
  BY <1>7, <1>8, <1>9

\* The first round is good.
LEMMA FirstRound ==
    ASSUME NEW Ch, NEW s \in Seq(Ch), NEW p \in Seq(Ch), NEW r \in Seq(Ch),
           NEW size \in Nat, Len(s) < size, NEW f \in Reader(Ch, s, p, r)
    PROVE  GoodRound([text |-> s, from |-> 1, ended |-> FALSE, ok |-> TRUE], 0,
                     Ch, s, size, p, r, f)
<1>1. PICK x : x = [text |-> s, from |-> 1, ended |-> FALSE, ok |-> TRUE]
  OBVIOUS
<1>2. x \in Rounds(Ch)
  BY <1>1 DEF Rounds
<1>3. f[0].text = <<>> /\ f[0].next = 1
  BY DEF Reader
<1>4. PICK n \in Nat : n = Len(s)
  <2>1. Len(s) \in Nat
    OBVIOUS
  <2> QED
    BY <2>1
<1>5. Joins(s, Ch, f[0].text, s, 0, Len(s))
  <2>1. Len(f[0].text) = 0
    BY <1>3
  <2>2. 1 .. 0 = {} /\ n = 0 + (n - 0) /\ n - 0 = n /\ \A i \in 1 .. n : 0 + i = i
    OBVIOUS
  <2> QED
    BY <1>4, <2>1, <2>2 DEF Joins
<1>6. x.text = s /\ x.from = Len(f[0].text) + 1 /\ 0 \in 0 .. Len(s) /\ AtEdge(f, 0)
  BY <1>1, <1>3, <1>4 DEF AtEdge
<1>7. RoundAt(x, 0, 0, Ch, s, size, p, r, f)
  BY <1>1, <1>2, <1>5, <1>6 DEF RoundAt
<1> QED
  BY <1>1, <1>7 DEF GoodRound

\* The last one says what c_strreplace returns.
LastRounds(Ch, s, size, p, r, f) ==
    {x \in Rounds(Ch) : /\ GoodRound(x, Len(s) + 1, Ch, s, size, p, r, f)
                        /\ c_strreplace(s, size, p, r) = <<x.text, x.ok>>}

\* The rounds of c_strreplace exist, and there is a last one.
LEMMA StrreplaceDef ==
    ASSUME NEW Ch, NEW s \in Seq(Ch), NEW p \in Seq(Ch), NEW r \in Seq(Ch), p # <<>>,
           NEW size \in Nat, Len(s) < size, NEW f \in Reader(Ch, s, p, r)
    PROVE  LastRounds(Ch, s, size, p, r, f) # {}
<1> DEFINE n == Len(s) + 1
           Good(x, k) == GoodRound(x, k, Ch, s, size, p, r, f)
           V == {x \in Rounds(Ch) : \E k \in Nat : Good(x, k)}
           b == [text |-> s, from |-> 1, ended |-> FALSE, ok |-> TRUE]
           step == [k \in 1 .. n |-> [v \in V |-> ReplaceOnce(v, size, p, r)]]
           Body(g) == [k \in 0 .. n |-> IF k = 0
                                        THEN [text |-> s, from |-> 1, ended |-> FALSE, ok |-> TRUE]
                                        ELSE ReplaceOnce(g[k - 1], size, p, r)]
           rounds == CHOOSE g : g = Body(g)
<1>1. n \in Nat
  OBVIOUS
<1>2. c_strreplace(s, size, p, r) = <<rounds[n].text, rounds[n].ok>>
  BY DEF c_strreplace
<1>3. Good(b, 0)
  BY FirstRound
<1>4. \A x, k : Good(x, k) => x \in Rounds(Ch)
  BY DEF GoodRound, RoundAt
<1>5. ASSUME NEW k \in Nat, NEW x, Good(x, k)
      PROVE  Good(ReplaceOnce(x, size, p, r), k + 1)
  BY <1>5, RoundKept
<1> HIDE DEF Good, n
<1>6. b \in V
  <2> HIDE DEF b
  <2> QED
    BY <1>3, <1>4
<1>7. \A x \in V : ReplaceOnce(x, size, p, r) \in V
  <2> TAKE x \in V
  <2>1. PICK k \in Nat : Good(x, k)
    OBVIOUS
  <2>2. Good(ReplaceOnce(x, size, p, r), k + 1) /\ k + 1 \in Nat
    BY <1>5, <2>1
  <2> QED
    BY <1>4, <2>2
<1> HIDE DEF V
<1>8. step \in [1 .. n -> [V -> V]]
  BY <1>7
<1>9. PICK g \in [0 .. n -> V] : g[0] = b /\ \A i \in 1 .. n : g[i] = step[i][g[i - 1]]
  <2> HIDE DEF step, b
  <2>1. Runs(V, b, n, step) # {}
    BY <1>1, <1>6, <1>8, Recursion
  <2> QED
    BY <2>1 DEF Runs
<1>10. \A k \in 1 .. n : g[k] = ReplaceOnce(g[k - 1], size, p, r)
  <2> TAKE k \in 1 .. n
  <2>1. k - 1 \in 0 .. n
    BY <1>1
  <2> HIDE DEF b
  <2> QED
    BY <1>9, <2>1
<1>11. g = Body(g)
  <2> SUFFICES ASSUME NEW i \in 0 .. n PROVE g[i] = Body(g)[i]
    OBVIOUS
  <2>1. CASE i = 0
    BY <1>9, <2>1
  <2>2. CASE i # 0
    <3>1. i \in 1 .. n
      BY <1>1, <2>2
    <3> QED
      BY <1>10, <2>2, <3>1
  <2> QED
    BY <2>1, <2>2
<1>12. rounds = Body(rounds)
  <2> HIDE DEF Body
  <2> QED
    BY <1>11
<1> HIDE DEF rounds
<1>13. rounds[0] = b /\ \A k \in 1 .. n : rounds[k] = ReplaceOnce(rounds[k - 1], size, p, r)
  <2>1. 0 \in 0 .. n /\ \A k \in 1 .. n : k \in 0 .. n /\ k # 0
    BY <1>1
  <2>2. \A k \in 0 .. n : rounds[k] = IF k = 0 THEN b ELSE ReplaceOnce(rounds[k - 1], size, p, r)
    BY <1>12
  <2> HIDE DEF b
  <2> QED
    BY <2>1, <2>2
<1> DEFINE S == {k \in Nat : k <= n => Good(rounds[k], k)}
<1>14. \A k \in Nat : k \in S
  <2>1. 0 \in S
    <3> HIDE DEF b
    <3> QED
      BY <1>3, <1>13
  <2>2. ASSUME NEW k \in Nat, k \in S PROVE k + 1 \in S
    <3> SUFFICES ASSUME k + 1 <= n PROVE Good(rounds[k + 1], k + 1)
      OBVIOUS
    <3>1. k + 1 \in 1 .. n /\ (k + 1) - 1 = k /\ k <= n
      BY <1>1
    <3>2. Good(rounds[k], k) /\ rounds[k + 1] = ReplaceOnce(rounds[k], size, p, r)
      BY <1>13, <2>2, <3>1
    <3> QED
      BY <1>5, <3>2
  <2> HIDE DEF S
  <2> QED
    BY <2>1, <2>2, Induction
<1>15. Good(rounds[n], n)
  BY <1>1, <1>14
<1> QED
  BY <1>2, <1>4, <1>15 DEF LastRounds, Good, n

\* What c_strreplace does.
IsReplaced(Ch, s, size, p, r) ==
    /\ Rewritten(s, p, r) \in Seq(Ch)
    /\ c_strreplace(s, size, p, r)[1] \in Seq(Ch)
    /\ Len(c_strreplace(s, size, p, r)[1]) < size
    /\ c_strreplace(s, size, p, r)[2] => c_strreplace(s, size, p, r)[1] = Rewritten(s, p, r)
    /\ size > Max({Len(s), Len(Rewritten(s, p, r))}) + (Max({Len(p), Len(r)}) + 1)
          => c_strreplace(s, size, p, r)[2]

\* It does so for every text, pattern, replacement and buffer.
LEMMA Replaced ==
    ASSUME NEW Ch, NEW s \in Seq(Ch), NEW p \in Seq(Ch), NEW r \in Seq(Ch), p # <<>>,
           NEW size \in Nat, Len(s) < size
    PROVE  IsReplaced(Ch, s, size, p, r)
<1>1. PICK f : f \in Reader(Ch, s, p, r)
  BY RewrittenDef
<1>2. PICK x \in Rounds(Ch) : /\ GoodRound(x, Len(s) + 1, Ch, s, size, p, r, f)
                              /\ c_strreplace(s, size, p, r) = <<x.text, x.ok>>
  <2>1. LastRounds(Ch, s, size, p, r, f) # {}
    BY <1>1, StrreplaceDef
  <2> QED
    BY <2>1 DEF LastRounds
<1>3. PICK q : RoundAt(x, Len(s) + 1, q, Ch, s, size, p, r, f)
  BY <1>2 DEF GoodRound
<1>4. PICK n \in Nat : n = Len(s)
  <2>1. Len(s) \in Nat
    OBVIOUS
  <2> QED
    BY <2>1
<1>5. PICK w, t : w = Rewritten(s, p, r) /\ t = x.text
  OBVIOUS
<1>6. /\ \A k \in 0 .. n : f[k].text \in Seq(Ch) /\ f[k].next \in Nat
      /\ w = f[n].text
  <2>1. \A k \in 0 .. n : f[k].text \in Seq(Ch) /\ f[k].next \in Nat
    BY <1>1, <1>4, <1>5, ReaderType
  <2> QED
    BY <1>1, <1>4, <1>5, <2>1 DEF Reader
<1>7. w \in Seq(Ch)
  BY <1>6
<1>8. /\ q \in 0 .. n /\ AtEdge(f, q) /\ t \in Seq(Ch)
      /\ Joins(t, Ch, f[q].text, s, q, n) /\ Len(t) < size
      /\ (x.ended /\ x.ok) => NoneBehind(s, p, q)
      /\ ~ x.ended => n + 1 <= q
      /\ ~ x.ok => ~ HasRoom(t, size, p, r)
  BY <1>3, <1>4, <1>5 DEF RoundAt, Rounds
<1>9. x.ended
  <2>1. ~ (n + 1 <= q)
    BY <1>8
  <2> QED
    BY <1>8, <2>1
<1>10. ASSUME x.ok PROVE t = w
  <2>1. NoneBehind(s, p, q)
    BY <1>8, <1>9, <1>10
  <2>2. \A i \in q + 1 .. Len(s) : ~ Occurs(s, i, p)
    BY <2>1 DEF NoneBehind
  <2>3. q \in 0 .. Len(s) /\ Len(s) \in q .. Len(s) /\ q \in Nat /\ q <= n
    BY <1>4, <1>5, <1>8
  <2>4. Joins(f[Len(s)].text, Ch, f[q].text, s, q, Len(s))
    BY <1>1, <1>8, <2>2, <2>3, ReaderCopies
  <2>5. Joins(w, Ch, f[q].text, s, q, n)
    BY <1>4, <1>5, <1>6, <2>4
  <2> QED
    BY <1>6, <1>8, <2>3, <2>5, JoinsOnce
<1>11. ASSUME ~ x.ok
       PROVE  ~ (size > Max({Len(s), Len(w)}) + (Max({Len(p), Len(r)}) + 1))
  <2>1. PICK L \in Nat, R \in Nat, W \in Nat, T \in Nat, o \in Nat :
           L = Len(p) /\ R = Len(r) /\ W = Len(w) /\ T = Len(t) /\ o = Len(f[q].text)
    <3>1. f[q].text \in Seq(Ch)
      BY <1>6, <1>8
    <3>2. /\ Len(p) \in Nat /\ Len(r) \in Nat /\ Len(w) \in Nat /\ Len(t) \in Nat
          /\ Len(f[q].text) \in Nat
      BY <1>7, <1>8, <3>1, LenProperties
    <3> QED
      BY <3>2
  <2>2. PICK M, N : M = Max({L, R}) /\ N = Max({n, W})
    OBVIOUS
  <2>3. M \in Nat /\ N \in Nat /\ n <= N /\ W <= N
    <3>1. M = Greater(L, R) /\ N = Greater(n, W)
      BY <2>2, MaxOfTwo
    <3> QED
      BY <3>1 DEF Greater
  <2>4. ~ (size > T + M + 1)
    BY <1>8, <1>11, <2>1, <2>2 DEF HasRoom
  <2>5. T <= n \/ T <= W
    <3>1. LengthAt(f, s, q) <= Len(s) \/ LengthAt(f, s, q) <= Len(Rewritten(s, p, r))
      BY <1>1, <1>4, <1>5, <1>8, ReaderLength
    <3>2. LengthAt(f, s, q) = o + (n + 1) - (q + 1)
      BY <1>4, <1>5, <1>8, <2>1 DEF LengthAt, AtEdge
    <3>3. T = o + (n - q)
      BY <1>8, <2>1 DEF Joins
    <3>4. o + (n + 1) - (q + 1) <= n \/ o + (n + 1) - (q + 1) <= W
      BY <1>4, <1>5, <2>1, <3>1, <3>2
    <3>5. q \in Nat
      BY <1>8
    <3> QED
      BY <3>3, <3>4, <3>5
  <2>6. ~ (size > N + (M + 1))
    BY <2>3, <2>4, <2>5
  <2> QED
    BY <1>4, <1>5, <2>1, <2>2, <2>6
<1>12. c_strreplace(s, size, p, r)[1] = t /\ c_strreplace(s, size, p, r)[2] = x.ok
  BY <1>2, <1>4, <1>5
<1> QED
  BY <1>4, <1>5, <1>7, <1>8, <1>10, <1>11, <1>12 DEF IsReplaced

-----------------------------------------------------------------------------
(* Helper routines: escaping an attribute.                                 *)

\* Induction over sequences, with a set in place of a formula.
LEMMA SeqInduction ==
    ASSUME NEW Ch, NEW S, <<>> \in S,
           \A s \in Seq(Ch), x \in Ch : s \in S => Append(s, x) \in S
    PROVE  \A s \in Seq(Ch) : s \in S
<1> DEFINE T == {k \in Nat : \A s \in Seq(Ch) : Len(s) = k => s \in S}
<1>1. 0 \in T
  <2>1. \A s \in Seq(Ch) : Len(s) = 0 => s = <<>>
    OBVIOUS
  <2> QED
    BY <2>1
<1>2. ASSUME NEW k \in Nat, k \in T PROVE k + 1 \in T
  <2> SUFFICES ASSUME NEW s \in Seq(Ch), Len(s) = k + 1 PROVE s \in S
    OBVIOUS
  <2>1. k + 1 \in 1 .. Len(s) /\ k \in Int /\ 1 \in Int
    OBVIOUS
  <2>2. PICK t : t = SubSeq(s, 1, k)
    OBVIOUS
  <2>3. t \in Seq(Ch) /\ Len(t) = k /\ \A i \in 1 .. k : t[i] = s[i]
    <3>1. \A i \in 1 .. k : s[i] \in Ch
      OBVIOUS
    <3>2. /\ SubSeq(s, 1, k) \in Seq(Ch)
          /\ Len(SubSeq(s, 1, k)) = IF 1 <= k THEN k - 1 + 1 ELSE 0
          /\ \A i \in 1 .. k - 1 + 1 : SubSeq(s, 1, k)[i] = s[1 + i - 1]
      BY <2>1, <3>1, SubSeqProperties
    <3>3. k - 1 + 1 = k /\ (~ (1 <= k) => k = 0) /\ \A i \in 1 .. k : 1 + i - 1 = i
      OBVIOUS
    <3> QED
      BY <2>2, <3>2, <3>3
  <2>4. PICK x \in Ch : x = s[k + 1]
    BY <2>1
  <2>5. Append(t, x) = s
    <3>1. PICK u : u = Append(t, x)
      OBVIOUS
    <3>2. /\ u \in Seq(Ch) /\ Len(u) = k + 1 /\ u[k + 1] = x
          /\ \A i \in 1 .. k : u[i] = t[i]
      BY <2>3, <3>1, AppendProperties
    <3>3. \A i \in 1 .. k + 1 : i \in 1 .. k \/ i = k + 1
      OBVIOUS
    <3>4. \A i \in 1 .. k + 1 : u[i] = s[i]
      BY <2>3, <2>4, <3>2, <3>3
    <3>5. u = s
      BY <3>2, <3>4, SeqEqual
    <3> QED
      BY <3>1, <3>5
  <2>6. t \in S
    BY <1>2, <2>3
  <2> QED
    BY <2>3, <2>5, <2>6
<1>3. \A k \in Nat : k \in T
  <2> HIDE DEF T
  <2> QED
    BY <1>1, <1>2, Induction
<1> QED
  BY <1>3, LenProperties

\* Ways to spell characters, and a text with every character spelled as m says.
Spellings(Ch) == {m \in [Ch -> Seq(Ch)] : \A x \in Ch : m[x] # <<>>}

Spell(m, s) == FlattenSeq([i \in 1 .. Len(s) |-> m[s[i]]])

\* Nothing is spelled as nothing.
LEMMA SpellEmpty ==
    ASSUME NEW m
    PROVE  Spell(m, <<>>) = <<>>
<1>1. Len(<<>>) = 0 /\ 1 .. 0 = {}
  OBVIOUS
<1>2. [i \in 1 .. Len(<<>>) |-> m[<<>>[i]]] = <<>>
  BY <1>1
<1>3. FlattenSeq(<<>>) = <<>>
  BY DEF FlattenSeq
<1> QED
  BY <1>2, <1>3 DEF Spell

\* One character more is spelled behind the others.
LEMMA SpellAppend ==
    ASSUME NEW Ch, NEW m \in Spellings(Ch), NEW s \in Seq(Ch), NEW x \in Ch
    PROVE  Spell(m, Append(s, x)) = Spell(m, s) \o m[x]
<1>0. m \in [Ch -> Seq(Ch)]
  BY DEF Spellings
<1>1. PICK t : t = Append(s, x)
  OBVIOUS
<1>2. PICK n \in Nat : n = Len(s)
  <2>1. Len(s) \in Nat
    OBVIOUS
  <2> QED
    BY <2>1
<1>3. /\ t \in Seq(Ch) /\ Len(t) = n + 1 /\ t[n + 1] = x /\ \A i \in 1 .. n : t[i] = s[i]
  BY <1>1, <1>2, AppendProperties
<1>4. PICK ss, tt, y : /\ ss = [i \in 1 .. n |-> m[s[i]]] /\ tt = [i \in 1 .. n + 1 |-> m[t[i]]]
                       /\ y = m[x]
  OBVIOUS
<1>5. /\ ss \in Seq(Seq(Ch)) /\ Len(ss) = n /\ y \in Seq(Ch)
      /\ tt \in Seq(Seq(Ch)) /\ Len(tt) = n + 1
  <2>1. \A i \in 1 .. n : m[s[i]] \in Seq(Ch)
    <3>1. \A i \in 1 .. n : s[i] \in Ch
      BY <1>2
    <3> QED
      BY <1>0, <3>1
  <2>2. \A i \in 1 .. n + 1 : m[t[i]] \in Seq(Ch)
    <3>1. \A i \in 1 .. n + 1 : t[i] \in Ch
      BY <1>3
    <3> QED
      BY <1>0, <3>1
  <2>3. ss \in Seq(Seq(Ch)) /\ Len(ss) = n
    <3>1. ss \in [1 .. n -> Seq(Ch)]
      BY <1>4, <2>1
    <3> QED
      BY <3>1
  <2>4. tt \in Seq(Seq(Ch)) /\ Len(tt) = n + 1
    BY <1>4, <2>2
  <2> QED
    BY <1>0, <1>4, <2>3, <2>4
<1>6. Append(ss, y) = tt
  <2>1. PICK u : u = Append(ss, y)
    OBVIOUS
  <2>2. /\ u \in Seq(Seq(Ch)) /\ Len(u) = n + 1 /\ u[n + 1] = y
        /\ \A i \in 1 .. n : u[i] = ss[i]
    BY <1>5, <2>1, AppendProperties
  <2>3. \A i \in 1 .. n : i \in 1 .. n + 1 /\ ss[i] = tt[i]
    BY <1>3, <1>4
  <2>4. tt[n + 1] = y
    BY <1>3, <1>4
  <2>5. \A i \in 1 .. n + 1 : i \in 1 .. n \/ i = n + 1
    OBVIOUS
  <2>6. \A i \in 1 .. n + 1 : u[i] = tt[i]
    BY <2>2, <2>3, <2>4, <2>5
  <2>7. u = tt
    BY <1>5, <2>2, <2>6, SeqEqual
  <2> QED
    BY <2>1, <2>7
<1>7. FlattenSeq(Append(ss, y)) = FlattenSeq(ss) \o y
  BY <1>5, FlattenAppend
<1>8. Spell(m, s) = FlattenSeq(ss)
  BY <1>2, <1>4 DEF Spell
<1>9. Spell(m, t) = FlattenSeq(tt)
  BY <1>3, <1>4 DEF Spell
<1> QED
  BY <1>1, <1>4, <1>6, <1>7, <1>8, <1>9

\* What is spelled is a text, and not a shorter one.
LEMMA SpellType ==
    ASSUME NEW Ch, NEW m \in Spellings(Ch)
    PROVE  \A s \in Seq(Ch) : Spell(m, s) \in Seq(Ch) /\ Len(s) <= Len(Spell(m, s))
<1>0. \A x \in Ch : m[x] \in Seq(Ch) /\ m[x] # <<>>
  BY DEF Spellings
<1> DEFINE S == {s \in Seq(Ch) : Spell(m, s) \in Seq(Ch) /\ Len(s) <= Len(Spell(m, s))}
<1>1. <<>> \in S
  <2>1. <<>> \in Seq(Ch) /\ Len(<<>>) = 0
    BY EmptySeq
  <2>2. PICK e : e = <<>> /\ e \in Seq(Ch) /\ Spell(m, e) = e
    BY <2>1, SpellEmpty
  <2>3. Len(e) <= Len(e)
    BY <2>1, <2>2
  <2> QED
    BY <2>2, <2>3
<1>2. ASSUME NEW s \in Seq(Ch), NEW x \in Ch, s \in S PROVE Append(s, x) \in S
  <2>1. PICK a, y : a = Spell(m, s) /\ y = m[x] /\ a \in Seq(Ch) /\ y \in Seq(Ch)
                    /\ Len(s) <= Len(a) /\ y # <<>>
    BY <1>0, <1>2
  <2>2. Spell(m, Append(s, x)) = a \o y
    BY <2>1, SpellAppend
  <2>3. a \o y \in Seq(Ch) /\ Len(a \o y) = Len(a) + Len(y)
    BY <2>1, ConcatProperties
  <2>4. Append(s, x) \in Seq(Ch) /\ Len(Append(s, x)) = Len(s) + 1
    BY AppendProperties
  <2>5. Len(s) + 1 <= Len(a) + Len(y)
    <3>1. PICK i \in Nat, j \in Nat, k \in Nat : i = Len(s) /\ j = Len(a) /\ k = Len(y) /\ k > 0
      <4>1. Len(s) \in Nat /\ Len(a) \in Nat /\ Len(y) \in Nat /\ Len(y) > 0
        BY <2>1
      <4> QED
        BY <4>1
    <3>2. i <= j
      BY <2>1, <3>1
    <3>3. i + 1 <= j + k
      BY <3>1, <3>2
    <3> QED
      BY <3>1, <3>3
  <2> QED
    BY <2>2, <2>3, <2>4, <2>5
<1>3. \A s \in Seq(Ch) : s \in S
  <2> HIDE DEF S
  <2> QED
    BY <1>1, <1>2, SeqInduction
<1> QED
  BY <1>3

\* Three texts in a row, and one character more.
Associates(a, b, c) == (a \o b) \o c = a \o (b \o c)
OneMoreIs(a, b, x) == a \o Append(b, x) = Append(a \o b, x)

\* It does not matter which two are joined first.
LEMMA InARow ==
    ASSUME NEW Ch, NEW a \in Seq(Ch), NEW b \in Seq(Ch), NEW c \in Seq(Ch)
    PROVE  Associates(a, b, c)
  BY ConcatAssociative DEF Associates

\* A character behind two texts is one behind the second of them.
LEMMA OneMore ==
    ASSUME NEW Ch, NEW a \in Seq(Ch), NEW b \in Seq(Ch), NEW x \in Ch
    PROVE  OneMoreIs(a, b, x)
<1>1. PICK e : e = <<x>> /\ e \in Seq(Ch)
  <2>1. <<x>> \in Seq(Ch)
    OBVIOUS
  <2> QED
    BY <2>1
<1>2. PICK c : c = a \o b /\ c \in Seq(Ch)
  BY ConcatProperties
<1>3. Append(b, x) = b \o e /\ Append(c, x) = c \o e
  BY <1>1, <1>2, AppendIsConcat
<1>4. (a \o b) \o e = a \o (b \o e)
  BY <1>1, InARow DEF Associates
<1> QED
  BY <1>2, <1>3, <1>4 DEF OneMoreIs

\* A text of two parts.
SpellsParts(m, a, c) == Spell(m, a \o c) = Spell(m, a) \o Spell(m, c)

\* They are spelled one after the other.
LEMMA SpellConcat ==
    ASSUME NEW Ch, NEW m \in Spellings(Ch), NEW a \in Seq(Ch), NEW c \in Seq(Ch)
    PROVE  SpellsParts(m, a, c)
<1> DEFINE S == {b \in Seq(Ch) : Spell(m, a \o b) = Spell(m, a) \o Spell(m, b)}
<1>1. \A s \in Seq(Ch) : Spell(m, s) \in Seq(Ch)
  BY SpellType
<1>0. \A x \in Ch : m[x] \in Seq(Ch)
  BY DEF Spellings
<1>2. <<>> \in S
  <2>1. <<>> \in Seq(Ch) /\ a \o <<>> = a
    BY EmptySeq, ConcatEmptySeq
  <2>2. Spell(m, a) \o <<>> = Spell(m, a)
    BY <1>1, ConcatEmptySeq
  <2> QED
    BY <2>1, <2>2, SpellEmpty
<1>3. ASSUME NEW b \in Seq(Ch), NEW x \in Ch, b \in S PROVE Append(b, x) \in S
  <2>1. PICK A, B, y : /\ A = Spell(m, a) /\ B = Spell(m, b) /\ y = m[x]
                       /\ A \in Seq(Ch) /\ B \in Seq(Ch) /\ y \in Seq(Ch)
    BY <1>0, <1>1
  <2>2. PICK d : d = a \o b /\ d \in Seq(Ch)
    BY ConcatProperties
  <2>3. a \o Append(b, x) = Append(d, x)
    <3>1. OneMoreIs(a, b, x)
      BY OneMore
    <3> QED
      BY <2>2, <3>1 DEF OneMoreIs
  <2>4. Spell(m, Append(d, x)) = Spell(m, d) \o y /\ Spell(m, Append(b, x)) = B \o y
    BY <2>1, <2>2, SpellAppend
  <2>5. Spell(m, d) = A \o B
    BY <1>3, <2>1, <2>2
  <2>6. (A \o B) \o y = A \o (B \o y)
    <3>1. A \in Seq(Ch) /\ B \in Seq(Ch) /\ y \in Seq(Ch)
      BY <2>1
    <3>2. Associates(A, B, y)
      BY <3>1, InARow
    <3> QED
      BY <3>2 DEF Associates
  <2>7. Append(b, x) \in Seq(Ch)
    BY AppendProperties
  <2> QED
    BY <2>1, <2>3, <2>4, <2>5, <2>6, <2>7
<1>4. \A b \in Seq(Ch) : b \in S
  <2> HIDE DEF S
  <2> QED
    BY <1>2, <1>3, SeqInduction
<1> QED
  BY <1>4 DEF SpellsParts

\* Spelling what was spelled.
LEMMA SpellTwice ==
    ASSUME NEW Ch, NEW m1 \in Spellings(Ch), NEW m2 \in Spellings(Ch),
           NEW m3 \in Spellings(Ch), \A x \in Ch : m3[x] = Spell(m2, m1[x]),
           NEW v \in Seq(Ch)
    PROVE  Spell(m2, Spell(m1, v)) = Spell(m3, v)
<1>0. \A x \in Ch : m1[x] \in Seq(Ch)
  BY DEF Spellings
<1> DEFINE S == {s \in Seq(Ch) : Spell(m2, Spell(m1, s)) = Spell(m3, s)}
<1>1. \A s \in Seq(Ch) : Spell(m1, s) \in Seq(Ch)
  BY SpellType
<1>2. <<>> \in S
  <2>1. <<>> \in Seq(Ch)
    BY EmptySeq
  <2> QED
    BY <2>1, SpellEmpty
<1>3. ASSUME NEW s \in Seq(Ch), NEW x \in Ch, s \in S PROVE Append(s, x) \in S
  <2>1. PICK a, y : a = Spell(m1, s) /\ y = m1[x] /\ a \in Seq(Ch) /\ y \in Seq(Ch)
    BY <1>0, <1>1
  <2>2. Spell(m1, Append(s, x)) = a \o y /\ Spell(m3, Append(s, x)) = Spell(m3, s) \o m3[x]
    BY <2>1, SpellAppend
  <2>3. Spell(m2, a \o y) = Spell(m2, a) \o Spell(m2, y)
    <3>1. SpellsParts(m2, a, y)
      BY <2>1, SpellConcat
    <3> QED
      BY <3>1 DEF SpellsParts
  <2>4. Spell(m2, a) = Spell(m3, s) /\ Spell(m2, y) = m3[x]
    BY <1>3, <2>1
  <2>5. Append(s, x) \in Seq(Ch)
    BY AppendProperties
  <2> QED
    BY <2>2, <2>3, <2>4, <2>5
<1>4. \A s \in Seq(Ch) : s \in S
  <2> HIDE DEF S
  <2> QED
    BY <1>2, <1>3, SeqInduction
<1> QED
  BY <1>4

\* One character is spelled in another way.
Single(Ch, c, e) == [x \in Ch |-> IF x = c THEN e ELSE <<x>>]

\* That is a way to spell.
LEMMA SingleType ==
    ASSUME NEW Ch, NEW c \in Ch, NEW e \in Seq(Ch), e # <<>>
    PROVE  Single(Ch, c, e) \in Spellings(Ch)
<1>1. \A x \in Ch : <<x>> \in Seq(Ch) /\ <<x>> # <<>>
  OBVIOUS
<1> QED
  BY <1>1 DEF Single, Spellings

\* The reader of a pattern of one character.
LEMMA ReadsSpelled ==
    ASSUME NEW Ch, NEW s \in Seq(Ch), NEW c \in Ch, NEW e \in Seq(Ch), e # <<>>
    PROVE  Rewritten(s, <<c>>, e) = Spell(Single(Ch, c, e), s)
<1>1. PICK p, m : p = <<c>> /\ m = Single(Ch, c, e)
  OBVIOUS
<1>2. p \in Seq(Ch) /\ p # <<>> /\ Len(p) = 1 /\ p[1] = c
  BY <1>1
<1>3. m \in Spellings(Ch)
  BY <1>1, SingleType
<1>4. \A x \in Ch : m[x] = IF x = c THEN e ELSE <<x>>
  BY <1>1 DEF Single
<1>5. PICK f : f \in Reader(Ch, s, p, e)
  BY <1>2, RewrittenDef
<1>6. PICK n \in Nat : n = Len(s)
  <2>1. Len(s) \in Nat
    OBVIOUS
  <2> QED
    BY <2>1
<1>7. /\ f[0] = [text |-> <<>>, next |-> 1]
      /\ \A k \in 1 .. n : f[k] = ReadOne(f[k - 1], s, k, p, e)
      /\ Rewritten(s, p, e) = f[n].text
  BY <1>5, <1>6 DEF Reader
<1>8. \A k \in 0 .. n : f[k].text \in Seq(Ch)
  BY <1>2, <1>5, <1>6, ReaderType
<1>9. ASSUME NEW k \in 1 .. n PROVE Occurs(s, k, p) <=> s[k] = c
  <2>1. k \in 1 .. Len(s) /\ k \in Int /\ k + 1 - 1 = k /\ k <= Len(s)
    BY <1>6
  <2>2. s[k] \in Ch /\ \A i \in k .. k : s[i] \in Ch
    BY <2>1
  <2>3. PICK u : u = SubSeq(s, k, k)
    OBVIOUS
  <2>4. PICK d \in Int, h \in Int : d = k /\ h = k
    BY <2>1
  <2>5. /\ SubSeq(s, d, h) \in Seq(Ch)
        /\ Len(SubSeq(s, d, h)) = IF d <= h THEN h - d + 1 ELSE 0
        /\ \A i \in 1 .. h - d + 1 : SubSeq(s, d, h)[i] = s[d + i - 1]
    <3>1. \A i \in d .. h : s[i] \in Ch
      BY <2>2, <2>4
    <3> QED
      BY <3>1, SubSeqProperties
  <2>6. u \in Seq(Ch) /\ Len(u) = 1 /\ u[1] = s[k]
    <3>1. d <= h /\ h - d + 1 = 1 /\ 1 \in 1 .. 1 /\ d + 1 - 1 = k
      BY <2>1, <2>4
    <3> QED
      BY <2>3, <2>4, <2>5, <3>1
  <2>7. u = p <=> s[k] = c
    <3>1. ASSUME s[k] = c PROVE u = p
      <4>1. \A i \in 1 .. 1 : i = 1
        OBVIOUS
      <4>2. \A i \in 1 .. 1 : u[i] = p[i]
        BY <1>2, <2>6, <3>1, <4>1
      <4> QED
        BY <1>2, <2>6, <4>2, SeqEqual
    <3> QED
      BY <1>2, <2>6, <3>1
  <2> QED
    BY <1>2, <2>1, <2>3, <2>7 DEF Occurs
<1> DEFINE S == {k \in Nat : k <= n => /\ f[k].next = k + 1
                                       /\ f[k].text = Spell(m, SubSeq(s, 1, k))}
<1>10. 0 \in S
  <2>1. SubSeq(s, 1, 0) = <<>>
    BY SubSeqEmpty
  <2>2. f[0].text = <<>> /\ f[0].next = 0 + 1
    BY <1>7
  <2> QED
    BY <2>1, <2>2, SpellEmpty
<1>11. ASSUME NEW l \in Nat, l \in S PROVE l + 1 \in S
  <2> SUFFICES ASSUME l + 1 <= n
               PROVE  /\ f[l + 1].next = (l + 1) + 1
                      /\ f[l + 1].text = Spell(m, SubSeq(s, 1, l + 1))
    OBVIOUS
  <2>1. PICK k : k = l + 1 /\ k \in 1 .. n /\ k - 1 = l /\ l \in 0 .. n /\ l <= n
                 /\ 1 \in 1 .. n
    OBVIOUS
  <2>2. PICK a, x, u : a = SubSeq(s, 1, l) /\ x = s[k] /\ u = SubSeq(s, 1, k)
    OBVIOUS
  <2>3. x \in Ch
    BY <1>6, <2>1, <2>2
  <2>4. a \in Seq(Ch) /\ u = Append(a, x)
    <3>1. \A i \in 1 .. l : s[i] \in Ch
      BY <1>6, <2>1
    <3>2. a \in Seq(Ch)
      BY <2>2, <3>1, SubSeqProperties
    <3>3. 1 \in 1 .. Len(s) /\ k \in 1 .. Len(s)
      BY <1>6, <2>1
    <3>4. SubSeq(s, 1, k) = SubSeq(s, 1, k - 1) \o <<s[k]>>
      BY <3>3, SubSeqRecursiveSecond
    <3>5. Append(a, x) = a \o <<x>>
      BY <2>3, <3>2, AppendIsConcat
    <3> QED
      BY <2>1, <2>2, <3>2, <3>4, <3>5
  <2>5. PICK t : t = f[l].text /\ t = Spell(m, a) /\ t \in Seq(Ch) /\ f[l].next = k
    BY <1>8, <1>11, <2>1, <2>2
  <2>6. Spell(m, u) = t \o m[x]
    BY <1>3, <2>3, <2>4, <2>5, SpellAppend
  <2>7. f[k] = ReadOne(f[l], s, k, p, e) /\ ~ (f[l].next > k)
    BY <1>7, <2>1, <2>5
  <2>8. CASE x = c
    <3>1. f[k].text = t \o e /\ f[k].next = k + 1
      <4>1. Occurs(s, k, p)
        BY <1>9, <2>1, <2>2, <2>8
      <4>2. f[k] = [text |-> t \o e, next |-> k + Len(p)]
        BY <2>5, <2>7, <4>1 DEF ReadOne
      <4> QED
        BY <1>2, <4>2
    <3>2. m[x] = e
      BY <1>4, <2>3, <2>8
    <3> QED
      BY <2>1, <2>2, <2>6, <3>1, <3>2
  <2>9. CASE x # c
    <3>1. f[k].text = Append(t, x) /\ f[k].next = k + 1
      <4>1. ~ Occurs(s, k, p)
        BY <1>9, <2>1, <2>2, <2>9
      <4>2. f[k] = [text |-> Append(t, x), next |-> k + 1]
        BY <2>2, <2>5, <2>7, <4>1 DEF ReadOne
      <4> QED
        BY <4>2
    <3>2. m[x] = <<x>>
      BY <1>4, <2>3, <2>9
    <3>3. Append(t, x) = t \o <<x>>
      BY <2>3, <2>5, AppendIsConcat
    <3> QED
      BY <2>1, <2>2, <2>6, <3>1, <3>2, <3>3
  <2> QED
    BY <2>8, <2>9
<1>12. \A k \in Nat : k \in S
  <2> HIDE DEF S
  <2> QED
    BY <1>10, <1>11, Induction
<1>13. f[n].text = Spell(m, SubSeq(s, 1, n))
  BY <1>12
<1>14. SubSeq(s, 1, n) = s
  BY <1>6, SubSeqFull
<1> QED
  BY <1>1, <1>7, <1>13, <1>14

\* A short text grows.
LEMMA Tuples ==
    ASSUME NEW a, NEW b, NEW c
    PROVE  /\ Append(<<a>>, b) = <<a, b>> /\ Append(<<a, b>>, c) = <<a, b, c>>
           /\ <<a>> \o <<b>> = <<a, b>> /\ <<a, b>> \o <<c>> = <<a, b, c>>
<1> DEFINE S == {a, b, c}
<1>1. /\ <<a>> \in Seq(S) /\ <<b>> \in Seq(S) /\ <<a, b>> \in Seq(S) /\ <<c>> \in Seq(S)
      /\ <<a, b, c>> \in Seq(S)
  OBVIOUS
<1>2. Append(<<a>>, b) = <<a, b>>
  <2>1. PICK u, v, w : u = <<a>> /\ v = <<a, b>> /\ w = Append(u, b)
    OBVIOUS
  <2>2. u \in Seq(S) /\ Len(u) = 1 /\ u[1] = a
    BY <2>1
  <2>3. v \in Seq(S) /\ Len(v) = 2 /\ v[1] = a /\ v[2] = b
    BY <2>1
  <2>4. w \in Seq(S) /\ Len(w) = 2 /\ w[1] = a /\ w[2] = b
    BY <2>1, <2>2, AppendProperties
  <2>5. \A i \in 1 .. 2 : i = 1 \/ i = 2
    OBVIOUS
  <2>6. \A i \in 1 .. 2 : w[i] = v[i]
    BY <2>3, <2>4, <2>5
  <2>7. w = v
    BY <2>3, <2>4, <2>6, SeqEqual
  <2> QED
    BY <2>1, <2>7
<1>3. Append(<<a, b>>, c) = <<a, b, c>>
  <2>1. PICK u, v, w : u = <<a, b>> /\ v = <<a, b, c>> /\ w = Append(u, c)
    OBVIOUS
  <2>2. u \in Seq(S) /\ Len(u) = 2 /\ u[1] = a /\ u[2] = b
    BY <2>1
  <2>3. v \in Seq(S) /\ Len(v) = 3 /\ v[1] = a /\ v[2] = b /\ v[3] = c
    BY <2>1
  <2>4. w \in Seq(S) /\ Len(w) = 3 /\ w[1] = a /\ w[2] = b /\ w[3] = c
    BY <2>1, <2>2, AppendProperties
  <2>5. \A i \in 1 .. 3 : i = 1 \/ i = 2 \/ i = 3
    OBVIOUS
  <2>6. \A i \in 1 .. 3 : w[i] = v[i]
    BY <2>3, <2>4, <2>5
  <2>7. w = v
    BY <2>3, <2>4, <2>6, SeqEqual
  <2> QED
    BY <2>1, <2>7
<1>4. Append(<<a>>, b) = <<a>> \o <<b>> /\ Append(<<a, b>>, c) = <<a, b>> \o <<c>>
  BY <1>1, AppendIsConcat
<1> QED
  BY <1>2, <1>3, <1>4

\* One character, and three that are spelled as they are.
LEMMA SpellOne ==
    ASSUME NEW Ch, NEW m \in Spellings(Ch), NEW x \in Ch
    PROVE  Spell(m, <<x>>) = m[x]
<1>1. PICK e : e = <<>> /\ e \in Seq(Ch)
  <2>1. <<>> \in Seq(Ch)
    BY EmptySeq
  <2> QED
    BY <2>1
<1>2. Append(e, x) = <<x>>
  BY <1>1
<1>3. Spell(m, Append(e, x)) = Spell(m, e) \o m[x]
  BY <1>1, SpellAppend
<1>4. Spell(m, e) = e
  BY <1>1, SpellEmpty
<1>5. e \o m[x] = m[x]
  <2>1. m[x] \in Seq(Ch)
    BY DEF Spellings
  <2> QED
    BY <1>1, <2>1, ConcatEmptySeq
<1> QED
  BY <1>2, <1>3, <1>4, <1>5

\* A spelling does not touch a text of three characters.
KeepsThree(m, a, b, c) == Spell(m, <<a, b, c>>) = <<a, b, c>>

\* Three characters that are spelled as they are, are kept.
LEMMA SpellThree ==
    ASSUME NEW Ch, NEW m \in Spellings(Ch), NEW a \in Ch, NEW b \in Ch, NEW c \in Ch,
           m[a] = <<a>>, m[b] = <<b>>, m[c] = <<c>>
    PROVE  KeepsThree(m, a, b, c)
<1>1. Spell(m, <<a>>) = <<a>>
  BY SpellOne
<1>2. <<a>> \in Seq(Ch) /\ <<a, b>> \in Seq(Ch)
  OBVIOUS
<1>3. Append(<<a>>, b) = <<a, b>> /\ Append(<<a, b>>, c) = <<a, b, c>>
  BY Tuples
<1>4. <<a>> \o <<b>> = <<a, b>> /\ <<a, b>> \o <<c>> = <<a, b, c>>
  BY Tuples
<1>5. Spell(m, Append(<<a>>, b)) = Spell(m, <<a>>) \o m[b]
  BY <1>2, SpellAppend
<1>6. Spell(m, Append(<<a, b>>, c)) = Spell(m, <<a, b>>) \o m[c]
  BY <1>2, SpellAppend
<1> QED
  BY <1>1, <1>3, <1>4, <1>5, <1>6 DEF KeepsThree

Specials == {"&", "quote", "apos", "<", ">"}
EntityNames == {"amp", "quot", "apo", "lt", "gt"}
Letters == STRING \cup Specials \cup EntityNames \cup {";"}

\* The special characters of C are spelled as their entities.
Meaning(C) == [x \in Letters |-> IF x \in C THEN Entity[x] ELSE <<x>>]

\* An entity is made of three characters, of which & is the only special one.
LEMMA Entities ==
    /\ DOMAIN Entity = Specials
    /\ \A d \in Specials : \E y \in EntityNames : Entity[d] = <<"&", y, ";">>
    /\ \A d \in Specials : Entity[d] \in Seq(Letters) /\ Len(Entity[d]) = 3 /\ Entity[d] # <<>>
<1>1. DOMAIN Entity = Specials
  BY DEF Entity, Specials
<1>2. /\ Entity["&"] = <<"&", "amp", ";">> /\ Entity["quote"] = <<"&", "quot", ";">>
      /\ Entity["apos"] = <<"&", "apo", ";">>
  BY DEF Entity
<1>3. Entity["<"] = <<"&", "lt", ";">> /\ Entity[">"] = <<"&", "gt", ";">>
  BY DEF Entity
<1>4. \A d \in Specials : \E y \in EntityNames : Entity[d] = <<"&", y, ";">>
  <2> SUFFICES ASSUME NEW d \in Specials
               PROVE  \E y \in EntityNames : Entity[d] = <<"&", y, ";">>
    OBVIOUS
  <2>1. CASE d = "&"
    BY <1>2, <2>1 DEF EntityNames
  <2>2. CASE d = "quote"
    BY <1>2, <2>2 DEF EntityNames
  <2>3. CASE d = "apos"
    BY <1>2, <2>3 DEF EntityNames
  <2>4. CASE d = "<"
    BY <1>3, <2>4 DEF EntityNames
  <2>5. CASE d = ">"
    BY <1>3, <2>5 DEF EntityNames
  <2> QED
    BY <2>1, <2>2, <2>3, <2>4, <2>5 DEF Specials
<1>5. ASSUME NEW d \in Specials
      PROVE  Entity[d] \in Seq(Letters) /\ Len(Entity[d]) = 3 /\ Entity[d] # <<>>
  <2>1. PICK y \in EntityNames : Entity[d] = <<"&", y, ";">>
    BY <1>4
  <2>2. PICK a, b : a = "&" /\ b = ";" /\ a \in Letters /\ b \in Letters /\ y \in Letters
    BY DEF Letters, Specials
  <2>3. /\ <<a, y, b>> \in Seq(Letters) /\ Len(<<a, y, b>>) = 3 /\ <<a, y, b>> # <<>>
    <3>1. a \in Letters /\ b \in Letters /\ y \in Letters
      BY <2>2
    <3> QED
      BY <3>1
  <2> QED
    BY <2>1, <2>2, <2>3
<1> QED
  BY <1>1, <1>4, <1>5

\* That is a way to spell.
LEMMA MeaningType ==
    ASSUME NEW C \in SUBSET Specials
    PROVE  Meaning(C) \in Spellings(Letters)
<1>1. \A x \in C : Entity[x] \in Seq(Letters) /\ Entity[x] # <<>>
  BY Entities
<1>2. \A x \in Letters : <<x>> \in Seq(Letters) /\ <<x>> # <<>>
  OBVIOUS
<1> QED
  BY <1>1, <1>2 DEF Meaning, Spellings

\* One character more is escaped.
LEMMA MeaningGrows ==
    ASSUME NEW C \in SUBSET Specials, NEW c \in Specials, c \notin C, C # {} => c # "&"
    PROVE  \A x \in Letters :
              Meaning(C \cup {c})[x] = Spell(Single(Letters, c, Entity[c]), Meaning(C)[x])
<1> SUFFICES ASSUME NEW x \in Letters
             PROVE  Meaning(C \cup {c})[x]
                       = Spell(Single(Letters, c, Entity[c]), Meaning(C)[x])
  OBVIOUS
<1>1. PICK m, e : m = Single(Letters, c, e) /\ e = Entity[c]
  OBVIOUS
<1>2. c \in Letters /\ e \in Seq(Letters) /\ e # <<>>
  BY <1>1, Entities DEF Letters
<1>3. m \in Spellings(Letters) /\ \A y \in Letters : m[y] = IF y = c THEN e ELSE <<y>>
  <2>1. m \in Spellings(Letters)
    BY <1>1, <1>2, SingleType
  <2> QED
    BY <1>1, <2>1 DEF Single
<1>4. \A y \in Letters : Spell(m, <<y>>) = m[y]
  BY <1>3, SpellOne
<1>5. CASE x \in C
  <2>1. Meaning(C)[x] = Entity[x] /\ Meaning(C \cup {c})[x] = Entity[x]
    BY <1>5 DEF Meaning
  <2>2. PICK y \in EntityNames : Entity[x] = <<"&", y, ";">>
    BY <1>5, Entities
  <2>3. PICK a, b : a = "&" /\ b = ";"
    OBVIOUS
  <2>4. a \in Letters /\ b \in Letters /\ y \in Letters
    BY <2>3 DEF Letters, Specials
  <2>5. a # c /\ b # c /\ y # c
    BY <1>5, <2>3 DEF Specials, EntityNames
  <2>6. m[a] = <<a>> /\ m[b] = <<b>> /\ m[y] = <<y>>
    BY <1>3, <2>4, <2>5
  <2>7. Spell(m, <<a, y, b>>) = <<a, y, b>>
    <3>1. m \in Spellings(Letters)
      BY <1>3
    <3>2. KeepsThree(m, a, y, b)
      BY <2>4, <2>6, <3>1, SpellThree
    <3> QED
      BY <3>2 DEF KeepsThree
  <2> QED
    BY <1>1, <2>1, <2>2, <2>3, <2>7
<1>6. CASE x \notin C
  <2>1. Meaning(C)[x] = <<x>>
    BY <1>6 DEF Meaning
  <2>2. Meaning(C \cup {c})[x] = m[x]
    BY <1>1, <1>3, <1>6 DEF Meaning
  <2> QED
    BY <1>1, <1>4, <2>1, <2>2
<1> QED
  BY <1>5, <1>6

\* So is it in the buffer, if there is room for the longer text.
EscapesOne(C, c, s, size) ==
    /\ Len(Spell(Meaning(C), s)) <= Len(Spell(Meaning(C \cup {c}), s))
    /\ size > Len(Spell(Meaning(C \cup {c}), s)) + 4 =>
          c_strreplace(Spell(Meaning(C), s), size, <<c>>, Entity[c])[1]
             = Spell(Meaning(C \cup {c}), s)

\* & is the first one to be escaped; what was written for others contains no c.
LEMMA EscapeOne ==
    ASSUME NEW C \in SUBSET Specials, NEW c \in Specials, c \notin C, C # {} => c # "&",
           NEW s \in Seq(Letters), NEW size \in Nat
    PROVE  EscapesOne(C, c, s, size)
<1>1. PICK m1, m2, m3, e : /\ m1 = Meaning(C) /\ m2 = Single(Letters, c, e)
                           /\ m3 = Meaning(C \cup {c}) /\ e = Entity[c]
  OBVIOUS
<1>2. c \in Letters /\ e \in Seq(Letters) /\ e # <<>> /\ Len(e) = 3
  BY <1>1, Entities DEF Letters
<1>3. m1 \in Spellings(Letters) /\ m2 \in Spellings(Letters)
  <2>1. m1 \in Spellings(Letters)
    BY <1>1, MeaningType
  <2>2. m2 \in Spellings(Letters)
    <3>1. Single(Letters, c, e) \in Spellings(Letters)
      BY <1>2, SingleType
    <3> QED
      BY <1>1, <3>1
  <2> QED
    BY <2>1, <2>2
<1>4. m3 \in Spellings(Letters) /\ \A x \in Letters : m3[x] = Spell(m2, m1[x])
  <2>1. C \cup {c} \in SUBSET Specials
    OBVIOUS
  <2>2. m3 \in Spellings(Letters)
    BY <1>1, <2>1, MeaningType
  <2> QED
    BY <1>1, <2>2, MeaningGrows
<1>5. PICK t, u : t = Spell(m1, s) /\ u = Spell(m3, s)
  OBVIOUS
<1>6. u = Spell(m2, t)
  <2>1. Spell(m2, Spell(m1, s)) = Spell(m3, s)
    BY <1>3, <1>4, SpellTwice
  <2> QED
    BY <1>5, <2>1
<1>7. t \in Seq(Letters) /\ u \in Seq(Letters) /\ Len(t) <= Len(u)
  <2>1. t \in Seq(Letters)
    BY <1>3, <1>5, SpellType
  <2>2. Spell(m2, t) \in Seq(Letters) /\ Len(t) <= Len(Spell(m2, t))
    BY <1>3, <2>1, SpellType
  <2> QED
    BY <1>6, <2>1, <2>2
<1>8. PICK p : p = <<c>> /\ p \in Seq(Letters) /\ p # <<>> /\ Len(p) = 1
  <2>1. c \in Letters
    BY <1>2
  <2>2. <<c>> \in Seq(Letters) /\ <<c>> # <<>> /\ Len(<<c>>) = 1
    BY <2>1
  <2> QED
    BY <2>2
<1>9. Rewritten(t, p, e) = u
  BY <1>1, <1>2, <1>6, <1>7, <1>8, ReadsSpelled
<1>10. ASSUME size > Len(u) + 4 PROVE c_strreplace(t, size, p, e)[1] = u
  <2>1. PICK T \in Nat, U \in Nat : T = Len(t) /\ U = Len(u)
    <3>1. Len(t) \in Nat /\ Len(u) \in Nat
      BY <1>7, LenProperties
    <3> QED
      BY <3>1
  <2>2. T <= U /\ size > U + 4
    BY <1>7, <1>10, <2>1
  <2>3. Len(t) < size
    <3>1. T < size
      BY <2>2
    <3> QED
      BY <2>1, <3>1
  <2>4. IsReplaced(Letters, t, size, p, e)
    BY <1>2, <1>7, <1>8, <2>3, Replaced
  <2>5. Max({T, U}) = U /\ Max({1, 3}) = 3
    BY <2>2, MaxOfTwo DEF Greater
  <2>6. size > U + (3 + 1)
    BY <2>2
  <2>7. size > Max({Len(t), Len(Rewritten(t, p, e))}) + (Max({Len(p), Len(e)}) + 1)
    BY <1>2, <1>8, <1>9, <2>1, <2>5, <2>6
  <2> QED
    BY <1>9, <2>4, <2>7 DEF IsReplaced
<1> QED
  BY <1>1, <1>5, <1>7, <1>8, <1>10 DEF EscapesOne

\* The buffers of cmprepare_xml_attribute_string, one after the other.
Fitting(size) == {t \in Seq(Letters) : Len(t) < size}

Buffers(src, size) ==
    {b \in [0 .. 5 -> Fitting(size)] :
        /\ b[0] = SubSeq(src, 1, Min({Len(src), size - 1}))
        /\ \A k \in 1 .. 5 : b[k] = c_strreplace(b[k - 1], size, <<EscapeOrder[k]>>,
                                                 Entity[EscapeOrder[k]])[1]
        /\ cmprepare_xml_attribute_string(src, size) = b[5]}

\* The order of the five calls.
LEMMA Order ==
    /\ Len(EscapeOrder) = 5
    /\ EscapeOrder[1] = "&" /\ EscapeOrder[2] = "quote" /\ EscapeOrder[3] = "apos"
    /\ EscapeOrder[4] = "<" /\ EscapeOrder[5] = ">"
    /\ \A k \in 1 .. 5 : EscapeOrder[k] \in Specials
<1>1. Len(EscapeOrder) = 5
  BY DEF EscapeOrder
<1>2. EscapeOrder[1] = "&" /\ EscapeOrder[2] = "quote" /\ EscapeOrder[3] = "apos"
  BY DEF EscapeOrder
<1>3. EscapeOrder[4] = "<" /\ EscapeOrder[5] = ">"
  BY DEF EscapeOrder
<1>4. \A k \in 1 .. 5 : k = 1 \/ k = 2 \/ k = 3 \/ k = 4 \/ k = 5
  OBVIOUS
<1> QED
  BY <1>1, <1>2, <1>3, <1>4 DEF Specials

\* A replacement leaves a text that fits.
LEMMA BufferKept ==
    ASSUME NEW size \in Nat, NEW c \in Specials, NEW t \in Fitting(size)
    PROVE  c_strreplace(t, size, <<c>>, Entity[c])[1] \in Fitting(size)
<1>1. PICK p, e : p = <<c>> /\ e = Entity[c]
  OBVIOUS
<1>2. e \in Seq(Letters) /\ p \in Seq(Letters) /\ p # <<>>
  <2>1. e \in Seq(Letters) /\ c \in Letters
    BY <1>1, Entities DEF Letters
  <2>2. <<c>> \in Seq(Letters) /\ <<c>> # <<>>
    BY <2>1
  <2> QED
    BY <1>1, <2>1, <2>2
<1>3. t \in Seq(Letters) /\ Len(t) < size
  BY DEF Fitting
<1>4. IsReplaced(Letters, t, size, p, e)
  BY <1>2, <1>3, Replaced
<1> QED
  BY <1>1, <1>4 DEF IsReplaced, Fitting

\* The least of two.
LEMMA MinOfTwo ==
    ASSUME NEW i \in Int, NEW j \in Int
    PROVE  Min({i, j}) = IF i <= j THEN i ELSE j
<1> DEFINE m == IF i <= j THEN i ELSE j
<1>1. m \in {i, j} /\ \A y \in {i, j} : m <= y
  OBVIOUS
<1>2. Min({i, j}) \in {i, j} /\ \A y \in {i, j} : Min({i, j}) <= y
  <2>1. \E x \in {i, j} : \A y \in {i, j} : x <= y
    BY <1>1
  <2>2. Min({i, j}) = CHOOSE x \in {i, j} : \A y \in {i, j} : x <= y
    BY DEF Min
  <2> QED
    BY <2>1, <2>2
<1> QED
  BY <1>1, <1>2

\* What snprintf copies fits.
LEMMA CutFits ==
    ASSUME NEW src \in Seq(Letters), NEW size \in Nat \ {0}
    PROVE  /\ SubSeq(src, 1, Min({Len(src), size - 1})) \in Fitting(size)
           /\ Len(src) < size => SubSeq(src, 1, Min({Len(src), size - 1})) = src
<1>1. PICK n \in Nat : n = Len(src)
  <2>1. Len(src) \in Nat
    OBVIOUS
  <2> QED
    BY <2>1
<1>2. PICK m : m = Min({n, size - 1})
  OBVIOUS
<1>3. m \in Nat /\ m <= n /\ m < size /\ (n < size => m = n)
  <2>1. size - 1 \in Int
    OBVIOUS
  <2>2. m = IF n <= size - 1 THEN n ELSE size - 1
    BY <1>2, <2>1, MinOfTwo
  <2> QED
    BY <2>2
<1>4. SubSeq(src, 1, m) \in Seq(Letters) /\ Len(SubSeq(src, 1, m)) = m
  <2>1. \A i \in 1 .. m : i \in 1 .. n
    BY <1>3
  <2>2. \A i \in 1 .. m : src[i] \in Letters
    BY <1>1, <2>1
  <2>3. m \in Int
    BY <1>3
  <2>4. /\ SubSeq(src, 1, m) \in Seq(Letters)
        /\ Len(SubSeq(src, 1, m)) = IF 1 <= m THEN m - 1 + 1 ELSE 0
    BY <2>2, <2>3, SubSeqProperties
  <2> QED
    BY <1>3, <2>4
<1>5. n < size => SubSeq(src, 1, m) = src
  BY <1>1, <1>3, SubSeqFull
<1> QED
  BY <1>1, <1>2, <1>3, <1>4, <1>5 DEF Fitting

\* The buffers between the calls exist.
LEMMA BuffersDef ==
    ASSUME NEW src \in Seq(Letters), NEW size \in Nat \ {0}
    PROVE  Buffers(src, size) # {}
<1> DEFINE V == Fitting(size)
           cut == SubSeq(src, 1, Min({Len(src), size - 1}))
           After(t, k) == c_strreplace(t, size, <<EscapeOrder[k]>>, Entity[EscapeOrder[k]])[1]
           step == [k \in 1 .. 5 |-> [t \in V |-> After(t, k)]]
           Body(g) == [k \in 0 .. 5 |-> IF k = 0 THEN cut ELSE After(g[k - 1], k)]
           buf == CHOOSE g : g = Body(g)
<1>1. cmprepare_xml_attribute_string(src, size) = buf[5]
  <2>1. cmprepare_xml_attribute_string(src, size)
          = (CHOOSE g : g = [k \in 0 .. Len(EscapeOrder) |->
                IF k = 0 THEN SubSeq(src, 1, Min({Len(src), size - 1}))
                ELSE c_strreplace(g[k - 1], size, <<EscapeOrder[k]>>,
                                  Entity[EscapeOrder[k]])[1]])[Len(EscapeOrder)]
    BY DEF cmprepare_xml_attribute_string
  <2> QED
    BY <2>1, Order
<1>2. cut \in V
  BY CutFits
<1>3. \A k \in 1 .. 5 : \A t \in V : After(t, k) \in V
  BY BufferKept, Order
<1> HIDE DEF V, cut, After
<1>4. step \in [1 .. 5 -> [V -> V]]
  BY <1>3
<1>5. PICK g \in [0 .. 5 -> V] : g[0] = cut /\ \A i \in 1 .. 5 : g[i] = step[i][g[i - 1]]
  <2> HIDE DEF step
  <2>1. Runs(V, cut, 5, step) # {}
    BY <1>2, <1>4, Recursion
  <2> QED
    BY <2>1 DEF Runs
<1>6. \A k \in 1 .. 5 : g[k] = After(g[k - 1], k)
  <2> TAKE k \in 1 .. 5
  <2>1. k - 1 \in 0 .. 5
    OBVIOUS
  <2> QED
    BY <1>5, <2>1
<1>7. g = Body(g)
  <2> SUFFICES ASSUME NEW i \in 0 .. 5 PROVE g[i] = Body(g)[i]
    OBVIOUS
  <2>1. CASE i = 0
    BY <1>5, <2>1
  <2>2. CASE i # 0
    <3>1. i \in 1 .. 5
      BY <2>2
    <3> QED
      BY <1>6, <2>2, <3>1
  <2> QED
    BY <2>1, <2>2
<1>8. buf = Body(buf)
  <2> HIDE DEF Body
  <2> QED
    BY <1>7
<1> HIDE DEF buf
<1>9. buf[0] = cut /\ \A k \in 1 .. 5 : buf[k] = After(buf[k - 1], k)
  <2>1. 0 \in 0 .. 5 /\ \A k \in 1 .. 5 : k \in 0 .. 5 /\ k # 0
    OBVIOUS
  <2>2. \A k \in 0 .. 5 : buf[k] = IF k = 0 THEN cut ELSE After(buf[k - 1], k)
    BY <1>8
  <2> QED
    BY <2>1, <2>2
<1> DEFINE S == {k \in Nat : k <= 5 => buf[k] \in V}
<1>10. \A k \in Nat : k \in S
  <2>1. 0 \in S
    BY <1>2, <1>9
  <2>2. ASSUME NEW k \in Nat, k \in S PROVE k + 1 \in S
    <3> SUFFICES ASSUME k + 1 <= 5 PROVE buf[k + 1] \in V
      OBVIOUS
    <3>1. k + 1 \in 1 .. 5 /\ (k + 1) - 1 = k /\ k <= 5
      OBVIOUS
    <3>2. buf[k] \in V /\ buf[k + 1] = After(buf[k], k + 1)
      BY <1>9, <2>2, <3>1
    <3> QED
      BY <1>3, <3>1, <3>2
  <2> HIDE DEF S
  <2> QED
    BY <2>1, <2>2, Induction
<1>11. buf \in [0 .. 5 -> V]
  <2>1. buf = [k \in 0 .. 5 |-> buf[k]]
    BY <1>8
  <2>2. \A k \in 0 .. 5 : buf[k] \in V
    BY <1>10
  <2> QED
    BY <2>1, <2>2
<1>12. buf \in Buffers(src, size)
  BY <1>1, <1>9, <1>11 DEF Buffers, V, cut, After
<1> QED
  BY <1>12

\* Without special characters, every text stays.
LEMMA SpellNothing ==
    \A s \in Seq(Letters) : Spell(Meaning({}), s) = s
<1>1. PICK m : m = Meaning({})
  OBVIOUS
<1>2. m \in Spellings(Letters) /\ \A x \in Letters : m[x] = <<x>>
  <2>1. {} \in SUBSET Specials
    OBVIOUS
  <2>2. m \in Spellings(Letters)
    BY <1>1, <2>1, MeaningType
  <2> QED
    BY <1>1, <2>2 DEF Meaning
<1> DEFINE S == {s \in Seq(Letters) : Spell(m, s) = s}
<1>3. <<>> \in S
  <2>1. <<>> \in Seq(Letters)
    BY EmptySeq
  <2> QED
    BY <2>1, SpellEmpty
<1>4. ASSUME NEW s \in Seq(Letters), NEW x \in Letters, s \in S PROVE Append(s, x) \in S
  <2>1. Spell(m, Append(s, x)) = Spell(m, s) \o m[x]
    BY <1>2, SpellAppend
  <2>2. Spell(m, s) = s /\ m[x] = <<x>>
    BY <1>2, <1>4
  <2>3. Append(s, x) = s \o <<x>> /\ Append(s, x) \in Seq(Letters)
    BY AppendIsConcat, AppendProperties
  <2> QED
    BY <2>1, <2>2, <2>3
<1>5. \A s \in Seq(Letters) : s \in S
  <2> HIDE DEF S
  <2> QED
    BY <1>3, <1>4, SeqInduction
<1> QED
  BY <1>1, <1>5

\* What cmprepare_xml_attribute_string does.
IsEscaped(src, size) ==
    /\ Len(cmprepare_xml_attribute_string(src, size)) < size
    /\ size > Len(Spell(Meaning(Specials), src)) + 4
          => cmprepare_xml_attribute_string(src, size) = Spell(Meaning(Specials), src)

\* It does so for every text and every buffer, also one that is too small.
LEMMA Escaped ==
    ASSUME NEW src \in Seq(Letters), NEW size \in Nat \ {0}
    PROVE  IsEscaped(src, size)
<1>1. PICK b \in [0 .. 5 -> Fitting(size)] :
        /\ b[0] = SubSeq(src, 1, Min({Len(src), size - 1}))
        /\ \A k \in 1 .. 5 : b[k] = c_strreplace(b[k - 1], size, <<EscapeOrder[k]>>,
                                                 Entity[EscapeOrder[k]])[1]
        /\ cmprepare_xml_attribute_string(src, size) = b[5]
  <2>1. Buffers(src, size) # {}
    BY BuffersDef
  <2> QED
    BY <2>1 DEF Buffers
<1>2. Len(b[5]) < size
  <2>1. b[5] \in Fitting(size)
    OBVIOUS
  <2> QED
    BY <2>1 DEF Fitting
<1>3. ASSUME size > Len(Spell(Meaning(Specials), src)) + 4
      PROVE  b[5] = Spell(Meaning(Specials), src)
  <2>1. PICK c0, c1, c2, c3, c4, c5 :
           /\ c0 = {} /\ c1 = c0 \cup {"&"} /\ c2 = c1 \cup {"quote"} /\ c3 = c2 \cup {"apos"}
           /\ c4 = c3 \cup {"<"} /\ c5 = c4 \cup {">"}
    OBVIOUS
  <2>2. c5 = Specials
    BY <2>1 DEF Specials
  <2>3. /\ c0 \in SUBSET Specials /\ c1 \in SUBSET Specials /\ c2 \in SUBSET Specials
        /\ c3 \in SUBSET Specials /\ c4 \in SUBSET Specials
    BY <2>1 DEF Specials
  <2>4. /\ "&" \in Specials /\ "quote" \in Specials /\ "apos" \in Specials
        /\ "<" \in Specials /\ ">" \in Specials
    BY DEF Specials
  <2>5. /\ "&" \notin c0 /\ "quote" \notin c1 /\ "apos" \notin c2 /\ "<" \notin c3
        /\ ">" \notin c4
    BY <2>1
  <2>6. "quote" # "&" /\ "apos" # "&" /\ "<" # "&" /\ ">" # "&"
    OBVIOUS
  <2>7. size \in Nat
    OBVIOUS
  <2>8. EscapesOne(c0, "&", src, size)
    BY <2>1, <2>3, <2>4, <2>5, <2>7, EscapeOne
  <2>9. EscapesOne(c1, "quote", src, size)
    BY <2>3, <2>4, <2>5, <2>6, <2>7, EscapeOne
  <2>10. EscapesOne(c2, "apos", src, size)
    BY <2>3, <2>4, <2>5, <2>6, <2>7, EscapeOne
  <2>11. EscapesOne(c3, "<", src, size)
    BY <2>3, <2>4, <2>5, <2>6, <2>7, EscapeOne
  <2>12. EscapesOne(c4, ">", src, size)
    BY <2>3, <2>4, <2>5, <2>6, <2>7, EscapeOne
  <2>13. PICK t0, t1, t2, t3, t4, t5 :
            /\ t0 = Spell(Meaning(c0), src) /\ t1 = Spell(Meaning(c1), src)
            /\ t2 = Spell(Meaning(c2), src) /\ t3 = Spell(Meaning(c3), src)
            /\ t4 = Spell(Meaning(c4), src) /\ t5 = Spell(Meaning(c5), src)
    OBVIOUS
  <2>14. /\ Len(t0) \in Nat /\ Len(t1) \in Nat /\ Len(t2) \in Nat /\ Len(t3) \in Nat
         /\ Len(t4) \in Nat /\ Len(t5) \in Nat
    <3>1. \A C \in SUBSET Specials : Spell(Meaning(C), src) \in Seq(Letters)
      BY MeaningType, SpellType
    <3>2. \A C \in SUBSET Specials : Len(Spell(Meaning(C), src)) \in Nat
      BY <3>1, LenProperties
    <3>3. c5 \in SUBSET Specials
      BY <2>2
    <3> QED
      BY <2>3, <2>13, <3>2, <3>3
  <2>15. /\ Len(t0) <= Len(t1) /\ Len(t1) <= Len(t2) /\ Len(t2) <= Len(t3)
         /\ Len(t3) <= Len(t4) /\ Len(t4) <= Len(t5)
    BY <2>1, <2>8, <2>9, <2>10, <2>11, <2>12, <2>13 DEF EscapesOne
  <2>16. size > Len(t5) + 4
    BY <1>3, <2>2, <2>13
  <2>17. size > Len(t4) + 4 /\ size > Len(t3) + 4 /\ size > Len(t2) + 4 /\ size > Len(t1) + 4
         /\ size > Len(t0) + 4
    BY <2>14, <2>15, <2>16
  <2>18. t0 = src
    BY <2>1, <2>13, SpellNothing
  <2>19. b[0] = t0
    <3>1. Len(src) < size
      BY <2>14, <2>17, <2>18
    <3> QED
      BY <1>1, <2>18, <3>1, CutFits
  <2>20. /\ b[1] = c_strreplace(b[0], size, <<"&">>, Entity["&"])[1]
         /\ b[2] = c_strreplace(b[1], size, <<"quote">>, Entity["quote"])[1]
         /\ b[3] = c_strreplace(b[2], size, <<"apos">>, Entity["apos"])[1]
         /\ b[4] = c_strreplace(b[3], size, <<"<">>, Entity["<"])[1]
         /\ b[5] = c_strreplace(b[4], size, <<">">>, Entity[">"])[1]
    <3>1. 1 \in 1 .. 5 /\ 2 \in 1 .. 5 /\ 3 \in 1 .. 5 /\ 4 \in 1 .. 5 /\ 5 \in 1 .. 5
          /\ 1 - 1 = 0 /\ 2 - 1 = 1 /\ 3 - 1 = 2 /\ 4 - 1 = 3 /\ 5 - 1 = 4
      OBVIOUS
    <3> QED
      BY <1>1, <3>1, Order
  <2>21. b[1] = t1
    BY <2>1, <2>8, <2>13, <2>17, <2>19, <2>20 DEF EscapesOne
  <2>22. b[2] = t2
    BY <2>1, <2>9, <2>13, <2>17, <2>20, <2>21 DEF EscapesOne
  <2>23. b[3] = t3
    BY <2>1, <2>10, <2>13, <2>17, <2>20, <2>22 DEF EscapesOne
  <2>24. b[4] = t4
    BY <2>1, <2>11, <2>13, <2>17, <2>20, <2>23 DEF EscapesOne
  <2>25. b[5] = t5
    BY <2>1, <2>12, <2>13, <2>16, <2>20, <2>24 DEF EscapesOne
  <2> QED
    BY <2>2, <2>13, <2>25
<1> QED
  BY <1>1, <1>2, <1>3 DEF IsEscaped

\* A call of c_strreplace.
LEMMA TextReplaced ==
    ASSUME NEW r \in Replacements, replace(r[1], r[2], r[3], r[4])
    PROVE  TextIsReplaced'
<1>1. PICK s, size, p, q : s = r[1] /\ size = r[2] /\ p = r[3] /\ q = r[4]
  OBVIOUS
<1>2. /\ s \in Seq(STRING) /\ size \in Nat /\ p \in Seq(STRING) /\ q \in Seq(STRING)
      /\ Len(s) < size /\ p # <<>>
  BY <1>1, TextsAssumption
<1>3. IsReplaced(STRING, s, size, p, q)
  BY <1>2, Replaced
<1>4. /\ call'.routine = "replace" /\ call'.src = s /\ call'.size = size
      /\ call'.pattern = p /\ call'.repl = q /\ call'.result = c_strreplace(s, size, p, q)
  BY <1>1 DEF replace, Called
<1>5. ReplacesInPlace'
  BY <1>3, <1>4 DEF ReplacesInPlace, IsReplaced
<1>6. EscapedOnce'
  BY <1>4 DEF EscapedOnce
<1> QED
  BY <1>5, <1>6 DEF TextIsReplaced

\* A call of cmprepare_xml_attribute_string.
LEMMA TextEscaped ==
    ASSUME NEW a \in Attributes, escape(a[1], a[2])
    PROVE  TextIsReplaced'
<1>1. PICK s, size : s = a[1] /\ size = a[2]
  OBVIOUS
<1>2. s \in Seq(STRING) /\ size \in Nat \ {0}
  BY <1>1, TextsAssumption
<1>3. s \in Seq(Letters)
  <2>1. PICK X : X = STRING /\ s \in Seq(X) /\ \A x \in X : x \in Letters
    BY <1>2 DEF Letters
  <2>2. \A i \in 1 .. Len(s) : s[i] \in Letters
    <3>1. s \in Seq(X) /\ \A x \in X : x \in Letters
      BY <2>1
    <3> QED
      BY <3>1
  <2>3. Len(s) \in Nat /\ DOMAIN s = 1 .. Len(s)
    BY <1>2, LenProperties
  <2>4. s = [i \in 1 .. Len(s) |-> s[i]]
    BY <1>2
  <2>5. s \in [1 .. Len(s) -> Letters]
    BY <2>2, <2>4
  <2> QED
    BY <2>3, <2>5
<1>4. IsEscaped(s, size)
  BY <1>2, <1>3, Escaped
<1>5. /\ call'.routine = "escape" /\ call'.src = s /\ call'.size = size
      /\ call'.result = cmprepare_xml_attribute_string(s, size)
  BY <1>1 DEF escape, Called
<1>6. FlattenSeq([i \in DOMAIN s |-> IF s[i] \in DOMAIN Entity THEN Entity[s[i]] ELSE <<s[i]>>])
        = Spell(Meaning(Specials), s)
  <2>1. DOMAIN s = 1 .. Len(s) /\ DOMAIN Entity = Specials
    BY <1>2, Entities, LenProperties
  <2>2. \A i \in 1 .. Len(s) : s[i] \in Letters
    BY <1>3
  <2>3. \A i \in 1 .. Len(s) : Meaning(Specials)[s[i]]
                                 = IF s[i] \in Specials THEN Entity[s[i]] ELSE <<s[i]>>
    BY <2>2 DEF Meaning
  <2>4. [i \in DOMAIN s |-> IF s[i] \in DOMAIN Entity THEN Entity[s[i]] ELSE <<s[i]>>]
          = [i \in 1 .. Len(s) |-> Meaning(Specials)[s[i]]]
    BY <2>1, <2>3
  <2> QED
    BY <2>4 DEF Spell
<1>7. EscapedOnce'
  BY <1>4, <1>5, <1>6 DEF EscapedOnce, IsEscaped
<1>8. ReplacesInPlace'
  BY <1>5 DEF ReplacesInPlace
<1> QED
  BY <1>7, <1>8 DEF TextIsReplaced

\* No other call is about texts.
LEMMA TextElsewhere ==
    /\ call'.routine \notin {"replace", "escape"} => TextIsReplaced'
    /\ call' = call => (TextIsReplaced' <=> TextIsReplaced)
<1>1. ASSUME call'.routine \notin {"replace", "escape"} PROVE TextIsReplaced'
  <2>1. ReplacesInPlace'
    BY <1>1 DEF ReplacesInPlace
  <2>2. EscapedOnce'
    BY <1>1 DEF EscapedOnce
  <2> QED
    BY <2>1, <2>2 DEF TextIsReplaced
<1>2. ASSUME call' = call PROVE TextIsReplaced' <=> TextIsReplaced
  <2>1. ReplacesInPlace' <=> ReplacesInPlace
    BY <1>2 DEF ReplacesInPlace
  <2>2. EscapedOnce' <=> EscapedOnce
    BY <1>2 DEF EscapedOnce
  <2> QED
    BY <2>1, <2>2 DEF TextIsReplaced
<1> QED
  BY <1>1, <1>2

-----------------------------------------------------------------------------
(* Helper routines: the invariant.                                         *)

CallInv == SelectsMatching /\ TextIsReplaced /\ BlockHoldsRequest /\ RuntimeIsElapsed

RoutineInv ==
    /\ test_filter \in Filters /\ skip_filter \in Filters
    /\ MessageInv
    /\ CallInv

\* A call leaves the filters and the message alone.
LEMMA CalledFrame ==
    ASSUME RoutineInv, NEW record, Called(record)
    PROVE  /\ test_filter' \in Filters /\ skip_filter' \in Filters
           /\ MessageInv'
           /\ call' = record
  BY DEF RoutineInv, Called, filterVars, messageVars, MessageInv, Before, NoMessage

\* The part of the state that another action leaves alone keeps its part.
LEMMA Frames ==
    ASSUME RoutineInv
    PROVE  /\ UNCHANGED messageVars => MessageInv'
           /\ UNCHANGED <<filterVars, call>> =>
                 test_filter' \in Filters /\ skip_filter' \in Filters /\ CallInv'
           /\ call' = NoCall => CallInv'
<1>1. UNCHANGED messageVars => MessageInv'
  BY DEF RoutineInv, messageVars, MessageInv, Before, NoMessage
<1>2. ASSUME UNCHANGED <<filterVars, call>>
      PROVE  test_filter' \in Filters /\ skip_filter' \in Filters /\ CallInv'
  <2>1. test_filter' = test_filter /\ skip_filter' = skip_filter /\ call' = call
    BY <1>2 DEF filterVars
  <2>2. SelectsMatching' <=> SelectsMatching
    BY <2>1 DEF SelectsMatching, NoString
  <2>3. BlockHoldsRequest' <=> BlockHoldsRequest
    BY <2>1 DEF BlockHoldsRequest
  <2>4. RuntimeIsElapsed' <=> RuntimeIsElapsed
    BY <2>1 DEF RuntimeIsElapsed
  <2>5. TextIsReplaced' <=> TextIsReplaced
    BY <2>1, TextElsewhere
  <2> QED
    BY <2>1, <2>2, <2>3, <2>4, <2>5 DEF RoutineInv, CallInv
<1>3. ASSUME call' = NoCall PROVE CallInv'
  <2>1. TextIsReplaced'
    BY <1>3, TextElsewhere DEF NoCall
  <2> QED
    BY <1>3, <2>1 DEF NoCall, CallInv, SelectsMatching, BlockHoldsRequest, RuntimeIsElapsed
<1> QED
  BY <1>1, <1>2, <1>3

\* The layouts are calls.
LEMMA LayoutCalled ==
    ASSUME NEW wanted, NEW size, test_malloc_layout(wanted, size)
    PROVE  \E record : Called(record) /\ record.routine \in {"refused", "malloc"}
<1> DEFINE total == AllocateSize(size)
<1>1. CASE total <= size
  <2>1. Called([routine |-> "refused"])
    BY <1>1 DEF test_malloc_layout
  <2> QED
    BY <2>1
<1>2. CASE ~ (total <= size)
  <2>1. PICK block \in {b \in Sizes : b + total < 2^SizeBits} :
           LET ptr == AlignDown(block + GuardSize + InfoSize + Alignment) IN
           Called([routine |-> "malloc", wanted |-> wanted, block |-> block,
                   allocated |-> total, ptr |-> ptr, info |-> ptr - (GuardSize + InfoSize),
                   endGuard |-> ptr + size])
    BY <1>2 DEF test_malloc_layout
  <2> QED
    BY <2>1
<1> QED
  BY <1>1, <1>2

\* Every step keeps the invariant.
LEMMA RoutineStep ==
    ASSUME RoutineInv, [RoutineNext]_routineVars
    PROVE  RoutineInv'
<1>1. ASSUME NEW p \in Patterns, cmocka_set_test_filter(p) \/ cmocka_set_skip_filter(p)
      PROVE  RoutineInv'
  <2>1. p \in Seq(STRING)
    BY TextsAssumption
  <2>2. UNCHANGED messageVars /\ call' = NoCall
    BY <1>1 DEF cmocka_set_test_filter, cmocka_set_skip_filter
  <2>3. test_filter' \in Filters /\ skip_filter' \in Filters
    BY <1>1, <2>1 DEF cmocka_set_test_filter, cmocka_set_skip_filter, RoutineInv, Filters
  <2> QED
    BY <2>2, <2>3, Frames DEF RoutineInv
<1>2. ASSUME NEW g \in Groups, select_tests(g) PROVE RoutineInv'
  <2>1. g \in Seq(Seq(STRING) \X BOOLEAN)
    BY TextsAssumption
  <2> DEFINE record == [routine |-> "select", group |-> g, selected |-> Selected(g)]
  <2>2. Called(record) /\ record.routine = "select"
    BY <1>2 DEF select_tests
  <2>3. SelectsMatching'
    BY <1>2, <2>1, SelectStep DEF RoutineInv
  <2> HIDE DEF record
  <2>4. call' = record /\ test_filter' \in Filters /\ skip_filter' \in Filters
        /\ MessageInv'
    BY <2>2, CalledFrame
  <2>5. CallInv'
    BY <2>2, <2>3, <2>4, TextElsewhere DEF CallInv, BlockHoldsRequest, RuntimeIsElapsed
  <2> QED
    BY <2>4, <2>5 DEF RoutineInv
<1>3. ASSUME NEW len \in 0 .. MessageBuffer + 1, NEW allocated \in BOOLEAN,
             vcmocka_print_error(len, allocated)
      PROVE  RoutineInv'
  <2>1. len \in Nat
    BY SizesAssumption
  <2>2. MessageInv'
    BY <1>3, <2>1, MessagePrint DEF RoutineInv
  <2>3. UNCHANGED <<filterVars, call>>
    BY <1>3 DEF vcmocka_print_error
  <2> QED
    BY <2>2, <2>3, Frames DEF RoutineInv
<1>4. ASSUME message_handed_over PROVE RoutineInv'
  <2>1. cm_error_message' = NoMessage /\ prints' = <<>> /\ UNCHANGED <<filterVars, call>>
    BY <1>4 DEF message_handed_over
  <2>2. MessageInv'
    <3>1. Before' = <<>> /\ Pieces(prints') = <<>>
      BY <2>1 DEF Before, Pieces, NoMessage
    <3>2. FlattenSeq(<<>>) = <<>>
      BY DEF FlattenSeq
    <3> QED
      BY <2>1, <3>1, <3>2 DEF MessageInv, NoMessage
  <2> QED
    BY <2>1, <2>2, Frames DEF RoutineInv
<1>5. ASSUME NEW record, Called(record), record.routine \in {"replace", "escape"},
             TextIsReplaced'
      PROVE  RoutineInv'
  <2>1. call' = record /\ test_filter' \in Filters /\ skip_filter' \in Filters
        /\ MessageInv'
    BY <1>5, CalledFrame
  <2>2. CallInv'
    BY <1>5, <2>1 DEF CallInv, SelectsMatching, BlockHoldsRequest, RuntimeIsElapsed
  <2> QED
    BY <2>1, <2>2 DEF RoutineInv
<1>6. ASSUME NEW record, Called(record), record.routine \in {"null", "refused", "malloc"},
             BlockHoldsRequest'
      PROVE  RoutineInv'
  <2>1. call' = record /\ test_filter' \in Filters /\ skip_filter' \in Filters
        /\ MessageInv'
    BY <1>6, CalledFrame
  <2>2. CallInv'
    BY <1>6, <2>1, TextElsewhere DEF CallInv, SelectsMatching, RuntimeIsElapsed
  <2> QED
    BY <2>1, <2>2 DEF RoutineInv
<1>7. ASSUME NEW r \in Replacements, replace(r[1], r[2], r[3], r[4]) PROVE RoutineInv'
  BY <1>5, <1>7, TextReplaced DEF replace
<1>8. ASSUME NEW a \in Attributes, escape(a[1], a[2]) PROVE RoutineInv'
  BY <1>5, <1>8, TextEscaped DEF escape
<1>9. ASSUME NEW size \in Sizes, test_malloc_layout(size, size) PROVE RoutineInv'
  BY <1>6, <1>9, LayoutCalled, MallocLayout
<1>10. ASSUME NEW n \in Sizes, NEW size \in Sizes, test_calloc_layout(n, size)
       PROVE  RoutineInv'
  <2>1. BlockHoldsRequest'
    BY <1>10, CallocLayout
  <2>2. PICK record : Called(record) /\ record.routine \in {"null", "refused", "malloc"}
    <3>1. CASE size > 0 /\ n > (2^SizeBits - 1) \div size
      <4>1. Called([routine |-> "null"])
        BY <1>10, <3>1 DEF test_calloc_layout
      <4> QED
        BY <4>1
    <3>2. CASE ~ (size > 0 /\ n > (2^SizeBits - 1) \div size)
      <4>1. test_malloc_layout(n * size, (n * size) % 2^SizeBits)
        BY <1>10, <3>2 DEF test_calloc_layout
      <4> QED
        BY <4>1, LayoutCalled
    <3> QED
      BY <3>1, <3>2
  <2> QED
    BY <1>6, <2>1, <2>2
<1>11. ASSUME NEW start \in Times, NEW finish \in Times, measure(finish, start)
       PROVE  RoutineInv'
  <2> DEFINE record == [routine |-> "time", start |-> start, finish |-> finish,
                        runtime |-> cm_secdiff(finish, start)]
  <2>1. Called(record) /\ record.routine = "time"
    BY <1>11 DEF measure
  <2>2. RuntimeIsElapsed'
    BY <1>11, MeasuredTime
  <2> HIDE DEF record
  <2>3. call' = record /\ test_filter' \in Filters /\ skip_filter' \in Filters
        /\ MessageInv'
    BY <2>1, CalledFrame
  <2>4. CallInv'
    BY <2>1, <2>2, <2>3, TextElsewhere DEF CallInv, SelectsMatching, BlockHoldsRequest
  <2> QED
    BY <2>3, <2>4 DEF RoutineInv
<1>12. ASSUME call_forgotten PROVE RoutineInv'
  <2>1. call' = NoCall /\ UNCHANGED messageVars /\ test_filter' = test_filter
        /\ skip_filter' = skip_filter
    BY <1>12 DEF call_forgotten, filterVars
  <2> QED
    BY <2>1, Frames DEF RoutineInv
<1>13. ASSUME UNCHANGED routineVars PROVE RoutineInv'
  <2>1. UNCHANGED messageVars /\ UNCHANGED <<filterVars, call>>
    BY <1>13 DEF routineVars
  <2> QED
    BY <2>1, Frames DEF RoutineInv
<1>14. CASE FilterNext
  BY <1>1, <1>2, <1>14 DEF FilterNext
<1>15. CASE MessageNext
  BY <1>3, <1>4, <1>15 DEF MessageNext
<1>16. CASE CallNext
  BY <1>7, <1>8, <1>9, <1>10, <1>11, <1>16 DEF CallNext
<1> QED
  BY <1>12, <1>13, <1>14, <1>15, <1>16 DEF RoutineNext

\* The invariant holds throughout.
LEMMA RoutineInvariant == RoutineSpec => []RoutineInv
<1>1. RoutineInit => RoutineInv
  <2> SUFFICES ASSUME RoutineInit PROVE RoutineInv
    OBVIOUS
  <2>1. test_filter \in Filters /\ skip_filter \in Filters
    BY DEF RoutineInit, Filters
  <2>2. MessageInv
    BY MessageStart DEF RoutineInit
  <2>3. CallInv
    <3>1. ReplacesInPlace /\ EscapedOnce
      BY DEF RoutineInit, NoCall, ReplacesInPlace, EscapedOnce
    <3> QED
      BY <3>1 DEF RoutineInit, NoCall, CallInv, SelectsMatching, TextIsReplaced,
                  BlockHoldsRequest, RuntimeIsElapsed
  <2> QED
    BY <2>1, <2>2, <2>3 DEF RoutineInv
<1> QED
  BY <1>1, RoutineStep, PTL DEF RoutineSpec

-----------------------------------------------------------------------------
(* The theorems.                                                           *)

\* A set or memory check stored by expect_*() is applied to what the array held
\* when it was stored.
THEOREM ChecksItsOwnData == Spec => []ChecksWhatWasGiven
<1>1. CheckInv => ChecksWhatWasGiven
  BY DEF CheckInv, ResultInv, ChecksWhatWasGiven
<1> QED
  BY <1>1, CheckInvariant, PTL

\* Every check accepts what its name says: set checks the members of any array,
\* ranges of one sign the values in them, and each check what its negation, which
\* is coded separately, does not.
THEOREM ChecksMeanTheirNames == Spec => []AcceptsWhatItSays
<1>1. CheckInv => AcceptsWhatItSays
  BY SetsAreMembership, NegationsAreOpposite, RangesOfOneSign DEF AcceptsWhatItSays
<1> QED
  BY <1>1, CheckInvariant, PTL

\* The dump of unequal memory is enough to rebuild both buffers, for any number
\* of bytes in a line and buffers of any length.
THEOREM DumpsTellAll == Spec => []DumpTellsAll
<1>1. CheckInv => DumpTellsAll
  BY DumpIsEnough
<1> QED
  BY <1>1, CheckInvariant, PTL

\* Finite floats are equal for the assertions if and only if they are close, for
\* any range of floats, tolerance and FLT_EPSILON, also where differences overflow.
THEOREM EqualFloatsAreClose == Spec => []FloatIsClose
<1>1. CheckInv => FloatIsClose
  BY FloatsAreClose
<1> QED
  BY <1>1, CheckInvariant, PTL

\* The filters select the documented tests of any group, each once and in their
\* order; with adjacent stars, only tests that match are selected.
THEOREM FiltersSelectMatching == RoutineSpec => []SelectsMatching
<1>1. RoutineInv => SelectsMatching
  BY DEF RoutineInv, CallInv
<1> QED
  BY <1>1, RoutineInvariant, PTL

\* c_strreplace() writes what a reader of the text expects and never behind its
\* buffer, for texts, patterns, replacements and buffers of any length, and five
\* of them in a row escape every special character of an attribute exactly once.
THEOREM TextsAreReplaced == RoutineSpec => []TextIsReplaced
<1>1. RoutineInv => TextIsReplaced
  BY DEF RoutineInv, CallInv
<1> QED
  BY <1>1, RoutineInvariant, PTL

\* The error message is made of the prints in their order and fits into the
\* memory allocated for it, for any size of the buffer and any prints.
THEOREM MessagesAreWhole == RoutineSpec => []MessageIsWhole
<1>1. RoutineInv => MessageIsWhole
  BY MessageInvIsWhole DEF RoutineInv
<1> QED
  BY <1>1, RoutineInvariant, PTL

\* Header, guards and the bytes asked for lie inside of every block, also at the
\* sizes where a sum or a product wraps around.
THEOREM BlocksHoldRequests == RoutineSpec => []BlockHoldsRequest
<1>1. RoutineInv => BlockHoldsRequest
  BY DEF RoutineInv, CallInv
<1> QED
  BY <1>1, RoutineInvariant, PTL

\* The run time is exact if the seconds of the clock did not go back.
THEOREM RuntimesAreElapsed == RoutineSpec => []RuntimeIsElapsed
<1>1. RoutineInv => RuntimeIsElapsed
  BY DEF RoutineInv, CallInv
<1> QED
  BY <1>1, RoutineInvariant, PTL
=============================================================================
