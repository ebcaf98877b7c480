------------------------- MODULE CallOrdering_proofs -------------------------
(***************************************************************************)
(* Proofs about CallOrdering: the list with its refcounts implements the   *)
(* plan of CallPlan, for any functions, counts and bounds.                 *)
(***************************************************************************)
EXTENDS CallOrdering, SequenceTheorems, WellFoundedInduction, TLAPS

\* What the refcount of a node says of its declaration.
Owed(v) == IF declared[v].count > 0 THEN declared[v].count - called[v]
           ELSE IF declared[v].count = -1 /\ called[v] > 0 THEN -2
           ELSE declared[v].count

\* A count of n is used up after n calls, and a count of 0 is refused.
CalledWithinCount ==
    \A v \in 1 .. Len(declared) :
        /\ declared[v].count # 0
        /\ declared[v].count > 0 => called[v] <= declared[v].count

\* Every node stands for an open declaration and says what it is still owed.
NodesAreOpen ==
    \A i \in 1 .. Len(ordering) :
        /\ ordering[i].value \in 1 .. Len(declared)
        /\ Plan!Open(ordering[i].value)
        /\ ordering[i].refcount = Owed(ordering[i].value)

\* The nodes are in the order of the declarations.
NodesInOrder ==
    \A i, j \in 1 .. Len(ordering) : i < j => ordering[i].value < ordering[j].value

\* Every open declaration has a node.
OpenIsListed ==
    \A v \in 1 .. Len(declared) :
        Plan!Open(v) => \E i \in 1 .. Len(ordering) : ordering[i].value = v

ListInv == CalledWithinCount /\ NodesAreOpen /\ NodesInOrder /\ OpenIsListed

\* The inductive invariant: the list agrees with the history of the test that
\* runs, and the report of the last one blames a declaration that is owed.
OrderInv ==
    /\ TypeOK
    /\ outcome = "running" => report = NoReport /\ ListInv
    /\ BlamedIsOwed

-----------------------------------------------------------------------------
(* Sequences.                                                              *)

\* A set of natural numbers that is not empty has a least element.
LEMMA LeastElement ==
    ASSUME NEW T, T \subseteq Nat, T # {}
    PROVE  \E x \in T : \A y \in T : x <= y
<1> DEFINE R == OpToRel(<, Nat)
<1>1. IsWellFoundedOn(R, Nat)
  BY NatLessThanWellFounded
<1>2. \A x, y \in Nat : y < x => <<y, x>> \in R
  BY DEF OpToRel
<1> HIDE DEF R
<1>3. PICK x \in T : \A y \in T : ~ (<<y, x>> \in R)
  BY <1>1, WFMin
<1>4. ASSUME NEW y \in T PROVE x <= y
  <2>1. x \in Nat /\ y \in Nat
    OBVIOUS
  <2>2. ~ (<<y, x>> \in R)
    BY <1>3
  <2>3. ~ (y < x)
    BY <1>2, <2>1, <2>2
  <2> QED
    BY <2>1, <2>3
<1> QED
  BY <1>4

\* What list_remove leaves of a list.
LEMMA RemoveNodeFacts ==
    ASSUME NEW list \in Seq(Node), NEW i \in 1 .. Len(list)
    PROVE  /\ RemoveNode(list, i) \in Seq(Node)
           /\ Len(RemoveNode(list, i)) = Len(list) - 1
           /\ \A k \in 1 .. Len(list) - 1 :
                 RemoveNode(list, i)[k] = IF k < i THEN list[k] ELSE list[k + 1]
<1> DEFINE a == SubSeq(list, 1, i - 1)
           b == SubSeq(list, i + 1, Len(list))
<1>1. Len(list) \in Nat /\ \A k \in 1 .. Len(list) : list[k] \in Node
  OBVIOUS
<1>2. /\ a \in Seq(Node) /\ Len(a) = i - 1
      /\ \A k \in 1 .. i - 1 : a[k] = list[k]
  <2>1. \A k \in 1 .. i - 1 : list[k] \in Node
    BY <1>1
  <2> QED
    BY <1>1, <2>1, SubSeqProperties
<1>3. /\ b \in Seq(Node) /\ Len(b) = Len(list) - i
      /\ \A k \in 1 .. Len(list) - i : b[k] = list[i + k]
  <2>1. \A k \in i + 1 .. Len(list) : list[k] \in Node
    BY <1>1
  <2> QED
    BY <1>1, <2>1, SubSeqProperties
<1> HIDE DEF a, b
<1>4. /\ a \o b \in Seq(Node) /\ Len(a \o b) = Len(a) + Len(b)
      /\ \A k \in 1 .. Len(a) + Len(b) :
            (a \o b)[k] = IF k <= Len(a) THEN a[k] ELSE b[k - Len(a)]
  BY <1>2, <1>3, ConcatProperties
<1>5. RemoveNode(list, i) = a \o b
  BY DEF RemoveNode, a, b
<1>6. \A k \in 1 .. Len(list) - 1 :
         (a \o b)[k] = IF k < i THEN list[k] ELSE list[k + 1]
  <2> TAKE k \in 1 .. Len(list) - 1
  <2>1. CASE k < i
    BY <1>1, <1>2, <1>3, <1>4, <2>1
  <2>2. CASE ~ (k < i)
    <3>1. (a \o b)[k] = b[k - (i - 1)] /\ k - (i - 1) \in 1 .. Len(list) - i
      BY <1>1, <1>2, <1>3, <1>4, <2>2
    <3> QED
      BY <1>1, <1>3, <2>2, <3>1
  <2> QED
    BY <2>1, <2>2
<1> QED
  BY <1>1, <1>2, <1>3, <1>4, <1>5, <1>6

\* What a call does to the list: the node is removed, or its refcount changed.
LEMMA CountCallFacts ==
    ASSUME NEW list \in Seq(Node), NEW i \in 1 .. Len(list)
    PROVE  /\ CountCall(list, i) \in Seq(Node)
           /\ list[i].refcount = 1 => CountCall(list, i) = RemoveNode(list, i)
           /\ list[i].refcount # 1 =>
                 /\ Len(CountCall(list, i)) = Len(list)
                 /\ \A k \in 1 .. Len(list) :
                       /\ CountCall(list, i)[k].value = list[k].value
                       /\ k # i => CountCall(list, i)[k] = list[k]
                 /\ CountCall(list, i)[i].refcount =
                       IF list[i].refcount > -2 THEN list[i].refcount - 1
                       ELSE list[i].refcount
<1>0. list[i] \in Node
  OBVIOUS
<1>1. list[i] \in Node /\ list[i].refcount \in Int \ {0}
  BY <1>0 DEF Node, NodeOf
<1>2. CASE list[i].refcount = 1
  <2>1. CountCall(list, i) = RemoveNode(list, i)
    BY <1>2 DEF CountCall
  <2> QED
    BY <1>2, <2>1, RemoveNodeFacts
<1>3. CASE list[i].refcount # 1 /\ list[i].refcount > -2
  <2> DEFINE n == [list[i] EXCEPT !.refcount = @ - 1]
  <2>1. CountCall(list, i) = [list EXCEPT ![i] = n]
    BY <1>1, <1>3 DEF CountCall
  <2>2. n \in Node /\ n.value = list[i].value /\ n.refcount = list[i].refcount - 1
    <3>1. list[i].refcount - 1 \in Int \ {0}
      BY <1>1, <1>3
    <3> QED
      BY <1>1, <3>1 DEF Node, NodeOf
  <2> HIDE DEF n
  <2>3. /\ [list EXCEPT ![i] = n] \in Seq(Node)
        /\ Len([list EXCEPT ![i] = n]) = Len(list)
        /\ \A k \in 1 .. Len(list) :
              [list EXCEPT ![i] = n][k] = IF k = i THEN n ELSE list[k]
    BY <2>2, ExceptSeq
  <2> QED
    BY <1>3, <2>1, <2>2, <2>3
<1>4. CASE ~ (list[i].refcount > -2)
  <2>1. CountCall(list, i) = list
    BY <1>1, <1>4 DEF CountCall
  <2> QED
    BY <1>1, <1>4, <2>1
<1> QED
  BY <1>1, <1>2, <1>3, <1>4

-----------------------------------------------------------------------------
(* Facts about the state while a test runs.                                *)

\* The declarations and their histories, as the type invariant gives them.
LEMMA DeclaredType ==
    ASSUME TypeOK
    PROVE  /\ Len(declared) \in Nat /\ Len(ordering) \in Nat
           /\ DOMAIN declared = 1 .. Len(declared)
           /\ DOMAIN ordering = 1 .. Len(ordering)
           /\ \A v \in 1 .. Len(declared) :
                 /\ v \in Nat \ {0}
                 /\ called[v] \in Nat
                 /\ declared[v] \in FuncOrderingValue
                 /\ declared[v].count \in Int
           /\ \A i \in 1 .. Len(ordering) :
                 ordering[i] \in Node /\ ordering[i].value \in Nat \ {0}
<1>1. /\ declared \in Seq(FuncOrderingValue) /\ called \in Seq(Nat)
      /\ Len(called) = Len(declared) /\ ordering \in Seq(Node)
  BY DEF TypeOK
<1>2. Len(declared) \in Nat /\ Len(ordering) \in Nat
      /\ DOMAIN declared = 1 .. Len(declared) /\ DOMAIN ordering = 1 .. Len(ordering)
  BY <1>1
<1>3. \A v \in 1 .. Len(declared) :
         v \in Nat \ {0} /\ called[v] \in Nat /\ declared[v] \in FuncOrderingValue
  BY <1>1
<1>4. \A v \in 1 .. Len(declared) : declared[v].count \in Int
  BY <1>3, CountsAssumption DEF FuncOrderingValue
<1>5. \A i \in 1 .. Len(ordering) : ordering[i] \in Node
  BY <1>1
<1>6. \A i \in 1 .. Len(ordering) : ordering[i].value \in Nat \ {0}
  BY <1>5 DEF Node, NodeOf
<1> QED
  BY <1>2, <1>3, <1>4, <1>5, <1>6

\* The refcount of an open declaration tells whether it asks for a call: the
\* test `refcount > -2' of function_called() and of the leftover check.
LEMMA RefcountTells ==
    ASSUME TypeOK, ListInv, NEW v \in 1 .. Len(declared), Plan!Open(v)
    PROVE  /\ Owed(v) \in Int /\ Owed(v) # 0
           /\ Plan!Optional(v) <=> ~ (Owed(v) > -2)
<1>1. called[v] \in Nat /\ declared[v].count \in Int
  BY DeclaredType
<1>2. /\ declared[v].count # 0
      /\ declared[v].count > 0 => called[v] <= declared[v].count
  BY DEF ListInv, CalledWithinCount
<1> QED
  BY <1>1, <1>2 DEF Owed, Plan!Open, Plan!Optional

\* Where the search ends, every older open declaration is optional and is not
\* one of f.
LEMMA SearchPasses ==
    ASSUME TypeOK, ListInv, NEW f, NEW i \in 1 .. Len(ordering),
           \A j \in 1 .. i - 1 : ~ StopsAt(j, f)
    PROVE  \A w \in 1 .. ordering[i].value - 1 :
              Plan!Open(w) => Plan!Optional(w) /\ declared[w].function # f
<1> DEFINE v == ordering[i].value
<1>1. v \in 1 .. Len(declared) /\ v \in Nat /\ Len(declared) \in Nat
      /\ Len(ordering) \in Nat
  BY DeclaredType DEF ListInv, NodesAreOpen
<1> SUFFICES ASSUME NEW w \in 1 .. v - 1, Plan!Open(w)
             PROVE  Plan!Optional(w) /\ declared[w].function # f
  OBVIOUS
<1>2. w \in 1 .. Len(declared) /\ w < v
  BY <1>1
<1>3. PICK j \in 1 .. Len(ordering) : ordering[j].value = w
  BY <1>2 DEF ListInv, OpenIsListed
<1>4. j \in 1 .. i - 1
  <2>1. ~ (i < j)
    BY <1>1, <1>2, <1>3 DEF ListInv, NodesInOrder
  <2>2. i # j
    BY <1>1, <1>2, <1>3
  <2> QED
    BY <1>1, <2>1, <2>2
<1>5. ~ StopsAt(j, f)
  BY <1>4
<1>6. declared[w].function # f /\ ~ (ordering[j].refcount > -2)
  BY <1>3, <1>5 DEF StopsAt, FunctionAt
<1>7. ordering[j].refcount = Owed(w)
  BY <1>3 DEF ListInv, NodesAreOpen
<1> QED
  BY <1>2, <1>6, <1>7, RefcountTells

\* The search that finds f ends at the declaration that should receive the call.
LEMMA FoundReceives ==
    ASSUME TypeOK, ListInv, NEW f, NEW i \in 1 .. Len(ordering),
           IsSearchResult(i, f), FunctionAt(i) = f
    PROVE  Plan!Receives(ordering[i].value, f)
<1>1. \A j \in 1 .. i - 1 : ~ StopsAt(j, f)
  BY DEF IsSearchResult
<1>2. Plan!Open(ordering[i].value) /\ declared[ordering[i].value].function = f
  BY DEF ListInv, NodesAreOpen, FunctionAt
<1> QED
  BY <1>1, <1>2, SearchPasses DEF Plan!Receives

\* A call that ends the search at a node of another function could not have
\* been received, and that node is owed a call.
LEMMA OutOfOrderIsRefused ==
    ASSUME TypeOK, ListInv, NEW f, NEW i \in 1 .. Len(ordering),
           IsSearchResult(i, f), FunctionAt(i) # f
    PROVE  /\ \A u \in 1 .. Len(declared) : ~ Plan!Receives(u, f)
           /\ Plan!Open(ordering[i].value) /\ ~ Plan!Optional(ordering[i].value)
<1> DEFINE v == ordering[i].value
<1>1. \A j \in 1 .. i - 1 : ~ StopsAt(j, f)
  BY DEF IsSearchResult
<1>2. ordering[i].refcount > -2
  BY DEF IsSearchResult, StopsAt
<1>3. v \in 1 .. Len(declared) /\ Plan!Open(v) /\ Owed(v) = ordering[i].refcount
  BY DEF ListInv, NodesAreOpen
<1>4. ~ Plan!Optional(v)
  BY <1>2, <1>3, RefcountTells
<1>5. declared[v].function # f
  BY DEF FunctionAt
<1>6. \A w \in 1 .. v - 1 : Plan!Open(w) => declared[w].function # f
  BY <1>1, SearchPasses
<1>7. Len(declared) \in Nat
  BY DeclaredType
<1> HIDE DEF v
<1>8. ASSUME NEW u \in 1 .. Len(declared), Plan!Receives(u, f) PROVE FALSE
  <2>1. /\ declared[u].function = f /\ Plan!Open(u)
        /\ \A w \in 1 .. u - 1 : Plan!Open(w) => Plan!Optional(w)
    BY <1>8 DEF Plan!Receives
  <2>2. ~ (u < v)
    BY <1>3, <1>6, <1>7, <2>1
  <2>3. ~ (v < u)
    BY <1>3, <1>4, <1>7, <2>1
  <2> QED
    BY <1>3, <1>5, <1>7, <2>1, <2>2, <2>3
<1> QED
  BY <1>3, <1>4, <1>8 DEF v

\* A call for which the search finds nothing could not have been received.
LEMMA UnexpectedIsRefused ==
    ASSUME TypeOK, ListInv, NEW f,
           ~ \E i \in 1 .. Len(ordering) : IsSearchResult(i, f)
    PROVE  \A u \in 1 .. Len(declared) : ~ Plan!Receives(u, f)
<1> DEFINE T == {i \in 1 .. Len(ordering) : StopsAt(i, f)}
<1>1. Len(ordering) \in Nat /\ DOMAIN ordering = 1 .. Len(ordering)
  BY DeclaredType
<1>2. T = {}
  <2> SUFFICES ASSUME T # {} PROVE FALSE
    OBVIOUS
  <2>1. T \subseteq Nat
    BY <1>1
  <2>2. PICK x \in T : \A y \in T : x <= y
    BY <2>1, LeastElement
  <2>3. \A j \in 1 .. x - 1 : ~ StopsAt(j, f)
    BY <1>1, <2>1, <2>2
  <2> QED
    BY <1>1, <2>2, <2>3 DEF IsSearchResult
<1>3. \A i \in 1 .. Len(ordering) : declared[ordering[i].value].function # f
  BY <1>2 DEF StopsAt, FunctionAt
<1> QED
  BY <1>3 DEF ListInv, OpenIsListed, Plan!Receives

-----------------------------------------------------------------------------
(* The invariant.                                                          *)

\* The invariant holds before the first test.
LEMMA OrderInvInit == Init => OrderInv
  BY DEF Init, OrderInv, TypeOK, BlamedIsOwed, Report, NoReport

\* A declaration goes to the end of the list.
LEMMA DeclareInv ==
    ASSUME OrderInv, NEW f \in Functions, NEW c \in Counts, expect_function_call(f, c)
    PROVE  OrderInv'
<1>0. PICK n : n = Len(declared)
  OBVIOUS
<1> DEFINE d == [function |-> f, count |-> c]
           x == [value |-> n + 1, refcount |-> c]
<1>1. TypeOK /\ ListInv /\ report = NoReport /\ outcome = "running"
  BY DEF OrderInv, expect_function_call
<1>2. /\ declared' = Append(declared, d) /\ called' = Append(called, 0)
      /\ ordering' = Append(ordering, x) /\ UNCHANGED <<outcome, report>>
  BY <1>0 DEF expect_function_call, list_add_value
<1>3. c \in Int /\ c # 0
  BY CountsAssumption DEF expect_function_call
<1>4. n \in Nat /\ Len(ordering) \in Nat /\ Len(called) = n
      /\ declared \in Seq(FuncOrderingValue) /\ called \in Seq(Nat)
      /\ ordering \in Seq(Node)
  BY <1>0, <1>1, DeclaredType DEF TypeOK
<1>5. d \in FuncOrderingValue /\ d.count = c /\ x \in Node
      /\ x.value = n + 1 /\ x.refcount = c
  BY <1>3, <1>4 DEF FuncOrderingValue, Node, NodeOf
<1> HIDE DEF d, x
<1>6. /\ declared' \in Seq(FuncOrderingValue) /\ Len(declared') = n + 1
      /\ \A v \in 1 .. n : declared'[v] = declared[v]
      /\ declared'[n + 1] = d
  BY <1>0, <1>2, <1>4, <1>5, AppendProperties
<1>7. /\ called' \in Seq(Nat) /\ Len(called') = n + 1
      /\ \A v \in 1 .. n : called'[v] = called[v]
      /\ called'[n + 1] = 0
  <2>1. 0 \in Nat /\ called \in Seq(Nat) /\ Len(called) = n /\ called' = Append(called, 0)
    BY <1>2, <1>4
  <2> QED
    BY <2>1, AppendProperties
<1>8. /\ ordering' \in Seq(Node) /\ Len(ordering') = Len(ordering) + 1
      /\ \A i \in 1 .. Len(ordering) : ordering'[i] = ordering[i]
      /\ ordering'[Len(ordering) + 1] = x
  BY <1>2, <1>4, <1>5, AppendProperties
<1>9. TypeOK'
  BY <1>1, <1>2, <1>6, <1>7, <1>8 DEF TypeOK
<1>10. \A v \in 1 .. n : (Plan!Open(v)' <=> Plan!Open(v)) /\ Owed(v)' = Owed(v)
  BY <1>6, <1>7 DEF Plan!Open, Owed
<1>11. Plan!Open(n + 1)' /\ Owed(n + 1)' = c
  <2>1. declared'[n + 1].count = c /\ called'[n + 1] = 0
    BY <1>5, <1>6, <1>7
  <2> QED
    BY <1>3, <2>1 DEF Plan!Open, Owed
<1>12. CalledWithinCount'
  <2> SUFFICES ASSUME NEW v \in 1 .. n + 1
               PROVE  /\ declared'[v].count # 0
                      /\ declared'[v].count > 0 => called'[v] <= declared'[v].count
    BY <1>6 DEF CalledWithinCount
  <2>1. CASE v \in 1 .. n
    BY <1>0, <1>1, <1>6, <1>7, <2>1 DEF ListInv, CalledWithinCount
  <2>2. CASE v = n + 1
    BY <1>3, <1>5, <1>6, <1>7, <2>2
  <2> QED
    BY <1>4, <2>1, <2>2
<1>13. NodesAreOpen'
  <2> SUFFICES ASSUME NEW i \in 1 .. Len(ordering) + 1
               PROVE  \E v \in 1 .. n + 1 :
                         /\ ordering'[i].value = v /\ Plan!Open(v)'
                         /\ ordering'[i].refcount = Owed(v)'
    BY <1>6, <1>8 DEF NodesAreOpen, Plan!Open, Owed
  <2>1. CASE i \in 1 .. Len(ordering)
    <3>1. PICK v \in 1 .. n : /\ ordering[i].value = v /\ Plan!Open(v)
                              /\ ordering[i].refcount = Owed(v)
      BY <1>0, <1>1, <2>1 DEF ListInv, NodesAreOpen
    <3>2. Plan!Open(v)' /\ Owed(v)' = ordering[i].refcount
      BY <1>10, <3>1
    <3> QED
      BY <1>4, <1>8, <2>1, <3>1, <3>2
  <2>2. CASE i = Len(ordering) + 1
    BY <1>4, <1>5, <1>8, <1>11, <2>2
  <2>3. i \in 1 .. Len(ordering) \/ i = Len(ordering) + 1
    BY <1>4
  <2> QED
    BY <2>1, <2>2, <2>3
<1>14. NodesInOrder'
  <2>1. \A i \in 1 .. Len(ordering) : ordering[i].value < n + 1
    BY <1>0, <1>1, <1>4 DEF ListInv, NodesAreOpen
  <2> SUFFICES ASSUME NEW i \in 1 .. Len(ordering) + 1, NEW j \in 1 .. Len(ordering) + 1,
                      i < j
               PROVE  ordering'[i].value < ordering'[j].value
    BY <1>8 DEF NodesInOrder
  <2>2. i \in 1 .. Len(ordering) /\ ordering'[i] = ordering[i]
    BY <1>4, <1>8
  <2>3. CASE j \in 1 .. Len(ordering)
    BY <1>1, <1>8, <2>2, <2>3 DEF ListInv, NodesInOrder
  <2>4. CASE j = Len(ordering) + 1
    BY <1>5, <1>8, <2>1, <2>2, <2>4
  <2> QED
    BY <1>4, <2>3, <2>4
<1>15. OpenIsListed'
  <2> SUFFICES ASSUME NEW v \in 1 .. n + 1, Plan!Open(v)'
               PROVE  \E i \in 1 .. Len(ordering') : ordering'[i].value = v
    BY <1>6 DEF OpenIsListed
  <2>1. CASE v \in 1 .. n
    <3>1. Plan!Open(v)
      BY <1>10, <2>1
    <3>2. PICK i \in 1 .. Len(ordering) : ordering[i].value = v
      BY <1>0, <1>1, <2>1, <3>1 DEF ListInv, OpenIsListed
    <3> QED
      BY <1>4, <1>8, <3>2
  <2>2. CASE v = n + 1
    <3>1. Len(ordering) + 1 \in 1 .. Len(ordering')
      BY <1>4, <1>8
    <3>2. ordering'[Len(ordering) + 1].value = v
      BY <1>5, <1>8, <2>2
    <3> QED
      BY <3>1, <3>2
  <2> QED
    BY <1>4, <2>1, <2>2
<1> QED
  BY <1>1, <1>2, <1>9, <1>12, <1>13, <1>14, <1>15
  DEF OrderInv, ListInv, BlamedIsOwed, NoReport

\* A call counts against the node at which the search ended.
LEMMA CalledInv ==
    ASSUME OrderInv, NEW f \in Functions, function_called(f)
    PROVE  OrderInv'
<1>1. TypeOK /\ ListInv /\ report = NoReport /\ outcome = "running"
  BY DEF OrderInv, function_called
<1>2. /\ Len(declared) \in Nat /\ Len(ordering) \in Nat
      /\ DOMAIN ordering = 1 .. Len(ordering)
      /\ called \in Seq(Nat) /\ Len(called) = Len(declared) /\ ordering \in Seq(Node)
  BY <1>1, DeclaredType DEF TypeOK
<1>3. PICK i \in 1 .. Len(ordering) :
        /\ ordering' = CountCall(ordering, i)
        /\ called' = [called EXCEPT ![ordering[i].value] = @ + 1]
  BY <1>2 DEF function_called
<1>0. PICK v, r : v = ordering[i].value /\ r = ordering[i].refcount
  OBVIOUS
<1>4. v \in 1 .. Len(declared) /\ Plan!Open(v) /\ r = Owed(v)
      /\ called[v] \in Nat /\ declared[v].count \in Int
  BY <1>0, <1>1, DeclaredType DEF ListInv, NodesAreOpen
<1>5. UNCHANGED <<declared, outcome, report>>
  BY DEF function_called
<1>6. /\ called' \in Seq(Nat) /\ Len(called') = Len(called)
      /\ called'[v] = called[v] + 1
      /\ \A w \in 1 .. Len(declared) : w # v => called'[w] = called[w]
  <2> DEFINE e == called[v] + 1
  <2>1. called' = [called EXCEPT ![v] = e] /\ e \in Nat
    BY <1>0, <1>3, <1>4
  <2> HIDE DEF e
  <2> QED
    BY <1>2, <1>4, <2>1, ExceptSeq DEF e
<1>7. ordering' \in Seq(Node)
  BY <1>2, <1>3, CountCallFacts
<1>8. TypeOK'
  BY <1>1, <1>5, <1>6, <1>7 DEF TypeOK
<1>9. \A w \in 1 .. Len(declared) :
         w # v => (Plan!Open(w)' <=> Plan!Open(w)) /\ Owed(w)' = Owed(w)
  BY <1>5, <1>6 DEF Plan!Open, Owed
<1>10. /\ declared[v].count # 0
       /\ declared[v].count > 0 => called[v] < declared[v].count
  BY <1>1, <1>4 DEF ListInv, CalledWithinCount, Plan!Open
<1>11. /\ r = 1 => ~ Plan!Open(v)'
       /\ r # 1 => Plan!Open(v)' /\ Owed(v)' = IF r > -2 THEN r - 1 ELSE r
  <2>1. declared'[v].count = declared[v].count /\ called'[v] = called[v] + 1
    BY <1>5, <1>6
  <2>2. CASE declared[v].count > 0
    <3>1. r = declared[v].count - called[v] /\ r > 0
      BY <1>4, <1>10, <2>2 DEF Owed
    <3>2. Owed(v)' = declared[v].count - (called[v] + 1)
      BY <2>1, <2>2 DEF Owed
    <3>3. Plan!Open(v)' <=> called[v] + 1 # declared[v].count
      BY <2>1, <2>2 DEF Plan!Open
    <3>4. called[v] \in Int /\ declared[v].count \in Int
      BY <1>4
    <3>5. CASE r = 1
      BY <3>1, <3>3, <3>4, <3>5
    <3>6. CASE r # 1
      BY <3>1, <3>2, <3>3, <3>4, <3>6
    <3> QED
      BY <3>5, <3>6
  <2>3. CASE declared[v].count = -1
    BY <1>4, <2>1, <2>3 DEF Plan!Open, Owed
  <2>4. CASE declared[v].count < -1
    BY <1>4, <2>1, <2>4 DEF Plan!Open, Owed
  <2> QED
    BY <1>4, <1>10, <2>2, <2>3, <2>4
<1>12. CalledWithinCount'
  <2> SUFFICES ASSUME NEW w \in 1 .. Len(declared)
               PROVE  /\ declared[w].count # 0
                      /\ declared[w].count > 0 => called'[w] <= declared[w].count
    BY <1>5 DEF CalledWithinCount
  <2>1. CASE w = v
    BY <1>4, <1>6, <1>10, <2>1
  <2>2. CASE w # v
    BY <1>1, <1>6, <2>2 DEF ListInv, CalledWithinCount
  <2> QED
    BY <2>1, <2>2
<1>13. ASSUME NEW k \in 1 .. Len(ordering), k # i
       PROVE  \E u \in 1 .. Len(declared) :
                 /\ ordering[k].value = u /\ u # v
                 /\ Plan!Open(u)' /\ ordering[k].refcount = Owed(u)'
  <2>1. PICK u \in 1 .. Len(declared) :
          ordering[k].value = u /\ Plan!Open(u) /\ ordering[k].refcount = Owed(u)
    BY <1>1 DEF ListInv, NodesAreOpen
  <2>2. u # v
    BY <1>0, <1>1, <1>2, <1>4, <1>13, <2>1 DEF ListInv, NodesInOrder
  <2> QED
    BY <1>9, <2>1, <2>2
<1>14. CASE r = 1
  <2>1. /\ Len(ordering') = Len(ordering) - 1
        /\ \A k \in 1 .. Len(ordering) - 1 :
              ordering'[k] = IF k < i THEN ordering[k] ELSE ordering[k + 1]
    <3>1. ordering' = RemoveNode(ordering, i)
      BY <1>0, <1>2, <1>3, <1>14, CountCallFacts
    <3> QED
      BY <1>2, <3>1, RemoveNodeFacts
  <2>2. \A k \in 1 .. Len(ordering') :
           \E j \in 1 .. Len(ordering) : j # i /\ ordering'[k] = ordering[j]
                                        /\ j = IF k < i THEN k ELSE k + 1
    BY <1>2, <2>1
  <2>3. NodesAreOpen'
    <3> SUFFICES ASSUME NEW k \in 1 .. Len(ordering')
                 PROVE  \E u \in 1 .. Len(declared) :
                           /\ ordering'[k].value = u /\ Plan!Open(u)'
                           /\ ordering'[k].refcount = Owed(u)'
      BY <1>5 DEF NodesAreOpen, Plan!Open, Owed
    <3>1. PICK j \in 1 .. Len(ordering) : j # i /\ ordering'[k] = ordering[j]
      BY <2>2
    <3> QED
      BY <1>13, <3>1
  <2>4. NodesInOrder'
    BY <1>1, <1>2, <2>1 DEF ListInv, NodesInOrder
  <2>5. OpenIsListed'
    <3> SUFFICES ASSUME NEW w \in 1 .. Len(declared), Plan!Open(w)'
                 PROVE  \E k \in 1 .. Len(ordering') : ordering'[k].value = w
      BY <1>5 DEF OpenIsListed
    <3>1. w # v /\ Plan!Open(w)
      BY <1>9, <1>11, <1>14
    <3>2. PICK j \in 1 .. Len(ordering) : ordering[j].value = w
      BY <1>1, <3>1 DEF ListInv, OpenIsListed
    <3>3. j # i
      BY <1>0, <3>1, <3>2
    <3>4. CASE j < i
      BY <1>2, <2>1, <3>2, <3>4
    <3>5. CASE j > i
      <4>1. j - 1 \in 1 .. Len(ordering') /\ ordering'[j - 1] = ordering[j]
        BY <1>2, <2>1, <3>5
      <4> QED
        BY <3>2, <4>1
    <3> QED
      BY <1>2, <3>3, <3>4, <3>5
  <2> QED
    BY <1>1, <1>5, <1>8, <1>12, <2>3, <2>4, <2>5
    DEF OrderInv, ListInv, BlamedIsOwed, NoReport
<1>15. CASE r # 1
  <2>1. /\ Len(ordering') = Len(ordering)
        /\ \A k \in 1 .. Len(ordering) :
              /\ ordering'[k].value = ordering[k].value
              /\ k # i => ordering'[k] = ordering[k]
        /\ ordering'[i].refcount = IF r > -2 THEN r - 1 ELSE r
    BY <1>0, <1>2, <1>3, <1>15, CountCallFacts
  <2>2. NodesAreOpen'
    <3> SUFFICES ASSUME NEW k \in 1 .. Len(ordering)
                 PROVE  \E u \in 1 .. Len(declared) :
                           /\ ordering'[k].value = u /\ Plan!Open(u)'
                           /\ ordering'[k].refcount = Owed(u)'
      BY <1>5, <2>1 DEF NodesAreOpen, Plan!Open, Owed
    <3>1. CASE k = i
      BY <1>0, <1>4, <1>11, <1>15, <2>1, <3>1
    <3>2. CASE k # i
      BY <1>13, <2>1, <3>2
    <3> QED
      BY <3>1, <3>2
  <2>3. NodesInOrder'
    BY <1>1, <2>1 DEF ListInv, NodesInOrder
  <2>4. OpenIsListed'
    <3> SUFFICES ASSUME NEW w \in 1 .. Len(declared), Plan!Open(w)'
                 PROVE  \E k \in 1 .. Len(ordering') : ordering'[k].value = w
      BY <1>5 DEF OpenIsListed
    <3>1. Plan!Open(w)
      BY <1>4, <1>9
    <3> QED
      BY <1>1, <2>1, <3>1 DEF ListInv, OpenIsListed
  <2> QED
    BY <1>1, <1>5, <1>8, <1>12, <2>2, <2>3, <2>4
    DEF OrderInv, ListInv, BlamedIsOwed, NoReport
<1> QED
  BY <1>14, <1>15

\* The end of a test leaves the declarations and their histories.
LEMMA EndInv ==
    ASSUME OrderInv, NEW o \in {"passed", "failed"}, NEW r \in Report, EndTest(o, r),
           r.kind \in {"out_of_order", "leftover"} =>
              Plan!Open(r.value) /\ ~ Plan!Optional(r.value)
    PROVE  OrderInv'
<1>1. /\ outcome' = o /\ report' = r /\ ordering' = <<>>
      /\ UNCHANGED <<declared, called>>
  BY DEF EndTest
<1>2. TypeOK'
  BY <1>1 DEF OrderInv, TypeOK
<1>3. BlamedIsOwed'
  BY <1>1 DEF BlamedIsOwed, Plan!Open, Plan!Optional
<1> QED
  BY <1>1, <1>2, <1>3 DEF OrderInv

\* What function_called() finds in its way is owed a call.
LEMMA OutOfOrderInv ==
    ASSUME OrderInv, NEW f \in Functions, function_called_out_of_order(f)
    PROVE  OrderInv' /\ \A u \in 1 .. Len(declared) : ~ Plan!Receives(u, f)
<1>1. TypeOK /\ ListInv
  BY DEF OrderInv, function_called_out_of_order
<1>2. PICK i \in 1 .. Len(ordering) :
        /\ IsSearchResult(i, f) /\ FunctionAt(i) # f
        /\ EndTest("failed", [kind |-> "out_of_order", value |-> ordering[i].value])
  BY <1>1, DeclaredType DEF function_called_out_of_order
<1> DEFINE r == [kind |-> "out_of_order", value |-> ordering[i].value]
<1>3. r \in Report
  BY <1>1, DeclaredType DEF Report
<1>4. /\ \A u \in 1 .. Len(declared) : ~ Plan!Receives(u, f)
      /\ Plan!Open(r.value) /\ ~ Plan!Optional(r.value)
  BY <1>1, <1>2, OutOfOrderIsRefused
<1>5. EndTest("failed", r)
  BY <1>2
<1> HIDE DEF r
<1> QED
  BY <1>3, <1>4, <1>5, EndInv

\* A test that returns owes a call if and only if the list holds a node that
\* remove_always_return_values_from_list leaves.
LEMMA LeftoverIsOwed ==
    ASSUME TypeOK, ListInv
    PROVE  /\ \A i \in check_for_leftover_values_list :
                 /\ i \in 1 .. Len(ordering)
                 /\ ordering[i].value \in 1 .. Len(declared)
                 /\ Plan!Open(ordering[i].value)
                 /\ ~ Plan!Optional(ordering[i].value)
           /\ check_for_leftover_values_list = {} =>
                 \A v \in 1 .. Len(declared) : Plan!Open(v) => Plan!Optional(v)
<1>1. DOMAIN ordering = 1 .. Len(ordering)
  BY DeclaredType
<1>2. ASSUME NEW i \in 1 .. Len(ordering)
      PROVE  /\ ordering[i].value \in 1 .. Len(declared)
             /\ Plan!Open(ordering[i].value)
             /\ Leftover(ordering[i]) <=> ~ Plan!Optional(ordering[i].value)
  <2>1. PICK v \in 1 .. Len(declared) :
          ordering[i].value = v /\ Plan!Open(v) /\ ordering[i].refcount = Owed(v)
    BY DEF ListInv, NodesAreOpen
  <2>2. Owed(v) \in Int /\ (Plan!Optional(v) <=> ~ (Owed(v) > -2))
    BY <2>1, RefcountTells
  <2> QED
    BY <2>1, <2>2 DEF Leftover
<1>3. ASSUME check_for_leftover_values_list = {},
             NEW v \in 1 .. Len(declared), Plan!Open(v)
      PROVE  Plan!Optional(v)
  <2>1. PICK i \in 1 .. Len(ordering) : ordering[i].value = v
    BY <1>3 DEF ListInv, OpenIsListed
  <2> QED
    BY <1>1, <1>2, <1>3, <2>1 DEF check_for_leftover_values_list
<1> QED
  BY <1>1, <1>2, <1>3 DEF check_for_leftover_values_list

\* The leftover check blames what is owed.
LEMMA LeftoverInv ==
    ASSUME OrderInv, fail_if_leftover_values
    PROVE  OrderInv'
<1>1. TypeOK /\ ListInv /\ report = NoReport
  BY DEF OrderInv, fail_if_leftover_values
<1>2. CASE EndTest("passed", report)
  BY <1>1, <1>2, EndInv DEF NoReport, Report
<1>3. ASSUME NEW i \in check_for_leftover_values_list,
             EndTest("failed", [kind |-> "leftover", value |-> ordering[i].value])
      PROVE  OrderInv'
  <2> DEFINE r == [kind |-> "leftover", value |-> ordering[i].value]
  <2>1. r \in Report /\ Plan!Open(r.value) /\ ~ Plan!Optional(r.value)
    BY <1>1, LeftoverIsOwed, DeclaredType DEF Report
  <2>2. EndTest("failed", r)
    BY <1>3
  <2> HIDE DEF r
  <2> QED
    BY <2>1, <2>2, EndInv
<1> QED
  BY <1>2, <1>3 DEF fail_if_leftover_values

\* Every step keeps the invariant.
LEMMA OrderInvNext == OrderInv /\ [Next]_vars => OrderInv'
<1> SUFFICES ASSUME OrderInv, [Next]_vars PROVE OrderInv'
  OBVIOUS
<1>1. CASE initialize_testing
  <2>1. /\ outcome' = "running" /\ ordering' = <<>> /\ declared' = <<>>
        /\ called' = <<>> /\ report' = NoReport
    BY <1>1 DEF initialize_testing
  <2>2. TypeOK'
    BY <2>1 DEF TypeOK, Report, NoReport
  <2>3. ListInv'
    BY <2>1 DEF ListInv, CalledWithinCount, NodesAreOpen, NodesInOrder, OpenIsListed
  <2> QED
    BY <2>1, <2>2, <2>3 DEF OrderInv, BlamedIsOwed, NoReport
<1>2. ASSUME NEW f \in Functions, NEW c \in Counts, expect_function_call(f, c)
      PROVE  OrderInv'
  BY <1>2, DeclareInv
<1>3. ASSUME NEW f \in Functions, function_called(f) PROVE OrderInv'
  BY <1>3, CalledInv
<1>4. ASSUME NEW f \in Functions, function_called_out_of_order(f) PROVE OrderInv'
  BY <1>4, OutOfOrderInv
<1>5. ASSUME NEW f \in Functions, function_called_unexpected(f) PROVE OrderInv'
  <2> DEFINE r == [kind |-> IF ordering = <<>> THEN "unexpected" ELSE "no_match",
                   value |-> 0]
  <2>1. r \in Report /\ r.kind \notin {"out_of_order", "leftover"}
    BY DEF Report
  <2>2. EndTest("failed", r)
    BY <1>5 DEF function_called_unexpected
  <2> HIDE DEF r
  <2> QED
    BY <2>1, <2>2, EndInv
<1>6. CASE expect_function_call_zero \/ fail
  BY <1>6, EndInv DEF expect_function_call_zero, fail, NoReport, Report
<1>7. CASE fail_if_leftover_values
  BY <1>7, LeftoverInv
<1>8. CASE UNCHANGED vars
  <2>1. UNCHANGED <<ordering, declared, called, outcome, report>>
    BY <1>8 DEF vars
  <2>2. TypeOK'
    BY <2>1 DEF OrderInv, TypeOK
  <2>3. BlamedIsOwed'
    BY <2>1 DEF OrderInv, BlamedIsOwed, Plan!Open, Plan!Optional
  <2>4. ListInv => ListInv'
    BY <2>1 DEF ListInv, CalledWithinCount, NodesAreOpen, NodesInOrder, OpenIsListed,
                Plan!Open, Owed
  <2> QED
    BY <2>1, <2>2, <2>3, <2>4 DEF OrderInv
<1> QED
  BY <1>1, <1>2, <1>3, <1>4, <1>5, <1>6, <1>7, <1>8 DEF Next

\* The invariant holds in every state.
LEMMA OrderInvariant == Spec => []OrderInv
<1>1. Init => OrderInv
  BY OrderInvInit
<1>2. OrderInv /\ [Next]_vars => OrderInv'
  BY OrderInvNext
<1> QED
  BY <1>1, <1>2, PTL DEF Spec

\* A test that passes is owed no call.
PassedOwesNothing ==
    outcome = "passed" =>
        \A v \in 1 .. Len(declared) : Plan!Open(v) => Plan!Optional(v)

\* The leftover check, and nothing else, lets a test pass.
LEMMA PassedNext == OrderInv /\ PassedOwesNothing /\ [Next]_vars => PassedOwesNothing'
<1> SUFFICES ASSUME OrderInv, PassedOwesNothing, [Next]_vars, outcome' = "passed"
             PROVE  \A v \in 1 .. Len(declared') : Plan!Open(v)' => Plan!Optional(v)'
  BY DEF PassedOwesNothing
<1>1. CASE UNCHANGED vars
  BY <1>1 DEF vars, PassedOwesNothing, Plan!Open, Plan!Optional
<1>2. CASE fail_if_leftover_values
  <2>1. check_for_leftover_values_list = {} /\ UNCHANGED <<declared, called>>
    BY <1>2 DEF fail_if_leftover_values, EndTest
  <2>2. TypeOK /\ ListInv
    BY <1>2 DEF OrderInv, fail_if_leftover_values
  <2>3. \A v \in 1 .. Len(declared) : Plan!Open(v) => Plan!Optional(v)
    BY <2>1, <2>2, LeftoverIsOwed
  <2> QED
    BY <2>1, <2>3 DEF Plan!Open, Plan!Optional
<1>3. CASE ~ UNCHANGED vars /\ ~ fail_if_leftover_values
  BY <1>3 DEF Next, initialize_testing, expect_function_call, function_called,
              function_called_out_of_order, function_called_unexpected,
              expect_function_call_zero, fail, EndTest
<1> QED
  BY <1>1, <1>2, <1>3

-----------------------------------------------------------------------------
(* The theorems.                                                           *)

\* The variables keep their types: function_called() leaves no node with a
\* refcount of 0 in the list.
THEOREM TypeCorrect == Spec => []TypeOK
<1>1. OrderInv => TypeOK
  BY DEF OrderInv
<1> QED
  BY <1>1, OrderInvariant, PTL

\* A test passes only if every function_called() that was due has come.
THEOREM PassedIsCalled == Spec => []PassedOwesNothing
<1>1. Init => PassedOwesNothing
  BY DEF Init, PassedOwesNothing
<1> QED
  BY <1>1, PassedNext, OrderInvariant, PTL DEF Spec

\* The messages of function_called() and of the leftover check name a
\* declaration that is still owed a call.
THEOREM BlameIsJust == Spec => []BlamedIsOwed
<1>1. OrderInv => BlamedIsOwed
  BY DEF OrderInv
<1> QED
  BY <1>1, OrderInvariant, PTL

\* Every step of the list is a step of the plan: the search of function_called()
\* and the refcounts of the nodes decide as the declarations and the calls
\* received say they should.
LEMMA PlanStep == OrderInv /\ [Next]_vars => [Plan!Next]_(Plan!vars)
<1> SUFFICES ASSUME OrderInv, [Next]_vars PROVE [Plan!Next]_(Plan!vars)
  OBVIOUS
<1>0. outcome = "running" =>
         /\ TypeOK /\ ListInv
         /\ DOMAIN declared = 1 .. Len(declared) /\ DOMAIN ordering = 1 .. Len(ordering)
         /\ PlanOutcome = "running"
  BY DeclaredType DEF OrderInv, PlanOutcome
<1>1. CASE initialize_testing
  <2>1. PlanOutcome # "running"
    BY <1>1 DEF initialize_testing, PlanOutcome
  <2> QED
    BY <1>1, <2>1 DEF initialize_testing, PlanOutcome, Plan!Next, Plan!Start
<1>2. ASSUME NEW f \in Functions, NEW c \in Counts, expect_function_call(f, c)
      PROVE  Plan!Next
  <2>1. Plan!Declare(f, c)
    BY <1>0, <1>2 DEF expect_function_call, Plan!Declare, PlanOutcome
  <2> QED
    BY <2>1 DEF Plan!Next
<1>3. ASSUME NEW f \in Functions, function_called(f)
      PROVE  Plan!Next
  <2>1. PICK i \in 1 .. Len(ordering) :
          /\ IsSearchResult(i, f) /\ FunctionAt(i) = f
          /\ called[ordering[i].value] < MaxCalls
          /\ called' = [called EXCEPT ![ordering[i].value] = @ + 1]
    BY <1>0, <1>3 DEF function_called
  <2>2. Plan!Receives(ordering[i].value, f) /\ ordering[i].value \in DOMAIN declared
    BY <1>0, <1>3, <2>1, FoundReceives DEF function_called, ListInv, NodesAreOpen
  <2>3. PlanOutcome = "running" /\ PlanOutcome' = PlanOutcome /\ declared' = declared
    BY <1>0, <1>3 DEF function_called, PlanOutcome
  <2>4. Plan!Receive(f)
    BY <2>1, <2>2, <2>3 DEF Plan!Receive
  <2> QED
    BY <2>4 DEF Plan!Next
<1>4. ASSUME NEW f \in Functions,
             function_called_out_of_order(f) \/ function_called_unexpected(f)
      PROVE  Plan!Next
  <2>1. outcome = "running" /\ declared' = declared /\ called' = called
        /\ PlanOutcome' = "refused"
    BY <1>4 DEF function_called_out_of_order, function_called_unexpected, EndTest,
                PlanOutcome
  <2>2. \A v \in DOMAIN declared : ~ Plan!Receives(v, f)
    <3>1. CASE function_called_out_of_order(f)
      BY <1>0, <2>1, <3>1, OutOfOrderInv
    <3>2. CASE function_called_unexpected(f)
      BY <1>0, <2>1, <3>2, UnexpectedIsRefused DEF function_called_unexpected
    <3> QED
      BY <1>4, <3>1, <3>2
  <2>3. Plan!Refuse(f)
    BY <1>0, <2>1, <2>2 DEF Plan!Refuse
  <2> QED
    BY <2>3 DEF Plan!Next
<1>5. ASSUME expect_function_call_zero \/ fail
      PROVE  Plan!Next
  <2>1. outcome = "running" /\ declared' = declared /\ called' = called
        /\ PlanOutcome' = "abandoned"
    BY <1>5 DEF expect_function_call_zero, fail, EndTest, PlanOutcome, NoReport
  <2> QED
    BY <1>0, <2>1 DEF Plan!Abandon, Plan!Next
<1>6. ASSUME fail_if_leftover_values
      PROVE  Plan!Next
  <2>1. outcome = "running" /\ declared' = declared /\ called' = called
    BY <1>6 DEF fail_if_leftover_values, EndTest
  <2>2. CASE check_for_leftover_values_list = {}
    <3>1. PlanOutcome' = "passed"
      BY <1>6, <2>2 DEF fail_if_leftover_values, EndTest, PlanOutcome
    <3>2. \A v \in DOMAIN declared : Plan!Open(v) => Plan!Optional(v)
      BY <1>0, <2>1, <2>2, LeftoverIsOwed
    <3> QED
      BY <1>0, <2>1, <3>1, <3>2 DEF Plan!Return, Plan!Next
  <2>3. CASE check_for_leftover_values_list # {}
    <3>1. PlanOutcome' = "owing"
      BY <1>6, <2>3 DEF fail_if_leftover_values, EndTest, PlanOutcome
    <3>2. ~ \A v \in DOMAIN declared : Plan!Open(v) => Plan!Optional(v)
      BY <1>0, <2>1, <2>3, LeftoverIsOwed
    <3> QED
      BY <1>0, <2>1, <3>1, <3>2 DEF Plan!Return, Plan!Next
  <2> QED
    BY <2>2, <2>3
<1>7. CASE UNCHANGED vars
  BY <1>7 DEF vars, Plan!vars, PlanOutcome
<1> QED
  BY <1>1, <1>2, <1>3, <1>4, <1>5, <1>6, <1>7 DEF Next

\* The list with its refcounts implements the plan: every call is received by
\* the declaration that should receive it, function_called() fails a test only
\* when no declaration could, and a test passes if and only if nothing is owed.
THEOREM ListImplementsPlan == Spec => ImplementsPlan
<1>1. Init => Plan!Init
  BY DEF Init, Plan!Init, PlanOutcome
<1>2. OrderInv /\ [Next]_vars => [Plan!Next]_(Plan!vars)
  BY PlanStep
<1> QED
  BY <1>1, <1>2, OrderInvariant, PTL DEF Spec, ImplementsPlan, Plan!Spec
=============================================================================
