-------------------------- MODULE MockValues_proofs --------------------------
(***************************************************************************)
(* Proofs about MockValues, for any functions, names, counts and bounds:   *)
(* types; the queues agree with what was declared and returned, so that    *)
(* values are returned in order, none is lost, and a test that passes has  *)
(* returned what it declared; the values have one owner each, the leftover *)
(* check blames what is owed, and the map of lists implements the plan of  *)
(* ValuePlan.                                                              *)
(***************************************************************************)
EXTENDS MockValues, SequenceTheorems, TLAPS

-----------------------------------------------------------------------------
(* Lists and maps.                                                         *)

\* Taking the first node of a list leaves a list of nodes: a refcount that is
\* counted down does not become 0.
LEMMA TakeFirstType ==
    ASSUME NEW list \in Seq(Node), list # <<>>
    PROVE  TakeFirst(list) \in Seq(Node)
<1>1. Head(list) \in Node /\ Tail(list) \in Seq(Node) /\ 1 \in DOMAIN list
  OBVIOUS
<1>2. ASSUME Head(list).refcount # 1
      PROVE  [list EXCEPT ![1].refcount = @ - 1] \in Seq(Node)
  <2>1. list[1] \in Node /\ list[1].refcount # 1
    BY <1>1, <1>2
  <2>2. [list[1] EXCEPT !.refcount = @ - 1] \in Node
    BY <2>1 DEF Node, NodeOf
  <2> QED
    BY <2>2
<1>3. Head(list).refcount \in Int
  BY <1>1 DEF Node, NodeOf
<1>4. Head(list).refcount - 1 = 0 <=> Head(list).refcount = 1
  BY <1>3
<1> QED
  BY <1>1, <1>2, <1>4 DEF TakeFirst

\* What TakeFirst leaves: the tail, or the same nodes with the refcount of the
\* first one changed.
LEMMA TakeFirstNodes ==
    ASSUME NEW list \in Seq(Node), list # <<>>
    PROVE  \/ /\ list[1].refcount = 1
              /\ TakeFirst(list) = Tail(list)
           \/ /\ list[1].refcount # 1
              /\ Len(TakeFirst(list)) = Len(list)
              /\ TakeFirst(list)[1].value = list[1].value
              /\ TakeFirst(list)[1].refcount =
                    IF list[1].refcount > -2 THEN list[1].refcount - 1
                    ELSE list[1].refcount
              /\ \A i \in 2 .. Len(list) : TakeFirst(list)[i] = list[i]
<1>1. Head(list) = list[1] /\ list[1] \in Node /\ 1 \in DOMAIN list
  OBVIOUS
<1>2. CASE list[1].refcount = 1
  BY <1>1, <1>2 DEF TakeFirst, Node, NodeOf
<1>3. CASE list[1].refcount # 1 /\ list[1].refcount > -2
  <2>1. TakeFirst(list) = [list EXCEPT ![1].refcount = @ - 1]
    BY <1>1, <1>3 DEF TakeFirst, Node, NodeOf, WILL_RETURN_ONCE
  <2> QED
    BY <1>1, <1>3, <2>1 DEF Node, NodeOf
<1>4. CASE ~ list[1].refcount > -2
  <2>1. TakeFirst(list) = list
    BY <1>1, <1>4 DEF TakeFirst, Node, NodeOf, WILL_RETURN_ONCE
  <2> QED
    BY <1>1, <1>4, <2>1 DEF Node, NodeOf
<1> QED
  BY <1>1, <1>2, <1>3, <1>4 DEF Node, NodeOf

\* Put keeps the type of a map.
LEMMA PutType ==
    ASSUME NEW m, NEW S, NEW E, NEW s \in S, NEW e \in E, IsMap(m, S, E)
    PROVE  IsMap(Put(m, s, e), S, E)
  BY DEF IsMap, Put

\* Drop keeps the type of a map.
LEMMA DropType ==
    ASSUME NEW m, NEW S, NEW E, NEW s, IsMap(m, S, E)
    PROVE  IsMap(Drop(m, s), S, E)
  BY DEF IsMap, Drop

\* get_symbol_value keeps the type of the map.
LEMMA GetType ==
    ASSUME NEW m, NEW S, IsMap(m, S, Seq(Node)),
           NEW s \in DOMAIN m, m[s] # <<>>
    PROVE  /\ get_symbol_value(m, s).value = m[s][1].value
           /\ get_symbol_value(m, s).rc = m[s][1].refcount
           /\ get_symbol_value(m, s).map = PutOrDrop(m, s, TakeFirst(m[s]), <<>>)
           /\ m[s] \in Seq(Node)
           /\ m[s][1] \in Node
           /\ IsMap(get_symbol_value(m, s).map, S, Seq(Node))
<1>1. m[s] \in Seq(Node) /\ s \in S
  BY DEF IsMap
<1>2. TakeFirst(m[s]) \in Seq(Node)
  BY <1>1, TakeFirstType
<1>3. IsMap(PutOrDrop(m, s, TakeFirst(m[s]), <<>>), S, Seq(Node))
  BY <1>1, <1>2, PutType, DropType DEF PutOrDrop
<1>4. Head(m[s]) = m[s][1] /\ m[s][1] \in Node
  BY <1>1
<1> QED
  BY <1>1, <1>3, <1>4 DEF get_symbol_value

\* The empty map has the type of every map.
LEMMA EmptyMapType == ASSUME NEW S, NEW E PROVE IsMap(EmptyMap, S, E)
  BY DEF IsMap, EmptyMap

\* add_symbol_value keeps the type of the map.
LEMMA AddType ==
    ASSUME NEW m, NEW S, IsMap(m, S, Seq(Node)), NEW s \in S,
           NEW v \in Nat \ {0}, NEW c \in Int \ {0}
    PROVE  IsMap(add_symbol_value(m, s, v, c), S, Seq(Node))
<1>1. ListAt(m, s) \in Seq(Node)
  BY DEF IsMap, ListAt
<1>2. [value |-> v, refcount |-> c] \in Node
  BY DEF Node, NodeOf
<1>3. list_add_value(ListAt(m, s), v, c) \in Seq(Node)
  BY <1>1, <1>2 DEF list_add_value
<1> QED
  BY <1>3, PutType DEF add_symbol_value

\* remove_always_return_values keeps the type and leaves no empty list.
LEMMA RemoveAlwaysType ==
    ASSUME NEW m, NEW S, IsMap(m, S, Seq(Node))
    PROVE  /\ IsMap(remove_always_return_values(m), S, Seq(Node))
           /\ \A s \in DOMAIN remove_always_return_values(m) :
                 remove_always_return_values(m)[s] # <<>>
<1>1. \A s \in DOMAIN m : DropServedFirst(m[s]) \in Seq(Node)
  BY DEF IsMap, DropServedFirst
<1> QED
  BY <1>1 DEF IsMap, remove_always_return_values

\* get_symbol_value leaves no symbol without a value.
LEMMA GetNoEmpty ==
    ASSUME NEW m, NEW s \in DOMAIN m, \A t \in DOMAIN m : m[t] # <<>>
    PROVE  \A t \in DOMAIN get_symbol_value(m, s).map :
              get_symbol_value(m, s).map[t] # <<>>
  BY DEF get_symbol_value, PutOrDrop, Put, Drop

\* add_symbol_value leaves no symbol without a value.
LEMMA AddNoEmpty ==
    ASSUME NEW m, NEW S, IsMap(m, S, Seq(Node)), NEW s \in S,
           NEW v \in Nat \ {0}, NEW c \in Int \ {0},
           \A t \in DOMAIN m : m[t] # <<>>
    PROVE  \A t \in DOMAIN add_symbol_value(m, s, v, c) :
              add_symbol_value(m, s, v, c)[t] # <<>>
<1>1. ListAt(m, s) \in Seq(Node)
  BY DEF IsMap, ListAt
<1>2. [value |-> v, refcount |-> c] \in Node
  BY DEF Node, NodeOf
<1>3. Len(list_add_value(ListAt(m, s), v, c)) = Len(ListAt(m, s)) + 1
  BY <1>1, <1>2 DEF list_add_value
<1>4. list_add_value(ListAt(m, s), v, c) # <<>>
  BY <1>1, <1>3
<1> QED
  BY <1>4 DEF add_symbol_value, Put

-----------------------------------------------------------------------------
(* Types, and the assertion of get_symbol_value that a list is not empty.   *)

TypeInv == TypeOK /\ NoEmptySymbol

\* The type invariant holds when the runner starts.
LEMMA TypeInvInit == Init => TypeInv
  BY EmptyMapType DEF Init, TypeInv, TypeOK, NoEmptySymbol, EmptyMap, Report, NoReport

\* Counting up one entry of a history keeps it a history of the same length.
LEMMA CountUpType ==
    ASSUME NEW s \in Seq(Nat), NEW v
    PROVE  /\ [s EXCEPT ![v] = @ + 1] \in Seq(Nat)
           /\ Len([s EXCEPT ![v] = @ + 1]) = Len(s)
<1> DEFINE t == [s EXCEPT ![v] = @ + 1]
<1>1. DOMAIN t = 1 .. Len(s) /\ Len(s) \in Nat
  OBVIOUS
<1>2. \A i \in 1 .. Len(s) : t[i] = IF i = v THEN s[i] + 1 ELSE s[i]
  OBVIOUS
<1>3. \A i \in 1 .. Len(s) : t[i] \in Nat
  BY <1>2
<1>4. t = [i \in 1 .. Len(s) |-> t[i]]
  BY <1>1
<1> HIDE DEF t
<1>5. t \in [1 .. Len(s) -> Nat]
  BY <1>3, <1>4
<1>6. t \in Seq(Nat)
  BY <1>1, <1>5
<1>7. Len(t) = Len(s)
  BY <1>1, <1>6
<1> QED
  BY <1>6, <1>7 DEF t

\* What the type invariant says of a function found in the map.
LEMMA FoundType ==
    ASSUME TypeInv, NEW f \in DOMAIN results
    PROVE  /\ f \in Functions
           /\ results[f] \in Seq(Node) /\ results[f] # <<>>
           /\ results[f][1] \in Node
           /\ get_symbol_value(results, f).value = results[f][1].value
           /\ get_symbol_value(results, f).value \in Nat \ {0}
           /\ get_symbol_value(results, f).rc = results[f][1].refcount
           /\ get_symbol_value(results, f).rc \in Int \ {0}
           /\ get_symbol_value(results, f).map =
                 PutOrDrop(results, f, TakeFirst(results[f]), <<>>)
           /\ IsMap(get_symbol_value(results, f).map, Functions, Seq(Node))
           /\ \A t \in DOMAIN get_symbol_value(results, f).map :
                 get_symbol_value(results, f).map[t] # <<>>
<1>1. IsMap(results, Functions, Seq(Node)) /\ results[f] # <<>>
      /\ \A t \in DOMAIN results : results[t] # <<>>
  BY DEF TypeInv, TypeOK, NoEmptySymbol
<1>2. f \in Functions
  BY <1>1 DEF IsMap
<1>3. results[f][1] \in Node
  BY <1>1, GetType
<1>4. results[f][1].value \in Nat \ {0} /\ results[f][1].refcount \in Int \ {0}
  BY <1>3 DEF Node, NodeOf
<1> QED
  BY <1>1, <1>2, <1>3, <1>4, GetType, GetNoEmpty

\* Every step keeps the type invariant.
LEMMA TypeInvNext == TypeInv /\ [Next]_vars => TypeInv'
<1> SUFFICES ASSUME TypeInv, [Next]_vars PROVE TypeInv'
  OBVIOUS
<1> USE DEF TypeInv
<1>1. CASE initialize_testing
  BY <1>1, EmptyMapType
  DEF initialize_testing, TypeOK, NoEmptySymbol, EmptyMap, Report, NoReport
<1>2. ASSUME NEW f \in Functions, NEW n \in MaybeName, NEW c \in Counts,
             will_return(f, n, c)
      PROVE  TypeInv'
  <2>1. c \in Int \ {0} /\ NewValue \in Nat \ {0}
    BY <1>2, CountsAssumption DEF will_return, NewValue, TypeOK
  <2>2. IsMap(results', Functions, Seq(Node))
    BY <1>2, <2>1, AddType DEF will_return, TypeOK
  <2>3. NoEmptySymbol'
    BY <1>2, <2>1, AddNoEmpty DEF will_return, TypeOK, NoEmptySymbol
  <2>4. declared' \in Seq(SymbolValue) /\ served' \in Seq(Nat)
        /\ Len(served') = Len(declared')
    BY <1>2 DEF will_return, TypeOK, SymbolValue
  <2> QED
    BY <1>2, <2>1, <2>2, <2>3, <2>4 DEF will_return, TypeOK
<1>3. CASE will_return_zero
  <2>1. NewValue \in Nat \ {0}
    BY DEF NewValue, TypeOK
  <2>2. live' \subseteq Nat \ {0}
    BY <1>3, <2>1 DEF will_return_zero, TypeOK
  <2> QED
    BY <1>3, <2>2 DEF will_return_zero, exit_test, TypeOK, NoEmptySymbol
<1>4. ASSUME NEW f \in Functions, NEW n \in MaybeName, mock(f, n)
      PROVE  TypeInv'
  <2> DEFINE got == get_symbol_value(results, f)
  <2>1. f \in DOMAIN results
    BY <1>4 DEF mock
  <2>2. served' \in Seq(Nat) /\ Len(served') = Len(served)
    <3>1. served \in Seq(Nat)
      BY DEF TypeOK
    <3>2. served' = [served EXCEPT ![got.value] = @ + 1]
      BY <1>4 DEF mock
    <3> HIDE DEF got
    <3> QED
      BY <3>1, <3>2, CountUpType
  <2>3. live' \subseteq live
    BY <1>4 DEF mock, FreedByMock
  <2>4. results' = got.map /\ lastLocation' = got.value
    BY <1>4 DEF mock
  <2>5. UNCHANGED <<declared, phase, rc, report>>
    BY <1>4 DEF mock
  <2> QED
    BY <2>1, <2>2, <2>3, <2>4, <2>5, FoundType DEF TypeOK, NoEmptySymbol
<1>5. ASSUME NEW f \in Functions, NEW n \in MaybeName, mock_mismatch(f, n)
      PROVE  TypeInv'
  <2> DEFINE got == get_symbol_value(results, f)
  <2>1. f \in DOMAIN results
    BY <1>5 DEF mock_mismatch
  <2>2. report' \in Report
    BY <1>5, <2>1, FoundType DEF mock_mismatch, Report, TypeOK
  <2>3. results' = got.map /\ live' \subseteq live
    BY <1>5 DEF mock_mismatch
  <2>4. UNCHANGED <<lastLocation, declared, served>> /\ exit_test
    BY <1>5 DEF mock_mismatch
  <2> QED
    BY <2>1, <2>2, <2>3, <2>4, FoundType DEF TypeOK, NoEmptySymbol, exit_test
<1>6. ASSUME NEW f \in Functions, mock_missing(f)
      PROVE  TypeInv'
  BY <1>6 DEF mock_missing, exit_test, TypeOK, NoEmptySymbol, Report
<1>7. CASE fail
  BY <1>7 DEF fail, exit_test, TypeOK, NoEmptySymbol
<1>8. CASE fail_if_leftover_values
  <2> DEFINE cleaned == remove_always_return_values(results)
  <2>1. IsMap(cleaned, Functions, Seq(Node)) /\ \A f \in DOMAIN cleaned : cleaned[f] # <<>>
    BY RemoveAlwaysType DEF TypeOK
  <2>2. results' = cleaned /\ live' \subseteq live /\ phase' = "unwound"
        /\ UNCHANGED <<lastLocation, declared, served>>
    BY <1>8 DEF fail_if_leftover_values, has_leftover_values
  <2>3. \A f \in DOMAIN cleaned : f \in Functions /\ Head(cleaned[f]).value \in Nat
    <3>1. \A f \in DOMAIN cleaned : f \in Functions /\ cleaned[f] \in Seq(Node)
      BY <2>1 DEF IsMap
    <3>2. \A f \in DOMAIN cleaned : Head(cleaned[f]) \in Node
      BY <2>1, <3>1
    <3> QED
      BY <3>1, <3>2 DEF Node, NodeOf
  <2>4. rc' \in {0, -1} /\ report' \in Report
    BY <1>8, <2>3
    DEF fail_if_leftover_values, has_leftover_values, TypeOK, Report
  <2> QED
    BY <2>1, <2>2, <2>4 DEF TypeOK, NoEmptySymbol
<1>9. CASE teardown_testing
  <2>1. live' \subseteq live
    BY <1>9 DEF teardown_testing
  <2> QED
    BY <1>9, <2>1, EmptyMapType DEF teardown_testing, TypeOK, NoEmptySymbol, EmptyMap
<1>10. CASE UNCHANGED vars
  BY <1>10 DEF vars, TypeOK, NoEmptySymbol
<1> QED
  BY <1>1, <1>2, <1>3, <1>4, <1>5, <1>6, <1>7, <1>8, <1>9, <1>10 DEF Next

\* The variables keep their types: no refcount of 0 is ever left in a list.
THEOREM TypeCorrect == Spec => []TypeOK
<1>1. TypeInv => TypeOK
  BY DEF TypeInv
<1> QED
  BY <1>1, TypeInvInit, TypeInvNext, PTL DEF Spec

\* The assertion in get_symbol_value that a symbol it finds has a value holds.
THEOREM NoSymbolIsEmpty == Spec => []NoEmptySymbol
<1>1. TypeInv => NoEmptySymbol
  BY DEF TypeInv
<1> QED
  BY <1>1, TypeInvInit, TypeInvNext, PTL DEF Spec

-----------------------------------------------------------------------------
(* The queues and their history.                                           *)

\* The parts of QueuesMatchHistory: the nodes, and the values.
NodesInPlace ==
    \A f \in DOMAIN results : \A i \in 1 .. Len(results[f]) : NodeInPlace(f, i)

NoneLost == \A v \in Values : Exhausted(v) \/ IsQueued(v)

\* No counted value is returned more often than its count says.
ServedWithinCount ==
    \A v \in Values : declared[v].count > 0 => served[v] <= declared[v].count

\* The inductive invariant.  MissingMeansExhausted and PassedMeansServed speak
\* of the end of a test, and rest on the state of the queues in its body.
HistoryInv ==
    /\ phase = "body" => (report.kind = "none" /\ NodesInPlace /\ NoneLost)
    /\ ServedWithinCount
    /\ ServedInOrder
    /\ MissingMeansExhausted
    /\ PassedMeansServed

-----------------------------------------------------------------------------
(* Facts about the state in the body of a test.                            *)

\* The declared values, as the type invariant gives them.
LEMMA ValueType ==
    ASSUME TypeInv
    PROVE  /\ Len(declared) \in Nat /\ Values = 1 .. Len(declared)
           /\ \A v \in Values : /\ v \in Nat \ {0}
                                /\ served[v] \in Nat
                                /\ declared[v] \in SymbolValue
                                /\ declared[v].count \in Int
<1>1. declared \in Seq(SymbolValue) /\ served \in Seq(Nat) /\ Len(served) = Len(declared)
  BY DEF TypeInv, TypeOK
<1>2. Len(declared) \in Nat /\ Values = 1 .. Len(declared)
  BY <1>1 DEF Values
<1>3. \A v \in Values : served[v] \in Nat /\ declared[v] \in SymbolValue
  BY <1>1, <1>2
<1>4. \A v \in Values : declared[v].count \in Int
  BY <1>3, CountsAssumption DEF SymbolValue
<1> QED
  BY <1>2, <1>3, <1>4

\* A queued value is in the list of the function it was declared for.
LEMMA QueuedAtOwn ==
    ASSUME TypeInv, NodesInPlace, NEW v \in Values, IsQueued(v)
    PROVE  /\ declared[v].function \in DOMAIN results
           /\ \E i \in 1 .. Len(results[declared[v].function]) :
                 results[declared[v].function][i].value = v
<1>1. PICK f \in DOMAIN results :
         \E i \in DOMAIN results[f] : results[f][i].value = v
  BY DEF IsQueued
<1>2. PICK i \in DOMAIN results[f] : results[f][i].value = v
  BY <1>1
<1>3. DOMAIN results[f] = 1 .. Len(results[f])
  BY FoundType
<1>4. declared[v].function = f
  BY <1>2, <1>3 DEF NodesInPlace, NodeInPlace
<1> QED
  BY <1>2, <1>3, <1>4

\* The value that mock() takes: it still owes a return, and every earlier
\* value of the function is exhausted.
LEMMA HeadFacts ==
    ASSUME TypeInv, NodesInPlace, NoneLost, NEW f \in DOMAIN results
    PROVE  LET v == results[f][1].value IN
           /\ v \in Values
           /\ declared[v].function = f
           /\ results[f][1].refcount = Owed(v)
           /\ results[f][1].refcount \in Int \ {0}
           /\ \A u \in Values :
                 (u < v /\ declared[u].function = f) => Exhausted(u)
<1> DEFINE v == results[f][1].value
<1>1. results[f] \in Seq(Node) /\ results[f] # <<>> /\ results[f][1] \in Node
  BY FoundType
<1>2. 1 \in 1 .. Len(results[f])
  BY <1>1
<1>3. v \in Values /\ declared[v].function = f /\ results[f][1].refcount = Owed(v)
  BY <1>2 DEF NodesInPlace, NodeInPlace
<1>4. results[f][1].refcount \in Int \ {0}
  BY <1>1 DEF Node, NodeOf
<1>5. ASSUME NEW u \in Values, u < v, declared[u].function = f, ~ Exhausted(u)
      PROVE  FALSE
  <2>1. IsQueued(u)
    BY <1>5 DEF NoneLost
  <2>2. PICK i \in 1 .. Len(results[f]) : results[f][i].value = u
    BY <1>5, <2>1, QueuedAtOwn
  <2>3. i # 1
    BY <1>3, <1>5, <2>2, ValueType
  <2>4. i > 1 /\ 1 \in 1 .. i - 1
    BY <2>3
  <2>5. v < u
    BY <2>2, <2>4 DEF NodesInPlace, NodeInPlace
  <2> QED
    BY <1>3, <1>5, <2>5, ValueType
<1> QED
  BY <1>3, <1>4, <1>5

\* What get_symbol_value leaves of the list of f, and of the other lists.
LEMMA GetEffect ==
    ASSUME TypeInv, NEW f \in DOMAIN results,
           NEW m, m = get_symbol_value(results, f).map
    PROVE  /\ DOMAIN m \subseteq DOMAIN results
           /\ \A g \in DOMAIN results \ {f} : g \in DOMAIN m /\ m[g] = results[g]
           /\ results[f][1].refcount = 1 =>
                /\ f \in DOMAIN m => Len(m[f]) = Len(results[f]) - 1
                /\ \A i \in 2 .. Len(results[f]) :
                      f \in DOMAIN m /\ m[f][i - 1] = results[f][i]
           /\ results[f][1].refcount # 1 =>
                /\ f \in DOMAIN m
                /\ Len(m[f]) = Len(results[f])
                /\ m[f][1].value = results[f][1].value
                /\ m[f][1].refcount =
                      IF results[f][1].refcount > -2
                      THEN results[f][1].refcount - 1 ELSE results[f][1].refcount
                /\ \A i \in 2 .. Len(results[f]) : m[f][i] = results[f][i]
<1> DEFINE rest == TakeFirst(results[f])
<1>1. results[f] \in Seq(Node) /\ results[f] # <<>> /\ results[f][1] \in Node
      /\ m = PutOrDrop(results, f, rest, <<>>)
  BY FoundType
<1>2. m = IF rest = <<>> THEN [t \in DOMAIN results \ {f} |-> results[t]]
          ELSE [t \in DOMAIN results \cup {f} |-> IF t = f THEN rest ELSE results[t]]
  BY <1>1 DEF PutOrDrop, Put, Drop
<1>3. DOMAIN m \subseteq DOMAIN results
      /\ \A g \in DOMAIN results \ {f} : g \in DOMAIN m /\ m[g] = results[g]
  BY <1>2
<1>4. (f \in DOMAIN m <=> rest # <<>>) /\ (f \in DOMAIN m => m[f] = rest)
  BY <1>2
<1>5. CASE results[f][1].refcount = 1
  <2>1. rest = Tail(results[f])
    BY <1>1, <1>5, TakeFirstNodes
  <2>2. Len(rest) = Len(results[f]) - 1
        /\ \A i \in 2 .. Len(results[f]) : rest[i - 1] = results[f][i]
    BY <1>1, <2>1
  <2>3. \A i \in 2 .. Len(results[f]) : rest # <<>>
    BY <1>1, <2>2
  <2> QED
    BY <1>3, <1>4, <1>5, <2>2, <2>3
<1>6. CASE results[f][1].refcount # 1
  <2>1. Len(rest) = Len(results[f]) /\ rest[1].value = results[f][1].value
        /\ rest[1].refcount =
              (IF results[f][1].refcount > -2
               THEN results[f][1].refcount - 1 ELSE results[f][1].refcount)
        /\ \A i \in 2 .. Len(results[f]) : rest[i] = results[f][i]
    BY <1>1, <1>6, TakeFirstNodes
  <2>2. rest # <<>>
    BY <1>1, <2>1
  <2> QED
    BY <1>3, <1>4, <1>6, <2>1, <2>2
<1> QED
  BY <1>5, <1>6

-----------------------------------------------------------------------------
(* Each action that a test body takes keeps the queues and the history.     *)

\* What will_return does to the history.
LEMMA WillReturnHistory ==
    ASSUME TypeInv, NEW f, NEW n, NEW c, will_return(f, n, c)
    PROVE  /\ Values' = Values \cup {NewValue}
           /\ NewValue \notin Values /\ \A v \in Values : v < NewValue
           /\ \A v \in Values : declared'[v] = declared[v] /\ served'[v] = served[v]
           /\ declared'[NewValue].function = f
           /\ declared'[NewValue].count = c
           /\ served'[NewValue] = 0
<1>1. declared \in Seq(SymbolValue) /\ served \in Seq(Nat) /\ Len(served) = Len(declared)
  BY DEF TypeInv, TypeOK
<1>2. declared' = Append(declared, [function |-> f, name |-> n, count |-> c])
      /\ served' = Append(served, 0)
  BY DEF will_return
<1>3. Values = 1 .. Len(declared) /\ Len(declared) \in Nat
  BY <1>1 DEF Values
<1>4. Values' = 1 .. Len(declared) + 1
  BY <1>1, <1>2 DEF Values
<1> QED
  BY <1>1, <1>2, <1>3, <1>4 DEF NewValue

\* A new value is queued behind the others, and owes its whole count.
LEMMA WillReturnQueues ==
    ASSUME TypeInv, NodesInPlace, NoneLost,
           NEW f \in Functions, NEW n, NEW c \in Counts, will_return(f, n, c)
    PROVE  NodesInPlace' /\ NoneLost'
<1>0. PICK k \in Nat \ {0} : k = NewValue
  BY ValueType DEF NewValue
<1>1. c \in Int \ {0}
  BY CountsAssumption DEF will_return
<1>2. results' = add_symbol_value(results, f, k, c)
  BY <1>0 DEF will_return
<1> DEFINE old == ListAt(results, f)
           new == [value |-> k, refcount |-> c]
<1>a. old \in Seq(Node) /\ new \in Node
  BY <1>1 DEF TypeInv, TypeOK, IsMap, ListAt, Node, NodeOf
<1>b. results' = [t \in DOMAIN results \cup {f} |->
                     IF t = f THEN Append(old, new) ELSE results[t]]
  BY <1>2 DEF add_symbol_value, Put, list_add_value
<1>3. DOMAIN results' = DOMAIN results \cup {f} /\ results'[f] = Append(old, new)
      /\ \A g \in DOMAIN results \ {f} : results'[g] = results[g]
  BY <1>b
<1>4. PICK l \in Nat :
         /\ Len(results'[f]) = l + 1
         /\ results'[f][l + 1] = [value |-> k, refcount |-> c]
         /\ \A i \in 1 .. l : f \in DOMAIN results /\ results'[f][i] = results[f][i]
         /\ f \in DOMAIN results => l = Len(results[f])
  <2>1. Len(old) \in Nat /\ Len(results'[f]) = Len(old) + 1
        /\ results'[f][Len(old) + 1] = new
        /\ \A i \in 1 .. Len(old) : results'[f][i] = old[i]
    BY <1>a, <1>3
  <2>2. (f \in DOMAIN results => old = results[f])
        /\ \A i \in 1 .. Len(old) : f \in DOMAIN results
    BY <1>a DEF ListAt
  <2> QED
    BY <2>1, <2>2
<1>5. /\ Values' = Values \cup {k}
      /\ k \notin Values /\ \A v \in Values : v < k
      /\ \A v \in Values : declared'[v] = declared[v] /\ served'[v] = served[v]
      /\ declared'[k].function = f /\ declared'[k].count = c /\ served'[k] = 0
  BY <1>0, WillReturnHistory
<1>6. \A v \in Values : (Owed(v)' = Owed(v)) /\ (Exhausted(v)' <=> Exhausted(v))
  BY <1>5 DEF Owed, Exhausted
<1>7. ASSUME NEW g \in DOMAIN results, NEW i \in 1 .. Len(results[g])
      PROVE  /\ i \in 1 .. Len(results'[g])
             /\ \A j \in 1 .. i : results'[g][j] = results[g][j]
             /\ NodeInPlace(g, i)'
  <2>1. Len(results[g]) \in Nat
    BY FoundType
  <2>2. i \in 1 .. Len(results'[g]) /\ \A j \in 1 .. i : results'[g][j] = results[g][j]
    BY <1>3, <1>4, <1>7, <2>1
  <2>3. NodeInPlace(g, i)
    BY <1>7 DEF NodesInPlace
  <2>4. results'[g][i] = results[g][i] /\ i \in Int
        /\ \A j \in 1 .. i - 1 : results'[g][j] = results[g][j]
    BY <1>7, <2>1, <2>2
  <2> QED
    BY <2>2, <2>3, <2>4, <1>5, <1>6 DEF NodeInPlace
<1>8. NodeInPlace(f, l + 1)'
  <2>1. Owed(k)' = c
    BY <1>1, <1>5 DEF Owed
  <2>2. \A j \in 1 .. l : results'[f][j].value < k
    BY <1>4, <1>5 DEF NodesInPlace, NodeInPlace
  <2> QED
    BY <1>4, <1>5, <2>1, <2>2 DEF NodeInPlace
<1>9. NodesInPlace'
  <2> SUFFICES ASSUME NEW g \in DOMAIN results', NEW i \in 1 .. Len(results'[g])
               PROVE  NodeInPlace(g, i)'
    BY DEF NodesInPlace
  <2>1. CASE g = f /\ i = l + 1
    BY <1>8, <2>1
  <2>2. CASE ~ (g = f /\ i = l + 1)
    <3>1. g \in DOMAIN results /\ i \in 1 .. Len(results[g])
      BY <1>3, <1>4, <2>2
    <3> QED
      BY <1>7, <3>1
  <2> QED
    BY <2>1, <2>2
<1>10. NoneLost'
  <2> SUFFICES ASSUME NEW v \in Values' PROVE Exhausted(v)' \/ IsQueued(v)'
    BY DEF NoneLost
  <2>0. DOMAIN results'[f] = 1 .. l + 1
    <3>1. IsMap(results', Functions, Seq(Node))
      BY <1>1, <1>2, AddType DEF TypeInv, TypeOK
    <3> QED
      BY <1>3, <1>4, <3>1 DEF IsMap
  <2>1. CASE v = k
    BY <1>3, <1>4, <2>0, <2>1 DEF IsQueued
  <2>2. CASE v \in Values /\ ~ Exhausted(v)
    <3> DEFINE g == declared[v].function
    <3>1. IsQueued(v)
      BY <2>2 DEF NoneLost
    <3>2. g \in DOMAIN results
      BY <2>2, <3>1, QueuedAtOwn
    <3>3. PICK i \in 1 .. Len(results[g]) : results[g][i].value = v
      BY <2>2, <3>1, QueuedAtOwn
    <3>4. results'[g][i].value = v /\ i \in DOMAIN results'[g]
      <4>1. DOMAIN results[g] = 1 .. Len(results[g]) /\ Len(results[g]) \in Nat
        BY <3>2, FoundType
      <4>2. CASE g = f
        BY <1>4, <2>0, <3>2, <3>3, <4>2
      <4>3. CASE g # f
        BY <1>3, <3>2, <3>3, <4>1, <4>3
      <4> QED
        BY <4>2, <4>3
    <3> QED
      BY <1>3, <3>2, <3>4 DEF IsQueued
  <2> QED
    BY <1>5, <1>6, <2>1, <2>2
<1> QED
  BY <1>9, <1>10

\* What mock does to the history, in terms of the value it returns.
LEMMA MockHistory ==
    ASSUME TypeInv, NodesInPlace, NoneLost, ServedWithinCount,
           NEW f, NEW n, mock(f, n)
    PROVE  /\ f \in DOMAIN results
           /\ results' = get_symbol_value(results, f).map
           /\ declared' = declared
           /\ Values' = Values
           /\ \E v \in Values :
                /\ v = results[f][1].value
                /\ v = get_symbol_value(results, f).value
                /\ served'[v] = served[v] + 1
                /\ \A u \in Values \ {v} : served'[u] = served[u]
                /\ results[f][1].refcount = Owed(v)
                /\ ~ Exhausted(v)
<1>1. f \in DOMAIN results /\ results' = get_symbol_value(results, f).map
      /\ declared' = declared
      /\ served' = [served EXCEPT ![get_symbol_value(results, f).value] = @ + 1]
  BY DEF mock
<1>2. PICK v \in Values :
         v = results[f][1].value /\ v = get_symbol_value(results, f).value
  BY <1>1, HeadFacts, FoundType
<1>3. served \in Seq(Nat) /\ Len(served) = Len(declared) /\ Values = 1 .. Len(declared)
  BY ValueType DEF TypeInv, TypeOK
<1>4. served' = [served EXCEPT ![v] = @ + 1]
  BY <1>1, <1>2
<1>5. served'[v] = served[v] + 1 /\ \A u \in Values \ {v} : served'[u] = served[u]
  BY <1>3, <1>4
<1>6. results[f][1].refcount = Owed(v) /\ Owed(v) # 0
  <2>1. results[f][1].refcount = Owed(results[f][1].value)
        /\ results[f][1].refcount # 0
    BY <1>1, HeadFacts
  <2> QED
    BY <1>2, <2>1
<1>7. ~ Exhausted(v)
  BY <1>6, ValueType DEF Exhausted, Owed
<1>8. Values' = Values
  BY <1>1 DEF Values
<1> QED
  BY <1>1, <1>2, <1>5, <1>6, <1>7, <1>8

\* Returning a value counts down what it owes; the last return exhausts it and
\* removes its node, and the nodes behind it move up.
LEMMA MockQueues ==
    ASSUME TypeInv, TypeInv', NodesInPlace, NoneLost, ServedWithinCount,
           NEW f, NEW n, mock(f, n)
    PROVE  NodesInPlace' /\ NoneLost' /\ ServedWithinCount'
<1>1. f \in DOMAIN results /\ declared' = declared /\ Values' = Values
  BY MockHistory
<1>2. PICK v \in Values :
         /\ v = results[f][1].value
         /\ served'[v] = served[v] + 1
         /\ \A u \in Values \ {v} : served'[u] = served[u]
         /\ results[f][1].refcount = Owed(v)
         /\ ~ Exhausted(v)
  BY MockHistory
<1>3. served[v] \in Nat /\ declared[v].count \in Int /\ declared[v].function = f
  BY <1>1, <1>2, ValueType, HeadFacts
<1>4. \A u \in Values \ {v} : (Owed(u)' = Owed(u)) /\ (Exhausted(u)' <=> Exhausted(u))
  BY <1>1, <1>2 DEF Owed, Exhausted
<1>5. DOMAIN results' \subseteq DOMAIN results
      /\ \A g \in DOMAIN results \ {f} : g \in DOMAIN results' /\ results'[g] = results[g]
  BY <1>1, MockHistory, GetEffect
<1>6. ServedWithinCount'
  <2>1. declared[v].count > 0 => served[v] + 1 <= declared[v].count
    BY <1>2, <1>3 DEF Exhausted, ServedWithinCount
  <2> QED
    BY <1>1, <1>2, <2>1 DEF ServedWithinCount
<1>7. \A g \in DOMAIN results : \A i \in 1 .. Len(results[g]) :
         results[g][i].value = v => g = f /\ i = 1
  <2> SUFFICES ASSUME NEW g \in DOMAIN results, NEW i \in 1 .. Len(results[g]),
                      results[g][i].value = v
               PROVE  g = f /\ i = 1
    OBVIOUS
  <2>1. NodeInPlace(g, i)
    BY DEF NodesInPlace
  <2>2. g = f
    BY <1>3, <2>1 DEF NodeInPlace
  <2>3. i # 1 => 1 \in 1 .. i - 1
    OBVIOUS
  <2>4. i # 1 => v < v
    BY <1>2, <2>1, <2>2, <2>3 DEF NodeInPlace
  <2>5. v \in Nat
    BY ValueType
  <2> QED
    BY <2>2, <2>4, <2>5
<1>8. ASSUME NEW g \in DOMAIN results \ {f}, NEW i \in 1 .. Len(results[g])
      PROVE  NodeInPlace(g, i)'
  <2>1. NodeInPlace(g, i)
    BY <1>8 DEF NodesInPlace
  <2>2. results[g][i].value \in Values \ {v}
    BY <1>7, <1>8, <2>1 DEF NodeInPlace
  <2> QED
    BY <1>1, <1>2, <1>4, <1>5, <1>8, <2>1, <2>2 DEF NodeInPlace
<1>9. CASE results[f][1].refcount = 1
  <2>1. /\ f \in DOMAIN results' => Len(results'[f]) = Len(results[f]) - 1
        /\ \A i \in 2 .. Len(results[f]) :
              f \in DOMAIN results' /\ results'[f][i - 1] = results[f][i]
    BY <1>1, <1>9, MockHistory, GetEffect
  <2>2. Exhausted(v)'
    BY <1>1, <1>2, <1>3, <1>9 DEF Owed, Exhausted, WILL_RETURN_ONCE
  <2>3. ASSUME f \in DOMAIN results', NEW i \in 1 .. Len(results'[f])
        PROVE  NodeInPlace(f, i)'
    <3>1. Len(results[f]) \in Nat
      BY <1>1, FoundType
    <3>2. i + 1 \in 2 .. Len(results[f]) /\ i + 1 \in 1 .. Len(results[f]) /\ i \in Nat
      BY <2>1, <2>3, <3>1
    <3>3. NodeInPlace(f, i + 1) /\ results'[f][i] = results[f][i + 1]
      BY <1>1, <2>1, <3>2 DEF NodesInPlace
    <3>4. results[f][i + 1].value \in Values \ {v}
      BY <1>1, <1>7, <3>2, <3>3 DEF NodeInPlace
    <3>5. \A j \in 1 .. i - 1 : results'[f][j].value < results'[f][i].value
      <4> SUFFICES ASSUME NEW j \in 1 .. i - 1
                   PROVE  results'[f][j].value < results'[f][i].value
        OBVIOUS
      <4>1. j + 1 \in 2 .. Len(results[f]) /\ j + 1 \in 1 .. (i + 1) - 1
        BY <3>1, <3>2
      <4>2. results'[f][j] = results[f][j + 1]
        BY <2>1, <4>1
      <4> QED
        BY <3>3, <4>1, <4>2 DEF NodeInPlace
    <3>6. served[results[f][i + 1].value] = 0
      BY <3>2, <3>3 DEF NodeInPlace
    <3>7. declared[results[f][i + 1].value].function = f
          /\ results[f][i + 1].refcount = Owed(results[f][i + 1].value)
      BY <3>3 DEF NodeInPlace
    <3> QED
      BY <1>1, <1>2, <1>4, <3>3, <3>4, <3>5, <3>6, <3>7 DEF NodeInPlace
  <2>4. NodesInPlace'
    BY <1>5, <1>8, <2>3 DEF NodesInPlace
  <2>5. ASSUME NEW u \in Values, ~ Exhausted(u)' PROVE IsQueued(u)'
    <3> DEFINE g == declared[u].function
    <3>1. u # v /\ IsQueued(u)
      BY <1>4, <2>2, <2>5 DEF NoneLost
    <3>2. g \in DOMAIN results
      BY <3>1, QueuedAtOwn
    <3>3. PICK i \in 1 .. Len(results[g]) : results[g][i].value = u
      BY <3>1, QueuedAtOwn
    <3>4. Len(results[g]) \in Nat
      BY <3>2, FoundType
    <3>5. CASE g # f
      <4>1. g \in DOMAIN results' /\ results'[g] = results[g]
        BY <1>5, <3>2, <3>5
      <4>2. i \in DOMAIN results'[g]
        BY <3>2, <4>1, FoundType
      <4> QED
        BY <3>3, <4>1, <4>2 DEF IsQueued
    <3>6. CASE g = f
      <4>1. i # 1
        BY <1>2, <3>1, <3>3, <3>6
      <4>2. i \in 2 .. Len(results[f])
        BY <3>3, <3>4, <3>6, <4>1
      <4>3. f \in DOMAIN results' /\ results'[f][i - 1].value = u
            /\ Len(results'[f]) = Len(results[f]) - 1
        BY <2>1, <3>3, <3>6, <4>2
      <4>4. results'[f] \in Seq(Node)
        BY <4>3 DEF TypeInv, TypeOK, IsMap
      <4>5. i - 1 \in DOMAIN results'[f]
        BY <3>4, <3>6, <4>2, <4>3, <4>4
      <4> QED
        BY <4>3, <4>5 DEF IsQueued
    <3> QED
      BY <3>5, <3>6
  <2>6. NoneLost'
    BY <1>1, <2>5 DEF NoneLost
  <2> QED
    BY <1>6, <2>4, <2>6
<1>10. CASE results[f][1].refcount # 1
  <2>1. /\ f \in DOMAIN results'
        /\ Len(results'[f]) = Len(results[f])
        /\ results'[f][1].value = v
        /\ results'[f][1].refcount =
              IF results[f][1].refcount > -2
              THEN results[f][1].refcount - 1 ELSE results[f][1].refcount
        /\ \A i \in 2 .. Len(results[f]) : results'[f][i] = results[f][i]
    BY <1>1, <1>2, <1>10, MockHistory, GetEffect
  <2>2. results'[f][1].refcount = Owed(v)'
    <3>1. declared[v].count > 0 => Owed(v) > 1
      BY <1>2, <1>3, <1>10 DEF Owed, Exhausted, ServedWithinCount
    <3>2. Owed(v) \in Int \ {0}
      BY <1>1, <1>2, HeadFacts
    <3>3. PICK c \in Int : c = declared[v].count
      BY <1>3
    <3>4. PICK s \in Nat : s = served[v]
      BY <1>3
    <3>5. Owed(v) = IF c > 0 THEN c - s ELSE IF c = -1 /\ s > 0 THEN -2 ELSE c
      BY <3>3, <3>4 DEF Owed, WILL_RETURN_ONCE
    <3>6. Owed(v)' = IF c > 0 THEN c - (s + 1) ELSE IF c = -1 /\ s + 1 > 0 THEN -2 ELSE c
      BY <1>1, <1>2, <3>3, <3>4 DEF Owed, WILL_RETURN_ONCE
    <3>7. results'[f][1].refcount = IF Owed(v) > -2 THEN Owed(v) - 1 ELSE Owed(v)
      BY <1>2, <2>1
    <3> QED
      BY <3>1, <3>2, <3>3, <3>4, <3>5, <3>6, <3>7
  <2>3. ASSUME NEW i \in 1 .. Len(results[f]) PROVE NodeInPlace(f, i)'
    <3>1. NodeInPlace(f, i)
      BY <1>1 DEF NodesInPlace
    <3>2. CASE i = 1
      BY <1>1, <1>3, <2>1, <2>2, <3>2 DEF NodeInPlace
    <3>3. CASE i # 1
      <4>1. i \in 2 .. Len(results[f]) /\ results'[f][i] = results[f][i]
        BY <2>1, <3>3, <1>1, FoundType
      <4>2. results[f][i].value \in Values \ {v}
        BY <1>1, <1>7, <3>1, <3>3 DEF NodeInPlace
      <4>3. \A j \in 1 .. i - 1 : results'[f][j].value = results[f][j].value
        BY <1>2, <2>1, <4>1
      <4>4. served[results[f][i].value] = 0
            /\ declared[results[f][i].value].function = f
            /\ results[f][i].refcount = Owed(results[f][i].value)
            /\ \A j \in 1 .. i - 1 : results[f][j].value < results[f][i].value
        BY <3>1, <4>1 DEF NodeInPlace
      <4> QED
        BY <1>1, <1>2, <1>4, <4>1, <4>2, <4>3, <4>4 DEF NodeInPlace
    <3> QED
      BY <3>2, <3>3
  <2>4. NodesInPlace'
    BY <1>5, <1>8, <2>1, <2>3 DEF NodesInPlace
  <2>5. ASSUME NEW u \in Values, IsQueued(u) PROVE IsQueued(u)'
    <3>1. PICK g \in DOMAIN results :
             \E i \in DOMAIN results[g] : results[g][i].value = u
      BY <2>5 DEF IsQueued
    <3>2. PICK i \in DOMAIN results[g] : results[g][i].value = u
      BY <3>1
    <3>3. g \in DOMAIN results' /\ results[g] \in Seq(Node) /\ results'[g] \in Seq(Node)
      BY <1>5, <2>1, FoundType DEF TypeInv, TypeOK, IsMap
    <3>4. Len(results'[g]) = Len(results[g]) /\ results'[g][i].value = u
      BY <1>2, <1>5, <2>1, <3>2, <3>3
    <3>5. i \in DOMAIN results'[g]
      BY <3>2, <3>3, <3>4
    <3> QED
      BY <3>3, <3>4, <3>5 DEF IsQueued
  <2>6. ~ Exhausted(v) /\ IsQueued(v)
    BY <1>2 DEF NoneLost
  <2>7. NoneLost'
    BY <1>1, <1>4, <2>5, <2>6 DEF NoneLost
  <2> QED
    BY <1>6, <2>4, <2>7
<1> QED
  BY <1>9, <1>10

\* mock() returns no value before an earlier one of its function is exhausted.
LEMMA MockOrder ==
    ASSUME TypeInv, NodesInPlace, NoneLost, ServedWithinCount, ServedInOrder,
           NEW f, NEW n, mock(f, n)
    PROVE  ServedInOrder'
<1>1. f \in DOMAIN results /\ declared' = declared /\ Values' = Values
  BY MockHistory
<1>2. PICK v \in Values :
         /\ v = results[f][1].value
         /\ \A u \in Values \ {v} : served'[u] = served[u]
         /\ ~ Exhausted(v)
  BY MockHistory
<1>3. declared[v].function = f
      /\ \A u \in Values : (u < v /\ declared[u].function = f) => Exhausted(u)
  BY <1>1, <1>2, HeadFacts
<1>4. \A u \in Values \ {v} : Exhausted(u)' <=> Exhausted(u)
  BY <1>1, <1>2 DEF Exhausted
<1> SUFFICES ASSUME NEW a \in Values, NEW b \in Values, a < b,
                    declared[a].function = declared[b].function, served'[b] > 0
             PROVE  Exhausted(a)'
  BY <1>1 DEF ServedInOrder
<1>5. CASE b = v
  <2>1. Exhausted(a)
    BY <1>3, <1>5
  <2> QED
    BY <1>2, <1>4, <2>1
<1>6. CASE b # v
  <2>1. Exhausted(a)
    BY <1>2, <1>6 DEF ServedInOrder
  <2> QED
    BY <1>2, <1>4, <2>1
<1> QED
  BY <1>5, <1>6

\* A function that is not in the map has returned all it declared.
LEMMA MissingStep ==
    ASSUME TypeInv, NodesInPlace, NoneLost, NEW f, mock_missing(f)
    PROVE  MissingMeansExhausted'
<1>1. f \notin DOMAIN results /\ report'.function = f
      /\ declared' = declared /\ served' = served
  BY DEF mock_missing
<1>2. \A v \in Values : declared[v].function = f => Exhausted(v)
  BY <1>1, QueuedAtOwn DEF NoneLost
<1>3. Values' = Values /\ \A v \in Values : Exhausted(v)' <=> Exhausted(v)
  BY <1>1 DEF Values, Exhausted
<1> QED
  BY <1>1, <1>2, <1>3 DEF MissingMeansExhausted

\* When the leftover check passes, each list held at most one node, of a value
\* that may be left: every value was returned as its count demands.
LEMMA PassedStep ==
    ASSUME TypeInv, NodesInPlace, NoneLost, ServedWithinCount,
           fail_if_leftover_values
    PROVE  PassedMeansServed'
<1> DEFINE cleaned == remove_always_return_values(results)
<1> SUFFICES ASSUME rc' = 0, NEW v \in Values' PROVE Satisfied(v)'
  BY DEF PassedMeansServed
<1>1. declared' = declared /\ served' = served
  BY DEF fail_if_leftover_values, has_leftover_values
<1>2. v \in Values /\ (Satisfied(v)' <=> Satisfied(v))
  BY <1>1 DEF Values, Satisfied
<1>3. ~ check_for_leftover_values(cleaned)
  BY DEF fail_if_leftover_values, has_leftover_values
<1>4. \A f \in DOMAIN results : DropServedFirst(results[f]) = <<>>
  BY <1>3 DEF check_for_leftover_values, remove_always_return_values
<1>5. CASE Exhausted(v)
  BY <1>2, <1>5, ValueType DEF Exhausted, Satisfied
<1>6. CASE IsQueued(v)
  <2> DEFINE f == declared[v].function
  <2>1. f \in DOMAIN results
    BY <1>2, <1>6, QueuedAtOwn
  <2>2. PICK i \in 1 .. Len(results[f]) : results[f][i].value = v
    BY <1>2, <1>6, QueuedAtOwn
  <2>3. results[f] \in Seq(Node) /\ results[f] # <<>>
    BY <2>1, FoundType
  <2>4. Head(results[f]).refcount < -1 /\ Tail(results[f]) = <<>>
    BY <1>4, <2>1, <2>3 DEF DropServedFirst
  <2>5. Len(results[f]) = 1 /\ Head(results[f]) = results[f][1]
    <3>0. Len(<<>>) = 0
      OBVIOUS
    <3>1. Len(Tail(results[f])) = 0
      BY <2>4, <3>0, Zenon
    <3>2. Len(results[f]) \in Nat /\ Len(Tail(results[f])) = Len(results[f]) - 1
          /\ Head(results[f]) = results[f][1]
      BY <2>3
    <3> QED
      BY <3>1, <3>2
  <2>6. i = 1
    BY <2>2, <2>5
  <2>7. NodeInPlace(f, 1)
    BY <2>1, <2>5 DEF NodesInPlace
  <2>8. results[f][1].refcount = Owed(v)
    BY <2>2, <2>6, <2>7 DEF NodeInPlace
  <2>9. Owed(v) < -1
    BY <2>4, <2>5, <2>8
  <2>10. served[v] \in Nat /\ declared[v].count \in Int
         /\ (declared[v].count > 0 => served[v] <= declared[v].count)
    BY <1>2, ValueType DEF ServedWithinCount
  <2>11. Satisfied(v)
    BY <2>9, <2>10 DEF Owed, Satisfied
  <2> QED
    BY <1>2, <2>11
<1> QED
  BY <1>2, <1>5, <1>6 DEF NoneLost

-----------------------------------------------------------------------------
(* The invariant is inductive.                                             *)

\* The inductive invariant holds when the runner starts.
LEMMA HistoryInit == Init => HistoryInv
  BY DEF Init, HistoryInv, ServedWithinCount, ServedInOrder,
         MissingMeansExhausted, PassedMeansServed, Values, NoReport

\* Steps that leave the history alone keep what is said of the history only.
LEMMA SameHistory ==
    ASSUME declared' = declared, served' = served
    PROVE  /\ Values' = Values
           /\ \A v \in Values : Exhausted(v)' <=> Exhausted(v)
           /\ \A v \in Values : Satisfied(v)' <=> Satisfied(v)
           /\ ServedWithinCount => ServedWithinCount'
           /\ ServedInOrder => ServedInOrder'
<1>1. Values' = Values
  BY DEF Values
<1>2. \A v \in Values : Exhausted(v)' <=> Exhausted(v)
  BY DEF Exhausted
<1>3. \A v \in Values : Satisfied(v)' <=> Satisfied(v)
  BY DEF Satisfied
<1> QED
  BY <1>1, <1>2, <1>3 DEF ServedWithinCount, ServedInOrder

\* Every step keeps the inductive invariant.
LEMMA HistoryNext == TypeInv /\ TypeInv' /\ HistoryInv /\ [Next]_vars => HistoryInv'
<1> SUFFICES ASSUME TypeInv, TypeInv', HistoryInv, [Next]_vars PROVE HistoryInv'
  OBVIOUS
<1>1. CASE initialize_testing
  <2>1. /\ phase' = "body" /\ report'.kind = "none"
        /\ declared' = <<>> /\ DOMAIN results' = {} /\ Values' = {}
    BY <1>1 DEF initialize_testing, NoReport, EmptyMap, Values
  <2> QED
    BY <2>1 DEF HistoryInv, NodesInPlace, NoneLost, ServedWithinCount,
                ServedInOrder, MissingMeansExhausted, PassedMeansServed
<1>2. ASSUME NEW f \in Functions, NEW n, NEW c \in Counts, will_return(f, n, c)
      PROVE  HistoryInv'
  <2>1. phase = "body" /\ phase' = phase /\ report' = report
    BY <1>2 DEF will_return
  <2>2. NodesInPlace' /\ NoneLost'
    BY <1>2, <2>1, WillReturnQueues DEF HistoryInv
  <2>3. PICK k : k = NewValue
    OBVIOUS
  <2>4. /\ Values' = Values \cup {k}
        /\ k \notin Values /\ \A v \in Values : v < k
        /\ \A v \in Values : declared'[v] = declared[v] /\ served'[v] = served[v]
        /\ declared'[k].count = c /\ served'[k] = 0
    BY <1>2, <2>3, WillReturnHistory
  <2>5. \A v \in Values : Exhausted(v)' <=> Exhausted(v)
    BY <2>4 DEF Exhausted
  <2>6. c \in Int /\ k \in Nat /\ \A v \in Values : v \in Nat
    BY <2>3, CountsAssumption, ValueType DEF NewValue
  <2>7. ServedWithinCount'
    BY <2>4, <2>6 DEF HistoryInv, ServedWithinCount
  <2>8. ServedInOrder'
    <3> SUFFICES ASSUME NEW a \in Values', NEW b \in Values', a < b,
                        declared'[a].function = declared'[b].function,
                        served'[b] > 0
                 PROVE  Exhausted(a)'
      BY DEF ServedInOrder
    <3>1. b \in Values /\ a \in Values
      BY <2>4, <2>6
    <3> QED
      BY <2>4, <2>5, <3>1 DEF HistoryInv, ServedInOrder
  <2> QED
    BY <2>1, <2>2, <2>7, <2>8
    DEF HistoryInv, MissingMeansExhausted, PassedMeansServed
<1>3. ASSUME NEW f, NEW n, mock(f, n) PROVE HistoryInv'
  <2>1. phase = "body" /\ phase' = phase /\ report' = report
    BY <1>3 DEF mock
  <2>2. NodesInPlace' /\ NoneLost' /\ ServedWithinCount' /\ ServedInOrder'
    BY <1>3, <2>1, MockQueues, MockOrder DEF HistoryInv
  <2> QED
    BY <2>1, <2>2 DEF HistoryInv, MissingMeansExhausted, PassedMeansServed
<1>4. ASSUME NEW f, mock_missing(f) PROVE HistoryInv'
  <2>1. phase = "body" /\ phase' = "unwound" /\ rc' = -1
        /\ declared' = declared /\ served' = served
    BY <1>4 DEF mock_missing, exit_test
  <2>2. MissingMeansExhausted'
    BY <1>4, <2>1, MissingStep DEF HistoryInv
  <2> QED
    BY <2>1, <2>2, SameHistory DEF HistoryInv, PassedMeansServed
<1>5. ASSUME NEW f, NEW n, mock_mismatch(f, n) PROVE HistoryInv'
  <2>1. phase' = "unwound" /\ rc' = -1 /\ report'.kind = "mismatch"
        /\ declared' = declared /\ served' = served
    BY <1>5 DEF mock_mismatch, exit_test
  <2> QED
    BY <2>1, SameHistory DEF HistoryInv, MissingMeansExhausted, PassedMeansServed
<1>6. CASE will_return_zero \/ fail
  <2>1. phase = "body" /\ phase' = "unwound" /\ rc' = -1 /\ report' = report
        /\ declared' = declared /\ served' = served
    BY <1>6 DEF will_return_zero, fail, exit_test
  <2> QED
    BY <2>1, SameHistory DEF HistoryInv, MissingMeansExhausted, PassedMeansServed
<1>7. CASE fail_if_leftover_values
  <2>1. phase = "body" /\ phase' = "unwound"
        /\ declared' = declared /\ served' = served
    BY <1>7 DEF fail_if_leftover_values, has_leftover_values
  <2>2. report'.kind = "leftover" \/ report' = report
    BY <1>7 DEF fail_if_leftover_values, has_leftover_values
  <2>3. PassedMeansServed'
    BY <1>7, <2>1, PassedStep DEF HistoryInv
  <2> QED
    BY <2>1, <2>2, <2>3, SameHistory DEF HistoryInv, MissingMeansExhausted
<1>8. CASE teardown_testing
  <2>1. phase = "unwound" /\ phase' \in {"idle", "crashed"} /\ rc' = rc
        /\ report' = report /\ declared' = declared /\ served' = served
    BY <1>8 DEF teardown_testing
  <2> QED
    BY <2>1, SameHistory DEF HistoryInv, MissingMeansExhausted, PassedMeansServed
<1>9. CASE UNCHANGED vars
  <2>1. results' = results /\ phase' = phase /\ rc' = rc /\ report' = report
        /\ declared' = declared /\ served' = served
    BY <1>9 DEF vars
  <2>2. Values' = Values /\ (\A v \in Values : Exhausted(v)' <=> Exhausted(v))
        /\ (\A v \in Values : Satisfied(v)' <=> Satisfied(v))
        /\ ServedWithinCount' /\ ServedInOrder'
    BY <2>1, SameHistory DEF HistoryInv
  <2>3. NodesInPlace => NodesInPlace'
    BY <2>1 DEF NodesInPlace, NodeInPlace, Owed, Values
  <2>4. NoneLost => NoneLost'
    BY <2>1, <2>2 DEF NoneLost, IsQueued
  <2> QED
    BY <2>1, <2>2, <2>3, <2>4 DEF HistoryInv, MissingMeansExhausted, PassedMeansServed
<1> QED
  BY <1>1, <1>2, <1>3, <1>4, <1>5, <1>6, <1>7, <1>8, <1>9 DEF Next

\* The type invariant and the inductive invariant hold together.
LEMMA HistoryInvariant == Spec => [](TypeInv /\ HistoryInv)
<1>1. Init => TypeInv /\ HistoryInv
  BY TypeInvInit, HistoryInit
<1>2. (TypeInv /\ HistoryInv) /\ [Next]_vars => (TypeInv /\ HistoryInv)'
  BY TypeInvNext, HistoryNext
<1> QED
  BY <1>1, <1>2, PTL DEF Spec

\* The lists and refcounts agree with what was declared and returned so far,
\* for every sequence of will_return() and mock() calls of a test.
THEOREM QueuesAgree == Spec => []QueuesMatchHistory
<1>1. TypeInv /\ HistoryInv => QueuesMatchHistory
  <2> SUFFICES ASSUME TypeInv, HistoryInv, phase = "body",
                      NEW f \in DOMAIN results, NEW i \in DOMAIN results[f]
               PROVE  NodeInPlace(f, i)
    BY DEF HistoryInv, QueuesMatchHistory, NoneLost
  <2>1. DOMAIN results[f] = 1 .. Len(results[f])
    BY FoundType
  <2> QED
    BY <2>1 DEF HistoryInv, NodesInPlace
<1> QED
  BY <1>1, HistoryInvariant, PTL

\* mock() returns the values of a function first in, first out.
THEOREM FirstInFirstOut == Spec => []ServedInOrder
<1>1. TypeInv /\ HistoryInv => ServedInOrder
  BY DEF HistoryInv
<1> QED
  BY <1>1, HistoryInvariant, PTL

\* "Could not get value to mock function" is never printed for a function that
\* still owes a value.
THEOREM NoValueIsLost == Spec => []MissingMeansExhausted
<1>1. TypeInv /\ HistoryInv => MissingMeansExhausted
  BY DEF HistoryInv
<1> QED
  BY <1>1, HistoryInvariant, PTL

\* A test that passes has returned every value it declared.
THEOREM PassedIsComplete == Spec => []PassedMeansServed
<1>1. TypeInv /\ HistoryInv => PassedMeansServed
  BY DEF HistoryInv
<1> QED
  BY <1>1, HistoryInvariant, PTL

-----------------------------------------------------------------------------
(* The values queued in a map.                                             *)

\* A value is queued in a map if it is in one of its lists.
LEMMA QueuedIn ==
    ASSUME NEW m, NEW v
    PROVE  v \in Queued(m) <=>
              \E f \in DOMAIN m : \E i \in DOMAIN m[f] : m[f][i].value = v
  BY DEF Queued

\* Every value is queued once, in one list.
LEMMA QueuedOnce ==
    ASSUME TypeInv, NodesInPlace, NEW f \in DOMAIN results, NEW g \in DOMAIN results,
           NEW i \in 1 .. Len(results[f]), NEW j \in 1 .. Len(results[g]),
           results[f][i].value = results[g][j].value
    PROVE  f = g /\ i = j
<1>1. NodeInPlace(f, i) /\ NodeInPlace(g, j)
  BY DEF NodesInPlace
<1>2. f = g
  BY <1>1 DEF NodeInPlace
<1>3. i \in Nat /\ j \in Nat /\ results[f][i].value \in Nat
  BY <1>1, FoundType, ValueType DEF NodeInPlace
<1>4. ~ (i < j)
  BY <1>1, <1>2, <1>3 DEF NodeInPlace
<1>5. ~ (j < i)
  BY <1>1, <1>2, <1>3 DEF NodeInPlace
<1> QED
  BY <1>2, <1>3, <1>4, <1>5

\* get_symbol_value takes a value out of the map with its last use only.
LEMMA QueuedAfterGet ==
    ASSUME TypeInv, NodesInPlace, NEW f \in DOMAIN results,
           NEW m, m = get_symbol_value(results, f).map,
           NEW v, v = results[f][1].value
    PROVE  Queued(m) = IF results[f][1].refcount = 1 THEN Queued(results) \ {v}
                       ELSE Queued(results)
<1>1. IsMap(m, Functions, Seq(Node)) /\ DOMAIN m \subseteq DOMAIN results
      /\ \A g \in DOMAIN results \ {f} : g \in DOMAIN m /\ m[g] = results[g]
  BY FoundType, GetEffect
<1>2. \A g \in DOMAIN m : m[g] \in Seq(Node) /\ DOMAIN m[g] = 1 .. Len(m[g])
  BY <1>1 DEF IsMap
<1>3. \A g \in DOMAIN results : /\ results[g] \in Seq(Node) /\ results[g] # <<>>
                                /\ DOMAIN results[g] = 1 .. Len(results[g])
                                /\ Len(results[g]) \in Nat /\ Len(results[g]) > 0
  BY FoundType
<1>4. CASE results[f][1].refcount = 1
  <2>1. /\ f \in DOMAIN m => Len(m[f]) = Len(results[f]) - 1
        /\ \A i \in 2 .. Len(results[f]) : f \in DOMAIN m /\ m[f][i - 1] = results[f][i]
    BY <1>4, GetEffect
  <2>2. ASSUME NEW u \in Queued(m) PROVE u \in Queued(results) \ {v}
    <3>1. PICK g \in DOMAIN m : \E i \in DOMAIN m[g] : m[g][i].value = u
      BY <2>2, QueuedIn
    <3>2. PICK i \in 1 .. Len(m[g]) : m[g][i].value = u
      BY <1>2, <3>1
    <3>3. PICK j \in 1 .. Len(results[g]) : results[g][j].value = u /\ (g = f => j # 1)
      <4>1. CASE g # f
        BY <1>1, <3>1, <3>2, <4>1
      <4>2. CASE g = f
        <5>1. i + 1 \in 2 .. Len(results[f]) /\ (i + 1) - 1 = i
          BY <1>3, <2>1, <3>1, <3>2, <4>2
        <5>2. results[f][i + 1] = m[f][i]
          BY <2>1, <5>1
        <5> QED
          BY <3>2, <4>2, <5>1, <5>2
      <4> QED
        BY <4>1, <4>2
    <3>4. g \in DOMAIN results /\ u \in Queued(results)
      BY <1>1, <1>3, <3>1, <3>3, QueuedIn
    <3>5. u # v
      <4>1. 1 \in 1 .. Len(results[f])
        BY <1>3
      <4> QED
        BY <3>3, <3>4, <4>1, QueuedOnce
    <3> QED
      BY <3>4, <3>5
  <2>3. ASSUME NEW u \in Queued(results), u # v PROVE u \in Queued(m)
    <3>1. PICK g \in DOMAIN results : \E i \in DOMAIN results[g] : results[g][i].value = u
      BY <2>3, QueuedIn
    <3>2. PICK i \in 1 .. Len(results[g]) : results[g][i].value = u
      BY <1>3, <3>1
    <3>3. CASE g # f
      BY <1>1, <1>2, <3>1, <3>2, <3>3, QueuedIn
    <3>4. CASE g = f
      <4>1. i # 1 /\ i \in 2 .. Len(results[f])
        BY <1>3, <2>3, <3>2, <3>4
      <4>2. f \in DOMAIN m /\ m[f][i - 1].value = u /\ i - 1 \in DOMAIN m[f]
        BY <1>2, <1>3, <2>1, <3>2, <3>4, <4>1
      <4> QED
        BY <4>2, QueuedIn
    <3> QED
      BY <3>3, <3>4
  <2> QED
    BY <1>4, <2>2, <2>3
<1>5. CASE results[f][1].refcount # 1
  <2>1. /\ f \in DOMAIN m /\ Len(m[f]) = Len(results[f])
        /\ m[f][1].value = results[f][1].value
        /\ \A i \in 2 .. Len(results[f]) : m[f][i] = results[f][i]
    BY <1>5, GetEffect
  <2>2. DOMAIN m = DOMAIN results
    BY <1>1, <2>1
  <2>3. \A g \in DOMAIN m : /\ DOMAIN m[g] = DOMAIN results[g]
                            /\ \A i \in DOMAIN m[g] : m[g][i].value = results[g][i].value
    <3> SUFFICES ASSUME NEW g \in DOMAIN m
                 PROVE  /\ DOMAIN m[g] = DOMAIN results[g]
                        /\ \A i \in DOMAIN m[g] : m[g][i].value = results[g][i].value
      OBVIOUS
    <3>1. CASE g = f
      <4>1. DOMAIN m[f] = 1 .. Len(results[f]) /\ DOMAIN results[f] = 1 .. Len(results[f])
        BY <1>2, <1>3, <2>1
      <4>2. \A i \in 1 .. Len(results[f]) : m[f][i].value = results[f][i].value
        BY <1>3, <2>1
      <4> QED
        BY <3>1, <4>1, <4>2
    <3>2. CASE g # f
      BY <1>1, <3>2
    <3> QED
      BY <3>1, <3>2
  <2>4. \A u : u \in Queued(m) <=> u \in Queued(results)
    BY <2>2, <2>3, QueuedIn
  <2> QED
    BY <1>5, <2>4
<1> QED
  BY <1>4, <1>5

\* What remove_always_return_values leaves: a list loses its first node if its
\* value may be left, and goes if that was the only one.
LEMMA CleanedLists ==
    ASSUME TypeInv, NEW m, m = remove_always_return_values(results)
    PROVE  /\ DOMAIN m \subseteq DOMAIN results
           /\ \A f \in DOMAIN results :
                 /\ results[f][1].refcount < -1 =>
                       /\ f \in DOMAIN m <=> Len(results[f]) > 1
                       /\ f \in DOMAIN m => m[f] = Tail(results[f])
                 /\ ~ (results[f][1].refcount < -1) =>
                       f \in DOMAIN m /\ m[f] = results[f]
           /\ check_for_leftover_values(m) <=> DOMAIN m # {}
<1> DEFINE d(f) == DropServedFirst(results[f])
<1>1. DOMAIN m = {f \in DOMAIN results : d(f) # <<>>} /\ \A f \in DOMAIN m : m[f] = d(f)
  BY DEF remove_always_return_values
<1>2. ASSUME NEW f \in DOMAIN results
      PROVE  /\ results[f][1].refcount < -1 =>
                   d(f) = Tail(results[f]) /\ (d(f) # <<>> <=> Len(results[f]) > 1)
             /\ ~ (results[f][1].refcount < -1) => d(f) = results[f] /\ d(f) # <<>>
  <2>1. results[f] \in Seq(Node) /\ results[f] # <<>> /\ Head(results[f]) = results[f][1]
    BY FoundType
  <2>2. Len(results[f]) \in Nat /\ Len(Tail(results[f])) = Len(results[f]) - 1
        /\ Tail(results[f]) \in Seq(Node)
    BY <2>1
  <2>3. Tail(results[f]) # <<>> <=> Len(results[f]) > 1
    <3>1. PICK t : t = Tail(results[f])
      OBVIOUS
    <3>2. t \in Seq(Node) /\ Len(t) = Len(results[f]) - 1
      BY <2>2, <3>1
    <3>3. t # <<>> <=> Len(t) # 0
      BY <3>2, EmptySeq
    <3>4. t # <<>> <=> Len(results[f]) > 1
      BY <2>1, <2>2, <3>2, <3>3
    <3> QED
      BY <3>1, <3>4
  <2> QED
    BY <2>1, <2>3 DEF DropServedFirst
<1>3. check_for_leftover_values(m) <=> DOMAIN m # {}
  BY <1>1 DEF check_for_leftover_values
<1> HIDE DEF d
<1> QED
  BY <1>1, <1>2, <1>3

\* What is left was queued.
LEMMA QueuedAfterClean ==
    ASSUME TypeInv
    PROVE  Queued(remove_always_return_values(results)) \subseteq Queued(results)
<1> DEFINE m == remove_always_return_values(results)
<1>0. PICK c : c = m
  OBVIOUS
<1> SUFFICES ASSUME NEW u \in Queued(c) PROVE u \in Queued(results)
  BY <1>0
<1>1. PICK f \in DOMAIN c : \E i \in DOMAIN c[f] : c[f][i].value = u
  BY QueuedIn
<1>2. PICK i \in DOMAIN c[f] : c[f][i].value = u
  BY <1>1
<1>3. f \in DOMAIN results /\ (c[f] = results[f] \/ c[f] = Tail(results[f]))
  BY <1>0, <1>1, CleanedLists
<1>4. results[f] \in Seq(Node) /\ results[f] # <<>>
      /\ DOMAIN results[f] = 1 .. Len(results[f]) /\ Len(results[f]) \in Nat
  BY <1>3, FoundType
<1>5. CASE c[f] = results[f]
  BY <1>2, <1>3, <1>5, QueuedIn
<1>6. CASE c[f] = Tail(results[f])
  <2>1. i + 1 \in DOMAIN results[f] /\ results[f][i + 1].value = u
    BY <1>2, <1>4, <1>6, HeadTailProperties
  <2> QED
    BY <1>3, <2>1, QueuedIn
<1> QED
  BY <1>3, <1>5, <1>6

-----------------------------------------------------------------------------
(* Ownership.                                                              *)

\* What ValuesOwned says at the three phases of a test, and what it takes in
\* between: until teardown_testing every allocated value is queued, and every
\* queued one is allocated unless a type mismatch has freed it.
OwnedInv ==
    /\ ValuesOwned
    /\ phase = "unwound" =>
          /\ live \cap Values \subseteq Queued(results)
          /\ report.kind # "mismatch" => Queued(results) \subseteq live

\* What was declared or thrown away before the first test: nothing.
LEMMA OwnedInit == Init => OwnedInv
  BY DEF Init, OwnedInv, ValuesOwned, LiveIsQueued, NoLeak, CrashMeansMismatch

\* Every step keeps the owners of the values.
LEMMA OwnedNext ==
    TypeInv /\ HistoryInv /\ OwnedInv /\ [Next]_vars => OwnedInv'
<1> SUFFICES ASSUME TypeInv, HistoryInv, OwnedInv, [Next]_vars PROVE OwnedInv'
  OBVIOUS
<1> USE DEF OwnedInv, ValuesOwned, LiveIsQueued, NoLeak, CrashMeansMismatch
<1>1. CASE initialize_testing
  <2>1. phase' = "body" /\ live' = {} /\ results' = EmptyMap
    BY <1>1 DEF initialize_testing
  <2>2. Queued(EmptyMap) = {}
    BY DEF Queued, EmptyMap
  <2>3. Queued(results)' = Queued(EmptyMap)
    BY <2>1 DEF Queued
  <2> QED
    BY <2>1, <2>2, <2>3
<1>2. ASSUME NEW f \in Functions, NEW n \in MaybeName, NEW c \in Counts,
             will_return(f, n, c)
      PROVE  OwnedInv'
  <2>0. PICK k : k = NewValue
    OBVIOUS
  <2>1. /\ phase = "body" /\ phase' = "body" /\ live' = live \cup {k}
        /\ results' = add_symbol_value(results, f, k, c)
    BY <1>2, <2>0 DEF will_return
  <2>2. Queued(results') = Queued(results) \cup {k}
    <3> DEFINE old == ListAt(results, f)
               new == [value |-> k, refcount |-> c]
    <3>1. c \in Int \ {0} /\ k \in Nat \ {0}
      BY <1>2, <2>0, CountsAssumption, ValueType DEF will_return, NewValue
    <3>2. old \in Seq(Node) /\ new \in Node
      BY <3>1 DEF TypeInv, TypeOK, IsMap, ListAt, Node, NodeOf
    <3>3. results' = [t \in DOMAIN results \cup {f} |->
                        IF t = f THEN Append(old, new) ELSE results[t]]
      BY <2>1 DEF add_symbol_value, Put, list_add_value
    <3>4. /\ f \in DOMAIN results => old = results[f]
          /\ f \notin DOMAIN results => old = <<>>
      BY DEF ListAt
    <3>5. /\ DOMAIN results' = DOMAIN results \cup {f}
          /\ results'[f] = Append(old, new)
          /\ \A g \in DOMAIN results \ {f} : results'[g] = results[g]
      BY <3>3
    <3>6. /\ DOMAIN old = 1 .. Len(old) /\ Len(old) \in Nat
          /\ DOMAIN results'[f] = 1 .. Len(old) + 1
          /\ \A i \in 1 .. Len(old) : results'[f][i] = old[i]
          /\ results'[f][Len(old) + 1].value = k
      BY <3>2, <3>5, AppendProperties
    <3> HIDE DEF old, new
    <3>7. ASSUME NEW u \in Queued(results') PROVE u \in Queued(results) \cup {k}
      <4>1. PICK g \in DOMAIN results' :
              \E i \in DOMAIN results'[g] : results'[g][i].value = u
        BY <3>7, QueuedIn
      <4>2. PICK i \in DOMAIN results'[g] : results'[g][i].value = u
        BY <4>1
      <4>3. CASE g # f
        BY <3>5, <4>1, <4>2, <4>3, QueuedIn
      <4>4. CASE g = f
        <5>1. CASE i = Len(old) + 1
          BY <3>6, <4>2, <4>4, <5>1
        <5>2. CASE i # Len(old) + 1
          <6>1. i \in DOMAIN old /\ old[i].value = u
            BY <3>6, <4>2, <4>4, <5>2
          <6>2. f \in DOMAIN results
            BY <3>4, <6>1
          <6> QED
            BY <3>4, <6>1, <6>2, QueuedIn
        <5> QED
          BY <5>1, <5>2
      <4> QED
        BY <4>3, <4>4
    <3>8. ASSUME NEW u \in Queued(results) PROVE u \in Queued(results')
      <4>1. PICK g \in DOMAIN results :
              \E i \in DOMAIN results[g] : results[g][i].value = u
        BY <3>8, QueuedIn
      <4>2. PICK i \in DOMAIN results[g] : results[g][i].value = u
        BY <4>1
      <4>3. g \in DOMAIN results' /\ i \in DOMAIN results'[g] /\ results'[g][i].value = u
        <5>1. CASE g # f
          BY <3>5, <4>2, <5>1
        <5>2. CASE g = f
          BY <3>4, <3>5, <3>6, <4>2, <5>2
        <5> QED
          BY <5>1, <5>2
      <4> QED
        BY <4>3, QueuedIn
    <3>9. k \in Queued(results')
      <4>1. Len(old) + 1 \in DOMAIN results'[f] /\ f \in DOMAIN results'
        BY <3>5, <3>6
      <4> QED
        BY <3>6, <4>1, QueuedIn
    <3> QED
      BY <3>7, <3>8, <3>9
  <2>3. Queued(results)' = Queued(results')
    BY DEF Queued
  <2> QED
    BY <2>1, <2>2, <2>3
<1>3. ASSUME NEW f \in Functions, NEW n \in MaybeName,
             mock(f, n) \/ mock_mismatch(f, n)
      PROVE  OwnedInv'
  <2>1. /\ phase = "body" /\ f \in DOMAIN results
        /\ results' = get_symbol_value(results, f).map /\ declared' = declared
    BY <1>3 DEF mock, mock_mismatch
  <2>2. NodesInPlace /\ live = Queued(results)
    BY <2>1 DEF HistoryInv
  <2>3. PICK v, r : v = results[f][1].value /\ r = results[f][1].refcount
    OBVIOUS
  <2>4. get_symbol_value(results, f).value = v /\ get_symbol_value(results, f).rc = r
    BY <2>1, <2>3, FoundType
  <2>5. Queued(results') = IF r = 1 THEN Queued(results) \ {v} ELSE Queued(results)
    BY <2>1, <2>2, <2>3, QueuedAfterGet
  <2>6. Queued(results)' = Queued(results') /\ Values' = Values
    BY <2>1 DEF Queued, Values
  <2>7. CASE mock(f, n)
    <3>1. phase' = "body" /\ live' = IF r = 1 THEN live \ {v} ELSE live
      BY <2>1, <2>4, <2>7 DEF mock, FreedByMock
    <3> QED
      BY <2>2, <2>5, <2>6, <3>1
  <2>8. CASE mock_mismatch(f, n)
    <3>1. phase' = "unwound" /\ live' = live \ {v} /\ report'.kind = "mismatch"
      BY <2>1, <2>4, <2>8 DEF mock_mismatch, exit_test
    <3> QED
      BY <2>2, <2>5, <2>6, <3>1
  <2> QED
    BY <1>3, <2>7, <2>8
<1>4. CASE will_return_zero
  <2>1. NewValue \notin Values
    BY ValueType DEF NewValue
  <2>2. /\ phase = "body" /\ phase' = "unwound" /\ live' = live \cup {NewValue}
        /\ results' = results /\ declared' = declared
    BY <1>4 DEF will_return_zero, exit_test
  <2>3. Queued(results)' = Queued(results) /\ Values' = Values
    BY <2>2 DEF Queued, Values
  <2> QED
    BY <2>1, <2>2, <2>3
<1>5. ASSUME fail \/ \E f \in Functions : mock_missing(f) PROVE OwnedInv'
  <2>1. /\ phase = "body" /\ phase' = "unwound" /\ live' = live
        /\ results' = results /\ declared' = declared
    BY <1>5 DEF fail, mock_missing, exit_test
  <2>2. Queued(results)' = Queued(results) /\ Values' = Values
    BY <2>1 DEF Queued, Values
  <2> QED
    BY <2>1, <2>2
<1>6. CASE fail_if_leftover_values
  <2>1. PICK m : m = remove_always_return_values(results)
    OBVIOUS
  <2>2. /\ phase = "body" /\ phase' = "unwound" /\ results' = m
        /\ live' = live \ (Queued(results) \ Queued(m))
    BY <1>6, <2>1 DEF fail_if_leftover_values, has_leftover_values
  <2>3. Queued(results)' = Queued(m) /\ Queued(m) \subseteq Queued(results)
    BY <2>1, <2>2, QueuedAfterClean DEF Queued
  <2> QED
    BY <2>2, <2>3
<1>7. CASE teardown_testing
  <2>1. /\ phase = "unwound" /\ live' = live \ Queued(results)
        /\ report' = report /\ declared' = declared
        /\ phase' = "idle" \/ (phase' = "crashed" /\ ~ (Queued(results) \subseteq live))
    BY <1>7 DEF teardown_testing
  <2>2. Values' = Values
    BY <2>1 DEF Values
  <2> QED
    BY <2>1, <2>2
<1>8. CASE UNCHANGED vars
  <2>1. UNCHANGED <<phase, live, results, report, declared>>
    BY <1>8 DEF vars
  <2>2. Queued(results)' = Queued(results) /\ Values' = Values
    BY <2>1 DEF Queued, Values
  <2> QED
    BY <2>1, <2>2
<1> QED
  BY <1>1, <1>2, <1>3, <1>4, <1>5, <1>6, <1>7, <1>8 DEF Next

\* Each value has one owner from will_return() to the end of its test, whatever
\* the test calls: nothing leaks, and only a type mismatch leads to a double free.
THEOREM ValuesAreOwned == Spec => []ValuesOwned
<1>1. Init => OwnedInv
  BY OwnedInit
<1>2. (TypeInv /\ HistoryInv) /\ OwnedInv /\ [Next]_vars => OwnedInv'
  BY OwnedNext
<1>3. OwnedInv => ValuesOwned
  BY DEF OwnedInv
<1> QED
  BY <1>1, <1>2, <1>3, HistoryInvariant, PTL DEF Spec

-----------------------------------------------------------------------------
(* The leftover check.                                                     *)

\* What the nodes at the front of a list say of their values: the first one is
\* not exhausted, nor is a second one.
LEMMA FrontOfList ==
    ASSUME TypeInv, NodesInPlace, ServedWithinCount, NEW f \in DOMAIN results,
           NEW i \in 1 .. Len(results[f]), NEW v, v = results[f][i].value
    PROVE  /\ v \in Values /\ declared[v].function = f /\ ~ Exhausted(v)
           /\ results[f][i].refcount < -1 <=>
                 (declared[v].count <= -2 \/ (declared[v].count = -1 /\ served[v] > 0))
           /\ ~ (results[f][i].refcount < -1) => ~ Satisfied(v)
           /\ declared[v].count # 0
<1>1. NodeInPlace(f, i)
  BY DEF NodesInPlace
<1>2. v \in Values /\ declared[v].function = f /\ results[f][i].refcount = Owed(v)
  BY <1>1 DEF NodeInPlace
<1>3. results[f] \in Seq(Node)
  BY FoundType
<1>4. results[f][i] \in Node
  BY <1>3
<1>5. Owed(v) \in Int /\ Owed(v) # 0
  BY <1>2, <1>4 DEF Node, NodeOf
<1>6. served[v] \in Nat /\ declared[v].count \in Int
      /\ (declared[v].count > 0 => served[v] <= declared[v].count)
  BY <1>2, ValueType DEF ServedWithinCount
<1>7. CASE declared[v].count > 0
  BY <1>2, <1>5, <1>6, <1>7 DEF Owed, Exhausted, Satisfied
<1>8. CASE ~ (declared[v].count > 0)
  BY <1>2, <1>5, <1>6, <1>8 DEF Owed, Exhausted, Satisfied, WILL_RETURN_ONCE
<1> QED
  BY <1>7, <1>8

\* What has_leftover_values prints is owed, unless a value was queued behind one
\* that never runs out.
LEMMA LeftoverStep ==
    ASSUME TypeInv, NodesInPlace, ServedWithinCount,
           NEW m, m = remove_always_return_values(results), NEW f \in DOMAIN m,
           \A v, w \in Values :
              (v < w /\ declared[v].function = declared[w].function)
                 => declared[v].count > 0
    PROVE  ~ Satisfied(Head(m[f]).value)
<1>1. f \in DOMAIN results
  BY CleanedLists
<1>2. results[f] \in Seq(Node) /\ Len(results[f]) \in Nat /\ Len(results[f]) >= 1
      /\ Head(results[f]) = results[f][1]
  BY <1>1, FoundType
<1>3. ~ (results[f][1].refcount < -1)
  <2> SUFFICES ASSUME results[f][1].refcount < -1 PROVE FALSE
    OBVIOUS
  <2>1. Len(results[f]) > 1
    BY <1>1, CleanedLists
  <2>2. 1 \in 1 .. Len(results[f]) /\ 2 \in 1 .. Len(results[f]) /\ 1 \in 1 .. 2 - 1
    BY <1>2, <2>1
  <2>3. PICK v, w : v = results[f][1].value /\ w = results[f][2].value
    OBVIOUS
  <2>4. /\ v \in Values /\ w \in Values
        /\ declared[v].function = f /\ declared[w].function = f
        /\ declared[v].count \in Int
        /\ declared[v].count <= -2 \/ declared[v].count = -1
    BY <1>1, <2>2, <2>3, FrontOfList, ValueType
  <2>5. NodeInPlace(f, 2)
    BY <1>1, <2>2 DEF NodesInPlace
  <2>6. v < w
    BY <2>2, <2>3, <2>5 DEF NodeInPlace
  <2> QED
    BY <2>4, <2>6
<1>4. Head(m[f]) = results[f][1]
  BY <1>1, <1>2, <1>3, CleanedLists
<1>5. 1 \in 1 .. Len(results[f])
  BY <1>2
<1> QED
  BY <1>1, <1>3, <1>4, <1>5, FrontOfList

\* The report of the last test stays true.
LEMMA LeftoverNext ==
    TypeInv /\ HistoryInv /\ LeftoverMeansOwed /\ [Next]_vars => LeftoverMeansOwed'
<1> SUFFICES ASSUME TypeInv, HistoryInv, LeftoverMeansOwed, [Next]_vars,
                    report'.kind = "leftover"
             PROVE  LeftoverMeansOwed'
  BY DEF LeftoverMeansOwed
<1>1. CASE fail_if_leftover_values
  <2>1. PICK m : m = remove_always_return_values(results)
    OBVIOUS
  <2>2. phase = "body" /\ report.kind = "none" /\ NodesInPlace /\ ServedWithinCount
    BY <1>1 DEF fail_if_leftover_values, has_leftover_values, HistoryInv
  <2>3. PICK f \in DOMAIN m : report'.value = Head(m[f]).value
    BY <1>1, <2>1, <2>2 DEF fail_if_leftover_values, has_leftover_values
  <2>4. declared' = declared /\ served' = served /\ Values' = Values
    BY <1>1 DEF fail_if_leftover_values, has_leftover_values, Values
  <2> QED
    BY <2>1, <2>2, <2>3, <2>4, LeftoverStep DEF LeftoverMeansOwed, Satisfied
<1>2. CASE report' = report /\ declared' = declared /\ served' = served
  BY <1>2 DEF LeftoverMeansOwed, Satisfied, Values
<1>3. CASE phase = "body" /\ report' = report
  BY <1>3 DEF HistoryInv
<1>4. CASE initialize_testing
  BY <1>4 DEF initialize_testing, NoReport
<1>5. CASE teardown_testing \/ UNCHANGED vars
  BY <1>2, <1>5 DEF teardown_testing, vars
<1>6. ASSUME NEW f, NEW n, NEW c, will_return(f, n, c) PROVE LeftoverMeansOwed'
  BY <1>3, <1>6 DEF will_return
<1>7. ASSUME NEW f, NEW n, mock(f, n) PROVE LeftoverMeansOwed'
  BY <1>3, <1>7 DEF mock
<1>8. ASSUME NEW f, NEW n, mock_mismatch(f, n) PROVE LeftoverMeansOwed'
  BY <1>8 DEF mock_mismatch
<1>9. ASSUME NEW f, mock_missing(f) PROVE LeftoverMeansOwed'
  BY <1>9 DEF mock_missing
<1>10. CASE will_return_zero \/ fail
  BY <1>3, <1>10 DEF will_return_zero, fail
<1> QED
  BY <1>1, <1>4, <1>5, <1>6, <1>7, <1>8, <1>9, <1>10 DEF Next

\* "Has remaining non-returned values" names a value that is still owed, as long
\* as no value is queued behind one that never runs out.
THEOREM LeftoverIsOwed == Spec => []LeftoverMeansOwed
<1>1. Init => LeftoverMeansOwed
  BY DEF Init, LeftoverMeansOwed, NoReport
<1>2. (TypeInv /\ HistoryInv) /\ LeftoverMeansOwed /\ [Next]_vars => LeftoverMeansOwed'
  BY LeftoverNext
<1> QED
  BY <1>1, <1>2, HistoryInvariant, PTL DEF Spec

-----------------------------------------------------------------------------
(* The map of lists implements the plan.                                   *)

\* A declaration, as the plan sees it.
PlanDeclaration == [key : Functions, count : Counts]

\* The declarations of the plan, and its predicates on them, in the terms of
\* MockValues.
LEMMA PlanFacts ==
    ASSUME TypeInv
    PROVE  /\ PlanDeclared \in Seq(PlanDeclaration)
           /\ DOMAIN PlanDeclared = Values /\ Len(PlanDeclared) = Len(declared)
           /\ \A v \in Values :
                /\ PlanDeclared[v].key = declared[v].function
                /\ PlanDeclared[v].count = declared[v].count
                /\ Plan!Open(v) <=> ~ Exhausted(v)
                /\ Plan!Optional(v) <=> (declared[v].count <= -2
                                         \/ (declared[v].count = -1 /\ served[v] > 0))
           /\ \A v, w \in Values :
                Plan!SameKey(v, w) <=> declared[v].function = declared[w].function
<1>1. Len(declared) \in Nat /\ Values = 1 .. Len(declared)
  BY ValueType
<1>2. DOMAIN PlanDeclared = 1 .. Len(declared)
  BY <1>1 DEF PlanDeclared
<1>3. PlanDeclared \in Seq(PlanDeclaration)
  <2>1. \A v \in 1 .. Len(declared) : PlanDeclared[v] \in PlanDeclaration
    BY <1>1, ValueType DEF PlanDeclared, SymbolValue, PlanDeclaration
  <2>2. PlanDeclared \in [1 .. Len(declared) -> PlanDeclaration]
    BY <1>1, <2>1 DEF PlanDeclared
  <2> QED
    BY <1>1, <2>2
<1>4. Len(PlanDeclared) = Len(declared)
  BY <1>1, <1>2, <1>3
<1>5. \A v \in Values : /\ PlanDeclared[v].key = declared[v].function
                        /\ PlanDeclared[v].count = declared[v].count
  BY DEF PlanDeclared
<1> QED
  BY <1>1, <1>2, <1>3, <1>4, <1>5 DEF Plan!Open, Plan!Optional, Plan!SameKey, Exhausted

\* While the body of a test runs, the next declaration of a function is the one
\* at the head of its list, and there is none when it has no list.
LEMMA PlanNext ==
    ASSUME TypeInv, HistoryInv, phase = "body"
    PROVE  /\ \A f \in DOMAIN results : Plan!IsNext(results[f][1].value, f)
           /\ \A f : f \notin DOMAIN results => \A v \in Values : ~ Plan!IsNext(v, f)
<1>1. NodesInPlace /\ NoneLost /\ ServedWithinCount
  BY DEF HistoryInv
<1>2. ASSUME NEW f \in DOMAIN results
      PROVE  Plan!IsNext(results[f][1].value, f)
  <2>1. PICK v : v = results[f][1].value
    OBVIOUS
  <2>2. 1 \in 1 .. Len(results[f])
    BY FoundType
  <2>3. v \in Values /\ declared[v].function = f /\ ~ Exhausted(v) /\ declared[v].count # 0
    BY <1>1, <2>1, <2>2, FrontOfList
  <2>4. \A u \in Values : (u < v /\ declared[u].function = f) => Exhausted(u)
    BY <1>1, <2>1, HeadFacts
  <2>5. \A u \in 1 .. v - 1 : u \in Values /\ u < v
    BY <2>3, ValueType
  <2>6. Plan!IsNext(v, f)
    BY <2>3, <2>4, <2>5, PlanFacts DEF Plan!IsNext
  <2> QED
    BY <2>1, <2>6
<1>3. ASSUME NEW f, f \notin DOMAIN results, NEW v \in Values
      PROVE  ~ Plan!IsNext(v, f)
  <2>1. declared[v].function = f => Exhausted(v)
    BY <1>1, <1>3, QueuedAtOwn DEF NoneLost
  <2> QED
    BY <2>1, PlanFacts DEF Plan!IsNext
<1> QED
  BY <1>2, <1>3

\* The leftover check finds nothing if and only if every function has at most
\* one value that is not exhausted, and that one may be left.
LEMMA PlanReturn ==
    ASSUME TypeInv, HistoryInv, phase = "body",
           NEW m, m = remove_always_return_values(results)
    PROVE  DOMAIN m = {} <=>
              \A v \in DOMAIN PlanDeclared :
                 Plan!Open(v) => /\ Plan!Optional(v)
                                 /\ \A w \in 1 .. v - 1 :
                                       Plan!SameKey(v, w) => ~ Plan!Open(w)
<1>1. NodesInPlace /\ NoneLost /\ ServedWithinCount
  BY DEF HistoryInv
<1>2. ASSUME DOMAIN m = {}, NEW v \in Values, Plan!Open(v)
      PROVE  Plan!Optional(v) /\ \A w \in 1 .. v - 1 : Plan!SameKey(v, w) => ~ Plan!Open(w)
  <2>1. PICK f \in DOMAIN results : f = declared[v].function
    BY <1>1, <1>2, PlanFacts, QueuedAtOwn DEF NoneLost
  <2>2. PICK i \in 1 .. Len(results[f]) : results[f][i].value = v
    BY <1>1, <1>2, <2>1, PlanFacts, QueuedAtOwn DEF NoneLost
  <2>3. results[f][1].refcount < -1 /\ ~ (Len(results[f]) > 1)
    BY <1>2, CleanedLists
  <2>4. i = 1
    BY <2>2, <2>3, FoundType
  <2>5. Plan!Optional(v)
    BY <1>1, <2>2, <2>3, <2>4, FrontOfList, PlanFacts
  <2>6. Plan!IsNext(v, f)
    BY <2>2, <2>4, PlanNext
  <2> QED
    BY <2>5, <2>6 DEF Plan!IsNext
<1>3. ASSUME NEW f \in DOMAIN m,
             \A v \in Values : Plan!Open(v) =>
                 Plan!Optional(v) /\ \A w \in 1 .. v - 1 : Plan!SameKey(v, w) => ~ Plan!Open(w)
      PROVE  FALSE
  <2>1. f \in DOMAIN results
    BY CleanedLists
  <2>2. Len(results[f]) \in Nat /\ Len(results[f]) >= 1 /\ 1 \in 1 .. Len(results[f])
    BY <2>1, FoundType
  <2>3. PICK v : v = results[f][1].value
    OBVIOUS
  <2>4. v \in Values /\ declared[v].function = f /\ Plan!Open(v)
    BY <1>1, <2>1, <2>2, <2>3, FrontOfList, PlanFacts
  <2>5. results[f][1].refcount < -1
    BY <1>1, <1>3, <2>1, <2>2, <2>3, <2>4, FrontOfList, PlanFacts
  <2>6. Len(results[f]) > 1 /\ 2 \in 1 .. Len(results[f]) /\ 1 \in 1 .. 2 - 1
    BY <2>1, <2>2, <2>5, <1>3, CleanedLists
  <2>7. PICK w : w = results[f][2].value
    OBVIOUS
  <2>8. w \in Values /\ declared[w].function = f /\ Plan!Open(w)
    BY <1>1, <2>1, <2>6, <2>7, FrontOfList, PlanFacts
  <2>9. NodeInPlace(f, 2)
    BY <1>1, <2>1, <2>6 DEF NodesInPlace
  <2>10. v < w
    BY <2>3, <2>6, <2>7, <2>9 DEF NodeInPlace
  <2>11. v \in 1 .. w - 1
    BY <2>4, <2>8, <2>10, ValueType
  <2>12. Plan!SameKey(w, v)
    BY <2>4, <2>8, PlanFacts
  <2> QED
    BY <1>3, <2>4, <2>8, <2>11, <2>12
<1> QED
  BY <1>2, <1>3, PlanFacts

\* will_return() appends a declaration to the plan.
LEMMA PlanDeclares ==
    ASSUME TypeInv, NEW f \in Functions, NEW n, NEW c \in Counts, will_return(f, n, c)
    PROVE  PlanDeclared' = Append(PlanDeclared, [key |-> f, count |-> c])
<1>1. PICK k : k = NewValue
  OBVIOUS
<1>2. /\ Values' = Values \cup {k} /\ k \notin Values
      /\ \A v \in Values : declared'[v] = declared[v]
      /\ declared'[k].function = f /\ declared'[k].count = c
  BY <1>1, WillReturnHistory
<1>3. k = Len(declared) + 1 /\ Len(declared) \in Nat /\ Values = 1 .. Len(declared)
  BY <1>1, ValueType DEF NewValue
<1>4. PICK d, e, r : d = PlanDeclared /\ e = PlanDeclared'
                     /\ r = [key |-> f, count |-> c]
  OBVIOUS
<1>5. DOMAIN d = 1 .. Len(declared) /\ Len(d) = Len(declared)
  BY <1>3, <1>4, PlanFacts
<1>6. e = [v \in Values' |-> [key |-> declared'[v].function,
                              count |-> declared'[v].count]]
  BY <1>4 DEF PlanDeclared
<1>7. d = [v \in Values |-> [key |-> declared[v].function,
                             count |-> declared[v].count]]
  BY <1>4 DEF PlanDeclared
<1>8. DOMAIN e = 1 .. Len(d) + 1
  BY <1>2, <1>3, <1>5, <1>6
<1>9. \A v \in 1 .. Len(d) : e[v] = d[v]
  BY <1>2, <1>3, <1>5, <1>6, <1>7
<1>10. e[Len(d) + 1] = r
  BY <1>2, <1>3, <1>4, <1>5, <1>6
<1>11. e = [v \in 1 .. Len(d) + 1 |-> e[v]]
  BY <1>6, <1>8
<1>12. PICK a : a = Append(d, r)
  OBVIOUS
<1>13. /\ DOMAIN a = 1 .. Len(d) + 1 /\ a[Len(d) + 1] = r
       /\ \A v \in 1 .. Len(d) : a[v] = d[v]
       /\ a = [v \in DOMAIN a |-> a[v]]
  <2>1. d \in Seq(PlanDeclaration) /\ r \in PlanDeclaration
    BY <1>4, PlanFacts DEF PlanDeclaration
  <2>2. a \in Seq(PlanDeclaration) /\ Len(a) = Len(d) + 1
        /\ a[Len(d) + 1] = r /\ \A v \in 1 .. Len(d) : a[v] = d[v]
    BY <1>12, <2>1, AppendProperties
  <2>3. a \in [1 .. Len(a) -> PlanDeclaration]
    BY <2>2
  <2> QED
    BY <2>2, <2>3
<1>14. \A v \in 1 .. Len(d) + 1 : v \in 1 .. Len(d) \/ v = Len(d) + 1
  BY <1>3, <1>5
<1>15. \A v \in 1 .. Len(d) + 1 : e[v] = a[v]
  BY <1>9, <1>10, <1>13, <1>14
<1>16. e = a
  BY <1>11, <1>13, <1>15
<1> QED
  BY <1>4, <1>12, <1>16

\* Before the first test, the plan has passed an empty test.
LEMMA PlanInit == Init => Plan!Init
<1> SUFFICES ASSUME Init PROVE Plan!Init
  OBVIOUS
<1>1. PlanDeclared = <<>>
  BY DEF Init, PlanDeclared, Values
<1> QED
  BY <1>1 DEF Init, Plan!Init, PlanOutcome

\* Every step of the map of lists is a step of the plan, or none.
LEMMA PlanSteps ==
    TypeInv /\ HistoryInv /\ [Next]_vars => [Plan!Next]_(Plan!vars)
<1> SUFFICES ASSUME TypeInv, HistoryInv, [Next]_vars
             PROVE  Plan!Next \/ UNCHANGED Plan!vars
  OBVIOUS
<1>0. phase = "body" => PlanOutcome = "running"
  BY DEF PlanOutcome
<1>1. ASSUME declared' = declared PROVE PlanDeclared' = PlanDeclared
  BY <1>1 DEF PlanDeclared, Values
<1>2. CASE initialize_testing
  <2>1. PlanDeclared' = <<>> /\ served' = <<>>
    BY <1>2 DEF initialize_testing, PlanDeclared, Values
  <2>2. PlanOutcome # "running" /\ PlanOutcome' = "running"
    BY <1>2 DEF initialize_testing, PlanOutcome
  <2>3. Plan!Start
    BY <2>1, <2>2 DEF Plan!Start
  <2> QED
    BY <2>3 DEF Plan!Next
<1>3. ASSUME NEW f \in Functions, NEW n, NEW c \in Counts, will_return(f, n, c)
      PROVE  Plan!Next
  <2>1. phase = "body" /\ phase' = "body" /\ Len(declared) < MaxValues
        /\ served' = Append(served, 0)
    BY <1>3 DEF will_return
  <2>2. PlanDeclared' = Append(PlanDeclared, [key |-> f, count |-> c])
    BY <1>3, PlanDeclares
  <2>3. PlanOutcome = "running" /\ PlanOutcome' = "running"
    BY <2>1 DEF PlanOutcome
  <2>4. Len(PlanDeclared) < MaxValues
    BY <2>1, PlanFacts
  <2>5. Plan!Declare(f, c)
    BY <2>1, <2>2, <2>3, <2>4 DEF Plan!Declare
  <2> QED
    BY <2>5 DEF Plan!Next
<1>4. ASSUME NEW f \in Functions, NEW n, mock(f, n) PROVE Plan!Next
  <2>1. phase = "body" /\ phase' = "body" /\ f \in DOMAIN results
        /\ declared' = declared
    BY <1>4 DEF mock
  <2>2. PICK v : v = results[f][1].value
    OBVIOUS
  <2>3. get_symbol_value(results, f).value = v
    BY <2>1, <2>2, FoundType
  <2>4. served[v] < MaxServed /\ served' = [served EXCEPT ![v] = @ + 1]
    BY <1>4, <2>3 DEF mock
  <2>5. v \in DOMAIN PlanDeclared
    <3>1. NodesInPlace /\ NoneLost
      BY <2>1 DEF HistoryInv
    <3> QED
      BY <2>1, <2>2, <3>1, HeadFacts, PlanFacts
  <2>6. Plan!IsNext(v, f)
    BY <2>1, <2>2, PlanNext
  <2>7. PlanOutcome = "running" /\ PlanOutcome' = "running"
    BY <2>1 DEF PlanOutcome
  <2>8. PlanDeclared' = PlanDeclared
    BY <1>1, <2>1
  <2>9. Plan!Use(f)
    BY <2>4, <2>5, <2>6, <2>7, <2>8 DEF Plan!Use
  <2> QED
    BY <2>9 DEF Plan!Next
<1>5. ASSUME NEW f \in Functions, mock_missing(f) PROVE Plan!Next
  <2>1. /\ phase = "body" /\ phase' = "unwound" /\ rc' = -1
        /\ report'.kind = "missing" /\ f \notin DOMAIN results
        /\ declared' = declared /\ served' = served
    BY <1>5 DEF mock_missing, exit_test
  <2>2. PlanOutcome = "running" /\ PlanOutcome' = "missing"
    BY <2>1 DEF PlanOutcome
  <2>3. \A v \in DOMAIN PlanDeclared : ~ Plan!IsNext(v, f)
    BY <2>1, PlanNext, PlanFacts
  <2>4. PlanDeclared' = PlanDeclared
    BY <1>1, <2>1
  <2>5. Plan!Miss(f)
    BY <2>1, <2>2, <2>3, <2>4 DEF Plan!Miss
  <2> QED
    BY <2>5 DEF Plan!Next
<1>6. ASSUME phase = "body", phase' = "unwound", rc' = -1,
             report'.kind # "missing", report'.kind # "leftover",
             declared' = declared, served' = served
      PROVE  Plan!Next
  <2>1. PlanOutcome = "running" /\ PlanOutcome' = "abandoned"
    BY <1>6 DEF PlanOutcome
  <2>2. PlanDeclared' = PlanDeclared
    BY <1>1, <1>6
  <2>3. Plan!Abandon
    BY <1>6, <2>1, <2>2 DEF Plan!Abandon
  <2> QED
    BY <2>3 DEF Plan!Next
<1>7. ASSUME NEW f, NEW n, mock_mismatch(f, n) PROVE Plan!Next
  <2>1. report'.kind = "mismatch"
    BY <1>7 DEF mock_mismatch
  <2> QED
    BY <1>6, <1>7, <2>1 DEF mock_mismatch, exit_test
<1>8. CASE will_return_zero \/ fail
  <2>1. phase = "body" /\ report' = report
    BY <1>8 DEF will_return_zero, fail
  <2>2. report'.kind = "none"
    BY <2>1 DEF HistoryInv
  <2> QED
    BY <1>6, <1>8, <2>2 DEF will_return_zero, fail, exit_test
<1>9. CASE fail_if_leftover_values
  <2>1. PICK m : m = remove_always_return_values(results)
    OBVIOUS
  <2>2. /\ phase = "body" /\ phase' = "unwound"
        /\ declared' = declared /\ served' = served
    BY <1>9 DEF fail_if_leftover_values, has_leftover_values
  <2>3. IF check_for_leftover_values(m)
        THEN rc' = -1 /\ report'.kind = "leftover" ELSE rc' = 0
    BY <1>9, <2>1 DEF fail_if_leftover_values, has_leftover_values
  <2>4. PlanOutcome = "running"
        /\ PlanOutcome' = IF DOMAIN m = {} THEN "passed" ELSE "owing"
    <3>1. CASE DOMAIN m = {}
      <4>1. ~ check_for_leftover_values(m)
        BY <2>1, <3>1, CleanedLists
      <4> QED
        BY <2>2, <2>3, <3>1, <4>1 DEF PlanOutcome
    <3>2. CASE DOMAIN m # {}
      <4>1. check_for_leftover_values(m)
        BY <2>1, <3>2, CleanedLists
      <4> QED
        BY <2>2, <2>3, <3>2, <4>1 DEF PlanOutcome
    <3> QED
      BY <3>1, <3>2
  <2>5. PlanDeclared' = PlanDeclared
    BY <1>1, <2>2
  <2>6. DOMAIN m = {} <=> Plan!OnlyOptional /\ Plan!OneLeft
    BY <1>1, <2>1, <2>2, PlanReturn DEF Plan!OnlyOptional, Plan!OneLeft
  <2>7. Plan!Return
    BY <2>1, <2>2, <2>4, <2>5, <2>6 DEF Plan!Return
  <2> QED
    BY <2>7 DEF Plan!Next
<1>10. CASE teardown_testing \/ UNCHANGED vars
  <2>1. /\ (phase # "body" /\ phase' # "body") \/ phase' = phase
        /\ rc' = rc /\ report' = report /\ declared' = declared /\ served' = served
    BY <1>10 DEF teardown_testing, vars
  <2>2. PlanOutcome' = PlanOutcome
    BY <2>1 DEF PlanOutcome
  <2> QED
    BY <1>1, <2>1, <2>2 DEF Plan!vars
<1> QED
  BY <1>2, <1>3, <1>4, <1>5, <1>7, <1>8, <1>9, <1>10 DEF Next

\* The map of lists with its refcounts implements one queue of declarations per
\* function, each served as often as its count says.
THEOREM MapImplementsPlan == Spec => ImplementsPlan
<1>1. Init => Plan!Init
  BY PlanInit
<1>2. (TypeInv /\ HistoryInv) /\ [Next]_vars => [Plan!Next]_(Plan!vars)
  BY PlanSteps
<1> QED
  BY <1>1, <1>2, HistoryInvariant, PTL DEF Spec, ImplementsPlan, Plan!Spec
=============================================================================
