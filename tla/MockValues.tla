------------------------------ MODULE MockValues ------------------------------
(***************************************************************************)
(* The return values of mock functions: will_return() queues a value for a *)
(* function, mock() takes the next one, and the end of the test checks     *)
(* that nothing is left.  One process runs one test after another; the     *)
(* actions between initialize_testing and the end of a test are calls that *)
(* test code makes, in any order.                                          *)
(***************************************************************************)
EXTENDS SymbolMap

CONSTANTS
    Functions,      \* the mocked functions of the program under test
    Names,          \* type names given to will_return_*() and mock_*()
    NoName,         \* the NULL name: no type check
    Counts,         \* the counts that tests pass to will_return_*()
    MaxValues,      \* bound: will_return() calls per test
    MaxServed       \* bound: times one value is returned by mock()

ASSUME CountsAssumption == Counts \subseteq Int
ASSUME BoundsAssumption == MaxValues \in Nat /\ MaxServed \in Nat
ASSUME NoNameAssumption == NoName \notin Names

VARIABLES
    results,        \* global_function_result_map_head
    lastLocation,   \* global_last_mock_value_location; 0: not set
    declared,       \* the SymbolValues of the current test, oldest first
    served,         \* history: how often each of them was returned
    live,           \* those of them that are allocated
    phase,          \* where cmocka_run_one_test_or_fixture stands
    rc,             \* its return code: 0 passed, -1 failed
    report          \* history: the last error message that was printed

vars == <<results, lastLocation, declared, served, live, phase, rc, report>>

MaybeName == Names \cup {NoName}

SymbolValue == [function : Functions, name : MaybeName, count : Counts]

\* A declared value is known by its place in `declared', which also stands
\* for the source location of its will_return() call.
Values == DOMAIN declared

Report == [kind : {"none", "missing", "mismatch", "leftover"},
           function : Functions \cup {"none"}, value : Nat, note : Nat]

NoReport == [kind |-> "none", function |-> "none", value |-> 0, note |-> 0]

Init ==
    /\ results = EmptyMap
    /\ lastLocation = 0
    /\ declared = <<>>
    /\ served = <<>>
    /\ live = {}
    /\ phase = "idle"
    /\ rc = 0
    /\ report = NoReport

-----------------------------------------------------------------------------
(* The actions.                                                            *)

\* exit_test while a test runs: longjmp to the runner, which sets rc = -1.
exit_test ==
    /\ phase' = "unwound"
    /\ rc' = -1

initialize_testing ==
    /\ phase = "idle"
    /\ phase' = "body"
    /\ rc' = 0
    /\ results' = EmptyMap
    /\ lastLocation' = 0
    /\ declared' = <<>>
    /\ served' = <<>>
    /\ report' = NoReport
    /\ live' = {}

\* The SymbolValue that _will_return allocates next.
NewValue == Len(declared) + 1

will_return(f, n, c) ==
    /\ phase = "body"
    /\ c # 0
    /\ Len(declared) < MaxValues
    /\ live' = live \cup {NewValue}
    /\ declared' = Append(declared, [function |-> f, name |-> n, count |-> c])
    /\ served' = Append(served, 0)
    /\ results' = add_symbol_value(results, f, NewValue, c)
    /\ UNCHANGED <<lastLocation, phase, rc, report>>

\* assert_true(count != 0) fails after the value was allocated.
will_return_zero ==
    /\ phase = "body"
    /\ 0 \in Counts
    /\ live' = live \cup {NewValue}
    /\ exit_test
    /\ UNCHANGED <<results, lastLocation, declared, served, report>>

\* A name passed to mock() must be the name passed to will_return().
TypeMatches(n, v) == n = NoName \/ n = declared[v].name

\* Plausible slip: a value is freed although its node is still queued.
FreedByMock_Always(live0, v, oldCount) == live0 \ {v}
\* Plausible slip: the last use of a value does not free it.
FreedByMock_Never(live0, v, oldCount) == live0

\* A returned value is freed when its node has just been removed.
FreedByMock(live0, v, oldCount) == IF oldCount = 1 THEN live0 \ {v} ELSE live0

mock(f, n) ==
    LET got == get_symbol_value(results, f) IN
    /\ phase = "body"
    /\ f \in DOMAIN results
    /\ TypeMatches(n, got.value)
    /\ served[got.value] < MaxServed
    /\ results' = got.map
    /\ served' = [served EXCEPT ![got.value] = @ + 1]
    /\ lastLocation' = got.value
    /\ live' = FreedByMock(live, got.value, got.rc)
    /\ UNCHANGED <<declared, phase, rc, report>>

\* The name differs: the value is freed, whatever its refcount was.
mock_mismatch(f, n) ==
    LET got == get_symbol_value(results, f) IN
    /\ phase = "body"
    /\ f \in DOMAIN results
    /\ ~ TypeMatches(n, got.value)
    /\ results' = got.map
    /\ live' = live \ {got.value}
    /\ report' = [kind |-> "mismatch", function |-> f,
                  value |-> got.value, note |-> lastLocation]
    /\ exit_test
    /\ UNCHANGED <<lastLocation, declared, served>>

mock_missing(f) ==
    /\ phase = "body"
    /\ f \notin DOMAIN results
    /\ report' = [kind |-> "missing", function |-> f,
                  value |-> 0, note |-> lastLocation]
    /\ exit_test
    /\ UNCHANGED <<results, lastLocation, declared, served, live>>

\* Any other failed assertion or exception of the test.
fail ==
    /\ phase = "body"
    /\ exit_test
    /\ UNCHANGED <<results, lastLocation, declared, served, live, report>>

\* The values queued in a map.
Queued(m) == UNION {{m[f][i].value : i \in DOMAIN m[f]} : f \in DOMAIN m}

\* has_leftover_values, for a test function that returned or called stop().
\* The report names one of the values that are left; the location printed with
\* it is read from the start of the value, where a SymbolValue has none.
has_leftover_values(cleaned) ==
    /\ phase = "body"
    /\ phase' = "unwound"
    /\ results' = cleaned
    /\ live' = live \ (Queued(results) \ Queued(cleaned))
    /\ IF check_for_leftover_values(cleaned)
       THEN /\ rc' = -1
            /\ \E f \in DOMAIN cleaned :
                  report' = [kind |-> "leftover", function |-> f,
                             value |-> Head(cleaned[f]).value,
                             note |-> 0]
       ELSE rc' = 0 /\ UNCHANGED report
    /\ UNCHANGED <<lastLocation, declared, served>>

fail_if_leftover_values == has_leftover_values(remove_always_return_values(results))

\* Freeing a value that is no longer allocated is undefined behaviour: the
\* allocator may abort the process, or nothing may be seen of it.
teardown_testing ==
    /\ phase = "unwound"
    /\ \/ phase' = "idle"
       \/ ~ (Queued(results) \subseteq live) /\ phase' = "crashed"
    /\ live' = live \ Queued(results)
    /\ results' = EmptyMap
    /\ lastLocation' = 0
    /\ UNCHANGED <<declared, served, rc, report>>

Next ==
    \/ initialize_testing
    \/ \E f \in Functions, n \in MaybeName :
          \/ \E c \in Counts : will_return(f, n, c)
          \/ mock(f, n)
          \/ mock_mismatch(f, n)
    \/ will_return_zero
    \/ \E f \in Functions : mock_missing(f)
    \/ fail
    \/ fail_if_leftover_values
    \/ teardown_testing

Spec == Init /\ [][Next]_vars

-----------------------------------------------------------------------------
(* The properties.                                                         *)

\* What a value still owes: it was returned as often as its count demands.
Exhausted(v) == declared[v].count > 0 /\ served[v] = declared[v].count
Satisfied(v) == /\ declared[v].count > 0 => served[v] = declared[v].count
                /\ declared[v].count = -1 => served[v] > 0

\* The variables have their types, and no queued node has refcount 0: a node
\* whose count has run out is removed in the same step (get_symbol_value).
TypeOK ==
    /\ IsMap(results, Functions, Seq(Node))
    /\ lastLocation \in Nat
    /\ declared \in Seq(SymbolValue)
    /\ served \in Seq(Nat)
    /\ Len(served) = Len(declared)
    /\ live \subseteq Nat \ {0}
    /\ phase \in {"idle", "body", "unwound", "crashed"}
    /\ rc \in {0, -1}
    /\ report \in Report

\* get_symbol_value asserts that the list of a symbol it finds is not empty:
\* whichever way lists run empty, the SymbolMapValue goes with the last node.
NoEmptySymbol == \A f \in DOMAIN results : results[f] # <<>>

\* The values of one function are returned first in, first out: nothing is
\* returned before every earlier value was returned its full count.
ServedInOrder ==
    \A v, w \in Values :
        (v < w /\ declared[v].function = declared[w].function /\ served[w] > 0)
            => Exhausted(v)

\* "Could not get value to mock function" is printed only when every value
\* declared for the function has been returned its full count: no value is
\* lost, and an always or maybe value never runs out.
MissingMeansExhausted ==
    report.kind = "missing" =>
        \A v \in Values :
            declared[v].function = report.function => Exhausted(v)

\* A test that passes has returned every value exactly as often as its count
\* says, and every will_return_always() value at least once.
PassedMeansServed ==
    (phase \in {"unwound", "idle"} /\ rc = 0) => \A v \in Values : Satisfied(v)

\* The end of the test as the plan sees it.
PlanOutcome ==
    IF phase = "body" THEN "running"
    ELSE IF rc = 0 THEN "passed"
    ELSE IF report.kind = "missing" THEN "missing"
    ELSE IF report.kind = "leftover" THEN "owing" ELSE "abandoned"

\* The declarations as the plan sees them: queued for a function.
PlanDeclared == [v \in Values |-> [key |-> declared[v].function,
                                   count |-> declared[v].count]]

Plan == INSTANCE ValuePlan WITH
    Keys <- Functions,
    MaxDeclared <- MaxValues,
    declared <- PlanDeclared,
    outcome <- PlanOutcome

\* The map of lists implements one queue per function: will_return(), mock()
\* and the leftover check do what the plan says of declarations and counts,
\* which is nothing about values that are left behind one that never runs out.
ImplementsPlan == Plan!Spec

\* "Has remaining non-returned values" is printed for a value that is really
\* owed, as long as no value is queued behind one that never runs out.
LeftoverMeansOwed ==
    (/\ report.kind = "leftover"
     /\ \A v, w \in Values :
           (v < w /\ declared[v].function = declared[w].function)
               => declared[v].count > 0)
    => ~ Satisfied(report.value)

\* What the refcount of a value must be, from its count and its history.
Owed(v) == IF declared[v].count > 0 THEN declared[v].count - served[v]
           ELSE IF declared[v].count = -1 /\ served[v] > 0 THEN WILL_RETURN_ONCE
           ELSE declared[v].count

\* The node at place i of the list of f is in its place: it holds a value that
\* was declared for f, later than those before it; its refcount says what the
\* value still owes; and only the first node can have been used.
NodeInPlace(f, i) ==
    LET node == results[f][i] IN
    /\ node.value \in Values
    /\ declared[node.value].function = f
    /\ node.refcount = Owed(node.value)
    /\ i > 1 => served[node.value] = 0
    /\ \A j \in 1 .. i - 1 : results[f][j].value < node.value

IsQueued(v) ==
    \E f \in DOMAIN results : \E i \in DOMAIN results[f] : results[f][i].value = v

\* While the test body runs, the lists and their refcounts agree with what was
\* declared and returned so far: every node is in its place, and every value
\* that is not exhausted is queued.
QueuesMatchHistory ==
    phase = "body" =>
        /\ \A f \in DOMAIN results : \A i \in DOMAIN results[f] : NodeInPlace(f, i)
        /\ \A v \in Values : Exhausted(v) \/ IsQueued(v)

\* While the test body runs, the allocated values are exactly the queued ones:
\* mock() neither leaks a value nor leaves a freed one in a list.
LiveIsQueued == phase = "body" => live = Queued(results)

\* After teardown_testing every value that reached a list has been freed.
NoLeak == phase = "idle" => live \cap Values = {}

\* Freeing a value twice takes a type mismatch: no other sequence of calls
\* makes teardown_testing free what is already free.
CrashMeansMismatch == phase = "crashed" => report.kind = "mismatch"

\* Each value has one owner from its declaration to the end of its test: the
\* list, the caller that took its last use, or teardown_testing, which frees
\* what is left once.  Only a type mismatch breaks this.
ValuesOwned == LiveIsQueued /\ NoLeak /\ CrashMeansMismatch

\* A return code of get_symbol_value other than 1 means that the node is still
\* in the list, so its value must stay allocated until teardown_testing.
\* Violated: a type mismatch frees the value whatever the return code was.
QueuedValuesAreLive == phase = "unwound" => Queued(results) \subseteq live
=============================================================================
