--------------------------- MODULE ParameterChecks ---------------------------
(***************************************************************************)
(* Parameter expectations of mock functions: the expect_*() functions      *)
(* queue a CheckParameterEvent for a parameter of a function,              *)
(* check_expected() takes the next one and applies it to the value the     *)
(* mock was called with.  The map has two levels, function and parameter.  *)
(***************************************************************************)
EXTENDS SymbolMap

CONSTANTS
    Functions,      \* the mocked functions of the program under test
    Parameters,     \* their parameters
    Values,         \* the values mocks are called with
    Checks,         \* the checks: a check is the set of values it accepts
    Counts,         \* the counts that tests pass to expect_*_count()
    MaxEvents,      \* bound: expect_*() calls per test
    MaxChecked      \* bound: check_expected() calls that take one event

ASSUME ChecksAssumption == Checks \subseteq SUBSET Values
ASSUME CountsAssumption == Counts \subseteq Int
ASSUME BoundsAssumption == MaxEvents \in Nat /\ MaxChecked \in Nat

VARIABLES
    expected,       \* global_function_parameter_map_head
    lastLocation,   \* global_last_parameter_location; 0: not set
    declared,       \* the CheckParameterEvents of the test, oldest first
    checked,        \* history: how often each of them was taken
    live,           \* those of them that are allocated
    phase,          \* where cmocka_run_one_test_or_fixture stands
    rc,             \* its return code: 0 passed, -1 failed
    report          \* history: the error message that ended the test

vars == <<expected, lastLocation, declared, checked, live, phase, rc, report>>

CheckParameterEvent == [function : Functions, parameter : Parameters,
                        accepts : Checks, count : Counts]

Report == [kind : {"none", "missing", "rejected", "raised", "leftover"}, note : Nat]

NoReport == [kind |-> "none", note |-> 0]

Init ==
    /\ expected = EmptyMap
    /\ lastLocation = 0
    /\ declared = <<>>
    /\ checked = <<>>
    /\ live = {}
    /\ phase = "idle"
    /\ rc = 0
    /\ report = NoReport

-----------------------------------------------------------------------------
(* The actions.                                                            *)

\* exit_test while a test runs: longjmp to the runner, which sets rc = -1.
exit_test(kind, note) ==
    /\ phase' = "unwound"
    /\ rc' = -1
    /\ report' = [kind |-> kind, note |-> note]

initialize_testing ==
    /\ phase = "idle"
    /\ phase' = "body"
    /\ rc' = 0
    /\ report' = NoReport
    /\ expected' = EmptyMap
    /\ lastLocation' = 0
    /\ declared' = <<>>
    /\ checked' = <<>>
    /\ live' = {}

\* Unlike _will_return, _expect_check accepts a count of 0.
expect_check(f, p, a, c) ==
    /\ phase = "body"
    /\ Len(declared) < MaxEvents
    /\ declared' = Append(declared, [function |-> f, parameter |-> p,
                                     accepts |-> a, count |-> c])
    /\ checked' = Append(checked, 0)
    /\ live' = live \cup {Len(declared) + 1}
    /\ expected' = add_symbol_value2(expected, f, p, Len(declared) + 1, c)
    /\ UNCHANGED <<lastLocation, phase, rc, report>>

HasEntry(f, p) == f \in DOMAIN expected /\ p \in DOMAIN expected[f]

\* Plausible slip: an event is freed although its node is still queued.
FreedByCheck_Always(live0, v, oldCount) == live0 \ {v}
\* Plausible slip: the last use of an event does not free it.
FreedByCheck_Never(live0, v, oldCount) == live0

FreedByCheck(live0, v, oldCount) == IF oldCount = 1 THEN live0 \ {v} ELSE live0

\* The part of _check_expected up to the call of the check function.
TakeEvent(got) ==
    /\ got.rc # 0
    /\ checked[got.value] < MaxChecked
    /\ expected' = got.map
    /\ lastLocation' = got.value
    /\ checked' = [checked EXCEPT ![got.value] = @ + 1]
    /\ UNCHANGED declared

check_expected(f, p, x) ==
    /\ phase = "body"
    /\ HasEntry(f, p)
    /\ LET got == get_symbol_value2(expected, f, p) IN
          /\ TakeEvent(got)
          /\ live' = FreedByCheck(live, got.value, got.rc)
          /\ IF x \in declared[got.value].accepts
             THEN UNCHANGED <<phase, rc, report>>
             ELSE exit_test("rejected", got.value)

\* A check function of the test leaves by a failed assertion of its own: the
\* event it was given is not freed, even if its node is gone.
check_expected_raises(f, p) ==
    /\ phase = "body"
    /\ HasEntry(f, p)
    /\ LET got == get_symbol_value2(expected, f, p) IN
          /\ TakeEvent(got)
          /\ exit_test("raised", got.value)
          /\ UNCHANGED live

\* An old refcount of 0 looks to the caller as if no entry had been found.
check_expected_zero(f, p) ==
    /\ phase = "body"
    /\ HasEntry(f, p)
    /\ LET got == get_symbol_value2(expected, f, p) IN
          /\ got.rc = 0
          /\ expected' = got.map
          /\ exit_test("missing", lastLocation)
    /\ UNCHANGED <<lastLocation, declared, checked, live>>

check_expected_missing(f, p) ==
    /\ phase = "body"
    /\ ~ HasEntry(f, p)
    /\ exit_test("missing", lastLocation)
    /\ UNCHANGED <<expected, lastLocation, declared, checked, live>>

\* Any other failed assertion or exception of the test.
fail ==
    /\ phase = "body"
    /\ exit_test("none", 0)
    /\ UNCHANGED <<expected, lastLocation, declared, checked, live>>

\* The events queued in a map.
Queued(m) == UNION {UNION {{m[f][p][i].value : i \in DOMAIN m[f][p]} :
                              p \in DOMAIN m[f]} : f \in DOMAIN m}

\* has_leftover_values, for a test function that returned or called stop().
fail_if_leftover_values ==
    LET cleaned == remove_always_return_values2(expected) IN
    /\ phase = "body"
    /\ expected' = cleaned
    /\ live' = live \ (Queued(expected) \ Queued(cleaned))
    /\ IF check_for_leftover_values2(cleaned)
       THEN exit_test("leftover", 0)
       ELSE phase' = "unwound" /\ rc' = 0 /\ UNCHANGED report
    /\ UNCHANGED <<lastLocation, declared, checked>>

\* teardown_testing frees two levels of maps and the events they lead to.
teardown_testing ==
    /\ phase = "unwound"
    /\ phase' = "idle"
    /\ live' = live \ Queued(expected)
    /\ expected' = EmptyMap
    /\ lastLocation' = 0
    /\ UNCHANGED <<declared, checked, rc, report>>

Next ==
    \/ initialize_testing
    \/ \E f \in Functions, p \in Parameters :
          \/ \E a \in Checks, c \in Counts : expect_check(f, p, a, c)
          \/ \E x \in Values : check_expected(f, p, x)
          \/ check_expected_raises(f, p)
          \/ check_expected_zero(f, p)
          \/ check_expected_missing(f, p)
    \/ fail
    \/ fail_if_leftover_values
    \/ teardown_testing

Spec == Init /\ [][Next]_vars

-----------------------------------------------------------------------------
(* The properties.                                                         *)

\* The refcounts a node may have: -2 is where counting down ends.
Refcounts == {r \in Int : \E c \in Counts : r = c \/ (-2 <= r /\ r < c)}

\* The inner get_symbol_value asserts that the list it finds is not empty, and
\* a function without a parameter left must be gone from the outer map, or
\* check_for_leftover_values would report it: both levels shrink together.
NoEmptySymbol ==
    \A f \in DOMAIN expected :
        /\ expected[f] # EmptyMap
        /\ \A p \in DOMAIN expected[f] : expected[f][p] # <<>>

\* The variables have their types; no symbol is empty on either level, an event
\* that is used for ever does not let its refcount underflow, and the location
\* that notes point to is always that of an event of the current test.
TypeOK ==
    /\ DOMAIN expected \subseteq Functions
    /\ \A f \in DOMAIN expected : IsMap(expected[f], Parameters, Seq(NodeOf(Refcounts)))
    /\ NoEmptySymbol
    /\ lastLocation \in 0 .. Len(declared)
    /\ declared \in Seq(CheckParameterEvent)
    /\ checked \in Seq(Nat)
    /\ Len(checked) = Len(declared)
    /\ live \subseteq Nat \ {0}
    /\ phase \in {"idle", "body", "unwound"}
    /\ rc \in {0, -1}
    /\ report \in Report

\* The end of the test as the plan sees it.
PlanOutcome ==
    IF phase = "body" THEN "running"
    ELSE IF rc = 0 THEN "passed"
    ELSE IF report.kind = "missing" THEN "missing"
    ELSE IF report.kind = "leftover" THEN "owing" ELSE "abandoned"

\* The events as the plan sees them: queued for a parameter of a function.
PlanDeclared == [v \in DOMAIN declared |->
                    [key |-> <<declared[v].function, declared[v].parameter>>,
                     count |-> declared[v].count]]

Plan == INSTANCE ValuePlan WITH
    Keys <- Functions \X Parameters,
    MaxDeclared <- MaxEvents,
    MaxServed <- MaxChecked,
    declared <- PlanDeclared,
    served <- checked,
    outcome <- PlanOutcome

\* The two-level map implements one queue per function and parameter: every
\* check takes the event that is due, "Could not get value to check parameter"
\* appears only when none is due, and a test that returns is failed if a check is
\* owed, and passes if nothing is left but one optional event for a parameter.
ImplementsPlan == Plan!Spec

\* While the test body runs, the allocated events are exactly the queued ones:
\* check_expected() neither leaks an event nor leaves a freed one in a list.
LiveIsQueued == phase = "body" => live = Queued(expected)

\* Every free of remove_always_return_values and teardown_testing meets an
\* event that is still allocated.
NoDoubleFree == phase = "unwound" => Queued(expected) \subseteq live

\* After teardown_testing every event has been freed, unless a check function
\* left the test through a failed assertion.
NoLeak == (phase = "idle" /\ report.kind # "raised") => live = {}

\* Each event has one owner from its declaration to the end of its test: the
\* list, the call of check_expected() that took its last use, or
\* teardown_testing.
EventsOwned == LiveIsQueued /\ NoDoubleFree /\ NoLeak
=============================================================================
