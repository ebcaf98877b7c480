----------------------------- MODULE CallOrdering -----------------------------
(***************************************************************************)
(* Call ordering as cmocka.c does it: one list of FuncOrderingValues whose *)
(* nodes carry a refcount; function_called() searches it from the head and *)
(* removes what has been called often enough.                              *)
(***************************************************************************)
EXTENDS SymbolMap

CONSTANTS
    Functions,      \* the mock functions that use function_called()
    Counts,         \* the counts tests declare
    MaxDeclared,    \* bound: declarations per test
    MaxCalls        \* bound: calls received by one declaration

ASSUME CountsAssumption == Counts \subseteq Int
ASSUME BoundsAssumption == MaxDeclared \in Nat /\ MaxCalls \in Nat

VARIABLES
    ordering,       \* global_call_ordering_head, the list
    declared,       \* the FuncOrderingValues of the test, oldest first
    called,         \* history: the calls each of them has received
    outcome,        \* "idle", "running", or how the last test ended
    report          \* history: the error message that ended the test

vars == <<ordering, declared, called, outcome, report>>

FuncOrderingValue == [function : Functions, count : Counts]

Report == [kind : {"none", "unexpected", "no_match", "out_of_order", "leftover"},
           value : Nat]

NoReport == [kind |-> "none", value |-> 0]

Init ==
    /\ ordering = <<>>
    /\ declared = <<>>
    /\ called = <<>>
    /\ outcome = "idle"
    /\ report = NoReport

-----------------------------------------------------------------------------
(* The actions.                                                            *)

\* The end of a test by whatever way: teardown_testing frees the whole list.
EndTest(o, r) ==
    /\ outcome' = o
    /\ report' = r
    /\ ordering' = <<>>
    /\ UNCHANGED <<declared, called>>

initialize_testing ==
    /\ outcome # "running"
    /\ outcome' = "running"
    /\ ordering' = <<>>
    /\ declared' = <<>>
    /\ called' = <<>>
    /\ report' = NoReport

expect_function_call(f, c) ==
    /\ outcome = "running"
    /\ c # 0
    /\ Len(declared) < MaxDeclared
    /\ declared' = Append(declared, [function |-> f, count |-> c])
    /\ called' = Append(called, 0)
    /\ ordering' = list_add_value(ordering, Len(declared) + 1, c)
    /\ UNCHANGED <<outcome, report>>

\* assert_true(count != 0) fails before anything is allocated.
expect_function_call_zero ==
    /\ outcome = "running"
    /\ 0 \in Counts
    /\ EndTest("failed", NoReport)

FunctionAt(i) == declared[ordering[i].value].function

\* Plausible slip: the search runs on past a node that is still owed calls.
StopsAt_OnlyFound(i, f) == FunctionAt(i) = f
\* Plausible slip: an ignored node holds up the search too.
StopsAt_First(i, f) == TRUE

\* The search of function_called ends at a node of f, or at one that must
\* still be called.
StopsAt(i, f) == FunctionAt(i) = f \/ ordering[i].refcount > -2

\* The node at which the search for f ends.
IsSearchResult(i, f) ==
    /\ i \in DOMAIN ordering
    /\ StopsAt(i, f)
    /\ \A j \in 1 .. i - 1 : ~ StopsAt(j, f)

RemoveNode(list, i) == SubSeq(list, 1, i - 1) \o SubSeq(list, i + 1, Len(list))

\* Plausible slip: a node is kept when its refcount reaches 0.
CountCall_Keeps(list, i) ==
    IF list[i].refcount > -2 THEN [list EXCEPT ![i].refcount = @ - 1] ELSE list

\* A call counts against a node unless any number of calls is accepted.
CountCall(list, i) ==
    IF list[i].refcount > -2
    THEN IF list[i].refcount - 1 = 0
         THEN RemoveNode(list, i)
         ELSE [list EXCEPT ![i].refcount = @ - 1]
    ELSE list

function_called(f) ==
    /\ outcome = "running"
    /\ \E i \in DOMAIN ordering :
          /\ IsSearchResult(i, f)
          /\ FunctionAt(i) = f
          /\ called[ordering[i].value] < MaxCalls
          /\ ordering' = CountCall(ordering, i)
          /\ called' = [called EXCEPT ![ordering[i].value] = @ + 1]
    /\ UNCHANGED <<declared, outcome, report>>

\* Another function must be called first.
function_called_out_of_order(f) ==
    /\ outcome = "running"
    /\ \E i \in DOMAIN ordering :
          /\ IsSearchResult(i, f)
          /\ FunctionAt(i) # f
          /\ EndTest("failed", [kind |-> "out_of_order", value |-> ordering[i].value])

\* The list is empty, or it holds ignored calls of other functions only.
function_called_unexpected(f) ==
    /\ outcome = "running"
    /\ ~ \E i \in DOMAIN ordering : IsSearchResult(i, f)
    /\ EndTest("failed", [kind |-> IF ordering = <<>> THEN "unexpected" ELSE "no_match",
                          value |-> 0])

\* Any other failed assertion or exception of the test.
fail ==
    /\ outcome = "running"
    /\ EndTest("failed", NoReport)

\* A node that remove_always_return_values_from_list does not remove.
Leftover(node) == ~ node.refcount < -1

\* The places of the nodes that are printed and counted.
check_for_leftover_values_list == {i \in DOMAIN ordering : Leftover(ordering[i])}

\* The test function returned or called stop().  The report is about one of the
\* leftovers.
fail_if_leftover_values ==
    /\ outcome = "running"
    /\ \/ check_for_leftover_values_list = {} /\ EndTest("passed", report)
       \/ \E i \in check_for_leftover_values_list :
             EndTest("failed", [kind |-> "leftover", value |-> ordering[i].value])

Next ==
    \/ initialize_testing
    \/ \E f \in Functions :
          \/ \E c \in Counts : expect_function_call(f, c)
          \/ function_called(f)
          \/ function_called_out_of_order(f)
          \/ function_called_unexpected(f)
    \/ expect_function_call_zero
    \/ fail
    \/ fail_if_leftover_values

Spec == Init /\ [][Next]_vars

-----------------------------------------------------------------------------
(* The properties.                                                         *)

\* The variables have their types, and no node of the list has refcount 0:
\* function_called() removes a node with the call that uses up its count.
TypeOK ==
    /\ ordering \in Seq(Node)
    /\ declared \in Seq(FuncOrderingValue)
    /\ called \in Seq(Nat)
    /\ Len(called) = Len(declared)
    /\ outcome \in {"idle", "running", "passed", "failed"}
    /\ report \in Report

\* The outcome as the plan sees it: why a failed test failed.
PlanOutcome ==
    IF outcome # "failed" THEN outcome
    ELSE IF report.kind = "none" THEN "abandoned"
    ELSE IF report.kind = "leftover" THEN "owing" ELSE "refused"

Plan == INSTANCE CallPlan WITH outcome <- PlanOutcome

\* The list implements the plan: every call is received by the declaration
\* that should receive it, function_called() fails a test only when no
\* declaration could receive the call, and a test that returns passes if and
\* only if nothing is owed.
ImplementsPlan == Plan!Spec

\* "Expected call to %s but received called()" and "Function was expected to be
\* called but was not" name a declaration that really is still owed a call.
BlamedIsOwed ==
    report.kind \in {"out_of_order", "leftover"} =>
        Plan!Open(report.value) /\ ~ Plan!Optional(report.value)
=============================================================================
