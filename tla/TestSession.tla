----------------------------- MODULE TestSession -----------------------------
(***************************************************************************)
(* One group of tests with all its parts at work: the runner calls the     *)
(* functions of the group, which use mock values, call ordering and the    *)
(* checked heap; the runner starts the parts before every function, asks   *)
(* them whether something is left after it, and tells them when a function *)
(* was left by a jump.  TestRunner leaves it open whether a function       *)
(* leaves something behind; here that follows from what the function did.  *)
(* (Parameter checks go through the same calls as mock values; typed mocks *)
(* and expect_assert_failure() are left to MockValues and TestRunner.)     *)
(***************************************************************************)
EXTENDS Integers, Sequences, FiniteSets

CONSTANTS
    Functions, Counts,              \* of mock values and call ordering
    MaxValues, MaxServed,           \* bounds of MockValues
    MaxDeclared, MaxCalls,          \* bounds of CallOrdering
    Addresses, ListHead, Null,      \* of the heap
    MaxTests                        \* bound: tests of the group

ASSUME PartsAssumption ==
    /\ Counts \subseteq Int
    /\ {MaxValues, MaxServed, MaxDeclared, MaxCalls, MaxTests} \subseteq Nat
    /\ ListHead \notin Addresses /\ Null \notin Addresses \cup {ListHead}

VARIABLES
    results, lastLocation, values, served, live, phase, valueRc, valueReport,
    ordering, calls, called, outcome, callReport,
    blocks, corrupt, born, heapStage, running, tests, verdict, checkPoint,
    testCheckPoint, epoch, since,
    abortEnv, stage, at, rc, status, total, skipTest, stopTest, expecting, inExpect,
    handler, saved, groups, truth,
    excuses     \* history: why a block may be left that no check has found

Q == INSTANCE MockValues WITH Names <- {}, NoName <- "no_name", declared <- values,
                              rc <- valueRc, report <- valueReport
O == INSTANCE CallOrdering WITH declared <- calls, report <- callReport
H == INSTANCE TestHeap WITH stage <- heapStage
R == INSTANCE TestRunner WITH MaxGroups <- 1

valueVars  == <<results, lastLocation, values, served, live, phase, valueRc, valueReport>>
callVars   == <<ordering, calls, called, outcome, callReport>>
heapVars   == <<blocks, corrupt, born, heapStage, running, tests, verdict, checkPoint,
                testCheckPoint, epoch, since>>
runnerVars == <<abortEnv, stage, at, rc, status, total, skipTest, stopTest, expecting,
                inExpect, handler, saved, groups, truth>>
queues     == <<valueVars, callVars>>
vars       == <<queues, heapVars, runnerVars, excuses>>

Init == Q!Init /\ O!Init /\ H!Init /\ R!Init /\ excuses = {}

-----------------------------------------------------------------------------
(* A function of the group begins.                                         *)

\* cmocka_run_one_test_or_fixture: the runner calls the next function, and no
\* queue holds anything of the function before.
FunctionBegins(left) ==
    /\ Q!initialize_testing /\ O!initialize_testing
    /\ excuses' = left

\* What a setup function allocates is not checked before the teardown function of
\* its test; when the next test begins without one, nobody will.  The teardown
\* function of the group answers for everything.
Unanswered == IF "setup" \in excuses THEN (excuses \ {"setup"}) \cup {"no_teardown"} ELSE excuses

group_setup_begins ==
    /\ \E n \in 0 .. MaxTests : R!run_group_tests(n)
    /\ stage' = "group_setup"
    /\ H!begin_group_setup /\ FunctionBegins({"group_setup"})

setup_begins ==
    /\ R!run_one_tests /\ stage' = "setup"
    /\ H!begin_setup /\ FunctionBegins(Unanswered \cup {"setup"})

test_begins ==
    /\ \/ R!run_one_tests /\ FunctionBegins(Unanswered)
       \/ R!setup_passed /\ FunctionBegins(excuses)
    /\ stage' = "test"
    /\ H!begin_test

teardown_begins ==
    R!run_teardown /\ H!begin_teardown /\ FunctionBegins(excuses \ {"setup"})

group_teardown_begins ==
    R!run_group_teardown /\ H!begin_group_teardown /\ FunctionBegins({})

-----------------------------------------------------------------------------
(* The function runs.                                                      *)

\* The function itself runs, and not the checks that follow it.
InBody == at = "body" /\ phase = "body"

uses_mock_values ==
    /\ InBody
    /\ \E f \in Functions : Q!mock(f, "no_name") \/ \E c \in Counts : Q!will_return(f, "no_name", c)
    /\ UNCHANGED <<callVars, heapVars, runnerVars, excuses>>

makes_calls ==
    /\ InBody
    /\ \E f \in Functions : O!function_called(f) \/ \E c \in Counts : O!expect_function_call(f, c)
    /\ UNCHANGED <<valueVars, heapVars, runnerVars, excuses>>

uses_heap ==
    /\ InBody
    /\ \E a \in Addresses :
          H!test_malloc(a) \/ H!overrun(a) \/ H!test_free(a) \/ \E b \in Addresses : H!test_realloc(a, b)
    /\ UNCHANGED <<queues, runnerVars, excuses>>

\* exit_test inside of one part ends the function for all of them.
value_missing ==
    /\ InBody /\ R!fail
    /\ \E f \in Functions : Q!mock_missing(f)
    /\ O!fail /\ UNCHANGED <<heapVars, excuses>>

call_refused ==
    /\ InBody /\ R!fail
    /\ \E f \in Functions : O!function_called_out_of_order(f) \/ O!function_called_unexpected(f)
    /\ Q!fail /\ UNCHANGED <<heapVars, excuses>>

realloc_refused ==
    /\ InBody /\ R!fail
    /\ \E a, b \in Addresses : H!test_realloc_fails(a, b)
    /\ Q!fail /\ O!fail /\ UNCHANGED excuses

\* fail() or skip(), or an assertion of the test, also in test_free.
function_fails == InBody /\ (R!fail \/ R!skip) /\ Q!fail /\ O!fail /\ UNCHANGED <<heapVars, excuses>>

\* stop(): the parts are asked for leftovers behind the jump.
function_stops == InBody /\ R!stop /\ UNCHANGED <<queues, heapVars, excuses>>

-----------------------------------------------------------------------------
(* The function ends.                                                      *)

IsSetup == stage \in {"setup", "group_setup"}

\* The heap is compared with the check point first, except after a setup
\* function; a leak, or a fault, ends the function.
function_leaks ==
    /\ InBody /\ ~ IsSetup
    /\ H!function_returns /\ verdict' # "passed"
    /\ R!function_leaves_something
    /\ Q!fail /\ O!fail /\ UNCHANGED excuses

\* Plausible slip: the calls that are still due are forgotten.
LeftoverFound_ValuesOnly == valueRc' = -1

\* has_leftover_values: one of the queues has something left.
LeftoverFound == valueRc' = -1 \/ outcome' = "failed"

\* fail_if_leftover_values.  The runner goes on if there is none.
function_checked ==
    /\ InBody
    /\ IF IsSetup THEN UNCHANGED heapVars ELSE H!function_returns /\ verdict' = "passed"
    /\ Q!fail_if_leftover_values /\ O!fail_if_leftover_values
    /\ IF LeftoverFound THEN R!function_leaves_something ELSE UNCHANGED runnerVars
    /\ UNCHANGED excuses

\* A setup function that does not return 0 has failed for the heap too.
function_returns(code) ==
    /\ at = "body" /\ phase = "unwound"
    /\ R!function_returns(code) /\ Q!teardown_testing
    /\ IF ~ IsSetup THEN UNCHANGED heapVars
       ELSE IF code = 0 THEN H!function_returns ELSE H!function_jumps /\ verdict' = "failed"
    /\ UNCHANGED <<callVars, excuses>>

\* Behind the jump of stop().
stopped_function_checked ==
    /\ at = "jumped" /\ phase = "body"
    /\ Q!fail_if_leftover_values /\ O!fail_if_leftover_values
    /\ UNCHANGED <<heapVars, runnerVars, excuses>>

function_jumped ==
    /\ at = "jumped" /\ phase = "unwound"
    /\ R!function_jumped(stopTest = 1 /\ (valueRc = -1 \/ outcome = "failed"))
    /\ Q!teardown_testing
    /\ IF running THEN H!function_jumps /\ verdict' = IF rc' = 0 THEN "stopped" ELSE "failed"
       ELSE UNCHANGED heapVars
    /\ excuses' = excuses \cup {"jump"}
    /\ UNCHANGED callVars

-----------------------------------------------------------------------------
(* The runner between functions.                                           *)

group_without_setup ==
    /\ \E n \in 0 .. MaxTests : R!run_group_tests(n)
    /\ stage' # "group_setup"
    /\ UNCHANGED <<queues, heapVars, excuses>>

test_is_counted ==
    /\ R!setup_failed \/ R!test_ended \/ R!count_test \/ R!group_setup_failed
    /\ UNCHANGED <<queues, heapVars, excuses>>

\* The last comparison of the heap, with the check point of the group.
group_ends ==
    /\ R!finish_group(blocks # <<>>) /\ H!group_ends
    /\ UNCHANGED <<queues, excuses>>

session_over == stage \in R!Over /\ UNCHANGED vars

FunctionRuns == uses_mock_values \/ makes_calls \/ uses_heap

FunctionEnds ==
    \/ value_missing \/ call_refused \/ realloc_refused \/ function_fails \/ function_stops
    \/ function_leaks \/ function_checked \/ \E code \in {0, 1} : function_returns(code)

RunnerSteps ==
    \/ group_setup_begins \/ setup_begins \/ test_begins \/ teardown_begins
    \/ group_teardown_begins \/ stopped_function_checked \/ function_jumped
    \/ group_without_setup \/ test_is_counted \/ group_ends

Next == FunctionRuns \/ FunctionEnds \/ RunnerSteps \/ session_over

Spec == Init /\ [][Next]_vars

-----------------------------------------------------------------------------
(* The properties.                                                         *)

\* A test that is counted as passed has returned every value and received every
\* call that was due; if it ended by returning and did not free the block at its
\* check point, it has also left no block behind.
PassedIsClean ==
    (stage = "tested" /\ status = "PASSED") =>
        /\ \A v \in DOMAIN values : Q!Satisfied(v)
        /\ \A d \in DOMAIN calls : O!Plan!Optional(d) \/ ~ O!Plan!Open(d)
        /\ verdict = "passed" /\ ~ since.body.lost => H!Leaks = {}

\* The process is ended for blocks left at the end of a group only if some
\* function was left by a jump, or a setup function had no teardown function
\* after it, and no group teardown function cleared up: a group whose functions
\* return and clean up is never ended without its report.  (A test that frees
\* the block at its check point may hide a leak from its own check, but not from
\* that of its teardown function.)
ExitHasCause == stage = "exited" => excuses # {}
=============================================================================
