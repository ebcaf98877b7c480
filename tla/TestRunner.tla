------------------------------ MODULE TestRunner ------------------------------
(***************************************************************************)
(* The test runner: groups of tests with their fixtures, the ways in which *)
(* a function of the test program ends, and the global flags that carry    *)
(* the reason across longjmp().  A function returns, fails, skips, stops   *)
(* or is ended by a signal; what it leaves behind in the queues and on the *)
(* heap is a choice here and modelled in the other modules.                *)
(***************************************************************************)
EXTENDS Integers

CONSTANTS
    MaxTests,       \* bound: selected tests of a group
    MaxGroups       \* bound: groups run by one process

ASSUME BoundsAssumption == MaxTests \in Nat /\ MaxGroups \in Nat

VARIABLES
    abortEnv,       \* CMOCKA_TEST_ABORT is '1'
    stage,          \* the function that runs or has run last, or the state
                    \* of the group: "idle", "tested", "counted", "no_tests",
                    \* "returned", "exited", "aborted", "undefined"
    at,             \* "runner", "body" of the function, "jumped" out of it, or
                    \* "gone" with the process
    rc,             \* return code of cmocka_run_one_test_or_fixture
    status,         \* CMUnitTestStatus of the current test
    total,          \* counters of _cmocka_run_group_tests
    skipTest,       \* global_skip_test
    stopTest,       \* global_stop_test
    expecting,      \* global_expecting_assert
    inExpect,       \* the function called by expect_assert_failure() runs
    handler,        \* the installed signal handlers ...
    saved,          \* ... and default_signal_functions
    groups,         \* the number of groups started
    truth           \* history: what really happened

flagVars   == <<skipTest, stopTest, expecting, inExpect>>
signalVars == <<handler, saved>>
vars == <<abortEnv, stage, at, rc, status, total, flagVars, signalVars, groups, truth>>

Bodies == {"group_setup", "setup", "test", "teardown", "group_teardown"}
Over   == {"returned", "exited", "aborted", "undefined"}

NoTotals == [tests |-> 0, executed |-> 0, passed |-> 0, failed |-> 0,
             errors |-> 0, skipped |-> 0]

\* How the current test function ended, the tests that failed or could not be
\* run, how the function that ended last was left, and what went wrong outside
\* of the tests: a fixture called skip(), a group fixture failed, or the function
\* called by expect_assert_failure() was left by a jump out of the whole test.
NoTruth == [test |-> "none", bad |-> 0, left |-> "none",
            fixtureSkipped |-> FALSE, setupFailed |-> 0,
            escaped |-> FALSE]

Init ==
    /\ abortEnv \in BOOLEAN
    /\ stage = "idle"
    /\ at = "runner"
    /\ rc = 0
    /\ status = "NOT_STARTED"
    /\ total = NoTotals
    /\ skipTest = 0 /\ stopTest = 0 /\ expecting = 0 /\ inExpect = FALSE
    /\ handler = "default" /\ saved = "default"
    /\ groups = 0
    /\ truth = NoTruth

-----------------------------------------------------------------------------
(* cmocka_run_one_test_or_fixture.                                         *)

\* Install the handlers, initialize_testing, setjmp, call the function.
RunFunction(f) ==
    /\ stage' = f
    /\ at' = "body"
    /\ saved' = handler
    /\ handler' = "cmocka"

\* Plausible slip: the handlers stay installed after a failure.
RestoredHandler_NotAfterJump == IF at = "jumped" THEN handler ELSE saved

RestoredHandler == saved

\* teardown_testing, restore the handlers, return.
FunctionDone(code) ==
    /\ at' = "runner"
    /\ rc' = code
    /\ handler' = RestoredHandler

\* History: the function was left in this way.
Left(how) ==
    [truth EXCEPT !.left = how,
                  !.test = IF stage = "test" THEN how ELSE @,
                  !.fixtureSkipped = @ \/ (how = "skipped" /\ stage # "test")]

\* exit_test while a function runs.  The flag skip() sets prevents the abort.
exit_test(how) ==
    /\ IF skipTest' = 0 /\ abortEnv
       THEN stage' = "aborted" /\ at' = "gone"
       ELSE at' = "jumped" /\ UNCHANGED stage
    /\ inExpect' = FALSE
    /\ truth' = [Left(how) EXCEPT !.escaped = @ \/ (inExpect /\ expecting' = 1)]
    /\ UNCHANGED <<abortEnv, rc, status, total, signalVars, groups>>

\* The function returns and nothing is left over.  Test functions return void.
function_returns(code) ==
    /\ at = "body" /\ ~ inExpect
    /\ stage = "test" => code = 0
    /\ FunctionDone(code)
    /\ truth' = Left(IF code = 0 THEN "passed" ELSE "failed")
    /\ UNCHANGED <<abortEnv, stage, status, total, flagVars, saved, groups>>

\* The function returns, but fail_if_blocks_allocated or
\* fail_if_leftover_values finds something.
function_leaves_something ==
    /\ at = "body" /\ ~ inExpect
    /\ UNCHANGED <<skipTest, stopTest, expecting>>
    /\ exit_test("failed")

\* A failed assertion, in the function or in what it calls.
fail ==
    /\ at = "body"
    /\ UNCHANGED <<skipTest, stopTest, expecting>>
    /\ exit_test("failed")

\* One of the exception_signals.
exception_handler ==
    /\ at = "body"
    /\ handler = "cmocka"
    /\ UNCHANGED <<skipTest, stopTest, expecting>>
    /\ exit_test("failed")

skip ==
    /\ at = "body"
    /\ skipTest' = 1
    /\ UNCHANGED <<stopTest, expecting>>
    /\ exit_test("skipped")

stop ==
    /\ at = "body"
    /\ stopTest' = 1
    /\ UNCHANGED <<skipTest, expecting>>
    /\ exit_test("stopped")

\* Plausible slip: the stop flag survives the function.
ClearedStop_Never == stopTest

ClearedStop == 0

\* The branch that longjmp leads to: a stopped function passes if it left no
\* values over, any other one has failed.
function_jumped(leftover) ==
    /\ at = "jumped"
    /\ FunctionDone(IF stopTest = 1 /\ ~ leftover THEN 0 ELSE -1)
    /\ stopTest' = ClearedStop
    /\ truth' = IF truth.left = "stopped"
                THEN Left(IF leftover THEN "failed" ELSE "passed") ELSE truth
    /\ UNCHANGED <<abortEnv, stage, status, total, skipTest, expecting, inExpect,
                   saved, groups>>

-----------------------------------------------------------------------------
(* expect_assert_failure() and mock_assert().                              *)

expect_assert_failure ==
    /\ at = "body" /\ ~ inExpect
    /\ expecting' = 1
    /\ inExpect' = TRUE
    /\ UNCHANGED <<abortEnv, stage, at, rc, status, total, skipTest, stopTest,
                   signalVars, groups, truth>>

\* The function called returned: "Expected assert in %s", then _fail.
expected_assert_missing ==
    /\ at = "body" /\ inExpect
    /\ expecting' = 0
    /\ UNCHANGED <<skipTest, stopTest>>
    /\ exit_test("failed")

\* Plausible slip: the flag is left set after the expected assertion.
AfterAssert_Kept == expecting

\* expect_assert_failure() takes back its flag.
AfterAssert == 0

\* An assertion of the code under test fails while one is expected: back into
\* expect_assert_failure(), unless that has been left already, when the jump
\* leads to a frame that is gone.  (Otherwise mock_assert is a fail.)
mock_assert ==
    /\ at = "body"
    /\ expecting = 1
    /\ IF inExpect
       THEN expecting' = AfterAssert /\ inExpect' = FALSE /\ UNCHANGED <<stage, at>>
       ELSE stage' = "undefined" /\ at' = "gone" /\ UNCHANGED <<expecting, inExpect>>
    /\ UNCHANGED <<abortEnv, rc, status, total, skipTest, stopTest, signalVars,
                   groups, truth>>

-----------------------------------------------------------------------------
(* cmocka_run_one_tests.                                                   *)

runnerVars == <<abortEnv, flagVars, groups>>

RunTest ==
    /\ RunFunction("test")
    /\ UNCHANGED <<runnerVars, rc, status, total, truth>>

\* The next test of the group, from its setup function if it has one.
run_one_tests ==
    /\ \/ stage = "counted"
       \/ stage = "group_setup" /\ at = "runner" /\ rc = 0
    /\ total.executed < total.tests
    /\ status' = "NOT_STARTED"
    /\ truth' = [truth EXCEPT !.test = "none"]
    /\ rc' = 0
    /\ \/ RunFunction("setup")
       \/ RunFunction("test")
    /\ UNCHANGED <<runnerVars, total>>

setup_passed ==
    /\ stage = "setup" /\ at = "runner" /\ rc = 0
    /\ RunTest

setup_failed ==
    /\ stage = "setup" /\ at = "runner" /\ rc # 0
    /\ stage' = "tested"
    /\ status' = "ERROR"
    /\ truth' = [truth EXCEPT !.test = "error"]
    /\ UNCHANGED <<runnerVars, at, rc, total, signalVars>>

\* Plausible slip: the skip flag is not taken back.
TestStatus_IgnoresSkip(code, skipped) == IF code = 0 THEN "PASSED" ELSE "FAILED"

TestStatus(code, skipped) ==
    IF code = 0 THEN "PASSED" ELSE IF skipped = 1 THEN "SKIPPED" ELSE "FAILED"

test_ended ==
    /\ stage = "test" /\ at = "runner"
    /\ stage' = "tested"
    /\ status' = TestStatus(rc, skipTest)
    /\ skipTest' = IF rc # 0 THEN 0 ELSE skipTest
    /\ rc' = 0
    /\ UNCHANGED <<abortEnv, at, total, stopTest, expecting, inExpect, signalVars,
                   groups, truth>>

run_teardown ==
    /\ stage = "tested" /\ rc = 0
    /\ RunFunction("teardown")
    /\ UNCHANGED <<runnerVars, rc, status, total, truth>>

\* Plausible slip: a test is filed under its status alone.
Tally_StatusOnly(t, code, st) ==
    [t EXCEPT !.executed = @ + 1,
              !.passed  = IF st = "PASSED" THEN @ + 1 ELSE @,
              !.skipped = IF st = "SKIPPED" THEN @ + 1 ELSE @,
              !.failed  = IF st = "FAILED" THEN @ + 1 ELSE @]

\* Plausible slip: the loop over the tests makes no progress.
Tally_Nothing(t, code, st) == t

\* The counters after a test with return code `code' and status st.
Tally(t, code, st) ==
    [t EXCEPT !.executed = @ + 1,
              !.passed  = IF code = 0 /\ st = "PASSED" THEN @ + 1 ELSE @,
              !.skipped = IF code = 0 /\ st = "SKIPPED" THEN @ + 1 ELSE @,
              !.failed  = IF code = 0 /\ st = "FAILED" THEN @ + 1 ELSE @,
              !.errors  = IF code # 0 THEN @ + 1 ELSE @]

\* The test has no teardown function, or it is over: the result is counted.
count_test ==
    /\ stage \in {"tested", "teardown"} /\ at = "runner"
    /\ stage' = "counted"
    /\ status' = IF stage = "teardown" /\ rc # 0 THEN "ERROR" ELSE status
    /\ total' = Tally(total, rc, status')
    /\ truth' = [truth EXCEPT
                    !.bad = IF rc # 0 \/ truth.test = "failed" THEN @ + 1 ELSE @]
    /\ UNCHANGED <<runnerVars, at, rc, signalVars>>

-----------------------------------------------------------------------------
(* _cmocka_run_group_tests.                                                *)

\* The tests that the filters select, then the group setup function if any.
run_group_tests(n) ==
    /\ stage \in {"idle", "returned"}
    /\ groups < MaxGroups
    /\ groups' = groups + 1
    /\ total' = [NoTotals EXCEPT !.tests = n]
    /\ truth' = [NoTruth EXCEPT !.fixtureSkipped = (skipTest = 1),
                                !.escaped = truth.escaped]
    /\ rc' = 0
    /\ status' = "NOT_STARTED"
    /\ \/ RunFunction("group_setup")
       \/ stage' = "counted" /\ UNCHANGED <<at, signalVars>>
    /\ UNCHANGED <<abortEnv, flagVars>>

group_setup_failed ==
    /\ stage = "group_setup" /\ at = "runner" /\ rc # 0
    /\ stage' = "no_tests"
    /\ total' = [total EXCEPT !.errors = @ + 1]
    /\ truth' = [truth EXCEPT !.bad = @ + 1, !.setupFailed = 1]
    /\ UNCHANGED <<runnerVars, at, rc, status, signalVars>>

TestsDone ==
    \/ stage = "no_tests"
    \/ /\ total.executed = total.tests
       /\ \/ stage = "counted"
          \/ stage = "group_setup" /\ at = "runner" /\ rc = 0

run_group_teardown ==
    /\ TestsDone
    /\ RunFunction("group_teardown")
    /\ UNCHANGED <<runnerVars, rc, status, total, truth>>

\* The report is printed; with blocks left on the heap, exit_test then leaves
\* the process, because no test is running.
finish_group(leak) ==
    /\ TestsDone \/ (stage = "group_teardown" /\ at = "runner")
    /\ stage' = IF ~ leak THEN "returned"
                ELSE IF skipTest = 0 /\ abortEnv THEN "aborted" ELSE "exited"
    /\ UNCHANGED <<runnerVars, at, rc, status, total, signalVars, truth>>

\* The return value of the group.
Returned == total.failed + total.errors

-----------------------------------------------------------------------------
EndOfFunction ==
    \/ \E code \in {0, 1} : function_returns(code)
    \/ function_leaves_something \/ fail \/ exception_handler \/ skip \/ stop
    \/ expected_assert_missing

Runner ==
    \/ \E leftover \in BOOLEAN : function_jumped(leftover)
    \/ run_one_tests \/ setup_passed \/ setup_failed \/ test_ended
    \/ run_teardown \/ count_test
    \/ group_setup_failed \/ run_group_teardown
    \/ \E leak \in BOOLEAN : finish_group(leak)

Next ==
    \/ \E n \in 0 .. MaxTests : run_group_tests(n)
    \/ Runner
    \/ EndOfFunction
    \/ expect_assert_failure
    \/ mock_assert

\* The runner is one thread that nothing holds up, and every function of the
\* test program ends: without that no runner could promise to come to an end.
Fairness == WF_vars(Runner) /\ WF_vars(EndOfFunction)

Spec == Init /\ [][Next]_vars /\ Fairness

-----------------------------------------------------------------------------
(* The properties.                                                         *)

\* The five counters account for every test: what is printed at the end of a
\* group adds up, and no test is left NOT_STARTED or lands in the default
\* branch ("Internal cmocka error").
EveryTestIsCounted ==
    stage \in {"counted", "returned"} =>
        /\ total.passed + total.skipped + total.failed + total.errors
              = total.executed + truth.setupFailed
        /\ stage = "returned" =>
              total.executed = IF truth.setupFailed = 1 THEN 0 ELSE total.tests

\* The return value of a group is the number of its tests that failed or could
\* not be run, plus one for a failed group setup function, whatever order of
\* failures, skips and stops led there, unless a fixture called skip().
ReturnedIsTruth ==
    (stage = "returned" /\ ~ truth.fixtureSkipped) => Returned = truth.bad

\* However a function was left, by return, jump or signal, the next one finds
\* nothing of it: the stop flag is taken back, and the signal handlers of the
\* program are in place.
NothingReachesNext == at = "runner" => stopTest = 0 /\ handler = "default"

\* Every group comes to an end: all its tests are run or the process ends.
GroupEnds == (stage \notin Over \cup {"idle"}) ~> (stage \in Over)

\* A test is reported as skipped only if it called skip(): the flag is taken
\* back so that it does not skip the next test.  Violated: a fixture that calls
\* skip() leaves it set, and the next test that fails is reported as skipped.
SkippedMeansSkip ==
    (stage = "tested" /\ status = "SKIPPED") => truth.test = "skipped"

\* An assertion that fails outside of expect_assert_failure() signals a test
\* failure and does not jump into a frame that is gone, unless a function called
\* in expect_assert_failure() was once left by fail(), skip(), stop() or a
\* signal: any number of expected assertions, in any function, leaves no flag.
DeadJumpNeedsEscape == stage = "undefined" => truth.escaped
=============================================================================
