-------------------------- MODULE TestRunner_proofs --------------------------
(***************************************************************************)
(* Proofs about TestRunner, for any number of tests and groups.            *)
(***************************************************************************)
EXTENDS TestRunner, TLAPS

Stages == Bodies \cup Over \cup {"idle", "tested", "counted", "no_tests"}

Totals == [tests : Nat, executed : Nat, passed : Nat, failed : Nat,
           errors : Nat, skipped : Nat]

Ways == {"none", "passed", "failed", "skipped", "stopped", "error"}

Truths == [test : Ways, bad : Nat, left : Ways, fixtureSkipped : BOOLEAN,
           setupFailed : {0, 1}, escaped : BOOLEAN]

\* The types of the variables.
TypeInv ==
    /\ abortEnv \in BOOLEAN
    /\ stage \in Stages
    /\ at \in {"runner", "body", "jumped", "gone"}
    /\ rc \in {-1, 0, 1}
    /\ status \in {"NOT_STARTED", "PASSED", "FAILED", "ERROR", "SKIPPED"}
    /\ total \in Totals
    /\ skipTest \in {0, 1} /\ stopTest \in {0, 1} /\ expecting \in {0, 1}
    /\ inExpect \in BOOLEAN
    /\ handler \in {"default", "cmocka"}
    /\ truth \in Truths

\* Where the runner stands.  The handlers of cmocka are installed exactly while
\* a function of the program runs or is being left, those of the program are
\* saved, and the stop flag lives from stop() to the place longjmp() leads to.
ControlInv ==
    /\ saved = "default"
    /\ at = "runner" => handler = "default" /\ stopTest = 0 /\ stage # "undefined"
    /\ at \in {"body", "jumped"} => handler = "cmocka" /\ stage \in Bodies
    /\ at = "body" => stopTest = 0
    /\ at = "gone" => stage \in {"aborted", "undefined"}

\* The flag of expect_assert_failure() is set while the function it calls runs,
\* or since that function was left by another jump.
ExpectInv ==
    /\ inExpect => at = "body" /\ expecting = 1
    /\ expecting = 1 => inExpect \/ truth.escaped
    /\ stage = "undefined" => truth.escaped

\* The counters add up after every step, and what has been executed is known at
\* every stage.
CountInv ==
    /\ total.passed + total.skipped + total.failed + total.errors
          = total.executed + truth.setupFailed
    /\ stage = "group_setup" => total.executed = 0
    /\ truth.setupFailed = 1 =>
          total.executed = 0 /\ stage \in Over \cup {"no_tests", "group_teardown"}
    /\ stage = "no_tests" => truth.setupFailed = 1
    /\ (stage \in {"group_teardown", "returned"} /\ truth.setupFailed = 0)
          => total.executed = total.tests
    /\ (stage = "teardown" \/ (stage = "tested" /\ rc = 0))
          => status \in {"PASSED", "FAILED", "SKIPPED"}

\* What the flags say of a test agrees with what happened to it, unless a
\* fixture of the group called skip().
TruthInv ==
    /\ at = "jumped" =>
          /\ truth.left \in {"failed", "skipped", "stopped"}
          /\ stopTest = 1 <=> truth.left = "stopped"
          /\ truth.left = "skipped" => skipTest = 1
          /\ stage = "test" => truth.test = truth.left
    /\ (stage = "test" /\ at = "runner") =>
          /\ truth.test \in {"passed", "failed", "skipped"}
          /\ rc = 0 <=> truth.test = "passed"
          /\ truth.test = "skipped" => skipTest = 1
    /\ ~ truth.fixtureSkipped =>
          /\ total.failed + total.errors = truth.bad
          /\ skipTest = 1 =>
                stage = "test" /\ at \in {"jumped", "runner"} /\ truth.test = "skipped"
          /\ (stage = "teardown" \/ (stage = "tested" /\ rc = 0)) =>
                (status = "FAILED" <=> truth.test = "failed")

RunnerInv == TypeInv /\ ControlInv /\ ExpectInv /\ CountInv /\ TruthInv

-----------------------------------------------------------------------------
(* The invariant holds at the start, and every action keeps it.            *)

\* The invariant holds before the first group.
LEMMA RunnerInvInit == Init => RunnerInv
<1> SUFFICES ASSUME Init PROVE RunnerInv
  OBVIOUS
<1>1. total = NoTotals /\ NoTotals \in Totals
  BY DEF Init, NoTotals, Totals
<1>2. truth = NoTruth /\ NoTruth \in Truths
  BY DEF Init, NoTruth, Truths, Ways
<1>3. TypeInv
  BY <1>1, <1>2 DEF Init, TypeInv, Stages
<1>4. ControlInv /\ ExpectInv /\ CountInv
  BY <1>1, <1>2 DEF Init, ControlInv, ExpectInv, CountInv, NoTotals, NoTruth
<1>5. TruthInv
  BY <1>1, <1>2 DEF Init, TruthInv, NoTotals, NoTruth
<1> QED
  BY <1>3, <1>4, <1>5 DEF RunnerInv

\* What exit_test leaves of the history.
LEMMA LeftTruth ==
    ASSUME TypeInv, NEW how \in Ways, NEW e \in BOOLEAN
    PROVE  LET t == [Left(how) EXCEPT !.escaped = @ \/ e] IN
           /\ Left(how) \in Truths /\ t \in Truths
           /\ Left(how).left = how
           /\ Left(how).test = IF stage = "test" THEN how ELSE truth.test
           /\ Left(how).bad = truth.bad
           /\ Left(how).setupFailed = truth.setupFailed
           /\ Left(how).escaped = truth.escaped
           /\ Left(how).fixtureSkipped <=>
                 truth.fixtureSkipped \/ (how = "skipped" /\ stage # "test")
           /\ t.left = Left(how).left /\ t.test = Left(how).test
           /\ t.bad = truth.bad /\ t.setupFailed = truth.setupFailed
           /\ t.fixtureSkipped = Left(how).fixtureSkipped
           /\ t.escaped <=> truth.escaped \/ e
  BY DEF TypeInv, Truths, Left

\* A jump out of a function, for whatever reason.
LEMMA JumpInv ==
    ASSUME RunnerInv, at = "body", NEW how \in {"failed", "skipped", "stopped"},
           exit_test(how),
           skipTest' = IF how = "skipped" THEN 1 ELSE skipTest,
           stopTest' = IF how = "stopped" THEN 1 ELSE stopTest,
           expecting' \in {expecting, 0}
    PROVE  RunnerInv'
<1> USE DEF RunnerInv
<1>1. PICK e \in BOOLEAN : e <=> (inExpect /\ expecting' = 1)
  OBVIOUS
<1>2. truth' = [Left(how) EXCEPT !.escaped = @ \/ e]
  BY <1>1 DEF exit_test
<1>3. how \in Ways
  BY DEF Ways
<1>4. /\ truth' \in Truths
      /\ truth'.left = how
      /\ truth'.test = IF stage = "test" THEN how ELSE truth.test
      /\ truth'.bad = truth.bad
      /\ truth'.setupFailed = truth.setupFailed
      /\ truth'.escaped <=> truth.escaped \/ e
      /\ truth'.fixtureSkipped <=>
            truth.fixtureSkipped \/ (how = "skipped" /\ stage # "test")
  BY <1>2, <1>3, LeftTruth
<1>5. /\ \/ skipTest' = 0 /\ stage' = "aborted" /\ at' = "gone"
         \/ at' = "jumped" /\ stage' = stage
      /\ inExpect' = FALSE
      /\ UNCHANGED <<abortEnv, rc, status, total, signalVars, groups>>
  BY DEF exit_test
<1>6. TypeInv'
  BY <1>4, <1>5 DEF TypeInv, Stages, Over, signalVars
<1>7. ControlInv'
  BY <1>5 DEF ControlInv, TypeInv, signalVars
<1>8. ExpectInv'
  BY <1>1, <1>4, <1>5 DEF ExpectInv, TypeInv
<1>9. CountInv'
  BY <1>4, <1>5 DEF CountInv, Over, ControlInv, Bodies
<1>10. TruthInv'
  <2>1. stopTest = 0
    BY DEF ControlInv
  <2>2. CASE stage' = "aborted" /\ at' = "gone" /\ skipTest' = 0
    BY <1>4, <1>5, <2>2 DEF TruthInv
  <2>3. CASE stage' = stage /\ at' = "jumped"
    BY <1>4, <1>5, <2>1, <2>3 DEF TruthInv
  <2> QED
    BY <1>5, <2>2, <2>3
<1> QED
  BY <1>6, <1>7, <1>8, <1>9, <1>10

\* A function that returns leaves the flags as they are.
LEMMA ReturnsInv ==
    ASSUME RunnerInv, NEW code \in {0, 1}, function_returns(code)
    PROVE  RunnerInv'
<1> USE DEF RunnerInv
<1> DEFINE how == IF code = 0 THEN "passed" ELSE "failed"
<1>1. /\ at = "body" /\ ~ inExpect /\ (stage = "test" => code = 0)
      /\ at' = "runner" /\ rc' = code /\ handler' = saved /\ truth' = Left(how)
      /\ UNCHANGED <<abortEnv, stage, status, total, flagVars, saved, groups>>
  BY DEF function_returns, FunctionDone, RestoredHandler
<1>2. how \in Ways /\ how \in {"passed", "failed"} /\ (how = "passed" <=> code = 0)
  BY DEF Ways
<1> HIDE DEF how
<1>3. /\ truth' \in Truths
      /\ truth'.test = IF stage = "test" THEN how ELSE truth.test
      /\ truth'.bad = truth.bad
      /\ truth'.setupFailed = truth.setupFailed
      /\ truth'.escaped = truth.escaped
      /\ truth'.fixtureSkipped <=> truth.fixtureSkipped
  BY <1>1, <1>2, LeftTruth
<1>4. stage \in Bodies /\ stopTest = 0
  BY <1>1 DEF ControlInv
<1>5. TypeInv'
  BY <1>1, <1>3 DEF TypeInv, ControlInv, flagVars
<1>6. ControlInv'
  BY <1>1, <1>4 DEF ControlInv, flagVars, Bodies
<1>7. ExpectInv'
  BY <1>1, <1>3 DEF ExpectInv, flagVars
<1>8. CountInv'
  BY <1>1, <1>3, <1>4 DEF CountInv, Bodies
<1>9. TruthInv'
  BY <1>1, <1>2, <1>3, <1>4 DEF TruthInv, flagVars, Bodies
<1> QED
  BY <1>5, <1>6, <1>7, <1>8, <1>9

\* The branch behind setjmp(): the stop flag is taken back.
LEMMA JumpedInv ==
    ASSUME RunnerInv, NEW leftover \in BOOLEAN, function_jumped(leftover)
    PROVE  RunnerInv'
<1> USE DEF RunnerInv
<1> DEFINE how == IF truth.left # "stopped" THEN truth.left
                  ELSE IF leftover THEN "failed" ELSE "passed"
<1>1. /\ at = "jumped" /\ at' = "runner"
      /\ rc' = (IF stopTest = 1 /\ ~ leftover THEN 0 ELSE -1)
      /\ handler' = saved /\ stopTest' = 0
      /\ truth' = IF truth.left = "stopped"
                  THEN Left(IF leftover THEN "failed" ELSE "passed") ELSE truth
      /\ UNCHANGED <<abortEnv, stage, status, total, skipTest, expecting, inExpect,
                     saved, groups>>
  BY DEF function_jumped, FunctionDone, RestoredHandler, ClearedStop
<1>2. /\ how \in {"passed", "failed", "skipped"} /\ how \in Ways
      /\ how = "passed" <=> stopTest = 1 /\ ~ leftover
      /\ how = "skipped" <=> truth.left = "skipped"
      /\ how = "skipped" => skipTest = 1
  BY <1>1 DEF TruthInv, Ways
<1>3. /\ truth' \in Truths
      /\ truth'.test = IF stage = "test" THEN how ELSE truth.test
      /\ truth'.bad = truth.bad
      /\ truth'.setupFailed = truth.setupFailed
      /\ truth'.escaped = truth.escaped
      /\ truth'.fixtureSkipped <=> truth.fixtureSkipped
  <2>1. CASE truth.left = "stopped"
    BY <1>1, <1>2, <2>1, LeftTruth
  <2>2. CASE truth.left # "stopped"
    BY <1>1, <2>2 DEF TruthInv, TypeInv
  <2> QED
    BY <2>1, <2>2
<1> HIDE DEF how
<1>4. stage \in Bodies
  BY <1>1 DEF ControlInv
<1>5. TypeInv'
  BY <1>1, <1>3 DEF TypeInv, ControlInv
<1>6. ControlInv'
  BY <1>1, <1>4 DEF ControlInv, Bodies
<1>7. ExpectInv'
  BY <1>1, <1>3 DEF ExpectInv
<1>8. CountInv'
  BY <1>1, <1>3, <1>4 DEF CountInv, Bodies
<1>9. TruthInv'
  BY <1>1, <1>2, <1>3, <1>4 DEF TruthInv, TypeInv, Bodies
<1> QED
  BY <1>5, <1>6, <1>7, <1>8, <1>9

\* The calls of expect_assert_failure(), and the assertions it expects.
LEMMA ExpectStepInv ==
    ASSUME RunnerInv, expect_assert_failure \/ mock_assert
    PROVE  RunnerInv'
<1> USE DEF RunnerInv
<1>1. CASE expect_assert_failure
  <2>1. TypeInv' /\ ControlInv' /\ ExpectInv'
    BY <1>1 DEF expect_assert_failure, TypeInv, ControlInv, ExpectInv, signalVars
  <2>2. CountInv' /\ TruthInv'
    BY <1>1 DEF expect_assert_failure, CountInv, TruthInv
  <2> QED
    BY <2>1, <2>2
<1>2. CASE mock_assert /\ inExpect
  <2>0. /\ at = "body" /\ expecting' = 0 /\ inExpect' = FALSE
        /\ UNCHANGED <<stage, at, abortEnv, rc, status, total, skipTest, stopTest,
                       signalVars, groups, truth>>
    BY <1>2 DEF mock_assert, AfterAssert
  <2>1. TypeInv' /\ ControlInv'
    BY <2>0 DEF TypeInv, ControlInv, signalVars
  <2>3. ExpectInv'
    <3>1. ~ inExpect' /\ expecting' # 1
      BY <2>0
    <3>2. stage' # "undefined"
      BY <2>0 DEF ControlInv, Bodies
    <3> QED
      BY <3>1, <3>2 DEF ExpectInv
  <2>2. CountInv' /\ TruthInv'
    BY <2>0 DEF CountInv, TruthInv
  <2> QED
    BY <2>1, <2>2, <2>3
<1>3. CASE mock_assert /\ ~ inExpect
  <2>1. TypeInv' /\ ControlInv' /\ ExpectInv'
    BY <1>3 DEF mock_assert, TypeInv, ControlInv, ExpectInv, signalVars, Stages, Over
  <2>2. CountInv'
    BY <1>3 DEF mock_assert, CountInv, Over
  <2>3. TruthInv'
    BY <1>3 DEF mock_assert, TruthInv
  <2> QED
    BY <2>1, <2>2, <2>3
<1> QED
  BY <1>1, <1>2, <1>3

\* The runner calls a function of the program.
LEMMA StartControl ==
    ASSUME TypeInv, ControlInv, ExpectInv, at = "runner",
           NEW f \in Bodies, RunFunction(f), UNCHANGED <<stopTest, expecting, inExpect>>,
           truth'.escaped = truth.escaped
    PROVE  ControlInv' /\ ExpectInv' /\ stage' = f /\ at' = "body"
           /\ stage' \in Stages /\ handler' = "cmocka"
<1>1. stage' = f /\ at' = "body" /\ saved' = handler /\ handler' = "cmocka"
  BY DEF RunFunction
<1>2. f # "undefined" /\ f \in Stages
  BY DEF Bodies, Stages
<1>3. ControlInv'
  BY <1>1 DEF ControlInv
<1>4. ExpectInv'
  BY <1>1, <1>2 DEF ExpectInv
<1> QED
  BY <1>1, <1>2, <1>3, <1>4

\* A stage at which nothing of the program runs.
LEMMA AtRunner ==
    ASSUME TypeInv, ControlInv,
           stage \in {"idle", "tested", "counted", "no_tests", "returned"}
    PROVE  at = "runner"
  BY DEF TypeInv, ControlInv, Bodies

\* The functions of a test are called one after the other.
LEMMA RunInv ==
    ASSUME RunnerInv,
           run_one_tests \/ setup_passed \/ run_teardown \/ run_group_teardown
    PROVE  RunnerInv'
<1> USE DEF RunnerInv
<1>1. ASSUME run_one_tests PROVE RunnerInv'
  <2>1. at = "runner" /\ stage \in {"counted", "group_setup"}
    BY <1>1, AtRunner DEF run_one_tests
  <2>2. PICK f \in {"setup", "test"} : RunFunction(f)
    BY <1>1 DEF run_one_tests
  <2>3. /\ truth' = [truth EXCEPT !.test = "none"]
        /\ rc' = 0 /\ status' = "NOT_STARTED"
        /\ UNCHANGED <<runnerVars, total>>
    BY <1>1 DEF run_one_tests
  <2>4. /\ truth' \in Truths /\ truth'.left = truth.left /\ truth'.bad = truth.bad
        /\ truth'.fixtureSkipped = truth.fixtureSkipped
        /\ truth'.setupFailed = truth.setupFailed
        /\ truth'.escaped = truth.escaped
    BY <2>3 DEF TypeInv, Truths, Ways
  <2>5. f \in Bodies
    BY DEF Bodies
  <2>6. ControlInv' /\ ExpectInv' /\ stage' = f /\ at' = "body"
        /\ stage' \in Stages /\ handler' = "cmocka"
    BY <2>1, <2>2, <2>3, <2>4, <2>5, StartControl DEF runnerVars, flagVars
  <2>7. TypeInv'
    BY <2>3, <2>4, <2>6 DEF TypeInv, runnerVars, flagVars
  <2>8. CountInv'
    BY <2>1, <2>3, <2>4, <2>6 DEF CountInv, Over
  <2>9. TruthInv'
    BY <2>1, <2>3, <2>4, <2>6 DEF TruthInv, runnerVars, flagVars
  <2> QED
    BY <2>6, <2>7, <2>8, <2>9
<1>2. ASSUME NEW f \in {"test", "teardown", "group_teardown"}, RunFunction(f),
             \/ setup_passed /\ f = "test"
             \/ run_teardown /\ f = "teardown"
             \/ run_group_teardown /\ f = "group_teardown"
      PROVE  RunnerInv'
  <2>1. at = "runner"
    BY <1>2, AtRunner DEF setup_passed, run_teardown, run_group_teardown, TestsDone
  <2>2. UNCHANGED <<runnerVars, rc, status, total, truth>>
    BY <1>2 DEF setup_passed, RunTest, run_teardown, run_group_teardown
  <2>3. f \in Bodies
    BY DEF Bodies
  <2>4. ControlInv' /\ ExpectInv' /\ stage' = f /\ at' = "body"
        /\ stage' \in Stages /\ handler' = "cmocka"
    BY <1>2, <2>1, <2>2, <2>3, StartControl DEF runnerVars, flagVars
  <2>5. TypeInv'
    BY <2>2, <2>4 DEF TypeInv, runnerVars, flagVars
  <2>6. CASE setup_passed /\ f = "test"
    <3>1. CountInv'
      BY <2>2, <2>4, <2>6 DEF setup_passed, CountInv, Over
    <3>2. TruthInv'
      BY <2>2, <2>4, <2>6 DEF setup_passed, TruthInv, runnerVars, flagVars
    <3> QED
      BY <2>4, <2>5, <3>1, <3>2
  <2>7. CASE run_teardown /\ f = "teardown"
    <3>1. CountInv'
      BY <2>2, <2>4, <2>7 DEF run_teardown, CountInv, Over
    <3>2. TruthInv'
      BY <2>2, <2>4, <2>7 DEF run_teardown, TruthInv, runnerVars, flagVars
    <3> QED
      BY <2>4, <2>5, <3>1, <3>2
  <2>8. CASE run_group_teardown /\ f = "group_teardown"
    <3>3. \/ stage = "no_tests"
          \/ total.executed = total.tests /\ stage \in {"counted", "group_setup"}
      BY <2>8 DEF run_group_teardown, TestsDone
    <3>4. truth.setupFailed \in {0, 1} /\ truth.setupFailed \in Nat
      BY DEF TypeInv, Truths
    <3>1. CountInv'
      BY <2>2, <2>4, <2>8, <3>3, <3>4 DEF CountInv
    <3>2. TruthInv'
      BY <2>2, <2>4, <2>8 DEF run_group_teardown, TestsDone, TruthInv, runnerVars, flagVars
    <3> QED
      BY <2>4, <2>5, <3>1, <3>2
  <2> QED
    BY <1>2, <2>6, <2>7, <2>8
<1> QED
  BY <1>1, <1>2 DEF setup_passed, RunTest, run_teardown, run_group_teardown

\* A setup function that fails ends the test; a test function is judged.
LEMMA TestedInv ==
    ASSUME RunnerInv, setup_failed \/ test_ended
    PROVE  RunnerInv'
<1> USE DEF RunnerInv
<1>1. CASE setup_failed
  <2>1. /\ stage = "setup" /\ at = "runner" /\ rc # 0
        /\ stage' = "tested" /\ status' = "ERROR"
        /\ truth' = [truth EXCEPT !.test = "error"]
        /\ UNCHANGED <<runnerVars, at, rc, total, signalVars>>
    BY <1>1 DEF setup_failed
  <2>2. /\ truth' \in Truths /\ truth'.left = truth.left /\ truth'.bad = truth.bad
        /\ truth'.fixtureSkipped = truth.fixtureSkipped
        /\ truth'.setupFailed = truth.setupFailed
        /\ truth'.escaped = truth.escaped
    BY <2>1 DEF TypeInv, Truths, Ways
  <2>3. TypeInv'
    BY <2>1, <2>2 DEF TypeInv, runnerVars, flagVars, signalVars, Stages
  <2>4. ControlInv' /\ ExpectInv'
    BY <2>1, <2>2 DEF ControlInv, ExpectInv, runnerVars, flagVars, signalVars
  <2>5. CountInv'
    BY <2>1, <2>2 DEF CountInv, Over
  <2>6. TruthInv'
    BY <2>1, <2>2 DEF TruthInv, runnerVars, flagVars
  <2> QED
    BY <2>3, <2>4, <2>5, <2>6
<1>2. CASE test_ended
  <2>1. /\ stage = "test" /\ at = "runner" /\ stage' = "tested" /\ rc' = 0
        /\ status' = (IF rc = 0 THEN "PASSED"
                      ELSE IF skipTest = 1 THEN "SKIPPED" ELSE "FAILED")
        /\ skipTest' = (IF rc # 0 THEN 0 ELSE skipTest)
        /\ UNCHANGED <<abortEnv, at, total, stopTest, expecting, inExpect,
                       signalVars, groups, truth>>
    BY <1>2 DEF test_ended, TestStatus
  <2>3. TypeInv'
    BY <2>1 DEF TypeInv, signalVars, Stages
  <2>4. ControlInv' /\ ExpectInv'
    BY <2>1 DEF ControlInv, ExpectInv, signalVars
  <2>5. CountInv'
    BY <2>1 DEF CountInv, Over
  <2>6. TruthInv'
    BY <2>1 DEF TruthInv, TypeInv
  <2> QED
    BY <2>3, <2>4, <2>5, <2>6
<1> QED
  BY <1>1, <1>2

\* What a test adds to the counters.
LEMMA TallyCounts ==
    ASSUME NEW t \in Totals, NEW code \in Int, NEW st,
           code = 0 => st \in {"PASSED", "FAILED", "SKIPPED"}
    PROVE  LET u == Tally(t, code, st) IN
           /\ u \in Totals
           /\ u.tests = t.tests /\ u.executed = t.executed + 1
           /\ u.passed + u.skipped + u.failed + u.errors
                 = t.passed + t.skipped + t.failed + t.errors + 1
           /\ u.failed + u.errors
                 = t.failed + t.errors + IF code # 0 \/ st = "FAILED" THEN 1 ELSE 0
<1> DEFINE u == Tally(t, code, st)
<1>1. /\ t.tests \in Nat /\ t.executed \in Nat /\ t.passed \in Nat
      /\ t.skipped \in Nat /\ t.failed \in Nat /\ t.errors \in Nat
  BY DEF Totals
<1>2. /\ u.tests = t.tests /\ u.executed = t.executed + 1
      /\ u.passed = IF code = 0 /\ st = "PASSED" THEN t.passed + 1 ELSE t.passed
      /\ u.skipped = IF code = 0 /\ st = "SKIPPED" THEN t.skipped + 1 ELSE t.skipped
      /\ u.failed = IF code = 0 /\ st = "FAILED" THEN t.failed + 1 ELSE t.failed
      /\ u.errors = IF code # 0 THEN t.errors + 1 ELSE t.errors
  BY DEF Totals, Tally
<1>3. u \in Totals
  <2> DEFINE x == t.executed + 1
             p == IF code = 0 /\ st = "PASSED" THEN t.passed + 1 ELSE t.passed
             k == IF code = 0 /\ st = "SKIPPED" THEN t.skipped + 1 ELSE t.skipped
             f == IF code = 0 /\ st = "FAILED" THEN t.failed + 1 ELSE t.failed
             e == IF code # 0 THEN t.errors + 1 ELSE t.errors
  <2>1. x \in Nat /\ p \in Nat /\ k \in Nat /\ f \in Nat /\ e \in Nat
    BY <1>1
  <2>2. u = [t EXCEPT !.executed = x, !.passed = p, !.skipped = k, !.failed = f,
                      !.errors = e]
    BY DEF Tally
  <2> HIDE DEF x, p, k, f, e, u
  <2> QED
    BY <2>1, <2>2 DEF Totals
<1> HIDE DEF u
<1>4. CASE code # 0
  BY <1>1, <1>2, <1>3, <1>4 DEF u
<1>5. CASE code = 0
  BY <1>1, <1>2, <1>3, <1>5 DEF u
<1> QED
  BY <1>4, <1>5

\* The result of a test is counted once, under the right name.
LEMMA CountedInv ==
    ASSUME RunnerInv, count_test
    PROVE  RunnerInv'
<1> USE DEF RunnerInv
<1>1. /\ stage \in {"tested", "teardown"} /\ at = "runner" /\ stage' = "counted"
      /\ status' = (IF stage = "teardown" /\ rc # 0 THEN "ERROR" ELSE status)
      /\ total' = Tally(total, rc, status')
      /\ truth' = [truth EXCEPT
                     !.bad = IF rc # 0 \/ truth.test = "failed" THEN @ + 1 ELSE @]
      /\ UNCHANGED <<runnerVars, at, rc, signalVars>>
  BY DEF count_test
<1>2. /\ truth' \in Truths /\ truth'.left = truth.left /\ truth'.test = truth.test
      /\ truth'.fixtureSkipped = truth.fixtureSkipped
      /\ truth'.setupFailed = truth.setupFailed
      /\ truth'.escaped = truth.escaped
      /\ truth'.bad = truth.bad + IF rc # 0 \/ truth.test = "failed" THEN 1 ELSE 0
  BY <1>1 DEF TypeInv, Truths
<1>3. rc = 0 => status' = status /\ status' \in {"PASSED", "FAILED", "SKIPPED"}
  BY <1>1 DEF CountInv
<1>4. /\ total' \in Totals
      /\ total'.executed = total.executed + 1
      /\ total'.passed + total'.skipped + total'.failed + total'.errors
            = total.passed + total.skipped + total.failed + total.errors + 1
      /\ total'.failed + total'.errors
            = total.failed + total.errors + IF rc # 0 \/ status' = "FAILED" THEN 1 ELSE 0
  <2>1. total \in Totals /\ rc \in Int
    BY DEF TypeInv
  <2> QED
    BY <1>1, <1>3, <2>1, TallyCounts
<1>5. truth.setupFailed = 0
  BY <1>1 DEF CountInv, TypeInv, Truths, Over
<1>6. TypeInv'
  BY <1>1, <1>2, <1>3, <1>4 DEF TypeInv, runnerVars, flagVars, signalVars, Stages
<1>7. ControlInv' /\ ExpectInv'
  BY <1>1, <1>2 DEF ControlInv, ExpectInv, runnerVars, flagVars, signalVars
<1>8. CountInv'
  BY <1>1, <1>2, <1>4, <1>5 DEF CountInv, TypeInv, Totals
<1>9. TruthInv'
  BY <1>1, <1>2, <1>3, <1>4 DEF TruthInv, runnerVars, flagVars
<1> QED
  BY <1>6, <1>7, <1>8, <1>9

\* A group starts with counters of its own; only the flags reach it.
LEMMA GroupStartInv ==
    ASSUME RunnerInv, NEW n \in Nat, run_group_tests(n)
    PROVE  RunnerInv'
<1> USE DEF RunnerInv
<1>1. /\ stage \in {"idle", "returned"}
      /\ total' = [NoTotals EXCEPT !.tests = n]
      /\ truth' = [NoTruth EXCEPT !.fixtureSkipped = (skipTest = 1),
                                  !.escaped = truth.escaped]
      /\ rc' = 0 /\ status' = "NOT_STARTED"
      /\ \/ RunFunction("group_setup")
         \/ stage' = "counted" /\ UNCHANGED <<at, signalVars>>
      /\ UNCHANGED <<abortEnv, flagVars>>
  BY DEF run_group_tests
<1>2. at = "runner"
  BY <1>1, AtRunner
<1>3. /\ total' \in Totals /\ total'.executed = 0 /\ total'.tests = n
      /\ total'.passed = 0 /\ total'.skipped = 0
      /\ total'.failed = 0 /\ total'.errors = 0
  BY <1>1 DEF NoTotals, Totals
<1>4. PICK b \in BOOLEAN : b <=> (skipTest = 1)
  OBVIOUS
<1>5. /\ truth' \in Truths /\ truth'.bad = 0 /\ truth'.setupFailed = 0
      /\ truth'.escaped = truth.escaped /\ (truth'.fixtureSkipped <=> b)
  <2>1. truth' = [NoTruth EXCEPT !.fixtureSkipped = b, !.escaped = truth.escaped]
    BY <1>1, <1>4
  <2> QED
    BY <2>1 DEF NoTruth, Truths, Ways, TypeInv
<1>6. ControlInv' /\ ExpectInv' /\ stage' \in {"group_setup", "counted"}
      /\ at' \in {"runner", "body"} /\ handler' \in {"default", "cmocka"}
  <2>1. CASE RunFunction("group_setup")
    BY <1>1, <1>2, <1>5, <2>1, StartControl DEF flagVars, Bodies
  <2>2. CASE stage' = "counted" /\ UNCHANGED <<at, signalVars>>
    BY <1>1, <1>2, <1>5, <2>2 DEF ControlInv, ExpectInv, flagVars, signalVars, TypeInv
  <2> QED
    BY <1>1, <2>1, <2>2
<1>7. TypeInv'
  BY <1>1, <1>3, <1>5, <1>6 DEF TypeInv, flagVars, Stages, Bodies
<1>8. CountInv'
  BY <1>1, <1>3, <1>5, <1>6 DEF CountInv
<1>9. TruthInv'
  BY <1>1, <1>3, <1>4, <1>5, <1>6 DEF TruthInv, flagVars
<1> QED
  BY <1>6, <1>7, <1>8, <1>9

\* A group setup function that fails is an error of its own.
LEMMA GroupSetupFailedInv ==
    ASSUME RunnerInv, group_setup_failed
    PROVE  RunnerInv'
<1> USE DEF RunnerInv
<1>1. /\ stage = "group_setup" /\ at = "runner" /\ stage' = "no_tests"
      /\ total' = [total EXCEPT !.errors = @ + 1]
      /\ truth' = [truth EXCEPT !.bad = @ + 1, !.setupFailed = 1]
      /\ UNCHANGED <<runnerVars, at, rc, status, signalVars>>
  BY DEF group_setup_failed
<1>2. /\ truth' \in Truths /\ truth'.left = truth.left /\ truth'.test = truth.test
      /\ truth'.fixtureSkipped = truth.fixtureSkipped
      /\ truth'.setupFailed = 1 /\ truth'.escaped = truth.escaped
      /\ truth'.bad = truth.bad + 1
  <2>1. truth \in Truths /\ truth.bad \in Nat
    BY DEF TypeInv, Truths
  <2>2. truth'.bad = truth.bad + 1
    BY <1>1, <2>1 DEF Truths
  <2>3. truth.bad + 1 \in Nat /\ 1 \in {0, 1}
    BY <2>1
  <2> QED
    BY <1>1, <2>1, <2>2, <2>3 DEF Truths
<1>3. /\ total' \in Totals /\ total'.executed = total.executed
      /\ total'.passed = total.passed /\ total'.skipped = total.skipped
      /\ total'.failed = total.failed /\ total'.errors = total.errors + 1
  BY <1>1 DEF TypeInv, Totals
<1>4. truth.setupFailed = 0 /\ total.executed = 0
  BY <1>1 DEF CountInv, TypeInv, Truths, Over
<1>5. TypeInv'
  BY <1>1, <1>2, <1>3 DEF TypeInv, runnerVars, flagVars, signalVars, Stages
<1>6. ControlInv' /\ ExpectInv'
  BY <1>1, <1>2 DEF ControlInv, ExpectInv, runnerVars, flagVars, signalVars
<1>7. CountInv'
  BY <1>1, <1>2, <1>3, <1>4 DEF CountInv, TypeInv, Totals
<1>8. TruthInv'
  BY <1>1, <1>2, <1>3 DEF TruthInv, TypeInv, Totals, Truths, runnerVars, flagVars
<1> QED
  BY <1>5, <1>6, <1>7, <1>8

\* The end of a group.
LEMMA FinishInv ==
    ASSUME RunnerInv, NEW leak \in BOOLEAN, finish_group(leak)
    PROVE  RunnerInv'
<1> USE DEF RunnerInv
<1>1. /\ stage' \in {"returned", "aborted", "exited"}
      /\ UNCHANGED <<runnerVars, at, rc, status, total, signalVars, truth>>
  BY DEF finish_group
<1>2. /\ at = "runner"
      /\ \/ stage \in {"no_tests", "group_teardown"}
         \/ total.executed = total.tests /\ stage \in {"counted", "group_setup"}
  BY AtRunner DEF finish_group, TestsDone
<1>3. truth.setupFailed \in {0, 1}
  BY DEF TypeInv, Truths
<1>4. TypeInv'
  BY <1>1 DEF TypeInv, runnerVars, flagVars, signalVars, Stages, Over
<1>5. ControlInv' /\ ExpectInv'
  BY <1>1, <1>2 DEF ControlInv, ExpectInv, runnerVars, flagVars, signalVars
<1>6. CountInv'
  BY <1>1, <1>2, <1>3 DEF CountInv, Over
<1>7. TruthInv'
  BY <1>1, <1>2 DEF TruthInv, runnerVars, flagVars
<1> QED
  BY <1>4, <1>5, <1>6, <1>7

\* Every step of the runner keeps the invariant.
LEMMA RunnerInvNext == RunnerInv /\ [Next]_vars => RunnerInv'
<1> SUFFICES ASSUME RunnerInv, [Next]_vars PROVE RunnerInv'
  OBVIOUS
<1>1. CASE \E n \in 0 .. MaxTests : run_group_tests(n)
  BY <1>1, GroupStartInv, BoundsAssumption
<1>2. CASE Runner
  BY <1>2, JumpedInv, RunInv, TestedInv, CountedInv, GroupSetupFailedInv, FinishInv
     DEF Runner
<1>3. CASE EndOfFunction
  <2>1. CASE \E code \in {0, 1} : function_returns(code)
    BY <2>1, ReturnsInv
  <2>2. CASE function_leaves_something \/ fail \/ exception_handler
    BY <2>2, JumpInv DEF function_leaves_something, fail, exception_handler
  <2>3. CASE skip
    BY <2>3, JumpInv DEF skip
  <2>4. CASE stop
    BY <2>4, JumpInv DEF stop
  <2>5. CASE expected_assert_missing
    BY <2>5, JumpInv DEF expected_assert_missing
  <2> QED
    BY <1>3, <2>1, <2>2, <2>3, <2>4, <2>5 DEF EndOfFunction
<1>4. CASE expect_assert_failure \/ mock_assert
  BY <1>4, ExpectStepInv
<1>5. CASE UNCHANGED vars
  <2>1. UNCHANGED <<abortEnv, stage, at, rc, status, total, truth, skipTest, stopTest,
                    expecting, inExpect, handler, saved>>
    BY <1>5 DEF vars, flagVars, signalVars
  <2>2. TypeInv' /\ ControlInv' /\ ExpectInv'
    BY <2>1 DEF RunnerInv, TypeInv, ControlInv, ExpectInv
  <2>3. CountInv' /\ TruthInv'
    BY <2>1 DEF RunnerInv, CountInv, TruthInv
  <2> QED
    BY <2>2, <2>3 DEF RunnerInv
<1> QED
  BY <1>1, <1>2, <1>3, <1>4, <1>5 DEF Next

\* The invariant of the runner holds in every state.
LEMMA RunnerInvariant == Spec => []RunnerInv
<1>1. Init => RunnerInv
  BY RunnerInvInit
<1>2. RunnerInv /\ [Next]_vars => RunnerInv'
  BY RunnerInvNext
<1> QED
  BY <1>1, <1>2, PTL DEF Spec

-----------------------------------------------------------------------------
(* The theorems.                                                           *)

\* Whatever way a function of the test program was left, return, jump or signal,
\* cmocka_run_one_test_or_fixture gives back the handlers and the stop flag.
THEOREM NothingIsCarriedOver == Spec => []NothingReachesNext
<1>1. RunnerInv => NothingReachesNext
  BY DEF RunnerInv, ControlInv, NothingReachesNext
<1> QED
  BY <1>1, RunnerInvariant, PTL

\* The counters of _cmocka_run_group_tests account for every test of a group of
\* any size.
THEOREM CountersAddUp == Spec => []EveryTestIsCounted
<1>1. RunnerInv => EveryTestIsCounted
  BY DEF RunnerInv, CountInv, EveryTestIsCounted, TypeInv, Truths, Over
<1> QED
  BY <1>1, RunnerInvariant, PTL

\* The value _cmocka_run_group_tests returns is the number of tests that failed
\* or could not be run, plus one for a failed group setup function.
THEOREM ReturnValueIsTruth == Spec => []ReturnedIsTruth
<1>1. RunnerInv => ReturnedIsTruth
  BY DEF RunnerInv, TruthInv, ReturnedIsTruth, Returned
<1> QED
  BY <1>1, RunnerInvariant, PTL

\* mock_assert() jumps into a frame that is gone only after a function called in
\* expect_assert_failure() was left by another jump.
THEOREM DeadJumpIsEscape == Spec => []DeadJumpNeedsEscape
<1>1. RunnerInv => DeadJumpNeedsEscape
  BY DEF RunnerInv, ExpectInv, DeadJumpNeedsEscape
<1> QED
  BY <1>1, RunnerInvariant, PTL
=============================================================================
