------------------------- MODULE TestSession_proofs --------------------------
(***************************************************************************)
(* Proofs about TestSession: the session is a behaviour of each of its     *)
(* parts, so that what is proved about them holds in it; and what the      *)
(* parts promise together.                                                 *)
(***************************************************************************)
EXTENDS TestSession, TLAPS

QP == INSTANCE MockValues_proofs WITH Names <- {}, NoName <- "no_name",
                                      declared <- values, rc <- valueRc,
                                      report <- valueReport
OP == INSTANCE CallOrdering_proofs WITH declared <- calls, report <- callReport
HP == INSTANCE TestHeap_proofs WITH stage <- heapStage
RP == INSTANCE TestRunner_proofs WITH MaxGroups <- 1

-----------------------------------------------------------------------------
(* A module of proofs repeats the definitions of the part it is about: the *)
(* instance of the one is the same specification as that of the other.     *)

\* The operations on maps.
LEMMA SameMaps ==
    /\ \A m, s, v, c : Q!add_symbol_value(m, s, v, c) = QP!add_symbol_value(m, s, v, c)
    /\ \A m, s : Q!get_symbol_value(m, s) = QP!get_symbol_value(m, s)
    /\ \A m : Q!remove_always_return_values(m) = QP!remove_always_return_values(m)
    /\ \A m : Q!check_for_leftover_values(m) <=> QP!check_for_leftover_values(m)
    /\ \A m : Q!Queued(m) = QP!Queued(m)
    /\ Q!EmptyMap = QP!EmptyMap
<1>1. \A m, s, v, c : Q!add_symbol_value(m, s, v, c) = QP!add_symbol_value(m, s, v, c)
  BY DEF Q!add_symbol_value, QP!add_symbol_value, Q!Put, QP!Put, Q!ListAt, QP!ListAt,
         Q!list_add_value, QP!list_add_value
<1>2. \A m, s : Q!get_symbol_value(m, s) = QP!get_symbol_value(m, s)
  BY DEF Q!get_symbol_value, QP!get_symbol_value, Q!TakeFirst, QP!TakeFirst,
         Q!PutOrDrop, QP!PutOrDrop, Q!Put, QP!Put, Q!Drop, QP!Drop,
         Q!WILL_RETURN_ONCE, QP!WILL_RETURN_ONCE
<1>3. \A m : Q!remove_always_return_values(m) = QP!remove_always_return_values(m)
  BY DEF Q!remove_always_return_values, QP!remove_always_return_values,
         Q!DropServedFirst, QP!DropServedFirst, Q!WILL_RETURN_ONCE, QP!WILL_RETURN_ONCE
<1>4. \A m : Q!check_for_leftover_values(m) <=> QP!check_for_leftover_values(m)
  BY DEF Q!check_for_leftover_values, QP!check_for_leftover_values
<1>5. \A m : Q!Queued(m) = QP!Queued(m)
  BY DEF Q!Queued, QP!Queued
<1>6. Q!EmptyMap = QP!EmptyMap
  BY DEF Q!EmptyMap, QP!EmptyMap
<1> QED
  BY <1>1, <1>2, <1>3, <1>4, <1>5, <1>6

\* The initial state and the steps of mock values.
LEMMA SameValues ==
    /\ Q!Init => QP!Init
    /\ [Q!Next]_(Q!vars) => [QP!Next]_(QP!vars)
<1>1. Q!Init => QP!Init
  BY SameMaps DEF Q!Init, QP!Init, Q!NoReport, QP!NoReport
<1>2. Q!initialize_testing => QP!initialize_testing
  BY SameMaps DEF Q!initialize_testing, QP!initialize_testing, Q!NoReport, QP!NoReport
<1>3. ASSUME NEW f \in Functions, NEW n \in Q!MaybeName, NEW c \in Counts,
             Q!will_return(f, n, c)
      PROVE  QP!will_return(f, n, c)
  BY <1>3, SameMaps DEF Q!will_return, QP!will_return, Q!NewValue, QP!NewValue
<1>4. ASSUME NEW f \in Functions, NEW n \in Q!MaybeName, Q!mock(f, n)
      PROVE  QP!mock(f, n)
  BY <1>4, SameMaps DEF Q!mock, QP!mock, Q!TypeMatches, QP!TypeMatches, Q!FreedByMock,
                        QP!FreedByMock
<1>5. ASSUME NEW f \in Functions, NEW n \in Q!MaybeName, Q!mock_mismatch(f, n)
      PROVE  QP!mock_mismatch(f, n)
  BY <1>5, SameMaps DEF Q!mock_mismatch, QP!mock_mismatch, Q!TypeMatches, QP!TypeMatches,
                        Q!exit_test, QP!exit_test
<1>6. Q!will_return_zero => QP!will_return_zero
  BY DEF Q!will_return_zero, QP!will_return_zero, Q!exit_test, QP!exit_test,
         Q!NewValue, QP!NewValue
<1>7. ASSUME NEW f \in Functions, Q!mock_missing(f) PROVE QP!mock_missing(f)
  BY <1>7 DEF Q!mock_missing, QP!mock_missing, Q!exit_test, QP!exit_test
<1>8. Q!fail => QP!fail
  BY DEF Q!fail, QP!fail, Q!exit_test, QP!exit_test
<1>9. Q!fail_if_leftover_values => QP!fail_if_leftover_values
  BY SameMaps DEF Q!fail_if_leftover_values, QP!fail_if_leftover_values,
                  Q!has_leftover_values, QP!has_leftover_values
<1>10. Q!teardown_testing => QP!teardown_testing
  BY SameMaps DEF Q!teardown_testing, QP!teardown_testing
<1>11. UNCHANGED Q!vars => UNCHANGED QP!vars
  BY DEF Q!vars, QP!vars
<1>12. Q!MaybeName = QP!MaybeName
  BY DEF Q!MaybeName, QP!MaybeName
<1> QED
  BY <1>1, <1>2, <1>3, <1>4, <1>5, <1>6, <1>7, <1>8, <1>9, <1>10, <1>11, <1>12
     DEF Q!Next, QP!Next

\* The initial state and the steps of call ordering.
LEMMA SameCalls ==
    /\ O!Init => OP!Init
    /\ [O!Next]_(O!vars) => [OP!Next]_(OP!vars)
<1>1. O!Init => OP!Init
  BY DEF O!Init, OP!Init, O!NoReport, OP!NoReport
<1>2. O!initialize_testing => OP!initialize_testing
  BY DEF O!initialize_testing, OP!initialize_testing, O!NoReport, OP!NoReport
<1>3. ASSUME NEW f \in Functions, NEW c \in Counts, O!expect_function_call(f, c)
      PROVE  OP!expect_function_call(f, c)
  BY <1>3 DEF O!expect_function_call, OP!expect_function_call, O!list_add_value,
              OP!list_add_value
<1>4. /\ \A i, f : O!IsSearchResult(i, f) <=> OP!IsSearchResult(i, f)
      /\ \A i : O!FunctionAt(i) = OP!FunctionAt(i)
  BY DEF O!IsSearchResult, OP!IsSearchResult, O!StopsAt, OP!StopsAt, O!FunctionAt,
         OP!FunctionAt
<1>5. \A l, i : O!CountCall(l, i) = OP!CountCall(l, i)
  BY DEF O!CountCall, OP!CountCall, O!RemoveNode, OP!RemoveNode
<1>6. ASSUME NEW f \in Functions, O!function_called(f) PROVE OP!function_called(f)
  BY <1>4, <1>5, <1>6 DEF O!function_called, OP!function_called
<1>7. \A o, r : O!EndTest(o, r) => OP!EndTest(o, r)
  BY DEF O!EndTest, OP!EndTest
<1>8. ASSUME NEW f \in Functions, O!function_called_out_of_order(f)
      PROVE  OP!function_called_out_of_order(f)
  BY <1>4, <1>7, <1>8 DEF O!function_called_out_of_order, OP!function_called_out_of_order
<1>9. ASSUME NEW f \in Functions, O!function_called_unexpected(f)
      PROVE  OP!function_called_unexpected(f)
  BY <1>4, <1>7, <1>9 DEF O!function_called_unexpected, OP!function_called_unexpected
<1>10. O!expect_function_call_zero => OP!expect_function_call_zero
  BY <1>7 DEF O!expect_function_call_zero, OP!expect_function_call_zero, O!NoReport,
              OP!NoReport
<1>11. O!fail => OP!fail
  BY <1>7 DEF O!fail, OP!fail, O!NoReport, OP!NoReport
<1>12. O!fail_if_leftover_values => OP!fail_if_leftover_values
  BY <1>7 DEF O!fail_if_leftover_values, OP!fail_if_leftover_values,
              O!check_for_leftover_values_list, OP!check_for_leftover_values_list,
              O!Leftover, OP!Leftover
<1>13. UNCHANGED O!vars => UNCHANGED OP!vars
  BY DEF O!vars, OP!vars
<1> QED
  BY <1>1, <1>2, <1>3, <1>6, <1>8, <1>9, <1>10, <1>11, <1>12, <1>13 DEF O!Next, OP!Next

\* What the checks of the heap look at.
LEMMA SameLists ==
    /\ H!Allocated = HP!Allocated
    /\ H!LastNode = HP!LastNode
    /\ \A l, a : H!Unlink(l, a) = HP!Unlink(l, a)
    /\ \A l, c : H!After(l, c) = HP!After(l, c)
    /\ \A l, c : H!FreeAfter(l, c) = HP!FreeAfter(l, c)
    /\ \A e : H!Taken(e) = HP!Taken(e)
    /\ \A a : H!GuardsIntact(a) <=> HP!GuardsIntact(a)
    /\ \A l, c : H!NextNode(l, c) = HP!NextNode(l, c)
    /\ \A l : H!Lose(l) => HP!Lose(l)
<1>1. H!Allocated = HP!Allocated /\ H!Allocated' = HP!Allocated'
  BY DEF H!Allocated, HP!Allocated
<1>2. H!LastNode = HP!LastNode
  BY DEF H!LastNode, HP!LastNode
<1>3. \A l, a : H!Unlink(l, a) = HP!Unlink(l, a)
  BY DEF H!Unlink, HP!Unlink
<1>4. \A l, c : H!Before(l, c) = HP!Before(l, c)
  BY DEF H!Before, HP!Before
<1>5. \A l, c : H!After(l, c) = HP!After(l, c)
  BY <1>4 DEF H!After, HP!After
<1>6. \A a : H!GuardsIntact(a) <=> HP!GuardsIntact(a)
  BY DEF H!GuardsIntact, HP!GuardsIntact
<1>7. \A l, c : H!FreeAfter(l, c) = HP!FreeAfter(l, c)
  BY DEF H!FreeAfter, HP!FreeAfter, H!After, HP!After, H!Before, HP!Before,
         H!GuardsIntact, HP!GuardsIntact
<1>8. \A e : H!Taken(e) = HP!Taken(e)
  BY DEF H!Taken, HP!Taken
<1>9. \A l, c : H!NextNode(l, c) = HP!NextNode(l, c)
  BY <1>5 DEF H!NextNode, HP!NextNode
<1>10. \A g, l, c, t : H!LoseIf(g, l, c, t) = HP!LoseIf(g, l, c, t)
  BY <1>9 DEF H!LoseIf, HP!LoseIf
<1>11. \A l : H!Lose(l) => HP!Lose(l)
  BY <1>1, <1>10 DEF H!Lose, HP!Lose
<1> QED
  BY <1>1, <1>2, <1>3, <1>5, <1>6, <1>7, <1>8, <1>9, <1>11

\* The initial state and the steps of the heap.
LEMMA SameHeap ==
    /\ H!Init => HP!Init
    /\ [H!Next]_(H!vars) => [HP!Next]_(HP!vars)
<1>1. H!Init => HP!Init
  BY DEF H!Init, HP!Init, H!Taken, HP!Taken
<1>2. \A f, c, t, b, s : H!Begin(f, c, t, b, s) => HP!Begin(f, c, t, b, s)
  BY DEF H!Begin, HP!Begin, H!heapVars, HP!heapVars
<1>3. (H!NextTest => HP!NextTest) /\ (H!Succeeded <=> HP!Succeeded)
  BY DEF H!NextTest, HP!NextTest, H!Succeeded, HP!Succeeded
<1>4. H!begin_group_setup => HP!begin_group_setup
  BY <1>2, SameLists DEF H!begin_group_setup, HP!begin_group_setup
<1>5. H!begin_setup => HP!begin_setup
  BY <1>2, <1>3, SameLists DEF H!begin_setup, HP!begin_setup
<1>6. H!begin_test => HP!begin_test
  BY <1>2, <1>3, SameLists DEF H!begin_test, HP!begin_test
<1>7. H!begin_teardown => HP!begin_teardown
  BY <1>2, SameLists DEF H!begin_teardown, HP!begin_teardown, H!FixtureCheckPoint,
                         HP!FixtureCheckPoint
<1>8. H!NoTestPending <=> HP!NoTestPending
  BY <1>3 DEF H!NoTestPending, HP!NoTestPending
<1>9. H!begin_group_teardown => HP!begin_group_teardown
  BY <1>2, <1>8, SameLists DEF H!begin_group_teardown, HP!begin_group_teardown
<1>10. \A c : H!CompareWith(c) => HP!CompareWith(c)
  BY SameLists DEF H!CompareWith, HP!CompareWith
<1>11. \A c : H!fail_if_blocks_allocated(c) => HP!fail_if_blocks_allocated(c)
  <2>1. \A c : H!IsNode(c) <=> HP!IsNode(c)
    BY SameLists DEF H!IsNode, HP!IsNode
  <2> QED
    BY <1>10, <2>1, SameLists DEF H!fail_if_blocks_allocated, HP!fail_if_blocks_allocated
<1>12. H!group_ends => HP!group_ends
  BY <1>8, <1>11 DEF H!group_ends, HP!group_ends
<1>13. H!function_returns => HP!function_returns
  BY <1>11, SameLists DEF H!function_returns, HP!function_returns
<1>14. H!function_jumps => HP!function_jumps
  BY DEF H!function_jumps, HP!function_jumps, H!heapVars, HP!heapVars
<1>15. \A a : H!Link(a) => HP!Link(a)
  BY SameLists DEF H!Link, HP!Link
<1>16. ASSUME NEW a \in Addresses,
              H!test_malloc(a) \/ H!overrun(a) \/ H!test_free(a)
       PROVE  HP!test_malloc(a) \/ HP!overrun(a) \/ HP!test_free(a)
  <2>1. H!test_malloc(a) => HP!test_malloc(a)
    BY <1>15 DEF H!test_malloc, HP!test_malloc, H!runVars, HP!runVars
  <2>2. H!overrun(a) => HP!overrun(a)
    BY SameLists DEF H!overrun, HP!overrun, H!runVars, HP!runVars
  <2>3. H!test_free(a) => HP!test_free(a)
    BY SameLists DEF H!test_free, HP!test_free, H!runVars, HP!runVars
  <2> QED
    BY <1>16, <2>1, <2>2, <2>3
<1>17. ASSUME NEW a \in Addresses, NEW b \in Addresses,
              H!test_realloc(a, b) \/ H!test_realloc_fails(a, b)
       PROVE  HP!test_realloc(a, b) \/ HP!test_realloc_fails(a, b)
  <2>1. H!test_realloc(a, b) => HP!test_realloc(a, b)
    BY <1>15, SameLists DEF H!test_realloc, HP!test_realloc, H!runVars, HP!runVars
  <2>2. H!test_realloc_fails(a, b) => HP!test_realloc_fails(a, b)
    BY <1>15, SameLists DEF H!test_realloc_fails, HP!test_realloc_fails
  <2> QED
    BY <1>17, <2>1, <2>2
<1>18. UNCHANGED H!vars => UNCHANGED HP!vars
  BY DEF H!vars, HP!vars, H!heapVars, HP!heapVars, H!runVars, HP!runVars
<1> QED
  BY <1>1, <1>4, <1>5, <1>6, <1>7, <1>9, <1>12, <1>13, <1>14, <1>16, <1>17, <1>18
     DEF H!Next, HP!Next

\* The initial state and the steps of the runner.
LEMMA SameRunner ==
    /\ R!Init => RP!Init
    /\ [R!Next]_(R!vars) => [RP!Next]_(RP!vars)
<1> USE DEF R!flagVars, RP!flagVars, R!signalVars, RP!signalVars, R!runnerVars, RP!runnerVars
<1>1. R!Init => RP!Init
  BY DEF R!Init, RP!Init, R!NoTotals, RP!NoTotals, R!NoTruth, RP!NoTruth
<1>2. \A f : R!RunFunction(f) => RP!RunFunction(f)
  BY DEF R!RunFunction, RP!RunFunction
<1>3. \A code : R!FunctionDone(code) => RP!FunctionDone(code)
  BY DEF R!FunctionDone, RP!FunctionDone, R!RestoredHandler, RP!RestoredHandler
<1>4. \A how : R!Left(how) = RP!Left(how)
  BY DEF R!Left, RP!Left
<1>5. \A how : R!exit_test(how) => RP!exit_test(how)
  BY <1>4 DEF R!exit_test, RP!exit_test
<1>6. R!EndOfFunction => RP!EndOfFunction
  <2>1. \A code : R!function_returns(code) => RP!function_returns(code)
    BY <1>3, <1>4 DEF R!function_returns, RP!function_returns
  <2>2. R!function_leaves_something => RP!function_leaves_something
    BY <1>5 DEF R!function_leaves_something, RP!function_leaves_something
  <2>3. R!fail => RP!fail
    BY <1>5 DEF R!fail, RP!fail
  <2>4. R!exception_handler => RP!exception_handler
    BY <1>5 DEF R!exception_handler, RP!exception_handler
  <2>5. R!skip => RP!skip
    BY <1>5 DEF R!skip, RP!skip
  <2>6. R!stop => RP!stop
    BY <1>5 DEF R!stop, RP!stop
  <2>7. R!expected_assert_missing => RP!expected_assert_missing
    BY <1>5 DEF R!expected_assert_missing, RP!expected_assert_missing
  <2> QED
    BY <2>1, <2>2, <2>3, <2>4, <2>5, <2>6, <2>7 DEF R!EndOfFunction, RP!EndOfFunction
<1>7. R!TestsDone <=> RP!TestsDone
  BY DEF R!TestsDone, RP!TestsDone
<1>8. R!Runner => RP!Runner
  <2>1. \A leftover : R!function_jumped(leftover) => RP!function_jumped(leftover)
    BY <1>3, <1>4 DEF R!function_jumped, RP!function_jumped, R!ClearedStop, RP!ClearedStop
  <2>2. R!run_one_tests => RP!run_one_tests
    BY <1>2 DEF R!run_one_tests, RP!run_one_tests
  <2>3. R!setup_passed => RP!setup_passed
    BY <1>2 DEF R!setup_passed, RP!setup_passed, R!RunTest, RP!RunTest
  <2>4. R!setup_failed => RP!setup_failed
    BY DEF R!setup_failed, RP!setup_failed
  <2>5. R!test_ended => RP!test_ended
    BY DEF R!test_ended, RP!test_ended, R!TestStatus, RP!TestStatus
  <2>6. R!run_teardown => RP!run_teardown
    BY <1>2 DEF R!run_teardown, RP!run_teardown
  <2>7. R!count_test => RP!count_test
    BY DEF R!count_test, RP!count_test, R!Tally, RP!Tally
  <2>8. R!group_setup_failed => RP!group_setup_failed
    BY DEF R!group_setup_failed, RP!group_setup_failed
  <2>9. R!run_group_teardown => RP!run_group_teardown
    BY <1>2, <1>7 DEF R!run_group_teardown, RP!run_group_teardown
  <2>10. \A leak : R!finish_group(leak) => RP!finish_group(leak)
    BY <1>7 DEF R!finish_group, RP!finish_group
  <2> QED
    BY <2>1, <2>2, <2>3, <2>4, <2>5, <2>6, <2>7, <2>8, <2>9, <2>10 DEF R!Runner, RP!Runner
<1>9. \A n : R!run_group_tests(n) => RP!run_group_tests(n)
  BY <1>2 DEF R!run_group_tests, RP!run_group_tests, R!NoTotals, RP!NoTotals,
              R!NoTruth, RP!NoTruth
<1>10. R!expect_assert_failure => RP!expect_assert_failure
  BY DEF R!expect_assert_failure, RP!expect_assert_failure
<1>11. R!mock_assert => RP!mock_assert
  BY DEF R!mock_assert, RP!mock_assert, R!AfterAssert, RP!AfterAssert
<1>12. UNCHANGED R!vars => UNCHANGED RP!vars
  BY DEF R!vars, RP!vars
<1> QED
  BY <1>1, <1>6, <1>8, <1>9, <1>10, <1>11, <1>12 DEF R!Next, RP!Next

-----------------------------------------------------------------------------
(* Every step of the session is a step of each part, or leaves it alone.   *)

\* Mock values take part in every call of a function and in its end.
LEMMA ValueSteps == [Next]_vars => [Q!Next]_(Q!vars)
<1> SUFFICES ASSUME [Next]_vars PROVE Q!Next \/ UNCHANGED valueVars
  BY DEF valueVars, Q!vars
<1>1. "no_name" \in Q!MaybeName
  BY DEF Q!MaybeName
<1>2. FunctionRuns => Q!Next \/ UNCHANGED valueVars
  BY <1>1 DEF FunctionRuns, uses_mock_values, makes_calls, uses_heap, queues, Q!Next
<1>3. FunctionEnds => Q!Next \/ UNCHANGED valueVars
  BY DEF FunctionEnds, value_missing, call_refused, realloc_refused, function_fails,
         function_stops, function_leaks, function_checked, function_returns, queues, Q!Next
<1>4. RunnerSteps => Q!Next \/ UNCHANGED valueVars
  BY DEF RunnerSteps, group_setup_begins, setup_begins, test_begins, teardown_begins,
         group_teardown_begins, stopped_function_checked, function_jumped,
         group_without_setup, test_is_counted, group_ends, FunctionBegins, queues, Q!Next
<1>5. session_over \/ UNCHANGED vars => UNCHANGED valueVars
  BY DEF session_over, vars, queues
<1> QED
  BY <1>2, <1>3, <1>4, <1>5 DEF Next

\* So does call ordering, except that its list is gone when a function has ended.
LEMMA CallSteps == [Next]_vars => [O!Next]_(O!vars)
<1> SUFFICES ASSUME [Next]_vars PROVE O!Next \/ UNCHANGED callVars
  BY DEF callVars, O!vars
<1>1. FunctionRuns => O!Next \/ UNCHANGED callVars
  BY DEF FunctionRuns, uses_mock_values, makes_calls, uses_heap, queues, O!Next
<1>2. FunctionEnds => O!Next \/ UNCHANGED callVars
  BY DEF FunctionEnds, value_missing, call_refused, realloc_refused, function_fails,
         function_stops, function_leaks, function_checked, function_returns, queues, O!Next
<1>3. RunnerSteps => O!Next \/ UNCHANGED callVars
  BY DEF RunnerSteps, group_setup_begins, setup_begins, test_begins, teardown_begins,
         group_teardown_begins, stopped_function_checked, function_jumped,
         group_without_setup, test_is_counted, group_ends, FunctionBegins, queues, O!Next
<1>4. session_over \/ UNCHANGED vars => UNCHANGED callVars
  BY DEF session_over, vars, queues
<1> QED
  BY <1>1, <1>2, <1>3, <1>4 DEF Next

\* The heap is asked when a function begins and ends, and at the end of the group.
LEMMA HeapSteps == [Next]_vars => [H!Next]_(H!vars)
<1> SUFFICES ASSUME [Next]_vars PROVE H!Next \/ UNCHANGED heapVars
  BY DEF heapVars, H!vars, H!heapVars, H!runVars
<1>1. FunctionRuns => H!Next \/ UNCHANGED heapVars
  BY DEF FunctionRuns, uses_mock_values, makes_calls, uses_heap, H!Next
<1>2. FunctionEnds => H!Next \/ UNCHANGED heapVars
  BY DEF FunctionEnds, value_missing, call_refused, realloc_refused, function_fails,
         function_stops, function_leaks, function_checked, function_returns, H!Next
<1>3. RunnerSteps => H!Next \/ UNCHANGED heapVars
  BY DEF RunnerSteps, group_setup_begins, setup_begins, test_begins, teardown_begins,
         group_teardown_begins, stopped_function_checked, function_jumped,
         group_without_setup, test_is_counted, group_ends, H!Next
<1>4. session_over \/ UNCHANGED vars => UNCHANGED heapVars
  BY DEF session_over, vars
<1> QED
  BY <1>1, <1>2, <1>3, <1>4 DEF Next

\* The runner moves whenever a function begins or ends.
LEMMA RunnerMoves == [Next]_vars => [R!Next]_(R!vars)
<1> SUFFICES ASSUME [Next]_vars PROVE R!Next \/ UNCHANGED runnerVars
  BY DEF runnerVars, R!vars, R!flagVars, R!signalVars
<1>1. FunctionRuns => R!Next \/ UNCHANGED runnerVars
  BY DEF FunctionRuns, uses_mock_values, makes_calls, uses_heap
<1>2. FunctionEnds => R!Next \/ UNCHANGED runnerVars
  BY DEF FunctionEnds, value_missing, call_refused, realloc_refused, function_fails,
         function_stops, function_leaks, function_checked, function_returns, R!Next,
         R!EndOfFunction
<1>3. function_jumped => R!Next
  <2>1. (stopTest = 1 /\ (valueRc = -1 \/ outcome = "failed")) \in BOOLEAN
    OBVIOUS
  <2> QED
    BY <2>1 DEF function_jumped, R!Next, R!Runner
<1>4. group_ends => R!Next
  <2>1. (blocks # <<>>) \in BOOLEAN
    OBVIOUS
  <2> QED
    BY <2>1 DEF group_ends, R!Next, R!Runner
<1>5. RunnerSteps => R!Next \/ UNCHANGED runnerVars
  BY <1>3, <1>4 DEF RunnerSteps, group_setup_begins, setup_begins, test_begins,
     teardown_begins, group_teardown_begins, stopped_function_checked,
     group_without_setup, test_is_counted, R!Next, R!Runner
<1>6. session_over \/ UNCHANGED vars => UNCHANGED runnerVars
  BY DEF session_over, vars
<1> QED
  BY <1>1, <1>2, <1>5, <1>6 DEF Next

\* A session is a behaviour of each of its parts: the order in which the runner
\* asks them, and the jumps out of one into the other, use none of them in a way
\* its own module does not allow.
THEOREM PartsAreKept ==
    Spec => Q!Spec /\ O!Spec /\ H!Spec /\ R!Init /\ [][R!Next]_(R!vars)
<1>1. Init => Q!Init /\ O!Init /\ H!Init /\ R!Init
  BY DEF Init
<1> QED
  BY <1>1, ValueSteps, CallSteps, HeapSteps, RunnerMoves, PTL
     DEF Spec, Q!Spec, O!Spec, H!Spec

\* What is proved about the parts holds in the session.
PartsInv ==
    /\ QP!TypeInv /\ QP!HistoryInv
    /\ OP!OrderInv /\ OP!PassedOwesNothing
    /\ HP!HeapInv
    /\ RP!RunnerInv

\* The invariants of the parts hold before the group.
LEMMA PartsInvInit == Init => PartsInv
<1>1. Init => QP!Init /\ OP!Init /\ HP!Init /\ RP!Init
  BY SameValues, SameCalls, SameHeap, SameRunner DEF Init
<1>2. OP!Init => OP!PassedOwesNothing
  BY DEF OP!Init, OP!PassedOwesNothing
<1>3. QP!Init => QP!TypeInv /\ QP!HistoryInv
  BY PartsAssumption, QP!TypeInvInit, QP!HistoryInit
<1>4. OP!Init => OP!OrderInv
  BY PartsAssumption, OP!OrderInvInit
<1>5. HP!Init => HP!HeapInv
  BY PartsAssumption, HP!InitHasInv
<1>6. RP!Init => RP!RunnerInv
  BY PartsAssumption, RP!RunnerInvInit
<1> QED
  BY <1>1, <1>2, <1>3, <1>4, <1>5, <1>6 DEF PartsInv

\* Each part keeps its invariants, since a step of the session is one of its own.
LEMMA PartsInvNext == PartsInv /\ [Next]_vars => PartsInv'
<1> SUFFICES ASSUME PartsInv, [Next]_vars PROVE PartsInv'
  OBVIOUS
<1>1. QP!TypeInv' /\ QP!HistoryInv'
  <2>1. [QP!Next]_(QP!vars)
    BY ValueSteps, SameValues
  <2>2. QP!TypeInv'
    BY <2>1, PartsAssumption, QP!TypeInvNext DEF PartsInv
  <2> QED
    BY <2>1, <2>2, PartsAssumption, QP!HistoryNext DEF PartsInv
<1>2. OP!OrderInv' /\ OP!PassedOwesNothing'
  <2>1. [OP!Next]_(OP!vars)
    BY CallSteps, SameCalls
  <2> QED
    BY <2>1, PartsAssumption, OP!OrderInvNext, OP!PassedNext DEF PartsInv
<1>3. HP!HeapInv'
  <2>1. [HP!Next]_(HP!vars)
    BY HeapSteps, SameHeap
  <2> QED
    BY <2>1, PartsAssumption, HP!NextKeepsInv DEF PartsInv
<1>4. RP!RunnerInv'
  <2>1. [RP!Next]_(RP!vars)
    BY RunnerMoves, SameRunner
  <2> QED
    BY <2>1, PartsAssumption, RP!RunnerInvNext DEF PartsInv
<1> QED
  BY <1>1, <1>2, <1>3, <1>4 DEF PartsInv

-----------------------------------------------------------------------------
(* How the parts stand to each other.                                      *)

\* While the runner is in a function, the heap and both queues are in the same
\* function; behind a check that found nothing both queues have passed it; and
\* when the runner goes on, none of them is in a function any more.
InStep ==
    /\ at \in {"body", "jumped"} => phase \in {"body", "unwound"}
    /\ (at \in {"body", "jumped"} /\ phase = "body") => running /\ outcome = "running"
    /\ (at = "body" /\ phase = "unwound") =>
          /\ valueRc = 0 /\ outcome = "passed"
          /\ IF IsSetup THEN running ELSE ~ running
    /\ (at = "jumped" /\ phase = "unwound") => outcome \in {"passed", "failed"}
    /\ (at = "jumped" /\ ~ running) => stopTest = 0
    /\ at = "runner" => ~ running
    /\ (at # "gone" /\ stage \in R!Bodies) => heapStage = stage

\* The queues owe nothing.
Clean ==
    /\ \A v \in DOMAIN values : Q!Satisfied(v)
    /\ \A d \in DOMAIN calls : O!Plan!Optional(d) \/ ~ O!Plan!Open(d)

\* A test function that the runner takes for passed is clean until the runner
\* calls the next function.
PassedInv ==
    (\/ stage = "test" /\ at = "runner" /\ rc = 0
     \/ stage = "tested" /\ status = "PASSED")
    => Clean /\ heapStage = "test"

\* The setup function of a test has succeeded for the heap exactly when it has
\* for the runner, which then calls the test function next.
SetupInv ==
    /\ (heapStage = "setup" /\ verdict \in {"passed", "stopped"}) =>
          stage = "setup" /\ at = "runner" /\ rc = 0
    /\ (stage = "setup" /\ at = "runner" /\ rc = 0) => verdict \in {"passed", "stopped"}

\* Without an excuse there is no block when the runner goes on, and a function
\* is compared with the empty heap.  With a setup function for an excuse, its
\* test has the empty heap for its check point.
ExcuseInv ==
    /\ (at = "runner" /\ stage \notin {"exited", "aborted"} /\ excuses = {}) => blocks = <<>>
    /\ (at = "body" /\ excuses = {}) =>
          /\ ~ IsSetup
          /\ checkPoint = ListHead
          /\ phase = "unwound" => blocks = <<>>
    /\ (at # "gone" /\ stage = "setup") => "setup" \in excuses
    /\ stage \in {"setup", "test", "tested"} =>
          /\ excuses = {"setup"} => testCheckPoint = ListHead
          /\ excuses = {} => testCheckPoint \in {Null, ListHead}
    /\ ExitHasCause

SessionInv == InStep /\ PassedInv /\ SetupInv /\ ExcuseInv

-----------------------------------------------------------------------------
(* The parts stay in step.                                                 *)

\* What the session needs to know about its parts.
LEMMA PartFacts ==
    ASSUME PartsInv
    PROVE  /\ valueRc \in {0, -1}
           /\ (phase = "unwound" /\ valueRc = 0) => \A v \in DOMAIN values : Q!Satisfied(v)
           /\ outcome = "passed" =>
                 \A d \in DOMAIN calls : O!Plan!Optional(d) \/ ~ O!Plan!Open(d)
           /\ H!PassedLeavesNothing
           /\ running \in BOOLEAN /\ (running => verdict = "none")
           /\ blocks \in Seq(Addresses)
           /\ at \in {"runner", "body", "jumped", "gone"}
           /\ at \in {"body", "jumped"} => stage \in R!Bodies
           /\ at = "gone" => stage \in {"aborted", "undefined"}
           /\ at = "runner" => stage # "undefined"
           /\ at \in {"runner", "body"} => stopTest = 0
           /\ stopTest \in {0, 1}
<1>1. valueRc \in {0, -1}
  BY DEF PartsInv, QP!TypeInv, QP!TypeOK
<1>2. (phase = "unwound" /\ valueRc = 0) => \A v \in DOMAIN values : Q!Satisfied(v)
  BY DEF PartsInv, QP!HistoryInv, QP!PassedMeansServed, QP!Values, QP!Satisfied, Q!Satisfied
<1>3. outcome = "passed" =>
         \A d \in DOMAIN calls : O!Plan!Optional(d) \/ ~ O!Plan!Open(d)
  <2>1. DOMAIN calls = 1 .. Len(calls)
    BY DEF PartsInv, OP!OrderInv, OP!TypeOK
  <2> QED
    BY <2>1 DEF PartsInv, OP!PassedOwesNothing, OP!Plan!Optional, O!Plan!Optional,
                OP!Plan!Open, O!Plan!Open
<1>4. H!PassedLeavesNothing
  BY DEF PartsInv, HP!HeapInv, HP!PassedLeavesNothing, H!PassedLeavesNothing, HP!Leaks,
         H!Leaks, HP!Allocated, H!Allocated
<1>5. /\ running \in BOOLEAN /\ (running => verdict = "none")
      /\ blocks \in Seq(Addresses)
  BY DEF PartsInv, HP!HeapInv, HP!RunInv, HP!ListInv, HP!Ordered
<1>6. /\ at \in {"runner", "body", "jumped", "gone"} /\ stopTest \in {0, 1}
      /\ at \in {"body", "jumped"} => stage \in R!Bodies
      /\ at = "gone" => stage \in {"aborted", "undefined"}
      /\ at = "runner" => stage # "undefined"
      /\ at \in {"runner", "body"} => stopTest = 0
  BY DEF PartsInv, RP!RunnerInv, RP!TypeInv, RP!ControlInv, RP!Bodies, R!Bodies
<1> QED
  BY <1>1, <1>2, <1>3, <1>4, <1>5, <1>6

\* A function begins in all parts.
Begun(f) ==
    /\ at' = "body" /\ stage' = f /\ phase' = "body" /\ outcome' = "running"
    /\ heapStage' = f /\ running' = TRUE /\ verdict' = "none" /\ blocks' = blocks

\* The runner only calls a function when it is in none.
LEMMA Begins ==
    ASSUME PartsInv
    PROVE  /\ group_setup_begins => at = "runner" /\ Begun("group_setup")
           /\ setup_begins =>
                 at = "runner" /\ stage \in {"counted", "group_setup"} /\ Begun("setup")
           /\ test_begins => at = "runner" /\ Begun("test")
           /\ teardown_begins => at = "runner" /\ stage = "tested" /\ Begun("teardown")
           /\ group_teardown_begins => at = "runner" /\ Begun("group_teardown")
<1>1. stage \in {"idle", "returned", "counted", "tested", "no_tests"} => at = "runner"
  BY PartFacts DEF R!Bodies
<1>2. \A left : FunctionBegins(left) => phase' = "body" /\ outcome' = "running"
  BY DEF FunctionBegins, Q!initialize_testing, O!initialize_testing
<1>3. group_setup_begins => at = "runner" /\ Begun("group_setup")
  BY <1>1, <1>2 DEF group_setup_begins, Begun, R!run_group_tests, R!RunFunction,
                    H!begin_group_setup, H!Begin, H!heapVars
<1>4. setup_begins =>
         at = "runner" /\ stage \in {"counted", "group_setup"} /\ Begun("setup")
  BY <1>1, <1>2 DEF setup_begins, Begun, R!run_one_tests, R!RunFunction,
                    H!begin_setup, H!Begin, H!heapVars
<1>5. test_begins => at = "runner" /\ Begun("test")
  BY <1>1, <1>2 DEF test_begins, Begun, R!run_one_tests, R!setup_passed, R!RunTest,
                    R!RunFunction, H!begin_test, H!Begin, H!heapVars
<1>6. teardown_begins => at = "runner" /\ stage = "tested" /\ Begun("teardown")
  BY <1>1, <1>2 DEF teardown_begins, Begun, R!run_teardown, R!RunFunction,
                    H!begin_teardown, H!Begin, H!heapVars
<1>7. group_teardown_begins => at = "runner" /\ Begun("group_teardown")
  BY <1>1, <1>2 DEF group_teardown_begins, Begun, R!run_group_teardown, R!TestsDone,
                    R!RunFunction, H!begin_group_teardown, H!Begin, H!heapVars
<1> QED
  BY <1>3, <1>4, <1>5, <1>6, <1>7

\* A function that begins disturbs only what is known of the blocks left.
LEMMA BegunKeeps ==
    ASSUME NEW f \in R!Bodies, Begun(f)
    PROVE  InStep' /\ PassedInv' /\ SetupInv'
  BY DEF Begun, InStep, PassedInv, SetupInv, IsSetup, R!Bodies

\* An empty heap is compared with its head.
LEMMA EmptyHeap == blocks = <<>> => H!LastNode = ListHead
  BY DEF H!LastNode

\* The excuse of a setup function lasts until its teardown function begins.
LEMMA SetupExcuse == "setup" \notin Unanswered /\ (Unanswered = {} => excuses = {})
  BY DEF Unanswered

\* The check points of a function that begins without an excuse.
LEMMA BeginKeepsExcuses ==
    ASSUME PartsInv, SessionInv,
           \/ group_setup_begins \/ setup_begins \/ test_begins \/ teardown_begins
           \/ group_teardown_begins
    PROVE  SessionInv'
<1>1. CASE group_setup_begins
  <2>1. excuses' = {"group_setup"}
    BY <1>1 DEF group_setup_begins, FunctionBegins
  <2>2. Begun("group_setup")
    BY <1>1, Begins
  <2>3. ExcuseInv'
    BY <2>1, <2>2 DEF ExcuseInv, Begun, ExitHasCause
  <2> QED
    BY <2>2, <2>3, BegunKeeps DEF SessionInv, R!Bodies
<1>2. CASE setup_begins
  <2>1. excuses' = Unanswered \cup {"setup"} /\ testCheckPoint' = H!LastNode
    BY <1>2 DEF setup_begins, FunctionBegins, H!begin_setup, H!Begin
  <2>2. Begun("setup") /\ at = "runner" /\ stage \in {"counted", "group_setup"}
    BY <1>2, Begins
  <2>3. excuses' = {"setup"} => testCheckPoint' = ListHead
    <3> SUFFICES ASSUME excuses' = {"setup"} PROVE testCheckPoint' = ListHead
      OBVIOUS
    <3>1. excuses = {}
      BY <2>1, SetupExcuse
    <3>2. blocks = <<>>
      BY <2>2, <3>1 DEF SessionInv, ExcuseInv
    <3> QED
      BY <2>1, <3>2, EmptyHeap
  <2>4. "setup" \in excuses'
    BY <2>1
  <2>5. ExcuseInv'
    BY <2>2, <2>3, <2>4 DEF ExcuseInv, Begun, ExitHasCause
  <2> QED
    BY <2>2, <2>5, BegunKeeps DEF SessionInv, R!Bodies
<1>3. CASE test_begins
  <2>1. Begun("test") /\ at = "runner"
    BY <1>3, Begins
  <2>2. CASE R!run_one_tests /\ FunctionBegins(Unanswered)
    <3>1. stage \in {"counted", "group_setup"} /\ excuses' = Unanswered
      BY <2>2 DEF R!run_one_tests, FunctionBegins
    <3>2. checkPoint' = H!LastNode /\ testCheckPoint' = Null
      <4>1. ~ (heapStage = "setup" /\ H!Succeeded)
        BY <3>1 DEF SessionInv, SetupInv, H!Succeeded
      <4> QED
        BY <1>3, <4>1 DEF test_begins, H!begin_test, H!Begin
    <3>3. excuses' = {} => checkPoint' = ListHead
      BY <2>1, <3>1, <3>2, SetupExcuse, EmptyHeap DEF SessionInv, ExcuseInv
    <3>4. "setup" \notin excuses'
      BY <3>1, SetupExcuse
    <3> QED
      BY <2>1, <3>2, <3>3, <3>4, BegunKeeps
         DEF SessionInv, ExcuseInv, Begun, ExitHasCause, R!Bodies, IsSetup
  <2>3. CASE R!setup_passed /\ FunctionBegins(excuses)
    <3>1. stage = "setup" /\ rc = 0 /\ excuses' = excuses
      BY <2>3 DEF R!setup_passed, FunctionBegins
    <3>2. heapStage = "setup" /\ H!Succeeded
      BY <2>1, <3>1 DEF SessionInv, SetupInv, InStep, H!Succeeded, R!Bodies
    <3>3. testCheckPoint' = testCheckPoint
      BY <1>3, <3>2 DEF test_begins, H!begin_test, H!NextTest, H!Begin
    <3>4. /\ "setup" \in excuses
          /\ excuses = {"setup"} => testCheckPoint = ListHead
      BY <2>1, <3>1 DEF SessionInv, ExcuseInv
    <3> QED
      BY <2>1, <3>1, <3>3, <3>4, BegunKeeps
         DEF SessionInv, ExcuseInv, Begun, ExitHasCause, R!Bodies, IsSetup
  <2> QED
    BY <1>3, <2>2, <2>3 DEF test_begins
<1>4. CASE teardown_begins
  <2>1. Begun("teardown") /\ at = "runner" /\ stage = "tested"
    BY <1>4, Begins
  <2>2. /\ excuses' = excuses \ {"setup"}
        /\ checkPoint' = IF testCheckPoint # Null THEN testCheckPoint ELSE H!LastNode
    BY <1>4 DEF teardown_begins, FunctionBegins, H!begin_teardown, H!Begin,
                H!FixtureCheckPoint
  <2>3. excuses' = {} => checkPoint' = ListHead
    <3> SUFFICES ASSUME excuses' = {} PROVE checkPoint' = ListHead
      OBVIOUS
    <3>1. CASE excuses = {"setup"}
      <4>1. testCheckPoint = ListHead
        BY <2>1, <3>1 DEF SessionInv, ExcuseInv
      <4> QED
        BY <2>2, <4>1, PartsAssumption
    <3>2. CASE excuses = {}
      <4>1. blocks = <<>> /\ testCheckPoint \in {Null, ListHead}
        BY <2>1, <3>2 DEF SessionInv, ExcuseInv
      <4> QED
        BY <2>2, <4>1, EmptyHeap
    <3> QED
      BY <2>2, <3>1, <3>2
  <2>4. ExcuseInv'
    BY <2>1, <2>3 DEF ExcuseInv, Begun, ExitHasCause, IsSetup
  <2> QED
    BY <2>1, <2>4, BegunKeeps DEF SessionInv, R!Bodies
<1>5. CASE group_teardown_begins
  <2>1. Begun("group_teardown") /\ checkPoint' = ListHead
    BY <1>5, Begins DEF group_teardown_begins, H!begin_group_teardown, H!Begin
  <2>2. ExcuseInv'
    BY <2>1 DEF ExcuseInv, Begun, ExitHasCause, IsSetup
  <2> QED
    BY <2>1, <2>2, BegunKeeps DEF SessionInv, R!Bodies
<1> QED
  BY <1>1, <1>2, <1>3, <1>4, <1>5

\* What a function does in its body disturbs nothing of this.
LEMMA RunKeeps ==
    ASSUME PartsInv, SessionInv, FunctionRuns
    PROVE  SessionInv'
<1>1. at = "body" /\ phase = "body"
  BY DEF FunctionRuns, uses_mock_values, makes_calls, uses_heap, InBody
<1>2. UNCHANGED <<at, stage, rc, status, stopTest, excuses>>
  BY DEF FunctionRuns, uses_mock_values, makes_calls, uses_heap, runnerVars
<1>3. UNCHANGED <<phase, valueRc>>
  BY DEF FunctionRuns, uses_mock_values, makes_calls, uses_heap, queues, valueVars,
         Q!mock, Q!will_return
<1>4. UNCHANGED outcome
  BY DEF FunctionRuns, uses_mock_values, makes_calls, uses_heap, queues, callVars,
         O!function_called, O!expect_function_call
<1>5. UNCHANGED <<heapStage, running, verdict, checkPoint, testCheckPoint>>
  BY DEF FunctionRuns, uses_mock_values, makes_calls, uses_heap, heapVars,
         H!test_malloc, H!overrun, H!test_free, H!test_realloc, H!runVars
<1>6. stage \in R!Bodies
  BY <1>1, PartFacts
<1>7. InStep'
  BY <1>1, <1>2, <1>3, <1>4, <1>5 DEF SessionInv, InStep, IsSetup
<1>8. PassedInv' /\ SetupInv'
  BY <1>1, <1>2, <1>5, <1>6 DEF SessionInv, PassedInv, SetupInv, R!Bodies
<1>9. ExcuseInv'
  BY <1>1, <1>2, <1>3, <1>5 DEF SessionInv, ExcuseInv, ExitHasCause, IsSetup
<1> QED
  BY <1>7, <1>8, <1>9 DEF SessionInv

\* exit_test of the runner.
LEMMA RunnerExits ==
    ASSUME PartsInv,
           \/ R!fail \/ R!skip \/ R!stop \/ R!function_leaves_something
    PROVE  /\ at = "body" /\ stage \in R!Bodies
           /\ \/ at' = "jumped" /\ stage' = stage
              \/ at' = "gone" /\ stage' = "aborted"
           /\ ~ R!stop => stopTest' = 0
  BY PartFacts DEF R!fail, R!skip, R!stop, R!function_leaves_something, R!exit_test

\* A function that is left by a jump takes its blocks along to the jump's end.
LEMMA JumpKeeps ==
    ASSUME SessionInv, at = "body", stage \in R!Bodies,
           \/ at' = "jumped" /\ stage' = stage
           \/ at' = "gone" /\ stage' = "aborted",
           UNCHANGED <<heapStage, testCheckPoint, excuses>>,
           stage = "setup" => verdict' \notin {"passed", "stopped"},
           phase' \in {"body", "unwound"},
           phase' = "body" => running' /\ outcome' = "running",
           phase' = "unwound" => outcome' \in {"passed", "failed"},
           ~ running' => stopTest' = 0
    PROVE  SessionInv'
<1>1. heapStage = stage
  BY DEF SessionInv, InStep
<1>2. InStep'
  BY <1>1 DEF InStep, R!Bodies
<1>3. PassedInv' /\ SetupInv'
  BY <1>1 DEF PassedInv, SetupInv, R!Bodies
<1>4. ExcuseInv'
  BY DEF SessionInv, ExcuseInv, ExitHasCause, R!Bodies
<1> QED
  BY <1>2, <1>3, <1>4 DEF SessionInv

\* A failed check, of whichever part, ends the function in all of them.
LEMMA FailKeeps ==
    ASSUME PartsInv, SessionInv,
           \/ value_missing \/ call_refused \/ realloc_refused \/ function_fails
           \/ function_stops \/ function_leaks
    PROVE  SessionInv'
<1>1. at = "body" /\ phase = "body" /\ running /\ verdict = "none" /\ outcome = "running"
  BY PartFacts DEF value_missing, call_refused, realloc_refused, function_fails,
     function_stops, function_leaks, InBody, SessionInv, InStep
<1>2. CASE function_stops
  <2>1. UNCHANGED <<phase, outcome, heapStage, testCheckPoint, running, verdict, excuses>>
    BY <1>2 DEF function_stops, queues, valueVars, callVars, heapVars
  <2>2. R!stop
    BY <1>2 DEF function_stops
  <2> QED
    BY <1>1, <2>1, <2>2, RunnerExits, JumpKeeps
<1>3. CASE ~ function_stops
  <2>1. R!fail \/ R!skip \/ R!function_leaves_something
    BY <1>3 DEF value_missing, call_refused, realloc_refused, function_fails, function_leaks
  <2>2. ~ R!stop
    BY <2>1, PartFacts DEF R!fail, R!skip, R!function_leaves_something, R!stop
  <2>3. phase' = "unwound" /\ outcome' = "failed" /\ excuses' = excuses
    BY <1>3 DEF value_missing, call_refused, realloc_refused, function_fails,
       function_leaks, Q!fail, Q!mock_missing, Q!exit_test, O!fail, O!EndTest,
       O!function_called_out_of_order, O!function_called_unexpected
  <2>4. CASE realloc_refused
    <3>1. UNCHANGED <<heapStage, testCheckPoint>> /\ verdict' = "failed"
      BY <2>4 DEF realloc_refused, H!test_realloc_fails
    <3> QED
      BY <1>1, <2>1, <2>2, <2>3, <3>1, RunnerExits, JumpKeeps
  <2>5. CASE function_leaks
    <3>1. UNCHANGED <<heapStage, testCheckPoint>> /\ stage # "setup"
      BY <2>5 DEF function_leaks, H!function_returns, IsSetup
    <3> QED
      BY <1>1, <2>1, <2>2, <2>3, <3>1, RunnerExits, JumpKeeps
  <2>6. CASE value_missing \/ call_refused \/ function_fails
    <3>1. UNCHANGED <<heapStage, testCheckPoint, running, verdict>>
      BY <2>6 DEF value_missing, call_refused, function_fails, heapVars
    <3> QED
      BY <1>1, <2>1, <2>2, <2>3, <3>1, RunnerExits, JumpKeeps
  <2> QED
    BY <1>3, <2>4, <2>5, <2>6
<1> QED
  BY <1>2, <1>3

\* The answer of the leftover check of both queues.
LEMMA LeftoverChecked ==
    ASSUME Q!fail_if_leftover_values, O!fail_if_leftover_values
    PROVE  /\ phase' = "unwound" /\ valueRc' \in {0, -1}
           /\ outcome' \in {"passed", "failed"}
  BY DEF Q!fail_if_leftover_values, Q!has_leftover_values, O!fail_if_leftover_values,
         O!EndTest

\* A comparison with the list head that finds nothing: there is no block.
LEMMA ComparedWithHead ==
    ASSUME blocks \in Seq(Addresses), H!fail_if_blocks_allocated(ListHead)
    PROVE  /\ verdict' = "passed" => blocks = <<>> /\ blocks' = <<>>
           /\ blocks = <<>> => blocks' = <<>>
<1>1. H!CompareWith(ListHead)
  BY DEF H!fail_if_blocks_allocated, H!IsNode
<1>2. H!After(blocks, ListHead) = blocks
  <2>1. H!Before(blocks, ListHead) = <<>>
    BY DEF H!Before
  <2>2. SubSeq(blocks, 1, Len(blocks)) = blocks
    OBVIOUS
  <2> QED
    BY <2>1, <2>2 DEF H!After
<1> QED
  BY <1>1, <1>2 DEF H!CompareWith

\* The function ended and nothing is left over, or it ends by a jump.
LEMMA CheckedKeeps ==
    ASSUME PartsInv, SessionInv, function_checked
    PROVE  SessionInv'
<1>1. at = "body" /\ phase = "body" /\ running /\ verdict = "none"
      /\ heapStage = stage /\ stage \in R!Bodies
  BY PartFacts DEF function_checked, InBody, SessionInv, InStep
<1>2. /\ phase' = "unwound" /\ valueRc' \in {0, -1}
      /\ outcome' \in {"passed", "failed"} /\ excuses' = excuses
  BY LeftoverChecked DEF function_checked
<1>3. IsSetup => UNCHANGED <<heapStage, running, verdict, checkPoint, testCheckPoint, blocks>>
  BY DEF function_checked, heapVars
<1>4. ~ IsSetup =>
         /\ UNCHANGED <<heapStage, checkPoint, testCheckPoint>>
         /\ running' = FALSE /\ verdict' = "passed"
         /\ H!fail_if_blocks_allocated(checkPoint)
  BY <1>1 DEF function_checked, H!function_returns, IsSetup
<1>5. CASE LeftoverFound
  <2>1. R!function_leaves_something
    BY <1>5 DEF function_checked
  <2>2. ~ R!stop
    BY <2>1, PartFacts DEF R!function_leaves_something, R!stop
  <2>3. /\ UNCHANGED <<heapStage, testCheckPoint>>
        /\ stage = "setup" => verdict' \notin {"passed", "stopped"}
    BY <1>1, <1>3, <1>4 DEF IsSetup
  <2> QED
    BY <1>1, <1>2, <2>1, <2>2, <2>3, RunnerExits, JumpKeeps
<1>6. CASE ~ LeftoverFound
  <2>1. UNCHANGED <<at, stage, rc, status, stopTest>>
    BY <1>6 DEF function_checked, runnerVars
  <2>2. valueRc' = 0 /\ outcome' = "passed"
    BY <1>2, <1>6 DEF LeftoverFound
  <2>3. InStep'
    BY <1>1, <1>2, <1>3, <1>4, <2>1, <2>2 DEF InStep, IsSetup
  <2>4. PassedInv' /\ SetupInv'
    BY <1>1, <1>3, <1>4, <2>1 DEF PassedInv, SetupInv, IsSetup, R!Bodies
  <2>5. excuses = {} => ~ IsSetup /\ checkPoint = ListHead
    BY <1>1 DEF SessionInv, ExcuseInv
  <2>6. excuses = {} => blocks' = <<>>
    BY <1>4, <2>5, PartFacts, ComparedWithHead
  <2>7. ExcuseInv'
    BY <1>1, <1>2, <1>3, <1>4, <2>1, <2>5, <2>6 DEF SessionInv, ExcuseInv, ExitHasCause, IsSetup
  <2> QED
    BY <2>3, <2>4, <2>7 DEF SessionInv
<1> QED
  BY <1>5, <1>6

\* The queues of a function that passed are clean, and stay so in teardown_testing.
LEMMA CleanAtEnd ==
    ASSUME PartsInv, Q!teardown_testing, UNCHANGED callVars,
           valueRc = 0, outcome = "passed"
    PROVE  Clean'
<1>1. phase = "unwound" /\ UNCHANGED <<values, served, calls, called>>
  BY DEF Q!teardown_testing, callVars
<1>2. Clean
  BY <1>1, PartFacts DEF Clean
<1> QED
  BY <1>1, <1>2 DEF Clean, Q!Satisfied, O!Plan!Optional, O!Plan!Open

\* A function returns to the runner.
LEMMA ReturnKeeps ==
    ASSUME PartsInv, SessionInv, NEW code \in {0, 1}, function_returns(code)
    PROVE  SessionInv'
<1>1. at = "body" /\ phase = "unwound" /\ stage \in R!Bodies /\ heapStage = stage
      /\ valueRc = 0 /\ outcome = "passed" /\ (IF IsSetup THEN running ELSE ~ running)
  BY PartFacts DEF function_returns, SessionInv, InStep
<1>2. at' = "runner" /\ rc' = code /\ UNCHANGED <<stage, status, stopTest, excuses>>
  BY DEF function_returns, R!function_returns, R!FunctionDone, R!flagVars
<1>3. IsSetup =>
         /\ running' = FALSE /\ UNCHANGED <<heapStage, testCheckPoint>>
         /\ verdict' = IF code = 0 THEN "passed" ELSE "failed"
  BY <1>1 DEF function_returns, IsSetup, H!function_returns, H!function_jumps
<1>4. ~ IsSetup =>
         UNCHANGED <<heapStage, running, verdict, testCheckPoint, blocks>>
  BY DEF function_returns, heapVars
<1>5. Clean'
  BY <1>1, CleanAtEnd DEF function_returns
<1>6. InStep'
  BY <1>1, <1>2, <1>3, <1>4, PartFacts DEF InStep, R!Bodies
<1>7. PassedInv'
  BY <1>1, <1>2, <1>3, <1>4, <1>5 DEF PassedInv, R!Bodies
<1>8. SetupInv'
  BY <1>1, <1>2, <1>3, <1>4 DEF SetupInv, IsSetup, R!Bodies
<1>9. ExcuseInv'
  BY <1>1, <1>2, <1>3, <1>4 DEF SessionInv, ExcuseInv, ExitHasCause, IsSetup, R!Bodies
<1> QED
  BY <1>6, <1>7, <1>8, <1>9 DEF SessionInv

\* A function that was left by a jump comes back to the runner: passed only if it
\* called stop() and has nothing left over.
LEMMA JumpedKeeps ==
    ASSUME PartsInv, SessionInv, function_jumped
    PROVE  SessionInv'
<1>1. at = "jumped" /\ phase = "unwound" /\ stage \in R!Bodies /\ heapStage = stage
      /\ outcome \in {"passed", "failed"} /\ (~ running => stopTest = 0)
  BY PartFacts DEF function_jumped, SessionInv, InStep
<1>2. /\ at' = "runner" /\ UNCHANGED <<stage, status>> /\ excuses' = excuses \cup {"jump"}
      /\ rc' \in {0, -1}
      /\ rc' = 0 => stopTest = 1 /\ valueRc # -1 /\ outcome # "failed"
  BY DEF function_jumped, R!function_jumped, R!FunctionDone
<1>3. rc' = 0 => Clean' /\ running
  <2> SUFFICES ASSUME rc' = 0 PROVE Clean' /\ running
    OBVIOUS
  <2>1. valueRc = 0 /\ outcome = "passed" /\ running
    BY <1>1, <1>2, PartFacts
  <2> QED
    BY <2>1, CleanAtEnd DEF function_jumped
<1>4. running =>
         /\ running' = FALSE /\ UNCHANGED <<heapStage, testCheckPoint>>
         /\ verdict' = IF rc' = 0 THEN "stopped" ELSE "failed"
  BY DEF function_jumped, H!function_jumps
<1>5. ~ running => UNCHANGED <<heapStage, running, verdict, testCheckPoint>>
  BY DEF function_jumped, heapVars
<1>6. InStep'
  BY <1>1, <1>2, <1>4, <1>5, PartFacts DEF InStep, R!Bodies
<1>7. PassedInv'
  BY <1>1, <1>2, <1>3, <1>4, <1>5 DEF PassedInv, R!Bodies
<1>8. SetupInv'
  BY <1>1, <1>2, <1>3, <1>4, <1>5 DEF SessionInv, SetupInv
<1>9. ExcuseInv'
  BY <1>1, <1>2 DEF SessionInv, ExcuseInv, ExitHasCause, R!Bodies
<1> QED
  BY <1>6, <1>7, <1>8, <1>9 DEF SessionInv

\* The check of the queues behind the jump of stop().
LEMMA StoppedKeeps ==
    ASSUME PartsInv, SessionInv, stopped_function_checked
    PROVE  SessionInv'
<1>1. at = "jumped" /\ phase = "body"
  BY DEF stopped_function_checked
<1>2. UNCHANGED <<at, stage, rc, status, stopTest, heapStage, running, verdict,
                  testCheckPoint, excuses>>
  BY DEF stopped_function_checked, runnerVars, heapVars
<1>3. phase' = "unwound" /\ outcome' \in {"passed", "failed"}
  BY LeftoverChecked DEF stopped_function_checked
<1>4. InStep'
  BY <1>1, <1>2, <1>3 DEF SessionInv, InStep
<1>5. PassedInv' /\ SetupInv'
  BY <1>1, <1>2, PartFacts DEF SessionInv, PassedInv, SetupInv, R!Bodies
<1>6. ExcuseInv'
  BY <1>1, <1>2 DEF SessionInv, ExcuseInv, ExitHasCause
<1> QED
  BY <1>4, <1>5, <1>6 DEF SessionInv

\* The runner between two functions.
LEMMA CountKeeps ==
    ASSUME PartsInv, SessionInv, group_without_setup \/ test_is_counted
    PROVE  SessionInv'
<1>1. UNCHANGED <<phase, valueRc, outcome, values, served, calls, called, heapStage, running,
                  verdict, checkPoint, testCheckPoint, blocks, excuses>>
  BY DEF group_without_setup, test_is_counted, queues, valueVars, callVars, heapVars
<1>2. at = "runner" /\ at' = "runner"
  <2>1. group_without_setup => stage \in {"idle", "returned"} /\ at' = at
    BY DEF group_without_setup, R!run_group_tests, R!RunFunction
  <2>2. test_is_counted => at = "runner" /\ at' = at
    BY DEF test_is_counted, R!setup_failed, R!test_ended, R!count_test, R!group_setup_failed
  <2> QED
    BY <2>1, <2>2, PartFacts DEF R!Bodies
<1>3. /\ group_without_setup => stage \in {"idle", "returned"} /\ stage' = "counted"
      /\ R!setup_failed =>
            stage = "setup" /\ rc # 0 /\ stage' = "tested" /\ status' = "ERROR"
      /\ R!test_ended =>
            stage = "test" /\ stage' = "tested" /\ (status' = "PASSED" => rc = 0)
      /\ R!count_test => stage \in {"tested", "teardown"} /\ stage' = "counted"
      /\ R!group_setup_failed => stage = "group_setup" /\ stage' = "no_tests"
  BY DEF group_without_setup, R!run_group_tests, R!RunFunction, R!setup_failed,
         R!test_ended, R!TestStatus, R!count_test, R!group_setup_failed
<1>4. group_without_setup \/ R!setup_failed \/ R!test_ended \/ R!count_test
      \/ R!group_setup_failed
  BY DEF test_is_counted
<1>5. InStep'
  BY <1>1, <1>2, <1>3, <1>4 DEF SessionInv, InStep, R!Bodies
<1>6. Clean => Clean'
  BY <1>1 DEF Clean, Q!Satisfied, O!Plan!Optional, O!Plan!Open
<1>7. PassedInv'
  BY <1>1, <1>2, <1>3, <1>4, <1>6 DEF SessionInv, PassedInv
<1>8. SetupInv'
  BY <1>1, <1>2, <1>3, <1>4 DEF SessionInv, SetupInv
<1>9. ExcuseInv'
  BY <1>1, <1>2, <1>3, <1>4 DEF SessionInv, ExcuseInv, ExitHasCause
<1> QED
  BY <1>5, <1>7, <1>8, <1>9 DEF SessionInv

\* The last comparison of the heap: what it finds has an excuse.
LEMMA EndKeeps ==
    ASSUME PartsInv, SessionInv, group_ends
    PROVE  SessionInv'
<1>1. at = "runner" /\ at' = "runner" /\ stage \notin {"exited", "aborted"}
  BY PartFacts DEF group_ends, R!finish_group, R!TestsDone, R!Bodies
<1>2. /\ stage' \in {"returned", "aborted", "exited"}
      /\ stage' = "returned" <=> blocks = <<>>
      /\ excuses' = excuses
  BY DEF group_ends, R!finish_group
<1>3. /\ heapStage' \in {"returned", "exited"} /\ running' = running
      /\ blocks = <<>> => blocks' = <<>>
  BY PartFacts, ComparedWithHead DEF group_ends, H!group_ends
<1>4. InStep'
  BY <1>1, <1>2, <1>3 DEF SessionInv, InStep, R!Bodies
<1>5. PassedInv' /\ SetupInv'
  BY <1>2, <1>3 DEF PassedInv, SetupInv
<1>6. ExcuseInv'
  BY <1>1, <1>2, <1>3 DEF SessionInv, ExcuseInv, ExitHasCause
<1> QED
  BY <1>4, <1>5, <1>6 DEF SessionInv

-----------------------------------------------------------------------------
(* The theorems.                                                           *)

\* Before the group everything is empty.
LEMMA SessionInvInit == Init => SessionInv
<1> SUFFICES ASSUME Init PROVE SessionInv
  OBVIOUS
<1>1. /\ at = "runner" /\ stage = "idle" /\ heapStage = "group" /\ running = FALSE
      /\ blocks = <<>>
  BY DEF Init, R!Init, H!Init
<1> QED
  BY <1>1 DEF SessionInv, InStep, PassedInv, SetupInv, ExcuseInv, ExitHasCause, R!Bodies

\* Every step keeps the invariant.
LEMMA SessionInvNext == PartsInv /\ SessionInv /\ [Next]_vars => SessionInv'
<1> SUFFICES ASSUME PartsInv, SessionInv, [Next]_vars PROVE SessionInv'
  OBVIOUS
<1>1. CASE FunctionRuns
  BY <1>1, RunKeeps
<1>2. CASE FunctionEnds
  BY <1>2, FailKeeps, CheckedKeeps, ReturnKeeps DEF FunctionEnds
<1>3. CASE RunnerSteps
  BY <1>3, BeginKeepsExcuses, StoppedKeeps, JumpedKeeps, CountKeeps, EndKeeps DEF RunnerSteps
<1>4. CASE session_over \/ UNCHANGED vars
  <2>1. UNCHANGED vars
    BY <1>4 DEF session_over
  <2>2. UNCHANGED <<phase, valueRc, outcome, values, served, calls, called, heapStage, running,
                    verdict, checkPoint, testCheckPoint, blocks, excuses, at, stage, rc,
                    status, stopTest>>
    BY <2>1 DEF vars, queues, valueVars, callVars, heapVars, runnerVars
  <2>3. Clean => Clean'
    BY <2>2 DEF Clean, Q!Satisfied, O!Plan!Optional, O!Plan!Open
  <2>4. InStep'
    BY <2>2 DEF SessionInv, InStep, IsSetup
  <2>5. PassedInv' /\ SetupInv'
    BY <2>2, <2>3 DEF SessionInv, PassedInv, SetupInv
  <2>6. ExcuseInv'
    BY <2>2 DEF SessionInv, ExcuseInv, ExitHasCause, IsSetup
  <2> QED
    BY <2>4, <2>5, <2>6 DEF SessionInv
<1> QED
  BY <1>1, <1>2, <1>3, <1>4 DEF Next

\* The invariant of every behaviour.
LEMMA SessionInvariant == Spec => [](PartsInv /\ SessionInv)
<1>1. Init => PartsInv /\ SessionInv
  BY PartsInvInit, SessionInvInit
<1>2. PartsInv /\ SessionInv /\ [Next]_vars => PartsInv' /\ SessionInv'
  BY PartsInvNext, SessionInvNext
<1> QED
  BY <1>1, <1>2, PTL DEF Spec

\* A test that is counted as passed was asked for everything, in whichever of the
\* orders that cmocka_run_one_test_or_fixture asks: its values and calls, and, if it
\* returned and did not free the block at its check point, its blocks.
THEOREM PassedTestIsClean == Spec => []PassedIsClean
<1>1. PartsInv /\ SessionInv => PassedIsClean
  <2> SUFFICES ASSUME PartsInv, SessionInv, stage = "tested", status = "PASSED"
               PROVE  /\ \A v \in DOMAIN values : Q!Satisfied(v)
                      /\ \A d \in DOMAIN calls : O!Plan!Optional(d) \/ ~ O!Plan!Open(d)
                      /\ verdict = "passed" /\ ~ since.body.lost => H!Leaks = {}
    BY DEF PassedIsClean
  <2>1. Clean /\ heapStage = "test"
    BY DEF SessionInv, PassedInv
  <2>2. H!PassedLeavesNothing
    BY PartFacts
  <2> QED
    BY <2>1, <2>2 DEF Clean, H!PassedLeavesNothing
<1> QED
  BY <1>1, SessionInvariant, PTL

\* The check at the end of a group ends the process only for blocks of a function
\* that was left by a jump, or of a setup function that no teardown function
\* followed, in groups of any number of tests.
THEOREM ExitIsCaused == Spec => []ExitHasCause
<1>1. SessionInv => ExitHasCause
  BY DEF SessionInv, ExcuseInv
<1> QED
  BY <1>1, SessionInvariant, PTL
=============================================================================
