# A TLA+ verification of cmocka

cmocka is a unit testing framework for C. A test program hands groups of test
functions to the library; mock functions take the return values, parameter
expectations and call orders that the test declared; the library decides which
tests passed. It is one C file, `src/src/cmocka.c`, with the API macros in
`src/include/cmocka.h`.

Everything runs in one thread. What makes it hard is not concurrency but
*sequences*: the test program may call the library in any order, may be thrown
out of any call by `longjmp()`, and every decision depends on queues, reference
counts, flags and check points left by earlier calls, some of them by earlier
tests. Unit tests of the library exercise a handful of such sequences; the
models here exercise all of them up to a bound, and the proofs all of them.

## Inventory

| Part | State it keeps | Operations | Talks to |
|---|---|---|---|
| Lists and symbol maps | doubly linked lists of nodes with a refcount; maps (lists of `SymbolMapValue`) of one or two levels | `list_*`, `add_symbol_value`, `get_symbol_value`, `remove_always_return_values`, `check_for_leftover_values` | used by the next two |
| Mock return values | `global_function_result_map_head`, the heap objects queued there, `global_last_mock_value_location` | `will_return*()`, `mock*()`, leftover check, teardown | runner starts and ends it; `exit_test` on errors |
| Parameter expectations | `global_function_parameter_map_head`, `CheckParameterEvent`s, `global_last_parameter_location` | `expect_*()`, `check_expected*()`, leftover check, teardown | the same; calls check functions of the test |
| Call ordering | `global_call_ordering_head` | `expect_function_call*()`, `ignore_function_calls()`, `function_called()` | the same |
| Checked heap | `global_allocated_blocks`, guards around every block, check points | `test_malloc/calloc/realloc/free`, `check_point_allocated_blocks`, `fail_if_blocks_allocated` | the runner takes and compares check points |
| Test runner | `global_running_test`, `global_skip_test`, `global_stop_test`, `global_expecting_assert`, jump buffers, signal handlers, counters | `_cmocka_run_group_tests`, `cmocka_run_one_tests`, `cmocka_run_one_test_or_fixture`, `exit_test`, `skip`, `stop`, `fail`, `mock_assert`, `expect_assert_failure` | calls all of the above |
| Checks and assertions | the data a check was stored with | `expect_*`, `check_*`, `_assert_*`, `float_compare`, `print_data_diff` | `fail`, `check_expected` |
| Test filters | two patterns | `c_strmatch`, `cmocka_set_test_filter`, `cmocka_set_skip_filter` | runner selects tests |
| Error messages | `cm_error_message` | `vcmocka_print_error`, `vcm_free_error` | everybody prints; runner hands over and frees |
| Output | chosen formats, XML file state | `cm_get_output`, `cmprintf_*` | runner |
| Time | none | `cm_tspecdiff`, `cm_secdiff` | runner |

Hard behaviours, and what correctness means for each part:

* **Symbol maps.** Emptying happens on three ways and on two levels; a symbol
  without values must not survive (an assertion would fail, or a leftover would
  be reported that is not there).
* **Return values and parameter expectations.** Refcounts encode both the count
  asked for and the history. Values must be served first in, first out, each as
  often as asked, and a test must fail if one is owed. Each heap object
  must be freed exactly once, by whoever takes the last use or by the teardown.
* **Call ordering.** Which declaration a call counts against depends on all
  older declarations; the messages must blame a declaration that is owed a call.
* **Heap.** A check point is the address of a block, which the test may free,
  and which `malloc` may then hand out again. Leaks must be found and charged to
  the function that made them, and corrupt blocks never freed.
* **Checks.** A check stored now is applied after the test may have changed the
  data it was given; each check and its negation are separate code; ranges are
  compared without sign, floats with a relative margin; the dump of unequal memory
  leaves lines out and must not leave out a difference.
* **Helper routines.** Wildcards must try every way to match; text is replaced in
  place while it grows; the entities of XML contain the characters that are escaped;
  messages of any length go through a buffer of fixed size; block sizes and times are
  sums and differences that wrap or change sign.
* **Runner.** The reason for a `longjmp()` travels in global flags. Every test
  must be counted once and as what it was, flags must not reach another test,
  handlers must be restored on every path, and a group must come to its end.
* **Output.** One global message collects what everybody prints and must end up with
  the test it belongs to; four printers tell one story in four forms; two static flags
  and an environment read once decide over all groups of a process.
* **All of them together.** A function that ends is asked for blocks and for leftovers
  in an order that depends on how it ended, and each question may end it again.

`PROJECT.json` lists the hazards line by line.

## Modules

| Module | What it models |
|---|---|
| `SymbolMap` | Lists as sequences of `[value, refcount]`, maps as functions; the list and map operations as constant operators. No variables. |
| `ValuePlan` | Abstract specification of a queue of declarations per key, without maps or refcounts. A test that owes a use fails, one with at most one optional declaration left per key passes; what becomes of one with optional declarations left behind others, where code and documentation disagree, it leaves open. Implemented by `MockValues` and `ParameterChecks`. |
| `MockValues` | Mock return values over successive tests. |
| `ParameterChecks` | Parameter expectations over successive tests, two-level map. |
| `CallPlan` | Abstract specification of call ordering. |
| `CallOrdering` | The list with its search. Implements `CallPlan`. |
| `TestHeap` | The checked heap under a group of tests with all fixtures. |
| `TestRunner` | Groups, fixtures, tests, jumps, flags, signals, counters. |
| `ValueChecks` | The checks of values: sets, ranges, values, pointers, truth values, strings, memory with its dump, floats; stored by `expect_*()` or asserted at once. |
| `HelperRoutines` | Filter patterns, string replacement and XML escapes, the error message buffer, the layout of a block, the run time: one call at a time. |
| `Reporting` | The four output formats over successive groups: choice of formats, messages, lines, XML files. |
| `TestSession` | Composition of `TestRunner`, `MockValues`, `CallOrdering` and `TestHeap`. |
| `MockValues_proofs` | Types of `MockValues`, its queues against their history, ownership, leftovers, and it implements `ValuePlan`. |
| `ParameterChecks_proofs` | Types and ownership of `ParameterChecks`, and it implements `ValuePlan`. |
| `CallOrdering_proofs` | Types and messages of `CallOrdering`, and it implements `CallPlan`. |
| `TestRunner_proofs` | Counters, flags and return value of `TestRunner`. |
| `TestHeap_proofs` | List, guards and leak check of `TestHeap`. |
| `Reporting_proofs` | Formats, messages, XML headers, the TAP plan and the agreement of all formats, of `Reporting`. |
| `Routines_proofs` | `ValueChecks`: what a stored check is applied to, what every check accepts, floats, what a dump tells. `HelperRoutines`: filters, replacement and escapes, the message buffer, the layout of a block, the run time. |
| `TestSession_proofs` | `TestSession` is a behaviour of each of its parts; passed tests and the end of the process in it. |
| `MC*` | Instances for TLC. |

Correspondence with the code:

* An action is one call of the library by the test program, with everything the
  call does; or one step of the runner between two functions of the program.
  Where a C function has several outcomes there is one action per outcome
  (`mock`, `mock_mismatch`, `mock_missing`).
* `exit_test` in a running test is a `longjmp()` into
  `cmocka_run_one_test_or_fixture`: in the queue modules the phase becomes
  `unwound` and the return code -1, and `teardown_testing` follows.
* A queued heap object is known by the position of its declaration, which also
  stands for its source location; `live` is the set of those still allocated.
* In `ParameterChecks` a check function is the set of values it accepts, or leaves
  by an assertion of its own (`check_expected_raises`); which set that is for each
  of cmocka's own check functions is the subject of `ValueChecks`, where one check
  is pending at a time. There, a string or a memory area is a sequence of bytes,
  `array` is what the test owns, and `event.shared` tells the checks that keep a
  pointer to it (`_expect_string`) from those that copy it. Floats are integers in
  units of the smallest one, infinities and NaN, with the arithmetic of IEEE 754
  as far as `float_compare` uses it.
* In `HelperRoutines` a string is a sequence of characters, and the buffer it lives in
  a size. `MCRoutines` extends it and `ValueChecks`: each step is one call on one of
  the enumerated inputs, and the result is compared with a reference definition.
* In `Reporting` a line of output is a tuple of its format, its kind, a number and a
  message; a message is the sequence of what was printed, each piece known by who
  printed it. A file is the sequence of headers and suites written to it. What the
  functions of a group do is a choice, as in `TestRunner`, reduced to its outcome.
* Variables marked *history* in the declarations record what happened, to state
  properties; no guard of an action that models code reads them, except for the
  bounds (`MaxServed`, `MaxChecked`, `MaxCalls`). Of `since` in `TestHeap` the fields
  `at` and `lost` are history, and `link` is what a freed node still holds.
* Definitions whose comment says "Plausible slip" are variants used to see that
  a property is able to fail; nothing else refers to them.

Undefined behaviour appears where the code has it. A value freed twice in
`MockValues` may abort the process or go unnoticed (`teardown_testing`). In
`TestHeap`, comparing with a check point whose block was freed reads freed
memory: it may fault on the fill pattern (the signal handler then fails the
test), or find the link that the node had when it was freed, which `list_remove` leaves
in it and `since` keeps (`Lose`): the comparison then starts at the node that the link
names, if that is still one of the list, and counts as a fault otherwise. A jump into a frame that has been left is the stage
`undefined` of `TestRunner`, where the behaviour ends.

The three queue modules share `initialize_testing`, `teardown_testing` and
`has_leftover_values` in the code, each acting on three independent lists; a
module has the part about its own list, and "any other failed assertion" stands
for the others. `TestRunner` in turn takes what the queues and the heap report as
a choice (`function_leaves_something`, `function_jumped(leftover)`,
`finish_group(leak)`). `TestSession` joins them: its actions take a step of the
runner together with the steps of the queues and the heap that the same C function
makes, and what is a choice in `TestRunner` is decided there by the state of the other
parts. Two mechanisms stay with their own modules: parameter expectations, which go
through the same calls at the same places as mock values, and
`expect_assert_failure()`.

## Runs

Passing runs:

| Run | Bounds | What it shows |
|---|---|---|
| `mock_values` | 2 functions, one type name and NULL, counts -2, -1, 0, 1, 2, 3 values per test, each returned up to 2 times; tests follow each other without end | Order of service, no lost value, no value served too often, the refcounts agree with history, ownership of the heap objects, verdict; refinement of `ValuePlan`. |
| `parameter_checks` | 2 functions x 2 parameters, checks over 2 values, 3 events | Both map levels shrink together (a part of `TypeOK`); ownership; refinement of `ValuePlan`. |
| `call_ordering` | 2 functions, 4 declarations, 2 calls each | Refinement of `CallPlan`; messages blame what is owed. |
| `test_heap` | 3 addresses, 2 tests with optional fixtures, one group | No leak survives a pass, none is charged to the wrong function, corrupt blocks stay allocated. |
| `test_runner` | 2 groups of up to 2 tests, every fixture optional | Counters add up, the return value is the truth, the stop flag and the signal handlers are restored, a jump into a dead frame takes an `expect_assert_failure()` that was left by another jump; every group ends. |
| `routines` | integers of 2 bits, arrays of up to 2 of them (elements may repeat), buffers of 5 and 7 bytes dumped on lines of 2, floats from -9 to 9 with infinities and NaN, `FLT_EPSILON` 1/4; names of up to 3 letters over two, patterns of up to 3 over these, `*` and `?`; texts of up to 4 characters in buffers of 1 to 12; attributes of up to 3 characters; prints around a buffer of 3; sizes of 5 bits; seconds of 4 units | Every check on every value against its reference definition; a stored check is applied to the data it was given; the dump shows every difference; a filter selects what it matches; a replacement stays within its buffer; an attribute is escaped once; a message is kept whole; a block holds what was asked for, and a size that would wrap is refused; the run time is what elapsed. |
| `reporting` | three groups of up to 2, 1 and 0 tests with all fixtures, two group names (symmetric), one note per function, formats standard, TAP, or subunit, TAP and XML together, any environment | A message is reported with the test that printed it; TAP keeps the plan it announced; all formats tell what the group returns; an XML file starts with a header; the environment decides over what was set before the first group. |
| `test_session` | one function to mock with counts 1 and -2, one declaration of a call, two addresses (symmetric), one test with all fixtures | A test that passes has left nothing in any part; the process ends early only for a cause; no part blocks another. |

Why the bounds are enough: keys do not interact except by being in one map, so
two show every interaction; three declarations give one key a first, a middle and
a last one, and let two keys be open at once; serving a value twice passes
through each of the refcounts 2, 1, -1, -2. Three addresses allow a block to be
older than a check point, one at it, and one after it, and a freed address to be
used again. Two tests and two groups let a flag or a block left by one reach the
next. Two bits have a sign and both extremes of either sign; five bytes on lines of
two make a first, a middle and a short last line, of which only the middle one may be
left out, and seven two such lines in a row; floats up to 9 with an epsilon of 1/4 put the relative margin on both
sides of each absolute one, and make differences overflow. Three characters hold a
wildcard before, between and after letters, and two wildcards in a row; a text of four
holds two occurrences of a pattern of two, and buffers of 1 to 12 lie on both sides of
every length it can grow to; five bits let sizes wrap. The third group of `reporting`
is what shows the state of the XML files after a group that appended. `test_session`
is small in every part, because the parts have been checked by themselves: what it
adds is the order in which a function's end touches them, for which one value, one
declaration and one block each are enough; the second address lets a block be replaced.
State that outlives a test is never reset by the bound: only declarations
within one test are counted. For what the section on proofs lists, the proofs remove
the bounds.

Deadlock is not checked where the system may stop: when the process has crashed
(`MockValues`), when a group is over (`TestHeap`, `TestRunner`). It is checked in
`test_session`, where `session_over` stands for the end of the process.

Runs that are expected to be violated, each a disagreement between the code and
what it or its documentation says:

| Run | What happens |
|---|---|
| `mismatch_free` | `mock_*_type()` with the wrong type frees the value even if its node stays queued (count above 1 or always); the teardown frees it again. |
| `reused_check_point` | A test frees the block that was last when it began (its setup's, say), gets its address again for a new block, leaks that one and passes. |
| `skipped_fixture` | `skip()` in a fixture leaves the flag set: the next test that fails is reported as skipped, and not counted as failed. |
| `old_xml_file` | `%g` in the name of the XML file makes a file per group. Once one report went to a new file, that of a later group is appended to its own file even if that existed before the tests, where it would otherwise go to standard error. |

Three disagreements between the code and its documentation are left out of the
properties, which say nothing of these cases:

* `will_return_maybe()` "will never cause a test to fail if its value is not returned"
  (`cmocka.h:564-565`), and with `EXPECT_MAYBE` any number of calls is accepted,
  "including zero" (`cmocka.h:837-838`). `remove_always_return_values` forgives only the
  first value or event of a list: two of them for one function or parameter, neither of
  them used, fail the test. `ValuePlan` leaves open how such a test ends.
* `float_compare` "returns true if the specified float values are equal, else returns
  false" (`cmocka.c:1204`, and `cmocka.h:1855-1858` of the assertion). An infinity or NaN
  is equal to any number, because the relative margin is infinite or the comparison with
  it false. `FloatIsClose` is about finite floats.
* The output formats set by `cmocka_set_message_output()` are "overwritten with
  environment variable CMOCKA_MESSAGE_OUTPUT" (`cmocka.h:3286-3287`). The environment is
  read once, and formats set after the first group replace it. `EnvironmentFirst` is
  about programs that set none after it.

Seen while modelling, without a run of their own: `check_for_leftover_values`
reads a `SourceLocation` at the start of each value, as the comment on
`SymbolMapValue` demands, but a `SymbolValue` begins with its name; `_will_return`
with a count of 0 fails its assertion after the value was allocated, which is then
lost (`will_return_zero`); `_expect_check` accepts a count of 0, whose event can
only be reported as missing or left over; a failed test's blocks are met by the
check at the end of the group, where `exit_test` ends the process with the report
already printed; a test left by `stop()` is not checked for leaks; with
`CMOCKA_TEST_ABORT=1`, `stop()` aborts a test that would pass; the note of a type
mismatch, "The value to be returned by mock declared here", prints the location of
the value returned *before* (`report.note` in `MockValues`); a function called in
`expect_assert_failure()` that leaves by `fail()`, `skip()` or `stop()` leaves
`global_expecting_assert` set, and the next failing assertion jumps into a dead frame
(the stage `undefined`; `DeadJumpNeedsEscape` says that this is the only way there);
`expect_string()` keeps the pointer to its string, unlike `expect_memory()`;
`expect_in_range()` compares signed parameters as unsigned words, and
`RangeOfOneSign` says when that is harmless; a group whose teardown function fails returns 0, the value `cmocka.h:2603`
gives to success; `a**` does not match `a` (`cmocka.h:3304-3306`); XML goes to
standard output by default, not to standard error as `mainpage.dox:127` says; a report
in a new XML file has no header when an earlier one was appended or went to a stream; the message
about blocks leaked by the group is never printed, since the process ends first; a
print of 256 characters or more loses its last one (`MessageIsWhole` says up to which
length it does not); the run time is wrong when the clock is set back by seconds.

## Fairness

Only `TestRunner` states fairness, for `GroupEnds`. `WF_vars(Runner)`: the runner is
one thread and none of its steps waits. `WF_vars(EndOfFunction)`: the functions of the
test program end in one of the ways listed there. The latter is an assumption
about the program under test, without which no runner without a timeout (and
cmocka has none) could promise anything. Nothing is assumed about which way they
end: a function can enter and leave `expect_assert_failure()` again and again only
finitely often, because `EndOfFunction` stays enabled all the while.

## Proofs

The theorems hold for every set of functions, parameters, names, counts and addresses
and for all bounds. Each property named with a theorem below is also checked by a run; each inductive
invariant was checked by TLC on the instance of that run before it was proved. Each has
one lemma per action, or per group of actions that do the same to the state, and the
last step of each theorem is propositional temporal logic.

Assumptions on the constants, evaluated by TLC on every run: `CountsAssumption`
(counts are integers), `BoundsAssumption` and `MaxTestsAssumption` (bounds are
naturals), `NoNameAssumption` (NULL is not a name), `AddressesAssumption` (the list
head, NULL and the blocks are different), `ReportingAssumption` (a configured output is
a nonempty set of formats), `NamesAssumption` (no group is called like a stream, so
that no two outputs are confused), `WidthAssumption`, `ArraysAssumption` (arrays hold
naturals), `FloatAssumption` (a tolerance is a finite float), `TextsAssumption` (texts are
sequences of characters, a pattern to be replaced is not empty and a text is in its
buffer with its NUL, as every caller of `c_strreplace` and `cmprepare_xml_attribute_string`
has it), `SizesAssumption` (sizes are naturals, and header, guards and alignment are less
than `SIZE_MAX`), and `PartsAssumption`, all of these that a session needs.

An induction is over a *set* in the place of a formula: the provers cannot instantiate
an induction theorem that takes one. `Induction` (a set with 0 and the successor of each
of its elements holds every natural), `Recursion` (a function defined step by step exists)
and `SeqInduction` (the same along a sequence), in `Routines_proofs`, are proved from the
well-foundedness of `<`. A recursive function of the model is `CHOOSE`n as a solution of
its equation; its lemma `...Def` first shows with `Recursion` that there is one.

**Mock values.** `TypeCorrect` and `NoSymbolIsEmpty` (`MockValues_proofs`): `TypeOK` alone
is not inductive, because taking the first value of a list needs the list to be
nonempty, so it is proved together with `NoEmptySymbol`, by lemmas on what
`add_symbol_value`, `get_symbol_value` and `remove_always_return_values` do to any
well-formed map. No node with refcount 0 is ever left in a list, and the assertion on
`list_first` in `get_symbol_value` never fails.

`QueuesAgree`, `FirstInFirstOut`, `NoValueIsLost`, `PassedIsComplete`:
`QueuesMatchHistory`, `ServedInOrder`, `MissingMeansExhausted`,
`PassedMeansServed`. None is inductive. The invariant `HistoryInv` says that while the
body runs every node sits in the list of its function, in order of declaration, with
the refcount its history demands, only the first of each list having been used, and
that every value not exhausted is queued; that no value was served more often than its
count; and the four properties themselves. FIFO order then follows because `mock()`
serves the head of a list and everything declared earlier for the function is absent
from the list, hence exhausted; a pass is complete because the only nodes removed
before the leftover check are optional ones at the head, and the check finds all
others.

`ValuesAreOwned`, `LeftoverIsOwed`, `MapImplementsPlan`:
`ValuesOwned`, `LeftoverMeansOwed`, `ImplementsPlan`. Ownership rests on `HistoryInv`: a
value is in one node only, because lists are in order of declaration and each node is
in the list of its own function, so removing a node takes exactly its value out of the
set of those queued. The refinement is proved step by step: `will_return` appends to
the plan; `mock` serves the value the plan says, since the head of the list is the
earliest open declaration of its function; `mock_missing` is enabled only when the plan
has none; the leftover check finds no node if and only if every function has at most one
open declaration, an optional one (`PlanReturn`), which settles the two cases that the
plan does not leave open. Steps on maps and heap objects only are stutters.

**Parameter expectations.** `TypeCorrect`, `EventsAreOwned`, `MapImplementsPlan`
(`ParameterChecks_proofs`): `TypeOK`, `EventsOwned`, `ImplementsPlan`. The two levels of
the map are seen as one list per function and parameter (`ListOf`), with lemmas on what
each map operation does to the list it touches and to all others; they also show that
the levels shrink together (no function without a parameter, no parameter without an
event). The invariant `QueueInv` is then that of the mock values: `NodesInPlace`,
`NoneLost`, `CheckedWithinCount`. An event with a count of 0, which `_expect_check`
accepts, is in the list but never open, which is why a check that meets one at the head
reports a missing value.

**Call ordering.** `TypeCorrect`, `BlameIsJust`, `ListImplementsPlan`
(`CallOrdering_proofs`): `TypeOK`, `BlamedIsOwed`, `ImplementsPlan`. `OrderInv` says that
the nodes stand for the open declarations, all of them, in order of declaration, each
with the refcount its calls demand. The search of `function_called` stops at the first
node for the function, or at one that must not be passed over; because list order is
declaration order, the node it decides on is the declaration that `CallPlan` lets
receive the call, and it fails only when the plan has none. That the first such node
exists is the least element of a set of naturals (`LeastElement`, from the
well-foundedness of `<`), which stands in for an induction. `PassedIsCalled`, which the
session needs: when the leftover check passes, every open declaration is optional.

**Test runner.** `NothingIsCarriedOver`, `CountersAddUp`, `ReturnValueIsTruth`,
`DeadJumpIsEscape` (`TestRunner_proofs`): `NothingReachesNext`, `EveryTestIsCounted`,
`ReturnedIsTruth`, `DeadJumpNeedsEscape`. `RunnerInv` has five parts: the types; where
control is and which handlers and stop flag go with that (`ControlInv`); the flag of
`expect_assert_failure()` (`ExpectInv`); the counters, including what has been executed
at each stage (`CountInv`); and that return code, skip flag and status of a test agree
with how it really ended, unless a fixture called `skip()` (`TruthInv`). The last is
needed because between the end of a test and its counting lie its teardown and the two
places where the skip flag is read and reset.

**Checked heap.** `TypeCorrect`, `CorruptStays`, `PassedIsClean`, `ChargeIsJust`
(`TestHeap_proofs`): `TypeOK`, `CorruptNeverFreed`, `PassedLeavesNothing` and the action
property `ChargedIsLeak`. The last two compare places in the list with times of
allocation, and need `HeapInv`: the list has no duplicates and is ordered by epoch of
allocation (`ListInv`), and a check point whose block was not freed divides it, with the
blocks allocated since behind it and no others (`PointInv`). Freeing makes a list
thinner, which keeps order and division unless the check point's block goes, and that
is what `since.body.lost` notes (`Lost`); allocation appends; `test_realloc` does both. A test or
teardown that passes then left no block behind its check point, and one that is charged
with a leak did.

**Reporting.** `EnvironmentDecides`, `MessagesReachTheirTest`, `HeadersLead`
(`Reporting_proofs`): `EnvironmentFirst`, `MessagesAreOwn`, `XmlHeaderFirst`. `ReportInv`
says that after the first group the formats are those of the environment, or those asked
for since, of which `EnvironmentFirst` says nothing (`FormatInv`); that between two tests there is no message, and before the
first one only what group fixtures that passed have left (`MessageInv`); and, of the XML
files (`FilesInv`), that a header is the first entry of a file or the only one in all
streams, and that `xml_printed` was set by an earlier report which was appended or went
to a stream. A new file without a header then has such a report to blame.

`PlansAreKept`, `FormatsAgree`: `TapKeepsItsPlan`, `VerdictsAgree`. Both speak of all lines
of a report at its end, so the invariant `LinesInv` follows the report as it grows. While a
group runs (`Sound`), each format printed as tests end (standard, subunit, TAP) has as many
lines of failures and errors as tests and fixtures have failed so far, TAP has the plan,
the version at its start if any, and one numbered line per test in order; and `ShapeInv`
says what the group has been through, with the four totals adding up to the number of
tests. A line printed by one format is found by no other, and lines and totals are counted
as the sizes of sets of positions; joining two texts adds their counts (`CountConcat`).
What is printed at the end is then added in one step. The tests listed in the standard
summary are lines of a kind that no count takes (`ListedLines`), the cases of the XML suite
stand at the places of their tests (`CasesAre`), and the totals that summaries and
attributes print are sums of the same four numbers as the lines. A version comes before
every other TAP line because a group prints it, if at all, at its very start.

**Checks of values.** `ChecksItsOwnData`, `ChecksMeanTheirNames`, `EqualFloatsAreClose`
and `DumpsTellAll` (`Routines_proofs`): `ChecksWhatWasGiven`, `AcceptsWhatItSays`,
`FloatIsClose`, `DumpTellsAll`.
`CheckInv` says that a stored set or memory check has data of its own, equal to what it
was given, and that the last result is that of its definition on data it can take.
The rest is about the operators. `ScanIsMembership`: the scan of a set is a recursive
function, of which a closed form is shown to solve the recursion and then to be the
solution, since there is no last element where they differ; so the answer is membership
for arrays of any length. `MemoryNegation`: counting equal bytes and stopping at one that
differs say the same. `RangesOfOneSign` needs nothing about powers of two but that they
are integers. `FiniteFloats`: the margin is an integer quotient, and a difference that
overflows is infinite and beyond every margin; this needs a tolerance
that is itself a float, which is therefore an assumption on `Tolerances`. `DumpIsEnough`:
the dump is what its lines print, joined (`FlattenElements`); byte i is in one line only
(`BytesOfLine`); that line is printed for both buffers, once if they agree, or is left
out, and then it holds zeros in both: its first byte is 0 and each byte is the one before
(`AllZero`). Whatever else is printed, a reader finds the byte in the lines with its number.

**Helper routines.** These theorems are about `RoutineSpec`, in which any of the routines is
called at any time. `RoutineInv` says that the filters are patterns or absent, that the
message is made of what was kept of each print, in order (`MessageInv`), and that the last
call, whatever it was, did what its property says. The work is in the lemmas on a call.

`FiltersSelectMatching`: `SelectsMatching`. A *way* to match says for every character of the
pattern where its part of the name ends. Where `c_strmatch` succeeds there is one, found
from the end of the pattern to its start (`StrmatchIsSound`); where the pattern has no
adjacent stars it succeeds if there is one (`StrmatchIsComplete`): behind a star there is a
character to look for, so that the star need not reach the end of the name, which is what
fails for `**`. The loop over the tests is described by the places it takes from the group
(`SelectedInOrder`).

`TextsAreReplaced`: `TextIsReplaced`. The property's reference is a reader that goes through
the text once; the code searches the changed text again and moves its rest. `Joins` relates
the two: at the start of each round (`RoundAt`) the buffer holds what the reader has written
up to some character of the text, then the rest of it, and the search goes on where what is
written ends. So the search finds what the reader finds (`StrstrFinds`), and a round is the
reader's next replacement (`Spliced`). The rounds are as many as characters, since the
pattern is not empty. Along the way the length stays, or changes by the same amount each
time, so it is never more than that of the first or the last text (`FirstOrLast`), which is
why a buffer with room for these and one pattern or replacement is enough; a buffer
without room makes the code give up before it writes. For attributes, replacing one
character is spelling the text (`Spell`), and spelling what was spelled is one spelling
(`SpellTwice`): after each of the five calls the text is the original with some special
characters spelled as entities, because `&` comes first and no entity contains another
special character (`MeaningGrows`). That each call has room follows from the last one, since
spelling never makes a text shorter.

`MessagesAreWhole`: `MessageIsWhole`; also when an allocation fails, the message stays and fits
its memory. `BlocksHoldRequests`: `BlockHoldsRequest`; a sum of sizes wraps exactly when it is
less than what was asked for (`NoWrap`), and a product is used only if it is exact.
`RuntimesAreElapsed`: `RuntimeIsElapsed`; linear arithmetic once the quotient by the second is
named.

**Session.** `PartsAreKept` (`TestSession_proofs`): every behaviour of `TestSession`, seen
through the variables of one part, is a behaviour of that part (of its `Init` and `Next`
for the runner, whose fairness the session does not state). This is the assume-guarantee
step: the order in which the runner asks the parts, and the jumps that leave all of them
at once, use none in a way its own module does not allow; the invariants proved above
then hold in the session, where they are cited through an `INSTANCE` of the proof
modules. `PassedTestIsClean` and `ExitIsCaused`: `PassedIsClean`, `ExitHasCause`, from
`SessionInv`. `InStep` relates the parts while a function runs and ends: which phase of
the queues goes with which place of the runner and whether the heap still takes the
function for running. `PassedInv` carries what the leftover checks found from the end
of the test function to the place where the test is counted. `SetupInv`: heap and
runner agree on how a setup ended. `ExcuseInv` is the argument for `ExitHasCause`:
without an excuse the heap is empty whenever the runner goes on, so the next check point
is the list head, and a function that passes its check leaves the heap empty again; a
block can stay only if a function was left by a jump, or a setup was never followed by
its teardown. The proof corrected the model: the history variable `excuses` used to
forget a setup without teardown when the teardown of a later test began, which takes two
tests, while the run has one.

Every invariant and every action property of a run has a theorem, and so have the refinements.
Only model-checked is `GroupEnds`: liveness, where fairness and ENABLED are out of the
prover's reach. The runs that are expected to be violated show counterexamples, and have
nothing to prove.

## Not modelled

* Wording and layout of the text printed, and formatting of values into it.
* The state pointer that a setup hands to its test and a group to its tests: it is
  passed along and never read.
* Failure of the real `malloc` in `_test_malloc` (an assertion, that is, `fail`) and of
  the `calloc` of `_cmocka_run_group_tests` (returns -1 at once).
* A block allocated with `test_malloc` before the first group runs: the check point
  of the group is taken to be the list head.
* The Windows exception filter, which replaces the signal handlers.
* The order of symbols in a map, which shows in the order of messages only.
* The deprecated and private headers (macros without state), the Coverity model, the
  examples and the build files.

## State of the project

Modelled, checked and proved as said above: symbol maps, the three queues with their abstract
specifications, heap, runner, checks of values, helper routines, reporting and the
composition of a session.

What could be added: parameter expectations and `expect_assert_failure()` in `TestSession`,
and a proof of `GroupEnds`, which needs a prover for fairness.
