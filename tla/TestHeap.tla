------------------------------- MODULE TestHeap -------------------------------
(***************************************************************************)
(* The checked heap: test_malloc(), test_realloc() and test_free() keep a  *)
(* list of all allocated blocks, and the runner compares the end of that   *)
(* list with a check point taken before a test or a fixture ran.  A check  *)
(* point is the address of the node that was last in the list, or of the   *)
(* list head.                                                              *)
(*                                                                         *)
(* One group of tests runs: group setup, for each test its setup, test and *)
(* teardown function, group teardown.  The running function allocates,     *)
(* frees and overruns blocks as it likes, but frees only what is allocated.*)
(* Addresses come from libc, which may hand out again any free address.    *)
(***************************************************************************)
EXTENDS Integers, Sequences, FiniteSets

CONSTANTS
    Addresses,      \* the addresses libc hands out
    ListHead,       \* &global_allocated_blocks
    Null,           \* the NULL check point
    MaxTests        \* bound: tests of the group

ASSUME AddressesAssumption ==
    ListHead \notin Addresses /\ Null \notin Addresses \cup {ListHead}
ASSUME MaxTestsAssumption == MaxTests \in Nat

VARIABLES
    blocks,         \* global_allocated_blocks: addresses, oldest first
    corrupt,        \* the allocated blocks with an overwritten guard
    born,           \* history: the epoch in which each block was allocated
    stage,          \* the function of the program that runs or has ended
    running,        \* global_running_test
    tests,          \* the number of tests started
    verdict,        \* how the function that ran last ended
    checkPoint,     \* check_point of cmocka_run_one_test_or_fixture
    testCheckPoint, \* check_point of the CMUnitTestState
    epoch,          \* history: the number of functions started
    since           \* of the two check points: the epoch when it was taken and
                    \* whether its block was freed since (history), and the
                    \* link that the freed node has kept

heapVars == <<blocks, corrupt, born>>
runVars  == <<stage, running, tests, verdict, checkPoint, testCheckPoint, epoch>>
vars     == <<heapVars, runVars, since>>

Allocated == {blocks[i] : i \in DOMAIN blocks}

\* A check point taken at the start of an epoch.
Taken(e) == [at |-> e, lost |-> FALSE, link |-> ListHead]

Init ==
    /\ blocks = <<>>
    /\ corrupt = {}
    /\ born = [a \in Addresses |-> 0]
    /\ stage = "group"
    /\ running = FALSE
    /\ tests = 0
    /\ verdict = "none"
    /\ checkPoint = Null
    /\ testCheckPoint = Null
    /\ epoch = 0
    /\ since = [body |-> Taken(0), test |-> Taken(0)]

-----------------------------------------------------------------------------
(* What the running function does to the heap.                             *)

Link(a) ==
    /\ a \notin Allocated
    /\ born' = [born EXCEPT ![a] = epoch]

\* list_remove takes the node of block a out of the list.
Unlink(list, a) ==
    LET i == CHOOSE j \in DOMAIN list : list[j] = a
    IN  SubSeq(list, 1, i - 1) \o SubSeq(list, i + 1, Len(list))

\* The blocks of a list up to the node cp, and those behind it.
Before(list, cp) ==
    IF cp = ListHead THEN <<>>
    ELSE SubSeq(list, 1, CHOOSE i \in DOMAIN list : list[i] = cp)

\* Plausible slip: the block that the check point names is charged as well.
After_Inclusive(list, cp) ==
    SubSeq(list, IF cp = ListHead THEN 1 ELSE Len(Before(list, cp)), Len(list))

After(list, cp) == SubSeq(list, Len(Before(list, cp)) + 1, Len(list))

\* node->next in a list, where cp is a node or the list head.
NextNode(list, cp) ==
    IF After(list, cp) = <<>> THEN ListHead ELSE Head(After(list, cp))

\* A check point is lost when the block it points to is freed.  list_remove does
\* not change the links of the node itself: it still leads to the next one.
LoseIf(gone, list, cp, taken) ==
    IF cp \in gone THEN [taken EXCEPT !.lost = TRUE, !.link = NextNode(list, cp)]
    ELSE taken

Lose(list) ==
    LET gone == Allocated \ Allocated' IN
    since' = [body |-> LoseIf(gone, list, checkPoint, since.body),
              test |-> LoseIf(gone, list, testCheckPoint, since.test)]

\* test_malloc, test_calloc, and test_realloc of NULL.
test_malloc(a) ==
    /\ running
    /\ Link(a)
    /\ blocks' = Append(blocks, a)
    /\ UNCHANGED <<corrupt, runVars, since>>

\* The program writes past either end of a block.
overrun(a) ==
    /\ running
    /\ a \in Allocated
    /\ corrupt' = corrupt \cup {a}
    /\ UNCHANGED <<blocks, born, runVars, since>>

\* Plausible slip: the guards are not compared with their pattern.
GuardsIntact_Unchecked(a) == TRUE

GuardsIntact(a) == a \notin corrupt

\* test_free, and test_realloc to size 0.
test_free(a) ==
    /\ running
    /\ a \in Allocated
    /\ GuardsIntact(a)
    /\ blocks' = Unlink(blocks, a)
    /\ Lose(blocks)
    /\ UNCHANGED <<corrupt, born, runVars>>

\* test_realloc allocates the new block before it frees the old one.
test_realloc(a, b) ==
    /\ running
    /\ a \in Allocated
    /\ GuardsIntact(a)
    /\ Link(b)
    /\ blocks' = Unlink(Append(blocks, b), a)
    /\ Lose(Append(blocks, b))
    /\ UNCHANGED <<corrupt, runVars>>

-----------------------------------------------------------------------------
(* The check of the heap against a check point.                            *)

\* check_point_allocated_blocks
LastNode == IF blocks = <<>> THEN ListHead ELSE blocks[Len(blocks)]

\* The check point is a node of the list.  A lost one may be one again, when
\* libc has handed out its address for a new block.
IsNode(cp) == cp = ListHead \/ cp \in Allocated

\* free_allocated_blocks calls test_free for one block after the other, which
\* ends the function at the first one with a corrupt guard.
FreeAfter(list, cp) ==
    LET after == After(list, cp)
        bad   == {i \in DOMAIN after : ~ GuardsIntact(after[i])}
        first == CHOOSE i \in bad : \A j \in bad : i <= j
    IN  IF bad = {} THEN Before(list, cp)
        ELSE Before(list, cp) \o SubSeq(after, first, Len(after))

\* Free what is behind the node cp, if anything is.
CompareWith(cp) ==
    \/ /\ After(blocks, cp) # <<>>
       /\ verdict' = "leak"
       /\ blocks' = FreeAfter(blocks, cp)
    \/ /\ After(blocks, cp) = <<>>
       /\ verdict' = "passed"
       /\ UNCHANGED blocks

\* Reading a check point that has been freed is undefined behaviour: the free
\* pattern is not an address and faults, which the handler of the signal turns
\* into a failure; or an optimising compiler has dropped the pattern, and the old
\* link is followed into the list.  If it leads to a block that was freed as well,
\* that one is freed again, which counts as a fault here.
fail_if_blocks_allocated(cp) ==
    \/ IsNode(cp) /\ CompareWith(cp)
    \/ ~ IsNode(cp) /\ verdict' = "fault" /\ UNCHANGED blocks
    \/ /\ ~ IsNode(cp)
       /\ \E c \in Allocated \cup {ListHead} :
             NextNode(blocks, c) = since.body.link /\ CompareWith(c)

-----------------------------------------------------------------------------
(* The functions of the group, in the order in which the runner calls them.*)

Begin(f, cp, tcp, bodySince, testSince) ==
    /\ stage' = f
    /\ running' = TRUE
    /\ verdict' = "none"
    /\ checkPoint' = cp
    /\ testCheckPoint' = tcp
    /\ epoch' = epoch + 1
    /\ since' = [body |-> bodySince, test |-> testSince]
    /\ UNCHANGED heapVars

\* The check point of the group is the list head: no block is older.
begin_group_setup ==
    /\ stage = "group"
    /\ Begin("group_setup", ListHead, Null, Taken(0), Taken(0))
    /\ UNCHANGED tests

\* The return code of the function that ran last is 0.
Succeeded == verdict \in {"passed", "stopped"}

NextTest ==
    /\ ~ running
    /\ \/ stage \in {"group", "test", "teardown"}
       \/ stage = "group_setup" /\ Succeeded
       \/ stage = "setup" /\ ~ Succeeded
    /\ tests < MaxTests
    /\ tests' = tests + 1

\* The check point of a test is kept for its teardown function.
begin_setup ==
    /\ NextTest
    /\ Begin("setup", LastNode, LastNode, Taken(epoch + 1), Taken(epoch + 1))

begin_test ==
    \/ /\ NextTest
       /\ Begin("test", LastNode, Null, Taken(epoch + 1), Taken(epoch + 1))
    \/ /\ ~ running
       /\ stage = "setup"
       /\ Succeeded
       /\ Begin("test", LastNode, testCheckPoint, Taken(epoch + 1), since.test)
       /\ UNCHANGED tests

\* Plausible slips: a test without a setup function hands on its NULL check
\* point; the check point of a test with one is not used.
FixtureCheckPoint_Null(cp) == cp
FixtureCheckPoint_Own(cp) == LastNode

\* heap_check_point != NULL ? heap_check_point : check_point_allocated_blocks()
FixtureCheckPoint(cp) == IF cp # Null THEN cp ELSE LastNode

begin_teardown ==
    /\ ~ running
    /\ stage = "test"
    /\ Begin("teardown", FixtureCheckPoint(testCheckPoint), testCheckPoint,
             IF testCheckPoint # Null THEN since.test ELSE Taken(epoch + 1), since.test)
    /\ UNCHANGED tests

\* No function of a test is due: its setup function did not just pass.
NoTestPending ==
    /\ ~ running
    /\ stage \in {"group", "group_setup", "setup", "test", "teardown"}
    /\ stage = "setup" => ~ Succeeded

begin_group_teardown ==
    /\ NoTestPending
    /\ Begin("group_teardown", ListHead, Null, Taken(0), Taken(0))
    /\ UNCHANGED tests

\* The function returns.  Setup functions may leave blocks allocated.
function_returns ==
    /\ running
    /\ running' = FALSE
    /\ IF stage \in {"setup", "group_setup"}
       THEN verdict' = "passed" /\ UNCHANGED blocks
       ELSE fail_if_blocks_allocated(checkPoint)
    /\ Lose(blocks)
    /\ UNCHANGED <<corrupt, born, stage, tests, checkPoint, testCheckPoint, epoch>>

\* A failed assertion, test_free of a block whose guard is corrupt, or stop():
\* the heap is not compared with the check point.
function_jumps ==
    /\ running
    /\ running' = FALSE
    /\ verdict' \in {"failed", "stopped"}
    /\ UNCHANGED <<heapVars, stage, tests, checkPoint, testCheckPoint, epoch, since>>

\* test_realloc of a block whose guard is corrupt: the new block stays.
test_realloc_fails(a, b) ==
    /\ running
    /\ a \in Allocated
    /\ ~ GuardsIntact(a)
    /\ Link(b)
    /\ blocks' = Append(blocks, b)
    /\ running' = FALSE
    /\ verdict' = "failed"
    /\ UNCHANGED <<corrupt, stage, tests, checkPoint, testCheckPoint, epoch, since>>

\* The last check runs outside of any test: exit_test leaves the process.
group_ends ==
    /\ NoTestPending \/ (stage = "group_teardown" /\ ~ running)
    /\ fail_if_blocks_allocated(ListHead)
    /\ stage' = IF blocks = <<>> THEN "returned" ELSE "exited"
    /\ UNCHANGED <<corrupt, born, running, tests, checkPoint, testCheckPoint, epoch,
                   since>>

Next ==
    \/ begin_group_setup \/ begin_setup \/ begin_test
    \/ begin_teardown \/ begin_group_teardown \/ group_ends
    \/ function_returns \/ function_jumps
    \/ \E a \in Addresses : test_malloc(a) \/ overrun(a) \/ test_free(a)
    \/ \E a, b \in Addresses : test_realloc(a, b) \/ test_realloc_fails(a, b)

Spec == Init /\ [][Next]_vars

-----------------------------------------------------------------------------
(* The properties.                                                         *)

\* What is noted of a check point.
Notes == [at : Nat, lost : BOOLEAN, link : Addresses \cup {ListHead}]

\* The variables have their types; a function that runs has a check point,
\* which display_allocated_blocks asserts.
TypeOK ==
    /\ blocks \in Seq(Addresses)
    /\ Cardinality(Allocated) = Len(blocks)
    /\ corrupt \subseteq Addresses
    /\ born \in [Addresses -> Nat]
    /\ stage \in {"group", "group_setup", "setup", "test", "teardown",
                  "group_teardown", "returned", "exited"}
    /\ running \in BOOLEAN
    /\ tests \in 0 .. MaxTests
    /\ verdict \in {"none", "passed", "stopped", "failed", "leak", "fault"}
    /\ checkPoint \in Addresses \cup {ListHead, Null}
    /\ testCheckPoint \in Addresses \cup {ListHead, Null}
    /\ running => checkPoint # Null
    /\ epoch \in Nat
    /\ since \in [body : Notes, test : Notes]

\* A block with an overwritten guard is never freed: test_free and
\* free_allocated_blocks both fail first.
CorruptNeverFreed == corrupt \subseteq Allocated

\* The blocks allocated since the check point of the function was taken.
Leaks == {a \in Allocated : born[a] >= since.body.at}

\* A test or teardown function that passes leaves no block behind that was
\* allocated since its check point was taken, whatever was allocated and freed
\* in between, as long as the block at the check point itself was not freed.
PassedLeavesNothing ==
    (/\ stage \in {"test", "teardown", "group_teardown"}
     /\ verdict = "passed"
     /\ ~ since.body.lost)
    => Leaks = {}

\* A function is charged with a leak only if it left a block allocated since
\* its check point was taken: no block of an earlier function is charged to it.
ChargedIsLeak ==
    [][(running /\ verdict' = "leak" /\ ~ since.body.lost) => Leaks # {}]_vars

\* A test that completes with blocks left is failed, also if its check point is an
\* address that was freed and is that of a block again.  Violated: the check then
\* starts from the new block, and misses it and those before it.
LeakFailsTest ==
    (stage = "test" /\ verdict = "passed" /\ IsNode(checkPoint)) =>
        \A a \in Allocated : born[a] < epoch
=============================================================================
