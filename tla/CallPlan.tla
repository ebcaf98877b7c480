------------------------------- MODULE CallPlan -------------------------------
(***************************************************************************)
(* What call ordering promises, in terms of the calls a test declares and  *)
(* the calls its mocks receive, without any list: expect_function_calls(f, *)
(* n) asks for n calls of f, expect_function_call_any(f) for at least one, *)
(* ignore_function_calls(f) for any number, and the declarations are to be *)
(* met in the order in which they were made.                               *)
(***************************************************************************)
EXTENDS Integers, Sequences

CONSTANTS
    Functions,      \* the mock functions that use function_called()
    Counts,         \* the counts tests declare
    MaxDeclared,    \* bound: declarations per test
    MaxCalls        \* bound: calls received by one declaration

VARIABLES
    declared,       \* the declarations of the current test, oldest first
    called,         \* how many calls each of them has received
    outcome         \* "idle" before the first test, "running", or how the last
                    \* one ended: "passed", "refused", "owing", "abandoned"

vars == <<declared, called, outcome>>

Declaration == [function : Functions, count : Counts]

\* A declaration of n calls is closed by the n-th; the others stay open.
Open(v) == ~ (declared[v].count > 0 /\ called[v] = declared[v].count)

\* An open declaration that asks for no further call.
Optional(v) == \/ declared[v].count <= -2
               \/ declared[v].count = -1 /\ called[v] > 0

\* A call of f is received by the oldest open declaration of f, provided that
\* every older open declaration is optional.
Receives(v, f) ==
    /\ declared[v].function = f
    /\ Open(v)
    /\ \A w \in 1 .. v - 1 :
          Open(w) => Optional(w) /\ declared[w].function # f

Init == declared = <<>> /\ called = <<>> /\ outcome = "idle"

Start ==
    /\ outcome # "running"
    /\ declared' = <<>> /\ called' = <<>> /\ outcome' = "running"

Declare(f, c) ==
    /\ outcome = "running"
    /\ c # 0
    /\ Len(declared) < MaxDeclared
    /\ declared' = Append(declared, [function |-> f, count |-> c])
    /\ called' = Append(called, 0)
    /\ UNCHANGED outcome

Receive(f) ==
    /\ outcome = "running"
    /\ \E v \in DOMAIN declared :
          /\ Receives(v, f)
          /\ called[v] < MaxCalls
          /\ called' = [called EXCEPT ![v] = @ + 1]
    /\ UNCHANGED <<declared, outcome>>

\* A call that no declaration can receive fails the test.
Refuse(f) ==
    /\ outcome = "running"
    /\ \A v \in DOMAIN declared : ~ Receives(v, f)
    /\ outcome' = "refused"
    /\ UNCHANGED <<declared, called>>

\* The test fails for a reason of its own, or declares zero calls.
Abandon ==
    /\ outcome = "running"
    /\ outcome' = "abandoned"
    /\ UNCHANGED <<declared, called>>

\* The test function returns: it passes if and only if nothing is owed.
Return ==
    /\ outcome = "running"
    /\ outcome' = IF \A v \in DOMAIN declared : Open(v) => Optional(v)
                  THEN "passed" ELSE "owing"
    /\ UNCHANGED <<declared, called>>

Next ==
    \/ Start
    \/ \E f \in Functions : \E c \in Counts : Declare(f, c)
    \/ \E f \in Functions : Receive(f) \/ Refuse(f)
    \/ Abandon
    \/ Return

Spec == Init /\ [][Next]_vars
=============================================================================
