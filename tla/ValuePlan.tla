------------------------------ MODULE ValuePlan ------------------------------
(***************************************************************************)
(* What the queues of return values and of parameter expectations promise, *)
(* without maps, lists or refcounts.  A test declares values for a key (a  *)
(* mock function, or a parameter of one); uses of the key take them in the *)
(* order of declaration, each as often as its count says: n > 0 for n      *)
(* times, -1 for any number but at least once, -2 for any number.          *)
(***************************************************************************)
EXTENDS Integers, Sequences

CONSTANTS
    Keys,           \* what values are queued for
    Counts,         \* the counts tests declare
    MaxDeclared,    \* bound: declarations per test
    MaxServed       \* bound: uses of one declaration

VARIABLES
    declared,       \* the declarations of the current test, oldest first
    served,         \* how often each of them was used
    outcome         \* "running", or how the last test ended: "passed",
                    \* "missing", "owing", "abandoned"

vars == <<declared, served, outcome>>

Open(v) == ~ (declared[v].count > 0 /\ served[v] = declared[v].count)

Optional(v) == \/ declared[v].count <= -2
               \/ declared[v].count = -1 /\ served[v] > 0

SameKey(v, w) == declared[v].key = declared[w].key

\* The next use of key k takes the oldest open declaration of k.  A declaration
\* of zero uses stays in front of its key and can only be refused.
IsNext(v, k) ==
    /\ declared[v].key = k
    /\ Open(v)
    /\ declared[v].count # 0
    /\ \A w \in 1 .. v - 1 : SameKey(v, w) => ~ Open(w)

\* Before the first test the state is that of an empty test that passed.
Init == declared = <<>> /\ served = <<>> /\ outcome = "passed"

Start ==
    /\ outcome # "running"
    /\ declared' = <<>> /\ served' = <<>> /\ outcome' = "running"

Declare(k, c) ==
    /\ outcome = "running"
    /\ Len(declared) < MaxDeclared
    /\ declared' = Append(declared, [key |-> k, count |-> c])
    /\ served' = Append(served, 0)
    /\ UNCHANGED outcome

\* A use takes the next declaration; a check of the value taken may then fail.
Use(k) ==
    /\ outcome = "running"
    /\ \E v \in DOMAIN declared :
          /\ IsNext(v, k)
          /\ served[v] < MaxServed
          /\ served' = [served EXCEPT ![v] = @ + 1]
    /\ outcome' \in {"running", "abandoned"}
    /\ UNCHANGED declared

Miss(k) ==
    /\ outcome = "running"
    /\ \A v \in DOMAIN declared : ~ IsNext(v, k)
    /\ outcome' = "missing"
    /\ UNCHANGED <<declared, served>>

Abandon ==
    /\ outcome = "running"
    /\ outcome' = "abandoned"
    /\ UNCHANGED <<declared, served>>

\* The declarations that a test which returns may still have: none but optional
\* ones, and each the only one that its key has left.
OnlyOptional == \A v \in DOMAIN declared : Open(v) => Optional(v)

OneLeft == \A v \in DOMAIN declared :
              Open(v) => \A w \in 1 .. v - 1 : SameKey(v, w) => ~ Open(w)

\* A test that returns is failed if it owes a use, and passes if it has but one
\* optional declaration left for each key.  The plan leaves open what becomes of a
\* test that owes nothing and has optional declarations left behind others.
Return ==
    /\ outcome = "running"
    /\ outcome' \in {"passed", "owing"}
    /\ ~ OnlyOptional => outcome' = "owing"
    /\ OnlyOptional /\ OneLeft => outcome' = "passed"
    /\ UNCHANGED <<declared, served>>

Next ==
    \/ Start
    \/ \E k \in Keys : \E c \in Counts : Declare(k, c)
    \/ \E k \in Keys : Use(k) \/ Miss(k)
    \/ Abandon
    \/ Return

Spec == Init /\ [][Next]_vars
=============================================================================
