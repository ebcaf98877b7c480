----------------------------- MODULE MCRoutines -----------------------------
(* Small instances of ValueChecks and HelperRoutines, which share no state: *)
(* one of them is used at a time, each of the helpers by itself.            *)
EXTENDS ValueChecks, HelperRoutines

\* Arrays of up to two integers of two bits, where elements may repeat, and
\* buffers of three and four lines of a dump, so that one line or two in a row
\* can be left out.
MCArrays == UNION {[1 .. n -> 0 .. 3] : n \in 1 .. 2} \cup [1 .. 5 -> {0, 1}]
               \cup {[i \in 1 .. 7 |-> IF i = k THEN 1 ELSE 0] : k \in 0 .. 7}

Texts(chars, n) == UNION {[1 .. k -> chars] : k \in 0 .. n}

\* A test by itself, behind another one, and entries that are no tests.
MCGroups == {<<<<name, TRUE>>>> : name \in Texts({"a", "b"}, 3)}
               \cup {<<<<<<"a", "b">>, TRUE>>, <<NoString, TRUE>>, <<<<"b">>, FALSE>>,
                       <<<<"b", "b">>, TRUE>>>>}

MCPatterns == {NoString} \cup Texts({"a", "b", "*", "?"}, 3)

\* The pattern may occur several times, overlap itself, and be part of its
\* replacement; the buffer is just large enough, or up to twice as large.
MCReplacements ==
    {r \in Texts({"a", "b"}, 4) \X (1 .. 12)
           \X {<<"a">>, <<"a", "b">>, <<"a", "a">>}
           \X {<<>>, <<"b">>, <<"b", "a">>, <<"a", "a", "b">>} : Len(r[1]) < r[2]}

MCAttributes == Texts({"x", "&", "<", "apos"}, 3) \X {1, 3, 6, 10, 14}

HelpersIdle == RoutineInit
ChecksIdle  == Init

MCInit == Init /\ RoutineInit

MCNext ==
    \/ HelpersIdle /\ Next /\ UNCHANGED routineVars
    \/ /\ ChecksIdle /\ UNCHANGED vars
       /\ \/ prints = <<>> /\ (FilterNext \/ call_forgotten)
          \/ HelpersIdle /\ CallNext
          \/ test_filter = NoString /\ skip_filter = NoString /\ MessageNext

MCSpec == MCInit /\ [][MCNext]_<<vars, routineVars>>
=============================================================================
