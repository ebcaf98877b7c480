------------------------------ MODULE SymbolMap ------------------------------
(***************************************************************************)
(* The lists and symbol maps of cmocka.c, as constant operators.           *)
(*                                                                         *)
(* A list is a sequence of nodes [value, refcount]: `value' names the heap *)
(* object the node points to and `refcount' says how often it may still be *)
(* taken (n > 0: n more times; -1: always, not taken yet; -2: always, and  *)
(* already taken at least once, or it may be left untaken).                *)
(*                                                                         *)
(* A symbol map is a function from the symbols that have a SymbolMapValue  *)
(* to their list.  One list of the code holds the SymbolMapValues of one   *)
(* level; its order shows only in the order of the messages and is left    *)
(* out.  The map of parameter expectations has two levels: a function from *)
(* function names to symbol maps over parameter names.                     *)
(***************************************************************************)
EXTENDS Integers, Sequences

\* The count of will_return_maybe, expect_*_maybe and ignore_function_calls.
WILL_RETURN_ONCE == -2

\* A node whose refcount is in R.
NodeOf(R) == [value : Nat \ {0}, refcount : R]

\* A node as long as no count of 0 is queued.
Node == NodeOf(Int \ {0})

\* The map that has no symbol (list_initialize on a map head).
EmptyMap == [s \in {} |-> <<>>]

\* m is a map over some of the symbols S whose entries are drawn from E.
IsMap(m, S, E) == DOMAIN m \subseteq S /\ m \in [DOMAIN m -> E]

Put(m, s, e) == [t \in DOMAIN m \cup {s} |-> IF t = s THEN e ELSE m[t]]

Drop(m, s) == [t \in DOMAIN m \ {s} |-> m[t]]

-----------------------------------------------------------------------------
(* The innermost list of a symbol.                                         *)

\* Plausible slip: the newest value is put in front.
list_add_value_Front(list, v, rc) == <<[value |-> v, refcount |-> rc]>> \o list

list_add_value(list, v, rc) == Append(list, [value |-> v, refcount |-> rc])

\* Plausible slips in TakeFirst: an "always" node keeps its refcount; a
\* counted node is kept one time too long; every node is removed at once; the
\* refcount of an "always" node falls without end.
TakeFirst_AlwaysNotMarked(list) ==
    IF Head(list).refcount = 1 THEN Tail(list)
    ELSE IF Head(list).refcount > 0
         THEN [list EXCEPT ![1].refcount = @ - 1] ELSE list
TakeFirst_OffByOne(list) ==
    IF Head(list).refcount = 0 THEN Tail(list)
    ELSE IF Head(list).refcount > WILL_RETURN_ONCE
         THEN [list EXCEPT ![1].refcount = @ - 1] ELSE list
TakeFirst_AlwaysRemoves(list) == Tail(list)
TakeFirst_NoFloor(list) ==
    IF Head(list).refcount - 1 = 0 THEN Tail(list)
    ELSE [list EXCEPT ![1].refcount = @ - 1]

\* What taking the first value of a list leaves of the list.
TakeFirst(list) ==
    IF Head(list).refcount - 1 = 0 THEN Tail(list)
    ELSE IF Head(list).refcount > WILL_RETURN_ONCE
         THEN [list EXCEPT ![1].refcount = @ - 1] ELSE list

\* Plausible slip: a value that must be returned at least once is dropped too.
DropServedFirst_TooMany(list) ==
    IF list # <<>> /\ Head(list).refcount < 0 THEN Tail(list) ELSE list

\* remove_always_return_values on an innermost list: only the FIRST node goes.
DropServedFirst(list) ==
    IF list # <<>> /\ Head(list).refcount < -1 THEN Tail(list) ELSE list

-----------------------------------------------------------------------------
(* Maps of one level.                                                      *)

ListAt(m, s) == IF s \in DOMAIN m THEN m[s] ELSE <<>>

add_symbol_value(m, s, v, rc) == Put(m, s, list_add_value(ListAt(m, s), v, rc))

\* Plausible slip: the SymbolMapValue stays when its list has run empty.
PutOrDrop_Keeps(m, s, e, empty) == Put(m, s, e)

\* A symbol whose entry has become empty is removed with its SymbolMapValue.
PutOrDrop(m, s, e, empty) == IF e = empty THEN Drop(m, s) ELSE Put(m, s, e)

\* get_symbol_value for a symbol that is in the map: the value taken, the
\* refcount it had (the C return value) and the map that is left.
get_symbol_value(m, s) ==
    [value |-> Head(m[s]).value,
     rc    |-> Head(m[s]).refcount,
     map   |-> PutOrDrop(m, s, TakeFirst(m[s]), <<>>)]

remove_always_return_values(m) ==
    LET left == {s \in DOMAIN m : DropServedFirst(m[s]) # <<>>}
    IN  [s \in left |-> DropServedFirst(m[s])]

check_for_leftover_values(m) == \E s \in DOMAIN m : m[s] # <<>>

-----------------------------------------------------------------------------
(* Maps of two levels: function, then parameter.                           *)

MapAt(m, f) == IF f \in DOMAIN m THEN m[f] ELSE EmptyMap

add_symbol_value2(m, f, p, v, rc) ==
    Put(m, f, add_symbol_value(MapAt(m, f), p, v, rc))

\* get_symbol_value for a function and parameter that are in the map.
get_symbol_value2(m, f, p) ==
    LET inner == get_symbol_value(m[f], p)
    IN  [inner EXCEPT !.map = PutOrDrop(m, f, inner.map, EmptyMap)]

remove_always_return_values2(m) ==
    LET left == {f \in DOMAIN m : remove_always_return_values(m[f]) # EmptyMap}
    IN  [f \in left |-> remove_always_return_values(m[f])]

check_for_leftover_values2(m) == \E f \in DOMAIN m : m[f] # EmptyMap
=============================================================================
