----------------------- MODULE ParameterChecks_proofs -----------------------
(***************************************************************************)
(* The parameter expectations of ParameterChecks, for any functions,       *)
(* parameters, checks, counts and bounds: the two-level map is well formed,*)
(* every event has one owner, and the map implements the plan of ValuePlan.*)
(*                                                                         *)
(* The proofs see the two-level map as one list per function and parameter *)
(* (Entry): what add_symbol_value, get_symbol_value and the leftover check *)
(* do to the map is first proved to be what they do to these lists.        *)
(***************************************************************************)
EXTENDS ParameterChecks, SequenceTheorems, TLAPS

\* The nodes of ParameterChecks.
EventNode == NodeOf(Refcounts)

\* The list of a parameter; the empty list if it has none.
Entry(m, f, p) == ListAt(MapAt(m, f), p)

\* What TypeOK says of the two-level map.
WellFormed(m) ==
    /\ DOMAIN m \subseteq Functions
    /\ \A f \in DOMAIN m :
          /\ IsMap(m[f], Parameters, Seq(EventNode))
          /\ m[f] # EmptyMap
          /\ \A p \in DOMAIN m[f] : m[f][p] # <<>>

-----------------------------------------------------------------------------
(* One list.                                                               *)

\* Refcounts are integers; the count of an event is one of them, and counting
\* one down that is above -2 gives another.
LEMMA RefcountType ==
    /\ Refcounts \subseteq Int
    /\ Counts \subseteq Refcounts
    /\ \A r \in Refcounts : r > -2 => r - 1 \in Refcounts
<1>1. Refcounts \subseteq Int
  BY DEF Refcounts
<1>2. Counts \subseteq Refcounts
  BY CountsAssumption DEF Refcounts
<1>3. ASSUME NEW r \in Refcounts, r > -2 PROVE r - 1 \in Refcounts
  <2>1. r \in Int /\ r - 1 \in Int
    BY <1>1
  <2>2. PICK c \in Counts : r = c \/ (-2 <= r /\ r < c)
    BY DEF Refcounts
  <2>3. c \in Int
    BY CountsAssumption
  <2>4. -2 <= r - 1 /\ r - 1 < c
    BY <1>3, <2>1, <2>2, <2>3
  <2> QED
    BY <2>1, <2>4 DEF Refcounts
<1> QED
  BY <1>1, <1>2, <1>3

\* What get_symbol_value leaves of a list.
LEMMA TakenList ==
    ASSUME NEW list \in Seq(EventNode), list # <<>>,
           NEW left, left = TakeFirst(list)
    PROVE  /\ left \in Seq(EventNode)
           /\ list[1].refcount = 1 =>
                /\ Len(left) = Len(list) - 1
                /\ \A i \in 1 .. Len(left) : left[i] = list[i + 1]
           /\ list[1].refcount # 1 =>
                /\ Len(left) = Len(list)
                /\ left[1].value = list[1].value
                /\ left[1].refcount = IF list[1].refcount > -2 THEN list[1].refcount - 1
                                      ELSE list[1].refcount
                /\ \A i \in 2 .. Len(list) : left[i] = list[i]
<1>1. /\ Len(list) \in Nat /\ Len(list) >= 1 /\ 1 \in 1 .. Len(list)
      /\ Head(list) = list[1] /\ list[1] \in EventNode
  BY EmptySeq, HeadTailProperties
<1>2. list[1].refcount \in Refcounts /\ list[1].refcount \in Int
      /\ list[1].value \in Nat \ {0}
  BY <1>1, RefcountType DEF EventNode, NodeOf
<1>3. CASE list[1].refcount = 1
  <2>1. left = Tail(list)
    BY <1>1, <1>3 DEF TakeFirst
  <2> QED
    BY <1>1, <1>3, <2>1, HeadTailProperties
<1>4. CASE list[1].refcount # 1 /\ list[1].refcount > -2
  <2>1. left = [list EXCEPT ![1].refcount = @ - 1]
    BY <1>1, <1>2, <1>4 DEF TakeFirst, WILL_RETURN_ONCE
  <2>2. PICK node : node = [list[1] EXCEPT !.refcount = @ - 1]
    OBVIOUS
  <2>3. left = [list EXCEPT ![1] = node]
    BY <1>1, <2>1, <2>2
  <2>4. node.value = list[1].value /\ node.refcount = list[1].refcount - 1
        /\ node = [value |-> node.value, refcount |-> node.refcount]
    BY <1>1, <2>2 DEF EventNode, NodeOf
  <2>5. list[1].refcount - 1 \in Refcounts
    BY <1>2, <1>4, RefcountType
  <2>6. node \in EventNode
    BY <1>2, <2>4, <2>5 DEF EventNode, NodeOf
  <2>7. left \in Seq(EventNode) /\ Len(left) = Len(list)
    BY <1>1, <2>3, <2>6, ExceptSeq
  <2>8. left[1] = node /\ \A i \in 2 .. Len(list) : left[i] = list[i]
    BY <1>1, <2>3
  <2> QED
    BY <1>4, <2>4, <2>7, <2>8
<1>5. CASE list[1].refcount # 1 /\ ~ (list[1].refcount > -2)
  <2>1. left = list
    BY <1>1, <1>2, <1>5 DEF TakeFirst, WILL_RETURN_ONCE
  <2> QED
    BY <1>1, <1>5, <2>1
<1> QED
  BY <1>3, <1>4, <1>5

-----------------------------------------------------------------------------
(* The two-level map as one list per parameter.                            *)

\* The lists of a well-formed map.
LEMMA EntryType ==
    ASSUME NEW m, WellFormed(m), NEW f, NEW p
    PROVE  /\ Entry(m, f, p) \in Seq(EventNode)
           /\ Entry(m, f, p) # <<>> <=> (f \in DOMAIN m /\ p \in DOMAIN m[f])
           /\ (f \in DOMAIN m /\ p \in DOMAIN m[f]) => Entry(m, f, p) = m[f][p]
           /\ Entry(m, f, p) # <<>> => f \in Functions /\ p \in Parameters
<1>1. CASE f \in DOMAIN m /\ p \in DOMAIN m[f]
  <2>1. Entry(m, f, p) = m[f][p]
    BY <1>1 DEF Entry, ListAt, MapAt
  <2>2. m[f][p] \in Seq(EventNode) /\ m[f][p] # <<>> /\ f \in Functions /\ p \in Parameters
    BY <1>1 DEF WellFormed, IsMap
  <2> QED
    BY <1>1, <2>1, <2>2
<1>2. CASE ~ (f \in DOMAIN m /\ p \in DOMAIN m[f])
  <2>1. Entry(m, f, p) = <<>>
    BY <1>2 DEF Entry, ListAt, MapAt, EmptyMap
  <2> QED
    BY <1>2, <2>1
<1> QED
  BY <1>1, <1>2

\* The map of no function.
LEMMA EmptyEntries ==
    WellFormed(EmptyMap) /\ \A f, p : Entry(EmptyMap, f, p) = <<>>
  BY DEF WellFormed, Entry, ListAt, MapAt, EmptyMap

\* Putting a list in place of the one of a parameter.
LEMMA PutEntry ==
    ASSUME NEW m, WellFormed(m), NEW f \in Functions, NEW p \in Parameters,
           NEW list \in Seq(EventNode), list # <<>>,
           NEW n, n = Put(m, f, Put(MapAt(m, f), p, list))
    PROVE  /\ WellFormed(n)
           /\ Entry(n, f, p) = list
           /\ \A g, q : (g # f \/ q # p) => Entry(n, g, q) = Entry(m, g, q)
<1>1. PICK inner : inner = Put(MapAt(m, f), p, list)
  OBVIOUS
<1>2. IsMap(MapAt(m, f), Parameters, Seq(EventNode))
      /\ \A q \in DOMAIN MapAt(m, f) : MapAt(m, f)[q] # <<>>
  BY DEF WellFormed, MapAt, IsMap, EmptyMap
<1>3. /\ DOMAIN inner = DOMAIN MapAt(m, f) \cup {p}
      /\ inner[p] = list
      /\ \A q \in DOMAIN MapAt(m, f) \ {p} : inner[q] = MapAt(m, f)[q]
      /\ inner = [q \in DOMAIN inner |-> inner[q]]
  BY <1>1 DEF Put
<1>4. IsMap(inner, Parameters, Seq(EventNode)) /\ p \in DOMAIN inner
      /\ \A q \in DOMAIN inner : inner[q] # <<>>
  <2>1. \A q \in DOMAIN inner : inner[q] \in Seq(EventNode) /\ inner[q] # <<>>
    BY <1>2, <1>3 DEF IsMap
  <2>2. DOMAIN inner \subseteq Parameters
    BY <1>2, <1>3 DEF IsMap
  <2> QED
    BY <1>3, <2>1, <2>2 DEF IsMap
<1>5. inner # EmptyMap
  BY <1>4 DEF EmptyMap
<1>6. /\ DOMAIN n = DOMAIN m \cup {f} /\ n[f] = inner
      /\ \A g \in DOMAIN m \ {f} : n[g] = m[g]
  BY <1>1 DEF Put
<1>7. WellFormed(n)
  BY <1>4, <1>5, <1>6 DEF WellFormed
<1>8. Entry(n, f, p) = list
  BY <1>3, <1>6 DEF Entry, ListAt, MapAt
<1>9. ASSUME NEW g, NEW q, g # f PROVE Entry(n, g, q) = Entry(m, g, q)
  BY <1>6, <1>9 DEF Entry, MapAt
<1>10. ASSUME NEW q, q # p PROVE Entry(n, f, q) = Entry(m, f, q)
  <2>1. MapAt(n, f) = inner
    BY <1>6 DEF MapAt
  <2> QED
    BY <1>3, <1>10, <2>1 DEF Entry, ListAt
<1> QED
  BY <1>7, <1>8, <1>9, <1>10

\* Removing the last list of a parameter, and with it a function that has no
\* parameter left.
LEMMA DropEntry ==
    ASSUME NEW m, WellFormed(m), NEW f \in DOMAIN m, NEW p \in DOMAIN m[f],
           NEW n, n = PutOrDrop(m, f, Drop(m[f], p), EmptyMap)
    PROVE  /\ WellFormed(n)
           /\ Entry(n, f, p) = <<>>
           /\ \A g, q : (g # f \/ q # p) => Entry(n, g, q) = Entry(m, g, q)
<1>1. PICK inner : inner = Drop(m[f], p)
  OBVIOUS
<1>2. IsMap(m[f], Parameters, Seq(EventNode)) /\ \A q \in DOMAIN m[f] : m[f][q] # <<>>
  BY DEF WellFormed
<1>3. /\ DOMAIN inner = DOMAIN m[f] \ {p}
      /\ \A q \in DOMAIN inner : inner[q] = m[f][q]
      /\ inner = [q \in DOMAIN inner |-> inner[q]]
  BY <1>1 DEF Drop
<1>4. IsMap(inner, Parameters, Seq(EventNode)) /\ \A q \in DOMAIN inner : inner[q] # <<>>
  BY <1>2, <1>3 DEF IsMap
<1>5. CASE inner = EmptyMap
  <2>1. DOMAIN n = DOMAIN m \ {f} /\ \A g \in DOMAIN n : n[g] = m[g]
    BY <1>1, <1>5 DEF PutOrDrop, Drop
  <2>2. DOMAIN inner = {}
    BY <1>5 DEF EmptyMap
  <2>3. WellFormed(n)
    BY <2>1 DEF WellFormed
  <2>4. \A q : Entry(n, f, q) = <<>>
    BY <2>1 DEF Entry, ListAt, MapAt, EmptyMap
  <2>5. \A q : q # p => Entry(m, f, q) = <<>>
    BY <1>3, <2>2 DEF Entry, ListAt, MapAt
  <2>6. \A g, q : g # f => Entry(n, g, q) = Entry(m, g, q)
    BY <2>1 DEF Entry, MapAt
  <2> QED
    BY <2>3, <2>4, <2>5, <2>6
<1>6. CASE inner # EmptyMap
  <2>1. DOMAIN n = DOMAIN m /\ n[f] = inner /\ \A g \in DOMAIN m \ {f} : n[g] = m[g]
    BY <1>1, <1>6 DEF PutOrDrop, Put
  <2>2. WellFormed(n)
    BY <1>4, <1>6, <2>1 DEF WellFormed
  <2>3. \A g, q : g # f => Entry(n, g, q) = Entry(m, g, q)
    BY <2>1 DEF Entry, MapAt
  <2>4. MapAt(n, f) = inner /\ MapAt(m, f) = m[f]
    BY <2>1 DEF MapAt
  <2>5. Entry(n, f, p) = <<>> /\ \A q : q # p => Entry(n, f, q) = Entry(m, f, q)
    BY <1>3, <2>4 DEF Entry, ListAt
  <2> QED
    BY <2>2, <2>3, <2>5
<1> QED
  BY <1>5, <1>6
\* add_symbol_value appends a node to the list of its parameter.
LEMMA AddedEntry ==
    ASSUME NEW m, WellFormed(m), NEW f \in Functions, NEW p \in Parameters,
           NEW v \in Nat \ {0}, NEW c \in Counts,
           NEW n, n = add_symbol_value2(m, f, p, v, c)
    PROVE  /\ WellFormed(n)
           /\ \A g, q : (g # f \/ q # p) => Entry(n, g, q) = Entry(m, g, q)
           /\ Len(Entry(n, f, p)) = Len(Entry(m, f, p)) + 1
           /\ Entry(n, f, p)[Len(Entry(m, f, p)) + 1] = [value |-> v, refcount |-> c]
           /\ \A i \in 1 .. Len(Entry(m, f, p)) : Entry(n, f, p)[i] = Entry(m, f, p)[i]
<1>1. PICK old, node : old = Entry(m, f, p) /\ node = [value |-> v, refcount |-> c]
  OBVIOUS
<1>2. PICK list : list = Append(old, node)
  OBVIOUS
<1>3. old \in Seq(EventNode)
  BY <1>1, EntryType
<1>4. node \in EventNode
  <2>1. c \in Refcounts
    BY RefcountType
  <2> QED
    BY <1>1, <2>1 DEF EventNode, NodeOf
<1>5. /\ list \in Seq(EventNode) /\ Len(list) = Len(old) + 1
      /\ list[Len(old) + 1] = node /\ \A i \in 1 .. Len(old) : list[i] = old[i]
  BY <1>2, <1>3, <1>4, AppendProperties
<1>6. list # <<>>
  BY <1>3, <1>5
<1>7. n = Put(m, f, Put(MapAt(m, f), p, list))
  BY <1>1, <1>2 DEF add_symbol_value2, add_symbol_value, list_add_value, Entry
<1>8. /\ WellFormed(n) /\ Entry(n, f, p) = list
      /\ \A g, q : (g # f \/ q # p) => Entry(n, g, q) = Entry(m, g, q)
  BY <1>5, <1>6, <1>7, PutEntry
<1> QED
  BY <1>1, <1>5, <1>8

\* get_symbol_value takes the first node of the list of its parameter.
LEMMA TakenEntry ==
    ASSUME NEW m, WellFormed(m), NEW f \in DOMAIN m, NEW p \in DOMAIN m[f],
           NEW got, got = get_symbol_value2(m, f, p),
           NEW list, list = Entry(m, f, p)
    PROVE  /\ list \in Seq(EventNode) /\ list # <<>>
           /\ got.value = list[1].value
           /\ got.rc = list[1].refcount
           /\ WellFormed(got.map)
           /\ Entry(got.map, f, p) = TakeFirst(list)
           /\ \A g, q : (g # f \/ q # p) => Entry(got.map, g, q) = Entry(m, g, q)
<1>1. list = m[f][p] /\ list \in Seq(EventNode) /\ list # <<>>
      /\ f \in Functions /\ p \in Parameters
  BY EntryType
<1>2. Head(list) = list[1]
  BY <1>1, HeadTailProperties
<1>3. PICK inner : inner = PutOrDrop(m[f], p, TakeFirst(list), <<>>)
  OBVIOUS
<1>4. /\ got.value = list[1].value /\ got.rc = list[1].refcount
      /\ got.map = PutOrDrop(m, f, inner, EmptyMap)
  BY <1>1, <1>2, <1>3 DEF get_symbol_value2, get_symbol_value
<1>5. PICK left : left = TakeFirst(list)
  OBVIOUS
<1>6. left \in Seq(EventNode)
  BY <1>1, <1>5, TakenList
<1>7. CASE left = <<>>
  <2>1. inner = Drop(m[f], p)
    BY <1>3, <1>5, <1>7 DEF PutOrDrop
  <2>2. PICK n : n = got.map
    OBVIOUS
  <2>3. /\ WellFormed(n) /\ Entry(n, f, p) = <<>>
        /\ \A g, q : (g # f \/ q # p) => Entry(n, g, q) = Entry(m, g, q)
    BY <1>4, <2>1, <2>2, DropEntry
  <2> QED
    BY <1>1, <1>4, <1>5, <1>7, <2>2, <2>3
<1>8. CASE left # <<>>
  <2>1. inner = Put(m[f], p, left)
    BY <1>3, <1>5, <1>8 DEF PutOrDrop
  <2>2. inner # EmptyMap
    BY <2>1 DEF Put, EmptyMap
  <2>3. PICK n : n = got.map
    OBVIOUS
  <2>4. n = Put(m, f, Put(MapAt(m, f), p, left))
    BY <1>4, <2>1, <2>2, <2>3 DEF PutOrDrop, MapAt
  <2>5. /\ WellFormed(n) /\ Entry(n, f, p) = left
        /\ \A g, q : (g # f \/ q # p) => Entry(n, g, q) = Entry(m, g, q)
    BY <1>1, <1>6, <1>8, <2>4, PutEntry
  <2> QED
    BY <1>1, <1>4, <1>5, <2>3, <2>5
<1> QED
  BY <1>7, <1>8

\* What remove_always_return_values leaves of a list.
LEMMA CleanedList ==
    ASSUME NEW list \in Seq(EventNode), NEW left, left = DropServedFirst(list)
    PROVE  /\ left \in Seq(EventNode)
           /\ (list # <<>> /\ list[1].refcount < -1) =>
                /\ Len(left) = Len(list) - 1
                /\ \A i \in 1 .. Len(left) : left[i] = list[i + 1]
           /\ ~ (list # <<>> /\ list[1].refcount < -1) => left = list
<1>1. CASE list = <<>>
  BY <1>1 DEF DropServedFirst
<1>2. CASE list # <<>>
  <2>1. Head(list) = list[1] /\ Tail(list) \in Seq(EventNode)
        /\ Len(Tail(list)) = Len(list) - 1
        /\ \A i \in 1 .. Len(Tail(list)) : Tail(list)[i] = list[i + 1]
    BY <1>2, HeadTailProperties
  <2>2. left = IF list[1].refcount < -1 THEN Tail(list) ELSE list
    BY <1>2, <2>1 DEF DropServedFirst
  <2> QED
    BY <1>2, <2>1, <2>2
<1> QED
  BY <1>1, <1>2

\* remove_always_return_values does so to every list of the map.
LEMMA CleanedEntry ==
    ASSUME NEW m, WellFormed(m), NEW n, n = remove_always_return_values2(m)
    PROVE  /\ WellFormed(n)
           /\ \A f, p : Entry(n, f, p) = DropServedFirst(Entry(m, f, p))
<1> DEFINE Inner(f) == remove_always_return_values(m[f])
<1>1. ASSUME NEW f \in DOMAIN m
      PROVE  /\ IsMap(Inner(f), Parameters, Seq(EventNode))
             /\ \A p \in DOMAIN Inner(f) : Inner(f)[p] # <<>>
             /\ \A p : ListAt(Inner(f), p) = DropServedFirst(ListAt(m[f], p))
             /\ Inner(f) = EmptyMap <=> DOMAIN Inner(f) = {}
  <2>1. IsMap(m[f], Parameters, Seq(EventNode))
    BY DEF WellFormed
  <2>2. PICK r : r = Inner(f)
    OBVIOUS
  <2>3. /\ DOMAIN r = {p \in DOMAIN m[f] : DropServedFirst(m[f][p]) # <<>>}
        /\ \A p \in DOMAIN r : r[p] = DropServedFirst(m[f][p])
        /\ r = [p \in DOMAIN r |-> r[p]]
    BY <2>2 DEF remove_always_return_values
  <2>4. \A p \in DOMAIN m[f] : m[f][p] \in Seq(EventNode)
    BY <2>1 DEF IsMap
  <2>5. \A p \in DOMAIN r : r[p] \in Seq(EventNode)
    BY <2>3, <2>4, CleanedList
  <2>6. IsMap(r, Parameters, Seq(EventNode))
    BY <2>1, <2>3, <2>5 DEF IsMap
  <2>7. DropServedFirst(<<>>) = <<>>
    BY DEF DropServedFirst
  <2>8. \A p : ListAt(r, p) = DropServedFirst(ListAt(m[f], p))
    BY <2>3, <2>7 DEF ListAt
  <2>9. r = EmptyMap <=> DOMAIN r = {}
    BY <2>3 DEF EmptyMap
  <2> QED
    BY <2>2, <2>3, <2>6, <2>8, <2>9
<1>2. /\ DOMAIN n = {f \in DOMAIN m : Inner(f) # EmptyMap}
      /\ \A f \in DOMAIN n : n[f] = Inner(f)
  BY DEF remove_always_return_values2
<1> HIDE DEF Inner
<1>3. WellFormed(n)
  <2>1. DOMAIN n \subseteq Functions
    BY <1>2 DEF WellFormed
  <2> QED
    BY <1>1, <1>2, <2>1 DEF WellFormed
<1>4. ASSUME NEW f, NEW p PROVE Entry(n, f, p) = DropServedFirst(Entry(m, f, p))
  <2>1. CASE f \in DOMAIN n
    BY <1>1, <1>2, <2>1 DEF Entry, MapAt
  <2>2. CASE f \in DOMAIN m /\ f \notin DOMAIN n
    <3>1. DOMAIN Inner(f) = {}
      BY <1>1, <1>2, <2>2
    <3>2. ListAt(Inner(f), p) = <<>>
      BY <3>1 DEF ListAt
    <3>3. Entry(m, f, p) = ListAt(m[f], p)
      BY <2>2 DEF Entry, MapAt
    <3>4. Entry(n, f, p) = <<>>
      BY <2>2 DEF Entry, MapAt, ListAt, EmptyMap
    <3> QED
      BY <1>1, <2>2, <3>2, <3>3, <3>4
  <2>3. CASE f \notin DOMAIN m
    <3>1. Entry(m, f, p) = <<>> /\ Entry(n, f, p) = <<>>
      BY <1>2, <2>3 DEF Entry, MapAt, ListAt, EmptyMap
    <3> QED
      BY <3>1 DEF DropServedFirst
  <2> QED
    BY <1>2, <2>1, <2>2, <2>3
<1> QED
  BY <1>3, <1>4

\* The leftover check finds something if and only if some list is not empty.
LEMMA LeftoverEntry ==
    ASSUME NEW m, WellFormed(m)
    PROVE  check_for_leftover_values2(m) <=> \E f, p : Entry(m, f, p) # <<>>
<1>1. ASSUME NEW f \in DOMAIN m PROVE \E p : Entry(m, f, p) # <<>>
  <2>1. DOMAIN m[f] # {}
    BY DEF WellFormed, IsMap, EmptyMap
  <2> QED
    BY <2>1, EntryType
<1>2. check_for_leftover_values2(m) <=> DOMAIN m # {}
  BY DEF check_for_leftover_values2, WellFormed
<1> QED
  BY <1>1, <1>2, EntryType

\* An event is queued if it is in one of the lists.
LEMMA QueuedIn ==
    ASSUME NEW m, WellFormed(m), NEW v
    PROVE  v \in Queued(m) <=>
              \E f, p : \E i \in 1 .. Len(Entry(m, f, p)) : Entry(m, f, p)[i].value = v
<1>1. v \in Queued(m) <=>
         \E f \in DOMAIN m : \E p \in DOMAIN m[f] : \E i \in DOMAIN m[f][p] :
            m[f][p][i].value = v
  BY DEF Queued
<1>2. \A f \in DOMAIN m : \A p \in DOMAIN m[f] :
         m[f][p] = Entry(m, f, p) /\ DOMAIN m[f][p] = 1 .. Len(Entry(m, f, p))
  BY EntryType
<1>3. ASSUME NEW f, NEW p, NEW i \in 1 .. Len(Entry(m, f, p))
      PROVE  f \in DOMAIN m /\ p \in DOMAIN m[f]
  <2>1. Entry(m, f, p) # <<>>
    BY <1>3
  <2> QED
    BY <2>1, EntryType
<1> QED
  BY <1>1, <1>2, <1>3

-----------------------------------------------------------------------------
(* The lists and the history.                                              *)

Events == DOMAIN declared

ListOf(f, p) == Entry(expected, f, p)

\* The event was taken as often as its count says.
Exhausted(v) == declared[v].count > 0 /\ checked[v] = declared[v].count

\* What the refcount of an event must be, from its count and its history.
Owed(v) == IF declared[v].count > 0 THEN declared[v].count - checked[v]
           ELSE IF declared[v].count = -1 /\ checked[v] > 0 THEN -2
           ELSE declared[v].count

\* The node at place i of a list holds an event that was declared for that
\* parameter, later than those before it, is not exhausted, and has the
\* refcount that the event still owes.
NodeInPlace(f, p, i) ==
    LET v == ListOf(f, p)[i].value IN
    /\ v \in Events
    /\ declared[v].function = f
    /\ declared[v].parameter = p
    /\ ListOf(f, p)[i].refcount = Owed(v)
    /\ ~ Exhausted(v)
    /\ \A j \in 1 .. i - 1 : ListOf(f, p)[j].value < v

NodesInPlace == \A f, p : \A i \in 1 .. Len(ListOf(f, p)) : NodeInPlace(f, p, i)

\* An event is in the list of the parameter it was declared for.
AtOwn(v) ==
    \E i \in 1 .. Len(ListOf(declared[v].function, declared[v].parameter)) :
        ListOf(declared[v].function, declared[v].parameter)[i].value = v

NoneLost == \A v \in Events : Exhausted(v) \/ AtOwn(v)

\* No counted event is taken more often than its count says.
CheckedWithinCount ==
    \A v \in Events : declared[v].count > 0 => checked[v] <= declared[v].count

\* The inductive invariant: while the body of a test runs, the lists agree with
\* what was declared and taken, and no message has been printed.
QueueInv ==
    /\ phase = "body" => NodesInPlace /\ NoneLost /\ report.kind = "none"
    /\ CheckedWithinCount

\* The type invariant, with the map as WellFormed says it.
LEMMA TypeParts ==
    TypeOK <=>
    /\ WellFormed(expected)
    /\ lastLocation \in 0 .. Len(declared)
    /\ declared \in Seq(CheckParameterEvent)
    /\ checked \in Seq(Nat)
    /\ Len(checked) = Len(declared)
    /\ live \subseteq Nat \ {0}
    /\ phase \in {"idle", "body", "unwound"}
    /\ rc \in {0, -1}
    /\ report \in Report
  BY DEF TypeOK, NoEmptySymbol, WellFormed, EventNode

\* The same of the state after a step.
LEMMA TypeAfter ==
    ( /\ WellFormed(expected')
      /\ lastLocation' \in 0 .. Len(declared')
      /\ declared' \in Seq(CheckParameterEvent)
      /\ checked' \in Seq(Nat)
      /\ Len(checked') = Len(declared')
      /\ live' \subseteq Nat \ {0}
      /\ phase' \in {"idle", "body", "unwound"}
      /\ rc' \in {0, -1}
      /\ report' \in Report ) => TypeOK'
  BY DEF TypeOK, NoEmptySymbol, WellFormed, EventNode

\* The declared events, as the type invariant gives them.
LEMMA EventType ==
    ASSUME TypeOK
    PROVE  /\ Len(declared) \in Nat /\ Events = 1 .. Len(declared)
           /\ \A v \in Events : /\ v \in Nat \ {0}
                                /\ checked[v] \in Nat
                                /\ declared[v] \in CheckParameterEvent
                                /\ declared[v].count \in Int
<1>1. declared \in Seq(CheckParameterEvent) /\ checked \in Seq(Nat)
      /\ Len(checked) = Len(declared)
  BY DEF TypeOK
<1>2. Len(declared) \in Nat /\ Events = 1 .. Len(declared)
  BY <1>1 DEF Events
<1>3. \A v \in Events : checked[v] \in Nat /\ declared[v] \in CheckParameterEvent
  BY <1>1, <1>2
<1>4. \A v \in Events : declared[v].count \in Int
  BY <1>3, CountsAssumption DEF CheckParameterEvent
<1> QED
  BY <1>2, <1>3, <1>4

\* The lists, as the type invariant gives them.
LEMMA ListType ==
    ASSUME TypeOK, NEW f, NEW p
    PROVE  /\ ListOf(f, p) \in Seq(EventNode) /\ Len(ListOf(f, p)) \in Nat
           /\ \A i \in 1 .. Len(ListOf(f, p)) :
                /\ ListOf(f, p)[i] \in EventNode
                /\ ListOf(f, p)[i].value \in Nat \ {0}
                /\ ListOf(f, p)[i].refcount \in Int
           /\ HasEntry(f, p) <=> ListOf(f, p) # <<>>
           /\ HasEntry(f, p) => 1 \in 1 .. Len(ListOf(f, p))
           /\ HasEntry(f, p) => f \in Functions /\ p \in Parameters
<1>1. WellFormed(expected)
  BY TypeParts
<1>2. PICK list : list = ListOf(f, p)
  OBVIOUS
<1>3. list \in Seq(EventNode) /\ (HasEntry(f, p) <=> list # <<>>)
      /\ (HasEntry(f, p) => f \in Functions /\ p \in Parameters)
  BY <1>1, <1>2, EntryType DEF ListOf, HasEntry
<1>4. \A i \in 1 .. Len(list) : list[i] \in EventNode
  BY <1>3
<1>5. \A i \in 1 .. Len(list) : list[i].value \in Nat \ {0} /\ list[i].refcount \in Int
  BY <1>4, RefcountType DEF EventNode, NodeOf
<1>6. list # <<>> => 1 \in 1 .. Len(list)
  BY <1>3, EmptySeq
<1> QED
  BY <1>2, <1>3, <1>4, <1>5, <1>6

\* Every event is queued once, in one list.
LEMMA QueuedOnce ==
    ASSUME TypeOK, NodesInPlace, NEW f, NEW p, NEW g, NEW q,
           NEW i \in 1 .. Len(ListOf(f, p)), NEW j \in 1 .. Len(ListOf(g, q)),
           ListOf(f, p)[i].value = ListOf(g, q)[j].value
    PROVE  f = g /\ p = q /\ i = j
<1>1. NodeInPlace(f, p, i) /\ NodeInPlace(g, q, j)
  BY DEF NodesInPlace
<1>2. f = g /\ p = q
  BY <1>1 DEF NodeInPlace
<1>3. i \in Nat /\ j \in Nat /\ ListOf(f, p)[i].value \in Nat
  BY ListType
<1>4. ~ (i < j)
  BY <1>1, <1>2, <1>3 DEF NodeInPlace
<1>5. ~ (j < i)
  BY <1>1, <1>2, <1>3 DEF NodeInPlace
<1> QED
  BY <1>2, <1>3, <1>4, <1>5

\* What expect_check() adds to the history.
LEMMA ExpectHistory ==
    ASSUME TypeOK, NEW f, NEW p, NEW a, NEW c, expect_check(f, p, a, c),
           NEW k, k = Len(declared) + 1
    PROVE  /\ Events' = Events \cup {k} /\ k \notin Events /\ k \in Nat \ {0}
           /\ \A v \in Events :
                 v < k /\ declared'[v] = declared[v] /\ checked'[v] = checked[v]
           /\ declared'[k].function = f /\ declared'[k].parameter = p
           /\ declared'[k].count = c /\ checked'[k] = 0
<1>1. declared \in Seq(CheckParameterEvent) /\ checked \in Seq(Nat)
      /\ Len(checked) = Len(declared)
  BY DEF TypeOK
<1>2. PICK e : e = [function |-> f, parameter |-> p, accepts |-> a, count |-> c]
  OBVIOUS
<1>3. declared' = Append(declared, e) /\ checked' = Append(checked, 0)
  BY <1>2 DEF expect_check
<1>4. Len(declared) \in Nat /\ Events = 1 .. Len(declared)
  BY EventType
<1>5. /\ DOMAIN declared' = 1 .. Len(declared) + 1
      /\ declared'[Len(declared) + 1] = e
      /\ \A v \in 1 .. Len(declared) : declared'[v] = declared[v]
  BY <1>1, <1>3
<1>6. /\ checked'[Len(checked) + 1] = 0
      /\ \A v \in 1 .. Len(checked) : checked'[v] = checked[v]
  BY <1>1, <1>3
<1>7. Events' = 1 .. Len(declared) + 1
  BY <1>5 DEF Events
<1>8. e.function = f /\ e.parameter = p /\ e.count = c
  BY <1>2
<1> QED
  BY <1>1, <1>4, <1>5, <1>6, <1>7, <1>8

\* expect_check() keeps the lists in agreement with the history.
LEMMA ExpectQueues ==
    ASSUME TypeOK, NodesInPlace, NoneLost, CheckedWithinCount,
           NEW f \in Functions, NEW p \in Parameters, NEW a, NEW c \in Counts,
           expect_check(f, p, a, c)
    PROVE  NodesInPlace' /\ NoneLost' /\ CheckedWithinCount'
<1>1. PICK k : k = Len(declared) + 1
  OBVIOUS
<1>2. /\ Events' = Events \cup {k} /\ k \notin Events /\ k \in Nat \ {0}
      /\ \A v \in Events :
            v < k /\ declared'[v] = declared[v] /\ checked'[v] = checked[v]
      /\ declared'[k].function = f /\ declared'[k].parameter = p
      /\ declared'[k].count = c /\ checked'[k] = 0
  BY <1>1, ExpectHistory
<1>3. /\ \A g, q : (g # f \/ q # p) => ListOf(g, q)' = ListOf(g, q)
      /\ Len(ListOf(f, p)') = Len(ListOf(f, p)) + 1
      /\ ListOf(f, p)'[Len(ListOf(f, p)) + 1] = [value |-> k, refcount |-> c]
      /\ \A i \in 1 .. Len(ListOf(f, p)) : ListOf(f, p)'[i] = ListOf(f, p)[i]
  <2>1. expected' = add_symbol_value2(expected, f, p, k, c) /\ WellFormed(expected)
    BY <1>1, TypeParts DEF expect_check
  <2> QED
    BY <1>2, <2>1, AddedEntry DEF ListOf
<1>4. \A v \in Events : (Owed(v)' = Owed(v)) /\ (Exhausted(v)' <=> Exhausted(v))
  BY <1>2 DEF Owed, Exhausted
<1>5. c \in Int /\ Owed(k)' = c /\ ~ Exhausted(k)'
  <2>1. c \in Int
    BY CountsAssumption
  <2> QED
    BY <1>2, <2>1 DEF Owed, Exhausted
<1>6. ASSUME NEW g, NEW q, NEW i \in 1 .. Len(ListOf(g, q)),
             ListOf(g, q)'[i] = ListOf(g, q)[i],
             \A j \in 1 .. i - 1 : ListOf(g, q)'[j] = ListOf(g, q)[j]
      PROVE  NodeInPlace(g, q, i)'
  <2>1. NodeInPlace(g, q, i)
    BY DEF NodesInPlace
  <2>2. PICK v : v = ListOf(g, q)[i].value
    OBVIOUS
  <2>3. v \in Events /\ declared'[v] = declared[v]
    BY <1>2, <2>1, <2>2 DEF NodeInPlace
  <2>4. v \in Events' /\ Owed(v)' = Owed(v) /\ (Exhausted(v)' <=> Exhausted(v))
    BY <1>2, <1>4, <2>3
  <2> QED
    BY <1>6, <2>1, <2>2, <2>3, <2>4 DEF NodeInPlace
<1>7. NodesInPlace'
  <2> SUFFICES ASSUME NEW g, NEW q, NEW i \in 1 .. Len(ListOf(g, q)')
               PROVE  NodeInPlace(g, q, i)'
    BY DEF NodesInPlace
  <2>1. CASE g # f \/ q # p
    BY <1>3, <1>6, <2>1
  <2>2. CASE g = f /\ q = p /\ i \in 1 .. Len(ListOf(f, p))
    <3>1. \A j \in 1 .. i - 1 : j \in 1 .. Len(ListOf(f, p))
      BY <2>2, ListType
    <3> QED
      BY <1>3, <1>6, <2>2, <3>1
  <2>3. CASE g = f /\ q = p /\ i = Len(ListOf(f, p)) + 1
    <3>1. ListOf(f, p)'[i].value = k /\ ListOf(f, p)'[i].refcount = c
      BY <1>3, <2>3
    <3>2. \A j \in 1 .. i - 1 : ListOf(f, p)'[j].value < k
      <4> SUFFICES ASSUME NEW j \in 1 .. i - 1 PROVE ListOf(f, p)'[j].value < k
        OBVIOUS
      <4>1. j \in 1 .. Len(ListOf(f, p))
        BY <2>3, ListType
      <4>2. NodeInPlace(f, p, j)
        BY <4>1 DEF NodesInPlace
      <4> QED
        BY <1>2, <1>3, <4>1, <4>2 DEF NodeInPlace
    <3> QED
      BY <1>2, <1>5, <2>3, <3>1, <3>2 DEF NodeInPlace
  <2> QED
    BY <1>3, <2>1, <2>2, <2>3, ListType
<1>8. NoneLost'
  <2> SUFFICES ASSUME NEW v \in Events', ~ Exhausted(v)' PROVE AtOwn(v)'
    BY DEF NoneLost
  <2>1. CASE v = k
    <3>1. Len(ListOf(f, p)) + 1 \in 1 .. Len(ListOf(f, p)')
      BY <1>3, ListType
    <3> QED
      BY <1>2, <1>3, <2>1, <3>1 DEF AtOwn
  <2>2. CASE v \in Events
    <3>1. AtOwn(v) /\ declared'[v] = declared[v]
      BY <1>2, <1>4, <2>2 DEF NoneLost
    <3>2. PICK g, q : g = declared[v].function /\ q = declared[v].parameter
      OBVIOUS
    <3>3. PICK i \in 1 .. Len(ListOf(g, q)) : ListOf(g, q)[i].value = v
      BY <3>1, <3>2 DEF AtOwn
    <3>4. i \in 1 .. Len(ListOf(g, q)') /\ ListOf(g, q)'[i] = ListOf(g, q)[i]
      BY <1>3, <3>3, ListType
    <3> QED
      BY <3>1, <3>2, <3>3, <3>4 DEF AtOwn
  <2> QED
    BY <1>2, <2>1, <2>2
<1>9. CheckedWithinCount'
  BY <1>2, <1>5 DEF CheckedWithinCount
<1> QED
  BY <1>7, <1>8, <1>9

\* What taking an event does to the history.
LEMMA TakeHistory ==
    ASSUME TypeOK, NodesInPlace, NEW f, NEW p, HasEntry(f, p),
           NEW got, got = get_symbol_value2(expected, f, p), TakeEvent(got)
    PROVE  /\ declared' = declared /\ Events' = Events
           /\ got.value = ListOf(f, p)[1].value
           /\ got.value \in Events
           /\ declared[got.value].function = f /\ declared[got.value].parameter = p
           /\ got.rc = Owed(got.value) /\ got.rc # 0 /\ ~ Exhausted(got.value)
           /\ checked'[got.value] = checked[got.value] + 1
           /\ \A u \in Events \ {got.value} : checked'[u] = checked[u]
           /\ checked' \in Seq(Nat) /\ Len(checked') = Len(declared)
<1>1. declared' = declared /\ Events' = Events /\ got.rc # 0
      /\ checked' = [checked EXCEPT ![got.value] = @ + 1]
  BY DEF TakeEvent, Events
<1>2. WellFormed(expected) /\ f \in DOMAIN expected /\ p \in DOMAIN expected[f]
  BY TypeParts DEF HasEntry
<1>3. got.value = ListOf(f, p)[1].value /\ got.rc = ListOf(f, p)[1].refcount
  BY <1>2, TakenEntry DEF ListOf
<1>4. NodeInPlace(f, p, 1)
  BY ListType DEF NodesInPlace
<1>5. PICK v : v = got.value
  OBVIOUS
<1>6. /\ v \in Events /\ declared[v].function = f /\ declared[v].parameter = p
      /\ got.rc = Owed(v) /\ ~ Exhausted(v)
  BY <1>3, <1>4, <1>5 DEF NodeInPlace
<1>7. /\ checked \in Seq(Nat) /\ Len(checked) = Len(declared)
      /\ v \in 1 .. Len(checked) /\ checked[v] + 1 \in Nat
  BY <1>6, EventType DEF TypeOK
<1>8. checked' = [checked EXCEPT ![v] = checked[v] + 1]
  BY <1>1, <1>5, <1>7
<1>9. checked' \in Seq(Nat) /\ Len(checked') = Len(checked)
  BY <1>7, <1>8, ExceptSeq
<1>10. checked'[v] = checked[v] + 1
       /\ \A u \in Events \ {v} : checked'[u] = checked[u]
  BY <1>6, <1>7, <1>8, EventType
<1> QED
  BY <1>1, <1>3, <1>5, <1>6, <1>7, <1>9, <1>10

\* What taking an event does to what it owes: its last use exhausts it, any
\* other use leaves the refcount that get_symbol_value computes.
LEMMA TakenOwed ==
    ASSUME TypeOK, CheckedWithinCount, declared' = declared, NEW v \in Events,
           checked'[v] = checked[v] + 1, Owed(v) # 0, ~ Exhausted(v)
    PROVE  /\ Owed(v) = 1 => Exhausted(v)'
           /\ Owed(v) # 1 =>
                /\ ~ Exhausted(v)'
                /\ Owed(v)' = IF Owed(v) > -2 THEN Owed(v) - 1 ELSE Owed(v)
           /\ declared[v].count > 0 => checked'[v] <= declared[v].count
<1>1. declared[v].count \in Int /\ checked[v] \in Nat
      /\ (declared[v].count > 0 => checked[v] <= declared[v].count)
  BY EventType DEF CheckedWithinCount
<1>2. PICK c \in Int, n \in Nat : c = declared[v].count /\ n = checked[v]
  BY <1>1
<1>3. Owed(v) = IF c > 0 THEN c - n ELSE IF c = -1 /\ n > 0 THEN -2 ELSE c
  BY <1>2 DEF Owed
<1>4. Owed(v)' = IF c > 0 THEN c - (n + 1) ELSE IF c = -1 /\ n + 1 > 0 THEN -2 ELSE c
  BY <1>2 DEF Owed
<1>5. (Exhausted(v) <=> (c > 0 /\ n = c)) /\ (Exhausted(v)' <=> (c > 0 /\ n + 1 = c))
  BY <1>2 DEF Exhausted
<1>6. CASE c > 0
  <2>1. n < c
    BY <1>1, <1>2, <1>5, <1>6
  <2> QED
    BY <1>2, <1>3, <1>4, <1>5, <1>6, <2>1
<1>7. CASE ~ (c > 0)
  BY <1>2, <1>3, <1>4, <1>5, <1>7
<1> QED
  BY <1>6, <1>7

\* Taking an event keeps the lists in agreement with the history.
LEMMA TakeQueues ==
    ASSUME TypeOK, NodesInPlace, NoneLost, CheckedWithinCount,
           NEW f, NEW p, HasEntry(f, p),
           NEW got, got = get_symbol_value2(expected, f, p), TakeEvent(got)
    PROVE  NodesInPlace' /\ NoneLost' /\ CheckedWithinCount'
<1>1. PICK v, list, left :
         v = got.value /\ list = ListOf(f, p) /\ left = TakeFirst(list)
  OBVIOUS
<1>2. /\ declared' = declared /\ Events' = Events
      /\ v = list[1].value /\ v \in Events
      /\ declared[v].function = f /\ declared[v].parameter = p
      /\ Owed(v) # 0 /\ ~ Exhausted(v) /\ list[1].refcount = Owed(v)
      /\ checked'[v] = checked[v] + 1
      /\ \A u \in Events \ {v} : checked'[u] = checked[u]
  <2>1. NodeInPlace(f, p, 1)
    BY ListType DEF NodesInPlace
  <2> QED
    BY <1>1, <2>1, TakeHistory DEF NodeInPlace
<1>3. /\ Owed(v) = 1 => Exhausted(v)'
      /\ Owed(v) # 1 =>
           /\ ~ Exhausted(v)'
           /\ Owed(v)' = IF Owed(v) > -2 THEN Owed(v) - 1 ELSE Owed(v)
      /\ declared[v].count > 0 => checked'[v] <= declared[v].count
  BY <1>2, TakenOwed
<1>4. \A u \in Events \ {v} : (Owed(u)' = Owed(u)) /\ (Exhausted(u)' <=> Exhausted(u))
  BY <1>2 DEF Owed, Exhausted
<1>5. ListOf(f, p)' = left
      /\ \A g, q : (g # f \/ q # p) => ListOf(g, q)' = ListOf(g, q)
  <2>1. WellFormed(expected) /\ f \in DOMAIN expected /\ p \in DOMAIN expected[f]
    BY TypeParts DEF HasEntry
  <2>2. expected' = got.map
    BY DEF TakeEvent
  <2> QED
    BY <1>1, <2>1, <2>2, TakenEntry DEF ListOf
<1>6. /\ list \in Seq(EventNode) /\ list # <<>> /\ Len(list) \in Nat
      /\ 1 \in 1 .. Len(list)
      /\ \A i \in 1 .. Len(list) : list[i].value \in Nat
  BY <1>1, ListType
<1>7. /\ left \in Seq(EventNode)
      /\ list[1].refcount = 1 =>
           /\ Len(left) = Len(list) - 1
           /\ \A i \in 1 .. Len(left) : left[i] = list[i + 1]
      /\ list[1].refcount # 1 =>
           /\ Len(left) = Len(list)
           /\ left[1].value = list[1].value
           /\ left[1].refcount = IF list[1].refcount > -2 THEN list[1].refcount - 1
                                 ELSE list[1].refcount
           /\ \A i \in 2 .. Len(list) : left[i] = list[i]
  BY <1>1, <1>6, TakenList
<1>8. \A i \in 1 .. Len(list) : NodeInPlace(f, p, i)
  BY <1>1 DEF NodesInPlace
<1>9. \A i \in 2 .. Len(list) : /\ list[i].value \in Events \ {v}
                                /\ declared[list[i].value].function = f
                                /\ declared[list[i].value].parameter = p
                                /\ list[i].refcount = Owed(list[i].value)
                                /\ ~ Exhausted(list[i].value)
                                /\ \A j \in 1 .. i - 1 : list[j].value < list[i].value
  <2> SUFFICES ASSUME NEW i \in 2 .. Len(list)
               PROVE  /\ list[i].value \in Events \ {v}
                      /\ declared[list[i].value].function = f
                      /\ declared[list[i].value].parameter = p
                      /\ list[i].refcount = Owed(list[i].value)
                      /\ ~ Exhausted(list[i].value)
                      /\ \A j \in 1 .. i - 1 : list[j].value < list[i].value
    OBVIOUS
  <2>1. i \in 1 .. Len(list) /\ 1 \in 1 .. i - 1
    BY <1>6
  <2>2. NodeInPlace(f, p, i)
    BY <1>8, <2>1
  <2>3. list[1].value < list[i].value /\ list[1].value \in Nat
    BY <1>1, <1>6, <2>1, <2>2 DEF NodeInPlace
  <2>4. list[i].value # v
    BY <1>2, <2>3
  <2> QED
    BY <1>1, <2>2, <2>4 DEF NodeInPlace
<1>10. NodesInPlace'
  <2> SUFFICES ASSUME NEW g, NEW q, NEW i \in 1 .. Len(ListOf(g, q)')
               PROVE  NodeInPlace(g, q, i)'
    BY DEF NodesInPlace
  <2>1. CASE g # f \/ q # p
    <3>1. ListOf(g, q)' = ListOf(g, q)
      BY <1>5, <2>1
    <3>2. NodeInPlace(g, q, i)
      BY <3>1 DEF NodesInPlace
    <3>3. PICK u : u = ListOf(g, q)[i].value
      OBVIOUS
    <3>4. u \in Events \ {v}
      BY <1>2, <2>1, <3>2, <3>3 DEF NodeInPlace
    <3> QED
      BY <1>2, <1>4, <3>1, <3>2, <3>3, <3>4 DEF NodeInPlace
  <2>2. CASE g = f /\ q = p /\ list[1].refcount = 1
    <3>1. i \in 1 .. Len(list) - 1 /\ i + 1 \in 2 .. Len(list)
          /\ left[i] = list[i + 1]
      BY <1>5, <1>6, <1>7, <2>2
    <3>2. \A j \in 1 .. i - 1 : left[j] = list[j + 1] /\ j + 1 \in 1 .. (i + 1) - 1
      BY <1>6, <1>7, <2>2, <3>1
    <3>3. PICK u : u = left[i].value
      OBVIOUS
    <3>4. /\ u \in Events \ {v}
          /\ declared[u].function = f /\ declared[u].parameter = p
          /\ left[i].refcount = Owed(u) /\ ~ Exhausted(u)
          /\ \A j \in 1 .. i - 1 : left[j].value < u
      BY <1>9, <3>1, <3>2, <3>3
    <3> QED
      BY <1>2, <1>4, <1>5, <2>2, <3>3, <3>4 DEF NodeInPlace
  <2>3. CASE g = f /\ q = p /\ list[1].refcount # 1 /\ i = 1
    <3>1. left[1].value = v /\ left[1].refcount = Owed(v)' /\ ~ Exhausted(v)'
      BY <1>2, <1>3, <1>7, <2>3
    <3>2. 1 .. 1 - 1 = {}
      OBVIOUS
    <3> QED
      BY <1>2, <1>5, <2>3, <3>1, <3>2 DEF NodeInPlace
  <2>4. CASE g = f /\ q = p /\ list[1].refcount # 1 /\ i # 1
    <3>1. i \in 2 .. Len(list) /\ left[i] = list[i]
      BY <1>5, <1>6, <1>7, <2>4
    <3>2. \A j \in 1 .. i - 1 : left[j].value = list[j].value
      <4> SUFFICES ASSUME NEW j \in 1 .. i - 1 PROVE left[j].value = list[j].value
        OBVIOUS
      <4>1. j = 1 \/ j \in 2 .. Len(list)
        BY <1>6, <3>1
      <4> QED
        BY <1>7, <2>4, <4>1
    <3>3. PICK u : u = left[i].value
      OBVIOUS
    <3>4. /\ u \in Events \ {v}
          /\ declared[u].function = f /\ declared[u].parameter = p
          /\ left[i].refcount = Owed(u) /\ ~ Exhausted(u)
          /\ \A j \in 1 .. i - 1 : left[j].value < u
      BY <1>9, <3>1, <3>2, <3>3
    <3> QED
      BY <1>2, <1>4, <1>5, <2>4, <3>3, <3>4 DEF NodeInPlace
  <2> QED
    BY <2>1, <2>2, <2>3, <2>4
<1>11. NoneLost'
  <2> SUFFICES ASSUME NEW u \in Events, ~ Exhausted(u)' PROVE AtOwn(u)'
    BY <1>2 DEF NoneLost
  <2>1. PICK g, q : g = declared[u].function /\ q = declared[u].parameter
    OBVIOUS
  <2> SUFFICES \E i \in 1 .. Len(ListOf(g, q)') : ListOf(g, q)'[i].value = u
    BY <1>2, <2>1 DEF AtOwn
  <2>2. AtOwn(u)
    BY <1>2, <1>4 DEF NoneLost
  <2>3. PICK i \in 1 .. Len(ListOf(g, q)) : ListOf(g, q)[i].value = u
    BY <2>1, <2>2 DEF AtOwn
  <2>4. CASE g # f \/ q # p
    BY <1>5, <2>3, <2>4
  <2>5. CASE g = f /\ q = p /\ list[1].refcount = 1
    <3>1. i # 1
      BY <1>1, <1>2, <1>3, <2>3, <2>5
    <3>2. i - 1 \in 1 .. Len(left) /\ left[i - 1] = list[i]
      BY <1>1, <1>6, <1>7, <2>3, <2>5, <3>1
    <3> QED
      BY <1>1, <1>5, <2>3, <2>5, <3>2
  <2>6. CASE g = f /\ q = p /\ list[1].refcount # 1
    <3>1. i \in 1 .. Len(left) /\ left[i].value = list[i].value
      BY <1>1, <1>6, <1>7, <2>3, <2>6
    <3> QED
      BY <1>1, <1>5, <2>3, <2>6, <3>1
  <2> QED
    BY <2>4, <2>5, <2>6
<1>12. CheckedWithinCount'
  BY <1>2, <1>3 DEF CheckedWithinCount
<1> QED
  BY <1>10, <1>11, <1>12

\* Every step keeps the types, and the agreement of lists and history.
LEMMA InvNext == TypeOK /\ QueueInv /\ [Next]_vars => TypeOK' /\ QueueInv'
<1> SUFFICES ASSUME TypeOK, QueueInv, [Next]_vars PROVE TypeOK' /\ QueueInv'
  OBVIOUS
<1> USE DEF QueueInv
<1>0. /\ WellFormed(expected)
      /\ lastLocation \in 0 .. Len(declared)
      /\ declared \in Seq(CheckParameterEvent)
      /\ checked \in Seq(Nat)
      /\ Len(checked) = Len(declared) /\ Len(declared) \in Nat
      /\ live \subseteq Nat \ {0}
      /\ phase \in {"idle", "body", "unwound"}
      /\ rc \in {0, -1}
      /\ report \in Report
  BY TypeParts, EventType
<1>1. ASSUME declared' = declared, checked' = checked PROVE CheckedWithinCount'
  BY <1>1 DEF CheckedWithinCount, Events
<1>2. ASSUME NEW kind \in {"none", "missing", "rejected", "raised", "leftover"},
             NEW note \in Nat, exit_test(kind, note)
      PROVE  phase' = "unwound" /\ rc' \in {0, -1} /\ report' \in Report
  BY <1>2 DEF exit_test, Report
<1>3. CASE initialize_testing
  <2>1. /\ expected' = EmptyMap /\ lastLocation' = 0 /\ declared' = <<>>
        /\ checked' = <<>> /\ live' = {} /\ phase' = "body" /\ rc' = 0
        /\ report' = NoReport
    BY <1>3 DEF initialize_testing
  <2>2. WellFormed(expected') /\ \A f, p : ListOf(f, p)' = <<>>
    BY <2>1, EmptyEntries DEF ListOf
  <2>3. TypeOK'
    BY <2>1, <2>2, TypeAfter DEF Report, NoReport
  <2>4. Events' = {}
    BY <2>1 DEF Events
  <2>5. NodesInPlace'
    BY <2>2 DEF NodesInPlace
  <2> QED
    BY <2>1, <2>3, <2>4, <2>5 DEF NoneLost, CheckedWithinCount, NoReport
<1>4. ASSUME NEW f \in Functions, NEW p \in Parameters, NEW a \in Checks, NEW c \in Counts,
             expect_check(f, p, a, c)
      PROVE  TypeOK' /\ QueueInv'
  <2>1. PICK k \in Nat \ {0} : k = Len(declared) + 1
    BY <1>0
  <2>2. PICK e : e = [function |-> f, parameter |-> p, accepts |-> a, count |-> c]
    OBVIOUS
  <2>3. /\ phase = "body" /\ live' = live \cup {k}
        /\ declared' = Append(declared, e) /\ checked' = Append(checked, 0)
        /\ expected' = add_symbol_value2(expected, f, p, k, c)
        /\ UNCHANGED <<lastLocation, phase, rc, report>>
    BY <1>4, <2>1, <2>2 DEF expect_check
  <2>4. WellFormed(expected')
    BY <1>0, <2>1, <2>3, AddedEntry
  <2>5. e \in CheckParameterEvent
    BY <2>2 DEF CheckParameterEvent
  <2>6. declared' \in Seq(CheckParameterEvent) /\ Len(declared') = Len(declared) + 1
    BY <1>0, <2>3, <2>5, AppendProperties
  <2>7. checked' \in Seq(Nat) /\ Len(checked') = Len(declared')
    BY <1>0, <2>3, <2>6, AppendProperties
  <2>8. lastLocation' \in 0 .. Len(declared')
    BY <1>0, <2>3, <2>6
  <2>9. live' \subseteq Nat \ {0}
    BY <1>0, <2>3
  <2>10. TypeOK'
    BY <1>0, <2>3, <2>4, <2>6, <2>7, <2>8, <2>9, TypeAfter
  <2> QED
    BY <1>4, <2>3, <2>10, ExpectQueues
<1>5. ASSUME NEW f, NEW p, phase = "body", HasEntry(f, p),
             NEW got, got = get_symbol_value2(expected, f, p), TakeEvent(got)
      PROVE  /\ WellFormed(expected') /\ lastLocation' \in 0 .. Len(declared')
             /\ declared' \in Seq(CheckParameterEvent)
             /\ checked' \in Seq(Nat) /\ Len(checked') = Len(declared')
             /\ got.value \in Nat
             /\ NodesInPlace' /\ NoneLost' /\ CheckedWithinCount'
  <2>1. /\ declared' = declared /\ got.value \in Events
        /\ checked' \in Seq(Nat) /\ Len(checked') = Len(declared)
    BY <1>5, TakeHistory
  <2>2. WellFormed(expected')
    BY <1>0, <1>5, TakenEntry DEF TakeEvent, HasEntry
  <2>3. got.value \in Nat /\ lastLocation' \in 0 .. Len(declared)
    BY <1>5, <2>1, EventType DEF TakeEvent
  <2> QED
    BY <1>0, <1>5, <2>1, <2>2, <2>3, TakeQueues
<1>6. ASSUME NEW f, NEW p, NEW x, check_expected(f, p, x)
      PROVE  TypeOK' /\ QueueInv'
  <2>1. PICK got : got = get_symbol_value2(expected, f, p)
    OBVIOUS
  <2>2. phase = "body" /\ HasEntry(f, p) /\ TakeEvent(got)
        /\ live' = FreedByCheck(live, got.value, got.rc)
    BY <1>6, <2>1 DEF check_expected
  <2>3. UNCHANGED <<phase, rc, report>> \/ exit_test("rejected", got.value)
    BY <1>6, <2>1 DEF check_expected
  <2>4. live' \subseteq Nat \ {0}
    BY <1>0, <2>2 DEF FreedByCheck
  <2>5. phase' \in {"idle", "body", "unwound"} /\ rc' \in {0, -1} /\ report' \in Report
        /\ (phase' = "body" => report' = report)
    BY <1>0, <1>2, <1>5, <2>1, <2>2, <2>3
  <2>6. TypeOK'
    BY <1>5, <2>1, <2>2, <2>4, <2>5, TypeAfter
  <2> QED
    BY <1>5, <2>1, <2>2, <2>5, <2>6
<1>7. ASSUME NEW f, NEW p, check_expected_raises(f, p)
      PROVE  TypeOK' /\ QueueInv'
  <2>1. PICK got : got = get_symbol_value2(expected, f, p)
    OBVIOUS
  <2>2. phase = "body" /\ HasEntry(f, p) /\ TakeEvent(got)
        /\ live' = live /\ exit_test("raised", got.value)
    BY <1>7, <2>1 DEF check_expected_raises
  <2>3. phase' = "unwound" /\ rc' \in {0, -1} /\ report' \in Report
    BY <1>2, <1>5, <2>1, <2>2
  <2>4. TypeOK'
    BY <1>0, <1>5, <2>1, <2>2, <2>3, TypeAfter
  <2> QED
    BY <1>5, <2>1, <2>2, <2>3, <2>4
<1>8. ASSUME NEW f, NEW p, check_expected_zero(f, p)
      PROVE  TypeOK' /\ QueueInv'
  <2>1. HasEntry(f, p) /\ expected' = get_symbol_value2(expected, f, p).map
        /\ exit_test("missing", lastLocation)
        /\ UNCHANGED <<lastLocation, declared, checked, live>>
    BY <1>8 DEF check_expected_zero
  <2>2. WellFormed(expected')
    BY <1>0, <2>1, TakenEntry DEF HasEntry
  <2>3. phase' = "unwound" /\ rc' \in {0, -1} /\ report' \in Report
    BY <1>0, <1>2, <2>1
  <2>4. TypeOK'
    BY <1>0, <2>1, <2>2, <2>3, TypeAfter
  <2> QED
    BY <1>1, <2>1, <2>3, <2>4
<1>9. ASSUME NEW kind \in {"none", "missing"}, NEW note \in Nat,
             exit_test(kind, note),
             UNCHANGED <<expected, lastLocation, declared, checked, live>>
      PROVE  TypeOK' /\ QueueInv'
  <2>1. phase' = "unwound" /\ rc' \in {0, -1} /\ report' \in Report
    BY <1>2, <1>9
  <2>2. TypeOK'
    BY <1>0, <1>9, <2>1, TypeAfter
  <2> QED
    BY <1>1, <1>9, <2>1, <2>2
<1>10. ASSUME NEW f, NEW p, check_expected_missing(f, p)
       PROVE  TypeOK' /\ QueueInv'
  <2>1. lastLocation \in Nat
    BY <1>0
  <2> QED
    BY <1>9, <1>10, <2>1 DEF check_expected_missing
<1>11. CASE fail
  BY <1>9, <1>11 DEF fail
<1>12. CASE fail_if_leftover_values
  <2>1. PICK m : m = remove_always_return_values2(expected)
    OBVIOUS
  <2>2. /\ expected' = m /\ live' \subseteq live
        /\ UNCHANGED <<lastLocation, declared, checked>>
        /\ \/ exit_test("leftover", 0)
           \/ phase' = "unwound" /\ rc' = 0 /\ report' = report
    BY <1>12, <2>1 DEF fail_if_leftover_values
  <2>3. WellFormed(expected')
    BY <1>0, <2>1, <2>2, CleanedEntry
  <2>4. phase' = "unwound" /\ rc' \in {0, -1} /\ report' \in Report
    BY <1>0, <1>2, <2>2
  <2>5. TypeOK'
    BY <1>0, <2>2, <2>3, <2>4, TypeAfter
  <2> QED
    BY <1>1, <2>2, <2>4, <2>5
<1>13. CASE teardown_testing
  <2>1. /\ phase' = "idle" /\ live' \subseteq live /\ expected' = EmptyMap
        /\ lastLocation' = 0 /\ UNCHANGED <<declared, checked, rc, report>>
    BY <1>13 DEF teardown_testing
  <2>2. WellFormed(expected') /\ lastLocation' \in 0 .. Len(declared)
    BY <1>0, <2>1, EmptyEntries
  <2>3. TypeOK'
    BY <1>0, <2>1, <2>2, TypeAfter
  <2> QED
    BY <1>1, <2>1, <2>3
<1>14. CASE UNCHANGED vars
  <2>1. UNCHANGED <<expected, lastLocation, declared, checked, live, phase, rc, report>>
    BY <1>14 DEF vars
  <2>2. TypeOK'
    BY <1>0, <2>1, TypeAfter
  <2> QED
    BY <2>1, <2>2 DEF NodesInPlace, NodeInPlace, ListOf, NoneLost, AtOwn,
        CheckedWithinCount, Events, Exhausted, Owed
<1> QED
  BY <1>3, <1>4, <1>6, <1>7, <1>8, <1>10, <1>11, <1>12, <1>13, <1>14 DEF Next

\* The invariant holds before the first test.
LEMMA InvInit == Init => TypeOK /\ QueueInv
<1> SUFFICES ASSUME Init PROVE TypeOK /\ QueueInv
  OBVIOUS
<1>1. WellFormed(expected)
  BY EmptyEntries DEF Init
<1>2. TypeOK
  BY <1>1, TypeParts DEF Init, Report, NoReport
<1>3. QueueInv
  BY DEF Init, QueueInv, CheckedWithinCount, Events
<1> QED
  BY <1>2, <1>3

\* The invariant of every behaviour.
LEMMA Invariant == Spec => [](TypeOK /\ QueueInv)
  BY InvInit, InvNext, PTL DEF Spec

\* The two levels of the map shrink together, refcounts never underflow, and
\* notes point to events of the current test, for any counts and any calls.
THEOREM TypeCorrect == Spec => []TypeOK
  BY Invariant, PTL

-----------------------------------------------------------------------------
(* The owners of the events.                                               *)

\* An event may be missing in every list only because a check function left
\* the test while it held the event.
OwnedInv ==
    /\ EventsOwned
    /\ (phase = "unwound" /\ report.kind # "raised") => live = Queued(expected)

\* Adding an event queues it.
LEMMA QueuedAfterAdd ==
    ASSUME NEW m, WellFormed(m), NEW f \in Functions, NEW p \in Parameters,
           NEW v \in Nat \ {0}, NEW c \in Counts,
           NEW n, n = add_symbol_value2(m, f, p, v, c)
    PROVE  Queued(n) = Queued(m) \cup {v}
<1>1. /\ WellFormed(n)
      /\ \A g, q : (g # f \/ q # p) => Entry(n, g, q) = Entry(m, g, q)
      /\ Len(Entry(n, f, p)) = Len(Entry(m, f, p)) + 1
      /\ Entry(n, f, p)[Len(Entry(m, f, p)) + 1] = [value |-> v, refcount |-> c]
      /\ \A i \in 1 .. Len(Entry(m, f, p)) : Entry(n, f, p)[i] = Entry(m, f, p)[i]
  BY AddedEntry
<1>2. Len(Entry(m, f, p)) \in Nat
  BY EntryType
<1>3. ASSUME NEW u \in Queued(n) PROVE u \in Queued(m) \cup {v}
  <2>1. PICK g, q : \E i \in 1 .. Len(Entry(n, g, q)) : Entry(n, g, q)[i].value = u
    BY <1>1, QueuedIn
  <2>2. PICK i \in 1 .. Len(Entry(n, g, q)) : Entry(n, g, q)[i].value = u
    BY <2>1
  <2>3. u = v \/ \E j \in 1 .. Len(Entry(m, g, q)) : Entry(m, g, q)[j].value = u
    BY <1>1, <1>2, <2>2
  <2> QED
    BY <2>3, QueuedIn
<1>4. v \in Queued(n)
  <2>1. Len(Entry(m, f, p)) + 1 \in 1 .. Len(Entry(n, f, p))
    BY <1>1, <1>2
  <2> QED
    BY <1>1, <2>1, QueuedIn
<1>5. ASSUME NEW u \in Queued(m) PROVE u \in Queued(n)
  <2>1. PICK g, q : \E i \in 1 .. Len(Entry(m, g, q)) : Entry(m, g, q)[i].value = u
    BY QueuedIn
  <2>2. PICK i \in 1 .. Len(Entry(m, g, q)) : Entry(m, g, q)[i].value = u
    BY <2>1
  <2>3. i \in 1 .. Len(Entry(n, g, q)) /\ Entry(n, g, q)[i].value = u
    BY <1>1, <1>2, <2>2
  <2> QED
    BY <1>1, <2>3, QueuedIn
<1> QED
  BY <1>3, <1>4, <1>5

\* Taking an event for the last time, and only that, takes it out of the map.
LEMMA QueuedAfterTake ==
    ASSUME TypeOK, NodesInPlace, NEW f, NEW p, HasEntry(f, p),
           NEW got, got = get_symbol_value2(expected, f, p)
    PROVE  Queued(got.map) = IF got.rc = 1 THEN Queued(expected) \ {got.value}
                             ELSE Queued(expected)
<1>1. PICK n, v, list, left :
         /\ n = got.map /\ v = got.value
         /\ list = ListOf(f, p) /\ left = TakeFirst(list)
  OBVIOUS
<1>2. WellFormed(expected) /\ f \in DOMAIN expected /\ p \in DOMAIN expected[f]
  BY TypeParts DEF HasEntry
<1>3. /\ list \in Seq(EventNode) /\ list # <<>> /\ v = list[1].value
      /\ got.rc = list[1].refcount /\ WellFormed(n) /\ Entry(n, f, p) = left
      /\ \A g, q : (g # f \/ q # p) => Entry(n, g, q) = ListOf(g, q)
  BY <1>1, <1>2, TakenEntry DEF ListOf
<1>4. /\ list[1].refcount = 1 =>
           /\ Len(left) = Len(list) - 1
           /\ \A i \in 1 .. Len(left) : left[i] = list[i + 1]
      /\ list[1].refcount # 1 =>
           /\ Len(left) = Len(list)
           /\ \A i \in 1 .. Len(list) : left[i].value = list[i].value
  <2>1. \A i \in 1 .. Len(list) : i = 1 \/ i \in 2 .. Len(list)
    BY <1>3
  <2> QED
    BY <1>1, <1>3, <2>1, TakenList
<1>5. Len(list) \in Nat /\ 1 \in 1 .. Len(list)
  BY <1>1, ListType
<1>6. \A u : u \in Queued(expected) <=>
          \E g, q : \E i \in 1 .. Len(ListOf(g, q)) : ListOf(g, q)[i].value = u
  BY <1>2, QueuedIn DEF ListOf
<1>7. \A u : u \in Queued(n) <=>
          \E g, q : \E i \in 1 .. Len(Entry(n, g, q)) : Entry(n, g, q)[i].value = u
  BY <1>3, QueuedIn
<1>8. CASE got.rc # 1
  <2>1. \A g, q : Len(Entry(n, g, q)) = Len(ListOf(g, q))
    BY <1>1, <1>3, <1>4, <1>8
  <2>2. \A g, q : \A i \in 1 .. Len(ListOf(g, q)) :
           Entry(n, g, q)[i].value = ListOf(g, q)[i].value
    BY <1>1, <1>3, <1>4, <1>8
  <2>3. \A u : u \in Queued(n) <=> u \in Queued(expected)
    BY <1>6, <1>7, <2>1, <2>2
  <2> QED
    BY <1>1, <1>8, <2>3
<1>9. CASE got.rc = 1
  <2>1. ASSUME NEW u \in Queued(n) PROVE u \in Queued(expected) /\ u # v
    <3>1. PICK g, q : \E i \in 1 .. Len(Entry(n, g, q)) : Entry(n, g, q)[i].value = u
      BY <1>7, <2>1
    <3>2. PICK i \in 1 .. Len(Entry(n, g, q)) : Entry(n, g, q)[i].value = u
      BY <3>1
    <3>3. CASE g = f /\ q = p
      <4>1. i + 1 \in 1 .. Len(ListOf(f, p)) /\ ListOf(f, p)[i + 1].value = u /\ i + 1 # 1
        BY <1>1, <1>3, <1>4, <1>5, <1>9, <3>2, <3>3
      <4>2. u # v
        BY <1>1, <1>3, <1>5, <4>1, QueuedOnce
      <4> QED
        BY <1>6, <4>1, <4>2
    <3>4. CASE g # f \/ q # p
      <4>1. i \in 1 .. Len(ListOf(g, q)) /\ ListOf(g, q)[i].value = u
        BY <1>3, <3>2, <3>4
      <4>2. u # v
        BY <1>1, <1>3, <1>5, <3>4, <4>1, QueuedOnce
      <4> QED
        BY <1>6, <4>1, <4>2
    <3> QED
      BY <3>3, <3>4
  <2>2. ASSUME NEW u \in Queued(expected), u # v PROVE u \in Queued(n)
    <3>1. PICK g, q : \E i \in 1 .. Len(ListOf(g, q)) : ListOf(g, q)[i].value = u
      BY <1>6, <2>2
    <3>2. PICK i \in 1 .. Len(ListOf(g, q)) : ListOf(g, q)[i].value = u
      BY <3>1
    <3>3. CASE g = f /\ q = p
      <4>1. i # 1
        BY <1>1, <1>3, <2>2, <3>2, <3>3
      <4>2. i - 1 \in 1 .. Len(left) /\ (i - 1) + 1 = i
        BY <1>1, <1>3, <1>4, <1>5, <1>9, <3>2, <3>3, <4>1
      <4>3. left[i - 1].value = u
        BY <1>1, <1>3, <1>4, <1>9, <3>2, <3>3, <4>2
      <4> QED
        BY <1>3, <1>7, <4>2, <4>3
    <3>4. CASE g # f \/ q # p
      BY <1>3, <1>7, <3>2, <3>4
    <3> QED
      BY <3>3, <3>4
  <2>3. Queued(n) = Queued(expected) \ {v}
    BY <2>1, <2>2
  <2> QED
    BY <1>1, <1>9, <2>3
<1> QED
  BY <1>8, <1>9

\* remove_always_return_values queues nothing new.
LEMMA QueuedAfterClean ==
    ASSUME NEW m, WellFormed(m), NEW n, n = remove_always_return_values2(m)
    PROVE  Queued(n) \subseteq Queued(m)
<1> SUFFICES ASSUME NEW u \in Queued(n) PROVE u \in Queued(m)
  OBVIOUS
<1>1. WellFormed(n) /\ \A f, p : Entry(n, f, p) = DropServedFirst(Entry(m, f, p))
  BY CleanedEntry
<1>2. PICK f, p : \E i \in 1 .. Len(Entry(n, f, p)) : Entry(n, f, p)[i].value = u
  BY <1>1, QueuedIn
<1>3. PICK i \in 1 .. Len(Entry(n, f, p)) : Entry(n, f, p)[i].value = u
  BY <1>2
<1>4. PICK list, left : list = Entry(m, f, p) /\ left = Entry(n, f, p)
  OBVIOUS
<1>5. list \in Seq(EventNode) /\ left = DropServedFirst(list) /\ Len(list) \in Nat
  BY <1>1, <1>4, EntryType
<1>6. left = list \/ (Len(left) = Len(list) - 1
                      /\ \A j \in 1 .. Len(left) : left[j] = list[j + 1])
  BY <1>5, CleanedList
<1>7. i \in 1 .. Len(left) /\ left[i].value = u
  BY <1>3, <1>4
<1>8. CASE left = list
  BY <1>4, <1>7, <1>8, QueuedIn
<1>9. CASE Len(left) = Len(list) - 1 /\ \A j \in 1 .. Len(left) : left[j] = list[j + 1]
  <2>1. i + 1 \in 1 .. Len(list)
    BY <1>5, <1>7, <1>9
  <2>2. list[i + 1].value = u
    BY <1>7, <1>9
  <2> QED
    BY <1>4, <2>1, <2>2, QueuedIn
<1> QED
  BY <1>6, <1>8, <1>9

\* Nothing is queued in the empty map.
LEMMA QueuedInEmpty == Queued(EmptyMap) = {}
  BY DEF Queued, EmptyMap

\* Every step keeps the owners of the events.
LEMMA OwnedNext == TypeOK /\ QueueInv /\ OwnedInv /\ [Next]_vars => OwnedInv'
<1> SUFFICES ASSUME TypeOK, QueueInv, OwnedInv, [Next]_vars PROVE OwnedInv'
  OBVIOUS
<1> USE DEF OwnedInv, EventsOwned, LiveIsQueued, NoDoubleFree, NoLeak
<1>0. WellFormed(expected) /\ phase \in {"idle", "body", "unwound"}
  BY TypeParts
<1>1. CASE initialize_testing
  BY <1>1, QueuedInEmpty DEF initialize_testing
<1>2. ASSUME NEW f \in Functions, NEW p \in Parameters, NEW a, NEW c \in Counts,
             expect_check(f, p, a, c)
      PROVE  OwnedInv'
  <2>1. PICK k \in Nat \ {0} : k = Len(declared) + 1
    BY EventType
  <2>2. /\ phase = "body" /\ phase' = "body" /\ live' = live \cup {k}
        /\ expected' = add_symbol_value2(expected, f, p, k, c)
    BY <1>2, <2>1 DEF expect_check
  <2>3. Queued(expected') = Queued(expected) \cup {k}
    BY <1>0, <2>2, QueuedAfterAdd
  <2> QED
    BY <2>2, <2>3
<1>3. ASSUME NEW f, NEW p, NEW x, check_expected(f, p, x) PROVE OwnedInv'
  <2>1. PICK got : got = get_symbol_value2(expected, f, p)
    OBVIOUS
  <2>2. /\ phase = "body" /\ HasEntry(f, p) /\ expected' = got.map
        /\ live' = FreedByCheck(live, got.value, got.rc)
        /\ phase' \in {"body", "unwound"}
    BY <1>3, <2>1 DEF check_expected, TakeEvent, exit_test
  <2>3. Queued(expected') = IF got.rc = 1 THEN Queued(expected) \ {got.value}
                            ELSE Queued(expected)
    BY <2>1, <2>2, QueuedAfterTake DEF QueueInv
  <2>4. live' = Queued(expected')
    BY <2>2, <2>3 DEF FreedByCheck
  <2> QED
    BY <2>2, <2>4
<1>4. ASSUME NEW f, NEW p, check_expected_raises(f, p) PROVE OwnedInv'
  <2>1. PICK got : got = get_symbol_value2(expected, f, p)
    OBVIOUS
  <2>2. /\ phase = "body" /\ HasEntry(f, p) /\ expected' = got.map
        /\ live' = live /\ phase' = "unwound" /\ report'.kind = "raised"
    BY <1>4, <2>1 DEF check_expected_raises, TakeEvent, exit_test
  <2>3. Queued(expected') \subseteq Queued(expected)
    BY <2>1, <2>2, QueuedAfterTake DEF QueueInv
  <2> QED
    BY <2>2, <2>3
<1>5. ASSUME NEW f, NEW p, check_expected_zero(f, p) PROVE OwnedInv'
  <2>1. PICK got : got = get_symbol_value2(expected, f, p)
    OBVIOUS
  <2>2. /\ phase = "body" /\ HasEntry(f, p) /\ expected' = got.map /\ got.rc = 0
        /\ live' = live /\ phase' = "unwound"
    BY <1>5, <2>1 DEF check_expected_zero, exit_test
  <2>3. Queued(expected') = Queued(expected)
    <3>1. got.rc # 1 /\ NodesInPlace
      BY <2>2 DEF QueueInv
    <3> QED
      BY <2>1, <2>2, <3>1, QueuedAfterTake
  <2> QED
    BY <2>2, <2>3
<1>6. ASSUME NEW f, NEW p, check_expected_missing(f, p) PROVE OwnedInv'
  BY <1>6 DEF check_expected_missing, exit_test
<1>7. CASE fail
  BY <1>7 DEF fail, exit_test
<1>8. CASE fail_if_leftover_values
  <2>1. PICK m : m = remove_always_return_values2(expected)
    OBVIOUS
  <2>2. /\ phase = "body" /\ phase' = "unwound" /\ expected' = m
        /\ live' = live \ (Queued(expected) \ Queued(m))
    BY <1>8, <2>1 DEF fail_if_leftover_values, exit_test
  <2>3. Queued(m) \subseteq Queued(expected)
    BY <1>0, <2>1, QueuedAfterClean
  <2>4. live' = Queued(expected')
    BY <2>2, <2>3
  <2> QED
    BY <2>2, <2>4
<1>9. CASE teardown_testing
  <2>1. /\ phase = "unwound" /\ phase' = "idle" /\ report' = report
        /\ live' = live \ Queued(expected)
    BY <1>9 DEF teardown_testing
  <2> QED
    BY <2>1
<1>10. CASE UNCHANGED vars
  BY <1>10 DEF vars
<1> QED
  BY <1>1, <1>2, <1>3, <1>4, <1>5, <1>6, <1>7, <1>8, <1>9, <1>10 DEF Next

\* Each event has one owner from expect_check() to the end of its test, and is
\* freed once: only a check function that leaves the test can leak one.
THEOREM EventsAreOwned == Spec => []EventsOwned
<1>1. Init => OwnedInv
  BY DEF Init, OwnedInv, EventsOwned, LiveIsQueued, NoDoubleFree, NoLeak
<1>2. (TypeOK /\ QueueInv) /\ OwnedInv /\ [Next]_vars => OwnedInv'
  BY OwnedNext
<1>3. OwnedInv => EventsOwned
  BY DEF OwnedInv
<1> QED
  BY <1>1, <1>2, <1>3, Invariant, PTL DEF Spec

-----------------------------------------------------------------------------
(* The two-level map implements the plan.                                  *)

\* A declaration, as the plan sees it.
PlanDeclaration == [key : Functions \X Parameters, count : Counts]

\* The declarations of the plan, and its predicates on them, in the terms of
\* ParameterChecks.
LEMMA PlanFacts ==
    ASSUME TypeOK
    PROVE  /\ PlanDeclared \in Seq(PlanDeclaration)
           /\ DOMAIN PlanDeclared = Events /\ Len(PlanDeclared) = Len(declared)
           /\ \A v \in Events :
                /\ PlanDeclared[v].key = <<declared[v].function, declared[v].parameter>>
                /\ PlanDeclared[v].count = declared[v].count
                /\ Plan!Open(v) <=> ~ Exhausted(v)
                /\ Plan!Optional(v) <=> (declared[v].count <= -2
                                         \/ (declared[v].count = -1 /\ checked[v] > 0))
           /\ \A v, w \in Events :
                Plan!SameKey(v, w) <=> (/\ declared[v].function = declared[w].function
                                        /\ declared[v].parameter = declared[w].parameter)
<1>1. Len(declared) \in Nat /\ Events = 1 .. Len(declared)
  BY EventType
<1>2. DOMAIN PlanDeclared = 1 .. Len(declared)
  BY <1>1 DEF PlanDeclared, Events
<1>3. PlanDeclared \in Seq(PlanDeclaration)
  <2>1. \A v \in 1 .. Len(declared) : PlanDeclared[v] \in PlanDeclaration
    BY <1>1, EventType DEF PlanDeclared, CheckParameterEvent, PlanDeclaration, Events
  <2>2. PlanDeclared \in [1 .. Len(declared) -> PlanDeclaration]
    BY <1>1, <2>1 DEF PlanDeclared, Events
  <2> QED
    BY <1>1, <2>2
<1>4. Len(PlanDeclared) = Len(declared)
  BY <1>1, <1>2, <1>3
<1>5. \A v \in Events :
         /\ PlanDeclared[v].key = <<declared[v].function, declared[v].parameter>>
         /\ PlanDeclared[v].count = declared[v].count
  BY DEF PlanDeclared, Events
<1>6. \A v \in Events :
         /\ Plan!Open(v) <=> ~ Exhausted(v)
         /\ Plan!Optional(v) <=> (declared[v].count <= -2
                                  \/ (declared[v].count = -1 /\ checked[v] > 0))
  BY <1>5 DEF Plan!Open, Plan!Optional, Exhausted
<1>7. \A v, w \in Events :
         Plan!SameKey(v, w) <=> (/\ declared[v].function = declared[w].function
                                 /\ declared[v].parameter = declared[w].parameter)
  BY <1>5 DEF Plan!SameKey
<1> QED
  BY <1>1, <1>2, <1>3, <1>4, <1>5, <1>6, <1>7

\* What a node says of its event.
LEMMA NodeFacts ==
    ASSUME TypeOK, NodesInPlace, CheckedWithinCount,
           NEW f, NEW p, NEW i \in 1 .. Len(ListOf(f, p)),
           NEW v, v = ListOf(f, p)[i].value
    PROVE  /\ v \in Events /\ v \in Nat
           /\ declared[v].function = f /\ declared[v].parameter = p
           /\ Plan!Open(v)
           /\ ListOf(f, p)[i].refcount < -1 <=> Plan!Optional(v)
           /\ ListOf(f, p)[i].refcount = 0 <=> declared[v].count = 0
           /\ \A j \in 1 .. i - 1 : ListOf(f, p)[j].value < v
<1>1. NodeInPlace(f, p, i)
  BY DEF NodesInPlace
<1>2. /\ v \in Events /\ declared[v].function = f /\ declared[v].parameter = p
      /\ ListOf(f, p)[i].refcount = Owed(v) /\ ~ Exhausted(v)
      /\ \A j \in 1 .. i - 1 : ListOf(f, p)[j].value < v
  BY <1>1 DEF NodeInPlace
<1>3. PICK c \in Int, n \in Nat : c = declared[v].count /\ n = checked[v]
  BY <1>2, EventType
<1>4. Owed(v) = IF c > 0 THEN c - n ELSE IF c = -1 /\ n > 0 THEN -2 ELSE c
  BY <1>3 DEF Owed
<1>5. Plan!Open(v) /\ (Plan!Optional(v) <=> (c <= -2 \/ (c = -1 /\ n > 0)))
  BY <1>2, <1>3, PlanFacts
<1>6. c > 0 => n < c
  <2>1. c > 0 => n <= c
    BY <1>2, <1>3 DEF CheckedWithinCount
  <2>2. ~ (c > 0 /\ n = c)
    BY <1>2, <1>3 DEF Exhausted
  <2> QED
    BY <1>3, <2>1, <2>2
<1>7. (Owed(v) < -1 <=> (c <= -2 \/ (c = -1 /\ n > 0))) /\ (Owed(v) = 0 <=> c = 0)
  <2>1. CASE c > 0
    <3>1. PICK d \in Int : d = c - n
      BY <1>3
    <3>2. Owed(v) = d /\ d > 0
      BY <1>3, <1>4, <1>6, <2>1, <3>1
    <3>3. ~ (d < -1) /\ d # 0 /\ ~ (c <= -2) /\ c # -1 /\ c # 0
      BY <1>3, <2>1, <3>1, <3>2
    <3> QED
      BY <3>2, <3>3
  <2>2. CASE ~ (c > 0)
    BY <1>3, <1>4, <2>2
  <2> QED
    BY <2>1, <2>2
<1>8. v \in Nat
  BY <1>2, EventType
<1> QED
  BY <1>2, <1>3, <1>5, <1>7, <1>8

\* While the body of a test runs, the next event of a parameter is the one at
\* the head of its list, unless that one was declared for zero uses; there is
\* none when the parameter has no list.
LEMMA PlanNext ==
    ASSUME TypeOK, QueueInv, phase = "body", NEW f, NEW p
    PROVE  /\ (HasEntry(f, p) /\ ListOf(f, p)[1].refcount # 0) =>
                 Plan!IsNext(ListOf(f, p)[1].value, <<f, p>>)
           /\ (~ HasEntry(f, p) \/ ListOf(f, p)[1].refcount = 0) =>
                 \A v \in Events : ~ Plan!IsNext(v, <<f, p>>)
<1>1. NodesInPlace /\ NoneLost /\ CheckedWithinCount
  BY DEF QueueInv
<1>2. ASSUME NEW v \in Events, Plan!Open(v), PlanDeclared[v].key = <<f, p>>
      PROVE  /\ HasEntry(f, p)
             /\ ListOf(f, p)[1].value = v \/ ListOf(f, p)[1].value < v
  <2>1. declared[v].function = f /\ declared[v].parameter = p /\ ~ Exhausted(v)
    BY <1>2, PlanFacts
  <2>2. PICK i \in 1 .. Len(ListOf(f, p)) : ListOf(f, p)[i].value = v
    BY <1>1, <2>1 DEF NoneLost, AtOwn
  <2>3. HasEntry(f, p)
    <3>1. ListOf(f, p) # <<>>
      BY <2>2
    <3> QED
      BY <3>1, ListType
  <2>4. i = 1 \/ 1 \in 1 .. i - 1
    BY <2>2, ListType
  <2> QED
    BY <1>1, <2>2, <2>3, <2>4, NodeFacts
<1>3. ASSUME HasEntry(f, p)
      PROVE  \E h : /\ h = ListOf(f, p)[1].value /\ h \in Events /\ h \in Nat
                    /\ Plan!Open(h) /\ PlanDeclared[h].key = <<f, p>>
                    /\ declared[h].function = f /\ declared[h].parameter = p
                    /\ ListOf(f, p)[1].refcount = 0 <=> PlanDeclared[h].count = 0
  <2>1. 1 \in 1 .. Len(ListOf(f, p))
    BY <1>3, ListType
  <2>2. PICK h : h = ListOf(f, p)[1].value
    OBVIOUS
  <2>3. /\ h \in Events /\ h \in Nat /\ Plan!Open(h)
        /\ declared[h].function = f /\ declared[h].parameter = p
        /\ ListOf(f, p)[1].refcount = 0 <=> declared[h].count = 0
    BY <1>1, <2>1, <2>2, NodeFacts
  <2> QED
    BY <2>2, <2>3, PlanFacts
<1>4. ASSUME HasEntry(f, p), ListOf(f, p)[1].refcount # 0
      PROVE  Plan!IsNext(ListOf(f, p)[1].value, <<f, p>>)
  <2>1. PICK h : /\ h = ListOf(f, p)[1].value /\ h \in Events /\ h \in Nat
                 /\ Plan!Open(h) /\ PlanDeclared[h].key = <<f, p>>
                 /\ PlanDeclared[h].count # 0
    BY <1>3, <1>4
  <2>2. \A w \in 1 .. h - 1 : w \in Events /\ w \in Nat /\ w < h
    BY <2>1, EventType
  <2>3. \A w \in 1 .. h - 1 : Plan!SameKey(h, w) => ~ Plan!Open(w)
    <3> SUFFICES ASSUME NEW w \in 1 .. h - 1, Plan!SameKey(h, w), Plan!Open(w)
                 PROVE  FALSE
      OBVIOUS
    <3>1. PlanDeclared[w].key = <<f, p>>
      BY <2>1 DEF Plan!SameKey
    <3>2. h = w \/ h < w
      BY <1>2, <2>1, <2>2, <3>1
    <3> QED
      BY <2>1, <2>2, <3>2
  <2>4. Plan!IsNext(h, <<f, p>>)
    BY <2>1, <2>3 DEF Plan!IsNext
  <2> QED
    BY <2>1, <2>4
<1>5. ASSUME ~ HasEntry(f, p) \/ ListOf(f, p)[1].refcount = 0, NEW v \in Events,
             Plan!IsNext(v, <<f, p>>)
      PROVE  FALSE
  <2>1. /\ PlanDeclared[v].key = <<f, p>> /\ Plan!Open(v) /\ PlanDeclared[v].count # 0
        /\ \A w \in 1 .. v - 1 : Plan!SameKey(v, w) => ~ Plan!Open(w)
    BY <1>5 DEF Plan!IsNext
  <2>2. HasEntry(f, p) /\ (ListOf(f, p)[1].value = v \/ ListOf(f, p)[1].value < v)
    BY <1>2, <2>1
  <2>3. PICK h : /\ h = ListOf(f, p)[1].value /\ h \in Events /\ h \in Nat
                 /\ Plan!Open(h) /\ PlanDeclared[h].key = <<f, p>>
                 /\ PlanDeclared[h].count = 0
    BY <1>3, <1>5, <2>2
  <2>4. h < v /\ v \in Nat /\ h # 0
    BY <2>1, <2>2, <2>3, EventType
  <2>5. h \in 1 .. v - 1
    BY <2>3, <2>4
  <2> QED
    BY <2>1, <2>3, <2>5 DEF Plan!SameKey
<1> QED
  BY <1>4, <1>5

\* The leftover check finds nothing if and only if every parameter has at most
\* one event that is not exhausted, and that one may be left.
LEMMA PlanReturn ==
    ASSUME TypeOK, QueueInv, phase = "body",
           NEW m, m = remove_always_return_values2(expected)
    PROVE  ~ check_for_leftover_values2(m) <=>
              \A v \in DOMAIN PlanDeclared :
                 Plan!Open(v) => /\ Plan!Optional(v)
                                 /\ \A w \in 1 .. v - 1 :
                                       Plan!SameKey(v, w) => ~ Plan!Open(w)
<1>1. NodesInPlace /\ NoneLost /\ CheckedWithinCount
  BY DEF QueueInv
<1>2. /\ check_for_leftover_values2(m) <=> \E f, p : Entry(m, f, p) # <<>>
      /\ \A f, p : Entry(m, f, p) = DropServedFirst(ListOf(f, p))
  <2>1. WellFormed(expected)
    BY TypeParts
  <2>2. WellFormed(m) /\ \A f, p : Entry(m, f, p) = DropServedFirst(ListOf(f, p))
    BY <2>1, CleanedEntry DEF ListOf
  <2> QED
    BY <2>2, LeftoverEntry
<1>3. ASSUME NEW f, NEW p
      PROVE  Entry(m, f, p) = <<>> <=>
                (ListOf(f, p) = <<>> \/ (Len(ListOf(f, p)) = 1 /\ ListOf(f, p)[1].refcount < -1))
  <2>1. PICK list, left : list = ListOf(f, p) /\ left = Entry(m, f, p)
    OBVIOUS
  <2>2. list \in Seq(EventNode) /\ left = DropServedFirst(list) /\ Len(list) \in Nat
    BY <1>2, <2>1, ListType
  <2>3. /\ left \in Seq(EventNode)
        /\ (list # <<>> /\ list[1].refcount < -1) => Len(left) = Len(list) - 1
        /\ ~ (list # <<>> /\ list[1].refcount < -1) => left = list
    BY <2>2, CleanedList
  <2>4. (left = <<>> <=> Len(left) = 0) /\ (list = <<>> <=> Len(list) = 0)
    BY <2>2, <2>3, EmptySeq
  <2>5. CASE list # <<>> /\ list[1].refcount < -1
    <3>1. Len(left) = Len(list) - 1
      BY <2>3, <2>5
    <3>2. left = <<>> <=> Len(list) = 1
      BY <2>2, <2>4, <3>1
    <3> QED
      BY <2>1, <2>5, <3>2
  <2>6. CASE ~ (list # <<>> /\ list[1].refcount < -1)
    <3>1. left = list
      BY <2>3, <2>6
    <3>2. Len(list) = 1 => list # <<>>
      BY <2>4
    <3> QED
      BY <2>1, <2>6, <3>1, <3>2
  <2> QED
    BY <2>5, <2>6
<1>4. ASSUME ~ check_for_leftover_values2(m), NEW v \in Events, Plan!Open(v)
      PROVE  Plan!Optional(v) /\ \A w \in 1 .. v - 1 : Plan!SameKey(v, w) => ~ Plan!Open(w)
  <2>1. PICK f, p : f = declared[v].function /\ p = declared[v].parameter
    OBVIOUS
  <2>2. PICK i \in 1 .. Len(ListOf(f, p)) : ListOf(f, p)[i].value = v
    BY <1>1, <1>4, <2>1, PlanFacts DEF NoneLost, AtOwn
  <2>3. Len(ListOf(f, p)) = 1 /\ ListOf(f, p)[1].refcount < -1
    BY <1>2, <1>3, <1>4, <2>2
  <2>4. i = 1 /\ ListOf(f, p) # <<>>
    BY <2>2, <2>3
  <2>5. Plan!Optional(v)
    BY <1>1, <2>2, <2>3, <2>4, NodeFacts
  <2>6. Plan!IsNext(v, <<f, p>>)
    <3>1. HasEntry(f, p) /\ ListOf(f, p)[1].refcount # 0
      BY <2>2, <2>3, <2>4, ListType
    <3> QED
      BY <2>2, <2>4, <3>1, PlanNext
  <2> QED
    BY <2>5, <2>6 DEF Plan!IsNext
<1>5. ASSUME check_for_leftover_values2(m),
             \A v \in Events : Plan!Open(v) =>
                 Plan!Optional(v) /\ \A w \in 1 .. v - 1 : Plan!SameKey(v, w) => ~ Plan!Open(w)
      PROVE  FALSE
  <2>1. PICK f, p : Entry(m, f, p) # <<>>
    BY <1>2, <1>5
  <2>2. ListOf(f, p) # <<>> /\ 1 \in 1 .. Len(ListOf(f, p)) /\ Len(ListOf(f, p)) \in Nat
    BY <1>3, <2>1, ListType
  <2>3. PICK v : v = ListOf(f, p)[1].value
    OBVIOUS
  <2>4. /\ v \in Events /\ v \in Nat /\ Plan!Open(v)
        /\ declared[v].function = f /\ declared[v].parameter = p
        /\ ListOf(f, p)[1].refcount < -1 <=> Plan!Optional(v)
    BY <1>1, <2>2, <2>3, NodeFacts
  <2>5. ListOf(f, p)[1].refcount < -1
    BY <1>5, <2>4
  <2>6. 2 \in 1 .. Len(ListOf(f, p)) /\ 1 \in 1 .. 2 - 1
    <3>1. Len(ListOf(f, p)) # 1
      BY <1>3, <2>1, <2>5
    <3>2. PICK n \in Nat : n = Len(ListOf(f, p))
      BY <2>2
    <3>3. n # 1 /\ n >= 1
      BY <2>2, <3>1, <3>2
    <3>4. 2 \in 1 .. n
      BY <3>2, <3>3
    <3> QED
      BY <3>2, <3>4
  <2>7. PICK w : w = ListOf(f, p)[2].value
    OBVIOUS
  <2>8. /\ w \in Events /\ w \in Nat /\ Plan!Open(w) /\ v < w
        /\ declared[w].function = f /\ declared[w].parameter = p
    BY <1>1, <2>3, <2>6, <2>7, NodeFacts
  <2>9. v \in 1 .. w - 1
    BY <2>4, <2>8, EventType
  <2>10. Plan!SameKey(w, v)
    BY <2>4, <2>8, PlanFacts
  <2> QED
    BY <1>5, <2>4, <2>8, <2>9, <2>10
<1> QED
  BY <1>4, <1>5, PlanFacts

\* expect_check() appends a declaration to the plan.
LEMMA PlanDeclares ==
    ASSUME TypeOK, NEW f \in Functions, NEW p \in Parameters, NEW a, NEW c \in Counts,
           expect_check(f, p, a, c)
    PROVE  PlanDeclared' = Append(PlanDeclared, [key |-> <<f, p>>, count |-> c])
<1>1. PICK k : k = Len(declared) + 1
  OBVIOUS
<1>2. /\ Events' = Events \cup {k} /\ k \notin Events
      /\ \A v \in Events : declared'[v] = declared[v]
      /\ declared'[k].function = f /\ declared'[k].parameter = p
      /\ declared'[k].count = c
  BY <1>1, ExpectHistory
<1>3. Len(declared) \in Nat /\ Events = 1 .. Len(declared)
  BY EventType
<1>4. PICK d, e, r : d = PlanDeclared /\ e = PlanDeclared'
                     /\ r = [key |-> <<f, p>>, count |-> c]
  OBVIOUS
<1>5. DOMAIN d = 1 .. Len(declared) /\ Len(d) = Len(declared)
  BY <1>3, <1>4, PlanFacts
<1>6. e = [v \in Events' |->
              [key |-> <<declared'[v].function, declared'[v].parameter>>,
               count |-> declared'[v].count]]
  BY <1>4 DEF PlanDeclared, Events
<1>7. d = [v \in Events |->
              [key |-> <<declared[v].function, declared[v].parameter>>,
               count |-> declared[v].count]]
  BY <1>4 DEF PlanDeclared, Events
<1>8. DOMAIN e = 1 .. Len(d) + 1
  BY <1>1, <1>2, <1>3, <1>5, <1>6
<1>9. \A v \in 1 .. Len(d) : e[v] = d[v]
  BY <1>2, <1>3, <1>5, <1>6, <1>7
<1>10. e[Len(d) + 1] = r
  BY <1>1, <1>2, <1>3, <1>4, <1>5, <1>6
<1>11. e = [v \in 1 .. Len(d) + 1 |-> e[v]]
  BY <1>6, <1>8
<1>12. PICK b : b = Append(d, r)
  OBVIOUS
<1>13. /\ DOMAIN b = 1 .. Len(d) + 1 /\ b[Len(d) + 1] = r
       /\ \A v \in 1 .. Len(d) : b[v] = d[v]
       /\ b = [v \in DOMAIN b |-> b[v]]
  <2>1. d \in Seq(PlanDeclaration) /\ r \in PlanDeclaration
    BY <1>4, PlanFacts DEF PlanDeclaration
  <2>2. b \in Seq(PlanDeclaration) /\ Len(b) = Len(d) + 1
        /\ b[Len(d) + 1] = r /\ \A v \in 1 .. Len(d) : b[v] = d[v]
    BY <1>12, <2>1, AppendProperties
  <2>3. b \in [1 .. Len(b) -> PlanDeclaration]
    BY <2>2
  <2> QED
    BY <2>2, <2>3
<1>14. \A v \in 1 .. Len(d) + 1 : v \in 1 .. Len(d) \/ v = Len(d) + 1
  BY <1>3, <1>5
<1>15. \A v \in 1 .. Len(d) + 1 : e[v] = b[v]
  BY <1>9, <1>10, <1>13, <1>14
<1>16. e = b
  BY <1>11, <1>13, <1>15
<1> QED
  BY <1>4, <1>12, <1>16

\* Before the first test, the plan has passed an empty test.
LEMMA PlanInit == Init => Plan!Init
<1> SUFFICES ASSUME Init PROVE Plan!Init
  OBVIOUS
<1>1. PlanDeclared = <<>>
  BY DEF Init, PlanDeclared
<1> QED
  BY <1>1 DEF Init, Plan!Init, PlanOutcome

\* Every step of the two-level map is a step of the plan, or none.
LEMMA PlanSteps ==
    TypeOK /\ QueueInv /\ [Next]_vars => [Plan!Next]_(Plan!vars)
<1> SUFFICES ASSUME TypeOK, QueueInv, [Next]_vars
             PROVE  Plan!Next \/ UNCHANGED Plan!vars
  OBVIOUS
<1>0. phase = "body" => PlanOutcome = "running"
  BY DEF PlanOutcome
<1>1. ASSUME declared' = declared PROVE PlanDeclared' = PlanDeclared
  BY <1>1 DEF PlanDeclared
<1>2. CASE initialize_testing
  <2>1. PlanDeclared' = <<>> /\ checked' = <<>>
    BY <1>2 DEF initialize_testing, PlanDeclared
  <2>2. PlanOutcome # "running" /\ PlanOutcome' = "running"
    BY <1>2 DEF initialize_testing, PlanOutcome
  <2>3. Plan!Start
    BY <2>1, <2>2 DEF Plan!Start
  <2> QED
    BY <2>3 DEF Plan!Next
<1>3. ASSUME NEW f \in Functions, NEW p \in Parameters, NEW a, NEW c \in Counts,
             expect_check(f, p, a, c)
      PROVE  Plan!Next
  <2>1. phase = "body" /\ phase' = "body" /\ Len(declared) < MaxEvents
        /\ checked' = Append(checked, 0)
    BY <1>3 DEF expect_check
  <2>2. PlanDeclared' = Append(PlanDeclared, [key |-> <<f, p>>, count |-> c])
    BY <1>3, PlanDeclares
  <2>3. PlanOutcome = "running" /\ PlanOutcome' = "running"
    BY <2>1 DEF PlanOutcome
  <2>4. Len(PlanDeclared) < MaxEvents
    BY <2>1, PlanFacts
  <2>5. Plan!Declare(<<f, p>>, c) /\ <<f, p>> \in Functions \X Parameters
    BY <2>1, <2>2, <2>3, <2>4 DEF Plan!Declare
  <2> QED
    BY <2>5 DEF Plan!Next
<1>4. ASSUME NEW f \in Functions, NEW p \in Parameters, phase = "body", HasEntry(f, p),
             NEW got, got = get_symbol_value2(expected, f, p), TakeEvent(got),
             PlanOutcome' \in {"running", "abandoned"}
      PROVE  Plan!Next
  <2>1. NodesInPlace
    BY <1>4 DEF QueueInv
  <2>2. PICK v : v = got.value
    OBVIOUS
  <2>3. /\ v = ListOf(f, p)[1].value /\ v \in Events /\ got.rc # 0
        /\ declared' = declared
    BY <1>4, <2>1, <2>2, TakeHistory
  <2>4. got.rc = ListOf(f, p)[1].refcount
    BY <1>4, TypeParts, TakenEntry DEF HasEntry, ListOf
  <2>5. Plan!IsNext(v, <<f, p>>)
    BY <1>4, <2>3, <2>4, PlanNext
  <2>6. checked[v] < MaxChecked /\ checked' = [checked EXCEPT ![v] = @ + 1]
    BY <1>4, <2>2 DEF TakeEvent
  <2>7. v \in DOMAIN PlanDeclared /\ PlanDeclared' = PlanDeclared
    BY <1>1, <2>3, PlanFacts
  <2>8. Plan!Use(<<f, p>>) /\ <<f, p>> \in Functions \X Parameters
    BY <1>0, <1>4, <2>5, <2>6, <2>7 DEF Plan!Use
  <2> QED
    BY <2>8 DEF Plan!Next
<1>5. ASSUME NEW f \in Functions, NEW p \in Parameters, NEW x, check_expected(f, p, x)
      PROVE  Plan!Next
  <2>1. PICK got : got = get_symbol_value2(expected, f, p)
    OBVIOUS
  <2>2. /\ phase = "body" /\ HasEntry(f, p) /\ TakeEvent(got)
        /\ UNCHANGED <<phase, rc, report>> \/ exit_test("rejected", got.value)
    BY <1>5, <2>1 DEF check_expected
  <2>3. PlanOutcome' \in {"running", "abandoned"}
    BY <2>2 DEF PlanOutcome, exit_test
  <2> QED
    BY <1>4, <2>1, <2>2, <2>3
<1>6. ASSUME NEW f \in Functions, NEW p \in Parameters, check_expected_raises(f, p)
      PROVE  Plan!Next
  <2>1. PICK got : got = get_symbol_value2(expected, f, p)
    OBVIOUS
  <2>2. phase = "body" /\ HasEntry(f, p) /\ TakeEvent(got) /\ exit_test("raised", got.value)
    BY <1>6, <2>1 DEF check_expected_raises
  <2>3. PlanOutcome' = "abandoned"
    BY <2>2 DEF PlanOutcome, exit_test
  <2> QED
    BY <1>4, <2>1, <2>2, <2>3
<1>7. ASSUME NEW f \in Functions, NEW p \in Parameters, phase = "body",
             ~ HasEntry(f, p) \/ ListOf(f, p)[1].refcount = 0,
             exit_test("missing", lastLocation), declared' = declared, checked' = checked
      PROVE  Plan!Next
  <2>1. PlanOutcome' = "missing"
    BY <1>7 DEF PlanOutcome, exit_test
  <2>2. \A v \in DOMAIN PlanDeclared : ~ Plan!IsNext(v, <<f, p>>)
    BY <1>7, PlanNext, PlanFacts
  <2>3. Plan!Miss(<<f, p>>) /\ <<f, p>> \in Functions \X Parameters
    BY <1>0, <1>1, <1>7, <2>1, <2>2 DEF Plan!Miss
  <2> QED
    BY <2>3 DEF Plan!Next
<1>8. ASSUME NEW f \in Functions, NEW p \in Parameters, check_expected_zero(f, p)
      PROVE  Plan!Next
  <2>1. /\ phase = "body" /\ HasEntry(f, p) /\ exit_test("missing", lastLocation)
        /\ get_symbol_value2(expected, f, p).rc = 0
        /\ declared' = declared /\ checked' = checked
    BY <1>8 DEF check_expected_zero
  <2>2. ListOf(f, p)[1].refcount = 0
    BY <2>1, TypeParts, TakenEntry DEF HasEntry, ListOf
  <2> QED
    BY <1>7, <2>1, <2>2
<1>9. ASSUME NEW f \in Functions, NEW p \in Parameters, check_expected_missing(f, p)
      PROVE  Plan!Next
  BY <1>7, <1>9 DEF check_expected_missing
<1>10. CASE fail
  <2>1. /\ phase = "body" /\ exit_test("none", 0)
        /\ declared' = declared /\ checked' = checked
    BY <1>10 DEF fail
  <2>2. PlanOutcome' = "abandoned"
    BY <2>1 DEF PlanOutcome, exit_test
  <2>3. Plan!Abandon
    BY <1>0, <1>1, <2>1, <2>2 DEF Plan!Abandon
  <2> QED
    BY <2>3 DEF Plan!Next
<1>11. CASE fail_if_leftover_values
  <2>1. PICK m : m = remove_always_return_values2(expected)
    OBVIOUS
  <2>2. /\ phase = "body" /\ declared' = declared /\ checked' = checked
        /\ IF check_for_leftover_values2(m) THEN exit_test("leftover", 0)
           ELSE phase' = "unwound" /\ rc' = 0
    BY <1>11, <2>1 DEF fail_if_leftover_values
  <2>3. PlanOutcome' = IF ~ check_for_leftover_values2(m) THEN "passed" ELSE "owing"
    <3>1. CASE check_for_leftover_values2(m)
      BY <2>2, <3>1 DEF PlanOutcome, exit_test
    <3>2. CASE ~ check_for_leftover_values2(m)
      BY <2>2, <3>2 DEF PlanOutcome
    <3> QED
      BY <3>1, <3>2
  <2>4. ~ check_for_leftover_values2(m) <=> Plan!OnlyOptional /\ Plan!OneLeft
    BY <1>0, <1>1, <2>1, <2>2, PlanReturn DEF Plan!OnlyOptional, Plan!OneLeft
  <2>5. Plan!Return
    BY <1>0, <1>1, <2>1, <2>2, <2>3, <2>4 DEF Plan!Return
  <2> QED
    BY <2>5 DEF Plan!Next
<1>12. CASE teardown_testing \/ UNCHANGED vars
  <2>1. /\ (phase # "body" /\ phase' # "body") \/ phase' = phase
        /\ rc' = rc /\ report' = report /\ declared' = declared /\ checked' = checked
    BY <1>12 DEF teardown_testing, vars
  <2>2. PlanOutcome' = PlanOutcome
    BY <2>1 DEF PlanOutcome
  <2> QED
    BY <1>1, <2>1, <2>2 DEF Plan!vars
<1> QED
  BY <1>2, <1>3, <1>5, <1>6, <1>8, <1>9, <1>10, <1>11, <1>12 DEF Next

\* The map of two levels with its refcounts implements one queue of events per
\* parameter of a function: every check takes the event that is due, a missing
\* one is reported only when none is due, and a test that returns fails if it
\* owes a check and passes if it has at most one optional event left for each
\* parameter.
THEOREM MapImplementsPlan == Spec => ImplementsPlan
<1>1. Init => Plan!Init
  BY PlanInit
<1>2. (TypeOK /\ QueueInv) /\ [Next]_vars => [Plan!Next]_(Plan!vars)
  BY PlanSteps
<1> QED
  BY <1>1, <1>2, Invariant, PTL DEF Spec, ImplementsPlan, Plan!Spec
=============================================================================
