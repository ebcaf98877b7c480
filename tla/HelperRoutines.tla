--------------------------- MODULE HelperRoutines ---------------------------
(***************************************************************************)
(* The routines that the other parts of cmocka rest on: the filters that   *)
(* select the tests of a group, the replacement of substrings, the buffer  *)
(* that collects error messages, the layout of a block of the checked heap *)
(* and the time a test took.  Strings are sequences of characters without  *)
(* their terminating NUL.                                                  *)
(***************************************************************************)
EXTENDS Integers, SequencesExt

CONSTANTS
    Groups,          \* groups of tests: sequences of <<name, has a function>>
    Patterns,        \* patterns for the filters
    Replacements,    \* <<text, size of its buffer, pattern, replacement>>
    Attributes,      \* <<text, size of its buffer>> to be escaped for XML
    MessageBuffer,   \* size of the buffer of vcmocka_print_error (256)
    MaxPrints,       \* bound: prints to one error message
    SizeBits,        \* bits of size_t
    GuardSize,       \* MALLOC_GUARD_SIZE
    InfoSize,        \* sizeof(struct MallocBlockInfoData)
    Alignment,       \* MALLOC_ALIGNMENT
    Second,          \* nanoseconds of a second (1E9)
    MaxSeconds       \* bound: the clock

ASSUME SizesAssumption ==
    /\ {MessageBuffer, GuardSize, InfoSize, Alignment, Second} \subseteq Nat \ {0}
    /\ {MaxPrints, SizeBits, MaxSeconds} \subseteq Nat
    /\ InfoSize + 2 * GuardSize + Alignment < 2^SizeBits

\* A pattern to be replaced is not empty, and a text is in its buffer with its NUL.
ASSUME TextsAssumption ==
    /\ \A p \in Patterns : p \in Seq(STRING)
    /\ \A g \in Groups : g \in Seq(Seq(STRING) \X BOOLEAN)
    /\ \A r \in Replacements :
          /\ r \in Seq(STRING) \X Nat \X Seq(STRING) \X Seq(STRING)
          /\ Len(r[1]) < r[2] /\ r[3] # <<>>
    /\ \A a \in Attributes : a \in Seq(STRING) \X (Nat \ {0})

VARIABLES
    test_filter,        \* global_test_filter_pattern
    skip_filter,        \* global_skip_filter_pattern
    cm_error_message,
    room,               \* the bytes allocated for it
    prints,             \* history: the lengths printed to it
    call                \* the last call of another routine, with its result

filterVars  == <<test_filter, skip_filter>>
messageVars == <<cm_error_message, room, prints>>
routineVars == <<filterVars, messageVars, call>>

NoString  == <<"NULL">>
NoMessage == <<<<0, 0>>>>
NoCall    == [routine |-> "none"]

RoutineInit ==
    /\ test_filter = NoString /\ skip_filter = NoString
    /\ cm_error_message = NoMessage /\ room = 0 /\ prints = <<>>
    /\ call = NoCall

\* A routine without state of its own is called; the last call is forgotten.
Called(record) == call = NoCall /\ call' = record /\ UNCHANGED <<filterVars, messageVars>>
call_forgotten == call # NoCall /\ call' = NoCall /\ UNCHANGED <<filterVars, messageVars>>

-----------------------------------------------------------------------------
(* Filters.                                                                *)

\* Plausible slip: `*' takes the first character that fits and never goes back.
c_strmatch_Greedy(str, pattern) ==
    LET starts[j \in 1 .. Len(pattern) + 1] ==
            {i \in 1 .. Len(str) + 1 :
                IF j > Len(pattern) THEN i > Len(str)
                ELSE IF pattern[j] = "*"
                THEN \/ j = Len(pattern)
                     \/ \E k \in i .. Len(str) :
                           /\ str[k] = pattern[j + 1]
                           /\ \A l \in i .. k - 1 : str[l] # pattern[j + 1]
                           /\ k \in starts[j + 1]
                ELSE i <= Len(str) /\ pattern[j] \in {"?", str[i]} /\ i + 1 \in starts[j + 1]}
    IN  1 \in starts[1]

\* starts[j] are the places of str from which on it matches the pattern from j on.
\* What follows a `*' is tried at every character of the rest, not at its end.
c_strmatch(str, pattern) ==
    LET starts[j \in 1 .. Len(pattern) + 1] ==
            {i \in 1 .. Len(str) + 1 :
                IF j > Len(pattern) THEN i > Len(str)
                ELSE IF pattern[j] = "*"
                THEN j = Len(pattern) \/ \E k \in i .. Len(str) : k \in starts[j + 1]
                ELSE i <= Len(str) /\ pattern[j] \in {"?", str[i]} /\ i + 1 \in starts[j + 1]}
    IN  1 \in starts[1]

cmocka_set_test_filter(p) ==
    /\ call = NoCall
    /\ test_filter' = p /\ UNCHANGED <<skip_filter, messageVars, call>>

cmocka_set_skip_filter(p) ==
    /\ call = NoCall
    /\ skip_filter' = p /\ UNCHANGED <<test_filter, messageVars, call>>

\* Entries without a name or without any function are no tests.
IsSelected(test) ==
    /\ test[1] # NoString /\ test[2]
    /\ test_filter # NoString => c_strmatch(test[1], test_filter)
    /\ skip_filter # NoString => ~ c_strmatch(test[1], skip_filter)

\* The tests that the loop has taken from the first i entries.
Selected(group) ==
    LET taken[i \in 0 .. Len(group)] ==
            IF i = 0 THEN <<>>
            ELSE IF IsSelected(group[i]) THEN Append(taken[i - 1], group[i]) ELSE taken[i - 1]
    IN  taken[Len(group)]

select_tests(group) ==
    Called([routine |-> "select", group |-> group, selected |-> Selected(group)])

-----------------------------------------------------------------------------
(* Replacing a pattern, in a buffer of size bytes.                         *)

\* The first position from `from' on where the pattern starts, or 0.
strstr(s, pattern, from) ==
    LET hits == {i \in from .. Len(s) + 1 - Len(pattern) :
                    SubSeq(s, i, i + Len(pattern) - 1) = pattern}
    IN  IF hits = {} THEN 0 ELSE Min(hits)

\* Plausible slip: the search goes on behind the old text, not the new one.
SearchFrom_Old(p, pattern, repl) == p + Len(pattern)

SearchFrom(p, pattern, repl) == p + Len(repl)

\* The overflow check, before every replacement.
HasRoom(src, size, pattern, repl) == size > Len(src) + Max({Len(pattern), Len(repl)}) + 1

\* One round of the loop: the text, where the search goes on, and how it ended.
ReplaceOnce(round, size, pattern, repl) ==
    LET p == strstr(round.text, pattern, round.from) IN
    IF round.ended \/ p = 0 THEN [round EXCEPT !.ended = TRUE]
    ELSE IF ~ HasRoom(round.text, size, pattern, repl)
    THEN [round EXCEPT !.ended = TRUE, !.ok = FALSE]
    ELSE [round EXCEPT !.text = ReplaceSubSeqAt(p, repl, pattern, round.text),
                       !.from = SearchFrom(p, pattern, repl)]

\* The text and the value returned.  Every round leaves a part of src behind.
c_strreplace(src, size, pattern, repl) ==
    LET rounds[k \in 0 .. Len(src) + 1] ==
            IF k = 0 THEN [text |-> src, from |-> 1, ended |-> FALSE, ok |-> TRUE]
            ELSE ReplaceOnce(rounds[k - 1], size, pattern, repl)
        last == rounds[Len(src) + 1]
    IN  <<last.text, last.ok>>

replace(src, size, pattern, repl) ==
    Called([routine |-> "replace", src |-> src, size |-> size, pattern |-> pattern,
            repl |-> repl, result |-> c_strreplace(src, size, pattern, repl)])

\* The special characters and their entities, which start with `&' themselves.
Entity == [c \in {"&", "quote", "apos", "<", ">"} |->
              CASE c = "&"     -> <<"&", "amp", ";">>
                [] c = "quote" -> <<"&", "quot", ";">>
                [] c = "apos"  -> <<"&", "apo", ";">>
                [] c = "<"     -> <<"&", "lt", ";">>
                [] c = ">"     -> <<"&", "gt", ";">>]

\* Plausible slip: `&' comes last, and is escaped in the entities too.
EscapeOrder_AmpersandLast == <<"quote", "apos", "<", ">", "&">>

EscapeOrder == <<"&", "quote", "apos", "<", ">">>

\* snprintf cuts the text to the buffer; a replacement that fails is ignored.
\* buf[k] is the buffer after k replacements.
cmprepare_xml_attribute_string(src, size) ==
    LET buf[k \in 0 .. Len(EscapeOrder)] ==
            IF k = 0 THEN SubSeq(src, 1, Min({Len(src), size - 1}))
            ELSE c_strreplace(buf[k - 1], size, <<EscapeOrder[k]>>, Entity[EscapeOrder[k]])[1]
    IN  buf[Len(EscapeOrder)]

escape(src, size) ==
    Called([routine |-> "escape", src |-> src, size |-> size,
            result |-> cmprepare_xml_attribute_string(src, size)])

-----------------------------------------------------------------------------
(* The error message of a test.  The characters of print n are <<n, 1>>,   *)
(* <<n, 2>>, ...                                                           *)

Printed(n, len) == [i \in 1 .. len |-> <<n, i>>]

\* The message so far.
Before == IF cm_error_message = NoMessage THEN <<>> ELSE cm_error_message

\* Plausible slip: a print that just misses the buffer is taken from it.
FitsBuffer_Inclusive(len) == len <= MessageBuffer

FitsBuffer(len) == len < MessageBuffer

\* The first len characters of a buffer that holds the print, cut to its size;
\* what lies behind it is not of the print.
FromBuffer(n, len) ==
    [i \in 1 .. len |-> IF i < MessageBuffer THEN <<n, i>> ELSE <<0, i>>]

\* A print of len characters to the message; the allocation may fail.  A long
\* print is formatted again, by vsnprintf with room for len characters and its
\* NUL where there are len + 1.
vcmocka_print_error(len, allocated) ==
    /\ call = NoCall
    /\ Len(prints) < MaxPrints
    /\ prints' = Append(prints, IF allocated THEN len ELSE 0)
    /\ IF allocated
       THEN /\ room' = Len(Before) + len + 1
            /\ cm_error_message' =
                  LET n == Len(prints) + 1 IN
                  Before \o IF FitsBuffer(len) THEN FromBuffer(n, len) ELSE Printed(n, len - 1)
       ELSE UNCHANGED <<cm_error_message, room>>
    /\ UNCHANGED <<filterVars, call>>

\* The message goes to the test, and the next one starts from nothing.
message_handed_over ==
    /\ prints # <<>>
    /\ cm_error_message' = NoMessage /\ room' = 0 /\ prints' = <<>>
    /\ UNCHANGED <<filterVars, call>>

-----------------------------------------------------------------------------
(* The layout of a block of the checked heap.                              *)

Sizes == 0 .. 2^SizeBits - 1

\* Plausible slip: no room for rounding the address.
AllocateSize_NoSlack(size) == (size + 2 * GuardSize + InfoSize) % 2^SizeBits

AllocateSize(size) == (size + 2 * GuardSize + InfoSize + Alignment) % 2^SizeBits

AlignDown(x) == x - (x % Alignment)

\* _test_malloc: fails the test if the sum wraps around; otherwise the block is
\* any piece of memory that malloc finds.
test_malloc_layout(wanted, size) ==
    LET total == AllocateSize(size) IN
    IF total <= size
    THEN Called([routine |-> "refused"])
    ELSE \E block \in {b \in Sizes : b + total < 2^SizeBits} :
            LET ptr == AlignDown(block + GuardSize + InfoSize + Alignment) IN
            Called([routine |-> "malloc", wanted |-> wanted, block |-> block,
                    allocated |-> total, ptr |-> ptr, info |-> ptr - (GuardSize + InfoSize),
                    endGuard |-> ptr + size])

\* _test_calloc: NULL if the product does not fit.
test_calloc_layout(n, size) ==
    IF size > 0 /\ n > (2^SizeBits - 1) \div size
    THEN Called([routine |-> "null"])
    ELSE test_malloc_layout(n * size, (n * size) % 2^SizeBits)

-----------------------------------------------------------------------------
(* The run time of a test.  A time is <<seconds, nanoseconds>>.            *)

Times == (0 .. MaxSeconds) \X (0 .. Second - 1)

\* Plausible slip: the seconds are borrowed and the sign follows nanoseconds.
IsBackward_Nanoseconds(time1, time0) == time1[2] < time0[2]

IsBackward(time1, time0) == time1[1] < time0[1]

\* time1 - time0.  The two corrections by whole seconds never apply to times
\* whose nanoseconds are below one second.
cm_tspecdiff(time1, time0) ==
    LET sign == IF IsBackward(time1, time0) THEN -1 ELSE 1
    IN  <<(time1[1] - time0[1]) * sign, time1[2] - time0[2]>>

\* The difference in nanoseconds; the code has it in seconds, as a double.
cm_secdiff(clock1, clock0) ==
    LET diff == cm_tspecdiff(clock1, clock0) IN diff[1] * Second + diff[2]

measure(finish, start) ==
    Called([routine |-> "time", start |-> start, finish |-> finish,
            runtime |-> cm_secdiff(finish, start)])

-----------------------------------------------------------------------------
FilterNext ==
    \/ \E p \in Patterns : cmocka_set_test_filter(p) \/ cmocka_set_skip_filter(p)
    \/ \E g \in Groups : select_tests(g)

MessageNext ==
    \/ \E len \in 0 .. MessageBuffer + 1, allocated \in BOOLEAN :
          vcmocka_print_error(len, allocated)
    \/ message_handed_over

CallNext ==
    \/ \E r \in Replacements : replace(r[1], r[2], r[3], r[4])
    \/ \E a \in Attributes : escape(a[1], a[2])
    \/ \E size \in Sizes : test_malloc_layout(size, size)
    \/ \E n, size \in Sizes : test_calloc_layout(n, size)
    \/ \E start, finish \in Times : measure(finish, start)

RoutineNext == FilterNext \/ MessageNext \/ CallNext \/ call_forgotten

RoutineSpec == RoutineInit /\ [][RoutineNext]_routineVars

-----------------------------------------------------------------------------
(* The properties.                                                         *)

\* The documented meaning of a pattern: `*' matches zero or more characters, `?'
\* exactly one.  The end of what each character of the pattern matches.
Matches(name, pattern) ==
    \E end \in [0 .. Len(pattern) -> 0 .. Len(name)] :
        /\ end[0] = 0 /\ end[Len(pattern)] = Len(name)
        /\ \A i \in 1 .. Len(pattern) :
              \/ pattern[i] = "*" /\ end[i] >= end[i - 1]
              \/ /\ end[i] = end[i - 1] + 1
                 /\ pattern[i] \in {"?", name[end[i]]}

NoAdjacentStars(p) == \A i \in 1 .. Len(p) - 1 : p[i] # "*" \/ p[i + 1] # "*"

\* The filters select the documented tests, each once and in their order.  (With
\* two adjacent stars c_strmatch misses a name that ends where the stars begin:
\* then a test that is selected by the filter still matches it.)
SelectsMatching ==
    call.routine = "select" =>
        LET Wanted(t) == /\ t[1] # NoString /\ t[2]
                         /\ test_filter # NoString => Matches(t[1], test_filter)
                         /\ skip_filter # NoString => ~ Matches(t[1], skip_filter)
            wanted == {i \in DOMAIN call.group : Wanted(call.group[i])}
            list   == call.selected
        IN  IF NoAdjacentStars(test_filter) /\ NoAdjacentStars(skip_filter)
            THEN \E place \in [DOMAIN list -> wanted] :
                    /\ \A k \in DOMAIN list : list[k] = call.group[place[k]]
                    /\ \A k, l \in DOMAIN list : k < l => place[k] < place[l]
                    /\ \A i \in wanted : \E k \in DOMAIN list : place[k] = i
            ELSE \A t \in ToSet(list) : test_filter # NoString => Matches(t[1], test_filter)

\* The pattern is in s at k.
Occurs(s, k, pattern) ==
    k + Len(pattern) - 1 <= Len(s) /\ SubSeq(s, k, k + Len(pattern) - 1) = pattern

\* A reader comes to the k-th character: read.text is what the characters before
\* it have become, and read.next the first one that is not yet part of it.
ReadOne(read, s, k, pattern, repl) ==
    IF read.next > k THEN read
    ELSE IF Occurs(s, k, pattern)
    THEN [text |-> read.text \o repl, next |-> k + Len(pattern)]
    ELSE [text |-> Append(read.text, s[k]), next |-> k + 1]

\* The text with every occurrence of the pattern replaced, read left to right.
Rewritten(s, pattern, repl) ==
    LET read[k \in 0 .. Len(s)] ==
            IF k = 0 THEN [text |-> <<>>, next |-> 1]
            ELSE ReadOne(read[k - 1], s, k, pattern, repl)
    IN  read[Len(s)].text

\* c_strreplace() never writes behind its buffer, replaces every occurrence if
\* it says so, never looks for the pattern in what it inserted, and gives up
\* only if the longest text on the way leaves no room for a replacement.
ReplacesInPlace ==
    call.routine = "replace" =>
        LET whole == Rewritten(call.src, call.pattern, call.repl)
            most  == Max({Len(call.src), Len(whole)})
            spare == Max({Len(call.pattern), Len(call.repl)}) + 1
        IN  /\ Len(call.result[1]) < call.size
            /\ call.result[2] => call.result[1] = whole
            /\ call.size > most + spare => call.result[2]

\* An attribute that fits into its buffer with its entities is escaped exactly
\* once: no special character is left, and none is escaped twice.  Any other
\* stays within its buffer.
EscapedOnce ==
    call.routine = "escape" =>
        LET whole == FlattenSeq([i \in DOMAIN call.src |->
                        IF call.src[i] \in DOMAIN Entity THEN Entity[call.src[i]]
                        ELSE <<call.src[i]>>])
        IN  /\ Len(call.result) < call.size
            /\ call.size > Len(whole) + 4 => call.result = whole

\* Text is replaced in place without leaving its buffer, and the result is the
\* one a reader expects, for a single replacement and for the five in a row that
\* escape an attribute.
TextIsReplaced == ReplacesInPlace /\ EscapedOnce

\* The error message fits into what was allocated for it, NUL included, and is
\* made of the prints in their order, each of them whole if it fits into the
\* buffer and without its last character if it does not.
MessageIsWhole ==
    LET Kept(n) == Printed(n, IF prints[n] < MessageBuffer THEN prints[n] ELSE prints[n] - 1) IN
    /\ Before = FlattenSeq([n \in DOMAIN prints |-> Kept(n)])
    /\ cm_error_message # NoMessage => Len(cm_error_message) < room

\* Whatever size is asked for and whatever block malloc returns: header, both
\* guards and as many bytes as the caller asked for lie inside of the block, in
\* this order, and the address is aligned.
BlockHoldsRequest ==
    call.routine = "malloc" =>
        /\ call.block <= call.info
        /\ call.info + InfoSize + GuardSize = call.ptr
        /\ call.ptr + call.wanted = call.endGuard
        /\ call.endGuard + GuardSize <= call.block + call.allocated
        /\ call.ptr % Alignment = 0

\* The run time is exact unless the clock was set back by seconds meanwhile.
RuntimeIsElapsed ==
    (call.routine = "time" /\ call.finish[1] >= call.start[1]) =>
        call.start[1] * Second + call.start[2] + call.runtime
            = call.finish[1] * Second + call.finish[2]
=============================================================================
