----------------------------- MODULE ValueChecks -----------------------------
(***************************************************************************)
(* The checks that cmocka applies to values: those that expect_*() stores  *)
(* for check_expected(), and those of the assertions.  A test has an array *)
(* of its own, which it may change at any time; a check stored for later   *)
(* has copied the array or still refers to it.  (How stored checks queue   *)
(* up is the subject of ParameterChecks; here there is one at a time.)     *)
(***************************************************************************)
EXTENDS Integers, FiniteSets, SequencesExt

CONSTANTS
    Width,          \* the bits of an integer (64 in the code)
    BlockSize,      \* bytes per line of a memory dump (16 in the code)
    Arrays,         \* what the array of the test may hold: integers or bytes
    MaxFloat,       \* the largest finite float, in units of the smallest
    EpsilonInverse, \* 1 / FLT_EPSILON
    Tolerances      \* the epsilons that tests give to comparisons of floats

ASSUME WidthAssumption == Width \in Nat \ {0} /\ BlockSize \in Nat \ {0}
ASSUME ArraysAssumption == \A a \in Arrays : a \in Seq(Nat)
ASSUME FloatAssumption ==
    /\ MaxFloat \in Nat /\ EpsilonInverse \in Nat \ {0}
    /\ Tolerances \subseteq 0 .. MaxFloat

VARIABLES
    array,          \* the array of the test
    event,          \* the check stored by expect_*()
    given,          \* history: what the array held when it was stored
    result          \* the check that was made last

vars == <<array, event, given, result>>

Words == 0 .. 2^Width - 1

\* The value of a word read as intmax_t.
Signed(w) == IF w < 2^(Width - 1) THEN w ELSE w - 2^Width

-----------------------------------------------------------------------------
(* Sets and ranges of integers.                                            *)

\* Plausible slip: the scan goes on after the value was found.
value_in_set_NoBreak(x, set, invert) ==
    LET scan[i \in 1 .. Len(set) + 1] ==
            IF i > Len(set) THEN invert
            ELSE IF set[i] = x THEN ~ scan[i + 1] ELSE scan[i + 1]
    IN  scan[1]

\* The scan from element i on flips its answer at the first element found and
\* stops there.  The signed and the unsigned variants compare the same bits.
value_in_set(x, set, invert) ==
    LET scan[i \in 1 .. Len(set) + 1] ==
            IF i > Len(set) THEN invert
            ELSE IF set[i] = x THEN ~ invert ELSE scan[i + 1]
    IN  scan[1]

\* Plausible slip: the lower end of a range is left out.
uint_in_range_Open(x, lo, hi) == x > lo /\ x <= hi

uint_in_range(x, lo, hi) == x >= lo /\ x <= hi

int_in_range(x, lo, hi) == Signed(x) >= Signed(lo) /\ Signed(x) <= Signed(hi)

int_not_in_range(x, lo, hi) == Signed(x) < Signed(lo) \/ Signed(x) > Signed(hi)

uint_not_in_range(x, lo, hi) == x < lo \/ x > hi

\* Signed or not, or pointers: the same bits.
values_equal(x, y) == x = y

values_not_equal(x, y) == x # y

-----------------------------------------------------------------------------
(* Strings and memory.  A buffer is a sequence of bytes, all of it compared. *)

string_equal(x, y) == x = y

string_not_equal(x, y) == x # y

memory_equal(a, b) == \A i \in DOMAIN b : a[i] = b[i]

\* Plausible slip: one equal byte is taken for equality.
memory_not_equal_Any(a, b) == Cardinality({i \in DOMAIN b : a[i] = b[i]}) = 0

memory_not_equal(a, b) == Cardinality({i \in DOMAIN b : a[i] = b[i]}) # Len(b)

\* Plausible slip: the bytes are only compared with each other.
all_zero_AllSame(buf) == \A i \in 1 .. Len(buf) - 1 : buf[i] = buf[i + 1]

\* The first byte is 0, and the buffer equals itself shifted by one byte.
all_zero(buf) ==
    \/ buf = <<>>
    \/ Head(buf) = 0 /\ \A i \in 1 .. Len(buf) - 1 : buf[i] = buf[i + 1]

\* Plausible slip: `<=' in the loop over the lines.
DumpLines_OneMore(len) == 0 .. len \div BlockSize

\* The lines of a dump of len bytes.
DumpLines(len) == {n \in 0 .. len \div BlockSize : n * BlockSize < len}

\* The bytes of line n.
Line(buf, n) == SubSeq(buf, n * BlockSize + 1,
                       IF (n + 1) * BlockSize < Len(buf)
                       THEN (n + 1) * BlockSize ELSE Len(buf))

\* A line as it is printed: its prefix (`- ' of the left buffer, `+ ' of the right
\* one, blanks of both), its number, its bytes.
print_data_block16(prefix, n, line) == <<prefix, n, line>>

SkippingZeros == <<"skipping", 0, <<>>>>

\* Lines of zeros are left out, except the first and the last.
IsSkipped(a, b, n) ==
    /\ n > 0
    /\ Len(b) - n * BlockSize > BlockSize
    /\ all_zero(Line(a, n)) /\ all_zero(Line(b, n))

\* What print_data_diff prints for line n of two buffers of one length: one note
\* for skipped lines in a row, an equal line once, and others from both.
LinePrinted(a, b, n) ==
    IF IsSkipped(a, b, n)
    THEN IF n > 0 /\ IsSkipped(a, b, n - 1) THEN <<>> ELSE <<SkippingZeros>>
    ELSE IF Line(a, n) = Line(b, n)
    THEN <<print_data_block16("equal", n, Line(a, n))>>
    ELSE <<print_data_block16("minus", n, Line(a, n)), print_data_block16("plus", n, Line(b, n))>>

print_data_diff(a, b) ==
    FlattenSeq([k \in 1 .. Cardinality(DumpLines(Len(b))) |-> LinePrinted(a, b, k - 1)])

-----------------------------------------------------------------------------
(* Floating point numbers: finite ones, infinities and NaN.                *)

NaN    == <<"nan", 0>>
Inf(s) == <<"inf", s>>
Fin(i) == <<"finite", i>>

IsFinite(x)   == x[1] = "finite"
IsInfinite(x) == x[1] = "inf"

Floats == {NaN, Inf(1), Inf(-1)} \cup {Fin(i) : i \in -MaxFloat .. MaxFloat}

\* A result beyond the largest finite number is infinite.
Rounded(i) == IF i > MaxFloat THEN Inf(1) ELSE IF i < -MaxFloat THEN Inf(-1) ELSE Fin(i)

Negated(x) == <<x[1], -x[2]>>

Minus(x, y) ==
    IF NaN \in {x, y} \/ (IsInfinite(x) /\ x = y) THEN NaN
    ELSE IF IsInfinite(x) THEN x
    ELSE IF IsInfinite(y) THEN Negated(y)
    ELSE Rounded(x[2] - y[2])

\* x < y; every comparison with NaN is false.
Less(x, y) ==
    /\ NaN \notin {x, y}
    /\ x # y
    /\ \/ x = Inf(-1) \/ y = Inf(1)
       \/ IsFinite(x) /\ IsFinite(y) /\ x[2] < y[2]

AtMost(x, y) == Less(x, y) \/ (x = y /\ x # NaN)

Magnitude(x) == IF AtMost(Fin(0), x) THEN x ELSE Negated(x)

TimesEpsilon(x) ==
    IF IsFinite(x) THEN Fin(x[2] \div EpsilonInverse) ELSE x

\* Plausible slip: the margin follows the left value alone.
Largest_Left(left, right) == Magnitude(left)

Largest(left, right) ==
    IF Less(Magnitude(left), Magnitude(right)) THEN Magnitude(right) ELSE Magnitude(left)

\* The values are close, or not further apart than rounding explains.
float_compare(left, right, epsilon) ==
    LET diff == Magnitude(Minus(left, right)) IN
    \/ AtMost(diff, epsilon)
    \/ ~ Less(TimesEpsilon(Largest(left, right)), diff)

\* The same in double precision, with the epsilon of float.
double_compare(left, right, epsilon) == float_compare(left, right, epsilon)

-----------------------------------------------------------------------------
(* The checks.                                                             *)

ArrayChecks  == {"in_set", "not_in_set"}
RangeChecks  == {"in_range", "not_in_range"}
ValueChecked == {"value", "not_value"}
StringChecks == {"string", "not_string"}
MemoryChecks == {"memory", "not_memory"}
IntChecks    == {"int_in_range", "int_not_in_range"}
TruthChecks  == {"true", "false", "return_code"}

\* The check c with its data d accepts the value x.
Accepts(c, x, d) ==
    \/ c = "in_set"           /\ value_in_set(x, d, FALSE)
    \/ c = "not_in_set"       /\ value_in_set(x, d, TRUE)
    \/ c = "in_range"         /\ uint_in_range(x, d[1], d[2])
    \/ c = "not_in_range"     /\ uint_not_in_range(x, d[1], d[2])
    \/ c = "int_in_range"     /\ int_in_range(x, d[1], d[2])
    \/ c = "int_not_in_range" /\ int_not_in_range(x, d[1], d[2])
    \/ c = "value"            /\ values_equal(x, d[1])
    \/ c = "not_value"        /\ values_not_equal(x, d[1])
    \/ c = "string"           /\ string_equal(x, d)
    \/ c = "not_string"       /\ string_not_equal(x, d)
    \/ c = "memory"           /\ memory_equal(x, d)
    \/ c = "not_memory"       /\ memory_not_equal(x, d)
    \/ c = "any"
    \/ c = "true"             /\ x # 0
    \/ c = "false"            /\ x = 0
    \/ c = "return_code"      /\ Signed(x) >= 0

\* The values a check can be applied to: memory is read as far as the check goes.
Values(c, d) ==
    IF c \in StringChecks THEN Arrays
    ELSE IF c \in MemoryChecks THEN {a \in Arrays \cup {<<>>} : Len(a) = Len(d)} ELSE Words

NoEvent  == [check |-> "none", data |-> <<>>, shared |-> FALSE]
NoResult == [check |-> "none"]

Init == array = <<>> /\ event = NoEvent /\ given = <<>> /\ result = NoResult

\* The next test begins.
next_test ==
    /\ result # NoResult
    /\ array' = <<>> /\ event' = NoEvent /\ given' = <<>> /\ result' = NoResult

\* The test runs, and no check is stored.
Ready == event = NoEvent /\ result = NoResult

\* The test changes its array.
test_writes(a) ==
    /\ result = NoResult
    /\ array' = a
    /\ UNCHANGED <<event, given, result>>

Store(c, d, shared) ==
    /\ Ready
    /\ event' = [check |-> c, data |-> d, shared |-> shared]
    /\ given' = d
    /\ UNCHANGED <<array, result>>

\* Plausible slip: the check refers to the array it was given.
expect_set_Shared(c) == array # <<>> /\ Store(c, array, TRUE)

\* The array is copied behind the event.
expect_set(c) == array # <<>> /\ Store(c, array, FALSE)

expect_memory(c) == array # <<>> /\ Store(c, array, FALSE)

\* assert_true(number_of_values), assert_true(size): the test fails.
expect_nothing ==
    /\ Ready
    /\ array = <<>>
    /\ result' = [check |-> "refused"]
    /\ UNCHANGED <<array, event, given>>

expect_range(c, lo, hi) == Store(c, <<lo, hi>>, FALSE)

expect_value(c, v) == Store(c, <<v>>, FALSE)

\* _expect_string keeps the pointer: the data is what the array will hold.
expect_string(c) == Store(c, <<>>, TRUE)

expect_any == Store("any", <<>>, FALSE)

\* Apply a check, for whose result the test was written: the test is over then.
\* What a memory check prints is kept with its result.
Apply(c, x, d) ==
    /\ array' = <<>>
    /\ result' = [check |-> c, value |-> x, data |-> d, ok |-> Accepts(c, x, d),
                  dump |-> IF c = "memory" /\ ~ memory_equal(x, d)
                           THEN print_data_diff(x, d) ELSE <<>>]

\* check_expected() of the stored event.
check_expected ==
    /\ event # NoEvent
    /\ result = NoResult
    /\ LET data == IF event.shared THEN array ELSE event.data IN
       \E x \in Values(event.check, data) : Apply(event.check, x, data)
    /\ event' = NoEvent
    /\ UNCHANGED given

\* An assertion: the check is applied at once.
Assertion(c, x, d) ==
    /\ Ready
    /\ Apply(c, x, d)
    /\ given' = d
    /\ UNCHANGED event

assert_set(c, x) == Assertion(c, x, array)
assert_range(c, x, lo, hi) == Assertion(c, x, <<lo, hi>>)
assert_equal(c, x, y) == Assertion(c, x, <<y>>)
assert_string(c, x) == Assertion(c, x, array)
assert_memory(c, x) == Assertion(c, x, array)
assert_ptr(c, x, y) == Assertion(c, x, <<y>>)
assert_truth(c, x) == Assertion(c, x, <<>>)

\* A comparison of floating point numbers.
Compared(c, left, right, epsilon, ok) ==
    /\ Ready
    /\ array' = <<>>
    /\ result' = [check |-> c, left |-> left, right |-> right, epsilon |-> epsilon,
                  ok |-> ok]
    /\ UNCHANGED <<event, given>>

assert_float_equal(left, right, epsilon) ==
    Compared("float", left, right, epsilon, float_compare(left, right, epsilon))

assert_double_equal(left, right, epsilon) ==
    Compared("double", left, right, epsilon, double_compare(left, right, epsilon))

assert_float_not_equal(left, right, epsilon) ==
    Compared("not_float", left, right, epsilon, ~ float_compare(left, right, epsilon))

assert_double_not_equal(left, right, epsilon) ==
    Compared("not_double", left, right, epsilon, ~ double_compare(left, right, epsilon))

Next ==
    \/ next_test
    \/ \E a \in Arrays : test_writes(a)
    \/ \E c \in ArrayChecks : expect_set(c)
    \/ \E c \in MemoryChecks : expect_memory(c)
    \/ expect_nothing
    \/ \E c \in StringChecks : expect_string(c)
    \/ expect_any
    \/ \E lo, hi \in Words : \E c \in RangeChecks : expect_range(c, lo, hi)
    \/ \E v \in Words : \E c \in ValueChecked : expect_value(c, v)
    \/ check_expected
    \/ \E x \in Words : \E c \in ArrayChecks : assert_set(c, x)
    \/ \E x, lo, hi \in Words : \E c \in RangeChecks \cup IntChecks :
          assert_range(c, x, lo, hi)
    \/ \E x, y \in Words : \E c \in ValueChecked : assert_equal(c, x, y) \/ assert_ptr(c, x, y)
    \/ \E x \in Words : \E c \in TruthChecks : assert_truth(c, x)
    \/ \E c \in StringChecks : \E x \in Arrays : assert_string(c, x)
    \/ \E c \in MemoryChecks : \E x \in Values(c, array) : assert_memory(c, x)
    \/ \E l, r \in Floats : \E e \in Tolerances :
          \/ assert_float_equal(l, r, Fin(e)) \/ assert_float_not_equal(l, r, Fin(e))
          \/ assert_double_equal(l, r, Fin(e)) \/ assert_double_not_equal(l, r, Fin(e))

Spec == Init /\ [][Next]_vars

-----------------------------------------------------------------------------
(* The properties.                                                         *)

\* The check that was made last, if it compared with integers or bytes.
Made == "data" \in DOMAIN result

\* expect_*_set() and expect_memory() check against what the array held when
\* they were called, whatever the test does to it before the mock is called.
ChecksWhatWasGiven ==
    (Made /\ result.check \in ArrayChecks \cup MemoryChecks) => result.data = given

\* A set check accepts exactly the members of its set, or exactly the others,
\* also when the array holds an element twice.
SetIsMembership ==
    (Made /\ result.check \in ArrayChecks) =>
        (result.ok <=> ((result.value \in ToSet(result.data)) <=> result.check = "in_set"))

\* Every check and its negation, which are coded separately, disagree on every
\* value: none accepts or refuses both.
Negations == {<<"value", "not_value">>, <<"string", "not_string">>, <<"true", "false">>,
              <<"in_range", "not_in_range">>, <<"int_in_range", "int_not_in_range">>,
              <<"memory", "not_memory">>}
NegationsDisagree ==
    Made => \A p \in Negations :
        result.check \in {p[1], p[2]} =>
            (Accepts(p[1], result.value, result.data)
                # Accepts(p[2], result.value, result.data))

\* expect_in_range() compares without sign.  For signed parameters it still
\* accepts the right values as long as the ends of the range have one sign.
RangeOfOneSign ==
    (/\ Made /\ result.check = "in_range"
     /\ Signed(result.data[1]) <= Signed(result.data[2])
     /\ (Signed(result.data[1]) < 0) = (Signed(result.data[2]) < 0))
    => (result.ok <=> Signed(result.value) \in Signed(result.data[1]) .. Signed(result.data[2]))

\* A check accepts what its name says, whether it was stored by expect_*() or
\* asserted: membership of sets, the range, and the opposite of its negation.
AcceptsWhatItSays == SetIsMembership /\ NegationsDisagree /\ RangeOfOneSign

\* The bytes of a buffer as a reader takes them from the dump: a line is printed
\* with one of the marks, or is zero because it was left out.
ReadBack(dump, marks, i) ==
    LET n    == (i - 1) \div BlockSize
        hits == {p \in ToSet(dump) : p[1] \in marks /\ p[2] = n}
    IN  IF hits = {} THEN {0} ELSE {p[3][i - n * BlockSize] : p \in hits}

\* The dump printed for unequal memory is enough to rebuild both buffers: no
\* line that is left out as zero hides a byte, equal lines are printed as such,
\* no line is printed behind the last byte, and zeros are left out only where the
\* dump says so.
DumpTellsAll ==
    (Made /\ result.check = "memory" /\ ~ result.ok) =>
        /\ \A p \in ToSet(result.dump) : p = SkippingZeros \/ p[3] # <<>>
        /\ \A i \in DOMAIN result.data :
              /\ ReadBack(result.dump, {"minus", "equal"}, i) = {result.value[i]}
              /\ ReadBack(result.dump, {"plus", "equal"}, i) = {result.data[i]}
        /\ (\E n \in DumpLines(Len(result.data)) : \A p \in ToSet(result.dump) : p[2] # n)
              <=> SkippingZeros \in ToSet(result.dump)

\* Finite floats are equal for assert_float_equal() and assert_double_equal(), and
\* only then not unequal, if they are no further apart than epsilon or than the
\* relative rounding error of the larger one, in whichever order they are given.
FloatIsClose ==
    (/\ result.check \in {"float", "not_float", "double", "not_double"}
     /\ IsFinite(result.left) /\ IsFinite(result.right)) =>
        LET l == result.left r == result.right
            Abs(i) == Max({i, -i})
            Distance == Abs(l[2] - r[2])
            close == \/ Distance <= result.epsilon[2]
                     \/ Distance * EpsilonInverse <= Max({Abs(l[2]), Abs(r[2])})
        IN  (result.ok <=> result.check \in {"float", "double"}) <=> close
=============================================================================
