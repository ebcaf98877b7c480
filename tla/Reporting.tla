------------------------------ MODULE Reporting ------------------------------
(***************************************************************************)
(* What cmocka reports: the choice of the output formats, the error        *)
(* messages of tests and fixtures on their way into the reports, the lines *)
(* printed for a group in each format, and the files of the XML reports.   *)
(* How the functions of a group come to their ends is the subject of       *)
(* TestRunner; here a function has some outcome and some messages.         *)
(***************************************************************************)
EXTENDS Integers, FiniteSets, SequencesExt

CONSTANTS
    GroupNames,
    MaxTests,       \* bound: the tests of the first, second, ... group
    MaxNotes,       \* bound: messages of functions that passed, in one error message
    Outputs         \* sets of formats that are configured

Formats == {"STANDARD", "SUBUNIT", "TAP", "XML"}

ASSUME ReportingAssumption ==
    /\ MaxTests \in Seq(Nat) /\ MaxNotes \in Nat
    /\ \A o \in Outputs : o # {} /\ o \subseteq Formats

\* The name of a group also stands for its file, and is none of the streams.
ASSUME NamesAssumption == GroupNames \cap {"stdout", "stderr"} = {}

VARIABLES
    messageEnv,         \* CMOCKA_MESSAGE_OUTPUT: the formats it names, or NoEnv
    xmlEnv,             \* CMOCKA_XML_FILE: "unset", "fixed", or "per_group" (%g)
    unwritable,         \* files that cannot be created or written
    global_msg_output,
    env_checked,
    requested,          \* history: the formats last asked for after the first group
    cm_error_message,   \* a sequence of pieces, <<>> if there is none
    group,              \* the group that runs, or ran last
    results,            \* the tests it ran: <<status, error_message>>
    lines,              \* what was printed for it, in all formats
    version_printed,    \* of TAP
    xml_printed, file_append,
    files               \* the XML reports in each file and stream

environment == <<messageEnv, xmlEnv, unwritable>>
outputVars  == <<global_msg_output, env_checked, requested>>
xmlVars     == <<xml_printed, file_append, files>>
vars == <<environment, outputVars, cm_error_message, group, results, lines,
          version_printed, xmlVars>>

\* Unset, empty or too long; a list without a known name is {}.
NoEnv == {"none"}

\* The file of a report, and the streams that may take its place.
FileNames == GroupNames \cup {"fixed"}
Streams   == {"stdout", "stderr"}
Absent    == <<<<"absent", 0>>>>
Old       == <<<<"old", 0>>>>

\* Where a message comes from: group, kind of function, number, and style.
Piece(kind, style) == <<group.number, kind, Len(results), style>>

NoGroup == [number |-> 0, name |-> "none", tests |-> 0, stage |-> "idle",
            setup |-> TRUE, teardown |-> TRUE, returned |-> 0]

Init ==
    /\ messageEnv \in {NoEnv, {}} \cup Outputs
    /\ xmlEnv \in {"unset", "fixed", "per_group"}
    /\ \E used \in {IF xmlEnv = "unset" THEN {}
                    ELSE IF xmlEnv = "fixed" THEN {"fixed"} ELSE GroupNames} :
          /\ unwritable \in SUBSET used
          /\ \E old \in SUBSET used :
                files = [f \in FileNames \cup Streams |->
                           IF f \in old THEN Old ELSE IF f \in Streams THEN <<>> ELSE Absent]
    /\ global_msg_output = {"STANDARD"} /\ env_checked = FALSE /\ requested = NoEnv
    /\ cm_error_message = <<>> /\ group = NoGroup /\ results = <<>> /\ lines = <<>>
    /\ version_printed = FALSE /\ xml_printed = FALSE /\ file_append = FALSE

-----------------------------------------------------------------------------
(* The choice of the formats.                                              *)

cmocka_set_message_output(o) ==
    /\ group.stage = "idle" /\ group.number < Len(MaxTests)
    /\ global_msg_output' = o
    /\ requested' = IF group.number > 0 THEN o ELSE NoEnv
    /\ UNCHANGED <<environment, env_checked, cm_error_message, group, results, lines,
                   version_printed, xmlVars>>

\* Plausible slip: the environment replaces the default format only.
cm_get_output_Default ==
    IF env_checked \/ messageEnv \in {NoEnv, {}} \/ global_msg_output # {"STANDARD"}
    THEN global_msg_output ELSE messageEnv

\* What cm_get_output() returns.
cm_get_output ==
    IF env_checked \/ messageEnv \in {NoEnv, {}} THEN global_msg_output ELSE messageEnv

\* The environment is read once, by the first call of cm_get_output() that finds it.
EnvChecked == env_checked \/ messageEnv # NoEnv

-----------------------------------------------------------------------------
(* Lines.  A line is <<format, kind, number, message>>.                    *)

If(condition, line) == IF condition THEN <<line>> ELSE <<>>

\* Only failures and errors show the message.
Shown(kind, message) == IF kind \in {"failure", "error"} THEN message ELSE <<>>

cmprintf_standard(kind, message) == <<<<"STANDARD", kind, 0, Shown(kind, message)>>>>

cmprintf_subunit(kind, message) == <<<<"SUBUNIT", kind, 0, Shown(kind, message)>>>>

\* TAP has no line for the start of a test.
cmprintf_tap(kind, number, message) ==
    If(kind # "start", <<"TAP", kind, number, Shown(kind, message)>>)

\* The lines, if the format is one of those configured.
In(format, text) == IF format \in cm_get_output THEN text ELSE <<>>

cmprintf(kind, number, message) ==
    In("STANDARD", cmprintf_standard(kind, message))
      \o In("SUBUNIT", cmprintf_subunit(kind, message))
      \o In("TAP", cmprintf_tap(kind, number, message))

cmprintf_group_start_standard(n) == <<<<"STANDARD", "running", n, <<>>>>>>

cmprintf_group_start_tap(n) ==
    If(~ version_printed, <<"TAP", "version", 13, <<>>>>) \o <<<<"TAP", "plan", n, <<>>>>>>

cmprintf_group_start(n) ==
    In("STANDARD", cmprintf_group_start_standard(n)) \o In("TAP", cmprintf_group_start_tap(n))

Total(status) == Cardinality({i \in DOMAIN results : results[i][1] = status})

\* Plausible slip: a failed group setup is not an error.
TotalErrors_TestsOnly == Total("ERROR")

TotalErrors == Total("ERROR") + IF group.setup THEN 0 ELSE 1

\* The lines for the tests with this status among the first i.
Listed(status, kind) ==
    LET listed[i \in 0 .. Len(results)] ==
            IF i = 0 THEN <<>>
            ELSE listed[i - 1] \o If(results[i][1] = status, <<"STANDARD", kind, i, <<>>>>)
    IN  listed[Len(results)]

\* Tests that could not be run are counted, and listed nowhere.
cmprintf_group_finish_standard ==
    <<<<"STANDARD", "run", Len(results), <<>>>>, <<"STANDARD", "passed", Total("PASSED"), <<>>>>>>
      \o (IF Total("SKIPPED") > 0
          THEN Listed("SKIPPED", "listed_skipped")
                 \o <<<<"STANDARD", "total_skipped", Total("SKIPPED"), <<>>>>>>
          ELSE <<>>)
      \o (IF Total("FAILED") > 0
          THEN Listed("FAILED", "listed_failed")
                 \o <<<<"STANDARD", "total_failed", Total("FAILED") + TotalErrors, <<>>>>>>
          ELSE <<>>)

cmprintf_group_finish_tap ==
    <<<<"TAP", IF Total("PASSED") + Total("SKIPPED") = Len(results)
               THEN "group_ok" ELSE "group_not_ok", 0, <<>>>>>>

\* The suite with its attributes, and its test cases.
XmlSuite ==
    <<<<"XML", "tests", Len(results), <<>>>>, <<"XML", "failures", Total("FAILED"), <<>>>>,
      <<"XML", "errors", TotalErrors, <<>>>>, <<"XML", "skipped", Total("SKIPPED"), <<>>>>>>
      \o [i \in DOMAIN results |->
            IF results[i][1] \in {"ERROR", "FAILED"} THEN <<"XML", "failure", i, results[i][2]>>
            ELSE <<"XML", IF results[i][1] = "SKIPPED" THEN "skip" ELSE "success", i, <<>>>>]

cmprintf_group_finish ==
    In("STANDARD", cmprintf_group_finish_standard)
      \o In("TAP", cmprintf_group_finish_tap) \o In("XML", XmlSuite)

-----------------------------------------------------------------------------
(* The file of an XML report.                                              *)

XmlFile == IF xmlEnv = "per_group" THEN group.name ELSE "fixed"

Created  == xmlEnv # "unset" /\ XmlFile \notin unwritable /\ files[XmlFile] = Absent
Appended == xmlEnv # "unset" /\ XmlFile \notin unwritable /\ files[XmlFile] # Absent /\ file_append

Destination == IF Created \/ Appended THEN XmlFile
               ELSE IF xmlEnv = "unset" THEN "stdout" ELSE "stderr"

\* Plausible slip: the header of one file counts for all.
PrintedAfter_AnyHeader == TRUE

\* xml_printed when the report is written.
PrintedAfter == xml_printed \/ Appended \/ ~ Created

\* `file_opened && !file_append' never holds: a file is opened to be created,
\* which sets file_append, or because file_append is set.
cmprintf_group_finish_xml ==
    LET before == IF files[Destination] = Absent THEN <<>> ELSE files[Destination]
        header == If(~ (xml_printed \/ Appended), <<"header", 0>>)
    IN  /\ files' = [files EXCEPT ![Destination] =
                        before \o header \o <<<<"suite", group.number>>>>]
        /\ xml_printed' = PrintedAfter
        /\ file_append' = (file_append \/ Created)

-----------------------------------------------------------------------------
(* A group.                                                                *)

\* _fail() prints its location in the style of each kind of format.
FailText(kind) ==
    If("STANDARD" \in cm_get_output, Piece(kind, "standard"))
      \o If(cm_get_output \cap {"SUBUNIT", "TAP", "XML"} # {}, Piece(kind, "plain"))

\* A function may print what it likes and pass, or fail with or without _fail().
Note(kind) == <<Piece(kind, "note")>>
PassingTexts(kind) == {<<>>} \cup IF Len(cm_error_message) < MaxNotes THEN {Note(kind)} ELSE {}
FailingTexts(kind) == {<<>>, FailText(kind)}

\* The outcomes of a test with its fixtures.
Outcomes ==
    {<<"PASSED", text>> : text \in PassingTexts("test")}
      \cup {<<"FAILED", FailText("test")>>, <<"FAILED", Note("test")>>}
      \cup {<<"SKIPPED", Note("test")>>}
      \cup {<<"ERROR", text \o <<Piece("test", "fixture_failed")>>>> :
               text \in FailingTexts("test")}

group_start(name, n) ==
    /\ group.stage = "idle" /\ group.number < Len(MaxTests)
    /\ n <= MaxTests[group.number + 1]
    /\ group' = [NoGroup EXCEPT !.number = group.number + 1, !.name = name, !.tests = n,
                                !.stage = "setup"]
    /\ lines' = cmprintf_group_start(n)
    /\ version_printed' = (version_printed \/ "TAP" \in cm_get_output)
    /\ global_msg_output' = cm_get_output
    /\ env_checked' = EnvChecked
    /\ UNCHANGED <<environment, requested, cm_error_message, results, xmlVars>>

\* The message of a group fixture goes to stderr, whatever the formats.
FixtureFailed(text) ==
    /\ lines' = lines \o If(cm_error_message \o text # <<>>,
                            <<"stderr", "message", 0, cm_error_message \o text>>)
                      \o cmprintf("error", 0, <<>>)
    /\ cm_error_message' = <<>>

group_setup_passes(text) ==
    /\ group.stage = "setup"
    /\ group' = [group EXCEPT !.stage = "tests"]
    /\ cm_error_message' = cm_error_message \o text
    /\ UNCHANGED <<environment, outputVars, results, lines, version_printed, xmlVars>>

group_setup_fails(text) ==
    /\ group.stage = "setup"
    /\ group' = [group EXCEPT !.stage = "teardown", !.setup = FALSE]
    /\ FixtureFailed(text)
    /\ UNCHANGED <<environment, outputVars, results, version_printed, xmlVars>>

LineOf(status) ==
    CASE status = "PASSED" -> "success" [] status = "FAILED" -> "failure"
      [] status = "SKIPPED" -> "skip"   [] status = "ERROR"  -> "error"

\* Plausible slip: tests are numbered from 0.
TestNumber_FromZero == Len(results)

TestNumber == Len(results) + 1

\* Plausible slip: the message is copied, and kept for the next test.
MessageAfter_Kept(message) == message

\* cm_error_message after it was handed over to the test.
MessageAfter(message) == <<>>

run_one_tests(outcome) ==
    /\ group.stage = "tests" /\ Len(results) < group.tests
    /\ LET message == cm_error_message \o outcome[2] IN
       /\ results' = Append(results, <<outcome[1], message>>)
       /\ lines' = lines \o cmprintf("start", TestNumber, <<>>)
                         \o cmprintf(LineOf(outcome[1]), TestNumber, message)
       /\ cm_error_message' = MessageAfter(message)
    /\ UNCHANGED <<environment, outputVars, group, version_printed, xmlVars>>

TestsDone == group.stage = "teardown" \/ (group.stage = "tests" /\ Len(results) = group.tests)

group_teardown_passes(text) ==
    /\ TestsDone
    /\ group' = [group EXCEPT !.stage = "finish"]
    /\ cm_error_message' = cm_error_message \o text
    /\ UNCHANGED <<environment, outputVars, results, lines, version_printed, xmlVars>>

group_teardown_fails(text) ==
    /\ TestsDone
    /\ group' = [group EXCEPT !.stage = "finish", !.teardown = FALSE]
    /\ FixtureFailed(text)
    /\ UNCHANGED <<environment, outputVars, results, version_printed, xmlVars>>

\* The reports are printed; then blocks that are still allocated end the
\* process, and the message about them is never printed.
group_finish(leaked) ==
    /\ group.stage = "finish"
    /\ lines' = lines \o cmprintf_group_finish
    /\ IF "XML" \in cm_get_output THEN cmprintf_group_finish_xml ELSE UNCHANGED xmlVars
    /\ group' = [group EXCEPT !.stage = IF leaked THEN "exited" ELSE "returned",
                              !.returned = Total("FAILED") + TotalErrors]
    /\ cm_error_message' = IF leaked THEN Append(cm_error_message, Piece("leak", "note"))
                           ELSE cm_error_message
    /\ UNCHANGED <<environment, outputVars, results, version_printed>>

\* The program goes on after the group; its report is history.
group_returned ==
    /\ group.stage = "returned"
    /\ group' = [NoGroup EXCEPT !.number = group.number]
    /\ results' = <<>> /\ lines' = <<>>
    /\ UNCHANGED <<environment, outputVars, cm_error_message, version_printed, xmlVars>>

\* The process is over.
program_ends ==
    /\ group.stage = "exited" \/ (group.stage = "idle" /\ group.number = Len(MaxTests))
    /\ UNCHANGED vars

Next ==
    \/ \E o \in Outputs : cmocka_set_message_output(o)
    \/ \E name \in GroupNames, n \in 0 .. Max(ToSet(MaxTests)) : group_start(name, n)
    \/ \E text \in PassingTexts("setup") : group_setup_passes(text)
    \/ \E text \in FailingTexts("setup") : group_setup_fails(text)
    \/ \E outcome \in Outcomes : run_one_tests(outcome)
    \/ \E text \in PassingTexts("teardown") : group_teardown_passes(text)
    \/ \E text \in FailingTexts("teardown") : group_teardown_fails(text)
    \/ \E leaked \in BOOLEAN : group_finish(leaked)
    \/ group_returned
    \/ program_ends

Spec == Init /\ [][Next]_vars

-----------------------------------------------------------------------------
(* The properties.                                                         *)

Reported == group.stage \in {"returned", "exited"}

\* The positions of the lines of format f that are of one of the kinds.
LinesOf(f, kinds) == {k \in DOMAIN lines : lines[k][1] = f /\ lines[k][2] \in kinds}

\* The number in the line of this format and kind.
NumberIn(f, kind) == lines[CHOOSE k \in LinesOf(f, {kind}) : TRUE][3]

\* The message of a test is made of what the test and its fixtures printed, and
\* every test that did not pass has some.  Only the first test of a group may
\* also show what group fixtures printed that passed, in this or in an earlier
\* group.
MessagesAreOwn ==
    \A i \in DOMAIN results :
        LET Own(p) == p[1] = group.number /\ p[2] = "test" /\ p[3] = i - 1
            Left(p) == i = 1 /\ p[2] \in {"setup", "teardown"} /\ p[4] = "note"
        IN  /\ \A p \in ToSet(results[i][2]) : Own(p) \/ Left(p)
            /\ results[i][1] # "PASSED" => \E p \in ToSet(results[i][2]) : Own(p)

\* A TAP report keeps what it announces: the plan counts the tests, each of them
\* has one line, numbered from 1 in order, unless the group setup failed and
\* none has; number 0 is left to the group fixtures.  The first report has a
\* version, and a version comes first, before any plan.
TapKeepsItsPlan ==
    (Reported /\ "TAP" \in global_msg_output) =>
        LET plans    == LinesOf("TAP", {"plan"})
            versions == LinesOf("TAP", {"version"})
            numbered == {k \in LinesOf("TAP", {"success", "failure", "skip", "error"}) :
                            lines[k][3] > 0}
        IN  /\ {lines[k][3] : k \in numbered} = 1 .. IF group.setup THEN group.tests ELSE 0
            /\ \A k, l \in numbered : k < l => lines[k][3] < lines[l][3]
            /\ Cardinality(plans) = 1 /\ NumberIn("TAP", "plan") = group.tests
            /\ group.number = 1 => versions # {}
            /\ \A k \in versions, l \in DOMAIN lines : lines[l][1] = "TAP" => k <= l

\* All formats tell the same about a group as the value it returns.  The lines of
\* failures and errors are as many as it returns, and one more for a group
\* teardown that failed, which the value does not count.  The attributes of the
\* XML suite agree with its test cases and with the value, except that a failed
\* group setup is an error without a test case.  The TAP summary says "not_ok"
\* if a test failed, not if the group setup did.  The standard summary counts
\* all failures, and is printed only if a test failed.
VerdictsAgree ==
    Reported =>
        LET Number(f, kinds) == Cardinality(LinesOf(f, kinds))
            Attribute(name)  == NumberIn("XML", name)
            summary     == LinesOf("STANDARD", {"total_failed"})
            setupFailed == IF group.setup THEN 0 ELSE 1
        IN  /\ \A f \in global_msg_output \cap {"STANDARD", "SUBUNIT", "TAP"} :
                  Number(f, {"failure", "error"})
                      = group.returned + IF group.teardown THEN 0 ELSE 1
            /\ "XML" \in global_msg_output =>
                  /\ Attribute("failures") + Attribute("errors") = group.returned
                  /\ Number("XML", {"failure"}) + setupFailed = group.returned
                  /\ Number("XML", {"skip"}) = Attribute("skipped")
                  /\ Number("XML", {"failure", "skip", "success"}) = Attribute("tests")
            /\ "TAP" \in global_msg_output =>
                  (LinesOf("TAP", {"group_ok"}) # {} <=> group.returned = setupFailed)
            /\ \A k \in summary : lines[k][3] = group.returned
            /\ "STANDARD" \in global_msg_output =>
                  (summary = {} <=> \A i \in DOMAIN results : results[i][1] # "FAILED")

\* A report was written to file f at position j, and was not the first there or
\* the place was a stream.
Follows(f, j) == f \in Streams \/ (j > 1 /\ files[f][j - 1][1] # "header")

\* An XML header is only written at the start of a file, and to the streams once.
\* A file that cmocka creates lacks it only after an earlier report was appended
\* to a file or went to a stream.
XmlHeaderFirst ==
    /\ \A f \in FileNames : \A j \in DOMAIN files[f] :
          files[f][j][1] = "header" => j = 1
    /\ \A f, g \in Streams : \A j \in DOMAIN files[f], k \in DOMAIN files[g] :
          files[f][j][1] = "header" /\ files[g][k][1] = "header" => f = g /\ j = k
    /\ \A f \in FileNames :
          files[f][1][1] = "suite" =>
              \E e \in DOMAIN files : \E j \in DOMAIN files[e] :
                  /\ files[e][j][1] = "suite" /\ files[e][j][2] < files[f][1][2]
                  /\ Follows(e, j)

\* The formats named in CMOCKA_MESSAGE_OUTPUT replace whatever was set before the
\* first group, in that group and all that follow, as long as the program does not
\* call cmocka_set_message_output() between groups.
EnvironmentFirst ==
    (group.stage # "idle" /\ messageEnv \notin {NoEnv, {}} /\ requested = NoEnv) =>
        global_msg_output = messageEnv

\* A file named by CMOCKA_XML_FILE that existed before the tests is left alone.
\* Violated: once cmocka has created one file, it appends to any other.
OldFilesUntouched ==
    \A f \in FileNames : files[f][1] = Old[1] => files[f] = Old
=============================================================================
