--------------------------- MODULE Reporting_proofs ---------------------------
(***************************************************************************)
(* The reports, for any groups, numbers of tests and choices of formats:   *)
(* the environment decides over the formats, a message is reported with    *)
(* the test that printed it, an XML header is at the start of a file, a    *)
(* TAP report keeps its plan, and all formats agree with the value that    *)
(* the group returns.                                                      *)
(***************************************************************************)
EXTENDS Reporting, SequenceTheorems, FiniteSetTheorems, FunctionTheorems,
        NaturalsInduction, WellFoundedInduction, TLAPS

Stages == {"idle", "setup", "tests", "teardown", "finish", "returned", "exited"}

Fields == {"number", "name", "tests", "stage", "setup", "teardown", "returned"}

\* The group that runs is one of the program's.
GroupInv ==
    /\ DOMAIN group = Fields
    /\ group.number \in Nat
    /\ group.stage \in Stages
    /\ group.stage # "idle" => group.name \in GroupNames /\ group.number > 0

-----------------------------------------------------------------------------
(* The choice of the formats.                                              *)

Named == messageEnv \notin {NoEnv, {}}

\* From the first group on the environment has been read.
FormatInv ==
    /\ messageEnv \in {NoEnv, {}} \cup Outputs
    /\ global_msg_output \in {{"STANDARD"}} \cup Outputs
    /\ requested \in {NoEnv} \cup Outputs
    /\ env_checked \in BOOLEAN
    /\ group.number = 0 => requested = NoEnv /\ ~ env_checked
    /\ (group.number > 0 /\ Named) =>
          /\ env_checked
          /\ global_msg_output = IF requested = NoEnv THEN messageEnv ELSE requested

-----------------------------------------------------------------------------
(* Messages.                                                               *)

Kinds    == {"setup", "test", "teardown", "leak"}
Styles   == {"standard", "plain", "note", "fixture_failed"}
Pieces   == Nat \X Kinds \X Nat \X Styles
Statuses == {"PASSED", "FAILED", "SKIPPED", "ERROR"}

\* A message of a group fixture that passed.
IsLeft(p) == p[2] \in {"setup", "teardown"} /\ p[4] = "note"

\* Between two tests there is no message; before the first one there may be what
\* fixtures left that passed.
MessageInv ==
    /\ cm_error_message \in Seq(Pieces)
    /\ results \in Seq(Statuses \X Seq(Pieces))
    /\ group.stage \in {"idle", "setup"} => results = <<>>
    /\ (group.stage = "tests" /\ results # <<>>) => cm_error_message = <<>>
    /\ group.stage # "exited" => \A p \in ToSet(cm_error_message) : IsLeft(p)
    /\ MessagesAreOwn

-----------------------------------------------------------------------------
(* XML files.                                                              *)

Entries == {"absent", "old", "header", "suite"} \X Nat
Places  == FileNames \cup Streams

\* A report at position j of place f of the files fs was not the first in a
\* file, or went to a stream.
FollowsIn(fs, f, j) == f \in Streams \/ (j > 1 /\ fs[f][j - 1][1] # "header")

\* An earlier report than the n-th is one of those.
ExcusedIn(fs, n) ==
    \E e \in Places : \E j \in DOMAIN fs[e] :
        fs[e][j][1] = "suite" /\ fs[e][j][2] < n /\ FollowsIn(fs, e, j)

\* The only header in all streams is at position j of place f.
OnlyHeader(fs, f, j) ==
    \A g \in Streams : \A k \in DOMAIN fs[g] :
        fs[g][k][1] = "header" => g = f /\ k = j

\* The files fs when n is the number of the next report: printed says whether it
\* goes without a header.
SoundFiles(fs, printed, n) ==
    /\ fs \in [Places -> Seq(Entries)]
    /\ \A f \in FileNames : Len(fs[f]) > 0 /\ fs[f][Len(fs[f])][1] # "header"
    /\ \A f \in FileNames : \A j \in DOMAIN fs[f] : fs[f][j][1] = "header" => j = 1
    /\ \A f \in Streams : \A j \in DOMAIN fs[f] :
          fs[f][j][1] = "header" => printed /\ OnlyHeader(fs, f, j)
    /\ printed => ExcusedIn(fs, n)
    /\ \A f \in FileNames : fs[f][1][1] = "suite" => ExcusedIn(fs, fs[f][1][2])

\* The number of the next report.
NextReport ==
    IF group.stage \in {"idle", "returned", "exited"} THEN group.number + 1
    ELSE group.number

FilesInv ==
    /\ xmlEnv \in {"unset", "fixed", "per_group"}
    /\ xml_printed \in BOOLEAN
    /\ SoundFiles(files, xml_printed, NextReport)

ReportInv == GroupInv /\ FormatInv /\ MessageInv /\ FilesInv

-----------------------------------------------------------------------------
(* The group.                                                              *)

\* A step of the group that runs: it goes on to stage st.
Moves(st) ==
    /\ group.stage # "idle"
    /\ group'.stage = st
    /\ group'.number = group.number

\* After its setup function the group goes on to its tests, or to its teardown.
LEMMA SetupMoves ==
    ASSUME GroupInv, NEW text, group_setup_passes(text) \/ group_setup_fails(text)
    PROVE  /\ GroupInv' /\ group.stage = "setup"
           /\ group_setup_passes(text) => Moves("tests")
           /\ group_setup_fails(text) => Moves("teardown")
<1>1. CASE group_setup_passes(text)
  <2>1. group.stage = "setup" /\ group' = [group EXCEPT !.stage = "tests"]
    BY <1>1 DEF group_setup_passes
  <2>2. /\ DOMAIN group' = Fields /\ group'.stage = "tests"
        /\ group'.number = group.number /\ group'.name = group.name
    BY <2>1 DEF GroupInv, Fields
  <2>3. ~ group_setup_fails(text)
    BY <2>2 DEF group_setup_fails, GroupInv, Fields
  <2> QED
    BY <2>1, <2>2, <2>3 DEF GroupInv, Moves, Stages
<1>2. CASE group_setup_fails(text)
  <2>1. /\ group.stage = "setup"
        /\ group' = [group EXCEPT !.stage = "teardown", !.setup = FALSE]
    BY <1>2 DEF group_setup_fails
  <2>2. /\ DOMAIN group' = Fields /\ group'.stage = "teardown"
        /\ group'.number = group.number /\ group'.name = group.name
    BY <2>1 DEF GroupInv, Fields
  <2>3. ~ group_setup_passes(text)
    BY <2>2 DEF group_setup_passes, GroupInv, Fields
  <2> QED
    BY <2>1, <2>2, <2>3 DEF GroupInv, Moves, Stages
<1> QED
  BY <1>1, <1>2

\* The teardown function follows the last test, or a group setup that failed.
LEMMA TeardownMoves ==
    ASSUME GroupInv, NEW text, group_teardown_passes(text) \/ group_teardown_fails(text)
    PROVE  GroupInv' /\ Moves("finish") /\ group.stage \in {"tests", "teardown"}
<1>1. group.stage \in {"tests", "teardown"}
  BY DEF group_teardown_passes, group_teardown_fails, TestsDone
<1>2. \/ group' = [group EXCEPT !.stage = "finish"]
      \/ group' = [group EXCEPT !.stage = "finish", !.teardown = FALSE]
  BY DEF group_teardown_passes, group_teardown_fails
<1>3. /\ DOMAIN group' = Fields /\ group'.stage = "finish"
      /\ group'.number = group.number /\ group'.name = group.name
  BY <1>2 DEF GroupInv, Fields
<1> QED
  BY <1>1, <1>3 DEF GroupInv, Moves, Stages

\* The report ends the group, and a leak the process.
LEMMA FinishMoves ==
    ASSUME GroupInv, NEW leaked \in BOOLEAN, group_finish(leaked)
    PROVE  /\ GroupInv' /\ group.stage = "finish"
           /\ Moves(IF leaked THEN "exited" ELSE "returned")
<1>1. PICK st, r : /\ st = (IF leaked THEN "exited" ELSE "returned")
                   /\ r = Total("FAILED") + TotalErrors
  OBVIOUS
<1>2. /\ group.stage = "finish"
      /\ group' = [group EXCEPT !.stage = st, !.returned = r]
  BY <1>1 DEF group_finish
<1>3. /\ DOMAIN group' = Fields /\ group'.stage = st
      /\ group'.number = group.number /\ group'.name = group.name
  BY <1>2 DEF GroupInv, Fields
<1>4. st \in {"exited", "returned"}
  BY <1>1
<1> QED
  BY <1>1, <1>2, <1>3, <1>4 DEF GroupInv, Moves, Stages

\* A group starts with its setup function, and is the next in number.
LEMMA StartMoves ==
    ASSUME GroupInv, NEW name \in GroupNames, NEW n, group_start(name, n)
    PROVE  /\ GroupInv' /\ group.stage = "idle" /\ group'.stage = "setup"
           /\ group'.number = group.number + 1
<1>1. /\ group.stage = "idle"
      /\ group' = [NoGroup EXCEPT !.number = group.number + 1, !.name = name,
                                  !.tests = n, !.stage = "setup"]
  BY DEF group_start
<1>2. DOMAIN NoGroup = Fields
  BY DEF NoGroup, Fields
<1>3. /\ DOMAIN group' = Fields /\ group'.stage = "setup"
      /\ group'.number = group.number + 1 /\ group'.name = name
  BY <1>1, <1>2 DEF Fields
<1>4. group.number \in Nat
  BY DEF GroupInv
<1> QED
  BY <1>1, <1>3, <1>4 DEF GroupInv, Stages

\* The program goes on to its next group.
LEMMA ReturnedMoves ==
    ASSUME GroupInv, group_returned
    PROVE  /\ GroupInv' /\ group.stage = "returned" /\ group'.stage = "idle"
           /\ group'.number = group.number
<1>1. group.stage = "returned" /\ group' = [NoGroup EXCEPT !.number = group.number]
  BY DEF group_returned
<1>2. DOMAIN NoGroup = Fields /\ NoGroup.stage = "idle"
  BY DEF NoGroup, Fields
<1>3. DOMAIN group' = Fields /\ group'.stage = "idle" /\ group'.number = group.number
  BY <1>1, <1>2 DEF Fields
<1> QED
  BY <1>1, <1>3 DEF GroupInv, Stages

-----------------------------------------------------------------------------
(* The formats.                                                            *)

\* A configured set of formats is never mistaken for an unset environment.
LEMMA NoEnvIsNoOutput == NoEnv \notin Outputs /\ {} \notin Outputs
  BY ReportingAssumption DEF NoEnv, Formats

\* A step that changes no format.
LEMMA FormatsKept ==
    ASSUME FormatInv, UNCHANGED <<messageEnv, global_msg_output, env_checked, requested>>,
           group'.number = group.number
    PROVE  FormatInv'
  BY DEF FormatInv, Named

\* cmocka_set_message_output replaces the formats, and is on record from the
\* first group on.
LEMMA FormatsSet ==
    ASSUME GroupInv, FormatInv, NEW o \in Outputs, cmocka_set_message_output(o)
    PROVE  FormatInv'
<1>1. /\ global_msg_output' = o
      /\ requested' = IF group.number > 0 THEN o ELSE NoEnv
      /\ messageEnv' = messageEnv /\ env_checked' = env_checked /\ group' = group
  BY DEF cmocka_set_message_output, environment
<1>2. group.number \in Nat /\ o # NoEnv
  BY NoEnvIsNoOutput DEF GroupInv
<1>3. CASE group.number = 0
  <2>1. requested' = NoEnv
    BY <1>1, <1>3
  <2> QED
    BY <1>1, <1>3, <2>1 DEF FormatInv, Named
<1>4. CASE group.number > 0
  <2>1. requested' = o
    BY <1>1, <1>4
  <2> QED
    BY <1>1, <1>2, <1>4, <2>1 DEF FormatInv, Named
<1> QED
  BY <1>2, <1>3, <1>4

\* The first group reads the environment, and the others find it read.
LEMMA FormatsStarted ==
    ASSUME GroupInv, FormatInv, NEW name \in GroupNames, NEW n, group_start(name, n)
    PROVE  FormatInv'
<1>1. /\ global_msg_output' = cm_get_output /\ env_checked' = EnvChecked
      /\ messageEnv' = messageEnv /\ requested' = requested
  BY DEF group_start, environment
<1>2. group.number \in Nat /\ group'.number = group.number + 1 /\ group'.number > 0
      /\ group'.number # 0
  BY StartMoves DEF GroupInv
<1>3. env_checked' \in BOOLEAN
  BY <1>1 DEF EnvChecked, FormatInv
<1>4. cm_get_output \in {{"STANDARD"}} \cup Outputs
  BY NoEnvIsNoOutput DEF FormatInv, cm_get_output
<1>5. ASSUME Named
      PROVE  /\ env_checked'
             /\ cm_get_output = IF requested = NoEnv THEN messageEnv ELSE requested
  <2>1. EnvChecked
    BY <1>5 DEF EnvChecked, Named
  <2>2. CASE group.number = 0
    BY <1>1, <1>5, <2>1, <2>2 DEF FormatInv, Named, cm_get_output
  <2>3. CASE group.number > 0
    BY <1>1, <1>5, <2>1, <2>3 DEF FormatInv, Named, cm_get_output
  <2> QED
    BY <1>2, <2>2, <2>3
<1>6. Named' <=> Named
  BY <1>1 DEF Named
<1> QED
  BY <1>1, <1>2, <1>3, <1>4, <1>5, <1>6 DEF FormatInv

\* Two messages joined have the pieces of both.
LEMMA JoinedPieces ==
    ASSUME NEW S, NEW s \in Seq(S), NEW t \in Seq(S)
    PROVE  s \o t \in Seq(S) /\ ToSet(s \o t) = ToSet(s) \cup ToSet(t)
<1>1. Range(s \o t) = Range(s) \cup Range(t)
  BY RangeConcatenation
<1>2. \A u : ToSet(u) = Range(u)
  BY DEF Range, ToSet
<1>3. s \o t \in Seq(S)
  BY ConcatProperties
<1> QED
  BY <1>1, <1>2, <1>3

\* One piece.
LEMMA OnePiece ==
    ASSUME NEW a, NEW S, a \in S
    PROVE  <<a>> \in Seq(S) /\ ToSet(<<a>>) = {a}
<1>1. PICK s : s = <<a>>
  OBVIOUS
<1>2. s \in Seq(S) /\ DOMAIN s = {1} /\ s[1] = a
  BY <1>1
<1>3. ToSet(s) = {a}
  BY <1>2 DEF ToSet
<1> QED
  BY <1>1, <1>2, <1>3

\* Some format is always configured, so a failure leaves a message.
LEMMA FailTextIsSome ==
    ASSUME FormatInv, NEW kind
    PROVE  /\ cm_get_output # {} /\ cm_get_output \subseteq Formats
           /\ \E style \in {"standard", "plain"} : Piece(kind, style) \in ToSet(FailText(kind))
           /\ \A p \in ToSet(FailText(kind)) :
                 \E style \in {"standard", "plain"} : p = Piece(kind, style)
<1>1. cm_get_output \in {{"STANDARD"}} \cup Outputs
  BY NoEnvIsNoOutput DEF FormatInv, cm_get_output
<1>2. cm_get_output # {} /\ cm_get_output \subseteq Formats
  BY <1>1, ReportingAssumption DEF Formats
<1>3. PICK o, a, b : /\ o = cm_get_output
                     /\ a = Piece(kind, "standard") /\ b = Piece(kind, "plain")
  OBVIOUS
<1>4. FailText(kind) = If("STANDARD" \in o, a) \o If(o \cap {"SUBUNIT", "TAP", "XML"} # {}, b)
  BY <1>3 DEF FailText
<1>5. o # {} /\ o \subseteq {"STANDARD", "SUBUNIT", "TAP", "XML"}
  BY <1>2, <1>3 DEF Formats
<1>6. CASE "STANDARD" \in o /\ o \cap {"SUBUNIT", "TAP", "XML"} # {}
  <2>1. FailText(kind) = <<a>> \o <<b>>
    BY <1>4, <1>6 DEF If
  <2>2. PICK u, v : u = <<a>> /\ v = <<b>>
    OBVIOUS
  <2>3. ToSet(FailText(kind)) = ToSet(<<a>>) \cup ToSet(<<b>>)
    <3>1. u \in Seq({a, b}) /\ v \in Seq({a, b})
      BY <2>2
    <3>2. ToSet(u \o v) = ToSet(u) \cup ToSet(v)
      BY <3>1, JoinedPieces
    <3> QED
      BY <2>1, <2>2, <3>2
  <2>4. ToSet(<<a>>) = {a} /\ ToSet(<<b>>) = {b}
    BY OnePiece
  <2> QED
    BY <1>2, <1>3, <2>3, <2>4
<1>7. CASE "STANDARD" \in o /\ o \cap {"SUBUNIT", "TAP", "XML"} = {}
  <2>1. FailText(kind) = <<a>> \o <<>>
    BY <1>4, <1>7 DEF If
  <2>2. FailText(kind) = <<a>>
    BY <2>1
  <2>3. ToSet(FailText(kind)) = {a}
    BY <2>2 DEF ToSet
  <2> QED
    BY <1>2, <1>3, <2>3
<1>8. CASE "STANDARD" \notin o
  <2>1. o \cap {"SUBUNIT", "TAP", "XML"} # {}
    BY <1>5, <1>8
  <2>2. FailText(kind) = <<>> \o <<b>>
    BY <1>4, <1>8, <2>1 DEF If
  <2>3. FailText(kind) = <<b>>
    BY <2>2
  <2>4. ToSet(FailText(kind)) = {b}
    BY <2>3 DEF ToSet
  <2> QED
    BY <1>2, <1>3, <2>4
<1> QED
  BY <1>6, <1>7, <1>8

-----------------------------------------------------------------------------
(* The messages.                                                           *)

OwnPiece(n, i, p) == p[1] = n /\ p[2] = "test" /\ p[3] = i - 1

\* The results rs of group n have messages of their own.
OwnMessages(rs, n) ==
    \A i \in DOMAIN rs :
        /\ \A p \in ToSet(rs[i][2]) : OwnPiece(n, i, p) \/ (i = 1 /\ IsLeft(p))
        /\ rs[i][1] # "PASSED" => \E p \in ToSet(rs[i][2]) : OwnPiece(n, i, p)

\* MessagesAreOwn in terms of the results and the number of the group.
LEMMA OwnMeansOwn == MessagesAreOwn <=> OwnMessages(results, group.number)
  BY DEF MessagesAreOwn, OwnMessages, OwnPiece, IsLeft

\* The same of the next state.
LEMMA OwnMeansOwnNext == MessagesAreOwn' <=> OwnMessages(results', group'.number)
  BY DEF MessagesAreOwn, OwnMessages, OwnPiece, IsLeft

\* One more test with messages of its own; the first may have others too.
LEMMA OneMoreOwn ==
    ASSUME NEW S, NEW rs \in Seq(S), NEW n, OwnMessages(rs, n), NEW x \in S,
           NEW k, k = Len(rs) + 1,
           \A p \in ToSet(x[2]) : OwnPiece(n, k, p) \/ (rs = <<>> /\ IsLeft(p)),
           x[1] # "PASSED" => \E p \in ToSet(x[2]) : OwnPiece(n, k, p)
    PROVE  OwnMessages(Append(rs, x), n)
<1>1. PICK l \in Nat : l = Len(rs) /\ DOMAIN rs = 1 .. l
  OBVIOUS
<1>2. PICK t : t = Append(rs, x)
  OBVIOUS
<1>3. /\ DOMAIN t = 1 .. l + 1 /\ t[l + 1] = x /\ \A i \in 1 .. l : t[i] = rs[i]
  BY <1>1, <1>2, AppendProperties
<1>4. rs = <<>> => k = 1
  BY <1>1
<1>5. ASSUME NEW i \in 1 .. l + 1
      PROVE  /\ \A p \in ToSet(t[i][2]) : OwnPiece(n, i, p) \/ (i = 1 /\ IsLeft(p))
             /\ t[i][1] # "PASSED" => \E p \in ToSet(t[i][2]) : OwnPiece(n, i, p)
  <2>1. CASE i \in 1 .. l
    BY <1>1, <1>3, <2>1 DEF OwnMessages
  <2>2. CASE i = k
    BY <1>1, <1>3, <1>4, <2>2
  <2> QED
    BY <1>1, <2>1, <2>2
<1>6. OwnMessages(t, n)
  BY <1>3, <1>5 DEF OwnMessages
<1> QED
  BY <1>2, <1>6

\* A piece that a function of the group prints.
LEMMA PieceType ==
    ASSUME GroupInv, MessageInv, NEW kind \in Kinds, NEW style \in Styles
    PROVE  /\ Piece(kind, style) \in Pieces
           /\ Piece(kind, style)[1] = group.number /\ Piece(kind, style)[2] = kind
           /\ Piece(kind, style)[3] = Len(results) /\ Piece(kind, style)[4] = style
<1>1. group.number \in Nat /\ Len(results) \in Nat
  <2>1. results \in Seq(Statuses \X Seq(Pieces))
    BY DEF MessageInv
  <2> QED
    BY <2>1, LenProperties DEF GroupInv
<1> QED
  BY <1>1 DEF Piece, Pieces

\* What a function that passes prints.
LEMMA PassingText ==
    ASSUME GroupInv, MessageInv, NEW kind \in Kinds, NEW text \in PassingTexts(kind)
    PROVE  /\ text \in Seq(Pieces)
           /\ \A p \in ToSet(text) : p = Piece(kind, "note")
<1>1. CASE text = <<>>
  BY <1>1 DEF ToSet
<1>2. CASE text = <<Piece(kind, "note")>>
  <2>1. Piece(kind, "note") \in Pieces
    BY PieceType DEF Styles
  <2> QED
    BY <1>2, <2>1, OnePiece
<1> QED
  BY <1>1, <1>2 DEF PassingTexts, Note

\* What a function that fails prints.
LEMMA FailingText ==
    ASSUME GroupInv, FormatInv, MessageInv, NEW kind \in Kinds
    PROVE  FailText(kind) \in Seq(Pieces)
<1>1. PICK a, b : a = Piece(kind, "standard") /\ b = Piece(kind, "plain")
  OBVIOUS
<1>2. a \in Pieces /\ b \in Pieces
  BY <1>1, PieceType DEF Styles
<1>3. <<a>> \in Seq(Pieces) /\ <<b>> \in Seq(Pieces) /\ <<>> \in Seq(Pieces)
  BY <1>2
<1>4. \E u, w \in Seq(Pieces) : FailText(kind) = u \o w
  BY <1>1, <1>3 DEF FailText, If
<1> QED
  BY <1>4, ConcatProperties

\* What a test and its fixtures print: a test that does not pass prints something.
LEMMA OutcomeText ==
    ASSUME GroupInv, FormatInv, MessageInv, NEW outcome \in Outcomes
    PROVE  /\ outcome[1] \in Statuses /\ outcome[2] \in Seq(Pieces)
           /\ \A p \in ToSet(outcome[2]) : \E style \in Styles : p = Piece("test", style)
           /\ outcome[1] # "PASSED" =>
                 \E p \in ToSet(outcome[2]) : \E style \in Styles : p = Piece("test", style)
<1>1. PICK fail : fail = FailText("test")
  OBVIOUS
<1>2. /\ fail \in Seq(Pieces)
      /\ \E style \in Styles : Piece("test", style) \in ToSet(fail)
      /\ \A p \in ToSet(fail) : \E style \in Styles : p = Piece("test", style)
  <2>1. fail \in Seq(Pieces)
    BY <1>1, FailingText DEF Kinds
  <2>2. /\ \E style \in {"standard", "plain"} : Piece("test", style) \in ToSet(fail)
        /\ \A p \in ToSet(fail) :
              \E style \in {"standard", "plain"} : p = Piece("test", style)
    BY <1>1, FailTextIsSome
  <2> QED
    BY <2>1, <2>2 DEF Styles
<1>3. PICK note, last : note = Note("test") /\ last = <<Piece("test", "fixture_failed")>>
  OBVIOUS
<1>4. note \in Seq(Pieces) /\ ToSet(note) = {Piece("test", "note")}
  <2>1. Piece("test", "note") \in Pieces
    BY PieceType DEF Kinds, Styles
  <2> QED
    BY <1>3, <2>1, OnePiece DEF Note
<1>5. last \in Seq(Pieces) /\ ToSet(last) = {Piece("test", "fixture_failed")}
  <2>1. Piece("test", "fixture_failed") \in Pieces
    BY PieceType DEF Kinds, Styles
  <2> QED
    BY <1>3, <2>1, OnePiece
<1>6. CASE \E text \in PassingTexts("test") : outcome = <<"PASSED", text>>
  <2>1. PICK text \in PassingTexts("test") : outcome = <<"PASSED", text>>
    BY <1>6
  <2>2. text \in Seq(Pieces) /\ \A p \in ToSet(text) : p = Piece("test", "note")
    BY PassingText DEF Kinds
  <2>3. outcome[1] = "PASSED" /\ outcome[2] = text
    BY <2>1
  <2> QED
    BY <2>2, <2>3 DEF Statuses, Styles
<1>7. CASE outcome = <<"FAILED", fail>>
  <2>1. outcome[1] = "FAILED" /\ outcome[2] = fail
    BY <1>7
  <2> QED
    BY <1>2, <2>1 DEF Statuses
<1>8. CASE outcome = <<"FAILED", note>> \/ outcome = <<"SKIPPED", note>>
  <2>1. outcome[1] \in Statuses /\ outcome[2] = note
    BY <1>8 DEF Statuses
  <2> QED
    BY <1>4, <2>1 DEF Styles
<1>9. CASE \E text \in FailingTexts("test") : outcome = <<"ERROR", text \o last>>
  <2>1. PICK text \in FailingTexts("test") : outcome = <<"ERROR", text \o last>>
    BY <1>9
  <2>2. outcome[1] = "ERROR" /\ outcome[2] = text \o last
    BY <2>1
  <2>3. text = <<>> \/ text = fail
    BY <1>1 DEF FailingTexts
  <2>4. /\ text \in Seq(Pieces)
        /\ \A p \in ToSet(text) : \E style \in Styles : p = Piece("test", style)
    <3>1. <<>> \in Seq(Pieces) /\ ToSet(<<>>) = {}
      BY DEF ToSet
    <3> QED
      BY <1>2, <2>3, <3>1
  <2>5. /\ text \o last \in Seq(Pieces)
        /\ ToSet(text \o last) = ToSet(text) \cup ToSet(last)
    BY <1>5, <2>4, JoinedPieces
  <2> QED
    BY <1>5, <2>2, <2>4, <2>5 DEF Statuses, Styles
<1> QED
  BY <1>1, <1>3, <1>6, <1>7, <1>8, <1>9 DEF Outcomes

\* A step that does not report a test.
LEMMA MessagesMove ==
    ASSUME MessageInv, results' = results \/ results' = <<>>,
           results' = <<>> \/ group'.number = group.number,
           cm_error_message' \in Seq(Pieces),
           group'.stage \in {"idle", "setup"} => results' = <<>>,
           group'.stage = "tests" => results' = <<>> \/ cm_error_message' = <<>>,
           group'.stage # "exited" => \A p \in ToSet(cm_error_message') : IsLeft(p)
    PROVE  MessageInv'
<1>1. results' \in Seq(Statuses \X Seq(Pieces))
  <2>1. results \in Seq(Statuses \X Seq(Pieces))
    BY DEF MessageInv
  <2>2. <<>> \in Seq(Statuses \X Seq(Pieces))
    BY EmptySeq
  <2> QED
    BY <2>1, <2>2
<1>2. OwnMessages(results', group'.number)
  <2>1. CASE results' = <<>>
    BY <2>1 DEF OwnMessages
  <2>2. CASE results' = results /\ group'.number = group.number
    <3>1. OwnMessages(results, group.number)
      BY OwnMeansOwn DEF MessageInv
    <3> QED
      BY <2>2, <3>1
  <2> QED
    BY <2>1, <2>2
<1>3. MessagesAreOwn'
  BY <1>2, OwnMeansOwnNext
<1> QED
  BY <1>1, <1>3 DEF MessageInv

\* run_one_tests gives the message to the test, and leaves none.
LEMMA MessagesReported ==
    ASSUME GroupInv, FormatInv, MessageInv, NEW outcome \in Outcomes, run_one_tests(outcome)
    PROVE  MessageInv'
<1>1. PICK rs, cm, n, x : /\ rs = results /\ cm = cm_error_message /\ n = group.number
                          /\ x = <<outcome[1], cm \o outcome[2]>>
  OBVIOUS
<1>2. /\ group.stage = "tests" /\ group' = group
      /\ results' = Append(rs, x) /\ cm_error_message' = <<>>
  BY <1>1 DEF run_one_tests, MessageAfter
<1>3. /\ rs \in Seq(Statuses \X Seq(Pieces)) /\ cm \in Seq(Pieces)
      /\ rs # <<>> => cm = <<>>
      /\ \A p \in ToSet(cm) : IsLeft(p)
  BY <1>1, <1>2 DEF MessageInv
<1>4. /\ outcome[1] \in Statuses /\ outcome[2] \in Seq(Pieces)
      /\ \A p \in ToSet(outcome[2]) : \E style \in Styles : p = Piece("test", style)
      /\ outcome[1] # "PASSED" =>
            \E p \in ToSet(outcome[2]) : \E style \in Styles : p = Piece("test", style)
  BY OutcomeText
<1>5. PICK k : k = Len(rs) + 1
  OBVIOUS
<1>6. ASSUME NEW style \in Styles PROVE OwnPiece(n, k, Piece("test", style))
  <2>1. /\ Piece("test", style)[1] = group.number /\ Piece("test", style)[2] = "test"
        /\ Piece("test", style)[3] = Len(results)
    BY PieceType DEF Kinds
  <2>2. Len(rs) \in Nat
    BY <1>3, LenProperties
  <2>3. Len(rs) = k - 1
    BY <1>5, <2>2
  <2> QED
    BY <1>1, <2>1, <2>3 DEF OwnPiece
<1>7. /\ cm \o outcome[2] \in Seq(Pieces)
      /\ ToSet(cm \o outcome[2]) = ToSet(cm) \cup ToSet(outcome[2])
  BY <1>3, <1>4, JoinedPieces
<1>8. x \in Statuses \X Seq(Pieces) /\ x[1] = outcome[1] /\ x[2] = cm \o outcome[2]
  BY <1>1, <1>4, <1>7
<1>9. \A p \in ToSet(x[2]) : OwnPiece(n, k, p) \/ (rs = <<>> /\ IsLeft(p))
  <2>1. rs # <<>> => ToSet(cm) = {}
    BY <1>3 DEF ToSet
  <2> QED
    BY <1>3, <1>4, <1>6, <1>7, <1>8, <2>1
<1>10. x[1] # "PASSED" => \E p \in ToSet(x[2]) : OwnPiece(n, k, p)
  BY <1>4, <1>6, <1>7, <1>8
<1>11. OwnMessages(rs, n)
  BY <1>1, OwnMeansOwn DEF MessageInv
<1>12. OwnMessages(Append(rs, x), n)
  BY <1>3, <1>5, <1>8, <1>9, <1>10, <1>11, OneMoreOwn
<1>13. MessagesAreOwn'
  BY <1>1, <1>2, <1>12, OwnMeansOwnNext
<1>14. results' \in Seq(Statuses \X Seq(Pieces))
  BY <1>2, <1>3, <1>8, AppendProperties
<1>15. <<>> \in Seq(Pieces) /\ ToSet(<<>>) = {}
  BY DEF ToSet
<1> QED
  BY <1>2, <1>13, <1>14, <1>15 DEF MessageInv

-----------------------------------------------------------------------------
(* The XML files.                                                          *)

\* A report at the end of what is in a file or stream: h is its header, or
\* nothing, and n its number.
Extended(s, h, n) ==
    (IF s = Absent THEN <<>> ELSE s) \o h \o <<<<"suite", n>>>>

Headers == {<<>>, <<<<"header", 0>>>>}

\* What a report leaves in place: all headers and suites, and what is before
\* them, stay, and at most a header and one suite are new.
Extends(t, s, h, n) ==
    /\ t \in Seq(Entries) /\ Len(t) > 0 /\ t[Len(t)] = <<"suite", n>>
    /\ \A j \in DOMAIN s : s[j][1] \in {"header", "suite"} =>
          /\ j \in DOMAIN t /\ t[j] = s[j]
          /\ \A i \in DOMAIN s : i < j => i \in DOMAIN t /\ t[i] = s[i]
    /\ \A j \in DOMAIN t : t[j][1] = "header" =>
          \/ j \in DOMAIN s /\ s[j] = t[j]
          \/ h # <<>> /\ j = Len(t) - 1
    /\ s = Absent => t = h \o <<<<"suite", n>>>>
    /\ s # Absent => Len(t) = Len(s) + Len(h) + 1
                     /\ \A j \in DOMAIN s : j \in DOMAIN t /\ t[j] = s[j]

\* The report that cmprintf_group_finish_xml appends extends the file so.
LEMMA ReportExtends ==
    ASSUME NEW s \in Seq(Entries), NEW h \in Headers, NEW n \in Nat,
           NEW t, t = Extended(s, h, n)
    PROVE  Extends(t, s, h, n)
<1>1. PICK b : b = (IF s = Absent THEN <<>> ELSE s)
  OBVIOUS
<1>2. PICK x, e : x = <<"suite", n>> /\ e = <<<<"suite", n>>>>
  OBVIOUS
<1>3. /\ e \in Seq(Entries) /\ Len(e) = 1 /\ e[1] = x /\ x[1] = "suite"
  BY <1>2 DEF Entries
<1>4. b \in Seq(Entries)
  BY <1>1
<1>5. PICK l \in Nat : l = Len(b) /\ DOMAIN b = 1 .. l
  BY <1>4
<1>6. PICK m \in {0, 1} : /\ h \in Seq(Entries) /\ Len(h) = m /\ (m = 0 <=> h = <<>>)
                          /\ \A j \in 1 .. m : h[j] = <<"header", 0>>
  <2>1. CASE h = <<>>
    BY <2>1
  <2>2. CASE h = <<<<"header", 0>>>>
    <3>1. h \in Seq(Entries) /\ Len(h) = 1 /\ h[1] = <<"header", 0>>
      BY <2>2 DEF Entries
    <3> QED
      BY <2>2, <3>1
  <2> QED
    BY <2>1, <2>2 DEF Headers
<1>7. PICK u : u = b \o h
  OBVIOUS
<1>8. /\ u \in Seq(Entries) /\ Len(u) = l + m
      /\ \A j \in 1 .. l : u[j] = b[j]
      /\ m = 1 => u[l + 1] = <<"header", 0>>
  <2>1. /\ b \o h \in Seq(Entries) /\ Len(b \o h) = Len(b) + Len(h)
        /\ \A j \in 1 .. Len(b) + Len(h) :
              (b \o h)[j] = IF j <= Len(b) THEN b[j] ELSE h[j - Len(b)]
    <3>1. b \in Seq(Entries) /\ h \in Seq(Entries)
      BY <1>4, <1>6
    <3> QED
      BY <3>1, ConcatProperties
  <2>2. \A j \in 1 .. l + m : u[j] = IF j <= l THEN b[j] ELSE h[j - l]
    BY <1>5, <1>6, <1>7, <2>1
  <2>3. m = 1 => u[l + 1] = h[1]
    BY <1>5, <2>2
  <2>4. \A j \in 1 .. l : u[j] = b[j]
    BY <1>5, <1>6, <2>2
  <2> QED
    BY <1>5, <1>6, <1>7, <2>1, <2>3, <2>4
<1>9. /\ t \in Seq(Entries) /\ Len(t) = l + m + 1
      /\ \A j \in 1 .. l + m : t[j] = u[j]
      /\ t[l + m + 1] = x
  <2>1. /\ u \o e \in Seq(Entries) /\ Len(u \o e) = Len(u) + Len(e)
        /\ \A j \in 1 .. Len(u) + Len(e) :
              (u \o e)[j] = IF j <= Len(u) THEN u[j] ELSE e[j - Len(u)]
    <3>1. u \in Seq(Entries) /\ e \in Seq(Entries)
      BY <1>3, <1>8
    <3> QED
      BY <3>1, ConcatProperties
  <2>2. t = u \o e
    BY <1>1, <1>2, <1>7 DEF Extended
  <2>3. PICK k \in Nat : k = l + m
    BY <1>5, <1>6
  <2>4. \A j \in 1 .. k + 1 : t[j] = IF j <= k THEN u[j] ELSE e[j - k]
    BY <1>3, <1>8, <2>1, <2>2, <2>3
  <2>5. t[k + 1] = e[1] /\ \A j \in 1 .. k : t[j] = u[j]
    BY <2>3, <2>4
  <2> QED
    BY <1>3, <1>8, <2>1, <2>2, <2>3, <2>5
<1>10. PICK k \in Nat : k = l + m /\ DOMAIN t = 1 .. k + 1
  BY <1>5, <1>6, <1>9
<1>11. \A j \in 1 .. l : j \in DOMAIN t /\ t[j] = b[j]
  BY <1>5, <1>6, <1>8, <1>9, <1>10
<1>12. s = Absent => DOMAIN s = {1} /\ s[1][1] = "absent" /\ b = <<>>
  BY <1>1 DEF Absent
<1>13. s # Absent => b = s
  BY <1>1
<1>14. t \in Seq(Entries) /\ Len(t) > 0 /\ t[Len(t)] = <<"suite", n>>
  BY <1>2, <1>9, <1>10
<1>15. ASSUME NEW j \in DOMAIN s, s[j][1] \in {"header", "suite"}
       PROVE  /\ j \in DOMAIN t /\ t[j] = s[j]
              /\ \A i \in DOMAIN s : i < j => i \in DOMAIN t /\ t[i] = s[i]
  <2>1. s # Absent
    BY <1>12, <1>15
  <2> QED
    BY <1>5, <1>11, <1>13, <2>1
<1>16. ASSUME NEW j \in DOMAIN t, t[j][1] = "header"
       PROVE  \/ j \in DOMAIN s /\ s[j] = t[j]
              \/ h # <<>> /\ j = Len(t) - 1
  <2>1. CASE j \in 1 .. l
    <3>1. b # <<>>
      BY <1>5, <2>1
    <3>2. b = s
      BY <1>12, <1>13, <3>1
    <3> QED
      BY <1>5, <1>11, <2>1, <3>2
  <2>2. CASE j = k + 1
    BY <1>3, <1>9, <1>10, <1>16, <2>2
  <2>3. CASE j = l + 1 /\ m = 1
    BY <1>5, <1>6, <1>9, <1>10, <2>3
  <2> QED
    BY <1>5, <1>6, <1>10, <2>1, <2>2, <2>3
<1>17. s = Absent => t = h \o <<<<"suite", n>>>>
  <2>1. h \in Seq(Entries)
    BY <1>6
  <2>2. <<>> \o h = h
    BY <2>1, ConcatEmptySeq
  <2> QED
    BY <2>2 DEF Extended
<1>18. s # Absent => /\ Len(t) = Len(s) + Len(h) + 1
                     /\ \A j \in DOMAIN s : j \in DOMAIN t /\ t[j] = s[j]
  BY <1>5, <1>6, <1>9, <1>11, <1>13
<1> QED
  BY <1>14, <1>15, <1>16, <1>17, <1>18 DEF Extends

\* A report to place d with header h.  It has a header only if none was printed,
\* and in a file only if it creates the file; a file is created without one only
\* if one was printed.
GoodReport(fs, printed, d, h, after) ==
    /\ printed => after
    /\ h # <<>> => ~ printed
    /\ d \in FileNames /\ h # <<>> => fs[d] = Absent
    /\ d \in FileNames /\ h = <<>> /\ fs[d] = Absent => printed
    /\ after /\ ~ printed => d \in Streams \/ (h = <<>> /\ fs[d] # Absent)
    /\ d \in Streams => after

\* Such a report keeps the files sound.
LEMMA ReportWritten ==
    ASSUME NEW fs, NEW n \in Nat, NEW printed \in BOOLEAN, SoundFiles(fs, printed, n),
           NEW d \in Places, NEW h \in Headers,
           NEW gs, gs = [fs EXCEPT ![d] = Extended(fs[d], h, n)],
           NEW after \in BOOLEAN, GoodReport(fs, printed, d, h, after)
    PROVE  SoundFiles(gs, after, n + 1)
<1>0. /\ printed => after
      /\ h # <<>> => ~ printed
      /\ d \in FileNames /\ h # <<>> => fs[d] = Absent
      /\ d \in FileNames /\ h = <<>> /\ fs[d] = Absent => printed
      /\ after /\ ~ printed => d \in Streams \/ (h = <<>> /\ fs[d] # Absent)
      /\ d \in Streams => after
  BY DEF GoodReport
<1>1. /\ fs \in [Places -> Seq(Entries)]
      /\ \A f \in FileNames : Len(fs[f]) > 0 /\ fs[f][Len(fs[f])][1] # "header"
      /\ \A f \in FileNames : \A j \in DOMAIN fs[f] : fs[f][j][1] = "header" => j = 1
      /\ \A f \in Streams : \A j \in DOMAIN fs[f] :
            fs[f][j][1] = "header" => printed /\ OnlyHeader(fs, f, j)
      /\ printed => ExcusedIn(fs, n)
      /\ \A f \in FileNames : fs[f][1][1] = "suite" => ExcusedIn(fs, fs[f][1][2])
  BY DEF SoundFiles
<1>2. PICK s, t : s = fs[d] /\ t = Extended(s, h, n)
  OBVIOUS
<1>3. s \in Seq(Entries)
  BY <1>1, <1>2
<1>4. /\ t \in Seq(Entries) /\ Len(t) > 0 /\ t[Len(t)] = <<"suite", n>>
      /\ \A j \in DOMAIN s : s[j][1] \in {"header", "suite"} =>
            /\ j \in DOMAIN t /\ t[j] = s[j]
            /\ \A i \in DOMAIN s : i < j => i \in DOMAIN t /\ t[i] = s[i]
      /\ \A j \in DOMAIN t : t[j][1] = "header" =>
            \/ j \in DOMAIN s /\ s[j] = t[j]
            \/ h # <<>> /\ j = Len(t) - 1
      /\ s = Absent => t = h \o <<<<"suite", n>>>>
      /\ s # Absent => Len(t) = Len(s) + Len(h) + 1
                       /\ \A j \in DOMAIN s : j \in DOMAIN t /\ t[j] = s[j]
  <2>1. Extends(t, s, h, n)
    BY <1>2, <1>3, ReportExtends
  <2> QED
    BY <2>1 DEF Extends
<1>5. /\ gs \in [Places -> Seq(Entries)] /\ gs[d] = t
      /\ \A f \in Places : f # d => gs[f] = fs[f]
  BY <1>1, <1>2, <1>4
<1>6. FileNames \cap Streams = {} /\ FileNames \subseteq Places /\ Streams \subseteq Places
  BY NamesAssumption DEF FileNames, Streams, Places
<1>7. PICK l \in Nat : l = Len(t) /\ l > 0 /\ DOMAIN t = 1 .. l /\ t[l] = <<"suite", n>>
  BY <1>4
<1>8. ASSUME NEW m \in Nat, ExcusedIn(fs, m) PROVE ExcusedIn(gs, m)
  <2>1. PICK e, j : /\ e \in Places /\ j \in DOMAIN fs[e] /\ fs[e][j][1] = "suite"
                    /\ fs[e][j][2] < m /\ FollowsIn(fs, e, j)
    BY <1>8 DEF ExcusedIn
  <2>2. CASE e # d
    <3>1. gs[e] = fs[e]
      BY <1>5, <2>2
    <3> QED
      BY <2>1, <3>1 DEF ExcusedIn, FollowsIn
  <2>3. CASE e = d
    <3>1. fs[e] = s /\ gs[e] = t
      BY <1>2, <1>5, <2>3
    <3>2. j \in DOMAIN t /\ t[j] = s[j]
      BY <1>4, <2>1, <3>1
    <3>3. FollowsIn(gs, e, j)
      <4>1. CASE e \in Streams
        BY <4>1 DEF FollowsIn
      <4>2. CASE j > 1 /\ fs[e][j - 1][1] # "header"
        <5>1. j \in Nat /\ j - 1 \in DOMAIN s /\ j - 1 < j
          BY <1>3, <2>1, <3>1, <4>2
        <5>2. t[j - 1] = s[j - 1]
          BY <1>4, <2>1, <3>1, <5>1
        <5> QED
          BY <3>1, <4>2, <5>2 DEF FollowsIn
      <4> QED
        BY <2>1, <4>1, <4>2 DEF FollowsIn
    <3> QED
      BY <2>1, <3>1, <3>2, <3>3 DEF ExcusedIn
  <2> QED
    BY <2>2, <2>3
<1>9. \A f \in FileNames : Len(gs[f]) > 0 /\ gs[f][Len(gs[f])][1] # "header"
  <2> SUFFICES ASSUME NEW f \in FileNames
               PROVE  Len(gs[f]) > 0 /\ gs[f][Len(gs[f])][1] # "header"
    OBVIOUS
  <2>1. CASE f = d
    BY <1>5, <1>7, <2>1
  <2>2. CASE f # d
    BY <1>1, <1>5, <1>6, <2>2
  <2> QED
    BY <2>1, <2>2
<1>10. /\ s = Absent /\ h = <<>> => t[1] = <<"suite", n>>
       /\ s = Absent /\ h # <<>> => l = 2 /\ t[1] = <<"header", 0>>
  <2>1. ASSUME s = Absent, h = <<>> PROVE t[1] = <<"suite", n>>
    <3>1. t = <<<<"suite", n>>>>
      BY <1>4, <2>1
    <3> QED
      BY <3>1
  <2>2. ASSUME s = Absent, h # <<>> PROVE l = 2 /\ t[1] = <<"header", 0>>
    <3>1. PICK a, b : a = <<"header", 0>> /\ b = <<"suite", n>>
      OBVIOUS
    <3>2. t = <<a>> \o <<b>>
      BY <1>4, <2>2, <3>1 DEF Headers
    <3>3. PICK u, v : u = <<a>> /\ v = <<b>>
      OBVIOUS
    <3>4. /\ u \in Seq({a, b}) /\ v \in Seq({a, b})
          /\ Len(u) = 1 /\ Len(v) = 1 /\ u[1] = a
      BY <3>3
    <3>5. /\ Len(u \o v) = Len(u) + Len(v)
          /\ \A i \in 1 .. Len(u) + Len(v) :
                (u \o v)[i] = IF i <= Len(u) THEN u[i] ELSE v[i - Len(u)]
      BY <3>4, ConcatProperties
    <3>6. Len(u \o v) = 2 /\ (u \o v)[1] = a
      BY <3>4, <3>5
    <3> QED
      BY <1>7, <3>1, <3>2, <3>3, <3>6
  <2> QED
    BY <2>1, <2>2
<1>11. ASSUME NEW f \in FileNames, NEW j \in DOMAIN gs[f], gs[f][j][1] = "header"
       PROVE  j = 1
  <2>1. CASE f # d
    BY <1>1, <1>5, <1>6, <1>11, <2>1
  <2>2. CASE f = d
    <3>1. j \in DOMAIN t /\ t[j][1] = "header"
      BY <1>5, <1>11, <2>2
    <3>2. CASE j \in DOMAIN s /\ s[j] = t[j]
      BY <1>1, <1>2, <2>2, <3>1, <3>2
    <3>3. CASE h # <<>> /\ j = Len(t) - 1
      <4>1. s = Absent
        BY <1>0, <1>2, <2>2, <3>3
      <4>2. l = 2
        BY <1>10, <3>3, <4>1
      <4> QED
        BY <1>7, <3>3, <4>2
    <3> QED
      BY <1>4, <3>1, <3>2, <3>3
  <2> QED
    BY <2>1, <2>2
<1>12. ASSUME NEW f \in Streams, NEW j \in DOMAIN gs[f], gs[f][j][1] = "header"
       PROVE  \/ j \in DOMAIN fs[f] /\ fs[f][j][1] = "header"
              \/ h # <<>> /\ f = d /\ j = l - 1
  <2>1. CASE f # d
    BY <1>5, <1>6, <1>12, <2>1
  <2>2. CASE f = d
    <3>1. j \in DOMAIN t /\ t[j][1] = "header"
      BY <1>5, <1>12, <2>2
    <3> QED
      BY <1>2, <1>4, <1>7, <2>2, <3>1
  <2> QED
    BY <2>1, <2>2
<1>13. ASSUME NEW f \in Streams, NEW j \in DOMAIN gs[f], gs[f][j][1] = "header"
       PROVE  after /\ OnlyHeader(gs, f, j)
  <2>1. after
    BY <1>0, <1>1, <1>12, <1>13
  <2>2. ASSUME NEW g \in Streams, NEW k \in DOMAIN gs[g], gs[g][k][1] = "header"
        PROVE  g = f /\ k = j
    <3>1. \/ j \in DOMAIN fs[f] /\ fs[f][j][1] = "header" /\ printed /\ OnlyHeader(fs, f, j)
          \/ h # <<>> /\ f = d /\ j = l - 1 /\ ~ printed
      BY <1>0, <1>1, <1>12, <1>13
    <3>2. \/ k \in DOMAIN fs[g] /\ fs[g][k][1] = "header" /\ printed
          \/ h # <<>> /\ g = d /\ k = l - 1 /\ ~ printed
      BY <1>0, <1>1, <1>12, <2>2
    <3> QED
      BY <3>1, <3>2 DEF OnlyHeader
  <2> QED
    BY <2>1, <2>2 DEF OnlyHeader
<1>14. ASSUME after PROVE ExcusedIn(gs, n + 1)
  <2>1. CASE printed
    <3>1. PICK e, j : /\ e \in Places /\ j \in DOMAIN gs[e] /\ gs[e][j][1] = "suite"
                      /\ gs[e][j][2] < n /\ FollowsIn(gs, e, j)
      BY <1>1, <1>8, <2>1 DEF ExcusedIn
    <3>2. gs[e][j][2] \in Nat
      <4>1. gs[e] \in Seq(Entries)
        BY <1>5, <3>1
      <4>2. gs[e][j] \in Entries
        BY <3>1, <4>1
      <4> QED
        BY <4>2 DEF Entries
    <3>3. gs[e][j][2] < n + 1
      BY <3>1, <3>2
    <3> QED
      BY <3>1, <3>3 DEF ExcusedIn
  <2>2. CASE ~ printed
    <3>1. l \in DOMAIN gs[d] /\ gs[d][l][1] = "suite" /\ gs[d][l][2] = n /\ n < n + 1
      BY <1>5, <1>7
    <3>2. FollowsIn(gs, d, l)
      <4>1. CASE d \in Streams
        BY <4>1 DEF FollowsIn
      <4>2. CASE h = <<>> /\ s # Absent /\ d \in FileNames
        <5>1. PICK k \in Nat : k = Len(s) /\ k > 0 /\ k \in DOMAIN s /\ s[k][1] # "header"
          BY <1>1, <1>2, <1>3, <4>2
        <5>2. Len(h) = 0
          BY <4>2
        <5>3. l = k + 1 /\ t[k] = s[k]
          BY <1>4, <1>7, <4>2, <5>1, <5>2
        <5>4. l > 1 /\ l - 1 = k
          BY <5>1, <5>3
        <5> QED
          BY <1>5, <5>1, <5>3, <5>4 DEF FollowsIn
      <4> QED
        BY <1>0, <1>2, <1>14, <2>2, <4>1, <4>2 DEF Places
    <3> QED
      BY <3>1, <3>2 DEF ExcusedIn
  <2> QED
    BY <2>1, <2>2
<1>15. ASSUME NEW f \in FileNames, gs[f][1][1] = "suite"
       PROVE  ExcusedIn(gs, gs[f][1][2])
  <2>1. gs[f] \in Seq(Entries) /\ Len(gs[f]) > 0
    BY <1>5, <1>6, <1>9
  <2>2. gs[f][1] \in Entries
    BY <2>1
  <2>3. gs[f][1][2] \in Nat
    BY <2>2 DEF Entries
  <2>4. CASE gs[f][1] = fs[f][1]
    BY <1>1, <1>8, <1>15, <2>3, <2>4
  <2>5. CASE f = d /\ s = Absent
    <3>1. h = <<>>
      BY <1>5, <1>10, <1>15, <2>5
    <3>2. gs[f][1][2] = n /\ printed
      BY <1>0, <1>2, <1>5, <1>10, <2>5, <3>1
    <3> QED
      BY <1>1, <1>8, <3>2
  <2>6. CASE f = d /\ s # Absent
    <3>1. 1 \in DOMAIN s
      BY <1>1, <1>2, <1>3, <2>6
    <3> QED
      BY <1>2, <1>4, <1>5, <2>4, <2>6, <3>1
  <2>7. CASE f # d
    BY <1>5, <1>6, <2>4, <2>7
  <2> QED
    BY <2>5, <2>6, <2>7
<1> QED
  BY <1>5, <1>9, <1>11, <1>13, <1>14, <1>15 DEF SoundFiles

\* A group that writes no report.
LEMMA NoReportWritten ==
    ASSUME NEW fs, NEW n \in Nat, NEW printed, SoundFiles(fs, printed, n)
    PROVE  SoundFiles(fs, printed, n + 1)
<1>1. ASSUME printed PROVE ExcusedIn(fs, n + 1)
  <2>1. PICK e, j : /\ e \in Places /\ j \in DOMAIN fs[e] /\ fs[e][j][1] = "suite"
                    /\ fs[e][j][2] < n /\ FollowsIn(fs, e, j)
    BY <1>1 DEF SoundFiles, ExcusedIn
  <2>2. fs[e] \in Seq(Entries)
    BY <2>1 DEF SoundFiles
  <2>3. fs[e][j] \in Entries
    BY <2>1, <2>2
  <2>4. fs[e][j][2] \in Nat
    BY <2>3 DEF Entries
  <2>5. fs[e][j][2] < n + 1
    BY <2>1, <2>4
  <2> QED
    BY <2>1, <2>5 DEF ExcusedIn
<1> QED
  BY <1>1 DEF SoundFiles

\* A step that writes no file, and after which the same report is next.
LEMMA FilesKept ==
    ASSUME FilesInv, UNCHANGED <<xmlEnv, xml_printed, files>>, NextReport' = NextReport
    PROVE  FilesInv'
  BY DEF FilesInv

\* The report of a group, with the header that cmprintf_group_finish_xml chooses.
LEMMA FilesReported ==
    ASSUME GroupInv, FilesInv, group.stage = "finish", cmprintf_group_finish_xml
    PROVE  xml_printed' \in BOOLEAN /\ SoundFiles(files', xml_printed', group.number + 1)
<1>1. PICK fs, printed, n : fs = files /\ printed = xml_printed /\ n = group.number
  OBVIOUS
<1>2. /\ n \in Nat /\ group.name \in GroupNames
  BY <1>1 DEF GroupInv
<1>3. printed \in BOOLEAN /\ SoundFiles(fs, printed, n)
  BY <1>1 DEF FilesInv, NextReport
<1>4. PICK d, h : d = Destination /\ h = If(~ (xml_printed \/ Appended), <<"header", 0>>)
  OBVIOUS
<1>5. /\ h \in Headers
      /\ h # <<>> <=> ~ printed /\ ~ Appended
  <2>1. <<<<"header", 0>>>> # <<>>
    OBVIOUS
  <2> QED
    BY <1>1, <1>4, <2>1 DEF If, Headers
<1>6. XmlFile \in FileNames
  BY <1>2 DEF XmlFile, FileNames
<1>7. FileNames \cap Streams = {}
  BY NamesAssumption DEF FileNames, Streams
<1>8. /\ d \in Places
      /\ d \in FileNames => (Created \/ Appended) /\ d = XmlFile
      /\ d \in Streams => ~ Created /\ ~ Appended
  BY <1>4, <1>6, <1>7 DEF Destination, Places, Streams
<1>9. files' = [fs EXCEPT ![d] = Extended(fs[d], h, n)]
  BY <1>1, <1>4 DEF cmprintf_group_finish_xml, Extended
<1>10. /\ Created => fs[XmlFile] = Absent
       /\ Appended => fs[XmlFile] # Absent
  BY <1>1 DEF Created, Appended
<1>11. PICK after : after = PrintedAfter
  OBVIOUS
<1>12. after \in BOOLEAN /\ (after <=> (printed \/ Appended \/ ~ Created))
  BY <1>1, <1>3, <1>11 DEF PrintedAfter
<1>13. d \in FileNames /\ h # <<>> => fs[d] = Absent
  BY <1>5, <1>8, <1>10
<1>14. d \in FileNames /\ h = <<>> /\ fs[d] = Absent => printed
  BY <1>5, <1>8, <1>10
<1>15. after /\ ~ printed => d \in Streams \/ (h = <<>> /\ fs[d] # Absent)
  BY <1>5, <1>8, <1>10, <1>12 DEF Places
<1>16. /\ d \in Streams => after
       /\ printed => after
       /\ h # <<>> => ~ printed
  BY <1>5, <1>8, <1>12
<1>17. SoundFiles(files', after, n + 1)
  <2>1. PICK gs : gs = files'
    OBVIOUS
  <2>2. gs = [fs EXCEPT ![d] = Extended(fs[d], h, n)]
    BY <1>9, <2>1
  <2>3. after \in BOOLEAN /\ h \in Headers /\ d \in Places
    BY <1>5, <1>8, <1>12
  <2>4. GoodReport(fs, printed, d, h, after)
    BY <1>13, <1>14, <1>15, <1>16 DEF GoodReport
  <2>5. SoundFiles(gs, after, n + 1)
    BY <1>2, <1>3, <2>2, <2>3, <2>4, ReportWritten
  <2> QED
    BY <2>1, <2>5
<1>18. xml_printed' = after
  BY <1>11 DEF cmprintf_group_finish_xml
<1> QED
  BY <1>1, <1>12, <1>17, <1>18

\* The end of a group, with or without a report in XML.
LEMMA FilesFinished ==
    ASSUME GroupInv, FilesInv, NEW leaked \in BOOLEAN, group_finish(leaked)
    PROVE  FilesInv'
<1>1. /\ group.stage = "finish" /\ group'.number = group.number
      /\ group'.stage \in {"exited", "returned"}
  BY FinishMoves DEF Moves
<1>2. group.number \in Nat /\ NextReport = group.number /\ NextReport' = group.number + 1
  BY <1>1 DEF NextReport, GroupInv
<1>3. xmlEnv' = xmlEnv
  BY DEF group_finish, environment
<1>4. CASE cmprintf_group_finish_xml
  BY <1>1, <1>2, <1>3, <1>4, FilesReported DEF FilesInv
<1>5. CASE UNCHANGED xmlVars
  <2>1. files' = files /\ xml_printed' = xml_printed
    BY <1>5 DEF xmlVars
  <2>2. SoundFiles(files, xml_printed, group.number + 1)
    BY <1>2, NoReportWritten DEF FilesInv
  <2> QED
    BY <1>2, <1>3, <2>1, <2>2 DEF FilesInv
<1> QED
  BY <1>4, <1>5 DEF group_finish

\* The property follows from the invariant.
LEMMA SoundMeansHeaderFirst ==
    ASSUME FilesInv
    PROVE  XmlHeaderFirst
<1>1. SoundFiles(files, xml_printed, NextReport)
  BY DEF FilesInv
<1>2. DOMAIN files = Places
  BY <1>1 DEF SoundFiles
<1>3. \A f \in FileNames : \A j \in DOMAIN files[f] :
         files[f][j][1] = "header" => j = 1
  BY <1>1 DEF SoundFiles
<1>4. \A f, g \in Streams : \A j \in DOMAIN files[f], k \in DOMAIN files[g] :
         files[f][j][1] = "header" /\ files[g][k][1] = "header" => f = g /\ j = k
  BY <1>1 DEF SoundFiles, OnlyHeader
<1>5. ASSUME NEW f \in FileNames, files[f][1][1] = "suite"
      PROVE  \E e \in DOMAIN files : \E j \in DOMAIN files[e] :
                 /\ files[e][j][1] = "suite" /\ files[e][j][2] < files[f][1][2]
                 /\ Follows(e, j)
  <2>1. ExcusedIn(files, files[f][1][2])
    BY <1>1, <1>5 DEF SoundFiles
  <2> QED
    BY <1>2, <2>1 DEF ExcusedIn, FollowsIn, Follows
<1> QED
  BY <1>3, <1>4, <1>5 DEF XmlHeaderFirst

-----------------------------------------------------------------------------
(* The steps.                                                              *)

\* A step that chooses no format and writes no file.
LEMMA QuietStep ==
    ASSUME ReportInv, UNCHANGED <<environment, outputVars, xmlVars>>,
           GroupInv', group'.number = group.number, NextReport' = NextReport, MessageInv'
    PROVE  ReportInv'
<1>1. UNCHANGED <<messageEnv, global_msg_output, env_checked, requested>>
      /\ UNCHANGED <<xmlEnv, xml_printed, files>>
  BY DEF environment, outputVars, xmlVars
<1>2. FormatInv'
  BY <1>1, FormatsKept DEF ReportInv
<1>3. FilesInv'
  BY <1>1, FilesKept DEF ReportInv
<1> QED
  BY <1>2, <1>3 DEF ReportInv

\* A fixture of the group passes and leaves its message, or fails and loses it.
LEMMA FixturesKeepInv ==
    ASSUME ReportInv,
           \/ \E text \in PassingTexts("setup") : group_setup_passes(text)
           \/ \E text \in FailingTexts("setup") : group_setup_fails(text)
           \/ \E text \in PassingTexts("teardown") : group_teardown_passes(text)
           \/ \E text \in FailingTexts("teardown") : group_teardown_fails(text)
    PROVE  ReportInv'
<1>1. GroupInv /\ FormatInv /\ MessageInv
  BY DEF ReportInv
<1>2. /\ cm_error_message \in Seq(Pieces)
      /\ group.stage # "exited" => \A p \in ToSet(cm_error_message) : IsLeft(p)
      /\ group.stage = "setup" => results = <<>>
  BY <1>1 DEF MessageInv
<1>3. <<>> \in Seq(Pieces) /\ ToSet(<<>>) = {}
  BY DEF ToSet
<1>4. ASSUME NEW kind \in {"setup", "teardown"}, NEW text \in PassingTexts(kind),
             group.stage # "exited", cm_error_message' = cm_error_message \o text
      PROVE  /\ cm_error_message' \in Seq(Pieces)
             /\ \A p \in ToSet(cm_error_message') : IsLeft(p)
  <2>1. kind \in Kinds /\ "note" \in Styles
    BY DEF Kinds, Styles
  <2>2. text \in Seq(Pieces) /\ \A p \in ToSet(text) : p = Piece(kind, "note")
    BY <1>1, <2>1, PassingText
  <2>3. IsLeft(Piece(kind, "note"))
    BY <1>1, <2>1, PieceType DEF IsLeft
  <2>4. PICK u : u = cm_error_message \o text
    OBVIOUS
  <2>5. u \in Seq(Pieces) /\ ToSet(u) = ToSet(cm_error_message) \cup ToSet(text)
    BY <1>2, <2>2, <2>4, JoinedPieces
  <2>6. \A p \in ToSet(u) : IsLeft(p)
    BY <1>2, <1>4, <2>2, <2>3, <2>5
  <2> QED
    BY <1>4, <2>4, <2>5, <2>6
<1>5. CASE \E text \in PassingTexts("setup") : group_setup_passes(text)
  <2>1. PICK text \in PassingTexts("setup") : group_setup_passes(text)
    BY <1>5
  <2>2. GroupInv' /\ group.stage = "setup" /\ Moves("tests")
    BY <1>1, <2>1, SetupMoves
  <2>3. /\ UNCHANGED <<environment, outputVars, xmlVars>> /\ results' = results
        /\ cm_error_message' = cm_error_message \o text
    BY <2>1 DEF group_setup_passes
  <2>4. /\ cm_error_message' \in Seq(Pieces)
        /\ \A p \in ToSet(cm_error_message') : IsLeft(p)
    BY <1>4, <2>2, <2>3
  <2>5. MessageInv'
    BY <1>1, <1>2, <2>2, <2>3, <2>4, MessagesMove DEF Moves
  <2>6. NextReport' = NextReport
    BY <2>2 DEF NextReport, Moves
  <2> QED
    BY <2>2, <2>3, <2>5, <2>6, QuietStep DEF Moves
<1>6. CASE \E text \in FailingTexts("setup") : group_setup_fails(text)
  <2>1. PICK text \in FailingTexts("setup") : group_setup_fails(text)
    BY <1>6
  <2>2. GroupInv' /\ group.stage = "setup" /\ Moves("teardown")
    BY <1>1, <2>1, SetupMoves
  <2>3. /\ UNCHANGED <<environment, outputVars, xmlVars>> /\ results' = results
        /\ cm_error_message' = <<>>
    BY <2>1 DEF group_setup_fails, FixtureFailed
  <2>4. MessageInv'
    BY <1>1, <1>2, <1>3, <2>2, <2>3, MessagesMove DEF Moves
  <2>5. NextReport' = NextReport
    BY <2>2 DEF NextReport, Moves
  <2> QED
    BY <2>2, <2>3, <2>4, <2>5, QuietStep DEF Moves
<1>7. CASE \E text \in PassingTexts("teardown") : group_teardown_passes(text)
  <2>1. PICK text \in PassingTexts("teardown") : group_teardown_passes(text)
    BY <1>7
  <2>2. GroupInv' /\ group.stage \in {"tests", "teardown"} /\ Moves("finish")
    BY <1>1, <2>1, TeardownMoves
  <2>3. /\ UNCHANGED <<environment, outputVars, xmlVars>> /\ results' = results
        /\ cm_error_message' = cm_error_message \o text
    BY <2>1 DEF group_teardown_passes
  <2>4. /\ cm_error_message' \in Seq(Pieces)
        /\ \A p \in ToSet(cm_error_message') : IsLeft(p)
    BY <1>4, <2>2, <2>3
  <2>5. MessageInv'
    BY <1>1, <2>2, <2>3, <2>4, MessagesMove DEF Moves
  <2>6. NextReport' = NextReport
    BY <2>2 DEF NextReport, Moves
  <2> QED
    BY <2>2, <2>3, <2>5, <2>6, QuietStep DEF Moves
<1>8. CASE \E text \in FailingTexts("teardown") : group_teardown_fails(text)
  <2>1. PICK text \in FailingTexts("teardown") : group_teardown_fails(text)
    BY <1>8
  <2>2. GroupInv' /\ group.stage \in {"tests", "teardown"} /\ Moves("finish")
    BY <1>1, <2>1, TeardownMoves
  <2>3. /\ UNCHANGED <<environment, outputVars, xmlVars>> /\ results' = results
        /\ cm_error_message' = <<>>
    BY <2>1 DEF group_teardown_fails, FixtureFailed
  <2>4. MessageInv'
    BY <1>1, <1>3, <2>2, <2>3, MessagesMove DEF Moves
  <2>5. NextReport' = NextReport
    BY <2>2 DEF NextReport, Moves
  <2> QED
    BY <2>2, <2>3, <2>4, <2>5, QuietStep DEF Moves
<1> QED
  BY <1>5, <1>6, <1>7, <1>8

\* A test is reported.
LEMMA TestsKeepInv ==
    ASSUME ReportInv, NEW outcome \in Outcomes, run_one_tests(outcome)
    PROVE  ReportInv'
<1>1. group' = group /\ UNCHANGED <<environment, outputVars, xmlVars>>
  BY DEF run_one_tests
<1>2. GroupInv'
  BY <1>1 DEF ReportInv, GroupInv
<1>3. MessageInv'
  BY MessagesReported DEF ReportInv
<1>4. NextReport' = NextReport
  BY <1>1 DEF NextReport
<1> QED
  BY <1>1, <1>2, <1>3, <1>4, QuietStep

\* A group starts, and the formats are chosen before or between groups.
LEMMA StartKeepsInv ==
    ASSUME ReportInv,
           \/ \E o \in Outputs : cmocka_set_message_output(o)
           \/ \E name \in GroupNames, n \in 0 .. Max(ToSet(MaxTests)) : group_start(name, n)
    PROVE  ReportInv'
<1>1. /\ GroupInv /\ FormatInv /\ MessageInv /\ FilesInv
      /\ cm_error_message \in Seq(Pieces)
      /\ group.stage = "idle" => results = <<>>
      /\ group.stage # "exited" => \A p \in ToSet(cm_error_message) : IsLeft(p)
  BY DEF ReportInv, MessageInv
<1>2. CASE \E o \in Outputs : cmocka_set_message_output(o)
  <2>1. PICK o \in Outputs : cmocka_set_message_output(o)
    BY <1>2
  <2>2. /\ group.stage = "idle" /\ group' = group /\ results' = results
        /\ cm_error_message' = cm_error_message
        /\ UNCHANGED <<xmlEnv, xml_printed, files>>
    BY <2>1 DEF cmocka_set_message_output, environment, xmlVars
  <2>3. GroupInv'
    BY <1>1, <2>2 DEF GroupInv
  <2>4. FormatInv'
    BY <1>1, <2>1, FormatsSet
  <2>5. MessageInv'
    BY <1>1, <2>2, MessagesMove
  <2>6. NextReport' = NextReport
    BY <2>2 DEF NextReport
  <2>7. FilesInv'
    BY <1>1, <2>2, <2>6, FilesKept
  <2> QED
    BY <2>3, <2>4, <2>5, <2>7 DEF ReportInv
<1>3. CASE \E name \in GroupNames, n \in 0 .. Max(ToSet(MaxTests)) : group_start(name, n)
  <2>1. PICK name, n : name \in GroupNames /\ group_start(name, n)
    BY <1>3
  <2>2. /\ GroupInv' /\ group.stage = "idle" /\ group'.stage = "setup"
        /\ group'.number = group.number + 1
    BY <1>1, <2>1, StartMoves
  <2>3. /\ results' = results /\ cm_error_message' = cm_error_message
        /\ UNCHANGED <<xmlEnv, xml_printed, files>>
    BY <2>1 DEF group_start, environment, xmlVars
  <2>4. FormatInv'
    BY <1>1, <2>1, FormatsStarted
  <2>5. MessageInv'
    BY <1>1, <2>2, <2>3, MessagesMove
  <2>6. NextReport' = NextReport
    BY <2>2 DEF NextReport
  <2>7. FilesInv'
    BY <1>1, <2>3, <2>6, FilesKept
  <2> QED
    BY <2>2, <2>4, <2>5, <2>7 DEF ReportInv
<1> QED
  BY <1>2, <1>3

\* A group ends.
LEMMA FinishKeepsInv ==
    ASSUME ReportInv, (\E leaked \in BOOLEAN : group_finish(leaked)) \/ group_returned
    PROVE  ReportInv'
<1>1. /\ GroupInv /\ FormatInv /\ MessageInv /\ FilesInv
      /\ cm_error_message \in Seq(Pieces)
      /\ group.stage # "exited" => \A p \in ToSet(cm_error_message) : IsLeft(p)
  BY DEF ReportInv, MessageInv
<1>2. CASE \E leaked \in BOOLEAN : group_finish(leaked)
  <2>1. PICK leaked \in BOOLEAN : group_finish(leaked)
    BY <1>2
  <2>2. /\ GroupInv' /\ group.stage = "finish" /\ group'.number = group.number
        /\ group'.stage = IF leaked THEN "exited" ELSE "returned"
    BY <1>1, <2>1, FinishMoves DEF Moves
  <2>3. /\ results' = results
        /\ UNCHANGED <<messageEnv, global_msg_output, env_checked, requested>>
        /\ cm_error_message' = IF leaked THEN Append(cm_error_message, Piece("leak", "note"))
                               ELSE cm_error_message
    BY <2>1 DEF group_finish, environment, outputVars
  <2>4. FormatInv'
    BY <1>1, <2>2, <2>3, FormatsKept
  <2>5. MessageInv'
    <3>1. Piece("leak", "note") \in Pieces
      BY <1>1, PieceType DEF Kinds, Styles
    <3>2. PICK u : u = Append(cm_error_message, Piece("leak", "note"))
      OBVIOUS
    <3>3. u \in Seq(Pieces)
      BY <1>1, <3>1, <3>2, AppendProperties
    <3>4. CASE leaked
      BY <1>1, <2>2, <2>3, <3>2, <3>3, <3>4, MessagesMove
    <3>5. CASE ~ leaked
      BY <1>1, <2>2, <2>3, <3>5, MessagesMove
    <3> QED
      BY <3>4, <3>5
  <2>6. FilesInv'
    BY <1>1, <2>1, FilesFinished
  <2> QED
    BY <2>2, <2>4, <2>5, <2>6 DEF ReportInv
<1>3. CASE group_returned
  <2>1. /\ GroupInv' /\ group.stage = "returned" /\ group'.stage = "idle"
        /\ group'.number = group.number
    BY <1>1, <1>3, ReturnedMoves
  <2>2. /\ results' = <<>> /\ cm_error_message' = cm_error_message
        /\ UNCHANGED <<environment, outputVars, xmlVars>>
    BY <1>3 DEF group_returned
  <2>3. MessageInv'
    BY <1>1, <2>1, <2>2, MessagesMove
  <2>4. NextReport' = NextReport
    BY <2>1 DEF NextReport
  <2> QED
    BY <2>1, <2>2, <2>3, <2>4, QuietStep
<1> QED
  BY <1>2, <1>3

\* At the start no file has a header or a suite.
LEMMA InitHasInv ==
    ASSUME Init
    PROVE  ReportInv
<1>1. /\ messageEnv \in {NoEnv, {}} \cup Outputs
      /\ xmlEnv \in {"unset", "fixed", "per_group"}
      /\ global_msg_output = {"STANDARD"} /\ env_checked = FALSE /\ requested = NoEnv
      /\ cm_error_message = <<>> /\ group = NoGroup /\ results = <<>>
      /\ xml_printed = FALSE
  BY DEF Init
<1>2. /\ DOMAIN group = Fields /\ group.number = 0 /\ group.stage = "idle"
  BY <1>1 DEF NoGroup, Fields
<1>3. GroupInv
  BY <1>2 DEF GroupInv, Stages
<1>4. FormatInv
  <2>1. env_checked \in BOOLEAN /\ ~ env_checked
    BY <1>1
  <2>2. ~ (group.number > 0)
    BY <1>2
  <2> QED
    BY <1>1, <2>1, <2>2 DEF FormatInv
<1>5. MessageInv
  <2>1. <<>> \in Seq(Pieces) /\ <<>> \in Seq(Statuses \X Seq(Pieces)) /\ ToSet(<<>>) = {}
    BY EmptySeq DEF ToSet
  <2>2. OwnMessages(<<>>, 0)
    BY DEF OwnMessages
  <2>3. MessagesAreOwn
    BY <1>1, <1>2, <2>2, OwnMeansOwn
  <2> QED
    BY <1>1, <1>2, <2>1, <2>3 DEF MessageInv
<1>6. FilesInv
  <2>1. PICK old \in SUBSET FileNames :
           files = [f \in FileNames \cup Streams |->
                      IF f \in old THEN Old ELSE IF f \in Streams THEN <<>> ELSE Absent]
    BY DEF Init, FileNames
  <2>2. FileNames \cap Streams = {}
    BY NamesAssumption DEF FileNames, Streams
  <2>3. /\ Old \in Seq(Entries) /\ Len(Old) = 1 /\ DOMAIN Old = {1} /\ Old[1][1] = "old"
        /\ Absent \in Seq(Entries) /\ Len(Absent) = 1 /\ DOMAIN Absent = {1}
        /\ Absent[1][1] = "absent"
    BY DEF Old, Absent, Entries
  <2>4. /\ files \in [Places -> Seq(Entries)]
        /\ \A f \in FileNames : files[f] = Old \/ files[f] = Absent
        /\ \A f \in Streams : files[f] = <<>>
    BY <2>1, <2>2, <2>3 DEF Places
  <2>5. \A f \in FileNames : Len(files[f]) > 0 /\ files[f][Len(files[f])][1] # "header"
    BY <2>3, <2>4
  <2>6. \A f \in FileNames : \A j \in DOMAIN files[f] : files[f][j][1] = "header" => j = 1
    BY <2>3, <2>4
  <2>7. \A f \in Streams : DOMAIN files[f] = {}
    BY <2>4
  <2>8. \A f \in FileNames : files[f][1][1] # "suite"
    BY <2>3, <2>4
  <2>9. SoundFiles(files, xml_printed, NextReport)
    BY <1>1, <2>4, <2>5, <2>6, <2>7, <2>8 DEF SoundFiles
  <2> QED
    BY <1>1, <2>9 DEF FilesInv
<1> QED
  BY <1>3, <1>4, <1>5, <1>6 DEF ReportInv

\* Every step keeps the invariant.
LEMMA NextKeepsInv ==
    ASSUME ReportInv, [Next]_vars
    PROVE  ReportInv'
<1>1. CASE \/ \E o \in Outputs : cmocka_set_message_output(o)
           \/ \E name \in GroupNames, n \in 0 .. Max(ToSet(MaxTests)) : group_start(name, n)
  BY <1>1, StartKeepsInv
<1>2. CASE \/ \E text \in PassingTexts("setup") : group_setup_passes(text)
           \/ \E text \in FailingTexts("setup") : group_setup_fails(text)
           \/ \E text \in PassingTexts("teardown") : group_teardown_passes(text)
           \/ \E text \in FailingTexts("teardown") : group_teardown_fails(text)
  BY <1>2, FixturesKeepInv
<1>3. CASE \E outcome \in Outcomes : run_one_tests(outcome)
  BY <1>3, TestsKeepInv
<1>4. CASE (\E leaked \in BOOLEAN : group_finish(leaked)) \/ group_returned
  BY <1>4, FinishKeepsInv
<1>5. CASE UNCHANGED vars
  <2>1. /\ UNCHANGED <<environment, outputVars, xmlVars>> /\ group' = group
        /\ cm_error_message' = cm_error_message /\ results' = results
    BY <1>5 DEF vars
  <2>2. GroupInv'
    BY <2>1 DEF ReportInv, GroupInv
  <2>3. MessageInv
    BY DEF ReportInv
  <2>4. MessageInv'
    BY <2>1, <2>3 DEF MessageInv, MessagesAreOwn
  <2>5. NextReport' = NextReport
    BY <2>1 DEF NextReport
  <2> QED
    BY <2>1, <2>2, <2>4, <2>5, QuietStep
<1>6. CASE program_ends
  BY <1>5, <1>6 DEF program_ends
<1> QED
  BY <1>1, <1>2, <1>3, <1>4, <1>5, <1>6 DEF Next

-----------------------------------------------------------------------------
(* Induction and recursion, with sets in the place of formulas.            *)

\* A set of natural numbers that is not empty has a least element.
LEMMA LeastElement ==
    ASSUME NEW T, T \subseteq Nat, T # {}
    PROVE  \E x \in T : \A y \in T : x <= y
<1> DEFINE R == OpToRel(<, Nat)
<1>1. IsWellFoundedOn(R, Nat)
  BY NatLessThanWellFounded
<1>2. \A x, y \in Nat : y < x => <<y, x>> \in R
  BY DEF OpToRel
<1> HIDE DEF R
<1>3. PICK x \in T : \A y \in T : ~ (<<y, x>> \in R)
  BY <1>1, WFMin
<1>4. ASSUME NEW y \in T PROVE x <= y
  <2>1. x \in Nat /\ y \in Nat
    OBVIOUS
  <2>2. ~ (y < x)
    BY <1>2, <1>3, <2>1
  <2> QED
    BY <2>1, <2>2
<1> QED
  BY <1>4

\* Induction: a set with 0 and the successor of each of its elements.
LEMMA Induction ==
    ASSUME NEW S, 0 \in S, \A n \in Nat : n \in S => n + 1 \in S
    PROVE  \A n \in Nat : n \in S
<1> SUFFICES ASSUME NEW m \in Nat, m \notin S PROVE FALSE
  OBVIOUS
<1> DEFINE T == {n \in Nat : n \notin S}
<1>1. PICK x \in T : \A y \in T : x <= y
  <2>1. T \subseteq Nat /\ T # {}
    OBVIOUS
  <2> HIDE DEF T
  <2> QED
    BY <2>1, LeastElement
<1>2. x \in Nat /\ x \notin S /\ x # 0
  OBVIOUS
<1>3. x - 1 \in Nat /\ (x - 1) + 1 = x
  BY <1>2
<1>4. x - 1 \notin T
  <2>1. ~ (x <= x - 1)
    BY <1>2
  <2> HIDE DEF T
  <2> QED
    BY <1>1, <2>1
<1> QED
  BY <1>2, <1>3, <1>4

\* n steps from a value, each a function of the value before it.
Runs(V, base, n, step) ==
    {f \in [0 .. n -> V] : f[0] = base /\ \A i \in 1 .. n : f[i] = step[i][f[i - 1]]}

\* Recursion: there is such a run.
LEMMA Recursion ==
    ASSUME NEW V, NEW base \in V, NEW n \in Nat,
           NEW step \in [1 .. n -> [V -> V]]
    PROVE  Runs(V, base, n, step) # {}
<1> DEFINE Solves(f, k) == f[0] = base /\ \A i \in 1 .. k : f[i] = step[i][f[i - 1]]
           S == {k \in Nat : k <= n => \E f \in [0 .. k -> V] : Solves(f, k)}
<1>1. 0 \in S
  <2>1. [i \in 0 .. 0 |-> base] \in [0 .. 0 -> V]
    OBVIOUS
  <2>2. Solves([i \in 0 .. 0 |-> base], 0)
    OBVIOUS
  <2> QED
    BY <2>1, <2>2
<1>2. ASSUME NEW k \in Nat, k \in S PROVE k + 1 \in S
  <2> SUFFICES ASSUME k + 1 <= n PROVE \E f \in [0 .. k + 1 -> V] : Solves(f, k + 1)
    OBVIOUS
  <2>1. PICK f \in [0 .. k -> V] : Solves(f, k)
    BY <1>2
  <2> DEFINE g == [i \in 0 .. k + 1 |-> IF i <= k THEN f[i] ELSE step[k + 1][f[k]]]
  <2>2. k \in 0 .. k /\ f[k] \in V /\ step[k + 1] \in [V -> V]
    OBVIOUS
  <2>3. step[k + 1][f[k]] \in V
    BY <2>2
  <2>4. g \in [0 .. k + 1 -> V]
    BY <2>3
  <2>5. Solves(g, k + 1)
    <3>1. g[0] = base
      BY <2>1
    <3>2. ASSUME NEW i \in 1 .. k + 1 PROVE g[i] = step[i][g[i - 1]]
      <4>1. CASE i <= k
        <5>1. i \in 1 .. k /\ g[i] = f[i] /\ g[i - 1] = f[i - 1]
          BY <4>1
        <5> QED
          BY <2>1, <5>1
      <4>2. CASE i = k + 1
        <5>1. g[i] = step[k + 1][f[k]] /\ g[i - 1] = f[k]
          BY <4>2
        <5> QED
          BY <4>2, <5>1
      <4> QED
        BY <4>1, <4>2
    <3> QED
      BY <3>1, <3>2
  <2> HIDE DEF g, Solves
  <2> QED
    BY <2>4, <2>5
<1>3. n \in S
  <2> HIDE DEF S
  <2> QED
    BY <1>1, <1>2, Induction
<1> QED
  BY <1>3 DEF Runs

-----------------------------------------------------------------------------
(* Lines.                                                                  *)

LineFormats == Formats \cup {"stderr"}
TestKinds   == {"success", "failure", "skip", "error"}
LineKinds   == TestKinds \cup {"start", "running", "version", "plan", "run", "passed", "message",
                  "listed_skipped", "total_skipped", "listed_failed", "total_failed",
                  "group_ok", "group_not_ok", "tests", "failures", "errors", "skipped"}
Printable   == LineFormats \X LineKinds \X Nat \X Seq(Pieces)

\* The formats that report while a group runs.
Live == {"STANDARD", "SUBUNIT", "TAP"}

\* The positions in s of the lines of format f and these kinds.
Hits(s, f, kinds)  == {k \in 1 .. Len(s) : s[k][1] = f /\ s[k][2] \in kinds}
Count(s, f, kinds) == Cardinality(Hits(s, f, kinds))

\* The positions of a second report follow those of the first one.
LEMMA HitsConcat ==
    ASSUME NEW s \in Seq(Printable), NEW t \in Seq(Printable), NEW f, NEW kinds
    PROVE  /\ s \o t \in Seq(Printable) /\ Len(s \o t) = Len(s) + Len(t)
           /\ \A k \in 1 .. Len(s) : (s \o t)[k] = s[k]
           /\ \A k \in 1 .. Len(t) : (s \o t)[Len(s) + k] = t[k]
           /\ Hits(s \o t, f, kinds)
                 = Hits(s, f, kinds) \cup {Len(s) + k : k \in Hits(t, f, kinds)}
<1> DEFINE st == s \o t
           m == Len(s)
           n == Len(t)
<1>1. m \in Nat /\ n \in Nat
  OBVIOUS
<1>2. st \in Seq(Printable) /\ Len(st) = m + n
      /\ \A k \in 1 .. m + n : st[k] = IF k <= m THEN s[k] ELSE t[k - m]
  BY ConcatProperties
<1> HIDE DEF st, m, n
<1>3. \A k \in 1 .. m : st[k] = s[k]
  BY <1>1, <1>2
<1>4. \A k \in 1 .. n : st[m + k] = t[k]
  <2> SUFFICES ASSUME NEW k \in 1 .. n PROVE st[m + k] = t[k]
    OBVIOUS
  <2>1. m + k \in 1 .. m + n /\ ~ (m + k <= m) /\ (m + k) - m = k
    BY <1>1
  <2> QED
    BY <1>2, <2>1
<1>5. ASSUME NEW k \in Hits(st, f, kinds)
      PROVE  k \in Hits(s, f, kinds) \cup {m + l : l \in Hits(t, f, kinds)}
  <2>1. k \in 1 .. m + n /\ st[k][1] = f /\ st[k][2] \in kinds
    BY <1>2 DEF Hits
  <2>2. CASE k <= m
    <3>1. k \in 1 .. m
      BY <1>1, <2>1, <2>2
    <3> QED
      BY <1>3, <2>1, <3>1 DEF Hits, m
  <2>3. CASE ~ (k <= m)
    <3>1. k - m \in 1 .. n /\ m + (k - m) = k
      BY <1>1, <2>1, <2>3
    <3>2. st[k] = t[k - m]
      BY <1>2, <2>1, <2>3
    <3>3. k - m \in Hits(t, f, kinds)
      BY <2>1, <3>1, <3>2 DEF Hits, n
    <3> QED
      BY <3>1, <3>3
  <2> QED
    BY <2>2, <2>3
<1>6. ASSUME NEW k \in Hits(s, f, kinds) PROVE k \in Hits(st, f, kinds)
  <2>1. k \in 1 .. m /\ s[k][1] = f /\ s[k][2] \in kinds
    BY DEF Hits, m
  <2>2. k \in 1 .. m + n
    BY <1>1, <2>1
  <2> QED
    BY <1>2, <1>3, <2>1, <2>2 DEF Hits
<1>7. ASSUME NEW k \in Hits(t, f, kinds) PROVE m + k \in Hits(st, f, kinds)
  <2>1. k \in 1 .. n /\ t[k][1] = f /\ t[k][2] \in kinds
    BY DEF Hits, n
  <2>2. m + k \in 1 .. m + n
    BY <1>1, <2>1
  <2> QED
    BY <1>2, <1>4, <2>1, <2>2 DEF Hits
<1> QED
  BY <1>2, <1>3, <1>4, <1>5, <1>6, <1>7 DEF st, m, n

\* A count is a number.
LEMMA CountType ==
    ASSUME NEW s \in Seq(Printable), NEW f, NEW kinds
    PROVE  /\ IsFiniteSet(Hits(s, f, kinds)) /\ Count(s, f, kinds) \in Nat
           /\ Count(s, f, kinds) = 0 <=> Hits(s, f, kinds) = {}
<1>1. IsFiniteSet(1 .. Len(s))
  BY FS_Interval
<1>2. Hits(s, f, kinds) \in SUBSET (1 .. Len(s))
  BY DEF Hits
<1>3. IsFiniteSet(Hits(s, f, kinds))
  BY <1>1, <1>2, FS_Subset
<1> QED
  BY <1>3, FS_CardinalityType, FS_EmptySet DEF Count

\* Counts are added.
LEMMA CountConcat ==
    ASSUME NEW s \in Seq(Printable), NEW t \in Seq(Printable), NEW f, NEW kinds
    PROVE  Count(s \o t, f, kinds) = Count(s, f, kinds) + Count(t, f, kinds)
<1> DEFINE S == Hits(s, f, kinds)
           T == Hits(t, f, kinds)
           m == Len(s)
           U == {m + k : k \in T}
           shift == [k \in T |-> m + k]
<1>1. m \in Nat /\ S \subseteq 1 .. m /\ T \subseteq Nat \ {0}
  BY DEF Hits
<1>2. Hits(s \o t, f, kinds) = S \cup U
  BY HitsConcat
<1>3. IsFiniteSet(S) /\ IsFiniteSet(T) /\ Cardinality(S) \in Nat /\ Cardinality(T) \in Nat
  BY CountType DEF Count
<1> HIDE DEF S, T, m
<1>4. shift \in Surjection(T, U) /\ shift \in Injection(T, U)
  <2>1. shift \in [T -> U]
    OBVIOUS
  <2>2. \A u \in U : \E k \in T : shift[k] = u
    OBVIOUS
  <2>3. \A k, l \in T : shift[k] = shift[l] => k = l
    BY <1>1
  <2> QED
    BY <2>1, <2>2, <2>3, Fun_IsSurj, Fun_IsInj
<1>5. IsFiniteSet(U) /\ Cardinality(U) = Cardinality(T)
  <2> HIDE DEF U, shift
  <2> QED
    BY <1>3, <1>4, FS_Surjection
<1>6. S \cap U = {}
  BY <1>1
<1>7. Cardinality(S \cup U) = Cardinality(S) + Cardinality(U) - Cardinality(S \cap U)
  <2> HIDE DEF U
  <2> QED
    BY <1>3, <1>5, FS_Union
<1>8. Cardinality(S \cap U) = 0
  BY <1>6, FS_EmptySet
<1>9. Cardinality(S \cup U) = Cardinality(S) + Cardinality(T)
  BY <1>3, <1>5, <1>7, <1>8
<1> QED
  BY <1>2, <1>9 DEF Count, S, T

\* No line, and one line.
LEMMA CountLine ==
    ASSUME NEW line \in Printable, NEW f, NEW kinds
    PROVE  /\ <<>> \in Seq(Printable) /\ Hits(<<>>, f, kinds) = {} /\ Count(<<>>, f, kinds) = 0
           /\ <<line>> \in Seq(Printable) /\ Len(<<line>>) = 1 /\ <<line>>[1] = line
           /\ Hits(<<line>>, f, kinds) = IF line[1] = f /\ line[2] \in kinds THEN {1} ELSE {}
           /\ Count(<<line>>, f, kinds) = IF line[1] = f /\ line[2] \in kinds THEN 1 ELSE 0
<1>1. Hits(<<>>, f, kinds) = {}
  BY DEF Hits
<1>2. PICK s : s = <<line>>
  OBVIOUS
<1>3. s \in Seq(Printable) /\ Len(s) = 1 /\ s[1] = line
  BY <1>2
<1>4. Hits(s, f, kinds) = IF line[1] = f /\ line[2] \in kinds THEN {1} ELSE {}
  <2>1. 1 .. Len(s) = {1}
    BY <1>3
  <2> QED
    BY <1>3, <2>1 DEF Hits
<1>5. <<>> \in Seq(Printable)
  OBVIOUS
<1> QED
  BY <1>1, <1>2, <1>3, <1>4, <1>5, FS_EmptySet, FS_Singleton DEF Count

\* Lines of which none is of this format and one of the kinds.
LEMMA NoHits ==
    ASSUME NEW L, NEW t \in Seq(L), NEW f, NEW kinds,
           \A l \in L : ~ (l[1] = f /\ l[2] \in kinds)
    PROVE  Hits(t, f, kinds) = {} /\ Count(t, f, kinds) = 0
<1>1. \A k \in 1 .. Len(t) : t[k] \in L
  OBVIOUS
<1>2. Hits(t, f, kinds) = {}
  BY <1>1 DEF Hits
<1> QED
  BY <1>2, FS_EmptySet DEF Count

\* Lines of a part of a set are lines of the set.
LEMMA MoreLines ==
    ASSUME NEW L, NEW M, L \subseteq M, NEW t \in Seq(L)
    PROVE  t \in Seq(M)
  OBVIOUS

\* The lines of a test or fixture, which are of this kind and in TAP have its number.
CmLines(kind, number) ==
    {l \in Printable : /\ l[1] \in {"STANDARD", "SUBUNIT", "TAP"} /\ l[2] = kind
                       /\ l[1] = "TAP" => l[3] = number /\ kind # "start"}

\* One line in each format that is configured.
LEMMA OneLineEach ==
    ASSUME NEW kind \in TestKinds \cup {"start"}, NEW number \in Nat,
           NEW message \in Seq(Pieces), NEW kinds
    PROVE  /\ cmprintf(kind, number, message) \in Seq(CmLines(kind, number))
           /\ \A f \in {"STANDARD", "SUBUNIT", "TAP"} :
                 Count(cmprintf(kind, number, message), f, kinds)
                    = IF /\ f \in cm_get_output /\ kind \in kinds
                         /\ f = "TAP" => kind # "start"
                      THEN 1 ELSE 0
<1> DEFINE L == CmLines(kind, number)
           shown == Shown(kind, message)
           a == <<"STANDARD", kind, 0, shown>>
           b == <<"SUBUNIT", kind, 0, shown>>
           c == <<"TAP", kind, number, shown>>
           x == IF "STANDARD" \in cm_get_output THEN <<a>> ELSE <<>>
           y == IF "SUBUNIT" \in cm_get_output THEN <<b>> ELSE <<>>
           z == IF "TAP" \in cm_get_output /\ kind # "start" THEN <<c>> ELSE <<>>
<1>1. cmprintf(kind, number, message) = (x \o y) \o z
  BY DEF cmprintf, In, cmprintf_standard, cmprintf_subunit, cmprintf_tap, If
<1>2. shown \in Seq(Pieces)
  BY DEF Shown
<1>3. a \in Printable /\ b \in Printable /\ c \in Printable
  <2> HIDE DEF shown
  <2> QED
    BY <1>2 DEF Printable, LineFormats, Formats, LineKinds
<1>4. /\ a[1] = "STANDARD" /\ a[2] = kind /\ b[1] = "SUBUNIT" /\ b[2] = kind
      /\ c[1] = "TAP" /\ c[2] = kind /\ c[3] = number
  OBVIOUS
<1> HIDE DEF a, b, c
<1>5. a \in L /\ b \in L /\ (kind # "start" => c \in L)
  BY <1>3, <1>4 DEF CmLines
<1> HIDE DEF L
<1>6. x \in Seq(L) /\ y \in Seq(L) /\ z \in Seq(L)
  <2>1. <<a>> \in Seq(L) /\ <<b>> \in Seq(L) /\ <<>> \in Seq(L)
        /\ (kind # "start" => <<c>> \in Seq(L))
    BY <1>5
  <2>2. PICK p, q, r, e : p = <<a>> /\ q = <<b>> /\ r = <<c>> /\ e = <<>>
    OBVIOUS
  <2>3. x \in {p, e} /\ y \in {q, e} /\ (z = e \/ (z = r /\ kind # "start"))
    BY <2>2
  <2> HIDE DEF x, y, z
  <2> QED
    BY <2>1, <2>2, <2>3
<1>7. L \subseteq Printable
  BY DEF L, CmLines
<1>8. x \in Seq(Printable) /\ y \in Seq(Printable) /\ z \in Seq(Printable)
  BY <1>6, <1>7
<1>9. ASSUME NEW f \in {"STANDARD", "SUBUNIT", "TAP"}
      PROVE  Count((x \o y) \o z, f, kinds) = Count(x, f, kinds) + Count(y, f, kinds) + Count(z, f, kinds)
  <2> HIDE DEF x, y, z
  <2>1. PICK u : u = x \o y
    OBVIOUS
  <2>2. u \in Seq(Printable) /\ Count(u, f, kinds) = Count(x, f, kinds) + Count(y, f, kinds)
    BY <1>8, <2>1, ConcatProperties, CountConcat
  <2>3. Count(u \o z, f, kinds) = Count(u, f, kinds) + Count(z, f, kinds)
    BY <1>8, <2>2, CountConcat
  <2> QED
    BY <2>1, <2>2, <2>3
<1>10. ASSUME NEW f \in {"STANDARD", "SUBUNIT", "TAP"}
       PROVE  /\ Count(x, f, kinds) = IF "STANDARD" \in cm_get_output /\ f = "STANDARD" /\ kind \in kinds THEN 1 ELSE 0
              /\ Count(y, f, kinds) = IF "SUBUNIT" \in cm_get_output /\ f = "SUBUNIT" /\ kind \in kinds THEN 1 ELSE 0
              /\ Count(z, f, kinds) = IF "TAP" \in cm_get_output /\ kind # "start" /\ f = "TAP" /\ kind \in kinds THEN 1 ELSE 0
  <2>1. /\ Count(<<>>, f, kinds) = 0
        /\ Count(<<a>>, f, kinds) = IF a[1] = f /\ a[2] \in kinds THEN 1 ELSE 0
        /\ Count(<<b>>, f, kinds) = IF b[1] = f /\ b[2] \in kinds THEN 1 ELSE 0
        /\ Count(<<c>>, f, kinds) = IF c[1] = f /\ c[2] \in kinds THEN 1 ELSE 0
    BY <1>3, CountLine
  <2> QED
    BY <1>4, <2>1
<1>11. (x \o y) \o z \in Seq(L)
  <2> HIDE DEF x, y, z
  <2> QED
    BY <1>6, ConcatProperties
<1>12. ASSUME NEW f \in {"STANDARD", "SUBUNIT", "TAP"}
       PROVE  Count((x \o y) \o z, f, kinds)
                 = IF f \in cm_get_output /\ kind \in kinds /\ (f = "TAP" => kind # "start")
                   THEN 1 ELSE 0
  <2> HIDE DEF x, y, z
  <2>1. CASE f = "STANDARD"
    BY <1>9, <1>10, <2>1
  <2>2. CASE f = "SUBUNIT"
    BY <1>9, <1>10, <2>2
  <2>3. CASE f = "TAP"
    BY <1>9, <1>10, <2>3
  <2> QED
    BY <2>1, <2>2, <2>3
<1> QED
  BY <1>1, <1>11, <1>12 DEF L

OutKinds         == TestKinds \cup {"start"}
HasLine(f, kind) == f = "TAP" => kind # "start"

\* The same in short.
LEMMA OneLine ==
    ASSUME NEW kind, kind \in OutKinds, NEW number, number \in Nat,
           NEW message, message \in Seq(Pieces), NEW kinds, NEW f, f \in Live
    PROVE  Count(cmprintf(kind, number, message), f, kinds)
              = IF f \in cm_get_output /\ kind \in kinds /\ HasLine(f, kind) THEN 1 ELSE 0
  BY OneLineEach DEF OutKinds, HasLine, Live

-----------------------------------------------------------------------------
(* TAP.                                                                    *)

\* The positions in s of the TAP lines of tests; fixtures have number 0.
Numbered(s) == {k \in Hits(s, "TAP", TestKinds) : s[k][3] > 0}

\* There is one, with this number.
OneNumbered(s, number) == \E j : Numbered(s) = {j} /\ s[j][3] = number

\* The TAP lines in s have a plan for this many tests, and n tests have run.
TapShape(s, tests, n, first) ==
    /\ {s[k][3] : k \in Numbered(s)} = 1 .. n
    /\ \A k, l \in Numbered(s) : k < l => s[k][3] < s[l][3]
    /\ \E p : Hits(s, "TAP", {"plan"}) = {p} /\ s[p][3] = tests
    /\ first => Hits(s, "TAP", {"version"}) # {}
    /\ \A k \in Hits(s, "TAP", {"version"}), l \in 1 .. Len(s) : s[l][1] = "TAP" => k <= l

\* The tests of two reports.
LEMMA NumberedConcat ==
    ASSUME NEW s \in Seq(Printable), NEW t \in Seq(Printable)
    PROVE  Numbered(s \o t) = Numbered(s) \cup {Len(s) + k : k \in Numbered(t)}
<1>1. PICK st, m : st = s \o t /\ m = Len(s)
  OBVIOUS
<1>2. PICK S, T : S = Hits(s, "TAP", TestKinds) /\ T = Hits(t, "TAP", TestKinds)
  OBVIOUS
<1>3. /\ \A k \in 1 .. m : st[k] = s[k]
      /\ \A k \in 1 .. Len(t) : st[m + k] = t[k]
      /\ Hits(st, "TAP", TestKinds) = S \cup {m + k : k \in T}
  BY <1>1, <1>2, HitsConcat
<1>4. S \subseteq 1 .. m /\ T \subseteq 1 .. Len(t)
  BY <1>1, <1>2 DEF Hits
<1>5. Numbered(st) = Numbered(s) \cup {m + k : k \in Numbered(t)}
  BY <1>2, <1>3, <1>4 DEF Numbered
<1> QED
  BY <1>1, <1>5

\* Lines without plan and version go on with the tests: with none, or the next one.
LEMMA TapGoesOn ==
    ASSUME NEW s \in Seq(Printable), NEW t \in Seq(Printable), NEW tests, NEW n \in Nat,
           NEW first, TapShape(s, tests, n, first),
           Hits(t, "TAP", {"plan"}) = {}, Hits(t, "TAP", {"version"}) = {}
    PROVE  /\ Numbered(t) = {} => TapShape(s \o t, tests, n, first)
           /\ \A j : (Numbered(t) = {j} /\ t[j][3] = n + 1) => TapShape(s \o t, tests, n + 1, first)
<1>1. PICK st, m : st = s \o t /\ m \in Nat /\ m = Len(s)
  <2>1. Len(s) \in Nat
    OBVIOUS
  <2> QED
    BY <2>1
<1>2. PICK l \in Nat : l = Len(t) /\ Len(st) = m + l
  BY <1>1, HitsConcat
<1>3. /\ \A k \in 1 .. m : st[k] = s[k]
      /\ \A k \in 1 .. l : st[m + k] = t[k]
  BY <1>1, <1>2, HitsConcat
<1>4. PICK N, M : N = Numbered(s) /\ M = Numbered(t)
  OBVIOUS
<1>5. Numbered(st) = N \cup {m + k : k \in M}
  BY <1>1, <1>4, NumberedConcat
<1>6. N \subseteq 1 .. m /\ M \subseteq 1 .. l
  BY <1>1, <1>2, <1>4 DEF Numbered, Hits
<1>7. /\ {s[k][3] : k \in N} = 1 .. n
      /\ \A k, h \in N : k < h => s[k][3] < s[h][3]
  BY <1>4 DEF TapShape
<1>8. \E p : Hits(st, "TAP", {"plan"}) = {p} /\ st[p][3] = tests
  <2>1. PICK p : Hits(s, "TAP", {"plan"}) = {p} /\ s[p][3] = tests
    BY DEF TapShape
  <2>2. Hits(st, "TAP", {"plan"}) = {p}
    BY <1>1, <2>1, HitsConcat
  <2>3. p \in 1 .. m
    BY <1>1, <2>1 DEF Hits
  <2> QED
    BY <1>3, <2>1, <2>2, <2>3
<1>9. Hits(st, "TAP", {"version"}) = Hits(s, "TAP", {"version"})
  <2>1. Hits(st, "TAP", {"version"})
           = Hits(s, "TAP", {"version"}) \cup {m + k : k \in Hits(t, "TAP", {"version"})}
    BY <1>1, HitsConcat
  <2> QED
    BY <2>1
<1>10. first => Hits(st, "TAP", {"version"}) # {}
  BY <1>9 DEF TapShape
<1>11. ASSUME NEW k \in Hits(st, "TAP", {"version"}), NEW h \in 1 .. Len(st), st[h][1] = "TAP"
       PROVE  k <= h
  <2>1. k \in 1 .. m /\ k \in Hits(s, "TAP", {"version"})
    BY <1>1, <1>9 DEF Hits
  <2>2. CASE h <= m
    <3>1. h \in 1 .. m /\ s[h][1] = "TAP"
      BY <1>1, <1>2, <1>3, <1>11, <2>2
    <3> QED
      BY <1>1, <2>1, <3>1 DEF TapShape
  <2> QED
    BY <1>1, <1>2, <2>1, <2>2
<1>12. CASE M = {}
  <2>1. Numbered(st) = N
    BY <1>5, <1>12
  <2>2. {st[k][3] : k \in N} = 1 .. n
    BY <1>3, <1>6, <1>7
  <2>3. \A k, h \in N : k < h => st[k][3] < st[h][3]
    BY <1>3, <1>6, <1>7
  <2>4. TapShape(st, tests, n, first)
    BY <1>8, <1>10, <1>11, <2>1, <2>2, <2>3 DEF TapShape
  <2>5. \A j : M # {j}
    BY <1>12
  <2> QED
    BY <1>1, <1>4, <2>4, <2>5
<1>13. ASSUME NEW j, M = {j}, t[j][3] = n + 1
       PROVE  TapShape(st, tests, n + 1, first)
  <2>1. j \in 1 .. l /\ st[m + j][3] = n + 1
    BY <1>3, <1>6, <1>13
  <2>2. PICK h : h = m + j
    OBVIOUS
  <2>3. h \notin N /\ h \in Nat /\ \A k \in N : k < h
    BY <1>1, <1>6, <2>1, <2>2
  <2>4. Numbered(st) = N \cup {h}
    BY <1>5, <1>13, <2>2
  <2>5. \A k \in N : st[k] = s[k] /\ s[k][3] \in 1 .. n
    BY <1>3, <1>6, <1>7
  <2>6. {st[k][3] : k \in N \cup {h}} = 1 .. n + 1
    <3>1. ASSUME NEW v \in 1 .. n + 1 PROVE \E k \in N \cup {h} : st[k][3] = v
      <4>1. CASE v = n + 1
        BY <2>1, <2>2, <4>1
      <4>2. CASE v \in 1 .. n
        <5>1. PICK k \in N : s[k][3] = v
          BY <1>7, <4>2
        <5> QED
          BY <2>5, <5>1
      <4> QED
        BY <4>1, <4>2
    <3>2. ASSUME NEW k \in N \cup {h} PROVE st[k][3] \in 1 .. n + 1
      <4>1. CASE k \in N
        BY <2>5, <4>1
      <4>2. CASE k = h
        BY <2>1, <2>2, <4>2
      <4> QED
        BY <4>1, <4>2
    <3> QED
      BY <3>1, <3>2
  <2>7. ASSUME NEW k \in N \cup {h}, NEW g \in N \cup {h}, k < g
        PROVE  st[k][3] < st[g][3]
    <3>1. CASE g \in N
      <4>1. k \in N
        BY <1>6, <2>3, <2>7, <3>1
      <4> QED
        BY <1>7, <2>5, <2>7, <3>1, <4>1
    <3>2. CASE g = h
      <4>1. k \in N
        BY <2>3, <2>7, <3>2
      <4> QED
        BY <2>1, <2>2, <2>5, <3>2, <4>1
    <3> QED
      BY <3>1, <3>2
  <2> QED
    BY <1>8, <1>10, <1>11, <2>4, <2>6, <2>7 DEF TapShape
<1>14. CASE M # {}
  BY <1>1, <1>4, <1>13, <1>14
<1> QED
  BY <1>12, <1>14

-----------------------------------------------------------------------------
(* What is printed before the end of a group.                              *)

EarlyKinds == TestKinds \cup {"start", "running", "version", "plan", "message"}
Early      == {l \in Printable : l[1] # "XML" /\ l[2] \in EarlyKinds}
Bad        == {"failure", "error"}

\* The start of a group: TAP has a plan and no tests, and unless it was printed
\* before, a version.
LEMMA StartText ==
    ASSUME NEW n \in Nat
    PROVE  /\ cmprintf_group_start(n) \in Seq(Early)
           /\ \A f : Count(cmprintf_group_start(n), f, Bad) = 0
           /\ "TAP" \in cm_get_output =>
                 TapShape(cmprintf_group_start(n), n, 0, ~ version_printed)
<1>1. PICK r, v, p : /\ r = <<"STANDARD", "running", n, <<>>>>
                     /\ v = <<"TAP", "version", 13, <<>>>>
                     /\ p = <<"TAP", "plan", n, <<>>>>
  OBVIOUS
<1>2. /\ r[1] = "STANDARD" /\ r[2] = "running"
      /\ v[1] = "TAP" /\ v[2] = "version"
      /\ p[1] = "TAP" /\ p[2] = "plan" /\ p[3] = n
  BY <1>1
<1> DEFINE L == {r, v, p}
           x == IF "STANDARD" \in cm_get_output THEN <<r>> ELSE <<>>
           y == IF version_printed THEN <<p>> ELSE <<v, p>>
           z == IF "TAP" \in cm_get_output THEN y ELSE <<>>
<1>3. L \subseteq Early
  <2>1. PICK e : e = <<>> /\ e \in Seq(Pieces)
    <3>1. <<>> \in Seq(Pieces)
      BY EmptySeq
    <3> QED
      BY <3>1
  <2>2. /\ r = <<"STANDARD", "running", n, e>> /\ v = <<"TAP", "version", 13, e>>
        /\ p = <<"TAP", "plan", n, e>>
    BY <1>1, <2>1
  <2>3. r \in Printable /\ v \in Printable /\ p \in Printable
    BY <2>1, <2>2 DEF Printable, LineFormats, Formats, LineKinds
  <2> QED
    BY <1>2, <2>3 DEF Early, EarlyKinds
<1>4. x \in Seq(L) /\ y \in Seq(L) /\ z \in Seq(L)
  <2>1. <<r>> \in Seq(L) /\ <<p>> \in Seq(L) /\ <<v, p>> \in Seq(L) /\ <<>> \in Seq(L)
    OBVIOUS
  <2> HIDE DEF L
  <2> QED
    BY <2>1
<1>5. cmprintf_group_start(n) = x \o z
  <2>1. cmprintf_group_start_tap(n) = y
    <3>1. CASE version_printed
      BY <1>1, <3>1 DEF cmprintf_group_start_tap, If
    <3>2. CASE ~ version_printed
      <4>1. cmprintf_group_start_tap(n) = <<v>> \o <<p>>
        BY <1>1, <3>2 DEF cmprintf_group_start_tap, If
      <4>2. PICK a, b, c : a = <<v>> /\ b = <<p>> /\ c = a \o b
        OBVIOUS
      <4>3. a \in Seq(L) /\ b \in Seq(L) /\ Len(a) = 1 /\ Len(b) = 1 /\ a[1] = v /\ b[1] = p
        BY <4>2
      <4>4. c \in Seq(L) /\ Len(c) = 2 /\ c[1] = v /\ c[2] = p
        <5> HIDE DEF L
        <5> QED
          BY <4>2, <4>3, ConcatProperties
      <4>5. c = <<v, p>>
        <5>1. PICK d : d = <<v, p>>
          OBVIOUS
        <5>2. d \in Seq(L) /\ Len(d) = 2 /\ d[1] = v /\ d[2] = p
          BY <5>1
        <5> HIDE DEF L
        <5>3. \A i \in 1 .. 2 : c[i] = d[i]
          BY <4>4, <5>2
        <5> QED
          BY <4>4, <5>1, <5>2, <5>3, SeqEqual
      <4> QED
        BY <3>2, <4>1, <4>2, <4>5
    <3> QED
      BY <3>1, <3>2
  <2> HIDE DEF y
  <2> QED
    BY <1>1, <2>1 DEF cmprintf_group_start, In, cmprintf_group_start_standard
<1>6. x \o z \in Seq(L)
  <2> HIDE DEF L, x, z
  <2> QED
    BY <1>4, ConcatProperties
<1>7. x \o z \in Seq(Early)
  <2> HIDE DEF L, x, z
  <2> QED
    BY <1>3, <1>6, MoreLines
<1>8. ASSUME NEW f PROVE Count(x \o z, f, Bad) = 0
  <2>1. \A l \in L : ~ (l[1] = f /\ l[2] \in Bad)
    BY <1>2 DEF Bad
  <2>2. PICK w : w = x \o z
    OBVIOUS
  <2> HIDE DEF L, x, z
  <2>3. w \in Seq(L)
    BY <1>6, <2>2
  <2>4. Count(w, f, Bad) = 0
    BY <2>1, <2>3, NoHits
  <2> QED
    BY <2>2, <2>4
<1>9. ASSUME "TAP" \in cm_get_output PROVE TapShape(x \o z, n, 0, ~ version_printed)
  <2>1. PICK st, m, h : st = x \o y /\ m = Len(x) /\ h = Len(y)
    OBVIOUS
  <2>2. /\ m \in Nat /\ h \in Nat /\ Len(st) = m + h
        /\ \A k \in 1 .. m : st[k] = x[k]
        /\ \A k \in 1 .. h : st[m + k] = y[k]
    <3>1. L \subseteq Printable
      BY <1>3 DEF Early
    <3>2. x \in Seq(Printable) /\ y \in Seq(Printable)
      <4> HIDE DEF L, x, y
      <4> QED
        BY <1>4, <3>1, MoreLines
    <3> HIDE DEF x, y
    <3> QED
      BY <2>1, <3>2, HitsConcat, LenProperties
  <2>3. \A k \in 1 .. m : x[k] = r
    BY <2>1
  <2>4. CASE version_printed
    <3>1. h = 1 /\ y[1] = p
      BY <2>1, <2>4
    <3>2. st[m + 1] = p /\ \A k \in 1 .. m : st[k] = r
      BY <2>2, <2>3, <3>1
    <3>3. \A k \in 1 .. Len(st) : k = m + 1 \/ k \in 1 .. m
      BY <2>2, <3>1
    <3>4. Hits(st, "TAP", TestKinds) = {} /\ Hits(st, "TAP", {"version"}) = {}
      BY <1>2, <3>2, <3>3 DEF Hits, TestKinds
    <3>5. m + 1 \in 1 .. Len(st)
      BY <2>2, <3>1
    <3>6. Hits(st, "TAP", {"plan"}) = {m + 1}
      BY <1>2, <3>2, <3>3, <3>5 DEF Hits
    <3>7. Numbered(st) = {} /\ 1 .. 0 = {}
      BY <3>4 DEF Numbered
    <3>8. TapShape(st, n, 0, ~ version_printed)
      BY <1>2, <2>4, <3>2, <3>4, <3>6, <3>7 DEF TapShape
    <3> QED
      BY <1>9, <2>1, <3>8
  <2>5. CASE ~ version_printed
    <3>1. h = 2 /\ y[1] = v /\ y[2] = p
      BY <2>1, <2>5
    <3>2. st[m + 1] = v /\ st[m + 2] = p /\ \A k \in 1 .. m : st[k] = r
      BY <2>2, <2>3, <3>1
    <3>3. \A k \in 1 .. Len(st) : k \in {m + 1, m + 2} \/ k \in 1 .. m
      BY <2>2, <3>1
    <3>4. Hits(st, "TAP", TestKinds) = {}
      BY <1>2, <3>2, <3>3 DEF Hits, TestKinds
    <3>5. m + 1 \in 1 .. Len(st) /\ m + 2 \in 1 .. Len(st)
      BY <2>2, <3>1
    <3>6. Hits(st, "TAP", {"plan"}) = {m + 2} /\ Hits(st, "TAP", {"version"}) = {m + 1}
      BY <1>2, <3>2, <3>3, <3>5 DEF Hits
    <3>7. Numbered(st) = {} /\ 1 .. 0 = {}
      BY <3>4 DEF Numbered
    <3>8. ASSUME NEW l \in 1 .. Len(st), st[l][1] = "TAP" PROVE m + 1 <= l
      BY <1>2, <2>2, <3>1, <3>2, <3>8
    <3>9. TapShape(st, n, 0, ~ version_printed)
      BY <1>2, <3>2, <3>6, <3>7, <3>8 DEF TapShape
    <3> QED
      BY <1>9, <2>1, <3>9
  <2> QED
    BY <2>4, <2>5
<1> QED
  BY <1>5, <1>7, <1>8, <1>9

\* The lines of one kind have neither plan nor version, and in TAP one number.
LEMMA CmLinesAre ==
    ASSUME NEW kind \in TestKinds \cup {"start"}, NEW number, NEW t \in Seq(CmLines(kind, number))
    PROVE  /\ t \in Seq(Early) /\ t \in Seq(Printable)
           /\ Hits(t, "TAP", {"plan"}) = {} /\ Hits(t, "TAP", {"version"}) = {}
           /\ \A k \in Hits(t, "TAP", TestKinds) : t[k][3] = number
<1> DEFINE L == CmLines(kind, number)
<1>1. /\ \A l \in L : /\ l \in Printable /\ l[1] # "XML" /\ l[2] = kind
                      /\ l[1] = "TAP" => l[3] = number
  BY DEF CmLines
<1>2. kind # "plan" /\ kind # "version" /\ kind \in EarlyKinds
  BY DEF TestKinds, EarlyKinds
<1>3. t \in Seq(L)
  OBVIOUS
<1> HIDE DEF L
<1>4. L \subseteq Early /\ L \subseteq Printable
  BY <1>1, <1>2 DEF Early
<1>5. t \in Seq(Early) /\ t \in Seq(Printable)
  BY <1>3, <1>4, MoreLines
<1>6. Hits(t, "TAP", {"plan"}) = {} /\ Hits(t, "TAP", {"version"}) = {}
  <2>1. \A k \in 1 .. Len(t) : t[k][2] = kind
    BY <1>1, <1>3
  <2> QED
    BY <1>2, <2>1 DEF Hits
<1>7. \A k \in Hits(t, "TAP", TestKinds) : t[k][3] = number
  <2>1. \A k \in 1 .. Len(t) : t[k][1] = "TAP" => t[k][3] = number
    BY <1>1, <1>3
  <2> QED
    BY <2>1 DEF Hits
<1> QED
  BY <1>5, <1>6, <1>7

\* Two pieces of a report that are printed before the end of the group.
LEMMA Joined ==
    ASSUME NEW x \in Seq(Early), NEW y \in Seq(Early), NEW t, t = x \o y
    PROVE  /\ t \in Seq(Early) /\ t \in Seq(Printable)
           /\ x \in Seq(Printable) /\ y \in Seq(Printable)
           /\ \A f, kinds : /\ Count(t, f, kinds) = Count(x, f, kinds) + Count(y, f, kinds)
                            /\ (Hits(x, f, kinds) = {} /\ Hits(y, f, kinds) = {})
                                   => Hits(t, f, kinds) = {}
           /\ Numbered(t) = Numbered(x) \cup {Len(x) + k : k \in Numbered(y)}
           /\ \A k \in 1 .. Len(y) : t[Len(x) + k] = y[k]
<1>1. Early \subseteq Printable
  BY DEF Early
<1>2. x \in Seq(Printable) /\ y \in Seq(Printable)
  BY <1>1, MoreLines
<1>3. x \o y \in Seq(Early)
  BY ConcatProperties
<1>4. x \o y \in Seq(Printable)
  BY <1>2, ConcatProperties
<1>5. ASSUME NEW f, NEW kinds
      PROVE  /\ Count(x \o y, f, kinds) = Count(x, f, kinds) + Count(y, f, kinds)
             /\ (Hits(x, f, kinds) = {} /\ Hits(y, f, kinds) = {}) => Hits(x \o y, f, kinds) = {}
  <2>1. Hits(x \o y, f, kinds) = Hits(x, f, kinds) \cup {Len(x) + k : k \in Hits(y, f, kinds)}
    BY <1>2, HitsConcat
  <2>2. Count(x \o y, f, kinds) = Count(x, f, kinds) + Count(y, f, kinds)
    BY <1>2, CountConcat
  <2> QED
    BY <2>1, <2>2
<1>6. Numbered(x \o y) = Numbered(x) \cup {Len(x) + k : k \in Numbered(y)}
  BY <1>2, NumberedConcat
<1>7. \A k \in 1 .. Len(y) : (x \o y)[Len(x) + k] = y[k]
  BY <1>2, HitsConcat
<1> QED
  BY <1>2, <1>3, <1>4, <1>5, <1>6, <1>7

\* A test has one line in each format after the one for its start.
LEMMA TestText ==
    ASSUME NEW kind \in TestKinds, NEW number \in Nat \ {0}, NEW message \in Seq(Pieces),
           NEW t, t = cmprintf("start", number, <<>>) \o cmprintf(kind, number, message)
    PROVE  /\ t \in Seq(Early) /\ t \in Seq(Printable)
           /\ Hits(t, "TAP", {"plan"}) = {} /\ Hits(t, "TAP", {"version"}) = {}
           /\ \A f \in Live : Count(t, f, Bad) = IF f \in cm_get_output /\ kind \in Bad THEN 1 ELSE 0
           /\ "TAP" \in cm_get_output => OneNumbered(t, number)
           /\ cmprintf("start", number, <<>>) \in Seq(Early)
           /\ cmprintf(kind, number, message) \in Seq(Early)
<1>1. PICK x, y : x = cmprintf("start", number, <<>>) /\ y = cmprintf(kind, number, message)
  OBVIOUS
<1>2. "start" \in TestKinds \cup {"start"} /\ kind \in TestKinds \cup {"start"}
      /\ <<>> \in Seq(Pieces) /\ kind # "start" /\ "start" \notin Bad /\ "start" \notin TestKinds
  BY EmptySeq DEF TestKinds, Bad
<1>3. /\ x \in Seq(CmLines("start", number)) /\ y \in Seq(CmLines(kind, number))
      /\ \A kinds : \A f \in Live :
            /\ Count(x, f, kinds) = IF f \in cm_get_output /\ "start" \in kinds /\ f # "TAP" THEN 1 ELSE 0
            /\ Count(y, f, kinds) = IF f \in cm_get_output /\ kind \in kinds THEN 1 ELSE 0
  <2>1. /\ x \in Seq(CmLines("start", number)) /\ y \in Seq(CmLines(kind, number))
    BY <1>1, <1>2, OneLineEach
  <2>2. ASSUME NEW kinds, NEW f \in Live
        PROVE  /\ Count(x, f, kinds) = IF f \in cm_get_output /\ "start" \in kinds /\ f # "TAP" THEN 1 ELSE 0
               /\ Count(y, f, kinds) = IF f \in cm_get_output /\ kind \in kinds THEN 1 ELSE 0
    <3>1. f \in {"STANDARD", "SUBUNIT", "TAP"}
      BY DEF Live
    <3>2. Count(x, f, kinds) = IF f \in cm_get_output /\ "start" \in kinds /\ f # "TAP" THEN 1 ELSE 0
      <4>1. PICK s, e : s = "start" /\ e = <<>>
        OBVIOUS
      <4>2. s \in OutKinds /\ e \in Seq(Pieces) /\ number \in Nat
        BY <1>2, <4>1 DEF OutKinds
      <4>3. Count(cmprintf(s, number, e), f, kinds) = IF f \in cm_get_output /\ s \in kinds /\ HasLine(f, s) THEN 1 ELSE 0
        BY <4>2, OneLine
      <4> QED
        BY <1>1, <4>1, <4>3 DEF HasLine
    <3>3. Count(y, f, kinds) = IF f \in cm_get_output /\ kind \in kinds /\ (f = "TAP" => kind # "start") THEN 1 ELSE 0
      BY <1>1, <1>2, <3>1, OneLineEach
    <3> QED
      BY <1>2, <3>2, <3>3
  <2> QED
    BY <2>1, <2>2
<1>4. /\ x \in Seq(Early) /\ x \in Seq(Printable)
      /\ Hits(x, "TAP", {"plan"}) = {} /\ Hits(x, "TAP", {"version"}) = {}
  BY <1>2, <1>3, CmLinesAre
<1>5. /\ y \in Seq(Early) /\ y \in Seq(Printable)
      /\ Hits(y, "TAP", {"plan"}) = {} /\ Hits(y, "TAP", {"version"}) = {}
      /\ \A k \in Hits(y, "TAP", TestKinds) : y[k][3] = number
  BY <1>2, <1>3, CmLinesAre
<1>6. t = x \o y
  BY <1>1
<1>7. /\ t \in Seq(Early) /\ t \in Seq(Printable)
      /\ \A f, kinds : /\ Count(t, f, kinds) = Count(x, f, kinds) + Count(y, f, kinds)
                       /\ (Hits(x, f, kinds) = {} /\ Hits(y, f, kinds) = {})
                              => Hits(t, f, kinds) = {}
      /\ Numbered(t) = Numbered(x) \cup {Len(x) + k : k \in Numbered(y)}
      /\ \A k \in 1 .. Len(y) : t[Len(x) + k] = y[k]
  <2>1. x \in Seq(Early) /\ y \in Seq(Early)
    BY <1>4, <1>5
  <2> QED
    <3>1. \A k \in 1 .. Len(y) : t[Len(x) + k] = y[k]
      BY <1>6, <2>1, Joined
    <3>2. Numbered(t) = Numbered(x) \cup {Len(x) + k : k \in Numbered(y)}
      BY <1>6, <2>1, Joined
    <3>3. /\ t \in Seq(Early) /\ t \in Seq(Printable)
          /\ \A f, kinds : /\ Count(t, f, kinds) = Count(x, f, kinds) + Count(y, f, kinds)
                           /\ (Hits(x, f, kinds) = {} /\ Hits(y, f, kinds) = {})
                                  => Hits(t, f, kinds) = {}
      BY <1>6, <2>1, Joined
    <3> QED
      BY <3>1, <3>2, <3>3
<1>8. Hits(t, "TAP", {"plan"}) = {} /\ Hits(t, "TAP", {"version"}) = {}
  BY <1>4, <1>5, <1>7
<1>9. ASSUME NEW f \in Live
      PROVE  Count(t, f, Bad) = IF f \in cm_get_output /\ kind \in Bad THEN 1 ELSE 0
  <2>1. Count(t, f, Bad) = Count(x, f, Bad) + Count(y, f, Bad)
    BY <1>7
  <2>2. Count(x, f, Bad) = 0
    BY <1>2, <1>3
  <2>3. Count(y, f, Bad) = IF f \in cm_get_output /\ kind \in Bad THEN 1 ELSE 0
    BY <1>3
  <2> QED
    BY <2>1, <2>2, <2>3
<1>10. ASSUME "TAP" \in cm_get_output PROVE OneNumbered(t, number)
  <2>1. "TAP" \in Live
    BY DEF Live
  <2>2. Count(x, "TAP", TestKinds) = 0 /\ Count(y, "TAP", TestKinds) = 1
    BY <1>2, <1>3, <1>10, <2>1
  <2>3. Hits(x, "TAP", TestKinds) = {}
    BY <1>4, <2>2, CountType
  <2>4. PICK j : Hits(y, "TAP", TestKinds) = {j}
    BY <1>5, <2>2, CountType, FS_Singleton DEF Count
  <2>5. y[j][3] = number /\ j \in 1 .. Len(y)
    BY <1>5, <2>4 DEF Hits
  <2>6. Numbered(x) = {} /\ Numbered(y) = {j}
    <3>1. number > 0
      OBVIOUS
    <3> QED
      BY <2>3, <2>4, <2>5, <3>1 DEF Numbered
  <2>7. Numbered(t) = {Len(x) + j} /\ t[Len(x) + j] = y[j]
    <3>1. {Len(x) + k : k \in {j}} = {Len(x) + j}
      OBVIOUS
    <3> QED
      BY <1>7, <2>5, <2>6, <3>1
  <2> QED
    BY <2>5, <2>7 DEF OneNumbered
<1> QED
  BY <1>1, <1>4, <1>5, <1>7, <1>8, <1>9, <1>10

\* A group fixture that failed has one line in each format, and in TAP no number.
LEMMA FixtureText ==
    ASSUME NEW message \in Seq(Pieces), NEW t,
           t = If(message # <<>>, <<"stderr", "message", 0, message>>) \o cmprintf("error", 0, <<>>)
    PROVE  /\ t \in Seq(Early) /\ t \in Seq(Printable)
           /\ Hits(t, "TAP", {"plan"}) = {} /\ Hits(t, "TAP", {"version"}) = {}
           /\ \A f \in Live : Count(t, f, Bad) = IF f \in cm_get_output THEN 1 ELSE 0
           /\ Numbered(t) = {}
           /\ If(message # <<>>, <<"stderr", "message", 0, message>>) \in Seq(Early)
           /\ cmprintf("error", 0, <<>>) \in Seq(Early)
<1>1. PICK l, x, y : /\ l = <<"stderr", "message", 0, message>>
                     /\ x = If(message # <<>>, l) /\ y = cmprintf("error", 0, <<>>)
  OBVIOUS
<1>2. "error" \in TestKinds /\ <<>> \in Seq(Pieces) /\ "error" \in Bad
  BY EmptySeq DEF TestKinds, Bad
<1>3. /\ y \in Seq(CmLines("error", 0))
      /\ \A f \in Live : Count(y, f, Bad) = IF f \in cm_get_output THEN 1 ELSE 0
  <2>1. y \in Seq(CmLines("error", 0))
    BY <1>1, <1>2, OneLineEach
  <2>2. ASSUME NEW f \in Live PROVE Count(y, f, Bad) = IF f \in cm_get_output THEN 1 ELSE 0
    <3>1. f \in {"STANDARD", "SUBUNIT", "TAP"}
      BY DEF Live
    <3>2. Count(y, f, Bad) = IF f \in cm_get_output THEN 1 ELSE 0
      <4>1. PICK k, e : k = "error" /\ e = <<>>
        OBVIOUS
      <4>2. k \in OutKinds /\ e \in Seq(Pieces) /\ 0 \in Nat
        BY <1>2, <4>1 DEF OutKinds
      <4>3. Count(cmprintf(k, 0, e), f, Bad) = IF f \in cm_get_output /\ k \in Bad /\ HasLine(f, k) THEN 1 ELSE 0
        BY <4>2, OneLine
      <4> QED
        BY <1>1, <1>2, <4>1, <4>3 DEF HasLine
    <3> QED
      BY <1>2, <3>2
  <2> QED
    BY <2>1, <2>2
<1>4. l \in Printable /\ l[1] = "stderr" /\ l[2] = "message"
  BY <1>1 DEF Printable, LineFormats, LineKinds
<1>5. l \in Early
  BY <1>4 DEF Early, EarlyKinds
<1>6. x \in Seq({l})
  <2>1. <<l>> \in Seq({l}) /\ <<>> \in Seq({l})
    OBVIOUS
  <2> QED
    BY <1>1, <2>1 DEF If
<1>7. /\ x \in Seq(Early) /\ x \in Seq(Printable)
  <2>1. {l} \subseteq Early /\ {l} \subseteq Printable
    BY <1>4, <1>5
  <2> QED
    BY <1>6, <2>1, MoreLines
<1>8. \A f \in Live : \A kinds : Hits(x, f, kinds) = {} /\ Count(x, f, kinds) = 0
  <2> SUFFICES ASSUME NEW f \in Live, NEW kinds
               PROVE  Hits(x, f, kinds) = {} /\ Count(x, f, kinds) = 0
    OBVIOUS
  <2>1. \A h \in {l} : ~ (h[1] = f /\ h[2] \in kinds)
    BY <1>4 DEF Live
  <2> QED
    BY <1>6, <2>1, NoHits
<1>9. /\ y \in Seq(Early) /\ y \in Seq(Printable)
      /\ Hits(y, "TAP", {"plan"}) = {} /\ Hits(y, "TAP", {"version"}) = {}
      /\ \A k \in Hits(y, "TAP", TestKinds) : y[k][3] = 0
  BY <1>2, <1>3, CmLinesAre
<1>10. t = x \o y /\ "TAP" \in Live
  BY <1>1 DEF Live
<1>11. /\ t \in Seq(Early) /\ t \in Seq(Printable)
       /\ \A f, kinds : /\ Count(t, f, kinds) = Count(x, f, kinds) + Count(y, f, kinds)
                        /\ (Hits(x, f, kinds) = {} /\ Hits(y, f, kinds) = {})
                               => Hits(t, f, kinds) = {}
       /\ Numbered(t) = Numbered(x) \cup {Len(x) + k : k \in Numbered(y)}
  <2>1. x \in Seq(Early) /\ y \in Seq(Early)
    BY <1>7, <1>9
  <2> QED
    BY <1>10, <2>1, Joined
<1>12. Hits(t, "TAP", {"plan"}) = {} /\ Hits(t, "TAP", {"version"}) = {}
  BY <1>8, <1>9, <1>10, <1>11
<1>13. ASSUME NEW f \in Live
       PROVE  Count(t, f, Bad) = IF f \in cm_get_output THEN 1 ELSE 0
  <2>1. Count(t, f, Bad) = Count(x, f, Bad) + Count(y, f, Bad)
    BY <1>11
  <2> QED
    BY <1>3, <1>8, <2>1
<1>14. Numbered(t) = {}
  <2>1. Numbered(t) = Numbered(x) \cup {Len(x) + k : k \in Numbered(y)}
    BY <1>11
  <2>2. Numbered(x) = {}
    BY <1>8, <1>10 DEF Numbered
  <2>3. Numbered(y) = {}
    <3>1. ~ (0 > 0)
      OBVIOUS
    <3> QED
      BY <1>9, <3>1 DEF Numbered
  <2> QED
    BY <2>1, <2>2, <2>3
<1> QED
  BY <1>1, <1>7, <1>9, <1>11, <1>12, <1>13, <1>14

-----------------------------------------------------------------------------
(* The totals of a group.                                                  *)

TestResults == Statuses \X Seq(Pieces)

\* The tests with this status, and how many they are.
WithStatus(rs, status) == {i \in DOMAIN rs : rs[i][1] = status}
TotalIn(rs, status)    == Cardinality(WithStatus(rs, status))

\* Three texts in a row.
Associates(a, b, c) == (a \o b) \o c = a \o (b \o c)

\* It does not matter which two are joined first.
LEMMA InARow ==
    ASSUME NEW T, NEW a \in Seq(T), NEW b \in Seq(T), NEW c \in Seq(T)
    PROVE  Associates(a, b, c)
  BY ConcatAssociative DEF Associates

\* Every test has one of the four statuses.
Complete(rs) ==
    TotalIn(rs, "PASSED") + TotalIn(rs, "SKIPPED") + TotalIn(rs, "FAILED") + TotalIn(rs, "ERROR")
       = Len(rs)

\* A total is a number, and zero if no test has the status.
LEMMA TotalType ==
    ASSUME NEW rs \in Seq(TestResults), NEW status
    PROVE  /\ IsFiniteSet(WithStatus(rs, status)) /\ TotalIn(rs, status) \in Nat
           /\ (TotalIn(rs, status) = 0) <=> (\A i \in DOMAIN rs : rs[i][1] # status)
<1>1. PICK n \in Nat : DOMAIN rs = 1 .. n
  OBVIOUS
<1>2. IsFiniteSet(1 .. n)
  BY FS_Interval
<1>3. WithStatus(rs, status) \in SUBSET (1 .. n)
  BY <1>1 DEF WithStatus
<1>4. IsFiniteSet(WithStatus(rs, status))
  BY <1>2, <1>3, FS_Subset
<1>5. TotalIn(rs, status) \in Nat /\ (TotalIn(rs, status) = 0 <=> WithStatus(rs, status) = {})
  BY <1>4, FS_CardinalityType, FS_EmptySet DEF TotalIn
<1> QED
  BY <1>4, <1>5 DEF WithStatus

\* No test.
LEMMA TotalsOfNone == Complete(<<>>) /\ \A status : TotalIn(<<>>, status) = 0
<1>1. \A status : WithStatus(<<>>, status) = {}
  BY DEF WithStatus
<1>2. \A status : TotalIn(<<>>, status) = 0
  BY <1>1, FS_EmptySet DEF TotalIn
<1> QED
  BY <1>2 DEF Complete

\* One more test.
LEMMA TotalOneMore ==
    ASSUME NEW rs \in Seq(TestResults), NEW x \in TestResults, NEW status
    PROVE  TotalIn(Append(rs, x), status) = TotalIn(rs, status) + IF x[1] = status THEN 1 ELSE 0
<1>1. PICK n \in Nat : n = Len(rs) /\ DOMAIN rs = 1 .. n
  OBVIOUS
<1>2. PICK t : t = Append(rs, x)
  OBVIOUS
<1>3. DOMAIN t = 1 .. n + 1 /\ t[n + 1] = x /\ \A i \in 1 .. n : t[i] = rs[i]
  BY <1>1, <1>2, AppendProperties
<1>4. PICK S : S = WithStatus(rs, status)
  OBVIOUS
<1>5. n + 1 \notin S /\ S \subseteq 1 .. n /\ IsFiniteSet(S) /\ Cardinality(S) \in Nat
  <2>1. n + 1 \notin S /\ S \subseteq 1 .. n
    BY <1>1, <1>4 DEF WithStatus
  <2>2. IsFiniteSet(S) /\ Cardinality(S) \in Nat
    BY <1>4, TotalType DEF TotalIn
  <2> QED
    BY <2>1, <2>2
<1>6. CASE x[1] = status
  <2>1. WithStatus(t, status) = S \cup {n + 1}
    BY <1>1, <1>3, <1>4, <1>6 DEF WithStatus
  <2>2. Cardinality(S \cup {n + 1}) = Cardinality(S) + 1
    BY <1>5, FS_AddElement
  <2> QED
    BY <1>2, <1>4, <1>6, <2>1, <2>2 DEF TotalIn
<1>7. CASE x[1] # status
  <2>1. WithStatus(t, status) = S
    BY <1>1, <1>3, <1>4, <1>7 DEF WithStatus
  <2> QED
    BY <1>2, <1>4, <1>5, <1>7, <2>1 DEF TotalIn
<1> QED
  BY <1>6, <1>7

\* One more test has one status.
LEMMA CompleteOneMore ==
    ASSUME NEW rs \in Seq(TestResults), NEW x \in TestResults, Complete(rs)
    PROVE  Complete(Append(rs, x))
<1>1. PICK t : t = Append(rs, x)
  OBVIOUS
<1>2. PICK p, s, f, e : /\ p = TotalIn(rs, "PASSED") /\ s = TotalIn(rs, "SKIPPED")
                        /\ f = TotalIn(rs, "FAILED") /\ e = TotalIn(rs, "ERROR")
  OBVIOUS
<1>3. p \in Nat /\ s \in Nat /\ f \in Nat /\ e \in Nat
  BY <1>2, TotalType
<1>4. p + s + f + e = Len(rs) /\ Len(rs) \in Nat /\ Len(t) = Len(rs) + 1
  BY <1>1, <1>2, AppendProperties, LenProperties DEF Complete
<1>5. /\ TotalIn(t, "PASSED") = p + IF x[1] = "PASSED" THEN 1 ELSE 0
      /\ TotalIn(t, "SKIPPED") = s + IF x[1] = "SKIPPED" THEN 1 ELSE 0
      /\ TotalIn(t, "FAILED") = f + IF x[1] = "FAILED" THEN 1 ELSE 0
      /\ TotalIn(t, "ERROR") = e + IF x[1] = "ERROR" THEN 1 ELSE 0
  BY <1>1, <1>2, TotalOneMore
<1>6. x[1] \in {"PASSED", "FAILED", "SKIPPED", "ERROR"}
  BY DEF TestResults, Statuses
<1>7. TotalIn(t, "PASSED") + TotalIn(t, "SKIPPED") + TotalIn(t, "FAILED") + TotalIn(t, "ERROR") = Len(t)
  BY <1>3, <1>4, <1>5, <1>6
<1> QED
  BY <1>1, <1>7 DEF Complete

\* The tests with one of two statuses.
LEMMA TotalOfTwo ==
    ASSUME NEW rs \in Seq(TestResults), NEW a, NEW b, a # b
    PROVE  Cardinality({i \in DOMAIN rs : rs[i][1] \in {a, b}}) = TotalIn(rs, a) + TotalIn(rs, b)
<1>1. PICK A, B : A = WithStatus(rs, a) /\ B = WithStatus(rs, b)
  OBVIOUS
<1>2. IsFiniteSet(A) /\ IsFiniteSet(B) /\ Cardinality(A) \in Nat /\ Cardinality(B) \in Nat
  BY <1>1, TotalType DEF TotalIn
<1>3. A \cap B = {}
  BY <1>1 DEF WithStatus
<1>4. Cardinality(A \cup B) = Cardinality(A) + Cardinality(B) - Cardinality(A \cap B)
  BY <1>2, FS_Union
<1>5. Cardinality(A \cap B) = 0
  BY <1>3, FS_EmptySet
<1>6. {i \in DOMAIN rs : rs[i][1] \in {a, b}} = A \cup B
  BY <1>1 DEF WithStatus
<1>7. Cardinality(A \cup B) = Cardinality(A) + Cardinality(B)
  BY <1>2, <1>4, <1>5
<1> QED
  BY <1>1, <1>6, <1>7 DEF TotalIn

\* The lines of one kind of the standard summary.
Summary(kind) == {l \in Printable : l[1] = "STANDARD" /\ l[2] = kind}

\* Tests are listed in lines of this kind.
LEMMA ListedLines ==
    ASSUME results \in Seq(TestResults), NEW status, NEW kind \in LineKinds
    PROVE  Listed(status, kind) \in Seq(Summary(kind))
<1> DEFINE n == Len(results)
           V == Seq(Summary(kind))
           line(i) == If(results[i][1] = status, <<"STANDARD", kind, i, <<>>>>)
           step == [i \in 1 .. n |-> [v \in V |-> v \o line(i)]]
           Body(f) == [i \in 0 .. n |-> IF i = 0 THEN <<>> ELSE f[i - 1] \o line(i)]
           listed == CHOOSE f : f = Body(f)
           b == <<>>
<1>1. n \in Nat
  BY LenProperties
<1>2. Listed(status, kind) = listed[n]
  BY DEF Listed
<1>3. ASSUME NEW i \in 1 .. n PROVE line(i) \in V
  <2>1. PICK e : e = <<>> /\ e \in Seq(Pieces)
    <3>1. <<>> \in Seq(Pieces)
      BY EmptySeq
    <3> QED
      BY <3>1
  <2>2. PICK l : l = <<"STANDARD", kind, i, e>>
    OBVIOUS
  <2>3. l \in Printable /\ l[1] = "STANDARD" /\ l[2] = kind
    <3>1. i \in Nat
      BY <1>1
    <3> HIDE DEF n
    <3> QED
      BY <2>1, <2>2, <3>1 DEF Printable, LineFormats, Formats
  <2>4. l \in Summary(kind)
    BY <2>3 DEF Summary
  <2>5. <<l>> \in V /\ <<>> \in V
    BY <2>4
  <2>6. line(i) = IF results[i][1] = status THEN <<l>> ELSE <<>>
    BY <2>1, <2>2 DEF If
  <2> HIDE DEF line, V
  <2> QED
    BY <2>5, <2>6
<1>4. b \in V
  BY EmptySeq
<1> HIDE DEF n, line
<1>5. \A i \in 1 .. n : \A v \in V : v \o line(i) \in V
  BY <1>3, ConcatProperties
<1> HIDE DEF V
<1>6. step \in [1 .. n -> [V -> V]]
  BY <1>5
<1>7. PICK f \in [0 .. n -> V] : f[0] = b /\ \A i \in 1 .. n : f[i] = step[i][f[i - 1]]
  <2> HIDE DEF step, b
  <2>1. Runs(V, b, n, step) # {}
    BY <1>1, <1>4, <1>6, Recursion
  <2> QED
    BY <2>1 DEF Runs
<1>8. f = Body(f)
  <2> SUFFICES ASSUME NEW i \in 0 .. n PROVE f[i] = Body(f)[i]
    OBVIOUS
  <2>1. CASE i = 0
    BY <1>7, <2>1
  <2>2. CASE i # 0
    <3>1. i \in 1 .. n /\ i - 1 \in 0 .. n
      BY <1>1, <2>2
    <3>2. f[i - 1] \in V /\ f[i] = step[i][f[i - 1]]
      BY <1>7, <3>1
    <3> QED
      BY <2>2, <3>1, <3>2
  <2> QED
    BY <2>1, <2>2
<1>9. listed = Body(listed)
  <2> HIDE DEF Body
  <2> QED
    BY <1>8
<1> HIDE DEF listed
<1>10. listed[0] = b
  BY <1>1, <1>9
<1>11. \A i \in 1 .. n : listed[i] = listed[i - 1] \o line(i)
  <2> SUFFICES ASSUME NEW i \in 1 .. n PROVE listed[i] = listed[i - 1] \o line(i)
    OBVIOUS
  <2>1. i \in 0 .. n /\ i # 0
    BY <1>1
  <2> QED
    BY <1>9, <2>1
<1> HIDE DEF b
<1> DEFINE S == {i \in Nat : i <= n => listed[i] \in V}
<1>12. 0 \in S
  BY <1>4, <1>10
<1>13. ASSUME NEW i \in Nat, i \in S PROVE i + 1 \in S
  <2> SUFFICES ASSUME i + 1 <= n PROVE listed[i + 1] \in V
    OBVIOUS
  <2>1. i + 1 \in 1 .. n /\ (i + 1) - 1 = i /\ i <= n
    BY <1>1
  <2>2. listed[i] \in V
    BY <1>13, <2>1
  <2>3. listed[i + 1] = listed[i] \o line(i + 1)
    BY <1>11, <2>1
  <2> QED
    BY <1>5, <2>1, <2>2, <2>3
<1>14. n \in S
  <2> HIDE DEF S
  <2> QED
    BY <1>1, <1>12, <1>13, Induction
<1> QED
  BY <1>1, <1>2, <1>14 DEF V

-----------------------------------------------------------------------------
(* The reports at the end of a group.                                      *)

LateKinds == {"run", "passed", "listed_skipped", "total_skipped", "listed_failed", "total_failed"}

\* The lines of the standard report, if its total of failures is bad.
Late(bad) == {l \in Printable : /\ l[1] = "STANDARD" /\ l[2] \in LateKinds
                                /\ l[2] = "total_failed" => l[3] = bad}

\* A line without a message.
LEMMA ShortLine ==
    ASSUME NEW f \in LineFormats, NEW kind \in LineKinds, NEW number \in Nat
    PROVE  /\ <<f, kind, number, <<>>>> \in Printable
           /\ <<f, kind, number, <<>>>>[1] = f /\ <<f, kind, number, <<>>>>[2] = kind
           /\ <<f, kind, number, <<>>>>[3] = number
<1>1. PICK e : e = <<>> /\ e \in Seq(Pieces)
  <2>1. <<>> \in Seq(Pieces)
    BY EmptySeq
  <2> QED
    BY <2>1
<1>2. PICK l : l = <<f, kind, number, e>>
  OBVIOUS
<1>3. l \in Printable /\ l[1] = f /\ l[2] = kind /\ l[3] = number
  BY <1>1, <1>2 DEF Printable
<1> QED
  BY <1>1, <1>2, <1>3

\* The totals of the group are numbers.
LEMMA TotalsAre ==
    ASSUME results \in Seq(TestResults)
    PROVE  /\ \A status : Total(status) = TotalIn(results, status) /\ Total(status) \in Nat
           /\ TotalErrors = TotalIn(results, "ERROR") + (IF group.setup THEN 0 ELSE 1)
           /\ TotalErrors \in Nat /\ Len(results) \in Nat
<1>1. \A status : Total(status) = TotalIn(results, status)
  BY DEF Total, TotalIn, WithStatus
<1>2. \A status : TotalIn(results, status) \in Nat
  BY TotalType
<1>3. Len(results) \in Nat
  BY LenProperties
<1> QED
  BY <1>1, <1>2, <1>3 DEF TotalErrors

\* The standard report has its total of failures if a test failed.
LEMMA StandardFinish ==
    ASSUME results \in Seq(TestResults), NEW a, a = cmprintf_group_finish_standard
    PROVE  /\ a \in Seq(Late(Total("FAILED") + TotalErrors))
           /\ Hits(a, "STANDARD", {"total_failed"}) = {} <=> Total("FAILED") = 0
<1>1. PICK n, p, s, f, e : /\ n = Len(results) /\ p = Total("PASSED") /\ s = Total("SKIPPED")
                           /\ f = Total("FAILED") /\ e = TotalErrors
  OBVIOUS
<1>2. n \in Nat /\ p \in Nat /\ s \in Nat /\ f \in Nat /\ e \in Nat /\ f + e \in Nat
  BY <1>1, TotalsAre
<1>3. PICK k, l, g, h : /\ k = <<"STANDARD", "run", n, <<>>>>
                        /\ l = <<"STANDARD", "passed", p, <<>>>>
                        /\ g = <<"STANDARD", "total_skipped", s, <<>>>>
                        /\ h = <<"STANDARD", "total_failed", f + e, <<>>>>
  OBVIOUS
<1>4. /\ "STANDARD" \in LineFormats
      /\ LateKinds \subseteq LineKinds
      /\ {"run", "passed", "total_skipped", "total_failed", "listed_skipped", "listed_failed"}
            \subseteq LateKinds
  BY DEF LineFormats, Formats, LateKinds, LineKinds
<1>5. /\ k \in Printable /\ k[1] = "STANDARD" /\ k[2] = "run"
      /\ l \in Printable /\ l[1] = "STANDARD" /\ l[2] = "passed"
      /\ g \in Printable /\ g[1] = "STANDARD" /\ g[2] = "total_skipped"
      /\ h \in Printable /\ h[1] = "STANDARD" /\ h[2] = "total_failed" /\ h[3] = f + e
  <2>1. "run" \in LineKinds /\ "passed" \in LineKinds /\ "total_skipped" \in LineKinds
        /\ "total_failed" \in LineKinds
    BY DEF LineKinds
  <2> QED
    BY <1>2, <1>3, <1>4, <2>1, ShortLine
<1> DEFINE L == Late(f + e)
           M == {m \in L : m[2] # "total_failed"}
           u == Listed("SKIPPED", "listed_skipped")
           v == Listed("FAILED", "listed_failed")
           x == <<k, l>>
           y == IF s > 0 THEN u \o <<g>> ELSE <<>>
           z == IF f > 0 THEN v \o <<h>> ELSE <<>>
<1>6. a = (x \o y) \o z
  BY <1>1, <1>3 DEF cmprintf_group_finish_standard
<1>7. k \in M /\ l \in M /\ g \in M /\ h \in L /\ M \subseteq L
  BY <1>4, <1>5 DEF Late
<1>8. u \in Seq(M) /\ v \in Seq(M)
  <2>1. u \in Seq(Summary("listed_skipped")) /\ v \in Seq(Summary("listed_failed"))
    <3>1. "listed_skipped" \in LineKinds /\ "listed_failed" \in LineKinds
      BY DEF LineKinds
    <3> QED
      BY <3>1, ListedLines
  <2>2. Summary("listed_skipped") \subseteq M /\ Summary("listed_failed") \subseteq M
    BY <1>4 DEF Summary, Late
  <2> HIDE DEF u, v, M, L
  <2> QED
    BY <2>1, <2>2, MoreLines
<1> HIDE DEF u, v, M, L
<1>9. x \in Seq(M) /\ y \in Seq(M)
  <2>1. x \in Seq(M) /\ <<g>> \in Seq(M) /\ <<>> \in Seq(M)
    BY <1>7
  <2>2. u \o <<g>> \in Seq(M)
    <3>1. PICK w : w = <<g>>
      OBVIOUS
    <3> QED
      BY <1>8, <2>1, <3>1, ConcatProperties
  <2>3. y = u \o <<g>> \/ y = <<>>
    OBVIOUS
  <2> HIDE DEF x, y
  <2> QED
    BY <2>1, <2>2, <2>3
<1>10. PICK xy : xy = x \o y /\ xy \in Seq(M) /\ xy \in Seq(L)
  <2> HIDE DEF x, y
  <2>1. x \o y \in Seq(M)
    BY <1>9, ConcatProperties
  <2>2. x \o y \in Seq(L)
    <3>1. PICK w : w = x \o y
      OBVIOUS
    <3> QED
      BY <1>7, <2>1, <3>1, MoreLines
  <2> QED
    BY <2>1, <2>2
<1>11. \A m \in M : ~ (m[1] = "STANDARD" /\ m[2] \in {"total_failed"})
  BY DEF M
<1>12. CASE f = 0
  <2>1. a = xy \o <<>>
    BY <1>6, <1>10, <1>12
  <2>2. a = xy
    BY <1>10, <2>1
  <2>3. Hits(xy, "STANDARD", {"total_failed"}) = {}
    BY <1>10, <1>11, NoHits
  <2> QED
    BY <1>1, <1>10, <1>12, <2>2, <2>3 DEF L
<1>13. CASE f > 0
  <2>1. PICK w, r : w = <<h>> /\ r = v \o w
    OBVIOUS
  <2>2. w \in Seq(L) /\ Len(w) = 1 /\ w[1] = h /\ v \in Seq(L)
    <3>1. w \in Seq(L) /\ Len(w) = 1 /\ w[1] = h
      BY <1>7, <2>1
    <3> QED
      BY <1>7, <1>8, <3>1, MoreLines
  <2>3. r \in Seq(L) /\ Len(r) = Len(v) + 1 /\ r[Len(r)] = h /\ Len(v) \in Nat
    <3>1. Len(v) \in Nat
      BY <2>2, LenProperties
    <3>2. r \in Seq(L) /\ Len(r) = Len(v) + 1
      BY <2>1, <2>2, ConcatProperties
    <3>3. r[Len(v) + 1] = w[Len(v) + 1 - Len(v)]
      BY <2>1, <2>2, <3>1, ConcatProperties
    <3> QED
      BY <2>2, <3>1, <3>2, <3>3
  <2>4. a = xy \o r
    BY <1>6, <1>10, <1>13, <2>1
  <2>5. a \in Seq(L) /\ Len(a) = Len(xy) + Len(r) /\ Len(xy) \in Nat /\ Len(r) \in Nat \ {0}
    <3>1. Len(xy) \in Nat /\ Len(r) \in Nat \ {0}
      BY <1>10, <2>3, LenProperties
    <3>2. xy \o r \in Seq(L) /\ Len(xy \o r) = Len(xy) + Len(r)
      BY <1>10, <2>3, ConcatProperties
    <3> QED
      BY <2>4, <3>1, <3>2
  <2>6. a[Len(xy) + Len(r)] = h
    <3>1. \A j \in 1 .. Len(xy) + Len(r) :
             (xy \o r)[j] = IF j <= Len(xy) THEN xy[j] ELSE r[j - Len(xy)]
      <4>1. xy \in Seq(L) /\ r \in Seq(L)
        BY <1>10, <2>3
      <4> QED
        BY <4>1, ConcatProperties
    <3>2. PICK j : j = Len(xy) + Len(r)
      OBVIOUS
    <3>3. j \in 1 .. Len(xy) + Len(r) /\ ~ (j <= Len(xy)) /\ j - Len(xy) = Len(r)
      BY <2>5, <3>2
    <3>4. (xy \o r)[j] = r[Len(r)]
      BY <3>1, <3>3
    <3> QED
      BY <2>3, <2>4, <3>2, <3>4
  <2>7. Len(a) \in Hits(a, "STANDARD", {"total_failed"})
    <3>1. Len(a) \in 1 .. Len(a)
      BY <2>5
    <3> QED
      BY <1>5, <2>5, <2>6, <3>1 DEF Hits
  <2> QED
    BY <1>1, <1>13, <2>5, <2>7 DEF L
<1> QED
  BY <1>2, <1>12, <1>13

XmlLines == {l \in Printable : l[1] = "XML"}

CaseKinds == {"failure", "skip", "success"}

\* The test cases of the XML report.
XmlCases ==
    [i \in DOMAIN results |->
        IF results[i][1] \in {"ERROR", "FAILED"} THEN <<"XML", "failure", i, results[i][2]>>
        ELSE <<"XML", IF results[i][1] = "SKIPPED" THEN "skip" ELSE "success", i, <<>>>>]

\* One test case for each test, with the failures among them.
LEMMA CasesAre ==
    ASSUME results \in Seq(TestResults)
    PROVE  /\ XmlCases \in Seq(XmlLines) /\ Len(XmlCases) = Len(results)
           /\ \A i \in 1 .. Len(results) : XmlCases[i][2] \in CaseKinds
           /\ Count(XmlCases, "XML", {"failure"}) = Total("ERROR") + Total("FAILED")
           /\ Count(XmlCases, "XML", {"skip"}) = Total("SKIPPED")
           /\ Count(XmlCases, "XML", CaseKinds) = Len(results)
<1>1. PICK n \in Nat : n = Len(results) /\ DOMAIN results = 1 .. n
  OBVIOUS
<1>2. PICK c : c = XmlCases
  OBVIOUS
<1>3. ASSUME NEW i \in 1 .. n
      PROVE  /\ c[i] \in XmlLines /\ c[i][1] = "XML" /\ c[i][2] \in CaseKinds
             /\ c[i][2] = "failure" <=> results[i][1] \in {"ERROR", "FAILED"}
             /\ c[i][2] = "skip" <=> results[i][1] = "SKIPPED"
  <2>1. results[i] \in TestResults /\ i \in Nat
    BY <1>1
  <2>2. results[i][1] \in Statuses /\ results[i][2] \in Seq(Pieces)
    BY <2>1 DEF TestResults
  <2>3. "XML" \in LineFormats /\ "failure" \in LineKinds /\ "skip" \in LineKinds
        /\ "success" \in LineKinds
    BY DEF LineFormats, Formats, LineKinds, TestKinds
  <2>4. CASE results[i][1] \in {"ERROR", "FAILED"}
    <3>1. PICK m : m = results[i][2] /\ m \in Seq(Pieces)
      BY <2>2
    <3>2. c[i] = <<"XML", "failure", i, m>>
      BY <1>1, <1>2, <2>4, <3>1 DEF XmlCases
    <3>3. c[i] \in Printable /\ c[i][1] = "XML" /\ c[i][2] = "failure"
      BY <2>1, <2>3, <3>1, <3>2 DEF Printable
    <3> QED
      BY <2>4, <3>3 DEF XmlLines, CaseKinds
  <2>5. CASE results[i][1] = "SKIPPED"
    <3>1. c[i] = <<"XML", "skip", i, <<>>>>
      BY <1>1, <1>2, <2>5 DEF XmlCases
    <3>2. c[i] \in Printable /\ c[i][1] = "XML" /\ c[i][2] = "skip"
      BY <2>1, <2>3, <3>1, ShortLine
    <3> QED
      BY <2>5, <3>2 DEF XmlLines, CaseKinds
  <2>6. CASE results[i][1] = "PASSED"
    <3>1. c[i] = <<"XML", "success", i, <<>>>>
      BY <1>1, <1>2, <2>6 DEF XmlCases
    <3>2. c[i] \in Printable /\ c[i][1] = "XML" /\ c[i][2] = "success"
      BY <2>1, <2>3, <3>1, ShortLine
    <3> QED
      BY <2>6, <3>2 DEF XmlLines, CaseKinds
  <2> QED
    BY <2>2, <2>4, <2>5, <2>6 DEF Statuses
<1>4. c \in [1 .. n -> XmlLines]
  <2>1. DOMAIN c = 1 .. n /\ c = [i \in 1 .. n |-> c[i]]
    BY <1>1, <1>2 DEF XmlCases
  <2> QED
    BY <1>3, <2>1
<1>5. c \in Seq(XmlLines) /\ Len(c) = n
  BY <1>4
<1>6. Hits(c, "XML", {"failure"}) = {i \in DOMAIN results : results[i][1] \in {"ERROR", "FAILED"}}
  BY <1>1, <1>3, <1>5 DEF Hits
<1>7. Hits(c, "XML", {"skip"}) = WithStatus(results, "SKIPPED")
  BY <1>1, <1>3, <1>5 DEF Hits, WithStatus
<1>8. Hits(c, "XML", CaseKinds) = 1 .. n
  BY <1>3, <1>5 DEF Hits
<1>9. Count(c, "XML", {"failure"}) = Total("ERROR") + Total("FAILED")
  <2>1. Count(c, "XML", {"failure"}) = TotalIn(results, "ERROR") + TotalIn(results, "FAILED")
    BY <1>6, TotalOfTwo DEF Count
  <2> QED
    BY <2>1, TotalsAre
<1>10. Count(c, "XML", {"skip"}) = Total("SKIPPED")
  BY <1>7, TotalsAre DEF Count, TotalIn
<1>11. Cardinality(1 .. n) = n
  <2>1. Cardinality(1 .. n) = IF 1 > n THEN 0 ELSE n - 1 + 1
    BY FS_Interval
  <2> QED
    BY <2>1
<1> QED
  BY <1>1, <1>2, <1>3, <1>5, <1>8, <1>9, <1>10, <1>11 DEF Count

\* The suite: its attributes, and the number of its cases.
LEMMA SuiteIs ==
    ASSUME results \in Seq(TestResults), NEW c, c = XmlSuite
    PROVE  /\ c \in Seq(XmlLines)
           /\ Hits(c, "XML", {"tests"}) = {1} /\ c[1][3] = Len(results)
           /\ Hits(c, "XML", {"failures"}) = {2} /\ c[2][3] = Total("FAILED")
           /\ Hits(c, "XML", {"errors"}) = {3} /\ c[3][3] = TotalErrors
           /\ Hits(c, "XML", {"skipped"}) = {4} /\ c[4][3] = Total("SKIPPED")
           /\ Count(c, "XML", {"failure"}) = Total("ERROR") + Total("FAILED")
           /\ Count(c, "XML", {"skip"}) = Total("SKIPPED")
           /\ Count(c, "XML", CaseKinds) = Len(results)
<1>1. PICK n, f, e, s : /\ n = Len(results) /\ f = Total("FAILED") /\ e = TotalErrors
                        /\ s = Total("SKIPPED")
  OBVIOUS
<1>2. n \in Nat /\ f \in Nat /\ e \in Nat /\ s \in Nat
  BY <1>1, TotalsAre
<1>3. PICK p, q, r, t : /\ p = <<"XML", "tests", n, <<>>>> /\ q = <<"XML", "failures", f, <<>>>>
                        /\ r = <<"XML", "errors", e, <<>>>> /\ t = <<"XML", "skipped", s, <<>>>>
  OBVIOUS
<1>4. /\ p \in Printable /\ p[1] = "XML" /\ p[2] = "tests" /\ p[3] = n
      /\ q \in Printable /\ q[1] = "XML" /\ q[2] = "failures" /\ q[3] = f
      /\ r \in Printable /\ r[1] = "XML" /\ r[2] = "errors" /\ r[3] = e
      /\ t \in Printable /\ t[1] = "XML" /\ t[2] = "skipped" /\ t[3] = s
  <2>1. "XML" \in LineFormats /\ "tests" \in LineKinds /\ "failures" \in LineKinds
        /\ "errors" \in LineKinds /\ "skipped" \in LineKinds
    BY DEF LineFormats, Formats, LineKinds
  <2> QED
    BY <1>2, <1>3, <2>1, ShortLine
<1>5. PICK h, d : h = <<p, q, r, t>> /\ d = XmlCases
  OBVIOUS
<1>6. c = h \o d
  BY <1>1, <1>3, <1>5 DEF XmlSuite, XmlCases
<1>7. h \in Seq(XmlLines) /\ Len(h) = 4 /\ h[1] = p /\ h[2] = q /\ h[3] = r /\ h[4] = t
  <2>1. p \in XmlLines /\ q \in XmlLines /\ r \in XmlLines /\ t \in XmlLines
    BY <1>4 DEF XmlLines
  <2> QED
    BY <1>5, <2>1
<1>8. /\ d \in Seq(XmlLines) /\ Len(d) = n
      /\ \A i \in 1 .. n : d[i][2] \in CaseKinds
      /\ Count(d, "XML", {"failure"}) = Total("ERROR") + Total("FAILED")
      /\ Count(d, "XML", {"skip"}) = Total("SKIPPED")
      /\ Count(d, "XML", CaseKinds) = Len(results)
  BY <1>1, <1>5, CasesAre
<1>9. h \in Seq(Printable) /\ d \in Seq(Printable) /\ h \o d \in Seq(XmlLines)
  <2>1. XmlLines \subseteq Printable
    BY DEF XmlLines
  <2>2. h \in Seq(XmlLines) /\ d \in Seq(XmlLines)
    BY <1>7, <1>8
  <2> QED
    BY <2>1, <2>2, MoreLines, ConcatProperties
<1>10. /\ (h \o d)[1] = p /\ (h \o d)[2] = q /\ (h \o d)[3] = r /\ (h \o d)[4] = t
  <2>1. \A k \in 1 .. Len(h) : (h \o d)[k] = h[k]
    BY <1>9, HitsConcat
  <2>2. 1 \in 1 .. Len(h) /\ 2 \in 1 .. Len(h) /\ 3 \in 1 .. Len(h) /\ 4 \in 1 .. Len(h)
    BY <1>7
  <2> QED
    BY <1>7, <2>1, <2>2
<1>11. 1 .. 4 = {1, 2, 3, 4}
  OBVIOUS
<1>12. /\ Hits(h, "XML", {"tests"}) = {1} /\ Hits(h, "XML", {"failures"}) = {2}
       /\ Hits(h, "XML", {"errors"}) = {3} /\ Hits(h, "XML", {"skipped"}) = {4}
       /\ Hits(h, "XML", {"failure"}) = {} /\ Hits(h, "XML", {"skip"}) = {}
       /\ Hits(h, "XML", CaseKinds) = {}
  BY <1>4, <1>7, <1>11 DEF Hits, CaseKinds
<1>13. /\ Hits(d, "XML", {"tests"}) = {} /\ Hits(d, "XML", {"failures"}) = {}
       /\ Hits(d, "XML", {"errors"}) = {} /\ Hits(d, "XML", {"skipped"}) = {}
  BY <1>8 DEF Hits, CaseKinds
<1>14. \A kinds : Hits(d, "XML", kinds) = {} => Hits(h \o d, "XML", kinds) = Hits(h, "XML", kinds)
  <2> SUFFICES ASSUME NEW kinds, Hits(d, "XML", kinds) = {}
               PROVE  Hits(h \o d, "XML", kinds) = Hits(h, "XML", kinds)
    OBVIOUS
  <2>1. Hits(h \o d, "XML", kinds)
           = Hits(h, "XML", kinds) \cup {Len(h) + k : k \in Hits(d, "XML", kinds)}
    BY <1>9, HitsConcat
  <2> QED
    BY <2>1
<1>15. \A kinds : Hits(h, "XML", kinds) = {} => Count(h \o d, "XML", kinds) = Count(d, "XML", kinds)
  <2> SUFFICES ASSUME NEW kinds, Hits(h, "XML", kinds) = {}
               PROVE  Count(h \o d, "XML", kinds) = Count(d, "XML", kinds)
    OBVIOUS
  <2>1. Count(h \o d, "XML", kinds) = Count(h, "XML", kinds) + Count(d, "XML", kinds)
    BY <1>9, CountConcat
  <2>2. Count(h, "XML", kinds) = 0
    BY FS_EmptySet DEF Count
  <2>3. Count(d, "XML", kinds) \in Nat
    BY <1>9, CountType
  <2> QED
    BY <2>1, <2>2, <2>3
<1>16. /\ Hits(c, "XML", {"tests"}) = {1} /\ Hits(c, "XML", {"failures"}) = {2}
       /\ Hits(c, "XML", {"errors"}) = {3} /\ Hits(c, "XML", {"skipped"}) = {4}
  BY <1>6, <1>12, <1>13, <1>14
<1>17. /\ Count(c, "XML", {"failure"}) = Total("ERROR") + Total("FAILED")
       /\ Count(c, "XML", {"skip"}) = Total("SKIPPED")
       /\ Count(c, "XML", CaseKinds) = Len(results)
  BY <1>6, <1>8, <1>12, <1>15
<1> QED
  BY <1>1, <1>4, <1>6, <1>9, <1>10, <1>16, <1>17

-----------------------------------------------------------------------------
(* The lines of a group.                                                   *)

Running == group.stage \in {"setup", "tests", "teardown", "finish"}

\* The lines of failures and errors that are owed.
Owed(passed) == IF passed THEN 0 ELSE 1
BadOf(rs, setup, teardown) ==
    TotalIn(rs, "FAILED") + TotalIn(rs, "ERROR") + Owed(setup) + Owed(teardown)

\* What a group has been through: a group setup that failed leaves no test, and
\* otherwise all tests have run in the end.
ShapeInv ==
    /\ group.tests \in Nat /\ group.setup \in BOOLEAN /\ group.teardown \in BOOLEAN
    /\ group.stage \in {"setup", "tests"} => group.setup /\ group.teardown
    /\ group.stage = "teardown" => ~ group.setup /\ group.teardown
    /\ ~ group.setup => results = <<>>
    /\ (group.stage \in {"finish", "returned", "exited"} /\ group.setup)
          => Len(results) = group.tests
    /\ group.number = 0 => ~ version_printed
    /\ Complete(results)

\* The lines s of a group that runs, in these formats.
Sound(s, out, bad, tests, n, first) ==
    /\ s \in Seq(Early)
    /\ \A f \in out \cap Live : Count(s, f, Bad) = bad
    /\ "TAP" \in out => TapShape(s, tests, n, first)

LinesInv ==
    /\ ShapeInv
    /\ Running => Sound(lines, global_msg_output, BadOf(results, group.setup, group.teardown),
                        group.tests, Len(results), group.number = 1)
    /\ TapKeepsItsPlan
    /\ VerdictsAgree

\* From the first group on, the formats are those of cm_get_output.
LEMMA OutputIsGlobal ==
    ASSUME FormatInv, group.number > 0
    PROVE  cm_get_output = global_msg_output
  BY DEF FormatInv, Named, cm_get_output

\* Whether a version is asked for.
LEMMA FirstOrNot ==
    ASSUME NEW s, NEW tests, NEW n, NEW a, NEW b, b => a, TapShape(s, tests, n, a)
    PROVE  TapShape(s, tests, n, b)
  BY DEF TapShape

\* The report goes on with no test and one more bad line, or with one more test.
LEMMA SoundGoesOn ==
    ASSUME NEW s, NEW t, NEW out, NEW bad \in Nat, NEW tests, NEW n \in Nat, NEW first,
           NEW more \in Nat, Sound(s, out, bad, tests, n, first), t \in Seq(Early),
           Hits(t, "TAP", {"plan"}) = {}, Hits(t, "TAP", {"version"}) = {},
           \A f \in out \cap Live : Count(t, f, Bad) = more
    PROVE  /\ Numbered(t) = {} => Sound(s \o t, out, bad + more, tests, n, first)
           /\ ("TAP" \in out => OneNumbered(t, n + 1))
                 => Sound(s \o t, out, bad + more, tests, n + 1, first)
<1>1. s \in Seq(Early) /\ t \in Seq(Early)
  BY DEF Sound
<1>2. PICK st : st = s \o t
  OBVIOUS
<1>3. /\ st \in Seq(Early) /\ s \in Seq(Printable) /\ t \in Seq(Printable)
      /\ \A f, kinds : Count(st, f, kinds) = Count(s, f, kinds) + Count(t, f, kinds)
  <2>1. st \in Seq(Early) /\ s \in Seq(Printable) /\ t \in Seq(Printable)
    BY <1>1, <1>2, Joined
  <2>2. \A f, kinds : Count(s \o t, f, kinds) = Count(s, f, kinds) + Count(t, f, kinds)
    BY <2>1, CountConcat
  <2> QED
    BY <1>2, <2>1, <2>2
<1>4. \A f \in out \cap Live : Count(st, f, Bad) = bad + more
  BY <1>3 DEF Sound
<1>5. ASSUME "TAP" \in out
      PROVE  /\ Numbered(t) = {} => TapShape(st, tests, n, first)
             /\ \A j : (Numbered(t) = {j} /\ t[j][3] = n + 1) => TapShape(st, tests, n + 1, first)
  <2>1. TapShape(s, tests, n, first)
    BY <1>5 DEF Sound
  <2>2. /\ Numbered(t) = {} => TapShape(s \o t, tests, n, first)
        /\ \A j : (Numbered(t) = {j} /\ t[j][3] = n + 1) => TapShape(s \o t, tests, n + 1, first)
    BY <1>3, <2>1, TapGoesOn
  <2> QED
    BY <1>2, <2>2
<1>6. Numbered(t) = {} => Sound(st, out, bad + more, tests, n, first)
  BY <1>3, <1>4, <1>5 DEF Sound
<1>7. ("TAP" \in out => OneNumbered(t, n + 1))
         => Sound(st, out, bad + more, tests, n + 1, first)
  BY <1>3, <1>4, <1>5 DEF Sound, OneNumbered
<1> QED
  BY <1>2, <1>6, <1>7

\* Before the report there is nothing to say of it.
LEMMA NotReported ==
    ASSUME group'.stage \notin {"returned", "exited"}
    PROVE  TapKeepsItsPlan' /\ VerdictsAgree'
<1>1. ~ Reported'
  BY DEF Reported
<1> QED
  BY <1>1 DEF TapKeepsItsPlan, VerdictsAgree

\* A group starts.
LEMMA LinesStart ==
    ASSUME ReportInv, LinesInv, NEW name \in GroupNames, NEW n \in Nat, group_start(name, n)
    PROVE  LinesInv'
<1>1. GroupInv /\ FormatInv /\ MessageInv /\ ShapeInv
  BY DEF ReportInv, LinesInv
<1>2. /\ group.stage = "idle"
      /\ group' = [NoGroup EXCEPT !.number = group.number + 1, !.name = name,
                                  !.tests = n, !.stage = "setup"]
      /\ lines' = cmprintf_group_start(n)
      /\ global_msg_output' = cm_get_output
      /\ version_printed' = (version_printed \/ "TAP" \in cm_get_output)
      /\ results' = results
  BY DEF group_start
<1>3. /\ group'.tests = n /\ group'.stage = "setup" /\ group'.number = group.number + 1
      /\ group'.setup = TRUE /\ group'.teardown = TRUE
  <2>1. DOMAIN NoGroup = Fields /\ NoGroup.setup = TRUE /\ NoGroup.teardown = TRUE
    BY DEF NoGroup, Fields
  <2> QED
    BY <1>2, <2>1 DEF Fields
<1>4. results = <<>> /\ results' = <<>> /\ group.number \in Nat
  BY <1>1, <1>2 DEF MessageInv, GroupInv
<1>5. Complete(results') /\ BadOf(results', TRUE, TRUE) = 0 /\ Len(results') = 0
  BY <1>4, TotalsOfNone DEF BadOf, Owed
<1>6. ShapeInv'
  <2>1. group'.number # 0
    BY <1>3, <1>4
  <2> QED
    BY <1>3, <1>5, <2>1 DEF ShapeInv
<1>7. Sound(lines', global_msg_output', 0, n, 0, group'.number = 1)
  <2>1. lines' \in Seq(Early) /\ \A f : Count(lines', f, Bad) = 0
    BY <1>2, StartText
  <2>2. ASSUME "TAP" \in cm_get_output
        PROVE  TapShape(lines', n, 0, group'.number = 1)
    <3>1. TapShape(lines', n, 0, ~ version_printed)
      BY <1>2, <2>2, StartText
    <3>2. group'.number = 1 => ~ version_printed
      BY <1>1, <1>3, <1>4 DEF ShapeInv
    <3> QED
      BY <3>1, <3>2, FirstOrNot
  <2> QED
    BY <1>2, <2>1, <2>2 DEF Sound
<1>8. TapKeepsItsPlan' /\ VerdictsAgree'
  BY <1>3, NotReported
<1> QED
  BY <1>3, <1>5, <1>6, <1>7, <1>8 DEF LinesInv

\* The lines that are owed are counted.
LEMMA OwedType ==
    ASSUME NEW rs \in Seq(TestResults), NEW a, NEW b
    PROVE  BadOf(rs, a, b) \in Nat /\ Owed(a) \in Nat /\ Owed(b) \in Nat
<1>1. TotalIn(rs, "FAILED") \in Nat /\ TotalIn(rs, "ERROR") \in Nat
  BY TotalType
<1> QED
  BY <1>1 DEF BadOf, Owed

\* A group fixture that fails is one bad line in every format.
LEMMA FixtureLines ==
    ASSUME NEW out, out = cm_get_output, NEW bad \in Nat, NEW tests, NEW n \in Nat, NEW first,
           Sound(lines, out, bad, tests, n, first),
           NEW text, cm_error_message \o text \in Seq(Pieces), FixtureFailed(text)
    PROVE  Sound(lines', out, bad + 1, tests, n, first)
<1>1. PICK m : m = cm_error_message \o text /\ m \in Seq(Pieces)
  OBVIOUS
<1>2. PICK t : t = If(m # <<>>, <<"stderr", "message", 0, m>>) \o cmprintf("error", 0, <<>>)
  OBVIOUS
<1>3. /\ t \in Seq(Early)
      /\ Hits(t, "TAP", {"plan"}) = {} /\ Hits(t, "TAP", {"version"}) = {}
      /\ \A f \in Live : Count(t, f, Bad) = IF f \in cm_get_output THEN 1 ELSE 0
      /\ Numbered(t) = {}
  <2>1. /\ t \in Seq(Early) /\ Numbered(t) = {}
        /\ Hits(t, "TAP", {"plan"}) = {} /\ Hits(t, "TAP", {"version"}) = {}
    BY <1>1, <1>2, FixtureText
  <2>2. \A f \in Live : Count(t, f, Bad) = IF f \in cm_get_output THEN 1 ELSE 0
    BY <1>1, <1>2, FixtureText
  <2> QED
    BY <2>1, <2>2
<1>4. lines' = lines \o t
  <2>1. PICK x, y : /\ x = If(m # <<>>, <<"stderr", "message", 0, m>>)
                    /\ y = cmprintf("error", 0, <<>>)
    OBVIOUS
  <2>2. lines \in Seq(Early) /\ x \in Seq(Early) /\ y \in Seq(Early)
    BY <1>1, <1>2, <2>1, FixtureText DEF Sound
  <2>3. lines' = (lines \o x) \o y
    BY <1>1, <2>1 DEF FixtureFailed
  <2>4. (lines \o x) \o y = lines \o (x \o y)
    <3>1. Associates(lines, x, y)
      BY <2>2, InARow
    <3> QED
      BY <3>1 DEF Associates
  <2> QED
    BY <1>2, <2>1, <2>3, <2>4
<1>5. \A f \in out \cap Live : Count(t, f, Bad) = 1
  BY <1>3
<1>6. Sound(lines \o t, out, bad + 1, tests, n, first)
  BY <1>3, <1>5, SoundGoesOn
<1> QED
  BY <1>4, <1>6

\* A group fixture that passes prints no line.
LEMMA LinesMove ==
    ASSUME LinesInv, ShapeInv', group'.stage \notin {"returned", "exited"}, Running \/ ~ Running',
           UNCHANGED <<lines, results, global_msg_output>>,
           group'.setup = group.setup, group'.teardown = group.teardown,
           group'.tests = group.tests, group'.number = group.number
    PROVE  LinesInv'
<1>1. TapKeepsItsPlan' /\ VerdictsAgree'
  BY NotReported
<1>2. CASE ~ Running'
  BY <1>1, <1>2 DEF LinesInv
<1>3. CASE Running
  BY <1>1, <1>3 DEF LinesInv
<1> QED
  BY <1>2, <1>3

\* The group setup.
LEMMA LinesSetup ==
    ASSUME ReportInv, LinesInv, NEW text,
           \/ text \in PassingTexts("setup") /\ group_setup_passes(text)
           \/ text \in FailingTexts("setup") /\ group_setup_fails(text)
    PROVE  LinesInv'
<1>1. /\ GroupInv /\ FormatInv /\ MessageInv /\ ShapeInv
      /\ results \in Seq(TestResults) /\ cm_error_message \in Seq(Pieces)
  BY DEF ReportInv, LinesInv, MessageInv, TestResults
<1>2. group.stage = "setup" /\ results = <<>> /\ group.number > 0 /\ group.number \in Nat
      /\ group.setup = TRUE /\ group.teardown = TRUE /\ group.tests \in Nat
  <2>1. group.stage = "setup"
    BY DEF group_setup_passes, group_setup_fails
  <2> QED
    BY <1>1, <2>1 DEF GroupInv, MessageInv, ShapeInv
<1>3. CASE group_setup_passes(text)
  <2>1. /\ group' = [group EXCEPT !.stage = "tests"]
        /\ UNCHANGED <<lines, results, global_msg_output, version_printed>>
    BY <1>3 DEF group_setup_passes, outputVars
  <2>2. /\ group'.stage = "tests" /\ group'.setup = group.setup
        /\ group'.teardown = group.teardown
        /\ group'.tests = group.tests /\ group'.number = group.number
    BY <1>1, <2>1 DEF GroupInv, Fields
  <2>3. ShapeInv'
    BY <1>1, <1>2, <2>1, <2>2 DEF ShapeInv
  <2>4. Running
    BY <1>2 DEF Running
  <2> QED
    BY <2>1, <2>2, <2>3, <2>4, LinesMove
<1>4. CASE text \in FailingTexts("setup") /\ group_setup_fails(text)
  <2>1. /\ group' = [group EXCEPT !.stage = "teardown", !.setup = FALSE]
        /\ FixtureFailed(text)
        /\ UNCHANGED <<results, global_msg_output, version_printed>>
    BY <1>4 DEF group_setup_fails, outputVars
  <2>2. /\ group'.stage = "teardown" /\ group'.setup = FALSE
        /\ group'.teardown = TRUE
        /\ group'.tests = group.tests /\ group'.number = group.number
    BY <1>1, <1>2, <2>1 DEF GroupInv, Fields
  <2>3. ShapeInv'
    BY <1>1, <1>2, <2>1, <2>2 DEF ShapeInv
  <2>4. Running
    BY <1>2 DEF Running
  <2>5. /\ BadOf(results, group.setup, group.teardown) = 0
        /\ BadOf(results', group'.setup, group'.teardown) = 1
    BY <1>2, <2>1, <2>2, TotalsOfNone DEF BadOf, Owed
  <2>6. cm_error_message \o text \in Seq(Pieces)
    <3>1. text = <<>> \/ text = FailText("setup")
      BY <1>4 DEF FailingTexts
    <3>2. text \in Seq(Pieces)
      <4>1. FailText("setup") \in Seq(Pieces)
        BY <1>1, FailingText DEF Kinds
      <4> QED
        BY <3>1, <4>1, EmptySeq
    <3> QED
      BY <1>1, <3>2, ConcatProperties
  <2>7. Sound(lines, global_msg_output, 0, group.tests, Len(results), group.number = 1)
    BY <2>4, <2>5 DEF LinesInv
  <2>8. cm_get_output = global_msg_output /\ Len(results) \in Nat
    BY <1>1, <1>2, OutputIsGlobal, LenProperties
  <2>9. Sound(lines', global_msg_output, 0 + 1, group.tests, Len(results), group.number = 1)
    BY <2>1, <2>6, <2>7, <2>8, FixtureLines
  <2>10. TapKeepsItsPlan' /\ VerdictsAgree'
    BY <2>2, NotReported
  <2>11. Sound(lines', global_msg_output', BadOf(results', group'.setup, group'.teardown),
               group'.tests, Len(results'), group'.number = 1)
    <3>1. (group'.number = 1) = (group.number = 1) /\ 0 + 1 = 1
      BY <2>2
    <3> QED
      BY <2>1, <2>2, <2>5, <2>9, <3>1
  <2> QED
    BY <2>3, <2>10, <2>11 DEF LinesInv
<1> QED
  BY <1>3, <1>4

\* The kind of line that a test has.
LEMMA LineOfStatus ==
    ASSUME NEW status \in Statuses
    PROVE  LineOf(status) \in TestKinds /\ (LineOf(status) \in Bad <=> status \in {"FAILED", "ERROR"})
<1>1. /\ LineOf("PASSED") = "success" /\ LineOf("FAILED") = "failure"
      /\ LineOf("SKIPPED") = "skip" /\ LineOf("ERROR") = "error"
  BY DEF LineOf
<1> QED
  BY <1>1 DEF Statuses, TestKinds, Bad

\* A test is reported.
LEMMA LinesTest ==
    ASSUME ReportInv, LinesInv, NEW outcome \in Outcomes, run_one_tests(outcome)
    PROVE  LinesInv'
<1>1. /\ GroupInv /\ FormatInv /\ MessageInv /\ ShapeInv
      /\ results \in Seq(TestResults) /\ cm_error_message \in Seq(Pieces)
  BY DEF ReportInv, LinesInv, MessageInv, TestResults
<1>2. PICK rs, st, m, n, k : /\ rs = results /\ st = outcome[1] /\ n = Len(results)
                             /\ m = cm_error_message \o outcome[2] /\ k = LineOf(outcome[1])
  OBVIOUS
<1>3. /\ group.stage = "tests" /\ n < group.tests
      /\ results' = Append(rs, <<st, m>>)
      /\ lines' = lines \o cmprintf("start", n + 1, <<>>) \o cmprintf(k, n + 1, m)
      /\ group' = group /\ version_printed' = version_printed
      /\ global_msg_output' = global_msg_output
  BY <1>2 DEF run_one_tests, TestNumber, outputVars
<1>4. /\ st \in Statuses /\ m \in Seq(Pieces) /\ rs \in Seq(TestResults) /\ n \in Nat
      /\ k \in TestKinds /\ (k \in Bad <=> st \in {"FAILED", "ERROR"})
  <2>1. outcome[1] \in Statuses /\ outcome[2] \in Seq(Pieces)
    BY <1>1, OutcomeText
  <2>2. m \in Seq(Pieces)
    BY <1>1, <1>2, <2>1, ConcatProperties
  <2>3. n \in Nat
    BY <1>1, <1>2, LenProperties
  <2> QED
    BY <1>1, <1>2, <2>1, <2>2, <2>3, LineOfStatus
<1>5. PICK x : x = <<st, m>> /\ x \in TestResults /\ x[1] = st
  <2>1. <<st, m>> \in TestResults /\ <<st, m>>[1] = st
    BY <1>4 DEF TestResults
  <2> QED
    BY <2>1
<1>6. Len(results') = n + 1 /\ results' = Append(rs, x)
  BY <1>2, <1>3, <1>4, <1>5, AppendProperties
<1>7. group.setup = TRUE /\ group.teardown = TRUE /\ group.number > 0 /\ group.number \in Nat
  BY <1>1, <1>3 DEF ShapeInv, GroupInv
<1>8. ShapeInv'
  <2>1. Complete(results')
    BY <1>1, <1>2, <1>4, <1>5, <1>6, CompleteOneMore DEF ShapeInv
  <2>2. group'.stage = "tests" /\ group'.setup /\ group'.number # 0
    BY <1>3, <1>7
  <2> QED
    BY <1>1, <1>3, <2>1, <2>2 DEF ShapeInv
<1>9. PICK bad, more : /\ bad = BadOf(rs, TRUE, TRUE)
                       /\ more = IF k \in Bad THEN 1 ELSE 0
  OBVIOUS
<1>10. bad \in Nat /\ more \in Nat /\ BadOf(results', TRUE, TRUE) = bad + more
  <2>1. PICK f, e : /\ f = TotalIn(rs, "FAILED") /\ e = TotalIn(rs, "ERROR")
                    /\ f \in Nat /\ e \in Nat
    BY <1>4, TotalType
  <2>2. /\ TotalIn(results', "FAILED") = f + IF st = "FAILED" THEN 1 ELSE 0
        /\ TotalIn(results', "ERROR") = e + IF st = "ERROR" THEN 1 ELSE 0
    BY <1>4, <1>5, <1>6, <2>1, TotalOneMore
  <2>3. more = IF st \in {"FAILED", "ERROR"} THEN 1 ELSE 0
    BY <1>4, <1>9
  <2>4. /\ bad = f + e + 0 + 0
        /\ BadOf(results', TRUE, TRUE)
              = (f + IF st = "FAILED" THEN 1 ELSE 0) + (e + IF st = "ERROR" THEN 1 ELSE 0) + 0 + 0
    BY <1>9, <2>1, <2>2 DEF BadOf, Owed
  <2>5. PICK df, de : /\ df = (IF st = "FAILED" THEN 1 ELSE 0)
                      /\ de = (IF st = "ERROR" THEN 1 ELSE 0)
    OBVIOUS
  <2>6. df \in Nat /\ de \in Nat /\ more = df + de
    <3>1. CASE st = "FAILED"
      BY <2>3, <2>5, <3>1
    <3>2. CASE st = "ERROR"
      BY <2>3, <2>5, <3>2
    <3>3. CASE st \notin {"FAILED", "ERROR"}
      BY <2>3, <2>5, <3>3
    <3> QED
      BY <3>1, <3>2, <3>3
  <2>7. bad = f + e + 0 + 0 /\ BadOf(results', TRUE, TRUE) = (f + df) + (e + de) + 0 + 0
    BY <2>4, <2>5
  <2>8. bad \in Nat /\ more \in Nat
    BY <2>1, <2>6, <2>7
  <2>9. (f + df) + (e + de) + 0 + 0 = (f + e + 0 + 0) + (df + de)
    BY <2>1, <2>6
  <2> QED
    BY <2>6, <2>7, <2>8, <2>9
<1>11. PICK x1, x2, t : /\ x1 = cmprintf("start", n + 1, <<>>) /\ x2 = cmprintf(k, n + 1, m)
                        /\ t = x1 \o x2
  OBVIOUS
<1>12. n + 1 \in Nat \ {0}
  BY <1>4
<1>13. /\ t \in Seq(Early) /\ x1 \in Seq(Early) /\ x2 \in Seq(Early)
       /\ Hits(t, "TAP", {"plan"}) = {} /\ Hits(t, "TAP", {"version"}) = {}
  BY <1>4, <1>11, <1>12, TestText
<1>14. \A f \in Live : Count(t, f, Bad) = IF f \in cm_get_output /\ k \in Bad THEN 1 ELSE 0
  BY <1>4, <1>11, <1>12, TestText
<1>15. "TAP" \in cm_get_output => OneNumbered(t, n + 1)
  BY <1>4, <1>11, <1>12, TestText
<1>16. cm_get_output = global_msg_output
  BY <1>1, <1>7, OutputIsGlobal
<1>17. Running
  BY <1>3 DEF Running
<1>18. Sound(lines, global_msg_output, bad, group.tests, n, group.number = 1)
  BY <1>2, <1>7, <1>9, <1>17 DEF LinesInv
<1>19. lines' = lines \o t
  <2>1. lines \in Seq(Early)
    BY <1>18 DEF Sound
  <2>2. (lines \o x1) \o x2 = lines \o (x1 \o x2)
    <3>1. x1 \in Seq(Early) /\ x2 \in Seq(Early)
      BY <1>13
    <3>2. Associates(lines, x1, x2)
      BY <2>1, <3>1, InARow
    <3> QED
      BY <3>2 DEF Associates
  <2> QED
    BY <1>3, <1>11, <2>2
<1>20. \A f \in global_msg_output \cap Live : Count(t, f, Bad) = more
  BY <1>9, <1>14, <1>16
<1>21. Sound(lines \o t, global_msg_output, bad + more, group.tests, n + 1, group.number = 1)
  BY <1>4, <1>10, <1>13, <1>15, <1>16, <1>18, <1>20, SoundGoesOn
<1>22. Sound(lines', global_msg_output', BadOf(results', group'.setup, group'.teardown),
             group'.tests, Len(results'), group'.number = 1)
  BY <1>3, <1>6, <1>7, <1>10, <1>19, <1>21
<1>23. TapKeepsItsPlan' /\ VerdictsAgree'
  BY <1>3, NotReported
<1> QED
  BY <1>8, <1>22, <1>23 DEF LinesInv

\* The group teardown.
LEMMA LinesTeardown ==
    ASSUME ReportInv, LinesInv, NEW text,
           \/ text \in PassingTexts("teardown") /\ group_teardown_passes(text)
           \/ text \in FailingTexts("teardown") /\ group_teardown_fails(text)
    PROVE  LinesInv'
<1>1. /\ GroupInv /\ FormatInv /\ MessageInv /\ ShapeInv
      /\ results \in Seq(TestResults) /\ cm_error_message \in Seq(Pieces)
  BY DEF ReportInv, LinesInv, MessageInv, TestResults
<1>2. /\ group.stage \in {"tests", "teardown"} /\ group.number > 0 /\ group.number \in Nat
      /\ group.teardown = TRUE /\ group.tests \in Nat /\ group.setup \in BOOLEAN
      /\ group.setup => Len(results) = group.tests
      /\ Running
  <2>1. TestsDone
    BY DEF group_teardown_passes, group_teardown_fails
  <2>2. \/ group.stage = "teardown" /\ ~ group.setup
        \/ group.stage = "tests" /\ Len(results) = group.tests
    BY <1>1, <2>1 DEF TestsDone, ShapeInv
  <2> QED
    BY <1>1, <2>2 DEF GroupInv, ShapeInv, Running
<1>3. CASE group_teardown_passes(text)
  <2>1. /\ group' = [group EXCEPT !.stage = "finish"]
        /\ UNCHANGED <<lines, results, global_msg_output, version_printed>>
    BY <1>3 DEF group_teardown_passes, outputVars
  <2>2. /\ group'.stage = "finish" /\ group'.setup = group.setup
        /\ group'.teardown = group.teardown
        /\ group'.tests = group.tests /\ group'.number = group.number
    BY <1>1, <2>1 DEF GroupInv, Fields
  <2>3. ShapeInv'
    BY <1>1, <1>2, <2>1, <2>2 DEF ShapeInv
  <2> QED
    BY <1>2, <2>1, <2>2, <2>3, LinesMove
<1>4. CASE text \in FailingTexts("teardown") /\ group_teardown_fails(text)
  <2>1. /\ group' = [group EXCEPT !.stage = "finish", !.teardown = FALSE]
        /\ FixtureFailed(text)
        /\ UNCHANGED <<results, global_msg_output, version_printed>>
    BY <1>4 DEF group_teardown_fails, outputVars
  <2>2. /\ group'.stage = "finish" /\ group'.setup = group.setup
        /\ group'.teardown = FALSE
        /\ group'.tests = group.tests /\ group'.number = group.number
    BY <1>1, <1>2, <2>1 DEF GroupInv, Fields
  <2>3. ShapeInv'
    BY <1>1, <1>2, <2>1, <2>2 DEF ShapeInv
  <2>4. PICK bad : bad = BadOf(results, group.setup, TRUE) /\ bad \in Nat
    BY <1>1, OwedType
  <2>5. BadOf(results', group'.setup, group'.teardown) = bad + 1
    <3>1. PICK f, e, o : /\ f = TotalIn(results, "FAILED") /\ e = TotalIn(results, "ERROR")
                         /\ o = Owed(group.setup) /\ f \in Nat /\ e \in Nat /\ o \in Nat
      BY <1>1, TotalType, OwedType
    <3>2. bad = f + e + o + 0 /\ BadOf(results', group'.setup, group'.teardown) = f + e + o + 1
      BY <2>1, <2>2, <2>4, <3>1 DEF BadOf, Owed
    <3> QED
      BY <3>1, <3>2
  <2>6. cm_error_message \o text \in Seq(Pieces)
    <3>1. text = <<>> \/ text = FailText("teardown")
      BY <1>4 DEF FailingTexts
    <3>2. text \in Seq(Pieces)
      <4>1. FailText("teardown") \in Seq(Pieces)
        BY <1>1, FailingText DEF Kinds
      <4> QED
        BY <3>1, <4>1, EmptySeq
    <3> QED
      BY <1>1, <3>2, ConcatProperties
  <2>7. Sound(lines, global_msg_output, bad, group.tests, Len(results), group.number = 1)
    BY <1>2, <2>4 DEF LinesInv
  <2>8. cm_get_output = global_msg_output /\ Len(results) \in Nat
    BY <1>1, <1>2, OutputIsGlobal, LenProperties
  <2>9. Sound(lines', global_msg_output, bad + 1, group.tests, Len(results), group.number = 1)
    BY <2>1, <2>4, <2>6, <2>7, <2>8, FixtureLines
  <2>10. TapKeepsItsPlan' /\ VerdictsAgree'
    BY <2>2, NotReported
  <2>11. Sound(lines', global_msg_output', BadOf(results', group'.setup, group'.teardown),
               group'.tests, Len(results'), group'.number = 1)
    <3>1. (group'.number = 1) = (group.number = 1)
      BY <2>2
    <3> QED
      BY <2>1, <2>2, <2>5, <2>9, <3>1
  <2> QED
    BY <2>3, <2>10, <2>11 DEF LinesInv
<1> QED
  BY <1>3, <1>4

-----------------------------------------------------------------------------
(* The lines of a report that has ended.                                   *)

\* One line of format f and these kinds has the number v; all of them have it.
Says(s, f, kinds, v)   == \E k : Hits(s, f, kinds) = {k} /\ s[k][3] = v
AllSay(s, f, kinds, v) == \A k \in Hits(s, f, kinds) : s[k][3] = v

\* What s has of format f and these kinds is what t has of them.
SameLines(s, t, f, kinds) ==
    /\ Count(t, f, kinds) = Count(s, f, kinds)
    /\ Hits(t, f, kinds) = {} <=> Hits(s, f, kinds) = {}
    /\ \A v : Says(s, f, kinds, v) => Says(t, f, kinds, v)
    /\ \A v : AllSay(s, f, kinds, v) => AllSay(t, f, kinds, v)

\* Lines of other formats or kinds, before or after, make no difference.
LEMMA Beside ==
    ASSUME NEW s \in Seq(Printable), NEW t \in Seq(Printable), NEW f, NEW kinds
    PROVE  /\ Hits(s, f, kinds) = {} => SameLines(t, s \o t, f, kinds)
           /\ Hits(t, f, kinds) = {} => SameLines(s, s \o t, f, kinds)
<1>1. PICK st, m, S, T : /\ st = s \o t /\ m = Len(s)
                         /\ S = Hits(s, f, kinds) /\ T = Hits(t, f, kinds)
  OBVIOUS
<1>2. /\ \A k \in 1 .. m : st[k] = s[k]
      /\ \A k \in 1 .. Len(t) : st[m + k] = t[k]
      /\ Hits(st, f, kinds) = S \cup {m + k : k \in T}
  BY <1>1, HitsConcat
<1>3. S \subseteq 1 .. m /\ T \subseteq 1 .. Len(t)
  BY <1>1 DEF Hits
<1>4. /\ Count(st, f, kinds) = Count(s, f, kinds) + Count(t, f, kinds)
      /\ Count(s, f, kinds) \in Nat /\ Count(t, f, kinds) \in Nat
  BY <1>1, CountConcat, CountType
<1>5. ASSUME S = {} PROVE SameLines(t, st, f, kinds)
  <2>1. Count(st, f, kinds) = Count(t, f, kinds)
    <3>1. Count(s, f, kinds) = 0
      BY <1>1, <1>5, FS_EmptySet DEF Count
    <3> QED
      BY <1>4, <3>1
  <2>2. Hits(st, f, kinds) = {m + k : k \in T}
    BY <1>2, <1>5
  <2>3. \A k \in T : st[m + k] = t[k]
    BY <1>2, <1>3
  <2>4. Hits(st, f, kinds) = {} <=> T = {}
    BY <2>2
  <2>5. ASSUME NEW v, Says(t, f, kinds, v) PROVE Says(st, f, kinds, v)
    <3>1. PICK k : T = {k} /\ t[k][3] = v
      BY <1>1, <2>5 DEF Says
    <3>2. Hits(st, f, kinds) = {m + k} /\ st[m + k][3] = v
      BY <2>2, <2>3, <3>1
    <3> QED
      BY <3>2 DEF Says
  <2>6. ASSUME NEW v, AllSay(t, f, kinds, v) PROVE AllSay(st, f, kinds, v)
    <3>1. \A k \in T : t[k][3] = v
      BY <1>1, <2>6 DEF AllSay
    <3>2. ASSUME NEW h \in Hits(st, f, kinds) PROVE st[h][3] = v
      <4>1. PICK k \in T : h = m + k
        BY <2>2, <3>2
      <4> QED
        BY <2>3, <3>1, <4>1
    <3> QED
      BY <3>2 DEF AllSay
  <2> QED
    BY <1>1, <2>1, <2>4, <2>5, <2>6 DEF SameLines
<1>6. ASSUME T = {} PROVE SameLines(s, st, f, kinds)
  <2>1. Count(st, f, kinds) = Count(s, f, kinds)
    <3>1. Count(t, f, kinds) = 0
      BY <1>1, <1>6, FS_EmptySet DEF Count
    <3> QED
      BY <1>4, <3>1
  <2>2. Hits(st, f, kinds) = S
    BY <1>2, <1>6
  <2>3. \A k \in S : st[k] = s[k]
    BY <1>2, <1>3
  <2> QED
    BY <1>1, <2>1, <2>2, <2>3 DEF SameLines, Says, AllSay
<1> QED
  BY <1>1, <1>5, <1>6

\* The same lines as in the same lines.
LEMMA SameAgain ==
    ASSUME NEW s, NEW t, NEW u, NEW f, NEW kinds,
           SameLines(s, t, f, kinds), SameLines(t, u, f, kinds)
    PROVE  SameLines(s, u, f, kinds)
  BY DEF SameLines

\* The summary line of TAP.
TapEnds == {l \in Printable : l[1] = "TAP" /\ l[2] \in {"group_ok", "group_not_ok"}}

\* The lines of each part of a report are none of these.
LEMMA PartsDiffer ==
    ASSUME NEW bad, NEW s \in Seq(Early), NEW a \in Seq(Late(bad)), NEW b \in Seq(TapEnds),
           NEW c \in Seq(XmlLines)
    PROVE  /\ s \in Seq(Printable) /\ a \in Seq(Printable)
           /\ b \in Seq(Printable) /\ c \in Seq(Printable)
           /\ \A kinds : /\ Hits(s, "XML", kinds) = {} /\ Hits(a, "XML", kinds) = {}
                         /\ Hits(b, "XML", kinds) = {}
           /\ \A f \in Live : /\ Hits(a, f, Bad) = {} /\ Hits(b, f, Bad) = {}
                              /\ \A kinds : Hits(c, f, kinds) = {}
           /\ \A kinds : Hits(a, "TAP", kinds) = {} /\ Hits(b, "STANDARD", kinds) = {}
           /\ Hits(s, "TAP", {"group_ok"}) = {} /\ Hits(s, "STANDARD", {"total_failed"}) = {}
           /\ Hits(b, "TAP", {"plan"}) = {} /\ Hits(b, "TAP", {"version"}) = {}
           /\ Hits(b, "TAP", TestKinds) = {}
<1>1. /\ Early \subseteq Printable /\ Late(bad) \subseteq Printable /\ TapEnds \subseteq Printable
      /\ XmlLines \subseteq Printable
  BY DEF Early, Late, TapEnds, XmlLines
<1>2. /\ s \in Seq(Printable) /\ a \in Seq(Printable)
      /\ b \in Seq(Printable) /\ c \in Seq(Printable)
  BY <1>1, MoreLines
<1>3. \A k \in 1 .. Len(s) : s[k][1] # "XML" /\ s[k][2] \in EarlyKinds
  <2>1. \A k \in 1 .. Len(s) : s[k] \in Early
    OBVIOUS
  <2> QED
    BY <2>1 DEF Early
<1>4. \A k \in 1 .. Len(a) : a[k][1] = "STANDARD" /\ a[k][2] \in LateKinds
  <2>1. \A k \in 1 .. Len(a) : a[k] \in Late(bad)
    OBVIOUS
  <2> QED
    BY <2>1 DEF Late
<1>5. \A k \in 1 .. Len(b) : b[k][1] = "TAP" /\ b[k][2] \in {"group_ok", "group_not_ok"}
  <2>1. \A k \in 1 .. Len(b) : b[k] \in TapEnds
    OBVIOUS
  <2> QED
    BY <2>1 DEF TapEnds
<1>6. \A k \in 1 .. Len(c) : c[k][1] = "XML"
  <2>1. \A k \in 1 .. Len(c) : c[k] \in XmlLines
    OBVIOUS
  <2> QED
    BY <2>1 DEF XmlLines
<1>7. \A kinds : /\ Hits(s, "XML", kinds) = {} /\ Hits(a, "XML", kinds) = {}
                 /\ Hits(b, "XML", kinds) = {}
  BY <1>3, <1>4, <1>5 DEF Hits
<1>8. ASSUME NEW f \in Live
      PROVE  Hits(a, f, Bad) = {} /\ Hits(b, f, Bad) = {} /\ \A kinds : Hits(c, f, kinds) = {}
  <2>1. f # "XML" /\ "group_ok" \notin Bad /\ "group_not_ok" \notin Bad
        /\ \A kind \in LateKinds : kind \notin Bad
    BY DEF Live, Bad, LateKinds
  <2> QED
    BY <1>4, <1>5, <1>6, <2>1 DEF Hits
<1>9. \A kinds : Hits(a, "TAP", kinds) = {} /\ Hits(b, "STANDARD", kinds) = {}
  BY <1>4, <1>5 DEF Hits
<1>10. Hits(s, "TAP", {"group_ok"}) = {} /\ Hits(s, "STANDARD", {"total_failed"}) = {}
  <2>1. "group_ok" \notin EarlyKinds /\ "total_failed" \notin EarlyKinds
    BY DEF EarlyKinds, TestKinds
  <2> QED
    BY <1>3, <2>1 DEF Hits
<1>11. /\ Hits(b, "TAP", {"plan"}) = {} /\ Hits(b, "TAP", {"version"}) = {}
       /\ Hits(b, "TAP", TestKinds) = {}
  <2>1. "group_ok" \notin TestKinds /\ "group_not_ok" \notin TestKinds
    BY DEF TestKinds
  <2> QED
    BY <1>5, <2>1 DEF Hits
<1> QED
  BY <1>2, <1>7, <1>8, <1>9, <1>10, <1>11

\* A TAP report is sound in t if it is in s.
KeepsShape(s, t) ==
    \A tests, first : \A n \in Nat : TapShape(s, tests, n, first) => TapShape(t, tests, n, first)

\* The parts of a report are told apart: the XML suite, the summaries of TAP and
\* of the standard report, and what was printed while the group ran.
LEMMA PartsJoined ==
    ASSUME NEW bad, NEW s \in Seq(Early), NEW a \in Seq(Late(bad)), NEW b \in Seq(TapEnds),
           NEW c \in Seq(XmlLines), NEW e, e = s \o ((a \o b) \o c)
    PROVE  /\ e \in Seq(Printable)
           /\ \A kinds : SameLines(c, e, "XML", kinds)
           /\ \A f \in Live : SameLines(s, e, f, Bad)
           /\ SameLines(b, e, "TAP", {"group_ok"})
           /\ SameLines(a, e, "STANDARD", {"total_failed"})
           /\ KeepsShape(s, e)
<1>1. /\ s \in Seq(Printable) /\ a \in Seq(Printable)
      /\ b \in Seq(Printable) /\ c \in Seq(Printable)
  BY PartsDiffer
<1>2. PICK d, t : d = a \o b /\ t = d \o c
  OBVIOUS
<1>3. d \in Seq(Printable) /\ t \in Seq(Printable) /\ e = s \o t /\ e \in Seq(Printable)
  BY <1>1, <1>2, ConcatProperties
<1>4. ASSUME NEW f, NEW kinds
      PROVE  /\ (Hits(a, f, kinds) = {} /\ Hits(b, f, kinds) = {}) => Hits(d, f, kinds) = {}
             /\ (Hits(d, f, kinds) = {} /\ Hits(c, f, kinds) = {}) => Hits(t, f, kinds) = {}
             /\ Hits(b, f, kinds) = {} => SameLines(a, d, f, kinds)
             /\ Hits(a, f, kinds) = {} => SameLines(b, d, f, kinds)
             /\ Hits(c, f, kinds) = {} => SameLines(d, t, f, kinds)
             /\ Hits(d, f, kinds) = {} => SameLines(c, t, f, kinds)
             /\ Hits(t, f, kinds) = {} => SameLines(s, e, f, kinds)
             /\ Hits(s, f, kinds) = {} => SameLines(t, e, f, kinds)
  <2>1. /\ Hits(b, f, kinds) = {} => SameLines(a, a \o b, f, kinds)
        /\ Hits(a, f, kinds) = {} => SameLines(b, a \o b, f, kinds)
    BY <1>1, Beside
  <2>2. /\ Hits(c, f, kinds) = {} => SameLines(d, d \o c, f, kinds)
        /\ Hits(d, f, kinds) = {} => SameLines(c, d \o c, f, kinds)
    BY <1>1, <1>3, Beside
  <2>3. /\ Hits(t, f, kinds) = {} => SameLines(s, s \o t, f, kinds)
        /\ Hits(s, f, kinds) = {} => SameLines(t, s \o t, f, kinds)
    BY <1>1, <1>3, Beside
  <2>4. /\ (Hits(a, f, kinds) = {} /\ Hits(b, f, kinds) = {}) => Hits(d, f, kinds) = {}
        /\ (Hits(d, f, kinds) = {} /\ Hits(c, f, kinds) = {}) => Hits(t, f, kinds) = {}
    BY <1>2, <2>1, <2>2 DEF SameLines
  <2> QED
    BY <1>2, <1>3, <2>1, <2>2, <2>3, <2>4
<1>5. ASSUME NEW kinds PROVE SameLines(c, e, "XML", kinds)
  <2>1. /\ Hits(s, "XML", kinds) = {} /\ Hits(a, "XML", kinds) = {}
        /\ Hits(b, "XML", kinds) = {}
    BY PartsDiffer
  <2>2. SameLines(c, t, "XML", kinds) /\ SameLines(t, e, "XML", kinds)
    BY <1>4, <2>1
  <2> QED
    BY <2>2, SameAgain
<1>6. ASSUME NEW f \in Live PROVE SameLines(s, e, f, Bad)
  <2>1. Hits(a, f, Bad) = {} /\ Hits(b, f, Bad) = {} /\ Hits(c, f, Bad) = {}
    BY PartsDiffer
  <2> QED
    BY <1>4, <2>1
<1>7. SameLines(b, e, "TAP", {"group_ok"})
  <2>1. /\ Hits(s, "TAP", {"group_ok"}) = {} /\ Hits(a, "TAP", {"group_ok"}) = {}
        /\ Hits(c, "TAP", {"group_ok"}) = {}
    BY PartsDiffer DEF Live
  <2>2. PICK kinds : kinds = {"group_ok"}
    OBVIOUS
  <2>3. /\ SameLines(b, d, "TAP", kinds) /\ SameLines(d, t, "TAP", kinds)
        /\ SameLines(t, e, "TAP", kinds)
    BY <1>4, <2>1, <2>2
  <2>4. SameLines(b, t, "TAP", kinds)
    BY <2>3, SameAgain
  <2>5. SameLines(b, e, "TAP", kinds)
    BY <2>3, <2>4, SameAgain
  <2> QED
    BY <2>2, <2>5
<1>8. SameLines(a, e, "STANDARD", {"total_failed"})
  <2>1. /\ Hits(s, "STANDARD", {"total_failed"}) = {} /\ Hits(b, "STANDARD", {"total_failed"}) = {}
        /\ Hits(c, "STANDARD", {"total_failed"}) = {}
    BY PartsDiffer DEF Live
  <2>2. PICK kinds : kinds = {"total_failed"}
    OBVIOUS
  <2>3. /\ SameLines(a, d, "STANDARD", kinds) /\ SameLines(d, t, "STANDARD", kinds)
        /\ SameLines(t, e, "STANDARD", kinds)
    BY <1>4, <2>1, <2>2
  <2>4. SameLines(a, t, "STANDARD", kinds)
    BY <2>3, SameAgain
  <2>5. SameLines(a, e, "STANDARD", kinds)
    BY <2>3, <2>4, SameAgain
  <2> QED
    BY <2>2, <2>5
<1>9. /\ Hits(t, "TAP", {"plan"}) = {} /\ Hits(t, "TAP", {"version"}) = {}
      /\ Hits(t, "TAP", TestKinds) = {}
  <2>1. /\ Hits(b, "TAP", {"plan"}) = {} /\ Hits(b, "TAP", {"version"}) = {}
        /\ Hits(b, "TAP", TestKinds) = {}
    BY PartsDiffer
  <2>2. \A kinds : Hits(a, "TAP", kinds) = {} /\ Hits(c, "TAP", kinds) = {}
    BY PartsDiffer DEF Live
  <2> QED
    BY <1>4, <2>1, <2>2
<1>10. Numbered(t) = {}
  BY <1>9 DEF Numbered
<1>11. ASSUME NEW tests, NEW first, NEW n \in Nat, TapShape(s, tests, n, first)
       PROVE  TapShape(e, tests, n, first)
  <2>1. TapShape(s \o t, tests, n, first)
    BY <1>1, <1>3, <1>9, <1>10, <1>11, TapGoesOn
  <2> QED
    BY <1>3, <2>1
<1>12. KeepsShape(s, e)
  BY <1>11 DEF KeepsShape
<1> QED
  BY <1>3, <1>5, <1>6, <1>7, <1>8, <1>12

\* What the end of a report says: its standard summary, its TAP summary, and its
\* XML suite with attributes and test cases.
Suite(s) ==
    /\ Says(s, "XML", {"tests"}, Len(results)) /\ Says(s, "XML", {"failures"}, Total("FAILED"))
    /\ Says(s, "XML", {"errors"}, TotalErrors) /\ Says(s, "XML", {"skipped"}, Total("SKIPPED"))
    /\ Count(s, "XML", {"failure"}) = Total("ERROR") + Total("FAILED")
    /\ Count(s, "XML", {"skip"}) = Total("SKIPPED")
    /\ Count(s, "XML", CaseKinds) = Len(results)

\* What the three printers write at the end of a group.
LEMMA EndText ==
    ASSUME results \in Seq(TestResults), NEW bad, bad = Total("FAILED") + TotalErrors,
           NEW a, a = In("STANDARD", cmprintf_group_finish_standard),
           NEW b, b = In("TAP", cmprintf_group_finish_tap), NEW c, c = In("XML", XmlSuite)
    PROVE  /\ a \in Seq(Late(bad)) /\ b \in Seq(TapEnds) /\ c \in Seq(XmlLines)
           /\ "STANDARD" \in cm_get_output =>
                 (Hits(a, "STANDARD", {"total_failed"}) = {} <=> Total("FAILED") = 0)
           /\ "TAP" \in cm_get_output =>
                 (Hits(b, "TAP", {"group_ok"}) # {}
                     <=> Total("PASSED") + Total("SKIPPED") = Len(results))
           /\ "XML" \in cm_get_output => Suite(c)
<1>1. \A L : <<>> \in Seq(L)
  BY EmptySeq
<1>2. PICK x : x = cmprintf_group_finish_standard
  OBVIOUS
<1>3. x \in Seq(Late(bad)) /\ (Hits(x, "STANDARD", {"total_failed"}) = {} <=> Total("FAILED") = 0)
  BY <1>2, StandardFinish
<1>4. /\ a \in Seq(Late(bad))
      /\ "STANDARD" \in cm_get_output =>
            (Hits(a, "STANDARD", {"total_failed"}) = {} <=> Total("FAILED") = 0)
  BY <1>1, <1>2, <1>3 DEF In
<1>5. PICK ok, kind, l : /\ ok = (Total("PASSED") + Total("SKIPPED") = Len(results))
                         /\ kind = (IF ok THEN "group_ok" ELSE "group_not_ok")
                         /\ l = <<"TAP", kind, 0, <<>>>>
  OBVIOUS
<1>6. l \in Printable /\ l[1] = "TAP" /\ l[2] = kind
  <2>1. "TAP" \in LineFormats /\ kind \in LineKinds /\ 0 \in Nat
    BY <1>5 DEF LineFormats, Formats, LineKinds
  <2> QED
    BY <1>5, <2>1, ShortLine
<1>7. <<l>> \in Seq(TapEnds) /\ (Hits(<<l>>, "TAP", {"group_ok"}) # {} <=> ok)
  <2>1. l \in TapEnds
    BY <1>5, <1>6 DEF TapEnds
  <2>2. Hits(<<l>>, "TAP", {"group_ok"}) = IF l[1] = "TAP" /\ l[2] \in {"group_ok"} THEN {1} ELSE {}
    BY <1>6, CountLine
  <2>3. l[2] = "group_ok" <=> ok
    BY <1>5, <1>6
  <2>4. Hits(<<l>>, "TAP", {"group_ok"}) # {} <=> ok
    BY <1>6, <2>2, <2>3
  <2> QED
    BY <2>1, <2>4
<1>8. cmprintf_group_finish_tap = <<l>>
  BY <1>5 DEF cmprintf_group_finish_tap
<1>9. /\ b \in Seq(TapEnds)
      /\ "TAP" \in cm_get_output => (Hits(b, "TAP", {"group_ok"}) # {} <=> ok)
  BY <1>1, <1>7, <1>8 DEF In
<1>10. PICK y : y = XmlSuite
  OBVIOUS
<1>11. y \in Seq(XmlLines) /\ Suite(y)
  <2>1. /\ y \in Seq(XmlLines)
        /\ Hits(y, "XML", {"tests"}) = {1} /\ y[1][3] = Len(results)
        /\ Hits(y, "XML", {"failures"}) = {2} /\ y[2][3] = Total("FAILED")
        /\ Hits(y, "XML", {"errors"}) = {3} /\ y[3][3] = TotalErrors
        /\ Hits(y, "XML", {"skipped"}) = {4} /\ y[4][3] = Total("SKIPPED")
        /\ Count(y, "XML", {"failure"}) = Total("ERROR") + Total("FAILED")
        /\ Count(y, "XML", {"skip"}) = Total("SKIPPED")
        /\ Count(y, "XML", CaseKinds) = Len(results)
    BY <1>10, SuiteIs
  <2> QED
    BY <2>1 DEF Suite, Says
<1>12. c \in Seq(XmlLines) /\ ("XML" \in cm_get_output => Suite(c))
  BY <1>1, <1>10, <1>11 DEF In
<1> QED
  BY <1>4, <1>5, <1>9, <1>12

\* The lines that the properties speak of.
LEMMA LinesNext ==
    ASSUME NEW s, s = lines', s \in Seq(Printable)
    PROVE  /\ \A f, kinds : LinesOf(f, kinds)' = Hits(s, f, kinds)
           /\ \A f, kind, v : Says(s, f, {kind}, v) => NumberIn(f, kind)' = v
<1>1. DOMAIN s = 1 .. Len(s)
  OBVIOUS
<1>2. \A f, kinds : LinesOf(f, kinds)' = Hits(s, f, kinds)
  BY <1>1 DEF LinesOf, Hits
<1>3. ASSUME NEW f, NEW kind, NEW v, Says(s, f, {kind}, v) PROVE NumberIn(f, kind)' = v
  <2>1. PICK k : Hits(s, f, {kind}) = {k} /\ s[k][3] = v
    BY <1>3 DEF Says
  <2>2. NumberIn(f, kind)' = s[CHOOSE j \in LinesOf(f, {kind})' : TRUE][3]
    BY DEF NumberIn
  <2>3. LinesOf(f, {kind})' = {k}
    BY <1>2, <2>1
  <2>4. (CHOOSE j \in {k} : TRUE) = k
    OBVIOUS
  <2> QED
    BY <2>1, <2>2, <2>3, <2>4
<1> QED
  BY <1>2, <1>3

\* The plan of a report that has ended is kept.
LEMMA PlanKept ==
    ASSUME NEW s, s = lines', s \in Seq(Printable), NEW n, n = (IF group'.setup THEN group'.tests ELSE 0),
           "TAP" \in global_msg_output' => TapShape(s, group'.tests, n, group'.number = 1)
    PROVE  TapKeepsItsPlan'
<1> SUFFICES ASSUME "TAP" \in global_msg_output'
             PROVE  LET plans    == LinesOf("TAP", {"plan"})'
                        versions == LinesOf("TAP", {"version"})'
                        numbered == {k \in LinesOf("TAP", {"success", "failure", "skip", "error"})' :
                                        s[k][3] > 0}
                    IN  /\ {s[k][3] : k \in numbered} = 1 .. n
                        /\ \A k, l \in numbered : k < l => s[k][3] < s[l][3]
                        /\ Cardinality(plans) = 1 /\ NumberIn("TAP", "plan")' = group'.tests
                        /\ group'.number = 1 => versions # {}
                        /\ \A k \in versions, l \in DOMAIN s : s[l][1] = "TAP" => k <= l
  BY DEF TapKeepsItsPlan
<1>1. TapShape(s, group'.tests, n, group'.number = 1)
  OBVIOUS
<1>2. /\ LinesOf("TAP", {"plan"})' = Hits(s, "TAP", {"plan"})
      /\ LinesOf("TAP", {"version"})' = Hits(s, "TAP", {"version"})
      /\ LinesOf("TAP", {"success", "failure", "skip", "error"})' = Hits(s, "TAP", TestKinds)
      /\ DOMAIN s = 1 .. Len(s)
  BY LinesNext DEF TestKinds
<1>3. PICK N : N = Numbered(s)
  OBVIOUS
<1>4. {k \in LinesOf("TAP", {"success", "failure", "skip", "error"})' : s[k][3] > 0} = N
  BY <1>2, <1>3 DEF Numbered
<1>5. {s[k][3] : k \in N} = 1 .. n /\ \A k, l \in N : k < l => s[k][3] < s[l][3]
  BY <1>1, <1>3 DEF TapShape
<1>6. PICK p : Hits(s, "TAP", {"plan"}) = {p} /\ s[p][3] = group'.tests
  BY <1>1 DEF TapShape
<1>7. Cardinality(LinesOf("TAP", {"plan"})') = 1
  BY <1>2, <1>6, FS_Singleton
<1>8. NumberIn("TAP", "plan")' = group'.tests
  <2>1. PICK v : v = group'.tests
    OBVIOUS
  <2>2. Says(s, "TAP", {"plan"}, v)
    BY <1>6, <2>1 DEF Says
  <2> QED
    BY <2>1, <2>2, LinesNext
<1>9. /\ group'.number = 1 => Hits(s, "TAP", {"version"}) # {}
      /\ \A k \in Hits(s, "TAP", {"version"}), l \in 1 .. Len(s) : s[l][1] = "TAP" => k <= l
  BY <1>1 DEF TapShape
<1> QED
  BY <1>2, <1>4, <1>5, <1>7, <1>8, <1>9

\* The formats agree on the failures and errors of a report that has ended.
LEMMA ReportsAgree ==
    ASSUME NEW s, s = lines', s \in Seq(Printable), results \in Seq(TestResults), Complete(results),
           results' = results, NEW out, out = global_msg_output',
           group'.setup = group.setup,
           NEW bad, bad = Total("FAILED") + TotalErrors, group'.returned = bad,
           \A f \in out \cap Live :
               Count(s, f, Bad) = BadOf(results, group'.setup, group'.teardown),
           "XML" \in out => Suite(s),
           "TAP" \in out => (Hits(s, "TAP", {"group_ok"}) # {}
                                <=> Total("PASSED") + Total("SKIPPED") = Len(results)),
           AllSay(s, "STANDARD", {"total_failed"}, bad),
           "STANDARD" \in out =>
               (Hits(s, "STANDARD", {"total_failed"}) = {} <=> Total("FAILED") = 0)
    PROVE  VerdictsAgree'
<1>1. PICK P, S, F, E, o, w, N : /\ P = Total("PASSED") /\ S = Total("SKIPPED")
                                 /\ F = Total("FAILED") /\ E = Total("ERROR")
                                 /\ o = (IF group.setup THEN 0 ELSE 1)
                                 /\ w = (IF group'.teardown THEN 0 ELSE 1) /\ N = Len(results)
  OBVIOUS
<1>2. /\ P \in Nat /\ S \in Nat /\ F \in Nat /\ E \in Nat /\ N \in Nat
      /\ o \in Nat /\ w \in Nat /\ TotalErrors = E + o /\ bad = F + (E + o) /\ bad \in Nat
  BY <1>1, TotalsAre
<1>3. P + S + F + E = N
  BY <1>1, TotalsAre DEF Complete
<1>4. BadOf(results, group'.setup, group'.teardown) = bad + w
  <2>1. BadOf(results, group'.setup, group'.teardown) = F + E + o + w
    BY <1>1, TotalsAre DEF BadOf, Owed
  <2> QED
    BY <1>2, <2>1
<1>5. ASSUME NEW f \in out \cap Live
      PROVE  Cardinality(LinesOf(f, {"failure", "error"})') = bad + w
  <2>1. LinesOf(f, {"failure", "error"})' = Hits(s, f, Bad)
    BY LinesNext DEF Bad
  <2> QED
    BY <1>4, <2>1 DEF Count
<1>6. ASSUME "XML" \in out
      PROVE  /\ NumberIn("XML", "failures")' + NumberIn("XML", "errors")' = bad
             /\ Cardinality(LinesOf("XML", {"failure"})') + o = bad
             /\ Cardinality(LinesOf("XML", {"skip"})') = NumberIn("XML", "skipped")'
             /\ Cardinality(LinesOf("XML", {"failure", "skip", "success"})') = NumberIn("XML", "tests")'
  <2>1. Suite(s)
    BY <1>6
  <2>2. PICK e : e = TotalErrors
    OBVIOUS
  <2>3. /\ Says(s, "XML", {"tests"}, N) /\ Says(s, "XML", {"failures"}, F)
        /\ Says(s, "XML", {"errors"}, e) /\ Says(s, "XML", {"skipped"}, S)
    BY <1>1, <2>1, <2>2 DEF Suite
  <2>4. /\ NumberIn("XML", "tests")' = N /\ NumberIn("XML", "failures")' = F
        /\ NumberIn("XML", "errors")' = e /\ NumberIn("XML", "skipped")' = S
    BY <2>3, LinesNext
  <2>5. /\ Cardinality(LinesOf("XML", {"failure"})') = E + F
        /\ Cardinality(LinesOf("XML", {"skip"})') = S
        /\ Cardinality(LinesOf("XML", {"failure", "skip", "success"})') = N
    <3>1. /\ Count(s, "XML", {"failure"}) = E + F /\ Count(s, "XML", {"skip"}) = S
          /\ Count(s, "XML", CaseKinds) = N
      BY <1>1, <2>1 DEF Suite
    <3>2. /\ LinesOf("XML", {"failure"})' = Hits(s, "XML", {"failure"})
          /\ LinesOf("XML", {"skip"})' = Hits(s, "XML", {"skip"})
          /\ LinesOf("XML", {"failure", "skip", "success"})' = Hits(s, "XML", CaseKinds)
      BY LinesNext DEF CaseKinds
    <3> QED
      BY <3>1, <3>2 DEF Count
  <2>6. F + e = bad /\ (E + F) + o = bad
    BY <1>2, <2>2
  <2> QED
    BY <2>4, <2>5, <2>6
<1>7. ASSUME "TAP" \in out
      PROVE  LinesOf("TAP", {"group_ok"})' # {} <=> bad = o
  <2>1. LinesOf("TAP", {"group_ok"})' = Hits(s, "TAP", {"group_ok"})
    BY LinesNext
  <2>2. Hits(s, "TAP", {"group_ok"}) # {} <=> P + S = N
    BY <1>1, <1>7
  <2>3. P + S = N <=> bad = o
    BY <1>2, <1>3
  <2> QED
    BY <2>1, <2>2, <2>3
<1>8. LinesOf("STANDARD", {"total_failed"})' = Hits(s, "STANDARD", {"total_failed"})
  BY LinesNext
<1>9. \A k \in LinesOf("STANDARD", {"total_failed"})' : lines'[k][3] = bad
  BY <1>8 DEF AllSay
<1>10. F = 0 <=> \A i \in DOMAIN results : results[i][1] # "FAILED"
  <2>1. F = TotalIn(results, "FAILED")
    BY <1>1, TotalsAre
  <2>2. TotalIn(results, "FAILED") = 0 <=> \A i \in DOMAIN results : results[i][1] # "FAILED"
    BY TotalType
  <2> QED
    BY <2>1, <2>2
<1>11. "STANDARD" \in out =>
          (LinesOf("STANDARD", {"total_failed"})' = {}
              <=> \A i \in DOMAIN results' : results'[i][1] # "FAILED")
  BY <1>1, <1>8, <1>10
<1> QED
  BY <1>1, <1>5, <1>6, <1>7, <1>9, <1>11 DEF VerdictsAgree, Live

\* The report ends.
LEMMA LinesFinish ==
    ASSUME ReportInv, LinesInv, NEW leaked \in BOOLEAN, group_finish(leaked)
    PROVE  LinesInv'
<1>1. /\ GroupInv /\ FormatInv /\ ShapeInv /\ results \in Seq(TestResults)
  BY DEF ReportInv, LinesInv, MessageInv, TestResults
<1>2. PICK st, bad : /\ st = (IF leaked THEN "exited" ELSE "returned")
                     /\ bad = Total("FAILED") + TotalErrors
  OBVIOUS
<1>3. /\ group.stage = "finish"
      /\ lines' = lines \o cmprintf_group_finish
      /\ group' = [group EXCEPT !.stage = st, !.returned = bad]
      /\ results' = results /\ version_printed' = version_printed
      /\ global_msg_output' = global_msg_output
  BY <1>2 DEF group_finish, outputVars
<1>4. /\ group'.stage = st /\ group'.returned = bad
      /\ group'.setup = group.setup /\ group'.teardown = group.teardown
      /\ group'.tests = group.tests /\ group'.number = group.number
  BY <1>1, <1>3 DEF GroupInv, Fields
<1>5. st \in {"returned", "exited"}
  BY <1>2
<1>6. group.number > 0 /\ group.number \in Nat /\ Running
  BY <1>1, <1>3 DEF GroupInv, Running
<1>7. ShapeInv'
  BY <1>1, <1>3, <1>4, <1>5 DEF ShapeInv
<1>8. ~ Running'
  BY <1>4, <1>5 DEF Running
<1>9. cm_get_output = global_msg_output
  BY <1>1, <1>6, OutputIsGlobal
<1>10. PICK a, b, c, e : /\ a = In("STANDARD", cmprintf_group_finish_standard)
                         /\ b = In("TAP", cmprintf_group_finish_tap)
                         /\ c = In("XML", XmlSuite)
                         /\ e = lines \o ((a \o b) \o c)
  OBVIOUS
<1>11. lines' = e
  BY <1>3, <1>10 DEF cmprintf_group_finish
<1>12. /\ a \in Seq(Late(bad)) /\ b \in Seq(TapEnds) /\ c \in Seq(XmlLines)
       /\ "STANDARD" \in cm_get_output =>
             (Hits(a, "STANDARD", {"total_failed"}) = {} <=> Total("FAILED") = 0)
       /\ "TAP" \in cm_get_output =>
             (Hits(b, "TAP", {"group_ok"}) # {}
                 <=> Total("PASSED") + Total("SKIPPED") = Len(results))
       /\ "XML" \in cm_get_output => Suite(c)
  BY <1>1, <1>2, <1>10, EndText
<1>13. PICK s, own, n : /\ s = lines /\ own = BadOf(results, group.setup, group.teardown)
                        /\ n = Len(results)
  OBVIOUS
<1>14. /\ s \in Seq(Early) /\ n \in Nat
       /\ \A f \in global_msg_output \cap Live : Count(s, f, Bad) = own
       /\ "TAP" \in global_msg_output => TapShape(s, group.tests, n, group.number = 1)
  BY <1>1, <1>6, <1>13, LenProperties DEF LinesInv, Sound
<1>15. /\ e \in Seq(Printable)
       /\ \A kinds : SameLines(c, e, "XML", kinds)
       /\ \A f \in Live : SameLines(s, e, f, Bad)
       /\ SameLines(b, e, "TAP", {"group_ok"})
       /\ SameLines(a, e, "STANDARD", {"total_failed"})
  <2>1. e = s \o ((a \o b) \o c)
    BY <1>10, <1>13
  <2> QED
    BY <1>12, <1>14, <2>1, PartsJoined
<1>16. ASSUME NEW tests, NEW first, TapShape(s, tests, n, first)
       PROVE  TapShape(e, tests, n, first)
  <2>1. e = s \o ((a \o b) \o c)
    BY <1>10, <1>13
  <2>2. KeepsShape(s, e)
    BY <1>12, <1>14, <2>1, PartsJoined
  <2> QED
    BY <1>14, <1>16, <2>2 DEF KeepsShape
<1>17. TapKeepsItsPlan'
  <2>1. n = (IF group'.setup THEN group'.tests ELSE 0)
    BY <1>1, <1>3, <1>4, <1>13 DEF ShapeInv
  <2>2. "TAP" \in global_msg_output => TapShape(e, group.tests, n, group.number = 1)
    BY <1>14, <1>16
  <2>3. (group'.number = 1) = (group.number = 1)
    BY <1>4
  <2>4. "TAP" \in global_msg_output' => TapShape(e, group'.tests, n, group'.number = 1)
    BY <1>3, <1>4, <2>2, <2>3
  <2> QED
    BY <1>11, <1>15, <2>1, <2>4, PlanKept
<1>18. VerdictsAgree'
  <2>1. PICK out : out = global_msg_output'
    OBVIOUS
  <2>2. \A f \in out \cap Live :
           Count(e, f, Bad) = BadOf(results, group'.setup, group'.teardown)
    BY <1>3, <1>4, <1>13, <1>14, <1>15, <2>1 DEF SameLines
  <2>3. "XML" \in out => Suite(e)
    BY <1>3, <1>9, <1>12, <1>15, <2>1 DEF SameLines, Suite
  <2>4. "TAP" \in out => (Hits(e, "TAP", {"group_ok"}) # {}
                             <=> Total("PASSED") + Total("SKIPPED") = Len(results))
    BY <1>3, <1>9, <1>12, <1>15, <2>1 DEF SameLines
  <2>5. AllSay(e, "STANDARD", {"total_failed"}, bad)
    <3>1. \A k \in 1 .. Len(a) : a[k] \in Late(bad)
      BY <1>12
    <3>2. AllSay(a, "STANDARD", {"total_failed"}, bad)
      BY <3>1 DEF AllSay, Hits, Late
    <3> QED
      BY <1>15, <3>2 DEF SameLines
  <2>6. "STANDARD" \in out =>
           (Hits(e, "STANDARD", {"total_failed"}) = {} <=> Total("FAILED") = 0)
    BY <1>3, <1>9, <1>12, <1>15, <2>1 DEF SameLines
  <2>7. Complete(results)
    BY <1>1 DEF ShapeInv
  <2> QED
    BY <1>1, <1>2, <1>3, <1>4, <1>11, <1>15, <2>1, <2>2, <2>3, <2>4, <2>5, <2>6, <2>7, ReportsAgree
<1> QED
  BY <1>7, <1>8, <1>17, <1>18 DEF LinesInv

\* The program goes on.
LEMMA LinesReturned ==
    ASSUME ReportInv, LinesInv, group_returned
    PROVE  LinesInv'
<1>1. GroupInv /\ ShapeInv
  BY DEF ReportInv, LinesInv
<1>2. /\ group.stage = "returned" /\ group' = [NoGroup EXCEPT !.number = group.number]
      /\ results' = <<>> /\ version_printed' = version_printed
  BY DEF group_returned
<1>3. /\ group'.stage = "idle" /\ group'.setup = TRUE /\ group'.teardown = TRUE
      /\ group'.tests = 0 /\ group'.number = group.number
  <2>1. /\ DOMAIN NoGroup = Fields /\ NoGroup.stage = "idle" /\ NoGroup.setup = TRUE
        /\ NoGroup.teardown = TRUE /\ NoGroup.tests = 0
    BY DEF NoGroup, Fields
  <2> QED
    BY <1>2, <2>1 DEF Fields
<1>4. ShapeInv'
  <2>1. Complete(results')
    BY <1>2, TotalsOfNone
  <2>2. group.number = 0 => ~ version_printed
    BY <1>1 DEF ShapeInv
  <2>3. group'.tests \in Nat /\ group'.setup \in BOOLEAN /\ group'.teardown \in BOOLEAN
    <3>1. group'.tests \in Nat
      BY <1>3
    <3>2. group'.setup \in BOOLEAN /\ group'.teardown \in BOOLEAN
      BY <1>3
    <3> QED
      BY <3>1, <3>2
  <2>4. group'.stage \notin {"setup", "tests", "teardown", "finish", "returned", "exited"}
    BY <1>3
  <2>5. /\ ~ group'.setup => results' = <<>>
        /\ group'.number = 0 => ~ version_printed'
    BY <1>2, <1>3, <2>2
  <2> QED
    BY <2>1, <2>3, <2>4, <2>5 DEF ShapeInv
<1>5. ~ Running'
  BY <1>3 DEF Running
<1>6. TapKeepsItsPlan' /\ VerdictsAgree'
  BY <1>3, NotReported
<1> QED
  BY <1>4, <1>5, <1>6 DEF LinesInv

\* No group has run.
LEMMA LinesInit == Init => LinesInv
<1> SUFFICES ASSUME Init PROVE LinesInv
  OBVIOUS
<1>1. group = NoGroup /\ results = <<>> /\ version_printed = FALSE
  BY DEF Init
<1>2. /\ group.stage = "idle" /\ group.setup = TRUE /\ group.teardown = TRUE
      /\ group.tests = 0 /\ group.number = 0
  BY <1>1 DEF NoGroup
<1>3. ShapeInv
  <2>1. Complete(results)
    BY <1>1, TotalsOfNone
  <2>2. ~ version_printed
    BY <1>1
  <2>3. group.tests \in Nat /\ group.setup \in BOOLEAN /\ group.teardown \in BOOLEAN
    <3>1. group.tests \in Nat
      BY <1>2
    <3>2. group.setup \in BOOLEAN /\ group.teardown \in BOOLEAN
      BY <1>2
    <3> QED
      BY <3>1, <3>2
  <2>4. group.stage \notin {"setup", "tests", "teardown", "finish", "returned", "exited"}
    BY <1>2
  <2>5. ~ group.setup => results = <<>>
    BY <1>1
  <2> QED
    BY <2>1, <2>2, <2>3, <2>4, <2>5 DEF ShapeInv
<1>4. ~ Running /\ ~ Reported
  BY <1>2 DEF Running, Reported
<1> QED
  BY <1>3, <1>4 DEF LinesInv, TapKeepsItsPlan, VerdictsAgree

\* Every step keeps the lines of the group.
LEMMA NextKeepsLines ==
    ASSUME ReportInv, LinesInv, [Next]_vars
    PROVE  LinesInv'
<1>1. CASE UNCHANGED vars
  <2>1. UNCHANGED <<group, results, lines, global_msg_output, version_printed>>
    BY <1>1 DEF vars, outputVars
  <2> QED
    BY <2>1 DEF LinesInv, ShapeInv, Running, Sound, TapKeepsItsPlan, VerdictsAgree, Reported,
                LinesOf, NumberIn
<1>2. ASSUME NEW o \in Outputs, cmocka_set_message_output(o) PROVE LinesInv'
  <2>1. /\ group.stage = "idle"
        /\ UNCHANGED <<group, results, version_printed>>
    BY <1>2 DEF cmocka_set_message_output
  <2>2. ShapeInv'
    BY <2>1 DEF LinesInv, ShapeInv
  <2>3. ~ Running'
    BY <2>1 DEF Running
  <2>4. TapKeepsItsPlan' /\ VerdictsAgree'
    BY <2>1, NotReported
  <2> QED
    BY <2>2, <2>3, <2>4 DEF LinesInv
<1>3. ASSUME NEW name \in GroupNames, NEW n \in 0 .. Max(ToSet(MaxTests)), group_start(name, n)
      PROVE  LinesInv'
  <2>1. n \in Nat
    OBVIOUS
  <2> QED
    BY <1>3, <2>1, LinesStart
<1>4. ASSUME NEW text, \/ text \in PassingTexts("setup") /\ group_setup_passes(text)
                       \/ text \in FailingTexts("setup") /\ group_setup_fails(text)
      PROVE  LinesInv'
  BY <1>4, LinesSetup
<1>5. ASSUME NEW outcome \in Outcomes, run_one_tests(outcome) PROVE LinesInv'
  BY <1>5, LinesTest
<1>6. ASSUME NEW text, \/ text \in PassingTexts("teardown") /\ group_teardown_passes(text)
                       \/ text \in FailingTexts("teardown") /\ group_teardown_fails(text)
      PROVE  LinesInv'
  BY <1>6, LinesTeardown
<1>7. ASSUME NEW leaked \in BOOLEAN, group_finish(leaked) PROVE LinesInv'
  BY <1>7, LinesFinish
<1>8. CASE group_returned
  BY <1>8, LinesReturned
<1>9. CASE program_ends
  BY <1>1, <1>9 DEF program_ends
<1> QED
  BY <1>1, <1>2, <1>3, <1>4, <1>5, <1>6, <1>7, <1>8, <1>9 DEF Next

-----------------------------------------------------------------------------
(* The theorems.                                                           *)

\* ReportInv is an invariant of every program, whatever its groups, formats and
\* environment.
LEMMA ReportInvariant == Spec => []ReportInv
<1>1. Init => ReportInv
  BY InitHasInv
<1>2. ReportInv /\ [Next]_vars => ReportInv'
  BY NextKeepsInv
<1> QED
  BY <1>1, <1>2, PTL DEF Spec

\* So is LinesInv: what has been printed for the group is what its tests and
\* fixtures have come to so far, in every format.
LEMMA LinesInvariant == Spec => []LinesInv
<1>1. Init => LinesInv
  BY LinesInit
<1>2. ReportInv /\ LinesInv /\ [Next]_vars => LinesInv'
  BY NextKeepsLines
<1> QED
  BY <1>1, <1>2, ReportInvariant, PTL DEF Spec

\* cm_get_output: from the first group on the formats are those that the
\* environment names, until cmocka_set_message_output() asks for others.
THEOREM EnvironmentDecides == Spec => []EnvironmentFirst
<1>1. ReportInv => EnvironmentFirst
  <2> SUFFICES ASSUME ReportInv PROVE EnvironmentFirst
    OBVIOUS
  <2>1. group.stage # "idle" => group.number > 0
    BY DEF ReportInv, GroupInv
  <2> QED
    BY <2>1 DEF ReportInv, FormatInv, Named, EnvironmentFirst
<1> QED
  BY <1>1, ReportInvariant, PTL

\* cm_error_message reaches the report of the test that printed it, and no other,
\* except for what group fixtures that passed left to the first test; and no test
\* fails, or is skipped, without a message of its own.
THEOREM MessagesReachTheirTest == Spec => []MessagesAreOwn
<1>1. ReportInv => MessagesAreOwn
  BY DEF ReportInv, MessageInv
<1> QED
  BY <1>1, ReportInvariant, PTL

\* cmprintf_group_finish_xml writes a header only at the start of a file and once
\* to the streams; a file that it creates lacks one only after a report that was
\* appended or went to a stream.
THEOREM HeadersLead == Spec => []XmlHeaderFirst
<1>1. ReportInv => XmlHeaderFirst
  BY SoundMeansHeaderFirst DEF ReportInv
<1> QED
  BY <1>1, ReportInvariant, PTL

\* cmprintf_group_start_tap, cmprintf_tap: a TAP report has a plan with the number
\* of tests, and one line for each of them, numbered from 1 in order, or for none
\* if the group setup failed; the version leads the first report and no line
\* comes before it.
THEOREM PlansAreKept == Spec => []TapKeepsItsPlan
<1>1. LinesInv => TapKeepsItsPlan
  BY DEF LinesInv
<1> QED
  BY <1>1, LinesInvariant, PTL

\* cmprintf, cmprintf_group_finish and the value of _cmocka_run_group_tests: all
\* formats, with their summaries, attributes and lines, tell of the same failures
\* and errors, however the tests and the fixtures of the group ended.
THEOREM FormatsAgree == Spec => []VerdictsAgree
<1>1. LinesInv => VerdictsAgree
  BY DEF LinesInv
<1> QED
  BY <1>1, LinesInvariant, PTL
=============================================================================
