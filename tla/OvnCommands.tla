----------------------------- MODULE OvnCommands -----------------------------
(***************************************************************************)
(* The helpers of pkg/ovn/mcp/commands.go: the input validators, the       *)
(* database-to-binary selector, and the output pipeline parseOutput,       *)
(* filterLines, limitLines used by every OVN tool handler.                 *)
(*                                                                         *)
(* The line operators work on Go slices (Slice and NilSlice of LineText), *)
(* so that a nil result, which serialises as null, can be told from [].    *)
(* A user-supplied string is abstracted to the classes of characters it   *)
(* contains and the class of its first character; that is all the         *)
(* validators' regular expressions look at.  Lines and regexes are those   *)
(* of LineText.                                                            *)
(***************************************************************************)
EXTENDS LineText

(***************************************************************************)
(* Abstract strings.                                                       *)
(*   alpha  [A-Za-z]          word   [0-9_]                                *)
(*   punct  . = " space , :   dash   -                                     *)
(*   amp    &                 meta   ; | $ ` < > \                         *)
(***************************************************************************)
CharClass == {"alpha", "word", "punct", "dash", "amp", "meta"}

EmptyString == [first |-> "none", chars |-> {}]

UserString ==
    {EmptyString} \cup
    {s \in [first: CharClass, chars: SUBSET CharClass] : s.first \in s.chars}

(***************************************************************************)
(* Elements of an exec argv: a literal token of the code, a user string    *)
(* placed verbatim, or the single token "--columns=" + columns.            *)
(***************************************************************************)
Lit(tok) == [lit |-> tok]

ColumnsFlag(columns) == [flag |-> "--columns=", value |-> columns]

IsUserArg(e) == DOMAIN e = {"first", "chars"}

IsColumnsFlag(e) == DOMAIN e = {"flag", "value"}

(***************************************************************************)
(* parseOutput: split stdout on "\n", trim every line, keep the non-empty  *)
(* ones, starting from an empty (non-nil) slice.                           *)
(***************************************************************************)
ParseOutputKeepsBlank(stdout) ==
    Slice([i \in 1..Len(stdout) |-> TrimSpace(stdout[i])])

NonBlankLines(stdout) ==
    FoldLeft(LAMBDA output, seg :
                 IF TrimSpace(seg) # "" THEN Append(output, TrimSpace(seg))
                                        ELSE output,
             <<>>, stdout)

\* The same loop from "var output []string": nil when nothing is appended.
ParseOutputNilStart(stdout) ==
    IF NonBlankLines(stdout) = <<>> THEN NilSlice ELSE Slice(NonBlankLines(stdout))

ParseOutput(stdout) == Slice(NonBlankLines(stdout))

(***************************************************************************)
(* filterLines: no pattern returns the lines unchanged; a pattern that     *)
(* fails to compile is an error; otherwise the lines the regex matches.    *)
(***************************************************************************)
FilterLines(lines, pattern) ==
    IF pattern = NoPattern
    THEN [ok |-> TRUE, lines |-> lines]
    ELSE IF pattern \in InvalidPatterns
         THEN [ok |-> FALSE, lines |-> NilSlice]
         ELSE [ok |-> TRUE,
               lines |-> Slice(SelectSeq(lines.elems,
                                         LAMBDA l : MatchString(pattern, l)))]

(***************************************************************************)
(* limitLines: a non-positive maxLines selects the default window.         *)
(***************************************************************************)
LimitLinesNegOnly(lines, maxLines) ==
    LET n == IF maxLines < 0 THEN DefaultMaxLines ELSE maxLines
    IN  IF Len(lines.elems) > n THEN Slice(SubSeq(lines.elems, 1, n)) ELSE lines

LimitLines(lines, maxLines) ==
    LET n == IF maxLines <= 0 THEN DefaultMaxLines ELSE maxLines
    IN  IF Len(lines.elems) > n THEN Slice(SubSeq(lines.elems, 1, n)) ELSE lines

(***************************************************************************)
(* The validators.  Each is TRUE when the code returns a nil error.        *)
(***************************************************************************)
ValidateDatabase(db) == db \in {"nbdb", "sbdb"}

\* validTableNamePattern ^[a-zA-Z][a-zA-Z0-9_]*$
MatchesTableNamePattern(s) ==
    s.first = "alpha" /\ s.chars \subseteq {"alpha", "word"}

ValidateTableNameNonEmpty(table) == table # EmptyString

ValidateTableName(table) ==
    table # EmptyString /\ MatchesTableNamePattern(table)

\* dangerousCharsPattern [;&|$`<>\\] and dangerousCharsNoAmpPattern [;|$`<>\\]
MatchesDangerousChars(s) == s.chars \cap {"amp", "meta"} # {}

MatchesDangerousCharsNoAmp(s) == "meta" \in s.chars

ValidateSafeString(value, allowEmpty) ==
    IF value = EmptyString THEN allowEmpty
                           ELSE ~MatchesDangerousChars(value)

ValidateRecordName(record) == ValidateSafeString(record, FALSE)

ValidateDatapath(datapath) == ValidateSafeString(datapath, FALSE)

ValidateMicroflow(microflow) ==
    microflow # EmptyString /\ ~MatchesDangerousCharsNoAmp(microflow)

ValidateColumnSpecUnchecked(columns) == TRUE

ValidateColumnSpec(columns) == ValidateSafeString(columns, TRUE)

GetDBCommand(db) == IF db = "sbdb" THEN Lit("ovn-sbctl") ELSE Lit("ovn-nbctl")

(***************************************************************************)
(* strings.Join(lines, "\n"), the result is the sequence of the line texts *)
(* with a NL token between each two.                                       *)
(***************************************************************************)
NL == "\n"

JoinLines(lines) ==
    IF lines.elems = <<>> THEN <<>>
    ELSE FoldLeft(LAMBDA acc, l : acc \o <<NL, l>>, <<Head(lines.elems)>>,
                  Tail(lines.elems))

=============================================================================
