----------------------------- MODULE FormatVerbs -----------------------------
(***************************************************************************)
(* The path of one tool description of hack/gen-readme-tools.go from the  *)
(* Description field of an mcp.Tool literal to its README table cell:     *)
(* extractDescription (a string literal as is, a fmt.Sprintf(format, ...)  *)
(* call's format with stripFormatVerbs applied, anything else ""),        *)
(* firstLine in extractTools, and escapeTableCell when main prints the    *)
(* row.                                                                    *)
(*                                                                         *)
(* A string is a sequence of character classes: "%", a letter, ".", a     *)
(* space (any of TrimSpace's and \s's blanks other than "\n"), "\n" and  *)
(* "|".  "." and the space are the two members of the verb regex's flag  *)
(* class [0-9.*+# \-] that firstLine also tests.  The two-rune sentinel   *)
(* and the "&#124;" escape are one token each.  A literal's text is its   *)
(* value after unquoteString.                                              *)
(***************************************************************************)
EXTENDS Integers, Sequences, SequencesExt

CONSTANTS
    Pct,       \* "%"
    Letter,    \* [a-zA-Z]
    Dot,       \* "."
    Space,     \* " ", "\t", "\r"
    NL,        \* "\n"
    Bar,       \* "|"
    Sentinel,  \* formatVerbSentinel
    N,         \* the placeholder "N"
    Esc,       \* "&#124;"
    MaxLen     \* the longest string enumerated

Char == {Pct, Letter, Dot, Space, NL, Bar}

FlagClass == {Dot, Space}

Blank == {Space, NL}

VARIABLES
    expr,  \* the Description expression of the tool being read
    desc,  \* what extractDescription returned for it
    cell,  \* the description cell main prints for the tool
    read   \* the expression has been read

vars == <<expr, desc, cell, read>>

\* A format string fmt can print: every "%" starts "%%" or a verb, written
\* "%", flag, width and precision characters, and a verb letter.
RECURSIVE WellFormed(_)
WellFormed(s) ==
    \/ s = <<>>
    \/ s[1] # Pct /\ WellFormed(Tail(s))
    \/ Len(s) >= 2 /\ s[1] = Pct /\ s[2] = Pct /\ WellFormed(SubSeq(s, 3, Len(s)))
    \/ LET rest == Tail(s)
           verb == SelectInSeq(rest, LAMBDA c : c \notin FlagClass)
       IN  /\ s[1] = Pct /\ verb > 0 /\ rest[verb] = Letter
           /\ WellFormed(SubSeq(rest, verb + 1, Len(rest)))

\* The Description expressions: a string literal, a call whose first
\* argument is a string literal (fmt.Sprintf), or any other expression (a
\* constant, a concatenation, a call on a variable).
Exprs ==
    [kind: {"BasicLit"}, text: BoundedSeq(Char, MaxLen)] \cup
    [kind: {"Sprintf"}, text: {t \in BoundedSeq(Char, MaxLen) : WellFormed(t)}] \cup
    {[kind |-> "Other", text |-> <<>>]}

\* strings.ReplaceAll(s, "%%", formatVerbSentinel): leftmost, not
\* overlapping.
RECURSIVE ReplacePercentPercent(_)
ReplacePercentPercent(s) ==
    IF Len(s) < 2 THEN s
    ELSE IF s[1] = Pct /\ s[2] = Pct
         THEN <<Sentinel>> \o ReplacePercentPercent(SubSeq(s, 3, Len(s)))
         ELSE <<s[1]>> \o ReplacePercentPercent(Tail(s))

\* The length of the match of %[0-9.*+# \-]*[a-zA-Z] at the start of s, 0 if
\* there is none.
VerbMatchLen(s) ==
    LET k == IF Len(s) = 0 \/ s[1] # Pct THEN 0
             ELSE SelectInSubSeq(s, 2, Len(s), LAMBDA c : c \notin FlagClass)
    IN  IF k > 0 /\ s[k] = Letter THEN k ELSE 0

\* reFormatVerb.ReplaceAllString(s, "N"): leftmost matches, left to right.
RECURSIVE ReplaceVerbs(_)
ReplaceVerbs(s) ==
    IF s = <<>> THEN s
    ELSE IF VerbMatchLen(s) > 0
         THEN <<N>> \o ReplaceVerbs(SubSeq(s, VerbMatchLen(s) + 1, Len(s)))
         ELSE <<s[1]>> \o ReplaceVerbs(Tail(s))

\* A mutant: the verbs replaced with no sentinel protecting "%%".
StripFormatVerbsNoSentinel(s) == ReplaceVerbs(s)

StripFormatVerbs(s) == ReplaceAll(ReplaceVerbs(ReplacePercentPercent(s)), Sentinel, Pct)

ExtractDescription(e) ==
    CASE e.kind = "BasicLit" -> e.text
      [] e.kind = "Sprintf"  -> StripFormatVerbs(e.text)
      [] OTHER               -> <<>>

\* strings.TrimSpace: the blanks at both ends removed.
TrimSpace(s) ==
    LET first == SelectInSeq(s, LAMBDA c : c \notin Blank)
        last  == SelectLastInSeq(s, LAMBDA c : c \notin Blank)
    IN  IF first = 0 THEN <<>> ELSE SubSeq(s, first, last)

\* The first line of s (of s as given), trimmed.
FirstLineOf(s) ==
    LET idx == SelectInSeq(s, LAMBDA c : c = NL)
    IN  TrimSpace(IF idx > 0 THEN SubSeq(s, 1, idx - 1) ELSE s)

\* firstLine: the first line, then its first sentence: reFirstSentence
\* ^(.*?\.\s) matches up to the first "." followed by a blank; otherwise
\* rePeriodAtEnd ^(.*\.)$ matches a line ending in "."; otherwise the line.
FirstSentenceOfLine(s) ==
    LET ends == {k \in 1..Len(s) - 1 : s[k] = Dot /\ s[k + 1] \in Blank}
    IN  IF ends # {}
        THEN TrimSpace(SubSeq(s, 1, Min(ends) + 1))
        ELSE IF Len(s) > 0 /\ s[Len(s)] = Dot THEN TrimSpace(s)
        ELSE s

\* A mutant: the description not trimmed before its first line is taken.
FirstLineNoLeadingTrim(s) == FirstSentenceOfLine(FirstLineOf(s))

FirstLine(s) == FirstSentenceOfLine(FirstLineOf(TrimSpace(s)))

\* escapeTableCell: "|" becomes "&#124;", "\n" a space, and the result is
\* trimmed.
EscapeTableCell(s) == TrimSpace(ReplaceAll(ReplaceAll(s, Bar, Esc), NL, Space))

Init ==
    /\ expr \in Exprs
    /\ desc = <<>>
    /\ cell = <<>>
    /\ read = FALSE

\* extractTools reaches the Description field of an mcp.Tool literal and
\* keeps the first line of the description; main prints it escaped.
Extract ==
    /\ ~read
    /\ desc' = ExtractDescription(expr)
    /\ cell' = EscapeTableCell(FirstLine(ExtractDescription(expr)))
    /\ read' = TRUE
    /\ UNCHANGED expr

Next == Extract

Spec == Init /\ [][Next]_vars

(***************************************************************************)
(* The references.  SprintfShape: what fmt.Sprintf prints for a           *)
(* well-formed format string, each argument shown as N, in one pass left  *)
(* to right.  Summary: the text up to and including the first "." that is *)
(* followed by a blank, in the first line that holds any text, without    *)
(* the line's surrounding blanks.                                         *)
(***************************************************************************)
RECURSIVE SprintfShape(_)
SprintfShape(s) ==
    IF s = <<>> THEN s
    ELSE IF s[1] # Pct THEN <<s[1]>> \o SprintfShape(Tail(s))
    ELSE IF Len(s) >= 2 /\ s[2] = Pct
         THEN <<Pct>> \o SprintfShape(SubSeq(s, 3, Len(s)))
    ELSE LET rest == Tail(s)
             verb == SelectInSeq(rest, LAMBDA c : c \notin FlagClass)
         IN  <<N>> \o SprintfShape(SubSeq(rest, verb + 1, Len(rest)))

Rendered(e) ==
    CASE e.kind = "BasicLit" -> e.text
      [] e.kind = "Sprintf"  -> SprintfShape(e.text)
      [] OTHER               -> <<>>

Summary(s) ==
    LET text  == {i \in 1..Len(s) : s[i] \notin Blank}
        start == IF text = {} THEN 1 ELSE Min(text)
        stop  == IF \E i \in start..Len(s) : s[i] = NL
                 THEN Min({i \in start..Len(s) : s[i] = NL}) - 1 ELSE Len(s)
        words == {i \in start..stop : s[i] \notin Blank}
        line  == IF text = {} THEN <<>> ELSE SubSeq(s, start, Max(words))
        cut   == {k \in 1..Len(line) : line[k] = Dot /\ k < Len(line)
                                       /\ line[k + 1] \in Blank}
    IN  IF cut = {} THEN line ELSE SubSeq(line, 1, Min(cut))

(***************************************************************************)
(* Properties.                                                             *)
(***************************************************************************)

\* A Sprintf description reads as it is rendered (stripFormatVerbs' doc
\* comment: verbs become placeholders and literal percents are left
\* alone): the README text of a tool whose Description is a fmt.Sprintf
\* call is what the tool's users see, each argument shown as N, whatever
\* mix of "%%", verbs and flag characters the format holds.
DescriptionReadsAsRendered ==
    read /\ expr.kind = "Sprintf" => desc = SprintfShape(expr.text)

\* The cell summarises the tool (extractTools' doc comment: each
\* description is shortened to the first line or first sentence for the
\* README table): the cell main prints is the first sentence of the first
\* line with text of what the tool's users see, leading blank lines and
\* blanks around it dropped, with every "|" escaped so that the row keeps
\* its three cells.
CellIsFirstSentence ==
    read => cell = ReplaceAll(Summary(Rendered(expr)), Bar, Esc)

=============================================================================
