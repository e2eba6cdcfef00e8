---------------------------- MODULE ReadmeUpdate ----------------------------
(***************************************************************************)
(* The README rewrite of hack/gen-readme-tools.go: main builds the tools   *)
(* section and updateREADME splices it between the markers                 *)
(* "<!-- TOOLS_SECTION_START -->" and "<!-- TOOLS_SECTION_END -->".        *)
(*                                                                         *)
(* A README is a sequence of tokens: the two markers, a newline, a         *)
(* whitespace character other than "\n" (a space, or the "\r" of a CRLF    *)
(* line end) and any other text.  strings.Index of a marker is the first   *)
(* position of its token.  Between runs the README may be edited by hand   *)
(* (or checked out again) into any of the contents of Readmes.             *)
(***************************************************************************)
EXTENDS Integers, Sequences, SequencesExt

CONSTANTS
    StartMark, EndMark,  \* the two marker strings
    NL,                  \* "\n"
    WS,                  \* a space or "\r"
    Txt,                 \* any other text
    Readmes,             \* the README contents a maintainer may leave
    Generated            \* the sections main may generate

Token == {StartMark, EndMark, NL, WS, Txt}

ASSUME Readmes \subseteq Seq(Token) /\ Generated \subseteq Seq(Token)

VARIABLES
    readme,    \* the README on disk
    lastGen,   \* the section the last run generated
    written,   \* the README is what the last successful run wrote
    status     \* outcome of the last run: "none", "ok" or "error"

vars == <<readme, lastGen, written, status>>

\* strings.Index on a token: the 1-based position of the first occurrence,
\* 0 where Go returns -1.
Index(content, tok) == SelectInSeq(content, LAMBDA t : t = tok)

\* The markers are missing or out of order.
MarkersMissing(content) ==
    LET startIdx == Index(content, StartMark)
        endIdx   == Index(content, EndMark)
    IN  startIdx = 0 \/ endIdx = 0 \/ endIdx <= startIdx

\* before: everything up to the start marker, and the "\n" right after it.
Before(content) ==
    LET startIdx   == Index(content, StartMark)
        afterStart == IF startIdx < Len(content) /\ content[startIdx + 1] = NL
                      THEN startIdx + 1 ELSE startIdx
    IN  SubSeq(content, 1, afterStart)

\* A mutant: the end marker dropped with the old section.
AfterDropsEndMark(content) ==
    SubSeq(content, Index(content, EndMark) + 1, Len(content))

\* after: everything from the end marker on.
After(content) == SubSeq(content, Index(content, EndMark), Len(content))

\* updateREADME: on an error the file is left as it was (writeREADME is not
\* called); otherwise before + generated + "\n" + after is written.
UpdateREADME(content, generated) ==
    IF MarkersMissing(content)
    THEN [ok |-> FALSE, content |-> content]
    ELSE [ok |-> TRUE,
          content |-> Before(content) \o generated \o <<NL>> \o After(content)]

Init ==
    /\ readme \in Readmes
    /\ lastGen = <<>>
    /\ written = FALSE
    /\ status = "none"

\* main up to updateREADME fails: findRepoRoot, inferModesFromMain or
\* readREADME returns an error and main exits before writing.
RunFails ==
    /\ status' = "error"
    /\ UNCHANGED <<readme, lastGen, written>>

\* main generates section g and calls updateREADME.
Run(g) ==
    LET res == UpdateREADME(readme, g) IN
    /\ readme' = res.content
    /\ lastGen' = g
    /\ written' = res.ok
    /\ status' = IF res.ok THEN "ok" ELSE "error"

\* A maintainer edits or checks out the README.
Edit(c) ==
    /\ readme' = c
    /\ written' = FALSE
    /\ UNCHANGED <<lastGen, status>>

Next ==
    \/ RunFails
    \/ \E g \in Generated : Run(g)
    \/ \E c \in Readmes : Edit(c)

Spec == Init /\ [][Next]_vars

(***************************************************************************)
(* Properties.                                                             *)
(***************************************************************************)

\* Rerun is a no-op (the generator is rerun whenever the tools change, on
\* the README its previous run wrote): a README the generator has just
\* written is left exactly as it is by a run that generates the
\* same section, so the splice keeps both markers and finds its own
\* output between them.
RerunIsNoOp ==
    written => UpdateREADME(readme, lastGen) = [ok |-> TRUE, content |-> readme]

\* The start marker keeps its line (updateREADME's comment: "Before:
\* everything up to and including the newline after startMark"): after a
\* run, the start marker is still followed by the end of its line and the
\* generated heading starts a line of its own.
StartMarkerKeepsItsLine ==
    written => readme[Index(readme, StartMark) + 1] = NL

=============================================================================
