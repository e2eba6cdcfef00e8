------------------------------ MODULE LogLines ------------------------------
(***************************************************************************)
(* The helpers of pkg/utils used by the log tools: StripEmptyLines,        *)
(* PatternParams.ExecuteWithMatch, and HeadTailParams.Apply with its       *)
(* head and tail primitives.                                               *)
(*                                                                         *)
(* Go slices are the Slice records of LineText.  Log lines keep their      *)
(* whitespace: an element is a RawLine of LineText.                        *)
(***************************************************************************)
EXTENDS LineText

(***************************************************************************)
(* StripEmptyLines: an empty input is returned as it is (so nil stays      *)
(* nil); otherwise a new slice of the lines that are not blank after       *)
(* trimming, the lines themselves left untrimmed.                          *)
(***************************************************************************)
StripEmptyLines(lines) ==
    IF Len(lines.elems) = 0 THEN lines
    ELSE Slice(SelectSeq(lines.elems, LAMBDA l : TrimSpace(l) # ""))

(***************************************************************************)
(* ExecuteWithMatch, first half: with a pattern, it is compiled before the *)
(* fetch function runs, and a compile error returns without running it.   *)
(***************************************************************************)
\* A mutant: the pattern not checked before the fetch runs.
PatternCompiledAfterFetch(pattern) == FALSE

PatternRejected(pattern) == pattern \in InvalidPatterns

(***************************************************************************)
(* ExecuteWithMatch, second half: no pattern returns the fetched lines as  *)
(* they are; otherwise a new (non-nil) slice of the matching lines.        *)
(***************************************************************************)
MatchLines(pattern, lines) ==
    IF pattern = NoPattern THEN lines
    ELSE Slice(SelectSeq(lines.elems, LAMBDA l : MatchString(pattern, TrimSpace(l))))

(***************************************************************************)
(* head and tail: an empty slice, a non-positive n or an n at least the    *)
(* length return the slice itself; otherwise its first or last n lines.   *)
(***************************************************************************)
HeadLines(lines, n) ==
    IF Len(lines.elems) = 0 THEN lines
    ELSE IF n <= 0 \/ n >= Len(lines.elems) THEN lines
    ELSE Slice(SubSeq(lines.elems, 1, n))

TailLines(lines, n) ==
    IF Len(lines.elems) = 0 THEN lines
    ELSE IF n <= 0 \/ n >= Len(lines.elems) THEN lines
    ELSE Slice(SubSeq(lines.elems, Len(lines.elems) - n + 1, Len(lines.elems)))

(***************************************************************************)
(* HeadTailParams.Apply: neither set gives the default head; both set      *)
(* apply in the order ApplyTailFirst chooses; otherwise the one set.      *)
(***************************************************************************)
ApplyHeadFirstAlways(h, lines, defaultMaxLines) ==
    IF h.head = 0 /\ h.tail = 0 THEN HeadLines(lines, defaultMaxLines)
    ELSE IF h.head # 0 /\ h.tail # 0 THEN TailLines(HeadLines(lines, h.head), h.tail)
    ELSE IF h.head # 0 THEN HeadLines(lines, h.head)
    ELSE TailLines(lines, h.tail)

Apply(h, lines, defaultMaxLines) ==
    IF h.head = 0 /\ h.tail = 0 THEN HeadLines(lines, defaultMaxLines)
    ELSE IF h.head # 0 /\ h.tail # 0
         THEN IF h.applyTailFirst THEN HeadLines(TailLines(lines, h.tail), h.head)
                                  ELSE TailLines(HeadLines(lines, h.head), h.tail)
    ELSE IF h.head # 0 THEN HeadLines(lines, h.head)
    ELSE TailLines(lines, h.tail)

=============================================================================
