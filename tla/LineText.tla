------------------------------ MODULE LineText ------------------------------
(***************************************************************************)
(* The data both tool families work on: lines of command or log output    *)
(* and the regular expressions that filter them.                           *)
(*                                                                         *)
(*  - Output is the sequence of its "\n"-separated segments; a segment is  *)
(*    a line text (a model value of Text, or "" for a blank segment) and   *)
(*    whether it carries surrounding whitespace.                           *)
(*  - A regular expression is a model value: one of ValidPatterns, whose   *)
(*    matching lines are MatchSet[p], or one of InvalidPatterns, which     *)
(*    regexp.Compile rejects.  Whether a regex matches a line depends on   *)
(*    the line's text, not on its surrounding whitespace.                  *)
(*  - A Go []string is a record: isNil tells a nil slice from an empty one *)
(*    (they serialise as null and [] respectively), elems are its items.  *)
(***************************************************************************)
EXTENDS Integers, Sequences, SequencesExt

CONSTANTS
    Text,             \* the non-empty trimmed line texts
    ValidPatterns,    \* regexes that compile
    InvalidPatterns,  \* regexes that regexp.Compile rejects
    MatchSet,         \* [ValidPatterns -> SUBSET Text]: lines each regex matches
    DefaultMaxLines   \* defaultMaxLines (100 in the code)

ASSUME DefaultMaxLines \in Nat \ {0}
ASSUME MatchSet \in [ValidPatterns -> SUBSET Text]

\* The empty pattern: no filter given.
NoPattern == ""

Pattern == {NoPattern} \cup ValidPatterns \cup InvalidPatterns

RawLine == [text: Text \cup {""}, padded: BOOLEAN]

Slice(elems) == [isNil |-> FALSE, elems |-> elems]

NilSlice == [isNil |-> TRUE, elems |-> <<>>]

\* strings.TrimSpace: drop the surrounding whitespace of a segment.
TrimSpace(seg) == seg.text

\* regexp.(*Regexp).MatchString on a trimmed line text.
MatchString(pattern, line) == line \in MatchSet[pattern]

=============================================================================
