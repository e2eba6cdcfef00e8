---------------------------- MODULE MCFormatVerbs ----------------------------
(***************************************************************************)
(* Every Description expression whose string has at most five characters  *)
(* of the six classes: among them "%%d", "%%%d", "% .d" and "d%%", where  *)
(* the order of the three passes of stripFormatVerbs matters, and ". a",   *)
(* "\na. b", "a|.\n" and " . ", where firstLine's trims and its two       *)
(* regexes decide the cell.                                                *)
(***************************************************************************)
EXTENDS FormatVerbs

CONSTANTS pct, letter, dot, space, nl, bar, sentinel, n, esc

=============================================================================
