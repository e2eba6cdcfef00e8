--------------------------- MODULE MCReadmeUpdate ---------------------------
(***************************************************************************)
(* READMEs a maintainer may leave: an optional line of text, the start     *)
(* marker's line (ending in "\n", or in " \n" / "\r\n"), an optional old   *)
(* section, the end marker with or without a line end; and the malformed   *)
(* ones updateREADME must refuse: no markers, only the start marker, and   *)
(* the end marker first.  Two generated sections: a heading alone, and a   *)
(* heading, a blank line and a table row.                                  *)
(***************************************************************************)
EXTENDS ReadmeUpdate

CONSTANTS S, E, Nl, Ws, T

Line == <<T, Nl>>

MCWellFormed(startLine) ==
    { p \o startLine \o b \o e :
        p \in {<<>>, Line}, b \in {<<>>, Line}, e \in {<<E, Nl>>, <<E>>} }

MCMalformed == { Line, <<S, Nl, T, Nl>>, <<E, Nl, S, Nl>> }

\* Every marker line ends right after the marker.
MCCleanReadmes == MCWellFormed(<<S, Nl>>) \cup MCMalformed

\* The start marker's line may also end in " \n" or "\r\n".
MCReadmes == MCCleanReadmes \cup MCWellFormed(<<S, Ws, Nl>>)

MCGenerated == { <<T, Nl>>, <<T, Nl, Nl, T, Ws, T, Nl>> }

=============================================================================
