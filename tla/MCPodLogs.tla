------------------------------ MODULE MCPodLogs ------------------------------
(***************************************************************************)
(* Model-checking instance of PodLogs: three line texts, a regex matching  *)
(* two of them and one that does not compile, a default window of 2, and  *)
(* head/tail values 0, 1, 2 and 4 over fetches of up to four segments, so  *)
(* every row of the windowing table cuts, saturates, or returns all.       *)
(***************************************************************************)
EXTENDS PodLogs

CONSTANTS t1, t2, t3, re1, reBad

MCText == {t1, t2, t3}

MCMatchSet == [p \in {re1} |-> {t1, t3}]

\* -1 is "set" but saturates; 4 exceeds every fetch; 1 and 2 cut.
MCCounts == {-1, 0, 1, 2, 4}

Seg(t, pad) == [text |-> t, padded |-> pad]

\* nil, [], ["t1"], [" t2 ", "", "t3", "t1"], ["t3", "  ", "t2 "]
MCClientLogs ==
    { NilSlice, Slice(<<>>), Slice(<<Seg(t1, FALSE)>>),
      Slice(<<Seg(t2, TRUE), Seg("", FALSE), Seg(t3, FALSE), Seg(t1, FALSE)>>),
      Slice(<<Seg(t3, FALSE), Seg("", TRUE), Seg(t2, TRUE)>>) }

\* "", "t1\n", "t1\n t2\nt3\n"
MCOmcOutputs ==
    { <<Seg("", FALSE)>>,
      <<Seg(t1, FALSE), Seg("", FALSE)>>,
      <<Seg(t1, FALSE), Seg(t2, TRUE), Seg(t3, FALSE), Seg("", FALSE)>> }

=============================================================================
