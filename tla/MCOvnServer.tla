----------------------------- MODULE MCOvnServer -----------------------------
(***************************************************************************)
(* Model-checking instance of OvnServer: three line texts, one regex that  *)
(* matches two of them, one that does not compile, a default window of 2  *)
(* so that outputs of 3 lines are cut, and one representative user string  *)
(* per validator outcome.                                                  *)
(***************************************************************************)
EXTENDS OvnServer

CONSTANTS t1, t2, t3, re1, reBad

MCText == {t1, t2, t3}

MCMatchSet == [p \in {re1} |-> {t1, t3}]

\* "Logical_Switch", "node-1", "--db=x", "a && b", "dp;rm", ""
Ident     == [first |-> "alpha", chars |-> {"alpha", "word"}]
Dashed    == [first |-> "alpha", chars |-> {"alpha", "dash", "word"}]
OptionArg == [first |-> "dash",  chars |-> {"dash", "alpha", "punct"}]
AmpExpr   == [first |-> "alpha", chars |-> {"alpha", "punct", "amp"}]
MetaStr   == [first |-> "alpha", chars |-> {"alpha", "meta"}]

MCStrings == {EmptyString, Ident, Dashed, OptionArg, AmpExpr, MetaStr}

Seg(t, pad) == [text |-> t, padded |-> pad]

\* "", "t1\n", "  t1 \n\n t2\n t3  ", "t2\n   \nt3\nt1"
MCStdouts ==
    { <<>>,
      <<Seg(t1, FALSE), Seg("", FALSE)>>,
      <<Seg(t1, TRUE), Seg("", FALSE), Seg(t2, TRUE), Seg(t3, TRUE)>>,
      <<Seg(t2, FALSE), Seg("", TRUE), Seg(t3, FALSE), Seg(t1, FALSE)>> }


\* A well-formed pod coordinate, and each of its fields left empty.
MCTarget == [namespace |-> "ovn-kubernetes", name |-> "ovnkube-node"]

MCWellFormedTargets == {MCTarget}

MCTargets ==
    { MCTarget,
      [namespace |-> "", name |-> "ovnkube-node"],
      [namespace |-> "ovn-kubernetes", name |-> ""] }

=============================================================================
