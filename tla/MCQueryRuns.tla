---------------------------- MODULE MCQueryRuns -----------------------------
(***************************************************************************)
(* Instances of QueryRuns for TLC: a selection of two statements, and      *)
(* tabs that can stand for one another.                                    *)
(***************************************************************************)
EXTENDS QueryRuns

Pair == {<<1, 2>>}

AnyTab == Permutations(Tabs)
=============================================================================
