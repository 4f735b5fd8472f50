------------------------------ MODULE MCMemory ------------------------------
(* Extraction, with what is extracted from each document and which texts   *)
(* are alike.                                                              *)
EXTENDS Extraction, TLC

\* Documents 1 and 2 both name the entity "n": two workers race for its row.
RivalItems == <<<<"n">>, <<"n">>>>

\* Nobody extracts: the memories are those of puts, promotions and mergers.
NoItems == <<<<>>, <<>>, <<>>>>

\* An edited version of document 1 is put as document 2.
SecondLikeFirst == {<<2, 1>>}

Symm == Permutations(Workers)
=============================================================================
