----------------------------- MODULE MCListStore -----------------------------
(* Pushes of one element and of one pair, whose mirror image nobody pushes *)
(* so that its order can be told; indices from two before the longest list *)
(* to two past its end.                                                    *)
EXTENDS ListStore

CONSTANTS a, b

MCBatches == {<<a>>, <<b>>, <<a, b>>}
MCIndices == -(MaxList + 2)..(MaxList + 2)
=============================================================================
