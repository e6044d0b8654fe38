----------------------------- MODULE MCPackedTopK -----------------------------
(* Small rows and scores for PackedTopK.                                     *)
EXTENDS PackedTopK

CONSTANT CacheTokens    \* numbers of slots

\* The cached tokens of S hold slots upwards or downwards; the others have both
\* kinds of free bindings.
RowOver(n, S, up) ==
  [t \in Tokens(n) |->
     IF t \in S THEN Cardinality({u \in S : IF up THEN u < t ELSE u > t})
     ELSE IF t % 2 = 0 THEN -1 ELSE -2]
MCRows ==
  [n \in Lengths |-> {RowOver(n, S, up) :
                        S \in {T \in SUBSET Tokens(n) : Cardinality(T) \in CacheTokens},
                        up \in BOOLEAN}]

\* Sums -3, -1, 2 and 3: with one bit of tag two of them tie and one is cleared
\* to zero.  Every head counts in one of them.
MCProducts == {<<0, -2, 0, -1, 0>>, <<0, 0, 0, 0, -1>>, <<2, 1, -1, 0, 0>>, <<0, 0, 1, 0, 2>>}
=============================================================================
