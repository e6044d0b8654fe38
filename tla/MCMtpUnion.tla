----------------------------- MODULE MCMtpUnion -----------------------------
(***************************************************************************)
(* Small instances of MtpUnion.  Slots are compared for equality only, so  *)
(* one way of numbering the cached tokens stands for all.                  *)
(***************************************************************************)
EXTENDS MtpUnion

CONSTANTS CachedTokens, MaxScore

RowOver(S) == [t \in Tokens |-> IF t \in S THEN Cardinality({u \in S : u < t}) ELSE None]
MCRows == {RowOver(S) : S \in {U \in SUBSET Tokens : Cardinality(U) \in CachedTokens}}

\* One route's scores rise and fall, the other routes score in every way.
Peak == [t \in Tokens |-> IF 2 * t < Actual THEN Least(t, MaxScore) ELSE Least(Actual - 1 - t, MaxScore)]
AllProfiles == {[r \in Routes |-> IF r = 1 THEN Peak ELSE other] :
                  other \in [Tokens -> 0 .. MaxScore]}

\* Scores that rise or fall from any token on, with ties; or agree with the peak.
Waves == {[t \in Tokens |-> (a * t + b) % (MaxScore + 1)] : a \in 1 .. MaxScore, b \in 0 .. MaxScore}
WaveProfiles == {[r \in Routes |-> IF r = 1 THEN Peak ELSE other] : other \in Waves \cup {Peak}}
=============================================================================
