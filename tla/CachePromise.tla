---------------------------- MODULE CachePromise ----------------------------
(***************************************************************************)
(* What fused_li_manage promises the decoder about one request's HBM cache,*)
(* as ut_ops/test_fused_li_manage.py (validate_outputs) states it: once a    *)
(* call has selected its K tokens, it ends with all of them cached, those  *)
(* that were cached in their old slot, the rest in slots taken from        *)
(* unselected tokens, and all C slots still bound one to one.              *)
(***************************************************************************)
EXTENDS Integers, FiniteSets

CONSTANTS Tokens, Slots, K

None == -1

VARIABLES
  held,      \* the slot that holds each token, or None
  wanted     \* the tokens the current call has selected

vars == <<held, wanted>>

CachedIn(h) == {t \in Tokens : h[t] # None}

\* Every slot holds exactly one token.
OneToOne(h) ==
  /\ h \in [Tokens -> Slots \cup {None}]
  /\ \A s \in Slots : \E t \in Tokens : h[t] = s
  /\ \A t, u \in CachedIn(h) : h[t] = h[u] => t = u

Init == OneToOne(held) /\ wanted = {}

Select ==
  /\ wanted = {}
  /\ wanted' \in SUBSET Tokens /\ Cardinality(wanted') = K
  /\ held' = held

\* Bindings are kept or given up; only selected tokens gain one.
Serve ==
  /\ wanted # {} /\ wanted' = {}
  /\ OneToOne(held')
  /\ wanted \subseteq CachedIn(held')
  /\ CachedIn(held') \subseteq CachedIn(held) \cup wanted
  /\ \A t \in CachedIn(held) : held'[t] = held[t] \/ (t \notin wanted /\ held'[t] = None)

Next == Select \/ Serve

Spec == Init /\ [][Next]_vars
=============================================================================
