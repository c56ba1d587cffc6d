------------------------- MODULE MCSubscriptionStore -------------------------
(***************************************************************************)
(* Three subscriptions, and two calls of the list page pending at once,    *)
(* whose places are interchangeable.                                       *)
(***************************************************************************)
EXTENDS SubscriptionStore

JobSymmetry == Permutations(Job)

\* Every invariant says what is so unless certain races, failures or strays
\* have happened: a behaviour is followed up to its second one.
OneRace == Cardinality(slips) + Cardinality(missed) + Cardinality(strays) <= 1

\* Of the two calls of the page and the other instance, two are under way at once.
TwoPending ==
  Cardinality({j \in Job : jobs[j].op # "idle"}) + (IF other.at = "none" THEN 0 ELSE 1) <= 2

\* The first subscription is the one that has files of providers.
OneProvider == \A f \in files : f[2] = "providers" => f[1] = 1

Explored == OneRace /\ TwoPending /\ OneProvider
=============================================================================
