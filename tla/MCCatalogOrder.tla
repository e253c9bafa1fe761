--------------------------- MODULE MCCatalogOrder ---------------------------
(***************************************************************************)
(* Instances of CatalogOrder for TLC.                                      *)
(***************************************************************************)
EXTENDS CatalogOrder, TLC

CONSTANTS e1, e2, e3, d1, h1, h2, s1, s2

TwoHooks == [e \in Entries |-> {h1, h2}]

\* items differ in their webhooks
SomeHooks == [e \in Entries |-> CASE e = e1 -> {h1, h2} [] e = e2 -> {h2} [] OTHER -> {}]

SameSessions == Permutations({s1, s2})
=============================================================================
