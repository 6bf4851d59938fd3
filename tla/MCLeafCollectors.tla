-------------------------- MODULE MCLeafCollectors --------------------------
(* Two items with a child each, and of the same name: two connections with   *)
(* a tunnel each, two load balancers with a backend set each, two vaults ... *)
(* Of two vaults only the first has a management endpoint.                   *)
EXTENDS LeafCollectors, TLC

CONSTANTS p, q, a, b

MCParentOf == (a :> p) @@ (b :> q)
MCNameOf == (a :> 1) @@ (b :> 1)

\* The listings of the vaults come in any order, and many more.
MCMaxChanges == [k \in Kinds |-> IF k = "kms_vault" THEN 1 ELSE 2]
=============================================================================
