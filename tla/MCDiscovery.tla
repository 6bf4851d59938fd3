---------------------------- MODULE MCDiscovery ----------------------------
(* Every tree of three compartments, one of them possibly inactive; one or   *)
(* two roots and up to two exclusions, anywhere in the tree.                *)
EXTENDS Discovery

CONSTANTS T, c1, c2, c3

MCCompartment == {c1, c2, c3}

MCTenancies ==
  [parent : {p \in [MCCompartment -> MCCompartment \cup {T}] :
               p[c1] = T /\ p[c2] \in {T, c1} /\ p[c3] \in {T, c1, c2}},
   active : {MCCompartment, MCCompartment \ {c3}}]

UpToTwo(S) == {{x, y} : x, y \in S}

MCScopes ==
  {s \in [roots : UpToTwo(MCCompartment \cup {T}),
          excludes : {{}} \cup UpToTwo(MCCompartment \cup {T}), whole : BOOLEAN] :
     s.whole => T \in s.roots}
=============================================================================
