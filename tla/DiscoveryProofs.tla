--------------------------- MODULE DiscoveryProofs ---------------------------
(***************************************************************************)
(* What discovery finds, for every compartment tree and every scope.       *)
(***************************************************************************)
EXTENDS Discovery, TLAPS

USE NodeAssumption, TenanciesAssumption, ScopesAssumption

-----------------------------------------------------------------------------
(* Subtrees.                                                                *)

\* A subtree holds its seeds and is closed, whatever part of the tree is listed.
LEMMA SubtreeClosed ==
  ASSUME tenancy \in Tenancies, NEW L \in SUBSET Compartment, NEW seeds \in SUBSET Node
  PROVE  seeds \subseteq Subtree(L, seeds) /\ Closed(L, Subtree(L, seeds))
<1>1. seeds \subseteq Subtree(L, seeds)
  BY DEF Subtree
<1>2. ASSUME NEW d \in L, tenancy.parent[d] \in Subtree(L, seeds)
      PROVE  d \in Subtree(L, seeds)
  <2>1. d \in Node
    BY DEF Node
  <2>2. ASSUME NEW S \in SUBSET Node, seeds \subseteq S, Closed(L, S)
        PROVE  d \in S
    BY <1>2, <2>2 DEF Subtree, Closed
  <2> QED
    BY <2>1, <2>2 DEF Subtree
<1> QED
  BY <1>1, <1>2 DEF Closed

\* It is the least such set.
LEMMA SubtreeLeast ==
  ASSUME NEW L, NEW seeds, NEW S \in SUBSET Node, seeds \subseteq S, Closed(L, S)
  PROVE  Subtree(L, seeds) \subseteq S
BY DEF Subtree

\* More seeds have a larger subtree.
LEMMA SubtreeGrows ==
  ASSUME NEW L, NEW A, NEW B, A \subseteq B
  PROVE  Subtree(L, A) \subseteq Subtree(L, B)
BY DEF Subtree

\* Everything is below the tenancy.
LEMMA SubtreeOfTenancy ==
  ASSUME tenancy \in Tenancies, NEW seeds \in SUBSET Node, Tenancy \in seeds
  PROVE  Subtree(Compartment, seeds) = Node
<1>1. ASSUME NEW S \in SUBSET Node, seeds \subseteq S, Closed(Compartment, S)
      PROVE  S = Node
  BY <1>1, TreeAssumption DEF Closed
<1> QED
  BY <1>1 DEF Subtree

\* What is below a node of a subtree is also found within the part of the tree that
\* subtree covers.
LEMMA SubtreeWithin ==
  ASSUME tenancy \in Tenancies, NEW seeds \in SUBSET Node, NEW ex \in SUBSET Node,
         NEW e \in ex, e \in Subtree(Compartment, seeds)
  PROVE  Subtree(Compartment, {e}) \subseteq
           Subtree(Subtree(Compartment, seeds) \cap Compartment, ex)
<1> DEFINE C == Subtree(Compartment, seeds)
<1>1. Closed(Compartment, C) /\ C \subseteq Node
  BY SubtreeClosed DEF Subtree
<1> HIDE DEF C
<1>2. ASSUME NEW S \in SUBSET Node, ex \subseteq S, Closed(C \cap Compartment, S)
      PROVE  Subtree(Compartment, {e}) \subseteq S
  <2>1. Closed(Compartment, S \cap C)
    BY <1>1, <1>2 DEF Closed
  <2>2. e \in S \cap C
    BY <1>2 DEF C
  <2> QED
    BY <2>1, <2>2, SubtreeLeast
<1>3. Subtree(Compartment, {e}) \subseteq Node
  BY DEF Subtree
<1>4. Subtree(Compartment, {e}) \subseteq Subtree(C \cap Compartment, ex)
  BY <1>2, <1>3 DEF Subtree
<1> QED
  BY <1>4 DEF C

-----------------------------------------------------------------------------
(* The inductive invariant.                                                 *)

\* The worklist: what is below the result, and not in it, is below the frontier.
WalkInv ==
  IF pc \in {"root", "exclude"}
  THEN \A d \in listed : tenancy.parent[d] \in expanded => d \in expanded \/ tenancy.parent[d] \in frontier
  ELSE frontier = {}

\* The roots expanded so far.
RootsInv ==
  /\ pc \in {"roots", "root"} =>
       in_scope \subseteq Subtree(listed, scope.roots) /\ Closed(listed, in_scope)
  /\ pc = "roots" => scope.roots \ todo \subseteq in_scope
  /\ pc = "root" =>
       /\ scope.roots \ todo \subseteq in_scope \cup expanded
       /\ expanded \subseteq Subtree(listed, scope.roots)

ExcludesInv ==
  pc = "exclude" => scope.excludes \subseteq expanded /\ expanded \subseteq Subtree(listed, scope.excludes)

\* As long as nothing failed the listing is whole: first all of it, then what the roots
\* cover.
WholeInv ==
  ok => /\ pc \in {"roots", "root"} => listed = Compartment
        /\ pc \in {"excludes", "exclude", "domains", "done"} => listed = Covered \cap Compartment

ApprovedInv ==
  pc \in {"domains", "done"} =>
    approved_compartment_ids =
      ((listed \cap tenancy.active) \cup scope.roots) \ Subtree(listed, scope.excludes)

\* Nothing was expanded before the compartments are listed.
EarlyInv == pc \in {"get_tenancy", "regions", "compartments"} => in_scope = {} /\ todo = {}

IInv == EarlyInv /\ TypeOK /\ WalkInv /\ RootsInv /\ ExcludesInv /\ WholeInv /\ ApprovedInv

\* Before the first listing.
LEMMA InitKeeps == Init => IInv
BY DEF Init, IInv, TypeOK, PC, WalkInv, RootsInv, ExcludesInv, WholeInv, ApprovedInv,
   EarlyInv

\* When the worklist is empty the result is the subtree of its seeds.
LEMMA WalkEnds ==
  ASSUME IInv
  PROVE  ExpandsToSubtrees
<1> USE DEF IInv
<1>0. /\ scope.roots \in SUBSET Node /\ scope.excludes \in SUBSET Node
      /\ in_scope \in SUBSET Node /\ expanded \in SUBSET Node
  BY DEF TypeOK
<1>1. ASSUME pc = "roots", todo = {}
      PROVE  in_scope = Subtree(listed, scope.roots)
  BY <1>0, <1>1, SubtreeLeast DEF RootsInv
<1>2. ASSUME pc = "exclude", frontier = {}
      PROVE  expanded = Subtree(listed, scope.excludes)
  <2>1. Closed(listed, expanded)
    BY <1>2 DEF WalkInv, Closed
  <2> QED
    BY <1>0, <1>2, <2>1, SubtreeLeast DEF ExcludesInv
<1> QED
  BY <1>1, <1>2 DEF ExpandsToSubtrees

\* A round of the loop adds the children of one element, within any closed set the result
\* is in.
LEMMA DescendKeeps ==
  ASSUME IInv, pc \in {"root", "exclude"}, Descend, UNCHANGED <<tenancy, scope, pc, listed>>
  PROVE  /\ expanded \subseteq expanded' /\ expanded' \subseteq Node /\ frontier' \subseteq expanded'
         /\ WalkInv'
         /\ \A S \in SUBSET Node : expanded \subseteq S /\ Closed(listed, S) => expanded' \subseteq S
<1>1. PICK current \in frontier :
        /\ expanded' = expanded \cup (children(listed, current) \ expanded)
        /\ frontier' = (frontier \ {current}) \cup (children(listed, current) \ expanded)
  BY DEF Descend, Popped, Pushed
<1>2. /\ current \in expanded /\ frontier \subseteq expanded /\ expanded \subseteq Node
      /\ listed \subseteq Compartment
  BY DEF IInv, TypeOK
<1>3. expanded' \subseteq Node /\ frontier' \subseteq expanded'
  BY <1>1, <1>2 DEF children, Node
<1>4. ASSUME NEW d \in listed, tenancy.parent[d] \in expanded'
      PROVE  d \in expanded' \/ tenancy.parent[d] \in frontier'
  <2>1. CASE tenancy.parent[d] = current
    BY <1>1, <2>1 DEF children
  <2>2. CASE tenancy.parent[d] # current /\ tenancy.parent[d] \in expanded
    BY <1>1, <2>2 DEF IInv, WalkInv
  <2>3. CASE tenancy.parent[d] \notin expanded
    BY <1>1, <1>4, <2>3
  <2> QED
    BY <2>1, <2>2, <2>3
<1>5. WalkInv'
  BY <1>4 DEF WalkInv
<1>6. ASSUME NEW S \in SUBSET Node, expanded \subseteq S, Closed(listed, S)
      PROVE  expanded' \subseteq S
  BY <1>1, <1>2, <1>6 DEF children, Closed
<1> QED
  BY <1>1, <1>3, <1>5, <1>6

-----------------------------------------------------------------------------
(* The steps.                                                               *)

\* The calls before the descent, and the one after it.
LEMMA CallsKeep ==
  ASSUME IInv,
         get_tenancy \/ list_region_subscriptions \/ list_compartments \/ list_availability_domains
  PROVE  IInv'
<1> USE DEF IInv, PC
<1>1. CASE get_tenancy
  BY <1>1 DEF get_tenancy, EarlyInv, TypeOK, WalkInv, RootsInv, ExcludesInv, WholeInv, ApprovedInv
<1>2. CASE list_region_subscriptions
  <2>1. approved_regions' \subseteq Region
    BY <1>2 DEF list_region_subscriptions, _resolve_regions
  <2> QED
    BY <1>2, <2>1 DEF list_region_subscriptions, EarlyInv, TypeOK, WalkInv, RootsInv, ExcludesInv,
       WholeInv, ApprovedInv
<1>3. CASE list_compartments
  <2>1. /\ pc = "compartments" /\ UNCHANGED <<tenancy, scope, approved_regions, in_scope, expanded,
                                              frontier, excluded, approved_compartment_ids>>
        /\ listed' \in SUBSET Compartment /\ ok' \in BOOLEAN
        /\ ok' => listed' = Compartment
        /\ \/ scope.whole /\ pc' = "excludes" /\ UNCHANGED todo
           \/ pc' = "roots" /\ todo' = scope.roots
    BY <1>3 DEF list_compartments, TypeOK
  <2>2. scope.whole => Covered = Node
    BY SubtreeOfTenancy DEF Covered, TypeOK
  <2>3. Covered' = Covered
    BY <2>1 DEF Covered, Subtree, Closed
  <2>4. TypeOK' /\ WalkInv'
    BY <2>1 DEF TypeOK, WalkInv
  <2>5. in_scope = {} /\ frontier = {}
    BY <2>1 DEF WalkInv, EarlyInv
  <2>6. RootsInv'
    BY <2>1, <2>5 DEF RootsInv, Closed
  <2>7. WholeInv'
    BY <2>1, <2>2, <2>3 DEF WholeInv, Node
  <2> QED
    BY <2>1, <2>4, <2>6, <2>7 DEF ExcludesInv, ApprovedInv, EarlyInv
<1>4. CASE list_availability_domains
  <2>0. ok' \in BOOLEAN /\ (ok' => ok)
    <3>1. ok' = ok \/ ok' = FALSE
      BY <1>4, Zenon DEF list_availability_domains
    <3>2. ok \in BOOLEAN
      BY DEF TypeOK
    <3>3. CASE ok' = ok
      BY <3>2, <3>3
    <3>4. CASE ok' = FALSE
      BY <3>4
    <3> QED
      BY <3>1, <3>3, <3>4
  <2>1. /\ pc = "domains" /\ pc' = "done"
        /\ UNCHANGED <<tenancy, scope, approved_regions, listed, todo, in_scope,
                       expanded, frontier, excluded, approved_compartment_ids>>
    BY <1>4 DEF list_availability_domains
  <2>2. Covered' = Covered /\ Subtree(listed, scope.excludes)' = Subtree(listed, scope.excludes)
    BY <2>1 DEF Covered, Subtree, Closed
  <2> QED
    BY <2>0, <2>1, <2>2 DEF EarlyInv, TypeOK, WalkInv, RootsInv, ExcludesInv, WholeInv, ApprovedInv
<1> QED
  BY <1>1, <1>2, <1>3, <1>4

\* The roots, one after the other.
LEMMA RootsKeep ==
  ASSUME IInv, StartRoot \/ ExpandRoot \/ RootExpanded \/ FilterToRoots
  PROVE  IInv'
<1> USE DEF IInv, PC
<1>0. /\ tenancy \in Tenancies /\ listed \in SUBSET Compartment /\ scope.roots \in SUBSET Node
      /\ Subtree(listed, scope.roots) \in SUBSET Node
      /\ scope.roots \subseteq Subtree(listed, scope.roots)
      /\ Closed(listed, Subtree(listed, scope.roots))
  <2>1. tenancy \in Tenancies /\ listed \in SUBSET Compartment /\ scope.roots \in SUBSET Node
    BY DEF TypeOK
  <2> QED
    BY <2>1, SubtreeClosed DEF Subtree
<1>a. UNCHANGED <<tenancy, scope>> => Covered' = Covered
  BY DEF Covered, Subtree, Closed
<1>b. UNCHANGED <<tenancy, scope, listed>> => Subtree(listed, scope.roots)' = Subtree(listed, scope.roots)
  BY DEF Subtree, Closed
<1>1. CASE StartRoot
  <2>1. PICK r \in todo : todo' = todo \ {r} /\ expanded' = {r} /\ frontier' = {r}
    BY <1>1 DEF StartRoot
  <2>2. r \in scope.roots /\ r \in Node
    BY <1>0 DEF TypeOK
  <2>3. /\ pc = "roots" /\ pc' = "root"
        /\ UNCHANGED <<tenancy, scope, ok, approved_regions, listed, in_scope,
                       excluded, approved_compartment_ids>>
    BY <1>1 DEF StartRoot
  <2>4. TypeOK' /\ WalkInv'
    BY <2>1, <2>2, <2>3 DEF TypeOK, WalkInv
  <2>5. RootsInv'
    BY <1>0, <1>b, <2>1, <2>2, <2>3 DEF RootsInv, Closed
  <2>6. WholeInv'
    BY <2>3 DEF WholeInv
  <2> QED
    BY <2>3, <2>4, <2>5, <2>6 DEF ExcludesInv, ApprovedInv, EarlyInv
<1>2. CASE ExpandRoot
  <2>1. /\ pc = "root" /\ Descend
        /\ UNCHANGED <<tenancy, scope, pc, ok, approved_regions, listed, todo, in_scope,
                       excluded, approved_compartment_ids>>
    BY <1>2 DEF ExpandRoot
  <2>2. /\ expanded \subseteq expanded' /\ expanded' \subseteq Node /\ frontier' \subseteq expanded'
        /\ WalkInv'
        /\ \A S \in SUBSET Node : expanded \subseteq S /\ Closed(listed, S) => expanded' \subseteq S
    BY <2>1, DescendKeeps
  <2>3. expanded' \subseteq Subtree(listed, scope.roots)
    BY <1>0, <2>1, <2>2 DEF RootsInv
  <2>4. TypeOK'
    BY <2>1, <2>2 DEF TypeOK
  <2>5. RootsInv'
    BY <1>b, <2>1, <2>2, <2>3 DEF RootsInv, Closed
  <2>6. WholeInv'
    BY <2>1 DEF WholeInv
  <2> QED
    BY <2>1, <2>2, <2>4, <2>5, <2>6 DEF ExcludesInv, ApprovedInv, EarlyInv
<1>3. CASE RootExpanded
  <2>1. /\ pc = "root" /\ frontier = {} /\ in_scope' = in_scope \cup expanded /\ pc' = "roots"
        /\ UNCHANGED <<tenancy, scope, ok, approved_regions, listed, todo,
                       expanded, frontier, excluded, approved_compartment_ids>>
    BY <1>3 DEF RootExpanded
  <2>2. Closed(listed, expanded)
    BY <2>1 DEF WalkInv, Closed
  <2>3. TypeOK' /\ WalkInv'
    BY <2>1 DEF TypeOK, WalkInv
  <2>4. RootsInv'
    BY <1>b, <2>1, <2>2 DEF RootsInv, Closed
  <2>5. WholeInv'
    BY <2>1 DEF WholeInv
  <2> QED
    BY <2>1, <2>3, <2>4, <2>5 DEF ExcludesInv, ApprovedInv, EarlyInv
<1>4. CASE FilterToRoots
  <2>1. /\ pc = "roots" /\ frontier = {} /\ todo = {} /\ listed' = listed \cap in_scope /\ pc' = "excludes"
        /\ UNCHANGED <<tenancy, scope, ok, approved_regions, todo, in_scope,
                       expanded, frontier, excluded, approved_compartment_ids>>
    BY <1>4 DEF FilterToRoots
  <2>2. in_scope = Subtree(listed, scope.roots)
    BY <2>1, WalkEnds DEF ExpandsToSubtrees
  <2>3. TypeOK' /\ WalkInv'
    BY <2>1 DEF TypeOK, WalkInv
  <2>4. ok => listed' = Covered \cap Compartment
    BY <2>1, <2>2 DEF WholeInv, Covered
  <2>5. WholeInv'
    BY <1>a, <2>1, <2>4 DEF WholeInv
  <2> QED
    BY <2>1, <2>3, <2>5 DEF RootsInv, ExcludesInv, ApprovedInv, EarlyInv
<1> QED
  BY <1>1, <1>2, <1>3, <1>4

\* The exclusions.
LEMMA ExcludesKeep ==
  ASSUME IInv, StartExcludes \/ ExpandExcludes \/ Approve
  PROVE  IInv'
<1> USE DEF IInv, PC
<1>0. /\ tenancy \in Tenancies /\ listed \in SUBSET Compartment /\ scope.excludes \in SUBSET Node
      /\ Subtree(listed, scope.excludes) \in SUBSET Node
      /\ scope.excludes \subseteq Subtree(listed, scope.excludes)
      /\ Closed(listed, Subtree(listed, scope.excludes))
  <2>1. tenancy \in Tenancies /\ listed \in SUBSET Compartment /\ scope.excludes \in SUBSET Node
    BY DEF TypeOK
  <2> QED
    BY <2>1, SubtreeClosed DEF Subtree
<1>1. UNCHANGED <<tenancy, scope, listed>> =>
        Covered' = Covered /\ Subtree(listed, scope.excludes)' = Subtree(listed, scope.excludes)
  BY DEF Covered, Subtree, Closed
<1>2. CASE StartExcludes
  <2>1. /\ pc = "excludes" /\ pc' = "exclude"
        /\ expanded' = scope.excludes /\ frontier' = scope.excludes
        /\ UNCHANGED <<tenancy, scope, ok, approved_regions, listed, todo, in_scope,
                       excluded, approved_compartment_ids>>
    BY <1>2 DEF StartExcludes
  <2>2. TypeOK' /\ WalkInv'
    BY <1>0, <2>1 DEF TypeOK, WalkInv
  <2>3. ExcludesInv' /\ WholeInv'
    BY <1>0, <1>1, <2>1 DEF ExcludesInv, WholeInv
  <2> QED
    BY <2>1, <2>2, <2>3 DEF RootsInv, ApprovedInv, EarlyInv
<1>3. CASE ExpandExcludes
  <2>1. /\ pc = "exclude" /\ Descend
        /\ UNCHANGED <<tenancy, scope, pc, ok, approved_regions, listed, todo, in_scope,
                       excluded, approved_compartment_ids>>
    BY <1>3 DEF ExpandExcludes
  <2>2. /\ expanded \subseteq expanded' /\ expanded' \subseteq Node /\ frontier' \subseteq expanded'
        /\ WalkInv'
        /\ \A S \in SUBSET Node : expanded \subseteq S /\ Closed(listed, S) => expanded' \subseteq S
    BY <2>1, DescendKeeps
  <2>3. TypeOK'
    BY <2>1, <2>2 DEF TypeOK
  <2>4. ExcludesInv' /\ WholeInv'
    BY <1>0, <1>1, <2>1, <2>2 DEF ExcludesInv, WholeInv
  <2> QED
    BY <2>1, <2>2, <2>3, <2>4 DEF RootsInv, ApprovedInv, EarlyInv
<1>4. CASE Approve
  <2>1. /\ pc = "exclude" /\ frontier = {} /\ pc' = "domains" /\ excluded' = expanded
        /\ approved_compartment_ids' = ((listed \cap tenancy.active) \cup scope.roots) \ expanded
        /\ UNCHANGED <<tenancy, scope, ok, approved_regions, listed, todo, in_scope,
                       expanded, frontier>>
    BY <1>4 DEF Approve, Approved
  <2>2. expanded = Subtree(listed, scope.excludes)
    BY <2>1, WalkEnds DEF ExpandsToSubtrees
  <2>3. TypeOK' /\ WalkInv'
    BY <2>1 DEF TypeOK, WalkInv, Node
  <2>4. WholeInv' /\ ApprovedInv'
    BY <1>1, <2>1, <2>2 DEF WholeInv, ApprovedInv
  <2> QED
    BY <2>1, <2>3, <2>4 DEF RootsInv, ExcludesInv, EarlyInv
<1> QED
  BY <1>2, <1>3, <1>4

\* Every step of discovery.
LEMMA StepKeeps == IInv /\ [Next]_vars => IInv'
<1> SUFFICES ASSUME IInv, [Next]_vars
             PROVE  IInv'
  OBVIOUS
<1>1. CASE UNCHANGED vars
  <2>1. UNCHANGED <<tenancy, scope, listed>>
    BY <1>1 DEF vars
  <2>2. /\ Covered' = Covered
        /\ Subtree(listed, scope.roots)' = Subtree(listed, scope.roots)
        /\ Subtree(listed, scope.excludes)' = Subtree(listed, scope.excludes)
    BY <2>1 DEF Covered, Subtree, Closed
  <2> QED
    BY <1>1, <2>2 DEF vars, IInv, TypeOK, WalkInv, RootsInv, ExcludesInv, WholeInv, ApprovedInv,
       EarlyInv, Closed
<1> QED
  BY <1>1, CallsKeep, RootsKeep, ExcludesKeep DEF Next, Step

-----------------------------------------------------------------------------
(* Theorems.                                                                *)

\* The invariant holds whatever fails and in whatever order the worklists are taken.
THEOREM Invariance == Spec => []IInv
<1> QED
  BY InitKeeps, StepKeeps, PTL DEF Spec

\* Every variable keeps its type, and nothing is both approved and excluded.
THEOREM TypeCorrect == Spec => []TypeOK
<1>1. IInv => TypeOK
  BY DEF IInv
<1> QED
  BY <1>1, Invariance, PTL

\* The descent finds exactly the subtrees of its seeds.
THEOREM Expansion == Spec => []ExpandsToSubtrees
<1> QED
  BY WalkEnds, Invariance, PTL

\* A discovery that says it is complete has approved all it was configured for, and
\* nothing else.
THEOREM Completeness == Spec => []CompleteMeansEverything
<1>1. IInv => CompleteMeansEverything
  <2> SUFFICES ASSUME IInv, complete
               PROVE  /\ approved_regions = Region
                      /\ approved_compartment_ids =
                           ((Covered \cap tenancy.active) \cup scope.roots)
                             \ Subtree(Covered \cap Compartment, scope.excludes)
    BY DEF CompleteMeansEverything
  <2>1. approved_regions = Region
    BY DEF complete, IInv, TypeOK
  <2>2. listed = Covered \cap Compartment
    BY DEF complete, IInv, WholeInv
  <2>3. tenancy.active \subseteq Compartment
    BY DEF IInv, TypeOK
  <2>4. (listed \cap tenancy.active) = Covered \cap tenancy.active
    BY <2>2, <2>3
  <2> QED
    BY <2>1, <2>2, <2>4 DEF complete, IInv, ApprovedInv
<1> QED
  BY <1>1, Invariance, PTL

\* What a covered exclusion is above of is not approved.
THEOREM ExclusionHolds == Spec => []CoveredExclusionHolds
<1>1. IInv => CoveredExclusionHolds
  <2> SUFFICES ASSUME IInv, complete, NEW e \in scope.excludes \cap Covered
               PROVE  approved_compartment_ids \cap Subtree(Compartment, {e}) = {}
    BY DEF CoveredExclusionHolds
  <2>1. listed = Covered \cap Compartment
    BY DEF complete, IInv, WholeInv
  <2>2. tenancy \in Tenancies /\ scope.roots \in SUBSET Node /\ scope.excludes \in SUBSET Node
    BY DEF IInv, TypeOK
  <2>3. Subtree(Compartment, {e}) \subseteq Subtree(listed, scope.excludes)
    BY <2>1, <2>2, SubtreeWithin DEF Covered
  <2> QED
    BY <2>3 DEF complete, IInv, ApprovedInv
<1> QED
  BY <1>1, Invariance, PTL

\* Where a discovery is; it goes back and forth between the roots and the walk from one.
Rank(p) ==
  CASE p = "get_tenancy" -> 0 [] p = "regions" -> 1 [] p = "compartments" -> 2
    [] p \in {"roots", "root"} -> 3 [] p = "excludes" -> 4 [] p = "exclude" -> 5
    [] p = "domains" -> 6 [] OTHER -> 7

\* A discovery is further; or it has begun with one root less to come, or ended the walk
\* from one; or it has found more, or, if not, has less to look at.
Advances ==
  \/ Rank(pc') > Rank(pc)
  \/ /\ Rank(pc') = Rank(pc)
     /\ \/ todo' \subseteq todo /\ todo' # todo
        \/ /\ todo' = todo
           /\ \/ pc = "root" /\ pc' = "roots"
              \/ /\ pc' = pc
                 /\ \/ expanded \subseteq expanded' /\ expanded' # expanded /\ expanded' \subseteq Node
                    \/ expanded' = expanded /\ frontier' \subseteq frontier /\ frontier' # frontier

\* Every step of a discovery advances it, in whatever order a worklist is taken and
\* whatever the listing lacks: one taken from the worklist is not put there again.  Of
\* finitely many compartments it ends.
THEOREM WalksRunOut == Spec => [][Advances]_vars
<1>1. ASSUME IInv, Next
      PROVE  Advances \/ UNCHANGED vars
  <2>1. CASE get_tenancy \/ list_region_subscriptions \/ list_compartments
    BY <2>1 DEF get_tenancy, list_region_subscriptions, list_compartments, Advances, Rank
  <2>2. CASE FilterToRoots \/ StartExcludes \/ Approve \/ list_availability_domains
    BY <2>2 DEF FilterToRoots, StartExcludes, Approve, list_availability_domains, Advances, Rank
  <2>3. CASE StartRoot
    <3>1. PICK r \in todo : todo' = todo \ {r}
      BY <2>3 DEF StartRoot
    <3> QED
      BY <2>3, <3>1 DEF StartRoot, Advances, Rank
  <2>4. CASE RootExpanded
    BY <2>4 DEF RootExpanded, Advances, Rank
  <2>5. CASE ExpandRoot \/ ExpandExcludes
    <3>1. Descend /\ UNCHANGED <<pc, todo, listed>>
      BY <2>5 DEF ExpandRoot, ExpandExcludes
    <3>2. PICK current \in frontier :
            LET new == children(listed, current) \ expanded
            IN  expanded' = expanded \cup new /\ frontier' = (frontier \ {current}) \cup new
      BY <3>1 DEF Descend, Popped, Pushed
    <3> DEFINE new == children(listed, current) \ expanded
    <3>3. new \subseteq Node /\ expanded \subseteq Node
      BY <1>1 DEF IInv, TypeOK, children, Node
    <3>4. CASE new = {}
      BY <3>1, <3>2, <3>4 DEF Advances
    <3>5. CASE new # {}
      <4>1. expanded' = expanded \cup new /\ new \cap expanded = {}
        BY <3>2
      <4> QED
        BY <3>1, <3>3, <3>5, <4>1 DEF Advances
    <3> QED
      BY <3>4, <3>5
  <2> QED
    BY <1>1, <2>1, <2>2, <2>3, <2>4, <2>5 DEF Next, Step
<1> QED
  BY <1>1, Invariance, PTL DEF Spec

=============================================================================
