----------------------------- MODULE Discovery -----------------------------
(***************************************************************************)
(* collection.discovery.discover: which regions and compartments the       *)
(* collectors will look at, and whether that answer can be trusted.        *)
(*                                                                         *)
(* Every OCI operation succeeds with the whole truth or fails with a part  *)
(* of it (CompleteMeansWhole of module OciCall).  The descent of           *)
(* _expand_to_subtrees takes one action per element of its worklist, in    *)
(* any order.                                                              *)
(***************************************************************************)
EXTENDS Naturals, FiniteSets

CONSTANTS
  Tenancy,      \* oci.expectedTenancyOcid, the root compartment
  Compartment,  \* the compartments below it
  Region,       \* the regions oci.regions.allow names
  Tenancies,    \* the tenancies to consider: [parent, active]
  Scopes        \* the scopes a configuration may ask for: [roots, excludes, whole]

Node == Compartment \cup {Tenancy}

ASSUME NodeAssumption == Tenancy \notin Compartment
ASSUME TenanciesAssumption ==
  Tenancies \subseteq [parent : [Compartment -> Node], active : SUBSET Compartment]
\* Every compartment is below the tenancy.
ASSUME TreeAssumption ==
  \A t \in Tenancies, S \in SUBSET Node :
    Tenancy \in S /\ (\A d \in Compartment : t.parent[d] \in S => d \in S) => S = Node
\* "tenancy" among the roots names the whole tenancy; so does its OCID.
ASSUME ScopesAssumption ==
  /\ Scopes \subseteq [roots : (SUBSET Node) \ {{}}, excludes : SUBSET Node, whole : BOOLEAN]
  /\ \A s \in Scopes : s.whole => Tenancy \in s.roots

VARIABLES
  tenancy,   \* the compartment tree as OCI has it
  scope,     \* oci.compartments of the configuration ("tenancy" resolved to its OCID, and whole)
  pc,
  ok,        \* operations_complete(operations) so far
  approved_regions,
  listed,    \* ids of tenancy_wide_compartments, then of all_compartments
  todo,      \* roots still to expand
  in_scope,  \* in_scope_ids
  expanded, frontier,  \* the worklist of _expand_to_subtrees
  excluded,
  approved_compartment_ids

vars == <<tenancy, scope, pc, ok, approved_regions, listed, todo, in_scope,
          expanded, frontier, excluded, approved_compartment_ids>>

-----------------------------------------------------------------------------
\* children_by_parent of the compartments in L.
children(L, c) == {d \in L : tenancy.parent[d] = c}

Init ==
  /\ tenancy \in Tenancies
  /\ scope \in Scopes
  /\ pc = "get_tenancy"
  /\ ok = TRUE
  /\ approved_regions = {}
  /\ listed = {} /\ todo = {} /\ in_scope = {}
  /\ expanded = {} /\ frontier = {} /\ excluded = {}
  /\ approved_compartment_ids = {}

get_tenancy ==
  /\ pc = "get_tenancy"
  /\ ok' \in BOOLEAN
  /\ pc' = "regions"
  /\ UNCHANGED <<tenancy, scope, approved_regions, listed, todo, in_scope,
                 expanded, frontier, excluded, approved_compartment_ids>>

\* _resolve_regions: an unreadable subscription list leaves no region ready.
_resolve_regions(success, ready) == IF success THEN ready ELSE {}

list_region_subscriptions ==
  /\ pc = "regions"
  /\ \E success \in BOOLEAN, ready \in SUBSET Region :
       /\ approved_regions' = _resolve_regions(success, ready)
       /\ ok' = (ok /\ success)
  /\ pc' = "compartments"
  /\ UNCHANGED <<tenancy, scope, listed, todo, in_scope,
                 expanded, frontier, excluded, approved_compartment_ids>>

\* One listing of the whole tenancy; it never holds the tenancy itself.  With
\* "tenancy" among the roots it is taken as it is; any other root, the tenancy's own
\* OCID too, is expanded and the listing filtered.
list_compartments ==
  /\ pc = "compartments"
  /\ \E success \in BOOLEAN, L \in SUBSET Compartment :
       /\ success => L = Compartment
       /\ listed' = L
       /\ ok' = (ok /\ success)
  /\ IF scope.whole
     THEN pc' = "excludes" /\ UNCHANGED todo
     ELSE pc' = "roots" /\ todo' = scope.roots
  /\ UNCHANGED <<tenancy, scope, approved_regions, in_scope,
                 expanded, frontier, excluded, approved_compartment_ids>>

-----------------------------------------------------------------------------
\* Only the children of the seeds are taken, not theirs.
OnlyChildren(new) == {}

\* The children found are expanded in turn.
Pushed(new) == new

\* The element taken stays in the worklist.
NotPopped(current) == frontier

Popped(current) == frontier \ {current}

\* One round of the while loop of _expand_to_subtrees.
Descend ==
  \E current \in frontier :
    LET new == children(listed, current) \ expanded
    IN  /\ expanded' = expanded \cup new
        /\ frontier' = Popped(current) \cup Pushed(new)

StartRoot ==
  /\ pc = "roots" /\ frontier = {}
  /\ \E r \in todo :
       /\ todo' = todo \ {r}
       /\ expanded' = {r} /\ frontier' = {r}
  /\ pc' = "root"
  /\ UNCHANGED <<tenancy, scope, ok, approved_regions, listed, in_scope,
                 excluded, approved_compartment_ids>>

ExpandRoot ==
  /\ pc = "root" /\ Descend
  /\ UNCHANGED <<tenancy, scope, pc, ok, approved_regions, listed, todo, in_scope,
                 excluded, approved_compartment_ids>>

RootExpanded ==
  /\ pc = "root" /\ frontier = {}
  /\ in_scope' = in_scope \cup expanded
  /\ pc' = "roots"
  /\ UNCHANGED <<tenancy, scope, ok, approved_regions, listed, todo,
                 expanded, frontier, excluded, approved_compartment_ids>>

\* all_compartments: the listing cut down to the roots' subtrees.
FilterToRoots ==
  /\ pc = "roots" /\ frontier = {} /\ todo = {}
  /\ listed' = listed \cap in_scope
  /\ pc' = "excludes"
  /\ UNCHANGED <<tenancy, scope, ok, approved_regions, todo, in_scope,
                 expanded, frontier, excluded, approved_compartment_ids>>

\* The exclusions are expanded within all_compartments, the filtered listing.
StartExcludes ==
  /\ pc = "excludes"
  /\ expanded' = scope.excludes /\ frontier' = scope.excludes
  /\ pc' = "exclude"
  /\ UNCHANGED <<tenancy, scope, ok, approved_regions, listed, todo, in_scope,
                 excluded, approved_compartment_ids>>

ExpandExcludes ==
  /\ pc = "exclude" /\ Descend
  /\ UNCHANGED <<tenancy, scope, pc, ok, approved_regions, listed, todo, in_scope,
                 excluded, approved_compartment_ids>>

\* Roots that no exclusion can remove.
RootsAlwaysIn(ex) == ((listed \cap tenancy.active) \ ex) \cup scope.roots

\* The active compartments and the roots themselves, less the exclusions.
Approved(ex) == ((listed \cap tenancy.active) \cup scope.roots) \ ex

Approve ==
  /\ pc = "exclude" /\ frontier = {}
  /\ excluded' = expanded
  /\ approved_compartment_ids' = Approved(expanded)
  /\ pc' = "domains"
  /\ UNCHANGED <<tenancy, scope, ok, approved_regions, listed, todo, in_scope,
                 expanded, frontier>>

\* list_availability_domains, once per approved region.
list_availability_domains ==
  /\ pc = "domains"
  /\ \/ UNCHANGED ok
     \/ approved_regions # {} /\ ok' = FALSE
  /\ pc' = "done"
  /\ UNCHANGED <<tenancy, scope, approved_regions, listed, todo, in_scope,
                 expanded, frontier, excluded, approved_compartment_ids>>

\* A discovery that only asks whether its operations succeeded.
IgnoresUnready == pc = "done" /\ ok

\* DiscoveryResult.complete: no configured region is unready, no operation failed.
complete == pc = "done" /\ ok /\ Region \ approved_regions = {}

Step ==
  \/ get_tenancy \/ list_region_subscriptions \/ list_compartments
  \/ StartRoot \/ ExpandRoot \/ RootExpanded \/ FilterToRoots
  \/ StartExcludes \/ ExpandExcludes \/ Approve
  \/ list_availability_domains

Next == Step \/ (pc = "done" /\ UNCHANGED vars)

Spec == Init /\ [][Next]_vars /\ WF_vars(Step)

-----------------------------------------------------------------------------
(* Properties.                                                              *)

PC == {"get_tenancy", "regions", "compartments", "roots", "root", "excludes", "exclude",
       "domains", "done"}

\* Every variable keeps its type; the worklist holds only elements already in
\* the result, and no compartment is both approved and excluded.
TypeOK ==
  /\ tenancy \in Tenancies /\ scope \in Scopes
  /\ pc \in PC
  /\ ok \in BOOLEAN
  /\ approved_regions \subseteq Region
  /\ listed \subseteq Compartment
  /\ todo \subseteq scope.roots
  /\ in_scope \subseteq Node
  /\ expanded \subseteq Node /\ frontier \subseteq expanded
  /\ excluded \subseteq Node /\ approved_compartment_ids \subseteq Node
  /\ approved_compartment_ids \cap excluded = {}

\* S holds every compartment of L whose parent it holds.
Closed(L, S) == \A d \in L : tenancy.parent[d] \in S => d \in S

\* The seeds and all that descends from them within L: the least closed set.
Subtree(L, seeds) ==
  {c \in Node : \A S \in SUBSET Node : seeds \subseteq S /\ Closed(L, S) => c \in S}

\* When its worklist is empty, _expand_to_subtrees has found exactly the subtrees
\* of its seeds, in whatever order it took them and whatever the listing lacks.
ExpandsToSubtrees ==
  /\ pc = "roots" /\ todo = {} => in_scope = Subtree(listed, scope.roots)
  /\ pc = "exclude" /\ frontier = {} => expanded = Subtree(listed, scope.excludes)

\* The compartments the configured roots cover, in the true tree.
Covered == Subtree(Compartment, scope.roots)

\* A complete discovery approves every configured region, and exactly the active
\* compartments the roots cover, and the roots, less what an exclusion reaches
\* within the covered part of the tree.
CompleteMeansEverything ==
  complete =>
    /\ approved_regions = Region
    /\ approved_compartment_ids =
         ((Covered \cap tenancy.active) \cup scope.roots)
           \ Subtree(Covered \cap Compartment, scope.excludes)

\* An exclusion of something the roots cover takes everything below it out.
CoveredExclusionHolds ==
  complete =>
    \A e \in scope.excludes \cap Covered :
      approved_compartment_ids \cap Subtree(Compartment, {e}) = {}

\* Discovery ends: every listing is finite and every descent stops.
Terminates == <>(pc = "done")

=============================================================================
