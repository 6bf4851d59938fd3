--------------------------- MODULE LeafCollectors ---------------------------
(***************************************************************************)
(* The collectors that list items compartment by compartment and then ask  *)
(* for what belongs to each: the tunnels of IPSec connections, the rules   *)
(* of network security groups, the health of the backend sets of load      *)
(* balancers, the keys of vaults, the buckets of the namespace, the        *)
(* attachments of volumes.  They differ in when they ask (after each       *)
(* compartment or after the last), and in how the answers are joined with  *)
(* the items into records.                                                 *)
(*                                                                         *)
(* One region, one collector at a time, in a tenancy that changes while it *)
(* is read: an item is moved to another compartment, terminated, purged;   *)
(* what belongs to it comes, changes and goes.  The pool of run_concurrently *)
(* is that of ComputeCollection: here its calls come in any order.         *)
(***************************************************************************)
EXTENDS Naturals, FiniteSets

CONSTANTS
  Kind,          \* the collectors to consider
  Item, Child,
  ParentOf,      \* the item each child belongs to
  NameOf,        \* the name of each child within its item
  WithEndpoint,  \* the items that have a management endpoint, if they are vaults
  Compartments,  \* number of approved compartments
  MaxChanges,    \* bound: changes of the tenancy during the run, by collector
  MaxFaults      \* bound: calls that fail for good, retries included

Kinds == {"vpn", "networking", "load_balancer", "kms_vault", "object_storage", "storage"}
Compartment == 1..Compartments

\* Where an item was listed, and where the child was.
Tag == Compartment \X Compartment

ASSUME KindAssumption == Kind \subseteq Kinds
ASSUME ChildAssumption ==
  /\ ParentOf \in [Child -> Item] /\ IsFiniteSet(Child)
  /\ Item \cap Child = {}
  /\ \A c, d \in Child : c # d => <<ParentOf[c], NameOf[c]>> # <<ParentOf[d], NameOf[d]>>
ASSUME EndpointAssumption == WithEndpoint \subseteq Item
ASSUME BoundAssumption ==
  Compartments \in Nat \ {0} /\ MaxChanges \in [Kinds -> Nat] /\ MaxFaults \in Nat

VARIABLES
  kind,      \* the collector at work
  \* OCI's side:
  life,      \* lifecycle of each item
  home,      \* its compartment
  state,     \* of each child: "up" and "down" are live, "gone" is still listed
  place,     \* compartment of a child that has one of its own
  \* the collector's:
  phase, at, \* what it is doing, and the compartment it lists next
  entries,   \* items listed: where, and in what state
  jobs,      \* children still to be listed
  gets,      \* children still to be asked for
  answers,   \* children answered for: where listed, and in what state
  complete,  \* no operation has failed
  \* what happened since it started:
  been,      \* the states each child was in
  steady,    \* items that were live, and things that stayed in their compartment, throughout
  changes, faults

tenancy == <<life, home, state, place, been, steady, changes>>
collector == <<kind, phase, at, entries, jobs, gets, answers, complete, faults>>
leafVars == <<tenancy, collector>>

ChildrenOf(i) == {c \in Child : ParentOf[c] = i}

\* A backend set or a rule is there or it is not; the others stay listed for a while.
States(k) ==
  CASE k = "vpn" -> {"none", "up", "down", "gone"}
    [] k = "load_balancer" -> {"none", "up", "down"}
    [] k \in {"networking", "object_storage"} -> {"none", "up"}
    [] k \in {"kms_vault", "storage"} -> {"none", "up", "gone"}

\* Keys, buckets and attachments have a compartment of their own.
Placed(k) == k \in {"kms_vault", "object_storage", "storage"}

LeafInit ==
  /\ kind \in Kind
  /\ life \in [Item -> IF kind = "object_storage" THEN {"live"} ELSE {"live", "terminal"}]
  /\ home \in [Item -> Compartment]
  /\ state \in [Child -> States(kind)]
  /\ \A c \in Child : life[ParentOf[c]] = "terminal" => state[c] \in {"none", "gone"}
  /\ place \in [Child -> IF Placed(kind) THEN Compartment ELSE {1}]
  /\ phase = "list" /\ at = 1
  /\ entries = {} /\ jobs = {} /\ gets = {} /\ answers = {}
  /\ complete = TRUE
  /\ been = [c \in Child |-> {state[c]}]
  /\ steady = {i \in Item : life[i] = "live"} \cup Child
  /\ changes = 0 /\ faults = 0

-----------------------------------------------------------------------------
(* Calls.                                                                   *)

Succeeds == UNCHANGED <<complete, faults>>

Fault == faults < MaxFaults /\ faults' = faults + 1 /\ complete' = FALSE

NotFound == complete' = FALSE /\ UNCHANGED faults

\* A listing returns what is there, or fails and keeps the pages it has read.
Lists(there, S) ==
  \/ S = there /\ Succeeds
  \/ S \in SUBSET there /\ Fault

ItemsIn(c) == {i \in Item : home[i] = c /\ life[i] # "purged"}

List(S) == entries' = entries \cup {<<at, i, life[i]>> : i \in S}

\* On to the next compartment, or to the children.
Next_compartment(then) ==
  IF at < Compartments THEN at' = at + 1 /\ phase' = "list"
                       ELSE phase' = then /\ UNCHANGED at

-----------------------------------------------------------------------------
(* The items.                                                               *)

\* The children of what a compartment holds are listed before the next compartment is.
ListEach ==
  /\ phase = "list"
  /\ \E S \in SUBSET ItemsIn(at) :
       /\ Lists(ItemsIn(at), S) /\ List(S)
       /\ jobs' = {<<<<at, at>>, i>> : i \in S}
  /\ phase' = "children"
  /\ UNCHANGED <<tenancy, kind, at, gets, answers>>

list_ip_sec_connections == kind = "vpn" /\ ListEach

list_network_security_groups == kind = "networking" /\ ListEach

\* list_load_balancers: an entry names the backend sets of its load balancer.
list_load_balancers ==
  /\ kind = "load_balancer" /\ phase = "list"
  /\ \E S \in SUBSET ItemsIn(at) :
       /\ Lists(ItemsIn(at), S) /\ List(S)
       /\ gets' = gets \cup {<<<<at, at>>, c>> : c \in {d \in Child : ParentOf[d] \in S /\ state[d] # "none"}}
  /\ Next_compartment("get")
  /\ UNCHANGED <<tenancy, kind, jobs, answers>>

\* Keys are looked for in the compartment of their vault only.
OwnCompartment(S) == {<<<<at, at>>, i>> : i \in S}

EveryCompartment(S) == {<<<<at, b>>, i>> : b \in Compartment, i \in S}

\* list_vaults; then the keys of every vault are listed in every compartment.  There is
\* nothing to ask of a vault without a management endpoint: it is passed over, and no
\* operation has failed.
list_vaults ==
  /\ kind = "kms_vault" /\ phase = "list"
  /\ \E S \in SUBSET ItemsIn(at) :
       /\ Lists(ItemsIn(at), S) /\ List(S)
       /\ jobs' = jobs \cup EveryCompartment(S \cap WithEndpoint)
  /\ Next_compartment("children")
  /\ UNCHANGED <<tenancy, kind, gets, answers>>

\* get_namespace; without it nothing can be listed.
get_namespace ==
  /\ kind = "object_storage" /\ phase = "list"
  /\ \/ /\ Succeeds
        /\ entries' = {<<1, i, "live">> : i \in Item}
        /\ jobs' = {<<<<1, b>>, i>> : b \in Compartment, i \in Item}
     \/ Fault /\ UNCHANGED <<entries, jobs>>
  /\ phase' = "children"
  /\ UNCHANGED <<tenancy, kind, at, gets, answers>>

\* list_boot_volumes or list_volumes.
list_volumes ==
  /\ kind = "storage" /\ phase = "list"
  /\ \E S \in SUBSET ItemsIn(at) : Lists(ItemsIn(at), S) /\ List(S)
  /\ phase' = "attachments"
  /\ UNCHANGED <<tenancy, kind, at, jobs, gets, answers>>

-----------------------------------------------------------------------------
(* The children.                                                            *)

\* What there is to list of item i.  Only an item that is gone may not be known.
There(i, tag) ==
  {c \in ChildrenOf(i) : state[c] # "none" /\ (Placed(kind) => place[c] = tag[2])}

ListsOf(i, tag, S) ==
  \/ Lists(There(i, tag), S)
  \/ life[i] # "live" /\ S = {} /\ NotFound

\* list_ip_sec_connection_tunnels; a tunnel may come without its status, and is then
\* asked for by itself.
list_ip_sec_connection_tunnels ==
  /\ kind = "vpn" /\ phase = "children"
  /\ \E j \in jobs : \E S \in SUBSET There(j[2], j[1]) : \E U \in SUBSET S :
         /\ ListsOf(j[2], j[1], S)
         /\ answers' = answers \cup {<<j[1], c, IF c \in U THEN "unknown" ELSE state[c]>> : c \in S}
         /\ gets' = gets \cup {<<j[1], c>> : c \in U}
         /\ jobs' = jobs \ {j}
  /\ UNCHANGED <<tenancy, kind, phase, at, entries>>

\* The tunnel asked for is added to those listed.
Added(tag, c) == answers \cup {<<tag, c, state[c]>>}

Replaced(tag, c) == (answers \ {<<tag, c, "unknown">>}) \cup {<<tag, c, state[c]>>}

get_ip_sec_connection_tunnel ==
  /\ kind = "vpn"
  /\ \E g \in gets :
       /\ \/ /\ Succeeds /\ state[g[2]] # "none"
             /\ answers' = Replaced(g[1], g[2])
          \/ (Fault \/ (state[g[2]] = "none" /\ NotFound)) /\ UNCHANGED answers
       /\ gets' = gets \ {g}
  /\ UNCHANGED <<tenancy, kind, phase, at, entries, jobs>>

list_network_security_group_security_rules ==
  /\ kind = "networking" /\ phase = "children"
  /\ \E j \in jobs : \E S \in SUBSET There(j[2], j[1]) :
       /\ ListsOf(j[2], j[1], S)
       /\ answers' = answers \cup {<<j[1], c, state[c]>> : c \in S}
       /\ jobs' = jobs \ {j}
  /\ UNCHANGED <<tenancy, kind, phase, at, entries, gets>>

\* The listing names the children; each is asked for once all are listed.
ListNames(due) ==
  /\ phase = "children"
  /\ \E j \in due : \E S \in SUBSET There(j[2], j[1]) :
       /\ ListsOf(j[2], j[1], S)
       /\ gets' = gets \cup {<<j[1], c>> : c \in S}
       /\ jobs' = jobs \ {j}
  /\ UNCHANGED <<tenancy, kind, phase, at, entries, answers>>

\* Every vault in every compartment, concurrently.
list_keys == kind = "kms_vault" /\ ListNames(jobs)

\* One compartment after the other.
list_buckets ==
  kind = "object_storage" /\ ListNames({j \in jobs : \A k \in jobs : j[1][2] <= k[1][2]})

AskForEach ==
  /\ phase = "get"
  /\ \E g \in gets :
       /\ \/ /\ Succeeds /\ state[g[2]] # "none"
             /\ answers' = answers \cup {<<g[1], g[2], state[g[2]]>>}
          \/ (Fault \/ (state[g[2]] = "none" /\ NotFound)) /\ UNCHANGED answers
       /\ gets' = gets \ {g}
  /\ UNCHANGED <<tenancy, kind, phase, at, entries, jobs>>

get_key == kind = "kms_vault" /\ AskForEach

get_bucket == kind = "object_storage" /\ AskForEach

get_backend_set_health == kind = "load_balancer" /\ AskForEach

\* list_volume_attachments, or list_boot_volume_attachments in every availability
\* domain: the attachments of the instances of the compartment.
list_volume_attachments ==
  /\ phase = "attachments"
  /\ LET there == {c \in Child : place[c] = at /\ state[c] # "none"} IN
       \E S \in SUBSET there :
         /\ Lists(there, S)
         /\ answers' = answers \cup {<<<<at, at>>, c, state[c]>> : c \in S}
  /\ Next_compartment("done")
  /\ UNCHANGED <<tenancy, kind, entries, jobs, gets>>

\* The results are taken when the listings are through.
ListingsReturned == jobs = {}

AllReturned == jobs = {} /\ (gets = {} \/ (kind \in {"kms_vault", "object_storage"} /\ phase = "children"))

\* run_concurrently returns when every call has.
Joined ==
  /\ phase \in {"children", "get"} /\ AllReturned
  /\ \/ phase = "children" /\ kind \in {"vpn", "networking"} /\ Next_compartment("done")
     \/ phase = "children" /\ kind \in {"kms_vault", "object_storage"} /\ phase' = "get" /\ UNCHANGED at
     \/ phase = "get" /\ phase' = "done" /\ UNCHANGED at
  /\ UNCHANGED <<tenancy, kind, entries, jobs, gets, answers, complete, faults>>

-----------------------------------------------------------------------------
(* build_flat_records: the joins.                                           *)

kept == {i \in Item : \E a \in Compartment : <<a, i, "live">> \in entries}
Listings(i) == {a \in Compartment : \E l \in {"live", "terminal"} : <<a, i, l>> \in entries}

\* tunnels_by_connection_id: the tunnels of every listing of the connection.
TunnelsIn(i, S) == {t \in answers : ParentOf[t[2]] = i /\ t[3] \in S}

\* _tunnel_counts.
tunnel_count(i) == Cardinality(TunnelsIn(i, {"up", "down", "unknown"}))
up_tunnel_count(i) == Cardinality(TunnelsIn(i, {"up"}))

\* A table by key: the answer that came from the last listing.
Last(T) == {t \in T : \A u \in T : u[1][1] <= t[1][1]}

\* The health by the name of the backend set alone.
ByName(c) == Last({t \in answers : NameOf[t[2]] = NameOf[c]})

\* backend_set_health_by_key, by load balancer and name.
health(c) == Last({t \in answers : t[2] = c})

\* nsg_security_rules_by_nsg_id.
rules(i) == {t \in answers : ParentOf[t[2]] = i /\ t[1][1] = (CHOOSE a \in Listings(i) : \A b \in Listings(i) : b <= a)}

\* The backend sets named by an entry of a kept load balancer, when every call succeeded.
backend_sets ==
  {c \in Child : \E t \in answers : t[2] = c /\ <<t[1][1], ParentOf[c], "live">> \in entries}

\* What the records say of the children: each child named, and its state.  (Of tunnels
\* they only say how many there are, and how many are up.)
Reported ==
  CASE kind = "vpn" -> {<<t[2], t[3]>> : t \in {u \in answers : ParentOf[u[2]] \in kept /\ u[3] # "gone"}}
    [] kind = "networking" -> UNION {{<<t[2], t[3]>> : t \in rules(i)} : i \in kept}
    [] kind = "load_balancer" -> UNION {{<<c, t[3]>> : t \in health(c)} : c \in backend_sets}
    [] kind \in {"kms_vault", "object_storage"} -> {<<t[2], t[3]>> : t \in {u \in answers : u[3] # "gone"}}
    [] kind = "storage" -> {<<t[2], t[3]>> : t \in {u \in answers : ParentOf[u[2]] \in kept}}

\* _gate.
deliverable == phase = "done" /\ complete

-----------------------------------------------------------------------------
(* The tenancy.                                                             *)

Become(l, h, s, p, unsteady) ==
  /\ phase # "done" /\ changes < MaxChanges[kind] /\ changes' = changes + 1
  /\ life' = l /\ home' = h /\ state' = s /\ place' = p
  /\ been' = [c \in Child |-> been[c] \cup {s[c]}]
  /\ steady' = steady \ unsteady
  /\ UNCHANGED collector

Move(i, c) ==
  /\ kind # "object_storage" /\ life[i] = "live" /\ c # home[i]
  /\ Become(life, [home EXCEPT ![i] = c], state, place, {i})

\* What belongs to an item goes with it.
Terminate(i) ==
  /\ kind # "object_storage" /\ life[i] = "live"
  /\ \E s \in {"none", "gone"} \cap States(kind) :
       Become([life EXCEPT ![i] = "terminal"], home,
              [c \in Child |-> IF ParentOf[c] = i /\ state[c] # "none" THEN s ELSE state[c]], place, {i})

Purge(i) ==
  /\ life[i] = "terminal" /\ \A c \in ChildrenOf(i) : state[c] = "none"
  /\ Become([life EXCEPT ![i] = "purged"], home, state, place, {})

ChangeChild(c, s) ==
  /\ s # state[c] /\ s \in States(kind)
  /\ life[ParentOf[c]] # "live" => s = "none"
  /\ state[c] = "gone" => s = "none"
  /\ Become(life, home, [state EXCEPT ![c] = s], place, {})

MoveChild(c, p) ==
  /\ kind \in {"kms_vault", "object_storage"} /\ state[c] = "up" /\ p # place[c]
  /\ Become(life, home, state, [place EXCEPT ![c] = p], {c})

Tenancy ==
  \/ \E i \in Item : Terminate(i) \/ Purge(i) \/ \E c \in Compartment : Move(i, c)
  \/ \E c \in Child : (\E s \in States(kind) : ChangeChild(c, s)) \/ \E p \in Compartment : MoveChild(c, p)

Collect ==
  \/ list_ip_sec_connections \/ list_ip_sec_connection_tunnels \/ get_ip_sec_connection_tunnel
  \/ list_network_security_groups \/ list_network_security_group_security_rules
  \/ list_load_balancers \/ get_backend_set_health
  \/ list_vaults \/ list_keys \/ get_key
  \/ get_namespace \/ list_buckets \/ get_bucket
  \/ list_volumes \/ list_volume_attachments
  \/ Joined

LeafNext == Collect \/ Tenancy \/ (phase = "done" /\ UNCHANGED leafVars)

LeafSpec == LeafInit /\ [][LeafNext]_leafVars

-----------------------------------------------------------------------------
(* Properties.                                                              *)

LeafTypeOK ==
  /\ kind \in Kind
  /\ life \in [Item -> {"live", "terminal", "purged"}] /\ home \in [Item -> Compartment]
  /\ state \in [Child -> States(kind)] /\ place \in [Child -> Compartment]
  /\ phase \in {"list", "children", "attachments", "get", "done"} /\ at \in Compartment
  /\ entries \subseteq Compartment \X Item \X {"live", "terminal"}
  /\ jobs \subseteq Tag \X Item /\ gets \subseteq Tag \X Child
  /\ answers \subseteq Tag \X Child \X (States(kind) \cup {"unknown"})
  /\ \A t, u \in answers : t[1] = u[1] /\ t[2] = u[2] => t = u
  /\ phase = "done" => jobs = {} /\ gets = {}
  /\ complete \in BOOLEAN
  /\ faults \in 0..MaxFaults /\ changes \in 0..MaxChanges[kind]

\* Children of an item that were always in one of the states S, and those that ever were.
Always(i, S) == {c \in ChildrenOf(i) : been[c] \subseteq S}
Ever(i, S) == {c \in ChildrenOf(i) : been[c] \cap S # {}}

\* The tunnel counts uploaded of a connection lie between the tunnels it had, or that
\* were up, all the time and those it ever had, each counted once per listing of the
\* connection: one that is moved meanwhile is listed twice, and its tunnels added up.
CountsAreSeen ==
  kind = "vpn" /\ deliverable =>
    \A i \in kept :
      LET within(n, S) ==
            /\ Cardinality(Always(i, S)) <= n
            /\ n <= Cardinality(Listings(i)) * Cardinality(Ever(i, S))
      IN  within(tunnel_count(i), {"up", "down"}) /\ within(up_tunnel_count(i), {"up"})

\* A child that its collector can ask for.
AskedFor(c) == kind = "kms_vault" => ParentOf[c] \in WithEndpoint

\* What is uploaded leaves nothing out: an item that was live in one compartment all the
\* time has its record, and so has, or is part of it, each child that was there all the
\* time.  Except for the keys of a vault without a management endpoint: nothing is
\* reported of them, and what is uploaded does not show that they are missing.
SteadyIsReported ==
  deliverable =>
    /\ Item \cap steady \subseteq kept
    /\ \A c \in Child \cap steady :
         ParentOf[c] \in steady /\ been[c] \subseteq {"up", "down"} /\ AskedFor(c) =>
           \E s \in {"up", "down"} : <<c, s>> \in Reported

\* What is uploaded of a child was true of this child at some moment of the run.
ReportedIsSeen == deliverable => \A f \in Reported : f[2] \in been[f[1]]

=============================================================================
