------------------------- MODULE ComputeCollection -------------------------
(***************************************************************************)
(* collect_compute and the joins of its tables, in a tenancy that changes  *)
(* while it is read.  Each compartment in turn: its instances, their       *)
(* images, its VNIC attachments, then a pool of workers, one attachment    *)
(* each, that ask for the VNIC, its addresses and their public addresses.  *)
(* No two calls see the same moment; whatever fails marks the domain       *)
(* incomplete.  A compartment stands for one approved compartment in one   *)
(* region.  What image an instance runs, and attachments that have no VNIC *)
(* yet, are left out; private addresses last as long as their VNIC.        *)
(***************************************************************************)
EXTENDS Naturals, FiniteSets

CONSTANTS
  Instance,
  Vnic,
  InstanceOf,       \* the instance each VNIC is attached to
  Private, Ipv6,    \* addresses by kind
  VnicOf,           \* the VNIC of each address
  Compartments,     \* number of approved compartments
  MaxWorkers,       \* _PER_ATTACHMENT_CONCURRENCY
  MaxChanges,       \* bound: changes of the tenancy during the run
  MaxFaults         \* bound: calls that fail for good, retries included

Address == Private \cup Ipv6
Compartment == 1..Compartments

ASSUME TenancyAssumption ==
  /\ Private \cap Ipv6 = {}
  /\ InstanceOf \in [Vnic -> Instance]
  /\ VnicOf \in [Address -> Vnic]
  /\ IsFiniteSet(Vnic)
ASSUME BoundAssumption ==
  /\ Compartments \in Nat \ {0} /\ MaxWorkers \in Nat \ {0}
  /\ MaxChanges \in Nat /\ MaxFaults \in Nat

VARIABLES
  \* OCI's side:
  life,        \* lifecycle of each instance
  home,        \* the compartment it and its attachments are in
  attachment,  \* state of each VNIC's attachment; the VNIC exists while attached
  public,      \* addresses on the internet: private ones with a public IP, global IPv6 ones
  \* the collector's:
  phase,       \* what it is doing in the compartment at hand
  at,          \* that compartment
  worker,      \* what each VNIC's worker does next
  found,       \* what the workers hold, not yet merged
  checked,     \* private addresses whose public address they have asked for
  result,      \* ComputeCollectionResult
  complete,    \* no operation has failed
  \* what happened since it started:
  been,        \* addresses that were public, and addresses that were not
  attached,    \* VNICs attached at some moment, and VNICs attached at every moment
  changes, faults

tenancy == <<life, home, attachment, public, been, attached, changes>>
collector == <<phase, at, worker, found, checked, result, complete, faults>>
vars == <<tenancy, collector>>

Nothing == [vnics |-> {}, private_ips |-> {}, ipv6s |-> {}, public_ips |-> {}]

Steps == {"none", "queued", "list_private_ips", "list_ipv6s", "get_public_ip", "returned"}

AddressesOf(v) == {a \in Address : VnicOf[a] = v}
Exists(v) == attachment[v] = "attached"

Attached == {v \in Vnic : Exists(v)}

Init ==
  /\ life \in [Instance -> {"running", "terminated"}]
  /\ home \in [Instance -> Compartment]
  /\ attachment \in [Vnic -> {"none", "attached", "detached"}]
  /\ public \in SUBSET {a \in Address : Exists(VnicOf[a])}
  /\ phase = "list_instances" /\ at = 1
  /\ worker = [v \in Vnic |-> "none"]
  /\ found = Nothing /\ checked = {}
  /\ result = [instances |-> {}, attachments |-> {}, data |-> Nothing]
  /\ complete = TRUE
  /\ been = [public |-> public, private |-> Address \ public]
  /\ attached = [ever |-> Attached, throughout |-> Attached]
  /\ changes = 0 /\ faults = 0

-----------------------------------------------------------------------------
(* Calls.                                                                   *)

Succeeds == UNCHANGED <<complete, faults>>

Fault == faults < MaxFaults /\ faults' = faults + 1 /\ complete' = FALSE

\* OCI knows no such resource.
NotFound == complete' = FALSE /\ UNCHANGED faults

\* A listing returns what is there, or fails and keeps the pages it has read.
Lists(there, S) ==
  \/ S = there /\ Succeeds
  \/ S \in SUBSET there /\ Fault

-----------------------------------------------------------------------------
(* collect_compute.                                                         *)

InstancesIn(c) == {i \in Instance : home[i] = c /\ life[i] # "purged"}

list_instances ==
  /\ phase = "list_instances"
  /\ \E S \in SUBSET InstancesIn(at) :
       /\ Lists(InstancesIn(at), S)
       /\ result' = [result EXCEPT !.instances = @ \cup {<<i, life[i]>> : i \in S}]
  /\ phase' = "get_image"
  /\ UNCHANGED <<tenancy, at, worker, found, checked>>

\* An image that cannot be had leaves the classification of its instances unknown.
get_image ==
  /\ phase = "get_image"
  /\ Succeeds \/ (result.instances # {} /\ Fault)
  /\ phase' = "list_vnic_attachments"
  /\ UNCHANGED <<tenancy, at, worker, found, checked, result>>

AttachmentsIn(c) ==
  {v \in Vnic : home[InstanceOf[v]] = c /\ attachment[v] \in {"attached", "detached"}}

list_vnic_attachments ==
  /\ phase = "list_vnic_attachments"
  /\ \E S \in SUBSET AttachmentsIn(at) :
       /\ Lists(AttachmentsIn(at), S)
       /\ result' = [result EXCEPT !.attachments = @ \cup S]
       /\ worker' = [v \in Vnic |-> IF v \in S THEN "queued" ELSE "none"]
  /\ phase' = "run_concurrently"
  /\ UNCHANGED <<tenancy, at, found, checked>>

Busy == {v \in Vnic : worker[v] \notin {"none", "queued", "returned"}}

\* The pool takes work whatever is under way.
NeverFull == FALSE

PoolFull == Cardinality(Busy) >= MaxWorkers

\* A worker takes up an attachment; a VNIC of an earlier compartment is not asked for again.
get_vnic(v) ==
  /\ phase = "run_concurrently" /\ worker[v] = "queued" /\ ~PoolFull
  /\ \/ v \in result.data.vnics /\ Succeeds /\ UNCHANGED found
     \/ /\ v \notin result.data.vnics
        /\ \/ Exists(v) /\ Succeeds /\ found' = [found EXCEPT !.vnics = @ \cup {v}]
           \/ (Fault \/ (~Exists(v) /\ NotFound)) /\ UNCHANGED found
  /\ worker' = [worker EXCEPT ![v] = "list_private_ips"]
  /\ UNCHANGED <<tenancy, phase, at, checked, result>>

\* Of a VNIC that is gone OCI lists nothing, or answers that it is not found.
ListsOf(v, there, S) ==
  \/ Exists(v) /\ Lists(there, S)
  \/ ~Exists(v) /\ S = {} /\ (Succeeds \/ NotFound)

list_private_ips(v) ==
  /\ worker[v] = "list_private_ips"
  /\ \E S \in SUBSET (AddressesOf(v) \cap Private) :
       /\ ListsOf(v, AddressesOf(v) \cap Private, S)
       /\ found' = [found EXCEPT !.private_ips = @ \cup S]
  /\ worker' = [worker EXCEPT ![v] = "list_ipv6s"]
  /\ UNCHANGED <<tenancy, phase, at, checked, result>>

ToCheck(v) == (found.private_ips \cap AddressesOf(v)) \ checked

\* With no address left to look up the worker returns.
LookUp(v, rest) ==
  worker' = [worker EXCEPT ![v] = IF rest = {} THEN "returned" ELSE "get_public_ip"]

\* Only the available, global ones count.
list_ipv6s(v) ==
  /\ worker[v] = "list_ipv6s"
  /\ \E S \in SUBSET (AddressesOf(v) \cap Ipv6 \cap public) :
       /\ ListsOf(v, AddressesOf(v) \cap Ipv6 \cap public, S)
       /\ found' = [found EXCEPT !.ipv6s = @ \cup S]
  /\ LookUp(v, ToCheck(v))
  /\ UNCHANGED <<tenancy, phase, at, checked, result>>

\* Every failed lookup counts as no public address, not only a 404.
FailureMeansNone == faults < MaxFaults /\ faults' = faults + 1 /\ UNCHANGED complete

LookupFails == Fault

\* _lookup_public_ip; that there is none is an answer, not a failure.
get_public_ip(v) ==
  /\ worker[v] = "get_public_ip"
  /\ \E a \in ToCheck(v) :
       /\ checked' = checked \cup {a}
       /\ \/ found' = [found EXCEPT !.public_ips = @ \cup ({a} \cap public)] /\ Succeeds
          \/ LookupFails /\ UNCHANGED found
       /\ LookUp(v, ToCheck(v) \ {a})
  /\ UNCHANGED <<tenancy, phase, at, result>>

\* The collector's thread adds what the workers returned, when all have, and goes on to
\* the next compartment.
Merge ==
  /\ phase = "run_concurrently"
  /\ \A v \in Vnic : worker[v] \in {"none", "returned"}
  /\ result' = [result EXCEPT !.data = [k \in DOMAIN Nothing |-> @[k] \cup found[k]]]
  /\ found' = Nothing /\ checked' = {}
  /\ worker' = [v \in Vnic |-> "none"]
  /\ IF at < Compartments THEN at' = at + 1 /\ phase' = "list_instances"
                          ELSE phase' = "done" /\ UNCHANGED at
  /\ UNCHANGED <<tenancy, complete, faults>>

-----------------------------------------------------------------------------
(* build_flat_records: the joins.                                           *)

\* split_by_lifecycle.
kept_instances == {i \in Instance : <<i, "running">> \in result.instances}
excluded_instances == {i \in Instance : <<i, "terminated">> \in result.instances}

\* The attachments of excluded instances stay.
AllAttachments == result.attachments

\* exclude_referencing.
vnic_attachments == {v \in result.attachments : InstanceOf[v] \notin excluded_instances}

\* resolve_instance_vnics.
unresolved_attachments == {v \in vnic_attachments : InstanceOf[v] \notin kept_instances}

vnic_ids(i) == {v \in vnic_attachments : InstanceOf[v] = i}

\* resolve_vnic_addresses.
unresolved_vnic ==
  {a \in result.data.private_ips \cup result.data.ipv6s : VnicOf[a] \notin result.data.vnics}

\* The public addresses found, of whatever VNIC.
AnyPublicAddress(v) == result.data.public_ips \cup result.data.ipv6s

public_addresses(v) ==
  {a \in (result.data.private_ips \cap result.data.public_ips) \cup result.data.ipv6s :
     VnicOf[a] = v}

\* _derive_public_ingress_one.
has_public_address(i) ==
  IF vnic_ids(i) = {} \/ ~(vnic_ids(i) \subseteq result.data.vnics) THEN "null"
  ELSE IF \E v \in vnic_ids(i) : public_addresses(v) # {} THEN "yes"
  ELSE "no"

\* _gate: the instances whose records may be uploaded, and those that may be deleted.
deliverable == phase = "done" /\ complete /\ unresolved_attachments = {} /\ unresolved_vnic = {}

-----------------------------------------------------------------------------
(* The tenancy.                                                             *)

Become(l, h, s, p) ==
  /\ phase # "done" /\ changes < MaxChanges /\ changes' = changes + 1
  /\ life' = l /\ home' = h /\ attachment' = s /\ public' = p
  /\ been' = [public |-> been.public \cup p, private |-> been.private \cup (Address \ p)]
  /\ LET now == {v \in Vnic : s[v] = "attached"} IN
       attached' = [ever |-> attached.ever \cup now, throughout |-> attached.throughout \cap now]
  /\ UNCHANGED collector

Terminate(i) ==
  life[i] = "running" /\ Become([life EXCEPT ![i] = "terminated"], home, attachment, public)

\* A terminated instance is listed for a while only, its attachments for another.
PurgeInstance(i) ==
  /\ life[i] = "terminated" /\ \A v \in Attached : InstanceOf[v] # i
  /\ Become([life EXCEPT ![i] = "purged"], home, attachment, public)

Move(i, c) ==
  /\ life[i] = "running" /\ c # home[i]
  /\ Become(life, [home EXCEPT ![i] = c], attachment, public)

Attach(v) ==
  /\ attachment[v] = "none" /\ life[InstanceOf[v]] = "running"
  /\ Become(life, home, [attachment EXCEPT ![v] = "attached"], public)

Detach(v) ==
  /\ Exists(v)
  /\ Become(life, home, [attachment EXCEPT ![v] = "detached"], public \ AddressesOf(v))

PurgeAttachment(v) ==
  attachment[v] = "detached" /\ Become(life, home, [attachment EXCEPT ![v] = "purged"], public)

\* An address becomes public, or no longer is, or hands its public address to another.
Readdress(lose, gain) ==
  /\ lose \subseteq public /\ gain \cap public = {} /\ lose \cup gain # {}
  /\ \A a \in gain : Exists(VnicOf[a])
  /\ Become(life, home, attachment, (public \ lose) \cup gain)

AtMostOne == {{}} \cup {{a} : a \in Address}

Tenancy ==
  \/ \E i \in Instance :
       Terminate(i) \/ PurgeInstance(i) \/ \E c \in Compartment : Move(i, c)
  \/ \E v \in Vnic : Attach(v) \/ Detach(v) \/ PurgeAttachment(v)
  \/ \E lose, gain \in AtMostOne : Readdress(lose, gain)

Worker(v) == get_vnic(v) \/ list_private_ips(v) \/ list_ipv6s(v) \/ get_public_ip(v)

Collect ==
  list_instances \/ get_image \/ list_vnic_attachments \/ (\E v \in Vnic : Worker(v)) \/ Merge

Done == phase = "done" /\ UNCHANGED vars

Next == Collect \/ Tenancy \/ Done

Spec == Init /\ [][Next]_vars

-----------------------------------------------------------------------------
(* Properties.                                                              *)

TypeOK ==
  /\ life \in [Instance -> {"running", "terminated", "purged"}]
  /\ home \in [Instance -> Compartment]
  /\ attachment \in [Vnic -> {"none", "attached", "detached", "purged"}]
  /\ public \subseteq {a \in Address : Exists(VnicOf[a])}
  /\ phase \in {"list_instances", "get_image", "list_vnic_attachments", "run_concurrently", "done"}
  /\ at \in Compartment
  /\ worker \in [Vnic -> Steps] /\ Cardinality(Busy) <= MaxWorkers
  /\ result.instances \subseteq Instance \X {"running", "terminated"}
  /\ result.attachments \subseteq Vnic
  /\ \A t \in {found, result.data} :
       /\ t.vnics \subseteq Vnic /\ t.ipv6s \subseteq Ipv6
       /\ t.private_ips \subseteq Private /\ t.public_ips \subseteq t.private_ips
  /\ complete \in BOOLEAN
  /\ faults \in 0..MaxFaults /\ changes \in 0..MaxChanges

\* "No public address" is never uploaded of an instance with an address that was
\* public from the start of the collection to its end, on a VNIC it never lost.
NoIsSeen ==
  deliverable =>
    \A i \in kept_instances : has_public_address(i) = "no" =>
      \A v \in attached.throughout : InstanceOf[v] = i => AddressesOf(v) \subseteq been.private

\* "Has a public address" is uploaded only of an instance that had one meanwhile.
YesIsSeen ==
  deliverable =>
    \A i \in kept_instances : has_public_address(i) = "yes" =>
      \E v \in attached.ever : InstanceOf[v] = i /\ AddressesOf(v) \cap been.public # {}

\* A tenancy that stays still, read without a fault, is delivered, and exactly, unless
\* an attachment is listed whose VNIC is gone.
StillIsExact ==
  /\ phase = "done" /\ changes = 0 /\ faults = 0
  /\ \A v \in Vnic : attachment[v] # "detached"
  => /\ deliverable
     /\ kept_instances = {i \in Instance : life[i] = "running"}
     /\ \A i \in kept_instances :
          has_public_address(i) =
            IF \A v \in Attached : InstanceOf[v] # i THEN "null"
            ELSE IF \E a \in public : InstanceOf[VnicOf[a]] = i THEN "yes"
            ELSE "no"

=============================================================================
