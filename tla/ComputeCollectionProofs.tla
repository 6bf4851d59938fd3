----------------------- MODULE ComputeCollectionProofs -----------------------
(***************************************************************************)
(* What the answer to "has a public address" is worth, for every tenancy,  *)
(* any number of workers, of changes of the tenancy meanwhile and of calls *)
(* that fail.                                                              *)
(***************************************************************************)
EXTENDS ComputeCollection, FiniteSetTheorems, TLAPS

USE TenancyAssumption, BoundAssumption

-----------------------------------------------------------------------------
(* The inductive invariant.                                                 *)

Table == [vnics : SUBSET Vnic, private_ips : SUBSET Private, ipv6s : SUBSET Ipv6,
          public_ips : SUBSET Private]

TypeInv ==
  /\ life \in [Instance -> {"running", "terminated", "purged"}]
  /\ home \in [Instance -> Compartment]
  /\ attachment \in [Vnic -> {"none", "attached", "detached", "purged"}]
  /\ public \in SUBSET {a \in Address : Exists(VnicOf[a])}
  /\ phase \in {"list_instances", "get_image", "list_vnic_attachments", "run_concurrently", "done"}
  /\ at \in Compartment
  /\ worker \in [Vnic -> Steps]
  /\ found \in Table /\ checked \in SUBSET Private
  /\ result \in [instances : SUBSET (Instance \X {"running", "terminated"}),
                 attachments : SUBSET Vnic, data : Table]
  /\ complete \in BOOLEAN
  /\ been \in [public : SUBSET Address, private : SUBSET Address]
  /\ attached \in [ever : SUBSET Vnic, throughout : SUBSET Vnic]
  /\ faults \in 0..MaxFaults /\ changes \in 0..MaxChanges

\* The workers hold a public address only for an address they hold.
TablesInv == \A t \in {found, result.data} : t.public_ips \subseteq t.private_ips

PoolInv == Cardinality(Busy) <= MaxWorkers

\* What is recorded of the past holds of the present.
PastInv ==
  /\ public \subseteq been.public /\ Address \ public \subseteq been.private
  /\ Attached \subseteq attached.ever /\ attached.throughout \subseteq Attached

\* Nothing was found that was not there.
SeenInv ==
  \A t \in {found, result.data} :
    t.vnics \subseteq attached.ever /\ t.public_ips \cup t.ipv6s \subseteq been.public

\* Between two compartments the workers are idle and what they found is merged.
IdleInv ==
  phase # "run_concurrently" =>
    found = Nothing /\ checked = {} /\ worker = [v \in Vnic |-> "none"]

\* As long as nothing failed: of an instance all lasting VNICs are listed, or none; and
\* what was public all along of a lasting VNIC has been found as far as its worker got.
Lasting(v) == AddressesOf(v) \ been.private

NothingMissed ==
  /\ \A v \in attached.throughout, u \in result.attachments :
       InstanceOf[v] = InstanceOf[u] => v \in result.attachments
  /\ \A a \in checked : a \in been.private \/ a \in found.public_ips
  /\ \A v \in attached.throughout :
       /\ worker[v] \in {"list_ipv6s", "get_public_ip", "returned"} =>
            AddressesOf(v) \cap Private \subseteq found.private_ips
       /\ worker[v] \in {"get_public_ip", "returned"} =>
            Lasting(v) \cap Ipv6 \subseteq found.ipv6s
       /\ worker[v] = "returned" => ToCheck(v) = {}
       /\ v \in result.attachments /\ worker[v] = "none" =>
            Lasting(v) \subseteq
              (result.data.private_ips \cap result.data.public_ips) \cup result.data.ipv6s

CompleteInv == complete => NothingMissed

IInv == TypeInv /\ TablesInv /\ PoolInv /\ PastInv /\ SeenInv /\ IdleInv /\ CompleteInv

\* Nothing was found before the first call.
LEMMA InitKeeps == Init => IInv
<1> SUFFICES ASSUME Init
             PROVE  IInv
  OBVIOUS
<1>1. Busy = {} /\ Cardinality(Busy) = 0
  <2>1. Busy = {}
    BY DEF Init, Busy
  <2> QED
    BY <2>1, FS_EmptySet
<1>2. TypeInv
  BY DEF Init, TypeInv, Steps, Table, Nothing, Attached, Compartment
<1>3. TablesInv /\ PastInv /\ SeenInv /\ IdleInv
  BY DEF Init, TablesInv, PastInv, SeenInv, IdleInv, Nothing
<1>4. NothingMissed
  <2>1. result.attachments = {} /\ checked = {} /\ attached.throughout \subseteq Vnic
    BY DEF Init, Attached
  <2>2. \A v \in Vnic : worker[v] = "none"
    BY DEF Init
  <2> QED
    BY <2>1, <2>2 DEF NothingMissed
<1> QED
  BY <1>1, <1>2, <1>3, <1>4 DEF IInv, PoolInv, CompleteInv

-----------------------------------------------------------------------------
(* The tenancy's steps.                                                     *)

\* Whatever the tenancy becomes, the past is recorded and nothing found is lost.
LEMMA BecomeKeeps ==
  ASSUME IInv,
         NEW l \in [Instance -> {"running", "terminated", "purged"}],
         NEW h \in [Instance -> Compartment],
         NEW s \in [Vnic -> {"none", "attached", "detached", "purged"}],
         NEW p \in SUBSET {a \in Address : s[VnicOf[a]] = "attached"},
         Become(l, h, s, p)
  PROVE  IInv'
<1>1. /\ UNCHANGED <<phase, at, worker, found, checked, result, complete, faults>>
      /\ life' = l /\ home' = h /\ attachment' = s /\ public' = p
      /\ changes < MaxChanges /\ changes' = changes + 1
      /\ been' = [public |-> been.public \cup p, private |-> been.private \cup (Address \ p)]
      /\ attached' = [ever |-> attached.ever \cup {v \in Vnic : s[v] = "attached"},
                      throughout |-> attached.throughout \cap {v \in Vnic : s[v] = "attached"}]
  BY DEF Become, collector
<1>2. TypeInv'
  <2>1. been' \in [public : SUBSET Address, private : SUBSET Address]
    BY <1>1 DEF IInv, TypeInv
  <2>2. attached' \in [ever : SUBSET Vnic, throughout : SUBSET Vnic]
    BY <1>1 DEF IInv, TypeInv
  <2>3. public' \in SUBSET {a \in Address : Exists(VnicOf[a])'}
    BY <1>1 DEF Exists
  <2>4. changes' \in 0..MaxChanges
    BY <1>1 DEF IInv, TypeInv
  <2> QED
    BY <1>1, <2>1, <2>2, <2>3, <2>4 DEF IInv, TypeInv
<1>3. TablesInv' /\ PoolInv' /\ IdleInv'
  BY <1>1 DEF IInv, TablesInv, PoolInv, IdleInv, Busy
<1>4. PastInv'
  BY <1>1 DEF IInv, PastInv, Attached, Exists
<1>5. SeenInv'
  BY <1>1 DEF IInv, SeenInv
<1>6. CompleteInv'
  <2> SUFFICES ASSUME complete
               PROVE  NothingMissed'
    BY <1>1 DEF CompleteInv
  <2>1. NothingMissed
    BY DEF IInv, CompleteInv
  <2>2. attached'.throughout \subseteq attached.throughout /\ been.private \subseteq been'.private
    BY <1>1
  <2>3. \A v : Lasting(v)' \subseteq Lasting(v) /\ ToCheck(v)' = ToCheck(v)
    BY <1>1, <2>2 DEF Lasting, ToCheck, AddressesOf
  <2> QED
    BY <1>1, <2>1, <2>2, <2>3 DEF NothingMissed
<1> QED
  BY <1>2, <1>3, <1>4, <1>5, <1>6 DEF IInv

\* An address is public only while its VNIC exists.
LEMMA TenancyKeeps == IInv /\ Tenancy => IInv'
<1> SUFFICES ASSUME IInv, Tenancy
             PROVE  IInv'
  OBVIOUS
<1> USE DEF IInv, TypeInv
<1>0. public \in SUBSET {a \in Address : attachment[VnicOf[a]] = "attached"}
  BY DEF Exists
<1>1. ASSUME NEW i \in Instance, Terminate(i)
      PROVE  IInv'
  <2>1. [life EXCEPT ![i] = "terminated"] \in [Instance -> {"running", "terminated", "purged"}]
    OBVIOUS
  <2> QED
    BY <1>0, <1>1, <2>1, BecomeKeeps DEF Terminate
<1>2. ASSUME NEW i \in Instance, PurgeInstance(i)
      PROVE  IInv'
  <2>1. [life EXCEPT ![i] = "purged"] \in [Instance -> {"running", "terminated", "purged"}]
    OBVIOUS
  <2> QED
    BY <1>0, <1>2, <2>1, BecomeKeeps DEF PurgeInstance
<1>3. ASSUME NEW i \in Instance, NEW c \in Compartment, Move(i, c)
      PROVE  IInv'
  <2>1. [home EXCEPT ![i] = c] \in [Instance -> Compartment]
    OBVIOUS
  <2> QED
    BY <1>0, <1>3, <2>1, BecomeKeeps DEF Move
<1>4. ASSUME NEW v \in Vnic, Attach(v)
      PROVE  IInv'
  <2> DEFINE s == [attachment EXCEPT ![v] = "attached"]
  <2>1. /\ s \in [Vnic -> {"none", "attached", "detached", "purged"}]
        /\ public \in SUBSET {a \in Address : s[VnicOf[a]] = "attached"}
    BY <1>0
  <2>2. Become(life, home, s, public)
    BY <1>4 DEF Attach
  <2> HIDE DEF s
  <2> QED
    BY <2>1, <2>2, BecomeKeeps
<1>5. ASSUME NEW v \in Vnic, Detach(v)
      PROVE  IInv'
  <2> DEFINE s == [attachment EXCEPT ![v] = "detached"]
             p == public \ AddressesOf(v)
  <2>1. /\ s \in [Vnic -> {"none", "attached", "detached", "purged"}]
        /\ p \in SUBSET {a \in Address : s[VnicOf[a]] = "attached"}
    BY <1>0 DEF AddressesOf
  <2>2. Become(life, home, s, p)
    BY <1>5 DEF Detach
  <2> HIDE DEF s, p
  <2> QED
    BY <2>1, <2>2, BecomeKeeps
<1>6. ASSUME NEW v \in Vnic, PurgeAttachment(v)
      PROVE  IInv'
  <2> DEFINE s == [attachment EXCEPT ![v] = "purged"]
  <2>1. /\ s \in [Vnic -> {"none", "attached", "detached", "purged"}]
        /\ public \in SUBSET {a \in Address : s[VnicOf[a]] = "attached"}
    BY <1>0, <1>6 DEF PurgeAttachment
  <2>2. Become(life, home, s, public)
    BY <1>6 DEF PurgeAttachment
  <2> HIDE DEF s
  <2> QED
    BY <2>1, <2>2, BecomeKeeps
<1>7. ASSUME NEW lose \in AtMostOne, NEW gain \in AtMostOne, Readdress(lose, gain)
      PROVE  IInv'
  <2> DEFINE p == (public \ lose) \cup gain
  <2>1. gain \subseteq Address /\ \A a \in gain : attachment[VnicOf[a]] = "attached"
    BY <1>7 DEF Readdress, AtMostOne, Exists
  <2>2. p \in SUBSET {a \in Address : attachment[VnicOf[a]] = "attached"}
    BY <1>0, <2>1
  <2>3. Become(life, home, attachment, p)
    BY <1>7 DEF Readdress
  <2> HIDE DEF p
  <2> QED
    BY <2>2, <2>3, BecomeKeeps
<1> QED
  BY <1>1, <1>2, <1>3, <1>4, <1>5, <1>6, <1>7 DEF Tenancy

-----------------------------------------------------------------------------
(* The collector's steps.                                                   *)

\* A call that succeeds or fails keeps the count of faults and the verdict well-formed;
\* the domain is never complete again.
LEMMA CallTypes ==
  ASSUME IInv, Succeeds \/ Fault \/ NotFound
  PROVE  complete' \in BOOLEAN /\ faults' \in 0..MaxFaults /\ (complete' => complete)
<1>1. CASE Succeeds
  BY <1>1 DEF IInv, TypeInv, Succeeds
<1>2. CASE Fault
  <2>1. faults \in 0..MaxFaults /\ faults < MaxFaults /\ faults' = faults + 1
    BY <1>2 DEF IInv, TypeInv, Fault
  <2>2. faults' \in 0..MaxFaults
    BY <2>1
  <2>3. complete' = FALSE
    BY <1>2 DEF Fault
  <2> QED
    BY <2>2, <2>3
<1>3. CASE NotFound
  <2>1. complete' = FALSE /\ faults' \in 0..MaxFaults
    BY <1>3 DEF IInv, TypeInv, NotFound
  <2> QED
    BY <2>1
<1> QED
  BY <1>1, <1>2, <1>3

\* A call that failed leaves the domain incomplete.
LEMMA CompleteMeansSucceeded ==
  ASSUME Succeeds \/ Fault \/ NotFound, complete'
  PROVE  Succeeds
BY DEF Succeeds, Fault, NotFound

\* The steps of the collector leave what is recorded of the tenancy.
LEMMA PastKeeps == IInv /\ UNCHANGED tenancy => PastInv'
BY DEF IInv, PastInv, tenancy, Attached, Exists

\* Listing instances or their images touches nothing the invariant says of VNICs.
LEMMA InstancesKeep == IInv /\ (list_instances \/ get_image) => IInv'
<1> SUFFICES ASSUME IInv, list_instances \/ get_image
             PROVE  IInv'
  OBVIOUS
<1>1. /\ UNCHANGED <<tenancy, at, worker, found, checked>>
      /\ Succeeds \/ Fault \/ NotFound
      /\ phase # "run_concurrently"
      /\ phase' \in {"get_image", "list_vnic_attachments"}
  BY DEF list_instances, get_image, Lists
<1>2. /\ result' \in [instances : SUBSET (Instance \X {"running", "terminated"}),
                      attachments : SUBSET Vnic, data : Table]
      /\ result'.attachments = result.attachments /\ result'.data = result.data
  <2>1. CASE list_instances
    <3>1. PICK S \in SUBSET InstancesIn(at) :
            result' = [result EXCEPT !.instances = @ \cup {<<i, life[i]>> : i \in S}]
      BY <2>1 DEF list_instances
    <3>2. {<<i, life[i]>> : i \in S} \subseteq Instance \X {"running", "terminated"}
      BY DEF IInv, TypeInv, InstancesIn
    <3> QED
      BY <3>1, <3>2 DEF IInv, TypeInv
  <2>2. CASE get_image
    BY <2>2 DEF get_image, IInv, TypeInv
  <2> QED
    BY <2>1, <2>2
<1>3. complete' \in BOOLEAN /\ faults' \in 0..MaxFaults /\ (complete' => complete)
  BY <1>1, CallTypes
<1>4. TypeInv'
  BY <1>1, <1>2, <1>3 DEF IInv, TypeInv, tenancy, Exists
<1>5. TablesInv' /\ PoolInv' /\ SeenInv' /\ IdleInv'
  BY <1>1, <1>2 DEF IInv, TablesInv, PoolInv, SeenInv, IdleInv, Busy, tenancy
<1>6. CompleteInv'
  <2> SUFFICES ASSUME complete'
               PROVE  NothingMissed'
    BY DEF CompleteInv
  <2>1. NothingMissed
    BY <1>3 DEF IInv, CompleteInv
  <2> QED
    BY <1>1, <1>2, <2>1 DEF NothingMissed, Lasting, ToCheck, AddressesOf, tenancy
<1> QED
  BY <1>1, <1>4, <1>5, <1>6, PastKeeps DEF IInv

\* A listing of attachments that succeeds has all of those that last of each instance
\* it names; they are queued, and the workers have found nothing yet.
LEMMA AttachmentsKeep == IInv /\ list_vnic_attachments => IInv'
<1> SUFFICES ASSUME IInv, list_vnic_attachments
             PROVE  IInv'
  OBVIOUS
<1>1. PICK S \in SUBSET AttachmentsIn(at) :
        /\ Lists(AttachmentsIn(at), S)
        /\ result' = [result EXCEPT !.attachments = @ \cup S]
        /\ worker' = [v \in Vnic |-> IF v \in S THEN "queued" ELSE "none"]
  BY DEF list_vnic_attachments
<1>2. /\ UNCHANGED <<tenancy, at, found, checked>>
      /\ phase = "list_vnic_attachments" /\ phase' = "run_concurrently"
      /\ Succeeds \/ Fault \/ NotFound
  BY <1>1 DEF list_vnic_attachments, Lists
<1>3. S \subseteq Vnic
  BY DEF AttachmentsIn
<1>4. /\ result' \in [instances : SUBSET (Instance \X {"running", "terminated"}),
                      attachments : SUBSET Vnic, data : Table]
      /\ result'.attachments = result.attachments \cup S /\ result'.data = result.data
  BY <1>1, <1>3 DEF IInv, TypeInv
<1>5. complete' \in BOOLEAN /\ faults' \in 0..MaxFaults /\ (complete' => complete)
  BY <1>2, CallTypes
<1>6. TypeInv'
  <2>1. worker' \in [Vnic -> Steps]
    BY <1>1 DEF Steps
  <2> QED
    BY <1>2, <1>4, <1>5, <2>1 DEF IInv, TypeInv, tenancy, Exists
<1>7. TablesInv' /\ SeenInv' /\ IdleInv'
  BY <1>2, <1>4 DEF IInv, TablesInv, SeenInv, IdleInv, tenancy
<1>8. PoolInv'
  <2>1. Busy' = {}
    BY <1>1 DEF Busy
  <2> QED
    BY <2>1, FS_EmptySet DEF PoolInv, BoundAssumption
<1>9. CompleteInv'
  <2> SUFFICES ASSUME complete'
               PROVE  NothingMissed'
    BY DEF CompleteInv
  <2>1. NothingMissed /\ S = AttachmentsIn(at)
    BY <1>1, <1>2, <1>5, CompleteMeansSucceeded DEF IInv, CompleteInv, Lists, Succeeds, Fault
  <2>2. found = Nothing /\ checked = {} /\ \A v \in Vnic : worker[v] = "none"
    BY <1>2 DEF IInv, IdleInv
  <2>3. \A v \in attached.throughout : v \in Vnic /\ attachment[v] = "attached"
    BY DEF IInv, PastInv, Attached, Exists
  <2>4. \A v \in attached.throughout, u \in S : InstanceOf[v] = InstanceOf[u] => v \in S
    BY <2>1, <2>3 DEF AttachmentsIn
  <2>5. UNCHANGED <<attached, been>> /\ \A v : Lasting(v)' = Lasting(v)
    BY <1>2 DEF tenancy, Lasting, AddressesOf
  <2>6. \A v \in attached.throughout, u \in result'.attachments :
          InstanceOf[v] = InstanceOf[u] => v \in result'.attachments
    BY <1>4, <2>1, <2>4 DEF NothingMissed
  <2>7. \A v \in Vnic : worker'[v] \in {"none", "queued"} /\ (worker'[v] = "none" => v \notin S)
    BY <1>1
  <2> QED
    BY <1>2, <1>4, <2>1, <2>2, <2>3, <2>5, <2>6, <2>7 DEF NothingMissed
<1> QED
  BY <1>2, <1>6, <1>7, <1>8, <1>9, PastKeeps DEF IInv

\* A worker takes up an attachment: it adds its VNIC, if that is new and still there.
LEMMA VnicKeeps == ASSUME IInv, NEW v \in Vnic, get_vnic(v) PROVE IInv'
<1>1. /\ UNCHANGED <<tenancy, phase, at, checked, result>>
      /\ phase = "run_concurrently" /\ worker[v] = "queued" /\ ~PoolFull
      /\ worker' = [worker EXCEPT ![v] = "list_private_ips"]
      /\ Succeeds \/ Fault \/ NotFound
      /\ \/ UNCHANGED found
         \/ Exists(v) /\ found' = [found EXCEPT !.vnics = @ \cup {v}]
  BY DEF get_vnic
<1>2. complete' \in BOOLEAN /\ faults' \in 0..MaxFaults /\ (complete' => complete)
  BY <1>1, CallTypes
<1>3. /\ found' \in Table /\ found.vnics \subseteq found'.vnics
      /\ found'.vnics \subseteq found.vnics \cup (Attached \cap {v})
      /\ found'.private_ips = found.private_ips /\ found'.public_ips = found.public_ips
      /\ found'.ipv6s = found.ipv6s
  BY <1>1 DEF IInv, TypeInv, Table, Attached
<1>4. TypeInv'
  <2>1. worker' \in [Vnic -> Steps]
    BY <1>1 DEF IInv, TypeInv, Steps
  <2> QED
    BY <1>1, <1>2, <1>3, <2>1 DEF IInv, TypeInv, tenancy, Exists
<1>5. TablesInv' /\ IdleInv'
  BY <1>1, <1>3 DEF IInv, TablesInv, IdleInv
<1>6. SeenInv'
  BY <1>1, <1>3 DEF IInv, SeenInv, PastInv, tenancy
<1>7. PoolInv'
  <2>1. Busy \subseteq Vnic /\ v \notin Busy /\ Busy' \subseteq Busy \cup {v}
    BY <1>1 DEF IInv, TypeInv, Busy
  <2>2. IsFiniteSet(Busy) /\ IsFiniteSet(Busy \cup {v})
    BY <2>1, FS_Subset, FS_AddElement, TenancyAssumption
  <2>3. Cardinality(Busy \cup {v}) = Cardinality(Busy) + 1 /\ Cardinality(Busy) \in Nat
    BY <2>1, <2>2, FS_AddElement, FS_CardinalityType
  <2>4. Cardinality(Busy') <= Cardinality(Busy \cup {v}) /\ Cardinality(Busy') \in Nat
    BY <2>1, <2>2, FS_Subset, FS_CardinalityType
  <2>5. Cardinality(Busy) < MaxWorkers
    BY <1>1, <2>3 DEF PoolFull, BoundAssumption
  <2> QED
    BY <2>3, <2>4, <2>5 DEF PoolInv, BoundAssumption
<1>8. CompleteInv'
  <2> SUFFICES ASSUME complete'
               PROVE  NothingMissed'
    BY DEF CompleteInv
  <2>1. NothingMissed
    BY <1>2 DEF IInv, CompleteInv
  <2>2. UNCHANGED <<attached, been>> /\ \A u : Lasting(u)' = Lasting(u)
    BY <1>1 DEF tenancy, Lasting, AddressesOf
  <2>3. \A u \in attached.throughout : u \in Vnic
    BY DEF IInv, TypeInv
  <2>4. \A u \in Vnic : worker'[u] = worker[u] \/ worker'[u] = "list_private_ips"
    BY <1>1 DEF IInv, TypeInv
  <2>5. \A u : ToCheck(u)' = ToCheck(u)
    BY <1>1, <1>3 DEF ToCheck, AddressesOf
  <2> QED
    BY <1>1, <1>3, <2>1, <2>2, <2>3, <2>4, <2>5 DEF NothingMissed
<1> QED
  BY <1>1, <1>4, <1>5, <1>6, <1>7, <1>8, PastKeeps DEF IInv

\* The other steps of a worker keep the pool within its bound.
LEMMA WorkerStays ==
  ASSUME IInv, NEW v \in Vnic, NEW s \in Steps, v \in Busy,
         worker' = [worker EXCEPT ![v] = s]
  PROVE  PoolInv' /\ worker' \in [Vnic -> Steps]
<1>1. worker' \in [Vnic -> Steps]
  BY DEF IInv, TypeInv
<1>2. Busy' \subseteq Busy /\ Busy \subseteq Vnic
  BY DEF IInv, TypeInv, Busy
<1>3. IsFiniteSet(Busy)
  BY <1>2, FS_Subset, TenancyAssumption
<1>4. Cardinality(Busy') <= Cardinality(Busy)
  BY <1>2, <1>3, FS_Subset
<1>5. Cardinality(Busy) \in Nat /\ Cardinality(Busy') \in Nat
  BY <1>2, <1>3, FS_Subset, FS_CardinalityType
<1> QED
  BY <1>1, <1>4, <1>5 DEF IInv, PoolInv, BoundAssumption

\* A listing of private addresses that succeeds has all of a VNIC that lasts.
LEMMA PrivateKeeps == ASSUME IInv, NEW v \in Vnic, list_private_ips(v) PROVE IInv'
<1>1. PICK S \in SUBSET (AddressesOf(v) \cap Private) :
        /\ ListsOf(v, AddressesOf(v) \cap Private, S)
        /\ found' = [found EXCEPT !.private_ips = @ \cup S]
  BY DEF list_private_ips
<1>2. /\ UNCHANGED <<tenancy, phase, at, checked, result>>
      /\ worker[v] = "list_private_ips"
      /\ worker' = [worker EXCEPT ![v] = "list_ipv6s"]
      /\ Succeeds \/ Fault \/ NotFound
  BY <1>1 DEF list_private_ips, ListsOf, Lists
<1>3. complete' \in BOOLEAN /\ faults' \in 0..MaxFaults /\ (complete' => complete)
  BY <1>2, CallTypes
<1>4. /\ found' \in Table /\ found'.private_ips = found.private_ips \cup S
      /\ found'.vnics = found.vnics /\ found'.public_ips = found.public_ips
      /\ found'.ipv6s = found.ipv6s
  BY <1>1 DEF IInv, TypeInv, Table
<1>5. worker' \in [Vnic -> Steps] /\ PoolInv'
  BY <1>2, WorkerStays DEF Busy, Steps
<1>6. TypeInv'
  BY <1>2, <1>3, <1>4, <1>5 DEF IInv, TypeInv, tenancy, Exists
<1>7. TablesInv' /\ SeenInv'
  BY <1>2, <1>4 DEF IInv, TablesInv, SeenInv, tenancy
<1>8. IdleInv'
  BY <1>2 DEF IInv, IdleInv
<1>9. CompleteInv'
  <2> SUFFICES ASSUME complete'
               PROVE  NothingMissed'
    BY DEF CompleteInv
  <2>1. NothingMissed /\ Succeeds
    BY <1>2, <1>3, CompleteMeansSucceeded DEF IInv, CompleteInv
  <2>2. UNCHANGED <<attached, been>> /\ \A u : Lasting(u)' = Lasting(u)
    BY <1>2 DEF tenancy, Lasting, AddressesOf
  <2>3. \A u \in attached.throughout : u \in Vnic /\ Exists(u)
    BY DEF IInv, TypeInv, PastInv, Attached
  <2>4. worker'[v] = "list_ipv6s" /\ \A u \in Vnic \ {v} : worker'[u] = worker[u]
    BY <1>2 DEF IInv, TypeInv
  <2>5. \A u \in Vnic \ {v} : ToCheck(u)' = ToCheck(u)
    BY <1>2, <1>4 DEF ToCheck, AddressesOf
  <2>6. v \in attached.throughout => S = AddressesOf(v) \cap Private
    BY <1>1, <2>1, <2>3, CompleteMeansSucceeded DEF ListsOf, Lists, Succeeds, Fault, NotFound, IInv, TypeInv
  <2>7. \A u \in attached.throughout :
          worker'[u] \in {"list_ipv6s", "get_public_ip", "returned"} =>
            AddressesOf(u)' \cap Private \subseteq found'.private_ips
    BY <1>4, <2>1, <2>3, <2>4, <2>6 DEF NothingMissed, AddressesOf
  <2>8. \A u \in attached.throughout : worker'[u] = "returned" => ToCheck(u)' = {}
    BY <2>1, <2>3, <2>4, <2>5 DEF NothingMissed
  <2>9. \A u \in attached.throughout : worker'[u] # worker[u] => u = v
    BY <2>3, <2>4
  <2> QED
    BY <1>2, <1>4, <2>1, <2>2, <2>4, <2>7, <2>8, <2>9 DEF NothingMissed
<1> QED
  BY <1>2, <1>5, <1>6, <1>7, <1>8, <1>9, PastKeeps DEF IInv

\* A listing of IPv6 addresses that succeeds has all that were public throughout.
LEMMA Ipv6Keeps == ASSUME IInv, NEW v \in Vnic, list_ipv6s(v) PROVE IInv'
<1>1. PICK S \in SUBSET (AddressesOf(v) \cap Ipv6 \cap public) :
        /\ ListsOf(v, AddressesOf(v) \cap Ipv6 \cap public, S)
        /\ found' = [found EXCEPT !.ipv6s = @ \cup S]
  BY DEF list_ipv6s
<1>2. /\ UNCHANGED <<tenancy, phase, at, checked, result>>
      /\ worker[v] = "list_ipv6s"
      /\ LookUp(v, ToCheck(v))
      /\ Succeeds \/ Fault \/ NotFound
  BY <1>1 DEF list_ipv6s, ListsOf, Lists
<1>3. complete' \in BOOLEAN /\ faults' \in 0..MaxFaults /\ (complete' => complete)
  BY <1>2, CallTypes
<1>4. /\ found' \in Table /\ found'.ipv6s = found.ipv6s \cup S
      /\ found'.vnics = found.vnics /\ found'.public_ips = found.public_ips
      /\ found'.private_ips = found.private_ips
  BY <1>1 DEF IInv, TypeInv, Table
<1>5. PICK s \in {"get_public_ip", "returned"} :
        /\ worker' = [worker EXCEPT ![v] = s]
        /\ s = "returned" => ToCheck(v) = {}
  BY <1>2 DEF LookUp
<1>6. worker' \in [Vnic -> Steps] /\ PoolInv'
  BY <1>2, <1>5, WorkerStays DEF Busy, Steps
<1>7. TypeInv'
  BY <1>2, <1>3, <1>4, <1>6 DEF IInv, TypeInv, tenancy, Exists
<1>8. TablesInv'
  BY <1>2, <1>4 DEF IInv, TablesInv
<1>9. SeenInv'
  BY <1>2, <1>4 DEF IInv, SeenInv, PastInv, tenancy
<1>10. IdleInv'
  BY <1>2 DEF IInv, IdleInv
<1>11. CompleteInv'
  <2> SUFFICES ASSUME complete'
               PROVE  NothingMissed'
    BY DEF CompleteInv
  <2>1. NothingMissed /\ Succeeds
    BY <1>2, <1>3, CompleteMeansSucceeded DEF IInv, CompleteInv
  <2>2. UNCHANGED <<attached, been>> /\ \A u : Lasting(u)' = Lasting(u)
    BY <1>2 DEF tenancy, Lasting, AddressesOf
  <2>3. \A u \in attached.throughout : u \in Vnic /\ Exists(u)
    BY DEF IInv, TypeInv, PastInv, Attached
  <2>4. worker'[v] \in {"get_public_ip", "returned"} /\ \A u \in Vnic \ {v} : worker'[u] = worker[u]
    BY <1>5 DEF IInv, TypeInv
  <2>5. \A u : ToCheck(u)' = ToCheck(u)
    BY <1>2, <1>4 DEF ToCheck, AddressesOf
  <2>6. v \in attached.throughout => S = AddressesOf(v) \cap Ipv6 \cap public
    BY <1>1, <2>1, <2>3 DEF ListsOf, Lists, Succeeds, Fault, NotFound, IInv, TypeInv
  <2>7. v \in attached.throughout => Lasting(v) \cap Ipv6 \subseteq S
    BY <2>6 DEF Lasting, AddressesOf, IInv, PastInv
  <2>8. \A u \in attached.throughout :
          worker'[u] \in {"get_public_ip", "returned"} => Lasting(u) \cap Ipv6 \subseteq found'.ipv6s
    BY <1>4, <2>1, <2>3, <2>4, <2>7 DEF NothingMissed
  <2>9. \A u \in attached.throughout : worker'[u] = "returned" => ToCheck(u)' = {}
    BY <1>5, <2>1, <2>3, <2>4, <2>5 DEF NothingMissed, IInv, TypeInv
  <2>10. \A u \in attached.throughout :
           worker'[u] \in {"list_ipv6s", "get_public_ip", "returned"} =>
             AddressesOf(u)' \cap Private \subseteq found'.private_ips
    BY <1>2, <1>4, <2>1, <2>3, <2>4 DEF NothingMissed, AddressesOf
  <2>11. \A u \in attached.throughout : worker'[u] = "none" => worker[u] = "none"
    BY <2>3, <2>4
  <2> QED
    BY <1>2, <1>4, <2>1, <2>2, <2>8, <2>9, <2>10, <2>11 DEF NothingMissed
<1> QED
  BY <1>2, <1>6, <1>7, <1>8, <1>9, <1>10, <1>11, PastKeeps DEF IInv

\* A lookup that succeeds finds the public address, or has seen the address without one.
LEMMA PublicKeeps == ASSUME IInv, NEW v \in Vnic, get_public_ip(v) PROVE IInv'
<1>1. PICK a \in ToCheck(v) :
        /\ checked' = checked \cup {a}
        /\ \/ found' = [found EXCEPT !.public_ips = @ \cup ({a} \cap public)] /\ Succeeds
           \/ Fault /\ UNCHANGED found
        /\ LookUp(v, ToCheck(v) \ {a})
  BY DEF get_public_ip, LookupFails
<1>2. /\ UNCHANGED <<tenancy, phase, at, result>>
      /\ worker[v] = "get_public_ip"
      /\ Succeeds \/ Fault \/ NotFound
  BY <1>1 DEF get_public_ip
<1>3. complete' \in BOOLEAN /\ faults' \in 0..MaxFaults /\ (complete' => complete)
  BY <1>2, CallTypes
<1>4. /\ found' \in Table
      /\ found'.public_ips \subseteq found.public_ips \cup ({a} \cap public)
      /\ found.public_ips \subseteq found'.public_ips
      /\ found'.vnics = found.vnics /\ found'.ipv6s = found.ipv6s
      /\ found'.private_ips = found.private_ips
      /\ a \in found.private_ips /\ a \in Private
  BY <1>1 DEF IInv, TypeInv, Table, ToCheck
<1>5. PICK s \in {"get_public_ip", "returned"} :
        /\ worker' = [worker EXCEPT ![v] = s]
        /\ s = "returned" => ToCheck(v) \ {a} = {}
  BY <1>1 DEF LookUp
<1>6. worker' \in [Vnic -> Steps] /\ PoolInv'
  BY <1>2, <1>5, WorkerStays DEF Busy, Steps
<1>7. TypeInv'
  BY <1>1, <1>2, <1>3, <1>4, <1>6 DEF IInv, TypeInv, tenancy, Exists
<1>8. TablesInv'
  BY <1>2, <1>4 DEF IInv, TablesInv
<1>9. SeenInv'
  BY <1>2, <1>4 DEF IInv, SeenInv, PastInv, tenancy
<1>10. IdleInv'
  BY <1>2 DEF IInv, IdleInv, TypeInv
<1>11. CompleteInv'
  <2> SUFFICES ASSUME complete'
               PROVE  NothingMissed'
    BY DEF CompleteInv
  <2>1. NothingMissed /\ Succeeds
    BY <1>2, <1>3, CompleteMeansSucceeded DEF IInv, CompleteInv
  <2>2. UNCHANGED <<attached, been>> /\ \A u : Lasting(u)' = Lasting(u)
    BY <1>2 DEF tenancy, Lasting, AddressesOf
  <2>3. \A u \in attached.throughout : u \in Vnic
    BY DEF IInv, TypeInv
  <2>4. worker'[v] \in {"get_public_ip", "returned"} /\ \A u \in Vnic \ {v} : worker'[u] = worker[u]
    BY <1>5 DEF IInv, TypeInv
  <2>5. \A u : ToCheck(u)' \subseteq ToCheck(u)
    BY <1>1, <1>4 DEF ToCheck, AddressesOf
  <2>6. ToCheck(v)' = ToCheck(v) \ {a}
    BY <1>1, <1>4 DEF ToCheck, AddressesOf
  <2>7. a \in been.private \/ a \in found'.public_ips
    <3>1. complete = complete' /\ complete'
      BY <2>1 DEF Succeeds
    <3>2. ~Fault
      BY <3>1 DEF Fault
    <3>3. found'.public_ips = found.public_ips \cup ({a} \cap public)
      BY <1>1, <3>2 DEF IInv, TypeInv, Table
    <3>4. a \in public \/ a \in been.private
      BY <1>4 DEF IInv, PastInv, Address
    <3> QED
      BY <3>3, <3>4
  <2>8. \A b \in checked' : b \in been.private \/ b \in found'.public_ips
    BY <1>1, <1>4, <2>1, <2>7 DEF NothingMissed
  <2>9. \A u \in attached.throughout : worker'[u] = "returned" => ToCheck(u)' = {}
    BY <1>5, <2>1, <2>3, <2>4, <2>5, <2>6 DEF NothingMissed, IInv, TypeInv
  <2>10. \A u \in attached.throughout :
           worker'[u] \in {"list_ipv6s", "get_public_ip", "returned"} =>
             /\ worker[u] \in {"list_ipv6s", "get_public_ip", "returned"}
             /\ AddressesOf(u)' = AddressesOf(u)
             /\ worker'[u] \in {"get_public_ip", "returned"} =>
                  worker[u] \in {"get_public_ip", "returned"}
    BY <1>2, <2>3, <2>4 DEF AddressesOf
  <2>11. \A u \in attached.throughout : worker'[u] = "none" => worker[u] = "none"
    BY <2>3, <2>4
  <2> QED
    BY <1>2, <1>4, <2>1, <2>2, <2>8, <2>9, <2>10, <2>11 DEF NothingMissed
<1> QED
  BY <1>2, <1>6, <1>7, <1>8, <1>9, <1>10, <1>11, PastKeeps DEF IInv

\* Once all workers have returned, everything public throughout of a lasting VNIC that
\* is listed has been found: merging keeps it.
LEMMA MergeKeeps == IInv /\ Merge => IInv'
<1> SUFFICES ASSUME IInv, Merge
             PROVE  IInv'
  OBVIOUS
<1>1. /\ phase = "run_concurrently"
      /\ \A v \in Vnic : worker[v] \in {"none", "returned"}
      /\ result' = [result EXCEPT !.data = [k \in DOMAIN Nothing |-> @[k] \cup found[k]]]
      /\ found' = Nothing /\ checked' = {} /\ worker' = [v \in Vnic |-> "none"]
      /\ \/ at < Compartments /\ at' = at + 1 /\ phase' = "list_instances"
         \/ phase' = "done" /\ UNCHANGED at
      /\ UNCHANGED <<tenancy, complete, faults>>
  BY DEF Merge
<1>2. found \in Table /\ result.data \in Table /\ Nothing \in Table
  BY DEF IInv, TypeInv, Table, Nothing
<1>3. /\ result'.data.vnics = result.data.vnics \cup found.vnics
      /\ result'.data.private_ips = result.data.private_ips \cup found.private_ips
      /\ result'.data.ipv6s = result.data.ipv6s \cup found.ipv6s
      /\ result'.data.public_ips = result.data.public_ips \cup found.public_ips
      /\ result'.attachments = result.attachments
  BY <1>1 DEF Nothing, IInv, TypeInv
<1>4. result' \in [instances : SUBSET (Instance \X {"running", "terminated"}),
                   attachments : SUBSET Vnic, data : Table]
  <2>1. [k \in DOMAIN Nothing |-> result.data[k] \cup found[k]] \in Table
    BY <1>2 DEF Nothing, Table
  <2> QED
    BY <1>1, <2>1 DEF IInv, TypeInv
<1>5. TypeInv'
  <2>1. worker' \in [Vnic -> Steps]
    BY <1>1 DEF Steps
  <2>2. at' \in Compartment
    BY <1>1 DEF IInv, TypeInv, Compartment, BoundAssumption
  <2> QED
    BY <1>1, <1>2, <1>4, <2>1, <2>2 DEF IInv, TypeInv, tenancy, Exists
<1>6. TablesInv'
  BY <1>1, <1>3 DEF IInv, TablesInv, Nothing
<1>7. SeenInv'
  BY <1>1, <1>3 DEF IInv, SeenInv, tenancy, Nothing
<1>8. IdleInv'
  BY <1>1 DEF IdleInv
<1>9. PoolInv'
  <2>1. Busy' = {}
    BY <1>1 DEF Busy
  <2> QED
    BY <2>1, FS_EmptySet DEF PoolInv, BoundAssumption
<1>10. CompleteInv'
  <2> SUFFICES ASSUME complete
               PROVE  NothingMissed'
    BY <1>1 DEF CompleteInv
  <2>1. NothingMissed
    BY DEF IInv, CompleteInv
  <2>2. UNCHANGED <<attached, been>> /\ \A u : Lasting(u)' = Lasting(u)
    BY <1>1 DEF tenancy, Lasting, AddressesOf
  <2>3. \A v \in Vnic : worker'[v] = "none"
    BY <1>1
  <2>4. ASSUME NEW v \in attached.throughout, v \in result.attachments
        PROVE  Lasting(v) \subseteq
                 (result'.data.private_ips \cap result'.data.public_ips) \cup result'.data.ipv6s
    <3>1. v \in Vnic
      BY DEF IInv, TypeInv
    <3>2. CASE worker[v] = "none"
      BY <1>3, <2>1, <2>4, <3>2 DEF NothingMissed
    <3>3. CASE worker[v] = "returned"
      <4>1. /\ AddressesOf(v) \cap Private \subseteq found.private_ips
            /\ Lasting(v) \cap Ipv6 \subseteq found.ipv6s
            /\ ToCheck(v) = {}
        BY <2>1, <3>3 DEF NothingMissed
      <4>2. \A a \in Lasting(v) \cap Private : a \in checked
        BY <4>1 DEF ToCheck, Lasting
      <4>3. Lasting(v) \cap Private \subseteq found.public_ips
        BY <2>1, <4>2 DEF NothingMissed, Lasting
      <4>4. Lasting(v) \subseteq Private \cup Ipv6
        BY DEF Lasting, AddressesOf, Address
      <4> QED
        BY <1>3, <4>1, <4>3, <4>4 DEF Lasting
    <3> QED
      BY <1>1, <3>1, <3>2, <3>3
  <2>5. attached.throughout \subseteq Vnic
    BY DEF IInv, TypeInv
  <2> QED
    BY <1>1, <1>3, <2>1, <2>2, <2>3, <2>4, <2>5 DEF NothingMissed
<1> QED
  BY <1>1, <1>5, <1>6, <1>7, <1>8, <1>9, <1>10, PastKeeps DEF IInv

\* Every step of the collection and of the tenancy keeps the invariant.
LEMMA StepKeeps == IInv /\ [Next]_vars => IInv'
<1> SUFFICES ASSUME IInv, [Next]_vars
             PROVE  IInv'
  OBVIOUS
<1>1. CASE Collect
  BY <1>1, InstancesKeep, AttachmentsKeep, VnicKeeps, PrivateKeeps, Ipv6Keeps, PublicKeeps,
     MergeKeeps DEF Collect, Worker
<1>2. CASE Tenancy
  BY <1>2, TenancyKeeps
<1>3. CASE UNCHANGED vars
  BY <1>3 DEF vars, tenancy, collector, IInv, TypeInv, TablesInv, PoolInv, PastInv, SeenInv,
     IdleInv, CompleteInv, NothingMissed, Lasting, ToCheck, Busy, Attached, Exists, AddressesOf
<1> QED
  BY <1>1, <1>2, <1>3 DEF Next, Done

\* The inductive invariant of the collection.
THEOREM Invariance == Spec => []IInv
<1> QED
  BY InitKeeps, StepKeeps, PTL DEF Spec

\* The variables keep their types, and the pool its bound.
THEOREM TypeCorrect == Spec => []TypeOK
<1>1. IInv => TypeOK
  BY DEF IInv, TypeInv, TablesInv, PoolInv, TypeOK, Table
<1> QED
  BY <1>1, Invariance, PTL

-----------------------------------------------------------------------------
(* What is delivered.                                                       *)

\* "Has a public address" is delivered only of an instance that had one meanwhile.
THEOREM YesWasSeen == Spec => []YesIsSeen
<1>1. IInv => YesIsSeen
  <2> SUFFICES ASSUME IInv, NEW i \in kept_instances, has_public_address(i) = "yes"
               PROVE  \E v \in attached.ever : InstanceOf[v] = i /\ AddressesOf(v) \cap been.public # {}
    BY DEF YesIsSeen
  <2>1. vnic_ids(i) \subseteq result.data.vnics /\ \E v \in vnic_ids(i) : public_addresses(v) # {}
    BY DEF has_public_address
  <2>2. PICK v \in vnic_ids(i) : \E a \in public_addresses(v) : TRUE
    BY <2>1
  <2>3. v \in attached.ever /\ InstanceOf[v] = i
    BY <2>1, <2>2 DEF vnic_ids, IInv, SeenInv
  <2>4. PICK a : /\ VnicOf[a] = v
                 /\ a \in (result.data.private_ips \cap result.data.public_ips) \cup result.data.ipv6s
    BY <2>2 DEF public_addresses
  <2>5. a \in been.public /\ a \in Address
    BY <2>4 DEF IInv, SeenInv, TypeInv
  <2> QED
    BY <2>3, <2>4, <2>5 DEF AddressesOf
<1> QED
  BY <1>1, Invariance, PTL

\* "No public address" is delivered only of an instance none of whose lasting VNICs had an
\* address that was public all along.
THEOREM NoWasSeen == Spec => []NoIsSeen
<1>1. IInv => NoIsSeen
  <2> SUFFICES ASSUME IInv, deliverable, NEW i \in kept_instances, has_public_address(i) = "no",
                      NEW v \in attached.throughout, InstanceOf[v] = i,
                      NEW a \in AddressesOf(v), a \notin been.private
               PROVE  FALSE
    BY DEF NoIsSeen
  <2>1. /\ vnic_ids(i) # {} /\ vnic_ids(i) \subseteq result.data.vnics
        /\ \A u \in vnic_ids(i) : public_addresses(u) = {}
    BY DEF has_public_address
  <2>2. NothingMissed /\ phase = "done"
    BY DEF deliverable, IInv, CompleteInv
  <2>3. PICK u \in result.attachments : InstanceOf[u] = i /\ i \notin excluded_instances
    BY <2>1 DEF vnic_ids, vnic_attachments
  <2>4. v \in result.attachments
    BY <2>2, <2>3 DEF NothingMissed
  <2>5. v \in vnic_ids(i)
    BY <2>3, <2>4 DEF vnic_ids, vnic_attachments
  <2>6. worker[v] = "none"
    BY <2>2 DEF IInv, IdleInv, TypeInv
  <2>7. Lasting(v) \subseteq (result.data.private_ips \cap result.data.public_ips) \cup result.data.ipv6s
    BY <2>2, <2>4, <2>6 DEF NothingMissed
  <2>8. a \in public_addresses(v)
    BY <2>7 DEF Lasting, public_addresses, AddressesOf, IInv, TypeInv, Table, Address
  <2> QED
    BY <2>1, <2>5, <2>8
<1> QED
  BY <1>1, Invariance, PTL

-----------------------------------------------------------------------------
(* A tenancy that stays still.                                              *)

\* The hypothesis of StillIsExact, up to this moment.
Still ==
  /\ changes = 0 /\ faults = 0
  /\ \A v \in Vnic : attachment[v] # "detached"

\* Whether the instances, and the attachments, of compartment c have been listed.
InstancesListed(c) == c < at \/ (c = at /\ phase # "list_instances")
AttachmentsListed(c) == c < at \/ (c = at /\ phase \in {"run_concurrently", "done"})

\* What is listed is all there is, and the past is the present.
StillInv ==
  /\ complete
  /\ life \in [Instance -> {"running", "terminated"}]
  /\ been.public = public /\ been.private = Address \ public
  /\ attached.ever = Attached /\ attached.throughout = Attached
  /\ result.instances = {<<i, life[i]>> : i \in {j \in Instance : InstancesListed(home[j])}}
  /\ result.attachments = {v \in Attached : AttachmentsListed(home[InstanceOf[v]])}

Got == found.vnics \cup result.data.vnics

\* Every attachment listed has its VNIC, once its worker has asked for it, and every
\* address found is of such a VNIC.
ResolvedInv ==
  /\ \A v \in Vnic : worker[v] # "none" => v \in result.attachments
  /\ \A v \in Vnic : worker[v] \notin {"none", "queued"} => v \in Got
  /\ \A v \in result.attachments : worker[v] = "none" => v \in result.data.vnics
  /\ \A a \in found.private_ips \cup found.ipv6s : VnicOf[a] \in Got
  /\ \A a \in result.data.private_ips \cup result.data.ipv6s : VnicOf[a] \in result.data.vnics

ExactInv == (phase = "done" => at = Compartments) /\ (Still => StillInv /\ ResolvedInv)

\* Nothing is listed before the first call.
LEMMA ExactAtFirst == Init => ExactInv
<1> SUFFICES ASSUME Init
             PROVE  ExactInv
  OBVIOUS
<1>1. phase = "list_instances" /\ at = 1 /\ home \in [Instance -> Compartment]
  BY DEF Init
<1>2. \A i \in Instance : ~InstancesListed(home[i]) /\ ~AttachmentsListed(home[i])
  <2>1. \A c \in Compartment : c \in Nat /\ c >= 1
    BY DEF Compartment
  <2> QED
    BY <1>1, <2>1 DEF InstancesListed, AttachmentsListed
<1>3. StillInv
  <2>1. \A v \in Attached : InstanceOf[v] \in Instance
    BY DEF Attached
  <2> QED
    BY <1>2, <2>1 DEF Init, StillInv
<1>4. ResolvedInv
  BY DEF Init, ResolvedInv, Nothing
<1> QED
  BY <1>1, <1>3, <1>4 DEF ExactInv

\* A call in a still tenancy has not failed, and before it nothing had either.
LEMMA StillCall ==
  ASSUME IInv, UNCHANGED tenancy, Succeeds \/ Fault \/ NotFound, Still'
  PROVE  Still /\ ~Fault
<1>1. UNCHANGED <<changes, attachment>>
  BY DEF tenancy
<1>2. faults \in Nat /\ (faults' = faults \/ faults' = faults + 1)
  BY DEF IInv, TypeInv, Succeeds, Fault, NotFound
<1>3. faults' = 0 /\ faults = 0
  BY <1>2 DEF Still
<1>4. ~Fault
  BY <1>3 DEF Fault
<1> QED
  BY <1>1, <1>3, <1>4 DEF Still

\* The instances listed of a compartment are those that are in it.
LEMMA InstancesExact == ASSUME IInv, ExactInv, list_instances PROVE ExactInv'
<1>1. PICK S \in SUBSET InstancesIn(at) :
        /\ Lists(InstancesIn(at), S)
        /\ result' = [result EXCEPT !.instances = @ \cup {<<i, life[i]>> : i \in S}]
  BY DEF list_instances
<1>2. /\ phase = "list_instances" /\ phase' = "get_image"
      /\ UNCHANGED <<tenancy, at, worker, found, checked>>
      /\ Succeeds \/ Fault \/ NotFound
  BY <1>1 DEF list_instances, Lists
<1> SUFFICES ASSUME Still'
             PROVE  StillInv' /\ ResolvedInv'
  BY <1>2 DEF ExactInv
<1>3. /\ Still /\ ~Fault /\ StillInv /\ ResolvedInv
      /\ S = InstancesIn(at) /\ complete' = complete
  BY <1>1, <1>2, StillCall DEF ExactInv, Lists, Succeeds
<1>4. /\ result'.instances = result.instances \cup {<<i, life[i]>> : i \in S}
      /\ result'.attachments = result.attachments /\ result'.data = result.data
  BY <1>1 DEF IInv, TypeInv
<1>5. UNCHANGED <<life, home, been, attached, public, attachment>> /\ Attached' = Attached
  BY <1>2 DEF tenancy, Attached, Exists
<1>6. S = {j \in Instance : home[j] = at}
  BY <1>3 DEF StillInv, InstancesIn
<1>7. \A j \in Instance : InstancesListed(home[j])' <=> InstancesListed(home[j]) \/ j \in S
  BY <1>2, <1>5, <1>6 DEF InstancesListed
<1>8. result'.instances = {<<i, life[i]>> : i \in {j \in Instance : InstancesListed(home[j])'}}
  BY <1>3, <1>4, <1>6, <1>7 DEF StillInv
<1>9. \A j \in Instance : AttachmentsListed(home[j])' <=> AttachmentsListed(home[j])
  BY <1>2, <1>5 DEF AttachmentsListed
<1>10. \A v \in Attached : InstanceOf[v] \in Instance
  BY DEF Attached
<1>11. StillInv'
  BY <1>3, <1>4, <1>5, <1>8, <1>9, <1>10 DEF StillInv
<1>12. ResolvedInv'
  BY <1>2, <1>3, <1>4 DEF ResolvedInv, Got
<1> QED
  BY <1>11, <1>12

\* Images change nothing of what is listed.
LEMMA ImageExact == ASSUME IInv, ExactInv, get_image PROVE ExactInv'
<1>1. /\ phase = "get_image" /\ phase' = "list_vnic_attachments"
      /\ UNCHANGED <<tenancy, at, worker, found, checked, result>>
      /\ Succeeds \/ Fault \/ NotFound
  BY DEF get_image
<1> SUFFICES ASSUME Still'
             PROVE  StillInv' /\ ResolvedInv'
  BY <1>1 DEF ExactInv
<1>2. StillInv /\ ResolvedInv /\ complete' = complete
  BY <1>1, StillCall DEF ExactInv, get_image, Succeeds
<1>3. UNCHANGED <<life, home, been, attached, public>> /\ Attached' = Attached
  BY <1>1 DEF tenancy, Attached, Exists
<1>4. \A c : (InstancesListed(c)' <=> InstancesListed(c)) /\ (AttachmentsListed(c)' <=> AttachmentsListed(c))
  BY <1>1 DEF InstancesListed, AttachmentsListed
<1>5. StillInv'
  BY <1>1, <1>2, <1>3, <1>4 DEF StillInv
<1>6. ResolvedInv'
  BY <1>1, <1>2 DEF ResolvedInv, Got
<1> QED
  BY <1>5, <1>6

\* The attachments listed of a compartment are those in it, and all are live.
LEMMA AttachmentsExact == ASSUME IInv, ExactInv, list_vnic_attachments PROVE ExactInv'
<1>1. PICK S \in SUBSET AttachmentsIn(at) :
        /\ Lists(AttachmentsIn(at), S)
        /\ result' = [result EXCEPT !.attachments = @ \cup S]
        /\ worker' = [v \in Vnic |-> IF v \in S THEN "queued" ELSE "none"]
  BY DEF list_vnic_attachments
<1>2. /\ UNCHANGED <<tenancy, at, found, checked>>
      /\ phase = "list_vnic_attachments" /\ phase' = "run_concurrently"
      /\ Succeeds \/ Fault \/ NotFound
  BY <1>1 DEF list_vnic_attachments, Lists
<1> SUFFICES ASSUME Still'
             PROVE  StillInv' /\ ResolvedInv'
  BY <1>2 DEF ExactInv
<1>3. /\ Still /\ ~Fault /\ StillInv /\ ResolvedInv
      /\ S = AttachmentsIn(at) /\ complete' = complete
  BY <1>1, <1>2, StillCall DEF ExactInv, Lists, Succeeds
<1>4. /\ result'.attachments = result.attachments \cup S
      /\ result'.instances = result.instances /\ result'.data = result.data
  BY <1>1 DEF IInv, TypeInv
<1>5. UNCHANGED <<life, home, been, attached, public>> /\ Attached' = Attached
  BY <1>2 DEF tenancy, Attached, Exists
<1>6. S = {v \in Attached : home[InstanceOf[v]] = at}
  BY <1>3 DEF AttachmentsIn, Attached, Exists, Still
<1>7. \A c : /\ InstancesListed(c)' <=> InstancesListed(c)
             /\ AttachmentsListed(c)' <=> AttachmentsListed(c) \/ c = at
  BY <1>2 DEF InstancesListed, AttachmentsListed
<1>8. StillInv'
  BY <1>3, <1>4, <1>5, <1>6, <1>7 DEF StillInv
<1>9. ResolvedInv'
  <2>1. \A v \in Vnic : worker[v] = "none"
    BY <1>2 DEF IInv, IdleInv
  <2>2. \A v \in Vnic : worker'[v] \in {"none", "queued"} /\ (worker'[v] = "none" <=> v \notin S)
    BY <1>1
  <2>3. S \subseteq Vnic /\ result.attachments \subseteq Vnic
    BY <1>6 DEF Attached, IInv, TypeInv
  <2> QED
    BY <1>2, <1>3, <1>4, <2>1, <2>2, <2>3 DEF ResolvedInv, Got
<1> QED
  BY <1>8, <1>9

\* What a worker does with the attachment v, which is live, adds only what is of v.
LEMMA WorkerExact ==
  ASSUME IInv, ExactInv, NEW v \in Vnic, worker[v] # "none",
         NEW s \in Steps, s # "none", worker' = [worker EXCEPT ![v] = s],
         UNCHANGED <<tenancy, phase, at, result>>,
         Still' => Still /\ complete' = complete,
         found.vnics \subseteq found'.vnics,
         Still' => v \in found'.vnics \cup result.data.vnics,
         found'.private_ips \cup found'.ipv6s
           \subseteq found.private_ips \cup found.ipv6s \cup AddressesOf(v)
  PROVE  ExactInv'
<1> SUFFICES ASSUME Still'
             PROVE  StillInv' /\ ResolvedInv'
  BY DEF ExactInv
<1>1. StillInv /\ ResolvedInv /\ complete' = complete
  BY DEF ExactInv
<1>2. UNCHANGED <<life, home, been, attached, public>> /\ Attached' = Attached
  BY DEF tenancy, Attached, Exists
<1>3. \A c : (InstancesListed(c)' <=> InstancesListed(c)) /\ (AttachmentsListed(c)' <=> AttachmentsListed(c))
  BY DEF InstancesListed, AttachmentsListed
<1>4. StillInv'
  BY <1>1, <1>2, <1>3 DEF StillInv
<1>5. worker'[v] = s /\ \A u \in Vnic \ {v} : worker'[u] = worker[u]
  BY DEF IInv, TypeInv
<1>6. Got \subseteq Got' /\ v \in Got'
  BY DEF Got
<1>7. \A a \in AddressesOf(v) : VnicOf[a] = v
  BY DEF AddressesOf
<1>8. /\ \A u \in Vnic : worker'[u] # "none" => u \in result'.attachments
      /\ \A u \in Vnic : worker'[u] \notin {"none", "queued"} => u \in Got'
  BY <1>1, <1>5, <1>6 DEF ResolvedInv
<1>9. \A u \in result'.attachments : worker'[u] = "none" => u \in result'.data.vnics
  <2>1. result.attachments \subseteq Vnic
    BY DEF IInv, TypeInv
  <2> QED
    BY <1>1, <1>5, <2>1 DEF ResolvedInv
<1>10. \A a \in found'.private_ips \cup found'.ipv6s : VnicOf[a] \in Got'
  BY <1>1, <1>6, <1>7 DEF ResolvedInv
<1>11. \A a \in result'.data.private_ips \cup result'.data.ipv6s : VnicOf[a] \in result'.data.vnics
  BY <1>1 DEF ResolvedInv
<1> QED
  BY <1>4, <1>8, <1>9, <1>10, <1>11 DEF ResolvedInv

\* An attachment with a worker is live, in a still tenancy.
LEMMA WorkedIsLive ==
  ASSUME ExactInv, Still, NEW v \in Vnic, worker[v] # "none"
  PROVE  Exists(v) /\ (worker[v] # "queued" => v \in Got)
BY DEF ExactInv, StillInv, ResolvedInv, Attached

\* The workers' calls find what they are asked for.
LEMMA WorkersExact == ASSUME IInv, ExactInv, NEW v \in Vnic, Worker(v) PROVE ExactInv'
<1>1. CASE get_vnic(v)
  <2>1. /\ worker[v] = "queued" /\ worker' = [worker EXCEPT ![v] = "list_private_ips"]
        /\ UNCHANGED <<tenancy, phase, at, result>>
        /\ Succeeds \/ Fault \/ NotFound
        /\ \/ v \in result.data.vnics /\ Succeeds /\ UNCHANGED found
           \/ Exists(v) /\ Succeeds /\ found' = [found EXCEPT !.vnics = @ \cup {v}]
           \/ (Fault \/ (~Exists(v) /\ NotFound)) /\ UNCHANGED found
    BY <1>1 DEF get_vnic
  <2>2. /\ found.vnics \subseteq found'.vnics
        /\ found'.private_ips = found.private_ips /\ found'.ipv6s = found.ipv6s
    BY <2>1 DEF IInv, TypeInv, Table
  <2>3. ASSUME Still'
        PROVE  Still /\ complete' = complete /\ v \in found'.vnics \cup result.data.vnics
    <3>1. Still /\ ~Fault
      BY <2>1, <2>3, StillCall
    <3>2. Exists(v)
      BY <2>1, <3>1, WorkedIsLive
    <3>3. \/ v \in result.data.vnics /\ Succeeds
          \/ Succeeds /\ found' = [found EXCEPT !.vnics = @ \cup {v}]
      BY <2>1, <3>1, <3>2
    <3> QED
      BY <3>1, <3>3 DEF IInv, TypeInv, Table, Succeeds
  <2>4. "list_private_ips" \in Steps
    BY DEF Steps
  <2> QED
    BY <2>1, <2>2, <2>3, <2>4, WorkerExact
<1>2. CASE list_private_ips(v)
  <2>1. PICK S \in SUBSET (AddressesOf(v) \cap Private) :
          /\ ListsOf(v, AddressesOf(v) \cap Private, S)
          /\ found' = [found EXCEPT !.private_ips = @ \cup S]
    BY <1>2 DEF list_private_ips
  <2>2. /\ worker[v] = "list_private_ips" /\ worker' = [worker EXCEPT ![v] = "list_ipv6s"]
        /\ UNCHANGED <<tenancy, phase, at, result>>
        /\ Succeeds \/ Fault \/ NotFound
    BY <1>2, <2>1 DEF list_private_ips, ListsOf, Lists
  <2>3. /\ found'.vnics = found.vnics
        /\ found'.private_ips = found.private_ips \cup S /\ found'.ipv6s = found.ipv6s
    BY <2>1 DEF IInv, TypeInv, Table
  <2>4. ASSUME Still'
        PROVE  Still /\ complete' = complete /\ v \in found'.vnics \cup result.data.vnics
    <3>1. Still /\ ~Fault
      BY <2>2, <2>4, StillCall
    <3>2. Exists(v) /\ v \in Got
      BY <2>2, <3>1, WorkedIsLive
    <3>3. Succeeds
      BY <2>1, <3>1, <3>2 DEF ListsOf, Lists
    <3> QED
      BY <3>1, <3>2, <3>3, <2>3 DEF Succeeds, Got
  <2>5. "list_ipv6s" \in Steps
    BY DEF Steps
  <2> QED
    BY <2>2, <2>3, <2>4, <2>5, WorkerExact
<1>3. CASE list_ipv6s(v)
  <2>1. PICK S \in SUBSET (AddressesOf(v) \cap Ipv6 \cap public) :
          /\ ListsOf(v, AddressesOf(v) \cap Ipv6 \cap public, S)
          /\ found' = [found EXCEPT !.ipv6s = @ \cup S]
    BY <1>3 DEF list_ipv6s
  <2>2. /\ worker[v] = "list_ipv6s" /\ UNCHANGED <<tenancy, phase, at, result>>
        /\ Succeeds \/ Fault \/ NotFound
    BY <1>3, <2>1 DEF list_ipv6s, ListsOf, Lists
  <2>3. PICK s \in Steps : s # "none" /\ worker' = [worker EXCEPT ![v] = s]
    BY <1>3 DEF list_ipv6s, LookUp, Steps
  <2>4. /\ found'.vnics = found.vnics
        /\ found'.private_ips = found.private_ips /\ found'.ipv6s = found.ipv6s \cup S
    BY <2>1 DEF IInv, TypeInv, Table
  <2>5. ASSUME Still'
        PROVE  Still /\ complete' = complete /\ v \in found'.vnics \cup result.data.vnics
    <3>1. Still /\ ~Fault
      BY <2>2, <2>5, StillCall
    <3>2. Exists(v) /\ v \in Got
      BY <2>2, <3>1, WorkedIsLive
    <3>3. Succeeds
      BY <2>1, <3>1, <3>2 DEF ListsOf, Lists
    <3> QED
      BY <3>1, <3>2, <3>3, <2>4 DEF Succeeds, Got
  <2> QED
    BY <2>2, <2>3, <2>4, <2>5, WorkerExact
<1>4. CASE get_public_ip(v)
  <2>1. /\ worker[v] = "get_public_ip" /\ UNCHANGED <<tenancy, phase, at, result>>
        /\ \/ Succeeds /\ \E a : found' = [found EXCEPT !.public_ips = @ \cup ({a} \cap public)]
           \/ Fault /\ UNCHANGED found
    BY <1>4 DEF get_public_ip, LookupFails
  <2>2. PICK s \in Steps : s # "none" /\ worker' = [worker EXCEPT ![v] = s]
    BY <1>4 DEF get_public_ip, LookUp, Steps
  <2>3. /\ found'.vnics = found.vnics
        /\ found'.private_ips = found.private_ips /\ found'.ipv6s = found.ipv6s
    BY <2>1 DEF IInv, TypeInv, Table
  <2>4. ASSUME Still'
        PROVE  Still /\ complete' = complete /\ v \in found'.vnics \cup result.data.vnics
    <3>1. Still /\ ~Fault
      BY <2>1, <2>4, StillCall
    <3>2. Exists(v) /\ v \in Got
      BY <2>1, <3>1, WorkedIsLive
    <3> QED
      BY <3>1, <3>2, <2>1, <2>3 DEF Succeeds, Got
  <2> QED
    BY <2>1, <2>2, <2>3, <2>4, WorkerExact
<1> QED
  BY <1>1, <1>2, <1>3, <1>4 DEF Worker

\* Merging completes a compartment; after the last one all is listed.
LEMMA MergeExact == ASSUME IInv, ExactInv, Merge PROVE ExactInv'
<1>1. /\ phase = "run_concurrently"
      /\ \A v \in Vnic : worker[v] \in {"none", "returned"}
      /\ result' = [result EXCEPT !.data = [k \in DOMAIN Nothing |-> @[k] \cup found[k]]]
      /\ found' = Nothing /\ worker' = [v \in Vnic |-> "none"]
      /\ \/ at < Compartments /\ at' = at + 1 /\ phase' = "list_instances"
         \/ ~(at < Compartments) /\ phase' = "done" /\ UNCHANGED at
      /\ UNCHANGED <<tenancy, complete, faults>>
  BY DEF Merge
<1>2. at \in Nat /\ Compartments \in Nat /\ at <= Compartments
  BY DEF IInv, TypeInv, Compartment
<1>3. phase' = "done" => at' = Compartments
  BY <1>1, <1>2
<1>4. /\ result'.data.vnics = result.data.vnics \cup found.vnics
      /\ result'.data.private_ips = result.data.private_ips \cup found.private_ips
      /\ result'.data.ipv6s = result.data.ipv6s \cup found.ipv6s
      /\ result'.attachments = result.attachments /\ result'.instances = result.instances
  BY <1>1 DEF Nothing, IInv, TypeInv
<1>5. UNCHANGED <<life, home, been, attached, public, changes, attachment>> /\ Attached' = Attached
  BY <1>1 DEF tenancy, Attached, Exists
<1> SUFFICES ASSUME Still'
             PROVE  StillInv' /\ ResolvedInv'
  BY <1>3 DEF ExactInv
<1>6. StillInv /\ ResolvedInv
  BY <1>1, <1>5 DEF ExactInv, Still
<1>7. \A c \in Compartment : /\ InstancesListed(c)' <=> InstancesListed(c)
                             /\ AttachmentsListed(c)' <=> AttachmentsListed(c)
  <2>1. \A c \in Compartment : c \in Nat
    BY DEF Compartment
  <2> QED
    BY <1>1, <1>2, <2>1 DEF InstancesListed, AttachmentsListed
<1>8. StillInv'
  <2>1. /\ \A i \in Instance : home[i] \in Compartment
        /\ \A v \in Attached : InstanceOf[v] \in Instance
    BY DEF IInv, TypeInv, Attached
  <2> QED
    BY <1>1, <1>4, <1>5, <1>6, <1>7, <2>1 DEF StillInv
<1>9. Got = result'.data.vnics
  BY <1>4 DEF Got
<1>10. ResolvedInv'
  <2>1. result.attachments \subseteq Vnic
    BY DEF IInv, TypeInv
  <2>2. \A u \in result'.attachments : u \in result'.data.vnics
    BY <1>1, <1>4, <1>6, <1>9, <2>1 DEF ResolvedInv, Got
  <2>3. \A a \in result'.data.private_ips \cup result'.data.ipv6s : VnicOf[a] \in result'.data.vnics
    BY <1>4, <1>6, <1>9 DEF ResolvedInv, Got
  <2> QED
    BY <1>1, <2>2, <2>3 DEF ResolvedInv, Nothing
<1> QED
  BY <1>8, <1>10

\* A change of the tenancy ends the hypothesis.
LEMMA TenancyExact == ASSUME IInv, ExactInv, Tenancy PROVE ExactInv'
<1>1. changes' = changes + 1 /\ UNCHANGED <<phase, at>>
  BY DEF Tenancy, Terminate, PurgeInstance, Move, Attach, Detach, PurgeAttachment, Readdress, Become,
         collector
<1>2. changes' # 0
  BY <1>1 DEF IInv, TypeInv
<1> QED
  BY <1>1, <1>2 DEF ExactInv, Still

\* What a still tenancy and a run without faults come to, at every moment of the run.
THEOREM Exactness == Spec => [](IInv /\ ExactInv)
<1>1. ASSUME IInv, ExactInv, [Next]_vars
      PROVE  ExactInv'
  <2>1. CASE list_instances \/ get_image \/ list_vnic_attachments \/ Merge
    BY <1>1, <2>1, InstancesExact, ImageExact, AttachmentsExact, MergeExact
  <2>2. CASE \E v \in Vnic : Worker(v)
    BY <1>1, <2>2, WorkersExact
  <2>3. CASE Tenancy
    BY <1>1, <2>3, TenancyExact
  <2>4. CASE UNCHANGED vars
    BY <1>1, <2>4 DEF vars, tenancy, collector, ExactInv, Still, StillInv, ResolvedInv, Got,
       InstancesListed, AttachmentsListed, Attached, Exists
  <2> QED
    BY <1>1, <2>1, <2>2, <2>3, <2>4 DEF Next, Collect, Done
<1> QED
  BY <1>1, ExactAtFirst, InitKeeps, StepKeeps, PTL DEF Spec

\* A tenancy that stays still, read without a fault, is delivered, and exactly: every
\* running instance is kept, every attachment resolved to a VNIC and every address to its
\* VNIC, and "has a public address" is what OCI would say.
THEOREM StillWasExact == Spec => []StillIsExact
<1>1. ASSUME IInv, ExactInv, phase = "done", changes = 0, faults = 0,
             \A v \in Vnic : attachment[v] # "detached"
      PROVE  /\ deliverable
             /\ kept_instances = {i \in Instance : life[i] = "running"}
             /\ \A i \in kept_instances :
                  has_public_address(i) =
                    IF \A v \in Attached : InstanceOf[v] # i THEN "null"
                    ELSE IF \E a \in public : InstanceOf[VnicOf[a]] = i THEN "yes"
                    ELSE "no"
  <2>1. StillInv /\ ResolvedInv /\ at = Compartments
    BY <1>1 DEF ExactInv, Still
  <2>2. \A c \in Compartment : InstancesListed(c) /\ AttachmentsListed(c)
    BY <1>1, <2>1 DEF InstancesListed, AttachmentsListed, Compartment
  <2>3. /\ \A i \in Instance : home[i] \in Compartment
        /\ \A v \in Attached : v \in Vnic /\ InstanceOf[v] \in Instance
    BY <1>1 DEF IInv, TypeInv, Attached
  <2>4. result.instances = {<<i, life[i]>> : i \in Instance} /\ result.attachments = Attached
    BY <2>1, <2>2, <2>3 DEF StillInv
  <2>5. /\ kept_instances = {i \in Instance : life[i] = "running"}
        /\ excluded_instances = {i \in Instance : life[i] = "terminated"}
    BY <2>4 DEF kept_instances, excluded_instances
  <2>6. unresolved_attachments = {}
    BY <2>1, <2>3, <2>4, <2>5 DEF unresolved_attachments, vnic_attachments, StillInv
  <2>7. unresolved_vnic = {}
    BY <2>1 DEF unresolved_vnic, ResolvedInv
  <2>8. \A v \in Vnic : worker[v] = "none"
    BY <1>1 DEF IInv, IdleInv
  <2>9. Attached \subseteq result.data.vnics
    BY <2>1, <2>3, <2>4, <2>8 DEF ResolvedInv
  <2>10. deliverable
    BY <1>1, <2>1, <2>6, <2>7 DEF deliverable, StillInv
  <2>11. ASSUME NEW i \in kept_instances
         PROVE  has_public_address(i) =
                  IF \A v \in Attached : InstanceOf[v] # i THEN "null"
                  ELSE IF \E a \in public : InstanceOf[VnicOf[a]] = i THEN "yes"
                  ELSE "no"
    <3>1. vnic_ids(i) = {v \in Attached : InstanceOf[v] = i}
      BY <2>4, <2>5 DEF vnic_ids, vnic_attachments
    <3>2. vnic_ids(i) \subseteq result.data.vnics
      BY <2>9, <3>1
    <3>3. ASSUME NEW a \in public, InstanceOf[VnicOf[a]] = i
          PROVE  VnicOf[a] \in vnic_ids(i) /\ a \in public_addresses(VnicOf[a])
      <4>1. VnicOf[a] \in Attached /\ a \in Address
        BY <1>1 DEF IInv, TypeInv, Attached
      <4>2. a \in Lasting(VnicOf[a]) /\ VnicOf[a] \in attached.throughout /\ VnicOf[a] \in Vnic
        BY <2>1, <2>3, <4>1 DEF StillInv, Lasting, AddressesOf
      <4>3. a \in (result.data.private_ips \cap result.data.public_ips) \cup result.data.ipv6s
        BY <1>1, <2>1, <2>4, <2>8, <4>1, <4>2 DEF IInv, CompleteInv, NothingMissed, StillInv
      <4> QED
        BY <3>1, <3>3, <4>1, <4>3 DEF public_addresses
    <3>4. ASSUME NEW v \in vnic_ids(i), NEW a \in public_addresses(v)
          PROVE  a \in public /\ InstanceOf[VnicOf[a]] = i
      <4>1. /\ VnicOf[a] = v
            /\ a \in (result.data.private_ips \cap result.data.public_ips) \cup result.data.ipv6s
        BY DEF public_addresses
      <4>2. a \in been.public
        BY <1>1, <4>1 DEF IInv, SeenInv
      <4> QED
        BY <2>1, <3>1, <4>1, <4>2 DEF StillInv
    <3>5. (\E v \in vnic_ids(i) : public_addresses(v) # {}) <=> \E a \in public : InstanceOf[VnicOf[a]] = i
      <4>1. ASSUME NEW v \in vnic_ids(i), public_addresses(v) # {}
            PROVE  \E a \in public : InstanceOf[VnicOf[a]] = i
        <5>1. PICK a \in public_addresses(v) : TRUE
          BY <4>1
        <5> QED
          BY <5>1, <3>4
      <4> QED
        BY <3>3, <4>1
    <3>6. vnic_ids(i) = {} <=> \A v \in Attached : InstanceOf[v] # i
      BY <3>1
    <3> QED
      BY <3>2, <3>5, <3>6 DEF has_public_address
  <2> QED
    BY <2>5, <2>10, <2>11
<1>2. IInv /\ ExactInv => StillIsExact
  BY <1>1 DEF StillIsExact
<1> QED
  BY <1>2, Exactness, PTL

=============================================================================
