------------------------- MODULE CollectionRunProofs -------------------------
(***************************************************************************)
(* What one run may do to the records in Drata, for every tenancy, set of  *)
(* collectors and configuration.                                           *)
(***************************************************************************)
EXTENDS CollectionRun, FiniteSetTheorems, TLAPS

\* The delivery's own invariant and what its steps do.
P == INSTANCE DrataDeliveryProofs WITH Id <- Resource, Workloads <- {}

-----------------------------------------------------------------------------
(* The delivery within the run is the one that module proves about.         *)

\* The operators of the two instances are the same.
LEMMA SameInit == Delivery!Init <=> P!Init
  BY DEF Delivery!Init, P!Init

\* The delivery's steps are the same in both instances: the call,
LEMMA SameDeliver ==
  ASSUME NEW records, NEW gone
  PROVE  Delivery!Deliver(records, gone) <=> P!Deliver(records, gone)
  <1>1. Delivery!Batchings(records) = P!Batchings(records)
    BY DEF Delivery!Batchings, P!Batchings, Delivery!Lists, P!Lists, Delivery!Cardinality, P!Cardinality
  <1>2. Delivery!Orderings(gone) = P!Orderings(gone)
    BY DEF Delivery!Orderings, P!Orderings, Delivery!Lists, P!Lists, Delivery!Cardinality, P!Cardinality
  <1> QED BY <1>1, <1>2 DEF Delivery!Deliver, P!Deliver

\* the POSTs,
LEMMA SameUpsert == Delivery!Upsert <=> P!Upsert
  BY DEF Delivery!Upsert, P!Upsert, Delivery!PostAccepted, P!PostAccepted,
         Delivery!PostPartlyAccepted, P!PostPartlyAccepted, Delivery!PostRefused, P!PostRefused,
         Delivery!PostUnanswered, P!PostUnanswered, Delivery!BatchDone, P!BatchDone,
         Delivery!MayRetry, P!MayRetry, Delivery!NextAttempt, P!NextAttempt, Delivery!Put, P!Put,
         Delivery!body, P!body, Delivery!RejectedRecordClass, P!RejectedRecordClass

\* the DELETEs,
LEMMA SameDelete == Delivery!Delete <=> P!Delete
  BY DEF Delivery!Delete, P!Delete, Delivery!DeleteAccepted, P!DeleteAccepted,
         Delivery!DeleteRefused, P!DeleteRefused, Delivery!DeleteUnanswered, P!DeleteUnanswered,
         Delivery!DeleteDone, P!DeleteDone, Delivery!RefusedDeleteClass, P!RefusedDeleteClass,
         Delivery!MayRetry, P!MayRetry, Delivery!NextAttempt, P!NextAttempt, Delivery!Put, P!Put,
         Delivery!stale, P!stale

\* what the client does,
LEMMA SameClient == Delivery!Client <=> P!Client
  <1>1. Delivery!ResolveToken <=> P!ResolveToken
    BY DEF Delivery!ResolveToken, P!ResolveToken
  <1>2. Delivery!TokenUnreadable <=> P!TokenUnreadable
    BY DEF Delivery!TokenUnreadable, P!TokenUnreadable
  <1>3. Delivery!Decide <=> P!Decide
    BY DEF Delivery!Decide, P!Decide, Delivery!uploaded, P!uploaded
  <1> QED BY <1>1, <1>2, <1>3, SameUpsert, SameDelete DEF Delivery!Client, P!Client

\* and what Drata does late.
LEMMA SameSettle == Delivery!Settle <=> P!Settle
  BY DEF Delivery!Settle, P!Settle, Delivery!Put, P!Put

-----------------------------------------------------------------------------
(* The inductive invariant.                                                 *)

\* What the collectors found, and what became of it in OCI.
WorldInv ==
  /\ life \in [Resource -> Life]
  /\ kept \subseteq Resource /\ excluded \subseteq Resource
  /\ \A r \in Resource : life[r] = "renewed" => Reusable(r)
  /\ \A r \in excluded : ~Alive(r) \/ Reusable(r)

\* From the command line on, --dry-run is not forgotten.
StepInv ==
  /\ step \in {"token", "signer", "run"} /\ start.dry_run => dry_run
  /\ main = "collect" => step = "run"

\* There is no delivery before the gate, and what the gate handed over it would hand
\* over still.
GateInv ==
  /\ pc = "idle" => store = start.store
  /\ pc # "idle" =>
       /\ main \notin {"start", "collect"}
       /\ P!Records = deliverable_records /\ P!Gone = delete_ids
       /\ ~dry_run /\ ~start.dry_run
  /\ main \in {"start", "collect"} => pc = "idle"

\* Drata differs from what the run found there only in what was handed over.
ChangedInv ==
  \A r \in Resource : store[r] # start.store[r] =>
    /\ r \in P!Records \cup P!Gone
    /\ store[r] = "absent" => r \in P!Gone

CInv == P!IInv /\ start \in Starts /\ WorldInv /\ StepInv /\ GateInv /\ ChangedInv

-----------------------------------------------------------------------------
(* Facts about the data.                                                    *)

\* Every type of evidence needs some domain, and an instance needs compute.
LEMMA TypesRequire ==
  \A t \in EvidenceTypes : RequiredDomains(t) # {} /\ (t = "instance" => "compute" \in RequiredDomains(t))
  <1>1. "compute" \in RequiredDomains("instance")
    BY DEF RequiredDomains
  <1>2. \A t \in EvidenceTypes : RequiredDomains(t) # {}
    <2>1. ASSUME NEW t \in EvidenceTypes PROVE \E d : d \in RequiredDomains(t)
      BY DEF EvidenceTypes, RequiredDomains
    <2> QED BY <2>1
  <1> QED BY <1>1, <1>2

USE RunAssumption, StartsAssumption
USE DEF found, ociVars, Alive, Dead, Reusable

\* Two collectors do not answer for one domain.
LEMMA OneCollectorPerDomain ==
  \A c, d \in Collector : _DOMAIN_BY_COLLECTOR[c] = _DOMAIN_BY_COLLECTOR[d] => c = d
  BY DEF _DOMAIN_BY_COLLECTOR

\* What the gate lets through rests on complete collection.
LEMMA ReadyIsGrounded == ASSUME NEW r \in Resource, Ready(r) PROVE Grounded(r)
  <1>1. /\ EvidenceType[r] \in EvidenceTypes
        /\ RequiredDomains(EvidenceType[r]) # {}
        /\ EvidenceType[r] = "instance" => "compute" \in RequiredDomains(EvidenceType[r])
    BY TypesRequire
  <1>2. RequiredDomains(EvidenceType[r]) \subseteq deliverable_domains
    BY DEF Ready
  <1>3. discovery_complete
    BY <1>1, <1>2 DEF deliverable_domains
  <1>4. EvidenceType[r] = "instance" => ~dangling
    BY <1>1, <1>2 DEF deliverable_domains
  <1>5. ASSUME NEW c \in Collector, _DOMAIN_BY_COLLECTOR[c] \in RequiredDomains(EvidenceType[r])
        PROVE  domain[c] \in {"complete", "skipped"}
    <2>1. _DOMAIN_BY_COLLECTOR[c] \in CompleteDomains
      BY <1>2, <1>5 DEF deliverable_domains
    <2>2. PICK d \in Collector : /\ domain[d] \in {"complete", "skipped"}
                                 /\ _DOMAIN_BY_COLLECTOR[d] = _DOMAIN_BY_COLLECTOR[c]
      BY <2>1 DEF CompleteDomains
    <2> QED BY <2>2, OneCollectorPerDomain
  <1> QED BY <1>3, <1>4, <1>5 DEF Grounded

\* What the gate decides by does not change after it.
LEMMA GateStands ==
  ASSUME UNCHANGED <<start, dry_run, discovery_complete, domain, dangling, kept, excluded>>
  PROVE  /\ deliverable_records' = deliverable_records
         /\ delete_ids' = delete_ids
         /\ domains_withheld' = domains_withheld
  <1>1. deliverable_domains' = deliverable_domains
    BY DEF deliverable_domains, CompleteDomains
  <1> QED BY <1>1 DEF Ready, deliverable_records, delete_ids, _stale_record_ids, domains_withheld

-----------------------------------------------------------------------------
(* The steps.                                                               *)

\* The variables of the delivery, left alone, keep what is said of them.
LEMMA DeliveryStands ==
  ASSUME P!IInv, UNCHANGED deliveryVars
  PROVE  P!IInv' /\ P!Records' = P!Records /\ P!Gone' = P!Gone
  <1>1. UNCHANGED P!vars
    BY DEF deliveryVars, P!vars
  <1>2. P!IInv'
    BY <1>1, P!StepKeeps, RunAssumption
  <1> QED BY <1>2 DEF deliveryVars, P!Records, P!Gone

\* At the start nothing was found, and nothing handed over.
LEMMA CInitKeeps == Init => CInv
  <1> SUFFICES ASSUME Init PROVE CInv
    OBVIOUS
  <1>1. P!IInv
    BY P!InitKeeps, SameInit, RunAssumption DEF Init
  <1>2. pc = "idle"
    BY DEF Init, Delivery!Init
  <1>3. WorldInv /\ StepInv
    BY DEF Init, StartupInit, WorldInv, StepInv
  <1> QED BY <1>1, <1>2, <1>3 DEF Init, CInv, GateInv, ChangedInv

\* Before the gate: no step touches the delivery.
LEMMA BeforeKeeps ==
  ASSUME CInv, pc = "idle", UNCHANGED <<start, deliveryVars>>, WorldInv', StepInv'
  PROVE  CInv'
  <1>1. P!IInv'
    BY DeliveryStands DEF CInv
  <1> QED BY <1>1 DEF CInv, GateInv, ChangedInv, deliveryVars

\* After it: nothing the gate decides by changes.
LEMMA AfterKeeps ==
  ASSUME CInv, UNCHANGED deliveryVars,
         UNCHANGED <<start, discovery_complete, domain, dangling, kept, excluded, life, step, dry_run>>,
         UNCHANGED main \/ main' \in {"write", "exited"}
  PROVE  CInv'
  <1>1. P!IInv' /\ P!Records' = P!Records /\ P!Gone' = P!Gone
    BY DeliveryStands DEF CInv
  <1>2. WorldInv' /\ StepInv'
    BY DEF CInv, WorldInv, StepInv
  <1>3. GateInv'
    BY <1>1, GateStands DEF CInv, GateInv, WorldInv, deliveryVars
  <1>4. ChangedInv'
    BY <1>1 DEF CInv, ChangedInv, deliveryVars
  <1> QED BY <1>1, <1>2, <1>3, <1>4 DEF CInv

\* A step of the delivery, or a late effect of one.
LEMMA SendingKeeps ==
  ASSUME CInv, P!Client \/ P!Settle, UNCHANGED <<runVars, ociVars, startupVars>>
  PROVE  CInv'
  <1>1. P!IInv'
    <2>1. P!Next
      BY DEF P!Next
    <2> QED BY <2>1, P!StepKeeps, RunAssumption DEF CInv
  <1>2. /\ \A i \in Resource : store'[i] # store[i] =>
              \/ i \in P!Records /\ store'[i] = "new"
              \/ i \in P!Gone /\ store'[i] = "absent"
        /\ UNCHANGED <<batches, deletes>>
        /\ pc # "idle" /\ pc' # "idle"
    BY P!StepWrites, RunAssumption DEF CInv
  <1>3. P!Records' = P!Records /\ P!Gone' = P!Gone
    BY <1>2 DEF P!Records, P!Gone
  <1>4. WorldInv' /\ StepInv' /\ (start \in Starts)'
    BY DEF CInv, WorldInv, StepInv, runVars, startupVars
  <1>5. GateInv'
    BY <1>2, <1>3, GateStands DEF CInv, GateInv, WorldInv, runVars, startupVars
  <1>6. ChangedInv'
    BY <1>2, <1>3 DEF CInv, ChangedInv, runVars
  <1> QED BY <1>1, <1>4, <1>5, <1>6 DEF CInv

\* The gate hands over what is ready and nothing else.
LEMMA HandOverKeeps ==
  ASSUME CInv, Gate, Delivery!Deliver(deliverable_records, delete_ids), main' = "deliver",
         ~dry_run, deliverable_records \cup delete_ids # {}
  PROVE  CInv'
  <1>1. deliverable_records \subseteq Resource /\ delete_ids \subseteq Resource
    BY DEF deliverable_records, delete_ids, _stale_record_ids, CInv, WorldInv
  <1>2. P!Deliver(deliverable_records, delete_ids)
    BY SameDeliver
  <1>3. P!IInv'
    BY <1>1, <1>2, P!DeliverKeeps, RunAssumption DEF CInv
  <1>4. /\ batches' \in P!Batchings(deliverable_records)
        /\ deletes' \in P!Orderings(delete_ids)
        /\ pc = "idle" /\ pc' # "idle" /\ UNCHANGED store
    BY <1>2 DEF P!Deliver
  <1>5. P!Records' = deliverable_records /\ P!Gone' = delete_ids
    <2>1. UNION {batches'[n] : n \in 1..Len(batches')} = deliverable_records
      BY <1>4, P!BatchingType
    <2>2. {deletes'[n] : n \in 1..Len(deletes')} = delete_ids
      BY <1>4, P!OrderingType
    <2> QED BY <2>1, <2>2 DEF P!Records, P!Gone
  <1>6. /\ UNCHANGED <<start, discovery_complete, domain, kept, excluded, dangling, life, step, dry_run>>
        /\ main = "collect"
    BY DEF Gate, startupVars
  <1>7. WorldInv' /\ StepInv' /\ (start \in Starts)'
    BY <1>6 DEF CInv, WorldInv, StepInv
  <1>8. ~start.dry_run
    BY <1>6 DEF CInv, StepInv
  <1>9. GateInv'
    BY <1>1, <1>4, <1>5, <1>6, <1>8, GateStands DEF GateInv, CInv, WorldInv
  <1>10. ChangedInv'
    BY <1>4, <1>6 DEF CInv, ChangedInv, GateInv
  <1> QED BY <1>3, <1>7, <1>9, <1>10 DEF CInv

\* Up to the configuration: --dry-run stays on, and nothing else is touched.
LEMMA BeginKeeps == CInv /\ Begin => CInv'
  <1> SUFFICES ASSUME CInv, Begin PROVE CInv'
    OBVIOUS
  <1>1. main = "start" /\ Starting(start.dry_run) /\ UNCHANGED <<runVars, ociVars, deliveryVars>>
    BY DEF Begin
  <1>2. StepInv'
    <2>1. CASE ReadFile \/ Override \/ Rescan \/ Build
      BY <1>1, <2>1 DEF CInv, StepInv, runVars, ReadFile, Override, Rescan, Build
    <2>2. CASE SetDryRun(start.dry_run)
      BY <1>1, <2>2 DEF CInv, StepInv, runVars, SetDryRun, effective_dry_run
    <2>3. CASE TryToken
      BY <1>1, <2>3 DEF CInv, StepInv, runVars, TryToken
    <2> QED BY <1>1, <2>1, <2>2, <2>3 DEF Starting
  <1>3. WorldInv'
    BY <1>1 DEF CInv, WorldInv, runVars
  <1>4. pc = "idle"
    BY <1>1 DEF CInv, GateInv
  <1> QED BY <1>1, <1>2, <1>3, <1>4, BeforeKeeps DEF runVars

\* Until the gate.
LEMMA CollectKeeps ==
  ASSUME CInv,
         \/ ConfigError \/ AuthError \/ Discover \/ CollectionFails \/ OciChanges
         \/ \E c \in Collector : StartCollector(c) \/ See(c) \/ FinishCollector(c) \/ CrashCollector(c)
  PROVE  CInv'
  <1>1. CASE ConfigError \/ AuthError \/ Discover \/ CollectionFails
    <2>1. /\ UNCHANGED <<start, deliveryVars, life, kept, excluded, dry_run>>
          /\ main \in {"start", "collect"}
      BY <1>1 DEF ConfigError, AuthError, Discover, CollectionFails, startupVars
    <2>2. WorldInv'
      BY <2>1 DEF CInv, WorldInv
    <2>3. StepInv'
      BY <1>1, <2>1 DEF CInv, StepInv, ConfigError, AuthError, Discover, CollectionFails, Leave, startupVars
    <2> QED BY <2>1, <2>2, <2>3, BeforeKeeps DEF CInv, GateInv
  <1>2. CASE OciChanges
    <2>1. /\ UNCHANGED <<start, deliveryVars, kept, excluded, dry_run, step, main>>
          /\ main = "collect"
      BY <1>2 DEF OciChanges, runVars, startupVars
    <2>2. PICK r \in Resource : Terminate(r) \/ Purge(r) \/ UploadAgain(r) \/ Move(r)
      BY <1>2 DEF OciChanges
    <2>3. life' \in [Resource -> Life] /\ \A i \in Resource : life'[i] = "renewed" => Reusable(i)
      BY <2>2 DEF CInv, WorldInv, Life, Terminate, Purge, UploadAgain, Move
    <2>4. \A i \in excluded : ~Alive(i)' \/ Reusable(i)
      BY <2>2, <2>3 DEF CInv, WorldInv, Life, Terminate, Purge, UploadAgain, Move
    <2>5. WorldInv'
      BY <2>1, <2>3, <2>4 DEF CInv, WorldInv
    <2>6. StepInv'
      BY <2>1 DEF CInv, StepInv
    <2> QED BY <2>1, <2>5, <2>6, BeforeKeeps DEF CInv, GateInv
  <1>3. ASSUME NEW c \in Collector, StartCollector(c) \/ FinishCollector(c) \/ CrashCollector(c)
        PROVE  CInv'
    <2>1. /\ UNCHANGED <<start, deliveryVars, life, kept, excluded, dry_run, step, main>>
          /\ main = "collect"
      BY <1>3 DEF StartCollector, FinishCollector, CrashCollector, startupVars
    <2>2. WorldInv' /\ StepInv'
      BY <2>1 DEF CInv, WorldInv, StepInv
    <2> QED BY <2>1, <2>2, BeforeKeeps DEF CInv, GateInv
  <1>4. ASSUME NEW c \in Collector, See(c)
        PROVE  CInv'
    <2>1. /\ UNCHANGED <<start, deliveryVars, life, dry_run, step, main>>
          /\ main = "collect"
      BY <1>4 DEF See, startupVars
    <2>2. PICK r \in Sought(c) : \E b \in unread[r] :
            /\ kept' = kept \cup {i \in {r} : home[r] = b /\ Alive(r)}
            /\ excluded' = excluded \cup {i \in {r} : home[r] = b /\ Dead(r)}
      BY <1>4 DEF See
    <2>3. r \in Resource
      BY <2>2 DEF Sought
    <2>4. kept' \subseteq Resource /\ excluded' \subseteq Resource
      BY <2>2, <2>3 DEF CInv, WorldInv
    <2>5. \A i \in excluded' : i \in excluded \/ (i = r /\ Dead(r))
      BY <2>2
    <2>6. WorldInv'
      BY <2>1, <2>3, <2>4, <2>5 DEF CInv, WorldInv
    <2>7. StepInv'
      BY <2>1 DEF CInv, StepInv
    <2> QED BY <2>1, <2>6, <2>7, BeforeKeeps DEF CInv, GateInv
  <1> QED BY <1>1, <1>2, <1>3, <1>4

\* The gate either delivers or leaves the delivery alone.
LEMMA GateKeeps == CInv /\ Gate => CInv'
  <1> SUFFICES ASSUME CInv, Gate PROVE CInv'
    OBVIOUS
  <1>1. CASE UNCHANGED deliveryVars /\ main' = "write"
    BY <1>1, AfterKeeps DEF Gate, startupVars
  <1>2. CASE /\ ~dry_run /\ deliverable_records \cup delete_ids # {}
             /\ Delivery!Deliver(deliverable_records, delete_ids)
             /\ main' = "deliver"
    BY <1>2, HandOverKeeps
  <1> QED BY <1>1, <1>2 DEF Gate

\* Every step of the run, of OCI and of Drata.
LEMMA CStepKeeps == CInv /\ [Next]_vars => CInv'
  <1> SUFFICES ASSUME CInv, [Next]_vars PROVE CInv'
    OBVIOUS
  <1>1. CASE DeliveryStep
    BY <1>1, SameClient, SendingKeeps DEF DeliveryStep
  <1>2. CASE DrataSettles
    BY <1>2, SameSettle, SendingKeeps DEF DrataSettles
  <1>3. CASE DeliveryReturns
    BY <1>3, AfterKeeps DEF DeliveryReturns, startupVars
  <1>4. CASE WriteOutput \/ WriteFails
    BY <1>4, AfterKeeps DEF WriteOutput, WriteFails, Leave, startupVars
  <1>5. CASE UNCHANGED vars
    BY <1>5, AfterKeeps DEF vars, runVars, startupVars
  <1> QED BY <1>1, <1>2, <1>3, <1>4, <1>5, BeginKeeps, CollectKeeps, GateKeeps DEF Next, Program

-----------------------------------------------------------------------------
(* What a complete run has done.                                            *)

\* What neither moved nor was given again was found in its compartment as it was, and a
\* domain reported complete has read every compartment.
SteadyInv(r) ==
  /\ life[r] # "renewed"
  /\ start.life[r] # "live" => life[r] # "live" /\ r \notin kept
  /\ life[r] = "live" => r \notin excluded
  /\ home[r] \notin unread[r] /\ life[r] # "purged" /\ r \notin start.hidden => r \in kept \cup excluded

SeenInv ==
  /\ home \in [Resource -> Compartment] /\ unsteady \subseteq Resource /\ changes \in 0..MaxChanges
  /\ unread \in [Resource -> SUBSET Compartment]
  /\ \A r \in Resource \ unsteady : SteadyInv(r)
  /\ domain \in [Collector -> {"none", "complete", "incomplete", "skipped"}]
  /\ \A c \in Collector :
       /\ domain[c] # "none" => main # "start"
       /\ domain[c] = "skipped" => c \notin start.enabled
       /\ domain[c] = "complete" /\ discovery_complete => \A r \in Sought(c) : unread[r] = {}

\* "uploaded" is reported of a delivery that came through, with nothing withheld.
OutcomeInv ==
  outcome = "uploaded" =>
    /\ main \in {"write", "exited"} /\ pc = "delivered" /\ decision = "uploaded"
    /\ domains_withheld = {}

FullInv == CInv /\ P!EndInv /\ SeenInv /\ OutcomeInv

\* Nothing is complete at the start.
LEMMA FullInit == Init => FullInv
  <1> SUFFICES ASSUME Init PROVE FullInv
    OBVIOUS
  <1>1. P!EndInv
    BY P!EndInit, SameInit DEF Init
  <1>2. SeenInv
    <2>1. /\ home \in [Resource -> Compartment] /\ unsteady \subseteq Resource
          /\ changes \in 0..MaxChanges /\ unread \in [Resource -> SUBSET Compartment]
      BY DEF Init
    <2>2. \A r \in Resource \ unsteady : SteadyInv(r)
      BY DEF Init, SteadyInv
    <2> QED BY <2>1, <2>2 DEF Init, SeenInv
  <1>3. OutcomeInv
    BY DEF Init, OutcomeInv
  <1> QED BY <1>1, <1>2, <1>3, CInitKeeps DEF FullInv

\* A steady resource that is terminated does not come back, so what was found stays true.
LEMMA SteadyKeeps ==
  ASSUME CInv, SeenInv, OciChanges
  PROVE  /\ \A r \in Resource \ unsteady' : SteadyInv(r)'
         /\ home' \in [Resource -> Compartment] /\ unsteady' \subseteq Resource
         /\ changes' \in 0..MaxChanges
  <1>1. PICK i \in Resource : Terminate(i) \/ Purge(i) \/ UploadAgain(i) \/ Move(i)
    BY DEF OciChanges
  <1>2. UNCHANGED <<start, unread, kept, excluded>>
    BY DEF OciChanges, runVars
  <1>3. ASSUME NEW r \in Resource \ unsteady'
        PROVE  SteadyInv(r)'
    <2>1. r \notin unsteady /\ SteadyInv(r) /\ life \in [Resource -> Life]
      BY <1>1, <1>3 DEF SeenInv, CInv, WorldInv, Terminate, Purge, UploadAgain, Move
    <2>2. CASE r # i
      <3>1. life'[r] = life[r] /\ home'[r] = home[r]
        BY <1>1, <2>1, <2>2 DEF SeenInv, Terminate, Purge, UploadAgain, Move
      <3> QED BY <1>2, <2>1, <3>1 DEF SteadyInv
    <2>3. CASE r = i
      <3>1. /\ UNCHANGED home
            /\ \/ life[r] = "live" /\ life'[r] = "terminal"
               \/ life[r] = "terminal" /\ life'[r] = "purged"
        BY <1>1, <1>3, <2>1, <2>3 DEF SteadyInv, SeenInv, Terminate, Purge, UploadAgain, Move
      <3>2. SteadyInv(r) /\ start' = start /\ unread' = unread /\ kept' = kept /\ excluded' = excluded
        BY <1>2, <2>1
      <3> QED BY <3>1, <3>2 DEF SteadyInv
    <2> QED BY <2>2, <2>3
  <1>4. home' \in [Resource -> Compartment] /\ unsteady' \subseteq Resource
    BY <1>1 DEF SeenInv, Terminate, Purge, UploadAgain, Move
  <1>5. changes' \in 0..MaxChanges
    BY DEF OciChanges, SeenInv
  <1> QED BY <1>3, <1>4, <1>5

\* A listing that comes past a resource where it is finds it.
LEMMA SeeKeeps ==
  ASSUME CInv, SeenInv, NEW c \in Collector, See(c)
  PROVE  SeenInv'
  <1>1. /\ UNCHANGED <<start, domain, life, home, unsteady, changes, discovery_complete, main>>
        /\ main = "collect"
    BY DEF See
  <1>0. PICK i \in Sought(c) : \E b \in unread[i] :
          /\ unread' = [unread EXCEPT ![i] = @ \ {b}]
          /\ kept' = kept \cup {j \in {i} : home[i] = b /\ Alive(i)}
          /\ excluded' = excluded \cup {j \in {i} : home[i] = b /\ Dead(i)}
    BY DEF See
  <1>2. PICK b \in unread[i] :
          /\ unread' = [unread EXCEPT ![i] = @ \ {b}]
          /\ kept' = kept \cup {j \in {i} : home[i] = b /\ Alive(i)}
          /\ excluded' = excluded \cup {j \in {i} : home[i] = b /\ Dead(i)}
    BY <1>0
  <1>3. i \in Resource /\ life \in [Resource -> Life]
    BY DEF Sought, CInv, WorldInv
  <1>4. unread' \in [Resource -> SUBSET Compartment] /\ \A r \in Resource : unread'[r] \subseteq unread[r]
    BY <1>2, <1>3 DEF SeenInv
  <1>5. ASSUME NEW r \in Resource \ unsteady
        PROVE  SteadyInv(r)'
    <2>1. SteadyInv(r)
      BY DEF SeenInv
    <2>2. CASE r # i
      <3>1. unread'[r] = unread[r] /\ (r \in kept' <=> r \in kept) /\ (r \in excluded' <=> r \in excluded)
        BY <1>2, <1>3, <2>2 DEF SeenInv
      <3> QED BY <1>1, <2>1, <3>1 DEF SteadyInv
    <2>3. CASE r = i /\ home[r] # b
      <3>1. /\ home[r] \notin unread'[r] => home[r] \notin unread[r]
            /\ kept' = kept /\ excluded' = excluded
        BY <1>2, <1>3, <2>3 DEF SeenInv
      <3> QED BY <1>1, <2>1, <3>1 DEF SteadyInv
    <2>4. CASE r = i /\ home[r] = b
      <3>1. /\ r \in kept' <=> r \in kept \/ Alive(r)
            /\ r \in excluded' <=> r \in excluded \/ Dead(r)
        BY <1>2, <2>4
      <3> QED BY <1>1, <1>3, <2>1, <3>1 DEF SteadyInv, Life
    <2> QED BY <2>2, <2>3, <2>4
  <1>6. \A d \in Collector : Sought(d)' = Sought(d)
    BY <1>1 DEF Sought
  <1>7. ASSUME NEW d \in Collector, domain[d] = "complete", discovery_complete, NEW r \in Sought(d)
        PROVE  unread'[r] = {}
    BY <1>4, <1>7 DEF SeenInv, Sought
  <1> QED BY <1>1, <1>4, <1>5, <1>6, <1>7 DEF SeenInv

\* Every step of the run.
LEMMA SeenKeeps == CInv /\ SeenInv /\ [Next]_vars => SeenInv'
  <1> SUFFICES ASSUME CInv, SeenInv, [Next]_vars PROVE SeenInv'
    OBVIOUS
  <1>1. ASSUME UNCHANGED <<start, domain, found, ociVars, discovery_complete>>,
               UNCHANGED main \/ main' # "start"
        PROVE  SeenInv'
    BY <1>1 DEF SeenInv, SteadyInv, Sought
  <1>2. CASE \/ Begin \/ ConfigError \/ AuthError \/ CollectionFails \/ Gate \/ DeliveryStep
             \/ DeliveryReturns \/ WriteOutput \/ WriteFails \/ DrataSettles
             \/ UNCHANGED vars
    BY <1>1, <1>2 DEF Begin, ConfigError, AuthError, CollectionFails, Gate, DeliveryStep,
       DeliveryReturns, WriteOutput, WriteFails, DrataSettles, Leave, vars, runVars
  <1>3. CASE Discover
    <2>1. /\ main = "start" /\ main' = "collect"
          /\ UNCHANGED <<start, domain, found, ociVars>>
      BY <1>3 DEF Discover
    <2>2. \A r \in Resource \ unsteady : SteadyInv(r)'
      BY <2>1 DEF SeenInv, SteadyInv
    <2>3. \A c \in Collector : domain[c] = "none"
      BY <2>1 DEF SeenInv
    <2> QED BY <2>1, <2>2, <2>3 DEF SeenInv
  <1>4. ASSUME NEW c \in Collector, StartCollector(c) \/ CrashCollector(c)
        PROVE  SeenInv'
    BY <1>1, <1>4 DEF StartCollector, CrashCollector
  <1>5. ASSUME NEW c \in Collector, FinishCollector(c)
        PROVE  SeenInv'
    <2>1. /\ UNCHANGED <<start, ociVars, discovery_complete, main, found>>
          /\ main = "collect"
      BY <1>5 DEF FinishCollector
    <2>2. PICK status \in {"complete", "incomplete", "skipped"} :
            /\ status = "skipped" <=> c \notin start.enabled
            /\ status = "complete" /\ discovery_complete => \A r \in Sought(c) : unread[r] = {}
            /\ domain' = [domain EXCEPT ![c] = status]
      BY <1>5 DEF FinishCollector
    <2>3. \A d \in Collector : Sought(d)' = Sought(d)
      BY <2>1 DEF Sought
    <2>4. \A r \in Resource \ unsteady : SteadyInv(r)'
      BY <2>1 DEF SeenInv, SteadyInv
    <2> QED BY <2>1, <2>2, <2>3, <2>4 DEF SeenInv
  <1>6. CASE OciChanges
    <2>1. /\ UNCHANGED <<start, domain, discovery_complete, main, found>>
          /\ main = "collect"
      BY <1>6 DEF OciChanges, runVars
    <2>2. \A d \in Collector : Sought(d)' = Sought(d)
      BY <2>1 DEF Sought
    <2> QED BY <1>6, <2>1, <2>2, SteadyKeeps DEF SeenInv
  <1> QED BY <1>2, <1>3, <1>4, <1>5, <1>6, SeeKeeps DEF Next, Program

\* The end of the delivery, in every step of the run.
LEMMA EndStays == FullInv /\ [Next]_vars => P!EndInv'
  <1> SUFFICES ASSUME FullInv, [Next]_vars PROVE P!EndInv'
    OBVIOUS
  <1>1. CASE P!Client \/ P!Settle
    BY <1>1, P!EndKeeps, RunAssumption DEF FullInv, CInv
  <1>2. CASE UNCHANGED deliveryVars
    BY <1>2 DEF FullInv, P!EndInv, deliveryVars
  <1>3. CASE P!Deliver(deliverable_records, delete_ids)
    BY <1>3 DEF FullInv, P!EndInv, P!Deliver
  <1>4. \/ P!Client \/ P!Settle \/ UNCHANGED deliveryVars
        \/ P!Deliver(deliverable_records, delete_ids)
    BY SameClient, SameSettle, SameDeliver
       DEF Next, Program, Begin, ConfigError, AuthError, Discover, CollectionFails,
       StartCollector, See, FinishCollector, CrashCollector, Gate, DeliveryStep, DeliveryReturns,
       WriteOutput, WriteFails, OciChanges, DrataSettles, vars
  <1> QED BY <1>1, <1>2, <1>3, <1>4

\* The outcome is settled by the return of the delivery.
LEMMA OutcomeKeeps == FullInv /\ [Next]_vars => OutcomeInv'
  <1> SUFFICES ASSUME FullInv, [Next]_vars PROVE OutcomeInv'
    OBVIOUS
  <1>1. CASE main \in {"start", "collect"}
    <2>1. outcome # "uploaded"
      BY <1>1 DEF FullInv, OutcomeInv
    <2>2. outcome' = outcome \/ outcome' \in {"skipped_dry_run", "blocked"}
      BY <1>1
         DEF Next, Program, Begin, ConfigError, AuthError, Discover, CollectionFails,
         StartCollector, See, FinishCollector, CrashCollector, Gate, DeliveryStep,
         DeliveryReturns, WriteOutput, WriteFails, OciChanges, DrataSettles, vars, runVars
    <2> QED BY <2>1, <2>2 DEF OutcomeInv
  <1>2. CASE DeliveryReturns
    <2>1. /\ pc \in {"delivered", "failed"} /\ main' = "write"
          /\ UNCHANGED <<start, dry_run, discovery_complete, domain, dangling, kept, excluded, pc, decision>>
          /\ outcome' = "uploaded" => decision = "uploaded" /\ domains_withheld = {}
      BY <1>2 DEF DeliveryReturns, Delivery!Returned, deliveryVars, startupVars
    <2>2. domains_withheld' = domains_withheld
      BY <2>1, GateStands
    <2> QED BY <2>1, <2>2 DEF FullInv, P!EndInv, OutcomeInv
  <1>3. CASE DeliveryStep
    BY <1>3 DEF DeliveryStep, runVars, FullInv, OutcomeInv
  <1>4. CASE WriteOutput \/ WriteFails \/ DrataSettles \/ UNCHANGED vars
    <2>1. /\ UNCHANGED <<start, dry_run, discovery_complete, domain, dangling, kept, excluded, pc, decision, outcome>>
          /\ UNCHANGED main \/ main' = "exited"
      BY <1>4 DEF WriteOutput, WriteFails, Leave, DrataSettles, Delivery!Settle, vars, runVars,
                  deliveryVars, startupVars
    <2>2. domains_withheld' = domains_withheld
      BY <2>1, GateStands
    <2> QED BY <2>1, <2>2 DEF FullInv, OutcomeInv
  <1>5. CASE main \notin {"start", "collect"} /\ Program
    BY <1>2, <1>3, <1>4, <1>5
       DEF Program, Begin, ConfigError, AuthError, Discover, CollectionFails, StartCollector, See,
       FinishCollector, CrashCollector, Gate
  <1> QED BY <1>1, <1>4, <1>5 DEF Next, OciChanges

-----------------------------------------------------------------------------
(* Theorems.                                                                *)

\* Each part of the invariant holds in every state of every run.
THEOREM RunInvariance == Spec => []CInv
  <1> QED BY CInitKeeps, CStepKeeps, PTL DEF Spec

\* The record of whatever rests on incomplete collection stays as the run found it,
\* whichever requests get lost or take effect late.
THEOREM Withholds == Spec => []WithheldUntouched
  <1>1. CInv => WithheldUntouched
    <2> SUFFICES ASSUME CInv, NEW r \in Resource, store[r] # start.store[r]
                 PROVE  Grounded(r)
      BY DEF WithheldUntouched
    <2>1. r \in P!Records \cup P!Gone
      BY DEF CInv, ChangedInv
    <2>2. Ready(r)
      BY <2>1 DEF CInv, GateInv, deliverable_records, delete_ids, _stale_record_ids
    <2> QED BY <2>2, ReadyIsGrounded
  <1> QED BY <1>1, RunInvariance, PTL

\* A record disappears only if OCI listed its resource as terminated, in a run that is
\* neither a dry one nor a sampled one.
THEOREM DeletesTerminated == Spec => []DeletesOnlyTheDead
  <1>1. CInv => DeletesOnlyTheDead
    <2> SUFFICES ASSUME CInv, NEW r \in Resource, start.store[r] = "old", store[r] = "absent"
                 PROVE  r \in excluded /\ (~Alive(r) \/ Reusable(r)) /\ ~dry_run /\ ~start.test_mode
      BY DEF DeletesOnlyTheDead
    <2>1. store[r] # start.store[r]
      OBVIOUS
    <2>2. r \in P!Gone /\ pc # "idle"
      BY <2>1 DEF CInv, ChangedInv, GateInv
    <2> QED BY <2>2 DEF CInv, GateInv, WorldInv, delete_ids, _stale_record_ids
  <1> QED BY <1>1, RunInvariance, PTL

\* What a run reports as "uploaded" is all there, and all that was dead is gone or told of.
THEOREM UploadsAreComplete == Spec => []UploadedMeansComplete
  <1>1. FullInv /\ [Next]_vars => FullInv'
    BY CStepKeeps, SeenKeeps, EndStays, OutcomeKeeps DEF FullInv
  <1>2. FullInv => UploadedMeansComplete
    <2> SUFFICES ASSUME FullInv, outcome = "uploaded", NEW r \in Resource \ (unsteady \cup start.hidden),
                        CollectedBy[r] \in start.enabled
                 PROVE  /\ life[r] = "live" /\ r \notin start.malformed => store[r] = "new"
                        /\ start.life[r] = "terminal" /\ life[r] = "terminal" /\ ~start.test_mode =>
                             \/ store[r] = "absent"
                             \/ \E n \in 1..Len(cleared) : deletes[n] = r /\ cleared[n] # "ok"
      BY DEF UploadedMeansComplete
    <2> DEFINE c == CollectedBy[r]
    <2>1. c \in Collector /\ c \in start.enabled
      BY DEF FullInv, CInv
    <2>2. /\ pc = "delivered" /\ decision = "uploaded" /\ Domains \subseteq deliverable_domains
          /\ P!IInv /\ P!EndInv
      BY DEF FullInv, OutcomeInv, domains_withheld, CInv
    <2>3. _DOMAIN_BY_COLLECTOR[c] \in deliverable_domains
      BY <2>1, <2>2 DEF Domains
    <2> HIDE DEF c
    <2>4. discovery_complete /\ _DOMAIN_BY_COLLECTOR[c] \in CompleteDomains
      BY <2>3 DEF deliverable_domains
    <2>5. domain[c] \in {"complete", "skipped"}
      <3>1. PICK d \in Collector : /\ domain[d] \in {"complete", "skipped"}
                                   /\ _DOMAIN_BY_COLLECTOR[d] = _DOMAIN_BY_COLLECTOR[c]
        BY <2>4 DEF CompleteDomains
      <3> QED BY <2>1, <3>1, OneCollectorPerDomain
    <2>6. home[r] \notin unread[r] /\ SteadyInv(r)
      <3>1. r \in Sought(c)
        BY DEF Sought, c
      <3> QED BY <2>1, <2>4, <2>5, <3>1 DEF FullInv, SeenInv
    <2>7. Ready(r)
      BY <2>2 DEF Ready
    <2>8. P!Records = deliverable_records /\ P!Gone = delete_ids /\ ~dry_run
      BY <2>2 DEF FullInv, CInv, GateInv
    <2>9. ASSUME life[r] = "live", r \notin start.malformed
          PROVE  store[r] = "new"
      <3>1. r \in kept /\ r \notin excluded
        BY <2>6, <2>9 DEF SteadyInv
      <3>2. r \in P!Records /\ r \notin P!Gone
        BY <2>7, <2>8, <2>9, <3>1 DEF deliverable_records, delete_ids, _stale_record_ids
      <3>3. P!Delivered = P!Records
        BY <2>2, P!AllDelivered, RunAssumption DEF P!IInv, P!OrderInv
      <3> QED BY <2>2, <3>2, <3>3 DEF P!IInv, P!DeliveredAreStored
    <2>10. ASSUME start.life[r] = "terminal", life[r] = "terminal", ~start.test_mode
           PROVE  \/ store[r] = "absent"
                  \/ \E n \in 1..Len(cleared) : deletes[n] = r /\ cleared[n] # "ok"
      <3>1. r \in excluded /\ r \notin kept
        BY <2>6, <2>10 DEF SteadyInv
      <3>2. r \in P!Gone /\ r \notin P!Records
        BY <2>7, <2>8, <2>10, <3>1 DEF deliverable_records, delete_ids, _stale_record_ids
      <3>3. PICK n \in 1..Len(deletes) : deletes[n] = r
        BY <3>2 DEF P!Gone
      <3>4. Len(cleared) = Len(deletes)
        BY <2>2 DEF P!EndInv
      <3> QED BY <2>2, <3>2, <3>3, <3>4 DEF P!IInv, P!ClearedAreAbsent
    <2> QED BY <2>9, <2>10
  <1> QED BY <1>1, <1>2, FullInit, PTL DEF Spec

-----------------------------------------------------------------------------
(* Where the secrets come from.                                             *)

\* An override may do away with what is around a credential, but then the section that
\* was there is no section any more, and the configuration is not accepted.
ReferenceInv ==
  /\ raw \in [Key -> Value]
  /\ step # "run" => setup \in Setups /\ todo \subseteq setup.env
  /\ step \in {"overrides", "build"} =>
       \A k \in Guarded : \/ raw[k] = setup.file[k]
                          \/ \E a \in Above[k] \ Credential : raw[a] # "object"
  /\ step = "build" => ~HasInlineSecret(raw)
  /\ step \in {"main", "token", "signer"} =>
       ~HasInlineSecret(raw) /\ \A k \in Guarded : raw[k] = setup.file[k]

USE KeyAssumption, SetupsAssumption

\* An override replaces an object by something else, and leaves everything guarded.
LEMMA OverrideKeeps ==
  ASSUME ReferenceInv, Override
  PROVE  ReferenceInv'
  <1>1. PICK o \in todo :
          LET v == IF IsOpen(o.key) THEN Coerced(raw[o.key], o.value) ELSE "refused"
          IN  IF v \in {"refused", "crashed"} THEN step' = v /\ UNCHANGED <<raw, todo>>
              ELSE raw' = Replaced(o.key, v) /\ todo' = todo \ {o} /\ UNCHANGED step
    BY DEF Override
  <1>2. CASE step' \in {"refused", "crashed"} /\ UNCHANGED <<raw, todo>>
    BY <1>2 DEF ReferenceInv, Override
  <1>3. CASE /\ IsOpen(o.key) /\ UNCHANGED step /\ todo' = todo \ {o}
             /\ raw' = Replaced(o.key, Coerced(raw[o.key], o.value))
             /\ Coerced(raw[o.key], o.value) \notin {"refused", "crashed"}
    <2> DEFINE v == Coerced(raw[o.key], o.value)
    <2>1. o.key \in Key /\ raw[o.key] \in Value
      BY DEF ReferenceInv, Override
    <2>2. v \in Value \ {"object"}
      BY <1>3, <2>1 DEF Coerced, Value, Text, Boolean, Number, List
    <2> HIDE DEF v
    <2>3. raw' = [j \in Key |-> IF j = o.key THEN v ELSE IF o.key \in Above[j] THEN "missing" ELSE raw[j]]
      BY <1>3 DEF Replaced, v
    <2>4. raw' \in [Key -> Value]
      BY <2>2, <2>3 DEF ReferenceInv, Value
    <2>5. ASSUME NEW k \in Guarded
          PROVE  \/ raw'[k] = setup.file[k]
                 \/ \E a \in Above[k] \ Credential : raw'[a] # "object"
      <3>1. k \in Key /\ Above[k] \subseteq Key
        BY DEF Guarded
      <3>2. o.key # k
        BY <1>3, <2>5 DEF IsOpen, Guarded
      <3>3. CASE o.key \in Above[k]
        <4>1. o.key \notin Credential /\ raw'[o.key] # "object"
          BY <1>3, <2>1, <2>2, <2>3 DEF IsOpen
        <4> QED BY <3>3, <4>1
      <3>4. CASE o.key \notin Above[k]
        <4>1. raw'[k] = raw[k]
          BY <2>3, <3>1, <3>2, <3>4
        <4>2. \A a \in Above[k] : raw[a] # "object" => raw'[a] # "object"
          BY <2>2, <2>3, <3>1
        <4>3. step = "overrides"
          BY DEF Override
        <4> QED BY <4>1, <4>2, <4>3 DEF ReferenceInv
      <3> QED BY <3>3, <3>4
    <2> QED BY <1>3, <2>4, <2>5 DEF ReferenceInv, Override
  <1> QED BY <1>1, <1>2, <1>3

\* What is accepted has every section a credential is in.
LEMMA BuildKeeps == ASSUME ReferenceInv, Build PROVE ReferenceInv'
  <1>1. step = "build" /\ UNCHANGED <<setup, raw, todo>>
    BY DEF Build, configVars
  <1>2. CASE step' \in {"refused", "crashed"}
    BY <1>1, <1>2 DEF ReferenceInv
  <1>3. CASE step' = "main"
    <2>1. \A j \in 1..Len(Fields) : May(j, "ok")
      BY <1>3 DEF Build
    <2>2. ASSUME NEW k \in Guarded, NEW a \in Above[k] \ Credential
          PROVE  raw[a] = "object"
      <3>1. PICK i \in 1..Len(Fields) : Fields[i] = a
        BY <2>2
      <3>2. Kind[a] = "object"
        BY <2>2
      <3>3. Outcome("object")["ok"] = {"object"}
        BY DEF Outcome
      <3> QED BY <2>1, <3>1, <3>2, <3>3 DEF May
    <2> QED BY <1>1, <1>3, <2>2 DEF ReferenceInv
  <1> QED BY <1>2, <1>3 DEF Build

\* The file is searched before it is taken, and the tree again after the overrides.
LEMMA StartKeeps == ReferenceInv /\ [Next]_vars => ReferenceInv'
  <1> SUFFICES ASSUME ReferenceInv, [Next]_vars PROVE ReferenceInv'
    OBVIOUS
  <1>1. CASE ReadFile
    BY <1>1 DEF ReadFile, ReferenceInv
  <1>2. CASE Rescan
    BY <1>2 DEF Rescan, ReferenceInv, configVars
  <1>3. CASE SetDryRun(start.dry_run) \/ TryToken
    BY <1>3 DEF SetDryRun, TryToken, ReferenceInv, configVars, HasInlineSecret
  <1>4. CASE Discover
    BY <1>4 DEF Discover, ReferenceInv, Blank, Value
  <1>5. CASE UNCHANGED startupVars
    BY <1>5 DEF startupVars, configVars, ReferenceInv, HasInlineSecret
  <1>6. CASE Begin
    BY <1>1, <1>2, <1>3, <1>6, OverrideKeeps, BuildKeeps DEF Begin, Starting
  <1>7. Begin \/ Discover \/ UNCHANGED startupVars
    BY DEF Next, Program, ConfigError, AuthError, CollectionFails, StartCollector, See,
       FinishCollector, CrashCollector, Gate, DeliveryStep, DeliveryReturns, WriteOutput,
       WriteFails, OciChanges, DrataSettles, vars
  <1> QED BY <1>4, <1>5, <1>6, <1>7

\* Whatever the file holds and the environment overrides: a configuration the run goes on
\* with holds no secret, and refers to its secrets as its file does.
THEOREM SecretsByReference == Spec => []SecretsStayReferences
  <1>1. Init => ReferenceInv
    BY DEF Init, StartupInit, ReferenceInv, Blank, Value
  <1>2. ReferenceInv => SecretsStayReferences
    BY DEF ReferenceInv, SecretsStayReferences, HasInlineSecret
  <1> QED BY <1>1, <1>2, StartKeeps, PTL DEF Spec

-----------------------------------------------------------------------------
(* What makes a run a dry one.                                              *)

\* A dry run that is asked for is in the tree once the overrides are, and then in force.
DryInv ==
  AsksForDryRun =>
    /\ step = "overrides" =>
         raw[DryRun] \in Boolean /\ (raw[DryRun] = "true" \/ \E o \in todo : o.key = DryRun)
    /\ step \in {"build", "main"} => raw[DryRun] = "true"
    /\ step \in {"token", "signer"} => dry_run

\* No override that asks for it, and none beside it, takes it back.
LEMMA OverrideStaysDry ==
  ASSUME ReferenceInv, DryInv, AsksForDryRun, Override, UNCHANGED step
  PROVE  raw'[DryRun] \in Boolean /\ (raw'[DryRun] = "true" \/ \E o \in todo' : o.key = DryRun)
  <1>1. PICK o \in todo :
          /\ raw' = Replaced(o.key, Coerced(raw[o.key], o.value))
          /\ todo' = todo \ {o}
    BY DEF Override
  <1>2. /\ step = "overrides" /\ DryRun \in Key
        /\ o.key \notin Above[DryRun] /\ (o.key = DryRun => o.value = "true")
    BY DEF Override, ReferenceInv, AsksForDryRun
  <1>3. raw[DryRun] \in Boolean /\ (raw[DryRun] = "true" \/ \E p \in todo : p.key = DryRun)
    BY <1>2 DEF DryInv
  <1>4. CASE o.key = DryRun
    <2>1. Coerced(raw[o.key], o.value) = "true"
      BY <1>2, <1>3, <1>4 DEF Coerced, Boolean
    <2> QED BY <1>1, <1>2, <1>4, <2>1 DEF Replaced, Boolean
  <1>5. CASE o.key # DryRun
    <2>1. raw'[DryRun] = raw[DryRun]
      BY <1>1, <1>2, <1>5 DEF Replaced
    <2> QED BY <1>1, <1>3, <1>5, <2>1
  <1> QED BY <1>4, <1>5

\* The file is taken with its flag, the overrides are carried out, and main obeys.
LEMMA DryKeeps == ReferenceInv /\ DryInv /\ [Next]_vars => DryInv'
  <1> SUFFICES ASSUME ReferenceInv, DryInv, [Next]_vars, AsksForDryRun' PROVE DryInv'
    BY DEF DryInv
  <1>1. CASE Discover
    BY <1>1 DEF Discover, AsksForDryRun
  <1>2. CASE UNCHANGED startupVars
    BY <1>2 DEF startupVars, configVars, DryInv, AsksForDryRun
  <1>3. CASE Begin
    <2>1. UNCHANGED setup /\ AsksForDryRun /\ Starting(start.dry_run)
      BY <1>3 DEF Begin, Starting, ReadFile, Override, Rescan, Build, SetDryRun, TryToken, configVars,
         AsksForDryRun
    <2>2. CASE ReadFile
      BY <2>1, <2>2 DEF ReadFile, DryInv, AsksForDryRun
    <2>3. CASE Override
      <3>1. UNCHANGED step \/ step' \in {"refused", "crashed"}
        BY <2>3 DEF Override
      <3>2. step = "overrides"
        BY <2>3 DEF Override
      <3> QED BY <2>1, <2>3, <3>1, <3>2, OverrideStaysDry DEF DryInv
    <2>4. CASE Rescan \/ Build
      BY <2>1, <2>4 DEF Rescan, Build, DryInv, configVars
    <2>5. CASE SetDryRun(start.dry_run) \/ TryToken
      BY <2>1, <2>5 DEF SetDryRun, TryToken, effective_dry_run, DryInv, configVars
    <2> QED BY <2>1, <2>2, <2>3, <2>4, <2>5 DEF Starting
  <1> QED
    BY <1>1, <1>2, <1>3
       DEF Next, Program, ConfigError, AuthError, CollectionFails, StartCollector, See,
       FinishCollector, CrashCollector, Gate, DeliveryStep, DeliveryReturns, WriteOutput,
       WriteFails, OciChanges, DrataSettles, vars

\* When the command line, the file or the environment asks for a dry run, it is one, and
\* Drata is left alone.
THEOREM DryRuns == Spec => []DryRunSendsNothing
  <1>1. Init => ReferenceInv /\ DryInv
    BY DEF Init, StartupInit, ReferenceInv, DryInv, Blank, Value
  <1>2. CInv /\ DryInv => DryRunSendsNothing
    BY DEF CInv, StepInv, GateInv, DryInv, DryRunSendsNothing, P!IInv, P!OrderInv
  <1> QED BY <1>1, <1>2, StartKeeps, DryKeeps, RunInvariance, PTL DEF Spec

-----------------------------------------------------------------------------
(* Types, and the bound of the pool.                                        *)

Running == {c \in Collector : thread[c] = "running"}

\* What the other invariants do not say of the types.
ShapeInv ==
  /\ main \in Main /\ exit \in Exit /\ files \subseteq {"report", "records"}
  /\ thread \in [Collector -> {"queued", "running", "returned", "crashed"}]
  /\ Cardinality(Running) <= MaxWorkers
  /\ {discovery_complete, dangling, dry_run} \subseteq BOOLEAN
  /\ outcome \in {"none", "skipped_dry_run", "blocked", "delivery_failed", "cleanup_only",
                  "uploaded", "uploaded_partial"}
  /\ step \in Steps

\* A collector that ends leaves no more running than before.
LEMMA FewerRun ==
  ASSUME NEW S \in SUBSET Running
  PROVE  Cardinality(S) \in Nat /\ Cardinality(Running) \in Nat /\ Cardinality(S) <= Cardinality(Running)
  <1>1. IsFiniteSet(Running)
    BY FS_Subset DEF Running
  <1> QED BY <1>1, FS_Subset, FS_CardinalityType

\* The pool starts one only while fewer than MaxWorkers run.
LEMMA PoolKeeps ==
  ASSUME ShapeInv, NEW c \in Collector,
         StartCollector(c) \/ FinishCollector(c) \/ CrashCollector(c)
  PROVE  /\ thread' \in [Collector -> {"queued", "running", "returned", "crashed"}]
         /\ Cardinality(Running') <= MaxWorkers
  <1>1. thread' \in [Collector -> {"queued", "running", "returned", "crashed"}]
    <2>1. \E t \in {"running", "returned", "crashed"} : thread' = [thread EXCEPT ![c] = t]
      BY DEF StartCollector, FinishCollector, CrashCollector
    <2> QED BY <2>1 DEF ShapeInv
  <1>2. CASE FinishCollector(c) \/ CrashCollector(c)
    <2>1. Running' \in SUBSET Running
      BY <1>2 DEF Running, ShapeInv, FinishCollector, CrashCollector
    <2>2. /\ Cardinality(Running') \in Nat /\ Cardinality(Running) \in Nat
          /\ Cardinality(Running') <= Cardinality(Running)
      BY <2>1, FewerRun
    <2>3. Cardinality(Running) <= MaxWorkers
      BY DEF ShapeInv
    <2> QED BY <1>1, <2>2, <2>3
  <1>3. CASE StartCollector(c)
    <2>1. Running' = Running \cup {c} /\ c \notin Running
      BY <1>3 DEF Running, ShapeInv, StartCollector
    <2>2. IsFiniteSet(Running)
      BY FS_Subset DEF Running
    <2>3. Cardinality(Running \cup {c}) = Cardinality(Running) + 1
      BY <2>1, <2>2, FS_AddElement
    <2>4. ~(Cardinality(Running) >= MaxWorkers)
      BY <1>3 DEF StartCollector, PoolFull, Running
    <2> QED BY <1>1, <2>1, <2>3, <2>4, FewerRun
  <1> QED BY <1>2, <1>3

\* Every step keeps the shape.
LEMMA ShapeKeeps == CInv /\ ShapeInv /\ [Next]_vars => ShapeInv'
  <1> SUFFICES ASSUME CInv, ShapeInv, [Next]_vars PROVE ShapeInv'
    OBVIOUS
  <1>0. UNCHANGED thread => Running' = Running
    BY DEF Running
  <1> USE DEF Main, Exit, Steps
  <1>1. CASE Begin
    <2>1. UNCHANGED <<runVars>> /\ Starting(start.dry_run) /\ start.dry_run \in BOOLEAN
      BY <1>1 DEF Begin, CInv
    <2>2. step' \in Steps /\ dry_run' \in BOOLEAN
      BY <2>1 DEF ShapeInv, Starting, ReadFile, Override, Rescan, Build, SetDryRun, TryToken,
         effective_dry_run
    <2> QED BY <1>0, <2>1, <2>2 DEF ShapeInv, runVars
  <1>2. CASE ConfigError \/ AuthError \/ Discover \/ CollectionFails
    <2>1. CASE ConfigError
      BY <1>0, <2>1 DEF ShapeInv, ConfigError, Leave, startupVars
    <2>2. CASE AuthError
      BY <1>0, <2>2 DEF ShapeInv, AuthError, Leave, startupVars
    <2>3. CASE Discover
      BY <1>0, <2>3 DEF ShapeInv, Discover, startupVars
    <2>4. CASE CollectionFails
      BY <1>0, <2>4 DEF ShapeInv, CollectionFails, Leave, startupVars
    <2> QED BY <1>2, <2>1, <2>2, <2>3, <2>4
  <1>3. ASSUME NEW c \in Collector, StartCollector(c) \/ FinishCollector(c) \/ CrashCollector(c)
        PROVE  ShapeInv'
    <2>1. /\ UNCHANGED <<main, exit, files, discovery_complete, outcome, step, dry_run>>
          /\ dangling' \in BOOLEAN
      BY <1>3 DEF StartCollector, FinishCollector, CrashCollector, ShapeInv, startupVars
    <2> QED BY <1>3, <2>1, PoolKeeps DEF ShapeInv
  <1>4. ASSUME NEW c \in Collector, See(c)
        PROVE  ShapeInv'
    BY <1>0, <1>4 DEF ShapeInv, See, startupVars
  <1>5. CASE Gate
    BY <1>0, <1>5 DEF ShapeInv, Gate, startupVars
  <1>6. CASE DeliveryReturns
    <2>1. decision \in {"none", "delivery_failed", "cleanup_only", "uploaded"}
      BY DEF CInv, P!IInv, P!TypeOK
    <2> QED BY <1>0, <1>6, <2>1 DEF ShapeInv, DeliveryReturns, startupVars
  <1>7. CASE WriteOutput \/ WriteFails
    BY <1>0, <1>7 DEF ShapeInv, WriteOutput, WriteFails, Leave, startupVars
  <1>8. CASE DeliveryStep \/ OciChanges \/ DrataSettles \/ UNCHANGED vars
    <2>1. UNCHANGED <<runVars, startupVars>>
      BY <1>8 DEF DeliveryStep, OciChanges, DrataSettles, vars
    <2> QED BY <1>0, <2>1 DEF ShapeInv, runVars, startupVars
  <1> QED BY <1>1, <1>2, <1>3, <1>4, <1>5, <1>6, <1>7, <1>8 DEF Next, Program

\* Every variable keeps its type, and no more than MaxWorkers collectors run at a time.
THEOREM RunTypes == Spec => []TypeOK
  <1>1. Init => ShapeInv
    <2> SUFFICES ASSUME Init PROVE ShapeInv
      OBVIOUS
    <2>1. Running = {}
      BY DEF Init, Running
    <2>2. Cardinality(Running) = 0
      BY <2>1, FS_EmptySet
    <2>3. Cardinality(Running) <= MaxWorkers
      BY <2>2
    <2>4. /\ main \in Main /\ exit \in Exit /\ files \subseteq {"report", "records"}
          /\ thread \in [Collector -> {"queued", "running", "returned", "crashed"}]
          /\ step \in Steps
      BY DEF Init, StartupInit, Main, Exit, Steps
    <2>5. {discovery_complete, dangling, dry_run} \subseteq BOOLEAN /\ outcome = "none"
      BY DEF Init, StartupInit
    <2> QED BY <2>3, <2>4, <2>5 DEF ShapeInv
  <1>2. Init => ReferenceInv
    BY DEF Init, StartupInit, ReferenceInv, Blank, Value
  <1>3. CInv /\ SeenInv /\ ReferenceInv /\ ShapeInv => TypeOK
    <2> SUFFICES ASSUME CInv, SeenInv, ReferenceInv, ShapeInv PROVE TypeOK
      OBVIOUS
    <2>1. Delivery!TypeOK
      BY DEF CInv, P!IInv, P!TypeOK, Delivery!TypeOK, P!Version, Delivery!Version, P!PC,
             Delivery!PC, P!ErrorClass, Delivery!ErrorClass
    <2>2. StartupTypeOK
      BY DEF ShapeInv, ReferenceInv, StartupTypeOK
    <2> QED BY <2>1, <2>2 DEF TypeOK, CInv, WorldInv, SeenInv, ShapeInv, Running
  <1>4. CInv /\ SeenInv /\ ReferenceInv /\ ShapeInv /\ [Next]_vars =>
          CInv' /\ SeenInv' /\ ReferenceInv' /\ ShapeInv'
    BY CStepKeeps, SeenKeeps, StartKeeps, ShapeKeeps
  <1>5. Init => SeenInv
    BY FullInit DEF FullInv
  <1> QED BY <1>1, <1>2, <1>3, <1>4, <1>5, CInitKeeps, PTL DEF Spec

-----------------------------------------------------------------------------
(* The ledger.                                                              *)

\* What the run does to Drata, step by step: until the gate nothing, then it opens the
\* ledger for what is ready; the rest is the delivery's, or invisible.
LEMMA RunStepRefines == CInv /\ [Next]_vars => [P!Ledger!Next]_(P!Ledger!vars)
  <1> SUFFICES ASSUME CInv, [Next]_vars PROVE [P!Ledger!Next]_(P!Ledger!vars)
    OBVIOUS
  <1>1. CASE P!Client \/ P!Settle \/ UNCHANGED P!vars
    <2>1. [P!Next]_(P!vars)
      BY <1>1 DEF P!Next
    <2> QED BY <2>1, P!StepRefines, RunAssumption DEF CInv
  <1>2. CASE P!Deliver(deliverable_records, delete_ids)
    <2>1. deliverable_records \in SUBSET Resource /\ delete_ids \in SUBSET Resource
      BY DEF deliverable_records, delete_ids, _stale_record_ids, CInv, WorldInv
    <2> QED BY <1>2, <2>1, P!DeliverRefines, RunAssumption DEF P!Ledger!Next
  <1>3. \/ P!Client \/ P!Settle \/ UNCHANGED P!vars
        \/ P!Deliver(deliverable_records, delete_ids)
    BY SameClient, SameSettle, SameDeliver
       DEF Next, Program, Begin, ConfigError, AuthError, Discover, CollectionFails,
       StartCollector, See, FinishCollector, CrashCollector, Gate, DeliveryStep, DeliveryReturns,
       WriteOutput, WriteFails, OciChanges, DrataSettles, vars, deliveryVars, P!vars
  <1> QED BY <1>1, <1>2, <1>3

-----------------------------------------------------------------------------
(* The run goes forward.                                                    *)

MainRank(m) ==
  CASE m = "start" -> 0 [] m = "collect" -> 1 [] m = "deliver" -> 2 [] m = "write" -> 3
    [] OTHER -> 4

StepRank(s) ==
  CASE s = "file" -> 0 [] s = "overrides" -> 1 [] s = "build" -> 2 [] s = "main" -> 3
    [] s = "token" -> 4 [] s = "signer" -> 5 [] OTHER -> 6

ThreadRank(t) == CASE t = "queued" -> 0 [] t = "running" -> 1 [] OTHER -> 2

\* No part of the run is where it has been before.
NothingGoesBack ==
  /\ MainRank(main') >= MainRank(main)
  /\ StepRank(step') >= StepRank(step)
  /\ step' = step => todo' \subseteq todo
  /\ \A c \in Collector : ThreadRank(thread'[c]) >= ThreadRank(thread[c])
  /\ \A r \in Resource : unread'[r] \subseteq unread[r]
  /\ kept \subseteq kept' /\ excluded \subseteq excluded'
  /\ pc # "idle" => P!Left' <= P!Left

\* Some part is further: main, the start or one of its overrides, a collector or one of
\* its listings, or the delivery.
SomethingAdvances ==
  \/ MainRank(main') > MainRank(main)
  \/ StepRank(step') > StepRank(step)
  \/ step' = step /\ todo' # todo
  \/ \E c \in Collector : ThreadRank(thread'[c]) > ThreadRank(thread[c])
  \/ \E r \in Resource : unread'[r] # unread[r]
  \/ pc # "idle" /\ P!Left' < P!Left

\* The parts that a step leaves alone.
SameStart == UNCHANGED <<step, todo>>
SamePool == UNCHANGED <<thread, found>>

\* The ranks are numbers, and a delivery left alone has as much left.
LEMMA Ranks ==
  ASSUME CInv
  PROVE  /\ \A m : MainRank(m) \in Nat /\ StepRank(m) \in Nat /\ ThreadRank(m) \in Nat
         /\ P!Left \in Nat
         /\ UNCHANGED deliveryVars => P!Left' = P!Left
  <1>1. \A m : MainRank(m) \in Nat /\ StepRank(m) \in Nat /\ ThreadRank(m) \in Nat
    BY DEF MainRank, StepRank, ThreadRank
  <1>2. P!Left \in Nat
    BY P!LeftIsNat, RunAssumption DEF CInv
  <1>3. UNCHANGED deliveryVars => P!Left' = P!Left
    BY DEF deliveryVars, P!Left, P!Open
  <1> QED BY <1>1, <1>2, <1>3

\* Reading and checking the configuration.
LEMMA BeginAdvances == CInv /\ TypeOK /\ Begin => NothingGoesBack /\ SomethingAdvances
  <1> SUFFICES ASSUME CInv, TypeOK, Begin PROVE NothingGoesBack /\ SomethingAdvances
    OBVIOUS
  <1>1. Starting(start.dry_run) /\ UNCHANGED <<runVars, ociVars, deliveryVars>>
    BY DEF Begin
  <1>2. \/ StepRank(step') > StepRank(step)
        \/ step' = step /\ todo' \subseteq todo /\ todo' # todo
    <2>1. CASE ReadFile
      BY <2>1 DEF ReadFile, StepRank
    <2>2. CASE Override
      <3>1. \/ step = "overrides" /\ step' \in {"refused", "crashed"}
            \/ \E o \in todo : todo' = todo \ {o} /\ step' = step
        BY <2>2 DEF Override
      <3> QED BY <3>1 DEF StepRank
    <2>3. CASE Rescan \/ Build
      BY <2>3 DEF Rescan, Build, StepRank
    <2>4. CASE SetDryRun(start.dry_run) \/ TryToken
      BY <2>4 DEF SetDryRun, TryToken, StepRank
    <2> QED BY <1>1, <2>1, <2>2, <2>3, <2>4 DEF Starting
  <1>3. StepRank(step') >= StepRank(step) /\ (step' = step => todo' \subseteq todo)
    BY <1>2, Ranks
  <1>4. /\ MainRank(main') >= MainRank(main) /\ P!Left' <= P!Left
        /\ \A c \in Collector : ThreadRank(thread'[c]) >= ThreadRank(thread[c])
    BY <1>1, Ranks DEF runVars
  <1>5. UNCHANGED found
    BY <1>1 DEF runVars
  <1>6. NothingGoesBack
    BY <1>3, <1>4, <1>5 DEF NothingGoesBack
  <1> QED BY <1>2, <1>6 DEF SomethingAdvances

\* The collectors.
LEMMA PoolAdvances ==
  ASSUME CInv, TypeOK, NEW c \in Collector,
         StartCollector(c) \/ See(c) \/ FinishCollector(c) \/ CrashCollector(c)
  PROVE  NothingGoesBack /\ SomethingAdvances
  <1>1. UNCHANGED <<main, deliveryVars>> /\ SameStart
    BY DEF StartCollector, See, FinishCollector, CrashCollector, startupVars, configVars, SameStart
  <1>0. /\ MainRank(main') >= MainRank(main) /\ P!Left' <= P!Left
        /\ StepRank(step') >= StepRank(step) /\ (step' = step => todo' \subseteq todo)
    BY <1>1, Ranks DEF SameStart
  <1>2. CASE See(c)
    <2>1. PICK r \in Sought(c) : \E b \in unread[r] :
            /\ unread' = [unread EXCEPT ![r] = @ \ {b}]
            /\ kept \subseteq kept' /\ excluded \subseteq excluded'
      BY <1>2 DEF See
    <2>2. thread' = thread
      BY <1>2 DEF See
    <2>3. /\ \A i \in Resource : unread'[i] \subseteq unread[i]
          /\ unread'[r] # unread[r] /\ r \in Resource
      BY <2>1 DEF Sought, TypeOK
    <2>4. \A d \in Collector : ThreadRank(thread'[d]) >= ThreadRank(thread[d])
      BY <2>2, Ranks
    <2> QED BY <1>0, <2>1, <2>3, <2>4 DEF NothingGoesBack, SomethingAdvances
  <1>3. CASE StartCollector(c) \/ FinishCollector(c) \/ CrashCollector(c)
    <2>1. PICK t \in {"running", "returned", "crashed"} :
            /\ thread' = [thread EXCEPT ![c] = t]
            /\ ThreadRank(t) > ThreadRank(thread[c])
      BY <1>3 DEF StartCollector, FinishCollector, CrashCollector, ThreadRank
    <2>2. UNCHANGED found
      BY <1>3 DEF StartCollector, FinishCollector, CrashCollector
    <2>3. /\ thread'[c] = t
          /\ \A d \in Collector : d # c => thread'[d] = thread[d]
      BY <2>1 DEF TypeOK
    <2>4. \A d \in Collector : ThreadRank(thread'[d]) >= ThreadRank(thread[d])
      <3> SUFFICES ASSUME NEW d \in Collector
                   PROVE  ThreadRank(thread'[d]) >= ThreadRank(thread[d])
        OBVIOUS
      <3>1. CASE d = c
        <4>1. ThreadRank(t) \in Nat /\ ThreadRank(thread[c]) \in Nat
          BY Ranks
        <4> QED BY <3>1, <4>1, <2>1, <2>3
      <3>2. CASE d # c
        <4>1. ThreadRank(thread[d]) \in Nat
          BY Ranks
        <4> QED BY <2>3, <3>2, <4>1
      <3> QED BY <3>1, <3>2
    <2>5. NothingGoesBack
      BY <1>0, <2>2, <2>4 DEF NothingGoesBack
    <2> QED BY <2>1, <2>3, <2>5 DEF SomethingAdvances
  <1> QED BY <1>2, <1>3

\* From one part of main to the next.
LEMMA MainAdvances ==
  ASSUME CInv, TypeOK,
         ConfigError \/ AuthError \/ Discover \/ CollectionFails \/ Gate \/ DeliveryReturns
           \/ WriteOutput \/ WriteFails
  PROVE  NothingGoesBack /\ SomethingAdvances
  <1>1. MainRank(main') > MainRank(main)
    BY DEF ConfigError, AuthError, Discover, CollectionFails, Gate, DeliveryReturns, WriteOutput,
           WriteFails, Leave, MainRank
  <1>2. SamePool
    BY DEF ConfigError, AuthError, Discover, CollectionFails, Gate, DeliveryReturns, WriteOutput,
           WriteFails, SamePool
  <1>3. SameStart \/ (step = "signer" /\ step' = "run")
    BY DEF ConfigError, AuthError, Discover, CollectionFails, Gate, DeliveryReturns, WriteOutput,
           WriteFails, SameStart, startupVars, configVars
  <1>4. StepRank(step') >= StepRank(step) /\ (step' = step => todo' \subseteq todo)
    BY <1>3, Ranks DEF SameStart, StepRank
  <1>5. UNCHANGED deliveryVars \/ pc = "idle"
    BY SameDeliver
       DEF ConfigError, AuthError, Discover, CollectionFails, Gate, DeliveryReturns, WriteOutput,
           WriteFails, P!Deliver
  <1>6. MainRank(main') >= MainRank(main)
    BY <1>1, Ranks
  <1>7. /\ \A c \in Collector : ThreadRank(thread'[c]) >= ThreadRank(thread[c])
        /\ \A r \in Resource : unread'[r] \subseteq unread[r]
        /\ kept \subseteq kept' /\ excluded \subseteq excluded'
    BY <1>2, Ranks DEF SamePool
  <1>8. pc # "idle" => P!Left' <= P!Left
    BY <1>5, Ranks
  <1> QED
    BY <1>1, <1>4, <1>6, <1>7, <1>8 DEF NothingGoesBack, SomethingAdvances

\* The delivery goes forward by StepsRunOut; OCI and Drata do not set it back.
LEMMA SendingAdvances ==
  ASSUME CInv, TypeOK, DeliveryStep \/ DrataSettles
  PROVE  NothingGoesBack /\ (DeliveryStep => SomethingAdvances)
  <1>1. UNCHANGED main /\ SameStart /\ SamePool
    BY DEF DeliveryStep, DrataSettles, runVars, startupVars, configVars, SameStart, SamePool
  <1>2. P!IInv
    BY DEF CInv
  <1>3. CASE DeliveryStep
    <2>1. P!Client
      BY <1>3, SameClient DEF DeliveryStep
    <2>2. P!Left' < P!Left /\ P!Left' \in Int /\ P!Left \in Nat
      BY <1>2, <2>1, P!ClientShrinks, P!LeftIsNat, RunAssumption
    <2>3. pc # "idle"
      BY <2>1 DEF P!Client, P!ResolveToken, P!TokenUnreadable, P!Upsert, P!PostAccepted,
         P!PostPartlyAccepted, P!PostRefused, P!PostUnanswered, P!Decide, P!Delete,
         P!DeleteAccepted, P!DeleteRefused, P!DeleteUnanswered
    <2> QED
      BY <1>1, <2>2, <2>3, Ranks DEF NothingGoesBack, SomethingAdvances, SameStart, SamePool
  <1>4. CASE DrataSettles
    <2>1. (P!Settle /\ ~DeliveryStep) \/ DeliveryStep
      BY <1>4, SameSettle DEF DrataSettles
    <2>2. CASE P!Settle /\ ~DeliveryStep
      <3>1. P!Left' = P!Left
        BY <2>2 DEF P!Settle, P!Left, P!Open
      <3> QED BY <1>1, <2>2, <3>1, Ranks DEF NothingGoesBack, SameStart, SamePool
    <2> QED BY <1>3, <2>1, <2>2
  <1> QED BY <1>3, <1>4

\* From the command line to the exit code, with whatever collectors fail or crash and
\* whatever is lost or late, a run does to Drata what EvidenceLedger allows one delivery.
THEOREM RunRefines == Spec => P!ImplementsLedger
  <1>1. Init => P!Ledger!Init
    BY SameInit, P!InitRefines, RunAssumption DEF Init
  <1> QED
    BY <1>1, RunStepRefines, RunInvariance, PTL DEF Spec, P!ImplementsLedger, P!Ledger!Spec

\* A run goes forward only, whatever fails, crashes, is lost or comes late: each step of
\* the program brings some part of it further, among them the delivery by its count of
\* attempts (StepsRunOut), and no step, of OCI or Drata neither, sets a part back.
THEOREM RunGoesForward ==
  Spec => [][NothingGoesBack /\ (Program => SomethingAdvances)]_vars
  <1>1. ASSUME CInv, TypeOK, Next
        PROVE  (NothingGoesBack /\ (Program => SomethingAdvances)) \/ UNCHANGED vars
    <2>1. CASE Program
      BY <1>1, <2>1, BeginAdvances, PoolAdvances, MainAdvances, SendingAdvances DEF Program
    <2>2. CASE DrataSettles /\ ~Program
      BY <1>1, <2>2, SendingAdvances
    <2>3. CASE OciChanges /\ ~Program
      BY <1>1, <2>3, Ranks
         DEF OciChanges, NothingGoesBack, runVars, startupVars, configVars
    <2> QED BY <1>1, <2>1, <2>2, <2>3 DEF Next
  <1>2. CInv /\ TypeOK /\ [Next]_vars => [NothingGoesBack /\ (Program => SomethingAdvances)]_vars
    BY <1>1
  <1> QED BY <1>2, RunInvariance, RunTypes, PTL DEF Spec

=============================================================================
