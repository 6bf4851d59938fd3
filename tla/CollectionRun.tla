--------------------------- MODULE CollectionRun ---------------------------
(***************************************************************************)
(* One execution of the program: cli.main around runner.run.  The start is *)
(* module Startup's; then discovery,                                       *)
(* the collectors in their bounded thread pool, the gate that decides per  *)
(* domain what may be delivered and deleted, the delivery (module          *)
(* DrataDelivery, step by step), the output files and the exit code.       *)
(*                                                                         *)
(* OCI changes while the collectors read it: a resource is terminated, and *)
(* forgotten once its retention is over; it moves to another compartment;  *)
(* an API key is uploaded again under the id of a deleted one.  A listing  *)
(* is of one compartment, and every entry of it is read at its own moment. *)
(***************************************************************************)
EXTENDS Startup

CONSTANTS
  Resource,     \* the resources of the tenancy; each is the id of its record
  EvidenceType, \* evidence type of each resource
  Compartment,  \* the compartments listed; for a key, its vault's and its own together
  Collector,    \* the collectors of the run
  MaxWorkers,   \* runtime.maxConcurrency, at least 1 after _run_collectors' clamp
  MaxAttempts,  \* attempts of a Drata request
  MaxChanges,   \* how often OCI changes during the collection
  Starts        \* [dry_run, test_mode, enabled, life, home, hidden, store, malformed] to
                \* consider; hidden: the keys of vaults without a management endpoint

\* The states of a resource in OCI: "terminal" is still listed, "purged" no longer is;
\* "renewed" is live, with a deleted one of the same id still listed beside it.
Life == {"live", "terminal", "purged", "renewed"}

\* Collector name -> the domain its evidence belongs to.
_DOMAIN_BY_COLLECTOR ==
  [compute |-> "compute", storage |-> "blockStorage", networking |-> "networking",
   database_base |-> "baseDatabase", autonomous_database |-> "autonomousDatabase",
   vpn |-> "vpn", identity |-> "identity", object_storage |-> "objectStorage",
   cloud_guard |-> "cloudGuard", monitoring |-> "monitoring",
   load_balancer |-> "loadBalancer", waf |-> "waf", kms_vault |-> "kmsVault"]

\* EVIDENCE_TYPE_REQUIRED_DOMAINS: the domains that must all be complete before a
\* record of the type is delivered, or a stale one deleted.
RequiredDomains(type) ==
  CASE type = "instance" -> {"compute", "networking"}
    [] type \in {"boot_volume", "block_volume"} -> {"blockStorage"}
    [] type \in {"db_system", "database"} -> {"baseDatabase"}
    [] type = "autonomous_database" -> {"autonomousDatabase"}
    [] type = "ipsec_connection" -> {"vpn"}
    [] type \in {"iam_user", "api_key", "iam_policy"} -> {"identity"}
    [] type = "bucket" -> {"objectStorage"}
    [] type = "cloud_guard_configuration" -> {"cloudGuard"}
    [] type = "monitoring_alarm" -> {"monitoring"}
    [] type \in {"load_balancer", "load_balancer_backend_set"} -> {"loadBalancer"}
    [] type = "waf" -> {"waf"}
    [] type = "kms_key" -> {"kmsVault"}

EvidenceTypes ==
  {"instance", "boot_volume", "block_volume", "db_system", "database", "autonomous_database",
   "ipsec_connection", "iam_user", "api_key", "iam_policy", "bucket", "cloud_guard_configuration",
   "monitoring_alarm", "load_balancer", "load_balancer_backend_set", "waf", "kms_key"}

\* The collector that lists each resource.
CollectedBy ==
  [r \in Resource |->
     IF EvidenceType[r] = "instance" THEN "compute"
     ELSE CHOOSE c \in DOMAIN _DOMAIN_BY_COLLECTOR :
            _DOMAIN_BY_COLLECTOR[c] \in RequiredDomains(EvidenceType[r])]

\* Listed once, for the tenancy: users, their API keys, and Cloud Guard's configuration.
TenancyWide(r) == EvidenceType[r] \in {"iam_user", "api_key", "cloud_guard_configuration"}

\* The id of an API key is its fingerprint, the same when the key is uploaded again.
Reusable(r) == EvidenceType[r] = "api_key"

Domains == {_DOMAIN_BY_COLLECTOR[c] : c \in Collector}

ASSUME RunAssumption ==
  /\ EvidenceType \in [Resource -> EvidenceTypes]
  /\ Collector \subseteq DOMAIN _DOMAIN_BY_COLLECTOR /\ IsFiniteSet(Collector)
  /\ \A r \in Resource : RequiredDomains(EvidenceType[r]) \subseteq Domains
  /\ {MaxAttempts, MaxWorkers} \subseteq Nat \ {0} /\ MaxChanges \in Nat
ASSUME StartsAssumption ==
  \A s \in Starts :
    /\ {s.dry_run, s.test_mode} \subseteq BOOLEAN /\ s.enabled \subseteq Collector
    /\ s.home \in [Resource -> Compartment]
    /\ \A r \in s.hidden : EvidenceType[r] = "kms_key"
    /\ s.life \in [Resource -> Life] /\ \A r \in Resource : s.life[r] = "renewed" => Reusable(r)
    /\ s.store \in [Resource -> {"absent", "old"}]

-----------------------------------------------------------------------------
VARIABLES
  start,       \* the command line, the services enabled, and the world the run starts in
  main,        \* where cli.main is
  life,        \* OCI's side of each resource
  home,        \* the compartment it is listed in; what is listed through another resource
               \* (a database through its system, a key through its vault) moves with that
  unsteady,    \* the resources that moved, or whose id was given again (history)
  changes,     \* how often OCI has changed
  thread,      \* state of each collector in the pool
  discovery_complete,
  domain,      \* what each finished collector reports: "complete", "incomplete" (an operation
               \* failed, or --test's time budget cut it) or "skipped"
  unread,      \* the compartments whose listing has not come past each resource yet
  kept,        \* resources some collector returned in a live state
  excluded,    \* resources some collector returned in a terminal state (excluded_ids)
  dangling,    \* unresolved_relationship_count > 0
  outcome,     \* report["uploadDecision"]
  exit,        \* exit code by its name in runner.py, "running" before
  files,       \* the output files of this run: subset of {"report", "records"}
  \* the variables of module DrataDelivery
  store, unsettled, pc, batches, deletes, attempt, acks, cleared, decision

found == <<unread, kept, excluded>>
runVars == <<start, main, discovery_complete, domain, found, dangling, thread,
             outcome, exit, files>>
ociVars == <<life, home, unsteady, changes>>
deliveryVars == <<store, unsettled, pc, batches, deletes, attempt, acks, cleared, decision>>
vars == <<runVars, ociVars, deliveryVars, startupVars>>

Delivery == INSTANCE DrataDelivery WITH Id <- Resource, Workloads <- {}

Init ==
  /\ StartupInit
  /\ start \in Starts
  /\ main = "start"
  /\ life = start.life /\ home = start.home
  /\ changes = 0
  /\ unsteady = {r \in Resource : start.life[r] = "renewed"}
  /\ thread = [c \in Collector |-> "queued"]
  /\ discovery_complete = FALSE
  /\ domain = [c \in Collector |-> "none"]
  /\ unread = [r \in Resource |-> IF TenancyWide(r) THEN {home[r]} ELSE Compartment]
  /\ kept = {} /\ excluded = {} /\ dangling = FALSE
  /\ outcome = "none" /\ exit = "running" /\ files = {}
  /\ Delivery!Init /\ store = start.store

-----------------------------------------------------------------------------
(* cli.main up to the collection.                                           *)

Leave(code, written) ==
  /\ main' = "exited"
  /\ exit' = code
  /\ files' = written

\* Reading the configuration, without effect on anything else.
Begin ==
  /\ main = "start" /\ Starting(start.dry_run)
  /\ UNCHANGED <<runVars, ociVars, deliveryVars>>

\* A ConfigError of load_config or of the token: nothing is written.  Any other exception
\* leaves the interpreter with 1, the code of a blocked run.
ConfigError ==
  /\ main = "start" /\ step \in {"refused", "crashed"}
  /\ Leave(IF step = "refused" THEN "config_error" ELSE "blocked", {})
  /\ UNCHANGED <<start, discovery_complete, domain, found, dangling, thread,
                 outcome, ociVars, deliveryVars, startupVars>>

\* One of build_signer's checks fails, the AuthError or ConfigError is reported as far as
\* that can be written.
AuthError ==
  /\ main = "start" /\ step = "signer"
  /\ \E f \in {{}, {"report"}} : Leave("config_error", f)
  /\ UNCHANGED <<start, discovery_complete, domain, found, dangling, thread,
                 outcome, ociVars, deliveryVars, startupVars>>

\* The configuration does not change any more, and is left out from here on.
Discover ==
  /\ main = "start" /\ step = "signer"
  /\ discovery_complete' \in BOOLEAN
  /\ main' = "collect"
  /\ step' = "run"
  /\ setup' = [file |-> Unreadable, env |-> {}] /\ raw' = Blank /\ todo' = {}
  /\ UNCHANGED <<start, domain, found, dangling, thread, outcome, exit, files,
                 ociVars, deliveryVars, dry_run>>

-----------------------------------------------------------------------------
(* _run_collectors.                                                         *)

\* A thread for every collector at once.
NeverFull == FALSE

PoolFull == Cardinality({c \in Collector : thread[c] = "running"}) >= MaxWorkers

StartCollector(c) ==
  /\ main = "collect"
  /\ thread[c] = "queued"
  /\ ~PoolFull
  /\ thread' = [thread EXCEPT ![c] = "running"]
  /\ UNCHANGED <<start, main, discovery_complete, domain, found, dangling, outcome,
                 exit, files, ociVars, deliveryVars, startupVars>>

\* Live, and listed as such; and listed in a terminal state.
Alive(r) == life[r] \in {"live", "renewed"}
Dead(r) == life[r] \in {"terminal", "renewed"}

\* What a collector's listings can come upon: the keys of a vault are asked for at its
\* management endpoint, and passed over, with nothing failed, if it has none.
Sought(c) == {r \in Resource \ start.hidden : CollectedBy[r] = c}

\* The listing of one compartment comes to where it has one of the collector's resources if
\* that is in the compartment by now.  Compartments and pages are read at different
\* moments: a resource that moves may be listed twice, and in different states, or never.
See(c) ==
  /\ main = "collect"
  /\ thread[c] = "running" /\ c \in start.enabled
  /\ \E r \in Sought(c) : \E b \in unread[r] :
       /\ unread' = [unread EXCEPT ![r] = @ \ {b}]
       /\ kept' = kept \cup {i \in {r} : home[r] = b /\ Alive(r)}
       /\ excluded' = excluded \cup {i \in {r} : home[r] = b /\ Dead(r)}
  /\ UNCHANGED <<start, main, discovery_complete, domain, dangling, thread, outcome,
                 exit, files, ociVars, deliveryVars, startupVars>>

\* A disabled service reports one "skipped" operation.  An enabled one is complete if
\* none of its operations failed: it listed every compartment discovery found.
FinishCollector(c) ==
  /\ main = "collect"
  /\ thread[c] = "running"
  /\ thread' = [thread EXCEPT ![c] = "returned"]
  /\ \E status \in {"complete", "incomplete", "skipped"}, unresolved \in BOOLEAN :
       /\ status = "skipped" <=> c \notin start.enabled
       /\ status = "complete" /\ discovery_complete => \A r \in Sought(c) : unread[r] = {}
       /\ unresolved => c = "compute" /\ status # "skipped"
       /\ domain' = [domain EXCEPT ![c] = status]
       /\ dangling' = (dangling \/ unresolved)
  /\ UNCHANGED <<start, main, discovery_complete, found, outcome, exit, files,
                 ociVars, deliveryVars, startupVars>>

\* A programmer error, or an operation the client guard refuses: the future holds
\* the exception, the other collectors go on.
CrashCollector(c) ==
  /\ main = "collect"
  /\ thread[c] = "running"
  /\ thread' = [thread EXCEPT ![c] = "crashed"]
  /\ UNCHANGED <<start, main, discovery_complete, domain, found, dangling, outcome,
                 exit, files, ociVars, deliveryVars, startupVars>>

\* A pool that waits for results only.
AllReturned == \A c \in Collector : thread[c] = "returned"

Collected == \A c \in Collector : thread[c] \in {"returned", "crashed"}

\* The pool is left only when every collector has ended; then the first exception is
\* raised again and the whole run fails, as it does when build_flat_records raises.
CollectionFails ==
  /\ main = "collect" /\ Collected
  /\ \E f \in {{}, {"report"}} : Leave("unexpected", f)
  /\ UNCHANGED <<start, discovery_complete, domain, found, dangling, thread,
                 outcome, ociVars, deliveryVars, startupVars>>

-----------------------------------------------------------------------------
(* _gate and _stale_record_ids.                                             *)

\* operations_complete of the collectors' operations.
CompleteDomains ==
  {_DOMAIN_BY_COLLECTOR[c] : c \in {d \in Collector : domain[d] \in {"complete", "skipped"}}}

\* A dangling join is counted, and withholds nothing.
IgnoresDangling == IF discovery_complete THEN CompleteDomains ELSE {}

deliverable_domains ==
  IF discovery_complete
  THEN CompleteDomains \ (IF dangling THEN {"compute"} ELSE {})
  ELSE {}

\* Nothing is reported as withheld.
NothingWithheld == {}

domains_withheld == Domains \ deliverable_domains

Ready(r) == RequiredDomains(EvidenceType[r]) \subseteq deliverable_domains

deliverable_records == {r \in kept \ start.malformed : Ready(r)}

_stale_record_ids == {r \in excluded : Ready(r)}

\* Cleanup in every run that talks to Drata.
CleansInTestMode == IF dry_run THEN {} ELSE _stale_record_ids

\* No cleanup in --test: what a sampled run did not see proves nothing.
delete_ids == IF dry_run \/ start.test_mode THEN {} ELSE _stale_record_ids

Gate ==
  /\ main = "collect" /\ Collected
  /\ \A c \in Collector : thread[c] = "returned"
  /\ \/ /\ dry_run
        /\ outcome' = "skipped_dry_run" /\ main' = "write"
        /\ UNCHANGED deliveryVars
     \/ /\ ~dry_run /\ deliverable_records \cup delete_ids = {}
        /\ outcome' = "blocked" /\ main' = "write"
        /\ UNCHANGED deliveryVars
     \/ /\ ~dry_run /\ deliverable_records \cup delete_ids # {}
        /\ Delivery!Deliver(deliverable_records, delete_ids)
        /\ main' = "deliver"
        /\ UNCHANGED outcome
  /\ UNCHANGED <<start, discovery_complete, domain, found, dangling, thread,
                 exit, files, ociVars, startupVars>>

DeliveryStep ==
  /\ main = "deliver"
  /\ Delivery!Client
  /\ UNCHANGED <<runVars, ociVars, startupVars>>

DeliveryReturns ==
  /\ main = "deliver"
  /\ Delivery!Returned
  /\ outcome' = IF decision = "uploaded" /\ domains_withheld # {}
                THEN "uploaded_partial" ELSE decision
  /\ main' = "write"
  /\ UNCHANGED <<start, discovery_complete, domain, found, dangling, thread,
                 exit, files, ociVars, deliveryVars, startupVars>>

\* The report, then the records, are written whatever became of the delivery.
WriteOutput ==
  /\ main = "write"
  /\ Leave(IF dry_run \/ pc = "delivered" THEN "ok" ELSE "blocked", {"report", "records"})
  /\ UNCHANGED <<start, discovery_complete, domain, found, dangling, thread,
                 outcome, ociVars, deliveryVars, startupVars>>

\* The output directory is a symlink, or the disk is full: nothing catches the
\* exception, and the interpreter exits with 1.
WriteFails ==
  /\ main = "write"
  /\ \E f \in {{}, {"report"}} : Leave("blocked", f)
  /\ UNCHANGED <<start, discovery_complete, domain, found, dangling, thread,
                 outcome, ociVars, deliveryVars, startupVars>>

-----------------------------------------------------------------------------
(* The world around the run.                                                *)

Terminate(r) ==
  /\ Alive(r)
  /\ life' = [life EXCEPT ![r] = "terminal"]
  /\ UNCHANGED <<home, unsteady>>

\* What was terminated first is forgotten first.
Purge(r) ==
  /\ Dead(r)
  /\ life' = [life EXCEPT ![r] = IF @ = "renewed" THEN "live" ELSE "purged"]
  /\ UNCHANGED <<home, unsteady>>

UploadAgain(r) ==
  /\ Reusable(r) /\ ~Alive(r)
  /\ life' = [life EXCEPT ![r] = IF @ = "terminal" THEN "renewed" ELSE "live"]
  /\ unsteady' = unsteady \cup {r}
  /\ UNCHANGED home

Move(r) ==
  /\ ~TenancyWide(r) /\ life[r] = "live"
  /\ \E b \in Compartment \ {home[r]} : home' = [home EXCEPT ![r] = b]
  /\ unsteady' = unsteady \cup {r}
  /\ UNCHANGED life

\* What happens in OCI after the collectors are done has no effect on the run.
OciChanges ==
  /\ main = "collect"
  /\ changes < MaxChanges /\ changes' = changes + 1
  /\ \E r \in Resource : Terminate(r) \/ Purge(r) \/ UploadAgain(r) \/ Move(r)
  /\ UNCHANGED <<runVars, deliveryVars, startupVars>>

DrataSettles == Delivery!Settle /\ UNCHANGED <<runVars, ociVars, startupVars>>

Program ==
  \/ Begin \/ ConfigError \/ AuthError \/ Discover
  \/ \E c \in Collector : StartCollector(c) \/ See(c) \/ FinishCollector(c) \/ CrashCollector(c)
  \/ CollectionFails \/ Gate \/ DeliveryStep \/ DeliveryReturns
  \/ WriteOutput \/ WriteFails

Next == Program \/ OciChanges \/ DrataSettles \/ (main = "exited" /\ UNCHANGED vars)

Spec == Init /\ [][Next]_vars /\ WF_vars(Program)

-----------------------------------------------------------------------------
(* Properties.                                                              *)

Main == {"start", "collect", "deliver", "write", "exited"}
Exit == {"running", "ok", "blocked", "config_error", "unexpected"}

\* Every variable keeps its type, and at most MaxWorkers collectors run at a time.
TypeOK ==
  /\ start \in Starts
  /\ main \in Main
  /\ life \in [Resource -> Life]
  /\ home \in [Resource -> Compartment] /\ unsteady \subseteq Resource
  /\ changes \in 0..MaxChanges
  /\ thread \in [Collector -> {"queued", "running", "returned", "crashed"}]
  /\ Cardinality({c \in Collector : thread[c] = "running"}) <= MaxWorkers
  /\ domain \in [Collector -> {"none", "complete", "incomplete", "skipped"}]
  /\ unread \in [Resource -> SUBSET Compartment]
  /\ kept \subseteq Resource /\ excluded \subseteq Resource
  /\ {discovery_complete, dangling} \subseteq BOOLEAN
  /\ outcome \in {"none", "skipped_dry_run", "blocked", "delivery_failed", "cleanup_only",
                  "uploaded", "uploaded_partial"}
  /\ exit \in Exit /\ files \subseteq {"report", "records"}
  /\ Delivery!TypeOK
  /\ StartupTypeOK

\* Evidence of a type rests on trusted ground: discovery was complete, every domain
\* the type needs was collected without a failure, and no join dangles.
Grounded(r) ==
  /\ discovery_complete
  /\ \A c \in Collector :
       _DOMAIN_BY_COLLECTOR[c] \in RequiredDomains(EvidenceType[r]) =>
         domain[c] \in {"complete", "skipped"}
  /\ EvidenceType[r] = "instance" => ~dangling

\* The record of anything not grounded is left as it was ("prior records were left
\* untouched, not deleted or overwritten", runner.py:274-275), through lost answers
\* and late effects too.
WithheldUntouched == \A r \in Resource : store[r] # start.store[r] => Grounded(r)

\* Only the record of a resource OCI showed terminated is deleted: never one that is
\* merely missing from what was collected or listed elsewhere by now, and none in a dry
\* run or a sampled run.  Such a resource is gone for good, an API key excepted, which may
\* be there again under the same id.
DeletesOnlyTheDead ==
  \A r \in Resource :
    start.store[r] = "old" /\ store[r] = "absent" =>
      /\ r \in excluded /\ (~Alive(r) \/ Reusable(r))
      /\ ~dry_run /\ ~start.test_mode

\* The file and the environment ask for a dry run: runtime.dryRun is there, one of them
\* has it true and no override has it otherwise or takes its place.
AsksForDryRun ==
  /\ setup.file # Unreadable /\ setup.file[DryRun] \in Boolean
  /\ \A o \in setup.env : o.key \notin Above[DryRun] /\ (o.key = DryRun => o.value = "true")
  /\ setup.file[DryRun] = "true" \/ \E o \in setup.env : o.key = DryRun

\* --dry-run, or runtime.dryRun as the file and the environment leave it: whatever the
\* other says, the run is a dry one, Drata is neither written to nor is anything on its
\* way there.
DryRunSendsNothing ==
  /\ step \in {"token", "signer"} /\ (start.dry_run \/ AsksForDryRun) => dry_run
  /\ start.dry_run \/ dry_run => store = start.store /\ unsettled = {} /\ pc = "idle"

\* A run that reports "uploaded", with no domain withheld, leaves Drata with the
\* evidence of all that stayed live, and without the records of all that was
\* terminated before it began, except the deletes it reports as failed.  This is all that
\* complete domains show: nothing is promised of a resource that moved between
\* compartments meanwhile, which no listing may have come upon though all succeeded, of
\* an id given again, or of the keys of a vault without an endpoint.
UploadedMeansComplete ==
  outcome = "uploaded" =>
    \A r \in Resource \ (unsteady \cup start.hidden) : CollectedBy[r] \in start.enabled =>
      /\ life[r] = "live" /\ r \notin start.malformed => store[r] = "new"
      /\ start.life[r] = "terminal" /\ life[r] = "terminal" /\ ~start.test_mode =>
           \/ store[r] = "absent"
           \/ \E n \in 1..Len(cleared) : deletes[n] = r /\ cleared[n] # "ok"

\* The process ends, whatever fails: the pool does not wait for a crashed collector.
Exits == <>(main = "exited")

=============================================================================
