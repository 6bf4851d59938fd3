# Verification of the OCI to Drata collector

TLA+ modules, TLC runs and TLAPS proofs about `oci_drata`, the program that reads
configuration evidence from Oracle Cloud (OCI) and upserts it, one record per resource,
into a Drata custom connection. File names below are relative to `src/src/oci_drata/`
unless they start with `README` or `tests`. `PROJECT.json` is the index: runs, mutants,
the map from definitions to source lines, findings, hazards, theorems.

To repeat a check: `tlc -workers 2 -config Discovery.cfg MCDiscovery`,
`tlapm DrataDeliveryProofs.tla`.

## 1. The system

One process, started by hand or by a scheduler, runs once and exits. It keeps no state
between runs: whatever one run knows of an earlier one it reads from OCI.

    cli.main
      load_config, build_signer, discover          (config.py, oci_auth.py, collection/discovery.py)
      _run_collectors: a pool of collectors        (runner.py, collection/*.py)
         each: paginate / call_once, retries       (pagination.py), with its own pool of workers
      build_flat_records: joins, exposure, lifecycle split   (transform/*.py)
      _gate: which domains can be trusted          (runner.py)
      _deliver: upsert in batches, then delete     (runner.py, delivery/drata.py)
      write the report and flat-records.json       (cli.py)

| Component | State it keeps | Operations | What makes it correct |
|---|---|---|---|
| OCI calls (`pagination.py`) | page token, attempt count, items and status of each operation, `--test` deadline | `paginate`, `call_once`, `_lookup_public_ip`'s own loop, `run_concurrently` | success means the whole listing; bounded retries; the deadline is honoured |
| Discovery (`collection/discovery.py`) | listed compartments, the worklist of the subtree descent, operations | `discover`, `_expand_to_subtrees`, `_resolve_regions` | approved scope = configured subtrees minus exclusions; anything less is not "complete" |
| Collectors (`collection/*.py`) | lists of raw objects, caches of images and VNICs, operations | one `collect_*` per domain, with workers per parent item | what is reported was true; a failure marks the domain incomplete |
| Joins and records (`transform/*.py`) | none | `build_flat_records`, `resolve_*`, lifecycle split and cascade, exposure derivation | no dangling join is trusted; excluded children go with their parents; a definite exposure fact is right |
| Run (`runner.py`, `cli.py`) | collector results, gate, report, exit code | `run`, `_run_collectors`, `_gate`, `_stale_record_ids`, `main` | untrusted domains are neither written nor deleted; the process ends |
| Delivery (`delivery/drata.py`, `_deliver`) | batches, attempts, one result per batch and deleted id | `upsert_records`, `delete_records` | the report counts what arrived; nothing is deleted before everything is stored |
| Configuration (`config.py`) | the tree of keys while it is loaded | `load_config`: file, search for inline secrets, overrides from the environment, second search, `_build_app_config` | no literal secret is accepted and no override reaches a secretRef; `--dry-run` wins whichever way it is said |
| Authentication, client guard, schema validation, logging | none to speak of | input checks | modelled by their outcome (fails or not) where the run depends on it |

The parts talk by return values within a thread; threads share nothing but results that
their parent merges. What makes the program hard is outside of it: OCI changes while it
is read, and no two calls see the same moment; every call may fail, be answered late or
not at all; Drata may act on a request whose answer was lost, once, again, or later; OCI
lists a terminated resource for a while only; runs may overlap or be killed. `hazards` in
`PROJECT.json` lists each such point at its line, with the properties that watch it.

## 2. Modules

| Module | Models | Composed with |
|---|---|---|
| `OciCall` | one collector thread executing a plan of operations | |
| `Discovery` | `discover` as a process that may fail at each call, with the worklist of `_expand_to_subtrees` explicit | |
| `ComputeCollection` | `collect_compute`: compartments in turn, a bounded pool of workers, the joins of `relationships.py`, in a changing tenancy | |
| `LeafCollectors` | six collectors that list items and then what belongs to each (tunnels, security group rules, backend set health, keys, buckets, volume attachments), with their joins, in a changing tenancy | |
| `Exposure` | `derive_public_ingress_facts` over any part of a network | |
| `Batching` | how `upsert_records` cuts a list of records into bodies | |
| `DrataDelivery` | `_deliver`, `upsert_records`, `delete_records`, with lost, partial and late requests | refines `EvidenceLedger` |
| `EvidenceLedger` | what a delivery promises, without batches, retries or errors | |
| `Upload` | one delivery from the list of records on | extends `Batching` and `DrataDelivery`, refines `EvidenceLedger` |
| `Startup` | `load_config`, and `main` up to the signer | |
| `CollectionRun` | one process from `main` to its exit code: start, collector pool, gate, delivery, files | extends `Startup`, an instance of `DrataDelivery` |
| `EvidenceSync` | many runs, two at a time, against one changing tenancy and one Drata | |
| `CollectorProofs`, `ExposureProofs`, `DrataDeliveryProofs`, `UploadProofs`, `DiscoveryProofs`, `ComputeCollectionProofs`, `CollectionRunProofs`, `EvidenceSyncProofs` | theorems and proofs | `CollectorProofs` extends `OciCall` and `LeafCollectors`; `UploadProofs` extends and `CollectionRunProofs` instantiates `DrataDeliveryProofs` |
| `MC*` | small instances for TLC | |

How state and actions correspond to the code:

* `OciCall`. `current`, `page`, `items`, `attempt` are the locals of `paginate`; a step is
  a check at the top of a loop, a request, its answer, or a sleep. `Fail` says per kind of
  loop what happens to an error (retry, give up, "no public IP" for 404), in the order the
  code asks. The clock counts time in requests and sleeps, bounded by `MaxCall`, `MaxDelay`.
* `Discovery`. `listed` is `all_compartments`, `frontier`/`expanded` the worklist and
  result of the descent, `todo` the roots still to be expanded. A listing may come back
  partial, with `ok` false. `scope.whole` says that the word "tenancy" is among the roots,
  which takes all that is listed; the tenancy's OCID goes through the filter as any root does.
* `ComputeCollection`. `result` is `ComputeCollectionResult`, `found` what workers hold
  until the collector's thread merges it, `worker` the next call of each attachment's
  worker. OCI's side may change between any two calls. `been` and `attached` only
  remember what was the case during the run, for the properties.
* `LeafCollectors`. One action per listing or lookup, named as in the SDK. `entries` are the
  items as listed, `jobs` the listings of children still to do, `gets` the single lookups
  still to do, `answers` what came back, each tagged with the compartments it came from. The
  collectors differ in their phases: rules and tunnels are asked for after each
  compartment, keys and health after the last one, buckets by compartment in turn.
  `WithEndpoint` are the vaults that have a management endpoint; of any other no keys are
  asked for, and nothing has failed (`collection/kms_vault.py:103-108`). `Reported`
  and the counts are the joins of `aggregate.py` on these.
* `Exposure`. A state is the network and the part of it in evidence; the facts are an
  operator, written in the order of the code's returns. What is true of the network is
  defined beside it, from what OCI's rules and routes mean, and the two are compared. A
  VNIC is `Routed` by any route to an internet gateway; only the code's `_has_igw_route`
  asks for a default route.
* `Batching`. A piece is the pair of its first and last index; `pending` is what the
  recursive halving has still to look at, in any order.
* `DrataDelivery`. `acks` and `cleared` are the lists of `DeliveryResult`; `unsettled` are
  requests without an answer that Drata may still carry out, any number of times. Every way
  to cut the records into batches is a behaviour; `Upload` replaces that choice by the
  pieces of `Batching`, in the order of the list.
* `Startup`. `raw` is the tree of keys. A value is one of the few kinds the code tells
  apart, among them a string that looks like a secret, a list that holds one, and a
  secretRef. Overrides are applied in any order, because the code sorts them by their
  spelling but matches them in any case. `Outcome` says per kind of field what
  `_build_app_config` does with each value: accept, `ConfigError`, or an exception that
  nothing catches.
* `CollectionRun`. `thread` and `domain` are the pool and each collector's completeness;
  `deliverable_domains`, `deliverable_records`, `_stale_record_ids` are the gate's
  definitions; delivery steps are those of `DrataDelivery`. The run begins with the steps of
  `Startup`; `dry_run` is what it computed. Each collector's resources are read compartment by
  compartment, in any order (`See`; `unread` are the compartments still to come), while OCI
  terminates, purges and moves resources and API keys are uploaded again under the id of a
  deleted one (`life`, `home`, at most `MaxChanges` times; `unsteady` remembers which moved or
  were given again). So a resource may be listed twice, be both kept and excluded, or be
  listed nowhere with every call successful. A child is at home where what it is listed
  through is (a database where its system is, a key where its vault is), and moves with it.
* `EvidenceSync`. Each run lists level by level and sees each resource at the moment its
  parent is asked; delivery is coarser than in `DrataDelivery` (whose properties justify
  it), so that several runs fit into one state space. Every attempt of a request but the last may
  have gone unanswered (`Lingers`), whether the request is acknowledged in the end or fails.

## 3. Runs

| Run | Question and answer | Bounds, and why they are enough |
|---|---|---|
| `oci_call` | Is an operation reported successful read whole, does the time budget stop the thread, does it end? Yes. | Plans of up to two operations, listings of up to two pages with the first, last or no page empty, 3 attempts (first, middle, last), a deadline at once and one in the middle. A third page or operation repeats the second. |
| `discovery` | Does the descent find exactly the subtrees, and does "complete" mean the whole configured scope? Yes. | All trees of three compartments below the tenancy (a chain of three is the shortest in which an exclusion lies two levels above a root), one or two roots, up to two exclusions anywhere, two regions, partial listings. |
| `exposure` | Is a definite record right where gateways are reached by default routes, and does more evidence never contradict it? Yes. | Two VNICs in two subnets with a shared list and a group, one rule of each shape the code tells apart (one port, half-open range, all ports, private, group source, service, other protocol, unreadable, egress), default routes and one for half of the internet, both families, four ports, every subset of the evidence. |
| `compute_collection` | Was what is uploaded about public addresses true at some moment, and is a still tenancy reported exactly? Yes. | Two compartments, three attachments for two workers, `MaxChanges` = 1 change of the tenancy and `MaxFaults` = 1 failed call, from every initial tenancy. A torn read needs one change between two reads. |
| `leaf_collectors` | Do the counts and joins of the nested collectors say what was the case, of the right child, and leave nothing out that stayed? Yes. | Two items with a child each of the same name, in two compartments, from every initial tenancy, one of two vaults without an endpoint; one failed call, two changes (a move and what follows it), one for `kms_vault`, whose listings come in any order. Two items are what it takes to join an answer to the wrong one. |
| `upload` | Is every record sent exactly once, in a body that fits if it can; does the report count what Drata holds; does the delivery implement `EvidenceLedger`, and end? Yes. | Lists of up to five records of one or two bytes, chunks of three (one whole and one part), limits that a pair never, sometimes or always fits, and none. Up to two records are also sent (`MaxSent`), with up to two stale ids, one id on both sides, and 2 attempts. |
| `collection_run` | Does a run start only with secrets by reference, does "dry" keep everything back, is untrusted evidence left alone, are only the dead deleted, does "uploaded" mean complete, does the process end? Yes. | Four collectors in a pool of two; an instance (which rests on two domains), an API key and a key of a vault (the instance on its own, the keys together), in two compartments; `MaxChanges` = 2 (a move and a termination between two listings, or a key deleted and uploaded again); a vault without an endpoint, `--test`, `--dry-run`, a disabled service, a malformed record; 1 attempt, as retries are `upload`'s subject. A configuration of thirteen keys, one or more of each kind: every value at every key with the rest as it should be, every single override of four files, pairs of overrides of which one replaces what the other is in. |
| `evidence_sync` | Does Drata converge to the living resources, and does no living resource ever lose its record? Yes. | Two overlapping runs, a parent and a child whose id may be given again once, `MaxLate` = 1 unanswered request at a time. |
| `exit_one`, `unseen_gateway`, `retry_next_run`, `quoted_boolean` | Does the code do what a sentence of its documentation or of a comment says? No; see section 6. | those of the run on the same module (`exit_one`: `DrataDelivery` alone; `retry_next_run`: one run at a time, `Forgetful` = TRUE). |

Every property of a passing run has a mutant in `PROJECT.json`: a plausible mistake in one
mapped definition under which TLC finds the property violated. Where a mutated form needs a
name, it is defined just before the definition it would replace, and used nowhere else.

What the less obvious properties say:

* `CompleteMeansWhole` (`OciCall`): nothing read before a failure, an empty page or the
  deadline is ever taken for the whole. `CompleteMeansEverything` (`Discovery`) and
  `Grounded`/`WithheldUntouched` (`CollectionRun`) carry this to the gate.
* `DefiniteIsSound`, `DefiniteIsExact` (`Exposure`): the derived ports compared with what
  may be reached by any route, in both directions. Soundness has a hypothesis about the
  network, `RoutedByDefault`: if the instance has a way to the internet at all, one of its
  VNICs has it by a default route. Other routes may then be there as well, and lead further
  VNICs out. Without the hypothesis TLC finds the property violated, by a network whose
  only way out is a route for half of the internet (section 6). Exactness needs every public
  address routed, since the code keeps one route flag for all VNICs. Both assume the gateways
  were listed; `MissingEvidenceIsNull` shows what happens otherwise.
* `NoIsSeen`, `YesIsSeen` (`ComputeCollection`): the answer is justified by what was the
  case during the run, address by address. A public address handed from one private
  address to another of the same instance can be missed by both lookups; the property is
  stated for one address because the code does not read them together.
* `StillIsExact` (`ComputeCollection`): the joins lose nothing and withhold nothing needlessly.
  It leaves out tenancies in which an attachment is listed whose VNIC is gone: `get_vnic`
  is asked for it, and if OCI answers 404 the whole domain is withheld.
* `CountsAreSeen` (`LeafCollectors`): a tunnel count lies between the tunnels there all the
  time and those ever there, per listing of the connection. A connection that is moved is
  listed twice, and `setdefault(...).extend` (`collection/vpn.py:133`) then adds up both
  listings' tunnels; the bound says exactly that much and no more.
* `SteadyIsReported`, `ReportedIsSeen` (`LeafCollectors`): what stayed where it was is in the
  records of a trusted domain, wherever its parent is (a key in another compartment than
  its vault), except for the keys of a vault without an endpoint; and what a record says of a
  child was once true of that child (not of one of the same name, and not of a later state).
* `Tiles` (`Batching`): at every moment of the cutting, each record is in exactly one piece.
* `SecretsStayReferences` (`Startup`): the file is searched for literals, then overridden, then
  searched again; an override that replaces the object around a secretRef by text
  destroys it, which the typed model then refuses. The property is about an accepted
  configuration, whatever happened on the way.
* `DryRunSendsNothing` (`CollectionRun`): has two halves. `AsksForDryRun` reads the file and the
  environment as they are, and not what the program made of them: where one of them (or
  `--dry-run`) asks for a dry run, the program must have computed one. And in a dry run
  nothing is on its way to Drata.
* `DeletesOnlyTheDead` (`CollectionRun`): a record goes only if OCI listed its resource as
  terminated. An API key may be live again under the same id: the code keeps and excludes it
  at once, uploads it and then deletes it (`transform/aggregate.py:497-512`).
* `UploadedMeansComplete` (`CollectionRun`): "uploaded" speaks of every live resource of an
  enabled service and every resource terminated before the run, if they stayed where they
  were. It cannot promise more, since "complete" means that no call failed and not that
  everything was seen: a resource that moves from a compartment not yet listed to one already
  listed is in no listing, and the run still reports "uploaded". Left out are thus resources
  that moved, ids given again, and keys of vaults without an endpoint.
* `OnlyTheDeadAreErased`, `Converges` (`EvidenceSync`): over any number of runs, late
  requests and overlaps. The id of a deleted and re-created API key is left out while it
  is listed twice: the run that uploads it deletes it again (`transform/aggregate.py:497-512`).

## 4. Fairness and assumptions about the environment

* Weak fairness of the program's own steps (`Step`, `Client`, `Send`, `Cut`, `SplitNext`, `Program`,
  `Step(w)`): its loops never wait for an event that need not come. Every HTTP request has a
  timeout, every sleep is bounded, and a pool's threads are scheduled by the operating
  system. Retries end by count, and cutting ends because halves are shorter, not by
  fairness. In `EvidenceSync`, `Step(w)` includes starting a run again: runs are scheduled
  for ever.
* No fairness for OCI's changes, for faults, or for late requests at Drata.
  `ComputeCollection` and `LeafCollectors` state no liveness and no fairness: that a
  collector's thread ends is `OciCall`'s `Terminates` and `CollectionRun`'s `Exits`.
* `Converges` and `FailedDeleteIsRetried` are about behaviours in which calls eventually
  stop failing (`<>~faults`). `evidence_sync` assumes that OCI lists a terminated resource
  until its record is gone (`Forgetful` = FALSE); `retry_next_run` drops that assumption.
* Drata: upsert and delete act on one id at a time; a 200 answer without readable
  per-record errors stored its batch; a 404 to a delete means the record is absent; an
  unanswered request is carried out at any later moment, or never.
* OCI: a page is what was there when it was asked for; the listing of one compartment is one
  moment except in `OciCall`, where pages are separate requests of a fixed listing, and in
  `CollectionRun`, where every entry of a listing is read at its own moment. Listings of
  different compartments are never one moment. No model takes a domain without a failed call
  for all that is live: "complete" means that each compartment was listed. `CollectionRun`
  takes the list and the single get of a vault's key as one moment; `LeafCollectors` does not.
  A listing of children answers 404 only for a parent that is gone.
* Configuration: a credential lies within sections `_build_app_config` requires to be
  objects (`KeyAssumption`), as `drata.apiTokenSecretRef` and the secretRefs of `oci.auth` do.

## 5. What is proved

TLAPS proves the theorems below for every value of the constants that meets the named
assumptions of the module that declares them (`MaxAttempts` positive, plans of
operations with at least one page, networks of the declared shape, every compartment below
the tenancy, finitely many collectors, VNICs and children of items).

`CollectorProofs` is about `OciCall` and `LeafCollectors`. Of the first, `Invariance` is the
inductive invariant `IInv`, from which `TypeCorrect`, `ReadsWhole`, `OneLateRequest` and
`WindsDown` follow. `CompleteMeansWhole` alone is not inductive: it says nothing of an
operation in progress. `ReadInv` adds that the current items are those of the pages read,
and that what a failed operation keeps is part of the listing; `LateInv` that no sleep
follows a late request, since the loop checks the deadline before it sleeps, or, in
`_lookup_public_ip`, at the top after the sleep; `ClockInv` bounds the clock at each program
point; `RetryInv` says a thread sleeps only before an attempt it has left. `CallsAreListings`
is the bridge to the other collectors' models, which take a call to be one step: it
returns the whole listing and succeeds, or a part of it and fails (`Lists`). `ThreadRunsOut`
is the counting half of `Terminates`: every step finishes an operation, reads a page, begins
an attempt or brings it further, and all of these are bounded.

Of `LeafCollectors`, `LeafInvariance` is `LeafInv`. `PhaseInv` says which collector goes through
which phases, and `WorkInv` that all work, and every answer, stems from an entry and none
is done twice: a child is to be listed, to be asked for, or answered, one of the three.
With `AnswerInv` (an answer was true, or is a tunnel's status still to be asked for) this
gives `Reporting`. For `Steadiness` the converse is needed while no call has failed: `ItemInv`
(a steady item is listed in its compartment once this was read, and nowhere else) and
`ChildInv` (a child that was there throughout, and is asked for at all, `AskedFor`, is `Pending`
for every entry of its item). At the
end nothing is pending, so it is answered; and the joins that keep one listing of several
(`Last`, the `CHOOSE` of `rules`) keep the right one, because a steady item has only one.
`Counts` follows by two injections: of the tunnels there throughout into those counted, and
of those counted into the pairs of a listing and a tunnel ever there.

`DiscoveryProofs`: a subtree is defined as the least closed set over its seeds, so that the
worklist is compared with something that is not a worklist. `WalkInv` says that what is below
the result and not in it is below the frontier: at an empty frontier the result is closed,
and it never left the least closed set. `RootsInv` and `ExcludesInv` join the descents from
each root; `WholeInv` says what `ok` promises of the listing at each stage, `ApprovedInv`
what the approved scope was computed from. `Expansion`, `Completeness` and
`ExclusionHolds` follow for every tree, every partial listing and every order. `WalksRunOut`
says that every step advances a walk: one that finds nothing new has less left to look at.

`ComputeCollectionProofs`: `SeenInv` (nothing was found that was not there) gives
`YesWasSeen`. `NoWasSeen` needs the converse as long as nothing failed, which is
`CompleteInv`: of the VNICs that lasted, an instance's are all listed or none, and for each
such VNIC what was public all along has been found as far as its worker got. `IdleInv`
says workers hold nothing between two compartments, so that a merge is the only way from
`found` to `result`; `PastInv` ties the history to the present. `StillWasExact` needs an invariant
of its own, `ExactInv`, of a tenancy that has not changed and in which no call failed
(`StillInv`): the result holds exactly the instances and attachments of the compartments
listed so far (`InstancesListed`, `AttachmentsListed`), and every attachment listed has its VNIC
as soon as its worker is past that call (`ResolvedInv`, over what workers and result have
`Got`). With `CompleteInv` every table the joins look into is then whole.

`ExposureProofs`: the state is trivial and its invariant is `StateOK`; the work is in the
definitions. `DefiniteShape` says on what evidence a definite record of a public
instance rests; `Soundness` follows the rule that admits a connection, which may come in by
any route, to the facts: by `RoutedByDefault` some default route of the instance sets the code's one flag,
`Exactness` goes back from the facts to a rule, and `Finality` shows that every set the
facts are made of is unchanged by further evidence once it is complete.

`DrataDeliveryProofs`: `IInv` joins the type invariant, `OrderInv` (which lists are filled
at which stage, and that deletes begin only after all batches are acknowledged),
`UnsettledInv` (a request without an answer is a post of a fresh record or a delete of a
gone one, the latter only in the delete stage) and `UploadInv` (until deletes begin, what
is counted is stored). The hard case is `Settle`: a request that takes effect after its
batch, or even the delivery, was decided. `UnsettledInv` is what keeps it from undoing
anything the report counts. `CountedIsStored` and `CountedIsAbsent` are conjuncts.
`Refinement` proves `Spec => Ledger!Spec`: each step is a `Write`, `Erase`, `Publish`,
`Open` or `Abort` of `EvidenceLedger`, or a stutter, under the mapping `stage`. `StepsRunOut`: each
step takes from `Left`, at most `MaxAttempts` for every batch and id without a result and the rest
of `_deliver`; a result takes all attempts of its request away, and `Settle` changes nothing.

`UploadProofs`: `ChunksTile` and `HalvesTile` are the arithmetic of `range(0, n, _BATCH_SIZE)`
and of `len // 2`; with them `Tiles` is inductive as it stands (`Tiling`). `UploadDelivers`
shows that a delivery with the pieces as cut is a behaviour of `DrataDelivery` (cutting
is a stutter), from which `UploadCounts` and `UploadRefines` follow without another
induction. `CutsRunOut` bounds the cutting: by `Tiles` each piece has a first record of its own,
so there are never more pieces than records, and a halving makes one more.

`CollectionRunProofs` takes the delivery's invariant over from `DrataDeliveryProofs` by
`P == INSTANCE`, after showing that the operators of the two instances are the same. `CInv` adds
`WorldInv` (who was seen terminated is), `StepInv` (a dry run stays dry), `GateInv` (before the
gate nothing was sent; after it what was handed over is what the gate would still compute) and
`ChangedInv` (Drata differs from what the run found only in what was handed over).
`WithheldUntouched`, `DeletesOnlyTheDead` and `DryRunSendsNothing` follow. `FullInv` adds what a
finished delivery has done (`EndInv`), what listings have shown of each resource that neither
moved nor was given again (`SeenInv`, by `SteadyInv`: once the listing of its compartment is past it,
it is kept or excluded) and what "uploaded" is said of (`OutcomeInv`), for `UploadsAreComplete`.
`ReferenceInv` is the invariant of the start: everything guarded is as in the file, or
something above it is no object any more; the latter is why the typed model cannot accept it.
`DryInv` follows a dry run that is asked for from the file through the overrides still to come
(`OverrideStaysDry`) to the computed flag. `ShapeInv` is the rest of `TypeOK`, and claims no
more than types and the bound of the pool: a resource may be both kept and excluded.
`RunRefines` shows that the whole process does to Drata what `EvidenceLedger` allows one delivery:
the gate is its `Open`, and the steps of the collectors, OCI and `main` are stutters; it needs of
`CInv` that what the gate hands over are records of the tenancy. `RunGoesForward` says that each
part of a run (`main`, the start and its overrides, each collector and what it saw, the delivery
with its `Left`) only goes forward, and that each step of the program brings one further.

`EvidenceSyncProofs`: `OnlyTheDeadAreErased` is an action property; `DeadInv` says that
whatever a run saw as terminated, has still to delete, or has asked to delete and not heard
of, is dead, and `DeadStays` that the dead stay so unless an id is given again.

Every invariant, action property and refinement that a run checks is thus also proved. Only
model-checked is liveness (`Terminates` twice, `Returns`, `CuttingEnds`, `Exits`, `Converges`), which is
out of the prover's reach here: it needs that the fair steps are enabled until the end. What is
proved of all but `Converges` is the half that is about counting (`ThreadRunsOut`, `WalksRunOut`,
`StepsRunOut`, `CutsRunOut`, `RunGoesForward`): of finitely many compartments and resources, no
behaviour has infinitely many steps of the program, whatever the services answer, so that
only being stuck could keep it from its end. The recursion in the code is a worklist, a
halving or a loop, so no module declares a RECURSIVE operator and none needs induction
over data.

## 6. Where the code and its documentation differ

Each of these is a run that TLC finds violated; `findings` in `PROJECT.json` quotes the lines.

* `exit_one`: exit code 1 is said to mean "nothing uploaded"; a delivery that fails in a
  later batch, or before its deletes, has uploaded and exits with 1.
* `quoted_boolean`: a boolean in quotes is said to be refused, since `bool("false")` is true;
  `allowAlternateHost` is coerced by just that `bool()`, so that `"false"` admits another host.
* `unseen_gateway`: missing evidence is said to give a null fact; an internet gateway that
  was not listed gives a definite "no open port".
* `retry_next_run`: a failed stale-record delete is said to be retried in the next run;
  it is only if OCI still lists the terminated resource then.

Met while modelling, part of the models as the code has it, and without a run of their own:

* An exclusion two or more levels above a configured root takes nothing out below it
  (`collection/discovery.py:120`), against `discovery.py:159-161`: descendants of an excluded
  compartment are excluded. `CoveredExclusionHolds` speaks of exclusions within the roots.
* `--test` is said to upload what was sampled (`README.md:187-189`, `cli.py:109-111`); a domain
  that the time budget cuts is incomplete and is withheld (`runner.py:192-208`).
* The size of a body is measured of a text without blanks (`delivery/drata.py:141`), while
  `requests` sends `json=` with a blank after each comma and colon.
* What nothing catches (an override that is no number for `int()`, an `OSError` of a token file,
  a report that cannot be written) ends with the interpreter's exit code 1, the
  code of "blocked".
* A string in the place of a list is taken for the list of its characters
  (`config.py:503`, `509`, `514`), and a `decisions` that is a string is dropped silently.
* A vault without a management endpoint is passed over, and its domain stays complete
  (`collection/kms_vault.py:103-108`): nothing is reported of its keys.
* An instance that reaches its internet gateway only by other routes than a default one
  (0.0.0.0/1 and 128.0.0.0/1, a partner's block) is said definitely to have no open port
  (`transform/exposure.py:53-58`; the docstring there does say "default route").
* A resource listed in two compartments, because it was moved meanwhile, gives two records
  with one id. One that moves the other way is listed in none, and the domain stays complete
  (`collection/compute.py:91-102`).
* An API key that is listed both live and deleted is uploaded, and then deleted as stale
  (`transform/aggregate.py:497-512`).
* `attachedInstanceIds` of a volume names instances of detached attachments too
  (`transform/aggregate.py:437-452`).

## 7. What is not modelled

* Normalisation and the fields of records, log lines and redaction: formatting, on which
  no decision of the program rests.
* The checks of `oci_auth.py` one by one, the SDK's signers, the JSON schema library, the
  allow-list of the client guard: none has state; each is an outcome of `CollectionRun`
  (`AuthError`, `start.malformed`, `CrashCollector`).
* The text of configuration values (patterns of secrets, host names, OCIDs), abstracted to
  what the code tells apart.
* Image data and the Windows classification (the calls for images are in `ComputeCollection`).
* Data Guard associations, policies, identity and the other flat collectors: a listing or a
  call per compartment, of which `OciCall` has the loop, `CollectionRun` the outcome and
  `EvidenceSync` the nesting. The order of the networking listings other than security
  groups: `Exposure` takes any part of them as seen.
* Address parsing and overlap (`ipaddress`).
* Whether OCI's 404 hides an address the caller may not see, and whether Drata's 404 is
  about the record or about the connection: the program cannot tell (see `hazards`).

## 8. Plan

Done, in this order: `OciCall`, `DrataDelivery` with `EvidenceLedger`, `Discovery`,
`CollectionRun`, `Exposure`, `EvidenceSync`, `ComputeCollection`; then `Batching` and `Upload`,
`Startup` as the beginning of `CollectionRun`, `LeafCollectors`; proofs of all of them.

What could come next:

1. Data Guard associations and policies as further kinds of `LeafCollectors`.
2. `ComputeCollection` with the classification of images, once a property depends on it.
