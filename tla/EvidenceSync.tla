---------------------------- MODULE EvidenceSync ----------------------------
(***************************************************************************)
(* The evidence of one domain through run after run: the resources of a    *)
(* tenancy come and go, every run lists them level by level (the children  *)
(* of each resource it was shown), splits what it saw into records to keep *)
(* and records to delete, and delivers both to Drata.                      *)
(*                                                                         *)
(* Nothing is remembered between runs but Drata's records, and nothing     *)
(* keeps one run from starting before another has ended.                   *)
(***************************************************************************)
EXTENDS Naturals, FiniteSets

CONSTANTS
  Resource,   \* resources of the domain; each is the id of its record
  Root,       \* stands for the approved compartments, where listing begins
  Parent,     \* the resource through which each is listed, or Root
  Lineage,    \* each resource with all those it is listed through
  Reusable,   \* ids that may be given again (api_key: user id and fingerprint)
  Run,        \* runs that may be under way together
  MaxLate,    \* bound: unanswered requests pending at a time
  Forgetful   \* OCI may stop listing a terminated resource before it was cleaned up

ASSUME ParentAssumption == Root \notin Resource /\ Parent \in [Resource -> Resource \cup {Root}]
ASSUME LineageAssumption ==
  /\ Lineage \in [Resource -> SUBSET Resource]
  /\ \A r \in Resource :
       Lineage[r] = {r} \cup (IF Parent[r] = Root THEN {} ELSE Lineage[Parent[r]])
\* Nothing is listed through a resource whose id may be given again.
ASSUME ReusableAssumption ==
  /\ Reusable \subseteq Resource
  /\ \A r \in Reusable, d \in Resource : r \in Lineage[d] => d = r

VARIABLES
  life,      \* OCI's side of each resource
  recorded,  \* ids that have a record in Drata
  phase,     \* what each run is doing
  asked,     \* the resources whose children it has asked for
  seen,      \* the lifecycle states each resource was listed with
  complete,  \* no operation of it has failed
  todo,      \* ids it has still to delete
  failed,    \* ids whose delete failed since a run was started last
  late,      \* requests that got no answer and may still take effect, after their run too
  faults     \* calls may still fail

runVars == <<phase, asked, seen, complete, todo>>
vars == <<life, recorded, runVars, failed, late, faults>>

\* "renewed": the id was given again and the old entry is still listed; "again": it no
\* longer is.  (Bound: an id is given twice at most.)
Life == {"none", "live", "terminal", "renewed", "again", "purged"}

\* An entry in whatever state, gone or not.
AnyEntry(r) == {life[r]}

\* The lifecycle states of the entries a listing returns for a resource.
Entries(r) ==
  CASE life[r] \in {"live", "again"} -> {"live"}
    [] life[r] = "terminal" -> {"terminal"}
    [] life[r] = "renewed" -> {"live", "terminal"}
    [] life[r] \in {"none", "purged"} -> {}

\* The resources OCI no longer knows.
Unlisted == {r \in Resource : life[r] = "purged"}

Children(p) == {r \in Resource : Parent[r] = p}
Parents == {Root} \cup {Parent[r] : r \in Resource}
Level(p) == IF p = Root THEN 0 ELSE Cardinality(Lineage[p])

-----------------------------------------------------------------------------
Init ==
  /\ life = [r \in Resource |-> "none"]
  /\ recorded = {}
  /\ phase = [w \in Run |-> "idle"]
  /\ asked = [w \in Run |-> {}]
  /\ seen = [w \in Run |-> [r \in Resource |-> {}]]
  /\ complete = [w \in Run |-> TRUE]
  /\ todo = [w \in Run |-> {}]
  /\ failed = {}
  /\ late = {}
  /\ faults = TRUE

\* A run's memory ends with it.
Forget(w) ==
  /\ phase' = [phase EXCEPT ![w] = "idle"]
  /\ asked' = [asked EXCEPT ![w] = {}]
  /\ seen' = [seen EXCEPT ![w] = [r \in Resource |-> {}]]
  /\ complete' = [complete EXCEPT ![w] = TRUE]
  /\ todo' = [todo EXCEPT ![w] = {}]

Start(w) ==
  /\ phase[w] = "idle"
  /\ phase' = [phase EXCEPT ![w] = "collect"]
  /\ failed' = {}
  /\ UNCHANGED <<life, recorded, asked, seen, complete, todo, late, faults>>

\* The process ends before it has delivered: discovery or a collector failed, or it
\* was killed.
Die(w) ==
  /\ faults /\ phase[w] # "idle"
  /\ Forget(w)
  /\ UNCHANGED <<life, recorded, failed, late, faults>>

-----------------------------------------------------------------------------
(* The collector: one listing per resource it was shown, a level at a time,  *)
(* in any order within a level.                                              *)

Listable(w) ==
  {p \in Parents \ asked[w] : p = Root \/ (p \in Resource /\ seen[w][p] # {})}

\* The operations of the next level.
Due(w) == {p \in Listable(w) : \A q \in Listable(w) : Level(p) <= Level(q)}

SeeChildren(w, S) ==
  seen' = [seen EXCEPT ![w] = [r \in Resource |-> IF r \in S THEN Entries(r) ELSE @[r]]]

List(w, p) ==
  /\ phase[w] = "collect" /\ p \in Due(w)
  /\ p \notin Unlisted
  /\ asked' = [asked EXCEPT ![w] = @ \cup {p}]
  /\ SeeChildren(w, Children(p))
  /\ UNCHANGED <<life, recorded, phase, complete, todo, failed, late, faults>>

\* A page fails, or OCI no longer knows the resource; what was read so far is kept.
ListFails(w, p) ==
  /\ phase[w] = "collect" /\ p \in Due(w)
  /\ faults \/ p \in Unlisted
  /\ asked' = [asked EXCEPT ![w] = @ \cup {p}]
  /\ \E S \in SUBSET Children(p) : SeeChildren(w, S)
  /\ complete' = [complete EXCEPT ![w] = FALSE]
  /\ UNCHANGED <<life, recorded, phase, todo, failed, late, faults>>

-----------------------------------------------------------------------------
(* build_flat_records and the gate.                                         *)

\* Every resource is excluded for itself alone.
NoCascade(w, r) == FALSE

\* Excluded with its parent: exclude_lifecycle_cascade, and the keys of a deleted user.
ParentExcluded(w, r) == \E a \in Lineage[r] \ {r} : "terminal" \in seen[w][a]

kept(w) == {r \in Resource : "live" \in seen[w][r] /\ ~ParentExcluded(w, r)}

excluded(w) ==
  {r \in Resource : seen[w][r] # {} /\ ("terminal" \in seen[w][r] \/ ParentExcluded(w, r))}

Finish(w) ==
  /\ phase[w] = "collect" /\ Listable(w) = {}
  /\ IF complete[w]
     THEN /\ phase' = [phase EXCEPT ![w] = "upload"]
          /\ UNCHANGED <<asked, seen, complete, todo>>
     ELSE Forget(w)
  /\ UNCHANGED <<life, recorded, failed, late, faults>>

-----------------------------------------------------------------------------
(* _deliver.                                                                *)

\* Everything not seen live is to be deleted.
UnseenIsStale(w) == Resource \ kept(w)

_stale_record_ids(w) == excluded(w)

\* Whether a request was answered in the end or not, an attempt at it that was not may
\* still take effect.
Lingers(method, ids) ==
  /\ ids # {} => faults
  /\ late' = late \cup ({method} \X ids) /\ Cardinality(late') <= MaxLate

\* From here on the run needs no more than the ids it has to delete.
Upload(w) ==
  /\ phase[w] = "upload"
  /\ recorded' = recorded \cup kept(w)
  /\ \E T \in SUBSET kept(w) : Lingers("post", T)
  /\ phase' = [phase EXCEPT ![w] = "clean"]
  /\ todo' = [todo EXCEPT ![w] = _stale_record_ids(w)]
  /\ asked' = [asked EXCEPT ![w] = {}]
  /\ seen' = [seen EXCEPT ![w] = [r \in Resource |-> {}]]
  /\ UNCHANGED <<life, complete, failed, faults>>

\* Some batch was not acknowledged: no cleanup in this run.  It may be stored all the
\* same, at once or later.
UploadFails(w) ==
  /\ faults /\ phase[w] = "upload"
  /\ \E S, T \in SUBSET kept(w) : recorded' = recorded \cup S /\ Lingers("post", T)
  /\ Forget(w)
  /\ UNCHANGED <<life, failed, faults>>

Delete(w, r) ==
  /\ phase[w] = "clean" /\ r \in todo[w]
  /\ recorded' = recorded \ {r}
  /\ \E T \in SUBSET {r} : Lingers("delete", T)
  /\ failed' = failed \ {r}
  /\ todo' = [todo EXCEPT ![w] = @ \ {r}]
  /\ UNCHANGED <<life, phase, asked, seen, complete, faults>>

\* Counted in staleRecordDeleteFailures; the run goes on and ends well.
DeleteFails(w, r) ==
  /\ faults /\ phase[w] = "clean" /\ r \in todo[w]
  /\ failed' = failed \cup {r}
  /\ \E T \in SUBSET {r} : Lingers("delete", T)
  /\ todo' = [todo EXCEPT ![w] = @ \ {r}]
  /\ UNCHANGED <<life, recorded, phase, asked, seen, complete, faults>>

End(w) ==
  /\ phase[w] = "clean" /\ todo[w] = {}
  /\ Forget(w)
  /\ UNCHANGED <<life, recorded, failed, late, faults>>

Settle ==
  \E u \in late :
    /\ recorded' = IF u[1] = "post" THEN recorded \cup {u[2]} ELSE recorded \ {u[2]}
    /\ late' = late \ {u}
    /\ UNCHANGED <<life, runVars, failed, faults>>

-----------------------------------------------------------------------------
(* The tenancy.                                                             *)

Become(r, l) ==
  /\ life' = [life EXCEPT ![r] = l]
  /\ UNCHANGED <<recorded, runVars, failed, late, faults>>

\* A resource is created within a living one; it may be terminated before its
\* children, or go on being listed as live when they are not.
Create(r) ==
  /\ life[r] = "none"
  /\ \A a \in Lineage[r] \ {r} : life[a] = "live"
  /\ Become(r, "live")

Terminate(r) == life[r] = "live" /\ Become(r, "terminal")

Renew(r) == life[r] = "terminal" /\ r \in Reusable /\ Become(r, "renewed")

\* Whether Drata, or a run under way, still holds something that only the listing of r
\* can correct.
Retained(r) ==
  \E d \in Resource :
    /\ r \in Lineage[d]
    /\ d \in recorded \/ <<"post", d>> \in late \/ \E w \in Run : "live" \in seen[w][d]

Purge(r) ==
  /\ life[r] \in {"terminal", "renewed"}
  /\ Forgetful \/ ~Retained(r)
  /\ Become(r, IF life[r] = "terminal" THEN "purged" ELSE "again")

Calm ==
  /\ faults /\ faults' = FALSE
  /\ UNCHANGED <<life, recorded, runVars, failed, late>>

-----------------------------------------------------------------------------
Step(w) ==
  \/ Start(w)
  \/ \E p \in Parents : List(w, p) \/ ListFails(w, p)
  \/ Finish(w) \/ Upload(w) \/ UploadFails(w)
  \/ \E r \in Resource : Delete(w, r) \/ DeleteFails(w, r)
  \/ End(w)

Tenancy == \E r \in Resource : Create(r) \/ Terminate(r) \/ Renew(r) \/ Purge(r)

Next == (\E w \in Run : Step(w) \/ Die(w)) \/ Settle \/ Tenancy \/ Calm

Spec == Init /\ [][Next]_vars /\ \A w \in Run : WF_vars(Step(w))

-----------------------------------------------------------------------------
(* Properties.                                                              *)

TypeOK ==
  /\ life \in [Resource -> Life]
  /\ recorded \subseteq Resource /\ failed \subseteq Resource
  /\ phase \in [Run -> {"idle", "collect", "upload", "clean"}]
  /\ asked \in [Run -> SUBSET Parents]
  /\ seen \in [Run -> [Resource -> SUBSET {"live", "terminal"}]]
  /\ complete \in [Run -> BOOLEAN]
  /\ todo \in [Run -> SUBSET Resource]
  /\ late \subseteq {"post", "delete"} \X Resource
  /\ faults \in BOOLEAN

Alive(r) == \A a \in Lineage[r] : life[a] \in {"live", "renewed", "again"}

\* No run deletes the record of a living resource, however long ago it listed it,
\* however late the request arrives and whatever other runs do meanwhile, unless the
\* id was given a second time.
OnlyTheDeadAreErased ==
  [][\A r \in recorded \ recorded' : ~Alive(r) \/ life[r] \in {"renewed", "again"}]_vars

\* Once calls stop failing, and no id stays listed twice, Drata comes to hold the
\* records of exactly the living resources, and keeps to that.
Converges ==
  <>~faults /\ <>[](\A r \in Resource : life[r] # "renewed") =>
    <>[](recorded = {r \in Resource : Alive(r)})

\* README.md:237 of a stale record that could not be deleted: "a failure here doesn't
\* block the run and is retried next run".  Not if OCI has stopped listing it by then.
FailedDeleteIsRetried ==
  <>~faults => \A r \in Resource : r \in failed ~> r \notin recorded

=============================================================================
