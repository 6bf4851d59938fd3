--------------------------- MODULE DrataDelivery ---------------------------
(***************************************************************************)
(* Delivery of one run's evidence: runner._deliver over                    *)
(* delivery.drata.upsert_records and delete_records.                       *)
(*                                                                         *)
(* A request and its answer are one action: what Drata did with the        *)
(* request, and what the client was told.  The two differ when a request   *)
(* times out or a gateway answers for Drata: the effect may have happened, *)
(* may never happen, or may happen later ("unsettled").  Sleeping between  *)
(* attempts changes nothing and is left out.                               *)
(***************************************************************************)
EXTENDS Naturals, Sequences, FiniteSets

CONSTANTS
  Id,           \* record ids
  Workloads,    \* what the gate may hand over: [records, gone] sets of ids
  MaxAttempts   \* max_attempts of upsert_records and delete_records

ASSUME WorkloadsAssumption == Workloads \subseteq [records : SUBSET Id, gone : SUBSET Id]
ASSUME AttemptsAssumption == MaxAttempts \in Nat \ {0}

VARIABLES
  store,      \* what Drata holds of each record
  unsettled,  \* <<verb, id>> of requests that got no answer and may still take effect
  pc,         \* where _deliver is
  batches,    \* the bodies of the POSTs, in order
  deletes,    \* delete_ids, in order
  attempt,    \* attempt of the current request, from 1
  acks,       \* error_class of each finished batch, "ok" when uploaded
  cleared,    \* the same of each finished delete
  decision    \* report["uploadDecision"]

vars == <<store, unsettled, pc, batches, deletes, attempt, acks, cleared, decision>>

Version == {"absent", "old", "new"}
ErrorClass == {"auth", "validation", "transport", "unexpected"}

-----------------------------------------------------------------------------
\* The lists of members of T, no longer than max.
Lists(T, max) == UNION {[1..n -> T] : n \in 0..max}

\* The ways to cut a set of records into batches; how big a batch gets depends on
\* the records' sizes.
Batchings(S) ==
  {bs \in Lists((SUBSET S) \ {{}}, Cardinality(S)) :
     /\ UNION {bs[i] : i \in 1..Len(bs)} = S
     /\ \A i, j \in 1..Len(bs) : i # j => bs[i] \cap bs[j] = {}}

Orderings(S) ==
  {ds \in Lists(S, Cardinality(S)) :
     /\ {ds[i] : i \in 1..Len(ds)} = S
     /\ \A i, j \in 1..Len(ds) : i # j => ds[i] # ds[j]}

Records == UNION {batches[i] : i \in 1..Len(batches)}
Gone == {deletes[i] : i \in 1..Len(deletes)}

\* report["recordCountDelivered"] counts these.
Delivered == UNION {batches[i] : i \in {j \in 1..Len(acks) : acks[j] = "ok"}}

Put(S, v) == [i \in Id |-> IF i \in S THEN v ELSE store[i]]

-----------------------------------------------------------------------------
Init ==
  /\ store \in [Id -> {"absent", "old"}]
  /\ unsettled = {}
  /\ pc = "idle"
  /\ batches = <<>> /\ deletes = <<>>
  /\ attempt = 1
  /\ acks = <<>> /\ cleared = <<>>
  /\ decision = "none"

\* runner.run calls _deliver; without deliverable records upsert_records is not called.
Deliver(records, gone) ==
  /\ pc = "idle"
  /\ batches' \in Batchings(records)
  /\ deletes' \in Orderings(gone)
  /\ pc' = IF records = {} THEN "decide" ELSE "token"
  /\ UNCHANGED <<store, unsettled, attempt, acks, cleared, decision>>

\* api_token_secret_ref.resolve() at the head of upsert_records, and again at the
\* head of delete_records.
ResolveToken ==
  /\ pc \in {"token", "delete_token"}
  /\ pc' = IF pc = "token" THEN "post" ELSE "delete"
  /\ UNCHANGED <<store, unsettled, batches, deletes, attempt, acks, cleared, decision>>

\* The secret is gone by now: resolve() raises, and _deliver folds the exception
\* into the report, whatever was uploaded before.
TokenUnreadable ==
  /\ pc \in {"token", "delete_token"}
  /\ pc' = "failed"
  /\ decision' = "delivery_failed"
  /\ UNCHANGED <<store, unsettled, batches, deletes, attempt, acks, cleared>>

-----------------------------------------------------------------------------
(* _upsert_with_retry, one batch after the other.                           *)

\* One attempt more than max_attempts.
RetriesOnceMore == attempt <= MaxAttempts

MayRetry == attempt < MaxAttempts

\* An attempt without an answer that is not counted.
NotCounted == attempt

NextAttempt == attempt + 1

body == batches[Len(acks) + 1]

\* This batch is over; a failed batch does not stop the rest.
BatchDone(class) ==
  /\ acks' = Append(acks, class)
  /\ attempt' = 1
  /\ pc' = IF Len(acks) + 1 = Len(batches) THEN "decide" ELSE "post"

PostAccepted ==
  /\ pc = "post"
  /\ store' = Put(body, "new")
  /\ BatchDone("ok")
  /\ UNCHANGED <<unsettled, batches, deletes, cleared, decision>>

\* The answer is taken at its status, without a look at the per-record errors.
TrustsStatus == "ok"

\* 200, but some record carries an error: only the others were stored.
RejectedRecordClass == "validation"

PostPartlyAccepted ==
  /\ pc = "post"
  /\ \E S \in (SUBSET body) \ {body} : store' = Put(S, "new")
  /\ BatchDone(RejectedRecordClass)
  /\ UNCHANGED <<unsettled, batches, deletes, cleared, decision>>

\* 401/403 or 400/404/409/422: final, and nothing was stored.
PostRefused ==
  /\ pc = "post"
  /\ \E class \in {"auth", "validation"} : BatchDone(class)
  /\ UNCHANGED <<store, unsettled, batches, deletes, cleared, decision>>

\* No answer, 429/5xx, or a status the client does not know: Drata may have stored
\* the batch, or may yet.  The first two are retried until the attempts are used up,
\* the last is final at once.
PostUnanswered ==
  /\ pc = "post"
  /\ \/ store' = Put(body, "new") /\ UNCHANGED unsettled
     \/ unsettled' = unsettled \cup ({"post"} \X body) /\ UNCHANGED store
     \/ UNCHANGED <<store, unsettled>>
  /\ \/ MayRetry /\ attempt' = NextAttempt /\ UNCHANGED <<acks, pc>>
     \/ ~MayRetry /\ BatchDone("transport")
     \/ BatchDone("unexpected")
  /\ UNCHANGED <<batches, deletes, cleared, decision>>

-----------------------------------------------------------------------------
\* Cleanup may start as soon as one batch was acknowledged.
SomeUploaded == acks = <<>> \/ \E i \in 1..Len(acks) : acks[i] = "ok"

uploaded == \A i \in 1..Len(acks) : acks[i] = "ok"

\* Anything missing ends the delivery before any stale record is deleted.
\* (uploaded_partial and uploaded differ by the withheld domains of module CollectionRun.)
Decide ==
  /\ pc = "decide"
  /\ IF ~uploaded
     THEN decision' = "delivery_failed" /\ pc' = "failed"
     ELSE /\ decision' = IF acks = <<>> THEN "cleanup_only" ELSE "uploaded"
          /\ pc' = IF deletes = <<>> THEN "delivered" ELSE "delete_token"
  /\ UNCHANGED <<store, unsettled, batches, deletes, attempt, acks, cleared>>

-----------------------------------------------------------------------------
(* _delete_with_retry, one id after the other.                              *)

DeleteDone(class) ==
  /\ cleared' = Append(cleared, class)
  /\ attempt' = 1
  /\ pc' = IF Len(cleared) + 1 = Len(deletes) THEN "delivered" ELSE "delete"

stale == deletes[Len(cleared) + 1]

\* 204, or 404: the record is absent already.
DeleteAccepted ==
  /\ pc = "delete"
  /\ store' = Put({stale}, "absent")
  /\ DeleteDone("ok")
  /\ UNCHANGED <<unsettled, batches, deletes, acks, decision>>

\* A conflict is taken for an absence.
ConflictMeansAbsent == {"auth", "validation", "ok"}

RefusedDeleteClass == {"auth", "validation"}

DeleteRefused ==
  /\ pc = "delete"
  /\ \E class \in RefusedDeleteClass : DeleteDone(class)
  /\ UNCHANGED <<store, unsettled, batches, deletes, acks, decision>>

DeleteUnanswered ==
  /\ pc = "delete"
  /\ \/ store' = Put({stale}, "absent") /\ UNCHANGED unsettled
     \/ unsettled' = unsettled \cup {<<"delete", stale>>} /\ UNCHANGED store
     \/ UNCHANGED <<store, unsettled>>
  /\ \/ MayRetry /\ attempt' = NextAttempt /\ UNCHANGED <<cleared, pc>>
     \/ ~MayRetry /\ DeleteDone("transport")
     \/ DeleteDone("unexpected")
  /\ UNCHANGED <<batches, deletes, acks, decision>>

-----------------------------------------------------------------------------
\* Drata gets to a request the client had given up waiting for.
Settle ==
  \E u \in unsettled :
    /\ store' = Put({u[2]}, IF u[1] = "post" THEN "new" ELSE "absent")
    /\ unsettled' = unsettled \ {u}
    /\ UNCHANGED <<pc, batches, deletes, attempt, acks, cleared, decision>>

Upsert == PostAccepted \/ PostPartlyAccepted \/ PostRefused \/ PostUnanswered
Delete == DeleteAccepted \/ DeleteRefused \/ DeleteUnanswered

\* What _deliver does once it was called.
Client == ResolveToken \/ TokenUnreadable \/ Upsert \/ Decide \/ Delete

Returned == pc \in {"delivered", "failed"}

Next ==
  \/ \E w \in Workloads : w.records \cup w.gone # {} /\ Deliver(w.records, w.gone)
  \/ Client
  \/ Settle
  \/ Returned /\ UNCHANGED vars

Spec == Init /\ [][Next]_vars /\ WF_vars(Client)

-----------------------------------------------------------------------------
(* Properties.                                                              *)

PC == {"idle", "token", "post", "decide", "delete_token", "delete", "delivered", "failed"}

\* Every variable keeps its type; in particular a request is never attempted
\* more than max_attempts times, and every batch and id has at most one result.
TypeOK ==
  /\ store \in [Id -> Version]
  /\ unsettled \in SUBSET ({"post", "delete"} \X Id)
  /\ pc \in PC
  /\ batches \in Seq(SUBSET Id) /\ deletes \in Seq(Id)
  /\ attempt \in 1..MaxAttempts
  /\ acks \in Seq(ErrorClass \cup {"ok"}) /\ cleared \in Seq(ErrorClass \cup {"ok"})
  /\ pc = "post" => Len(acks) < Len(batches)
  /\ pc = "delete" => Len(cleared) < Len(deletes)
  /\ Len(acks) <= Len(batches) /\ Len(cleared) <= Len(deletes)
  /\ decision \in {"none", "delivery_failed", "cleanup_only", "uploaded"}

\* Every record the report counts as delivered is in Drata as this run sent it,
\* whatever was lost, repeated or late (a record also named gone may be deleted).
DeliveredAreStored == \A i \in Delivered \ Gone : store[i] = "new"

\* Every stale record the report counts as deleted is absent from Drata, and
\* stays so however late an earlier delete attempt arrives.
ClearedAreAbsent ==
  \A n \in 1..Len(cleared) :
    cleared[n] = "ok" /\ deletes[n] \notin Records => store[deletes[n]] = "absent"

\* Once called, _deliver returns: attempts are bounded and requests time out.
Returns == (pc # "idle") ~> Returned

\* The delivery does to Drata what EvidenceLedger allows.  It has published when
\* every batch was acknowledged, also if the token is unreadable afterwards and
\* the report says "delivery_failed".
stage ==
  CASE pc = "idle" -> "idle"
    [] pc \in {"token", "post", "decide"} -> "publishing"
    [] pc \in {"delete_token", "delete", "delivered"} -> "published"
    [] pc = "failed" -> IF Len(acks) = Len(batches) /\ uploaded THEN "published" ELSE "aborted"

Ledger == INSTANCE EvidenceLedger WITH ledger <- store, fresh <- Records, gone <- Gone

ImplementsLedger == Ledger!Spec

\* What README.md (section 5) says of exit code 1, which a delivery that did not
\* succeed ends in: "Blocked -- nothing uploaded."  Not so: Drata may have
\* acknowledged some batches, or all of them.
FailureUploadsNothing == pc = "failed" => Delivered = {}

=============================================================================
