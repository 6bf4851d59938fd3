-------------------------- MODULE EvidenceLedger --------------------------
(***************************************************************************)
(* What one delivery promises about the records Drata holds, said without  *)
(* batches, retries, lost answers or error classes: the fresh records are  *)
(* written, each any number of times; a record is erased only if it was    *)
(* named gone, and only after every fresh record was seen written; and no  *)
(* other record is touched.                                                *)
(***************************************************************************)
CONSTANTS Id

VARIABLES ledger, fresh, gone, stage

vars == <<ledger, fresh, gone, stage>>

\* A record is absent, left from an earlier run, or this run's.
Version == {"absent", "old", "new"}

\* "published": every fresh record was written, and the gone ones may go.
Stage == {"idle", "publishing", "aborted", "published"}

Init ==
  /\ ledger \in [Id -> Version]
  /\ fresh = {} /\ gone = {}
  /\ stage = "idle"

Open ==
  /\ stage = "idle"
  /\ stage' = "publishing"
  /\ fresh' \in SUBSET Id /\ gone' \in SUBSET Id
  /\ UNCHANGED ledger

Write ==
  /\ stage # "idle"
  /\ \E S \in SUBSET fresh : ledger' = [i \in Id |-> IF i \in S THEN "new" ELSE ledger[i]]
  /\ UNCHANGED <<fresh, gone, stage>>

Publish ==
  /\ stage = "publishing"
  /\ \A i \in fresh : ledger[i] = "new"
  /\ stage' = "published"
  /\ UNCHANGED <<ledger, fresh, gone>>

Abort ==
  /\ stage = "publishing"
  /\ stage' = "aborted"
  /\ UNCHANGED <<ledger, fresh, gone>>

Erase ==
  /\ stage = "published"
  /\ \E i \in gone : ledger' = [ledger EXCEPT ![i] = "absent"]
  /\ UNCHANGED <<fresh, gone, stage>>

Next == Open \/ Write \/ Publish \/ Abort \/ Erase

Spec == Init /\ [][Next]_vars
=============================================================================
