------------------------- MODULE EvidenceSyncProofs -------------------------
(***************************************************************************)
(* What runs over a changing tenancy may erase from Drata: for any number  *)
(* of runs at a time, any nesting of resources and any number of requests  *)
(* that take effect late.                                                  *)
(***************************************************************************)
EXTENDS EvidenceSync, TLAPS

USE ParentAssumption, LineageAssumption, ReusableAssumption

\* A resource that is dead stays so, or its id was given again.
Dead(r) == (\E a \in Lineage[r] : life[a] \in {"terminal", "purged"}) \/ life[r] \in {"renewed", "again"}

\* Only some ids are given again; what a run saw terminated was terminated; and what is
\* to be deleted, by a run or by a request still on its way, is dead.
DeadInv ==
  /\ \A r \in Resource : life[r] \in {"renewed", "again"} => r \in Reusable
  /\ \A w \in Run, r \in Resource :
       "terminal" \in seen[w][r] => life[r] \in {"terminal", "renewed", "again", "purged"}
  /\ \A w \in Run : \A r \in todo[w] : Dead(r)
  /\ \A r \in Resource : <<"delete", r>> \in late => Dead(r)

IInv == TypeOK /\ DeadInv

-----------------------------------------------------------------------------
\* A listing returns one of two lifecycle states, or both.
LEMMA EntriesType ==
  ASSUME TypeOK, NEW r \in Resource
  PROVE  /\ Entries(r) \in SUBSET {"live", "terminal"}
         /\ "terminal" \in Entries(r) => life[r] \in {"terminal", "renewed"}
<1>1. life[r] \in {"none", "live", "terminal", "renewed", "again", "purged"}
  BY DEF TypeOK, Life
<1>2. CASE life[r] \in {"live", "again"}
  BY <1>2 DEF Entries
<1>3. CASE life[r] = "terminal"
  BY <1>3 DEF Entries
<1>4. CASE life[r] = "renewed"
  BY <1>4 DEF Entries
<1>5. CASE life[r] \in {"none", "purged"}
  BY <1>5 DEF Entries
<1> QED
  BY <1>1, <1>2, <1>3, <1>4, <1>5

\* What the tenancy does to one resource raises nothing from the dead.
LEMMA DeadStays ==
  ASSUME IInv, NEW x \in Resource, NEW l, Become(x, l),
         \/ life[x] = "none" /\ l = "live"
         \/ life[x] = "live" /\ l = "terminal"
         \/ life[x] = "terminal" /\ l = "renewed" /\ x \in Reusable
         \/ life[x] = "terminal" /\ l = "purged"
         \/ life[x] = "renewed" /\ l = "again"
  PROVE  IInv' /\ \A r \in Resource : Dead(r) => Dead(r)'
<1> USE DEF IInv, Become, runVars
<1>1. /\ life' \in [Resource -> Life] /\ life'[x] = l
      /\ \A r \in Resource \ {x} : life'[r] = life[r]
  BY DEF TypeOK, Life
<1>2. TypeOK'
  BY <1>1 DEF TypeOK
<1>3. ASSUME NEW r \in Resource, Dead(r)
      PROVE  Dead(r)'
  <2>1. CASE life[r] \in {"renewed", "again"}
    BY <1>1, <2>1 DEF Dead
  <2>2. CASE \E a \in Lineage[r] : life[a] \in {"terminal", "purged"}
    <3>1. PICK a \in Lineage[r] : life[a] \in {"terminal", "purged"}
      BY <2>2
    <3>2. a \in Resource
      BY LineageAssumption
    <3>3. CASE a # x \/ l # "renewed"
      <4>1. life'[a] \in {"terminal", "purged"}
        BY <1>1, <3>1, <3>2, <3>3
      <4> QED
        BY <4>1 DEF Dead
    <3>4. CASE a = x /\ l = "renewed"
      <4>1. x = r
        BY <3>1, <3>4, <1>1
      <4> QED
        BY <4>1, <3>4, <1>1 DEF Dead
    <3> QED
      BY <3>3, <3>4
  <2> QED
    BY <1>3, <2>1, <2>2 DEF Dead
<1>4. \A r \in Resource : life'[r] \in {"renewed", "again"} => r \in Reusable
  BY <1>1 DEF DeadInv
<1>5. \A w \in Run, r \in Resource :
        "terminal" \in seen'[w][r] => life'[r] \in {"terminal", "renewed", "again", "purged"}
  BY <1>1 DEF DeadInv
<1>6. \A w \in Run : todo'[w] \subseteq Resource
  BY DEF TypeOK
<1> QED
  BY <1>2, <1>3, <1>4, <1>5, <1>6 DEF DeadInv

\* What a run excludes is dead.
LEMMA ExcludedAreDead ==
  ASSUME IInv, NEW w \in Run, NEW r \in excluded(w)
  PROVE  r \in Resource /\ Dead(r)
<1>1. r \in Resource /\ Lineage[r] \subseteq Resource /\ r \in Lineage[r]
  BY DEF excluded
<1>2. PICK a \in Lineage[r] : "terminal" \in seen[w][a]
  BY <1>1 DEF excluded, ParentExcluded
<1>3. life[a] \in {"terminal", "renewed", "again", "purged"}
  BY <1>1, <1>2 DEF IInv, DeadInv
<1>4. life[a] \in {"renewed", "again"} => a = r
  BY <1>1, <1>2 DEF IInv, DeadInv
<1> QED
  BY <1>1, <1>2, <1>3, <1>4 DEF Dead

-----------------------------------------------------------------------------
(* The steps.                                                               *)

\* Nothing was seen, asked for or lost before the first run.
LEMMA InitKeeps == Init => IInv
BY DEF Init, IInv, TypeOK, DeadInv, Life

\* What a run forgets it does no harm with.
LEMMA ForgetKeeps ==
  ASSUME IInv, NEW w \in Run, Forget(w), UNCHANGED <<life, faults>>,
         recorded' \subseteq Resource, failed' \subseteq Resource,
         late' \subseteq {"post", "delete"} \X Resource,
         \A r \in Resource : <<"delete", r>> \in late' => <<"delete", r>> \in late
  PROVE  IInv'
<1> USE DEF IInv, Forget
<1>1. TypeOK'
  BY DEF TypeOK
<1>2. \A v \in Run, r \in Resource : "terminal" \in seen'[v][r] => "terminal" \in seen[v][r]
  BY DEF TypeOK
<1>3. \A v \in Run : todo'[v] \subseteq todo[v]
  BY DEF TypeOK
<1> QED
  BY <1>1, <1>2, <1>3 DEF DeadInv, Dead

\* A listing shows no more than there is.
LEMMA ListingKeeps ==
  ASSUME IInv, NEW w \in Run, NEW p \in Parents, List(w, p) \/ ListFails(w, p)
  PROVE  IInv'
<1> USE DEF IInv
<1>1. PICK S \in SUBSET Resource :
        seen' = [seen EXCEPT ![w] = [r \in Resource |-> IF r \in S THEN Entries(r) ELSE @[r]]]
  BY DEF List, ListFails, SeeChildren, Children
<1>2. /\ asked' = [asked EXCEPT ![w] = @ \cup {p}]
      /\ complete' = complete \/ complete' = [complete EXCEPT ![w] = FALSE]
      /\ UNCHANGED <<life, recorded, phase, todo, failed, late, faults>>
  BY DEF List, ListFails
<1>3. seen' \in [Run -> [Resource -> SUBSET {"live", "terminal"}]]
  BY <1>1, EntriesType DEF TypeOK
<1>4. TypeOK'
  BY <1>2, <1>3 DEF TypeOK
<1>5. \A v \in Run, r \in Resource :
        "terminal" \in seen'[v][r] => "terminal" \in seen[v][r] \/ "terminal" \in Entries(r)
  BY <1>1 DEF TypeOK
<1> QED
  BY <1>2, <1>4, <1>5, EntriesType DEF DeadInv, Dead

\* What is to be deleted from now on is what was excluded.
LEMMA UploadKeeps == ASSUME IInv, NEW w \in Run, Upload(w) PROVE IInv'
<1> USE DEF IInv, Upload
<1>1. \A r \in excluded(w) : r \in Resource /\ Dead(r)
  BY ExcludedAreDead
<1>2. PICK T \in SUBSET kept(w) : late' = late \cup ({"post"} \X T)
  BY DEF Lingers
<1>3. TypeOK'
  <2>1. kept(w) \subseteq Resource
    BY DEF kept
  <2> QED
    BY <1>1, <1>2, <2>1 DEF TypeOK, _stale_record_ids
<1>4. \A v \in Run : todo'[v] \subseteq todo[v] \cup excluded(w)
  BY DEF TypeOK, _stale_record_ids
<1>5. \A v \in Run, r \in Resource : "terminal" \in seen'[v][r] => "terminal" \in seen[v][r]
  BY DEF TypeOK
<1> QED
  BY <1>1, <1>2, <1>3, <1>4, <1>5 DEF DeadInv, Dead

\* A delete, done or not.
LEMMA DeleteKeeps ==
  ASSUME IInv, NEW w \in Run, NEW r \in Resource, Delete(w, r) \/ DeleteFails(w, r)
  PROVE  IInv'
<1> USE DEF IInv
<1>0. PICK T \in SUBSET {r} : late' = late \cup ({"delete"} \X T)
  BY DEF Delete, DeleteFails, Lingers
<1>1. /\ UNCHANGED <<life, phase, asked, seen, complete, faults>>
      /\ r \in todo[w]
      /\ todo' = [todo EXCEPT ![w] = @ \ {r}]
      /\ late \subseteq late' /\ late' \subseteq late \cup {<<"delete", r>>}
      /\ recorded' \subseteq recorded /\ failed' \subseteq failed \cup {r}
  BY <1>0 DEF Delete, DeleteFails
<1>2. TypeOK'
  BY <1>1 DEF TypeOK
<1>3. \A v \in Run : todo'[v] \subseteq todo[v]
  BY <1>1 DEF TypeOK
<1>4. Dead(r)
  BY <1>1 DEF DeadInv
<1> QED
  BY <1>1, <1>2, <1>3, <1>4 DEF DeadInv, Dead

\* Every step of a run, of Drata and of the tenancy.
LEMMA StepKeeps == IInv /\ [Next]_vars => IInv'
<1> SUFFICES ASSUME IInv, [Next]_vars
             PROVE  IInv'
  OBVIOUS
<1>1. ASSUME NEW w \in Run, Start(w)
      PROVE  IInv'
  BY <1>1 DEF Start, IInv, TypeOK, DeadInv, Dead
<1>2. ASSUME NEW w \in Run, Die(w) \/ End(w)
      PROVE  IInv'
  BY <1>2, ForgetKeeps DEF Die, End, IInv, TypeOK
<1>3. ASSUME NEW w \in Run, Finish(w)
      PROVE  IInv'
  <2>1. CASE Forget(w)
    BY <1>3, <2>1, ForgetKeeps DEF Finish, IInv, TypeOK
  <2>2. CASE phase' = [phase EXCEPT ![w] = "upload"] /\ UNCHANGED <<asked, seen, complete, todo>>
    BY <1>3, <2>2 DEF Finish, IInv, TypeOK, DeadInv, Dead
  <2> QED
    BY <1>3, <2>1, <2>2 DEF Finish
<1>4. ASSUME NEW w \in Run, UploadFails(w)
      PROVE  IInv'
  <2>1. PICK S \in SUBSET kept(w), T \in SUBSET kept(w) :
          recorded' = recorded \cup S /\ late' = late \cup ({"post"} \X T)
    BY <1>4 DEF UploadFails, Lingers
  <2>2. S \subseteq Resource /\ T \subseteq Resource
    BY DEF kept
  <2>3. recorded' \subseteq Resource /\ late' \subseteq {"post", "delete"} \X Resource
    BY <2>1, <2>2 DEF IInv, TypeOK
  <2>4. \A r \in Resource : <<"delete", r>> \in late' => <<"delete", r>> \in late
    BY <2>1
  <2> QED
    BY <1>4, <2>3, <2>4, ForgetKeeps DEF UploadFails, IInv, TypeOK
<1>5. CASE Settle
  <2>1. PICK u \in late :
          /\ recorded' = IF u[1] = "post" THEN recorded \cup {u[2]} ELSE recorded \ {u[2]}
          /\ late' = late \ {u}
          /\ UNCHANGED <<life, runVars, failed, faults>>
    BY <1>5 DEF Settle
  <2>2. u[2] \in Resource
    BY DEF IInv, TypeOK
  <2>3. TypeOK'
    BY <2>1, <2>2 DEF IInv, TypeOK, runVars
  <2> QED
    BY <2>1, <2>3 DEF IInv, DeadInv, Dead, runVars
<1>6. ASSUME NEW r \in Resource, Create(r) \/ Terminate(r) \/ Renew(r) \/ Purge(r)
      PROVE  IInv'
  <2>1. Purge(r) => \/ life[r] = "terminal" /\ Become(r, "purged")
                    \/ life[r] = "renewed" /\ Become(r, "again")
    BY DEF Purge
  <2> QED
    BY <1>6, <2>1, DeadStays DEF Create, Terminate, Renew
<1>7. CASE Calm
  BY <1>7 DEF Calm, IInv, TypeOK, DeadInv, Dead, runVars
<1>8. CASE UNCHANGED vars
  BY <1>8 DEF vars, IInv, TypeOK, DeadInv, Dead, runVars
<1> QED
  BY <1>1, <1>2, <1>3, <1>4, <1>5, <1>6, <1>7, <1>8, ListingKeeps, UploadKeeps, DeleteKeeps
     DEF Next, Step, Tenancy

\* A record goes only when it is deleted, now or late.
LEMMA ErasedAreDead ==
  ASSUME IInv, [Next]_vars, NEW r \in recorded, r \notin recorded'
  PROVE  Dead(r) /\ r \in Resource
<1> USE DEF IInv
<1>0. r \in Resource
  BY DEF TypeOK
<1>1. ASSUME NEW w \in Run, NEW x \in Resource, Delete(w, x)
      PROVE  Dead(r)
  BY <1>1 DEF Delete, DeadInv
<1>2. CASE Settle
  <2>1. PICK u \in late :
          recorded' = IF u[1] = "post" THEN recorded \cup {u[2]} ELSE recorded \ {u[2]}
    BY <1>2 DEF Settle
  <2>2. u = <<"delete", r>>
    BY <2>1 DEF TypeOK
  <2> QED
    BY <1>0, <2>2 DEF DeadInv
<1>3. Settle \/ \E w \in Run, x \in Resource : Delete(w, x)
  BY DEF Next, Step, Tenancy, Start, List, ListFails, Finish, Upload, UploadFails, DeleteFails,
     End, Die, Create, Terminate, Renew, Purge, Become, Calm, vars
<1> QED
  BY <1>0, <1>1, <1>2, <1>3

-----------------------------------------------------------------------------
(* Theorems.                                                                *)

\* The invariant holds however many runs there are and whatever fails.
THEOREM Invariance == Spec => []IInv
<1> QED
  BY InitKeeps, StepKeeps, PTL DEF Spec

\* Every variable keeps its type.
THEOREM TypeCorrect == Spec => []TypeOK
<1>1. IInv => TypeOK
  BY DEF IInv
<1> QED
  BY <1>1, Invariance, PTL

\* No run, and no request that takes effect after its run, erases the record of a living
\* resource, unless the id was given a second time.
THEOREM ErasesOnlyTheDead == Spec => OnlyTheDeadAreErased
<1>1. IInv /\ [Next]_vars =>
        [\A r \in recorded \ recorded' : ~Alive(r) \/ life[r] \in {"renewed", "again"}]_vars
  <2> SUFFICES ASSUME IInv, [Next]_vars, NEW r \in recorded, r \notin recorded'
               PROVE  ~Alive(r) \/ life[r] \in {"renewed", "again"}
    OBVIOUS
  <2>1. Dead(r) /\ r \in Resource
    BY ErasedAreDead
  <2> QED
    BY <2>1 DEF Dead, Alive
<1> QED
  BY <1>1, Invariance, PTL DEF Spec, OnlyTheDeadAreErased

=============================================================================
