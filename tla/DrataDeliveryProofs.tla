------------------------ MODULE DrataDeliveryProofs ------------------------
(***************************************************************************)
(* What module DrataDelivery promises for every workload, every way of     *)
(* cutting it into batches and every number of attempts; and that it       *)
(* implements EvidenceLedger.                                              *)
(***************************************************************************)
EXTENDS DrataDelivery, Integers, TLAPS

-----------------------------------------------------------------------------
(* The inductive invariant.                                                 *)

\* How far the delivery has got at each point of its code.
OrderInv ==
  /\ pc = "idle" => batches = <<>> /\ deletes = <<>> /\ acks = <<>> /\ unsettled = {}
  /\ pc = "token" => acks = <<>> /\ batches # <<>>
  /\ pc \in {"decide", "delete_token", "delete", "delivered"} => Len(acks) = Len(batches)
  /\ pc \in {"delete_token", "delete", "delivered"} => uploaded
  /\ pc = "delete_token" => deletes # <<>>
  /\ pc \notin {"delete", "delivered"} => cleared = <<>>

\* What may still happen late is what the delivery asked for, and no delete was
\* asked for before everything was uploaded.
UnsettledInv ==
  \A u \in unsettled :
    \/ u[1] = "post" /\ u[2] \in Records
    \/ u[1] = "delete" /\ u[2] \in Gone /\ pc \in {"delete", "delivered"}

\* Before the deletes, even a record named gone is there once it was acknowledged.
UploadInv == pc \notin {"delete", "delivered"} => \A i \in Delivered : store[i] = "new"

IInv ==
  TypeOK /\ OrderInv /\ UnsettledInv /\ UploadInv /\ DeliveredAreStored /\ ClearedAreAbsent

USE AttemptsAssumption

-----------------------------------------------------------------------------
(* Facts about the data.                                                    *)

\* A batching is a sequence of sets of records that holds them all; there is none to
\* send when there are no records.
LEMMA BatchingType ==
  ASSUME NEW S, NEW bs \in Batchings(S)
  PROVE  /\ bs \in Seq(SUBSET S) /\ Len(bs) \in Nat
         /\ UNION {bs[i] : i \in 1..Len(bs)} = S
         /\ S = {} => Len(bs) = 0
<1>1. PICK n \in 0..Cardinality(S) : bs \in [1..n -> (SUBSET S) \ {{}}]
  BY DEF Batchings, Lists
<1>2. n \in Nat /\ bs \in [1..n -> SUBSET S]
  BY <1>1
<1>3. bs \in Seq(SUBSET S) /\ Len(bs) = n
  BY <1>2
<1>4. S = {} => n = 0
  <2> SUFFICES ASSUME S = {}, n # 0
               PROVE  FALSE
    OBVIOUS
  <2>1. 1 \in 1..n
    BY <1>2
  <2>2. bs[1] \in (SUBSET S) \ {{}}
    BY <1>1, <2>1
  <2> QED
    BY <2>2
<1> QED
  BY <1>2, <1>3, <1>4 DEF Batchings

\* An ordering is a sequence of the ids.
LEMMA OrderingType ==
  ASSUME NEW S, NEW ds \in Orderings(S)
  PROVE  /\ ds \in Seq(S) /\ Len(ds) \in Nat
         /\ {ds[i] : i \in 1..Len(ds)} = S
<1>1. PICK n \in 0..Cardinality(S) : ds \in [1..n -> S]
  BY DEF Orderings, Lists
<1>2. n \in Nat
  BY <1>1
<1>3. ds \in Seq(S)
  BY <1>1, <1>2
<1> QED
  BY <1>3 DEF Orderings

\* Only an acknowledged batch adds to what counts as delivered.
LEMMA DeliveredGrows ==
  ASSUME TypeOK, NEW class \in ErrorClass \cup {"ok"},
         acks' = Append(acks, class), UNCHANGED batches
  PROVE  Delivered' = IF class = "ok" THEN Delivered \cup body ELSE Delivered
<1>1. /\ acks \in Seq(ErrorClass \cup {"ok"}) /\ Len(acks) \in Nat
      /\ Len(acks') = Len(acks) + 1 /\ acks'[Len(acks) + 1] = class
      /\ \A j \in 1..Len(acks) : acks'[j] = acks[j]
  BY DEF TypeOK
<1>2. 1..Len(acks') = (1..Len(acks)) \cup {Len(acks) + 1}
  BY <1>1
<1>3. {j \in 1..Len(acks') : acks'[j] = "ok"} =
        IF class = "ok" THEN {j \in 1..Len(acks) : acks[j] = "ok"} \cup {Len(acks) + 1}
        ELSE {j \in 1..Len(acks) : acks[j] = "ok"}
  BY <1>1, <1>2
<1> DEFINE Acked == {j \in 1..Len(acks) : acks[j] = "ok"}
<1>4. CASE class = "ok"
  <2>1. Delivered' = UNION {batches[i] : i \in Acked \cup {Len(acks) + 1}}
    BY <1>3, <1>4 DEF Delivered
  <2>2. Delivered = UNION {batches[i] : i \in Acked}
    BY DEF Delivered
  <2> HIDE DEF Acked
  <2>3. Delivered' = (UNION {batches[i] : i \in Acked}) \cup batches[Len(acks) + 1]
    BY <2>1, Zenon
  <2> QED
    BY <1>4, <2>2, <2>3 DEF body
<1>5. CASE class # "ok"
  BY <1>3, <1>5 DEF Delivered
<1> QED
  BY <1>4, <1>5

\* Every batch holds records of the delivery, and only ids.
LEMMA BatchesInRecords ==
  ASSUME TypeOK
  PROVE  /\ \A n \in 1..Len(batches) : batches[n] \subseteq Records
         /\ Records \subseteq Id
         /\ pc = "post" => body \subseteq Records /\ body \subseteq Id
<1>1. batches \in Seq(SUBSET Id) /\ Len(batches) \in Nat /\ Len(acks) \in Nat
  BY DEF TypeOK
<1>2. \A n \in 1..Len(batches) : batches[n] \subseteq Id
  BY <1>1
<1>3. \A n \in 1..Len(batches) : batches[n] \subseteq Records
  BY DEF Records
<1>4. Records \subseteq Id
  BY <1>2 DEF Records
<1>5. pc = "post" => Len(acks) + 1 \in 1..Len(batches)
  BY <1>1 DEF TypeOK
<1> QED
  BY <1>3, <1>4, <1>5 DEF body

\* The next id to delete is one named gone.
LEMMA StaleIsGone ==
  ASSUME TypeOK
  PROVE  pc = "delete" => /\ Len(cleared) + 1 \in 1..Len(deletes)
                          /\ stale \in Gone /\ stale \in Id
<1>1. deletes \in Seq(Id) /\ Len(deletes) \in Nat /\ Len(cleared) \in Nat
  BY DEF TypeOK
<1>2. pc = "delete" => Len(cleared) + 1 \in 1..Len(deletes)
  BY <1>1 DEF TypeOK
<1> QED
  BY <1>1, <1>2 DEF stale, Gone

-----------------------------------------------------------------------------
(* One lemma per kind of step.                                              *)

\* Nothing has been asked for yet.
LEMMA InitKeeps == Init => IInv
<1> SUFFICES ASSUME Init
             PROVE  IInv
  OBVIOUS
<1>1. Len(acks) = 0 /\ Len(cleared) = 0 /\ Len(batches) = 0 /\ Len(deletes) = 0
  BY DEF Init
<1>2. TypeOK
  BY <1>1 DEF Init, TypeOK, Version, PC, ErrorClass
<1>3. OrderInv /\ UnsettledInv
  BY DEF Init, OrderInv, UnsettledInv
<1>4. Delivered = {}
  BY <1>1 DEF Delivered
<1>5. UploadInv /\ DeliveredAreStored
  BY <1>4 DEF UploadInv, DeliveredAreStored
<1>6. ClearedAreAbsent
  BY <1>1 DEF ClearedAreAbsent
<1> QED
  BY <1>2, <1>3, <1>5, <1>6 DEF IInv

\* A list of some elements is a list of more.
LEMMA SeqWidens ==
  ASSUME NEW S, NEW T, S \subseteq T, NEW s \in Seq(S)
  PROVE  s \in Seq(T)
<1>1. Len(s) \in Nat /\ s \in [1..Len(s) -> S]
  OBVIOUS
<1>2. s \in [1..Len(s) -> T]
  BY <1>1
<1> QED
  BY <1>1, <1>2

\* _deliver is called.
LEMMA DeliverKeeps ==
  ASSUME IInv, NEW records \in SUBSET Id, NEW gone \in SUBSET Id, records \cup gone # {},
         Deliver(records, gone)
  PROVE  IInv'
<1> USE DEF IInv, Deliver
<1>1. /\ batches' \in Seq(SUBSET records) /\ Len(batches') \in Nat
      /\ records = UNION {batches'[i] : i \in 1..Len(batches')}
      /\ records = {} => Len(batches') = 0
  BY BatchingType
<1>2. /\ deletes' \in Seq(gone) /\ Len(deletes') \in Nat
      /\ gone = {deletes'[i] : i \in 1..Len(deletes')}
  BY OrderingType
<1>3. batches' \in Seq(SUBSET Id) /\ deletes' \in Seq(Id)
  <2>1. SUBSET records \subseteq SUBSET Id
    OBVIOUS
  <2> QED
    BY <1>1, <1>2, <2>1, SeqWidens
<1>4. /\ acks = <<>> /\ cleared = <<>> /\ unsettled = {}
      /\ Len(acks) = 0 /\ Len(cleared) = 0
  BY DEF OrderInv
<1>5. TypeOK'
  BY <1>1, <1>2, <1>3, <1>4 DEF TypeOK, PC
<1>6. batches' = <<>> => records = {}
  BY <1>1
<1>8. OrderInv'
  BY <1>1, <1>4, <1>6 DEF OrderInv
<1>9. Delivered' = {}
  BY <1>4 DEF Delivered
<1> QED
  BY <1>4, <1>5, <1>8, <1>9
     DEF UnsettledInv, UploadInv, DeliveredAreStored, ClearedAreAbsent

\* The token, readable or not.
LEMMA TokenKeeps == IInv /\ (ResolveToken \/ TokenUnreadable) => IInv'
<1> SUFFICES ASSUME IInv, ResolveToken \/ TokenUnreadable
             PROVE  IInv'
  OBVIOUS
<1> USE DEF IInv, ResolveToken, TokenUnreadable
<1>1. /\ pc \in {"token", "delete_token"}
      /\ UNCHANGED <<store, unsettled, batches, deletes, attempt, acks, cleared>>
  OBVIOUS
<1>2. /\ batches \in Seq(SUBSET Id) /\ Len(batches) \in Nat /\ Len(batches) = 0 <=> batches = <<>>
      /\ deletes \in Seq(Id) /\ Len(deletes) \in Nat /\ Len(deletes) = 0 <=> deletes = <<>>
  BY DEF TypeOK
<1>3. pc = "token" => Len(acks) = 0 /\ Len(batches) > 0
  BY <1>2 DEF OrderInv
<1>4. pc = "delete_token" => Len(cleared) = 0 /\ Len(deletes) > 0
  BY <1>2 DEF OrderInv
<1>5. TypeOK'
  BY <1>1, <1>3, <1>4 DEF TypeOK, PC
<1>6. OrderInv'
  BY <1>1 DEF OrderInv, uploaded
<1>7. UnsettledInv'
  BY <1>1 DEF UnsettledInv, Records, Gone
<1>8. UploadInv' /\ DeliveredAreStored'
  BY <1>1 DEF UploadInv, DeliveredAreStored, Delivered, Gone
<1>9. ClearedAreAbsent'
  BY <1>1 DEF ClearedAreAbsent, Records
<1> QED
  BY <1>5, <1>6, <1>7, <1>8, <1>9

\* A POST: some of the batch may be stored, all of it if it counts; the rest may come
\* late; and the request is repeated or over.
LEMMA PostKeeps ==
  ASSUME IInv, pc = "post", NEW S \in SUBSET body, store' = Put(S, "new"),
         unsettled' \subseteq unsettled \cup ({"post"} \X body),
         \/ attempt < MaxAttempts /\ attempt' = attempt + 1 /\ UNCHANGED <<acks, pc>>
         \/ \E class \in ErrorClass \cup {"ok"} :
              BatchDone(class) /\ (class = "ok" => S = body),
         UNCHANGED <<batches, deletes, cleared, decision>>
  PROVE  IInv'
<1> USE DEF IInv
<1>1. /\ body \subseteq Records /\ body \subseteq Id
      /\ Records' = Records /\ Gone' = Gone
  BY BatchesInRecords DEF Records, Gone
<1>2. /\ store' \in [Id -> Version]
      /\ \A i \in Id : store'[i] = IF i \in S THEN "new" ELSE store[i]
  BY DEF TypeOK, Put, Version
<1>3. unsettled' \in SUBSET ({"post", "delete"} \X Id)
  BY <1>1 DEF TypeOK
<1>4. cleared = <<>> /\ Len(cleared) = 0
  BY DEF OrderInv
<1>5. pc' \in {"post", "decide"}
  BY DEF BatchDone
<1>6. TypeOK' /\ OrderInv'
  <2>1. CASE attempt < MaxAttempts /\ attempt' = attempt + 1 /\ UNCHANGED <<acks, pc>>
    BY <2>1, <1>2, <1>3, <1>4 DEF TypeOK, OrderInv
  <2>2. CASE \E class \in ErrorClass \cup {"ok"} : BatchDone(class)
    <3>1. /\ acks \in Seq(ErrorClass \cup {"ok"}) /\ Len(acks) \in Nat /\ Len(batches) \in Nat
          /\ Len(acks) < Len(batches)
      BY DEF TypeOK
    <3>2. /\ acks' \in Seq(ErrorClass \cup {"ok"}) /\ Len(acks') = Len(acks) + 1
          /\ attempt' = 1
          /\ pc' = IF Len(acks) + 1 = Len(batches) THEN "decide" ELSE "post"
      BY <2>2, <3>1 DEF BatchDone
    <3> QED
      BY <3>1, <3>2, <1>2, <1>3, <1>4 DEF TypeOK, PC, OrderInv
  <2> QED
    BY <2>1, <2>2
<1>7. UnsettledInv'
  BY <1>1, <1>5 DEF UnsettledInv
<1>8. \A i \in Delivered' : store'[i] = "new"
  <2>1. Delivered \subseteq Id
    BY BatchesInRecords DEF Delivered, TypeOK
  <2>2. \A i \in Delivered : store'[i] = "new"
    BY <1>2, <2>1 DEF UploadInv
  <2>3. CASE UNCHANGED <<acks, pc>>
    BY <2>2, <2>3 DEF Delivered
  <2>4. CASE \E class \in ErrorClass \cup {"ok"} :
               BatchDone(class) /\ (class = "ok" => S = body)
    <3>1. PICK class \in ErrorClass \cup {"ok"} :
            BatchDone(class) /\ (class = "ok" => S = body)
      BY <2>4
    <3>2. Delivered' = IF class = "ok" THEN Delivered \cup body ELSE Delivered
      BY <3>1, DeliveredGrows DEF BatchDone
    <3> QED
      BY <1>1, <1>2, <2>2, <3>1, <3>2
  <2> QED
    BY <2>3, <2>4
<1>9. UploadInv' /\ DeliveredAreStored'
  BY <1>8 DEF UploadInv, DeliveredAreStored
<1>10. ClearedAreAbsent'
  BY <1>4 DEF ClearedAreAbsent
<1> QED
  BY <1>6, <1>7, <1>9, <1>10

\* The decision between the uploads and the deletes.
LEMMA DecideKeeps == IInv /\ Decide => IInv'
<1> SUFFICES ASSUME IInv, Decide
             PROVE  IInv'
  OBVIOUS
<1> USE DEF IInv, Decide
<1>1. /\ pc = "decide" /\ cleared = <<>> /\ Len(cleared) = 0
      /\ UNCHANGED <<store, unsettled, batches, deletes, attempt, acks, cleared>>
  BY DEF OrderInv
<1>2. deletes \in Seq(Id) /\ Len(deletes) \in Nat
  BY DEF TypeOK
<1>3. TypeOK'
  BY <1>1 DEF TypeOK, PC
<1>4. OrderInv'
  BY <1>1 DEF OrderInv, uploaded
<1>5. UnsettledInv'
  BY <1>1 DEF UnsettledInv, Records, Gone
<1>6. UploadInv' /\ DeliveredAreStored'
  BY <1>1 DEF UploadInv, DeliveredAreStored, Delivered, Gone
<1>7. ClearedAreAbsent'
  BY <1>1 DEF ClearedAreAbsent
<1> QED
  BY <1>3, <1>4, <1>5, <1>6, <1>7

\* A DELETE: the record may be erased now, as it is when the delete counts, or late.
LEMMA DeleteKeeps ==
  ASSUME IInv, pc = "delete", NEW S \in SUBSET {stale}, store' = Put(S, "absent"),
         unsettled' \subseteq unsettled \cup {<<"delete", stale>>},
         \/ attempt < MaxAttempts /\ attempt' = attempt + 1 /\ UNCHANGED <<cleared, pc>>
         \/ \E class \in ErrorClass \cup {"ok"} :
              DeleteDone(class) /\ (class = "ok" => S = {stale}),
         UNCHANGED <<batches, deletes, acks, decision>>
  PROVE  IInv'
<1> USE DEF IInv
<1>1. /\ stale \in Gone /\ stale \in Id
      /\ Records' = Records /\ Gone' = Gone /\ Delivered' = Delivered
  BY StaleIsGone DEF Records, Gone, Delivered
<1>2. /\ store' \in [Id -> Version]
      /\ \A i \in Id : store'[i] = IF i \in S THEN "absent" ELSE store[i]
  BY DEF TypeOK, Put, Version
<1>3. unsettled' \in SUBSET ({"post", "delete"} \X Id)
  BY <1>1 DEF TypeOK
<1>4. pc' \in {"delete", "delivered"}
  BY DEF DeleteDone
<1>5. /\ cleared \in Seq(ErrorClass \cup {"ok"}) /\ Len(cleared) \in Nat
      /\ deletes \in Seq(Id) /\ Len(deletes) \in Nat
      /\ Len(cleared) < Len(deletes)
  BY DEF TypeOK
<1>6. TypeOK' /\ OrderInv'
  <2>1. CASE attempt < MaxAttempts /\ attempt' = attempt + 1 /\ UNCHANGED <<cleared, pc>>
    BY <2>1, <1>2, <1>3 DEF TypeOK, OrderInv, uploaded
  <2>2. CASE \E class \in ErrorClass \cup {"ok"} : DeleteDone(class)
    <3>1. /\ cleared' \in Seq(ErrorClass \cup {"ok"}) /\ Len(cleared') = Len(cleared) + 1
          /\ attempt' = 1
          /\ pc' = IF Len(cleared) + 1 = Len(deletes) THEN "delivered" ELSE "delete"
      BY <2>2, <1>5 DEF DeleteDone
    <3> QED
      BY <3>1, <1>2, <1>3, <1>5 DEF TypeOK, PC, OrderInv, uploaded
  <2> QED
    BY <2>1, <2>2
<1>7. UnsettledInv'
  BY <1>1, <1>4 DEF UnsettledInv
<1>8. DeliveredAreStored'
  <2>1. Delivered \subseteq Id
    BY BatchesInRecords DEF Delivered, TypeOK, OrderInv
  <2> QED
    BY <2>1, <1>1, <1>2 DEF DeliveredAreStored
<1>9. UploadInv'
  BY <1>4 DEF UploadInv
<1>10. \A n \in 1..Len(cleared) :
         cleared[n] = "ok" /\ deletes[n] \notin Records => store'[deletes[n]] = "absent"
  BY <1>2, <1>5 DEF ClearedAreAbsent
<1>11. ClearedAreAbsent'
  <2>1. CASE UNCHANGED <<cleared, pc>>
    BY <2>1, <1>1, <1>10 DEF ClearedAreAbsent
  <2>2. CASE \E class \in ErrorClass \cup {"ok"} :
               DeleteDone(class) /\ (class = "ok" => S = {stale})
    <3>1. PICK class \in ErrorClass \cup {"ok"} :
            DeleteDone(class) /\ (class = "ok" => S = {stale})
      BY <2>2
    <3>2. /\ Len(cleared') = Len(cleared) + 1 /\ cleared'[Len(cleared) + 1] = class
          /\ \A n \in 1..Len(cleared) : cleared'[n] = cleared[n]
      BY <3>1, <1>5 DEF DeleteDone
    <3>3. class = "ok" => store'[stale] = "absent"
      BY <3>1, <1>1, <1>2
    <3> QED
      BY <3>2, <3>3, <1>1, <1>5, <1>10 DEF ClearedAreAbsent, stale
  <2> QED
    BY <2>1, <2>2
<1> QED
  BY <1>6, <1>7, <1>8, <1>9, <1>11

\* An effect that comes late.
LEMMA SettleKeeps == IInv /\ Settle => IInv'
<1> SUFFICES ASSUME IInv, Settle
             PROVE  IInv'
  OBVIOUS
<1> USE DEF IInv
<1>1. PICK u \in unsettled :
        /\ store' = Put({u[2]}, IF u[1] = "post" THEN "new" ELSE "absent")
        /\ unsettled' = unsettled \ {u}
        /\ UNCHANGED <<pc, batches, deletes, attempt, acks, cleared, decision>>
  BY DEF Settle
<1>2. /\ \/ u[1] = "post" /\ u[2] \in Records
         \/ u[1] = "delete" /\ u[2] \in Gone /\ pc \in {"delete", "delivered"}
      /\ u[2] \in Id
  BY DEF UnsettledInv, TypeOK
<1>3. /\ store' \in [Id -> Version]
      /\ \A i \in Id :
           store'[i] = IF i = u[2] THEN (IF u[1] = "post" THEN "new" ELSE "absent") ELSE store[i]
  BY <1>1 DEF TypeOK, Put, Version
<1>4. /\ Records' = Records /\ Gone' = Gone /\ Delivered' = Delivered /\ Delivered \subseteq Id
  BY <1>1, BatchesInRecords DEF Records, Gone, Delivered, TypeOK
<1>5. TypeOK'
  BY <1>1, <1>3 DEF TypeOK
<1>6. OrderInv' /\ UnsettledInv'
  BY <1>1, <1>4 DEF OrderInv, uploaded, UnsettledInv
<1>7. UploadInv'
  BY <1>1, <1>2, <1>3, <1>4 DEF UploadInv
<1>8. DeliveredAreStored'
  BY <1>2, <1>3, <1>4 DEF DeliveredAreStored
<1>9. ClearedAreAbsent'
  <2>1. deletes \in Seq(Id) /\ Len(cleared) \in Nat /\ Len(deletes) \in Nat
        /\ Len(cleared) <= Len(deletes)
    BY DEF TypeOK
  <2>2. SUFFICES ASSUME NEW n \in 1..Len(cleared), cleared[n] = "ok", deletes[n] \notin Records
                 PROVE  store'[deletes[n]] = "absent"
    BY <1>1, <1>4 DEF ClearedAreAbsent
  <2>3. store[deletes[n]] = "absent" /\ deletes[n] \in Id
    BY <2>1, <2>2 DEF ClearedAreAbsent
  <2> QED
    BY <1>2, <1>3, <2>2, <2>3
<1> QED
  BY <1>5, <1>6, <1>7, <1>8, <1>9

-----------------------------------------------------------------------------
(* The actions are of these kinds.                                          *)

\* Putting nothing changes nothing.
LEMMA PutNothing == TypeOK => \A v : Put({}, v) = store
BY DEF TypeOK, Put

\* What every answer to a POST has in common.
LEMMA PostShape ==
  ASSUME TypeOK, Upsert
  PROVE  \E S \in SUBSET body :
           /\ pc = "post" /\ store' = Put(S, "new")
           /\ unsettled' \subseteq unsettled \cup ({"post"} \X body)
           /\ \/ attempt < MaxAttempts /\ attempt' = attempt + 1 /\ UNCHANGED <<acks, pc>>
              \/ \E class \in ErrorClass \cup {"ok"} :
                   BatchDone(class) /\ (class = "ok" => S = body)
           /\ UNCHANGED <<batches, deletes, cleared, decision>>
<1> USE DEF ErrorClass
<1>1. CASE PostAccepted
  BY <1>1 DEF PostAccepted
<1>2. CASE PostPartlyAccepted
  BY <1>2 DEF PostPartlyAccepted, RejectedRecordClass
<1>3. CASE PostRefused
  <2>1. store' = Put({}, "new")
    BY <1>3, PutNothing DEF PostRefused
  <2> QED
    BY <1>3, <2>1 DEF PostRefused
<1>4. CASE PostUnanswered
  <2>1. PICK S \in {{}, body} :
          store' = Put(S, "new") /\ unsettled' \subseteq unsettled \cup ({"post"} \X body)
    BY <1>4, PutNothing DEF PostUnanswered
  <2>2. \/ attempt < MaxAttempts /\ attempt' = attempt + 1 /\ UNCHANGED <<acks, pc>>
        \/ \E class \in {"transport", "unexpected"} : BatchDone(class)
    BY <1>4 DEF PostUnanswered, MayRetry, NextAttempt
  <2> QED
    BY <1>4, <2>1, <2>2 DEF PostUnanswered
<1> QED
  BY <1>1, <1>2, <1>3, <1>4 DEF Upsert

\* What every answer to a DELETE has in common.
LEMMA DeleteShape ==
  ASSUME TypeOK, Delete
  PROVE  \E S \in SUBSET {stale} :
           /\ pc = "delete" /\ store' = Put(S, "absent")
           /\ unsettled' \subseteq unsettled \cup {<<"delete", stale>>}
           /\ \/ attempt < MaxAttempts /\ attempt' = attempt + 1 /\ UNCHANGED <<cleared, pc>>
              \/ \E class \in ErrorClass \cup {"ok"} :
                   DeleteDone(class) /\ (class = "ok" => S = {stale})
           /\ UNCHANGED <<batches, deletes, acks, decision>>
<1> USE DEF ErrorClass
<1>1. CASE DeleteAccepted
  BY <1>1 DEF DeleteAccepted
<1>2. CASE DeleteRefused
  <2>1. store' = Put({}, "absent")
    BY <1>2, PutNothing DEF DeleteRefused
  <2> QED
    BY <1>2, <2>1 DEF DeleteRefused, RefusedDeleteClass
<1>3. CASE DeleteUnanswered
  <2>1. PICK S \in {{}, {stale}} :
          store' = Put(S, "absent") /\ unsettled' \subseteq unsettled \cup {<<"delete", stale>>}
    BY <1>3, PutNothing DEF DeleteUnanswered
  <2>2. \/ attempt < MaxAttempts /\ attempt' = attempt + 1 /\ UNCHANGED <<cleared, pc>>
        \/ \E class \in {"transport", "unexpected"} : DeleteDone(class)
    BY <1>3 DEF DeleteUnanswered, MayRetry, NextAttempt
  <2> QED
    BY <1>3, <2>1, <2>2 DEF DeleteUnanswered
<1> QED
  BY <1>1, <1>2, <1>3 DEF Delete

\* No step leaves the invariant.
LEMMA StepKeeps == IInv /\ [Next]_vars => IInv'
<1> SUFFICES ASSUME IInv, [Next]_vars
             PROVE  IInv'
  OBVIOUS
<1>1. CASE \E w \in Workloads : w.records \cup w.gone # {} /\ Deliver(w.records, w.gone)
  <2>1. PICK w \in Workloads : w.records \cup w.gone # {} /\ Deliver(w.records, w.gone)
    BY <1>1
  <2>2. w.records \in SUBSET Id /\ w.gone \in SUBSET Id
    BY WorkloadsAssumption
  <2> QED
    BY <2>1, <2>2, DeliverKeeps
<1>2. CASE ResolveToken \/ TokenUnreadable
  BY <1>2, TokenKeeps
<1>3. CASE Upsert
  BY <1>3, PostShape, PostKeeps DEF IInv
<1>4. CASE Decide
  BY <1>4, DecideKeeps
<1>5. CASE Delete
  BY <1>5, DeleteShape, DeleteKeeps DEF IInv
<1>6. CASE Settle
  BY <1>6, SettleKeeps
<1>7. CASE UNCHANGED vars
  BY <1>7 DEF vars, IInv, TypeOK, OrderInv, uploaded, UnsettledInv, UploadInv,
              DeliveredAreStored, ClearedAreAbsent, Delivered, Records, Gone
<1> QED
  BY <1>1, <1>2, <1>3, <1>4, <1>5, <1>6, <1>7 DEF Next, Client

\* A delivery that reports itself as uploaded has come through, to the last delete.
EndInv ==
  /\ pc = "idle" => decision = "none"
  /\ pc = "delivered" => Len(cleared) = Len(deletes)
  /\ decision = "uploaded" => pc \in {"delete_token", "delete", "delivered"}

\* That holds at first, and no step of the delivery changes it.
LEMMA EndInit == Init => EndInv
BY DEF Init, EndInv

LEMMA EndKeeps == ASSUME IInv, EndInv, Client \/ Settle PROVE EndInv'
<1> USE DEF IInv, EndInv
<1>1. CASE ResolveToken \/ TokenUnreadable
  BY <1>1 DEF ResolveToken, TokenUnreadable
<1>2. CASE Upsert
  <2>1. /\ pc = "post" /\ UNCHANGED <<decision, cleared, deletes>>
        /\ UNCHANGED pc \/ \E class : BatchDone(class)
    BY <1>2, PostShape
  <2> QED
    BY <2>1 DEF BatchDone
<1>3. CASE Decide
  <2>1. cleared = <<>> /\ Len(cleared) = 0 /\ (deletes = <<>> => Len(deletes) = 0)
    BY <1>3 DEF Decide, OrderInv
  <2> QED
    BY <1>3, <2>1 DEF Decide
<1>4. CASE Delete
  <2>1. /\ pc = "delete" /\ UNCHANGED <<decision, deletes>>
        /\ UNCHANGED <<cleared, pc>> \/ \E class \in ErrorClass \cup {"ok"} : DeleteDone(class)
    BY <1>4, DeleteShape
  <2>2. CASE UNCHANGED <<cleared, pc>>
    BY <2>1, <2>2
  <2>3. CASE \E class \in ErrorClass \cup {"ok"} : DeleteDone(class)
    <3>1. PICK class \in ErrorClass \cup {"ok"} : DeleteDone(class)
      BY <2>3
    <3>2. Len(cleared') = Len(cleared) + 1
      BY <3>1 DEF DeleteDone, TypeOK
    <3> QED
      BY <2>1, <3>1, <3>2 DEF DeleteDone
  <2> QED
    BY <2>1, <2>2, <2>3
<1>5. CASE Settle
  BY <1>5 DEF Settle
<1> QED
  BY <1>1, <1>2, <1>3, <1>4, <1>5 DEF Client

\* Once called, the delivery writes no record but its own, and erases none but those
\* named gone; what it was called with does not change.
LEMMA StepWrites ==
  ASSUME IInv, Client \/ Settle
  PROVE  /\ \A i \in Id : store'[i] # store[i] =>
              \/ i \in Records /\ store'[i] = "new"
              \/ i \in Gone /\ store'[i] = "absent"
         /\ UNCHANGED <<batches, deletes>>
         /\ pc # "idle" /\ pc' # "idle"
<1> USE DEF IInv
<1>1. CASE ResolveToken \/ TokenUnreadable \/ Decide
  BY <1>1 DEF ResolveToken, TokenUnreadable, Decide
<1>2. CASE Upsert
  <2>1. PICK S \in SUBSET body :
          /\ pc = "post" /\ store' = Put(S, "new")
          /\ UNCHANGED pc \/ \E class : BatchDone(class)
          /\ UNCHANGED <<batches, deletes>>
    BY <1>2, PostShape
  <2>2. S \subseteq Records
    BY <2>1, BatchesInRecords
  <2>3. pc' # "idle"
    BY <2>1 DEF BatchDone
  <2> QED
    BY <2>1, <2>2, <2>3 DEF Put
<1>3. CASE Delete
  <2>1. PICK S \in SUBSET {stale} :
          /\ pc = "delete" /\ store' = Put(S, "absent")
          /\ UNCHANGED pc \/ \E class : DeleteDone(class)
          /\ UNCHANGED <<batches, deletes>>
    BY <1>3, DeleteShape
  <2>2. S \subseteq Gone
    BY <2>1, StaleIsGone
  <2>3. pc' # "idle"
    BY <2>1 DEF DeleteDone
  <2> QED
    BY <2>1, <2>2, <2>3 DEF Put
<1>4. CASE Settle
  <2>1. PICK u \in unsettled :
          /\ store' = Put({u[2]}, IF u[1] = "post" THEN "new" ELSE "absent")
          /\ UNCHANGED <<pc, batches, deletes>>
    BY <1>4 DEF Settle
  <2>2. pc # "idle"
    BY <2>1 DEF OrderInv
  <2>3. \/ u[1] = "post" /\ u[2] \in Records
        \/ u[1] = "delete" /\ u[2] \in Gone
    BY <2>1 DEF UnsettledInv
  <2> QED
    BY <2>1, <2>2, <2>3 DEF Put
<1> QED
  BY <1>1, <1>2, <1>3, <1>4 DEF Client

-----------------------------------------------------------------------------
(* Every step is a step of the ledger.                                      *)

\* Before its first step the delivery is the idle ledger.
LEMMA InitRefines == Init => Ledger!Init
BY DEF Init, Ledger!Init, Ledger!Version, stage, Records, Gone

\* When every batch was acknowledged, every record counts as delivered.
LEMMA AllDelivered ==
  ASSUME TypeOK, Len(acks) = Len(batches), uploaded
  PROVE  Delivered = Records
<1>1. Len(acks) \in Nat
  BY DEF TypeOK
<1>2. {j \in 1..Len(acks) : acks[j] = "ok"} = 1..Len(batches)
  BY <1>1 DEF uploaded
<1> QED
  BY <1>2 DEF Delivered, Records

\* Whatever is handed over, a call opens the ledger for it.
LEMMA DeliverRefines ==
  ASSUME NEW records \in SUBSET Id, NEW gone \in SUBSET Id, Deliver(records, gone)
  PROVE  Ledger!Open
<1>1. Records' = records /\ Gone' = gone
  <2>1. batches' \in Batchings(records) /\ deletes' \in Orderings(gone)
    BY DEF Deliver
  <2> QED
    BY <2>1, BatchingType, OrderingType DEF Records, Gone
<1>2. stage = "idle" /\ stage' = "publishing" /\ store' = store
  BY DEF Deliver, stage
<1> QED
  BY <1>1, <1>2 DEF Ledger!Open

\* Every step writes, publishes, aborts or erases, or is invisible.
LEMMA StepRefines == IInv /\ [Next]_vars => [Ledger!Next]_(Ledger!vars)
<1> SUFFICES ASSUME IInv, [Next]_vars
             PROVE  [Ledger!Next]_(Ledger!vars)
  OBVIOUS
<1> USE DEF IInv, Ledger!Next, Ledger!vars
<1>0. Records \subseteq Id
  BY BatchesInRecords
<1>1. CASE \E w \in Workloads : w.records \cup w.gone # {} /\ Deliver(w.records, w.gone)
  <2>1. PICK w \in Workloads : w.records \cup w.gone # {} /\ Deliver(w.records, w.gone)
    BY <1>1
  <2>2. w.records \in SUBSET Id /\ w.gone \in SUBSET Id
    BY WorkloadsAssumption
  <2> QED
    BY <2>1, <2>2, DeliverRefines
<1>2. CASE ResolveToken \/ TokenUnreadable
  <2>1. store' = store /\ Records' = Records /\ Gone' = Gone
    BY <1>2 DEF ResolveToken, TokenUnreadable, Records, Gone
  <2>2. CASE pc = "token"
    <3>1. stage = "publishing" /\ Len(acks) # Len(batches)
      BY <2>2 DEF stage, OrderInv, TypeOK
    <3>2. stage' \in {"publishing", "aborted"}
      BY <1>2, <2>2, <3>1 DEF ResolveToken, TokenUnreadable, stage
    <3> QED
      BY <2>1, <3>1, <3>2 DEF Ledger!Abort
  <2>3. CASE pc = "delete_token"
    <3>1. stage = "published" /\ stage' = "published"
      BY <1>2, <2>3 DEF ResolveToken, TokenUnreadable, stage, uploaded, OrderInv
    <3> QED
      BY <2>1, <3>1
  <2> QED
    BY <1>2, <2>2, <2>3 DEF ResolveToken, TokenUnreadable
<1>3. CASE Upsert
  <2>1. PICK S \in SUBSET body :
          /\ pc = "post" /\ store' = Put(S, "new")
          /\ UNCHANGED pc \/ \E class \in ErrorClass \cup {"ok"} : BatchDone(class)
          /\ UNCHANGED <<batches, deletes>>
    BY <1>3, PostShape
  <2>2. stage = "publishing" /\ stage' = "publishing"
    BY <2>1 DEF stage, BatchDone
  <2>3. Records' = Records /\ Gone' = Gone /\ S \subseteq Records
    BY <2>1, BatchesInRecords DEF Records, Gone
  <2> QED
    BY <2>1, <2>2, <2>3 DEF Ledger!Write, Put
<1>4. CASE Decide
  <2>1. store' = store /\ Records' = Records /\ Gone' = Gone /\ stage = "publishing"
    BY <1>4 DEF Decide, Records, Gone, stage
  <2>2. CASE uploaded
    <3>1. stage' = "published"
      BY <1>4, <2>2 DEF Decide, stage
    <3>2. \A i \in Records : store[i] = "new"
      BY <1>4, <2>2, AllDelivered DEF Decide, OrderInv, UploadInv
    <3> QED
      BY <2>1, <3>1, <3>2 DEF Ledger!Publish
  <2>3. CASE ~uploaded
    <3>1. stage' = "aborted"
      BY <1>4, <2>3 DEF Decide, stage, uploaded
    <3> QED
      BY <2>1, <3>1 DEF Ledger!Abort
  <2> QED
    BY <2>2, <2>3
<1>5. CASE Delete
  <2>1. PICK S \in SUBSET {stale} :
          /\ pc = "delete" /\ store' = Put(S, "absent")
          /\ UNCHANGED pc \/ \E class \in ErrorClass \cup {"ok"} : DeleteDone(class)
          /\ UNCHANGED <<batches, deletes>>
    BY <1>5, DeleteShape
  <2>2. stage = "published" /\ stage' = "published"
    BY <2>1 DEF stage, DeleteDone
  <2>3. Records' = Records /\ Gone' = Gone /\ stale \in Gone
    BY <2>1, StaleIsGone DEF Records, Gone
  <2>4. CASE S = {stale}
    <3>1. store' = [store EXCEPT ![stale] = "absent"]
      BY <2>1, <2>4 DEF Put, TypeOK
    <3> QED
      BY <2>2, <2>3, <3>1 DEF Ledger!Erase
  <2>5. CASE S = {}
    BY <2>1, <2>2, <2>3, <2>5, PutNothing
  <2> QED
    BY <2>1, <2>4, <2>5
<1>6. CASE Settle
  <2>1. PICK u \in unsettled :
          /\ store' = Put({u[2]}, IF u[1] = "post" THEN "new" ELSE "absent")
          /\ UNCHANGED <<pc, batches, acks, deletes>>
    BY <1>6 DEF Settle
  <2>2. stage' = stage /\ Records' = Records /\ Gone' = Gone
    BY <2>1 DEF stage, uploaded, Records, Gone
  <2>3. CASE u[1] = "post" /\ u[2] \in Records
    <3>1. stage # "idle"
      BY <2>1 DEF stage, OrderInv, TypeOK, PC
    <3>2. {u[2]} \in SUBSET Records /\ store' = Put({u[2]}, "new")
      BY <2>1, <2>3
    <3> QED
      BY <2>2, <3>1, <3>2 DEF Ledger!Write, Put
  <2>4. CASE u[1] = "delete" /\ u[2] \in Gone /\ pc \in {"delete", "delivered"}
    <3>1. stage = "published"
      BY <2>4 DEF stage
    <3>2. store' = [store EXCEPT ![u[2]] = "absent"]
      BY <2>1, <2>4 DEF Put, TypeOK
    <3> QED
      BY <2>2, <2>4, <3>1, <3>2 DEF Ledger!Erase
  <2> QED
    BY <2>3, <2>4 DEF UnsettledInv
<1>7. CASE UNCHANGED vars
  BY <1>7 DEF vars, stage, uploaded, Records, Gone
<1> QED
  BY <1>1, <1>2, <1>3, <1>4, <1>5, <1>6, <1>7 DEF Next, Client

-----------------------------------------------------------------------------
(* The delivery comes to an end by count.                                   *)

\* Batches and ids without a result.
Open == (Len(batches) - Len(acks)) + (Len(deletes) - Len(cleared))

Rank(p) ==
  CASE p = "token" -> 5 [] p = "post" -> 4 [] p = "decide" -> 3
    [] p = "delete_token" -> 2 [] p = "delete" -> 1 [] OTHER -> 0

\* What there may be left to do: MaxAttempts attempts of each, and the rest of _deliver.
Left == (Open + 1) * MaxAttempts - attempt + Rank(pc)

\* One request less is MaxAttempts attempts less.
LEMMA OneLess ==
  ASSUME NEW k \in Nat
  PROVE  k * MaxAttempts \in Nat /\ (k + 1) * MaxAttempts = k * MaxAttempts + MaxAttempts
BY AttemptsAssumption

\* There is always something left.
LEMMA LeftIsNat == IInv => Open \in Nat /\ Left \in Nat
<1> SUFFICES ASSUME IInv
             PROVE  Open \in Nat /\ Left \in Nat
  OBVIOUS
<1>1. Open \in Nat /\ attempt \in 1..MaxAttempts
  BY DEF IInv, TypeOK, Open
<1>2. Rank(pc) \in Nat
  BY DEF Rank
<1> QED
  BY <1>1, <1>2, OneLess, AttemptsAssumption DEF Left

\* A request that is over leaves at most MaxAttempts attempts fewer, however many it took.
LEMMA ResultShrinks ==
  ASSUME IInv, Open' = Open - 1, Open' \in Nat, attempt' = 1, Rank(pc') <= Rank(pc)
  PROVE  Left' \in Int /\ Left' < Left
<1>1. Open \in Nat /\ attempt \in 1..MaxAttempts /\ Open = Open' + 1
  BY LeftIsNat DEF IInv, TypeOK
<1>2. Rank(pc) \in Nat /\ Rank(pc') \in Nat
  BY DEF Rank
<1> DEFINE n == Open'
           a == n * MaxAttempts
           b == (n + 1) * MaxAttempts
           c == ((n + 1) + 1) * MaxAttempts
<1>3. /\ a \in Nat /\ b \in Nat /\ c \in Nat
      /\ b = a + MaxAttempts /\ c = b + MaxAttempts
  BY <1>1, OneLess
<1>4. Left = c - attempt + Rank(pc) /\ Left' = b - attempt' + Rank(pc')
  BY <1>1 DEF Left
<1> HIDE DEF a, b, c, n
<1> QED
  BY <1>1, <1>2, <1>3, <1>4, AttemptsAssumption

\* A further attempt.
LEMMA AttemptShrinks ==
  ASSUME IInv, attempt' = attempt + 1, UNCHANGED <<batches, deletes, acks, cleared, pc>>
  PROVE  Left' \in Int /\ Left' < Left
<1>1. Open' = Open /\ Open \in Nat /\ attempt \in Nat
  BY LeftIsNat DEF Open, IInv, TypeOK
<1>2. Rank(pc) \in Nat /\ pc' = pc /\ (Open + 1) * MaxAttempts \in Nat
  BY <1>1, AttemptsAssumption, OneLess DEF Rank
<1> QED
  BY <1>1, <1>2 DEF Left

\* A step between requests.
LEMMA RankShrinks ==
  ASSUME IInv, Rank(pc') < Rank(pc), UNCHANGED <<batches, deletes, acks, cleared, attempt>>
  PROVE  Left' \in Int /\ Left' < Left
<1>1. Open' = Open /\ Open \in Nat /\ attempt' = attempt /\ attempt \in Nat
  BY LeftIsNat DEF Open, IInv, TypeOK
<1>2. Rank(pc) \in Nat /\ Rank(pc') \in Nat /\ (Open + 1) * MaxAttempts \in Nat
  BY <1>1, AttemptsAssumption, OneLess DEF Rank
<1> QED
  BY <1>1, <1>2 DEF Left

\* Whatever the client does, it comes nearer to its end.
LEMMA ClientShrinks == IInv /\ Client => Left' \in Int /\ Left' < Left
<1> SUFFICES ASSUME IInv, Client
             PROVE  Left' \in Int /\ Left' < Left
  OBVIOUS
<1>0. /\ Len(batches) \in Nat /\ Len(acks) \in Nat /\ Len(deletes) \in Nat /\ Len(cleared) \in Nat
      /\ acks \in Seq(ErrorClass \cup {"ok"}) /\ cleared \in Seq(ErrorClass \cup {"ok"})
      /\ Len(acks) <= Len(batches) /\ Len(cleared) <= Len(deletes)
  BY DEF IInv, TypeOK
<1>1. CASE ResolveToken \/ TokenUnreadable
  <2>1. Rank(pc') < Rank(pc)
    BY <1>1 DEF ResolveToken, TokenUnreadable, Rank
  <2> QED
    BY <1>1, <2>1, RankShrinks DEF ResolveToken, TokenUnreadable
<1>2. CASE Decide
  <2>1. Rank(pc') < Rank(pc)
    BY <1>2 DEF Decide, Rank
  <2> QED
    BY <1>2, <2>1, RankShrinks DEF Decide
<1>3. CASE Upsert
  <2>1. /\ pc = "post" /\ UNCHANGED <<batches, deletes, cleared>>
        /\ \/ attempt' = attempt + 1 /\ UNCHANGED <<acks, pc>>
           \/ \E class \in ErrorClass \cup {"ok"} : BatchDone(class)
    BY <1>3 DEF Upsert, PostAccepted, PostPartlyAccepted, PostRefused, PostUnanswered,
       RejectedRecordClass, NextAttempt, ErrorClass
  <2>2. CASE attempt' = attempt + 1 /\ UNCHANGED <<acks, pc>>
    BY <2>1, <2>2, AttemptShrinks
  <2>3. ASSUME NEW class \in ErrorClass \cup {"ok"}, BatchDone(class)
        PROVE  Left' \in Int /\ Left' < Left
    <3>1. Len(acks') = Len(acks) + 1 /\ attempt' = 1 /\ Len(acks) < Len(batches)
      BY <1>0, <2>1, <2>3 DEF BatchDone, IInv, TypeOK
    <3>2. Open' = Open - 1 /\ Open' \in Nat
      BY <1>0, <2>1, <3>1 DEF Open
    <3>3. Rank(pc') <= Rank(pc)
      BY <2>1, <2>3 DEF BatchDone, Rank
    <3> QED
      BY <3>1, <3>2, <3>3, ResultShrinks
  <2> QED
    BY <2>1, <2>2, <2>3
<1>4. CASE Delete
  <2>1. /\ pc = "delete" /\ UNCHANGED <<batches, deletes, acks>>
        /\ \/ attempt' = attempt + 1 /\ UNCHANGED <<cleared, pc>>
           \/ \E class \in ErrorClass \cup {"ok"} : DeleteDone(class)
    BY <1>4 DEF Delete, DeleteAccepted, DeleteRefused, DeleteUnanswered, RefusedDeleteClass,
       NextAttempt, ErrorClass
  <2>2. CASE attempt' = attempt + 1 /\ UNCHANGED <<cleared, pc>>
    BY <2>1, <2>2, AttemptShrinks
  <2>3. ASSUME NEW class \in ErrorClass \cup {"ok"}, DeleteDone(class)
        PROVE  Left' \in Int /\ Left' < Left
    <3>1. Len(cleared') = Len(cleared) + 1 /\ attempt' = 1 /\ Len(cleared) < Len(deletes)
      BY <1>0, <2>1, <2>3 DEF DeleteDone, IInv, TypeOK
    <3>2. Open' = Open - 1 /\ Open' \in Nat
      BY <1>0, <2>1, <3>1 DEF Open
    <3>3. Rank(pc') <= Rank(pc)
      BY <2>1, <2>3 DEF DeleteDone, Rank
    <3> QED
      BY <3>1, <3>2, <3>3, ResultShrinks
  <2> QED
    BY <2>1, <2>2, <2>3
<1> QED
  BY <1>1, <1>2, <1>3, <1>4 DEF Client

\* Once called, only the client's steps count, and each does.
Counting == pc # "idle" => IF Client THEN Left' < Left ELSE Left' = Left

\* A late effect in Drata, or none, leaves what there is to do.
LEMMA StepCounts == IInv /\ [Next]_vars => [Counting]_vars
<1> SUFFICES ASSUME IInv, Next, pc # "idle", ~Client
             PROVE  Left' = Left
  BY ClientShrinks DEF Counting
<1>1. UNCHANGED <<pc, batches, deletes, attempt, acks, cleared>>
  BY DEF Next, Settle, vars, Deliver
<1> QED
  BY <1>1 DEF Left, Open

-----------------------------------------------------------------------------
(* The theorems.                                                            *)

\* The invariant holds in every reachable state of every delivery.
THEOREM Invariance == Spec => []IInv
<1> QED
  BY InitKeeps, StepKeeps, PTL DEF Spec

\* Every variable keeps its type: no request is attempted more than max_attempts
\* times, and every batch and every stale id has at most one result.
THEOREM TypeCorrect == Spec => []TypeOK
<1>1. IInv => TypeOK
  BY DEF IInv
<1> QED
  BY <1>1, Invariance, PTL

\* Whatever is lost, repeated, refused in part or late: every record counted in
\* recordCountDelivered is in Drata as this run sent it.
THEOREM CountedIsStored == Spec => []DeliveredAreStored
<1>1. IInv => DeliveredAreStored
  BY DEF IInv
<1> QED
  BY <1>1, Invariance, PTL

\* Every id counted in staleRecordsDeleted is absent from Drata, and stays so.
THEOREM CountedIsAbsent == Spec => []ClearedAreAbsent
<1>1. IInv => ClearedAreAbsent
  BY DEF IInv
<1> QED
  BY <1>1, Invariance, PTL

\* The delivery implements EvidenceLedger: whatever goes wrong, nothing but this run's
\* records is written, and nothing is erased that was not named gone or before every
\* record was stored.
THEOREM Refinement == Spec => ImplementsLedger
<1> QED
  BY InitRefines, StepRefines, Invariance, PTL DEF Spec, ImplementsLedger, Ledger!Spec

\* From its call on, each step of _deliver takes from the attempts it has left, which are
\* at first MaxAttempts for each batch and each stale id, and one more, and nothing else
\* changes their number: no answer, refusal, timeout or late effect can keep it going.
THEOREM StepsRunOut == Spec => [](Left \in Nat) /\ [][Counting]_vars
<1>1. IInv => Left \in Nat
  BY LeftIsNat
<1> QED
  BY <1>1, StepCounts, Invariance, PTL DEF Spec

=============================================================================
