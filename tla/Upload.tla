------------------------------- MODULE Upload -------------------------------
(***************************************************************************)
(* One delivery from the list of records on: module Batching cuts the list *)
(* (sorted by id), module DrataDelivery sends the pieces.                  *)
(***************************************************************************)
EXTENDS DrataDelivery, Batching

CONSTANTS
  Order,    \* the ids in the order build_flat_records sorts them in
  MaxSent   \* bound: longer lists are cut, and not sent

ASSUME OrderAssumption == Order \in Seq(Id) /\ \A i \in Id : \E k \in 1..Len(Order) : Order[k] = i

VARIABLE call   \* what _deliver is called with

uploadVars == <<vars, splitVars, call>>

\* The records of a piece.
Body(p) == LET records == SelectSeq(Order, LAMBDA i : i \in call.records)
           IN  {records[i] : i \in p[1]..p[2]}

\* The pieces in the order of the list.
Bodies ==
  [k \in 1..Cardinality(pieces) |->
     Body(CHOOSE p \in pieces : Cardinality({q \in pieces : q[1] <= p[1]}) = k)]

UploadInit ==
  /\ Init /\ SplitInit
  /\ call \in IF Len(load.size) > MaxSent THEN {[records |-> {}, gone |-> {}]}
              ELSE {w \in Workloads : Cardinality(w.records) = Len(load.size)}

Cut ==
  /\ pc = "idle" /\ SplitNext
  /\ UNCHANGED <<vars, call>>

\* The pieces are what is posted, whole and in order; the cutting is over.
Hand ==
  /\ pending = {} /\ call.records \cup call.gone # {}
  /\ Deliver(call.records, call.gone) /\ batches' = Bodies
  /\ load' = [size |-> <<>>, limit |-> NoLimit] /\ pieces' = {}
  /\ UNCHANGED <<pending, call>>

Send == Client /\ UNCHANGED <<splitVars, call>>

\* Nothing left to do.
Over == Returned \/ (pending = {} /\ call.records \cup call.gone = {})

UploadNext ==
  \/ Cut \/ Hand \/ Send
  \/ Settle /\ UNCHANGED <<splitVars, call>>
  \/ Over /\ UNCHANGED uploadVars

UploadSpec == UploadInit /\ [][UploadNext]_uploadVars /\ WF_uploadVars(Send) /\ WF_uploadVars(Cut)

=============================================================================
