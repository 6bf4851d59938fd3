------------------------------ MODULE Batching ------------------------------
(***************************************************************************)
(* How upsert_records cuts the list of records into the bodies of its      *)
(* POSTs: chunks of _BATCH_SIZE, each halved, and its halves again, until  *)
(* the body fits max_payload_bytes or holds one record.  A piece is the    *)
(* pair of its first and last index in the list; the pieces are sent in    *)
(* the order of the list, whichever is cut first.  (The runner always      *)
(* passes runtime.maxPayloadBytes; a caller may leave it out.)             *)
(***************************************************************************)
EXTENDS Naturals, Sequences, FiniteSets

LOCAL INSTANCE FiniteSetsExt

CONSTANTS
  BatchSize,  \* _BATCH_SIZE
  Envelope,   \* bytes of a body around its records
  NoLimit,    \* max_payload_bytes is None
  Loads       \* [size, limit]: the bytes of each record, and max_payload_bytes

ASSUME BatchSizeAssumption == BatchSize \in Nat \ {0} /\ Envelope \in Nat
ASSUME LoadsAssumption ==
  \A l \in Loads : l.size \in Seq(Nat) /\ l.limit \in {NoLimit} \cup Nat

VARIABLES
  load,
  pending,   \* pieces still to be looked at
  pieces     \* pieces that will be sent

splitVars == <<load, pending, pieces>>

Length(p) == (p[2] + 1) - p[1]

\* One byte too many is read between two chunks.
OverlappingChunks(n) ==
  {<<i, IF i + BatchSize <= n THEN i + BatchSize ELSE n>> : i \in {j \in 1..n : (j - 1) % BatchSize = 0}}

\* records[i : i + _BATCH_SIZE], for i in range(0, n, _BATCH_SIZE).
Chunks(n) ==
  {<<i, IF i + BatchSize <= n THEN i + BatchSize - 1 ELSE n>> : i \in {j \in 1..n : (j - 1) % BatchSize = 0}}

Bytes(size, p) == MapThenSumSet(LAMBDA i : size[i], p[1]..p[2])

\* The records, and a comma between two of them.
_batch_body_size(p) == Envelope + (Length(p) - 1) + Bytes(load.size, p)

\* A single record is halved like any other batch.
SizeAlone(p) ==
  IF load.limit = NoLimit THEN TRUE ELSE _batch_body_size(p) <= load.limit

Fits(p) ==
  IF load.limit = NoLimit THEN TRUE ELSE Length(p) <= 1 \/ _batch_body_size(p) <= load.limit

\* The end of the first half: mid = len // 2 records.
Mid(p) == p[1] + (Length(p) \div 2) - 1

\* The second half begins after the record in the middle.
SkipsMiddle(p) == {<<p[1], Mid(p)>>, <<Mid(p) + 2, p[2]>>}

Halves(p) == {<<p[1], Mid(p)>>, <<Mid(p) + 1, p[2]>>}

-----------------------------------------------------------------------------
SplitInit ==
  /\ load \in Loads
  /\ pending = Chunks(Len(load.size))
  /\ pieces = {}

Keep ==
  \E p \in pending :
    /\ Fits(p)
    /\ pieces' = pieces \cup {p}
    /\ pending' = pending \ {p}
    /\ UNCHANGED load

Halve ==
  \E p \in pending :
    /\ ~Fits(p)
    /\ pending' = (pending \ {p}) \cup Halves(p)
    /\ UNCHANGED <<load, pieces>>

SplitNext == Keep \/ Halve

SplitSpec == SplitInit /\ [][SplitNext]_splitVars /\ WF_splitVars(SplitNext)

-----------------------------------------------------------------------------
(* Properties.                                                              *)

Holds(p, i) == p[1] <= i /\ i <= p[2]

\* At every moment each record of the list is in exactly one piece, and no piece is
\* empty; a piece to be sent has at most _BATCH_SIZE records, and fits the limit unless it
\* is a single one.
Tiles ==
  /\ \A i \in 1..Len(load.size) :
       \E p \in pending \cup pieces :
         /\ Holds(p, i)
         /\ \A q \in pending \cup pieces : Holds(q, i) => q = p
  /\ \A p \in pending \cup pieces :
       /\ p \in (1..Len(load.size)) \X (1..Len(load.size)) /\ p[1] <= p[2]
       /\ Length(p) <= BatchSize
  /\ \A p \in pieces : Fits(p)

\* The cutting ends, whatever the limit: at the latest with single records.
CuttingEnds == <>(pending = {})

=============================================================================
