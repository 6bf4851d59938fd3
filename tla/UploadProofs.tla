---------------------------- MODULE UploadProofs ----------------------------
(***************************************************************************)
(* The cutting of the records into bodies tiles their list, whatever their *)
(* number and sizes, the size of a chunk and the limit; and a delivery     *)
(* that cuts them so is one of module DrataDelivery, whose theorems it     *)
(* therefore has.                                                          *)
(***************************************************************************)
EXTENDS Upload, DrataDeliveryProofs, FiniteSetTheorems, Integers

n == Len(load.size)

\* A piece that may occur.
Piece(p) ==
  /\ p \in (1..n) \X (1..n) /\ p[1] <= p[2]
  /\ Length(p) <= BatchSize

-----------------------------------------------------------------------------
(* Arithmetic.                                                              *)

\* What range(0, n, _BATCH_SIZE) steps through: the last multiple below a number.
LEMMA Division ==
  ASSUME NEW a \in Nat, NEW b \in Nat \ {0}
  PROVE  /\ a % b \in 0..(b - 1) /\ a \div b \in Nat
         /\ a = b * (a \div b) + (a % b)
  OBVIOUS

\* The number below which it stepped last is a multiple itself.
LEMMA Multiples ==
  ASSUME NEW k \in Nat, NEW b \in Nat \ {0}
  PROVE  (b * k) % b = 0
  OBVIOUS

\* Two different multiples are a whole chunk apart.
LEMMA Apart ==
  ASSUME NEW x \in Nat, NEW y \in Nat, NEW b \in Nat \ {0},
         x % b = 0, y % b = 0, x < y
  PROVE  y >= x + b
  <1> DEFINE k == x \div b
             m == y \div b
  <1>1. k \in Nat /\ m \in Nat /\ x = b * k /\ y = b * m
    BY Division
  <1>2. k < m
    <2>1. SUFFICES ASSUME m <= k PROVE FALSE
      BY <1>1
    <2>2. k - m \in Nat
      BY <1>1, <2>1
    <2>3. b * (k - m) >= 0
      BY <2>2
    <2> QED BY <1>1, <2>3
  <1>3. m - k - 1 \in Nat
    BY <1>1, <1>2
  <1>4. b * (m - k - 1) >= 0
    BY <1>3
  <1> QED BY <1>1, <1>4

-----------------------------------------------------------------------------
(* Chunks tile the list, and halves tile a piece.                           *)

\* The chunks are pieces, and each record is in exactly one of them.
LEMMA ChunksTile ==
  ASSUME n \in Nat
  PROVE  /\ \A p \in Chunks(n) : Piece(p)
         /\ \A i \in 1..n : \E p \in Chunks(n) :
              /\ Holds(p, i)
              /\ \A q \in Chunks(n) : Holds(q, i) => q = p
  <1> USE BatchSizeAssumption
  <1> DEFINE end(i) == IF i + BatchSize <= n THEN i + BatchSize - 1 ELSE n
             starts == {j \in 1..n : (j - 1) % BatchSize = 0}
  <1>1. Chunks(n) = {<<i, end(i)>> : i \in starts}
    BY DEF Chunks
  <1>2. ASSUME NEW p \in Chunks(n)
        PROVE  Piece(p)
    <2>1. PICK i \in starts : p = <<i, end(i)>>
      BY <1>1
    <2>2. end(i) \in 1..n /\ i <= end(i) /\ end(i) + 1 - i <= BatchSize
      BY <2>1
    <2> QED BY <2>1, <2>2 DEF Piece, Length
  <1>3. ASSUME NEW i \in 1..n
        PROVE  \E p \in Chunks(n) :
                 Holds(p, i) /\ \A q \in Chunks(n) : Holds(q, i) => q = p
    <2> DEFINE k == (i - 1) \div BatchSize
               j == BatchSize * k + 1
    <2>0. i - 1 \in Nat
      OBVIOUS
    <2>1. /\ k \in Nat /\ (i - 1) % BatchSize \in 0..(BatchSize - 1)
          /\ i - 1 = BatchSize * k + ((i - 1) % BatchSize)
      BY <2>0, Division
    <2>2. BatchSize * k \in Nat
      BY <2>1
    <2> HIDE DEF k
    <2>3. j \in 1..n /\ j <= i /\ i <= j + BatchSize - 1
      BY <2>1, <2>2
    <2>4. (j - 1) % BatchSize = 0
      <3>1. j - 1 = BatchSize * k
        BY <2>2
      <3> QED BY <2>1, <3>1, Multiples
    <2> HIDE DEF j
    <2>5. <<j, end(j)>> \in Chunks(n)
      BY <1>1, <2>3, <2>4
    <2>6. Holds(<<j, end(j)>>, i)
      BY <2>3 DEF Holds
    <2>7. ASSUME NEW q \in Chunks(n), Holds(q, i)
          PROVE  q = <<j, end(j)>>
      <3>1. PICK s \in starts : q = <<s, end(s)>>
        BY <1>1
      <3>0. /\ s - 1 \in Nat /\ (s - 1) % BatchSize = 0
            /\ j - 1 \in Nat /\ (j - 1) % BatchSize = 0
        BY <2>3, <2>4, <3>1
      <3>2. s <= i /\ i <= s + BatchSize - 1
        BY <2>7, <3>1 DEF Holds
      <3>3. ~(s < j)
        <4>1. SUFFICES ASSUME s < j PROVE FALSE
          OBVIOUS
        <4>2. s - 1 < j - 1
          BY <2>3, <3>1, <4>1
        <4>3. j - 1 >= (s - 1) + BatchSize
          BY <3>0, <4>2, Apart
        <4> QED BY <2>3, <3>1, <3>2, <4>3
      <3>4. ~(j < s)
        <4>1. SUFFICES ASSUME j < s PROVE FALSE
          OBVIOUS
        <4>2. j - 1 < s - 1
          BY <2>3, <3>1, <4>1
        <4>3. s - 1 >= (j - 1) + BatchSize
          BY <3>0, <4>2, Apart
        <4> QED BY <2>3, <3>1, <3>2, <4>3
      <3> QED BY <2>3, <3>1, <3>3, <3>4
    <2> QED BY <2>5, <2>6, <2>7
  <1> QED BY <1>2, <1>3

\* The halves of a piece of two records or more are shorter pieces that hold the
\* same records, each of them once.
LEMMA HalvesTile ==
  ASSUME n \in Nat, NEW p, Piece(p), Length(p) > 1
  PROVE  /\ \A h \in Halves(p) : Piece(h) /\ Length(h) < Length(p)
         /\ \A h \in Halves(p) : \A i \in 1..n : Holds(h, i) => Holds(p, i)
         /\ \A i \in 1..n : Holds(p, i) =>
              \E h \in Halves(p) :
                Holds(h, i) /\ \A g \in Halves(p) : Holds(g, i) => g = h
  <1> USE BatchSizeAssumption
  <1>1. /\ p[1] \in 1..n /\ p[2] \in 1..n /\ p[1] < p[2]
        /\ p[2] + 1 - p[1] <= BatchSize
    BY DEF Piece, Length
  <1>2. Mid(p) \in p[1]..(p[2] - 1)
    BY <1>1 DEF Mid, Length
  <1>3. ASSUME NEW h \in Halves(p)
        PROVE  /\ Piece(h) /\ Length(h) < Length(p)
               /\ \A i \in 1..n : Holds(h, i) => Holds(p, i)
    BY <1>1, <1>2, <1>3 DEF Halves, Piece, Length, Holds
  <1>4. ASSUME NEW i \in 1..n, Holds(p, i)
        PROVE  \E h \in Halves(p) :
                 Holds(h, i) /\ \A g \in Halves(p) : Holds(g, i) => g = h
    <2>1. CASE i <= Mid(p)
      BY <1>1, <1>2, <1>4, <2>1 DEF Halves, Holds
    <2>2. CASE i > Mid(p)
      BY <1>1, <1>2, <1>4, <2>2 DEF Halves, Holds
    <2> QED BY <1>1, <1>2, <2>1, <2>2
  <1> QED BY <1>3, <1>4

-----------------------------------------------------------------------------
(* Every step of the cutting keeps the tiling.                              *)

\* The list of records is a list.
Loaded == load.size \in Seq(Nat)

\* At the start the chunks tile the list.
LEMMA SplitInitTiles == SplitInit => Loaded /\ Tiles
  <1> SUFFICES ASSUME SplitInit PROVE Loaded /\ Tiles
    OBVIOUS
  <1>1. Loaded /\ n \in Nat
    BY LoadsAssumption DEF SplitInit, Loaded, n
  <1>2. pending \cup pieces = Chunks(n) /\ pieces = {}
    BY DEF SplitInit, n
  <1> QED BY <1>1, <1>2, ChunksTile DEF Tiles, Piece, n

\* A piece that is kept changes its set, one that is halved makes room for its halves.
LEMMA SplitKeepsTiles ==
  ASSUME Loaded, Tiles, [SplitNext]_splitVars
  PROVE  (Loaded /\ Tiles)'
  <1>1. n \in Nat
    BY DEF Loaded, n
  <1>2. CASE UNCHANGED splitVars
    <2>1. \A q : Fits(q)' <=> Fits(q)
      BY <1>2 DEF splitVars, Fits, _batch_body_size, Length
    <2> QED BY <1>2, <2>1 DEF splitVars, Loaded, Tiles
  <1>3. CASE Keep
    <2>1. PICK p \in pending : /\ Fits(p)
                               /\ pieces' = pieces \cup {p}
                               /\ pending' = pending \ {p}
                               /\ UNCHANGED load
      BY <1>3 DEF Keep
    <2>2. (pending \cup pieces)' = pending \cup pieces
      BY <2>1
    <2>3. \A q \in pieces' : Fits(q)
      BY <2>1 DEF Tiles
    <2>4. \A q : Fits(q)' <=> Fits(q)
      BY <2>1 DEF Fits, _batch_body_size, Length
    <2> QED BY <2>1, <2>2, <2>3, <2>4 DEF Loaded, Tiles
  <1>4. CASE Halve
    <2>1. PICK p \in pending : /\ ~Fits(p)
                               /\ pending' = (pending \ {p}) \cup Halves(p)
                               /\ UNCHANGED <<load, pieces>>
      BY <1>4 DEF Halve
    <2>2. \A q \in pending \cup pieces : Piece(q)
      BY DEF Tiles, Piece, n
    <2>3. Piece(p) /\ Length(p) \in Int
      BY <2>1, <2>2 DEF Piece, Length
    <2>4. Length(p) > 1
      BY <2>1, <2>3 DEF Fits
    <2>5. p \notin pieces
      BY <2>1 DEF Tiles
    <2>6. (pending \cup pieces)' = ((pending \cup pieces) \ {p}) \cup Halves(p)
      BY <2>1, <2>5
    <2>7. \A q \in (pending \cup pieces)' : Piece(q)
      BY <1>1, <2>2, <2>3, <2>4, <2>6, HalvesTile
    <2>8. ASSUME NEW i \in 1..n
          PROVE  \E r \in (pending \cup pieces)' :
                   /\ Holds(r, i)
                   /\ \A q \in (pending \cup pieces)' : Holds(q, i) => q = r
      <3>1. PICK r \in pending \cup pieces :
              /\ Holds(r, i)
              /\ \A q \in pending \cup pieces : Holds(q, i) => q = r
        BY DEF Tiles, n
      <3>2. CASE r = p
        <4>1. PICK h \in Halves(p) :
                Holds(h, i) /\ \A g \in Halves(p) : Holds(g, i) => g = h
          BY <1>1, <2>3, <2>4, <3>1, <3>2, HalvesTile
        <4> QED BY <2>6, <3>1, <3>2, <4>1
      <3>3. CASE r # p
        <4>1. \A h \in Halves(p) : ~Holds(h, i)
          BY <1>1, <2>1, <2>3, <2>4, <3>1, <3>3, HalvesTile
        <4> QED BY <2>6, <3>1, <3>3, <4>1
      <3> QED BY <3>2, <3>3
    <2>9. \A q : Fits(q)' <=> Fits(q)
      BY <2>1 DEF Fits, _batch_body_size, Length
    <2>10. \A q \in pieces' : Fits(q)'
      BY <2>1, <2>9 DEF Tiles
    <2>11. Len(load.size)' = n
      BY <2>1 DEF n
    <2> QED BY <2>1, <2>7, <2>8, <2>10, <2>11 DEF Loaded, Tiles, Piece
  <1> QED BY <1>2, <1>3, <1>4 DEF SplitNext

-----------------------------------------------------------------------------
(* The cutting comes to an end by count.                                    *)

All == pending \cup pieces

\* The cuts there may still be, twice, and the pieces still to be looked at.
CutsLeft == 2 * (n - Cardinality(All)) + Cardinality(pending)

\* There are no more pieces than records: each has its own first record.
LEMMA FewPieces ==
  ASSUME Loaded, Tiles
  PROVE  /\ n \in Nat
         /\ IsFiniteSet(All) /\ Cardinality(All) \in Nat /\ Cardinality(All) <= n
         /\ IsFiniteSet(pending) /\ Cardinality(pending) \in Nat
  <1>1. n \in Nat
    BY DEF Loaded, n
  <1> DEFINE first == [p \in All |-> p[1]]
  <1>2. first \in [All -> 1..n]
    BY DEF Tiles, n, All
  <1>3. \A p, q \in All : first[p] = first[q] => p = q
    <2> SUFFICES ASSUME NEW p \in All, NEW q \in All, p[1] = q[1]
                 PROVE  p = q
      OBVIOUS
    <2>1. /\ p[1] \in 1..n /\ p[2] \in 1..n /\ p[1] <= p[2]
          /\ q[1] \in 1..n /\ q[2] \in 1..n /\ q[1] <= q[2]
      BY DEF Tiles, n, All
    <2>2. Holds(p, p[1]) /\ Holds(q, p[1])
      BY <2>1 DEF Holds
    <2> QED BY <2>1, <2>2 DEF Tiles, n, All
  <1>4. first \in Injection(All, 1..n)
    BY <1>2, <1>3 DEF Injection, IsInjective
  <1>5. IsFiniteSet(1..n) /\ Cardinality(1..n) = n
    BY <1>1, FS_Interval
  <1> HIDE DEF first
  <1>6. IsFiniteSet(All) /\ Cardinality(All) <= n
    BY <1>4, <1>5, FS_Injection
  <1>7. IsFiniteSet(pending)
    BY <1>6, FS_Subset DEF All
  <1> QED BY <1>1, <1>6, <1>7, FS_CardinalityType

\* A piece kept is one less to look at; a piece halved makes one cut.
LEMMA CutShrinks ==
  ASSUME Loaded, Tiles, SplitNext
  PROVE  CutsLeft' < CutsLeft
  <1>1. /\ n \in Nat /\ IsFiniteSet(All) /\ Cardinality(All) \in Nat
        /\ IsFiniteSet(pending) /\ Cardinality(pending) \in Nat
    BY FewPieces
  <1>2. CASE Keep
    <2>1. PICK p \in pending : /\ pieces' = pieces \cup {p} /\ pending' = pending \ {p}
                               /\ UNCHANGED load
      BY <1>2 DEF Keep
    <2>2. All' = All /\ n' = n
      BY <2>1 DEF All, n
    <2>3. Cardinality(pending') = Cardinality(pending) - 1
      BY <1>1, <2>1, FS_RemoveElement
    <2> QED BY <1>1, <2>2, <2>3 DEF CutsLeft
  <1>3. CASE Halve
    <2>1. PICK p \in pending : /\ ~Fits(p)
                               /\ pending' = (pending \ {p}) \cup Halves(p)
                               /\ UNCHANGED <<load, pieces>>
      BY <1>3 DEF Halve
    <2>2. \A q \in All : Piece(q)
      BY DEF Tiles, Piece, n, All
    <2>3. Piece(p) /\ Length(p) \in Int /\ p \in All
      BY <2>1, <2>2 DEF Piece, Length, All
    <2>4. Length(p) > 1
      BY <2>1, <2>3 DEF Fits
    <2>5. p \notin pieces
      BY <2>1 DEF Tiles
    <2> DEFINE a == <<p[1], Mid(p)>>
               b == <<Mid(p) + 1, p[2]>>
    <2>6. Mid(p) \in Int /\ p[1] <= Mid(p) /\ Mid(p) < p[2] /\ p[1] \in 1..n /\ p[2] \in 1..n
      BY <1>1, <2>3, <2>4 DEF Piece, Length, Mid
    <2>7. a # p /\ b # p /\ a # b
      BY <2>6
    <2>8. \A h \in {a, b} : h[1] \in 1..n /\ Holds(p, h[1]) /\ Holds(h, h[1])
      BY <1>1, <2>6 DEF Holds
    <2>9. a \notin All /\ b \notin All
      <3> SUFFICES ASSUME NEW h \in {a, b}, h \in All
                   PROVE  FALSE
        OBVIOUS
      <3>1. h = p
        BY <2>3, <2>8 DEF Tiles, n, All
      <3> QED BY <3>1, <2>7
    <2>10. /\ pending' = ((pending \ {p}) \cup {a}) \cup {b}
           /\ All' = ((All \ {p}) \cup {a}) \cup {b}
           /\ n' = n
      BY <2>1, <2>5 DEF Halves, All, n
    <2> HIDE DEF a, b
    <2>11. ASSUME NEW S, IsFiniteSet(S), p \in S, a \notin S, b \notin S
           PROVE  Cardinality(((S \ {p}) \cup {a}) \cup {b}) = Cardinality(S) + 1
      <3>1. IsFiniteSet(S \ {p}) /\ Cardinality(S \ {p}) = Cardinality(S) - 1
        BY <2>11, FS_RemoveElement
      <3>2. /\ IsFiniteSet((S \ {p}) \cup {a})
            /\ Cardinality((S \ {p}) \cup {a}) = Cardinality(S \ {p}) + 1
        BY <2>11, <3>1, FS_AddElement
      <3>3. Cardinality(((S \ {p}) \cup {a}) \cup {b}) = Cardinality((S \ {p}) \cup {a}) + 1
        BY <2>7, <2>11, <3>2, FS_AddElement
      <3>4. Cardinality(S) \in Nat
        BY <2>11, FS_CardinalityType
      <3> QED BY <3>1, <3>2, <3>3, <3>4
    <2>12. a \notin pending /\ b \notin pending
      BY <2>9 DEF All
    <2>13. Cardinality(pending') = Cardinality(pending) + 1
      BY <1>1, <2>1, <2>10, <2>11, <2>12
    <2>14. Cardinality(All') = Cardinality(All) + 1
      BY <1>1, <2>3, <2>9, <2>10, <2>11
    <2> QED BY <1>1, <2>10, <2>13, <2>14 DEF CutsLeft
  <1> QED BY <1>2, <1>3 DEF SplitNext

-----------------------------------------------------------------------------
(* Theorems.                                                                *)

\* Whatever the list and the limit, each record is in exactly one piece, no piece is
\* empty, and those to be sent fit (Tiles): what _split_batches_by_size does to a list.
THEOREM Tiling == SplitSpec => []Tiles
  <1>1. SplitInit => Loaded /\ Tiles
    BY SplitInitTiles
  <1>2. Loaded /\ Tiles /\ [SplitNext]_splitVars => (Loaded /\ Tiles)'
    BY SplitKeepsTiles
  <1> QED BY <1>1, <1>2, PTL DEF SplitSpec

\* Every step of the cutting takes from the cuts and looks that are left, of which there are
\* at most two for each record: the recursive halving ends, whatever the limit.
THEOREM CutsRunOut == SplitSpec => [](CutsLeft \in 0..(2 * n)) /\ [][CutsLeft' < CutsLeft]_splitVars
  <1>1. Loaded /\ Tiles => CutsLeft \in 0..(2 * n)
    <2> SUFFICES ASSUME Loaded, Tiles PROVE CutsLeft \in 0..(2 * n)
      OBVIOUS
    <2>1. Cardinality(pending) <= Cardinality(All)
      BY FewPieces, FS_Subset DEF All
    <2> QED BY <2>1, FewPieces DEF CutsLeft
  <1>2. Loaded /\ Tiles /\ [SplitNext]_splitVars => (Loaded /\ Tiles)'
    BY SplitKeepsTiles
  <1>3. Loaded /\ Tiles /\ [SplitNext]_splitVars => [CutsLeft' < CutsLeft]_splitVars
    BY CutShrinks
  <1> QED BY <1>1, <1>2, <1>3, SplitInitTiles, PTL DEF SplitSpec

\* What _deliver is called with, if it has anything to do, is a workload.
Called == call.records \cup call.gone # {} => call \in Workloads

\* A delivery that cuts its records is one of DrataDelivery.
LEMMA UploadSteps ==
  ASSUME Called, [UploadNext]_uploadVars
  PROVE  [Next]_vars /\ Called'
  <1>1. CASE UNCHANGED uploadVars
    BY <1>1 DEF uploadVars, vars, Called
  <1>2. CASE Cut
    BY <1>2 DEF Cut, vars, Called
  <1>3. CASE Hand
    BY <1>3 DEF Hand, Called, Next
  <1>4. CASE Send
    BY <1>4 DEF Send, Called, Next
  <1>5. CASE Settle /\ UNCHANGED <<splitVars, call>>
    BY <1>5 DEF Called, Next
  <1>6. CASE Over /\ UNCHANGED uploadVars
    BY <1>6, <1>1
  <1> QED BY <1>1, <1>2, <1>3, <1>4, <1>5, <1>6 DEF UploadNext

\* Initially nothing is called but a workload.
LEMMA UploadInitCalled == UploadInit => Init /\ Called
  BY DEF UploadInit, Called

\* The steps of a delivery keep the tiling: sending does not touch it, and what is left
\* of it after Hand is the empty list.
LEMMA UploadKeepsTiles ==
  ASSUME Loaded, Tiles, [UploadNext]_uploadVars
  PROVE  (Loaded /\ Tiles)'
  <1>1. CASE UNCHANGED splitVars
    BY <1>1, SplitKeepsTiles
  <1>2. CASE Cut
    BY <1>2, SplitKeepsTiles DEF Cut
  <1>3. CASE Hand
    <2>1. pending' = {} /\ pieces' = {} /\ load'.size = <<>>
      BY <1>3 DEF Hand
    <2> QED BY <2>1 DEF Loaded, Tiles
  <1> QED
    BY <1>1, <1>2, <1>3 DEF UploadNext, Send, uploadVars

\* The same of the list that a delivery cuts before it sends the pieces.
THEOREM UploadTiling == UploadSpec => []Tiles
  <1>1. UploadInit => Loaded /\ Tiles
    BY SplitInitTiles DEF UploadInit
  <1>2. Loaded /\ Tiles /\ [UploadNext]_uploadVars => (Loaded /\ Tiles)'
    BY UploadKeepsTiles
  <1> QED BY <1>1, <1>2, PTL DEF UploadSpec

\* With its records cut as the code cuts them, too, the delivery does what
\* DrataDelivery says: every step is one of its steps.
THEOREM UploadDelivers == UploadSpec => Init /\ [][Next]_vars
  <1>1. UploadInit => Init /\ Called
    BY UploadInitCalled
  <1>2. Called /\ [UploadNext]_uploadVars => [Next]_vars /\ Called'
    BY UploadSteps
  <1> QED BY <1>1, <1>2, PTL DEF UploadSpec

\* Hence what the report counts as delivered is stored, and what it counts as deleted
\* is absent, however the list was cut.
THEOREM UploadCounts == UploadSpec => [](DeliveredAreStored /\ ClearedAreAbsent)
  <1>1. Init => IInv
    BY InitKeeps
  <1>2. IInv /\ [Next]_vars => IInv'
    BY StepKeeps
  <1>3. IInv => DeliveredAreStored /\ ClearedAreAbsent
    BY DEF IInv
  <1> QED BY <1>1, <1>2, <1>3, UploadDelivers, PTL

\* And it implements EvidenceLedger.
THEOREM UploadRefines == UploadSpec => ImplementsLedger
  <1>1. Init => IInv
    BY InitKeeps
  <1>2. IInv /\ [Next]_vars => IInv'
    BY StepKeeps
  <1> QED
    BY <1>1, <1>2, InitRefines, StepRefines, UploadDelivers, PTL
    DEF ImplementsLedger, Ledger!Spec

=============================================================================
