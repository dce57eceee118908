--------------------------- MODULE ResponseProofs ---------------------------
(***************************************************************************)
(* The limited reader keeps its promises for every buffer size, limit and  *)
(* length of the stream.                                                   *)
(***************************************************************************)
EXTENDS ResponseReader, TLAPS
-----------------------------------------------------------------------------
(* What one Read guarantees: the bytes it returns are accounted for, it    *)
(* pulls only to refill an empty buffer, and then no more than N.          *)
Sound(b, r) ==
  /\ r.reader \in Reader
  /\ r.n \in Nat
  /\ r.reader.perRead = b.perRead
  /\ r.reader.N = IF b.perRead THEN b.N ELSE b.N - r.n
  /\ r.reader.held <= r.reader.pulled
  /\ ~DataWithError => r.n = (r.reader.pulled - r.reader.held) - (b.pulled - b.held)
  /\ r.reader.pulled = b.pulled \/ (b.held = 0 /\ r.reader.pulled <= b.pulled + b.N)

(* A result that returns n bytes of a buffer that holds at least those.    *)
LEMMA ResultSound ==
  ASSUME NEW b \in Reader, NEW n \in Nat, NEW filled, NEW err
  PROVE  LET r == Result(b, n, filled, err)
         IN  /\ r.reader \in Reader
             /\ r.n = n
             /\ r.reader.held = b.held /\ r.reader.pulled = b.pulled
             /\ r.reader.perRead = b.perRead
             /\ r.reader.N = IF b.perRead THEN b.N ELSE b.N - n
BY DEF Result, Reader

LEMMA CopiedSound ==
  ASSUME NEW b \in Reader, NEW q \in Nat
  PROVE  LET r == Copied(b, q)
         IN  /\ r.reader \in Reader
             /\ r.n \in 0 .. b.held /\ r.n <= q
             /\ r.reader.held = b.held - r.n /\ r.reader.pulled = b.pulled
             /\ r.reader.perRead = b.perRead
             /\ r.reader.N = IF b.perRead THEN b.N ELSE b.N - r.n
<1> DEFINE k == Lesser(q, b.held)
           c == [b EXCEPT !.held = @ - k]
<1>1. k \in 0 .. b.held /\ k <= q
  BY DEF Lesser, Reader
<1>2. c \in Reader /\ c.held = b.held - k /\ c.pulled = b.pulled /\ c.N = b.N
      /\ c.perRead = b.perRead
  BY <1>1 DEF Reader
<1> HIDE DEF k, c
<1>3. Copied(b, q) = Result(c, k, k, nil)
  BY DEF Copied, k, c
<1>4. k \in Nat
  BY <1>1 DEF Reader
<1> QED
  BY <1>1, <1>2, <1>3, <1>4, ResultSound

LEMMA DirectSound ==
  ASSUME NEW b \in Reader, b.held = 0, NEW q \in Nat, q <= b.N, NEW r \in Direct(b, q)
  PROVE  Sound(b, r)
<1>1. PICK s \in StreamReads(b, q) :
        r = Result([b EXCEPT !.pulled = @ + s.k], s.k, s.k, s.err)
  BY DEF Direct
<1>2. s.k \in Nat /\ s.k <= q
  BY BufAssumption DEF StreamReads, Lesser, Reader
<1> DEFINE c == [b EXCEPT !.pulled = @ + s.k]
<1>3. c \in Reader /\ c.held = b.held /\ c.pulled = b.pulled + s.k /\ c.N = b.N
      /\ c.perRead = b.perRead
  BY <1>2 DEF Reader
<1> HIDE DEF c
<1>4. r = Result(c, s.k, s.k, s.err)
  BY <1>1 DEF c
<1> QED
  BY <1>2, <1>3, <1>4, ResultSound DEF Sound, Reader

LEMMA RefillSound ==
  ASSUME NEW b \in Reader, b.held = 0, b.N > 0, NEW q \in Nat, NEW r \in Refill(b, q)
  PROVE  Sound(b, r)
<1>1. PICK s \in StreamReads(b, Lesser(b.N, BufSize)) :
        r = LET c == [b EXCEPT !.pulled = @ + s.k, !.held = s.k]
            IN  IF s.err # nil THEN Result(c, s.k, 0, s.err) ELSE Copied(c, q)
  BY DEF Refill
<1>2. s.k \in Nat /\ s.k <= b.N /\ (~DataWithError /\ s.err # nil => s.k = 0)
  BY BufAssumption DEF StreamReads, Lesser, Reader, nil, EOF
<1> DEFINE c == [b EXCEPT !.pulled = @ + s.k, !.held = s.k]
<1>3. c \in Reader /\ c.held = s.k /\ c.pulled = b.pulled + s.k /\ c.N = b.N
      /\ c.perRead = b.perRead
  <2> DEFINE d == [b EXCEPT !.pulled = @ + s.k]
  <2>1. d \in Reader /\ d.pulled = b.pulled + s.k /\ d.N = b.N /\ d.perRead = b.perRead
    BY <1>2 DEF Reader
  <2>2. c = [d EXCEPT !.held = s.k]
    BY DEF Reader
  <2> HIDE DEF d, c
  <2> QED
    BY <1>2, <2>1, <2>2 DEF Reader
<1>4. r = IF s.err # nil THEN Result(c, s.k, 0, s.err) ELSE Copied(c, q)
  BY <1>1
<1> HIDE DEF c
<1>5. CASE s.err # nil
  BY <1>2, <1>3, <1>4, <1>5, ResultSound DEF Sound, Reader
<1>6. CASE s.err = nil
  BY <1>2, <1>3, <1>4, <1>6, CopiedSound DEF Sound, Reader
<1> QED
  BY <1>5, <1>6

LEMMA ReadSound ==
  ASSUME NEW b \in Reader, b.held <= b.pulled, NEW length \in Nat, NEW r \in Read(b, length)
  PROVE  Sound(b, r)
<1> DEFINE q == Lesser(length, b.N)
<1>1. CASE b.N <= 0
  <2>1. r = Result(b, 0, 0, EOF)
    BY <1>1 DEF Read
  <2> QED
    BY <2>1, ResultSound DEF Sound, Reader
<1>2. CASE b.N > 0
  <2>1. q \in Nat /\ q <= b.N
    BY <1>2 DEF Lesser, Reader
  <2>2. CASE q = 0
    <3>1. r = Result(b, 0, 0, nil)
      BY <1>2, <2>2 DEF Read, Reader
    <3> QED
      BY <3>1, ResultSound DEF Sound, Reader
  <2>3. CASE q # 0 /\ b.held > 0
    <3>1. r = Copied(b, q)
      BY <1>2, <2>3 DEF Read, Reader
    <3> HIDE DEF q
    <3> QED
      BY <2>1, <3>1, CopiedSound DEF Sound, Reader
  <2>4. CASE q # 0 /\ b.held = 0
    <3>1. r \in Direct(b, q) \/ r \in Refill(b, q)
      BY <1>2, <2>4 DEF Read, Reader
    <3> HIDE DEF q
    <3> QED
      BY <1>2, <2>1, <2>4, <3>1, DirectSound, RefillSound
  <2> QED
    BY <2>2, <2>3, <2>4 DEF Reader
<1> QED
  BY <1>1, <1>2 DEF Reader
-----------------------------------------------------------------------------
(* The inductive invariant: while a handler reads, what it has got and may *)
(* still get stays within what was allowed.                                *)
ResponseInv ==
  /\ TypeOK
  /\ blr.held <= blr.pulled
  /\ ~DataWithError =>
       /\ AllAccounted
       /\ PullBounded
       /\ pc = "payload" => ~blr.perRead /\ got + blr.N <= allowed
  /\ chunk < MaxChunks \/ pc = "done"

LEMMA LimitedReader ==
  ASSUME TypeOK, NEW n \in Int, NEW per \in BOOLEAN
  PROVE  LET b == Limited(n, per)
         IN  b \in Reader /\ b.held = blr.held /\ b.pulled = blr.pulled /\ b.N = n
BY DEF TypeOK, Limited, Reader

LEMMA ResponseInit == Init => ResponseInv
BY ChunkAssumption
   DEF Init, ResponseInv, TypeOK, Reader, NewBufLimitReader, AllAccounted, PullBounded

(* What a read of one byte under a limit of one leaves.                    *)
OneByte(r) ==
  /\ r.reader \in Reader /\ r.n \in Nat
  /\ r.reader.held <= r.reader.pulled
  /\ Allow(1) \in Nat
  /\ ~DataWithError => /\ got + r.n = r.reader.pulled - r.reader.held
                       /\ r.reader.pulled <= Allow(1)

LEMMA OneByteRead ==
  ASSUME ResponseInv, NEW per \in BOOLEAN, NEW r \in Read(Limited(1, per), 1)
  PROVE  OneByte(r)
<1> DEFINE b == Limited(1, per)
<1>1. b \in Reader /\ b.held = blr.held /\ b.pulled = blr.pulled /\ b.N = 1
  BY LimitedReader DEF ResponseInv
<1>2. b.held <= b.pulled
  BY <1>1 DEF ResponseInv
<1> HIDE DEF b
<1>3. r \in Read(b, 1)
  BY DEF b
<1>4. Sound(b, r)
  BY <1>1, <1>2, <1>3, ReadSound
<1>5. blr \in Reader /\ got \in Nat
  BY DEF ResponseInv, TypeOK
<1> QED
  BY <1>1, <1>4, <1>5
     DEF OneByte, Sound, Reader, ResponseInv, AllAccounted, Allow, Greater

(* A step that leaves such a read behind keeps the invariant, unless it    *)
(* goes on to the payload.                                                 *)
LEMMA AfterOneByte ==
  ASSUME ResponseInv, NEW r, OneByte(r),
         blr' \in Reader, blr'.held = r.reader.held, blr'.pulled = r.reader.pulled,
         got' = got + r.n, allowed' = Allow(1), chunk' = chunk,
         pc' \in {"size", "done"}, pc # "done"
  PROVE  ResponseInv'
<1>1. TypeOK'
  BY DEF OneByte, ResponseInv, TypeOK
<1>2. blr'.held <= blr'.pulled
  BY DEF OneByte
<1>3. ~DataWithError => AllAccounted' /\ PullBounded'
  BY DEF OneByte, AllAccounted, PullBounded
<1>4. pc' # "payload" /\ chunk' < MaxChunks
  BY DEF ResponseInv
<1> QED
  BY <1>1, <1>2, <1>3, <1>4 DEF ResponseInv

LEMMA ResponseStep == ResponseInv /\ [Next]_rvars => ResponseInv'
<1> SUFFICES ASSUME ResponseInv, [Next]_rvars PROVE ResponseInv'
  OBVIOUS
<1>1. CASE ReadResult
  <2>1. PICK r \in Read(Limited(1, FALSE), 1) :
          /\ blr' = r.reader /\ got' = got + r.n
          /\ pc' = IF r.err # nil THEN "done" ELSE "size"
    BY <1>1 DEF ReadResult
  <2>2. OneByte(r)
    BY OneByteRead
  <2> QED
    BY <1>1, <2>1, <2>2, AfterOneByte DEF ReadResult, OneByte
<1>2. CASE ReadSizeByte
  <2>1. PICK r \in Read(Limited(1, TRUE), 1) :
          /\ blr' = [r.reader EXCEPT !.perRead = (r.err = nil)] /\ got' = got + r.n
          /\ pc' = IF r.err # nil THEN "done" ELSE "size"
    BY <1>2 DEF ReadSizeByte
  <2>2. OneByte(r)
    BY OneByteRead
  <2>3. blr' \in Reader /\ blr'.held = r.reader.held /\ blr'.pulled = r.reader.pulled
    BY <2>1, <2>2 DEF Reader, OneByte
  <2> QED
    BY <1>2, <2>1, <2>2, <2>3, AfterOneByte DEF ReadSizeByte
<1>3. CASE ReadSizeEnd
  <2>1. PICK r \in Read(Limited(1, TRUE), 1), limit \in {MaxChunkSize, MaxErrSize} :
          /\ got' = got + r.n
          /\ \/ /\ pc' = "payload"
                /\ blr' = [r.reader EXCEPT !.N = limit, !.perRead = FALSE]
                /\ allowed' = Greater(r.reader.pulled, got + r.n + limit)
             \/ /\ pc' = "done"
                /\ blr' = [r.reader EXCEPT !.perRead = FALSE]
                /\ allowed' = Allow(1)
    BY <1>3 DEF ReadSizeEnd
  <2>2. OneByte(r) /\ limit \in Nat
    BY OneByteRead, ChunkAssumption
  <2>3. CASE pc' = "payload"
    <3> DEFINE d == [r.reader EXCEPT !.N = limit]
    <3>1. /\ d \in Reader /\ d.held = r.reader.held /\ d.pulled = r.reader.pulled
          /\ d.N = limit
      BY <2>2 DEF Reader, OneByte
    <3>2. blr' = [d EXCEPT !.perRead = FALSE]
      BY <2>1, <2>2, <2>3 DEF Reader, OneByte
    <3> HIDE DEF d
    <3>3. /\ blr' \in Reader /\ blr'.held = r.reader.held /\ blr'.pulled = r.reader.pulled
          /\ blr'.N = limit
      BY <3>1, <3>2 DEF Reader
    <3>4. ~blr'.perRead
      BY <3>1, <3>2 DEF Reader
    <3>5. allowed' = Greater(r.reader.pulled, got' + limit) /\ got' \in Nat /\ got' = got + r.n
      BY <2>1, <2>2, <2>3 DEF OneByte, ResponseInv, TypeOK
    <3>6. allowed' \in Nat /\ blr'.pulled <= allowed' /\ got' + limit <= allowed'
      BY <2>2, <3>3, <3>5 DEF Greater, Reader
    <3>7. TypeOK'
      BY <1>3, <2>3, <3>3, <3>5, <3>6 DEF ReadSizeEnd, ResponseInv, TypeOK
    <3>8. blr'.held <= blr'.pulled /\ chunk' < MaxChunks
      BY <1>3, <2>2, <3>3 DEF ReadSizeEnd, ResponseInv, OneByte
    <3>9. ~DataWithError => AllAccounted' /\ PullBounded'
      BY <2>2, <3>3, <3>5, <3>6 DEF AllAccounted, PullBounded, OneByte
    <3> QED
      BY <3>3, <3>4, <3>6, <3>7, <3>8, <3>9 DEF ResponseInv
  <2>4. CASE pc' = "done"
    <3>1. blr' \in Reader /\ blr'.held = r.reader.held /\ blr'.pulled = r.reader.pulled
      BY <2>1, <2>2, <2>4 DEF Reader, OneByte
    <3> QED
      BY <1>3, <2>1, <2>2, <2>4, <3>1, AfterOneByte DEF ReadSizeEnd
  <2> QED
    BY <2>1, <2>3, <2>4
<1>4. CASE HandlerReads
  <2>0. PICK length \in 0 .. MaxRead :
          \E r \in Read(blr, length) : blr' = r.reader /\ got' = got + r.n
    BY <1>4 DEF HandlerReads
  <2>1. PICK r \in Read(blr, length) : blr' = r.reader /\ got' = got + r.n
    BY <2>0
  <2>2. Sound(blr, r)
    BY <2>1, ReadSound, ChunkAssumption DEF ResponseInv, TypeOK
  <2>3. blr' \in Reader /\ r.n \in Nat /\ blr'.held <= blr'.pulled
    BY <2>1, <2>2 DEF Sound
  <2>4. TypeOK'
    BY <1>4, <2>1, <2>3 DEF HandlerReads, ResponseInv, TypeOK
  <2>5. ASSUME ~DataWithError
        PROVE  AllAccounted' /\ PullBounded' /\ ~blr'.perRead /\ got' + blr'.N <= allowed'
    <3>1. ~blr.perRead /\ got + blr.N <= allowed /\ AllAccounted /\ PullBounded
      BY <1>4, <2>5 DEF HandlerReads, ResponseInv
    <3>2. ~blr'.perRead /\ blr'.N = blr.N - r.n
      BY <2>1, <2>2, <3>1 DEF Sound, ResponseInv, TypeOK
    <3>3. AllAccounted'
      BY <2>1, <2>2, <2>3, <2>5, <3>1 DEF Sound, AllAccounted, Reader, ResponseInv, TypeOK
    <3>4. PullBounded'
      BY <1>4, <2>1, <2>2, <2>3, <3>1
         DEF HandlerReads, Sound, AllAccounted, PullBounded, Reader, ResponseInv, TypeOK
    <3>5. got' + blr'.N <= allowed'
      BY <1>4, <2>1, <2>3, <3>1, <3>2 DEF HandlerReads, Reader, ResponseInv, TypeOK
    <3> QED
      BY <3>2, <3>3, <3>4, <3>5
  <2> QED
    BY <1>4, <2>3, <2>4, <2>5 DEF HandlerReads, ResponseInv
<1>5. CASE HandlerReturns
  BY <1>5, ChunkAssumption
     DEF HandlerReturns, ResponseInv, TypeOK, AllAccounted, PullBounded
<1>6. CASE UNCHANGED rvars
  BY <1>6 DEF rvars, ResponseInv, TypeOK, AllAccounted, PullBounded
<1> QED
  BY <1>1, <1>2, <1>3, <1>4, <1>5, <1>6 DEF Next

LEMMA ResponseInvariant == Spec => []ResponseInv
  BY ResponseInit, ResponseStep, PTL DEF Spec

(* Where the stream does not mix data and errors, no byte is lost or       *)
(* returned twice (buf_limit_read.go, 35)...                               *)
THEOREM BytesAccounted == ASSUME ~DataWithError PROVE Spec => []AllAccounted
<1>1. ResponseInv => AllAccounted
  BY DEF ResponseInv
<1> QED
  BY <1>1, ResponseInvariant, PTL

(* ...and no byte is taken from the stream beyond the limits that were set *)
(* (handle_response.go, 39-65).                                            *)
THEOREM PullsBounded == ASSUME ~DataWithError PROVE Spec => []PullBounded
<1>1. ResponseInv => PullBounded
  BY DEF ResponseInv
<1> QED
  BY <1>1, ResponseInvariant, PTL

(* Every variable of the reader and of the response keeps its type, also   *)
(* when the stream mixes data and errors: no count becomes negative        *)
(* (buf_limit_read.go, 35-98).                                             *)
THEOREM ReaderTypeCorrect == Spec => []TypeOK
<1>1. ResponseInv => TypeOK
  BY DEF ResponseInv
<1> QED
  BY <1>1, ResponseInvariant, PTL
=============================================================================
