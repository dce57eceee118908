--------------------------- MODULE ResponseReader ---------------------------
(***************************************************************************)
(* MakeResponseHandler (crawler/rpc/request/handle_response.go): the loop  *)
(* that takes a response apart, chunk by chunk, through one limited        *)
(* reader.  The limit is set anew for the result byte, for each byte of    *)
(* the size, and for the payload, whose handler reads as it likes.         *)
(***************************************************************************)
EXTENDS LimitReader

CONSTANTS
  MaxChunks,      \* maxChunkCount
  MaxChunkSize,   \* maxChunkContentSize
  MaxErrSize,     \* limit of an error chunk
  MaxRead         \* bound: the longest slice the payload handler reads into

ASSUME ChunkAssumption ==
  /\ MaxChunks \in Nat /\ MaxChunkSize \in Nat /\ MaxErrSize \in Nat /\ MaxRead \in Nat

VARIABLES
  pc,       \* "result", "size", "payload", "done"
  blr,      \* the reader
  chunk,    \* chunkIndex
  got,      \* history: the bytes that reads have returned so far
  allowed   \* history: how far the limits set so far permit to pull

rvars == <<pc, blr, chunk, got, allowed>>

Init ==
  /\ pc = IF MaxChunks = 0 THEN "done" ELSE "result"
  /\ blr = NewBufLimitReader(0)
  /\ chunk = 0
  /\ got = 0
  /\ allowed = 0

(* The reader after its limit was set, and how far that lets it go.        *)
Limited(n, per) == [blr EXCEPT !.N = n, !.perRead = per]
Allow(n) == Greater(blr.pulled, got + n)

(* The result byte.  Any error ends the response: EOF as its proper end.   *)
ReadResult ==
  /\ pc = "result"
  /\ \E r \in Read(Limited(1, FALSE), 1) :
       /\ blr' = r.reader
       /\ got' = got + r.n
       /\ pc' = IF r.err # nil THEN "done" ELSE "size"
  /\ allowed' = Allow(1)
  /\ UNCHANGED chunk

(* A byte of the size with the limit set per read: not its last one.       *)
ReadSizeByte ==
  /\ pc = "size"
  /\ \E r \in Read(Limited(1, TRUE), 1) :
       /\ blr' = [r.reader EXCEPT !.perRead = (r.err = nil)]
       /\ got' = got + r.n
       /\ pc' = IF r.err # nil THEN "done" ELSE "size"
  /\ allowed' = Allow(1)
  /\ UNCHANGED chunk

(* Its last byte.  A size over the limit ends the response, else N is set  *)
(* to the limit of the chunk's kind.                                       *)
ReadSizeEnd ==
  /\ pc = "size"
  /\ \E r \in Read(Limited(1, TRUE), 1), limit \in {MaxChunkSize, MaxErrSize} :
       /\ r.err = nil
       /\ got' = got + r.n
       /\ \/ /\ pc' = "payload"
             /\ blr' = [r.reader EXCEPT !.N = limit, !.perRead = FALSE]
             /\ allowed' = Greater(r.reader.pulled, got + r.n + limit)
          \/ /\ pc' = "done"
             /\ blr' = [r.reader EXCEPT !.perRead = FALSE]
             /\ allowed' = Allow(1)
  /\ UNCHANGED chunk

(* The chunk's handler reads, through the decompression or not.            *)
HandlerReads ==
  /\ pc = "payload"
  /\ \E length \in 0 .. MaxRead : \E r \in Read(blr, length) :
       /\ blr' = r.reader
       /\ got' = got + r.n
  /\ UNCHANGED <<pc, chunk, allowed>>

(* It returns; an error of its own, or of closing the writer, ends the     *)
(* response.                                                               *)
HandlerReturns ==
  /\ pc = "payload"
  /\ chunk' = chunk + 1
  /\ pc' \in IF chunk' < MaxChunks THEN {"result", "done"} ELSE {"done"}
  /\ UNCHANGED <<blr, got, allowed>>

Next == ReadResult \/ ReadSizeByte \/ ReadSizeEnd \/ HandlerReads \/ HandlerReturns

Spec == Init /\ [][Next]_rvars
-----------------------------------------------------------------------------
TypeOK ==
  /\ pc \in {"result", "size", "payload", "done"}
  /\ blr \in Reader
  /\ chunk \in 0 .. MaxChunks
  /\ got \in Nat
  /\ allowed \in Nat

(* No byte is lost or returned twice, across refills, limits and chunks:   *)
(* what reads have returned is what was pulled and is no longer held.      *)
(* ("It returns the number of bytes read into p", buf_limit_read.go, 35.)  *)
AllAccounted == got = blr.pulled - blr.held

(* The reader never takes more from the stream than the limits allow, so   *)
(* that neither the size nor the payload runs into what follows.           *)
PullBounded == blr.pulled <= allowed
=============================================================================
