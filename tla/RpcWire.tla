------------------------------ MODULE RpcWire -------------------------------
(***************************************************************************)
(* What requests and responses look like on the stream, and what the other *)
(* side makes of them: crawler/rpc/request/rpc_method.go, encode.go,       *)
(* handle_response.go and the three methods in crawler/rpc/methods.  Only  *)
(* lengths are kept: a payload of n bytes is written through snappy as at  *)
(* most Framed(n) bytes.                                                   *)
(***************************************************************************)
EXTENDS Integers

CONSTANTS
  MetadataByteLen,   \* of the beacon package
  MaxLen             \* bound: the longest payload and message considered

ASSUME WireAssumption == MetadataByteLen \in Nat \ {0} /\ MaxLen \in Nat

MaxErrSize == 256

(* ResponseCode                                                            *)
SuccessCode    == 0
InvalidReqCode == 1
ServerErrCode  == 2
ErrorCodes == {InvalidReqCode, ServerErrCode}

(* The lengths that a method's codecs are made for; a nil codec has none.  *)
StatusRPCv1   == [request |-> 84, response |-> 84]
PingRPCv1     == [request |-> 8,  response |-> 8]
MetaDataRPCv2 == [request |-> 0,  response |-> MetadataByteLen]
Methods == {StatusRPCv1, PingRPCv1, MetaDataRPCv2}

(* snappy: the stream identifier (10 bytes), then blocks of at most 65536  *)
(* bytes, each with a header of 8 and at worst not compressed.             *)
Framed(n) == IF n = 0 THEN 0 ELSE 10 + n + 8 * ((n + 65535) \div 65536)

(* Mutant of MaxEncoded: no reserve for short payloads.                    *)
MutMaxEncoded(n) == n + n \div 6

(* snappy.MaxEncodedLen                                                    *)
MaxEncoded(n) == 32 + n + n \div 6
-----------------------------------------------------------------------------
(* EncodeHeaderAndPayload: the length of the payload before compression,   *)
(* then the payload.                                                       *)
Request(m) == [size |-> m.request, bytes |-> Framed(m.request)]

(* MakeStreamHandler, for the first request of a method.                   *)
RequestRead(m, r) ==
  \/ m.request = 0
  \/ r.size = m.request /\ r.bytes <= MaxEncoded(MaxEncoded(m.request))

(* StreamChunk                                                             *)
Chunk(code, n) == [code |-> code, size |-> n, bytes |-> Framed(n)]

(* WriteErrorChunk: a long message is cut and ends in three dots.          *)
ErrorChunk(code, n) == Chunk(code, IF n > MaxErrSize THEN (MaxErrSize - 3) + 3 ELSE n)

(* MakeResponseHandler: one limit for the length that a chunk announces    *)
(* and for the bytes that are read of it.                                  *)
ChunkLimit(m, code) == IF code \in ErrorCodes THEN MaxErrSize ELSE MaxEncoded(m.response)
Accepted(m, chunk) == chunk.size <= ChunkLimit(m, chunk.code)
Readable(m, chunk) == Accepted(m, chunk) /\ chunk.bytes <= ChunkLimit(m, chunk.code)

(* A stream that ends before a result byte.                                *)
EndOfStream == [code |-> -1, size |-> 0, bytes |-> 0]

(* FetchStatus on the answer a: a status, no status and no error, or an    *)
(* error.                                                                  *)
GivesStatus(m, a) == a.code = SuccessCode /\ a.size >= m.response /\ Readable(m, a)
GivesNothing(m, a) == a = EndOfStream \/ (a.code \in ErrorCodes /\ Readable(m, a))
FetchResult(a) ==
  CASE GivesStatus(StatusRPCv1, a)  -> "status"
    [] GivesNothing(StatusRPCv1, a) -> "none"
    [] OTHER -> "error"
-----------------------------------------------------------------------------
(* Both sides agree on their limits: every request that RunRequest writes  *)
(* passes the checks of the handler of its method, and every payload of a  *)
(* response the limits of its reader, however badly it compresses          *)
(* (rpc_method.go, 196-206; handle_request.go, 57-81).                     *)
LimitsAgree ==
  /\ \A m \in Methods : RequestRead(m, Request(m))
  /\ \A n \in 0 .. MaxLen :
        Readable([request |-> 0, response |-> n], Chunk(SuccessCode, n))

(* An error message is never refused for its length, and arrives unless it *)
(* is within a frame's overhead of the limit (rpc_method.go, 298-305;      *)
(* handle_response.go, 59-63).                                             *)
ErrorsArrive ==
  \A code \in ErrorCodes, n \in 0 .. MaxLen :
    /\ Accepted(StatusRPCv1, ErrorChunk(code, n))
    /\ n <= MaxErrSize - 18 => FetchResult(ErrorChunk(code, n)) = "none"

(* Only a success chunk that holds a status counts as a polled peer, and   *)
(* our own answer is one (host.go, 176-202).                               *)
StatusFromSuccess ==
  /\ FetchResult(Chunk(SuccessCode, StatusRPCv1.response)) = "status"
  /\ \A code \in 0 .. 255, n \in {0, 1, 83, 84, 85, 129, 130, 131, 300} :
        FetchResult(Chunk(code, n)) = "status" => code = SuccessCode /\ n >= 84
  /\ FetchResult(EndOfStream) = "none"
=============================================================================
