--------------------------- MODULE RequestServer ----------------------------
(***************************************************************************)
(* MakeStreamHandler (crawler/rpc/request/handle_request.go): the handler  *)
(* of one request protocol, run concurrently for each incoming stream.     *)
(* "maxRequestContentSize" is a variable of the closure: all its streams   *)
(* share it, and the handler both reads and writes it.                     *)
(***************************************************************************)
EXTENDS Integers

CONSTANTS
  Streams,        \* streams that can be open at the same time
  MinSize,        \* RequestCodec.MinByteLen()
  RegisteredMax,  \* RequestCodec.MaxByteLen()
  Sizes,          \* bound: the request lengths that remote sides send
  Compressed,     \* comp # nil
  Overhead,       \* 32 in snappy
  MaxEncodable    \* 2^32 - 1 in snappy

ASSUME SizeAssumption ==
  /\ MinSize \in Nat /\ RegisteredMax \in Nat \ {0} /\ MinSize <= RegisteredMax
  /\ Sizes \subseteq Nat
ASSUME EncodingAssumption ==
  /\ Compressed \in BOOLEAN /\ Overhead \in Nat
  /\ MaxEncodable \in Nat /\ RegisteredMax <= MaxEncodable

VARIABLES
  limit,    \* maxRequestContentSize
  pc,       \* stream: "free", "size", "check", "grow", "store", "grant", "serve"
  reqLen,   \* the length it has read
  invalid,  \* invalidInputErr # nil
  encoded,  \* s, the limit of the encoded request, before it is stored
  N,        \* what its reader may still read; no reader: 0
  expired   \* its context is done and the stream closed

svars == <<limit, pc, reqLen, invalid, encoded, N, expired>>

Init ==
  /\ limit = RegisteredMax
  /\ pc = [s \in Streams |-> "free"]
  /\ reqLen = [s \in Streams |-> 0]
  /\ invalid = [s \in Streams |-> FALSE]
  /\ encoded = [s \in Streams |-> 0]
  /\ N = [s \in Streams |-> 0]
  /\ expired = [s \in Streams |-> FALSE]

(* Mutant of EncodedLen: without the limit of the format.                  *)
MutEncodedLen(n) == Overhead + n + n \div 6

(* snappy.MaxEncodedLen; -1 stands for "too large to encode".              *)
EncodedLen(n) ==
  LET m == Overhead + n + n \div 6 IN IF m > MaxEncodable THEN -1 ELSE m

Goto(s, label) == pc' = [pc EXCEPT ![s] = label]
-----------------------------------------------------------------------------
(* A stream arrives.  With a limit of zero no length is read from it.      *)
Open(s) ==
  /\ pc[s] = "free"
  /\ IF limit = 0
     THEN Goto(s, "serve") /\ N' = [N EXCEPT ![s] = 0]
     ELSE Goto(s, "size")  /\ N' = [N EXCEPT ![s] = 1]
  /\ UNCHANGED <<limit, reqLen, invalid, encoded, expired>>

(* ReadUvarint returns...                                                  *)
ReadSize(s) ==
  /\ pc[s] = "size"
  /\ ~expired[s]
  /\ \E n \in Sizes : reqLen' = [reqLen EXCEPT ![s] = n]
  /\ Goto(s, "check")
  /\ UNCHANGED <<limit, invalid, encoded, N, expired>>

(* ...or fails, as it must once the stream is closed.                      *)
SizeFails(s) ==
  /\ pc[s] = "size"
  /\ invalid' = [invalid EXCEPT ![s] = TRUE]
  /\ Goto(s, "grant")
  /\ UNCHANGED <<limit, reqLen, encoded, N, expired>>

Refuse(s) ==
  /\ pc[s] = "check"
  /\ reqLen[s] < MinSize \/ reqLen[s] > limit
  /\ invalid' = [invalid EXCEPT ![s] = TRUE]
  /\ Goto(s, "grant")
  /\ UNCHANGED <<limit, reqLen, encoded, N, expired>>

Accept(s) ==
  /\ pc[s] = "check"
  /\ MinSize <= reqLen[s] /\ reqLen[s] <= limit
  /\ Goto(s, IF Compressed THEN "grow" ELSE "grant")
  /\ UNCHANGED <<limit, reqLen, invalid, encoded, N, expired>>

(* s, err := comp.MaxEncodedLen(maxRequestContentSize)...                  *)
Grow(s) ==
  /\ pc[s] = "grow"
  /\ IF EncodedLen(limit) = -1
     THEN /\ invalid' = [invalid EXCEPT ![s] = TRUE]
          /\ Goto(s, "grant")
          /\ UNCHANGED encoded
     ELSE /\ encoded' = [encoded EXCEPT ![s] = EncodedLen(limit)]
          /\ Goto(s, "store")
          /\ UNCHANGED invalid
  /\ UNCHANGED <<limit, reqLen, N, expired>>

(* ...maxRequestContentSize = s.                                           *)
Store(s) ==
  /\ pc[s] = "store"
  /\ limit' = encoded[s]
  /\ encoded' = [encoded EXCEPT ![s] = 0]
  /\ Goto(s, "grant")
  /\ UNCHANGED <<reqLen, invalid, N, expired>>

(* The second switch, and the call of the handler.  An invalid request     *)
(* zeroes the limit and leaves the reader as it is.                        *)
Grant(s) ==
  /\ pc[s] = "grant"
  /\ IF invalid[s]
     THEN limit' = 0 /\ UNCHANGED N
     ELSE /\ N' = [N EXCEPT ![s] = IF Compressed /\ EncodedLen(limit) # -1
                                   THEN EncodedLen(limit) ELSE limit]
          /\ UNCHANGED limit
  /\ Goto(s, "serve")
  /\ UNCHANGED <<reqLen, invalid, encoded, expired>>

(* The handler returns: at once when the input is invalid, else when it    *)
(* has read and answered the request or when a read fails.  Its variables  *)
(* are gone.                                                               *)
Return(s) ==
  /\ pc[s] = "serve"
  /\ Goto(s, "free")
  /\ reqLen' = [reqLen EXCEPT ![s] = 0]
  /\ invalid' = [invalid EXCEPT ![s] = FALSE]
  /\ N' = [N EXCEPT ![s] = 0]
  /\ expired' = [expired EXCEPT ![s] = FALSE]
  /\ UNCHANGED <<limit, encoded>>

(* Mutant of Expire: nobody closes the stream of a done context.           *)
MutNoClose(s) ==
  /\ pc[s] \notin {"free", "size"}
  /\ ~expired[s]
  /\ expired' = [expired EXCEPT ![s] = TRUE]
  /\ UNCHANGED <<limit, pc, reqLen, invalid, encoded, N>>

(* RPCTimeout: the context is done, and the goroutine that waits for it    *)
(* closes the stream.                                                      *)
Expire(s) ==
  /\ pc[s] # "free"
  /\ ~expired[s]
  /\ expired' = [expired EXCEPT ![s] = TRUE]
  /\ UNCHANGED <<limit, pc, reqLen, invalid, encoded, N>>

(* What a handler does without waiting for the remote side.                *)
Local(s) == Refuse(s) \/ Accept(s) \/ Grow(s) \/ Store(s) \/ Grant(s)

Next ==
  \E s \in Streams :
    Open(s) \/ ReadSize(s) \/ SizeFails(s) \/ Local(s) \/ Return(s) \/ Expire(s)

Spec == Init /\ [][Next]_svars

(* The remote side owes nothing, but a read from a closed stream fails,    *)
(* and the context has a timeout.                                          *)
FairSpec ==
  /\ Spec
  /\ \A s \in Streams : /\ WF_svars(Local(s))
                        /\ WF_svars(Expire(s))
                        /\ WF_svars(expired[s] /\ (SizeFails(s) \/ Return(s)))
-----------------------------------------------------------------------------
TypeOK ==
  /\ limit \in Nat
  /\ pc \in [Streams -> {"free", "size", "check", "grow", "store", "grant", "serve"}]
  /\ reqLen \in [Streams -> Nat]
  /\ invalid \in [Streams -> BOOLEAN]
  /\ encoded \in [Streams -> Nat]
  /\ N \in [Streams -> Nat]
  /\ expired \in [Streams -> BOOLEAN]

(* However many requests grow the limit and however their streams          *)
(* interleave, it and what a reader is granted stay within what snappy can *)
(* encode, so int(...) of them never overflows (handle_request.go, 66-81). *)
LimitBounded ==
  /\ limit <= MaxEncodable
  /\ \A s \in Streams : N[s] <= MaxEncodable

(* No stream stays open for ever, whatever the remote side does or does    *)
(* not send (handle_request.go, 29-36).                                    *)
StreamsEnd == \A s \in Streams : pc[s] # "free" ~> pc[s] = "free"
=============================================================================
