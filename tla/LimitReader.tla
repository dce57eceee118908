---------------------------- MODULE LimitReader ----------------------------
(***************************************************************************)
(* BufLimitReader (crawler/rpc/request/buf_limit_read.go): a buffered      *)
(* reader that hands out no more than N bytes.  A reader is a record; its  *)
(* bytes are counted, not spelt out: "pulled" were taken from the stream   *)
(* so far, and the last "held" of those are still in the buffer (w - r).   *)
(***************************************************************************)
EXTENDS Integers

CONSTANTS
  BufSize,        \* len(b.buf)
  StreamLen,      \* bound: the bytes the remote side sends
  DataWithError   \* TRUE: the stream may return its last bytes together with
                  \* the error that follows them, as io.Reader permits

ASSUME BufAssumption == BufSize \in Nat \ {0} /\ StreamLen \in Nat
ASSUME DataAssumption == DataWithError \in BOOLEAN

Reader == [held : Nat, pulled : Nat, N : Int, perRead : BOOLEAN]

NewBufLimitReader(limit) == [held |-> 0, pulled |-> 0, N |-> limit, perRead |-> FALSE]

(* The errors told apart: none and any.                                    *)
nil == "nil"
EOF == "EOF"

Lesser(a, b) == IF a < b THEN a ELSE b
Greater(a, b) == IF a < b THEN b ELSE a

(* What a Read of at most m bytes from the stream may return: some of the  *)
(* bytes that are left, or an error, at the end or before it.              *)
StreamReads(b, m) ==
  LET most == Lesser(m, StreamLen - b.pulled)
  IN  {[k |-> k, err |-> nil] : k \in 1 .. most}
      \cup {[k |-> k, err |-> EOF] : k \in IF DataWithError THEN 0 .. most ELSE {0}}

(* Mutant of Result: the limit is taken to apply per read.                 *)
MutKeepN(b, n, filled, err) == [reader |-> b, n |-> n, filled |-> filled, err |-> err]

(* A return of n bytes, of which "filled" are really in the caller's       *)
(* slice, and the deferred update of N.                                    *)
Result(b, n, filled, err) ==
  [reader |-> IF b.perRead THEN b ELSE [b EXCEPT !.N = @ - n],
   n |-> n, filled |-> filled, err |-> err]

(* Mutant of Copied: a refill for every call, whatever the buffer holds.   *)
MutDropRest(b, q) ==
  LET k == Lesser(q, b.held) IN Result([b EXCEPT !.held = 0], k, k, nil)

(* Copy as much as fits from the buffer.                                   *)
Copied(b, q) ==
  LET k == Lesser(q, b.held) IN Result([b EXCEPT !.held = @ - k], k, k, nil)

(* A read at least as long as the buffer goes to the stream directly.      *)
Direct(b, q) ==
  {Result([b EXCEPT !.pulled = @ + s.k], s.k, s.k, s.err) : s \in StreamReads(b, q)}

(* Otherwise the buffer is refilled with no more than allowed.  On an      *)
(* error the number of bytes is returned before they are copied to p.      *)
Refill(b, q) ==
  {LET c == [b EXCEPT !.pulled = @ + s.k, !.held = s.k]
   IN  IF s.err # nil THEN Result(c, s.k, 0, s.err) ELSE Copied(c, q)
     : s \in StreamReads(b, Lesser(b.N, BufSize))}

(* All results of Read(p), p of that length.                               *)
Read(b, length) ==
  LET q == Lesser(length, b.N)
  IN  IF b.N <= 0           THEN {Result(b, 0, 0, EOF)}
      ELSE IF q = 0         THEN {Result(b, 0, 0, nil)}
      ELSE IF b.held > 0    THEN {Copied(b, q)}
      ELSE IF q >= BufSize  THEN Direct(b, q)
      ELSE                       Refill(b, q)
=============================================================================
