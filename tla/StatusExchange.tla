--------------------------- MODULE StatusExchange ---------------------------
(***************************************************************************)
(* The status exchange of the p2p host (crawler/p2p/host.go).  Workers of  *)
(* the crawler send "LocalStatus" in FetchStatus, streams of remote nodes  *)
(* are answered with it and may replace it in UpdateStatus; there is no    *)
(* lock.  The streams are those of RequestServer, here with the handler    *)
(* that ServeBeaconStatus installs in place of its bare return.            *)
(*                                                                         *)
(* A status is reduced to its fork digest and its head slot.  Its copy in  *)
(* UpdateStatus is not atomic: it writes the two fields one after the      *)
(* other, in either order.  Of what is sent, only the digest is kept.      *)
(***************************************************************************)
EXTENDS RequestServer, RpcWire, Sequences

CONSTANTS
  Workers,          \* workers that can be in FetchStatus at the same time
  Digests,          \* the digests of the fork choice, in the order of time
  RemoteStatuses    \* bound: the statuses that remote nodes send

ASSUME StatusAssumption ==
  /\ MinSize > 0
  /\ Digests \in Seq(STRING) /\ Len(Digests) > 0
  /\ RemoteStatuses \subseteq [digest : STRING, head : Nat]

VARIABLES
  fork,         \* ForkChoice.Fork() = Digests[fork]
  localStatus,
  step,         \* stream in "serve": "read", "respond", "compare", "assign"
  newStatus,    \* stream: the status it has read
  left,         \* stream: the fields it has still to assign
  fetch,        \* worker: "idle", "set", "encode", "answer"
  digest,       \* worker: the digest it sets, then the one it has encoded
  foreign       \* history: an update assigned a digest between the two

statusVars == <<fork, localStatus, step, newStatus, left, fetch, digest, foreign>>
xvars == <<svars, statusVars>>

Status == [digest : STRING, head : Nat]
Fields == {"digest", "head"}

(* newLocalStatus                                                          *)
NewLocalStatus(d) == [digest |-> d, head |-> 0]

XInit ==
  /\ Init
  /\ fork = 1
  /\ localStatus = NewLocalStatus(Digests[1])
  /\ step = [s \in Streams |-> "read"]
  /\ newStatus = [s \in Streams |-> NewLocalStatus(Digests[1])]
  /\ left = [s \in Streams |-> {}]
  /\ fetch = [w \in Workers |-> "idle"]
  /\ digest = [w \in Workers |-> Digests[1]]
  /\ foreign = [w \in Workers |-> FALSE]

(* monitorForkChange switches the digest.                                  *)
SwitchFork ==
  /\ fork < Len(Digests)
  /\ fork' = fork + 1
  /\ UNCHANGED <<svars, localStatus, step, newStatus, left, fetch, digest, foreign>>
-----------------------------------------------------------------------------
(* FetchStatus                                                             *)
FetchGoto(w, label) == fetch' = [fetch EXCEPT ![w] = label]

(* Mutant of CallFork: the digest is that of the start.                    *)
MutFirstFork(w) ==
  /\ fetch[w] = "idle"
  /\ digest' = [digest EXCEPT ![w] = Digests[1]]
  /\ FetchGoto(w, "set")
  /\ UNCHANGED <<svars, fork, localStatus, step, newStatus, left, foreign>>

(* The digest that Fork() returns...                                       *)
CallFork(w) ==
  /\ fetch[w] = "idle"
  /\ digest' = [digest EXCEPT ![w] = Digests[fork]]
  /\ FetchGoto(w, "set")
  /\ UNCHANGED <<svars, fork, localStatus, step, newStatus, left, foreign>>

(* Mutant of SetDigest: a status of our own is built and LocalStatus is    *)
(* left as it is.                                                          *)
MutNoSet(w) ==
  /\ fetch[w] = "set"
  /\ FetchGoto(w, "encode")
  /\ UNCHANGED <<svars, fork, localStatus, step, newStatus, left, digest, foreign>>

(* ...is assigned to LocalStatus...                                        *)
SetDigest(w) ==
  /\ fetch[w] = "set"
  /\ localStatus' = [localStatus EXCEPT !.digest = digest[w]]
  /\ FetchGoto(w, "encode")
  /\ UNCHANGED <<svars, fork, step, newStatus, left, digest, foreign>>

(* ...which RunRequest encodes...                                          *)
EncodeStatus(w) ==
  /\ fetch[w] = "encode"
  /\ digest' = [digest EXCEPT ![w] = localStatus.digest]
  /\ FetchGoto(w, "answer")
  /\ UNCHANGED <<svars, fork, localStatus, step, newStatus, left, foreign>>

(* ...and sends; the request fails or is answered (RpcWire says how).      *)
Fetched(w) ==
  /\ fetch[w] = "answer"
  /\ FetchGoto(w, "idle")
  /\ digest' = [digest EXCEPT ![w] = Digests[1]]
  /\ foreign' = [foreign EXCEPT ![w] = FALSE]
  /\ UNCHANGED <<svars, fork, localStatus, step, newStatus, left>>
-----------------------------------------------------------------------------
(* The listener of ServeBeaconStatus.  ReadRequest decodes a status when   *)
(* the length read from the stream holds one.                              *)
Serving(s, label) == pc[s] = "serve" /\ step[s] = label
StepTo(s, label) == step' = [step EXCEPT ![s] = label]

(* Mutant of Decodable: the length is not looked at.                       *)
MutNoLength(s) == ~invalid[s]
Decodable(s) == ~invalid[s] /\ reqLen[s] >= MinSize

ReadStatus(s) ==
  /\ Serving(s, "read")
  /\ Decodable(s) /\ ~expired[s]
  /\ \E r \in RemoteStatuses : newStatus' = [newStatus EXCEPT ![s] = r]
  /\ StepTo(s, "respond")
  /\ UNCHANGED <<svars, fork, localStatus, left, fetch, digest, foreign>>

Respond(s) ==
  /\ Serving(s, "respond")
  /\ ~expired[s]
  /\ StepTo(s, "compare")
  /\ UNCHANGED <<svars, fork, localStatus, newStatus, left, fetch, digest, foreign>>

(* The request cannot be read or the response cannot be written.           *)
ServeFails(s) ==
  /\ Serving(s, "read") \/ Serving(s, "respond")
  /\ Return(s)
  /\ StepTo(s, "read")
  /\ newStatus' = [newStatus EXCEPT ![s] = NewLocalStatus(Digests[1])]
  /\ UNCHANGED <<fork, localStatus, left, fetch, digest, foreign>>

(* Mutant of Newer: a status that is not older is newer.                   *)
MutNotOlder(new, local) == new.head # local.head
Newer(new, local) == new.head > local.head

(* UpdateStatus: the comparison...                                         *)
Compare(s) ==
  /\ Serving(s, "compare")
  /\ Newer(newStatus[s], localStatus)
  /\ left' = [left EXCEPT ![s] = Fields]
  /\ StepTo(s, "assign")
  /\ UNCHANGED <<svars, fork, localStatus, newStatus, fetch, digest, foreign>>

KeepLocal(s) ==
  /\ Serving(s, "compare")
  /\ ~Newer(newStatus[s], localStatus)
  /\ Return(s)
  /\ StepTo(s, "read")
  /\ newStatus' = [newStatus EXCEPT ![s] = NewLocalStatus(Digests[1])]
  /\ UNCHANGED <<fork, localStatus, left, fetch, digest, foreign>>

(* ...and the assignment of the whole status, its digest included.         *)
AssignField(s, field) ==
  /\ Serving(s, "assign")
  /\ field \in left[s]
  /\ localStatus' = [localStatus EXCEPT ![field] = newStatus[s][field]]
  /\ foreign' = [w \in Workers |->
                   foreign[w] \/ (field = "digest" /\ fetch[w] = "encode")]
  /\ left' = [left EXCEPT ![s] = @ \ {field}]
  /\ UNCHANGED <<svars, fork, step, newStatus, fetch, digest>>

Updated(s) ==
  /\ Serving(s, "assign")
  /\ left[s] = {}
  /\ Return(s)
  /\ StepTo(s, "read")
  /\ newStatus' = [newStatus EXCEPT ![s] = NewLocalStatus(Digests[1])]
  /\ UNCHANGED <<fork, localStatus, left, fetch, digest, foreign>>
-----------------------------------------------------------------------------
(* The steps of MakeStreamHandler before it calls the listener.            *)
BeforeServe(s) ==
  /\ Open(s) \/ ReadSize(s) \/ SizeFails(s) \/ Local(s) \/ Expire(s)
  /\ UNCHANGED statusVars

Update(s) == Compare(s) \/ KeepLocal(s) \/ (\E f \in Fields : AssignField(s, f)) \/ Updated(s)

Handler(s) == BeforeServe(s) \/ ReadStatus(s) \/ Respond(s) \/ ServeFails(s) \/ Update(s)

FetchStatus(w) ==
  CallFork(w) \/ SetDigest(w) \/ EncodeStatus(w) \/ Fetched(w)

XNext ==
  \/ SwitchFork
  \/ \E s \in Streams : Handler(s)
  \/ \E w \in Workers : FetchStatus(w)

XSpec == XInit /\ [][XNext]_xvars

(* As for RequestServer, the remote side of a stream owes nothing.  The    *)
(* crawler goes on polling, which takes the answers or the failures of     *)
(* the nodes it polls.                                                     *)
XFairSpec ==
  /\ XSpec
  /\ \A s \in Streams :
        /\ WF_xvars(Local(s) /\ UNCHANGED statusVars)
        /\ WF_xvars(Expire(s) /\ UNCHANGED statusVars)
        /\ WF_xvars(expired[s] /\ SizeFails(s) /\ UNCHANGED statusVars)
        /\ WF_xvars(expired[s] /\ ServeFails(s))
        /\ WF_xvars(Update(s))
  /\ \A w \in Workers : WF_xvars(FetchStatus(w))
-----------------------------------------------------------------------------
StatusTypeOK ==
  /\ TypeOK
  /\ fork \in DOMAIN Digests
  /\ localStatus \in Status
  /\ step \in [Streams -> {"read", "respond", "compare", "assign"}]
  /\ newStatus \in [Streams -> Status]
  /\ left \in [Streams -> SUBSET Fields]
  /\ fetch \in [Workers -> {"idle", "set", "encode", "answer"}]
  /\ digest \in [Workers -> STRING]
  /\ foreign \in [Workers -> BOOLEAN]

(* The head slot may go back, when a stream that compared before another   *)
(* assigned assigns after it, but never below what both had: a slot that   *)
(* the local status and every assignment under way have reached is not     *)
(* fallen below again (host.go, 311-316).                                  *)
Assigning == {s \in Streams : Serving(s, "assign") /\ "head" \in left[s]}
Reached(slot) ==
  localStatus.head >= slot /\ \A s \in Assigning : newStatus[s].head >= slot
Slots == {r.head : r \in RemoteStatuses}
HeadHolds == [][\A slot \in Slots : Reached(slot) => Reached(slot)']_xvars

(* What FetchStatus sends carries a digest of our own fork choice, unless  *)
(* a remote status was assigned between its setting and its encoding       *)
(* (host.go, 174-177).                                                     *)
SentOwnDigest ==
  \A w \in Workers :
    fetch[w] = "answer" /\ ~foreign[w] => \E i \in DOMAIN Digests : digest[w] = Digests[i]

(* A digest of a remote status, or of a fork that is over, does not stay:  *)
(* polling puts the one in force in its place (host.go, 173-174).          *)
DigestRepaired ==
  localStatus.digest # Digests[fork] ~> localStatus.digest = Digests[fork]

(* Once invalid requests have zeroed the shared limit and no other request *)
(* is on its way, the local status is out of the reach of remote nodes for *)
(* good: no later request is read (handle_request.go, 51-54 and 73).       *)
Unread(s) == Serving(s, "read") /\ ~Decodable(s)
Shut ==
  /\ limit = 0
  /\ \A s \in Streams : pc[s] = "free" \/ Unread(s)
StaysShut == [][Shut => Shut' /\ localStatus'.head = localStatus.head]_xvars

(* The two sides of a stream, written in different files, understand each  *)
(* other: limits, error messages and codes (rpc_method.go, 196-305;        *)
(* handle_request.go, 57-81; handle_response.go, 39-65), as long as no     *)
(* request has moved the limit of its handler.                             *)
Unmoved == limit = RegisteredMax /\ \A s \in Streams : pc[s] = "free"

SidesAgree == Unmoved => LimitsAgree /\ ErrorsArrive /\ StatusFromSuccess
=============================================================================
