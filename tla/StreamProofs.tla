---------------------------- MODULE StreamProofs ----------------------------
(***************************************************************************)
(* The streams of a protocol and the status exchange over them, for any    *)
(* number of streams and workers, any sizes, any forks and any statuses of *)
(* remote nodes.                                                           *)
(***************************************************************************)
EXTENDS StatusExchange, TLAPS
-----------------------------------------------------------------------------
(* Between its two steps a growing limit is kept in "encoded".             *)
RequestInv ==
  /\ TypeOK
  /\ LimitBounded
  /\ \A s \in Streams : encoded[s] <= MaxEncodable

LEMMA EncodedLenBounded ==
  ASSUME NEW n \in Nat
  PROVE  EncodedLen(n) \in -1 .. MaxEncodable /\ (EncodedLen(n) # -1 => n <= EncodedLen(n))
BY EncodingAssumption DEF EncodedLen

LEMMA RequestInit == Init => RequestInv
BY SizeAssumption, EncodingAssumption DEF Init, RequestInv, TypeOK, LimitBounded

LEMMA StreamStep ==
  ASSUME RequestInv, NEW s \in Streams,
         Open(s) \/ ReadSize(s) \/ SizeFails(s) \/ Local(s) \/ Return(s) \/ Expire(s)
  PROVE  RequestInv'
<1> USE DEF RequestInv, TypeOK, LimitBounded, Goto
<1>1. CASE Open(s)
  <2>1. UNCHANGED <<limit, encoded, reqLen, invalid, expired>>
    BY <1>1 DEF Open
  <2>2. \E n \in {0, 1}, label \in {"serve", "size"} :
           N' = [N EXCEPT ![s] = n] /\ pc' = [pc EXCEPT ![s] = label]
    BY <1>1 DEF Open
  <2>3. /\ N' \in [Streams -> Nat]
        /\ \A t \in Streams : N'[t] = N[t] \/ N'[t] \in {0, 1}
        /\ pc' \in [Streams -> {"free", "size", "check", "grow", "store", "grant", "serve"}]
    BY <2>2
  <2>4. \A t \in Streams : N'[t] <= MaxEncodable
    BY <2>3, SizeAssumption, EncodingAssumption
  <2> QED
    BY <2>1, <2>3, <2>4
<1>2. CASE ReadSize(s)
  BY <1>2, SizeAssumption DEF ReadSize
<1>3. CASE SizeFails(s)
  BY <1>3 DEF SizeFails
<1>4. CASE Refuse(s)
  BY <1>4 DEF Refuse
<1>5. CASE Accept(s)
  BY <1>5 DEF Accept
<1>6. CASE Grow(s)
  <2>1. EncodedLen(limit) \in -1 .. MaxEncodable
    BY EncodedLenBounded
  <2>2. CASE EncodedLen(limit) = -1
    BY <1>6, <2>2 DEF Grow
  <2>3. CASE EncodedLen(limit) # -1
    <3>1. encoded' = [encoded EXCEPT ![s] = EncodedLen(limit)] /\ invalid' = invalid
      BY <1>6, <2>3 DEF Grow
    <3>2. encoded' \in [Streams -> Nat] /\ \A t \in Streams : encoded'[t] <= MaxEncodable
      BY <3>1, <2>1, <2>3, EncodingAssumption
    <3> QED
      BY <1>6, <3>1, <3>2 DEF Grow
  <2> QED
    BY <2>2, <2>3
<1>7. CASE Store(s)
  <2>1. /\ limit' \in Nat /\ limit' <= MaxEncodable
        /\ encoded' \in [Streams -> Nat] /\ \A t \in Streams : encoded'[t] <= MaxEncodable
        /\ pc' \in [Streams -> {"free", "size", "check", "grow", "store", "grant", "serve"}]
    BY <1>7, EncodingAssumption DEF Store
  <2>2. UNCHANGED <<reqLen, invalid, N, expired>>
    BY <1>7 DEF Store
  <2> QED
    BY <2>1, <2>2
<1>8. CASE Grant(s)
  BY <1>8, EncodedLenBounded, EncodingAssumption DEF Grant
<1>9. CASE Return(s)
  <2>1. UNCHANGED <<limit, encoded>>
    BY <1>9 DEF Return
  <2>2. /\ pc' \in [Streams -> {"free", "size", "check", "grow", "store", "grant", "serve"}]
        /\ reqLen' \in [Streams -> Nat]
        /\ N' \in [Streams -> Nat] /\ \A t \in Streams : N'[t] <= MaxEncodable
    BY <1>9, EncodingAssumption DEF Return
  <2>3. invalid' \in [Streams -> BOOLEAN] /\ expired' \in [Streams -> BOOLEAN]
    BY <1>9, Zenon DEF Return
  <2> QED
    BY <2>1, <2>2, <2>3
<1>10. CASE Expire(s)
  BY <1>10 DEF Expire
<1> QED
  BY <1>1, <1>2, <1>3, <1>4, <1>5, <1>6, <1>7, <1>8, <1>9, <1>10 DEF Local

LEMMA RequestStep == RequestInv /\ [Next]_svars => RequestInv'
<1> SUFFICES ASSUME RequestInv, [Next]_svars PROVE RequestInv'
  OBVIOUS
<1>1. CASE Next
  BY <1>1, StreamStep DEF Next
<1>2. CASE UNCHANGED svars
  BY <1>2 DEF svars, RequestInv, TypeOK, LimitBounded
<1> QED
  BY <1>1, <1>2

(* The limit that a handler checks against, stores and grants from never   *)
(* exceeds what snappy can encode (handle_request.go, 59-82).              *)
THEOREM LimitInRange == Spec => []LimitBounded
<1>1. RequestInv => LimitBounded
  BY DEF RequestInv
<1> QED
  BY RequestInit, RequestStep, <1>1, PTL DEF Spec

(* Every variable of the streams keeps its type (handle_request.go,        *)
(* 23-85).                                                                 *)
THEOREM ServerTypeCorrect == Spec => []TypeOK
<1>1. RequestInv => TypeOK
  BY DEF RequestInv
<1> QED
  BY RequestInit, RequestStep, <1>1, PTL DEF Spec
-----------------------------------------------------------------------------
(* A stream that is not being served is at the start of its handler, and   *)
(* one that is free has read no length.                                    *)
Fresh ==
  \A s \in Streams :
    /\ pc[s] # "serve" => step[s] = "read"
    /\ pc[s] = "free" => reqLen[s] = 0

Own(d) == \E i \in DOMAIN Digests : d = Digests[i]

(* What a worker sets is our own, and stays so until an update.            *)
OwnDigests ==
  \A w \in Workers :
    /\ fetch[w] = "set" => Own(digest[w])
    /\ fetch[w] = "encode" /\ ~foreign[w] => Own(localStatus.digest)
    /\ fetch[w] = "answer" /\ ~foreign[w] => Own(digest[w])

StatusTypes ==
  /\ fork \in DOMAIN Digests
  /\ localStatus \in Status
  /\ step \in [Streams -> {"read", "respond", "compare", "assign"}]
  /\ newStatus \in [Streams -> Status]
  /\ left \in [Streams -> SUBSET Fields]
  /\ fetch \in [Workers -> {"idle", "set", "encode", "answer"}]
  /\ digest \in [Workers -> STRING]
  /\ foreign \in [Workers -> BOOLEAN]

StatusInv == RequestInv /\ StatusTypes /\ Fresh /\ OwnDigests

LEMMA DigestStrings == \A i \in DOMAIN Digests : Digests[i] \in STRING
BY StatusAssumption

LEMMA StatusInit == XInit => StatusInv
<1> SUFFICES ASSUME XInit PROVE StatusInv
  OBVIOUS
<1>1. RequestInv
  BY RequestInit DEF XInit
<1>2. 1 \in DOMAIN Digests /\ Digests[1] \in STRING
  BY StatusAssumption
<1>3. StatusTypes
  BY <1>2 DEF XInit, StatusTypes, Status, NewLocalStatus
<1>4. Fresh /\ OwnDigests
  BY <1>2 DEF XInit, Init, Fresh, OwnDigests
<1> QED
  BY <1>1, <1>3, <1>4 DEF StatusInv

(* The steps of the composition are steps of the request server.           *)
LEMMA ServerStep ==
  ASSUME RequestInv, [XNext]_xvars
  PROVE  [Next]_svars
<1>1. CASE SwitchFork
  BY <1>1 DEF SwitchFork
<1>2. ASSUME NEW s \in Streams, Handler(s) PROVE [Next]_svars
  <2>1. CASE BeforeServe(s)
    BY <2>1 DEF BeforeServe, Next
  <2>2. CASE ReadStatus(s) \/ Respond(s) \/ Compare(s) \/ (\E f \in Fields : AssignField(s, f))
    BY <2>2 DEF ReadStatus, Respond, Compare, AssignField
  <2>3. CASE ServeFails(s) \/ KeepLocal(s) \/ Updated(s)
    BY <2>3 DEF ServeFails, KeepLocal, Updated, Next
  <2> QED
    BY <1>2, <2>1, <2>2, <2>3 DEF Handler, Update
<1>3. ASSUME NEW w \in Workers, FetchStatus(w) PROVE [Next]_svars
  BY <1>3 DEF FetchStatus, CallFork, SetDigest, EncodeStatus, Fetched
<1>4. CASE UNCHANGED xvars
  BY <1>4 DEF xvars
<1> QED
  BY <1>1, <1>2, <1>3, <1>4 DEF XNext

LEMMA WorkerTypes ==
  ASSUME StatusInv, NEW w \in Workers, FetchStatus(w)
  PROVE  StatusTypes' /\ Fresh' /\ OwnDigests'
<1> USE DEF StatusInv, StatusTypes, FetchGoto
<1>1. UNCHANGED <<svars, fork, step, newStatus, left>>
  BY DEF FetchStatus, CallFork, SetDigest, EncodeStatus, Fetched
<1>2. Fresh'
  BY <1>1 DEF Fresh, svars
<1>3. CASE CallFork(w)
  <2>1. Digests[fork] \in STRING /\ Own(Digests[fork])
    BY DigestStrings DEF Own
  <2>2. UNCHANGED <<localStatus, foreign>>
    BY <1>3 DEF CallFork
  <2>3. fetch' = [fetch EXCEPT ![w] = "set"] /\ digest' = [digest EXCEPT ![w] = Digests[fork]]
    BY <1>3 DEF CallFork
  <2>4. StatusTypes'
    BY <1>1, <2>1, <2>2, <2>3
  <2>5. OwnDigests'
    BY <2>1, <2>2, <2>3 DEF OwnDigests, Own
  <2> QED
    BY <1>2, <2>4, <2>5
<1>4. CASE SetDigest(w)
  <2>1. Own(digest[w])
    BY <1>4 DEF SetDigest, OwnDigests
  <2>2. UNCHANGED <<digest, foreign>>
    BY <1>4 DEF SetDigest
  <2>3. /\ fetch' = [fetch EXCEPT ![w] = "encode"]
        /\ localStatus' = [localStatus EXCEPT !.digest = digest[w]]
    BY <1>4 DEF SetDigest
  <2>4. localStatus' \in Status /\ localStatus'.digest = digest[w]
    BY <2>3 DEF Status
  <2>5. StatusTypes'
    BY <1>1, <2>2, <2>3, <2>4
  <2>6. OwnDigests'
    BY <2>1, <2>2, <2>3, <2>4 DEF OwnDigests, Own
  <2> QED
    BY <1>2, <2>5, <2>6
<1>5. CASE EncodeStatus(w)
  <2>1. UNCHANGED <<localStatus, foreign>> /\ localStatus.digest \in STRING
    BY <1>5 DEF EncodeStatus, Status
  <2>2. /\ fetch' = [fetch EXCEPT ![w] = "answer"]
        /\ digest' = [digest EXCEPT ![w] = localStatus.digest]
        /\ fetch[w] = "encode"
    BY <1>5 DEF EncodeStatus
  <2>3. StatusTypes'
    BY <1>1, <2>1, <2>2
  <2>4. OwnDigests'
    BY <2>1, <2>2 DEF OwnDigests, Own
  <2> QED
    BY <1>2, <2>3, <2>4
<1>6. CASE Fetched(w)
  <2>1. Digests[1] \in STRING
    BY StatusAssumption, DigestStrings
  <2>2. /\ fetch' = [fetch EXCEPT ![w] = "idle"]
        /\ digest' = [digest EXCEPT ![w] = Digests[1]]
        /\ localStatus' = localStatus
    BY <1>6 DEF Fetched
  <2>3. foreign' = [foreign EXCEPT ![w] = FALSE]
    BY <1>6 DEF Fetched
  <2>4. foreign' \in [Workers -> BOOLEAN] /\ \A v \in Workers : v # w => foreign'[v] = foreign[v]
    BY <2>3, Zenon
  <2>5. StatusTypes'
    BY <1>1, <2>1, <2>2, <2>4
  <2>6. OwnDigests'
    BY <2>2, <2>4 DEF OwnDigests, Own
  <2> QED
    BY <1>2, <2>5, <2>6
<1> QED
  BY <1>3, <1>4, <1>5, <1>6 DEF FetchStatus

LEMMA HandlerTypes ==
  ASSUME StatusInv, NEW s \in Streams, Handler(s)
  PROVE  StatusTypes' /\ Fresh' /\ OwnDigests'
<1> USE DEF StatusInv, StatusTypes, StepTo, Serving
<1>1. pc \in [Streams -> {"free", "size", "check", "grow", "store", "grant", "serve"}]
      /\ reqLen \in [Streams -> Nat]
  BY DEF RequestInv, TypeOK
<1>2. CASE BeforeServe(s)
  <2>1. UNCHANGED statusVars
    BY <1>2 DEF BeforeServe
  <2>2. Fresh'
    <3>1. CASE Open(s)
      BY <1>1, <2>1, <3>1 DEF Open, Goto, Fresh, statusVars
    <3>2. CASE ReadSize(s)
      BY <1>1, <2>1, <3>2 DEF ReadSize, Goto, Fresh, statusVars
    <3>3. CASE SizeFails(s) \/ Local(s)
      BY <1>1, <2>1, <3>3 DEF SizeFails, Local, Refuse, Accept, Grow, Store, Grant, Goto,
         Fresh, statusVars
    <3>4. CASE Expire(s)
      BY <1>1, <2>1, <3>4 DEF Expire, Fresh, statusVars
    <3> QED
      BY <1>2, <3>1, <3>2, <3>3, <3>4 DEF BeforeServe
  <2>3. OwnDigests' /\ StatusTypes'
    BY <2>1 DEF statusVars, OwnDigests, Own
  <2> QED
    BY <2>2, <2>3
<1>3. CASE ReadStatus(s)
  <2>1. PICK r \in RemoteStatuses : newStatus' = [newStatus EXCEPT ![s] = r]
    BY <1>3 DEF ReadStatus
  <2>2. r \in Status
    BY StatusAssumption DEF Status
  <2>3. UNCHANGED <<svars, fork, localStatus, left, fetch, digest, foreign>> /\ pc[s] = "serve"
        /\ step' = [step EXCEPT ![s] = "respond"]
    BY <1>3 DEF ReadStatus
  <2> QED
    BY <2>1, <2>2, <2>3 DEF Fresh, OwnDigests, Own, svars
<1>4. CASE Respond(s)
  <2>1. UNCHANGED <<svars, fork, localStatus, newStatus, left, fetch, digest, foreign>>
        /\ pc[s] = "serve" /\ step' = [step EXCEPT ![s] = "compare"]
    BY <1>4 DEF Respond
  <2> QED
    BY <2>1 DEF Fresh, OwnDigests, Own, svars
<1>5. CASE Compare(s)
  <2>1. UNCHANGED <<svars, fork, localStatus, newStatus, fetch, digest, foreign>>
        /\ pc[s] = "serve" /\ step' = [step EXCEPT ![s] = "assign"]
        /\ left' = [left EXCEPT ![s] = Fields]
    BY <1>5 DEF Compare
  <2> QED
    BY <2>1 DEF Fresh, OwnDigests, Own, svars
<1>6. ASSUME NEW f \in Fields, AssignField(s, f) PROVE StatusTypes' /\ Fresh' /\ OwnDigests'
  <2>1. UNCHANGED <<svars, fork, step, newStatus, fetch, digest>>
        /\ left' = [left EXCEPT ![s] = @ \ {f}]
        /\ localStatus' = [localStatus EXCEPT ![f] = newStatus[s][f]]
    BY <1>6 DEF AssignField
  <2>2. foreign' = [w \in Workers |-> foreign[w] \/ (f = "digest" /\ fetch[w] = "encode")]
    BY <1>6 DEF AssignField
  <2>3. localStatus' \in Status /\ (f # "digest" => localStatus'.digest = localStatus.digest)
    BY <2>1 DEF Status, Fields
  <2>4. foreign' \in [Workers -> BOOLEAN]
        /\ \A w \in Workers : ~foreign'[w] => ~foreign[w] /\ (f # "digest" \/ fetch[w] # "encode")
    BY <2>2, Zenon
  <2>5. StatusTypes'
    BY <2>1, <2>3, <2>4
  <2>6. Fresh'
    BY <2>1 DEF Fresh, svars
  <2>7. OwnDigests'
    BY <2>1, <2>3, <2>4 DEF OwnDigests, Own
  <2> QED
    BY <2>5, <2>6, <2>7
<1>7. CASE ServeFails(s) \/ KeepLocal(s) \/ Updated(s)
  <2>1. /\ UNCHANGED <<fork, localStatus, left, fetch, digest, foreign>>
        /\ step' = [step EXCEPT ![s] = "read"]
        /\ newStatus' = [newStatus EXCEPT ![s] = NewLocalStatus(Digests[1])]
        /\ Return(s)
    BY <1>7 DEF ServeFails, KeepLocal, Updated
  <2>2. NewLocalStatus(Digests[1]) \in Status
    BY StatusAssumption, DigestStrings DEF NewLocalStatus, Status
  <2>3. StatusTypes'
    BY <2>1, <2>2
  <2>4. Fresh'
    BY <1>1, <2>1 DEF Fresh, Return, Goto
  <2>5. OwnDigests'
    BY <2>1 DEF OwnDigests, Own
  <2> QED
    BY <2>3, <2>4, <2>5
<1> QED
  BY <1>2, <1>3, <1>4, <1>5, <1>6, <1>7 DEF Handler, Update

LEMMA StatusStep == StatusInv /\ [XNext]_xvars => StatusInv'
<1> SUFFICES ASSUME StatusInv, [XNext]_xvars PROVE StatusInv'
  OBVIOUS
<1>1. RequestInv'
  BY RequestStep, ServerStep DEF StatusInv
<1>2. CASE SwitchFork
  <2>1. fork' \in DOMAIN Digests
    BY <1>2, StatusAssumption DEF SwitchFork, StatusInv, StatusTypes
  <2>2. StatusTypes' /\ Fresh' /\ OwnDigests'
    BY <1>2, <2>1 DEF SwitchFork, StatusInv, StatusTypes, Fresh, OwnDigests, Own, svars
  <2> QED
    BY <1>1, <2>2 DEF StatusInv
<1>3. ASSUME NEW s \in Streams, Handler(s) PROVE StatusInv'
  BY <1>1, <1>3, HandlerTypes DEF StatusInv
<1>4. ASSUME NEW w \in Workers, FetchStatus(w) PROVE StatusInv'
  BY <1>1, <1>4, WorkerTypes DEF StatusInv
<1>5. CASE UNCHANGED xvars
  BY <1>1, <1>5 DEF xvars, svars, statusVars, StatusInv, StatusTypes, Fresh, OwnDigests, Own
<1> QED
  BY <1>2, <1>3, <1>4, <1>5 DEF XNext

LEMMA StatusInvariant == XSpec => []StatusInv
BY StatusInit, StatusStep, PTL DEF XSpec

(* Every variable of the exchange keeps its type.                          *)
THEOREM StatusTypeCorrect == XSpec => []StatusTypeOK
<1>1. StatusInv => StatusTypeOK
  BY DEF StatusInv, RequestInv, StatusTypes, StatusTypeOK
<1> QED
  BY StatusInvariant, <1>1, PTL

(* The digest that FetchStatus sends is our own unless an update came in   *)
(* between (host.go, 174-177).                                             *)
THEOREM OwnDigestSent == XSpec => []SentOwnDigest
<1>1. StatusInv => SentOwnDigest
  BY DEF StatusInv, OwnDigests, Own, SentOwnDigest
<1> QED
  BY StatusInvariant, <1>1, PTL

-----------------------------------------------------------------------------
(* The steps that assign no head and compare nothing leave the streams in  *)
(* UpdateStatus what they had, or end some.                                *)
LEMMA HeadStays ==
  ASSUME StatusInv, NEW slot \in Nat, Reached(slot), localStatus'.head = localStatus.head,
         \A s \in Streams : (Serving(s, "assign") /\ "head" \in left[s])' =>
           Serving(s, "assign") /\ "head" \in left[s] /\ newStatus'[s] = newStatus[s]
  PROVE  Reached(slot)'
<1>1. \A s \in Assigning' : s \in Assigning /\ newStatus'[s] = newStatus[s]
  BY DEF Assigning
<1> QED
  BY <1>1 DEF Reached, Assigning

LEMMA HeadStep ==
  ASSUME StatusInv, [XNext]_xvars, NEW slot \in Nat, Reached(slot)
  PROVE  Reached(slot)'
<1> USE DEF Serving, StepTo
<1>1. /\ pc \in [Streams -> {"free", "size", "check", "grow", "store", "grant", "serve"}]
      /\ step \in [Streams -> {"read", "respond", "compare", "assign"}]
      /\ newStatus \in [Streams -> Status] /\ localStatus \in Status
      /\ left \in [Streams -> SUBSET Fields]
  BY DEF StatusInv, RequestInv, TypeOK, StatusTypes
<1>2. CASE UNCHANGED xvars \/ SwitchFork
  <2>1. UNCHANGED <<pc, step, newStatus, left, localStatus>>
    BY <1>2 DEF xvars, svars, statusVars, SwitchFork
  <2> QED
    BY <2>1, HeadStays
<1>3. ASSUME NEW w \in Workers, FetchStatus(w) PROVE Reached(slot)'
  <2>1. UNCHANGED <<pc, step, newStatus, left>>
    BY <1>3 DEF FetchStatus, CallFork, SetDigest, EncodeStatus, Fetched, svars
  <2>2. localStatus' = localStatus \/ localStatus' = [localStatus EXCEPT !.digest = digest[w]]
    BY <1>3 DEF FetchStatus, CallFork, SetDigest, EncodeStatus, Fetched
  <2>3. localStatus'.head = localStatus.head
    BY <1>1, <2>2 DEF Status
  <2> QED
    BY <2>1, <2>3, HeadStays
<1>4. ASSUME NEW s \in Streams, Handler(s) PROVE Reached(slot)'
  <2>1. CASE BeforeServe(s)
    <3>1. UNCHANGED <<step, newStatus, left, localStatus>>
      BY <2>1 DEF BeforeServe, statusVars
    <3>2. \A v \in Streams : pc'[v] = pc[v] \/ step[v] = "read"
      BY <1>1, <2>1 DEF BeforeServe, Open, ReadSize, SizeFails, Local, Refuse, Accept, Grow, Store,
                        Grant, Expire, Goto, StatusInv, Fresh
    <3> QED
      BY <3>1, <3>2, HeadStays
  <2>2. CASE ReadStatus(s) \/ Respond(s)
    <3>1. /\ UNCHANGED <<pc, left, localStatus>> /\ step'[s] # "assign"
          /\ \A v \in Streams : v # s => step'[v] = step[v] /\ newStatus'[v] = newStatus[v]
      BY <1>1, <2>2 DEF ReadStatus, Respond, svars
    <3> QED
      BY <3>1, HeadStays
  <2>3. CASE ServeFails(s) \/ KeepLocal(s) \/ Updated(s)
    <3>1. /\ UNCHANGED <<left, localStatus>> /\ step'[s] = "read"
          /\ \A v \in Streams : v # s => /\ step'[v] = step[v] /\ newStatus'[v] = newStatus[v]
                                         /\ pc'[v] = pc[v]
      BY <1>1, <2>3 DEF ServeFails, KeepLocal, Updated, Return, Goto
    <3> QED
      BY <3>1, HeadStays
  <2>4. CASE Compare(s)
    <3>1. /\ UNCHANGED <<pc, newStatus, localStatus>>
          /\ newStatus[s].head > localStatus.head
          /\ \A v \in Streams : v # s => step'[v] = step[v] /\ left'[v] = left[v]
      BY <1>1, <2>4 DEF Compare, Newer, svars
    <3>2. \A v \in Assigning' : v \in Assigning \/ v = s
      BY <3>1 DEF Assigning
    <3>3. newStatus[s].head >= slot
      BY <1>1, <3>1 DEF Reached, Status
    <3> QED
      BY <3>1, <3>2, <3>3 DEF Reached, Assigning
  <2>5. ASSUME NEW f \in Fields, AssignField(s, f) PROVE Reached(slot)'
    <3>1. /\ UNCHANGED <<pc, step, newStatus>> /\ Serving(s, "assign") /\ f \in left[s]
          /\ localStatus' = [localStatus EXCEPT ![f] = newStatus[s][f]]
          /\ left' = [left EXCEPT ![s] = @ \ {f}]
      BY <2>5 DEF AssignField, svars
    <3>2. \A v \in Streams : left'[v] \subseteq left[v]
      BY <1>1, <3>1
    <3>3. localStatus'.head = localStatus.head \/ (f = "head" /\ localStatus'.head = newStatus[s].head)
      BY <1>1, <3>1 DEF Status, Fields
    <3>4. localStatus'.head >= slot
      BY <3>1, <3>3 DEF Reached, Assigning
    <3>5. Assigning' \subseteq Assigning
      BY <3>1, <3>2 DEF Assigning
    <3> QED
      BY <3>1, <3>4, <3>5 DEF Reached, Assigning
  <2> QED
    BY <1>4, <2>1, <2>2, <2>3, <2>4, <2>5 DEF Handler, Update
<1> QED
  BY <1>2, <1>3, <1>4 DEF XNext

(* A head slot that the local status and every assignment under way have   *)
(* reached is kept, for any number of streams that compare and assign at   *)
(* the same time (host.go, 311-316).                                       *)
THEOREM HeadIsKept == XSpec => HeadHolds
<1>1. Slots \subseteq Nat
  BY StatusAssumption DEF Slots
<1>2. StatusInv /\ [XNext]_xvars => [\A slot \in Slots : Reached(slot) => Reached(slot)']_xvars
  BY <1>1, HeadStep
<1> QED
  BY <1>2, StatusInvariant, PTL DEF XSpec, HeadHolds

LEMMA ShutStep ==
  ASSUME StatusInv, Shut, [XNext]_xvars
  PROVE  Shut' /\ localStatus'.head = localStatus.head
<1> USE DEF Serving, StepTo
<1>1. /\ pc \in [Streams -> {"free", "size", "check", "grow", "store", "grant", "serve"}]
      /\ step \in [Streams -> {"read", "respond", "compare", "assign"}]
      /\ invalid \in [Streams -> BOOLEAN] /\ reqLen \in [Streams -> Nat] /\ localStatus \in Status
  BY DEF StatusInv, RequestInv, TypeOK, StatusTypes
<1>2. CASE UNCHANGED xvars \/ SwitchFork
  BY <1>2 DEF xvars, svars, statusVars, SwitchFork, Shut, Unread, Decodable
<1>3. ASSUME NEW w \in Workers, FetchStatus(w)
      PROVE  Shut' /\ localStatus'.head = localStatus.head
  <2>1. UNCHANGED <<svars, step>>
    BY <1>3 DEF FetchStatus, CallFork, SetDigest, EncodeStatus, Fetched
  <2>2. localStatus' = localStatus \/ localStatus' = [localStatus EXCEPT !.digest = digest[w]]
    BY <1>3 DEF FetchStatus, CallFork, SetDigest, EncodeStatus, Fetched
  <2>3. localStatus'.head = localStatus.head
    BY <1>1, <2>2 DEF Status
  <2> QED
    BY <2>1, <2>3 DEF svars, Shut, Unread, Decodable
<1>4. ASSUME NEW s \in Streams, Handler(s)
      PROVE  Shut' /\ localStatus'.head = localStatus.head
  <2>1. limit = 0 /\ (pc[s] = "free" \/ (pc[s] = "serve" /\ step[s] = "read" /\ ~Decodable(s)))
    BY DEF Shut, Unread
  <2>2. CASE BeforeServe(s)
    <3>1. UNCHANGED statusVars
      BY <2>2 DEF BeforeServe
    <3>2. CASE Open(s)
      <4>1. /\ pc' = [pc EXCEPT ![s] = "serve"] /\ UNCHANGED <<limit, reqLen, invalid>>
            /\ pc[s] = "free"
        BY <2>1, <3>2 DEF Open, Goto
      <4>2. step[s] = "read" /\ reqLen[s] < MinSize
        BY <4>1, StatusAssumption, SizeAssumption DEF StatusInv, Fresh
      <4>3. ~(reqLen[s] >= MinSize)
        BY <1>1, <4>2, SizeAssumption
      <4> QED
        BY <1>1, <3>1, <4>1, <4>2, <4>3 DEF statusVars, Shut, Unread, Decodable
    <3>3. CASE Expire(s)
      BY <3>1, <3>3 DEF Expire, statusVars, Shut, Unread, Decodable
    <3> QED
      BY <2>1, <2>2, <3>2, <3>3
      DEF BeforeServe, ReadSize, SizeFails, Local, Refuse, Accept, Grow, Store, Grant
  <2>3. CASE ServeFails(s)
    <3>1. /\ Return(s) /\ step' = [step EXCEPT ![s] = "read"] /\ localStatus' = localStatus
      BY <2>3 DEF ServeFails
    <3>2. /\ pc'[s] = "free" /\ limit' = limit
          /\ \A v \in Streams : v # s => /\ pc'[v] = pc[v] /\ step'[v] = step[v]
                                         /\ reqLen'[v] = reqLen[v] /\ invalid'[v] = invalid[v]
      BY <1>1, <3>1 DEF Return, Goto
    <3> QED
      BY <3>1, <3>2 DEF Shut, Unread, Decodable
  <2> QED
    BY <1>4, <2>1, <2>2, <2>3 DEF Handler, ReadStatus, Respond, Update, Compare, KeepLocal,
                                  AssignField, Updated
<1> QED
  BY <1>2, <1>3, <1>4 DEF XNext

(* A limit of zero shuts remote nodes out for good, whatever streams they  *)
(* open (handle_request.go, 51-54 and 73).                                 *)
THEOREM ShutForGood == XSpec => StaysShut
<1>1. StatusInv /\ [XNext]_xvars =>
        [Shut => Shut' /\ localStatus'.head = localStatus.head]_xvars
  BY ShutStep
<1> QED
  BY <1>1, StatusInvariant, PTL DEF XSpec, StaysShut

-----------------------------------------------------------------------------
(* The composition adds to a handler what its listener does, and nothing   *)
(* else to the streams: it implements RequestServer (host.go, 188-240;     *)
(* handle_request.go, 23-85).                                              *)
THEOREM ServesLikeRequestServer == XSpec => Spec
<1>1. XInit => Init
  BY DEF XInit
<1>2. XInit => RequestInv
  BY StatusInit DEF StatusInv
<1>3. RequestInv /\ [XNext]_xvars => [Next]_svars
  BY ServerStep
<1>4. RequestInv /\ [XNext]_xvars => RequestInv'
  BY <1>3, RequestStep
<1> QED
  BY <1>1, <1>2, <1>3, <1>4, PTL DEF XSpec, Spec
-----------------------------------------------------------------------------
(* What goes over a stream *)

(* snappy's bound holds for payloads of any length.                        *)
LEMMA FramedFits ==
  ASSUME NEW n \in Nat
  PROVE  /\ Framed(n) \in Nat /\ MaxEncoded(n) \in Nat
         /\ n <= Framed(n) /\ Framed(n) <= MaxEncoded(n)
<1> DEFINE blocks == (n + 65535) \div 65536
<1>1. blocks \in Nat /\ 65536 * blocks <= n + 65535
  OBVIOUS
<1>2. n \div 6 \in Nat /\ n <= 6 * (n \div 6) + 5
  OBVIOUS
<1> HIDE DEF blocks
<1>3. n = 0 \/ blocks >= 1 \/ blocks = 0
  BY <1>1
<1> QED
  BY <1>1, <1>2 DEF Framed, MaxEncoded, blocks

LEMMA ChunkFields ==
  ASSUME NEW code, NEW n
  PROVE  /\ Chunk(code, n).code = code /\ Chunk(code, n).size = n
         /\ Chunk(code, n).bytes = Framed(n)
BY DEF Chunk

(* A response of any length passes the limits of the side that reads it.   *)
LEMMA ResponseFits ==
  ASSUME NEW n \in Nat, NEW m, m.response = n
  PROVE  Readable(m, Chunk(SuccessCode, n))
<1>1. ChunkLimit(m, SuccessCode) = MaxEncoded(n)
  BY DEF ChunkLimit, SuccessCode, ErrorCodes, InvalidReqCode, ServerErrCode
<1>2. n <= MaxEncoded(n) /\ Framed(n) <= MaxEncoded(n)
  BY FramedFits
<1> QED
  BY <1>1, <1>2, ChunkFields DEF Readable, Accepted

LEMMA SmallFrames == Framed(84) = 102 /\ MaxEncoded(84) = 130
BY DEF Framed, MaxEncoded

LEMMA LimitsAlwaysAgree == LimitsAgree
<1>1. ASSUME NEW m \in Methods PROVE RequestRead(m, Request(m))
  <2>1. m.request \in {0, 8, 84}
    BY <1>1 DEF Methods, StatusRPCv1, PingRPCv1, MetaDataRPCv2
  <2>2. Request(m).size = m.request /\ Request(m).bytes = Framed(m.request)
    BY DEF Request
  <2>3. \A n \in Nat : Framed(n) <= MaxEncoded(n) /\ n <= MaxEncoded(n) /\ MaxEncoded(n) \in Nat
                       /\ Framed(n) \in Nat
    BY FramedFits
  <2>4. \A n \in Nat : MaxEncoded(n) <= MaxEncoded(MaxEncoded(n))
    BY <2>3
  <2>5. Framed(m.request) <= MaxEncoded(MaxEncoded(m.request))
    BY <2>1, <2>3, <2>4
  <2> QED
    BY <2>2, <2>5 DEF RequestRead
<1>2. ASSUME NEW n \in 0 .. MaxLen
      PROVE  Readable([request |-> 0, response |-> n], Chunk(SuccessCode, n))
  BY WireAssumption, ResponseFits
<1> QED
  BY <1>1, <1>2 DEF LimitsAgree

LEMMA NoStatusOfError ==
  ASSUME NEW chunk, chunk.code # SuccessCode
  PROVE  /\ FetchResult(chunk) # "status"
         /\ GivesNothing(StatusRPCv1, chunk) => FetchResult(chunk) = "none"
<1>1. ~GivesStatus(StatusRPCv1, chunk)
  BY DEF GivesStatus
<1> QED
  BY <1>1, Zenon DEF FetchResult

LEMMA ErrorsAlwaysArrive == ErrorsArrive
<1> SUFFICES ASSUME NEW code \in ErrorCodes, NEW n \in 0 .. MaxLen
             PROVE  /\ Accepted(StatusRPCv1, ErrorChunk(code, n))
                    /\ n <= MaxErrSize - 18 => FetchResult(ErrorChunk(code, n)) = "none"
  BY DEF ErrorsArrive
<1>1. n \in Nat
  BY WireAssumption
<1>2. PICK k \in 0 .. MaxErrSize : ErrorChunk(code, n) = Chunk(code, k) /\ (n <= MaxErrSize => k = n)
  BY <1>1 DEF ErrorChunk, MaxErrSize
<1>3. ChunkLimit(StatusRPCv1, code) = MaxErrSize
  BY DEF ChunkLimit
<1>4. Accepted(StatusRPCv1, Chunk(code, k))
  BY <1>3, ChunkFields DEF Accepted, MaxErrSize
<1>5. ASSUME n <= MaxErrSize - 18 PROVE FetchResult(Chunk(code, k)) = "none"
  <2>1. k = n /\ n <= 238
    BY <1>2, <1>5 DEF MaxErrSize
  <2>2. Framed(n) <= MaxErrSize
    BY <1>1, <2>1 DEF Framed, MaxErrSize
  <2>3. Readable(StatusRPCv1, Chunk(code, k))
    BY <1>3, <1>4, <2>1, <2>2, ChunkFields DEF Readable
  <2>4. GivesNothing(StatusRPCv1, Chunk(code, k))
    BY <2>3, ChunkFields DEF GivesNothing
  <2>5. Chunk(code, k).code # SuccessCode
    BY ChunkFields DEF SuccessCode, ErrorCodes, InvalidReqCode, ServerErrCode
  <2> QED
    BY <2>4, <2>5, NoStatusOfError
<1> QED
  BY <1>2, <1>4, <1>5

LEMMA StatusOfSuccess ==
  ASSUME NEW code \in Int, NEW n \in Nat, FetchResult(Chunk(code, n)) = "status"
  PROVE  code = SuccessCode /\ n >= 84
<1>1. GivesStatus(StatusRPCv1, Chunk(code, n))
  <2>1. SUFFICES ASSUME ~GivesStatus(StatusRPCv1, Chunk(code, n)) PROVE FALSE
    OBVIOUS
  <2> QED
    BY <2>1, Zenon DEF FetchResult
<1> QED
  BY <1>1, ChunkFields DEF GivesStatus, StatusRPCv1

LEMMA StatusAlwaysFromSuccess == StatusFromSuccess
<1>1. FetchResult(Chunk(SuccessCode, StatusRPCv1.response)) = "status"
  <2> DEFINE chunk == Chunk(SuccessCode, StatusRPCv1.response)
  <2>1. StatusRPCv1.response = 84
    BY DEF StatusRPCv1
  <2>2. chunk.code = SuccessCode /\ chunk.size = 84
    BY <2>1, ChunkFields
  <2>3. Readable(StatusRPCv1, chunk)
    BY <2>1, ResponseFits
  <2>4. GivesStatus(StatusRPCv1, chunk)
    BY <2>1, <2>2, <2>3 DEF GivesStatus
  <2>5. ~GivesNothing(StatusRPCv1, chunk)
    BY <2>2 DEF GivesNothing, EndOfStream, SuccessCode, ErrorCodes, InvalidReqCode, ServerErrCode
  <2> HIDE DEF chunk
  <2> QED
    BY <2>4, <2>5, Zenon DEF FetchResult, chunk
<1>2. \A code \in 0 .. 255, n \in {0, 1, 83, 84, 85, 129, 130, 131, 300} :
        FetchResult(Chunk(code, n)) = "status" => code = SuccessCode /\ n >= 84
  BY StatusOfSuccess
<1>3. FetchResult(EndOfStream) = "none"
  BY NoStatusOfError DEF EndOfStream, GivesNothing, SuccessCode
<1> QED
  BY <1>1, <1>2, <1>3 DEF StatusFromSuccess

(* The two sides of a stream agree on lengths and codes, for payloads of   *)
(* any length (rpc_method.go, 196-305; handle_request.go, 57-81;           *)
(* handle_response.go, 39-65).                                             *)
THEOREM SidesAlwaysAgree == XSpec => []SidesAgree
<1>1. SidesAgree
  BY LimitsAlwaysAgree, ErrorsAlwaysArrive, StatusAlwaysFromSuccess DEF SidesAgree
<1> QED
  BY <1>1, PTL
=============================================================================
