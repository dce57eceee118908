---------------------------- MODULE NodeRecord ----------------------------
(***************************************************************************)
(* What becomes of a node of the network: its record as discovery finds it *)
(* (crawler/util/util.go), the peer that is stored for it and the setters  *)
(* that a successful round applies (models/peer.go).  A node is            *)
(*   [tcp, udp : Nat, ip : "none" | "v4" | "v6", eth2 : a digest or        *)
(*    "absent" or "bad", attnets : BOOLEAN].                               *)
(***************************************************************************)
EXTENDS Integers, Sequences

CONSTANTS
  EnrDigests,      \* fork digests
  IntBits,      \* the width of int64, scaled down
  Threshold     \* blockIgnoreThreshold

ASSUME NodeAssumption == IntBits \in Nat \ {0} /\ Threshold \in Nat

(* ParseEnrEth2Data, and the filters of storePeer: a TCP port, and the     *)
(* digest in force.                                                        *)
Eth2Digest(node) == IF node.eth2 \in EnrDigests THEN {node.eth2} ELSE {}
Considered(node, digest) == node.tcp # 0 /\ digest \in Eth2Digest(node)

(* EnodeToMultiAddr and AddrsFromEnode: one address for each transport, or *)
(* none at all when the node has no IP address and they cannot be written. *)
AddrsFromEnode(node) ==
  IF node.ip = "none" THEN <<>>
  ELSE <<[ip |-> node.ip, transport |-> "tcp", port |-> node.tcp],
         [ip |-> node.ip, transport |-> "udp", port |-> node.udp]>>

(* models.NewPeer: no peer when there are no addresses.  Attnets that do   *)
(* not parse are the empty ones.                                           *)
PeerOf(node, digest) ==
  IF AddrsFromEnode(node) = <<>> THEN {}
  ELSE {[addrs |-> AddrsFromEnode(node), digest |-> digest, attnets |-> node.attnets,
         connectable |-> FALSE, sync |-> "none", agent |-> <<>>]}

(* storePeer: at most one peer for a node.                                 *)
StoredPeers(node, digest) == IF Considered(node, digest) THEN PeerOf(node, digest) ELSE {}

(* GetPeerInfo parses the addresses it finds.                              *)
DialAddrs(peer) == {peer.addrs[i] : i \in DOMAIN peer.addrs}
-----------------------------------------------------------------------------
(* SetUserAgent.  The agent is split at "/" into parts; a part is the      *)
(* sequence of its pieces, a piece "-" or "+" beginning a suffix.          *)

(* The names, and what each may be called.                                 *)
Clients ==
  [prysm |-> {"prysm"}, lighthouse |-> {"lighthouse"}, teku |-> {"teku"},
   cortex |-> {"cortex"}, lodestar |-> {"lodestar", "js-libp2p"}, nimbus |-> {"nimbus"},
   trinity |-> {"trinity"}, grandine |-> {"grandine", "rust-libp2p"}]

(* The map is walked in any order, up to the first name that the whole     *)
(* first part is equal to.                                                 *)
NamesFor(part) ==
  LET found == {name \in DOMAIN Clients : \E identity \in Clients[name] : part = <<identity>>}
  IN  IF found = {} THEN {"others"} ELSE found

Part(parts, i) == IF i <= Len(parts) THEN parts[i] ELSE <<>>
VersionPart(name) == IF name = "teku" THEN 3 ELSE 2

(* Prysm tells no OS.                                                      *)
OSParts(name, parts) ==
  IF name = "prysm" THEN <<>> ELSE Part(parts, IF name = "teku" THEN 4 ELSE 3)

(* What precedes the first suffix.                                         *)
Standard(part) ==
  LET cuts == {i \in DOMAIN part : part[i] \in {"-", "+"}}
      n == IF cuts = {} THEN Len(part) ELSE (CHOOSE i \in cuts : \A j \in cuts : i <= j) - 1
  IN  SubSeq(part, 1, n)

ValidOS == <<"linux", "mac", "windows">>

(* The last of the known systems that the part contains.                   *)
OSOf(part) ==
  LET found == {i \in 1 .. 3 : \E j \in DOMAIN part : part[j] = ValidOS[i]}
  IN  IF found = {} THEN "unknown" ELSE ValidOS[CHOOSE i \in found : \A j \in found : j <= i]

UserAgents(parts) ==
  {[name |-> name,
    version |-> LET v == Standard(Part(parts, VersionPart(name)))
                IN  IF v = <<>> THEN <<"unknown">> ELSE v,
    os |-> OSOf(OSParts(name, parts))] : name \in NamesFor(parts[1])}
-----------------------------------------------------------------------------
(* SetSyncStatus on int64: cb is the slot of the clock, reckoned from the  *)
(* genesis of mainnet, block the head slot that the node told.             *)
Wrap(n) == ((n + 2 ^ (IntBits - 1)) % 2 ^ IntBits) - 2 ^ (IntBits - 1)

(* CurrentBlock: 12-second slots since the start of mainnet, time 0 here.  *)
CurrentBlock(time) == time \div 12

(* Go's division rounds to zero.                                           *)
Quotient(a, b) == IF a < 0 THEN -((-a) \div b) ELSE a \div b

(* Mutant of SyncOf: the distance is reckoned on the block.                *)
MutSyncOf(cb, block) ==
  IF Wrap(cb - block) <= Threshold
  THEN [status |-> TRUE, distance |-> 0]
  ELSE [status |-> FALSE, distance |-> Quotient(Wrap(Wrap(cb - block) * 100), block + 1)]

SyncOf(cb, block) ==
  IF Wrap(cb - block) <= Threshold
  THEN [status |-> TRUE, distance |-> 0]
  ELSE [status |-> FALSE, distance |-> Quotient(Wrap(Wrap(cb - block) * 100), cb)]
-----------------------------------------------------------------------------
(* Epoch in the store: an unsigned number as hexadecimal digits.           *)
Digits(n) == CHOOSE k \in 1 .. IntBits : 16 ^ k > n /\ (k > 1 => 16 ^ (k - 1) <= n)
ToHex(n)  == [i \in 1 .. Digits(n) |-> (n \div 16 ^ (Digits(n) - i)) % 16]

(* ParseUint; a number too large for the type is an error, here -1.        *)
FromHex(s) ==
  LET value[i \in 0 .. Len(s)] == IF i = 0 THEN 0 ELSE 16 * value[i - 1] + s[i]
  IN  IF value[Len(s)] < 2 ^ IntBits THEN value[Len(s)] ELSE -1
-----------------------------------------------------------------------------
Nodes == [tcp : {0, 9000}, udp : {0, 9000}, ip : {"none", "v4", "v6"},
          eth2 : EnrDigests \cup {"absent", "bad"}, attnets : BOOLEAN]

(* A peer that is stored can be dialled: among the addresses that          *)
(* GetPeerInfo parses back there is one over TCP, on a port (crawl.go,     *)
(* 176-183; util.go, 22-76; peer.go, 185-193).                             *)
AllDialled ==
  \A node \in Nodes : \A digest \in EnrDigests : \A peer \in StoredPeers(node, digest) :
    /\ \E addr \in DialAddrs(peer) : addr.transport = "tcp" /\ addr.port # 0
    /\ peer.digest = digest /\ node.eth2 = digest

(* Agents of up to three parts.                                            *)
Pieces == {"prysm", "teku", "rust-libp2p", "v1", "-", "linux"}
SampleParts == {<<>>} \cup [1 .. 1 -> Pieces] \cup [1 .. 2 -> {"v1", "-", "linux"}]
SampleAgents == UNION {[1 .. n -> SampleParts] : n \in 1 .. 3}

(* Whatever a node calls itself, the order in which Go walks the map of    *)
(* clients does not matter, and neither a version nor an OS is taken from  *)
(* a suffix or from what is not there (peer.go, 231-285).                  *)
Definite(parts) ==
  /\ \E agent \in UserAgents(parts) : UserAgents(parts) = {agent}
  /\ \A agent \in UserAgents(parts) :
       /\ agent.name = "prysm" => agent.os = "unknown"
       /\ agent.version # <<"unknown">> =>
            \E i \in 2 .. Len(parts) : \E n \in DOMAIN parts[i] : agent.version = SubSeq(parts[i], 1, n)
       /\ \A i \in DOMAIN agent.version : agent.version[i] \notin {"-", "+"}

AgentDefinite == \A parts \in SampleAgents : Definite(parts)

(* While a hundred times the slot is in int64, a peer is synced when it is *)
(* at most the threshold behind, the distance of the others is a           *)
(* percentage, and a peer that is further behind never looks closer        *)
(* (peer.go, 296-309).                                                     *)
Clocks == {CurrentBlock(time) : time \in 12 .. 251}
HeadSlots == 0 .. 40
Honest(cb, block) ==
  /\ SyncOf(cb, block).status <=> block >= cb - Threshold
  /\ SyncOf(cb, block).distance \in 0 .. 100
  /\ block > 0 => SyncOf(cb, block - 1).distance >= SyncOf(cb, block).distance

DistanceHonest ==
  \A cb \in {c \in Clocks : 100 * c < 2 ^ (IntBits - 1)} : \A block \in HeadSlots : Honest(cb, block)

(* Every epoch comes back from the store as it went there, the largest one *)
(* too, which stands for a fork that is not planned and which no signed    *)
(* number of the same width holds (marshallable_epoch.go, 15-47).          *)
Epochs == {n \in 0 .. 300 : n < 2 ^ IntBits} \cup {2 ^ IntBits - 1}
EpochSurvives == \A n \in Epochs : FromHex(ToHex(n)) = n
=============================================================================
