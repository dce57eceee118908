---------------------------- MODULE PeerTracker ----------------------------
(***************************************************************************)
(* What the crawler promises about the peers it keeps, without goroutines, *)
(* rounds or a store: a node it has discovered has a standing of ScoreGood *)
(* chances, a successful round restores all of them, a lost round costs    *)
(* one, and a node is forgotten when it has none left or when it refuses   *)
(* the security protocol (crawl.go, 276-323 and 340-357).  One node at a   *)
(* time, one chance at a time.                                             *)
(***************************************************************************)
EXTENDS Integers

CONSTANTS Peers, ScoreGood

VARIABLES
  standing,   \* chances left; 0: the node is not tracked
  lost        \* rounds lost, or ScoreGood of them at once by a refusal,
              \* since the node was discovered or last confirmed

TrackerVars == <<standing, lost>>

TrackerInit ==
  /\ standing = [p \in Peers |-> 0]
  /\ lost = [p \in Peers |-> 0]

Chances(p, n) == standing' = [standing EXCEPT ![p] = n]

(* A node not tracked is discovered.                                       *)
Track(p) ==
  /\ standing[p] = 0
  /\ Chances(p, ScoreGood)
  /\ lost' = [lost EXCEPT ![p] = 0]

(* A successful round is recorded.                                         *)
Confirm(p) ==
  /\ standing[p] > 0
  /\ Chances(p, ScoreGood)
  /\ lost' = [lost EXCEPT ![p] = 0]

(* A round is lost, or the node refuses: known before it is recorded.      *)
Lose(p) ==
  /\ standing[p] > 0
  /\ \E n \in {lost[p] + 1, ScoreGood} : n <= ScoreGood /\ lost' = [lost EXCEPT ![p] = n]
  /\ UNCHANGED standing

(* A lost round is recorded.                                               *)
Penalise(p) ==
  /\ standing[p] > 1
  /\ ScoreGood - (standing[p] - 1) <= lost[p]
  /\ Chances(p, standing[p] - 1)
  /\ UNCHANGED lost

(* The node is forgotten.                                                  *)
Drop(p) ==
  /\ standing[p] > 0
  /\ lost[p] = ScoreGood
  /\ Chances(p, 0)
  /\ UNCHANGED lost

TrackerNext ==
  \E p \in Peers : Track(p) \/ Confirm(p) \/ Lose(p) \/ Penalise(p) \/ Drop(p)

TrackerSpec == TrackerInit /\ [][TrackerNext]_TrackerVars
=============================================================================
