----------------------------- MODULE MCCrawler -----------------------------
(***************************************************************************)
(* Small instances of the crawler for TLC.  Peers and workers are sets of  *)
(* model values that nothing but equality tells apart.                     *)
(***************************************************************************)
EXTENDS CrawlerProperties, TLC

Symmetry == Permutations(Peers) \cup Permutations(Workers)
=============================================================================
