-------------------------- MODULE MCStatusExchange --------------------------
(***************************************************************************)
(* An instance of StatusExchange: two forks, and remote nodes on a fork of *)
(* their own whose head slots differ.                                      *)
(***************************************************************************)
EXTENDS StatusExchange

MCDigests == <<"capella", "deneb">>
MCRemoteStatuses == [digest : {"other"}, head : {1, 2}]
=============================================================================
