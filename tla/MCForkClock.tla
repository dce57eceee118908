---------------------------- MODULE MCForkClock ----------------------------
(***************************************************************************)
(* Small instances of ForkClock for TLC: the last fork is not supported    *)
(* yet and two forks begin together, as they do on test networks.          *)
(***************************************************************************)
EXTENDS ForkClock

ForkSchedule ==
  <<[epoch |-> 3, digest |-> "deneb",     supported |-> TRUE],
    [epoch |-> 2, digest |-> "capella",   supported |-> FALSE],
    [epoch |-> 1, digest |-> "bellatrix", supported |-> TRUE],
    [epoch |-> 1, digest |-> "altair",    supported |-> TRUE]>>

MCShifts == {-4, 0, 4}
=============================================================================
