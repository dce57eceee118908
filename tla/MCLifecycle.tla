---------------------------- MODULE MCLifecycle ----------------------------
(***************************************************************************)
(* The process started with a configuration that is kept and Kafka, with a *)
(* bad boot node, without a section, and with a network nobody knows.      *)
(***************************************************************************)
EXTENDS Lifecycle

MCConfigs ==
  {[HoleskyConfig EXCEPT !.kafka = TRUE],
   [DevConfig EXCEPT !.bootnodes = FALSE],
   [File("sepolia", [f \in ForkNames |-> Given(<<"d">>, 0)]) EXCEPT !.kafka = TRUE],
   [DevConfig EXCEPT !.sections = @ \ {"server"}]}

MCLocal == {LocalConfig}
=============================================================================
