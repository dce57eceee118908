--------------------------- MODULE NetworkConfig ---------------------------
(***************************************************************************)
(* The configuration of the crawler (utils/config/config.go): what Load    *)
(* makes of a file, how it fills the fork schedule from the network's      *)
(* specification, and the configurations kept in cmd/config.  A digest is  *)
(* a tuple, <<>> for the empty string: <<network, fork>> stands for the    *)
(* one computed by the fork decoder of a network.                          *)
(***************************************************************************)
EXTENDS Integers, Sequences

ForkNames == {"altair", "bell", "capella", "deneb", "electra"}

ForkEpochs(a, b, c, d, e) ==
  [altair |-> a, bell |-> b, capella |-> c, deneb |-> d, electra |-> e]

(* Mutant of SpecEpochs: one of the epochs set by hand is missing.         *)
MutSpecEpochs ==
  [mainnet |-> ForkEpochs(74240, 144896, 194048, 269568, 0),
   goerli  |-> ForkEpochs(36660, 112260, 162304, 500000, 0),
   holesky |-> ForkEpochs(0, 0, 256, 29696, 0)]

(* The fork epochs of the specifications a decoder exists for, after those *)
(* of mainnet have been set by hand.  The other two know no Electra: 0.    *)
SpecEpochs ==
  [mainnet |-> ForkEpochs(74240, 144896, 194048, 269568, 364032),
   goerli  |-> ForkEpochs(36660, 112260, 162304, 500000, 0),
   holesky |-> ForkEpochs(0, 0, 256, 29696, 0)]

HasDecoder(network) == network \in DOMAIN SpecEpochs

(* A fork of the file: [supported, digest, epoch].  Altair's default is    *)
(* taken when it is supported, those of later forks in any case.           *)
TakesDefault(cfg, f) == /\ cfg.fork[f].digest = <<>>
                        /\ f = "altair" => cfg.fork[f].supported

(* loadForkDefaults without a decoder: the default is a field of nil.      *)
MissesDecoder(cfg) == ~HasDecoder(cfg.network) /\ \E f \in ForkNames : TakesDefault(cfg, f)

WithDefaults(cfg) ==
  [f \in ForkNames |->
     IF TakesDefault(cfg, f)
     THEN [cfg.fork[f] EXCEPT !.digest = <<cfg.network, f>>, !.epoch = SpecEpochs[cfg.network][f]]
     ELSE cfg.fork[f]]

(* Load: the file may be unreadable, MONGODB_URI unset, the validators     *)
(* root no hexadecimal number; a section that is missing is a nil pointer. *)
Load(cfg, env) ==
  IF ~cfg.readable THEN "error"
  ELSE IF "database" \notin cfg.sections THEN "panic"
  ELSE IF ~env THEN "error"
  ELSE IF "crawler" \notin cfg.sections THEN "panic"
  ELSE IF ~cfg.root THEN "error"
  ELSE IF {"network", "fork"} \subseteq cfg.sections /\ ~MissesDecoder(cfg) THEN "ok"
  ELSE "panic"

AllSections == {"server", "database", "fileOutput", "crawler", "fork", "network"}

Unlisted == [supported |-> FALSE, digest |-> <<>>, epoch |-> 0]
Listed   == [Unlisted EXCEPT !.supported = TRUE]
Given(digest, epoch) == [supported |-> TRUE, digest |-> digest, epoch |-> epoch]

Forks5(c, d, e) ==
  [altair |-> Unlisted, bell |-> Unlisted, capella |-> c, deneb |-> d, electra |-> e]

File(network, fork) ==
  [readable |-> TRUE, sections |-> AllSections, root |-> TRUE, bootnodes |-> TRUE,
   kafka |-> FALSE, network |-> network, fork |-> fork]

(* cmd/config/config.dev.yaml, config.goerli.yaml, config.holesky.yaml and *)
(* config.local.yaml.                                                      *)
DevConfig     == File("mainnet", Forks5(Listed, Listed, Listed))
GoerliConfig  == File("goerli", Forks5(Listed, Listed, Unlisted))
HoleskyConfig == File("holesky", Forks5(Listed, Listed, Unlisted))
LocalConfig   == File("custom", Forks5(Given(<<"8c910628">>, 0), Given(<<"5af31293">>, 2), Unlisted))

(* The choice of getForkForEpoch among the forks of a loaded schedule.     *)
Tries == <<"electra", "deneb", "capella", "bell", "altair">>

Due(forks, epoch) == {i \in 1 .. 5 : forks[Tries[i]].supported /\ forks[Tries[i]].epoch <= epoch}

InForce(forks, epoch) ==
  IF Due(forks, epoch) = {} THEN "none"
  ELSE Tries[CHOOSE i \in Due(forks, epoch) : \A j \in Due(forks, epoch) : i <= j]

(* With each configuration that is kept for a public network, the fork in  *)
(* force at any epoch is the one that began last, and it has a digest: the *)
(* fixed order in which the forks are tried agrees with the epochs they    *)
(* were given by hand, by the network's specification or by the file       *)
(* (config.go, 172-214; fork.go, 75-90).                                   *)
ScheduleInOrder ==
  \A cfg \in {DevConfig, GoerliConfig, HoleskyConfig} :
    LET forks == WithDefaults(cfg)
        begin == {forks[f].epoch : f \in ForkNames}
    IN  \A epoch \in begin \cup {e - 1 : e \in begin \ {0}} :
          Due(forks, epoch) # {} =>
            LET f == InForce(forks, epoch)
            IN  /\ forks[f].digest # <<>>
                /\ \A i \in Due(forks, epoch) : forks[Tries[i]].epoch <= forks[f].epoch
=============================================================================
