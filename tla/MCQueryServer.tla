--------------------------- MODULE MCQueryServer ---------------------------
(* Two peers, one of them located by an earlier release and on the map, and *)
(* requests of two fields.                                                  *)
EXTENDS StoredRecords

(* The pure helpers of the resolvers agree with their definitions.         *)
ASSUME HelpersCorrect == SortsByCount /\ AltairFromReleaseOn

Prysm   == [name |-> "prysm", version |-> <<2, 0, 0>>, os |-> "unknown"]
Teku(n) == [name |-> "teku", version |-> <<21, 9, n>>, os |-> "linux"]
MCAgents == [p1 |-> {Prysm, Teku(1)}, p2 |-> {Teku(1), Teku(2)}]

Located(id) ==
  [id |-> id, connectable |-> FALSE, digest |-> "d1", agent |-> NoAgent, sync |-> "none",
   geo |-> [country |-> "CA", usage |-> "hosting", located |-> TRUE], next |-> <<"v", 1>>]
Told(id) ==
  [id |-> id, connectable |-> TRUE, digest |-> "d1", sync |-> "synced", geo |-> NoGeo,
   agent |-> Teku(1), next |-> <<"v", 2>>]

MCWindow == <<0, 2>>
MCInitialDocs == {{Located("p1"), Told("p2")}}

Pairs == {<<"aggregateByAgentName", "aggregateByClientVersion">>,
          <<"aggregateByCountry", "getRegionalStats">>,
          <<"aggregateByNetwork", "aggregateByOperatingSystem">>,
          <<"getHeatmapData", "aggregateByHardforkSchedule">>,
          <<"getNodeStatsOverTime", "getNodeStats">>,
          <<"getAltairUpgradePercentage", "__type">>,
          <<"getNodeStats", "__schema">>}
FilterPairs == {<<"none", "d1">>, <<"short", "odd">>}
MCRequests ==
  {[f \in {pair[1], pair[2]} |-> IF f = pair[1] THEN filters[1] ELSE filters[2]] :
     pair \in Pairs, filters \in FilterPairs}
=============================================================================
