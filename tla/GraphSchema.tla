---------------------------- MODULE GraphSchema ----------------------------
(***************************************************************************)
(* The types of the GraphQL API as the generated code executes them        *)
(* (graph/generated/generated.go): the fields of every object type with    *)
(* their scalar or, in a set, the type of the elements of their list, and  *)
(* the fields of Query with the shape of what they return.  Every field is *)
(* non-null but the two of the introspection.                              *)
(***************************************************************************)
EXTENDS Integers, FiniteSets

AggregateData == [name |-> "String", count |-> "Int"]

ClientVersionAggregation == [client |-> "String", count |-> "Int", versions |-> "List"]

HeatmapData ==
  [networkType |-> "String", clientType |-> "String", syncStatus |-> "String",
   latitude |-> "Float", longitude |-> "Float", city |-> "String", country |-> "String"]

NextHardforkAggregation == [version |-> "String", epoch |-> "String", count |-> "Int"]

NodeStats ==
  [totalNodes |-> "Int", nodeSyncedPercentage |-> "Float", nodeUnsyncedPercentage |-> "Float"]

NodeStatsOverTime ==
  [time |-> "Float", totalNodes |-> "Int", syncedNodes |-> "Int", unsyncedNodes |-> "Int"]

RegionalStats ==
  [totalParticipatingCountries |-> "Int", hostedNodePercentage |-> "Float",
   nonhostedNodePercentage |-> "Float"]
-----------------------------------------------------------------------------
ListOf(type)   == [shape |-> "list", type |-> type]
ObjectOf(type) == [shape |-> "object", type |-> type]
Scalar         == [shape |-> "float"]
Nullable       == [shape |-> "schema"]

aggregateByAgentName        == ListOf(AggregateData)
aggregateByCountry          == ListOf(AggregateData)
aggregateByOperatingSystem  == ListOf(AggregateData)
aggregateByNetwork          == ListOf(AggregateData)
aggregateByHardforkSchedule == ListOf(NextHardforkAggregation)
aggregateByClientVersion    == ListOf(ClientVersionAggregation)
getHeatmapData              == ListOf(HeatmapData)
getNodeStats                == ObjectOf(NodeStats)
getNodeStatsOverTime        == ListOf(NodeStatsOverTime)
getRegionalStats            == ObjectOf(RegionalStats)
getAltairUpgradePercentage  == Scalar
__type                      == Nullable
__schema                    == Nullable

Query ==
  [aggregateByAgentName        |-> aggregateByAgentName,
   aggregateByCountry          |-> aggregateByCountry,
   aggregateByOperatingSystem  |-> aggregateByOperatingSystem,
   aggregateByNetwork          |-> aggregateByNetwork,
   aggregateByHardforkSchedule |-> aggregateByHardforkSchedule,
   aggregateByClientVersion    |-> aggregateByClientVersion,
   getHeatmapData              |-> getHeatmapData,
   getNodeStats                |-> getNodeStats,
   getNodeStatsOverTime        |-> getNodeStatsOverTime,
   getRegionalStats            |-> getRegionalStats,
   getAltairUpgradePercentage  |-> getAltairUpgradePercentage,
   __type                      |-> __type,
   __schema                    |-> __schema]
-----------------------------------------------------------------------------
(* Objects are written field by field; the only list among the fields is   *)
(* one of AggregateData.                                                   *)
Fields(type, object) == [f \in DOMAIN type |-> object[f]]
Written(type, object) ==
  LET fields == Fields(type, object)
  IN  IF "versions" \in DOMAIN type
      THEN [fields EXCEPT !.versions = [k \in DOMAIN @ |-> Fields(AggregateData, @[k])]]
      ELSE fields

(* A float that is not a number is noticed only when the response is       *)
(* written: null is written for it and an error is added, and nothing      *)
(* around it becomes null.                                                 *)
NullFloat(float) == float.den = 0
HasNull(type, object) == \E f \in DOMAIN type : type[f] = "Float" /\ NullFloat(object[f])
=============================================================================
