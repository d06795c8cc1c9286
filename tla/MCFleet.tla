------------------------------ MODULE MCFleet -------------------------------
(* Two members of one HA pool and a third collector that arrives later;    *)
(* two pooled endpoints, one per preferred member, and one endpoint        *)
(* outside any pool.                                                       *)
EXTENDS Fleet

MCEndpointPool   == [e \in Endpoints |-> IF e = "loose" THEN None ELSE "bms"]
MCEndpointSite   == [e \in Endpoints |-> "dc1"]
MCCollectorSites == [c \in Collectors |-> {}]
MCWeight         == [e \in Endpoints |->
                       [c \in Collectors |-> IF e = "e1" THEN c ELSE 10 - c]]
=============================================================================
