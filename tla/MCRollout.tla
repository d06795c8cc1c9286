----------------------------- MODULE MCRollout ------------------------------
(* One pool; every collector starts in it, on the old version.             *)
EXTENDS Rollout

MCEndpointPool   == [e \in Endpoints |-> "bms"]
MCEndpointSite   == [e \in Endpoints |-> "dc1"]
MCCollectorSites == [c \in Collectors |-> {}]
MCWeight         == [e \in Endpoints |-> [c \in Collectors |-> c]]
MCRolloutPools   == [r \in Rollouts |-> {"bms"}]
MCTargetOf       == [r \in Rollouts |-> "v2"]
=============================================================================
