------------------------------ MODULE MCIngest ------------------------------
(* Three readings of a counter that wraps at 16, a trap that two collectors    *)
(* received, and the state of one endpoint.                                   *)
EXTENDS Ingest
MCStream == [e \in Entries |-> CASE e \in {1, 3, 6} -> "telemetry"
                                 [] e \in {2, 4} -> "events" [] OTHER -> "endpointstate"]
MCTotal == [e \in Entries |-> CASE e < 3 -> 10 [] e \in 3..5 -> 13 [] OTHER -> 17]
MCDedupKey == [e \in Entries |-> "trap"]
=============================================================================
