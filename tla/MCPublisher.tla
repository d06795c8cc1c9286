---------------------------- MODULE MCPublisher ----------------------------
(* Instances of Publisher for TLC; the bounds are in the .cfg files.       *)
EXTENDS Publisher
NoFaults == {}
AllFaults == {"refused", "lost"}
=============================================================================
