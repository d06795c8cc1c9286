---------------------------- MODULE MCScheduler ----------------------------
(* Instances of Scheduler for TLC; the other bounds are in the .cfg files. *)
EXTENDS Scheduler, TLC
CONSTANTS e1, e2, e3, t1, t2, j1, j2, j3

OneEndpoint == {e1}
ThreeEndpoints == {e1, e2, e3}
JobSymmetry == Permutations(JobIds)

NoLimit  == [e \in Endpoints |-> 0]
OneEach  == [e \in Endpoints |-> 1]
HalfSecond == [e \in Endpoints |-> 1]
=============================================================================
