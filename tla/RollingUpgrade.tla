--------------------------- MODULE RollingUpgrade ---------------------------
(* What a rolling upgrade promises the pool it upgrades: members leave     *)
(* service, are upgraded and come back one at a time.                      *)
CONSTANT Members
VARIABLE phase       \* "in" service, handed "out", or "upgrading"

AllIn(S) == \A m \in S : phase[m] = "in"

Init == phase = [m \in Members |-> "in"]

(* A member is taken out, or upgraded where it stands, only while every    *)
(* other one is in service.                                                *)
Take(m, p) == /\ phase[m] = "in" /\ p # "in"
              /\ AllIn(Members \ {m})
              /\ phase' = [phase EXCEPT ![m] = p]

Upgrade(m) == /\ phase[m] = "out"
              /\ AllIn(Members \ {m})
              /\ phase' = [phase EXCEPT ![m] = "upgrading"]

Finish(m)  == /\ phase[m] = "upgrading"
              /\ \E p \in {"in", "out"} : phase' = [phase EXCEPT ![m] = p]

PutBack(m) == /\ phase[m] = "out"
              /\ phase' = [phase EXCEPT ![m] = "in"]

Next == \E m \in Members : \/ \E p \in {"out", "upgrading"} : Take(m, p)
                           \/ Upgrade(m) \/ Finish(m) \/ PutBack(m)

Spec == Init /\ [][Next]_phase
=============================================================================
