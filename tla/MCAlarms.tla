------------------------------ MODULE MCAlarms ------------------------------
(* One rack: a server on one PDU, a switch port facing it, and the server's   *)
(* CPU temperature in two bands.                                              *)
EXTENDS Alarms

MCDeviceOf == [k \in Keys |->
    CASE k \in {"trip", "pdu"} -> "PDU" [] k \in {"port", "oob"} -> "switch"
      [] OTHER -> "server"]
MCKind == [k \in Keys |->
    CASE k = "trip" -> "trip" [] k \in {"pdu", "srv", "oob"} -> "silent"
      [] k \in {"port", "nic"} -> "link" [] k = "boot" -> "restart"
      [] k = "flap" -> "flap" [] k = "stale" -> "stale" [] OTHER -> "measure"]
Says(pairs) == {[sev |-> p[1], src |-> p[2]] : p \in pairs}
MCReports == [k \in Keys |->
    CASE k = "hot" -> Says({<<1, "rule">>, <<3, "trap">>})
      [] k = "hotter" -> Says({<<3, "rule">>})
      [] k = "nic" -> Says({<<2, "trap">>, <<3, "rule">>})
      [] MCKind[k] = "silent" -> Says({<<2, "comm">>})
      [] OTHER -> Says({<<2, "trap">>})]
MCFeeds == [x \in Devices |-> IF x = "server" /\ "PDU" \in Devices THEN {{"PDU"}} ELSE {}]
MCCarriers == [x \in Devices |-> IF x = "server" /\ "switch" \in Devices THEN {"switch"} ELSE {}]
MCPeer == [k \in Keys |->
    CASE k = "port" /\ "nic" \in Keys -> "nic" [] k = "nic" /\ "port" \in Keys -> "port"
      [] OTHER -> None]
MCHigher == [k \in Keys |-> IF k = "hot" THEN {"hotter"} \cap Keys ELSE {}]
MCParts == [k \in Keys |-> IF k = "hot" THEN {"hotcpu"} \cap Keys ELSE {}]
MCAll == [w \in Windows |-> TRUE]
MCGated == [w \in Windows |-> w = "gated"]
MCTargets == [w \in Windows |-> {"server"}]

(* Several estates, of which Init picks one: in the wide one many detectors    *)
(* speak and nobody touches anything; in two operators act on few alarms,     *)
(* which in the smaller they acknowledge as well; one comes back after a trip; *)
(* in one a switch is silent; one has a measurement with a part named.        *)
CONSTANT Estates
VARIABLE estate
Wide == [keys |-> {"trip", "port", "nic", "hot"} \cap Keys, windows |-> {"w1"},
         asked |-> FALSE]
Asked == [keys |-> {"trip", "srv", "port"} \cap Keys, windows |-> {"gated"}, asked |-> TRUE]
Acked == [keys |-> {"trip", "srv"} \cap Keys, windows |-> {"gated"}, asked |-> TRUE]
Back == [keys |-> {"trip", "stale", "boot", "flap"} \cap Keys, windows |-> {}, asked |-> FALSE]
(* The PDU is polled through a switch that it feeds. *)
RingFeeds == [x \in Devices |-> IF x = "switch" THEN {{"PDU"}} ELSE {}]
RingCarriers == [x \in Devices |-> IF x = "PDU" THEN {"switch"} ELSE {}]
Ring == [keys |-> {"trip", "pdu", "oob"} \cap Keys, windows |-> {}, asked |-> FALSE]
RingOnly == {Ring}
(* The server is polled through a switch that may go silent, too. *)
Watched == [keys |-> {"trip", "srv", "oob"} \cap Keys, windows |-> {}, asked |-> FALSE]
Parted == [keys |-> {"hot", "hotter", "hotcpu"} \cap Keys, windows |-> {}, asked |-> FALSE]
All == {Wide, Asked, Acked, Back, Watched, Parted}
WideOnly == {Wide}
InEstate(d) ==
    /\ \A k \in Keys \ estate.keys : d.row[k] = Blank
    /\ \A w \in Windows \ estate.windows : d.win[w] = "scheduled" /\ d.approval[w] = "pending"
    /\ estate = Acked \/ \A k \in Keys : d.row[k].st # "ACKNOWLEDGED"
    /\ \/ estate.asked
       \/ d.targets = FirstTargets /\ \A x \in Devices : d.life[x] = "in_service"
MCInit == Init /\ estate \in Estates
StaysInEstate ==
    UNCHANGED estate /\ \A s \in Sessions : txn'[s].busy => InEstate(txn'[s].to)
MCNext ==
    \E s \in Sessions :
        \/ (\E k \in Keys : HandleEvent(s, k)) /\ StaysInEstate
        \/ (\E dev \in Devices : ClearAlarm(s, dev)) /\ StaysInEstate
        \/ (\E k \in Keys : EndpointOffline(s, k)) /\ StaysInEstate
        \/ (\E k \in Keys : Acknowledge(s, k)) /\ StaysInEstate
        \/ (\E w \in Windows : StartWindow(s, w)) /\ StaysInEstate
        \/ (\E w \in Windows : EndWindow(s, w)) /\ StaysInEstate
        \/ (\E w \in Windows : ApplyApproval(s, w)) /\ StaysInEstate
        \/ (\E w \in Windows : Retarget(s, w)) /\ StaysInEstate
        \/ (\E dev \in Devices : ChangeLifecycle(s, dev)) /\ StaysInEstate
        \/ SweepAlarms(s) /\ StaysInEstate
        \/ Commit(s) /\ StaysInEstate
        \/ Rollback(s) /\ StaysInEstate
        \/ (\E k \in Keys : TimePasses(k)) /\ StaysInEstate
MCSpec == MCInit /\ [][MCNext]_<<vars, estate>> /\ Fairness
=============================================================================
