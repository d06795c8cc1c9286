-------------------------- MODULE CollectorGateway --------------------------
(***************************************************************************)
(* The platform's batches endpoint for one (collector, stream)             *)
(* (backend/app/services/collector_gateway.py, ingest_batch).  A request   *)
(* reads the committed sequence number, XADDs its batch, and commits its   *)
(* own number with a compare-and-set; requests of one collector overlap    *)
(* when a client gives up on one that the platform is still serving.       *)
(***************************************************************************)
EXTENDS Integers, Sequences

CONSTANTS
    Slots,       \* concurrent requests the platform may be serving
    Faults,      \* a subset of {"refuse", "die", "expire", "timeout"}
    MaxStream    \* bound: entries of the stream

ASSUME GatewayAssumption ==
    Faults \subseteq {"refuse", "die", "expire", "timeout"} /\ MaxStream \in Nat

VARIABLES
    reqs,        \* slot -> the request being served there
    lastSeq,     \* the dedup key in Redis; 0 when it does not exist
    stream       \* the entries XADDed to the stream

gatewayVars == <<reqs, lastSeq, stream>>

Stages == {"free", "new", "checked", "added"}
Free == [stage |-> "free", seq |-> 0, id |-> 0]
Requests == [stage : Stages, seq : Nat, id : Nat]

GatewayInit ==
    /\ reqs = [s \in Slots |-> Free]
    /\ lastSeq = 0
    /\ stream = <<>>

\* The POST reaches the platform.
Arrive(s, seq, id) ==
    /\ reqs[s].stage = "free"
    /\ reqs' = [reqs EXCEPT ![s] = [stage |-> "new", seq |-> seq, id |-> id]]
    /\ UNCHANGED <<lastSeq, stream>>

\* _already_seen
Seen(s) == lastSeq # 0 /\ reqs[s].seq <= lastSeq

\* A duplicate is answered as accepted.
Duplicate(s) ==
    /\ reqs[s].stage = "new" /\ Seen(s)
    /\ reqs' = [reqs EXCEPT ![s] = Free]
    /\ UNCHANGED <<lastSeq, stream>>

\* Mutant: the number is committed before the XADD it protects.
CheckCommits(s) ==
    /\ reqs[s].stage = "new" /\ ~Seen(s)
    /\ reqs' = [reqs EXCEPT ![s].stage = "checked"]
    /\ lastSeq' = reqs[s].seq
    /\ UNCHANGED stream

\* Not seen, under the high-water mark, decoded, version understood.
Check(s) ==
    /\ reqs[s].stage = "new" /\ ~Seen(s)
    /\ reqs' = [reqs EXCEPT ![s].stage = "checked"]
    /\ UNCHANGED <<lastSeq, stream>>

\* 429, 400 or 426.
Refuse(s) ==
    /\ "refuse" \in Faults
    /\ reqs[s].stage = "new" /\ ~Seen(s)
    /\ reqs' = [reqs EXCEPT ![s] = Free]
    /\ UNCHANGED <<lastSeq, stream>>

XAdd(s) ==
    /\ reqs[s].stage = "checked" /\ Len(stream) < MaxStream
    /\ reqs' = [reqs EXCEPT ![s].stage = "added"]
    /\ stream' = Append(stream, [seq |-> reqs[s].seq, id |-> reqs[s].id])
    /\ UNCHANGED lastSeq

\* Mutant: a plain SET.
SetSeq(seq) == lastSeq' = seq

\* _commit_seq: the Lua compare-and-set never moves the key backwards.
CommitSeq(seq) == lastSeq' = IF seq <= lastSeq THEN lastSeq ELSE seq

Commit(s) ==
    /\ reqs[s].stage = "added"
    /\ CommitSeq(reqs[s].seq)
    /\ reqs' = [reqs EXCEPT ![s] = Free]
    /\ UNCHANGED stream

\* The API process dies while serving the request.
Die(s) ==
    /\ "die" \in Faults /\ reqs[s].stage # "free"
    /\ reqs' = [reqs EXCEPT ![s] = Free]
    /\ UNCHANGED <<lastSeq, stream>>

\* DEDUP_TTL_S passes without a commit.
Expire ==
    /\ "expire" \in Faults /\ lastSeq # 0
    /\ lastSeq' = 0
    /\ UNCHANGED <<reqs, stream>>

-----------------------------------------------------------------------------
(* The endpoint under an arbitrary client: any sequence numbers, in any    *)
(* order, repeated, and as many at a time as there are slots.              *)

\* The values of X-DCIM-Spool-Seq a client sends.
SpoolSeqs == Nat \ {0}

GatewayNext ==
    \/ \E s \in Slots :
          \/ \E seq \in SpoolSeqs, id \in Nat : Arrive(s, seq, id)
          \/ Duplicate(s) \/ Check(s) \/ Refuse(s) \/ XAdd(s) \/ Commit(s)
          \/ Die(s)
    \/ Expire

GatewaySpec == GatewayInit /\ [][GatewayNext]_gatewayVars

-----------------------------------------------------------------------------
(* Properties of the endpoint, whatever its client sends.                  *)

GatewayTypeOK ==
    /\ reqs \in [Slots -> Requests]
    /\ lastSeq \in Nat
    /\ stream \in Seq([seq : Nat, id : Nat])

\* The number is committed after the XADD it protects: a retry is taken for
\* a duplicate only when a batch with the committed number is in the stream.
CommittedIsStored ==
    lastSeq # 0 => \E n \in 1 .. Len(stream) : stream[n].seq = lastSeq

\* A straggling older request never moves the committed number back (only
\* its expiry removes it).
SeqNeverRegresses == [][lastSeq' >= lastSeq \/ lastSeq' = 0]_gatewayVars

\* A client that sends one request at a time, whatever numbers it repeats,
\* gets each number into the stream at most once and in increasing order
\* (as long as the API does not die between XADD and commit, and the key
\* does not expire).
StoredOnce == \A m, n \in 1 .. Len(stream) : m < n => stream[m].seq < stream[n].seq
=============================================================================
