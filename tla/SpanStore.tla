----------------------------- MODULE SpanStore -----------------------------
(***************************************************************************)
(* What an OTLP ingest endpoint promises a client: a batch is stored whole *)
(* or not at all, at one instant between the request and its answer, and   *)
(* nothing that was stored ever goes away.                                 *)
(***************************************************************************)
CONSTANTS Requests, BatchItems  \* BatchItems[r]: what request r carries

VARIABLES stored, status

Statuses == {"idle", "busy", "stored", "ok", "rejected", "failed", "lost"}

Init == stored = {} /\ status = [r \in Requests |-> "idle"]

Become(r, from, to) == status[r] \in from /\ status' = [status EXCEPT ![r] = to]

Receive(r) == Become(r, {"idle", "failed", "lost"}, "busy") /\ UNCHANGED stored

Accept(r) == /\ Become(r, {"busy"}, "stored")
             /\ stored' = stored \cup BatchItems[r]

\* An answer other than success leaves no trace of the batch.
Decline(r) == /\ \E answer \in {"rejected", "failed"} : Become(r, {"busy"}, answer)
              /\ UNCHANGED stored

Answer(r) == /\ \E outcome \in {"ok", "lost"} : Become(r, {"stored"}, outcome)
             /\ UNCHANGED stored

\* The server dies: whoever was waiting does not learn how it ended.
Crash == /\ status' = [r \in Requests |->
               IF status[r] \in {"busy", "stored"} THEN "lost" ELSE status[r]]
         /\ UNCHANGED stored

Next == \/ \E r \in Requests : Receive(r) \/ Accept(r) \/ Decline(r) \/ Answer(r)
        \/ Crash

Spec == Init /\ [][Next]_<<stored, status>>
=============================================================================
