----------------------------- MODULE FifoService -----------------------------
(***************************************************************************)
(* What the rest of the server relies on when it hands a DBRequest to the  *)
(* DatabaseWorker: one request at a time, in the order of Enqueue, each    *)
(* either completed or dropped, and a request that asked for a callback    *)
(* offered to the main thread after it completed.  After a stop the        *)
(* backlog is still served before the service is down.                     *)
(***************************************************************************)
EXTENDS Naturals, Sequences

CONSTANTS Requests,      \* identities of the DBRequests
          FireAndForget  \* the requests whose m_fireAndForget flag is set

VARIABLES pending,  \* requests accepted and not finished, oldest first
          served,   \* requests finished, with their outcome, in order
          ready,    \* completed requests whose callback has not been run
          handled,  \* requests whose callback was run, in order
          phase     \* "up", "stopping" or "down"

vars == <<pending, served, ready, handled, phase>>

Outcomes == {"done", "dropped"}

Init == /\ pending = <<>>
        /\ served = <<>>
        /\ ready = <<>>
        /\ handled = <<>>
        /\ phase = "down"

Open == /\ phase = "down"
        /\ phase' = "up"
        /\ UNCHANGED <<pending, served, ready, handled>>

Submit(r) == /\ phase = "up"
             /\ pending' = Append(pending, r)
             /\ UNCHANGED <<served, ready, handled, phase>>

\* The oldest request finishes.  Only a completed request that is not
\* fire-and-forget is offered to the main thread.
Finish(outcome) ==
  /\ pending # <<>>
  /\ pending' = Tail(pending)
  /\ served' = Append(served, [req |-> Head(pending), outcome |-> outcome])
  /\ ready' = IF outcome = "done" /\ Head(pending) \notin FireAndForget
              THEN Append(ready, Head(pending)) ELSE ready
  /\ UNCHANGED <<handled, phase>>

Collect == /\ handled' = handled \o ready
           /\ ready' = <<>>
           /\ UNCHANGED <<pending, served, phase>>

Stop == /\ phase = "up"
        /\ phase' = "stopping"
        /\ UNCHANGED <<pending, served, ready, handled>>

\* The stop completes only once the backlog is empty; a stop made by a
\* second start opens the service again at once.
Down == /\ phase = "stopping"
        /\ pending = <<>>
        /\ phase' \in {"down", "up"}
        /\ UNCHANGED <<pending, served, ready, handled>>

Next == \/ Open
        \/ \E r \in Requests : Submit(r)
        \/ \E outcome \in Outcomes : Finish(outcome)
        \/ Collect
        \/ Stop
        \/ Down

Fairness == /\ WF_vars(\E outcome \in Outcomes : Finish(outcome))
            /\ WF_vars(Down)

SafeSpec == Init /\ [][Next]_vars

Spec == SafeSpec /\ Fairness
==============================================================================
