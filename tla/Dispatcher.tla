----------------------------- MODULE Dispatcher -----------------------------
(***************************************************************************)
(* Dispatcher::Submit, run by the worker of a context on one frame at a     *)
(* time, and the two pieces of state other threads share with it: the       *)
(* outbound queue and the set of cancelled ids, each behind its own mutex.  *)
(* A step below is what Submit does between two of those locks.  A request  *)
(* is its id: clients never use an id twice (FrameSession.NextId).          *)
(***************************************************************************)
EXTENDS Naturals, Sequences

CONSTANTS
  Requests,    \* the frames a client may send
  Kind,        \* what a frame asks for
  TargetOf,    \* body.targetId of a "cancel"
  MaxEmitted,   \* most events a streaming handler emits
  None

ASSUME DispatcherAssumption ==
  /\ Kind \in [Requests -> {"hello", "other", "unknown", "cancel", "solve", "stream"}]
  /\ TargetOf \in [{r \in Requests : Kind[r] = "cancel"} -> Requests]
  /\ MaxEmitted \in Nat
  /\ None \notin Requests

VARIABLES
  helloSeen,   \* Context::helloSeen
  cancelled,   \* Context::cancelled
  outbound,    \* Dispatcher::outbound_
  worker,      \* where the worker is
  job,         \* the frame it works on
  answer,      \* what the handler returned
  emitted      \* events the handler has emitted

dispatcherVars == <<helloSeen, cancelled, outbound, worker, job, answer, emitted>>

Bodies == {"hello", "event", "response", "PROTOCOL", "UNSUPPORTED_METHOD", "CANCELLED"}
Frame(r, body) == [req |-> r, body |-> body, last |-> body # "event"]

\* The methods a handler is registered for: solve.dyn_collapse streams and
\* polls for its cancellation, the other analyses do neither.
Handled == {"cancel", "solve", "stream"}

\* The final frame of the job, which Submit then leaves behind.
Reply(body) ==
  /\ outbound' = Append(outbound, Frame(job, body))
  /\ worker' = "notify" /\ job' = None /\ answer' = None /\ emitted' = 0

\* HandleHello.
Greet ==
  /\ Kind[job] = "hello"
  /\ helloSeen' = TRUE
  /\ Reply("hello")
  /\ UNCHANGED cancelled

\* The handshake comes first, only requests are dispatched, and only to methods
\* that have a handler.
RefuseFrame ==
  /\ Kind[job] # "hello"
  /\ \/ (~helloSeen \/ Kind[job] = "other") /\ Reply("PROTOCOL")
     \/ helloSeen /\ Kind[job] = "unknown" /\ Reply("UNSUPPORTED_METHOD")
  /\ UNCHANGED <<helloSeen, cancelled>>

\* A tombstone for the id is consumed.
Consume ==
  /\ helloSeen /\ Kind[job] \in Handled /\ job \in cancelled
  /\ cancelled' = cancelled \ {job}
  /\ Reply("CANCELLED")
  /\ UNCHANGED helloSeen

Dispatch ==
  /\ helloSeen /\ Kind[job] \in Handled /\ job \notin cancelled
  /\ worker' = "run"
  /\ UNCHANGED <<helloSeen, cancelled, outbound, job, answer, emitted>>

\* HandleDynCollapse pushes an event or a frame while the engine runs.
Emit ==
  /\ worker = "run" /\ Kind[job] = "stream" /\ emitted < MaxEmitted
  /\ emitted' = emitted + 1
  /\ outbound' = Append(outbound, Frame(job, "event"))
  /\ UNCHANGED <<helloSeen, cancelled, worker, job, answer>>

\* Seeded fault of Outcome: the streaming handler does not ask once more.
OutcomeUnasked == "response"

\* What a handler returns: the streaming one asks once more whether it has been
\* cancelled, however far it has got.
Outcome == IF Kind[job] = "stream" /\ job \in cancelled THEN "CANCELLED" ELSE "response"

\* The handler returns; HandleCancel sets the tombstone of its target.
HandlerReturns ==
  /\ worker = "run"
  /\ answer' = Outcome
  /\ cancelled' = IF Kind[job] = "cancel" THEN cancelled \cup {TargetOf[job]} ELSE cancelled
  /\ worker' = "settle"
  /\ UNCHANGED <<helloSeen, outbound, job, emitted>>

\* A request that has run leaves no tombstone.
Settle ==
  /\ worker = "settle"
  /\ cancelled' = cancelled \ {job}
  /\ worker' = "publish"
  /\ UNCHANGED <<helloSeen, outbound, job, answer, emitted>>

Publish ==
  /\ worker = "publish"
  /\ Reply(answer)
  /\ UNCHANGED <<helloSeen, cancelled>>

Submit ==
  \/ worker = "submit" /\ (Greet \/ RefuseFrame \/ Consume \/ Dispatch)
  \/ Emit \/ HandlerReturns \/ Settle \/ Publish

\* CancelRequest, from any thread.
CancelRequest(r) ==
  /\ cancelled' = cancelled \cup {r}
  /\ UNCHANGED <<helloSeen, outbound, worker, job, answer, emitted>>
==============================================================================
