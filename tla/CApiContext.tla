---------------------------- MODULE CApiContext ----------------------------
(***************************************************************************)
(* A frame_v2_ctx: clients send, cancel and close from any thread, a worker *)
(* feeds the inbound queue to the dispatcher, and one thread at a time      *)
(* receives.  ctx->mtx and ctx->cv are shared by all of them.               *)
(*                                                                         *)
(* A call or step that holds mtx from its first to its last access is one   *)
(* action.  recv is not: between finding the outbound queue empty and       *)
(* waiting on cv it holds mtx, which keeps out whoever takes mtx, but not   *)
(* the dispatcher's push nor cv.notify_all, which take no mtx.              *)
(* close takes the context away from later calls before it marks it closed; *)
(* calls that have found it by then still act on it in between.             *)
(***************************************************************************)
EXTENDS Dispatcher, FiniteSets, SequencesExt

CONSTANTS
  Modes,        \* the blockingMs clients pass: "poll", "timed" or "forever"
  MaxInbound,   \* inbound queue depth cap
  Callers,      \* most threads about to notify at a time
  MaxWakes,     \* most calls of frame_v2_cancel_recv
  Cancellable   \* the requests clients cancel

ASSUME CApiContextAssumption ==
  /\ Modes \subseteq {"poll", "timed", "forever"}
  /\ MaxInbound \in Nat \ {0} /\ Callers \in Nat \ {0} /\ MaxWakes \in Nat
  /\ Cancellable \subseteq Requests

VARIABLES
  inbound,      \* frame_v2_ctx::inbound
  kept,         \* pendingSerialized: no frame or one
  cancelRecv,   \* frame_v2_ctx::cancelRecv
  closer,       \* "no", "erased" from the registry, "closed", "joined"
  rings,        \* threads that have left mtx and are about to notify_all
  reader,       \* recv: "out", "empty" with mtx held, "parked" on cv, "woken"
  mode,         \* its blockingMs
  wakes,        \* calls of frame_v2_cancel_recv so far
  sent,         \* history: requests accepted
  received,     \* history: frames the client has
  doomed        \* history: requests cancelled while that could still stop them

ctxVars == <<inbound, kept, cancelRecv, closer, rings, reader, mode>>
histories == <<wakes, sent, received>>
contextVars == <<dispatcherVars, ctxVars, histories, doomed>>

ctxClosed == closer \in {"closed", "joined"}
MutexFree == reader # "empty"

ContextFrames == [req : Requests, body : Bodies, last : BOOLEAN]

\* The queues stay within their bounds, the worker has a frame exactly while it
\* is in Submit, and recv has a blockingMs exactly while it is in flight.
ContextTypeOK ==
  /\ helloSeen \in BOOLEAN /\ cancelled \subseteq Requests
  /\ outbound \in Seq(ContextFrames) /\ received \in Seq(ContextFrames)
  /\ worker \in {"ready", "parked", "submit", "run", "settle", "publish", "notify", "ended"}
  /\ job \in IF worker \in {"submit", "run", "settle", "publish"} THEN Requests ELSE {None}
  /\ answer \in IF worker \in {"settle", "publish"} THEN Bodies ELSE {None}
  /\ emitted \in 0..MaxEmitted
  /\ inbound \in Seq(Requests) /\ Len(inbound) <= MaxInbound
  /\ kept \in Seq(ContextFrames) /\ Len(kept) <= 1
  /\ cancelRecv \in BOOLEAN /\ closer \in {"no", "erased", "closed", "joined"}
  /\ rings \in 0..Callers /\ wakes \in 0..MaxWakes
  /\ reader \in {"out", "empty", "parked", "woken"}
  /\ mode \in IF reader = "out" THEN {None} ELSE Modes
  /\ sent \subseteq Requests /\ doomed \subseteq Requests

ContextInit ==
  /\ helloSeen = FALSE /\ cancelled = {} /\ outbound = <<>>
  /\ worker = "ready" /\ job = None /\ answer = None /\ emitted = 0
  /\ inbound = <<>> /\ kept = <<>> /\ cancelRecv = FALSE
  /\ closer = "no" /\ rings = 0 /\ reader = "out" /\ mode = None
  /\ wakes = 0 /\ sent = {} /\ received = <<>> /\ doomed = {}

\* The frame the worker has taken and not answered, and the frames produced.
InHand == IF job = None THEN <<>> ELSE <<job>>
Produced == received \o kept \o outbound

\* A tombstone reaches a request until it is dispatched, and a streaming one
\* until it returns.
Reachable ==
  ToSet(inbound) \cup
  {r \in ToSet(InHand) : worker = "submit" \/ (worker = "run" /\ Kind[r] = "stream")}

Remember == doomed' = doomed \cup (cancelled \cap Reachable)'

-------------------------------------------------------------------------------

Full == Len(inbound) >= MaxInbound

\* frame_v2_send.
V2Send(r) ==
  /\ ~ctxClosed /\ MutexFree /\ r \notin sent /\ ~Full
  /\ inbound' = Append(inbound, r)
  /\ sent' = sent \cup {r}
  /\ rings < Callers /\ rings' = rings + 1
  /\ UNCHANGED <<dispatcherVars, kept, cancelRecv, closer, reader, mode, wakes, received>>
  /\ Remember

\* frame_v2_cancel_request.
CancelById(r) ==
  /\ ~ctxClosed
  /\ CancelRequest(r)
  /\ UNCHANGED <<ctxVars, histories>>
  /\ Remember

\* frame_v2_cancel_recv.
CancelRecv ==
  /\ ~ctxClosed /\ MutexFree /\ wakes < MaxWakes
  /\ cancelRecv' = TRUE /\ wakes' = wakes + 1
  /\ rings < Callers /\ rings' = rings + 1
  /\ UNCHANGED <<dispatcherVars, inbound, kept, closer, reader, mode, sent, received,
                 doomed>>

\* frame_v2_close: out of the registry, then closed under mtx, then joined.
EraseOwner ==
  /\ closer = "no" /\ closer' = "erased"
  /\ UNCHANGED <<dispatcherVars, inbound, kept, cancelRecv, rings, reader, mode,
                 histories, doomed>>

\* Seeded fault of Shut: a recv in flight is not called off.
ShutQuietly ==
  /\ closer = "erased" /\ MutexFree
  /\ closer' = "closed" /\ inbound' = <<>>
  /\ rings < Callers /\ rings' = rings + 1
  /\ UNCHANGED <<dispatcherVars, kept, cancelRecv, reader, mode, histories, doomed>>

Shut ==
  /\ closer = "erased" /\ MutexFree
  /\ closer' = "closed" /\ cancelRecv' = TRUE /\ inbound' = <<>>
  /\ rings < Callers /\ rings' = rings + 1
  /\ UNCHANGED <<dispatcherVars, kept, reader, mode, histories, doomed>>

Join ==
  /\ closer = "closed" /\ worker = "ended" /\ closer' = "joined"
  /\ UNCHANGED <<dispatcherVars, inbound, kept, cancelRecv, rings, reader, mode,
                 histories, doomed>>

\* Seeded fault of NotifyAll: cv.notify_one.
NotifyOne ==
  /\ rings > 0 /\ rings' = rings - 1
  /\ \/ reader = "parked" /\ reader' = "woken" /\ UNCHANGED worker
     \/ worker = "parked" /\ worker' = "ready" /\ UNCHANGED reader
     \/ reader # "parked" /\ worker # "parked" /\ UNCHANGED <<reader, worker>>
  /\ UNCHANGED <<helloSeen, cancelled, outbound, job, answer, emitted, inbound, kept,
                 cancelRecv, closer, mode, histories, doomed>>

\* cv.notify_all wakes who is parked now, and nobody else.
NotifyAll ==
  /\ rings > 0 /\ rings' = rings - 1
  /\ reader' = IF reader = "parked" THEN "woken" ELSE reader
  /\ worker' = IF worker = "parked" THEN "ready" ELSE worker
  /\ UNCHANGED <<helloSeen, cancelled, outbound, job, answer, emitted, inbound, kept,
                 cancelRecv, closer, mode, histories, doomed>>

-------------------------------------------------------------------------------
\* workerLoop: the predicate is tested and cv waited on without letting mtx go.
Take ==
  /\ worker = "ready" /\ MutexFree
  /\ \/ ctxClosed /\ worker' = "ended" /\ UNCHANGED <<job, inbound>>
     \/ ~ctxClosed /\ inbound = <<>> /\ worker' = "parked" /\ UNCHANGED <<job, inbound>>
     \/ /\ ~ctxClosed /\ inbound # <<>> /\ worker' = "submit"
        /\ job' = Head(inbound) /\ inbound' = Tail(inbound)
  /\ UNCHANGED <<helloSeen, cancelled, outbound, answer, emitted, kept, cancelRecv,
                 closer, rings, reader, mode, histories, doomed>>

WorkerSubmits ==
  /\ Submit
  /\ UNCHANGED <<ctxVars, histories>>
  /\ Remember

\* The notify_all after a frame has been dispatched takes no mtx.
WorkerNotifies ==
  /\ worker = "notify" /\ worker' = "ready"
  /\ reader' = IF reader = "parked" THEN "woken" ELSE reader
  /\ UNCHANGED <<helloSeen, cancelled, outbound, job, answer, emitted, inbound, kept,
                 cancelRecv, closer, rings, mode, histories, doomed>>

-------------------------------------------------------------------------------
\* Seeded fault of Popped: a call that only asks for the size keeps nothing.
PoppedAndDropped(probe) ==
  /\ outbound' = Tail(outbound)
  /\ received' = IF probe THEN received ELSE Append(received, Head(outbound))
  /\ UNCHANGED kept

\* The frame is kept for the call that brings a buffer, or handed out at once.
Popped(probe) ==
  /\ outbound' = Tail(outbound)
  /\ kept' = IF probe THEN <<Head(outbound)>> ELSE <<>>
  /\ received' = IF probe THEN received ELSE Append(received, Head(outbound))

Returns == reader' = "out" /\ mode' = None

\* frame_v2_recv with nothing pending, on entry and after each wait; a call
\* that is in flight goes on when close has taken the context away.
RecvLooks ==
  /\ reader = "woken" \/ (reader = "out" /\ ~ctxClosed /\ kept = <<>>)
  /\ \/ cancelRecv /\ cancelRecv' = FALSE /\ Returns
        /\ UNCHANGED <<outbound, kept, received>>
     \/ ~cancelRecv /\ outbound # <<>> /\ Returns
        /\ \E probe \in BOOLEAN : Popped(probe)
        /\ UNCHANGED cancelRecv
     \/ ~cancelRecv /\ outbound = <<>> /\ reader' = "empty"
        /\ mode' \in (IF reader = "out" THEN Modes ELSE {mode})
        /\ UNCHANGED <<outbound, kept, received, cancelRecv>>
  /\ UNCHANGED <<helloSeen, cancelled, worker, job, answer, emitted, inbound, closer,
                 rings, wakes, sent, doomed>>

\* Nothing is ready: back to the caller, or on to cv, where mtx is released.
RecvWaits ==
  /\ reader = "empty"
  /\ IF mode = "poll" THEN Returns ELSE reader' = "parked" /\ UNCHANGED mode
  /\ UNCHANGED <<dispatcherVars, inbound, kept, cancelRecv, closer, rings, histories,
                 doomed>>

RecvTimesOut ==
  /\ reader = "parked" /\ mode = "timed" /\ Returns
  /\ UNCHANGED <<dispatcherVars, inbound, kept, cancelRecv, closer, rings, histories,
                 doomed>>

\* frame_v2_recv with a frame pending and a buffer that holds it.
RecvFetches ==
  /\ reader = "out" /\ ~ctxClosed /\ kept # <<>>
  /\ received' = received \o kept /\ kept' = <<>>
  /\ UNCHANGED <<dispatcherVars, inbound, cancelRecv, closer, rings, reader, mode, wakes,
                 sent, doomed>>

\* A step of frame_v2_recv.
Receiving == RecvLooks \/ RecvWaits \/ RecvTimesOut \/ RecvFetches

-------------------------------------------------------------------------------
ContextNext ==
  \/ \E r \in Requests : V2Send(r)
  \/ \E r \in Cancellable : CancelById(r)
  \/ CancelRecv \/ EraseOwner \/ Shut \/ Join \/ NotifyAll
  \/ Take \/ WorkerSubmits \/ WorkerNotifies
  \/ Receiving

ContextSpec == ContextInit /\ [][ContextNext]_contextVars

\* The threads go on, a client that uses the context goes on calling recv, and
\* who waits for mtx gets it although others take it in between.
ContextFairSpec ==
  /\ ContextSpec
  /\ WF_contextVars(WorkerSubmits) /\ WF_contextVars(WorkerNotifies)
  /\ WF_contextVars(NotifyAll) /\ WF_contextVars(Join)
  /\ WF_contextVars(Receiving)
  /\ SF_contextVars(Take) /\ SF_contextVars(Shut)

-------------------------------------------------------------------------------
\* What clients see is a server that answers in order and loses nothing, with
\* every final frame after the events of its request: no frame falls between
\* the worker, the outbound queue, the frame kept for a second call and the
\* client, however calls, cancels and close fall between the steps.
Promise == INSTANCE RequestServer WITH queue <- InHand \o inbound, frames <- Produced,
                                    closed <- ctxClosed
RefinesServer == Promise!Spec

\* A request cancelled while it waits, or a stream cancelled while it runs, is
\* never answered as if it had not been.
CancelledIsNotAnswered ==
  \A k \in DOMAIN Produced : Produced[k].body = "response" => Produced[k].req \notin doomed

\* frame_v2_cancel_recv and close bring a recv in flight back, however long it
\* was to block.
CancelRecvReturns == (reader # "out" /\ cancelRecv) ~> reader = "out"

\* close returns, with the worker ended and a recv in flight called off.
CloseReturns == (closer = "erased") ~> (closer = "joined" /\ reader = "out")

Answered(r) == \E k \in DOMAIN received : received[k].req = r /\ received[k].last

\* A client whose recv calls keep returning gets the final frame of every
\* request it has sent, unless it closes the context.
BlockedForever == reader = "parked" /\ mode = "forever"
AnswersArrive ==
  ([]<>~BlockedForever) =>
    \A r \in Requests : (r \in sent) ~> (Answered(r) \/ closer # "no")

\* frame_v2_recv blocks until a frame arrives: with one ready, somebody is
\* still going to wake it.
ReadyFrameWakes ==
  BlockedForever /\ outbound # <<>> => rings > 0 \/ worker # "parked"
==============================================================================
