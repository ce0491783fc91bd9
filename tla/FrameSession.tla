---------------------------- MODULE FrameSession ----------------------------
(***************************************************************************)
(* A FrameSession of the C# client over its in-process transport.  Callers  *)
(* register an id, send, register for cancellation and wait; one dispatch   *)
(* loop takes frames off the transport and routes them by id; disposal      *)
(* stops the loop, fails what is pending and closes the context.  All of    *)
(* them run on different threads: an action is what one of them does        *)
(* between two accesses to state it shares.                                 *)
(*                                                                         *)
(* The context below is what frame_capi_v2.h promises (RequestServer).      *)
(* The first call is the handshake of OpenAsync.                            *)
(***************************************************************************)
EXTENDS Naturals, Sequences, SequencesExt

CONSTANTS
  Calls,       \* the ids of all calls (NextId: no id is used twice)
  Hello,       \* the call that OpenAsync makes
  Streams,     \* the calls made with SendAndStreamAsync
  MaxEvents,   \* most frames of one request before its last
  MayBreak     \* whether the transport may fail while receiving

ASSUME FrameSessionAssumption ==
  /\ Hello \in Calls /\ Streams \subseteq Calls \ {Hello}
  /\ MaxEvents \in Nat /\ MayBreak \in BOOLEAN

VARIABLES
  queue, frames, closed,   \* the context, see RequestServer
  taken,      \* how many of its frames the transport has received
  call,       \* where each caller is
  token,      \* the calls whose CancellationToken is cancelled
  pending,    \* _pendingSingle and _pendingStreams
  slot,       \* a call's TaskCompletionSource: "unset" or how it was completed
  channel,    \* a stream's frames not read yet
  writable,   \* the streams whose channel is not completed
  got,        \* the frames a caller has been given
  stops,      \* the ids cancel_request has been called with
  loop,       \* where DispatchLoopAsync is
  hand,       \* the frame it routes, in a sequence of at most one
  shutdown,   \* _shutdownCts is cancelled
  disposer    \* where DisposeAsync is

server == <<queue, frames, closed>>
callers == <<call, token, slot, channel, writable, got, stops>>
dispatch == <<taken, loop, hand>>
vars == <<server, callers, dispatch, pending, shutdown, disposer>>

Server == INSTANCE RequestServer WITH Requests <- Calls, Bodies <- {"frame"}

Singles == Calls \ Streams
FrameSet == [req : Calls, body : {"frame"}, last : BOOLEAN]
Over == {"returned", "failed", "cancelled", "ended"}

\* A caller's part is one of the few its kind of call has, and the loop holds a
\* frame exactly while it routes one.
TypeOK ==
  /\ queue \in Seq(Calls) /\ frames \in Seq(FrameSet) /\ closed \in BOOLEAN
  /\ taken \in 0..Len(frames)
  /\ call \in [Calls -> {"idle", "added", "sent", "waiting", "leaving"} \cup Over]
  /\ token \subseteq Calls /\ pending \subseteq Calls /\ stops \subseteq Calls
  /\ slot \in [Singles -> {"unset", "frame", "error", "cancelled"}]
  /\ channel \in [Streams -> Seq(FrameSet)] /\ writable \subseteq Streams
  /\ got \in [Calls -> Seq(FrameSet)]
  /\ loop \in {"check", "receive", "route", "write", "finish", "set", "exited"}
  /\ hand \in IF loop \in {"route", "write", "finish", "set"} THEN [1..1 -> FrameSet] ELSE {<<>>}
  /\ shutdown \in BOOLEAN
  /\ disposer \in {"no", "stopping", "failing", "closing", "done"}

Init ==
  /\ Server!Init /\ taken = 0
  /\ call = [c \in Calls |-> "idle"] /\ token = {} /\ pending = {}
  /\ slot = [c \in Singles |-> "unset"]
  /\ channel = [c \in Streams |-> <<>>] /\ writable = Streams
  /\ got = [c \in Calls |-> <<>>] /\ stops = {}
  /\ loop = "check" /\ hand = <<>>
  /\ shutdown = FALSE /\ disposer = "no"

Opened == call[Hello] = "returned"
Goto(c, place) == call' = [call EXCEPT ![c] = place]

-------------------------------------------------------------------------------
(* Callers: SendAndAwaitInternal and SendAndStreamAsync. *)

Add(c) ==
  /\ call[c] = "idle" /\ (c = Hello \/ Opened)
  /\ pending' = pending \cup {c}
  /\ Goto(c, "added")
  /\ UNCHANGED <<server, token, slot, channel, writable, got, stops, dispatch,
                 shutdown, disposer>>

\* SendFrameAsync: the request is queued.
Send(c) ==
  /\ call[c] = "added" /\ c \notin token
  /\ Server!Accept(c)
  /\ Goto(c, "sent")
  /\ UNCHANGED <<token, slot, channel, writable, got, stops, dispatch, pending,
                 shutdown, disposer>>

\* The token is cancelled, the context is closed or the inbound queue is full:
\* the caller takes its entry back and throws.
SendThrows(c) ==
  /\ call[c] = "added"
  /\ pending' = pending \ {c}
  /\ writable' = writable \ {c}
  /\ Goto(c, "failed")
  /\ UNCHANGED <<server, token, slot, channel, got, stops, dispatch, shutdown, disposer>>

\* Seeded fault of Cancelled: only the caller's task is cancelled.
CancelledKeepsEntry(c) ==
  /\ stops' = IF closed THEN stops ELSE stops \cup {c}
  /\ slot' = IF c \in Singles /\ slot[c] = "unset" THEN [slot EXCEPT ![c] = "cancelled"] ELSE slot
  /\ writable' = writable \ (pending \cap {c})
  /\ UNCHANGED pending

\* What the callback of a cancelled token does: the engine is told, and the
\* entry taken away, and whoever waits released.
Cancelled(c) ==
  /\ stops' = IF closed THEN stops ELSE stops \cup {c}
  /\ slot' = IF c \in Singles /\ slot[c] = "unset" THEN [slot EXCEPT ![c] = "cancelled"] ELSE slot
  /\ writable' = writable \ (pending \cap {c})
  /\ pending' = pending \ {c}

\* ct.Register, which calls back at once when the token is cancelled already.
Register(c) ==
  /\ call[c] = "sent"
  /\ Goto(c, "waiting")
  /\ IF c \in token THEN Cancelled(c) ELSE UNCHANGED <<stops, slot, writable, pending>>
  /\ UNCHANGED <<server, token, channel, got, dispatch, shutdown, disposer>>

\* Somebody cancels a token; the callback is there from Register to the end.
CancelToken(c) ==
  /\ call[c] \notin Over \cup {"idle"} /\ c \notin token
  /\ token' = token \cup {c}
  /\ IF call[c] \in {"waiting", "leaving"} THEN Cancelled(c)
     ELSE UNCHANGED <<stops, slot, writable, pending>>
  /\ UNCHANGED <<server, call, channel, got, dispatch, shutdown, disposer>>

\* The awaited task of a single call is complete.
Return(c) ==
  /\ c \in Singles /\ call[c] = "waiting"
  /\ \/ slot[c] = "frame" /\ Goto(c, "returned")
     \/ slot[c] = "error" /\ Goto(c, "failed")
     \/ slot[c] = "cancelled" /\ Goto(c, "cancelled")
  /\ UNCHANGED <<server, token, slot, channel, writable, got, stops, dispatch, pending,
                 shutdown, disposer>>

\* The consumer of a stream is given a frame, and leaves after the last one.
Read(c) ==
  /\ c \in Streams /\ call[c] = "waiting" /\ channel[c] # <<>>
  /\ got' = [got EXCEPT ![c] = Append(@, Head(channel[c]))]
  /\ channel' = [channel EXCEPT ![c] = Tail(@)]
  /\ Goto(c, IF Head(channel[c]).last THEN "leaving" ELSE "waiting")
  /\ UNCHANGED <<server, token, slot, writable, stops, dispatch, pending, shutdown, disposer>>

\* Nothing is left to read, and the channel is complete or the token cancelled.
ReadEnds(c) ==
  /\ c \in Streams /\ call[c] = "waiting" /\ channel[c] = <<>>
  /\ c \notin writable \/ c \in token
  /\ Goto(c, "leaving")
  /\ UNCHANGED <<server, token, slot, channel, writable, got, stops, dispatch, pending,
                 shutdown, disposer>>

\* The consumer stops enumerating after a frame it was given.
Abandon(c) ==
  /\ c \in Streams /\ call[c] = "waiting" /\ got[c] # <<>>
  /\ Goto(c, "leaving")
  /\ UNCHANGED <<server, token, slot, channel, writable, got, stops, dispatch, pending,
                 shutdown, disposer>>

\* The finally of SendAndStreamAsync.
Leave(c) ==
  /\ call[c] = "leaving"
  /\ IF c \in pending
     THEN /\ writable' = writable \ {c}
          /\ stops' = IF c \in token \/ closed THEN stops ELSE stops \cup {c}
     ELSE UNCHANGED <<writable, stops>>
  /\ pending' = pending \ {c}
  /\ Goto(c, "ended")
  /\ UNCHANGED <<server, token, slot, channel, got, dispatch, shutdown, disposer>>
-------------------------------------------------------------------------------
(* DispatchLoopAsync and DisposeAsync. *)

CompletePending ==
  /\ slot' = [c \in Singles |-> IF c \in pending /\ slot[c] = "unset" THEN "error" ELSE slot[c]]
  /\ writable' = writable \ pending
  /\ pending' = {}

\* The loop's condition; leaving by it fails nobody.
Check ==
  /\ loop = "check"
  /\ loop' = IF shutdown THEN "exited" ELSE "receive"
  /\ UNCHANGED <<server, callers, taken, hand, pending, shutdown, disposer>>

Receive ==
  /\ loop = "receive" /\ taken < Len(frames)
  /\ hand' = <<frames[taken + 1]>> /\ taken' = taken + 1
  /\ loop' = "route"
  /\ UNCHANGED <<server, callers, pending, shutdown, disposer>>

ReceiveThrows ==
  /\ loop = "receive"
  /\ CompletePending
  /\ loop' = "exited"
  /\ UNCHANGED <<server, call, token, channel, got, stops, taken, hand, shutdown, disposer>>

\* The callback on the shutdown token wakes recv; or the transport fails.
ReceiveCancelled == shutdown /\ ReceiveThrows
ReceiveFails == MayBreak /\ ReceiveThrows

Done == loop' = "check" /\ hand' = <<>>

\* The id is looked up: among the streams, then among the single calls, whose
\* entry is taken away.
Route ==
  /\ loop = "route"
  /\ LET c == hand[1].req
     IN IF c \notin pending THEN Done /\ UNCHANGED pending
        ELSE /\ loop' = IF c \in Streams THEN "write" ELSE "set"
             /\ pending' = IF c \in Streams THEN pending ELSE pending \ {c}
             /\ UNCHANGED hand
  /\ UNCHANGED <<server, callers, taken, shutdown, disposer>>

\* Seeded fault of Put: frames go in front.
PutFirst(f, q) == <<f>> \o q

Put(f, q) == Append(q, f)

\* The channel may have been completed since the id was found.
Write ==
  /\ loop = "write"
  /\ LET c == hand[1].req
     IN IF c \notin writable THEN Done /\ UNCHANGED channel
        ELSE /\ channel' = [channel EXCEPT ![c] = Put(hand[1], @)]
             /\ IF hand[1].last THEN loop' = "finish" /\ UNCHANGED hand ELSE Done
  /\ UNCHANGED <<server, call, token, slot, writable, got, stops, taken, pending,
                 shutdown, disposer>>

Finish ==
  /\ loop = "finish"
  /\ writable' = writable \ {hand[1].req}
  /\ pending' = pending \ {hand[1].req}
  /\ Done
  /\ UNCHANGED <<server, call, token, slot, channel, got, stops, taken, shutdown, disposer>>

\* TrySetResult.
Set ==
  /\ loop = "set"
  /\ LET c == hand[1].req
     IN IF slot[c] = "unset"
        THEN /\ slot' = [slot EXCEPT ![c] = "frame"]
             /\ got' = [got EXCEPT ![c] = hand]
        ELSE UNCHANGED <<slot, got>>
  /\ Done
  /\ UNCHANGED <<server, call, token, channel, writable, stops, taken, pending,
                 shutdown, disposer>>

\* Seeded fault of Dispose: the loop is not told.
DisposeSilently ==
  /\ disposer = "no" /\ call[Hello] \in Over
  /\ disposer' = "stopping"
  /\ UNCHANGED <<server, callers, dispatch, pending, shutdown>>

\* DisposeAsync, by its owner once the session is open, by OpenAsync when the
\* handshake has failed.
Dispose ==
  /\ disposer = "no" /\ call[Hello] \in Over
  /\ shutdown' = TRUE /\ disposer' = "stopping"
  /\ UNCHANGED <<server, callers, dispatch, pending>>

\* The loop is awaited.
LoopAwaited ==
  /\ disposer = "stopping" /\ loop = "exited"
  /\ disposer' = "failing"
  /\ UNCHANGED <<server, callers, dispatch, pending, shutdown>>

\* Seeded fault of FailPending: the loop is trusted to have failed everybody.
FailPendingTrusting ==
  /\ disposer = "failing"
  /\ disposer' = "closing"
  /\ UNCHANGED <<server, callers, dispatch, pending, shutdown>>

FailPending ==
  /\ disposer = "failing"
  /\ CompletePending
  /\ disposer' = "closing"
  /\ UNCHANGED <<server, call, token, channel, got, stops, dispatch, shutdown>>

\* CApiV2Transport.DisposeAsync.
CloseTransport ==
  /\ disposer = "closing"
  /\ Server!Close
  /\ disposer' = "done"
  /\ UNCHANGED <<callers, dispatch, pending, shutdown>>
-------------------------------------------------------------------------------
\* The frames of one request among some, in their order.
FramesOf(c, some) ==
  FoldLeft(LAMBDA own, f : IF f.req = c THEN Append(own, f) ELSE own, <<>>, some)

\* The engine goes on with the oldest request.
Answer ==
  /\ queue # <<>>
  /\ LET c == Head(queue)
         events == Len(FramesOf(c, frames))
     IN \E last \in BOOLEAN :
          /\ last \/ (c \in Streams /\ events < MaxEvents)
          /\ Server!Produce("frame", last)
  /\ UNCHANGED <<callers, dispatch, pending, shutdown, disposer>>

Caller(c) == Return(c) \/ Read(c) \/ ReadEnds(c) \/ Leave(c)
Loop == Check \/ Receive \/ ReceiveCancelled \/ Route \/ Write \/ Finish \/ Set
Disposal == LoopAwaited \/ FailPending \/ CloseTransport

Next ==
  \/ \E c \in Calls :
       \/ Add(c) \/ Send(c) \/ SendThrows(c) \/ Register(c) \/ CancelToken(c)
       \/ Return(c) \/ Read(c) \/ ReadEnds(c) \/ Abandon(c) \/ Leave(c)
  \/ Check \/ Receive \/ ReceiveCancelled \/ ReceiveFails \/ Route \/ Write \/ Finish \/ Set
  \/ Dispose \/ LoopAwaited \/ FailPending \/ CloseTransport
  \/ Answer

\* Threads that can run do, and the engine answers. Nobody has to call, to cancel
\* or to dispose, except that OpenAsync disposes of what it could not open.
Fairness ==
  /\ \A c \in Calls : WF_vars(Register(c)) /\ WF_vars(Caller(c))
  /\ WF_vars(Loop) /\ WF_vars(Answer) /\ WF_vars(Disposal) /\ WF_vars(Dispose /\ ~Opened)

Spec == Init /\ [][Next]_vars /\ Fairness
-------------------------------------------------------------------------------
OwnFrames(c) == FramesOf(c, frames)

\* A caller is given the engine's frames for its own id, in order, from the first
\* on, whatever is cancelled, abandoned or disposed meanwhile; and when a stream
\* ends that nobody stopped, it has been given all of them or they wait for it.
EachItsOwnFrames ==
  /\ \A c \in Calls : IsPrefix(got[c], OwnFrames(c))
  /\ \A c \in Streams :
       (call[c] = "ended" /\ c \notin token \cup stops /\ loop # "exited")
         => got[c] \o channel[c] = OwnFrames(c)

\* A call that is over has left no entry behind, which the session would keep for
\* its lifetime.
NothingLeftPending == \A c \in Calls : call[c] \in Over => c \notin pending

\* Whoever waits while the loop is there comes back: with its answer, because its
\* token is cancelled, or because the loop or the session ends.
CallsComeBack ==
  \A c \in Calls : (call[c] \in {"sent", "waiting"} /\ loop # "exited") ~> (call[c] \in Over)

\* Disposal comes to its end although the loop sits in a receive without timeout,
\* and an open whose handshake failed leaves no context behind.
DisposalEnds == (disposer # "no" \/ call[Hello] \in {"failed", "cancelled"}) ~> closed
==============================================================================
