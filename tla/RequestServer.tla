--------------------------- MODULE RequestServer ---------------------------
(***************************************************************************)
(* What frame_capi_v2.h promises a client of one context: frames are taken  *)
(* in order, the oldest is answered first, by any number of events and then *)
(* one final frame, and nothing produced is lost, repeated or reordered.    *)
(* Closing forgets what is waiting, but not what is being answered.         *)
(***************************************************************************)
EXTENDS Naturals, Sequences, SequencesExt

CONSTANTS Requests, Bodies

VARIABLES
  queue,    \* requests accepted and not answered yet, the oldest first
  frames,   \* everything produced so far
  closed

vars == <<queue, frames, closed>>

Init == queue = <<>> /\ frames = <<>> /\ closed = FALSE

Asked == ToSet(queue) \cup {frames[k].req : k \in DOMAIN frames}

Accept(r) ==
  /\ ~closed /\ r \notin Asked
  /\ queue' = Append(queue, r)
  /\ UNCHANGED <<frames, closed>>

Produce(body, last) ==
  /\ queue # <<>>
  /\ frames' = Append(frames, [req |-> Head(queue), body |-> body, last |-> last])
  /\ queue' = IF last THEN Tail(queue) ELSE queue
  /\ UNCHANGED closed

Close ==
  /\ ~closed /\ closed' = TRUE
  /\ \E k \in 0..1 : k <= Len(queue) /\ queue' = SubSeq(queue, 1, k)
  /\ UNCHANGED frames

Next ==
  \/ \E r \in Requests : Accept(r)
  \/ \E body \in Bodies, last \in BOOLEAN : Produce(body, last)
  \/ Close

Spec == Init /\ [][Next]_vars
==============================================================================
