---------------------------- MODULE BridgeProofs ----------------------------
(***************************************************************************)
(* Proofs about the bridge, from the C# client to a context of the C ABI.   *)
(* No call leaves its entry behind, and each is given its own frames        *)
(* (FrameSession); a session has one owner at a time (OpenComponent); no    *)
(* component says for ever that it is at work (AssembleComponent and        *)
(* AsyncComponent); what the clients of a context see is the server of      *)
(* RequestServer, which loses, repeats and reorders nothing, and what was   *)
(* cancelled in time is not answered as if it had not been (CApiContext).   *)
(***************************************************************************)
EXTENDS FrameSession, OpenComponent, AssembleComponent, AsyncComponent, CApiContext,
        FoldLemmas, FiniteSetTheorems, SequenceTheorems, TLAPS

-------------------------------------------------------------------------------
(* FrameSession: the entries of the pending maps.                           *)

Places == {"idle", "added", "sent", "waiting", "leaving"} \cup Over
Slots == {"unset", "frame", "error", "cancelled"}

\* An entry is there only while its call is under way and nobody has completed it;
\* one whose frame the loop has in hand is gone already.
PendingInv ==
  /\ call \in [Calls -> Places] /\ slot \in [Singles -> Slots]
  /\ pending \subseteq Calls
  /\ \A c \in pending : call[c] \in {"added", "sent", "waiting", "leaving"}
  /\ \A c \in Singles : slot[c] # "unset" => c \notin pending /\ call[c] # "idle"
  /\ loop = "set" => /\ hand[1].req \in Singles \ pending
                     /\ call[hand[1].req] # "idle"

\* A call goes on and keeps its entry, or is over and has none.
LEMMA CallMoves ==
  ASSUME PendingInv, NEW c \in Calls, call[c] # "idle", NEW place \in Places \ {"idle"},
         Goto(c, place), UNCHANGED <<slot, loop, hand>>,
         (pending' = pending /\ place \notin Over) \/ pending' = pending \ {c}
  PROVE  PendingInv'
<1>1. /\ call' \in [Calls -> Places]
      /\ \A d \in Calls : call'[d] = IF d = c THEN place ELSE call[d]
  BY DEF PendingInv, Goto
<1>2. \A d \in pending' : call'[d] \in {"added", "sent", "waiting", "leaving"}
  BY <1>1 DEF PendingInv, Places
<1>3. \A d \in Singles : slot'[d] # "unset" => d \notin pending' /\ call'[d] # "idle"
  BY <1>1 DEF PendingInv, Singles
<1>4. loop' = "set" => hand'[1].req \in Singles \ pending' /\ call'[hand'[1].req] # "idle"
  BY <1>1 DEF PendingInv, Singles
<1> QED
  BY <1>1, <1>2, <1>3, <1>4 DEF PendingInv

\* The callback of a token that is cancelled.
LEMMA CancelledInv ==
  ASSUME PendingInv, NEW c \in Calls, call[c] # "idle", Cancelled(c),
         UNCHANGED <<call, loop, hand>>
  PROVE  PendingInv'
<1>1. /\ pending' = pending \ {c}
      /\ slot' \in [Singles -> Slots]
      /\ \A d \in Singles : slot'[d] # "unset" => slot[d] # "unset" \/ d = c
  BY DEF PendingInv, Cancelled, Slots
<1> QED
  BY <1>1 DEF PendingInv

LEMMA CompletePendingInv ==
  ASSUME PendingInv, CompletePending, UNCHANGED call, loop' # "set" \/ UNCHANGED <<loop, hand>>
  PROVE  PendingInv'
<1>1. /\ pending' = {}
      /\ slot' \in [Singles -> Slots]
      /\ \A d \in Singles : slot'[d] # "unset" => slot[d] # "unset" \/ d \in pending
  BY DEF PendingInv, CompletePending, Slots
<1>2. \A d \in Singles : slot'[d] # "unset" => call[d] # "idle"
  BY <1>1 DEF PendingInv
<1> QED
  BY <1>1, <1>2 DEF PendingInv

LEMMA CallerStep ==
  ASSUME PendingInv, NEW c \in Calls,
         \/ Add(c) \/ Send(c) \/ SendThrows(c) \/ Register(c) \/ CancelToken(c)
         \/ Return(c) \/ Read(c) \/ ReadEnds(c) \/ Abandon(c) \/ Leave(c)
  PROVE  PendingInv'
<1>1. CASE Add(c)
  <2>1. /\ call[c] = "idle" /\ pending' = pending \cup {c} /\ UNCHANGED <<slot, loop, hand>>
        /\ Goto(c, "added")
    BY <1>1 DEF Add, dispatch
  <2>2. /\ call' \in [Calls -> Places]
        /\ \A d \in Calls : call'[d] = IF d = c THEN "added" ELSE call[d]
    BY <2>1 DEF PendingInv, Goto, Places
  <2> QED
    BY <2>1, <2>2 DEF PendingInv, Singles
<1>2. CASE Send(c)
  BY <1>2, CallMoves DEF Send, dispatch, Places, Over
<1>3. CASE SendThrows(c)
  BY <1>3, CallMoves DEF SendThrows, dispatch, Places, Over
<1>4. CASE Register(c)
  <2>1. Goto(c, "waiting") /\ call[c] = "sent" /\ UNCHANGED <<loop, hand>>
    BY <1>4 DEF Register, dispatch
  <2>2. CASE c \notin token
    BY <1>4, <2>1, <2>2, CallMoves DEF Register, Places, Over
  <2>3. CASE c \in token
    <3>1. /\ pending' = pending \ {c}
          /\ slot' \in [Singles -> Slots]
          /\ \A d \in Singles : slot'[d] # "unset" => slot[d] # "unset" \/ d = c
      BY <1>4, <2>3 DEF Register, PendingInv, Cancelled, Slots
    <3>2. /\ call' \in [Calls -> Places]
          /\ \A d \in Calls : call'[d] = IF d = c THEN "waiting" ELSE call[d]
      BY <2>1 DEF PendingInv, Goto, Places
    <3> QED
      BY <2>1, <3>1, <3>2 DEF PendingInv, Singles
  <2> QED
    BY <2>2, <2>3
<1>5. CASE CancelToken(c)
  <2>1. call[c] # "idle" /\ UNCHANGED <<call, loop, hand>>
    BY <1>5 DEF CancelToken, dispatch
  <2>2. Cancelled(c) \/ UNCHANGED <<slot, pending>>
    BY <1>5 DEF CancelToken
  <2>3. CASE UNCHANGED <<slot, pending>>
    BY <2>1, <2>3 DEF PendingInv
  <2> QED
    BY <2>1, <2>2, <2>3, CancelledInv
<1>6. CASE Return(c)
  <2>1. /\ c \in Singles /\ slot[c] # "unset" /\ call[c] = "waiting"
        /\ \E place \in {"returned", "failed", "cancelled"} : Goto(c, place)
        /\ UNCHANGED <<slot, pending, loop, hand>>
    BY <1>6 DEF Return, dispatch
  <2>2. pending' = pending \ {c}
    BY <2>1 DEF PendingInv
  <2> QED
    BY <2>1, <2>2, CallMoves DEF Places, Over
<1>7. CASE Read(c) \/ ReadEnds(c) \/ Abandon(c)
  <2>1. /\ call[c] = "waiting" /\ UNCHANGED <<slot, pending, loop, hand>>
        /\ \E place \in {"waiting", "leaving"} : Goto(c, place)
    BY <1>7 DEF Read, ReadEnds, Abandon, dispatch
  <2> QED
    BY <2>1, CallMoves DEF Places, Over
<1>8. CASE Leave(c)
  BY <1>8, CallMoves DEF Leave, dispatch, Places, Over
<1> QED
  BY <1>1, <1>2, <1>3, <1>4, <1>5, <1>6, <1>7, <1>8

LEMMA LoopStep ==
  ASSUME PendingInv,
         \/ Check \/ Receive \/ ReceiveCancelled \/ ReceiveFails \/ Route \/ Write \/ Finish \/ Set
  PROVE  PendingInv'
<1>1. CASE Check \/ Receive \/ Write
  <2>1. loop' # "set" /\ UNCHANGED <<call, slot, pending>>
    BY <1>1 DEF Check, Receive, Write, Done, callers
  <2> QED
    BY <2>1 DEF PendingInv
<1>2. CASE ReceiveCancelled \/ ReceiveFails
  BY <1>2, CompletePendingInv DEF ReceiveCancelled, ReceiveFails, ReceiveThrows
<1>3. CASE Route
  <2>1. UNCHANGED <<call, slot>>
    BY <1>3 DEF Route, callers
  <2>2. CASE hand[1].req \notin pending \/ hand[1].req \in Streams
    <3>1. loop' # "set" /\ pending' = pending
      BY <1>3, <2>2 DEF Route, Done
    <3> QED
      BY <2>1, <3>1 DEF PendingInv
  <2>3. CASE hand[1].req \in pending \ Streams
    <3>1. loop' = "set" /\ pending' = pending \ {hand[1].req} /\ UNCHANGED hand
      BY <1>3, <2>3 DEF Route
    <3>2. hand[1].req \in Singles /\ call[hand[1].req] # "idle"
      BY <2>3 DEF PendingInv, Singles
    <3> QED
      BY <2>1, <3>1, <3>2 DEF PendingInv
  <2> QED
    BY <2>2, <2>3
<1>4. CASE Finish
  <2>1. /\ loop' # "set" /\ UNCHANGED <<call, slot>>
        /\ pending' = pending \ {hand[1].req}
    BY <1>4 DEF Finish, Done
  <2> QED
    BY <2>1 DEF PendingInv
<1>5. CASE Set
  <2>1. /\ loop = "set" /\ loop' # "set" /\ UNCHANGED <<call, pending>>
        /\ slot' = slot \/ slot' = [slot EXCEPT ![hand[1].req] = "frame"]
    BY <1>5 DEF Set, Done
  <2>2. /\ slot' \in [Singles -> Slots]
        /\ \A d \in Singles : slot'[d] # "unset" => slot[d] # "unset" \/ d = hand[1].req
    BY <2>1 DEF PendingInv, Slots
  <2> QED
    BY <2>1, <2>2 DEF PendingInv
<1> QED
  BY <1>1, <1>2, <1>3, <1>4, <1>5

LEMMA PendingStep ==
  ASSUME PendingInv, [Next]_vars
  PROVE  PendingInv'
<1>1. ASSUME NEW c \in Calls,
             \/ Add(c) \/ Send(c) \/ SendThrows(c) \/ Register(c) \/ CancelToken(c)
             \/ Return(c) \/ Read(c) \/ ReadEnds(c) \/ Abandon(c) \/ Leave(c)
      PROVE  PendingInv'
  BY <1>1, CallerStep
<1>2. CASE \/ Check \/ Receive \/ ReceiveCancelled \/ ReceiveFails
           \/ Route \/ Write \/ Finish \/ Set
  BY <1>2, LoopStep
<1>3. CASE FailPending
  BY <1>3, CompletePendingInv DEF FailPending, dispatch
<1>4. CASE Dispose \/ LoopAwaited \/ CloseTransport \/ Answer
  <2>1. UNCHANGED <<call, slot, pending, loop, hand>>
    BY <1>4 DEF Dispose, LoopAwaited, CloseTransport, Answer, callers, dispatch
  <2> QED
    BY <2>1 DEF PendingInv
<1>5. CASE UNCHANGED vars
  BY <1>5 DEF vars, callers, dispatch, PendingInv
<1> QED
  BY <1>1, <1>2, <1>3, <1>4, <1>5 DEF Next

\* FrameSession: whichever of answer, cancellation, the end of the loop and disposal
\* comes first, a call that is over has left no entry in the pending maps.
THEOREM CallsLeaveNothingBehind == Spec => []NothingLeftPending
<1>1. Init => PendingInv
  BY DEF Init, PendingInv, Places, Slots
<1>2. PendingInv /\ [Next]_vars => PendingInv'
  BY PendingStep
<1>3. PendingInv => NothingLeftPending
  BY DEF PendingInv, NothingLeftPending, Over
<1> QED
  BY <1>1, <1>2, <1>3, PTL DEF Spec

-------------------------------------------------------------------------------
(* FrameSession: every caller its own frames.                               *)

First(k) == SubSeq(frames, 1, k)

\* What c's are after each of the frames of s.
Dealing(after, c, s) ==
  /\ after \in [0..Len(s) -> Seq(FrameSet)]
  /\ after[0] = <<>>
  /\ \A k \in 1..Len(s) :
       after[k] = IF s[k].req = c THEN Append(after[k - 1], s[k]) ELSE after[k - 1]
  /\ FramesOf(c, s) = after[Len(s)]

LEMMA FramesByOne ==
  ASSUME NEW c, NEW s \in Seq(FrameSet)
  PROVE  \E after : Dealing(after, c, s)
<1> DEFINE n == Len(s)
           D == Seq(FrameSet)
           start == <<>>
           Put1(own, f) == IF f.req = c THEN Append(own, f) ELSE own
           body(iter) == [S \in SUBSET DOMAIN s |->
                            IF S = {} THEN start
                            ELSE Put1(iter[S \ {Max(S)}], s[Max(S)])]
           step == [x \in D \X (1..n) |-> Put1(x[1], s[x[2]])]
           chosen == CHOOSE iter : iter = body(iter)
<1>1. n \in Nat /\ DOMAIN s = 1..n /\ start \in D /\ \A k \in 1..n : s[k] \in FrameSet
  OBVIOUS
<1>2. /\ step \in StepsIn(n, D)
      /\ \A x \in D, k \in 1..n : step[<<x, k>>] = Put1(x, s[k])
  <2>1. \A own \in D, f \in FrameSet : Put1(own, f) \in D
    OBVIOUS
  <2> HIDE DEF Put1, D
  <2>2. \A x \in D \X (1..n) : Put1(x[1], s[x[2]]) \in D
    BY <1>1, <2>1
  <2> QED
    BY <2>2 DEF StepsIn
<1>3. \A S \in SUBSET (1..n) : S # {} => Max(S) \in S /\ Max(S) \in 1..n
  BY <1>1, LastOf
<1>4. FramesOf(c, s) = chosen[1..n]
  BY <1>1 DEF FramesOf, FoldLeft, MapThenFoldSet
<1> HIDE DEF step, n, D, start, Put1
<1>5. chosen = body(chosen)
  <2>1. PICK iter : IsFold(iter, n, D, start, step)
    BY <1>1, <1>2, FoldExists
  <2>2. iter = body(iter)
    BY <1>1, <1>2, <1>3, <2>1 DEF IsFold
  <2> HIDE DEF body
  <2> QED
    BY <2>2
<1> HIDE DEF chosen
<1>6. PICK after : ValuesOf(after, n, D, start, step) /\ after[n] = chosen[1..n]
  <2>1. chosen[{}] = start
    BY <1>1, <1>5
  <2>2. \A S \in SUBSET (1..n) :
          S # {} /\ chosen[S \ {Max(S)}] \in D =>
            chosen[S] = step[<<chosen[S \ {Max(S)}], Max(S)>>]
    <3> SUFFICES ASSUME NEW S \in SUBSET (1..n), S # {}, chosen[S \ {Max(S)}] \in D
                 PROVE  chosen[S] = step[<<chosen[S \ {Max(S)}], Max(S)>>]
      OBVIOUS
    <3>1. chosen[S] = Put1(chosen[S \ {Max(S)}], s[Max(S)])
      BY <1>1, <1>5
    <3> QED
      BY <1>2, <1>3, <3>1
  <2>3. FoldsOn(chosen, n, D, start, step)
    BY <2>1, <2>2 DEF FoldsOn
  <2> QED
    BY <1>1, <1>2, <2>3, FoldInOrder
<1>7. \A k \in 1..n : after[k] = Put1(after[k - 1], s[k])
  <2> SUFFICES ASSUME NEW k \in 1..n PROVE after[k] = Put1(after[k - 1], s[k])
    OBVIOUS
  <2>1. after[k - 1] \in D /\ after[k] = step[<<after[k - 1], k>>]
    BY <1>1, <1>6 DEF ValuesOf
  <2> QED
    BY <1>2, <2>1
<1>8. after \in [0..n -> D] /\ after[0] = start /\ FramesOf(c, s) = after[n]
  BY <1>4, <1>6 DEF ValuesOf
<1>9. Dealing(after, c, s)
  BY <1>7, <1>8 DEF Dealing, n, D, start, Put1
<1> QED
  BY <1>9

\* What is c's of the first frames grows by a frame of c's and by nothing else.
GrowsByOne(c, s) ==
  /\ FramesOf(c, SubSeq(s, 1, 0)) = <<>>
  /\ \A k \in 0..Len(s) : FramesOf(c, SubSeq(s, 1, k)) \in Seq(FrameSet)
  /\ \A k \in 1..Len(s) :
       FramesOf(c, SubSeq(s, 1, k)) =
         IF s[k].req = c THEN Append(FramesOf(c, SubSeq(s, 1, k - 1)), s[k])
         ELSE FramesOf(c, SubSeq(s, 1, k - 1))

LEMMA FramesOfFirst ==
  ASSUME NEW c, NEW s \in Seq(FrameSet)
  PROVE  GrowsByOne(c, s)
<1>1. PICK after : Dealing(after, c, s)
  BY FramesByOne
<1>2. ASSUME NEW k \in 0..Len(s)
      PROVE  FramesOf(c, SubSeq(s, 1, k)) = after[k]
  <2> DEFINE t == SubSeq(s, 1, k)
  <2>1. t \in Seq(FrameSet) /\ Len(t) = k /\ k \in Nat /\ \A j \in 1..k : t[j] = s[j]
    OBVIOUS
  <2> HIDE DEF t
  <2>2. PICK own : Dealing(own, c, t)
    BY <2>1, FramesByOne
  <2> DEFINE P == {j \in 0..k : own[j] = after[j]}
  <2>3. 0 \in P
    BY <1>1, <2>1, <2>2 DEF Dealing
  <2>4. ASSUME NEW j \in 1..k, j - 1 \in P PROVE j \in P
    <3>1. own[j - 1] = after[j - 1] /\ j \in 1..Len(s) /\ t[j] = s[j]
      BY <2>1, <2>4
    <3>2. own[j] = after[j]
      BY <1>1, <2>1, <2>2, <3>1 DEF Dealing
    <3> QED
      BY <2>1, <3>2
  <2>5. 0..k \subseteq P
    <3> HIDE DEF P
    <3> QED
      BY <2>1, <2>3, <2>4, Ascent
  <2>6. FramesOf(c, t) = own[k]
    BY <2>1, <2>2, Zenon DEF Dealing
  <2>7. own[k] = after[k]
    BY <2>1, <2>5
  <2> QED
    BY <2>6, <2>7 DEF t
<1>3. \A k \in 1..Len(s) : k \in 0..Len(s) /\ k - 1 \in 0..Len(s)
  OBVIOUS
<1>4. 0 \in 0..Len(s) /\ after[0] = <<>> /\ \A k \in 0..Len(s) : after[k] \in Seq(FrameSet)
  <2>1. Len(s) \in Nat
    OBVIOUS
  <2>2. after \in [0..Len(s) -> Seq(FrameSet)] /\ after[0] = <<>>
    BY <1>1, Zenon DEF Dealing
  <2> QED
    BY ONLY <2>1, <2>2
<1>5. \A k \in 1..Len(s) :
        after[k] = IF s[k].req = c THEN Append(after[k - 1], s[k]) ELSE after[k - 1]
  BY <1>1 DEF Dealing
<1> DEFINE first(k) == FramesOf(c, SubSeq(s, 1, k))
<1>6. \A k \in 0..Len(s) : first(k) = after[k]
  BY <1>2
<1> HIDE DEF first
<1>7. /\ first(0) = <<>>
      /\ \A k \in 0..Len(s) : first(k) \in Seq(FrameSet)
      /\ \A k \in 1..Len(s) :
           first(k) = IF s[k].req = c THEN Append(first(k - 1), s[k]) ELSE first(k - 1)
  BY <1>3, <1>4, <1>5, <1>6
<1> QED
  BY <1>7 DEF first, GrowsByOne

\* Where none of the later frames is c's, c has what it has of the first ones.
LEMMA NoneLater ==
  ASSUME NEW c, NEW s \in Seq(FrameSet), NEW k \in 0..Len(s),
         \A j \in (k + 1)..Len(s) : s[j].req # c
  PROVE  FramesOf(c, SubSeq(s, 1, k)) = FramesOf(c, s)
<1> DEFINE own(j) == FramesOf(c, SubSeq(s, 1, j))
           P == {d \in 0..(Len(s) - k) : own(k + d) = own(k)}
<1>1. \A j \in 1..Len(s) : s[j].req # c => own(j) = own(j - 1)
  BY FramesOfFirst DEF GrowsByOne
<1>2. 0 \in P
  OBVIOUS
<1>3. ASSUME NEW d \in 1..(Len(s) - k), d - 1 \in P PROVE d \in P
  <2>1. k + d \in (k + 1)..Len(s) /\ k + d \in 1..Len(s) /\ (k + d) - 1 = k + (d - 1)
    OBVIOUS
  <2>2. own(k + d) = own(k + (d - 1))
    BY <1>1, <2>1
  <2>3. own(k + (d - 1)) = own(k)
    BY <1>3
  <2> QED
    BY <2>2, <2>3
<1>4. Len(s) - k \in P
  <2> DEFINE m == Len(s) - k
  <2>1. m \in Nat
    OBVIOUS
  <2>2. \A d \in 1..m : d - 1 \in P => d \in P
    BY <1>3
  <2> HIDE DEF P, m
  <2>3. 0..m \subseteq P
    BY <1>2, <2>1, <2>2, Ascent
  <2> QED
    BY <2>1, <2>3 DEF m
<1>5. own(k + (Len(s) - k)) = own(k) /\ k + (Len(s) - k) = Len(s)
  BY <1>4
<1>6. SubSeq(s, 1, Len(s)) = s
  OBVIOUS
<1> QED
  BY <1>5, <1>6

\* What is c's of the first frames comes first in what is c's.
LEMMA FirstOnesFirst ==
  ASSUME NEW c, NEW s \in Seq(FrameSet), NEW k \in 0..Len(s)
  PROVE  IsPrefix(FramesOf(c, SubSeq(s, 1, k)), FramesOf(c, s))
<1> DEFINE own(j) == FramesOf(c, SubSeq(s, 1, j))
           Q(j) == /\ Len(own(k)) <= Len(own(j))
                   /\ \A i \in 1..Len(own(k)) : own(j)[i] = own(k)[i]
           P == {d \in 0..(Len(s) - k) : Q(k + d)}
<1>1. /\ \A j \in 0..Len(s) : own(j) \in Seq(FrameSet)
      /\ \A j \in 1..Len(s) : own(j) = IF s[j].req = c THEN Append(own(j - 1), s[j]) ELSE own(j - 1)
  BY FramesOfFirst DEF GrowsByOne
<1> HIDE DEF own
<1>2. 0 \in P
  <2>1. Len(own(k)) \in Nat /\ k + 0 = k
    BY <1>1
  <2> QED
    BY <2>1
<1>3. ASSUME NEW d \in 1..(Len(s) - k), d - 1 \in P PROVE d \in P
  <2> DEFINE j == k + d
  <2>1. j \in 1..Len(s) /\ j - 1 = k + (d - 1) /\ j - 1 \in 0..Len(s)
    OBVIOUS
  <2>2. Q(j - 1)
    BY <1>3, <2>1
  <2>3. own(j - 1) \in Seq(FrameSet) /\ own(k) \in Seq(FrameSet) /\ s[j] \in FrameSet
    BY <1>1, <2>1
  <2> HIDE DEF j
  <2>4. own(j) = own(j - 1) \/ own(j) = Append(own(j - 1), s[j])
    BY <1>1, <2>1
  <2>5. Q(j)
    <3>1. CASE own(j) = own(j - 1)
      BY <2>2, <3>1
    <3>2. CASE own(j) = Append(own(j - 1), s[j])
      <4> DEFINE p == own(j - 1)
                 q == own(j)
      <4>1. /\ Len(q) = Len(p) + 1 /\ \A i \in 1..Len(p) : q[i] = p[i]
            /\ Len(p) \in Nat /\ Len(own(k)) \in Nat
        BY <2>3, <3>2, AppendProperties
      <4> QED
        BY <2>2, <4>1
    <3> QED
      BY <2>4, <3>1, <3>2
  <2> QED
    BY <2>5 DEF j
<1>4. Len(s) - k \in P
  <2> DEFINE m == Len(s) - k
  <2>1. m \in Nat
    OBVIOUS
  <2>2. \A d \in 1..m : d - 1 \in P => d \in P
    BY <1>3
  <2> HIDE DEF P, m
  <2>3. 0..m \subseteq P
    BY <1>2, <2>1, <2>2, Ascent
  <2> QED
    BY <2>1, <2>3 DEF m
<1>5. Q(Len(s))
  <2>1. k + (Len(s) - k) = Len(s)
    OBVIOUS
  <2> QED
    BY <1>4, <2>1
<1>6. own(Len(s)) = FramesOf(c, s)
  <2>1. SubSeq(s, 1, Len(s)) = s
    OBVIOUS
  <2> QED
    BY <2>1 DEF own
<1>7. own(k) \in Seq(FrameSet) /\ own(Len(s)) \in Seq(FrameSet)
  BY <1>1
<1> HIDE DEF Q
<1>8. IsPrefix(own(k), own(Len(s)))
  <2> DEFINE p == own(k)
             q == own(Len(s))
  <2>1. /\ p \in Seq(FrameSet) /\ q \in Seq(FrameSet) /\ Len(p) <= Len(q)
        /\ \A i \in 1..Len(p) : q[i] = p[i]
    BY <1>5, <1>7 DEF Q
  <2> HIDE DEF p, q
  <2>2. SubSeq(p, 1, Len(p)) = SubSeq(q, 1, Len(p))
    BY <2>1
  <2>3. IsPrefix(p, q)
    BY <2>1, <2>2 DEF IsPrefix
  <2> QED
    BY <2>3 DEF p, q
<1> QED
  BY <1>6, <1>8 DEF own

\* How many of the frames the loop has routed to the end, and what c was given.
Dealt == IF loop \in {"route", "write", "set"} THEN taken - 1 ELSE taken
Given(c) == IF c \in Streams THEN got[c] \o channel[c] ELSE got[c]

DealTypes ==
  /\ queue \in Seq(Calls) /\ frames \in Seq(FrameSet) /\ taken \in 0..Len(frames)
  /\ got \in [Calls -> Seq(FrameSet)] /\ channel \in [Streams -> Seq(FrameSet)]
  /\ writable \subseteq Streams

\* The context answers a request once, to its last frame, and only what was sent.
Unasked(c) ==
  (\A i \in 1..Len(queue) : queue[i] # c) /\ (\A k \in 1..Len(frames) : frames[k].req # c)
ServerInv ==
  /\ \A i, j \in 1..Len(queue) : queue[i] = queue[j] => i = j
  /\ \A k \in 1..Len(frames) : frames[k].last =>
       /\ \A i \in 1..Len(queue) : queue[i] # frames[k].req
       /\ \A j \in (k + 1)..Len(frames) : frames[j].req # frames[k].req
  /\ \A c \in Calls : call[c] \in {"idle", "added"} => Unasked(c)

\* The loop has the frame in hand that it took last; disposal goes on, and the
\* context is closed, only when the loop is gone.
HandInv ==
  /\ loop \in {"route", "write", "finish", "set"} => taken > 0 /\ hand = <<frames[taken]>>
  /\ loop \in {"write", "finish"} => hand[1].req \in Streams
  /\ loop = "finish" => hand[1].last
  /\ loop = "set" => hand[1].req \in Singles
  /\ disposer \in {"failing", "closing", "done"} => loop = "exited"
  /\ closed => disposer = "done"

\* Everyone has the first of its frames.  A stream that can be written has all that
\* are routed; one that nobody stopped, and that cannot be written any more, has all.
\* A call that waits for its only frame has none yet.
Waiting(c) == c \in pending \/ (loop = "set" /\ hand[1].req = c)
Complete(c) ==
  /\ Given(c) = FramesOf(c, frames)
  /\ call[c] \notin {"idle", "added"} /\ \A i \in 1..Len(queue) : queue[i] # c
DealInv ==
  /\ \A c \in writable :
       Given(c) = FramesOf(c, First(Dealt)) /\ (c \in pending \/ call[c] = "idle")
  /\ \A c \in Calls : \E k \in 0..Len(frames) : Given(c) = FramesOf(c, First(k))
  /\ \A c \in Singles : Waiting(c) => FramesOf(c, First(Dealt)) = <<>>
  /\ \A c \in Streams \ (writable \cup token \cup stops) :
       loop # "exited" /\ call[c] # "failed" => Complete(c)

FrameInv == DealTypes /\ ServerInv /\ HandInv /\ DealInv

\* What most steps do: nobody is given anything, and what is taken from the queue or
\* put there was sent.
CallsGoOn ==
  \A c \in Calls : /\ call'[c] \in {"idle", "added"} => call[c] \in {"idle", "added"}
                   /\ call'[c] = "idle" => call[c] = "idle"
                   /\ call[c] = "failed" => call'[c] = "failed"
GivenStay ==
  /\ got' \in [Calls -> Seq(FrameSet)] /\ channel' \in [Streams -> Seq(FrameSet)]
  /\ \A c \in Calls : Given(c)' = Given(c)
StreamsClose ==
  /\ writable' \subseteq writable /\ token \subseteq token' /\ stops \subseteq stops'
  /\ \A c \in writable' : c \in pending' \/ call'[c] = "idle"
  /\ \A c \in writable \ writable' :
       c \in token' \cup stops' \/ call'[c] = "failed" \/ loop' = "exited" \/ Complete(c)
QueueGoesOn ==
  \A i \in 1..Len(queue') : \/ call[queue'[i]] = "added" /\ call'[queue'[i]] \notin {"idle", "added"}
                            \/ \E j \in 1..Len(queue) : queue'[i] = queue[j]
Quiet ==
  /\ UNCHANGED frames /\ Dealt' = Dealt
  /\ CallsGoOn /\ GivenStay /\ StreamsClose /\ QueueGoesOn
  /\ loop = "exited" => loop' = "exited"
  /\ \A c \in Singles : Waiting(c)' => Waiting(c) \/ call[c] = "idle"

LEMMA DealtRange ==
  ASSUME DealTypes, HandInv
  PROVE  Dealt \in 0..Len(frames)
BY DEF DealTypes, HandInv, Dealt

\* Nothing was answered, so nothing is there of what the loop has routed.
LEMMA NothingYet ==
  ASSUME DealTypes, NEW c, NEW k \in 0..Len(frames), \A j \in 1..Len(frames) : frames[j].req # c
  PROVE  FramesOf(c, First(k)) = <<>>
<1> DEFINE t == First(k)
<1>1. t \in Seq(FrameSet) /\ Len(t) = k /\ k \in Nat /\ \A j \in 1..k : t[j] = frames[j]
  BY DEF DealTypes, First
<1>2. \A j \in (0 + 1)..Len(t) : t[j].req # c
  BY <1>1
<1> HIDE DEF t
<1>3. FramesOf(c, SubSeq(t, 1, 0)) = FramesOf(c, t)
  BY <1>1, <1>2, NoneLater
<1>4. FramesOf(c, SubSeq(t, 1, 0)) = <<>>
  BY <1>1, FramesOfFirst DEF GrowsByOne
<1> QED
  BY <1>3, <1>4 DEF t

LEMMA QuietDeal ==
  ASSUME FrameInv, Quiet
  PROVE  DealInv'
<1>1. Dealt' = Dealt /\ frames' = frames /\ Dealt \in 0..Len(frames)
  BY DealtRange DEF FrameInv, Quiet
<1>2. \A k : First(k)' = First(k)
  BY <1>1 DEF First
<1>3. /\ \A c \in Calls : Given(c)' = Given(c)
      /\ Streams \subseteq Calls /\ writable \subseteq Streams /\ Singles \subseteq Calls
  BY FrameSessionAssumption DEF Quiet, GivenStay, FrameInv, DealTypes, Singles
<1>4. ASSUME NEW c \in writable'
      PROVE  Given(c)' = FramesOf(c, First(Dealt))' /\ (c \in pending' \/ call'[c] = "idle")
  <2>1. c \in writable /\ (c \in pending' \/ call'[c] = "idle")
    BY <1>4 DEF Quiet, StreamsClose
  <2>2. Given(c) = FramesOf(c, First(Dealt)) /\ Given(c)' = Given(c)
    BY <1>3, <2>1 DEF FrameInv, DealInv
  <2> QED
    BY <1>1, <1>2, <2>1, <2>2
<1>5. ASSUME NEW c \in Calls
      PROVE  \E k \in 0..Len(frames') : Given(c)' = FramesOf(c, First(k))'
  <2>1. PICK k \in 0..Len(frames) : Given(c) = FramesOf(c, First(k))
    BY DEF FrameInv, DealInv
  <2> QED
    BY <1>1, <1>2, <1>3, <2>1
<1>6. ASSUME NEW c \in Singles, Waiting(c)'
      PROVE  FramesOf(c, First(Dealt))' = <<>>
  <2>1. FramesOf(c, First(Dealt)) = <<>>
    <3>1. CASE Waiting(c)
      BY <3>1 DEF FrameInv, DealInv
    <3>2. CASE call[c] = "idle"
      <4>1. \A j \in 1..Len(frames) : frames[j].req # c
        BY <1>3, <3>2 DEF FrameInv, ServerInv, Unasked
      <4> QED
        BY <1>1, <4>1, NothingYet DEF FrameInv
    <3> QED
      BY <1>6, <3>1, <3>2 DEF Quiet
  <2> QED
    BY <1>1, <1>2, <2>1
<1>7. ASSUME NEW c \in Streams \ (writable' \cup token' \cup stops'),
             loop' # "exited", call'[c] # "failed"
      PROVE  Complete(c)'
  <2>1. Complete(c)
    <3>1. CASE c \in writable
      BY <1>7, <3>1 DEF Quiet, StreamsClose
    <3>2. CASE c \notin writable
      <4>1. /\ c \in Streams \ (writable \cup token \cup stops)
            /\ loop # "exited" /\ call[c] # "failed"
        BY <1>3, <1>7, <3>2 DEF Quiet, StreamsClose, CallsGoOn
      <4> QED
        BY <4>1 DEF FrameInv, DealInv
    <3> QED
      BY <3>1, <3>2
  <2>2. Given(c)' = Given(c) /\ call'[c] \notin {"idle", "added"}
    BY <1>3, <2>1 DEF Complete, Quiet, CallsGoOn
  <2>3. \A i \in 1..Len(queue') : queue'[i] # c
    <3> SUFFICES ASSUME NEW i \in 1..Len(queue'), queue'[i] = c PROVE FALSE
      OBVIOUS
    <3>1. \/ call[c] = "added"
          \/ \E j \in 1..Len(queue) : queue[j] = c
      BY DEF Quiet, QueueGoesOn
    <3> QED
      BY <2>1, <3>1 DEF Complete
  <2> QED
    BY <1>1, <2>1, <2>2, <2>3 DEF Complete
<1> QED
  BY <1>4, <1>5, <1>6, <1>7 DEF DealInv

LEMMA QuietServer ==
  ASSUME FrameInv, CallsGoOn, QueueGoesOn, UNCHANGED frames, queue' \in Seq(Calls),
         \A i, j \in 1..Len(queue') : queue'[i] = queue'[j] => i = j
  PROVE  ServerInv'
<1>1. \A i \in 1..Len(queue'), k \in 1..Len(frames) : frames[k].last => queue'[i] # frames[k].req
  <2> SUFFICES ASSUME NEW i \in 1..Len(queue'), NEW k \in 1..Len(frames),
                      frames[k].last, queue'[i] = frames[k].req
               PROVE  FALSE
    OBVIOUS
  <2>1. queue'[i] \in Calls
    OBVIOUS
  <2>2. CASE call[queue'[i]] = "added"
    BY <2>1, <2>2 DEF FrameInv, ServerInv, Unasked
  <2>3. CASE \E j \in 1..Len(queue) : queue'[i] = queue[j]
    BY <2>3 DEF FrameInv, ServerInv
  <2> QED
    BY <2>2, <2>3 DEF QueueGoesOn
<1>2. ASSUME NEW c \in Calls, call'[c] \in {"idle", "added"}
      PROVE  Unasked(c)'
  <2>1. Unasked(c) /\ call[c] \in {"idle", "added"}
    BY <1>2 DEF FrameInv, ServerInv, CallsGoOn
  <2>2. \A i \in 1..Len(queue') : queue'[i] # c
    BY <1>2, <2>1 DEF QueueGoesOn, Unasked
  <2> QED
    BY <2>1, <2>2 DEF Unasked
<1>3. \A k \in 1..Len(frames) : frames[k].last =>
        \A j \in (k + 1)..Len(frames) : frames[j].req # frames[k].req
  BY DEF FrameInv, ServerInv
<1> QED
  BY <1>1, <1>2, <1>3 DEF ServerInv

\* A caller's steps, but for what they do to its streams.
LEMMA CallerGoesOn ==
  ASSUME PendingInv, NEW c \in Calls, NEW place \in Places \ {"idle"}, Goto(c, place),
         call[c] # "failed", place = "added" => call[c] = "idle"
  PROVE  /\ CallsGoOn
         /\ \A d \in Calls : call'[d] = IF d = c THEN place ELSE call[d]
<1>1. \A d \in Calls : call'[d] = IF d = c THEN place ELSE call[d]
  BY DEF PendingInv, Goto
<1> QED
  BY <1>1 DEF CallsGoOn

LEMMA StayQuiet ==
  ASSUME DealTypes, UNCHANGED <<got, channel>>
  PROVE  GivenStay
BY DEF DealTypes, GivenStay, Given

LEMMA QueueStays ==
  ASSUME UNCHANGED queue
  PROVE  QueueGoesOn
BY DEF QueueGoesOn

\* What is read goes from the channel to its consumer.
LEMMA ReadStays ==
  ASSUME DealTypes, NEW c \in Streams, channel[c] # <<>>,
         got' = [got EXCEPT ![c] = Append(@, Head(channel[c]))],
         channel' = [channel EXCEPT ![c] = Tail(@)]
  PROVE  GivenStay
<1> DEFINE g == got[c]
           q == channel[c]
<1>1. g \in Seq(FrameSet) /\ q \in Seq(FrameSet) /\ q # <<>> /\ c \in Calls
  BY FrameSessionAssumption DEF DealTypes
<1>2. /\ got' = [got EXCEPT ![c] = Append(g, Head(q))]
      /\ channel' = [channel EXCEPT ![c] = Tail(q)]
  OBVIOUS
<1> HIDE DEF g, q
<1>3. /\ Append(g, Head(q)) \in Seq(FrameSet) /\ Tail(q) \in Seq(FrameSet)
      /\ Head(q) \in FrameSet /\ Len(q) \in Nat \ {0} /\ Len(Tail(q)) = Len(q) - 1
      /\ \A i \in 1..Len(Tail(q)) : Tail(q)[i] = q[i + 1]
      /\ Head(q) = q[1]
  BY <1>1
<1>4. Append(g, Head(q)) \o Tail(q) = g \o q
  <2> DEFINE a == Append(g, Head(q)) \o Tail(q)
             b == g \o q
  <2>1. /\ a \in Seq(FrameSet) /\ b \in Seq(FrameSet)
        /\ Len(a) = Len(g) + Len(q) /\ Len(b) = Len(g) + Len(q) /\ Len(g) \in Nat
    BY <1>1, <1>3
  <2>2. ASSUME NEW i \in 1..Len(a) PROVE a[i] = b[i]
    <3>1. CASE i <= Len(g)
      BY <1>1, <1>3, <2>1, <3>1
    <3>2. CASE i = Len(g) + 1
      BY <1>1, <1>3, <2>1, <3>2
    <3>3. CASE i > Len(g) + 1
      <4>1. a[i] = Tail(q)[i - (Len(g) + 1)] /\ b[i] = q[i - Len(g)]
        BY <1>1, <1>3, <2>1, <2>2, <3>3
      <4>2. i - (Len(g) + 1) \in 1..Len(Tail(q)) /\ (i - (Len(g) + 1)) + 1 = i - Len(g)
        BY <1>3, <2>1, <2>2, <3>3
      <4> QED
        BY <1>3, <4>1, <4>2
    <3> QED
      BY <2>1, <3>1, <3>2, <3>3
  <2> HIDE DEF a, b
  <2>3. a = b
    BY <2>1, <2>2
  <2> QED
    BY <2>3 DEF a, b
<1>5. got' \in [Calls -> Seq(FrameSet)] /\ channel' \in [Streams -> Seq(FrameSet)]
  <2> DEFINE D == Seq(FrameSet)
             given == Append(g, Head(q))
             rest == Tail(q)
  <2>1. /\ given \in D /\ rest \in D
        /\ got \in [Calls -> D] /\ channel \in [Streams -> D]
        /\ got' = [got EXCEPT ![c] = given] /\ channel' = [channel EXCEPT ![c] = rest]
    BY <1>2, <1>3 DEF DealTypes
  <2> HIDE DEF D, given, rest
  <2>2. got' \in [Calls -> D] /\ channel' \in [Streams -> D]
    BY <2>1
  <2> QED
    BY <2>2 DEF D
<1>6. ASSUME NEW d \in Calls PROVE Given(d)' = Given(d)
  <2>1. CASE d = c
    <3>1. got'[c] = Append(g, Head(q)) /\ channel'[c] = Tail(q)
      BY <1>1, <1>2 DEF DealTypes
    <3> QED
      BY <1>4, <2>1, <3>1 DEF Given, g, q
  <2>2. CASE d # c
    <3>1. got'[d] = got[d] /\ (d \in Streams => channel'[d] = channel[d])
      BY <1>2, <2>2 DEF DealTypes
    <3> QED
      BY <3>1 DEF Given
  <2> QED
    BY <2>1, <2>2
<1> QED
  BY <1>5, <1>6 DEF GivenStay

\* What a step of a caller does, but for Send.
LEMMA CallerQuiet ==
  ASSUME FrameInv, PendingInv, NEW c \in Calls,
         \/ Add(c) \/ SendThrows(c) \/ Register(c) \/ CancelToken(c)
         \/ Return(c) \/ Read(c) \/ ReadEnds(c) \/ Abandon(c) \/ Leave(c)
  PROVE  /\ CallsGoOn /\ GivenStay /\ StreamsClose
         /\ \A d \in Singles : d \in pending' => d \in pending \/ call[d] = "idle"
<1>0. /\ DealTypes /\ writable \subseteq Streams /\ Streams \subseteq Calls
      /\ Singles \subseteq Calls
      /\ \A d \in writable : d \in pending \/ call[d] = "idle"
      /\ closed => loop = "exited"
  BY FrameSessionAssumption DEF FrameInv, DealTypes, DealInv, HandInv, Singles
<1>1. CASE Add(c)
  <2>1. /\ Goto(c, "added") /\ call[c] = "idle" /\ pending' = pending \cup {c}
        /\ UNCHANGED <<got, channel, writable, token, stops>>
    BY <1>1 DEF Add
  <2>2. CallsGoOn /\ \A d \in Calls : call'[d] = IF d = c THEN "added" ELSE call[d]
    BY <2>1, CallerGoesOn DEF Places
  <2>3. StreamsClose
    BY <1>0, <2>1, <2>2 DEF StreamsClose
  <2> QED
    BY <1>0, <2>1, <2>2, <2>3, StayQuiet
<1>2. CASE SendThrows(c)
  <2>1. /\ Goto(c, "failed") /\ call[c] = "added" /\ pending' = pending \ {c}
        /\ writable' = writable \ {c} /\ UNCHANGED <<got, channel, token, stops>>
    BY <1>2 DEF SendThrows
  <2>2. CallsGoOn /\ \A d \in Calls : call'[d] = IF d = c THEN "failed" ELSE call[d]
    BY <2>1, CallerGoesOn DEF Places, Over
  <2>3. StreamsClose
    BY <1>0, <2>1, <2>2 DEF StreamsClose
  <2> QED
    BY <1>0, <2>1, <2>2, <2>3, StayQuiet
<1>3. CASE Register(c)
  <2>1. /\ Goto(c, "waiting") /\ call[c] = "sent" /\ UNCHANGED <<got, channel, token>>
        /\ \/ UNCHANGED <<stops, writable, pending>>
           \/ /\ c \in token /\ pending' = pending \ {c}
              /\ writable' = writable \ (pending \cap {c}) /\ stops \subseteq stops'
    BY <1>3 DEF Register, Cancelled
  <2>2. CallsGoOn /\ \A d \in Calls : call'[d] = IF d = c THEN "waiting" ELSE call[d]
    BY <2>1, CallerGoesOn DEF Places
  <2>3. StreamsClose
    BY <1>0, <2>1, <2>2 DEF StreamsClose
  <2> QED
    BY <1>0, <2>1, <2>2, <2>3, StayQuiet
<1>4. CASE CancelToken(c)
  <2>1. /\ UNCHANGED <<call, got, channel>> /\ token' = token \cup {c} /\ call[c] # "idle"
        /\ \/ UNCHANGED <<stops, writable, pending>>
           \/ /\ pending' = pending \ {c}
              /\ writable' = writable \ (pending \cap {c}) /\ stops \subseteq stops'
    BY <1>4 DEF CancelToken, Cancelled, Over
  <2>2. CallsGoOn
    BY <2>1 DEF CallsGoOn
  <2>3. StreamsClose
    BY <1>0, <2>1 DEF StreamsClose
  <2> QED
    BY <1>0, <2>1, <2>2, <2>3, StayQuiet
<1>5. CASE Return(c) \/ ReadEnds(c) \/ Abandon(c)
  <2>1. /\ call[c] = "waiting"
        /\ \E place \in {"returned", "failed", "cancelled", "leaving"} : Goto(c, place)
        /\ UNCHANGED <<got, channel, writable, token, stops, pending>>
    BY <1>5 DEF Return, ReadEnds, Abandon
  <2>2. /\ CallsGoOn
        /\ \A d \in Calls : call'[d] = "idle" <=> call[d] = "idle"
    <3>1. PICK place \in {"returned", "failed", "cancelled", "leaving"} : Goto(c, place)
      BY <2>1
    <3>2. CallsGoOn /\ \A d \in Calls : call'[d] = IF d = c THEN place ELSE call[d]
      BY <2>1, <3>1, CallerGoesOn DEF Places, Over
    <3> QED
      BY <2>1, <3>2
  <2>3. StreamsClose
    BY <1>0, <2>1, <2>2 DEF StreamsClose
  <2> QED
    BY <1>0, <2>1, <2>2, <2>3, StayQuiet
<1>6. CASE Read(c)
  <2>1. /\ call[c] = "waiting" /\ c \in Streams /\ channel[c] # <<>>
        /\ \E place \in {"waiting", "leaving"} : Goto(c, place)
        /\ UNCHANGED <<writable, token, stops, pending>>
    BY <1>6 DEF Read
  <2>2. /\ CallsGoOn
        /\ \A d \in Calls : call'[d] = "idle" <=> call[d] = "idle"
    <3>1. PICK place \in {"waiting", "leaving"} : Goto(c, place)
      BY <2>1
    <3>2. CallsGoOn /\ \A d \in Calls : call'[d] = IF d = c THEN place ELSE call[d]
      BY <2>1, <3>1, CallerGoesOn DEF Places
    <3> QED
      BY <2>1, <3>2
  <2>3. StreamsClose
    BY <1>0, <2>1, <2>2 DEF StreamsClose
  <2>4. GivenStay
    <3>1. /\ got' = [got EXCEPT ![c] = Append(@, Head(channel[c]))]
          /\ channel' = [channel EXCEPT ![c] = Tail(@)]
      BY <1>6 DEF Read
    <3> QED
      BY <1>0, <2>1, <3>1, ReadStays
  <2> QED
    BY <1>0, <2>1, <2>2, <2>3, <2>4
<1>7. CASE Leave(c)
  <2>1. /\ call[c] = "leaving" /\ Goto(c, "ended") /\ pending' = pending \ {c}
        /\ UNCHANGED <<got, channel, token, loop>>
        /\ \/ c \notin pending /\ UNCHANGED <<writable, stops>>
           \/ /\ writable' = writable \ {c} /\ stops \subseteq stops'
              /\ c \in token \/ closed \/ c \in stops'
    BY <1>7 DEF Leave, dispatch
  <2>2. CallsGoOn /\ \A d \in Calls : call'[d] = IF d = c THEN "ended" ELSE call[d]
    BY <2>1, CallerGoesOn DEF Places, Over
  <2>3. StreamsClose
    <3>1. CASE c \notin pending /\ UNCHANGED <<writable, stops>>
      <4>1. c \notin writable
        BY <1>0, <2>1, <3>1
      <4> QED
        BY <1>0, <2>1, <2>2, <3>1, <4>1 DEF StreamsClose
    <3>2. CASE /\ writable' = writable \ {c} /\ stops \subseteq stops'
               /\ c \in token \/ closed \/ c \in stops'
      BY <1>0, <2>1, <2>2, <3>2 DEF StreamsClose
    <3> QED
      BY <2>1, <3>1, <3>2
  <2> QED
    BY <1>0, <2>1, <2>2, <2>3, StayQuiet
<1> QED
  BY <1>1, <1>2, <1>3, <1>4, <1>5, <1>6, <1>7

LEMMA CallerFrames ==
  ASSUME FrameInv, PendingInv, NEW c \in Calls,
         \/ Add(c) \/ Send(c) \/ SendThrows(c) \/ Register(c) \/ CancelToken(c)
         \/ Return(c) \/ Read(c) \/ ReadEnds(c) \/ Abandon(c) \/ Leave(c)
  PROVE  FrameInv'
<1>1. UNCHANGED <<frames, closed, taken, loop, hand, disposer>>
  BY DEF Add, Send, SendThrows, Register, CancelToken, Return, Read, ReadEnds, Abandon, Leave,
         server, dispatch, Server!Accept
<1>2. /\ CallsGoOn /\ GivenStay /\ StreamsClose /\ QueueGoesOn /\ queue' \in Seq(Calls)
      /\ \A i, j \in 1..Len(queue') : queue'[i] = queue'[j] => i = j
      /\ \A d \in Singles : d \in pending' => d \in pending \/ call[d] = "idle"
  <2>1. CASE Send(c)
    <3>1. /\ call[c] = "added" /\ Goto(c, "sent") /\ queue' = Append(queue, c)
          /\ UNCHANGED <<got, channel, token, writable, stops, pending>>
      BY <2>1 DEF Send, Server!Accept
    <3>2. CallsGoOn /\ \A d \in Calls : call'[d] = IF d = c THEN "sent" ELSE call[d]
      BY <3>1, CallerGoesOn DEF Places
    <3>3. GivenStay
      BY <3>1, StayQuiet DEF FrameInv
    <3>4. StreamsClose
      <4>1. /\ writable \subseteq Calls
            /\ \A d \in writable : d \in pending \/ call[d] = "idle"
        BY FrameSessionAssumption DEF FrameInv, DealTypes, DealInv
      <4> QED
        BY <3>1, <3>2, <4>1 DEF StreamsClose
    <3>5. /\ queue \in Seq(Calls) /\ queue' \in Seq(Calls) /\ Len(queue') = Len(queue) + 1
          /\ Len(queue) \in Nat /\ queue'[Len(queue) + 1] = c
          /\ \A i \in 1..Len(queue) : queue'[i] = queue[i]
      BY <3>1 DEF FrameInv, DealTypes
    <3>6. QueueGoesOn
      <4>1. call'[c] \notin {"idle", "added"}
        BY <3>2
      <4> QED
        BY <3>1, <3>5, <4>1 DEF QueueGoesOn
    <3>7. \A i, j \in 1..Len(queue') : queue'[i] = queue'[j] => i = j
      <4>1. \A i, j \in 1..Len(queue) : queue[i] = queue[j] => i = j
        BY DEF FrameInv, ServerInv
      <4>2. \A i \in 1..Len(queue) : queue[i] # c
        BY <3>1 DEF FrameInv, ServerInv, Unasked
      <4> QED
        BY <3>5, <4>1, <4>2
    <3> QED
      BY <3>1, <3>2, <3>3, <3>4, <3>5, <3>6, <3>7
  <2>2. CASE \/ Add(c) \/ SendThrows(c) \/ Register(c) \/ CancelToken(c)
             \/ Return(c) \/ Read(c) \/ ReadEnds(c) \/ Abandon(c) \/ Leave(c)
    <3>1. UNCHANGED queue
      BY <2>2 DEF Add, SendThrows, Register, CancelToken, Return, Read, ReadEnds, Abandon,
                  Leave, server
    <3> QED
      BY <2>2, <3>1, CallerQuiet, QueueStays DEF FrameInv, DealTypes, ServerInv
  <2> QED
    BY <2>1, <2>2
<1>3. Quiet
  <2>1. Dealt' = Dealt
    BY <1>1 DEF Dealt
  <2>2. \A d \in Singles : Waiting(d)' => Waiting(d) \/ call[d] = "idle"
    BY <1>1, <1>2 DEF Waiting
  <2> QED
    BY <1>1, <1>2, <2>1, <2>2 DEF Quiet
<1>4. DealTypes'
  BY <1>1, <1>2 DEF FrameInv, DealTypes, GivenStay, StreamsClose
<1>5. HandInv'
  BY <1>1 DEF FrameInv, HandInv
<1> QED
  BY <1>1, <1>2, <1>3, <1>4, <1>5, QuietDeal, QuietServer DEF FrameInv

\* The steps of the loop and of disposal that deal nothing.
LEMMA LoopQuiet ==
  ASSUME FrameInv, PendingInv, UNCHANGED <<queue, frames, call, got, channel>>, StreamsClose,
         pending' \subseteq pending, Dealt' = Dealt, taken' \in 0..Len(frames), HandInv',
         loop = "exited" => loop' = "exited",
         \A c \in Singles : loop' = "set" /\ hand'[1].req = c => Waiting(c)
  PROVE  FrameInv'
<1>1. CallsGoOn
  BY DEF CallsGoOn
<1>2. GivenStay
  BY StayQuiet DEF FrameInv
<1>3. QueueGoesOn
  BY QueueStays
<1>4. \A c \in Singles : Waiting(c)' => Waiting(c)
  BY DEF Waiting
<1>5. Quiet
  BY <1>1, <1>2, <1>3, <1>4 DEF Quiet
<1>6. DealTypes'
  BY DEF FrameInv, DealTypes, StreamsClose
<1>7. ServerInv'
  <2>1. queue' \in Seq(Calls) /\ \A i, j \in 1..Len(queue') : queue'[i] = queue'[j] => i = j
    BY DEF FrameInv, DealTypes, ServerInv
  <2> QED
    BY <1>1, <1>3, <2>1, QuietServer
<1> QED
  BY <1>5, <1>6, <1>7, QuietDeal DEF FrameInv

\* Whoever has a frame in hand was sent, and has had none if it has a single one.
LEMMA FrameInHand ==
  ASSUME FrameInv, loop \in {"route", "write", "finish", "set"}
  PROVE  /\ taken \in 1..Len(frames) /\ taken \in 0..Len(frames) /\ taken - 1 \in 0..Len(frames)
         /\ hand = <<frames[taken]>> /\ hand[1] = frames[taken]
         /\ hand[1] \in FrameSet /\ hand[1].req \in Calls
         /\ call[hand[1].req] \notin {"idle", "added"}
<1>1. taken \in 1..Len(frames) /\ hand = <<frames[taken]>> /\ frames \in Seq(FrameSet)
  BY DEF FrameInv, DealTypes, HandInv
<1>2. hand[1] = frames[taken] /\ frames[taken] \in FrameSet
  BY <1>1
<1>3. frames[taken].req \in Calls
  BY <1>2 DEF FrameSet
<1>4. call[frames[taken].req] \notin {"idle", "added"}
  BY <1>1, <1>3 DEF FrameInv, ServerInv, Unasked
<1> QED
  BY <1>1, <1>2, <1>3, <1>4

\* The loop is through with a frame, and its caller given it if it can be.
LEMMA DealtOn ==
  ASSUME FrameInv, PendingInv, loop \in {"route", "write", "set"},
         UNCHANGED <<queue, frames, call, token, stops, writable, pending, taken>>,
         Dealt' = taken, loop' \notin {"set", "exited"},
         NEW c, c = hand[1].req, c \in Singles => c \notin pending,
         \A d \in Calls \ {c} : Given(d)' = Given(d),
         c \in writable => Given(c)' = Append(Given(c), hand[1]),
         c \notin writable =>
           \/ Given(c)' = Given(c)
           \/ c \in Singles /\ Given(c)' = <<hand[1]>> /\ FramesOf(c, First(Dealt)) = <<>>
  PROVE  DealInv'
<1>1. /\ taken \in 1..Len(frames) /\ taken \in 0..Len(frames) /\ c \in Calls
      /\ call[c] \notin {"idle", "added"} /\ hand[1] = frames[taken] /\ frames[taken].req = c
      /\ hand[1] \in FrameSet
      /\ Dealt = taken - 1
  BY FrameInHand DEF Dealt
<1>2. /\ \A k : First(k)' = First(k)
      /\ Streams \subseteq Calls /\ writable \subseteq Streams /\ Singles \subseteq Calls
  BY FrameSessionAssumption DEF First, FrameInv, DealTypes, Singles
<1>3. \A d : FramesOf(d, First(taken)) =
               IF d = c THEN Append(FramesOf(d, First(Dealt)), hand[1])
               ELSE FramesOf(d, First(Dealt))
  <2> TAKE d
  <2>1. GrowsByOne(d, frames)
    BY FramesOfFirst DEF FrameInv, DealTypes
  <2>2. FramesOf(d, SubSeq(frames, 1, taken)) =
          IF frames[taken].req = d THEN Append(FramesOf(d, SubSeq(frames, 1, taken - 1)), frames[taken])
          ELSE FramesOf(d, SubSeq(frames, 1, taken - 1))
    BY <1>1, <2>1 DEF GrowsByOne
  <2> QED
    BY <1>1, <2>2 DEF First
<1>4. ASSUME NEW d \in writable'
      PROVE  Given(d)' = FramesOf(d, First(Dealt))' /\ (d \in pending' \/ call'[d] = "idle")
  <2>1. d \in writable /\ Given(d) = FramesOf(d, First(Dealt)) /\ (d \in pending \/ call[d] = "idle")
    BY DEF FrameInv, DealInv
  <2>2. Given(d)' = FramesOf(d, First(taken))
    BY <1>2, <1>3, <2>1
  <2> QED
    BY <1>2, <2>1, <2>2
<1>5. ASSUME NEW d \in Calls
      PROVE  \E k \in 0..Len(frames') : Given(d)' = FramesOf(d, First(k))'
  <2>1. PICK k \in 0..Len(frames) : Given(d) = FramesOf(d, First(k))
    BY DEF FrameInv, DealInv
  <2>2. CASE Given(d)' = Given(d)
    BY <1>2, <2>1, <2>2
  <2>3. CASE Given(d)' # Given(d)
    <3>1. d = c
      BY <2>3
    <3>2. CASE c \in writable
      BY <1>1, <1>2, <1>4, <3>1, <3>2
    <3>3. CASE c \notin writable
      <4>1. Given(c)' = <<hand[1]>> /\ FramesOf(c, First(Dealt)) = <<>>
        BY <2>3, <3>1, <3>3
      <4>2. FramesOf(c, First(taken)) = Append(<<>>, hand[1])
        BY <1>3, <4>1
      <4>3. Append(<<>>, hand[1]) = <<hand[1]>>
        OBVIOUS
      <4> QED
        BY <1>1, <1>2, <3>1, <4>1, <4>2, <4>3
    <3> QED
      BY <3>2, <3>3
  <2> QED
    BY <2>2, <2>3
<1>6. ASSUME NEW d \in Singles, Waiting(d)'
      PROVE  FramesOf(d, First(Dealt))' = <<>>
  <2>1. d \in pending /\ d # c
    BY <1>6 DEF Waiting
  <2>2. FramesOf(d, First(Dealt)) = <<>>
    BY <2>1 DEF FrameInv, DealInv, Waiting
  <2>3. FramesOf(d, First(taken)) = <<>>
    BY <1>3, <2>1, <2>2
  <2> QED
    BY <1>2, <2>3
<1>7. ASSUME NEW d \in Streams \ (writable' \cup token' \cup stops'),
             loop' # "exited", call'[d] # "failed"
      PROVE  Complete(d)'
  <2>1. Complete(d)
    BY <1>7 DEF FrameInv, DealInv
  <2>2. Given(d)' = Given(d)
    BY <1>2, <1>7 DEF Singles
  <2> QED
    BY <2>1, <2>2 DEF Complete
<1> QED
  BY <1>4, <1>5, <1>6, <1>7 DEF DealInv

LEMMA AnswerFrames ==
  ASSUME FrameInv, PendingInv, Answer
  PROVE  FrameInv'
<1> DEFINE n == Len(frames)
           oldest == Head(queue)
<1>1. PICK last \in BOOLEAN :
        /\ queue # <<>> /\ frames' = Append(frames, [req |-> oldest, body |-> "frame", last |-> last])
        /\ queue' = IF last THEN Tail(queue) ELSE queue
        /\ UNCHANGED <<closed, callers, dispatch, pending, disposer>>
  BY DEF Answer, Server!Produce
<1> DEFINE new == [req |-> oldest, body |-> "frame", last |-> last]
<1>2. /\ queue \in Seq(Calls) /\ frames \in Seq(FrameSet) /\ queue # <<>>
      /\ Len(queue) \in Nat \ {0} /\ oldest = queue[1] /\ oldest \in Calls /\ n \in Nat
  BY <1>1 DEF FrameInv, DealTypes
<1>3. new \in FrameSet /\ new.req = oldest /\ new.last = last
  BY <1>2 DEF FrameSet
<1>4. frames' = Append(frames, new)
  BY <1>1
<1>5. UNCHANGED <<call, token, slot, channel, writable, got, stops, taken, loop, hand, pending,
                  closed, disposer>>
  BY <1>1 DEF callers, dispatch
<1> HIDE DEF new, oldest
<1>6. /\ frames' \in Seq(FrameSet) /\ Len(frames') = n + 1 /\ frames'[n + 1] = new
      /\ \A k \in 1..n : frames'[k] = frames[k]
  BY <1>2, <1>3, <1>4
<1>7. /\ queue' \in Seq(Calls) /\ Len(queue') <= Len(queue) /\ Len(queue') \in Nat
      /\ \A i \in 1..Len(queue') : \E j \in 1..Len(queue) : queue'[i] = queue[j] /\ (last => j > 1)
      /\ \A i, j \in 1..Len(queue') : queue'[i] = queue'[j] => i = j
  <2>0. \A i, j \in 1..Len(queue) : queue[i] = queue[j] => i = j
    BY DEF FrameInv, ServerInv
  <2>1. CASE last
    <3>1. /\ queue' = Tail(queue) /\ Tail(queue) \in Seq(Calls) /\ Len(Tail(queue)) = Len(queue) - 1
          /\ \A i \in 1..Len(Tail(queue)) : Tail(queue)[i] = queue[i + 1]
      BY <1>1, <1>2, <2>1
    <3>2. \A i \in 1..Len(queue') : i + 1 \in 1..Len(queue) /\ i + 1 > 1 /\ queue'[i] = queue[i + 1]
      BY <1>2, <3>1
    <3>3. \A i, j \in 1..Len(queue') : queue'[i] = queue'[j] => i = j
      BY <1>2, <2>0, <3>1, <3>2
    <3> QED
      BY <1>2, <3>1, <3>2, <3>3
  <2>2. CASE ~last
    <3>1. queue' = queue
      BY <1>1, <2>2
    <3> QED
      BY <1>2, <2>0, <2>2, <3>1
  <2> QED
    BY <2>1, <2>2
<1>8. DealTypes'
  BY <1>2, <1>5, <1>6, <1>7 DEF FrameInv, DealTypes
<1>9. HandInv'
  <2>1. loop \in {"route", "write", "finish", "set"} => frames'[taken] = frames[taken]
    BY <1>6, FrameInHand
  <2>2. UNCHANGED <<loop, hand, taken, closed, disposer>>
    BY <1>5
  <2> QED
    BY <2>1, <2>2 DEF FrameInv, HandInv
<1>10. ServerInv'
  <2>1. \A i, j \in 1..Len(queue') : queue'[i] = queue'[j] => i = j
    BY <1>7
  <2>2. ASSUME NEW k \in 1..Len(frames'), frames'[k].last
        PROVE  /\ \A i \in 1..Len(queue') : queue'[i] # frames'[k].req
               /\ \A j \in (k + 1)..Len(frames') : frames'[j].req # frames'[k].req
    <3>1. CASE k = n + 1
      <4>1. frames'[k] = new /\ last
        BY <1>3, <1>6, <2>2, <3>1
      <4>2. \A i \in 2..Len(queue) : queue[i] # oldest
        BY <1>2 DEF FrameInv, ServerInv
      <4>3. \A i \in 1..Len(queue') : queue'[i] # oldest
        BY <1>2, <1>7, <4>1, <4>2
      <4>4. (k + 1)..Len(frames') = {}
        BY <1>2, <1>6, <3>1
      <4> QED
        BY <1>3, <4>1, <4>3, <4>4
    <3>2. CASE k # n + 1
      <4>1. k \in 1..n /\ frames'[k] = frames[k]
        BY <1>2, <1>6, <3>2
      <4>2. /\ \A i \in 1..Len(queue) : queue[i] # frames[k].req
            /\ \A j \in (k + 1)..n : frames[j].req # frames[k].req
        BY <2>2, <4>1 DEF FrameInv, ServerInv
      <4>3. oldest # frames[k].req
        BY <1>2, <4>2
      <4>4. \A j \in (k + 1)..Len(frames') : frames'[j].req # frames[k].req
        <5> SUFFICES ASSUME NEW j \in (k + 1)..Len(frames') PROVE frames'[j].req # frames[k].req
          OBVIOUS
        <5>1. CASE j = n + 1
          BY <1>3, <1>6, <4>3, <5>1
        <5>2. CASE j # n + 1
          <6>1. j \in (k + 1)..n /\ j \in 1..n
            BY <1>2, <1>6, <4>1, <5>2
          <6> QED
            BY <1>6, <4>2, <6>1
        <5> QED
          BY <5>1, <5>2
      <4>5. \A i \in 1..Len(queue') : queue'[i] # frames[k].req
        BY <1>7, <4>2
      <4> QED
        BY <4>1, <4>4, <4>5
    <3> QED
      BY <3>1, <3>2
  <2>3. ASSUME NEW c \in Calls, call'[c] \in {"idle", "added"}
        PROVE  Unasked(c)'
    <3>1. Unasked(c)
      BY <1>5, <2>3 DEF FrameInv, ServerInv
    <3>2. oldest # c
      BY <1>2, <3>1 DEF Unasked
    <3>3. \A k \in 1..Len(frames') : frames'[k].req # c
      <4> SUFFICES ASSUME NEW k \in 1..Len(frames') PROVE frames'[k].req # c
        OBVIOUS
      <4>1. CASE k = n + 1
        BY <1>3, <1>6, <3>2, <4>1
      <4>2. CASE k # n + 1
        <5>1. k \in 1..n
          BY <1>2, <1>6, <4>2
        <5> QED
          BY <1>6, <3>1, <5>1 DEF Unasked
      <4> QED
        BY <4>1, <4>2
    <3>4. \A i \in 1..Len(queue') : queue'[i] # c
      BY <1>7, <3>1 DEF Unasked
    <3> QED
      BY <3>3, <3>4 DEF Unasked
  <2> QED
    BY <2>1, <2>2, <2>3 DEF ServerInv
<1>11. \A k \in 0..n : First(k)' = First(k)
  <2> SUFFICES ASSUME NEW k \in 0..n PROVE SubSeq(frames', 1, k) = SubSeq(frames, 1, k)
    BY DEF First
  <2> QED
    BY <1>2, <1>6
<1>12. Dealt' = Dealt /\ Dealt \in 0..n
  BY <1>5, DealtRange DEF Dealt, FrameInv
<1>13. \A c \in Calls : Given(c)' = Given(c)
  BY <1>5 DEF Given
<1>14. DealInv'
  <2>0. Streams \subseteq Calls /\ writable \subseteq Streams
    BY FrameSessionAssumption DEF FrameInv, DealTypes
  <2>1. ASSUME NEW c \in writable'
        PROVE  Given(c)' = FramesOf(c, First(Dealt))' /\ (c \in pending' \/ call'[c] = "idle")
    <3>1. c \in writable /\ c \in Calls
      BY <1>5, <2>0
    <3>2. Given(c) = FramesOf(c, First(Dealt)) /\ (c \in pending \/ call[c] = "idle")
      BY <3>1 DEF FrameInv, DealInv
    <3> QED
      BY <1>5, <1>11, <1>12, <1>13, <3>1, <3>2
  <2>2. ASSUME NEW c \in Calls
        PROVE  \E k \in 0..Len(frames') : Given(c)' = FramesOf(c, First(k))'
    <3>1. PICK k \in 0..n : Given(c) = FramesOf(c, First(k))
      BY DEF FrameInv, DealInv
    <3>2. k \in 0..Len(frames')
      BY <1>2, <1>6
    <3> QED
      BY <1>11, <1>13, <3>1, <3>2
  <2>3. ASSUME NEW c \in Singles, Waiting(c)'
        PROVE  FramesOf(c, First(Dealt))' = <<>>
    <3>1. FramesOf(c, First(Dealt)) = <<>>
      BY <1>5, <2>3 DEF FrameInv, DealInv, Waiting
    <3> QED
      BY <1>11, <1>12, <3>1
  <2>4. ASSUME NEW c \in Streams \ (writable' \cup token' \cup stops'),
               loop' # "exited", call'[c] # "failed"
        PROVE  Complete(c)'
    <3>1. Complete(c)
      BY <1>5, <2>4 DEF FrameInv, DealInv
    <3>2. oldest # c
      BY <1>2, <3>1 DEF Complete
    <3>3. GrowsByOne(c, frames')
      BY <1>6, FramesOfFirst
    <3>4. SubSeq(frames', 1, n + 1) = frames' /\ SubSeq(frames', 1, n) = frames
      BY <1>2, <1>6
    <3>5. n + 1 \in 1..Len(frames') /\ (n + 1) - 1 = n
      BY <1>2, <1>6
    <3>6. FramesOf(c, SubSeq(frames', 1, n + 1)) = FramesOf(c, SubSeq(frames', 1, (n + 1) - 1))
      BY <1>3, <1>6, <3>2, <3>3, <3>5 DEF GrowsByOne
    <3>7. FramesOf(c, frames') = FramesOf(c, frames)
      BY <3>4, <3>5, <3>6
    <3>8. \A i \in 1..Len(queue') : queue'[i] # c
      BY <1>7, <3>1 DEF Complete
    <3> QED
      BY <1>5, <1>13, <2>0, <3>1, <3>7, <3>8 DEF Complete
  <2> QED
    BY <2>1, <2>2, <2>3, <2>4 DEF DealInv
<1> QED
  BY <1>8, <1>9, <1>10, <1>14 DEF FrameInv

LEMMA LoopFrames ==
  ASSUME FrameInv, PendingInv,
         \/ Check \/ Receive \/ ReceiveCancelled \/ ReceiveFails \/ Route \/ Write \/ Finish \/ Set
  PROVE  FrameInv'
<1>0. /\ writable \subseteq Streams /\ Streams \subseteq Calls /\ Singles = Calls \ Streams
      /\ \A d \in writable : d \in pending \/ call[d] = "idle"
      /\ taken \in 0..Len(frames) /\ Len(frames) \in Nat /\ frames \in Seq(FrameSet)
  BY FrameSessionAssumption DEF FrameInv, DealTypes, DealInv, Singles
<1>1. CASE Check
  <2>1. /\ loop = "check" /\ loop' \in {"exited", "receive"}
        /\ UNCHANGED <<queue, frames, closed, call, got, channel, token, stops, writable, pending,
                       taken, disposer>>
    BY <1>1 DEF Check, server, callers
  <2>2. StreamsClose /\ Dealt' = Dealt
    BY <1>0, <2>1 DEF StreamsClose, Dealt
  <2>3. HandInv'
    BY <2>1 DEF FrameInv, HandInv
  <2> QED
    BY <1>0, <2>1, <2>2, <2>3, LoopQuiet
<1>2. CASE Receive
  <2>1. /\ loop = "receive" /\ loop' = "route" /\ taken < Len(frames)
        /\ taken' = taken + 1 /\ hand' = <<frames[taken + 1]>>
        /\ UNCHANGED <<queue, frames, closed, call, got, channel, token, stops, writable, pending,
                       disposer>>
    BY <1>2 DEF Receive, server, callers
  <2>2. StreamsClose /\ Dealt' = Dealt
    BY <1>0, <2>1 DEF StreamsClose, Dealt
  <2>3. HandInv'
    BY <1>0, <2>1 DEF FrameInv, HandInv
  <2>4. taken' \in 0..Len(frames)
    BY <1>0, <2>1
  <2> QED
    BY <2>1, <2>2, <2>3, <2>4, LoopQuiet
<1>3. CASE ReceiveCancelled \/ ReceiveFails
  <2>1. /\ loop = "receive" /\ loop' = "exited" /\ writable' = writable \ pending /\ pending' = {}
        /\ UNCHANGED <<queue, frames, closed, call, got, channel, token, stops, taken, disposer>>
    BY <1>3 DEF ReceiveCancelled, ReceiveFails, ReceiveThrows, CompletePending, server
  <2>2. StreamsClose /\ Dealt' = Dealt
    BY <1>0, <2>1 DEF StreamsClose, Dealt
  <2>3. HandInv'
    BY <2>1 DEF FrameInv, HandInv
  <2> QED
    BY <1>0, <2>1, <2>2, <2>3, LoopQuiet
<1>4. ASSUME loop \in {"route", "write", "set"},
             UNCHANGED <<queue, frames, closed, call, token, stops, writable, taken, disposer>>,
             got' \in [Calls -> Seq(FrameSet)], channel' \in [Streams -> Seq(FrameSet)], DealInv',
             loop' \in {"check", "finish"},
             loop' = "finish" =>
               loop = "write" /\ hand[1].last /\ UNCHANGED hand
      PROVE  FrameInv'
  <2>1. DealTypes'
    BY <1>0, <1>4 DEF FrameInv, DealTypes
  <2>2. HandInv'
    BY <1>4 DEF FrameInv, HandInv
  <2>3. CallsGoOn /\ QueueGoesOn
    BY <1>4 DEF CallsGoOn, QueueGoesOn
  <2>4. queue' \in Seq(Calls) /\ \A i, j \in 1..Len(queue') : queue'[i] = queue'[j] => i = j
    BY <1>4 DEF FrameInv, DealTypes, ServerInv
  <2>5. ServerInv'
    BY <1>4, <2>3, <2>4, QuietServer
  <2> QED
    BY <1>4, <2>1, <2>2, <2>5 DEF FrameInv
<1>5. CASE Route
  <2> DEFINE c == hand[1].req
  <2>1. /\ loop = "route"
        /\ UNCHANGED <<queue, frames, closed, call, got, channel, token, stops, writable,
                       taken, disposer>>
    BY <1>5 DEF Route, server, callers
  <2>2. c \in Calls /\ call[c] \notin {"idle", "added"}
    BY <2>1, FrameInHand
  <2>3. CASE c \notin pending
    <3>1. loop' = "check" /\ UNCHANGED pending
      BY <1>5, <2>3 DEF Route, Done
    <3>2. c \notin writable
      BY <1>0, <2>2, <2>3
    <3>3. Dealt' = taken /\ \A d : Given(d)' = Given(d)
      BY <2>1, <3>1 DEF Dealt, Given
    <3> HIDE DEF c
    <3>4. DealInv'
      BY <2>1, <2>3, <3>1, <3>2, <3>3, DealtOn DEF c
    <3> QED
      BY <1>4, <2>1, <3>1, <3>4 DEF FrameInv, DealTypes
  <2>4. CASE c \in pending
    <3>1. /\ loop' = IF c \in Streams THEN "write" ELSE "set"
          /\ pending' = IF c \in Streams THEN pending ELSE pending \ {c}
          /\ UNCHANGED hand
      BY <1>5, <2>4 DEF Route
    <3>2. StreamsClose /\ Dealt' = Dealt
      BY <1>0, <2>1, <3>1 DEF StreamsClose, Dealt
    <3>3. HandInv'
      BY <1>0, <2>1, <2>2, <3>1 DEF FrameInv, HandInv
    <3>4. \A d \in Singles : loop' = "set" /\ hand'[1].req = d => Waiting(d)
      BY <2>4, <3>1 DEF Waiting
    <3>5. pending' \subseteq pending /\ loop # "exited"
      BY <2>1, <3>1
    <3> QED
      BY <1>0, <2>1, <3>2, <3>3, <3>4, <3>5, LoopQuiet
  <2> QED
    BY <2>3, <2>4
<1>6. CASE Write
  <2>0. /\ \E c \in Calls : c = hand[1].req
        /\ \E f \in FrameSet : f = hand[1]
    BY <1>6, FrameInHand DEF Write, Set
  <2> PICK c \in Calls : c = hand[1].req
    BY <2>0
  <2> PICK f \in FrameSet : f = hand[1]
    BY <2>0
  <2>1. /\ loop = "write"
        /\ UNCHANGED <<queue, frames, closed, call, got, token, stops, writable, pending,
                       taken, disposer>>
    BY <1>6 DEF Write, server
  <2>2. /\ c \in Calls /\ f \in FrameSet /\ c \in Streams /\ c \notin Singles
        /\ got \in [Calls -> Seq(FrameSet)] /\ channel \in [Streams -> Seq(FrameSet)]
    BY <1>0, <2>1, FrameInHand DEF FrameInv, HandInv, DealTypes
  <2>3. /\ channel' = IF c \in writable THEN [channel EXCEPT ![c] = Append(@, f)] ELSE channel
        /\ loop' \in {"check", "finish"}
        /\ loop' = "finish" => f.last /\ UNCHANGED hand
    BY <1>6 DEF Write, Put, Done
  <2>4. channel' \in [Streams -> Seq(FrameSet)]
    <3> DEFINE more == Append(channel[c], f)
    <3>1. more \in Seq(FrameSet)
      BY <2>2
    <3>2. channel' = channel \/ channel' = [channel EXCEPT ![c] = more]
      BY <2>3
    <3> HIDE DEF more
    <3> QED
      BY <2>2, <3>1, <3>2
  <2>5. Dealt' = taken
    BY <2>1, <2>3 DEF Dealt
  <2>6. \A d \in Calls \ {c} : Given(d)' = Given(d)
    BY <2>1, <2>2, <2>3 DEF Given
  <2>7. c \in writable => Given(c)' = Append(Given(c), f)
    <3> SUFFICES ASSUME c \in writable PROVE Given(c)' = Append(Given(c), f)
      OBVIOUS
    <3>1. channel'[c] = Append(channel[c], f)
      BY <2>2, <2>3
    <3>2. /\ Given(c) = got[c] \o channel[c] /\ Given(c)' = got[c] \o Append(channel[c], f)
          /\ got[c] \in Seq(FrameSet) /\ channel[c] \in Seq(FrameSet)
      BY <2>1, <2>2, <3>1 DEF Given
    <3>3. \A a, b \in Seq(FrameSet) : a \o Append(b, f) = Append(a \o b, f)
      BY <2>2
    <3> QED
      BY <3>2, <3>3
  <2>8. c \notin writable => Given(c)' = Given(c)
    BY <2>1, <2>3 DEF Given
  <2>9. DealInv'
    BY <2>1, <2>2, <2>3, <2>5, <2>6, <2>7, <2>8, DealtOn
  <2> QED
    BY <1>4, <2>1, <2>2, <2>3, <2>4, <2>9
<1>7. CASE Set
  <2>0. /\ \E c \in Calls : c = hand[1].req
        /\ \E f \in FrameSet : f = hand[1]
    BY <1>7, FrameInHand DEF Write, Set
  <2> PICK c \in Calls : c = hand[1].req
    BY <2>0
  <2> PICK f \in FrameSet : f = hand[1]
    BY <2>0
  <2>1. /\ loop = "set" /\ loop' = "check"
        /\ UNCHANGED <<queue, frames, closed, call, channel, token, stops, writable, pending,
                       taken, disposer>>
        /\ got' = got \/ got' = [got EXCEPT ![c] = hand]
    BY <1>7 DEF Set, server, Done
  <2>2. /\ c \in Calls /\ f \in FrameSet /\ c \in Singles /\ c \notin Streams /\ c \notin pending
        /\ hand = <<f>> /\ c \notin writable
        /\ got \in [Calls -> Seq(FrameSet)] /\ channel \in [Streams -> Seq(FrameSet)]
    BY <1>0, <2>1, FrameInHand DEF FrameInv, HandInv, DealTypes, PendingInv
  <2>3. got' \in [Calls -> Seq(FrameSet)]
    <3>1. hand \in Seq(FrameSet)
      BY <2>2
    <3> QED
      BY <2>1, <2>2, <3>1
  <2>4. Dealt' = taken
    BY <2>1 DEF Dealt
  <2>5. \A d \in Calls \ {c} : Given(d)' = Given(d)
    BY <2>1, <2>2 DEF Given
  <2>6. Given(c)' = Given(c) \/ Given(c)' = <<f>>
    BY <2>1, <2>2 DEF Given
  <2>7. FramesOf(c, First(Dealt)) = <<>>
    BY <2>1, <2>2 DEF FrameInv, DealInv, Waiting
  <2>8. DealInv'
    BY <2>1, <2>2, <2>4, <2>5, <2>6, <2>7, DealtOn
  <2> QED
    BY <1>4, <2>1, <2>2, <2>3, <2>8
<1>8. CASE Finish
  <2> DEFINE c == hand[1].req
  <2>1. /\ loop = "finish" /\ loop' = "check" /\ writable' = writable \ {c}
        /\ pending' = pending \ {c}
        /\ UNCHANGED <<queue, frames, closed, call, got, channel, token, stops, taken, disposer>>
    BY <1>8 DEF Finish, server, Done
  <2>2. /\ taken \in 1..Len(frames) /\ frames[taken].req = c /\ frames[taken].last
        /\ call[c] \notin {"idle", "added"}
    BY <2>1, FrameInHand DEF FrameInv, HandInv
  <2>3. c \in writable => Complete(c)
    <3> SUFFICES ASSUME c \in writable PROVE Complete(c)
      OBVIOUS
    <3>1. Given(c) = FramesOf(c, First(taken))
      BY <2>1 DEF FrameInv, DealInv, Dealt
    <3>2. /\ \A i \in 1..Len(queue) : queue[i] # c
          /\ \A j \in (taken + 1)..Len(frames) : frames[j].req # c
      BY <2>2 DEF FrameInv, ServerInv
    <3> HIDE DEF c
    <3>3. FramesOf(c, SubSeq(frames, 1, taken)) = FramesOf(c, frames)
      BY <1>0, <3>2, NoneLater
    <3> QED
      BY <2>2, <3>1, <3>2, <3>3 DEF Complete, First
  <2>4. StreamsClose /\ Dealt' = Dealt
    BY <1>0, <2>1, <2>3 DEF StreamsClose, Dealt
  <2>5. HandInv'
    BY <2>1 DEF FrameInv, HandInv
  <2>6. pending' \subseteq pending
    BY <2>1
  <2> QED
    BY <1>0, <2>1, <2>4, <2>5, <2>6, LoopQuiet
<1> QED
  BY <1>1, <1>2, <1>3, <1>5, <1>6, <1>7, <1>8

LEMMA DisposalFrames ==
  ASSUME FrameInv, PendingInv,
         Dispose \/ LoopAwaited \/ FailPending \/ CloseTransport \/ UNCHANGED vars
  PROVE  FrameInv'
<1>0. /\ writable \subseteq Streams /\ Streams \subseteq Calls /\ taken \in 0..Len(frames)
      /\ \A d \in writable : d \in pending \/ call[d] = "idle"
      /\ queue \in Seq(Calls) /\ Len(queue) \in Nat
  BY FrameSessionAssumption DEF FrameInv, DealTypes, DealInv
<1>1. CASE Dispose \/ LoopAwaited \/ FailPending \/ UNCHANGED vars
  <2>1. /\ UNCHANGED <<queue, frames, closed, call, got, channel, token, stops, taken, loop, hand>>
        /\ \/ UNCHANGED <<writable, pending>>
           \/ disposer = "failing" /\ writable' = writable \ pending /\ pending' = {}
        /\ \/ UNCHANGED disposer
           \/ disposer = "no" /\ disposer' = "stopping"
           \/ loop = "exited" /\ disposer' = "failing" /\ disposer = "stopping"
           \/ disposer = "failing" /\ disposer' = "closing"
    BY <1>1 DEF Dispose, LoopAwaited, FailPending, CompletePending, vars, server, callers, dispatch
  <2>2. StreamsClose
    BY <1>0, <2>1 DEF StreamsClose, FrameInv, HandInv
  <2>3. Dealt' = Dealt
    BY <2>1 DEF Dealt
  <2>4. HandInv'
    BY <2>1 DEF FrameInv, HandInv
  <2>5. pending' \subseteq pending /\ \A d \in Singles : loop' = "set" /\ hand'[1].req = d => Waiting(d)
    BY <2>1 DEF Waiting
  <2> QED
    BY <1>0, <2>1, <2>2, <2>3, <2>4, <2>5, LoopQuiet
<1>2. CASE CloseTransport
  <2>1. /\ UNCHANGED <<frames, call, got, channel, token, stops, writable, pending, taken, loop, hand>>
        /\ disposer = "closing" /\ disposer' = "done"
    BY <1>2 DEF CloseTransport, Server!Close, callers, dispatch
  <2>2. PICK k \in 0..1 : k <= Len(queue) /\ queue' = SubSeq(queue, 1, k)
    BY <1>2 DEF CloseTransport, Server!Close
  <2>3. /\ queue' \in Seq(Calls) /\ Len(queue') = k
        /\ \A i \in 1..Len(queue') : i \in 1..Len(queue) /\ queue'[i] = queue[i]
    BY <1>0, <2>2
  <2>4. QueueGoesOn
    BY <2>3 DEF QueueGoesOn
  <2>5. \A i, j \in 1..Len(queue') : queue'[i] = queue'[j] => i = j
    BY <2>3 DEF FrameInv, ServerInv
  <2>6. CallsGoOn /\ StreamsClose
    BY <1>0, <2>1 DEF CallsGoOn, StreamsClose
  <2>7. GivenStay
    BY <2>1, StayQuiet DEF FrameInv
  <2>8. Dealt' = Dealt /\ \A d \in Singles : Waiting(d)' => Waiting(d)
    BY <2>1 DEF Dealt, Waiting
  <2>9. Quiet
    BY <2>1, <2>4, <2>6, <2>7, <2>8 DEF Quiet
  <2>10. ServerInv'
    BY <2>1, <2>3, <2>4, <2>5, <2>6, QuietServer
  <2>11. DealTypes' /\ HandInv'
    <3>1. DealTypes'
      BY <2>1, <2>3 DEF FrameInv, DealTypes
    <3>2. HandInv'
      BY <2>1 DEF FrameInv, HandInv
    <3> QED
      BY <3>1, <3>2
  <2> QED
    BY <2>9, <2>10, <2>11, QuietDeal DEF FrameInv
<1> QED
  BY <1>1, <1>2

\* What comes first of something that comes first.
LEMMA FirstPartFirst ==
  ASSUME NEW a \in Seq(FrameSet), NEW b \in Seq(FrameSet), NEW d \in Seq(FrameSet),
         IsPrefix(a \o b, d)
  PROVE  IsPrefix(a, d)
<1> DEFINE t == a \o b
<1>1. /\ t \in Seq(FrameSet) /\ Len(t) = Len(a) + Len(b) /\ \A i \in 1..Len(a) : t[i] = a[i]
      /\ Len(a) \in Nat /\ Len(b) \in Nat /\ Len(d) \in Nat
  OBVIOUS
<1>2. IsPrefix(t, d)
  OBVIOUS
<1> HIDE DEF t
<1>3. Len(t) <= Len(d) /\ SubSeq(t, 1, Len(t)) = SubSeq(d, 1, Len(t))
  BY <1>2 DEF IsPrefix
<1>4. /\ \A i \in 1..Len(t) : SubSeq(t, 1, Len(t))[i] = t[i]
      /\ \A i \in 1..Len(t) : SubSeq(d, 1, Len(t))[i] = d[i]
  BY <1>1, <1>3
<1>5. \A i \in 1..Len(a) : i \in 1..Len(t) /\ a[i] = d[i]
  BY <1>1, <1>3, <1>4
<1>6. SubSeq(a, 1, Len(a)) = SubSeq(d, 1, Len(a)) /\ Len(a) <= Len(d)
  BY <1>1, <1>3, <1>5
<1> QED
  BY <1>6 DEF IsPrefix

LEMMA FrameInvSuffices ==
  ASSUME FrameInv, PendingInv
  PROVE  EachItsOwnFrames
<1>0. /\ got \in [Calls -> Seq(FrameSet)] /\ channel \in [Streams -> Seq(FrameSet)]
      /\ frames \in Seq(FrameSet) /\ Len(frames) \in Nat
      /\ Streams \subseteq Calls /\ writable \subseteq Streams
  BY FrameSessionAssumption DEF FrameInv, DealTypes
<1>1. ASSUME NEW c \in Calls
      PROVE  IsPrefix(got[c], OwnFrames(c))
  <2>1. PICK k \in 0..Len(frames) : Given(c) = FramesOf(c, First(k))
    BY DEF FrameInv, DealInv
  <2>2. IsPrefix(Given(c), OwnFrames(c))
    BY <1>0, <2>1, FirstOnesFirst DEF First, OwnFrames
  <2>3. CASE c \in Streams
    <3>1. got[c] \in Seq(FrameSet) /\ channel[c] \in Seq(FrameSet)
      BY <1>0, <2>3
    <3>2. OwnFrames(c) \in Seq(FrameSet)
      <4>1. frames \in Seq(FrameSet) /\ Len(frames) \in 0..Len(frames)
        BY <1>0
      <4>2. SubSeq(frames, 1, Len(frames)) = frames
        BY <4>1, SubSeqFull
      <4>3. FramesOf(c, SubSeq(frames, 1, Len(frames))) \in Seq(FrameSet)
        BY <4>1, FramesOfFirst DEF GrowsByOne
      <4> QED
        BY <4>2, <4>3 DEF OwnFrames
    <3>3. IsPrefix(got[c] \o channel[c], OwnFrames(c))
      BY <2>2, <2>3 DEF Given
    <3> QED
      BY <3>1, <3>2, <3>3, FirstPartFirst
  <2>4. CASE c \notin Streams
    BY <2>2, <2>4 DEF Given
  <2> QED
    BY <2>3, <2>4
<1>2. ASSUME NEW c \in Streams, call[c] = "ended", c \notin token \cup stops, loop # "exited"
      PROVE  got[c] \o channel[c] = OwnFrames(c)
  <2>1. c \notin writable
    <3>1. c \notin pending
      BY <1>2 DEF PendingInv
    <3> QED
      BY <1>2, <3>1 DEF FrameInv, DealInv
  <2>2. Complete(c)
    BY <1>2, <2>1 DEF FrameInv, DealInv
  <2> QED
    BY <1>2, <2>2 DEF Complete, Given, OwnFrames
<1> QED
  BY <1>1, <1>2 DEF EachItsOwnFrames

\* FrameSession: what a caller is given are the engine's frames for its own id, in
\* order and from the first on, whatever is cancelled, abandoned or disposed of
\* meanwhile and wherever the loop is; and a stream that ended and that nobody stopped
\* has been given all of them, or they wait for it.
THEOREM FramesReachTheirCallers == Spec => []EachItsOwnFrames
<1>1. Init => FrameInv
  <2> SUFFICES ASSUME Init PROVE FrameInv
    OBVIOUS
  <2>1. /\ queue = <<>> /\ frames = <<>> /\ closed = FALSE /\ taken = 0
        /\ call = [c \in Calls |-> "idle"] /\ pending = {} /\ writable = Streams
        /\ channel = [c \in Streams |-> <<>>] /\ got = [c \in Calls |-> <<>>]
        /\ loop = "check" /\ disposer = "no" /\ Streams \subseteq Calls
    BY FrameSessionAssumption DEF Init, Server!Init
  <2>2. DealTypes
    BY <2>1 DEF DealTypes
  <2>3. ServerInv /\ HandInv
    BY <2>1 DEF ServerInv, HandInv, Unasked
  <2>4. \A c : FramesOf(c, First(0)) = <<>>
    BY <2>1, <2>2, NothingYet
  <2>5. Dealt = 0 /\ \A c \in Calls : Given(c) = <<>>
    BY <2>1 DEF Dealt, Given
  <2>6. DealInv
    BY <2>1, <2>4, <2>5 DEF DealInv, Waiting
  <2> QED
    BY <2>2, <2>3, <2>6 DEF FrameInv
<1>2. FrameInv /\ PendingInv /\ [Next]_vars => FrameInv'
  <2> SUFFICES ASSUME FrameInv, PendingInv, [Next]_vars
               PROVE  FrameInv'
    OBVIOUS
  <2>1. ASSUME NEW c \in Calls,
               \/ Add(c) \/ Send(c) \/ SendThrows(c) \/ Register(c) \/ CancelToken(c)
               \/ Return(c) \/ Read(c) \/ ReadEnds(c) \/ Abandon(c) \/ Leave(c)
        PROVE  FrameInv'
    BY <2>1, CallerFrames
  <2>2. CASE \/ Check \/ Receive \/ ReceiveCancelled \/ ReceiveFails
             \/ Route \/ Write \/ Finish \/ Set
    BY <2>2, LoopFrames
  <2>3. CASE Dispose \/ LoopAwaited \/ FailPending \/ CloseTransport \/ UNCHANGED vars
    BY <2>3, DisposalFrames
  <2>4. CASE Answer
    BY <2>4, AnswerFrames
  <2> QED
    BY <2>1, <2>2, <2>3, <2>4 DEF Next
<1>3. Init => PendingInv
  BY DEF Init, PendingInv, Places, Slots
<1>4. PendingInv /\ [Next]_vars => PendingInv'
  BY PendingStep
<1>5. FrameInv /\ PendingInv => EachItsOwnFrames
  BY FrameInvSuffices
<1> QED
  BY <1>1, <1>2, <1>3, <1>4, <1>5, PTL DEF Spec

-------------------------------------------------------------------------------
(* AsyncComponent: who is at work is going to come to an end.               *)

\* What takes a run to be under way, or says so with nothing on its outputs, is solved
\* again, or has a run under way.
WaitsForRun ==
  \/ fields.solving /\ ~showing
  \/ message = "solving" /\ outputs = NoResult
SolvingInv ==
  /\ solveExpires \in Nat
  /\ showing => outputs # NoResult
  /\ WaitsForRun /\ ~gone => solveExpires > 0 \/ (live \in Started /\ runs[live].at # "over")

RunFields(r) == r = [of |-> r.of, at |-> r.at]
FieldsShape == fields = [result |-> fields.result, solving |-> fields.solving,
                         terminal |-> fields.terminal, cancelled |-> fields.cancelled]
AsyncInv ==
  /\ SolvingInv /\ FieldsShape
  /\ \A r \in Started : RunFields(runs[r])

LEMMA FieldsAt ==
  ASSUME NEW o, NEW place, RunFields(o)
  PROVE  LET n == [o EXCEPT !.at = place] IN RunFields(n) /\ n.at = place
BY DEF RunFields

LEMMA RunMoves ==
  ASSUME AsyncInv, NEW r \in Started, NEW place, RunGoto(r, place)
  PROVE  /\ Started' = Started
         /\ \A o \in Started : RunFields(runs'[o])
         /\ \A o \in Started : runs'[o].at = IF o = r THEN place ELSE runs[o].at
<1> DEFINE n == [runs[r] EXCEPT !.at = place]
<1>1. runs' = [runs EXCEPT ![r] = n]
  BY DEF RunGoto
<1>2. RunFields(n) /\ n.at = place
  <2>1. RunFields(runs[r])
    BY DEF AsyncInv
  <2> QED
    BY <2>1, FieldsAt
<1> HIDE DEF n
<1>3. \A o \in Started : runs'[o] = IF o = r THEN n ELSE runs[o]
  BY <1>1 DEF Started
<1>4. \A o \in Started : RunFields(runs'[o])
  BY <1>2, <1>3 DEF AsyncInv
<1>5. \A o \in Started : runs'[o].at = IF o = r THEN place ELSE runs[o].at
  BY <1>2, <1>3
<1>6. Started' = Started
  BY <1>1 DEF Started
<1> QED
  BY <1>4, <1>5, <1>6

\* Every call of SolveInstance leaves the component at rest, or a run under way.
LEMMA SolveInstanceInv ==
  ASSUME AsyncInv, NEW in, NEW queued \in Nat, SolveInstance(in, queued)
  PROVE  AsyncInv'
<1>1. solveExpires' \in Nat /\ ~showing
  BY DEF SolveInstance
<1>2. CASE ShowError
  <2>1. /\ fields' = [fields EXCEPT !.terminal = FALSE, !.solving = FALSE]
        /\ message' = Said(fields') /\ UNCHANGED <<showing, live, runs>>
    BY <1>2 DEF ShowError
  <2>2. ~fields'.solving /\ FieldsShape'
    BY <2>1 DEF AsyncInv, FieldsShape
  <2>3. message' # "solving"
    BY <2>1, <2>2 DEF Said
  <2> QED
    BY <1>1, <2>1, <2>2, <2>3 DEF AsyncInv, SolvingInv, WaitsForRun, Started, RunFields
<1>3. CASE ShowResult
  <2>1. outputs' # NoResult /\ showing' /\ UNCHANGED <<fields, live, runs>>
    BY <1>3 DEF ShowResult
  <2> QED
    BY <1>1, <2>1 DEF AsyncInv, SolvingInv, WaitsForRun, FieldsShape, Started, RunFields
<1>4. CASE StartRun(in) /\ in \in Unreadable
  <2>1. /\ fields' = [fields EXCEPT !.solving = in \notin Unreadable, !.cancelled = FALSE]
        /\ message' = Said(fields') /\ UNCHANGED <<showing, runs>>
    BY <1>4 DEF StartRun
  <2>2. ~fields'.solving /\ FieldsShape'
    BY <1>4, <2>1 DEF AsyncInv, FieldsShape
  <2>3. message' # "solving"
    BY <2>1, <2>2 DEF Said
  <2> QED
    BY <1>1, <2>1, <2>2, <2>3 DEF AsyncInv, SolvingInv, WaitsForRun, Started, RunFields
<1>5. CASE StartRun(in) /\ in \notin Unreadable
  <2> DEFINE r == Cardinality(Started) + 1
             new == [of |-> in, at |-> "running"]
  <2>1. /\ fields' = [fields EXCEPT !.solving = in \notin Unreadable, !.cancelled = FALSE]
        /\ UNCHANGED showing /\ live' = r
        /\ runs' = [o \in Started \cup {r} |-> IF o = r THEN new ELSE runs[o]]
    BY <1>5 DEF StartRun
  <2>2. FieldsShape'
    BY <2>1 DEF AsyncInv, FieldsShape
  <2>3. RunFields(new) /\ new.at = "running"
    BY DEF RunFields
  <2> HIDE DEF r, new
  <2>4. /\ Started' = Started \cup {r}
        /\ \A o \in Started' : runs'[o] = IF o = r THEN new ELSE runs[o]
    BY <2>1 DEF Started
  <2>5. live' \in Started' /\ runs'[live'].at # "over"
    BY <2>1, <2>3, <2>4
  <2>6. \A o \in Started' : RunFields(runs'[o])
    BY <2>3, <2>4 DEF AsyncInv
  <2> QED
    BY <1>1, <2>1, <2>2, <2>5, <2>6 DEF AsyncInv, SolvingInv
<1> QED
  BY <1>2, <1>3, <1>4, <1>5 DEF SolveInstance

LEMMA ClearResultInv ==
  ASSUME AsyncInv, ClearResult
  PROVE  AsyncInv'
<1>1. /\ showing /\ ~showing' /\ fields' = [fields EXCEPT !.result = NoResult, !.solving = FALSE]
      /\ UNCHANGED <<message, live, runs, solveExpires, outputs, gone>>
  BY DEF ClearResult
<1>2. ~fields'.solving /\ FieldsShape'
  BY <1>1 DEF AsyncInv, FieldsShape
<1> QED
  BY <1>1, <1>2 DEF AsyncInv, SolvingInv, WaitsForRun, Started, RunFields

\* A run of the pool: it ends only by solving the component again, unless another one
\* has begun meanwhile.
LEMMA RunInv ==
  ASSUME AsyncInv, NEW r \in Started, RunReturns(r) \/ Store(r) \/ SolveFinally(r)
  PROVE  AsyncInv'
<1>1. CASE RunReturns(r)
  <2>1. PICK place \in {"answered", "failed", "called off"} : RunGoto(r, place)
    BY <1>1 DEF RunReturns, LookSolve
  <2>2. UNCHANGED <<fields, message, showing, live, solveExpires, outputs, gone>>
    BY <1>1 DEF RunReturns, LookSolve
  <2> QED
    BY <2>1, <2>2, RunMoves DEF AsyncInv, SolvingInv, WaitsForRun, FieldsShape
<1>2. CASE Store(r)
  <2>1. RunGoto(r, "finally") /\ UNCHANGED <<message, showing, live, solveExpires, outputs, gone>>
    BY <1>2 DEF Store
  <2>2. fields'.solving = fields.solving /\ FieldsShape'
    <3>1. \/ fields' = [fields EXCEPT !.result = runs[r].of]
          \/ fields' = [fields EXCEPT !.terminal = TRUE]
          \/ fields' = [fields EXCEPT !.cancelled = TRUE]
      BY <1>2 DEF Store, Stored
    <3> QED
      BY <3>1 DEF AsyncInv, FieldsShape
  <2> QED
    BY <2>1, <2>2, RunMoves DEF AsyncInv, SolvingInv, WaitsForRun
<1>3. CASE SolveFinally(r)
  <2>1. /\ RunGoto(r, "over") /\ UNCHANGED <<fields, message, showing, live, outputs, gone>>
        /\ solveExpires' = IF r = live THEN solveExpires + 1 ELSE solveExpires
    BY <1>3 DEF SolveFinally, Wakes, RunCancelled
  <2> QED
    BY <2>1, RunMoves DEF AsyncInv, SolvingInv, WaitsForRun, FieldsShape
<1> QED
  BY <1>1, <1>2, <1>3

\* AsyncFrameComponent: whichever runs were cancelled, called off, failed or overtaken, a
\* component at rest takes no run to be under way, and does not say "solving..." unless
\* it shows a result.
THEOREM SolvingComesToAnEnd == AsyncSpec => []SolvingEnds
<1>1. AsyncInit => AsyncInv
  BY DEF AsyncInit, AsyncInv, SolvingInv, WaitsForRun, FieldsShape, Started
<1>2. AsyncInv /\ [AsyncNext]_asyncVars => AsyncInv'
  <2> SUFFICES ASSUME AsyncInv, [AsyncNext]_asyncVars PROVE AsyncInv'
    OBVIOUS
  <2>1. ASSUME NEW in \in Inputs, WireInput(in)
        PROVE  AsyncInv'
    BY <2>1, SolveInstanceInv DEF WireInput, AsyncInv, SolvingInv
  <2>2. CASE ExpireSolve
    <3>1. solveExpires - 1 \in Nat
      BY <2>2 DEF ExpireSolve, AsyncInv, SolvingInv
    <3> QED
      BY <2>2, <3>1, SolveInstanceInv DEF ExpireSolve
  <2>3. CASE RemovedFromDocument
    BY <2>3 DEF RemovedFromDocument, AsyncInv, SolvingInv, WaitsForRun, FieldsShape, Started
  <2>4. ASSUME NEW r \in Started, RunReturns(r) \/ Store(r) \/ SolveFinally(r)
        PROVE  AsyncInv'
    BY <2>4, RunInv
  <2>6. CASE ClearResult
    BY <2>6, ClearResultInv
  <2>5. CASE UNCHANGED asyncVars
    BY <2>5 DEF asyncVars, AsyncInv, SolvingInv, WaitsForRun, FieldsShape, Started
  <2> QED
    BY <2>1, <2>2, <2>3, <2>4, <2>5, <2>6 DEF AsyncNext
<1>3. AsyncInv => SolvingEnds
  <2> SUFFICES ASSUME AsyncInv, AtRest
               PROVE  ~fields.solving /\ (message = "solving" => outputs # NoResult)
    BY DEF SolvingEnds
  <2>1. ~(live \in Started /\ runs[live].at # "over") /\ ~(solveExpires > 0) /\ ~gone /\ ~showing
    BY DEF AtRest
  <2> QED
    BY <2>1 DEF AsyncInv, SolvingInv, WaitsForRun
<1> QED
  BY <1>1, <1>2, <1>3, PTL DEF AsyncSpec

-------------------------------------------------------------------------------
(* OpenComponent: who owns a session.                                       *)

CompFields ==
  [gen : Nat, session : Nat, key : Keys \cup {NoPath}, requested : Keys \cup {NoPath},
   error : BOOLEAN, opening : BOOLEAN]

\* The open whose session a generation names, or that is to make it, is the only one
\* of that generation; a session is cached, disposed of or overlooked when its open is
\* over; and the open that is current finds nothing cached that was not overlooked.
OpenInv ==
  /\ comp \in CompFields /\ dll \in Keys /\ \A t \in opens : t.key \in Keys
  /\ \A t \in opens \cup made :
       /\ t.gen \in 1..comp.gen
       /\ \A u \in opens \cup made : u.gen = t.gen => u = t
  /\ \A t \in opens : /\ t.gen # comp.session /\ t.gen \notin disposed
                      /\ t.gen = comp.gen => comp.session \in overlooked \cup {0}
  /\ \A t \in made \ opens : \/ t.gen = comp.session
                             \/ t.gen \in disposed \cup overlooked
  /\ comp.session \in 0..comp.gen /\ comp.session \notin disposed
  /\ disposed \subseteq 1..comp.gen
  /\ removed => /\ solving = "away" /\ comp.session = 0
                /\ \A t \in opens : t.gen # comp.gen

LEMMA CompUpdates ==
  ASSUME NEW c \in CompFields
  PROVE  /\ Outdated(c) \in CompFields /\ Outdated(c).gen = c.gen + 1 /\ Outdated(c).session = 0
         /\ Failed(c) \in CompFields /\ Failed(c).gen = c.gen /\ Failed(c).session = 0
         /\ LET n == [c EXCEPT !.error = FALSE] IN
              n \in CompFields /\ n.gen = c.gen /\ n.session = c.session
         /\ LET n == [c EXCEPT !.opening = TRUE] IN
              n \in CompFields /\ n.gen = c.gen /\ n.session = c.session
<1>1. Outdated(c) \in CompFields /\ Outdated(c).gen = c.gen + 1 /\ Outdated(c).session = 0
  BY DEF CompFields, Outdated
<1>2. Failed(c) \in CompFields /\ Failed(c).gen = c.gen /\ Failed(c).session = 0
  BY DEF CompFields, Failed
<1> DEFINE n == [c EXCEPT !.error = FALSE]
           o == [c EXCEPT !.opening = TRUE]
<1>3. n \in CompFields /\ n.gen = c.gen /\ n.session = c.session
  BY DEF CompFields
<1>4. o \in CompFields /\ o.gen = c.gen /\ o.session = c.session
  BY DEF CompFields
<1> QED
  BY <1>1, <1>2, <1>3, <1>4

\* Nothing that counts has changed.
LEMMA StillOpenInv ==
  ASSUME OpenInv, comp' \in CompFields, dll' \in Keys,
         comp'.gen = comp.gen, comp'.session = comp.session,
         solving' = solving \/ ~removed,
         UNCHANGED <<opens, made, disposed, overlooked, removed>>
  PROVE  OpenInv'
BY DEF OpenInv

\* A generation is given up, and its session disposed of.
LEMMA InvalidateInv ==
  ASSUME OpenInv, Invalidate, dll' \in Keys, removed' => solving' = "away",
         UNCHANGED <<opens, made, overlooked>>
  PROVE  OpenInv'
<1>1. /\ comp \in CompFields /\ comp' = Outdated(comp)
      /\ disposed' = disposed \cup ({comp.session} \ {0})
  BY DEF OpenInv, Invalidate
<1>2. comp' \in CompFields /\ comp'.gen = comp.gen + 1 /\ comp'.session = 0
  BY <1>1, CompUpdates
<1>3. comp.gen \in Nat /\ comp.session \in 0..comp.gen
  BY DEF OpenInv, CompFields
<1>4. \A t \in opens \cup made : t.gen \in 1..comp.gen
  BY DEF OpenInv
<1>5. \A t \in opens' \cup made' :
        /\ t.gen \in 1..comp'.gen
        /\ \A u \in opens' \cup made' : u.gen = t.gen => u = t
  <2>1. \A t \in opens \cup made : t.gen \in 1..comp'.gen
    BY <1>2, <1>3, <1>4
  <2> QED
    BY <2>1 DEF OpenInv
<1>6. disposed' \subseteq 1..comp'.gen /\ comp'.session \notin disposed'
  <2>1. disposed \subseteq 1..comp.gen /\ {comp.session} \ {0} \subseteq 1..comp.gen
    BY <1>3 DEF OpenInv
  <2>2. disposed' \subseteq 1..comp.gen
    BY <1>1, <2>1
  <2> QED
    BY <1>2, <1>3, <2>2
<1>7. \A t \in opens' : t.gen # comp'.session /\ t.gen \notin disposed' /\ t.gen # comp'.gen
  BY <1>1, <1>2, <1>3, <1>4 DEF OpenInv
<1>8. \A t \in made' \ opens' : t.gen \in disposed' \cup overlooked'
  BY <1>1, <1>4 DEF OpenInv
<1> QED
  BY <1>2, <1>3, <1>5, <1>6, <1>7, <1>8 DEF OpenInv

\* An open is begun: what it finds cached is overlooked.
LEMMA BeginInv ==
  ASSUME OpenInv, Begin
  PROVE  OpenInv'
<1> DEFINE started == [gen |-> comp.gen + 1, session |-> comp.session, key |-> comp.key,
                       requested |-> dll, error |-> comp.error, opening |-> FALSE]
           new == [gen |-> started.gen, key |-> dll, profile |-> profile]
<1>1. comp \in CompFields /\ dll \in Keys /\ ~removed
  BY DEF OpenInv, Begin
<1>2. /\ \/ comp' = Failed(started) /\ opens' = opens
         \/ comp' = started /\ opens' = opens \cup {new}
      /\ overlooked' = overlooked \cup ({comp.session} \ {0})
      /\ UNCHANGED <<dll, made, disposed, removed>>
  BY DEF Begin
<1>3. started \in CompFields /\ started.gen = comp.gen + 1 /\ started.session = comp.session
  BY <1>1 DEF CompFields
<1>4. new.gen = started.gen /\ new.key = dll
  OBVIOUS
<1> HIDE DEF started, new
<1>5. comp' \in CompFields /\ comp'.gen = comp.gen + 1 /\ comp'.session \in {0, comp.session}
  BY <1>1, <1>2, <1>3, CompUpdates
<1>6. /\ comp.gen \in Nat /\ comp.session \in 0..comp.gen
      /\ \A t \in opens \cup made : t.gen \in 1..comp.gen
  BY DEF OpenInv, CompFields
<1>7. \/ opens' = opens
      \/ opens' = opens \cup {new} /\ new.gen = comp'.gen
  BY <1>2, <1>3, <1>4
<1>8. \A t \in opens' \cup made' :
        /\ t.gen \in 1..comp'.gen
        /\ \A u \in opens' \cup made' : u.gen = t.gen => u = t
  <2>1. \A t \in opens' \cup made' : \/ t \in opens \cup made
                                     \/ t = new /\ new.gen = comp.gen + 1
    BY <1>2, <1>5, <1>7
  <2>2. \A t \in opens' \cup made' : t.gen \in 1..comp'.gen
    BY <1>5, <1>6, <2>1
  <2>3. \A t, u \in opens' \cup made' : u.gen = t.gen => u = t
    <3>1. \A t \in opens \cup made : t.gen # comp.gen + 1
      BY <1>6
    <3> QED
      BY <2>1, <3>1 DEF OpenInv
  <2> QED
    BY <2>2, <2>3
<1>9. \A t \in opens' : /\ t.key \in Keys /\ t.gen # comp'.session /\ t.gen \notin disposed'
                        /\ t.gen = comp'.gen => comp'.session \in overlooked' \cup {0}
  <2>1. comp'.session \in overlooked' \cup {0}
    BY <1>2, <1>5
  <2>2. ASSUME NEW t \in opens
        PROVE  t.key \in Keys /\ t.gen # comp'.session /\ t.gen \notin disposed'
    BY <1>2, <1>5, <1>6 DEF OpenInv
  <2>3. new.key \in Keys
    BY <1>1, <1>4
  <2>4. comp'.gen # comp'.session /\ comp'.gen \notin disposed'
    BY <1>2, <1>5, <1>6 DEF OpenInv
  <2> QED
    BY <1>7, <2>1, <2>2, <2>3, <2>4
<1>10. \A t \in made' \ opens' : t.gen = comp'.session \/ t.gen \in disposed' \cup overlooked'
  BY <1>2, <1>5, <1>6 DEF OpenInv
<1>11. /\ comp'.session \in 0..comp'.gen /\ comp'.session \notin disposed'
       /\ disposed' \subseteq 1..comp'.gen
  <2>1. 0 \notin disposed /\ comp.session \notin disposed /\ disposed \subseteq 1..comp.gen
    BY DEF OpenInv
  <2> QED
    BY <1>2, <1>5, <1>6, <2>1
<1> QED
  BY <1>1, <1>2, <1>5, <1>8, <1>9, <1>10, <1>11 DEF OpenInv

\* An open commits: its session is cached where its generation is current, and
\* disposed of where it is not.
LEMMA CommitOpenInv ==
  ASSUME OpenInv, NEW t \in opens, CommitOpen(t)
  PROVE  OpenInv'
<1>1. /\ opens' = opens \ {t} /\ UNCHANGED <<dll, solving, made, overlooked, removed>>
      /\ t.gen \in 1..comp.gen /\ t.key \in Keys /\ comp \in CompFields
      /\ \A u \in opens \cup made : u.gen = t.gen => u = t
  BY DEF CommitOpen, OpenInv
<1>2. CASE Current(t) /\ Brings(t)
  <2> DEFINE n == [gen |-> comp.gen, session |-> t.gen, key |-> t.key,
                   requested |-> comp.requested, error |-> FALSE, opening |-> FALSE]
  <2>1. comp' = n /\ UNCHANGED disposed
    BY <1>2 DEF CommitOpen
  <2>2. n \in CompFields /\ n.gen = comp.gen /\ n.session = t.gen
    BY <1>1 DEF CompFields
  <2> HIDE DEF n
  <2>3. comp.session \in overlooked \cup {0} /\ t.gen \notin disposed /\ ~removed
    BY <1>2 DEF OpenInv, Current
  <2>4. \A u \in opens' : u.gen # t.gen /\ u.gen # comp'.gen
    BY <1>1, <1>2, <2>1, <2>2 DEF Current
  <2>5. \A u \in made' \ opens' : u.gen = comp'.session \/ u.gen \in disposed' \cup overlooked'
    <3>1. ASSUME NEW u \in made, u \notin opens
          PROVE  u.gen \in disposed \cup overlooked
      BY <1>1, <2>3, <3>1 DEF OpenInv, CompFields
    <3> QED
      BY <1>1, <2>1, <2>2, <3>1
  <2> QED
    BY <1>1, <2>1, <2>2, <2>3, <2>4, <2>5 DEF OpenInv
<1>3. CASE Current(t) /\ ~Brings(t)
  <2>1. comp' = Failed(comp) /\ UNCHANGED disposed
    BY <1>3 DEF CommitOpen
  <2>2. comp' \in CompFields /\ comp'.gen = comp.gen /\ comp'.session = 0
    BY <1>1, <2>1, CompUpdates
  <2>3. comp.session \in overlooked \cup {0} /\ ~removed
    BY <1>3 DEF OpenInv, Current
  <2>5. comp'.session \notin disposed' /\ \A u \in opens' : u.gen # comp'.session
    BY <1>1, <2>1, <2>2 DEF OpenInv
  <2>4. \A u \in made' \ opens' : u.gen \in disposed' \cup overlooked'
    <3>1. ASSUME NEW u \in made, u # t, u \notin opens
          PROVE  u.gen \in disposed \cup overlooked
      BY <1>1, <2>3, <3>1 DEF OpenInv, CompFields
    <3> QED
      BY <1>1, <1>3, <2>1, <3>1 DEF Brings
  <2> QED
    <3>1. \A u \in opens' : u.gen \notin disposed' /\ u.key \in Keys /\ u \in opens
      BY <1>1, <2>1 DEF OpenInv
    <3>2. comp'.session = 0 /\ comp'.session \in 0..comp'.gen /\ disposed' \subseteq 1..comp'.gen
      BY <1>1, <2>1, <2>2 DEF OpenInv, CompFields
    <3>3. \A u \in opens' \cup made' :
            /\ u.gen \in 1..comp'.gen
            /\ \A v \in opens' \cup made' : v.gen = u.gen => v = u
      BY <1>1, <2>2 DEF OpenInv
    <3> QED
      BY <1>1, <2>2, <2>3, <2>4, <2>5, <3>1, <3>2, <3>3 DEF OpenInv
<1>4. CASE ~Current(t)
  <2>1. /\ disposed' = IF Brings(t) THEN disposed \cup {t.gen} ELSE disposed
        /\ UNCHANGED comp
    BY <1>4 DEF CommitOpen
  <2>2. t.gen # comp.session
    BY DEF OpenInv
  <2>3. \A u \in opens' : u.gen # t.gen
    BY <1>1
  <2>4. \A u \in made' \ opens' : u.gen = comp.session \/ u.gen \in disposed' \cup overlooked
    BY <1>1, <2>1 DEF OpenInv, Brings
  <2>5. disposed' \subseteq 1..comp.gen /\ comp.session \notin disposed'
    BY <1>1, <2>1, <2>2 DEF OpenInv
  <2>6. \A u \in opens' : u.gen \notin disposed'
    BY <1>1, <2>1, <2>3 DEF OpenInv
  <2> QED
    BY <1>1, <2>1, <2>4, <2>5, <2>6 DEF OpenInv
<1> QED
  BY <1>2, <1>3, <1>4

LEMMA OpenStep ==
  ASSUME OpenInv, [OpenNext]_openVars
  PROVE  OpenInv'
<1>1. comp \in CompFields /\ dll \in Keys
  BY DEF OpenInv
<1>2. ASSUME (\E key \in Keys : EnterPath(key)) \/ ExpireOpen
      PROVE  OpenInv'
  BY <1>1, <1>2, StillOpenInv DEF EnterPath, ExpireOpen, OnCanvas, Restarts
<1>3. ASSUME NEW prof \in Profiles, Reopen(prof)
      PROVE  OpenInv'
  BY <1>1, <1>3, InvalidateInv DEF Reopen, OnCanvas, Restarts
<1>4. CASE DropStale
  <2>1. /\ Invalidate \/ UNCHANGED <<comp, disposed>>
        /\ ~removed /\ UNCHANGED <<dll, opens, made, overlooked, removed>>
    BY <1>4 DEF DropStale, Restarts, OpenInv
  <2> QED
    BY <1>1, <2>1, InvalidateInv, StillOpenInv
<1>5. CASE HandOn \/ ShowRefusal \/ Await \/ AssignOpening
  <2>1. /\ \/ comp' = comp
           \/ comp' = [comp EXCEPT !.error = FALSE]
           \/ comp' = [comp EXCEPT !.opening = TRUE]
        /\ ~removed /\ UNCHANGED <<dll, opens, made, disposed, overlooked, removed>>
    BY <1>5 DEF HandOn, ShowRefusal, Await, AssignOpening, Looks, OpenInv
  <2>2. comp' \in CompFields /\ comp'.gen = comp.gen /\ comp'.session = comp.session
    BY <1>1, <2>1, CompUpdates
  <2> QED
    BY <1>1, <2>1, <2>2, StillOpenInv
<1>6. CASE TakeOff
  BY <1>1, <1>6, InvalidateInv DEF TakeOff, OnCanvas
<1>7. ASSUME NEW t \in opens, OpenReturns(t)
      PROVE  OpenInv'
  BY <1>7 DEF OpenReturns, OpenInv
<1>8. ASSUME NEW t \in opens, CommitOpen(t)
      PROVE  OpenInv'
  BY <1>8, CommitOpenInv
<1>9. CASE UNCHANGED openVars
  BY <1>9 DEF openVars, OpenInv
<1> QED
  BY <1>2, <1>3, <1>4, <1>5, <1>6, <1>7, <1>8, <1>9, BeginInv DEF OpenNext

\* OpenFrameCoreComponent: under any interleaving of its looks, menu choices, opens that
\* return and opens that commit, a session that was made has exactly one owner, or was
\* overlooked by a SolveInstance that began another open beside it.
THEOREM SessionsAreOwnedOnce == OpenSpec => []SessionsHaveOneOwner
<1>1. OpenInit => OpenInv
  BY DEF OpenInit, OpenInv, CompFields
<1>2. OpenInv /\ [OpenNext]_openVars => OpenInv'
  BY OpenStep
<1>3. OpenInv => SessionsHaveOneOwner
  <2> SUFFICES ASSUME OpenInv
               PROVE  SessionsHaveOneOwner
    OBVIOUS
  <2>1. ASSUME NEW t \in made
        PROVE  \/ Cardinality(Owners(t)) = 1
               \/ Owners(t) = {} /\ t.gen \in overlooked
    <3>1. CASE t \in opens
      <4>1. t.gen # comp.session /\ t.gen \notin disposed
        BY <3>1 DEF OpenInv
      <4>2. Owners(t) = {"open"}
        BY <3>1, <4>1 DEF Owners
      <4> QED
        BY <4>2, FS_Singleton
    <3>2. CASE t \notin opens /\ t.gen = comp.session
      <4>1. t.gen \notin disposed
        BY <3>2 DEF OpenInv
      <4>2. Owners(t) = {"component"}
        BY <3>2, <4>1 DEF Owners
      <4> QED
        BY <4>2, FS_Singleton
    <3>3. CASE t \notin opens /\ t.gen # comp.session /\ t.gen \in disposed
      <4>1. Owners(t) = {"disposal"}
        BY <3>3 DEF Owners
      <4> QED
        BY <4>1, FS_Singleton
    <3>4. CASE t \notin opens /\ t.gen # comp.session /\ t.gen \notin disposed
      <4>1. t.gen \in overlooked
        BY <2>1, <3>4 DEF OpenInv
      <4>2. Owners(t) = {}
        BY <3>4 DEF Owners
      <4> QED
        BY <4>1, <4>2
    <3> QED
      BY <3>1, <3>2, <3>3, <3>4
  <2>2. removed => comp.session = 0
    BY DEF OpenInv
  <2> QED
    BY <2>1, <2>2 DEF SessionsHaveOneOwner
<1> QED
  BY <1>1, <1>2, <1>3, PTL DEF OpenSpec

-------------------------------------------------------------------------------
(* AssembleComponent: what says it is assembling is going to be asked again. *)

AssemblyFields(o) == o = [fs |-> o.fs, frame |-> o.frame, id |-> o.id, at |-> o.at]
UnderWay(g) == g \in DOMAIN assemblies /\ assemblies[g].at # "over"

\* A task that is remembered is of the last generation, and under way unless it was over
\* when it was remembered; and what shows "assembling" is solved again, or remembers one.
AssembleInv ==
  /\ assembleExpires \in Nat /\ generation \in Nat
  /\ \A g \in DOMAIN assemblies : AssemblyFields(assemblies[g])
  /\ assembling # 0 =>
       assembling = generation /\ (UnderWay(generation) \/ assembling \in overtaken)
  /\ deciding = "assign" => generation # 0 /\ generation \in DOMAIN assemblies
  /\ deciding = "wait" => assembleExpires > 0 \/ assembling # 0
  /\ handed.as = "assembling" /\ deciding = "away" => assembleExpires > 0 \/ assembling # 0

LEMMA AssemblyAt ==
  ASSUME NEW o, NEW place, AssemblyFields(o)
  PROVE  LET n == [o EXCEPT !.at = place] IN AssemblyFields(n) /\ n.at = place
BY DEF AssemblyFields

\* A generation that moves takes the others along where they are.
LEMMA AssemblyReplaced ==
  ASSUME AssembleInv, NEW g \in DOMAIN assemblies, NEW n, AssemblyFields(n),
         assemblies' = [assemblies EXCEPT ![g] = n]
  PROVE  /\ DOMAIN assemblies' = DOMAIN assemblies
         /\ \A o \in DOMAIN assemblies' : AssemblyFields(assemblies'[o])
         /\ \A o \in DOMAIN assemblies : assemblies'[o].at = IF o = g THEN n.at ELSE assemblies[o].at
<1>1. /\ DOMAIN assemblies' = DOMAIN assemblies
      /\ \A o \in DOMAIN assemblies : assemblies'[o] = IF o = g THEN n ELSE assemblies[o]
  OBVIOUS
<1>2. \A o \in DOMAIN assemblies' : AssemblyFields(assemblies'[o])
  BY <1>1 DEF AssembleInv
<1>3. \A o \in DOMAIN assemblies : assemblies'[o].at = IF o = g THEN n.at ELSE assemblies[o].at
  BY <1>1
<1> QED
  BY <1>1, <1>2, <1>3

LEMMA AssemblyMoves ==
  ASSUME AssembleInv, NEW g \in DOMAIN assemblies, NEW place, AssembleGoto(g, place)
  PROVE  /\ DOMAIN assemblies' = DOMAIN assemblies
         /\ \A o \in DOMAIN assemblies' : AssemblyFields(assemblies'[o])
         /\ \A o \in DOMAIN assemblies : assemblies'[o].at = IF o = g THEN place ELSE assemblies[o].at
<1> DEFINE moved == [assemblies[g] EXCEPT !.at = place]
           n == IF place = "over" THEN AssemblyOver ELSE moved
<1>1. assemblies' = [assemblies EXCEPT ![g] = n]
  BY DEF AssembleGoto
<1>2. AssemblyFields(n) /\ n.at = place
  <2>1. AssemblyFields(assemblies[g])
    BY DEF AssembleInv
  <2>2. AssemblyFields(moved) /\ moved.at = place
    BY <2>1, AssemblyAt
  <2>3. AssemblyFields(AssemblyOver) /\ AssemblyOver.at = "over"
    BY DEF AssemblyFields, AssemblyOver
  <2> HIDE DEF moved
  <2> QED
    BY <2>2, <2>3
<1> HIDE DEF n
<1> QED
  BY <1>1, <1>2, AssemblyReplaced

LEMMA NoticeInv ==
  ASSUME AssembleInv, NEW f, NEW fs, NEW queued \in Nat, Notice(f, fs, queued)
  PROVE  AssembleInv'
<1>1. deciding' = "cached" /\ assembleExpires' \in Nat /\ UNCHANGED <<assemblies, overtaken>>
  BY DEF Notice
<1>2. \/ assembling' = 0 /\ generation' = generation + 1
      \/ UNCHANGED <<assembling, generation>>
  BY DEF Notice
<1> QED
  BY <1>1, <1>2 DEF AssembleInv, UnderWay

\* The steps of SolveInstance: "assembling" is shown of a task that is remembered.
LEMMA DecideInv ==
  ASSUME AssembleInv, Reuse \/ Refused \/ Start \/ Assign \/ UnderWayAlready \/ Wait
  PROVE  AssembleInv'
<1>1. CASE Reuse \/ Refused \/ UnderWayAlready \/ Wait
  <2>1. UNCHANGED <<assembleExpires, generation, assembling, overtaken, assemblies>>
    BY <1>1 DEF Reuse, Refused, UnderWayAlready, Wait, OnlyLooks
  <2>2. deciding' # "assign" /\ (deciding' = "wait" => assembling # 0)
    BY <1>1 DEF Reuse, Refused, UnderWayAlready, Wait
  <2>3. handed'.as = "assembling" /\ deciding' = "away" => assembleExpires > 0 \/ assembling # 0
    <3>1. CASE Reuse \/ Refused \/ UnderWayAlready
      BY <3>1 DEF Reuse, Refused, UnderWayAlready, Shows
    <3>2. CASE Wait
      BY <3>2 DEF Wait, Shows, AssembleInv
    <3> QED
      BY <1>1, <3>1, <3>2
  <2> QED
    BY <2>1, <2>2, <2>3 DEF AssembleInv, UnderWay
<1>2. CASE Start
  <2> DEFINE new == [fs |-> upstream, frame |-> frame, id |-> cache.id,
                     at |-> IF cache.id = Null THEN "opening" ELSE "setting"]
  <2>1. /\ assemblies' = [g \in DOMAIN assemblies \cup {generation'} |->
                            IF g # generation' THEN assemblies[g] ELSE new]
        /\ assembling = 0 /\ deciding' = "assign" /\ generation' = generation + 1
        /\ UNCHANGED <<assembling, assembleExpires>>
    BY <1>2 DEF Start
  <2>2. AssemblyFields(new)
    BY DEF AssemblyFields
  <2> HIDE DEF new
  <2>3. /\ generation' \in DOMAIN assemblies'
        /\ \A g \in DOMAIN assemblies' : AssemblyFields(assemblies'[g])
    BY <2>1, <2>2 DEF AssembleInv
  <2> QED
    BY <2>1, <2>3 DEF AssembleInv
<1>3. CASE Assign
  <2>1. /\ deciding = "assign" /\ deciding' = "away" /\ assembling' = generation
        /\ overtaken' = overtaken \cup {g \in {generation} : assemblies[g].at = "over"}
        /\ UNCHANGED <<assembleExpires, generation, assemblies>>
    BY <1>3 DEF Assign
  <2>2. generation \in DOMAIN assemblies
    BY <2>1 DEF AssembleInv
  <2>3. (UnderWay(generation) \/ assembling \in overtaken)'
    BY <2>1, <2>2 DEF UnderWay
  <2> QED
    BY <2>1, <2>2, <2>3 DEF AssembleInv
<1> QED
  BY <1>1, <1>2, <1>3

\* A step of a task leaves it under way, unless another generation is the last one
\* by now, or the component is expired with it.
LEMMA AssemblyStep ==
  ASSUME AssembleInv, NEW g \in DOMAIN assemblies,
         \/ OpenSession(g) \/ SetModel(g) \/ CallFails(g) \/ LookAssemble(g)
         \/ CommitModel(g) \/ RecordError(g) \/ AssembleFinally(g) \/ Clear(g)
  PROVE  AssembleInv'
<1>1. ASSUME NEW place, place # "over" \/ generation # g,
             /\ DOMAIN assemblies' = DOMAIN assemblies
             /\ \A o \in DOMAIN assemblies' : AssemblyFields(assemblies'[o])
             /\ \A o \in DOMAIN assemblies :
                  assemblies'[o].at = IF o = g THEN place ELSE assemblies[o].at,
             UNCHANGED <<deciding, generation, handed, assembling, overtaken, assembleExpires>>
      PROVE  AssembleInv'
  <2>1. UnderWay(generation) => UnderWay(generation)'
    BY <1>1 DEF UnderWay
  <2> QED
    BY <1>1, <2>1 DEF AssembleInv
<1>2. CASE OpenSession(g)
  <2> DEFINE id == <<assemblies[g].fs, g>>
             n == [fs |-> assemblies[g].fs, frame |-> assemblies[g].frame, id |-> id,
                   at |-> "setting"]
  <2>1. /\ assemblies' = [assemblies EXCEPT ![g] = n]
        /\ UNCHANGED <<deciding, generation, handed, assembling, overtaken, assembleExpires>>
    BY <1>2 DEF OpenSession, Elsewhere
  <2>2. AssemblyFields(n) /\ n.at = "setting"
    BY DEF AssemblyFields
  <2> HIDE DEF n
  <2>3. /\ DOMAIN assemblies' = DOMAIN assemblies
        /\ \A o \in DOMAIN assemblies' : AssemblyFields(assemblies'[o])
        /\ \A o \in DOMAIN assemblies :
             assemblies'[o].at = IF o = g THEN "setting" ELSE assemblies[o].at
    BY <2>1, <2>2, AssemblyReplaced
  <2> QED
    BY <1>1, <2>1, <2>3
<1>3. CASE SetModel(g) \/ CallFails(g) \/ LookAssemble(g) \/ CommitModel(g) \/ RecordError(g)
  <2>1. /\ \E place \in {"set", "failed", "finally", "commit", "refuse"} : AssembleGoto(g, place)
        /\ UNCHANGED <<deciding, generation, handed, assembling, overtaken, assembleExpires>>
    BY <1>3 DEF SetModel, CallFails, LookAssemble, CommitModel, RecordError, Elsewhere
  <2>2. PICK place \in {"set", "failed", "finally", "commit", "refuse"} : AssembleGoto(g, place)
    BY <2>1
  <2> QED
    BY <1>1, <2>1, <2>2, AssemblyMoves
<1>4. CASE AssembleFinally(g)
  <2>1. /\ AssembleGoto(g, IF generation = g THEN "clear" ELSE "over")
        /\ UNCHANGED <<deciding, generation, handed, assembling, overtaken, assembleExpires>>
    BY <1>4 DEF AssembleFinally, Elsewhere
  <2> QED
    BY <1>1, <2>1, AssemblyMoves
<1>5. CASE Clear(g)
  <2>1. /\ AssembleGoto(g, "over") /\ assembling' = 0
        /\ assembleExpires' = assembleExpires + 1 /\ UNCHANGED <<deciding, generation>>
    BY <1>5 DEF Clear, Elsewhere
  <2> QED
    BY <2>1, AssemblyMoves DEF AssembleInv
<1> QED
  BY <1>2, <1>3, <1>4, <1>5

\* AssembleModelComponent: whatever overtook what, at rest it does not show that it is
\* assembling, unless the task it remembers was over before it was remembered.
THEOREM AssemblingComesToAnEnd == AssembleSpec => []AssemblingEnds
<1>1. AssembleInit => AssembleInv
  BY DEF AssembleInit, AssembleInv, Shows
<1>2. AssembleInv /\ [AssembleNext]_assembleVars => AssembleInv'
  <2> SUFFICES ASSUME AssembleInv, [AssembleNext]_assembleVars
               PROVE  AssembleInv'
    OBVIOUS
  <2>1. CASE \E f \in Frames : WireFrame(f)
    BY <2>1, NoticeInv DEF WireFrame, AssembleInv
  <2>2. CASE ReplaceUpstream
    BY <2>2, NoticeInv DEF ReplaceUpstream, AssembleInv
  <2>3. CASE ExpireAssemble
    <3>1. assembleExpires - 1 \in Nat
      BY <2>3 DEF ExpireAssemble, AssembleInv
    <3> QED
      BY <2>3, <3>1, NoticeInv DEF ExpireAssemble
  <2>4. CASE Reuse \/ Refused \/ Start \/ Assign \/ UnderWayAlready \/ Wait
    BY <2>4, DecideInv
  <2>5. ASSUME NEW g \in DOMAIN assemblies,
               \/ OpenSession(g) \/ SetModel(g) \/ CallFails(g) \/ LookAssemble(g)
               \/ CommitModel(g) \/ RecordError(g) \/ AssembleFinally(g) \/ Clear(g)
        PROVE  AssembleInv'
    BY <2>5, AssemblyStep
  <2>6. CASE UNCHANGED assembleVars
    BY <2>6 DEF assembleVars, AssembleInv, UnderWay
  <2> QED
    BY <2>1, <2>2, <2>3, <2>4, <2>5, <2>6 DEF AssembleNext
<1>3. AssembleInv => AssemblingEnds
  BY DEF AssembleInv, AssemblingEnds, Settled, At, UnderWay
<1> QED
  BY <1>1, <1>2, <1>3, PTL DEF AssembleSpec

-------------------------------------------------------------------------------
(* CApiContext: what its clients see.                                       *)

Working == {"submit", "run", "settle", "publish"}

\* The worker has a frame while it is in Submit; recv keeps nothing while it waits.
ContextShape ==
  /\ inbound \in Seq(Requests)
  /\ outbound \in Seq(ContextFrames) /\ received \in Seq(ContextFrames)
  /\ kept \in Seq(ContextFrames)
  /\ reader # "out" => kept = <<>>
  /\ worker \in Working => job \in Requests
  /\ worker \notin Working => job = None
  /\ worker \in {"settle", "publish"} => answer \in {"response", "CANCELLED"}

\* What is accepted and not answered, the oldest first.
Unanswered == InHand \o inbound

-------------------------------------------------------------------------------
(* Sequences.                                                               *)

LEMMA HeadThenTail ==
  ASSUME NEW S, NEW s \in Seq(S), s # <<>>
  PROVE  <<Head(s)>> \o Tail(s) = s
<1>1. /\ Head(s) \in S /\ Tail(s) \in Seq(S) /\ <<Head(s)>> \in Seq(S)
      /\ Len(Tail(s)) = Len(s) - 1
      /\ \A i \in 1 .. Len(Tail(s)) : Tail(s)[i] = s[i+1]
  BY HeadTailProperties
<1>2. Len(s) \in Nat \ {0}
  BY EmptySeq
<1> DEFINE t == <<Head(s)>> \o Tail(s)
<1>3. /\ t \in Seq(S) /\ Len(t) = Len(s)
      /\ \A i \in 1 .. Len(s) : t[i] = IF i <= 1 THEN Head(s) ELSE Tail(s)[i - 1]
  BY <1>1, <1>2, ConcatProperties
<1>4. \A i \in 1 .. Len(s) : t[i] = s[i]
  BY <1>1, <1>2, <1>3
<1> QED
  BY <1>3, <1>4, SeqEqual

LEMMA AppendToConcat ==
  ASSUME NEW S, NEW s \in Seq(S), NEW t \in Seq(S), NEW e \in S
  PROVE  Append(s \o t, e) = s \o Append(t, e)
<1>1. s \o t \in Seq(S) /\ <<e>> \in Seq(S)
  BY ConcatProperties
<1>2. Append(s \o t, e) = (s \o t) \o <<e>> /\ Append(t, e) = t \o <<e>>
  BY <1>1, AppendIsConcat
<1> QED
  BY <1>1, <1>2, ConcatAssociative

LEMMA HeadTailOfCons ==
  ASSUME NEW S, NEW e \in S, NEW s \in Seq(S)
  PROVE  LET t == <<e>> \o s IN t # <<>> /\ Head(t) = e /\ Tail(t) = s
<1> DEFINE t == <<e>> \o s
<1>1. /\ t \in Seq(S) /\ Len(t) = Len(s) + 1
      /\ \A i \in 1 .. Len(s) + 1 : t[i] = IF i <= 1 THEN e ELSE s[i - 1]
  BY ConcatProperties
<1>2. Len(s) \in Nat
  BY LenProperties
<1>3. t # <<>>
  BY <1>1, <1>2, EmptySeq
<1>4. Head(t) = e
  BY <1>1, <1>2, <1>3
<1>5. /\ Tail(t) \in Seq(S) /\ Len(Tail(t)) = Len(s)
      /\ \A i \in 1 .. Len(s) : Tail(t)[i] = t[i + 1]
  BY <1>1, <1>2, <1>3, HeadTailProperties
<1>6. \A i \in 1 .. Len(s) : Tail(t)[i] = s[i]
  BY <1>1, <1>2, <1>5
<1>7. Tail(t) = s
  BY <1>5, <1>6, SeqEqual
<1> QED
  BY <1>3, <1>4, <1>7

-------------------------------------------------------------------------------
(* What each step does to what clients see.                                 *)

LEMMA ShapesOfView ==
  ASSUME ContextShape
  PROVE  /\ InHand \in Seq(Requests) /\ Unanswered \in Seq(Requests)
         /\ received \o kept \in Seq(ContextFrames) /\ Produced \in Seq(ContextFrames)
<1>1. InHand \in Seq(Requests)
  BY DEF ContextShape, InHand
<1>2. Unanswered \in Seq(Requests)
  BY <1>1, ConcatProperties DEF Unanswered, ContextShape
<1>3. received \o kept \in Seq(ContextFrames)
  BY ConcatProperties DEF ContextShape
<1>4. Produced \in Seq(ContextFrames)
  BY <1>3, ConcatProperties DEF Produced, ContextShape
<1> QED
  BY <1>1, <1>2, <1>3, <1>4

\* A frame at the end of the outbound queue is the last one produced.
LEMMA ProducedGrows ==
  ASSUME ContextShape, NEW f \in ContextFrames, outbound' = Append(outbound, f),
         received' = received, kept' = kept
  PROVE  Produced' = Append(Produced, f)
<1> DEFINE before == received \o kept
           rest == outbound
           all == ContextFrames
<1>1. before \in Seq(all) /\ rest \in Seq(all)
  BY ShapesOfView DEF ContextShape
<1>2. Produced = before \o rest /\ Produced' = before \o Append(rest, f)
  BY DEF Produced
<1> HIDE DEF before, rest, all
<1>3. f \in all
  BY DEF all
<1>4. before \o rest \in Seq(all) /\ <<f>> \in Seq(all)
  BY <1>1, <1>3, ConcatProperties
<1>5. Append(before \o rest, f) = (before \o rest) \o <<f>> /\ Append(rest, f) = rest \o <<f>>
  BY ONLY <1>1, <1>3, <1>4, AppendIsConcat
<1>6. Append(before \o rest, f) = before \o Append(rest, f)
  BY ONLY <1>1, <1>4, <1>5, ConcatAssociative
<1> QED
  BY <1>2, <1>6

LEMMA FrameIsFrame ==
  ASSUME NEW r \in Requests, NEW body \in Bodies
  PROVE  Frame(r, body) \in ContextFrames
BY DEF Frame, ContextFrames

\* A step of the worker in Submit answers, or emits an event, or gets on.
LEMMA SubmitKinds ==
  ASSUME ContextShape, Submit
  PROVE  \/ /\ worker \in {"submit", "publish"}
            /\ \E body \in Bodies \ {"event"} :
                 Reply(body) /\ (body = "response" => worker = "publish" /\ answer = body)
            /\ cancelled \ {job} \subseteq cancelled'
         \/ Emit
         \/ /\ worker \in {"submit", "run", "settle"} /\ worker' \in {"run", "settle", "publish"}
            /\ UNCHANGED <<outbound, job>>
            /\ worker' # "run" => answer' \in {"response", "CANCELLED"}
<1>1. CASE worker = "submit" /\ (Greet \/ RefuseFrame \/ Consume)
  BY <1>1 DEF Greet, RefuseFrame, Consume, Bodies
<1>2. CASE worker = "submit" /\ Dispatch
  BY <1>2 DEF Dispatch
<1>3. CASE HandlerReturns
  BY <1>3 DEF HandlerReturns, Outcome
<1>4. CASE Settle
  BY <1>4 DEF Settle, ContextShape
<1>5. CASE Publish
  BY <1>5 DEF Publish, ContextShape, Bodies
<1> QED
  BY <1>1, <1>2, <1>3, <1>4, <1>5 DEF Submit

LEMMA ReplyIsSeen ==
  ASSUME ContextShape, worker \in Working, NEW body \in Bodies \ {"event"}, Reply(body),
         UNCHANGED <<inbound, kept, received>>
  PROVE  /\ Unanswered # <<>> /\ Head(Unanswered) = job /\ Unanswered' = Tail(Unanswered)
         /\ Produced' = Append(Produced, [req |-> job, body |-> body, last |-> TRUE])
<1>1. job \in Requests /\ job # None
  BY DispatcherAssumption DEF ContextShape
<1>2. InHand = <<job>> /\ InHand' = <<>>
  BY <1>1 DEF InHand, Reply
<1>3. Unanswered = <<job>> \o inbound /\ Unanswered' = <<>> \o inbound
  BY <1>2 DEF Unanswered
<1>4. Unanswered' = inbound
  BY <1>3, ConcatEmptySeq DEF ContextShape
<1>5. Unanswered # <<>> /\ Head(Unanswered) = job /\ Tail(Unanswered) = inbound
  BY <1>1, <1>3, HeadTailOfCons DEF ContextShape
<1>6. Frame(job, body) = [req |-> job, body |-> body, last |-> TRUE]
  BY DEF Frame
<1>7. Produced' = Append(Produced, Frame(job, body))
  <2>1. Frame(job, body) \in ContextFrames
    BY <1>1, FrameIsFrame
  <2>2. outbound' = Append(outbound, Frame(job, body)) /\ received' = received /\ kept' = kept
    BY DEF Reply
  <2> QED
    BY <2>1, <2>2, ProducedGrows
<1> QED
  BY <1>4, <1>5, <1>6, <1>7

LEMMA EventIsSeen ==
  ASSUME ContextShape, Emit, UNCHANGED <<inbound, kept, received>>
  PROVE  /\ Unanswered # <<>> /\ Head(Unanswered) = job /\ Unanswered' = Unanswered
         /\ Produced' = Append(Produced, [req |-> job, body |-> "event", last |-> FALSE])
<1>1. job \in Requests /\ job # None
  BY DispatcherAssumption DEF ContextShape, Emit, Working
<1>2. InHand = <<job>> /\ InHand' = InHand
  BY <1>1 DEF InHand, Emit
<1>3. Unanswered # <<>> /\ Head(Unanswered) = job /\ Unanswered' = Unanswered
  BY <1>1, <1>2, HeadTailOfCons DEF Unanswered, ContextShape
<1>4. Frame(job, "event") = [req |-> job, body |-> "event", last |-> FALSE]
  BY DEF Frame
<1>5. Produced' = Append(Produced, Frame(job, "event"))
  <2>1. "event" \in Bodies
    BY DEF Bodies
  <2>2. Frame(job, "event") \in ContextFrames
    BY <1>1, <2>1, FrameIsFrame
  <2>3. outbound' = Append(outbound, Frame(job, "event")) /\ received' = received /\ kept' = kept
    BY DEF Emit
  <2> QED
    BY <2>2, <2>3, ProducedGrows
<1> QED
  BY <1>3, <1>4, <1>5

\* Taking a request off the inbound queue keeps it in front.
LEMMA TakeIsHidden ==
  ASSUME ContextShape, Take
  PROVE  Unanswered' = Unanswered /\ Produced' = Produced
<1>1. job = None /\ InHand = <<>>
  BY DEF ContextShape, Take, Working, InHand
<1>2. Unanswered = inbound
  BY <1>1, ConcatEmptySeq DEF Unanswered, ContextShape
<1>3. CASE UNCHANGED <<job, inbound>>
  BY <1>3 DEF Unanswered, InHand, Take, Produced, histories
<1>4. CASE inbound # <<>> /\ job' = Head(inbound) /\ inbound' = Tail(inbound)
  <2>1. job' \in Requests /\ job' # None
    BY <1>4, HeadTailProperties, DispatcherAssumption DEF ContextShape
  <2>2. Unanswered' = <<Head(inbound)>> \o Tail(inbound)
    BY <1>4, <2>1 DEF Unanswered, InHand
  <2>3. Unanswered' = inbound
    BY <1>4, <2>2, HeadThenTail DEF ContextShape
  <2> QED
    BY <1>2, <2>3 DEF Take, Produced, histories
<1> QED
  BY <1>3, <1>4 DEF Take

\* A frame goes from the outbound queue to the client, or is kept for it.
LEMMA PopIsHidden ==
  ASSUME ContextShape, NEW probe \in BOOLEAN, Popped(probe), outbound # <<>>, kept = <<>>
  PROVE  Produced' = Produced
<1> DEFINE f == Head(outbound)
<1>1. f \in ContextFrames /\ Tail(outbound) \in Seq(ContextFrames) /\ <<f>> \in Seq(ContextFrames)
  BY HeadTailProperties DEF ContextShape
<1>2. <<f>> \o Tail(outbound) = outbound
  BY HeadThenTail DEF ContextShape
<1>3. Produced = received \o outbound
  BY ConcatEmptySeq DEF Produced, ContextShape
<1>4. CASE probe
  <2>1. Produced' = (received \o <<f>>) \o Tail(outbound)
    BY <1>4 DEF Popped, Produced
  <2> QED
    BY <1>1, <1>2, <1>3, <2>1, ConcatAssociative DEF ContextShape
<1>5. CASE ~probe
  <2>1. Produced' = (Append(received, f) \o <<>>) \o Tail(outbound)
    BY <1>5 DEF Popped, Produced
  <2>2. Append(received, f) = received \o <<f>> /\ received \o <<f>> \in Seq(ContextFrames)
    BY <1>1, AppendIsConcat, ConcatProperties DEF ContextShape
  <2>3. Produced' = (received \o <<f>>) \o Tail(outbound)
    BY <2>1, <2>2, ConcatEmptySeq
  <2> QED
    BY <1>1, <1>2, <1>3, <2>3, ConcatAssociative DEF ContextShape
<1> QED
  BY <1>4, <1>5

LEMMA FetchIsHidden ==
  ASSUME ContextShape, RecvFetches
  PROVE  Produced' = Produced
<1>1. received \o kept \in Seq(ContextFrames)
  BY ShapesOfView
<1>2. (received \o kept) \o <<>> = received \o kept
  BY <1>1, ConcatEmptySeq
<1> QED
  BY <1>2 DEF RecvFetches, Produced, dispatcherVars

LEMMA RecvIsHidden ==
  ASSUME ContextShape, Receiving
  PROVE  Produced' = Produced /\ Unanswered' = Unanswered /\ UNCHANGED <<closer, worker, job, answer>>
<1>1. UNCHANGED <<inbound, closer, worker, job, answer>>
  BY DEF Receiving, RecvLooks, RecvWaits, RecvTimesOut, RecvFetches, dispatcherVars
<1>2. CASE RecvLooks
  <2>1. kept = <<>>
    BY <1>2 DEF RecvLooks, ContextShape
  <2>2. ASSUME UNCHANGED <<outbound, kept, received>>
        PROVE  Produced' = Produced
    BY <2>2 DEF Produced
  <2>3. ASSUME NEW probe \in BOOLEAN, Popped(probe), outbound # <<>>
        PROVE  Produced' = Produced
    BY <2>1, <2>3, PopIsHidden
  <2> QED
    BY <1>1, <1>2, <2>2, <2>3 DEF RecvLooks, Unanswered, InHand
<1>3. CASE RecvWaits \/ RecvTimesOut
  BY <1>1, <1>3 DEF RecvWaits, RecvTimesOut, histories, dispatcherVars, Produced, Unanswered, InHand
<1>4. CASE RecvFetches
  BY <1>1, <1>4, FetchIsHidden DEF Unanswered, InHand
<1> QED
  BY <1>2, <1>3, <1>4 DEF Receiving

LEMMA NotifyIsHidden ==
  ASSUME ContextShape, NotifyAll \/ WorkerNotifies
  PROVE  Produced' = Produced /\ Unanswered' = Unanswered
BY DEF NotifyAll, WorkerNotifies, histories, Produced, Unanswered, InHand

\* Only Submit answers, and it says what it leaves alone.
LEMMA SubmitLeaves ==
  ASSUME WorkerSubmits
  PROVE  /\ UNCHANGED <<inbound, kept, reader, closer, received, sent>>
         /\ Submit
BY DEF WorkerSubmits, ctxVars, histories

LEMMA ShapeStep ==
  ASSUME ContextShape, [ContextNext]_contextVars
  PROVE  ContextShape'
<1>1. ASSUME NEW r \in Requests, V2Send(r)
      PROVE  ContextShape'
  <2>1. inbound' \in Seq(Requests)
    BY <1>1, AppendProperties DEF V2Send, ContextShape
  <2> QED
    BY <1>1, <2>1 DEF V2Send, ContextShape, dispatcherVars
<1>2. ASSUME NEW r \in Requests, CancelById(r)
      PROVE  ContextShape'
  BY <1>2 DEF CancelById, CancelRequest, ContextShape, ctxVars, histories
<1>3. CASE CancelRecv \/ EraseOwner \/ Join
  BY <1>3 DEF CancelRecv, EraseOwner, Join, ContextShape, dispatcherVars, histories
<1>4. CASE Shut
  <2>1. inbound' \in Seq(Requests)
    BY <1>4, EmptySeq DEF Shut
  <2> QED
    BY <1>4, <2>1 DEF Shut, ContextShape, dispatcherVars, histories
<1>5. CASE NotifyAll \/ WorkerNotifies
  BY <1>5 DEF NotifyAll, WorkerNotifies, ContextShape, Working, histories
<1>6. CASE Take
  <2>1. inbound' \in Seq(Requests) /\ (worker' = "submit" => job' \in Requests)
    BY <1>6, HeadTailProperties DEF Take, ContextShape, Working
  <2>2. worker' \in {"ended", "parked"} => job' = None
    BY <1>6 DEF Take, ContextShape, Working
  <2>3. worker' \in {"ended", "parked", "submit"}
    BY <1>6 DEF Take
  <2> QED
    BY <1>6, <2>1, <2>2, <2>3 DEF Take, ContextShape, Working, histories
<1>7. CASE WorkerSubmits
  <2>1. UNCHANGED <<inbound, kept, reader, received>>
    BY <1>7, SubmitLeaves
  <2>2. CASE \E body \in Bodies \ {"event"} : Reply(body) /\ worker \in {"submit", "publish"}
    <3>1. PICK body \in Bodies \ {"event"} : Reply(body) /\ worker \in {"submit", "publish"}
      BY <2>2
    <3>2. Frame(job, body) \in ContextFrames
      BY <3>1, FrameIsFrame DEF ContextShape, Working
    <3>3. outbound' \in Seq(ContextFrames)
      BY <3>1, <3>2, AppendProperties DEF Reply, ContextShape
    <3> QED
      BY <2>1, <3>1, <3>3 DEF Reply, ContextShape, Working
  <2>3. CASE Emit
    <3>1. Frame(job, "event") \in ContextFrames
      BY <2>3, FrameIsFrame DEF Emit, ContextShape, Working, Bodies
    <3>2. outbound' \in Seq(ContextFrames)
      BY <2>3, <3>1, AppendProperties DEF Emit, ContextShape
    <3> QED
      BY <2>1, <2>3, <3>2 DEF Emit, ContextShape, Working
  <2>4. CASE /\ worker \in {"submit", "run", "settle"} /\ worker' \in {"run", "settle", "publish"}
             /\ UNCHANGED <<outbound, job>>
             /\ worker' # "run" => answer' \in {"response", "CANCELLED"}
    BY <2>1, <2>4 DEF ContextShape, Working
  <2> QED
    BY <1>7, <2>2, <2>3, <2>4, SubmitKinds, SubmitLeaves
<1>8. CASE Receiving
  <2>1. UNCHANGED <<inbound, worker, job, answer>>
    BY <1>8 DEF Receiving, RecvLooks, RecvWaits, RecvTimesOut, RecvFetches, dispatcherVars
  <2>2. CASE UNCHANGED <<outbound, kept, received>>
    <3>1. reader' # "out" => kept' = <<>>
      BY <1>8, <2>2 DEF Receiving, RecvLooks, RecvWaits, RecvTimesOut, RecvFetches,
                        Returns, ContextShape
    <3> QED
      BY <2>1, <2>2, <3>1 DEF ContextShape
  <2>3. ASSUME NEW probe \in BOOLEAN, Popped(probe), outbound # <<>>, reader' = "out"
        PROVE  ContextShape'
    <3>1. Head(outbound) \in ContextFrames /\ Tail(outbound) \in Seq(ContextFrames)
      BY <2>3, HeadTailProperties DEF ContextShape
    <3>2. outbound' \in Seq(ContextFrames) /\ kept' \in Seq(ContextFrames)
      BY <2>3, <3>1 DEF Popped
    <3>3. received' \in Seq(ContextFrames)
      BY <2>3, <3>1, AppendProperties DEF Popped, ContextShape
    <3> QED
      BY <2>1, <2>3, <3>2, <3>3 DEF ContextShape
  <2>4. CASE RecvFetches
    <3>1. /\ kept' = <<>> /\ received' = received \o kept /\ UNCHANGED <<outbound, reader>>
      BY <2>4 DEF RecvFetches, dispatcherVars
    <3>2. received' \in Seq(ContextFrames) /\ kept' \in Seq(ContextFrames)
      BY <3>1, ShapesOfView, EmptySeq
    <3> QED
      BY <2>1, <3>1, <3>2 DEF ContextShape
  <2>5. \/ UNCHANGED <<outbound, kept, received>>
        \/ \E probe \in BOOLEAN : Popped(probe) /\ outbound # <<>> /\ reader' = "out"
        \/ RecvFetches
    BY <1>8 DEF Receiving, RecvLooks, RecvWaits, RecvTimesOut, Returns, dispatcherVars, histories
  <2> QED
    BY <2>2, <2>3, <2>4, <2>5
<1>9. CASE UNCHANGED contextVars
  BY <1>9 DEF contextVars, dispatcherVars, ctxVars, histories, ContextShape
<1> QED
  BY <1>1, <1>2, <1>3, <1>4, <1>5, <1>6, <1>7, <1>8, <1>9, CApiContextAssumption DEF ContextNext

-------------------------------------------------------------------------------
(* The promise of the header.                                               *)

\* Whatever waits or was ever answered was sent.
Asked == ToSet(Unanswered) \cup {Produced[k].req : k \in DOMAIN Produced}

\* A request waits once, and not any more when it has its final frame.
AnsweredOnce ==
  /\ \A i, j \in DOMAIN Unanswered : Unanswered[i] = Unanswered[j] => i = j
  /\ \A k \in DOMAIN Produced :
       /\ Produced[k].last = (Produced[k].body # "event")
       /\ Produced[k].last => Produced[k].req \notin ToSet(Unanswered)

ContextInv == ContextShape /\ Asked \subseteq sent /\ AnsweredOnce

\* A step is one of the server, by what clients see of it, or none.
LEMMA StepIsPromised ==
  ASSUME ContextInv, [ContextNext]_contextVars
  PROVE  \/ /\ \E r \in Requests : V2Send(r) /\ Promise!Accept(r)
         \/ /\ UNCHANGED sent
            /\ \E body \in Bodies : Promise!Produce(body, body # "event")
         \/ UNCHANGED sent /\ Promise!Close
         \/ UNCHANGED sent /\ UNCHANGED <<Unanswered, Produced, ctxClosed>>
<1>0. ContextShape
  BY DEF ContextInv
<1>1. ASSUME NEW r \in Requests, V2Send(r)
      PROVE  Promise!Accept(r)
  <2>1. r \notin sent /\ ~ctxClosed /\ inbound' = Append(inbound, r)
        /\ UNCHANGED <<job, outbound, kept, received, closer>>
    BY <1>1 DEF V2Send, dispatcherVars
  <2>2. InHand' = InHand /\ Produced' = Produced /\ ctxClosed' = ctxClosed
    BY <2>1 DEF InHand, Produced, ctxClosed
  <2>3. Unanswered' = Append(Unanswered, r)
    BY <1>0, <2>1, <2>2, ShapesOfView, AppendToConcat DEF Unanswered, ContextShape
  <2>4. r \notin Promise!Asked
    <3>1. Promise!Asked = Asked
      BY DEF Promise!Asked, Promise!ToSet, ToSet, Asked, Unanswered
    <3> QED
      BY <2>1, <3>1 DEF ContextInv
  <2> QED
    BY <2>1, <2>2, <2>3, <2>4 DEF Promise!Accept, Unanswered
<1>2. CASE Shut
  <2>1. /\ closer = "erased" /\ closer' = "closed" /\ inbound' = <<>>
        /\ UNCHANGED <<job, outbound, kept, received, sent>>
    BY <1>2 DEF Shut, dispatcherVars, histories
  <2>2. InHand' = InHand /\ Produced' = Produced /\ ~ctxClosed /\ ctxClosed'
    BY <2>1 DEF InHand, Produced, ctxClosed
  <2>3. Unanswered' = InHand
    BY <1>0, <2>1, <2>2, ShapesOfView, ConcatEmptySeq DEF Unanswered
  <2>4. \E k \in 0..1 : k <= Len(Unanswered) /\ InHand = SubSeq(Unanswered, 1, k)
    <3>1. CASE job = None
      <4>1. InHand = <<>>
        BY <3>1 DEF InHand
      <4>2. SubSeq(Unanswered, 1, 0) = <<>>
        BY SubSeqEmpty
      <4> QED
        BY <1>0, <4>1, <4>2, ShapesOfView, LenProperties
    <3>2. CASE job # None
      <4>1. InHand = <<job>> /\ job \in Requests /\ Len(InHand) = 1
        BY <1>0, <3>2 DEF InHand, ContextShape
      <4>2. Len(Unanswered) = 1 + Len(inbound) /\ Len(inbound) \in Nat
        BY <1>0, <4>1, ConcatProperties, LenProperties, ShapesOfView DEF Unanswered, ContextShape
      <4>3. SubSeq(Unanswered, 1, 1) = SubSeq(InHand, 1, 1)
        BY <1>0, <4>1, ShapesOfView, SubSeqOfConcat1 DEF Unanswered, ContextShape
      <4>4. SubSeq(InHand, 1, 1) = InHand
        BY <1>0, <4>1, ShapesOfView, SubSeqFull
      <4> QED
        BY <4>1, <4>2, <4>3, <4>4
    <3> QED
      BY <3>1, <3>2
  <2> QED
    BY <2>1, <2>2, <2>3, <2>4 DEF Promise!Close, Unanswered
<1>3. CASE WorkerSubmits
  <2>1. UNCHANGED <<inbound, kept, closer, received, sent>> /\ ctxClosed' = ctxClosed
    BY <1>3, SubmitLeaves DEF ctxClosed
  <2>2. ASSUME NEW body \in Bodies \ {"event"}, Reply(body), worker \in {"submit", "publish"}
        PROVE  Promise!Produce(body, TRUE)
    <3>1. /\ Unanswered # <<>> /\ Head(Unanswered) = job /\ Unanswered' = Tail(Unanswered)
          /\ Produced' = Append(Produced, [req |-> job, body |-> body, last |-> TRUE])
      BY <1>0, <2>1, <2>2, ReplyIsSeen DEF Working
    <3> QED
      BY <2>1, <3>1 DEF Promise!Produce, Unanswered
  <2>3. ASSUME Emit
        PROVE  Promise!Produce("event", FALSE)
    <3>1. /\ Unanswered # <<>> /\ Head(Unanswered) = job /\ Unanswered' = Unanswered
          /\ Produced' = Append(Produced, [req |-> job, body |-> "event", last |-> FALSE])
      BY <1>0, <2>1, <2>3, EventIsSeen
    <3> QED
      BY <2>1, <3>1 DEF Promise!Produce, Unanswered
  <2>4. ASSUME UNCHANGED <<outbound, job>>
        PROVE  UNCHANGED <<Unanswered, Produced, ctxClosed>>
    BY <2>1, <2>4 DEF Unanswered, InHand, Produced
  <2>5. "event" \in Bodies
    BY DEF Bodies
  <2> QED
    BY <1>0, <1>3, <2>1, <2>2, <2>3, <2>4, <2>5, SubmitKinds, SubmitLeaves
<1>4. CASE Take
  BY <1>0, <1>4, TakeIsHidden DEF Take, histories, ctxClosed
<1>5. CASE NotifyAll \/ WorkerNotifies
  BY <1>0, <1>5, NotifyIsHidden DEF NotifyAll, WorkerNotifies, histories, ctxClosed
<1>6. CASE Receiving
  <2>1. UNCHANGED sent
    BY <1>6 DEF Receiving, RecvLooks, RecvWaits, RecvTimesOut, RecvFetches, histories
  <2> QED
    BY <1>0, <1>6, <2>1, RecvIsHidden DEF ctxClosed
<1>7. CASE CancelRecv \/ EraseOwner \/ Join \/ (\E r \in Cancellable : CancelById(r))
           \/ UNCHANGED contextVars
  <2>1. UNCHANGED <<job, inbound, outbound, kept, received, sent>> /\ ctxClosed' = ctxClosed
    BY <1>7 DEF CancelRecv, EraseOwner, Join, CancelById, CancelRequest, contextVars,
                dispatcherVars, ctxVars, histories, ctxClosed
  <2> QED
    BY <2>1 DEF Unanswered, InHand, Produced
<1> QED
  BY <1>1, <1>2, <1>3, <1>4, <1>5, <1>6, <1>7 DEF ContextNext, Shut, histories

LEMMA ToSetFacts ==
  ASSUME NEW S, NEW s \in Seq(S)
  PROVE  /\ \A e \in S : ToSet(Append(s, e)) = ToSet(s) \cup {e}
         /\ s # <<>> => /\ Head(s) \in ToSet(s) /\ ToSet(s) = ToSet(Tail(s)) \cup {Head(s)}
         /\ \A k \in 0..1 : k <= Len(s) => ToSet(SubSeq(s, 1, k)) \subseteq ToSet(s)
<1>1. Len(s) \in Nat /\ DOMAIN s = 1..Len(s)
  BY LenProperties
<1>2. ASSUME NEW e \in S
      PROVE  ToSet(Append(s, e)) = ToSet(s) \cup {e}
  <2>1. /\ Len(Append(s, e)) = Len(s) + 1 /\ DOMAIN Append(s, e) = 1..Len(s) + 1
        /\ \A i \in 1.. Len(s) : Append(s, e)[i] = s[i]
        /\ Append(s, e)[Len(s) + 1] = e
    BY AppendProperties, LenProperties
  <2> QED
    BY <1>1, <2>1 DEF ToSet
<1>3. ASSUME s # <<>>
      PROVE  Head(s) \in ToSet(s) /\ ToSet(s) = ToSet(Tail(s)) \cup {Head(s)}
  <2>1. /\ Len(s) \in Nat \ {0} /\ Len(Tail(s)) = Len(s) - 1 /\ DOMAIN Tail(s) = 1..Len(s) - 1
        /\ \A i \in 1 .. Len(s) - 1 : Tail(s)[i] = s[i+1]
        /\ Head(s) = s[1]
    BY <1>3, EmptySeq, HeadTailProperties, LenProperties
  <2>2. \A i \in DOMAIN s : i = 1 \/ i - 1 \in DOMAIN Tail(s)
    BY <1>1, <2>1
  <2>3. \A i \in DOMAIN Tail(s) : i + 1 \in DOMAIN s
    BY <1>1, <2>1
  <2>4. ToSet(s) \subseteq ToSet(Tail(s)) \cup {Head(s)}
    <3>1. ASSUME NEW i \in DOMAIN s, i # 1
          PROVE  i - 1 \in DOMAIN Tail(s) /\ Tail(s)[i - 1] = s[i]
      BY <1>1, <2>1, <2>2, <3>1
    <3> QED
      BY <2>1, <3>1 DEF ToSet
  <2>5. ToSet(Tail(s)) \subseteq ToSet(s) /\ Head(s) \in ToSet(s)
    BY <1>1, <2>1, <2>3 DEF ToSet
  <2> QED
    BY <2>4, <2>5
<1>4. ASSUME NEW k \in 0..1, k <= Len(s)
      PROVE  ToSet(SubSeq(s, 1, k)) \subseteq ToSet(s)
  <2>1. \A i \in 1..k : s[i] \in S
    BY <1>1, <1>4, ElementOfSeq
  <2>2. /\ SubSeq(s, 1, k) \in Seq(S) /\ Len(SubSeq(s, 1, k)) = k
        /\ \A i \in 1..k : SubSeq(s, 1, k)[i] = s[i]
    BY <1>4, <2>1, SubSeqProperties
  <2>3. DOMAIN SubSeq(s, 1, k) = 1..k
    BY <2>2, LenProperties
  <2> QED
    BY <1>1, <1>4, <2>2, <2>3 DEF ToSet
<1> QED
  BY <1>2, <1>3, <1>4

LEMMA AcceptKeeps ==
  ASSUME ContextInv, NEW r \in Requests, V2Send(r), Promise!Accept(r)
  PROVE  (Asked \subseteq sent /\ AnsweredOnce)'
<1>1. /\ Unanswered' = Append(Unanswered, r) /\ Produced' = Produced
      /\ sent' = sent \cup {r} /\ r \notin sent
  BY DEF V2Send, Promise!Accept, Unanswered
<1>2. /\ ToSet(Unanswered') = ToSet(Unanswered) \cup {r} /\ Unanswered \in Seq(Requests)
      /\ ToSet(Unanswered) \subseteq sent /\ \A k \in DOMAIN Produced : Produced[k].req \in sent
  BY <1>1, ShapesOfView, ToSetFacts DEF ContextInv, Asked
<1>3. \A i, j \in DOMAIN Unanswered' : Unanswered'[i] = Unanswered'[j] => i = j
  <2>1. /\ Len(Unanswered) \in Nat /\ DOMAIN Unanswered = 1..Len(Unanswered)
        /\ DOMAIN Unanswered' = 1..Len(Unanswered) + 1
        /\ \A i \in 1..Len(Unanswered) : Unanswered'[i] = Unanswered[i]
        /\ Unanswered'[Len(Unanswered) + 1] = r
    BY <1>1, <1>2, AppendProperties, LenProperties
  <2>2. \A i \in 1..Len(Unanswered) : Unanswered[i] # r
    BY <1>1, <1>2, <2>1 DEF ToSet
  <2> QED
    BY <2>1, <2>2 DEF ContextInv, AnsweredOnce
<1> QED
  BY <1>1, <1>2, <1>3 DEF ContextInv, AnsweredOnce, Asked

LEMMA ProduceKeeps ==
  ASSUME ContextInv, ContextShape', NEW body \in Bodies, Promise!Produce(body, body # "event"),
         UNCHANGED sent
  PROVE  (Asked \subseteq sent /\ AnsweredOnce)'
<1> DEFINE last == body # "event"
           f == [req |-> Head(Unanswered), body |-> body, last |-> last]
<1>1. /\ Unanswered # <<>> /\ Produced' = Append(Produced, f)
      /\ Unanswered' = IF last THEN Tail(Unanswered) ELSE Unanswered
  BY DEF Promise!Produce, Unanswered
<1>2. /\ Unanswered \in Seq(Requests) /\ Head(Unanswered) \in ToSet(Unanswered)
      /\ ToSet(Unanswered) = ToSet(Tail(Unanswered)) \cup {Head(Unanswered)}
      /\ ToSet(Unanswered) \subseteq sent /\ \A k \in DOMAIN Produced : Produced[k].req \in sent
  BY <1>1, ShapesOfView, ToSetFacts DEF ContextInv, Asked
<1>3. /\ f \in ContextFrames /\ f.req = Head(Unanswered) /\ f.body = body /\ f.last = last
  BY <1>1, <1>2, HeadTailProperties DEF ContextFrames
<1>4. /\ Len(Unanswered) \in Nat \ {0} /\ DOMAIN Unanswered = 1..Len(Unanswered) /\ Head(Unanswered) = Unanswered[1]
      /\ Len(Tail(Unanswered)) = Len(Unanswered) - 1 /\ DOMAIN Tail(Unanswered) = 1..Len(Unanswered) - 1
      /\ \A i \in 1..Len(Unanswered) - 1 : Tail(Unanswered)[i] = Unanswered[i + 1]
  BY <1>1, <1>2, EmptySeq, HeadTailProperties, LenProperties
<1>5. Head(Unanswered) \notin ToSet(Tail(Unanswered))
  <2>1. \A i \in 1..Len(Unanswered) - 1 : Unanswered[i + 1] # Unanswered[1]
    BY <1>4 DEF ContextInv, AnsweredOnce
  <2> QED
    BY <1>4, <2>1 DEF ToSet
<1>6. ToSet(Unanswered') \subseteq ToSet(Unanswered) /\ (last => f.req \notin ToSet(Unanswered'))
  BY <1>1, <1>2, <1>3, <1>5
<1> HIDE DEF f, last
<1>7. /\ \A k \in DOMAIN Produced' : \/ k \in DOMAIN Produced /\ Produced'[k] = Produced[k]
                                     \/ Produced'[k] = f
  <2>1. /\ Len(Produced) \in Nat /\ DOMAIN Produced = 1..Len(Produced)
        /\ DOMAIN Produced' = 1..Len(Produced) + 1
        /\ \A k \in 1..Len(Produced) : Produced'[k] = Produced[k]
        /\ Produced'[Len(Produced) + 1] = f
    BY <1>1, <1>3, ShapesOfView, AppendProperties, LenProperties DEF ContextInv
  <2> QED
    BY <2>1
<1>8. \A i, j \in DOMAIN Unanswered' : Unanswered'[i] = Unanswered'[j] => i = j
  <2>1. CASE last
    <3>1. \A i, j \in 1..Len(Unanswered) - 1 : Unanswered[i + 1] = Unanswered[j + 1] => i + 1 = j + 1
      BY <1>4 DEF ContextInv, AnsweredOnce
    <3> QED
      BY <1>1, <1>4, <2>1, <3>1
  <2>2. CASE ~last
    BY <1>1, <2>2 DEF ContextInv, AnsweredOnce
  <2> QED
    BY <2>1, <2>2
<1>9. AnsweredOnce'
  <2>1. ASSUME NEW k \in DOMAIN Produced'
        PROVE  /\ Produced'[k].last = (Produced'[k].body # "event")
               /\ Produced'[k].last => Produced'[k].req \notin ToSet(Unanswered')
    BY <1>3, <1>6, <1>7, <2>1 DEF ContextInv, AnsweredOnce, last
  <2> QED
    BY <1>8, <2>1 DEF AnsweredOnce
<1>10. \A k \in DOMAIN Produced' : Produced'[k].req \in sent
  BY <1>2, <1>3, <1>7
<1> QED
  BY <1>2, <1>6, <1>9, <1>10 DEF Asked

LEMMA CloseKeeps ==
  ASSUME ContextInv, Promise!Close, UNCHANGED sent
  PROVE  (Asked \subseteq sent /\ AnsweredOnce)'
<1>1. PICK k \in 0..1 : k <= Len(Unanswered) /\ Unanswered' = SubSeq(Unanswered, 1, k)
  BY DEF Promise!Close, Unanswered
<1>2. Produced' = Produced
  BY DEF Promise!Close
<1>3. Unanswered \in Seq(Requests) /\ ToSet(Unanswered') \subseteq ToSet(Unanswered)
  BY <1>1, ShapesOfView, ToSetFacts DEF ContextInv
<1>4. \A i, j \in DOMAIN Unanswered' : i = j
  <2>1. Len(Unanswered) \in Nat /\ \A i \in 1..k : Unanswered[i] \in Requests
    BY <1>1, <1>3, LenProperties, ElementOfSeq
  <2>2. Unanswered' \in Seq(Requests) /\ Len(Unanswered') = k
    BY <1>1, <2>1, SubSeqProperties
  <2>3. DOMAIN Unanswered' = 1..k
    BY <2>2, LenProperties
  <2> QED
    BY <2>3
<1> QED
  BY <1>2, <1>3, <1>4 DEF ContextInv, AnsweredOnce, Asked

LEMMA ContextStep ==
  ASSUME ContextInv, [ContextNext]_contextVars
  PROVE  ContextInv' /\ [Promise!Next]_Promise!vars
<1>1. ContextShape'
  BY ShapeStep DEF ContextInv
<1>2. CASE \E r \in Requests : V2Send(r) /\ Promise!Accept(r)
  BY <1>1, <1>2, AcceptKeeps DEF ContextInv, Promise!Next
<1>3. CASE UNCHANGED sent /\ \E body \in Bodies : Promise!Produce(body, body # "event")
  <2>1. PICK body \in Bodies : Promise!Produce(body, body # "event")
    BY <1>3
  <2>2. (Asked \subseteq sent /\ AnsweredOnce)'
    BY <1>1, <1>3, <2>1, ProduceKeeps
  <2>3. Promise!Next
    BY <2>1 DEF Promise!Next
  <2> QED
    BY <1>1, <2>2, <2>3 DEF ContextInv
<1>4. CASE UNCHANGED sent /\ Promise!Close
  BY <1>1, <1>4, CloseKeeps DEF ContextInv, Promise!Next
<1>5. CASE UNCHANGED sent /\ UNCHANGED <<Unanswered, Produced, ctxClosed>>
  BY <1>1, <1>5 DEF ContextInv, AnsweredOnce, Asked, Promise!vars, Unanswered
<1> QED
  BY <1>2, <1>3, <1>4, <1>5, StepIsPromised

LEMMA ContextStart == ContextInit => ContextInv /\ Promise!Init
<1> SUFFICES ASSUME ContextInit
             PROVE  ContextInv /\ Promise!Init
  OBVIOUS
<1>1. InHand = <<>> /\ inbound = <<>> /\ received = <<>> /\ kept = <<>> /\ outbound = <<>>
  BY DEF ContextInit, InHand
<1>2. Unanswered = <<>> /\ Produced = <<>>
  BY <1>1 DEF Unanswered, Produced
<1>3. ContextShape
  BY DEF ContextInit, ContextShape, Working
<1>4. Asked = {} /\ AnsweredOnce
  BY <1>2 DEF Asked, AnsweredOnce, ToSet
<1>5. Promise!Init
  BY <1>2 DEF Promise!Init, Unanswered, ContextInit, ctxClosed
<1> QED
  BY <1>3, <1>4, <1>5 DEF ContextInv

\* frame_v2_ctx: what the clients of a context see is the server that its header
\* promises, however sends, cancels, recvs and close fall between the worker's steps.
THEOREM ContextKeepsItsPromise == ContextSpec => RefinesServer
<1>1. ContextInit => ContextInv /\ Promise!Init
  BY ContextStart
<1>2. ContextInv /\ [ContextNext]_contextVars => ContextInv' /\ [Promise!Next]_Promise!vars
  BY ContextStep
<1> QED
  BY <1>1, <1>2, PTL DEF ContextSpec, RefinesServer, Promise!Spec

-------------------------------------------------------------------------------
(* Cancellation.                                                            *)

Interruptible == worker = "submit" \/ (worker = "run" /\ Kind[job] = "stream")

\* What was cancelled in time keeps its tombstone for as long as that can stop it; it
\* is not what a handler runs that does not ask, nor what has run to its response.
DoomedInv ==
  /\ doomed \subseteq sent
  /\ \A r \in doomed : r \in Reachable => r \in cancelled
  /\ worker = "run" /\ ~Interruptible => job \notin doomed
  /\ worker \in {"settle", "publish"} /\ answer = "response" => job \notin doomed
  /\ CancelledIsNotAnswered

\* Where a request can be that is not answered.
ContextPlaces ==
  /\ worker \in Working => job \notin ToSet(inbound)
  /\ Reachable = ToSet(inbound) \cup (IF Interruptible THEN {job} ELSE {})
  /\ Reachable \subseteq ToSet(Unanswered)
  /\ worker \notin Working => ToSet(Unanswered) = ToSet(inbound)

LEMMA ContextPlacesOf == ContextInv => ContextPlaces
<1> SUFFICES ASSUME ContextInv
             PROVE  ContextPlaces
  OBVIOUS
<1>0. ContextShape
  BY DEF ContextInv
<1>1. Interruptible => worker \in Working
  BY DEF Interruptible, Working
<1>2. CASE worker \notin Working
  <2>1. InHand = <<>>
    BY <1>0, <1>2 DEF ContextShape, InHand
  <2>2. Unanswered = inbound
    BY <1>0, <2>1, ConcatEmptySeq DEF ContextShape, Unanswered
  <2>3. ToSet(InHand) = {}
    BY <2>1 DEF ToSet
  <2> QED
    BY <1>1, <1>2, <2>2, <2>3 DEF ContextPlaces, Reachable
<1>3. CASE worker \in Working
  <2>1. job \in Requests /\ job # None
    BY <1>0, <1>3, DispatcherAssumption DEF ContextShape
  <2>2. InHand = <<job>> /\ ToSet(InHand) = {job}
    BY <2>1 DEF InHand, ToSet
  <2>3. Unanswered # <<>> /\ Head(Unanswered) = job /\ Tail(Unanswered) = inbound /\ Unanswered \in Seq(Requests)
    BY <1>0, <2>1, <2>2, ShapesOfView, HeadTailOfCons DEF Unanswered, ContextShape
  <2>4. ToSet(Unanswered) = ToSet(inbound) \cup {job}
    BY <2>3, ToSetFacts
  <2>5. job \notin ToSet(inbound)
    <3>1. /\ Len(Unanswered) \in Nat \ {0} /\ DOMAIN Unanswered = 1..Len(Unanswered) /\ job = Unanswered[1]
          /\ Len(inbound) = Len(Unanswered) - 1 /\ DOMAIN inbound = 1..Len(Unanswered) - 1
          /\ \A k \in 1..Len(Unanswered) - 1 : inbound[k] = Unanswered[k + 1]
      <4> DEFINE all == Unanswered
      <4>1. all # <<>> /\ all \in Seq(Requests) /\ Head(all) = job /\ Tail(all) = inbound
        BY <2>3
      <4> HIDE DEF all
      <4>2. Len(all) \in Nat \ {0} /\ DOMAIN all = 1..Len(all)
        BY ONLY <4>1, EmptySeq, LenProperties
      <4>3. job = all[1]
        BY ONLY <4>1, <4>2
      <4>4. /\ Tail(all) \in Seq(Requests) /\ Len(Tail(all)) = Len(all) - 1
            /\ \A k \in 1..Len(Tail(all)) : Tail(all)[k] = all[k + 1]
        BY ONLY <4>1, HeadTailProperties
      <4>5. DOMAIN Tail(all) = 1..Len(Tail(all))
        BY ONLY <4>4, LenProperties
      <4> QED
        BY <4>1, <4>2, <4>3, <4>4, <4>5 DEF all
    <3>2. \A k \in 1..Len(Unanswered) - 1 : Unanswered[k + 1] # Unanswered[1]
      BY <3>1 DEF ContextInv, AnsweredOnce
    <3>3. \A k \in DOMAIN inbound : inbound[k] # job
      <4> SUFFICES ASSUME NEW k \in DOMAIN inbound PROVE inbound[k] # job
        OBVIOUS
      <4>1. k \in 1 .. Len(Unanswered) - 1
        BY <3>1
      <4> QED
        BY <3>1, <3>2, <4>1
    <3> QED
      BY <3>3 DEF ToSet
  <2>6. Reachable = ToSet(inbound) \cup (IF Interruptible THEN {job} ELSE {})
    BY <2>2 DEF Reachable, Interruptible
  <2> QED
    BY <1>3, <2>4, <2>5, <2>6 DEF ContextPlaces
<1> QED
  BY <1>2, <1>3

LEMMA ContextPlacesOfNext == (ContextInv => ContextPlaces)'
BY ContextPlacesOf, PTL

\* Who is doomed with this step can still be stopped, and so has not been answered:
\* it is enough to look at those who were doomed before.
LEMMA RememberIsSafe ==
  ASSUME ContextInv', doomed' \subseteq doomed \cup (cancelled' \cap Reachable'),
         doomed \subseteq sent',
         \A r \in doomed : r \in Reachable' => r \in cancelled',
         (worker = "run" /\ ~Interruptible)' => job' \notin doomed,
         (worker \in {"settle", "publish"} /\ answer = "response")' => job' \notin doomed,
         \A k \in DOMAIN Produced' : Produced'[k].body = "response" => Produced'[k].req \notin doomed
  PROVE  DoomedInv'
<1>1. ContextPlaces'
  BY ContextPlacesOfNext
<1>2. Reachable' \subseteq ToSet(Unanswered') /\ ToSet(Unanswered') \subseteq sent'
  BY <1>1 DEF ContextPlaces, ContextInv, Asked
<1>3. (worker = "run" /\ ~Interruptible)' \/ worker' \in {"settle", "publish"} => job' \notin Reachable'
  BY <1>1 DEF ContextPlaces, Working, Interruptible
<1>4. \A k \in DOMAIN Produced' : Produced'[k].body = "response" => Produced'[k].req \notin Reachable'
  BY <1>2 DEF ContextInv, AnsweredOnce
<1>5. CancelledIsNotAnswered'
  BY <1>4 DEF CancelledIsNotAnswered
<1> QED
  BY <1>2, <1>3, <1>5 DEF DoomedInv

\* Nothing happens to what is being worked on.
LEMMA OthersAreSafe ==
  ASSUME ContextInv', DoomedInv, doomed' \subseteq doomed \cup (cancelled' \cap Reachable'),
         sent \subseteq sent', \A r \in doomed : r \in Reachable' => r \in Reachable,
         cancelled \subseteq cancelled', Produced' = Produced,
         UNCHANGED <<worker, job, answer>>
         \/ {worker, worker'} \cap {"run", "settle", "publish"} = {}
  PROVE  DoomedInv'
<1>1. (worker = "run" /\ ~Interruptible)' => job' \notin doomed
  BY DEF DoomedInv, Interruptible
<1>2. (worker \in {"settle", "publish"} /\ answer = "response")' => job' \notin doomed
  BY DEF DoomedInv
<1>3. \A k \in DOMAIN Produced' : Produced'[k].body = "response" => Produced'[k].req \notin doomed
  BY DEF DoomedInv, CancelledIsNotAnswered
<1> QED
  BY <1>1, <1>2, <1>3, RememberIsSafe DEF DoomedInv

\* The worker's steps: an answer ends the reach of a tombstone before that goes.
LEMMA SubmitIsSafe ==
  ASSUME ContextInv, ContextInv', DoomedInv, WorkerSubmits
  PROVE  DoomedInv'
<1>1. /\ UNCHANGED <<inbound, kept, received, sent>> /\ Submit
      /\ doomed' \subseteq doomed \cup (cancelled' \cap Reachable')
  BY SubmitLeaves DEF WorkerSubmits, Remember
<1>2. ContextPlaces /\ ContextPlaces' /\ ContextShape
  BY ContextPlacesOf, ContextPlacesOfNext DEF ContextInv
<1>3. ToSet(inbound) \subseteq Reachable
  BY <1>2 DEF ContextPlaces
<1>4. ASSUME NEW body \in Bodies \ {"event"}, Reply(body), worker \in {"submit", "publish"},
             body = "response" => worker = "publish" /\ answer = body,
             cancelled \ {job} \subseteq cancelled'
      PROVE  DoomedInv'
  <2>1. worker' = "notify" /\ job \notin ToSet(inbound) /\ Reachable' = ToSet(inbound)
    BY <1>1, <1>2, <1>4 DEF Reply, ContextPlaces, Working, Interruptible
  <2>2. \A r \in doomed : r \in Reachable' => r \in cancelled'
    BY <1>3, <1>4, <2>1 DEF DoomedInv
  <2>3. body = "response" => job \notin doomed
    BY <1>4 DEF DoomedInv
  <2>4. Produced' = Append(Produced, [req |-> job, body |-> body, last |-> TRUE])
    BY <1>1, <1>2, <1>4, ReplyIsSeen DEF Working
  <2>5. [req |-> job, body |-> body, last |-> TRUE] \in ContextFrames
    BY <1>2, <1>4 DEF ContextFrames, ContextShape, Working
  <2>6. \A k \in DOMAIN Produced' : Produced'[k].body = "response" => Produced'[k].req \notin doomed
    <3>1. /\ Len(Produced) \in Nat /\ DOMAIN Produced = 1..Len(Produced)
          /\ DOMAIN Produced' = 1..Len(Produced) + 1
          /\ \A k \in 1..Len(Produced) : Produced'[k] = Produced[k]
          /\ Produced'[Len(Produced) + 1] = [req |-> job, body |-> body, last |-> TRUE]
      BY <1>2, <2>4, <2>5, ShapesOfView, AppendProperties, LenProperties
    <3> QED
      BY <2>3, <3>1 DEF DoomedInv, CancelledIsNotAnswered
  <2> QED
    BY <1>1, <2>1, <2>2, <2>6, RememberIsSafe DEF DoomedInv
<1>5. CASE Emit
  <2>1. UNCHANGED <<worker, job, cancelled, answer>> /\ worker = "run" /\ Interruptible
    BY <1>5 DEF Emit, Interruptible
  <2>2. Reachable' = Reachable
    BY <1>1, <2>1 DEF Reachable, InHand
  <2>3. Produced' = Append(Produced, [req |-> job, body |-> "event", last |-> FALSE])
    BY <1>1, <1>2, <1>5, EventIsSeen
  <2>4. [req |-> job, body |-> "event", last |-> FALSE] \in ContextFrames
    BY <1>2, <2>1 DEF ContextFrames, ContextShape, Working, Bodies
  <2>5. \A k \in DOMAIN Produced' : Produced'[k].body = "response" => Produced'[k].req \notin doomed
    <3>1. /\ Len(Produced) \in Nat /\ DOMAIN Produced = 1..Len(Produced)
          /\ DOMAIN Produced' = 1..Len(Produced) + 1
          /\ \A k \in 1..Len(Produced) : Produced'[k] = Produced[k]
          /\ Produced'[Len(Produced) + 1].body = "event"
      BY <1>2, <2>3, <2>4, ShapesOfView, AppendProperties, LenProperties
    <3> QED
      BY <3>1 DEF DoomedInv, CancelledIsNotAnswered
  <2>6. ~(worker = "run" /\ ~Interruptible)'
    BY <2>1 DEF Interruptible
  <2> QED
    BY <1>1, <2>1, <2>2, <2>5, <2>6, RememberIsSafe DEF DoomedInv
<1>6. ASSUME UNCHANGED <<outbound, job>>, worker \in Working,
             \A r \in doomed : r \in Reachable' => r \in cancelled',
             (worker = "run" /\ ~Interruptible)' => job' \notin doomed,
             (worker \in {"settle", "publish"} /\ answer = "response")' => job' \notin doomed
      PROVE  DoomedInv'
  <2>1. Produced' = Produced
    BY <1>1, <1>6 DEF Produced
  <2>2. \A k \in DOMAIN Produced' : Produced'[k].body = "response" => Produced'[k].req \notin doomed
    BY <2>1 DEF DoomedInv, CancelledIsNotAnswered
  <2> QED
    BY <1>1, <1>6, <2>2, RememberIsSafe DEF DoomedInv
<1>7. CASE worker = "submit" /\ Dispatch
  <2>1. worker' = "run" /\ UNCHANGED <<outbound, job, cancelled>> /\ job \notin cancelled
    BY <1>7 DEF Dispatch
  <2>2. job \notin doomed
    BY <1>2, <1>7, <2>1 DEF DoomedInv, ContextPlaces, Interruptible
  <2>3. Reachable' \subseteq Reachable
    BY <1>1, <1>2, <1>7, <2>1 DEF ContextPlaces, Interruptible
  <2>4. \A r \in doomed : r \in Reachable' => r \in cancelled'
    BY <2>1, <2>3 DEF DoomedInv
  <2> QED
    BY <1>6, <1>7, <2>1, <2>2, <2>4 DEF Working
<1>8. CASE HandlerReturns
  <2>1. /\ worker = "run" /\ worker' = "settle" /\ UNCHANGED <<outbound, job>>
        /\ cancelled \subseteq cancelled' /\ answer' = Outcome
    BY <1>8 DEF HandlerReturns
  <2>2. Reachable' = ToSet(inbound)
    BY <1>1, <1>2, <2>1 DEF ContextPlaces, Interruptible
  <2>3. answer' = "response" => job \notin doomed
    <3>1. CASE Interruptible
      <4>1. Kind[job] = "stream" /\ job \in Reachable
        BY <1>2, <2>1, <3>1 DEF ContextPlaces, Interruptible
      <4> QED
        BY <2>1, <4>1 DEF Outcome, DoomedInv
    <3>2. CASE ~Interruptible
      BY <2>1, <3>2 DEF DoomedInv
    <3> QED
      BY <3>1, <3>2
  <2>4. \A r \in doomed : r \in Reachable' => r \in cancelled'
    BY <1>3, <2>1, <2>2 DEF DoomedInv
  <2> QED
    BY <1>6, <2>1, <2>3, <2>4 DEF Working
<1>9. CASE Settle
  <2>1. /\ worker = "settle" /\ worker' = "publish" /\ UNCHANGED <<outbound, job, answer>>
        /\ cancelled' = cancelled \ {job}
    BY <1>9 DEF Settle
  <2>2. Reachable' = ToSet(inbound) /\ job \notin ToSet(inbound)
    BY <1>1, <1>2, <2>1 DEF ContextPlaces, Interruptible, Working
  <2>3. \A r \in doomed : r \in Reachable' => r \in cancelled'
    BY <1>3, <2>1, <2>2 DEF DoomedInv
  <2>4. answer' = "response" => job' \notin doomed
    BY <2>1 DEF DoomedInv
  <2> QED
    BY <1>6, <2>1, <2>3, <2>4 DEF Working
<1>10. CASE (worker = "submit" /\ (Greet \/ RefuseFrame \/ Consume)) \/ Publish
  <2>1. /\ worker \in {"submit", "publish"} /\ cancelled \ {job} \subseteq cancelled'
        /\ \E body \in Bodies \ {"event"} :
             Reply(body) /\ (body = "response" => worker = "publish" /\ answer = body)
    BY <1>2, <1>10 DEF Greet, RefuseFrame, Consume, Publish, Bodies, ContextShape
  <2> QED
    BY <1>4, <2>1
<1> QED
  BY <1>1, <1>5, <1>7, <1>8, <1>9, <1>10 DEF Submit

LEMMA DoomedStep ==
  ASSUME ContextInv, ContextInv', DoomedInv, [ContextNext]_contextVars
  PROVE  DoomedInv'
<1>1. ContextPlaces /\ ContextPlaces' /\ ContextShape
  BY ContextPlacesOf, ContextPlacesOfNext DEF ContextInv
<1>2. ASSUME NEW r \in Requests, V2Send(r)
      PROVE  DoomedInv'
  <2>1. /\ inbound' = Append(inbound, r) /\ sent' = sent \cup {r} /\ r \notin sent
        /\ UNCHANGED <<dispatcherVars, kept, received>>
        /\ doomed' \subseteq doomed \cup (cancelled' \cap Reachable')
    BY <1>2 DEF V2Send, Remember
  <2>2. ToSet(inbound') = ToSet(inbound) \cup {r}
    BY <1>1, <2>1, ToSetFacts DEF ContextShape
  <2>3. Reachable' \subseteq Reachable \cup {r}
    BY <1>1, <2>1, <2>2 DEF ContextPlaces, Interruptible, dispatcherVars
  <2>4. r \notin doomed
    BY <2>1 DEF DoomedInv
  <2>5. Produced' = Produced
    BY <2>1 DEF Produced, dispatcherVars
  <2> QED
    BY <2>1, <2>3, <2>4, <2>5, OthersAreSafe DEF dispatcherVars
<1>3. ASSUME NEW r \in Cancellable, CancelById(r)
      PROVE  DoomedInv'
  <2>1. /\ UNCHANGED <<inbound, outbound, kept, received, sent, worker, job, answer>>
        /\ cancelled' = cancelled \cup {r}
        /\ doomed' \subseteq doomed \cup (cancelled' \cap Reachable')
    BY <1>3 DEF CancelById, CancelRequest, ctxVars, histories, Remember
  <2>2. Reachable' = Reachable /\ Produced' = Produced
    BY <2>1 DEF Reachable, InHand, Produced
  <2> QED
    BY <2>1, <2>2, OthersAreSafe
<1>4. CASE CancelRecv \/ EraseOwner \/ Join \/ UNCHANGED contextVars
  <2>1. UNCHANGED <<inbound, outbound, kept, received, sent, worker, job, answer, cancelled, doomed>>
    BY <1>4 DEF CancelRecv, EraseOwner, Join, contextVars, dispatcherVars, ctxVars, histories
  <2>2. Reachable' = Reachable /\ Produced' = Produced
    BY <2>1 DEF Reachable, InHand, Produced
  <2> QED
    BY <2>1, <2>2, OthersAreSafe
<1>5. CASE Shut
  <2>1. /\ UNCHANGED <<outbound, kept, received, sent, worker, job, answer, cancelled, doomed>>
        /\ inbound' = <<>>
    BY <1>5 DEF Shut, dispatcherVars, histories
  <2>2. ToSet(inbound') = {} /\ Produced' = Produced
    BY <2>1 DEF ToSet, Produced
  <2>3. Reachable' \subseteq Reachable
    BY <1>1, <2>1, <2>2 DEF ContextPlaces, Interruptible
  <2> QED
    BY <2>1, <2>2, <2>3, OthersAreSafe
<1>6. CASE NotifyAll \/ WorkerNotifies
  <2>1. /\ UNCHANGED <<inbound, job, answer, sent, cancelled, doomed>> /\ Produced' = Produced
        /\ worker' = worker \/ (worker \in {"parked", "notify"} /\ worker' = "ready")
    BY <1>6 DEF NotifyAll, WorkerNotifies, histories, Produced
  <2>2. Reachable' \subseteq Reachable
    BY <1>1, <2>1 DEF ContextPlaces, Interruptible
  <2> QED
    BY <2>1, <2>2, OthersAreSafe
<1>7. CASE Take
  <2>1. /\ UNCHANGED <<sent, cancelled, doomed>>
        /\ worker = "ready" /\ worker' \in {"ended", "parked", "submit"}
    BY <1>7 DEF Take, histories
  <2>2. Unanswered' = Unanswered /\ Produced' = Produced
    BY <1>1, <1>7, TakeIsHidden
  <2>3. Reachable' \subseteq Reachable
    BY <1>1, <2>1, <2>2 DEF ContextPlaces, Working
  <2> QED
    BY <2>1, <2>2, <2>3, OthersAreSafe
<1>8. CASE WorkerSubmits
  BY <1>8, SubmitIsSafe
<1>9. CASE Receiving
  <2>1. UNCHANGED <<inbound, sent, cancelled, doomed, worker, job, answer>>
    BY <1>9 DEF Receiving, RecvLooks, RecvWaits, RecvTimesOut, RecvFetches, dispatcherVars, histories
  <2>2. Reachable' = Reachable /\ Produced' = Produced
    BY <1>1, <1>9, <2>1, RecvIsHidden DEF Reachable, InHand
  <2> QED
    BY <2>1, <2>2, OthersAreSafe
<1> QED
  BY <1>2, <1>3, <1>4, <1>5, <1>6, <1>7, <1>8, <1>9 DEF ContextNext

\* Dispatcher::Submit, CancelRequest: a request cancelled while it waits, or a stream
\* cancelled while it runs, never gets the response of one that was not.
THEOREM CancelledGetsNoResponse == ContextSpec => []CancelledIsNotAnswered
<1>1. ContextInit => ContextInv /\ DoomedInv
  <2>1. ContextInit => DoomedInv
    <3> SUFFICES ASSUME ContextInit
                 PROVE  DoomedInv
      OBVIOUS
    <3>1. Produced = <<>>
      BY DEF ContextInit, Produced
    <3> QED
      BY <3>1 DEF ContextInit, DoomedInv, CancelledIsNotAnswered
  <2> QED
    BY <2>1, ContextStart
<1>2. ContextInv /\ DoomedInv /\ [ContextNext]_contextVars => (ContextInv /\ DoomedInv)'
  BY ContextStep, DoomedStep
<1>3. DoomedInv => CancelledIsNotAnswered
  BY DEF DoomedInv
<1> QED
  BY <1>1, <1>2, <1>3, PTL DEF ContextSpec
=============================================================================
