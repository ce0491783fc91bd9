----------------------------- MODULE PatchQueue -----------------------------
(***************************************************************************)
(* The debounce queue of UArchSimModelRegistry with whole patches: toggles  *)
(* both ways and loads, as Blueprint callers send them.  (ModelRegistry has *)
(* the rows, the components and the timer's clock, with the removals the    *)
(* game itself queues.)                                                     *)
(*                                                                         *)
(* Requests within a window are merged into one patch; a window ends when   *)
(* the timer fires or when too many toggles are queued.  The queue is       *)
(* dropped unsent when a member or a support is registered, when no session *)
(* can be started, and when the session that was started is gone: a load    *)
(* patch rebuilds it in place, and may fail to.  A session is built from    *)
(* CurrentModel, which has the removals made through DeactivateMember but   *)
(* neither the loads nor the revivals callers sent, so the end of a session *)
(* forgets those that had arrived as well.                                  *)
(*                                                                         *)
(* The engine is taken as its patch promises: that a load patch brings      *)
(* removed members back is InteractiveSession's.  Loads injected into       *)
(* CurrentModel by a replay are Persistence's; here it has none.            *)
(***************************************************************************)
EXTENDS FramePatch

CONSTANTS
  Switchable,               \* members and shells that callers switch
  MaxRankBeforeRebaseline,
  Requests,                 \* the patches callers send
  MaxQueuedLoad             \* bound on a node's load

ASSUME PatchQueueAssumption ==
  /\ MaxRankBeforeRebaseline \in Nat /\ MaxQueuedLoad \in Nat
  /\ Requests \subseteq Patches(Switchable)

VARIABLES
  activeMembers, \* the members of CurrentModel that are on
  pendingPatch,  \* PendingPatch
  pendingRank,   \* PendingRankAccumulation
  debounceTimer, \* whether DebounceTimer is set
  sessionState,  \* "none" or, with bSessionStarted, "open" or "dead" (the engine's is gone)
  engine,        \* the flags and loads of the engine's session
  direct,        \* history: the same if every request since the last drop went through at once
  orderly        \* history: no request since undid an earlier one of its window

queueVars == <<activeMembers, pendingPatch, pendingRank, debounceTimer, sessionState, engine,
               direct, orderly>>

Patched(m, p) == [active |-> PatchedFlags(p, m.active), loads |-> PatchedLoads(p, m.loads)]

SessionOn(m) == [active |-> m, loads |-> NoLoads]
NoSession == SessionOn({})

\* What a patch is applied to: without a session, one is started on the model m.
Base(m) == IF sessionState = "none" THEN SessionOn(m) ELSE engine

QueueInit ==
  /\ activeMembers \in SUBSET Switchable
  /\ sessionState = "none" /\ engine = NoSession
  /\ direct = SessionOn(activeMembers) /\ orderly = TRUE
  /\ pendingPatch = EmptyPatch /\ pendingRank = 0 /\ debounceTimer = FALSE

\* q asks for the opposite of something p asks for, in a way the fixed order
\* of application (off, on, reset, set, add) does not keep.
Undoes(q, p) ==
  \/ ToSet(q.off) \cap ToSet(p.on) # {}
  \/ q.reset /\ TouchesLoads(p)
  \/ \E n \in LoadNodes : q.set[n] > 0 /\ p.add[n] > 0

\* The history starts over from what is left.
Dropped(left) == direct' = left /\ orderly' = TRUE

Emptied == pendingPatch' = EmptyPatch /\ pendingRank' = 0

\* ApplyPatchAndResolve on a live session, started now if there was none; a
\* singular result is not distributed, but the patch is in.
Taken(p, m) ==
  /\ sessionState # "dead"
  /\ engine' = Patched(Base(m), p) /\ sessionState' = "open"

\* No subsystem, no session to be started, or the one there was is dead.
NotTaken(m) == Dropped(Base(m)) /\ UNCHANGED <<sessionState, engine>>

\* A patch of loads rebuilds the session in place, which may leave none.
LostInRebuild(p, m) ==
  /\ sessionState # "dead" /\ TouchesLoads(p)
  /\ sessionState' = "dead" /\ engine' = NoSession /\ Dropped(NoSession)

\* ExecuteSolve on the queue p and the model m: the queue is empty after every
\* exit.  made and kept are the histories with the request that led here.
ExecuteSolve(p, m, made, kept) ==
  /\ Emptied /\ debounceTimer' = FALSE
  /\ \/ Taken(p, m) /\ direct' = made /\ orderly' = kept
     \/ NotTaken(m)
     \/ LostInRebuild(p, m)

\* A request is merged; above the cap it is executed at once.
RequestSolve(q, m) ==
  LET merged == MergePatch(pendingPatch, q)
      rank   == pendingRank + PatchRank(q)
      made   == Patched(direct, q)
      kept   == orderly /\ ~Undoes(q, pendingPatch)
  IN IF rank > MaxRankBeforeRebaseline
     THEN ExecuteSolve(merged, m, made, kept)
     ELSE /\ pendingPatch' = merged /\ pendingRank' = rank /\ debounceTimer' = TRUE
          /\ direct' = made /\ orderly' = kept
          /\ UNCHANGED <<sessionState, engine>>

Request(q) ==
  /\ \A n \in LoadNodes :
       PatchedLoads(q, direct.loads)[n] + pendingPatch.set[n] + pendingPatch.add[n] <= MaxQueuedLoad
  /\ RequestSolve(q, activeMembers)
  /\ UNCHANGED activeMembers

\* DeactivateMember: off in the model, and a request to switch it off.
Removal(e) == [off |-> <<e>>, on |-> <<>>, reset |-> FALSE, set |-> NoLoads, add |-> NoLoads]
DeactivateMember(e) ==
  /\ activeMembers' = activeMembers \ {e}
  /\ RequestSolve(Removal(e), activeMembers')

TimerFires ==
  /\ debounceTimer
  /\ ExecuteSolve(pendingPatch, activeMembers, direct, orderly)
  /\ UNCHANGED activeMembers

\* A change of topology ends the session on the model before it.
TopologyChanged(m) ==
  /\ sessionState' = "none" /\ engine' = NoSession
  /\ Emptied /\ Dropped(SessionOn(m))

\* RegisterMember, of a member nobody switches yet: the queue is dropped with or
\* without a session; the timer stays set.
RegisterMember == TopologyChanged(activeMembers) /\ UNCHANGED <<activeMembers, debounceTimer>>

\* RegisterFixedSupport: the queue is dropped with the session only.
RegisterFixedSupport ==
  /\ sessionState # "none"
  /\ TopologyChanged(activeMembers) /\ UNCHANGED <<activeMembers, debounceTimer>>

\* Reset, and the rows a replay registers after it.
Reset ==
  /\ activeMembers' \in SUBSET Switchable
  /\ TopologyChanged(activeMembers') /\ debounceTimer' = FALSE

QueueNext ==
  \/ \E q \in Requests : Request(q)
  \/ \E e \in Switchable : DeactivateMember(e)
  \/ TimerFires \/ RegisterMember \/ RegisterFixedSupport \/ Reset
QueueSpec == QueueInit /\ [][QueueNext]_queueVars

-------------------------------------------------------------------------------
\* Between two drops nothing is lost: as long as no request of a window undoes an
\* earlier one, what the engine has (or would be started with) and what is queued
\* for it amount to every request since the last drop, in the order it was made, on
\* top of what that drop left: the session's flags and loads if it only lost the
\* queue, the model's if it ended the session.
NothingLost ==
  orderly /\ sessionState # "dead" => Patched(Base(activeMembers), pendingPatch) = direct
==============================================================================
