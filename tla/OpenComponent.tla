--------------------------- MODULE OpenComponent ---------------------------
(***************************************************************************)
(* OpenFrameCoreComponent: a component on the Grasshopper canvas that opens *)
(* a FrameSession in the background and hands it on.  Its own methods run   *)
(* on the UI thread, one at a time; the tasks it starts run on the pool and *)
(* commit under _openGate.  SolveInstance reads the fields they write       *)
(* without the gate, so that a task may commit between any two of its looks *)
(* (a step each); and a task has begun, and may even have committed, when   *)
(* the UI thread assigns _opening.                                          *)
(***************************************************************************)
EXTENDS Naturals, FiniteSets

CONSTANTS
  Keys,       \* the DLL paths a user may enter
  Missing,    \* those for which opening throws before its first await
  Profiles,
  MaxOpenGeneration,
  NoPath

ASSUME OpenComponentAssumption ==
  /\ Keys # {} /\ Missing \subseteq Keys /\ Profiles # {}
  /\ MaxOpenGeneration \in Nat /\ NoPath \notin Keys

VARIABLES
  dll, profile, \* the input and the menu choice
  comp,         \* the fields written under _openGate
  solving,      \* where SolveInstance is, or "away"
  opens,        \* the opens under way: what each was started for
  made,         \* the opens that have made a session
  disposed,     \* those of them whose session is disposed of
  openExpires,  \* queued calls of ExpireSolution
  overlooked,   \* sessions that were cached when an open was begun (for SessionsHaveOneOwner)
  shown,        \* what the component shows and hands on
  removed       \* it has been taken off the canvas

openVars == <<dll, profile, comp, solving, opens, made, disposed, openExpires, overlooked,
              shown, removed>>

\* An open is named by the generation it was started with; session is the open
\* whose session is cached, or 0.
Open == [gen : 1..MaxOpenGeneration, key : Keys, profile : Profiles]
Fields == [gen : 0..MaxOpenGeneration, session : 0..MaxOpenGeneration, key : Keys \cup {NoPath},
           requested : Keys \cup {NoPath}, error : BOOLEAN, opening : BOOLEAN]

\* A session is only ever cached or disposed of once it has been made.
OpenTypeOK ==
  /\ dll \in Keys /\ profile \in Profiles /\ comp \in Fields
  /\ solving \in {"away", "stale", "ready", "refused", "begin", "assign"}
  /\ removed \in BOOLEAN /\ overlooked \subseteq {t.gen : t \in made}
  /\ opens \subseteq Open /\ made \subseteq Open
  /\ disposed \cup ({comp.session} \ {0}) \subseteq {t.gen : t \in made}
  /\ openExpires \in 0..MaxOpenGeneration + 1
  /\ shown \in {"nothing", "opening", "error", "session"}

OpenInit ==
  /\ dll \in Keys /\ profile \in Profiles
  /\ comp = [gen |-> 0, session |-> 0, key |-> NoPath, requested |-> NoPath,
             error |-> FALSE, opening |-> FALSE]
  /\ solving = "away" /\ overlooked = {} /\ opens = {} /\ made = {} /\ disposed = {}
  /\ openExpires = 1 /\ shown = "nothing" /\ removed = FALSE

\* Seeded fault of Outdated: the session goes, the generation stays.
OutdatedInPlace(c) ==
  [gen |-> c.gen, session |-> 0, key |-> NoPath, requested |-> NoPath,
   error |-> FALSE, opening |-> FALSE]

\* What InvalidateCurrentSession leaves; it disposes of the session it drops.
Outdated(c) ==
  [gen |-> c.gen + 1, session |-> 0, key |-> NoPath, requested |-> NoPath,
   error |-> FALSE, opening |-> FALSE]

Failed(c) ==
  [gen |-> c.gen, session |-> 0, key |-> NoPath, requested |-> c.requested,
   error |-> TRUE, opening |-> FALSE]

Restarts == UNCHANGED <<opens, made, overlooked, shown, removed>>
OnCanvas == solving = "away" /\ ~removed

\* The input changes, and GH solves the component again.
EnterPath(key) ==
  /\ OnCanvas /\ key # dll
  /\ solving' = "stale" /\ dll' = key
  /\ UNCHANGED <<profile, comp, disposed, openExpires>> /\ Restarts

\* InvalidateCurrentSession.
Invalidate ==
  /\ comp.gen < MaxOpenGeneration
  /\ comp' = Outdated(comp) /\ disposed' = disposed \cup ({comp.session} \ {0})

\* SetProfile with another profile, and Reset, from the menu.
Reopen(prof) ==
  /\ OnCanvas /\ solving' = "stale" /\ profile' = prof
  /\ Invalidate
  /\ UNCHANGED <<dll, openExpires>> /\ Restarts

\* A queued ExpireSolution solves the component again.
ExpireOpen ==
  /\ OnCanvas /\ openExpires > 0
  /\ solving' = "stale" /\ openExpires' = openExpires - 1
  /\ UNCHANGED <<dll, profile, comp, disposed>> /\ Restarts

\* SolveInstance: a session for another path goes first;
DropStale ==
  /\ solving = "stale" /\ solving' = "ready"
  /\ IF comp.session # 0 /\ ~comp.opening /\ comp.key # dll THEN Invalidate
     ELSE UNCHANGED <<comp, disposed>>
  /\ UNCHANGED <<dll, profile, openExpires>> /\ Restarts

Looks == UNCHANGED <<dll, profile, opens, made, disposed, openExpires, overlooked, removed>>

\* then a session that is cached is handed on (pass B),
HandOn ==
  /\ solving = "ready" /\ UNCHANGED comp /\ Looks
  /\ IF comp.session # 0 /\ ~comp.opening THEN solving' = "away" /\ shown' = "session"
     ELSE solving' = "refused" /\ UNCHANGED shown

\* or the error of this path shown,
ShowRefusal ==
  /\ solving = "refused" /\ Looks
  /\ IF comp.error /\ comp.requested = dll
     THEN solving' = "away" /\ shown' = "error" /\ UNCHANGED comp
     ELSE solving' = "begin" /\ comp' = [comp EXCEPT !.error = FALSE] /\ UNCHANGED shown

\* or an open awaited,
Await ==
  /\ solving = "begin" /\ comp.opening /\ solving' = "away" /\ shown' = "opening"
  /\ UNCHANGED comp /\ Looks

\* or one begun (pass A).  Where the path is missing, all of OpenInBackgroundAsync runs
\* in the call: it has committed its error before the caller assigns _opening.
Begin ==
  LET started == [gen |-> comp.gen + 1, session |-> comp.session, key |-> comp.key,
                  requested |-> dll, error |-> comp.error, opening |-> FALSE] IN
  /\ solving = "begin" /\ ~comp.opening /\ comp.gen < MaxOpenGeneration
  /\ solving' = "assign" /\ shown' = "opening"
  /\ overlooked' = overlooked \cup ({comp.session} \ {0})
  /\ IF dll \in Missing
     THEN comp' = Failed(started) /\ openExpires' = openExpires + 1 /\ UNCHANGED opens
     ELSE /\ comp' = started /\ UNCHANGED openExpires
          /\ opens' = opens \cup {[gen |-> started.gen, key |-> dll, profile |-> profile]}
  /\ UNCHANGED <<dll, profile, made, disposed, removed>>

AssignOpening ==
  /\ solving = "assign" /\ solving' = "away"
  /\ comp' = [comp EXCEPT !.opening = TRUE]
  /\ UNCHANGED shown /\ Looks

\* RemovedFromDocument.
TakeOff ==
  /\ OnCanvas /\ removed' = TRUE
  /\ Invalidate
  /\ UNCHANGED <<dll, profile, solving, opens, made, openExpires, overlooked, shown>>

\* FrameSession.OpenAsync returns a session; it may be cancelled or fail instead,
\* and the open then commits without one.
OpenReturns(t) ==
  /\ t \in opens \ made
  /\ made' = made \cup {t}
  /\ UNCHANGED <<dll, profile, comp, solving, opens, disposed, openExpires, overlooked,
                 shown, removed>>

Current(t) == comp.gen = t.gen
Brings(t) == t \in made

\* Under _openGate: what an open brings counts while its generation is current,
\* otherwise its session is disposed of.
CommitOpen(t) ==
  /\ t \in opens
  /\ opens' = opens \ {t}
  /\ IF Current(t)
     THEN /\ comp' = IF Brings(t)
                     THEN [gen |-> comp.gen, session |-> t.gen, key |-> t.key,
                           requested |-> comp.requested, error |-> FALSE, opening |-> FALSE]
                     ELSE Failed(comp)
          /\ openExpires' = openExpires + 1
          /\ UNCHANGED disposed
     ELSE /\ disposed' = IF Brings(t) THEN disposed \cup {t.gen} ELSE disposed
          /\ UNCHANGED <<comp, openExpires>>
  /\ UNCHANGED <<dll, profile, solving, made, overlooked, shown, removed>>

OpenNext ==
  \/ \E key \in Keys : EnterPath(key)
  \/ \E prof \in Profiles : Reopen(prof)
  \/ ExpireOpen \/ DropStale \/ HandOn \/ ShowRefusal \/ Await \/ Begin \/ AssignOpening
  \/ TakeOff
  \/ \E t \in opens : OpenReturns(t) \/ CommitOpen(t)

OpenSpec == OpenInit /\ [][OpenNext]_openVars
-------------------------------------------------------------------------------
Owners(t) ==
  {o \in {"open", "component", "disposal"} :
     \/ o = "open" /\ t \in opens
     \/ o = "component" /\ t.gen = comp.session
     \/ o = "disposal" /\ t.gen \in disposed}

\* A session has exactly one owner: the open that made it until that commits, then the
\* component while it is the cached one, and otherwise it is disposed of; a component off
\* the canvas owns none.  Only a session that was committed between two looks of a
\* SolveInstance that then began another open may be lost, which commits over it
\* (OpenFrameCoreComponent.cs:86, 109, 157).
SessionsHaveOneOwner ==
  /\ \A t \in made : \/ Cardinality(Owners(t)) = 1
                     \/ Owners(t) = {} /\ t.gen \in overlooked
  /\ removed => comp.session = 0

\* While the component says "opening..." and nothing is queued that would solve it
\* again, an open is under way, whose end will.
OpeningIsUnderWay ==
  (shown = "opening" /\ OnCanvas /\ openExpires = 0) => opens # {}
==============================================================================
