------------------------- MODULE ModelRegistryProofs -------------------------
(***************************************************************************)
(* Proofs about the registry for every level: any set of components, any    *)
(* geometry, tolerance, rank cap and debounce, with sessions that may fail  *)
(* to start; and about the slots that the persistence subsystem fills.      *)
(***************************************************************************)
EXTENDS Persistence, FoldLemmas, NaturalsInduction, SequenceTheorems, TLAPS

\* A registered component is in the world, and owns no row after its own.
NewestRowOwns ==
  \A c \in Comps : registered[c] =>
    /\ c \in inWorld
    /\ \A r \in 1..Len(model.members) : indexToComponent[r] = c => r <= memberIdx[c]

\* No session is left in the engine once the registry dropped it.
SessionEnded == ~bSessionStarted => engine = NoSession

\* What waits to be switched off is already inactive in the model.
QueuedAreInactive == ActiveRows(model) \cap Queued = {}

IInv ==
  /\ TypeOK
  /\ RowsAndComponentsAgree
  /\ NewestRowOwns
  /\ SessionFresh
  /\ SessionEnded
  /\ QueueIsScheduled
  /\ QueuedAreInactive

-------------------------------------------------------------------------------
LEMMA NatMin ==
  ASSUME NEW S \in SUBSET Nat, S # {}
  PROVE  \E n \in S : \A k \in S : n <= k
<1> DEFINE LT == {ss \in Nat \X Nat : ss[1] < ss[2]}
<1>1. IsWellFoundedOn(LT, Nat)
  BY NatLessThanWellFounded DEF OpToRel
<1>2. PICK n \in S : \A k \in S : ~ (<<k, n>> \in LT)
  <2> HIDE DEF LT
  <2> QED
    BY <1>1, WFMin
<1>3. \A k \in S : ~ (k < n)
  BY <1>2
<1> QED
  BY <1>3

\* The node FindOrAddNode returns is one it left in the array.
LEMMA FindOrAddTyped ==
  ASSUME NEW nodes \in Seq(Node), NEW p \in Int
  PROVE  /\ FindOrAddNode(nodes, p) \in Seq(Node)
         /\ Hits(FindOrAddNode(nodes, p), p) # {}
<1>1. CASE Hits(nodes, p) # {}
  BY <1>1 DEF FindOrAddNode
<1>2. CASE Hits(nodes, p) = {}
  <2> DEFINE new == [pos |-> p, fixed |-> FALSE]
  <2>1. new \in Node /\ new.pos = p
    BY DEF Node
  <2> HIDE DEF new
  <2>2. FindOrAddNode(nodes, p) = Append(nodes, new)
    BY <1>2 DEF FindOrAddNode, new
  <2>3. /\ Append(nodes, new) \in Seq(Node)
        /\ Len(Append(nodes, new)) = Len(nodes) + 1
        /\ Append(nodes, new)[Len(nodes) + 1] = new
    BY <2>1
  <2>4. Near(p, p)
    BY MergeTolAssumption DEF Near
  <2>5. Len(nodes) + 1 \in Hits(Append(nodes, new), p)
    BY <2>1, <2>3, <2>4 DEF Hits
  <2> QED
    BY <2>2, <2>3, <2>5
<1> QED
  BY <1>1, <1>2

LEMMA NodeAtTyped ==
  ASSUME NEW nodes \in Seq(Node), NEW p \in Int, Hits(nodes, p) # {}
  PROVE  NodeAt(nodes, p) \in Hits(nodes, p) /\ NodeAt(nodes, p) \in 1..Len(nodes)
<1>1. Hits(nodes, p) \in SUBSET Nat
  BY DEF Hits
<1>2. \E n \in Hits(nodes, p) : \A k \in Hits(nodes, p) : n <= k
  BY <1>1, NatMin
<1>3. NodeAt(nodes, p) \in Hits(nodes, p)
  BY <1>2 DEF NodeAt
<1> QED
  BY <1>3 DEF Hits

LEMMA NatMax ==
  ASSUME NEW n \in Nat, NEW S \in SUBSET (1..n), S # {}
  PROVE  \E r \in S : \A k \in S : k <= r
<1> DEFINE D == {n - k : k \in S}
<1>1. D \in SUBSET Nat /\ D # {}
  <2>1. \A k \in S : k \in Nat /\ n - k \in Nat
    OBVIOUS
  <2> QED
    BY <2>1
<1>2. PICK d \in D : \A k \in D : d <= k
  BY <1>1, NatMin
<1>3. PICK r \in S : d = n - r
  BY <1>2
<1>4. \A k \in S : n - k \in D
  OBVIOUS
<1>5. \A k \in S : n - r <= n - k
  BY <1>2, <1>3, <1>4
<1> HIDE DEF D
<1>6. \A k \in S : k \in Int
  OBVIOUS
<1>7. \A k \in S : k <= r
  BY <1>5, <1>6
<1> QED
  BY <1>7

-------------------------------------------------------------------------------
\* What the calls do to the model: its shape, its rows and its active rows.

LEMMA AddMemberTyped ==
  ASSUME NEW m \in Model, NEW p \in Int, NEW q \in Int
  PROVE  LET a == AddMember(m, p, q) IN
         /\ a \in Model
         /\ Len(a.members) = Len(m.members) + 1
         /\ \A r \in 1..Len(m.members) : a.members[r] = m.members[r]
         /\ a.members[Len(m.members) + 1].active = TRUE
<1> DEFINE withI  == FindOrAddNode(m.nodes, p)
           withIJ == FindOrAddNode(withI, q)
           row    == [i |-> NodeAt(withI, p), j |-> NodeAt(withIJ, q), active |-> TRUE]
           rows   == Append(m.members, row)
<1>1. m.nodes \in Seq(Node) /\ m.members \in Seq(Row)
  BY DEF Model
<1>2. withI \in Seq(Node) /\ Hits(withI, p) # {}
  BY <1>1, FindOrAddTyped
<1>3. withIJ \in Seq(Node) /\ Hits(withIJ, q) # {}
  BY <1>2, FindOrAddTyped
<1>4. AddMember(m, p, q) = [nodes |-> withIJ, members |-> rows]
  BY DEF AddMember
<1> HIDE DEF withI, withIJ
<1>5. NodeAt(withI, p) \in Nat /\ NodeAt(withIJ, q) \in Nat
  BY <1>2, <1>3, NodeAtTyped
<1>6. row \in Row /\ row.active = TRUE
  BY <1>5 DEF Row
<1> HIDE DEF row
<1>7. /\ rows \in Seq(Row)
      /\ Len(rows) = Len(m.members) + 1
      /\ \A r \in 1..Len(m.members) : rows[r] = m.members[r]
      /\ rows[Len(m.members) + 1] = row
  BY <1>1, <1>6
<1> HIDE DEF rows
<1> QED
  BY <1>3, <1>4, <1>6, <1>7 DEF Model

LEMMA AddSupportTyped ==
  ASSUME NEW m \in Model, NEW p \in Int
  PROVE  /\ AddSupport(m, p) \in Model
         /\ AddSupport(m, p).members = m.members
<1> DEFINE nodes == FindOrAddNode(m.nodes, p)
           n     == NodeAt(nodes, p)
           fixed == [nodes EXCEPT ![n].fixed = TRUE]
<1>1. m.nodes \in Seq(Node) /\ m.members \in Seq(Row)
  BY DEF Model
<1>2. nodes \in Seq(Node) /\ Hits(nodes, p) # {}
  BY <1>1, FindOrAddTyped
<1>3. AddSupport(m, p) = [m EXCEPT !.nodes = fixed]
  BY DEF AddSupport
<1> HIDE DEF nodes
<1>4. n \in 1..Len(nodes)
  BY <1>2, NodeAtTyped
<1>5. fixed \in Seq(Node)
  <2> DEFINE new == [nodes[n] EXCEPT !.fixed = TRUE]
  <2>1. nodes[n] \in Node
    BY <1>2, <1>4
  <2>2. new \in Node
    BY <2>1 DEF Node
  <2>3. fixed = [nodes EXCEPT ![n] = new]
    OBVIOUS
  <2> HIDE DEF new, n, fixed
  <2> QED
    BY <1>2, <1>4, <2>2, <2>3
<1> HIDE DEF fixed
<1> QED
  BY <1>1, <1>3, <1>5 DEF Model

LEMMA SwitchOffTyped ==
  ASSUME NEW m \in Model, NEW r \in 1..Len(m.members)
  PROVE  /\ SwitchOff(m, r) \in Model
         /\ SameTopology(m, SwitchOff(m, r))
         /\ ActiveRows(SwitchOff(m, r)) = ActiveRows(m) \ {r}
         /\ \A k \in 1..Len(m.members) :
              SwitchOff(m, r).members[k].active = (m.members[k].active /\ k # r)
<1> DEFINE rows == [m.members EXCEPT ![r].active = FALSE]
<1>1. m.nodes \in Seq(Node) /\ m.members \in Seq(Row)
  BY DEF Model
<1>2. SwitchOff(m, r) = [m EXCEPT !.members = rows]
  BY DEF SwitchOff
<1> DEFINE row == [m.members[r] EXCEPT !.active = FALSE]
<1>9. m.members[r] \in Row
  BY <1>1
<1>10. row \in Row /\ row.i = m.members[r].i /\ row.j = m.members[r].j
  BY <1>9 DEF Row
<1>11. row.active = FALSE
  BY <1>9 DEF Row
<1>12. rows = [m.members EXCEPT ![r] = row]
  OBVIOUS
<1> HIDE DEF rows, row
<1>3. rows \in Seq(Row) /\ Len(rows) = Len(m.members)
  BY <1>1, <1>10, <1>12
<1>13. rows[r] = row /\ \A k \in 1..Len(m.members) : k # r => rows[k] = m.members[k]
  BY <1>1, <1>12
<1>14. ASSUME NEW k \in 1..Len(m.members) PROVE m.members[k].active \in BOOLEAN
  <2>1. m.members[k] \in Row
    BY <1>1
  <2> QED
    BY <2>1 DEF Row
<1>4. \A k \in 1..Len(m.members) :
        /\ rows[k].i = m.members[k].i /\ rows[k].j = m.members[k].j
        /\ rows[k].active = (m.members[k].active /\ k # r)
  BY <1>10, <1>11, <1>13, <1>14
<1>5. SwitchOff(m, r) \in Model
  BY <1>1, <1>2, <1>3 DEF Model
<1>6. SwitchOff(m, r).members = rows /\ SwitchOff(m, r).nodes = m.nodes
  BY <1>1, <1>2, <1>3 DEF Model
<1>7. SameTopology(m, SwitchOff(m, r))
  BY <1>3, <1>4, <1>6 DEF SameTopology
<1>8. ActiveRows(SwitchOff(m, r)) = ActiveRows(m) \ {r}
  BY <1>3, <1>4, <1>6 DEF ActiveRows
<1> QED
  BY <1>4, <1>5, <1>6, <1>7, <1>8

LEMMA ActiveRowsTyped ==
  ASSUME NEW m \in Model
  PROVE  ActiveRows(m) \in SUBSET (1..Len(m.members))
BY DEF ActiveRows

-------------------------------------------------------------------------------
\* What a solve request does, whichever of its branches is taken.

Paint == [row : Nat, stressed : BOOLEAN]

EngineTyped == /\ engine.model \in Model
               /\ engine.active \in SUBSET (1..Len(engine.model.members))
               /\ engine = [model |-> engine.model, active |-> engine.active]

LEMMA LastRowTyped ==
  ASSUME NEW n \in Nat, NEW S \in SUBSET (1..n), S # {}
  PROVE  LastRow(S) \in S /\ \A k \in S : k <= LastRow(S)
<1>1. \E r \in S : \A k \in S : k <= r
  BY NatMax
<1> QED
  BY <1>1 DEF LastRow

LEMMA PaintedTyped ==
  ASSUME NEW s, s.model \in Model, util \in [Comps -> Paint]
  PROVE  Painted(s) \in [Comps -> Paint]
<1>1. SUFFICES ASSUME NEW c \in Comps, c \in inWorld, RowsOf(c, s) # {}
               PROVE  LastRow(RowsOf(c, s)) \in Nat
  BY <1>1 DEF Painted, Paint
<1>2. Len(s.model.members) \in Nat
  BY DEF Model
<1>3. RowsOf(c, s) \in SUBSET (1..Len(s.model.members))
  BY DEF RowsOf
<1>4. LastRow(RowsOf(c, s)) \in RowsOf(c, s)
  BY <1>1, <1>2, <1>3, LastRowTyped
<1> QED
  BY <1>2, <1>3, <1>4

\* A component is painted from its newest row.
LEMMA PaintedNewest ==
  ASSUME NEW s, s.model \in Model, NEW c \in Comps, c \in inWorld,
         NEW r \in DOMAIN indexToComponent,
         DOMAIN indexToComponent = 1..Len(s.model.members), indexToComponent[r] = c,
         \A k \in DOMAIN indexToComponent : indexToComponent[k] = c => k <= r
  PROVE  Painted(s)[c] = [row |-> r, stressed |-> r \in s.active]
<1>1. Len(s.model.members) \in Nat
  BY DEF Model
<1>2. /\ RowsOf(c, s) \in SUBSET (1..Len(s.model.members))
      /\ r \in RowsOf(c, s)
      /\ \A k \in RowsOf(c, s) : k <= r
  BY DEF RowsOf
<1>3. LastRow(RowsOf(c, s)) \in RowsOf(c, s) /\ r <= LastRow(RowsOf(c, s))
  BY <1>1, <1>2, LastRowTyped
<1>4. LastRow(RowsOf(c, s)) = r
  BY <1>1, <1>2, <1>3
<1> QED
  BY <1>2, <1>4 DEF Painted

\* What ExecuteSolve and RequestSolve leave, on model m.
Outcome(m) ==
  /\ pendingPatch' \in Seq(1..Len(m.members))
  /\ pendingRank' = Len(pendingPatch') /\ pendingRank' \in 0..MaxRank
  /\ attempted' \in 0..Len(m.members)
  /\ util' \in [Comps -> Paint]
  /\ bSessionStarted' \in BOOLEAN /\ bNeedsRebaseline' \in BOOLEAN
  /\ EngineTyped'
  /\ bSessionStarted' => /\ SameTopology(engine'.model, m)
                         /\ ActiveRows(m) = engine'.active \ Listed(pendingPatch')
  /\ SessionEnded'
  /\ ActiveRows(m) \cap Listed(pendingPatch') = {}
  /\ \/ UNCHANGED <<bSessionStarted, engine>>
     \/ bSessionStarted' => engine'.active = ActiveRows(m)
  /\ \/ util' = util
     \/ bSessionStarted' /\ pendingPatch' = <<>> /\ util' = Painted(engine')

LEMMA ListedEmpty ==
  Listed(<<>>) = {}
BY DEF Listed

LEMMA PatchTyped ==
  ASSUME NEW s, s.model \in Model, s.active \in SUBSET (1..Len(s.model.members)),
         s = [model |-> s.model, active |-> s.active],
         NEW queue, util \in [Comps -> Paint], ApplyPatch(s, queue)
  PROVE  /\ EngineTyped'
         /\ engine'.model = s.model /\ engine'.active = s.active \ Listed(queue)
         /\ util' \in [Comps -> Paint]
         /\ util' = util \/ util' = Painted(engine')
<1>1. engine' = [s EXCEPT !.active = @ \ Listed(queue)]
  BY DEF ApplyPatch
<1>2. engine' = [model |-> s.model, active |-> s.active \ Listed(queue)]
  BY <1>1
<1>3. util' = util \/ util' = Painted(engine')
  BY <1>1 DEF ApplyPatch
<1>4. EngineTyped'
  BY <1>2 DEF EngineTyped
<1>5. engine'.model \in Model
  BY <1>4 DEF EngineTyped
<1>6. Painted(engine') \in [Comps -> Paint]
  BY <1>5, PaintedTyped
<1> QED
  BY <1>2, <1>3, <1>4, <1>6

LEMMA ExecuteOutcome ==
  ASSUME NEW m \in Model, NEW queue \in Seq(1..Len(m.members)), NEW rebase \in BOOLEAN,
         util \in [Comps -> Paint], bSessionStarted \in BOOLEAN, EngineTyped, SessionEnded,
         ActiveRows(m) \cap Listed(queue) = {},
         bSessionStarted => /\ SameTopology(engine.model, m)
                            /\ ActiveRows(m) = engine.active \ Listed(queue),
         ExecuteSolve(queue, rebase, m)
  PROVE  Outcome(m) /\ pendingPatch' = <<>>
<1>1. pendingPatch' = <<>> /\ pendingRank' = 0 /\ attempted' = Len(m.members)
  BY DEF ExecuteSolve
<1>2. Len(m.members) \in Nat
  BY DEF Model
<1>3. /\ pendingPatch' \in Seq(1..Len(m.members))
      /\ pendingRank' = Len(pendingPatch') /\ pendingRank' \in 0..MaxRank
      /\ attempted' \in 0..Len(m.members)
      /\ Listed(pendingPatch') = {}
  BY <1>1, <1>2, ListedEmpty, RegistryAssumption
<1>4. CASE ~bSessionStarted /\ StartSession(m, queue)
  <2> DEFINE s == SessionOn(m)
  <2>1. /\ s.model = m /\ s.active = ActiveRows(m)
        /\ s = [model |-> s.model, active |-> s.active]
    BY DEF SessionOn
  <2> HIDE DEF s
  <2>2. s.active \in SUBSET (1..Len(s.model.members))
    BY <2>1, ActiveRowsTyped
  <2>3. ApplyPatch(s, queue) /\ bSessionStarted' = TRUE /\ bNeedsRebaseline' = FALSE
    BY <1>4 DEF StartSession, s
  <2>4. /\ EngineTyped'
        /\ engine'.model = m /\ engine'.active = ActiveRows(m) \ Listed(queue)
        /\ util' \in [Comps -> Paint]
        /\ util' = util \/ util' = Painted(engine')
    BY <2>1, <2>2, <2>3, PatchTyped
  <2>5. engine'.active = ActiveRows(m)
    BY <2>4
  <2>6. SameTopology(m, m)
    BY DEF SameTopology
  <2> QED
    BY <1>1, <1>3, <2>3, <2>4, <2>5, <2>6 DEF Outcome, SessionEnded
<1>5. CASE ~bSessionStarted /\ StartFails(m, rebase)
  <2>1. /\ engine' = NoSession /\ bSessionStarted' = bSessionStarted /\ util' = util
        /\ bNeedsRebaseline' = rebase
    BY <1>5 DEF StartFails
  <2>2. EmptyModel \in Model /\ Len(EmptyModel.members) = 0
    BY DEF EmptyModel, Model
  <2>3. EngineTyped'
    BY <2>1, <2>2 DEF EngineTyped, NoSession
  <2> QED
    BY <1>1, <1>3, <1>5, <2>1, <2>3 DEF Outcome, SessionEnded
<1>6. CASE bSessionStarted /\ ReuseSession(queue)
  <2>1. /\ ApplyPatch(engine, queue)
        /\ bSessionStarted' = bSessionStarted /\ bNeedsRebaseline' = FALSE
    BY <1>6 DEF ReuseSession
  <2>2. /\ EngineTyped'
        /\ engine'.model = engine.model /\ engine'.active = engine.active \ Listed(queue)
        /\ util' \in [Comps -> Paint]
        /\ util' = util \/ util' = Painted(engine')
    BY <2>1, PatchTyped DEF EngineTyped
  <2> QED
    BY <1>1, <1>3, <1>6, <2>1, <2>2 DEF Outcome, SessionEnded
<1> QED
  BY <1>4, <1>5, <1>6 DEF ExecuteSolve

LEMMA ListedConcat ==
  ASSUME NEW S, NEW a \in Seq(S), NEW b \in Seq(S)
  PROVE  Listed(a \o b) = Listed(a) \cup Listed(b)
<1>1. Len(a) \in Nat /\ Len(b) \in Nat /\ Len(a \o b) = Len(a) + Len(b)
  OBVIOUS
<1>2. \A k \in 1..Len(a) : (a \o b)[k] = a[k] /\ k \in 1..Len(a \o b)
  BY <1>1
<1>3. \A k \in 1..Len(b) : (a \o b)[Len(a) + k] = b[k] /\ Len(a) + k \in 1..Len(a \o b)
  BY <1>1
<1>4. ASSUME NEW k \in 1..Len(a \o b)
      PROVE  (a \o b)[k] \in Listed(a) \cup Listed(b)
  <2>1. CASE k <= Len(a)
    BY <1>1, <1>2, <2>1 DEF Listed
  <2>2. CASE k > Len(a)
    <3>1. k - Len(a) \in 1..Len(b)
      BY <1>1, <2>2
    <3>2. (a \o b)[k] = b[k - Len(a)]
      BY <1>1, <1>3, <3>1
    <3> QED
      BY <3>1, <3>2 DEF Listed
  <2> QED
    BY <1>1, <2>1, <2>2
<1>5. Listed(a \o b) \subseteq Listed(a) \cup Listed(b)
  BY <1>4 DEF Listed
<1>6. Listed(a) \subseteq Listed(a \o b)
  BY <1>2 DEF Listed
<1>7. Listed(b) \subseteq Listed(a \o b)
  BY <1>3 DEF Listed
<1> QED
  BY <1>5, <1>6, <1>7

LEMMA SameTopologyTrans ==
  ASSUME NEW m, NEW n, NEW o, SameTopology(m, n), SameTopology(n, o)
  PROVE  SameTopology(m, o)
BY DEF SameTopology

\* RequestSolve on a model that differs from the registry's in the patch only.
LEMMA RequestOutcome ==
  ASSUME IInv, NEW m \in Model, SameTopology(model, m),
         NEW patch \in Seq(1..Len(m.members)),
         ActiveRows(m) = ActiveRows(model) \ Listed(patch),
         RequestSolve(patch, m)
  PROVE  /\ Outcome(m)
         /\ timer' \in 0..DebounceTicks
         /\ pendingPatch' # <<>> => timer' > 0
<1> DEFINE queue == pendingPatch \o patch
<1>1. Len(m.members) = Len(model.members) /\ Len(m.members) \in Nat
  BY DEF SameTopology, Model
<1>2. pendingPatch \in Seq(1..Len(m.members))
  BY <1>1 DEF IInv, TypeOK
<1>3. /\ queue \in Seq(1..Len(m.members))
      /\ Len(queue) = Len(pendingPatch) + Len(patch)
  BY <1>2
<1>4. Listed(queue) = Queued \cup Listed(patch)
  BY <1>2, ListedConcat DEF Queued
<1> HIDE DEF queue
<1>5. ActiveRows(m) \cap Listed(queue) = {}
  BY <1>4 DEF IInv, QueuedAreInactive
<1>6. bSessionStarted => /\ SameTopology(engine.model, m)
                         /\ ActiveRows(m) = engine.active \ Listed(queue)
  BY <1>4, SameTopologyTrans DEF IInv, SessionFresh
<1>7. /\ util \in [Comps -> Paint] /\ bSessionStarted \in BOOLEAN
      /\ bNeedsRebaseline \in BOOLEAN /\ EngineTyped /\ SessionEnded
      /\ attempted \in 0..Len(m.members)
  BY <1>1 DEF IInv, TypeOK, Paint, EngineTyped
<1>8. /\ DebounceTicks \in Nat \ {0} /\ MaxRank \in Nat
      /\ pendingRank = Len(pendingPatch) /\ Len(pendingPatch) \in Nat /\ Len(patch) \in Nat
  BY <1>2, RegistryAssumption DEF IInv, QueueIsScheduled
<1>9. CASE pendingRank + Len(patch) > MaxRank
  <2>1. timer' = 0 /\ ExecuteSolve(queue, TRUE, m)
    BY <1>9 DEF RequestSolve, queue
  <2>2. Outcome(m) /\ pendingPatch' = <<>>
    BY <1>3, <1>5, <1>6, <1>7, <2>1, ExecuteOutcome
  <2> QED
    BY <1>8, <2>1, <2>2
<1>10. CASE ~ (pendingRank + Len(patch) > MaxRank)
  <2>1. /\ pendingPatch' = queue /\ pendingRank' = pendingRank + Len(patch)
        /\ timer' = DebounceTicks
        /\ UNCHANGED solveVars
    BY <1>10 DEF RequestSolve, queue
  <2>2. pendingRank' = Len(pendingPatch') /\ pendingRank' \in 0..MaxRank
    BY <1>3, <1>8, <1>10, <2>1
  <2>3. EngineTyped' /\ SessionEnded'
    BY <1>7, <2>1 DEF solveVars, EngineTyped, SessionEnded
  <2> QED
    BY <1>3, <1>5, <1>6, <1>7, <1>8, <2>1, <2>2, <2>3 DEF solveVars, Outcome
<1> QED
  BY <1>9, <1>10

\* A step that changes no topology and asks for, or runs, a solve.
LEMMA OutcomeKeepsIInv ==
  ASSUME IInv, model' \in Model, SameTopology(model, model'),
         indexToComponent' = indexToComponent, nextMemberIdx' = nextMemberIdx,
         Outcome(model'),
         timer' \in 0..DebounceTicks, pendingPatch' # <<>> => timer' > 0,
         inWorld' \in SUBSET Comps,
         memberIdx' \in [Comps -> Nat], registered' \in [Comps -> BOOLEAN],
         lastSeen' \in Nat \cup {-1},
         RowsAndComponentsAgree', NewestRowOwns'
  PROVE  IInv'
<1>1. Len(model'.members) = Len(model.members)
  BY DEF SameTopology
<1>2. TypeOK'
  <2>1. /\ nextMemberIdx' = Len(model'.members) + 1
        /\ indexToComponent' \in [1..Len(model'.members) -> Comps]
    BY <1>1 DEF IInv, TypeOK
  <2>2. engine' \in [model : Model, active : SUBSET (1..Len(engine'.model.members))]
    BY DEF Outcome, EngineTyped
  <2> QED
    BY <2>1, <2>2 DEF TypeOK, Outcome, Paint
<1>3. SessionFresh'
  <2>1. ASSUME bSessionStarted' PROVE SameTopology(engine'.model, model')
    BY <2>1 DEF Outcome
  <2> QED
    BY <2>1 DEF SessionFresh, Outcome, Queued
<1>4. SessionEnded' /\ QueueIsScheduled' /\ QueuedAreInactive'
  BY DEF Outcome, QueueIsScheduled, QueuedAreInactive, Queued
<1> QED
  BY <1>2, <1>3, <1>4 DEF IInv

-------------------------------------------------------------------------------
\* One lemma per call that changes the model or the components.

LEMMA RegisterKeepsIInv ==
  ASSUME IInv, NEW c \in Comps, inWorld' = inWorld \cup {c}, RegisterMember(c),
         lastSeen' = lastSeen
  PROVE  IInv'
<1>1. CASE registered[c] \/ Rejected(c)
  <2>1. UNCHANGED <<memberIdx, registered, modelVars, queueVars, solveVars>>
    BY <1>1 DEF RegisterMember
  <2> QED
    BY <2>1 DEF IInv, TypeOK, RowsAndComponentsAgree, NewestRowOwns, SessionFresh,
      SessionEnded, QueueIsScheduled, QueuedAreInactive, Queued, ActiveRows,
      modelVars, queueVars, solveVars
<1>2. CASE ~ (registered[c] \/ Rejected(c))
  <2> DEFINE n == Len(model.members)
  <2>1. /\ model' = AddMember(model, EndI[c], EndJ[c])
        /\ nextMemberIdx' = nextMemberIdx + 1
        /\ memberIdx' = [memberIdx EXCEPT ![c] = nextMemberIdx]
        /\ registered' = [registered EXCEPT ![c] = TRUE]
        /\ indexToComponent' =
             [r \in DOMAIN indexToComponent \cup {nextMemberIdx} |->
                IF r = nextMemberIdx THEN c ELSE indexToComponent[r]]
        /\ EndSession /\ bNeedsRebaseline' = FALSE /\ Dropped
        /\ UNCHANGED <<timer, util, attempted>>
    BY <1>2 DEF RegisterMember
  <2>2. model \in Model /\ EndI[c] \in Int /\ EndJ[c] \in Int
    BY RegistryAssumption DEF IInv, TypeOK
  <2>3. n \in Nat /\ nextMemberIdx = n + 1
    BY <2>2 DEF IInv, TypeOK, Model
  <2>4. /\ model' \in Model
        /\ Len(model'.members) = n + 1
        /\ \A r \in 1..n : model'.members[r] = model.members[r]
        /\ model'.members[n + 1].active = TRUE
    BY <2>1, <2>2, AddMemberTyped
  <2>5. /\ indexToComponent \in [1..n -> Comps]
        /\ memberIdx \in [Comps -> Nat] /\ registered \in [Comps -> BOOLEAN]
    BY DEF IInv, TypeOK
  <2> HIDE DEF n
  <2>6. /\ indexToComponent' \in [1..(n + 1) -> Comps]
        /\ indexToComponent'[n + 1] = c
        /\ \A r \in 1..n : indexToComponent'[r] = indexToComponent[r]
    BY <2>1, <2>3, <2>5
  <2>7. /\ memberIdx' \in [Comps -> Nat] /\ memberIdx'[c] = n + 1
        /\ \A d \in Comps : d # c => memberIdx'[d] = memberIdx[d]
    BY <2>1, <2>3, <2>5
  <2>8. /\ registered' \in [Comps -> BOOLEAN] /\ registered'[c]
        /\ \A d \in Comps : d # c => registered'[d] = registered[d]
    BY <2>1, <2>5
  <2>9. /\ bSessionStarted' = FALSE /\ bNeedsRebaseline' = FALSE
        /\ pendingPatch' = <<>> /\ pendingRank' = 0
        /\ timer' = timer /\ util' = util /\ attempted' = attempted
    BY <2>1 DEF EndSession, Dropped
  <2>10. engine' = NoSession
    BY <2>1 DEF EndSession, IInv, SessionEnded
  <2>11. ActiveRows(model') = ActiveRows(model) \cup {n + 1}
    BY <2>3, <2>4 DEF ActiveRows, n
  <2>12. ActiveRows(model) \in SUBSET (1..n)
    BY <2>2, ActiveRowsTyped DEF n
  <2>13. TypeOK'
    <3>1. EmptyModel \in Model /\ Len(EmptyModel.members) = 0
      BY DEF EmptyModel, Model
    <3>2. engine' \in [model : Model, active : SUBSET (1..Len(engine'.model.members))]
      BY <2>10, <3>1 DEF NoSession
    <3>3. attempted' \in 0..(n + 1)
      BY <2>3, <2>9 DEF IInv, TypeOK, n
    <3>4. pendingPatch' \in Seq(1..(n + 1)) /\ pendingRank' \in 0..MaxRank
      BY <2>9, RegistryAssumption
    <3>5. /\ inWorld' \in SUBSET Comps
          /\ util' \in [Comps -> [row : Nat, stressed : BOOLEAN]]
          /\ timer' \in 0..DebounceTicks
          /\ lastSeen' \in Nat \cup {-1}
      BY <2>9 DEF IInv, TypeOK
    <3>6. nextMemberIdx' = n + 1 + 1
      BY <2>1, <2>3
    <3> QED
      BY <2>4, <2>6, <2>7, <2>8, <2>9, <3>2, <3>3, <3>4, <3>5, <3>6 DEF TypeOK
  <2>14. /\ \A d \in Comps : registered[d] =>
              /\ memberIdx[d] \in ActiveRows(model)
              /\ indexToComponent[memberIdx[d]] = d
         /\ \A r \in ActiveRows(model) : memberIdx[indexToComponent[r]] = r
         /\ \A d \in Comps : memberIdx[d] > 0 <=> registered[d]
    BY DEF IInv, RowsAndComponentsAgree
  <2>15. ~ registered[c] /\ memberIdx[c] = 0
    BY <1>2, <2>5, <2>14
  <2>16. RowsAndComponentsAgree'
    <3>1. ASSUME NEW d \in Comps, registered'[d]
          PROVE  memberIdx'[d] \in ActiveRows(model') /\ indexToComponent'[memberIdx'[d]] = d
      BY <2>6, <2>7, <2>8, <2>11, <2>12, <2>14, <3>1
    <3>2. ASSUME NEW r \in ActiveRows(model')
          PROVE  memberIdx'[indexToComponent'[r]] = r
      <4>1. CASE r = n + 1
        BY <2>6, <2>7, <4>1
      <4>2. CASE r \in ActiveRows(model)
        <5>1. indexToComponent[r] \in Comps /\ r \in 1..n /\ memberIdx[indexToComponent[r]] = r
          BY <2>5, <2>12, <2>14, <4>2
        <5>2. indexToComponent[r] # c
          BY <2>3, <2>15, <5>1
        <5> QED
          BY <2>6, <2>7, <5>1, <5>2
      <4> QED
        BY <2>11, <4>1, <4>2
    <3>3. ASSUME NEW d \in Comps PROVE memberIdx'[d] > 0 <=> registered'[d]
      BY <2>3, <2>7, <2>8, <2>14
    <3> QED
      BY <3>1, <3>2, <3>3 DEF RowsAndComponentsAgree
  <2>17. NewestRowOwns'
    <3>1. SUFFICES ASSUME NEW d \in Comps, registered'[d]
                   PROVE  /\ d \in inWorld'
                          /\ \A r \in 1..(n + 1) : indexToComponent'[r] = d => r <= memberIdx'[d]
      BY <2>4 DEF NewestRowOwns
    <3>2. CASE d = c
      BY <2>3, <2>7, <3>2
    <3>3. CASE d # c
      <4>1. registered[d] /\ memberIdx'[d] = memberIdx[d]
        BY <2>7, <2>8, <3>1, <3>3
      <4>2. d \in inWorld /\ \A r \in 1..n : indexToComponent[r] = d => r <= memberIdx[d]
        BY <4>1 DEF IInv, NewestRowOwns, n
      <4> QED
        BY <2>3, <2>6, <3>3, <4>1, <4>2
    <3> QED
      BY <3>2, <3>3
  <2>18. Queued' = {} /\ Len(pendingPatch') = 0
    BY <2>9, ListedEmpty DEF Queued
  <2>19. SessionFresh' /\ SessionEnded' /\ QueueIsScheduled' /\ QueuedAreInactive'
    BY <2>9, <2>10, <2>18 DEF SessionFresh, SessionEnded, QueueIsScheduled, QueuedAreInactive
  <2> QED
    BY <2>13, <2>16, <2>17, <2>19 DEF IInv
<1> QED
  BY <1>1, <1>2

\* DeactivateMember on the row of a registered component.
LEMMA DeactivateOutcome ==
  ASSUME IInv, NEW c \in Comps, registered[c], DeactivateMember(memberIdx[c])
  PROVE  LET r == memberIdx[c] IN
         /\ r \in 1..Len(model.members)
         /\ model' = SwitchOff(model, r)
         /\ model' \in Model /\ SameTopology(model, model')
         /\ ActiveRows(model') = ActiveRows(model) \ {r}
         /\ \A k \in 1..Len(model.members) :
              model'.members[k].active = (model.members[k].active /\ k # r)
         /\ indexToComponent' = indexToComponent /\ nextMemberIdx' = nextMemberIdx
         /\ memberIdx' = [d \in Comps |-> IF d = c THEN 0 ELSE memberIdx[d]]
         /\ registered' = [d \in Comps |-> IF d = c THEN FALSE ELSE registered[d]]
         /\ Outcome(model')
         /\ timer' \in 0..DebounceTicks
         /\ pendingPatch' # <<>> => timer' > 0
<1> DEFINE r == memberIdx[c]
<1>1. model \in Model
  BY DEF IInv, TypeOK
<1>2. r \in ActiveRows(model) /\ indexToComponent[r] = c
  BY DEF IInv, RowsAndComponentsAgree
<1>3. r \in 1..Len(model.members)
  BY <1>1, <1>2, ActiveRowsTyped
<1>4. /\ model' = SwitchOff(model, r)
      /\ Unbind({indexToComponent[r]})
      /\ RequestSolve(<<r>>, SwitchOff(model, r))
      /\ UNCHANGED <<indexToComponent, nextMemberIdx>>
  BY DEF DeactivateMember
<1> HIDE DEF r
<1>5. /\ SwitchOff(model, r) \in Model
      /\ SameTopology(model, SwitchOff(model, r))
      /\ ActiveRows(SwitchOff(model, r)) = ActiveRows(model) \ {r}
      /\ \A k \in 1..Len(model.members) :
           SwitchOff(model, r).members[k].active = (model.members[k].active /\ k # r)
  BY <1>1, <1>3, SwitchOffTyped
<1>6. Len(SwitchOff(model, r).members) = Len(model.members)
  BY <1>5 DEF SameTopology
<1>7. <<r>> \in Seq(1..Len(SwitchOff(model, r).members)) /\ Listed(<<r>>) = {r}
  BY <1>3, <1>6 DEF Listed
<1>8. /\ Outcome(SwitchOff(model, r))
      /\ timer' \in 0..DebounceTicks
      /\ pendingPatch' # <<>> => timer' > 0
  BY <1>4, <1>5, <1>7, RequestOutcome
<1>9. /\ memberIdx' = [d \in Comps |-> IF d = c THEN 0 ELSE memberIdx[d]]
      /\ registered' = [d \in Comps |-> IF d = c THEN FALSE ELSE registered[d]]
  BY <1>2, <1>4 DEF Unbind, r
<1> QED
  BY <1>3, <1>4, <1>5, <1>8, <1>9 DEF r

LEMMA DeactivateKeepsIInv ==
  ASSUME IInv, NEW c \in Comps, registered[c], DeactivateMember(memberIdx[c]),
         inWorld' \in {inWorld, inWorld \ {c}}, lastSeen' = lastSeen
  PROVE  IInv'
<1> DEFINE r == memberIdx[c]
           n == Len(model.members)
<1>1. /\ r \in 1..n
      /\ model' \in Model /\ SameTopology(model, model')
      /\ ActiveRows(model') = ActiveRows(model) \ {r}
      /\ indexToComponent' = indexToComponent /\ nextMemberIdx' = nextMemberIdx
      /\ memberIdx' = [d \in Comps |-> IF d = c THEN 0 ELSE memberIdx[d]]
      /\ registered' = [d \in Comps |-> IF d = c THEN FALSE ELSE registered[d]]
      /\ Outcome(model')
      /\ timer' \in 0..DebounceTicks
      /\ pendingPatch' # <<>> => timer' > 0
  BY DeactivateOutcome
<1>2. /\ indexToComponent \in [1..n -> Comps]
      /\ memberIdx \in [Comps -> Nat] /\ registered \in [Comps -> BOOLEAN]
      /\ inWorld \in SUBSET Comps /\ lastSeen \in Nat \cup {-1}
      /\ model \in Model
  BY DEF IInv, TypeOK
<1>3. /\ \A d \in Comps : registered[d] =>
           /\ memberIdx[d] \in ActiveRows(model)
           /\ indexToComponent[memberIdx[d]] = d
      /\ \A k \in ActiveRows(model) : memberIdx[indexToComponent[k]] = k
      /\ \A d \in Comps : memberIdx[d] > 0 <=> registered[d]
  BY DEF IInv, RowsAndComponentsAgree
<1>4. ActiveRows(model) \in SUBSET (1..n) /\ Len(model'.members) = n
  BY <1>1, <1>2, ActiveRowsTyped DEF SameTopology
<1>5. indexToComponent[r] = c
  BY <1>3
<1> HIDE DEF n
<1>6. memberIdx' \in [Comps -> Nat] /\ registered' \in [Comps -> BOOLEAN]
  BY <1>1, <1>2
<1>7. RowsAndComponentsAgree'
  <2>1. ASSUME NEW d \in Comps, registered'[d]
        PROVE  memberIdx'[d] \in ActiveRows(model') /\ indexToComponent'[memberIdx'[d]] = d
    <3>1. d # c /\ registered[d] /\ memberIdx'[d] = memberIdx[d]
      BY <1>1, <2>1
    <3>2. memberIdx[d] \in ActiveRows(model) /\ indexToComponent[memberIdx[d]] = d
      BY <1>3, <3>1
    <3> QED
      BY <1>1, <1>5, <3>1, <3>2
  <2>2. ASSUME NEW k \in ActiveRows(model')
        PROVE  memberIdx'[indexToComponent'[k]] = k
    <3>1. k \in ActiveRows(model) /\ k # r
      BY <1>1
    <3>2. indexToComponent[k] \in Comps /\ memberIdx[indexToComponent[k]] = k
      BY <1>2, <1>3, <1>4, <3>1
    <3> QED
      BY <1>1, <3>1, <3>2
  <2>3. ASSUME NEW d \in Comps PROVE memberIdx'[d] > 0 <=> registered'[d]
    BY <1>1, <1>3
  <2> QED
    BY <2>1, <2>2, <2>3 DEF RowsAndComponentsAgree
<1>8. NewestRowOwns'
  <2>1. SUFFICES ASSUME NEW d \in Comps, registered'[d]
                 PROVE  /\ d \in inWorld'
                        /\ \A k \in 1..n : indexToComponent[k] = d => k <= memberIdx'[d]
    BY <1>1, <1>4 DEF NewestRowOwns
  <2>2. d # c /\ registered[d] /\ memberIdx'[d] = memberIdx[d]
    BY <1>1, <2>1
  <2> QED
    BY <2>2 DEF IInv, NewestRowOwns, n
<1>9. inWorld' \in SUBSET Comps /\ lastSeen' \in Nat \cup {-1}
  BY <1>2
<1> QED
  BY <1>1, <1>6, <1>7, <1>8, <1>9, OutcomeKeepsIInv

LEMMA SupportKeepsIInv ==
  ASSUME IInv, NEW p \in Supports, RegisterFixedSupport(p)
  PROVE  IInv'
<1>1. /\ model' = AddSupport(model, p)
      /\ UNCHANGED <<compVars, indexToComponent, nextMemberIdx, timer, bNeedsRebaseline,
                     util, attempted, lastSeen>>
  BY DEF RegisterFixedSupport
<1>2. model' \in Model /\ model'.members = model.members
  BY <1>1, AddSupportTyped, RegistryAssumption DEF IInv, TypeOK
<1>3. ActiveRows(model') = ActiveRows(model)
  BY <1>2 DEF ActiveRows
<1>4. RowsAndComponentsAgree' /\ NewestRowOwns'
  BY <1>1, <1>2, <1>3 DEF IInv, RowsAndComponentsAgree, NewestRowOwns, compVars
<1>5. CASE bSessionStarted
  <2>1. /\ bSessionStarted' = FALSE /\ engine' = NoSession
        /\ pendingPatch' = <<>> /\ pendingRank' = 0
    BY <1>5 DEF RegisterFixedSupport, EndSession, Dropped
  <2>2. EmptyModel \in Model /\ Len(EmptyModel.members) = 0
    BY DEF EmptyModel, Model
  <2>3. engine' \in [model : Model, active : SUBSET (1..Len(engine'.model.members))]
    BY <2>1, <2>2 DEF NoSession
  <2>4. pendingPatch' \in Seq(1..Len(model'.members)) /\ pendingRank' \in 0..MaxRank
    BY <2>1, RegistryAssumption
  <2>5. TypeOK'
    BY <1>1, <1>2, <2>1, <2>3, <2>4 DEF IInv, TypeOK, compVars
  <2>6. Queued' = {} /\ Len(pendingPatch') = 0
    BY <2>1, ListedEmpty DEF Queued
  <2> QED
    BY <1>4, <2>1, <2>5, <2>6
      DEF IInv, SessionFresh, SessionEnded, QueueIsScheduled, QueuedAreInactive
<1>6. CASE ~bSessionStarted
  <2>1. UNCHANGED <<bSessionStarted, engine, pendingPatch, pendingRank>>
    BY <1>6 DEF RegisterFixedSupport
  <2>2. TypeOK'
    BY <1>1, <1>2, <2>1 DEF IInv, TypeOK, compVars
  <2> QED
    BY <1>1, <1>3, <1>4, <1>6, <2>1, <2>2
      DEF IInv, SessionFresh, SessionEnded, QueueIsScheduled, QueuedAreInactive, Queued
<1> QED
  BY <1>5, <1>6

LEMMA ResetKeepsIInv ==
  ASSUME IInv, Reset
  PROVE  IInv'
<1> DEFINE bound == {indexToComponent[r] : r \in DOMAIN indexToComponent} \cap inWorld
<1>1. /\ bSessionStarted' = FALSE /\ engine' = NoSession
      /\ pendingPatch' = <<>> /\ pendingRank' = 0 /\ timer' = 0
      /\ model' = EmptyModel /\ indexToComponent' = <<>> /\ nextMemberIdx' = 1
      /\ bNeedsRebaseline' = FALSE /\ attempted' = 0
      /\ inWorld' = inWorld /\ util' = util /\ lastSeen' = lastSeen
  BY DEF Reset, EndSession, Dropped, IInv, SessionEnded
<1>2. /\ memberIdx' = [c \in Comps |-> IF c \in bound THEN 0 ELSE memberIdx[c]]
      /\ registered' = [c \in Comps |-> IF c \in bound THEN FALSE ELSE registered[c]]
  BY DEF Reset, Unbind
<1>3. EmptyModel \in Model /\ Len(EmptyModel.members) = 0 /\ ActiveRows(EmptyModel) = {}
  BY DEF EmptyModel, Model, ActiveRows
<1>4. ASSUME NEW c \in Comps, registered[c] PROVE c \in bound
  <2>1. /\ memberIdx[c] \in ActiveRows(model) /\ indexToComponent[memberIdx[c]] = c
        /\ c \in inWorld
    BY <1>4 DEF IInv, RowsAndComponentsAgree, NewestRowOwns
  <2>2. memberIdx[c] \in DOMAIN indexToComponent
    BY <2>1, ActiveRowsTyped DEF IInv, TypeOK
  <2> QED
    BY <2>1, <2>2
<1> HIDE DEF bound
<1>5. \A c \in Comps : memberIdx[c] > 0 <=> registered[c]
  BY DEF IInv, RowsAndComponentsAgree
<1>6. memberIdx \in [Comps -> Nat] /\ registered \in [Comps -> BOOLEAN]
  BY DEF IInv, TypeOK
<1>7. \A c \in Comps : memberIdx'[c] = 0 /\ ~registered'[c]
  BY <1>2, <1>4, <1>5, <1>6
<1>8. memberIdx' \in [Comps -> Nat] /\ registered' \in [Comps -> BOOLEAN]
  BY <1>2, <1>6
<1>9. TypeOK'
  <2>1. engine' \in [model : Model, active : SUBSET (1..Len(engine'.model.members))]
    BY <1>1, <1>3 DEF NoSession
  <2>2. indexToComponent' \in [1..Len(model'.members) -> Comps]
    BY <1>1, <1>3
  <2>3. pendingPatch' \in Seq(1..Len(model'.members)) /\ pendingRank' \in 0..MaxRank
    BY <1>1, RegistryAssumption
  <2>4. timer' \in 0..DebounceTicks /\ attempted' \in 0..Len(model'.members)
    BY <1>1, <1>3, RegistryAssumption
  <2>5. /\ inWorld' \in SUBSET Comps
        /\ util' \in [Comps -> [row : Nat, stressed : BOOLEAN]]
        /\ lastSeen' \in Nat \cup {-1}
    BY <1>1 DEF IInv, TypeOK
  <2>6. model' \in Model /\ Len(model'.members) = 0
    BY <1>1, <1>3
  <2>7. nextMemberIdx' = Len(model'.members) + 1
    BY <1>1, <2>6
  <2>8. bSessionStarted' \in BOOLEAN /\ bNeedsRebaseline' \in BOOLEAN
    BY <1>1
  <2> QED
    BY <1>8, <2>1, <2>2, <2>3, <2>4, <2>5, <2>6, <2>7, <2>8 DEF TypeOK
<1>10. RowsAndComponentsAgree' /\ NewestRowOwns'
  BY <1>1, <1>3, <1>7 DEF RowsAndComponentsAgree, NewestRowOwns
<1>11. Queued' = {} /\ Len(pendingPatch') = 0
  BY <1>1, ListedEmpty DEF Queued
<1>12. SessionFresh' /\ SessionEnded' /\ QueueIsScheduled' /\ QueuedAreInactive'
  BY <1>1, <1>11 DEF SessionFresh, SessionEnded, QueueIsScheduled, QueuedAreInactive
<1> QED
  BY <1>9, <1>10, <1>12 DEF IInv

LEMMA EndPlayKeepsIInv ==
  ASSUME IInv, NEW c \in Comps, EndPlay(c)
  PROVE  IInv'
<1>1. inWorld' = inWorld \ {c} /\ lastSeen' = lastSeen
  BY DEF EndPlay
<1>2. CASE registered[c] /\ memberIdx[c] > 0
  <2>1. DeactivateMember(memberIdx[c])
    BY <1>2 DEF EndPlay
  <2>2. inWorld' \in {inWorld, inWorld \ {c}}
    BY <1>1
  <2> QED
    BY <1>1, <1>2, <2>1, <2>2, DeactivateKeepsIInv
<1>3. CASE ~ (registered[c] /\ memberIdx[c] > 0)
  <2>1. UNCHANGED <<memberIdx, registered, modelVars, queueVars, solveVars>>
    BY <1>3 DEF EndPlay
  <2>2. ~registered[c]
    BY <1>3 DEF IInv, RowsAndComponentsAgree
  <2> QED
    BY <1>1, <2>1, <2>2 DEF IInv, TypeOK, RowsAndComponentsAgree, NewestRowOwns,
      SessionFresh, SessionEnded, QueueIsScheduled, QueuedAreInactive, Queued, ActiveRows,
      modelVars, queueVars, solveVars
<1> QED
  BY <1>2, <1>3

LEMMA BeginPlayKeepsIInv ==
  ASSUME IInv, NEW c \in Comps, BeginPlay(c)
  PROVE  IInv'
<1>1. inWorld' = inWorld \cup {c} /\ lastSeen' = lastSeen
  BY DEF BeginPlay
<1>2. CASE RegisterMember(c)
  BY <1>1, <1>2, RegisterKeepsIInv
<1>3. CASE UNCHANGED <<memberIdx, registered, modelVars, queueVars, solveVars>>
  BY <1>1, <1>3 DEF IInv, TypeOK, RowsAndComponentsAgree, NewestRowOwns,
    SessionFresh, SessionEnded, QueueIsScheduled, QueuedAreInactive, Queued, ActiveRows,
    modelVars, queueVars, solveVars
<1> QED
  BY <1>2, <1>3 DEF BeginPlay

\* RequestSolve with an empty patch, from Tick or a button.
LEMMA ProdKeepsIInv ==
  ASSUME IInv, RequestSolve(<<>>, model), UNCHANGED <<compVars, modelVars>>,
         lastSeen' \in Nat \cup {-1}
  PROVE  IInv' /\ Outcome(model)
<1>1. model \in Model /\ SameTopology(model, model)
  BY DEF IInv, TypeOK, SameTopology
<1>2. <<>> \in Seq(1..Len(model.members)) /\ ActiveRows(model) = ActiveRows(model) \ Listed(<<>>)
  BY ListedEmpty
<1>3. /\ Outcome(model)
      /\ timer' \in 0..DebounceTicks
      /\ pendingPatch' # <<>> => timer' > 0
  BY <1>1, <1>2, RequestOutcome
<1>4. /\ model' = model /\ indexToComponent' = indexToComponent
      /\ nextMemberIdx' = nextMemberIdx /\ inWorld' = inWorld
      /\ memberIdx' = memberIdx /\ registered' = registered
  BY DEF compVars, modelVars
<1>5. RowsAndComponentsAgree' /\ NewestRowOwns'
  BY <1>4 DEF IInv, RowsAndComponentsAgree, NewestRowOwns, ActiveRows
<1>6. /\ inWorld' \in SUBSET Comps
      /\ memberIdx' \in [Comps -> Nat] /\ registered' \in [Comps -> BOOLEAN]
  BY <1>4 DEF IInv, TypeOK
<1>7. model' \in Model /\ SameTopology(model, model') /\ Outcome(model')
  BY <1>1, <1>3, <1>4
<1> QED
  BY <1>3, <1>4, <1>5, <1>6, <1>7, OutcomeKeepsIInv

LEMMA TimerKeepsIInv ==
  ASSUME IInv, TimerTick
  PROVE  /\ IInv'
         /\ Outcome(model) \/ UNCHANGED solveVars
<1>1. /\ model' = model /\ indexToComponent' = indexToComponent
      /\ nextMemberIdx' = nextMemberIdx /\ inWorld' = inWorld
      /\ memberIdx' = memberIdx /\ registered' = registered /\ lastSeen' = lastSeen
      /\ timer' = timer - 1 /\ timer > 0
  BY DEF TimerTick, compVars, modelVars
<1>2. RowsAndComponentsAgree' /\ NewestRowOwns'
  BY <1>1 DEF IInv, RowsAndComponentsAgree, NewestRowOwns, ActiveRows
<1>3. timer' \in 0..DebounceTicks
  BY <1>1, RegistryAssumption DEF IInv, TypeOK
<1>4. CASE timer = 1
  <2>1. ExecuteSolve(pendingPatch, bNeedsRebaseline, model)
    BY <1>4 DEF TimerTick
  <2>2. /\ model \in Model /\ pendingPatch \in Seq(1..Len(model.members))
        /\ bNeedsRebaseline \in BOOLEAN
        /\ util \in [Comps -> Paint] /\ bSessionStarted \in BOOLEAN
        /\ EngineTyped /\ SessionEnded
        /\ SameTopology(model, model)
    BY DEF IInv, TypeOK, Paint, EngineTyped, SameTopology
  <2>3. /\ ActiveRows(model) \cap Listed(pendingPatch) = {}
        /\ bSessionStarted => /\ SameTopology(engine.model, model)
                              /\ ActiveRows(model) = engine.active \ Listed(pendingPatch)
    BY DEF IInv, QueuedAreInactive, SessionFresh, Queued
  <2>4. Outcome(model) /\ pendingPatch' = <<>>
    BY <2>1, <2>2, <2>3, ExecuteOutcome
  <2>5. /\ inWorld' \in SUBSET Comps
        /\ memberIdx' \in [Comps -> Nat] /\ registered' \in [Comps -> BOOLEAN]
        /\ lastSeen' \in Nat \cup {-1}
    BY <1>1 DEF IInv, TypeOK
  <2>6. model' \in Model /\ SameTopology(model, model') /\ Outcome(model')
    BY <1>1, <2>2, <2>4
  <2>7. IInv'
    BY <1>1, <1>2, <1>3, <2>4, <2>5, <2>6, OutcomeKeepsIInv
  <2> QED
    BY <2>4, <2>7
<1>5. CASE timer # 1
  <2>1. UNCHANGED <<pendingPatch, pendingRank, solveVars>>
    BY <1>5 DEF TimerTick
  <2>2. timer' > 0
    BY <1>1, <1>3, <1>5 DEF IInv, TypeOK
  <2>3. IInv'
    BY <1>1, <1>2, <1>3, <2>1, <2>2 DEF IInv, TypeOK,
      SessionFresh, SessionEnded, QueueIsScheduled, QueuedAreInactive, Queued, solveVars
  <2> QED
    BY <2>1, <2>3
<1> QED
  BY <1>4, <1>5

LEMMA InitIInv ==
  Init => IInv
<1> SUFFICES ASSUME Init PROVE IInv
  OBVIOUS
<1>1. EmptyModel \in Model /\ Len(EmptyModel.members) = 0 /\ ActiveRows(EmptyModel) = {}
  BY DEF EmptyModel, Model, ActiveRows
<1>2. engine \in [model : Model, active : SUBSET (1..Len(engine.model.members))]
  BY <1>1 DEF Init, NoSession
<1>3. indexToComponent \in [1..Len(model.members) -> Comps]
  BY <1>1 DEF Init
<1>4. pendingPatch \in Seq(1..Len(model.members)) /\ pendingRank \in 0..MaxRank
  BY RegistryAssumption DEF Init
<1>5. util \in [Comps -> [row : Nat, stressed : BOOLEAN]]
  BY DEF Init, Unpainted
<1>8. model \in Model /\ Len(model.members) = 0
  BY <1>1 DEF Init
<1>9. nextMemberIdx = Len(model.members) + 1 /\ attempted \in 0..Len(model.members)
  BY <1>8 DEF Init
<1>10. timer \in 0..DebounceTicks /\ lastSeen \in Nat \cup {-1} /\ inWorld \in SUBSET Comps
  BY RegistryAssumption DEF Init
<1>11. /\ memberIdx \in [Comps -> Nat] /\ registered \in [Comps -> BOOLEAN]
       /\ bSessionStarted \in BOOLEAN /\ bNeedsRebaseline \in BOOLEAN
  BY DEF Init
<1>6. TypeOK
  BY <1>2, <1>3, <1>4, <1>5, <1>8, <1>9, <1>10, <1>11 DEF TypeOK
<1>7. Queued = {} /\ Len(pendingPatch) = 0
  BY ListedEmpty DEF Init, Queued
<1> QED
  BY <1>1, <1>6, <1>7 DEF Init, IInv, RowsAndComponentsAgree, NewestRowOwns,
    SessionFresh, SessionEnded, QueueIsScheduled, QueuedAreInactive

\* IInv is inductive.
LEMMA StepIInv ==
  IInv /\ [Next]_vars => IInv'
<1> SUFFICES ASSUME IInv, [Next]_vars PROVE IInv'
  OBVIOUS
<1>1. ASSUME NEW c \in Comps, BeginPlay(c) PROVE IInv'
  BY <1>1, BeginPlayKeepsIInv
<1>2. ASSUME NEW c \in Comps, EndPlay(c) PROVE IInv'
  BY <1>2, EndPlayKeepsIInv
<1>3. ASSUME NEW p \in Supports, RegisterFixedSupport(p) PROVE IInv'
  BY <1>3, SupportKeepsIInv
<1>4. ASSUME NEW c \in Comps, Register(c) PROVE IInv'
  <2>1. inWorld' = inWorld \cup {c} /\ RegisterMember(c) /\ lastSeen' = lastSeen
    BY <1>4 DEF Register
  <2> QED
    BY <2>1, RegisterKeepsIInv
<1>5. ASSUME NEW c \in Comps, Deactivate(c) PROVE IInv'
  <2>1. /\ registered[c] /\ DeactivateMember(memberIdx[c])
        /\ inWorld' \in {inWorld, inWorld \ {c}} /\ lastSeen' = lastSeen
    BY <1>5 DEF Deactivate
  <2> QED
    BY <2>1, DeactivateKeepsIInv
<1>6. CASE Tick
  <2>1. RequestSolve(<<>>, model) /\ UNCHANGED <<compVars, modelVars>>
    BY <1>6 DEF Tick
  <2>2. lastSeen' = Cardinality(DOMAIN indexToComponent)
    BY <1>6 DEF Tick
  <2>3. DOMAIN indexToComponent = 1..Len(model.members) /\ Len(model.members) \in Nat
    BY DEF IInv, TypeOK, Model
  <2>4. lastSeen' \in Nat
    <3>1. IsFiniteSet(DOMAIN indexToComponent)
      BY <2>3, FS_Interval
    <3> QED
      BY <2>2, <3>1, FS_CardinalityType
  <2> QED
    BY <2>1, <2>4, ProdKeepsIInv
<1>7. CASE TimerTick
  BY <1>7, TimerKeepsIInv
<1>8. CASE SolveButton
  <2>1. RequestSolve(<<>>, model) /\ UNCHANGED <<compVars, modelVars>>
    BY <1>8 DEF SolveButton
  <2>2. lastSeen' \in Nat \cup {-1}
    BY <1>8 DEF SolveButton, IInv, TypeOK
  <2> QED
    BY <2>1, <2>2, ProdKeepsIInv
<1>9. CASE Reset
  BY <1>9, ResetKeepsIInv
<1>10. CASE UNCHANGED vars
  BY <1>10 DEF IInv, TypeOK, RowsAndComponentsAgree, NewestRowOwns, SessionFresh,
    SessionEnded, QueueIsScheduled, QueuedAreInactive, Queued, ActiveRows,
    vars, compVars, modelVars, queueVars, solveVars
<1> QED
  BY <1>1, <1>2, <1>3, <1>4, <1>5, <1>6, <1>7, <1>8, <1>9, <1>10 DEF Next, Building

\* The inductive invariant, for every level and every history of calls.
THEOREM Inductive == Spec => []IInv
<1> QED
  BY InitIInv, StepIInv, PTL DEF Spec

\* The registry's variables keep their types.
THEOREM TypeCorrect == Spec => []TypeOK
<1>1. IInv => TypeOK
  BY DEF IInv
<1> QED
  BY <1>1, Inductive, PTL

\* A component is registered exactly while it owns an active row, and every
\* active row is owned by the component the map names.
THEOREM ComponentsOwnRows == Spec => []RowsAndComponentsAgree
<1>1. IInv => RowsAndComponentsAgree
  BY DEF IInv
<1> QED
  BY <1>1, Inductive, PTL

\* A started session is a session of the current model, short of the queue.
THEOREM SessionIsFresh == Spec => []SessionFresh
<1>1. IInv => SessionFresh
  BY DEF IInv
<1> QED
  BY <1>1, Inductive, PTL

\* No removal is left in the queue without a timer that will send it.
THEOREM QueueScheduled == Spec => []QueueIsScheduled
<1>1. IInv => QueueIsScheduled
  BY DEF IInv
<1> QED
  BY <1>1, Inductive, PTL

-------------------------------------------------------------------------------
\* Nodes stay apart: FindOrAddNode appends only what nothing is near to.

Apart(nodes) ==
  \A m, n \in 1..Len(nodes) : m # n => ~Near(nodes[m].pos, nodes[n].pos)

LEMMA FindOrAddApart ==
  ASSUME NEW nodes \in Seq(Node), NEW p \in Int, Apart(nodes)
  PROVE  Apart(FindOrAddNode(nodes, p))
<1>1. CASE Hits(nodes, p) # {}
  BY <1>1 DEF FindOrAddNode
<1>2. CASE Hits(nodes, p) = {}
  <2> DEFINE new == [pos |-> p, fixed |-> FALSE]
             all == Append(nodes, new)
  <2>1. new \in Node /\ new.pos = p
    BY DEF Node
  <2>2. FindOrAddNode(nodes, p) = all
    BY <1>2 DEF FindOrAddNode
  <2> HIDE DEF new
  <2>3. /\ Len(nodes) \in Nat /\ Len(all) = Len(nodes) + 1
        /\ all[Len(nodes) + 1] = new
        /\ \A n \in 1..Len(nodes) : all[n] = nodes[n]
    BY <2>1
  <2> HIDE DEF all
  <2>4. ASSUME NEW n \in 1..Len(nodes)
        PROVE  ~Near(nodes[n].pos, p) /\ ~Near(p, nodes[n].pos)
    <3>1. nodes[n] \in Node
      OBVIOUS
    <3>2. nodes[n].pos \in Int
      BY <3>1 DEF Node
    <3>3. ~Near(nodes[n].pos, p)
      BY <1>2 DEF Hits
    <3> QED
      BY <3>2, <3>3 DEF Near
  <2>5. ASSUME NEW m \in 1..Len(all), NEW n \in 1..Len(all), m # n
        PROVE  ~Near(all[m].pos, all[n].pos)
    <3>1. CASE m \in 1..Len(nodes) /\ n \in 1..Len(nodes)
      BY <2>3, <2>5, <3>1 DEF Apart
    <3>2. CASE m = Len(nodes) + 1 /\ n \in 1..Len(nodes)
      BY <2>1, <2>3, <2>4, <3>2
    <3>3. CASE m \in 1..Len(nodes) /\ n = Len(nodes) + 1
      BY <2>1, <2>3, <2>4, <3>3
    <3> QED
      BY <2>3, <2>5, <3>1, <3>2, <3>3
  <2> QED
    BY <2>2, <2>5 DEF Apart
<1> QED
  BY <1>1, <1>2

LEMMA AddMemberApart ==
  ASSUME NEW m \in Model, NEW p \in Int, NEW q \in Int, Apart(m.nodes)
  PROVE  Apart(AddMember(m, p, q).nodes)
<1> DEFINE withI == FindOrAddNode(m.nodes, p)
<1>1. m.nodes \in Seq(Node)
  BY DEF Model
<1>2. withI \in Seq(Node) /\ Apart(withI)
  BY <1>1, FindOrAddTyped, FindOrAddApart
<1>3. AddMember(m, p, q).nodes = FindOrAddNode(withI, q)
  BY DEF AddMember
<1> HIDE DEF withI
<1> QED
  BY <1>2, <1>3, FindOrAddApart

LEMMA AddSupportApart ==
  ASSUME NEW m \in Model, NEW p \in Int, Apart(m.nodes)
  PROVE  Apart(AddSupport(m, p).nodes)
<1> DEFINE nodes == FindOrAddNode(m.nodes, p)
           n     == NodeAt(nodes, p)
           fixed == [nodes EXCEPT ![n].fixed = TRUE]
<1>1. m.nodes \in Seq(Node)
  BY DEF Model
<1>2. nodes \in Seq(Node) /\ Hits(nodes, p) # {} /\ Apart(nodes)
  BY <1>1, FindOrAddTyped, FindOrAddApart
<1>3. AddSupport(m, p).nodes = fixed
  BY DEF AddSupport, Model
<1> HIDE DEF nodes
<1>4. n \in 1..Len(nodes)
  BY <1>2, NodeAtTyped
<1>5. Len(fixed) = Len(nodes)
  BY <1>2
<1>6. ASSUME NEW k \in 1..Len(nodes) PROVE fixed[k].pos = nodes[k].pos
  <2>1. nodes[k] \in Node
    BY <1>2
  <2> QED
    BY <1>2, <2>1 DEF Node
<1> HIDE DEF fixed
<1> QED
  BY <1>2, <1>3, <1>5, <1>6 DEF Apart

LEMMA StepApart ==
  IInv /\ Apart(model.nodes) /\ [Next]_vars => Apart(model'.nodes)
<1> SUFFICES ASSUME IInv, Apart(model.nodes), [Next]_vars PROVE Apart(model'.nodes)
  OBVIOUS
<1>1. model \in Model
  BY DEF IInv, TypeOK
<1>2. ASSUME NEW c \in Comps, RegisterMember(c) PROVE Apart(model'.nodes)
  <2>1. CASE model' = model
    BY <2>1
  <2>2. CASE model' = AddMember(model, EndI[c], EndJ[c])
    BY <1>1, <2>2, AddMemberApart, RegistryAssumption
  <2> QED
    BY <1>2, <2>1, <2>2 DEF RegisterMember, modelVars
<1>3. ASSUME NEW c \in Comps, registered[c], DeactivateMember(memberIdx[c])
      PROVE  Apart(model'.nodes)
  BY <1>3, DeactivateOutcome DEF SameTopology
<1>4. ASSUME NEW p \in Supports, RegisterFixedSupport(p) PROVE Apart(model'.nodes)
  BY <1>1, <1>4, AddSupportApart, RegistryAssumption DEF RegisterFixedSupport
<1>5. CASE Reset
  <2>1. model'.nodes = <<>>
    BY <1>5 DEF Reset, EmptyModel
  <2>2. Len(<<>>) = 0
    OBVIOUS
  <2> QED
    BY <2>1, <2>2 DEF Apart
<1>6. CASE model' = model
  BY <1>6
<1> QED
  BY <1>2, <1>3, <1>4, <1>5, <1>6 DEF Next, Building, BeginPlay, EndPlay, Register,
    Deactivate, Tick, TimerTick, SolveButton, vars, modelVars

\* No two nodes of the model are within the merge tolerance.
THEOREM NodesStayApart == Spec => []NodesDistinct
<1>1. Init => Apart(model.nodes)
  <2>1. Len(<<>>) = 0
    OBVIOUS
  <2> QED
    BY <2>1 DEF Init, EmptyModel, Apart
<1>2. IInv /\ Apart(model.nodes) /\ [Next]_vars => Apart(model.nodes)'
  BY StepApart
<1>3. Apart(model.nodes) => NodesDistinct
  BY DEF Apart, NodesDistinct
<1> QED
  BY <1>1, <1>2, <1>3, Inductive, PTL DEF Spec

-------------------------------------------------------------------------------
\* A result that reaches a registered component comes from its own row.
LEMMA OutcomePaintsOwnRow ==
  ASSUME IInv, IInv', Outcome(model'), indexToComponent' = indexToComponent,
         NEW c \in Comps, registered[c], registered'[c], util'[c] # util[c]
  PROVE  util'[c] = [row |-> memberIdx'[c], stressed |-> TRUE]
<1> DEFINE r == memberIdx'[c]
<1>1. bSessionStarted' /\ pendingPatch' = <<>> /\ util' = Painted(engine')
  BY DEF Outcome
<1>2. /\ r \in ActiveRows(model') /\ indexToComponent'[r] = c
      /\ \A k \in 1..Len(model'.members) : indexToComponent'[k] = c => k <= r
  BY DEF IInv, RowsAndComponentsAgree, NewestRowOwns
<1>3. c \in inWorld
  BY DEF IInv, NewestRowOwns
<1>4. model' \in Model /\ indexToComponent' \in [1..Len(model'.members) -> Comps]
  BY DEF IInv, TypeOK
<1>5. r \in 1..Len(model'.members)
  BY <1>2, <1>4, ActiveRowsTyped
<1>6. Queued' = {}
  BY <1>1, ListedEmpty DEF Queued
<1>7. r \in engine'.active /\ Len(engine'.model.members) = Len(model'.members)
  BY <1>1, <1>2, <1>6 DEF IInv, SessionFresh, SameTopology
<1>8. engine'.model \in Model
  BY DEF Outcome, EngineTyped
<1> HIDE DEF r
<1>9. Painted(engine')[c] = [row |-> r, stressed |-> r \in engine'.active]
  BY <1>2, <1>3, <1>4, <1>5, <1>7, <1>8, PaintedNewest
<1>10. (r \in engine'.active) = TRUE
  BY <1>7
<1> QED
  BY <1>1, <1>9, <1>10 DEF r

LEMMA StepPaints ==
  ASSUME IInv, IInv', [Next]_vars, NEW c \in Comps, util'[c] # util[c], registered'[c]
  PROVE  util'[c] = [row |-> memberIdx'[c], stressed |-> TRUE]
<1>1. util' # util
  OBVIOUS
<1>2. ASSUME NEW d \in Comps, registered[d], DeactivateMember(memberIdx[d])
      PROVE  util'[c] = [row |-> memberIdx'[c], stressed |-> TRUE]
  <2>1. /\ Outcome(model') /\ indexToComponent' = indexToComponent
        /\ registered' = [e \in Comps |-> IF e = d THEN FALSE ELSE registered[e]]
    BY <1>2, DeactivateOutcome
  <2>2. registered[c]
    BY <2>1
  <2> QED
    BY <2>1, <2>2, OutcomePaintsOwnRow
<1>3. ASSUME Outcome(model), UNCHANGED <<compVars, modelVars>>
      PROVE  util'[c] = [row |-> memberIdx'[c], stressed |-> TRUE]
  <2>1. Outcome(model') /\ indexToComponent' = indexToComponent /\ registered[c]
    BY <1>3 DEF compVars, modelVars
  <2> QED
    BY <2>1, OutcomePaintsOwnRow
<1>4. CASE \E d \in Comps : EndPlay(d) \/ Deactivate(d)
  <2>1. PICK d \in Comps : registered[d] /\ DeactivateMember(memberIdx[d])
    BY <1>1, <1>4 DEF EndPlay, Deactivate, solveVars
  <2> QED
    BY <1>2, <2>1
<1>5. CASE Tick \/ SolveButton
  <2>1. RequestSolve(<<>>, model) /\ UNCHANGED <<compVars, modelVars>>
    BY <1>5 DEF Tick, SolveButton
  <2>2. lastSeen' \in Nat \cup {-1}
    BY DEF IInv, TypeOK
  <2> QED
    BY <1>3, <2>1, <2>2, ProdKeepsIInv
<1>6. CASE TimerTick
  <2>1. Outcome(model)
    BY <1>1, <1>6, TimerKeepsIInv DEF solveVars
  <2> QED
    BY <1>3, <1>6, <2>1 DEF TimerTick
<1>7. \A d \in Comps : RegisterMember(d) => util' = util
  BY DEF RegisterMember, solveVars
<1>8. ~ Reset /\ ~ UNCHANGED vars /\ \A p \in Supports : ~ RegisterFixedSupport(p)
  BY <1>1 DEF Reset, vars, solveVars, RegisterFixedSupport
<1>9. \A d \in Comps : ~ BeginPlay(d) /\ ~ Register(d)
  BY <1>1, <1>7 DEF BeginPlay, Register, solveVars
<1> QED
  BY <1>4, <1>5, <1>6, <1>8, <1>9 DEF Next, Building

\* Whatever repaints a registered component paints it from the row it owns.
THEOREM OwnRowPainted == Spec => PaintsOwnRow
<1>1. IInv /\ IInv' /\ [Next]_vars =>
        [\A c \in Comps : util'[c] # util[c] /\ registered'[c] =>
           util'[c] = [row |-> memberIdx'[c], stressed |-> TRUE]]_vars
  BY StepPaints
<1> QED
  BY <1>1, Inductive, PTL DEF Spec, PaintsOwnRow

-------------------------------------------------------------------------------
\* The refinement of EngineView.

Flags(m) == [r \in 1..Len(m.members) |-> m.members[r].active]
Seen == IF bSessionStarted THEN engine.active ELSE {0}

LEMMA FlagsTyped ==
  ASSUME NEW m \in Model
  PROVE  /\ Flags(m) \in Seq(BOOLEAN)
         /\ Len(Flags(m)) = Len(m.members)
         /\ View!On(Flags(m)) = ActiveRows(m)
<1>1. Len(m.members) \in Nat /\ m.members \in Seq(Row)
  BY DEF Model
<1>2. \A r \in 1..Len(m.members) : m.members[r] \in Row
  BY <1>1
<1>3. ASSUME NEW r \in 1..Len(m.members) PROVE m.members[r].active \in BOOLEAN
  <2>1. m.members[r] \in Row
    BY <1>2
  <2> QED
    BY <2>1 DEF Row
<1>4. Flags(m) \in [1..Len(m.members) -> BOOLEAN]
  BY <1>3 DEF Flags
<1>5. Flags(m) \in Seq(BOOLEAN) /\ Len(Flags(m)) = Len(m.members)
  BY <1>1, <1>4
<1>6. \A r \in 1..Len(m.members) : Flags(m)[r] = m.members[r].active
  BY DEF Flags
<1> QED
  BY <1>5, <1>6 DEF View!On, ActiveRows

LEMMA AppendIs ==
  ASSUME NEW S, NEW a \in Seq(S), NEW b \in Seq(S), NEW e \in S,
         Len(b) = Len(a) + 1, \A r \in 1..Len(a) : b[r] = a[r], b[Len(a) + 1] = e
  PROVE  b = Append(a, e)
OBVIOUS

\* After a solve was asked for, the engine's view is what it was or the frame.
LEMMA OutcomeLooks ==
  ASSUME Outcome(model')
  PROVE  Seen' = Seen \/ Seen' \in {ActiveRows(model'), {0}}
BY DEF Outcome, Seen

LEMMA RegisterGrows ==
  ASSUME IInv, NEW c \in Comps, RegisterMember(c)
  PROVE  \/ Flags(model') = Append(Flags(model), TRUE) /\ Seen' = {0}
         \/ Flags(model') = Flags(model) /\ Seen' = Seen
<1>1. CASE registered[c] \/ Rejected(c)
  BY <1>1 DEF RegisterMember, modelVars, solveVars, Seen
<1>2. CASE ~ (registered[c] \/ Rejected(c))
  <2> DEFINE n == Len(model.members)
  <2>1. model \in Model /\ EndI[c] \in Int /\ EndJ[c] \in Int
    BY RegistryAssumption DEF IInv, TypeOK
  <2>2. model' = AddMember(model, EndI[c], EndJ[c]) /\ bSessionStarted' = FALSE
    BY <1>2 DEF RegisterMember, EndSession
  <2>3. /\ model' \in Model
        /\ Len(model'.members) = n + 1
        /\ \A r \in 1..n : model'.members[r] = model.members[r]
        /\ model'.members[n + 1].active = TRUE
    BY <2>1, <2>2, AddMemberTyped
  <2>4. /\ Flags(model) \in Seq(BOOLEAN) /\ Len(Flags(model)) = n
        /\ Flags(model') \in Seq(BOOLEAN) /\ Len(Flags(model')) = n + 1
    BY <2>1, <2>3, FlagsTyped
  <2>6. n \in Nat
    BY <2>1 DEF Model
  <2>7. \A r \in 1..n : Flags(model')[r] = Flags(model)[r]
    BY <2>3, <2>6 DEF Flags
  <2>8. Flags(model')[n + 1] = TRUE
    BY <2>3, <2>6 DEF Flags
  <2>9. Seen' = {0}
    BY <2>2 DEF Seen
  <2> HIDE DEF n
  <2>11. Flags(model') = Append(Flags(model), TRUE)
    <3>1. TRUE \in BOOLEAN
      OBVIOUS
    <3>2. /\ Len(Flags(model')) = Len(Flags(model)) + 1
          /\ \A r \in 1..Len(Flags(model)) : Flags(model')[r] = Flags(model)[r]
          /\ Flags(model')[Len(Flags(model)) + 1] = TRUE
      BY <2>4, <2>7, <2>8, Zenon
    <3> QED
      BY <2>4, <3>1, <3>2, AppendIs, Zenon
  <2> QED
    BY <2>9, <2>11
<1> QED
  BY <1>1, <1>2

LEMMA DeactivateRemoves ==
  ASSUME IInv, NEW c \in Comps, registered[c], DeactivateMember(memberIdx[c])
  PROVE  /\ \E r \in 1..Len(Flags(model)) :
              Flags(model') = [Flags(model) EXCEPT ![r] = FALSE]
         /\ Seen' = Seen \/ Seen' \in {View!On(Flags(model')), {0}}
<1> DEFINE r == memberIdx[c]
           n == Len(model.members)
<1>1. /\ r \in 1..n
      /\ model' \in Model /\ SameTopology(model, model')
      /\ \A k \in 1..n : model'.members[k].active = (model.members[k].active /\ k # r)
      /\ Outcome(model')
  BY DeactivateOutcome
<1>2. model \in Model /\ Len(model'.members) = n
  BY <1>1 DEF IInv, TypeOK, SameTopology
<1>3. Len(Flags(model)) = n /\ View!On(Flags(model')) = ActiveRows(model')
  BY <1>1, <1>2, FlagsTyped
<1> HIDE DEF r, n
<1>4. Flags(model') = [k \in 1..n |-> model'.members[k].active]
  BY <1>2 DEF Flags
<1>5. ASSUME NEW k \in 1..n
      PROVE  model'.members[k].active = IF k = r THEN FALSE ELSE model.members[k].active
  <2>1. CASE k = r
    BY <1>1, <2>1
  <2>2. CASE k # r
    <3>1. (k # r) = TRUE
      BY <2>2
    <3>2. model.members[k] \in Row
      BY <1>2 DEF Model, n
    <3>3. model.members[k].active \in BOOLEAN
      BY <3>2 DEF Row
    <3> QED
      BY <1>1, <2>2, <3>1, <3>3
  <2> QED
    BY <2>1, <2>2
<1>6. [Flags(model) EXCEPT ![r] = FALSE] =
        [k \in 1..n |-> IF k = r THEN FALSE ELSE model.members[k].active]
  BY <1>1 DEF Flags, n
<1>7. Flags(model') = [Flags(model) EXCEPT ![r] = FALSE]
  BY <1>4, <1>5, <1>6
<1> QED
  BY <1>1, <1>3, <1>7, OutcomeLooks

\* Every step is a step of EngineView or leaves its variables alone.
LEMMA StepRefines ==
  ASSUME IInv, [Next]_vars
  PROVE  \/ Flags(model') = Append(Flags(model), TRUE) /\ Seen' = {0}
         \/ /\ \E r \in 1..Len(Flags(model)) :
                 Flags(model') = [Flags(model) EXCEPT ![r] = FALSE]
            /\ Seen' = Seen \/ Seen' \in {View!On(Flags(model')), {0}}
         \/ Flags(model') = Flags(model) /\ Seen' \in {View!On(Flags(model')), {0}}
         \/ Flags(model') = <<>> /\ Seen' = {0}
         \/ Flags(model') = Flags(model) /\ Seen' = Seen
<1> DEFINE Goal ==
         \/ Flags(model') = Append(Flags(model), TRUE) /\ Seen' = {0}
         \/ /\ \E r \in 1..Len(Flags(model)) :
                 Flags(model') = [Flags(model) EXCEPT ![r] = FALSE]
            /\ Seen' = Seen \/ Seen' \in {View!On(Flags(model')), {0}}
         \/ Flags(model') = Flags(model) /\ Seen' \in {View!On(Flags(model')), {0}}
         \/ Flags(model') = <<>> /\ Seen' = {0}
         \/ Flags(model') = Flags(model) /\ Seen' = Seen
<1> SUFFICES Goal
  OBVIOUS
<1>1. ASSUME NEW c \in Comps, RegisterMember(c) PROVE Goal
  BY <1>1, RegisterGrows
<1>2. ASSUME NEW c \in Comps, registered[c], DeactivateMember(memberIdx[c]) PROVE Goal
  BY <1>2, DeactivateRemoves
<1>3. ASSUME Outcome(model), model' = model PROVE Goal
  <2>1. View!On(Flags(model')) = ActiveRows(model') /\ Outcome(model')
    BY <1>3, FlagsTyped DEF IInv, TypeOK
  <2>2. Seen' = Seen \/ Seen' \in {View!On(Flags(model')), {0}}
    BY <2>1, OutcomeLooks
  <2> QED
    BY <1>3, <2>2
<1>4. ASSUME model' = model, UNCHANGED <<bSessionStarted, engine>> PROVE Goal
  BY <1>4 DEF Seen
<1>5. ASSUME NEW p \in Supports, RegisterFixedSupport(p) PROVE Goal
  <2>1. model'.members = model.members
    BY <1>5, AddSupportTyped, RegistryAssumption DEF RegisterFixedSupport, IInv, TypeOK
  <2>2. Flags(model') = Flags(model)
    BY <2>1 DEF Flags
  <2>3. Seen' = {0} \/ Seen' = Seen
    BY <1>5 DEF RegisterFixedSupport, EndSession, Seen
  <2> QED
    BY <2>2, <2>3
<1>6. CASE Reset
  <2>1. model' = EmptyModel /\ Seen' = {0}
    BY <1>6 DEF Reset, EndSession, Seen
  <2>2. Flags(EmptyModel) = <<>>
    BY DEF Flags, EmptyModel
  <2> QED
    BY <2>1, <2>2
<1>7. CASE \E c \in Comps : BeginPlay(c) \/ Register(c)
  BY <1>1, <1>4, <1>7 DEF BeginPlay, Register, modelVars, solveVars
<1>8. CASE \E c \in Comps : EndPlay(c) \/ Deactivate(c)
  BY <1>2, <1>4, <1>8 DEF EndPlay, Deactivate, modelVars, solveVars
<1>9. CASE Tick \/ SolveButton
  <2>1. RequestSolve(<<>>, model) /\ UNCHANGED <<compVars, modelVars>>
    BY <1>9 DEF Tick, SolveButton
  <2>2. lastSeen' \in Nat \cup {-1}
    <3>1. IInv'
      BY StepIInv
    <3> QED
      BY <3>1 DEF IInv, TypeOK
  <2> QED
    BY <1>3, <2>1, <2>2, ProdKeepsIInv DEF modelVars
<1>10. CASE TimerTick
  <2>1. model' = model
    BY <1>10 DEF TimerTick, modelVars
  <2>2. Outcome(model) \/ UNCHANGED solveVars
    BY <1>10, TimerKeepsIInv
  <2> QED
    BY <1>3, <1>4, <2>1, <2>2 DEF solveVars
<1>11. CASE UNCHANGED vars
  BY <1>4, <1>11 DEF vars, modelVars, solveVars
<1> HIDE DEF Goal
<1>13. CASE Building
  BY <1>5, <1>7, <1>8, <1>13 DEF Building
<1>14. CASE \E c \in Comps : Register(c) \/ Deactivate(c)
  BY <1>7, <1>8, <1>14
<1> QED
  BY <1>6, <1>9, <1>10, <1>11, <1>13, <1>14 DEF Next

\* The registry and its session implement EngineView: whatever changes the
\* engine's view of the frame makes it the present frame, or nothing.
THEOREM RegistryRefinesView == Spec => RefinesView
<1>1. Init => View!Init
  <2> SUFFICES ASSUME Init PROVE View!Init
    OBVIOUS
  <2>1. Flags(EmptyModel) = <<>>
    BY DEF Flags, EmptyModel
  <2>2. [r \in 1..Len(model.members) |-> model.members[r].active] = <<>>
    BY <2>1 DEF Init, Flags
  <2>3. (IF bSessionStarted THEN engine.active ELSE {0}) = {0}
    BY DEF Init
  <2> QED
    BY <2>2, <2>3 DEF View!Init, View!NoView
<1>2. IInv /\ [Next]_vars => [View!Next]_(View!vars)
  <2> SUFFICES ASSUME IInv, [Next]_vars PROVE [View!Next]_(View!vars)
    OBVIOUS
  <2> QED
    BY StepRefines DEF Flags, Seen, View!Next, View!Grow, View!Remove, View!Refresh,
      View!Clear, View!Look, View!NoView, View!vars
<1> QED
  BY <1>1, <1>2, Inductive, PTL DEF Spec, RefinesView, View!Spec
-------------------------------------------------------------------------------
(* Persistence: a slot holds the whole of a frame.                          *)

\* What a slot keeps of a member: it is on, and one of the level's components.
Kept == {rec \in Rec : rec.active = TRUE /\ \E c \in Comps : rec.i = EndI[c] /\ rec.j = EndJ[c]}

LEMMA KeptEnds ==
  ASSUME NEW rec \in Kept
  PROVE  rec.i \in Int /\ rec.j \in Int
BY DEF Kept, Rec

\* The replay of the members: the model after each of them.
LEMMA MembersByOne ==
  ASSUME NEW m \in Model, NEW recs \in Seq(Kept)
  PROVE  \E after \in [0..Len(recs) -> Model] :
           /\ after[0] = m
           /\ \A k \in 1..Len(recs) : after[k] = AddMember(after[k - 1], recs[k].i, recs[k].j)
           /\ ReplayMembers(m, recs) = after[Len(recs)]
<1> DEFINE n == Len(recs)
           D == Model
           body(iter) == [S \in SUBSET DOMAIN recs |->
                            IF S = {} THEN m
                            ELSE AddMember(iter[S \ {Max(S)}], recs[Max(S)].i, recs[Max(S)].j)]
           step == [x \in D \X (1..n) |-> AddMember(x[1], recs[x[2]].i, recs[x[2]].j)]
           chosen == CHOOSE iter : iter = body(iter)
<1>1. n \in Nat /\ DOMAIN recs = 1..n /\ \A k \in 1..n : recs[k] \in Kept
  OBVIOUS
<1>2. /\ step \in StepsIn(n, D)
      /\ \A x \in D, k \in 1..n : step[<<x, k>>] = AddMember(x, recs[k].i, recs[k].j)
  <2>1. ASSUME NEW x \in D \X (1..n) PROVE AddMember(x[1], recs[x[2]].i, recs[x[2]].j) \in D
    <3>1. x[1] \in D /\ recs[x[2]] \in Kept
      BY <1>1
    <3> QED
      BY <3>1, KeptEnds, AddMemberTyped
  <2> QED
    BY <2>1 DEF StepsIn
<1>3. \A S \in SUBSET (1..n) : S # {} => Max(S) \in S /\ Max(S) \in 1..n
  BY <1>1, LastOf
<1>4. ReplayMembers(m, recs) = chosen[1..n]
  BY <1>1 DEF ReplayMembers, FoldLeft, MapThenFoldSet
<1>5. m \in D
  OBVIOUS
<1> HIDE DEF step, n, D
<1>6. chosen = body(chosen)
  <2>1. PICK iter : IsFold(iter, n, D, m, step)
    BY <1>1, <1>2, <1>5, FoldExists
  <2>2. iter = body(iter)
    BY <1>1, <1>2, <1>3, <2>1 DEF IsFold
  <2> HIDE DEF body
  <2> QED
    BY <2>2
<1> HIDE DEF chosen
<1>7. PICK after : ValuesOf(after, n, D, m, step) /\ after[n] = chosen[1..n]
  <2>1. chosen[{}] = m
    BY <1>1, <1>6
  <2>2. \A S \in SUBSET (1..n) :
          S # {} /\ chosen[S \ {Max(S)}] \in D =>
            chosen[S] = step[<<chosen[S \ {Max(S)}], Max(S)>>]
    <3> SUFFICES ASSUME NEW S \in SUBSET (1..n), S # {}, chosen[S \ {Max(S)}] \in D
                 PROVE  chosen[S] = step[<<chosen[S \ {Max(S)}], Max(S)>>]
      OBVIOUS
    <3>1. chosen[S] = AddMember(chosen[S \ {Max(S)}], recs[Max(S)].i, recs[Max(S)].j)
      BY <1>1, <1>6
    <3> QED
      BY <1>2, <1>3, <3>1
  <2>3. FoldsOn(chosen, n, D, m, step)
    BY <2>1, <2>2 DEF FoldsOn
  <2> QED
    BY <1>1, <1>2, <1>5, <2>3, FoldInOrder
<1>8. \A k \in 1..n : after[k] = AddMember(after[k - 1], recs[k].i, recs[k].j)
  <2> SUFFICES ASSUME NEW k \in 1..n PROVE after[k] = AddMember(after[k - 1], recs[k].i, recs[k].j)
    OBVIOUS
  <2>1. after[k - 1] \in D /\ after[k] = step[<<after[k - 1], k>>]
    BY <1>1, <1>7 DEF ValuesOf
  <2> QED
    BY <1>2, <2>1
<1>9. after \in [0..n -> D] /\ after[0] = m /\ ReplayMembers(m, recs) = after[n]
  BY <1>4, <1>7 DEF ValuesOf
<1> QED
  BY <1>8, <1>9 DEF n, D

\* That of supports.
LEMMA SupportsByOne ==
  ASSUME NEW m \in Model, NEW places \in Seq(Int)
  PROVE  \E after \in [0..Len(places) -> Model] :
           /\ after[0] = m
           /\ \A k \in 1..Len(places) : after[k] = AddSupport(after[k - 1], places[k])
           /\ ReplaySupports(m, places) = after[Len(places)]
<1> DEFINE n == Len(places)
           D == Model
           body(iter) == [S \in SUBSET DOMAIN places |->
                            IF S = {} THEN m
                            ELSE AddSupport(iter[S \ {Max(S)}], places[Max(S)])]
           step == [x \in D \X (1..n) |-> AddSupport(x[1], places[x[2]])]
           chosen == CHOOSE iter : iter = body(iter)
<1>1. n \in Nat /\ DOMAIN places = 1..n /\ \A k \in 1..n : places[k] \in Int
  OBVIOUS
<1>2. /\ step \in StepsIn(n, D)
      /\ \A x \in D, k \in 1..n : step[<<x, k>>] = AddSupport(x, places[k])
  <2>1. ASSUME NEW x \in D \X (1..n) PROVE AddSupport(x[1], places[x[2]]) \in D
    <3>1. x[1] \in D /\ places[x[2]] \in Int
      BY <1>1
    <3> QED
      BY <3>1, AddSupportTyped
  <2> QED
    BY <2>1 DEF StepsIn
<1>3. \A S \in SUBSET (1..n) : S # {} => Max(S) \in S /\ Max(S) \in 1..n
  BY <1>1, LastOf
<1>4. ReplaySupports(m, places) = chosen[1..n]
  BY <1>1 DEF ReplaySupports, FoldLeft, MapThenFoldSet
<1>5. m \in D
  OBVIOUS
<1> HIDE DEF step, n, D
<1>6. chosen = body(chosen)
  <2>1. PICK iter : IsFold(iter, n, D, m, step)
    BY <1>1, <1>2, <1>5, FoldExists
  <2>2. iter = body(iter)
    BY <1>1, <1>2, <1>3, <2>1 DEF IsFold
  <2> HIDE DEF body
  <2> QED
    BY <2>2
<1> HIDE DEF chosen
<1>7. PICK after : ValuesOf(after, n, D, m, step) /\ after[n] = chosen[1..n]
  <2>1. chosen[{}] = m
    BY <1>1, <1>6
  <2>2. \A S \in SUBSET (1..n) :
          S # {} /\ chosen[S \ {Max(S)}] \in D =>
            chosen[S] = step[<<chosen[S \ {Max(S)}], Max(S)>>]
    <3> SUFFICES ASSUME NEW S \in SUBSET (1..n), S # {}, chosen[S \ {Max(S)}] \in D
                 PROVE  chosen[S] = step[<<chosen[S \ {Max(S)}], Max(S)>>]
      OBVIOUS
    <3>1. chosen[S] = AddSupport(chosen[S \ {Max(S)}], places[Max(S)])
      BY <1>1, <1>6
    <3> QED
      BY <1>2, <1>3, <3>1
  <2>3. FoldsOn(chosen, n, D, m, step)
    BY <2>1, <2>2 DEF FoldsOn
  <2> QED
    BY <1>1, <1>2, <1>5, <2>3, FoldInOrder
<1>8. \A k \in 1..n : after[k] = AddSupport(after[k - 1], places[k])
  <2> SUFFICES ASSUME NEW k \in 1..n PROVE after[k] = AddSupport(after[k - 1], places[k])
    OBVIOUS
  <2>1. after[k - 1] \in D /\ after[k] = step[<<after[k - 1], k>>]
    BY <1>1, <1>7 DEF ValuesOf
  <2> QED
    BY <1>2, <2>1
<1>9. after \in [0..n -> D] /\ after[0] = m /\ ReplaySupports(m, places) = after[n]
  BY <1>4, <1>7 DEF ValuesOf
<1> QED
  BY <1>8, <1>9 DEF n, D

\* The corners of a shell.
LEMMA CornersByOne ==
  ASSUME NEW nodes \in Seq(Node), NEW corners \in Seq(Int)
  PROVE  \E after \in [0..Len(corners) -> Seq(Node)] :
           /\ after[0] = nodes
           /\ \A k \in 1..Len(corners) : after[k] = FindOrAddNode(after[k - 1], corners[k])
           /\ FoldLeft(FindOrAddNode, nodes, corners) = after[Len(corners)]
<1> DEFINE n == Len(corners)
           D == Seq(Node)
           body(iter) == [S \in SUBSET DOMAIN corners |->
                            IF S = {} THEN nodes
                            ELSE FindOrAddNode(iter[S \ {Max(S)}], corners[Max(S)])]
           step == [x \in D \X (1..n) |-> FindOrAddNode(x[1], corners[x[2]])]
           chosen == CHOOSE iter : iter = body(iter)
<1>1. n \in Nat /\ DOMAIN corners = 1..n /\ \A k \in 1..n : corners[k] \in Int
  OBVIOUS
<1>2. /\ step \in StepsIn(n, D)
      /\ \A x \in D, k \in 1..n : step[<<x, k>>] = FindOrAddNode(x, corners[k])
  <2>1. ASSUME NEW x \in D \X (1..n) PROVE FindOrAddNode(x[1], corners[x[2]]) \in D
    <3>1. x[1] \in D /\ corners[x[2]] \in Int
      BY <1>1
    <3> QED
      BY <3>1, FindOrAddTyped
  <2> QED
    BY <2>1 DEF StepsIn
<1>3. \A S \in SUBSET (1..n) : S # {} => Max(S) \in S /\ Max(S) \in 1..n
  BY <1>1, LastOf
<1>4. FoldLeft(FindOrAddNode, nodes, corners) = chosen[1..n]
  BY <1>1 DEF FoldLeft, MapThenFoldSet
<1>5. nodes \in D
  OBVIOUS
<1> HIDE DEF step, n, D
<1>6. chosen = body(chosen)
  <2>1. PICK iter : IsFold(iter, n, D, nodes, step)
    BY <1>1, <1>2, <1>5, FoldExists
  <2>2. iter = body(iter)
    BY <1>1, <1>2, <1>3, <2>1 DEF IsFold
  <2> HIDE DEF body
  <2> QED
    BY <2>2
<1> HIDE DEF chosen
<1>7. PICK after : ValuesOf(after, n, D, nodes, step) /\ after[n] = chosen[1..n]
  <2>1. chosen[{}] = nodes
    BY <1>1, <1>6
  <2>2. \A S \in SUBSET (1..n) :
          S # {} /\ chosen[S \ {Max(S)}] \in D =>
            chosen[S] = step[<<chosen[S \ {Max(S)}], Max(S)>>]
    <3> SUFFICES ASSUME NEW S \in SUBSET (1..n), S # {}, chosen[S \ {Max(S)}] \in D
                 PROVE  chosen[S] = step[<<chosen[S \ {Max(S)}], Max(S)>>]
      OBVIOUS
    <3>1. chosen[S] = FindOrAddNode(chosen[S \ {Max(S)}], corners[Max(S)])
      BY <1>1, <1>6
    <3> QED
      BY <1>2, <1>3, <3>1
  <2>3. FoldsOn(chosen, n, D, nodes, step)
    BY <2>1, <2>2 DEF FoldsOn
  <2> QED
    BY <1>1, <1>2, <1>5, <2>3, FoldInOrder
<1>8. \A k \in 1..n : after[k] = FindOrAddNode(after[k - 1], corners[k])
  <2> SUFFICES ASSUME NEW k \in 1..n PROVE after[k] = FindOrAddNode(after[k - 1], corners[k])
    OBVIOUS
  <2>1. after[k - 1] \in D /\ after[k] = step[<<after[k - 1], k>>]
    BY <1>1, <1>7 DEF ValuesOf
  <2> QED
    BY <1>2, <2>1
<1>9. after \in [0..n -> D] /\ after[0] = nodes /\ FoldLeft(FindOrAddNode, nodes, corners) = after[n]
  BY <1>4, <1>7 DEF ValuesOf
<1> QED
  BY <1>8, <1>9 DEF n, D

\* Nodes are only added, and keep their places.
Grows(a, b) == Len(a) <= Len(b) /\ \A k \in 1..Len(a) : b[k].pos = a[k].pos

LEMMA GrowsTrans ==
  ASSUME NEW a \in Seq(Node), NEW b \in Seq(Node), NEW c \in Seq(Node), Grows(a, b), Grows(b, c)
  PROVE  Grows(a, c)
<1>1. Len(a) \in Nat /\ Len(b) \in Nat /\ Len(c) \in Nat
  OBVIOUS
<1>2. \A k \in 1..Len(a) : k \in 1..Len(b)
  BY <1>1 DEF Grows
<1> QED
  BY <1>1, <1>2 DEF Grows

LEMMA HitsStay ==
  ASSUME NEW a \in Seq(Node), NEW b \in Seq(Node), Grows(a, b), NEW p, Hits(a, p) # {}
  PROVE  Hits(b, p) # {}
<1>1. Len(a) \in Nat /\ Len(b) \in Nat
  OBVIOUS
<1>2. PICK n \in 1..Len(a) : Near(a[n].pos, p)
  BY DEF Hits
<1>3. n \in 1..Len(b) /\ b[n].pos = a[n].pos
  BY <1>1, <1>2 DEF Grows
<1>4. n \in Hits(b, p)
  BY <1>2, <1>3 DEF Hits
<1> QED
  BY <1>4

LEMMA FindOrAddGrows ==
  ASSUME NEW nodes \in Seq(Node), NEW p \in Int
  PROVE  Grows(nodes, FindOrAddNode(nodes, p))
<1> DEFINE new == [pos |-> p, fixed |-> FALSE]
<1>1. new \in Node /\ Len(nodes) \in Nat
  BY DEF Node
<1> HIDE DEF new
<1>2. CASE FindOrAddNode(nodes, p) = nodes
  BY <1>1, <1>2 DEF Grows
<1>3. CASE FindOrAddNode(nodes, p) = Append(nodes, new)
  <2>1. /\ Len(Append(nodes, new)) = Len(nodes) + 1
        /\ \A k \in 1..Len(nodes) : Append(nodes, new)[k] = nodes[k]
    BY <1>1
  <2> QED
    BY <1>1, <1>3, <2>1 DEF Grows
<1> QED
  BY <1>2, <1>3 DEF FindOrAddNode, new

LEMMA AddMemberGrows ==
  ASSUME NEW m \in Model, NEW p \in Int, NEW q \in Int
  PROVE  Grows(m.nodes, AddMember(m, p, q).nodes)
<1> DEFINE withI == FindOrAddNode(m.nodes, p)
<1>1. m.nodes \in Seq(Node)
  BY DEF Model
<1>2. withI \in Seq(Node) /\ FindOrAddNode(withI, q) \in Seq(Node)
  BY <1>1, FindOrAddTyped
<1>3. Grows(m.nodes, withI) /\ Grows(withI, FindOrAddNode(withI, q))
  BY <1>1, <1>2, FindOrAddGrows
<1>4. AddMember(m, p, q).nodes = FindOrAddNode(withI, q)
  BY DEF AddMember
<1> QED
  BY <1>1, <1>2, <1>3, <1>4, GrowsTrans

LEMMA AddSupportGrows ==
  ASSUME NEW m \in Model, NEW p \in Int
  PROVE  Grows(m.nodes, AddSupport(m, p).nodes)
<1> DEFINE nodes == FindOrAddNode(m.nodes, p)
           n     == NodeAt(nodes, p)
           fixed == [nodes EXCEPT ![n].fixed = TRUE]
<1>1. m.nodes \in Seq(Node)
  BY DEF Model
<1>2. nodes \in Seq(Node) /\ Hits(nodes, p) # {} /\ Grows(m.nodes, nodes)
  BY <1>1, FindOrAddTyped, FindOrAddGrows
<1>3. AddSupport(m, p).nodes = fixed
  BY DEF AddSupport, Model
<1> HIDE DEF nodes
<1>4. n \in 1..Len(nodes)
  BY <1>2, NodeAtTyped
<1>5. Len(fixed) = Len(nodes) /\ \A k \in 1..Len(nodes) : fixed[k].pos = nodes[k].pos
  <2> DEFINE new == [nodes[n] EXCEPT !.fixed = TRUE]
  <2>1. nodes[n] \in Node
    BY <1>2, <1>4
  <2>2. new \in Node /\ new.pos = nodes[n].pos
    BY <2>1 DEF Node
  <2>3. fixed = [nodes EXCEPT ![n] = new]
    OBVIOUS
  <2> HIDE DEF new, n, fixed
  <2> QED
    BY <1>2, <1>4, <2>2, <2>3
<1>6. Grows(nodes, fixed)
  <2> HIDE DEF fixed
  <2> QED
    BY <1>2, <1>5 DEF Grows
<1>7. fixed \in Seq(Node)
  <2>1. AddSupport(m, p) \in Model
    BY AddSupportTyped
  <2> QED
    BY <1>3, <2>1 DEF Model
<1> HIDE DEF fixed
<1> QED
  BY <1>1, <1>2, <1>3, <1>6, <1>7, GrowsTrans

\* Each corner finds its node, once they are all there.
LEMMA CornersFound ==
  ASSUME NEW nodes \in Seq(Node), NEW corners \in Seq(Int)
  PROVE  LET all == FoldLeft(FindOrAddNode, nodes, corners) IN
         /\ all \in Seq(Node) /\ Grows(nodes, all)
         /\ \A c \in 1..Len(corners) : Hits(all, corners[c]) # {}
<1> DEFINE n == Len(corners)
<1>1. PICK after \in [0..n -> Seq(Node)] :
        /\ after[0] = nodes
        /\ \A k \in 1..n : after[k] = FindOrAddNode(after[k - 1], corners[k])
        /\ FoldLeft(FindOrAddNode, nodes, corners) = after[n]
  BY CornersByOne
<1>2. n \in Nat /\ \A k \in 1..n : corners[k] \in Int /\ k \in 0..n /\ k - 1 \in 0..n
  OBVIOUS
<1> DEFINE P == {k \in 0..n : /\ Grows(nodes, after[k])
                              /\ \A c \in 1..k : Hits(after[k], corners[c]) # {}}
<1>3. 0 \in P
  <2>1. Grows(nodes, nodes) /\ 1..0 = {}
    BY DEF Grows
  <2> QED
    BY <1>1, <1>2, <2>1
<1>4. ASSUME NEW k \in 1..n, k - 1 \in P PROVE k \in P
  <2>1. /\ after[k - 1] \in Seq(Node) /\ after[k] \in Seq(Node) /\ corners[k] \in Int
        /\ after[k] = FindOrAddNode(after[k - 1], corners[k])
    BY <1>1, <1>2
  <2>2. Grows(after[k - 1], after[k]) /\ Hits(after[k], corners[k]) # {}
    BY <2>1, FindOrAddGrows, FindOrAddTyped
  <2>3. Grows(nodes, after[k])
    BY <1>4, <2>1, <2>2, GrowsTrans
  <2>4. ASSUME NEW c \in 1..k PROVE Hits(after[k], corners[c]) # {}
    <3>1. CASE c = k
      BY <2>2, <3>1
    <3>2. CASE c # k
      <4>1. c \in 1..(k - 1)
        BY <1>2, <3>2
      <4>2. Hits(after[k - 1], corners[c]) # {}
        BY <1>4, <4>1
      <4> QED
        BY <2>1, <2>2, <4>2, HitsStay
    <3> QED
      BY <3>1, <3>2
  <2> QED
    BY <1>2, <2>3, <2>4
<1>5. 0..n \subseteq P
  <2> HIDE DEF P, n
  <2> QED
    BY <1>2, <1>3, <1>4, Ascent
<1>6. n \in 0..n
  BY <1>2
<1> QED
  BY <1>1, <1>5, <1>6

LEMMA AddCornersTyped ==
  ASSUME NEW m \in Model, NEW corners \in Seq(Int)
  PROVE  /\ AddCorners(m, corners) \in Model
         /\ AddCorners(m, corners).members = m.members
         /\ Grows(m.nodes, AddCorners(m, corners).nodes)
         /\ \A c \in 1..Len(corners) : Hits(AddCorners(m, corners).nodes, corners[c]) # {}
<1> DEFINE all == FoldLeft(FindOrAddNode, m.nodes, corners)
<1>1. m.nodes \in Seq(Node) /\ m = [nodes |-> m.nodes, members |-> m.members]
  BY DEF Model
<1>2. /\ all \in Seq(Node) /\ Grows(m.nodes, all)
      /\ \A c \in 1..Len(corners) : Hits(all, corners[c]) # {}
  BY <1>1, CornersFound
<1>3. AddCorners(m, corners) = [m EXCEPT !.nodes = all]
  BY DEF AddCorners
<1> HIDE DEF all
<1>4. AddCorners(m, corners) = [nodes |-> all, members |-> m.members]
  BY <1>1, <1>3
<1> QED
  BY <1>2, <1>4 DEF Model

\* The shells.
LEMMA ShellsByOne ==
  ASSUME NEW m \in Model, NEW shells \in Seq(Seq(Int))
  PROVE  \E after \in [0..Len(shells) -> Model] :
           /\ after[0] = m
           /\ \A k \in 1..Len(shells) : after[k] = AddCorners(after[k - 1], shells[k])
           /\ ReplayShells(m, shells) = after[Len(shells)]
<1> DEFINE n == Len(shells)
           D == Model
           body(iter) == [S \in SUBSET DOMAIN shells |->
                            IF S = {} THEN m
                            ELSE AddCorners(iter[S \ {Max(S)}], shells[Max(S)])]
           step == [x \in D \X (1..n) |-> AddCorners(x[1], shells[x[2]])]
           chosen == CHOOSE iter : iter = body(iter)
<1>1. n \in Nat /\ DOMAIN shells = 1..n /\ \A k \in 1..n : shells[k] \in Seq(Int)
  OBVIOUS
<1>2. /\ step \in StepsIn(n, D)
      /\ \A x \in D, k \in 1..n : step[<<x, k>>] = AddCorners(x, shells[k])
  <2>1. ASSUME NEW x \in D \X (1..n) PROVE AddCorners(x[1], shells[x[2]]) \in D
    <3>1. x[1] \in D /\ shells[x[2]] \in Seq(Int)
      BY <1>1
    <3> QED
      BY <3>1, AddCornersTyped
  <2> QED
    BY <2>1 DEF StepsIn
<1>3. \A S \in SUBSET (1..n) : S # {} => Max(S) \in S /\ Max(S) \in 1..n
  BY <1>1, LastOf
<1>4. ReplayShells(m, shells) = chosen[1..n]
  BY <1>1 DEF ReplayShells, FoldLeft, MapThenFoldSet
<1>5. m \in D
  OBVIOUS
<1> HIDE DEF step, n, D
<1>6. chosen = body(chosen)
  <2>1. PICK iter : IsFold(iter, n, D, m, step)
    BY <1>1, <1>2, <1>5, FoldExists
  <2>2. iter = body(iter)
    BY <1>1, <1>2, <1>3, <2>1 DEF IsFold
  <2> HIDE DEF body
  <2> QED
    BY <2>2
<1> HIDE DEF chosen
<1>7. PICK after : ValuesOf(after, n, D, m, step) /\ after[n] = chosen[1..n]
  <2>1. chosen[{}] = m
    BY <1>1, <1>6
  <2>2. \A S \in SUBSET (1..n) :
          S # {} /\ chosen[S \ {Max(S)}] \in D =>
            chosen[S] = step[<<chosen[S \ {Max(S)}], Max(S)>>]
    <3> SUFFICES ASSUME NEW S \in SUBSET (1..n), S # {}, chosen[S \ {Max(S)}] \in D
                 PROVE  chosen[S] = step[<<chosen[S \ {Max(S)}], Max(S)>>]
      OBVIOUS
    <3>1. chosen[S] = AddCorners(chosen[S \ {Max(S)}], shells[Max(S)])
      BY <1>1, <1>6
    <3> QED
      BY <1>2, <1>3, <3>1
  <2>3. FoldsOn(chosen, n, D, m, step)
    BY <2>1, <2>2 DEF FoldsOn
  <2> QED
    BY <1>1, <1>2, <1>5, <2>3, FoldInOrder
<1>8. \A k \in 1..n : after[k] = AddCorners(after[k - 1], shells[k])
  <2> SUFFICES ASSUME NEW k \in 1..n PROVE after[k] = AddCorners(after[k - 1], shells[k])
    OBVIOUS
  <2>1. after[k - 1] \in D /\ after[k] = step[<<after[k - 1], k>>]
    BY <1>1, <1>7 DEF ValuesOf
  <2> QED
    BY <1>2, <2>1
<1>9. after \in [0..n -> D] /\ after[0] = m /\ ReplayShells(m, shells) = after[n]
  BY <1>4, <1>7 DEF ValuesOf
<1> QED
  BY <1>8, <1>9 DEF n, D

Meet(T, met, k) == IF k \in T THEN Append(met, k) ELSE met
MetIn(T, list) == FoldLeft(LAMBDA met, k : Meet(T, met, k), <<>>, list)

LEMMA MeetTyped ==
  ASSUME NEW T, NEW met \in Seq(T), NEW k
  PROVE  Meet(T, met, k) \in Seq(T) /\ Len(Meet(T, met, k)) \in {Len(met), Len(met) + 1}
BY DEF Meet

\* The numbers of a set T, as a loop over a list meets them.
LEMMA InOrderByOne ==
  ASSUME NEW T, NEW list \in Seq(Int)
  PROVE  \E after \in [0..Len(list) -> Seq(T)] :
           /\ after[0] = <<>>
           /\ \A k \in 1..Len(list) : after[k] = Meet(T, after[k - 1], list[k])
           /\ MetIn(T, list) = after[Len(list)]
<1> DEFINE n == Len(list)
           D == Seq(T)
           body(iter) == [S \in SUBSET DOMAIN list |->
                            IF S = {} THEN <<>>
                            ELSE Meet(T, iter[S \ {Max(S)}], list[Max(S)])]
           step == [x \in D \X (1..n) |-> Meet(T, x[1], list[x[2]])]
           chosen == CHOOSE iter : iter = body(iter)
<1>1. n \in Nat /\ DOMAIN list = 1..n /\ \A k \in 1..n : list[k] \in Int
  OBVIOUS
<1>2. /\ step \in StepsIn(n, D)
      /\ \A x \in D, k \in 1..n : step[<<x, k>>] = Meet(T, x, list[k])
  <2>1. ASSUME NEW x \in D \X (1..n) PROVE Meet(T, x[1], list[x[2]]) \in D
    <3>1. x[1] \in D /\ list[x[2]] \in Int
      BY <1>1
    <3> QED
      BY <3>1, MeetTyped
  <2> QED
    BY <2>1 DEF StepsIn
<1>3. \A S \in SUBSET (1..n) : S # {} => Max(S) \in S /\ Max(S) \in 1..n
  BY <1>1, LastOf
<1>4. MetIn(T, list) = chosen[1..n]
  BY <1>1 DEF MetIn, FoldLeft, MapThenFoldSet
<1>5. <<>> \in D
  OBVIOUS
<1> HIDE DEF step, n, D
<1>6. chosen = body(chosen)
  <2>1. PICK iter : IsFold(iter, n, D, <<>>, step)
    BY <1>1, <1>2, <1>5, FoldExists
  <2>2. iter = body(iter)
    BY <1>1, <1>2, <1>3, <2>1 DEF IsFold
  <2> HIDE DEF body
  <2> QED
    BY <2>2
<1> HIDE DEF chosen
<1>7. PICK after : ValuesOf(after, n, D, <<>>, step) /\ after[n] = chosen[1..n]
  <2>1. chosen[{}] = <<>>
    BY <1>1, <1>6
  <2>2. \A S \in SUBSET (1..n) :
          S # {} /\ chosen[S \ {Max(S)}] \in D =>
            chosen[S] = step[<<chosen[S \ {Max(S)}], Max(S)>>]
    <3> SUFFICES ASSUME NEW S \in SUBSET (1..n), S # {}, chosen[S \ {Max(S)}] \in D
                 PROVE  chosen[S] = step[<<chosen[S \ {Max(S)}], Max(S)>>]
      OBVIOUS
    <3>1. chosen[S] = Meet(T, chosen[S \ {Max(S)}], list[Max(S)])
      BY <1>1, <1>6
    <3> QED
      BY <1>2, <1>3, <3>1
  <2>3. FoldsOn(chosen, n, D, <<>>, step)
    BY <2>1, <2>2 DEF FoldsOn
  <2> QED
    BY <1>1, <1>2, <1>5, <2>3, FoldInOrder
<1>8. \A k \in 1..n : after[k] = Meet(T, after[k - 1], list[k])
  <2> SUFFICES ASSUME NEW k \in 1..n PROVE after[k] = Meet(T, after[k - 1], list[k])
    OBVIOUS
  <2>1. after[k - 1] \in D /\ after[k] = step[<<after[k - 1], k>>]
    BY <1>1, <1>7 DEF ValuesOf
  <2> QED
    BY <1>2, <2>1
<1>9. after \in [0..n -> D] /\ after[0] = <<>> /\ MetIn(T, list) = after[n]
  BY <1>4, <1>7 DEF ValuesOf
<1> QED
  BY <1>8, <1>9 DEF n, D

LEMMA InOrderTyped ==
  ASSUME NEW n \in Nat, NEW T \in SUBSET (1..n)
  PROVE  InOrder(n, T) \in Seq(T) /\ Len(InOrder(n, T)) \in 0..n
<1> DEFINE list == [k \in 1..n |-> k]
<1>1. list \in Seq(Int) /\ Len(list) = n
  OBVIOUS
<1>2. InOrder(n, T) = MetIn(T, list)
  BY DEF InOrder, MetIn, Meet
<1> HIDE DEF list
<1>3. PICK after \in [0..n -> Seq(T)] :
        /\ after[0] = <<>>
        /\ \A k \in 1..n : after[k] = Meet(T, after[k - 1], list[k])
        /\ MetIn(T, list) = after[n]
  BY <1>1, InOrderByOne
<1> DEFINE P == {k \in 0..n : Len(after[k]) \in 0..k}
<1>4. 0 \in P
  BY <1>3
<1>5. ASSUME NEW k \in 1..n, k - 1 \in P PROVE k \in P
  <2>1. k \in 0..n /\ k - 1 \in 0..n
    BY <1>5
  <2>2. after[k - 1] \in Seq(T) /\ Len(after[k - 1]) \in 0..(k - 1)
    BY <1>3, <1>5, <2>1
  <2>3. Len(after[k]) \in {Len(after[k - 1]), Len(after[k - 1]) + 1}
    BY <1>3, <2>2, MeetTyped
  <2> QED
    BY <2>1, <2>2, <2>3
<1>6. 0..n \subseteq P
  <2> HIDE DEF P
  <2> QED
    BY <1>4, <1>5, Ascent
<1>7. n \in 0..n
  OBVIOUS
<1> QED
  BY <1>2, <1>3, <1>6, <1>7

LEMMA MembersReplayed ==
  ASSUME NEW m \in Model, NEW recs \in Seq(Kept)
  PROVE  /\ ReplayMembers(m, recs) \in Model
         /\ Len(ReplayMembers(m, recs).members) = Len(m.members) + Len(recs)
<1> DEFINE n == Len(recs)
<1>1. PICK after \in [0..n -> Model] :
        /\ after[0] = m
        /\ \A k \in 1..n : after[k] = AddMember(after[k - 1], recs[k].i, recs[k].j)
        /\ ReplayMembers(m, recs) = after[n]
  BY MembersByOne
<1>2. n \in Nat /\ \A k \in 1..n : recs[k] \in Kept /\ k \in 0..n /\ k - 1 \in 0..n
  OBVIOUS
<1>3. \A x \in Model : Len(x.members) \in Nat
  BY DEF Model
<1> DEFINE P == {k \in 0..n : Len(after[k].members) = Len(m.members) + k}
<1>4. 0 \in P
  BY <1>1, <1>2, <1>3
<1>5. ASSUME NEW k \in 1..n, k - 1 \in P PROVE k \in P
  <2>1. /\ after[k - 1] \in Model /\ recs[k] \in Kept
        /\ after[k] = AddMember(after[k - 1], recs[k].i, recs[k].j)
    BY <1>1, <1>2
  <2>2. recs[k].i \in Int /\ recs[k].j \in Int
    BY <2>1, KeptEnds
  <2>3. Len(after[k - 1].members) = Len(m.members) + (k - 1)
    BY <1>5
  <2>4. Len(after[k].members) = Len(after[k - 1].members) + 1
    <3> DEFINE x == after[k - 1]
               p == recs[k].i
               q == recs[k].j
    <3>1. x \in Model /\ p \in Int /\ q \in Int /\ after[k] = AddMember(x, p, q)
      BY <2>1, <2>2
    <3> HIDE DEF x, p, q
    <3>2. Len(AddMember(x, p, q).members) = Len(x.members) + 1
      BY <3>1, AddMemberTyped
    <3> QED
      BY <3>1, <3>2 DEF x
  <2> QED
    BY <1>2, <1>3, <2>1, <2>3, <2>4
<1>6. 0..n \subseteq P
  <2> HIDE DEF P, n
  <2> QED
    BY <1>2, <1>4, <1>5, Ascent
<1>7. n \in 0..n
  BY <1>2
<1> QED
  BY <1>1, <1>6, <1>7

LEMMA SupportsReplayed ==
  ASSUME NEW m \in Model, NEW places \in Seq(Int)
  PROVE  /\ ReplaySupports(m, places) \in Model
         /\ ReplaySupports(m, places).members = m.members
         /\ Grows(m.nodes, ReplaySupports(m, places).nodes)
<1> DEFINE n == Len(places)
<1>1. PICK after \in [0..n -> Model] :
        /\ after[0] = m
        /\ \A k \in 1..n : after[k] = AddSupport(after[k - 1], places[k])
        /\ ReplaySupports(m, places) = after[n]
  BY SupportsByOne
<1>2. n \in Nat /\ \A k \in 1..n : places[k] \in Int /\ k \in 0..n /\ k - 1 \in 0..n
  OBVIOUS
<1> DEFINE P == {k \in 0..n : after[k].members = m.members /\ Grows(m.nodes, after[k].nodes)}
<1>3. \A x \in Model : x.nodes \in Seq(Node)
  BY DEF Model
<1>4. 0 \in P
  BY <1>1, <1>2 DEF Grows
<1>5. ASSUME NEW k \in 1..n, k - 1 \in P PROVE k \in P
  <2>1. /\ after[k - 1] \in Model /\ after[k] \in Model /\ places[k] \in Int
        /\ after[k] = AddSupport(after[k - 1], places[k])
    BY <1>1, <1>2
  <2>2. after[k].members = after[k - 1].members /\ Grows(after[k - 1].nodes, after[k].nodes)
    BY <2>1, AddSupportTyped, AddSupportGrows
  <2>3. Grows(m.nodes, after[k].nodes)
    BY <1>3, <1>5, <2>1, <2>2, GrowsTrans
  <2> QED
    BY <1>2, <1>5, <2>2, <2>3
<1>6. 0..n \subseteq P
  <2> HIDE DEF P, n
  <2> QED
    BY <1>2, <1>4, <1>5, Ascent
<1>7. n \in 0..n
  BY <1>2
<1> QED
  BY <1>1, <1>6, <1>7

\* The corners of a shell stay found while further shells are added.
LEMMA ShellsReplayed ==
  ASSUME NEW m \in Model, NEW shells \in Seq(Seq(Int))
  PROVE  /\ ReplayShells(m, shells) \in Model
         /\ ReplayShells(m, shells).members = m.members
         /\ \A s \in 1..Len(shells) : \A c \in 1..Len(shells[s]) :
              Hits(ReplayShells(m, shells).nodes, shells[s][c]) # {}
<1> DEFINE n == Len(shells)
<1>1. PICK after \in [0..n -> Model] :
        /\ after[0] = m
        /\ \A k \in 1..n : after[k] = AddCorners(after[k - 1], shells[k])
        /\ ReplayShells(m, shells) = after[n]
  BY ShellsByOne
<1>2. n \in Nat /\ \A k \in 1..n : shells[k] \in Seq(Int) /\ k \in 0..n /\ k - 1 \in 0..n
  OBVIOUS
<1> DEFINE Found(k, s) == \A c \in 1..Len(shells[s]) : Hits(after[k].nodes, shells[s][c]) # {}
           P == {k \in 0..n : after[k].members = m.members /\ \A s \in 1..k : Found(k, s)}
<1>3. \A x \in Model : x.nodes \in Seq(Node)
  BY DEF Model
<1>4. 0 \in P
  BY <1>1, <1>2
<1>5. ASSUME NEW k \in 1..n, k - 1 \in P PROVE k \in P
  <2>1. /\ after[k - 1] \in Model /\ after[k] \in Model /\ shells[k] \in Seq(Int)
        /\ after[k] = AddCorners(after[k - 1], shells[k])
    BY <1>1, <1>2
  <2>2. /\ after[k].members = after[k - 1].members /\ Grows(after[k - 1].nodes, after[k].nodes)
        /\ Found(k, k)
    BY <2>1, AddCornersTyped
  <2>3. ASSUME NEW s \in 1..k PROVE Found(k, s)
    <3>1. CASE s = k
      BY <2>2, <3>1
    <3>2. CASE s # k
      <4>1. s \in 1..(k - 1)
        BY <1>2, <3>2
      <4>2. Found(k - 1, s)
        BY <1>5, <4>1
      <4> QED
        BY <1>3, <2>1, <2>2, <4>2, HitsStay
    <3> QED
      BY <3>1, <3>2
  <2> HIDE DEF Found
  <2> QED
    BY <1>2, <1>5, <2>2, <2>3
<1>6. 0..n \subseteq P
  <2> HIDE DEF P, n
  <2> QED
    BY <1>2, <1>4, <1>5, Ascent
<1>7. n \in 0..n
  BY <1>2
<1> QED
  BY <1>1, <1>6, <1>7

LEMMA NearTyped ==
  ASSUME NEW m, NEW places \in Seq(Int)
  PROVE  NodesNear(m, places) \in Seq(Int)
<1> DEFINE S == {k \in DOMAIN places : Hits(m.nodes, places[k]) # {}}
           near == InOrder(Len(places), S)
<1>1. Len(places) \in Nat /\ DOMAIN places = 1..Len(places) /\ \A k \in 1..Len(places) : places[k] \in Int
  OBVIOUS
<1>2. near \in Seq(S)
  BY <1>1, InOrderTyped
<1>3. NodesNear(m, places) = [k \in DOMAIN near |-> places[near[k]]]
  BY DEF NodesNear, Picked
<1>4. \A x \in S : places[x] \in Int
  BY <1>1
<1> HIDE DEF near, S
<1>5. Len(near) \in Nat /\ DOMAIN near = 1..Len(near) /\ \A k \in 1..Len(near) : places[near[k]] \in Int
  BY <1>2, <1>4
<1>6. [k \in 1..Len(near) |-> places[near[k]]] \in Seq(Int)
  BY <1>5
<1> QED
  BY <1>3, <1>5, <1>6

\* An archive, whatever its records are.
Parts(a) ==
  /\ a = [version |-> a.version, records |-> a.records, supports |-> a.supports,
          loads |-> a.loads, udls |-> a.udls, shells |-> a.shells, fixities |-> a.fixities]
  /\ a.version \in {0, 2} /\ a.supports \in Seq(Int)
  /\ a.shells \in Seq(Seq(Int)) /\ a.fixities \in Seq(Int)

\* The model a load rebuilds has a row for each record and a node for each corner.
LEMMA ModelReplayed ==
  ASSUME NEW a, Parts(a), a.records \in Seq(Kept)
  PROVE  /\ ReplayModel(a) \in Model /\ Len(ReplayModel(a).members) = Len(a.records)
         /\ a.version = 2 => \A s \in 1..Len(a.shells) : \A c \in 1..Len(a.shells[s]) :
              Hits(ReplayModel(a).nodes, a.shells[s][c]) # {}
<1>1. EmptyModel \in Model /\ Len(EmptyModel.members) = 0
  BY DEF EmptyModel, Model
<1>2. a.supports \in Seq(Int) /\ a.shells \in Seq(Seq(Int)) /\ a.fixities \in Seq(Int)
  BY DEF Parts
<1>3. Len(a.records) \in Nat
  OBVIOUS
<1>4. CASE a.version = 2
  <2> DEFINE built == ReplayMembers(EmptyModel, a.records)
             shelled == ReplayShells(built, a.shells)
             near == NodesNear(shelled, a.fixities)
  <2>1. built \in Model /\ Len(built.members) = Len(a.records)
    BY <1>1, <1>3, MembersReplayed
  <2>2. /\ shelled \in Model /\ shelled.members = built.members
        /\ \A s \in 1..Len(a.shells) : \A c \in 1..Len(a.shells[s]) :
             Hits(shelled.nodes, a.shells[s][c]) # {}
    BY <1>2, <2>1, ShellsReplayed
  <2>3. near \in Seq(Int)
    BY <1>2, NearTyped
  <2>4. ReplayModel(a) = ReplaySupports(shelled, near)
    BY <1>4 DEF ReplayModel, ReplayNodeFixities, ReplaySupports
  <2> HIDE DEF built, shelled, near
  <2>5. /\ ReplayModel(a) \in Model /\ ReplayModel(a).members = shelled.members
        /\ Grows(shelled.nodes, ReplayModel(a).nodes)
    BY <2>2, <2>3, <2>4, SupportsReplayed
  <2>6. shelled.nodes \in Seq(Node) /\ ReplayModel(a).nodes \in Seq(Node)
    BY <2>2, <2>5 DEF Model
  <2> QED
    BY <2>1, <2>2, <2>5, <2>6, HitsStay
<1>5. CASE a.version # 2
  <2> DEFINE held == ReplaySupports(EmptyModel, a.supports)
  <2>1. held \in Model /\ Len(held.members) = 0
    BY <1>1, <1>2, SupportsReplayed
  <2>2. ReplayModel(a) = ReplayMembers(held, a.records)
    BY <1>5 DEF ReplayModel
  <2> HIDE DEF held
  <2> QED
    BY <1>3, <1>5, <2>1, <2>2, MembersReplayed
<1> QED
  BY <1>4, <1>5

\* What hangs on a frame.
Attachments(x) ==
  x = [loads |-> x.loads, udls |-> x.udls, shells |-> x.shells, flagged |-> x.flagged]

LEMMA ExtrasReplayed ==
  ASSUME NEW a, Parts(a), a.records \in Seq(Kept)
  PROVE  /\ Attachments(ReplayExtras(a))
         /\ ReplayExtras(a).shells \in Seq(Seq(1..Len(ReplayModel(a).nodes)))
<1> DEFINE final == ReplayModel(a).nodes
           shells == [s \in DOMAIN a.shells |->
                        [c \in DOMAIN a.shells[s] |-> NodeAt(final, a.shells[s][c])]]
           places == 1..Len(final)
<1>1. final \in Seq(Node) /\ a.shells \in Seq(Seq(Int))
  BY ModelReplayed DEF Model, Parts
<1>2. CASE a.version = 2
  <2>1. ASSUME NEW s \in 1..Len(a.shells)
        PROVE  [c \in DOMAIN a.shells[s] |-> NodeAt(final, a.shells[s][c])] \in Seq(places)
    <3> DEFINE corners == a.shells[s]
    <3>1. corners \in Seq(Int)
      BY <1>1
    <3>2. \A c \in 1..Len(corners) : Hits(final, corners[c]) # {}
      BY <1>2, ModelReplayed
    <3> HIDE DEF corners, final
    <3>3. /\ Len(corners) \in Nat /\ DOMAIN corners = 1..Len(corners)
          /\ \A c \in 1..Len(corners) : corners[c] \in Int
      BY <3>1
    <3>4. \A c \in 1..Len(corners) : NodeAt(final, corners[c]) \in places
      BY <1>1, <3>2, <3>3, NodeAtTyped
    <3> HIDE DEF places
    <3>5. [c \in DOMAIN corners |-> NodeAt(final, corners[c])] \in Seq(places)
      BY <3>3, <3>4
    <3> QED
      BY <3>5 DEF corners
  <2>2. Len(a.shells) \in Nat /\ DOMAIN a.shells = 1..Len(a.shells)
    BY <1>1
  <2> HIDE DEF final, places
  <2>3. shells \in Seq(Seq(places))
    BY <2>1, <2>2
  <2>4. ReplayExtras(a).shells = shells /\ Attachments(ReplayExtras(a))
    BY <1>2 DEF ReplayExtras, Attachments, final
  <2> QED
    BY <2>3, <2>4 DEF places, final
<1>3. CASE a.version # 2
  BY <1>3 DEF ReplayExtras, NoExtras, Attachments
<1> QED
  BY <1>2, <1>3

LEMMA SeqIn ==
  ASSUME NEW A, NEW B, A \subseteq B, NEW s \in Seq(A)
  PROVE  s \in Seq(B)
<1>1. Len(s) \in Nat /\ s \in [1..Len(s) -> B]
  <2>1. Len(s) \in Nat /\ s \in [1..Len(s) -> A]
    OBVIOUS
  <2> QED
    BY <2>1
<1> QED
  BY <1>1

LEMMA ShellsStay ==
  ASSUME NEW a \in Seq(Node), NEW b \in Seq(Node), Grows(a, b), NEW shells \in Seq(Seq(1..Len(a)))
  PROVE  shells \in Seq(Seq(1..Len(b)))
<1> DEFINE A == 1..Len(a)
           B == 1..Len(b)
<1>1. A \subseteq B
  BY DEF Grows
<1> HIDE DEF A, B
<1>2. Seq(A) \subseteq Seq(B)
  BY <1>1, SeqIn
<1>3. shells \in Seq(Seq(A))
  BY DEF A
<1>4. shells \in Seq(Seq(B))
  BY <1>2, <1>3, SeqIn
<1> QED
  BY <1>4 DEF B

\* A frame with what hangs on it; rows and the map's rows are the same.
FrameInv ==
  /\ model \in Model /\ nextMemberIdx = Len(model.members) + 1
  /\ indexToComponent \in [1..Len(model.members) -> Comps]
  /\ inWorld \subseteq Comps
  /\ Attachments(extras) /\ extras.shells \in Seq(Seq(1..Len(model.nodes)))

\* All of frame f and nothing that is off.
Whole(a, f) == a.records \in Seq(Kept) /\ Len(a.records) = Len(f.shape.active)

\* The arrays that SPUD writes are whole from the moment it starts; those of an archive that
\* is being loaded can be replayed.
SlotsInv ==
  /\ Parts(sidecar)
  /\ spud = "saving" => Whole(sidecar, asked)
  /\ spud = "restoring" => disk[target] # NoArchive
  /\ spud = "travelling" => sidecar.records \in Seq(Kept)
  /\ target \in Slots
  /\ disk = [s \in Slots |-> disk[s]] /\ saved = [s \in Slots |-> saved[s]]
  /\ \A s \in Slots : disk[s] # NoArchive => Parts(disk[s]) /\ Whole(disk[s], saved[s])

\* A snapshot that captures as many active members as are registered has captured them all.
LEMMA SnapshotWhole ==
  ASSUME FrameInv
  PROVE  /\ Parts(Snapshot)
         /\ ~Partial(Snapshot) =>
              /\ Snapshot.records \in Seq(Kept)
              /\ Len(Snapshot.records) = Len(Shape(model, extras).active)
<1> DEFINE N == Len(model.members)
           S == {r \in 1..N : model.members[r].active => FoundFor(r) # {}}
           F == {n \in 1..Len(model.nodes) : model.nodes[n].fixed}
           rows == InOrder(N, S)
           fixed == InOrder(Len(model.nodes), F)
           recs == [k \in DOMAIN rows |-> Record(rows[k])]
           fixities == [k \in DOMAIN fixed |-> PositionOf(fixed[k])]
           shells == [k \in DOMAIN extras.shells |->
                        [c \in DOMAIN extras.shells[k] |-> PositionOf(extras.shells[k][c])]]
<1>1. /\ model.members \in Seq(Row) /\ model.nodes \in Seq(Node)
      /\ N \in Nat /\ Len(model.nodes) \in Nat
      /\ S \in SUBSET (1..N) /\ F \in SUBSET (1..Len(model.nodes))
  BY DEF FrameInv, Model
<1>2. \A n \in 1..Len(model.nodes) : PositionOf(n) \in Int
  <2>1. \A x \in Node : x.pos \in Int
    BY DEF Node
  <2> QED
    BY <1>1, <2>1 DEF PositionOf
<1>3. Snapshot = [version |-> 2, records |-> recs, supports |-> <<>>,
                  loads |-> [k \in DOMAIN extras.loads |-> PositionOf(extras.loads[k])],
                  udls |-> extras.udls, shells |-> shells, fixities |-> fixities]
  BY DEF Snapshot
<1>4. rows \in Seq(S) /\ Len(rows) \in 0..N /\ fixed \in Seq(F)
  BY <1>1, InOrderTyped
<1>5. fixities \in Seq(Int)
  <2>1. \A n \in F : PositionOf(n) \in Int
    BY <1>1, <1>2
  <2> HIDE DEF fixed, F
  <2>2. Len(fixed) \in Nat /\ DOMAIN fixed = 1..Len(fixed) /\ \A k \in 1..Len(fixed) : PositionOf(fixed[k]) \in Int
    BY <1>4, <2>1
  <2> QED
    BY <2>2
<1>6. shells \in Seq(Seq(Int))
  <2> DEFINE places == 1..Len(model.nodes)
             all == extras.shells
  <2>1. all \in Seq(Seq(places))
    BY DEF FrameInv
  <2>2. \A n \in places : PositionOf(n) \in Int
    BY <1>2
  <2> HIDE DEF places
  <2>3. ASSUME NEW k \in 1..Len(all)
        PROVE  [c \in DOMAIN all[k] |-> PositionOf(all[k][c])] \in Seq(Int)
    <3> DEFINE corners == all[k]
    <3>1. corners \in Seq(places)
      BY <2>1
    <3> HIDE DEF corners, all
    <3>2. /\ Len(corners) \in Nat /\ DOMAIN corners = 1..Len(corners)
          /\ \A c \in 1..Len(corners) : PositionOf(corners[c]) \in Int
      BY <2>2, <3>1
    <3>3. [c \in DOMAIN corners |-> PositionOf(corners[c])] \in Seq(Int)
      BY <3>2
    <3> QED
      BY <3>3 DEF corners
  <2>4. Len(all) \in Nat /\ DOMAIN all = 1..Len(all)
    BY <2>1
  <2> HIDE DEF all
  <2>5. [k \in DOMAIN all |-> [c \in DOMAIN all[k] |-> PositionOf(all[k][c])]] \in Seq(Seq(Int))
    BY <2>3, <2>4
  <2> QED
    BY <2>5 DEF all
<1>7. Parts(Snapshot)
  <2> HIDE DEF recs, shells, fixities
  <2>1. <<>> \in Seq(Int)
    OBVIOUS
  <2> QED
    BY <1>3, <1>5, <1>6, <2>1 DEF Parts
<1> DEFINE L == Len(rows)
           on == {k \in 1..L : recs[k].active}
<1>8. L \in 0..N /\ DOMAIN recs = 1..L /\ Len(recs) = L
  <2>1. L \in Nat /\ DOMAIN rows = 1..L
    BY <1>4
  <2> HIDE DEF rows
  <2> QED
    BY <1>4, <2>1
<1>9. Snapshot.records = recs /\ Captured(Snapshot) = Cardinality(on)
  <2>1. Snapshot.records = recs
    BY <1>3
  <2> HIDE DEF recs
  <2> QED
    BY <1>8, <2>1 DEF Captured
<1>10. Registered = N
  <2>1. DOMAIN indexToComponent = 1..N
    BY DEF FrameInv
  <2>2. Cardinality(1..N) = N
    BY <1>1, FS_Interval
  <2> QED
    BY <2>1, <2>2 DEF Registered
<1>11. ASSUME NEW k \in 1..L, recs[k].active PROVE recs[k] \in Kept
  <2> DEFINE r == rows[k]
             c == CHOOSE c \in FoundFor(r) : TRUE
  <2>1. r \in S /\ recs[k] = Record(r)
    <3> HIDE DEF S
    <3> QED
      BY <1>4
  <2>2. model.members[r].active
    <3> SUFFICES ASSUME ~model.members[r].active PROVE FALSE
      OBVIOUS
    <3> DEFINE x == Record(r)
    <3>1. x.active = FALSE
      <4> HIDE DEF r, recs
      <4> QED
        BY DEF Record
    <3>2. recs[k].active <=> x.active
      <4> HIDE DEF recs
      <4> QED
        BY <2>1
    <3> HIDE DEF x, recs
    <3> QED
      BY <1>11, <3>1, <3>2
  <2>3. FoundFor(r) # {}
    BY <2>1, <2>2
  <2>4. c \in FoundFor(r)
    BY <2>3
  <2>5. c \in Comps
    BY <2>4 DEF FoundFor, FrameInv
  <2> HIDE DEF r, recs
  <2>6. Record(r) = [i |-> EndI[c], j |-> EndJ[c], active |-> TRUE, flagged |-> r \in extras.flagged]
    BY <2>2 DEF Record
  <2> HIDE DEF c
  <2>7. EndI[c] \in Int /\ EndJ[c] \in Int /\ (r \in extras.flagged) \in BOOLEAN
    BY <2>5, RegistryAssumption
  <2> DEFINE flag == r \in extras.flagged
  <2>8. flag \in BOOLEAN
    OBVIOUS
  <2>9. recs[k] = [i |-> EndI[c], j |-> EndJ[c], active |-> TRUE, flagged |-> flag]
    BY <2>1, <2>6
  <2> HIDE DEF flag
  <2> QED
    BY <2>5, <2>7, <2>8, <2>9 DEF Kept, Rec
<1>12. ASSUME ~Partial(Snapshot)
       PROVE  recs \in Seq(Kept) /\ L = N
  <2>1. ~(Cardinality(on) < N)
    BY <1>9, <1>10, <1>12 DEF Partial
  <2> DEFINE all == 1..L
  <2>2. IsFiniteSet(all) /\ Cardinality(all) = L
    <3>1. L \in Nat
      BY <1>1, <1>8
    <3> HIDE DEF L
    <3>2. Cardinality(1..L) = IF 1 > L THEN 0 ELSE L - 1 + 1
      BY <3>1, FS_Interval
    <3>3. IsFiniteSet(1..L)
      BY <3>1, FS_Interval
    <3> QED
      BY <3>1, <3>2, <3>3
  <2>3. on \in SUBSET all
    OBVIOUS
  <2> HIDE DEF on, all
  <2>4. /\ IsFiniteSet(on) /\ Cardinality(on) <= Cardinality(all)
        /\ (Cardinality(all) = Cardinality(on) => all = on)
    BY <2>2, <2>3, FS_Subset
  <2>5. Cardinality(on) \in Nat
    BY <2>4, FS_CardinalityType
  <2>6. L = N /\ all = on
    BY <1>1, <1>8, <2>1, <2>2, <2>4, <2>5
  <2>7. \A k \in 1..L : recs[k] \in Kept
    BY <1>11, <2>6 DEF on, all
  <2>8. recs \in Seq(Kept)
    <3> HIDE DEF Kept
    <3>1. recs = [k \in 1..L |-> recs[k]]
      BY <1>8
    <3> HIDE DEF recs, L
    <3>2. L \in Nat
      BY <1>1, <1>8
    <3> QED
      BY <2>7, <3>1, <3>2
  <2> QED
    BY <2>6, <2>8
<1>13. Len(Shape(model, extras).active) = N
  <2>1. Shape(model, extras).active = [r \in 1..N |-> model.members[r].active]
    BY DEF Shape
  <2> QED
    BY <1>1, <2>1
<1> QED
  BY <1>7, <1>8, <1>9, <1>12, <1>13

-------------------------------------------------------------------------------
\* Building.  The shells keep their corners while nodes are only added.
LEMMA GrownKeepsFrame ==
  ASSUME FrameInv, model' \in Model, Grows(model.nodes, model'.nodes),
         nextMemberIdx' = Len(model'.members) + 1,
         indexToComponent' \in [1..Len(model'.members) -> Comps],
         inWorld' \subseteq Comps, extras' = extras
  PROVE  FrameInv'
<1>1. model.nodes \in Seq(Node) /\ model'.nodes \in Seq(Node)
  BY DEF FrameInv, Model
<1>2. extras.shells \in Seq(Seq(1..Len(model'.nodes)))
  BY <1>1, ShellsStay DEF FrameInv
<1> QED
  BY <1>2 DEF FrameInv, Attachments

LEMMA GrowsSame ==
  ASSUME NEW a, NEW b, a = b, Len(a) \in Nat
  PROVE  Grows(a, b)
BY DEF Grows

LEMMA SwitchOffStays ==
  ASSUME NEW m \in Model, NEW r
  PROVE  /\ SwitchOff(m, r) \in Model /\ SwitchOff(m, r).nodes = m.nodes
         /\ Len(SwitchOff(m, r).members) = Len(m.members)
<1>1. CASE r \in 1..Len(m.members)
  BY <1>1, SwitchOffTyped DEF SameTopology
<1>2. CASE r \notin 1..Len(m.members)
  <2> DEFINE rows == m.members
             off == [rows EXCEPT ![r].active = FALSE]
  <2>1. rows \in Seq(Row) /\ m = [nodes |-> m.nodes, members |-> rows]
    BY DEF Model
  <2>2. SwitchOff(m, r) = [nodes |-> m.nodes, members |-> off]
    <3>1. SwitchOff(m, r) = [m EXCEPT !.members = off]
      BY DEF SwitchOff
    <3> HIDE DEF off, rows
    <3> QED
      BY <2>1, <3>1
  <2>3. off = rows
    <3> HIDE DEF rows
    <3>1. rows = [k \in 1..Len(rows) |-> rows[k]]
      BY <2>1
    <3>2. r \notin 1..Len(rows)
      BY <1>2 DEF rows
    <3> QED
      BY <3>1, <3>2
  <2> HIDE DEF off
  <2>4. SwitchOff(m, r) = m
    BY <2>1, <2>2, <2>3
  <2> QED
    BY <2>4
<1> QED
  BY <1>1, <1>2

LEMMA RegisterKeepsFrame ==
  ASSUME FrameInv, NEW c \in Comps, RegisterMember(c), extras' = extras,
         inWorld' \subseteq Comps
  PROVE  FrameInv'
<1> DEFINE N == Len(model.members)
<1>1. model \in Model /\ N \in Nat /\ model.nodes \in Seq(Node)
  BY DEF FrameInv, Model
<1>2. CASE registered[c] \/ Rejected(c)
  <2>1. UNCHANGED modelVars
    BY <1>2 DEF RegisterMember
  <2>2. Grows(model.nodes, model'.nodes)
    BY <1>1, <2>1, GrowsSame DEF modelVars
  <2> QED
    BY <2>1, <2>2, GrownKeepsFrame DEF FrameInv, modelVars
<1>3. CASE ~(registered[c] \/ Rejected(c))
  <2>1. /\ model' = AddMember(model, EndI[c], EndJ[c])
        /\ nextMemberIdx' = N + 2 /\ nextMemberIdx = N + 1
        /\ indexToComponent' =
             [r \in DOMAIN indexToComponent \cup {nextMemberIdx} |->
                IF r = nextMemberIdx THEN c ELSE indexToComponent[r]]
    BY <1>1, <1>3 DEF RegisterMember, FrameInv
  <2>2. EndI[c] \in Int /\ EndJ[c] \in Int
    BY RegistryAssumption
  <2>3. /\ model' \in Model /\ Len(model'.members) = N + 1
        /\ Grows(model.nodes, model'.nodes)
    BY <1>1, <2>1, <2>2, AddMemberTyped, AddMemberGrows
  <2>4. indexToComponent' \in [1..(N + 1) -> Comps]
    <3>1. indexToComponent \in [1..N -> Comps]
      BY DEF FrameInv
    <3>2. 1..(N + 1) = 1..N \cup {N + 1}
      BY <1>1
    <3> HIDE DEF N
    <3> QED
      BY <2>1, <3>1, <3>2
  <2> HIDE DEF N
  <2>5. nextMemberIdx' = Len(model'.members) + 1
    BY <1>1, <2>1, <2>3
  <2> QED
    BY <2>3, <2>4, <2>5, GrownKeepsFrame
<1> QED
  BY <1>2, <1>3

LEMMA DeactivateKeepsFrame ==
  ASSUME FrameInv, NEW r, DeactivateMember(r), extras' = extras, inWorld' \subseteq Comps
  PROVE  FrameInv'
<1>1. model \in Model /\ Len(model.nodes) \in Nat
  BY DEF FrameInv, Model
<1>2. model' = SwitchOff(model, r) /\ UNCHANGED <<indexToComponent, nextMemberIdx>>
  BY DEF DeactivateMember
<1>3. /\ model' \in Model /\ model'.nodes = model.nodes
      /\ Len(model'.members) = Len(model.members)
  BY <1>1, <1>2, SwitchOffStays
<1>4. Grows(model.nodes, model'.nodes)
  BY <1>1, <1>3, GrowsSame
<1> QED
  BY <1>2, <1>3, <1>4, GrownKeepsFrame DEF FrameInv

LEMMA BuildKeepsFrame ==
  ASSUME FrameInv, Build
  PROVE  FrameInv'
<1>1. extras' = extras /\ inWorld \subseteq Comps
  BY DEF Build, FrameInv
<1>2. ASSUME NEW c \in Comps, EndPlay(c) PROVE FrameInv'
  <2>1. inWorld' \subseteq Comps
    BY <1>1, <1>2 DEF EndPlay
  <2>2. CASE registered[c] /\ memberIdx[c] > 0
    <3>1. PICK r : r = memberIdx[c]
      OBVIOUS
    <3>2. DeactivateMember(r)
      BY <1>2, <2>2, <3>1 DEF EndPlay
    <3> QED
      BY <1>1, <2>1, <3>2, DeactivateKeepsFrame
  <2>3. CASE ~(registered[c] /\ memberIdx[c] > 0)
    <3>1. UNCHANGED modelVars
      BY <1>2, <2>3 DEF EndPlay
    <3> QED
      BY <1>1, <2>1, <3>1 DEF FrameInv, Attachments, modelVars
  <2> QED
    BY <2>2, <2>3
<1>3. ASSUME NEW c \in Comps, BeginPlay(c) PROVE FrameInv'
  <2>1. inWorld' \subseteq Comps
    BY <1>1, <1>3 DEF BeginPlay
  <2>2. CASE RegisterMember(c)
    BY <1>1, <2>1, <2>2, RegisterKeepsFrame
  <2>3. CASE UNCHANGED modelVars
    BY <1>1, <2>1, <2>3 DEF FrameInv, Attachments, modelVars
  <2> QED
    BY <1>3, <2>2, <2>3 DEF BeginPlay
<1>4. ASSUME NEW p \in Supports, RegisterFixedSupport(p) PROVE FrameInv'
  <2>1. model' = AddSupport(model, p) /\ UNCHANGED <<inWorld, indexToComponent, nextMemberIdx>>
    BY <1>4 DEF RegisterFixedSupport, compVars
  <2>2. p \in Int /\ model \in Model
    BY RegistryAssumption DEF FrameInv
  <2>3. model' \in Model /\ model'.members = model.members /\ Grows(model.nodes, model'.nodes)
    BY <2>1, <2>2, AddSupportTyped, AddSupportGrows
  <2> QED
    BY <1>1, <2>1, <2>3, GrownKeepsFrame DEF FrameInv
<1> QED
  BY <1>2, <1>3, <1>4 DEF Build, Building

LEMMA InjectKeepsFrame ==
  ASSUME PersistenceAssumption, FrameInv, Inject
  PROVE  FrameInv'
<1> DEFINE corners == ShellCorners
           with == [c \in DOMAIN corners |-> NodeAt(model'.nodes, corners[c])]
           places == 1..Len(model'.nodes)
<1>1. Attachments(extras)
  BY DEF FrameInv
<1>2. CASE vars' = vars /\ extras'.shells = extras.shells /\ Attachments(extras')
  BY <1>2 DEF FrameInv, Attachments, vars, modelVars, compVars
<1>3. ASSUME NEW n, extras' = [extras EXCEPT !.loads = Append(@, n)]
      PROVE  extras'.shells = extras.shells /\ Attachments(extras')
  <2> DEFINE new == Append(extras.loads, n)
  <2>1. extras' = [extras EXCEPT !.loads = new]
    BY <1>3
  <2> HIDE DEF new
  <2> QED
    BY <1>1, <2>1 DEF Attachments
<1>4. ASSUME NEW r, extras' = [extras EXCEPT !.udls = Append(@, r)]
      PROVE  extras'.shells = extras.shells /\ Attachments(extras')
  <2> DEFINE new == Append(extras.udls, r)
  <2>1. extras' = [extras EXCEPT !.udls = new]
    BY <1>4
  <2> HIDE DEF new
  <2> QED
    BY <1>1, <2>1 DEF Attachments
<1>5. ASSUME NEW r, extras' = [extras EXCEPT !.flagged = @ \cup {r}]
      PROVE  extras'.shells = extras.shells /\ Attachments(extras')
  <2> DEFINE new == extras.flagged \cup {r}
  <2>1. extras' = [extras EXCEPT !.flagged = new]
    BY <1>5
  <2> HIDE DEF new
  <2> QED
    BY <1>1, <2>1 DEF Attachments
<1>6. CASE /\ model' = AddCorners(model, corners)
           /\ extras' = [extras EXCEPT !.shells = Append(@, with)]
           /\ UNCHANGED <<compVars, indexToComponent, nextMemberIdx>>
  <2>1. corners \in Seq(Int) /\ model \in Model
    BY DEF PersistenceAssumption, FrameInv
  <2> HIDE DEF corners
  <2>2. /\ model' \in Model /\ model'.members = model.members
        /\ Grows(model.nodes, model'.nodes)
        /\ \A c \in 1..Len(corners) : Hits(model'.nodes, corners[c]) # {}
    BY <1>6, <2>1, AddCornersTyped
  <2>3. model.nodes \in Seq(Node) /\ model'.nodes \in Seq(Node)
    BY <2>1, <2>2 DEF Model
  <2>4. /\ Len(corners) \in Nat /\ DOMAIN corners = 1..Len(corners)
        /\ \A c \in 1..Len(corners) : corners[c] \in Int
    BY <2>1
  <2>5. \A c \in 1..Len(corners) : NodeAt(model'.nodes, corners[c]) \in places
    BY <2>2, <2>3, <2>4, NodeAtTyped
  <2>6. extras.shells \in Seq(Seq(places))
    BY <2>2, <2>3, ShellsStay DEF FrameInv
  <2> HIDE DEF places
  <2>7. with \in Seq(places)
    BY <2>4, <2>5
  <2> HIDE DEF with
  <2> DEFINE all == Append(extras.shells, with)
             S == Seq(places)
  <2>8. extras.shells \in Seq(S) /\ with \in S
    BY <2>6, <2>7
  <2>9. all \in Seq(S)
    <3> HIDE DEF S
    <3> QED
      BY <2>8
  <2>10. extras' = [extras EXCEPT !.shells = all]
    BY <1>6
  <2> HIDE DEF all
  <2>11. Attachments(extras') /\ extras'.shells = all
    BY <1>1, <2>10 DEF Attachments
  <2>12. extras'.shells \in Seq(Seq(1..Len(model'.nodes)))
    BY <2>9, <2>11 DEF places
  <2> QED
    BY <1>6, <2>2, <2>11, <2>12 DEF FrameInv, compVars
<1> QED
  BY <1>2, <1>3, <1>4, <1>5, <1>6 DEF Inject

-------------------------------------------------------------------------------
\* The slots.
LEMMA StoreKeepsSlots ==
  ASSUME SlotsInv, store' = store
  PROVE  SlotsInv'
BY DEF SlotsInv, store, Parts, Whole

LEMMA SavingKeepsSlots ==
  ASSUME FrameInv, SlotsInv, NEW s \in Slots, NEW allowEmpty \in BOOLEAN,
         SaveToSlot(s, allowEmpty)
  PROVE  SlotsInv'
<1>1. /\ sidecar' = Snapshot /\ disk' = disk /\ saved' = saved
      /\ \/ UNCHANGED <<spud, target, asked>> /\ spud = "idle"
         \/ /\ spud' = "saving" /\ target' = s /\ ~Partial(Snapshot)
            /\ asked' = [shape |-> Shape(model, extras), separate |-> Separate(Positions(model))]
  BY DEF SaveToSlot
<1>2. Parts(sidecar')
  BY <1>1, SnapshotWhole
<1>3. \A t \in Slots : disk'[t] # NoArchive => Parts(disk'[t]) /\ Whole(disk'[t], saved'[t])
  BY <1>1 DEF SlotsInv
<1>4. CASE UNCHANGED <<spud, target, asked>> /\ spud = "idle"
  BY <1>1, <1>2, <1>3, <1>4 DEF SlotsInv
<1>5. CASE /\ spud' = "saving" /\ target' = s /\ ~Partial(Snapshot)
           /\ asked' = [shape |-> Shape(model, extras), separate |-> Separate(Positions(model))]
  <2>1. asked'.shape = Shape(model, extras)
    BY <1>5
  <2>2. Whole(sidecar', asked')
    BY <1>1, <1>5, <2>1, SnapshotWhole DEF Whole
  <2> QED
    BY <1>1, <1>2, <1>3, <1>5, <2>2 DEF SlotsInv
<1> QED
  BY <1>1, <1>4, <1>5

LEMMA SavedKeepsSlots ==
  ASSUME SlotsInv, FinishSaveGame
  PROVE  SlotsInv'
<1>1. /\ spud = "saving" /\ spud' = "idle" /\ UNCHANGED <<sidecar, target>>
      /\ \/ /\ disk' = [disk EXCEPT ![target] = sidecar]
            /\ saved' = [saved EXCEPT ![target] = asked]
         \/ UNCHANGED <<disk, saved>>
  BY DEF FinishSaveGame
<1>2. CASE UNCHANGED <<disk, saved>>
  BY <1>1, <1>2 DEF SlotsInv
<1>3. CASE /\ disk' = [disk EXCEPT ![target] = sidecar]
           /\ saved' = [saved EXCEPT ![target] = asked]
  <2>1. /\ disk' = [s \in Slots |-> disk'[s]] /\ saved' = [s \in Slots |-> saved'[s]]
        /\ \A s \in Slots : disk'[s] = IF s = target THEN sidecar ELSE disk[s]
        /\ \A s \in Slots : saved'[s] = IF s = target THEN asked ELSE saved[s]
    <3>1. /\ disk = [s \in Slots |-> disk[s]] /\ saved = [s \in Slots |-> saved[s]]
          /\ target \in Slots
      BY DEF SlotsInv
    <3> QED
      BY <1>3, <3>1
  <2>2. Parts(sidecar) /\ Whole(sidecar, asked)
    BY <1>1 DEF SlotsInv
  <2>3. \A s \in Slots : disk'[s] # NoArchive => Parts(disk'[s]) /\ Whole(disk'[s], saved'[s])
    BY <2>1, <2>2 DEF SlotsInv
  <2> QED
    BY <1>1, <2>1, <2>2, <2>3 DEF SlotsInv
<1> QED
  BY <1>1, <1>2, <1>3

LEMMA LoadingKeepsSlots ==
  ASSUME SlotsInv, NEW s \in Slots, LoadFromSlot(s)
  PROVE  SlotsInv'
<1>1. /\ spud' = "restoring" /\ target' = s /\ disk[s] # NoArchive
      /\ UNCHANGED <<sidecar, disk, asked, saved>>
  BY DEF LoadFromSlot
<1> QED
  BY <1>1 DEF SlotsInv

LEMMA RestoredKeepsSlots ==
  ASSUME SlotsInv, RestoreGlobals
  PROVE  SlotsInv'
<1> DEFINE a == disk[target]
           mixed == [sidecar EXCEPT !.records = a.records, !.supports = a.supports]
<1>1. /\ spud' = "travelling" /\ UNCHANGED <<disk, target, asked, saved>>
      /\ sidecar' = IF a.version = 2 THEN a ELSE mixed
  BY DEF RestoreGlobals
<1>2. Parts(a) /\ a.records \in Seq(Kept) /\ Parts(sidecar)
  BY DEF RestoreGlobals, SlotsInv, Whole
<1> HIDE DEF a
<1>3. Parts(sidecar') /\ sidecar'.records \in Seq(Kept)
  <2>1. CASE a.version = 2
    BY <1>1, <1>2, <2>1
  <2>2. CASE a.version # 2
    <3> DEFINE records == a.records
               supports == a.supports
    <3>1. records \in Seq(Kept) /\ supports \in Seq(Int)
      BY <1>2 DEF Parts
    <3>2. mixed = [sidecar EXCEPT !.records = records, !.supports = supports]
      OBVIOUS
    <3>3. sidecar' = mixed
      BY <1>1, <2>2
    <3> HIDE DEF records, supports, mixed
    <3>4. mixed = [version |-> sidecar.version, records |-> records, supports |-> supports,
                   loads |-> sidecar.loads, udls |-> sidecar.udls, shells |-> sidecar.shells,
                   fixities |-> sidecar.fixities]
      BY <1>2, <3>2 DEF Parts
    <3>5. Parts(mixed) /\ mixed.records = records
      BY <1>2, <3>1, <3>4 DEF Parts
    <3> QED
      BY <3>1, <3>3, <3>5
  <2> QED
    BY <2>1, <2>2
<1> QED
  BY <1>1, <1>3 DEF SlotsInv

LEMMA IdleKeepsSlots ==
  ASSUME SlotsInv, spud' = "idle", UNCHANGED <<sidecar, disk, target, asked, saved>>
  PROVE  SlotsInv'
BY DEF SlotsInv

\* The frame that a replay leaves.
LEMMA ReplayMakesFrame ==
  ASSUME SlotsInv, PostLoadGame
  PROVE  FrameInv'
<1> DEFINE records == sidecar.records
           actors == Actors(sidecar)
           n == Len(records)
           world == {actors[r] : r \in DOMAIN actors}
<1>1. Parts(sidecar) /\ records \in Seq(Kept)
  BY DEF PostLoadGame, SlotsInv
<1>2. n \in Nat /\ DOMAIN records = 1..n /\ \A r \in 1..n : records[r] \in Kept
  BY <1>1
<1>3. actors \in [1..n -> Comps]
  <2> SUFFICES ASSUME NEW r \in 1..n
               PROVE  (CHOOSE c \in Comps : EndI[c] = records[r].i /\ EndJ[c] = records[r].j) \in Comps
    BY <1>2 DEF Actors
  <2>1. \E c \in Comps : EndI[c] = records[r].i /\ EndJ[c] = records[r].j
    BY <1>2 DEF Kept
  <2> QED
    BY <2>1
<1>4. /\ model' = ReplayModel(sidecar) /\ extras' = ReplayExtras(sidecar)
      /\ indexToComponent' = actors /\ nextMemberIdx' = Len(actors) + 1
      /\ inWorld' = world
  BY DEF PostLoadGame, ReplayLoadedSidecar
<1> HIDE DEF actors
<1>5. Len(actors) = n
  BY <1>2, <1>3, LenProperties
<1>6. world \subseteq Comps
  BY <1>3
<1>7. model' \in Model /\ Len(model'.members) = n
  BY <1>1, <1>4, ModelReplayed
<1>8. Attachments(extras') /\ extras'.shells \in Seq(Seq(1..Len(model'.nodes)))
  BY <1>1, <1>4, ExtrasReplayed
<1> QED
  BY <1>3, <1>4, <1>5, <1>6, <1>7, <1>8 DEF FrameInv

-------------------------------------------------------------------------------
LEMMA SupportsListed ==
  ASSUME PersistenceAssumption
  PROVE  SetToSeq(Supports) \in Seq(Supports) /\ SetToSeq(Supports) \in Seq(Int)
<1> DEFINE n == Cardinality(Supports)
           lists == {f \in [1..n -> Supports] : IsInjective(f)}
<1>1. IsFiniteSet(Supports) /\ Supports \subseteq Int
  BY RegistryAssumption DEF PersistenceAssumption
<1>2. n \in Nat /\ ExistsBijection(1..n, Supports)
  BY <1>1, FS_CardinalityType
<1> HIDE DEF n
<1>3. lists # {}
  <2>1. PICK f : f \in Bijection(1..n, Supports)
    BY <1>2 DEF ExistsBijection
  <2>2. f \in [1..n -> Supports] /\ \A a, b \in 1..n : f[a] = f[b] => a = b
    BY <2>1 DEF Bijection, Injection, IsInjective
  <2> QED
    BY <2>2 DEF IsInjective
<1>4. SetToSeq(Supports) = CHOOSE f \in [1..n -> Supports] : IsInjective(f)
  BY DEF SetToSeq, n
<1>5. SetToSeq(Supports) \in [1..n -> Supports]
  BY <1>3, <1>4
<1>6. SetToSeq(Supports) \in Seq(Supports)
  BY <1>2, <1>5
<1> QED
  BY <1>1, <1>6, SeqIn

\* The archive of an older game: all its members are on.
LEMMA OldIsWhole ==
  ASSUME PersistenceAssumption
  PROVE  Parts(OldArchive) /\ Whole(OldArchive, OldFrame)
<1> DEFINE records == [k \in DOMAIN OldComps |->
                         [i |-> EndI[OldComps[k]], j |-> EndJ[OldComps[k]],
                          active |-> TRUE, flagged |-> FALSE]]
           supports == SetToSeq(Supports)
           n == Len(OldComps)
<1>1. OldArchive = [version |-> 0, records |-> records, supports |-> supports,
                    loads |-> <<>>, udls |-> <<>>, shells |-> <<>>, fixities |-> <<>>]
  <2> HIDE DEF records, supports
  <2>1. OldArchive = [Blank EXCEPT !.records = records, !.supports = supports]
    BY DEF OldArchive, records, supports
  <2> QED
    BY <2>1 DEF Blank
<1>2. n \in Nat /\ DOMAIN OldComps = 1..n /\ \A k \in 1..n : OldComps[k] \in Comps
  BY DEF PersistenceAssumption
<1>3. supports \in Seq(Int)
  BY SupportsListed
<1>4. records \in Seq(Kept) /\ Len(records) = n
  <2>1. ASSUME NEW k \in 1..n
        PROVE  [i |-> EndI[OldComps[k]], j |-> EndJ[OldComps[k]],
                active |-> TRUE, flagged |-> FALSE] \in Kept
    <3>1. OldComps[k] \in Comps /\ EndI[OldComps[k]] \in Int /\ EndJ[OldComps[k]] \in Int
      BY <1>2, RegistryAssumption
    <3> QED
      BY <3>1 DEF Kept, Rec
  <2> HIDE DEF n, Kept
  <2> QED
    BY <1>2, <2>1
<1> HIDE DEF records, supports
<1>5. Parts(OldArchive)
  <2>1. <<>> \in Seq(Int) /\ <<>> \in Seq(Seq(Int))
    OBVIOUS
  <2> QED
    BY <1>1, <1>3, <2>1 DEF Parts
<1>6. OldArchive.records = records /\ OldArchive.supports = supports
  BY <1>1
<1> DEFINE members == ReplayMembers(EmptyModel, records)
           held == ReplaySupports(members, supports)
<1>7. members \in Model /\ Len(members.members) = n
  <2>1. EmptyModel \in Model /\ Len(EmptyModel.members) = 0
    BY DEF EmptyModel, Model
  <2> QED
    BY <1>2, <1>4, <2>1, MembersReplayed
<1>8. held.members = members.members
  <2> HIDE DEF members
  <2> QED
    BY <1>3, <1>7, SupportsReplayed
<1>9. OldFrame.shape = Shape(held, NoExtras)
  BY <1>6 DEF OldFrame
<1> HIDE DEF members, held
<1>10. Len(OldFrame.shape.active) = n
  <2>1. OldFrame.shape.active = [r \in 1..Len(held.members) |-> held.members[r].active]
    BY <1>9 DEF Shape
  <2> QED
    BY <1>2, <1>7, <1>8, <2>1
<1> QED
  BY <1>4, <1>5, <1>6, <1>10 DEF Whole

LEMMA PersistStart ==
  ASSUME PersistenceAssumption, PersistInit
  PROVE  FrameInv /\ SlotsInv
<1>1. FrameInv
  <2>1. /\ model = EmptyModel /\ nextMemberIdx = 1 /\ indexToComponent = <<>>
        /\ inWorld = {} /\ extras = NoExtras
    BY DEF PersistInit, Init
  <2>2. /\ EmptyModel \in Model /\ Len(EmptyModel.members) = 0 /\ Len(EmptyModel.nodes) = 0
    BY DEF EmptyModel, Model
  <2>3. <<>> \in Seq(Seq(1..0)) /\ <<>> \in [1..0 -> Comps]
    OBVIOUS
  <2>4. Attachments(NoExtras) /\ NoExtras.shells = <<>>
    BY DEF NoExtras, Attachments
  <2> QED
    BY <2>1, <2>2, <2>3, <2>4 DEF FrameInv
<1>2. SlotsInv
  <2>1. PICK old \in SUBSET OldSlots :
          /\ disk = [s \in Slots |-> IF s \in old THEN OldArchive ELSE NoArchive]
          /\ saved = [s \in Slots |-> IF s \in old THEN OldFrame ELSE NoFrame]
    BY DEF PersistInit
  <2>2. sidecar = Blank /\ spud = "idle" /\ target \in Slots
    BY DEF PersistInit
  <2>3. Parts(Blank)
    <3>1. <<>> \in Seq(Int) /\ <<>> \in Seq(Seq(Int))
      OBVIOUS
    <3> QED
      BY <3>1 DEF Blank, Parts
  <2>4. \A s \in Slots : disk[s] # NoArchive => disk[s] = OldArchive /\ saved[s] = OldFrame
    BY <2>1
  <2>5. \A s \in Slots : disk[s] # NoArchive => Parts(disk[s]) /\ Whole(disk[s], saved[s])
    BY <2>4, OldIsWhole
  <2>6. disk = [s \in Slots |-> disk[s]] /\ saved = [s \in Slots |-> saved[s]]
    BY <2>1
  <2> QED
    BY <2>2, <2>3, <2>5, <2>6 DEF SlotsInv
<1> QED
  BY <1>1, <1>2

LEMMA PersistStep ==
  ASSUME PersistenceAssumption, FrameInv, SlotsInv, [PersistNext]_allVars
  PROVE  FrameInv' /\ SlotsInv'
<1>1. ASSUME UNCHANGED <<vars, extras>> PROVE FrameInv'
  BY <1>1 DEF vars, compVars, modelVars, FrameInv, Attachments
<1>2. ASSUME NEW s \in Slots, LoadFromSlot(s) PROVE FrameInv' /\ SlotsInv'
  BY <1>1, <1>2, LoadingKeepsSlots DEF LoadFromSlot
<1>3. ASSUME NEW s \in Slots, NEW allowEmpty \in BOOLEAN, SaveToSlot(s, allowEmpty)
      PROVE  FrameInv' /\ SlotsInv'
  BY <1>1, <1>3, SavingKeepsSlots DEF SaveToSlot
<1>4. CASE FinishSaveGame
  BY <1>1, <1>4, SavedKeepsSlots DEF FinishSaveGame
<1>5. CASE RestoreGlobals
  BY <1>1, <1>5, RestoredKeepsSlots DEF RestoreGlobals
<1>6. CASE PostLoadGame
  BY <1>6, ReplayMakesFrame, IdleKeepsSlots DEF PostLoadGame
<1>7. CASE LoadFails
  BY <1>1, <1>7, IdleKeepsSlots DEF LoadFails
<1>8. CASE Build
  BY <1>8, BuildKeepsFrame, StoreKeepsSlots DEF Build
<1>9. CASE Inject
  BY <1>9, InjectKeepsFrame, StoreKeepsSlots DEF Inject
<1>10. ASSUME UNCHANGED <<compVars, modelVars, extras>> PROVE FrameInv'
  BY <1>10 DEF compVars, modelVars, FrameInv, Attachments
<1>11. CASE GameTick
  BY <1>10, <1>11, StoreKeepsSlots DEF GameTick, Tick
<1>12. CASE DebounceTick
  BY <1>10, <1>12, StoreKeepsSlots DEF DebounceTick, TimerTick
<1>13. CASE UNCHANGED allVars
  BY <1>1, <1>13, StoreKeepsSlots DEF allVars
<1> QED
  BY <1>2, <1>3, <1>4, <1>5, <1>6, <1>7, <1>8, <1>9, <1>11, <1>12, <1>13 DEF PersistNext

\* A refused save takes its snapshot all the same, a failed load leaves the arrays of another
\* slot behind, and a snapshot can miss members whose actors are gone: whatever is saved,
\* refused, loaded and built in between, a slot holds every member of the frame it was asked
\* to keep, and none that is off, for every geometry, tolerance, set of slots and shell.
THEOREM SlotsHoldWholeFrames ==
  ASSUME PersistenceAssumption
  PROVE  PersistSpec => []ArchivesAreWhole
<1>1. PersistInit => FrameInv /\ SlotsInv
  BY PersistStart
<1>2. FrameInv /\ SlotsInv /\ [PersistNext]_allVars => (FrameInv /\ SlotsInv)'
  BY PersistStep
<1>3. SlotsInv => ArchivesAreWhole
  <2> SUFFICES ASSUME SlotsInv, NEW s \in Slots, disk[s] # NoArchive
               PROVE  /\ Len(disk[s].records) = Len(saved[s].shape.active)
                      /\ \A k \in DOMAIN disk[s].records : disk[s].records[k].active
    BY DEF ArchivesAreWhole
  <2> DEFINE records == disk[s].records
  <2>1. records \in Seq(Kept) /\ Len(records) = Len(saved[s].shape.active)
    BY DEF SlotsInv, Whole
  <2>2. \A rec \in Kept : rec.active = TRUE
    BY DEF Kept
  <2> HIDE DEF records
  <2>3. \A k \in DOMAIN records : records[k] \in Kept
    BY <2>1
  <2>4. \A k \in DOMAIN records : records[k].active
    BY <2>2, <2>3
  <2> QED
    BY <2>1, <2>4 DEF records
<1> QED
  BY <1>1, <1>2, <1>3, PTL DEF PersistSpec

-------------------------------------------------------------------------------
(* Persistence: what a replay gives back.                                   *)

\* A loop over an array meets each number of T, and numbers that are all in T as they come.
LEMMA InOrderMeets ==
  ASSUME NEW n \in Nat, NEW T \in SUBSET (1..n)
  PROVE  LET met == InOrder(n, T) IN
         /\ \A t \in T : \E j \in 1..Len(met) : met[j] = t
         /\ Len(met) = n => T = 1..n
         /\ T = 1..n => met = [k \in 1..n |-> k]
<1> DEFINE list == [k \in 1..n |-> k]
<1>1. list \in Seq(Int) /\ Len(list) = n /\ \A k \in 1..n : list[k] = k
  OBVIOUS
<1>2. InOrder(n, T) = MetIn(T, list)
  BY DEF InOrder, MetIn, Meet
<1> HIDE DEF list
<1>3. PICK after \in [0..n -> Seq(T)] :
        /\ after[0] = <<>>
        /\ \A k \in 1..n : after[k] = Meet(T, after[k - 1], list[k])
        /\ MetIn(T, list) = after[n]
  BY <1>1, InOrderByOne
<1> DEFINE Has(s, k) == /\ s \in Seq(T) /\ Len(s) \in 0..k
                        /\ \A t \in T : t <= k => \E j \in 1..Len(s) : s[j] = t
                        /\ Len(s) = k => 1..k \subseteq T /\ \A j \in 1..k : s[j] = j
                        /\ 1..k \subseteq T => Len(s) = k
           P == {k \in 0..n : Has(after[k], k)}
<1>4. 0 \in P
  <2>1. \A t \in T : ~(t <= 0)
    OBVIOUS
  <2>2. <<>> \in Seq(T) /\ Len(<<>>) = 0 /\ 1..0 = {}
    OBVIOUS
  <2>3. Has(<<>>, 0)
    BY <2>1, <2>2
  <2> HIDE DEF Has
  <2> QED
    BY <1>3, <2>3
<1>5. ASSUME NEW k \in 1..n, k - 1 \in P PROVE k \in P
  <2> DEFINE s == after[k - 1]
             all == after[k]
  <2>1. k \in 0..n /\ k - 1 \in 0..n
    OBVIOUS
  <2>2. all = IF k \in T THEN Append(s, k) ELSE s
    BY <1>1, <1>3 DEF Meet
  <2>3. /\ s \in Seq(T) /\ Len(s) \in 0..(k - 1)
        /\ \A t \in T : t <= k - 1 => \E j \in 1..Len(s) : s[j] = t
        /\ Len(s) = k - 1 => 1..(k - 1) \subseteq T /\ \A j \in 1..(k - 1) : s[j] = j
        /\ 1..(k - 1) \subseteq T => Len(s) = k - 1
    BY <1>5
  <2> HIDE DEF s, all, P
  <2>4. CASE k \in T
    <3>1. /\ all \in Seq(T) /\ Len(all) = Len(s) + 1 /\ all[Len(s) + 1] = k
          /\ \A j \in 1..Len(s) : all[j] = s[j]
      BY <2>2, <2>3, <2>4
    <3> HIDE DEF list
    <3>2. ASSUME NEW t \in T, t <= k PROVE \E j \in 1..Len(all) : all[j] = t
      <4>1. CASE t = k
        BY <2>3, <3>1, <4>1
      <4>2. CASE t # k
        <5>1. PICK j \in 1..Len(s) : s[j] = t
          BY <2>3, <3>2, <4>2
        <5>2. j \in 1..Len(all) /\ all[j] = t
          BY <2>3, <3>1, <5>1
        <5> QED
          BY <5>2
      <4> QED
        BY <4>1, <4>2
    <3>3. ASSUME Len(all) = k PROVE 1..k \subseteq T /\ \A j \in 1..k : all[j] = j
      <4>1. Len(s) \in Int /\ Len(all) = Len(s) + 1 /\ k \in Int
        BY <2>3, <3>1
      <4>2. Len(s) = k - 1
        BY ONLY <3>3, <4>1
      <4>3. 1..(k - 1) \subseteq T /\ \A j \in 1..(k - 1) : s[j] = j
        BY <2>3, <4>2
      <4>4. \A j \in 1..k : j = k \/ j \in 1..(k - 1)
        OBVIOUS
      <4>5. \A j \in 1..(k - 1) : all[j] = j
        BY <3>1, <4>2, <4>3
      <4>6. all[k] = k
        BY <3>1, <4>1, <4>2
      <4> QED
        BY <2>4, <4>3, <4>4, <4>5, <4>6
    <3>4. 1..k \subseteq T => Len(all) = k
      <4> SUFFICES ASSUME 1..k \subseteq T PROVE Len(all) = k
        OBVIOUS
      <4>1. 1..(k - 1) \subseteq T
        OBVIOUS
      <4> QED
        BY <2>3, <3>1, <4>1
    <3>5. Len(all) \in 0..k
      BY <2>3, <3>1
    <3>6. Has(all, k)
      BY <3>1, <3>2, <3>3, <3>4, <3>5
    <3> HIDE DEF Has
    <3> QED
      BY <2>1, <3>6 DEF all, P
  <2>5. CASE k \notin T
    <3>1. all = s /\ k \in 1..k
      BY <2>2, <2>5
    <3>2. \A t \in T : t <= k => t <= k - 1
      BY <2>5
    <3>3. Len(s) # k /\ Len(s) \in 0..k
      BY <2>3
    <3>4. Has(all, k)
      BY <2>3, <2>5, <3>1, <3>2, <3>3
    <3> HIDE DEF Has
    <3> QED
      BY <2>1, <3>4 DEF all, P
  <2> QED
    BY <2>4, <2>5
<1>6. 0..n \subseteq P
  <2> HIDE DEF P
  <2> QED
    BY <1>4, <1>5, Ascent
<1> DEFINE met == InOrder(n, T)
<1>7. Has(met, n)
  <2>1. n \in 0..n
    OBVIOUS
  <2> HIDE DEF Has
  <2> QED
    BY <1>2, <1>3, <1>6, <2>1
<1> HIDE DEF met, P
<1>8. \A t \in T : t <= n
  OBVIOUS
<1>9. T = 1..n => met = [k \in 1..n |-> k]
  <2> SUFFICES ASSUME T = 1..n PROVE met = [k \in 1..n |-> k]
    OBVIOUS
  <2>1. met \in Seq(T) /\ Len(met) = n /\ \A j \in 1..n : met[j] = j
    BY <1>7
  <2> QED
    BY <2>1
<1> QED
  BY <1>7, <1>8, <1>9 DEF met

\* What Picked takes out of a list, and of one where it takes everything.
LEMMA PickedIs ==
  ASSUME NEW V, NEW s \in Seq(V), NEW S \in SUBSET (1..Len(s))
  PROVE  /\ Picked(s, S) \in Seq(V)
         /\ \A k \in 1..Len(Picked(s, S)) : \E x \in S : Picked(s, S)[k] = s[x]
         /\ \A x \in S : \E k \in 1..Len(Picked(s, S)) : Picked(s, S)[k] = s[x]
         /\ S = 1..Len(s) => Picked(s, S) = s
<1> DEFINE met == InOrder(Len(s), S)
           all == [k \in DOMAIN met |-> s[met[k]]]
<1>1. Len(s) \in Nat /\ \A x \in S : s[x] \in V
  OBVIOUS
<1>2. met \in Seq(S)
  BY <1>1, InOrderTyped
<1>3. /\ \A x \in S : \E j \in 1..Len(met) : met[j] = x
      /\ S = 1..Len(s) => met = [k \in 1..Len(s) |-> k]
  BY <1>1, InOrderMeets
<1>4. Picked(s, S) = all
  BY DEF Picked
<1> HIDE DEF met
<1>5. Len(met) \in Nat /\ DOMAIN met = 1..Len(met) /\ \A k \in 1..Len(met) : met[k] \in S
  BY <1>2
<1>6. /\ all \in Seq(V) /\ Len(all) = Len(met) /\ \A k \in 1..Len(met) : all[k] = s[met[k]]
  <2>1. all = [k \in 1..Len(met) |-> s[met[k]]]
    BY <1>5
  <2>2. \A k \in 1..Len(met) : s[met[k]] \in V
    BY <1>1, <1>5
  <2> HIDE DEF all
  <2>3. all \in [1..Len(met) -> V] /\ \A k \in 1..Len(met) : all[k] = s[met[k]]
    BY <2>1, <2>2
  <2>4. all \in Seq(V) /\ Len(all) = Len(met)
    BY <1>5, <2>3
  <2> QED
    BY <2>3, <2>4
<1>7. S = 1..Len(s) => all = s
  <2> SUFFICES ASSUME S = 1..Len(s) PROVE all = s
    OBVIOUS
  <2>1. met = [k \in 1..Len(s) |-> k]
    BY <1>3
  <2>2. DOMAIN met = 1..Len(s) /\ \A k \in 1..Len(s) : met[k] = k
    BY <2>1
  <2>3. all = [k \in 1..Len(s) |-> s[k]]
    BY <2>2
  <2> QED
    BY <2>3
<1> HIDE DEF all
<1>8. \A k \in 1..Len(all) : \E x \in S : all[k] = s[x]
  BY <1>5, <1>6
<1>9. \A x \in S : \E k \in 1..Len(all) : all[k] = s[x]
  BY <1>3, <1>6
<1> QED
  BY <1>4, <1>6, <1>7, <1>8, <1>9
-------------------------------------------------------------------------------
\* Where being near is transitive, nodes that stand apart lie one to a class.
NearIn(P) == P \subseteq Int /\ Separate(P)

\* On positions that it does not chain, being near is an equivalence.
LEMMA NearClasses ==
  ASSUME NEW P, NearIn(P)
  PROVE  /\ \A p \in P : Near(p, p)
         /\ \A p, q \in P : Near(p, q) => Near(q, p)
         /\ \A p, q, r \in P : Near(p, q) /\ Near(q, r) => Near(p, r)
<1>1. \A p \in P : p \in Int
  BY DEF NearIn
<1>2. \A p \in P : Near(p, p)
  BY <1>1, MergeTolAssumption DEF Near
<1>3. \A p, q \in P : Near(p, q) => Near(q, p)
  BY <1>1 DEF Near
<1> QED
  BY <1>2, <1>3 DEF NearIn, Separate

\* The nodes that a replay has placed at positions of P, those near to Q of them held.
Placed(nodes, P, Q) ==
  /\ nodes \in Seq(Node) /\ Apart(nodes)
  /\ \A n \in 1..Len(nodes) : nodes[n].pos \in P
  /\ \A q \in Q : Hits(nodes, q) # {}
  /\ \A n \in 1..Len(nodes) : nodes[n].fixed <=> \E q \in Q : Near(nodes[n].pos, q)

\* A position hits one node at most, where no two nodes are near each other.
LEMMA OneHit ==
  ASSUME NEW P, NearIn(P), NEW nodes \in Seq(Node), Apart(nodes),
         \A n \in 1..Len(nodes) : nodes[n].pos \in P,
         NEW p \in P, NEW a \in Hits(nodes, p), NEW b \in Hits(nodes, p)
  PROVE  a = b
<1>1. /\ a \in 1..Len(nodes) /\ b \in 1..Len(nodes)
      /\ Near(nodes[a].pos, p) /\ Near(nodes[b].pos, p)
  BY DEF Hits
<1>2. nodes[a].pos \in P /\ nodes[b].pos \in P
  BY <1>1
<1>3. Near(nodes[a].pos, nodes[b].pos)
  BY <1>1, <1>2, NearClasses
<1> QED
  BY <1>1, <1>3 DEF Apart

\* A node that is found or added is placed like the rest, and none of them becomes fixed.
LEMMA FindOrAddPlaced ==
  ASSUME NEW P, NearIn(P), NEW Q \in SUBSET P, NEW nodes, Placed(nodes, P, Q), NEW p \in P
  PROVE  Placed(FindOrAddNode(nodes, p), P, Q)
<1> DEFINE new == [pos |-> p, fixed |-> FALSE]
           all == FindOrAddNode(nodes, p)
<1>1. p \in Int /\ nodes \in Seq(Node) /\ Apart(nodes)
  BY DEF NearIn, Placed
<1>2. CASE Hits(nodes, p) # {}
  BY <1>2 DEF FindOrAddNode
<1>3. CASE Hits(nodes, p) = {}
  <2>1. new \in Node /\ new.pos = p /\ new.fixed = FALSE
    BY <1>1 DEF Node
  <2>2. all = Append(nodes, new)
    BY <1>3 DEF FindOrAddNode
  <2> HIDE DEF new
  <2>3. /\ Len(nodes) \in Nat /\ Len(all) = Len(nodes) + 1
        /\ all[Len(nodes) + 1] = new
        /\ \A n \in 1..Len(nodes) : all[n] = nodes[n]
    BY <1>1, <2>1, <2>2
  <2>4. all \in Seq(Node) /\ Apart(all) /\ Grows(nodes, all)
    BY <1>1, FindOrAddTyped, FindOrAddApart, FindOrAddGrows
  <2> HIDE DEF all
  <2>5. \A n \in 1..Len(all) : n \in 1..Len(nodes) \/ n = Len(nodes) + 1
    BY <2>3
  <2>6. \A n \in 1..Len(all) : all[n].pos \in P
    BY <2>1, <2>3, <2>5 DEF Placed
  <2>7. \A q \in Q : Hits(all, q) # {}
    BY <1>1, <2>4, HitsStay DEF Placed
  <2>8. ASSUME NEW q \in Q PROVE ~Near(p, q)
    <3>1. PICK n \in 1..Len(nodes) : Near(nodes[n].pos, q)
      BY DEF Placed, Hits
    <3>2. nodes[n].pos \in P /\ q \in P
      BY DEF Placed
    <3>3. ~Near(nodes[n].pos, p)
      BY <1>3 DEF Hits
    <3> QED
      BY <3>1, <3>2, <3>3, NearClasses
  <2>9. \A n \in 1..Len(all) : all[n].fixed <=> \E q \in Q : Near(all[n].pos, q)
    <3> SUFFICES ASSUME NEW n \in 1..Len(all)
                 PROVE  all[n].fixed <=> \E q \in Q : Near(all[n].pos, q)
      OBVIOUS
    <3>1. CASE n \in 1..Len(nodes)
      BY <2>3, <3>1 DEF Placed
    <3>2. CASE n = Len(nodes) + 1
      BY <2>1, <2>3, <2>8, <3>2
    <3> QED
      BY <2>5, <3>1, <3>2
  <2>10. Placed(all, P, Q)
    BY <2>4, <2>6, <2>7, <2>9 DEF Placed
  <2> QED
    BY <2>10 DEF all
<1> QED
  BY <1>2, <1>3

\* Nor by both of a member's ends.
LEMMA AddMemberPlaced ==
  ASSUME NEW P, NearIn(P), NEW Q \in SUBSET P, NEW m, Placed(m.nodes, P, Q),
         NEW p \in P, NEW q \in P
  PROVE  Placed(AddMember(m, p, q).nodes, P, Q)
<1> DEFINE withI == FindOrAddNode(m.nodes, p)
<1>1. Placed(withI, P, Q)
  BY FindOrAddPlaced
<1>2. AddMember(m, p, q).nodes = FindOrAddNode(withI, q)
  BY DEF AddMember
<1> HIDE DEF withI
<1> QED
  BY <1>1, <1>2, FindOrAddPlaced

\* A support fixes the node of its position, and no other.
LEMMA AddSupportPlaced ==
  ASSUME NEW P, NearIn(P), NEW Q \in SUBSET P, NEW m \in Model, Placed(m.nodes, P, Q),
         NEW p \in P
  PROVE  Placed(AddSupport(m, p).nodes, P, Q \cup {p})
<1> DEFINE nodes == FindOrAddNode(m.nodes, p)
           x     == NodeAt(nodes, p)
           held  == [nodes[x] EXCEPT !.fixed = TRUE]
           all   == AddSupport(m, p).nodes
<1>1. p \in Int /\ m.nodes \in Seq(Node)
  BY DEF NearIn, Model
<1>2. Placed(nodes, P, Q) /\ nodes \in Seq(Node) /\ Hits(nodes, p) # {}
  BY <1>1, FindOrAddPlaced, FindOrAddTyped
<1>3. all = [nodes EXCEPT ![x] = held]
  BY DEF AddSupport, Model
<1> HIDE DEF nodes
<1>4. x \in Hits(nodes, p) /\ x \in 1..Len(nodes)
  BY <1>1, <1>2, NodeAtTyped
<1>5. held \in Node /\ held.pos = nodes[x].pos /\ held.fixed = TRUE
  <2>1. nodes[x] \in Node
    BY <1>2, <1>4
  <2> HIDE DEF x
  <2> QED
    BY <2>1 DEF Node
<1> HIDE DEF x, held, all
<1>6. /\ all \in Seq(Node) /\ Len(all) = Len(nodes)
      /\ \A n \in 1..Len(nodes) : all[n].pos = nodes[n].pos
      /\ all[x].fixed = TRUE
      /\ \A n \in 1..Len(nodes) : n # x => all[n] = nodes[n]
  <2>1. all \in Seq(Node) /\ Len(all) = Len(nodes) /\ all[x] = held
    BY <1>2, <1>3, <1>4, <1>5
  <2>2. \A n \in 1..Len(nodes) : n # x => all[n] = nodes[n]
    BY <1>2, <1>3
  <2> QED
    BY <1>5, <2>1, <2>2
<1>7. Apart(all) /\ \A n \in 1..Len(all) : all[n].pos \in P
  BY <1>2, <1>6 DEF Apart, Placed
<1>8. ASSUME NEW q, Hits(nodes, q) # {} PROVE Hits(all, q) # {}
  <2>1. Len(nodes) \in Nat
    BY <1>2
  <2>2. Grows(nodes, all)
    BY <1>6, <2>1 DEF Grows
  <2> QED
    BY <1>2, <1>6, <1>8, <2>2, HitsStay
<1>9. \A q \in Q \cup {p} : Hits(all, q) # {}
  BY <1>2, <1>8 DEF Placed
<1>10. ASSUME NEW n \in 1..Len(all)
       PROVE  all[n].fixed <=> \E q \in Q \cup {p} : Near(all[n].pos, q)
  <2>1. n \in 1..Len(nodes) /\ all[n].pos = nodes[n].pos
    BY <1>6
  <2>2. CASE n = x
    <3>1. Near(all[n].pos, p)
      BY <1>4, <2>1, <2>2 DEF Hits
    <3> QED
      BY <1>6, <2>2, <3>1
  <2>3. CASE n # x
    <3>1. ~Near(nodes[n].pos, p)
      <4> SUFFICES ASSUME Near(nodes[n].pos, p) PROVE FALSE
        OBVIOUS
      <4>1. n \in Hits(nodes, p)
        BY <2>1 DEF Hits
      <4>2. Apart(nodes) /\ \A k \in 1..Len(nodes) : nodes[k].pos \in P
        BY <1>2 DEF Placed
      <4>3. n = x
        BY <1>2, <1>4, <4>1, <4>2, OneHit
      <4> QED
        BY <2>3, <4>3
    <3>2. nodes[n].fixed <=> \E q \in Q : Near(nodes[n].pos, q)
      BY <1>2, <2>1 DEF Placed
    <3>3. all[n] = nodes[n]
      BY <1>6, <2>1, <2>3
    <3> QED
      BY <3>1, <3>2, <3>3
  <2> QED
    BY <2>2, <2>3
<1> QED
  BY <1>6, <1>7, <1>9, <1>10 DEF Placed, all
-------------------------------------------------------------------------------
\* The ends of the members that records tell of, and the places they are at.
AllEnds(recs) == (1..Len(recs)) \X {"i", "j"}
Place(recs, e) == recs[e[1]][e[2]]
EndsNear(recs, p) == {e \in AllEnds(recs) : Near(Place(recs, e), p)}

Drawn(recs, P) == recs \in Seq(Kept) /\ \A e \in AllEnds(recs) : Place(recs, e) \in P

\* A model whose members are those of the records.
Laid(m, recs, P) ==
  /\ m \in Model /\ Len(m.members) = Len(recs) /\ Apart(m.nodes)
  /\ \A n \in 1..Len(m.nodes) : m.nodes[n].pos \in P
  /\ \A e \in AllEnds(recs) : NodeOf(m, e) \in Hits(m.nodes, Place(recs, e))

\* Which ends meet at a node is told by its position.
LEMMA EndsMeet ==
  ASSUME NEW P, NearIn(P), NEW recs, Drawn(recs, P), NEW m, Laid(m, recs, P),
         NEW p \in P, NEW n \in Hits(m.nodes, p)
  PROVE  EndsAt(m, n) = EndsNear(recs, p)
<1>1. Ends(m) = AllEnds(recs)
  BY DEF Ends, AllEnds, Laid
<1>2. m.nodes \in Seq(Node) /\ n \in 1..Len(m.nodes) /\ Near(m.nodes[n].pos, p)
  BY DEF Laid, Model, Hits
<1>3. ASSUME NEW e \in AllEnds(recs)
      PROVE  NodeOf(m, e) = n <=> Near(Place(recs, e), p)
  <2> DEFINE k == NodeOf(m, e)
             q == Place(recs, e)
  <2>1. k \in 1..Len(m.nodes) /\ Near(m.nodes[k].pos, q)
    BY DEF Laid, Hits
  <2>2. m.nodes[k].pos \in P /\ m.nodes[n].pos \in P /\ q \in P
    BY <1>2, <2>1 DEF Laid, Drawn
  <2> HIDE DEF k, q
  <2>3. ASSUME k = n PROVE Near(q, p)
    BY <1>2, <2>1, <2>2, <2>3, NearClasses
  <2>4. ASSUME Near(q, p) PROVE k = n
    <3>1. Near(m.nodes[k].pos, p)
      BY <2>1, <2>2, <2>4, NearClasses
    <3>2. k \in Hits(m.nodes, p)
      BY <2>1, <3>1 DEF Hits
    <3>3. Apart(m.nodes) /\ \A x \in 1..Len(m.nodes) : m.nodes[x].pos \in P
      BY DEF Laid
    <3> QED
      BY <1>2, <3>2, <3>3, OneHit
  <2> QED
    BY <2>3, <2>4 DEF k, q
<1> QED
  BY <1>1, <1>3 DEF EndsAt, EndsNear

\* A member comes with its two nodes, and with no others.
LEMMA AddMemberLays ==
  ASSUME NEW m \in Model, NEW p \in Int, NEW q \in Int
  PROVE  LET a == AddMember(m, p, q)
             row == a.members[Len(m.members) + 1]
         IN /\ row.i \in Hits(a.nodes, p) /\ row.j \in Hits(a.nodes, q)
            /\ \A n \in 1..Len(a.nodes) : n \in 1..Len(m.nodes) \/ a.nodes[n].pos \in {p, q}
<1> DEFINE withI  == FindOrAddNode(m.nodes, p)
           withIJ == FindOrAddNode(withI, q)
           new    == [i |-> NodeAt(withI, p), j |-> NodeAt(withIJ, q), active |-> TRUE]
           rows   == Append(m.members, new)
<1>1. m.nodes \in Seq(Node) /\ m.members \in Seq(Row)
  BY DEF Model
<1>2. withI \in Seq(Node) /\ Hits(withI, p) # {} /\ Grows(m.nodes, withI)
  BY <1>1, FindOrAddTyped, FindOrAddGrows
<1>3. withIJ \in Seq(Node) /\ Hits(withIJ, q) # {} /\ Grows(withI, withIJ)
  BY <1>2, FindOrAddTyped, FindOrAddGrows
<1>4. AddMember(m, p, q) = [nodes |-> withIJ, members |-> rows]
  BY DEF AddMember
<1>5. ASSUME NEW nodes \in Seq(Node), NEW x \in Int, NEW n \in 1..Len(FindOrAddNode(nodes, x))
      PROVE  n \in 1..Len(nodes) \/ FindOrAddNode(nodes, x)[n].pos = x
  <2>1. CASE Hits(nodes, x) # {}
    BY <2>1 DEF FindOrAddNode
  <2>2. CASE Hits(nodes, x) = {}
    <3> DEFINE node == [pos |-> x, fixed |-> FALSE]
    <3>1. node \in Node /\ node.pos = x
      BY DEF Node
    <3>2. FindOrAddNode(nodes, x) = Append(nodes, node)
      BY <2>2 DEF FindOrAddNode
    <3> HIDE DEF node
    <3>3. /\ Len(nodes) \in Nat /\ Len(Append(nodes, node)) = Len(nodes) + 1
          /\ Append(nodes, node)[Len(nodes) + 1] = node
      BY <3>1
    <3> QED
      BY <3>1, <3>2, <3>3
  <2> QED
    BY <2>1, <2>2
<1>6. \A n \in 1..Len(withIJ) : n \in 1..Len(withI) \/ withIJ[n].pos = q
  BY <1>2, <1>5
<1>7. \A n \in 1..Len(withI) : n \in 1..Len(m.nodes) \/ withI[n].pos = p
  BY <1>1, <1>5
<1> HIDE DEF withI, withIJ
<1>8. \A n \in 1..Len(withIJ) : n \in 1..Len(m.nodes) \/ withIJ[n].pos \in {p, q}
  BY <1>3, <1>6, <1>7 DEF Grows
<1>9. NodeAt(withI, p) \in Hits(withI, p) /\ NodeAt(withIJ, q) \in Hits(withIJ, q)
  BY <1>2, <1>3, NodeAtTyped
<1>10. NodeAt(withI, p) \in Hits(withIJ, p)
  <2>1. Len(withI) \in Nat /\ Len(withIJ) \in Nat
    BY <1>2, <1>3
  <2> QED
    BY <1>3, <1>9, <2>1 DEF Grows, Hits
<1>11. NodeAt(withI, p) \in Nat /\ NodeAt(withIJ, q) \in Nat
  BY <1>9 DEF Hits
<1>12. new \in Row /\ new.i = NodeAt(withI, p) /\ new.j = NodeAt(withIJ, q)
  BY <1>11 DEF Row
<1> HIDE DEF new
<1>13. rows[Len(m.members) + 1] = new
  BY <1>1, <1>12
<1> HIDE DEF rows
<1> QED
  BY <1>4, <1>8, <1>9, <1>10, <1>12, <1>13

\* The members replayed onto what stands already, and where nothing stood.
AllOn(m, recs) == \A r \in 1..Len(recs) : m.members[r].active = TRUE
Raised(m, recs, P, Q) ==
  LET all == ReplayMembers(m, recs) IN
  /\ Placed(all.nodes, P, Q) /\ Laid(all, recs, P) /\ AllOn(all, recs)
  /\ m.nodes = <<>> => \A n \in 1..Len(all.nodes) : \E e \in AllEnds(recs) :
                         all.nodes[n].pos = Place(recs, e)

\* Registering the recorded members one by one raises a frame of them.
LEMMA MembersLaid ==
  ASSUME NEW P, NearIn(P), NEW Q \in SUBSET P, NEW recs, Drawn(recs, P),
         NEW m \in Model, Len(m.members) = 0, Placed(m.nodes, P, Q)
  PROVE  Raised(m, recs, P, Q)
<1> DEFINE N == Len(recs)
<1>1. PICK after \in [0..N -> Model] :
        /\ after[0] = m
        /\ \A k \in 1..N : after[k] = AddMember(after[k - 1], recs[k].i, recs[k].j)
        /\ ReplayMembers(m, recs) = after[N]
  BY MembersByOne DEF Drawn
<1>2. N \in Nat /\ \A k \in 1..N : recs[k] \in Kept /\ k \in 0..N /\ k - 1 \in 0..N
  BY DEF Drawn
<1>3. \A k \in 1..N : /\ recs[k].i \in P /\ recs[k].j \in P
                      /\ recs[k].i \in Int /\ recs[k].j \in Int
  <2> SUFFICES ASSUME NEW k \in 1..N PROVE recs[k].i \in P /\ recs[k].j \in P
    BY DEF NearIn
  <2>1. <<k, "i">> \in AllEnds(recs) /\ <<k, "j">> \in AllEnds(recs)
    BY DEF AllEnds
  <2>2. Place(recs, <<k, "i">>) = recs[k].i /\ Place(recs, <<k, "j">>) = recs[k].j
    BY DEF Place
  <2> QED
    BY <2>1, <2>2 DEF Drawn
<1> DEFINE Row1(x, r) == /\ x.members[r].active = TRUE
                         /\ x.members[r].i \in Hits(x.nodes, recs[r].i)
                         /\ x.members[r].j \in Hits(x.nodes, recs[r].j)
           From(x, k) == m.nodes = <<>> => \A n \in 1..Len(x.nodes) : \E r \in 1..k :
                           x.nodes[n].pos \in {recs[r].i, recs[r].j}
           Holds(x, k) == /\ Len(x.members) = k /\ Placed(x.nodes, P, Q)
                          /\ \A r \in 1..k : Row1(x, r)
                          /\ From(x, k)
           S == {k \in 0..N : Holds(after[k], k)}
<1>4. 0 \in S
  <2>1. m.nodes = <<>> => 1..Len(m.nodes) = {}
    OBVIOUS
  <2>2. Holds(m, 0)
    BY <2>1
  <2> HIDE DEF Holds
  <2> QED
    BY <1>1, <1>2, <2>2
<1>5. ASSUME NEW k \in 1..N, k - 1 \in S PROVE k \in S
  <2> DEFINE x == after[k - 1]
             y == after[k]
             p == recs[k].i
             q == recs[k].j
  <2>1. /\ x \in Model /\ y = AddMember(x, p, q) /\ p \in P /\ q \in P /\ p \in Int /\ q \in Int
    BY <1>1, <1>2, <1>3
  <2>2. Holds(x, k - 1)
    BY <1>5
  <2> HIDE DEF x, y, S
  <2>3. /\ y \in Model /\ Len(y.members) = k
        /\ \A r \in 1..(k - 1) : y.members[r] = x.members[r]
        /\ y.members[k].active = TRUE
        /\ Grows(x.nodes, y.nodes)
    <3>1. Len(x.members) = k - 1 /\ k \in Nat
      BY <2>2
    <3> HIDE DEF p, q
    <3>2. /\ y \in Model /\ Len(y.members) = Len(x.members) + 1
          /\ \A r \in 1..Len(x.members) : y.members[r] = x.members[r]
          /\ y.members[Len(x.members) + 1].active = TRUE
          /\ Grows(x.nodes, y.nodes)
      BY <2>1, AddMemberTyped, AddMemberGrows
    <3>3. Len(x.members) + 1 = k
      BY <3>1
    <3> QED
      BY <3>1, <3>2, <3>3
  <2>4. Placed(y.nodes, P, Q)
    <3> HIDE DEF p, q
    <3> QED
      BY <2>1, <2>2, AddMemberPlaced
  <2>5. /\ y.members[k].i \in Hits(y.nodes, p) /\ y.members[k].j \in Hits(y.nodes, q)
        /\ \A n \in 1..Len(y.nodes) : n \in 1..Len(x.nodes) \/ y.nodes[n].pos \in {p, q}
    <3>1. Len(x.members) + 1 = k
      BY <2>2
    <3> HIDE DEF p, q
    <3> QED
      BY <2>1, <3>1, AddMemberLays
  <2>6. x.nodes \in Seq(Node) /\ y.nodes \in Seq(Node) /\ Len(x.nodes) \in Nat /\ Len(y.nodes) \in Nat
    BY <2>1, <2>3 DEF Model
  <2>7. \A z : Hits(x.nodes, z) \subseteq Hits(y.nodes, z)
    BY <2>3, <2>6 DEF Grows, Hits
  <2>8. ASSUME NEW r \in 1..k PROVE Row1(y, r)
    <3>1. CASE r = k
      BY <2>3, <2>5, <3>1
    <3>2. CASE r # k
      <4>1. r \in 1..(k - 1)
        BY <3>2
      <4>2. Row1(x, r)
        BY <2>2, <4>1
      <4> QED
        BY <2>3, <2>7, <4>1, <4>2
    <3> QED
      BY <3>1, <3>2
  <2>9. From(y, k)
    <3> SUFFICES ASSUME m.nodes = <<>>, NEW n \in 1..Len(y.nodes)
                 PROVE  \E r \in 1..k : y.nodes[n].pos \in {recs[r].i, recs[r].j}
      OBVIOUS
    <3>1. CASE n \in 1..Len(x.nodes)
      <4>1. PICK r \in 1..(k - 1) : x.nodes[n].pos \in {recs[r].i, recs[r].j}
        BY <2>2, <3>1
      <4>2. y.nodes[n].pos = x.nodes[n].pos /\ r \in 1..k
        BY <2>3, <3>1 DEF Grows
      <4> QED
        BY <4>1, <4>2
    <3>2. CASE y.nodes[n].pos \in {p, q}
      BY <3>2
    <3> QED
      BY <2>5, <3>1, <3>2
  <2>10. Holds(y, k)
    BY <2>3, <2>4, <2>8, <2>9
  <2> HIDE DEF Holds
  <2> QED
    BY <1>2, <2>10 DEF y, S
<1>6. 0..N \subseteq S
  <2> HIDE DEF S, N
  <2> QED
    BY <1>2, <1>4, <1>5, Ascent
<1> DEFINE all == ReplayMembers(m, recs)
<1>7. all \in Model /\ Holds(all, N)
  <2>1. N \in 0..N
    BY <1>2
  <2> HIDE DEF Holds
  <2> QED
    BY <1>1, <1>6, <2>1
<1> HIDE DEF all, S
<1>8. Laid(all, recs, P)
  <2>1. ASSUME NEW e \in AllEnds(recs) PROVE NodeOf(all, e) \in Hits(all.nodes, Place(recs, e))
    <3>1. PICK r \in 1..N, s \in {"i", "j"} : e = <<r, s>>
      BY DEF AllEnds
    <3>2. Row1(all, r)
      BY <1>7
    <3>3. CASE s = "i"
      <4>1. NodeOf(all, e) = all.members[r].i /\ Place(recs, e) = recs[r].i
        BY <3>1, <3>3 DEF NodeOf, Place
      <4> QED
        BY <3>2, <4>1
    <3>4. CASE s = "j"
      <4>1. NodeOf(all, e) = all.members[r].j /\ Place(recs, e) = recs[r].j
        BY <3>1, <3>4 DEF NodeOf, Place
      <4> QED
        BY <3>2, <4>1
    <3> QED
      BY <3>3, <3>4
  <2>2. Apart(all.nodes) /\ \A n \in 1..Len(all.nodes) : all.nodes[n].pos \in P
    BY <1>7 DEF Placed
  <2> QED
    BY <1>7, <2>1, <2>2 DEF Laid
<1>9. ASSUME m.nodes = <<>>, NEW n \in 1..Len(all.nodes)
      PROVE  \E e \in AllEnds(recs) : all.nodes[n].pos = Place(recs, e)
  <2>1. PICK r \in 1..N : all.nodes[n].pos \in {recs[r].i, recs[r].j}
    BY <1>7, <1>9
  <2>2. <<r, "i">> \in AllEnds(recs) /\ <<r, "j">> \in AllEnds(recs)
    BY DEF AllEnds
  <2>3. Place(recs, <<r, "i">>) = recs[r].i /\ Place(recs, <<r, "j">>) = recs[r].j
    BY DEF Place
  <2> QED
    BY <2>1, <2>2, <2>3
<1>10. AllOn(all, recs)
  BY <1>7 DEF AllOn
<1> QED
  BY <1>7, <1>8, <1>9, <1>10 DEF all, Raised
-------------------------------------------------------------------------------
\* What comes after the members leaves them as they are laid.
LEMMA LaidGrows ==
  ASSUME NEW P, NEW recs, NEW a, Laid(a, recs, P), NEW b \in Model,
         b.members = a.members, Grows(a.nodes, b.nodes), Apart(b.nodes),
         \A n \in 1..Len(b.nodes) : b.nodes[n].pos \in P
  PROVE  Laid(b, recs, P)
<1>1. a.nodes \in Seq(Node) /\ b.nodes \in Seq(Node)
  BY DEF Laid, Model
<1>2. Len(a.nodes) \in Nat /\ Len(b.nodes) \in Nat
  BY <1>1
<1>3. ASSUME NEW e \in AllEnds(recs) PROVE NodeOf(b, e) \in Hits(b.nodes, Place(recs, e))
  <2>1. NodeOf(b, e) = NodeOf(a, e)
    BY DEF NodeOf
  <2>2. NodeOf(a, e) \in Hits(a.nodes, Place(recs, e))
    BY DEF Laid
  <2> QED
    BY <1>2, <2>1, <2>2 DEF Hits, Grows
<1> QED
  BY <1>3 DEF Laid

\* A shell's corners are placed, and none of them is fixed.
LEMMA CornersPlaced ==
  ASSUME NEW P, NearIn(P), NEW Q \in SUBSET P, NEW m \in Model, Placed(m.nodes, P, Q),
         NEW corners \in Seq(Int), \A c \in 1..Len(corners) : corners[c] \in P
  PROVE  Placed(AddCorners(m, corners).nodes, P, Q)
<1> DEFINE n == Len(corners)
<1>1. m.nodes \in Seq(Node) /\ m = [nodes |-> m.nodes, members |-> m.members]
  BY DEF Model
<1>2. PICK after \in [0..n -> Seq(Node)] :
        /\ after[0] = m.nodes
        /\ \A k \in 1..n : after[k] = FindOrAddNode(after[k - 1], corners[k])
        /\ FoldLeft(FindOrAddNode, m.nodes, corners) = after[n]
  BY <1>1, CornersByOne
<1>3. n \in Nat /\ \A k \in 1..n : corners[k] \in P /\ k \in 0..n /\ k - 1 \in 0..n
  OBVIOUS
<1> DEFINE S == {k \in 0..n : Placed(after[k], P, Q)}
<1>4. 0 \in S
  BY <1>2, <1>3
<1>5. ASSUME NEW k \in 1..n, k - 1 \in S PROVE k \in S
  <2>1. after[k] = FindOrAddNode(after[k - 1], corners[k]) /\ Placed(after[k - 1], P, Q)
    BY <1>2, <1>5
  <2>2. Placed(after[k], P, Q)
    BY <1>3, <2>1, FindOrAddPlaced
  <2> QED
    BY <1>3, <2>2
<1>6. 0..n \subseteq S
  <2> HIDE DEF S, n
  <2> QED
    BY <1>3, <1>4, <1>5, Ascent
<1>7. n \in 0..n
  BY <1>3
<1> DEFINE all == FoldLeft(FindOrAddNode, m.nodes, corners)
<1>8. Placed(all, P, Q)
  BY <1>2, <1>6, <1>7
<1>9. AddCorners(m, corners) = [m EXCEPT !.nodes = all]
  BY DEF AddCorners
<1> HIDE DEF all
<1>10. AddCorners(m, corners).nodes = all
  BY <1>1, <1>9
<1> QED
  BY <1>8, <1>10

\* Shells only add nodes, and none that is held.
LEMMA ShellsPlaced ==
  ASSUME NEW P, NearIn(P), NEW Q \in SUBSET P, NEW m \in Model, Placed(m.nodes, P, Q),
         NEW shells \in Seq(Seq(Int)),
         \A s \in 1..Len(shells) : \A c \in 1..Len(shells[s]) : shells[s][c] \in P
  PROVE  /\ Placed(ReplayShells(m, shells).nodes, P, Q)
         /\ Grows(m.nodes, ReplayShells(m, shells).nodes)
<1> DEFINE n == Len(shells)
<1>1. PICK after \in [0..n -> Model] :
        /\ after[0] = m
        /\ \A k \in 1..n : after[k] = AddCorners(after[k - 1], shells[k])
        /\ ReplayShells(m, shells) = after[n]
  BY ShellsByOne
<1>2. n \in Nat /\ \A k \in 1..n : shells[k] \in Seq(Int) /\ k \in 0..n /\ k - 1 \in 0..n
  OBVIOUS
<1>3. \A x \in Model : x.nodes \in Seq(Node)
  BY DEF Model
<1> DEFINE S == {k \in 0..n : Placed(after[k].nodes, P, Q) /\ Grows(m.nodes, after[k].nodes)}
<1>4. 0 \in S
  BY <1>1, <1>2, <1>3, GrowsSame
<1>5. ASSUME NEW k \in 1..n, k - 1 \in S PROVE k \in S
  <2>1. /\ after[k - 1] \in Model /\ after[k] \in Model /\ shells[k] \in Seq(Int)
        /\ after[k] = AddCorners(after[k - 1], shells[k])
        /\ Placed(after[k - 1].nodes, P, Q) /\ Grows(m.nodes, after[k - 1].nodes)
    BY <1>1, <1>2, <1>5
  <2>2. \A c \in 1..Len(shells[k]) : shells[k][c] \in P
    OBVIOUS
  <2>3. Placed(after[k].nodes, P, Q) /\ Grows(after[k - 1].nodes, after[k].nodes)
    BY <2>1, <2>2, CornersPlaced, AddCornersTyped
  <2>4. Grows(m.nodes, after[k].nodes)
    BY <1>3, <2>1, <2>3, GrowsTrans
  <2> QED
    BY <1>2, <2>3, <2>4
<1>6. 0..n \subseteq S
  <2> HIDE DEF S, n
  <2> QED
    BY <1>2, <1>4, <1>5, Ascent
<1>7. n \in 0..n
  BY <1>2
<1> QED
  BY <1>1, <1>6, <1>7

\* Supports hold what they are near to.
LEMMA SupportsPlaced ==
  ASSUME NEW P, NearIn(P), NEW Q \in SUBSET P, NEW m \in Model, Placed(m.nodes, P, Q),
         NEW places \in Seq(Int), \A k \in 1..Len(places) : places[k] \in P
  PROVE  Placed(ReplaySupports(m, places).nodes, P, Q \cup Listed(places))
<1> DEFINE n == Len(places)
           held(k) == Q \cup {places[j] : j \in 1..k}
<1>1. PICK after \in [0..n -> Model] :
        /\ after[0] = m
        /\ \A k \in 1..n : after[k] = AddSupport(after[k - 1], places[k])
        /\ ReplaySupports(m, places) = after[n]
  BY SupportsByOne
<1>2. n \in Nat /\ \A k \in 1..n : places[k] \in P /\ k \in 0..n /\ k - 1 \in 0..n
  OBVIOUS
<1> DEFINE S == {k \in 0..n : Placed(after[k].nodes, P, held(k))}
<1>4. 0 \in S
  <2>1. held(0) = Q
    OBVIOUS
  <2> HIDE DEF held
  <2> QED
    BY <1>1, <1>2, <2>1
<1>5. ASSUME NEW k \in 1..n, k - 1 \in S PROVE k \in S
  <2>1. held(k) = held(k - 1) \cup {places[k]} /\ held(k - 1) \in SUBSET P
    <3>1. 1..k = 1..(k - 1) \cup {k} /\ 1..(k - 1) \subseteq 1..n
      BY <1>2
    <3>2. {places[j] : j \in 1..k} = {places[j] : j \in 1..(k - 1)} \cup {places[k]}
      BY <3>1
    <3>3. {places[j] : j \in 1..(k - 1)} \subseteq P
      BY <1>2, <3>1
    <3> QED
      BY <3>2, <3>3
  <2>2. /\ after[k - 1] \in Model /\ places[k] \in P
        /\ after[k] = AddSupport(after[k - 1], places[k])
        /\ Placed(after[k - 1].nodes, P, held(k - 1))
    BY <1>1, <1>2, <1>5
  <2> DEFINE x == after[k - 1]
             p == places[k]
             H == held(k - 1)
  <2>3. x \in Model /\ p \in P /\ Placed(x.nodes, P, H) /\ H \in SUBSET P
    BY <2>1, <2>2
  <2>4. after[k] = AddSupport(x, p) /\ held(k) = H \cup {p}
    BY <2>1, <2>2
  <2> HIDE DEF held, x, p, H, n
  <2>5. Placed(AddSupport(x, p).nodes, P, H \cup {p})
    BY <2>3, AddSupportPlaced
  <2>6. Placed(after[k].nodes, P, held(k))
    BY <2>4, <2>5
  <2> QED
    BY <1>2, <2>6
<1>6. 0..n \subseteq S
  <2> HIDE DEF S, n
  <2> QED
    BY <1>2, <1>4, <1>5, Ascent
<1>7. n \in 0..n
  BY <1>2
<1> QED
  BY <1>1, <1>6, <1>7 DEF Listed
-------------------------------------------------------------------------------
\* The shape of a frame, told by the records of its members.

Joints(m) == {EndsAt(m, n) : n \in 1..Len(m.nodes)} \ {{}}
JointsNear(recs) == {EndsNear(recs, Place(recs, e)) : e \in AllEnds(recs)}

\* Which ends meet in a laid frame is which of their positions are near.
LEMMA JointsLaid ==
  ASSUME NEW P, NearIn(P), NEW recs, Drawn(recs, P), NEW m, Laid(m, recs, P)
  PROVE  Joints(m) = JointsNear(recs)
<1> DEFINE met  == {EndsAt(m, n) : n \in 1..Len(m.nodes)} \ {{}}
           near == {EndsNear(recs, Place(recs, e)) : e \in AllEnds(recs)}
<1>1. \A e \in AllEnds(recs) : /\ NodeOf(m, e) \in Hits(m.nodes, Place(recs, e))
                               /\ Place(recs, e) \in P
  BY DEF Laid, Drawn
<1>2. ASSUME NEW n \in 1..Len(m.nodes), EndsAt(m, n) # {} PROVE EndsAt(m, n) \in near
  <2>1. PICK e \in EndsAt(m, n) : TRUE
    BY <1>2
  <2>2. e \in AllEnds(recs) /\ NodeOf(m, e) = n
    BY <2>1 DEF EndsAt, Ends, AllEnds, Laid
  <2>3. EndsAt(m, n) = EndsNear(recs, Place(recs, e))
    BY <1>1, <2>2, EndsMeet
  <2> QED
    BY <2>2, <2>3
<1>3. ASSUME NEW e \in AllEnds(recs) PROVE EndsNear(recs, Place(recs, e)) \in met
  <2> DEFINE n == NodeOf(m, e)
  <2>1. n \in Hits(m.nodes, Place(recs, e)) /\ n \in 1..Len(m.nodes)
    BY <1>1 DEF Hits
  <2>2. EndsAt(m, n) = EndsNear(recs, Place(recs, e))
    BY <1>1, <2>1, EndsMeet
  <2>3. e \in EndsAt(m, n)
    BY DEF EndsAt, Ends, AllEnds, Laid
  <2> HIDE DEF n
  <2> QED
    BY <2>1, <2>2, <2>3
<1>4. met \subseteq near
  <2> HIDE DEF near
  <2> QED
    BY <1>2
<1>5. near \subseteq met
  <2> HIDE DEF met
  <2> QED
    BY <1>3
<1> QED
  BY <1>4, <1>5 DEF Joints, JointsNear

\* The ends of the members that are held at the places Q.
HeldEnds(recs, Q) == {e \in AllEnds(recs) : \E q \in Q : Near(Place(recs, e), q)}

Held(m) == UNION {EndsAt(m, n) : n \in {k \in 1..Len(m.nodes) : m.nodes[k].fixed}}

\* Which ends are held is which are near a place where the nodes are fixed.
LEMMA HeldLaid ==
  ASSUME NEW P, NEW recs, NEW m, Laid(m, recs, P), NEW Q,
         \A e \in AllEnds(recs) :
           m.nodes[NodeOf(m, e)].fixed <=> \E q \in Q : Near(Place(recs, e), q)
  PROVE  Held(m) = HeldEnds(recs, Q)
<1>1. Ends(m) = AllEnds(recs)
  BY DEF Ends, AllEnds, Laid
<1>2. \A e \in AllEnds(recs) : NodeOf(m, e) \in 1..Len(m.nodes)
  BY DEF Laid, Hits
<1> QED
  BY <1>1, <1>2 DEF Held, EndsAt, HeldEnds

\* In a model that was built: what is near to a node that is held.
FixedPlaces(m) == {m.nodes[n].pos : n \in {k \in 1..Len(m.nodes) : m.nodes[k].fixed}}

\* An end is held just when a fixed node's position is near it.
LEMMA HeldBuilt ==
  ASSUME NEW P, NearIn(P), NEW recs, Drawn(recs, P), NEW m, Laid(m, recs, P),
         NEW e \in AllEnds(recs)
  PROVE  m.nodes[NodeOf(m, e)].fixed <=>
           \E q \in FixedPlaces(m) : Near(Place(recs, e), q)
<1> DEFINE n == NodeOf(m, e)
           p == Place(recs, e)
           F == {k \in 1..Len(m.nodes) : m.nodes[k].fixed}
<1>1. n \in 1..Len(m.nodes) /\ n \in Hits(m.nodes, p) /\ Near(m.nodes[n].pos, p) /\ p \in P
  BY DEF Laid, Hits, Drawn
<1>2. m.nodes \in Seq(Node) /\ Apart(m.nodes) /\ \A k \in 1..Len(m.nodes) : m.nodes[k].pos \in P
  BY DEF Laid, Model
<1> HIDE DEF n, p
<1>3. Near(p, m.nodes[n].pos)
  BY <1>1, <1>2, NearClasses
<1>4. ASSUME NEW k \in F, Near(p, m.nodes[k].pos) PROVE k = n
  <2>1. Near(m.nodes[k].pos, p)
    BY <1>1, <1>2, <1>4, NearClasses
  <2>2. k \in Hits(m.nodes, p)
    BY <2>1 DEF Hits
  <2> QED
    BY <1>1, <1>2, <2>2, OneHit
<1>5. m.nodes[n].fixed => n \in F
  BY <1>1
<1>6. m.nodes[n].fixed <=> \E k \in F : Near(p, m.nodes[k].pos)
  BY <1>3, <1>4, <1>5
<1> QED
  BY <1>6 DEF n, p, FixedPlaces

\* In one that was replayed.
LEMMA HeldPlaced ==
  ASSUME NEW P, NearIn(P), NEW recs, Drawn(recs, P), NEW m, Laid(m, recs, P),
         NEW Q \in SUBSET P, Placed(m.nodes, P, Q), NEW e \in AllEnds(recs)
  PROVE  m.nodes[NodeOf(m, e)].fixed <=> \E q \in Q : Near(Place(recs, e), q)
<1> DEFINE n == NodeOf(m, e)
           p == Place(recs, e)
<1>1. n \in 1..Len(m.nodes) /\ Near(m.nodes[n].pos, p) /\ p \in P
  BY DEF Laid, Hits, Drawn
<1>2. m.nodes[n].pos \in P /\ (m.nodes[n].fixed <=> \E q \in Q : Near(m.nodes[n].pos, q))
  BY <1>1 DEF Placed
<1> DEFINE x == m.nodes[n].pos
<1>3. x \in P /\ Near(x, p) /\ Near(p, x)
  BY <1>1, <1>2, NearClasses
<1> HIDE DEF n, p, x
<1>4. \A q \in Q : Near(x, q) <=> Near(p, q)
  BY <1>1, <1>3, NearClasses
<1> QED
  BY <1>2, <1>4 DEF n, p, x

\* A fixity of a place that no node is near to held no end of a member.
LEMMA HeldFound ==
  ASSUME NEW P, NearIn(P), NEW recs, Drawn(recs, P), NEW m, Laid(m, recs, P), NEW F \in SUBSET P
  PROVE  HeldEnds(recs, {q \in F : Hits(m.nodes, q) # {}}) = HeldEnds(recs, F)
<1> SUFFICES ASSUME NEW e \in AllEnds(recs), NEW q \in F, Near(Place(recs, e), q)
             PROVE  Hits(m.nodes, q) # {}
  BY DEF HeldEnds
<1> DEFINE n == NodeOf(m, e)
           p == Place(recs, e)
<1>1. n \in 1..Len(m.nodes) /\ Near(m.nodes[n].pos, p) /\ p \in P /\ m.nodes[n].pos \in P
  BY DEF Laid, Hits, Drawn
<1>2. Near(m.nodes[n].pos, q)
  BY <1>1, NearClasses
<1>3. n \in Hits(m.nodes, q)
  BY <1>1, <1>2 DEF Hits
<1> QED
  BY <1>3
-------------------------------------------------------------------------------
\* What hangs on a frame, before and after.

Loaded(m, loads) ==
  Picked([k \in DOMAIN loads |-> EndsAt(m, loads[k])],
         {k \in DOMAIN loads : EndsAt(m, loads[k]) # {}})

\* Loads go back to the ends that they were at, in their order; only those whose node had no
\* member find none now.
PlacesOf(m, loads) == [k \in DOMAIN loads |-> m.nodes[loads[k]].pos]

\* The loads that a replay puts back hang on the ends that they hung on.
LEMMA LoadsBack ==
  ASSUME NEW P, NearIn(P), NEW recs, Drawn(recs, P), NEW m, Laid(m, recs, P),
         NEW loads \in Seq(1..Len(m.nodes)),
         NEW built, Laid(built, recs, P),
         \A n \in 1..Len(built.nodes) : \E e \in AllEnds(recs) : built.nodes[n].pos = Place(recs, e),
         NEW final, Laid(final, recs, P), Grows(built.nodes, final.nodes)
  PROVE  Loaded(final, ReplayNodalLoads(built, PlacesOf(m, loads))) = Loaded(m, loads)
<1> DEFINE n == Len(loads)
           places == [k \in DOMAIN loads |-> m.nodes[loads[k]].pos]
           all == [k \in DOMAIN loads |-> EndsAt(m, loads[k])]
           S == {k \in DOMAIN loads : EndsAt(m, loads[k]) # {}}
           met == InOrder(n, S)
           back == ReplayNodalLoads(built, places)
           got == [k \in DOMAIN back |-> EndsAt(final, back[k])]
           V == SUBSET AllEnds(recs)
<1>1. /\ n \in Nat /\ DOMAIN loads = 1..n
      /\ \A k \in 1..n : loads[k] \in 1..Len(m.nodes)
  OBVIOUS
<1>2. \A k \in 1..n : places[k] = m.nodes[loads[k]].pos /\ all[k] = EndsAt(m, loads[k])
  BY <1>1
<1>3. DOMAIN places = 1..n /\ DOMAIN all = 1..n /\ Len(places) = n /\ Len(all) = n
  BY <1>1
<1>4. /\ built.nodes \in Seq(Node) /\ final.nodes \in Seq(Node)
      /\ Len(built.nodes) \in Nat /\ Len(final.nodes) \in Nat
  BY DEF Laid, Model
<1>5. ASSUME NEW k \in 1..n
      PROVE  places[k] \in P /\ all[k] = EndsNear(recs, places[k])
  <2> DEFINE x == loads[k]
             p == m.nodes[x].pos
  <2>1. x \in 1..Len(m.nodes) /\ p \in P
    BY <1>1 DEF Laid
  <2>2. x \in Hits(m.nodes, p)
    BY <2>1, NearClasses DEF Hits
  <2>3. EndsAt(m, x) = EndsNear(recs, p)
    BY <2>1, <2>2, EndsMeet
  <2> HIDE DEF places, all
  <2> QED
    BY <1>2, <2>1, <2>3
<1>6. ASSUME NEW p \in P PROVE Hits(built.nodes, p) # {} <=> EndsNear(recs, p) # {}
  <2>1. ASSUME NEW h \in Hits(built.nodes, p) PROVE EndsNear(recs, p) # {}
    <3>1. h \in 1..Len(built.nodes) /\ Near(built.nodes[h].pos, p)
      BY DEF Hits
    <3>2. PICK e \in AllEnds(recs) : built.nodes[h].pos = Place(recs, e)
      BY <3>1
    <3>3. e \in EndsNear(recs, p)
      BY <3>1, <3>2 DEF EndsNear
    <3> QED
      BY <3>3
  <2>2. ASSUME NEW e \in EndsNear(recs, p) PROVE Hits(built.nodes, p) # {}
    <3> DEFINE h == NodeOf(built, e)
    <3>1. e \in AllEnds(recs) /\ Near(Place(recs, e), p) /\ Place(recs, e) \in P
      BY DEF EndsNear, Drawn
    <3>2. h \in 1..Len(built.nodes) /\ Near(built.nodes[h].pos, Place(recs, e))
      BY <3>1 DEF Laid, Hits
    <3>3. built.nodes[h].pos \in P
      BY <3>2 DEF Laid
    <3> HIDE DEF h
    <3>4. Near(built.nodes[h].pos, p)
      BY <3>1, <3>2, <3>3, NearClasses
    <3>5. h \in Hits(built.nodes, p)
      BY <3>2, <3>4 DEF Hits
    <3> QED
      BY <3>5
  <2> QED
    BY <2>1, <2>2
<1>7. {k \in DOMAIN places : Hits(built.nodes, places[k]) # {}} = S
  <2> HIDE DEF places, all
  <2>1. \A k \in 1..n : Hits(built.nodes, places[k]) # {} <=> EndsAt(m, loads[k]) # {}
    BY <1>2, <1>5, <1>6
  <2> QED
    BY <1>1, <1>3, <2>1
<1>8. met \in Seq(S) /\ S \in SUBSET (1..n)
  BY <1>1, InOrderTyped
<1> DEFINE L == Len(met)
<1>9. L \in Nat /\ DOMAIN met = 1..L /\ \A k \in 1..L : met[k] \in S
  <2> HIDE DEF met, S
  <2> QED
    BY <1>8
<1>10. NodesNear(built, places) = [k \in DOMAIN met |-> places[met[k]]]
  <2> HIDE DEF places, S
  <2> QED
    BY <1>3, <1>7 DEF NodesNear, Picked
<1>11. back = [k \in 1..L |-> NodeAt(built.nodes, places[met[k]])]
  <2> DEFINE near == NodesNear(built, places)
  <2>1. DOMAIN near = 1..L /\ \A k \in 1..L : near[k] = places[met[k]]
    <3> HIDE DEF places, met
    <3> QED
      BY <1>9, <1>10
  <2>2. back = [k \in DOMAIN near |-> NodeAt(built.nodes, near[k])]
    BY DEF ReplayNodalLoads
  <2> HIDE DEF near, places, met
  <2> QED
    BY <2>1, <2>2
<1>12. Picked(all, S) = [k \in 1..L |-> all[met[k]]]
  <2> HIDE DEF all, S
  <2> QED
    BY <1>3, <1>9 DEF Picked
<1>13. ASSUME NEW k \in 1..L
       PROVE  /\ EndsAt(final, NodeAt(built.nodes, places[met[k]])) = all[met[k]]
              /\ all[met[k]] # {} /\ all[met[k]] \in V
  <2> DEFINE x == met[k]
             p == places[x]
             h == NodeAt(built.nodes, p)
  <2>1. x \in 1..n /\ x \in S
    BY <1>8, <1>9
  <2> HIDE DEF met, x
  <2>2. p \in P /\ all[x] = EndsNear(recs, p) /\ all[x] # {}
    <3>1. EndsAt(m, loads[x]) # {}
      BY <2>1
    <3> HIDE DEF places, all, S
    <3> QED
      BY <1>2, <1>5, <2>1, <3>1
  <2> HIDE DEF p, all, places, S
  <2>3. Hits(built.nodes, p) # {} /\ p \in Int
    BY <1>6, <2>2 DEF NearIn
  <2>4. h \in Hits(built.nodes, p)
    BY <1>4, <2>3, NodeAtTyped
  <2> HIDE DEF h
  <2>5. h \in Hits(final.nodes, p)
    BY <1>4, <2>4 DEF Hits, Grows
  <2>6. EndsAt(final, h) = EndsNear(recs, p)
    BY <2>2, <2>5, EndsMeet
  <2>7. EndsNear(recs, p) \in V
    BY DEF EndsNear
  <2> QED
    BY <2>2, <2>6, <2>7 DEF h, p, x
<1> DEFINE taken == Picked(all, S)
<1>14. got = taken
  <2>1. DOMAIN back = 1..L /\ \A k \in 1..L : back[k] = NodeAt(built.nodes, places[met[k]])
    <3> HIDE DEF back, places, met
    <3> QED
      BY <1>11
  <2> HIDE DEF back, places, met, all, S
  <2>2. \A k \in 1..L : EndsAt(final, back[k]) = all[met[k]]
    BY <1>13, <2>1
  <2> QED
    BY <1>12, <2>1, <2>2
<1>15. taken \in Seq(V) /\ \A k \in 1..Len(taken) : taken[k] # {}
  <2> HIDE DEF taken, met, all, S, V
  <2>1. taken = [k \in 1..L |-> all[met[k]]]
    BY <1>12 DEF taken
  <2>2. taken \in [1..L -> V] /\ \A k \in 1..L : taken[k] # {}
    BY <1>13, <2>1
  <2>3. taken \in Seq(V) /\ Len(taken) = L
    BY <1>9, <2>2
  <2> QED
    BY <2>2, <2>3
<1>16. Loaded(final, back) = Picked(got, {k \in DOMAIN back : EndsAt(final, back[k]) # {}})
  BY DEF Loaded
<1>17. {k \in DOMAIN back : EndsAt(final, back[k]) # {}} = 1..Len(taken)
  <2>1. DOMAIN got = DOMAIN back /\ \A k \in DOMAIN back : got[k] = EndsAt(final, back[k])
    BY Zenon
  <2> HIDE DEF got, back, taken
  <2>2. DOMAIN taken = 1..Len(taken)
    BY <1>15
  <2> QED
    BY <1>14, <1>15, <2>1, <2>2
<1>18. Picked(taken, 1..Len(taken)) = taken
  <2> HIDE DEF taken, V
  <2> QED
    BY <1>15, PickedIs
<1>19. Loaded(m, loads) = taken
  BY DEF Loaded
<1> HIDE DEF got, back, taken, places, all, S
<1>20. Loaded(final, back) = Loaded(m, loads)
  BY <1>14, <1>16, <1>17, <1>18, <1>19
<1> QED
  BY <1>20 DEF back, places, PlacesOf

ShellEnds(m, shells) ==
  [k \in DOMAIN shells |-> [c \in DOMAIN shells[k] |-> EndsAt(m, shells[k][c])]]

CornerPlaces(m, shells) ==
  [k \in DOMAIN shells |-> [c \in DOMAIN shells[k] |-> m.nodes[shells[k][c]].pos]]
AllHit(nodes, places) ==
  \A k \in 1..Len(places) : \A c \in 1..Len(places[k]) : Hits(nodes, places[k][c]) # {}
CornersAt(nodes, places) ==
  [k \in DOMAIN places |-> [c \in DOMAIN places[k] |-> NodeAt(nodes, places[k][c])]]

\* The corners of shells meet the same members again.
LEMMA ShellsBack ==
  ASSUME NEW P, NearIn(P), NEW recs, Drawn(recs, P), NEW m, Laid(m, recs, P),
         NEW shells \in Seq(Seq(1..Len(m.nodes))), NEW final, Laid(final, recs, P),
         NEW places, places = CornerPlaces(m, shells), AllHit(final.nodes, places)
  PROVE  ShellEnds(final, CornersAt(final.nodes, places)) = ShellEnds(m, shells)
<1> DEFINE N == 1..Len(m.nodes)
           back == [k \in DOMAIN places |->
                      [c \in DOMAIN places[k] |-> NodeAt(final.nodes, places[k][c])]]
<1> USE DEF CornerPlaces, AllHit
<1>1. DOMAIN places = DOMAIN shells /\ DOMAIN back = DOMAIN shells
  OBVIOUS
<1>2. final.nodes \in Seq(Node)
  BY DEF Laid, Model
<1>3. ASSUME NEW k \in DOMAIN shells
      PROVE  [c \in DOMAIN back[k] |-> EndsAt(final, back[k][c])] =
               [c \in DOMAIN shells[k] |-> EndsAt(m, shells[k][c])]
  <2> DEFINE corners == shells[k]
             at == places[k]
  <2>1. /\ corners \in Seq(N) /\ k \in 1..Len(places)
        /\ at = [c \in DOMAIN corners |-> m.nodes[corners[c]].pos]
    <3>1. Len(shells) \in Nat /\ DOMAIN shells = 1..Len(shells)
      OBVIOUS
    <3>2. Len(places) = Len(shells)
      BY <1>1, <3>1
    <3> QED
      BY <3>1, <3>2
  <2>2. back[k] = [c \in DOMAIN at |-> NodeAt(final.nodes, at[c])]
    BY <1>1
  <2> HIDE DEF corners, back, N
  <2>3. /\ Len(corners) \in Nat /\ DOMAIN corners = 1..Len(corners) /\ DOMAIN at = DOMAIN corners
        /\ Len(at) = Len(corners)
        /\ \A c \in 1..Len(corners) : corners[c] \in N /\ at[c] = m.nodes[corners[c]].pos
    BY <2>1
  <2>4. \A c \in 1..Len(corners) : Hits(final.nodes, at[c]) # {}
    BY <2>1, <2>3
  <2> HIDE DEF at
  <2>5. ASSUME NEW c \in 1..Len(corners)
        PROVE  EndsAt(final, NodeAt(final.nodes, at[c])) = EndsAt(m, corners[c])
    <3> DEFINE x == corners[c]
               p == at[c]
               h == NodeAt(final.nodes, p)
    <3>1. x \in 1..Len(m.nodes) /\ p = m.nodes[x].pos /\ p \in P /\ p \in Int
      BY <2>3 DEF N, Laid, NearIn
    <3>2. x \in Hits(m.nodes, p)
      BY <3>1, NearClasses DEF Hits
    <3>3. Hits(final.nodes, p) # {}
      BY <2>4
    <3> HIDE DEF x, p
    <3>4. h \in Hits(final.nodes, p)
      BY <1>2, <3>1, <3>3, NodeAtTyped
    <3> HIDE DEF h
    <3>5. EndsAt(m, x) = EndsNear(recs, p) /\ EndsAt(final, h) = EndsNear(recs, p)
      BY <3>1, <3>2, <3>4, EndsMeet
    <3> QED
      BY <3>5 DEF x, p, h
  <2>6. DOMAIN back[k] = DOMAIN corners /\ \A c \in DOMAIN corners : back[k][c] = NodeAt(final.nodes, at[c])
    BY <2>2, <2>3
  <2> QED
    BY <2>3, <2>5, <2>6 DEF corners
<1> HIDE DEF back
<1>4. ShellEnds(final, back) = ShellEnds(m, shells)
  BY <1>1, <1>3 DEF ShellEnds
<1> QED
  BY <1>4 DEF back, CornersAt
-------------------------------------------------------------------------------
\* What holds the ends of the members: places near to them.
HeldBy(m, recs, Q) ==
  \A e \in AllEnds(recs) :
    m.nodes[NodeOf(m, e)].fixed <=> \E q \in Q : Near(Place(recs, e), q)

\* The frame of the records, with what it carries.
Frame(recs, Q, loaded, shells, udls, flagged) ==
  [active |-> [r \in 1..Len(recs) |-> TRUE], joints |-> JointsNear(recs),
   held |-> HeldEnds(recs, Q), loaded |-> loaded, shells |-> shells,
   udls |-> udls, flagged |-> flagged]

\* The shape of a laid frame follows from its records, the places that are fixed and what is
\* attached: no node's number matters.
LEMMA ShapeIs ==
  ASSUME NEW P, NearIn(P), NEW recs, Drawn(recs, P), NEW m, Laid(m, recs, P),
         AllOn(m, recs), NEW Q, HeldBy(m, recs, Q), NEW x
  PROVE  Shape(m, x) =
           Frame(recs, Q, Loaded(m, x.loads), ShellEnds(m, x.shells), x.udls, x.flagged)
<1>1. [r \in 1..Len(m.members) |-> m.members[r].active] = [r \in 1..Len(recs) |-> TRUE]
  BY DEF Laid, AllOn
<1>2. Joints(m) = JointsNear(recs)
  BY JointsLaid
<1>3. Held(m) = HeldEnds(recs, Q)
  BY HeldLaid DEF HeldBy
<1>4. Shape(m, x) =
        [active  |-> [r \in 1..Len(m.members) |-> m.members[r].active],
         joints  |-> Joints(m), held |-> Held(m), loaded |-> Loaded(m, x.loads),
         shells  |-> ShellEnds(m, x.shells), udls |-> x.udls, flagged |-> x.flagged]
  BY DEF Shape, Joints, Held, Loaded, ShellEnds
<1> QED
  BY ONLY <1>1, <1>2, <1>3, <1>4 DEF Frame

\* The members on empty ground.
LEMMA MembersOnEmpty ==
  ASSUME NEW P, NearIn(P), NEW recs, Drawn(recs, P)
  PROVE  LET built == ReplayMembers(EmptyModel, recs) IN
         /\ built \in Model /\ Placed(built.nodes, P, {}) /\ Laid(built, recs, P)
         /\ AllOn(built, recs)
         /\ \A n \in 1..Len(built.nodes) : \E e \in AllEnds(recs) : built.nodes[n].pos = Place(recs, e)
<1>1. EmptyModel \in Model /\ Len(EmptyModel.members) = 0 /\ EmptyModel.nodes = <<>>
  BY DEF EmptyModel, Model
<1>2. Placed(<<>>, P, {})
  <2>1. <<>> \in Seq(Node) /\ Len(<<>>) = 0
    OBVIOUS
  <2> QED
    BY <2>1 DEF Placed, Apart
<1>3. {} \in SUBSET P
  OBVIOUS
<1> DEFINE built == ReplayMembers(EmptyModel, recs)
<1> DEFINE m == EmptyModel
           Q == {}
<1>4. m \in Model /\ Len(m.members) = 0 /\ Placed(m.nodes, P, Q) /\ Q \in SUBSET P
  BY <1>1, <1>2, <1>3
<1> HIDE DEF m, Q
<1>6. Raised(m, recs, P, Q)
  BY <1>4, MembersLaid
<1>7. /\ Placed(built.nodes, P, {}) /\ Laid(built, recs, P) /\ AllOn(built, recs)
      /\ EmptyModel.nodes = <<>> => \A n \in 1..Len(built.nodes) : \E e \in AllEnds(recs) :
           built.nodes[n].pos = Place(recs, e)
  BY <1>6 DEF Raised, m, Q
<1>5. built \in Model
  BY <1>7 DEF Laid
<1> HIDE DEF built
<1> QED
  BY <1>1, <1>5, <1>7 DEF built

\* An archive of the frame m with x on it, every member of which is on.
Records(a, m, x) ==
  /\ Parts(a) /\ a.version = 2
  /\ a.loads = PlacesOf(m, x.loads)
  /\ a.udls = x.udls
  /\ a.shells = CornerPlaces(m, x.shells)
  /\ Listed(a.fixities) = FixedPlaces(m)
  /\ \A r \in 1..Len(a.records) : a.records[r].flagged <=> r \in x.flagged
  /\ AllOn(m, a.records)

\* What hangs on m is on nodes and rows that exist.
Hung(m, x) ==
  /\ x.loads \in Seq(1..Len(m.nodes)) /\ x.shells \in Seq(Seq(1..Len(m.nodes)))
  /\ x.udls \in Seq(1..Len(m.members)) /\ x.flagged \subseteq 1..Len(m.members)

\* A replay of an archive that records a frame gives its shape back.
LEMMA ShapeIsBack ==
  ASSUME NEW P, NearIn(P), NEW a, NEW m, NEW x, Records(a, m, x), Drawn(a.records, P),
         Laid(m, a.records, P), Hung(m, x)
  PROVE  Shape(ReplayModel(a), ReplayExtras(a)) = Shape(m, x)
<1> DEFINE recs == a.records
           built == ReplayMembers(EmptyModel, recs)
           shelled == ReplayShells(built, a.shells)
           near == NodesNear(shelled, a.fixities)
           final == ReplayModel(a)
           back == ReplayExtras(a)
           F == FixedPlaces(m)
           Q == {q \in F : Hits(shelled.nodes, q) # {}}
<1>1. /\ recs \in Seq(Kept) /\ a.shells \in Seq(Seq(Int)) /\ a.fixities \in Seq(Int)
      /\ a.version = 2 /\ Len(m.members) = Len(recs)
  BY DEF Records, Parts, Drawn, Laid
<1>2. /\ built \in Model /\ Placed(built.nodes, P, {}) /\ Laid(built, recs, P)
      /\ AllOn(built, recs)
      /\ \A n \in 1..Len(built.nodes) : \E e \in AllEnds(recs) : built.nodes[n].pos = Place(recs, e)
  BY MembersOnEmpty
<1>3. F \in SUBSET P /\ Q \in SUBSET P
  BY DEF Laid, FixedPlaces
<1>4. \A k \in 1..Len(a.shells) : \A c \in 1..Len(a.shells[k]) : a.shells[k][c] \in P
  <2> DEFINE N == 1..Len(m.nodes)
             shells == x.shells
  <2>1. shells \in Seq(Seq(N)) /\ \A n \in N : m.nodes[n].pos \in P
    BY DEF Hung, Laid
  <2>2. a.shells = [k \in DOMAIN shells |-> [c \in DOMAIN shells[k] |-> m.nodes[shells[k][c]].pos]]
    BY DEF Records, CornerPlaces
  <2> HIDE DEF N, shells
  <2> SUFFICES ASSUME NEW k \in 1..Len(a.shells) PROVE \A c \in 1..Len(a.shells[k]) : a.shells[k][c] \in P
    OBVIOUS
  <2>3. DOMAIN a.shells = 1..Len(a.shells) /\ a.shells[k] \in Seq(Int)
    BY <1>1
  <2>4. k \in DOMAIN shells /\ a.shells[k] = [c \in DOMAIN shells[k] |-> m.nodes[shells[k][c]].pos]
    BY <2>2, <2>3
  <2> DEFINE corners == shells[k]
             at == a.shells[k]
  <2>5. corners \in Seq(N)
    BY <2>1, <2>4
  <2>6. at \in Seq(Int) /\ at = [c \in DOMAIN corners |-> m.nodes[corners[c]].pos]
    BY <2>3, <2>4
  <2> HIDE DEF corners, at
  <2>7. DOMAIN at = 1..Len(at) /\ DOMAIN at = DOMAIN corners /\ \A c \in DOMAIN corners : corners[c] \in N
    BY <2>5, <2>6
  <2>8. \A c \in 1..Len(at) : at[c] \in P
    BY <2>1, <2>6, <2>7
  <2> QED
    BY <2>8 DEF at
<1>5. /\ shelled \in Model /\ shelled.members = built.members
      /\ Placed(shelled.nodes, P, {}) /\ Grows(built.nodes, shelled.nodes)
      /\ Laid(shelled, recs, P)
  <2>1. shelled \in Model /\ shelled.members = built.members
    BY <1>1, <1>2, ShellsReplayed
  <2>2. Placed(shelled.nodes, P, {}) /\ Grows(built.nodes, shelled.nodes)
    <3>1. {} \in SUBSET P
      OBVIOUS
    <3> HIDE DEF built
    <3> QED
      BY <1>1, <1>2, <1>4, <3>1, ShellsPlaced
  <2> HIDE DEF built, shelled
  <2> QED
    BY <1>2, <2>1, <2>2, LaidGrows DEF Placed
<1>6. near \in Seq(Int) /\ Listed(near) = Q
  <2> DEFINE fixities == a.fixities
             S == {k \in DOMAIN fixities : Hits(shelled.nodes, fixities[k]) # {}}
  <2>1. fixities \in Seq(Int) /\ {fixities[k] : k \in 1..Len(fixities)} = F
    BY <1>1 DEF Records, Listed
  <2>2. near = Picked(fixities, S)
    BY DEF NodesNear
  <2> HIDE DEF fixities, shelled, near, F
  <2>3. DOMAIN fixities = 1..Len(fixities) /\ S \in SUBSET (1..Len(fixities))
    BY <2>1
  <2> HIDE DEF S
  <2>4. /\ near \in Seq(Int)
        /\ \A k \in 1..Len(near) : \E y \in S : near[k] = fixities[y]
        /\ \A y \in S : \E k \in 1..Len(near) : near[k] = fixities[y]
    BY <2>1, <2>2, <2>3, PickedIs
  <2>5. Q = {fixities[y] : y \in S}
    BY <2>1, <2>3 DEF S
  <2>6. {near[k] : k \in 1..Len(near)} \subseteq {fixities[y] : y \in S}
    BY <2>4
  <2>7. {fixities[y] : y \in S} \subseteq {near[k] : k \in 1..Len(near)}
    BY <2>4
  <2> HIDE DEF Q
  <2> QED
    BY <2>4, <2>5, <2>6, <2>7 DEF Listed
<1>7. final = ReplaySupports(shelled, near)
  BY <1>1 DEF ReplayModel, ReplayNodeFixities, ReplaySupports
<1> HIDE DEF built, shelled, near, final, F
<1>8. /\ final \in Model /\ final.members = built.members /\ Grows(shelled.nodes, final.nodes)
      /\ Placed(final.nodes, P, Q)
  <2>1. /\ final \in Model /\ final.members = shelled.members /\ Grows(shelled.nodes, final.nodes)
    BY <1>5, <1>6, <1>7, SupportsReplayed
  <2>2. \A k \in 1..Len(near) : near[k] \in P
    BY <1>3, <1>6 DEF Listed
  <2>3. {} \in SUBSET P /\ {} \cup Listed(near) = Q
    BY <1>6
  <2>4. Placed(final.nodes, P, {} \cup Listed(near))
    <3> DEFINE none == {}
    <3>1. none \in SUBSET P /\ Placed(shelled.nodes, P, none) /\ shelled \in Model
      BY <1>5
    <3> HIDE DEF none, Q
    <3>2. Placed(ReplaySupports(shelled, near).nodes, P, none \cup Listed(near))
      BY <1>6, <2>2, <3>1, SupportsPlaced
    <3> QED
      BY <1>7, <3>2 DEF none
  <2> QED
    BY <1>5, <2>1, <2>3, <2>4
<1>9. Laid(final, recs, P) /\ Grows(built.nodes, final.nodes)
  <2>1. Laid(final, recs, P)
    BY <1>5, <1>8, LaidGrows DEF Placed
  <2>2. /\ built.nodes \in Seq(Node) /\ shelled.nodes \in Seq(Node) /\ final.nodes \in Seq(Node)
    BY <1>2, <1>5, <1>8 DEF Model
  <2> QED
    BY <1>5, <1>8, <2>1, <2>2, GrowsTrans
<1>10. HeldEnds(recs, Q) = HeldEnds(recs, F)
  BY <1>3, <1>5, HeldFound
<1>11. back = [loads   |-> ReplayNodalLoads(built, a.loads),
               udls    |-> Picked(a.udls, {k \in DOMAIN a.udls : a.udls[k] \in 1..Len(recs)}),
               shells  |-> CornersAt(final.nodes, a.shells),
               flagged |-> {r \in 1..Len(recs) : recs[r].flagged}]
  BY <1>1 DEF ReplayExtras, ReplayUDLs, CornersAt, built, final
<1>12. back.udls = x.udls /\ back.flagged = x.flagged
  <2>1. x.udls \in Seq(1..Len(recs)) /\ x.flagged \subseteq 1..Len(recs) /\ a.udls = x.udls
    BY <1>1 DEF Hung, Records
  <2>2. \A r \in 1..Len(recs) : recs[r].flagged <=> r \in x.flagged
    BY DEF Records
  <2> DEFINE udls == x.udls
             V == 1..Len(recs)
  <2>3. udls \in Seq(V) /\ a.udls = udls
    BY <2>1
  <2>4. back.udls = Picked(udls, {k \in DOMAIN udls : udls[k] \in V})
    BY <1>11, <2>3
  <2> HIDE DEF udls, V
  <2>5. {k \in DOMAIN udls : udls[k] \in V} = 1..Len(udls)
    BY <2>3
  <2>6. Picked(udls, 1..Len(udls)) = udls
    BY <2>3, PickedIs
  <2>7. back.flagged = {r \in 1..Len(recs) : recs[r].flagged}
    BY <1>11
  <2>8. back.flagged = x.flagged
    BY <2>1, <2>2, <2>7
  <2> QED
    BY <2>4, <2>5, <2>6, <2>8 DEF udls
<1>13. Loaded(final, back.loads) = Loaded(m, x.loads)
  <2>1. x.loads \in Seq(1..Len(m.nodes)) /\ a.loads = PlacesOf(m, x.loads)
    BY DEF Hung, Records
  <2>2. back.loads = ReplayNodalLoads(built, a.loads)
    BY <1>11
  <2> HIDE DEF back, recs
  <2> QED
    BY <1>2, <1>9, <2>1, <2>2, LoadsBack DEF recs
<1>14. ShellEnds(final, back.shells) = ShellEnds(m, x.shells)
  <2>1. x.shells \in Seq(Seq(1..Len(m.nodes)))
    BY DEF Hung
  <2>2. a.shells = CornerPlaces(m, x.shells)
    BY DEF Records
  <2>3. AllHit(final.nodes, a.shells)
    <3>1. Parts(a) /\ a.records \in Seq(Kept)
      BY <1>1 DEF Records
    <3> QED
      BY <1>1, <3>1, ModelReplayed DEF final, AllHit
  <2>4. back.shells = CornersAt(final.nodes, a.shells)
    BY <1>11
  <2>5. Laid(m, recs, P) /\ Drawn(recs, P) /\ Laid(final, recs, P)
    BY <1>9
  <2> HIDE DEF back, recs
  <2> QED
    BY ONLY NearIn(P), <2>1, <2>2, <2>3, <2>4, <2>5, ShellsBack
<1>15. Shape(m, x) =
         Frame(recs, F, Loaded(m, x.loads), ShellEnds(m, x.shells), x.udls, x.flagged)
  <2>1. AllOn(m, recs)
    BY DEF Records
  <2>2. HeldBy(m, recs, F)
    BY HeldBuilt DEF F, HeldBy
  <2>3. Laid(m, recs, P) /\ Drawn(recs, P)
    OBVIOUS
  <2> HIDE DEF recs, F
  <2> QED
    BY ONLY NearIn(P), <2>1, <2>2, <2>3, ShapeIs
<1>16. Shape(final, back) =
         Frame(recs, Q, Loaded(final, back.loads), ShellEnds(final, back.shells),
               back.udls, back.flagged)
  <2>1. AllOn(final, recs)
    BY <1>2, <1>8 DEF AllOn
  <2>2. HeldBy(final, recs, Q)
    BY <1>3, <1>8, <1>9, HeldPlaced DEF HeldBy
  <2>3. Laid(final, recs, P) /\ Drawn(recs, P)
    BY <1>9
  <2> HIDE DEF recs, back, Q
  <2> QED
    BY ONLY NearIn(P), <2>1, <2>2, <2>3, ShapeIs
<1> HIDE DEF back, recs, Q
<1>17. Shape(final, back) = Shape(m, x)
  BY <1>10, <1>12, <1>13, <1>14, <1>15, <1>16 DEF Frame
<1> QED
  BY <1>17 DEF final, back

-------------------------------------------------------------------------------
\* The archive of an older game: supports first or members first, the frame is the same.
LEMMA OldShapeBack ==
  ASSUME PersistenceAssumption, OldFrame.separate
  PROVE  Shape(ReplayModel(OldArchive), ReplayExtras(OldArchive)) = OldFrame.shape
<1> DEFINE recs == OldArchive.records
           supports == OldArchive.supports
           P == Supports \cup UNION {{rec.i, rec.j} : rec \in Range(recs)}
           Q == Listed(supports)
           none == {}
           built == ReplayMembers(EmptyModel, recs)
           after == ReplaySupports(built, supports)
           first == ReplaySupports(EmptyModel, supports)
           final == ReplayMembers(first, recs)
<1>1. /\ OldArchive.version = 0 /\ supports = SetToSeq(Supports)
      /\ recs \in Seq(Kept)
  <2>1. supports = SetToSeq(Supports) /\ OldArchive.version = 0
    BY DEF OldArchive, Blank
  <2> QED
    BY <2>1, OldIsWhole DEF Whole
<1>2. /\ OldFrame.shape = Shape(after, NoExtras) /\ OldFrame.separate = Separate(P)
  BY DEF OldFrame
<1>3. /\ ReplayModel(OldArchive) = final /\ ReplayExtras(OldArchive) = NoExtras
  BY <1>1 DEF ReplayModel, ReplayExtras
<1>4. supports \in Seq(Supports) /\ supports \in Seq(Int) /\ Supports \subseteq Int
  BY <1>1, SupportsListed, RegistryAssumption
<1> HIDE DEF recs, supports
<1>5. \A r \in 1..Len(recs) : /\ recs[r] \in Range(recs) /\ recs[r].i \in Int /\ recs[r].j \in Int
  <2>1. DOMAIN recs = 1..Len(recs) /\ \A r \in 1..Len(recs) : recs[r] \in Kept
    BY <1>1
  <2>2. \A rec \in Kept : rec.i \in Int /\ rec.j \in Int
    BY DEF Kept, Rec
  <2> QED
    BY <2>1, <2>2 DEF Range
<1>6. Drawn(recs, P)
  <2> SUFFICES ASSUME NEW e \in AllEnds(recs) PROVE Place(recs, e) \in P
    BY <1>1 DEF Drawn
  <2>1. PICK r \in 1..Len(recs), s \in {"i", "j"} : e = <<r, s>>
    BY DEF AllEnds
  <2>2. Place(recs, e) \in {recs[r].i, recs[r].j}
    BY <2>1 DEF Place
  <2> QED
    BY <1>5, <2>2
<1>7. NearIn(P)
  <2>1. \A rec \in Range(recs) : rec.i \in Int /\ rec.j \in Int
    <3>1. DOMAIN recs = 1..Len(recs)
      BY <1>1
    <3> QED
      BY <1>5, <3>1 DEF Range
  <2>2. P \subseteq Int
    BY <1>4, <2>1
  <2> HIDE DEF P
  <2> QED
    BY <1>2, <2>2 DEF NearIn
<1>8. Q \in SUBSET P /\ none \in SUBSET P /\ \A k \in 1..Len(supports) : supports[k] \in P
  BY <1>4 DEF Listed
<1> HIDE DEF P
<1>9. /\ built \in Model /\ Placed(built.nodes, P, none) /\ Laid(built, recs, P)
      /\ AllOn(built, recs)
  BY <1>6, <1>7, MembersOnEmpty
<1>10. /\ EmptyModel \in Model /\ EmptyModel.members = <<>> /\ Placed(EmptyModel.nodes, P, none)
  <2>1. <<>> \in Seq(Node) /\ Len(<<>>) = 0
    OBVIOUS
  <2> QED
    BY <2>1 DEF Placed, Apart, EmptyModel, Model
<1> DEFINE empty == EmptyModel
<1> HIDE DEF built, first, final, after, none, Q, empty
<1>11. Placed(after.nodes, P, none \cup Q)
  BY <1>4, <1>7, <1>8, <1>9, SupportsPlaced DEF after, Q
<1>12. /\ after \in Model /\ after.members = built.members /\ Grows(built.nodes, after.nodes)
  BY <1>4, <1>9, SupportsReplayed DEF after
<1>13. Laid(after, recs, P) /\ AllOn(after, recs)
  <2>1. Laid(after, recs, P)
    BY <1>9, <1>11, <1>12, LaidGrows DEF Placed
  <2> QED
    BY <1>9, <1>12, <2>1 DEF AllOn
<1>14. Placed(first.nodes, P, none \cup Q)
  <2>1. empty \in Model /\ Placed(empty.nodes, P, none)
    BY <1>10 DEF empty
  <2>2. Placed(ReplaySupports(empty, supports).nodes, P, none \cup Q)
    BY <1>4, <1>7, <1>8, <2>1, SupportsPlaced DEF Q
  <2> QED
    BY <2>2 DEF empty, first
<1>15. first \in Model /\ Len(first.members) = 0
  <2>1. empty \in Model /\ empty.members = <<>>
    BY <1>10 DEF empty
  <2>2. ReplaySupports(empty, supports) \in Model /\ ReplaySupports(empty, supports).members = <<>>
    BY <1>4, <2>1, SupportsReplayed
  <2> QED
    BY <2>2 DEF empty, first
<1>16. none \cup Q = Q
  BY DEF none
<1>17. Placed(final.nodes, P, Q) /\ Laid(final, recs, P) /\ AllOn(final, recs)
  <2>1. Raised(first, recs, P, Q)
    BY <1>6, <1>7, <1>8, <1>14, <1>15, <1>16, MembersLaid
  <2> QED
    BY <2>1 DEF Raised, final
<1>18. ASSUME NEW m, Laid(m, recs, P), AllOn(m, recs), Placed(m.nodes, P, Q)
       PROVE  Shape(m, NoExtras) = Frame(recs, Q, Picked(<<>>, {}), <<>>, <<>>, {})
  <2>1. HeldBy(m, recs, Q)
    BY <1>6, <1>7, <1>8, <1>18, HeldPlaced DEF HeldBy
  <2>2. Shape(m, NoExtras) = Frame(recs, Q, Loaded(m, NoExtras.loads), ShellEnds(m, NoExtras.shells),
                                   NoExtras.udls, NoExtras.flagged)
    BY <1>6, <1>7, <1>18, <2>1, ShapeIs
  <2>3. Loaded(m, <<>>) = Picked(<<>>, {})
    BY DEF Loaded
  <2>4. ShellEnds(m, <<>>) = <<>>
    BY DEF ShellEnds
  <2> QED
    BY <2>2, <2>3, <2>4 DEF NoExtras
<1>19. Shape(after, NoExtras) = Shape(final, NoExtras)
  BY <1>11, <1>13, <1>16, <1>17, <1>18
<1> QED
  BY <1>2, <1>3, <1>19

-------------------------------------------------------------------------------
\* What stands wherever it was built, near or far: every member is on nodes near to its ends,
\* and the nodes lie apart.
LEMMA NodesSomewhere ==
  ASSUME NEW m \in Model
  PROVE  \A n \in 1..Len(m.nodes) : m.nodes[n].pos \in Int
<1>1. m.nodes \in Seq(Node)
  BY DEF Model
<1>2. \A n \in 1..Len(m.nodes) : m.nodes[n] \in Node
  BY <1>1
<1>3. \A node \in Node : node.pos \in Int
  BY DEF Node
<1> QED
  BY <1>2, <1>3

\* One more member, registered, leaves the frame laid, whatever its geometry.
LEMMA AddMemberLaid ==
  ASSUME NEW recs, NEW m, Laid(m, recs, Int), NEW p \in Int, NEW q \in Int, NEW more,
         Len(recs) \in Nat, Len(more) = Len(recs) + 1,
         \A r \in 1..Len(recs) : more[r].i = recs[r].i /\ more[r].j = recs[r].j,
         more[Len(recs) + 1].i = p, more[Len(recs) + 1].j = q
  PROVE  Laid(AddMember(m, p, q), more, Int)
<1> DEFINE a == AddMember(m, p, q)
           N == Len(recs)
<1>1. m \in Model /\ m.nodes \in Seq(Node) /\ Len(m.members) = N /\ Apart(m.nodes)
  BY DEF Laid, Model
<1>2. /\ a \in Model /\ Len(a.members) = N + 1 /\ Apart(a.nodes) /\ Grows(m.nodes, a.nodes)
      /\ \A r \in 1..N : a.members[r] = m.members[r]
      /\ a.members[N + 1].i \in Hits(a.nodes, p) /\ a.members[N + 1].j \in Hits(a.nodes, q)
  <2>1. /\ a \in Model /\ Len(a.members) = Len(m.members) + 1
        /\ \A r \in 1..Len(m.members) : a.members[r] = m.members[r]
    BY <1>1, AddMemberTyped
  <2>2. /\ a.members[Len(m.members) + 1].i \in Hits(a.nodes, p)
        /\ a.members[Len(m.members) + 1].j \in Hits(a.nodes, q)
    BY <1>1, AddMemberLays
  <2>3. Grows(m.nodes, a.nodes) /\ Apart(a.nodes)
    BY <1>1, AddMemberGrows, AddMemberApart
  <2> QED
    BY <1>1, <2>1, <2>2, <2>3
<1> HIDE DEF a
<1>3. a.nodes \in Seq(Node) /\ Len(a.nodes) \in Nat /\ Len(m.nodes) \in Nat
  BY <1>1, <1>2 DEF Model
<1>4. \A x : Hits(m.nodes, x) \subseteq Hits(a.nodes, x)
  BY <1>2, <1>3 DEF Grows, Hits
<1>5. \A n \in 1..Len(a.nodes) : a.nodes[n].pos \in Int
  BY <1>2, NodesSomewhere
<1>6. ASSUME NEW e \in AllEnds(more) PROVE NodeOf(a, e) \in Hits(a.nodes, Place(more, e))
  <2>1. PICK r \in 1..(N + 1), s \in {"i", "j"} : e = <<r, s>>
    BY DEF AllEnds
  <2>2. NodeOf(a, e) = a.members[r][s] /\ Place(more, e) = more[r][s]
    BY <2>1 DEF NodeOf, Place
  <2>3. CASE r = N + 1
    BY <1>2, <2>1, <2>2, <2>3
  <2>4. CASE r # N + 1
    <3>1. r \in 1..N /\ <<r, s>> \in AllEnds(recs)
      BY <2>4 DEF AllEnds
    <3>2. m.members[r][s] \in Hits(m.nodes, recs[r][s])
      BY <3>1 DEF Laid, NodeOf, Place
    <3>3. a.members[r][s] = m.members[r][s] /\ more[r][s] = recs[r][s]
      BY <1>2, <2>1, <3>1
    <3> QED
      BY <1>4, <2>2, <3>2, <3>3
  <2> QED
    BY <2>3, <2>4
<1>7. Laid(a, more, Int)
  BY <1>2, <1>5, <1>6 DEF Laid
<1> QED
  BY <1>7 DEF a

\* So does a replay of all of them.
LEMMA MembersLay ==
  ASSUME NEW m \in Model, Len(m.members) = 0, Apart(m.nodes), NEW recs \in Seq(Kept)
  PROVE  Laid(ReplayMembers(m, recs), recs, Int)
<1> DEFINE N == Len(recs)
           first(k) == [r \in 1..k |-> recs[r]]
<1>1. PICK after \in [0..N -> Model] :
        /\ after[0] = m
        /\ \A k \in 1..N : after[k] = AddMember(after[k - 1], recs[k].i, recs[k].j)
        /\ ReplayMembers(m, recs) = after[N]
  BY MembersByOne
<1>2. N \in Nat /\ \A k \in 1..N : recs[k] \in Kept /\ k \in 0..N /\ k - 1 \in 0..N
  OBVIOUS
<1>3. ASSUME NEW k \in 0..N
      PROVE  /\ Len(first(k)) = k /\ \A r \in 1..k : first(k)[r] = recs[r]
  OBVIOUS
<1> DEFINE S == {k \in 0..N : Laid(after[k], first(k), Int)}
<1>4. 0 \in S
  <2>1. \A n \in 1..Len(m.nodes) : m.nodes[n].pos \in Int
    BY NodesSomewhere
  <2>2. 0 \in 0..N
    BY <1>2
  <2>3. Len(first(0)) = 0
    BY <1>3, <2>2
  <2> HIDE DEF first
  <2>4. AllEnds(first(0)) = {}
    BY <2>3 DEF AllEnds
  <2>5. Laid(m, first(0), Int)
    BY <2>1, <2>3, <2>4 DEF Laid
  <2> QED
    BY <1>1, <2>2, <2>5
<1>5. ASSUME NEW k \in 1..N, k - 1 \in S PROVE k \in S
  <2> DEFINE x == after[k - 1]
             p == recs[k].i
             q == recs[k].j
             few == first(k - 1)
             more == first(k)
  <2>1. /\ Laid(x, few, Int) /\ after[k] = AddMember(x, p, q)
    BY <1>1, <1>5
  <2>2. p \in Int /\ q \in Int
    BY <1>2, KeptEnds
  <2>3. /\ Len(few) = k - 1 /\ Len(more) = k
        /\ \A r \in 1..(k - 1) : few[r] = recs[r]
        /\ \A r \in 1..k : more[r] = recs[r]
    BY <1>2, <1>3
  <2> HIDE DEF x, few, more, S, first
  <2>4. /\ Len(few) \in Nat /\ Len(more) = Len(few) + 1
        /\ \A r \in 1..Len(few) : more[r].i = few[r].i /\ more[r].j = few[r].j
        /\ more[Len(few) + 1].i = p /\ more[Len(few) + 1].j = q
    BY <2>3
  <2> HIDE DEF p, q
  <2>5. Laid(AddMember(x, p, q), more, Int)
    BY <2>1, <2>2, <2>4, AddMemberLaid
  <2> QED
    BY <1>2, <2>1, <2>5 DEF S, more
<1>6. 0..N \subseteq S
  <2> HIDE DEF S, N
  <2> QED
    BY <1>2, <1>4, <1>5, Ascent
<1>7. Laid(after[N], first(N), Int)
  BY <1>2, <1>6
<1>8. first(N) = recs
  OBVIOUS
<1> HIDE DEF first
<1> QED
  BY <1>1, <1>7, <1>8

\* Supports leave the nodes apart.
LEMMA SupportsApart ==
  ASSUME NEW m \in Model, Apart(m.nodes), NEW places \in Seq(Int)
  PROVE  Apart(ReplaySupports(m, places).nodes)
<1> DEFINE n == Len(places)
<1>1. PICK after \in [0..n -> Model] :
        /\ after[0] = m
        /\ \A k \in 1..n : after[k] = AddSupport(after[k - 1], places[k])
        /\ ReplaySupports(m, places) = after[n]
  BY SupportsByOne
<1>2. n \in Nat /\ \A k \in 1..n : places[k] \in Int /\ k \in 0..n /\ k - 1 \in 0..n
  OBVIOUS
<1> DEFINE S == {k \in 0..n : Apart(after[k].nodes)}
<1>3. 0 \in S
  BY <1>1, <1>2
<1>4. \A k \in 1..n : k - 1 \in S => k \in S
  BY <1>1, <1>2, AddSupportApart
<1>5. 0..n \subseteq S
  <2> HIDE DEF S, n
  <2> QED
    BY <1>2, <1>3, <1>4, Ascent
<1>6. n \in 0..n
  BY <1>2
<1> QED
  BY <1>1, <1>5, <1>6

\* So do a shell's corners.
LEMMA CornersApart ==
  ASSUME NEW m \in Model, Apart(m.nodes), NEW corners \in Seq(Int)
  PROVE  Apart(AddCorners(m, corners).nodes)
<1> DEFINE n == Len(corners)
           all == FoldLeft(FindOrAddNode, m.nodes, corners)
<1>1. m.nodes \in Seq(Node) /\ m = [nodes |-> m.nodes, members |-> m.members]
  BY DEF Model
<1>2. PICK after \in [0..n -> Seq(Node)] :
        /\ after[0] = m.nodes
        /\ \A k \in 1..n : after[k] = FindOrAddNode(after[k - 1], corners[k])
        /\ all = after[n]
  BY <1>1, CornersByOne
<1>3. n \in Nat /\ \A k \in 1..n : corners[k] \in Int /\ k \in 0..n /\ k - 1 \in 0..n
  OBVIOUS
<1> DEFINE S == {k \in 0..n : Apart(after[k])}
<1>4. 0 \in S
  BY <1>2, <1>3
<1>5. \A k \in 1..n : k - 1 \in S => k \in S
  BY <1>2, <1>3, FindOrAddApart
<1>6. 0..n \subseteq S
  <2> HIDE DEF S, n
  <2> QED
    BY <1>3, <1>4, <1>5, Ascent
<1>7. Apart(all)
  <2>1. n \in 0..n
    BY <1>3
  <2> QED
    BY <1>2, <1>6, <2>1
<1>8. AddCorners(m, corners) = [m EXCEPT !.nodes = all]
  BY DEF AddCorners
<1> HIDE DEF all
<1> QED
  BY <1>1, <1>7, <1>8

\* And all the shells', which only add nodes.
LEMMA ShellsApart ==
  ASSUME NEW m \in Model, Apart(m.nodes), NEW shells \in Seq(Seq(Int))
  PROVE  /\ Apart(ReplayShells(m, shells).nodes)
         /\ Grows(m.nodes, ReplayShells(m, shells).nodes)
<1> DEFINE n == Len(shells)
<1>1. PICK after \in [0..n -> Model] :
        /\ after[0] = m
        /\ \A k \in 1..n : after[k] = AddCorners(after[k - 1], shells[k])
        /\ ReplayShells(m, shells) = after[n]
  BY ShellsByOne
<1>2. n \in Nat /\ \A k \in 1..n : shells[k] \in Seq(Int) /\ k \in 0..n /\ k - 1 \in 0..n
  OBVIOUS
<1>3. \A x \in Model : x.nodes \in Seq(Node)
  BY DEF Model
<1> DEFINE S == {k \in 0..n : Apart(after[k].nodes) /\ Grows(m.nodes, after[k].nodes)}
<1>4. 0 \in S
  BY <1>1, <1>2, <1>3, GrowsSame
<1>5. ASSUME NEW k \in 1..n, k - 1 \in S PROVE k \in S
  <2>1. /\ after[k - 1] \in Model /\ after[k] \in Model /\ shells[k] \in Seq(Int)
        /\ after[k] = AddCorners(after[k - 1], shells[k])
        /\ Apart(after[k - 1].nodes) /\ Grows(m.nodes, after[k - 1].nodes)
    BY <1>1, <1>2, <1>5
  <2>2. Apart(after[k].nodes) /\ Grows(after[k - 1].nodes, after[k].nodes)
    BY <2>1, CornersApart, AddCornersTyped
  <2>3. Grows(m.nodes, after[k].nodes)
    BY <1>3, <2>1, <2>2, GrowsTrans
  <2> QED
    BY <1>2, <2>2, <2>3
<1>6. 0..n \subseteq S
  <2> HIDE DEF S, n
  <2> QED
    BY <1>2, <1>4, <1>5, Ascent
<1>7. n \in 0..n
  BY <1>2
<1> QED
  BY <1>1, <1>6, <1>7

\* The model that a load rebuilds has the members of the archive, and a load finds its node.
LEMMA ModelLaid ==
  ASSUME NEW a, Parts(a), a.records \in Seq(Kept)
  PROVE  /\ Laid(ReplayModel(a), a.records, Int)
         /\ a.version = 2 =>
              Len(ReplayMembers(EmptyModel, a.records).nodes) <= Len(ReplayModel(a).nodes)
<1> DEFINE recs == a.records
           empty == EmptyModel
           final == ReplayModel(a)
<1>1. empty \in Model /\ Len(empty.members) = 0 /\ Apart(empty.nodes)
  <2>1. <<>> \in Seq(Node) /\ Len(<<>>) = 0
    OBVIOUS
  <2> QED
    BY <2>1 DEF Apart, EmptyModel, Model
<1>2. recs \in Seq(Kept) /\ a.supports \in Seq(Int) /\ a.shells \in Seq(Seq(Int)) /\ a.fixities \in Seq(Int)
  BY DEF Parts
<1>3. ASSUME NEW x \in Model PROVE \A n \in 1..Len(x.nodes) : x.nodes[n].pos \in Int
  BY NodesSomewhere
<1>4. CASE a.version = 2
  <2> DEFINE built == ReplayMembers(empty, recs)
             shelled == ReplayShells(built, a.shells)
             near == NodesNear(shelled, a.fixities)
  <2>1. final = ReplaySupports(shelled, near)
    BY <1>4 DEF ReplayModel, ReplayNodeFixities, ReplaySupports
  <2> HIDE DEF empty, recs, final
  <2>2. Laid(built, recs, Int) /\ built \in Model /\ Apart(built.nodes)
    BY <1>1, <1>2, MembersLay DEF Laid
  <2> HIDE DEF built
  <2>3. /\ shelled \in Model /\ shelled.members = built.members
        /\ Apart(shelled.nodes) /\ Grows(built.nodes, shelled.nodes)
    BY <1>2, <2>2, ShellsReplayed, ShellsApart
  <2>4. near \in Seq(Int)
    BY <1>2, NearTyped
  <2> HIDE DEF shelled, near
  <2>5. /\ final \in Model /\ final.members = shelled.members
        /\ Apart(final.nodes) /\ Grows(shelled.nodes, final.nodes)
    BY <2>1, <2>3, <2>4, SupportsReplayed, SupportsApart
  <2>6. Grows(built.nodes, final.nodes)
    <3>1. built.nodes \in Seq(Node) /\ shelled.nodes \in Seq(Node) /\ final.nodes \in Seq(Node)
      BY <2>2, <2>3, <2>5 DEF Model
    <3> QED
      BY <2>3, <2>5, <3>1, GrowsTrans
  <2>7. Laid(final, recs, Int)
    BY <1>3, <2>2, <2>3, <2>5, <2>6, LaidGrows
  <2> QED
    BY <2>6, <2>7 DEF Grows, built, empty, recs, final
<1>5. CASE a.version # 2
  <2> DEFINE held == ReplaySupports(empty, a.supports)
  <2>1. final = ReplayMembers(held, recs)
    BY <1>5 DEF ReplayModel
  <2> HIDE DEF empty, recs, final
  <2>2. held \in Model /\ held.members = empty.members /\ Apart(held.nodes)
    BY <1>1, <1>2, SupportsReplayed, SupportsApart
  <2> HIDE DEF held
  <2>3. Laid(final, recs, Int)
    BY <1>1, <1>2, <2>1, <2>2, MembersLay
  <2> QED
    BY <1>5, <2>3 DEF recs, final
<1> QED
  BY <1>4, <1>5

-------------------------------------------------------------------------------
\* Every row is on nodes near to the ends of the component that the map names for it, a
\* component that has a row is named by it, and what hangs on the frame is on nodes and rows
\* that there are.
MapEnds(f) == [r \in DOMAIN f |-> [i |-> EndI[f[r]], j |-> EndJ[f[r]]]]

HouseInv ==
  /\ Laid(model, MapEnds(indexToComponent), Int)
  /\ Hung(model, extras)
  /\ memberIdx \in [Comps -> Nat]
  /\ \A c \in Comps : memberIdx[c] > 0 =>
       memberIdx[c] \in DOMAIN indexToComponent /\ indexToComponent[memberIdx[c]] = c

\* The ends of the registered components, row by row.
LEMMA MapEndsIs ==
  ASSUME NEW n \in Nat, NEW f \in [1..n -> Comps]
  PROVE  /\ Len(MapEnds(f)) = n
         /\ \A r \in 1..n : /\ MapEnds(f)[r].i = EndI[f[r]] /\ MapEnds(f)[r].j = EndJ[f[r]]
                            /\ EndI[f[r]] \in Int /\ EndJ[f[r]] \in Int
<1> DEFINE ends(r) == [i |-> EndI[f[r]], j |-> EndJ[f[r]]]
<1>1. MapEnds(f) = [r \in 1..n |-> ends(r)]
  BY DEF MapEnds
<1>2. \A r \in 1..n : /\ ends(r).i = EndI[f[r]] /\ ends(r).j = EndJ[f[r]]
                      /\ EndI[f[r]] \in Int /\ EndJ[f[r]] \in Int
  BY RegistryAssumption
<1> HIDE DEF ends
<1>3. Len(MapEnds(f)) = n /\ \A r \in 1..n : MapEnds(f)[r] = ends(r)
  BY <1>1
<1> QED
  BY <1>2, <1>3

\* A frame is laid by all records with the same ends.
LEMMA LaidLike ==
  ASSUME NEW P, NEW m, NEW recs, Laid(m, recs, P), NEW more, Len(more) = Len(recs),
         \A r \in 1..Len(recs) : more[r].i = recs[r].i /\ more[r].j = recs[r].j,
         NEW R, \A n \in 1..Len(m.nodes) : m.nodes[n].pos \in R
  PROVE  Laid(m, more, R)
<1>1. ASSUME NEW e \in AllEnds(more) PROVE NodeOf(m, e) \in Hits(m.nodes, Place(more, e))
  <2>1. PICK r \in 1..Len(recs), s \in {"i", "j"} : e = <<r, s>>
    BY DEF AllEnds
  <2>2. e \in AllEnds(recs)
    BY <2>1 DEF AllEnds
  <2>3. Place(more, e) = Place(recs, e)
    <3>1. CASE s = "i"
      BY <2>1, <3>1 DEF Place
    <3>2. CASE s = "j"
      BY <2>1, <3>2 DEF Place
    <3> QED
      BY <3>1, <3>2
  <2> QED
    BY <2>2, <2>3 DEF Laid
<1> QED
  BY <1>1 DEF Laid

\* Fixing nodes and switching rows off leaves a frame laid.
LEMMA LaidTopology ==
  ASSUME NEW P, NEW recs, NEW a, Laid(a, recs, P), NEW b \in Model, SameTopology(a, b)
  PROVE  Laid(b, recs, P)
<1>1. ASSUME NEW e \in AllEnds(recs) PROVE NodeOf(b, e) \in Hits(b.nodes, Place(recs, e))
  <2>1. PICK r \in 1..Len(recs), s \in {"i", "j"} : e = <<r, s>>
    BY DEF AllEnds
  <2>2. r \in 1..Len(a.members)
    BY DEF Laid
  <2>3. NodeOf(b, e) = NodeOf(a, e)
    <3>1. CASE s = "i"
      BY <2>1, <2>2, <3>1 DEF NodeOf, SameTopology
    <3>2. CASE s = "j"
      BY <2>1, <2>2, <3>2 DEF NodeOf, SameTopology
    <3> QED
      BY <3>1, <3>2
  <2>4. NodeOf(a, e) \in Hits(a.nodes, Place(recs, e)) /\ a.nodes = b.nodes
    BY DEF Laid, SameTopology
  <2> QED
    BY <2>3, <2>4
<1> QED
  BY <1>1 DEF Laid, SameTopology

\* What is attached stays on its nodes and rows when more are added.
LEMMA HungGrows ==
  ASSUME NEW m \in Model, NEW b \in Model, Grows(m.nodes, b.nodes),
         Len(m.members) <= Len(b.members), NEW x, Hung(m, x)
  PROVE  Hung(b, x)
<1>1. m.nodes \in Seq(Node) /\ b.nodes \in Seq(Node) /\ m.members \in Seq(Row) /\ b.members \in Seq(Row)
  BY DEF Model
<1>2. 1..Len(m.nodes) \subseteq 1..Len(b.nodes) /\ 1..Len(m.members) \subseteq 1..Len(b.members)
  BY <1>1 DEF Grows
<1>3. x.loads \in Seq(1..Len(b.nodes)) /\ x.udls \in Seq(1..Len(b.members))
  <2>1. x.loads \in Seq(1..Len(m.nodes)) /\ x.udls \in Seq(1..Len(m.members))
    BY DEF Hung
  <2> DEFINE A == 1..Len(m.nodes)
             B == 1..Len(b.nodes)
             C == 1..Len(m.members)
             D == 1..Len(b.members)
             loads == x.loads
             udls == x.udls
  <2>2. A \subseteq B /\ C \subseteq D /\ loads \in Seq(A) /\ udls \in Seq(C)
    BY <1>2, <2>1
  <2> HIDE DEF A, B, C, D, loads, udls
  <2>3. loads \in Seq(B) /\ udls \in Seq(D)
    BY <2>2, SeqIn
  <2> QED
    BY <2>3 DEF loads, udls, B, D
<1>4. x.shells \in Seq(Seq(1..Len(b.nodes)))
  BY <1>1, ShellsStay DEF Hung
<1> QED
  BY <1>2, <1>3, <1>4 DEF Hung

\* Building.
LEMMA GrownKeepsHouse ==
  ASSUME HouseInv, model \in Model, model' \in Model, Grows(model.nodes, model'.nodes),
         Len(model.members) <= Len(model'.members),
         Laid(model', MapEnds(indexToComponent'), Int), extras' = extras,
         memberIdx' \in [Comps -> Nat],
         \A c \in Comps : memberIdx'[c] > 0 =>
           memberIdx'[c] \in DOMAIN indexToComponent' /\ indexToComponent'[memberIdx'[c]] = c
  PROVE  HouseInv'
<1>1. Hung(model', extras)
  BY HungGrows DEF HouseInv
<1> QED
  BY <1>1 DEF HouseInv

\* Registering a member.
LEMMA RegisterKeepsHouse ==
  ASSUME FrameInv, HouseInv, NEW c \in Comps, RegisterMember(c), extras' = extras
  PROVE  HouseInv'
<1> DEFINE N == Len(model.members)
           p == EndI[c]
           q == EndJ[c]
<1>1. model \in Model /\ N \in Nat /\ model.nodes \in Seq(Node)
  BY DEF FrameInv, Model
<1>2. CASE registered[c] \/ Rejected(c)
  <2>1. UNCHANGED <<memberIdx, modelVars>>
    BY <1>2 DEF RegisterMember
  <2> QED
    BY <2>1 DEF HouseInv, modelVars
<1>3. CASE ~(registered[c] \/ Rejected(c))
  <2>1. /\ model' = AddMember(model, p, q)
        /\ nextMemberIdx = N + 1
        /\ memberIdx' = [memberIdx EXCEPT ![c] = nextMemberIdx]
        /\ indexToComponent' =
             [r \in DOMAIN indexToComponent \cup {nextMemberIdx} |->
                IF r = nextMemberIdx THEN c ELSE indexToComponent[r]]
    BY <1>3 DEF RegisterMember, FrameInv
  <2>2. p \in Int /\ q \in Int
    BY RegistryAssumption
  <2>3. /\ model' \in Model /\ Len(model'.members) = N + 1
        /\ Grows(model.nodes, model'.nodes)
    BY <1>1, <2>1, <2>2, AddMemberTyped, AddMemberGrows
  <2>4. /\ indexToComponent \in [1..N -> Comps] /\ indexToComponent' \in [1..(N + 1) -> Comps]
        /\ indexToComponent'[N + 1] = c
        /\ \A r \in 1..N : indexToComponent'[r] = indexToComponent[r]
    <3>1. indexToComponent \in [1..N -> Comps]
      BY DEF FrameInv
    <3>2. 1..(N + 1) = 1..N \cup {N + 1} /\ N + 1 \notin 1..N
      BY <1>1
    <3> HIDE DEF N
    <3> QED
      BY <2>1, <3>1, <3>2
  <2> DEFINE few == MapEnds(indexToComponent)
             more == MapEnds(indexToComponent')
  <2> HIDE DEF N
  <2>5. /\ Len(few) = N /\ Len(more) = N + 1
        /\ \A r \in 1..N : more[r].i = few[r].i /\ more[r].j = few[r].j
        /\ more[N + 1].i = p /\ more[N + 1].j = q
    <3> DEFINE f == indexToComponent
               g == indexToComponent'
    <3>1. f \in [1..N -> Comps] /\ g \in [1..(N + 1) -> Comps] /\ g[N + 1] = c
          /\ \A r \in 1..N : g[r] = f[r]
      BY <2>4
    <3>2. N + 1 \in Nat /\ N + 1 \in 1..(N + 1) /\ \A r \in 1..N : r \in 1..(N + 1)
      BY <1>1
    <3> HIDE DEF f, g
    <3>3. /\ Len(MapEnds(f)) = N /\ Len(MapEnds(g)) = N + 1
          /\ \A r \in 1..N : MapEnds(f)[r].i = EndI[f[r]] /\ MapEnds(f)[r].j = EndJ[f[r]]
          /\ \A r \in 1..(N + 1) : MapEnds(g)[r].i = EndI[g[r]] /\ MapEnds(g)[r].j = EndJ[g[r]]
      BY <1>1, <3>1, <3>2, MapEndsIs
    <3> QED
      BY <3>1, <3>2, <3>3 DEF f, g
  <2>6. Laid(model, few, Int)
    BY DEF HouseInv
  <2> HIDE DEF few, more, p, q
  <2>7. Laid(model', more, Int)
    BY <1>1, <2>1, <2>2, <2>5, <2>6, AddMemberLaid
  <2>8. memberIdx \in [Comps -> Nat] /\ memberIdx' \in [Comps -> Nat]
    BY <1>1, <2>1 DEF HouseInv
  <2>9. ASSUME NEW d \in Comps, memberIdx'[d] > 0
        PROVE  memberIdx'[d] \in DOMAIN indexToComponent' /\ indexToComponent'[memberIdx'[d]] = d
    <3>1. CASE d = c
      BY <1>1, <2>1, <2>4, <2>8, <3>1
    <3>2. CASE d # c
      <4>1. memberIdx'[d] = memberIdx[d]
        BY <2>1, <2>8, <3>2
      <4>2. memberIdx[d] \in 1..N /\ indexToComponent[memberIdx[d]] = d
        BY <2>4, <2>9, <4>1 DEF HouseInv
      <4> QED
        BY <1>1, <2>4, <4>1, <4>2
    <3> QED
      BY <3>1, <3>2
  <2> QED
    BY <1>1, <2>3, <2>7, <2>8, <2>9, GrownKeepsHouse DEF more, N
<1> QED
  BY <1>2, <1>3

\* Deactivating one.
LEMMA DeactivateKeepsHouse ==
  ASSUME FrameInv, HouseInv, NEW r \in 1..Len(model.members), DeactivateMember(r), extras' = extras
  PROVE  HouseInv'
<1>1. model \in Model /\ model.nodes \in Seq(Node) /\ Len(model.nodes) \in Nat /\ Len(model.members) \in Nat
  BY DEF FrameInv, Model
<1>2. /\ model' = SwitchOff(model, r) /\ indexToComponent' = indexToComponent
      /\ memberIdx' = [c \in Comps |-> IF c \in {indexToComponent[r]} THEN 0 ELSE memberIdx[c]]
  BY DEF DeactivateMember, Unbind
<1>3. model' \in Model /\ SameTopology(model, model')
  BY <1>1, <1>2, SwitchOffTyped
<1>4. Grows(model.nodes, model'.nodes) /\ Len(model.members) <= Len(model'.members)
  BY <1>1, <1>3, GrowsSame DEF SameTopology
<1>5. Laid(model', MapEnds(indexToComponent'), Int)
  BY <1>2, <1>3, LaidTopology DEF HouseInv
<1>6. /\ memberIdx' \in [Comps -> Nat]
      /\ \A c \in Comps : memberIdx'[c] > 0 => memberIdx'[c] = memberIdx[c]
  BY <1>2 DEF HouseInv
<1>7. \A c \in Comps : memberIdx'[c] > 0 =>
        memberIdx'[c] \in DOMAIN indexToComponent' /\ indexToComponent'[memberIdx'[c]] = c
  BY <1>2, <1>6 DEF HouseInv
<1> QED
  BY <1>1, <1>3, <1>4, <1>5, <1>6, <1>7, GrownKeepsHouse

\* All that the player does to the frame.
LEMMA BuildKeepsHouse ==
  ASSUME FrameInv, HouseInv, Build
  PROVE  HouseInv'
<1>1. extras' = extras
  BY DEF Build
<1>2. ASSUME NEW c \in Comps, EndPlay(c) PROVE HouseInv'
  <2>1. CASE registered[c] /\ memberIdx[c] > 0
    <3>1. PICK r : r = memberIdx[c]
      OBVIOUS
    <3>2. r \in 1..Len(model.members)
      BY <2>1, <3>1 DEF HouseInv, FrameInv
    <3>3. DeactivateMember(r)
      BY <1>2, <2>1, <3>1 DEF EndPlay
    <3> QED
      BY <1>1, <3>2, <3>3, DeactivateKeepsHouse
  <2>2. CASE ~(registered[c] /\ memberIdx[c] > 0)
    <3>1. UNCHANGED <<memberIdx, modelVars>>
      BY <1>2, <2>2 DEF EndPlay
    <3> QED
      BY <1>1, <3>1 DEF HouseInv, modelVars
  <2> QED
    BY <2>1, <2>2
<1>3. ASSUME NEW c \in Comps, BeginPlay(c) PROVE HouseInv'
  <2>1. CASE RegisterMember(c)
    BY <1>1, <2>1, RegisterKeepsHouse
  <2>2. CASE UNCHANGED <<memberIdx, modelVars>>
    BY <1>1, <2>2 DEF HouseInv, modelVars
  <2> QED
    BY <1>3, <2>1, <2>2 DEF BeginPlay
<1>4. ASSUME NEW p \in Supports, RegisterFixedSupport(p) PROVE HouseInv'
  <2>1. model' = AddSupport(model, p) /\ UNCHANGED <<memberIdx, indexToComponent>>
    BY <1>4 DEF RegisterFixedSupport, compVars
  <2>2. p \in Int /\ model \in Model
    BY RegistryAssumption DEF FrameInv
  <2>3. model' \in Model /\ model'.members = model.members /\ Grows(model.nodes, model'.nodes)
    BY <2>1, <2>2, AddSupportTyped, AddSupportGrows
  <2>4. Apart(model'.nodes)
    BY <2>1, <2>2, AddSupportApart DEF HouseInv, Laid
  <2>5. \A n \in 1..Len(model'.nodes) : model'.nodes[n].pos \in Int
    BY <2>3, NodesSomewhere
  <2> DEFINE recs == MapEnds(indexToComponent)
  <2>6. Laid(model, recs, Int)
    BY DEF HouseInv
  <2> HIDE DEF recs
  <2>7. Laid(model', recs, Int)
    BY <2>3, <2>4, <2>5, <2>6, LaidGrows
  <2>8. Len(model.members) <= Len(model'.members)
    <3>1. Len(model.members) \in Nat
      BY <2>2 DEF Model
    <3> QED
      BY <2>3, <3>1
  <2>9. Laid(model', MapEnds(indexToComponent'), Int)
    BY <2>1, <2>7 DEF recs
  <2>10. /\ memberIdx' \in [Comps -> Nat]
         /\ \A c \in Comps : memberIdx'[c] > 0 =>
              memberIdx'[c] \in DOMAIN indexToComponent' /\ indexToComponent'[memberIdx'[c]] = c
    BY <2>1 DEF HouseInv
  <2> QED
    BY <1>1, <2>2, <2>3, <2>8, <2>9, <2>10, GrownKeepsHouse
<1> QED
  BY <1>2, <1>3, <1>4 DEF Build, Building
\* The API for loads, UDLs, shells and flags.
LEMMA InjectKeepsHouse ==
  ASSUME PersistenceAssumption, FrameInv, HouseInv, Inject
  PROVE  HouseInv'
<1> DEFINE A == 1..Len(model.nodes)
           C == 1..Len(model.members)
<1>1. /\ extras.loads \in Seq(A) /\ extras.udls \in Seq(C) /\ extras.flagged \subseteq C
      /\ extras.shells \in Seq(Seq(A)) /\ Attachments(extras)
  BY DEF HouseInv, FrameInv, Hung
<1>2. ASSUME vars' = vars, extras'.loads \in Seq(A), extras'.udls \in Seq(C),
             extras'.flagged \subseteq C, extras'.shells = extras.shells
      PROVE  HouseInv'
  <2>1. model' = model /\ memberIdx' = memberIdx /\ indexToComponent' = indexToComponent
    BY <1>2 DEF vars, compVars, modelVars
  <2>2. Hung(model', extras')
    BY <1>1, <1>2, <2>1 DEF Hung
  <2> QED
    BY <2>1, <2>2 DEF HouseInv
<1>3. ASSUME NEW n \in A, extras' = [extras EXCEPT !.loads = Append(@, n)], vars' = vars
      PROVE  HouseInv'
  <2> DEFINE new == Append(extras.loads, n)
             S == A
  <2>1. extras' = [extras EXCEPT !.loads = new]
    BY <1>3
  <2>2. new \in Seq(A)
    <3>1. extras.loads \in Seq(S) /\ n \in S
      BY <1>1
    <3> HIDE DEF S
    <3>2. new \in Seq(S)
      BY <3>1
    <3> QED
      BY <3>2 DEF S
  <2> HIDE DEF new
  <2>3. /\ extras'.loads = new /\ extras'.udls = extras.udls
        /\ extras'.flagged = extras.flagged /\ extras'.shells = extras.shells
    BY <1>1, <2>1 DEF Attachments
  <2> QED
    BY <1>1, <1>2, <1>3, <2>2, <2>3
<1>4. ASSUME NEW r \in C, extras' = [extras EXCEPT !.udls = Append(@, r)], vars' = vars
      PROVE  HouseInv'
  <2> DEFINE new == Append(extras.udls, r)
             S == C
  <2>1. extras' = [extras EXCEPT !.udls = new]
    BY <1>4
  <2>2. new \in Seq(C)
    <3>1. extras.udls \in Seq(S) /\ r \in S
      BY <1>1
    <3> HIDE DEF S
    <3>2. new \in Seq(S)
      BY <3>1
    <3> QED
      BY <3>2 DEF S
  <2> HIDE DEF new
  <2>3. /\ extras'.udls = new /\ extras'.loads = extras.loads
        /\ extras'.flagged = extras.flagged /\ extras'.shells = extras.shells
    BY <1>1, <2>1 DEF Attachments
  <2> QED
    BY <1>1, <1>2, <1>4, <2>2, <2>3
<1>5. ASSUME NEW r \in C, extras' = [extras EXCEPT !.flagged = @ \cup {r}], vars' = vars
      PROVE  HouseInv'
  <2> DEFINE new == extras.flagged \cup {r}
  <2>1. extras' = [extras EXCEPT !.flagged = new]
    BY <1>5
  <2>2. new \subseteq C
    BY <1>1
  <2> HIDE DEF new
  <2>3. /\ extras'.flagged = new /\ extras'.loads = extras.loads
        /\ extras'.udls = extras.udls /\ extras'.shells = extras.shells
    BY <1>1, <2>1 DEF Attachments
  <2> QED
    BY <1>1, <1>2, <1>5, <2>2, <2>3
<1>6. CASE /\ model' = AddCorners(model, ShellCorners)
           /\ extras' = [extras EXCEPT !.shells =
                Append(@, [c \in DOMAIN ShellCorners |-> NodeAt(model'.nodes, ShellCorners[c])])]
           /\ UNCHANGED <<compVars, indexToComponent, nextMemberIdx>>
  <2> DEFINE all == Append(extras.shells,
                           [c \in DOMAIN ShellCorners |-> NodeAt(model'.nodes, ShellCorners[c])])
             recs == MapEnds(indexToComponent)
  <2>1. ShellCorners \in Seq(Int) /\ model \in Model
    BY DEF PersistenceAssumption, FrameInv
  <2>2. /\ model' \in Model /\ model'.members = model.members
        /\ Grows(model.nodes, model'.nodes)
    BY <1>6, <2>1, AddCornersTyped
  <2>3. Laid(model, recs, Int)
    BY DEF HouseInv
  <2>4. Apart(model'.nodes)
    BY <1>6, <2>1, <2>3, CornersApart DEF Laid
  <2>5. \A n \in 1..Len(model'.nodes) : model'.nodes[n].pos \in Int
    BY <2>2, NodesSomewhere
  <2> HIDE DEF recs
  <2>6. Laid(model', recs, Int)
    BY <2>2, <2>3, <2>4, <2>5, LaidGrows
  <2>7. Hung(model', extras)
    <3>1. Len(model.members) <= Len(model'.members)
      <4>1. Len(model.members) \in Nat
        BY <2>1 DEF Model
      <4> QED
        BY <2>2, <4>1
    <3> QED
      BY <2>1, <2>2, <3>1, HungGrows DEF HouseInv
  <2>8. /\ extras'.loads = extras.loads /\ extras'.udls = extras.udls
        /\ extras'.flagged = extras.flagged
    <3>1. extras' = [extras EXCEPT !.shells = all]
      BY <1>6
    <3> HIDE DEF all
    <3> QED
      BY <1>1, <3>1 DEF Attachments
  <2>9. extras'.shells \in Seq(Seq(1..Len(model'.nodes)))
    BY InjectKeepsFrame DEF FrameInv
  <2>10. Hung(model', extras')
    BY <2>7, <2>8, <2>9 DEF Hung
  <2> QED
    BY <1>6, <2>6, <2>10 DEF HouseInv, compVars, recs
<1> QED
  BY <1>3, <1>4, <1>5, <1>6 DEF Inject

\* A load restores whatever loads and UDLs the arrays hold.
Carries(a) == a.loads \in Seq(Int) /\ a.udls \in Seq(Nat)
ArraysInv ==
  /\ Carries(sidecar)
  /\ \A s \in Slots : disk[s] # NoArchive => Carries(disk[s])

\* A sequence is one over any set that has its entries.
LEMMA SeqWithin ==
  ASSUME NEW V, NEW W, NEW s \in Seq(V), \A k \in 1..Len(s) : s[k] \in W
  PROVE  s \in Seq(W)
<1>1. Len(s) \in Nat /\ s = [k \in 1..Len(s) |-> s[k]]
  OBVIOUS
<1> QED
  BY <1>1

\* What a replay attaches hangs on the nodes and rows that it made.
LEMMA ExtrasHung ==
  ASSUME NEW a, Parts(a), a.records \in Seq(Kept), Carries(a)
  PROVE  Hung(ReplayModel(a), ReplayExtras(a))
<1> DEFINE final == ReplayModel(a)
           back == ReplayExtras(a)
           built == ReplayMembers(EmptyModel, a.records)
           rows == 1..Len(a.records)
           nodes == 1..Len(final.nodes)
           near == NodesNear(built, a.loads)
           loads == ReplayNodalLoads(built, a.loads)
           udls == ReplayUDLs(a.udls, rows)
<1>1. final \in Model /\ Len(final.members) = Len(a.records)
  BY ModelReplayed
<1>2. back.shells \in Seq(Seq(nodes))
  BY ExtrasReplayed
<1>3. CASE a.version # 2
  <2>1. back = NoExtras
    BY <1>3 DEF ReplayExtras
  <2> QED
    BY <1>2, <2>1 DEF NoExtras, Hung
<1>4. CASE a.version = 2
  <2>1. back.loads = loads /\ back.udls = udls /\ back.flagged = {r \in rows : a.records[r].flagged}
    BY <1>4 DEF ReplayExtras
  <2>2. /\ built \in Model /\ Len(built.nodes) <= Len(final.nodes)
    <3>1. EmptyModel \in Model /\ Len(EmptyModel.members) = 0
      BY DEF EmptyModel, Model
    <3> QED
      BY <1>4, <3>1, MembersReplayed, ModelLaid
  <2>3. built.nodes \in Seq(Node) /\ Len(built.nodes) \in Nat /\ Len(final.nodes) \in Nat
    BY <1>1, <2>2 DEF Model
  <2>4. loads \in Seq(nodes)
    <3> DEFINE list == a.loads
               S == {k \in DOMAIN list : Hits(built.nodes, list[k]) # {}}
    <3>1. list \in Seq(Int) /\ near = Picked(list, S)
      BY DEF Carries, NodesNear
    <3>2. loads = [k \in DOMAIN near |-> NodeAt(built.nodes, near[k])]
      BY DEF ReplayNodalLoads
    <3> HIDE DEF list, near, loads, built, final
    <3>3. S \in SUBSET (1..Len(list))
      BY <3>1
    <3>4. near \in Seq(Int) /\ \A k \in 1..Len(near) : \E x \in S : near[k] = list[x]
      <4> HIDE DEF S
      <4> QED
        BY <3>1, <3>3, PickedIs
    <3>5. \A k \in 1..Len(near) : near[k] \in Int /\ Hits(built.nodes, near[k]) # {}
      BY <3>4
    <3>6. \A k \in 1..Len(near) : NodeAt(built.nodes, near[k]) \in nodes
      BY <2>2, <2>3, <3>5, NodeAtTyped
    <3>7. Len(near) \in Nat /\ DOMAIN near = 1..Len(near)
      BY <3>4
    <3> HIDE DEF nodes
    <3> QED
      BY <3>2, <3>6, <3>7
  <2>5. udls \in Seq(rows)
    <3> DEFINE list == a.udls
               S == {k \in DOMAIN list : list[k] \in rows}
    <3>1. list \in Seq(Nat) /\ udls = Picked(list, S)
      BY DEF Carries, ReplayUDLs
    <3> HIDE DEF list, udls, rows
    <3>2. S \in SUBSET (1..Len(list))
      BY <3>1
    <3>3. udls \in Seq(Nat) /\ \A k \in 1..Len(udls) : \E x \in S : udls[k] = list[x]
      BY <3>1, <3>2, PickedIs
    <3>4. \A k \in 1..Len(udls) : udls[k] \in rows
      BY <3>3
    <3> DEFINE V == Nat
    <3>5. udls \in Seq(V)
      BY <3>3
    <3> HIDE DEF S, V
    <3> QED
      BY <3>4, <3>5, SeqWithin
  <2>6. back.flagged \subseteq rows
    BY <2>1
  <2> HIDE DEF back, loads, udls, final
  <2>7. Hung(final, back)
    BY <1>1, <1>2, <2>1, <2>4, <2>5, <2>6 DEF Hung
  <2> QED
    BY <2>7 DEF final, back
<1> QED
  BY <1>3, <1>4

\* The frame that a replay leaves.
LEMMA ReplayMakesHouse ==
  ASSUME SlotsInv, ArraysInv, PostLoadGame
  PROVE  HouseInv'
<1> DEFINE records == sidecar.records
           actors == Actors(sidecar)
           n == Len(records)
           S == {actors[r] : r \in DOMAIN actors}
<1>1. Parts(sidecar) /\ records \in Seq(Kept) /\ Carries(sidecar)
  BY DEF PostLoadGame, SlotsInv, ArraysInv
<1>2. n \in Nat /\ DOMAIN records = 1..n /\ \A r \in 1..n : records[r] \in Kept
  BY <1>1
<1>3. /\ actors \in [1..n -> Comps]
      /\ \A r \in 1..n : EndI[actors[r]] = records[r].i /\ EndJ[actors[r]] = records[r].j
  <2>1. DOMAIN actors = 1..n
    BY <1>2 DEF Actors
  <2>2. ASSUME NEW r \in 1..n
        PROVE  /\ actors[r] \in Comps
               /\ EndI[actors[r]] = records[r].i /\ EndJ[actors[r]] = records[r].j
    <3>1. \E c \in Comps : EndI[c] = records[r].i /\ EndJ[c] = records[r].j
      BY <1>2 DEF Kept
    <3>2. actors[r] = CHOOSE c \in Comps : EndI[c] = records[r].i /\ EndJ[c] = records[r].j
      BY <1>2 DEF Actors
    <3> QED
      BY <3>1, <3>2
  <2>3. actors = [r \in 1..n |-> actors[r]]
    BY <1>2 DEF Actors
  <2> HIDE DEF actors
  <2> QED
    BY <2>2, <2>3
<1>4. /\ model' = ReplayModel(sidecar) /\ extras' = ReplayExtras(sidecar)
      /\ indexToComponent' = actors
      /\ memberIdx' = [c \in Comps |-> IF c \in S THEN RowOf(c, actors) ELSE 0]
  BY DEF PostLoadGame, ReplayLoadedSidecar
<1> HIDE DEF actors
<1>5. Hung(model', extras')
  BY <1>1, <1>4, ExtrasHung
<1>6. Laid(model', MapEnds(indexToComponent'), Int)
  <2> DEFINE recs == MapEnds(actors)
  <2>1. Laid(model', records, Int) /\ model' \in Model
    BY <1>1, <1>4, ModelLaid DEF Laid
  <2>2. Len(recs) = n /\ \A r \in 1..n : recs[r].i = records[r].i /\ recs[r].j = records[r].j
    BY <1>2, <1>3, MapEndsIs
  <2>3. \A k \in 1..Len(model'.nodes) : model'.nodes[k].pos \in Int
    BY <2>1, NodesSomewhere
  <2> HIDE DEF recs, records
  <2>4. Laid(model', recs, Int)
    BY <2>1, <2>2, <2>3, LaidLike
  <2> QED
    BY <1>4, <2>4 DEF recs
<1>7. ASSUME NEW c \in Comps
      PROVE  /\ memberIdx'[c] \in Nat
             /\ memberIdx'[c] > 0 => memberIdx'[c] \in DOMAIN actors /\ actors[memberIdx'[c]] = c
  <2>1. CASE c \in S
    <3>1. \E r \in DOMAIN actors : actors[r] = c
      BY <2>1
    <3>2. RowOf(c, actors) \in DOMAIN actors /\ actors[RowOf(c, actors)] = c
      BY <3>1 DEF RowOf
    <3>3. DOMAIN actors \subseteq Nat
      BY <1>2, <1>3
    <3> QED
      BY <1>4, <2>1, <3>2, <3>3
  <2>2. CASE c \notin S
    BY <1>4, <2>2
  <2> QED
    BY <2>1, <2>2
<1>8. memberIdx' \in [Comps -> Nat]
  BY <1>4, <1>7
<1> QED
  BY <1>4, <1>5, <1>6, <1>7, <1>8 DEF HouseInv

-------------------------------------------------------------------------------
\* A snapshot that is not refused records every member by its own component's ends.
LEMMA SnapshotRecords ==
  ASSUME FrameInv, HouseInv
  PROVE  /\ Carries(Snapshot)
         /\ ~Partial(Snapshot) =>
              /\ Records(Snapshot, model, extras)
              /\ Laid(model, Snapshot.records, Positions(model))
              /\ \A r \in 1..Len(Snapshot.records) :
                   /\ r \in DOMAIN indexToComponent
                   /\ Snapshot.records[r].i = EndI[indexToComponent[r]]
                   /\ Snapshot.records[r].j = EndJ[indexToComponent[r]]
<1> DEFINE N == Len(model.members)
           nodes == 1..Len(model.nodes)
           S == {r \in 1..N : model.members[r].active => FoundFor(r) # {}}
           F == {n \in nodes : model.nodes[n].fixed}
           rows == InOrder(N, S)
           fixed == InOrder(Len(model.nodes), F)
           recs == [k \in DOMAIN rows |-> Record(rows[k])]
           fixities == [k \in DOMAIN fixed |-> PositionOf(fixed[k])]
           loads == [k \in DOMAIN extras.loads |-> PositionOf(extras.loads[k])]
           shells == [k \in DOMAIN extras.shells |->
                        [c \in DOMAIN extras.shells[k] |-> PositionOf(extras.shells[k][c])]]
<1>1. /\ model \in Model /\ model.members \in Seq(Row) /\ model.nodes \in Seq(Node)
      /\ N \in Nat /\ Len(model.nodes) \in Nat
      /\ S \in SUBSET (1..N) /\ F \in SUBSET (1..Len(model.nodes))
  BY DEF FrameInv, Model
<1>2. \A n \in nodes : PositionOf(n) = model.nodes[n].pos /\ PositionOf(n) \in Int
  BY <1>1, NodesSomewhere DEF PositionOf
<1>3. Snapshot = [version |-> 2, records |-> recs, supports |-> <<>>, loads |-> loads,
                  udls |-> extras.udls, shells |-> shells, fixities |-> fixities]
  BY DEF Snapshot
<1>4. Hung(model, extras)
  BY DEF HouseInv
<1>5. loads = PlacesOf(model, extras.loads) /\ shells = CornerPlaces(model, extras.shells)
  BY DEF PlacesOf, CornerPlaces, PositionOf
<1>6. loads \in Seq(Int) /\ extras.udls \in Seq(Nat)
  <2> DEFINE list == extras.loads
             udls == extras.udls
             C == 1..N
  <2>1. list \in Seq(nodes) /\ udls \in Seq(C) /\ C \subseteq Nat
    BY <1>4 DEF Hung
  <2> HIDE DEF list, udls, nodes, C
  <2>2. udls \in Seq(Nat)
    BY <2>1, SeqIn
  <2>3. /\ Len(list) \in Nat /\ DOMAIN list = 1..Len(list)
        /\ \A k \in 1..Len(list) : PositionOf(list[k]) \in Int
    BY <1>2, <2>1
  <2>4. [k \in DOMAIN list |-> PositionOf(list[k])] \in Seq(Int)
    BY <2>3
  <2> QED
    BY <2>2, <2>4 DEF list, udls
<1>7. Listed(fixities) = FixedPlaces(model)
  <2>1. fixed \in Seq(F) /\ \A n \in F : \E j \in 1..Len(fixed) : fixed[j] = n
    BY <1>1, InOrderTyped, InOrderMeets
  <2>2. FixedPlaces(model) = {PositionOf(n) : n \in F}
    BY DEF FixedPlaces, PositionOf
  <2> HIDE DEF fixed, F
  <2>3. DOMAIN fixed = 1..Len(fixed) /\ Len(fixed) \in Nat /\ \A k \in 1..Len(fixed) : fixed[k] \in F
    BY <2>1
  <2>4. Len(fixities) = Len(fixed) /\ \A k \in 1..Len(fixed) : fixities[k] = PositionOf(fixed[k])
    BY <2>3
  <2> HIDE DEF fixities
  <2> QED
    BY <2>1, <2>2, <2>3, <2>4 DEF Listed
<1> HIDE DEF loads, shells, fixities
<1>8. Carries(Snapshot)
  BY <1>3, <1>6 DEF Carries
<1>9. ASSUME ~Partial(Snapshot)
      PROVE  /\ Records(Snapshot, model, extras)
             /\ Laid(model, Snapshot.records, Positions(model))
             /\ \A r \in 1..Len(Snapshot.records) :
                  /\ r \in DOMAIN indexToComponent
                  /\ Snapshot.records[r].i = EndI[indexToComponent[r]]
                  /\ Snapshot.records[r].j = EndJ[indexToComponent[r]]
  <2>1. /\ Snapshot.records = recs /\ Parts(Snapshot)
        /\ recs \in Seq(Kept) /\ Len(recs) = N
    <3>1. Snapshot.records = recs
      BY <1>3
    <3>2. Len(Shape(model, extras).active) = N
      <4>1. Shape(model, extras).active = [r \in 1..N |-> model.members[r].active]
        BY DEF Shape
      <4> QED
        BY <1>1, <4>1
    <3> HIDE DEF recs
    <3> QED
      BY <1>9, <3>1, <3>2, SnapshotWhole
  <2>2. rows = [k \in 1..N |-> k] /\ S = 1..N
    <3>1. rows \in Seq(S)
      BY <1>1, InOrderTyped
    <3>2. Len(rows) = N => S = 1..N
      BY <1>1, InOrderMeets
    <3>3. S = 1..N => rows = [k \in 1..N |-> k]
      BY <1>1, InOrderMeets
    <3>4. Len(recs) = Len(rows)
      <4> HIDE DEF rows
      <4>1. DOMAIN rows = 1..Len(rows) /\ Len(rows) \in Nat
        BY <3>1
      <4> QED
        BY <4>1
    <3> HIDE DEF rows, recs, S
    <3> QED
      BY <2>1, <3>2, <3>3, <3>4
  <2>3. \A r \in 1..N : recs[r] = Record(r) /\ recs[r] \in Kept
    <3>1. \A r \in 1..N : recs[r] = Record(r)
      <4>1. DOMAIN rows = 1..N /\ \A r \in 1..N : rows[r] = r
        BY <2>2
      <4> HIDE DEF rows
      <4> QED
        BY <4>1
    <3> HIDE DEF recs
    <3> QED
      BY <2>1, <3>1
  <2>4. ASSUME NEW r \in 1..N
        PROVE  /\ model.members[r].active = TRUE
               /\ recs[r].i = EndI[indexToComponent[r]] /\ recs[r].j = EndJ[indexToComponent[r]]
               /\ recs[r].flagged <=> r \in extras.flagged
    <3> DEFINE c == CHOOSE c \in FoundFor(r) : TRUE
               x == Record(r)
    <3>1. x \in Kept /\ recs[r] = x
      BY <2>3
    <3>2. model.members[r].active
      <4> SUFFICES ASSUME ~model.members[r].active PROVE FALSE
        OBVIOUS
      <4>1. x.active = FALSE
        BY DEF Record
      <4>2. x.active = TRUE
        BY <3>1 DEF Kept
      <4> QED
        BY <4>1, <4>2
    <3>3. model.members[r].active \in BOOLEAN
      <4>1. model.members[r] \in Row
        BY <1>1
      <4> QED
        BY <4>1 DEF Row
    <3>4. FoundFor(r) # {}
      BY <2>2, <3>2
    <3>5. c \in FoundFor(r)
      BY <3>4
    <3>6. c \in Comps /\ memberIdx[c] = r /\ r > 0
      BY <3>5 DEF FoundFor, FrameInv
    <3>7. indexToComponent[r] = c
      BY <3>6 DEF HouseInv
    <3>8. Record(r) = [i |-> EndI[c], j |-> EndJ[c], active |-> TRUE, flagged |-> r \in extras.flagged]
      BY <3>2 DEF Record
    <3> DEFINE flag == r \in extras.flagged
    <3>10. x = [i |-> EndI[c], j |-> EndJ[c], active |-> TRUE, flagged |-> flag]
      BY <3>8
    <3> HIDE DEF c, recs, x, flag
    <3>11. x.i = EndI[c] /\ x.j = EndJ[c] /\ x.flagged = flag
      BY <3>10
    <3>9. x.i = EndI[c] /\ x.j = EndJ[c] /\ (x.flagged <=> r \in extras.flagged)
      BY <3>11 DEF flag
    <3> HIDE DEF x
    <3> QED
      BY <3>1, <3>2, <3>3, <3>7, <3>9
  <2> HIDE DEF recs, rows, S
  <2>5. AllOn(model, recs) /\ \A r \in 1..Len(recs) : recs[r].flagged <=> r \in extras.flagged
    BY <2>1, <2>4 DEF AllOn
  <2>6. Records(Snapshot, model, extras)
    BY <1>3, <1>5, <1>7, <2>1, <2>5 DEF Records
  <2> DEFINE ends == MapEnds(indexToComponent)
  <2>7. /\ Len(ends) = N /\ \A r \in 1..N : recs[r].i = ends[r].i /\ recs[r].j = ends[r].j
    <3>1. indexToComponent \in [1..N -> Comps]
      BY DEF FrameInv
    <3> QED
      BY <1>1, <2>4, <3>1, MapEndsIs
  <2>8. Laid(model, ends, Int)
    BY DEF HouseInv
  <2>9. \A n \in nodes : model.nodes[n].pos \in Positions(model)
    BY DEF Positions
  <2> HIDE DEF ends
  <2>10. Laid(model, recs, Positions(model))
    BY <2>1, <2>7, <2>8, <2>9, LaidLike
  <2>11. DOMAIN indexToComponent = 1..N
    BY DEF FrameInv
  <2> QED
    BY <2>1, <2>4, <2>6, <2>10, <2>11
<1> QED
  BY <1>8, <1>9

\* Where the tolerance chains no positions of the frame, its snapshot gives it back.
GivesBack(a, f) == f.separate => Shape(ReplayModel(a), ReplayExtras(a)) = f.shape

\* A snapshot that is not partial gives the frame back.
LEMMA SnapshotBack ==
  ASSUME FrameInv, HouseInv, ~Partial(Snapshot), Separate(Positions(model))
  PROVE  Shape(ReplayModel(Snapshot), ReplayExtras(Snapshot)) = Shape(model, extras)
<1> DEFINE a == Snapshot
           P == Positions(model)
           N == Len(model.members)
           recs == a.records
<1>1. Records(a, model, extras) /\ Laid(model, recs, P) /\ Hung(model, extras)
  BY SnapshotRecords DEF HouseInv
<1>2. recs \in Seq(Kept)
  BY SnapshotWhole
<1>3. NearIn(P)
  <2>1. \A n \in 1..Len(model.nodes) : model.nodes[n].pos \in Int
    BY NodesSomewhere DEF FrameInv
  <2>2. \A r \in DOMAIN indexToComponent :
          EndI[indexToComponent[r]] \in Int /\ EndJ[indexToComponent[r]] \in Int
    BY RegistryAssumption DEF FrameInv
  <2>3. P \subseteq Int
    BY <2>1, <2>2 DEF Positions
  <2> QED
    BY <2>3 DEF NearIn
<1>4. Drawn(recs, P)
  <2> SUFFICES ASSUME NEW e \in AllEnds(recs) PROVE Place(recs, e) \in P
    BY <1>2 DEF Drawn
  <2>1. PICK r \in 1..Len(recs), s \in {"i", "j"} : e = <<r, s>>
    BY DEF AllEnds
  <2>2. /\ r \in DOMAIN indexToComponent
        /\ recs[r].i = EndI[indexToComponent[r]] /\ recs[r].j = EndJ[indexToComponent[r]]
    BY SnapshotRecords
  <2>3. Place(recs, e) \in {EndI[indexToComponent[r]], EndJ[indexToComponent[r]]}
    BY <2>1, <2>2 DEF Place
  <2> QED
    BY <2>2, <2>3 DEF Positions
<1> HIDE DEF a, P
<1>5. Shape(ReplayModel(a), ReplayExtras(a)) = Shape(model, extras)
  BY <1>1, <1>3, <1>4, ShapeIsBack
<1> QED
  BY <1>5 DEF a
\* What is being saved, what is on disk, gives the frame back that it was asked to keep; what
\* is being loaded is on disk.
BackInv ==
  /\ spud = "saving" => GivesBack(sidecar, asked)
  /\ spud \in {"restoring", "travelling"} => disk[target] # NoArchive
  /\ \A s \in Slots : disk[s] # NoArchive => GivesBack(disk[s], saved[s])

PersistInv == FrameInv /\ SlotsInv /\ HouseInv /\ ArraysInv /\ BackInv /\ LoadRestores

\* A step that leaves the subsystem alone.
LEMMA StoreKeepsBack ==
  ASSUME ArraysInv, BackInv, store' = store
  PROVE  ArraysInv' /\ BackInv'
<1>1. /\ spud' = spud /\ sidecar' = sidecar /\ disk' = disk /\ target' = target
      /\ asked' = asked /\ saved' = saved
  BY DEF store
<1> QED
  BY <1>1 DEF ArraysInv, BackInv, Carries, GivesBack

\* One that ends what SPUD was doing.
LEMMA IdleKeepsBack ==
  ASSUME ArraysInv, BackInv, spud' = "idle", UNCHANGED <<sidecar, disk, saved>>
  PROVE  ArraysInv' /\ BackInv'
BY DEF ArraysInv, BackInv, Carries, GivesBack

\* One that takes a snapshot, for a save that starts or is refused.
LEMMA SavingKeepsBack ==
  ASSUME PersistInv, NEW s \in Slots, NEW allowEmpty \in BOOLEAN, SaveToSlot(s, allowEmpty)
  PROVE  ArraysInv' /\ BackInv'
<1> USE DEF PersistInv
<1>1. /\ sidecar' = Snapshot /\ disk' = disk /\ saved' = saved
      /\ \/ UNCHANGED <<spud, target, asked>> /\ spud = "idle"
         \/ /\ spud' = "saving" /\ ~Partial(Snapshot)
            /\ asked' = [shape |-> Shape(model, extras), separate |-> Separate(Positions(model))]
  BY DEF SaveToSlot
<1>2. ArraysInv'
  BY <1>1, SnapshotRecords DEF ArraysInv, Carries
<1>3. \A t \in Slots : disk'[t] # NoArchive => GivesBack(disk'[t], saved'[t])
  BY <1>1 DEF BackInv
<1>4. CASE UNCHANGED <<spud, target, asked>> /\ spud = "idle"
  BY <1>1, <1>2, <1>3, <1>4 DEF BackInv
<1>5. CASE /\ spud' = "saving" /\ ~Partial(Snapshot)
           /\ asked' = [shape |-> Shape(model, extras), separate |-> Separate(Positions(model))]
  <2>1. asked'.shape = Shape(model, extras) /\ (asked'.separate <=> Separate(Positions(model)))
    BY <1>5
  <2>2. GivesBack(sidecar', asked')
    BY <1>1, <1>5, <2>1, SnapshotBack DEF GivesBack
  <2> QED
    BY <1>2, <1>3, <1>5, <2>2 DEF BackInv
<1> QED
  BY <1>1, <1>4, <1>5

\* One that writes the arrays to the slot, or fails to.
LEMMA SavedKeepsBack ==
  ASSUME PersistInv, FinishSaveGame
  PROVE  ArraysInv' /\ BackInv'
<1> USE DEF PersistInv
<1>1. /\ spud = "saving" /\ spud' = "idle" /\ UNCHANGED <<sidecar, target>>
      /\ \/ /\ disk' = [disk EXCEPT ![target] = sidecar]
            /\ saved' = [saved EXCEPT ![target] = asked]
         \/ UNCHANGED <<disk, saved>>
  BY DEF FinishSaveGame
<1>2. CASE UNCHANGED <<disk, saved>>
  BY <1>1, <1>2, IdleKeepsBack
<1>3. CASE /\ disk' = [disk EXCEPT ![target] = sidecar]
           /\ saved' = [saved EXCEPT ![target] = asked]
  <2>1. /\ \A s \in Slots : disk'[s] = IF s = target THEN sidecar ELSE disk[s]
        /\ \A s \in Slots : saved'[s] = IF s = target THEN asked ELSE saved[s]
    <3>1. /\ disk = [s \in Slots |-> disk[s]] /\ saved = [s \in Slots |-> saved[s]]
          /\ target \in Slots
      BY DEF SlotsInv
    <3> QED
      BY <1>3, <3>1
  <2>2. Carries(sidecar) /\ GivesBack(sidecar, asked)
    BY <1>1 DEF ArraysInv, BackInv
  <2>3. \A s \in Slots : disk'[s] # NoArchive => Carries(disk'[s]) /\ GivesBack(disk'[s], saved'[s])
    BY <2>1, <2>2 DEF ArraysInv, BackInv
  <2> QED
    BY <1>1, <2>2, <2>3 DEF ArraysInv, BackInv
<1> QED
  BY <1>1, <1>2, <1>3

\* One that restores them, whole or from the older format.
LEMMA RestoredKeepsBack ==
  ASSUME PersistInv, RestoreGlobals
  PROVE  ArraysInv' /\ BackInv'
<1> USE DEF PersistInv
<1> DEFINE a == disk[target]
           mixed == [sidecar EXCEPT !.records = a.records, !.supports = a.supports]
<1>1. /\ spud = "restoring" /\ spud' = "travelling" /\ UNCHANGED <<disk, target, asked, saved>>
      /\ sidecar' = IF a.version = 2 THEN a ELSE mixed
  BY DEF RestoreGlobals
<1>2. Carries(a) /\ Carries(sidecar) /\ Parts(sidecar) /\ a # NoArchive
  BY <1>1 DEF SlotsInv, ArraysInv
<1>3. Carries(mixed)
  <2>1. mixed.loads = sidecar.loads /\ mixed.udls = sidecar.udls
    <3> DEFINE records == a.records
               supports == a.supports
    <3> HIDE DEF a, records, supports
    <3> QED
      BY <1>2 DEF Parts
  <2> HIDE DEF mixed
  <2> QED
    BY <1>2, <2>1 DEF Carries
<1> HIDE DEF mixed
<1>4. ArraysInv'
  <2>1. Carries(sidecar')
    BY <1>1, <1>2, <1>3
  <2> QED
    BY <1>1, <2>1 DEF ArraysInv
<1> QED
  BY <1>1, <1>2, <1>4 DEF BackInv

\* A load that has ended gives the frame back, if it was restored whole.
LEMMA LoadedGivesBack ==
  ASSUME PersistInv, PostLoadGame
  PROVE  LoadRestores'
<1> DEFINE kept  == saved[target]
           shape == Shape(model', extras')
           whole == sidecar = disk[target]
<1>1. rebuilt' = [kept |-> kept, whole |-> whole, shape |-> shape]
  BY DEF PostLoadGame
<1>2. ASSUME whole, kept.separate PROVE shape = kept.shape
  <2>1. model' = ReplayModel(sidecar) /\ extras' = ReplayExtras(sidecar) /\ spud = "travelling"
    BY DEF PostLoadGame, ReplayLoadedSidecar
  <2>2. target \in Slots /\ disk[target] # NoArchive
    BY <2>1 DEF PersistInv, SlotsInv, BackInv
  <2>3. GivesBack(sidecar, saved[target])
    BY <1>2, <2>2 DEF PersistInv, BackInv
  <2> QED
    BY <1>2, <2>1, <2>3 DEF GivesBack
<1> HIDE DEF kept, shape, whole
<1>3. rebuilt'.kept = kept /\ rebuilt'.shape = shape /\ (rebuilt'.whole <=> whole)
  BY <1>1
<1> QED
  BY <1>2, <1>3 DEF LoadRestores

\* The invariant holds when the game starts,
LEMMA PersistInvStart ==
  ASSUME PersistenceAssumption, PersistInit
  PROVE  PersistInv
<1>1. FrameInv /\ SlotsInv
  BY PersistStart
<1>2. HouseInv
  <2>1. /\ model = EmptyModel /\ indexToComponent = <<>> /\ extras = NoExtras
        /\ memberIdx = [c \in Comps |-> 0]
    BY DEF PersistInit, Init
  <2>2. /\ EmptyModel \in Model /\ Len(EmptyModel.members) = 0 /\ Len(EmptyModel.nodes) = 0
    BY DEF EmptyModel, Model
  <2>3. MapEnds(<<>>) = <<>> /\ Len(<<>>) = 0
    BY DEF MapEnds
  <2>4. Laid(EmptyModel, <<>>, Int)
    <3>1. AllEnds(<<>>) = {}
      BY <2>3 DEF AllEnds
    <3>2. 1..0 = {}
      OBVIOUS
    <3> QED
      BY <2>2, <2>3, <3>1, <3>2 DEF Laid, Apart
  <2>5. Hung(EmptyModel, NoExtras)
    <3>1. <<>> \in Seq(Seq(1..Len(EmptyModel.nodes)))
      OBVIOUS
    <3>2. <<>> \in Seq(1..Len(EmptyModel.nodes)) /\ <<>> \in Seq(1..Len(EmptyModel.members))
      OBVIOUS
    <3> QED
      BY <3>1, <3>2 DEF Hung, NoExtras
  <2>6. memberIdx \in [Comps -> Nat] /\ \A c \in Comps : ~(memberIdx[c] > 0)
    BY <2>1
  <2> QED
    BY <2>1, <2>3, <2>4, <2>5, <2>6 DEF HouseInv
<1>3. /\ sidecar = Blank /\ spud = "idle"
      /\ \A s \in Slots : disk[s] # NoArchive => disk[s] = OldArchive /\ saved[s] = OldFrame
  <2>1. PICK old \in SUBSET OldSlots :
          /\ disk = [s \in Slots |-> IF s \in old THEN OldArchive ELSE NoArchive]
          /\ saved = [s \in Slots |-> IF s \in old THEN OldFrame ELSE NoFrame]
    BY DEF PersistInit
  <2> QED
    BY <2>1 DEF PersistInit
<1>4. <<>> \in Seq(Int) /\ <<>> \in Seq(Nat)
  OBVIOUS
<1>5. Carries(Blank)
  BY <1>4 DEF Blank, Carries
<1>6. Carries(OldArchive)
  <2> DEFINE recs == [k \in DOMAIN OldComps |->
                        [i |-> EndI[OldComps[k]], j |-> EndJ[OldComps[k]],
                         active |-> TRUE, flagged |-> FALSE]]
             supports == SetToSeq(Supports)
  <2>1. OldArchive = [Blank EXCEPT !.records = recs, !.supports = supports]
    BY DEF OldArchive
  <2> HIDE DEF recs, supports
  <2>2. OldArchive.loads = <<>> /\ OldArchive.udls = <<>>
    BY <2>1 DEF Blank
  <2> QED
    BY <1>4, <2>2 DEF Carries
<1>7. ArraysInv
  BY <1>3, <1>5, <1>6 DEF ArraysInv
<1>8. GivesBack(OldArchive, OldFrame)
  BY OldShapeBack DEF GivesBack
<1>9. BackInv
  BY <1>3, <1>8 DEF BackInv
<1>10. LoadRestores
  <2>1. rebuilt.kept = NoFrame /\ rebuilt.shape = NoFrame.shape
    BY DEF PersistInit
  <2> QED
    BY <2>1 DEF LoadRestores
<1> QED
  BY <1>1, <1>2, <1>7, <1>9, <1>10 DEF PersistInv

\* and every step keeps it.
LEMMA PersistInvStep ==
  ASSUME PersistenceAssumption, PersistInv, [PersistNext]_allVars
  PROVE  PersistInv'
<1>0. FrameInv /\ SlotsInv /\ HouseInv /\ ArraysInv /\ BackInv /\ LoadRestores
  BY DEF PersistInv
<1>1. FrameInv' /\ SlotsInv'
  BY <1>0, PersistStep
<1>2. ASSUME UNCHANGED <<compVars, modelVars, extras>> PROVE HouseInv'
  BY <1>0, <1>2 DEF compVars, modelVars, HouseInv
<1>3. UNCHANGED vars => UNCHANGED <<compVars, modelVars>>
  BY DEF vars
<1>4. ASSUME store' = store PROVE ArraysInv' /\ BackInv'
  BY <1>0, <1>4, StoreKeepsBack
<1>5. ASSUME spud' = "idle", UNCHANGED <<sidecar, disk, saved>> PROVE ArraysInv' /\ BackInv'
  BY <1>0, <1>5, IdleKeepsBack
<1> DEFINE AllKept == HouseInv' /\ ArraysInv' /\ BackInv'
<1>6. ASSUME NEW s \in Slots, LoadFromSlot(s) PROVE AllKept
  <2>1. /\ spud' = "restoring" /\ target' = s /\ disk[s] # NoArchive
        /\ UNCHANGED <<sidecar, disk, asked, saved>> /\ UNCHANGED <<vars, extras>>
    BY <1>6 DEF LoadFromSlot
  <2>2. HouseInv'
    BY <1>2, <1>3, <2>1
  <2> QED
    BY <1>0, <2>1, <2>2 DEF ArraysInv, BackInv, Carries, GivesBack
<1>7. ASSUME NEW s \in Slots, NEW allowEmpty \in BOOLEAN, SaveToSlot(s, allowEmpty)
      PROVE  AllKept
  <2>1. UNCHANGED <<vars, extras>>
    BY <1>7 DEF SaveToSlot
  <2>2. HouseInv'
    BY <1>2, <1>3, <2>1
  <2> QED
    BY <1>7, <2>2, SavingKeepsBack
<1>8. ASSUME FinishSaveGame PROVE AllKept
  <2>1. UNCHANGED <<vars, extras>>
    BY <1>8 DEF FinishSaveGame
  <2>2. HouseInv'
    BY <1>2, <1>3, <2>1
  <2> QED
    BY <1>8, <2>2, SavedKeepsBack
<1>9. ASSUME RestoreGlobals PROVE AllKept
  <2>1. UNCHANGED <<vars, extras>>
    BY <1>9 DEF RestoreGlobals
  <2>2. HouseInv'
    BY <1>2, <1>3, <2>1
  <2> QED
    BY <1>9, <2>2, RestoredKeepsBack
<1>10. ASSUME PostLoadGame PROVE AllKept
  <2>1. spud' = "idle" /\ UNCHANGED <<sidecar, disk, saved>>
    BY <1>10 DEF PostLoadGame
  <2>2. HouseInv'
    BY <1>0, <1>10, ReplayMakesHouse
  <2> QED
    BY <1>5, <2>1, <2>2
<1>11. ASSUME LoadFails PROVE AllKept
  <2>1. spud' = "idle" /\ UNCHANGED <<sidecar, disk, saved>> /\ UNCHANGED <<vars, extras>>
    BY <1>11 DEF LoadFails
  <2>2. HouseInv'
    BY <1>2, <1>3, <2>1
  <2> QED
    BY <1>5, <2>1, <2>2
<1>12. ASSUME Build PROVE AllKept
  <2>1. store' = store
    BY <1>12 DEF Build
  <2>2. HouseInv'
    BY <1>0, <1>12, BuildKeepsHouse
  <2> QED
    BY <1>4, <2>1, <2>2
<1>13. ASSUME Inject PROVE AllKept
  <2>1. store' = store
    BY <1>13 DEF Inject
  <2>2. HouseInv'
    BY <1>0, <1>13, InjectKeepsHouse
  <2> QED
    BY <1>4, <2>1, <2>2
<1>14. ASSUME GameTick \/ DebounceTick \/ UNCHANGED allVars PROVE AllKept
  <2>1. store' = store
    BY <1>14 DEF GameTick, DebounceTick, allVars
  <2>2. UNCHANGED <<compVars, modelVars, extras>>
    <3>1. CASE GameTick
      BY <3>1 DEF GameTick, Tick
    <3>2. CASE DebounceTick
      BY <3>2 DEF DebounceTick, TimerTick
    <3>3. CASE UNCHANGED allVars
      BY <1>3, <3>3 DEF allVars
    <3> QED
      BY <1>14, <3>1, <3>2, <3>3
  <2> QED
    BY <1>2, <1>4, <2>1, <2>2
<1>15. AllKept
  <2> HIDE DEF AllKept
  <2> QED
    BY <1>6, <1>7, <1>8, <1>9, <1>10, <1>11, <1>12, <1>13, <1>14 DEF PersistNext
<1>16. LoadRestores'
  <2>1. CASE PostLoadGame
    BY <2>1, LoadedGivesBack
  <2>2. CASE ~PostLoadGame
    <3>1. rebuilt' = rebuilt
      BY <2>2 DEF PersistNext, LoadFromSlot, SaveToSlot, FinishSaveGame, RestoreGlobals,
                  LoadFails, Build, Inject, GameTick, DebounceTick, store, allVars
    <3> QED
      BY <1>0, <3>1 DEF LoadRestores
  <2> QED
    BY <2>1, <2>2
<1> QED
  BY <1>1, <1>15, <1>16 DEF PersistInv

\* A replay numbers the nodes anew, merges what is near, drops what finds no node and meets
\* the archives of two formats: whatever was saved, refused, built and loaded in between, a
\* load that was restored whole rebuilds the frame that its slot was asked to keep, for every
\* geometry that the tolerance does not chain, every tolerance, set of slots and shell.
THEOREM LoadGivesBack ==
  ASSUME PersistenceAssumption
  PROVE  PersistSpec => []LoadRestores
<1>1. PersistInit => PersistInv
  BY PersistInvStart
<1>2. PersistInv /\ [PersistNext]_allVars => PersistInv'
  BY PersistInvStep
<1>3. PersistInv => LoadRestores
  BY DEF PersistInv
<1> QED
  BY <1>1, <1>2, <1>3, PTL DEF PersistSpec

==============================================================================
