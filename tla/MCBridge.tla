------------------------------ MODULE MCBridge ------------------------------
(***************************************************************************)
(* The bridge and its C# client, whose parts share nothing that is          *)
(* modelled: a behaviour is one of                                          *)
(*   "context"  a context with a handshake, a streaming solve and a cancel  *)
(*              request for it, sent in any order, each perhaps before the  *)
(*              handshake;                                                  *)
(*   "session"  a session of the client with its handshake, a single call   *)
(*              and a stream, over a context as its header promises it;     *)
(*   "open"     the component that opens sessions, with a path that exists  *)
(*              and one that does not;                                      *)
(*   "assemble" the component that pushes a frame, wired with one of some;  *)
(*   "solve"    a component that solves, with inputs it can read or not.    *)
(***************************************************************************)
EXTENDS CApiContext, FrameSession, OpenComponent, AssembleComponent, AsyncComponent

CONSTANT Parts   \* those of them that are looked at

MCRequests == {"hs", "stream", "cancel"}
MCKind == [r \in MCRequests |-> IF r = "hs" THEN "hello" ELSE r]
MCTargetOf == [r \in {"cancel"} |-> "stream"]

\* Two lengths of a member; and a member between two nodes, one of them on the
\* diagonal x = y: as it is, reversed, with its upper node further along the diagonal,
\* and with another section.
Bar(section, top, members) ==
  [section |-> section, nodes |-> <<<<0, 0, 0>>, top>>, members |-> members]
MCLengths == {Bar("light", <<0, 0, z>>, <<<<1, 2>>>>) : z \in {1, 2}}
MCDiagonal ==
  {Bar("light", <<1, 1, 1>>, <<<<1, 2>>>>), Bar("light", <<1, 1, 1>>, <<<<2, 1>>>>),
   Bar("light", <<2, 2, 1>>, <<<<1, 2>>>>), Bar("heavy", <<1, 1, 1>>, <<<<1, 2>>>>)}

VARIABLE part

componentVars == <<openVars, assembleVars, asyncVars>>
bridgeVars == <<vars, contextVars, componentVars, part>>

BridgeInit ==
  /\ Init /\ OpenInit /\ ContextInit /\ AssembleInit /\ AsyncInit
  /\ part \in Parts
  /\ profile = CHOOSE p \in Profiles : TRUE
  /\ part # "open" => dll \in Missing
  /\ frame = CHOOSE f \in Frames : TRUE
  /\ part # "solve" => input = CHOOSE i \in Inputs : TRUE

BridgeNext ==
  /\ UNCHANGED part
  /\ \/ part = "context" /\ ContextNext /\ UNCHANGED <<vars, componentVars>>
     \/ part = "session" /\ Next /\ UNCHANGED <<contextVars, componentVars>>
     \/ part = "open" /\ OpenNext /\ UNCHANGED <<vars, contextVars, assembleVars, asyncVars>>
     \/ /\ part = "assemble" /\ AssembleNext
        /\ UNCHANGED <<vars, contextVars, openVars, asyncVars>>
     \/ /\ part = "solve" /\ AsyncNext
        /\ UNCHANGED <<vars, contextVars, openVars, assembleVars>>

\* CApiContext's fairness, and FrameSession's, for the behaviours of each.
InContext == part = "context"
InSession == part = "session"
BridgeFairness ==
  /\ WF_contextVars(InContext /\ WorkerSubmits)
  /\ WF_contextVars(InContext /\ WorkerNotifies)
  /\ WF_contextVars(InContext /\ NotifyAll)
  /\ WF_contextVars(InContext /\ Join)
  /\ WF_contextVars(InContext /\ Receiving)
  /\ SF_contextVars(InContext /\ Take)
  /\ SF_contextVars(InContext /\ Shut)
  /\ \A c \in Calls :
       WF_vars(InSession /\ Register(c)) /\ WF_vars(InSession /\ Caller(c))
  /\ WF_vars(InSession /\ Loop) /\ WF_vars(InSession /\ Answer)
  /\ WF_vars(InSession /\ Disposal) /\ WF_vars(InSession /\ Dispose /\ ~Opened)

BridgeSpec == BridgeInit /\ [][BridgeNext]_bridgeVars /\ BridgeFairness
-------------------------------------------------------------------------------
\* Whoever waits comes back: a recv that is called off and close in the C ABI, calls
\* and disposal in the client.
WaitersReturn ==
  CancelRecvReturns /\ CloseReturns /\ (part = "session" => CallsComeBack /\ DisposalEnds)

\* CApiContext: a client whose recv keeps returning gets its final frames.
ClientIsAnswered == part = "context" => AnswersArrive
==============================================================================
