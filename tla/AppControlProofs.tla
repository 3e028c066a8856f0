-------------------------- MODULE AppControlProofs --------------------------
(***************************************************************************)
(* Theorems about AppControl, for any number of frames, connections and    *)
(* resets: the loop under the real network thread keeps what it keeps      *)
(* under LogicalLoop's environment, no answer or frame is lost, duplicated *)
(* or reordered between the loop and the socket, both threads together     *)
(* implement RemoteApp, and the way to a shutdown is bounded.              *)
(***************************************************************************)
EXTENDS AppControl, LogicalLoopProofs, FiniteSetTheorems

\* Where network_loop is decides what its coroutines may hold: they run, and
\* have a connection, only inside io.run(); `pending' lives in a write.
ClientInv ==
    /\ net_exited <=> phase = "exited"
    /\ phase = "running" => wire # <<>>
    /\ phase # "running" => writer = "returned"
    /\ writer = "writing" <=> pending # <<>>
    /\ Len(wire) <= MaxConnections

AppInv == AppTypeOK /\ InHand /\ ClientInv /\ Len(committed) <= MaxFrames

\* A step of the network thread that the loop cannot tell from none.
Unseen ==
    \/ ResolveOk \/ ResolveFails \/ BackoffEnds \/ ConnectOk \/ ConnectFails
    \/ Disconnect \/ ReadFails \/ WriteOk \/ WriteFails

-----------------------------------------------------------------------------
(* Every step of the application is one that LogicalLoop knows.            *)

\* The network thread is an environment the loop was checked against.
LEMMA ClientIsEnvironment ==
    ASSUME AppInv, NetworkThread
    PROVE  LoopChange
<1>0. /\ cfg.remote
      /\ ClientStep
      /\ UNCHANGED loopVars
  BY DEF NetworkThread
<1>1. CASE Unseen
  <2>1. UNCHANGED queueVars
    BY <1>1 DEF Unseen, ResolveOk, ResolveFails, BackoffEnds, ConnectOk, ConnectFails,
                Disconnect, ReadFails, WriteOk, WriteFails
  <2> QED
    BY <1>0, <2>1 DEF LoopChange, vars
<1>2. CASE ConnectAborted \/ ThreadReturns
  <2>1. NetExit
    BY <1>0, <1>2 DEF ConnectAborted, ThreadReturns, NetExit, AppInv, ClientInv
  <2> QED
    BY <2>1 DEF LoopChange, Moves
<1>3. CASE ReadLine
  <2>1. PICK line : line = Head(wire[Current].to_app)
    OBVIOUS
  <2>2. line \in Line
    <3>1. wire \in Seq(Connection) /\ wire # <<>>
      BY <1>3 DEF ReadLine, AppInv, AppTypeOK, WireTypeOK, ClientInv
    <3>2. wire[Current] \in Connection
      BY <3>1 DEF Current
    <3>3. wire[Current].to_app \in Seq(Line) /\ wire[Current].to_app # <<>>
      BY <1>3, <3>2 DEF ReadLine, Connection
    <3> QED
      BY <2>1, <3>3
  <2>3. NetDeliver(line)
    BY <1>0, <1>3, <2>1 DEF ReadLine, NetDeliver, stopVars, AppInv, ClientInv
  <2> QED
    BY <2>2, <2>3 DEF LoopChange
<1>4. CASE WriterTimer
  <2>1. CASE outgoing_queue = <<>>
    <3>1. UNCHANGED queueVars
      BY <1>4, <2>1 DEF WriterTimer, queueVars, stopVars
    <3> QED
      BY <1>0, <3>1 DEF LoopChange, vars
  <2>2. CASE outgoing_queue # <<>>
    <3>1. NetTake
      BY <1>0, <1>4, <2>2 DEF WriterTimer, NetTake, stopVars, AppInv, ClientInv
    <3> QED
      BY <3>1 DEF LoopChange, Moves
  <2> QED
    BY <2>1, <2>2
<1> QED
  BY <1>0, <1>1, <1>2, <1>3, <1>4 DEF ClientStep, Unseen

LEMMA AppChange ==
    ASSUME AppInv, [AppNext]_appVars
    PROVE  LoopChange
<1>1. CASE LogicalThread
  BY <1>1 DEF LogicalThread, LoopLocalStep, LoopChange, Moves
<1>2. CASE NetworkThread
  BY <1>2, ClientIsEnvironment
<1>3. CASE Terminate
  BY <1>3 DEF Terminate, LoopChange, Moves
<1>4. CASE \E c \in 1..Len(wire) :
             \/ \E body \in FrameBodies : ServerCommits(c, body)
             \/ ServerHangsUp(c)
             \/ NetworkResets(c)
  BY <1>4 DEF ServerCommits, ServerHangsUp, NetworkResets, LoopChange
<1>5. CASE AppTerminated \/ UNCHANGED appVars
  BY <1>5 DEF AppTerminated, appVars, LoopChange
<1> QED
  BY <1>1, <1>2, <1>3, <1>4, <1>5 DEF AppNext

-----------------------------------------------------------------------------
(* Types, and where network_loop is.                                       *)

\* A connection may be changed in place.
LEMMA WireEdited ==
    ASSUME WireTypeOK, NEW c \in 1..Len(wire), NEW connection \in Connection,
           wire' = [wire EXCEPT ![c] = connection]
    PROVE  WireTypeOK' /\ Len(wire') = Len(wire)
  BY ExceptSeq DEF WireTypeOK

\* Neither end's operations leave the types of a connection.
LEMMA WireOperations ==
    ASSUME WireTypeOK, NEW c \in 1..Len(wire)
    PROVE  /\ AppCloses(c) => WireTypeOK' /\ Len(wire') = Len(wire)
           /\ ServerCloses(c) => WireTypeOK' /\ Len(wire') = Len(wire)
           /\ Reset(c) => WireTypeOK' /\ Len(wire') = Len(wire)
<1>1. wire[c] \in Connection
  BY DEF WireTypeOK
<1>2. /\ [wire[c] EXCEPT !.app = "closed"] \in Connection
      /\ [wire[c] EXCEPT !.server = "closed"] \in Connection
  BY <1>1 DEF Connection
<1>3. ASSUME AppCloses(c)
      PROVE  WireTypeOK' /\ Len(wire') = Len(wire)
  BY <1>2, <1>3, WireEdited DEF AppCloses
<1>4. ASSUME ServerCloses(c)
      PROVE  WireTypeOK' /\ Len(wire') = Len(wire)
  BY <1>2, <1>4, WireEdited DEF ServerCloses
<1>5. ASSUME Reset(c)
      PROVE  WireTypeOK' /\ Len(wire') = Len(wire)
  <2> DEFINE dropped == [to_app |-> <<>>, to_server |-> <<>>, app |-> wire[c].app,
                         server |-> wire[c].server, reset |-> TRUE]
  <2>2. wire' = [wire EXCEPT ![c] = dropped]
    BY <1>5 DEF Reset
  <2>3. dropped \in Connection
    BY <1>1 DEF Connection
  <2> QED
    BY <2>2, <2>3, WireEdited
<1> QED
  BY <1>3, <1>4, <1>5

LEMMA WireOpened ==
    ASSUME WireTypeOK, NEW app_end \in {"open", "closed"}, Open(app_end)
    PROVE  /\ WireTypeOK'
           /\ wire' # <<>>
           /\ Len(wire') = Len(wire) + 1
           /\ Len(wire') <= MaxConnections
<1>1. [to_app |-> <<>>, to_server |-> <<>>, app |-> app_end,
       server |-> "open", reset |-> FALSE] \in Connection
  BY DEF Connection
<1> QED
  BY <1>1, MaxConnectionsAssumption DEF Open, WireTypeOK

\* Net ids stay below the number of frames.
LEMMA CommittedType ==
    ASSUME committed \in Seq(CommittedFrame), Len(committed) < MaxFrames,
           NEW c \in 1..MaxConnections, NEW body \in FrameBodies
    PROVE  [tag |-> c, id |-> NextId(c), body |-> body] \in CommittedFrame
<1> DEFINE Same == {k \in 1..Len(committed) : committed[k].tag = c}
<1>1. IsFiniteSet(1..Len(committed)) /\ Cardinality(1..Len(committed)) = Len(committed)
  <2>1. Len(committed) \in Int /\ 1 \in Int /\ Len(committed) >= 0
    OBVIOUS
  <2>2. /\ IsFiniteSet(1..Len(committed))
        /\ Cardinality(1..Len(committed)) =
             IF 1 > Len(committed) THEN 0 ELSE Len(committed) - 1 + 1
    BY <2>1, FS_Interval, Zenon
  <2> QED
    BY <2>1, <2>2
<1>2. Cardinality(Same) <= Len(committed) /\ Cardinality(Same) \in Nat
  BY <1>1, FS_Subset, FS_CardinalityType
<1>3. NextId(c) \in 0..MaxFrames - 1
  BY <1>2, BoundsAssumption DEF NextId
<1>4. <<c, NextId(c)>> \in FrameNames
  BY <1>3, NamesAssumption
<1>5. <<c, NextId(c)>>[1] = c /\ <<c, NextId(c)>>[2] = NextId(c)
  OBVIOUS
<1> QED
  BY <1>4, <1>5 DEF CommittedFrame

Fate == [answer : Answer, conn : 0..MaxConnections]

\* Answers that are lost are settled, each without a connection.
LEMMA LostType ==
    ASSUME NEW answers \in Seq(Answer)
    PROVE  /\ Lost(answers) \in Seq(Fate)
           /\ Len(Lost(answers)) = Len(answers)
           /\ \A i \in 1..Len(answers) :
                Lost(answers)[i] = [answer |-> answers[i], conn |-> NoConnection]
<1>1. \A i \in 1..Len(answers) :
         [answer |-> answers[i], conn |-> NoConnection] \in Fate
  BY MaxConnectionsAssumption DEF NoConnection, Fate
<1> QED
  BY <1>1 DEF Lost

\* However the writer goes on, it holds answers only to write them.
LEMMA WriterContinuesType ==
    ASSUME NEW rest \in Seq(Answer),
           NEW decided \in Seq(Fate),
           WriterContinues(rest, decided)
    PROVE  /\ writer' \in {"timer", "writing", "returned"}
           /\ pending' \in Seq(Answer)
           /\ settled' \in Seq(Fate)
           /\ writer' = "writing" <=> pending' # <<>>
<1>1. CASE connection_alive /\ rest # <<>>
  BY <1>1 DEF WriterContinues
<1>2. CASE ~(connection_alive /\ rest # <<>>)
  <2>1. decided \o Lost(rest) \in Seq(Fate)
    BY LostType, ConcatProperties
  <2>2. <<>> \in Seq(Answer)
    BY EmptySeq
  <2>3. writer' \in {"timer", "returned"} /\ pending' = <<>> /\ settled' = decided \o Lost(rest)
    BY <1>2 DEF WriterContinues
  <2> QED
    BY <2>1, <2>2, <2>3
<1> QED
  BY <1>1, <1>2

\* The connection in use while the network thread runs its coroutines.
LEMMA CurrentType ==
    ASSUME WireTypeOK, wire # <<>>
    PROVE  /\ Current \in 1..Len(wire)
           /\ wire[Current] \in Connection
           /\ wire[Current].to_app \in Seq(Line)
           /\ wire[Current].to_server \in Seq(Answer)
<1>1. Current \in 1..Len(wire) /\ wire[Current] \in Connection
  BY DEF WireTypeOK, Current
<1> QED
  BY <1>1 DEF Connection

\* The first line in transit is a line, and taking it leaves a connection; so
\* does writing an answer.
LEMMA CurrentEdited ==
    ASSUME WireTypeOK, wire # <<>>
    PROVE  /\ wire[Current].to_app # <<>> /\ wire' = [wire EXCEPT ![Current].to_app = Tail(@)]
                => WireTypeOK' /\ Len(wire') = Len(wire)
           /\ \A answer \in Answer :
                wire' = [wire EXCEPT ![Current].to_server = Append(@, answer)]
                  => WireTypeOK' /\ Len(wire') = Len(wire)
<1>1. ASSUME NEW lines \in Seq(Line), wire' = [wire EXCEPT ![Current].to_app = lines]
      PROVE  WireTypeOK' /\ Len(wire') = Len(wire)
  <2>1. [wire[Current] EXCEPT !.to_app = lines] \in Connection
    BY CurrentType DEF Connection
  <2> QED
    BY <1>1, <2>1, CurrentType, WireEdited
<1>2. ASSUME NEW answers \in Seq(Answer), wire' = [wire EXCEPT ![Current].to_server = answers]
      PROVE  WireTypeOK' /\ Len(wire') = Len(wire)
  <2>1. [wire[Current] EXCEPT !.to_server = answers] \in Connection
    BY CurrentType DEF Connection
  <2> QED
    BY <1>2, <2>1, CurrentType, WireEdited
<1>3. wire[Current].to_app # <<>> => Tail(wire[Current].to_app) \in Seq(Line)
  BY CurrentType
<1>4. \A answer \in Answer : Append(wire[Current].to_server, answer) \in Seq(Answer)
  BY CurrentType
<1> QED
  BY <1>1, <1>2, <1>3, <1>4

\* The network thread keeps its types and its own invariant.
LEMMA NetworkStep ==
    ASSUME AppInv, NetworkThread
    PROVE  ClientTypeOK' /\ WireTypeOK' /\ ClientInv'
<1> USE DEF AppInv, AppTypeOK, ClientTypeOK, ClientInv
<1>0. ClientStep
  BY DEF NetworkThread
<1> settled \in Seq(Fate)
  BY DEF Fate
<1>1. CASE ResolveOk \/ ResolveFails \/ BackoffEnds \/ ConnectFails \/ ThreadReturns
  BY <1>1 DEF ResolveOk, ResolveFails, BackoffEnds, ConnectFails, ThreadReturns,
              coroutineVars, queueVars, WireTypeOK
<1>2. CASE ConnectOk
  <2>1. \E app_end \in {"open", "closed"} : Open(app_end)
    BY <1>2 DEF ConnectOk
  <2>2. WireTypeOK' /\ wire' # <<>> /\ Len(wire') <= MaxConnections
    BY <2>1, WireOpened
  <2> QED
    BY <1>2, <2>2 DEF ConnectOk, queueVars
<1>3. CASE ConnectAborted
  <2>1. Open("closed") \/ UNCHANGED wire
    BY <1>3 DEF ConnectAborted
  <2>2. WireTypeOK' /\ Len(wire') <= MaxConnections
    BY <2>1, WireOpened DEF WireTypeOK
  <2> QED
    BY <1>3, <2>2 DEF ConnectAborted, coroutineVars
<1>4. CASE Disconnect
  <2>1. WireTypeOK' /\ Len(wire') = Len(wire)
    BY <1>4, CurrentType, WireOperations DEF Disconnect
  <2> QED
    BY <1>4, <2>1 DEF Disconnect, coroutineVars, queueVars
<1>5. CASE ReadLine
  <2>1. WireTypeOK' /\ Len(wire') = Len(wire)
    BY <1>5, CurrentEdited DEF ReadLine
  <2>2. wire # <<>> => wire' # <<>>
    BY <2>1 DEF WireTypeOK
  <2> QED
    BY <1>5, <2>1, <2>2 DEF ReadLine, stopVars
<1>6. CASE ReadFails
  BY <1>6 DEF ReadFails, queueVars, WireTypeOK
<1>7. CASE WriterTimer
  <2>1. /\ writer' \in {"timer", "writing", "returned"}
        /\ pending' \in Seq(Answer)
        /\ settled' \in Seq(Fate)
        /\ writer' = "writing" <=> pending' # <<>>
    BY <1>7, WriterContinuesType DEF WriterTimer, LoopTypeOK, QueuesTypeOK
  <2> QED
    BY <1>7, <2>1 DEF WriterTimer, stopVars, Fate, WireTypeOK
<1>8. CASE WriteOk
  <2>1. Head(pending) \in Answer /\ Tail(pending) \in Seq(Answer) /\ wire # <<>>
    BY <1>8 DEF WriteOk
  <2>2. WireTypeOK' /\ Len(wire') = Len(wire) /\ wire' # <<>>
    <3>1. WireTypeOK' /\ Len(wire') = Len(wire)
      BY <1>8, <2>1, CurrentEdited DEF WriteOk
    <3> QED
      BY <2>1, <3>1 DEF WireTypeOK
  <2>3. [answer |-> Head(pending), conn |-> Current] \in Fate
    BY <2>1, CurrentType DEF Fate, Current
  <2>4. Append(settled, [answer |-> Head(pending), conn |-> Current]) \in Seq(Fate)
    BY <2>3
  <2>5. /\ writer' \in {"timer", "writing", "returned"}
        /\ pending' \in Seq(Answer)
        /\ settled' \in Seq(Fate)
        /\ writer' = "writing" <=> pending' # <<>>
    BY <1>8, <2>1, <2>4, WriterContinuesType DEF WriteOk
  <2> QED
    BY <1>8, <2>2, <2>5 DEF WriteOk, queueVars, Fate
<1>9. CASE WriteFails
  <2>1. settled \o Lost(pending) \in Seq(Fate)
    BY LostType, ConcatProperties
  <2>2. <<>> \in Seq(Answer)
    BY EmptySeq
  <2> QED
    BY <1>9, <2>1, <2>2 DEF WriteFails, queueVars, Fate, WireTypeOK
<1> QED
  BY <1>0, <1>1, <1>2, <1>3, <1>4, <1>5, <1>6, <1>7, <1>8, <1>9 DEF ClientStep

\* The loop neither delivers frames nor ends the network thread.
LEMMA LoopLeavesNetwork ==
    ASSUME LogicalThread
    PROVE  UNCHANGED <<net_exited, received>>
<1> USE DEF queueVars, netVars
<1>1. CASE EnterLoop \/ PreLocal \/ PrePassFrame \/ PreIdle \/ PreExecute \/ RequestNetStop
  BY <1>1 DEF EnterLoop, PreLocal, PrePassFrame, PreIdle, PreExecute, RequestNetStop
<1>2. CASE TickWindowClosed \/ TickInvalidView \/ TickPaused \/ TickShutsDown
           \/ \E drawn \in {"drawn", "skipped"} : TickPlays(drawn)
  BY <1>2 DEF TickWindowClosed, TickInvalidView, TickPaused, TickShutsDown, TickPlays
<1>3. CASE PostNoCommand \/ PostAnswer \/ LeaveLoop \/ Finish
  BY <1>3 DEF PostNoCommand, PostAnswer, LeaveLoop, Finish
<1> QED
  BY <1>1, <1>2, <1>3 DEF LogicalThread, LoopLocalStep

\* The logical thread touches the network thread's state only through the stop
\* callback, which closes the socket in use.
LEMMA LogicalStep ==
    ASSUME AppInv, LogicalThread
    PROVE  ClientTypeOK' /\ WireTypeOK' /\ ClientInv'
<1> USE DEF AppInv, AppTypeOK, ClientInv, ClientTypeOK
<1>1. UNCHANGED clientVars
  BY DEF LogicalThread
<1>2. UNCHANGED net_exited
  BY LoopLeavesNetwork
<1>3. WireTypeOK' /\ Len(wire') = Len(wire) /\ (wire # <<>> => wire' # <<>>)
  <2>1. CASE UNCHANGED wire
    BY <2>1 DEF WireTypeOK
  <2>2. CASE phase = "running" /\ AppCloses(Current)
    <3>1. WireTypeOK' /\ Len(wire') = Len(wire)
      BY <2>2, CurrentType, WireOperations
    <3> QED
      BY <3>1 DEF WireTypeOK
  <2> QED
    BY <2>1, <2>2 DEF LogicalThread, StopCallback
<1> QED
  BY <1>1, <1>2, <1>3 DEF clientVars

\* What the peer and the network do to a connection leaves it one.
LEMMA PeerStep ==
    ASSUME AppInv, NEW c \in 1..Len(wire),
           \/ \E body \in FrameBodies : ServerCommits(c, body)
           \/ ServerHangsUp(c)
           \/ NetworkResets(c)
    PROVE  /\ ClientTypeOK' /\ WireTypeOK' /\ ClientInv'
           /\ committed' \in Seq(CommittedFrame) /\ Len(committed') <= MaxFrames
           /\ resets' \in 0..MaxResets
<1> USE DEF AppInv, AppTypeOK, ClientInv, ClientTypeOK
<1>1. ASSUME NEW body \in FrameBodies, ServerCommits(c, body)
      PROVE  /\ WireTypeOK' /\ Len(wire') = Len(wire)
             /\ committed' \in Seq(CommittedFrame)
             /\ Len(committed') <= MaxFrames
  <2> DEFINE frame == [tag |-> c, id |-> NextId(c), body |-> body]
             line == [parses |-> TRUE, frame |-> frame]
  <2>1. frame \in CommittedFrame
    <3>1. c \in 1..MaxConnections
      BY MaxConnectionsAssumption DEF WireTypeOK
    <3>2. Len(committed) < MaxFrames
      BY <1>1 DEF ServerCommits
    <3> QED
      BY <3>1, <3>2, CommittedType
  <2>2. line \in Line
    BY <2>1 DEF Line
  <2>3. committed' = Append(committed, frame)
    BY <1>1 DEF ServerCommits
  <2>4. wire' = [wire EXCEPT ![c].to_app = Append(@, line)]
    BY <1>1 DEF ServerCommits
  <2> HIDE DEF frame, line
  <2>5. wire[c] \in Connection
    BY DEF WireTypeOK
  <2>6. Append(wire[c].to_app, line) \in Seq(Line)
    BY <2>2, <2>5 DEF Connection
  <2>7. [wire[c] EXCEPT !.to_app = Append(wire[c].to_app, line)] \in Connection
    BY <2>5, <2>6 DEF Connection
  <2>8. WireTypeOK' /\ Len(wire') = Len(wire)
    BY <2>4, <2>7, WireEdited
  <2> QED
    BY <1>1, <2>1, <2>3, <2>8, BoundsAssumption DEF ServerCommits
<1>2. ASSUME ServerHangsUp(c) \/ NetworkResets(c)
      PROVE  /\ WireTypeOK' /\ Len(wire') = Len(wire)
             /\ UNCHANGED committed
  BY <1>2, WireOperations DEF ServerHangsUp, NetworkResets
<1>3. /\ WireTypeOK' /\ Len(wire') = Len(wire)
      /\ committed' \in Seq(CommittedFrame) /\ Len(committed') <= MaxFrames
  BY <1>1, <1>2
<1>4. wire # <<>> => wire' # <<>>
  BY <1>3 DEF WireTypeOK
<1>5. UNCHANGED <<clientVars, net_exited>>
  BY DEF ServerCommits, ServerHangsUp, NetworkResets, vars, queueVars
<1>6. resets' \in 0..MaxResets
  <2>1. \/ UNCHANGED resets
        \/ resets < MaxResets /\ resets' = resets + 1
    BY DEF ServerCommits, ServerHangsUp, NetworkResets
  <2> QED
    BY <2>1, MaxResetsAssumption
<1> QED
  BY <1>3, <1>4, <1>5, <1>6 DEF clientVars

\* Every step of the application keeps the types and the invariant of both threads.
LEMMA AppInvStep ==
    ASSUME AppInv, [AppNext]_appVars
    PROVE  AppInv'
<1>1. LoopTypeOK' /\ InHand'
  BY AppChange, TypeStep, InHandStep DEF AppInv, AppTypeOK
<1>2. /\ ClientTypeOK' /\ WireTypeOK' /\ ClientInv'
      /\ committed' \in Seq(CommittedFrame) /\ Len(committed') <= MaxFrames
      /\ resets' \in 0..MaxResets
  <2>1. CASE LogicalThread
    BY <2>1, LogicalStep DEF LogicalThread, AppInv, AppTypeOK
  <2>2. CASE NetworkThread
    BY <2>2, NetworkStep DEF NetworkThread, AppInv, AppTypeOK
  <2>3. CASE Terminate \/ AppTerminated \/ UNCHANGED appVars
    <3>1. UNCHANGED <<clientVars, wire, committed, resets, net_exited>>
      BY <2>3 DEF Terminate, signal_terminate, AppTerminated, appVars, vars, queueVars
    <3> QED
      BY <3>1 DEF AppInv, AppTypeOK, ClientTypeOK, WireTypeOK, ClientInv, clientVars
  <2>4. CASE \E c \in 1..Len(wire) :
               \/ \E body \in FrameBodies : ServerCommits(c, body)
               \/ ServerHangsUp(c)
               \/ NetworkResets(c)
    BY <2>4, PeerStep
  <2> QED
    BY <2>1, <2>2, <2>3, <2>4 DEF AppNext
<1> QED
  BY <1>1, <1>2 DEF AppInv, AppTypeOK

LEMMA AppInitial ==
    ASSUME AppInit
    PROVE  AppInv
<1>1. LoopTypeOK /\ InHand
  BY InitialState DEF AppInit
<1>2. <<>> \in Seq(Connection) /\ <<>> \in Seq(CommittedFrame) /\ <<>> \in Seq(Answer)
      /\ <<>> \in Seq(Fate)
  BY EmptySeq
<1>3. ClientTypeOK
  BY <1>2 DEF AppInit, ClientInit, ClientTypeOK, Fate
<1>4. WireTypeOK /\ committed \in Seq(CommittedFrame) /\ resets \in 0..MaxResets
  BY <1>2, MaxResetsAssumption DEF AppInit, WireInit, WireTypeOK
<1>5. ClientInv /\ Len(committed) <= MaxFrames
  BY BoundsAssumption, MaxConnectionsAssumption
     DEF AppInit, ClientInit, WireInit, LoopInit, QueuesInit, ClientInv
<1> QED
  BY <1>1, <1>3, <1>4, <1>5 DEF AppInv, AppTypeOK

\* The application never leaves its types, whatever the peer and the network do.
THEOREM AppTypeCorrect == AppSpec => []AppTypeOK
<1>1. AppInv /\ [AppNext]_appVars => AppInv'
  BY AppInvStep
<1>2. AppInv => AppTypeOK
  BY DEF AppInv
<1> QED
  BY <1>1, <1>2, AppInitial, PTL DEF AppSpec

-----------------------------------------------------------------------------
(* What was proved of the loop in LogicalLoop's environment.               *)

\* With the real network thread too, frames are executed in the order they were
\* received and answered once each: the application implements FrameService.
THEOREM AppImplementsService ==
    AppSpec => []FramesInReceiptOrder /\ []OneAnswerPerFrame /\ FrameServiceSpec
<1>1. AppInit => LoopInit
  BY DEF AppInit
<1>2. AppInit => OrderInv /\ OneAnswerPerFrame /\ Service!ServiceInit
  BY DEF AppInit, LoopInit, QueuesInit, OrderInv, FramesInReceiptOrder, CommandQueueDrained,
         OneAnswerPerFrame, Owed, Service!ServiceInit
<1>3. AppInv /\ OrderInv /\ OneAnswerPerFrame /\ [AppNext]_appVars
        => /\ AppInv' /\ OrderInv' /\ OneAnswerPerFrame'
           /\ [Service!ServiceNext]_(Service!serviceVars)
  <2> SUFFICES ASSUME AppInv, OrderInv, OneAnswerPerFrame, [AppNext]_appVars
               PROVE  /\ AppInv' /\ OrderInv' /\ OneAnswerPerFrame'
                      /\ [Service!ServiceNext]_(Service!serviceVars)
    OBVIOUS
  <2>1. LoopChange /\ LoopTypeOK /\ InHand
    BY AppChange DEF AppInv, AppTypeOK
  <2> QED
    BY <2>1, AppInvStep, OrderStep, AnswerStep, StepRefines
<1>4. OrderInv => FramesInReceiptOrder
  BY DEF OrderInv
<1> QED
  BY <1>1, <1>2, <1>3, <1>4, AppInitial, PTL DEF AppSpec, FrameServiceSpec, Service!ServiceSpec

-----------------------------------------------------------------------------
(* Answers on their way to the socket.                                     *)

\* The answers whose fate was decided, without their fates.
AnswersIn(fates) == [i \in 1..Len(fates) |-> fates[i].answer]

LEMMA AnswersType ==
    ASSUME NEW fates \in Seq(Fate)
    PROVE  /\ AnswersIn(fates) \in Seq(Answer)
           /\ Len(AnswersIn(fates)) = Len(fates)
           /\ \A i \in 1..Len(fates) : AnswersIn(fates)[i] = fates[i].answer
<1>1. ASSUME NEW i \in 1..Len(fates)
      PROVE  fates[i].answer \in Answer
  <2>1. fates[i] \in Fate
    BY ElementOfSeq
  <2> QED
    BY <2>1 DEF Fate
<1> QED
  BY <1>1 DEF AnswersIn

\* Losing answers adds them to the end of those decided ...
LEMMA AnswersLost ==
    ASSUME NEW decided \in Seq(Fate), NEW rest \in Seq(Answer)
    PROVE  AnswersIn(decided \o Lost(rest)) = AnswersIn(decided) \o rest
<1> DEFINE all == decided \o Lost(rest)
           right == AnswersIn(decided) \o rest
<1>1. /\ Lost(rest) \in Seq(Fate) /\ Len(Lost(rest)) = Len(rest)
      /\ \A i \in 1..Len(rest) : Lost(rest)[i].answer = rest[i]
  <2>1. ASSUME NEW i \in 1..Len(rest)
        PROVE  Lost(rest)[i].answer = rest[i]
    <3>1. Lost(rest)[i] = [answer |-> rest[i], conn |-> NoConnection]
      BY LostType
    <3> QED
      BY <3>1
  <2> QED
    BY <2>1, LostType
<1>2. /\ all \in Seq(Fate)
      /\ Len(all) = Len(decided) + Len(rest)
      /\ \A i \in 1..Len(decided) + Len(rest) :
           all[i] = IF i <= Len(decided) THEN decided[i] ELSE Lost(rest)[i - Len(decided)]
  <2>1. PICK lost \in Seq(Fate) : lost = Lost(rest) /\ Len(lost) = Len(rest)
    BY <1>1
  <2>2. decided \o lost \in Seq(Fate) /\ Len(decided \o lost) = Len(decided) + Len(lost)
    BY ConcatProperties
  <2>3. \A i \in 1..Len(decided) + Len(lost) :
          (decided \o lost)[i] = IF i <= Len(decided) THEN decided[i] ELSE lost[i - Len(decided)]
    BY ConcatProperties
  <2> QED
    BY <2>1, <2>2, <2>3
<1>3. /\ right \in Seq(Answer)
      /\ Len(right) = Len(decided) + Len(rest)
      /\ \A i \in 1..Len(decided) + Len(rest) :
           right[i] = IF i <= Len(decided) THEN AnswersIn(decided)[i] ELSE rest[i - Len(decided)]
  <2>1. PICK answers \in Seq(Answer) : answers = AnswersIn(decided) /\ Len(answers) = Len(decided)
    BY AnswersType
  <2> QED
    BY <2>1, ConcatProperties
<1>4. AnswersIn(all) \in Seq(Answer) /\ Len(AnswersIn(all)) = Len(right)
  BY <1>2, <1>3, AnswersType
<1>5. ASSUME NEW i \in 1..Len(right)
      PROVE  AnswersIn(all)[i] = right[i]
  <2>1. AnswersIn(all)[i] = all[i].answer
    BY <1>2, <1>3, AnswersType
  <2>2. CASE i <= Len(decided)
    <3>1. AnswersIn(decided)[i] = decided[i].answer
      BY <1>3, <2>2, AnswersType
    <3> QED
      BY <1>2, <1>3, <2>1, <2>2, <3>1
  <2>3. CASE i > Len(decided)
    <3>1. i - Len(decided) \in 1..Len(rest)
      BY <1>3, <2>3
    <3> QED
      BY <1>1, <1>2, <1>3, <2>1, <2>3, <3>1
  <2> QED
    BY <1>3, <2>2, <2>3
<1> HIDE DEF all, right
<1>6. AnswersIn(all) = right
  BY <1>3, <1>4, <1>5, SeqEqual
<1> QED
  BY <1>6 DEF all, right

\* ... and so does writing one.
LEMMA AnswersWritten ==
    ASSUME NEW decided \in Seq(Fate), NEW answer \in Answer, NEW conn \in 0..MaxConnections
    PROVE  AnswersIn(Append(decided, [answer |-> answer, conn |-> conn]))
             = Append(AnswersIn(decided), answer)
<1> DEFINE all == Append(decided, [answer |-> answer, conn |-> conn])
           right == Append(AnswersIn(decided), answer)
<1>1. all \in Seq(Fate) /\ Len(all) = Len(decided) + 1
  BY DEF Fate
<1>2. right \in Seq(Answer) /\ Len(right) = Len(decided) + 1
  BY AnswersType
<1>3. AnswersIn(all) \in Seq(Answer) /\ Len(AnswersIn(all)) = Len(right)
  BY <1>1, <1>2, AnswersType
<1>4. ASSUME NEW i \in 1..Len(right)
      PROVE  AnswersIn(all)[i] = right[i]
  <2>1. AnswersIn(all)[i] = all[i].answer
    BY <1>1, <1>2, AnswersType
  <2>2. CASE i <= Len(decided)
    <3>1. AnswersIn(decided)[i] = decided[i].answer
      BY <1>2, <2>2, AnswersType
    <3> QED
      BY <1>2, <2>1, <2>2, <3>1, AnswersType
  <2>3. CASE i = Len(decided) + 1
    BY <1>2, <2>1, <2>3, AnswersType
  <2> QED
    BY <1>2, <2>2, <2>3
<1> HIDE DEF all, right
<1>5. AnswersIn(all) = right
  BY <1>2, <1>3, <1>4, SeqEqual
<1> QED
  BY <1>5 DEF all, right

\* The writer's loop conditions move answers, in order, to the end of those
\* decided or leave them pending; with a live connection it loses none.
LEMMA WriterConserves ==
    ASSUME NEW rest \in Seq(Answer), NEW decided \in Seq(Fate),
           WriterContinues(rest, decided)
    PROVE  /\ AnswersIn(settled') \o pending' = AnswersIn(decided) \o rest
           /\ connection_alive => settled' = decided
<1>1. CASE connection_alive /\ rest # <<>>
  BY <1>1 DEF WriterContinues
<1>2. CASE ~(connection_alive /\ rest # <<>>)
  <2>1. pending' = <<>> /\ settled' = decided \o Lost(rest)
    BY <1>2 DEF WriterContinues
  <2>2. AnswersIn(settled') = AnswersIn(decided) \o rest
    BY <2>1, AnswersLost
  <2>3. AnswersIn(decided) \o rest \in Seq(Answer)
    BY AnswersType
  <2>4. AnswersIn(settled') \o pending' = AnswersIn(decided) \o rest
    BY <2>1, <2>2, <2>3, ConcatEmptySeq
  <2>5. ASSUME connection_alive
        PROVE  settled' = decided
    <3>1. rest = <<>>
      BY <1>2, <2>5
    <3>2. Lost(rest) \in Seq(Fate) /\ Len(Lost(rest)) = 0
      BY <3>1, LostType
    <3>3. Lost(rest) = <<>>
      BY <3>2
    <3> QED
      BY <2>1, <3>3, ConcatEmptySeq
  <2> QED
    BY <2>4, <2>5
<1> QED
  BY <1>1, <1>2

\* The loop either leaves its answers alone or sends one.
LEMMA LoopAnswers ==
    ASSUME AppInv, LogicalThread
    PROVE  \/ UNCHANGED <<outgoing_queue, sent>>
           \/ \E answer \in Answer : /\ outgoing_queue' = Append(outgoing_queue, answer)
                                     /\ sent' = Append(sent, answer)
<1> USE DEF queueVars, netVars, frameVars
<1>1. CASE EnterLoop \/ PreLocal \/ PrePassFrame \/ PreIdle \/ PreExecute \/ RequestNetStop
  BY <1>1 DEF EnterLoop, PreLocal, PrePassFrame, PreIdle, PreExecute, RequestNetStop
<1>2. CASE TickWindowClosed \/ TickInvalidView \/ TickPaused \/ TickShutsDown
           \/ \E drawn \in {"drawn", "skipped"} : TickPlays(drawn)
  BY <1>2 DEF TickWindowClosed, TickInvalidView, TickPaused, TickShutsDown, TickPlays
<1>3. CASE PostNoCommand \/ LeaveLoop \/ Finish
  BY <1>3 DEF PostNoCommand, LeaveLoop, Finish
<1>4. CASE PostAnswer
  BY <1>4, PostCompletes DEF AppInv, AppTypeOK
<1> QED
  BY <1>1, <1>2, <1>3, <1>4 DEF LogicalThread, LoopLocalStep

\* The conserved sum, with the answers grouped as the writer takes them.
Sum(decided, held, queued) == AnswersIn(decided) \o held \o queued

LEMMA SumGrouped ==
    ASSUME NEW decided \in Seq(Fate), NEW held \in Seq(Answer), NEW queued \in Seq(Answer)
    PROVE  /\ Sum(decided, held, queued) \in Seq(Answer)
           /\ Sum(decided, held, <<>>) = AnswersIn(decided) \o held
           /\ Sum(decided, <<>>, queued) = AnswersIn(decided) \o queued
           /\ \A answer \in Answer :
                Sum(decided, held, Append(queued, answer))
                  = Append(Sum(decided, held, queued), answer)
<1>1. AnswersIn(decided) \in Seq(Answer)
  BY AnswersType
<1>2. AnswersIn(decided) \o held \in Seq(Answer)
  BY <1>1
<1>3. Sum(decided, held, queued) \in Seq(Answer)
  BY <1>2 DEF Sum
<1>4. Sum(decided, held, <<>>) = AnswersIn(decided) \o held
  BY <1>2, ConcatEmptySeq DEF Sum
<1>5. Sum(decided, <<>>, queued) = AnswersIn(decided) \o queued
  BY <1>1, ConcatEmptySeq DEF Sum
<1>6. ASSUME NEW answer \in Answer
      PROVE  Sum(decided, held, Append(queued, answer)) = Append(Sum(decided, held, queued), answer)
  <2>1. PICK first \in Seq(Answer) : first = AnswersIn(decided) \o held
    BY <1>2
  <2>2. <<answer>> \in Seq(Answer) /\ first \o queued \in Seq(Answer)
    OBVIOUS
  <2>3. Append(first \o queued, answer) = (first \o queued) \o <<answer>>
    BY <2>2, AppendIsConcat
  <2>4. Append(queued, answer) = queued \o <<answer>>
    BY AppendIsConcat
  <2>5. (first \o queued) \o <<answer>> = first \o (queued \o <<answer>>)
    BY <2>2, ConcatAssociative
  <2> QED
    BY <2>1, <2>3, <2>4, <2>5 DEF Sum
<1> QED
  BY <1>3, <1>4, <1>5, <1>6

LossAllowed ==
    \A i \in Len(settled) + 1 .. Len(settled') :
        settled'[i].conn = NoConnection => ~connection_alive'

\* The writer's three steps conserve the answers, and lose one only with the connection.
LEMMA WriterStep ==
    ASSUME AppInv, WriterTimer \/ WriteOk \/ WriteFails
    PROVE  /\ Sum(settled', pending', outgoing_queue') = Sum(settled, pending, outgoing_queue)
           /\ LossAllowed
<1>1. /\ settled \in Seq(Fate) /\ pending \in Seq(Answer) /\ outgoing_queue \in Seq(Answer)
      /\ writer = "writing" <=> pending # <<>>
      /\ connection_alive \in BOOLEAN
  BY DEF AppInv, AppTypeOK, ClientTypeOK, ClientInv, Fate, LoopTypeOK, QueuesTypeOK
<1>2. AnswersIn(settled) \in Seq(Answer)
  BY <1>1, AnswersType
<1>3. CASE WriterTimer
  <2>1. /\ pending = <<>> /\ outgoing_queue' = <<>> /\ connection_alive' = connection_alive
        /\ WriterContinues(outgoing_queue, settled)
    BY <1>1, <1>3 DEF WriterTimer
  <2>2. /\ AnswersIn(settled') \o pending' = AnswersIn(settled) \o outgoing_queue
        /\ connection_alive => settled' = settled
        /\ settled' \in Seq(Fate) /\ pending' \in Seq(Answer)
    BY <1>1, <2>1, WriterConserves, WriterContinuesType
  <2>3. Sum(settled', pending', <<>>) = AnswersIn(settled') \o pending'
    BY <2>2, SumGrouped, EmptySeq
  <2>4. Sum(settled, <<>>, outgoing_queue) = AnswersIn(settled) \o outgoing_queue
    BY <1>1, SumGrouped
  <2>5. LossAllowed
    BY <1>1, <2>1, <2>2 DEF LossAllowed
  <2> QED
    BY <2>1, <2>2, <2>3, <2>4, <2>5
<1>4. CASE WriteOk
  <2> DEFINE written == [answer |-> Head(pending), conn |-> Current]
             decided == Append(settled, written)
  <2>1. /\ writer = "writing"
        /\ outgoing_queue' = outgoing_queue /\ connection_alive' = connection_alive
        /\ WriterContinues(Tail(pending), decided)
        /\ phase = "running"
    BY <1>4 DEF WriteOk, queueVars
  <2>2. /\ pending # <<>>
        /\ Head(pending) \in Answer /\ Tail(pending) \in Seq(Answer)
    BY <1>1, <2>1
  <2>3. Current \in 1..MaxConnections
    <3>1. Current \in 1..Len(wire) /\ Len(wire) <= MaxConnections
      BY <2>1, CurrentType DEF AppInv, AppTypeOK, ClientInv
    <3> QED
      BY <3>1, MaxConnectionsAssumption DEF AppInv, AppTypeOK, WireTypeOK
  <2>4. decided \in Seq(Fate) /\ AnswersIn(decided) = Append(AnswersIn(settled), Head(pending))
    <3>1. Current \in 0..MaxConnections
      BY <2>3
    <3>2. written \in Fate
      BY <2>2, <3>1 DEF Fate
    <3>3. decided \in Seq(Fate)
      BY <1>1, <3>2
    <3> QED
      BY <1>1, <2>2, <3>1, <3>3, AnswersWritten
  <2> HIDE DEF decided
  <2>5. /\ AnswersIn(settled') \o pending' = AnswersIn(decided) \o Tail(pending)
        /\ connection_alive => settled' = decided
    BY <2>1, <2>2, <2>4, WriterConserves
  <2>6. AnswersIn(decided) \o Tail(pending) = AnswersIn(settled) \o pending
    BY <1>1, <1>2, <2>2, <2>4, HeadAcross
  <2>7. Sum(settled', pending', outgoing_queue') = Sum(settled, pending, outgoing_queue)
    BY <2>1, <2>5, <2>6 DEF Sum
  <2>8. ASSUME connection_alive, NEW i \in Len(settled) + 1 .. Len(settled')
        PROVE  settled'[i].conn # NoConnection
    <3>1. settled' = Append(settled, written)
      BY <2>5, <2>8 DEF decided
    <3>2. settled'[i] = written
      BY <1>1, <2>8, <3>1
    <3> QED
      BY <2>3, <3>2 DEF NoConnection
  <2> QED
    BY <2>1, <2>7, <2>8 DEF LossAllowed
<1>5. CASE WriteFails
  <2>1. /\ settled' = settled \o Lost(pending) /\ pending' = <<>>
        /\ outgoing_queue' = outgoing_queue /\ connection_alive' = FALSE
    BY <1>5 DEF WriteFails, queueVars
  <2>2. AnswersIn(settled') = AnswersIn(settled) \o pending
    BY <1>1, <2>1, AnswersLost
  <2>3. (AnswersIn(settled) \o pending) \o <<>> = AnswersIn(settled) \o pending
    BY <1>1, <1>2, ConcatEmptySeq, ConcatProperties
  <2> QED
    BY <2>1, <2>2, <2>3 DEF Sum, LossAllowed
<1> QED
  BY <1>3, <1>4, <1>5

LEMMA AnswersStep ==
    ASSUME AppInv, AnswersConserved, [AppNext]_appVars
    PROVE  AnswersConserved' /\ LossAllowed
<1>1. /\ settled \in Seq(Fate) /\ pending \in Seq(Answer) /\ outgoing_queue \in Seq(Answer)
      /\ Sum(settled, pending, outgoing_queue) = sent
  BY DEF AppInv, AppTypeOK, ClientTypeOK, Fate, LoopTypeOK, QueuesTypeOK, AnswersConserved,
         Sum, AnswersIn
<1>2. UNCHANGED settled => LossAllowed
  BY <1>1 DEF LossAllowed
<1>3. /\ Sum(settled', pending', outgoing_queue') = sent'
      /\ LossAllowed
  <2>1. CASE LogicalThread
    <3>1. UNCHANGED <<settled, pending>>
      BY <2>1 DEF LogicalThread, clientVars
    <3>2. CASE UNCHANGED <<outgoing_queue, sent>>
      BY <1>1, <1>2, <3>1, <3>2
    <3>3. CASE \E answer \in Answer : /\ outgoing_queue' = Append(outgoing_queue, answer)
                                       /\ sent' = Append(sent, answer)
      <4>1. PICK answer \in Answer : /\ outgoing_queue' = Append(outgoing_queue, answer)
                                     /\ sent' = Append(sent, answer)
        BY <3>3
      <4>2. Sum(settled, pending, Append(outgoing_queue, answer))
              = Append(Sum(settled, pending, outgoing_queue), answer)
        BY <1>1, SumGrouped
      <4> QED
        BY <1>1, <1>2, <3>1, <4>1, <4>2
    <3> QED
      BY <2>1, <3>2, <3>3, LoopAnswers
  <2>2. CASE NetworkThread
    <3>1. ClientStep /\ UNCHANGED sent
      BY <2>2 DEF NetworkThread, loopVars
    <3>2. CASE WriterTimer \/ WriteOk \/ WriteFails
      BY <1>1, <3>1, <3>2, WriterStep
    <3>3. CASE UNCHANGED <<settled, pending, outgoing_queue>>
      BY <1>1, <1>2, <3>1, <3>3
    <3> QED
      BY <3>1, <3>2, <3>3 DEF ClientStep, ResolveOk, ResolveFails, BackoffEnds, ConnectOk,
         ConnectFails, ConnectAborted, Disconnect, ThreadReturns, ReadLine, ReadFails,
         coroutineVars, queueVars
  <2>3. CASE UNCHANGED <<settled, pending, outgoing_queue, sent>>
    BY <1>1, <1>2, <2>3
  <2> QED
    BY <2>1, <2>2, <2>3 DEF AppNext, Terminate, signal_terminate, ServerCommits, ServerHangsUp,
       NetworkResets, AppTerminated, appVars, vars, queueVars, clientVars, loopVars, frameVars
<1> QED
  BY <1>3 DEF AnswersConserved, Sum, AnswersIn

\* No answer is duplicated, lost or overtaken between the loop and its fate: what the
\* writer decided, holds and has still to take is what the loop sent, in order.
THEOREM AnswersAreConserved == AppSpec => []AnswersConserved
<1>1. AppInit => AnswersConserved
  BY DEF AppInit, ClientInit, LoopInit, QueuesInit, AnswersConserved
<1>2. AppInv /\ AnswersConserved /\ [AppNext]_appVars => AppInv' /\ AnswersConserved'
  BY AppInvStep, AnswersStep
<1> QED
  BY <1>1, <1>2, AppInitial, PTL DEF AppSpec

\* The writer gives an answer up only once the connection is down.
THEOREM LossIsDisconnect == AppSpec => LossNeedsDisconnect
<1>1. AppInit => AnswersConserved
  BY DEF AppInit, ClientInit, LoopInit, QueuesInit, AnswersConserved
<1>2. AppInv /\ AnswersConserved /\ [AppNext]_appVars
        => AppInv' /\ AnswersConserved' /\ [LossAllowed]_appVars
  BY AppInvStep, AnswersStep
<1> QED
  BY <1>1, <1>2, AppInitial, PTL DEF AppSpec, LossNeedsDisconnect, LossAllowed

-----------------------------------------------------------------------------
(* Frames on their way to the loop.                                        *)

\* NextId and PlaceOf, of any list of frames.
IdsUsed(list, tag) == Cardinality({k \in 1..Len(list) : list[k].tag = tag})
PlaceIn(list, frame) == CHOOSE i \in 1..Len(list) : NameOf(list[i]) = NameOf(frame)

\* Names of frames are unique, because an id that was used is below the next one.
UniqueNames(list) ==
    /\ \A i \in 1..Len(list) : list[i].id < IdsUsed(list, list[i].tag)
    /\ \A i, j \in 1..Len(list) : NameOf(list[i]) = NameOf(list[j]) => i = j

\* A commit raises the next id of its own session, and of no other.
LEMMA IdsGrow ==
    ASSUME NEW list \in Seq(CommittedFrame), NEW frame \in CommittedFrame, NEW tag
    PROVE  /\ IdsUsed(list, tag) \in Nat
           /\ IdsUsed(Append(list, frame), tag) =
                IF tag = frame.tag THEN IdsUsed(list, tag) + 1 ELSE IdsUsed(list, tag)
<1> DEFINE n == Len(list)
           longer == Append(list, frame)
           Same == {k \in 1..n : list[k].tag = tag}
           SameAfter == {k \in 1..n + 1 : longer[k].tag = tag}
<1>1. n \in Nat
  OBVIOUS
<1>2. IsFiniteSet(1..n)
  BY <1>1, FS_Interval
<1>3. IsFiniteSet(Same) /\ Cardinality(Same) \in Nat
  BY <1>2, FS_Subset, FS_CardinalityType
<1>4. /\ Len(longer) = n + 1
      /\ \A k \in 1..n : longer[k] = list[k]
      /\ longer[n + 1] = frame
  OBVIOUS
<1>5. IdsUsed(list, tag) = Cardinality(Same) /\ IdsUsed(longer, tag) = Cardinality(SameAfter)
  BY <1>4 DEF IdsUsed
<1>6. SameAfter = IF tag = frame.tag THEN Same \cup {n + 1} ELSE Same
  BY <1>1, <1>4
<1>7. n + 1 \notin Same
  BY <1>1
<1>8. Cardinality(Same \cup {n + 1}) = Cardinality(Same) + 1
  BY <1>3, <1>7, FS_AddElement
<1> HIDE DEF Same, SameAfter, n
<1> QED
  BY <1>3, <1>5, <1>6, <1>8

LEMMA NamesStayUnique ==
    ASSUME NEW list \in Seq(CommittedFrame), NEW frame \in CommittedFrame,
           UniqueNames(list), frame.id = IdsUsed(list, frame.tag)
    PROVE  UniqueNames(Append(list, frame))
<1> DEFINE n == Len(list)
           longer == Append(list, frame)
<1>1. /\ n \in Nat /\ Len(longer) = n + 1
      /\ \A k \in 1..n : longer[k] = list[k]
      /\ longer[n + 1] = frame
  OBVIOUS
<1>2. ASSUME NEW k \in 1..n
      PROVE  list[k].id \in Nat /\ list[k].id < IdsUsed(list, list[k].tag)
  <2>1. list[k] \in Frame
    BY DEF Frame
  <2> QED
    BY <2>1, FrameType DEF UniqueNames
<1>3. ASSUME NEW i \in 1..n + 1
      PROVE  longer[i].id < IdsUsed(longer, longer[i].tag)
  <2>1. CASE i = n + 1
    BY <1>1, <2>1, IdsGrow
  <2>2. CASE i \in 1..n
    BY <1>1, <1>2, <2>2, IdsGrow
  <2> QED
    BY <1>1, <2>1, <2>2
<1>4. ASSUME NEW i \in 1..n
      PROVE  NameOf(list[i]) # NameOf(frame)
  BY <1>2, IdsGrow DEF NameOf
<1>5. ASSUME NEW i \in 1..n + 1, NEW j \in 1..n + 1, NameOf(longer[i]) = NameOf(longer[j])
      PROVE  i = j
  BY <1>1, <1>4, <1>5 DEF UniqueNames
<1> HIDE DEF longer
<1>6. UniqueNames(longer)
  BY <1>1, <1>3, <1>5 DEF UniqueNames
<1> QED
  BY <1>6 DEF longer

\* Where names are unique, a frame of the list is where it was put, and stays there.
LEMMA PlaceIsIndex ==
    ASSUME NEW list \in Seq(CommittedFrame), UniqueNames(list), NEW i \in 1..Len(list)
    PROVE  PlaceIn(list, list[i]) = i
  BY DEF PlaceIn, UniqueNames

\* A stream of frames of the list, in the order of the list.
Ordered(list, stream) ==
    /\ \A n \in 1..Len(stream) : \E i \in 1..Len(list) : stream[n] = list[i]
    /\ \A m, n \in 1..Len(stream) :
         m < n => PlaceIn(list, stream[m]) < PlaceIn(list, stream[n])

\* A commit leaves what is on its way in order, and may be sent after it.
LEMMA OrderedGrows ==
    ASSUME NEW list \in Seq(CommittedFrame), NEW frame \in CommittedFrame,
           NEW stream \in Seq(Frame), Ordered(list, stream), UniqueNames(list),
           UniqueNames(Append(list, frame))
    PROVE  /\ Ordered(Append(list, frame), stream)
           /\ Ordered(Append(list, frame), Append(stream, frame))
<1> DEFINE longer == Append(list, frame)
           last == Len(list) + 1
<1>1. /\ longer \in Seq(CommittedFrame) /\ Len(longer) = last
      /\ \A i \in 1..Len(list) : longer[i] = list[i]
      /\ longer[last] = frame
      /\ UniqueNames(longer)
      /\ Len(list) \in Nat
  OBVIOUS
<1> HIDE DEF longer
<1>2. PlaceIn(longer, frame) = last
  BY <1>1, PlaceIsIndex
<1>3. ASSUME NEW n \in 1..Len(stream)
      PROVE  \E i \in 1..Len(list) : /\ stream[n] = list[i]
                                    /\ PlaceIn(list, stream[n]) = i
                                    /\ PlaceIn(longer, stream[n]) = i
  <2>1. PICK i \in 1..Len(list) : stream[n] = list[i]
    BY DEF Ordered
  <2>2. PlaceIn(list, list[i]) = i
    BY PlaceIsIndex
  <2>3. PlaceIn(longer, longer[i]) = i
    BY <1>1, PlaceIsIndex
  <2> QED
    BY <1>1, <2>1, <2>2, <2>3
<1>4. Ordered(longer, stream)
  BY <1>1, <1>3 DEF Ordered
<1>5. Ordered(longer, Append(stream, frame))
  <2> DEFINE more == Append(stream, frame)
  <2>1. /\ Len(more) = Len(stream) + 1
        /\ \A n \in 1..Len(stream) : more[n] = stream[n]
        /\ more[Len(stream) + 1] = frame
        /\ Len(stream) \in Nat
    OBVIOUS
  <2> HIDE DEF more
  <2>2. ASSUME NEW n \in 1..Len(more)
        PROVE  \E i \in 1..Len(longer) : more[n] = longer[i]
    <3>1. CASE n = Len(stream) + 1
      <4>1. last \in 1..Len(longer)
        BY <1>1
      <4> QED
        BY <1>1, <2>1, <3>1, <4>1
    <3>2. CASE n \in 1..Len(stream)
      <4>1. PICK i \in 1..Len(list) : stream[n] = list[i]
        BY <1>3, <3>2
      <4>2. i \in 1..Len(longer) /\ longer[i] = list[i]
        BY <1>1
      <4> QED
        BY <2>1, <3>2, <4>1, <4>2
    <3> QED
      BY <2>1, <3>1, <3>2
  <2>3. ASSUME NEW m \in 1..Len(more), NEW n \in 1..Len(more), m < n
        PROVE  PlaceIn(longer, more[m]) < PlaceIn(longer, more[n])
    <3>1. m \in 1..Len(stream) /\ more[m] = stream[m]
      BY <2>1, <2>3
    <3>2. CASE n = Len(stream) + 1
      BY <1>1, <1>2, <1>3, <2>1, <3>1, <3>2
    <3>3. CASE n \in 1..Len(stream)
      BY <1>4, <2>1, <2>3, <3>1, <3>3 DEF Ordered
    <3> QED
      BY <2>1, <3>2, <3>3
  <2>4. Ordered(longer, more)
    BY <2>2, <2>3 DEF Ordered
  <2> QED
    BY <2>4 DEF more
<1> QED
  BY <1>4, <1>5 DEF longer

\* What is lost is the end of a stream.
LEMMA OrderedPrefix ==
    ASSUME NEW list \in Seq(CommittedFrame), NEW first \in Seq(Frame), NEW rest \in Seq(Frame),
           Ordered(list, first \o rest)
    PROVE  Ordered(list, first)
<1>1. Len(first \o rest) = Len(first) + Len(rest) /\ Len(first) \in Nat /\ Len(rest) \in Nat
  OBVIOUS
<1>2. \A n \in 1..Len(first) : n \in 1..Len(first \o rest) /\ (first \o rest)[n] = first[n]
  BY <1>1
<1> QED
  BY <1>2 DEF Ordered

\* The frames that lines carry, and those the client may still read.
FramesIn(lines) == [n \in 1..Len(lines) |-> command_frame_from_json(lines[n])]
InTransit == IF wire = <<>> THEN <<>> ELSE FramesIn(wire[Current].to_app)

LEMMA FramesType ==
    ASSUME NEW lines \in Seq(Line)
    PROVE  /\ FramesIn(lines) \in Seq(Frame)
           /\ Len(FramesIn(lines)) = Len(lines)
           /\ \A n \in 1..Len(lines) : FramesIn(lines)[n] = command_frame_from_json(lines[n])
<1>1. ASSUME NEW n \in 1..Len(lines)
      PROVE  command_frame_from_json(lines[n]) \in Frame
  BY ParsedFrame
<1> QED
  BY <1>1 DEF FramesIn

LEMMA FramesSplit ==
    ASSUME NEW lines \in Seq(Line), lines # <<>>
    PROVE  /\ FramesIn(lines) # <<>>
           /\ Head(FramesIn(lines)) = command_frame_from_json(Head(lines))
           /\ Tail(FramesIn(lines)) = FramesIn(Tail(lines))
<1>1. /\ Tail(lines) \in Seq(Line) /\ Len(Tail(lines)) = Len(lines) - 1
      /\ \A n \in 1..Len(lines) - 1 : Tail(lines)[n] = lines[n + 1]
      /\ Head(lines) = lines[1] /\ Len(lines) \in Nat \ {0}
  OBVIOUS
<1>2. PICK frames \in Seq(Frame) : frames = FramesIn(lines) /\ Len(frames) = Len(lines)
  BY FramesType
<1>3. /\ frames # <<>> /\ Head(frames) = frames[1]
      /\ Tail(frames) \in Seq(Frame) /\ Len(Tail(frames)) = Len(lines) - 1
      /\ \A n \in 1..Len(lines) - 1 : Tail(frames)[n] = frames[n + 1]
  BY <1>1, <1>2
<1>4. PICK others \in Seq(Frame) : others = FramesIn(Tail(lines)) /\ Len(others) = Len(lines) - 1
  BY <1>1, FramesType
<1>5. ASSUME NEW n \in 1..Len(lines) - 1
      PROVE  Tail(frames)[n] = others[n]
  <2>1. frames[n + 1] = command_frame_from_json(lines[n + 1])
    BY <1>1, <1>2, FramesType
  <2>2. others[n] = command_frame_from_json(Tail(lines)[n])
    BY <1>1, <1>4, FramesType
  <2> QED
    BY <1>1, <1>3, <2>1, <2>2
<1>6. Tail(frames) = others
  BY <1>1, <1>3, <1>4, <1>5, SeqEqual
<1>7. frames[1] = command_frame_from_json(lines[1])
  BY <1>1, <1>2, FramesType
<1> QED
  BY <1>1, <1>2, <1>3, <1>4, <1>6, <1>7

LEMMA FramesAppended ==
    ASSUME NEW lines \in Seq(Line), NEW frame \in CommittedFrame
    PROVE  FramesIn(Append(lines, [parses |-> TRUE, frame |-> frame])) = Append(FramesIn(lines), frame)
<1> DEFINE line == [parses |-> TRUE, frame |-> frame]
<1>1. line \in Line /\ command_frame_from_json(line) = frame /\ frame \in Frame
  BY DEF Line, command_frame_from_json, Frame
<1> HIDE DEF line
<1> DEFINE longer == Append(lines, line)
<1>2. /\ longer \in Seq(Line) /\ Len(longer) = Len(lines) + 1 /\ Len(lines) \in Nat
      /\ \A n \in 1..Len(lines) : longer[n] = lines[n]
      /\ longer[Len(lines) + 1] = line
  BY <1>1
<1> HIDE DEF longer
<1>3. PICK left \in Seq(Frame) : left = FramesIn(longer) /\ Len(left) = Len(lines) + 1
  BY <1>2, FramesType
<1>4. PICK short \in Seq(Frame) : short = FramesIn(lines) /\ Len(short) = Len(lines)
  BY FramesType
<1> DEFINE right == Append(short, frame)
<1>5. /\ right \in Seq(Frame)
      /\ Len(right) = Len(lines) + 1
      /\ \A n \in 1..Len(lines) : right[n] = short[n]
      /\ right[Len(lines) + 1] = frame
  BY <1>1, <1>4
<1> HIDE DEF right
<1>6. ASSUME NEW n \in 1..Len(lines) + 1
      PROVE  left[n] = right[n]
  <2>1. left[n] = command_frame_from_json(longer[n])
    BY <1>2, <1>3, FramesType
  <2>2. CASE n = Len(lines) + 1
    BY <1>1, <1>2, <1>5, <2>1, <2>2
  <2>3. CASE n \in 1..Len(lines)
    <3>1. short[n] = command_frame_from_json(lines[n])
      BY <1>4, <2>3, FramesType
    <3>2. right[n] = short[n] /\ longer[n] = lines[n]
      BY <1>2, <1>5, <2>3
    <3> QED
      BY <2>1, <3>1, <3>2
  <2>4. n = Len(lines) + 1 \/ n \in 1..Len(lines)
    BY <1>2
  <2> QED
    BY <2>2, <2>3, <2>4
<1>7. left = right
  BY <1>3, <1>5, <1>6, SeqEqual
<1> QED
  BY <1>3, <1>4, <1>7 DEF line, longer, right

Arriving == received \o InTransit

LEMMA ArrivingType ==
    ASSUME AppInv
    PROVE  /\ received \in Seq(Frame) /\ InTransit \in Seq(Frame)
           /\ Arriving \in Seq(Frame)
<1>1. received \in Seq(Frame)
  BY DEF AppInv, AppTypeOK, LoopTypeOK, QueuesTypeOK
<1>2. InTransit \in Seq(Frame)
  <2>1. CASE wire = <<>>
    BY <2>1 DEF InTransit
  <2>2. CASE wire # <<>>
    BY <2>2, CurrentType, FramesType DEF InTransit, AppInv, AppTypeOK
  <2> QED
    BY <2>1, <2>2
<1> QED
  BY <1>1, <1>2 DEF Arriving

\* What else happens to a connection, or to another one, leaves those frames.
LEMMA SameTransit ==
    ASSUME WireTypeOK, Len(wire') = Len(wire), wire # <<>> => wire' # <<>>,
           wire = <<>> => wire' = <<>>,
           wire # <<>> => wire'[Current].to_app = wire[Current].to_app
    PROVE  InTransit' = InTransit
<1>1. Current' = Current
  BY DEF Current
<1> QED
  BY <1>1 DEF InTransit

\* Closing an end, writing an answer, and anything done to another connection leaves
\* the frames in transit.
LEMMA OtherEdits ==
    ASSUME WireTypeOK, NEW c \in 1..Len(wire), NEW connection \in Connection,
           wire' = [wire EXCEPT ![c] = connection],
           c # Current \/ connection.to_app = wire[c].to_app
    PROVE  InTransit' = InTransit
<1>1. /\ WireTypeOK' /\ Len(wire') = Len(wire)
      /\ \A d \in 1..Len(wire) : wire'[d] = IF d = c THEN connection ELSE wire[d]
  BY WireEdited DEF WireTypeOK
<1>2. wire # <<>> /\ wire' # <<>>
  BY <1>1 DEF WireTypeOK
<1>3. Current \in 1..Len(wire)
  BY <1>2, CurrentType
<1> QED
  BY <1>1, <1>2, <1>3, SameTransit DEF WireTypeOK

LEMMA ClosingLeavesFrames ==
    ASSUME WireTypeOK, NEW c \in 1..Len(wire), AppCloses(c) \/ ServerCloses(c)
    PROVE  InTransit' = InTransit
<1>1. wire[c] \in Connection
  BY DEF WireTypeOK
<1>2. /\ [wire[c] EXCEPT !.app = "closed"] \in Connection
      /\ [wire[c] EXCEPT !.app = "closed"].to_app = wire[c].to_app
      /\ [wire[c] EXCEPT !.server = "closed"] \in Connection
      /\ [wire[c] EXCEPT !.server = "closed"].to_app = wire[c].to_app
  BY <1>1 DEF Connection
<1>3. CASE AppCloses(c)
  BY <1>2, <1>3, OtherEdits DEF AppCloses
<1>4. CASE ServerCloses(c)
  BY <1>2, <1>4, OtherEdits DEF ServerCloses
<1> QED
  BY <1>3, <1>4

\* A step keeps the frames on their way, loses the end of them, or commits a frame,
\* which may join them.
Kept == committed' = committed /\ Arriving' = Arriving
Dropped ==
    /\ committed' = committed
    /\ Arriving' \in Seq(Frame)
    /\ \E rest \in Seq(Frame) : Arriving = Arriving' \o rest
Committed(frame) ==
    /\ frame \in CommittedFrame
    /\ frame.id = IdsUsed(committed, frame.tag)
    /\ committed' = Append(committed, frame)
    /\ Arriving' = Arriving \/ Arriving' = Append(Arriving, frame)

LEMMA NetworkArrives ==
    ASSUME AppInv, NetworkThread
    PROVE  Kept \/ Dropped
<1>1. /\ ClientStep
      /\ committed' = committed
  BY DEF NetworkThread
<1>2. received \in Seq(Frame) /\ InTransit \in Seq(Frame) /\ Arriving \in Seq(Frame)
  BY ArrivingType
<1>3. WireTypeOK
  BY DEF AppInv, AppTypeOK
<1>4. CASE UNCHANGED <<received, wire>>
  BY <1>1, <1>4 DEF Kept, Arriving, InTransit, Current
<1>5. CASE received' = received /\ \E app_end \in {"open", "closed"} : Open(app_end)
  <2>1. InTransit' = <<>>
    <3>1. PICK app_end \in {"open", "closed"} : Open(app_end)
      BY <1>5
    <3>2. wire' # <<>> /\ Len(wire') = Len(wire) + 1
      BY <1>3, <3>1, WireOpened
    <3>3. wire'[Len(wire) + 1].to_app = <<>>
      BY <1>3, <3>1 DEF Open, WireTypeOK
    <3>4. FramesIn(wire'[Len(wire')].to_app) = <<>>
      BY <3>2, <3>3, FramesType, EmptySeq
    <3> QED
      BY <3>2, <3>4 DEF InTransit, Current
  <2>2. Arriving' = received
    BY <1>2, <1>5, <2>1, ConcatEmptySeq DEF Arriving
  <2>3. Arriving = Arriving' \o InTransit
    BY <2>2 DEF Arriving
  <2> QED
    BY <1>1, <1>2, <2>2, <2>3 DEF Dropped
<1>6. CASE Disconnect
  <2>1. received' = received /\ AppCloses(Current) /\ wire # <<>>
    BY <1>6 DEF Disconnect, queueVars, AppInv, ClientInv
  <2>2. InTransit' = InTransit
    BY <1>3, <2>1, CurrentType, ClosingLeavesFrames
  <2> QED
    BY <1>1, <2>1, <2>2 DEF Kept, Arriving
<1>7. CASE ReadLine
  <2> DEFINE lines == wire[Current].to_app
             frame == command_frame_from_json(Head(lines))
  <2>1. /\ wire # <<>> /\ lines # <<>>
        /\ received' = Append(received, frame)
        /\ wire' = [wire EXCEPT ![Current].to_app = Tail(lines)]
    BY <1>7 DEF ReadLine, PushIncoming, AppInv, ClientInv
  <2>2. lines \in Seq(Line) /\ wire[Current] \in Connection /\ Current \in 1..Len(wire)
    BY <1>3, <2>1, CurrentType
  <2>3. /\ FramesIn(lines) # <<>>
        /\ Head(FramesIn(lines)) = frame
        /\ Tail(FramesIn(lines)) = FramesIn(Tail(lines))
    BY <2>1, <2>2, FramesSplit
  <2>4. InTransit = FramesIn(lines)
    BY <2>1 DEF InTransit
  <2>5. InTransit' = Tail(InTransit)
    <3>1. WireTypeOK' /\ Len(wire') = Len(wire)
      BY <1>3, <2>1, CurrentEdited
    <3>2. wire' # <<>> /\ Current' = Current
      BY <2>1, <3>1 DEF Current, WireTypeOK
    <3>3. wire'[Current].to_app = Tail(lines)
      BY <1>3, <2>1, <2>2 DEF WireTypeOK, Connection
    <3> QED
      BY <2>3, <2>4, <3>2, <3>3 DEF InTransit
  <2> HIDE DEF frame, lines
  <2>6. received \o InTransit = Append(received, Head(InTransit)) \o Tail(InTransit)
    BY <1>2, <2>3, <2>4, HeadAcross
  <2> QED
    BY <1>1, <2>1, <2>3, <2>4, <2>5, <2>6 DEF Kept, Arriving
<1>8. CASE WriteOk
  <2>1. /\ received' = received /\ wire # <<>> /\ pending # <<>>
        /\ wire' = [wire EXCEPT ![Current].to_server = Append(@, Head(pending))]
    BY <1>8 DEF WriteOk, queueVars, AppInv, ClientInv
  <2>2. /\ wire[Current] \in Connection /\ Current \in 1..Len(wire)
        /\ wire[Current].to_server \in Seq(Answer)
    BY <1>3, <2>1, CurrentType
  <2>3. Head(pending) \in Answer
    BY <2>1 DEF AppInv, AppTypeOK, ClientTypeOK
  <2> DEFINE answers == Append(wire[Current].to_server, Head(pending))
  <2>4. answers \in Seq(Answer)
    BY <2>2, <2>3
  <2>5. wire' = [wire EXCEPT ![Current].to_server = answers]
    BY <2>1
  <2> HIDE DEF answers
  <2> DEFINE written == [wire[Current] EXCEPT !.to_server = answers]
  <2>7. written \in Connection /\ written.to_app = wire[Current].to_app
    BY <2>2, <2>4 DEF Connection
  <2>8. wire' = [wire EXCEPT ![Current] = written]
    BY <2>5
  <2> HIDE DEF written
  <2>6. InTransit' = InTransit
    BY <1>3, <2>2, <2>7, <2>8, OtherEdits
  <2> QED
    BY <1>1, <2>1, <2>6 DEF Kept, Arriving
<1> QED
  BY <1>1, <1>4, <1>5, <1>6, <1>7, <1>8
     DEF ClientStep, ResolveOk, ResolveFails, BackoffEnds, ConnectOk, ConnectFails,
         ConnectAborted, ThreadReturns, ReadFails, WriterTimer, WriteFails, queueVars

\* A frame the server writes to the connection in use joins those on their way;
\* one written to an older connection is never read.
LEMMA ServerArrives ==
    ASSUME AppInv, NEW c \in 1..Len(wire), NEW body \in FrameBodies, ServerCommits(c, body)
    PROVE  \E frame : Committed(frame)
<1> DEFINE frame == [tag |-> c, id |-> NextId(c), body |-> body]
           line == [parses |-> TRUE, frame |-> frame]
<1>1. received \in Seq(Frame) /\ InTransit \in Seq(Frame) /\ WireTypeOK
  BY ArrivingType DEF AppInv, AppTypeOK
<1>2. frame \in CommittedFrame
  <2>1. c \in 1..MaxConnections
    BY MaxConnectionsAssumption DEF WireTypeOK, AppInv, AppTypeOK, ClientInv
  <2>2. committed \in Seq(CommittedFrame) /\ Len(committed) < MaxFrames
    BY DEF ServerCommits, AppInv, AppTypeOK
  <2> QED
    BY <2>1, <2>2, CommittedType
<1>3. frame \in Frame /\ line \in Line /\ frame.id = IdsUsed(committed, frame.tag)
  <2>1. frame \in Frame
    BY <1>2 DEF Frame
  <2>3. frame.tag = c /\ frame.id = NextId(c)
    OBVIOUS
  <2>4. NextId(c) = IdsUsed(committed, c)
    BY DEF NextId, IdsUsed
  <2> HIDE DEF frame
  <2>2. line \in Line
    BY <1>2 DEF Line
  <2> QED
    BY <2>1, <2>2, <2>3, <2>4
<1>4. /\ committed' = Append(committed, frame)
      /\ received' = received
      /\ wire' = [wire EXCEPT ![c].to_app = Append(@, line)]
  BY DEF ServerCommits, vars, queueVars
<1>5. wire[c] \in Connection /\ wire[c].to_app \in Seq(Line)
  <2>1. wire[c] \in Connection
    BY <1>1 DEF WireTypeOK
  <2> QED
    BY <2>1 DEF Connection
<1> HIDE DEF frame
<1> DEFINE lines == Append(wire[c].to_app, line)
<1>6. lines \in Seq(Line)
  BY <1>3, <1>5
<1>7. wire' = [wire EXCEPT ![c].to_app = lines]
  BY <1>4
<1>8. FramesIn(lines) = Append(FramesIn(wire[c].to_app), frame)
  BY <1>2, <1>5, FramesAppended
<1> HIDE DEF line, lines
<1> DEFINE after == [wire[c] EXCEPT !.to_app = lines]
<1>9. after \in Connection /\ after.to_app = lines
  BY <1>5, <1>6 DEF Connection
<1>10. wire' = [wire EXCEPT ![c] = after]
  BY <1>7
<1> HIDE DEF after
<1>11. CASE c # Current
  <2>1. InTransit' = InTransit
    BY <1>1, <1>9, <1>10, <1>11, OtherEdits
  <2>2. Arriving' = Arriving
    BY <1>4, <2>1 DEF Arriving
  <2> QED
    BY <1>2, <1>3, <1>4, <2>2 DEF Committed
<1>12. CASE c = Current
  <2>1. /\ WireTypeOK' /\ Len(wire') = Len(wire)
        /\ wire'[c] = after
    BY <1>1, <1>9, <1>10, WireEdited DEF WireTypeOK
  <2>2. wire # <<>> /\ wire' # <<>> /\ Current' = c
    BY <1>1, <1>12, <2>1 DEF WireTypeOK, Current
  <2>3. InTransit = FramesIn(wire[c].to_app) /\ InTransit' = FramesIn(lines)
    BY <1>9, <1>12, <2>1, <2>2 DEF InTransit
  <2>4. Arriving' = received \o Append(InTransit, frame)
    BY <1>4, <1>8, <2>3 DEF Arriving
  <2>5. received \o Append(InTransit, frame) = Append(received \o InTransit, frame)
    <3>1. <<frame>> \in Seq(Frame) /\ received \o InTransit \in Seq(Frame)
      BY <1>1, <1>3
    <3>2. Append(InTransit, frame) = InTransit \o <<frame>>
      BY <1>1, <1>3, AppendIsConcat
    <3>3. Append(received \o InTransit, frame) = (received \o InTransit) \o <<frame>>
      BY <1>3, <3>1, AppendIsConcat
    <3> QED
      BY <1>1, <3>1, <3>2, <3>3, ConcatAssociative
  <2>6. Arriving' = Append(Arriving, frame)
    BY <2>4, <2>5 DEF Arriving
  <2> QED
    BY <1>2, <1>3, <1>4, <2>6 DEF Committed
<1> QED
  BY <1>11, <1>12

\* A reset loses what was still on its way on the connection in use.
LEMMA ResetDrops ==
    ASSUME AppInv, NEW c \in 1..Len(wire), NetworkResets(c)
    PROVE  Kept \/ Dropped
<1>1. received \in Seq(Frame) /\ InTransit \in Seq(Frame) /\ WireTypeOK
  BY ArrivingType DEF AppInv, AppTypeOK
<1>2. committed' = committed /\ received' = received /\ Reset(c)
  BY DEF NetworkResets, vars, queueVars
<1> DEFINE after == [to_app |-> <<>>, to_server |-> <<>>, app |-> wire[c].app,
                     server |-> wire[c].server, reset |-> TRUE]
<1>3. wire' = [wire EXCEPT ![c] = after]
  BY <1>2 DEF Reset
<1>4. after.to_app = <<>>
  OBVIOUS
<1>5. after \in Connection
  <2>1. wire[c] \in Connection
    BY <1>1 DEF WireTypeOK
  <2> QED
    BY <2>1 DEF Connection
<1> HIDE DEF after
<1>6. CASE c # Current
  BY <1>1, <1>2, <1>3, <1>5, <1>6, OtherEdits DEF Kept, Arriving
<1>7. CASE c = Current
  <2>1. /\ WireTypeOK' /\ Len(wire') = Len(wire)
        /\ wire'[c] = after
    BY <1>1, <1>3, <1>5, WireEdited DEF WireTypeOK
  <2>2. wire' # <<>> /\ Current' = c
    BY <1>1, <1>7, <2>1 DEF WireTypeOK, Current
  <2>3. InTransit' = FramesIn(<<>>)
    BY <1>4, <2>1, <2>2 DEF InTransit
  <2>4. InTransit' = <<>>
    BY <2>3, FramesType, EmptySeq
  <2>5. Arriving' = received
    BY <1>1, <1>2, <2>4, ConcatEmptySeq DEF Arriving
  <2>6. Arriving = Arriving' \o InTransit
    BY <2>5 DEF Arriving
  <2> QED
    BY <1>1, <1>2, <2>5, <2>6 DEF Dropped
<1> QED
  BY <1>6, <1>7

LEMMA ArrivingStep ==
    ASSUME AppInv, [AppNext]_appVars
    PROVE  Kept \/ Dropped \/ \E frame : Committed(frame)
<1>1. WireTypeOK
  BY DEF AppInv, AppTypeOK
<1>2. ASSUME UNCHANGED <<committed, received, wire>>
      PROVE  Kept
  BY <1>2 DEF Kept, Arriving, InTransit, Current
<1>3. CASE LogicalThread
  <2>1. committed' = committed /\ received' = received
    BY <1>3, LoopLeavesNetwork DEF LogicalThread
  <2>2. CASE UNCHANGED wire
    BY <1>2, <2>1, <2>2
  <2>3. CASE phase = "running" /\ AppCloses(Current)
    <3>1. Current \in 1..Len(wire)
      BY <1>1, <2>3, CurrentType DEF AppInv, ClientInv
    <3> QED
      BY <1>1, <2>1, <2>3, <3>1, ClosingLeavesFrames DEF Kept, Arriving
  <2> QED
    BY <1>3, <2>2, <2>3 DEF LogicalThread, StopCallback
<1>4. CASE NetworkThread
  BY <1>4, NetworkArrives
<1>5. CASE Terminate \/ AppTerminated \/ UNCHANGED appVars
  <2>1. UNCHANGED <<committed, received, wire>>
    BY <1>5 DEF Terminate, signal_terminate, AppTerminated, appVars, vars, queueVars
  <2> QED
    BY <1>2, <2>1
<1>6. ASSUME NEW c \in 1..Len(wire),
             \/ \E body \in FrameBodies : ServerCommits(c, body)
             \/ ServerHangsUp(c)
             \/ NetworkResets(c)
      PROVE  Kept \/ Dropped \/ \E frame : Committed(frame)
  <2>1. CASE \E body \in FrameBodies : ServerCommits(c, body)
    BY <2>1, ServerArrives
  <2>2. CASE ServerHangsUp(c)
    <3>1. committed' = committed /\ received' = received /\ ServerCloses(c)
      BY <2>2 DEF ServerHangsUp, vars, queueVars
    <3> QED
      BY <1>1, <3>1, ClosingLeavesFrames DEF Kept, Arriving
  <2>3. CASE NetworkResets(c)
    BY <2>3, ResetDrops
  <2> QED
    BY <1>6, <2>1, <2>2, <2>3
<1> QED
  BY <1>3, <1>4, <1>5, <1>6 DEF AppNext

\* Names are unique, and what was received and is still on its way is in the order
\* in which it was committed.
ArrivalInv == UniqueNames(committed) /\ Ordered(committed, Arriving)

LEMMA ArrivalStep ==
    ASSUME AppInv, ArrivalInv, [AppNext]_appVars
    PROVE  ArrivalInv'
<1>1. committed \in Seq(CommittedFrame) /\ Arriving \in Seq(Frame)
  BY ArrivingType DEF AppInv, AppTypeOK
<1>2. CASE Kept
  BY <1>2 DEF Kept, ArrivalInv, UniqueNames, Ordered, PlaceIn, IdsUsed
<1>3. CASE Dropped
  <2>1. PICK rest \in Seq(Frame) : Arriving = Arriving' \o rest
    BY <1>3 DEF Dropped
  <2>2. Ordered(committed, Arriving')
    BY <1>1, <1>3, <2>1, OrderedPrefix DEF ArrivalInv, Dropped
  <2> QED
    BY <1>3, <2>2 DEF Dropped, ArrivalInv, UniqueNames, Ordered, PlaceIn, IdsUsed
<1>4. ASSUME NEW frame, Committed(frame)
      PROVE  ArrivalInv'
  <2>1. /\ frame \in CommittedFrame /\ frame.id = IdsUsed(committed, frame.tag)
        /\ committed' = Append(committed, frame)
        /\ Arriving' = Arriving \/ Arriving' = Append(Arriving, frame)
    BY <1>4 DEF Committed
  <2>2. UniqueNames(Append(committed, frame))
    BY <1>1, <2>1, NamesStayUnique DEF ArrivalInv
  <2>3. /\ Ordered(Append(committed, frame), Arriving)
        /\ Ordered(Append(committed, frame), Append(Arriving, frame))
    BY <1>1, <2>1, <2>2, OrderedGrows DEF ArrivalInv
  <2>4. UniqueNames(committed') /\ Ordered(committed', Arriving')
    BY <2>1, <2>2, <2>3
  <2> QED
    BY <2>4 DEF ArrivalInv
<1> QED
  BY <1>2, <1>3, <1>4, ArrivingStep

\* Nothing is received twice, out of order or out of thin air, across disconnects and
\* reconnects: what the loop has, followed by what is in transit, is always an ordered
\* part of what was committed.
THEOREM ReceivedOrdered == AppSpec => []ReceivedInCommitOrder
<1>1. AppInit => ArrivalInv
  <2> SUFFICES ASSUME AppInit PROVE ArrivalInv
    OBVIOUS
  <2>1. committed = <<>> /\ received = <<>> /\ wire = <<>>
    BY DEF AppInit, LoopInit, QueuesInit, WireInit
  <2>2. Arriving = <<>>
    <3>1. <<>> \in Seq(Frame)
      OBVIOUS
    <3> QED
      BY <2>1, <3>1, ConcatEmptySeq DEF Arriving, InTransit
  <2> QED
    BY <2>1, <2>2, EmptySeq DEF ArrivalInv, UniqueNames, Ordered
<1>2. AppInv /\ ArrivalInv /\ [AppNext]_appVars => AppInv' /\ ArrivalInv'
  BY AppInvStep, ArrivalStep
<1>3. AppInv /\ ArrivalInv => ReceivedInCommitOrder
  <2> SUFFICES ASSUME AppInv, ArrivalInv PROVE ReceivedInCommitOrder
    OBVIOUS
  <2>1. /\ received \in Seq(Frame) /\ InTransit \in Seq(Frame)
        /\ committed \in Seq(CommittedFrame)
    BY ArrivingType DEF AppInv, AppTypeOK
  <2>2. Ordered(committed, received)
    BY <2>1, OrderedPrefix DEF ArrivalInv, Arriving
  <2>3. \A f : PlaceOf(f) = PlaceIn(committed, f)
    BY DEF PlaceOf, PlaceIn
  <2> QED
    BY <2>2, <2>3 DEF Ordered, ReceivedInCommitOrder
<1> QED
  BY <1>1, <1>2, <1>3, AppInitial, PTL DEF AppSpec
-----------------------------------------------------------------------------
(* Both threads together implement RemoteApp.                              *)

ServerGone == wire[Current].reset \/ wire[Current].server = "closed"

\* The socket in use is open exactly while its coroutines run and no stop was
\* requested; a connection that they gave up, or that was closed by the client
\* before the stop, was lost; and a coroutine returns only from a dead one.
LinkInv ==
    /\ net_stop => pc \in {"join", "done"}
    /\ (wire # <<>> /\ wire[Current].app = "open") <=> (phase = "running" /\ ~net_stop)
    /\ (phase = "running" /\ ~net_stop /\ ~connection_alive) => ServerGone
    /\ (phase = "running" /\ (reader = "returned" \/ writer = "returned")) => ~connection_alive
    /\ (phase \in {"connecting", "backoff"} \/ (phase = "resolve" /\ ~net_stop))
         => wire = <<>> \/ ServerGone

\* An edit of one connection, as the one in use sees it.
LEMMA EditedInPlace ==
    ASSUME WireTypeOK, NEW c \in 1..Len(wire), NEW connection \in Connection,
           wire' = [wire EXCEPT ![c] = connection]
    PROVE  /\ wire # <<>> /\ wire' # <<>> /\ Current' = Current /\ Current \in 1..Len(wire)
           /\ wire'[Current] = IF c = Current THEN connection ELSE wire[Current]
<1>1. /\ WireTypeOK' /\ Len(wire') = Len(wire)
      /\ \A d \in 1..Len(wire) : wire'[d] = IF d = c THEN connection ELSE wire[d]
  BY WireEdited DEF WireTypeOK
<1>2. wire # <<>> /\ wire' # <<>>
  BY <1>1 DEF WireTypeOK
<1>3. Current \in 1..Len(wire)
  BY <1>2, CurrentType
<1> QED
  BY <1>1, <1>2, <1>3 DEF Current

\* The app's end, the server's end and the reset flag of the connection in use.
Ends == [app |-> wire[Current].app, server |-> wire[Current].server, reset |-> wire[Current].reset]

\* What the operations of either end do to those.
LEMMA EndsAfter ==
    ASSUME WireTypeOK, NEW c \in 1..Len(wire)
    PROVE  /\ AppCloses(c) => /\ wire' # <<>>
                              /\ Ends' = IF c = Current THEN [Ends EXCEPT !.app = "closed"] ELSE Ends
           /\ ServerCloses(c) => /\ wire' # <<>>
                                 /\ Ends' = IF c = Current THEN [Ends EXCEPT !.server = "closed"]
                                                           ELSE Ends
           /\ Reset(c) => /\ wire' # <<>>
                          /\ Ends' = IF c = Current THEN [Ends EXCEPT !.reset = TRUE] ELSE Ends
           /\ \A lines \in Seq(Line) : wire' = [wire EXCEPT ![c].to_app = lines]
                                         => wire' # <<>> /\ Ends' = Ends
           /\ \A answers \in Seq(Answer) : wire' = [wire EXCEPT ![c].to_server = answers]
                                             => wire' # <<>> /\ Ends' = Ends
<1>1. wire[c] \in Connection
  BY DEF WireTypeOK
<1>2. ASSUME AppCloses(c)
      PROVE  /\ wire' # <<>>
             /\ Ends' = IF c = Current THEN [Ends EXCEPT !.app = "closed"] ELSE Ends
  <2> DEFINE after == [wire[c] EXCEPT !.app = "closed"]
  <2>1. /\ after \in Connection /\ after.app = "closed"
        /\ after.server = wire[c].server /\ after.reset = wire[c].reset
    BY <1>1 DEF Connection
  <2>2. wire' = [wire EXCEPT ![c] = after]
    BY <1>2 DEF AppCloses
  <2> HIDE DEF after
  <2> QED
    BY <2>1, <2>2, EditedInPlace DEF Ends
<1>3. ASSUME ServerCloses(c)
      PROVE  /\ wire' # <<>>
             /\ Ends' = IF c = Current THEN [Ends EXCEPT !.server = "closed"] ELSE Ends
  <2> DEFINE after == [wire[c] EXCEPT !.server = "closed"]
  <2>1. /\ after \in Connection /\ after.server = "closed"
        /\ after.app = wire[c].app /\ after.reset = wire[c].reset
    BY <1>1 DEF Connection
  <2>2. wire' = [wire EXCEPT ![c] = after]
    BY <1>3 DEF ServerCloses
  <2> HIDE DEF after
  <2> QED
    BY <2>1, <2>2, EditedInPlace DEF Ends
<1>4. ASSUME Reset(c)
      PROVE  /\ wire' # <<>>
             /\ Ends' = IF c = Current THEN [Ends EXCEPT !.reset = TRUE] ELSE Ends
  <2> DEFINE after == [to_app |-> <<>>, to_server |-> <<>>, app |-> wire[c].app,
                       server |-> wire[c].server, reset |-> TRUE]
  <2>1. /\ after \in Connection /\ after.reset = TRUE
        /\ after.app = wire[c].app /\ after.server = wire[c].server
    BY <1>1 DEF Connection
  <2>2. wire' = [wire EXCEPT ![c] = after]
    BY <1>4 DEF Reset
  <2> HIDE DEF after
  <2> QED
    BY <2>1, <2>2, EditedInPlace DEF Ends
<1>5. ASSUME NEW lines \in Seq(Line), wire' = [wire EXCEPT ![c].to_app = lines]
      PROVE  wire' # <<>> /\ Ends' = Ends
  <2> DEFINE after == [wire[c] EXCEPT !.to_app = lines]
  <2>1. /\ after \in Connection /\ after.reset = wire[c].reset
        /\ after.app = wire[c].app /\ after.server = wire[c].server
    BY <1>1 DEF Connection
  <2>2. wire' = [wire EXCEPT ![c] = after]
    BY <1>5
  <2> HIDE DEF after
  <2> QED
    BY <2>1, <2>2, EditedInPlace DEF Ends
<1>6. ASSUME NEW answers \in Seq(Answer), wire' = [wire EXCEPT ![c].to_server = answers]
      PROVE  wire' # <<>> /\ Ends' = Ends
  <2> DEFINE after == [wire[c] EXCEPT !.to_server = answers]
  <2>1. /\ after \in Connection /\ after.reset = wire[c].reset
        /\ after.app = wire[c].app /\ after.server = wire[c].server
    BY <1>1 DEF Connection
  <2>2. wire' = [wire EXCEPT ![c] = after]
    BY <1>6
  <2> HIDE DEF after
  <2> QED
    BY <2>1, <2>2, EditedInPlace DEF Ends
<1> QED
  BY <1>2, <1>3, <1>4, <1>5, <1>6

\* A fresh connection is the one in use from then on.
LEMMA EndsOpened ==
    ASSUME WireTypeOK, NEW app_end \in {"open", "closed"}, Open(app_end)
    PROVE  wire' # <<>> /\ Ends' = [app |-> app_end, server |-> "open", reset |-> FALSE]
<1> DEFINE fresh == [to_app |-> <<>>, to_server |-> <<>>, app |-> app_end,
                     server |-> "open", reset |-> FALSE]
<1>1. fresh \in Connection
  BY DEF Connection
<1>2. wire' = Append(wire, fresh)
  BY DEF Open
<1>3. /\ fresh.app = app_end /\ fresh.server = "open" /\ fresh.reset = FALSE
  OBVIOUS
<1> HIDE DEF fresh
<1>4. Len(wire') = Len(wire) + 1 /\ wire'[Len(wire) + 1] = fresh /\ wire' # <<>>
  BY <1>1, <1>2 DEF WireTypeOK
<1> QED
  BY <1>3, <1>4 DEF Ends, Current

\* The ends of the connection in use are as they were, or further gone.
EndsFade ==
    /\ wire # <<>> <=> wire' # <<>>
    /\ wire # <<>> =>
         /\ Ends'.app = Ends.app
         /\ Ends.server = "closed" => Ends'.server = "closed"
         /\ Ends.reset => Ends'.reset

LEMMA LinkStays ==
    ASSUME LinkInv, EndsFade, UNCHANGED <<phase, net_stop>>,
           net_stop => pc' \in {"join", "done"},
           phase = "running" => /\ connection_alive' = connection_alive \/ ServerGone
                                /\ connection_alive' => connection_alive
                                /\ reader' = "returned" => reader = "returned" \/ ~connection_alive'
                                /\ writer' = "returned" => writer = "returned" \/ ~connection_alive'
    PROVE  LinkInv'
<1> USE DEF LinkInv, EndsFade, Ends, ServerGone
<1>1. wire # <<>> => (ServerGone => ServerGone') /\ wire'[Current'].app = wire[Current].app
  OBVIOUS
<1>2. (phase' = "running" /\ (reader' = "returned" \/ writer' = "returned")) => ~connection_alive'
  OBVIOUS
<1>3. (phase' = "running" /\ ~net_stop' /\ ~connection_alive') => ServerGone'
  OBVIOUS
<1> QED
  BY <1>1, <1>2, <1>3

LEMMA LogicalLink ==
    ASSUME AppInv, LinkInv, LogicalThread
    PROVE  LinkInv'
<1>1. UNCHANGED clientVars
  BY DEF LogicalThread
<1>2. CASE LoopLocalStep /\ UNCHANGED wire
  <2>1. net_stop' = net_stop /\ (net_stop => pc' \in {"join", "done"})
    <3> USE DEF LinkInv, queueVars, netVars, IterationStarts, AfterTick
    <3>1. CASE EnterLoop \/ PreLocal \/ PrePassFrame \/ PreIdle \/ PreExecute
      BY <3>1 DEF EnterLoop, PreLocal, PrePassFrame, PreIdle, PreExecute
    <3>2. CASE TickWindowClosed \/ TickInvalidView \/ TickPaused \/ TickShutsDown
               \/ \E drawn \in {"drawn", "skipped"} : TickPlays(drawn)
      BY <3>2 DEF TickWindowClosed, TickInvalidView, TickPaused, TickShutsDown, TickPlays
    <3>3. CASE PostNoCommand \/ PostAnswer \/ LeaveLoop \/ Finish
      BY <3>3 DEF PostNoCommand, PostAnswer, LeaveLoop, Finish
    <3> QED
      BY <1>2, <3>1, <3>2, <3>3 DEF LoopLocalStep
  <2> QED
    BY <1>1, <1>2, <2>1 DEF LinkInv, ServerGone, clientVars, Current
<1>3. CASE RequestNetStop /\ StopCallback
  <2>1. pc = "unwind" /\ net_stop' /\ pc' = "join" /\ ~net_stop
    BY <1>3 DEF RequestNetStop, LinkInv
  <2>2. CASE phase = "running"
    <3>1. wire # <<>> /\ Current \in 1..Len(wire) /\ AppCloses(Current) /\ WireTypeOK
      BY <1>3, <2>2, CurrentType DEF StopCallback, AppInv, AppTypeOK, ClientInv
    <3>2. wire' # <<>> /\ Ends' = [Ends EXCEPT !.app = "closed"]
      BY <3>1, EndsAfter
    <3>3. wire'[Current'].app = "closed"
      BY <3>2 DEF Ends
    <3> QED
      BY <1>1, <2>1, <2>2, <3>3 DEF LinkInv, clientVars
  <2>3. CASE phase # "running"
    BY <1>1, <1>3, <2>1, <2>3 DEF LinkInv, ServerGone, clientVars, Current, StopCallback
  <2> QED
    BY <2>2, <2>3
<1> QED
  BY <1>2, <1>3 DEF LogicalThread

LEMMA NetworkLink ==
    ASSUME AppInv, LinkInv, NetworkThread
    PROVE  LinkInv'
<1>0. ClientStep /\ pc' = pc
  BY DEF NetworkThread, loopVars
<1>1. net_stop => pc' \in {"join", "done"}
  BY <1>0 DEF LinkInv
<1>2. WireTypeOK /\ (phase = "running" => wire # <<>> /\ Current \in 1..Len(wire))
  BY CurrentType DEF AppInv, AppTypeOK, ClientInv
<1>3. CASE ResolveOk \/ ResolveFails \/ BackoffEnds \/ ConnectFails \/ ThreadReturns
  BY <1>1, <1>3 DEF ResolveOk, ResolveFails, BackoffEnds, ConnectFails, ThreadReturns,
                    coroutineVars, queueVars, LinkInv, ServerGone, Current
<1>4. CASE ConnectOk
  <2> DEFINE end == IF net_stop THEN "closed" ELSE "open"
  <2>1. Open(end) /\ end \in {"open", "closed"}
    BY <1>4 DEF ConnectOk
  <2>2. wire' # <<>> /\ Ends'.app = end
    BY <1>2, <2>1, EndsOpened
  <2>3. wire'[Current'].app = end
    BY <2>2 DEF Ends
  <2>4. /\ phase' = "running" /\ connection_alive' = TRUE /\ reader' = "reading"
        /\ writer' = "timer" /\ net_stop' = net_stop
    BY <1>4 DEF ConnectOk, queueVars
  <2> QED
    BY <1>1, <2>2, <2>3, <2>4 DEF LinkInv, AppInv, AppTypeOK, LoopTypeOK, QueuesTypeOK
<1>5. CASE ConnectAborted
  <2>1. net_stop /\ net_stop' /\ phase' = "exited"
    BY <1>5 DEF ConnectAborted
  <2>2. wire' # <<>> => wire'[Current'].app # "open"
    <3>1. CASE Open("closed")
      <4>1. Ends'.app = "closed"
        BY <1>2, <3>1, EndsOpened
      <4> QED
        BY <4>1 DEF Ends
    <3>2. CASE UNCHANGED wire
      BY <2>1, <3>2 DEF LinkInv, Current
    <3> QED
      BY <1>5, <3>1, <3>2 DEF ConnectAborted
  <2> QED
    BY <1>1, <2>1, <2>2 DEF LinkInv
<1>6. CASE Disconnect
  <2>1. /\ AppCloses(Current) /\ wire # <<>> /\ Current \in 1..Len(wire)
        /\ UNCHANGED <<coroutineVars, net_stop>>
        /\ phase' = IF net_stop THEN "resolve" ELSE "backoff"
        /\ ~connection_alive
        /\ ~net_stop => ServerGone
    BY <1>2, <1>6 DEF Disconnect, queueVars, LinkInv
  <2>2. wire' # <<>> /\ Ends' = [Ends EXCEPT !.app = "closed"]
    BY <1>2, <2>1, EndsAfter
  <2>3. /\ wire'[Current'].app = "closed"
        /\ ServerGone => ServerGone'
    BY <2>2 DEF Ends, ServerGone
  <2> QED
    BY <1>1, <2>1, <2>2, <2>3 DEF LinkInv
<1>7. CASE ReadLine
  <2>1. /\ wire[Current].to_app # <<>> /\ wire' = [wire EXCEPT ![Current].to_app = Tail(@)]
        /\ phase = "running" /\ reader' = IF connection_alive THEN "reading" ELSE "returned"
        /\ UNCHANGED <<phase, connection_alive, writer, net_stop>>
    BY <1>7 DEF ReadLine, stopVars
  <2>2. Tail(wire[Current].to_app) \in Seq(Line)
    BY <1>2, <2>1, CurrentType
  <2>3. wire' # <<>> /\ Ends' = Ends
    BY <1>2, <2>1, <2>2, EndsAfter
  <2>4. EndsFade
    BY <1>2, <2>1, <2>3 DEF EndsFade
  <2> QED
    BY <1>1, <2>1, <2>4, LinkStays
<1>8. CASE ReadFails \/ WriteFails
  <2>1. /\ phase = "running" /\ ~connection_alive'
        /\ UNCHANGED <<phase, net_stop, wire>>
        /\ wire # <<>>
    BY <1>2, <1>8 DEF ReadFails, WriteFails, queueVars
  <2>2. ~net_stop => ServerGone
    BY <1>8, <2>1 DEF ReadFails, WriteFails, LinkInv, ServerGone, AppEndUsable
  <2> QED
    BY <1>1, <2>1, <2>2 DEF LinkInv, ServerGone, Current
<1>9. CASE WriterTimer
  <2>1. /\ phase = "running" /\ WriterContinues(outgoing_queue, settled)
        /\ UNCHANGED <<phase, connection_alive, reader, net_stop, wire>>
    BY <1>9 DEF WriterTimer, stopVars
  <2>2. writer' = "returned" => ~connection_alive
    BY <2>1 DEF WriterContinues
  <2> QED
    BY <1>1, <2>1, <2>2 DEF LinkInv, ServerGone, Current
<1>10. CASE WriteOk
  <2>1. /\ phase = "running" /\ WriterContinues(Tail(pending), Append(settled, [answer |-> Head(pending), conn |-> Current]))
        /\ UNCHANGED <<phase, connection_alive, reader, net_stop>>
        /\ wire' = [wire EXCEPT ![Current].to_server = Append(@, Head(pending))]
        /\ pending # <<>> /\ pending \in Seq(Answer)
    BY <1>10 DEF WriteOk, queueVars, AppInv, AppTypeOK, ClientTypeOK, ClientInv
  <2>2. writer' = "returned" => ~connection_alive
    BY <2>1 DEF WriterContinues
  <2>3. Append(wire[Current].to_server, Head(pending)) \in Seq(Answer)
    BY <1>2, <2>1, CurrentType
  <2>4. wire' # <<>> /\ Ends' = Ends
    BY <1>2, <2>1, <2>3, EndsAfter
  <2>5. EndsFade
    BY <1>2, <2>1, <2>4 DEF EndsFade
  <2> QED
    BY <1>1, <2>1, <2>2, <2>5, LinkStays
<1> QED
  BY <1>0, <1>3, <1>4, <1>5, <1>6, <1>7, <1>8, <1>9, <1>10 DEF ClientStep

LEMMA PeerLink ==
    ASSUME AppInv, LinkInv, NEW c \in 1..Len(wire),
           \/ \E body \in FrameBodies : ServerCommits(c, body)
           \/ ServerHangsUp(c)
           \/ NetworkResets(c)
    PROVE  LinkInv'
<1>1. UNCHANGED <<pc, net_stop, clientVars>>
  BY DEF ServerCommits, ServerHangsUp, NetworkResets, vars, queueVars, loopVars
<1>2. WireTypeOK /\ wire[c] \in Connection /\ wire # <<>>
  BY DEF AppInv, AppTypeOK, WireTypeOK
<1>3. CASE \E body \in FrameBodies : ServerCommits(c, body)
  <2>1. PICK body \in FrameBodies : ServerCommits(c, body)
    BY <1>3
  <2> DEFINE frame == [tag |-> c, id |-> NextId(c), body |-> body]
             line == [parses |-> TRUE, frame |-> frame]
  <2>2. frame \in CommittedFrame
    <3>1. c \in 1..MaxConnections
      BY <1>2, MaxConnectionsAssumption DEF WireTypeOK, AppInv, ClientInv
    <3> QED
      BY <2>1, <3>1, CommittedType DEF ServerCommits, AppInv, AppTypeOK
  <2>3. line \in Line
    BY <2>2 DEF Line
  <2>4. wire' = [wire EXCEPT ![c].to_app = Append(@, line)]
    BY <2>1 DEF ServerCommits
  <2> HIDE DEF frame, line
  <2>5. Append(wire[c].to_app, line) \in Seq(Line)
    BY <1>2, <2>3 DEF Connection
  <2>6. wire' # <<>> /\ Ends' = Ends
    BY <1>2, <2>4, <2>5, EndsAfter
  <2>7. EndsFade
    BY <1>2, <2>6 DEF EndsFade
  <2> QED
    BY <1>1, <2>7, LinkStays DEF clientVars, LinkInv
<1>4. CASE ServerHangsUp(c) \/ NetworkResets(c)
  <2>1. \/ ServerCloses(c)
        \/ Reset(c)
    BY <1>4 DEF ServerHangsUp, NetworkResets
  <2>2. /\ wire' # <<>>
        /\ \/ Ends' = Ends
           \/ Ends' = [Ends EXCEPT !.server = "closed"]
           \/ Ends' = [Ends EXCEPT !.reset = TRUE]
    BY <1>2, <2>1, EndsAfter
  <2>3. EndsFade
    BY <1>2, <2>2 DEF EndsFade, Ends
  <2> QED
    BY <1>1, <2>3, LinkStays DEF clientVars, LinkInv
<1> QED
  BY <1>3, <1>4

LEMMA LinkStep ==
    ASSUME AppInv, LinkInv, [AppNext]_appVars
    PROVE  LinkInv'
<1>1. CASE Terminate \/ AppTerminated \/ UNCHANGED appVars
  <2>1. UNCHANGED <<pc, net_stop, clientVars, wire>>
    BY <1>1 DEF Terminate, signal_terminate, AppTerminated, appVars, vars, queueVars, loopVars
  <2> QED
    BY <2>1 DEF LinkInv, ServerGone, clientVars, Current
<1> QED
  BY <1>1, LogicalLink, NetworkLink, PeerLink DEF AppNext

\* An answer's screenshot result is one that its frame can have.
ShotsFit == \A i \in 1..Len(sent) : sent[i].shot \in App!ShotOf(executed[i])

LEMMA ShotsStep ==
    ASSUME AppInv, OneAnswerPerFrame, ShotsFit, [AppNext]_appVars
    PROVE  ShotsFit'
<1>0. LoopChange /\ LoopTypeOK /\ InHand
  BY AppChange DEF AppInv, AppTypeOK
<1>1. /\ sent \in Seq(Answer) /\ executed \in Seq(Frame) /\ this_frame_command \in Seq(Frame)
      /\ Len(sent) + Len(this_frame_command) = Len(executed)
  BY <1>0 DEF LoopTypeOK, OneAnswerPerFrame, Owed
<1>2. CASE PreExecute
  <2>1. Head(Polled) \in Frame
    BY <1>0, <1>2, PolledType DEF PreExecute
  <2>2. executed' = Append(executed, Head(Polled)) /\ sent' = sent
    BY <1>2 DEF PreExecute
  <2>3. \A i \in 1..Len(sent) : executed'[i] = executed[i]
    BY <1>1, <2>1, <2>2
  <2> QED
    BY <2>2, <2>3 DEF ShotsFit
<1>3. CASE PostAnswer
  <2>1. PICK answer \in Answer : /\ sent' = Append(sent, answer)
                                 /\ answer.shot \in ScreenshotResults(LastExecuted)
    BY <1>0, <1>3, PostCompletes
  <2>2. /\ executed' = executed
        /\ Len(sent) + 1 = Len(executed) /\ Len(sent) \in Nat
    <3>1. Len(this_frame_command) = 1
      BY <1>0, <1>3 DEF PostAnswer, InHand
    <3>2. Len(sent) \in Nat /\ Len(executed) \in Nat
      BY <1>1
    <3> QED
      BY <1>1, <1>3, <3>1, <3>2 DEF PostAnswer
  <2>3. answer.shot \in App!ShotOf(LastExecuted)
    BY <2>1 DEF ScreenshotResults, App!ShotOf
  <2>4. /\ Len(sent') = Len(sent) + 1 /\ sent'[Len(sent) + 1] = answer
        /\ \A i \in 1..Len(sent) : sent'[i] = sent[i]
    BY <1>1, <2>1
  <2>5. ASSUME NEW i \in 1..Len(sent')
        PROVE  sent'[i].shot \in App!ShotOf(executed'[i])
    <3>1. CASE i \in 1..Len(sent)
      BY <2>2, <2>4, <3>1 DEF ShotsFit
    <3>2. CASE i = Len(sent) + 1
      BY <2>2, <2>3, <2>4, <3>2 DEF LastExecuted
    <3> QED
      BY <2>2, <2>4, <3>1, <3>2
  <2> QED
    BY <2>5 DEF ShotsFit
<1>4. CASE UNCHANGED <<executed, sent>>
  BY <1>4 DEF ShotsFit
<1>5. Moves => UNCHANGED <<executed, sent>>
  BY MovesFrame
<1> QED
  BY <1>0, <1>2, <1>3, <1>4, <1>5
     DEF LoopChange, PreIdle, TickPlays, NetDeliver, vars, loopVars, frameVars

\* What became of the frames received, part by part.
SettleInv == AnswersConserved /\ OrderInv /\ OneAnswerPerFrame /\ ShotsFit

\* The end of a sequence, from behind its first m elements.
LEMMA EndOfSeq ==
    ASSUME NEW T, NEW s \in Seq(T), NEW m \in Nat, m <= Len(s)
    PROVE  LET rest == SubSeq(s, m + 1, Len(s)) IN
           /\ rest \in Seq(T) /\ Len(rest) = Len(s) - m
           /\ \A i \in 1..Len(s) - m : rest[i] = s[i + m]
<1>1. \A i \in m + 1..Len(s) : s[i] \in T
  OBVIOUS
<1>2. m + 1 \in Int /\ Len(s) \in Nat /\ Len(s) \in Int /\ Len(s) - (m + 1) + 1 = Len(s) - m
  OBVIOUS
<1> DEFINE rest == SubSeq(s, m + 1, Len(s))
<1>3. /\ rest \in Seq(T)
      /\ Len(rest) = IF m + 1 <= Len(s) THEN Len(s) - (m + 1) + 1 ELSE 0
      /\ \A i \in 1..Len(s) - (m + 1) + 1 : rest[i] = s[m + 1 + i - 1]
  BY <1>1, <1>2, SubSeqProperties
<1> HIDE DEF rest
<1>4. Len(rest) = Len(s) - m
  <2>1. CASE m + 1 <= Len(s)
    BY <1>2, <1>3, <2>1
  <2>2. CASE m = Len(s)
    <3>1. Len(s) \in Nat
      OBVIOUS
    <3>2. ~(m + 1 <= Len(s)) /\ Len(s) - m = 0
      BY <2>2, <3>1
    <3> QED
      BY <1>3, <3>2
  <2>3. m + 1 <= Len(s) \/ m = Len(s)
    <3>1. Len(s) \in Nat
      OBVIOUS
    <3> QED
      BY <3>1
  <2> QED
    BY <2>1, <2>2, <2>3
<1>5. ASSUME NEW i \in 1..Len(s) - m
      PROVE  rest[i] = s[i + m]
  <2>1. m + 1 + i - 1 = i + m
    OBVIOUS
  <2> QED
    BY <1>2, <1>3, <2>1
<1> QED
  BY <1>3, <1>4, <1>5 DEF rest

\* Fewer than all are settled, those that are were first, and the next answer
\* that the writer holds, or takes, is the one of the first frame unsettled.
LEMMA UnsettledFrames ==
    ASSUME AppInv, SettleInv
    PROVE  /\ Len(settled) \in Nat /\ Len(received) \in Nat
           /\ Len(settled) + Len(pending) + Len(outgoing_queue) <= Len(received)
           /\ Unsettled \in Seq(Frame) /\ Len(Unsettled) = Len(received) - Len(settled)
           /\ \A i \in 1..Len(received) - Len(settled) : Unsettled[i] = received[i + Len(settled)]
           /\ pending # <<>> => Head(pending) \in App!AnswersTo(Unsettled[1])
<1>1. /\ settled \in Seq(Fate) /\ pending \in Seq(Answer) /\ outgoing_queue \in Seq(Answer)
      /\ received \in Seq(Frame) /\ executed \in Seq(Frame) /\ command_queue \in Seq(Frame)
      /\ incoming_queue \in Seq(Frame) /\ sent \in Seq(Answer) /\ this_frame_command \in Seq(Frame)
  BY DEF AppInv, AppTypeOK, ClientTypeOK, Fate, LoopTypeOK, QueuesTypeOK
<1>2. /\ AnswersIn(settled) \in Seq(Answer) /\ Len(AnswersIn(settled)) = Len(settled)
      /\ AnswersIn(settled) \o pending \o outgoing_queue = sent
  BY <1>1, AnswersType DEF SettleInv, AnswersConserved, AnswersIn
<1>a. /\ AnswersIn(settled) \o pending \in Seq(Answer)
      /\ Len(AnswersIn(settled) \o pending) = Len(settled) + Len(pending)
      /\ \A i \in 1..Len(pending) : (AnswersIn(settled) \o pending)[Len(settled) + i] = pending[i]
  <2>1. PICK answers \in Seq(Answer) : answers = AnswersIn(settled) /\ Len(answers) = Len(settled)
    BY <1>2
  <2>2. /\ answers \o pending \in Seq(Answer)
        /\ Len(answers \o pending) = Len(answers) + Len(pending)
        /\ \A i \in 1..Len(pending) : (answers \o pending)[Len(answers) + i] = pending[i]
    BY <1>1
  <2> QED
    BY <2>1, <2>2
<1>3. Len(settled) + Len(pending) + Len(outgoing_queue) = Len(sent)
  <2>1. PICK first \in Seq(Answer) : first = AnswersIn(settled) \o pending
    BY <1>a
  <2>2. Len(first) = Len(settled) + Len(pending)
    BY <1>a, <2>1
  <2>3. Len(first \o outgoing_queue) = Len(first) + Len(outgoing_queue)
    BY <1>1
  <2> QED
    BY <1>2, <2>1, <2>2, <2>3
<1>4. Len(sent) <= Len(executed) /\ Len(sent) \in Nat /\ Len(executed) \in Nat
  BY <1>1 DEF SettleInv, OneAnswerPerFrame, Owed
<1>5. /\ Len(executed) <= Len(received)
      /\ \A i \in 1..Len(executed) : received[i] = executed[i]
  <2>1. received = executed \o command_queue \o incoming_queue
    BY DEF SettleInv, OrderInv, FramesInReceiptOrder
  <2>2. PICK first \in Seq(Frame) : /\ first = executed \o command_queue
                                    /\ Len(first) = Len(executed) + Len(command_queue)
                                    /\ \A i \in 1..Len(executed) : first[i] = executed[i]
    <3>1. executed \o command_queue \in Seq(Frame)
      BY <1>1
    <3>2. /\ Len(executed \o command_queue) = Len(executed) + Len(command_queue)
          /\ \A i \in 1..Len(executed) : (executed \o command_queue)[i] = executed[i]
      BY <1>1
    <3> QED
      BY <3>1, <3>2
  <2>3. /\ Len(first \o incoming_queue) = Len(first) + Len(incoming_queue)
        /\ \A i \in 1..Len(first) : (first \o incoming_queue)[i] = first[i]
    BY <1>1
  <2>4. Len(executed) \in Nat /\ Len(command_queue) \in Nat /\ Len(incoming_queue) \in Nat
    BY <1>1
  <2> QED
    BY <2>1, <2>2, <2>3, <2>4
<1>6. /\ Len(settled) \in Nat /\ Len(pending) \in Nat /\ Len(outgoing_queue) \in Nat
      /\ Len(received) \in Nat
  BY <1>1
<1>7. Len(settled) + Len(pending) + Len(outgoing_queue) <= Len(received)
  BY <1>3, <1>4, <1>5, <1>6
<1>8. Len(settled) <= Len(received)
  BY <1>6, <1>7
<1>9. /\ Unsettled \in Seq(Frame) /\ Len(Unsettled) = Len(received) - Len(settled)
      /\ \A i \in 1..Len(received) - Len(settled) : Unsettled[i] = received[i + Len(settled)]
  BY <1>1, <1>6, <1>8, EndOfSeq DEF Unsettled
<1>10. ASSUME pending # <<>>
       PROVE  Head(pending) \in App!AnswersTo(Unsettled[1])
  <2> DEFINE n == Len(settled) + 1
  <2>1. n \in 1..Len(sent) /\ n \in 1..Len(executed) /\ Len(pending) >= 1
    BY <1>1, <1>3, <1>4, <1>6, <1>10
  <2>2. sent[n] = Head(pending)
    <3>1. PICK first \in Seq(Answer) : first = AnswersIn(settled) \o pending
      BY <1>a
    <3>2. Len(first) = Len(settled) + Len(pending) /\ first[n] = pending[1]
      <4>1. 1 \in 1..Len(pending)
        BY <1>6, <2>1
      <4> QED
        BY <1>a, <3>1, <4>1
    <3>3. n \in 1..Len(first)
      BY <1>6, <2>1, <3>2
    <3>4. (first \o outgoing_queue)[n] = first[n]
      BY <1>1, <3>3
    <3> QED
      BY <1>1, <1>2, <3>1, <3>2, <3>4, <1>10
  <2>3. Unsettled[1] = executed[n]
    <3>1. 1 \in 1..Len(received) - Len(settled) /\ 1 + Len(settled) = n
      BY <1>4, <1>5, <1>6, <2>1
    <3> QED
      BY <1>5, <1>9, <2>1, <3>1
  <2>4. /\ NameOf(sent[n]) = NameOf(executed[n])
        /\ sent[n].answered = executed[n].body.cmds \ {"debug_command"}
        /\ sent[n].shot \in App!ShotOf(executed[n])
    BY <2>1 DEF SettleInv, OneAnswerPerFrame, ShotsFit
  <2>5. sent[n] \in Answer
    BY <1>1, <2>1
  <2> HIDE DEF n
  <2>6. sent[n] = [tag |-> executed[n].tag, id |-> executed[n].id,
                   answered |-> executed[n].body.cmds \ {"debug_command"},
                   shot |-> sent[n].shot]
    BY <2>4, <2>5 DEF Answer, NameOf
  <2>7. sent[n] \in App!AnswersTo(executed[n])
    BY <2>4, <2>6 DEF App!AnswersTo
  <2> QED
    BY <2>2, <2>3, <2>7
<1> QED
  BY <1>6, <1>7, <1>9, <1>10

\* A frame received is the last unsettled one, and what is settled is dropped
\* from the front.
LEMMA UnsettledAfter ==
    ASSUME AppInv, SettleInv
    PROVE  /\ \A frame \in Frame : received' = Append(received, frame) /\ settled' = settled
                => Unsettled' = Append(Unsettled, frame)
           /\ \A k \in 0..Len(Unsettled) :
                received' = received /\ Len(settled') = Len(settled) + k
                  => Unsettled' = SubSeq(Unsettled, k + 1, Len(Unsettled))
<1>0. /\ Len(settled) \in Nat /\ Len(received) \in Nat /\ Len(settled) <= Len(received)
      /\ Unsettled \in Seq(Frame) /\ Len(Unsettled) = Len(received) - Len(settled)
      /\ \A i \in 1..Len(received) - Len(settled) : Unsettled[i] = received[i + Len(settled)]
  <2>1. Len(pending) \in Nat /\ Len(outgoing_queue) \in Nat
    BY DEF AppInv, AppTypeOK, ClientTypeOK, LoopTypeOK, QueuesTypeOK
  <2> QED
    BY <2>1, UnsettledFrames
<1>1. received \in Seq(Frame)
  BY DEF AppInv, AppTypeOK, LoopTypeOK, QueuesTypeOK
<1>2. ASSUME NEW frame \in Frame, received' = Append(received, frame), settled' = settled
      PROVE  Unsettled' = Append(Unsettled, frame)
  <2> DEFINE longer == Append(received, frame)
             left == SubSeq(longer, Len(settled) + 1, Len(longer))
             right == Append(Unsettled, frame)
  <2>1. /\ longer \in Seq(Frame) /\ Len(longer) = Len(received) + 1
        /\ \A i \in 1..Len(received) : longer[i] = received[i]
        /\ longer[Len(received) + 1] = frame
    BY <1>1
  <2>2. Unsettled' = left
    BY <1>2 DEF Unsettled
  <2> HIDE DEF longer
  <2>3. /\ left \in Seq(Frame) /\ Len(left) = Len(longer) - Len(settled)
        /\ \A i \in 1..Len(longer) - Len(settled) : left[i] = longer[i + Len(settled)]
    BY <1>0, <2>1, EndOfSeq
  <2>4. /\ right \in Seq(Frame) /\ Len(right) = Len(Unsettled) + 1
        /\ \A i \in 1..Len(Unsettled) : right[i] = Unsettled[i]
        /\ right[Len(Unsettled) + 1] = frame
    BY <1>0
  <2> HIDE DEF left, right
  <2>5. ASSUME NEW i \in 1..Len(left)
        PROVE  left[i] = right[i]
    <3>1. left[i] = longer[i + Len(settled)] /\ i \in 1..Len(Unsettled) + 1
      BY <1>0, <2>1, <2>3
    <3>2. CASE i = Len(Unsettled) + 1
      <4>1. i + Len(settled) = Len(received) + 1
        BY <1>0, <3>2
      <4> QED
        BY <2>1, <2>4, <3>1, <3>2, <4>1
    <3>3. CASE i \in 1..Len(Unsettled)
      <4>1. i + Len(settled) \in 1..Len(received) /\ i \in 1..Len(received) - Len(settled)
        BY <1>0, <3>3
      <4> QED
        BY <1>0, <2>1, <2>4, <3>1, <3>3, <4>1
    <3>4. i = Len(Unsettled) + 1 \/ i \in 1..Len(Unsettled)
      BY <1>0, <3>1
    <3> QED
      BY <3>2, <3>3, <3>4
  <2>6. Len(left) = Len(right)
    BY <1>0, <2>1, <2>3, <2>4
  <2>7. left = right
    BY <2>3, <2>4, <2>5, <2>6, SeqEqual
  <2> QED
    BY <2>2, <2>7 DEF right
<1>3. ASSUME NEW k \in 0..Len(Unsettled), received' = received, Len(settled') = Len(settled) + k
      PROVE  Unsettled' = SubSeq(Unsettled, k + 1, Len(Unsettled))
  <2> DEFINE m == Len(settled) + k
             left == SubSeq(received, m + 1, Len(received))
             right == SubSeq(Unsettled, k + 1, Len(Unsettled))
  <2>1. m \in Nat /\ m <= Len(received) /\ k \in Nat /\ k <= Len(Unsettled)
    BY <1>0
  <2>2. Unsettled' = left
    BY <1>3 DEF Unsettled
  <2>3. m = Len(settled) + k
    OBVIOUS
  <2> HIDE DEF m
  <2>4. /\ left \in Seq(Frame) /\ Len(left) = Len(received) - m
        /\ \A i \in 1..Len(received) - m : left[i] = received[i + m]
    BY <1>1, <2>1, EndOfSeq
  <2>5. /\ right \in Seq(Frame) /\ Len(right) = Len(Unsettled) - k
        /\ \A i \in 1..Len(Unsettled) - k : right[i] = Unsettled[i + k]
    BY <1>0, <2>1, EndOfSeq
  <2> HIDE DEF left, right
  <2>6. ASSUME NEW i \in 1..Len(left)
        PROVE  left[i] = right[i]
    <3>1. /\ i \in 1..Len(received) - m /\ i \in 1..Len(Unsettled) - k
          /\ i + k \in 1..Len(received) - Len(settled)
          /\ i + m = i + k + Len(settled)
      BY <1>0, <2>1, <2>3, <2>4
    <3>2. left[i] = received[i + m] /\ right[i] = Unsettled[i + k]
      BY <2>4, <2>5, <3>1
    <3>3. Unsettled[i + k] = received[i + k + Len(settled)]
      BY <1>0, <3>1
    <3> QED
      BY <3>1, <3>2, <3>3
  <2>7. Len(left) = Len(right)
    BY <1>0, <2>1, <2>3, <2>4, <2>5
  <2>8. left = right
    BY <2>4, <2>5, <2>6, <2>7, SeqEqual
  <2> QED
    BY <2>2, <2>8 DEF right
<1> QED
  BY <1>2, <1>3

RemoteStep == [App!RemoteAppNext]_(App!remoteAppVars)

LEMMA Stutters ==
    ASSUME UNCHANGED <<wire, net_stop>>, net_stop \/ UNCHANGED <<received, settled>>
    PROVE  RemoteStep
  BY DEF RemoteStep, App!remoteAppVars, Unsettled

\* What RemoteApp calls connected, and lost.
LEMMA Mapped ==
    ASSUME AppInv, LinkInv
    PROVE  /\ App!Current = Current
           /\ App!AppConnected <=> (phase = "running" /\ ~net_stop)
           /\ App!ConnectionLost <=> ServerGone
           /\ (Len(wire) > 0) <=> wire # <<>>
           /\ \A end : App!Open(end) <=> Open(end)
           /\ \A c : App!AppCloses(c) <=> AppCloses(c)
           /\ \A line : App!command_frame_from_json(line) = command_frame_from_json(line)
<1>1. (Len(wire) > 0) <=> wire # <<>>
  BY DEF AppInv, AppTypeOK, WireTypeOK
<1>2. App!Current = Current
  BY DEF App!Current, Current
<1>3. App!AppConnected <=> (phase = "running" /\ ~net_stop)
  BY <1>1, <1>2 DEF App!AppConnected, LinkInv
<1>4. App!ConnectionLost <=> ServerGone
  BY <1>2 DEF App!ConnectionLost, ServerGone
<1>5. \A end : App!Open(end) <=> Open(end)
  BY DEF App!Open, Open
<1>6. \A c : App!AppCloses(c) <=> AppCloses(c)
  BY DEF App!AppCloses, AppCloses
<1>7. \A line : App!command_frame_from_json(line) = command_frame_from_json(line)
  BY DEF App!command_frame_from_json, command_frame_from_json, App!EmptyFrame, EmptyFrame
<1> QED
  BY <1>1, <1>2, <1>3, <1>4, <1>5, <1>6, <1>7

\* Answers given up with the connection, and nothing else.
LEMMA GivesUp ==
    ASSUME AppInv, LinkInv, SettleInv, phase = "running",
           UNCHANGED <<wire, net_stop, received>>,
           ServerGone \/ net_stop \/ settled' = settled,
           NEW k \in Nat, k <= Len(pending) + Len(outgoing_queue),
           Len(settled') = Len(settled) + k
    PROVE  RemoteStep
<1>1. CASE net_stop \/ settled' = settled
  BY <1>1, Stutters
<1>2. CASE ~net_stop /\ settled' # settled /\ ServerGone
  <2>1. k \in 0..Len(Unsettled)
    <3>1. /\ Len(settled) \in Nat /\ Len(received) \in Nat
          /\ Len(settled) + Len(pending) + Len(outgoing_queue) <= Len(received)
          /\ Len(Unsettled) = Len(received) - Len(settled)
          /\ Len(pending) \in Nat /\ Len(outgoing_queue) \in Nat
      BY UnsettledFrames DEF AppInv, AppTypeOK, ClientTypeOK, LoopTypeOK, QueuesTypeOK
    <3> QED
      BY <3>1
  <2>2. Unsettled' = SubSeq(Unsettled, k + 1, Len(Unsettled))
    BY <2>1, UnsettledAfter
  <2>3. CASE k = 0
    <3>1. Unsettled' = Unsettled
      <4>1. Unsettled \in Seq(Frame) /\ 0 \in Nat /\ 0 <= Len(Unsettled)
        BY UnsettledFrames
      <4>2. LET rest == SubSeq(Unsettled, 0 + 1, Len(Unsettled)) IN
            /\ rest \in Seq(Frame) /\ Len(rest) = Len(Unsettled) - 0
            /\ \A i \in 1..Len(Unsettled) - 0 : rest[i] = Unsettled[i + 0]
        BY <4>1, EndOfSeq
      <4>3. /\ Unsettled' = SubSeq(Unsettled, 0 + 1, Len(Unsettled))
            /\ Len(Unsettled) - 0 = Len(Unsettled)
            /\ \A i \in 1..Len(Unsettled) : i + 0 = i
        BY <2>2, <2>3, <4>1
      <4>4. /\ Unsettled' \in Seq(Frame) /\ Len(Unsettled') = Len(Unsettled)
            /\ \A i \in 1..Len(Unsettled') : Unsettled'[i] = Unsettled[i]
        BY <4>2, <4>3
      <4> QED
        BY <4>1, <4>4, SeqEqual
    <3> QED
      BY <3>1 DEF RemoteStep, App!remoteAppVars
  <2>4. CASE k # 0
    <3>1. k \in 1..Len(Unsettled)
      BY <2>1, <2>4
    <3>2. App!AppLoses
      BY <1>2, <2>2, <3>1, Mapped DEF App!AppLoses, App!Without
    <3> QED
      BY <3>2 DEF RemoteStep, App!RemoteAppNext, App!RemoteAppStep
  <2> QED
    BY <2>3, <2>4
<1> QED
  BY <1>1, <1>2

\* What the loop conditions of the writer settle: nothing while the connection is
\* alive, else all that is left.
LEMMA WriterSettles ==
    ASSUME NEW rest \in Seq(Answer), NEW decided \in Seq(Fate), WriterContinues(rest, decided)
    PROVE  Len(settled') = Len(decided) + (IF connection_alive THEN 0 ELSE Len(rest))
<1>1. CASE connection_alive
  BY <1>1, WriterConserves
<1>2. CASE ~connection_alive
  <2>1. PICK lost \in Seq(Fate) : lost = Lost(rest) /\ Len(lost) = Len(rest)
    BY LostType
  <2>2. settled' = decided \o lost
    BY <1>2, <2>1 DEF WriterContinues
  <2>3. Len(decided \o lost) = Len(decided) + Len(lost)
    OBVIOUS
  <2> QED
    BY <1>2, <2>1, <2>2, <2>3
<1> QED
  BY <1>1, <1>2

LEMMA LogicalRefines ==
    ASSUME AppInv, LinkInv, LogicalThread
    PROVE  RemoteStep
<1>1. received' = received /\ settled' = settled
  BY LoopLeavesNetwork DEF LogicalThread, clientVars
<1>2. CASE LoopLocalStep /\ UNCHANGED wire
  <2>1. net_stop' = net_stop
    <3> USE DEF queueVars, netVars
    <3>1. CASE EnterLoop \/ PreLocal \/ PrePassFrame \/ PreIdle \/ PreExecute
      BY <3>1 DEF EnterLoop, PreLocal, PrePassFrame, PreIdle, PreExecute
    <3>2. CASE TickWindowClosed \/ TickInvalidView \/ TickPaused \/ TickShutsDown
               \/ \E drawn \in {"drawn", "skipped"} : TickPlays(drawn)
      BY <3>2 DEF TickWindowClosed, TickInvalidView, TickPaused, TickShutsDown, TickPlays
    <3>3. CASE PostNoCommand \/ PostAnswer \/ LeaveLoop \/ Finish
      BY <3>3 DEF PostNoCommand, PostAnswer, LeaveLoop, Finish
    <3> QED
      BY <1>2, <3>1, <3>2, <3>3 DEF LoopLocalStep
  <2> QED
    BY <1>1, <1>2, <2>1, Stutters
<1>3. CASE RequestNetStop /\ StopCallback
  <2>1. ~net_stop /\ net_stop'
    BY <1>3 DEF RequestNetStop, LinkInv
  <2>2. App!ProcessGone
    BY <1>3, <2>1, Mapped DEF App!ProcessGone, StopCallback
  <2>3. App!AppExits
    BY <2>1, <2>2 DEF App!AppExits
  <2> QED
    BY <2>3 DEF RemoteStep, App!RemoteAppNext, App!RemoteAppStep
<1> QED
  BY <1>2, <1>3 DEF LogicalThread

LEMMA NetworkRefines ==
    ASSUME AppInv, LinkInv, SettleInv, NetworkThread
    PROVE  RemoteStep
<1>0. ClientStep /\ net_stop' = net_stop
  <2>1. ClientStep
    BY DEF NetworkThread
  <2> QED
    BY <2>1 DEF ClientStep, ResolveOk, ResolveFails, BackoffEnds, ConnectOk, ConnectFails,
                ConnectAborted, Disconnect, ThreadReturns, ReadLine, ReadFails, WriterTimer,
                WriteOk, WriteFails, queueVars, stopVars
<1>1. WireTypeOK /\ (phase = "running" => wire # <<>> /\ Current \in 1..Len(wire))
  BY CurrentType DEF AppInv, AppTypeOK, ClientInv
<1>2. CASE ResolveOk \/ ResolveFails \/ BackoffEnds \/ ConnectFails \/ ThreadReturns \/ ReadFails
  <2>1. UNCHANGED <<wire, received, settled>>
    BY <1>2 DEF ResolveOk, ResolveFails, BackoffEnds, ConnectFails, ThreadReturns, ReadFails,
                coroutineVars, queueVars
  <2> QED
    BY <1>0, <2>1, Stutters
<1>3. CASE ConnectOk \/ ConnectAborted
  <2>1. /\ phase = "connecting" /\ UNCHANGED <<received, settled>>
        /\ \/ UNCHANGED wire
           \/ net_stop /\ Open("closed")
           \/ ~net_stop /\ Open("open")
    BY <1>3 DEF ConnectOk, ConnectAborted, coroutineVars, queueVars
  <2>2. ~App!AppConnected /\ (Len(wire) > 0 => App!ConnectionLost)
    BY <2>1, Mapped DEF LinkInv
  <2>3. CASE UNCHANGED wire
    BY <1>0, <2>1, <2>3, Stutters
  <2>4. CASE net_stop /\ Open("closed")
    <3>1. App!ExitedConnects
      BY <1>0, <2>2, <2>4, Mapped DEF App!ExitedConnects
    <3> QED
      BY <3>1 DEF RemoteStep, App!RemoteAppNext, App!RemoteAppStep
  <2>5. CASE ~net_stop /\ Open("open")
    <3>1. App!AppConnects
      BY <1>0, <2>1, <2>2, <2>5, Mapped DEF App!AppConnects, Unsettled
    <3> QED
      BY <3>1 DEF RemoteStep, App!RemoteAppNext, App!RemoteAppStep
  <2> QED
    BY <2>1, <2>3, <2>4, <2>5
<1>4. CASE Disconnect
  <2>1. /\ phase = "running" /\ AppCloses(Current) /\ UNCHANGED <<received, settled>>
        /\ ~connection_alive
    BY <1>4 DEF Disconnect, coroutineVars, queueVars, LinkInv
  <2>2. CASE net_stop
    <3>0. wire[Current] \in Connection /\ wire[Current].app # "open"
      BY <1>1, <2>1, <2>2, CurrentType DEF LinkInv
    <3>1. wire[Current].app = "closed" /\ wire[Current] \in Connection
      BY <3>0 DEF Connection
    <3>2. [wire[Current] EXCEPT !.app = "closed"] = wire[Current]
      BY <3>1 DEF Connection
    <3>3. UNCHANGED wire
      BY <1>1, <2>1, <3>2 DEF AppCloses, WireTypeOK
    <3> QED
      BY <1>0, <2>1, <3>3, Stutters
  <2>3. CASE ~net_stop
    <3>1. App!AppDisconnects
      BY <1>0, <2>1, <2>3, Mapped DEF App!AppDisconnects, LinkInv, Unsettled
    <3> QED
      BY <3>1 DEF RemoteStep, App!RemoteAppNext, App!RemoteAppStep
  <2> QED
    BY <2>2, <2>3
<1>5. CASE ReadLine
  <2> DEFINE frame == command_frame_from_json(Head(wire[Current].to_app))
  <2>1. /\ phase = "running" /\ wire # <<>> /\ wire[Current].to_app # <<>>
        /\ wire' = [wire EXCEPT ![Current].to_app = Tail(@)]
        /\ received' = Append(received, frame) /\ settled' = settled
    BY <1>1, <1>5 DEF ReadLine, PushIncoming
  <2>2. CASE net_stop
    <3>1. App!ExitedReads
      BY <1>0, <2>1, <2>2, Mapped DEF App!ExitedReads
    <3> QED
      BY <3>1 DEF RemoteStep, App!RemoteAppNext, App!RemoteAppStep
  <2>3. CASE ~net_stop
    <3>1. frame \in Frame
      <4>1. Head(wire[Current].to_app) \in Line
        BY <1>1, <2>1, CurrentType
      <4> QED
        BY <4>1, ParsedFrame
    <3>2. Unsettled' = Append(Unsettled, frame)
      BY <2>1, <3>1, UnsettledAfter
    <3>3. App!AppReads
      BY <1>0, <2>1, <2>3, <3>2, Mapped DEF App!AppReads
    <3> QED
      BY <3>3 DEF RemoteStep, App!RemoteAppNext, App!RemoteAppStep
  <2> QED
    BY <2>2, <2>3
<1>6. settled \in Seq(Fate) /\ pending \in Seq(Answer) /\ outgoing_queue \in Seq(Answer)
  BY DEF AppInv, AppTypeOK, ClientTypeOK, Fate, LoopTypeOK, QueuesTypeOK
<1>7. CASE WriterTimer
  <2>1. /\ phase = "running" /\ WriterContinues(outgoing_queue, settled)
        /\ UNCHANGED <<wire, received>>
    BY <1>7 DEF WriterTimer, stopVars
  <2>2. CASE connection_alive
    <3>1. settled' = settled
      BY <1>6, <2>1, <2>2, WriterConserves
    <3> QED
      BY <1>0, <2>1, <3>1, Stutters
  <2>3. CASE ~connection_alive
    <3>1. Len(settled') = Len(settled) + Len(outgoing_queue)
      BY <1>6, <2>1, <2>3, WriterSettles
    <3>2. Len(outgoing_queue) \in Nat /\ Len(outgoing_queue) <= Len(pending) + Len(outgoing_queue)
      BY <1>6
    <3>3. ServerGone \/ net_stop
      BY <2>1, <2>3 DEF LinkInv
    <3> QED
      BY <1>0, <2>1, <3>1, <3>2, <3>3, GivesUp
  <2> QED
    BY <2>2, <2>3
<1>8. CASE WriteFails
  <2>1. /\ phase = "running" /\ settled' = settled \o Lost(pending)
        /\ UNCHANGED <<wire, received>>
        /\ ~AppEndUsable(Current) \/ wire[Current].server = "closed"
    BY <1>8 DEF WriteFails, queueVars
  <2>2. Len(settled') = Len(settled) + Len(pending)
    <3>1. PICK lost \in Seq(Fate) : lost = Lost(pending) /\ Len(lost) = Len(pending)
      BY <1>6, LostType
    <3>2. Len(settled \o lost) = Len(settled) + Len(lost)
      BY <1>6
    <3> QED
      BY <2>1, <3>1, <3>2
  <2>3. Len(pending) \in Nat /\ Len(pending) <= Len(pending) + Len(outgoing_queue)
    BY <1>6
  <2>4. ServerGone \/ net_stop
    BY <2>1 DEF LinkInv, AppEndUsable, ServerGone
  <2> QED
    BY <1>0, <2>1, <2>2, <2>3, <2>4, GivesUp
<1>9. CASE WriteOk
  <2> DEFINE fate == [answer |-> Head(pending), conn |-> Current]
             k == 1 + (IF connection_alive THEN 0 ELSE Len(Tail(pending)))
  <2>1. /\ phase = "running" /\ writer = "writing" /\ AppEndUsable(Current) /\ pending # <<>>
        /\ wire' = [wire EXCEPT ![Current].to_server = Append(@, Head(pending))]
        /\ WriterContinues(Tail(pending), Append(settled, fate))
        /\ received' = received
    BY <1>9 DEF WriteOk, queueVars, AppInv, ClientInv
  <2>2. ~net_stop /\ ~wire[Current].reset
    BY <1>1, <2>1 DEF LinkInv, AppEndUsable
  <2>3. /\ Head(pending) \in Answer /\ Tail(pending) \in Seq(Answer)
        /\ Len(Tail(pending)) = Len(pending) - 1 /\ Len(pending) \in Nat /\ Len(pending) >= 1
    BY <1>6, <2>1
  <2>4. Append(settled, fate) \in Seq(Fate) /\ Len(Append(settled, fate)) = Len(settled) + 1
    <3>1. Current \in 0..MaxConnections
      BY <1>1, <2>1, MaxConnectionsAssumption DEF AppInv, ClientInv
    <3>2. fate \in Fate
      BY <2>3, <3>1 DEF Fate
    <3> QED
      BY <1>6, <3>2
  <2> HIDE DEF fate
  <2>5. Len(settled') = Len(settled) + k /\ k \in 1..Len(pending)
    <3>1. Len(settled') = Len(settled) + 1 + (IF connection_alive THEN 0 ELSE Len(Tail(pending)))
      BY <2>1, <2>3, <2>4, WriterSettles
    <3>2. Len(settled) \in Nat
      BY <1>6
    <3>3. CASE connection_alive
      BY <2>3, <3>1, <3>2, <3>3
    <3>4. CASE ~connection_alive
      BY <2>3, <3>1, <3>2, <3>4
    <3> QED
      BY <3>3, <3>4
  <2>6. k \in 1..Len(Unsettled) /\ k \in 0..Len(Unsettled)
    <3>1. /\ Len(settled) \in Nat /\ Len(received) \in Nat
          /\ Len(settled) + Len(pending) + Len(outgoing_queue) <= Len(received)
          /\ Len(Unsettled) = Len(received) - Len(settled)
          /\ Len(outgoing_queue) \in Nat
      BY <1>6, UnsettledFrames
    <3> QED
      BY <2>3, <2>5, <3>1
  <2>7. k > 1 => wire[Current].server = "closed"
    BY <2>1, <2>2 DEF LinkInv, ServerGone
  <2> HIDE DEF k
  <2>8. Unsettled' = SubSeq(Unsettled, k + 1, Len(Unsettled))
    BY <2>1, <2>5, <2>6, UnsettledAfter
  <2>9. Unsettled # <<>> /\ Head(Unsettled) = Unsettled[1]
    BY <2>6, UnsettledFrames
  <2>10. Head(pending) \in App!AnswersTo(Head(Unsettled))
    BY <2>1, <2>9, UnsettledFrames
  <2>11. App!AppAnswers
    BY <1>0, <2>1, <2>2, <2>6, <2>7, <2>8, <2>9, <2>10, Mapped DEF App!AppAnswers, App!Without
  <2> QED
    BY <2>11 DEF RemoteStep, App!RemoteAppNext, App!RemoteAppStep
<1> QED
  BY <1>0, <1>2, <1>3, <1>4, <1>5, <1>7, <1>8, <1>9 DEF ClientStep

LEMMA PeerRefines ==
    ASSUME AppInv, LinkInv, NEW c \in 1..Len(wire),
           \/ \E body \in FrameBodies : ServerCommits(c, body)
           \/ ServerHangsUp(c)
           \/ NetworkResets(c)
    PROVE  RemoteStep
<1>1. WireTypeOK /\ wire[c] \in Connection
  BY DEF AppInv, AppTypeOK, WireTypeOK
<1>2. UNCHANGED <<net_stop, received, settled>>
  BY DEF ServerCommits, ServerHangsUp, NetworkResets, vars, queueVars, clientVars
<1>3. SubSeq(wire[c].to_app, 1, Len(wire[c].to_app)) = wire[c].to_app
  <2>1. wire[c].to_app \in Seq(Line)
    BY <1>1 DEF Connection
  <2> QED
    BY <2>1
<1>4. /\ SubSeq(wire[c].to_server, 0 + 1, Len(wire[c].to_server)) = wire[c].to_server
      /\ 0 \in 0..Len(wire[c].to_server)
  <2>1. wire[c].to_server \in Seq(Answer)
    BY <1>1 DEF Connection
  <2>2. SubSeq(wire[c].to_server, 1, Len(wire[c].to_server)) = wire[c].to_server
    BY <2>1
  <2>3. 0 + 1 = 1
    OBVIOUS
  <2> QED
    BY <2>1, <2>2, <2>3
<1>5. ASSUME NEW after, after \in Connection, wire' = [wire EXCEPT ![c] = after],
             App!PeerMay(wire[c], after)
      PROVE  RemoteStep
  <2>1. wire'[c] = after
    BY <1>1, <1>5 DEF WireTypeOK
  <2>2. App!Peer(c)
    BY <1>2, <1>5, <2>1 DEF App!Peer, Unsettled
  <2> QED
    BY <2>2 DEF RemoteStep, App!RemoteAppNext
<1>6. CASE \E body \in FrameBodies : ServerCommits(c, body)
  <2>1. PICK body \in FrameBodies : ServerCommits(c, body)
    BY <1>6
  <2> DEFINE frame == [tag |-> c, id |-> NextId(c), body |-> body]
             line == [parses |-> TRUE, frame |-> frame]
             lines == Append(wire[c].to_app, line)
             after == [wire[c] EXCEPT !.to_app = lines]
  <2>2. line \in Line
    <3>1. c \in 1..MaxConnections
      BY <1>1, MaxConnectionsAssumption DEF WireTypeOK, AppInv, ClientInv
    <3>2. frame \in CommittedFrame
      BY <2>1, <3>1, CommittedType DEF ServerCommits, AppInv, AppTypeOK
    <3> QED
      BY <3>2 DEF Line
  <2>3. wire' = [wire EXCEPT ![c].to_app = lines] /\ wire[c].server = "open" /\ ~wire[c].reset
    BY <2>1 DEF ServerCommits
  <2> HIDE DEF line
  <2>4. /\ lines \in Seq(Line) /\ Len(wire[c].to_app) <= Len(lines)
        /\ SubSeq(lines, 1, Len(wire[c].to_app)) = wire[c].to_app
    <3>1. wire[c].to_app \in Seq(Line)
      BY <1>1 DEF Connection
    <3> QED
      BY <2>2, <3>1
  <2> HIDE DEF lines
  <2>5. /\ after \in Connection /\ after.to_app = lines /\ after.to_server = wire[c].to_server
        /\ after.app = wire[c].app /\ after.server = wire[c].server /\ after.reset = wire[c].reset
    BY <1>1, <2>4 DEF Connection
  <2>6. wire' = [wire EXCEPT ![c] = after]
    BY <2>3
  <2> HIDE DEF after
  <2>7. App!PeerMay(wire[c], after)
    BY <1>4, <2>3, <2>4, <2>5 DEF App!PeerMay
  <2> QED
    BY <1>5, <2>5, <2>6, <2>7
<1>7. CASE ServerHangsUp(c)
  <2> DEFINE after == [wire[c] EXCEPT !.server = "closed"]
  <2>1. /\ after \in Connection /\ after.to_app = wire[c].to_app
        /\ after.to_server = wire[c].to_server
        /\ after.app = wire[c].app /\ after.server = "closed" /\ after.reset = wire[c].reset
    BY <1>1 DEF Connection
  <2>2. wire' = [wire EXCEPT ![c] = after]
    BY <1>7 DEF ServerHangsUp, ServerCloses
  <2> HIDE DEF after
  <2>3. Len(wire[c].to_app) <= Len(wire[c].to_app)
    <3>1. Len(wire[c].to_app) \in Nat
      BY <1>1 DEF Connection
    <3> QED
      BY <3>1
  <2>4. App!PeerMay(wire[c], after)
    BY <1>3, <1>4, <2>1, <2>3 DEF App!PeerMay
  <2> QED
    BY <1>5, <2>1, <2>2, <2>4
<1>8. CASE NetworkResets(c)
  <2> DEFINE after == [to_app |-> <<>>, to_server |-> <<>>, app |-> wire[c].app,
                       server |-> wire[c].server, reset |-> TRUE]
  <2>1. /\ after \in Connection /\ after.to_app = <<>> /\ after.to_server = <<>>
        /\ after.app = wire[c].app /\ after.server = wire[c].server /\ after.reset
    BY <1>1 DEF Connection
  <2>2. wire' = [wire EXCEPT ![c] = after]
    BY <1>8 DEF NetworkResets, Reset
  <2> HIDE DEF after
  <2>3. App!PeerMay(wire[c], after)
    BY <2>1 DEF App!PeerMay
  <2> QED
    BY <1>5, <2>1, <2>2, <2>3
<1> QED
  BY <1>6, <1>7, <1>8

LEMMA RemoteStepTaken ==
    ASSUME AppInv, LinkInv, SettleInv, [AppNext]_appVars
    PROVE  RemoteStep
<1>1. CASE Terminate \/ AppTerminated \/ UNCHANGED appVars
  <2>1. UNCHANGED <<wire, net_stop, received, settled>>
    BY <1>1 DEF Terminate, signal_terminate, AppTerminated, appVars, vars, queueVars, clientVars
  <2> QED
    BY <2>1, Stutters
<1> QED
  BY <1>1, LogicalRefines, NetworkRefines, PeerRefines DEF AppNext

\* A peer and a network that do to a connection whatever RemoteApp lets them do:
\* lines of any order and number, also garbled ones, answers taken or left.
PeerDoes(c) ==
    /\ App!PeerMay(wire[c], wire'[c])
    /\ wire'[c] \in Connection
    /\ wire' = [wire EXCEPT ![c] = wire'[c]]
    /\ UNCHANGED <<vars, clientVars, committed, resets>>

\* AppSpec with such a peer in place of its own.
AnyPeerNext ==
    \/ LogicalThread
    \/ NetworkThread
    \/ Terminate
    \/ \E c \in 1..Len(wire) : PeerDoes(c)
    \/ AppTerminated

AnyPeerSpec == AppInit /\ [][AnyPeerNext]_appVars

\* Such a peer disturbs no invariant, and is RemoteApp's.
LEMMA AnyPeerStep ==
    ASSUME AppInv, LinkInv, SettleInv, NEW c \in 1..Len(wire), PeerDoes(c)
    PROVE  AppInv' /\ LinkInv' /\ SettleInv' /\ RemoteStep
<1> DEFINE after == wire'[c]
<1>1. /\ after \in Connection /\ wire' = [wire EXCEPT ![c] = after]
      /\ App!PeerMay(wire[c], after)
      /\ UNCHANGED <<vars, clientVars, committed, resets>>
  BY DEF PeerDoes
<1> HIDE DEF after
<1>2. WireTypeOK /\ wire[c] \in Connection
  BY DEF AppInv, AppTypeOK, WireTypeOK
<1>3. WireTypeOK' /\ Len(wire') = Len(wire)
  BY <1>1, <1>2, WireEdited
<1>4. AppInv'
  <2>1. LoopTypeOK' /\ InHand'
    <3>1. LoopChange
      BY <1>1 DEF LoopChange
    <3> QED
      BY <3>1, TypeStep, InHandStep DEF AppInv, AppTypeOK
  <2>2. wire # <<>> => wire' # <<>>
    BY <1>2, <1>3 DEF WireTypeOK
  <2>3. ClientTypeOK' /\ ClientInv'
    BY <1>1, <1>3, <2>2 DEF AppInv, AppTypeOK, ClientTypeOK, ClientInv, clientVars, vars, queueVars
  <2> QED
    BY <1>1, <1>3, <2>1, <2>3 DEF AppInv, AppTypeOK
<1>5. LinkInv'
  <2>1. /\ after.app = wire[c].app
        /\ wire[c].server = "closed" => after.server = "closed"
        /\ wire[c].reset => after.reset
    BY <1>1 DEF App!PeerMay
  <2>2. /\ wire # <<>> /\ wire' # <<>> /\ Current' = Current
        /\ wire'[Current] = IF c = Current THEN after ELSE wire[Current]
    BY <1>1, <1>2, EditedInPlace
  <2>3. EndsFade
    BY <2>1, <2>2 DEF EndsFade, Ends
  <2>4. UNCHANGED <<pc, net_stop, clientVars>>
    BY <1>1 DEF vars, queueVars, loopVars
  <2> QED
    BY <2>3, <2>4, LinkStays DEF clientVars, LinkInv
<1>6. SettleInv'
  <2>1. UNCHANGED <<settled, pending, outgoing_queue, incoming_queue, sent, received, executed,
                    command_queue, this_frame_command, pc>>
    BY <1>1 DEF vars, queueVars, loopVars, frameVars, clientVars
  <2>2. OrderInv' /\ OneAnswerPerFrame'
    <3>1. LoopChange
      BY <1>1 DEF LoopChange
    <3> QED
      BY <3>1, OrderStep, AnswerStep DEF SettleInv, AppInv, AppTypeOK
  <2> QED
    BY <2>1, <2>2 DEF SettleInv, AnswersConserved, ShotsFit
<1>7. RemoteStep
  <2>1. UNCHANGED <<net_stop, received, settled>>
    BY <1>1 DEF vars, queueVars, clientVars
  <2>2. App!Peer(c)
    BY <1>1, <2>1 DEF App!Peer, Unsettled, after
  <2> QED
    BY <2>2 DEF RemoteStep, App!RemoteAppNext
<1> QED
  BY <1>4, <1>5, <1>6, <1>7

LEMMA OwnStep ==
    ASSUME AppInv, LinkInv, SettleInv, [AppNext]_appVars
    PROVE  AppInv' /\ LinkInv' /\ SettleInv' /\ RemoteStep
<1>1. LoopChange /\ LoopTypeOK /\ InHand
  BY AppChange DEF AppInv, AppTypeOK
<1>2. AnswersConserved' /\ ShotsFit'
  BY AnswersStep, ShotsStep DEF SettleInv
<1>3. OrderInv' /\ OneAnswerPerFrame'
  BY <1>1, OrderStep, AnswerStep DEF SettleInv
<1> QED
  BY <1>2, <1>3, AppInvStep, LinkStep, RemoteStepTaken DEF SettleInv

LEMMA RemoteInitial ==
    ASSUME AppInit
    PROVE  App!RemoteAppInit /\ LinkInv /\ SettleInv
<1>1. /\ wire = <<>> /\ received = <<>> /\ settled = <<>> /\ sent = <<>> /\ executed = <<>>
      /\ command_queue = <<>> /\ incoming_queue = <<>> /\ outgoing_queue = <<>>
      /\ pending = <<>> /\ this_frame_command = <<>>
      /\ net_stop = FALSE /\ phase = "resolve" /\ pc = "start"
  BY DEF AppInit, LoopInit, QueuesInit, ClientInit, WireInit
<1>2. Unsettled = <<>>
  <2>1. Len(received) < Len(settled) + 1 /\ Len(received) \in Int /\ Len(settled) + 1 \in Int
    BY <1>1
  <2> QED
    BY <2>1, SubSeqEmpty DEF Unsettled
<1>3. App!RemoteAppInit
  BY <1>1, <1>2 DEF App!RemoteAppInit, App!WireInit
<1>4. LinkInv
  BY <1>1 DEF LinkInv
<1>5. SettleInv
  BY <1>1 DEF SettleInv, AnswersConserved, OrderInv, FramesInReceiptOrder,
              CommandQueueDrained, OneAnswerPerFrame, Owed, ShotsFit
<1> QED
  BY <1>3, <1>4, <1>5

\* Loop, queues, coroutines and stop callback implement the application that the
\* server is checked and proved against: over any number of connections, every
\* frame is answered on the wire at most once and in the order of receipt, with its
\* own name and commands; answers are given up only with their connection or at the
\* end of the loop; and the socket is closed from then on.
THEOREM AppImplementsRemoteApp == AppSpec => RemoteAppSpec
<1>1. AppInv /\ LinkInv /\ SettleInv /\ [AppNext]_appVars
        => AppInv' /\ LinkInv' /\ SettleInv' /\ [App!RemoteAppNext]_(App!remoteAppVars)
  BY OwnStep DEF RemoteStep
<1> QED
  BY <1>1, RemoteInitial, AppInitial, PTL DEF AppSpec, RemoteAppSpec, App!RemoteAppSpec

\* So they do, and with every answer conserved between loop and socket, whatever a
\* peer and a network do that RemoteApp allows: not only those of AppControl.
THEOREM AnyPeerIsServed == AnyPeerSpec => RemoteAppSpec /\ []AnswersConserved /\ []OneAnswerPerFrame
<1>1. ASSUME AppInv, LinkInv, SettleInv, [AnyPeerNext]_appVars
      PROVE  AppInv' /\ LinkInv' /\ SettleInv' /\ [App!RemoteAppNext]_(App!remoteAppVars)
  <2>1. CASE \E c \in 1..Len(wire) : PeerDoes(c)
    BY <1>1, <2>1, AnyPeerStep DEF RemoteStep
  <2>2. CASE ~\E c \in 1..Len(wire) : PeerDoes(c)
    <3>1. [AppNext]_appVars
      BY <1>1, <2>2 DEF AnyPeerNext, AppNext
    <3> QED
      BY <1>1, <3>1, OwnStep DEF RemoteStep
  <2> QED
    BY <2>1, <2>2
<1>2. SettleInv => AnswersConserved /\ OneAnswerPerFrame
  BY DEF SettleInv
<1> QED
  BY <1>1, <1>2, RemoteInitial, AppInitial, PTL
     DEF AnyPeerSpec, RemoteAppSpec, App!RemoteAppSpec
-----------------------------------------------------------------------------
(* Progress, as far as it is a matter of safety: no endless loops, no waits. *)

\* A headless loop was told to end.
Told == ~cfg.window /\ (shutdown_command \/ stop_requested)

\* Upper bounds on the steps the logical thread still takes once it was told to
\* end, and on those that the network thread takes once its stop was requested,
\* the lines not counted that it reads.
LoopStepsLeft ==
    CASE pc = "tick" -> 5
      [] pc \in {"start", "post"} -> 4
      [] pc = "head" -> 3
      [] pc = "unwind" -> 2
      [] pc = "join" -> 1
      [] pc = "done" -> 0

ClientStepsLeft ==
    CASE phase = "connecting" -> 7
      [] phase = "running" ->
           3 + (IF reader = "reading" THEN 1 ELSE 0)
             + (IF writer = "timer" THEN 2 ELSE IF writer = "writing" THEN 1 ELSE 0)
      [] phase = "backoff" -> 2
      [] phase = "resolve" -> 1
      [] phase = "exited" -> 0

\* Steps that end something, of the thread or of its surroundings.
EndsNearer ==
    /\ Told => /\ Told'
               /\ LoopStepsLeft' <= LoopStepsLeft
               /\ LogicalThread => LoopStepsLeft' < LoopStepsLeft
    /\ net_stop => /\ net_stop'
                   /\ ClientStepsLeft' <= ClientStepsLeft
                   /\ NetworkThread => ReadLine \/ ClientStepsLeft' < ClientStepsLeft

\* A request to end is never taken back, and brings the end nearer with every
\* step of either thread, whatever the peer, the network and the caller do.
ShutdownConverges == [][EndsNearer]_appVars

\* The guard of a step of the loop holds; those of the steps from a tick, a post
\* stage and the unwinding leave no case out ...
LoopCanMove ==
    \/ pc \in {"start", "tick", "post", "unwind"}
    \/ pc = "head" /\ (stop_requested \/ ~tick_running)

\* ... and of one of the network thread's that is not a line read: ReadFails,
\* WriteFails, WriterTimer or Disconnect, or a step outside of io.run().
ClientCanMove ==
    \/ phase \in {"resolve", "connecting", "backoff"}
    \/ /\ phase = "running"
       /\ \/ reader = "reading" /\ ~AppEndUsable(Current)
          \/ writer = "writing" /\ ~AppEndUsable(Current)
          \/ writer = "timer" /\ ~connection_alive
          \/ reader = "returned" /\ writer = "returned"

\* The join is all that a loop told to end ever waits for, and there it waits for
\* a network thread that can end.
ShutdownNotStuck ==
    /\ Told => LoopCanMove \/ pc \in {"join", "done"}
    /\ pc = "join" => net_exited \/ (cfg.remote /\ net_stop /\ ClientCanMove)

\* After a shutdown command only the tick of its own iteration may be left; the
\* loop joins only a network thread that it asked to stop.
ToldInv ==
    /\ (~cfg.window /\ shutdown_command) => ~tick_running \/ (pc = "tick" /\ ~pause_mode)
    /\ pc = "join" => cfg.remote /\ net_stop

\* What every step of the logical thread does to both.
LEMMA LoopComesNearer ==
    ASSUME AppInv, LinkInv, ToldInv, LogicalThread
    PROVE  /\ ToldInv'
           /\ Told => Told' /\ LoopStepsLeft' < LoopStepsLeft
           /\ net_stop => net_stop' /\ ClientStepsLeft' <= ClientStepsLeft
<1>1. UNCHANGED clientVars
  BY DEF LogicalThread
<1>2. ClientStepsLeft' = ClientStepsLeft /\ ClientStepsLeft \in Int
  BY <1>1 DEF clientVars, ClientStepsLeft, AppInv, AppTypeOK, ClientTypeOK
<1> USE DEF ToldInv, Told, LoopStepsLeft, queueVars, netVars, sceneVars
<1>3. CASE EnterLoop \/ PreLocal \/ PrePassFrame \/ PreIdle
  BY <1>2, <1>3 DEF EnterLoop, PreLocal, PrePassFrame, PreIdle, IterationStarts
<1>4. CASE PreExecute
  BY <1>2, <1>4 DEF PreExecute, IterationStarts
<1>5. CASE TickWindowClosed \/ TickInvalidView
  BY <1>2, <1>5 DEF TickWindowClosed, TickInvalidView, AfterTick
<1>6. CASE TickPaused \/ TickShutsDown \/ \E drawn \in {"drawn", "skipped"} : TickPlays(drawn)
  BY <1>2, <1>6 DEF TickPaused, TickShutsDown, TickPlays, AfterTick
<1>7. CASE PostNoCommand \/ PostAnswer \/ LeaveLoop
  BY <1>2, <1>7 DEF PostNoCommand, PostAnswer, LeaveLoop
<1>8. CASE Finish
  BY <1>2, <1>8 DEF Finish
<1>9. CASE RequestNetStop
  BY <1>2, <1>9 DEF RequestNetStop
<1> QED
  BY <1>3, <1>4, <1>5, <1>6, <1>7, <1>8, <1>9 DEF LogicalThread, LoopLocalStep

LEMMA NetworkComesNearer ==
    ASSUME AppInv, LinkInv, ToldInv, NetworkThread
    PROVE  ToldInv' /\ EndsNearer
<1>1. ClientStep /\ UNCHANGED loopVars
  BY DEF NetworkThread
<1>2. net_stop' = net_stop
  BY <1>1 DEF ClientStep, ResolveOk, ResolveFails, BackoffEnds, ConnectOk, ConnectFails,
              ConnectAborted, Disconnect, ThreadReturns, ReadLine, ReadFails, WriterTimer,
              WriteOk, WriteFails, queueVars, stopVars
<1>3. ToldInv' /\ Told' = Told /\ LoopStepsLeft' = LoopStepsLeft /\ LoopStepsLeft \in Int
  <2>1. LoopStepsLeft \in Int
    BY DEF LoopStepsLeft, AppInv, AppTypeOK, LoopTypeOK
  <2> QED
    BY <1>1, <1>2, <2>1 DEF loopVars, ToldInv, Told, LoopStepsLeft
<1>4. ~LogicalThread \/ UNCHANGED pc
  BY <1>1 DEF loopVars
<1>5. LogicalThread => LoopStepsLeft' < LoopStepsLeft \/ ~Told
  BY LoopComesNearer
<1>6. ASSUME net_stop
      PROVE  IF ReadLine THEN ClientStepsLeft' <= ClientStepsLeft
                         ELSE ClientStepsLeft' < ClientStepsLeft
  <2> USE <1>6 DEF ClientStepsLeft
  <2>1. CASE ResolveOk \/ ResolveFails \/ WriteOk
    <3>1. ~ResolveOk /\ ~ResolveFails
      BY DEF ResolveOk, ResolveFails
    <3>2. ~WriteOk
      BY DEF WriteOk, AppEndUsable, LinkInv, AppInv, ClientInv
    <3> QED
      BY <2>1, <3>1, <3>2
  <2>2. CASE BackoffEnds \/ ConnectOk \/ ConnectFails \/ ConnectAborted \/ ThreadReturns \/ Disconnect
    <3>1. ~ReadLine
      BY <2>2 DEF BackoffEnds, ConnectOk, ConnectFails, ConnectAborted, ThreadReturns, Disconnect,
                  ReadLine
    <3>2. \/ phase = "backoff" /\ phase' = "resolve"
          \/ phase = "connecting" /\ phase' = "running" /\ reader' = "reading" /\ writer' = "timer"
          \/ phase = "connecting" /\ phase' \in {"backoff", "exited"}
          \/ phase = "resolve" /\ phase' = "exited"
          \/ /\ phase = "running" /\ reader = "returned" /\ writer = "returned"
             /\ phase' = "resolve"
      BY <1>6, <2>2 DEF BackoffEnds, ConnectOk, ConnectFails, ConnectAborted, ThreadReturns,
                        Disconnect
    <3>3. ClientStepsLeft' < ClientStepsLeft
      BY <3>2
    <3> QED
      BY <3>1, <3>3
  <2>3. CASE ReadLine
    BY <2>3 DEF ReadLine
  <2>4. CASE ReadFails
    <3>1. /\ phase = "running" /\ phase' = "running" /\ reader = "reading"
          /\ reader' = "returned" /\ writer' = writer
      BY <2>4 DEF ReadFails
    <3> QED
      BY <3>1
  <2>5. CASE WriterTimer
    <3>1. /\ phase = "running" /\ phase' = "running" /\ writer = "timer" /\ reader' = reader
          /\ writer' \in {"writing", "returned"}
      BY <2>5 DEF WriterTimer, WriterContinues
    <3> QED
      BY <3>1
  <2>6. CASE WriteFails
    <3>1. /\ phase = "running" /\ phase' = "running" /\ writer = "writing" /\ reader' = reader
          /\ writer' = "returned"
      BY <2>6 DEF WriteFails
    <3> QED
      BY <3>1
  <2> QED
    BY <1>1, <2>1, <2>2, <2>3, <2>4, <2>5, <2>6 DEF ClientStep
<1>7. ClientStepsLeft \in Int
  BY DEF ClientStepsLeft, AppInv, AppTypeOK, ClientTypeOK
<1>8. ClientStepsLeft' \in Int
  <2>1. AppInv'
    BY AppInvStep DEF AppNext
  <2> QED
    BY <2>1 DEF ClientStepsLeft, AppInv, AppTypeOK, ClientTypeOK
<1> QED
  BY <1>2, <1>3, <1>5, <1>6, <1>7, <1>8 DEF EndsNearer

LEMMA EndComesNearer ==
    ASSUME AppInv, LinkInv, ToldInv, [AppNext]_appVars
    PROVE  ToldInv' /\ EndsNearer
<1>1. LoopStepsLeft \in Int /\ ClientStepsLeft \in Int
  BY DEF LoopStepsLeft, ClientStepsLeft, AppInv, AppTypeOK, LoopTypeOK, ClientTypeOK
<1>2. LoopStepsLeft' \in Int /\ ClientStepsLeft' \in Int
  BY AppInvStep DEF LoopStepsLeft, ClientStepsLeft, AppInv, AppTypeOK, LoopTypeOK, ClientTypeOK
<1>3. LogicalThread => (Told => LoopStepsLeft' < LoopStepsLeft)
  BY LoopComesNearer
<1>4. CASE NetworkThread
  BY <1>4, NetworkComesNearer
<1>5. CASE LogicalThread /\ ~NetworkThread
  BY <1>1, <1>2, <1>5, LoopComesNearer DEF EndsNearer
<1>6. CASE ~LogicalThread /\ ~NetworkThread
  <2>1. /\ UNCHANGED <<cfg, pc, shutdown_command, tick_running, pause_mode, net_stop, clientVars>>
        /\ stop_requested => stop_requested'
    <3> USE DEF vars, queueVars, loopVars, sceneVars
    <3>1. CASE Terminate
      BY <3>1 DEF Terminate, signal_terminate
    <3>2. CASE \E c \in 1..Len(wire) :
                 \/ \E body \in FrameBodies : ServerCommits(c, body)
                 \/ ServerHangsUp(c)
                 \/ NetworkResets(c)
      <4>1. UNCHANGED <<vars, clientVars>>
        BY <3>2 DEF ServerCommits, ServerHangsUp, NetworkResets
      <4> QED
        BY <4>1
    <3>3. CASE AppTerminated \/ UNCHANGED appVars
      BY <3>3 DEF AppTerminated, appVars
    <3> QED
      BY <1>6, <3>1, <3>2, <3>3 DEF AppNext
  <2>2. LoopStepsLeft' = LoopStepsLeft /\ ClientStepsLeft' = ClientStepsLeft
    BY <2>1 DEF LoopStepsLeft, ClientStepsLeft, clientVars
  <2> QED
    BY <1>1, <1>6, <2>1, <2>2 DEF EndsNearer, Told, ToldInv
<1> QED
  BY <1>4, <1>5, <1>6

\* Once it was told to end, a headless application takes at most five steps of its
\* loop, and from the stop request on at most seven of its network thread besides the
\* lines it still reads.
THEOREM ShutdownIsBounded == AppSpec => ShutdownConverges
<1>1. AppInit => LinkInv /\ ToldInv
  BY DEF AppInit, LoopInit, QueuesInit, ClientInit, WireInit, LinkInv, ToldInv
<1>2. AppInv /\ LinkInv /\ ToldInv /\ [AppNext]_appVars
        => AppInv' /\ LinkInv' /\ ToldInv' /\ [EndsNearer]_appVars
  BY AppInvStep, LinkStep, EndComesNearer
<1> QED
  BY <1>1, <1>2, AppInitial, PTL DEF AppSpec, ShutdownConverges

\* Nothing that was told to end waits for anything but a step of its own: the loop only
\* for the join, and the network thread for no line, write or connection.
THEOREM ShutdownWaitsForNothing == AppSpec => []ShutdownNotStuck
<1>1. AppInit => LinkInv /\ ToldInv
  BY DEF AppInit, LoopInit, QueuesInit, ClientInit, WireInit, LinkInv, ToldInv
<1>2. AppInv /\ LinkInv /\ ToldInv /\ [AppNext]_appVars => AppInv' /\ LinkInv' /\ ToldInv'
  BY AppInvStep, LinkStep, EndComesNearer
<1>3. AppInv /\ LinkInv /\ ToldInv => ShutdownNotStuck
  <2> SUFFICES ASSUME AppInv, LinkInv, ToldInv PROVE ShutdownNotStuck
    OBVIOUS
  <2>1. Told => LoopCanMove \/ pc \in {"join", "done"}
    BY DEF Told, ToldInv, LoopCanMove, AppInv, AppTypeOK, LoopTypeOK
  <2>2. ASSUME pc = "join", ~net_exited
        PROVE  cfg.remote /\ net_stop /\ ClientCanMove
    <3>1. cfg.remote /\ net_stop
      BY <2>2 DEF ToldInv
    <3>2. phase \in {"resolve", "connecting", "running", "backoff"}
      BY <2>2 DEF AppInv, AppTypeOK, ClientTypeOK, ClientInv
    <3>3. CASE phase = "running"
      <4>1. ~AppEndUsable(Current)
        BY <3>1, <3>3 DEF LinkInv, AppInv, ClientInv, AppEndUsable
      <4>2. reader = "returned" => ~connection_alive
        BY <3>3 DEF LinkInv
      <4>3. reader \in {"reading", "returned"} /\ writer \in {"timer", "writing", "returned"}
        BY DEF AppInv, AppTypeOK, ClientTypeOK
      <4>4. CASE reader = "reading"
        BY <3>1, <3>3, <4>1, <4>4 DEF ClientCanMove
      <4>5. CASE reader = "returned"
        BY <3>1, <3>3, <4>1, <4>2, <4>3, <4>5 DEF ClientCanMove
      <4> QED
        BY <4>3, <4>4, <4>5
    <3> QED
      BY <3>1, <3>2, <3>3 DEF ClientCanMove
  <2> QED
    BY <2>1, <2>2 DEF ShutdownNotStuck
<1> QED
  BY <1>1, <1>2, <1>3, AppInitial, PTL DEF AppSpec

\* The guard of a step of one of the coroutines holds, or of the disconnect.
CoroutinesCanMove ==
    \/ reader = "reading" /\ wire[Current].to_app # <<>>
    \/ reader = "reading" /\ (~AppEndUsable(Current) \/ wire[Current].server = "closed")
    \/ writer = "timer" /\ (outgoing_queue # <<>> \/ ~connection_alive)
    \/ writer = "writing"
    \/ reader = "returned" /\ writer = "returned"

\* The one state in which both coroutines may rest.
NothingToDo ==
    /\ connection_alive
    /\ reader = "reading" /\ wire[Current].to_app = <<>>
    /\ writer = "timer" /\ Len(settled) = Len(sent)

CoroutinesNotStuck == phase = "running" => CoroutinesCanMove \/ NothingToDo

\* The safety part of AnswersFlow: neither coroutine waits for the other, and both rest
\* only on a live connection with nothing to read and every answer written.
THEOREM CoroutinesKeepGoing == AppSpec => []CoroutinesNotStuck
<1>1. AppInit => LinkInv /\ AnswersConserved
  BY DEF AppInit, LoopInit, QueuesInit, ClientInit, WireInit, LinkInv, AnswersConserved
<1>2. AppInv /\ LinkInv /\ AnswersConserved /\ [AppNext]_appVars
        => AppInv' /\ LinkInv' /\ AnswersConserved'
  BY AppInvStep, LinkStep, AnswersStep
<1>3. AppInv /\ LinkInv /\ AnswersConserved => CoroutinesNotStuck
  <2> SUFFICES ASSUME AppInv, LinkInv, AnswersConserved, phase = "running", ~CoroutinesCanMove
               PROVE  NothingToDo
    BY DEF CoroutinesNotStuck
  <2>1. /\ reader \in {"reading", "returned"} /\ writer \in {"timer", "writing", "returned"}
        /\ wire # <<>> /\ (writer = "writing" <=> pending # <<>>)
    BY DEF AppInv, AppTypeOK, ClientTypeOK, ClientInv
  <2>2. reader = "returned" \/ writer = "returned" => ~connection_alive
    BY DEF LinkInv
  <2>3. reader = "reading"
    BY <2>1, <2>2 DEF CoroutinesCanMove
  <2>4. AppEndUsable(Current) /\ wire[Current].server # "closed" /\ wire[Current].to_app = <<>>
    BY <2>3 DEF CoroutinesCanMove
  <2>5. connection_alive
    BY <2>1, <2>4 DEF LinkInv, AppEndUsable, ServerGone
  <2>6. writer = "timer" /\ outgoing_queue = <<>> /\ pending = <<>>
    BY <2>1, <2>2, <2>5 DEF CoroutinesCanMove
  <2>7. Len(settled) = Len(sent)
    <3>1. settled \in Seq(Fate) /\ <<>> \in Seq(Answer)
      BY DEF AppInv, AppTypeOK, ClientTypeOK, Fate
    <3>2. /\ Sum(settled, <<>>, <<>>) = sent
          /\ AnswersIn(settled) \in Seq(Answer) /\ Len(AnswersIn(settled)) = Len(settled)
      BY <2>6, <3>1, AnswersType DEF AnswersConserved, Sum, AnswersIn
    <3>3. Sum(settled, <<>>, <<>>) = AnswersIn(settled) \o <<>>
      BY <3>1, SumGrouped
    <3>4. AnswersIn(settled) \o <<>> = AnswersIn(settled)
      BY <3>2, ConcatEmptySeq
    <3> QED
      BY <3>2, <3>3, <3>4
  <2> QED
    BY <2>3, <2>4, <2>5, <2>6, <2>7 DEF NothingToDo
<1> QED
  BY <1>1, <1>2, <1>3, AppInitial, PTL DEF AppSpec
=============================================================================
