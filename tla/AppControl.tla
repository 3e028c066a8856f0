----------------------------- MODULE AppControl -----------------------------
(***************************************************************************)
(* The renderer under remote control: the logical thread (LogicalLoop) and *)
(* the network thread (RemoteClient) over one TCP peer.  The peer is any   *)
(* server that numbers its frames the way the protocol asks: a session tag *)
(* per connection, net ids counting up from 0.                             *)
(***************************************************************************)
EXTENDS LogicalLoop, RemoteClient, FiniteSets

CONSTANT MaxResets    \* bound: connections lost to the network in a run

ASSUME MaxResetsAssumption == MaxResets \in Nat
ASSUME NamesAssumption == (1..MaxConnections) \X (0..MaxFrames - 1) \subseteq FrameNames

VARIABLES
    committed,    \* history: frames the server wrote, in order
    resets        \* history: connections lost to the network

appVars == <<vars, clientVars, wire, committed, resets>>

\* The types of both threads' state and of the connections between them.
AppTypeOK ==
    /\ LoopTypeOK
    /\ ClientTypeOK
    /\ WireTypeOK
    /\ committed \in Seq(CommittedFrame)
    /\ resets \in 0..MaxResets

AppInit ==
    /\ LoopInit
    /\ ClientInit
    /\ WireInit
    /\ committed = <<>>
    /\ resets = 0

\* The logical thread.  request_stop runs the stop callback in this thread.
LogicalThread ==
    /\ \/ LoopLocalStep /\ UNCHANGED wire
       \/ RequestNetStop /\ StopCallback
    /\ UNCHANGED <<clientVars, committed, resets>>

\* The network thread; it exists only with remote control.
NetworkThread ==
    /\ cfg.remote
    /\ ClientStep
    /\ UNCHANGED <<loopVars, committed, resets>>

Terminate ==
    /\ signal_terminate
    /\ UNCHANGED <<clientVars, wire, committed, resets>>

-----------------------------------------------------------------------------
(* The peer and the network.                                               *)

\* Net ids count the frames of a session.
NextId(tag) == Cardinality({k \in 1..Len(committed) : committed[k].tag = tag})

ServerCommits(c, body) ==
    LET frame == [tag |-> c, id |-> NextId(c), body |-> body]
    IN  /\ Len(committed) < MaxFrames
        /\ wire[c].server = "open"
        /\ ~wire[c].reset
        /\ wire' = [wire EXCEPT ![c].to_app = Append(@, [parses |-> TRUE, frame |-> frame])]
        /\ committed' = Append(committed, frame)
        /\ UNCHANGED <<vars, clientVars, resets>>

\* The server notices that the app closed, or goes away itself.
ServerHangsUp(c) ==
    /\ wire[c].server = "open"
    /\ ServerCloses(c)
    /\ UNCHANGED <<vars, clientVars, committed, resets>>

NetworkResets(c) ==
    /\ resets < MaxResets
    /\ Reset(c)
    /\ resets' = resets + 1
    /\ UNCHANGED <<vars, clientVars, committed>>

\* The loop has ended and nothing but the peer is left.
AppTerminated == pc = "done" /\ UNCHANGED appVars

AppNext ==
    \/ LogicalThread
    \/ NetworkThread
    \/ Terminate
    \/ \E c \in 1..Len(wire) :
         \/ \E body \in FrameBodies : ServerCommits(c, body)
         \/ ServerHangsUp(c)
         \/ NetworkResets(c)
    \/ AppTerminated

AppSpec == AppInit /\ [][AppNext]_appVars

\* Both threads are scheduled; nothing is assumed of the peer or the network,
\* but that a connection attempt comes to an end (ConnectFails).
AppFairSpec == AppSpec /\ WF_appVars(LogicalThread) /\ WF_appVars(NetworkThread)

-----------------------------------------------------------------------------
(* The two threads together, as the peer sees them: RemoteApp.             *)

\* The frames read off the socket whose answers' fate is open, wherever they
\* are: in a queue, in the loop's hand, or answered and waiting to be written.
Unsettled == SubSeq(received, Len(settled) + 1, Len(received))

App == INSTANCE RemoteApp
         WITH process <- IF net_stop THEN "exited" ELSE "running",
              app_queue <- IF net_stop THEN <<>> ELSE Unsettled

\* Loop, queues, coroutines and stop callback implement the application that
\* the server is modelled against: over any number of connections, every frame
\* is answered on the wire at most once and in the order of receipt, with its
\* own name and commands, an answer is given up only when its connection is
\* lost or the loop has ended, and the socket is closed from then on.
RemoteAppSpec == App!RemoteAppSpec

-----------------------------------------------------------------------------
(* Properties.                                                             *)

\* Where a frame was committed: names are unique, so there is one place.
PlaceOf(frame) == CHOOSE i \in 1..Len(committed) : NameOf(committed[i]) = NameOf(frame)

\* What the app takes in is what the server wrote, in the order it was
\* written and never twice -- across disconnects and reconnects.
ReceivedInCommitOrder ==
    /\ \A i \in 1..Len(received) : received[i] \in {committed[k] : k \in 1..Len(committed)}
    /\ \A i, j \in 1..Len(received) :
         i < j => PlaceOf(received[i]) < PlaceOf(received[j])

\* No answer is duplicated or overtakes another on its way to the socket:
\* those decided, those the writer holds and those still queued are exactly
\* the answers sent, in the order they were sent.
AnswersConserved ==
    [i \in 1..Len(settled) |-> settled[i].answer] \o pending \o outgoing_queue = sent

\* An answer is only lost with the connection the writer served: while it is
\* alive, no answer leaves the program unwritten.
LossNeedsDisconnect ==
    [][\A i \in Len(settled) + 1 .. Len(settled') :
          settled'[i].conn = NoConnection => ~connection_alive']_appVars

\* As long as a connection stays up, an answer sent by the loop is written to
\* it: the writer does not stall on its timer, its batch or the reader.
AnswersFlow ==
    \A n \in 1..MaxFrames :
        (phase = "running" /\ Len(sent) >= n) ~> (Len(settled) >= n \/ phase # "running")

\* A headless app that was told to shut down, or asked to stop, ends: the
\* join of the network thread does not hang, whatever the connection does.
AppShutdownEnds ==
    ~cfg.window => ((shutdown_command \/ stop_requested) ~> (pc = "done"))

\* The protocol document: for each net_id the full command set will be
\* answered.  With a faultless network and a server that stays, an app that
\* has ended has put every answer on the wire.
EveryAnswerReachesTheWire ==
    (pc = "done" /\ resets = 0 /\ \A c \in 1..Len(wire) : wire[c].server = "open")
        => Len(SelectSeq(settled, LAMBDA s : s.conn # NoConnection)) = Len(sent)
=============================================================================
