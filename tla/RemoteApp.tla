----------------------------- MODULE RemoteApp -----------------------------
(***************************************************************************)
(* What the application process promises the control server: an abstract   *)
(* specification that McpSession composes with the server and that         *)
(* AppControl, with its two threads, is shown to implement.                *)
(*                                                                         *)
(* It keeps the frames that were read and whose answers' fate is open,     *)
(* answers them in the order it read them, each at most once, and loses    *)
(* answers only with the connection that they were to be written to.       *)
(***************************************************************************)
EXTENDS ControlWire

VARIABLES
    process,     \* none, running (until its frame loop has ended), or exited
    app_queue    \* frames read whose answers were neither written nor lost

remoteAppVars == <<wire, process, app_queue>>

AppConnected == Len(wire) > 0 /\ wire[Current].app = "open"

\* The server's end is gone: the app may know, or find out.
ConnectionLost == wire[Current].reset \/ wire[Current].server = "closed"

\* What a frame's answer says; a frame without a screenshot has no result.
ShotOf(frame) == IF "screenshot" \in frame.body.cmds THEN {"saved", "error"} ELSE {"none"}

AnswersTo(frame) ==
    {[tag |-> frame.tag, id |-> frame.id,
      answered |-> frame.body.cmds \ {"debug_command"}, shot |-> shot] : shot \in ShotOf(frame)}

\* The queue without its first k frames.
Without(k) == SubSeq(app_queue, k + 1, Len(app_queue))

RemoteAppInit ==
    /\ WireInit
    /\ process = "running"
    /\ app_queue = <<>>

-----------------------------------------------------------------------------
(* The process while its frame loop runs.                                  *)

AppConnects ==
    /\ process = "running"
    /\ ~AppConnected
    /\ Open("open")
    /\ UNCHANGED <<process, app_queue>>

AppReads ==
    /\ process = "running"
    /\ AppConnected
    /\ wire[Current].to_app # <<>>
    /\ app_queue' = Append(app_queue, command_frame_from_json(Head(wire[Current].to_app)))
    /\ wire' = [wire EXCEPT ![Current].to_app = Tail(@)]
    /\ UNCHANGED process

\* The oldest answer is written.  On a connection that the server has closed,
\* those the writer holds behind it may go with it.
AppAnswers ==
    /\ process = "running"
    /\ AppConnected
    /\ ~wire[Current].reset
    /\ app_queue # <<>>
    /\ \E answer \in AnswersTo(Head(app_queue)) :
         wire' = [wire EXCEPT ![Current].to_server = Append(@, answer)]
    /\ \E k \in 1..Len(app_queue) :
         /\ k > 1 => wire[Current].server = "closed"
         /\ app_queue' = Without(k)
    /\ UNCHANGED process

\* A write failed, or the writer noticed the loss: its answers are dropped.
AppLoses ==
    /\ process = "running"
    /\ AppConnected
    /\ ConnectionLost
    /\ \E k \in 1..Len(app_queue) : app_queue' = Without(k)
    /\ UNCHANGED <<process, wire>>

AppDisconnects ==
    /\ process = "running"
    /\ AppConnected
    /\ ConnectionLost
    /\ AppCloses(Current)
    /\ UNCHANGED <<process, app_queue>>

-----------------------------------------------------------------------------
(* The way out.                                                            *)

\* The socket is closed with the process, or by its stop callback before.
ProcessGone ==
    /\ app_queue' = <<>>
    /\ IF AppConnected THEN AppCloses(Current) ELSE UNCHANGED wire

\* The frame loop ends, by a shutdown command, its window or a stop request,
\* and the answers that were not written go with it.
AppExits ==
    /\ process = "running"
    /\ ProcessGone
    /\ process' = "exited"

\* The reader still gets what had arrived before.
ExitedReads ==
    /\ process = "exited"
    /\ Len(wire) > 0
    /\ wire[Current].to_app # <<>>
    /\ wire' = [wire EXCEPT ![Current].to_app = Tail(@)]
    /\ UNCHANGED <<process, app_queue>>

\* A connection attempt under way comes up and is closed on the spot.
ExitedConnects ==
    /\ process = "exited"
    /\ ~AppConnected
    /\ Len(wire) > 0 => ConnectionLost
    /\ Open("closed")
    /\ UNCHANGED <<process, app_queue>>

RemoteAppStep ==
    \/ AppConnects
    \/ AppReads
    \/ AppAnswers
    \/ AppLoses
    \/ AppDisconnects
    \/ AppExits
    \/ ExitedReads
    \/ ExitedConnects

-----------------------------------------------------------------------------
(* The peer and the network, as the application assumes them.              *)

\* What either may do to the end of a connection: lines are added behind those
\* under way while the connection is up, answers are taken from the front, the
\* server closes, and a reset drops what was in flight.
PeerMay(old, new) ==
    /\ new.app = old.app
    /\ \/ /\ new.reset = old.reset
          /\ new.server \in {old.server, "closed"}
          /\ Len(old.to_app) <= Len(new.to_app)
          /\ SubSeq(new.to_app, 1, Len(old.to_app)) = old.to_app
          /\ new.to_app # old.to_app => old.server = "open" /\ ~old.reset
          /\ \E k \in 0..Len(old.to_server) :
               new.to_server = SubSeq(old.to_server, k + 1, Len(old.to_server))
       \/ /\ new.reset
          /\ new.server = old.server
          /\ new.to_app = <<>>
          /\ new.to_server = <<>>

Peer(c) ==
    /\ PeerMay(wire[c], wire'[c])
    /\ wire' = [wire EXCEPT ![c] = wire'[c]]
    /\ UNCHANGED <<process, app_queue>>

RemoteAppNext == RemoteAppStep \/ \E c \in 1..Len(wire) : Peer(c)

RemoteAppSpec == RemoteAppInit /\ [][RemoteAppNext]_remoteAppVars
=============================================================================
