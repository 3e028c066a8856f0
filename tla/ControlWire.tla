---------------------------- MODULE ControlWire ----------------------------
(***************************************************************************)
(* TCP between the renderer and the control server, as both use it: one    *)
(* byte stream per direction and connection, framed by newlines, so lines  *)
(* arrive whole, in order and at most once, until either end closes or the *)
(* connection is reset, which drops what was still in flight.              *)
(*                                                                         *)
(* Connections are numbered in the order they are opened; the client never *)
(* has two, so its socket is always the last one.                          *)
(***************************************************************************)
EXTENDS ControlFrames

CONSTANT MaxConnections    \* bound: connections opened in a run

ASSUME MaxConnectionsAssumption == MaxConnections \in Nat \ {0}

VARIABLE wire

Connection == [to_app : Seq(Line), to_server : Seq(Answer),
               app : {"open", "closed"}, server : {"open", "closed"},
               reset : BOOLEAN]

WireTypeOK == wire \in Seq(Connection)

WireInit == wire = <<>>

NoConnection == 0
Current == Len(wire)

\* A fresh connection; the app's end may be closed on the spot.
Open(app_end) ==
    /\ Len(wire) < MaxConnections
    /\ wire' = Append(wire, [to_app |-> <<>>, to_server |-> <<>>, app |-> app_end,
                             server |-> "open", reset |-> FALSE])

AppCloses(c) == wire' = [wire EXCEPT ![c].app = "closed"]

ServerCloses(c) == wire' = [wire EXCEPT ![c].server = "closed"]

\* The network or the peer's kernel gives the connection up.  Either end may
\* take long to notice.  What had arrived before is read before the client's
\* next connection, half a second later at the earliest: the rest is lost.
Reset(c) ==
    /\ ~wire[c].reset
    /\ wire' = [wire EXCEPT ![c] = [to_app |-> <<>>, to_server |-> <<>>, app |-> @.app,
                                    server |-> @.server, reset |-> TRUE]]

\* The app's socket works: both coroutines may go on using it.
AppEndUsable(c) == wire[c].app = "open" /\ ~wire[c].reset
=============================================================================
