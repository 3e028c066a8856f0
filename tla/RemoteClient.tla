---------------------------- MODULE RemoteClient ----------------------------
(***************************************************************************)
(* The network thread of the renderer: remote_control_client::network_loop *)
(* with its two coroutines.  They share one io_context run by this thread, *)
(* so what happens between two co_awaits is one action.  The stop callback *)
(* runs in the thread that requests the stop (StopCallback, composed with  *)
(* the loop's RequestNetStop in AppControl).                               *)
(***************************************************************************)
EXTENDS ControlQueues, ControlWire

VARIABLES
    phase,              \* where network_loop is
    connection_alive,
    reader,             \* the read coroutine: awaiting a line, or returned
    writer,             \* the write coroutine: awaiting its timer, a write, or returned
    pending,            \* answers swapped out of outgoing_queue, the head being written
    settled             \* history: answers in the order their fate was decided,
                        \* with the connection they were written to

clientVars == <<phase, connection_alive, reader, writer, pending, settled>>

ClientTypeOK ==
    /\ phase \in {"resolve", "connecting", "running", "backoff", "exited"}
    /\ connection_alive \in BOOLEAN
    /\ reader \in {"reading", "returned"}
    /\ writer \in {"timer", "writing", "returned"}
    /\ pending \in Seq(Answer)
    /\ settled \in Seq([answer : Answer, conn : 0..MaxConnections])

ClientInit ==
    /\ phase = "resolve"
    /\ connection_alive = FALSE
    /\ reader = "returned"
    /\ writer = "returned"
    /\ pending = <<>>
    /\ settled = <<>>

coroutineVars == <<connection_alive, reader, writer, pending, settled>>
stopVars == <<net_stop, net_exited>>

-----------------------------------------------------------------------------
(* network_loop outside of io.run().                                       *)

ResolveOk ==
    /\ phase = "resolve"
    /\ ~net_stop
    /\ phase' = "connecting"
    /\ UNCHANGED <<coroutineVars, queueVars, wire>>

\* The 2 s pause after a failed resolve or connect, and the 500 ms one after
\* a disconnect, are the same state: both end early on a stop request.
ResolveFails ==
    /\ phase = "resolve"
    /\ ~net_stop
    /\ phase' = "backoff"
    /\ UNCHANGED <<coroutineVars, queueVars, wire>>

BackoffEnds ==
    /\ phase = "backoff"
    /\ phase' = "resolve"
    /\ UNCHANGED <<coroutineVars, queueVars, wire>>

\* Both coroutines start.  When the stop was requested meanwhile, the
\* constructor of stop_callback closes the socket on the spot.
ConnectOk ==
    /\ phase = "connecting"
    /\ Open(IF net_stop THEN "closed" ELSE "open")
    /\ phase' = "running"
    /\ connection_alive' = TRUE
    /\ reader' = "reading"
    /\ writer' = "timer"
    /\ UNCHANGED <<pending, settled, queueVars>>

ConnectFails ==
    /\ phase = "connecting"
    /\ phase' = "backoff"
    /\ UNCHANGED <<coroutineVars, queueVars, wire>>

\* Stop requested while connecting: cancel, let the handlers run, break.  The
\* connection may have come up all the same; the socket's destructor closes it.
ConnectAborted ==
    /\ phase = "connecting"
    /\ net_stop
    /\ \/ Open("closed")
       \/ UNCHANGED wire
    /\ phase' = "exited"
    /\ net_exited' = TRUE
    /\ UNCHANGED <<coroutineVars, incoming_queue, outgoing_queue, net_stop, received>>

\* io.run() returns once both coroutines have; the socket is closed.
Disconnect ==
    /\ phase = "running"
    /\ reader = "returned"
    /\ writer = "returned"
    /\ AppCloses(Current)
    /\ phase' = IF net_stop THEN "resolve" ELSE "backoff"
    /\ UNCHANGED <<coroutineVars, queueVars>>

\* The while condition of network_loop fails.
ThreadReturns ==
    /\ phase = "resolve"
    /\ net_stop
    /\ phase' = "exited"
    /\ net_exited' = TRUE
    /\ UNCHANGED <<coroutineVars, incoming_queue, outgoing_queue, net_stop, received, wire>>

\* Mutant: the stop request does not reach the socket.
StopCallback_missing == UNCHANGED wire

\* The stop callback, registered while io.run() is in progress.
StopCallback ==
    IF phase = "running" THEN AppCloses(Current) ELSE UNCHANGED wire

-----------------------------------------------------------------------------
(* The read coroutine.                                                     *)

\* Mutant: the line is not erased from the read buffer.
ReadLine_keeps_buffer ==
    /\ phase = "running"
    /\ reader = "reading"
    /\ wire[Current].to_app # <<>>
    /\ PushIncoming(Head(wire[Current].to_app))
    /\ reader' = IF connection_alive THEN "reading" ELSE "returned"
    /\ Len(received) < 4
    /\ UNCHANGED <<phase, connection_alive, writer, pending, settled, wire,
                   outgoing_queue, stopVars>>

\* A line is complete.  Lines that had reached read_buf are still delivered
\* after the socket was closed.  connection_alive is only tested afterwards.
ReadLine ==
    /\ phase = "running"
    /\ reader = "reading"
    /\ wire[Current].to_app # <<>>
    /\ PushIncoming(Head(wire[Current].to_app))
    /\ wire' = [wire EXCEPT ![Current].to_app = Tail(@)]
    /\ reader' = IF connection_alive THEN "reading" ELSE "returned"
    /\ UNCHANGED <<phase, connection_alive, writer, pending, settled,
                   outgoing_queue, stopVars>>

ReadFails ==
    /\ phase = "running"
    /\ reader = "reading"
    /\ \/ ~AppEndUsable(Current)
       \/ wire[Current].server = "closed" /\ wire[Current].to_app = <<>>
    /\ reader' = "returned"
    /\ connection_alive' = FALSE
    /\ UNCHANGED <<phase, writer, pending, settled, queueVars, wire>>

-----------------------------------------------------------------------------
(* The write coroutine.                                                    *)

\* Answers that leave the program without having been written.
Lost(answers) == [i \in 1..Len(answers) |-> [answer |-> answers[i], conn |-> NoConnection]]

\* Mutant: the coroutine returns once its batch is written.
WriterContinues_returns(rest, decided) ==
    IF connection_alive /\ rest # <<>>
    THEN /\ writer' = "writing"
         /\ pending' = rest
         /\ settled' = decided
    ELSE /\ writer' = "returned"
         /\ pending' = <<>>
         /\ settled' = decided \o Lost(rest)

\* The coroutine goes back to its loop conditions with `rest' still pending:
\* while the connection is alive it writes on; otherwise `pending' goes out
\* of scope with what it holds, and the coroutine returns.
WriterContinues(rest, decided) ==
    IF connection_alive /\ rest # <<>>
    THEN /\ writer' = "writing"
         /\ pending' = rest
         /\ settled' = decided
    ELSE /\ writer' = IF connection_alive THEN "timer" ELSE "returned"
         /\ pending' = <<>>
         /\ settled' = decided \o Lost(rest)

\* Mutant: outgoing_queue is copied, not swapped.
WriterTimer_copies ==
    /\ phase = "running"
    /\ writer = "timer"
    /\ outgoing_queue # <<>> \/ ~connection_alive
    /\ WriterContinues(outgoing_queue, settled)
    /\ UNCHANGED <<phase, connection_alive, reader, incoming_queue, outgoing_queue,
                   stopVars, received, wire>>

\* The 20 ms timer fires: outgoing_queue is swapped out, whether or not the
\* connection is still alive.
WriterTimer ==
    /\ phase = "running"
    /\ writer = "timer"
    /\ outgoing_queue # <<>> \/ ~connection_alive
    /\ outgoing_queue' = <<>>
    /\ WriterContinues(outgoing_queue, settled)
    /\ UNCHANGED <<phase, connection_alive, reader, incoming_queue, stopVars, received, wire>>

\* Mutant: only the first answer of a batch is written.
WriteOk_once ==
    /\ phase = "running"
    /\ writer = "writing"
    /\ AppEndUsable(Current)
    /\ wire' = [wire EXCEPT ![Current].to_server = Append(@, Head(pending))]
    /\ writer' = IF connection_alive THEN "timer" ELSE "returned"
    /\ pending' = <<>>
    /\ settled' = Append(settled, [answer |-> Head(pending), conn |-> Current])
                    \o Lost(Tail(pending))
    /\ UNCHANGED <<phase, connection_alive, reader, queueVars>>

WriteOk ==
    /\ phase = "running"
    /\ writer = "writing"
    /\ AppEndUsable(Current)
    /\ wire' = [wire EXCEPT ![Current].to_server = Append(@, Head(pending))]
    /\ WriterContinues(Tail(pending),
                       Append(settled, [answer |-> Head(pending), conn |-> Current]))
    /\ UNCHANGED <<phase, connection_alive, reader, queueVars>>

WriteFails ==
    /\ phase = "running"
    /\ writer = "writing"
    /\ ~AppEndUsable(Current) \/ wire[Current].server = "closed"
    /\ connection_alive' = FALSE
    /\ writer' = "returned"
    /\ pending' = <<>>
    /\ settled' = settled \o Lost(pending)
    /\ UNCHANGED <<phase, reader, queueVars, wire>>

ClientStep ==
    \/ ResolveOk
    \/ ResolveFails
    \/ BackoffEnds
    \/ ConnectOk
    \/ ConnectFails
    \/ ConnectAborted
    \/ Disconnect
    \/ ThreadReturns
    \/ ReadLine
    \/ ReadFails
    \/ WriterTimer
    \/ WriteOk
    \/ WriteFails
=============================================================================
