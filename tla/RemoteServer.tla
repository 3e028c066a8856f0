---------------------------- MODULE RemoteServer ----------------------------
(***************************************************************************)
(* RemoteControlServer, the asyncio side of the protocol.  One event loop  *)
(* runs every coroutine, so what happens between two awaits is one action; *)
(* the coroutines are the callers of commit_set and receive_next_answer    *)
(* (the tools are used one at a time: `call'), and one connection handler  *)
(* per accepted connection.                                                *)
(***************************************************************************)
EXTENDS ControlWire

VARIABLES
    session_tag,     \* self._session_tag, counted from its random start
    net_id,          \* self._net_id
    staged,          \* self._staged: one slot per command type
    pending_count,   \* self._pending_count
    client,          \* self._client: a connection, or NoConnection for None
    answer_queue,    \* self._answer_queue
    handler,         \* _on_client_connect, per connection
    call,            \* what the one caller is awaiting
    draining,        \* the commit suspended in drain(): its connection, its name,
                     \* and what its caller does next
    commits,         \* history: names of the frames commit_set returned, in order
    returned,        \* history: the names fcommand_commit_set returned, in order
    written,         \* history: names of the frames written to a socket, in order
    harvest          \* history: what receive_next_answer returned, in order

serverVars == <<session_tag, net_id, staged, pending_count, client, answer_queue,
                handler, call, draining, commits, returned, written, harvest>>

\* The None that a closing handler puts into the queue, and that
\* receive_next_answer returns on a disconnect or a timeout.
NoRecord == [tag |-> 0, id |-> 0, record |-> FALSE]
Record(answer) == [tag |-> answer.tag, id |-> answer.id, record |-> TRUE]
QueueItem == [tag : Nat, id : Nat, record : BOOLEAN]

Name == Nat \X Nat

ServerTypeOK ==
    /\ session_tag \in 0..MaxConnections
    /\ net_id \in Nat
    /\ staged \in Body
    /\ pending_count \in Nat
    /\ client \in 0..MaxConnections
    /\ answer_queue \in Seq(QueueItem)
    /\ handler \in [1..MaxConnections -> {"none", "reading", "closed"}]
    /\ call \in {"idle", "draining", "waiting", "launching", "exiting"}
    /\ draining \in [conn : 0..MaxConnections, tag : Nat, id : Nat, flushed : BOOLEAN,
                    then : {"idle", "exiting"}]
    /\ commits \in Seq(Name)
    /\ returned \in Seq(Name)
    /\ written \in Seq(Name)
    /\ harvest \in Seq(QueueItem)

NoDrain == [conn |-> NoConnection, tag |-> 0, id |-> 0, flushed |-> FALSE,
            then |-> "idle"]
EmptyStage == [cmds |-> {}, pass |-> 0]

ServerInit ==
    /\ session_tag = 0
    /\ net_id = 0
    /\ staged = EmptyStage
    /\ pending_count = 0
    /\ client = NoConnection
    /\ answer_queue = <<>>
    /\ handler = [c \in 1..MaxConnections |-> "none"]
    /\ call = "idle"
    /\ draining = NoDrain
    /\ commits = <<>>
    /\ returned = <<>>
    /\ written = <<>>
    /\ harvest = <<>>

-----------------------------------------------------------------------------
(* Staging and committing.                                                 *)

\* add_command: the slot of the type is replaced.
add_command(type, pass) ==
    /\ staged' = [cmds |-> staged.cmds \cup {type},
                  pass |-> IF type = "pass_ticks_after" THEN pass ELSE staged.pass]
    /\ UNCHANGED <<session_tag, net_id, pending_count, client, answer_queue, handler,
                   call, draining, commits, returned, written, harvest, wire>>

discard_staged ==
    /\ staged' = EmptyStage
    /\ UNCHANGED <<session_tag, net_id, pending_count, client, answer_queue, handler,
                   call, draining, commits, returned, written, harvest, wire>>

LineOf(tag, id, body) == [parses |-> TRUE, frame |-> [tag |-> tag, id |-> id, body |-> body]]

\* Bytes handed to the transport of c; it drops them once c is lost.
PutOnWire(c, line) ==
    wire' = IF wire[c].reset \/ wire[c].server = "closed" THEN wire
            ELSE [wire EXCEPT ![c].to_app = Append(@, line)]

\* commit_set up to its await: the net id is taken for the current session.
CommitNames ==
    /\ client # NoConnection
    /\ net_id' = net_id + 1
    /\ written' = Append(written, <<session_tag, net_id>>)

\* commit_set after its await.  Its caller is fcommand_commit_set, which
\* returns the name to the agent, or the latter's own caller,
\* blocking_shutdown_application, which goes on to wait for the process.
CommitReturns(name, then) ==
    /\ staged' = EmptyStage
    /\ pending_count' = pending_count + 1
    /\ commits' = Append(commits, name)
    /\ returned' = IF then = "idle" THEN Append(returned, name) ELSE returned
    /\ call' = then

\* The write buffer is below its high-water mark: drain() does not suspend.
CommitAtOnce(body, then) ==
    /\ CommitNames
    /\ PutOnWire(client, LineOf(session_tag, net_id, body))
    /\ CommitReturns(<<session_tag, net_id>>, then)
    /\ UNCHANGED <<session_tag, client, answer_queue, handler, draining, harvest>>

\* The peer has not read for a while: the line waits in the write buffer and
\* drain() suspends.
CommitSuspends(body, then) ==
    /\ CommitNames
    /\ staged' = body
    /\ call' = "draining"
    /\ draining' = [conn |-> client, tag |-> session_tag, id |-> net_id, flushed |-> FALSE,
                    then |-> then]
    /\ UNCHANGED <<session_tag, pending_count, client, answer_queue, handler,
                   commits, returned, harvest, wire>>

\* The transport gets rid of its buffer.
BufferFlushes ==
    /\ call = "draining"
    /\ ~draining.flushed
    /\ wire[draining.conn].server = "open"
    /\ ~wire[draining.conn].reset
    /\ PutOnWire(draining.conn, LineOf(draining.tag, draining.id, staged))
    /\ draining' = [draining EXCEPT !.flushed = TRUE]
    /\ UNCHANGED <<session_tag, net_id, staged, pending_count, client, answer_queue,
                   handler, call, commits, returned, written, harvest>>

CommitResumes ==
    /\ call = "draining"
    /\ draining.flushed
    /\ CommitReturns(<<draining.tag, draining.id>>, draining.then)
    /\ draining' = NoDrain
    /\ UNCHANGED <<session_tag, net_id, client, answer_queue, handler, written, harvest, wire>>

\* The connection is lost with the line still buffered: drain() raises, the
\* staged commands stay, the net id is spent.
CommitRaises ==
    /\ call = "draining"
    /\ ~draining.flushed
    /\ wire[draining.conn].reset \/ wire[draining.conn].server = "closed"
    /\ call' = "idle"
    /\ draining' = NoDrain
    /\ UNCHANGED <<session_tag, net_id, staged, pending_count, client, answer_queue,
                   handler, commits, returned, written, harvest, wire>>

-----------------------------------------------------------------------------
(* Harvesting.                                                             *)

\* Mutant: pending_count is decremented whatever ended the wait.
ReceiveItem_unguarded ==
    /\ call = "waiting"
    /\ answer_queue # <<>>
    /\ answer_queue' = Tail(answer_queue)
    /\ pending_count' = pending_count - 1
    /\ harvest' = Append(harvest, Head(answer_queue))
    /\ call' = "idle"
    /\ UNCHANGED <<session_tag, net_id, staged, client, handler, draining, commits,
                   returned, written, wire>>

\* Mutant: a None counts as an answer.
ReceiveItem_counts_none ==
    /\ call = "waiting"
    /\ answer_queue # <<>>
    /\ answer_queue' = Tail(answer_queue)
    /\ pending_count' = IF pending_count > 0 THEN pending_count - 1 ELSE pending_count
    /\ harvest' = Append(harvest, Head(answer_queue))
    /\ call' = "idle"
    /\ UNCHANGED <<session_tag, net_id, staged, client, handler, draining, commits,
                   returned, written, wire>>

\* receive_next_answer has an item: an answer, or a handler's None.
ReceiveItem ==
    /\ call = "waiting"
    /\ answer_queue # <<>>
    /\ answer_queue' = Tail(answer_queue)
    /\ pending_count' = IF Head(answer_queue).record /\ pending_count > 0
                        THEN pending_count - 1 ELSE pending_count
    /\ harvest' = Append(harvest, Head(answer_queue))
    /\ call' = "idle"
    /\ UNCHANGED <<session_tag, net_id, staged, client, handler, draining, commits,
                   returned, written, wire>>

ReceiveTimesOut ==
    /\ call = "waiting"
    /\ answer_queue = <<>>
    /\ harvest' = Append(harvest, NoRecord)
    /\ call' = "idle"
    /\ UNCHANGED <<session_tag, net_id, staged, pending_count, client, answer_queue,
                   handler, draining, commits, returned, written, wire>>

-----------------------------------------------------------------------------
(* Connection handlers.                                                    *)

\* Mutant: a reconnect keeps the session tag.
_on_client_connect_same_tag(c) ==
    /\ handler[c] = "none"
    /\ net_id' = 0
    /\ client' = c
    /\ handler' = [handler EXCEPT ![c] = "reading"]
    /\ UNCHANGED <<session_tag, staged, pending_count, answer_queue, call, draining,
                   commits, returned, written, harvest, wire>>

\* asyncio accepts a connection and starts its handler.
_on_client_connect(c) ==
    /\ handler[c] = "none"
    /\ session_tag' = session_tag + 1
    /\ net_id' = 0
    /\ client' = c
    /\ handler' = [handler EXCEPT ![c] = "reading"]
    /\ UNCHANGED <<staged, pending_count, answer_queue, call, draining, commits,
                   returned, written, harvest, wire>>

\* The finally block: whoever's connection it was, self._client is cleared,
\* a None is queued, and the handler closes its own writer.
HandlerCloses(c, items) ==
    /\ client' = NoConnection
    /\ answer_queue' = answer_queue \o items \o <<NoRecord>>

Records(answers) == [i \in 1..Len(answers) |-> Record(answers[i])]

\* Mutant: the newest answer is queued first.
HandlerReadsLine_first(c) ==
    /\ handler[c] = "reading"
    /\ wire[c].to_server # <<>>
    /\ client = c
    /\ answer_queue' = <<Record(Head(wire[c].to_server))>> \o answer_queue
    /\ wire' = [wire EXCEPT ![c].to_server = Tail(@)]
    /\ UNCHANGED <<session_tag, net_id, staged, pending_count, client, handler, call,
                   draining, commits, returned, written, harvest>>

\* _read_answers gets a line of its connection, queues it, and evaluates
\* self._client.reader again.  While self._client is its own connection it
\* awaits that.
HandlerReadsLine(c) ==
    /\ handler[c] = "reading"
    /\ wire[c].to_server # <<>>
    /\ client = c
    /\ answer_queue' = Append(answer_queue, Record(Head(wire[c].to_server)))
    /\ wire' = [wire EXCEPT ![c].to_server = Tail(@)]
    /\ UNCHANGED <<session_tag, net_id, staged, pending_count, client, handler, call,
                   draining, commits, returned, written, harvest>>

\* The handler of an older connection, late to notice its loss, has cleared
\* self._client meanwhile: the lines of the chunk are still queued, and then
\* None has no reader (AttributeError), which ends this handler as well.
HandlerOrphaned(c) ==
    /\ handler[c] = "reading"
    /\ client = NoConnection
    /\ \E k \in 1..Len(wire[c].to_server) :
         HandlerCloses(c, Records(SubSeq(wire[c].to_server, 1, k)))
    /\ wire' = [wire EXCEPT ![c] = [to_app |-> @.to_app, to_server |-> <<>>, app |-> @.app,
                                    server |-> "closed", reset |-> @.reset]]
    /\ handler' = [handler EXCEPT ![c] = "closed"]
    /\ UNCHANGED <<session_tag, net_id, staged, pending_count, call, draining, commits,
                   returned, written, harvest>>

\* End of file or a reset: _read_answers returns.
HandlerEnds(c) ==
    /\ handler[c] = "reading"
    /\ \/ wire[c].reset
       \/ wire[c].app = "closed" /\ wire[c].to_server = <<>>
    /\ HandlerCloses(c, <<>>)
    /\ handler' = [handler EXCEPT ![c] = "closed"]
    /\ ServerCloses(c)
    /\ UNCHANGED <<session_tag, net_id, staged, pending_count, call, draining, commits,
                   returned, written, harvest>>

ServerCoroutine ==
    \/ BufferFlushes
    \/ CommitResumes
    \/ CommitRaises
    \/ ReceiveItem
    \/ ReceiveTimesOut
    \/ \E c \in 1..Len(wire) :
         \/ _on_client_connect(c)
         \/ HandlerReadsLine(c)
         \/ HandlerOrphaned(c)
         \/ HandlerEnds(c)
=============================================================================
