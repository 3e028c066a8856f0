----------------------------- MODULE McpSession -----------------------------
(***************************************************************************)
(* The tools of RaypathMCPServer, called one at a time by an agent, over   *)
(* RemoteServer and the application process they launch.                   *)
(*                                                                         *)
(* The process is RemoteApp, which AppControl implements: the loop and the *)
(* network thread need not be modelled a second time here.                 *)
(***************************************************************************)
EXTENDS RemoteServer, RemoteApp, FiniteSets

CONSTANTS
    Commands,       \* the command types the agent stages
    MaxCommits,     \* bound: frames written in a run
    MaxHarvest,     \* bound: responses waited for in a run
    MaxLaunches,    \* bound: launches in a run
    MaxResets       \* bound: connections lost to the network in a run

ASSUME SessionBoundsAssumption ==
    /\ Commands \subseteq CommandType
    /\ {MaxCommits, MaxHarvest, MaxLaunches, MaxResets} \subseteq Nat

VARIABLES
    launches,    \* history: launches so far
    resets,      \* history: connections lost to the network
    orderly      \* history: every commit was made to a running application, every
                 \* wait followed a commit of its own, every launch came after the
                 \* responses to all commits, and the application exited only to a
                 \* shutdown

processVars == <<process, app_queue, launches, resets, orderly>>
sessionVars == <<serverVars, wire, processVars>>

\* The types of the session's state: no counter of the server goes below zero,
\* and no await is entered that nothing leads out of.
SessionTypeOK ==
    /\ ServerTypeOK
    /\ process \in {"none", "running", "exited"}
    /\ launches \in 0..MaxLaunches
    /\ resets \in 0..MaxResets
    /\ orderly \in BOOLEAN

SessionInit ==
    /\ ServerInit
    /\ WireInit
    /\ process = "none"
    /\ app_queue = <<>>
    /\ launches = 0
    /\ resets = 0
    /\ orderly = TRUE

-----------------------------------------------------------------------------
(* Building and launching.                                                 *)

\* blocking_build_and_launch_application: a process still known is killed.
LaunchBegins ==
    /\ call = "idle"
    /\ launches < MaxLaunches
    /\ launches' = launches + 1
    /\ call' = "launching"
    /\ IF process = "running" THEN ProcessGone ELSE UNCHANGED <<app_queue, wire>>
    /\ process' = "none"
    /\ orderly' = (orderly /\ Len(harvest) = Len(returned))
    /\ UNCHANGED <<session_tag, net_id, staged, pending_count, client, answer_queue,
                   handler, draining, commits, returned, written, harvest, resets>>

\* The build takes seconds and the event loop runs meanwhile: what the last
\* process left on its connection has been handled when the next one starts.
OldConnectionsHandled ==
    \A c \in 1..Len(wire) : handler[c] = "closed"

LaunchSpawns ==
    /\ call = "launching"
    /\ process = "none"
    /\ OldConnectionsHandled
    /\ process' = "running"
    /\ UNCHANGED <<serverVars, wire, app_queue, launches, resets, orderly>>

\* The configure or build step failed.
LaunchFails ==
    /\ call = "launching"
    /\ process = "none"
    /\ call' = "idle"
    /\ UNCHANGED <<session_tag, net_id, staged, pending_count, client, answer_queue,
                   handler, draining, commits, returned, written, harvest, wire, processVars>>

\* The application connected, or did not before the deadline.
LaunchReturns ==
    /\ call = "launching"
    /\ process # "none"
    /\ call' = "idle"
    /\ UNCHANGED <<session_tag, net_id, staged, pending_count, client, answer_queue,
                   handler, draining, commits, returned, written, harvest, wire, processVars>>

-----------------------------------------------------------------------------
(* The other tools.                                                        *)

fcommand(type) ==
    /\ call = "idle"
    /\ type \notin staged.cmds
    /\ add_command(type, 0)
    /\ UNCHANGED processVars

fcommand_discard_frame_set ==
    /\ call = "idle"
    /\ staged # EmptyStage
    /\ discard_staged
    /\ UNCHANGED processVars

MayCommit == call = "idle" /\ staged.cmds # {} /\ Len(written) < MaxCommits

\* After a shutdown a commit may still be written to the lost connection, until
\* its handler ends; an orderly agent launches first.
OrderlyCommit ==
    /\ orderly' = (orderly /\ process = "running")
    /\ UNCHANGED <<process, app_queue, launches, resets>>

fcommand_commit_set ==
    /\ MayCommit
    /\ CommitAtOnce(staged, "idle") \/ CommitSuspends(staged, "idle")
    /\ OrderlyCommit

blocking_wait_next_fcommand_response ==
    /\ call = "idle"
    /\ Len(harvest) < MaxHarvest
    /\ call' = "waiting"
    /\ orderly' = (orderly /\ Len(harvest) < Len(returned))
    /\ UNCHANGED <<session_tag, net_id, staged, pending_count, client, answer_queue,
                   handler, draining, commits, returned, written, harvest, wire, process,
                   app_queue, launches, resets>>

\* blocking_shutdown_application: a frame with (at least) the shutdown command.
ShutdownStaged == [staged EXCEPT !.cmds = @ \cup {"shutdown"}]

\* Without a client commit_set raises, and the command stays staged.
ShutdownRefused ==
    /\ call = "idle"
    /\ client = NoConnection
    /\ "shutdown" \notin staged.cmds
    /\ staged' = ShutdownStaged
    /\ UNCHANGED <<session_tag, net_id, pending_count, client, answer_queue, handler,
                   call, draining, commits, returned, written, harvest, wire, processVars>>

ShutdownCommits ==
    /\ call = "idle"
    /\ Len(written) < MaxCommits
    /\ \/ CommitAtOnce(ShutdownStaged, "exiting")
       \/ CommitSuspends(ShutdownStaged, "exiting")
    /\ OrderlyCommit

\* The process ended by itself, or is killed when the time is up.
ShutdownReturns ==
    /\ call = "exiting"
    /\ IF process = "running" THEN ProcessGone ELSE UNCHANGED <<app_queue, wire>>
    /\ process' = "none"
    /\ call' = "idle"
    /\ UNCHANGED <<session_tag, net_id, staged, pending_count, client, answer_queue,
                   handler, draining, commits, returned, written, harvest, launches, resets, orderly>>

-----------------------------------------------------------------------------
(* The application process.                                                *)

\* What the application does leaves the server alone.  An exit that no shutdown
\* asked for is disorderly.
Application ==
    /\ RemoteAppStep
    /\ orderly' = (orderly /\ (process' = process \/ call = "exiting"))
    /\ UNCHANGED <<serverVars, launches, resets>>

NetworkResets(c) ==
    /\ resets < MaxResets
    /\ Reset(c)
    /\ resets' = resets + 1
    /\ UNCHANGED <<serverVars, process, app_queue, launches, orderly>>

-----------------------------------------------------------------------------
Tools ==
    \/ LaunchBegins
    \/ LaunchSpawns
    \/ LaunchFails
    \/ LaunchReturns
    \/ \E type \in Commands : fcommand(type)
    \/ fcommand_discard_frame_set
    \/ fcommand_commit_set
    \/ blocking_wait_next_fcommand_response
    \/ ShutdownRefused
    \/ ShutdownCommits
    \/ ShutdownReturns

\* The agent has used up what the bounds allow.
SessionRests == call = "idle" /\ UNCHANGED sessionVars

SessionNext ==
    \/ Tools
    \/ ServerCoroutine /\ UNCHANGED processVars
    \/ Application
    \/ \E c \in 1..Len(wire) : NetworkResets(c)
    \/ SessionRests

SessionSpec == SessionInit /\ [][SessionNext]_sessionVars

-----------------------------------------------------------------------------
(* Properties.                                                             *)

ItemName(item) == <<item.tag, item.id>>

\* No two frames ever written carry the same (session tag, net id), though
\* net ids restart with every session and a commit may be suspended across
\* a reconnect: an answer names one frame only.
NamesUnique ==
    \A i, j \in 1..Len(written) : written[i] = written[j] => i = j

\* Every answer harvested is to a frame whose commit_set has returned, and the
\* answers come in the order of the commits, each at most once, across
\* disconnects, failed commits, reconnects and relaunches.
HarvestInCommitOrder ==
    /\ \A k \in 1..Len(harvest) : harvest[k].record =>
         \E i \in 1..Len(commits) : commits[i] = ItemName(harvest[k])
    /\ \A k, l \in 1..Len(harvest), i, j \in 1..Len(commits) :
         /\ k < l /\ harvest[k].record /\ harvest[l].record
         /\ commits[i] = ItemName(harvest[k]) /\ commits[j] = ItemName(harvest[l])
         => i < j

\* The commits whose answer was not harvested.
Outstanding ==
    {i \in 1..Len(commits) :
        \A k \in 1..Len(harvest) : harvest[k].record => ItemName(harvest[k]) # commits[i]}

\* pending_count, which the tools report to the agent, never claims fewer
\* outstanding answers than there are returned commits whose answer was not
\* harvested: losses make it too large, but no answer is left behind by an
\* agent that goes on until it is zero.
PendingCoversCommits == Cardinality(Outstanding) <= pending_count

\* "Call once per fcommand_commit_set, in commit order": with an agent that
\* does, and a network that loses nothing, the responses carry the net ids (that
\* alone, a response has no session tag) that fcommand_commit_set returned, one
\* after the other, until a wait brings none.
ResponseMatchesCommit ==
    orderly /\ resets = 0 =>
        \A k \in 1..Len(harvest) :
            (\A j \in 1..k : harvest[j].record) => harvest[k].id = returned[k][2]

\* A process is launched without a connection and with nothing to answer ...
NoProcessNoTraffic == process # "running" => app_queue = <<>> /\ ~AppConnected

\* ... and from then until it is killed, what the server, the tools and the
\* network do to it is what RemoteApp assumes of its peer: AppControl, which is
\* checked under that assumption, may stand in for it.
RemoteAppAssured ==
    [][process # "none" /\ process' # "none"
         => RemoteAppNext \/ UNCHANGED remoteAppVars]_sessionVars
=============================================================================
