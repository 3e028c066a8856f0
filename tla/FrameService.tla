---------------------------- MODULE FrameService ----------------------------
(***************************************************************************)
(* What the renderer promises a remote controller, without its threads,    *)
(* queues and frames: the command sets it accepts are executed one after   *)
(* the other, in the order they were accepted and each at most once, and   *)
(* the answer to one is given before the next is executed.                 *)
(***************************************************************************)
EXTENDS Naturals, Sequences

CONSTANT CommandSet    \* the command sets a controller may send

VARIABLES
    accepted,    \* every command set accepted, in order
    executed,    \* every command set executed, in order
    answered,    \* the number of answers given
    up           \* the service still executes

serviceVars == <<accepted, executed, answered, up>>

ServiceInit ==
    /\ accepted = <<>>
    /\ executed = <<>>
    /\ answered = 0
    /\ up = TRUE

Accept(set) ==
    /\ accepted' = Append(accepted, set)
    /\ UNCHANGED <<executed, answered, up>>

Execute ==
    /\ up
    /\ Len(executed) < Len(accepted)
    /\ answered = Len(executed)
    /\ executed' = Append(executed, accepted[Len(executed) + 1])
    /\ UNCHANGED <<accepted, answered, up>>

Reply ==
    /\ answered < Len(executed)
    /\ answered' = answered + 1
    /\ UNCHANGED <<accepted, executed, up>>

\* Shutdown never leaves an executed set without its answer.
Stop ==
    /\ up
    /\ answered = Len(executed)
    /\ up' = FALSE
    /\ UNCHANGED <<accepted, executed, answered>>

ServiceNext ==
    \/ \E set \in CommandSet : Accept(set)
    \/ Execute
    \/ Reply
    \/ Stop

ServiceSpec == ServiceInit /\ [][ServiceNext]_serviceVars
=============================================================================
