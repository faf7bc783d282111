----------------------------- MODULE RunThread -----------------------------
(***************************************************************************)
(* What the checkpointed thread of a run promises, whoever executes the    *)
(* run and however many do: nodes run only in a thread that was not        *)
(* finished when they began, only an execution that runs them finishes the *)
(* thread, and the run is recorded as completed only by an execution that  *)
(* finished it or found it finished.                                       *)
(***************************************************************************)
CONSTANT Executions

VARIABLES checkpoint,  \* newest checkpoint of the thread
          stage,       \* whether an execution runs nodes or is past them
          completed    \* the run's status says so

thread == <<checkpoint, stage, completed>>

Move(e, to) == stage' = [stage EXCEPT ![e] = to]

ThreadInit == /\ checkpoint = "none"
              /\ stage = [e \in Executions |-> "away"]
              /\ completed = FALSE

Enter(e) == /\ stage[e] = "away" /\ checkpoint # "done"
            /\ Move(e, "working")
            /\ UNCHANGED <<checkpoint, completed>>

Save(e) == /\ stage[e] = "working"
           /\ checkpoint' = "partial"
           /\ UNCHANGED <<stage, completed>>

Finish(e) == /\ stage[e] = "working"
             /\ checkpoint' = "done"
             /\ Move(e, "finished")
             /\ UNCHANGED completed

Replay(e) == /\ stage[e] = "away" /\ checkpoint = "done"
             /\ Move(e, "finished")
             /\ UNCHANGED <<checkpoint, completed>>

Complete(e) == /\ stage[e] = "finished"
               /\ completed' = TRUE
               /\ Move(e, "away")
               /\ UNCHANGED checkpoint

\* What an execution that runs nodes has done may be saved as it ends.
GiveUp(e) == /\ Move(e, "away")
             /\ \/ UNCHANGED checkpoint
                \/ stage[e] = "working" /\ checkpoint' \in {"partial", "done"}
             /\ completed' => completed

\* The run is tried again, or its execution fails before it has begun.
Reopen == /\ completed' = FALSE
          /\ UNCHANGED <<checkpoint, stage>>

ThreadNext ==
  \/ Reopen
  \/ \E e \in Executions : \/ Enter(e) \/ Save(e) \/ Finish(e)
                           \/ Replay(e) \/ Complete(e) \/ GiveUp(e)

ThreadSpec == ThreadInit /\ [][ThreadNext]_thread
-----------------------------------------------------------------------------
\* Nobody runs nodes in a finished thread.
AtRest == checkpoint = "done" /\ \A e \in Executions : stage[e] # "working"

(* A finished thread that no execution works on never runs a node again,   *)
(* nor is it taken back to an earlier checkpoint.                          *)
NotReworked == [][AtRest => AtRest']_thread
=============================================================================
