---------------------------- MODULE CallPromise ----------------------------
(***************************************************************************)
(* What a conversation with an outside service promises to the worker that *)
(* holds it: the service makes at most one thing for it, a success names   *)
(* the thing that was made, a refusal means that nothing was made and that *)
(* nothing will be.  Only for a conversation that broke off may the worker *)
(* be unaware of what was made, or will be.                                *)
(***************************************************************************)
EXTENDS Naturals

CONSTANT Calls

VARIABLES made,   \* how many things the service has made for a call
          result  \* what the worker knows: "none" while the call lasts

Start == /\ made = [c \in Calls |-> 0]
         /\ result = [c \in Calls |-> "none"]

Answer(c, r) == /\ result[c] = "none"
                /\ result' = [result EXCEPT ![c] = r]

Make(c) == /\ made[c] = 0
           /\ made' = [made EXCEPT ![c] = 1]

MakeUnseen(c) == /\ result[c] \in {"none", "unknown"}
                 /\ Make(c)
                 /\ UNCHANGED result

Succeed(c) == Answer(c, "ok") /\ \/ made[c] = 1 /\ UNCHANGED made
                                 \/ Make(c)

Refuse(c) == Answer(c, "refused") /\ made[c] = 0 /\ UNCHANGED made

BreakOff(c) == Answer(c, "unknown") /\ (UNCHANGED made \/ Make(c))

Promise == \E c \in Calls : MakeUnseen(c) \/ Succeed(c) \/ Refuse(c) \/ BreakOff(c)

PromiseSpec == Start /\ [][Promise]_<<made, result>>
=============================================================================
