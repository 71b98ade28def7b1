--------------------------- MODULE TaskLifecycle ---------------------------
(***************************************************************************)
(* What the kernel promises about the life of a task, time and priorities  *)
(* left out.  A slot is filled by a creation; its task acts only while it  *)
(* has the processor and is able to run; it may be blocked and woken, and  *)
(* it leaves by its own call.  The slot, and everything the task held, is  *)
(* free again at the switch that takes the processor from it, not before.  *)
(***************************************************************************)
EXTENDS Naturals

CONSTANTS Tasks,        \* the slots
          Idle          \* who has the processor when no task is able to run

VARIABLES
    life,       \* of each slot: FREE, BLOCKED, READY or LEAVING
    holds,      \* resources each task holds
    on_cpu      \* the task on whose stack the processor is, or who else has it

vars == <<life, holds, on_cpu>>

Init ==
    /\ life = [id \in Tasks |-> "FREE"]
    /\ holds = [id \in Tasks |-> 0]
    /\ on_cpu \notin Tasks

Becomes(id, state) == life' = [life EXCEPT ![id] = state]

\* By main, or by a task that is able to run.
Create(id) ==
    /\ life[id] = "FREE"
    /\ on_cpu \in Tasks => life[on_cpu] = "READY"
    /\ Becomes(id, "READY") \/ Becomes(id, "BLOCKED")
    /\ UNCHANGED <<holds, on_cpu>>

Acts(id) == on_cpu = id /\ life[id] = "READY"

Take(id) == /\ Acts(id)
            /\ holds' = [holds EXCEPT ![id] = @ + 1]
            /\ UNCHANGED <<life, on_cpu>>

Give(id) == /\ Acts(id) /\ holds[id] > 0
            /\ holds' = [holds EXCEPT ![id] = @ - 1]
            /\ UNCHANGED <<life, on_cpu>>

Leave(id) == /\ Acts(id)
             /\ Becomes(id, "LEAVING") \/ Becomes(id, "BLOCKED")
             /\ UNCHANGED <<holds, on_cpu>>

\* Time passes: blocked tasks become able to run.
Wake(woken) ==
    /\ woken \subseteq {id \in Tasks : life[id] = "BLOCKED"}
    /\ life' = [id \in Tasks |-> IF id \in woken THEN "READY" ELSE life[id]]
    /\ UNCHANGED <<holds, on_cpu>>

\* To a task that is able to run, or to idle when there is none.
Switch(next) ==
    /\ IF next = Idle THEN \A id \in Tasks : life[id] # "READY"
       ELSE life[next] = "READY"
    /\ on_cpu' = next
    /\ IF on_cpu \in Tasks /\ life[on_cpu] = "LEAVING"
       THEN /\ Becomes(on_cpu, "FREE")
            /\ holds' = [holds EXCEPT ![on_cpu] = 0]
       ELSE UNCHANGED <<life, holds>>

Next ==
    \/ \E id \in Tasks : Create(id) \/ Take(id) \/ Give(id) \/ Leave(id)
    \/ \E woken \in SUBSET Tasks : Wake(woken)
    \/ \E next \in Tasks \cup {Idle} : Switch(next)

Spec == Init /\ [][Next]_vars
=============================================================================
