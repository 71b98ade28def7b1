------------------------------ MODULE Pipeline ------------------------------
(***************************************************************************)
(* What the signal laboratory's tasks promise about their shared buffers:  *)
(* frames go through the stages one after another, a stage has the buffers *)
(* to itself from its first access to its last, and the first stage does   *)
(* not touch them again before the last one is done with the frame.        *)
(***************************************************************************)
EXTENDS Integers

CONSTANTS Stages,       \* 1 .. Stages
          Frames

VARIABLES
    passed,     \* passes of a stage that are complete
    busy        \* the stages at work on the buffers

vars == <<passed, busy>>

NextStage == (passed % Stages) + 1

Init == passed = 0 /\ busy = {}

Enter == /\ busy = {} /\ passed < Stages * Frames
         /\ busy' = {NextStage}
         /\ UNCHANGED passed

Leave == /\ busy = {NextStage}
         /\ busy' = {}
         /\ passed' = passed + 1

Spec == Init /\ [][Enter \/ Leave]_vars
=============================================================================
