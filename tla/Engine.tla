-------------------------------- MODULE Engine --------------------------------
(***************************************************************************)
(* What the parts of the application have in common: the number of frames  *)
(* the CPU may prepare before the GPU has finished the first of them       *)
(* (frames_in_flight), and the value of what is not there.                 *)
(***************************************************************************)
EXTENDS Naturals

CONSTANTS FramesInFlight, None

ASSUME EngineAssumption == FramesInFlight \in Nat \ {0}
=============================================================================
