----------------------------- MODULE FrameLoop -----------------------------
(***************************************************************************)
(* The CPU side of one window: the frame slots, the timeline semaphore of  *)
(* every physical queue and the GPU that trails behind (src/main.cxx,      *)
(* src/gpu/queue_set.cxx, src/gpu/swapchain.cxx).                          *)
(*                                                                         *)
(* A frame is opened on a slot once the GPU has reached the values that    *)
(* slot last submitted, records commands that access some Resources, and   *)
(* is submitted to one or more queues before the swapchain moves on to the *)
(* next slot.  Which resources exist and who retires them is left to the   *)
(* modules that extend this one: they conjoin their own steps to the       *)
(* phases of the frame.                                                    *)
(*                                                                         *)
(* A frame's batches on one queue are submitted together and nothing in    *)
(* another frame waits for a value between the first and the last, so they *)
(* count as one submission here, and every queue that takes part may       *)
(* access anything the frame recorded.                                     *)
(***************************************************************************)
EXTENDS Integers, FiniteSets

CONSTANTS
  FramesInFlight, \* frames_in_flight: how many slots the loop cycles through
  Queues,         \* the physical queues, each with a timeline semaphore
  Resources,      \* what recorded commands may access
  MaxFrames       \* bound of the model: frames opened in a behaviour

ASSUME FramesAssumption ==
  /\ FramesInFlight \in Nat \ {0}
  /\ MaxFrames \in Nat

VARIABLES
  phase,             \* how far draw() has come in the current frame
  frameNumber,       \* Renderer::frame_counter_
  slot,              \* Swapchain::current_frame_
  recreateRequested, \* Swapchain::recreate_requested_
  value,             \* QueueSet's last value signalled, per queue
  lastValue,         \* FrameSlot::last_value, per slot and queue
  done,              \* the value the GPU has reached, per queue
  recording,         \* what the commands recorded for this frame access
  inFlight           \* the submissions the GPU has not finished

loopVars == << phase, frameNumber, slot, recreateRequested, value, lastValue,
               done, recording, inFlight >>

Slots == 0 .. FramesInFlight - 1

\* "between": no frame is open, the application may update.
\* "open":    the slot is acquired; terrain uploads, scene submission and UI.
\* "prepared": prepare_frame() has begun: retirement ticked, uploads next.
\* "drawn":   the draws are resolved and recorded.
Phases == {"between", "open", "prepared", "drawn"}

Submissions == [frame: Nat, slot: Slots, queue: Queues, value: Nat,
                uses: SUBSET Resources]

LoopTypeOK ==
  /\ phase \in Phases
  /\ frameNumber \in Nat
  /\ slot \in Slots
  /\ recreateRequested \in BOOLEAN
  /\ value \in [Queues -> Nat]
  /\ lastValue \in [Slots -> [Queues -> Nat]]
  /\ done \in [Queues -> Nat]
  /\ recording \in SUBSET Resources
  /\ inFlight \in SUBSET Submissions

LoopInit ==
  /\ phase = "between"
  /\ frameNumber = 0
  /\ slot = 0
  /\ recreateRequested = FALSE
  /\ value = [q \in Queues |-> 0]
  /\ lastValue = [s \in Slots |-> [q \in Queues |-> 0]]
  /\ done = [q \in Queues |-> 0]
  /\ recording = {}
  /\ inFlight = {}

----------------------------------------------------------------------------

\* Mutant: waiting for one of the slot's timelines is enough.
SlotIsIdleOnOneQueue == \E q \in Queues : done[q] >= lastValue[slot][q]

\* QueueSet::begin_slot(): every timeline has reached what the slot waits for.
SlotIsIdle == \A q \in Queues : done[q] >= lastValue[slot][q]

\* begin_gpu_frame(): the slot wait, then an image is acquired.
BeginFrame ==
  /\ phase = "between"
  /\ frameNumber < MaxFrames
  /\ SlotIsIdle
  /\ ~recreateRequested
  /\ phase' = "open"
  /\ UNCHANGED << frameNumber, slot, recreateRequested, value, lastValue, done,
                  recording, inFlight >>

\* The window was resized since the last frame, or an out-of-date swapchain
\* could not be recreated because the surface has no extent at the moment.
WindowChanges ==
  /\ phase = "between"
  /\ recreateRequested' = TRUE
  /\ UNCHANGED << phase, frameNumber, slot, value, lastValue, done, recording,
                  inFlight >>

\* Swapchain::acquire() recreates instead, because it was asked to: recreate()
\* waits for the device, draw() returns and the same slot is tried again.
AcquireRecreates ==
  /\ phase = "between"
  /\ SlotIsIdle
  /\ recreateRequested
  /\ inFlight = {}
  /\ recreateRequested' = FALSE
  /\ UNCHANGED << phase, frameNumber, slot, value, lastValue, done, recording,
                  inFlight >>

\* Commands that access uses go into this frame's command buffers.
Record(uses) == recording' = recording \cup uses

\* Uploads go into the open frame: the terrain's before the UI, the model and
\* texture streamers' once prepare_frame() has begun.
RecordUploads(uses) ==
  /\ phase \in {"open", "prepared"}
  /\ Record(uses)
  /\ UNCHANGED << phase, frameNumber, slot, recreateRequested, value, lastValue,
                  done, inFlight >>

\* Renderer::prepare_frame() up to environment_.prepare(++frame_counter_).
PrepareFrame ==
  /\ phase = "open"
  /\ phase' = "prepared"
  /\ frameNumber' = frameNumber + 1
  /\ UNCHANGED << slot, recreateRequested, value, lastValue, done, recording,
                  inFlight >>

\* The rest of prepare_frame() and record_frame(): the draws read uses.
DrawFrame(uses) ==
  /\ phase = "prepared"
  /\ phase' = "drawn"
  /\ Record(uses)
  /\ UNCHANGED << frameNumber, slot, recreateRequested, value, lastValue, done,
                  inFlight >>

\* Swapchain::present()'s advance_frame.
NextSlot(s) == (s + 1) % FramesInFlight

\* Mutant: the slot remembers the values before this frame's signals.
SlotWaitsOneShort(used) ==
  [q \in Queues |-> IF q \in used THEN value[q] ELSE lastValue[slot][q]]

\* Mutant: the slot also waits for timelines this frame did not advance.
SlotWaitsUnsignalled(used) == [q \in Queues |-> value[q] + 1]

\* What the slot must wait for before it is reused: every timeline that
\* advanced, and what it already waited for on the others.
SlotWaits(used) ==
  [q \in Queues |-> IF q \in used THEN value[q] + 1 ELSE lastValue[slot][q]]

\* end_gpu_frame(): QueueSet::submit() to the queues in used, then present().
\* The graphics queue always takes part; which queue that is does not matter.
EndFrame(used) ==
  /\ phase = "drawn"
  /\ phase' = "between"
  /\ value' = [q \in Queues |-> IF q \in used THEN value[q] + 1 ELSE value[q]]
  /\ lastValue' = [lastValue EXCEPT ![slot] = SlotWaits(used)]
  /\ inFlight' = inFlight \cup
                   { [frame |-> frameNumber, slot |-> slot, queue |-> q,
                      value |-> value[q] + 1, uses |-> recording] : q \in used }
  /\ recording' = {}
  /\ slot' = NextSlot(slot)
  /\ recreateRequested' \in BOOLEAN
  /\ UNCHANGED << frameNumber, done >>

\* The GPU finishes the next submission of a queue and signals its timeline.
GpuFinishes(q) ==
  /\ done[q] < value[q]
  /\ done' = [done EXCEPT ![q] = @ + 1]
  /\ inFlight' = { s \in inFlight : ~(s.queue = q /\ s.value = done[q] + 1) }
  /\ UNCHANGED << phase, frameNumber, slot, recreateRequested, value, lastValue,
                  recording >>

LoopNext ==
  \/ BeginFrame
  \/ WindowChanges
  \/ AcquireRecreates
  \/ \E uses \in SUBSET Resources : RecordUploads(uses)
  \/ PrepareFrame
  \/ \E uses \in SUBSET Resources : DrawFrame(uses)
  \/ \E used \in (SUBSET Queues) \ {{}} : EndFrame(used)
  \/ \E q \in Queues : GpuFinishes(q)

\* draw() is called again and again by the main loop, a healthy GPU finishes
\* what it was given, and the window is not resized before every single frame.
LoopFairness ==
  /\ SF_loopVars(BeginFrame)
  /\ WF_loopVars(AcquireRecreates)
  /\ WF_loopVars(PrepareFrame)
  /\ WF_loopVars(phase = "prepared"
                   /\ \E uses \in SUBSET Resources : DrawFrame(uses))
  /\ WF_loopVars(phase = "drawn"
                   /\ \E used \in (SUBSET Queues) \ {{}} : EndFrame(used))
  /\ \A q \in Queues : WF_loopVars(GpuFinishes(q))

LoopSpec == LoopInit /\ [][LoopNext]_loopVars /\ LoopFairness

----------------------------------------------------------------------------

(* begin_slot() resets the slot's command pools and draw() records into them: *)
(* no submission the GPU is still executing was made from the open slot, on   *)
(* any queue the slot was ever used with.                                     *)
SlotCommandsFinished ==
  phase # "between" => \A s \in inFlight : s.slot # slot

(* The CPU never runs further ahead than the slots allow: while a frame is    *)
(* open, every unfinished submission is one of the FramesInFlight - 1 frames  *)
(* before it.  All deferred destruction in the renderer counts on this.       *)
CpuLead ==
  \A s \in inFlight :
    /\ s.frame <= frameNumber
    /\ phase = "between" => s.frame > frameNumber - FramesInFlight
    /\ phase = "open" => s.frame > frameNumber + 1 - FramesInFlight
    /\ phase \in {"prepared", "drawn"} => s.frame > frameNumber - FramesInFlight

(* The two together: a slot and what was recorded with it are free again when *)
(* it is their turn, and nothing the renderer deferred is waited for longer.  *)
FramesKeepApart == SlotCommandsFinished /\ CpuLead

(* The slot wait never waits for a value that no submission signals: with a   *)
(* GPU that keeps working the loop opens every frame the bound lets it, and   *)
(* the GPU finishes them all.                                                 *)
LoopKeepsRunning == <>[](frameNumber = MaxFrames /\ inFlight = {})

=============================================================================
