---------------------------- MODULE AssetProofs -----------------------------
(***************************************************************************)
(* What the GPU draws of the assets is still there.                        *)
(*                                                                         *)
(* FrameLoop's safety for every number of slots, any queues and any number *)
(* of frames; and on it that the countdown of the geometry arena is long   *)
(* enough, for any slices and buffer pairs: what a submission draws is     *)
(* reclaimed only after the submission has finished.                       *)
(*                                                                         *)
(* And a model's reference count is its owners, and the meshes that are    *)
(* drawn go with the models that draw them, for every number of files,     *)
(* models and references, and whenever the callers come and go.            *)
(***************************************************************************)
EXTENDS GeometryLifetime, ModelStreaming, FiniteSetTheorems, TLAPS

-----------------------------------------------------------------------------
(* The frame loop.                                                           *)

(* The frame the current slot belongs to: the next one until it is prepared. *)
SlotFrame == IF phase \in {"between", "open"} THEN frameNumber + 1
                                              ELSE frameNumber

(* A submission sits as many slots behind the current one as its frame is    *)
(* frames behind the current one.                                            *)
SlotBehind(s) ==
  \/ s.slot = slot - (SlotFrame - s.frame)
  \/ s.slot = slot - (SlotFrame - s.frame) + FramesInFlight

(* What the slot wait relies on: a submission is unfinished exactly while    *)
(* its queue has not reached its value, and its slot waits for that value.   *)
Awaited(s) ==
  /\ done[s.queue] < s.value
  /\ s.value <= value[s.queue]
  /\ s.value <= lastValue[s.slot][s.queue]

ValuesAgree ==
  \A q \in Queues :
    /\ done[q] <= value[q]
    /\ \A t \in Slots : lastValue[t][q] <= value[q]

(* CpuLead, counted from the frame of the current slot.  While a frame is    *)
(* between, the slot may still hold the submission FramesInFlight before it. *)
Lead(s) ==
  /\ s.frame <= SlotFrame
  /\ phase # "drawn" /\ phase # "prepared" => s.frame < SlotFrame
  /\ s.frame >= SlotFrame - FramesInFlight
  /\ phase # "between" => s.frame > SlotFrame - FramesInFlight
  /\ phase # "between" => s.frame < SlotFrame

LoopInv ==
  /\ LoopTypeOK
  /\ ValuesAgree
  /\ \A s \in inFlight : SlotBehind(s) /\ Awaited(s) /\ Lead(s)

-----------------------------------------------------------------------------

(* Before the first frame nothing is submitted. *)
LEMMA LoopInitInv == LoopInit => LoopInv
<1> SUFFICES ASSUME LoopInit PROVE LoopInv
  OBVIOUS
<1>1. 0 \in Slots
  BY FramesAssumption DEF Slots
<1>2. LoopTypeOK
  BY <1>1 DEF LoopInit, LoopTypeOK, Phases
<1>3. ValuesAgree
  BY DEF LoopInit, ValuesAgree
<1>4. inFlight = {}
  BY DEF LoopInit
<1>. QED
  BY <1>2, <1>3, <1>4 DEF LoopInv

(* Advancing a slot index wraps to 0 after the last one. *)
LEMMA NextSlotWraps ==
  ASSUME NEW s \in Slots
  PROVE  /\ NextSlot(s) \in Slots
         /\ NextSlot(s) = s + 1 \/ NextSlot(s) = s + 1 - FramesInFlight
         /\ s = NextSlot(s) - 1 \/ s = NextSlot(s) - 1 + FramesInFlight
BY FramesAssumption, SMTT(30) DEF NextSlot, Slots

(* When the slot wait is over, the submission that used the slot last is     *)
(* finished, so every other one is fewer than FramesInFlight frames behind.  *)
LEMMA SlotWaitEnds ==
  ASSUME LoopInv, phase = "between", SlotIsIdle, NEW s \in inFlight
  PROVE  s.frame > SlotFrame - FramesInFlight /\ s.slot # slot
<1>1. s \in Submissions
  BY DEF LoopInv, LoopTypeOK
<1>2. SlotBehind(s) /\ Awaited(s) /\ Lead(s)
  BY DEF LoopInv
<1>3. s.slot # slot
  <2>1. SUFFICES ASSUME s.slot = slot PROVE FALSE
    OBVIOUS
  <2>2. lastValue[slot][s.queue] <= done[s.queue]
    BY <1>1 DEF SlotIsIdle, Submissions, LoopInv, LoopTypeOK
  <2>. QED
    BY <1>1, <1>2, <2>1, <2>2 DEF Awaited, LoopInv, LoopTypeOK, Submissions
<1>4. s.frame # SlotFrame - FramesInFlight
  BY <1>1, <1>2, <1>3, FramesAssumption
  DEF SlotBehind, SlotFrame, Submissions, Slots, LoopInv, LoopTypeOK
<1>5. s.frame \in Int /\ SlotFrame \in Int /\ FramesInFlight \in Int
  BY <1>1, FramesAssumption DEF Submissions, SlotFrame, LoopInv, LoopTypeOK
<1>. QED
  BY <1>2, <1>3, <1>4, <1>5 DEF Lead

(* Steps that change neither the GPU's nor the queues' state keep LoopInv if *)
(* they keep the distance of every submission to the current slot.           *)
LEMMA LoopStepInv == LoopInv /\ [LoopNext]_loopVars => LoopInv'
<1> SUFFICES ASSUME LoopInv, [LoopNext]_loopVars
             PROVE  LoopInv'
  OBVIOUS
<1> USE FramesAssumption
<1>1. CASE BeginFrame
  <2>1. LoopTypeOK' /\ ValuesAgree'
    BY <1>1 DEF BeginFrame, LoopInv, LoopTypeOK, ValuesAgree, Phases
  <2>2. ASSUME NEW s \in inFlight'
        PROVE  SlotBehind(s)' /\ Awaited(s)' /\ Lead(s)'
    <3>1. s \in inFlight /\ s \in Submissions
      BY <1>1 DEF BeginFrame, LoopInv, LoopTypeOK
    <3>2. s.frame > SlotFrame - FramesInFlight
      BY <1>1, <3>1, SlotWaitEnds DEF BeginFrame
    <3>3. SlotBehind(s) /\ Awaited(s) /\ Lead(s)
      BY <3>1 DEF LoopInv
    <3>. QED
      BY <1>1, <3>1, <3>2, <3>3
      DEF BeginFrame, SlotBehind, Awaited, Lead, SlotFrame, LoopInv, LoopTypeOK,
          Submissions
  <2>. QED BY <2>1, <2>2 DEF LoopInv
<1>2. CASE WindowChanges \/ AcquireRecreates
  BY <1>2 DEF WindowChanges, AcquireRecreates, LoopInv, LoopTypeOK, ValuesAgree, SlotBehind,
              Awaited, Lead, SlotFrame
<1>3. ASSUME NEW uses \in SUBSET Resources, RecordUploads(uses)
      PROVE  LoopInv'
  BY <1>3 DEF RecordUploads, Record, LoopInv, LoopTypeOK, ValuesAgree,
              SlotBehind, Awaited, Lead, SlotFrame
<1>4. CASE PrepareFrame
  <2>1. LoopTypeOK' /\ ValuesAgree'
    BY <1>4 DEF PrepareFrame, LoopInv, LoopTypeOK, ValuesAgree, Phases
  <2>2. SlotFrame' = SlotFrame /\ phase = "open" /\ phase' = "prepared"
    BY <1>4 DEF PrepareFrame, SlotFrame
  <2>3. ASSUME NEW s \in inFlight'
        PROVE  SlotBehind(s)' /\ Awaited(s)' /\ Lead(s)'
    BY <1>4, <2>2 DEF PrepareFrame, SlotBehind, Awaited, Lead, LoopInv
  <2>. QED BY <2>1, <2>3 DEF LoopInv
<1>5. ASSUME NEW uses \in SUBSET Resources, DrawFrame(uses)
      PROVE  LoopInv'
  BY <1>5 DEF DrawFrame, Record, LoopInv, LoopTypeOK, ValuesAgree, Phases,
              SlotBehind, Awaited, Lead, SlotFrame
<1>6. ASSUME NEW used \in (SUBSET Queues) \ {{}}, EndFrame(used)
      PROVE  LoopInv'
  <2>. DEFINE Sent == { [frame |-> frameNumber, slot |-> slot, queue |-> q,
                         value |-> value[q] + 1, uses |-> recording] : q \in used }
  <2>1. LoopTypeOK
    BY DEF LoopInv
  <2>2. /\ phase = "drawn" /\ phase' = "between"
        /\ frameNumber' = frameNumber /\ done' = done
        /\ inFlight' = inFlight \cup Sent
        /\ slot' = NextSlot(slot)
        /\ value' = [q \in Queues |-> IF q \in used THEN value[q] + 1 ELSE value[q]]
        /\ lastValue' = [lastValue EXCEPT ![slot] = SlotWaits(used)]
    BY <1>6 DEF EndFrame
  <2>3. SlotFrame = frameNumber /\ SlotFrame' = frameNumber + 1
    BY <2>2 DEF SlotFrame
  <2>4. \A q \in Queues : /\ value'[q] \in Nat
                          /\ value'[q] = value[q] \/ value'[q] = value[q] + 1
    BY <2>1, <2>2 DEF LoopTypeOK
  <2>5. /\ lastValue' \in [Slots -> [Queues -> Nat]]
        /\ \A t \in Slots, q \in Queues :
              lastValue'[t][q] = lastValue[t][q] \/ lastValue'[t][q] = value'[q]
    BY <2>1, <2>2 DEF LoopTypeOK, SlotWaits
  <2>6. \A q \in used : lastValue'[slot][q] = value[q] + 1 /\ value'[q] = value[q] + 1
    BY <2>1, <2>2 DEF LoopTypeOK, SlotWaits
  <2>7. Sent \subseteq Submissions
    BY <2>1 DEF LoopTypeOK, Submissions
  <2>8. LoopTypeOK'
    BY <1>6, <2>1, <2>2, <2>5, <2>7, NextSlotWraps DEF LoopTypeOK, EndFrame, Phases
  <2>9. ValuesAgree'
    <3>1. \A q \in Queues : done[q] \in Nat /\ value[q] \in Nat /\ done[q] <= value[q]
      BY <2>1 DEF LoopInv, ValuesAgree, LoopTypeOK
    <3>2. \A t \in Slots, q \in Queues :
            lastValue[t][q] \in Nat /\ lastValue[t][q] <= value[q]
      BY <2>1 DEF LoopInv, ValuesAgree, LoopTypeOK
    <3>. QED BY <2>2, <2>4, <2>5, <3>1, <3>2 DEF ValuesAgree
  <2>10. ASSUME NEW s \in inFlight
         PROVE  SlotBehind(s)' /\ Awaited(s)' /\ Lead(s)'
    <3>1. s \in Submissions /\ SlotBehind(s) /\ Awaited(s) /\ Lead(s)
      BY DEF LoopInv, LoopTypeOK
    <3>2. s.slot \in Slots /\ s.queue \in Queues /\ s.value \in Nat /\ s.frame \in Nat
      BY <3>1 DEF Submissions
    <3>3. SlotBehind(s)'
      <4>1. slot' = slot + 1 \/ slot' = slot + 1 - FramesInFlight
        BY <2>1, <2>2, NextSlotWraps DEF LoopTypeOK
      <4>2. slot \in Slots /\ slot' \in Slots /\ frameNumber \in Nat
        BY <2>1, <2>8 DEF LoopTypeOK
      <4>3. /\ s.frame < frameNumber /\ s.frame > frameNumber - FramesInFlight
            /\ \/ s.slot = slot - (frameNumber - s.frame)
               \/ s.slot = slot - (frameNumber - s.frame) + FramesInFlight
        BY <2>2, <2>3, <3>1 DEF SlotBehind, Lead
      <4>4. \/ s.slot = slot' - (frameNumber + 1 - s.frame)
            \/ s.slot = slot' - (frameNumber + 1 - s.frame) + FramesInFlight
        BY <3>2, <4>1, <4>2, <4>3 DEF Slots
      <4>. QED BY <2>3, <3>2, <4>2, <4>4 DEF SlotBehind, Slots
    <3>4. Awaited(s)'
      <4>1. /\ value[s.queue] \in Nat /\ lastValue[s.slot][s.queue] \in Nat
            /\ lastValue[s.slot][s.queue] <= value[s.queue]
        BY <2>1, <3>2 DEF LoopInv, LoopTypeOK, ValuesAgree
      <4>2. \/ lastValue'[s.slot][s.queue] = lastValue[s.slot][s.queue]
            \/ lastValue'[s.slot][s.queue] = value'[s.queue]
        BY <2>5, <3>2
      <4>3. value'[s.queue] = value[s.queue] \/ value'[s.queue] = value[s.queue] + 1
        BY <2>4, <3>2
      <4>. QED BY <2>2, <3>1, <3>2, <4>1, <4>2, <4>3 DEF Awaited
    <3>5. Lead(s)'
      BY <2>1, <2>2, <2>3, <3>1, <3>2 DEF Lead, LoopTypeOK
    <3>. QED BY <3>3, <3>4, <3>5
  <2>11. ASSUME NEW s \in Sent
         PROVE  SlotBehind(s)' /\ Awaited(s)' /\ Lead(s)'
    <3>1. PICK q \in used : s = [frame |-> frameNumber, slot |-> slot, queue |-> q,
                                 value |-> value[q] + 1, uses |-> recording]
      OBVIOUS
    <3>2. /\ s.frame = frameNumber /\ s.slot = slot
          /\ s.queue = q /\ s.value = value[q] + 1
      BY <3>1
    <3>3. q \in Queues /\ done[q] \in Nat /\ value[q] \in Nat /\ done[q] <= value[q]
      BY <2>1 DEF LoopInv, LoopTypeOK, ValuesAgree
    <3>4. SlotBehind(s)'
      <4>1. s.slot = slot' - 1 \/ s.slot = slot' - 1 + FramesInFlight
        BY <2>1, <2>2, <3>2, NextSlotWraps DEF LoopTypeOK
      <4>2. SlotFrame' - s.frame = 1
        BY <2>1, <2>3, <3>2 DEF LoopTypeOK
      <4>. QED BY <4>1, <4>2 DEF SlotBehind
    <3>5. Awaited(s)'
      BY <2>2, <2>6, <3>2, <3>3 DEF Awaited
    <3>6. Lead(s)'
      BY <2>1, <2>2, <2>3, <3>2 DEF Lead, LoopTypeOK
    <3>. QED BY <3>4, <3>5, <3>6
  <2>. QED BY <2>2, <2>8, <2>9, <2>10, <2>11 DEF LoopInv
<1>7. ASSUME NEW q \in Queues, GpuFinishes(q)
      PROVE  LoopInv'
  <2>1. LoopTypeOK' /\ ValuesAgree'
    BY <1>7 DEF GpuFinishes, LoopInv, LoopTypeOK, ValuesAgree
  <2>2. ASSUME NEW s \in inFlight'
        PROVE  SlotBehind(s)' /\ Awaited(s)' /\ Lead(s)'
    <3>1. s \in inFlight /\ s \in Submissions /\ ~(s.queue = q /\ s.value = done[q] + 1)
      BY <1>7 DEF GpuFinishes, LoopInv, LoopTypeOK
    <3>2. SlotBehind(s) /\ Awaited(s) /\ Lead(s)
      BY <3>1 DEF LoopInv
    <3>3. SlotBehind(s)' /\ Lead(s)'
      BY <1>7, <3>2 DEF GpuFinishes, SlotBehind, Lead, SlotFrame
    <3>4. Awaited(s)'
      BY <1>7, <3>1, <3>2 DEF GpuFinishes, Awaited, LoopInv, LoopTypeOK, Submissions
    <3>. QED BY <3>3, <3>4
  <2>. QED BY <2>1, <2>2 DEF LoopInv
<1>8. CASE UNCHANGED loopVars
  BY <1>8 DEF loopVars, LoopInv, LoopTypeOK, ValuesAgree, SlotBehind, Awaited,
              Lead, SlotFrame
<1>. QED
  BY <1>1, <1>2, <1>3, <1>4, <1>5, <1>6, <1>7, <1>8 DEF LoopNext

-----------------------------------------------------------------------------

(* Every state of the loop has values of the right types. *)
THEOREM LoopTypeCorrect == LoopSpec => []LoopTypeOK
<1>1. LoopInv => LoopTypeOK
  BY DEF LoopInv
<1>. QED
  BY LoopInitInv, LoopStepInv, <1>1, PTL DEF LoopSpec

(* The CPU is never more than FramesInFlight - 1 frames ahead of a submission *)
(* the GPU has not finished, whatever queues the frames went to.              *)
THEOREM LoopCpuLead == LoopSpec => []CpuLead
<1>1. LoopInv => CpuLead
  <2> SUFFICES ASSUME LoopInv, NEW s \in inFlight
               PROVE  /\ s.frame <= frameNumber
                      /\ phase = "between" => s.frame > frameNumber - FramesInFlight
                      /\ phase = "open" => s.frame > frameNumber + 1 - FramesInFlight
                      /\ phase \in {"prepared", "drawn"} =>
                            s.frame > frameNumber - FramesInFlight
    BY DEF CpuLead
  <2>1. Lead(s) /\ s \in Submissions /\ LoopTypeOK
    BY DEF LoopInv, LoopTypeOK
  <2>. QED
    BY <2>1, FramesAssumption DEF Lead, SlotFrame, Submissions, LoopTypeOK, Phases
<1>. QED
  BY LoopInitInv, LoopStepInv, <1>1, PTL DEF LoopSpec

(* While a frame is open, none of the unfinished submissions came from its    *)
(* slot, so its command pools may be reset and recorded into.                 *)
THEOREM LoopSlotFinished == LoopSpec => []SlotCommandsFinished
<1>1. LoopInv => SlotCommandsFinished
  <2> SUFFICES ASSUME LoopInv, phase # "between", NEW s \in inFlight
               PROVE  s.slot # slot
    BY DEF SlotCommandsFinished
  <2>1. Lead(s) /\ SlotBehind(s) /\ s \in Submissions /\ LoopTypeOK
    BY DEF LoopInv, LoopTypeOK
  <2>. QED
    BY <2>1, FramesAssumption DEF Lead, SlotBehind, SlotFrame, Submissions,
                                  LoopTypeOK, Slots
<1>. QED
  BY LoopInitInv, LoopStepInv, <1>1, PTL DEF LoopSpec

(* Frames are kept apart: the slot that is open is finished, and the GPU is   *)
(* behind by less than there are slots.                                       *)
THEOREM LoopKeepsApart == LoopSpec => []FramesKeepApart
<1>1. SlotCommandsFinished /\ CpuLead => FramesKeepApart
  BY DEF FramesKeepApart
<1>. QED
  BY LoopCpuLead, LoopSlotFinished, <1>1, PTL

-----------------------------------------------------------------------------
(* The geometry arena.                                                       *)

(* The reason: while a submission that draws an item is unfinished, the item *)
(* has enough ticks left to count down past the frame that waits for the     *)
(* submission.                                                               *)
Outlives(retired) ==
  \A s \in inFlight, e \in retired :
    <<"draw", e.item>> \in s.uses =>
      s.frame + FramesInFlight <= frameNumber + e.framesRemaining

(* Only the last phase of a frame holds draws, and they are of what the      *)
(* arena holds now.                                                          *)
RecordedDraws ==
  /\ \A r \in Slices : <<"draw", r>> \in recording => phase = "drawn" /\ r \in live
  /\ \A p \in Pairs : <<"draw", p>> \in recording => phase = "drawn" /\ p = pair

NotHeldAndRetired ==
  /\ live \cap Items(retiring) = {}
  /\ pair \notin Items(retiredPairs)

ArenaInv ==
  /\ LoopInv
  /\ TypeOK
  /\ DrawnSlicesKept
  /\ DrawnPairsKept
  /\ Outlives(retiring)
  /\ Outlives(retiredPairs)
  /\ RecordedDraws
  /\ NotHeldAndRetired

-----------------------------------------------------------------------------

(* Nothing is uploaded, drawn or retired before the first frame. *)
LEMMA ArenaInitInv == Init => ArenaInv
<1> SUFFICES ASSUME Init PROVE ArenaInv
  OBVIOUS
<1>1. LoopInv /\ LoopTypeOK
  BY LoopInitInv DEF Init, LoopInv
<1>2. /\ inFlight = {} /\ recording = {} /\ live = {} /\ retiring = {}
      /\ retiredPairs = {} /\ pair \in Pairs
  BY DEF Init, LoopInit
<1>. QED
  BY <1>1, <1>2 DEF ArenaInv, TypeOK, DrawnSlicesKept, DrawnPairsKept, Outlives,
                    RecordedDraws, NotHeldAndRetired, Items

(* allocate_bytes() leaves the pair alone or replaces it by another one. *)
LEMMA PairAfterAllocation ==
  ASSUME TypeOK, KeepPair \/ \E p \in Pairs : GrowTo(p)
  PROVE  pair' \in Pairs /\ retiredPairs' \in SUBSET Countdowns(Pairs)
<1>1. CASE KeepPair
  BY <1>1 DEF KeepPair, TypeOK
<1>2. ASSUME NEW p \in Pairs, GrowTo(p)
      PROVE  pair' \in Pairs /\ retiredPairs' \in SUBSET Countdowns(Pairs)
  BY <1>2, FramesAssumption DEF GrowTo, TypeOK, Retired, Countdowns
<1>. QED
  BY <1>1, <1>2

(* Every step of the arena is a step of the frame loop or leaves it alone. *)
LEMMA ArenaStepsLoop == TypeOK /\ [Next]_vars => [LoopNext]_loopVars
<1> SUFFICES ASSUME TypeOK, [Next]_vars PROVE [LoopNext]_loopVars
  OBVIOUS
<1>1. ASSUME NEW r \in Slices, Upload(r) \/ WriteFails(r)
      PROVE  LoopNext
  <2>1. RecordUploads(CopyInto(r)) /\ (KeepPair \/ \E p \in Pairs : GrowTo(p))
    BY <1>1 DEF Upload, WriteFails
  <2>2. pair \in Pairs /\ pair' \in Pairs
    BY <2>1, PairAfterAllocation DEF TypeOK
  <2>3. CopyInto(r) \in SUBSET Resources
    BY <2>2, GeometryAssumption DEF CopyInto, Accesses
  <2>. QED BY <2>1, <2>3 DEF LoopNext
<1>2. ASSUME NEW r \in Slices, UploadNow(r) \/ Retire(r)
      PROVE  UNCHANGED loopVars
  BY <1>2 DEF UploadNow, Retire, loopVars
<1>3. ASSUME Draw
      PROVE  LoopNext
  <2>1. PICK drawn \in SUBSET Drawable :
          DrawFrame({"draw"} \X (drawn \cup {pair}))
    BY <1>3 DEF Draw
  <2>2. drawn \subseteq Slices /\ pair \in Pairs
    BY DEF Drawable, TypeOK
  <2>3. {"draw"} \X (drawn \cup {pair}) \in SUBSET Resources
    BY <2>2, GeometryAssumption DEF Accesses
  <2>. QED BY <2>1, <2>3 DEF LoopNext
<1>4. ASSUME Begin \/ Recreate \/ Prepare \/ End \/ Finish
      PROVE  LoopNext
  BY <1>4 DEF Begin, Recreate, Prepare, End, Finish, LoopNext
<1>5. CASE UNCHANGED vars
  BY <1>5 DEF vars
<1>. QED
  BY <1>1, <1>2, <1>3, <1>4, <1>5 DEF Next

(* A submission never belongs to a frame after the current one. *)
LEMMA SubmittedBefore ==
  ASSUME LoopInv, NEW s \in inFlight
  PROVE  s.frame \in Nat /\ s.frame <= frameNumber
<1>1. Lead(s) /\ s \in Submissions /\ frameNumber \in Nat
  BY DEF LoopInv, LoopTypeOK
<1>. QED
  BY <1>1 DEF Lead, SlotFrame, Submissions, LoopInv, LoopTypeOK, Phases

(* So whatever is retired outlives every submission there is. *)
LEMMA RetiredOutlives ==
  ASSUME LoopInv, NEW s \in inFlight, NEW item
  PROVE  s.frame + FramesInFlight <= frameNumber + Retired(item).framesRemaining
<1>1. s.frame \in Nat /\ s.frame <= frameNumber /\ frameNumber \in Nat
  BY SubmittedBefore DEF LoopInv, LoopTypeOK
<1>2. Retired(item).framesRemaining = FramesInFlight
  BY DEF Retired
<1>. QED
  BY <1>1, <1>2, FramesAssumption

(* A tick happens after the slot wait: what a submission still draws has more *)
(* than one tick left, so the tick does not reclaim it.                       *)
LEMMA DrawnSurvivesTick ==
  ASSUME LoopInv, phase = "open", NEW S,
         NEW retired \in SUBSET Countdowns(S), Outlives(retired),
         NEW s \in inFlight, NEW e \in retired, <<"draw", e.item>> \in s.uses
  PROVE  e.framesRemaining > 1
<1>1. Lead(s) /\ s \in Submissions /\ frameNumber \in Nat
  BY DEF LoopInv, LoopTypeOK
<1>2. s.frame > frameNumber + 1 - FramesInFlight /\ s.frame \in Nat
  BY <1>1, FramesAssumption DEF Lead, SlotFrame, Submissions
<1>3. s.frame + FramesInFlight <= frameNumber + e.framesRemaining
  BY DEF Outlives
<1>4. e.framesRemaining \in 1 .. FramesInFlight
  BY DEF Countdowns
<1>. QED
  BY <1>1, <1>2, <1>3, <1>4, FramesAssumption

(* Ticking keeps what is left to count down in step with the frame number. *)
LEMMA TickedOutlives ==
  ASSUME LoopInv, PrepareFrame, NEW S,
         NEW retired \in SUBSET Countdowns(S), Outlives(retired)
  PROVE  /\ Ticked(retired) \in SUBSET Countdowns(S)
         /\ Items(Ticked(retired)) \subseteq Items(retired)
         /\ \A s \in inFlight, e \in Ticked(retired) :
               <<"draw", e.item>> \in s.uses =>
                 s.frame + FramesInFlight <= frameNumber' + e.framesRemaining
         /\ \A s \in inFlight, item \in Items(retired) :
               <<"draw", item>> \in s.uses => item \in Items(Ticked(retired))
<1>1. phase = "open" /\ frameNumber \in Nat /\ frameNumber' = frameNumber + 1
  BY DEF PrepareFrame, LoopInv, LoopTypeOK
<1>2. ASSUME NEW t \in Ticked(retired)
      PROVE  \E e \in retired : /\ t.item = e.item /\ e.framesRemaining > 1
                                /\ t.framesRemaining = e.framesRemaining - 1
                                /\ t = [item |-> e.item,
                                        framesRemaining |-> e.framesRemaining - 1]
  BY DEF Ticked
<1>3. Ticked(retired) \in SUBSET Countdowns(S)
  <2> SUFFICES ASSUME NEW t \in Ticked(retired) PROVE t \in Countdowns(S)
    OBVIOUS
  <2>1. PICK e \in retired : /\ e.framesRemaining > 1
                             /\ t = [item |-> e.item,
                                     framesRemaining |-> e.framesRemaining - 1]
    BY <1>2
  <2>2. e.item \in S /\ e.framesRemaining \in 1 .. FramesInFlight
    BY DEF Countdowns
  <2>3. e.framesRemaining - 1 \in 1 .. FramesInFlight
    BY <2>1, <2>2, FramesAssumption
  <2>. QED BY <2>1, <2>2, <2>3 DEF Countdowns
<1>4. Items(Ticked(retired)) \subseteq Items(retired)
  BY <1>2 DEF Items
<1>5. ASSUME NEW s \in inFlight, NEW t \in Ticked(retired),
             <<"draw", t.item>> \in s.uses
      PROVE  s.frame + FramesInFlight <= frameNumber' + t.framesRemaining
  <2>1. PICK e \in retired : /\ t.item = e.item
                             /\ t.framesRemaining = e.framesRemaining - 1
    BY <1>2
  <2>2. s.frame + FramesInFlight <= frameNumber + e.framesRemaining
    BY <1>5, <2>1 DEF Outlives
  <2>3. e.framesRemaining \in Nat /\ s.frame \in Nat
    BY SubmittedBefore DEF Countdowns
  <2>. QED BY <1>1, <2>1, <2>2, <2>3, FramesAssumption
<1>6. ASSUME NEW s \in inFlight, NEW item \in Items(retired),
             <<"draw", item>> \in s.uses
      PROVE  item \in Items(Ticked(retired))
  <2>1. PICK e \in retired : e.item = item
    BY DEF Items
  <2>2. e.framesRemaining > 1
    BY <1>1, <1>6, <2>1, DrawnSurvivesTick
  <2>3. [item |-> e.item, framesRemaining |-> e.framesRemaining - 1] \in Ticked(retired)
    BY <2>2 DEF Ticked
  <2>. QED BY <2>1, <2>3 DEF Items
<1>. QED
  BY <1>3, <1>4, <1>5, <1>6

-----------------------------------------------------------------------------

(* Growing while nothing is drawn yet leaves every drawn pair in existence. *)
LEMMA GrowthKeepsPairs ==
  ASSUME ArenaInv, KeepPair \/ \E p \in Pairs : GrowTo(p),
         inFlight' = inFlight, frameNumber' = frameNumber
  PROVE  /\ DrawnPairsKept'
         /\ Outlives(retiredPairs)'
         /\ pair' \notin Items(retiredPairs)'
<1>1. CASE KeepPair
  BY <1>1 DEF KeepPair, ArenaInv, DrawnPairsKept, ExistingPairs, Outlives,
              NotHeldAndRetired, Items
<1>2. ASSUME NEW p \in Pairs, GrowTo(p)
      PROVE  /\ DrawnPairsKept'
             /\ Outlives(retiredPairs)'
             /\ pair' \notin Items(retiredPairs)'
  <2>1. /\ p \notin ExistingPairs /\ pair' = p
        /\ retiredPairs' = retiredPairs \cup {Retired(pair)}
    BY <1>2 DEF GrowTo
  <2>2. Retired(pair).item = pair
    BY DEF Retired
  <2>3. Items(retiredPairs)' = Items(retiredPairs) \cup {pair}
    BY <2>1, <2>2 DEF Items
  <2>4. \A s \in inFlight :
          s.frame + FramesInFlight <= frameNumber + Retired(pair).framesRemaining
    BY RetiredOutlives DEF ArenaInv
  <2>5. DrawnPairsKept'
    BY <2>1, <2>3 DEF ArenaInv, DrawnPairsKept, ExistingPairs
  <2>6. Outlives(retiredPairs)'
    BY <2>1, <2>4 DEF ArenaInv, Outlives
  <2>7. pair' \notin Items(retiredPairs)'
    BY <2>1, <2>3 DEF ExistingPairs
  <2>. QED BY <2>5, <2>6, <2>7
<1>. QED
  BY <1>1, <1>2

(* A retired slice has all its ticks ahead of it. *)
LEMMA RetiringOutlives ==
  ASSUME ArenaInv, NEW r, retiring' = retiring \cup {Retired(r)},
         inFlight' = inFlight, frameNumber' = frameNumber
  PROVE  Outlives(retiring)' /\ Items(retiring)' = Items(retiring) \cup {r}
<1>1. \A s \in inFlight :
        s.frame + FramesInFlight <= frameNumber + Retired(r).framesRemaining
  BY RetiredOutlives DEF ArenaInv
<1>2. Retired(r).item = r
  BY DEF Retired
<1>. QED
  BY <1>1, <1>2 DEF ArenaInv, Outlives, Items

(* Copies are not draws. *)
LEMMA CopiesAreNotDraws ==
  ASSUME NEW r, NEW x
  PROVE  <<"draw", x>> \notin CopyInto(r)
BY DEF CopyInto

(* ArenaInv is inductive. *)
LEMMA ArenaStepInv == ArenaInv /\ [Next]_vars => ArenaInv'
<1> SUFFICES ASSUME ArenaInv, [Next]_vars
             PROVE  ArenaInv'
  OBVIOUS
<1>1. LoopInv' /\ LoopTypeOK'
  BY ArenaStepsLoop, LoopStepInv DEF ArenaInv, LoopInv
<1>2. /\ TypeOK /\ DrawnSlicesKept /\ DrawnPairsKept /\ Outlives(retiring)
      /\ Outlives(retiredPairs) /\ RecordedDraws /\ NotHeldAndRetired /\ LoopInv
  BY DEF ArenaInv
<1> DEFINE Kept == /\ TypeOK' /\ DrawnSlicesKept' /\ DrawnPairsKept'
                   /\ Outlives(retiring)' /\ Outlives(retiredPairs)'
                   /\ RecordedDraws' /\ NotHeldAndRetired'
<1>3. ASSUME NEW r \in Slices, Upload(r) \/ UploadNow(r)
      PROVE  Kept
  <2>1. /\ r \in FreeSlices /\ live' = live \cup {r} /\ retiring' = retiring
        /\ KeepPair \/ \E p \in Pairs : GrowTo(p)
        /\ inFlight' = inFlight /\ frameNumber' = frameNumber /\ phase' = phase
        /\ phase # "drawn"
        /\ recording' = recording \/ recording' = recording \cup CopyInto(r)
    BY <1>3 DEF Upload, UploadNow, RecordUploads, Record, loopVars
  <2>2. TypeOK'
    BY <1>1, <1>2, <2>1, PairAfterAllocation DEF TypeOK
  <2>3. DrawnPairsKept' /\ Outlives(retiredPairs)' /\ pair' \notin Items(retiredPairs)'
    BY <2>1, GrowthKeepsPairs
  <2>4. DrawnSlicesKept' /\ Outlives(retiring)'
    BY <1>2, <2>1 DEF DrawnSlicesKept, Outlives, Items
  <2>5. RecordedDraws'
    BY <1>2, <2>1, CopiesAreNotDraws DEF RecordedDraws
  <2>6. NotHeldAndRetired'
    BY <1>2, <2>1, <2>3 DEF NotHeldAndRetired, FreeSlices, Items
  <2>. QED BY <2>2, <2>3, <2>4, <2>5, <2>6
<1>4. ASSUME NEW r \in Slices, Retire(r)
      PROVE  Kept
  <2>1. /\ phase # "drawn" /\ r \in live /\ live' = live \ {r}
        /\ retiring' = retiring \cup {Retired(r)}
        /\ inFlight' = inFlight /\ frameNumber' = frameNumber /\ phase' = phase
        /\ recording' = recording /\ pair' = pair /\ retiredPairs' = retiredPairs
    BY <1>4 DEF Retire, loopVars
  <2>2. Outlives(retiring)' /\ Items(retiring)' = Items(retiring) \cup {r}
    BY <2>1, RetiringOutlives
  <2>3. TypeOK'
    BY <1>1, <1>2, <2>1, FramesAssumption DEF TypeOK, Retired, Countdowns
  <2>4. DrawnSlicesKept'
    BY <1>2, <2>1, <2>2 DEF DrawnSlicesKept
  <2>5. DrawnPairsKept' /\ Outlives(retiredPairs)'
    BY <1>2, <2>1 DEF DrawnPairsKept, ExistingPairs, Items, Outlives
  <2>6. RecordedDraws'
    BY <1>2, <2>1 DEF RecordedDraws
  <2>7. NotHeldAndRetired'
    BY <1>2, <2>1, <2>2 DEF NotHeldAndRetired, Items
  <2>. QED BY <2>2, <2>3, <2>4, <2>5, <2>6, <2>7
<1>5. ASSUME NEW r \in Slices, WriteFails(r)
      PROVE  Kept
  <2>1. /\ phase # "drawn" /\ r \in FreeSlices /\ live' = live
        /\ KeepPair \/ \E p \in Pairs : GrowTo(p)
        /\ retiring' = retiring \cup {Retired(r)}
        /\ inFlight' = inFlight /\ frameNumber' = frameNumber /\ phase' = phase
        /\ recording' = recording \cup CopyInto(r)
    BY <1>5 DEF WriteFails, RecordUploads, Record
  <2>2. Outlives(retiring)' /\ Items(retiring)' = Items(retiring) \cup {r}
    BY <2>1, RetiringOutlives
  <2>3. TypeOK'
    BY <1>1, <1>2, <2>1, FramesAssumption, PairAfterAllocation
    DEF TypeOK, Retired, Countdowns
  <2>4. DrawnSlicesKept'
    BY <1>2, <2>1, <2>2 DEF DrawnSlicesKept
  <2>5. DrawnPairsKept' /\ Outlives(retiredPairs)' /\ pair' \notin Items(retiredPairs)'
    BY <2>1, GrowthKeepsPairs
  <2>6. RecordedDraws'
    BY <1>2, <2>1, CopiesAreNotDraws DEF RecordedDraws
  <2>7. NotHeldAndRetired'
    BY <1>2, <2>1, <2>2, <2>5 DEF NotHeldAndRetired, FreeSlices
  <2>. QED BY <2>2, <2>3, <2>4, <2>5, <2>6, <2>7
<1>6. CASE Prepare
  <2>1. /\ PrepareFrame /\ live' = live /\ pair' = pair
        /\ retiring' = Ticked(retiring) /\ retiredPairs' = Ticked(retiredPairs)
        /\ inFlight' = inFlight /\ recording' = recording
        /\ phase = "open" /\ phase' = "prepared"
    BY <1>6 DEF Prepare, PrepareFrame
  <2>2. /\ Ticked(retiring) \in SUBSET Countdowns(Slices)
        /\ Items(Ticked(retiring)) \subseteq Items(retiring)
        /\ \A s \in inFlight, e \in Ticked(retiring) :
              <<"draw", e.item>> \in s.uses =>
                s.frame + FramesInFlight <= frameNumber' + e.framesRemaining
        /\ \A s \in inFlight, item \in Items(retiring) :
              <<"draw", item>> \in s.uses => item \in Items(Ticked(retiring))
    BY <1>2, <2>1, TickedOutlives DEF TypeOK
  <2>3. /\ Ticked(retiredPairs) \in SUBSET Countdowns(Pairs)
        /\ Items(Ticked(retiredPairs)) \subseteq Items(retiredPairs)
        /\ \A s \in inFlight, e \in Ticked(retiredPairs) :
              <<"draw", e.item>> \in s.uses =>
                s.frame + FramesInFlight <= frameNumber' + e.framesRemaining
        /\ \A s \in inFlight, item \in Items(retiredPairs) :
              <<"draw", item>> \in s.uses => item \in Items(Ticked(retiredPairs))
    BY <1>2, <2>1, TickedOutlives DEF TypeOK
  <2>4. /\ Items(retiring)' = Items(Ticked(retiring))
        /\ Items(retiredPairs)' = Items(Ticked(retiredPairs))
    BY <2>1 DEF Items
  <2>5. TypeOK'
    BY <1>1, <1>2, <2>1, <2>2, <2>3 DEF TypeOK
  <2>6. DrawnSlicesKept'
    BY <1>2, <2>1, <2>2, <2>4 DEF DrawnSlicesKept
  <2>7. DrawnPairsKept'
    BY <1>2, <2>1, <2>3, <2>4 DEF DrawnPairsKept, ExistingPairs
  <2>8. Outlives(retiring)' /\ Outlives(retiredPairs)'
    BY <2>1, <2>2, <2>3 DEF Outlives
  <2>9. RecordedDraws'
    BY <1>2, <2>1 DEF RecordedDraws
  <2>10. NotHeldAndRetired'
    BY <1>2, <2>1, <2>2, <2>3, <2>4 DEF NotHeldAndRetired
  <2>. QED BY <1>1, <2>5, <2>6, <2>7, <2>8, <2>9, <2>10 DEF ArenaInv
<1>7. CASE Draw
  <2>1. PICK drawn \in SUBSET live : DrawFrame({"draw"} \X (drawn \cup {pair}))
    BY <1>7 DEF Draw, Drawable
  <2>2. /\ live' = live /\ retiring' = retiring
        /\ pair' = pair /\ retiredPairs' = retiredPairs
        /\ inFlight' = inFlight /\ frameNumber' = frameNumber
        /\ phase = "prepared" /\ phase' = "drawn"
        /\ recording' = recording \cup ({"draw"} \X (drawn \cup {pair}))
    BY <1>7, <2>1 DEF Draw, DrawFrame, Record, arenaVars
  <2>3. TypeOK'
    BY <1>1, <1>2, <2>2 DEF TypeOK
  <2>4. DrawnSlicesKept' /\ DrawnPairsKept' /\ Outlives(retiring)'
        /\ Outlives(retiredPairs)' /\ NotHeldAndRetired'
    BY <1>2, <2>2 DEF DrawnSlicesKept, DrawnPairsKept, Outlives, Items,
                      ExistingPairs, NotHeldAndRetired
  <2>5. RecordedDraws'
    <3>1. \A x : <<"draw", x>> \in recording' =>
                   <<"draw", x>> \in recording \/ x \in drawn \/ x = pair
      BY <2>2
    <3>2. live \subseteq Slices /\ pair \in Pairs
      BY <1>2 DEF TypeOK
    <3>. QED BY <1>2, <2>1, <2>2, <3>1, <3>2, GeometryAssumption DEF RecordedDraws
  <2>. QED BY <1>1, <2>3, <2>4, <2>5 DEF ArenaInv
<1>8. ASSUME Begin \/ Recreate \/ Finish \/ UNCHANGED vars
      PROVE  Kept
  <2>1. /\ live' = live /\ retiring' = retiring
        /\ pair' = pair /\ retiredPairs' = retiredPairs
        /\ inFlight' \subseteq inFlight /\ frameNumber' = frameNumber
        /\ recording' = recording
        /\ phase' = phase \/ phase = "between"
    BY <1>8 DEF Begin, Recreate, Finish, vars, arenaVars, loopVars, BeginFrame,
                WindowChanges, AcquireRecreates, GpuFinishes
  <2>2. TypeOK'
    BY <1>1, <1>2, <2>1 DEF TypeOK
  <2>3. DrawnSlicesKept' /\ DrawnPairsKept' /\ Outlives(retiring)'
        /\ Outlives(retiredPairs)' /\ NotHeldAndRetired'
    BY <1>2, <2>1 DEF DrawnSlicesKept, DrawnPairsKept, Outlives, Items,
                      ExistingPairs, NotHeldAndRetired
  <2>4. RecordedDraws'
    BY <1>2, <2>1 DEF RecordedDraws
  <2>. QED BY <2>2, <2>3, <2>4
<1>9. CASE End
  <2>1. PICK used \in (SUBSET Queues) \ {{}} : EndFrame(used)
    BY <1>9 DEF End
  <2>2. /\ live' = live /\ retiring' = retiring
        /\ pair' = pair /\ retiredPairs' = retiredPairs
        /\ frameNumber' = frameNumber /\ recording' = {}
    BY <1>9, <2>1 DEF End, EndFrame, arenaVars
  <2>3. ASSUME NEW s \in inFlight'
        PROVE  s \in inFlight \/ (s.frame = frameNumber /\ s.uses = recording)
    BY <2>1 DEF EndFrame
  <2>4. TypeOK'
    BY <1>1, <1>2, <2>2 DEF TypeOK
  <2>5. DrawnSlicesKept'
    BY <1>2, <2>2, <2>3 DEF DrawnSlicesKept, RecordedDraws, Items
  <2>6. DrawnPairsKept'
    BY <1>2, <2>2, <2>3 DEF DrawnPairsKept, RecordedDraws, ExistingPairs, Items
  <2>7. ASSUME NEW s \in inFlight', NEW e \in retiring, <<"draw", e.item>> \in s.uses
        PROVE  s.frame + FramesInFlight <= frameNumber + e.framesRemaining
    <3>1. e.item \in Slices /\ e.item \notin live
      BY <1>2 DEF NotHeldAndRetired, Items, TypeOK, Countdowns
    <3>2. s \in inFlight
      BY <1>2, <2>3, <2>7, <3>1 DEF RecordedDraws
    <3>. QED BY <1>2, <2>7, <3>2 DEF Outlives
  <2>8. ASSUME NEW s \in inFlight', NEW e \in retiredPairs, <<"draw", e.item>> \in s.uses
        PROVE  s.frame + FramesInFlight <= frameNumber + e.framesRemaining
    <3>1. e.item \in Pairs /\ e.item # pair
      BY <1>2 DEF NotHeldAndRetired, Items, TypeOK, Countdowns
    <3>2. s \in inFlight
      BY <1>2, <2>3, <2>8, <3>1 DEF RecordedDraws
    <3>. QED BY <1>2, <2>8, <3>2 DEF Outlives
  <2>9. Outlives(retiring)' /\ Outlives(retiredPairs)'
    BY <2>2, <2>7, <2>8 DEF Outlives
  <2>10. RecordedDraws' /\ NotHeldAndRetired'
    BY <1>2, <2>2 DEF RecordedDraws, NotHeldAndRetired, Items
  <2>. QED BY <1>1, <2>4, <2>5, <2>6, <2>9, <2>10 DEF ArenaInv
<1>. QED
  BY <1>1, <1>3, <1>4, <1>5, <1>6, <1>7, <1>8, <1>9 DEF Next, ArenaInv

-----------------------------------------------------------------------------

(* Every state of the arena and the loop under it has the right types. *)
THEOREM ArenaTypeCorrect == Spec => []TypeOK
<1>1. ArenaInv => TypeOK
  BY DEF ArenaInv
<1>. QED
  BY ArenaInitInv, ArenaStepInv, <1>1, PTL DEF Spec

(* With a countdown of FramesInFlight ticks no slice is handed out again, and *)
(* no replaced buffer destroyed, while a submission that draws from it is     *)
(* unfinished.                                                                *)
THEOREM ArenaDrawsKept == Spec => []DrawnGeometryKept
<1>1. ArenaInv => DrawnGeometryKept
  BY DEF ArenaInv, DrawnGeometryKept
<1>. QED
  BY ArenaInitInv, ArenaStepInv, <1>1, PTL DEF Spec

(* A frame never submits a draw of a slice that was retired meanwhile. *)
THEOREM ArenaDrawsLive == Spec => []ArenaSound
<1>1. ArenaInv => ArenaSound
  BY DEF ArenaInv, RecordedDraws, DrawsAreLive, ArenaSound
<1>. QED
  BY ArenaInitInv, ArenaStepInv, <1>1, PTL DEF Spec

-----------------------------------------------------------------------------
StoreTypeOK(s) ==
  /\ s \in [slots: {s.slots}, meshes: SUBSET Meshes,
            pathCache: Caches, modelCache: Caches, failed: SUBSET Models]
  /\ Live(s) \subseteq Models
  /\ s.slots \in [Live(s) -> SlotData]

Refs(s, h) == IF h \in Live(s) THEN s.slots[h].refs ELSE 0
BorrowersIn(s, h) == { b \in Live(s) : s.slots[b].borrowedFrom = h }
Owners(s) == { h \in Live(s) : s.slots[h].borrowedFrom = NoModel }

(* The references are those from outside the storage, owners[h] of them, and  *)
(* one per model that borrows.                                               *)
Counted(s, owners) ==
  /\ owners \in [Models -> Nat]
  /\ \A h \in Models : Refs(s, h) = owners[h] + Cardinality(BorrowersIn(s, h))

(* Only the cube is borrowed from, and it borrows nothing itself; the other    *)
(* models are of a file.                                                     *)
OnlyTheCubeLends(s) ==
  /\ \A h \in Live(s) : s.slots[h].borrowedFrom \in {NoModel, Cube}
  /\ Cube \in Live(s) => s.slots[Cube].borrowedFrom = NoModel
  /\ \A h \in Live(s) : h # Cube => s.slots[h].source \in Paths

(* A model draws a mesh of its own, or the cube's; the drawn meshes that are   *)
(* live are those of the models that own theirs.                             *)
DrawsSound(s) ==
  /\ \A h \in Live(s) : s.slots[h].draws =
       {<< IF s.slots[h].borrowedFrom = NoModel THEN h ELSE Cube, "drawn" >>}
  /\ \A h \in Models : << h, "drawn" >> \in s.meshes <=> h \in Owners(s)

(* What a cache gives out is a live model of the file, and installed.        *)
CachesSound(s) ==
  /\ s.failed \subseteq Live(s)
  /\ \A p \in Paths :
       /\ s.pathCache[p] # NoModel =>
            s.pathCache[p] \in Owners(s) /\ s.slots[s.pathCache[p]].source = p
       /\ s.modelCache[p] # NoModel =>
            s.modelCache[p] \in Owners(s) /\ s.slots[s.modelCache[p]].source = p

StoreInv(s, owners) ==
  /\ StoreTypeOK(s)
  /\ Counted(s, owners) /\ OnlyTheCubeLends(s) /\ DrawsSound(s) /\ CachesSound(s)

-----------------------------------------------------------------------------

OneRequestEach(P) == \A r, q \in P : r.handle = q.handle => r = q

(* The callers' references and the streamer's.                               *)
OwnersNow == [h \in Models |-> held[h] + Cardinality(Unsettled(h))]

(* Every request is of one handle, which was issued, and no handle is issued   *)
(* that has a slot already.                                                  *)
RequestsAreIssued ==
  /\ pendingLoads \in SUBSET LoadRequests
  /\ issued \in Models /\ held \in [Models -> 0 .. MaxHeld]
  /\ OneRequestEach(pendingLoads)
  /\ \A r \in pendingLoads : r.handle # Cube /\ r.handle <= issued
  /\ \A h \in Live(modelStore) : h <= issued
  /\ \A h \in Models : h > issued => held[h] = 0

StreamerInv ==
  /\ RequestsAreIssued
  /\ initialized \in BOOLEAN /\ StoreTypeOK(modelStore)
  /\ initialized => StoreInv(modelStore, OwnersNow) /\ held[Cube] >= 1
  /\ ~initialized => pendingLoads = {} /\ modelStore.slots = << >> /\ modelStore.meshes = {}

-----------------------------------------------------------------------------
(* What the operations do to the storage.                                    *)

(* t is s with n references on h.                                            *)
RefsSet(s, t, h, n) ==
  /\ StoreTypeOK(t) /\ Live(t) = Live(s)
  /\ \A x \in Live(s) : /\ t.slots[x].draws = s.slots[x].draws
                        /\ t.slots[x].borrowedFrom = s.slots[x].borrowedFrom
                        /\ t.slots[x].source = s.slots[x].source
                        /\ t.slots[x].refs = IF x = h THEN n ELSE s.slots[x].refs
  /\ t.meshes = s.meshes /\ t.failed = s.failed
  /\ t.pathCache = s.pathCache /\ t.modelCache = s.modelCache

LEMMA SlotsReplaced ==
  ASSUME NEW s, StoreTypeOK(s), NEW f, DOMAIN f \subseteq Models,
         f \in [DOMAIN f -> SlotData]
  PROVE  LET t == [s EXCEPT !.slots = f]
         IN /\ StoreTypeOK(t) /\ t.slots = f /\ t.meshes = s.meshes /\ t.failed = s.failed
            /\ t.pathCache = s.pathCache /\ t.modelCache = s.modelCache
BY DEF StoreTypeOK, Live

LEMMA RefsAreSet ==
  ASSUME NEW s, StoreTypeOK(s), NEW h \in Live(s), NEW n \in Nat
  PROVE  RefsSet(s, [s EXCEPT !.slots[h].refs = n], h, n)
<1> DEFINE entry == [s.slots[h] EXCEPT !.refs = n]
           f == [s.slots EXCEPT ![h] = entry]
<1>1. s.slots \in [Live(s) -> SlotData] /\ Live(s) = DOMAIN s.slots /\ s.slots[h] \in SlotData
  BY DEF StoreTypeOK, Live
<1>2. /\ entry \in SlotData /\ entry.refs = n /\ entry.draws = s.slots[h].draws
      /\ entry.borrowedFrom = s.slots[h].borrowedFrom /\ entry.source = s.slots[h].source
  BY <1>1 DEF SlotData
<1>3. /\ DOMAIN f = Live(s) /\ f \in [Live(s) -> SlotData] /\ f[h] = entry
      /\ \A x \in Live(s) : x # h => f[x] = s.slots[x]
  <2>. HIDE DEF entry
  <2>. QED  BY <1>1, <1>2
<1>4. [s EXCEPT !.slots[h].refs = n] = [s EXCEPT !.slots = f]
  OBVIOUS
<1>5. PICK t : t = [s EXCEPT !.slots = f]
  OBVIOUS
<1>6. /\ StoreTypeOK(t) /\ t.slots = f /\ t.meshes = s.meshes /\ t.failed = s.failed
      /\ t.pathCache = s.pathCache /\ t.modelCache = s.modelCache
  <2>. HIDE DEF f
  <2>. QED  BY <1>3, <1>5, SlotsReplaced DEF StoreTypeOK
<1> HIDE DEF f, entry
<1>7. RefsSet(s, t, h, n)
  BY <1>2, <1>3, <1>6 DEF RefsSet, Live
<1>. QED  BY <1>4, <1>5, <1>7

LEMMA SlotIsAdded ==
  ASSUME NEW s, StoreTypeOK(s), NEW h \in Models, NEW entry \in SlotData
  PROVE  LET t == WithSlot(s, h, entry)
         IN /\ StoreTypeOK(t) /\ Live(t) = Live(s) \cup {h}
            /\ t.slots[h] = entry /\ \A x \in Live(s) : x # h => t.slots[x] = s.slots[x]
            /\ t.meshes = s.meshes /\ t.failed = s.failed
            /\ t.pathCache = s.pathCache /\ t.modelCache = s.modelCache
<1> DEFINE f == [x \in DOMAIN s.slots \cup {h} |-> IF x = h THEN entry ELSE s.slots[x]]
<1>1. s.slots \in [Live(s) -> SlotData] /\ Live(s) = DOMAIN s.slots /\ Live(s) \subseteq Models
  BY DEF StoreTypeOK, Live
<1>2. /\ DOMAIN f = Live(s) \cup {h} /\ f \in [DOMAIN f -> SlotData] /\ f[h] = entry
      /\ \A x \in Live(s) : x # h => f[x] = s.slots[x]
  BY <1>1
<1>3. WithSlot(s, h, entry) = [s EXCEPT !.slots = f]
  BY DEF WithSlot
<1> HIDE DEF f
<1>4. PICK t : t = [s EXCEPT !.slots = f]
  OBVIOUS
<1>5. /\ StoreTypeOK(t) /\ t.slots = f /\ t.meshes = s.meshes /\ t.failed = s.failed
      /\ t.pathCache = s.pathCache /\ t.modelCache = s.modelCache
  BY <1>1, <1>2, <1>4, SlotsReplaced
<1>. QED  BY <1>2, <1>3, <1>4, <1>5 DEF Live

LEMMA MeshesAreAdded ==
  ASSUME NEW s, StoreTypeOK(s), NEW ms \in SUBSET Meshes
  PROVE  LET t == [s EXCEPT !.meshes = @ \cup ms]
         IN /\ StoreTypeOK(t) /\ t.slots = s.slots /\ t.meshes = s.meshes \cup ms
            /\ t.failed = s.failed /\ t.pathCache = s.pathCache /\ t.modelCache = s.modelCache
BY DEF StoreTypeOK, Live

LEMMA SlotIsFreed ==
  ASSUME NEW s, StoreTypeOK(s), NEW h \in Live(s)
  PROVE  LET t == Freed(s, h)
         IN /\ StoreTypeOK(t) /\ Live(t) = Live(s) \ {h}
            /\ \A x \in Live(t) : t.slots[x] = s.slots[x]
            /\ t.meshes = s.meshes \ OwnDraws(s, h) /\ t.failed = s.failed \ {h}
            /\ t.pathCache = CacheWithout(s.pathCache, h)
            /\ t.modelCache = CacheWithout(s.modelCache, h)
<1>1. /\ s.slots \in [Live(s) -> SlotData] /\ Live(s) = DOMAIN s.slots /\ Live(s) \subseteq Models
      /\ s.meshes \in SUBSET Meshes /\ s.failed \in SUBSET Models
      /\ s.pathCache \in Caches /\ s.modelCache \in Caches
  BY DEF StoreTypeOK, Live
<1>2. /\ WithoutKey(s.slots, h) \in [Live(s) \ {h} -> SlotData]
      /\ DOMAIN WithoutKey(s.slots, h) = Live(s) \ {h}
      /\ \A x \in Live(s) \ {h} : WithoutKey(s.slots, h)[x] = s.slots[x]
  BY <1>1 DEF WithoutKey
<1>3. CacheWithout(s.pathCache, h) \in Caches /\ CacheWithout(s.modelCache, h) \in Caches
  BY <1>1 DEF CacheWithout, Caches
<1>4. PICK t : t = Freed(s, h)
  OBVIOUS
<1>5. /\ t.slots = WithoutKey(s.slots, h)
      /\ t.meshes = s.meshes \ OwnDraws(s, h) /\ t.failed = s.failed \ {h}
      /\ t.pathCache = CacheWithout(s.pathCache, h)
      /\ t.modelCache = CacheWithout(s.modelCache, h)
  BY <1>4 DEF Freed
<1>6. StoreTypeOK(t)
  <2>1. t \in [slots: {t.slots}, meshes: SUBSET Meshes,
               pathCache: Caches, modelCache: Caches, failed: SUBSET Models]
    <3>1. PICK f, m, c, d, e : /\ f = WithoutKey(s.slots, h) /\ m = s.meshes \ OwnDraws(s, h)
                               /\ c = CacheWithout(s.pathCache, h)
                               /\ d = CacheWithout(s.modelCache, h) /\ e = s.failed \ {h}
      OBVIOUS
    <3>2. t = [slots |-> f, meshes |-> m, pathCache |-> c, modelCache |-> d, failed |-> e]
      BY <1>4, <3>1 DEF Freed
    <3>3. m \in SUBSET Meshes /\ c \in Caches /\ d \in Caches /\ e \in SUBSET Models
      BY <1>1, <1>3, <3>1
    <3>. QED  BY <3>2, <3>3
  <2>2. Live(t) = Live(s) \ {h}
    BY <1>2, <1>5 DEF Live
  <2>. QED  BY <1>1, <1>2, <1>5, <2>1, <2>2 DEF StoreTypeOK
<1>. QED  BY <1>2, <1>4, <1>5, <1>6 DEF Live

-----------------------------------------------------------------------------
(* The references stay counted.                                              *)

Plus(owners, h) == [owners EXCEPT ![h] = @ + 1]
Minus(owners, h) == [owners EXCEPT ![h] = @ - 1]

LEMMA BorrowersFinite ==
  ASSUME NEW s, StoreTypeOK(s), NEW h
  PROVE  IsFiniteSet(BorrowersIn(s, h)) /\ Cardinality(BorrowersIn(s, h)) \in Nat
<1>1. IsFiniteSet(Models)
  BY FS_Interval, StreamingAssumption DEF Models
<1>2. BorrowersIn(s, h) \in SUBSET Models
  BY DEF BorrowersIn, StoreTypeOK
<1>. QED  BY <1>1, <1>2, FS_Subset, FS_CardinalityType

(* Only the cube has borrowers; and it has one for every pending model.      *)
LEMMA NoOtherBorrowers ==
  ASSUME NEW s, StoreTypeOK(s), OnlyTheCubeLends(s), NEW h \in Models, h # Cube
  PROVE  BorrowersIn(s, h) = {}
BY StreamingAssumption DEF OnlyTheCubeLends, BorrowersIn, Models, NoModel

LEMMA RecountedRefs ==
  ASSUME NEW s, NEW owners, StoreInv(s, owners), NEW h \in Live(s), NEW n \in Nat,
         NEW t, RefsSet(s, t, h, n),
         NEW after \in [Models -> Nat],
         \A x \in Models : x # h => after[x] = owners[x],
         n - s.slots[h].refs = after[h] - owners[h]
  PROVE  StoreInv(t, after)
<1>1. \A x \in Models : BorrowersIn(t, x) = BorrowersIn(s, x)
  BY DEF RefsSet, BorrowersIn
<1>2. Owners(t) = Owners(s)
  BY DEF RefsSet, Owners
<1>3. Counted(t, after)
  <2>1. SUFFICES ASSUME NEW x \in Models
                 PROVE  Refs(t, x) = after[x] + Cardinality(BorrowersIn(t, x))
    BY DEF Counted
  <2>2. Refs(s, x) = owners[x] + Cardinality(BorrowersIn(s, x)) /\ owners[x] \in Nat
    BY DEF StoreInv, Counted
  <2>3. CASE x # h
    BY <1>1, <2>2, <2>3 DEF RefsSet, Refs
  <2>4. CASE x = h
    <3>1. s.slots[h].refs \in Nat /\ Cardinality(BorrowersIn(s, h)) \in Nat
      BY BorrowersFinite DEF StoreInv, StoreTypeOK, SlotData
    <3>. QED  BY <1>1, <2>2, <2>4, <3>1 DEF RefsSet, Refs
  <2>. QED  BY <2>3, <2>4
<1>4. OnlyTheCubeLends(t) /\ DrawsSound(t)
  BY <1>2 DEF StoreInv, OnlyTheCubeLends, DrawsSound, RefsSet
<1>5. CachesSound(t)
  BY <1>2 DEF StoreInv, CachesSound, RefsSet, Owners
<1>. QED  BY <1>3, <1>4, <1>5 DEF StoreInv, RefsSet

LEMMA RetainedCounted ==
  ASSUME NEW s, NEW owners, StoreInv(s, owners), NEW h \in Live(s)
  PROVE  StoreInv(Retained(s, h), Plus(owners, h))
<1>1. s.slots[h].refs \in Nat /\ owners \in [Models -> Nat] /\ h \in Models
  BY DEF StoreInv, Counted, StoreTypeOK, SlotData
<1>2. PICK n \in Nat : n = s.slots[h].refs + 1
  BY <1>1
<1>3. RefsSet(s, Retained(s, h), h, n)
  BY <1>2, RefsAreSet DEF StoreInv, Retained
<1>4. /\ Plus(owners, h) \in [Models -> Nat]
      /\ \A x \in Models : x # h => Plus(owners, h)[x] = owners[x]
      /\ Plus(owners, h)[h] = owners[h] + 1
  BY <1>1 DEF Plus, StoreInv, Counted
<1>. QED  BY <1>1, <1>2, <1>3, <1>4, RecountedRefs

(* The fallback's reference that a pending model gives back, or keeps outside *)
(* of the storage until it does.                                             *)
GivenBack(owners, s, h) ==
  IF s.slots[h].borrowedFrom = NoModel THEN owners ELSE Plus(owners, Cube)

LEMMA FreedCounted ==
  ASSUME NEW s, NEW owners, StoreInv(s, owners), NEW h \in Live(s), h # Cube,
         s.slots[h].refs = 1, owners[h] >= 1
  PROVE  StoreInv(Freed(s, h), GivenBack(Minus(owners, h), s, h))
<1> DEFINE lent == s.slots[h].borrowedFrom # NoModel
<1>1. /\ StoreTypeOK(s) /\ owners \in [Models -> Nat] /\ h \in Models /\ Cube \in Models
      /\ Models \subseteq Nat
  BY StreamingAssumption DEF StoreInv, Counted, StoreTypeOK, Models, Cube
<1>2. PICK t : t = Freed(s, h)
  OBVIOUS
<1>3. /\ StoreTypeOK(t) /\ Live(t) = Live(s) \ {h}
      /\ \A x \in Live(t) : t.slots[x] = s.slots[x]
      /\ t.meshes = s.meshes \ OwnDraws(s, h) /\ t.failed = s.failed \ {h}
      /\ t.pathCache = CacheWithout(s.pathCache, h)
      /\ t.modelCache = CacheWithout(s.modelCache, h)
  BY <1>1, <1>2, SlotIsFreed
<1>4. OnlyTheCubeLends(s) /\ s.slots[h].borrowedFrom \in {NoModel, Cube}
  BY DEF StoreInv, OnlyTheCubeLends
<1>5. OnlyTheCubeLends(t)
  BY <1>3, <1>4 DEF OnlyTheCubeLends
<1>6. PICK after : after = GivenBack(Minus(owners, h), s, h)
  OBVIOUS
<1>7. /\ after \in [Models -> Nat] /\ after[h] = owners[h] - 1
      /\ after[Cube] = IF lent THEN owners[Cube] + 1 ELSE owners[Cube]
      /\ \A x \in Models : x \notin {h, Cube} => after[x] = owners[x]
  BY <1>1, <1>6 DEF GivenBack, Plus, Minus
<1>8. Counted(t, after)
  <2>1. SUFFICES ASSUME NEW x \in Models
                 PROVE  Refs(t, x) = after[x] + Cardinality(BorrowersIn(t, x))
    BY <1>7 DEF Counted
  <2>2. Refs(s, x) = owners[x] + Cardinality(BorrowersIn(s, x))
    BY DEF StoreInv, Counted
  <2>3. Cardinality({}) = 0
    BY FS_EmptySet
  <2>4. CASE x = Cube
    <3>1. BorrowersIn(t, x) = IF lent THEN BorrowersIn(s, x) \ {h} ELSE BorrowersIn(s, x)
      <4>1. NoModel # Cube
        BY StreamingAssumption DEF NoModel, Cube
      <4>2. BorrowersIn(t, x) = BorrowersIn(s, x) \ {h}
        BY <1>3 DEF BorrowersIn
      <4>3. ~lent => h \notin BorrowersIn(s, x)
        BY <2>4, <4>1 DEF BorrowersIn
      <4> HIDE DEF lent
      <4>. QED  BY <4>2, <4>3
    <3>2. lent => h \in BorrowersIn(s, x)
      BY <1>4, <2>4 DEF BorrowersIn
    <3>3. /\ IsFiniteSet(BorrowersIn(s, x)) /\ Cardinality(BorrowersIn(s, x)) \in Nat
      BY <1>1, BorrowersFinite
    <3>4. lent => Cardinality(BorrowersIn(s, x) \ {h}) = Cardinality(BorrowersIn(s, x)) - 1
      BY <3>2, <3>3, FS_RemoveElement
    <3>5. Refs(t, x) = Refs(s, x)
      BY <1>3, <2>4 DEF Refs
    <3>6. owners[x] \in Nat
      BY <1>1
    <3> HIDE DEF lent
    <3>. QED  BY <1>7, <2>2, <2>4, <3>1, <3>3, <3>4, <3>5, <3>6
  <2>5. CASE x # Cube
    <3>1. BorrowersIn(t, x) = {} /\ BorrowersIn(s, x) = {}
      BY <1>1, <1>3, <1>4, <1>5, <2>5, NoOtherBorrowers
    <3>2. CASE x = h
      BY <1>1, <1>3, <1>7, <2>2, <2>3, <3>1, <3>2 DEF Refs
    <3>3. CASE x # h
      BY <1>3, <1>7, <2>2, <2>5, <3>1, <3>3 DEF Refs
    <3>. QED  BY <3>2, <3>3
  <2>. QED  BY <2>4, <2>5
<1>9. Owners(t) = Owners(s) \ {h}
  BY <1>3 DEF Owners
<1>10. DrawsSound(t)
  <2>1. OwnDraws(s, h) = IF lent THEN {} ELSE {<< h, "drawn" >>}
    BY <1>4 DEF OwnDraws, StoreInv, DrawsSound
  <2>2. lent => h \notin Owners(s)
    BY DEF Owners
  <2>3. \A x \in Models : << x, "drawn" >> \in s.meshes <=> x \in Owners(s)
    BY DEF StoreInv, DrawsSound
  <2>4. \A x \in Models : << x, "drawn" >> \in t.meshes <=> x \in Owners(t)
    <3>1. \A x : << x, "drawn" >> = << h, "drawn" >> <=> x = h
      OBVIOUS
    <3>2. ASSUME NEW x \in Models
          PROVE  << x, "drawn" >> \in t.meshes <=> << x, "drawn" >> \in s.meshes /\ (lent \/ x # h)
      BY <1>3, <2>1, <3>1
    <3> HIDE DEF lent
    <3>. QED  BY <1>9, <2>2, <2>3, <3>2
  <2>. QED  BY <1>3, <2>4 DEF StoreInv, DrawsSound
<1>11. CachesSound(t)
  <2>1. t.failed \subseteq Live(t)
    BY <1>3 DEF StoreInv, CachesSound
  <2>2. ASSUME NEW p \in Paths, NEW c, NEW d, d = CacheWithout(c, h), c \in Caches,
               d[p] # NoModel,
               c[p] # NoModel => c[p] \in Owners(s) /\ s.slots[c[p]].source = p
        PROVE  d[p] \in Owners(t) /\ t.slots[d[p]].source = p
    <3>1. d[p] = c[p] /\ c[p] # h
      BY <2>2 DEF CacheWithout
    <3>2. c[p] \in Live(t)
      BY <1>3, <2>2, <3>1 DEF Owners
    <3>. QED  BY <1>3, <1>9, <2>2, <3>1, <3>2
  <2>3. s.pathCache \in Caches /\ s.modelCache \in Caches
    BY <1>1 DEF StoreTypeOK
  <2>. QED  BY <1>3, <2>1, <2>2, <2>3 DEF StoreInv, CachesSound
<1>. QED  BY <1>2, <1>3, <1>5, <1>6, <1>8, <1>10, <1>11 DEF StoreInv

LEMMA DroppedOwnerCounted ==
  ASSUME NEW s, NEW owners, StoreInv(s, owners), NEW h \in Live(s),
         owners[h] >= 1, h = Cube => owners[h] >= 2,
         s.slots[h].borrowedFrom = NoModel \/ s.slots[h].refs > 1
  PROVE  /\ StoreInv(DroppedOwner(s, h), Minus(owners, h))
         /\ s.slots[h].refs > 1 =>
              RefsSet(s, DroppedOwner(s, h), h, s.slots[h].refs - 1)
<1>1. /\ s.slots[h].refs \in Nat /\ owners \in [Models -> Nat] /\ h \in Models
      /\ Cardinality(BorrowersIn(s, h)) \in Nat
      /\ s.slots[h].refs = owners[h] + Cardinality(BorrowersIn(s, h))
  BY BorrowersFinite DEF StoreInv, Counted, StoreTypeOK, SlotData, Refs
<1>2. CASE s.slots[h].refs > 1
  <2>1. PICK n \in Nat : n = s.slots[h].refs - 1
    BY <1>1, <1>2
  <2>2. DroppedOwner(s, h) = [s EXCEPT !.slots[h].refs = n]
    BY <1>2, <2>1 DEF DroppedOwner
  <2>3. RefsSet(s, DroppedOwner(s, h), h, n)
    BY <2>2, RefsAreSet DEF StoreInv
  <2>4. /\ Minus(owners, h) \in [Models -> Nat]
        /\ \A x \in Models : x # h => Minus(owners, h)[x] = owners[x]
        /\ Minus(owners, h)[h] = owners[h] - 1
    BY <1>1 DEF Minus
  <2>. QED  BY <1>1, <2>1, <2>3, <2>4, RecountedRefs
<1>3. CASE ~(s.slots[h].refs > 1)
  <2>1. s.slots[h].refs = 1 /\ h # Cube /\ s.slots[h].borrowedFrom = NoModel
    BY <1>1, <1>3
  <2>2. DroppedOwner(s, h) = Freed(s, h)
    BY <1>3 DEF DroppedOwner
  <2>3. GivenBack(Minus(owners, h), s, h) = Minus(owners, h)
    BY <2>1 DEF GivenBack
  <2>. QED  BY <1>3, <2>1, <2>2, <2>3, FreedCounted
<1>. QED  BY <1>2, <1>3

(* A release, of a model that borrows or of one that does not.               *)
LEMMA DroppedCounted ==
  ASSUME NEW s, NEW owners, StoreInv(s, owners), NEW h \in Live(s),
         owners[h] >= 1, owners[Cube] >= 1, h = Cube => owners[h] >= 2
  PROVE  /\ StoreInv(Dropped(s, h), Minus(owners, h))
         /\ owners[h] >= 2 => RefsSet(s, Dropped(s, h), h, s.slots[h].refs - 1)
<1>1. /\ s.slots[h].refs \in Nat /\ owners \in [Models -> Nat] /\ h \in Models /\ Cube \in Models
      /\ Cardinality(BorrowersIn(s, h)) \in Nat /\ StoreTypeOK(s)
      /\ s.slots[h].refs = owners[h] + Cardinality(BorrowersIn(s, h))
  <2>1. Cube \in Models
    BY StreamingAssumption DEF Models, Cube
  <2>. QED  BY <2>1, BorrowersFinite DEF StoreInv, Counted, StoreTypeOK, SlotData, Refs
<1>2. CASE s.slots[h].refs = 1 /\ s.slots[h].borrowedFrom # NoModel
  <2>1. h # Cube /\ s.slots[h].borrowedFrom = Cube /\ ~(owners[h] >= 2)
    BY <1>1, <1>2 DEF StoreInv, OnlyTheCubeLends
  <2>2. PICK t, after : t = Freed(s, h) /\ after = Plus(Minus(owners, h), Cube)
    OBVIOUS
  <2>3. StoreInv(t, after)
    BY <1>2, <2>1, <2>2, FreedCounted DEF GivenBack
  <2>4. after[Cube] = owners[Cube] + 1 /\ after[Cube] >= 2 /\ Minus(after, Cube) = Minus(owners, h)
    BY <1>1, <2>1, <2>2 DEF Plus, Minus
  <2>5. Cube \in Live(t) /\ t.slots[Cube].borrowedFrom = NoModel
    <3>1. Refs(t, Cube) = after[Cube] + Cardinality(BorrowersIn(t, Cube))
          /\ Cardinality(BorrowersIn(t, Cube)) \in Nat
      BY <1>1, <2>3, BorrowersFinite DEF StoreInv, Counted
    <3>2. Cube \in Live(t)
      BY <1>1, <2>4, <3>1 DEF Refs
    <3>. QED  BY <2>3, <3>2 DEF StoreInv, OnlyTheCubeLends
  <2>6. StoreInv(DroppedOwner(t, Cube), Minus(after, Cube))
    <3>1. after[Cube] >= 1
      BY <1>1, <2>4
    <3>. QED  BY <2>3, <2>4, <2>5, <3>1, DroppedOwnerCounted
  <2>7. Dropped(s, h) = DroppedOwner(t, Cube)
    BY <1>2, <2>1, <2>2 DEF Dropped
  <2>. QED  BY <2>1, <2>4, <2>6, <2>7
<1>3. CASE ~(s.slots[h].refs = 1 /\ s.slots[h].borrowedFrom # NoModel)
  <2>1. Dropped(s, h) = DroppedOwner(s, h)
    BY <1>3 DEF Dropped
  <2>2. s.slots[h].borrowedFrom = NoModel \/ s.slots[h].refs > 1
    BY <1>1, <1>3
  <2>3. owners[h] >= 2 => s.slots[h].refs > 1
    BY <1>1
  <2>. QED  BY <2>1, <2>2, <2>3, DroppedOwnerCounted
<1>. QED  BY <1>2, <1>3

(* A new slot with one reference, from outside the storage; a pending one      *)
(* takes a reference on the cube.                                            *)
LEMMA SlotCounted ==
  ASSUME NEW s, NEW owners, StoreInv(s, owners), NEW h \in Models \ Live(s), h # Cube,
         NEW p \in Paths, NEW pending \in BOOLEAN,
         Cube \in Live(s), pending => owners[Cube] >= 1
  PROVE  LET entry == [refs |-> 1, source |-> p,
                      draws |-> {<< IF pending THEN Cube ELSE h, "drawn" >>},
                      borrowedFrom |-> IF pending THEN Cube ELSE NoModel]
             t == [WithSlot(s, h, entry) EXCEPT !.meshes = @ \cup
                     IF pending THEN {} ELSE MeshesOf(h)]
         IN StoreInv(t, Plus(IF pending THEN Minus(owners, Cube) ELSE owners, h))
<1> DEFINE entry == [refs |-> 1, source |-> p,
                    draws |-> {<< IF pending THEN Cube ELSE h, "drawn" >>},
                    borrowedFrom |-> IF pending THEN Cube ELSE NoModel]
           ms == IF pending THEN {} ELSE MeshesOf(h)
<1>1. /\ StoreTypeOK(s) /\ owners \in [Models -> Nat] /\ Cube \in Models /\ Models \subseteq Nat
      /\ NoModel \notin Models /\ Live(s) \subseteq Models
  BY StreamingAssumption DEF StoreInv, Counted, StoreTypeOK, Models, Cube, NoModel
<1>2. entry \in SlotData
  BY <1>1 DEF SlotData, Meshes
<1>3. PICK sl : sl = entry
  OBVIOUS
<1>4. /\ sl.refs = 1 /\ sl.source = p
      /\ sl.draws = {<< IF pending THEN Cube ELSE h, "drawn" >>}
      /\ sl.borrowedFrom = IF pending THEN Cube ELSE NoModel
  BY <1>3
<1>5. PICK w : w = WithSlot(s, h, sl)
  OBVIOUS
<1> HIDE DEF entry
<1>6. /\ StoreTypeOK(w) /\ Live(w) = Live(s) \cup {h}
      /\ w.slots[h] = sl /\ \A x \in Live(s) : x # h => w.slots[x] = s.slots[x]
      /\ w.meshes = s.meshes /\ w.failed = s.failed
      /\ w.pathCache = s.pathCache /\ w.modelCache = s.modelCache
  BY <1>1, <1>2, <1>3, <1>5, SlotIsAdded
<1>7. ms \in SUBSET Meshes
  BY DEF MeshesOf, Meshes
<1>8. PICK m : m = ms
  OBVIOUS
<1>9. PICK t : t = [w EXCEPT !.meshes = @ \cup m]
  OBVIOUS
<1>10. /\ StoreTypeOK(t) /\ t.slots = w.slots /\ t.meshes = s.meshes \cup m
       /\ t.failed = s.failed /\ t.pathCache = s.pathCache /\ t.modelCache = s.modelCache
  <2> HIDE DEF ms
  <2>. QED  BY <1>6, <1>7, <1>8, <1>9, MeshesAreAdded
<1>11. /\ Live(t) = Live(s) \cup {h} /\ t.slots[h] = sl
       /\ \A x \in Live(s) : t.slots[x] = s.slots[x]
  BY <1>6, <1>10 DEF Live
<1>12. OnlyTheCubeLends(t)
  BY <1>4, <1>11 DEF StoreInv, OnlyTheCubeLends
<1>13. PICK after : after = Plus(IF pending THEN Minus(owners, Cube) ELSE owners, h)
  OBVIOUS
<1>14. /\ after \in [Models -> Nat] /\ after[h] = owners[h] + 1
       /\ after[Cube] = IF pending THEN owners[Cube] - 1 ELSE owners[Cube]
       /\ \A x \in Models : x \notin {h, Cube} => after[x] = owners[x]
  BY <1>1, <1>13 DEF Plus, Minus
<1>15. Counted(t, after)
  <2>1. SUFFICES ASSUME NEW x \in Models
                 PROVE  Refs(t, x) = after[x] + Cardinality(BorrowersIn(t, x))
    BY <1>14 DEF Counted
  <2>2. Refs(s, x) = owners[x] + Cardinality(BorrowersIn(s, x)) /\ owners[x] \in Nat
    BY <1>1 DEF StoreInv, Counted
  <2>3. /\ IsFiniteSet(BorrowersIn(s, x)) /\ Cardinality(BorrowersIn(s, x)) \in Nat
    BY <1>1, BorrowersFinite
  <2>4. CASE x = Cube
    <3>1. BorrowersIn(t, x) = IF pending THEN BorrowersIn(s, x) \cup {h} ELSE BorrowersIn(s, x)
      BY <1>1, <1>4, <1>11, <2>4 DEF BorrowersIn
    <3>2. h \notin BorrowersIn(s, x)
      BY DEF BorrowersIn
    <3>3. Cardinality(BorrowersIn(s, x) \cup {h}) = Cardinality(BorrowersIn(s, x)) + 1
      BY <2>3, <3>2, FS_AddElement
    <3>4. Refs(t, x) = Refs(s, x)
      BY <1>11, <2>4 DEF Refs
    <3>. QED  BY <1>14, <2>2, <2>3, <2>4, <3>1, <3>3, <3>4
  <2>5. CASE x # Cube
    <3>1. BorrowersIn(t, x) = {} /\ BorrowersIn(s, x) = {} /\ Cardinality({}) = 0
      BY <1>10, <1>1, <1>12, <2>5, NoOtherBorrowers, FS_EmptySet DEF StoreInv
    <3>2. CASE x = h
      BY <1>4, <1>11, <1>14, <2>2, <3>1, <3>2 DEF Refs
    <3>3. CASE x # h
      BY <1>11, <1>14, <2>2, <2>5, <3>1, <3>3 DEF Refs
    <3>. QED  BY <3>2, <3>3
  <2>. QED  BY <2>4, <2>5
<1>16. Owners(t) = IF pending THEN Owners(s) ELSE Owners(s) \cup {h}
  BY <1>1, <1>4, <1>11 DEF Owners
<1>17. DrawsSound(t)
  <2>1. \A x \in Live(t) : t.slots[x].draws =
          {<< IF t.slots[x].borrowedFrom = NoModel THEN x ELSE Cube, "drawn" >>}
    BY <1>1, <1>4, <1>11 DEF StoreInv, DrawsSound
  <2>2. \A x \in Models : << x, "drawn" >> \in m <=> ~pending /\ x = h
    BY <1>8 DEF MeshesOf
  <2>3. \A x \in Models : << x, "drawn" >> \in s.meshes <=> x \in Owners(s)
    BY DEF StoreInv, DrawsSound
  <2>4. \A x \in Models : << x, "drawn" >> \in t.meshes <=> x \in Owners(t)
    BY <1>10, <1>16, <2>2, <2>3
  <2>. QED  BY <2>1, <2>4 DEF DrawsSound
<1>18. CachesSound(t)
  BY <1>10, <1>11, <1>16 DEF StoreInv, CachesSound, Owners
<1>. QED  BY <1>3, <1>5, <1>8, <1>9, <1>10, <1>12, <1>13, <1>15, <1>17, <1>18 DEF StoreInv, entry

(* Data of its own under the old handle: the reference on the fallback is      *)
(* still to be given back.                                                   *)
LEMMA UpgradedCounted ==
  ASSUME NEW s, NEW owners, StoreInv(s, owners), NEW h \in Live(s), h # Cube
  PROVE  LET t == Upgraded(s, h)
         IN /\ StoreInv(t, GivenBack(owners, s, h)) /\ Live(t) = Live(s)
            /\ h \in Owners(t) /\ t.slots[h].source = s.slots[h].source
<1> DEFINE lent == s.slots[h].borrowedFrom # NoModel
           entry == [refs |-> s.slots[h].refs, draws |-> {<< h, "drawn" >>},
                    borrowedFrom |-> NoModel, source |-> s.slots[h].source]
<1>1. /\ StoreTypeOK(s) /\ owners \in [Models -> Nat] /\ h \in Models /\ Cube \in Models
      /\ NoModel \notin Models /\ s.slots[h] \in SlotData
  <2>1. Cube \in Models /\ NoModel \notin Models
    BY StreamingAssumption DEF Models, Cube, NoModel
  <2>. QED  BY <2>1 DEF StoreInv, Counted, StoreTypeOK
<1>2. PICK sl : sl = entry
  OBVIOUS
<1>3. /\ sl \in SlotData /\ sl.refs = s.slots[h].refs /\ sl.source = s.slots[h].source
      /\ sl.draws = {<< h, "drawn" >>} /\ sl.borrowedFrom = NoModel
  BY <1>1, <1>2 DEF SlotData, Meshes
<1>4. PICK w : w = WithSlot(s, h, sl)
  OBVIOUS
<1>5. /\ StoreTypeOK(w) /\ Live(w) = Live(s)
      /\ w.slots[h] = sl /\ \A x \in Live(s) : x # h => w.slots[x] = s.slots[x]
      /\ w.meshes = s.meshes /\ w.failed = s.failed
      /\ w.pathCache = s.pathCache /\ w.modelCache = s.modelCache
  <2>1. Live(s) \cup {h} = Live(s)
    OBVIOUS
  <2> HIDE DEF entry
  <2>2. Live(w) = Live(s) \cup {h}
    BY <1>1, <1>3, <1>4, SlotIsAdded
  <2>. QED  BY <1>1, <1>3, <1>4, <2>1, <2>2, SlotIsAdded
<1>6. PICK m \in SUBSET Meshes : m = MeshesOf(h)
  BY <1>1 DEF MeshesOf, Meshes
<1>7. PICK t : t = [w EXCEPT !.meshes = @ \cup m]
  OBVIOUS
<1>8. t = Upgraded(s, h)
  BY <1>2, <1>4, <1>6, <1>7 DEF Upgraded
<1> HIDE DEF entry
<1>9. /\ StoreTypeOK(t) /\ t.slots = w.slots /\ t.meshes = s.meshes \cup m
      /\ t.failed = s.failed /\ t.pathCache = s.pathCache /\ t.modelCache = s.modelCache
  BY <1>5, <1>7, MeshesAreAdded
<1>10. /\ Live(t) = Live(s) /\ t.slots[h] = sl
       /\ \A x \in Live(s) : x # h => t.slots[x] = s.slots[x]
  BY <1>5, <1>9 DEF Live
<1>11. OnlyTheCubeLends(s) /\ OnlyTheCubeLends(t)
  BY <1>3, <1>10 DEF StoreInv, OnlyTheCubeLends
<1>12. Owners(t) = Owners(s) \cup {h}
  BY <1>3, <1>10 DEF Owners
<1>13. PICK after : after = GivenBack(owners, s, h)
  OBVIOUS
<1>14. /\ after \in [Models -> Nat]
       /\ after[Cube] = IF lent THEN owners[Cube] + 1 ELSE owners[Cube]
       /\ \A x \in Models : x # Cube => after[x] = owners[x]
  BY <1>1, <1>13 DEF GivenBack, Plus
<1>15. Counted(t, after)
  <2>1. SUFFICES ASSUME NEW x \in Models
                 PROVE  Refs(t, x) = after[x] + Cardinality(BorrowersIn(t, x))
    BY <1>14 DEF Counted
  <2>2. Refs(s, x) = owners[x] + Cardinality(BorrowersIn(s, x)) /\ owners[x] \in Nat
    BY <1>1 DEF StoreInv, Counted
  <2>3. Refs(t, x) = Refs(s, x)
    BY <1>3, <1>10 DEF Refs
  <2>4. CASE x = Cube
    <3>1. BorrowersIn(t, x) = BorrowersIn(s, x) \ {h}
      BY <1>1, <1>3, <1>10, <2>4 DEF BorrowersIn
    <3>2. h \in BorrowersIn(s, x) <=> lent
      BY <1>1, <1>11, <2>4 DEF BorrowersIn, OnlyTheCubeLends
    <3>3. /\ IsFiniteSet(BorrowersIn(s, x)) /\ Cardinality(BorrowersIn(s, x)) \in Nat
      BY <1>1, BorrowersFinite
    <3>4. Cardinality(BorrowersIn(s, x) \ {h}) =
            IF lent THEN Cardinality(BorrowersIn(s, x)) - 1 ELSE Cardinality(BorrowersIn(s, x))
      BY <3>2, <3>3, FS_RemoveElement
    <3> HIDE DEF lent
    <3>. QED  BY <1>14, <2>2, <2>3, <2>4, <3>1, <3>3, <3>4
  <2>5. CASE x # Cube
    <3>1. BorrowersIn(t, x) = {} /\ BorrowersIn(s, x) = {}
      BY <1>9, <1>1, <1>11, <2>5, NoOtherBorrowers
    <3>. QED  BY <1>14, <2>2, <2>3, <2>5, <3>1
  <2>. QED  BY <2>4, <2>5
<1>16. DrawsSound(t)
  <2>1. \A x \in Live(t) : t.slots[x].draws =
          {<< IF t.slots[x].borrowedFrom = NoModel THEN x ELSE Cube, "drawn" >>}
    BY <1>3, <1>10 DEF StoreInv, DrawsSound
  <2>2. \A x \in Models : << x, "drawn" >> \in m <=> x = h
    BY <1>6 DEF MeshesOf
  <2>3. \A x \in Models : << x, "drawn" >> \in s.meshes <=> x \in Owners(s)
    BY DEF StoreInv, DrawsSound
  <2>4. \A x \in Models : << x, "drawn" >> \in t.meshes <=> x \in Owners(t)
    BY <1>9, <1>12, <2>2, <2>3
  <2>. QED  BY <2>1, <2>4 DEF DrawsSound
<1>17. CachesSound(t)
  BY <1>3, <1>9, <1>10, <1>12 DEF StoreInv, CachesSound, Owners
<1>. QED  BY <1>3, <1>8, <1>9, <1>10, <1>11, <1>12, <1>13, <1>15, <1>16, <1>17 DEF StoreInv

(* install_model(): upgraded, and the fallback released.                     *)
LEMMA InstalledCounted ==
  ASSUME NEW s, NEW owners, StoreInv(s, owners), NEW h \in Live(s), h # Cube,
         owners[Cube] >= 1
  PROVE  LET t == Installed(s, h)
         IN /\ StoreInv(t, owners) /\ h \in Owners(t) /\ Live(t) = Live(s)
            /\ t.slots[h].source = s.slots[h].source
<1>1. PICK u, after : u = Upgraded(s, h) /\ after = GivenBack(owners, s, h)
  OBVIOUS
<1>2. /\ StoreInv(u, after) /\ Live(u) = Live(s)
      /\ h \in Owners(u) /\ u.slots[h].source = s.slots[h].source
  BY <1>1, UpgradedCounted
<1>3. CASE s.slots[h].borrowedFrom = NoModel
  BY <1>1, <1>2, <1>3 DEF Installed, GivenBack
<1>4. CASE s.slots[h].borrowedFrom # NoModel
  <2>1. s.slots[h].borrowedFrom = Cube
    BY <1>4 DEF StoreInv, OnlyTheCubeLends
  <2>2. Cube \in Models /\ owners \in [Models -> Nat]
    BY StreamingAssumption DEF Models, Cube, StoreInv, Counted
  <2>3. after[Cube] >= 2 /\ after[Cube] >= 1 /\ Minus(after, Cube) = owners
    <3>1. after = Plus(owners, Cube)
      BY <1>1, <1>4 DEF GivenBack
    <3>2. owners[Cube] \in Nat
      BY <2>2
    <3>3. /\ after \in [Models -> Nat] /\ after[Cube] = owners[Cube] + 1
          /\ \A x \in Models : x # Cube => after[x] = owners[x]
      BY <2>2, <3>1 DEF Plus
    <3>4. Minus(after, Cube) \in [Models -> Int]
          /\ \A x \in Models : Minus(after, Cube)[x] = owners[x]
      BY <2>2, <3>2, <3>3 DEF Minus
    <3>5. Minus(after, Cube) = owners
      BY <2>2, <3>4
    <3>. QED  BY <3>2, <3>3, <3>5
  <2>4. Cube \in Live(u)
    <3>1. Refs(u, Cube) = after[Cube] + Cardinality(BorrowersIn(u, Cube))
          /\ Cardinality(BorrowersIn(u, Cube)) \in Nat /\ after[Cube] \in Nat
      BY <1>2, <2>2, BorrowersFinite DEF StoreInv, Counted
    <3>. QED  BY <2>3, <3>1 DEF Refs
  <2>5. PICK t : t = Dropped(u, Cube)
    OBVIOUS
  <2>6. StoreInv(t, owners) /\ RefsSet(u, t, Cube, u.slots[Cube].refs - 1)
    BY <1>2, <2>3, <2>4, <2>5, DroppedCounted
  <2>7. t = Installed(s, h)
    BY <1>1, <1>4, <2>1, <2>5 DEF Installed
  <2>8. h \in Owners(t) /\ Live(t) = Live(s) /\ t.slots[h].source = s.slots[h].source
    BY <1>2, <2>6 DEF RefsSet, Owners
  <2>. QED  BY <2>6, <2>7, <2>8
<1>. QED  BY <1>3, <1>4

(* The caches change, and nothing else.                                      *)
LEMMA OnlyTheCachesChange ==
  ASSUME NEW s, NEW owners, StoreInv(s, owners), NEW t, StoreTypeOK(t),
         t.slots = s.slots, t.meshes = s.meshes, CachesSound(t)
  PROVE  StoreInv(t, owners)
<1>1. /\ Live(t) = Live(s) /\ Owners(t) = Owners(s)
      /\ \A h : BorrowersIn(t, h) = BorrowersIn(s, h) /\ Refs(t, h) = Refs(s, h)
  BY DEF Live, Owners, BorrowersIn, Refs
<1>2. Counted(t, owners)
  BY <1>1 DEF StoreInv, Counted
<1>3. OnlyTheCubeLends(t) /\ DrawsSound(t)
  BY <1>1 DEF StoreInv, OnlyTheCubeLends, DrawsSound
<1>. QED  BY <1>2, <1>3 DEF StoreInv

LEMMA PathIsCached ==
  ASSUME NEW s, NEW owners, StoreInv(s, owners), NEW h \in Owners(s), NEW p \in Paths,
         s.slots[h].source = p
  PROVE  LET t == [s EXCEPT !.pathCache[p] = h]
         IN StoreInv(t, owners) /\ t.slots = s.slots /\ t.modelCache = s.modelCache
<1>1. StoreTypeOK(s) /\ s.pathCache \in Caches /\ h \in Models /\ h \in Live(s)
  BY DEF StoreInv, StoreTypeOK, Owners
<1>2. PICK c : c = [s.pathCache EXCEPT ![p] = h]
  OBVIOUS
<1>3. c \in Caches /\ c[p] = h /\ \A q \in Paths : q # p => c[q] = s.pathCache[q]
  BY <1>1, <1>2 DEF Caches
<1>4. PICK t : t = [s EXCEPT !.pathCache = c]
  OBVIOUS
<1>5. /\ StoreTypeOK(t) /\ t.slots = s.slots /\ t.meshes = s.meshes /\ t.failed = s.failed
      /\ t.pathCache = c /\ t.modelCache = s.modelCache
  BY <1>1, <1>3, <1>4 DEF StoreTypeOK, Live
<1>6. CachesSound(t)
  BY <1>3, <1>5 DEF StoreInv, CachesSound, Owners, Live
<1>7. StoreInv(t, owners)
  BY <1>5, <1>6, OnlyTheCachesChange
<1>. QED  BY <1>2, <1>4, <1>5, <1>7

LEMMA SourceIsRegistered ==
  ASSUME NEW s, NEW owners, StoreInv(s, owners), NEW h \in Owners(s), h # Cube
  PROVE  LET t == SourceRegistered(s, h)
         IN StoreInv(t, owners) /\ t.slots = s.slots
<1>1. StoreTypeOK(s) /\ s.modelCache \in Caches /\ h \in Models /\ h \in Live(s)
  BY DEF StoreInv, StoreTypeOK, Owners
<1>2. PICK p \in Paths : p = s.slots[h].source
  BY <1>1 DEF StoreInv, OnlyTheCubeLends
<1>3. PICK c : c = [s.modelCache EXCEPT ![p] = h]
  OBVIOUS
<1>4. c \in Caches /\ c[p] = h /\ \A q \in Paths : q # p => c[q] = s.modelCache[q]
  BY <1>1, <1>3 DEF Caches
<1>5. PICK t : t = [s EXCEPT !.modelCache = c]
  OBVIOUS
<1>6. /\ StoreTypeOK(t) /\ t.slots = s.slots /\ t.meshes = s.meshes /\ t.failed = s.failed
      /\ t.pathCache = s.pathCache /\ t.modelCache = c
  BY <1>1, <1>4, <1>5 DEF StoreTypeOK, Live
<1>7. CachesSound(t)
  BY <1>2, <1>4, <1>6 DEF StoreInv, CachesSound, Owners, Live
<1>8. StoreInv(t, owners)
  BY <1>6, <1>7, OnlyTheCachesChange
<1>9. SourceRegistered(s, h) = IF s.modelCache[p] = NoModel THEN t ELSE s
  BY <1>2, <1>3, <1>5 DEF SourceRegistered
<1>. QED  BY <1>6, <1>8, <1>9

(* process_ready() after an install: both caches may give the model out.      *)
LEMMA CachedCounted ==
  ASSUME NEW s, NEW owners, StoreInv(s, owners), NEW h \in Owners(s), h # Cube
  PROVE  StoreInv(Cached(s, h), owners) /\ Cached(s, h).slots = s.slots
<1>1. PICK p \in Paths : p = s.slots[h].source
  BY DEF StoreInv, OnlyTheCubeLends, Owners
<1>2. PICK t : t = [s EXCEPT !.pathCache[p] = h]
  OBVIOUS
<1>3. StoreInv(t, owners) /\ t.slots = s.slots
  BY <1>1, <1>2, PathIsCached
<1>4. h \in Owners(t)
  BY <1>3 DEF Owners, Live
<1>5. PICK u : u = SourceRegistered(t, h)
  OBVIOUS
<1>6. StoreInv(u, owners) /\ u.slots = t.slots
  BY <1>3, <1>4, <1>5, SourceIsRegistered
<1>. QED  BY <1>1, <1>2, <1>3, <1>5, <1>6 DEF Cached

(* fail(): the failure is noted, then the streamer's reference goes.          *)
LEMMA FailureCounted ==
  ASSUME NEW s, NEW owners, StoreInv(s, owners), NEW h \in Live(s), h # Cube,
         owners[h] >= 1, owners[Cube] >= 1
  PROVE  StoreInv(SettledFailed(s, h), Minus(owners, h))
<1>1. StoreTypeOK(s) /\ s.failed \in SUBSET Models /\ h \in Models
  BY DEF StoreInv, StoreTypeOK
<1>2. PICK t : t = [s EXCEPT !.failed = @ \cup {h}]
  OBVIOUS
<1>3. /\ StoreTypeOK(t) /\ t.slots = s.slots /\ t.meshes = s.meshes
      /\ t.failed = s.failed \cup {h}
      /\ t.pathCache = s.pathCache /\ t.modelCache = s.modelCache
  BY <1>1, <1>2 DEF StoreTypeOK, Live
<1>4. CachesSound(t)
  BY <1>3 DEF StoreInv, CachesSound, Owners, Live
<1>5. StoreInv(t, owners) /\ h \in Live(t)
  BY <1>3, <1>4, OnlyTheCachesChange DEF Live
<1>6. StoreInv(Dropped(t, h), Minus(owners, h))
  BY <1>5, DroppedCounted
<1>. QED  BY <1>2, <1>6 DEF SettledFailed

-----------------------------------------------------------------------------
(* The operations of the renderer and the streamer.                          *)

LEMMA CubeIsModel == Cube \in Models /\ NoModel \notin Models /\ Models \subseteq Nat
BY StreamingAssumption DEF Models, Cube, NoModel

LEMMA OwnedIsLive ==
  ASSUME NEW s, NEW owners, StoreInv(s, owners), NEW h \in Models, owners[h] >= 1
  PROVE  h \in Live(s)
<1>1. /\ Refs(s, h) = owners[h] + Cardinality(BorrowersIn(s, h))
      /\ Cardinality(BorrowersIn(s, h)) \in Nat /\ owners[h] \in Nat
  BY BorrowersFinite DEF StoreInv, Counted
<1>. QED  BY <1>1 DEF Refs

LEMMA RetainedKeepsLive ==
  ASSUME NEW s, StoreTypeOK(s), NEW h \in Live(s)
  PROVE  Live(Retained(s, h)) = Live(s)
<1>1. PICK n \in Nat : n = s.slots[h].refs + 1
  BY DEF StoreTypeOK, SlotData
<1>2. RefsSet(s, Retained(s, h), h, n)
  BY <1>1, RefsAreSet DEF Retained
<1>. QED  BY <1>2 DEF RefsSet

LEMMA DroppedOwnerLive ==
  ASSUME NEW s, StoreTypeOK(s), NEW h
  PROVE  Live(DroppedOwner(s, h)) \subseteq Live(s)
<1>1. CASE h \notin Live(s)
  BY <1>1 DEF DroppedOwner
<1>2. CASE h \in Live(s) /\ s.slots[h].refs > 1
  <2>1. PICK n \in Nat : n = s.slots[h].refs - 1
    BY <1>2 DEF StoreTypeOK, SlotData
  <2>2. RefsSet(s, [s EXCEPT !.slots[h].refs = n], h, n)
    BY <1>2, <2>1, RefsAreSet
  <2>3. DroppedOwner(s, h) = [s EXCEPT !.slots[h].refs = n]
    BY <1>2, <2>1 DEF DroppedOwner
  <2>. QED  BY <2>2, <2>3 DEF RefsSet
<1>3. CASE h \in Live(s) /\ ~(s.slots[h].refs > 1)
  BY <1>3, SlotIsFreed DEF DroppedOwner
<1>. QED  BY <1>1, <1>2, <1>3

LEMMA DroppedLive ==
  ASSUME NEW s, StoreTypeOK(s), NEW h
  PROVE  Live(Dropped(s, h)) \subseteq Live(s)
<1>1. CASE h \in Live(s) /\ s.slots[h].refs = 1 /\ s.slots[h].borrowedFrom # NoModel
  <2>1. PICK t, b : t = Freed(s, h) /\ b = s.slots[h].borrowedFrom
    OBVIOUS
  <2>2. StoreTypeOK(t) /\ Live(t) \subseteq Live(s)
    BY <1>1, <2>1, SlotIsFreed
  <2>3. Live(DroppedOwner(t, b)) \subseteq Live(t)
    BY <2>2, DroppedOwnerLive
  <2>4. Dropped(s, h) = DroppedOwner(t, b)
    BY <1>1, <2>1 DEF Dropped
  <2>. QED  BY <2>2, <2>3, <2>4
<1>2. CASE ~(h \in Live(s) /\ s.slots[h].refs = 1 /\ s.slots[h].borrowedFrom # NoModel)
  BY <1>2, DroppedOwnerLive DEF Dropped
<1>. QED  BY <1>1, <1>2

(* request_prepared(): the new slot belongs to the caller and the streamer.   *)
LEMMA PendingCounted ==
  ASSUME NEW s, NEW owners, StoreInv(s, owners), NEW h \in Models \ Live(s), h # Cube,
         NEW p \in Paths, owners[Cube] >= 1
  PROVE  LET t == Retained(PendingSlot(s, h, p), h)
         IN StoreInv(t, Plus(Plus(owners, h), h)) /\ Live(t) = Live(s) \cup {h}
<1>1. Cube \in Models /\ owners \in [Models -> Nat] /\ Cube \in Live(s) /\ h \in Models
  BY CubeIsModel, OwnedIsLive DEF StoreInv, Counted
<1>2. PICK entry : entry = [refs |-> 1, source |-> p, draws |-> {<< Cube, "drawn" >>},
                          borrowedFrom |-> Cube]
  OBVIOUS
<1>3. entry \in SlotData
  BY <1>1, <1>2 DEF SlotData, Meshes
<1>4. PICK w : w = WithSlot(s, h, entry)
  OBVIOUS
<1>5. StoreTypeOK(w) /\ Live(w) = Live(s) \cup {h}
  BY <1>1, <1>3, <1>4, SlotIsAdded DEF StoreInv
<1>6. PICK v : v = [w EXCEPT !.meshes = @ \cup {}]
  OBVIOUS
<1>7. v = w
  BY <1>5, <1>6 DEF StoreTypeOK
<1>8. PICK mid : mid = Plus(Minus(owners, Cube), h)
  OBVIOUS
<1>9. StoreInv(w, mid)
  <2>1. PICK pending \in BOOLEAN : pending = TRUE
    OBVIOUS
  <2>2. entry = [refs |-> 1, source |-> p,
                draws |-> {<< IF pending THEN Cube ELSE h, "drawn" >>},
                borrowedFrom |-> IF pending THEN Cube ELSE NoModel]
    BY <1>2, <2>1
  <2>3. v = [WithSlot(s, h, entry) EXCEPT !.meshes = @ \cup IF pending THEN {} ELSE MeshesOf(h)]
    BY <1>4, <1>6, <2>1
  <2>4. mid = Plus(IF pending THEN Minus(owners, Cube) ELSE owners, h)
    BY <1>8, <2>1
  <2>5. StoreInv(v, mid)
    BY <1>1, <2>2, <2>3, <2>4, SlotCounted
  <2>. QED  BY <1>7, <2>5
<1>10. PICK u, once : u = Retained(w, Cube) /\ once = Plus(mid, Cube)
  OBVIOUS
<1>11. StoreInv(u, once) /\ Live(u) = Live(s) \cup {h}
  BY <1>1, <1>5, <1>9, <1>10, RetainedCounted, RetainedKeepsLive
<1>12. once = Plus(owners, h)
  <2>1. owners[Cube] \in Nat /\ owners[h] \in Nat
    BY <1>1
  <2>2. /\ mid \in [Models -> Int] /\ mid[Cube] = owners[Cube] - 1 /\ mid[h] = owners[h] + 1
        /\ \A x \in Models : x \notin {h, Cube} => mid[x] = owners[x]
    BY <1>1, <1>8 DEF Plus, Minus
  <2>3. once \in [Models -> Int] /\ \A x \in Models : once[x] = Plus(owners, h)[x]
    BY <1>1, <1>10, <2>1, <2>2 DEF Plus
  <2>. QED  BY <1>1, <2>3 DEF Plus
<1>13. u = PendingSlot(s, h, p)
  <2>1. s.slots[Cube].draws = {<< Cube, "drawn" >>}
    BY <1>1 DEF StoreInv, DrawsSound, OnlyTheCubeLends
  <2>. QED  BY <1>2, <1>4, <1>10, <2>1 DEF PendingSlot
<1>14. /\ StoreInv(Retained(u, h), Plus(once, h))
       /\ Live(Retained(u, h)) = Live(u)
  <2>1. h \in Live(u) /\ StoreTypeOK(u)
    BY <1>11 DEF StoreInv
  <2>. QED  BY <1>11, <2>1, RetainedCounted, RetainedKeepsLive
<1>. QED  BY <1>11, <1>12, <1>13, <1>14

(* load_model() that waits: a model of its own with one owner.               *)
LEMMA NewModelCounted ==
  ASSUME NEW s, NEW owners, StoreInv(s, owners), NEW h \in Models \ Live(s), h # Cube,
         NEW p \in Paths, Cube \in Live(s)
  PROVE  LET t == SourceRegistered(NewModel(s, h, p), h)
         IN StoreInv(t, Plus(owners, h)) /\ Live(t) = Live(s) \cup {h}
<1>1. PICK pending \in BOOLEAN : pending = FALSE
  OBVIOUS
<1>2. PICK entry : entry = [refs |-> 1, source |-> p,
                draws |-> {<< IF pending THEN Cube ELSE h, "drawn" >>},
                borrowedFrom |-> IF pending THEN Cube ELSE NoModel]
  OBVIOUS
<1>3. PICK t : t = [WithSlot(s, h, entry) EXCEPT !.meshes = @ \cup
                      IF pending THEN {} ELSE MeshesOf(h)]
  OBVIOUS
<1>4. /\ StoreInv(t, Plus(IF pending THEN Minus(owners, Cube) ELSE owners, h))
      /\ Live(t) = Live(s) \cup {h} /\ t.slots[h] = entry
  <2>1. StoreInv(t, Plus(IF pending THEN Minus(owners, Cube) ELSE owners, h))
    BY <1>1, <1>2, <1>3, SlotCounted
  <2>2. PICK w, ms : w = WithSlot(s, h, entry) /\ ms = IF pending THEN {} ELSE MeshesOf(h)
    OBVIOUS
  <2>3. entry \in SlotData
    BY <1>1, <1>2, CubeIsModel DEF SlotData, Meshes
  <2>4. StoreTypeOK(w) /\ Live(w) = Live(s) \cup {h} /\ w.slots[h] = entry
    BY <2>2, <2>3, SlotIsAdded DEF StoreInv
  <2>5. ms \in SUBSET Meshes
    BY <2>2 DEF MeshesOf, Meshes
  <2>6. t = [w EXCEPT !.meshes = @ \cup ms]
    BY <1>3, <2>2
  <2>7. t.slots = w.slots
    BY <2>4, <2>5, <2>6, MeshesAreAdded
  <2>. QED  BY <2>1, <2>4, <2>7 DEF Live
<1>5. t = NewModel(s, h, p)
  <2>1. entry = [refs |-> 1, draws |-> {<< h, "drawn" >>}, borrowedFrom |-> NoModel, source |-> p]
    BY <1>1, <1>2
  <2>. QED  BY <1>1, <1>3, <2>1 DEF NewModel
<1>6. StoreInv(t, Plus(owners, h)) /\ h \in Owners(t)
  BY <1>1, <1>2, <1>4 DEF Owners
<1>7. PICK u : u = SourceRegistered(t, h)
  OBVIOUS
<1>8. StoreInv(u, Plus(owners, h)) /\ u.slots = t.slots
  BY <1>6, <1>7, SourceIsRegistered
<1>. QED  BY <1>4, <1>5, <1>7, <1>8 DEF Live

(* process_ready() of a request that is through.                             *)
LEMMA InstallCounted ==
  ASSUME NEW s, NEW owners, StoreInv(s, owners), NEW h \in Live(s), h # Cube,
         owners[h] >= 1, owners[Cube] >= 1
  PROVE  LET t == Dropped(Cached(Installed(s, h), h), h)
         IN StoreInv(t, Minus(owners, h))
<1>1. PICK u : u = Installed(s, h)
  OBVIOUS
<1>2. StoreInv(u, owners) /\ h \in Owners(u)
  BY <1>1, InstalledCounted
<1>3. PICK v : v = Cached(u, h)
  OBVIOUS
<1>4. StoreInv(v, owners) /\ h \in Live(v)
  BY <1>2, <1>3, CachedCounted DEF Owners, Live
<1>. QED  BY <1>1, <1>3, <1>4, DroppedCounted

-----------------------------------------------------------------------------
(* The references outside of the storage: one request of each handle at most,  *)
(* so the streamer holds one reference or none.                              *)

Waits(P, h) == \E r \in P : r.handle = h /\ r.stage # "installed"
OwnersOf(P, callers) == [h \in Models |-> callers[h] + IF Waits(P, h) THEN 1 ELSE 0]

LEMMA OneReferenceWaits ==
  ASSUME NEW P, OneRequestEach(P), NEW h
  PROVE  Cardinality({ r \in { q \in P : q.handle = h } : r.stage # "installed" })
           = IF Waits(P, h) THEN 1 ELSE 0
<1> DEFINE U == { r \in { q \in P : q.handle = h } : r.stage # "installed" }
<1>1. CASE Waits(P, h)
  <2>1. PICK r \in P : r.handle = h /\ r.stage # "installed"
    BY <1>1 DEF Waits
  <2>2. U = {r}
    BY <2>1 DEF OneRequestEach
  <2>3. Cardinality({r}) = 1
    BY FS_Singleton
  <2>. QED  BY <1>1, <2>2, <2>3
<1>2. CASE ~Waits(P, h)
  <2>1. U = {}
    BY <1>2 DEF Waits
  <2>. QED  BY <1>2, <2>1, FS_EmptySet
<1>. QED  BY <1>1, <1>2

LEMMA OwnersAreOutside ==
  /\ RequestsAreIssued => OwnersNow = OwnersOf(pendingLoads, held)
  /\ RequestsAreIssued' => OwnersNow' = OwnersOf(pendingLoads', held')
<1>1. ASSUME RequestsAreIssued PROVE OwnersNow = OwnersOf(pendingLoads, held)
  <2>1. \A h \in Models : Cardinality(Unsettled(h)) = IF Waits(pendingLoads, h) THEN 1 ELSE 0
    BY <1>1, OneReferenceWaits DEF RequestsAreIssued, Unsettled, RequestsOf
  <2>. QED  BY <2>1 DEF OwnersNow, OwnersOf
<1>2. ASSUME RequestsAreIssued' PROVE OwnersNow' = OwnersOf(pendingLoads', held')
  <2>1. PICK P : P = pendingLoads'
    OBVIOUS
  <2>2. \A h \in Models : Unsettled(h)' =
           { r \in { q \in P : q.handle = h } : r.stage # "installed" }
    BY <2>1 DEF Unsettled, RequestsOf
  <2>3. OneRequestEach(P)
    BY <1>2, <2>1 DEF RequestsAreIssued, OneRequestEach
  <2>4. \A h \in Models : Cardinality(Unsettled(h)') = IF Waits(P, h) THEN 1 ELSE 0
    BY <2>2, <2>3, OneReferenceWaits
  <2>. QED  BY <2>1, <2>4 DEF OwnersNow, OwnersOf
<1>. QED  BY <1>1, <1>2

LEMMA RequestReplaced ==
  ASSUME NEW P, OneRequestEach(P), NEW r \in P, NEW q, q.handle = r.handle
  PROVE  /\ OneRequestEach((P \ {r}) \cup {q})
         /\ \A h : Waits((P \ {r}) \cup {q}, h) <=>
              IF h = r.handle THEN q.stage # "installed" ELSE Waits(P, h)
BY DEF OneRequestEach, Waits

LEMMA RequestRemoved ==
  ASSUME NEW P, OneRequestEach(P), NEW r \in P
  PROVE  /\ OneRequestEach(P \ {r})
         /\ \A h : Waits(P \ {r}, h) <=> h # r.handle /\ Waits(P, h)
BY DEF OneRequestEach, Waits

LEMMA RequestsChange ==
  ASSUME NEW r \in LoadRequests
  PROVE  /\ \A stage \in LoadStages :
              LET q == [r EXCEPT !.stage = stage]
              IN q \in LoadRequests /\ q.handle = r.handle /\ q.stage = stage
         /\ \A stage \in LoadStages, work \in 0 .. MaxWork :
              LET q == [r EXCEPT !.stage = stage, !.work = work]
              IN q \in LoadRequests /\ q.handle = r.handle /\ q.stage = stage
         /\ r.work > 0 =>
              LET q == Worked(r)
              IN q \in LoadRequests /\ q.handle = r.handle /\ q.stage = r.stage
<1>1. /\ r.handle \in Models /\ r.path \in Paths /\ r.stage \in LoadStages
      /\ r.work \in 0 .. MaxWork
      /\ r = [handle |-> r.handle, path |-> r.path, stage |-> r.stage, work |-> r.work]
  BY DEF LoadRequests
<1>2. ASSUME NEW stage \in LoadStages
      PROVE  LET q == [r EXCEPT !.stage = stage]
             IN q \in LoadRequests /\ q.handle = r.handle /\ q.stage = stage
  BY DEF LoadRequests
<1>3. ASSUME NEW stage \in LoadStages, NEW work \in 0 .. MaxWork
      PROVE  LET q == [r EXCEPT !.stage = stage, !.work = work]
             IN q \in LoadRequests /\ q.handle = r.handle /\ q.stage = stage
  <2>1. PICK m : m = [r EXCEPT !.stage = stage]
    OBVIOUS
  <2>2. m \in LoadRequests /\ m.handle = r.handle /\ m.stage = stage
    BY <2>1 DEF LoadRequests
  <2>3. PICK q : q = [m EXCEPT !.work = work]
    OBVIOUS
  <2>4. q \in LoadRequests /\ q.handle = r.handle /\ q.stage = stage
    BY <2>2, <2>3 DEF LoadRequests
  <2>5. q = [r EXCEPT !.stage = stage, !.work = work]
    BY <2>1, <2>3, Zenon
  <2>. QED  BY <2>4, <2>5
<1>4. ASSUME r.work > 0
      PROVE  LET q == Worked(r)
             IN q \in LoadRequests /\ q.handle = r.handle /\ q.stage = r.stage
  <2>1. r.work - 1 \in 0 .. MaxWork
    BY <1>1, <1>4, StreamingAssumption
  <2>. QED  BY <2>1 DEF Worked, LoadRequests
<1>. QED  BY <1>2, <1>3, <1>4

-----------------------------------------------------------------------------

LEMMA StoreNow ==
  ASSUME StreamerInv, initialized
  PROVE  /\ StoreInv(modelStore, OwnersOf(pendingLoads, held))
         /\ OwnersOf(pendingLoads, held)[Cube] >= held[Cube] /\ held[Cube] >= 1
         /\ Cube \in Live(modelStore)
         /\ \A h \in Models : /\ OwnersOf(pendingLoads, held)[h] >= held[h]
                             /\ OwnersOf(pendingLoads, held)[h] \in Nat
<1>1. /\ StoreInv(modelStore, OwnersOf(pendingLoads, held)) /\ held[Cube] >= 1
      /\ held \in [Models -> 0 .. MaxHeld]
  BY OwnersAreOutside DEF StreamerInv, RequestsAreIssued
<1>2. \A h \in Models : /\ OwnersOf(pendingLoads, held)[h] >= held[h]
                        /\ OwnersOf(pendingLoads, held)[h] \in Nat
  BY <1>1 DEF OwnersOf
<1>3. Cube \in Models
  BY CubeIsModel
<1>4. OwnersOf(pendingLoads, held)[Cube] >= 1
  <2>1. held[Cube] \in Nat
    BY <1>1, <1>3
  <2>. QED  BY <1>1, <1>2, <1>3, <2>1
<1>. QED  BY <1>1, <1>2, <1>3, <1>4, OwnedIsLive

LEMMA StoreAfter ==
  ASSUME RequestsAreIssued', initialized' = TRUE, held'[Cube] >= 1,
         NEW owners, StoreInv(modelStore', owners),
         owners = OwnersOf(pendingLoads', held')
  PROVE  StreamerInv'
<1>1. PICK s : s = modelStore'
  OBVIOUS
<1>2. StoreTypeOK(s)
  BY <1>1 DEF StoreInv
<1>3. owners = OwnersNow'
  BY OwnersAreOutside
<1>4. StoreInv(s, owners) = (StoreInv(modelStore, OwnersNow))'
  BY <1>1, <1>3 DEF StoreInv, StoreTypeOK, Counted, OnlyTheCubeLends, DrawsSound, CachesSound,
                     Refs, BorrowersIn, Owners, Live
<1>5. StoreTypeOK(modelStore)'
  BY <1>1, <1>2 DEF StoreTypeOK, Live
<1>. QED  BY <1>1, <1>4, <1>5 DEF StreamerInv

LEMMA OneMoreCaller ==
  ASSUME NEW P, NEW f \in [Models -> Nat], NEW h \in Models
  PROVE  Plus(OwnersOf(P, f), h) = OwnersOf(P, [f EXCEPT ![h] = @ + 1])
<1>1. PICK a : a = OwnersOf(P, f)
  OBVIOUS
<1>2. a \in [Models -> Nat] /\ \A x \in Models : a[x] = f[x] + IF Waits(P, x) THEN 1 ELSE 0
  BY <1>1 DEF OwnersOf
<1>3. PICK g : g = [f EXCEPT ![h] = @ + 1]
  OBVIOUS
<1>4. g \in [Models -> Nat] /\ \A x \in Models : g[x] = IF x = h THEN f[x] + 1 ELSE f[x]
  BY <1>3
<1>5. /\ Plus(a, h) \in [Models -> Nat]
      /\ \A x \in Models : Plus(a, h)[x] = IF x = h THEN a[x] + 1 ELSE a[x]
  BY <1>2 DEF Plus
<1>6. \A x \in Models : Plus(a, h)[x] = g[x] + IF Waits(P, x) THEN 1 ELSE 0
  <2>1. \A x \in Models : f[x] \in Nat
    OBVIOUS
  <2>. QED  BY <1>2, <1>4, <1>5, <2>1
<1>. QED  BY <1>1, <1>3, <1>5, <1>6 DEF OwnersOf

LEMMA IssuedHandles ==
  ASSUME StreamerInv
  PROVE  /\ issued \in Nat
         /\ \A r \in pendingLoads : /\ r.handle \in Models /\ r.handle \in Nat
                                   /\ r.handle # Cube /\ r.handle <= issued
         /\ \A h \in Live(modelStore) : h \in Models /\ h <= issued
         /\ \A h \in Models : h \in Nat
<1>1. \A r \in pendingLoads : r \in LoadRequests
  BY DEF StreamerInv, RequestsAreIssued
<1>2. \A r \in LoadRequests : r.handle \in Models
  BY DEF LoadRequests
<1>. QED  BY <1>1, <1>2, CubeIsModel DEF StreamerInv, RequestsAreIssued, StoreTypeOK

-----------------------------------------------------------------------------
(* One lemma per kind of step.                                               *)

(* A caller has one reference more on a live model.                          *)
LEMMA CallerRetains ==
  ASSUME StreamerInv, initialized, NEW h \in Live(modelStore),
         modelStore' = Retained(modelStore, h), Hold(h),
         initialized' = initialized, issued' = issued, pendingLoads' = pendingLoads
  PROVE  StreamerInv'
<1> DEFINE owners == OwnersOf(pendingLoads, held)
<1>1. /\ RequestsAreIssued /\ StoreTypeOK(modelStore) /\ h \in Models /\ Cube \in Models
      /\ held \in [Models -> 0 .. MaxHeld] /\ MaxHeld \in Nat
  BY CubeIsModel, StreamingAssumption DEF StreamerInv, RequestsAreIssued, StoreTypeOK
<1>2. held' \in [Models -> 0 .. MaxHeld] /\ held'[h] = held[h] + 1
      /\ \A x \in Models : x # h => held'[x] = held[x]
  BY <1>1 DEF Hold
<1>3. Live(modelStore)' = Live(modelStore)
  <2>1. PICK s : s = modelStore'
    OBVIOUS
  <2>2. Live(s) = Live(modelStore)
    BY <1>1, <2>1, RetainedKeepsLive
  <2>. QED  BY <2>1, <2>2 DEF Live
<1>4. RequestsAreIssued'
  <2>1. \A x \in Models : x > issued => x # h /\ held[x] = 0
    BY <1>1, IssuedHandles DEF RequestsAreIssued
  <2>2. \A x \in Models : x > issued => held'[x] = 0
    BY <1>2, <2>1
  <2>3. OneRequestEach(pendingLoads)'
    BY <1>1 DEF RequestsAreIssued, OneRequestEach
  <2>. QED  BY <1>1, <1>2, <1>3, <2>2, <2>3 DEF RequestsAreIssued
<1>5. StoreInv(modelStore', Plus(owners, h))
  BY <1>1, StoreNow, RetainedCounted
<1>6. Plus(owners, h) = OwnersOf(pendingLoads', held')
  <2>1. held \in [Models -> Nat]
    BY <1>1
  <2>. QED  BY <1>1, <2>1, OneMoreCaller DEF Hold
<1>7. held'[Cube] >= 1
  BY <1>1, <1>2, StoreNow
<1>. QED  BY <1>4, <1>5, <1>6, <1>7, StoreAfter, initialized = TRUE DEF StreamerInv

(* A new handle: nothing has it.                                             *)
LEMMA HandleIsNew ==
  ASSUME StreamerInv, issued < MaxIssued
  PROVE  /\ NewHandle \in Models \ Live(modelStore) /\ NewHandle # Cube
         /\ held[NewHandle] = 0 /\ ~Waits(pendingLoads, NewHandle)
         /\ \A r \in pendingLoads : r.handle # NewHandle
<1>1. /\ issued \in Models /\ NewHandle \in Models /\ NewHandle > issued /\ NewHandle # Cube
  BY StreamingAssumption DEF StreamerInv, RequestsAreIssued, NewHandle, Models, Cube
<1>2. issued \in Int /\ NewHandle \in Int /\ \A r \in pendingLoads : r.handle \in Int
  BY <1>1, CubeIsModel DEF StreamerInv, RequestsAreIssued, LoadRequests
<1>3. \A r \in pendingLoads : r.handle # NewHandle
  BY <1>1, <1>2 DEF StreamerInv, RequestsAreIssued
<1>4. NewHandle \notin Live(modelStore)
  BY <1>1, <1>2 DEF StreamerInv, RequestsAreIssued
<1>5. held[NewHandle] = 0
  BY <1>1 DEF StreamerInv, RequestsAreIssued
<1>. QED  BY <1>1, <1>3, <1>4, <1>5 DEF Waits

LEMMA RequestKeeps ==
  ASSUME StreamerInv, NEW p \in Paths, Request(p)
  PROVE  StreamerInv'
<1> DEFINE owners == OwnersOf(pendingLoads, held)
           h == NewHandle
           new == [handle |-> h, path |-> p, stage |-> "loading", work |-> 0]
<1>1. /\ initialized /\ initialized' = initialized /\ issued' = h /\ Hold(h)
      /\ modelStore' = Retained(PendingSlot(modelStore, h, p), h)
      /\ pendingLoads' = pendingLoads \cup {new} /\ issued < MaxIssued
  BY DEF Request
<1>2. /\ h \in Models \ Live(modelStore) /\ h # Cube /\ held[h] = 0
      /\ ~Waits(pendingLoads, h) /\ \A r \in pendingLoads : r.handle # h
      /\ h = issued + 1
  BY <1>1, HandleIsNew DEF NewHandle
<1>3. /\ RequestsAreIssued /\ issued \in Nat /\ Cube \in Models /\ Models \subseteq Nat
      /\ held \in [Models -> 0 .. MaxHeld] /\ MaxHeld \in Nat /\ MaxWork \in Nat
  BY CubeIsModel, StreamingAssumption DEF StreamerInv, RequestsAreIssued
<1>4. new \in LoadRequests /\ new.handle = h /\ new.stage # "installed"
  BY <1>2, <1>3 DEF LoadRequests, LoadStages
<1>5. PICK q : q = new
  OBVIOUS
<1>6. /\ StoreInv(modelStore', Plus(Plus(owners, h), h))
      /\ Live(modelStore') = Live(modelStore) \cup {h}
  <2>1. owners[Cube] >= 1
    BY <1>1, <1>3, StoreNow
  <2>2. StoreInv(modelStore, owners)
    BY <1>1, StoreNow
  <2>3. PICK s, k : s = modelStore /\ k = h
    OBVIOUS
  <2> HIDE DEF owners, h
  <2>4. /\ StoreInv(Retained(PendingSlot(s, k, p), k), Plus(Plus(owners, k), k))
        /\ Live(Retained(PendingSlot(s, k, p), k)) = Live(s) \cup {k}
    BY <1>2, <2>1, <2>2, <2>3, PendingCounted
  <2>. QED  BY <1>1, <2>3, <2>4
<1> HIDE DEF h, new
<1>7. /\ held' \in [Models -> 0 .. MaxHeld] /\ held'[h] = held[h] + 1
      /\ \A x \in Models : x # h => held'[x] = held[x]
  BY <1>1, <1>2, <1>3 DEF Hold
<1>8. /\ OneRequestEach(pendingLoads')
      /\ \A x \in Models : Waits(pendingLoads', x) <=> x = h \/ Waits(pendingLoads, x)
  BY <1>1, <1>2, <1>3, <1>4 DEF RequestsAreIssued, OneRequestEach, Waits
<1>9. RequestsAreIssued'
  <2>1. pendingLoads' \in SUBSET LoadRequests
    BY <1>1, <1>3, <1>4 DEF RequestsAreIssued
  <2>2. \A r \in pendingLoads' : r.handle # Cube /\ r.handle <= h
    <3>1. \A r \in pendingLoads : r.handle # Cube /\ r.handle <= h
      BY <1>2, IssuedHandles
    <3>2. h <= h /\ h # Cube
      BY <1>2, <1>3
    <3>. QED  BY <1>1, <1>4, <3>1, <3>2
  <2>3. \A x \in Live(modelStore)' : x <= h
    <3>1. \A x \in Live(modelStore) : x \in Int /\ x <= issued
      BY <1>3 DEF RequestsAreIssued, StreamerInv, StoreTypeOK
    <3>2. Live(modelStore)' = Live(modelStore) \cup {h}
      BY <1>6 DEF Live
    <3>. QED  BY <1>2, <1>3, <3>1, <3>2
  <2>4. \A x \in Models : x > h => held'[x] = 0
    <3>1. ASSUME NEW x \in Models, x > h PROVE x > issued /\ x # h
      BY <1>2, <1>3, <3>1
    <3>. QED  BY <1>3, <1>7, <3>1 DEF RequestsAreIssued
  <2>. QED  BY <1>1, <1>2, <1>7, <1>8, <2>1, <2>2, <2>3, <2>4
            DEF RequestsAreIssued, OneRequestEach
<1>10. Plus(Plus(owners, h), h) = OwnersOf(pendingLoads', held')
  BY <1>2, <1>3, <1>7, <1>8 DEF OwnersOf, Plus
<1>11. held'[Cube] >= 1
  BY <1>1, <1>2, <1>3, <1>7, StoreNow
<1>12. initialized' = TRUE
  BY <1>1 DEF StreamerInv
<1>. QED  BY <1>6, <1>9, <1>10, <1>11, <1>12, StoreAfter

LEMMA LoadNowKeeps ==
  ASSUME StreamerInv, NEW p \in Paths, LoadNow(p)
  PROVE  StreamerInv'
<1> DEFINE owners == OwnersOf(pendingLoads, held)
           h == NewHandle
<1>1. /\ initialized /\ initialized' = initialized /\ issued' = h /\ Hold(h)
      /\ modelStore' = SourceRegistered(NewModel(modelStore, h, p), h)
      /\ pendingLoads' = pendingLoads /\ issued < MaxIssued
  BY DEF LoadNow
<1>2. /\ h \in Models \ Live(modelStore) /\ h # Cube /\ held[h] = 0
      /\ ~Waits(pendingLoads, h) /\ h = issued + 1
  BY <1>1, HandleIsNew DEF NewHandle
<1>3. /\ RequestsAreIssued /\ issued \in Nat /\ Cube \in Models /\ Models \subseteq Nat
      /\ held \in [Models -> 0 .. MaxHeld] /\ MaxHeld \in Nat
  BY CubeIsModel, StreamingAssumption DEF StreamerInv, RequestsAreIssued
<1>4. /\ StoreInv(modelStore', Plus(owners, h))
      /\ Live(modelStore') = Live(modelStore) \cup {h}
  <2>1. StoreInv(modelStore, owners) /\ Cube \in Live(modelStore)
    BY <1>1, StoreNow
  <2>2. PICK s, k : s = modelStore /\ k = h
    OBVIOUS
  <2> HIDE DEF owners, h
  <2>3. /\ StoreInv(SourceRegistered(NewModel(s, k, p), k), Plus(owners, k))
        /\ Live(SourceRegistered(NewModel(s, k, p), k)) = Live(s) \cup {k}
    BY <1>2, <2>1, <2>2, NewModelCounted
  <2>. QED  BY <1>1, <2>2, <2>3
<1> HIDE DEF h
<1>5. /\ held' \in [Models -> 0 .. MaxHeld] /\ held'[h] = held[h] + 1
      /\ \A x \in Models : x # h => held'[x] = held[x]
  BY <1>1, <1>2, <1>3 DEF Hold
<1>6. RequestsAreIssued'
  <2>1. \A r \in pendingLoads : r.handle # Cube /\ r.handle <= h
    BY <1>2, IssuedHandles
  <2>2. \A x \in Live(modelStore)' : x <= h
    <3>1. \A x \in Live(modelStore) : x \in Int /\ x <= issued
      BY <1>3 DEF RequestsAreIssued, StreamerInv, StoreTypeOK
    <3>2. Live(modelStore)' = Live(modelStore) \cup {h}
      BY <1>4 DEF Live
    <3>. QED  BY <1>2, <1>3, <3>1, <3>2
  <2>3. \A x \in Models : x > h => held'[x] = 0
    <3>1. ASSUME NEW x \in Models, x > h PROVE x > issued /\ x # h
      BY <1>2, <1>3, <3>1
    <3>. QED  BY <1>3, <1>5, <3>1 DEF RequestsAreIssued
  <2>. QED  BY <1>1, <1>2, <1>3, <1>5, <2>1, <2>2, <2>3
            DEF RequestsAreIssued, OneRequestEach
<1>7. Plus(owners, h) = OwnersOf(pendingLoads', held')
  <2>1. held \in [Models -> Nat] /\ h \in Models
    BY <1>2, <1>3
  <2>2. held' = [held EXCEPT ![h] = @ + 1]
    BY <1>1 DEF Hold
  <2>. QED  BY <1>1, <2>1, <2>2, OneMoreCaller
<1>8. held'[Cube] >= 1
  BY <1>1, <1>2, <1>3, <1>5, StoreNow
<1>9. initialized' = TRUE
  BY <1>1 DEF StreamerInv
<1>. QED  BY <1>4, <1>6, <1>7, <1>8, <1>9, StoreAfter

(* The requests change, nothing is issued and the callers stay as they are.   *)
LEMMA RequestsStayIssued ==
  ASSUME StreamerInv, issued' = issued, held' = held,
         Live(modelStore') \subseteq Live(modelStore),
         OneRequestEach(pendingLoads'), pendingLoads' \in SUBSET LoadRequests,
         \A r \in pendingLoads' : \E q \in pendingLoads : r.handle = q.handle
  PROVE  RequestsAreIssued'
<1>1. Live(modelStore)' \subseteq Live(modelStore)
  BY DEF Live
<1>2. OneRequestEach(pendingLoads)'
  BY DEF OneRequestEach
<1>3. \A r \in pendingLoads' : r.handle # Cube /\ r.handle <= issued
  BY IssuedHandles
<1>4. \A h \in Live(modelStore)' : h <= issued
  BY <1>1, IssuedHandles
<1>. QED  BY <1>2, <1>3, <1>4 DEF RequestsAreIssued, StreamerInv

LEMMA LoadEndsKeeps ==
  ASSUME StreamerInv, NEW r \in pendingLoads, LoadEnds(r) \/ Visit(r)
  PROVE  StreamerInv'
<1>1. /\ issued' = issued /\ held' = held /\ modelStore' = modelStore
      /\ initialized' = initialized
  BY DEF LoadEnds, Visit
<1>2. r \in LoadRequests /\ OneRequestEach(pendingLoads) /\ RequestsAreIssued
  BY DEF StreamerInv, RequestsAreIssued
<1>3. PICK q \in LoadRequests : /\ pendingLoads' = (pendingLoads \ {r}) \cup {q}
                               /\ q.handle = r.handle
                               /\ q.stage # "installed" /\ r.stage # "installed"
  <2>1. CASE Visit(r)
    <3>1. /\ r.work > 0 /\ r.stage = "loaded"
          /\ pendingLoads' = (pendingLoads \ {r}) \cup {Worked(r)}
      BY <2>1 DEF Visit
    <3>2. /\ Worked(r) \in LoadRequests /\ Worked(r).handle = r.handle
          /\ Worked(r).stage = r.stage
      BY <1>2, <3>1, RequestsChange
    <3>. QED  BY <3>1, <3>2
  <2>2. CASE LoadEnds(r)
    <3>1. r.stage = "loading" /\ "broken" \in LoadStages /\ "loaded" \in LoadStages
      BY <2>2 DEF LoadEnds, LoadStages
    <3>2. CASE pendingLoads' = (pendingLoads \ {r}) \cup {[r EXCEPT !.stage = "broken"]}
      <4>1. PICK q : q = [r EXCEPT !.stage = "broken"]
        OBVIOUS
      <4>2. q \in LoadRequests /\ q.handle = r.handle /\ q.stage = "broken"
        BY <1>2, <3>1, <4>1, RequestsChange
      <4>. QED  BY <3>1, <3>2, <4>1, <4>2
    <3>3. CASE \E work \in 0 .. MaxWork :
                 pendingLoads' = (pendingLoads \ {r})
                                   \cup {[r EXCEPT !.stage = "loaded", !.work = work]}
      <4>1. PICK work \in 0 .. MaxWork :
              pendingLoads' = (pendingLoads \ {r})
                                \cup {[r EXCEPT !.stage = "loaded", !.work = work]}
        BY <3>3
      <4>2. PICK q : q = [r EXCEPT !.stage = "loaded", !.work = work]
        OBVIOUS
      <4>3. q \in LoadRequests /\ q.handle = r.handle /\ q.stage = "loaded"
        BY <1>2, <3>1, <4>2, RequestsChange
      <4>. QED  BY <3>1, <4>1, <4>2, <4>3
    <3>. QED  BY <2>2, <3>2, <3>3 DEF LoadEnds
  <2>. QED  BY <2>1, <2>2
<1>4. /\ OneRequestEach(pendingLoads')
      /\ \A h : Waits(pendingLoads', h) <=> Waits(pendingLoads, h)
  <2>1. Waits(pendingLoads, r.handle)
    BY <1>3 DEF Waits
  <2>. QED  BY <1>2, <1>3, <2>1, RequestReplaced
<1>5. RequestsAreIssued'
  <2>1. pendingLoads' \in SUBSET LoadRequests
    BY <1>2, <1>3 DEF RequestsAreIssued
  <2>2. \A x \in pendingLoads' : \E y \in pendingLoads : x.handle = y.handle
    BY <1>3
  <2>. QED  BY <1>1, <1>4, <2>1, <2>2, RequestsStayIssued
<1>6. CASE ~initialized
  <2>1. pendingLoads = {}
    BY <1>6 DEF StreamerInv
  <2>. QED  BY <2>1
<1>7. CASE initialized
  <2>1. OwnersOf(pendingLoads', held') = OwnersOf(pendingLoads, held)
    BY <1>1, <1>4 DEF OwnersOf
  <2>2. initialized' = TRUE
    BY <1>1, <1>7 DEF StreamerInv
  <2>. QED  BY <1>1, <1>5, <1>7, <2>1, <2>2, StoreNow, StoreAfter
<1>. QED  BY <1>6, <1>7

(* The streamer's reference goes with the request, or the request stays to    *)
(* wait for the textures alone.                                              *)
LEMMA SettledKeeps ==
  ASSUME StreamerInv, initialized, NEW r \in pendingLoads, r.stage # "installed",
         issued' = issued, held' = held, initialized' = initialized,
         StoreInv(modelStore', Minus(OwnersOf(pendingLoads, held), r.handle)),
         Live(modelStore') \subseteq Live(modelStore),
         OneRequestEach(pendingLoads'), pendingLoads' \in SUBSET LoadRequests,
         \A x \in pendingLoads' : \E y \in pendingLoads : x.handle = y.handle,
         \A h : Waits(pendingLoads', h) <=> h # r.handle /\ Waits(pendingLoads, h)
  PROVE  StreamerInv'
<1>1. RequestsAreIssued'
  BY RequestsStayIssued
<1>2. Minus(OwnersOf(pendingLoads, held), r.handle) = OwnersOf(pendingLoads', held')
  <2>1. PICK h \in Models : h = r.handle
    BY IssuedHandles
  <2>2. held \in [Models -> Nat]
    BY StreamingAssumption DEF StreamerInv, RequestsAreIssued
  <2>3. PICK a : a = OwnersOf(pendingLoads, held)
    OBVIOUS
  <2>4. /\ a \in [Models -> Nat]
        /\ \A x \in Models : a[x] = held[x] + IF Waits(pendingLoads, x) THEN 1 ELSE 0
    BY <2>2, <2>3 DEF OwnersOf
  <2>5. Waits(pendingLoads, h)
    BY <2>1 DEF Waits
  <2>6. /\ Minus(a, h) \in [Models -> Int]
        /\ \A x \in Models : Minus(a, h)[x] = IF x = h THEN a[x] - 1 ELSE a[x]
    BY <2>4 DEF Minus
  <2>7. \A x \in Models : Minus(a, h)[x] = held[x] + IF Waits(pendingLoads', x) THEN 1 ELSE 0
    <3>1. SUFFICES ASSUME NEW x \in Models
                   PROVE Minus(a, h)[x] = held[x] + IF Waits(pendingLoads', x) THEN 1 ELSE 0
      OBVIOUS
    <3>2. held[x] \in Nat
      BY <2>2
    <3>3. CASE x = h
      BY <2>1, <2>4, <2>5, <2>6, <3>2, <3>3
    <3>4. CASE x # h
      BY <2>1, <2>4, <2>6, <3>2, <3>4
    <3>. QED  BY <3>3, <3>4
  <2>. QED  BY <2>1, <2>3, <2>6, <2>7 DEF OwnersOf
<1>3. initialized' = TRUE /\ held'[Cube] >= 1
  BY StoreNow DEF StreamerInv
<1>. QED  BY <1>1, <1>2, <1>3, StoreAfter

LEMMA WaitingOwns ==
  ASSUME StreamerInv, initialized, NEW r \in pendingLoads, r.stage # "installed"
  PROVE  /\ r.handle \in Live(modelStore) /\ r.handle # Cube /\ r.handle \in Models
         /\ OwnersOf(pendingLoads, held)[r.handle] >= 1
         /\ OwnersOf(pendingLoads, held)[Cube] >= 1
<1>1. r.handle \in Models /\ r.handle # Cube /\ Cube \in Models
  BY IssuedHandles, CubeIsModel
<1>2. Waits(pendingLoads, r.handle)
  BY DEF Waits
<1>3. held[r.handle] \in Nat /\ held[Cube] \in Nat
  BY <1>1, StreamingAssumption DEF StreamerInv, RequestsAreIssued
<1>4. OwnersOf(pendingLoads, held)[r.handle] >= 1
  BY <1>1, <1>2, <1>3 DEF OwnersOf
<1>5. OwnersOf(pendingLoads, held)[Cube] >= 1
  <2>1. OwnersOf(pendingLoads, held)[Cube] \in Nat
    BY <1>1, StoreNow
  <2>. QED  BY <1>3, <2>1, StoreNow
<1>. QED  BY <1>1, <1>4, <1>5, StoreNow, OwnedIsLive

LEMMA FailKeeps ==
  ASSUME StreamerInv, NEW r \in pendingLoads, Fail(r)
  PROVE  StreamerInv'
<1>1. /\ initialized /\ r.stage # "installed" /\ issued' = issued /\ held' = held
      /\ initialized' = initialized /\ pendingLoads' = pendingLoads \ {r}
      /\ modelStore' = SettledFailed(modelStore, r.handle)
  BY DEF Fail
<1>2. StoreInv(modelStore', Minus(OwnersOf(pendingLoads, held), r.handle))
  BY <1>1, StoreNow, WaitingOwns, FailureCounted
<1>3. Live(modelStore') \subseteq Live(modelStore)
  <2>1. PICK s, t, h : s = modelStore /\ h = r.handle /\ t = [s EXCEPT !.failed = @ \cup {h}]
    OBVIOUS
  <2>2. StoreTypeOK(s) /\ h \in Models
    BY <2>1, IssuedHandles DEF StreamerInv
  <2>3. StoreTypeOK(t) /\ Live(t) = Live(s)
    BY <2>1, <2>2 DEF StoreTypeOK, Live
  <2>. QED  BY <1>1, <2>1, <2>3, DroppedLive DEF SettledFailed
<1>4. /\ OneRequestEach(pendingLoads') /\ pendingLoads' \in SUBSET LoadRequests
      /\ \A h : Waits(pendingLoads', h) <=> h # r.handle /\ Waits(pendingLoads, h)
  BY <1>1, RequestRemoved DEF StreamerInv, RequestsAreIssued
<1>5. \A x \in pendingLoads' : \E y \in pendingLoads : x.handle = y.handle
  BY <1>1
<1>. QED  BY <1>1, <1>2, <1>3, <1>4, <1>5, SettledKeeps

LEMMA InstallKeeps ==
  ASSUME StreamerInv, NEW r \in pendingLoads, Install(r)
  PROVE  StreamerInv'
<1>1. /\ initialized /\ r.stage = "loaded" /\ issued' = issued /\ held' = held
      /\ initialized' = initialized
      /\ pendingLoads' = (pendingLoads \ {r}) \cup {[r EXCEPT !.stage = "installed"]}
      /\ modelStore' = Dropped(Cached(Installed(modelStore, r.handle), r.handle), r.handle)
  BY DEF Install
<1>2. PICK s, h, u, v : /\ s = modelStore /\ h = r.handle /\ u = Installed(s, h)
                        /\ v = Cached(u, h)
  OBVIOUS
<1>3. modelStore' = Dropped(v, h)
  BY <1>1, <1>2
<1>4. /\ StoreInv(s, OwnersOf(pendingLoads, held)) /\ h \in Live(s) /\ h # Cube
      /\ OwnersOf(pendingLoads, held)[h] >= 1 /\ OwnersOf(pendingLoads, held)[Cube] >= 1
  BY <1>1, <1>2, StoreNow, WaitingOwns
<1>5. StoreInv(modelStore', Minus(OwnersOf(pendingLoads, held), r.handle))
  BY <1>1, <1>2, <1>4, InstallCounted
<1>6. Live(modelStore') \subseteq Live(modelStore)
  <2>1. /\ StoreInv(u, OwnersOf(pendingLoads, held)) /\ h \in Owners(u)
        /\ Live(u) \subseteq Live(s)
    BY <1>2, <1>4, InstalledCounted
  <2>2. StoreTypeOK(v) /\ v.slots = u.slots
    BY <1>2, <1>4, <2>1, CachedCounted DEF StoreInv
  <2>3. Live(Dropped(v, h)) \subseteq Live(v)
    BY <2>2, DroppedLive
  <2>. QED  BY <1>2, <1>3, <2>1, <2>2, <2>3 DEF Live
<1>7. PICK q : q = [r EXCEPT !.stage = "installed"]
  OBVIOUS
<1>8. q \in LoadRequests /\ q.handle = r.handle /\ q.stage = "installed"
  <2>1. r \in LoadRequests /\ "installed" \in LoadStages
    BY DEF StreamerInv, RequestsAreIssued, LoadStages
  <2>. QED  BY <1>7, <2>1, RequestsChange
<1>9. /\ OneRequestEach(pendingLoads')
      /\ \A x : Waits(pendingLoads', x) <=> x # r.handle /\ Waits(pendingLoads, x)
  BY <1>1, <1>7, <1>8, RequestReplaced DEF StreamerInv, RequestsAreIssued
<1>10. pendingLoads' \in SUBSET LoadRequests
  BY <1>1, <1>7, <1>8 DEF StreamerInv, RequestsAreIssued
<1>11. \A x \in pendingLoads' : \E y \in pendingLoads : x.handle = y.handle
  BY <1>1, <1>7, <1>8
<1>. QED  BY <1>1, <1>5, <1>6, <1>9, <1>10, <1>11, SettledKeeps

LEMMA TexturesThereKeeps ==
  ASSUME StreamerInv, NEW r \in pendingLoads, TexturesThere(r)
  PROVE  StreamerInv'
<1>1. /\ initialized /\ r.stage = "installed" /\ issued' = issued /\ held' = held
      /\ modelStore' = modelStore /\ initialized' = initialized
      /\ pendingLoads' = pendingLoads \ {r}
  BY DEF TexturesThere
<1>2. OneRequestEach(pendingLoads) /\ pendingLoads \in SUBSET LoadRequests
  BY DEF StreamerInv, RequestsAreIssued
<1>3. /\ OneRequestEach(pendingLoads')
      /\ \A h : Waits(pendingLoads', h) <=> Waits(pendingLoads, h)
  <2>1. ~Waits(pendingLoads, r.handle)
    BY <1>1, <1>2 DEF OneRequestEach, Waits
  <2>. QED  BY <1>1, <1>2, <2>1, RequestRemoved
<1>4. RequestsAreIssued'
  BY <1>1, <1>2, <1>3, RequestsStayIssued
<1>5. OwnersOf(pendingLoads', held') = OwnersOf(pendingLoads, held)
  BY <1>1, <1>3 DEF OwnersOf
<1>6. initialized' = TRUE
  BY <1>1 DEF StreamerInv
<1>. QED  BY <1>1, <1>4, <1>5, <1>6, StoreNow, StoreAfter

(* A caller drops a reference it has.                                        *)
LEMMA ReleaseKeeps ==
  ASSUME StreamerInv, NEW h \in Models, Release(h)
  PROVE  StreamerInv'
<1>1. /\ held[h] > 0 /\ (h = Cube => held[h] > 1)
      /\ held' = [held EXCEPT ![h] = @ - 1] /\ issued' = issued
      /\ pendingLoads' = pendingLoads /\ initialized' = initialized
      /\ modelStore' = IF initialized THEN Dropped(modelStore, h) ELSE modelStore
  <2>1. held[h] \in Int
    BY StreamingAssumption DEF StreamerInv, RequestsAreIssued
  <2>. QED  BY <2>1 DEF Release
<1>2. /\ held \in [Models -> 0 .. MaxHeld] /\ MaxHeld \in Nat /\ Cube \in Models
      /\ StoreTypeOK(modelStore) /\ RequestsAreIssued
  BY CubeIsModel, StreamingAssumption DEF StreamerInv, RequestsAreIssued
<1>3. /\ held' \in [Models -> 0 .. MaxHeld] /\ held'[h] = held[h] - 1
      /\ \A x \in Models : x # h => held'[x] = held[x]
      /\ \A x \in Models : held[x] \in Nat /\ held'[x] \in Nat
  BY <1>1, <1>2
<1>4. Live(modelStore)' \subseteq Live(modelStore)
  <2>1. PICK s : s = modelStore
    OBVIOUS
  <2>2. Live(Dropped(s, h)) \subseteq Live(s)
    BY <1>2, <2>1, DroppedLive
  <2>. QED  BY <1>1, <2>1, <2>2 DEF Live
<1>5. RequestsAreIssued'
  <2>1. \A x \in Models : x > issued => held'[x] = 0
    BY <1>1, <1>2, <1>3 DEF RequestsAreIssued
  <2>2. OneRequestEach(pendingLoads)'
    BY <1>1, <1>2 DEF RequestsAreIssued, OneRequestEach
  <2>. QED  BY <1>1, <1>2, <1>3, <1>4, <2>1, <2>2 DEF RequestsAreIssued
<1>6. CASE initialized
  <2> DEFINE owners == OwnersOf(pendingLoads, held)
  <2>1. StoreInv(modelStore, owners) /\ owners[h] >= held[h] /\ owners[h] \in Nat
        /\ owners[Cube] >= held[Cube] /\ held[Cube] >= 1 /\ owners[Cube] \in Nat
    BY <1>2, <1>6, StoreNow
  <2> HIDE DEF owners
  <2>2. owners[h] >= 1 /\ owners[Cube] >= 1 /\ (h = Cube => owners[h] >= 2)
    BY <1>1, <1>2, <1>3, <2>1
  <2>3. h \in Live(modelStore)
    BY <2>1, <2>2, OwnedIsLive
  <2>4. StoreInv(modelStore', Minus(owners, h))
    BY <1>1, <1>6, <2>1, <2>2, <2>3, DroppedCounted
  <2>5. Minus(owners, h) = OwnersOf(pendingLoads', held')
    <3>1. \A x \in Models : owners[x] = held[x] + IF Waits(pendingLoads, x) THEN 1 ELSE 0
      BY DEF owners, OwnersOf
    <3>2. owners \in [Models -> Nat]
      BY <2>1 DEF StoreInv, Counted
    <3>3. /\ Minus(owners, h) \in [Models -> Int]
          /\ \A x \in Models : Minus(owners, h)[x] = IF x = h THEN owners[x] - 1 ELSE owners[x]
      BY <3>2 DEF Minus
    <3>4. \A x \in Models :
            Minus(owners, h)[x] = held'[x] + IF Waits(pendingLoads, x) THEN 1 ELSE 0
      BY <1>3, <3>1, <3>3
    <3>. QED  BY <1>1, <3>3, <3>4 DEF OwnersOf
  <2>6. held'[Cube] >= 1
    BY <1>1, <1>2, <1>3, <2>1
  <2>7. initialized' = TRUE
    BY <1>1, <1>6 DEF StreamerInv
  <2>. QED  BY <1>5, <2>4, <2>5, <2>6, <2>7, StoreAfter
<1>7. CASE ~initialized
  <2>1. modelStore' = modelStore /\ initialized' = initialized
    BY <1>1, <1>7
  <2>2. StoreTypeOK(modelStore)'
    BY <1>2, <2>1 DEF StoreTypeOK, Live
  <2>. QED  BY <1>1, <1>5, <1>7, <2>1, <2>2 DEF StreamerInv
<1>. QED  BY <1>6, <1>7

(* Renderer::destroy(): no slot, no mesh, no request.                        *)
LEMMA DestroyKeeps ==
  ASSUME StreamerInv, Destroy
  PROVE  StreamerInv'
<1>1. /\ initialized' = FALSE /\ pendingLoads' = {} /\ issued' = issued /\ held' = held
      /\ modelStore' = [modelStore EXCEPT !.slots = << >>, !.meshes = {}]
  BY DEF Destroy
<1>2. PICK s : s = modelStore
  OBVIOUS
<1>3. PICK t : t = [s EXCEPT !.slots = << >>]
  OBVIOUS
<1>4. /\ StoreTypeOK(t) /\ t.slots = << >>
  <2>1. StoreTypeOK(s)
    BY <1>2 DEF StreamerInv
  <2>2. PICK f : f = << >>
    OBVIOUS
  <2>3. DOMAIN f = {} /\ f \in [DOMAIN f -> SlotData]
    BY <2>2
  <2>4. t = [s EXCEPT !.slots = f]
    BY <1>3, <2>2
  <2>5. DOMAIN f \subseteq Models
    BY <2>3
  <2>6. StoreTypeOK(t) /\ t.slots = f
    BY <2>1, <2>3, <2>4, <2>5, SlotsReplaced
  <2>. QED  BY <2>2, <2>6
<1>5. PICK u : u = [t EXCEPT !.meshes = {}]
  OBVIOUS
<1>6. StoreTypeOK(u) /\ u.slots = << >> /\ u.meshes = {}
  BY <1>4, <1>5 DEF StoreTypeOK, Live
<1>7. modelStore' = u
  BY <1>1, <1>2, <1>3, <1>5, Zenon
<1>8. StoreTypeOK(modelStore)' /\ Live(modelStore)' = {}
  <2>1. Live(u) = {}
    BY <1>6 DEF Live
  <2>2. Live(modelStore)' = Live(u)
    BY <1>7 DEF Live
  <2>3. StoreTypeOK(modelStore)' <=> StoreTypeOK(u)
    BY <1>7 DEF StoreTypeOK, Live
  <2>. QED  BY <1>6, <2>1, <2>2, <2>3
<1>9. RequestsAreIssued'
  BY <1>1, <1>8 DEF StreamerInv, RequestsAreIssued, OneRequestEach
<1>. QED  BY <1>1, <1>6, <1>7, <1>8, <1>9 DEF StreamerInv

-----------------------------------------------------------------------------

LEMMA InvStarts == StreamerInit => StreamerInv
<1> SUFFICES ASSUME StreamerInit PROVE StreamerInv
  OBVIOUS
<1>1. PICK s, f : s = modelStore /\ f = s.slots
  OBVIOUS
<1>2. /\ f = [h \in {Cube} |-> [refs |-> 1, draws |-> {<<Cube, "drawn">>},
                              borrowedFrom |-> NoModel, source |-> "engine"]]
      /\ s.meshes = {<<Cube, "drawn">>} /\ s.pathCache = NoFiles /\ s.modelCache = NoFiles
      /\ s.failed = {} /\ pendingLoads = {} /\ issued = 0 /\ initialized = TRUE
      /\ held = [h \in Models |-> IF h = Cube THEN 1 ELSE 0]
      /\ s = [slots |-> f, meshes |-> s.meshes, pathCache |-> s.pathCache,
              modelCache |-> s.modelCache, failed |-> s.failed]
  BY <1>1 DEF StreamerInit
<1>3. Cube \in Models /\ NoModel \notin Models /\ 0 \in Models /\ Cube = 0 /\ Models \subseteq Nat
      /\ MaxHeld \in Nat \ {0}
  BY CubeIsModel, StreamingAssumption DEF Cube
<1>4. /\ Live(s) = {Cube} /\ f[Cube].refs = 1 /\ f[Cube].draws = {<<Cube, "drawn">>}
      /\ f[Cube].borrowedFrom = NoModel /\ f[Cube] \in SlotData
  BY <1>1, <1>2, <1>3 DEF Live, SlotData, Meshes
<1>5. NoFiles \in Caches
  BY DEF NoFiles, Caches
<1>6. StoreTypeOK(s)
  <2>1. f \in [Live(s) -> SlotData]
    BY <1>2, <1>4
  <2>2. s.meshes \in SUBSET Meshes
    BY <1>2, <1>3 DEF Meshes
  <2>. QED  BY <1>1, <1>2, <1>3, <1>4, <1>5, <2>1, <2>2 DEF StoreTypeOK
<1>7. RequestsAreIssued
  BY <1>1, <1>2, <1>3, <1>4 DEF RequestsAreIssued, OneRequestEach
<1>8. Counted(s, held)
  <2>1. \A h : BorrowersIn(s, h) = IF h = NoModel THEN {Cube} ELSE {}
    BY <1>1, <1>4 DEF BorrowersIn
  <2>2. held \in [Models -> Nat]
    BY <1>2
  <2>3. \A h \in Models : Refs(s, h) = IF h = Cube THEN 1 ELSE 0
    BY <1>1, <1>4 DEF Refs
  <2>4. \A h \in Models : Cardinality(BorrowersIn(s, h)) = 0
    BY <1>3, <2>1, FS_EmptySet
  <2>. QED  BY <1>2, <2>2, <2>3, <2>4 DEF Counted
<1>9. held = OwnersNow
  <2>1. OwnersNow = OwnersOf(pendingLoads, held)
    BY <1>7, OwnersAreOutside
  <2>2. \A h : ~Waits(pendingLoads, h)
    BY <1>2 DEF Waits
  <2>. QED  BY <1>2, <2>1, <2>2 DEF OwnersOf
<1>10. OnlyTheCubeLends(s) /\ DrawsSound(s) /\ CachesSound(s)
  BY <1>1, <1>2, <1>3, <1>4 DEF OnlyTheCubeLends, DrawsSound, CachesSound, Owners, NoFiles
<1>. QED  BY <1>1, <1>2, <1>3, <1>6, <1>7, <1>8, <1>9, <1>10 DEF StreamerInv, StoreInv

LEMMA InvKept == StreamerInv /\ [StreamerNext]_streamerVars => StreamerInv'
<1> SUFFICES ASSUME StreamerInv, [StreamerNext]_streamerVars PROVE StreamerInv'
  OBVIOUS
<1>1. ASSUME NEW p \in Paths, RequestCached(p) PROVE StreamerInv'
  <2>1. modelStore.pathCache[p] \in Live(modelStore)
    BY <1>1, StoreNow DEF RequestCached, StoreInv, CachesSound, Owners
  <2>. QED  BY <1>1, <2>1, CallerRetains DEF RequestCached
<1>2. ASSUME NEW p \in Paths, RequestFull(p) PROVE StreamerInv'
  BY <1>2, StoreNow, CallerRetains DEF RequestFull
<1>3. ASSUME NEW p \in Paths, Request(p) PROVE StreamerInv'
  BY <1>3, RequestKeeps
<1>4. ASSUME NEW p \in Paths, LoadCached(p) PROVE StreamerInv'
  <2>1. modelStore.modelCache[p] \in Live(modelStore)
    BY <1>4, StoreNow DEF LoadCached, StoreInv, CachesSound, Owners
  <2>. QED  BY <1>4, <2>1, CallerRetains DEF LoadCached
<1>5. ASSUME NEW p \in Paths, LoadNow(p) PROVE StreamerInv'
  BY <1>5, LoadNowKeeps
<1>6. ASSUME NEW r \in pendingLoads, LoadEnds(r) \/ Visit(r) PROVE StreamerInv'
  BY <1>6, LoadEndsKeeps
<1>7. ASSUME NEW r \in pendingLoads, Fail(r) PROVE StreamerInv'
  BY <1>7, FailKeeps
<1>8. ASSUME NEW r \in pendingLoads, Install(r) PROVE StreamerInv'
  BY <1>8, InstallKeeps
<1>9. ASSUME NEW r \in pendingLoads, TexturesThere(r) PROVE StreamerInv'
  BY <1>9, TexturesThereKeeps
<1>10. ASSUME NEW h \in Models, Retain(h) PROVE StreamerInv'
  <2>1. initialized
    BY <1>10 DEF Retain, StreamerInv, Live
  <2>. QED  BY <1>10, <2>1, CallerRetains DEF Retain
<1>11. ASSUME NEW h \in Models, Release(h) PROVE StreamerInv'
  BY <1>11, ReleaseKeeps
<1>12. CASE Destroy
  BY <1>12, DestroyKeeps
<1>13. CASE UNCHANGED streamerVars
  BY <1>13 DEF streamerVars, StreamerInv, RequestsAreIssued, OneRequestEach, StoreTypeOK,
               StoreInv, Counted, OnlyTheCubeLends, DrawsSound, CachesSound, OwnersNow,
               Unsettled, RequestsOf, Refs, BorrowersIn, Owners, Live
<1>. QED
  BY <1>1, <1>2, <1>3, <1>4, <1>5, <1>6, <1>7, <1>8, <1>9, <1>10, <1>11, <1>12, <1>13
     DEF StreamerNext

THEOREM StreamerInvariant == StreamerSpec => []StreamerInv
BY InvStarts, InvKept, PTL DEF StreamerSpec

LEMMA InvCounts == StreamerInv => RefsAreOwners
<1> SUFFICES ASSUME StreamerInv PROVE RefsAreOwners
  OBVIOUS
<1>1. StreamerTypeOK
  <2>1. \A h \in DOMAIN modelStore.slots : h \in Models /\ modelStore.slots[h] \in SlotData
    BY DEF StreamerInv, StoreTypeOK, Live
  <2>2. /\ modelStore.meshes \in SUBSET Meshes /\ modelStore.failed \in SUBSET Models
        /\ modelStore.pathCache \in Caches /\ modelStore.modelCache \in Caches
    BY DEF StreamerInv, StoreTypeOK
  <2>. QED  BY <2>1, <2>2 DEF StreamerTypeOK, StreamerInv, RequestsAreIssued
<1>2. ASSUME initialized PROVE CachesAreInstalled
  BY <1>2, StoreNow DEF StoreInv, CachesSound, CachesAreInstalled, Owners
<1>3. ASSUME initialized, NEW h \in Models
      PROVE  (IF h \in Live(modelStore) THEN modelStore.slots[h].refs ELSE 0)
               = held[h] + Cardinality(Unsettled(h)) + Cardinality(Borrowers(h))
  <2>1. Refs(modelStore, h) = OwnersNow[h] + Cardinality(BorrowersIn(modelStore, h))
    BY <1>3 DEF StreamerInv, StoreInv, Counted
  <2>. QED  BY <2>1 DEF Refs, OwnersNow, BorrowersIn, Borrowers
<1>. QED  BY <1>1, <1>2, <1>3 DEF RefsAreOwners

LEMMA InvDraws == StreamerInv => DrawnMeshesGoWithModels
<1> SUFFICES ASSUME StreamerInv PROVE DrawnMeshesGoWithModels
  OBVIOUS
<1>1. CASE ~initialized
  BY <1>1 DEF StreamerInv, DrawnMeshesGoWithModels, Drawn, Live
<1>2. CASE initialized
  <2>1. /\ StoreTypeOK(modelStore) /\ OnlyTheCubeLends(modelStore) /\ DrawsSound(modelStore)
        /\ Cube \in Live(modelStore) /\ Live(modelStore) \subseteq Models
    BY <1>2, StoreNow DEF StoreInv, StoreTypeOK
  <2>2. Cube \in Owners(modelStore)
    BY <2>1 DEF OnlyTheCubeLends, Owners
  <2>3. ASSUME NEW h \in Live(modelStore), NEW m \in modelStore.slots[h].draws
        PROVE  m \in modelStore.meshes
    <3>1. CASE modelStore.slots[h].borrowedFrom = NoModel
      BY <2>1, <2>3, <3>1 DEF DrawsSound, Owners
    <3>2. CASE modelStore.slots[h].borrowedFrom # NoModel
      BY <2>1, <2>2, <2>3, <3>2 DEF DrawsSound
    <3>. QED  BY <3>1, <3>2
  <2>4. ASSUME NEW m \in modelStore.meshes \cap (Models \X {"drawn"})
        PROVE  m \in Drawn
    <3>1. PICK h \in Models : m = << h, "drawn" >>
      OBVIOUS
    <3>2. h \in Owners(modelStore)
      BY <2>1, <3>1 DEF DrawsSound
    <3>3. h \in Live(modelStore) /\ m \in modelStore.slots[h].draws
      BY <2>1, <3>1, <3>2 DEF DrawsSound, Owners
    <3>. QED  BY <3>3 DEF Drawn
  <2>. QED  BY <2>3, <2>4 DEF DrawnMeshesGoWithModels, Drawn
<1>. QED  BY <1>1, <1>2

(* A reference count is exactly the references there are, wherever the load    *)
(* is and whoever comes and goes: what destroy_model() frees nobody has, and   *)
(* what somebody has it never frees.                                         *)
THEOREM ReferencesAreOwners == StreamerSpec => []RefsAreOwners
BY StreamerInvariant, InvCounts, PTL

(* What a live model draws is live, a pending model's fallback included, and   *)
(* a mesh that was drawn goes with its model.                                *)
THEOREM MeshesGoWithModels == StreamerSpec => []DrawnMeshesGoWithModels
BY StreamerInvariant, InvDraws, PTL

=============================================================================
