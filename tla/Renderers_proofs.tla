-------------------------- MODULE Renderers_proofs --------------------------
(***************************************************************************)
(* What the runs of Renderers check, for any resources, submissions,       *)
(* images, displays, extents and bounds.                                   *)
(*                                                                         *)
(* A behaviour follows one backend, so the invariant, RenderersInv, is     *)
(* what each backend keeps while it is the one followed, and that it is    *)
(* as it began while another is.  The submissions of the two backends are  *)
(* proved about here; the surfaces of the Direct3D 12 one in               *)
(* D3D12Surface_proofs.                                                    *)
(***************************************************************************)
EXTENDS Renderers, TLAPS

SP == INSTANCE D3D12Surface_proofs

-----------------------------------------------------------------------------
(***************************************************************************)
(* Direct3D 12 submissions.  RetainedUntilDone is not inductive: collecting *)
(* is safe because the signalled value never passes what the GPU has       *)
(* finished, and destroying or replacing a resource because the pending    *)
(* record of each unfinished list itself retains it.                       *)
(***************************************************************************)

GpuInOrder ==
  /\ last \in Nat /\ executed \in Nat /\ completed \in Nat
  /\ completed <= executed

Submitted == \A c \in commands : c.value \in 0 .. last

\* The record that is pending is the one of the list itself.
Recorded == removed \/ \A c \in commands : c.value > executed => c \in pending

D3D12Inv == GpuInOrder /\ Submitted /\ Recorded

\* Collecting at the completed value keeps every unfinished submission.
LEMMA CollectKeeps ==
  ASSUME GpuInOrder, ~removed, NEW S, NEW c \in S, c.value \in Nat, c.value > executed
  PROVE  c \in Collect(S, CompletedValue)
  BY DEF GpuInOrder, Collect, CompletedValue

\* The invariant holds of a renderer that was never initialized.
LEMMA D3D12InitHolds == Init => D3D12Inv
  BY DEF Init, D3D12Inv, GpuInOrder, Submitted, Recorded

\* A new submission is in the records, and what was unfinished stays there.
LEMMA SubmitKeeps == D3D12Inv /\ Submit => D3D12Inv'
<1> SUFFICES ASSUME D3D12Inv, Submit PROVE D3D12Inv'
  OBVIOUS
<1>1. GpuInOrder' /\ Submitted'
  BY DEF D3D12Inv, GpuInOrder, Submitted, Submit, Record, gpu
<1>2. ASSUME NEW c \in commands', c.value > executed', ~removed'
      PROVE  c \in pending'
  <2>1. c.value \in Nat /\ c.value > executed
    BY <1>1, <1>2 DEF GpuInOrder, Submitted, Submit, gpu
  <2>2. PICK r \in records :
          /\ commands' = commands \union {Record(last', r)}
          /\ pending' = Collect(pending \union {Record(last', r)}, CompletedValue)
    BY DEF Submit
  <2>3. c \in pending \union {Record(last', r)}
    BY <1>2, <2>2 DEF D3D12Inv, Recorded, Submit, gpu
  <2> QED BY <1>2, <2>1, <2>2, <2>3, CollectKeeps DEF D3D12Inv, Submit
<1> QED BY <1>1, <1>2 DEF D3D12Inv, Recorded

\* A wait that succeeds collects nothing the GPU is still using.
LEMMA SucceedKeeps == D3D12Inv /\ Succeed => D3D12Inv'
<1> SUFFICES ASSUME D3D12Inv, Succeed PROVE D3D12Inv'
  OBVIOUS
<1>1. GpuInOrder' /\ Submitted'
  BY DEF D3D12Inv, GpuInOrder, Submitted, Succeed, gpu
<1>2. ASSUME NEW c \in commands', c.value > executed', ~removed'
      PROVE  c \in pending'
  <2>1. c.value \in Nat /\ c.value > executed /\ c \in pending
    BY <1>2 DEF D3D12Inv, GpuInOrder, Submitted, Recorded, Succeed, gpu
  <2> QED BY <1>2, <2>1, CollectKeeps DEF D3D12Inv, Succeed, gpu
<1> QED BY <1>1, <1>2 DEF D3D12Inv, Recorded

\* Presenting adds a record of its own and collects.
LEMMA PresentKeeps == D3D12Inv /\ Present => D3D12Inv'
<1> SUFFICES ASSUME D3D12Inv, Present PROVE D3D12Inv'
  OBVIOUS
<1>1. GpuInOrder' /\ Submitted'
  BY DEF D3D12Inv, GpuInOrder, Submitted, Present, gpu
<1>2. ASSUME NEW c \in commands', c.value > executed', ~removed'
      PROVE  c \in pending'
  <2>1. c.value \in Nat /\ c.value > executed /\ c \in pending
    BY <1>2 DEF D3D12Inv, GpuInOrder, Submitted, Recorded, Present, gpu
  <2> QED BY <2>1, CollectKeeps DEF D3D12Inv, Present
<1> QED BY <1>1, <1>2 DEF D3D12Inv, Recorded

\* No step of the GPU or of a call breaks the invariant.
LEMMA D3D12StepKeeps == D3D12Inv /\ [Next]_vars => D3D12Inv'
<1> SUFFICES ASSUME D3D12Inv, [Next]_vars PROVE D3D12Inv'
  OBVIOUS
<1> USE DEF D3D12Inv, GpuInOrder, Submitted, Recorded, gpu, backend
<1>1. CASE GpuExecute
  BY <1>1 DEF GpuExecute
<1>2. CASE GpuSignal
  BY <1>2 DEF GpuSignal
<1>3. CASE DeviceRemoved
  BY <1>3 DEF DeviceRemoved, Remove
<1>4. CASE Initialize
  BY <1>4 DEF Initialize
<1>5. CASE Create \/ Destroy \/ Replace
  BY <1>5 DEF Create, Destroy, Replace
<1>6. CASE Present
  BY <1>6, PresentKeeps
<1>7. CASE Render
  BY <1>7, SubmitKeeps DEF Render
<1>8. CASE SignalFails
  BY <1>8 DEF SignalFails, Remove
<1>9. CASE WaitFence
  BY <1>9 DEF WaitFence
<1>10. CASE ReadTexture
  BY <1>10, SubmitKeeps DEF ReadTexture
<1>11. CASE WaitForGpuIdle
  BY <1>11 DEF WaitForGpuIdle
<1>12. CASE ShutdownBegin
  BY <1>12 DEF ShutdownBegin
<1>13. CASE WaitCheck
  <2>1. CASE Succeed
    BY <2>1, SucceedKeeps
  <2>2. CASE UNCHANGED <<backend, commands, gpu, result>>
    BY <2>2
  <2> QED BY <1>13, <2>1, <2>2 DEF WaitCheck
<1>14. CASE WaitRegister
  BY <1>14 DEF WaitRegister
<1>15. CASE WaitWoken
  BY <1>15, SucceedKeeps DEF WaitWoken
<1>16. CASE WaitTimeout
  BY <1>16 DEF WaitTimeout
<1>17. CASE ShutdownRelease
  BY <1>17 DEF ShutdownRelease
<1>18. CASE UNCHANGED vars
  BY <1>18 DEF vars
<1> QED
  BY <1>1, <1>2, <1>3, <1>4, <1>5, <1>6, <1>7, <1>8, <1>9, <1>10, <1>11, <1>12, <1>13, <1>14,
     <1>15, <1>16, <1>17, <1>18 DEF Next

-----------------------------------------------------------------------------
(***************************************************************************)
(* Vulkan submissions and surfaces.  A call may change what it owns because *)
(* the poll that let it go on proves that the GPU has nothing left, and that *)
(* rests on where the one unfinished submission can be: with the call that *)
(* waits, when the slot is empty, or in the slot, when no call waits       *)
(* (OneWork).  The state of the acquire semaphore follows from it and from *)
(* what the backend has noted of the last acquisition (Signalled).         *)
(***************************************************************************)

Types == {"none", "window", "display"}
Surfaces == [type : Types, swap_chain : BOOLEAN, current_image : Images \cup {None},
             acquire_pending : BOOLEAN, presentable : SUBSET (Images \cup {None})]
Engines == [lent : SUBSET Images, semaphore : {"none", "armed", "waited", "free"}, missed : BOOLEAN]
Submissions == [work : Works, uses : SUBSET (Resources \cup Images), waits : BOOLEAN]

VulkanTyped ==
  /\ running \subseteq Submissions
  /\ surface \in Surfaces /\ engine \in Engines
  /\ surface.swap_chain => surface.current_image \in Images
  /\ records \cup operation.owns \subseteq Resources

\* The GPU has one submission at most: the one a call waits for, or the one kept.
OneWork ==
  /\ \A r \in running : r.work \in {operation.work, slot.work}
  /\ \A r, q \in running : r = q
  /\ operation.pc = "wait" => slot = Vulkan!Empty /\ \A r \in running : r.waits = operation.waits
  /\ operation.pc # "wait" => operation.work = None /\ operation.owns = {}
  /\ operation.pc \in {"create", "queue"} => running = {}
  /\ operation.pc = "device" /\ operation.name # "shutdown" => running = {}
  /\ operation.pc \in {"create", "wait", "queue"} => ~terminal

Uses == records \cup operation.owns \cup slot.owns \cup (IF surface.swap_chain THEN Images ELSE {})
Owned == \A r \in running : r.uses \subseteq Uses

\* What the semaphore is, as far as the backend still uses it.
Waits == \E r \in running : r.waits
Pending == surface.acquire_pending /\ ~(operation.pc = "wait" /\ operation.waits)
Signalled ==
  /\ Waits => engine.semaphore = "waited"
  /\ surface.swap_chain /\ ~terminal =>
       engine.semaphore = IF Pending THEN "armed" ELSE IF Waits THEN "waited" ELSE "free"
  /\ operation.pc = "wait" /\ operation.waits => surface.swap_chain
  /\ operation.pc = "wait" /\ operation.name = "present" => operation.waits
  /\ operation.pc = "queue" => surface.swap_chain /\ ~surface.acquire_pending

Lent ==
  /\ surface.swap_chain /\ ~engine.missed => surface.current_image \in engine.lent
  /\ engine.missed \/ \A r \in running : r.uses \cap Images \subseteq engine.lent

\* A surface stands on its objects, or is being made.
Stands ==
  /\ operation.pc = "create" =>
       operation.name \in Types /\ surface = Vulkan!NoSurface /\ held \subseteq Vulkan!Held(operation.name)
  /\ operation.pc # "create" => held = Vulkan!Held(surface.type)

VulkanInv == VulkanTyped /\ OneWork /\ Owned /\ Signalled /\ Lent /\ Stands

\* A call that passed the poll finds the GPU with nothing to do.
LEMMA PolledQuiet == ASSUME VulkanInv, Vulkan!Polled PROVE running = {} /\ operation.pc = "idle"
<1>1. operation.pc = "idle" /\ operation.work = None
  BY DEF Vulkan!Polled, Vulkan!Idle, Vulkan!NoOperation
<1>2. ASSUME NEW r \in running PROVE FALSE
  <2>1. r.work \in Works /\ r.work # None
    BY VulkanAssumption DEF VulkanInv, VulkanTyped, Submissions
  <2>2. r.work = slot.work
    BY <1>1, <2>1 DEF VulkanInv, OneWork
  <2> QED BY <2>2 DEF Vulkan!Polled, Vulkan!InFlight
<1> QED BY <1>1, <1>2

\* So does a call whose wait has ended.
LEMMA WaitedQuiet ==
  ASSUME VulkanInv, operation.pc = "wait", operation.work \notin Vulkan!InFlight
  PROVE  running = {}
<1> SUFFICES ASSUME NEW r \in running PROVE FALSE
  OBVIOUS
<1>1. r.work \in Works /\ r.work # None
  BY VulkanAssumption DEF VulkanInv, VulkanTyped, Submissions
<1>2. r.work = operation.work
  BY <1>1 DEF VulkanInv, OneWork, Vulkan!Empty
<1> QED BY <1>2 DEF Vulkan!InFlight

\* What a step shows that leaves surface and engine alone, and the GPU idle.
LEMMA QuietKeeps ==
  ASSUME VulkanInv, running = {}, operation.pc # "wait",
         UNCHANGED <<running, surface, engine, held>>, terminal => terminal',
         records' \subseteq Resources,
         operation'.pc \notin {"create", "wait", "queue"}, operation.pc # "create",
         operation'.work = None, operation'.owns = {}
  PROVE  VulkanInv'
<1>1. VulkanTyped'
  BY DEF VulkanInv, VulkanTyped
<1>2. OneWork' /\ Owned'
  BY DEF VulkanInv, OneWork, Owned
<1>3. Signalled'
  BY DEF VulkanInv, Signalled, Waits, Pending
<1>4. Lent' /\ Stands'
  BY DEF VulkanInv, Lent, Stands
<1> QED BY <1>1, <1>2, <1>3, <1>4 DEF VulkanInv

\* The invariant holds of a backend that was never initialized.
LEMMA VulkanInitHolds == Vulkan!Init => VulkanInv
<1> SUFFICES ASSUME Vulkan!Init PROVE VulkanInv
  OBVIOUS
<1> USE DEF Vulkan!Init, Vulkan!NoSurface, Vulkan!NoOperation, Vulkan!NoEngine, Vulkan!Empty
<1>1. VulkanTyped
  BY DEF VulkanTyped, Surfaces, Engines, Types
<1>2. OneWork /\ Owned
  BY DEF OneWork, Owned
<1>3. Signalled /\ Lent
  BY DEF Signalled, Waits, Pending, Lent
<1>4. Stands
  BY DEF Stands, Vulkan!Held, Vulkan!Objects
<1> QED BY <1>1, <1>2, <1>3, <1>4 DEF VulkanInv

\* What a call may submit: the work is on what the maps, itself or the swapchain
\* hold, and it waits for the semaphore when the acquisition is pending.
Supported(name, uses, owns, waits) ==
  /\ owns \subseteq Resources /\ waits \in BOOLEAN
  /\ uses \subseteq records \cup owns \cup (IF surface.swap_chain THEN Images ELSE {})
  /\ waits => surface.swap_chain /\ surface.acquire_pending
  /\ name = "present" => waits
  /\ engine.missed \/ uses \cap Images \subseteq engine.lent

\* A submission of the idle backend.
LEMMA VulkanSubmitKeeps ==
  ASSUME VulkanInv, Vulkan!Polled,
         NEW w \in Works, NEW name, NEW uses, NEW owns, NEW old, NEW waits,
         Supported(name, uses, owns, waits),
         UNCHANGED <<records, surface, held>>,
         Vulkan!Enqueued(name, w, uses, owns, old, waits) \/ Vulkan!Doubtful(w, uses, owns, waits)
  PROVE  VulkanInv'
<1> USE DEF Supported
<1>1. running = {} /\ operation.pc = "idle" /\ operation.work = None /\ operation.owns = {} /\ ~terminal
  BY PolledQuiet DEF Vulkan!Polled, Vulkan!Idle, Vulkan!NoOperation
<1>2. waits => engine.semaphore = "armed"
  BY <1>1 DEF VulkanInv, Signalled, Pending
<1>3. engine \in Engines /\ surface \in Surfaces /\ records \subseteq Resources /\ w # None
  BY VulkanAssumption DEF VulkanInv, VulkanTyped
<1>4. uses \subseteq Resources \cup Images
  BY <1>3
<1> DEFINE one == [work |-> w, uses |-> uses, waits |-> waits]
           used == IF waits THEN [engine EXCEPT !.semaphore = "waited"] ELSE engine
<1>5. one \in Submissions /\ used \in Engines
  BY <1>3, <1>4 DEF Submissions, Engines
<1>6. Vulkan!Run(w, uses, waits) => running' = {one} /\ engine' = used
  BY <1>1, <1>2 DEF Vulkan!Run, Vulkan!Semaphore
<1>7. used.lent = engine.lent /\ used.missed = engine.missed
      /\ used.semaphore = IF waits THEN "waited" ELSE engine.semaphore
  BY <1>3 DEF Engines
<1> HIDE DEF used
<1>8. CASE Vulkan!Enqueued(name, w, uses, owns, old, waits)
  <2>1. running' = {one} /\ engine' = used /\ slot' = Vulkan!Empty /\ terminal' = terminal
        /\ operation' = [name |-> name, pc |-> "wait", work |-> w, owns |-> owns, old |-> old, waits |-> waits]
    BY <1>6, <1>8 DEF Vulkan!Enqueued
  <2>2. VulkanTyped'
    BY <1>3, <1>5, <2>1 DEF VulkanInv, VulkanTyped
  <2>3. OneWork' /\ Owned'
    BY <1>1, <2>1 DEF OneWork, Owned, Uses
  <2>4. Signalled'
    BY <1>1, <1>2, <1>7, <2>1 DEF VulkanInv, Signalled, Waits, Pending
  <2>5. Lent' /\ Stands'
    BY <1>1, <1>7, <2>1 DEF VulkanInv, Lent, Stands
  <2> QED BY <2>2, <2>3, <2>4, <2>5 DEF VulkanInv
<1>9. CASE Vulkan!Doubtful(w, uses, owns, waits)
  <2>1. slot' = Vulkan!Work(w, owns) /\ terminal' = TRUE /\ operation' = operation
        /\ \/ running' = {one} /\ engine' = used
           \/ running' = {} /\ engine' = engine
    BY <1>1, <1>6, <1>9 DEF Vulkan!Doubtful
  <2>2. VulkanTyped'
    BY <1>1, <1>3, <1>5, <2>1 DEF VulkanInv, VulkanTyped
  <2>3. OneWork' /\ Owned'
    BY <1>1, <2>1 DEF OneWork, Owned, Uses, Vulkan!Work
  <2>4. Signalled'
    BY <1>1, <1>2, <1>7, <2>1 DEF VulkanInv, Signalled, Waits, Pending
  <2>5. Lent' /\ Stands'
    BY <1>1, <1>7, <2>1 DEF VulkanInv, Lent, Stands
  <2> QED BY <2>2, <2>3, <2>4, <2>5 DEF VulkanInv
<1> QED BY <1>8, <1>9

\* The four calls that submit.
LEMMA VulkanCallKeeps ==
  ASSUME VulkanInv, Vulkan!CreateInState \/ Vulkan!Transfer \/ Vulkan!Render \/ Vulkan!Present
  PROVE  VulkanInv'
<1>1. records \subseteq Resources /\ surface \in Surfaces /\ Images \cap Resources = {}
  BY VulkanAssumption DEF VulkanInv, VulkanTyped
<1>2. surface.swap_chain => surface.current_image \in Images
  BY DEF VulkanInv, VulkanTyped
<1>3. surface.swap_chain /\ ~engine.missed => surface.current_image \in engine.lent
  BY DEF VulkanInv, Lent
<1>4. CASE Vulkan!CreateInState
  <2> PICK r \in Vulkan!Free, old \in {{}} \cup {{t} : t \in records} : Vulkan!Submit("create", {r}, {r}, old, FALSE)
    BY <1>4 DEF Vulkan!CreateInState
  <2>1. {r} \in SUBSET Resources /\ {r} \cap Images = {}
    BY <1>1 DEF Vulkan!Free
  <2>2. PICK w \in Works \ Vulkan!InFlight :
          Vulkan!Enqueued("create", w, {r}, {r}, old, FALSE) \/ Vulkan!Doubtful(w, {r}, {r}, FALSE)
    BY DEF Vulkan!Submit
  <2>3. Vulkan!Polled /\ UNCHANGED <<records, surface, held>>
    BY DEF Vulkan!Submit
  <2>4. Supported("create", {r}, {r}, FALSE)
    BY <2>1 DEF Supported
  <2> QED BY <2>2, <2>3, <2>4, VulkanSubmitKeeps
<1>5. CASE Vulkan!Transfer
  <2> PICK uses \in SUBSET records \ {{}} : Vulkan!Submit("transfer", uses, {}, {}, FALSE)
    BY <1>5 DEF Vulkan!Transfer
  <2>1. uses \cap Images = {}
    BY <1>1
  <2>2. PICK w \in Works \ Vulkan!InFlight :
          Vulkan!Enqueued("transfer", w, uses, {}, {}, FALSE) \/ Vulkan!Doubtful(w, uses, {}, FALSE)
    BY DEF Vulkan!Submit
  <2>3. Vulkan!Polled /\ UNCHANGED <<records, surface, held>>
    BY DEF Vulkan!Submit
  <2>4. Supported("transfer", uses, {}, FALSE)
    BY <2>1 DEF Supported
  <2> QED BY <2>2, <2>3, <2>4, VulkanSubmitKeeps
<1>6. CASE Vulkan!Render
  <2> PICK sources \in SUBSET records :
        Vulkan!Submit("render", {surface.current_image} \cup sources, {}, {}, surface.acquire_pending)
    BY <1>6 DEF Vulkan!Render
  <2> DEFINE uses == {surface.current_image} \cup sources
  <2>1. surface.swap_chain /\ surface.acquire_pending \in BOOLEAN
    BY <1>1, <1>6 DEF Vulkan!Render, Surfaces
  <2>2. uses \cap Images = {surface.current_image}
    BY <1>1, <1>2, <2>1
  <2>3. uses \subseteq records \cup {} \cup (IF surface.swap_chain THEN Images ELSE {})
    BY <1>2, <2>1
  <2> HIDE DEF uses
  <2>4. PICK w \in Works \ Vulkan!InFlight :
          \/ Vulkan!Enqueued("render", w, uses, {}, {}, surface.acquire_pending)
          \/ Vulkan!Doubtful(w, uses, {}, surface.acquire_pending)
    BY DEF Vulkan!Submit, uses
  <2>5. Vulkan!Polled /\ UNCHANGED <<records, surface, held>>
    BY DEF Vulkan!Submit
  <2>6. engine.missed \/ uses \cap Images \subseteq engine.lent
    BY <1>3, <2>1, <2>2
  <2>7. Supported("render", uses, {}, surface.acquire_pending)
    BY <2>1, <2>3, <2>6 DEF Supported
  <2> QED BY <2>4, <2>5, <2>7, VulkanSubmitKeeps
<1>7. CASE Vulkan!Present /\ surface.acquire_pending
  <2> DEFINE uses == {surface.current_image}
  <2>1. surface.swap_chain
    BY <1>7 DEF Vulkan!Present
  <2>2. Vulkan!Submit("present", uses, {}, {}, TRUE)
    BY <1>7 DEF Vulkan!Present
  <2>3. uses \subseteq records \cup {} \cup (IF surface.swap_chain THEN Images ELSE {})
    BY <1>2, <2>1
  <2>4. engine.missed \/ uses \cap Images \subseteq engine.lent
    BY <1>3, <2>1
  <2> HIDE DEF uses
  <2>5. PICK w \in Works \ Vulkan!InFlight :
          Vulkan!Enqueued("present", w, uses, {}, {}, TRUE) \/ Vulkan!Doubtful(w, uses, {}, TRUE)
    BY <2>2 DEF Vulkan!Submit
  <2>6. Vulkan!Polled /\ UNCHANGED <<records, surface, held>>
    BY <2>2 DEF Vulkan!Submit
  <2>7. Supported("present", uses, {}, TRUE)
    BY <1>7, <2>1, <2>3, <2>4 DEF Supported
  <2> QED BY <2>5, <2>6, <2>7, VulkanSubmitKeeps
<1>8. CASE Vulkan!Present /\ ~surface.acquire_pending
  <2>1. /\ Vulkan!Polled /\ surface.swap_chain /\ slot' = Vulkan!Empty
        /\ operation' = [Vulkan!NoOperation EXCEPT !.name = "present", !.pc = "queue"]
        /\ UNCHANGED <<records, terminal, surface, held, running, engine>>
    BY <1>8 DEF Vulkan!Present, Vulkan!device
  <2>2. running = {} /\ operation.pc = "idle" /\ ~terminal
    BY <2>1, PolledQuiet DEF Vulkan!Polled
  <2>3. operation'.pc = "queue" /\ operation'.work = None /\ operation'.owns = {}
    BY <2>1 DEF Vulkan!NoOperation
  <2>4. VulkanTyped'
    BY <2>1, <2>3 DEF VulkanInv, VulkanTyped
  <2>5. OneWork' /\ Owned'
    BY <2>1, <2>2, <2>3 DEF OneWork, Owned
  <2>6. Signalled'
    BY <1>8, <2>1, <2>2, <2>3 DEF VulkanInv, Signalled, Waits, Pending
  <2>7. Lent' /\ Stands'
    BY <2>1, <2>2, <2>3 DEF VulkanInv, Lent, Stands
  <2> QED BY <2>4, <2>5, <2>6, <2>7 DEF VulkanInv
<1> QED BY <1>4, <1>5, <1>6, <1>7, <1>8

\* What a wait leaves in the surface: nothing of it but the layouts and the
\* acquisition that was waited for.
LEMMA SubmittedSurface ==
  ASSUME VulkanInv, NEW succeeded, Vulkan!Submitted(succeeded)
  PROVE  /\ surface' \in Surfaces /\ surface'.type = surface.type
         /\ surface'.swap_chain = surface.swap_chain /\ surface'.current_image = surface.current_image
         /\ surface'.acquire_pending = (surface.acquire_pending /\ ~operation.waits)
<1> DEFINE Layouts == CASE operation.name = "present" -> {surface.presentable \cup {surface.current_image}}
                        [] operation.name = "render"  -> {surface.presentable \cup {surface.current_image},
                                                          surface.presentable \ {surface.current_image}}
                        [] OTHER                      -> {surface.presentable}
<1>1. surface \in Surfaces
  BY DEF VulkanInv, VulkanTyped
<1>2. PICK layouts \in Layouts :
        surface' = [surface EXCEPT !.presentable = layouts, !.acquire_pending = Vulkan!StillPending(succeeded)]
  BY DEF Vulkan!Submitted
<1>3. layouts \in SUBSET (Images \cup {None})
  BY <1>1, <1>2 DEF Surfaces
<1>4. Vulkan!StillPending(succeeded) \in BOOLEAN
      /\ Vulkan!StillPending(succeeded) = (surface.acquire_pending /\ ~operation.waits)
  BY DEF Vulkan!StillPending
<1> HIDE DEF Layouts
<1> QED BY <1>1, <1>2, <1>3, <1>4 DEF Surfaces

\* The end of a wait.
LEMMA VulkanWaitKeeps == ASSUME VulkanInv, Vulkan!WaitSucceeds \/ Vulkan!WaitFails PROVE VulkanInv'
<1>1. operation.pc = "wait" /\ slot = Vulkan!Empty /\ ~terminal /\ (\A r \in running : r.waits = operation.waits)
  BY DEF VulkanInv, OneWork, Vulkan!WaitSucceeds, Vulkan!WaitFails
<1>2. /\ surface' \in Surfaces /\ surface'.type = surface.type
      /\ surface'.swap_chain = surface.swap_chain /\ surface'.current_image = surface.current_image
      /\ surface'.acquire_pending = (surface.acquire_pending /\ ~operation.waits)
  BY SubmittedSurface DEF Vulkan!WaitSucceeds, Vulkan!WaitFails
<1>3. running' = running /\ engine' = engine /\ held' = held
  BY DEF Vulkan!WaitSucceeds, Vulkan!WaitFails, Vulkan!device
<1> DEFINE queueing == [Vulkan!NoOperation EXCEPT !.name = "present", !.pc = "queue"]
<1>4. /\ operation'.pc \in {"idle", "queue"} /\ operation'.work = None /\ operation'.owns = {}
      /\ operation'.pc = "queue" => operation.name = "present"
  <2>1. Vulkan!NoOperation.pc = "idle" /\ Vulkan!NoOperation.work = None /\ Vulkan!NoOperation.owns = {}
    BY DEF Vulkan!NoOperation
  <2>2. queueing.pc = "queue" /\ queueing.work = None /\ queueing.owns = {}
    BY DEF Vulkan!NoOperation
  <2> HIDE DEF queueing
  <2>3. \/ operation' = Vulkan!NoOperation
        \/ operation' = queueing /\ operation.name = "present"
    BY DEF Vulkan!WaitSucceeds, Vulkan!WaitFails, queueing
  <2> QED BY <2>1, <2>2, <2>3
<1> HIDE DEF queueing
<1>5. VulkanTyped'
  BY <1>2, <1>3, <1>4 DEF VulkanInv, VulkanTyped, Vulkan!WaitSucceeds, Vulkan!WaitFails
<1>6. Lent' /\ Stands'
  BY <1>1, <1>2, <1>3, <1>4 DEF VulkanInv, Lent, Stands
<1>7. CASE Vulkan!WaitSucceeds
  <2>1. running = {}
    BY <1>1, <1>7, WaitedQuiet DEF Vulkan!WaitSucceeds
  <2>2. OneWork' /\ Owned'
    BY <1>1, <1>3, <1>4, <1>7, <2>1 DEF OneWork, Owned, Vulkan!WaitSucceeds
  <2>3. Signalled'
    <3>1. ~Waits /\ ~Waits' /\ terminal' = terminal
      BY <1>3, <1>7, <2>1 DEF Waits, Vulkan!WaitSucceeds
    <3>2. Pending' = Pending
      BY <1>1, <1>2, <1>4 DEF Pending
    <3> QED BY <1>1, <1>2, <1>3, <1>4, <3>1, <3>2 DEF VulkanInv, Signalled
  <2> QED BY <1>5, <1>6, <2>2, <2>3 DEF VulkanInv
<1>8. CASE Vulkan!WaitFails
  <2>1. slot' = Vulkan!Work(operation.work, operation.owns) /\ operation' = Vulkan!NoOperation /\ records' = records
    BY <1>8 DEF Vulkan!WaitFails
  <2>2. OneWork' /\ Owned'
    BY <1>1, <1>2, <1>3, <2>1 DEF VulkanInv, OneWork, Owned, Uses, Vulkan!Work, Vulkan!Empty, Vulkan!NoOperation
  <2>3. Signalled'
    BY <1>1, <1>2, <1>3, <2>1 DEF VulkanInv, Signalled, Waits, Pending, Vulkan!NoOperation
  <2> QED BY <1>5, <1>6, <2>2, <2>3 DEF VulkanInv
<1> QED BY <1>7, <1>8

\* A surface that does not exist stands on nothing.
LEMMA NothingHeld == Vulkan!Held("none") = {}
BY DEF Vulkan!Held, Vulkan!Objects

\* A new swapchain: its first image is lent, and its acquisition pending.
LEMMA SwapchainMade ==
  ASSUME NEW type \in Types, Vulkan!CreateSwapchain(type)
  PROVE  /\ surface' \in Surfaces /\ surface'.type = type
         /\ surface'.swap_chain = TRUE /\ surface'.acquire_pending = TRUE
         /\ surface'.current_image \in Images /\ surface'.current_image \in engine'.lent
         /\ engine' \in Engines /\ engine'.semaphore = "armed" /\ engine'.missed = FALSE
<1>1. PICK i \in Images :
        /\ surface' = [type |-> type, swap_chain |-> TRUE, current_image |-> i,
                       acquire_pending |-> TRUE, presentable |-> {}]
        /\ engine' = [lent |-> {i}, semaphore |-> "armed", missed |-> FALSE]
  BY DEF Vulkan!CreateSwapchain
<1> QED BY <1>1 DEF Surfaces, Engines

\* A surface without a swapchain.
LEMMA SwapchainGone ==
  ASSUME NEW type \in Types, surface' = [Vulkan!NoSurface EXCEPT !.type = type], engine' = Vulkan!NoEngine
  PROVE  /\ surface' \in Surfaces /\ surface'.type = type
         /\ surface'.swap_chain = FALSE /\ surface'.acquire_pending = FALSE
         /\ engine' \in Engines
BY DEF Surfaces, Engines, Vulkan!NoSurface, Vulkan!NoEngine

\* The backend is idle with such a surface, and so is the GPU.
LEMMA RemadeKeeps ==
  ASSUME VulkanInv, running' = {}, operation' = Vulkan!NoOperation, records' \subseteq Resources,
         surface' \in Surfaces, engine' \in Engines, held' = Vulkan!Held(surface'.type),
         surface'.swap_chain =>
           /\ surface'.acquire_pending = TRUE /\ surface'.current_image \in Images
           /\ surface'.current_image \in engine'.lent /\ engine'.semaphore = "armed"
  PROVE  VulkanInv'
<1>1. operation'.pc = "idle" /\ operation'.work = None /\ operation'.owns = {}
  BY DEF Vulkan!NoOperation
<1>2. VulkanTyped'
  BY <1>1 DEF VulkanTyped
<1>3. OneWork' /\ Owned'
  BY <1>1 DEF OneWork, Owned
<1>4. Signalled'
  BY <1>1 DEF Signalled, Waits, Pending
<1>5. Lent' /\ Stands'
  BY <1>1 DEF Lent, Stands
<1> QED BY <1>2, <1>3, <1>4, <1>5 DEF VulkanInv

\* Making a surface.
LEMMA VulkanSurfaceKeeps ==
  ASSUME VulkanInv, Vulkan!CreateSurface \/ Vulkan!Acquire \/ Vulkan!SurfaceCreated
  PROVE  VulkanInv'
<1>1. CASE Vulkan!CreateSurface
  <2>1. Vulkan!Polled /\ surface = Vulkan!NoSurface /\ UNCHANGED <<records, terminal, surface, held, running, engine>>
    BY <1>1 DEF Vulkan!CreateSurface, Vulkan!device
  <2>2. PICK type \in {"window", "display"} :
          operation' = [Vulkan!NoOperation EXCEPT !.name = type, !.pc = "create"]
    BY <1>1 DEF Vulkan!CreateSurface
  <2>3. running = {} /\ operation.pc = "idle" /\ ~terminal
    BY <2>1, PolledQuiet DEF Vulkan!Polled
  <2>4. operation'.pc = "create" /\ operation'.name = type /\ operation'.work = None /\ operation'.owns = {}
    BY <2>2 DEF Vulkan!NoOperation
  <2>5. held = {}
    BY <2>1, <2>3, NothingHeld DEF VulkanInv, Stands, Vulkan!NoSurface
  <2>6. VulkanTyped'
    BY <2>1, <2>4 DEF VulkanInv, VulkanTyped
  <2>7. OneWork' /\ Owned'
    BY <2>1, <2>3, <2>4 DEF OneWork, Owned
  <2>8. Signalled'
    BY <2>1, <2>3, <2>4 DEF VulkanInv, Signalled, Waits, Pending
  <2>9. Lent' /\ Stands'
    BY <2>1, <2>4, <2>5 DEF VulkanInv, Lent, Stands, Types
  <2> QED BY <2>6, <2>7, <2>8, <2>9 DEF VulkanInv
<1>2. CASE Vulkan!Acquire
  <2>1. operation.pc = "create" /\ UNCHANGED <<records, slot, terminal, surface, running, engine>>
    BY <1>2 DEF Vulkan!Acquire, Vulkan!device
  <2>2. /\ running = {} /\ surface = Vulkan!NoSurface /\ held \subseteq Vulkan!Held(operation.name)
        /\ operation.name \in Types /\ operation.work = None /\ operation.owns = {}
    BY <2>1 DEF VulkanInv, OneWork, Stands
  <2>3. CASE operation' = operation /\ held' \subseteq Vulkan!Held(operation.name)
    <3>1. VulkanTyped' /\ Lent' /\ Stands'
      BY <2>1, <2>2, <2>3 DEF VulkanInv, VulkanTyped, Lent, Stands
    <3>2. OneWork' /\ Owned'
      BY <2>1, <2>2, <2>3 DEF VulkanInv, OneWork, Owned
    <3>3. Signalled'
      BY <2>1, <2>2, <2>3 DEF VulkanInv, Signalled, Waits, Pending
    <3> QED BY <3>1, <3>2, <3>3 DEF VulkanInv
  <2>4. CASE operation' = Vulkan!NoOperation /\ held' = Vulkan!Rollback(held)
    <3>1. held' = {}
      BY <2>2, <2>4 DEF Vulkan!Rollback
    <3>2. surface.type = "none" /\ ~surface.swap_chain
      BY <2>2 DEF Vulkan!NoSurface
    <3>3. surface \in Surfaces /\ engine \in Engines /\ records \subseteq Resources
      BY DEF VulkanInv, VulkanTyped
    <3> QED BY <2>1, <2>2, <2>4, <3>1, <3>2, <3>3, NothingHeld, RemadeKeeps
  <2>5. \/ operation' = operation /\ held' \subseteq Vulkan!Held(operation.name)
        \/ operation' = Vulkan!NoOperation /\ held' = Vulkan!Rollback(held)
    BY <1>2, <2>2 DEF Vulkan!Acquire, Vulkan!Held
  <2> QED BY <2>3, <2>4, <2>5
<1>3. CASE Vulkan!SurfaceCreated
  <2>1. operation.pc = "create" /\ held = Vulkan!Held(operation.name) /\ operation' = Vulkan!NoOperation
        /\ UNCHANGED <<records, running>>
    BY <1>3 DEF Vulkan!SurfaceCreated
  <2>2. running' = {} /\ surface = Vulkan!NoSurface /\ operation.name \in Types
    BY <2>1 DEF VulkanInv, OneWork, Stands
  <2>3. records' \subseteq Resources
    BY <2>1 DEF VulkanInv, VulkanTyped
  <2>4. CASE Vulkan!CreateSwapchain(operation.name) /\ UNCHANGED held
    BY <2>1, <2>2, <2>3, <2>4, SwapchainMade, RemadeKeeps
  <2>5. CASE held' = Vulkan!Rollback(held) /\ UNCHANGED <<surface, engine>>
    <3>1. held' = {}
      BY <2>1, <2>5 DEF Vulkan!Rollback
    <3>2. surface'.type = "none" /\ ~surface'.swap_chain
      BY <2>2, <2>5 DEF Vulkan!NoSurface
    <3>3. surface' \in Surfaces /\ engine' \in Engines
      BY <2>5 DEF VulkanInv, VulkanTyped
    <3> QED BY <2>1, <2>2, <2>3, <3>1, <3>2, <3>3, NothingHeld, RemadeKeeps
  <2> QED BY <1>3, <2>4, <2>5 DEF Vulkan!SurfaceCreated
<1> QED BY <1>1, <1>2, <1>3

\* The calls that wait for the device, and what they do when it is idle.
LEMMA VulkanReleaseKeeps ==
  ASSUME VulkanInv, Vulkan!Recreated \/ Vulkan!SurfaceDestroyed \/ Vulkan!ShutDown
  PROVE  VulkanInv'
<1>1. surface \in Surfaces /\ surface.type \in Types /\ records \subseteq Resources
  BY DEF VulkanInv, VulkanTyped, Surfaces
<1>2. CASE Vulkan!Recreated
  <2>1. operation.pc = "device" /\ operation.name = "recreate" /\ operation' = Vulkan!NoOperation
        /\ UNCHANGED <<held, records, running>>
    BY <1>2 DEF Vulkan!Recreated, Vulkan!At
  <2>2. running' = {} /\ held' = Vulkan!Held(surface.type)
    BY <2>1 DEF VulkanInv, OneWork, Stands
  <2>3. \/ Vulkan!CreateSwapchain(surface.type)
        \/ surface' = [Vulkan!NoSurface EXCEPT !.type = surface.type] /\ engine' = Vulkan!NoEngine
    BY <1>2 DEF Vulkan!Recreated
  <2>4. CASE Vulkan!CreateSwapchain(surface.type)
    BY <1>1, <2>1, <2>2, <2>4, SwapchainMade, RemadeKeeps
  <2>5. CASE surface' = [Vulkan!NoSurface EXCEPT !.type = surface.type] /\ engine' = Vulkan!NoEngine
    BY <1>1, <2>1, <2>2, <2>5, SwapchainGone, RemadeKeeps
  <2> QED BY <2>3, <2>4, <2>5
<1>3. ASSUME surface' = Vulkan!NoSurface, engine' = Vulkan!NoEngine
      PROVE  surface' \in Surfaces /\ engine' \in Engines /\ surface'.type = "none" /\ ~surface'.swap_chain
  BY <1>3 DEF Vulkan!NoSurface, Vulkan!NoEngine, Surfaces, Engines, Types
<1>4. CASE Vulkan!SurfaceDestroyed
  <2>1. operation.pc = "device" /\ operation.name = "destroySurface" /\ operation' = Vulkan!NoOperation
        /\ surface' = Vulkan!NoSurface /\ held' = {} /\ engine' = Vulkan!NoEngine /\ UNCHANGED <<records, running>>
    BY <1>4 DEF Vulkan!SurfaceDestroyed, Vulkan!At
  <2>2. running' = {}
    BY <2>1 DEF VulkanInv, OneWork
  <2> QED BY <1>1, <1>3, <2>1, <2>2, NothingHeld, RemadeKeeps
<1>5. CASE Vulkan!ShutDown
  <2>1. running' = {} /\ operation' = Vulkan!NoOperation /\ records' = {}
        /\ surface' = Vulkan!NoSurface /\ held' = {} /\ engine' = Vulkan!NoEngine
    BY <1>5 DEF Vulkan!ShutDown
  <2> QED BY <1>3, <2>1, NothingHeld, RemadeKeeps
<1> QED BY <1>2, <1>4, <1>5

\* The rest of a present.
LEMMA VulkanPresentKeeps ==
  ASSUME VulkanInv, Vulkan!NotPresentable \/ Vulkan!OutOfDate \/ Vulkan!Missed \/ Vulkan!Presented
  PROVE  VulkanInv'
<1>1. operation.pc = "queue"
  BY DEF Vulkan!NotPresentable, Vulkan!OutOfDate, Vulkan!Missed, Vulkan!Presented, Vulkan!Presentable, Vulkan!Queueing
<1>2. /\ running = {} /\ ~terminal /\ operation.work = None /\ operation.owns = {}
      /\ surface.swap_chain /\ surface.acquire_pending = FALSE /\ held = Vulkan!Held(surface.type)
      /\ surface \in Surfaces /\ engine \in Engines /\ records \subseteq Resources
  BY <1>1 DEF VulkanInv, OneWork, Signalled, Stands, VulkanTyped, Surfaces
<1>3. engine.semaphore = "free"
  BY <1>1, <1>2 DEF VulkanInv, Signalled, Waits, Pending
<1>4. UNCHANGED <<records, slot, terminal, held, running>>
  BY DEF Vulkan!NotPresentable, Vulkan!OutOfDate, Vulkan!Missed, Vulkan!Presented, Vulkan!device
<1>5. CASE Vulkan!NotPresentable
  <2>1. operation' = Vulkan!NoOperation /\ UNCHANGED <<surface, engine>>
    BY <1>5 DEF Vulkan!NotPresentable, Vulkan!device
  <2> QED BY <1>1, <1>2, <1>4, <2>1, QuietKeeps DEF Vulkan!NoOperation
<1>6. CASE Vulkan!OutOfDate
  <2>1. operation' = [Vulkan!NoOperation EXCEPT !.name = "recreate", !.pc = "device"] /\ UNCHANGED <<surface, engine>>
    BY <1>6 DEF Vulkan!OutOfDate, Vulkan!AwaitIdle, Vulkan!device
  <2> QED BY <1>1, <1>2, <1>4, <2>1, QuietKeeps DEF Vulkan!NoOperation
<1>7. CASE Vulkan!Missed
  <2>1. PICK lent \in {engine.lent, engine.lent \ {surface.current_image}} :
          engine' = [engine EXCEPT !.lent = lent, !.missed = TRUE]
    BY <1>7 DEF Vulkan!Missed
  <2>2. engine' \in Engines /\ engine'.missed = TRUE /\ engine'.semaphore = "free"
    BY <1>2, <1>3, <2>1 DEF Engines
  <2>3. operation'.pc = "idle" /\ operation'.work = None /\ operation'.owns = {} /\ surface' = surface
    BY <1>7 DEF Vulkan!Missed, Vulkan!NoOperation
  <2>4. VulkanTyped'
    BY <1>4, <2>2, <2>3 DEF VulkanInv, VulkanTyped
  <2>5. OneWork' /\ Owned'
    BY <1>2, <1>4, <2>3 DEF OneWork, Owned
  <2>6. Signalled'
    BY <1>2, <1>4, <2>2, <2>3 DEF Signalled, Waits, Pending
  <2>7. Lent' /\ Stands'
    BY <1>2, <1>4, <2>2, <2>3 DEF Lent, Stands
  <2> QED BY <2>4, <2>5, <2>6, <2>7 DEF VulkanInv
<1>8. CASE Vulkan!Presented
  <2> DEFINE returned == engine.lent \ {surface.current_image}
  <2>1. PICK i \in Images \ returned :
          /\ engine' = [lent |-> returned \cup {i}, semaphore |-> Vulkan!Semaphore("free", "armed"), missed |-> FALSE]
          /\ surface' = [surface EXCEPT !.current_image = i, !.acquire_pending = TRUE]
    BY <1>8 DEF Vulkan!Presented
  <2>2. engine' \in Engines /\ engine'.semaphore = "armed" /\ i \in engine'.lent
    BY <1>2, <1>3, <2>1 DEF Engines, Vulkan!Semaphore
  <2>3. /\ surface' \in Surfaces /\ surface'.type = surface.type /\ surface'.current_image = i
        /\ surface'.acquire_pending = TRUE
    BY <1>2, <2>1 DEF Surfaces
  <2>4. operation' = Vulkan!NoOperation
    BY <1>8 DEF Vulkan!Presented
  <2> QED BY <1>2, <1>4, <2>2, <2>3, <2>4, RemadeKeeps
<1> QED BY <1>5, <1>6, <1>7, <1>8

\* The calls that only poll, or wait for the device next.
LEMMA VulkanPollKeeps ==
  ASSUME VulkanInv,
         \/ Vulkan!Refused \/ Vulkan!Create \/ Vulkan!Destroy
         \/ Vulkan!Replace \/ Vulkan!Recreate \/ Vulkan!DestroySurface
  PROVE  VulkanInv'
<1>1. Vulkan!Polled /\ UNCHANGED <<terminal, surface, held, running, engine>>
  BY DEF Vulkan!Refused, Vulkan!Create, Vulkan!Destroy, Vulkan!Replace, Vulkan!Recreate,
     Vulkan!DestroySurface, Vulkan!Publish, Vulkan!device
<1>2. running = {} /\ operation = Vulkan!NoOperation /\ ~terminal
  BY <1>1, PolledQuiet DEF Vulkan!Polled, Vulkan!Idle
<1>3. records \subseteq Resources
  BY DEF VulkanInv, VulkanTyped
<1>4. records' \subseteq Resources
  BY <1>3 DEF Vulkan!Refused, Vulkan!Create, Vulkan!Destroy, Vulkan!Replace, Vulkan!Recreate,
     Vulkan!DestroySurface, Vulkan!Publish, Vulkan!Free
<1>5. operation'.pc \in {"idle", "device"} /\ operation'.work = None /\ operation'.owns = {}
  <2>1. CASE Vulkan!Recreate
    BY <2>1 DEF Vulkan!Recreate, Vulkan!AwaitIdle, Vulkan!NoOperation
  <2>2. CASE Vulkan!DestroySurface
    BY <2>2 DEF Vulkan!DestroySurface, Vulkan!AwaitIdle, Vulkan!NoOperation
  <2>3. CASE ~Vulkan!Recreate /\ ~Vulkan!DestroySurface
    <3>1. operation' = operation
      BY <2>3 DEF Vulkan!Refused, Vulkan!Create, Vulkan!Destroy, Vulkan!Replace, Vulkan!Publish
    <3> QED BY <1>2, <3>1 DEF Vulkan!NoOperation
  <2> QED BY <2>1, <2>2, <2>3
<1>6. operation.pc = "idle"
  BY <1>2 DEF Vulkan!NoOperation
<1> QED BY <1>1, <1>2, <1>4, <1>5, <1>6, QuietKeeps

\* The loss of the device is noted, or the shutdown begins: what the slot keeps
\* may still run.
LEMMA VulkanLateKeeps == ASSUME VulkanInv, Vulkan!LostFound \/ Vulkan!Shutdown PROVE VulkanInv'
<1>1. operation = Vulkan!NoOperation /\ UNCHANGED <<records, surface, held, running, engine>>
  BY DEF Vulkan!LostFound, Vulkan!Shutdown, Vulkan!Idle, Vulkan!device
<1>2. operation.pc = "idle" /\ operation.work = None /\ operation.owns = {}
  BY <1>1 DEF Vulkan!NoOperation
<1>3. /\ operation'.pc \in {"idle", "device"} /\ operation'.work = None /\ operation'.owns = {}
      /\ operation'.pc = "device" => operation'.name = "shutdown"
  <2>1. CASE Vulkan!LostFound
    BY <1>2, <2>1 DEF Vulkan!LostFound
  <2>2. CASE Vulkan!Shutdown
    BY <2>2 DEF Vulkan!Shutdown, Vulkan!AwaitIdle, Vulkan!NoOperation
  <2> QED BY <2>1, <2>2
<1>4. terminal => terminal'
  BY DEF Vulkan!LostFound, Vulkan!Shutdown
<1>5. slot' = slot \/ running = {}
  BY PolledQuiet DEF Vulkan!LostFound, Vulkan!Shutdown
<1>6. VulkanTyped'
  BY <1>1, <1>3 DEF VulkanInv, VulkanTyped
<1>7. OneWork' /\ Owned'
  <2>1. CASE running = {}
    BY <1>1, <1>3, <2>1 DEF OneWork, Owned
  <2>2. CASE slot' = slot
    BY <1>1, <1>2, <1>3, <2>2 DEF VulkanInv, OneWork, Owned, Uses
  <2> QED BY <1>5, <2>1, <2>2
<1>8. Signalled'
  BY <1>1, <1>2, <1>3, <1>4 DEF VulkanInv, Signalled, Waits, Pending
<1>9. Lent' /\ Stands'
  BY <1>1, <1>2, <1>3 DEF VulkanInv, Lent, Stands
<1> QED BY <1>6, <1>7, <1>8, <1>9 DEF VulkanInv

\* The device, and a new generation.
LEMMA VulkanDeviceKeeps ==
  ASSUME VulkanInv, Vulkan!Complete \/ Vulkan!DeviceLost \/ Vulkan!Initialize
  PROVE  VulkanInv'
<1>1. UNCHANGED <<records, slot, terminal, surface, held, operation>>
  BY DEF Vulkan!Complete, Vulkan!DeviceLost, Vulkan!Initialize
<1>2. CASE Vulkan!DeviceLost \/ Vulkan!Initialize
  <2>1. UNCHANGED <<running, engine>>
    BY <1>2 DEF Vulkan!DeviceLost, Vulkan!Initialize, Vulkan!device
  <2>2. VulkanTyped' /\ OneWork' /\ Owned'
    BY <1>1, <2>1 DEF VulkanInv, VulkanTyped, OneWork, Owned, Uses
  <2>3. Signalled' /\ Lent' /\ Stands'
    BY <1>1, <2>1 DEF VulkanInv, Signalled, Waits, Pending, Lent, Stands
  <2> QED BY <2>2, <2>3 DEF VulkanInv
<1>3. CASE Vulkan!Complete
  <2>1. PICK r \in running :
          /\ running' = running \ {r}
          /\ engine' = IF r.waits THEN [engine EXCEPT !.semaphore = Vulkan!Semaphore("waited", "free")] ELSE engine
    BY <1>3 DEF Vulkan!Complete
  <2>2. running' = {} /\ engine \in Engines
    BY <2>1 DEF VulkanInv, OneWork, VulkanTyped
  <2>3. r.waits \in BOOLEAN /\ Waits = r.waits
    BY DEF VulkanInv, OneWork, VulkanTyped, Submissions, Waits
  <2>4. r.waits => engine.semaphore = "waited"
    BY <2>3 DEF VulkanInv, Signalled
  <2>5. /\ engine' \in Engines /\ engine'.lent = engine.lent /\ engine'.missed = engine.missed
        /\ engine'.semaphore = IF r.waits THEN "free" ELSE engine.semaphore
    BY <2>1, <2>2, <2>4 DEF Engines, Vulkan!Semaphore
  <2>6. VulkanTyped' /\ OneWork' /\ Owned'
    BY <1>1, <2>2, <2>5 DEF VulkanInv, VulkanTyped, OneWork, Owned
  <2>7. Signalled'
    <3>1. ~Waits' /\ Pending' = Pending
      BY <1>1, <2>2 DEF Waits, Pending
    <3> QED BY <1>1, <2>3, <2>4, <2>5, <3>1 DEF VulkanInv, Signalled
  <2>8. Lent' /\ Stands'
    BY <1>1, <2>2, <2>5 DEF VulkanInv, Lent, Stands
  <2> QED BY <2>6, <2>7, <2>8 DEF VulkanInv
<1> QED BY <1>2, <1>3

\* No step of a call, the GPU or the presentation engine breaks the invariant.
LEMMA VulkanStepHolds == VulkanInv /\ [Vulkan!Next]_(Vulkan!vars) => VulkanInv'
<1>1. ASSUME VulkanInv, Vulkan!Next PROVE VulkanInv'
  BY <1>1, VulkanCallKeeps, VulkanWaitKeeps, VulkanSurfaceKeeps, VulkanReleaseKeeps, VulkanPresentKeeps,
     VulkanPollKeeps, VulkanLateKeeps, VulkanDeviceKeeps
     DEF Vulkan!Next
<1>2. ASSUME VulkanInv, UNCHANGED Vulkan!vars PROVE VulkanInv'
  <2>1. VulkanTyped' /\ OneWork' /\ Owned'
    BY <1>2 DEF Vulkan!vars, Vulkan!device, VulkanInv, VulkanTyped, OneWork, Owned, Uses
  <2>2. Signalled' /\ Lent' /\ Stands'
    BY <1>2 DEF Vulkan!vars, Vulkan!device, VulkanInv, Signalled, Waits, Pending, Lent, Stands
  <2> QED BY <2>1, <2>2 DEF VulkanInv
<1> QED BY <1>1, <1>2

\* What the invariant is for.
LEMMA Retained == VulkanInv => Vulkan!WorkRetained
BY DEF VulkanInv, OneWork, Owned, Uses, Vulkan!WorkRetained

\* ... of the images.
LEMMA LentImages == VulkanInv => Vulkan!ImagesLent
<1> SUFFICES ASSUME VulkanInv PROVE Vulkan!ImagesLent
  OBVIOUS
<1>1. engine.semaphore # "broken"
  BY DEF VulkanInv, VulkanTyped, Engines
<1>2. engine.missed \/ \A r \in running : r.uses \cap Images \subseteq engine.lent
  BY DEF VulkanInv, Lent
<1>3. Vulkan!Presentable => surface.swap_chain
  BY DEF VulkanInv, Signalled, Vulkan!Presentable, Vulkan!Queueing
<1>4. engine.missed \/ (Vulkan!Presentable => surface.current_image \in engine.lent)
  BY <1>3 DEF VulkanInv, Lent
<1> QED BY <1>1, <1>2, <1>4 DEF Vulkan!ImagesLent

\* ... and of the native objects.
LEMMA StandsBetween == VulkanInv => Vulkan!ObjectsHeld
BY DEF VulkanInv, Stands, Vulkan!ObjectsHeld, Vulkan!NoOperation

-----------------------------------------------------------------------------
(***************************************************************************)
(* The renderers.                                                          *)
(***************************************************************************)

\* Nothing is drawn with Vulkan.
Undrawn ==
  /\ running = {} /\ held = {} /\ surface = Vulkan!NoSurface
  /\ operation = Vulkan!NoOperation /\ engine = Vulkan!NoEngine

RenderersInv ==
  /\ D3D12Inv
  /\ renderer = "vulkan" => VulkanInv
  /\ renderer # "vulkan" => Undrawn
  /\ SP!IInv

\* The steps of a surface are the ones D3D12Surface_proofs is about.
LEMMA SurfaceUses ==
  /\ Surface!Init <=> SP!Init
  /\ Surface!Next <=> SP!Next
  /\ Surface!vars = SP!vars
  BY DEF
     Surface!vars, SP!vars, Surface!NoWindow, SP!NoWindow, Surface!NoSurface, SP!NoSurface,
     Surface!NoAnswer, SP!NoAnswer, Surface!Init, SP!Init, Surface!Done, SP!Done, Surface!Fails, SP!Fails,
     Surface!NotUndone, SP!NotUndone, Surface!AnyOf, SP!AnyOf, Surface!MayFail, SP!MayFail,
     Surface!Attempt, SP!Attempt, Surface!Rollback, SP!Rollback, Surface!Sized, SP!Sized, Surface!Restore,
     SP!Restore, Surface!Borderless, SP!Borderless, Surface!ResizeClient, SP!ResizeClient, Surface!Fresh,
     SP!Fresh, Surface!Reacquired, SP!Reacquired, Surface!Lost, SP!Lost, Surface!Rebuild, SP!Rebuild,
     Surface!Handled, SP!Handled, Surface!Resize, SP!Resize, Surface!ToBorderless, SP!ToBorderless,
     Surface!Forgotten, SP!Forgotten, Surface!FromBorderless, SP!FromBorderless, Surface!Leaving,
     SP!Leaving, Surface!EnterDisplayMode, SP!EnterDisplayMode, Surface!LeaveDisplayMode,
     SP!LeaveDisplayMode, Surface!SetMode, SP!SetMode, Surface!Answer, SP!Answer, Surface!Call, SP!Call,
     Surface!Exists, SP!Exists, Surface!Windowed, SP!Windowed, Surface!CreateOffscreen, SP!CreateOffscreen,
     Surface!CreateWindow, SP!CreateWindow, Surface!CreateDirectDisplay, SP!CreateDirectDisplay,
     Surface!ResizeSurface, SP!ResizeSurface, Surface!SetSurfaceWindowMode, SP!SetSurfaceWindowMode,
     Surface!PollSurfaceEvents, SP!PollSurfaceEvents, Surface!DestroySurface, SP!DestroySurface,
     Surface!Shutdown, SP!Shutdown, Surface!User, SP!User, Surface!UserSizes, SP!UserSizes,
     Surface!UserMinimizes, SP!UserMinimizes, Surface!UserCloses, SP!UserCloses, Surface!Next, SP!Next

\* The invariant holds of a renderer that was never initialized.
LEMMA RenderersInitHolds == RenderersInit => RenderersInv
<1> SUFFICES ASSUME RenderersInit PROVE RenderersInv
  OBVIOUS
<1>1. D3D12Inv
  BY D3D12InitHolds DEF RenderersInit
<1>2. VulkanInv /\ Undrawn
  BY VulkanInitHolds DEF RenderersInit, Undrawn, Vulkan!Init
<1>3. SP!IInv
  BY SurfaceUses, SP!SurfaceInit DEF RenderersInit
<1> QED BY <1>1, <1>2, <1>3 DEF RenderersInv

\* What each part of the invariant is about stays when the part does.
LEMMA SubmitsRest == ASSUME D3D12Inv, UNCHANGED d3d12 PROVE D3D12Inv'
BY DEF D3D12Inv, GpuInOrder, Submitted, Recorded, d3d12, gpu

LEMMA UndrawnRest == ASSUME Undrawn, UNCHANGED vulkan PROVE Undrawn'
BY DEF Undrawn, vulkan

LEMMA WindowRest == ASSUME SP!IInv, UNCHANGED window PROVE SP!IInv' /\ UNCHANGED SP!vars
BY DEF SP!IInv, window, SP!vars

\* It holds after every step, and the step of a surface does what the properties say.
LEMMA RenderersStep ==
  ASSUME RenderersInv, [RenderersNext]_all
  PROVE  RenderersInv' /\ (UNCHANGED SP!vars \/ (SP!UndoneStep /\ SP!DisplayStep))
<1>1. CASE OfD3D12(Next)
  <2>1. renderer = "d3d12" /\ renderer' = renderer /\ Next /\ UNCHANGED <<vulkan, window>>
    BY <1>1 DEF OfD3D12
  <2>2. D3D12Inv'
    BY <2>1, D3D12StepKeeps DEF RenderersInv
  <2>3. Undrawn'
    BY <2>1, UndrawnRest DEF RenderersInv
  <2>4. SP!IInv' /\ UNCHANGED SP!vars
    BY <2>1, WindowRest DEF RenderersInv
  <2> QED BY <2>1, <2>2, <2>3, <2>4 DEF RenderersInv
<1>2. CASE OfVulkan(Vulkan!Next)
  <2>1. renderer = "vulkan" /\ renderer' = renderer /\ Vulkan!Next /\ UNCHANGED <<d3d12, window>>
    BY <1>2 DEF OfVulkan
  <2>2. D3D12Inv'
    BY <2>1, SubmitsRest DEF RenderersInv
  <2>3. VulkanInv'
    BY <2>1, VulkanStepHolds DEF RenderersInv
  <2>4. SP!IInv' /\ UNCHANGED SP!vars
    BY <2>1, WindowRest DEF RenderersInv
  <2> QED BY <2>1, <2>2, <2>3, <2>4 DEF RenderersInv
<1>3. CASE OfSurface(Surface!Next)
  <2>1. renderer = "d3d12 surface" /\ renderer' = renderer /\ Surface!Next /\ UNCHANGED <<d3d12, vulkan>>
    BY <1>3 DEF OfSurface, submits
  <2>2. D3D12Inv' /\ Undrawn'
    BY <2>1, SubmitsRest, UndrawnRest DEF RenderersInv
  <2>3. SP!IInv /\ SP!Next
    BY <2>1, SurfaceUses DEF RenderersInv
  <2>4. SP!IInv' /\ (UNCHANGED SP!vars \/ (SP!UndoneStep /\ SP!DisplayStep))
    BY <2>3, SP!SurfaceStep
  <2> QED BY <2>1, <2>2, <2>4 DEF RenderersInv
<1>4. CASE UNCHANGED all
  <2>1. renderer' = renderer /\ UNCHANGED <<records, d3d12, vulkan, window>>
    BY <1>4 DEF all, submits
  <2>2. UNCHANGED Vulkan!vars
    BY <1>4 DEF all, submits, vulkan, Vulkan!vars, Vulkan!device
  <2>3. D3D12Inv' /\ (renderer # "vulkan" => Undrawn')
    BY <2>1, SubmitsRest, UndrawnRest DEF RenderersInv
  <2>4. renderer = "vulkan" => VulkanInv'
    BY <2>2, VulkanStepHolds DEF RenderersInv
  <2>5. SP!IInv' /\ UNCHANGED SP!vars
    BY <2>1, WindowRest DEF RenderersInv
  <2> QED BY <2>1, <2>3, <2>4, <2>5 DEF RenderersInv
<1> QED BY <1>1, <1>2, <1>3, <1>4 DEF RenderersNext

\* The invariant, in every reachable state.
LEMMA Invariant == RenderersSpec => []RenderersInv
<1>1. RenderersInv /\ [RenderersNext]_all => RenderersInv'
  BY RenderersStep
<1> QED BY <1>1, RenderersInitHolds, PTL DEF RenderersSpec

-----------------------------------------------------------------------------
\* The Direct3D 12 backend destroys, replaces and collects only what no unfinished
\* command list uses (collectCompletedSubmissions(), destroyTexture(), render()).
THEOREM RetainedAlways == RenderersSpec => []RetainedUntilDone
<1>1. RenderersInv => RetainedUntilDone
  BY DEF RenderersInv, D3D12Inv, Recorded, RetainedUntilDone
<1> QED BY <1>1, Invariant, PTL

\* What the GPU works on for the Vulkan backend, command buffer, fence, textures,
\* meshes and images, is held until the fence has signalled
\* (pollPendingSubmission(), submitAndWait()).
THEOREM WorkRetainedAlways == RenderersSpec => []WorkRetained
<1>1. RenderersInv => WorkRetained
  <2>1. Undrawn => Vulkan!WorkRetained
    BY DEF Undrawn, Vulkan!WorkRetained
  <2> QED BY <2>1, Retained DEF RenderersInv, WorkRetained
<1> QED BY <1>1, Invariant, PTL

\* The acquire semaphore is waited for exactly once for each acquisition, and the
\* GPU draws on lent images only (acquireNextImage(), presentSurface()).
THEOREM ImagesLentAlways == RenderersSpec => []ImagesLent
<1>1. RenderersInv => ImagesLent
  <2>1. Undrawn => Vulkan!ImagesLent
    BY DEF Undrawn, Vulkan!ImagesLent, Vulkan!NoEngine, Vulkan!NoOperation, Vulkan!Presentable, Vulkan!Queueing
  <2> QED BY <2>1, LentImages DEF RenderersInv, ImagesLent
<1> QED BY <1>1, Invariant, PTL

\* Between calls a Vulkan surface stands on all of its native objects or leaves
\* none, whichever step of its creation failed; the textures of a Direct3D 12
\* surface are what its chain holds and what it describes
\* (createWindowSurface(), createDirectDisplaySurface(), resizeWindowSurfaceBuffers()).
THEOREM SurfacesSoundAlways == RenderersSpec => []SurfacesSound
<1>1. RenderersInv => Vulkan!ObjectsHeld
  <2>1. Undrawn => Vulkan!ObjectsHeld
    BY NothingHeld DEF Undrawn, Vulkan!ObjectsHeld, Vulkan!NoSurface
  <2> QED BY <2>1, StandsBetween DEF RenderersInv
<1>2. RenderersInv => Surface!BuffersMatch
  <2>1. SP!Named
    BY SurfaceAssumption DEF SP!Named
  <2>2. SP!IInv => SP!BuffersMatch
    BY <2>1, SP!Matched
  <2>3. SP!BuffersMatch <=> Surface!BuffersMatch
    BY DEF SP!BuffersMatch, Surface!BuffersMatch, SP!NoWindow, Surface!NoWindow
  <2> QED BY <2>2, <2>3 DEF RenderersInv
<1>3. RenderersInv => SurfacesSound
  BY <1>1, <1>2 DEF SurfacesSound
<1> QED BY <1>3, Invariant, PTL

\* A transition of a Direct3D 12 surface that fails without reporting a failed
\* rollback has changed neither its mode nor what it describes
\* (transitionWithRollbackError()).
THEOREM TransitionsUndoneAlways == RenderersSpec => TransitionsUndone
<1>1. RenderersInv /\ [RenderersNext]_all => [SP!UndoneStep]_(SP!vars)
  BY RenderersStep
<1>2. [][SP!UndoneStep]_(SP!vars) => TransitionsUndone
  <2>1. [SP!UndoneStep]_(SP!vars) =>
          [ /\ answer'.call \in {"resize", "borderless", "leave", "enter", "poll"} /\ ~answer'.ok /\ answer'.undone
            /\ ~(answer'.call = "leave" /\ record.mode = "fullscreen")
            => /\ Surface!Described(record') = Surface!Described(record)
               /\ record'.window.style \in {record.window.style, Surface!StyleOf(record.mode)}
               /\ record'.window.place = record.window.place
               /\ record'.window.client \in {record.window.client, record.extent}
               /\ record.textures # 0 => record'.textures \in {record.textures, 0}]_(Surface!vars)
    BY DEF SP!vars, Surface!vars, SP!UndoneStep, SP!Described, Surface!Described, SP!StyleOf, Surface!StyleOf
  <2> QED BY <2>1, PTL DEF TransitionsUndone, Surface!Undone
<1> QED BY <1>1, <1>2, Invariant, PTL DEF RenderersSpec

\* A display is given back by the surface that took it, before that surface goes
\* (enterDisplayModeFullscreen(), leaveDisplayModeFullscreen(), destroySurface()).
THEOREM DisplayHeldAlways == RenderersSpec => DisplayHeld
<1>1. RenderersInv /\ [RenderersNext]_all => [SP!DisplayStep]_(SP!vars)
  BY RenderersStep
<1>2. [][SP!DisplayStep]_(SP!vars) => DisplayHeld
  <2>1. [SP!DisplayStep]_(SP!vars) =>
          [\A d \in Displays :
             /\ screen'[d] # screen[d] => \/ Surface!Has(record', d) /\ record'.restore_mode = screen[d]
                                          \/ Surface!Has(record, d) /\ record.restore_mode = screen'[d]
                                          \/ ~answer'.undone
             /\ Surface!Has(record, d) /\ ~Surface!Has(record', d)
                => record.restore_mode = screen'[d] \/ answer'.call = "shutdown"]_(Surface!vars)
    BY DEF SP!vars, Surface!vars, SP!DisplayStep, SP!Has, Surface!Has
  <2> QED BY <2>1, PTL DEF DisplayHeld, Surface!DisplayHeld
<1> QED BY <1>1, <1>2, Invariant, PTL DEF RenderersSpec
=============================================================================
