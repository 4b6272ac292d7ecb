-------------------------- MODULE VulkanSubmission --------------------------
(***************************************************************************)
(* Submissions and the swapchain of the Vulkan renderer backend            *)
(* (platform/oui/linux/renderer/VulkanRendererBackend.cpp).                *)
(*                                                                         *)
(* One thread drives the backend.  It waits for each submission it makes;  *)
(* a wait that fails moves the owner of the command buffer, the fence and  *)
(* the temporary objects to m_pending_submission, and every later call     *)
(* that could touch what the GPU uses polls that slot first.  Beside it    *)
(* run the GPU, and the presentation engine that lends the images of a     *)
(* swapchain through one semaphore.                                        *)
(*                                                                         *)
(* The application draws on the current texture of the surface, as         *)
(* OuiRenderer.md:287 asks it to.                                          *)
(***************************************************************************)
EXTENDS Naturals

CONSTANTS Resources,      \* native textures and mesh buffers
          Works,          \* names of submissions, reused
          Images,         \* the images of a swapchain
          None,
          MaxGeneration   \* bound on the generations reserved, one per initialize

VARIABLES
  issued,     \* RendererGenerationSource::m_last
  generation, \* m_handle_generation, 0 while the backend is shut down
  records,    \* the resources owned by m_textures and m_meshes
  slot,       \* m_pending_submission
  terminal,   \* m_terminal_submission_error is set
  surface,    \* the sSurfaceRecord of a window or a display
  held,       \* the native objects the surface stands on
  operation,  \* the call in progress
  running,    \* the submissions the GPU has not finished
  lost,       \* the device is lost
  engine      \* the presentation engine: images lent, acquire semaphore

device == <<running, lost, engine>>
vars == <<issued, generation, records, slot, terminal, surface, held, operation, device>>

Empty == [work |-> None, owns |-> {}]
NoSurface == [type |-> "none", swap_chain |-> FALSE, current_image |-> None,
              acquire_pending |-> FALSE, presentable |-> {}]
NoOperation == [name |-> "none", pc |-> "idle", work |-> None, owns |-> {}, old |-> {},
                waits |-> FALSE]
NoEngine == [lent |-> {}, semaphore |-> "none", missed |-> FALSE]

Init ==
  /\ issued = 0 /\ generation = 0 /\ records = {}
  /\ slot = Empty /\ terminal = FALSE
  /\ surface = NoSurface /\ held = {}
  /\ operation = NoOperation
  /\ running = {} /\ lost = FALSE /\ engine = NoEngine

(***************************************************************************)
(* The GPU finishes what it was given, or the device is lost.  A semaphore *)
(* is good for one wait; anything else breaks it.                          *)
(***************************************************************************)
Semaphore(from, to) == IF engine.semaphore = from THEN to ELSE "broken"

Complete ==
  /\ ~lost
  /\ \E r \in running :
       /\ running' = running \ {r}
       /\ engine' = IF r.waits THEN [engine EXCEPT !.semaphore = Semaphore("waited", "free")]
                    ELSE engine
  /\ UNCHANGED <<issued, generation, records, slot, terminal, surface, held, operation, lost>>

DeviceLost ==
  /\ generation # 0 /\ ~lost
  /\ lost' = TRUE
  /\ UNCHANGED <<issued, generation, records, slot, terminal, surface, held, operation, running, engine>>

InFlight == {r.work : r \in running}

(***************************************************************************)
(* pollPendingSubmission.                                                  *)
(***************************************************************************)
Idle == generation # 0 /\ operation = NoOperation

\* Mutant: the poll is forgotten.
Polled_Skipped == Idle /\ ~terminal

\* The poll lets a call go on; the owner in the slot is then released.
Polled == Idle /\ ~terminal /\ slot.work \notin InFlight

\* A call that is refused behind the poll, or whose submission fails in front of
\* the queue: its own temporary objects are released.
Refused ==
  /\ Polled
  /\ slot' = Empty
  /\ UNCHANGED <<issued, generation, records, terminal, surface, held, operation, device>>

\* The poll, or what comes before the submission, finds the device lost.
LostFound ==
  /\ Idle /\ ~terminal /\ lost
  /\ terminal' = TRUE
  /\ slot' \in {slot} \cup (IF Polled THEN {Empty} ELSE {})
  /\ UNCHANGED <<issued, generation, records, surface, held, operation, device>>

Initialize ==
  /\ generation = 0 /\ issued < MaxGeneration
  /\ issued' = issued + 1
  /\ generation' \in {0, issued'}
  /\ UNCHANGED <<records, slot, terminal, surface, held, operation, device>>

(***************************************************************************)
(* Calls without a submission: createTexture in the undefined state and    *)
(* createMesh, destroyTexture and destroyMesh, updateMesh.                 *)
(***************************************************************************)
Free == Resources \ records

Publish(new) ==
  /\ Polled
  /\ records' = new
  /\ slot' = Empty
  /\ UNCHANGED <<issued, generation, terminal, surface, held, operation, device>>

Create  == \E r \in Free : Publish(records \cup {r})
Destroy == \E r \in records : Publish(records \ {r})
Replace == \E r \in records, n \in Free : Publish((records \ {r}) \cup {n})

(***************************************************************************)
(* submitAndWait.                                                          *)
(***************************************************************************)
Work(w, owns) == [work |-> w, owns |-> owns]

Run(w, uses, waits) ==
  /\ running' = running \cup {[work |-> w, uses |-> uses, waits |-> waits]}
  /\ engine' = IF waits THEN [engine EXCEPT !.semaphore = Semaphore("armed", "waited")] ELSE engine

\* On the queue, and waited for.
Enqueued(name, w, uses, owns, old, waits) ==
  /\ Run(w, uses, waits)
  /\ operation' = [name |-> name, pc |-> "wait", work |-> w, owns |-> owns, old |-> old, waits |-> waits]
  /\ slot' = Empty
  /\ UNCHANGED terminal

\* The queue answers DeviceLost or a failure that does not tell whether the
\* GPU has the work: it is kept until the shutdown.
Doubtful(w, uses, owns, waits) ==
  /\ Run(w, uses, waits) \/ UNCHANGED <<running, engine>>
  /\ slot' = Work(w, owns)
  /\ terminal' = TRUE
  /\ UNCHANGED operation

Submit(name, uses, owns, old, waits) ==
  /\ Polled
  /\ \E w \in Works \ InFlight :
       Enqueued(name, w, uses, owns, old, waits) \/ Doubtful(w, uses, owns, waits)
  /\ UNCHANGED <<issued, generation, records, surface, held, lost>>

\* createTexture in a state the GPU has to bring it to, also as the new texture
\* of an offscreen surface: the work owns it until it is published.
CreateInState ==
  \E r \in Free, old \in {{}} \cup {{t} : t \in records} : Submit("create", {r}, {r}, old, FALSE)

\* uploadTexture, readTexture, and executeRenderPass on such a texture.
Transfer == \E uses \in SUBSET records \ {{}} : Submit("transfer", uses, {}, {}, FALSE)

\* executeRenderPass on the current image, which may still have to be acquired.
Render ==
  /\ surface.swap_chain
  /\ \E sources \in SUBSET records :
       Submit("render", {surface.current_image} \cup sources, {}, {}, surface.acquire_pending)

\* presentSurface consumes an acquisition that no render pass has waited for.
Present ==
  /\ surface.swap_chain
  /\ IF surface.acquire_pending
     THEN Submit("present", {surface.current_image}, {}, {}, TRUE)
     ELSE /\ Polled
          /\ slot' = Empty
          /\ operation' = [NoOperation EXCEPT !.name = "present", !.pc = "queue"]
          /\ UNCHANGED <<issued, generation, records, terminal, surface, held, device>>

\* Mutant: the consumed acquisition is only noted when the wait succeeds.
StillPending_OnSuccess(succeeded) == surface.acquire_pending /\ ~(operation.waits /\ succeeded)

StillPending(succeeded) == surface.acquire_pending /\ ~operation.waits

\* Layout and acquisition of what was submitted, however the wait ends.
Submitted(succeeded) ==
  \E layouts \in
       CASE operation.name = "present" -> {surface.presentable \cup {surface.current_image}}
         [] operation.name = "render"  -> {surface.presentable \cup {surface.current_image},
                                           surface.presentable \ {surface.current_image}}
         [] OTHER                      -> {surface.presentable} :
    surface' = [surface EXCEPT !.presentable = layouts, !.acquire_pending = StillPending(succeeded)]

WaitSucceeds ==
  /\ operation.pc = "wait" /\ operation.work \notin InFlight
  /\ Submitted(TRUE)
  /\ records' = (records \ operation.old) \cup operation.owns
  /\ operation' = IF operation.name = "present"
                  THEN [NoOperation EXCEPT !.name = "present", !.pc = "queue"] ELSE NoOperation
  /\ UNCHANGED <<issued, generation, held, slot, terminal, device>>

\* A timeout, an error that may pass, or the loss of the device.
WaitFails ==
  /\ operation.pc = "wait"
  /\ Submitted(FALSE)
  /\ slot' = Work(operation.work, operation.owns)
  /\ terminal' \in {FALSE, lost}
  /\ operation' = NoOperation
  /\ UNCHANGED <<issued, generation, held, records, device>>

(***************************************************************************)
(* The swapchain.                                                          *)
(***************************************************************************)

\* createSwapchain borrows the first image.
CreateSwapchain(type) ==
  \E i \in Images :
    /\ surface' = [type |-> type, swap_chain |-> TRUE, current_image |-> i,
                   acquire_pending |-> TRUE, presentable |-> {}]
    /\ engine' = [lent |-> {i}, semaphore |-> "armed", missed |-> FALSE]

\* What createWindowSurface and createDirectDisplaySurface acquire, in this order:
\* the Wayland window, or the DRM card and its display, and the native surface.
Objects(type) ==
  CASE type = "window"  -> <<"window", "surface">>
    [] type = "display" -> <<"card", "display", "surface">>
    [] OTHER            -> <<>>
Held(type) == {Objects(type)[i] : i \in DOMAIN Objects(type)}

CreateSurface ==
  /\ Polled /\ surface = NoSurface
  /\ slot' = Empty
  /\ \E type \in {"window", "display"} :
       operation' = [NoOperation EXCEPT !.name = type, !.pc = "create"]
  /\ UNCHANGED <<issued, generation, records, terminal, surface, held, device>>

\* Mutant: what was acquired before the surface is left.
Rollback_SurfaceOnly(objects) == objects \ {"surface"}

\* Each failure takes back what was acquired: restoreDrmDisplay, destroyWindow.
Rollback(objects) == objects \ Held(operation.name)

Acquire ==
  /\ operation.pc = "create" /\ held # Held(operation.name)
  /\ \/ /\ \E i \in DOMAIN Objects(operation.name) :
            /\ held = {Objects(operation.name)[j] : j \in 1..(i - 1)}
            /\ held' = held \cup {Objects(operation.name)[i]}
        /\ UNCHANGED operation
     \/ /\ held' = Rollback(held)
        /\ operation' = NoOperation
  /\ UNCHANGED <<issued, generation, records, slot, terminal, surface, device>>

SurfaceCreated ==
  /\ operation.pc = "create" /\ held = Held(operation.name)
  /\ \/ CreateSwapchain(operation.name) /\ UNCHANGED held
     \/ held' = Rollback(held) /\ UNCHANGED <<surface, engine>>
  /\ operation' = NoOperation
  /\ UNCHANGED <<issued, generation, records, slot, terminal, running, lost>>

\* The calls that wait for the device before they release what it used: the
\* resize, the window modes and the events of a window, destroySurface, and
\* shutdown, which alone does not poll.
AwaitIdle(name) == operation' = [NoOperation EXCEPT !.name = name, !.pc = "device"]

Recreate ==
  /\ Polled /\ surface.type = "window"
  /\ slot' = Empty
  /\ AwaitIdle("recreate")
  /\ UNCHANGED <<issued, generation, records, terminal, surface, held, device>>

DestroySurface ==
  /\ Polled /\ surface # NoSurface
  /\ slot' = Empty
  /\ AwaitIdle("destroySurface")
  /\ UNCHANGED <<issued, generation, records, terminal, surface, held, device>>

Shutdown ==
  /\ Idle
  /\ AwaitIdle("shutdown")
  /\ UNCHANGED <<issued, generation, records, slot, terminal, surface, held, device>>

\* waitDeviceIdleForRelease.
DeviceIdle == running = {} \/ lost

At(name) == operation.name = name /\ operation.pc = "device" /\ DeviceIdle

\* A swapchain that cannot be made again leaves the surface without one.
Recreated ==
  /\ At("recreate")
  /\ \/ CreateSwapchain(surface.type)
     \/ surface' = [NoSurface EXCEPT !.type = surface.type] /\ engine' = NoEngine
  /\ operation' = NoOperation
  /\ UNCHANGED <<issued, generation, held, records, slot, terminal, running, lost>>

SurfaceDestroyed ==
  /\ At("destroySurface")
  /\ surface' = NoSurface /\ held' = {} /\ engine' = NoEngine
  /\ operation' = NoOperation
  /\ UNCHANGED <<issued, generation, records, slot, terminal, running, lost>>

ShutDown ==
  /\ At("shutdown")
  /\ generation' = 0 /\ records' = {} /\ slot' = Empty /\ terminal' = FALSE
  /\ surface' = NoSurface /\ held' = {} /\ operation' = NoOperation
  /\ running' = {} /\ lost' = FALSE /\ engine' = NoEngine
  /\ UNCHANGED issued

(***************************************************************************)
(* The rest of presentSurface.                                             *)
(***************************************************************************)
Queueing == operation.pc = "queue"

\* The texture was not left in Present state.
NotPresentable ==
  /\ Queueing /\ surface.current_image \notin surface.presentable
  /\ operation' = NoOperation
  /\ UNCHANGED <<issued, generation, records, slot, terminal, surface, held, device>>

Presentable == Queueing /\ surface.current_image \in surface.presentable

OutOfDate ==
  /\ Presentable /\ surface.type = "window"
  /\ AwaitIdle("recreate")
  /\ UNCHANGED <<issued, generation, records, slot, terminal, surface, held, device>>

\* The present, the wait for its queue or the next acquisition fails: the
\* current image stays the one that was given back, or not.
Missed ==
  /\ Presentable
  /\ \E lent \in {engine.lent, engine.lent \ {surface.current_image}} :
       engine' = [engine EXCEPT !.lent = lent, !.missed = TRUE]
  /\ operation' = NoOperation
  /\ UNCHANGED <<issued, generation, records, slot, terminal, surface, held, running, lost>>

\* Given back, and the next image borrowed.
Presented ==
  /\ Presentable
  /\ LET returned == engine.lent \ {surface.current_image} IN
     \E i \in Images \ returned :
       /\ engine' = [lent |-> returned \cup {i}, semaphore |-> Semaphore("free", "armed"), missed |-> FALSE]
       /\ surface' = [surface EXCEPT !.current_image = i, !.acquire_pending = TRUE]
  /\ operation' = NoOperation
  /\ UNCHANGED <<issued, generation, held, records, slot, terminal, running, lost>>

Next ==
  \/ Complete \/ DeviceLost
  \/ Initialize \/ Refused \/ LostFound
  \/ Create \/ Destroy \/ Replace
  \/ CreateInState \/ Transfer \/ Render \/ Present \/ WaitSucceeds \/ WaitFails
  \/ CreateSurface \/ Acquire \/ SurfaceCreated \/ Recreate \/ DestroySurface \/ Shutdown
  \/ Recreated \/ SurfaceDestroyed \/ ShutDown
  \/ NotPresentable \/ OutOfDate \/ Missed \/ Presented

Spec == Init /\ [][Next]_vars

-----------------------------------------------------------------------------
(***************************************************************************)
(* Properties.                                                             *)
(***************************************************************************)

\* What the GPU works on is held: its command buffer and fence by the call that
\* waits or by the slot, what it reads and writes by the maps, the swapchain or
\* the same owner (VulkanSubmission.h:33, OuiRenderer.md:251).
WorkRetained ==
  lost \/ \A r \in running :
    /\ r.work \in {operation.work, slot.work}
    /\ r.uses \subseteq records \cup operation.owns \cup slot.owns
                        \cup (IF surface.swap_chain THEN Images ELSE {})

\* The acquire semaphore is waited for once per acquisition and free when the
\* next one is asked for, whichever call consumed it and however its wait ended;
\* only an image that is lent is drawn on or presented, unless the last present
\* got no next image: presentSurface() (:3259) then leaves the image it has given
\* back current and in Present state, so a second call presents it again.
ImagesLent ==
  /\ engine.semaphore # "broken"
  /\ lost \/ engine.missed \/ \A r \in running : r.uses \cap Images \subseteq engine.lent
  /\ engine.missed \/ (Presentable => surface.current_image \in engine.lent)

\* Between calls a surface has all its native objects, and without one nothing is
\* left: no display is kept from the console, no window stays, whichever step of
\* the creation failed.
ObjectsHeld == operation = NoOperation => held = Held(surface.type)
=============================================================================
