-------------------------- MODULE D3D12Submission --------------------------
(***************************************************************************)
(* Command submission and fence waits of the Direct3D 12 renderer backend  *)
(* (platform/oui/win/renderer/D3D12RendererBackend.cpp) and the GPU queue  *)
(* it feeds.                                                               *)
(*                                                                         *)
(* The backend is driven by one thread; what runs beside it is the GPU,    *)
(* which works through the queue in order while that thread goes on, sleeps *)
(* in a wait, or gives up a wait at its timeout.  A submission is named by *)
(* the fence value signalled behind it, so the queue is the interval of    *)
(* the values the GPU has not reached.                                     *)
(*                                                                         *)
(* Two things cross between them: the owners of what a command list uses,  *)
(* which the backend keeps until it sees the fence, and one auto-reset     *)
(* event that every wait of the backend registers for its fence value.     *)
(***************************************************************************)
EXTENDS Integers

CONSTANTS Resources,      \* the native textures and buffers that are followed
          None,           \* what a present uses
          MaxFence,       \* bound on m_last_fence_value, the shutdown's own fence aside
          MaxGeneration   \* bound on the generations reserved, one per initialize

ASSUME NoneAssumption == None \notin Resources
ASSUME BoundsAssumption == MaxFence \in Nat /\ MaxGeneration \in Nat

VARIABLES
  issued,      \* RendererGenerationSource::m_last
  generation,  \* m_handle_generation, 0 while the backend is shut down
  last,        \* m_last_fence_value
  records,     \* the resources owned by m_textures and m_meshes
  pending,     \* m_pending_submissions: fence values, each with a retained resource
  fences,      \* fence handles returned to the application
  commands,    \* the command lists executed: fence value and resource used
  executed,    \* the GPU has finished everything in front of this fence value
  completed,   \* the fence value the GPU has signalled
  removed,     \* the device was removed: its work is abandoned
  registered,  \* fence values registered by SetEventOnCompletion, not reached yet
  event,       \* m_fence_event, an auto-reset event, is signalled
  call,        \* the call in progress, its step and the fence value it waits for
  result       \* what the last wait answered

backend == <<issued, generation, last, records, pending, fences>>
gpu == <<executed, completed, removed>>
vars == <<backend, commands, gpu, registered, event, call, result>>

NoCall == [op |-> "none", pc |-> "idle", value |-> 0]
NoResult == [status |-> "none", value |-> 0, generation |-> 0]

Init ==
  /\ issued = 0 /\ generation = 0 /\ last = 0 /\ records = {} /\ pending = {} /\ fences = {}
  /\ commands = {} /\ executed = 0 /\ completed = 0 /\ removed = FALSE
  /\ registered = {} /\ event = FALSE
  /\ call = NoCall /\ result = NoResult

(***************************************************************************)
(* The GPU.  GetCompletedValue answers the largest value of the type once  *)
(* the device is removed, and every registered event is then signalled.    *)
(***************************************************************************)

CompletedValue == IF removed THEN MaxFence + 1 ELSE completed

GpuExecute ==
  /\ ~removed /\ generation # 0
  /\ executed = completed /\ executed < last
  /\ executed' = executed + 1
  /\ UNCHANGED <<backend, commands, completed, removed, registered, event, call, result>>

GpuSignal ==
  /\ ~removed /\ completed < executed
  /\ completed' = executed
  /\ registered' = {v \in registered : v > executed}
  /\ event' = (event \/ registered' # registered)
  /\ UNCHANGED <<backend, commands, executed, removed, call, result>>

Remove ==
  /\ removed' = TRUE
  /\ registered' = {}
  /\ event' = (event \/ registered # {})

DeviceRemoved ==
  /\ ~removed /\ generation # 0
  /\ Remove
  /\ UNCHANGED <<backend, commands, executed, completed, call, result>>

(***************************************************************************)
(* Initialization: the device, the fence at zero and an unsignalled event. *)
(* A failed one has used up its generation.                                *)
(***************************************************************************)

Initialize ==
  /\ generation = 0 /\ issued < MaxGeneration
  /\ issued' = issued + 1
  /\ generation' \in {0, issued'}
  /\ UNCHANGED <<last, records, pending, fences, commands, gpu, registered, event, call, result>>

(***************************************************************************)
(* Submission.                                                             *)
(***************************************************************************)

\* The backend is idle and the bound leaves room for one more fence.
Idle == generation # 0 /\ call = NoCall
Room == last < MaxFence

\* Mutant: the completed value is taken for the next one to complete.
Collect_Early(submissions, value) == {p \in submissions : p.value > value + 1}

\* collectCompletedSubmissions: a submission is kept until its fence is seen.
Collect(submissions, value) == {p \in submissions : p.value > value}

Record(value, resource) == [value |-> value, resource |-> resource]

\* A resource nobody holds any more, for a new allocation.
Free == Resources \ (records \union {p.resource : p \in pending})

\* createTexture and createMesh.
Create ==
  /\ Idle
  /\ \E r \in Free : records' = records \union {r}
  /\ UNCHANGED <<issued, generation, last, pending, fences, commands, gpu, registered, event, call, result>>

\* destroyTexture and destroyMesh: the map's own reference goes at once.
Destroy ==
  /\ Idle
  /\ \E r \in records : records' = records \ {r}
  /\ UNCHANGED <<issued, generation, last, pending, fences, commands, gpu, registered, event, call, result>>

\* updateMesh: new buffers behind the old handle.
Replace ==
  /\ Idle
  /\ \E r \in records, n \in Free : records' = (records \ {r}) \union {n}
  /\ UNCHANGED <<issued, generation, last, pending, fences, commands, gpu, registered, event, call, result>>

\* Execute a command list that uses a resource, signal the next fence value
\* behind it and keep its owners until the fence is seen.
Submit ==
  /\ ~removed
  /\ last' = last + 1
  /\ \E r \in records :
       /\ commands' = commands \union {Record(last', r)}
       /\ pending' = Collect(pending \union {Record(last', r)}, CompletedValue)
  /\ UNCHANGED <<issued, generation, records, gpu, registered, event>>

\* Present the back buffer, with a fence and a record that owns nothing.
Present ==
  /\ Idle /\ Room /\ ~removed
  /\ last' = last + 1
  /\ pending' = Collect(pending \union {Record(last', None)}, CompletedValue)
  /\ fences' = fences \union {[value |-> last', generation |-> generation]}
  /\ UNCHANGED <<issued, generation, records, commands, gpu, registered, event, call, result>>

\* uploadTexture and executeRenderPass: one submission, its fence returned.
Render ==
  /\ Idle /\ Room
  /\ Submit
  /\ fences' = fences \union {[value |-> last', generation |-> generation]}
  /\ UNCHANGED <<call, result>>

\* The same calls when the device is lost before the Signal: the value is
\* used up and the call fails.
SignalFails ==
  /\ Idle /\ Room
  /\ last' = last + 1
  /\ Remove
  /\ UNCHANGED <<issued, generation, records, pending, fences, commands, executed, completed, call, result>>

(***************************************************************************)
(* The calls that wait.                                                    *)
(***************************************************************************)

Await(op, value) == call' = [op |-> op, pc |-> "check", value |-> value]

Answer(status) ==
  /\ call' = NoCall
  /\ result' = [status |-> status, value |-> call.value, generation |-> generation]

\* Only a handle of this generation, signalled since, is waited for.
WaitFence ==
  /\ Idle
  /\ \E f \in fences :
       /\ f.generation = generation /\ f.value <= last
       /\ Await("waitFence", f.value)
  /\ UNCHANGED <<backend, commands, gpu, registered, event, result>>

\* readTexture: submit the copy to the readback buffer and wait for it.
ReadTexture ==
  /\ Idle /\ Room
  /\ Submit
  /\ Await("readTexture", last')
  /\ UNCHANGED <<fences, result>>

\* waitForGpuIdle, in front of every surface transition and resize.
WaitForGpuIdle ==
  /\ Idle /\ Room /\ ~removed
  /\ last' = last + 1
  /\ Await("waitForGpuIdle", last')
  /\ UNCHANGED <<issued, generation, records, pending, fences, commands, gpu, registered, event, result>>

\* shutdown: a last fence is waited for when it can be signalled.
ShutdownBegin ==
  /\ Idle
  /\ last' = last + 1
  /\ IF removed THEN call' = [op |-> "shutdown", pc |-> "release", value |-> last']
     ELSE Await("shutdown", last')
  /\ UNCHANGED <<issued, generation, records, pending, fences, commands, gpu, registered, event, result>>

(***************************************************************************)
(* waitFenceValue.  A wait that succeeds collects what has completed; one  *)
(* that fails answers at once, and shutdown goes on whatever was answered. *)
(***************************************************************************)

Finish(status) ==
  \/ /\ call.op = "shutdown"
     /\ call' = [call EXCEPT !.pc = "release"]
     /\ UNCHANGED result
  \/ /\ call.op # "shutdown"
     /\ Answer(status)

Succeed ==
  /\ pending' = Collect(pending, CompletedValue)
  /\ Finish("success")
  /\ UNCHANGED <<issued, generation, last, records, fences, commands, gpu>>

WaitCheck ==
  /\ call.pc = "check"
  /\ \/ /\ CompletedValue >= call.value
        /\ Succeed
     \/ /\ CompletedValue < call.value
        /\ call' = [call EXCEPT !.pc = "register"]
        /\ UNCHANGED <<backend, commands, gpu, result>>
  /\ UNCHANGED <<registered, event>>

\* SetEventOnCompletion signals at once when the value was reached meanwhile.
WaitRegister ==
  /\ call.pc = "register"
  /\ \/ /\ call' = [call EXCEPT !.pc = "sleep"]
        /\ IF CompletedValue >= call.value
           THEN event' = TRUE /\ UNCHANGED registered
           ELSE registered' = registered \union {call.value} /\ UNCHANGED event
        /\ UNCHANGED result
     \/ removed /\ Finish("failure") /\ UNCHANGED <<registered, event>>
  /\ UNCHANGED <<backend, commands, gpu>>

WaitWoken ==
  /\ call.pc = "sleep" /\ event
  /\ event' = FALSE
  /\ Succeed
  /\ UNCHANGED registered

\* The timeout of WaitForSingleObject: the registration stays behind.
WaitTimeout ==
  /\ call.pc = "sleep" /\ ~event
  /\ Finish("timeout")
  /\ UNCHANGED <<backend, commands, gpu, registered, event>>

\* shutdown drops every owner, the fence, the event and the device.
ShutdownRelease ==
  /\ call.pc = "release"
  /\ generation' = 0 /\ last' = 0 /\ records' = {} /\ pending' = {}
  /\ commands' = {} /\ executed' = 0 /\ completed' = 0 /\ removed' = FALSE
  /\ registered' = {} /\ event' = FALSE
  /\ call' = NoCall
  /\ UNCHANGED <<issued, fences, result>>

Next ==
  \/ GpuExecute \/ GpuSignal \/ DeviceRemoved
  \/ Initialize \/ Create \/ Destroy \/ Replace \/ Present \/ Render \/ SignalFails
  \/ WaitFence \/ ReadTexture \/ WaitForGpuIdle \/ ShutdownBegin
  \/ WaitCheck \/ WaitRegister \/ WaitWoken \/ WaitTimeout \/ ShutdownRelease

Spec == Init /\ [][Next]_vars

(***************************************************************************)
(* Properties.                                                             *)
(***************************************************************************)

\* What the GPU has not finished is held by the backend: the command list in
\* its own pending record, the resource it uses by the maps or by a record,
\* whatever was destroyed, replaced, collected or given up meanwhile
\* (m_pending_submissions, destroyTexture, updateMesh).
RetainedUntilDone ==
  removed \/ \A c \in commands : c.value > executed =>
    /\ \E p \in pending : p.value = c.value
    /\ c.resource \in records \union {p.resource : p \in pending}

\* A wait that answers success means the fence was reached: what the
\* application, readTexture and the surface transitions rely on before they
\* touch what the GPU was writing.
WaitMeansComplete ==
  result.status = "success" /\ result.generation = generation
    => CompletedValue >= result.value

=============================================================================
