# WonderStewEngine: verification project

TLA+ models of WonderStewEngine (a suite of C++17 libraries: Core, XPT, Tmr,
OUI, IUI, GEF and their language bindings), model-checked with TLC on small
instances and, where it pays, proved with TLAPS for every value of the
constants. Paths below are relative to `src/`.

The suite is a set of libraries, not one program: a component owns its threads,
its locks and its native handles, and an application drives it through public
calls. What is hard in it is therefore what happens *inside* one object when a
worker thread, a callback and the calls of its owner interleave, when a native
call fails or throws half way, and when an operation is repeated after it
failed. That is what the modules model; record formats, pixel conversion,
parsing and drawing are not.

## 1. Inventory

### Core (`core/wse`, `api/wse`, `platform/wse`)

| Part | State | Operations | Hard behaviour | What makes it correct |
| --- | --- | --- | --- | --- |
| AsyncLogRuntime (`core/wse/utility/AsyncLogRuntime.cpp`) | queue of records and barriers, settings, counters, retained failure, writer thread, two mutexes, one condition variable | `tryAppend`, `configure`, `flush`, `stop`, `status` | producers, writer and control threads interleave; the writer reads the settings without the lock; failures of the writer, of allocation and of thread start | nothing accepted is lost or reordered; settings change only while the writer is idle; a failure is retained; every caller returns |
| Synchronous log (`wse_Log.cpp`) | minimum level, tag profiles and sink registry under a state mutex, an output mutex, a thread-local dispatch flag | `writeLog`, the Logger stream, `registerLogSink`, `unregisterLogSink`, `setMinimumLogLevel` | a sink taken in a snapshot runs after it was unregistered; sinks write and re-enter the registry; outputs and sinks throw | a sink survives its use and no longer; no thread re-enters a sink, and none is cut off from them |
| WorkerController (`wse_WorkerController.cpp`) | thread handle, running flag, stop flag, worker id, mutex, condition variable | `start`, `requestStop`, `stop`, `waitFor`, queries | start and stop overlap the end of the worker; a worker stops itself | at most one worker; the join comes back; no stale thread handle |
| Timer (`wse_Timer.cpp`) | interval, callback, controller | `start`, `stop`, configuration | the callback stops its own timer; a new start races the end of the last run | no invocation after `stop()` returned; no overlapping invocations |
| Waits (`wse_Wait.cpp`), binding runtime (`core/wse/binding/Runtime.cpp`) | none, or a shared flag | waits in slices of 5 ms | cancellation racing a timeout | bounded |
| Data types (`core/wse/data`), casts (`wse_DataCast.cpp`), Result | values | arithmetic and conversion | width and range | exactness |
| License (`core/wse/license`) | component/licence tables | queries | none | – |
| DevicePickup (`platform/wse`) | none | enumeration of OS devices | I/O | – |

### XPT, transport (`core/xpt`, `platform/xpt`)

| Part | State | Operations | Hard behaviour | What makes it correct |
| --- | --- | --- | --- | --- |
| RetryPolicy (`core/xpt/retry/RetryPolicy.cpp`) | none (pure) | `calculateDelay`, `evaluate` | doubling a delay without overflow; which failure of which method may be repeated | the delay is monotone and saturates at its maximum; no attempt beyond the limit, none that was not authorized |
| OperationContext, Timeout, Cancellation | a timeout, a shared flag | construction, `cancel` | cancellation and deadline race the operation | an operation that was cancelled or is late stops, and says which |
| TcpClient, UdpClient, HttpClient, SerialPort | a handle, a state, a buffer | open/connect, read, write, close | partial reads and writes, timeouts, cancellation, a failed connect that must leave no handle | no handle leaks; a failed call leaves a reusable object |

### Tmr, cameras (`core/tmr`, `platform/tmr`)

| Part | State | Operations | Hard behaviour | What makes it correct |
| --- | --- | --- | --- | --- |
| CameraSession (`core/tmr/camera/Camera.cpp`) | shared backend, callback state, callback thread | `open`, `start`, `start(callback)`, `readFrame`, `stop`, `close`, destruction | the callback stops, closes or destroys its own session while the owner does the same; native start/stop fail or throw | one reader at a time; native stop never overlaps a read; no delivery after the owner's `stop()`; every worker is joined |
| CameraOwnerThread (`CameraOwnerThread.h`) | one task slot, ready/stop flags | `invoke`, construction, destruction | many callers share one slot | a call runs once, on the owner thread |
| V4L2 backend (`platform/tmr/linux/camera/V4L2CameraBackend.cpp`) | descriptor, mapped buffers, queue ownership, streaming flag | open, start, stop, read, close | a failed QBUF or STREAMON leaves the queue dirty; a leased buffer must go back exactly once | the queue is clean or the descriptor closed |
| libcamera backend (`LibcameraCameraBackend.cpp`, `LibcameraResources.h`) | requests, completion ring, the native stop that is owed, disconnection and callback failure | the same | completions and a disconnection race the reader and stop; native stop, release and re-queue fail | no request freed while the pipeline may complete it; what is owed is done or the camera closed |
| Media Foundation, DirectShow backends (`MediaFoundationCameraBackend.cpp`, `MediaFoundationReadState.h`, `DirectShowRawCapture.cpp`) | source reader and its callback state, or a graph and its newest frame | the same | an asynchronous flush that answers late or never; callbacks race stop and close | a late answer of one stream is never taken for the next one's |
| WebCamera facade, frame operations | one session, tables; values | forwarding; pixel conversion | none; numeric | – |

### OUI, IUI, GEF, bindings

| Part | State | Operations | Hard behaviour | What makes it correct |
| --- | --- | --- | --- | --- |
| Renderer facade, projection (`core/oui/renderer`) | a backend, handle generations | validation and forwarding | handles outlive the backend that made them | a stale handle is refused |
| D3D12 backend (`platform/oui/win/renderer/D3D12RendererBackend.cpp`) | resource maps, last fence value, pending submissions, one fence event | initialise, create, submit, present, `waitFence`, `readTexture`, shutdown | the GPU runs behind the calls; waits time out; the device is lost; resources are destroyed while in use | what the GPU uses stays owned; a successful wait means the fence was reached |
| D3D12 surfaces (the same file, `Win32WindowTransition.cpp`) | window, swap chain, textures, the display taken, events | create, resize, window and display modes, poll, destroy | a transition is a chain of native calls, each may fail, so may the undoing; the user resizes and closes meanwhile | a failed transition is undone or reported; a display taken is given back |
| Vulkan backend (`platform/oui/linux/renderer/VulkanRendererBackend.cpp`) | one pending submission, swap chain images, terminal error, native objects of a window or display | submissions, surfaces, present, shutdown | timeouts, device loss, out-of-date swap chains, a surface that fails half way | no transient is freed before its fence; only acquired images are presented |
| Wayland windows, display enumeration | native objects | native calls | none of their own | – |
| Keyboard (`platform/iui/*/device/Keyboard.cpp`) | key state, callback, worker, descriptors and the countdown to the next scan | construction, copy, move, `setCallback`, `clearCallback`, `isReleasedAllKey` | a copy replaces state and callback of a running monitor; devices come and go; the callback waits for the scan it holds up | what is reported was read; no descriptor outlives its monitor; a device is found again |
| GEF bin/csv controllers | file, cursor, pending content | read, write, append, seek | none: one caller, a file is replaced by one rename | old content or new content |
| Node.js binding (`lang/js/native/addon.cpp`) | operations, their workers and thread-safe functions, promises | `wait`, `runAfter`, `copyFrame`, cancel and close, finalizers, the cleanup hook | workers outlive the environment; either side gives the function back | nothing is deleted under a worker; every promise settles |
| C ABI, C#, Java, Python bindings (`lang`, `api/wse/capi`) | handles, callbacks | forwarding | callback lifetime across runtimes | terminal release exactly once |
| Bootstrap, build and release tools (`bootstrap.py`, `cmake`, `tools`, `script`) | files | fetch, build, package | none at run time | – |

How they interact: every module above Core reports through Result types and
uses the waits and the WorkerController of Core (Timer and Keyboard own one
each). A CameraSession owns one ICameraBackend, which the platform supplies:
V4L2 or libcamera on Linux, Media Foundation or DirectShow on Windows, where a
CameraOwnerThread owns it. HttpClient asks RetryPolicy after each attempt; the
four transports share the timeout, the cancellation token and the rule which of
them wins. The Renderer facade validates and forwards to the D3D12 or the Vulkan
backend, which own surfaces and submissions. The bindings call the same objects
from the threads of their runtimes and add a table of handles and the lifetime
of callbacks; the Node.js addon adds workers of its own.

The hazards of each part, at the lines where they bite, are the `hazards` of
`PROJECT.json`, with the properties that cover them.

## 2. Modules

| Module | Models | Remarks |
| --- | --- | --- |
| `AsyncLogRuntime` | `AsyncLogRuntime.cpp` | one action per critical section of `Impl::mutex`; `asleep` is the condition variable |
| `AsyncLogChannel` | what the runtime promises to its producers | abstract, implemented by `AsyncLogRuntime` |
| `AsyncLogInvariant`, `AsyncLogRuntime_proofs`, `MCAsyncLog` | the inductive invariant, the theorems, the symmetry for TLC | |
| `LogRegistry`, `LogRegistry_proofs` | the synchronous log of `wse_Log.cpp` | snapshots of sinks, nested writes, exceptions |
| `WorkerController` | `wse_WorkerController.cpp` | worker *w* is the *w*-th thread launched |
| `Timer` | `wse_Timer.cpp` | composes `WorkerController` |
| `Keyboard` | both `Keyboard.cpp` | composes `WorkerController` |
| `CameraOwnerThread`, `OwnerCalls` | `CameraOwnerThread.h` and the calls it promises | detailed, abstract |
| `NodeOperations`, `NodeOperations_proofs` | `lang/js/native/addon.cpp` | the operations of one environment |
| `Workers`, `Workers_proofs` | the controller, the timer, the keyboard, the owner thread, the addon and the synchronous log side by side | what every caller of a worker relies on, stated once |
| `CameraBackend` | the contract of `ICameraBackend` | operators, shared by the session and the adapters |
| `CameraSession`, `CameraSession_proofs` | `Camera.cpp` | owner, workers, callbacks, native calls that fail or throw |
| `CameraAdapter` | the calls of an adapter as the session makes them | shared by the three below |
| `V4L2CameraBackend`, `LibcameraCameraBackend`, `MediaFoundationCameraBackend` | the four adapters (the last has DirectShow too) | one step per native call, driver and pipeline external |
| `CameraAdapters`, `LibcameraSession` | the adapters side by side; one of them under the stop of the session | |
| `Transport` | state, timeout and token of a transport's call, which outcome wins | shared by the three below |
| `TcpClient`, `UdpClient`, `SerialPort` | the clients, on Windows and POSIX | sockets and line external |
| `RetryPolicy`, `HttpClient` | `RetryPolicy.cpp`, `execute` of `HttpClient.cpp` | words of finite width; libcurl external |
| `Transports`, `Devices`, `Devices_proofs` | the four transports; transports and adapters side by side | |
| `D3D12Submission` | submission, fences and waits of `D3D12RendererBackend.cpp` | GPU, fence and event external |
| `D3D12Surface`, `D3D12Surface_proofs` | surfaces and window transitions of the same file | every native call may fail |
| `VulkanSubmission` | the pending slot, the swapchain and the release of surfaces of `VulkanRendererBackend.cpp` | GPU and presentation engine external |
| `Renderers`, `Renderers_proofs` | the three above side by side | |

`Workers`, `Devices` and `Renderers` are sums: a behaviour is one of their
components, chosen in the initial state, and the others stand still. What
several components owe their callers (a call returns, a native handle has an
owner, nothing is used after its end) is then one property over all of them, and
the constants are shared. `Workers_proofs`, `Renderers_proofs` and
`Devices_proofs` prove what the sums promise; the other theorems are about a
component's own specification, and those the sums rest on are instantiated
there.

State and names follow the code where TLA+ allows it; `PROJECT.json` maps each
definition to its lines. The type invariant of a module inside a sum is a
conjunct of an invariant the sum checks (`WorkersTypeOK` of `Lifetimes`, for
instance). A definition `X_Y` is `X` with a fault named `Y`; no specification
uses it, it is what the properties were tried on.

### AsyncLogRuntime

`queue`, `settings`, `status` and `writerFailed` are the members of `Impl`;
`control` is the mutex that serializes `configure`, `flush` and `stop`; `call`
is where each control thread stands. Records are numbered in order of
acceptance and `ledger` remembers what became of each: it is a history, read by
no action. The writer takes an entry under the lock and works on it without it
(`wpc = "busy"`). Allocation, thread start and output fail at any point they may
throw at. A sink that logs from the writer is refused, as in the code.

### LogRegistry

`writes` holds for each thread the writes it is in, innermost last: a sink that
logs is one write within another. `log_sinks` is the registry, the snapshot of a
write its own sequence; `destroyed` are the sinks whose last reference is gone.
`dispatching` is the thread-local flag, set and cleared where the code does. The
application registers a sink and gives its reference away, so that registry and
snapshots are all that keeps it. A sink's destructor does not log.

### WorkerController, Timer and Keyboard

`thread` is the worker `m_thread` holds, so that "joinable" is `thread # 0`;
`start` and `stop` are split at the join, which happens outside the lock. A body
may call `requestStop` and `stop` on its own controller. `Timer` adds
`Impl::mutex`, held over the launch, and says for every interval and callback
which session installed it; it is moved and destroyed too. The application
serializes its own calls on one timer, as `doc/design/en/CoreServices.md:88`
asks; the callback does not take part in that.

`Keyboard` has two implementations, chosen by `windows`. The state of the keys
is the set of devices with a key down; `open`, `stale`, `ticks` and `probed` are
what the Linux monitor keeps in its frame. The other object of a copy or a move
is the state it brings, or the stop it suffers. Devices are plugged, unplugged
and refuse to be opened.

### CameraOwnerThread and OwnerCalls

`m_task` is the one slot, naming an invocation whose caller stands in `invoke`:
a slot that names a caller who has left would be a task of a dead frame. The
body of a call may throw. `OwnerCalls` says that each call runs once, on the
owner, between its invocation and its return.

### NodeOperations

`operation` is the table entry of each timer, wait or frame copy, with its
worker's place; `function` the thread-safe function with what it has queued,
its references and whether it was aborted; `promise` what JavaScript sees;
`turn` what the event loop runs. Cancel, close, both finalizers and the cleanup
hook are actions of the loop, split where they join a worker. The environment
closes its own functions when it goes away, which is how Node.js documents it.

### CameraSession

Actor 0 is the owner, actor *s* the worker of the *s*-th callback stream. A call
is a sequence of the steps between which another actor can act: flag, lock,
native call, publication, join. Native calls may fail and may throw, and the
callback may stop, close, restart or destroy the session it runs under. The
application serializes its calls, with the exception the documentation makes for
`stop` from the callback (`doc/design/en/TmrCamera.md:253`).

### The camera adapters

In `V4L2CameraBackend` each buffer is mapped or not, and held by the driver, by
a read or by nobody. Every `ioctl`, `poll`, `mmap` and allocation may fail; a
failing dequeue may have consumed a buffer. Time is a bounded number of ticks,
and `IntMax` is the largest wait one `poll` can express.

In `LibcameraCameraBackend` the pipeline completes or cancels a queued request at
any moment, the ring of completions is what the reader waits on, and the native
stop, the release and the re-queue may fail and stay owed. The disconnection of
the camera and a failing completion callback are steps of the pipeline's thread.

`MediaFoundationCameraBackend` has the read state the callbacks of the source
reader share (sample, flush, stream number) and the newest-frame slot of the
DirectShow graph. A flush answers in time, late, or never.

### The transports

`Transport` has the deadline, the token and the order in which an outcome is
decided; the clients have one step per native call. `TcpClient.connect` goes
through its addresses; `SerialPort` has the overlapped read that outlives its
call on Windows, and the buffer it writes to; `UdpClient.sendTo` opens a socket of
its own accord. A byte is a number: whether each was moved once, in order, and
counted is what `TransferExact` looks at.

The words of `RetryPolicy` are small but of finite width, so that doubling and
the conversion to clock ticks overflow as they do in 64 bits. `HttpClient` has
one call, a clock that goes on between any two steps, and a transfer that may end
at any time with any outcome, or never.

### The renderers

In `D3D12Submission` a submission is named by the fence value signalled behind
it; `executed` and `completed` say how far the GPU is. `records` are the native
resources of `m_textures` and `m_meshes`, `pending` is `m_pending_submissions`. A
wait checks the fence, registers for it on the one event of the backend and
sleeps, three steps between which the GPU goes on. `event` is auto-reset: a wait
that wakes takes it back.

`D3D12Surface` has one surface: window, swapchain and textures with their
extents, the mode, the display taken, and what the events have left to report.
One thread drives the backend, so that a public call is one action: it takes one
of the outcomes its chain of native calls allows, of which any may fail, those
that undo included. The user resizes and closes the window between calls.

In `VulkanSubmission` a submission belongs to the call that waits for it or to the
one pending slot. Swapchain images are acquired, drawn on, queued for
presentation and given back by the engine. The application draws on the current
texture, as `doc/design/en/OuiRenderer.md:287` says; `missed` remembers that the
last acquisition failed, so that the stale image
(`VulkanRendererBackend.cpp:3259`) is told from a lent one.

## 3. Runs

| Run | Bounds | Shows |
| --- | --- | --- |
| `asynclog_safety` | 2 control threads, 1 producer, 2 submissions, 2 configurations, capacities 1 and 2 | accounting, isolation of settings, quiet after stop, the first failure retained, what a success covers, the refinement of `AsyncLogChannel` |
| `asynclog_liveness` | 2 control threads, 1 producer, 2 submissions | no lost wakeup: operations return, accepted records settle |
| `workers` | 2 threads, 3 workers; one device, 2 monitors; 3 callers of 2 calls; one timer, one wait and one copy of the addon; 2 sinks | one body at a time, each thread joined once, nothing of one session reaches another, stops are complete, objects outlive their users, calls return, an unplugged device is found again, the refinement of `OwnerCalls` |
| `camera_session` | 2 streams over 2 backends | native calls do not overlap, nothing is delivered after `stop`, no object used after its end, no orphan, a throwing start undone, `stop` returns |
| `devices` | transports: 2 bytes or datagrams, 2 addresses, timeouts of 2 ticks; HTTP: 3 attempts, timeouts 0, 2 and 7, delays 0, 2 and 3; 3 buffers or requests, polls of 1 | who owns each handle and frame buffer, which bytes were moved, cancellation and retries, the contract of `CameraBackend`, every call returns |
| `renderers` | 2 fences in each of 2 generations; 2 Vulkan submissions over 2 images; 2 resources; 2 displays, 2 extents, one failing surface call | what the GPU has not finished is owned, images are used while lent, failed transitions are undone, a display is given back |
| `node_close`, `libcamera_stop`, `http_deadline`, `tcp_refused`, `d3d12_wait`, `d3d12_resize` | as small as the case needs | the findings below |

Why the bounds are enough: two of each actor give every pairwise race, and the
bounds on repetition (configurations, launches, streams, calls, attempts,
fences, generations) leave room for one full use followed by another one that
could meet what the first left behind. The run of the async log exhausts its
queue at capacity 1, and meets both the full and the empty queue; 3 buffers are
one more than the minimum V4L2 accepts; 3 attempts are needed to see a delay
double and saturate; two fences and one timeout are what a stale event needs; two
addresses are what a failed candidate needs to leave something behind. Three
cases were also checked at larger sizes on their own: the addon with two timers, of
which one closes the other, and the surfaces with two failing calls, and with
any number of them on one display. The theorems of section 5 need no bound.

`MaxFailures` limits how many surface calls of a behaviour fail, not how many
native calls fail within one. Deadlock is checked except where the model's
bounded generations end: in the runs of the renderers (`renderers`, `d3d12_wait`,
`d3d12_resize`). Where another system may end, an explicit final step marks it.

### Fairness

Liveness is checked under weak fairness of each thread's own steps: the
scheduler runs every thread, a mutex is not held for ever, and a notified thread
wakes. In a sum the steps of the same thread in different components are one
fairness condition, since only one component is there. The clock ticks in the
devices. Strong fairness is used for three things: a user callback that is
entered again and again returns (`CallbackReturns`, `CallbackEnds`), a worker that
stands at its exit leaves (`WorkerExit`), and a scan for devices that is tried
again and again succeeds at times (`Scan`). No `join` and no native call is
assumed to succeed; it only ends. That a camera session is opened or a frame is
read again, that the application calls anything, and the GPU get no fairness;
neither does the bare controller, whose body may run for ever, nor the log.

Not assumed, and so not shown: that a control thread waiting for the control
mutex of the async log gets it (a `std::mutex` is not fair; `ControlReturns`
speaks of the holder), and that a user callback which blocks for ever lets `stop`
return (it does not, by design).

## 4. Findings

* `node_close`: a worker of the Node.js addon that saw the end of its wait before
  `close()` cancelled it queues its call all the same, and nothing aborts the
  function: the callback is called after `close()` returned.
* `libcamera_stop`: after a start or a read failed in the libcamera adapter,
  `CameraSession::stop` answers success without reaching the adapter, because
  `isStreaming()` is already false; the native stop stays owed and every later
  start is refused until `close`. The documentation says that a successful
  `stop` cleans up.
* `http_deadline`: with a retry delay of zero, the deadline is not looked at
  between attempts. An attempt that ended at the overall deadline is repeated
  until the attempt limit, although the deadline is documented to include all
  attempts.
* `tcp_refused`: on Windows `select` is given no exception set, where alone
  WinSock reports a connect that failed. A refused candidate is waited for until
  the deadline, and the addresses behind it are not tried.
* `d3d12_wait`: all fence waits share one auto-reset event. A wait that timed
  out, a poll for instance, leaves its registration; the old fence then wakes the
  next wait, which answers success for a fence that was not reached. `readTexture`
  returns pixels of an unfinished copy, and a resize goes on while the GPU draws.
* `d3d12_resize`: a window the user resized that goes fullscreen and back before
  its events are polled loses the event: window and buffers disagree, and
  nothing will say so.

Also seen while modelling, and without a run of their own. In the models:

* `WorkerController::start` leaves `m_running` set when the thread cannot be
  constructed (`wse_WorkerController.cpp:67`, against "True while the body runs.",
  `wse_WorkerController.h:86`), so that later starts are refused.
* `calculateDeadline` converts a timeout to clock ticks before the comparison that
  is to saturate it (`HttpClient.cpp:199`): the largest timeouts overflow.
* On Vulkan a failed acquire leaves the presented image current; drawing on it and
  presenting again is accepted (`VulkanRendererBackend.cpp:3259`, and `:3303`
  accepts the final state Present for any texture a surface owns).
* On D3D12, after lost buffers, `resizeSurface` to the old extent answers success
  without buffers; `presentSurface` (`:3134`) then indexes an empty array. A
  failing `GetDesc1` (`:2599`) loses the textures without a rollback. A window
  closed by its user while it holds a
  display can no longer be destroyed by `destroySurface`.
* The handler of a throwing keyboard callback clears the callback that replaced it
  meanwhile (`Keyboard.cpp:477`).

Outside the models:

* A second `start(callback)` on a streaming camera is refused, but the Node.js,
  Java and Python bindings first drop the running stream's callback
  (`tmr_addon.cpp:823`, `jni.cpp:1259`, `module.cpp`). The Node.js camera's queue of
  four is filled without blocking, and the terminal error may be what is dropped
  (`tmr_addon.cpp:837`).
* Two Java timers whose callbacks close each other wait for each other.
* `unregisterLogSink` may run a sink's destructor under the state mutex; a
  destructor that logs would lock it again.

## 5. Proofs

Each proof module has one inductive invariant, the theorem that it is one, and
the theorems that follow. The invariants were checked by TLC first.

| Module | Inductive invariant | Theorems |
| --- | --- | --- |
| `AsyncLogRuntime_proofs` | fourteen conjuncts, below | `TypeCorrect`, `Conserved`, `Bounded`, `Isolated`, `Quiet`, `Retains`, `NoSwap`, `SuccessReports`, and `Refinement` of `AsyncLogChannel` |
| `LogRegistry_proofs` | `LogTypeOK`, `Nesting` (a write within another stands before its dispatch), `Flagged` (the flag says that the outer one is dispatching), `Referents` (what the registry or a snapshot names is there) | `SinksOutliveCallsAlways`, `NotReenteredAlways` |
| `NodeOperations_proofs` | `NodeTypeOK`, `WorkersOutlived`, `FunctionHeld` (a timer's worker holds its function), `Found` (the hook finds every worker), `PoolApart` (the pool calls no function) | `NodeTypeCorrect`, `WorkersOutlivedAlways` |
| `Workers_proofs` | `WorkersInv`: the invariants of the controller, of the timer and of the keyboard, `OwnerInv` of the owner thread (slot, owner and caller agree whether the task has run), and the two above | `OneBodyAlways`, `HandleOwnedAlways`, `OwnSettingsAlways`, `LifetimesAlways`, `WorkersOutlivedAlways`, `SinksSoundAlways`, `StopRespectedAlways`, `StopIsCompleteAlways`, `ImplementsCallsAlways`, all of `Workers` |
| `CameraSession_proofs` | `TypeOK`, `Positions`, `CallsOfWorkers`, `WorkersOrdered`, `CallsOfOwner`, `Locks`, `BackendOwned`: where each actor can stand, given who holds the handle and the backend mutex | `OneWorkerAlways`, `NativeSerializedAlways`, `LifetimesAlways`, `QuietAfterStopAlways`, `ThrowRollsBackAlways` |
| `D3D12Surface_proofs` | the record is well formed and `Consistent`, each display keeps an extent | `BuffersMatchAlways`, `UndoneAlways`, `DisplayHeldAlways` |
| `Renderers_proofs` | `RenderersInv`: `D3D12Inv`, `VulkanInv` or a Vulkan backend that stands still, and the one above | `RetainedAlways`, `WorkRetainedAlways`, `ImagesLentAlways`, `SurfacesSoundAlways`, `TransitionsUndoneAlways`, `DisplayHeldAlways`, all of `Renderers` |
| `Devices_proofs` | `DevicesInv`: `TcpInv`, `UdpInv`, `SerialInv` or `HttpInv`, whichever transport is there | `NativeOwnedAlways`, `TransferExactAlways`, `CancelHeededAlways`, `OwnerKeptAlways`, `RetryAuthorizedAlways`, all of `Devices`; `DelayDocumented` of `RetryPolicy` |
| the same | `CamerasInv`: `V4L2Inv`, `LibcameraInv` or `WindowsInv`, whichever adapter is there | `FramesOwnedAlways`, `BetweenCallsAlways`, `KeepsContractAlways`, all of `Devices` |

`AsyncLogRuntime_proofs`: the safety properties are not inductive. They
hold because of where the one outstanding barrier is and who holds the control
mutex, and `IInv` says that in fourteen named conjuncts: the owner of the mutex
and the steps of each operation (`ControlOwner`, `OpSteps`); the one barrier,
and that it belongs to the thread that waits (`OneBarrier`); count and order of
the queue (`QueueCount`, `QueueOrder`, `Conservation`); that queued records
belong to the current settings (`Generations`) and failures to the current
generation (`Failures`); the life of the writer and of the admission
(`WriterLife`, `Admission`); that nothing stands behind the barrier of a
configure or stop (`DrainedBehind`), which is why the settings may be replaced
when it is done; and what a barrier owes its caller (`Marks`, `Owed`).

`Workers_proofs`: the controller needs `Identified` (a worker that runs is the
one `m_worker_id` names) and `InBody` (a worker makes its calls in its body)
beside `HandleOwned`. The timer and the keyboard embed it under a caller that
is serialized (`OneOwner`): between a join of the owner and its next launch no
thread is held. `TimerInv` then places each worker in the controller's body and
the timer's at once (`TimerPlaces`) and each actor in its public call and the
controller's (`TimerCalls`); workers are launched in order and the interval is
that of the last one, or will be before `Impl::mutex` is free (`TimerSession`);
and a worker that still takes a callback after a stop was requested is one the
owner has yet to join (`TimerStops`). `KeyboardInv` says the same of the monitor
(`KeyboardCalls`, `KeyboardPlaces`, `KeyboardStops`), and that what a pass read,
published and reports agree (`KeyboardReports`). A component that is not the one
chosen stands still, so each lemma about a component's step is used once.

`CameraSession_proofs`: that a worker's read meets no native call of another actor
follows from the order of the workers. Only the newest can be the one the handle
names, every older one is past its last native call, and an actor that starts or
stops the backend has joined the worker or is the worker itself.

`D3D12Surface_proofs`: a public call is a chain of helpers, each a set of
outcomes of which any may be a failure. There is a lemma of each helper, saying
which records it leaves and that an outcome which is neither a success nor undone
is reported, and one of each public call made of them. Every extent, display and
number of failures is covered. The buffers need that no extent is zero.

`Renderers_proofs`: `RetainedUntilDone` alone is not inductive. That a
destroyed texture survives follows from the stronger fact that each unfinished
list's own record is pending (`Recorded`), and that collecting keeps it from the
order of the GPU, `completed <= executed`. On Vulkan the GPU has one submission
at most, which a call waits for or the slot keeps (`OneWork`); a call that
passed the poll therefore finds it idle. What a submission uses is owned by the
records, the call or the slot (`Owned`), images are used while lent (`Lent`),
the semaphore of the acquisition is in the state the backend believes it to be
in (`Signalled`), and a surface stands on its native objects (`Stands`).

`Devices_proofs`, transports: of each the invariant says where an operation can
stand (`TcpPlaced`, `UdpPlaced`, `SerialStands`), which handles are open there,
the one of the call before and the candidate it is about to replace it with
(`Open`, `TcpOwner`, `UdpOwner`, `SerialOwner`), and which numbers the bytes have
that were taken, given and sent. `Heeded` says that an operation which began after
the cancellation stands where it waits or is over, so that no second one begins.
The serial read outlives its call: what the driver, the buffer and the collected
read hold is, in that order, the rest of what the line gave (`SerialBytes`), and a
write that was begun is collected before the call returns (`SerialDriver`).
`HttpInv` keeps the two consents, the room below the limit and the delay from the
decision to the next attempt (`HttpRepeats`). `DelayDocumented` is an induction on
the attempt: a delay that passed half of the maximum is capped, as is every later
one, and one that did not doubles without leaving the word.

`Devices_proofs`, adapters: the three invariants have the same plan. The places
say which operation can stand at each step, and in which state it began; that is
what a call's last step needs to end where `CameraBackend` allows it
(`V4L2Places`, `WindowsPlaces`, `LibcameraPlaces`). The rest says who has each
buffer there. On V4L2 an open adapter outside of `open` and `close` has mapped
what it was granted, a start has queued the buffers it has passed, and a stream
lacks the leased one at most (`V4L2Mapped`, `V4L2Lent`); no driver queues what is
not mapped, so an unmapped buffer is never written. On Windows a stopped reader
keeps no sample and cannot publish one, a streaming one owes a sample exactly when
one was requested, and a flush that is over has taken both back (`WindowsReader`,
`WindowsFlush`). In libcamera the ledger and the ring of a stream hold every
request but the one being read, and the pipeline holds requests while a native
stop is owed or the camera has gone (`LibcameraLent`, `LibcameraKept`). That a
completion always finds room in the ring is no guard of the code: it follows from
counting (`LibcameraFits`), for a ring without a given request, and without a
repetition, is not full.

The assumptions are those the modules name: finite capacities are positive;
threads, `Writer` and `None` are different; threads are not numbers, as workers
are; the kinds of an addon's operations are apart; `None` is no caller, resource,
image or submission; images are no resources; there are extents, none of them is
zero, and `"free"` and `""` name no display. `RetryAuthorizedAlways` assumes `DelaysFit`, that
no delay takes the clock to the end of its word: beyond it `calculateDeadline`
saturates, and what is waited for is less than the documented delay.

Every invariant and every action property of the passing runs is stated by a
theorem. Only model-checked: the liveness properties (`CallsReturn` and its like),
since fairness and ENABLED are out of the prover's reach, and the six findings,
which are counterexamples.

## 6. Not modelled, and why

* Values and formats: casts, arithmetic, matrices, images, pixel conversion,
  calibration, licence files, CSV and binary parsing, HTTP headers and responses,
  tables of error codes and their texts, profiles of log tags. They are pure, or out
  of TLC's reach (floating point, text), and a unit test reaches them.
* Native set-up that keeps no state between calls: enumeration of devices and
  displays, negotiation of camera formats, creation of GPU devices and pipelines,
  recording of commands, texture states.
* Forwarding: the Renderer facade, WebCamera, most of the C ABI, C#, Java and
  Python bindings and the other Node.js addons. What they add, the lifetime of
  handles and callbacks, is the first point of the plan.
* The GEF controllers: one caller, and a file that is replaced by one rename of
  what was written aside.
* The camera control calls, which keep no state in the session or the adapter.
* Two application threads that use one object at once where the documentation
  asks them to be serialized (timers, cameras, the renderer).
* A camera stopped by the destructor of the callback's captures while the owner
  is in a synchronous read.
* Tokens shared among operations, and linked tokens.
* In D3D12, an allocation that fails between the execution of a list and its
  record; the position and visibility of a window, and the topology flag.
* Tools that build and package.

`PROJECT.json` lists every part. The map covers about a ninth of the
implementation's lines: most of the rest is what the first three points name.

## 7. Plan

What is left, the most important first:

1. The lifetimes of bindings: `TimerHandle` of the Java binding, whose `cancel`
   races `close`, and the handles and callbacks of the C ABI.
2. That `CameraSession`, which assumes the contract of `CameraBackend`, stays
   sound over each adapter that `KeepsContractAlways` says keeps it: one
   specification of both, in place of `LibcameraSession`.
