------------------------- MODULE WorkerController -------------------------
(***************************************************************************)
(* detail::WorkerController (core/wse/utility/wse_WorkerController.cpp):   *)
(* one owned worker thread, started again and again.  Any thread may call  *)
(* start() and stop(), and so may the body of a worker.                    *)
(*                                                                         *)
(* Worker w is the w-th std::thread the controller launches.  Every        *)
(* section under m_mutex is one action; joins happen between them.  A call *)
(* ends in a state of its own, so that a component that embeds the         *)
(* controller can go on from there.                                        *)
(*                                                                         *)
(* A definition X_Y is X with a fault; the checks of the properties use it *)
(* in place of X to see that the property notices.                         *)
(***************************************************************************)
EXTENDS Naturals

CONSTANTS
  Threads,     \* the threads of the application that call the controller
  MaxWorkers   \* bound on the std::threads launched

Workers == 1..MaxWorkers
Actors  == Threads \cup Workers

VARIABLES
  running,         \* m_running
  stop_requested,  \* m_stop_requested
  thread,          \* the worker m_thread holds, 0 if it is not joinable
  worker_id,       \* m_worker_id, 0 for the id of no thread
  worker,          \* where each worker is
  call             \* where each actor is in its call, and the worker it took over

vars == <<running, stop_requested, thread, worker_id, worker, call>>

-----------------------------------------------------------------------------
Init ==
  /\ running = FALSE
  /\ stop_requested = FALSE
  /\ thread = 0
  /\ worker_id = 0
  /\ worker = [w \in Workers |-> "none"]
  /\ call = [a \in Actors |-> [pc |-> "idle", taken |-> 0]]

At(a, pc)        == call[a].pc = pc
GoTo(a, pc)      == call' = [call EXCEPT ![a].pc = pc]
Take(a, pc)      == call' = [call EXCEPT ![a] = [pc |-> pc, taken |-> thread]]
SetWorker(w, pc) == worker' = [worker EXCEPT ![w] = pc]

\* join() returns once the thread that was taken over, if any, has exited.
Joinable(a) == call[a].taken # 0 => worker[call[a].taken] = "exited"
Join(a, pc) ==
  /\ Joinable(a)
  /\ worker' = [w \in Workers |-> IF w = call[a].taken THEN "joined" ELSE worker[w]]
  /\ call' = [call EXCEPT ![a] = [pc |-> pc, taken |-> 0]]

-----------------------------------------------------------------------------
(***************************************************************************)
(* start().                                                                *)
(***************************************************************************)
\* A running worker refuses the start; a finished one is taken over.
StartTake(a) ==
  /\ At(a, "start")
  /\ IF running THEN GoTo(a, "refused") /\ UNCHANGED thread
     ELSE Take(a, "join_finished") /\ thread' = 0
  /\ UNCHANGED <<running, stop_requested, worker_id, worker>>

StartJoin(a) ==
  /\ At(a, "join_finished")
  /\ Join(a, "launch")
  /\ UNCHANGED <<running, stop_requested, thread, worker_id>>

\* Another start() may have launched its worker during the join.
Overtaken == running \/ thread # 0

StartLaunch(a) ==
  /\ At(a, "launch")
  /\ IF Overtaken
     THEN /\ GoTo(a, "refused")
          /\ UNCHANGED <<running, stop_requested, thread, worker_id, worker>>
     ELSE /\ running' = TRUE
          /\ stop_requested' = FALSE
          /\ \E w \in Workers :
               /\ worker[w] = "none"
               /\ \A v \in Workers : v < w => worker[v] # "none"
               /\ SetWorker(w, "born")
               /\ thread' = w
               /\ worker_id' = w
          /\ GoTo(a, "started")

\* std::thread cannot be created: its exception leaves start() half way.
StartThrows(a) ==
  /\ At(a, "launch")
  /\ ~Overtaken
  /\ running' = TRUE
  /\ stop_requested' = FALSE
  /\ GoTo(a, "threw")
  /\ UNCHANGED <<thread, worker_id, worker>>

-----------------------------------------------------------------------------
(***************************************************************************)
(* requestStop() and stop().                                               *)
(***************************************************************************)
\* m_wake.notify_all(): the waiting bodies look at the request again.
NotifyAll_Nobody == UNCHANGED worker
NotifyAll == worker' = [w \in Workers |-> IF worker[w] = "asleep" THEN "awake" ELSE worker[w]]

RequestStop(a) ==
  /\ At(a, "stop")
  /\ stop_requested' = TRUE
  /\ NotifyAll
  /\ GoTo(a, "take")
  /\ UNCHANGED <<running, thread, worker_id>>

\* The worker itself leaves the join to the destructor or the next start().
OwnThread_Unchecked(a) == FALSE
OwnThread(a) == worker_id # 0 /\ a = worker_id

NothingToJoin_NotRunning == thread = 0 \/ ~running
NothingToJoin == thread = 0

StopTake(a) ==
  /\ At(a, "take")
  /\ IF NothingToJoin \/ OwnThread(a) THEN GoTo(a, "stopped") /\ UNCHANGED thread
     ELSE Take(a, "join") /\ thread' = 0
  /\ UNCHANGED <<running, stop_requested, worker_id, worker>>

StopJoin(a) ==
  /\ At(a, "join")
  /\ Join(a, "stopped")
  /\ UNCHANGED <<running, stop_requested, thread, worker_id>>

CallStep(a) ==
  \/ StartTake(a) \/ StartJoin(a) \/ StartLaunch(a)
  \/ RequestStop(a) \/ StopTake(a) \/ StopJoin(a)

-----------------------------------------------------------------------------
(***************************************************************************)
(* The worker thread, and waitFor() as its body uses it.                   *)
(***************************************************************************)
WorkerEnters(w) ==
  /\ worker[w] = "born"
  /\ worker_id' = w
  /\ SetWorker(w, "body")
  /\ UNCHANGED <<running, stop_requested, thread, call>>

WorkerMoves(w, pc) ==
  /\ SetWorker(w, pc)
  /\ UNCHANGED <<running, stop_requested, thread, worker_id, call>>

\* waitFor(): true at once if a stop is requested, else when one is or, false,
\* when the time is up.
Told_NoPredicate == FALSE
Told == stop_requested

WaitFor(w) ==
  /\ worker[w] \in {"body", "awake"}
  /\ WorkerMoves(w, IF Told THEN "told" ELSE "asleep")

WaitTimeout(w) ==
  /\ worker[w] = "asleep"
  /\ WorkerMoves(w, IF Told THEN "told" ELSE "ticked")

\* The body returns or throws: the exception does not leave the thread.
BodyEnds(w) ==
  /\ worker[w] \in {"ticked", "told"}
  /\ At(w, "idle")
  /\ WorkerMoves(w, "ending")

WorkerEnds_KeepsId(w) ==
  /\ worker[w] = "ending"
  /\ running' = FALSE
  /\ SetWorker(w, "leaving")
  /\ UNCHANGED <<worker_id, stop_requested, thread, call>>
WorkerEnds(w) ==
  /\ worker[w] = "ending"
  /\ running' = FALSE
  /\ worker_id' = 0
  /\ SetWorker(w, "leaving")
  /\ UNCHANGED <<stop_requested, thread, call>>

\* The last notify_all(), after which the thread touches the controller no more.
WorkerLeaves(w) ==
  /\ worker[w] = "leaving"
  /\ WorkerMoves(w, "exited")

WorkerStep(w) ==
  \/ WorkerEnters(w) \/ WaitFor(w) \/ WorkerEnds(w) \/ WorkerLeaves(w)

-----------------------------------------------------------------------------
(***************************************************************************)
(* The controller on its own: any thread calls it at any time, and a body  *)
(* that ticks as the class documents, `while(!waitFor(t)) tick()`.         *)
(***************************************************************************)
Call(a, pc) ==
  /\ At(a, "idle")
  /\ a \in Workers => worker[a] = "ticked"
  /\ pc \in {"start", "stop"}
  /\ pc = "start" => \E w \in Workers : worker[w] = "none"
  /\ GoTo(a, pc)
  /\ UNCHANGED <<running, stop_requested, thread, worker_id, worker>>

Returned == {"started", "refused", "threw", "stopped"}

Return(a) ==
  /\ call[a].pc \in Returned
  /\ GoTo(a, "idle")
  /\ UNCHANGED <<running, stop_requested, thread, worker_id, worker>>

BodyTicks(w) ==
  /\ worker[w] = "ticked"
  /\ At(w, "idle")
  /\ WorkerMoves(w, "body")

Next ==
  \/ \E a \in Actors : \/ \E pc \in {"start", "stop"} : Call(a, pc)
                       \/ CallStep(a) \/ StartThrows(a) \/ Return(a)
  \/ \E w \in Workers : WorkerStep(w) \/ WaitTimeout(w) \/ BodyEnds(w) \/ BodyTicks(w)

Spec == Init /\ [][Next]_vars

-----------------------------------------------------------------------------
(***************************************************************************)
(* Properties.                                                             *)
(***************************************************************************)
\* Type invariant.  A call holds a worker only while it joins it.
TypeOK ==
  /\ running \in BOOLEAN
  /\ stop_requested \in BOOLEAN
  /\ thread \in {0} \cup Workers
  /\ worker_id \in {0} \cup Workers
  /\ worker \in [Workers -> {"none", "born", "body", "asleep", "awake", "ticked", "told",
                             "ending", "leaving", "exited", "joined"}]
  /\ call \in [Actors -> [pc : {"idle", "start", "join_finished", "launch", "stop", "take", "join"}
                                 \cup Returned,
                          taken : {0} \cup Workers]]
  /\ \A a \in Actors : call[a].taken # 0 => call[a].pc \in {"join_finished", "join"}

Live(w) == worker[w] \in {"born", "body", "asleep", "awake", "ticked", "told", "ending"}

\* However starts and stops race, two bodies never run at once, and
\* isRunning() is true while one does.  m_worker_id names a body that runs, so
\* stop() never takes its caller for a worker that ended.
OneBody ==
  /\ \A w \in Workers : Live(w) => running
  /\ worker_id # 0 => Live(worker_id)
  /\ \A v, w \in Workers : Live(v) /\ Live(w) => v = w

Holds(a, w) == call[a].taken = w
Held(w) == thread = w \/ \E a \in Actors : Holds(a, w)

\* Every thread that was launched and not yet joined is held by exactly one
\* handle: the member or a local of one call.  A std::thread is never joined
\* twice, and never destroyed or overwritten while joinable, which would end
\* the program.  stop() and start() in the body of a worker never join the
\* thread they run on (wse_WorkerController.h:73: "only requests the stop").
HandleOwned ==
  \A w \in Workers :
    /\ worker[w] \notin {"none", "joined"} <=> Held(w)
    /\ \A a, b \in Actors : Holds(a, w) /\ Holds(b, w) => a = b
    /\ \A a \in Actors : Holds(a, w) => thread # w /\ a # w
=============================================================================
