---------------------------- MODULE Workers_proofs ---------------------------
(***************************************************************************)
(* What Workers promises of the controller, of the timer and the keyboard  *)
(* that embed it, and of the components beside them, for any threads,      *)
(* launches, devices, callers, operations and sinks.                       *)
(***************************************************************************)
EXTENDS Workers, TLAPS

\* A worker that runs is the one m_worker_id names.
Identified ==
  /\ \A w \in Workers : Live(w) => running /\ worker_id = w
  /\ worker_id # 0 => Live(worker_id)

\* A worker makes its calls in its body.
InBody == \A w \in Workers : call[w].pc # "idle" => worker[w] = "ticked"

ControllerInv == TypeOK /\ Identified /\ InBody /\ HandleOwned

Pcs == {"idle", "start", "join_finished", "launch", "stop", "take", "join"} \cup Returned
Places == {"none", "born", "body", "asleep", "awake", "ticked", "told",
           "ending", "leaving", "exited", "joined"}

-----------------------------------------------------------------------------
\* No worker has been launched at first.
LEMMA ControllerInit == ASSUME MaxWorkers \in Nat PROVE Init => ControllerInv
<1> SUFFICES ASSUME Init PROVE ControllerInv
  OBVIOUS
<1>1. TypeOK
  BY DEF Init, TypeOK, Workers
<1>2. Identified /\ InBody
  BY DEF Init, Identified, InBody, Live, Workers, Actors
<1>3. HandleOwned
  BY DEF Init, HandleOwned, Held, Holds, Workers, Actors
<1> QED BY <1>1, <1>2, <1>3 DEF ControllerInv

\* A step of a call that neither takes a handle over nor gives one back.
LEMMA PassKeeps ==
  ASSUME ControllerInv, NEW a \in Actors, NEW pc \in Pcs, GoTo(a, pc),
         call[a].taken = 0, call[a].pc # "idle" \/ a \notin Workers \/ worker[a] = "ticked",
         UNCHANGED <<thread, worker_id, worker>>, running' \in BOOLEAN, running => running',
         stop_requested' \in BOOLEAN
  PROVE  ControllerInv'
<1>1. /\ call' \in [Actors -> [pc : Pcs, taken : {0} \cup Workers]]
      /\ \A b \in Actors : call'[b].taken = call[b].taken
      /\ \A b \in Actors : b # a => call'[b] = call[b]
      /\ call'[a].pc = pc
  BY DEF GoTo, ControllerInv, TypeOK, Pcs
<1>2. TypeOK'
  BY <1>1 DEF ControllerInv, TypeOK, Pcs
<1>3. Identified'
  BY DEF ControllerInv, Identified, Live
<1>4. InBody'
  BY <1>1 DEF ControllerInv, InBody, Actors
<1>5. HandleOwned'
  BY <1>1 DEF ControllerInv, HandleOwned, Held, Holds
<1> QED BY <1>2, <1>3, <1>4, <1>5 DEF ControllerInv

\* A call on a thread other than the one held takes the handle over.
LEMMA TakeKeeps ==
  ASSUME MaxWorkers \in Nat, ControllerInv, NEW a \in Actors, a # thread,
         NEW pc \in {"join_finished", "join"}, Take(a, pc), thread' = 0,
         call[a].taken = 0, call[a].pc # "idle",
         UNCHANGED <<running, stop_requested, worker_id, worker>>
  PROVE  ControllerInv'
<1>1. /\ call' \in [Actors -> [pc : Pcs, taken : {0} \cup Workers]]
      /\ \A b \in Actors : b # a => call'[b] = call[b]
      /\ call'[a].pc = pc /\ call'[a].taken = thread
  BY DEF Take, ControllerInv, TypeOK, Pcs
<1>2. TypeOK'
  BY <1>1 DEF ControllerInv, TypeOK, Pcs
<1>3. Identified'
  BY DEF ControllerInv, Identified, Live
<1>4. InBody'
  BY <1>1 DEF ControllerInv, InBody, Actors
<1>5. HandleOwned'
  <2> SUFFICES ASSUME NEW w \in Workers
               PROVE  /\ worker[w] \notin {"none", "joined"} <=> Held(w)'
                      /\ \A b, c \in Actors : Holds(b, w)' /\ Holds(c, w)' => b = c
                      /\ \A b \in Actors : Holds(b, w)' => thread' # w /\ b # w
    BY DEF HandleOwned
  <2>1. w # 0
    BY DEF Workers
  <2>2. \A b \in Actors : b # a => (Holds(b, w)' <=> Holds(b, w))
    BY <1>1 DEF Holds
  <2>3. Holds(a, w)' <=> thread = w
    BY <1>1 DEF Holds
  <2>4. ~Holds(a, w)
    BY <2>1 DEF Holds
  <2> QED BY <2>1, <2>2, <2>3, <2>4 DEF ControllerInv, HandleOwned, Held
<1> QED BY <1>2, <1>3, <1>4, <1>5 DEF ControllerInv

\* A join gives back the only handle of its thread.
LEMMA JoinKeeps ==
  ASSUME MaxWorkers \in Nat, ControllerInv, NEW a \in Actors, NEW pc \in Pcs, Join(a, pc), call[a].pc # "idle",
         UNCHANGED <<running, stop_requested, thread, worker_id>>
  PROVE  ControllerInv'
<1> DEFINE t == call[a].taken
<1>1. /\ call' \in [Actors -> [pc : Pcs, taken : {0} \cup Workers]]
      /\ \A b \in Actors : b # a => call'[b] = call[b]
      /\ call'[a].pc = pc /\ call'[a].taken = 0
  BY DEF Join, ControllerInv, TypeOK, Pcs, Workers
<1>2. /\ worker' \in [Workers -> Places]
      /\ \A w \in Workers : w # t => worker'[w] = worker[w]
      /\ \A w \in Workers : w = t => worker[w] = "exited" /\ worker'[w] = "joined"
  <2>1. worker' = [w \in Workers |-> IF w = t THEN "joined" ELSE worker[w]]
    BY DEF Join
  <2>2. \A w \in Workers : w = t => worker[w] = "exited"
    BY DEF Join, Joinable, Workers
  <2>3. worker \in [Workers -> Places]
    BY DEF ControllerInv, TypeOK, Places
  <2> QED BY <2>1, <2>2, <2>3 DEF Places
<1>3. TypeOK'
  BY <1>1, <1>2 DEF ControllerInv, TypeOK, Pcs, Places
<1>4. \A w \in Workers : Live(w)' <=> Live(w)
  BY <1>2 DEF Live
<1>5. Identified'
  BY <1>4 DEF ControllerInv, TypeOK, Identified
<1>6. InBody'
  BY <1>1, <1>2 DEF ControllerInv, InBody, Actors
<1>7. HandleOwned'
  <2> SUFFICES ASSUME NEW w \in Workers
               PROVE  /\ worker'[w] \notin {"none", "joined"} <=> Held(w)'
                      /\ \A b, c \in Actors : Holds(b, w)' /\ Holds(c, w)' => b = c
                      /\ \A b \in Actors : Holds(b, w)' => thread' # w /\ b # w
    BY DEF HandleOwned
  <2>1. \A b \in Actors : b # a => (Holds(b, w)' <=> Holds(b, w))
    BY <1>1 DEF Holds
  <2>2. ~Holds(a, w)'
    BY <1>1 DEF Holds, Workers
  <2>3. CASE w = t
    <3>1. Holds(a, w) /\ worker'[w] = "joined"
      BY <1>2, <2>3 DEF Holds
    <3> QED BY <2>1, <2>2, <3>1 DEF ControllerInv, HandleOwned, Held
  <2>4. CASE w # t
    <3>1. ~Holds(a, w) /\ worker'[w] = worker[w]
      BY <1>2, <2>4 DEF Holds
    <3> QED BY <2>1, <2>2, <3>1 DEF ControllerInv, HandleOwned, Held
  <2> QED BY <2>3, <2>4
<1> QED BY <1>3, <1>5, <1>6, <1>7 DEF ControllerInv

\* A worker that moves between places in which its thread is held, and runs as
\* before or has just been found running.
LEMMA PlaceKeeps ==
  ASSUME ControllerInv, NEW w \in Workers, NEW pc \in Places \ {"none", "joined"},
         worker[w] \notin {"none", "joined"}, SetWorker(w, pc),
         worker[w] # "ticked" \/ call[w].pc = "idle",
         Live(w)' <=> Live(w), UNCHANGED <<running, stop_requested, thread, call>>,
         worker_id' = worker_id
  PROVE  ControllerInv'
<1>1. /\ worker' \in [Workers -> Places]
      /\ worker'[w] = pc
      /\ \A v \in Workers : v # w => worker'[v] = worker[v]
  BY DEF SetWorker, ControllerInv, TypeOK, Places
<1>2. TypeOK'
  BY <1>1 DEF ControllerInv, TypeOK, Places
<1>3. \A v \in Workers : Live(v)' <=> Live(v)
  BY <1>1 DEF Live
<1>4. Identified'
  BY <1>3 DEF ControllerInv, TypeOK, Identified
<1>5. InBody'
  BY <1>1 DEF ControllerInv, InBody
<1>6. HandleOwned'
  BY <1>1 DEF ControllerInv, HandleOwned, Held, Holds
<1> QED BY <1>2, <1>4, <1>5, <1>6 DEF ControllerInv

-----------------------------------------------------------------------------
\* start(): only a thread of the application can find no worker running.
LEMMA StartTakeKeeps ==
  ASSUME MaxWorkers \in Nat, Threads \cap Nat = {}, ControllerInv, NEW a \in Actors, StartTake(a)
  PROVE  ControllerInv'
<1>1. call[a].pc = "start" /\ call[a].taken = 0
  BY DEF StartTake, At, ControllerInv, TypeOK
<1>2. CASE running
  BY <1>1, <1>2, PassKeeps DEF StartTake, Pcs, Returned, ControllerInv, TypeOK
<1>3. CASE ~running
  <2>1. a # thread
    BY <1>1, <1>3 DEF ControllerInv, TypeOK, Identified, InBody, Live, Actors, Workers
  <2> QED BY <1>1, <1>3, <2>1, TakeKeeps DEF StartTake
<1> QED BY <1>2, <1>3

\* The launch finds neither a worker that runs nor a handle that is held.
LEMMA StartLaunchKeeps ==
  ASSUME MaxWorkers \in Nat, ControllerInv, NEW a \in Actors, StartLaunch(a)
  PROVE  ControllerInv'
<1>1. call[a].pc = "launch" /\ call[a].taken = 0
  BY DEF StartLaunch, At, ControllerInv, TypeOK
<1>2. CASE Overtaken
  BY <1>1, <1>2, PassKeeps DEF StartLaunch, Pcs, Returned, ControllerInv, TypeOK
<1>3. CASE ~Overtaken
  <2>1. PICK w \in Workers : worker[w] = "none" /\ SetWorker(w, "born") /\ thread' = w /\ worker_id' = w
    BY <1>3 DEF StartLaunch
  <2>2. /\ ~running /\ thread = 0 /\ running' = TRUE /\ stop_requested' = FALSE
        /\ GoTo(a, "started")
    BY <1>3 DEF StartLaunch, Overtaken, ControllerInv, TypeOK
  <2>3. /\ worker' \in [Workers -> Places] /\ worker'[w] = "born"
        /\ \A v \in Workers : v # w => worker'[v] = worker[v]
    BY <2>1 DEF SetWorker, ControllerInv, TypeOK, Places
  <2>4. /\ call' \in [Actors -> [pc : Pcs, taken : {0} \cup Workers]]
        /\ \A b \in Actors : call'[b].taken = call[b].taken
        /\ \A b \in Actors : b # a => call'[b] = call[b]
        /\ call'[a].pc = "started"
    BY <2>2 DEF GoTo, ControllerInv, TypeOK, Pcs, Returned
  <2>5. TypeOK'
    BY <2>1, <2>2, <2>3, <2>4, <1>1 DEF ControllerInv, TypeOK, Places, Pcs
  <2>6. \A v \in Workers : ~Live(v)
    BY <2>2 DEF ControllerInv, Identified
  <2>7. Identified'
    BY <2>1, <2>2, <2>3, <2>6 DEF Identified, Live
  <2>8. InBody'
    BY <1>1, <2>1, <2>3, <2>4 DEF ControllerInv, InBody, Actors
  <2>9. HandleOwned'
    <3>1. ~Held(w) /\ \A v \in Workers : thread # v
      BY <2>1, <2>2 DEF ControllerInv, HandleOwned, Workers
    <3>2. \A b \in Actors, v \in Workers : Holds(b, v)' <=> Holds(b, v)
      BY <2>4 DEF Holds
    <3> QED BY <2>1, <2>3, <3>1, <3>2 DEF ControllerInv, HandleOwned, Held
  <2> QED BY <2>5, <2>7, <2>8, <2>9 DEF ControllerInv
<1> QED BY <1>2, <1>3

\* stop(): the request wakes a body, which runs on.
LEMMA RequestStopKeeps ==
  ASSUME ControllerInv, NEW a \in Actors, RequestStop(a)
  PROVE  ControllerInv'
<1>1. call[a].pc = "stop" /\ call[a].taken = 0
  BY DEF RequestStop, At, ControllerInv, TypeOK
<1>2. /\ worker' \in [Workers -> Places]
      /\ \A w \in Workers : worker'[w] = IF worker[w] = "asleep" THEN "awake" ELSE worker[w]
  BY DEF RequestStop, NotifyAll, ControllerInv, TypeOK, Places
<1>3. /\ call' \in [Actors -> [pc : Pcs, taken : {0} \cup Workers]]
      /\ \A b \in Actors : call'[b].taken = call[b].taken
      /\ \A b \in Actors : b # a => call'[b] = call[b]
      /\ call'[a].pc = "take"
  BY DEF RequestStop, GoTo, ControllerInv, TypeOK, Pcs
<1>4. TypeOK'
  BY <1>1, <1>2, <1>3 DEF RequestStop, ControllerInv, TypeOK, Places, Pcs
<1>5. \A w \in Workers : Live(w)' <=> Live(w)
  BY <1>2 DEF Live
<1>6. Identified'
  BY <1>5 DEF RequestStop, ControllerInv, TypeOK, Identified
<1>7. InBody'
  BY <1>1, <1>2, <1>3 DEF ControllerInv, InBody, Actors
<1>8. HandleOwned'
  BY <1>2, <1>3 DEF RequestStop, ControllerInv, HandleOwned, Held, Holds
<1> QED BY <1>4, <1>6, <1>7, <1>8 DEF ControllerInv

\* A worker that stops itself finds its own id, and joins nothing.
LEMMA StopTakeKeeps ==
  ASSUME MaxWorkers \in Nat, Threads \cap Nat = {}, ControllerInv, NEW a \in Actors, StopTake(a)
  PROVE  ControllerInv'
<1>1. call[a].pc = "take" /\ call[a].taken = 0
  BY DEF StopTake, At, ControllerInv, TypeOK
<1>2. CASE NothingToJoin \/ OwnThread(a)
  BY <1>1, <1>2, PassKeeps DEF StopTake, Pcs, Returned, ControllerInv, TypeOK
<1>3. CASE ~(NothingToJoin \/ OwnThread(a))
  <2>1. a # thread
    <3>1. a \in Workers => OwnThread(a)
      BY <1>1 DEF ControllerInv, Identified, InBody, Live, OwnThread, Workers
    <3> QED BY <1>3, <3>1 DEF ControllerInv, TypeOK, Actors, NothingToJoin, Workers
  <2> QED BY <1>1, <1>3, <2>1, TakeKeeps DEF StopTake
<1> QED BY <1>2, <1>3

\* The steps of the worker threads.
LEMMA MovesKeep ==
  ASSUME MaxWorkers \in Nat, ControllerInv, NEW w \in Workers,
         WorkerStep(w) \/ WaitTimeout(w) \/ BodyEnds(w) \/ BodyTicks(w)
  PROVE  ControllerInv'
<1>1. CASE WorkerEnters(w)
  <2>1. Live(w) /\ Live(w)' /\ SetWorker(w, "body") /\ worker[w] = "born"
    BY <1>1 DEF WorkerEnters, SetWorker, Live, ControllerInv, TypeOK
  <2>2. worker_id' = worker_id
    BY <1>1, <2>1 DEF WorkerEnters, ControllerInv, Identified
  <2> QED BY <1>1, <2>1, <2>2, PlaceKeeps DEF WorkerEnters, Places
<1>2. CASE WorkerEnds(w)
  <2>1. /\ worker[w] = "ending" /\ running' = FALSE /\ worker_id' = 0
        /\ SetWorker(w, "leaving") /\ UNCHANGED <<stop_requested, thread, call>>
    BY <1>2 DEF WorkerEnds
  <2>2. /\ worker' \in [Workers -> Places] /\ worker'[w] = "leaving"
        /\ \A v \in Workers : v # w => worker'[v] = worker[v]
    BY <2>1 DEF SetWorker, ControllerInv, TypeOK, Places
  <2>3. TypeOK'
    BY <2>1, <2>2 DEF ControllerInv, TypeOK, Places
  <2>4. \A v \in Workers : ~Live(v)'
    BY <2>1, <2>2 DEF ControllerInv, Identified, Live
  <2>5. Identified'
    BY <2>1, <2>4 DEF Identified
  <2>6. InBody'
    BY <2>1, <2>2 DEF ControllerInv, InBody
  <2>7. HandleOwned'
    BY <2>1, <2>2 DEF ControllerInv, HandleOwned, Held, Holds
  <2> QED BY <2>3, <2>5, <2>6, <2>7 DEF ControllerInv
<1>3. CASE WaitFor(w) \/ WaitTimeout(w) \/ BodyEnds(w) \/ WorkerLeaves(w) \/ BodyTicks(w)
  <2>1. PICK pc \in {"told", "asleep", "ticked", "ending", "exited", "body"} :
          /\ WorkerMoves(w, pc)
          /\ worker[w] \in {"body", "awake", "asleep", "ticked", "told", "leaving"}
          /\ worker[w] = "leaving" <=> pc = "exited"
          /\ worker[w] # "ticked" \/ call[w].pc = "idle"
    BY <1>3 DEF WaitFor, WaitTimeout, BodyEnds, WorkerLeaves, BodyTicks, At
  <2>2. worker'[w] = pc /\ SetWorker(w, pc) /\ UNCHANGED <<running, stop_requested, thread, worker_id, call>>
    BY <2>1 DEF WorkerMoves, SetWorker, ControllerInv, TypeOK
  <2>3. Live(w)' <=> Live(w)
    BY <2>1, <2>2 DEF Live
  <2> QED BY <2>1, <2>2, <2>3, PlaceKeeps DEF Places
<1> QED BY <1>1, <1>2, <1>3 DEF WorkerStep

\* The steps of a call, by whomever it is made.
LEMMA CallKeeps ==
  ASSUME ControllerInv, NEW a \in Actors, CallStep(a) \/ StartThrows(a)
  PROVE  ControllerInv'
<1>1. CASE StartJoin(a)
  BY <1>1, ActorsAssumption, JoinKeeps DEF StartJoin, At, Pcs
<1>2. CASE StopJoin(a)
  BY <1>2, ActorsAssumption, JoinKeeps DEF StopJoin, At, Pcs, Returned
<1>3. CASE StartThrows(a)
  <2>1. call[a].taken = 0 /\ call[a].pc # "idle"
    BY <1>3 DEF StartThrows, At, ControllerInv, TypeOK
  <2> QED BY <1>3, <2>1, PassKeeps DEF StartThrows, Pcs, Returned
<1> QED
  BY <1>1, <1>2, <1>3, ActorsAssumption, StartTakeKeeps, StartLaunchKeeps, RequestStopKeeps, StopTakeKeeps DEF CallStep

\* What a step of a call may not be: an actor goes on to the next call.
LEMMA ControllerStep ==
  ASSUME ControllerInv, [Next]_vars
  PROVE  ControllerInv'
<1>1. ASSUME NEW a \in Actors, NEW pc \in {"start", "stop"}, Call(a, pc) PROVE ControllerInv'
  <2>1. call[a].taken = 0
    BY <1>1 DEF Call, At, ControllerInv, TypeOK
  <2> QED BY <1>1, <2>1, PassKeeps DEF Call, Pcs, ControllerInv, TypeOK
<1>2. ASSUME NEW a \in Actors, Return(a) PROVE ControllerInv'
  <2>1. call[a].taken = 0 /\ call[a].pc # "idle"
    BY <1>2 DEF Return, Returned, ControllerInv, TypeOK
  <2> QED BY <1>2, <2>1, PassKeeps DEF Return, Pcs, ControllerInv, TypeOK
<1>3. CASE UNCHANGED vars
  BY <1>3 DEF vars, ControllerInv, TypeOK, Identified, InBody, HandleOwned, Live, Held, Holds
<1> QED BY <1>1, <1>2, <1>3, ActorsAssumption, CallKeeps, MovesKeep DEF Next

-----------------------------------------------------------------------------
(***************************************************************************)
(* A controller with one owner.  The timer and the keyboard are called by  *)
(* the thread that owns them, and a body only stops its own controller; so *)
(* between a join of the owner and its next launch no thread is held.      *)
(***************************************************************************)
Stopped == thread = 0 /\ \A w \in Workers : worker[w] \in {"none", "joined"}

OneOwner ==
  /\ \A t \in Threads : t # Owner => call[t].pc = "idle"
  /\ \A w \in Workers : call[w].pc \in {"idle", "stop", "take", "stopped"}
  /\ call[Owner].pc \in {"join_finished", "launch", "join"} => thread = 0
  /\ call[Owner].pc = "stopped" => Stopped

Starting == {"start", "join_finished", "launch", "started", "refused", "threw"}
Stopping == {"stop", "take", "join", "stopped"}

\* A worker that may be joined is held, and only the owner can hold one.
LEMMA NoneHeld ==
  ASSUME ControllerInv, OneOwner, thread = 0, NEW w \in Workers, worker[w] \notin {"none", "joined"}
  PROVE  call[Owner].taken = w /\ call[Owner].pc \in {"join_finished", "join"}
<1>1. PICK a \in Actors : call[a].taken = w
  BY DEF ControllerInv, HandleOwned, Held, Holds, Workers
<1>2. call[a].pc \in {"join_finished", "join"}
  BY <1>1 DEF ControllerInv, TypeOK, Workers
<1>3. a = Owner
  BY <1>2 DEF OneOwner, Actors
<1> QED BY <1>1, <1>2, <1>3

\* The calls of the owner; the one that ends a stop has joined the last worker.
LEMMA OwnerCalls ==
  ASSUME ControllerInv, OneOwner, CallStep(Owner) \/ StartThrows(Owner)
  PROVE  OneOwner'
<1>1. Owner \in Actors /\ Owner \in Threads /\ Owner \notin Workers /\ Threads \cap Workers = {}
  BY ActorsAssumption DEF Actors, Workers
<1>2. \A pc : GoTo(Owner, pc) => call'[Owner].pc = pc /\ \A b \in Actors : b # Owner => call'[b] = call[b]
  BY <1>1 DEF GoTo, ControllerInv, TypeOK
<1>3. \A pc : Take(Owner, pc) => call'[Owner].pc = pc /\ \A b \in Actors : b # Owner => call'[b] = call[b]
  BY <1>1 DEF Take, ControllerInv, TypeOK
<1>4. \A pc : Join(Owner, pc) => call'[Owner].pc = pc /\ \A b \in Actors : b # Owner => call'[b] = call[b]
  BY <1>1 DEF Join, ControllerInv, TypeOK
<1>5. ASSUME \A b \in Actors : b # Owner => call'[b] = call[b],
             call'[Owner].pc \in {"join_finished", "launch", "join"} => thread' = 0,
             call'[Owner].pc = "stopped" => Stopped'
      PROVE  OneOwner'
  BY <1>1, <1>5 DEF OneOwner, Actors
<1>6. CASE StartTake(Owner) \/ StartLaunch(Owner) \/ StartThrows(Owner) \/ RequestStop(Owner)
  <2>1. /\ \A b \in Actors : b # Owner => call'[b] = call[b]
        /\ call'[Owner].pc \in {"refused", "join_finished", "started", "threw", "take"}
        /\ call'[Owner].pc = "join_finished" => thread' = 0
    BY <1>2, <1>3, <1>6 DEF StartTake, StartLaunch, StartThrows, RequestStop
  <2> QED BY <1>5, <2>1
<1>7. CASE StartJoin(Owner)
  BY <1>4, <1>5, <1>7 DEF StartJoin, At, OneOwner
<1>8. CASE StopTake(Owner)
  <2>1. CASE NothingToJoin \/ OwnThread(Owner)
    <3>1. thread = 0
      BY <1>1, <2>1 DEF NothingToJoin, OwnThread, ControllerInv, TypeOK
    <3>2. Stopped
      BY <1>8, <3>1, NoneHeld DEF Stopped, StopTake, At
    <3> QED BY <1>2, <1>5, <1>8, <2>1, <3>2 DEF StopTake, Stopped
  <2>2. CASE ~(NothingToJoin \/ OwnThread(Owner))
    BY <1>3, <1>5, <1>8, <2>2 DEF StopTake
  <2> QED BY <2>1, <2>2
<1>9. CASE StopJoin(Owner)
  <2>1. thread = 0 /\ thread' = 0
    BY <1>9 DEF StopJoin, At, OneOwner
  <2>2. ASSUME NEW w \in Workers PROVE worker'[w] \in {"none", "joined"}
    BY <1>9, <2>1, NoneHeld DEF StopJoin, Join
  <2> QED BY <1>4, <1>5, <1>9, <2>1, <2>2 DEF StopJoin, Stopped
<1> QED BY <1>6, <1>7, <1>8, <1>9 DEF CallStep

\* The calls of a body: its stop finds itself, and takes nothing over.
LEMMA BodyCalls ==
  ASSUME ControllerInv, OneOwner, NEW a \in Workers, CallStep(a) \/ StartThrows(a)
  PROVE  /\ OneOwner' /\ UNCHANGED <<running, thread, worker_id>>
         /\ \A b \in Actors : b # a => call'[b] = call[b]
         /\ call[a].pc \in {"stop", "take"} /\ call'[a].pc \in {"take", "stopped"}
         /\ \/ NotifyAll /\ stop_requested'
            \/ UNCHANGED <<stop_requested, worker>>
<1>1. a \in Actors /\ a # Owner /\ a \notin Threads
  BY ActorsAssumption DEF Actors, Workers
<1>2. call[a].pc \in {"stop", "take"} /\ (RequestStop(a) \/ StopTake(a))
  BY DEF CallStep, StartThrows, StartTake, StartJoin, StartLaunch, StopJoin, RequestStop, StopTake, At, OneOwner
<1>3. \A pc : GoTo(a, pc) => call'[a].pc = pc /\ \A b \in Actors : b # a => call'[b] = call[b]
  BY <1>1 DEF GoTo, ControllerInv, TypeOK
<1>4. OwnThread(a)
  BY <1>2 DEF ControllerInv, InBody, Identified, Live, OwnThread, Workers
<1>5. /\ UNCHANGED <<running, thread, worker_id>>
      /\ \A b \in Actors : b # a => call'[b] = call[b]
      /\ call'[a].pc \in {"take", "stopped"}
      /\ \/ NotifyAll /\ stop_requested'
         \/ UNCHANGED <<stop_requested, worker>>
  BY <1>2, <1>3, <1>4 DEF RequestStop, StopTake
<1>6. ASSUME NEW w \in Workers, worker[w] \in {"none", "joined"} PROVE worker'[w] \in {"none", "joined"}
  BY <1>5, <1>6 DEF NotifyAll
<1>7. OneOwner'
  BY <1>1, <1>5, <1>6, ActorsAssumption DEF OneOwner, Stopped, Actors
<1> QED BY <1>2, <1>5, <1>7

\* A worker that runs leaves the calls alone.
LEMMA MovesOneOwner ==
  ASSUME OneOwner, UNCHANGED <<thread, call>>,
         \A w \in Workers : worker[w] \in {"none", "joined"} => worker'[w] = worker[w]
  PROVE  OneOwner'
  BY DEF OneOwner, Stopped

\* What a step of the owner's call leaves for the components to know.
LEMMA OwnerEffects ==
  ASSUME ControllerInv, OneOwner, CallStep(Owner) \/ StartThrows(Owner)
  PROVE  /\ \A b \in Actors : b # Owner => call'[b] = call[b]
         /\ \/ /\ call[Owner].pc \in {"start", "join_finished", "launch"}
               /\ call'[Owner].pc \in {"join_finished", "launch", "started", "refused", "threw"}
            \/ /\ call[Owner].pc \in {"stop", "take", "join"}
               /\ call'[Owner].pc \in {"take", "join", "stopped"}
         /\ \/ /\ call'[Owner].pc = "started" /\ ~stop_requested'
               /\ \E w \in Workers : /\ worker[w] = "none" /\ SetWorker(w, "born") /\ thread' = w
                                     /\ \A v \in Workers : v < w => worker[v] # "none"
                                     /\ \A v \in Workers : ~Live(v)
            \/ /\ call'[Owner].pc # "started"
               /\ \A w \in Workers : \/ worker'[w] = worker[w]
                                     \/ worker[w] = "asleep" /\ worker'[w] = "awake"
                                     \/ worker[w] = "exited" /\ worker'[w] = "joined"
               /\ stop_requested' => stop_requested \/ call'[Owner].pc = "take"
         /\ \A w \in Workers : Live(w) /\ call[Owner].pc \in {"stop", "take", "join"}
                                 => call'[Owner].pc \in {"take", "join"}
<1>1. Owner \in Actors /\ Owner \in Threads /\ Owner \notin Workers
  BY ActorsAssumption DEF Actors, Workers
<1>2. \A pc : GoTo(Owner, pc) => call'[Owner].pc = pc /\ \A b \in Actors : b # Owner => call'[b] = call[b]
  BY <1>1 DEF GoTo, ControllerInv, TypeOK
<1>3. \A pc : Take(Owner, pc) => call'[Owner].pc = pc /\ \A b \in Actors : b # Owner => call'[b] = call[b]
  BY <1>1 DEF Take, ControllerInv, TypeOK
<1>4. \A pc : Join(Owner, pc) =>
        /\ call'[Owner].pc = pc /\ \A b \in Actors : b # Owner => call'[b] = call[b]
        /\ \A w \in Workers : worker'[w] = worker[w] \/ (worker[w] = "exited" /\ worker'[w] = "joined")
  BY <1>1 DEF Join, Joinable, ControllerInv, TypeOK, Workers
<1>5. CASE StartTake(Owner)
  BY <1>2, <1>3, <1>5 DEF StartTake, At
<1>6. CASE StartJoin(Owner)
  BY <1>4, <1>6 DEF StartJoin, At
<1>7. CASE StartLaunch(Owner) /\ Overtaken
  BY <1>2, <1>7 DEF StartLaunch, At
<1>8. CASE StartLaunch(Owner) /\ ~Overtaken
  <2>1. ~running
    BY <1>8 DEF Overtaken
  <2>2. \A v \in Workers : ~Live(v)
    BY <2>1 DEF ControllerInv, Identified
  <2>3. PICK w \in Workers : /\ worker[w] = "none" /\ SetWorker(w, "born") /\ thread' = w
                             /\ \A v \in Workers : v < w => worker[v] # "none"
    BY <1>8 DEF StartLaunch
  <2>4. call[Owner].pc = "launch" /\ GoTo(Owner, "started") /\ ~stop_requested'
    BY <1>8 DEF StartLaunch, At
  <2> QED BY <1>2, <2>2, <2>3, <2>4
<1>9. CASE StartThrows(Owner)
  BY <1>2, <1>9 DEF StartThrows, At
<1>10. CASE RequestStop(Owner)
  BY <1>2, <1>10 DEF RequestStop, NotifyAll, At
<1>11. CASE StopTake(Owner)
  <2>1. ASSUME NEW w \in Workers, Live(w) PROVE ~(NothingToJoin \/ OwnThread(Owner))
    <3>1. thread # 0
      BY <1>11, <2>1, NoneHeld DEF StopTake, At, Live
    <3> QED BY <1>1, <3>1 DEF NothingToJoin, OwnThread, ControllerInv, TypeOK
  <2> QED BY <1>2, <1>3, <1>11, <2>1 DEF StopTake, At
<1>12. CASE StopJoin(Owner)
  <2>1. ASSUME NEW w \in Workers, Live(w) PROVE FALSE
    <3>1. thread = 0
      BY <1>12 DEF StopJoin, At, OneOwner
    <3>2. call[Owner].taken = w /\ w # 0
      BY <2>1, <3>1, NoneHeld DEF Live, Workers
    <3> QED BY <1>12, <2>1, <3>2 DEF StopJoin, Join, Joinable, Live
  <2> QED BY <1>4, <1>12, <2>1 DEF StopJoin, At
<1> QED BY <1>5, <1>6, <1>7, <1>8, <1>9, <1>10, <1>11, <1>12 DEF CallStep

-----------------------------------------------------------------------------
\* Where a worker of the timer is in the controller's body and in the timer's.
TimerPlaces == \A w \in Workers :
  /\ body[w] = "interval" => worker[w] \in {"none", "born", "body"}
  /\ body[w] = "wait" => worker[w] \in {"body", "asleep", "awake", "ticked", "told"}
  /\ body[w] = "callback" => worker[w] = "ticked"
  /\ body[w] = "release" => worker[w] \in {"ticked", "told"}
  /\ body[w] = "done" => worker[w] \in {"ticked", "told", "ending", "leaving", "exited", "joined"}

\* Where an actor is in its public call and in the controller's.
TimerCalls ==
  /\ \A t \in Threads : t # Owner => op[t] = "none"
  /\ \A w \in Workers : /\ op[w] # "none" => op[w] \in {"stop", "set"} /\ body[w] = "callback"
                        /\ op[w] = "stop" <=> call[w].pc # "idle"
  /\ op[Owner] \in {"none", "set"} => call[Owner].pc = "idle"
  /\ op[Owner] = "start" => call[Owner].pc \in {"idle"} \cup Starting
  /\ op[Owner] \in T!Stops => call[Owner].pc \in Stopping
  /\ impl_mutex = IF op[Owner] = "start" /\ call[Owner].pc # "idle" THEN Owner ELSE Nobody

\* The workers are launched in their order, and the interval is the one of the last
\* launch, or will be before Impl::mutex is free.
TimerSession ==
  /\ \A v, w \in Workers : v < w /\ worker[w] # "none" => worker[v] # "none"
  /\ IF call[Owner].pc = "started"
     THEN /\ thread \in Workers /\ worker[thread] \in {"born", "body"} /\ body[thread] = "interval"
          /\ \A w \in Workers : worker[w] # "none" => w <= thread
     ELSE \A w \in Workers : worker[w] # "none" => w <= interval
  /\ T!OwnSettings

\* The callback is the one of the worker that runs, which holds it only to call it.
TimerCallback ==
  /\ callback # 0 => Live(callback) /\ body[callback] # "done"
  /\ \A w \in Workers : held[w] # 0 => body[w] = "callback"

\* A worker whose interval ended may take its callback after a stop was requested,
\* but then the owner still has to join it.
TimerStops == \A w \in Workers :
  stop_requested /\ worker[w] = "ticked" /\ body[w] = "wait" => call[Owner].pc \in {"take", "join"}

TimerInv == T!TimerTypeOK /\ OneOwner /\ TimerPlaces /\ TimerCalls /\ TimerSession /\ TimerCallback /\ TimerStops

\* Timer names the actions of the controller it embeds.
LEMMA TimerUses ==
  /\ T!Workers = Workers /\ T!Actors = Actors
  /\ T!vars = vars /\ (T!Init <=> Init)
  /\ \A a : /\ T!CallStep(a) <=> CallStep(a)
            /\ T!StartThrows(a) <=> StartThrows(a)
            /\ T!WorkerEnters(a) <=> WorkerEnters(a)
            /\ T!WorkerEnds(a) <=> WorkerEnds(a)
            /\ T!WorkerLeaves(a) <=> WorkerLeaves(a)
            /\ T!WaitFor(a) <=> WaitFor(a)
            /\ T!WaitTimeout(a) <=> WaitTimeout(a)
            /\ T!BodyEnds(a) <=> BodyEnds(a)
  /\ \A a, pc : /\ T!GoTo(a, pc) <=> GoTo(a, pc)
                /\ T!At(a, pc) <=> At(a, pc)
                /\ T!SetWorker(a, pc) <=> SetWorker(a, pc)
  BY DEF T!Workers, Workers, T!Actors, Actors, T!vars, vars, T!Init, Init,
     T!CallStep, CallStep, T!StartTake, StartTake, T!StartJoin, StartJoin, T!StartLaunch, StartLaunch,
     T!RequestStop, RequestStop, T!StopTake, StopTake, T!StopJoin, StopJoin, T!StartThrows, StartThrows,
     T!At, At, T!GoTo, GoTo, T!Take, Take, T!SetWorker, SetWorker, T!Joinable, Joinable, T!Join, Join,
     T!Overtaken, Overtaken, T!NotifyAll, NotifyAll, T!OwnThread, OwnThread, T!NothingToJoin, NothingToJoin,
     T!WorkerEnters, WorkerEnters, T!WorkerEnds, WorkerEnds, T!WorkerLeaves, WorkerLeaves,
     T!WorkerMoves, WorkerMoves, T!WaitFor, WaitFor, T!WaitTimeout, WaitTimeout, T!Told, Told,
     T!BodyEnds, BodyEnds

LEMMA TimerInitHolds == T!TimerInit => Init /\ TimerInv
<1> SUFFICES ASSUME T!TimerInit PROVE Init /\ TimerInv
  OBVIOUS
<1>1. Init /\ Owner \in Actors
  BY TimerUses, ActorsAssumption DEF T!TimerInit, Actors
<1>2. T!TimerTypeOK
  BY TimerUses, ActorsAssumption DEF T!TimerInit, T!TimerTypeOK, T!Stops
<1>3. OneOwner /\ TimerStops /\ TimerPlaces /\ TimerCallback
  BY <1>1, TimerUses DEF T!TimerInit, Init, OneOwner, TimerStops, TimerPlaces, TimerCallback, Actors
<1>4. TimerCalls
  BY <1>1, TimerUses DEF T!TimerInit, Init, TimerCalls, T!Stops, Actors
<1>5. TimerSession
  BY <1>1, TimerUses DEF T!TimerInit, Init, TimerSession, T!OwnSettings, Actors
<1> QED BY <1>1, <1>2, <1>3, <1>4, <1>5 DEF TimerInv

\* A call begins: the owner's, or one the callback makes.
LEMMA TimerCallKeeps ==
  ASSUME ControllerInv, TimerInv, NEW a \in Actors, NEW o \in {"start", "stop", "set", "assign", "destroy"},
         T!TimerCall(a, o)
  PROVE  ControllerInv' /\ TimerInv'
<1>1. /\ a = Owner \/ (a \in Workers /\ body[a] = "callback" /\ o \in {"stop", "set"})
      /\ op[a] = "none" /\ op' = [op EXCEPT ![a] = o]
      /\ UNCHANGED <<running, stop_requested, thread, worker_id, worker>>
      /\ UNCHANGED <<alive, impl_mutex, interval, callback, body, held>>
  BY TimerUses DEF T!TimerCall, T!SetOp, T!InCall
<1>2. Owner \in Actors /\ Owner \in Threads /\ Threads \cap Workers = {} /\ Nobody # Owner
  BY ActorsAssumption DEF Actors, Workers
<1>3. call[a].pc = "idle" /\ call[a].taken = 0 /\ (a \in Workers => worker[a] = "ticked")
  BY <1>1, <1>2 DEF TimerInv, TimerCalls, TimerPlaces, ControllerInv, TypeOK
<1>4. IF o \in {"stop", "assign", "destroy"} THEN GoTo(a, "stop") ELSE UNCHANGED call
  BY TimerUses DEF T!TimerCall, T!Stops
<1>5. ControllerInv'
  <2>1. CASE o \in {"stop", "assign", "destroy"}
    BY <1>1, <1>3, <1>4, <2>1, PassKeeps DEF Pcs, ControllerInv, TypeOK
  <2>2. CASE o \notin {"stop", "assign", "destroy"}
    BY <1>1, <1>4, <2>2 DEF ControllerInv, TypeOK, Identified, InBody, HandleOwned, Live, Held, Holds
  <2> QED BY <2>1, <2>2
<1>6. /\ \A b \in Actors : b # a => call'[b] = call[b]
      /\ call'[a].pc = IF o \in {"stop", "assign", "destroy"} THEN "stop" ELSE "idle"
  BY <1>3, <1>4 DEF GoTo, ControllerInv, TypeOK
<1>7. /\ op' \in [Actors -> {"none", "start", "set", "stop", "assign", "destroy", "destroy_impl"}]
      /\ op'[a] = o /\ \A b \in Actors : b # a => op'[b] = op[b]
  BY <1>1, TimerUses DEF TimerInv, T!TimerTypeOK, T!Stops
<1>8. T!TimerTypeOK'
  BY <1>1, <1>2, <1>7, TimerUses DEF TimerInv, T!TimerTypeOK, T!Stops, TimerCalls, Actors
<1>9. OneOwner'
  BY <1>1, <1>2, <1>6 DEF TimerInv, OneOwner, Stopped, Actors
<1>10. TimerCalls'
  BY <1>1, <1>2, <1>3, <1>6, <1>7 DEF TimerInv, TimerCalls, T!Stops, Starting, Stopping, Actors
<1>11. TimerPlaces' /\ TimerCallback'
  BY <1>1 DEF TimerInv, TimerPlaces, TimerCallback, Live
<1>12. TimerSession'
  BY <1>1, <1>2, <1>3, <1>6, TimerUses DEF TimerInv, TimerSession, T!OwnSettings
<1>13. TimerStops'
  BY <1>1, <1>2, <1>3, <1>6 DEF TimerInv, TimerStops, Actors
<1> QED BY <1>5, <1>8, <1>9, <1>10, <1>11, <1>12, <1>13 DEF TimerInv

\* The owner's call goes on in the controller.
LEMMA TimerOwnerKeeps ==
  ASSUME ControllerInv, TimerInv, CallStep(Owner) \/ StartThrows(Owner), UNCHANGED T!timerVars
  PROVE  ControllerInv' /\ TimerInv'
<1>1. UNCHANGED <<alive, impl_mutex, interval, callback, op, body, held>>
  BY DEF T!timerVars
<1>2. Owner \in Actors /\ Owner \in Threads /\ Threads \cap Workers = {} /\ Nobody # Owner
  BY ActorsAssumption DEF Actors, Workers
<1>3. ControllerInv' /\ OneOwner'
  BY <1>2, CallKeeps, OwnerCalls DEF TimerInv
<1>4. /\ \A b \in Actors : b # Owner => call'[b] = call[b]
      /\ \/ /\ call[Owner].pc \in {"start", "join_finished", "launch"}
            /\ call'[Owner].pc \in {"join_finished", "launch", "started", "refused", "threw"}
         \/ /\ call[Owner].pc \in {"stop", "take", "join"}
            /\ call'[Owner].pc \in {"take", "join", "stopped"}
  BY OwnerEffects DEF TimerInv
<1>5. T!TimerTypeOK'
  BY <1>1, TimerUses DEF TimerInv, T!TimerTypeOK
<1>6. TimerCalls'
  BY <1>1, <1>2, <1>4 DEF TimerInv, TimerCalls, T!Stops, Starting, Stopping, Actors
<1>7. CASE /\ call'[Owner].pc = "started" /\ ~stop_requested'
           /\ \E w \in Workers : /\ worker[w] = "none" /\ SetWorker(w, "born") /\ thread' = w
                                 /\ \A v \in Workers : v < w => worker[v] # "none"
                                 /\ \A v \in Workers : ~Live(v)
  <2>1. PICK w \in Workers : /\ worker[w] = "none" /\ SetWorker(w, "born") /\ thread' = w
                             /\ \A v \in Workers : v < w => worker[v] # "none"
                             /\ \A v \in Workers : ~Live(v)
    BY <1>7
  <2>2. /\ worker'[w] = "born" /\ \A v \in Workers : v # w => worker'[v] = worker[v]
        /\ \A v \in Workers : worker'[v] # "none" => v <= w
    <3>1. worker'[w] = "born" /\ \A v \in Workers : v # w => worker'[v] = worker[v]
      BY <2>1 DEF SetWorker, ControllerInv, TypeOK
    <3>2. ASSUME NEW v \in Workers, worker'[v] # "none", ~(v <= w) PROVE FALSE
      BY <2>1, <3>1, <3>2 DEF TimerInv, TimerSession, Workers
    <3> QED BY <3>1, <3>2
  <2>3. body[w] = "interval"
    BY <2>1, TimerUses DEF TimerInv, TimerPlaces, T!TimerTypeOK
  <2>4. TimerPlaces'
    BY <1>1, <2>2, <2>3 DEF TimerInv, TimerPlaces
  <2>5. TimerSession'
    BY <1>1, <1>7, <2>1, <2>2, <2>3, TimerUses DEF TimerInv, TimerSession, T!OwnSettings, Workers
  <2>6. TimerCallback'
    BY <1>1, <2>1, TimerUses DEF TimerInv, TimerCallback, T!TimerTypeOK
  <2>7. TimerStops'
    BY <1>7 DEF TimerStops
  <2> QED BY <1>3, <1>5, <1>6, <2>4, <2>5, <2>6, <2>7 DEF TimerInv
<1>8. CASE /\ call'[Owner].pc # "started"
           /\ \A w \in Workers : \/ worker'[w] = worker[w]
                                 \/ worker[w] = "asleep" /\ worker'[w] = "awake"
                                 \/ worker[w] = "exited" /\ worker'[w] = "joined"
           /\ stop_requested' => stop_requested \/ call'[Owner].pc = "take"
  <2>1. TimerPlaces'
    BY <1>1, <1>8 DEF TimerInv, TimerPlaces
  <2>2. TimerSession'
    BY <1>1, <1>4, <1>8, TimerUses DEF TimerInv, TimerSession, T!OwnSettings
  <2>3. TimerCallback'
    BY <1>1, <1>8, TimerUses DEF TimerInv, TimerCallback, T!TimerTypeOK, Live
  <2>4. TimerStops'
    <3> SUFFICES ASSUME NEW w \in Workers, stop_requested', worker'[w] = "ticked", body'[w] = "wait"
                 PROVE  call'[Owner].pc \in {"take", "join"}
      BY DEF TimerStops
    <3>1. worker[w] = "ticked" /\ Live(w) /\ body[w] = "wait"
      BY <1>1, <1>8 DEF Live
    <3>2. CASE stop_requested
      <4>1. call[Owner].pc \in {"stop", "take", "join"}
        BY <3>1, <3>2 DEF TimerInv, TimerStops
      <4> QED BY <3>1, <4>1, OwnerEffects DEF TimerInv
    <3> QED BY <1>8, <3>2
  <2> QED BY <1>3, <1>5, <1>6, <2>1, <2>2, <2>3, <2>4 DEF TimerInv
<1> QED BY <1>7, <1>8, OwnerEffects DEF TimerInv

\* The stop of a callback goes on in the controller.
LEMMA TimerBodyKeeps ==
  ASSUME ControllerInv, TimerInv, NEW a \in Workers, CallStep(a) \/ StartThrows(a), UNCHANGED T!timerVars
  PROVE  ControllerInv' /\ TimerInv'
<1>1. UNCHANGED <<alive, impl_mutex, interval, callback, op, body, held>>
  BY DEF T!timerVars
<1>2. Owner \in Actors /\ Owner \in Threads /\ a \in Actors /\ a # Owner /\ Threads \cap Workers = {}
  BY ActorsAssumption DEF Actors, Workers
<1>3. ControllerInv'
  BY <1>2, CallKeeps
<1>4. /\ OneOwner' /\ UNCHANGED <<running, thread, worker_id>>
      /\ \A b \in Actors : b # a => call'[b] = call[b]
      /\ call[a].pc \in {"stop", "take"} /\ call'[a].pc \in {"take", "stopped"}
      /\ \/ NotifyAll /\ stop_requested'
         \/ UNCHANGED <<stop_requested, worker>>
  BY BodyCalls DEF TimerInv
<1>5. \A w \in Workers : worker'[w] = worker[w] \/ (worker[w] = "asleep" /\ worker'[w] = "awake")
  BY <1>4 DEF NotifyAll
<1>6. T!TimerTypeOK'
  BY <1>1, TimerUses DEF TimerInv, T!TimerTypeOK
<1>7. TimerPlaces' /\ TimerCallback'
  BY <1>1, <1>5, TimerUses DEF TimerInv, TimerPlaces, TimerCallback, T!TimerTypeOK, Live
<1>8. TimerCalls'
  BY <1>1, <1>2, <1>4 DEF TimerInv, TimerCalls, Actors
<1>9. TimerSession'
  BY <1>1, <1>2, <1>4, <1>5, TimerUses DEF TimerInv, TimerSession, T!OwnSettings
<1>10. TimerStops'
  <2>1. op[a] # "none"
    BY <1>4 DEF TimerInv, TimerCalls
  <2>2. body[a] = "callback" /\ Live(a)
    BY <2>1 DEF TimerInv, TimerCalls, TimerPlaces, Live
  <2>3. \A w \in Workers : worker[w] = "ticked" => w = a
    BY <2>2 DEF ControllerInv, Identified, Live
  <2> QED BY <1>1, <1>5, <2>2, <2>3 DEF TimerStops
<1> QED BY <1>3, <1>4, <1>6, <1>7, <1>8, <1>9, <1>10 DEF TimerInv

\* The owner's start() begins, and it ends with or without a worker.
LEMMA TimerStartKeeps ==
  ASSUME ControllerInv, TimerInv, NEW a \in Actors, T!StartBegins(a) \/ T!StartInstalls(a) \/ T!StartGivesUp(a)
  PROVE  ControllerInv' /\ TimerInv'
<1>1. Owner \in Actors /\ Owner \in Threads /\ Threads \cap Workers = {} /\ Nobody # Owner
  BY ActorsAssumption DEF Actors, Workers
<1>2. a = Owner /\ op[Owner] = "start"
  BY <1>1 DEF TimerInv, TimerCalls, T!StartBegins, T!StartInstalls, T!StartGivesUp, T!InCall, Actors
<1>3. /\ UNCHANGED <<running, stop_requested, thread, worker_id, worker>>
      /\ UNCHANGED <<alive, body, held>>
  BY DEF T!StartBegins, T!StartInstalls, T!StartGivesUp
<1>4. call[Owner].pc \in {"idle", "start", "join_finished", "launch", "started", "refused", "threw"} /\ call[Owner].taken = 0
  <2>1. call[Owner].pc \in {"idle"} \cup Starting
    BY <1>2 DEF TimerInv, TimerCalls
  <2>2. call[Owner].pc \in {"idle", "started", "refused", "threw"}
    BY <1>2, TimerUses DEF T!StartBegins, T!StartInstalls, T!StartGivesUp, At
  <2> QED BY <1>1, <2>1, <2>2 DEF Starting, ControllerInv, TypeOK
<1>5. /\ op \in [Actors -> {"none", "start", "set"} \cup T!Stops]
      /\ call \in [Actors -> [pc : Pcs, taken : {0} \cup Workers]]
  BY TimerUses DEF TimerInv, T!TimerTypeOK, ControllerInv, TypeOK, Pcs
<1>6. CASE T!StartBegins(Owner) /\ running
  <2>1. /\ call[Owner].pc = "idle" /\ op' = [op EXCEPT ![Owner] = "none"]
        /\ UNCHANGED <<call, impl_mutex, interval, callback>>
    BY <1>6, TimerUses DEF T!StartBegins, T!SetOp, At
  <2>2. op' \in [Actors -> {"none", "start", "set"} \cup T!Stops] /\ op'[Owner] = "none"
        /\ \A b \in Actors : b # Owner => op'[b] = op[b]
    BY <1>1, <1>5, <2>1
  <2>3. ControllerInv'
    BY <1>3, <2>1 DEF ControllerInv, TypeOK, Identified, InBody, HandleOwned, Live, Held, Holds
  <2>4. T!TimerTypeOK'
    BY <1>1, <1>2, <1>3, <2>1, <2>2, TimerUses DEF TimerInv, T!TimerTypeOK, TimerCalls
  <2>5. OneOwner' /\ TimerPlaces' /\ TimerCallback' /\ TimerStops'
    BY <1>3, <2>1 DEF TimerInv, OneOwner, Stopped, TimerPlaces, TimerCallback, TimerStops, Live
  <2>6. TimerCalls'
    BY <1>1, <1>2, <1>3, <2>1, <2>2 DEF TimerInv, TimerCalls, T!Stops, Actors
  <2>7. TimerSession'
    BY <1>3, <2>1, TimerUses DEF TimerInv, TimerSession, T!OwnSettings
  <2> QED BY <2>3, <2>4, <2>5, <2>6, <2>7 DEF TimerInv
<1>7. CASE T!StartBegins(Owner) /\ ~running
  <2>1. /\ call[Owner].pc = "idle" /\ GoTo(Owner, "start") /\ impl_mutex' = Owner
        /\ UNCHANGED <<op, interval, callback>>
    BY <1>2, <1>7, TimerUses DEF T!StartBegins, At
  <2>2. call'[Owner].pc = "start" /\ \A b \in Actors : b # Owner => call'[b] = call[b]
    BY <1>1, <1>5, <2>1 DEF GoTo
  <2>3. ControllerInv'
    BY <1>1, <1>3, <1>4, <2>1, PassKeeps DEF Pcs, ControllerInv, TypeOK
  <2>4. T!TimerTypeOK'
    BY <1>1, <1>2, <1>3, <2>1, TimerUses DEF TimerInv, T!TimerTypeOK
  <2>5. OneOwner' /\ TimerPlaces' /\ TimerCallback'
    BY <1>1, <1>3, <2>1, <2>2 DEF TimerInv, OneOwner, Stopped, TimerPlaces, TimerCallback, Live, Actors
  <2>6. TimerCalls'
    BY <1>1, <1>2, <1>3, <2>1, <2>2 DEF TimerInv, TimerCalls, T!Stops, Starting, Actors
  <2>7. TimerSession'
    BY <1>3, <2>1, <2>2, TimerUses DEF TimerInv, TimerSession, T!OwnSettings
  <2>8. TimerStops'
    BY <1>3, <2>1 DEF TimerInv, TimerStops
  <2> QED BY <2>3, <2>4, <2>5, <2>6, <2>7, <2>8 DEF TimerInv
<1>8. CASE T!StartInstalls(Owner) \/ T!StartGivesUp(Owner)
  <2>1. /\ call[Owner].pc \in {"started", "refused", "threw"} /\ GoTo(Owner, "idle") /\ impl_mutex' = Nobody
        /\ op' = [op EXCEPT ![Owner] = "none"]
        /\ IF call[Owner].pc = "started" THEN interval' = thread /\ callback' \in {thread, callback}
           ELSE UNCHANGED <<interval, callback>>
    BY <1>8, TimerUses DEF T!StartInstalls, T!StartGivesUp, T!Unlock, T!SetOp, At
  <2>2. call'[Owner].pc = "idle" /\ \A b \in Actors : b # Owner => call'[b] = call[b]
    BY <1>1, <1>5, <2>1 DEF GoTo
  <2>3. op' \in [Actors -> {"none", "start", "set"} \cup T!Stops] /\ op'[Owner] = "none"
        /\ \A b \in Actors : b # Owner => op'[b] = op[b]
    BY <1>1, <1>5, <2>1
  <2>4. ControllerInv'
    BY <1>1, <1>3, <1>4, <2>1, PassKeeps DEF Pcs, ControllerInv, TypeOK
  <2>5. T!TimerTypeOK'
    BY <1>1, <1>3, <2>1, <2>3, TimerUses DEF TimerInv, T!TimerTypeOK, TimerSession
  <2>6. OneOwner' /\ TimerPlaces'
    BY <1>1, <1>3, <2>2 DEF TimerInv, OneOwner, Stopped, TimerPlaces, Actors
  <2>7. TimerCalls'
    BY <1>1, <1>2, <1>3, <2>1, <2>2, <2>3 DEF TimerInv, TimerCalls, T!Stops, Actors
  <2>8. TimerSession'
    <3>1. \A w \in Workers : w \in Nat /\ (body[w] # "interval" => worker[w] # "none")
      BY TimerUses DEF TimerInv, T!TimerTypeOK, TimerPlaces, Workers
    <3>2. CASE call[Owner].pc = "started"
      BY <1>3, <2>1, <2>2, <3>1, <3>2, TimerUses DEF TimerInv, TimerSession, T!OwnSettings, Workers
    <3>3. CASE call[Owner].pc # "started"
      BY <1>3, <2>1, <2>2, <3>3, TimerUses DEF TimerInv, TimerSession, T!OwnSettings
    <3> QED BY <3>2, <3>3
  <2>9. TimerCallback'
    <3>1. call[Owner].pc = "started" => Live(thread) /\ body[thread] # "done"
      BY DEF TimerInv, TimerSession, Live
    <3> QED BY <1>3, <2>1, <3>1 DEF TimerInv, TimerCallback, Live
  <2>10. TimerStops'
    BY <1>3, <2>1, <2>2 DEF TimerInv, TimerStops
  <2> QED BY <2>4, <2>5, <2>6, <2>7, <2>8, <2>9, <2>10 DEF TimerInv
<1> QED BY <1>2, <1>6, <1>7, <1>8

\* A call ends, or a destruction goes on to stop the controller once more.
LEMMA TimerEndKeeps ==
  ASSUME ControllerInv, TimerInv, NEW a \in Actors, T!SetInterval(a) \/ T!StopEnds(a)
  PROVE  ControllerInv' /\ TimerInv'
<1>1. Owner \in Actors /\ Owner \in Threads /\ Threads \cap Workers = {} /\ Nobody # Owner
  BY ActorsAssumption DEF Actors, Workers
<1>2. /\ UNCHANGED <<running, stop_requested, thread, worker_id, worker>>
      /\ UNCHANGED <<impl_mutex, interval, callback, body, held>>
  BY DEF T!SetInterval, T!StopEnds
<1>3. PICK o \in {"none", "destroy_impl"}, pc \in {"idle", "stop"} :
        /\ op' = [op EXCEPT ![a] = o] /\ GoTo(a, pc) /\ alive' \in BOOLEAN
        /\ o = "destroy_impl" => op[a] = "destroy"
        /\ pc = "stop" <=> o = "destroy_impl"
        /\ op[a] \in {"set", "assign", "stop", "destroy", "destroy_impl"}
        /\ call[a].pc \in {"idle", "stopped"}
  <2>1. CASE T!SetInterval(a)
    BY <2>1, TimerUses DEF T!SetInterval, T!SetOp, T!InCall, TimerInv, T!TimerTypeOK
  <2>2. CASE T!StopEnds(a) /\ op[a] = "stop"
    BY <2>2, TimerUses DEF T!StopEnds, T!SetOp, T!InCall, At, TimerInv, T!TimerTypeOK
  <2>3. CASE T!StopEnds(a) /\ op[a] = "destroy"
    BY <2>3, TimerUses DEF T!StopEnds, T!SetOp, T!InCall, At, TimerInv, T!TimerTypeOK
  <2>4. CASE T!StopEnds(a) /\ op[a] = "destroy_impl"
    BY <2>4, TimerUses DEF T!StopEnds, T!SetOp, T!InCall, At, TimerInv, T!TimerTypeOK
  <2>5. CASE T!StopEnds(a) /\ op[a] \notin {"stop", "destroy", "destroy_impl"}
    BY <2>5 DEF T!StopEnds, T!InCall
  <2> QED BY <2>1, <2>2, <2>3, <2>4, <2>5
<1>4. /\ a = Owner \/ a \in Workers
      /\ a \in Workers => op[a] \in {"set", "stop"} /\ worker[a] = "ticked"
      /\ call[a].taken = 0
  BY <1>1, <1>3 DEF TimerInv, TimerCalls, TimerPlaces, ControllerInv, TypeOK, Actors
<1>5. call'[a].pc = pc /\ \A b \in Actors : b # a => call'[b] = call[b]
  BY <1>3 DEF GoTo, ControllerInv, TypeOK
<1>6. /\ op' \in [Actors -> {"none", "start", "set"} \cup T!Stops]
      /\ op'[a] = o /\ \A b \in Actors : b # a => op'[b] = op[b]
  BY <1>3, TimerUses DEF TimerInv, T!TimerTypeOK, T!Stops
<1>7. ControllerInv'
  BY <1>2, <1>3, <1>4, PassKeeps DEF Pcs, ControllerInv, TypeOK
<1>8. T!TimerTypeOK'
  BY <1>1, <1>2, <1>3, <1>4, <1>6, TimerUses DEF TimerInv, T!TimerTypeOK, TimerCalls
<1>9. OneOwner'
  BY <1>1, <1>2, <1>3, <1>4, <1>5 DEF TimerInv, OneOwner, Stopped, Actors
<1>10. TimerPlaces' /\ TimerCallback'
  BY <1>2 DEF TimerInv, TimerPlaces, TimerCallback, Live
<1>11. TimerCalls'
  BY <1>1, <1>2, <1>3, <1>4, <1>5, <1>6 DEF TimerInv, TimerCalls, T!Stops, Stopping, Actors
<1>12. TimerSession'
  BY <1>1, <1>2, <1>3, <1>4, <1>5, TimerUses DEF TimerInv, TimerSession, T!OwnSettings
<1>13. TimerStops'
  BY <1>1, <1>2, <1>3, <1>4, <1>5 DEF TimerInv, TimerStops, Actors
<1> QED BY <1>7, <1>8, <1>9, <1>10, <1>11, <1>12, <1>13 DEF TimerInv

\* The worker goes on in the controller, and its body stays where it is.
LEMMA TimerWaitKeeps ==
  ASSUME ControllerInv, TimerInv, NEW w \in Workers, UNCHANGED T!timerVars,
         \/ WorkerEnters(w) \/ WorkerEnds(w) \/ WorkerLeaves(w)
         \/ body[w] = "wait" /\ WaitFor(w)
         \/ WaitTimeout(w)
         \/ body[w] = "done" /\ BodyEnds(w)
  PROVE  ControllerInv' /\ TimerInv'
<1>1. UNCHANGED <<alive, impl_mutex, interval, callback, op, body, held>>
  BY DEF T!timerVars
<1>2. ControllerInv'
  BY ActorsAssumption, MovesKeep DEF WorkerStep
<1>3. PICK pc \in Places :
        /\ SetWorker(w, pc) /\ UNCHANGED <<stop_requested, thread, call>>
        /\ \/ worker[w] = "born" /\ pc = "body"
           \/ worker[w] = "ending" /\ pc = "leaving"
           \/ worker[w] = "leaving" /\ pc = "exited"
           \/ worker[w] \in {"body", "awake"} /\ pc \in {"told", "asleep"} /\ body[w] = "wait"
           \/ worker[w] = "asleep" /\ (pc = "told" \/ (pc = "ticked" /\ ~stop_requested))
           \/ worker[w] \in {"ticked", "told"} /\ pc = "ending" /\ body[w] = "done"
  BY DEF WorkerEnters, WorkerEnds, WorkerLeaves, WaitFor, WaitTimeout, BodyEnds, WorkerMoves, Told, Places
<1>4. worker'[w] = pc /\ \A v \in Workers : v # w => worker'[v] = worker[v]
  BY <1>3 DEF SetWorker, ControllerInv, TypeOK
<1>5. T!TimerTypeOK' /\ TimerCalls'
  BY <1>1, <1>3, TimerUses DEF TimerInv, T!TimerTypeOK, TimerCalls
<1>6. OneOwner'
  BY <1>3, <1>4, MovesOneOwner DEF TimerInv
<1>7. TimerPlaces'
  BY <1>1, <1>3, <1>4 DEF TimerInv, TimerPlaces
<1>8. TimerSession'
  BY <1>1, <1>3, <1>4, TimerUses DEF TimerInv, TimerSession, TimerPlaces, T!OwnSettings
<1>9. TimerCallback'
  <2>1. ASSUME callback = w PROVE Live(w)' /\ worker[w] \notin {"ending", "leaving"}
    <3>1. body[w] \in {"interval", "wait", "callback", "release", "done"}
      BY TimerUses DEF TimerInv, T!TimerTypeOK
    <3>2. Live(w) /\ body[w] # "done"
      BY <2>1 DEF TimerInv, TimerCallback, Workers
    <3> QED BY <1>3, <1>4, <3>1, <3>2 DEF TimerInv, TimerPlaces, Live
  <2> QED BY <1>1, <1>4, <2>1, TimerUses DEF TimerInv, T!TimerTypeOK, TimerCallback, Live
<1>10. TimerStops'
  BY <1>1, <1>3, <1>4 DEF TimerInv, TimerStops
<1> QED BY <1>2, <1>5, <1>6, <1>7, <1>8, <1>9, <1>10 DEF TimerInv

\* The body of the worker: it begins the wait for its own interval, and calls its
\* own callback.
LEMMA TimerCallbackKeeps ==
  ASSUME ControllerInv, TimerInv, NEW w \in Workers,
         \/ T!ReadInterval(w) \/ T!BodyTold(w) \/ T!TakeCallback(w)
         \/ T!ReleaseCallback(w) \/ T!CallbackEnds(w)
  PROVE  ControllerInv' /\ TimerInv'
<1>1. Owner \in Actors /\ Owner \in Threads /\ Threads \cap Workers = {} /\ w \in Actors /\ Nobody # Owner
  BY ActorsAssumption DEF Actors, Workers
<1>2. /\ UNCHANGED <<running, stop_requested, thread, worker_id, call>>
      /\ UNCHANGED <<alive, impl_mutex, interval, op>>
  BY DEF T!ReadInterval, T!BodyTold, T!TakeCallback, T!ReleaseCallback, T!CallbackEnds, T!BodyMoves
<1>3. PICK pc \in {"interval", "wait", "callback", "release", "done"} :
        /\ body' = [body EXCEPT ![w] = pc]
        /\ \/ /\ T!ReadInterval(w) /\ worker[w] = "body" /\ body[w] = "interval" /\ pc = "wait"
              /\ impl_mutex = Nobody /\ UNCHANGED <<worker, callback, held>>
           \/ /\ worker[w] = "told" /\ body[w] = "wait" /\ pc = "release"
              /\ UNCHANGED <<worker, callback, held>>
           \/ /\ worker[w] = "ticked" /\ body[w] = "wait" /\ pc = (IF callback = 0 THEN "release" ELSE "callback")
              /\ impl_mutex = Nobody /\ held' = [held EXCEPT ![w] = callback]
              /\ UNCHANGED <<worker, callback>>
           \/ /\ body[w] = "release" /\ pc = "done" /\ callback' = 0
              /\ UNCHANGED <<worker, held>>
           \/ /\ body[w] = "callback" /\ op[w] = "none" /\ held' = [held EXCEPT ![w] = 0]
              /\ (pc = "interval" /\ SetWorker(w, "body")) \/ (pc = "release" /\ UNCHANGED worker)
              /\ UNCHANGED callback
  BY TimerUses DEF T!ReadInterval, T!BodyTold, T!TakeCallback, T!ReleaseCallback, T!CallbackEnds, T!BodyMoves,
     T!MutexFree, T!Released, T!InCall
<1>4. /\ body' \in [Workers -> {"interval", "wait", "callback", "release", "done"}]
      /\ body'[w] = pc /\ \A v \in Workers : v # w => body'[v] = body[v]
  BY <1>3, TimerUses DEF TimerInv, T!TimerTypeOK
<1>5. /\ held' \in [Workers -> {0} \cup Workers]
      /\ \A v \in Workers : v # w => held'[v] = held[v]
      /\ held'[w] \in {held[w], 0, callback}
      /\ callback' \in {0, callback}
  BY <1>3, TimerUses DEF TimerInv, T!TimerTypeOK
<1>6. IF pc # "interval" THEN UNCHANGED worker
      ELSE /\ body[w] = "callback" /\ op[w] = "none" /\ SetWorker(w, "body")
           /\ worker'[w] = "body" /\ \A v \in Workers : v # w => worker'[v] = worker[v]
  BY <1>3 DEF SetWorker, ControllerInv, TypeOK
<1>7. ControllerInv'
  <2>1. CASE UNCHANGED worker
    BY <1>2, <2>1 DEF ControllerInv, TypeOK, Identified, InBody, HandleOwned, Live, Held, Holds
  <2>2. CASE body[w] = "callback" /\ op[w] = "none" /\ SetWorker(w, "body")
    <3>1. BodyTicks(w)
      BY <1>1, <1>2, <2>2 DEF BodyTicks, WorkerMoves, At, TimerInv, TimerPlaces, TimerCalls
    <3> QED BY <3>1, ActorsAssumption, MovesKeep
  <2> QED BY <1>6, <2>1, <2>2
<1>8. T!TimerTypeOK'
  BY <1>2, <1>4, <1>5, TimerUses DEF TimerInv, T!TimerTypeOK
<1>9. OneOwner'
  BY <1>2, <1>6, MovesOneOwner DEF TimerInv, TimerPlaces
<1>10. TimerPlaces'
  <2>1. \A v \in Workers : v # w => body'[v] = body[v] /\ worker'[v] = worker[v]
    BY <1>4, <1>6
  <2>2. \/ pc = "wait" /\ worker[w] = "body"
        \/ pc = "release" /\ worker[w] \in {"ticked", "told"}
        \/ pc = "callback" /\ worker[w] = "ticked"
        \/ pc = "done" /\ worker[w] \in {"ticked", "told"}
        \/ pc = "interval"
    BY <1>3 DEF TimerInv, TimerPlaces
  <2> QED BY <1>4, <1>6, <2>1, <2>2 DEF TimerInv, TimerPlaces
<1>11. TimerCalls'
  BY <1>1, <1>2, <1>3, <1>4 DEF TimerInv, TimerCalls, Actors
<1>12. Live(w) /\ \A v \in Workers : Live(v) => v = w
  <2>1. body[w] = "release" => worker[w] \in {"ticked", "told"}
    BY DEF TimerInv, TimerPlaces
  <2>2. Live(w)
    BY <1>3, <2>1 DEF TimerInv, TimerPlaces, Live
  <2> QED BY <2>2 DEF ControllerInv, Identified
<1>13. \A v \in Workers : Live(v)' <=> Live(v)
  BY <1>6, <1>12 DEF Live, TimerInv, TimerPlaces
<1>14. TimerCallback'
  BY <1>3, <1>4, <1>5, <1>13, TimerUses DEF TimerInv, TimerCallback, T!TimerTypeOK
<1>15. TimerSession'
  <2>1. /\ \A v \in Workers : worker'[v] # "none" <=> worker[v] # "none"
        /\ UNCHANGED <<thread, interval, call>>
    BY <1>2, <1>6 DEF TimerInv, TimerPlaces
  <2>2. call[Owner].pc = "started" => impl_mutex = Owner /\ (thread = w => worker[w] # "ticked" /\ body[w] = "interval")
    BY <1>1, TimerUses DEF TimerInv, T!TimerTypeOK, TimerCalls, TimerSession, Starting, Stopping
  <2>3. call[Owner].pc = "started" => thread # w
    BY <1>1, <1>3, <2>2
  <2>4. call[Owner].pc = "started" => FALSE
    BY <1>12, <2>3 DEF TimerInv, TimerSession, Live
  <2>5. w \in Nat /\ w <= interval
    BY <1>12, <2>4 DEF TimerInv, TimerSession, Live, Workers
  <2>6. callback # 0 => callback = w
    BY <1>12, TimerUses DEF TimerInv, TimerCallback, T!TimerTypeOK
  <2>7. T!OwnSettings'
    <3> SUFFICES ASSUME NEW v \in Workers
                 PROVE  /\ body'[v] # "interval" => interval' >= v
                        /\ body'[v] = "callback" => held'[v] = v
      BY TimerUses DEF T!OwnSettings
    <3>1. CASE v = w
      <4>1. interval \in {0} \cup Workers /\ interval >= w
        BY <2>5, TimerUses DEF TimerInv, T!TimerTypeOK, Workers
      <4>2. pc = "callback" => held'[w] = w
        BY <1>3, <2>6, TimerUses DEF TimerInv, T!TimerTypeOK
      <4> QED BY <1>4, <2>1, <3>1, <4>1, <4>2
    <3>2. CASE v # w
      BY <1>4, <1>5, <2>1, <3>2, TimerUses DEF TimerInv, TimerSession, T!OwnSettings
    <3> QED BY <3>1, <3>2
  <2> QED BY <2>1, <2>4, <2>7 DEF TimerInv, TimerSession
<1>16. TimerStops'
  BY <1>2, <1>3, <1>4, <1>6 DEF TimerInv, TimerStops
<1> QED BY <1>7, <1>8, <1>9, <1>10, <1>11, <1>14, <1>15, <1>16 DEF TimerInv

\* No step of the timer breaks the invariants of the timer and of its controller.
LEMMA TimerStep ==
  ASSUME ControllerInv, TimerInv, [T!TimerNext]_(T!allVars)
  PROVE  ControllerInv' /\ TimerInv'
<1>1. CASE UNCHANGED T!allVars
  <2>1. UNCHANGED <<running, stop_requested, thread, worker_id, worker, call>>
        /\ UNCHANGED <<alive, impl_mutex, interval, callback, op, body, held>>
    BY <1>1 DEF T!allVars, T!vars, T!timerVars
  <2>2. ControllerInv'
    BY <2>1 DEF ControllerInv, TypeOK, Identified, InBody, HandleOwned, Live, Held, Holds
  <2>3. T!TimerTypeOK'
    BY <2>1, TimerUses DEF TimerInv, T!TimerTypeOK
  <2>4. OneOwner' /\ TimerPlaces' /\ TimerCalls' /\ TimerCallback' /\ TimerStops'
    BY <2>1 DEF TimerInv, OneOwner, Stopped, TimerPlaces, TimerCalls, TimerCallback, TimerStops, Live
  <2>5. TimerSession'
    BY <2>1, TimerUses DEF TimerInv, TimerSession, T!OwnSettings
  <2> QED BY <2>2, <2>3, <2>4, <2>5 DEF TimerInv
<1>2. ASSUME NEW a \in Actors, T!TimerCallStep(a) PROVE ControllerInv' /\ TimerInv'
  <2>1. CASE (CallStep(a) \/ StartThrows(a)) /\ UNCHANGED T!timerVars
    <3>1. call[a].pc # "idle"
      BY <2>1 DEF CallStep, StartThrows, StartTake, StartJoin, StartLaunch, RequestStop, StopTake, StopJoin, At
    <3>2. a = Owner \/ a \in Workers
      BY <3>1 DEF TimerInv, OneOwner, Actors
    <3> QED BY <2>1, <3>2, TimerOwnerKeeps, TimerBodyKeeps
  <2> QED BY <1>2, <2>1, TimerUses, TimerStartKeeps, TimerEndKeeps DEF T!TimerCallStep
<1>3. ASSUME NEW w \in Workers, T!TimerWorkerStep(w) \/ T!BodyTimesOut(w) \/ T!CallbackEnds(w)
      PROVE  ControllerInv' /\ TimerInv'
  BY <1>3, TimerUses, TimerWaitKeeps, TimerCallbackKeeps
     DEF T!TimerWorkerStep, T!BodyTimesOut, T!BodyWaits, T!BodyReturns
<1> QED BY <1>1, <1>2, <1>3, TimerUses, TimerCallKeeps DEF T!TimerNext, T!Destroyed

\* What the invariant of the timer says of its settings and captures.
LEMMA TimerSafe ==
  ASSUME ControllerInv, TimerInv
  PROVE  T!OwnSettings /\ T!CapturesReleased
<1>1. ASSUME ~running PROVE callback = 0 /\ \A w \in Workers : held[w] = 0
  <2>1. \A w \in Workers : ~Live(w)
    BY <1>1 DEF ControllerInv, Identified
  <2> QED BY <2>1, TimerUses DEF TimerInv, TimerCallback, TimerPlaces, T!TimerTypeOK, Live
<1> QED BY <1>1, TimerUses DEF TimerInv, TimerSession, T!CapturesReleased

\* A callback begins after a request to stop only while the owner stops.
LEMMA TimerBegins ==
  ASSUME ControllerInv, TimerInv, T!TimerNext, NEW w \in Workers,
         body[w] # "callback", body'[w] = "callback", stop_requested
  PROVE  \E t \in Threads : op[t] \in T!Stops
<1>1. worker[w] = "ticked" /\ body[w] = "wait"
  <2>1. ASSUME body' = body PROVE FALSE
    BY <2>1
  <2>2. ASSUME NEW v \in Workers,
               \/ T!ReadInterval(v) \/ T!BodyTold(v) \/ T!CallbackEnds(v) \/ T!ReleaseCallback(v)
        PROVE  FALSE
    BY <2>2, TimerUses DEF T!ReadInterval, T!BodyTold, T!CallbackEnds, T!ReleaseCallback, T!BodyMoves, TimerInv,
       T!TimerTypeOK
  <2>3. ASSUME NEW v \in Workers, T!TakeCallback(v) PROVE v = w /\ worker[w] = "ticked" /\ body[w] = "wait"
    BY <2>3, TimerUses DEF T!TakeCallback, T!BodyMoves, TimerInv, T!TimerTypeOK
  <2>4. ASSUME NEW a \in Actors, NEW o, T!TimerCall(a, o) \/ T!TimerCallStep(a) PROVE body' = body
    BY <2>4 DEF T!TimerCall, T!TimerCallStep, T!timerVars, T!StartBegins, T!StartInstalls, T!StartGivesUp,
       T!SetInterval, T!StopEnds
  <2>5. ASSUME NEW v \in Workers, T!BodyTimesOut(v) \/ T!BodyWaits(v) \/ T!BodyReturns(v) PROVE body' = body
    BY <2>5 DEF T!BodyTimesOut, T!BodyWaits, T!BodyReturns, T!timerVars
  <2> QED BY <2>1, <2>2, <2>3, <2>4, <2>5, TimerUses
          DEF T!TimerNext, T!TimerWorkerStep, T!Destroyed, T!allVars, T!timerVars
<1>2. call[Owner].pc \in {"take", "join"}
  BY <1>1 DEF TimerInv, TimerStops
<1>3. Owner \in Threads /\ Owner \in Actors
  BY ActorsAssumption DEF Actors
<1>4. op[Owner] \in T!Stops
  BY <1>2, <1>3, TimerUses DEF TimerInv, TimerCalls, T!TimerTypeOK, Starting
<1> QED BY <1>3, <1>4

\* A stop of the owner returns when it has joined the last worker.
LEMMA TimerReturns ==
  ASSUME ControllerInv, TimerInv, T!TimerNext, NEW t \in Threads, op[t] \in T!Stops, op'[t] = "none"
  PROVE  thread' = 0 /\ \A w \in Workers : worker'[w] \in {"none", "joined"}
<1>1. t = Owner /\ t \in Actors
  BY DEF TimerInv, TimerCalls, T!Stops, Actors
<1>2. op \in [Actors -> {"none", "start", "set"} \cup T!Stops]
  BY TimerUses DEF TimerInv, T!TimerTypeOK
<1>3. ASSUME op' = op PROVE FALSE
  BY <1>3 DEF T!Stops
<1>4. ASSUME NEW a \in Actors, NEW o \in {"start", "stop", "set", "assign", "destroy"}, T!TimerCall(a, o) PROVE FALSE
  BY <1>1, <1>2, <1>4 DEF T!TimerCall, T!SetOp, T!InCall, T!Stops
<1>5. ASSUME NEW a \in Actors, T!StartBegins(a) \/ T!StartInstalls(a) \/ T!StartGivesUp(a) PROVE FALSE
  <2>1. op[a] = "start" /\ \A b \in Actors : b # a => op'[b] = op[b]
    BY <1>2, <1>5 DEF T!StartBegins, T!StartInstalls, T!StartGivesUp, T!SetOp, T!InCall
  <2> QED BY <1>1, <2>1 DEF T!Stops
<1>6. ASSUME NEW a \in Actors, T!SetInterval(a) \/ T!StopEnds(a)
      PROVE  thread' = 0 /\ \A w \in Workers : worker'[w] \in {"none", "joined"}
  <2>1. \A b \in Actors : b # a => op'[b] = op[b]
    BY <1>2, <1>6 DEF T!SetInterval, T!StopEnds, T!SetOp, T!InCall
  <2>2. a = Owner
    BY <1>1, <2>1 DEF T!Stops
  <2>3. call[Owner].pc = "stopped"
    BY <1>1, <1>6, <2>2, TimerUses DEF T!SetInterval, T!StopEnds, At, TimerInv, TimerCalls, Stopping
  <2>4. Stopped /\ UNCHANGED <<thread, worker>>
    BY <1>6, <2>3 DEF TimerInv, OneOwner, T!SetInterval, T!StopEnds
  <2> QED BY <2>4 DEF Stopped
<1>7. ASSUME NEW w \in Workers, T!TimerWorkerStep(w) \/ T!BodyTimesOut(w) \/ T!CallbackEnds(w) PROVE op' = op
  BY <1>7 DEF T!TimerWorkerStep, T!BodyTimesOut, T!CallbackEnds, T!BodyWaits, T!BodyReturns, T!timerVars,
     T!ReadInterval, T!BodyTold, T!TakeCallback, T!ReleaseCallback, T!BodyMoves
<1> QED BY <1>3, <1>4, <1>5, <1>6, <1>7, TimerUses
        DEF T!TimerNext, T!TimerCallStep, T!Destroyed, T!allVars, T!timerVars

-----------------------------------------------------------------------------
\* What access says when nothing can be read.
Bad == {"Unavailable", "PermissionDenied", "Disconnected"}

\* Where the owner is in its duty and in the controller's call; no body calls.
KeyboardCalls ==
  /\ \A w \in Workers : call[w].pc = "idle"
  /\ duty \in {"none", "gone"} => call[Owner].pc = "idle"
  /\ duty = "construct" => call[Owner].pc \in Starting
  /\ duty \in {"copy", "move"} => call[Owner].pc \in Starting \cup Stopping
  /\ duty \in {"moved", "destroy"} => call[Owner].pc \in Stopping
  /\ duty \in {"copy", "move", "moved", "destroy"} => exists
  /\ ~exists /\ duty = "none" => Stopped

\* The polling is in the body of the worker that ticked, which alone has
\* descriptors.
KeyboardPlaces ==
  /\ monitor # "wait" => K!Polling
  /\ open # {} => \E w \in Workers : worker[w] \in {"body", "asleep", "awake", "ticked", "told"}
  /\ windows => monitor \in {"wait", "decide", "invoke", "callback", "count"} /\ access \notin Bad

\* What a pass read, what it published and what it tells the callback agree.
KeyboardReports ==
  /\ monitor \in {"decide", "invoke", "callback"} => current = state
  /\ monitor \in {"access", "install"} /\ probed # "Ready" => current = {}
  /\ monitor = "install" => access = probed
  /\ access \in Bad /\ monitor # "install" => state = {}

\* A pass goes on after a stop was requested while the owner has to join it.
KeyboardStops == \A w \in Workers :
  stop_requested /\ worker[w] = "ticked" => call[Owner].pc \in {"take", "join"}

KeyboardInv == K!KeyboardTypeOK /\ OneOwner /\ KeyboardCalls /\ KeyboardPlaces /\ KeyboardReports /\ KeyboardStops

\* Keyboard names the actions of the controller it embeds.
LEMMA KeyboardUses ==
  /\ K!Workers = Workers /\ K!Actors = Actors
  /\ K!vars = vars /\ (K!Init <=> Init)
  /\ \A a : /\ K!CallStep(a) <=> CallStep(a)
            /\ K!StartThrows(a) <=> StartThrows(a)
            /\ K!WorkerEnters(a) <=> WorkerEnters(a)
            /\ K!WorkerEnds(a) <=> WorkerEnds(a)
            /\ K!WorkerLeaves(a) <=> WorkerLeaves(a)
            /\ K!WaitFor(a) <=> WaitFor(a)
            /\ K!WaitTimeout(a) <=> WaitTimeout(a)
            /\ K!BodyEnds(a) <=> BodyEnds(a)
  /\ \A a, pc : /\ K!GoTo(a, pc) <=> GoTo(a, pc)
                /\ K!At(a, pc) <=> At(a, pc)
                /\ K!WorkerMoves(a, pc) <=> WorkerMoves(a, pc)
  BY DEF K!Workers, Workers, K!Actors, Actors, K!vars, vars, K!Init, Init,
     K!CallStep, CallStep, K!StartTake, StartTake, K!StartJoin, StartJoin, K!StartLaunch, StartLaunch,
     K!RequestStop, RequestStop, K!StopTake, StopTake, K!StopJoin, StopJoin, K!StartThrows, StartThrows,
     K!At, At, K!GoTo, GoTo, K!Take, Take, K!SetWorker, SetWorker, K!Joinable, Joinable, K!Join, Join,
     K!Overtaken, Overtaken, K!NotifyAll, NotifyAll, K!OwnThread, OwnThread, K!NothingToJoin, NothingToJoin,
     K!WorkerEnters, WorkerEnters, K!WorkerEnds, WorkerEnds, K!WorkerLeaves, WorkerLeaves,
     K!WorkerMoves, WorkerMoves, K!WaitFor, WaitFor, K!WaitTimeout, WaitTimeout, K!Told, Told,
     K!BodyEnds, BodyEnds

LEMMA KeyboardInitHolds == K!KeyboardInit /\ Init => KeyboardInv
<1> SUFFICES ASSUME K!KeyboardInit, Init PROVE KeyboardInv
  OBVIOUS
<1>1. Owner \in Actors /\ RescanTicks \in Nat
  BY ActorsAssumption, BoundsAssumption DEF Actors
<1>2. K!KeyboardTypeOK
  <2>1. windows \in BOOLEAN /\ devices \in [Devices -> {"absent", "denied", "readable"}]
    BY DEF K!KeyboardInit
  <2>2. /\ pressed = {} /\ exists = FALSE /\ duty = "none" /\ monitor = "wait" /\ open = {} /\ stale = {}
        /\ ticks = 0 /\ probed = "Starting" /\ current = {} /\ notify = FALSE /\ access = "Starting"
        /\ state = {} /\ registered = FALSE /\ waiting = {}
    BY DEF K!KeyboardInit
  <2>3. ticks \in 0..RescanTicks
    BY <1>1, <2>2
  <2>4. {pressed, open, stale, current, state} \subseteq SUBSET Devices /\ {access, probed} \subseteq K!States
    BY <2>2 DEF K!States
  <2> QED BY <2>1, <2>2, <2>3, <2>4 DEF K!KeyboardTypeOK
<1>3. OneOwner /\ KeyboardCalls /\ KeyboardStops
  BY <1>1, KeyboardUses DEF K!KeyboardInit, Init, OneOwner, KeyboardCalls, KeyboardStops, Actors, Stopped
<1>4. KeyboardPlaces /\ KeyboardReports
  BY KeyboardUses DEF K!KeyboardInit, KeyboardPlaces, KeyboardReports, Bad
<1> QED BY <1>2, <1>3, <1>4 DEF KeyboardInv

\* What a step that is none of the controller's leaves as it is.
LEMMA ControllerStays ==
  ASSUME ControllerInv, UNCHANGED vars
  PROVE  ControllerInv'
  BY DEF vars, ControllerInv, TypeOK, Identified, InBody, HandleOwned, Live, Held, Holds

\* Keys, cables, permissions, registration and the wait for a scan.
LEMMA KeyboardWorldKeeps ==
  ASSUME ControllerInv, KeyboardInv,
         \/ \E d \in Devices : K!PressOrRelease(d) \/ \E to \in {"absent", "denied", "readable"} : K!DeviceChanges(d, to)
         \/ \E a \in {Owner} \cup Workers : K!Register(a) \/ K!AskReleased(a) \/ K!AskTimesOut(a)
  PROVE  ControllerInv' /\ KeyboardInv'
<1>1. /\ UNCHANGED <<running, stop_requested, thread, worker_id, worker, call>>
      /\ UNCHANGED <<windows, exists, duty, monitor, open, ticks, probed, current, notify, access, state>>
  BY DEF K!PressOrRelease, K!DeviceChanges, K!Register, K!AskReleased, K!AskTimesOut, K!vars, K!native, K!shared, K!local
<1>2. ControllerInv'
  BY <1>1, ControllerStays DEF vars
<1>3. K!KeyboardTypeOK'
  <2>1. CASE \E d \in Devices : K!PressOrRelease(d)
    BY <1>1, <2>1, KeyboardUses DEF K!PressOrRelease, K!local, K!shared, KeyboardInv, K!KeyboardTypeOK, K!States
  <2>2. ASSUME NEW d \in Devices, NEW to \in {"absent", "denied", "readable"}, K!DeviceChanges(d, to)
        PROVE  K!KeyboardTypeOK'
    <3>1. devices' \in [Devices -> {"absent", "denied", "readable"}]
      BY <2>2 DEF K!DeviceChanges, KeyboardInv, K!KeyboardTypeOK
    <3>2. stale' \subseteq open
      BY <2>2 DEF K!DeviceChanges, KeyboardInv, K!KeyboardTypeOK
    <3> QED BY <1>1, <2>2, <3>1, <3>2, KeyboardUses DEF K!DeviceChanges, K!shared, KeyboardInv, K!KeyboardTypeOK, K!States
  <2>3. ASSUME NEW a \in {Owner} \cup Workers, K!Register(a) \/ K!AskReleased(a) \/ K!AskTimesOut(a)
        PROVE  K!KeyboardTypeOK'
    BY <1>1, <2>3, KeyboardUses DEF K!Register, K!AskReleased, K!AskTimesOut, K!native, K!local, KeyboardInv,
       K!KeyboardTypeOK, K!States
  <2> QED BY <2>1, <2>2, <2>3
<1>4. OneOwner' /\ KeyboardCalls' /\ KeyboardPlaces' /\ KeyboardReports' /\ KeyboardStops'
  BY <1>1, KeyboardUses DEF KeyboardInv, OneOwner, Stopped, KeyboardCalls, KeyboardPlaces, KeyboardReports,
     KeyboardStops, K!Polling
<1> QED BY <1>2, <1>3, <1>4 DEF KeyboardInv

\* The owner's call goes on in the controller.
LEMMA KeyboardOwnerKeeps ==
  ASSUME ControllerInv, KeyboardInv, CallStep(Owner) \/ StartThrows(Owner), UNCHANGED K!keyboard
  PROVE  ControllerInv' /\ KeyboardInv'
<1>1. UNCHANGED <<windows, devices, pressed, exists, duty, monitor, open, stale, ticks, probed, current, notify,
                  access, state, registered, waiting>>
  BY DEF K!keyboard, K!native, K!local, K!shared
<1>2. Owner \in Actors /\ Owner \in Threads /\ Threads \cap Workers = {}
  BY ActorsAssumption DEF Actors, Workers
<1>3. ControllerInv' /\ OneOwner'
  BY <1>2, CallKeeps, OwnerCalls DEF KeyboardInv
<1>4. /\ \A b \in Actors : b # Owner => call'[b] = call[b]
      /\ \/ /\ call[Owner].pc \in {"start", "join_finished", "launch"}
            /\ call'[Owner].pc \in {"join_finished", "launch", "started", "refused", "threw"}
         \/ /\ call[Owner].pc \in {"stop", "take", "join"}
            /\ call'[Owner].pc \in {"take", "join", "stopped"}
  BY OwnerEffects DEF KeyboardInv
<1>5. K!KeyboardTypeOK' /\ KeyboardReports'
  BY <1>1, KeyboardUses DEF KeyboardInv, K!KeyboardTypeOK, KeyboardReports
<1>6. KeyboardCalls'
  <2>1. duty \notin {"none", "gone"}
    BY <1>4 DEF KeyboardInv, KeyboardCalls
  <2> QED BY <1>1, <1>2, <1>4, <2>1 DEF KeyboardInv, KeyboardCalls, Starting, Stopping, Actors
<1>7. KeyboardPlaces' /\ KeyboardStops'
  <2>1. CASE /\ call'[Owner].pc = "started" /\ ~stop_requested'
             /\ \E w \in Workers : /\ worker[w] = "none" /\ SetWorker(w, "born")
                                   /\ \A v \in Workers : ~Live(v)
    <3>1. monitor = "wait" /\ open = {}
      BY <2>1, KeyboardUses DEF KeyboardInv, KeyboardPlaces, K!Polling, Live
    <3> QED BY <1>1, <2>1, <3>1 DEF KeyboardInv, KeyboardPlaces, KeyboardStops
  <2>2. CASE /\ \A w \in Workers : \/ worker'[w] = worker[w]
                                   \/ worker[w] = "asleep" /\ worker'[w] = "awake"
                                   \/ worker[w] = "exited" /\ worker'[w] = "joined"
             /\ stop_requested' => stop_requested \/ call'[Owner].pc = "take"
    <3>1. KeyboardPlaces'
      <4>1. \A w \in Workers : worker[w] \in {"body", "asleep", "awake", "ticked", "told"}
                                => worker'[w] \in {"body", "asleep", "awake", "ticked", "told"}
        BY <2>2
      <4> QED BY <1>1, <2>2, <4>1, KeyboardUses DEF KeyboardInv, KeyboardPlaces, K!Polling
    <3>2. ASSUME NEW w \in Workers, stop_requested', worker'[w] = "ticked"
          PROVE  call'[Owner].pc \in {"take", "join"}
      <4>1. worker[w] = "ticked" /\ Live(w)
        BY <2>2, <3>2 DEF Live
      <4>2. CASE stop_requested
        <5>1. call[Owner].pc \in {"stop", "take", "join"}
          BY <4>1, <4>2 DEF KeyboardInv, KeyboardStops
        <5> QED BY <4>1, <5>1, OwnerEffects DEF KeyboardInv
      <4> QED BY <2>2, <3>2, <4>2
    <3> QED BY <3>1, <3>2 DEF KeyboardStops
  <2> QED BY <2>1, <2>2, OwnerEffects DEF KeyboardInv
<1> QED BY <1>3, <1>5, <1>6, <1>7 DEF KeyboardInv

\* A duty of the owner begins, goes on to the next call of the controller, or ends.
LEMMA KeyboardDutyKeeps ==
  ASSUME ControllerInv, KeyboardInv,
         \/ \E b \in K!Brought : K!Construct(b) \/ K!Assign(b)
         \/ \E o \in {"copy", "move", "moved", "destroy"} : K!Begin(o)
         \/ K!MovedFrom \/ K!Launched \/ K!LaunchFailed \/ K!Destroyed
  PROVE  ControllerInv' /\ KeyboardInv'
<1>1. Owner \in Actors /\ Owner \in Threads /\ Threads \cap Workers = {}
  BY ActorsAssumption DEF Actors, Workers
<1>2. /\ UNCHANGED <<running, stop_requested, thread, worker_id, worker>>
      /\ UNCHANGED <<windows, devices, pressed, monitor, open, stale, ticks, probed, current, notify, waiting>>
  BY DEF K!Construct, K!Assign, K!Begin, K!MovedFrom, K!Launched, K!LaunchFailed, K!Destroyed, K!controller,
     K!native, K!local, K!shared
<1>3. PICK pc \in {"idle", "start", "stop"} :
        /\ GoTo(Owner, pc) /\ call[Owner].pc \in {"idle", "stopped", "started", "refused", "threw"}
        /\ \/ duty' = duty /\ pc = "start" /\ duty \in {"copy", "move"} /\ UNCHANGED exists
           \/ duty = "none" /\ duty' = "construct" /\ pc = "start" /\ ~exists /\ UNCHANGED exists
           \/ /\ duty = "none" /\ duty' \in {"copy", "move", "moved", "destroy"} /\ pc = "stop"
              /\ exists /\ UNCHANGED exists
           \/ duty' = "none" /\ pc = "idle" /\ (exists' = TRUE \/ (exists' = exists /\ duty = "moved"))
           \/ duty' = "gone" /\ pc = "idle" /\ exists' = FALSE
        /\ \/ UNCHANGED <<access, state>> /\ registered' \in {registered, FALSE}
           \/ /\ access' \in {"Ready", "Starting"} /\ state' \subseteq Devices /\ registered' \in BOOLEAN
              /\ Stopped
  <2>1. CASE \E b \in K!Brought : K!Construct(b)
    <3>1. PICK b \in K!Brought : K!Construct(b)
      BY <2>1
    <3>2. call[Owner].pc = "idle" /\ Stopped
      BY <3>1 DEF K!Construct, K!Duty, KeyboardInv, KeyboardCalls
    <3> QED BY <3>1, <3>2, KeyboardUses DEF K!Construct, K!Bring, K!Brought, K!Duty, K!SetDuty, KeyboardInv, K!KeyboardTypeOK
  <2>2. CASE \E b \in K!Brought : K!Assign(b)
    <3>1. PICK b \in K!Brought : K!Assign(b)
      BY <2>2
    <3>2. call[Owner].pc = "stopped" /\ Stopped
      BY <3>1, KeyboardUses DEF K!Assign, At, KeyboardInv, OneOwner
    <3> QED BY <3>1, <3>2, KeyboardUses DEF K!Assign, K!Bring, K!Brought, K!Duty
  <2>3. CASE \E o \in {"copy", "move", "moved", "destroy"} : K!Begin(o)
    BY <2>3, KeyboardUses DEF K!Begin, K!Duty, K!SetDuty, K!shared, KeyboardInv, KeyboardCalls
  <2>4. CASE K!MovedFrom
    BY <2>4, KeyboardUses DEF K!MovedFrom, K!Duty, K!SetDuty, At
  <2>5. CASE K!Launched
    BY <2>5, KeyboardUses DEF K!Launched, K!SetDuty, K!shared
  <2>6. CASE K!LaunchFailed
    BY <2>6, KeyboardUses DEF K!LaunchFailed, K!Duty, K!SetDuty, K!shared, At
  <2>7. CASE K!Destroyed
    BY <2>7, KeyboardUses DEF K!Destroyed, K!Duty, K!SetDuty, K!shared, At
  <2> QED BY <2>1, <2>2, <2>3, <2>4, <2>5, <2>6, <2>7
<1>4. call[Owner].taken = 0
  BY <1>1, <1>3 DEF ControllerInv, TypeOK
<1>5. call'[Owner].pc = pc /\ \A b \in Actors : b # Owner => call'[b] = call[b]
  BY <1>1, <1>3 DEF GoTo, ControllerInv, TypeOK
<1>6. ControllerInv'
  BY <1>1, <1>2, <1>3, <1>4, PassKeeps DEF Pcs, ControllerInv, TypeOK
<1>7. K!KeyboardTypeOK'
  BY <1>2, <1>3, KeyboardUses DEF KeyboardInv, K!KeyboardTypeOK, K!States
<1>8. OneOwner'
  BY <1>1, <1>2, <1>3, <1>5 DEF KeyboardInv, OneOwner, Stopped, Actors
<1>9. KeyboardCalls'
  BY <1>1, <1>2, <1>3, <1>5 DEF KeyboardInv, KeyboardCalls, Starting, Stopping, Actors
<1>10. Stopped => monitor = "wait"
  BY KeyboardUses DEF Stopped, KeyboardInv, KeyboardPlaces, K!Polling
<1>11. KeyboardPlaces' /\ KeyboardReports'
  BY <1>2, <1>3, <1>10, KeyboardUses DEF KeyboardInv, KeyboardPlaces, KeyboardReports, K!Polling, Bad
<1>12. KeyboardStops'
  BY <1>2, <1>3 DEF KeyboardInv, KeyboardStops
<1> QED BY <1>6, <1>7, <1>8, <1>9, <1>11, <1>12 DEF KeyboardInv

\* The monitor enters and leaves its loop, and waits in it.
LEMMA KeyboardMonitorKeeps ==
  ASSUME ControllerInv, KeyboardInv, NEW w \in Workers,
         \/ K!MonitorStarts(w) \/ K!MonitorEnds(w)
         \/ (WaitFor(w) \/ WaitTimeout(w) \/ WorkerEnds(w) \/ WorkerLeaves(w)) /\ UNCHANGED K!keyboard
  PROVE  ControllerInv' /\ KeyboardInv'
<1>1. ControllerInv'
  BY ActorsAssumption, MovesKeep, KeyboardUses DEF WorkerStep, K!MonitorStarts, K!MonitorEnds
<1>2. /\ UNCHANGED <<windows, devices, pressed, exists, duty, probed, current, notify, access, state, registered, waiting>>
      /\ UNCHANGED <<thread, call, stop_requested>>
  BY KeyboardUses DEF K!MonitorStarts, K!MonitorEnds, K!keyboard, K!native, K!local, K!shared, WorkerEnters, BodyEnds,
     WorkerMoves, WaitFor, WaitTimeout, WorkerEnds, WorkerLeaves
<1>3. PICK pc \in Places :
        /\ SetWorker(w, pc)
        /\ \/ worker[w] = "born" /\ pc = "body" /\ monitor' = "wait" /\ open' = {} /\ stale' = {} /\ ticks' = 0
           \/ worker[w] = "told" /\ pc = "ending" /\ UNCHANGED monitor /\ open' = {} /\ stale' = {} /\ ticks' = 0
           \/ /\ UNCHANGED <<monitor, open, stale, ticks>>
              /\ \/ worker[w] = "ending" /\ pc = "leaving"
                 \/ worker[w] = "leaving" /\ pc = "exited"
                 \/ worker[w] \in {"body", "awake"} /\ pc \in {"told", "asleep"}
                 \/ worker[w] = "asleep" /\ (pc = "told" \/ (pc = "ticked" /\ ~stop_requested))
  <2>1. CASE K!MonitorStarts(w)
    BY <2>1, KeyboardUses DEF K!MonitorStarts, WorkerEnters, Places
  <2>2. CASE K!MonitorEnds(w)
    BY <2>2, KeyboardUses DEF K!MonitorEnds, K!Closed, BodyEnds, WorkerMoves, Places
  <2>3. CASE (WaitFor(w) \/ WaitTimeout(w) \/ WorkerEnds(w) \/ WorkerLeaves(w)) /\ UNCHANGED K!keyboard
    BY <2>3 DEF WaitFor, WaitTimeout, WorkerEnds, WorkerLeaves, WorkerMoves, Told, Places, K!keyboard, K!local
  <2> QED BY <2>1, <2>2, <2>3
<1>4. worker'[w] = pc /\ \A v \in Workers : v # w => worker'[v] = worker[v]
  BY <1>3 DEF SetWorker, ControllerInv, TypeOK
<1>5. K!KeyboardTypeOK'
  BY <1>2, <1>3, BoundsAssumption, KeyboardUses DEF KeyboardInv, K!KeyboardTypeOK, K!States
<1>6. OneOwner'
  BY <1>2, <1>3, <1>4, MovesOneOwner DEF KeyboardInv
<1>7. KeyboardCalls'
  BY <1>2, <1>3, <1>4 DEF KeyboardInv, KeyboardCalls, Stopped
<1>8. KeyboardPlaces'
  <2>1. K!Polling => K!Polling'
    BY <1>3, <1>4, KeyboardUses DEF K!Polling
  <2>2. open' # {} => \E v \in Workers : worker'[v] \in {"body", "asleep", "awake", "ticked", "told"}
    BY <1>3, <1>4 DEF KeyboardInv, KeyboardPlaces
  <2>3. monitor' \in {monitor, "wait"}
    BY <1>3
  <2> QED BY <1>2, <2>1, <2>2, <2>3 DEF KeyboardInv, KeyboardPlaces
<1>9. KeyboardReports'
  <2>1. CASE worker[w] = "born"
    <3>1. monitor = "wait"
      <4>1. \A v \in Workers : worker[v] # "ticked"
        BY <2>1 DEF ControllerInv, Identified, Live
      <4> QED BY <4>1, KeyboardUses DEF KeyboardInv, KeyboardPlaces, K!Polling
    <3>2. monitor' = "wait"
      BY <1>3, <2>1
    <3> QED BY <1>2, <3>1, <3>2 DEF KeyboardInv, KeyboardReports
  <2>2. CASE worker[w] # "born"
    BY <1>2, <1>3, <2>2 DEF KeyboardInv, KeyboardReports
  <2> QED BY <2>1, <2>2
<1>10. KeyboardStops'
  BY <1>2, <1>3, <1>4 DEF KeyboardInv, KeyboardStops
<1> QED BY <1>1, <1>5, <1>6, <1>7, <1>8, <1>9, <1>10 DEF KeyboardInv

\* A pass of the loop: every step but the last leaves the controller alone.
LEMMA KeyboardPassKeeps ==
  ASSUME ControllerInv, KeyboardInv, NEW w \in Workers,
         \/ K!Scan(w) \/ K!ScanFails(w) \/ K!CountDown(w) \/ K!Capture(w) \/ K!PublishAccess(w) \/ K!Publish(w)
         \/ K!Sample(w) \/ K!Decide(w) \/ K!Invoke(w) \/ K!CallbackReturns(w)
  PROVE  ControllerInv' /\ KeyboardInv'
<1>1. /\ UNCHANGED <<running, stop_requested, thread, worker_id, worker, call>>
      /\ UNCHANGED <<windows, devices, pressed, exists, duty, waiting>>
  BY DEF K!Scan, K!ScanFails, K!CountDown, K!Capture, K!PublishAccess, K!Publish, K!Sample, K!Install, K!Decide, K!Invoke,
     K!CallbackReturns, K!Polls, K!vars, K!native, K!shared
<1>2. ControllerInv'
  BY <1>1, ControllerStays DEF vars
<1>3. OneOwner' /\ KeyboardCalls' /\ KeyboardStops'
  BY <1>1 DEF KeyboardInv, OneOwner, Stopped, KeyboardCalls, KeyboardStops
<1>4. worker[w] = "ticked" /\ K!Polling /\ K!Polling'
  BY <1>1, KeyboardUses DEF K!Scan, K!ScanFails, K!CountDown, K!Capture, K!PublishAccess, K!Publish, K!Sample, K!Decide,
     K!Invoke, K!CallbackReturns, K!Polls, K!Polling
<1>5. /\ access \in K!States /\ probed \in K!States /\ ticks \in 0..RescanTicks /\ RescanTicks \in Nat
      /\ notify \in BOOLEAN /\ registered \in BOOLEAN
      /\ pressed \subseteq Devices /\ open \subseteq Devices /\ stale \subseteq open /\ current \subseteq Devices
      /\ state \subseteq Devices /\ (windows => open = {})
  BY BoundsAssumption DEF KeyboardInv, K!KeyboardTypeOK
<1>6. /\ monitor' \in {"wait", "capture", "access", "install", "decide", "invoke", "callback", "count"}
      /\ access' \in K!States /\ probed' \in K!States /\ ticks' \in 0..RescanTicks
      /\ notify' \in BOOLEAN /\ registered' \in BOOLEAN
      /\ open' \subseteq Devices /\ stale' \subseteq open' /\ current' \subseteq Devices
      /\ state' \subseteq Devices /\ (windows => open' = {})
      /\ windows => monitor' \in {"wait", "decide", "invoke", "callback", "count"} /\ access' = access
      /\ monitor' \in {"decide", "invoke", "callback"} => current' = state'
      /\ monitor' \in {"access", "install"} /\ probed' # "Ready" => current' = {}
      /\ monitor' = "install" => access' = probed'
      /\ access' \in Bad /\ monitor' # "install" => state' = {}
  <2> USE <1>5 DEF K!States, Bad, KeyboardPlaces, KeyboardReports, KeyboardInv, K!Polls
  <2>1. CASE K!Scan(w) \/ K!ScanFails(w)
    <3>1. /\ ~windows /\ monitor = "wait" /\ monitor' = "capture" /\ ticks' = RescanTicks /\ stale' = {}
          /\ UNCHANGED <<current, notify, access, state, registered>>
          /\ open' \subseteq Devices /\ probed' \in {"Ready", "PermissionDenied", "Unavailable"}
      BY <2>1 DEF K!Scan, K!ScanFails, K!shared, K!Readable, K!Refused
    <3> QED BY <3>1
  <2>2. CASE K!CountDown(w)
    <3>1. /\ ~windows /\ monitor = "wait" /\ monitor' = "capture" /\ ticks' = ticks - 1 /\ ticks # 0
          /\ UNCHANGED <<open, stale, current, notify, access, state, registered>> /\ probed' = access
      BY <2>2 DEF K!CountDown, K!Countdown, K!shared
    <3> QED BY <3>1
  <2>3. CASE K!Capture(w)
    <3>1. /\ ~windows /\ monitor = "capture" /\ monitor' = "access"
          /\ UNCHANGED <<notify, access, state, registered>>
          /\ \/ probed # "Ready" /\ current' = {} /\ UNCHANGED <<open, stale, ticks, probed>>
             \/ /\ probed = "Ready" /\ current' \subseteq pressed /\ open' = open \ stale /\ stale' = {}
                /\ UNCHANGED <<ticks, probed>>
             \/ /\ current' = {} /\ open' = {} /\ stale' = {} /\ ticks' = RescanTicks
                /\ probed' \in {"PermissionDenied", "Disconnected"}
      BY <2>3 DEF K!Capture, K!shared
    <3> QED BY <3>1
  <2>4. CASE K!PublishAccess(w)
    BY <2>4 DEF K!PublishAccess
  <2>5. CASE K!Publish(w)
    BY <2>5 DEF K!Publish, K!Install
  <2>6. CASE K!Sample(w)
    BY <2>6 DEF K!Sample, K!Install
  <2>7. CASE K!Decide(w) \/ K!Invoke(w) \/ K!CallbackReturns(w)
    <3>1. /\ \/ monitor = "decide" /\ monitor' \in {"invoke", "count"}
             \/ monitor = "invoke" /\ monitor' = "callback"
             \/ monitor = "callback" /\ monitor' = "count"
          /\ UNCHANGED <<open, stale, ticks, probed, current, notify, access, state>>
          /\ registered' \in {registered, FALSE}
      BY <2>7 DEF K!Decide, K!Invoke, K!CallbackReturns, K!shared
    <3> QED BY <3>1
  <2> QED BY <2>1, <2>2, <2>3, <2>4, <2>5, <2>6, <2>7
<1>7. K!KeyboardTypeOK'
  <2>1. /\ windows \in BOOLEAN /\ exists \in BOOLEAN /\ devices \in [Devices -> {"absent", "denied", "readable"}]
        /\ duty \in {"none", "construct", "copy", "move", "moved", "destroy", "gone"}
        /\ waiting \subseteq {Owner} \cup K!Workers
    BY DEF KeyboardInv, K!KeyboardTypeOK
  <2>2. {pressed', open', stale', current', state'} \subseteq SUBSET Devices /\ {access', probed'} \subseteq K!States
    BY <1>1, <1>5, <1>6
  <2> QED BY <1>1, <1>6, <2>1, <2>2, KeyboardUses DEF K!KeyboardTypeOK, K!States
<1>8. KeyboardPlaces'
  BY <1>1, <1>4, <1>6 DEF KeyboardInv, KeyboardPlaces
<1>9. KeyboardReports'
  BY <1>6 DEF KeyboardReports
<1> QED BY <1>2, <1>3, <1>7, <1>8, <1>9 DEF KeyboardInv

\* The pass ends, and the worker waits again.
LEMMA KeyboardCountKeeps ==
  ASSUME ControllerInv, KeyboardInv, NEW w \in Workers, K!CountScan(w)
  PROVE  ControllerInv' /\ KeyboardInv'
<1>1. /\ worker[w] = "ticked" /\ WorkerMoves(w, "body") /\ monitor = "count" /\ monitor' = "wait"
      /\ probed' = "Starting" /\ current' = {} /\ notify' = FALSE /\ waiting' = {}
      /\ UNCHANGED <<windows, devices, pressed, exists, duty, open, stale, ticks, access, state, registered>>
  BY KeyboardUses DEF K!CountScan, K!Polls, K!native
<1>2. BodyTicks(w)
  BY <1>1 DEF BodyTicks, At, KeyboardInv, KeyboardCalls
<1>3. ControllerInv'
  BY <1>2, ActorsAssumption, MovesKeep
<1>4. /\ worker'[w] = "body" /\ \A v \in Workers : v # w => worker'[v] = worker[v]
      /\ UNCHANGED <<running, stop_requested, thread, worker_id, call>>
  BY <1>1 DEF WorkerMoves, SetWorker, ControllerInv, TypeOK
<1>5. K!KeyboardTypeOK'
  BY <1>1, KeyboardUses DEF KeyboardInv, K!KeyboardTypeOK, K!States
<1>6. OneOwner'
  BY <1>1, <1>4, MovesOneOwner DEF KeyboardInv
<1>7. KeyboardCalls' /\ KeyboardStops'
  BY <1>1, <1>4 DEF KeyboardInv, KeyboardCalls, KeyboardStops, Stopped
<1>8. KeyboardPlaces' /\ KeyboardReports'
  BY <1>1, <1>4 DEF KeyboardInv, KeyboardPlaces, KeyboardReports
<1> QED BY <1>3, <1>5, <1>6, <1>7, <1>8 DEF KeyboardInv

\* No step of the keyboard breaks its invariant.
LEMMA KeyboardStep ==
  ASSUME ControllerInv, KeyboardInv, [K!KeyboardNext]_(K!everything)
  PROVE  ControllerInv' /\ KeyboardInv'
<1>1. CASE UNCHANGED K!everything
  <2>1. /\ UNCHANGED <<running, stop_requested, thread, worker_id, worker, call>>
        /\ UNCHANGED <<windows, devices, pressed, exists, duty, monitor, open, stale, ticks, probed, current, notify,
                       access, state, registered, waiting>>
    BY <1>1 DEF K!everything, K!vars, K!keyboard, K!native, K!local, K!shared
  <2>2. ControllerInv'
    BY <2>1, ControllerStays DEF vars
  <2>3. K!KeyboardTypeOK'
    BY <2>1, KeyboardUses DEF KeyboardInv, K!KeyboardTypeOK
  <2> QED BY <2>1, <2>2, <2>3, KeyboardUses DEF KeyboardInv, OneOwner, Stopped, KeyboardCalls, KeyboardPlaces,
          KeyboardReports, KeyboardStops, K!Polling
<1>2. CASE K!OwnerStep
  BY <1>2, KeyboardUses, KeyboardOwnerKeeps, KeyboardDutyKeeps DEF K!OwnerStep
<1>3. ASSUME NEW w \in Workers, K!MonitorStep(w) \/ K!Scan(w) \/ K!ScanFails(w) \/ K!CallbackReturns(w)
      PROVE  ControllerInv' /\ KeyboardInv'
  BY <1>3, KeyboardUses, KeyboardMonitorKeeps, KeyboardPassKeeps, KeyboardCountKeeps DEF K!MonitorStep
<1> QED BY <1>1, <1>2, <1>3, KeyboardUses, KeyboardWorldKeeps, KeyboardDutyKeeps DEF K!KeyboardNext, K!Ended

\* What the invariant of the keyboard says of its reports and descriptors.
LEMMA KeyboardSafe ==
  ASSUME ControllerInv, KeyboardInv
  PROVE  K!ReportsPublished /\ K!DescriptorsClosed
<1>1. ~running => open = {}
  BY DEF ControllerInv, Identified, KeyboardInv, KeyboardPlaces, Live
<1>2. monitor = "install" => K!Polling
  BY DEF KeyboardInv, KeyboardPlaces
<1> QED BY <1>1, <1>2 DEF KeyboardInv, KeyboardReports, K!ReportsPublished, K!DescriptorsClosed, Bad

\* A callback begins after a request to stop only while the owner stops.
LEMMA KeyboardBegins ==
  ASSUME ControllerInv, KeyboardInv, K!KeyboardNext, monitor # "callback", monitor' = "callback", stop_requested
  PROVE  duty # "none"
<1>1. \E w \in Workers : worker[w] = "ticked"
  <2>1. ASSUME NEW w \in Workers, K!MonitorStep(w) \/ K!Scan(w) \/ K!ScanFails(w) \/ K!CallbackReturns(w)
        PROVE  worker[w] = "ticked"
    <3>1. CASE K!MonitorStarts(w)
      BY <3>1 DEF K!MonitorStarts
    <3>2. CASE UNCHANGED K!keyboard \/ K!MonitorEnds(w)
      BY <3>2 DEF K!MonitorEnds, K!keyboard, K!local
    <3>3. CASE K!CountScan(w)
      BY <3>3 DEF K!CountScan, K!Polls
    <3> QED BY <2>1, <3>1, <3>2, <3>3 DEF K!MonitorStep, K!Scan, K!ScanFails, K!CountDown, K!Capture, K!PublishAccess,
            K!Publish, K!Sample, K!Decide, K!Invoke, K!CallbackReturns, K!Polls
  <2>2. ASSUME K!OwnerStep PROVE FALSE
    BY <2>2 DEF K!OwnerStep, K!Assign, K!MovedFrom, K!Launched, K!LaunchFailed, K!Destroyed, K!keyboard, K!local
  <2>3. ASSUME \/ \E d \in Devices : K!PressOrRelease(d) \/ \E to : K!DeviceChanges(d, to)
               \/ \E b : K!Construct(b)
               \/ \E o : K!Begin(o)
               \/ \E a : K!Register(a) \/ K!AskReleased(a) \/ K!AskTimesOut(a)
               \/ K!Ended
        PROVE  FALSE
    BY <2>3 DEF K!PressOrRelease, K!DeviceChanges, K!Construct, K!Begin, K!Register, K!AskReleased, K!AskTimesOut,
       K!Ended, K!everything, K!keyboard, K!local
  <2> QED BY <2>1, <2>2, <2>3, KeyboardUses DEF K!KeyboardNext
<1> QED BY <1>1 DEF KeyboardInv, KeyboardStops, KeyboardCalls

\* The stop of a duty returns when the last monitor is joined.
LEMMA KeyboardReturns ==
  ASSUME ControllerInv', KeyboardInv', call'[Owner].pc = "stopped"
  PROVE  thread' = 0 /\ \A w \in Workers : worker'[w] \in {"none", "joined"}
  BY DEF KeyboardInv, OneOwner, Stopped

-----------------------------------------------------------------------------
(***************************************************************************)
(* The owner thread.  That a call is answered with its own outcome rests   *)
(* on how far the task in the slot is: it has not run before the owner     *)
(* thread begins it, it has run when the slot is cleared, and a caller     *)
(* that waits without being in the slot has its outcome.                   *)
(***************************************************************************)
HasRun(c) == task[c].runs > 0

TaskProgress ==
  \A c \in Callers :
    /\ caller[c] \in {"slot", "asleep_slot"} => ~HasRun(c)
    /\ m_task = c => (HasRun(c) <=> owner = "ran")
    /\ O!InInvoke(c) /\ m_task # c => HasRun(c)
    /\ HasRun(c) => task[c].outcome # "none"

OwnerInv == O!TypeOK /\ O!SlotAlive /\ TaskProgress

-----------------------------------------------------------------------------
\* Nobody calls while the object is being made.
LEMMA OwnerInit == ASSUME None \notin Callers, MaxCalls \in Nat PROVE O!Init => OwnerInv
<1> SUFFICES ASSUME O!Init PROVE OwnerInv
  OBVIOUS
<1>1. O!TypeOK
  <2>1. caller \in [Callers -> {"idle", "slot", "asleep_slot", "asleep_done", "done"}]
    BY DEF O!Init
  <2>2. task \in [Callers -> [runs : Nat, outcome : {"none", "returns", "throws"}]]
    BY DEF O!Init, O!NewTask
  <2>3. calls \in [Callers -> 0..MaxCalls]
    BY DEF O!Init
  <2> QED BY <2>1, <2>2, <2>3 DEF O!Init, O!TypeOK
<1>2. O!SlotAlive /\ TaskProgress
  BY DEF O!Init, O!SlotAlive, TaskProgress, O!NewTask, O!InInvoke, HasRun
<1> QED BY <1>1, <1>2 DEF OwnerInv

\* A wakeup moves nobody into or out of a call.
LEMMA WakingCaller ==
  ASSUME NEW pc \in {"idle", "slot", "asleep_slot", "asleep_done", "done"}
  PROVE  /\ O!Woken(pc) \in {"idle", "slot", "asleep_slot", "asleep_done", "done"}
         /\ O!Woken(pc) = "idle" <=> pc = "idle"
         /\ O!Woken(pc) \in {"slot", "asleep_slot"} <=> pc \in {"slot", "asleep_slot"}
         /\ O!Woken(pc) \in {"asleep_done", "done"} <=> pc \in {"asleep_done", "done"}
  BY DEF O!Woken

\* The owner thread is only woken from its sleep.
LEMMA WakingOwner ==
  ASSUME O!TypeOK, O!WakeOwner
  PROVE  /\ owner' = IF owner = "asleep" THEN "loop" ELSE owner
         /\ owner' \in {"create", "failed", "loop", "asleep", "running", "ran", "drop", "exited"}
  BY DEF O!WakeOwner, O!Woken, O!TypeOK

\* The steps of the constructor and the destructor.
LEMMA OwnerMakerKeeps ==
  ASSUME None \notin Callers, OwnerInv, O!MakerStep \/ O!DestroyRequest \/ O!Create \/ O!SpuriousOwnerWake
  PROVE  OwnerInv'
<1>1. CASE O!MakerStep
  BY <1>1 DEF O!MakerStep, O!AwaitReady, O!Rethrow, O!DestroyJoin, O!Ready, OwnerInv, O!TypeOK, O!SlotAlive, TaskProgress,
     O!InInvoke, HasRun
<1>2. CASE O!DestroyRequest \/ O!SpuriousOwnerWake
  <2>1. /\ owner' = IF owner = "asleep" THEN "loop" ELSE owner
        /\ owner' \in {"create", "failed", "loop", "asleep", "running", "ran", "drop", "exited"}
    BY <1>2, WakingOwner DEF O!DestroyRequest, O!SpuriousOwnerWake, OwnerInv
  <2>2. /\ UNCHANGED <<m_task, m_ready, caller, task, calls>>
        /\ m_stop' \in BOOLEAN /\ (maker' = maker \/ maker' = "joining")
    BY <1>2 DEF O!DestroyRequest, O!SpuriousOwnerWake, OwnerInv, O!TypeOK
  <2> QED BY <2>1, <2>2 DEF OwnerInv, O!TypeOK, O!SlotAlive, TaskProgress, O!InInvoke, HasRun
<1>3. CASE O!Create
  <2>1. maker' \in {"constructing", "asleep_ready", "join_failed", "rethrown", "constructed",
                    "joining", "destroyed"}
    BY <1>3 DEF O!Create, O!Woken, OwnerInv, O!TypeOK
  <2> QED BY <1>3, <2>1 DEF O!Create, OwnerInv, O!TypeOK, O!SlotAlive, TaskProgress, O!InInvoke, HasRun
<1> QED BY <1>1, <1>2, <1>3

\* The owner thread runs the task in the slot once, and clears the slot.
LEMMA OwnerLoopKeeps ==
  ASSUME None \notin Callers, OwnerInv, O!OwnerLoop \/ O!RunTask \/ O!FinishTask \/ O!DropObject
  PROVE  OwnerInv'
<1>1. CASE O!OwnerLoop \/ O!DropObject
  BY <1>1 DEF O!OwnerLoop, O!DropObject, OwnerInv, O!TypeOK, O!SlotAlive, TaskProgress, O!InInvoke, HasRun
<1>2. CASE O!RunTask
  <2>1. m_task \in Callers /\ owner' = "ran" /\ UNCHANGED <<m_task, m_stop, m_ready, maker, caller, calls>>
    BY <1>2 DEF O!RunTask, OwnerInv, O!TypeOK, O!SlotAlive
  <2>2. /\ task' \in [Callers -> [runs : Nat, outcome : {"none", "returns", "throws"}]]
        /\ \A c \in Callers : c # m_task => task'[c] = task[c]
        /\ task'[m_task].runs > 0 /\ task'[m_task].outcome # "none"
    BY <1>2, <2>1 DEF O!RunTask, OwnerInv, O!TypeOK
  <2> QED BY <2>1, <2>2 DEF OwnerInv, O!TypeOK, O!SlotAlive, TaskProgress, O!InInvoke, HasRun
<1>3. CASE O!FinishTask
  <2>1. /\ owner = "ran" /\ owner' = "loop" /\ m_task \in Callers /\ m_task' = None
        /\ UNCHANGED <<m_stop, m_ready, maker, task, calls>>
    BY <1>3 DEF O!FinishTask, OwnerInv, O!TypeOK, O!SlotAlive
  <2>2. /\ caller' \in [Callers -> {"idle", "slot", "asleep_slot", "asleep_done", "done"}]
        /\ \A c \in Callers : caller'[c] = O!Woken(caller[c])
    BY <1>3, WakingCaller DEF O!FinishTask, O!AllWoken, OwnerInv, O!TypeOK
  <2>3. O!TypeOK' /\ O!SlotAlive'
    BY <2>1, <2>2 DEF OwnerInv, O!TypeOK, O!SlotAlive
  <2>4. TaskProgress'
    BY <2>1, <2>2, WakingCaller DEF OwnerInv, O!TypeOK, TaskProgress, O!InInvoke, HasRun
  <2> QED BY <2>3, <2>4 DEF OwnerInv
<1> QED BY <1>1, <1>2, <1>3

\* invoke(): a caller fills an empty slot with a task that has not run, and
\* leaves when its task has.
LEMMA OwnerCallerKeeps ==
  ASSUME None \notin Callers, MaxCalls \in Nat, OwnerInv, NEW c \in Callers,
         O!Invoke(c) \/ O!CallerStep(c) \/ O!SpuriousWake(c)
  PROVE  OwnerInv'
<1>1. CASE O!Invoke(c)
  <2>1. m_task # c
    BY <1>1 DEF O!Invoke, OwnerInv, O!TypeOK, O!SlotAlive, O!InInvoke
  <2>2. /\ caller' \in [Callers -> {"idle", "slot", "asleep_slot", "asleep_done", "done"}]
        /\ caller'[c] = "slot" /\ \A d \in Callers : d # c => caller'[d] = caller[d]
        /\ task' \in [Callers -> [runs : Nat, outcome : {"none", "returns", "throws"}]]
        /\ task'[c].runs = 0 /\ \A d \in Callers : d # c => task'[d] = task[d]
    BY <1>1 DEF O!Invoke, OwnerInv, O!TypeOK, O!NewTask
  <2>3. calls' \in [Callers -> 0..MaxCalls] /\ UNCHANGED <<m_task, m_stop, m_ready, maker, owner>>
    BY <1>1 DEF O!Invoke, OwnerInv, O!TypeOK
  <2> QED BY <2>1, <2>2, <2>3 DEF OwnerInv, O!TypeOK, O!SlotAlive, TaskProgress, O!InInvoke, HasRun
<1>2. CASE O!TakeSlot(c) /\ O!SlotFree
  <2>1. /\ caller[c] = "slot" /\ m_task = None /\ m_task' = c
        /\ UNCHANGED <<m_stop, m_ready, maker, task, calls>>
    BY <1>2 DEF O!TakeSlot, O!SlotFree
  <2>2. /\ caller' \in [Callers -> {"idle", "slot", "asleep_slot", "asleep_done", "done"}]
        /\ caller'[c] = "asleep_done" /\ \A d \in Callers : d # c => caller'[d] = O!Woken(caller[d])
    BY <1>2, WakingCaller DEF O!TakeSlot, O!CallersWoken, OwnerInv, O!TypeOK
  <2>3. /\ owner' = IF owner = "asleep" THEN "loop" ELSE owner
        /\ owner' \in {"create", "failed", "loop", "asleep", "running", "ran", "drop", "exited"}
    BY <1>2, WakingOwner DEF O!TakeSlot, O!WakeOwner, OwnerInv
  <2>4. owner \notin {"running", "ran"}
    BY <2>1 DEF OwnerInv, O!SlotAlive
  <2>5. O!TypeOK' /\ O!SlotAlive'
    BY <2>1, <2>2, <2>3, <2>4 DEF OwnerInv, O!TypeOK, O!SlotAlive, O!InInvoke
  <2>6. TaskProgress'
    BY <2>1, <2>2, <2>3, <2>4, WakingCaller DEF OwnerInv, O!TypeOK, TaskProgress, O!InInvoke, HasRun
  <2> QED BY <2>5, <2>6 DEF OwnerInv
<1>3. CASE \/ O!TakeSlot(c) /\ ~O!SlotFree
           \/ O!AwaitDone(c)
           \/ O!SpuriousWake(c)
  <2>1. UNCHANGED <<m_task, m_stop, m_ready, maker, owner, task, calls>>
    BY <1>3 DEF O!TakeSlot, O!AwaitDone, O!SpuriousWake
  <2>2. PICK pc : /\ caller' = [caller EXCEPT ![c] = pc]
                  /\ pc \in {"idle", "slot", "asleep_slot", "asleep_done", "done"}
                  /\ pc \in {"slot", "asleep_slot"} <=> caller[c] \in {"slot", "asleep_slot"}
                  /\ O!InInvoke(c) => pc \in {"asleep_done", "done"} \/ (pc = "idle" /\ m_task # c)
                  /\ pc \in {"asleep_done", "done"} => O!InInvoke(c)
    <3>1. CASE O!TakeSlot(c) /\ ~O!SlotFree
      BY <3>1 DEF O!TakeSlot, O!InInvoke
    <3>2. CASE O!AwaitDone(c)
      BY <3>2 DEF O!AwaitDone, O!Done, O!InInvoke
    <3>3. CASE O!SpuriousWake(c)
      <4>1. caller' = [caller EXCEPT ![c] = O!Woken(caller[c])]
        BY <3>3 DEF O!SpuriousWake, OwnerInv, O!TypeOK
      <4>2. caller[c] \in {"idle", "slot", "asleep_slot", "asleep_done", "done"}
        BY DEF OwnerInv, O!TypeOK
      <4> QED BY <4>1, <4>2, WakingCaller DEF O!InInvoke
    <3> QED BY <1>3, <3>1, <3>2, <3>3
  <2>3. /\ caller' \in [Callers -> {"idle", "slot", "asleep_slot", "asleep_done", "done"}]
        /\ caller'[c] = pc /\ \A d \in Callers : d # c => caller'[d] = caller[d]
    BY <2>2 DEF OwnerInv, O!TypeOK
  <2> QED BY <2>1, <2>2, <2>3 DEF OwnerInv, O!TypeOK, O!SlotAlive, TaskProgress, O!InInvoke, HasRun
<1> QED BY <1>1, <1>2, <1>3 DEF O!CallerStep

\* No step breaks the invariant.
LEMMA OwnerThreadKeeps ==
  ASSUME None \notin Callers, MaxCalls \in Nat, OwnerInv, [O!Next]_O!vars
  PROVE  OwnerInv'
<1>1. CASE UNCHANGED O!vars
  BY <1>1 DEF O!vars, OwnerInv, O!TypeOK, O!SlotAlive, TaskProgress, O!InInvoke, HasRun
<1> QED BY <1>1, OwnerMakerKeeps, OwnerLoopKeeps, OwnerCallerKeeps DEF O!Next, O!OwnerStep, O!Ended

-----------------------------------------------------------------------------
(***************************************************************************)
(* The refinement.                                                         *)
(***************************************************************************)
Requested == [c \in Callers |-> IF O!Idle(c) THEN "none"
                              ELSE IF task[c].runs = 0 THEN "requested" ELSE task[c].outcome]
Executing == IF owner = "running" THEN {m_task} ELSE {}

\* A step that leaves calls and executions as they are is a stutter.
LEMMA OwnerStutters ==
  ASSUME UNCHANGED task, \A c \in Callers : O!Idle(c)' <=> O!Idle(c),
         \/ owner # "running" /\ owner' # "running"
         \/ UNCHANGED <<owner, m_task>>
  PROVE  UNCHANGED <<Requested, Executing>>
  BY DEF Requested, Executing

\* The steps of the owner thread begin and end an execution.
LEMMA OwnerLoopImplements ==
  ASSUME None \notin Callers, OwnerInv, O!OwnerStep
  PROVE  [O!Calls!Next]_O!Calls!vars
<1> SUFFICES [O!Calls!Next]_<<Requested, Executing>>
  BY DEF O!Calls!vars, Requested, Executing
<1>1. CASE O!Create \/ O!DropObject
  BY <1>1, OwnerStutters DEF O!Create, O!DropObject, O!Idle
<1>2. CASE O!FinishTask
  <2>1. \A c \in Callers : O!Idle(c)' <=> O!Idle(c)
    BY <1>2, WakingCaller DEF O!FinishTask, O!AllWoken, O!Idle, OwnerInv, O!TypeOK
  <2> QED BY <1>2, <2>1, OwnerStutters DEF O!FinishTask
<1>3. CASE O!OwnerLoop
  <2>1. CASE owner' # "running"
    BY <1>3, <2>1, OwnerStutters DEF O!OwnerLoop, O!Idle
  <2>2. CASE owner' = "running"
    <3>1. m_task \in Callers /\ ~O!Idle(m_task) /\ ~HasRun(m_task)
      BY <1>3, <2>2 DEF O!OwnerLoop, OwnerInv, O!TypeOK, O!SlotAlive, TaskProgress, O!InInvoke, O!Idle
    <3>2. Requested[m_task] = "requested" /\ Executing = {} /\ Executing' = {m_task} /\ Requested' = Requested
      BY <1>3, <2>2, <3>1 DEF O!OwnerLoop, Requested, Executing, HasRun, OwnerInv, O!TypeOK, O!Idle
    <3>3. O!Calls!Begin(m_task)
      BY <3>2 DEF O!Calls!Begin, Requested, Executing
    <3> QED BY <3>1, <3>3 DEF O!Calls!Next
  <2> QED BY <2>1, <2>2
<1>4. CASE O!RunTask
  <2>1. m_task \in Callers /\ ~O!Idle(m_task)
    BY <1>4 DEF O!RunTask, OwnerInv, O!TypeOK, O!SlotAlive, O!InInvoke, O!Idle
  <2>2. PICK out \in {"returns", "throws"} :
          task' = [task EXCEPT ![m_task] = [runs |-> @.runs + 1, outcome |-> out]]
    BY <1>4 DEF O!RunTask
  <2>3. Executing = {m_task} /\ Executing' = {}
    BY <1>4 DEF O!RunTask, Executing
  <2>4. Requested' = [Requested EXCEPT ![m_task] = out]
    <3>1. /\ task'[m_task].runs # 0 /\ task'[m_task].outcome = out
          /\ \A c \in Callers : c # m_task => task'[c] = task[c]
      BY <2>1, <2>2 DEF OwnerInv, O!TypeOK
    <3> QED BY <1>4, <2>1, <3>1 DEF O!RunTask, Requested, O!Idle
  <2>5. PICK c \in Callers : c = m_task
    BY <2>1
  <2>6. O!Calls!End(c)
    BY <2>3, <2>4, <2>5 DEF O!Calls!End, Requested, Executing
  <2> QED BY <2>6 DEF O!Calls!Next
<1> QED BY <1>1, <1>2, <1>3, <1>4 DEF O!OwnerStep

\* The steps of a caller make a request and take an answer.
LEMMA OwnerCallerImplements ==
  ASSUME None \notin Callers, OwnerInv, NEW c \in Callers, O!Invoke(c) \/ O!CallerStep(c) \/ O!SpuriousWake(c)
  PROVE  [O!Calls!Next]_O!Calls!vars
<1> SUFFICES [O!Calls!Next]_<<Requested, Executing>>
  BY DEF O!Calls!vars, Requested, Executing
<1>1. CASE O!Invoke(c)
  <2>1. Requested[c] = "none" /\ Executing' = Executing
    BY <1>1 DEF O!Invoke, Requested, Executing, O!Idle
  <2>2. Requested' = [Requested EXCEPT ![c] = "requested"]
    <3>1. /\ caller'[c] = "slot" /\ \A d \in Callers : d # c => caller'[d] = caller[d]
          /\ task'[c].runs = 0 /\ \A d \in Callers : d # c => task'[d] = task[d]
      BY <1>1 DEF O!Invoke, O!NewTask, OwnerInv, O!TypeOK
    <3> QED BY <3>1 DEF Requested, O!Idle
  <2>3. O!Calls!Request(c)
    BY <2>1, <2>2 DEF O!Calls!Request, Requested, Executing
  <2> QED BY <2>3 DEF O!Calls!Next
<1>2. CASE O!TakeSlot(c)
  <2>1. \A d \in Callers : O!Idle(d)' <=> O!Idle(d)
    <3>1. CASE O!SlotFree
      BY <1>2, <3>1, WakingCaller DEF O!TakeSlot, O!CallersWoken, O!Idle, OwnerInv, O!TypeOK
    <3>2. CASE ~O!SlotFree
      BY <1>2, <3>2 DEF O!TakeSlot, O!Idle, OwnerInv, O!TypeOK
    <3> QED BY <3>1, <3>2
  <2>2. \/ owner # "running" /\ owner' # "running"
        \/ UNCHANGED <<owner, m_task>>
    <3>1. CASE O!SlotFree
      <4>1. owner # "running"
        BY <3>1 DEF O!SlotFree, OwnerInv, O!SlotAlive
      <4>2. owner' = IF owner = "asleep" THEN "loop" ELSE owner
        BY <1>2, <3>1, WakingOwner DEF O!TakeSlot, O!WakeOwner, OwnerInv
      <4> QED BY <4>1, <4>2
    <3>2. CASE ~O!SlotFree
      BY <1>2, <3>2 DEF O!TakeSlot
    <3> QED BY <3>1, <3>2
  <2> QED BY <1>2, <2>1, <2>2, OwnerStutters DEF O!TakeSlot
<1>3. CASE O!AwaitDone(c) /\ ~O!Done(c)
  BY <1>3, OwnerStutters DEF O!AwaitDone, O!Idle, OwnerInv, O!TypeOK
<1>4. CASE O!AwaitDone(c) /\ O!Done(c)
  <2>1. ~O!Idle(c) /\ HasRun(c) /\ task[c].outcome \in {"returns", "throws"}
    BY <1>4 DEF O!AwaitDone, O!Done, O!InInvoke, OwnerInv, O!TypeOK, TaskProgress, O!Idle
  <2>2. Requested[c] \in {"returns", "throws"} /\ Executing' = Executing
    BY <1>4, <2>1 DEF O!AwaitDone, Requested, Executing, HasRun, OwnerInv, O!TypeOK
  <2>3. Requested' = [Requested EXCEPT ![c] = "none"]
    <3>1. caller'[c] = "idle" /\ \A d \in Callers : d # c => caller'[d] = caller[d]
      BY <1>4 DEF O!AwaitDone, OwnerInv, O!TypeOK
    <3> QED BY <1>4, <3>1 DEF O!AwaitDone, Requested, O!Idle
  <2>4. O!Calls!Answer(c)
    BY <2>2, <2>3 DEF O!Calls!Answer, Requested, Executing
  <2> QED BY <2>4 DEF O!Calls!Next
<1>5. CASE O!SpuriousWake(c)
  <2>1. caller' = [caller EXCEPT ![c] = O!Woken(caller[c])]
        /\ caller[c] \in {"idle", "slot", "asleep_slot", "asleep_done", "done"}
    BY <1>5 DEF O!SpuriousWake, OwnerInv, O!TypeOK
  <2>2. \A d \in Callers : O!Idle(d)' <=> O!Idle(d)
    BY <2>1, WakingCaller DEF O!Idle, OwnerInv, O!TypeOK
  <2> QED BY <1>5, <2>2, OwnerStutters DEF O!SpuriousWake
<1> QED BY <1>1, <1>2, <1>3, <1>4, <1>5 DEF O!CallerStep

\* Each step of the dispatcher is a step of the abstract calls or a stutter.
LEMMA OwnerThreadImplements ==
  ASSUME None \notin Callers, OwnerInv, [O!Next]_O!vars
  PROVE  [O!Calls!Next]_O!Calls!vars
<1>1. CASE UNCHANGED O!vars
  BY <1>1 DEF O!vars, O!Calls!vars, O!Idle
<1>2. CASE O!MakerStep \/ O!DestroyRequest \/ O!SpuriousOwnerWake
  <2>1. \/ owner # "running" /\ owner' # "running"
        \/ UNCHANGED <<owner, m_task>>
    BY <1>2, WakingOwner DEF O!MakerStep, O!AwaitReady, O!Rethrow, O!DestroyJoin, O!DestroyRequest,
       O!SpuriousOwnerWake, OwnerInv
  <2>2. UNCHANGED <<Requested, Executing>>
    BY <1>2, <2>1, OwnerStutters DEF O!MakerStep, O!AwaitReady, O!Rethrow, O!DestroyJoin, O!DestroyRequest,
       O!SpuriousOwnerWake, O!Idle
  <2> QED BY <2>2 DEF O!Calls!vars, Requested, Executing
<1> QED BY <1>1, <1>2, OwnerLoopImplements, OwnerCallerImplements DEF O!Next, O!Ended

-----------------------------------------------------------------------------
(***************************************************************************)
(* The components beside the controller, and all of them.                  *)
(***************************************************************************)
NP == INSTANCE NodeOperations_proofs
LP == INSTANCE LogRegistry_proofs WITH Writers <- Threads

\* Nobody polls the keys where the keyboard is not the component.
KeyboardQuiet == K!KeyboardTypeOK /\ monitor = "wait" /\ state = {} /\ duty = "none"

WorkersInv ==
  /\ ControllerInv
  /\ IF component = "timer" THEN TimerInv ELSE T!TimerTypeOK /\ T!OwnSettings
  /\ IF component = "keyboard" THEN KeyboardInv ELSE KeyboardQuiet
  /\ OwnerInv /\ NP!IInv /\ LP!IInv

\* The steps of the last two are the ones their own proofs are about.
LEMMA NodeUses ==
  /\ N!NodeInit <=> NP!NodeInit
  /\ N!NodeNext <=> NP!NodeNext
  /\ N!node = NP!node
  BY DEF N!Operations, NP!Operations, N!node, NP!node, N!NoOperation, NP!NoOperation, N!NoFunction,
     NP!NoFunction, N!NodeInit, NP!NodeInit, N!shutting_down, NP!shutting_down, N!Registered, NP!Registered,
     N!SetOperation, NP!SetOperation, N!SetFunction, NP!SetFunction, N!Deleted, NP!Deleted, N!Released,
     NP!Released, N!ReleaseRuntimeReference, NP!ReleaseRuntimeReference, N!Finished, NP!Finished, N!MayCall,
     NP!MayCall, N!Begun, NP!Begun, N!RunAfter, NP!RunAfter, N!Wait, NP!Wait, N!CopyFrame, NP!CopyFrame,
     N!RunAfterThrows, NP!RunAfterThrows, N!WaitThrows, NP!WaitThrows, N!CancelTimer, NP!CancelTimer,
     N!CloseCallbackOperation, NP!CloseCallbackOperation, N!CloseTimer, NP!CloseTimer, N!Joined, NP!Joined,
     N!Moves, NP!Moves, N!WaitReturns, NP!WaitReturns, N!Calls, NP!Calls, N!CheckShutdown, NP!CheckShutdown,
     N!CallFunction, NP!CallFunction, N!ReleaseFunction, NP!ReleaseFunction, N!Execute, NP!Execute,
     N!Executed, NP!Executed, N!NodeWorkerStep, NP!NodeWorkerStep, N!InLoop, NP!InLoop, N!Settle, NP!Settle,
     N!CallTimerCallback, NP!CallTimerCallback, N!CallbackEnds, NP!CallbackEnds, N!CompletePromiseOperation,
     NP!CompletePromiseOperation, N!FinalizeTimerFunction, NP!FinalizeTimerFunction,
     N!FinalizePromiseOperation, NP!FinalizePromiseOperation, N!CompleteAsync, NP!CompleteAsync,
     N!CancelWork, NP!CancelWork, N!CleanupAddon, NP!CleanupAddon, N!CleanupWait, NP!CleanupWait,
     N!CleanupTimer, NP!CleanupTimer, N!Reaped, NP!Reaped, N!CleanupEnds, NP!CleanupEnds, N!LoopStep,
     NP!LoopStep, N!Gone, NP!Gone, N!NodeNext, NP!NodeNext

LEMMA LogUses ==
  /\ L!LogInit <=> LP!LogInit
  /\ L!LogNext <=> LP!LogNext
  /\ L!log = LP!log
  BY DEF L!log, LP!log, L!LogInit, LP!LogInit, L!Innermost, LP!Innermost, L!At, LP!At, L!Outer, LP!Outer,
     L!GoesOn, LP!GoesOn, L!Referenced, LP!Referenced, L!Released, LP!Released, L!Leave, LP!Leave,
     L!MayCall, LP!MayCall, L!RegisterLogSink, LP!RegisterLogSink, L!UnregisterLogSink,
     LP!UnregisterLogSink, L!SetMinimumLogLevel, LP!SetMinimumLogLevel, L!WriteLog, LP!WriteLog, L!Filter,
     LP!Filter, L!Throw, LP!Throw, L!LeaveNested, LP!LeaveNested, L!Output, LP!Output, L!CallSink,
     LP!CallSink, L!SinkEnds, LP!SinkEnds, L!EndDispatch, LP!EndDispatch, L!WriteStep, LP!WriteStep,
     L!LogNext, LP!LogNext

\* Whichever component this is, its first states satisfy what was proved of it.
LEMMA WorkersInitHolds == WorkersInit => WorkersInv
<1> SUFFICES ASSUME WorkersInit PROVE WorkersInv
  OBVIOUS
<1>1. ControllerInv
  BY ActorsAssumption, ControllerInit DEF WorkersInit
<1>2. TimerInv /\ T!TimerTypeOK /\ T!OwnSettings
  BY TimerInitHolds DEF WorkersInit, TimerInv, TimerSession
<1>3. KeyboardInv
  BY KeyboardInitHolds DEF WorkersInit
<1>4. KeyboardQuiet
  BY <1>3 DEF WorkersInit, KeyboardInv, K!KeyboardInit, KeyboardQuiet
<1>5. OwnerInv
  BY OwnerInit, BoundsAssumption DEF WorkersInit
<1>6. NP!IInv
  BY NodeUses, NP!InitHolds, OperationsAssumption DEF WorkersInit, NP!Distinct, NP!Operations
<1>7. LP!IInv
  BY LogUses, LP!Initially DEF WorkersInit
<1> QED BY <1>1, <1>2, <1>3, <1>4, <1>5, <1>6, <1>7 DEF WorkersInv

\* What each component keeps while another one runs.
LEMMA TimerRests == ASSUME T!TimerTypeOK, T!OwnSettings, UNCHANGED timer PROVE T!TimerTypeOK' /\ T!OwnSettings'
  BY DEF timer, T!TimerTypeOK, T!OwnSettings

LEMMA KeyboardRests == ASSUME KeyboardQuiet, UNCHANGED keyboard PROVE KeyboardQuiet'
  BY DEF keyboard, KeyboardQuiet, K!KeyboardTypeOK

LEMMA OwnerRests == ASSUME OwnerInv, UNCHANGED camera PROVE OwnerInv'
<1>1. UNCHANGED O!vars
  BY DEF camera, O!vars
<1> QED BY <1>1, OwnerThreadKeeps, BoundsAssumption

LEMMA NodeRests == ASSUME NP!IInv, UNCHANGED node PROVE NP!IInv'
<1>1. UNCHANGED NP!node
  BY DEF node, NP!node
<1> QED BY <1>1, NP!StepKeeps, OperationsAssumption DEF NP!Distinct, NP!Operations

LEMMA LogRests == ASSUME LP!IInv, UNCHANGED log PROVE LP!IInv'
<1>1. UNCHANGED LP!log
  BY DEF log, LP!log
<1> QED BY <1>1, LP!Step

\* No step of any component breaks the invariant.
LEMMA WorkersStep == WorkersInv /\ [WorkersNext]_all => WorkersInv'
<1> SUFFICES ASSUME WorkersInv, [WorkersNext]_all PROVE WorkersInv'
  OBVIOUS
<1>1. CASE UNCHANGED all
  <2>1. component' = component /\ UNCHANGED <<vars, timer, keyboard, camera, node, log>>
    BY <1>1 DEF all
  <2>2. ControllerInv' /\ OwnerInv' /\ NP!IInv' /\ LP!IInv'
    BY <2>1, ControllerStays, OwnerRests, NodeRests, LogRests DEF WorkersInv
  <2>3. IF component' = "timer" THEN TimerInv' ELSE T!TimerTypeOK' /\ T!OwnSettings'
    <3>1. CASE component = "timer"
      <4>1. UNCHANGED T!allVars
        BY <2>1 DEF vars, timer, T!allVars, T!vars, T!timerVars
      <4> QED BY <2>1, <3>1, <4>1, TimerStep DEF WorkersInv
    <3> QED BY <2>1, <3>1, TimerRests DEF WorkersInv
  <2>4. IF component' = "keyboard" THEN KeyboardInv' ELSE KeyboardQuiet'
    <3>1. CASE component = "keyboard"
      <4>1. UNCHANGED K!everything
        BY <2>1 DEF vars, keyboard, K!everything, K!vars, K!keyboard, K!native, K!local, K!shared
      <4> QED BY <2>1, <3>1, <4>1, KeyboardStep DEF WorkersInv
    <3> QED BY <2>1, <3>1, KeyboardRests DEF WorkersInv
  <2> QED BY <2>2, <2>3, <2>4 DEF WorkersInv
<1>2. CASE OfController(Next)
  <2>1. component = "controller" /\ Next /\ UNCHANGED <<component, timer, keyboard, camera, node, log>>
    BY <1>2 DEF OfController
  <2>2. ControllerInv'
    BY <2>1, ControllerStep, ActorsAssumption DEF WorkersInv
  <2> QED BY <2>1, <2>2, TimerRests, KeyboardRests, OwnerRests, NodeRests, LogRests DEF WorkersInv
<1>3. CASE OfTimer(T!TimerNext)
  <2>1. component = "timer" /\ T!TimerNext /\ UNCHANGED <<component, keyboard, camera, node, log>>
    BY <1>3 DEF OfTimer
  <2>2. ControllerInv' /\ TimerInv'
    BY <2>1, TimerStep DEF WorkersInv
  <2> QED BY <2>1, <2>2, KeyboardRests, OwnerRests, NodeRests, LogRests DEF WorkersInv
<1>4. CASE OfKeyboard(K!KeyboardNext)
  <2>1. component = "keyboard" /\ K!KeyboardNext /\ UNCHANGED <<component, timer, camera, node, log>>
    BY <1>4 DEF OfKeyboard
  <2>2. ControllerInv' /\ KeyboardInv'
    BY <2>1, KeyboardStep DEF WorkersInv
  <2> QED BY <2>1, <2>2, TimerRests, OwnerRests, NodeRests, LogRests DEF WorkersInv
<1>5. CASE OfOwner(O!Next)
  <2>1. component = "owner_thread" /\ O!Next /\ UNCHANGED <<component, vars, timer, keyboard, node, log>>
    BY <1>5 DEF OfOwner
  <2>2. OwnerInv'
    BY <2>1, OwnerThreadKeeps, BoundsAssumption DEF WorkersInv
  <2> QED BY <2>1, <2>2, ControllerStays, TimerRests, KeyboardRests, NodeRests, LogRests DEF WorkersInv
<1>6. CASE OfNode(N!NodeNext)
  <2>1. component = "node" /\ N!NodeNext /\ UNCHANGED <<component, vars, timer, keyboard, camera, log>>
    BY <1>6 DEF OfNode
  <2>2. NP!IInv'
    BY <2>1, NodeUses, NP!StepKeeps, OperationsAssumption DEF WorkersInv, NP!Distinct, NP!Operations
  <2> QED BY <2>1, <2>2, ControllerStays, TimerRests, KeyboardRests, OwnerRests, LogRests DEF WorkersInv
<1>7. CASE OfLog(L!LogNext)
  <2>1. component = "log" /\ L!LogNext /\ UNCHANGED <<component, vars, timer, keyboard, camera, node>>
    BY <1>7 DEF OfLog
  <2>2. LP!IInv'
    BY <2>1, LogUses, LP!Step DEF WorkersInv
  <2> QED BY <2>1, <2>2, ControllerStays, TimerRests, KeyboardRests, OwnerRests, NodeRests DEF WorkersInv
<1> QED BY <1>1, <1>2, <1>3, <1>4, <1>5, <1>6, <1>7 DEF WorkersNext

-----------------------------------------------------------------------------
(***************************************************************************)
(* The theorems.                                                           *)
(***************************************************************************)
LEMMA WorkersInvariant == FairSpec => []WorkersInv
  BY WorkersInitHolds, WorkersStep, PTL DEF FairSpec

\* However start() and stop() race, in a callback too, at most one body runs, and
\* while it does isRunning() is true and m_worker_id names it.
THEOREM OneBodyAlways == FairSpec => []OneBody
<1>1. WorkersInv => OneBody
  BY DEF WorkersInv, ControllerInv, Identified, OneBody
<1> QED BY <1>1, WorkersInvariant, PTL

\* Each thread that was launched and not joined has one handle, and no body
\* joins the thread it runs on.
THEOREM HandleOwnedAlways == FairSpec => []HandleOwned
<1>1. WorkersInv => HandleOwned
  BY DEF WorkersInv, ControllerInv
<1> QED BY <1>1, WorkersInvariant, PTL

\* A worker waits for the interval its own start() installed and calls its own
\* callback; the state a keyboard callback is told is the published one.
THEOREM OwnSettingsAlways == FairSpec => []OwnSettings
<1>1. WorkersInv => OwnSettings
  <2> SUFFICES ASSUME WorkersInv PROVE T!OwnSettings /\ K!ReportsPublished
    BY DEF OwnSettings
  <2>1. T!OwnSettings
    BY DEF WorkersInv, TimerInv, TimerSession
  <2>2. CASE component = "keyboard"
    BY <2>1, <2>2, KeyboardSafe DEF WorkersInv
  <2>3. CASE component # "keyboard"
    BY <2>1, <2>3 DEF WorkersInv, KeyboardQuiet, K!ReportsPublished
  <2> QED BY <2>2, <2>3
<1> QED BY <1>1, WorkersInvariant, PTL

\* Everything keeps its type, a timer and a keyboard that do not run hold no
\* captures and no descriptors, and the owner thread's slot names a live frame.
THEOREM LifetimesAlways == FairSpec => []Lifetimes
<1>1. WorkersInv => Lifetimes
  <2> SUFFICES ASSUME WorkersInv PROVE Lifetimes
    OBVIOUS
  <2>1. TypeOK /\ T!TimerTypeOK /\ K!KeyboardTypeOK
    BY DEF WorkersInv, ControllerInv, TimerInv, KeyboardInv, KeyboardQuiet
  <2>2. O!TypeOK /\ O!SlotAlive
    BY DEF WorkersInv, OwnerInv
  <2>3. N!NodeTypeOK
    BY DEF WorkersInv, NP!IInv, NP!NodeTypeOK, NP!Operations, N!NodeTypeOK, N!Operations
  <2>4. L!LogTypeOK
    BY DEF WorkersInv, LP!IInv, LP!LogTypeOK, LP!Dispatches, L!LogTypeOK, L!Dispatches
  <2>5. /\ component = "timer" => T!CapturesReleased
        /\ component = "keyboard" => K!DescriptorsClosed
    BY TimerSafe, KeyboardSafe DEF WorkersInv
  <2> QED BY <2>1, <2>2, <2>3, <2>4, <2>5 DEF Lifetimes, WorkersTypeOK
<1> QED BY <1>1, WorkersInvariant, PTL

\* Nothing is deleted under a worker of the Node.js addon, and none is left when
\* the environment is gone.
THEOREM WorkersOutlivedAlways == FairSpec => []WorkersOutlived
<1>1. WorkersInv => WorkersOutlived
  BY DEF WorkersInv, WorkersOutlived, NP!IInv, NP!WorkersOutlived, NP!Working, NP!Operations, N!WorkersOutlived,
     N!Working, N!Operations
<1> QED BY <1>1, WorkersInvariant, PTL

\* A log sink lives while a thread calls it, and no thread is in two of them.
THEOREM SinksSoundAlways == FairSpec => []SinksSound
<1>1. ASSUME WorkersInv PROVE L!SinksOutliveCalls
  BY <1>1, LP!Outlive DEF WorkersInv, LP!SinksOutliveCalls, LP!Referenced, L!SinksOutliveCalls, L!Referenced
<1>2. ASSUME WorkersInv PROVE L!NotReentered
  BY <1>2, LP!Reentered DEF WorkersInv, LP!NotReentered, L!NotReentered
<1>3. WorkersInv => SinksSound
  BY <1>1, <1>2 DEF SinksSound
<1> QED BY <1>3, WorkersInvariant, PTL

\* No callback begins after a stop but while that stop waits for it.
THEOREM StopRespectedAlways == FairSpec => StopRespected
<1>1. ASSUME WorkersInv, [WorkersNext]_all, NEW w \in Workers,
             body[w] # "callback", body'[w] = "callback", stop_requested
      PROVE  \E t \in Threads : op[t] \in T!Stops
  <2>1. body' # body
    BY <1>1
  <2>2. component = "timer" /\ T!TimerNext
    BY <1>1, <2>1 DEF WorkersNext, OfController, OfTimer, OfKeyboard, OfOwner, OfNode, OfLog, all, timer
  <2> QED BY <1>1, <2>2, TimerBegins DEF WorkersInv
<1>2. ASSUME WorkersInv, [WorkersNext]_all, monitor # "callback", monitor' = "callback", stop_requested
      PROVE  duty # "none"
  <2>1. component = "keyboard" /\ K!KeyboardNext
    BY <1>2 DEF WorkersNext, OfController, OfTimer, OfKeyboard, OfOwner, OfNode, OfLog, all, keyboard
  <2> QED BY <1>2, <2>1, KeyboardBegins DEF WorkersInv
<1>3. ASSUME WorkersInv, [WorkersNext]_all
      PROVE  [\A w \in T!Workers : body[w] # "callback" /\ body'[w] = "callback" /\ stop_requested
                => \E t \in Threads : op[t] \in T!Stops]_T!allVars
  BY <1>1, <1>3, TimerUses
<1>4. ASSUME WorkersInv, [WorkersNext]_all
      PROVE  [monitor # "callback" /\ monitor' = "callback" /\ stop_requested => ~K!Duty("none")]_K!everything
  BY <1>2, <1>4 DEF K!Duty
<1>5. FairSpec => T!StopRespected
  BY <1>3, WorkersInvariant, PTL DEF FairSpec, T!StopRespected
<1>6. FairSpec => K!CallbackStopRespected
  BY <1>4, WorkersInvariant, PTL DEF FairSpec, K!CallbackStopRespected
<1> QED BY <1>5, <1>6, PTL DEF StopRespected

\* When a stop of the owner returns, no worker touches the object any more.
THEOREM StopIsCompleteAlways == FairSpec => StopIsComplete
<1>1. ASSUME WorkersInv, [WorkersNext]_all, NEW t \in Threads, op[t] \in T!Stops, op'[t] = "none"
      PROVE  thread' = 0 /\ \A w \in Workers : worker'[w] \in {"none", "joined"}
  <2>1. op' # op
    BY <1>1 DEF T!Stops
  <2>2. component = "timer" /\ T!TimerNext
    BY <1>1, <2>1 DEF WorkersNext, OfController, OfTimer, OfKeyboard, OfOwner, OfNode, OfLog, all, timer
  <2> QED BY <1>1, <2>2, TimerReturns DEF WorkersInv
<1>2. ASSUME WorkersInv, WorkersInv', [WorkersNext]_all, duty # "none", call[Owner].pc # "stopped",
             call'[Owner].pc = "stopped"
      PROVE  thread' = 0 /\ \A w \in Workers : worker'[w] \in {"none", "joined"}
  <2>1. component = "keyboard"
    BY <1>2 DEF WorkersInv, KeyboardQuiet
  <2>2. component' = "keyboard"
    BY <1>2, <2>1 DEF WorkersNext, OfController, OfTimer, OfKeyboard, OfOwner, OfNode, OfLog, all
  <2> QED BY <1>2, <2>2, KeyboardReturns DEF WorkersInv
<1>3. ASSUME WorkersInv, [WorkersNext]_all
      PROVE  [\A t \in Threads : op[t] \in T!Stops /\ op'[t] = "none"
                => /\ thread' = 0
                   /\ \A w \in T!Workers : worker'[w] \in {"none", "joined"}]_T!allVars
  BY <1>1, <1>3, TimerUses
<1>4. ASSUME WorkersInv, WorkersInv', [WorkersNext]_all
      PROVE  [~K!Duty("none") /\ ~K!At(Owner, "stopped") /\ call'[Owner].pc = "stopped"
                => thread' = 0 /\ \A w \in K!Workers : worker'[w] \in {"none", "joined"}]_K!everything
  BY <1>2, <1>4, KeyboardUses DEF K!Duty, K!At
<1>5. FairSpec => T!StopIsComplete
  BY <1>3, WorkersInvariant, PTL DEF FairSpec, T!StopIsComplete
<1>6. FairSpec => K!OwnerStopIsComplete
  BY <1>4, WorkersInvariant, PTL DEF FairSpec, K!OwnerStopIsComplete
<1> QED BY <1>5, <1>6, PTL DEF StopIsComplete

\* invoke() is one execution on the owner thread and its own outcome.
THEOREM ImplementsCallsAlways == FairSpec => ImplementsCalls
<1>1. ASSUME WorkersInit PROVE O!Calls!Init
  BY <1>1 DEF WorkersInit, O!Init, O!Calls!Init, O!Idle
<1>2. ASSUME WorkersInv, [WorkersNext]_all PROVE [O!Calls!Next]_O!Calls!vars
  <2>1. [O!Next]_O!vars
    <3>1. O!Next \/ UNCHANGED camera
      BY <1>2 DEF WorkersNext, OfController, OfTimer, OfKeyboard, OfOwner, OfNode, OfLog, all
    <3>2. UNCHANGED camera => UNCHANGED O!vars
      BY DEF camera, O!vars
    <3> QED BY <3>1, <3>2
  <2> QED BY <1>2, <2>1, OwnerThreadImplements, BoundsAssumption DEF WorkersInv
<1> QED BY <1>1, <1>2, WorkersInvariant, PTL DEF FairSpec, ImplementsCalls, O!ImplementsCalls, O!Calls!Spec
=============================================================================
