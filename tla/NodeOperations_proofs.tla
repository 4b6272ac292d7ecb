----------------------- MODULE NodeOperations_proofs -----------------------
(***************************************************************************)
(* Nothing is deleted under a worker of the Node.js addon, for any         *)
(* operations.  A function is closed in time only by the environment, and  *)
(* until the hook has joined, no finalizer runs; an operation that works   *)
(* is in its registry, so that the hook finds it.  Distinct is what the     *)
(* runs assume of the constants by giving them model values.               *)
(***************************************************************************)
EXTENDS NodeOperations, TLAPS

Distinct ==
  /\ Timers \cap Waits = {} /\ Timers \cap Copies = {} /\ Waits \cap Copies = {}
  /\ None \notin Operations

\* The function of a timer is open and has its worker's reference while it works.
FunctionHeld ==
  \A o \in Timers : turn \in {"loop", "callback"} /\ Working(o) =>
    ~function[o].closing /\ function[o].refs > 0

\* The hook finds every worker, and has yet to join those that are left.
Found ==
  \A o \in Timers \cup Waits :
    /\ Working(o) => operation[o].registered
    /\ o \in Waits /\ Working(o) /\ shutting_down => o \in todo \/ joining = o

\* The pool calls no function.
PoolApart == \A o \in Copies : operation[o].worker \notin {"check", "call", "release"}

IInv == NodeTypeOK /\ WorkersOutlived /\ FunctionHeld /\ Found /\ PoolApart

-----------------------------------------------------------------------------
LEMMA InitHolds == ASSUME Distinct PROVE NodeInit => IInv
  BY DEF NodeInit, IInv, NodeTypeOK, WorkersOutlived, FunctionHeld, Found, PoolApart, Working, NoOperation,
         NoFunction, shutting_down, Operations, Distinct

OperationType ==
  [life : {"none", "live", "deleted"}, cancelled : BOOLEAN, failed : BOOLEAN,
   registered : BOOLEAN, released : BOOLEAN, held : BOOLEAN,
   worker : {"none", "wait", "check", "call", "release", "execute", "returned"}]
FunctionType == [refs : 0..2, queued : BOOLEAN, closing : BOOLEAN, freed : BOOLEAN]

\* A reference given back.
LEMMA ReleasedType ==
  ASSUME NEW fn \in FunctionType, NEW mode
  PROVE  /\ Released(fn, mode) \in FunctionType
         /\ Released(fn, mode).freed = fn.freed
         /\ Released(fn, mode).queued = fn.queued
         /\ mode = "release" => Released(fn, mode).closing = fn.closing
         /\ Released(fn, mode).refs = IF fn.refs = 0 THEN 0 ELSE fn.refs - 1
<1>1. CASE fn.refs = 0
  BY <1>1 DEF Released, FunctionType
<1>2. CASE fn.refs # 0
  <2> DEFINE to == [fn EXCEPT !.refs = fn.refs - 1, !.closing = IF mode = "abort" THEN TRUE ELSE fn.closing]
  <2>1. Released(fn, mode) = to
    BY <1>2 DEF Released
  <2>2. to \in FunctionType
    <3>1. fn.refs - 1 \in 0..2
      BY <1>2 DEF FunctionType
    <3>2. CASE mode = "abort"
      BY <3>1, <3>2 DEF FunctionType
    <3>3. CASE mode # "abort"
      BY <3>1, <3>3 DEF FunctionType
    <3> QED BY <3>2, <3>3
  <2>3. to.freed = fn.freed /\ to.queued = fn.queued /\ to.refs = fn.refs - 1 /\ (mode = "release" => to.closing = fn.closing)
    BY DEF FunctionType
  <2> QED BY <1>2, <2>1, <2>2, <2>3
<1> QED BY <1>1, <1>2

LEMMA RuntimeReleasedType ==
  ASSUME NEW op, NEW fn \in FunctionType, NEW mode
  PROVE  /\ ReleaseRuntimeReference(op, fn, mode) \in FunctionType
         /\ ReleaseRuntimeReference(op, fn, mode).freed = fn.freed
  BY ReleasedType DEF ReleaseRuntimeReference

LEMMA Constants ==
  /\ NoOperation \in OperationType /\ Deleted \in OperationType /\ Begun \in OperationType
  /\ NoFunction \in FunctionType
  /\ Begun.life = "live" /\ Begun.worker = "wait" /\ Begun.registered
<1>1. NoFunction \in FunctionType
  BY DEF NoFunction, FunctionType
<1>2. NoOperation \in OperationType
  BY DEF NoOperation, OperationType
<1>3. Deleted \in OperationType
  BY <1>2 DEF Deleted, OperationType
<1>4. Begun \in OperationType
  BY <1>2 DEF Begun, OperationType
<1>5. Begun.life = "live" /\ Begun.worker = "wait" /\ Begun.registered
  BY DEF Begun, NoOperation
<1> QED BY <1>1, <1>2, <1>3, <1>4, <1>5

\* A step of which each worker, registry, handle and function keeps what it had, as
\* the application, the loop and the hook make them.
LEMMA QuietStep ==
  ASSUME IInv, NodeTypeOK',
         turn' = turn \/ (turn' = "loop" /\ turn = "callback") \/ (turn' = "callback" /\ turn = "loop"),
         \A p \in Operations :
           /\ Working(p)' => Working(p) \/ turn \in {"loop", "callback"}
           /\ Working(p)' \/ operation'[p].registered \/ operation'[p].held => operation'[p].life = "live"
           /\ p \in Timers \cup Waits /\ Working(p)' => operation'[p].registered,
         \A p \in Timers \cup Waits : Working(p)' => ~function'[p].freed,
         \A p \in Timers : turn \in {"loop", "callback"} /\ Working(p)' =>
           ~function'[p].closing /\ function'[p].refs > 0,
         \A p \in Waits : Working(p)' /\ shutting_down /\ (p \in todo \/ joining = p) => p \in todo' \/ joining' = p,
         PoolApart'
  PROVE  IInv'
<1>1. shutting_down' <=> shutting_down
  BY DEF shutting_down, IInv, NodeTypeOK
<1>2. WorkersOutlived'
  BY <1>1 DEF IInv, WorkersOutlived, Operations, shutting_down, NodeTypeOK
<1>3. FunctionHeld'
  BY DEF IInv, FunctionHeld
<1>4. Found'
  BY <1>1 DEF IInv, Found, Operations, shutting_down
<1> QED BY <1>2, <1>3, <1>4 DEF IInv

\* What one operation and its function have to keep in a step that leaves the others
\* alone.
Local(o) ==
  /\ Working(o)' \/ operation'[o].registered \/ operation'[o].held => operation'[o].life = "live"
  /\ Working(o)' => Working(o) \/ turn \in {"loop", "callback"}
  /\ o \in Timers \cup Waits /\ Working(o)' => operation'[o].registered /\ ~function'[o].freed
  /\ o \in Timers /\ turn \in {"loop", "callback"} /\ Working(o)' => ~function'[o].closing /\ function'[o].refs > 0
  /\ o \in Waits /\ Working(o)' /\ shutting_down /\ (o \in todo \/ joining = o) => o \in todo' \/ joining' = o
  /\ o \in Copies => operation'[o].worker \notin {"check", "call", "release"}

LEMMA StepOfOne ==
  ASSUME Distinct, IInv, NEW o \in Operations, NEW op \in OperationType, NEW fn \in FunctionType,
         operation' = [operation EXCEPT ![o] = op],
         function' = [function EXCEPT ![o] = fn] \/ function' = function,
         promise' \in [Waits \cup Copies -> {"none", "pending", "settled"}],
         turn' = turn \/ (turn' = "loop" /\ turn = "callback") \/ (turn' = "callback" /\ turn = "loop"),
         \/ UNCHANGED <<joining, todo>>
         \/ joining = None /\ joining' = o /\ todo' \in {todo, todo \ {o}}
         \/ joining = o /\ joining' = None /\ UNCHANGED todo,
         Local(o)
  PROVE  IInv'
<1>1. NodeTypeOK'
  BY DEF IInv, NodeTypeOK, OperationType, FunctionType
<1>2. operation'[o] = op /\ \A p \in Operations \ {o} : operation'[p] = operation[p]
  BY DEF IInv, NodeTypeOK
<1>3. \A p \in (Timers \cup Waits) \ {o} : function'[p] = function[p]
  BY DEF IInv, NodeTypeOK
<1>4. \A p \in Waits \ {o} : p \in todo \/ joining = p => p \in todo' \/ joining' = p
  BY DEF Distinct, Operations
<1>5. \A p \in Operations \ {o} : Working(p)' <=> Working(p)
  BY <1>2 DEF Working
<1>6. \A p \in Operations :
        /\ Working(p)' => Working(p) \/ turn \in {"loop", "callback"}
        /\ Working(p)' \/ operation'[p].registered \/ operation'[p].held => operation'[p].life = "live"
        /\ p \in Timers \cup Waits /\ Working(p)' => operation'[p].registered
  BY <1>2, <1>5 DEF IInv, WorkersOutlived, Found, Local, Operations
<1>7. \A p \in Timers \cup Waits : Working(p)' => ~function'[p].freed
  BY <1>3, <1>5 DEF IInv, WorkersOutlived, Local, Operations
<1>8. \A p \in Timers : turn \in {"loop", "callback"} /\ Working(p)' =>
        ~function'[p].closing /\ function'[p].refs > 0
  BY <1>3, <1>5 DEF IInv, FunctionHeld, Local, Operations
<1>9. \A p \in Waits : Working(p)' /\ shutting_down /\ (p \in todo \/ joining = p) => p \in todo' \/ joining' = p
  BY <1>4 DEF Local
<1>10. PoolApart'
  BY <1>2 DEF IInv, PoolApart, Local, Operations
<1> QED BY <1>1, <1>6, <1>7, <1>8, <1>9, <1>10, QuietStep

-----------------------------------------------------------------------------
\* What IInv says of one operation.
LEMMA Here ==
  ASSUME Distinct, IInv, NEW o \in Operations
  PROVE  /\ operation[o] \in OperationType
         /\ o \in Timers \cup Waits => function[o] \in FunctionType
  BY DEF IInv, NodeTypeOK, OperationType, FunctionType, Distinct

\* The application begins an operation, or fails to.
LEMMA BeginKeeps ==
  ASSUME Distinct, IInv, NEW o \in Operations,
         \/ o \in Timers /\ (RunAfter(o) \/ RunAfterThrows(o))
         \/ o \in Waits /\ (Wait(o) \/ WaitThrows(o))
         \/ o \in Copies /\ CopyFrame(o)
  PROVE  IInv'
<1>1. turn \in {"loop", "callback"} /\ ~shutting_down
  BY DEF RunAfter, RunAfterThrows, Wait, WaitThrows, CopyFrame, MayCall, shutting_down
<1>2. ASSUME NEW n \in 0..2 PROVE [NoFunction EXCEPT !.refs = n] \in FunctionType
  BY Constants DEF FunctionType
<1>3. promise \in [Waits \cup Copies -> {"none", "pending", "settled"}]
  BY DEF IInv, NodeTypeOK
<1>4. CASE o \in Timers /\ RunAfter(o)
  <2> DEFINE op == [Begun EXCEPT !.held = TRUE]
  <2> DEFINE fn == [NoFunction EXCEPT !.refs = 1]
  <2>1. op \in OperationType /\ op.life = "live" /\ op.registered /\ op.worker = "wait"
    BY Constants DEF OperationType
  <2>2. fn \in FunctionType /\ ~fn.closing /\ fn.refs = 1 /\ ~fn.freed
    BY <1>2 DEF NoFunction
  <2>3. operation'[o] = op /\ function'[o] = fn
    BY <1>4 DEF RunAfter, SetOperation, SetFunction, IInv, NodeTypeOK
  <2>4. Local(o)
    BY <1>1, <1>4, <2>1, <2>2, <2>3 DEF Local, Distinct
  <2> QED BY <1>3, <1>4, <2>1, <2>2, <2>4, StepOfOne DEF RunAfter, SetOperation, SetFunction
<1>5. CASE o \in Timers /\ RunAfterThrows(o)
  <2> DEFINE fn == Released([NoFunction EXCEPT !.refs = 1], "abort")
  <2>1. fn \in FunctionType
    BY <1>2, ReleasedType
  <2>2. operation'[o] = Deleted
    BY <1>5 DEF RunAfterThrows, SetOperation, IInv, NodeTypeOK
  <2>3. Local(o)
    BY <2>2 DEF Local, Working, Deleted, NoOperation
  <2> QED BY <1>3, <1>5, <2>1, <2>3, Constants, StepOfOne DEF RunAfterThrows, SetOperation, SetFunction
<1>6. CASE o \in Waits /\ Wait(o)
  <2> DEFINE fn == [NoFunction EXCEPT !.refs = 2]
  <2>1. fn \in FunctionType /\ ~fn.freed
    BY <1>2 DEF NoFunction
  <2>2. operation'[o] = Begun /\ function'[o] = fn
    BY <1>6 DEF Wait, SetOperation, SetFunction, IInv, NodeTypeOK
  <2>3. Local(o)
    BY <1>1, <1>6, <2>1, <2>2 DEF Local, Distinct, Begun, NoOperation
  <2>4. promise' \in [Waits \cup Copies -> {"none", "pending", "settled"}]
    BY <1>3, <1>6 DEF Wait
  <2> QED BY <1>6, <2>1, <2>3, <2>4, Constants, StepOfOne DEF Wait, SetOperation, SetFunction
<1>7. CASE o \in Waits /\ WaitThrows(o)
  <2> DEFINE op == [Begun EXCEPT !.worker = "none", !.released = TRUE]
  <2> DEFINE fn == Released(Released([NoFunction EXCEPT !.refs = 2], "abort"), "release")
  <2>1. op \in OperationType /\ op.life = "live" /\ op.worker = "none"
    BY Constants DEF OperationType
  <2>2. fn \in FunctionType
    BY <1>2, ReleasedType
  <2>3. operation'[o] = op
    BY <1>7 DEF WaitThrows, SetOperation, IInv, NodeTypeOK
  <2>4. Local(o)
    BY <1>1, <2>1, <2>3 DEF Local, Working
  <2> QED BY <1>3, <1>7, <2>1, <2>2, <2>4, StepOfOne DEF WaitThrows, SetOperation, SetFunction
<1>8. CASE o \in Copies /\ CopyFrame(o)
  <2>1. operation'[o] = Begun
    BY <1>8 DEF CopyFrame, SetOperation, IInv, NodeTypeOK
  <2>2. Local(o)
    BY <1>1, <1>8, <2>1 DEF Local, Distinct, Begun, NoOperation
  <2>3. promise' \in [Waits \cup Copies -> {"none", "pending", "settled"}]
    BY <1>3, <1>8 DEF CopyFrame
  <2> QED BY <1>8, <2>2, <2>3, Constants, StepOfOne DEF CopyFrame, SetOperation
<1> QED BY <1>4, <1>5, <1>6, <1>7, <1>8

\* A cancelled operation differs in its token only.
LEMMA Cancelled ==
  ASSUME NEW op \in OperationType
  PROVE  /\ [op EXCEPT !.cancelled = TRUE] \in OperationType
         /\ [op EXCEPT !.cancelled = TRUE, !.released = TRUE] \in OperationType
         /\ [op EXCEPT !.released = TRUE] \in OperationType
  BY DEF OperationType

\* The timer is cancelled, and perhaps joined.
LEMMA CancelKeeps ==
  ASSUME Distinct, IInv, NEW o \in Timers,
         CancelTimer(o) \/ CloseTimer(o) \/ CleanupTimer(o)
  PROVE  IInv'
<1> DEFINE op == [operation[o] EXCEPT !.cancelled = TRUE]
<1>1. op \in OperationType /\ o \in Operations
  BY Here, Cancelled DEF Operations
<1>2. operation' = [operation EXCEPT ![o] = op] /\ operation'[o] = op
  BY DEF CancelTimer, CloseTimer, CleanupTimer, CloseCallbackOperation, IInv, NodeTypeOK, Operations
<1>3. UNCHANGED <<function, promise, turn, todo>> /\ (joining' = joining \/ (joining = None /\ joining' = o))
  BY DEF CancelTimer, CloseTimer, CleanupTimer, CloseCallbackOperation, MayCall
<1>4. op.worker = operation[o].worker /\ op.life = operation[o].life /\ op.registered = operation[o].registered
      /\ op.held = operation[o].held
  BY Here DEF Operations, OperationType
<1>5. Local(o)
  BY <1>1, <1>2, <1>3, <1>4 DEF Local, Working, IInv, WorkersOutlived, FunctionHeld, Found, Distinct
<1> QED BY <1>1, <1>2, <1>3, <1>5, Constants, StepOfOne DEF IInv, NodeTypeOK

LEMMA JoinedKeeps ==
  ASSUME Distinct, IInv, NEW o \in Operations, Joined(o)
  PROVE  IInv'
<1>1. ~Working(o) /\ operation[o] \in OperationType
  BY Here DEF Joined, Working
<1>2. CASE o \in Waits /\ turn = "cleanup"
  <2> DEFINE op == [operation[o] EXCEPT !.worker = "none"]
  <2>1. op \in OperationType /\ op.worker = "none" /\ op.life = operation[o].life
        /\ op.registered = operation[o].registered /\ op.held = operation[o].held
    BY <1>1 DEF OperationType
  <2>2. operation' = [operation EXCEPT ![o] = op] /\ operation'[o] = op
    BY <1>2 DEF Joined, IInv, NodeTypeOK
  <2>3. Local(o)
    BY <2>1, <2>2 DEF Local, Working, IInv, WorkersOutlived
  <2> QED BY <1>2, <2>1, <2>2, <2>3, Constants, StepOfOne DEF Joined, IInv, NodeTypeOK
<1>3. CASE ~(o \in Waits /\ turn = "cleanup")
  <2> DEFINE fn == [function[o] EXCEPT !.freed = TRUE]
  <2>1. operation' = [operation EXCEPT ![o] = Deleted] /\ operation'[o] = Deleted
    BY <1>3 DEF Joined, SetOperation, IInv, NodeTypeOK
  <2>2. Local(o)
    BY <2>1 DEF Local, Working, Deleted, NoOperation
  <2>3. CASE o \in Waits
    <3>1. fn \in FunctionType
      BY <2>3, Here DEF FunctionType
    <3>2. function' = [function EXCEPT ![o] = fn]
      BY <1>3, <2>3 DEF Joined
    <3> QED BY <2>1, <2>2, <3>1, <3>2, Constants, StepOfOne DEF Joined, IInv, NodeTypeOK
  <2>4. CASE o \notin Waits
    BY <1>3, <2>1, <2>2, <2>4, Constants, StepOfOne DEF Joined, IInv, NodeTypeOK
  <2> QED BY <2>3, <2>4
<1> QED BY <1>2, <1>3

\* A worker that moves on keeps its operation and, until it gives it back, its function.
LEMMA WorkerKeeps ==
  ASSUME Distinct, IInv, NEW o \in Operations, NodeWorkerStep(o)
  PROVE  IInv'
<1>1. operation[o] \in OperationType /\ Working(o) /\ operation[o].life = "live"
  BY Here DEF NodeWorkerStep, WaitReturns, CheckShutdown, CallFunction, ReleaseFunction, Execute, Executed,
              Moves, Working, IInv, WorkersOutlived
<1>2. promise \in [Waits \cup Copies -> {"none", "pending", "settled"}]
  BY DEF IInv, NodeTypeOK
<1> DEFINE Next(op) == /\ op.life = operation[o].life /\ op.registered = operation[o].registered
                       /\ op.held = operation[o].held
<1>3. CASE WaitReturns(o)
  <2> DEFINE op == [operation[o] EXCEPT !.worker = "check", !.failed = operation[o].cancelled]
  <2>1. op \in OperationType /\ Next(op)
    BY <1>1 DEF OperationType
  <2>2. operation'[o] = op
    BY <1>3 DEF WaitReturns, SetOperation, IInv, NodeTypeOK
  <2>3. Local(o)
    BY <1>1, <1>3, <2>1, <2>2 DEF Local, IInv, WorkersOutlived, FunctionHeld, Found, Distinct, WaitReturns
  <2> QED BY <1>2, <1>3, <2>1, <2>3, Constants, StepOfOne DEF WaitReturns, SetOperation
<1>4. CASE CheckShutdown(o) \/ Execute(o)
  <2>0. \E to \in {"call", "release", "execute"} :
          /\ operation' = [operation EXCEPT ![o] = [operation[o] EXCEPT !.worker = to]]
          /\ o \in Copies => to = "execute"
    <3>1. CASE CheckShutdown(o)
      BY <3>1 DEF CheckShutdown, Moves, SetOperation, IInv, PoolApart
    <3>2. CASE Execute(o)
      BY <3>2 DEF Execute, Moves, SetOperation
    <3> QED BY <1>4, <3>1, <3>2
  <2> PICK to \in {"call", "release", "execute"} :
          /\ operation' = [operation EXCEPT ![o] = [operation[o] EXCEPT !.worker = to]]
          /\ o \in Copies => to = "execute"
    BY <2>0
  <2> DEFINE op == [operation[o] EXCEPT !.worker = to]
  <2>1. op \in OperationType /\ Next(op) /\ op.worker = to
    BY <1>1 DEF OperationType
  <2>2. operation'[o] = op
    BY DEF IInv, NodeTypeOK
  <2>3. UNCHANGED <<function, promise, turn, joining, todo>>
    BY <1>4 DEF CheckShutdown, Execute, Moves
  <2>4. Local(o)
    BY <1>1, <2>1, <2>2, <2>3 DEF Local, IInv, WorkersOutlived, FunctionHeld, Found, Distinct
  <2> QED BY <1>2, <2>1, <2>3, <2>4, Constants, StepOfOne
<1>5. CASE Executed(o)
  <2> DEFINE op == [operation[o] EXCEPT !.worker = "returned", !.failed = shutting_down]
  <2>1. op \in OperationType /\ Next(op) /\ op.worker = "returned"
    <3>1. ASSUME NEW b \in BOOLEAN
          PROVE  [operation[o] EXCEPT !.worker = "returned", !.failed = b] \in OperationType
      BY <1>1 DEF OperationType
    <3>2. shutting_down \in BOOLEAN
      BY DEF shutting_down
    <3> HIDE DEF shutting_down
    <3> QED BY <1>1, <3>1, <3>2 DEF OperationType
  <2>2. operation'[o] = op
    BY <1>5 DEF Executed, SetOperation, IInv, NodeTypeOK
  <2>3. Local(o)
    BY <1>1, <2>1, <2>2 DEF Local, Working, IInv, WorkersOutlived
  <2> QED BY <1>2, <1>5, <2>1, <2>3, Constants, StepOfOne DEF Executed, SetOperation
<1>6. CASE CallFunction(o)
  <2>1. o \in Timers \cup Waits /\ function[o] \in FunctionType /\ ~function[o].freed /\ operation[o].registered
    BY <1>1, <1>6, Here DEF CallFunction, IInv, PoolApart, WorkersOutlived, Found, Operations
  <2> DEFINE op == [operation[o] EXCEPT !.worker = "release"]
  <2> DEFINE released == [operation[o] EXCEPT !.worker = "release", !.released = TRUE]
  <2> DEFINE back == Released(function[o], "release")
  <2> DEFINE both == ReleaseRuntimeReference(operation[o], back, "abort")
  <2> DEFINE called == [function[o] EXCEPT !.queued = TRUE]
  <2>2. /\ op \in OperationType /\ Next(op)
        /\ released \in OperationType /\ Next(released)
    BY <1>1 DEF OperationType
  <2>3. /\ called \in FunctionType /\ ~called.freed /\ called.refs = function[o].refs /\ called.closing = function[o].closing
        /\ back \in FunctionType /\ ~back.freed
        /\ both \in FunctionType /\ ~both.freed
    BY <2>1, ReleasedType, RuntimeReleasedType DEF FunctionType
  <2>4. UNCHANGED <<promise, turn, joining, todo>>
    BY <1>6 DEF CallFunction
  <2>5. /\ \A x : operation' = [operation EXCEPT ![o] = x] => operation'[o] = x
        /\ \A x : function' = [function EXCEPT ![o] = x] => function'[o] = x
    BY <2>1 DEF IInv, NodeTypeOK
  <2> HIDE DEF op, released, back, both, called
  <2>6. CASE operation' = [operation EXCEPT ![o] = op] /\ function' = [function EXCEPT ![o] = called]
    <3>1. Local(o)
      BY <1>1, <2>1, <2>2, <2>3, <2>4, <2>5, <2>6 DEF Local, IInv, WorkersOutlived, FunctionHeld, Found, Distinct
    <3> QED BY <1>2, <2>2, <2>3, <2>4, <2>6, <3>1, StepOfOne
  <2>7. CASE o \in Timers /\ function[o].closing /\ operation' = [operation EXCEPT ![o] = op] /\ function' = [function EXCEPT ![o] = back]
    <3>1. Local(o)
      BY <1>1, <2>1, <2>2, <2>3, <2>4, <2>5, <2>7 DEF Local, IInv, WorkersOutlived, FunctionHeld, Found, Distinct
    <3> QED BY <1>2, <2>2, <2>3, <2>4, <2>7, <3>1, StepOfOne
  <2>8. CASE o \in Waits /\ operation' = [operation EXCEPT ![o] = released] /\ function' = [function EXCEPT ![o] = both]
    <3>1. Local(o)
      BY <1>1, <2>1, <2>2, <2>3, <2>4, <2>5, <2>8 DEF Local, IInv, WorkersOutlived, FunctionHeld, Found, Distinct
    <3> QED BY <1>2, <2>2, <2>3, <2>4, <2>8, <3>1, StepOfOne
  <2> QED BY <1>6, <2>1, <2>6, <2>7, <2>8 DEF CallFunction, SetOperation, SetFunction, op, released, back, both, called
<1>7. CASE ReleaseFunction(o)
  <2>1. o \in Timers \cup Waits /\ function[o] \in FunctionType
    BY <1>1, <1>7, Here DEF ReleaseFunction, Moves, IInv, PoolApart, Operations
  <2> DEFINE op == [operation[o] EXCEPT !.worker = "returned"]
  <2>2. op \in OperationType /\ Next(op) /\ op.worker = "returned"
    BY <1>1 DEF OperationType
  <2>3. operation'[o] = op
    BY <1>7 DEF ReleaseFunction, Moves, SetOperation, IInv, NodeTypeOK
  <2>4. Local(o)
    BY <1>1, <2>2, <2>3 DEF Local, Working, IInv, WorkersOutlived
  <2>5. Released(function[o], "release") \in FunctionType
    BY <2>1, ReleasedType
  <2> QED BY <1>2, <1>7, <2>2, <2>4, <2>5, StepOfOne DEF ReleaseFunction, Moves, SetOperation, SetFunction
<1> QED BY <1>3, <1>4, <1>5, <1>6, <1>7 DEF NodeWorkerStep

\* The event loop: a function is freed under no worker, and a promise settled.
LEMMA LoopKeeps ==
  ASSUME Distinct, IInv, NEW o \in Operations,
         \/ o \in Timers /\ (CallTimerCallback(o) \/ FinalizeTimerFunction(o))
         \/ o \in Waits /\ (CompletePromiseOperation(o) \/ FinalizePromiseOperation(o))
         \/ o \in Copies /\ CompleteAsync(o)
  PROVE  IInv'
<1>1. operation[o] \in OperationType /\ operation = [operation EXCEPT ![o] = operation[o]]
  BY Here DEF IInv, NodeTypeOK
<1>2. promise \in [Waits \cup Copies -> {"none", "pending", "settled"}]
  BY DEF IInv, NodeTypeOK
<1>3. \A x : operation' = [operation EXCEPT ![o] = x] => operation'[o] = x
  BY DEF IInv, NodeTypeOK
<1>4. CASE o \in Timers /\ (CallTimerCallback(o) \/ FinalizeTimerFunction(o))
  <2> PICK x \in {"queued", "freed"} :
        /\ x = "queued" => CallTimerCallback(o)
        /\ x = "freed" => FinalizeTimerFunction(o)
    BY <1>4
  <2> DEFINE fn == IF x = "queued" THEN [function[o] EXCEPT !.queued = FALSE] ELSE [function[o] EXCEPT !.freed = TRUE]
  <2>1. /\ fn \in FunctionType /\ fn.refs = function[o].refs /\ fn.closing = function[o].closing
        /\ x = "queued" => fn.freed = function[o].freed
    BY <1>4, Here DEF FunctionType
  <2>2. function' = [function EXCEPT ![o] = fn] /\ function'[o] = fn
    BY <1>4 DEF CallTimerCallback, FinalizeTimerFunction, IInv, NodeTypeOK
  <2>3. UNCHANGED <<operation, promise, joining, todo>>
    BY DEF CallTimerCallback, FinalizeTimerFunction
  <2>4. x = "freed" => ~Working(o)
    BY <1>4 DEF FinalizeTimerFunction, InLoop, Finished, IInv, FunctionHeld, WorkersOutlived
  <2>5. Local(o)
    BY <1>4, <2>1, <2>2, <2>3, <2>4 DEF Local, Working, IInv, WorkersOutlived, FunctionHeld, Found, PoolApart, Distinct
  <2>6. turn' = turn \/ (turn' = "loop" /\ turn = "callback") \/ (turn' = "callback" /\ turn = "loop")
    BY DEF CallTimerCallback, FinalizeTimerFunction
  <2> QED BY <1>1, <1>2, <2>1, <2>2, <2>3, <2>5, <2>6, StepOfOne
<1>5. CASE o \in Waits /\ CompletePromiseOperation(o)
  <2> DEFINE op == [operation[o] EXCEPT !.released = TRUE]
  <2> DEFINE fn == ReleaseRuntimeReference(operation[o], [function[o] EXCEPT !.queued = FALSE], "release")
  <2>1. /\ op \in OperationType /\ op.worker = operation[o].worker /\ op.life = operation[o].life
        /\ op.registered = operation[o].registered /\ op.held = operation[o].held
    BY <1>1 DEF OperationType
  <2>2. fn \in FunctionType /\ fn.freed = function[o].freed
    <3> DEFINE taken == [function[o] EXCEPT !.queued = FALSE]
    <3>1. taken \in FunctionType /\ taken.freed = function[o].freed
      BY <1>5, Here DEF FunctionType
    <3> HIDE DEF taken
    <3>2. /\ ReleaseRuntimeReference(operation[o], taken, "release") \in FunctionType
          /\ ReleaseRuntimeReference(operation[o], taken, "release").freed = taken.freed
      BY <3>1, RuntimeReleasedType
    <3> QED BY <3>1, <3>2 DEF taken
  <2> HIDE DEF op, fn
  <2>3. operation' = [operation EXCEPT ![o] = op] /\ operation'[o] = op
    BY <1>3, <1>5 DEF CompletePromiseOperation, op
  <2>4. function' = [function EXCEPT ![o] = fn] /\ function'[o] = fn
    BY <1>5 DEF CompletePromiseOperation, SetFunction, IInv, NodeTypeOK, fn
  <2>5. UNCHANGED <<turn, joining, todo>> /\ promise' \in [Waits \cup Copies -> {"none", "pending", "settled"}]
    BY <1>2, <1>5 DEF CompletePromiseOperation, Settle
  <2>6. Local(o)
    BY <1>5, <2>1, <2>2, <2>3, <2>4, <2>5 DEF Local, Working, IInv, WorkersOutlived, Found, Distinct
  <2> QED BY <2>1, <2>2, <2>3, <2>4, <2>5, <2>6, StepOfOne
<1>6. CASE o \in Waits /\ FinalizePromiseOperation(o)
  <2>1. UNCHANGED <<operation, function, promise, turn, todo>> /\ joining = None /\ joining' = o
    BY <1>6 DEF FinalizePromiseOperation, InLoop
  <2>2. Local(o)
    BY <1>6, <2>1 DEF Local, Working, IInv, WorkersOutlived, Found, Distinct
  <2> QED BY <1>1, <1>2, <2>1, <2>2, Constants, StepOfOne
<1>7. CASE o \in Copies /\ CompleteAsync(o)
  <2>1. operation' = [operation EXCEPT ![o] = Deleted] /\ operation'[o] = Deleted
    BY <1>3, <1>7 DEF CompleteAsync, SetOperation
  <2>2. UNCHANGED <<function, turn, joining, todo>> /\ promise' \in [Waits \cup Copies -> {"none", "pending", "settled"}]
    BY <1>2, <1>7 DEF CompleteAsync, Settle
  <2>3. Local(o)
    BY <2>1 DEF Local, Working, Deleted, NoOperation
  <2> QED BY <2>1, <2>2, <2>3, Constants, StepOfOne
<1> QED BY <1>4, <1>5, <1>6, <1>7

\* The hook takes every wait that works on its list.
LEMMA CleanupBegins ==
  ASSUME Distinct, IInv, CleanupAddon
  PROVE  IInv'
<1>1. \A o \in Operations : CancelWork(o) \in OperationType
  <2> SUFFICES ASSUME NEW o \in Operations PROVE CancelWork(o) \in OperationType
    OBVIOUS
  <2>1. operation[o] \in OperationType
    BY Here
  <2> QED BY <2>1 DEF CancelWork, OperationType
<1>2. \A o \in Operations :
        /\ operation'[o] = CancelWork(o)
        /\ operation'[o].life = operation[o].life
        /\ operation'[o].registered = operation[o].registered
        /\ operation'[o].held = operation[o].held
        /\ operation'[o].worker \in {operation[o].worker, "returned"}
  <2> SUFFICES ASSUME NEW o \in Operations
               PROVE  /\ operation'[o] = CancelWork(o)
                      /\ operation'[o].life = operation[o].life
                      /\ operation'[o].registered = operation[o].registered
                      /\ operation'[o].held = operation[o].held
                      /\ operation'[o].worker \in {operation[o].worker, "returned"}
    OBVIOUS
  <2>1. operation[o] \in OperationType
    BY Here
  <2>2. operation'[o] = CancelWork(o)
    BY DEF CleanupAddon
  <2> QED BY <2>1, <2>2 DEF CancelWork, OperationType
<1>3. \A o \in Timers \cup Waits : function'[o] \in FunctionType /\ function'[o].freed = function[o].freed
  <2> SUFFICES ASSUME NEW o \in Timers \cup Waits
               PROVE  function'[o] \in FunctionType /\ function'[o].freed = function[o].freed
    OBVIOUS
  <2>1. function[o] \in FunctionType
    BY Here DEF Operations
  <2>2. ASSUME NEW b \in BOOLEAN
        PROVE  [function[o] EXCEPT !.closing = b] \in FunctionType /\ [function[o] EXCEPT !.closing = b].freed = function[o].freed
    BY <2>1 DEF FunctionType
  <2>3. function'[o] = [function[o] EXCEPT !.closing = operation[o].life # "none"]
    BY DEF CleanupAddon, IInv, NodeTypeOK
  <2>4. (operation[o].life # "none") \in BOOLEAN
    OBVIOUS
  <2> QED BY <2>2, <2>3, <2>4
<1>4. turn \in {"loop", "callback"} /\ turn' = "cleanup" /\ todo' = Registered(Waits) /\ UNCHANGED <<promise, joining>>
  BY DEF CleanupAddon, MayCall
<1>5. NodeTypeOK'
  <2>1. operation' \in [Operations -> OperationType]
    BY <1>1 DEF CleanupAddon
  <2>2. function' \in [Timers \cup Waits -> FunctionType]
    BY <1>3 DEF CleanupAddon, IInv, NodeTypeOK
  <2> QED BY <1>4, <2>1, <2>2 DEF IInv, NodeTypeOK, OperationType, FunctionType, Registered
<1>6. \A o \in Operations : Working(o)' => Working(o)
  BY <1>2 DEF Working
<1>7. WorkersOutlived' /\ FunctionHeld'
  BY <1>2, <1>3, <1>4, <1>6 DEF IInv, WorkersOutlived, FunctionHeld, Operations
<1>8. Found'
  BY <1>2, <1>4, <1>6 DEF IInv, Found, Registered, Operations
<1>9. PoolApart'
  BY <1>2 DEF IInv, PoolApart, Operations
<1> QED BY <1>5, <1>7, <1>8, <1>9 DEF IInv

LEMMA CleanupKeeps ==
  ASSUME Distinct, IInv, NEW o \in Waits, CleanupWait(o)
  PROVE  IInv'
<1> DEFINE op == [operation[o] EXCEPT !.cancelled = TRUE, !.released = TRUE]
<1> DEFINE fn == ReleaseRuntimeReference(operation[o], function[o], "abort")
<1>1. o \in Operations /\ operation[o] \in OperationType /\ function[o] \in FunctionType
  BY Here DEF Operations
<1>2. /\ op \in OperationType /\ op.worker = operation[o].worker /\ op.life = operation[o].life
      /\ op.registered = operation[o].registered /\ op.held = operation[o].held
  BY <1>1 DEF OperationType
<1>3. fn \in FunctionType /\ fn.freed = function[o].freed
  BY <1>1, RuntimeReleasedType
<1> HIDE DEF op, fn
<1>4. operation' = [operation EXCEPT ![o] = op] /\ operation'[o] = op
  BY <1>1 DEF CleanupWait, IInv, NodeTypeOK, op
<1>5. function' = [function EXCEPT ![o] = fn] /\ function'[o] = fn
  BY DEF CleanupWait, SetFunction, IInv, NodeTypeOK, fn
<1>6. UNCHANGED <<promise, turn>> /\ joining = None /\ joining' = o /\ todo' = todo \ {o}
  BY DEF CleanupWait
<1>7. Local(o)
  BY <1>1, <1>2, <1>3, <1>4, <1>5, <1>6 DEF Local, Working, IInv, WorkersOutlived, Found, Distinct
<1> QED BY <1>1, <1>2, <1>3, <1>4, <1>5, <1>6, <1>7, StepOfOne DEF IInv, NodeTypeOK

\* When the hook ends, every worker it found was joined.
LEMMA CleanupReaps ==
  ASSUME Distinct, IInv, CleanupEnds \/ CallbackEnds
  PROVE  IInv'
<1>1. UNCHANGED <<operation, function, promise, joining, todo>>
  BY DEF CleanupEnds, CallbackEnds
<1>2. \A o \in Operations : Working(o)' <=> Working(o)
  BY <1>1 DEF Working
<1>3. NodeTypeOK' /\ PoolApart'
  BY <1>1 DEF CleanupEnds, CallbackEnds, IInv, NodeTypeOK, PoolApart
<1>4. CASE CallbackEnds
  BY <1>1, <1>2, <1>3, <1>4 DEF CallbackEnds, IInv, WorkersOutlived, FunctionHeld, Found, Operations, shutting_down
<1>5. CASE CleanupEnds
  <2>1. \A o \in Timers \cup Waits : ~Working(o)
    BY <1>5 DEF CleanupEnds, Reaped, Registered, IInv, Found, shutting_down, Distinct, Operations
  <2> QED BY <1>1, <1>2, <1>3, <1>5, <2>1 DEF CleanupEnds, IInv, WorkersOutlived, FunctionHeld, Found, Operations
<1> QED BY <1>4, <1>5

LEMMA StepKeeps == ASSUME Distinct, IInv, [NodeNext]_node PROVE IInv'
<1>1. CASE UNCHANGED node
  BY <1>1 DEF node, IInv, NodeTypeOK, WorkersOutlived, FunctionHeld, Found, PoolApart, Working, shutting_down
<1>2. CASE NodeNext
  BY <1>1, <1>2, BeginKeeps, CancelKeeps, JoinedKeeps, WorkerKeeps, LoopKeeps, CleanupBegins, CleanupKeeps, CleanupReaps
     DEF NodeNext, LoopStep, Gone, Operations
<1> QED BY <1>1, <1>2

LEMMA Invariance == ASSUME Distinct PROVE NodeSpec => []IInv
<1>1. NodeInit => IInv
  BY InitHolds
<1>2. IInv /\ [NodeNext]_node => IInv'
  BY StepKeeps
<1> QED BY <1>1, <1>2, PTL DEF NodeSpec

-----------------------------------------------------------------------------
\* The records of operations and functions have their types in every reachable state.
THEOREM NodeTypeCorrect == ASSUME Distinct PROVE NodeSpec => []NodeTypeOK
<1>1. IInv => NodeTypeOK
  BY DEF IInv
<1> QED BY <1>1, Invariance, PTL

\* Whatever closes, collections and the end of the environment interleave with the
\* workers, the operation and the function of a worker outlive it, and the cleanup
\* leaves none (addon.cpp:208-211).
THEOREM WorkersOutlivedAlways == ASSUME Distinct PROVE NodeSpec => []WorkersOutlived
<1>1. IInv => WorkersOutlived
  BY DEF IInv
<1> QED BY <1>1, Invariance, PTL
=============================================================================
