-------------------------- MODULE ControllerProofs --------------------------
(***************************************************************************)
(* Proofs about Controller.  The invariant says, for each place where      *)
(* reconcile may stand, how far listeners, memory and database agree with  *)
(* the plan it makes true; what is promised of the idle service follows.   *)
(***************************************************************************)
EXTENDS Controller, TLAPS

\* The service serves, or is about to.
Alive == svc \in {"booting", "up"}

\* A process that is down holds nothing; one that boots has just read its plan.
DownIsEmpty ==
    svc = "down" => /\ handler.at = "idle" /\ tasks = Nothing
                    /\ \A e \in Endpoints : socket[e] \in {Free, Foreign}

BootsItsPlan == svc = "booting" => handler.at = "starting" /\ handler.target = mem

\* As long as saves are accepted the database holds what the handler is making
\* true or, when it is idle, what is in memory.
StoredIsTarget ==
    svc # "down" /\ ~stale =>
        /\ handler.at = "idle" => stored = mem
        /\ handler.at # "idle" => stored = handler.target

\* Only a hang-up leaves a listener that nobody can cancel.
UnderControl ==
    Alive /\ ~stale => \A e \in Endpoints, k \in Keys : Listening(e, k) => tasks[k] = e

\* Where reconcile stands decides how far the listeners agree with its plan.
TasksFollow ==
    Alive =>
        /\ handler.at = "idle" /\ ~stale =>
              \A k \in Keys : tasks[k] # None => tasks[k] = mem[k]
        /\ handler.at = "saved" =>
              \A k \in Keys : tasks[k] # None /\ Owner[k] # handler.user
                                => tasks[k] = handler.target[k]
        /\ handler.at \in {"stopping", "starting"} =>
              \A k \in Keys : tasks[k] # None => tasks[k] = handler.target[k]
        /\ handler.at = "starting" =>
              \A k \in Keys : k \in Wanted(handler.target) \ handler.todo
                                => tasks[k] = handler.target[k]

\* The handler changes the tunnels of its own user only, and starts only wanted ones.
TargetIsOwn ==
    /\ handler.todo \subseteq Wanted(handler.target)
    /\ handler.at # "idle" /\ svc # "booting" =>
          \A k \in Keys : Owner[k] # handler.user => handler.target[k] = mem[k]

\* No answer is given before the handler is done.
NoAnswerYet == handler.at # "idle" \/ ~Serving => answer = "none"

ControllerInv ==
    /\ TypeOK /\ RegisteredListens /\ DownIsEmpty /\ BootsItsPlan /\ StoredIsTarget
    /\ UnderControl /\ TasksFollow /\ TargetIsOwn /\ NoAnswerYet /\ OkMeansServed

-----------------------------------------------------------------------------
(* Plans and the handler's states.                                         *)

Ats == {"idle", "saved", "stopping", "starting"}

HandlerStates ==
    [at : Ats, user : Users \cup {None}, target : Plans,
     awaits : SUBSET Endpoints, todo : SUBSET Keys, undo : BOOLEAN]

\* A plan gives every tunnel an endpoint or none, and no endpoint two tunnels.
LEMMA PlanValues ==
  ASSUME NEW p \in Plans
  PROVE  /\ p \in [Keys -> Endpoints \cup {None}]
         /\ \A k \in Keys : p[k] # None => p[k] \in Endpoints
         /\ \A j, k \in Keys : p[j] = p[k] /\ p[j] # None => j = k
BY DEF Plans

\* To have no tunnels is a plan.
LEMMA NothingIsPlan == Nothing \in Plans /\ \A k \in Keys : Nothing[k] = None
BY DEF Plans, Nothing

\* The handler at rest.
LEMMA IdleState ==
  /\ Idle \in HandlerStates
  /\ Idle.at = "idle" /\ Idle.todo = {} /\ Idle.awaits = {} /\ Idle.target = Nothing
<1>1. FALSE \in BOOLEAN
  OBVIOUS
<1> QED
  BY <1>1, NothingIsPlan DEF Idle, HandlerStates, Ats

\* The handler when reconcile begins.
LEMMA ReconcileState ==
  ASSUME NEW u \in Users \cup {None}, NEW plan \in Plans, NEW undo \in BOOLEAN,
         Reconcile(u, plan, undo)
  PROVE  /\ handler' \in HandlerStates
         /\ handler'.at = "saved" /\ handler'.user = u /\ handler'.target = plan
         /\ handler'.todo = {}
<1>1. handler' = [at |-> "saved", user |-> u, target |-> plan, awaits |-> {},
                  todo |-> {}, undo |-> undo]
  BY DEF Reconcile, Idle
<1>2. undo \in BOOLEAN
  OBVIOUS
<1> QED
  BY <1>1, <1>2 DEF HandlerStates, Ats

\* The handler once the obsolete listeners are cancelled.
LEMMA StoppingState ==
  ASSUME handler \in HandlerStates, NEW awaits \in SUBSET Endpoints,
         handler' = [handler EXCEPT !.at = "stopping", !.awaits = awaits]
  PROVE  /\ handler' \in HandlerStates
         /\ handler'.at = "stopping" /\ handler'.awaits = awaits /\ handler'.todo = handler.todo
         /\ handler'.user = handler.user /\ handler'.target = handler.target
         /\ handler'.undo = handler.undo
BY DEF HandlerStates, Ats

\* The handler once they have ended.
LEMMA StartingState ==
  ASSUME handler \in HandlerStates, NEW todo \in SUBSET Keys,
         handler' = [handler EXCEPT !.at = "starting", !.todo = todo]
  PROVE  /\ handler' \in HandlerStates
         /\ handler'.at = "starting" /\ handler'.awaits = handler.awaits /\ handler'.todo = todo
         /\ handler'.user = handler.user /\ handler'.target = handler.target
         /\ handler'.undo = handler.undo
BY DEF HandlerStates, Ats

\* The handler after a tunnel's turn.
LEMMA TodoState ==
  ASSUME handler \in HandlerStates, NEW todo \in SUBSET Keys,
         handler' = [handler EXCEPT !.todo = todo]
  PROVE  /\ handler' \in HandlerStates
         /\ handler'.at = handler.at /\ handler'.awaits = handler.awaits /\ handler'.todo = todo
         /\ handler'.user = handler.user /\ handler'.target = handler.target
         /\ handler'.undo = handler.undo
BY DEF HandlerStates, Ats

\* The handler after a listener's end.
LEMMA AwaitsState ==
  ASSUME handler \in HandlerStates, NEW awaits \in SUBSET Endpoints,
         handler' = [handler EXCEPT !.awaits = awaits]
  PROVE  /\ handler' \in HandlerStates
         /\ handler'.at = handler.at /\ handler'.awaits = awaits /\ handler'.todo = handler.todo
         /\ handler'.user = handler.user /\ handler'.target = handler.target
         /\ handler'.undo = handler.undo
BY DEF HandlerStates, Ats

\* The fields of the handler.
LEMMA HandlerFields ==
  ASSUME handler \in HandlerStates
  PROVE  /\ handler.at \in Ats /\ handler.user \in Users \cup {None}
         /\ handler.target \in Plans /\ handler.awaits \subseteq Endpoints
         /\ handler.todo \subseteq Keys
BY DEF HandlerStates

-----------------------------------------------------------------------------
(* Types.                                                                  *)

\* The types but the handler's.
Others ==
    /\ svc \in {"down", "booting", "up", "draining", "flushing"}
    /\ stored \in Plans /\ mem \in Plans /\ tasks \in Plans
    /\ stale \in BOOLEAN /\ full \in BOOLEAN
    /\ socket \in [Endpoints -> Held \cup {Free, Foreign}]
    /\ awaited \subseteq Endpoints
    /\ answer \in {"none", "ok", "conflict", "error"}

\* What TypeOK says, in two parts.
LEMMA TypeParts ==
  /\ TypeOK <=> Others /\ handler \in HandlerStates
  /\ TypeOK' <=> Others' /\ handler' \in HandlerStates
BY DEF TypeOK, Others, HandlerStates, Ats

\* The sockets after some of the listeners in tasks are cancelled.
LEMMA CancelledSockets ==
  ASSUME TypeOK, RegisteredListens, NEW gone \in SUBSET Wanted(tasks)
  PROVE  /\ {tasks[k] : k \in gone} \subseteq Endpoints
         /\ Cancelled({tasks[k] : k \in gone}) \in [Endpoints -> Held \cup {Free, Foreign}]
<1>1. \A k \in gone : tasks[k] \in Endpoints /\ Listening(tasks[k], k)
  BY PlanValues DEF TypeOK, RegisteredListens, Wanted
<1>2. ASSUME NEW e \in {tasks[k] : k \in gone}
      PROVE  [socket[e] EXCEPT !.as = "ending"] \in Held
  <2>1. PICK k \in gone : e = tasks[k]
    OBVIOUS
  <2>2. socket[e] = [by |-> k, as |-> "listening"] /\ k \in Keys
    BY <1>1, <2>1 DEF Listening, Wanted
  <2>3. [socket[e] EXCEPT !.as = "ending"] = [by |-> k, as |-> "ending"]
    BY <2>2
  <2> QED
    BY <2>2, <2>3 DEF Held, Holders
<1>3. \A e \in Endpoints : socket[e] \in Held \cup {Free, Foreign}
  BY DEF TypeOK
<1> QED
  BY <1>1, <1>2, <1>3 DEF Cancelled

\* A save's answer and the plan it starts to make true.
LEMMA SaveTypes ==
  ASSUME ControllerInv, NEW u \in Users, NEW plan \in Plans,
         SavePlan(u, plan) \/ SaveFails(u, plan)
  PROVE  TypeOK'
<1>1. Others /\ handler \in HandlerStates
  BY TypeParts DEF ControllerInv
<1>2. CASE SavePlan(u, plan)
  <2>1. handler' \in HandlerStates
    BY <1>2, ReconcileState DEF SavePlan
  <2>2. Others'
    BY <1>1, <1>2 DEF SavePlan, Others
  <2> QED
    BY <2>1, <2>2, TypeParts
<1>3. CASE SaveFails(u, plan)
  <2>1. Others' /\ handler' = handler
    BY <1>1, <1>3 DEF SaveFails, Others
  <2> QED
    BY <1>1, <2>1, TypeParts
<1> QED
  BY <1>2, <1>3

\* The steps of reconcile and what follows it.
LEMMA HandlerTypes ==
  ASSUME ControllerInv, HandlerStep
  PROVE  TypeOK'
<1>1. Others /\ handler \in HandlerStates /\ RegisteredListens /\ TypeOK
      /\ handler.todo \subseteq Wanted(handler.target)
  BY TypeParts DEF ControllerInv, TargetIsOwn
<1> SUFFICES Others' /\ handler' \in HandlerStates
  BY TypeParts
<1>2. CASE StopObsolete
  <2> DEFINE gone == {k \in Keys : tasks[k] # None
                                   /\ (tasks[k] # handler.target[k] \/ k \in Dashed)}
  <2>1. /\ tasks' = [k \in Keys |-> IF k \in gone THEN None ELSE tasks[k]]
        /\ socket' = Cancelled({tasks[k] : k \in gone})
        /\ handler' = [handler EXCEPT !.at = "stopping", !.awaits = {tasks[k] : k \in gone}]
        /\ UNCHANGED <<svc, stored, mem, stale, awaited, full, answer>>
    BY <1>2 DEF StopObsolete, Obsolete
  <2>2. gone \in SUBSET Wanted(tasks)
    BY DEF Wanted
  <2>3. {tasks[k] : k \in gone} \subseteq Endpoints
        /\ socket' \in [Endpoints -> Held \cup {Free, Foreign}]
    <3> HIDE DEF gone
    <3> QED
      BY <1>1, <2>1, <2>2, CancelledSockets
  <2>4. handler' \in HandlerStates
    <3> HIDE DEF gone
    <3> QED
      BY <1>1, <2>1, <2>3, StoppingState
  <2>5. tasks' \in Plans
    BY <1>1, <2>1, PlanValues DEF Others, Plans
  <2> QED
    BY <1>1, <2>1, <2>3, <2>4, <2>5 DEF Others
<1>3. CASE Stopped
  <2>1. Wanted(handler.target) \in SUBSET Keys
    BY DEF Wanted
  <2>2. handler' = [handler EXCEPT !.at = "starting", !.todo = Wanted(handler.target)]
    BY <1>3 DEF Stopped
  <2>3. handler' \in HandlerStates
    BY <1>1, <2>1, <2>2, StartingState
  <2> QED
    BY <1>1, <1>3, <2>3 DEF Stopped, Others
<1>4. CASE Reconciled
  <2>1. Others'
    BY <1>1, <1>4, HandlerFields DEF Reconciled, Others
  <2> QED
    BY <1>4, <2>1, IdleState DEF Reconciled
<1>5. CASE Started
  BY <1>1, <1>5, IdleState DEF Started, Others
<1>6. ASSUME NEW k \in Keys, Running(k)
      PROVE  Others' /\ handler' \in HandlerStates
  <2>1. handler.todo \ {k} \in SUBSET Keys
    BY <1>1, HandlerFields
  <2>2. handler' = [handler EXCEPT !.todo = handler.todo \ {k}]
    BY <1>6 DEF Running
  <2>3. handler' \in HandlerStates
    BY <1>1, <2>1, <2>2, TodoState
  <2> QED
    BY <1>1, <1>6, <2>3 DEF Running, Others
<1>7. ASSUME NEW k \in Keys, StartTask(k)
      PROVE  Others' /\ handler' \in HandlerStates
  <2>1. handler.todo \ {k} \in SUBSET Keys
    BY <1>1, HandlerFields
  <2>2. /\ handler' = [handler EXCEPT !.todo = handler.todo \ {k}]
        /\ tasks' = [tasks EXCEPT ![k] = handler.target[k]]
        /\ socket' = [socket EXCEPT ![handler.target[k]] = [by |-> k, as |-> "listening"]]
        /\ socket[handler.target[k]] = Free
        /\ k \in handler.todo
        /\ UNCHANGED <<svc, stored, mem, stale, awaited, full, answer>>
    BY <1>7 DEF StartTask, Binds, Turn
  <2>3. handler' \in HandlerStates
    BY <1>1, <2>1, <2>2, TodoState
  <2>4. handler.target[k] \in Endpoints
    BY <1>1, <2>2, HandlerFields, PlanValues DEF Wanted
  <2>5. [by |-> k, as |-> "listening"] \in Held
    BY DEF Held, Holders
  <2>6. socket' \in [Endpoints -> Held \cup {Free, Foreign}]
    BY <1>1, <2>2, <2>5 DEF Others
  <2>7. \A j \in Keys : tasks[j] # handler.target[k]
    <3> SUFFICES ASSUME NEW j \in Keys, tasks[j] = handler.target[k] PROVE FALSE
      OBVIOUS
    <3>1. Listening(handler.target[k], j)
      BY <1>1, <2>4, ControllerConstants DEF RegisteredListens
    <3> QED
      BY <2>2, <3>1, ControllerConstants DEF Listening, Free
  <2>8. tasks' \in Plans
    <3>1. tasks' \in [Keys -> Endpoints \cup {None}]
      BY <1>1, <2>2, <2>4, PlanValues DEF Others
    <3>2. \A i, j \in Keys : tasks'[i] = tasks'[j] /\ tasks'[i] # None => i = j
      BY <1>1, <2>2, <2>7, PlanValues DEF Others
    <3> QED
      BY <3>1, <3>2 DEF Plans
  <2> QED
    BY <1>1, <2>2, <2>3, <2>6, <2>8 DEF Others
<1>8. ASSUME NEW k \in Keys, RollBack(k)
      PROVE  Others' /\ handler' \in HandlerStates
  <2>1. handler.user \in Users \cup {None} /\ mem \in Plans
    BY <1>1, HandlerFields DEF Others
  <2>2. handler' \in HandlerStates
    BY <1>8, <2>1, ReconcileState DEF RollBack
  <2> QED
    BY <1>1, <1>8, <2>2 DEF RollBack, Others
<1>9. ASSUME NEW k \in Keys, RollbackFails(k)
      PROVE  Others' /\ handler' \in HandlerStates
  BY <1>1, <1>9, IdleState DEF RollbackFails, Others
<1>10. ASSUME NEW k \in Keys, IgnoreFailure(k)
       PROVE  Others' /\ handler' \in HandlerStates
  BY <1>1, <1>10, IdleState, HandlerFields DEF IgnoreFailure, Others
<1>11. ASSUME NEW k \in Keys, StartFails(k)
       PROVE  Others' /\ handler' \in HandlerStates
  BY <1>1, <1>11, IdleState, NothingIsPlan DEF StartFails, Exit, Others
<1> QED
  BY <1>2, <1>3, <1>4, <1>5, <1>6, <1>7, <1>8, <1>9, <1>10, <1>11 DEF HandlerStep

\* Hang-ups and what happens to the sockets.
LEMMA AroundTypes ==
  ASSUME ControllerInv,
         \/ HangUp
         \/ \E k \in Keys : HangUpBound(k)
         \/ \E e \in Endpoints : \/ EndpointStep(e) \/ SessionBlocks(e)
                                 \/ TakePort(e) \/ LeavePort(e)
  PROVE  TypeOK'
<1>1. Others /\ handler \in HandlerStates /\ handler.todo \subseteq Wanted(handler.target)
  BY TypeParts DEF ControllerInv, TargetIsOwn
<1> SUFFICES Others' /\ handler' \in HandlerStates
  BY TypeParts
<1>2. CASE HangUp
  BY <1>1, <1>2, IdleState DEF HangUp, Others
<1>3. ASSUME NEW k \in Keys, HangUpBound(k)
      PROVE  Others' /\ handler' \in HandlerStates
  <2>1. [by |-> k, as |-> "listening"] \in Held
    BY DEF Held, Holders
  <2> QED
    BY <1>1, <1>3, <2>1, IdleState DEF HangUpBound, Binds, Others
<1>4. ASSUME NEW e \in Endpoints, ListenerEnds(e)
      PROVE  Others' /\ handler' \in HandlerStates
  <2>1. /\ handler' = [handler EXCEPT !.awaits = handler.awaits \ {e}]
        /\ handler.awaits \ {e} \in SUBSET Endpoints
        /\ awaited' \subseteq Endpoints
    BY <1>1, <1>4, HandlerFields DEF ListenerEnds, HandleReturns, Others
  <2>2. handler' \in HandlerStates
    BY <1>1, <2>1, AwaitsState
  <2>3. socket' \in [Endpoints -> Held \cup {Free, Foreign}]
    <3>1. socket[e] \in Held
      BY <1>1, <1>4 DEF ListenerEnds, Others, Free, Foreign
    <3>2. [socket[e] EXCEPT !.as = "lingering"] \in Held
      BY <3>1 DEF Held, Holders
    <3> QED
      BY <1>1, <1>4, <3>2 DEF ListenerEnds, Others
  <2> QED
    BY <1>1, <1>4, <2>1, <2>2, <2>3 DEF ListenerEnds, Others
<1>5. ASSUME NEW e \in Endpoints,
             \/ SessionsEnd(e) \/ SessionResumes(e) \/ SessionBlocks(e)
             \/ TakePort(e) \/ LeavePort(e)
      PROVE  Others' /\ handler' \in HandlerStates
  <2>1. socket[e] \in Held => \A s \in Holders : [socket[e] EXCEPT !.as = s] \in Held
    BY DEF Held
  <2>2. socket[e].as \in {"lingering", "blocked"} => socket[e] \in Held
    BY <1>1 DEF Others, Free, Foreign
  <2>3. socket' \in [Endpoints -> Held \cup {Free, Foreign}]
    <3>1. CASE SessionsEnd(e) \/ TakePort(e) \/ LeavePort(e)
      BY <1>1, <3>1 DEF SessionsEnd, TakePort, LeavePort, Others
    <3>2. CASE SessionResumes(e) \/ SessionBlocks(e)
      BY <1>1, <2>1, <2>2, <3>2 DEF SessionResumes, SessionBlocks, Others, Holders
    <3> QED
      BY <1>5, <3>1, <3>2
  <2>4. UNCHANGED <<svc, stored, mem, stale, tasks, handler, awaited, full, answer>>
    BY <1>5 DEF SessionsEnd, SessionResumes, SessionBlocks, TakePort, LeavePort
  <2> QED
    BY <1>1, <2>3, <2>4 DEF Others
<1> QED
  BY <1>2, <1>3, <1>4, <1>5 DEF EndpointStep

\* The service and its surroundings.
LEMMA ServiceTypes ==
  ASSUME ControllerInv,
         \/ QueueFills \/ QueueDrains
         \/ Start \/ Kill \/ Shutdown \/ Drained \/ Flushed \/ Command
  PROVE  TypeOK'
<1>1. Others /\ handler \in HandlerStates /\ RegisteredListens /\ TypeOK
  BY TypeParts DEF ControllerInv
<1> SUFFICES Others' /\ handler' \in HandlerStates
  BY TypeParts
<1>2. CASE QueueFills \/ QueueDrains \/ Drained
  BY <1>1, <1>2 DEF QueueFills, QueueDrains, Drained, Others
<1>3. CASE Start
  <2>1. handler' = [at |-> "starting", user |-> None, target |-> stored, awaits |-> {},
                    todo |-> Wanted(stored), undo |-> FALSE]
    BY <1>3 DEF Start, Idle
  <2>2. FALSE \in BOOLEAN /\ Wanted(stored) \subseteq Keys /\ stored \in Plans
    BY <1>1 DEF Wanted, Others
  <2>3. handler' \in HandlerStates
    BY <2>1, <2>2 DEF HandlerStates, Ats
  <2> QED
    BY <1>1, <1>3, <2>3 DEF Start, Others
<1>4. CASE Kill \/ Flushed
  BY <1>1, <1>4, IdleState, NothingIsPlan DEF Kill, Flushed, Exit, Others
<1>5. CASE Shutdown
  <2>1. Wanted(tasks) \in SUBSET Wanted(tasks)
    OBVIOUS
  <2>2. {tasks[k] : k \in Wanted(tasks)} \subseteq Endpoints
        /\ Cancelled({tasks[k] : k \in Wanted(tasks)}) \in [Endpoints -> Held \cup {Free, Foreign}]
    BY <1>1, <2>1, CancelledSockets
  <2> QED
    BY <1>1, <1>5, <2>2, NothingIsPlan DEF Shutdown, Others
<1>6. CASE Command
  <2>1. stored' \in Plans
    <3>1. CASE UNCHANGED stored
      BY <1>1, <3>1 DEF Others
    <3>2. ASSUME NEW u \in Users,
                 stored' = [k \in Keys |-> IF Owner[k] = u THEN None ELSE stored[k]]
          PROVE  stored' \in Plans
      BY <1>1, <3>2, PlanValues DEF Others, Plans
    <3> QED
      BY <1>6, <3>1, <3>2 DEF Command
  <2> QED
    BY <1>1, <1>6, <2>1 DEF Command, Others
<1> QED
  BY <1>2, <1>3, <1>4, <1>5, <1>6

-----------------------------------------------------------------------------
(* The other parts of the invariant.                                       *)

\* What the invariant says beyond the types.
Agreement ==
    /\ RegisteredListens /\ DownIsEmpty /\ BootsItsPlan /\ StoredIsTarget
    /\ UnderControl /\ TasksFollow /\ TargetIsOwn /\ NoAnswerYet /\ OkMeansServed

\* The fields of the handler's states that the steps produce.
LEMMA StateFields ==
  ASSUME ControllerInv
  PROVE  /\ Agreement /\ TypeOK /\ Others /\ handler \in HandlerStates
         /\ handler.at \in Ats /\ handler.target \in Plans /\ handler.todo \subseteq Keys
         /\ handler.user \in Users \cup {None} /\ handler.awaits \subseteq Endpoints
BY TypeParts, HandlerFields DEF ControllerInv, Agreement

\* A save begins only from an idle handler and agrees with the memory on the
\* other users' tunnels.
LEMMA SaveAgrees ==
  ASSUME ControllerInv, NEW u \in Users, NEW plan \in Plans,
         SavePlan(u, plan) \/ SaveFails(u, plan)
  PROVE  Agreement'
<1>1. Agreement /\ TypeOK /\ Others /\ handler \in HandlerStates
  BY StateFields
<1>2. CASE SavePlan(u, plan)
  <2>1. /\ handler'.at = "saved" /\ handler'.user = u /\ handler'.target = plan
        /\ handler'.todo = {}
    BY <1>2, ReconcileState DEF SavePlan
  <2>2. /\ Serving /\ handler.at = "idle" /\ ~stale /\ stored' = plan /\ answer' = "none"
        /\ \A k \in Keys : Owner[k] # u => plan[k] = mem[k]
        /\ UNCHANGED <<svc, mem, stale, tasks, socket, awaited, full>>
    BY <1>2 DEF SavePlan, PlansOf
  <2>3. RegisteredListens' /\ DownIsEmpty' /\ UnderControl'
    BY <1>1, <2>2 DEF Agreement, RegisteredListens, DownIsEmpty, UnderControl, Listening, Alive,
       Serving
  <2>4. BootsItsPlan' /\ StoredIsTarget' /\ TargetIsOwn' /\ NoAnswerYet' /\ OkMeansServed'
    BY <1>1, <2>1, <2>2 DEF BootsItsPlan, StoredIsTarget, TargetIsOwn, NoAnswerYet,
       OkMeansServed, Serving
  <2>5. TasksFollow'
    BY <1>1, <2>1, <2>2 DEF Agreement, TasksFollow, Alive, Serving
  <2> QED
    BY <2>3, <2>4, <2>5 DEF Agreement
<1>3. CASE SaveFails(u, plan)
  <2>1. /\ handler.at = "idle" /\ answer' = "error" /\ Serving
        /\ ~stale' => stored' = stored /\ stale' = stale
        /\ UNCHANGED <<svc, mem, tasks, socket, handler, awaited, full>>
    BY <1>3 DEF SaveFails
  <2>2. RegisteredListens' /\ DownIsEmpty' /\ UnderControl'
    BY <1>1, <2>1 DEF Agreement, RegisteredListens, DownIsEmpty, UnderControl, Listening, Alive
  <2>3. BootsItsPlan' /\ StoredIsTarget' /\ TargetIsOwn' /\ NoAnswerYet' /\ OkMeansServed'
    BY <1>1, <2>1 DEF Agreement, BootsItsPlan, StoredIsTarget, TargetIsOwn, NoAnswerYet,
       OkMeansServed, Serving, Wanted
  <2>4. TasksFollow'
    BY <1>1, <2>1 DEF Agreement, TasksFollow, Alive, Serving
  <2> QED
    BY <2>2, <2>3, <2>4 DEF Agreement
<1> QED
  BY <1>2, <1>3

\* The steps of reconcile up to the binding: listeners are stopped and awaited.
LEMMA StopAgrees ==
  ASSUME ControllerInv, StopObsolete \/ Stopped
  PROVE  Agreement'
<1>1. /\ Agreement /\ TypeOK /\ Others /\ handler \in HandlerStates
      /\ handler.at \in Ats /\ handler.target \in Plans
  BY StateFields
<1>2. CASE StopObsolete
  <2> DEFINE gone == {k \in Keys : tasks[k] # None
                                   /\ (tasks[k] # handler.target[k] \/ k \in Dashed)}
             cancelled == {tasks[k] : k \in gone}
  <2>1. /\ handler.at = "saved"
        /\ tasks' = [k \in Keys |-> IF k \in gone THEN None ELSE tasks[k]]
        /\ socket' = Cancelled(cancelled)
        /\ handler' = [handler EXCEPT !.at = "stopping", !.awaits = cancelled]
        /\ UNCHANGED <<svc, stored, mem, stale, awaited, full, answer>>
    BY <1>2 DEF StopObsolete, Obsolete
  <2>2. /\ handler'.at = "stopping" /\ handler'.user = handler.user
        /\ handler'.target = handler.target /\ handler'.todo = handler.todo
    <3>1. gone \in SUBSET Wanted(tasks)
      BY DEF Wanted
    <3>2. cancelled \subseteq Endpoints
      <4> HIDE DEF gone
      <4> QED
        BY <1>1, <3>1, CancelledSockets DEF Agreement
    <3> HIDE DEF cancelled
    <3> QED
      BY <1>1, <2>1, <3>2, StoppingState
  <2>3. \A e \in Endpoints, k \in Keys : Listening(e, k)' <=> Listening(e, k) /\ e \notin cancelled
    <3> SUFFICES ASSUME NEW e \in Endpoints
                 PROVE  \A k \in Keys : Listening(e, k)' <=> Listening(e, k) /\ e \notin cancelled
      OBVIOUS
    <3>1. CASE e \notin cancelled
      <4> HIDE DEF cancelled
      <4> QED
        BY <2>1, <3>1 DEF Cancelled, Listening
    <3>2. CASE e \in cancelled
      <4>1. socket'[e] = [socket[e] EXCEPT !.as = "ending"]
        <5> HIDE DEF cancelled
        <5> QED
          BY <2>1, <3>2 DEF Cancelled
      <4>2. PICK j \in Keys : e = tasks[j] /\ tasks[j] # None
        BY <3>2
      <4>3. socket[e] = [by |-> j, as |-> "listening"]
        BY <1>1, <4>2 DEF Agreement, RegisteredListens, Listening
      <4>4. socket'[e] = [by |-> j, as |-> "ending"]
        BY <4>1, <4>3
      <4>5. \A k \in Keys : socket'[e] # [by |-> k, as |-> "listening"]
        BY <4>4
      <4> QED
        BY <3>2, <4>5 DEF Listening
    <3> QED
      BY <3>1, <3>2
  <2>4. \A k \in Keys : /\ tasks'[k] = tasks[k] \/ tasks'[k] = None
                        /\ tasks'[k] # None => tasks[k] = handler.target[k]
    BY <2>1
  <2>5. \A k \in Keys : tasks'[k] # None => tasks[k] \notin cancelled /\ tasks[k] \in Endpoints
    BY <1>1, <2>1, PlanValues DEF Others
  <2>6. RegisteredListens'
    BY <1>1, <2>3, <2>4, <2>5 DEF Agreement, RegisteredListens
  <2>7. UnderControl'
    <3> SUFFICES ASSUME Alive, ~stale, NEW e \in Endpoints, NEW k \in Keys,
                        Listening(e, k), e \notin cancelled
                 PROVE  tasks'[k] = e
      BY <2>1, <2>3 DEF UnderControl, Alive
    <3>1. tasks[k] = e /\ e # None
      BY <1>1, ControllerConstants DEF Agreement, UnderControl
    <3>2. k \notin gone
      BY <3>1
    <3> QED
      BY <2>1, <3>1, <3>2
  <2> HIDE DEF gone, cancelled
  <2>9. TasksFollow'
    BY <1>1, <2>1, <2>2, <2>4 DEF Agreement, TasksFollow, Alive
  <2>10. DownIsEmpty' /\ BootsItsPlan' /\ StoredIsTarget' /\ TargetIsOwn' /\ NoAnswerYet' /\ OkMeansServed'
    BY <1>1, <2>1, <2>2 DEF Agreement, DownIsEmpty, BootsItsPlan, StoredIsTarget,
       TargetIsOwn, NoAnswerYet, OkMeansServed, Serving
  <2> QED
    BY <2>6, <2>7, <2>9, <2>10 DEF Agreement
<1>3. CASE Stopped
  <2>1. /\ handler'.at = "starting" /\ handler'.user = handler.user
        /\ handler'.target = handler.target /\ handler'.todo = Wanted(handler.target)
    <3>1. Wanted(handler.target) \in SUBSET Keys
      BY DEF Wanted
    <3> QED
      BY <1>1, <1>3, <3>1, StartingState DEF Stopped
  <2>2. /\ handler.at = "stopping"
        /\ UNCHANGED <<svc, stored, mem, stale, tasks, socket, awaited, full, answer>>
    BY <1>3 DEF Stopped
  <2>3. RegisteredListens' /\ DownIsEmpty' /\ UnderControl'
    BY <1>1, <2>2 DEF Agreement, RegisteredListens, DownIsEmpty, UnderControl, Listening, Alive
  <2>4. BootsItsPlan' /\ StoredIsTarget' /\ TargetIsOwn' /\ NoAnswerYet' /\ OkMeansServed'
    BY <1>1, <2>1, <2>2 DEF Agreement, BootsItsPlan, StoredIsTarget, TargetIsOwn, NoAnswerYet,
       OkMeansServed, Serving, Wanted
  <2>5. TasksFollow'
    BY <1>1, <2>1, <2>2 DEF Agreement, TasksFollow, Alive
  <2> QED
    BY <2>3, <2>4, <2>5 DEF Agreement
<1> QED
  BY <1>2, <1>3

\* The desired tunnels get their turns, and reconcile ends with all of them or
\* with the first that cannot be bound.
LEMMA StartAgrees ==
  ASSUME ControllerInv, NEW k \in Keys, Running(k) \/ StartTask(k)
  PROVE  Agreement'
<1>1. /\ Agreement /\ TypeOK /\ Others /\ handler \in HandlerStates
      /\ handler.at \in Ats /\ handler.target \in Plans /\ handler.todo \subseteq Keys
  BY StateFields
<1>2. /\ handler' = [handler EXCEPT !.todo = handler.todo \ {k}]
      /\ handler.at = "starting" /\ k \in handler.todo
      /\ UNCHANGED <<svc, stored, mem, stale, awaited, full, answer>>
  BY DEF Running, StartTask, Binds, Turn
<1>3. /\ handler'.at = "starting" /\ handler'.user = handler.user
      /\ handler'.target = handler.target /\ handler'.todo = handler.todo \ {k}
  <2>1. handler.todo \ {k} \in SUBSET Keys
    BY <1>1
  <2> QED
    BY <1>1, <1>2, <2>1, TodoState
<1>4. handler.target[k] # None /\ handler.target[k] \in Endpoints
  BY <1>1, <1>2, PlanValues DEF Agreement, TargetIsOwn, Wanted
<1>5. BootsItsPlan' /\ StoredIsTarget' /\ TargetIsOwn' /\ NoAnswerYet' /\ OkMeansServed'
  BY <1>1, <1>2, <1>3 DEF Agreement, BootsItsPlan, StoredIsTarget, TargetIsOwn, NoAnswerYet,
     OkMeansServed, Serving, Wanted
<1>6. svc # "down"
  BY <1>1, <1>2 DEF Agreement, DownIsEmpty
<1>7. CASE Running(k)
  <2>1. tasks[k] # None /\ UNCHANGED <<tasks, socket>>
    BY <1>7 DEF Running
  <2>2. RegisteredListens' /\ DownIsEmpty' /\ UnderControl'
    BY <1>1, <1>2, <1>6, <2>1 DEF Agreement, RegisteredListens, DownIsEmpty, UnderControl,
       Listening, Alive
  <2>3. TasksFollow'
    BY <1>1, <1>2, <1>3, <2>1 DEF Agreement, TasksFollow, Alive
  <2> QED
    BY <1>5, <2>2, <2>3 DEF Agreement
<1>8. CASE StartTask(k)
  <2> DEFINE e == handler.target[k]
  <2>1. /\ tasks[k] = None /\ socket[e] = Free
        /\ tasks' = [tasks EXCEPT ![k] = e]
        /\ socket' = [socket EXCEPT ![e] = [by |-> k, as |-> "listening"]]
    BY <1>8 DEF StartTask, Binds
  <2> HIDE DEF e
  <2>2. e \in Endpoints /\ e # None
    BY <1>4 DEF e
  <2>3. /\ \A j \in Keys : tasks'[j] = IF j = k THEN e ELSE tasks[j]
        /\ \A d \in Endpoints : d # e => socket'[d] = socket[d]
        /\ socket'[e] = [by |-> k, as |-> "listening"]
    BY <1>1, <2>1, <2>2, PlanValues DEF Others
  <2>4. \A j \in Keys : tasks[j] # None => tasks[j] \in Endpoints /\ tasks[j] # e
    <3>1. \A j \in Keys : socket[e] # [by |-> j, as |-> "listening"]
      BY <2>1 DEF Free
    <3> QED
      BY <1>1, <3>1, PlanValues DEF Others, Agreement, RegisteredListens, Listening
  <2>5. RegisteredListens'
    BY <1>1, <2>2, <2>3, <2>4 DEF Agreement, RegisteredListens, Listening
  <2>6. UnderControl'
    <3>1. \A j \in Keys : [by |-> k, as |-> "listening"] = [by |-> j, as |-> "listening"] => j = k
      OBVIOUS
    <3>2. ASSUME Alive, ~stale, NEW d \in Endpoints, NEW j \in Keys,
                 socket'[d] = [by |-> j, as |-> "listening"]
          PROVE  tasks'[j] = d
      <4>1. CASE d = e
        BY <2>3, <3>1, <3>2, <4>1
      <4>2. CASE d # e
        <5>1. tasks[j] = d /\ d # None
          BY <1>1, <2>3, <3>2, <4>2, ControllerConstants DEF Agreement, UnderControl, Listening
        <5>2. j # k
          BY <2>1, <5>1
        <5> QED
          BY <2>3, <5>1, <5>2
      <4> QED
        BY <4>1, <4>2
    <3> QED
      BY <1>2, <3>2 DEF UnderControl, Alive, Listening
  <2>7. TasksFollow'
    BY <1>1, <1>2, <1>3, <2>3 DEF Agreement, TasksFollow, Alive, e
  <2>8. DownIsEmpty'
    BY <1>2, <1>6 DEF DownIsEmpty
  <2> QED
    BY <1>5, <2>5, <2>6, <2>7, <2>8 DEF Agreement
<1> QED
  BY <1>7, <1>8

\* Reconcile's end, the rollback and a failed start.
LEMMA EndAgrees ==
  ASSUME ControllerInv,
         \/ Reconciled \/ Started
         \/ \E k \in Keys : RollBack(k) \/ RollbackFails(k) \/ IgnoreFailure(k)
  PROVE  Agreement'
<1>1. /\ Agreement /\ TypeOK /\ Others /\ handler \in HandlerStates
      /\ handler.at \in Ats /\ handler.target \in Plans /\ handler.todo \subseteq Keys
      /\ handler.user \in Users \cup {None}
  BY StateFields
<1>2. /\ UNCHANGED <<tasks, socket>>
      /\ svc # "down" /\ svc' # "down"
      /\ svc' # svc => svc = "booting" /\ svc' = "up"
  <2>1. CASE Reconciled \/ Started
    BY <2>1 DEF Reconciled, Started, Serving
  <2>2. ASSUME NEW k \in Keys, RollBack(k) \/ RollbackFails(k) \/ IgnoreFailure(k)
        PROVE  UNCHANGED <<svc, tasks, socket>> /\ svc # "down"
    BY <2>2 DEF RollBack, RollbackFails, IgnoreFailure, Serving
  <2> QED
    BY <2>1, <2>2
<1>3. RegisteredListens' /\ DownIsEmpty'
  BY <1>1, <1>2 DEF Agreement, RegisteredListens, DownIsEmpty, Listening
<1>4. UnderControl'
  <2>1. ~stale' => ~stale
    BY <1>1 DEF Others, Reconciled, Started, RollBack, RollbackFails, IgnoreFailure
  <2> QED
    BY <1>1, <1>2, <2>1 DEF Agreement, UnderControl, Listening, Alive
<1>5. CASE Reconciled \/ Started
  <2>1. /\ handler.at = "starting" /\ handler.todo = {}
        /\ handler' = Idle /\ UNCHANGED <<stored, stale>>
        /\ mem' = handler.target
        /\ Serving' /\ (answer' \in {"conflict", "ok"} \/ answer' = answer)
    BY <1>1, <1>5 DEF Reconciled, Started, Serving, Agreement, BootsItsPlan
  <2>2. /\ handler'.at = "idle" /\ handler'.todo = {} /\ handler'.target = Nothing
    BY <2>1, IdleState
  <2>3. BootsItsPlan' /\ StoredIsTarget' /\ TargetIsOwn' /\ NoAnswerYet'
    BY <1>1, <1>2, <2>1, <2>2 DEF Agreement, BootsItsPlan, StoredIsTarget, TargetIsOwn,
       NoAnswerYet, Serving
  <2>4. svc' = "up" => \A k \in Keys :
           /\ tasks[k] # None => tasks[k] = handler.target[k]
           /\ handler.target[k] # None => tasks[k] = handler.target[k]
    BY <1>1, <1>2, <2>1 DEF Agreement, TasksFollow, Alive, Wanted
  <2>5. TasksFollow'
    BY <1>2, <2>1, <2>2, <2>4 DEF TasksFollow, Alive, Serving
  <2>6. OkMeansServed'
    <3>1. svc' = "up" => tasks = handler.target
      BY <1>1, <2>4, PlanValues DEF Others
    <3> QED
      BY <1>2, <2>1, <3>1 DEF OkMeansServed
  <2> QED
    BY <1>3, <1>4, <2>3, <2>5, <2>6 DEF Agreement
<1>6. ASSUME NEW k \in Keys, RollBack(k)
      PROVE  Agreement'
  <2>1. /\ Serving /\ handler.at = "starting" /\ stored' = mem /\ ~stale
        /\ UNCHANGED <<svc, mem, stale, tasks, socket, awaited, full, answer>>
    BY <1>6 DEF RollBack, CannotBind, Turn
  <2>2. /\ handler'.at = "saved" /\ handler'.user = handler.user
        /\ handler'.target = mem /\ handler'.todo = {}
    BY <1>1, <1>6, ReconcileState DEF RollBack, Others
  <2>3. BootsItsPlan' /\ StoredIsTarget' /\ TargetIsOwn' /\ NoAnswerYet' /\ OkMeansServed'
    BY <1>1, <2>1, <2>2 DEF Agreement, BootsItsPlan, StoredIsTarget, TargetIsOwn, NoAnswerYet,
       OkMeansServed, Serving, Wanted
  <2>4. TasksFollow'
    BY <1>1, <2>1, <2>2 DEF Agreement, TasksFollow, TargetIsOwn, Alive, Serving
  <2> QED
    BY <1>3, <1>4, <2>3, <2>4 DEF Agreement
<1>7. ASSUME NEW k \in Keys, RollbackFails(k) \/ IgnoreFailure(k)
      PROVE  Agreement'
  <2>1. /\ Serving /\ handler.at = "starting" /\ handler' = Idle /\ answer' = "conflict"
        /\ svc' = svc
        /\ stale' = TRUE \/ (UNCHANGED <<stored, stale>> /\ mem' = handler.target)
    BY <1>7 DEF RollbackFails, IgnoreFailure, CannotBind, Turn
  <2>2. handler'.at = "idle" /\ handler'.todo = {} /\ handler'.target = Nothing
    BY <2>1, IdleState
  <2>3. BootsItsPlan' /\ StoredIsTarget' /\ TargetIsOwn' /\ NoAnswerYet' /\ OkMeansServed'
    BY <1>1, <2>1, <2>2 DEF Agreement, BootsItsPlan, StoredIsTarget, TargetIsOwn, NoAnswerYet,
       OkMeansServed, Serving, Wanted
  <2>4. TasksFollow'
    BY <1>1, <1>2, <2>1, <2>2 DEF Agreement, TasksFollow, Alive, Serving
  <2> QED
    BY <1>3, <1>4, <2>3, <2>4 DEF Agreement
<1> QED
  BY <1>5, <1>6, <1>7

\* Hang-ups leave memory, database and listeners as they are.
LEMMA HangUpAgrees ==
  ASSUME ControllerInv, HangUp \/ \E k \in Keys : HangUpBound(k)
  PROVE  Agreement'
<1>1. Agreement /\ TypeOK /\ Others /\ handler \in HandlerStates /\ handler.target \in Plans
      /\ handler.todo \subseteq Keys
  BY StateFields
<1>2. /\ Serving /\ handler.at # "idle" /\ stale' = TRUE /\ handler' = Idle
      /\ UNCHANGED <<svc, stored, mem, tasks, awaited, full, answer>>
  BY DEF HangUp, HangUpBound, Binds, Turn
<1>3. handler'.at = "idle" /\ handler'.todo = {} /\ handler'.target = Nothing
  BY <1>2, IdleState
<1>4. /\ DownIsEmpty' /\ BootsItsPlan' /\ StoredIsTarget' /\ UnderControl' /\ TasksFollow'
      /\ TargetIsOwn' /\ NoAnswerYet' /\ OkMeansServed'
  BY <1>1, <1>2, <1>3 DEF Agreement, DownIsEmpty, BootsItsPlan, StoredIsTarget, UnderControl,
     TasksFollow, TargetIsOwn, NoAnswerYet, OkMeansServed, Serving, Alive
<1>5. RegisteredListens'
  <2>1. CASE HangUp
    BY <1>1, <1>2, <2>1 DEF HangUp, Agreement, RegisteredListens, Listening
  <2>2. ASSUME NEW k \in Keys, HangUpBound(k)
        PROVE  RegisteredListens'
    <3>1. /\ socket[handler.target[k]] = Free
          /\ socket' = [socket EXCEPT ![handler.target[k]] = [by |-> k, as |-> "listening"]]
      BY <2>2 DEF HangUpBound, Binds
    <3>2. \A j \in Keys : socket[handler.target[k]] # [by |-> j, as |-> "listening"]
      BY <3>1 DEF Free
    <3> QED
      BY <1>1, <1>2, <3>1, <3>2, PlanValues DEF Others, Agreement, RegisteredListens, Listening
  <2> QED
    BY <2>1, <2>2
<1> QED
  BY <1>4, <1>5 DEF Agreement

\* Nothing that happens to the sockets touches a listener.
LEMMA SocketAgrees ==
  ASSUME ControllerInv, NEW e \in Endpoints,
         EndpointStep(e) \/ SessionBlocks(e) \/ TakePort(e) \/ LeavePort(e)
  PROVE  Agreement'
<1>1. Agreement /\ TypeOK /\ Others /\ handler \in HandlerStates /\ handler.awaits \subseteq Endpoints
  BY StateFields
<1>2. /\ \A d \in Endpoints : d # e => socket'[d] = socket[d]
      /\ \A k \in Keys : ~ Listening(e, k) /\ ~ Listening(e, k)'
  <2>1. CASE ListenerEnds(e)
    BY <1>1, <2>1 DEF ListenerEnds, Listening, Others, Free
  <2>2. CASE SessionsEnd(e) \/ TakePort(e) \/ LeavePort(e)
    BY <1>1, <2>2 DEF SessionsEnd, TakePort, LeavePort, Listening, Others, Free, Foreign
  <2>3. CASE SessionResumes(e) \/ SessionBlocks(e)
    BY <1>1, <2>3 DEF SessionResumes, SessionBlocks, Listening, Others
  <2> QED
    BY <2>1, <2>2, <2>3 DEF EndpointStep
<1>3. /\ UNCHANGED <<svc, stored, mem, stale, tasks, answer>>
      /\ handler' = handler \/ handler' = [handler EXCEPT !.awaits = handler.awaits \ {e}]
  BY DEF EndpointStep, ListenerEnds, HandleReturns, SessionsEnd, SessionResumes, SessionBlocks,
         TakePort, LeavePort
<1>4. /\ handler'.at = handler.at /\ handler'.user = handler.user
      /\ handler'.target = handler.target /\ handler'.todo = handler.todo
  <2>1. handler.awaits \ {e} \in SUBSET Endpoints
    BY <1>1
  <2> QED
    BY <1>1, <1>3, <2>1, AwaitsState
<1>5. /\ BootsItsPlan' /\ StoredIsTarget' /\ TasksFollow' /\ TargetIsOwn'
      /\ NoAnswerYet' /\ OkMeansServed'
  BY <1>1, <1>3, <1>4 DEF Agreement, BootsItsPlan, StoredIsTarget, TasksFollow, TargetIsOwn,
     NoAnswerYet, OkMeansServed, Serving, Alive, Wanted
<1>6. RegisteredListens' /\ UnderControl'
  BY <1>1, <1>2, <1>3, PlanValues DEF Agreement, RegisteredListens, UnderControl, Listening,
     Alive, Others
<1>7. DownIsEmpty'
  <2>1. socket[e] \in {Free, Foreign} => socket'[e] \in {Free, Foreign}
    BY <1>1 DEF EndpointStep, ListenerEnds, SessionsEnd, SessionResumes, SessionBlocks,
       TakePort, LeavePort, Others, Free, Foreign
  <2> QED
    BY <1>1, <1>2, <1>3, <1>4, <2>1 DEF Agreement, DownIsEmpty
<1> QED
  BY <1>5, <1>6, <1>7 DEF Agreement

\* When the process ends nothing is left of it but the database.
LEMMA ExitAgrees ==
  ASSUME ControllerInv, Exit
  PROVE  Agreement'
<1>1. /\ handler'.at = "idle" /\ handler'.todo = {} /\ handler'.target = Nothing
      /\ svc' = "down" /\ tasks' = Nothing /\ answer' = "none"
      /\ \A e \in Endpoints : socket'[e] \in {Free, Foreign}
  BY IdleState DEF Exit
<1>2. \A k \in Keys : tasks'[k] = None
  BY <1>1, NothingIsPlan
<1> QED
  BY <1>1, <1>2 DEF Agreement, RegisteredListens, DownIsEmpty, BootsItsPlan, StoredIsTarget,
     UnderControl, TasksFollow, TargetIsOwn, NoAnswerYet, OkMeansServed, Serving, Alive, Wanted

\* The service and its surroundings.
LEMMA ServiceAgrees ==
  ASSUME ControllerInv,
         \/ QueueFills \/ QueueDrains
         \/ Start \/ Kill \/ Shutdown \/ Drained \/ Flushed \/ Command
         \/ \E k \in Keys : StartFails(k)
  PROVE  Agreement'
<1>1. Agreement /\ TypeOK /\ Others /\ handler \in HandlerStates
  BY StateFields
<1>2. CASE Kill \/ Flushed \/ \E k \in Keys : StartFails(k)
  BY <1>2, ExitAgrees DEF Kill, Flushed, StartFails
<1>3. CASE QueueFills \/ QueueDrains
  <2>1. UNCHANGED <<svc, stored, mem, stale, tasks, socket, handler, awaited, answer>>
    BY <1>3 DEF QueueFills, QueueDrains
  <2> QED
    BY <1>1, <2>1 DEF Agreement, RegisteredListens, DownIsEmpty, BootsItsPlan, StoredIsTarget,
       UnderControl, TasksFollow, TargetIsOwn, NoAnswerYet, OkMeansServed, Serving, Alive,
       Wanted, Listening
<1>4. CASE Start
  <2>1. handler' = [at |-> "starting", user |-> None, target |-> stored, awaits |-> {},
                    todo |-> Wanted(stored), undo |-> FALSE]
    BY <1>4 DEF Start, Idle
  <2>2. /\ handler'.at = "starting" /\ handler'.target = stored
        /\ handler'.todo = Wanted(stored)
    BY <2>1
  <2>3. /\ svc = "down" /\ svc' = "booting" /\ mem' = stored
        /\ UNCHANGED <<stored, tasks, socket, answer>>
    BY <1>4 DEF Start
  <2>4. /\ tasks = Nothing /\ answer = "none"
        /\ \A e \in Endpoints, k \in Keys : ~ Listening(e, k)
    BY <1>1, <2>3 DEF Agreement, DownIsEmpty, NoAnswerYet, Serving, Listening, Free, Foreign
  <2>5. \A k \in Keys : tasks[k] = None
    BY <2>4, NothingIsPlan
  <2>6. RegisteredListens' /\ UnderControl'
    BY <2>3, <2>4, <2>5 DEF RegisteredListens, UnderControl, Listening
  <2>7. DownIsEmpty' /\ BootsItsPlan' /\ StoredIsTarget' /\ TargetIsOwn' /\ NoAnswerYet' /\ OkMeansServed'
    BY <2>2, <2>3, <2>4 DEF DownIsEmpty, BootsItsPlan, StoredIsTarget, TargetIsOwn, NoAnswerYet,
       OkMeansServed, Wanted
  <2>8. TasksFollow'
    BY <2>2, <2>3, <2>5 DEF TasksFollow, Wanted
  <2> QED
    BY <2>6, <2>7, <2>8 DEF Agreement
<1>5. CASE Shutdown
  <2>1. /\ svc = "up" /\ svc' = "draining" /\ tasks' = Nothing
        /\ UNCHANGED <<stored, mem, stale, handler, answer>>
    BY <1>5 DEF Shutdown
  <2>2. \A k \in Keys : tasks'[k] = None
    BY <2>1, NothingIsPlan
  <2> QED
    BY <1>1, <2>1, <2>2 DEF Agreement, RegisteredListens, DownIsEmpty, BootsItsPlan,
       StoredIsTarget, UnderControl, TasksFollow, TargetIsOwn, NoAnswerYet, OkMeansServed,
       Serving, Alive, Wanted
<1>6. CASE Drained
  <2>1. /\ svc = "draining" /\ svc' = "flushing"
        /\ UNCHANGED <<stored, mem, stale, tasks, socket, handler, answer>>
    BY <1>6 DEF Drained
  <2> QED
    BY <1>1, <2>1 DEF Agreement, RegisteredListens, DownIsEmpty, BootsItsPlan, StoredIsTarget,
       UnderControl, TasksFollow, TargetIsOwn, NoAnswerYet, OkMeansServed, Serving, Alive,
       Wanted, Listening
<1>7. CASE Command
  <2>1. stale' = TRUE /\ UNCHANGED <<svc, mem, tasks, socket, handler, answer>>
    BY <1>7 DEF Command
  <2> QED
    BY <1>1, <2>1 DEF Agreement, RegisteredListens, DownIsEmpty, BootsItsPlan, StoredIsTarget,
       UnderControl, TasksFollow, TargetIsOwn, NoAnswerYet, OkMeansServed, Serving, Alive,
       Wanted, Listening
<1> QED
  BY <1>2, <1>3, <1>4, <1>5, <1>6, <1>7

-----------------------------------------------------------------------------
(* The theorems.                                                           *)

\* Nothing listens, nothing is stored and the service is down.
LEMMA InitInv == Init => ControllerInv
<1> SUFFICES ASSUME Init PROVE ControllerInv
  OBVIOUS
<1>1. /\ handler \in HandlerStates /\ handler.at = "idle" /\ handler.todo = {}
      /\ \A k \in Keys : tasks[k] = None
  BY IdleState, NothingIsPlan DEF Init
<1>2. TypeOK
  BY <1>1, NothingIsPlan, TypeParts DEF Init, Others
<1>3. Agreement
  BY <1>1 DEF Init, Agreement, RegisteredListens, DownIsEmpty, BootsItsPlan, StoredIsTarget,
     UnderControl, TasksFollow, TargetIsOwn, NoAnswerYet, OkMeansServed, Serving, Alive
<1> QED
  BY <1>2, <1>3 DEF ControllerInv, Agreement

\* Every step keeps the invariant.
LEMMA NextInv == ControllerInv /\ [Next]_vars => ControllerInv'
<1> SUFFICES ASSUME ControllerInv, [Next]_vars PROVE ControllerInv'
  OBVIOUS
<1>1. CASE Next
  <2>1. TypeOK'
    BY <1>1, SaveTypes, HandlerTypes, AroundTypes, ServiceTypes DEF Next
  <2>2. Agreement'
    BY <1>1, SaveAgrees, StopAgrees, StartAgrees, EndAgrees, HangUpAgrees, SocketAgrees,
       ServiceAgrees DEF Next, HandlerStep
  <2> QED
    BY <2>1, <2>2 DEF ControllerInv, Agreement
<1>2. CASE UNCHANGED vars
  <2>1. UNCHANGED <<svc, stored, mem, stale, tasks, socket, handler, awaited, full, answer>>
    BY <1>2 DEF vars
  <2>2. TypeOK'
    BY <2>1, TypeParts DEF ControllerInv, Others
  <2>3. Agreement'
    BY <2>1 DEF ControllerInv, Agreement, RegisteredListens, DownIsEmpty, BootsItsPlan,
       StoredIsTarget, UnderControl, TasksFollow, TargetIsOwn, NoAnswerYet, OkMeansServed,
       Serving, Alive, Wanted, Listening
  <2> QED
    BY <2>2, <2>3 DEF ControllerInv, Agreement
<1> QED
  BY <1>1, <1>2

\* The controller's inductive invariant.
THEOREM ControllerInvariant == Spec => []ControllerInv
BY InitInv, NextInv, PTL DEF Spec

\* The variables keep their types: no two tunnels share an endpoint, in the
\* database, in memory or among the listeners (controller.rs TrafficController).
THEOREM ControllerTypeCorrect == Spec => []TypeOK
<1>1. ControllerInv => TypeOK
  BY DEF ControllerInv
<1> QED
  BY <1>1, ControllerInvariant, PTL

\* A registered listener listens, for any users, tunnels and ports
\* (controller.rs reconcile).
THEOREM RegisteredTheorem == Spec => []RegisteredListens
<1>1. ControllerInv => RegisteredListens
  BY DEF ControllerInv
<1> QED
  BY <1>1, ControllerInvariant, PTL

\* Between two saves the service listens for what is configured, only, and its
\* memory is the database (app.rs tunnels, controller.rs reconcile).
THEOREM OnlyConfiguredTheorem == Spec => []ServesOnlyConfigured
<1>1. ControllerInv => ServesOnlyConfigured
  <2> SUFFICES ASSUME ControllerInv, svc = "up", handler.at = "idle", ~stale
               PROVE  /\ stored = mem
                      /\ \A e \in Endpoints, k \in Keys :
                            Listening(e, k) => tasks[k] = e /\ mem[k] = e
    BY DEF ServesOnlyConfigured
  <2>1. stored = mem
    BY DEF ControllerInv, StoredIsTarget
  <2>2. ASSUME NEW e \in Endpoints, NEW k \in Keys, Listening(e, k)
        PROVE  tasks[k] = e /\ mem[k] = e
    <3>1. tasks[k] = e /\ e # None
      BY <2>2, ControllerConstants DEF ControllerInv, UnderControl, Alive
    <3> QED
      BY <3>1 DEF ControllerInv, TasksFollow, Alive
  <2> QED
    BY <2>1, <2>2
<1> QED
  BY <1>1, ControllerInvariant, PTL

\* Success means that every tunnel of every user has its listener
\* (app.rs tunnels).
THEOREM OkTheorem == Spec => []OkMeansServed
<1>1. ControllerInv => OkMeansServed
  BY DEF ControllerInv
<1> QED
  BY <1>1, ControllerInvariant, PTL

\* A running listener is stopped by a save of its own user only, unless its name
\* is drawn anew at every save (controller.rs reconcile, model.rs proxy_name_for).
THEOREM UndisturbedTheorem == Spec => OthersUndisturbed
<1> DEFINE Own == svc = "up" /\ svc' = "up" =>
                    \A k \in Keys \ Dashed : tasks[k] # None /\ tasks'[k] # tasks[k]
                                               => handler.user = Owner[k]
<1>1. ControllerInv /\ [Next]_vars => Own
  <2> SUFFICES ASSUME ControllerInv, [Next]_vars, svc = "up", svc' = "up",
                      NEW k \in Keys \ Dashed, tasks[k] # None, tasks'[k] # tasks[k]
               PROVE  handler.user = Owner[k]
    OBVIOUS
  <2>1. StopObsolete \/ \E j \in Keys : StartTask(j)
    <3>1. tasks' # tasks
      OBVIOUS
    <3>2. ~ HangUp /\ ~ Stopped /\ ~ Reconciled /\ ~ Started /\ ~ QueueFills /\ ~ QueueDrains
      BY <3>1 DEF HangUp, Stopped, Reconciled, Started, QueueFills, QueueDrains
    <3>3. ~ Start /\ ~ Kill /\ ~ Shutdown /\ ~ Drained /\ ~ Flushed /\ ~ Command
      BY <3>1 DEF Start, Kill, Shutdown, Drained, Flushed, Command, Exit
    <3>4. \A j \in Keys : /\ ~ Running(j) /\ ~ RollBack(j) /\ ~ RollbackFails(j)
                          /\ ~ IgnoreFailure(j) /\ ~ StartFails(j) /\ ~ HangUpBound(j)
      BY <3>1 DEF Running, RollBack, RollbackFails, IgnoreFailure, StartFails, HangUpBound, Exit
    <3>5. \A e \in Endpoints : /\ ~ EndpointStep(e) /\ ~ SessionBlocks(e)
                               /\ ~ TakePort(e) /\ ~ LeavePort(e)
      BY <3>1 DEF EndpointStep, ListenerEnds, SessionsEnd, SessionResumes, SessionBlocks,
         TakePort, LeavePort
    <3>6. \A u \in Users, plan \in Plans : ~ SavePlan(u, plan) /\ ~ SaveFails(u, plan)
      BY <3>1 DEF SavePlan, SaveFails
    <3>7. Next
      BY <3>1 DEF vars
    <3> QED
      BY <3>2, <3>3, <3>4, <3>5, <3>6, <3>7 DEF Next, HandlerStep
  <2>2. CASE StopObsolete
    <3>1. handler.at = "saved" /\ tasks[k] # handler.target[k]
      BY <2>2 DEF StopObsolete, Obsolete
    <3> QED
      BY <3>1 DEF ControllerInv, TasksFollow, Alive
  <2>3. ASSUME NEW j \in Keys, StartTask(j) PROVE FALSE
    BY <2>3 DEF StartTask, Binds, ControllerInv, TypeOK, Plans
  <2> QED
    BY <2>1, <2>2, <2>3
<1> QED
  BY <1>1, ControllerInvariant, PTL DEF Spec, OthersUndisturbed

=============================================================================
