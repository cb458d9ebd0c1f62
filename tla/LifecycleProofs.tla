--------------------------- MODULE LifecycleProofs ---------------------------
(***************************************************************************)
(* Proofs about Lifecycle, for any requests, keys and goroutines and any   *)
(* number of failures.                                                     *)
(***************************************************************************)
EXTENDS Lifecycle, TLAPS

USE NoneAssumption, KeysAssumption, FaultsAssumption
USE DEF InsertIdempotencyKey, UpdateIdempotencyKeyResponse

-----------------------------------------------------------------------------
(* Types *)

(* TypeOK, with what runs and requests know at each step. *)
RequestTyped(r) ==
    /\ request[r].pc \notin {"unsent", "answer", "done"} =>
         request[r].action \in Actions
    /\ request[r].pc \in {"lookup", "register"} => request[r].key \in Keys

WorkerTyped(w) ==
    /\ worker[w].pc # "idle" => worker[w].id \in TaskIds
    /\ worker[w].pc \notin {"idle", "finish"} => worker[w].action \in Actions

TypeInv ==
    /\ TypeOK
    /\ \A r \in Requests : RequestTyped(r)
    /\ \A w \in Workers : WorkerTyped(w)

LEMMA TypeInit == Init => TypeInv
<1> SUFFICES ASSUME Init PROVE TypeInv
  OBVIOUS
<1> USE DEF Init
<1>1. Unsent \in RequestRec /\ Unsent.pc = "unsent"
  BY DEF Unsent, RequestRec, MaybeAction
<1>2. Idle \in WorkerRec /\ Idle.pc = "idle"
  BY DEF Idle, WorkerRec, MaybeAction
<1>3. /\ request \in [Requests -> RequestRec]
      /\ \A r \in Requests : RequestTyped(r)
  BY <1>1 DEF RequestTyped, InFlight
<1>4. /\ worker \in [Workers -> WorkerRec]
      /\ \A w \in Workers : WorkerTyped(w)
  BY <1>2 DEF WorkerTyped
<1>5. /\ bodyOf \in [Keys -> MaybeAction]
      /\ task \in [TaskIds -> {"none", "waiting", "running", "dead"}]
      /\ payload \in [TaskIds -> MaybeAction]
      /\ \A i \in TaskIds : task[i] = "none" <=> payload[i] = None
  BY DEF MaybeAction
<1>6. /\ lifecycle \in LifecycleStates /\ faults \in 0..MaxFaults
      /\ everyone \in {"none", "denied", "locked", "open"}
      /\ answered \in SUBSET Keys /\ shared \in SUBSET Keys
      /\ sent \in SUBSET Keys /\ again \in SUBSET sent
  BY DEF LifecycleStates
<1>7. left \in BOOLEAN /\ overlapped \in BOOLEAN
  OBVIOUS
<1> HIDE DEF Init
<1> QED BY <1>3, <1>4, <1>5, <1>6, <1>7 DEF TypeInv, TypeOK

(* A failure is counted. *)
LEMMA FaultCounted ==
  ASSUME faults \in 0..MaxFaults, Fault
  PROVE  faults' \in 0..MaxFaults /\ faults' # 0
  BY DEF Fault

(* A request goes on, or is answered. *)
LEMMA GotoTyped ==
  ASSUME TypeInv, NEW r \in Requests,
         \/ /\ request[r].action \in Actions
            /\ \/ Goto(r, "load") \/ Goto(r, "enqueue")
               \/ Goto(r, "register") /\ request[r].key \in Keys
         \/ Queued(r)
         \/ Reply(r)
  PROVE  /\ request' \in [Requests -> RequestRec]
         /\ \A q \in Requests : RequestTyped(q)'
<1>1. request \in [Requests -> RequestRec]
  BY DEF TypeInv, TypeOK
<1>2. \A q \in Requests : RequestTyped(q)
  BY DEF TypeInv
<1>3. CASE Reply(r)
  BY <1>1, <1>2, <1>3 DEF Reply, Done, Unsent, RequestRec, RequestTyped,
                          InFlight, MaybeAction
<1>4. ASSUME NEW pc \in {"register", "load", "enqueue"}, Goto(r, pc),
             request[r].action \in Actions,
             pc = "register" => request[r].key \in Keys
      PROVE  /\ request' \in [Requests -> RequestRec]
             /\ \A q \in Requests : RequestTyped(q)'
  BY <1>1, <1>2, <1>4 DEF Goto, RequestRec, RequestTyped
<1>5. CASE Queued(r)
  BY <1>1, <1>2, <1>5 DEF Queued, RequestRec, RequestTyped, MaybeAction
<1> QED BY <1>3, <1>4, <1>5

(* What asynq makes of a task is a task. *)
LEMMA SettleTyped ==
  ASSUME TypeInv, NEW i \in TaskIds,
         NEW statuses \in SUBSET {"none", "waiting", "dead"},
         Settle(i, statuses)
  PROVE  /\ task' \in [TaskIds -> {"none", "waiting", "running", "dead"}]
         /\ payload' \in [TaskIds -> MaybeAction]
         /\ \A j \in TaskIds : task'[j] = "none" <=> payload'[j] = None
<1>1. /\ task \in [TaskIds -> {"none", "waiting", "running", "dead"}]
      /\ payload \in [TaskIds -> MaybeAction]
      /\ \A j \in TaskIds : task[j] = "none" <=> payload[j] = None
  BY DEF TypeInv, TypeOK
<1>2. CASE task[i] = "running"
  <2>1. PICK s \in statuses :
          /\ task' = [task EXCEPT ![i] = s]
          /\ payload' = [payload EXCEPT ![i] = IF s = "none" THEN None ELSE @]
    BY <1>2 DEF Settle
  <2> QED BY <1>1, <1>2, <2>1 DEF MaybeAction
<1>3. CASE task[i] # "running"
  BY <1>1, <1>3 DEF Settle, taskVars
<1> QED BY <1>2, <1>3

LEMMA TypeRequest ==
  ASSUME TypeInv, NEW r \in Requests, RequestStep(r) \/ APICrash(r)
  PROVE  TypeInv'
<1> USE DEF TypeInv, TypeOK
<1>0. /\ request[r] \in RequestRec /\ RequestTyped(r)
      /\ faults \in 0..MaxFaults
  OBVIOUS
<1>1. /\ \A w \in Workers : WorkerTyped(w)' = WorkerTyped(w)
      /\ UNCHANGED <<lifecycle, everyone, worker, left, overlapped, shared>>
  BY DEF RequestStep, APICrash, LookupKey, RegisterKey, CheckTransition,
         Enqueue, StoreResponse, historyVars, WorkerTyped
<1>2. faults' \in 0..MaxFaults
  BY <1>0, FaultCounted DEF RequestStep, APICrash, LookupKey, RegisterKey,
         CheckTransition, Enqueue, StoreResponse
<1>3. /\ request' \in [Requests -> RequestRec]
      /\ \A q \in Requests : RequestTyped(q)'
  <2>1. /\ request[r].pc \in {"lookup", "register", "load"} =>
              request[r].action \in Actions
        /\ request[r].pc = "lookup" => request[r].key \in Keys
    BY <1>0 DEF RequestTyped
  <2>2. \/ /\ request[r].action \in Actions
           /\ \/ Goto(r, "load") \/ Goto(r, "enqueue")
              \/ Goto(r, "register") /\ request[r].key \in Keys
        \/ Queued(r)
        \/ Reply(r)
    BY <2>1 DEF RequestStep, APICrash, LookupKey, RegisterKey,
           CheckTransition, Enqueue, StoreResponse
  <2> QED BY <2>2, GotoTyped
<1>4. CASE RegisterKey(r)
  <2>1. request[r].key \in Keys /\ request[r].action \in Actions
    BY <1>0, <1>4 DEF RegisterKey, RequestTyped, InFlight
  <2>2. bodyOf' \in [Keys -> MaybeAction]
    BY <1>4, <2>1 DEF RegisterKey, MaybeAction
  <2> QED BY <1>1, <1>2, <1>3, <1>4, <2>2
          DEF RegisterKey, historyVars, taskVars
<1>5. CASE Enqueue(r)
  <2> DEFINE id == IF request[r].key = None THEN request[r].action
                   ELSE request[r].key
  <2>1. request[r].action \in Actions /\ request[r].key \in Keys \cup {None}
    BY <1>0, <1>5 DEF Enqueue, RequestTyped, InFlight, RequestRec
  <2>2. id \in TaskIds
    BY <2>1 DEF TaskIds
  <2>3. UNCHANGED keyVars
    BY <1>5 DEF Enqueue
  <2>4. /\ task' \in [TaskIds -> {"none", "waiting", "running", "dead"}]
        /\ payload' \in [TaskIds -> MaybeAction]
        /\ \A j \in TaskIds : task'[j] = "none" <=> payload'[j] = None
        /\ sent' \in SUBSET Keys /\ again' \in SUBSET sent'
    <3>1. CASE UNCHANGED <<taskVars, sent, again>>
      BY <3>1 DEF taskVars
    <3>2. CASE /\ task' = [task EXCEPT ![id] = "waiting"]
               /\ payload' = [payload EXCEPT ![id] = request[r].action]
               /\ sent' = sent \cup ({id} \cap Keys)
               /\ again' = again \cup ({id} \cap sent)
      <4>1. sent' \in SUBSET Keys /\ again' \in SUBSET sent'
        BY <3>2
      <4> HIDE DEF id
      <4>2. /\ task' \in [TaskIds -> {"none", "waiting", "running", "dead"}]
            /\ payload' \in [TaskIds -> MaybeAction]
        BY <2>1, <2>2, <3>2 DEF MaybeAction
      <4>3. request[r].action # None
        BY <2>1 DEF TaskIds
      <4>4. \A j \in TaskIds : task'[j] = "none" <=> payload'[j] = None
        BY <2>2, <3>2, <4>3
      <4> QED BY <4>1, <4>2, <4>4
    <3> QED BY <1>5, <3>1, <3>2 DEF Enqueue
  <2> QED BY <1>1, <1>2, <1>3, <2>3, <2>4 DEF keyVars
<1>6. CASE StoreResponse(r)
  <2>1. answered' \in SUBSET Keys
    BY <1>6 DEF StoreResponse
  <2> QED BY <1>1, <1>2, <1>3, <1>6, <2>1
          DEF StoreResponse, historyVars, taskVars
<1>7. CASE LookupKey(r) \/ CheckTransition(r) \/ APICrash(r)
  BY <1>1, <1>2, <1>3, <1>7
     DEF LookupKey, CheckTransition, APICrash, historyVars, taskVars, keyVars
<1> QED BY <1>4, <1>5, <1>6, <1>7 DEF RequestStep

LEMMA TypeSend ==
  ASSUME TypeInv, NEW r \in Requests, NEW action \in Actions,
         NEW key \in Keys \cup {None}, Send(r, action, key)
  PROVE  TypeInv'
<1> USE DEF TypeInv, TypeOK
<1> DEFINE new == [pc |-> IF key = None THEN "load" ELSE "lookup",
                   action |-> action, key |-> key]
<1>1. /\ request' = [request EXCEPT ![r] = new]
      /\ UNCHANGED <<lifecycle, everyone, keyVars, taskVars, worker, left,
                     overlapped, sent, again, faults>>
  BY DEF Send
<1>2. shared' \in SUBSET Keys
  BY DEF Send
<1>3. /\ new \in RequestRec /\ new.action \in Actions
      /\ new.pc \in {"lookup", "register"} => new.key \in Keys
  BY DEF RequestRec, MaybeAction
<1> HIDE DEF new
<1>4. /\ request' \in [Requests -> RequestRec]
      /\ \A q \in Requests : RequestTyped(q)'
  BY <1>1, <1>3 DEF RequestTyped, InFlight
<1>5. \A w \in Workers : WorkerTyped(w)'
  BY <1>1 DEF WorkerTyped
<1> QED BY <1>1, <1>2, <1>4, <1>5 DEF keyVars, taskVars

LEMMA TypeWorker ==
  ASSUME TypeInv, NEW w \in Workers,
         \/ \E i \in TaskIds : StartTask(w, i)
         \/ WorkerStep(w) \/ LeaseLost(w)
  PROVE  TypeInv'
<1> USE DEF TypeInv, TypeOK
<1>0. /\ worker[w] \in WorkerRec /\ WorkerTyped(w)
      /\ faults \in 0..MaxFaults
  OBVIOUS
<1>1. /\ \A r \in Requests : RequestTyped(r)' = RequestTyped(r)
      /\ UNCHANGED <<keyVars, request, shared, sent, again>>
  BY DEF StartTask, WorkerStep, LoadSpace, ApplyDiscordChange,
         UpdateSpaceLifecycle, Finish, LeaseLost, historyVars, RequestTyped,
         InFlight
<1>2. faults' \in 0..MaxFaults
  BY <1>0, FaultCounted DEF StartTask, WorkerStep, LoadSpace,
     ApplyDiscordChange, UpdateSpaceLifecycle, Finish, LeaseLost
<1>3. left' \in BOOLEAN /\ overlapped' \in BOOLEAN
  BY DEF StartTask, WorkerStep, LoadSpace, ApplyDiscordChange,
         UpdateSpaceLifecycle, Finish, LeaseLost, historyVars
<1>4. ASSUME NEW i \in TaskIds, StartTask(w, i) PROVE TypeInv'
  <2> DEFINE t == [pc |-> "load", id |-> i, action |-> payload[i]]
  <2>1. /\ task[i] = "waiting" /\ worker' = [worker EXCEPT ![w] = t]
        /\ task' = [task EXCEPT ![i] = "running"]
        /\ UNCHANGED <<lifecycle, everyone, payload, left>>
    BY <1>4 DEF StartTask
  <2>2. payload[i] \in Actions
    BY <2>1 DEF MaybeAction
  <2>3. t \in WorkerRec /\ t.id \in TaskIds /\ t.action \in Actions
    BY <2>2 DEF WorkerRec, MaybeAction
  <2> HIDE DEF t
  <2>4. /\ worker' \in [Workers -> WorkerRec]
        /\ \A v \in Workers : WorkerTyped(v)'
    BY <2>1, <2>3 DEF WorkerTyped
  <2>5. /\ task' \in [TaskIds -> {"none", "waiting", "running", "dead"}]
        /\ \A j \in TaskIds : task'[j] = "none" <=> payload'[j] = None
    BY <2>1
  <2> QED BY <1>1, <1>2, <1>3, <2>1, <2>4, <2>5 DEF keyVars
<1>5. ASSUME WorkerStep(w) \/ LeaseLost(w)
      PROVE  /\ lifecycle' \in LifecycleStates
             /\ everyone' \in {"none", "denied", "locked", "open"}
  <2>1. worker[w].pc \in {"discord", "persist"} => worker[w].action \in Actions
    BY <1>0 DEF WorkerTyped
  <2>2. worker[w].pc \in {"discord", "persist"} =>
          /\ TargetState(worker[w].action) \in LifecycleStates
          /\ ChangedOverwrite(worker[w].action) \in
               {"none", "denied", "locked", "open"}
    BY <2>1 DEF TargetState, ChangedOverwrite, Actions, LifecycleStates
  <2> QED BY <1>5, <2>2 DEF WorkerStep, LoadSpace, ApplyDiscordChange,
                            UpdateSpaceLifecycle, Finish, LeaseLost
<1>6. ASSUME WorkerStep(w) \/ LeaseLost(w)
      PROVE  /\ worker' \in [Workers -> WorkerRec]
             /\ \A v \in Workers : WorkerTyped(v)'
  <2>1. \/ UNCHANGED worker
        \/ worker' = [worker EXCEPT ![w] = Idle]
        \/ /\ worker[w].pc \in {"load", "discord"}
           /\ \E p \in {"discord", "persist"} :
                worker' = [worker EXCEPT ![w].pc = p]
        \/ /\ worker[w].pc = "persist"
           /\ worker' = [worker EXCEPT ![w].pc = "finish", ![w].action = None]
    BY <1>6 DEF WorkerStep, LoadSpace, ApplyDiscordChange, ReturnError,
                UpdateSpaceLifecycle, Finish, LeaseLost
  <2>2. Idle \in WorkerRec /\ Idle.pc = "idle"
    BY DEF Idle, WorkerRec, MaybeAction
  <2>3. CASE UNCHANGED worker
    BY <2>3 DEF WorkerTyped
  <2>4. CASE worker' = [worker EXCEPT ![w] = Idle]
    BY <2>2, <2>4 DEF WorkerTyped
  <2>5. ASSUME NEW p \in {"discord", "persist"},
               worker[w].pc \in {"load", "discord"},
               worker' = [worker EXCEPT ![w].pc = p]
        PROVE  /\ worker' \in [Workers -> WorkerRec]
               /\ \A v \in Workers : WorkerTyped(v)'
    BY <2>5 DEF WorkerTyped, WorkerRec
  <2>6. CASE /\ worker[w].pc = "persist"
             /\ worker' = [worker EXCEPT ![w].pc = "finish", ![w].action = None]
    BY <2>6 DEF WorkerTyped, WorkerRec, MaybeAction
  <2> QED BY <2>1, <2>3, <2>4, <2>5, <2>6
<1>7. ASSUME WorkerStep(w) \/ LeaseLost(w)
      PROVE  /\ task' \in [TaskIds -> {"none", "waiting", "running", "dead"}]
             /\ payload' \in [TaskIds -> MaybeAction]
             /\ \A j \in TaskIds : task'[j] = "none" <=> payload'[j] = None
  <2>1. worker[w].id \in TaskIds
    BY <1>0, <1>7 DEF WorkerTyped, WorkerStep, LoadSpace, ApplyDiscordChange,
       UpdateSpaceLifecycle, Finish, LeaseLost
  <2>2. \/ UNCHANGED taskVars
        \/ Settle(worker[w].id, {"waiting", "dead"})
        \/ Settle(worker[w].id, {"none"})
    BY <1>7 DEF WorkerStep, LoadSpace, ApplyDiscordChange, ReturnError,
                UpdateSpaceLifecycle, Finish, LeaseLost
  <2>3. CASE UNCHANGED taskVars
    BY <2>3 DEF taskVars
  <2> QED BY <2>1, <2>2, <2>3, SettleTyped
<1> QED BY <1>1, <1>2, <1>3, <1>4, <1>5, <1>6, <1>7 DEF keyVars

LEMMA TypeNext == TypeInv /\ [Next]_vars => TypeInv'
<1> SUFFICES ASSUME TypeInv, [Next]_vars PROVE TypeInv'
  OBVIOUS
<1>1. CASE Provisioned
  BY <1>1 DEF Provisioned, TypeInv, TypeOK, RequestTyped, WorkerTyped,
              InFlight, keyVars, taskVars, historyVars
<1>2. CASE UNCHANGED vars
  BY <1>2 DEF TypeInv, TypeOK, RequestTyped, WorkerTyped, InFlight, vars,
              keyVars, taskVars, historyVars
<1> QED BY <1>1, <1>2, TypeSend, TypeRequest, TypeWorker DEF Next

(* Lifecycle keeps its types: in particular the worker writes nothing but a *)
(* lifecycle state into the row.                                            *)
THEOREM TypeCorrect == Spec => []TypeOK
<1>1. TypeInv => TypeOK
  BY DEF TypeInv
<1> QED BY <1>1, TypeInit, TypeNext, PTL DEF Spec

-----------------------------------------------------------------------------
(* OpenedOnlyAfterClosing *)

Lifting == {"open", "reopen"}

(* Whatever may still lift the overwrite, a request past its check, a task  *)
(* or a run, was accepted for a space that had been closed.                 *)
OpenInv ==
    /\ everyone = "open" => left
    /\ lifecycle # "active" => left
    /\ \A r \in Requests :
         request[r].pc = "enqueue" /\ request[r].action \in Lifting => left
    /\ \A i \in TaskIds : payload[i] \in Lifting => left
    /\ \A w \in Workers : worker[w].action \in Lifting => left

(* None is no action that lifts the overwrite. *)
LEMMA NoneLiftsNothing == None \notin Lifting
  BY DEF Lifting, TaskIds, Actions

LEMMA OpenInit == Init => OpenInv
  BY NoneLiftsNothing DEF Init, OpenInv, Unsent, Idle

(* The row was closed once and for all. *)
LEMMA LeftForGood == TypeInv /\ left /\ [Next]_vars => left'
  BY DEF Next, vars, historyVars, Send, RequestStep, LookupKey, RegisterKey,
         CheckTransition, Enqueue, StoreResponse, APICrash, WorkerStep,
         StartTask, LoadSpace, ApplyDiscordChange, UpdateSpaceLifecycle,
         Finish, LeaseLost, Provisioned

(* A request is only accepted from a closed state. *)
LEMMA OpenRequest ==
  ASSUME TypeInv, OpenInv, ~left, NEW r \in Requests,
         \/ RequestStep(r) \/ APICrash(r)
         \/ \E action \in Actions, key \in Keys \cup {None} :
              Send(r, action, key)
  PROVE  OpenInv'
<1>1. UNCHANGED <<lifecycle, everyone, worker, left>>
  BY DEF Send, RequestStep, LookupKey, RegisterKey, CheckTransition, Enqueue,
         StoreResponse, APICrash, historyVars
<1>2. request \in [Requests -> RequestRec] /\ payload \in [TaskIds -> MaybeAction]
  BY DEF TypeInv, TypeOK
<1>3. ASSUME NEW q \in Requests, request'[q].pc = "enqueue"
      PROVE  request'[q].action \notin Lifting
  <2>1. CASE request'[q] = request[q]
    BY <1>3, <2>1 DEF OpenInv
  <2>2. CASE request'[q] # request[q]
    <3>1. q = r
      BY <1>2, <2>2 DEF Send, RequestStep, LookupKey, RegisterKey,
         CheckTransition, Enqueue, StoreResponse, APICrash, Goto, Queued, Reply
    <3>2. ~Reply(r) /\ ~Queued(r)
      BY <1>2, <1>3, <3>1 DEF Reply, Queued, Done, Unsent, RequestRec
    <3>3. ASSUME NEW pc, Goto(r, pc) PROVE pc = "enqueue"
      BY <1>2, <1>3, <3>1, <3>3 DEF Goto, RequestRec
    <3>4. ASSUME NEW action \in Actions, NEW key \in Keys \cup {None},
                 Send(r, action, key)
          PROVE  FALSE
      BY <1>2, <1>3, <3>1, <3>4 DEF Send
    <3>5. q = r /\ CheckTransition(r) /\ Goto(r, "enqueue")
      BY <3>1, <3>2, <3>3, <3>4 DEF RequestStep, LookupKey, RegisterKey,
         CheckTransition, Enqueue, StoreResponse, APICrash
    <3>6. request'[r].pc = "enqueue" /\ request'[r].action = request[r].action
      BY <1>2, <3>5 DEF Goto, RequestRec
    <3>7. LifecycleTransition(lifecycle, TargetState(request[r].action))
      BY <3>5, <3>2 DEF CheckTransition
    <3>8. lifecycle = "active"
      BY DEF OpenInv
    <3> QED BY <3>5, <3>6, <3>7, <3>8
            DEF LifecycleTransition, TargetState, Lifting
  <2> QED BY <2>1, <2>2
<1>4. ASSUME NEW i \in TaskIds PROVE payload'[i] \notin Lifting
  <2>1. CASE payload' = payload
    BY <2>1 DEF OpenInv
  <2>2. CASE payload' # payload
    <3>1. /\ request[r].pc = "enqueue"
          /\ payload'[i] \in {payload[i], request[r].action}
      BY <1>2, <2>2 DEF Send, RequestStep, LookupKey, RegisterKey,
         CheckTransition, Enqueue, StoreResponse, APICrash, taskVars
    <3> QED BY <3>1 DEF OpenInv
  <2> QED BY <2>1, <2>2
<1> QED BY <1>1, <1>3, <1>4 DEF OpenInv

(* A run starts with the action of its task and keeps it. *)
LEMMA OpenWorker ==
  ASSUME TypeInv, OpenInv, ~left, NEW w \in Workers,
         \/ \E i \in TaskIds : StartTask(w, i)
         \/ WorkerStep(w) \/ LeaseLost(w)
  PROVE  OpenInv'
<1>1. worker \in [Workers -> WorkerRec] /\ payload \in [TaskIds -> MaybeAction]
  BY DEF TypeInv, TypeOK
<1>2. UNCHANGED request
  BY DEF StartTask, WorkerStep, LoadSpace, ApplyDiscordChange,
         UpdateSpaceLifecycle, Finish, LeaseLost
<1>3. \A i \in TaskIds : payload'[i] \in {payload[i], None}
  BY <1>1 DEF StartTask, WorkerStep, LoadSpace, ApplyDiscordChange,
     UpdateSpaceLifecycle, Finish, LeaseLost, ReturnError, Settle, taskVars
<1>4. ASSUME NEW v \in Workers PROVE worker'[v].action \notin Lifting
  <2>1. \/ worker'[v].action \in {worker[v].action, None}
        \/ \E i \in TaskIds : worker'[v].action = payload[i]
    <3>1. ASSUME NEW i \in TaskIds, StartTask(w, i)
          PROVE  worker'[v].action \in {worker[v].action, payload[i]}
      BY <1>1, <3>1 DEF StartTask
    <3>2. CASE WorkerStep(w) \/ LeaseLost(w)
      <4>1. \/ UNCHANGED worker
            \/ worker' = [worker EXCEPT ![w] = Idle]
            \/ \E p \in {"discord", "persist"} :
                 worker' = [worker EXCEPT ![w].pc = p]
            \/ worker' = [worker EXCEPT ![w].pc = "finish", ![w].action = None]
        BY <3>2 DEF WorkerStep, LoadSpace, ApplyDiscordChange, ReturnError,
                    UpdateSpaceLifecycle, Finish, LeaseLost
      <4> QED BY <1>1, <4>1 DEF Idle, WorkerRec
    <3> QED BY <3>1, <3>2
  <2> QED BY <2>1, NoneLiftsNothing DEF OpenInv
<1>5. everyone # "open" /\ lifecycle = "active" /\ worker[w].action \notin Lifting
  BY DEF OpenInv
<1>6. everyone' # "open"
  <2>1. ChangedOverwrite(worker[w].action) # "open"
    BY <1>5 DEF ChangedOverwrite, Lifting
  <2> QED BY <1>5, <2>1 DEF StartTask, WorkerStep, LoadSpace,
          ApplyDiscordChange, UpdateSpaceLifecycle, Finish, LeaseLost
<1>7. lifecycle' # "active" => left'
  BY <1>5 DEF StartTask, WorkerStep, LoadSpace, ApplyDiscordChange,
     UpdateSpaceLifecycle, Finish, LeaseLost, historyVars
<1> QED BY <1>2, <1>3, <1>4, <1>6, <1>7, NoneLiftsNothing DEF OpenInv

LEMMA OpenNext == TypeInv /\ OpenInv /\ [Next]_vars => OpenInv'
<1> SUFFICES ASSUME TypeInv, OpenInv, [Next]_vars PROVE OpenInv'
  OBVIOUS
<1>1. CASE left
  BY <1>1, LeftForGood DEF OpenInv
<1>2. CASE Provisioned
  BY <1>2 DEF Provisioned, OpenInv, taskVars, historyVars
<1>3. CASE UNCHANGED vars
  BY <1>3 DEF vars, OpenInv, taskVars, historyVars
<1> QED BY <1>1, <1>2, <1>3, OpenRequest, OpenWorker DEF Next

(* Until the space has been resolved or archived once, no interleaving of   *)
(* requests, retries, crashes and late tasks lifts the @everyone deny of    *)
(* its channel.                                                             *)
THEOREM OpensLate == Spec => []OpenedOnlyAfterClosing
<1>1. OpenInv => OpenedOnlyAfterClosing
  BY DEF OpenInv, OpenedOnlyAfterClosing
<1>2. Init => TypeInv /\ OpenInv
  BY TypeInit, OpenInit
<1>3. TypeInv /\ OpenInv /\ [Next]_vars => (TypeInv /\ OpenInv)'
  BY TypeNext, OpenNext
<1> QED BY <1>1, <1>2, <1>3, PTL DEF Spec

-----------------------------------------------------------------------------
(* AgreesUnlessRaced *)

Agreed ==
    /\ lifecycle = "archived" => everyone # "open"
    /\ lifecycle = "active" => everyone # "locked"

(* One run at a time; before it writes the row, the overwrite fits what it  *)
(* is about to write.                                                       *)
AgreeInv ==
    faults = 0 /\ ~overlapped =>
        /\ \A v, w \in Workers :
             worker[v].pc # "idle" /\ worker[w].pc # "idle" => v = w
        /\ (\A w \in Workers : worker[w].pc # "persist") => Agreed
        /\ \A w \in Workers : worker[w].pc = "persist" =>
             /\ worker[w].action = "archive" => everyone # "open"
             /\ worker[w].action \in Lifting => everyone # "locked"

LEMMA AgreeInit == Init => AgreeInv
  BY DEF Init, AgreeInv, Agreed, Idle

LEMMA AgreeWorker ==
  ASSUME TypeInv, AgreeInv, NEW w \in Workers,
         \/ \E i \in TaskIds : StartTask(w, i)
         \/ WorkerStep(w) \/ LeaseLost(w)
  PROVE  AgreeInv'
<1> SUFFICES ASSUME faults' = 0, ~overlapped' PROVE
        /\ \A u, v \in Workers :
             worker'[u].pc # "idle" /\ worker'[v].pc # "idle" => u = v
        /\ (\A v \in Workers : worker'[v].pc # "persist") => Agreed'
        /\ \A v \in Workers : worker'[v].pc = "persist" =>
             /\ worker'[v].action = "archive" => everyone' # "open"
             /\ worker'[v].action \in Lifting => everyone' # "locked"
  BY DEF AgreeInv
<1>1. worker \in [Workers -> WorkerRec] /\ faults \in 0..MaxFaults
      /\ WorkerTyped(w)
  BY DEF TypeInv, TypeOK
<1>2. ~Fault
  BY <1>1, FaultCounted
<1>3. faults = 0 /\ ~overlapped
  <2>1. faults = 0
    BY <1>2 DEF StartTask, WorkerStep, LoadSpace, ApplyDiscordChange,
       UpdateSpaceLifecycle, Finish, LeaseLost
  <2>2. ASSUME NEW i \in TaskIds, StartTask(w, i) PROVE ~overlapped
    BY <2>2 DEF StartTask
  <2>3. ASSUME WorkerStep(w) \/ LeaseLost(w) PROVE overlapped' = overlapped
    BY <2>3 DEF WorkerStep, LoadSpace, ApplyDiscordChange,
       UpdateSpaceLifecycle, Finish, LeaseLost, historyVars
  <2> QED BY <2>1, <2>2, <2>3
<1>4. /\ \A u, v \in Workers :
           worker[u].pc # "idle" /\ worker[v].pc # "idle" => u = v
      /\ (\A v \in Workers : worker[v].pc # "persist") => Agreed
      /\ \A v \in Workers : worker[v].pc = "persist" =>
           /\ worker[v].action = "archive" => everyone # "open"
           /\ worker[v].action \in Lifting => everyone # "locked"
  BY <1>3 DEF AgreeInv
<1>5. ASSUME NEW i \in TaskIds, StartTask(w, i)
      PROVE  /\ \A v \in Workers : worker[v].pc = "idle"
             /\ worker'[w].pc = "load"
             /\ \A v \in Workers \ {w} : worker'[v] = worker[v]
             /\ UNCHANGED <<lifecycle, everyone>>
  BY <1>1, <1>5 DEF StartTask
<1>6. CASE \E i \in TaskIds : StartTask(w, i)
  BY <1>4, <1>5, <1>6 DEF Agreed
<1>7. ASSUME worker[w].pc # "idle"
      PROVE  /\ \A v \in Workers \ {w} : worker[v].pc = "idle"
             /\ worker[w].pc # "persist" => Agreed
  BY <1>4, <1>7
<1>8. CASE LoadSpace(w)
  <2>1. /\ worker[w].pc = "load" /\ UNCHANGED <<lifecycle, everyone>>
        /\ worker'[w] = [worker[w] EXCEPT !.pc = worker'[w].pc]
        /\ worker'[w].pc \in {"persist", "discord"}
        /\ worker'[w].pc = "persist" => everyone = "none"
        /\ \A v \in Workers \ {w} : worker'[v] = worker[v]
    BY <1>1, <1>2, <1>8 DEF LoadSpace, WorkerRec
  <2> QED BY <1>7, <2>1 DEF Agreed
<1>9. CASE ApplyDiscordChange(w)
  <2>1. /\ worker[w].pc = "discord" /\ UNCHANGED lifecycle
        /\ worker'[w].pc = "persist" /\ worker'[w].action = worker[w].action
        /\ everyone' = ChangedOverwrite(worker[w].action)
        /\ \A v \in Workers \ {w} : worker'[v] = worker[v]
    BY <1>1, <1>2, <1>9 DEF ApplyDiscordChange, WorkerRec
  <2>2. /\ worker[w].action = "archive" => everyone' # "open"
        /\ worker[w].action \in Lifting => everyone' # "locked"
    BY <2>1 DEF ChangedOverwrite, Lifting
  <2> QED BY <1>7, <2>1, <2>2
<1>10. CASE UpdateSpaceLifecycle(w)
  <2>1. /\ worker[w].pc = "persist" /\ UNCHANGED everyone
        /\ lifecycle' = TargetState(worker[w].action)
        /\ worker'[w].pc = "finish"
        /\ \A v \in Workers \ {w} : worker'[v] = worker[v]
    BY <1>1, <1>2, <1>10 DEF UpdateSpaceLifecycle, WorkerRec
  <2>2. worker[w].action \in Actions
    BY <1>1, <2>1 DEF WorkerTyped
  <2>3. Agreed'
    BY <1>4, <2>1, <2>2 DEF Agreed, TargetState, Actions, Lifting
  <2> QED BY <1>7, <2>1, <2>3
<1>11. CASE Finish(w)
  <2>1. /\ worker[w].pc = "finish" /\ UNCHANGED <<lifecycle, everyone>>
        /\ worker'[w].pc = "idle"
        /\ \A v \in Workers \ {w} : worker'[v] = worker[v]
    BY <1>1, <1>11 DEF Finish, Idle
  <2> QED BY <1>7, <2>1 DEF Agreed
<1> QED BY <1>2, <1>6, <1>8, <1>9, <1>10, <1>11 DEF WorkerStep, LeaseLost

LEMMA AgreeNext == TypeInv /\ AgreeInv /\ [Next]_vars => AgreeInv'
<1> SUFFICES ASSUME TypeInv, AgreeInv, [Next]_vars PROVE AgreeInv'
  OBVIOUS
<1>1. faults \in 0..MaxFaults
  BY DEF TypeInv, TypeOK
<1>2. CASE Provisioned
  BY <1>2 DEF Provisioned, AgreeInv, Agreed, historyVars
<1>3. CASE UNCHANGED vars
  BY <1>3 DEF vars, AgreeInv, Agreed, historyVars
<1>4. ASSUME NEW r \in Requests,
             \/ RequestStep(r) \/ APICrash(r)
             \/ \E action \in Actions, key \in Keys \cup {None} :
                  Send(r, action, key)
      PROVE  AgreeInv'
  <2>1. /\ UNCHANGED <<lifecycle, everyone, worker, overlapped>>
        /\ faults' = 0 => faults = 0
    BY <1>1, <1>4, FaultCounted DEF Send, RequestStep, LookupKey, RegisterKey,
       CheckTransition, Enqueue, StoreResponse, APICrash, historyVars
  <2> QED BY <2>1 DEF AgreeInv, Agreed
<1> QED BY <1>2, <1>3, <1>4, AgreeWorker DEF Next

(* A row and an overwrite that contradict each other at rest are the work   *)
(* of a failed call or of two runs of change_lifecycle that overlapped.     *)
THEOREM Agrees == Spec => []AgreesUnlessRaced
<1>1. AgreeInv => AgreesUnlessRaced
  BY DEF AgreeInv, AgreesUnlessRaced, Agreed, AtRest
<1>2. Init => TypeInv /\ AgreeInv
  BY TypeInit, AgreeInit
<1>3. TypeInv /\ AgreeInv /\ [Next]_vars => (TypeInv /\ AgreeInv)'
  BY TypeNext, AgreeNext
<1> QED BY <1>1, <1>2, <1>3, PTL DEF Spec

-----------------------------------------------------------------------------
(* OncePerKeyUnlessConcurrent *)

Carries(r, k) == InFlight(r) /\ request[r].key = k

(* One request at a time carries the key. It has inserted it when it gets   *)
(* past the lookup, its task is not yet in the queue before it enqueues it, *)
(* and once it is, the key is answered or about to be.                      *)
KeyInv(k) ==
    /\ k \notin again
    /\ \A q, r \in Requests : Carries(q, k) /\ Carries(r, k) => q = r
    /\ \A r \in Requests : Carries(r, k) =>
         /\ request[r].pc \notin {"lookup", "register"} => bodyOf[k] # None
         /\ request[r].pc \in {"register", "load", "enqueue"} => k \notin sent
    /\ k \in sent =>
         /\ bodyOf[k] # None
         /\ \/ k \in answered
            \/ \E r \in Requests : Carries(r, k) /\ request[r].pc = "answer"

KeysInv == faults = 0 => \A k \in Keys \ shared : KeyInv(k)

LEMMA KeysInit == Init => KeysInv
  BY DEF Init, KeysInv, KeyInv, Carries, InFlight, Unsent

(* A key inserted, answered or queued stays so. *)
LEMMA KeysGrow ==
  ASSUME TypeInv, NEW r \in Requests, NEW k \in Keys,
         RequestStep(r) \/ APICrash(r)
  PROVE  /\ bodyOf[k] # None => bodyOf'[k] # None
         /\ k \in answered => k \in answered'
         /\ shared' = shared
<1>1. bodyOf \in [Keys -> MaybeAction]
  BY DEF TypeInv, TypeOK
<1> QED BY <1>1 DEF RequestStep, LookupKey, RegisterKey, CheckTransition,
        Enqueue, StoreResponse, APICrash, keyVars, historyVars

(* A request with another key, or with none, changes nothing of this one. *)
LEMMA OtherKey ==
  ASSUME TypeInv, NEW r \in Requests, NEW k \in Keys, KeyInv(k),
         RequestStep(r) \/ APICrash(r), request[r].key # k
  PROVE  KeyInv(k)'
<1>1. /\ request \in [Requests -> RequestRec] /\ RequestTyped(r)
      /\ bodyOf \in [Keys -> MaybeAction] /\ sent \in SUBSET Keys
  BY DEF TypeInv, TypeOK
<1>2. /\ \A q \in Requests : Carries(q, k) = Carries(q, k)'
      /\ \A q \in Requests : Carries(q, k) => request'[q] = request[q]
  <2>1. \/ \E pc \in {"register", "load", "enqueue"} : Goto(r, pc)
        \/ Queued(r) \/ Reply(r)
    BY DEF RequestStep, LookupKey, RegisterKey, CheckTransition, Enqueue,
           StoreResponse, APICrash
  <2>2. \A q \in Requests \ {r} : request'[q] = request[q]
    BY <1>1, <2>1 DEF Goto, Queued, Reply
  <2>3. ~Carries(r, k)
    BY DEF Carries
  <2>4. ~Carries(r, k)'
    <3>1. None # k
      BY DEF TaskIds
    <3> QED BY <1>1, <2>1, <3>1 DEF Carries, Goto, Queued, Reply, Done,
                                    Unsent, RequestRec
  <2> QED BY <2>2, <2>3, <2>4 DEF Carries, InFlight
<1>3. k \in sent' <=> k \in sent
  <2>1. CASE Enqueue(r)
    <3>1. request[r].action # k
      BY <1>1, <2>1 DEF Enqueue, RequestTyped, InFlight
    <3> QED BY <2>1, <3>1 DEF Enqueue
  <2>2. CASE ~Enqueue(r)
    BY <2>2 DEF RequestStep, LookupKey, RegisterKey, CheckTransition,
           StoreResponse, APICrash, historyVars
  <2> QED BY <2>1, <2>2
<1>4. k \in again' => k \in again
  <2>1. CASE Enqueue(r)
    <3>1. request[r].action # k
      BY <1>1, <2>1 DEF Enqueue, RequestTyped, InFlight
    <3> QED BY <2>1, <3>1 DEF Enqueue
  <2>2. CASE ~Enqueue(r)
    BY <2>2 DEF RequestStep, LookupKey, RegisterKey, CheckTransition,
           StoreResponse, APICrash, historyVars
  <2> QED BY <2>1, <2>2
<1> QED BY <1>2, <1>3, <1>4, KeysGrow DEF KeyInv

(* The request that carries the key, when nothing fails. *)
LEMMA OwnKey ==
  ASSUME TypeInv, NEW r \in Requests, NEW k \in Keys, KeyInv(k),
         RequestStep(r), ~Fault, request[r].key = k
  PROVE  KeyInv(k)'
<1>1. /\ request \in [Requests -> RequestRec] /\ RequestTyped(r)
      /\ bodyOf \in [Keys -> MaybeAction] /\ sent \in SUBSET Keys
      /\ None # k
  BY DEF TypeInv, TypeOK, TaskIds
<1>2. Carries(r, k) /\ \A q \in Requests \ {r} : ~Carries(q, k)
  BY DEF RequestStep, LookupKey, RegisterKey, CheckTransition, Enqueue,
         StoreResponse, InFlight, Carries, KeyInv
<1>3. ASSUME Reply(r)
      PROVE  \A q \in Requests : ~Carries(q, k)'
  BY <1>1, <1>2, <1>3 DEF Reply, Done, Unsent, Carries, InFlight
<1>4. ASSUME NEW pc \in {"register", "load", "enqueue", "answer"},
             Goto(r, pc) \/ (pc = "answer" /\ Queued(r))
      PROVE  /\ \A q \in Requests \ {r} : ~Carries(q, k)'
             /\ Carries(r, k)' /\ request'[r].pc = pc
  BY <1>1, <1>2, <1>4 DEF Goto, Queued, RequestRec, Carries, InFlight
<1>5. CASE LookupKey(r)
  <2>1. UNCHANGED <<keyVars, sent, again>>
    BY <1>5 DEF LookupKey, historyVars
  <2>2. CASE Goto(r, "register") /\ bodyOf[k] = None
    BY <1>1, <1>2, <1>4, <2>1, <2>2 DEF KeyInv, keyVars
  <2>3. CASE Goto(r, "load") /\ bodyOf[k] = request[r].action /\ k \notin answered
    <3>1. request[r].pc = "lookup" /\ request[r].action # None
      BY <1>1, <1>5 DEF LookupKey, RequestTyped, InFlight, TaskIds
    <3>2. k \notin sent
      BY <1>2, <2>3, <3>1 DEF KeyInv
    <3> QED BY <1>4, <2>1, <2>3, <3>1, <3>2 DEF KeyInv, keyVars
  <2>4. CASE Reply(r)
    <3>1. request[r].pc = "lookup"
      BY <1>5 DEF LookupKey
    <3> QED BY <1>2, <1>3, <2>1, <2>4, <3>1 DEF KeyInv, keyVars
  <2> QED BY <1>5, <2>2, <2>3, <2>4 DEF LookupKey
<1>6. CASE RegisterKey(r)
  <2>1. /\ request[r].pc = "register" /\ Goto(r, "load")
        /\ bodyOf'[k] # None /\ UNCHANGED <<answered, sent, again>>
    BY <1>1, <1>6 DEF RegisterKey, RequestTyped, InFlight, historyVars,
                      TaskIds
  <2> QED BY <1>2, <1>4, <2>1 DEF KeyInv
<1>7. CASE CheckTransition(r)
  <2>1. /\ request[r].pc = "load" /\ UNCHANGED <<keyVars, sent, again>>
        /\ Goto(r, "enqueue") \/ Reply(r)
    BY <1>7 DEF CheckTransition, historyVars
  <2>2. CASE Goto(r, "enqueue")
    BY <1>2, <1>4, <2>1, <2>2 DEF KeyInv, keyVars
  <2>3. CASE Reply(r)
    BY <1>2, <1>3, <2>1, <2>3 DEF KeyInv, keyVars
  <2> QED BY <2>1, <2>2, <2>3
<1>8. CASE Enqueue(r)
  <2>1. /\ request[r].pc = "enqueue" /\ Queued(r) /\ UNCHANGED keyVars
        /\ again' \in {again, again \cup ({k} \cap sent)}
    BY <1>1, <1>8 DEF Enqueue
  <2>2. k \notin sent /\ k \notin again /\ bodyOf[k] # None
    BY <1>2, <2>1 DEF KeyInv
  <2>3. k \notin again'
    BY <2>1, <2>2
  <2> QED BY <1>4, <2>1, <2>2, <2>3 DEF KeyInv, keyVars
<1>9. CASE StoreResponse(r)
  <2>1. /\ request[r].pc = "answer" /\ Reply(r) /\ k \in answered'
        /\ UNCHANGED <<bodyOf, sent, again>>
    BY <1>9 DEF StoreResponse, historyVars
  <2> QED BY <1>2, <1>3, <2>1 DEF KeyInv
<1> QED BY <1>5, <1>6, <1>7, <1>8, <1>9 DEF RequestStep

(* A request that is sent while another carries its key makes it shared. *)
LEMMA KeySend ==
  ASSUME TypeInv, NEW r \in Requests, NEW action \in Actions,
         NEW key \in Keys \cup {None}, Send(r, action, key),
         NEW k \in Keys, KeyInv(k), k \notin shared'
  PROVE  KeyInv(k)'
<1> DEFINE new == [pc |-> IF key = None THEN "load" ELSE "lookup",
                   action |-> action, key |-> key]
<1>1. /\ request \in [Requests -> RequestRec] /\ None # k
  BY DEF TypeInv, TypeOK, TaskIds
<1>2. /\ request' = [request EXCEPT ![r] = new] /\ ~InFlight(r)
      /\ UNCHANGED <<keyVars, sent, again>>
  BY DEF Send, InFlight
<1>3. key = k => \A q \in Requests \ {r} : ~Carries(q, k)
  BY DEF Send, Carries
<1>4. /\ \A q \in Requests \ {r} : request'[q] = request[q]
      /\ request'[r].key = key
      /\ key # None => request'[r].pc = "lookup"
  BY <1>1, <1>2
<1>5. /\ \A q \in Requests \ {r} : Carries(q, k)' = Carries(q, k)
      /\ ~Carries(r, k)
      /\ Carries(r, k)' => key = k
  BY <1>2, <1>4 DEF Carries, InFlight
<1> HIDE DEF new
<1> QED BY <1>1, <1>2, <1>3, <1>4, <1>5 DEF KeyInv, keyVars

LEMMA KeysNext == TypeInv /\ KeysInv /\ [Next]_vars => KeysInv'
<1> SUFFICES ASSUME TypeInv, KeysInv, [Next]_vars, faults' = 0,
                    NEW k \in Keys, k \notin shared'
             PROVE  KeyInv(k)'
  BY DEF KeysInv
<1>1. ~Fault
  BY FaultCounted DEF TypeInv, TypeOK
<1>2. faults = 0 /\ shared \subseteq shared'
  BY <1>1 DEF Next, vars, historyVars, Send, RequestStep, LookupKey,
     RegisterKey, CheckTransition, Enqueue, StoreResponse, APICrash,
     WorkerStep, StartTask, LoadSpace, ApplyDiscordChange,
     UpdateSpaceLifecycle, Finish, LeaseLost, Provisioned
<1>3. KeyInv(k)
  BY <1>2 DEF KeysInv
<1>4. ASSUME UNCHANGED <<keyVars, request, sent, again>> PROVE KeyInv(k)'
  BY <1>3, <1>4 DEF KeyInv, Carries, InFlight, keyVars
<1>5. CASE UNCHANGED vars \/ Provisioned
  BY <1>4, <1>5 DEF vars, historyVars, Provisioned
<1>6. ASSUME NEW w \in Workers,
             \/ \E i \in TaskIds : StartTask(w, i)
             \/ WorkerStep(w) \/ LeaseLost(w)
      PROVE  KeyInv(k)'
  BY <1>4, <1>6 DEF WorkerStep, StartTask, LoadSpace, ApplyDiscordChange,
     UpdateSpaceLifecycle, Finish, LeaseLost, historyVars
<1>7. ASSUME NEW r \in Requests, RequestStep(r) \/ APICrash(r)
      PROVE  KeyInv(k)'
  BY <1>1, <1>3, <1>7, OtherKey, OwnKey DEF APICrash
<1> QED BY <1>3, <1>5, <1>6, <1>7, KeySend DEF Next

(* A client that waits for the answer before it repeats a request never     *)
(* gets the task of its Idempotency-Key queued twice, unless something      *)
(* fails.                                                                   *)
THEOREM OncePerKey == Spec => []OncePerKeyUnlessConcurrent
<1>1. TypeInv /\ KeysInv => OncePerKeyUnlessConcurrent
  BY DEF KeysInv, KeyInv, OncePerKeyUnlessConcurrent, TypeInv, TypeOK
<1>2. Init => TypeInv /\ KeysInv
  BY TypeInit, KeysInit
<1>3. TypeInv /\ KeysInv /\ [Next]_vars => (TypeInv /\ KeysInv)'
  BY TypeNext, KeysNext
<1> QED BY <1>1, <1>2, <1>3, PTL DEF Spec
=============================================================================
