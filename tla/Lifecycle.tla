------------------------------ MODULE Lifecycle ------------------------------
(***************************************************************************)
(* The lifecycle of one space: POST /channels/{id}/lifecycle behind the    *)
(* idempotency middleware, and the change_lifecycle workers, on the row of *)
(* spaces (lifecycle_state) and the @everyone overwrite of its channel.    *)
(*                                                                         *)
(* A transition is checked when it is requested and applied later, by a    *)
(* task that neither locks the space nor checks again.                     *)
(***************************************************************************)
EXTENDS Naturals

CONSTANTS
    Requests,   \* HTTP requests, each sent at most once
    Keys,       \* Idempotency-Key values of clients
    Workers,    \* asynq handler goroutines
    None,       \* NULL, or no Idempotency-Key header
    MaxFaults   \* bound: store, asynq and Discord errors and crashes

LifecycleStates == {"active", "resolved", "archived"}
Actions == {"open", "resolve", "archive", "reopen"}

(* The key is the task's id; without one the id is made from the action. *)
TaskIds == Keys \cup Actions

ASSUME NoneAssumption == None \notin TaskIds
ASSUME KeysAssumption == Keys \cap Actions = {}
ASSUME FaultsAssumption == MaxFaults \in Nat

VARIABLES
    lifecycle,   \* spaces.lifecycle_state
    everyone,    \* @everyone overwrite of the channel; "none": no channel yet
    bodyOf,      \* idempotency_keys: the body the key was inserted with
    answered,    \* keys with a stored response
    task,        \* change_lifecycle tasks in asynq
    payload,     \* the action of each of them
    request,     \* local state of each API request
    worker,      \* local state of each handler goroutine
    left,        \* history: has the row ever been other than active?
    overlapped,  \* history: have two runs ever overlapped?
    shared,      \* history: keys used by two requests at a time
    sent,        \* history: keys whose task was put in the queue
    again,       \* history: ... more than once
    faults       \* failures so far

keyVars == <<bodyOf, answered>>
taskVars == <<task, payload>>
historyVars == <<left, overlapped, shared, sent, again>>
vars == <<lifecycle, everyone, keyVars, taskVars, request, worker,
          historyVars, faults>>

-----------------------------------------------------------------------------
(* Types *)

MaybeAction == Actions \cup {None}
RequestRec ==
    [pc : {"unsent", "lookup", "register", "load", "enqueue", "answer",
           "done"},
     action : MaybeAction, key : Keys \cup {None}]
Unsent == [pc |-> "unsent", action |-> None, key |-> None]
Done == [Unsent EXCEPT !.pc = "done"]
WorkerRec ==
    [pc : {"idle", "load", "discord", "persist", "finish"},
     id : TaskIds \cup {None}, action : MaybeAction]
Idle == [pc |-> "idle", id |-> None, action |-> None]

(* Type invariant: every variable stays in its declared set; in particular  *)
(* the row only ever holds one of the three lifecycle states, and exactly   *)
(* the tasks asynq knows have a payload.                                    *)
TypeOK ==
    /\ lifecycle \in LifecycleStates
    /\ everyone \in {"none", "denied", "locked", "open"}
    /\ bodyOf \in [Keys -> MaybeAction]
    /\ answered \in SUBSET Keys
    /\ task \in [TaskIds -> {"none", "waiting", "running", "dead"}]
    /\ payload \in [TaskIds -> MaybeAction]
    /\ \A i \in TaskIds : task[i] = "none" <=> payload[i] = None
    /\ request \in [Requests -> RequestRec]
    /\ worker \in [Workers -> WorkerRec]
    /\ left \in BOOLEAN /\ overlapped \in BOOLEAN
    /\ shared \in SUBSET Keys
    /\ sent \in SUBSET Keys /\ again \in SUBSET sent
    /\ faults \in 0..MaxFaults

Init ==
    /\ lifecycle = "active"
    /\ everyone = "none"
    /\ bodyOf = [k \in Keys |-> None]
    /\ answered = {}
    /\ task = [i \in TaskIds |-> "none"]
    /\ payload = [i \in TaskIds |-> None]
    /\ request = [r \in Requests |-> Unsent]
    /\ worker = [w \in Workers |-> Idle]
    /\ left = FALSE /\ overlapped = FALSE
    /\ shared = {} /\ sent = {} /\ again = {}
    /\ faults = 0

Fault == faults < MaxFaults /\ faults' = faults + 1

(* actionToLifecycleState in the API, actionToTargetState in the worker. *)
TargetState(action) ==
    CASE action \in {"open", "reopen"} -> "active"
      [] action = "resolve"            -> "resolved"
      [] action = "archive"            -> "archived"

(* Mutant: only the action is validated. *)
AnyTransition(from, to) == to \in LifecycleStates

(* lifecycleTransitions *)
LifecycleTransition(from, to) ==
    <<from, to>> \in {<<"active", "resolved">>, <<"active", "archived">>,
                      <<"resolved", "active">>, <<"resolved", "archived">>,
                      <<"archived", "active">>}

-----------------------------------------------------------------------------
(* Idempotency middleware and ChangeSpaceLifecycle *)

InFlight(r) == request[r].pc \notin {"unsent", "done"}
Goto(r, pc) == request' = [request EXCEPT ![r].pc = pc]
Queued(r) ==
    request' = [request EXCEPT ![r].pc = "answer", ![r].action = None]
Reply(r) == request' = [request EXCEPT ![r] = Done]

(* A client sends a request, with a key of its own or none. *)
Send(r, action, key) ==
    /\ request[r].pc = "unsent"
    /\ request' = [request EXCEPT ![r] =
                     [pc |-> IF key = None THEN "load" ELSE "lookup",
                      action |-> action, key |-> key]]
    /\ shared' = shared \cup
         {k \in Keys : k = key /\ \E q \in Requests \ {r} :
                                     InFlight(q) /\ request[q].key = k}
    /\ UNCHANGED <<lifecycle, everyone, keyVars, taskVars, worker, left,
                   overlapped, sent, again, faults>>

(* Mutant: a stored response is not replayed. *)
LookupKeyWithoutReplay(r) ==
    LET body == bodyOf[request[r].key] IN
    /\ request[r].pc = "lookup"
    /\ \/ body = None /\ Goto(r, "register")
       \/ body = request[r].action /\ Goto(r, "load")
       \/ body \notin {None, request[r].action} /\ Reply(r)
    /\ UNCHANGED <<lifecycle, everyone, keyVars, taskVars, worker,
                   historyVars, faults>>

(* GetIdempotencyKey: a key with another body is a conflict, one with a     *)
(* stored response is replayed, a pending one passes through.               *)
LookupKey(r) ==
    LET key == request[r].key
        new == bodyOf[key] = None
        pending == bodyOf[key] = request[r].action /\ key \notin answered IN
    /\ request[r].pc = "lookup"
    /\ \/ new /\ Goto(r, "register") /\ UNCHANGED faults
       \/ pending /\ Goto(r, "load") /\ UNCHANGED faults
       \/ ~new /\ ~pending /\ Reply(r) /\ UNCHANGED faults
       \/ Fault /\ Reply(r)
    /\ UNCHANGED <<lifecycle, everyone, keyVars, taskVars, worker,
                   historyVars>>

(* INSERT INTO idempotency_keys under its PRIMARY KEY. *)
InsertIdempotencyKey(key, body) ==
    [bodyOf EXCEPT ![key] = IF @ = None THEN body ELSE @]

(* The error of a key inserted meanwhile is ignored, whatever body it has;  *)
(* any other ends the request.                                              *)
RegisterKey(r) ==
    LET inserted == InsertIdempotencyKey(request[r].key, request[r].action) IN
    /\ request[r].pc = "register"
    /\ \/ bodyOf' = inserted /\ Goto(r, "load") /\ UNCHANGED faults
       \/ bodyOf' \in {bodyOf, inserted} /\ Reply(r) /\ Fault
    /\ UNCHANGED <<lifecycle, everyone, answered, taskVars, worker,
                   historyVars>>

(* GetSpaceByID and the state machine; a conflict stores no response. *)
CheckTransition(r) ==
    LET allowed == LifecycleTransition(lifecycle,
                                       TargetState(request[r].action)) IN
    /\ request[r].pc = "load"
    /\ \/ allowed /\ Goto(r, "enqueue") /\ UNCHANGED faults
       \/ ~allowed /\ Reply(r) /\ UNCHANGED faults
       \/ Fault /\ Reply(r)
    /\ UNCHANGED <<lifecycle, everyone, keyVars, taskVars, worker,
                   historyVars>>

(* Enqueue: asynq refuses an id it still knows, dead tasks included. The    *)
(* refusal and any other error are ignored. The action is not needed again. *)
Enqueue(r) ==
    LET id == IF request[r].key = None THEN request[r].action
              ELSE request[r].key IN
    /\ request[r].pc = "enqueue"
    /\ Queued(r)
    /\ \/ /\ task[id] = "none"
          /\ task' = [task EXCEPT ![id] = "waiting"]
          /\ payload' = [payload EXCEPT ![id] = request[r].action]
          /\ sent' = sent \cup ({id} \cap Keys)
          /\ again' = again \cup ({id} \cap sent)
          /\ UNCHANGED faults
       \/ task[id] # "none" /\ UNCHANGED <<taskVars, sent, again, faults>>
       \/ Fault /\ UNCHANGED <<taskVars, sent, again>>
    /\ UNCHANGED <<lifecycle, everyone, keyVars, worker, left, overlapped,
                   shared>>

(* UPDATE idempotency_keys; no header, no row. *)
UpdateIdempotencyKeyResponse(key) == answered \cup ({key} \cap Keys)

(* StoreIdempotencyResponse, its error ignored, and 202. *)
StoreResponse(r) ==
    /\ request[r].pc = "answer"
    /\ Reply(r)
    /\ \/ /\ answered' = UpdateIdempotencyKeyResponse(request[r].key)
          /\ UNCHANGED faults
       \/ Fault /\ UNCHANGED answered
    /\ UNCHANGED <<lifecycle, everyone, bodyOf, taskVars, worker, historyVars>>

(* The API process dies in the middle of a request. *)
APICrash(r) ==
    /\ InFlight(r)
    /\ Fault
    /\ Reply(r)
    /\ UNCHANGED <<lifecycle, everyone, keyVars, taskVars, worker,
                   historyVars>>

-----------------------------------------------------------------------------
(* change_lifecycle *)

(* asynq hands a task to an idle goroutine. *)
StartTask(w, i) ==
    /\ worker[w].pc = "idle" /\ task[i] = "waiting"
    /\ task' = [task EXCEPT ![i] = "running"]
    /\ worker' = [worker EXCEPT ![w] = [pc |-> "load", id |-> i,
                                        action |-> payload[i]]]
    /\ overlapped' = (overlapped \/ \E v \in Workers : worker[v].pc # "idle")
    /\ UNCHANGED <<lifecycle, everyone, keyVars, payload, request, left,
                   shared, sent, again, faults>>

(* What asynq does with the running task i: forget it, or retry it while    *)
(* its budget lasts and keep it as dead after that. A goroutine that has    *)
(* lost its lease settles nothing, unless the task runs again.              *)
Settle(i, statuses) ==
    IF task[i] = "running"
    THEN \E s \in statuses :
           /\ task' = [task EXCEPT ![i] = s]
           /\ payload' = [payload EXCEPT ![i] = IF s = "none" THEN None
                                                ELSE @]
    ELSE UNCHANGED taskVars

ReturnError(w) ==
    /\ worker' = [worker EXCEPT ![w] = Idle]
    /\ Settle(worker[w].id, {"waiting", "dead"})

(* GetSpaceByID: is there a channel to change? *)
LoadSpace(w) ==
    /\ worker[w].pc = "load"
    /\ \/ /\ worker' = [worker EXCEPT ![w].pc = IF everyone = "none"
                                                THEN "persist" ELSE "discord"]
          /\ UNCHANGED <<taskVars, faults>>
       \/ Fault /\ ReturnError(w)
    /\ UNCHANGED <<lifecycle, everyone, keyVars, request, historyVars>>

(* Mutant: reopening is left to the row. *)
ChangedOverwriteOpenOnly(action) ==
    CASE action = "archive" -> "locked"
      [] action = "open"    -> "open"
      [] OTHER              -> everyone

(* ArchiveChannel overwrites the @everyone overwrite with a deny of viewing *)
(* and sending; UnarchiveChannel deletes it, the one of the creation        *)
(* included, for there is only one. Resolving leaves the channel alone.     *)
ChangedOverwrite(action) ==
    CASE action = "archive"            -> "locked"
      [] action \in {"open", "reopen"} -> "open"
      [] OTHER                         -> everyone

(* applyDiscordChange; a call that reports an error may have been done. *)
ApplyDiscordChange(w) ==
    LET changed == ChangedOverwrite(worker[w].action) IN
    /\ worker[w].pc = "discord"
    /\ \/ /\ everyone' = changed
          /\ worker' = [worker EXCEPT ![w].pc = "persist"]
          /\ UNCHANGED <<taskVars, faults>>
       \/ everyone' \in {everyone, changed} /\ Fault /\ ReturnError(w)
    /\ UNCHANGED <<lifecycle, keyVars, request, historyVars>>

(* Mutant: the row gets the action of the payload. *)
UpdateSpaceLifecycleToAction(w) ==
    /\ worker[w].pc = "persist"
    /\ lifecycle' = worker[w].action
    /\ worker' = [worker EXCEPT ![w].pc = "finish"]
    /\ left' = (left \/ lifecycle' # "active")
    /\ UNCHANGED <<everyone, keyVars, taskVars, request, overlapped, shared,
                   sent, again, faults>>

(* UpdateSpaceLifecycle, from whatever state the row is in now. *)
UpdateSpaceLifecycle(w) ==
    LET target == TargetState(worker[w].action) IN
    /\ worker[w].pc = "persist"
    /\ \/ /\ lifecycle' = target
          /\ worker' = [worker EXCEPT ![w].pc = "finish", ![w].action = None]
          /\ UNCHANGED <<taskVars, faults>>
       \/ lifecycle' \in {lifecycle, target} /\ Fault /\ ReturnError(w)
    /\ left' = (left \/ lifecycle' # "active")
    /\ UNCHANGED <<everyone, keyVars, request, overlapped, shared, sent,
                   again>>

(* The handler returns nil, and asynq forgets the task and its id. *)
Finish(w) ==
    /\ worker[w].pc = "finish"
    /\ worker' = [worker EXCEPT ![w] = Idle]
    /\ Settle(worker[w].id, {"none"})
    /\ UNCHANGED <<lifecycle, everyone, keyVars, request, historyVars, faults>>

(* The task's lease is lost and asynq's recoverer retries it: the worker    *)
(* process has died, or is only slow and goes on.                           *)
LeaseLost(w) ==
    /\ worker[w].pc # "idle"
    /\ Fault
    /\ Settle(worker[w].id, {"waiting", "dead"})
    /\ worker' \in {worker, [worker EXCEPT ![w] = Idle]}
    /\ UNCHANGED <<lifecycle, everyone, keyVars, request, historyVars>>

(* provision_space has created and recorded the channel (see Provisioning). *)
Provisioned ==
    /\ everyone = "none"
    /\ everyone' = "denied"
    /\ UNCHANGED <<lifecycle, keyVars, taskVars, request, worker, historyVars,
                   faults>>

-----------------------------------------------------------------------------

RequestStep(r) ==
    \/ LookupKey(r) \/ RegisterKey(r) \/ CheckTransition(r) \/ Enqueue(r)
    \/ StoreResponse(r)

WorkerStep(w) ==
    \/ LoadSpace(w) \/ ApplyDiscordChange(w) \/ UpdateSpaceLifecycle(w)
    \/ Finish(w)

Next ==
    \/ \E r \in Requests :
         \/ \E action \in Actions, key \in Keys \cup {None} :
              Send(r, action, key)
         \/ RequestStep(r) \/ APICrash(r)
    \/ \E w \in Workers :
         \/ \E i \in TaskIds : StartTask(w, i)
         \/ WorkerStep(w) \/ LeaseLost(w)
    \/ Provisioned

Spec == Init /\ [][Next]_vars

-----------------------------------------------------------------------------
(* Properties *)

(* However requests, retries and late tasks interleave, the channel of a    *)
(* space that has never been resolved or archived keeps the @everyone deny  *)
(* it was created with: no request for a space in use can lift it.          *)
OpenedOnlyAfterClosing == everyone = "open" => left

AtRest == \A w \in Workers : worker[w].pc = "idle"

(* change_lifecycle changes Discord and then the row, without lock or       *)
(* check. Once no run is under way, an archived space with an open channel  *)
(* or an active one with a locked channel is due to a call that failed or   *)
(* to two runs that overlapped, never to requests that only followed one    *)
(* another, accepted in whatever order, or to the provisioning between.     *)
AgreesUnlessRaced ==
    AtRest /\ faults = 0 /\ ~overlapped =>
        /\ lifecycle = "archived" => everyone # "open"
        /\ lifecycle = "active" => everyone # "locked"

(* Without failures, the task of an Idempotency-Key is put in the queue a   *)
(* second time only if two requests carried the key at the same time: a     *)
(* client that repeats a request after its answer has no second effect.     *)
OncePerKeyUnlessConcurrent == faults = 0 => again \subseteq shared

(* What a comment of the repository claims, and the code does not keep:     *)

(* "removing the archive overwrite returns to that state", the @everyone    *)
(* deny of the creation (discord.go): no channel is left without it.        *)
NeverOpenToEveryone == everyone # "open"
=============================================================================
