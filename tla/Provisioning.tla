---------------------------- MODULE Provisioning ----------------------------
(***************************************************************************)
(* Provisioning of a merchant's space, from POST /merchants/{id}/channels  *)
(* to the Discord channel: the API handler ProvisionSpace, the outbox      *)
(* relay, the asynq queue, the per-merchant lock and the provision_space   *)
(* worker, each as a sequence of steps that interleave with all the others *)
(* and may fail or crash between any two of them.                          *)
(*                                                                         *)
(* A merchant has at most one space (UNIQUE (merchant_id)), hence one      *)
(* outbox row, one job row and one task id: all are indexed by merchant.   *)
(***************************************************************************)
EXTENDS Naturals, FiniteSets

CONSTANTS
    Merchants,        \* merchants, each of which may own one space
    Workers,          \* asynq handler goroutines, over all worker processes
    Relays,           \* outbox relays: one per worker process
    Categories,       \* Discord categories
    DefaultCategory,  \* DISCORD_CATEGORY_ID, None when not configured
    None,             \* NULL / empty string
    Locking,          \* was the handler given a Valkey locker? (else Noop)
    Stalls,           \* may a worker that is only slow lose its task lease?
    MaxRetry,         \* provisionMaxRetry
    MaxChannels,      \* bound: channels Discord creates for one merchant
    MaxFaults         \* bound: failures, crashes and refusals in a behaviour

ASSUME NoneAssumption == None \notin Merchants \cup Workers \cup Categories
ASSUME DefaultCategoryAssumption == DefaultCategory \in Categories \cup {None}
ASSUME SwitchesAssumption == Locking \in BOOLEAN /\ Stalls \in BOOLEAN
ASSUME BoundsAssumption ==
    MaxRetry \in Nat /\ MaxChannels \in Nat /\ MaxFaults \in Nat

VARIABLES
    request,     \* progress of the API request that creates m's space
    space,       \* m's row in spaces
    outbox,      \* payload of m's row in outbox
    stamped,     \* merchants whose outbox row has enqueued_at set
    jobs,        \* status of m's row in jobs
    relay,       \* each relay's batch: rows still to enqueue, rows to stamp
    task,        \* the asynq task whose id is m's idempotency key
    lock,        \* lock:merchant:m, the run that set it
    worker,      \* local state of each handler goroutine
    created,     \* number of channels Discord has created for m
    agentAllow,  \* categories with the Agent allow overwrite
    faults       \* failures so far

dispatchVars == <<request, outbox, stamped, relay>>  \* API and relay
runVars == <<lock, worker, created, agentAllow>>     \* workers and Discord
vars == <<request, space, outbox, stamped, jobs, relay, task, lock, worker,
          created, agentAllow, faults>>

-----------------------------------------------------------------------------
(* Types *)

Channels == 0..MaxChannels      \* the k-th channel made for m; 0 is NULL
NoChannel == 0
MaybeCategory == Categories \cup {None}

ACLStates == {"absent", "pending", "applied", "degraded", "failed"}
JobStatuses == {"absent", "pending", "active", "completed", "archived"}
Payloads == {"absent", "placeholder", "complete"}
Steps == {"idle", "acquire", "load", "create", "allow", "persist", "complete",
          "markSpace", "archiveJob", "return"}
Results == {"none", "ok", "retry", "rateLimited", "skipRetry"}

Row == [m : Merchants, payload : Payloads, cat : MaybeCategory]
RequestRec == [pc : {"idle", "patch", "job", "done"}, cat : MaybeCategory]
SpaceRec == [acl : ACLStates, channel : Channels, category : MaybeCategory]
OutboxRec == [payload : Payloads, cat : MaybeCategory]
RelayRec == [rows : SUBSET Row, sent : SUBSET Merchants]
TaskRec == [state : {"absent", "pending", "active", "archived", "done"},
            payload : Payloads, cat : MaybeCategory,
            owner : Workers \cup {None}, retried : 0..MaxRetry]
WorkerRec == [pc : Steps, m : Merchants \cup {None}, cat : MaybeCategory,
              channel : Channels, result : Results]

Idle == [pc |-> "idle", m |-> None, cat |-> None, channel |-> NoChannel,
         result |-> "none"]

(* Type invariant: every variable stays in its declared set, and a handler  *)
(* that runs has a merchant.                                                *)
TypeOK ==
    /\ request \in [Merchants -> RequestRec]
    /\ space \in [Merchants -> SpaceRec]
    /\ outbox \in [Merchants -> OutboxRec]
    /\ stamped \in SUBSET Merchants
    /\ jobs \in [Merchants -> JobStatuses]
    /\ relay \in [Relays -> RelayRec]
    /\ task \in [Merchants -> TaskRec]
    /\ lock \in [Merchants -> Workers \cup {None}]
    /\ worker \in [Workers -> WorkerRec]
    /\ \A w \in Workers : worker[w].pc # "idle" => worker[w].m \in Merchants
    /\ created \in [Merchants -> Channels]
    /\ agentAllow \in SUBSET MaybeCategory
    /\ faults \in 0..MaxFaults

Init ==
    /\ request = [m \in Merchants |-> [pc |-> "idle", cat |-> None]]
    /\ space = [m \in Merchants |-> [acl |-> "absent", channel |-> NoChannel,
                                     category |-> None]]
    /\ outbox = [m \in Merchants |-> [payload |-> "absent", cat |-> None]]
    /\ stamped = {}
    /\ jobs = [m \in Merchants |-> "absent"]
    /\ relay = [r \in Relays |-> [rows |-> {}, sent |-> {}]]
    /\ task = [m \in Merchants |-> [state |-> "absent", payload |-> "absent",
                                    cat |-> None, owner |-> None,
                                    retried |-> 0]]
    /\ lock = [m \in Merchants |-> None]
    /\ worker = [w \in Workers |-> Idle]
    /\ created = [m \in Merchants |-> 0]
    /\ agentAllow = {}
    /\ faults = 0

(* One more failure of the environment: a store, Valkey or Discord error, a *)
(* rate-limit refusal, a crash.                                             *)
Fault == faults < MaxFaults /\ faults' = faults + 1

-----------------------------------------------------------------------------
(* API: ProvisionSpace *)

(* CreateSpaceWithOutbox: the space (acl_state pending) and the outbox row  *)
(* commit together. The payload is a placeholder: space_id is not known yet.*)
(* A second request for the merchant gets ErrConflict and changes nothing.  *)
CreateSpaceWithOutbox(m, c) ==
    /\ request[m].pc = "idle"
    /\ space[m].acl = "absent"
    /\ space' = [space EXCEPT ![m].acl = "pending", ![m].category = c]
    /\ outbox' = [outbox EXCEPT ![m].payload = "placeholder"]
    /\ request' = [request EXCEPT ![m] = [pc |-> "patch", cat |-> c]]
    /\ UNCHANGED <<runVars, stamped, jobs, relay, task, faults>>

(* UPDATE outbox ... WHERE enqueued_at IS NULL *)
PatchedPayload(m, c) ==
    IF m \in stamped THEN outbox
    ELSE [outbox EXCEPT ![m].payload = "complete", ![m].cat = c]

(* UpdateOutboxPayload writes the complete payload, only into a row that is *)
(* not stamped. An error is logged and the handler goes on.                 *)
UpdateOutboxPayload(m) ==
    /\ request[m].pc = "patch"
    /\ request' = [request EXCEPT ![m].pc = "job"]
    /\ \/ outbox' = PatchedPayload(m, request[m].cat) /\ UNCHANGED faults
       \/ Fault /\ UNCHANGED outbox
    /\ UNCHANGED <<runVars, stamped, space, jobs, relay, task>>

(* CreateJob inserts the job mirror row; an error is ignored. *)
CreateJob(m) ==
    /\ request[m].pc = "job"
    /\ request' = [request EXCEPT ![m].pc = "done"]
    /\ \/ jobs' = [jobs EXCEPT ![m] = "pending"] /\ UNCHANGED faults
       \/ Fault /\ UNCHANGED jobs
    /\ UNCHANGED <<runVars, space, outbox, stamped, relay, task>>

(* The API process dies before the request's remaining steps. *)
APICrash(m) ==
    /\ request[m].pc \in {"patch", "job"}
    /\ request' = [request EXCEPT ![m].pc = "done"]
    /\ Fault
    /\ UNCHANGED <<runVars, space, outbox, stamped, jobs, relay, task>>

-----------------------------------------------------------------------------
(* Outbox relay *)

PendingRows ==
    {[m |-> m, payload |-> outbox[m].payload, cat |-> outbox[m].cat] :
       m \in {n \in Merchants \ stamped : outbox[n].payload # "absent"}}

(* tick: read the rows with enqueued_at IS NULL, payloads included. *)
ListPendingOutbox(r) ==
    /\ relay[r].rows = {} /\ relay[r].sent = {}
    /\ PendingRows # {}
    /\ relay' = [relay EXCEPT ![r].rows = PendingRows]
    /\ UNCHANGED <<runVars, request, space, outbox, stamped, jobs, task,
                   faults>>

(* The queue refuses a task id that is still in use (ErrTaskIDConflict).    *)
TaskIDInUse(m) == task[m].state \in {"pending", "active", "archived"}

(* Mutant: any error counts as success, not only a conflict. *)
EnqueueRowAnyError(r, row) ==
    /\ row \in relay[r].rows
    /\ relay' = [relay EXCEPT ![r].rows = @ \ {row},
                              ![r].sent = @ \cup {row.m}]
    /\ \/ /\ task' = IF TaskIDInUse(row.m) THEN task
                     ELSE [task EXCEPT ![row.m] =
                             [state |-> "pending", payload |-> row.payload,
                              cat |-> row.cat, owner |-> None, retried |-> 0]]
          /\ UNCHANGED faults
       \/ Fault /\ UNCHANGED task
    /\ UNCHANGED <<runVars, request, space, outbox, stamped, jobs>>

(* Mutant: a conflict is an error like any other. *)
EnqueueRowConflictFails(r, row) ==
    /\ row \in relay[r].rows
    /\ \/ /\ ~TaskIDInUse(row.m)
          /\ task' = [task EXCEPT ![row.m] =
                        [state |-> "pending", payload |-> row.payload,
                         cat |-> row.cat, owner |-> None, retried |-> 0]]
          /\ relay' = [relay EXCEPT ![r].rows = @ \ {row},
                                    ![r].sent = @ \cup {row.m}]
          /\ UNCHANGED faults
       \/ /\ IF TaskIDInUse(row.m) THEN UNCHANGED faults ELSE Fault
          /\ relay' = [relay EXCEPT ![r].rows = @ \ {row}]
          /\ UNCHANGED task
    /\ UNCHANGED <<runVars, request, space, outbox, stamped, jobs>>

(* enqueueRow: a conflict counts as success; any other error leaves the row *)
(* to the next tick.                                                        *)
EnqueueRow(r, row) ==
    /\ row \in relay[r].rows
    /\ \/ /\ task' = IF TaskIDInUse(row.m) THEN task
                     ELSE [task EXCEPT ![row.m] =
                             [state |-> "pending", payload |-> row.payload,
                              cat |-> row.cat, owner |-> None, retried |-> 0]]
          /\ relay' = [relay EXCEPT ![r].rows = @ \ {row},
                                    ![r].sent = @ \cup {row.m}]
          /\ UNCHANGED faults
       \/ /\ Fault
          /\ relay' = [relay EXCEPT ![r].rows = @ \ {row}]
          /\ UNCHANGED task
    /\ UNCHANGED <<runVars, request, space, outbox, stamped, jobs>>

(* StampOutboxEnqueued, once per tick for all rows that were sent; when it  *)
(* fails the rows stay pending.                                             *)
StampOutboxEnqueued(r) ==
    /\ relay[r].rows = {} /\ relay[r].sent # {}
    /\ relay' = [relay EXCEPT ![r].sent = {}]
    /\ \/ stamped' = stamped \cup relay[r].sent /\ UNCHANGED faults
       \/ Fault /\ UNCHANGED stamped
    /\ UNCHANGED <<runVars, request, space, outbox, jobs, task>>

(* The process of relay r dies and restarts; its batch is lost. *)
RelayCrash(r) ==
    /\ relay[r].rows # {} \/ relay[r].sent # {}
    /\ relay' = [relay EXCEPT ![r] = [rows |-> {}, sent |-> {}]]
    /\ Fault
    /\ UNCHANGED <<runVars, request, space, outbox, stamped, jobs, task>>

-----------------------------------------------------------------------------
(* provision_space worker *)

(* What the store writes *)

UpdateJobStatus(m, status) ==
    [jobs EXCEPT ![m] = IF @ = "absent" THEN @ ELSE status]
UpdateSpaceACLState(m, acl) == [space EXCEPT ![m].acl = acl]
(* acl_state applied comes with the channel, in one statement. *)
UpdateSpaceDiscordChannel(m, channel, category) ==
    [space EXCEPT ![m] = [acl |-> "applied", channel |-> channel,
                          category |-> category]]

(* What the Discord client does; a channel is born denied to @everyone *)

CreateChannelDenied(m) == [created EXCEPT ![m] = @ + 1]
ApplyCategoryAgentAllow(category) == agentAllow \cup {category}

(* transitionJob: no row, no update; an error is logged and ignored. *)
TransitionJob(m, status) ==
    \/ jobs' = UpdateJobStatus(m, status) /\ UNCHANGED faults
    \/ Fault /\ UNCHANGED jobs

(* The handler returns: the deferred ReleaseMerchant deletes the lock only  *)
(* when it still carries the run's token. An error of the release is        *)
(* ignored, and the lock is left to its TTL.                                *)
Return(w, result) ==
    /\ worker' = [worker EXCEPT ![w].pc = "return", ![w].result = result]
    /\ \/ lock' = [lock EXCEPT ![worker[w].m] = IF @ = w THEN None ELSE @]
       \/ UNCHANGED lock

(* asynq hands a task to an idle goroutine; handle decodes the payload. A   *)
(* payload without space_id is archived at once (SkipRetry).                *)
StartTask(w, m) ==
    /\ worker[w].pc = "idle"
    /\ task[m].state = "pending"
    /\ task' = [task EXCEPT ![m].state = "active", ![m].owner = w]
    /\ \/ /\ task[m].payload = "complete"
          /\ worker' = [worker EXCEPT ![w] = [Idle EXCEPT
                          !.pc = "acquire", !.m = m, !.cat = task[m].cat]]
          /\ TransitionJob(m, "active")
       \/ /\ task[m].payload # "complete"
          /\ worker' = [worker EXCEPT ![w] = [Idle EXCEPT
                          !.pc = "return", !.m = m, !.result = "skipRetry"]]
          /\ UNCHANGED <<jobs, faults>>
    /\ UNCHANGED <<dispatchVars, space, lock, created, agentAllow>>

(* AcquireMerchant: SET NX with the run's token. A held lock and a Valkey   *)
(* error both make the task retry, and the run releases nothing. Without a  *)
(* configured locker, NoopLocker always succeeds and sets nothing.          *)
AcquireMerchant(w) ==
    /\ worker[w].pc = "acquire"
    /\ \/ /\ Locking => lock[worker[w].m] = None
          /\ lock' = IF Locking THEN [lock EXCEPT ![worker[w].m] = w] ELSE lock
          /\ worker' = [worker EXCEPT ![w].pc = "load"]
          /\ UNCHANGED faults
       \/ /\ Locking
          /\ worker' = [worker EXCEPT ![w].pc = "return",
                                      ![w].result = "retry"]
          /\ UNCHANGED lock
          /\ \/ lock[worker[w].m] # None /\ UNCHANGED faults
             \/ Fault
    /\ UNCHANGED <<dispatchVars, space, jobs, task, created, agentAllow>>

(* The category of the payload, else the configured default. *)
CategoryOf(w) ==
    IF worker[w].cat # None THEN worker[w].cat ELSE DefaultCategory

(* Mutant: a provisioned space is not skipped. *)
LoadSpaceAlways(w) ==
    /\ worker[w].pc = "load"
    /\ \/ /\ worker' = [worker EXCEPT
                          ![w].cat = CategoryOf(w),
                          ![w].pc = IF CategoryOf(w) = None THEN "markSpace"
                                    ELSE "create"]
          /\ UNCHANGED <<lock, faults>>
       \/ Fault /\ Return(w, "retry")
    /\ UNCHANGED <<dispatchVars, space, jobs, task, created, agentAllow>>

(* GetSpaceByID, then the three ways on: the space is provisioned already   *)
(* (the job row is left as it is), no category (fail closed), or create.    *)
LoadSpace(w) ==
    LET sp == space[worker[w].m] IN
    /\ worker[w].pc = "load"
    /\ \/ /\ sp.channel # NoChannel /\ sp.acl = "applied"
          /\ Return(w, "ok")
          /\ UNCHANGED faults
       \/ /\ ~(sp.channel # NoChannel /\ sp.acl = "applied")
          /\ worker' = [worker EXCEPT
                          ![w].cat = CategoryOf(w),
                          ![w].pc = IF CategoryOf(w) = None THEN "markSpace"
                                    ELSE "create"]
          /\ UNCHANGED <<lock, faults>>
       \/ Fault /\ Return(w, "retry")
    /\ UNCHANGED <<dispatchVars, space, jobs, task, created, agentAllow>>

(* takeTokens and CreateChannelDenied. No token, or a 429: retry later. Any *)
(* other error, even when Discord did create the channel: fail closed.      *)
CreateChannel(w) ==
    LET m == worker[w].m IN
    /\ worker[w].pc = "create"
    /\ \/ /\ created[m] < MaxChannels
          /\ created' = CreateChannelDenied(m)
          /\ worker' = [worker EXCEPT ![w].pc = "allow",
                                      ![w].channel = created[m] + 1]
          /\ UNCHANGED <<lock, faults>>
       \/ /\ Fault /\ Return(w, "rateLimited")
          /\ UNCHANGED created
       \/ /\ Fault
          /\ worker' = [worker EXCEPT ![w].pc = "markSpace"]
          /\ \/ UNCHANGED created
             \/ created[m] < MaxChannels
                /\ created' = CreateChannelDenied(m)
          /\ UNCHANGED lock
    /\ UNCHANGED <<dispatchVars, space, jobs, task, agentAllow>>

(* Mutant: a 429 on the allow is taken for success. *)
ApplyAgentAllowIgnoring429(w) ==
    /\ worker[w].pc = "allow"
    /\ \/ /\ agentAllow' = agentAllow \cup {worker[w].cat}
          /\ worker' = [worker EXCEPT ![w].pc = "persist"]
          /\ UNCHANGED <<lock, faults>>
       \/ /\ Fault
          /\ worker' = [worker EXCEPT ![w].pc = "persist"]
          /\ UNCHANGED <<lock, agentAllow>>
    /\ UNCHANGED <<dispatchVars, space, jobs, task, created>>

(* takeTokens and ApplyCategoryAgentAllow, with the same three outcomes;    *)
(* the id of the created channel is lost on the two that do not go on.      *)
ApplyAgentAllow(w) ==
    /\ worker[w].pc = "allow"
    /\ \/ /\ agentAllow' = ApplyCategoryAgentAllow(worker[w].cat)
          /\ worker' = [worker EXCEPT ![w].pc = "persist"]
          /\ UNCHANGED <<lock, faults>>
       \/ /\ Fault /\ Return(w, "rateLimited")
          /\ UNCHANGED agentAllow
       \/ /\ Fault
          /\ worker' = [worker EXCEPT ![w].pc = "markSpace"]
          /\ agentAllow' \in {agentAllow,
                              ApplyCategoryAgentAllow(worker[w].cat)}
          /\ UNCHANGED lock
    /\ UNCHANGED <<dispatchVars, space, jobs, task, created>>

(* Mutant: an error of the statement is only logged. *)
PersistChannelIgnoringError(w) ==
    /\ worker[w].pc = "persist"
    /\ worker' = [worker EXCEPT ![w].pc = "complete"]
    /\ \/ /\ space' = [space EXCEPT ![worker[w].m] =
                         [acl |-> "applied", channel |-> worker[w].channel,
                          category |-> worker[w].cat]]
          /\ UNCHANGED faults
       \/ Fault /\ UNCHANGED space
    /\ UNCHANGED <<dispatchVars, jobs, task, lock, created, agentAllow>>

(* Mutant: the statement does not set acl_state. *)
PersistChannelWithoutACL(w) ==
    /\ worker[w].pc = "persist"
    /\ space' = [space EXCEPT ![worker[w].m].channel = worker[w].channel]
    /\ worker' = [worker EXCEPT ![w].pc = "complete"]
    /\ UNCHANGED <<dispatchVars, jobs, task, lock, created, agentAllow,
                   faults>>

(* UpdateSpaceDiscordChannel: channel id and acl_state applied, in one      *)
(* statement; an error retries the whole task.                              *)
PersistChannel(w) ==
    /\ worker[w].pc = "persist"
    /\ \/ /\ space' = UpdateSpaceDiscordChannel(worker[w].m, worker[w].channel,
                                                worker[w].cat)
          /\ worker' = [worker EXCEPT ![w].pc = "complete"]
          /\ UNCHANGED <<lock, faults>>
       \/ /\ Fault /\ Return(w, "retry")
          /\ UNCHANGED space
    /\ UNCHANGED <<dispatchVars, jobs, task, created, agentAllow>>

(* The job is completed (audit and cache are not modelled here). *)
CompleteJob(w) ==
    /\ worker[w].pc = "complete"
    /\ TransitionJob(worker[w].m, "completed")
    /\ Return(w, "ok")
    /\ UNCHANGED <<dispatchVars, space, task, created, agentAllow>>

(* failClosed, first statement: acl_state becomes degraded when the handler *)
(* knows of a channel, failed when it does not; an error is only logged.    *)
MarkSpace(w) ==
    /\ worker[w].pc = "markSpace"
    /\ worker' = [worker EXCEPT ![w].pc = "archiveJob"]
    /\ \/ /\ space' = UpdateSpaceACLState(worker[w].m,
                        IF worker[w].channel = NoChannel THEN "failed"
                        ELSE "degraded")
          /\ UNCHANGED faults
       \/ Fault /\ UNCHANGED space
    /\ UNCHANGED <<dispatchVars, jobs, task, lock, created, agentAllow>>

(* failClosed, second statement: the job row is archived and the handler    *)
(* returns SkipRetry.                                                       *)
ArchiveJob(w) ==
    /\ worker[w].pc = "archiveJob"
    /\ TransitionJob(worker[w].m, "archived")
    /\ Return(w, "skipRetry")
    /\ UNCHANGED <<dispatchVars, space, task, created, agentAllow>>

-----------------------------------------------------------------------------
(* asynq and Valkey: external, as the code above relies on them *)

(* Mutant: the retry budget is not passed to the queue. *)
RetriedForEver(t) ==
    [t EXCEPT !.state = "pending", !.owner = None, !.retried = @ + 1]

(* A failed attempt: retried until the budget is spent, then archived. *)
Retried(t) ==
    IF t.retried < MaxRetry
    THEN [t EXCEPT !.state = "pending", !.owner = None, !.retried = @ + 1]
    ELSE [t EXCEPT !.state = "archived", !.owner = None]

(* The task after the handler's result. IsFailure is false for a rate-limit *)
(* error, so that retry does not count.                                     *)
Settled(t, result) ==
    CASE result = "ok" ->
           [t EXCEPT !.state = "done", !.owner = None]
      [] result = "skipRetry" ->
           [t EXCEPT !.state = "archived", !.owner = None]
      [] result = "rateLimited" ->
           [t EXCEPT !.state = "pending", !.owner = None]
      [] OTHER -> Retried(t)

(* The processor settles the task with the handler's result, unless the     *)
(* lease was lost meanwhile: then the result is dropped.                    *)
FinishTask(w) ==
    LET m == worker[w].m IN
    /\ worker[w].pc = "return"
    /\ task' = IF task[m].state = "active" /\ task[m].owner = w
               THEN [task EXCEPT ![m] = Settled(@, worker[w].result)]
               ELSE task
    /\ worker' = [worker EXCEPT ![w] = Idle]
    /\ UNCHANGED <<dispatchVars, space, jobs, lock, created, agentAllow,
                   faults>>

(* The process of goroutine w dies; its lock and its task stay behind. *)
WorkerCrash(w) ==
    /\ worker[w].pc # "idle"
    /\ worker' = [worker EXCEPT ![w] = Idle]
    /\ Fault
    /\ UNCHANGED <<dispatchVars, space, jobs, task, lock, created, agentAllow>>

Runs(w, m) == worker[w].pc # "idle" /\ worker[w].m = m

(* asynq's recoverer retries an active task whose lease has expired: the    *)
(* worker is dead or, with Stalls, too slow to extend the lease.            *)
LeaseExpires(m) ==
    /\ task[m].state = "active"
    /\ \/ ~Runs(task[m].owner, m) /\ UNCHANGED faults
       \/ Stalls /\ Runs(task[m].owner, m) /\ Fault
    /\ task' = [task EXCEPT ![m] = Retried(@)]
    /\ UNCHANGED <<dispatchVars, runVars, space, jobs>>

(* The lock's 30 second TTL ends, whatever its holder is doing. *)
LockExpires(m) ==
    /\ lock[m] # None
    /\ lock' = [lock EXCEPT ![m] = None]
    /\ UNCHANGED <<dispatchVars, space, jobs, task, worker, created,
                   agentAllow, faults>>

-----------------------------------------------------------------------------

RelayStep(r) ==
    \/ ListPendingOutbox(r)
    \/ \E row \in relay[r].rows : EnqueueRow(r, row)
    \/ StampOutboxEnqueued(r)

HandlerStep(w) ==
    \/ AcquireMerchant(w) \/ LoadSpace(w) \/ CreateChannel(w)
    \/ ApplyAgentAllow(w) \/ PersistChannel(w) \/ CompleteJob(w)
    \/ MarkSpace(w) \/ ArchiveJob(w) \/ FinishTask(w)

Next ==
    \/ \E m \in Merchants :
         \/ \E c \in MaybeCategory : CreateSpaceWithOutbox(m, c)
         \/ UpdateOutboxPayload(m) \/ CreateJob(m) \/ APICrash(m)
         \/ LeaseExpires(m) \/ LockExpires(m)
    \/ \E r \in Relays : RelayStep(r) \/ RelayCrash(r)
    \/ \E w \in Workers :
         \/ \E m \in Merchants : StartTask(w, m)
         \/ HandlerStep(w) \/ WorkerCrash(w)

Spec == Init /\ [][Next]_vars

(* Relays tick and goroutines run for ever, asynq recovers leases and keys  *)
(* expire; clients and failures are under no obligation.                    *)
Fairness ==
    /\ \A r \in Relays : WF_vars(RelayStep(r))
    /\ \A w \in Workers : WF_vars(HandlerStep(w))
                          /\ WF_vars(\E m \in Merchants : StartTask(w, m))
    /\ \A m \in Merchants : WF_vars(LeaseExpires(m)) /\ WF_vars(LockExpires(m))

FairSpec == Spec /\ Fairness

-----------------------------------------------------------------------------
(* Properties *)

(* A space that reads acl_state = applied is really usable and isolated:    *)
(* its recorded channel is one Discord created for this merchant (born      *)
(* denied) and its recorded category is real and carries the Agent allow,   *)
(* in whatever order retries, crashes and stale workers interleave the      *)
(* steps of provision_space.                                                *)
AppliedIsBacked ==
    \A m \in Merchants : space[m].acl = "applied" =>
        /\ space[m].channel \in 1..created[m]
        /\ space[m].category \in agentAllow \ {None}

(* The relay never stamps a row whose task did not reach the queue: a       *)
(* committed space is not lost by an enqueue error, a crash of the relay or *)
(* another relay working on the same rows.                                  *)
StampedWasEnqueued ==
    \A m \in stamped : task[m].state # "absent"

(* A caller that polls the job and reads completed finds the space applied, *)
(* as long as no worker outlives its lease.                                 *)
CompletedMeansApplied ==
    \A m \in Merchants : jobs[m] = "completed" => space[m].acl = "applied"

(* Every channel beyond the first one is paid for by a failure: duplicate   *)
(* enqueues, redeliveries and lock contention alone never make provisioning *)
(* create a second channel.                                                 *)
ExtraChannelsNeedFaults ==
    \A m \in Merchants : created[m] <= 1 + faults

(* Once a space is applied, neither its channel nor its acl_state changes:  *)
(* a duplicate or redelivered task is skipped, and no failure path marks a  *)
(* working space failed or degraded.                                        *)
AppliedIsFinal ==
    [][\A m \in Merchants :
         space[m].acl = "applied" => space'[m] = space[m]]_vars

(* Every committed space reaches the queue, its row is stamped, and its     *)
(* task comes to rest for good: the relay does not feed the same row again  *)
(* and again, and no task hangs on a dead worker or a lock left behind.     *)
CommittedIsSettled ==
    \A m \in Merchants : space[m].acl # "absent" ~>
        [](m \in stamped /\ task[m].state \in {"done", "archived"})

(* The rows of spaces, seen on their own. *)
Contract == INSTANCE SpaceContract WITH
    acl <- [m \in Merchants |-> space[m].acl],
    channel <- [m \in Merchants |-> space[m].channel]

(* Provisioning keeps the contract of SpaceContract, as long as no worker   *)
(* outlives its lease: channel and acl_state applied appear together, once, *)
(* and are final.                                                           *)
KeepsContract == Contract!Spec

(* What a comment of the repository claims, and the code does not keep:     *)

(* "the outbox payload MUST include space_id so the provision worker can    *)
(* load the correct space" (spaces.go): no task without it is enqueued.     *)
EnqueuedPayloadComplete ==
    \A m \in Merchants :
        task[m].state # "absent" => task[m].payload = "complete"
=============================================================================
