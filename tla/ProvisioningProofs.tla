------------------------- MODULE ProvisioningProofs -------------------------
(***************************************************************************)
(* Proofs about Provisioning, for any sets of merchants, goroutines,       *)
(* relays and categories and any bounds.                                   *)
(***************************************************************************)
EXTENDS Provisioning, TLAPS

USE NoneAssumption, DefaultCategoryAssumption, SwitchesAssumption,
    BoundsAssumption
USE DEF PatchedPayload, UpdateJobStatus, UpdateSpaceDiscordChannel,
        UpdateSpaceACLState, CreateChannelDenied, ApplyCategoryAgentAllow

-----------------------------------------------------------------------------
(* Records: what the steps write is again a record of its type *)

WorkersTyped ==
    /\ worker \in [Workers -> WorkerRec]
    /\ \A w \in Workers : worker[w].pc # "idle" => worker[w].m \in Merchants

(* A retry stays within the budget and keeps the task a task. *)
LEMMA RetriedType == ASSUME NEW t \in TaskRec PROVE Retried(t) \in TaskRec
<1>1. CASE t.retried < MaxRetry
  <2>1. t.retried + 1 \in 0..MaxRetry
    BY <1>1 DEF TaskRec
  <2>2. [t EXCEPT !.state = "pending", !.owner = None, !.retried = @ + 1]
          \in TaskRec
    BY <2>1 DEF TaskRec
  <2> QED BY <2>2, <1>1 DEF Retried
<1>2. CASE ~(t.retried < MaxRetry)
  <2>1. [t EXCEPT !.state = "archived", !.owner = None] \in TaskRec
    BY DEF TaskRec
  <2> QED BY <2>1, <1>2 DEF Retried
<1> QED BY <1>1, <1>2

(* Every result of a handler leaves a task behind. *)
LEMMA SettledType ==
  ASSUME NEW t \in TaskRec, NEW res \in Results
  PROVE  Settled(t, res) \in TaskRec
<1>1. CASE res = "ok"
  BY <1>1 DEF Settled, TaskRec
<1>2. CASE res = "skipRetry"
  BY <1>2 DEF Settled, TaskRec
<1>3. CASE res = "rateLimited"
  BY <1>3 DEF Settled, TaskRec
<1>4. CASE res \notin {"ok", "skipRetry", "rateLimited"}
  BY <1>4, RetriedType DEF Settled
<1> QED BY <1>1, <1>2, <1>3, <1>4

(* Replacing one handler's state by a typed one keeps all of them typed. *)
LEMMA WorkerUpdate ==
  ASSUME TypeOK, NEW w \in Workers, NEW t \in WorkerRec,
         t.pc # "idle" => t.m \in Merchants,
         worker' = [worker EXCEPT ![w] = t]
  PROVE  WorkersTyped'
  BY DEF TypeOK, WorkersTyped

(* The state of a handler that does not run is one of its states. *)
LEMMA IdleType == Idle \in WorkerRec
  BY DEF Idle, WorkerRec, Steps, MaybeCategory, Channels, NoChannel, Results

(* The handler goes on to its next step. *)
LEMMA GotoType ==
  ASSUME TypeOK, NEW w \in Workers, worker[w].pc # "idle", NEW p \in Steps,
         worker' = [worker EXCEPT ![w].pc = p]
  PROVE  WorkersTyped'
<1> DEFINE t == [worker[w] EXCEPT !.pc = p]
<1>1. worker \in [Workers -> WorkerRec] /\ worker[w].m \in Merchants
  BY DEF TypeOK
<1>2. t \in WorkerRec /\ t.m = worker[w].m
  BY <1>1 DEF WorkerRec
<1>3. worker' = [worker EXCEPT ![w] = t]
  BY <1>1
<1> QED BY <1>1, <1>2, <1>3, WorkerUpdate

(* The handler goes on with the id of the channel it created. *)
LEMMA GotoChannelType ==
  ASSUME TypeOK, NEW w \in Workers, worker[w].pc # "idle", NEW p \in Steps,
         NEW k \in Channels,
         worker' = [worker EXCEPT ![w].pc = p, ![w].channel = k]
  PROVE  WorkersTyped'
<1> DEFINE t == [worker[w] EXCEPT !.pc = p, !.channel = k]
<1>1. worker \in [Workers -> WorkerRec] /\ worker[w].m \in Merchants
  BY DEF TypeOK
<1>2. t \in WorkerRec /\ t.m = worker[w].m
  BY <1>1 DEF WorkerRec
<1>3. worker' = [worker EXCEPT ![w] = t]
  BY <1>1
<1> QED BY <1>1, <1>2, <1>3, WorkerUpdate

(* The handler goes on with the category it chose. *)
LEMMA GotoCategoryType ==
  ASSUME TypeOK, NEW w \in Workers, worker[w].pc # "idle", NEW p \in Steps,
         NEW c \in MaybeCategory,
         worker' = [worker EXCEPT ![w].cat = c, ![w].pc = p]
  PROVE  WorkersTyped'
<1> DEFINE t == [worker[w] EXCEPT !.cat = c, !.pc = p]
<1>1. worker \in [Workers -> WorkerRec] /\ worker[w].m \in Merchants
  BY DEF TypeOK
<1>2. t \in WorkerRec /\ t.m = worker[w].m
  BY <1>1 DEF WorkerRec
<1>3. worker' = [worker EXCEPT ![w] = t]
  BY <1>1
<1> QED BY <1>1, <1>2, <1>3, WorkerUpdate

(* The handler returns. *)
LEMMA ResultType ==
  ASSUME TypeOK, NEW w \in Workers, worker[w].pc # "idle", NEW res \in Results,
         worker' = [worker EXCEPT ![w].pc = "return", ![w].result = res]
  PROVE  WorkersTyped'
<1> DEFINE t == [worker[w] EXCEPT !.pc = "return", !.result = res]
<1>1. worker \in [Workers -> WorkerRec] /\ worker[w].m \in Merchants
  BY DEF TypeOK
<1>2. t \in WorkerRec /\ t.m = worker[w].m
  BY <1>1 DEF WorkerRec, Steps
<1>3. worker' = [worker EXCEPT ![w] = t]
  BY <1>1
<1> QED BY <1>1, <1>2, <1>3, WorkerUpdate

(* A return keeps the handlers and the lock typed, released or not. *)
LEMMA ReturnType ==
  ASSUME TypeOK, NEW w \in Workers, worker[w].pc # "idle", NEW res \in Results,
         Return(w, res)
  PROVE  WorkersTyped' /\ lock' \in [Merchants -> Workers \cup {None}]
<1>1. WorkersTyped'
  BY ResultType DEF Return
<1>2. lock' \in [Merchants -> Workers \cup {None}]
  BY DEF Return, TypeOK
<1> QED BY <1>1, <1>2

(* transitionJob writes only statuses of the job table. *)
LEMMA TransitionJobType ==
  ASSUME TypeOK, NEW m \in Merchants, NEW status \in JobStatuses,
         TransitionJob(m, status)
  PROVE  jobs' \in [Merchants -> JobStatuses] /\ faults' \in 0..MaxFaults
  BY DEF TypeOK, TransitionJob, Fault

-----------------------------------------------------------------------------
(* Type correctness *)

(* The initial state is typed. *)
LEMMA TypeInit == Init => TypeOK
  BY DEF Init, TypeOK, Idle, Channels, NoChannel, MaybeCategory, ACLStates,
         JobStatuses, Payloads, Steps, Results, RequestRec, SpaceRec,
         OutboxRec, RelayRec, TaskRec, WorkerRec

(* The steps of ProvisionSpace keep every row typed. *)
LEMMA TypeAPI ==
  ASSUME TypeOK, NEW m \in Merchants,
         \/ \E c \in MaybeCategory : CreateSpaceWithOutbox(m, c)
         \/ UpdateOutboxPayload(m) \/ CreateJob(m) \/ APICrash(m)
  PROVE  TypeOK'
<1>0. /\ request[m] \in RequestRec /\ space[m] \in SpaceRec
      /\ outbox[m] \in OutboxRec
  BY DEF TypeOK
<1>1. ASSUME NEW c \in MaybeCategory, CreateSpaceWithOutbox(m, c)
      PROVE  TypeOK'
  <2>1. [space[m] EXCEPT !.acl = "pending", !.category = c] \in SpaceRec
    BY <1>0 DEF SpaceRec, ACLStates
  <2>2. space' = [space EXCEPT ![m] =
                    [space[m] EXCEPT !.acl = "pending", !.category = c]]
    BY <1>1 DEF CreateSpaceWithOutbox, TypeOK
  <2>3. [outbox[m] EXCEPT !.payload = "placeholder"] \in OutboxRec
    BY <1>0 DEF OutboxRec, Payloads
  <2>4. [pc |-> "patch", cat |-> c] \in RequestRec
    BY DEF RequestRec
  <2>5. space' \in [Merchants -> SpaceRec]
    BY <2>1, <2>2 DEF TypeOK
  <2>6. outbox' \in [Merchants -> OutboxRec]
    BY <1>1, <2>3 DEF CreateSpaceWithOutbox, TypeOK
  <2>7. request' \in [Merchants -> RequestRec]
    BY <1>1, <2>4 DEF CreateSpaceWithOutbox, TypeOK
  <2>8. UNCHANGED <<stamped, jobs, relay, task, lock, worker, created,
                    agentAllow, faults>>
    BY <1>1 DEF CreateSpaceWithOutbox, runVars
  <2> QED BY <2>5, <2>6, <2>7, <2>8 DEF TypeOK
<1>2. ASSUME NEW p \in {"job", "done"},
             request' = [request EXCEPT ![m].pc = p]
      PROVE  request' \in [Merchants -> RequestRec]
  <2>1. [request[m] EXCEPT !.pc = p] \in RequestRec
    BY <1>0 DEF RequestRec
  <2> QED BY <1>2, <2>1 DEF TypeOK
<1>3. CASE UpdateOutboxPayload(m)
  <2>1. request' \in [Merchants -> RequestRec]
    BY <1>2, <1>3 DEF UpdateOutboxPayload
  <2>2. [outbox[m] EXCEPT !.payload = "complete", !.cat = request[m].cat]
          \in OutboxRec
    BY <1>0 DEF OutboxRec, RequestRec, Payloads
  <2>3. outbox' \in [Merchants -> OutboxRec]
    BY <1>3, <2>2 DEF UpdateOutboxPayload, TypeOK
  <2> QED BY <1>3, <2>1, <2>3 DEF UpdateOutboxPayload, TypeOK, runVars, Fault
<1>4. CASE CreateJob(m)
  <2>1. request' \in [Merchants -> RequestRec]
    BY <1>2, <1>4 DEF CreateJob
  <2>2. jobs' \in [Merchants -> JobStatuses]
    BY <1>4 DEF CreateJob, TypeOK, JobStatuses
  <2> QED BY <1>4, <2>1, <2>2 DEF CreateJob, TypeOK, runVars, Fault
<1>5. CASE APICrash(m)
  <2>1. request' \in [Merchants -> RequestRec]
    BY <1>2, <1>5 DEF APICrash
  <2> QED BY <1>5, <2>1 DEF APICrash, TypeOK, runVars, Fault
<1> QED BY <1>1, <1>3, <1>4, <1>5

(* The steps of a relay keep its batch and the tasks typed. *)
LEMMA TypeRelay ==
  ASSUME TypeOK, NEW r \in Relays, RelayStep(r) \/ RelayCrash(r)
  PROVE  TypeOK'
<1>0. /\ relay[r] \in RelayRec
      /\ relay[r].rows \in SUBSET Row /\ relay[r].sent \in SUBSET Merchants
  BY DEF TypeOK, RelayRec
<1>1. CASE ListPendingOutbox(r)
  <2>1. PendingRows \in SUBSET Row
    BY DEF TypeOK, PendingRows, Row, OutboxRec
  <2>2. [relay[r] EXCEPT !.rows = PendingRows] \in RelayRec
    BY <1>0, <2>1 DEF RelayRec
  <2> QED BY <1>1, <2>2 DEF ListPendingOutbox, TypeOK, runVars
<1>2. ASSUME NEW row \in relay[r].rows, EnqueueRow(r, row)
      PROVE  TypeOK'
  <2>0. row.m \in Merchants /\ row.payload \in Payloads
        /\ row.cat \in MaybeCategory
    BY <1>0 DEF Row
  <2>1. [state |-> "pending", payload |-> row.payload, cat |-> row.cat,
         owner |-> None, retried |-> 0] \in TaskRec
    BY <2>0 DEF TaskRec
  <2>2. task' \in [Merchants -> TaskRec]
    BY <1>2, <2>0, <2>1 DEF EnqueueRow, TypeOK
  <2>3. /\ [relay[r] EXCEPT !.rows = @ \ {row}, !.sent = @ \cup {row.m}]
             \in RelayRec
        /\ [relay[r] EXCEPT !.rows = @ \ {row}] \in RelayRec
    BY <1>0, <2>0 DEF RelayRec
  <2>4. \/ relay' = [relay EXCEPT ![r] =
             [relay[r] EXCEPT !.rows = @ \ {row}, !.sent = @ \cup {row.m}]]
        \/ relay' = [relay EXCEPT ![r] =
             [relay[r] EXCEPT !.rows = @ \ {row}]]
    BY <1>2 DEF EnqueueRow, TypeOK
  <2>5. relay' \in [Relays -> RelayRec]
    BY <2>3, <2>4 DEF TypeOK
  <2> QED BY <1>2, <2>2, <2>5 DEF EnqueueRow, TypeOK, runVars, Fault
<1>3. CASE StampOutboxEnqueued(r)
  <2>1. [relay[r] EXCEPT !.sent = {}] \in RelayRec
    BY <1>0 DEF RelayRec
  <2> QED BY <1>0, <1>3, <2>1 DEF StampOutboxEnqueued, TypeOK, runVars, Fault
<1>4. CASE RelayCrash(r)
  <2>1. [rows |-> {}, sent |-> {}] \in RelayRec
    BY DEF RelayRec
  <2> QED BY <1>4, <2>1 DEF RelayCrash, TypeOK, runVars, Fault
<1> QED BY <1>1, <1>2, <1>3, <1>4 DEF RelayStep

(* A task that starts gives its handler a merchant and a category. *)
LEMMA TypeStart ==
  ASSUME TypeOK, NEW w \in Workers, NEW m \in Merchants, StartTask(w, m)
  PROVE  TypeOK'
<1>1. task[m] \in TaskRec /\ task[m].cat \in MaybeCategory
  BY DEF TypeOK, TaskRec
<1>2. [task[m] EXCEPT !.state = "active", !.owner = w] \in TaskRec
  BY <1>1 DEF TaskRec
<1>3. task' = [task EXCEPT ![m] =
                 [task[m] EXCEPT !.state = "active", !.owner = w]]
  BY DEF StartTask, TypeOK
<1>4. task' \in [Merchants -> TaskRec]
  BY <1>2, <1>3 DEF TypeOK
<1> DEFINE t == [Idle EXCEPT !.pc = "acquire", !.m = m, !.cat = task[m].cat]
           u == [Idle EXCEPT !.pc = "return", !.m = m, !.result = "skipRetry"]
<1>5. t \in WorkerRec /\ t.m = m /\ u \in WorkerRec /\ u.m = m
  BY <1>1, IdleType DEF WorkerRec, Steps, Results
<1>6. worker' = [worker EXCEPT ![w] = t] \/ worker' = [worker EXCEPT ![w] = u]
  BY DEF StartTask
<1>7. WorkersTyped'
  BY <1>5, <1>6, WorkerUpdate
<1>8. jobs' \in [Merchants -> JobStatuses] /\ faults' \in 0..MaxFaults
  <2>1. CASE TransitionJob(m, "active")
    BY <2>1, TransitionJobType DEF JobStatuses
  <2>2. CASE UNCHANGED <<jobs, faults>>
    BY <2>2 DEF TypeOK
  <2> QED BY <2>1, <2>2 DEF StartTask
<1>9. UNCHANGED <<request, outbox, stamped, relay, space, lock, created,
                  agentAllow>>
  BY DEF StartTask, dispatchVars
<1> QED BY <1>4, <1>7, <1>8, <1>9 DEF TypeOK, WorkersTyped

(* The category of a run is that of its payload or the default. *)
LEMMA CategoryOfType ==
  ASSUME TypeOK, NEW w \in Workers PROVE CategoryOf(w) \in MaybeCategory
  BY DEF TypeOK, WorkerRec, CategoryOf, MaybeCategory

(* Failures are counted up to their bound. *)
LEMMA FaultType == ASSUME TypeOK, Fault PROVE faults' \in 0..MaxFaults
  BY DEF TypeOK, Fault

(* The steps of provision_space, its end and its crash keep the types. *)
LEMMA TypeHandler ==
  ASSUME TypeOK, NEW w \in Workers, HandlerStep(w) \/ WorkerCrash(w)
  PROVE  TypeOK'
<1> DEFINE m == worker[w].m
<1>0. /\ worker[w].pc # "idle" /\ m \in Merchants
      /\ worker[w] \in WorkerRec
      /\ worker[w].cat \in MaybeCategory /\ worker[w].channel \in Channels
      /\ worker[w].result \in Results
  BY DEF TypeOK, WorkerRec, HandlerStep, AcquireMerchant, LoadSpace,
         CreateChannel, ApplyAgentAllow, PersistChannel, CompleteJob,
         MarkSpace, ArchiveJob, FinishTask, WorkerCrash
<1>1. CASE AcquireMerchant(w)
  <2>1. WorkersTyped'
    BY <1>0, <1>1, GotoType, ResultType DEF AcquireMerchant, Steps, Results
  <2>2. lock' \in [Merchants -> Workers \cup {None}]
    BY <1>0, <1>1 DEF AcquireMerchant, TypeOK
  <2>3. faults' \in 0..MaxFaults
    BY <1>1, FaultType DEF AcquireMerchant, TypeOK
  <2>4. UNCHANGED <<request, outbox, stamped, relay, space, jobs, task,
                    created, agentAllow>>
    BY <1>1 DEF AcquireMerchant, dispatchVars
  <2> QED BY <2>1, <2>2, <2>3, <2>4 DEF TypeOK, WorkersTyped
<1>2. CASE LoadSpace(w)
  <2>1. WorkersTyped' /\ lock' \in [Merchants -> Workers \cup {None}]
    <3>1. CASE Return(w, "ok") \/ Return(w, "retry")
      BY <1>0, <3>1, ReturnType DEF Results
    <3>2. CASE /\ UNCHANGED lock
               /\ worker' = [worker EXCEPT
                    ![w].cat = CategoryOf(w),
                    ![w].pc = IF CategoryOf(w) = None THEN "markSpace"
                              ELSE "create"]
      <4>1. (IF CategoryOf(w) = None THEN "markSpace" ELSE "create") \in Steps
        BY DEF Steps
      <4>2. WorkersTyped'
        BY <1>0, <3>2, <4>1, GotoCategoryType, CategoryOfType
      <4> QED BY <3>2, <4>2 DEF TypeOK
    <3> QED BY <1>2, <3>1, <3>2 DEF LoadSpace
  <2>2. faults' \in 0..MaxFaults
    BY <1>2, FaultType DEF LoadSpace, TypeOK
  <2>3. UNCHANGED <<request, outbox, stamped, relay, space, jobs, task,
                    created, agentAllow>>
    BY <1>2 DEF LoadSpace, dispatchVars
  <2> QED BY <2>1, <2>2, <2>3 DEF TypeOK, WorkersTyped
<1>3. CASE CreateChannel(w)
  <2>1. created[m] < MaxChannels => created[m] + 1 \in Channels
    BY <1>0 DEF TypeOK, Channels
  <2>2. created' \in [Merchants -> Channels]
    BY <1>0, <1>3, <2>1 DEF CreateChannel, TypeOK
  <2>3. WorkersTyped' /\ lock' \in [Merchants -> Workers \cup {None}]
    <3>1. CASE Return(w, "rateLimited")
      BY <1>0, <3>1, ReturnType DEF Results
    <3>2. CASE /\ UNCHANGED lock
               /\ created[m] < MaxChannels
               /\ worker' = [worker EXCEPT ![w].pc = "allow",
                                           ![w].channel = created[m] + 1]
      <4>1. WorkersTyped'
        BY <1>0, <2>1, <3>2, GotoChannelType DEF Steps
      <4> QED BY <3>2, <4>1 DEF TypeOK
    <3>3. CASE /\ UNCHANGED lock
               /\ worker' = [worker EXCEPT ![w].pc = "markSpace"]
      <4>1. WorkersTyped'
        BY <1>0, <3>3, GotoType DEF Steps
      <4> QED BY <3>3, <4>1 DEF TypeOK
    <3> QED BY <1>3, <3>1, <3>2, <3>3 DEF CreateChannel
  <2>4. faults' \in 0..MaxFaults
    BY <1>3, FaultType DEF CreateChannel, TypeOK
  <2>5. UNCHANGED <<request, outbox, stamped, relay, space, jobs, task,
                    agentAllow>>
    BY <1>3 DEF CreateChannel, dispatchVars
  <2> QED BY <2>2, <2>3, <2>4, <2>5 DEF TypeOK, WorkersTyped
<1>4. CASE ApplyAgentAllow(w)
  <2>1. agentAllow' \in SUBSET MaybeCategory
    BY <1>0, <1>4 DEF ApplyAgentAllow, TypeOK
  <2>2. WorkersTyped' /\ lock' \in [Merchants -> Workers \cup {None}]
    <3>1. CASE Return(w, "rateLimited")
      BY <1>0, <3>1, ReturnType DEF Results
    <3>2. ASSUME NEW p \in {"persist", "markSpace"}, UNCHANGED lock,
                 worker' = [worker EXCEPT ![w].pc = p]
          PROVE  WorkersTyped' /\ lock' \in [Merchants -> Workers \cup {None}]
      <4>1. WorkersTyped'
        BY <1>0, <3>2, GotoType DEF Steps
      <4> QED BY <3>2, <4>1 DEF TypeOK
    <3> QED BY <1>4, <3>1, <3>2 DEF ApplyAgentAllow
  <2>3. faults' \in 0..MaxFaults
    BY <1>4, FaultType DEF ApplyAgentAllow, TypeOK
  <2>4. UNCHANGED <<request, outbox, stamped, relay, space, jobs, task,
                    created>>
    BY <1>4 DEF ApplyAgentAllow, dispatchVars
  <2> QED BY <2>1, <2>2, <2>3, <2>4 DEF TypeOK, WorkersTyped
<1>5. CASE PersistChannel(w)
  <2>1. [acl |-> "applied", channel |-> worker[w].channel,
         category |-> worker[w].cat] \in SpaceRec
    BY <1>0 DEF SpaceRec, ACLStates
  <2>2. space' \in [Merchants -> SpaceRec]
    BY <1>0, <1>5, <2>1 DEF PersistChannel, TypeOK
  <2>3. WorkersTyped' /\ lock' \in [Merchants -> Workers \cup {None}]
    <3>1. CASE Return(w, "retry")
      BY <1>0, <3>1, ReturnType DEF Results
    <3>2. CASE UNCHANGED lock /\ worker' = [worker EXCEPT ![w].pc = "complete"]
      <4>1. WorkersTyped'
        BY <1>0, <3>2, GotoType DEF Steps
      <4> QED BY <3>2, <4>1 DEF TypeOK
    <3> QED BY <1>5, <3>1, <3>2 DEF PersistChannel
  <2>4. faults' \in 0..MaxFaults
    BY <1>5, FaultType DEF PersistChannel, TypeOK
  <2>5. UNCHANGED <<request, outbox, stamped, relay, jobs, task, created,
                    agentAllow>>
    BY <1>5 DEF PersistChannel, dispatchVars
  <2> QED BY <2>2, <2>3, <2>4, <2>5 DEF TypeOK, WorkersTyped
<1>6. ASSUME NEW status \in JobStatuses, NEW res \in Results,
             TransitionJob(m, status), Return(w, res),
             UNCHANGED <<dispatchVars, space, task, created, agentAllow>>
      PROVE  TypeOK'
  <2>1. jobs' \in [Merchants -> JobStatuses] /\ faults' \in 0..MaxFaults
    BY <1>0, <1>6, TransitionJobType
  <2>2. WorkersTyped' /\ lock' \in [Merchants -> Workers \cup {None}]
    BY <1>0, <1>6, ReturnType
  <2> QED BY <1>6, <2>1, <2>2 DEF TypeOK, WorkersTyped, dispatchVars
<1>7. CASE CompleteJob(w)
  BY <1>6, <1>7 DEF CompleteJob, JobStatuses, Results
<1>8. CASE MarkSpace(w)
  <2> DEFINE a == IF worker[w].channel = NoChannel THEN "failed"
                  ELSE "degraded"
  <2>0. space[m] \in SpaceRec /\ a \in ACLStates
    BY <1>0 DEF TypeOK, ACLStates
  <2>1. [space[m] EXCEPT !.acl = a] \in SpaceRec
    <3> HIDE DEF a, m
    <3> QED BY <2>0 DEF SpaceRec
  <2>2. space' \in [Merchants -> SpaceRec]
    BY <1>0, <1>8, <2>1 DEF MarkSpace, TypeOK
  <2>3. WorkersTyped'
    BY <1>0, <1>8, GotoType DEF MarkSpace, Steps
  <2>4. faults' \in 0..MaxFaults
    BY <1>8, FaultType DEF MarkSpace, TypeOK
  <2>5. UNCHANGED <<request, outbox, stamped, relay, jobs, task, lock,
                    created, agentAllow>>
    BY <1>8 DEF MarkSpace, dispatchVars
  <2> QED BY <2>2, <2>3, <2>4, <2>5 DEF TypeOK, WorkersTyped
<1>9. CASE ArchiveJob(w)
  BY <1>6, <1>9 DEF ArchiveJob, JobStatuses, Results
<1>10. WorkersTyped' \/ worker' # [worker EXCEPT ![w] = Idle]
  <2>1. Idle.pc = "idle"
    BY DEF Idle
  <2> QED BY <2>1, IdleType, WorkerUpdate
<1>11. CASE FinishTask(w)
  <2>1. Settled(task[m], worker[w].result) \in TaskRec
    BY <1>0, SettledType DEF TypeOK
  <2>2. task' \in [Merchants -> TaskRec]
    BY <1>0, <1>11, <2>1 DEF FinishTask, TypeOK
  <2>3. UNCHANGED <<request, outbox, stamped, relay, space, jobs, lock,
                    created, agentAllow, faults>> /\ WorkersTyped'
    BY <1>10, <1>11 DEF FinishTask, dispatchVars
  <2> QED BY <2>2, <2>3 DEF TypeOK, WorkersTyped
<1>12. CASE WorkerCrash(w)
  BY <1>10, <1>12 DEF WorkerCrash, TypeOK, WorkersTyped, dispatchVars, Fault
<1> QED BY <1>1, <1>2, <1>3, <1>4, <1>5, <1>7, <1>8, <1>9, <1>11, <1>12
        DEF HandlerStep

(* So do a lost lease and an expired lock. *)
LEMMA TypeExpiry ==
  ASSUME TypeOK, NEW m \in Merchants, LeaseExpires(m) \/ LockExpires(m)
  PROVE  TypeOK'
<1>1. CASE LeaseExpires(m)
  <2>1. Retried(task[m]) \in TaskRec
    BY RetriedType DEF TypeOK
  <2>2. task' \in [Merchants -> TaskRec]
    BY <1>1, <2>1 DEF LeaseExpires, TypeOK
  <2> QED BY <1>1, <2>2 DEF LeaseExpires, TypeOK, dispatchVars, runVars, Fault
<1>2. CASE LockExpires(m)
  BY <1>2 DEF LockExpires, TypeOK, dispatchVars
<1> QED BY <1>1, <1>2

(* No step leaves the types. *)
LEMMA TypeNext == TypeOK /\ [Next]_vars => TypeOK'
<1>1. CASE TypeOK /\ UNCHANGED vars
  BY <1>1 DEF TypeOK, vars
<1> QED BY <1>1, TypeAPI, TypeRelay, TypeStart, TypeHandler, TypeExpiry
        DEF Next

(* Every reachable state is typed, for any number of merchants, goroutines, *)
(* relays and categories: in particular a handler of provision_space that   *)
(* is between two of its steps always has the merchant of its payload, and  *)
(* no path of retries exceeds the budget the queue was given.               *)
THEOREM TypeCorrect == Spec => []TypeOK
  BY TypeInit, TypeNext, PTL DEF Spec

-----------------------------------------------------------------------------
(* Effects: what each step of the handler does to its local state *)

(* Handler w is at step p, with category c and channel k; the merchant and  *)
(* the other handlers are as before.                                        *)
Moved(w, p, c, k) ==
    /\ worker'[w].pc = p /\ worker'[w].m = worker[w].m
    /\ worker'[w].cat = c /\ worker'[w].channel = k
    /\ \A v \in Workers \ {w} : worker'[v] = worker[v]

(* A step that only changes the program counter. *)
LEMMA GotoMoves ==
  ASSUME TypeOK, NEW w \in Workers, NEW p,
         worker' = [worker EXCEPT ![w].pc = p]
  PROVE  Moved(w, p, worker[w].cat, worker[w].channel)
<1>1. worker \in [Workers -> WorkerRec] /\ worker[w] \in WorkerRec
  BY DEF TypeOK
<1> QED BY <1>1 DEF Moved, WorkerRec

(* The step that keeps the id of the channel Discord created. *)
LEMMA GotoChannelMoves ==
  ASSUME TypeOK, NEW w \in Workers, NEW p, NEW k,
         worker' = [worker EXCEPT ![w].pc = p, ![w].channel = k]
  PROVE  Moved(w, p, worker[w].cat, k)
<1>1. worker \in [Workers -> WorkerRec] /\ worker[w] \in WorkerRec
  BY DEF TypeOK
<1> QED BY <1>1 DEF Moved, WorkerRec

(* The step that chooses the category. *)
LEMMA GotoCategoryMoves ==
  ASSUME TypeOK, NEW w \in Workers, NEW p, NEW c,
         worker' = [worker EXCEPT ![w].cat = c, ![w].pc = p]
  PROVE  Moved(w, p, c, worker[w].channel)
<1>1. worker \in [Workers -> WorkerRec] /\ worker[w] \in WorkerRec
  BY DEF TypeOK
<1> QED BY <1>1 DEF Moved, WorkerRec

(* A return, with or without the release of the lock. *)
LEMMA ResultMoves ==
  ASSUME TypeOK, NEW w \in Workers, NEW res,
         worker' = [worker EXCEPT ![w].pc = "return", ![w].result = res]
  PROVE  Moved(w, "return", worker[w].cat, worker[w].channel)
<1>1. worker \in [Workers -> WorkerRec] /\ worker[w] \in WorkerRec
  BY DEF TypeOK
<1> QED BY <1>1 DEF Moved, WorkerRec

(* A handler that ends, or whose process dies, is idle. *)
LEMMA IdleMoves ==
  ASSUME TypeOK, NEW w \in Workers, worker' = [worker EXCEPT ![w] = Idle]
  PROVE  /\ worker'[w].pc = "idle"
         /\ \A v \in Workers \ {w} : worker'[v] = worker[v]
  BY DEF TypeOK, Idle

(* A handler that starts is at its first step, or already returns. *)
LEMMA StartMoves ==
  ASSUME TypeOK, NEW w \in Workers, NEW m \in Merchants, StartTask(w, m)
  PROVE  /\ worker'[w].pc \in {"acquire", "return"} /\ worker'[w].m = m
         /\ \A v \in Workers \ {w} : worker'[v] = worker[v]
<1>1. worker \in [Workers -> WorkerRec]
  BY DEF TypeOK
<1> QED BY <1>1 DEF StartTask, Idle

(* The handler's steps, as moves: which steps follow which, and with what   *)
(* local state.                                                             *)
LEMMA HandlerMoves ==
  ASSUME TypeOK, NEW w \in Workers
  PROVE  /\ AcquireMerchant(w) => \E p \in {"load", "return"} :
              Moved(w, p, worker[w].cat, worker[w].channel)
         /\ LoadSpace(w) =>
              \/ Moved(w, "return", worker[w].cat, worker[w].channel)
              \/ /\ ~(space[worker[w].m].channel # NoChannel
                      /\ space[worker[w].m].acl = "applied")
                 /\ \/ Moved(w, "markSpace", CategoryOf(w), worker[w].channel)
                    \/ /\ CategoryOf(w) # None
                       /\ Moved(w, "create", CategoryOf(w), worker[w].channel)
         /\ CreateChannel(w) =>
              \/ /\ Moved(w, "allow", worker[w].cat, created[worker[w].m] + 1)
                 /\ created' = [created EXCEPT ![worker[w].m] = @ + 1]
              \/ \E p \in {"return", "markSpace"} :
                   Moved(w, p, worker[w].cat, worker[w].channel)
         /\ ApplyAgentAllow(w) =>
              \/ /\ Moved(w, "persist", worker[w].cat, worker[w].channel)
                 /\ worker[w].cat \in agentAllow'
              \/ \E p \in {"return", "markSpace"} :
                   Moved(w, p, worker[w].cat, worker[w].channel)
         /\ PersistChannel(w) =>
              \/ /\ Moved(w, "complete", worker[w].cat, worker[w].channel)
                 /\ space' = [space EXCEPT ![worker[w].m] =
                      [acl |-> "applied", channel |-> worker[w].channel,
                       category |-> worker[w].cat]]
              \/ /\ Moved(w, "return", worker[w].cat, worker[w].channel)
                 /\ space' = space
         /\ MarkSpace(w) =>
              Moved(w, "archiveJob", worker[w].cat, worker[w].channel)
         /\ CompleteJob(w) \/ ArchiveJob(w) =>
              Moved(w, "return", worker[w].cat, worker[w].channel)
<1>1. ASSUME NEW res, Return(w, res)
      PROVE  Moved(w, "return", worker[w].cat, worker[w].channel)
  BY <1>1, ResultMoves DEF Return
<1>2. ASSUME AcquireMerchant(w)
      PROVE  \E p \in {"load", "return"} :
               Moved(w, p, worker[w].cat, worker[w].channel)
  BY <1>2, GotoMoves, ResultMoves DEF AcquireMerchant
<1>3. ASSUME LoadSpace(w),
             ~Moved(w, "return", worker[w].cat, worker[w].channel)
      PROVE  /\ ~(space[worker[w].m].channel # NoChannel
                  /\ space[worker[w].m].acl = "applied")
             /\ \/ Moved(w, "markSpace", CategoryOf(w), worker[w].channel)
                \/ /\ CategoryOf(w) # None
                   /\ Moved(w, "create", CategoryOf(w), worker[w].channel)
  <2>1. /\ ~(space[worker[w].m].channel # NoChannel
             /\ space[worker[w].m].acl = "applied")
        /\ worker' = [worker EXCEPT
                        ![w].cat = CategoryOf(w),
                        ![w].pc = IF CategoryOf(w) = None THEN "markSpace"
                                  ELSE "create"]
    BY <1>1, <1>3 DEF LoadSpace
  <2>2. Moved(w, IF CategoryOf(w) = None THEN "markSpace" ELSE "create",
              CategoryOf(w), worker[w].channel)
    BY <2>1, GotoCategoryMoves
  <2> QED BY <2>1, <2>2
<1>4. ASSUME CreateChannel(w)
      PROVE  \/ /\ Moved(w, "allow", worker[w].cat, created[worker[w].m] + 1)
                /\ created' = [created EXCEPT ![worker[w].m] = @ + 1]
             \/ \E p \in {"return", "markSpace"} :
                  Moved(w, p, worker[w].cat, worker[w].channel)
  BY <1>1, <1>4, GotoMoves, GotoChannelMoves DEF CreateChannel
<1>5. ASSUME ApplyAgentAllow(w)
      PROVE  \/ /\ Moved(w, "persist", worker[w].cat, worker[w].channel)
                /\ worker[w].cat \in agentAllow'
             \/ \E p \in {"return", "markSpace"} :
                  Moved(w, p, worker[w].cat, worker[w].channel)
  BY <1>1, <1>5, GotoMoves DEF ApplyAgentAllow
<1>6. ASSUME PersistChannel(w)
      PROVE  \/ /\ Moved(w, "complete", worker[w].cat, worker[w].channel)
                /\ space' = [space EXCEPT ![worker[w].m] =
                     [acl |-> "applied", channel |-> worker[w].channel,
                      category |-> worker[w].cat]]
             \/ /\ Moved(w, "return", worker[w].cat, worker[w].channel)
                /\ space' = space
  BY <1>1, <1>6, GotoMoves DEF PersistChannel
<1>7. ASSUME MarkSpace(w)
      PROVE  Moved(w, "archiveJob", worker[w].cat, worker[w].channel)
  BY <1>7, GotoMoves DEF MarkSpace
<1>8. ASSUME CompleteJob(w) \/ ArchiveJob(w)
      PROVE  Moved(w, "return", worker[w].cat, worker[w].channel)
  BY <1>1, <1>8 DEF CompleteJob, ArchiveJob
<1> QED BY <1>2, <1>3, <1>4, <1>5, <1>6, <1>7, <1>8

-----------------------------------------------------------------------------
(* Inductive invariants *)

(* AppliedIsBacked, with what a handler has established at each step before *)
(* it persists: its category, its channel, the category's Agent allow.      *)
BackedInv ==
    /\ AppliedIsBacked
    /\ \A w \in Workers :
         /\ worker[w].pc \in {"create", "allow", "persist"} =>
              worker[w].cat # None
         /\ worker[w].pc \in {"allow", "persist"} =>
              worker[w].channel \in 1..created[worker[w].m]
         /\ worker[w].pc = "persist" => worker[w].cat \in agentAllow

(* StampedWasEnqueued, with the rows a relay is about to stamp. *)
RelayInv ==
    /\ StampedWasEnqueued
    /\ \A r \in Relays : \A m \in relay[r].sent : task[m].state # "absent"

(* A handler that runs owns the active task: with leases that only dead     *)
(* workers lose, at most one handler runs for a merchant.                   *)
OwnsTask ==
    \A w \in Workers : worker[w].pc # "idle" =>
        /\ task[worker[w].m].state = "active"
        /\ task[worker[w].m].owner = w

(* A request, and a row of outbox wherever it has got to, has its space. *)
RowsHaveSpace ==
    /\ \A m \in Merchants :
         /\ request[m].pc # "idle" => space[m].acl # "absent"
         /\ outbox[m].payload # "absent" => space[m].acl # "absent"
         /\ task[m].state # "absent" => space[m].acl # "absent"
    /\ \A r \in Relays : \A row \in relay[r].rows :
         space[row.m].acl # "absent"

(* What a handler has learnt of its space stays true while it runs. *)
LoadedIsCurrent ==
    \A w \in Workers :
        /\ worker[w].pc \in {"create", "allow", "persist", "markSpace"} =>
             space[worker[w].m].acl # "applied"
        /\ worker[w].pc = "complete" => space[worker[w].m].acl = "applied"

RunInv == OwnsTask /\ RowsHaveSpace /\ LoadedIsCurrent /\ CompletedMeansApplied

-----------------------------------------------------------------------------
(* A space that reads applied is backed by Discord *)

(* What a handler knows at its step, in the terms of BackedInv. *)
Knows(w) ==
    /\ worker[w].pc \in {"create", "allow", "persist"} => worker[w].cat # None
    /\ worker[w].pc \in {"allow", "persist"} =>
         worker[w].channel \in 1..created[worker[w].m]
    /\ worker[w].pc = "persist" => worker[w].cat \in agentAllow

(* Channels and Agent allows are only added: what the other handlers know,  *)
(* and what backs the applied spaces, survives a step.                      *)
LEMMA KnowsStable ==
  ASSUME TypeOK, TypeOK', NEW w \in Workers, Knows(w),
         \A m \in Merchants : created[m] <= created'[m],
         agentAllow \subseteq agentAllow',
         worker'[w] = worker[w]
  PROVE  Knows(w)'
<1>1. worker[w].pc # "idle" => worker[w].m \in Merchants
  BY DEF TypeOK
<1>2. \A m \in Merchants : created[m] \in Nat /\ created'[m] \in Nat
  BY DEF TypeOK, Channels
<1> QED BY <1>1, <1>2 DEF Knows

(* An applied space stays backed, as long as its row is not rewritten. *)
LEMMA BackedStable ==
  ASSUME TypeOK, TypeOK', NEW m \in Merchants,
         space[m].acl = "applied" =>
           /\ space[m].channel \in 1..created[m]
           /\ space[m].category \in agentAllow \ {None},
         created[m] <= created'[m],
         agentAllow \subseteq agentAllow',
         space'[m].acl = "applied" => space'[m] = space[m]
  PROVE  space'[m].acl = "applied" =>
           /\ space'[m].channel \in 1..created'[m]
           /\ space'[m].category \in agentAllow' \ {None}
<1>1. created[m] \in Nat /\ created'[m] \in Nat
  BY DEF TypeOK, Channels
<1> QED BY <1>1

(* No step removes a channel or an Agent allow. *)
LEMMA DiscordGrows ==
  ASSUME TypeOK, [Next]_vars
  PROVE  /\ \A m \in Merchants : created[m] <= created'[m]
         /\ agentAllow \subseteq agentAllow'
<1>0. /\ created \in [Merchants -> Channels] /\ Channels \subseteq Nat
      /\ \A m \in Merchants : created[m] <= created[m]
  BY DEF TypeOK, Channels
<1>1. ASSUME UNCHANGED <<created, agentAllow>>
      PROVE  /\ \A m \in Merchants : created[m] <= created'[m]
             /\ agentAllow \subseteq agentAllow'
  BY <1>0, <1>1
<1>2. ASSUME NEW w \in Workers, CreateChannel(w)
      PROVE  /\ \A m \in Merchants : created[m] <= created'[m]
             /\ agentAllow \subseteq agentAllow'
  BY <1>0, <1>2 DEF CreateChannel
<1>3. ASSUME NEW w \in Workers, ApplyAgentAllow(w)
      PROVE  /\ \A m \in Merchants : created[m] <= created'[m]
             /\ agentAllow \subseteq agentAllow'
  BY <1>0, <1>3 DEF ApplyAgentAllow
<1>4. ASSUME NEW m \in Merchants,
             \/ \E c \in MaybeCategory : CreateSpaceWithOutbox(m, c)
             \/ UpdateOutboxPayload(m) \/ CreateJob(m) \/ APICrash(m)
             \/ LeaseExpires(m) \/ LockExpires(m)
      PROVE  UNCHANGED <<created, agentAllow>>
  BY <1>4 DEF CreateSpaceWithOutbox, UpdateOutboxPayload, CreateJob, APICrash,
              LeaseExpires, LockExpires, runVars
<1>5. ASSUME NEW r \in Relays, RelayStep(r) \/ RelayCrash(r)
      PROVE  UNCHANGED <<created, agentAllow>>
  BY <1>5 DEF RelayStep, ListPendingOutbox, EnqueueRow, StampOutboxEnqueued,
              RelayCrash, runVars
<1>6. ASSUME NEW w \in Workers,
             \/ \E m \in Merchants : StartTask(w, m)
             \/ AcquireMerchant(w) \/ LoadSpace(w) \/ PersistChannel(w)
             \/ CompleteJob(w) \/ MarkSpace(w) \/ ArchiveJob(w)
             \/ FinishTask(w) \/ WorkerCrash(w)
      PROVE  UNCHANGED <<created, agentAllow>>
  BY <1>6 DEF StartTask, AcquireMerchant, LoadSpace, PersistChannel,
              CompleteJob, MarkSpace, ArchiveJob, FinishTask, WorkerCrash
<1>7. CASE UNCHANGED vars
  BY <1>1, <1>7 DEF vars
<1> QED BY <1>1, <1>2, <1>3, <1>4, <1>5, <1>6, <1>7 DEF Next, HandlerStep

(* Only PersistChannel makes a row read applied. *)
LEMMA AppliedByPersist ==
  ASSUME TypeOK, [Next]_vars, NEW m \in Merchants, space'[m] # space[m],
         space'[m].acl = "applied"
  PROVE  \E w \in Workers :
           /\ PersistChannel(w) /\ worker[w].m = m
           /\ space'[m] = [acl |-> "applied", channel |-> worker[w].channel,
                           category |-> worker[w].cat]
<1>0. space \in [Merchants -> SpaceRec]
  BY DEF TypeOK
<1>1. ~UNCHANGED space
  OBVIOUS
<1>2. ASSUME NEW n \in Merchants, NEW c \in MaybeCategory,
             CreateSpaceWithOutbox(n, c)
      PROVE  FALSE
  <2>1. space[n] \in SpaceRec
    BY <1>0
  <2>2. space'[n].acl = "pending"
    BY <1>0, <1>2, <2>1 DEF CreateSpaceWithOutbox, SpaceRec
  <2>3. \A k \in Merchants \ {n} : space'[k] = space[k]
    BY <1>0, <1>2 DEF CreateSpaceWithOutbox
  <2> QED BY <2>2, <2>3
<1>3. ASSUME NEW w \in Workers, MarkSpace(w)
      PROVE  FALSE
  <2>1. worker[w].m \in Merchants /\ space[worker[w].m] \in SpaceRec
    BY <1>3 DEF MarkSpace, TypeOK
  <2>2. space'[worker[w].m].acl \in {"failed", "degraded"}
    BY <1>0, <1>1, <1>3, <2>1 DEF MarkSpace, SpaceRec
  <2>3. \A k \in Merchants \ {worker[w].m} : space'[k] = space[k]
    BY <1>0, <1>1, <1>3 DEF MarkSpace
  <2> QED BY <2>2, <2>3
<1>4. ASSUME NEW w \in Workers, PersistChannel(w)
      PROVE  /\ worker[w].m = m
             /\ space'[m] = [acl |-> "applied", channel |-> worker[w].channel,
                             category |-> worker[w].cat]
  BY <1>0, <1>1, <1>4 DEF PersistChannel
<1>5. \A n \in Merchants : ~(\/ UpdateOutboxPayload(n) \/ CreateJob(n)
                             \/ APICrash(n) \/ LeaseExpires(n)
                             \/ LockExpires(n))
  BY <1>1 DEF UpdateOutboxPayload, CreateJob, APICrash, LeaseExpires,
              LockExpires
<1>6. \A r \in Relays : ~(RelayStep(r) \/ RelayCrash(r))
  BY <1>1 DEF RelayStep, ListPendingOutbox, EnqueueRow, StampOutboxEnqueued,
              RelayCrash
<1>7. \A w \in Workers :
        ~(\/ \E n \in Merchants : StartTask(w, n)
          \/ AcquireMerchant(w) \/ LoadSpace(w) \/ CreateChannel(w)
          \/ ApplyAgentAllow(w) \/ CompleteJob(w) \/ ArchiveJob(w)
          \/ FinishTask(w) \/ WorkerCrash(w))
  BY <1>1 DEF StartTask, AcquireMerchant, LoadSpace, CreateChannel,
              ApplyAgentAllow, CompleteJob, ArchiveJob, FinishTask, WorkerCrash
<1>8. ~UNCHANGED vars
  BY <1>1 DEF vars
<1> QED BY <1>2, <1>3, <1>4, <1>5, <1>6, <1>7, <1>8 DEF Next, HandlerStep

(* Initially no space is applied and no handler runs. *)
LEMMA BackedInit == Init => BackedInv
  BY DEF Init, BackedInv, AppliedIsBacked, Idle

(* No step of a handler loses what the handler needs at its next step. *)
LEMMA HandlerKnows ==
  ASSUME TypeOK, TypeOK', NEW w \in Workers, Knows(w),
         \A m \in Merchants : created[m] <= created'[m],
         \/ \E m \in Merchants : StartTask(w, m)
         \/ HandlerStep(w) \/ WorkerCrash(w)
  PROVE  Knows(w)'
<1> DEFINE m == worker[w].m
<1>0. created \in [Merchants -> Channels] /\ Channels \subseteq Nat
  BY DEF TypeOK, Channels
<1>1. ASSUME worker'[w].pc \notin {"create", "allow", "persist"}
      PROVE  Knows(w)'
  BY <1>1 DEF Knows
<1>2. CASE \E n \in Merchants : StartTask(w, n)
  BY <1>1, <1>2, StartMoves
<1>3. CASE FinishTask(w) \/ WorkerCrash(w)
  BY <1>1, <1>3, IdleMoves DEF FinishTask, WorkerCrash
<1>4. CASE AcquireMerchant(w) \/ CompleteJob(w) \/ ArchiveJob(w)
           \/ MarkSpace(w) \/ PersistChannel(w)
  BY <1>1, <1>4, HandlerMoves DEF Moved
<1>5. CASE LoadSpace(w)
  BY <1>5, HandlerMoves DEF Moved, Knows
<1>6. CASE CreateChannel(w)
  <2>1. worker[w].pc = "create" /\ m \in Merchants /\ created[m] \in Nat
    BY <1>0, <1>6 DEF CreateChannel, TypeOK
  <2>2. CASE Moved(w, "allow", worker[w].cat, created[m] + 1)
             /\ created' = [created EXCEPT ![m] = @ + 1]
    BY <1>0, <2>1, <2>2 DEF Moved, Knows
  <2> QED BY <1>1, <1>6, <2>2, HandlerMoves DEF Moved
<1>7. CASE ApplyAgentAllow(w)
  <2>1. worker[w].pc = "allow" /\ created' = created
    BY <1>7 DEF ApplyAgentAllow
  <2> QED BY <1>7, <2>1, HandlerMoves DEF Moved, Knows
<1> QED BY <1>2, <1>3, <1>4, <1>5, <1>6, <1>7 DEF HandlerStep

(* A step moves at most one handler. *)
LEMMA OneHandlerMoves ==
  ASSUME TypeOK, [Next]_vars
  PROVE  \/ UNCHANGED worker
         \/ \E w \in Workers :
              /\ \A v \in Workers \ {w} : worker'[v] = worker[v]
              /\ \/ \E m \in Merchants : StartTask(w, m)
                 \/ HandlerStep(w) \/ WorkerCrash(w)
<1>1. ASSUME NEW m \in Merchants,
             \/ \E c \in MaybeCategory : CreateSpaceWithOutbox(m, c)
             \/ UpdateOutboxPayload(m) \/ CreateJob(m) \/ APICrash(m)
             \/ LeaseExpires(m) \/ LockExpires(m)
      PROVE  UNCHANGED worker
  BY <1>1 DEF CreateSpaceWithOutbox, UpdateOutboxPayload, CreateJob, APICrash,
              LeaseExpires, LockExpires, runVars
<1>2. ASSUME NEW r \in Relays, RelayStep(r) \/ RelayCrash(r)
      PROVE  UNCHANGED worker
  BY <1>2 DEF RelayStep, ListPendingOutbox, EnqueueRow, StampOutboxEnqueued,
              RelayCrash, runVars
<1>3. ASSUME NEW w \in Workers,
             \/ \E m \in Merchants : StartTask(w, m)
             \/ HandlerStep(w) \/ WorkerCrash(w)
      PROVE  \A v \in Workers \ {w} : worker'[v] = worker[v]
  <2>1. CASE \E m \in Merchants : StartTask(w, m)
    BY <2>1, StartMoves
  <2>2. CASE FinishTask(w) \/ WorkerCrash(w)
    BY <2>2, IdleMoves DEF FinishTask, WorkerCrash
  <2>3. CASE HandlerStep(w) /\ ~FinishTask(w)
    BY <2>3, HandlerMoves DEF HandlerStep, Moved
  <2> QED BY <1>3, <2>1, <2>2, <2>3
<1>4. CASE UNCHANGED vars
  BY <1>4 DEF vars
<1> QED BY <1>1, <1>2, <1>3, <1>4 DEF Next

(* BackedInv is inductive. *)
LEMMA BackedNext == TypeOK /\ TypeOK' /\ BackedInv /\ [Next]_vars => BackedInv'
<1> SUFFICES ASSUME TypeOK, TypeOK', BackedInv, [Next]_vars PROVE BackedInv'
  OBVIOUS
<1>0. \A w \in Workers : Knows(w)
  BY DEF BackedInv, Knows
<1>1. \A w \in Workers : Knows(w)'
  <2>1. ASSUME NEW v \in Workers, worker'[v] = worker[v] PROVE Knows(v)'
    BY <1>0, <2>1, DiscordGrows, KnowsStable
  <2>2. ASSUME NEW w \in Workers,
               \/ \E m \in Merchants : StartTask(w, m)
               \/ HandlerStep(w) \/ WorkerCrash(w)
        PROVE  Knows(w)'
    BY <1>0, <2>2, DiscordGrows, HandlerKnows
  <2> QED BY <2>1, <2>2, OneHandlerMoves
<1>2. AppliedIsBacked'
  <2> SUFFICES ASSUME NEW m \in Merchants
               PROVE  (space[m].acl = "applied" =>
                         /\ space[m].channel \in 1..created[m]
                         /\ space[m].category \in agentAllow \ {None})'
    BY DEF AppliedIsBacked
  <2>1. CASE space'[m].acl = "applied" => space'[m] = space[m]
    BY <2>1, DiscordGrows, BackedStable DEF BackedInv, AppliedIsBacked
  <2>2. CASE space'[m].acl = "applied" /\ space'[m] # space[m]
    <3>1. PICK w \in Workers :
            /\ PersistChannel(w) /\ worker[w].m = m
            /\ space'[m] = [acl |-> "applied", channel |-> worker[w].channel,
                            category |-> worker[w].cat]
      BY <2>2, AppliedByPersist
    <3>2. /\ worker[w].pc = "persist"
          /\ created' = created /\ agentAllow' = agentAllow
      BY <3>1 DEF PersistChannel
    <3> QED BY <1>0, <3>1, <3>2 DEF Knows
  <2> QED BY <2>1, <2>2
<1> QED BY <1>1, <1>2 DEF BackedInv, Knows

(* Whatever the API, the relays, retries, crashes, expired leases and       *)
(* expired locks do, a space whose acl_state reads applied names a channel  *)
(* that Discord created for the merchant, under a real category that has    *)
(* the Agent allow.                                                         *)
THEOREM AppliedBacked == Spec => []AppliedIsBacked
<1>1. BackedInv => AppliedIsBacked
  BY DEF BackedInv
<1> QED BY <1>1, BackedInit, BackedNext, TypeCorrect, PTL DEF Spec

-----------------------------------------------------------------------------
(* The relay stamps only what reached the queue *)

(* Initially nothing is stamped. *)
LEMMA RelayInit == Init => RelayInv
  BY DEF Init, RelayInv, StampedWasEnqueued

(* A task that reached the queue never disappears from it. *)
LEMMA TaskStays ==
  ASSUME TypeOK, [Next]_vars, NEW m \in Merchants, task[m].state # "absent"
  PROVE  task'[m].state # "absent"
<1>0. task \in [Merchants -> TaskRec] /\ task[m] \in TaskRec
  BY DEF TypeOK
<1>1. ASSUME NEW t \in TaskRec
      PROVE  Retried(t).state # "absent"
  BY DEF Retried, TaskRec
<1>2. ASSUME NEW t \in TaskRec, NEW res
      PROVE  Settled(t, res).state # "absent"
  BY <1>1 DEF Settled, TaskRec
<1>3. ASSUME NEW n \in Merchants, LeaseExpires(n)
      PROVE  task'[m].state # "absent"
  BY <1>0, <1>1, <1>3 DEF LeaseExpires
<1>4. ASSUME NEW w \in Workers, FinishTask(w)
      PROVE  task'[m].state # "absent"
  BY <1>0, <1>2, <1>4 DEF FinishTask
<1>5. ASSUME NEW w \in Workers, NEW n \in Merchants, StartTask(w, n)
      PROVE  task'[m].state # "absent"
  <2>1. CASE n # m
    BY <1>0, <1>5, <2>1 DEF StartTask
  <2>2. CASE n = m
    BY <1>0, <1>5, <2>2 DEF StartTask, TaskRec
  <2> QED BY <2>1, <2>2
<1>6. ASSUME NEW r \in Relays, NEW row, EnqueueRow(r, row)
      PROVE  task'[m].state # "absent"
  BY <1>0, <1>6 DEF EnqueueRow
<1>7. ASSUME UNCHANGED task
      PROVE  task'[m].state # "absent"
  BY <1>7
<1>8. ASSUME NEW n \in Merchants,
             \/ \E c \in MaybeCategory : CreateSpaceWithOutbox(n, c)
             \/ UpdateOutboxPayload(n) \/ CreateJob(n) \/ APICrash(n)
             \/ LockExpires(n)
      PROVE  UNCHANGED task
  BY <1>8 DEF CreateSpaceWithOutbox, UpdateOutboxPayload, CreateJob, APICrash,
              LockExpires
<1>9. ASSUME NEW r \in Relays,
             \/ ListPendingOutbox(r) \/ StampOutboxEnqueued(r) \/ RelayCrash(r)
      PROVE  UNCHANGED task
  BY <1>9 DEF ListPendingOutbox, StampOutboxEnqueued, RelayCrash
<1>10. ASSUME NEW w \in Workers,
              WorkerCrash(w) \/ (HandlerStep(w) /\ ~FinishTask(w))
       PROVE  UNCHANGED task
  BY <1>10 DEF HandlerStep, AcquireMerchant, LoadSpace, CreateChannel,
       ApplyAgentAllow, PersistChannel, CompleteJob, MarkSpace, ArchiveJob,
       WorkerCrash
<1>11. CASE UNCHANGED vars
  BY <1>7, <1>11 DEF vars
<1> QED BY <1>3, <1>4, <1>5, <1>6, <1>7, <1>8, <1>9, <1>10, <1>11
        DEF Next, RelayStep

(* RelayInv is inductive. *)
LEMMA RelayNext == TypeOK /\ RelayInv /\ [Next]_vars => RelayInv'
<1> SUFFICES ASSUME TypeOK, RelayInv, [Next]_vars PROVE RelayInv'
  OBVIOUS
<1>0. /\ relay \in [Relays -> RelayRec] /\ stamped \subseteq Merchants
      /\ \A r \in Relays : /\ relay[r] \in RelayRec
                           /\ relay[r].sent \subseteq Merchants
  BY DEF TypeOK, RelayRec
<1>1. ASSUME \A m \in stamped' : m \in stamped
                 \/ \E r \in Relays : m \in relay[r].sent,
             \A r \in Relays : \A m \in relay'[r].sent :
                 \/ m \in relay[r].sent
                 \/ m \in Merchants /\ task'[m].state # "absent"
      PROVE  RelayInv'
  BY <1>0, <1>1, TaskStays DEF RelayInv, StampedWasEnqueued
<1>2. ASSUME NEW r \in Relays, NEW row \in relay[r].rows, EnqueueRow(r, row)
      PROVE  RelayInv'
  <2>1. row.m \in Merchants /\ task \in [Merchants -> TaskRec]
    BY <1>0 DEF RelayRec, Row, TypeOK
  <2>2. relay'[r].sent = relay[r].sent
        \/ /\ relay'[r].sent = relay[r].sent \cup {row.m}
           /\ task'[row.m].state # "absent"
    <3>1. CASE relay' = [relay EXCEPT ![r].rows = @ \ {row}]
      BY <1>0, <3>1 DEF RelayRec
    <3>2. CASE /\ relay' = [relay EXCEPT ![r].rows = @ \ {row},
                                         ![r].sent = @ \cup {row.m}]
               /\ task' = IF TaskIDInUse(row.m) THEN task
                          ELSE [task EXCEPT ![row.m] =
                                  [state |-> "pending",
                                   payload |-> row.payload,
                                   cat |-> row.cat, owner |-> None,
                                   retried |-> 0]]
      <4>1. relay'[r].sent = relay[r].sent \cup {row.m}
        BY <1>0, <3>2 DEF RelayRec
      <4>2. task'[row.m].state # "absent"
        BY <2>1, <3>2 DEF TaskIDInUse
      <4> QED BY <4>1, <4>2
    <3> QED BY <1>2, <3>1, <3>2 DEF EnqueueRow
  <2>3. \A q \in Relays \ {r} : relay'[q] = relay[q]
    BY <1>0, <1>2 DEF EnqueueRow
  <2>4. stamped' = stamped
    BY <1>2 DEF EnqueueRow
  <2> QED BY <1>1, <2>1, <2>2, <2>3, <2>4
<1>3. ASSUME NEW r \in Relays, ListPendingOutbox(r) PROVE RelayInv'
  <2>1. \A q \in Relays : relay'[q].sent = relay[q].sent
    BY <1>0, <1>3 DEF ListPendingOutbox, RelayRec
  <2> QED BY <1>1, <1>3, <2>1 DEF ListPendingOutbox
<1>4. ASSUME NEW r \in Relays, StampOutboxEnqueued(r) PROVE RelayInv'
  <2>1. \A q \in Relays : relay'[q].sent \subseteq relay[q].sent
    BY <1>0, <1>4 DEF StampOutboxEnqueued, RelayRec
  <2> QED BY <1>1, <1>4, <2>1 DEF StampOutboxEnqueued
<1>5. ASSUME NEW r \in Relays, RelayCrash(r) PROVE RelayInv'
  <2>1. \A q \in Relays : relay'[q].sent \subseteq relay[q].sent
    BY <1>0, <1>5 DEF RelayCrash
  <2> QED BY <1>1, <1>5, <2>1 DEF RelayCrash
<1>6. ASSUME UNCHANGED <<stamped, relay>> PROVE RelayInv'
  BY <1>1, <1>6
<1>7. ASSUME NEW m \in Merchants,
             \/ \E c \in MaybeCategory : CreateSpaceWithOutbox(m, c)
             \/ UpdateOutboxPayload(m) \/ CreateJob(m) \/ APICrash(m)
             \/ LeaseExpires(m) \/ LockExpires(m)
      PROVE  UNCHANGED <<stamped, relay>>
  BY <1>7 DEF CreateSpaceWithOutbox, UpdateOutboxPayload, CreateJob, APICrash,
              LeaseExpires, LockExpires, dispatchVars
<1>8. ASSUME NEW w \in Workers,
             \/ \E m \in Merchants : StartTask(w, m)
             \/ HandlerStep(w) \/ WorkerCrash(w)
      PROVE  UNCHANGED <<stamped, relay>>
  BY <1>8 DEF StartTask, HandlerStep, AcquireMerchant, LoadSpace,
       CreateChannel, ApplyAgentAllow, PersistChannel, CompleteJob, MarkSpace,
       ArchiveJob, FinishTask, WorkerCrash, dispatchVars
<1>9. CASE UNCHANGED vars
  BY <1>6, <1>9 DEF vars
<1> QED BY <1>2, <1>3, <1>4, <1>5, <1>6, <1>7, <1>8, <1>9 DEF Next, RelayStep

(* Any number of relays may read, enqueue and stamp the same rows, fail and *)
(* crash: a row with enqueued_at set has had its task in the queue, and the *)
(* task is still there, waiting, running or settled.                        *)
THEOREM StampedEnqueued == Spec => []StampedWasEnqueued
<1>1. RelayInv => StampedWasEnqueued
  BY DEF RelayInv
<1> QED BY <1>1, RelayInit, RelayNext, TypeCorrect, PTL DEF Spec

-----------------------------------------------------------------------------
(* With leases that only dead workers lose *)

(* The three ways a row of spaces changes. *)
LEMMA SpaceEffect ==
  ASSUME TypeOK, [Next]_vars, space' # space
  PROVE  \/ \E m \in Merchants :
              /\ space[m].acl = "absent" /\ space'[m].acl = "pending"
              /\ space'[m].channel = space[m].channel
              /\ \A n \in Merchants \ {m} : space'[n] = space[n]
              /\ UNCHANGED <<worker, jobs>>
         \/ \E w \in Workers :
              /\ PersistChannel(w)
              /\ space'[worker[w].m].acl = "applied"
              /\ space'[worker[w].m].channel = worker[w].channel
              /\ \A n \in Merchants \ {worker[w].m} : space'[n] = space[n]
              /\ Moved(w, "complete", worker[w].cat, worker[w].channel)
         \/ \E w \in Workers :
              /\ MarkSpace(w)
              /\ space'[worker[w].m].acl \in {"failed", "degraded"}
              /\ space'[worker[w].m].channel = space[worker[w].m].channel
              /\ \A n \in Merchants \ {worker[w].m} : space'[n] = space[n]
<1>0. space \in [Merchants -> SpaceRec]
  BY DEF TypeOK
<1>1. ASSUME NEW m \in Merchants, NEW c \in MaybeCategory,
             CreateSpaceWithOutbox(m, c)
      PROVE  /\ space[m].acl = "absent" /\ space'[m].acl = "pending"
             /\ space'[m].channel = space[m].channel
             /\ \A n \in Merchants \ {m} : space'[n] = space[n]
             /\ UNCHANGED <<worker, jobs>>
  <2>1. space[m] \in SpaceRec
    BY <1>0
  <2> QED BY <1>0, <1>1, <2>1 DEF CreateSpaceWithOutbox, SpaceRec, runVars
<1>2. ASSUME NEW w \in Workers, PersistChannel(w)
      PROVE  /\ space'[worker[w].m].acl = "applied"
             /\ space'[worker[w].m].channel = worker[w].channel
             /\ \A n \in Merchants \ {worker[w].m} : space'[n] = space[n]
             /\ Moved(w, "complete", worker[w].cat, worker[w].channel)
  <2>1. worker[w].m \in Merchants
    BY <1>2 DEF PersistChannel, TypeOK
  <2>2. /\ Moved(w, "complete", worker[w].cat, worker[w].channel)
        /\ space' = [space EXCEPT ![worker[w].m] =
             [acl |-> "applied", channel |-> worker[w].channel,
              category |-> worker[w].cat]]
    BY <1>2, HandlerMoves
  <2> QED BY <1>0, <2>1, <2>2
<1>3. ASSUME NEW w \in Workers, MarkSpace(w)
      PROVE  /\ space'[worker[w].m].acl \in {"failed", "degraded"}
             /\ space'[worker[w].m].channel = space[worker[w].m].channel
             /\ \A n \in Merchants \ {worker[w].m} : space'[n] = space[n]
  <2>1. worker[w].m \in Merchants /\ space[worker[w].m] \in SpaceRec
    BY <1>3 DEF MarkSpace, TypeOK
  <2> QED BY <1>0, <1>3, <2>1 DEF MarkSpace, SpaceRec
<1>4. \A n \in Merchants : ~(\/ UpdateOutboxPayload(n) \/ CreateJob(n)
                             \/ APICrash(n) \/ LeaseExpires(n)
                             \/ LockExpires(n))
  BY DEF UpdateOutboxPayload, CreateJob, APICrash, LeaseExpires, LockExpires
<1>5. \A r \in Relays : ~(RelayStep(r) \/ RelayCrash(r))
  BY DEF RelayStep, ListPendingOutbox, EnqueueRow, StampOutboxEnqueued,
         RelayCrash
<1>6. \A w \in Workers :
        ~(\/ \E n \in Merchants : StartTask(w, n)
          \/ AcquireMerchant(w) \/ LoadSpace(w) \/ CreateChannel(w)
          \/ ApplyAgentAllow(w) \/ CompleteJob(w) \/ ArchiveJob(w)
          \/ FinishTask(w) \/ WorkerCrash(w))
  BY DEF StartTask, AcquireMerchant, LoadSpace, CreateChannel,
         ApplyAgentAllow, CompleteJob, ArchiveJob, FinishTask, WorkerCrash
<1>7. ~UNCHANGED vars
  BY DEF vars
<1> QED BY <1>1, <1>2, <1>3, <1>4, <1>5, <1>6, <1>7 DEF Next, HandlerStep

(* A committed space never disappears. *)
LEMMA SpaceStays ==
  ASSUME TypeOK, [Next]_vars, NEW m \in Merchants, space[m].acl # "absent"
  PROVE  space'[m].acl # "absent"
  BY SpaceEffect

(* Two handlers that run are on two merchants. *)
LEMMA OneRunner ==
  ASSUME OwnsTask, NEW v \in Workers, NEW w \in Workers,
         worker[v].pc # "idle", worker[w].pc # "idle",
         worker[v].m = worker[w].m
  PROVE  v = w
  BY DEF OwnsTask

(* The steps that touch the task, seen from the handler that runs it. *)
LEMMA OwnsNext ==
  ASSUME Stalls = FALSE, TypeOK, OwnsTask, [Next]_vars
  PROVE  OwnsTask'
<1>0. /\ task \in [Merchants -> TaskRec]
      /\ \A v \in Workers : worker[v].pc # "idle" => worker[v].m \in Merchants
  BY DEF TypeOK
<1>1. ASSUME NEW w \in Workers, NEW m \in Merchants, StartTask(w, m)
      PROVE  OwnsTask'
  <2>1. task[m] \in TaskRec /\ task[m].state = "pending"
    BY <1>0, <1>1 DEF StartTask
  <2>2. task'[m].state = "active" /\ task'[m].owner = w
    BY <1>0, <1>1, <2>1 DEF StartTask, TaskRec
  <2>3. \A n \in Merchants \ {m} : task'[n] = task[n]
    BY <1>0, <1>1 DEF StartTask
  <2>4. /\ worker'[w].m = m
        /\ \A v \in Workers \ {w} : worker'[v] = worker[v]
    BY <1>1, StartMoves
  <2> QED BY <1>0, <2>1, <2>2, <2>3, <2>4 DEF OwnsTask
<1>2. ASSUME NEW w \in Workers, FinishTask(w)
      PROVE  OwnsTask'
  <2>1. /\ worker'[w].pc = "idle"
        /\ \A v \in Workers \ {w} : worker'[v] = worker[v]
    BY <1>2, IdleMoves DEF FinishTask
  <2>2. \A n \in Merchants : n # worker[w].m => task'[n] = task[n]
    BY <1>0, <1>2 DEF FinishTask
  <2>3. worker[w].pc # "idle"
    BY <1>2 DEF FinishTask
  <2> QED BY <1>0, <2>1, <2>2, <2>3 DEF OwnsTask
<1>3. ASSUME NEW m \in Merchants, LeaseExpires(m)
      PROVE  OwnsTask'
  <2>1. \A v \in Workers : worker[v].pc # "idle" => worker[v].m # m
    BY <1>3 DEF LeaseExpires, Runs, OwnsTask
  <2>2. \A n \in Merchants \ {m} : task'[n] = task[n]
    BY <1>0, <1>3 DEF LeaseExpires
  <2>3. worker' = worker
    BY <1>3 DEF LeaseExpires, runVars
  <2> QED BY <1>0, <2>1, <2>2, <2>3 DEF OwnsTask
<1>4. ASSUME NEW r \in Relays, NEW row \in relay[r].rows, EnqueueRow(r, row)
      PROVE  OwnsTask'
  <2>1. \A n \in Merchants : task[n].state = "active" => task'[n] = task[n]
    BY <1>0, <1>4 DEF EnqueueRow, TaskIDInUse
  <2>2. worker' = worker
    BY <1>4 DEF EnqueueRow, runVars
  <2> QED BY <1>0, <2>1, <2>2 DEF OwnsTask
<1>5. ASSUME NEW w \in Workers,
             WorkerCrash(w) \/ (HandlerStep(w) /\ ~FinishTask(w))
      PROVE  OwnsTask'
  <2>1. UNCHANGED task
    BY <1>5 DEF HandlerStep, AcquireMerchant, LoadSpace, CreateChannel,
         ApplyAgentAllow, PersistChannel, CompleteJob, MarkSpace, ArchiveJob,
         WorkerCrash
  <2>2. /\ \A v \in Workers \ {w} : worker'[v] = worker[v]
        /\ worker'[w].pc # "idle" => worker'[w].m = worker[w].m
    <3>1. CASE WorkerCrash(w)
      BY <3>1, IdleMoves DEF WorkerCrash
    <3>2. CASE HandlerStep(w) /\ ~FinishTask(w)
      BY <3>2, HandlerMoves DEF HandlerStep, Moved
    <3> QED BY <1>5, <3>1, <3>2
  <2>3. worker[w].pc # "idle"
    BY <1>5 DEF HandlerStep, AcquireMerchant, LoadSpace, CreateChannel,
         ApplyAgentAllow, PersistChannel, CompleteJob, MarkSpace, ArchiveJob,
         WorkerCrash
  <2> QED BY <2>1, <2>2, <2>3 DEF OwnsTask
<1>6. ASSUME UNCHANGED <<task, worker>>
      PROVE  OwnsTask'
  BY <1>6 DEF OwnsTask
<1>7. ASSUME NEW n \in Merchants,
             \/ \E c \in MaybeCategory : CreateSpaceWithOutbox(n, c)
             \/ UpdateOutboxPayload(n) \/ CreateJob(n) \/ APICrash(n)
             \/ LockExpires(n)
      PROVE  UNCHANGED <<task, worker>>
  BY <1>7 DEF CreateSpaceWithOutbox, UpdateOutboxPayload, CreateJob, APICrash,
              LockExpires, runVars
<1>8. ASSUME NEW r \in Relays,
             \/ ListPendingOutbox(r) \/ StampOutboxEnqueued(r) \/ RelayCrash(r)
      PROVE  UNCHANGED <<task, worker>>
  BY <1>8 DEF ListPendingOutbox, StampOutboxEnqueued, RelayCrash, runVars
<1>9. CASE UNCHANGED vars
  BY <1>6, <1>9 DEF vars
<1> QED BY <1>1, <1>2, <1>3, <1>4, <1>5, <1>6, <1>7, <1>8, <1>9
        DEF Next, RelayStep

(* Requests, rows and tasks of a merchant only follow its space. *)
LEMMA RowsNext ==
  ASSUME TypeOK, RowsHaveSpace, [Next]_vars
  PROVE  RowsHaveSpace'
<1>0. /\ request \in [Merchants -> RequestRec]
      /\ outbox \in [Merchants -> OutboxRec]
      /\ relay \in [Relays -> RelayRec] /\ task \in [Merchants -> TaskRec]
      /\ \A m \in Merchants : /\ request[m] \in RequestRec
                              /\ outbox[m] \in OutboxRec
                              /\ task[m] \in TaskRec
      /\ \A r \in Relays : relay[r] \in RelayRec /\ relay[r].rows \subseteq Row
  BY DEF TypeOK, RelayRec
<1>1. \A m \in Merchants : space[m].acl # "absent" => space'[m].acl # "absent"
  BY SpaceStays
<1>2. \A m \in Merchants : request'[m].pc # "idle" => space'[m].acl # "absent"
  <2> SUFFICES ASSUME NEW m \in Merchants, request'[m].pc # "idle",
                      space[m].acl = "absent"
               PROVE  space'[m].acl # "absent"
    BY <1>1
  <2>1. request[m].pc = "idle" /\ request' # request
    BY DEF RowsHaveSpace
  <2>2. ASSUME NEW n \in Merchants, NEW c \in MaybeCategory,
               CreateSpaceWithOutbox(n, c)
        PROVE  space'[m].acl # "absent"
    <3>1. n = m
      BY <1>0, <2>1, <2>2 DEF CreateSpaceWithOutbox
    <3>2. space[m] \in SpaceRec /\ space \in [Merchants -> SpaceRec]
      BY DEF TypeOK
    <3> QED BY <2>2, <3>1, <3>2 DEF CreateSpaceWithOutbox, SpaceRec
  <2>3. ASSUME NEW n \in Merchants,
               UpdateOutboxPayload(n) \/ CreateJob(n) \/ APICrash(n)
        PROVE  FALSE
    <3>1. request[n].pc # "idle"
      BY <2>3 DEF UpdateOutboxPayload, CreateJob, APICrash
    <3>2. \A k \in Merchants \ {n} : request'[k] = request[k]
      BY <1>0, <2>3 DEF UpdateOutboxPayload, CreateJob, APICrash
    <3> QED BY <2>1, <3>1, <3>2
  <2>4. \A n \in Merchants : ~(LeaseExpires(n) \/ LockExpires(n))
    BY <2>1 DEF LeaseExpires, LockExpires, dispatchVars
  <2>5. \A r \in Relays : ~(RelayStep(r) \/ RelayCrash(r))
    BY <2>1 DEF RelayStep, ListPendingOutbox, EnqueueRow,
                StampOutboxEnqueued, RelayCrash
  <2>6. \A w \in Workers : ~(\/ \E n \in Merchants : StartTask(w, n)
                             \/ HandlerStep(w) \/ WorkerCrash(w))
    BY <2>1 DEF StartTask, HandlerStep, AcquireMerchant, LoadSpace,
         CreateChannel, ApplyAgentAllow, PersistChannel, CompleteJob,
         MarkSpace, ArchiveJob, FinishTask, WorkerCrash, dispatchVars
  <2>7. ~UNCHANGED vars
    BY <2>1 DEF vars
  <2> QED BY <2>2, <2>3, <2>4, <2>5, <2>6, <2>7 DEF Next
<1>3. \A m \in Merchants :
        outbox'[m].payload # "absent" => space'[m].acl # "absent"
  <2> SUFFICES ASSUME NEW m \in Merchants, outbox'[m].payload # "absent",
                      space[m].acl = "absent"
               PROVE  space'[m].acl # "absent"
    BY <1>1
  <2>1. /\ outbox[m].payload = "absent" /\ request[m].pc = "idle"
        /\ outbox' # outbox
    BY DEF RowsHaveSpace
  <2>2. ASSUME NEW n \in Merchants, NEW c \in MaybeCategory,
               CreateSpaceWithOutbox(n, c)
        PROVE  space'[m].acl # "absent"
    <3>1. n = m
      BY <1>0, <2>1, <2>2 DEF CreateSpaceWithOutbox
    <3>2. space[m] \in SpaceRec /\ space \in [Merchants -> SpaceRec]
      BY DEF TypeOK
    <3> QED BY <2>2, <3>1, <3>2 DEF CreateSpaceWithOutbox, SpaceRec
  <2>3. ASSUME NEW n \in Merchants, UpdateOutboxPayload(n)
        PROVE  FALSE
    <3>1. request[n].pc # "idle"
      BY <2>3 DEF UpdateOutboxPayload
    <3>2. \A k \in Merchants \ {n} : outbox'[k] = outbox[k]
      BY <1>0, <2>3 DEF UpdateOutboxPayload
    <3> QED BY <2>1, <3>1, <3>2
  <2>4. \A n \in Merchants : ~(\/ CreateJob(n) \/ APICrash(n)
                               \/ LeaseExpires(n) \/ LockExpires(n))
    BY <2>1 DEF CreateJob, APICrash, LeaseExpires, LockExpires, dispatchVars
  <2>5. \A r \in Relays : ~(RelayStep(r) \/ RelayCrash(r))
    BY <2>1 DEF RelayStep, ListPendingOutbox, EnqueueRow,
                StampOutboxEnqueued, RelayCrash
  <2>6. \A w \in Workers : ~(\/ \E n \in Merchants : StartTask(w, n)
                             \/ HandlerStep(w) \/ WorkerCrash(w))
    BY <2>1 DEF StartTask, HandlerStep, AcquireMerchant, LoadSpace,
         CreateChannel, ApplyAgentAllow, PersistChannel, CompleteJob,
         MarkSpace, ArchiveJob, FinishTask, WorkerCrash, dispatchVars
  <2>7. ~UNCHANGED vars
    BY <2>1 DEF vars
  <2> QED BY <2>2, <2>3, <2>4, <2>5, <2>6, <2>7 DEF Next
<1>4. \A r \in Relays : \A row \in relay'[r].rows :
        space'[row.m].acl # "absent"
  <2>1. ASSUME \A r \in Relays : relay'[r].rows \subseteq relay[r].rows
        PROVE  \A r \in Relays : \A row \in relay'[r].rows :
                 space'[row.m].acl # "absent"
    <3>1. \A r \in Relays : \A row \in relay[r].rows : row.m \in Merchants
      BY <1>0 DEF Row
    <3> QED BY <1>1, <2>1, <3>1 DEF RowsHaveSpace
  <2>2. ASSUME NEW r \in Relays, ListPendingOutbox(r)
        PROVE  \A q \in Relays : \A row \in relay'[q].rows :
                 space'[row.m].acl # "absent"
    <3>1. \A row \in PendingRows : /\ row.m \in Merchants
                                   /\ outbox[row.m].payload # "absent"
      BY DEF PendingRows
    <3>2. \A row \in PendingRows : space'[row.m].acl # "absent"
      BY <1>1, <3>1 DEF RowsHaveSpace
    <3>3. relay'[r].rows = PendingRows
      BY <1>0, <2>2 DEF ListPendingOutbox, RelayRec
    <3>4. \A q \in Relays \ {r} : relay'[q] = relay[q]
      BY <1>0, <2>2 DEF ListPendingOutbox
    <3>5. \A q \in Relays : \A row \in relay[q].rows : row.m \in Merchants
      BY <1>0 DEF Row
    <3> QED BY <1>1, <3>2, <3>3, <3>4, <3>5 DEF RowsHaveSpace
  <2>3. ASSUME NEW r \in Relays,
               \/ \E row \in relay[r].rows : EnqueueRow(r, row)
               \/ StampOutboxEnqueued(r) \/ RelayCrash(r)
        PROVE  \A q \in Relays : relay'[q].rows \subseteq relay[q].rows
    <3>1. \A q \in Relays \ {r} : relay'[q] = relay[q]
      BY <1>0, <2>3 DEF EnqueueRow, StampOutboxEnqueued, RelayCrash
    <3>2. CASE \E row \in relay[r].rows : EnqueueRow(r, row)
      <4>1. PICK row \in relay[r].rows : EnqueueRow(r, row)
        BY <3>2
      <4>2. \/ relay' = [relay EXCEPT ![r].rows = @ \ {row},
                                      ![r].sent = @ \cup {row.m}]
            \/ relay' = [relay EXCEPT ![r].rows = @ \ {row}]
        BY <4>1 DEF EnqueueRow
      <4>3. relay'[r].rows = relay[r].rows \ {row}
        BY <1>0, <4>2 DEF RelayRec
      <4> QED BY <3>1, <4>3
    <3>3. CASE StampOutboxEnqueued(r)
      BY <1>0, <3>1, <3>3 DEF StampOutboxEnqueued, RelayRec
    <3>4. CASE RelayCrash(r)
      BY <1>0, <3>1, <3>4 DEF RelayCrash
    <3> QED BY <2>3, <3>2, <3>3, <3>4
  <2>4. ASSUME NEW m \in Merchants,
               \/ \E c \in MaybeCategory : CreateSpaceWithOutbox(m, c)
               \/ UpdateOutboxPayload(m) \/ CreateJob(m) \/ APICrash(m)
               \/ LeaseExpires(m) \/ LockExpires(m)
        PROVE  relay' = relay
    BY <2>4 DEF CreateSpaceWithOutbox, UpdateOutboxPayload, CreateJob,
         APICrash, LeaseExpires, LockExpires, dispatchVars
  <2>5. ASSUME NEW w \in Workers,
               \/ \E m \in Merchants : StartTask(w, m)
               \/ HandlerStep(w) \/ WorkerCrash(w)
        PROVE  relay' = relay
    BY <2>5 DEF StartTask, HandlerStep, AcquireMerchant, LoadSpace,
         CreateChannel, ApplyAgentAllow, PersistChannel, CompleteJob,
         MarkSpace, ArchiveJob, FinishTask, WorkerCrash, dispatchVars
  <2>6. CASE relay' = relay
    BY <2>1, <2>6
  <2>7. CASE UNCHANGED vars
    BY <2>6, <2>7 DEF vars
  <2> QED BY <2>1, <2>2, <2>3, <2>4, <2>5, <2>6, <2>7 DEF Next, RelayStep
<1>5. \A m \in Merchants :
        task'[m].state # "absent" => space'[m].acl # "absent"
  <2> SUFFICES ASSUME NEW m \in Merchants, task[m].state = "absent",
                      task'[m] # task[m]
               PROVE  space[m].acl # "absent"
    BY <1>1 DEF RowsHaveSpace
  <2>1. ASSUME NEW r \in Relays, NEW row \in relay[r].rows, EnqueueRow(r, row)
        PROVE  space[m].acl # "absent"
    <3>1. row.m = m
      BY <1>0, <2>1 DEF EnqueueRow
    <3> QED BY <3>1 DEF RowsHaveSpace
  <2>2. \A w \in Workers, n \in Merchants : ~StartTask(w, n)
    BY <1>0 DEF StartTask
  <2>3. \A w \in Workers : ~FinishTask(w)
    BY <1>0 DEF FinishTask
  <2>4. \A n \in Merchants : ~LeaseExpires(n)
    BY <1>0 DEF LeaseExpires
  <2>5. \A n \in Merchants :
          ~(\/ \E c \in MaybeCategory : CreateSpaceWithOutbox(n, c)
            \/ UpdateOutboxPayload(n) \/ CreateJob(n) \/ APICrash(n)
            \/ LockExpires(n))
    BY DEF CreateSpaceWithOutbox, UpdateOutboxPayload, CreateJob, APICrash,
           LockExpires
  <2>6. \A r \in Relays : ~(\/ ListPendingOutbox(r) \/ StampOutboxEnqueued(r)
                            \/ RelayCrash(r))
    BY DEF ListPendingOutbox, StampOutboxEnqueued, RelayCrash
  <2>7. \A w \in Workers : ~(WorkerCrash(w) \/ HandlerStep(w))
    BY <2>3 DEF HandlerStep, AcquireMerchant, LoadSpace, CreateChannel,
         ApplyAgentAllow, PersistChannel, CompleteJob, MarkSpace, ArchiveJob,
         WorkerCrash
  <2>8. ~UNCHANGED vars
    BY DEF vars
  <2> QED BY <2>1, <2>2, <2>4, <2>5, <2>6, <2>7, <2>8 DEF Next, RelayStep
<1> QED BY <1>2, <1>3, <1>4, <1>5 DEF RowsHaveSpace

(* Nobody else writes the row of a handler's merchant while it runs. *)
LEMMA LoadedNext ==
  ASSUME TypeOK, BackedInv, OwnsTask, RowsHaveSpace, LoadedIsCurrent,
         [Next]_vars
  PROVE  LoadedIsCurrent'
<1>0. /\ space \in [Merchants -> SpaceRec]
      /\ \A v \in Workers : worker[v].pc # "idle" => worker[v].m \in Merchants
  BY DEF TypeOK
<1>1. ASSUME NEW w \in Workers, worker[w].pc # "idle",
             \A n \in Merchants \ {worker[w].m} : space'[n] = space[n],
             \A v \in Workers \ {w} : worker'[v] = worker[v],
             worker'[w].pc \in {"create", "allow", "persist", "markSpace"} =>
               space'[worker'[w].m].acl # "applied",
             worker'[w].pc = "complete" => space'[worker'[w].m].acl = "applied"
      PROVE  LoadedIsCurrent'
  <2>1. \A v \in Workers \ {w} : worker[v].pc # "idle" =>
          space'[worker[v].m] = space[worker[v].m]
    BY <1>0, <1>1, OneRunner
  <2> QED BY <1>1, <2>1 DEF LoadedIsCurrent
<1>2. CASE space' = space
  <2>1. CASE UNCHANGED worker
    BY <1>2, <2>1 DEF LoadedIsCurrent
  <2>2. ASSUME NEW w \in Workers, NEW m \in Merchants, StartTask(w, m)
        PROVE  LoadedIsCurrent'
    BY <1>2, <2>2, StartMoves DEF LoadedIsCurrent
  <2>3. ASSUME NEW w \in Workers, WorkerCrash(w) \/ FinishTask(w)
        PROVE  LoadedIsCurrent'
    BY <1>2, <2>3, IdleMoves DEF LoadedIsCurrent, WorkerCrash, FinishTask
  <2>4. ASSUME NEW w \in Workers, LoadSpace(w)
        PROVE  LoadedIsCurrent'
    <3>1. worker[w].pc = "load" /\ worker[w].m \in Merchants
      BY <1>0, <2>4 DEF LoadSpace
    <3>2. space[worker[w].m].acl = "applied" =>
            space[worker[w].m].channel # NoChannel
      BY <3>1 DEF BackedInv, AppliedIsBacked, NoChannel, TypeOK, Channels
    <3>3. worker'[w].m = worker[w].m
          /\ \A v \in Workers \ {w} : worker'[v] = worker[v]
      BY <2>4, HandlerMoves DEF Moved
    <3>4. worker'[w].pc \in {"create", "allow", "persist", "markSpace"} =>
            space[worker[w].m].acl # "applied"
      BY <2>4, <3>2, HandlerMoves DEF Moved
    <3>5. worker'[w].pc # "complete"
      BY <2>4, HandlerMoves DEF Moved
    <3> QED BY <1>2, <3>3, <3>4, <3>5 DEF LoadedIsCurrent
  <2>5. ASSUME NEW w \in Workers, CreateChannel(w) \/ ApplyAgentAllow(w)
        PROVE  LoadedIsCurrent'
    <3>1. worker[w].pc \in {"create", "allow"}
      BY <2>5 DEF CreateChannel, ApplyAgentAllow
    <3>2. /\ worker'[w].m = worker[w].m /\ worker'[w].pc # "complete"
          /\ \A v \in Workers \ {w} : worker'[v] = worker[v]
      BY <2>5, HandlerMoves DEF Moved
    <3> QED BY <1>2, <3>1, <3>2 DEF LoadedIsCurrent
  <2>6. ASSUME NEW w \in Workers, PersistChannel(w)
        PROVE  LoadedIsCurrent'
    <3>1. /\ worker[w].pc = "persist" /\ worker[w].m \in Merchants
          /\ space[worker[w].m].acl # "applied"
      BY <1>0, <2>6 DEF PersistChannel, LoadedIsCurrent
    <3>2. space' # [space EXCEPT ![worker[w].m] =
                      [acl |-> "applied", channel |-> worker[w].channel,
                       category |-> worker[w].cat]]
      BY <1>0, <1>2, <3>1
    <3>3. Moved(w, "return", worker[w].cat, worker[w].channel)
      BY <2>6, <3>2, HandlerMoves
    <3> QED BY <1>2, <3>3 DEF LoadedIsCurrent, Moved
  <2>7. ASSUME NEW w \in Workers,
               \/ AcquireMerchant(w) \/ CompleteJob(w) \/ ArchiveJob(w)
               \/ MarkSpace(w)
        PROVE  LoadedIsCurrent'
    <3>1. /\ worker'[w].m = worker[w].m
          /\ worker'[w].pc \in {"load", "return", "archiveJob"}
          /\ \A v \in Workers \ {w} : worker'[v] = worker[v]
      BY <2>7, HandlerMoves DEF Moved
    <3> QED BY <1>2, <3>1 DEF LoadedIsCurrent
  <2> QED BY <2>1, <2>2, <2>3, <2>4, <2>5, <2>6, <2>7, OneHandlerMoves
          DEF HandlerStep
<1>3. ASSUME NEW m \in Merchants, space[m].acl = "absent",
             space'[m].acl = "pending",
             \A n \in Merchants \ {m} : space'[n] = space[n],
             UNCHANGED worker
      PROVE  LoadedIsCurrent'
  BY <1>0, <1>3 DEF LoadedIsCurrent
<1>4. ASSUME NEW w \in Workers, PersistChannel(w),
             space'[worker[w].m].acl = "applied",
             \A n \in Merchants \ {worker[w].m} : space'[n] = space[n],
             Moved(w, "complete", worker[w].cat, worker[w].channel)
      PROVE  LoadedIsCurrent'
  <2>1. worker[w].pc # "idle"
    BY <1>4 DEF PersistChannel
  <2> QED BY <1>1, <1>4, <2>1 DEF Moved
<1>5. ASSUME NEW w \in Workers, MarkSpace(w),
             \A n \in Merchants \ {worker[w].m} : space'[n] = space[n]
      PROVE  LoadedIsCurrent'
  <2>1. worker[w].pc # "idle"
    BY <1>5 DEF MarkSpace
  <2>2. Moved(w, "archiveJob", worker[w].cat, worker[w].channel)
    BY <1>5, HandlerMoves
  <2> QED BY <1>1, <1>5, <2>1, <2>2 DEF Moved
<1> QED BY <1>2, <1>3, <1>4, <1>5, SpaceEffect

(* What LoadSpace saw still holds when PersistChannel or MarkSpace write:   *)
(* they never write the row of an applied space.                            *)
LEMMA AppliedStays ==
  ASSUME TypeOK, LoadedIsCurrent, [Next]_vars, NEW m \in Merchants,
         space[m].acl = "applied"
  PROVE  space'[m] = space[m]
<1>1. \A w \in Workers : PersistChannel(w) \/ MarkSpace(w) => worker[w].m # m
  BY DEF LoadedIsCurrent, PersistChannel, MarkSpace
<1> QED BY <1>1, SpaceEffect

(* The job is completed by a handler that has just persisted, only. *)
LEMMA CompletedNext ==
  ASSUME TypeOK, LoadedIsCurrent, CompletedMeansApplied, [Next]_vars
  PROVE  CompletedMeansApplied'
<1>0. jobs \in [Merchants -> JobStatuses]
  BY DEF TypeOK
<1> SUFFICES ASSUME NEW m \in Merchants, jobs'[m] = "completed"
             PROVE  space'[m].acl = "applied"
  BY DEF CompletedMeansApplied
<1>1. CASE jobs[m] = "completed"
  BY <1>1, AppliedStays DEF CompletedMeansApplied
<1>2. CASE jobs[m] # "completed"
  <2>1. ASSUME NEW n \in Merchants, NEW status, TransitionJob(n, status)
        PROVE  status = "completed" /\ n = m
    BY <1>0, <1>2, <2>1 DEF TransitionJob
  <2>2. ASSUME NEW w \in Workers, CompleteJob(w)
        PROVE  space'[m].acl = "applied"
    <3>1. worker[w].m = m /\ worker[w].pc = "complete" /\ space' = space
      BY <2>1, <2>2 DEF CompleteJob, TypeOK
    <3> QED BY <3>1 DEF LoadedIsCurrent
  <2>3. \A w \in Workers : ~ArchiveJob(w)
    BY <2>1 DEF ArchiveJob, TypeOK
  <2>4. \A w \in Workers, n \in Merchants : ~StartTask(w, n)
    BY <1>2, <2>1 DEF StartTask
  <2>5. \A n \in Merchants : ~CreateJob(n)
    BY <1>0, <1>2 DEF CreateJob
  <2>6. \A n \in Merchants :
          ~(\/ \E c \in MaybeCategory : CreateSpaceWithOutbox(n, c)
            \/ UpdateOutboxPayload(n) \/ APICrash(n)
            \/ LeaseExpires(n) \/ LockExpires(n))
    BY <1>2 DEF CreateSpaceWithOutbox, UpdateOutboxPayload, APICrash,
                LeaseExpires, LockExpires
  <2>7. \A r \in Relays : ~(RelayStep(r) \/ RelayCrash(r))
    BY <1>2 DEF RelayStep, ListPendingOutbox, EnqueueRow,
                StampOutboxEnqueued, RelayCrash
  <2>8. \A w \in Workers :
          ~(\/ AcquireMerchant(w) \/ LoadSpace(w) \/ CreateChannel(w)
            \/ ApplyAgentAllow(w) \/ PersistChannel(w) \/ MarkSpace(w)
            \/ FinishTask(w) \/ WorkerCrash(w))
    BY <1>2 DEF AcquireMerchant, LoadSpace, CreateChannel, ApplyAgentAllow,
                PersistChannel, MarkSpace, FinishTask, WorkerCrash
  <2>9. ~UNCHANGED vars
    BY <1>2 DEF vars
  <2> QED BY <2>2, <2>3, <2>4, <2>5, <2>6, <2>7, <2>8, <2>9
          DEF Next, HandlerStep
<1> QED BY <1>1, <1>2

(* Initially nothing runs. *)
LEMMA RunInit == Init => RunInv
  BY DEF Init, RunInv, OwnsTask, RowsHaveSpace, LoadedIsCurrent,
         CompletedMeansApplied, Idle

(* RunInv is inductive, given the types and BackedInv. *)
LEMMA RunNext ==
  ASSUME Stalls = FALSE
  PROVE  TypeOK /\ BackedInv /\ RunInv /\ [Next]_vars => RunInv'
<1> SUFFICES ASSUME TypeOK, BackedInv, RunInv, [Next]_vars PROVE RunInv'
  OBVIOUS
<1> QED BY OwnsNext, RowsNext, LoadedNext, CompletedNext DEF RunInv

(* The invariants together. *)
LEMMA RunInvariant ==
  ASSUME Stalls = FALSE
  PROVE  Spec => [](TypeOK /\ BackedInv /\ RunInv)
  BY TypeInit, TypeNext, BackedInit, BackedNext, RunInit, RunNext, PTL
     DEF Spec

(* When only dead workers lose their lease, a job that reads completed has  *)
(* its space applied.                                                       *)
THEOREM CompletedApplied ==
  ASSUME Stalls = FALSE
  PROVE  Spec => []CompletedMeansApplied
<1>1. RunInv => CompletedMeansApplied
  BY DEF RunInv
<1> QED BY <1>1, RunInvariant, PTL

(* When only dead workers lose their lease, provisioning never touches the  *)
(* row of an applied space again: no second channel id, no failed or        *)
(* degraded, no matter how often the task is enqueued, retried or killed.   *)
THEOREM AppliedFinal ==
  ASSUME Stalls = FALSE
  PROVE  Spec => AppliedIsFinal
<1>1. TypeOK /\ RunInv /\ [Next]_vars =>
        [\A m \in Merchants :
           space[m].acl = "applied" => space'[m] = space[m]]_vars
  BY AppliedStays DEF RunInv
<1> QED BY <1>1, RunInvariant, PTL DEF Spec, AppliedIsFinal

(* When only dead workers lose their lease, provisioning implements         *)
(* SpaceContract: the outbox, the relays, the queue, the lock and the       *)
(* worker together do to a row of spaces what Commit, FailClosed and Apply  *)
(* do, or nothing.                                                          *)
THEOREM ContractKept ==
  ASSUME Stalls = FALSE
  PROVE  Spec => KeepsContract
<1> DEFINE acl == [m \in Merchants |-> space[m].acl]
           channel == [m \in Merchants |-> space[m].channel]
<1>1. Init => Contract!Init
  BY DEF Init, Contract!Init
<1>2. TypeOK /\ BackedInv /\ RunInv /\ [Next]_vars =>
        [Contract!Next]_<<acl, channel>>
  <2> SUFFICES ASSUME TypeOK, BackedInv, RunInv, [Next]_vars
               PROVE  Contract!Next \/ UNCHANGED <<acl, channel>>
    OBVIOUS
  <2>0. /\ space \in [Merchants -> SpaceRec]
        /\ \A m \in Merchants : space[m].acl \in ACLStates
        /\ acl' = [m \in Merchants |-> space'[m].acl]
        /\ channel' = [m \in Merchants |-> space'[m].channel]
    BY DEF TypeOK, SpaceRec
  <2>1. ASSUME NEW m \in Merchants, space[m].acl = "absent",
               space'[m].acl = "pending", space'[m].channel = space[m].channel,
               \A n \in Merchants \ {m} : space'[n] = space[n]
        PROVE  Contract!Next
    <3>1. acl' = [acl EXCEPT ![m] = "pending"] /\ channel' = channel
      BY <2>0, <2>1
    <3>2. Contract!Commit(m)
      BY <2>1, <3>1 DEF Contract!Commit
    <3> QED BY <3>2 DEF Contract!Next
  <2>2. ASSUME NEW w \in Workers, PersistChannel(w),
               space'[worker[w].m].acl = "applied",
               space'[worker[w].m].channel = worker[w].channel,
               \A n \in Merchants \ {worker[w].m} : space'[n] = space[n]
        PROVE  Contract!Next
    <3>1. worker[w].pc = "persist" /\ worker[w].m \in Merchants
      BY <2>2 DEF PersistChannel, TypeOK
    <3>2. worker[w].channel \in Channels \ {NoChannel}
      BY <3>1 DEF BackedInv, TypeOK, WorkerRec, Channels, NoChannel
    <3>3. PICK m \in Merchants, k \in Channels \ {NoChannel} :
            m = worker[w].m /\ k = worker[w].channel
      BY <3>1, <3>2
    <3>4. space[m].acl # "applied" /\ space[m].acl # "absent"
      BY <3>1, <3>3 DEF RunInv, LoadedIsCurrent, OwnsTask, RowsHaveSpace
    <3>5. acl[m] \in {"pending"} \cup Contract!FailClosedStates
      BY <2>0, <3>4 DEF ACLStates, Contract!FailClosedStates
    <3>6. /\ acl' = [acl EXCEPT ![m] = "applied"]
          /\ channel' = [channel EXCEPT ![m] = k]
      BY <2>0, <2>2, <3>3
    <3>7. Contract!Apply(m, k)
      BY <3>5, <3>6 DEF Contract!Apply
    <3> QED BY <3>7 DEF Contract!Next
  <2>3. ASSUME NEW w \in Workers, MarkSpace(w),
               space'[worker[w].m].acl \in {"failed", "degraded"},
               space'[worker[w].m].channel = space[worker[w].m].channel,
               \A n \in Merchants \ {worker[w].m} : space'[n] = space[n]
        PROVE  Contract!Next
    <3>1. worker[w].pc = "markSpace" /\ worker[w].m \in Merchants
      BY <2>3 DEF MarkSpace, TypeOK
    <3>2. PICK m \in Merchants, a \in Contract!FailClosedStates :
            m = worker[w].m /\ a = space'[m].acl
      BY <2>3, <3>1 DEF Contract!FailClosedStates
    <3>3. space[m].acl # "applied" /\ space[m].acl # "absent"
      BY <3>1, <3>2 DEF RunInv, LoadedIsCurrent, OwnsTask, RowsHaveSpace
    <3>4. acl[m] \in {"pending"} \cup Contract!FailClosedStates
      BY <2>0, <3>3 DEF ACLStates, Contract!FailClosedStates
    <3>5. acl' = [acl EXCEPT ![m] = a] /\ channel' = channel
      BY <2>0, <2>3, <3>2
    <3>6. Contract!FailClosed(m, a)
      BY <3>4, <3>5 DEF Contract!FailClosed
    <3> QED BY <3>6 DEF Contract!Next
  <2>4. CASE space' = space
    BY <2>0, <2>4
  <2> QED BY <2>1, <2>2, <2>3, <2>4, SpaceEffect
<1> QED BY <1>1, <1>2, RunInvariant, PTL DEF Spec, KeepsContract, Contract!Spec
=============================================================================
