------------------------------- MODULE Welcome -------------------------------
(***************************************************************************)
(* POST /channels/{id}/welcome:sync for one space, its job row and task,   *)
(* and the sync_welcome workers that post, pin and later edit the welcome  *)
(* message of the channel.                                                 *)
(*                                                                         *)
(* The id of the message is stored after the message is posted and pinned, *)
(* no lock is held over that, and a failure to store it is only logged.    *)
(***************************************************************************)
EXTENDS Naturals, Sequences, FiniteSets

CONSTANTS
    Requests,     \* HTTP requests, each sent at most once
    Keys,         \* Idempotency-Key values of clients
    Texts,        \* texts that requests ask for
    Workers,      \* asynq handler goroutines
    None,         \* NULL, no header, an empty message
    MaxMessages,  \* bound: messages posted, numbered in that order
    MaxFaults     \* bound: store, asynq and Discord errors and crashes

(* Without a key the task's id is made from the space: welcome:sync:...     *)
TaskIds == Keys \cup {"welcome:sync"}
Messages == 1..MaxMessages

ASSUME BoundsAssumption == MaxMessages \in Nat /\ MaxFaults \in Nat
ASSUME NoneAssumption ==
    None \notin TaskIds /\ None \notin Texts /\ None \notin Messages
ASSUME DefaultAssumption == "default" \notin Texts /\ None # "default"

VARIABLES
    channel,    \* has the space a discord_channel_id?
    welcomeId,  \* spaces.welcome_message_id
    jobs,       \* task ids of the jobs rows, in the order of created_at
    completed,  \* those of them with status completed
    answered,   \* keys with a stored response
    task,       \* sync_welcome tasks in asynq
    payload,    \* the message each of them asks for
    topic,      \* Discord: is the channel's topic set?
    posted,     \* Discord: how many messages have been posted
    content,    \* Discord: the text of each message; None: no such message
    pinned,     \* Discord: pinned messages
    request,    \* local state of each API request
    worker,     \* local state of each handler goroutine
    overlaps,   \* history: runs that began while another was under way
    crowded,    \* history: has a sync been requested before the last ended?
    ran,        \* history: tasks with a run that came to its end
    shown,      \* history: the text last recorded, with no run begun since
    faults      \* failures so far

rowVars == <<channel, welcomeId>>
jobVars == <<jobs, completed>>
taskVars == <<task, payload>>
discordVars == <<topic, posted, content, pinned>>
historyVars == <<overlaps, crowded, ran, shown>>
vars == <<rowVars, jobVars, answered, taskVars, discordVars, request, worker,
          historyVars, faults>>

-----------------------------------------------------------------------------
(* Types *)

Contents == Texts \cup {"default"}
MaybeText == Contents \cup {None}
MaybeMessage == Messages \cup {None}
RequestRec ==
    [pc : {"unsent", "load", "job", "enqueue", "answer", "done"},
     text : Texts \cup {None}, key : Keys \cup {None}]
Unsent == [pc |-> "unsent", text |-> None, key |-> None]
Done == [Unsent EXCEPT !.pc = "done"]
WorkerRec ==
    [pc : {"idle", "load", "topic", "edit", "send", "pin", "record", "job",
           "finish"},
     id : TaskIds \cup {None}, text : MaybeText, message : MaybeMessage]
Idle == [pc |-> "idle", id |-> None, text |-> None, message |-> None]

(* Type invariant: every variable stays in its declared set, and only       *)
(* messages that exist are pinned.                                          *)
TypeOK ==
    /\ channel \in BOOLEAN
    /\ welcomeId \in MaybeMessage
    /\ jobs \in Seq(TaskIds)
    /\ completed \in SUBSET TaskIds
    /\ answered \in SUBSET Keys
    /\ task \in [TaskIds -> {"none", "waiting", "running", "dead"}]
    /\ payload \in [TaskIds -> Texts \cup {None}]
    /\ topic \in BOOLEAN
    /\ posted \in 0..MaxMessages
    /\ content \in [Messages -> MaybeText]
    /\ pinned \in SUBSET {m \in Messages : content[m] # None}
    /\ request \in [Requests -> RequestRec]
    /\ worker \in [Workers -> WorkerRec]
    /\ overlaps \in Nat /\ crowded \in BOOLEAN
    /\ ran \in SUBSET TaskIds
    /\ shown \in MaybeText
    /\ faults \in 0..MaxFaults

Init ==
    /\ channel = FALSE /\ welcomeId = None
    /\ jobs = <<>> /\ completed = {}
    /\ answered = {}
    /\ task = [i \in TaskIds |-> "none"]
    /\ payload = [i \in TaskIds |-> None]
    /\ topic = FALSE /\ posted = 0
    /\ content = [m \in Messages |-> None] /\ pinned = {}
    /\ request = [r \in Requests |-> Unsent]
    /\ worker = [w \in Workers |-> Idle]
    /\ overlaps = 0 /\ crowded = FALSE /\ ran = {} /\ shown = None
    /\ faults = 0

Fault == faults < MaxFaults /\ faults' = faults + 1

-----------------------------------------------------------------------------
(* SyncWelcome *)

InFlight(r) == request[r].pc \notin {"unsent", "done"}
Goto(r, pc) == request' = [request EXCEPT ![r].pc = pc]
Reply(r) == request' = [request EXCEPT ![r] = Done]
TaskId(r) == IF request[r].key = None THEN "welcome:sync" ELSE request[r].key

(* A request with a key that is answered is replayed by the idempotency     *)
(* middleware (see Lifecycle) and does not get here, nor does a message of  *)
(* more than 2000 bytes.                                                    *)
Send(r, text, key) ==
    /\ request[r].pc = "unsent"
    /\ key \notin answered
    /\ request' = [request EXCEPT ![r] = [pc |-> "load", text |-> text,
                                          key |-> key]]
    /\ crowded' = (crowded \/ (\E q \in Requests : InFlight(q))
                           \/ \E i \in TaskIds : task[i] \in {"waiting",
                                                              "running"})
    /\ UNCHANGED <<rowVars, jobVars, answered, taskVars, discordVars, worker,
                   overlaps, ran, shown, faults>>

GetSpaceByID(r) ==
    /\ request[r].pc = "load"
    /\ \/ Goto(r, "job") /\ UNCHANGED faults
       \/ Fault /\ Reply(r)
    /\ UNCHANGED <<rowVars, jobVars, answered, taskVars, discordVars, worker,
                   historyVars>>

HasJob(i) == \E n \in DOMAIN jobs : jobs[n] = i

(* INSERT INTO jobs under UNIQUE (task_id). *)
InsertJob(i) == IF HasJob(i) THEN jobs ELSE Append(jobs, i)

(* Mutant: the row gets the header as it is. *)
CreateJobWithHeader(r) ==
    /\ request[r].pc = "job"
    /\ Goto(r, "enqueue")
    /\ jobs' = InsertJob(request[r].key)
    /\ UNCHANGED <<rowVars, completed, answered, taskVars, discordVars,
                   worker, historyVars, faults>>

(* A conflict and any other error are ignored. *)
CreateJob(r) ==
    /\ request[r].pc = "job"
    /\ Goto(r, "enqueue")
    /\ \/ jobs' = InsertJob(TaskId(r)) /\ UNCHANGED faults
       \/ Fault /\ UNCHANGED jobs
    /\ UNCHANGED <<rowVars, completed, answered, taskVars, discordVars,
                   worker, historyVars>>

(* asynq refuses an id it still knows; the refusal and any error are        *)
(* ignored.                                                                 *)
Enqueue(r) ==
    LET i == TaskId(r) IN
    /\ request[r].pc = "enqueue"
    /\ Goto(r, "answer")
    /\ \/ /\ task[i] = "none"
          /\ task' = [task EXCEPT ![i] = "waiting"]
          /\ payload' = [payload EXCEPT ![i] = request[r].text]
          /\ UNCHANGED faults
       \/ task[i] # "none" /\ UNCHANGED <<taskVars, faults>>
       \/ Fault /\ UNCHANGED taskVars
    /\ UNCHANGED <<rowVars, jobVars, answered, discordVars, worker,
                   historyVars>>

(* StoreIdempotencyResponse, its error ignored, and 202. *)
StoreResponse(r) ==
    /\ request[r].pc = "answer"
    /\ Reply(r)
    /\ \/ /\ answered' = answered \cup ({request[r].key} \cap Keys)
          /\ UNCHANGED faults
       \/ Fault /\ UNCHANGED answered
    /\ UNCHANGED <<rowVars, jobVars, taskVars, discordVars, worker,
                   historyVars>>

-----------------------------------------------------------------------------
(* What the Discord client does *)

(* The message gets the next id. *)
PostMessage(text) ==
    /\ posted' = posted + 1
    /\ content' = [content EXCEPT ![posted + 1] = text]
EditedMessage(m, text) == [content EXCEPT ![m] = text]
PinnedMessage(m) == pinned \cup {m}

-----------------------------------------------------------------------------
(* sync_welcome *)

Busy(w) == worker[w].pc # "idle"
Step(w, pc) == worker' = [worker EXCEPT ![w].pc = pc]

StartTask(w, i) ==
    /\ ~Busy(w) /\ task[i] = "waiting"
    /\ task' = [task EXCEPT ![i] = "running"]
    /\ worker' = [worker EXCEPT ![w] = [Idle EXCEPT !.pc = "load", !.id = i]]
    /\ overlaps' = IF \E v \in Workers : Busy(v) THEN overlaps + 1
                   ELSE overlaps
    /\ shown' = None
    /\ UNCHANGED <<rowVars, jobVars, answered, payload, discordVars, request,
                   crowded, ran, faults>>

(* As in Lifecycle: a goroutine that has lost its lease settles nothing,    *)
(* unless the task runs again.                                              *)
Settle(i, statuses) ==
    IF task[i] = "running"
    THEN \E s \in statuses :
           /\ task' = [task EXCEPT ![i] = s]
           /\ payload' = [payload EXCEPT ![i] = IF s = "none" THEN None
                                                ELSE @]
    ELSE UNCHANGED taskVars

Return(w, statuses) ==
    /\ worker' = [worker EXCEPT ![w] = Idle]
    /\ Settle(worker[w].id, statuses)

ReturnError(w) == Return(w, {"waiting", "dead"})

(* Without a channel the task is not retried. The id of the message to edit *)
(* is read here and used two calls later.                                   *)
LoadSpace(w) ==
    LET asked == payload[worker[w].id] IN
    /\ worker[w].pc = "load"
    /\ \/ /\ channel
          /\ worker' = [worker EXCEPT ![w].pc = "topic",
                          ![w].text = IF asked = None THEN "default"
                                      ELSE asked,
                          ![w].message = welcomeId]
          /\ UNCHANGED <<taskVars, faults>>
       \/ ~channel /\ Return(w, {"dead"}) /\ UNCHANGED faults
       \/ Fault /\ ReturnError(w)
    /\ UNCHANGED <<rowVars, jobVars, answered, discordVars, request,
                   historyVars>>

(* Mutant: the recorded message is not looked at. *)
SetChannelTopicAndSend(w) ==
    /\ worker[w].pc = "topic"
    /\ topic' = TRUE
    /\ Step(w, "send")
    /\ UNCHANGED <<rowVars, jobVars, answered, taskVars, posted, content,
                   pinned, request, historyVars, faults>>

(* A call of Discord that reports an error may have been done. *)
SetChannelTopic(w) ==
    /\ worker[w].pc = "topic"
    /\ \/ /\ topic' = TRUE
          /\ Step(w, IF worker[w].message = None THEN "send" ELSE "edit")
          /\ UNCHANGED <<taskVars, faults>>
       \/ topic' \in {topic, TRUE} /\ Fault /\ ReturnError(w)
    /\ UNCHANGED <<rowVars, jobVars, answered, posted, content, pinned, request,
                   historyVars>>

(* Whatever the error, a new message will replace this one. *)
EditMessage(w) ==
    LET m == worker[w].message
        edited == EditedMessage(m, worker[w].text) IN
    /\ worker[w].pc = "edit"
    /\ \/ /\ content[m] # None
          /\ content' = edited
          /\ Step(w, "record")
          /\ UNCHANGED faults
       \/ content[m] = None /\ Step(w, "send") /\ UNCHANGED <<content, faults>>
       \/ /\ content[m] # None
          /\ content' \in {content, edited}
          /\ Fault /\ Step(w, "send")
    /\ UNCHANGED <<rowVars, jobVars, answered, taskVars, topic, posted,
                   pinned, request, historyVars>>

(* A message that was posted and whose id did not arrive stays in the       *)
(* channel.                                                                 *)
SendMessage(w) ==
    /\ worker[w].pc = "send"
    /\ posted < MaxMessages
    /\ \/ /\ PostMessage(worker[w].text)
          /\ worker' = [worker EXCEPT ![w].pc = "pin",
                                      ![w].message = posted + 1]
          /\ UNCHANGED <<taskVars, faults>>
       \/ PostMessage(worker[w].text) /\ Fault /\ ReturnError(w)
       \/ UNCHANGED <<posted, content>> /\ Fault /\ ReturnError(w)
    /\ UNCHANGED <<rowVars, jobVars, answered, topic, pinned, request,
                   historyVars>>

(* Mutant: a pin that fails is only logged. *)
PinMessageOrGoOn(w) ==
    LET m == worker[w].message IN
    /\ worker[w].pc = "pin"
    /\ \/ content[m] # None /\ pinned' = pinned \cup {m} /\ UNCHANGED faults
       \/ content[m] = None /\ UNCHANGED <<pinned, faults>>
       \/ Fault /\ UNCHANGED pinned
    /\ Step(w, "record")
    /\ UNCHANGED <<rowVars, jobVars, answered, taskVars, topic, posted,
                   content, request, historyVars>>

PinMessage(w) ==
    LET m == worker[w].message IN
    /\ worker[w].pc = "pin"
    /\ \/ /\ content[m] # None
          /\ pinned' = PinnedMessage(m)
          /\ Step(w, "record")
          /\ UNCHANGED <<taskVars, faults>>
       \/ /\ content[m] = None
          /\ ReturnError(w)
          /\ UNCHANGED <<pinned, faults>>
       \/ /\ content[m] # None
          /\ pinned' \in {pinned, PinnedMessage(m)}
          /\ Fault /\ ReturnError(w)
    /\ UNCHANGED <<rowVars, jobVars, answered, topic, posted, content,
                   request, historyVars>>

(* Mutant: an id that is there is not overwritten. *)
UpdateSpaceWelcomeMessageIDOnce(w) ==
    /\ worker[w].pc = "record"
    /\ welcomeId' = IF welcomeId = None THEN worker[w].message ELSE welcomeId
    /\ shown' = worker[w].text
    /\ Step(w, "job")
    /\ UNCHANGED <<channel, jobVars, answered, taskVars, discordVars,
                   request, overlaps, crowded, ran, faults>>

(* The error is only logged. *)
UpdateSpaceWelcomeMessageID(w) ==
    /\ worker[w].pc = "record"
    /\ \/ /\ welcomeId' = worker[w].message
          /\ shown' = worker[w].text
          /\ UNCHANGED faults
       \/ /\ welcomeId' \in {welcomeId, worker[w].message}
          /\ Fault /\ UNCHANGED shown
    /\ Step(w, "job")
    /\ UNCHANGED <<channel, jobVars, answered, taskVars, discordVars,
                   request, overlaps, crowded, ran>>

(* The row of the space created last, if any. *)
GetJobBySpaceIDAndKind == IF jobs = <<>> THEN {} ELSE {jobs[Len(jobs)]}

(* SET status = completed *)
UpdateJobStatus(rows) == completed \cup rows

(* Mutant: ORDER BY created_at, the oldest row. *)
AdvanceJobOldest(w) ==
    /\ worker[w].pc = "job"
    /\ Step(w, "finish")
    /\ ran' = ran \cup {worker[w].id}
    /\ completed' = completed \cup (IF jobs = <<>> THEN {} ELSE {jobs[1]})
    /\ UNCHANGED <<rowVars, jobs, answered, taskVars, discordVars, request,
                   overlaps, crowded, shown, faults>>

(* advanceJob: the payload has no job id, so the space's newest welcome job *)
(* is taken to be this one. Errors are ignored.                             *)
AdvanceJob(w) ==
    /\ worker[w].pc = "job"
    /\ Step(w, "finish")
    /\ ran' = ran \cup {worker[w].id}
    /\ \/ /\ completed' = UpdateJobStatus(GetJobBySpaceIDAndKind)
          /\ UNCHANGED faults
       \/ Fault /\ UNCHANGED completed
    /\ UNCHANGED <<rowVars, jobs, answered, taskVars, discordVars, request,
                   overlaps, crowded, shown>>

(* The handler returns nil, and asynq forgets the task and its id. *)
Finish(w) ==
    /\ worker[w].pc = "finish"
    /\ Return(w, {"none"})
    /\ UNCHANGED <<rowVars, jobVars, answered, discordVars, request,
                   historyVars, faults>>

(* The process has died, or is only slow and goes on. *)
LeaseLost(w) ==
    /\ Busy(w)
    /\ Fault
    /\ Settle(worker[w].id, {"waiting", "dead"})
    /\ worker' \in {worker, [worker EXCEPT ![w] = Idle]}
    /\ UNCHANGED <<rowVars, jobVars, answered, discordVars, request,
                   historyVars>>

-----------------------------------------------------------------------------
(* The rest of the system *)

(* provision_space has recorded the channel (see Provisioning). *)
Provisioned ==
    /\ ~channel
    /\ channel' = TRUE
    /\ UNCHANGED <<welcomeId, jobVars, answered, taskVars, discordVars,
                   request, worker, historyVars, faults>>

(* A moderator deletes a message, and with it its pin. *)
DeleteMessage(m) ==
    /\ content[m] # None
    /\ content' = [content EXCEPT ![m] = None]
    /\ pinned' = pinned \ {m}
    /\ UNCHANGED <<rowVars, jobVars, answered, taskVars, topic, posted,
                   request, worker, historyVars, faults>>

(* The API process dies in the middle of a request. *)
APICrash(r) ==
    /\ InFlight(r)
    /\ Fault
    /\ Reply(r)
    /\ UNCHANGED <<rowVars, jobVars, answered, taskVars, discordVars, worker,
                   historyVars>>

-----------------------------------------------------------------------------

RequestStep(r) ==
    \/ GetSpaceByID(r) \/ CreateJob(r) \/ Enqueue(r) \/ StoreResponse(r)
    \/ APICrash(r)

WorkerStep(w) ==
    \/ LoadSpace(w) \/ SetChannelTopic(w) \/ EditMessage(w) \/ SendMessage(w)
    \/ PinMessage(w) \/ UpdateSpaceWelcomeMessageID(w) \/ AdvanceJob(w)
    \/ Finish(w) \/ LeaseLost(w)

Next ==
    \/ \E r \in Requests, text \in Texts \cup {None}, key \in Keys \cup {None} :
         Send(r, text, key)
    \/ \E r \in Requests : RequestStep(r)
    \/ \E w \in Workers, i \in TaskIds : StartTask(w, i)
    \/ \E w \in Workers : WorkerStep(w)
    \/ \E m \in Messages : DeleteMessage(m)
    \/ Provisioned

Spec == Init /\ [][Next]_vars

-----------------------------------------------------------------------------
(* Properties *)

(* The message a space records as its welcome is pinned under a topic that  *)
(* is set, unless somebody deleted it: whatever fails in between, no run    *)
(* records a message it has not pinned.                                     *)
RecordedIsPinned ==
    welcomeId # None =>
        topic /\ (content[welcomeId] = None \/ welcomeId \in pinned)

(* A re-sync edits the pin rather than adding one (AC-4): every pin beyond  *)
(* the first is owed to a failure or to a run that overlapped another.      *)
ExtraPinsNeedCause == Cardinality(pinned) <= 1 + faults + overlaps

(* If runs do not overlap, the message a space records shows the text of    *)
(* the run that recorded it last, until the next run begins: an edit that   *)
(* failed half-way leaves no older text in place.                           *)
RecordedShowsLastText ==
    overlaps = 0 /\ shown # None => content[welcomeId] \in {shown, None}

(* Syncs requested one after another, with nothing failing and no task      *)
(* archived: the jobs that are completed are those whose own tasks have     *)
(* run, though a run does not know its job. (Of syncs that crowd each       *)
(* other, only the newest job is; and a run after one that was archived     *)
(* completes the job of that.)                                              *)
JobsFollowRuns ==
    ~crowded /\ faults = 0 /\ (\A i \in TaskIds : task[i] # "dead") =>
        completed = {i \in ran : HasJob(i)}
=============================================================================
