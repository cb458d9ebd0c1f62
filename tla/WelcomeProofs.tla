---------------------------- MODULE WelcomeProofs ----------------------------
(***************************************************************************)
(* Proofs about Welcome, for any requests, keys, texts and goroutines and  *)
(* any number of messages and failures.                                    *)
(***************************************************************************)
EXTENDS Welcome, TLAPS, FiniteSetTheorems

USE BoundsAssumption, NoneAssumption, DefaultAssumption

-----------------------------------------------------------------------------
(* Types *)

(* What a run holds in hand at each of its steps. *)
Typed(x) ==
    /\ x \in WorkerRec
    /\ x.pc # "idle" => x.id \in TaskIds
    /\ x.pc \in {"topic", "edit", "send", "pin", "record"} =>
         x.text \in Contents
    /\ x.pc \in {"edit", "pin", "record"} => x.message \in Messages

TypeInv == TypeOK /\ \A w \in Workers : Typed(worker[w])

LEMMA FaultCounted ==
  ASSUME faults \in 0..MaxFaults, Fault \/ UNCHANGED faults
  PROVE /\ faults' \in 0..MaxFaults
        /\ faults' = 0 => faults = 0 /\ ~Fault
  BY DEF Fault

LEMMA IdleTyped == Typed(Idle) /\ Idle.pc = "idle"
  BY DEF Idle, WorkerRec, Typed, MaybeText, MaybeMessage, Contents

LEMMA RequestsTyped ==
  /\ Unsent \in RequestRec /\ Unsent.pc = "unsent"
  /\ Done \in RequestRec /\ Done.pc = "done"
  BY DEF Unsent, Done, RequestRec

LEMMA TypeInit == Init => TypeInv
<1> SUFFICES ASSUME Init PROVE TypeInv
  OBVIOUS
<1>1. /\ worker \in [Workers -> WorkerRec]
      /\ \A w \in Workers : worker[w] = Idle
  BY IdleTyped DEF Init, Typed
<1>2. request \in [Requests -> RequestRec]
  BY RequestsTyped DEF Init
<1>3. channel \in BOOLEAN /\ topic \in BOOLEAN /\ crowded \in BOOLEAN
  BY DEF Init
<1>4. /\ jobs \in Seq(TaskIds) /\ completed \in SUBSET TaskIds
      /\ answered \in SUBSET Keys /\ ran \in SUBSET TaskIds
  BY DEF Init
<1>5. /\ task \in [TaskIds -> {"none", "waiting", "running", "dead"}]
      /\ payload \in [TaskIds -> Texts \cup {None}]
  BY DEF Init
<1>6. /\ content \in [Messages -> MaybeText]
      /\ pinned \in SUBSET {m \in Messages : content[m] # None}
  BY DEF Init, MaybeText
<1>7. welcomeId \in MaybeMessage /\ shown \in MaybeText
  BY DEF Init, MaybeText, MaybeMessage
<1>8. posted \in 0..MaxMessages /\ overlaps \in Nat /\ faults \in 0..MaxFaults
  BY DEF Init
<1>9. TypeOK
  BY <1>1, <1>2, <1>3, <1>4, <1>5, <1>6, <1>7, <1>8 DEF TypeOK
<1> QED BY <1>1, <1>9, IdleTyped DEF TypeInv

-----------------------------------------------------------------------------
(* What steps do to workers, requests and tasks *)

(* One run goes on, with y in hand. *)
Moves(w, y) == worker' = [worker EXCEPT ![w] = y]

LEMMA MovesTyped ==
  ASSUME TypeInv, NEW w \in Workers, NEW y, Typed(y), Moves(w, y)
  PROVE /\ worker' \in [Workers -> WorkerRec]
        /\ \A v \in Workers : Typed(worker'[v])
        /\ worker'[w] = y
        /\ \A v \in Workers : v # w => worker'[v] = worker[v]
  BY DEF TypeInv, TypeOK, Moves, Typed

(* A step that only moves a run's pc. *)
LEMMA StepMoves ==
  ASSUME TypeInv, NEW w \in Workers, NEW pc, Step(w, pc),
         pc \in {"send", "edit", "record", "job", "finish"},
         worker[w].pc # "idle",
         pc \in {"send", "edit", "record"} => worker[w].text \in Contents,
         pc \in {"edit", "record"} => worker[w].message \in Messages
  PROVE \E y : /\ Moves(w, y) /\ Typed(y) /\ y.pc = pc
               /\ y.id = worker[w].id /\ y.text = worker[w].text
               /\ y.message = worker[w].message
<1> DEFINE y == [worker[w] EXCEPT !.pc = pc]
<1>1. worker[w] \in WorkerRec /\ Typed(worker[w])
  BY DEF TypeInv, TypeOK
<1>2. /\ y \in WorkerRec /\ y.pc = pc
      /\ y.id = worker[w].id /\ y.text = worker[w].text
      /\ y.message = worker[w].message
  BY <1>1 DEF WorkerRec
<1>3. Typed(y)
  BY <1>1, <1>2 DEF Typed
<1>4. Moves(w, y)
  BY DEF Step, Moves
<1> HIDE DEF y
<1> QED BY <1>2, <1>3, <1>4

(* asynq moves at most one task, and only a running one. *)
Settles(i, statuses) ==
    /\ task' \in [TaskIds -> {"none", "waiting", "running", "dead"}]
    /\ payload' \in [TaskIds -> Texts \cup {None}]
    /\ \A j \in TaskIds : j # i \/ task[j] # "running" => task'[j] = task[j]
    /\ task[i] = "running" => task'[i] \in statuses

LEMMA SettleSettles ==
  ASSUME TypeOK, NEW i \in TaskIds, NEW statuses,
         statuses \subseteq {"none", "waiting", "dead"}, Settle(i, statuses)
  PROVE Settles(i, statuses)
<1>1. CASE task[i] = "running"
  <2>1. PICK s \in statuses :
          /\ task' = [task EXCEPT ![i] = s]
          /\ payload' = [payload EXCEPT ![i] = IF s = "none" THEN None ELSE @]
    BY <1>1 DEF Settle
  <2>2. task' \in [TaskIds -> {"none", "waiting", "running", "dead"}]
    BY <2>1 DEF TypeOK
  <2>3. payload' \in [TaskIds -> Texts \cup {None}]
    BY <2>1 DEF TypeOK
  <2> QED BY <1>1, <2>1, <2>2, <2>3 DEF TypeOK, Settles
<1>2. CASE task[i] # "running"
  BY <1>2 DEF Settle, TypeOK, Settles, taskVars
<1> QED BY <1>1, <1>2

LEMMA ReturnSettles ==
  ASSUME TypeInv, NEW w \in Workers, worker[w].pc # "idle", NEW statuses,
         statuses \subseteq {"none", "waiting", "dead"}, Return(w, statuses)
  PROVE Moves(w, Idle) /\ Settles(worker[w].id, statuses)
<1>1. worker[w].id \in TaskIds
  BY DEF TypeInv, Typed
<1> QED BY <1>1, SettleSettles DEF Return, Moves, TypeInv

LEMMA ReplyTyped ==
  ASSUME TypeOK, NEW r \in Requests,
         \/ Reply(r)
         \/ \E pc \in {"job", "enqueue", "answer"} : Goto(r, pc)
  PROVE request' \in [Requests -> RequestRec]
<1>1. CASE Reply(r)
  BY <1>1, RequestsTyped DEF TypeOK, Reply
<1>2. ASSUME NEW pc \in {"job", "enqueue", "answer"}, Goto(r, pc)
      PROVE request' \in [Requests -> RequestRec]
  BY <1>2 DEF TypeOK, Goto, RequestRec
<1> QED BY <1>1, <1>2

LEMMA TaskIdTyped ==
  ASSUME TypeOK, NEW r \in Requests
  PROVE TaskId(r) \in TaskIds
  BY DEF TypeOK, TaskId, TaskIds, RequestRec

LEMMA InsertTyped ==
  ASSUME TypeOK, NEW i \in TaskIds
  PROVE InsertJob(i) \in Seq(TaskIds)
  BY DEF TypeOK, InsertJob

-----------------------------------------------------------------------------
(* Every step keeps the types *)

(* Requests *)

LEMMA SendTypes ==
  ASSUME TypeInv, NEW r \in Requests, NEW text \in Texts \cup {None},
         NEW key \in Keys \cup {None}, Send(r, text, key)
  PROVE TypeInv'
<1>1. request' \in [Requests -> RequestRec]
  BY DEF Send, TypeInv, TypeOK, RequestRec
<1>2. crowded' \in BOOLEAN
  BY Zenon DEF Send, TypeInv, TypeOK
<1>3. UNCHANGED <<channel, welcomeId, jobs, completed, answered, task, payload,
                  topic, posted, content, pinned, worker, overlaps, ran, shown,
                  faults>>
  BY DEF Send, rowVars, jobVars, taskVars, discordVars
<1>4. TypeOK'
  BY <1>1, <1>2, <1>3 DEF TypeInv, TypeOK
<1> QED BY <1>3, <1>4 DEF TypeInv

LEMMA RequestTypes ==
  ASSUME TypeInv, NEW r \in Requests, RequestStep(r)
  PROVE TypeInv'
<1>1. request' \in [Requests -> RequestRec]
  BY ReplyTyped DEF TypeInv, RequestStep, GetSpaceByID, CreateJob, Enqueue,
     StoreResponse, APICrash
<1>2. faults' \in 0..MaxFaults
  BY FaultCounted DEF TypeInv, TypeOK, RequestStep, GetSpaceByID, CreateJob,
     Enqueue, StoreResponse, APICrash
<1>3. jobs' \in Seq(TaskIds)
  BY TaskIdTyped, InsertTyped DEF TypeInv, TypeOK, RequestStep, GetSpaceByID,
     CreateJob, Enqueue, StoreResponse, APICrash, jobVars
<1>4. answered' \in SUBSET Keys
  BY DEF TypeInv, TypeOK, RequestStep, GetSpaceByID,
     CreateJob, Enqueue, StoreResponse, APICrash
<1>5. /\ task' \in [TaskIds -> {"none", "waiting", "running", "dead"}]
      /\ payload' \in [TaskIds -> Texts \cup {None}]
  <2>1. CASE Enqueue(r)
    <3>1. TaskId(r) \in TaskIds /\ request[r].text \in Texts \cup {None}
      BY TaskIdTyped DEF TypeInv, TypeOK, RequestRec
    <3> QED BY <2>1, <3>1 DEF TypeInv, TypeOK, Enqueue, taskVars
  <2>2. CASE ~Enqueue(r)
    BY <2>2 DEF TypeInv, TypeOK, RequestStep, GetSpaceByID, CreateJob,
       StoreResponse, APICrash, taskVars
  <2> QED BY <2>1, <2>2
<1>6. UNCHANGED <<channel, welcomeId, completed, topic, posted, content,
                  pinned, worker, overlaps, crowded, ran, shown>>
  BY DEF RequestStep, GetSpaceByID, CreateJob, Enqueue, StoreResponse,
     APICrash, rowVars, jobVars, discordVars, historyVars
<1>7. TypeOK'
  BY <1>1, <1>2, <1>3, <1>4, <1>5, <1>6 DEF TypeInv, TypeOK
<1> QED BY <1>6, <1>7 DEF TypeInv

(* Runs *)

(* What the step of a run leaves to show, once run and tasks are typed. *)
LEMMA RunTypes ==
  ASSUME TypeInv,
         worker' \in [Workers -> WorkerRec],
         \A v \in Workers : Typed(worker'[v]),
         task' \in [TaskIds -> {"none", "waiting", "running", "dead"}],
         payload' \in [TaskIds -> Texts \cup {None}],
         topic' \in BOOLEAN, posted' \in 0..MaxMessages,
         content' \in [Messages -> MaybeText],
         pinned' \in SUBSET {m \in Messages : content'[m] # None},
         welcomeId' \in MaybeMessage, completed' \in SUBSET TaskIds,
         overlaps' \in Nat, ran' \in SUBSET TaskIds, shown' \in MaybeText,
         Fault \/ UNCHANGED faults,
         UNCHANGED <<channel, jobs, answered, request, crowded>>
  PROVE TypeInv'
<1>1. faults' \in 0..MaxFaults
  BY FaultCounted DEF TypeInv, TypeOK
<1>2. TypeOK'
  BY <1>1 DEF TypeInv, TypeOK
<1> QED BY <1>2 DEF TypeInv

LEMMA StartTaskTypes ==
  ASSUME TypeInv, NEW w \in Workers, NEW i \in TaskIds, StartTask(w, i)
  PROVE TypeInv' /\ Moves(w, [Idle EXCEPT !.pc = "load", !.id = i])
<1> DEFINE y == [Idle EXCEPT !.pc = "load", !.id = i]
<1>1. Typed(y)
  <2>1. /\ y \in WorkerRec /\ y.pc = "load" /\ y.id = i
    BY IdleTyped DEF Idle, WorkerRec, Typed, MaybeText, MaybeMessage
  <2> QED BY <2>1 DEF Typed
<1>2. Moves(w, y)
  BY DEF StartTask, Moves
<1>3. /\ worker' \in [Workers -> WorkerRec]
      /\ \A v \in Workers : Typed(worker'[v])
  BY <1>1, <1>2, MovesTyped
<1>4. /\ task' \in [TaskIds -> {"none", "waiting", "running", "dead"}]
      /\ overlaps' \in Nat
  BY DEF StartTask, TypeInv, TypeOK
<1>5. shown' \in MaybeText
  BY DEF StartTask, MaybeText
<1>6. UNCHANGED <<channel, welcomeId, jobs, completed, answered, payload,
                  topic, posted, content, pinned, request, crowded, ran,
                  faults>>
  BY DEF StartTask, rowVars, jobVars, discordVars
<1>7. TypeOK'
  BY <1>3, <1>4, <1>5, <1>6 DEF TypeInv, TypeOK
<1> QED BY <1>2, <1>3, <1>7 DEF TypeInv

(* What a run may do with its task: go on with it, or hand it back. *)
Continues(w, y) == Moves(w, y) /\ Typed(y) /\ UNCHANGED taskVars
HandsBack(w, statuses) ==
    Moves(w, Idle) /\ Settles(worker[w].id, statuses)

LEMMA ContinuesTyped ==
  ASSUME TypeInv, NEW w \in Workers,
         \/ \E y : Continues(w, y)
         \/ \E statuses : HandsBack(w, statuses)
  PROVE /\ worker' \in [Workers -> WorkerRec]
        /\ \A v \in Workers : Typed(worker'[v])
        /\ task' \in [TaskIds -> {"none", "waiting", "running", "dead"}]
        /\ payload' \in [TaskIds -> Texts \cup {None}]
<1>1. ASSUME NEW y, Continues(w, y)
      PROVE /\ worker' \in [Workers -> WorkerRec]
            /\ \A v \in Workers : Typed(worker'[v])
            /\ task' \in [TaskIds -> {"none", "waiting", "running", "dead"}]
            /\ payload' \in [TaskIds -> Texts \cup {None}]
  BY <1>1, MovesTyped DEF TypeInv, TypeOK, Continues, taskVars
<1>2. ASSUME NEW statuses, HandsBack(w, statuses)
      PROVE /\ worker' \in [Workers -> WorkerRec]
            /\ \A v \in Workers : Typed(worker'[v])
            /\ task' \in [TaskIds -> {"none", "waiting", "running", "dead"}]
            /\ payload' \in [TaskIds -> Texts \cup {None}]
  BY <1>2, MovesTyped, IdleTyped DEF HandsBack, Settles
<1> QED BY <1>1, <1>2

LEMMA ReturnErrorHandsBack ==
  ASSUME TypeInv, NEW w \in Workers, worker[w].pc # "idle", ReturnError(w)
  PROVE HandsBack(w, {"waiting", "dead"})
  BY ReturnSettles DEF ReturnError, HandsBack

LEMMA LoadSpaceEffect ==
  ASSUME TypeInv, NEW w \in Workers, LoadSpace(w)
  PROVE /\ worker[w].pc = "load"
        /\ \/ /\ channel /\ UNCHANGED faults
              /\ \E y : /\ Continues(w, y) /\ y.pc = "topic"
                        /\ y.id = worker[w].id /\ y.message = welcomeId
           \/ HandsBack(w, {"dead"}) /\ UNCHANGED faults
           \/ HandsBack(w, {"waiting", "dead"}) /\ Fault
<1>1. worker[w] \in WorkerRec /\ worker[w].pc = "load" /\ worker[w].id \in TaskIds
  BY DEF TypeInv, TypeOK, Typed, LoadSpace
<1> DEFINE asked == payload[worker[w].id]
           y == [worker[w] EXCEPT !.pc = "topic",
                   !.text = IF asked = None THEN "default" ELSE asked,
                   !.message = welcomeId]
<1>2. asked \in Texts \cup {None} /\ welcomeId \in MaybeMessage
  BY <1>1 DEF TypeInv, TypeOK
<1>3. CASE channel /\ UNCHANGED <<taskVars, faults>>
           /\ worker' = [worker EXCEPT ![w].pc = "topic",
                          ![w].text = IF asked = None THEN "default"
                                      ELSE asked,
                          ![w].message = welcomeId]
  <2>1. Moves(w, y)
    BY <1>3 DEF Moves
  <2>2. (IF asked = None THEN "default" ELSE asked) \in Contents
    BY <1>2 DEF Contents
  <2> HIDE DEF asked
  <2>3. y \in WorkerRec
    BY <1>1, <1>2, <2>2 DEF WorkerRec, MaybeText
  <2>4. y.pc = "topic" /\ y.id = worker[w].id /\ y.message = welcomeId
        /\ y.text \in Contents
    BY <1>1, <2>2 DEF WorkerRec
  <2>5. Typed(y)
    BY <1>1, <2>3, <2>4 DEF Typed
  <2> HIDE DEF y
  <2> QED BY <1>1, <1>3, <2>1, <2>4, <2>5 DEF Continues
<1>4. CASE Return(w, {"dead"}) /\ UNCHANGED faults
  BY <1>1, <1>4, ReturnSettles DEF HandsBack
<1>5. CASE Fault /\ ReturnError(w)
  BY <1>1, <1>5, ReturnErrorHandsBack
<1> QED BY <1>3, <1>4, <1>5 DEF LoadSpace

LEMMA LoadSpaceTypes ==
  ASSUME TypeInv, NEW w \in Workers, LoadSpace(w)
  PROVE TypeInv'
<1>1. /\ worker' \in [Workers -> WorkerRec]
      /\ \A v \in Workers : Typed(worker'[v])
      /\ task' \in [TaskIds -> {"none", "waiting", "running", "dead"}]
      /\ payload' \in [TaskIds -> Texts \cup {None}]
      /\ Fault \/ UNCHANGED faults
  BY LoadSpaceEffect, ContinuesTyped
<1>2. UNCHANGED <<channel, welcomeId, jobs, completed, answered, topic, posted,
                  content, pinned, request, overlaps, crowded, ran, shown>>
  BY DEF LoadSpace, rowVars, jobVars, discordVars, historyVars
<1> QED BY <1>1, <1>2, RunTypes DEF TypeInv, TypeOK

(* The run goes on at pc, with the same things in hand. *)
GoesOn(w, pc) ==
    \E y : /\ Continues(w, y) /\ y.pc = pc /\ y.id = worker[w].id
           /\ y.text = worker[w].text /\ y.message = worker[w].message

LEMMA SetChannelTopicEffect ==
  ASSUME TypeInv, NEW w \in Workers, SetChannelTopic(w)
  PROVE /\ worker[w].pc = "topic" /\ topic' \in {topic, TRUE}
        /\ \/ /\ topic' = TRUE /\ UNCHANGED faults
              /\ \/ worker[w].message = None /\ GoesOn(w, "send")
                 \/ worker[w].message # None /\ GoesOn(w, "edit")
           \/ HandsBack(w, {"waiting", "dead"}) /\ Fault
<1>1. /\ worker[w] \in WorkerRec /\ worker[w].pc = "topic"
      /\ worker[w].text \in Contents /\ worker[w].message \in MaybeMessage
  BY DEF TypeInv, TypeOK, Typed, SetChannelTopic, WorkerRec
<1>2. CASE /\ topic' = TRUE /\ UNCHANGED <<taskVars, faults>>
           /\ Step(w, IF worker[w].message = None THEN "send" ELSE "edit")
  <2>1. CASE worker[w].message = None
    BY <1>1, <1>2, <2>1, StepMoves DEF GoesOn, Continues
  <2>2. CASE worker[w].message # None
    BY <1>1, <1>2, <2>2, StepMoves DEF GoesOn, Continues, MaybeMessage
  <2> QED BY <1>1, <1>2, <2>1, <2>2
<1>3. CASE topic' \in {topic, TRUE} /\ Fault /\ ReturnError(w)
  BY <1>1, <1>3, ReturnErrorHandsBack
<1> QED BY <1>2, <1>3 DEF SetChannelTopic

LEMMA SetChannelTopicTypes ==
  ASSUME TypeInv, NEW w \in Workers, SetChannelTopic(w)
  PROVE TypeInv'
<1>1. /\ worker' \in [Workers -> WorkerRec]
      /\ \A v \in Workers : Typed(worker'[v])
      /\ task' \in [TaskIds -> {"none", "waiting", "running", "dead"}]
      /\ payload' \in [TaskIds -> Texts \cup {None}]
      /\ Fault \/ UNCHANGED faults
  BY SetChannelTopicEffect, ContinuesTyped DEF GoesOn
<1>2. topic' \in BOOLEAN
  BY SetChannelTopicEffect, Zenon DEF TypeInv, TypeOK
<1>3. UNCHANGED <<channel, welcomeId, jobs, completed, answered, posted,
                  content, pinned, request, overlaps, crowded, ran, shown>>
  BY DEF SetChannelTopic, rowVars, jobVars, historyVars
<1> QED BY <1>1, <1>2, <1>3, RunTypes DEF TypeInv, TypeOK

LEMMA EditMessageEffect ==
  ASSUME TypeInv, NEW w \in Workers, EditMessage(w)
  PROVE /\ worker[w].pc = "edit" /\ worker[w].message \in Messages
        /\ worker[w].text \in Contents
        /\ \/ /\ content[worker[w].message] # None
              /\ content' = [content EXCEPT ![worker[w].message] =
                                               worker[w].text]
           \/ content' = content
        /\ \/ /\ GoesOn(w, "record") /\ UNCHANGED faults
              /\ content'[worker[w].message] = worker[w].text
           \/ GoesOn(w, "send") /\ (Fault \/ UNCHANGED faults)
<1>1. /\ worker[w] \in WorkerRec /\ worker[w].pc = "edit"
      /\ worker[w].text \in Contents /\ worker[w].message \in Messages
  BY DEF TypeInv, TypeOK, Typed, EditMessage
<1>2. ASSUME NEW pc \in {"record", "send"}, Step(w, pc)
      PROVE GoesOn(w, pc)
  BY <1>1, <1>2, StepMoves DEF GoesOn, Continues, EditMessage
<1> QED BY <1>1, <1>2 DEF EditMessage, EditedMessage, TypeInv, TypeOK

(* An edit of a message that exists keeps messages and pins typed. *)
LEMMA EditTyped ==
  ASSUME TypeInv, NEW m \in Messages, NEW text \in Contents, content[m] # None
  PROVE LET edited == [content EXCEPT ![m] = text] IN
        /\ edited \in [Messages -> MaybeText]
        /\ pinned \in SUBSET {n \in Messages : edited[n] # None}
<1>1. text # None /\ text \in MaybeText
  BY DEF Contents, MaybeText
<1> QED BY <1>1 DEF TypeInv, TypeOK

LEMMA EditMessageTypes ==
  ASSUME TypeInv, NEW w \in Workers, EditMessage(w)
  PROVE TypeInv'
<1>1. /\ worker' \in [Workers -> WorkerRec]
      /\ \A v \in Workers : Typed(worker'[v])
      /\ task' \in [TaskIds -> {"none", "waiting", "running", "dead"}]
      /\ payload' \in [TaskIds -> Texts \cup {None}]
      /\ Fault \/ UNCHANGED faults
  BY EditMessageEffect, ContinuesTyped DEF GoesOn
<1>2. /\ content' \in [Messages -> MaybeText]
      /\ pinned \in SUBSET {m \in Messages : content'[m] # None}
  BY EditMessageEffect, EditTyped DEF TypeInv, TypeOK
<1>3. UNCHANGED <<channel, welcomeId, jobs, completed, answered, topic, posted,
                  pinned, request, overlaps, crowded, ran, shown>>
  BY DEF EditMessage, rowVars, jobVars, historyVars
<1> QED BY <1>1, <1>2, <1>3, RunTypes DEF TypeInv, TypeOK

LEMMA SendMessageEffect ==
  ASSUME TypeInv, NEW w \in Workers, SendMessage(w)
  PROVE /\ worker[w].pc = "send" /\ worker[w].text \in Contents
        /\ posted + 1 \in Messages
        /\ \/ /\ posted' = posted + 1
              /\ content' = [content EXCEPT ![posted + 1] = worker[w].text]
           \/ UNCHANGED <<posted, content>>
        /\ \/ /\ posted' = posted + 1 /\ UNCHANGED faults
              /\ content' = [content EXCEPT ![posted + 1] = worker[w].text]
              /\ \E y : /\ Continues(w, y) /\ y.pc = "pin"
                        /\ y.id = worker[w].id /\ y.text = worker[w].text
                        /\ y.message = posted + 1
           \/ HandsBack(w, {"waiting", "dead"}) /\ Fault
<1>1. /\ worker[w] \in WorkerRec /\ worker[w].pc = "send"
      /\ worker[w].text \in Contents /\ worker[w].id \in TaskIds
  BY DEF TypeInv, TypeOK, Typed, SendMessage
<1>2. posted + 1 \in Messages
  BY DEF SendMessage, TypeInv, TypeOK, Messages
<1>3. CASE /\ PostMessage(worker[w].text) /\ UNCHANGED <<taskVars, faults>>
           /\ worker' = [worker EXCEPT ![w].pc = "pin",
                                        ![w].message = posted + 1]
  <2> DEFINE n == posted + 1
             y == [worker[w] EXCEPT !.pc = "pin", !.message = n]
  <2>1. Moves(w, y)
    BY <1>3 DEF Moves
  <2>0. n \in MaybeMessage
    BY <1>2 DEF MaybeMessage
  <2> HIDE DEF n
  <2>2. y \in WorkerRec
    BY <1>1, <2>0 DEF WorkerRec
  <2>3. /\ y.pc = "pin" /\ y.id = worker[w].id /\ y.text = worker[w].text
        /\ y.message = n
    BY <1>1 DEF WorkerRec
  <2>4. Typed(y)
    BY <1>1, <1>2, <2>2, <2>3 DEF Typed, n
  <2> HIDE DEF y
  <2>5. Continues(w, y)
    BY <1>3, <2>1, <2>4 DEF Continues
  <2> QED BY <1>1, <1>2, <1>3, <2>3, <2>5 DEF PostMessage, n
<1>4. CASE PostMessage(worker[w].text) /\ Fault /\ ReturnError(w)
  BY <1>1, <1>2, <1>4, ReturnErrorHandsBack DEF PostMessage
<1>5. CASE UNCHANGED <<posted, content>> /\ Fault /\ ReturnError(w)
  BY <1>1, <1>2, <1>5, ReturnErrorHandsBack
<1> QED BY <1>3, <1>4, <1>5 DEF SendMessage

LEMMA SendMessageTypes ==
  ASSUME TypeInv, NEW w \in Workers, SendMessage(w)
  PROVE TypeInv'
<1>1. /\ worker' \in [Workers -> WorkerRec]
      /\ \A v \in Workers : Typed(worker'[v])
      /\ task' \in [TaskIds -> {"none", "waiting", "running", "dead"}]
      /\ payload' \in [TaskIds -> Texts \cup {None}]
      /\ Fault \/ UNCHANGED faults
  BY SendMessageEffect, ContinuesTyped
<1>2. CASE /\ posted' = posted + 1 /\ posted + 1 \in Messages
           /\ worker[w].text \in Contents
           /\ content' = [content EXCEPT ![posted + 1] = worker[w].text]
  <2>1. worker[w].text # None /\ worker[w].text \in MaybeText
    BY <1>2 DEF Contents, MaybeText
  <2>2. posted' \in 0..MaxMessages
    BY <1>2 DEF Messages
  <2>3. /\ content' \in [Messages -> MaybeText]
        /\ pinned \in SUBSET {m \in Messages : content'[m] # None}
    BY <1>2, <2>1 DEF TypeInv, TypeOK
  <2> QED BY <1>1, <2>2, <2>3, RunTypes DEF TypeInv, TypeOK, SendMessage,
             rowVars, jobVars, historyVars
<1>3. CASE UNCHANGED <<posted, content>>
  BY <1>1, <1>3, RunTypes DEF TypeInv, TypeOK, SendMessage, rowVars, jobVars,
     historyVars
<1> QED BY <1>2, <1>3, SendMessageEffect

LEMMA PinMessageEffect ==
  ASSUME TypeInv, NEW w \in Workers, PinMessage(w)
  PROVE /\ worker[w].pc = "pin" /\ worker[w].message \in Messages
        /\ \/ /\ content[worker[w].message] # None
              /\ pinned' = pinned \cup {worker[w].message}
           \/ pinned' = pinned
        /\ \/ /\ GoesOn(w, "record") /\ UNCHANGED faults
              /\ worker[w].message \in pinned'
           \/ /\ HandsBack(w, {"waiting", "dead"})
              /\ Fault \/ UNCHANGED faults
<1>1. /\ worker[w] \in WorkerRec /\ worker[w].pc = "pin"
      /\ worker[w].text \in Contents /\ worker[w].message \in Messages
  BY DEF TypeInv, TypeOK, Typed, PinMessage
<1>2. ASSUME Step(w, "record"), UNCHANGED taskVars
      PROVE GoesOn(w, "record")
  BY <1>1, <1>2, StepMoves DEF GoesOn, Continues
<1>3. ASSUME ReturnError(w)
      PROVE HandsBack(w, {"waiting", "dead"})
  BY <1>1, <1>3, ReturnErrorHandsBack
<1> QED BY <1>1, <1>2, <1>3 DEF PinMessage, PinnedMessage

LEMMA PinMessageTypes ==
  ASSUME TypeInv, NEW w \in Workers, PinMessage(w)
  PROVE TypeInv'
<1>1. /\ worker' \in [Workers -> WorkerRec]
      /\ \A v \in Workers : Typed(worker'[v])
      /\ task' \in [TaskIds -> {"none", "waiting", "running", "dead"}]
      /\ payload' \in [TaskIds -> Texts \cup {None}]
      /\ Fault \/ UNCHANGED faults
  BY PinMessageEffect, ContinuesTyped DEF GoesOn
<1>2. pinned' \in SUBSET {m \in Messages : content[m] # None}
  BY PinMessageEffect DEF TypeInv, TypeOK
<1>3. UNCHANGED <<channel, welcomeId, jobs, completed, answered, topic, posted,
                  content, request, overlaps, crowded, ran, shown>>
  BY DEF PinMessage, rowVars, jobVars, historyVars
<1> QED BY <1>1, <1>2, <1>3, RunTypes DEF TypeInv, TypeOK

LEMMA RecordEffect ==
  ASSUME TypeInv, NEW w \in Workers, UpdateSpaceWelcomeMessageID(w)
  PROVE /\ worker[w].pc = "record" /\ worker[w].message \in Messages
        /\ worker[w].text \in Contents
        /\ GoesOn(w, "job")
        /\ welcomeId' \in {welcomeId, worker[w].message}
        /\ \/ /\ welcomeId' = worker[w].message /\ shown' = worker[w].text
              /\ UNCHANGED faults
           \/ UNCHANGED shown /\ Fault
<1>1. /\ worker[w] \in WorkerRec /\ worker[w].pc = "record"
      /\ worker[w].text \in Contents /\ worker[w].message \in Messages
  BY DEF TypeInv, TypeOK, Typed, UpdateSpaceWelcomeMessageID
<1>2. GoesOn(w, "job")
  BY <1>1, StepMoves DEF UpdateSpaceWelcomeMessageID, GoesOn, Continues
<1> QED BY <1>1, <1>2 DEF UpdateSpaceWelcomeMessageID

LEMMA RecordTypes ==
  ASSUME TypeInv, NEW w \in Workers, UpdateSpaceWelcomeMessageID(w)
  PROVE TypeInv'
<1>1. /\ worker' \in [Workers -> WorkerRec]
      /\ \A v \in Workers : Typed(worker'[v])
      /\ task' \in [TaskIds -> {"none", "waiting", "running", "dead"}]
      /\ payload' \in [TaskIds -> Texts \cup {None}]
      /\ Fault \/ UNCHANGED faults
  BY RecordEffect, ContinuesTyped DEF GoesOn
<1>2. welcomeId' \in MaybeMessage /\ shown' \in MaybeText
  BY RecordEffect DEF TypeInv, TypeOK, MaybeMessage, MaybeText
<1>3. UNCHANGED <<channel, jobs, completed, answered, topic, posted, content,
                  pinned, request, overlaps, crowded, ran>>
  BY DEF UpdateSpaceWelcomeMessageID, jobVars, discordVars
<1> QED BY <1>1, <1>2, <1>3, RunTypes DEF TypeInv, TypeOK

LEMMA AdvanceJobEffect ==
  ASSUME TypeInv, NEW w \in Workers, AdvanceJob(w)
  PROVE /\ worker[w].pc = "job" /\ worker[w].id \in TaskIds
        /\ GoesOn(w, "finish") /\ ran' = ran \cup {worker[w].id}
        /\ \/ /\ completed' = completed \cup GetJobBySpaceIDAndKind
              /\ UNCHANGED faults
           \/ completed' = completed /\ Fault
<1>1. /\ worker[w] \in WorkerRec /\ worker[w].pc = "job"
      /\ worker[w].id \in TaskIds
  BY DEF TypeInv, TypeOK, Typed, AdvanceJob
<1>2. GoesOn(w, "finish")
  BY <1>1, StepMoves DEF AdvanceJob, GoesOn, Continues
<1> QED BY <1>1, <1>2 DEF AdvanceJob, UpdateJobStatus

LEMMA AdvanceJobTypes ==
  ASSUME TypeInv, NEW w \in Workers, AdvanceJob(w)
  PROVE TypeInv'
<1>1. /\ worker' \in [Workers -> WorkerRec]
      /\ \A v \in Workers : Typed(worker'[v])
      /\ task' \in [TaskIds -> {"none", "waiting", "running", "dead"}]
      /\ payload' \in [TaskIds -> Texts \cup {None}]
      /\ Fault \/ UNCHANGED faults
  BY AdvanceJobEffect, ContinuesTyped DEF GoesOn
<1>2. GetJobBySpaceIDAndKind \in SUBSET TaskIds
  BY DEF GetJobBySpaceIDAndKind, TypeInv, TypeOK
<1>3. completed' \in SUBSET TaskIds /\ ran' \in SUBSET TaskIds
  BY <1>2, AdvanceJobEffect DEF TypeInv, TypeOK
<1>4. UNCHANGED <<channel, welcomeId, jobs, answered, topic, posted, content,
                  pinned, request, overlaps, crowded, shown>>
  BY DEF AdvanceJob, rowVars, discordVars
<1> QED BY <1>1, <1>3, <1>4, RunTypes DEF TypeInv, TypeOK

LEMMA FinishEffect ==
  ASSUME TypeInv, NEW w \in Workers, Finish(w)
  PROVE worker[w].pc = "finish" /\ HandsBack(w, {"none"})
  BY ReturnSettles DEF Finish, HandsBack

LEMMA FinishTypes ==
  ASSUME TypeInv, NEW w \in Workers, Finish(w)
  PROVE TypeInv'
<1>1. /\ worker' \in [Workers -> WorkerRec]
      /\ \A v \in Workers : Typed(worker'[v])
      /\ task' \in [TaskIds -> {"none", "waiting", "running", "dead"}]
      /\ payload' \in [TaskIds -> Texts \cup {None}]
  BY FinishEffect, ContinuesTyped
<1>2. UNCHANGED <<channel, welcomeId, jobs, completed, answered, topic, posted,
                  content, pinned, request, overlaps, crowded, ran, shown,
                  faults>>
  BY DEF Finish, rowVars, jobVars, discordVars, historyVars
<1> QED BY <1>1, <1>2, RunTypes DEF TypeInv, TypeOK

LEMMA LeaseLostTypes ==
  ASSUME TypeInv, NEW w \in Workers, LeaseLost(w)
  PROVE TypeInv'
<1>1. worker[w].id \in TaskIds
  BY DEF LeaseLost, Busy, TypeInv, Typed
<1>2. Settles(worker[w].id, {"waiting", "dead"})
  BY <1>1, SettleSettles DEF LeaseLost, TypeInv
<1>3. /\ worker' \in [Workers -> WorkerRec]
      /\ \A v \in Workers : Typed(worker'[v])
  BY MovesTyped, IdleTyped DEF LeaseLost, Moves, TypeInv, TypeOK
<1>4. UNCHANGED <<channel, welcomeId, jobs, completed, answered, topic, posted,
                  content, pinned, request, overlaps, crowded, ran, shown>>
  BY DEF LeaseLost, rowVars, jobVars, discordVars, historyVars
<1> QED BY <1>2, <1>3, <1>4, RunTypes DEF TypeInv, TypeOK, Settles, LeaseLost

(* The rest *)

LEMMA DeleteMessageTypes ==
  ASSUME TypeInv, NEW m \in Messages, DeleteMessage(m)
  PROVE TypeInv'
<1>1. /\ content' = [content EXCEPT ![m] = None] /\ pinned' = pinned \ {m}
      /\ UNCHANGED <<channel, welcomeId, jobs, completed, answered, task,
                     payload, topic, posted, request, worker, overlaps,
                     crowded, ran, shown, faults>>
  BY DEF DeleteMessage, rowVars, jobVars, taskVars, historyVars
<1>2. /\ content' \in [Messages -> MaybeText]
      /\ pinned' \in SUBSET {n \in Messages : content'[n] # None}
  BY <1>1 DEF TypeInv, TypeOK, MaybeText
<1> QED BY <1>1, <1>2 DEF TypeInv, TypeOK

LEMMA ProvisionedTypes ==
  ASSUME TypeInv, Provisioned
  PROVE TypeInv'
<1>1. /\ channel' = TRUE
      /\ UNCHANGED <<welcomeId, jobs, completed, answered, task, payload,
                     topic, posted, content, pinned, request, worker, overlaps,
                     crowded, ran, shown, faults>>
  BY DEF Provisioned, jobVars, taskVars, discordVars, historyVars
<1> QED BY <1>1 DEF TypeInv, TypeOK

LEMMA TypeNext == TypeInv /\ [Next]_vars => TypeInv'
<1> SUFFICES ASSUME TypeInv, [Next]_vars PROVE TypeInv'
  OBVIOUS
<1>1. ASSUME NEW w \in Workers, WorkerStep(w)
      PROVE TypeInv'
  BY <1>1, LoadSpaceTypes, SetChannelTopicTypes, EditMessageTypes,
     SendMessageTypes, PinMessageTypes, RecordTypes, AdvanceJobTypes,
     FinishTypes, LeaseLostTypes DEF WorkerStep
<1>2. CASE UNCHANGED vars
  BY <1>2 DEF vars, rowVars, jobVars, taskVars, discordVars, historyVars,
     TypeInv, TypeOK
<1> QED BY <1>1, <1>2, SendTypes, RequestTypes, StartTaskTypes,
           DeleteMessageTypes, ProvisionedTypes DEF Next

(* Every variable stays in its set: messages are pinned only while they     *)
(* exist, and jobs rows carry task ids.                                     *)
THEOREM TypeCorrect == Spec => []TypeOK
<1>1. TypeInv => TypeOK
  BY DEF TypeInv
<1> QED BY <1>1, TypeInit, TypeNext, PTL DEF Spec

-----------------------------------------------------------------------------
(* What is recorded is pinned *)

(* A posted message that is pinned, unless it was deleted. *)
Backed(m) == m <= posted /\ (content[m] = None \/ m \in pinned)

(* A run that will record m has pinned it, or has read it from the row. *)
PinKnows(x) ==
    /\ x.pc \in {"edit", "send", "pin", "record"} => topic
    /\ x.pc \in {"topic", "edit", "record"} /\ x.message # None =>
         topic /\ Backed(x.message)
    /\ x.pc = "pin" => x.message <= posted

PinInv ==
    /\ \A m \in Messages : m > posted => content[m] = None
    /\ welcomeId # None => topic /\ Backed(welcomeId)
    /\ \A w \in Workers : PinKnows(worker[w])

(* Nothing that is backed ceases to be. *)
Lasting ==
    /\ topic => topic'
    /\ posted' >= posted
    /\ \A m \in Messages : Backed(m) => Backed(m)'

LEMMA UnchangedLasts ==
  ASSUME TypeInv, UNCHANGED <<posted, content, pinned>>, topic => topic'
  PROVE Lasting
  BY DEF Lasting, Backed, TypeInv, TypeOK

LEMMA PinKnowsLasts ==
  ASSUME TypeInv, TypeInv', Lasting, NEW x, Typed(x), PinKnows(x)
  PROVE PinKnows(x)'
<1>1. x.message \in MaybeMessage
  BY DEF Typed, WorkerRec
<1>2. x.message # None => x.message \in Messages
  BY <1>1 DEF MaybeMessage
<1>3. x.pc = "pin" => x.message <= posted'
  BY DEF PinKnows, Lasting, Typed, TypeInv, TypeOK, Messages
<1> QED BY <1>2, <1>3 DEF PinKnows, Lasting

(* The step of one run, or of none. *)
LEMMA PinSteps ==
  ASSUME TypeInv, TypeInv', PinInv, Lasting,
         \A m \in Messages : m > posted' => content'[m] = None,
         welcomeId' # None => topic' /\ Backed(welcomeId)',
         \/ UNCHANGED worker
         \/ \E w \in Workers : \E y : Moves(w, y) /\ Typed(y) /\ PinKnows(y)'
  PROVE PinInv'
<1>1. \A w \in Workers : PinKnows(worker[w])'
  <2>1. \A x : Typed(x) /\ PinKnows(x) => PinKnows(x)'
    BY PinKnowsLasts
  <2>2. CASE UNCHANGED worker
    BY <2>1, <2>2 DEF PinInv, TypeInv
  <2>3. ASSUME NEW w \in Workers, NEW y, Moves(w, y), Typed(y), PinKnows(y)'
        PROVE \A v \in Workers : PinKnows(worker[v])'
    <3>1. /\ worker'[w] = y
          /\ \A v \in Workers : v # w => worker'[v] = worker[v]
      BY <2>3, MovesTyped
    <3> SUFFICES ASSUME NEW v \in Workers PROVE PinKnows(worker[v])'
      OBVIOUS
    <3>2. CASE v = w
      BY <2>3, <3>1, <3>2 DEF PinKnows
    <3>3. CASE v # w
      <4>1. PinKnows(worker[v])
        BY DEF PinInv
      <4>2. worker'[v] = worker[v] /\ Typed(worker[v])
        BY <3>1, <3>3 DEF TypeInv
      <4> QED BY <2>1, <4>1, <4>2 DEF PinKnows
    <3> QED BY <3>2, <3>3
  <2> QED BY <2>2, <2>3
<1> QED BY <1>1 DEF PinInv

LEMMA IdlePins == PinKnows(Idle)'
  BY IdleTyped DEF PinKnows

(* A step that leaves the channel and the row as they are. *)
LEMMA PinAside ==
  ASSUME TypeInv, TypeInv', PinInv,
         UNCHANGED <<topic, posted, content, pinned, welcomeId>>,
         \/ UNCHANGED worker
         \/ \E w \in Workers : \E y : Moves(w, y) /\ Typed(y) /\ PinKnows(y)'
  PROVE PinInv'
<1>1. Lasting
  BY UnchangedLasts
<1>2. /\ \A m \in Messages : m > posted' => content'[m] = None
      /\ welcomeId' # None => topic' /\ Backed(welcomeId)'
  BY DEF PinInv, Backed
<1> QED BY <1>1, <1>2, PinSteps

LEMMA PinInit == Init => PinInv
<1> SUFFICES ASSUME Init PROVE PinInv
  OBVIOUS
<1>1. \A w \in Workers : worker[w] = Idle
  BY DEF Init
<1>2. \A w \in Workers : PinKnows(worker[w])
  BY <1>1, IdleTyped DEF PinKnows
<1> QED BY <1>2 DEF Init, PinInv

LEMMA LoadSpacePins ==
  ASSUME TypeInv, TypeInv', PinInv, NEW w \in Workers, LoadSpace(w)
  PROVE PinInv'
<1>1. UNCHANGED <<topic, posted, content, pinned, welcomeId>>
  BY DEF LoadSpace, discordVars, rowVars
<1>2. \E y : Moves(w, y) /\ Typed(y) /\ PinKnows(y)'
  <2>1. ASSUME NEW y, Continues(w, y), y.pc = "topic", y.message = welcomeId
        PROVE Moves(w, y) /\ Typed(y) /\ PinKnows(y)'
    BY <1>1, <2>1 DEF Continues, PinKnows, PinInv, Backed
  <2>2. ASSUME NEW statuses, HandsBack(w, statuses)
        PROVE Moves(w, Idle) /\ Typed(Idle) /\ PinKnows(Idle)'
    BY <2>2, IdleTyped, IdlePins DEF HandsBack
  <2> QED BY <2>1, <2>2, LoadSpaceEffect
<1> QED BY <1>1, <1>2, PinAside

LEMMA SetChannelTopicPins ==
  ASSUME TypeInv, TypeInv', PinInv, NEW w \in Workers, SetChannelTopic(w)
  PROVE PinInv'
<1>0. topic => topic'
  BY SetChannelTopicEffect, Zenon
<1>1. UNCHANGED <<posted, content, pinned, welcomeId>> /\ (topic => topic')
  BY <1>0 DEF SetChannelTopic, rowVars
<1>2. Lasting
  BY <1>1, UnchangedLasts
<1>3. PinKnows(worker[w]) /\ worker[w].pc = "topic"
  BY SetChannelTopicEffect DEF PinInv
<1>4. \E y : Moves(w, y) /\ Typed(y) /\ PinKnows(y)'
  <2>1. ASSUME topic', NEW pc \in {"send", "edit"}, GoesOn(w, pc)
        PROVE \E y : Moves(w, y) /\ Typed(y) /\ PinKnows(y)'
    BY <1>1, <1>3, <2>1 DEF GoesOn, Continues, PinKnows, Backed
  <2>2. ASSUME NEW statuses, HandsBack(w, statuses)
        PROVE Moves(w, Idle) /\ Typed(Idle) /\ PinKnows(Idle)'
    BY <2>2, IdleTyped, IdlePins DEF HandsBack
  <2> QED BY <2>1, <2>2, SetChannelTopicEffect
<1>5. /\ \A m \in Messages : m > posted' => content'[m] = None
      /\ welcomeId' # None => topic' /\ Backed(welcomeId)'
  BY <1>1 DEF PinInv, Backed
<1> QED BY <1>2, <1>4, <1>5, PinSteps

LEMMA EditMessagePins ==
  ASSUME TypeInv, TypeInv', PinInv, NEW w \in Workers, EditMessage(w)
  PROVE PinInv'
<1> DEFINE m == worker[w].message
<1>1. UNCHANGED <<topic, posted, pinned, welcomeId>>
  BY DEF EditMessage, rowVars
<1>2. /\ m \in Messages /\ worker[w].pc = "edit" /\ PinKnows(worker[w])
      /\ m # None
  BY EditMessageEffect DEF PinInv
<1>3. m <= posted /\ topic /\ Backed(m)
  BY <1>2 DEF PinKnows, Backed
<1>4. \A n \in Messages : content[n] = None => content'[n] = None
  BY EditMessageEffect DEF TypeInv, TypeOK
<1>5. Lasting
  BY <1>1, <1>4 DEF Lasting, Backed, TypeInv, TypeOK
<1>6. \E y : Moves(w, y) /\ Typed(y) /\ PinKnows(y)'
  <2>1. ASSUME NEW pc \in {"send", "record"}, GoesOn(w, pc)
        PROVE \E y : Moves(w, y) /\ Typed(y) /\ PinKnows(y)'
    <3>1. PICK y : Continues(w, y) /\ y.pc = pc /\ y.message = m
      BY <2>1 DEF GoesOn
    <3>2. PinKnows(y)'
      BY <1>1, <1>2, <1>3, <1>4, <3>1 DEF PinKnows, Backed
    <3> QED BY <3>1, <3>2 DEF Continues
  <2> QED BY <2>1, EditMessageEffect
<1>7. \A n \in Messages : n > posted' => content'[n] = None
  BY <1>1, <1>4 DEF PinInv
<1>8. welcomeId' # None => topic' /\ Backed(welcomeId)'
  BY <1>1, <1>4 DEF PinInv, Backed, TypeInv, TypeOK, MaybeMessage
<1> QED BY <1>5, <1>6, <1>7, <1>8, PinSteps

LEMMA SendMessagePins ==
  ASSUME TypeInv, TypeInv', PinInv, NEW w \in Workers, SendMessage(w)
  PROVE PinInv'
<1>1. UNCHANGED <<topic, pinned, welcomeId>>
  BY DEF SendMessage, rowVars
<1>2. posted \in Nat /\ posted' \in Nat
  BY DEF TypeInv, TypeOK
<1>3. /\ \A n \in Messages : n <= posted => content'[n] = content[n]
      /\ posted' >= posted
      /\ \A n \in Messages : n > posted' => content'[n] = None
  BY <1>2, SendMessageEffect DEF PinInv, TypeInv, TypeOK, Messages
<1>4. Lasting
  BY <1>1, <1>2, <1>3 DEF Lasting, Backed, Messages
<1>5. topic
  BY SendMessageEffect DEF PinInv, PinKnows
<1>6. \E y : Moves(w, y) /\ Typed(y) /\ PinKnows(y)'
  <2>1. ASSUME NEW y, Continues(w, y), y.pc = "pin", y.message = posted + 1,
               posted' = posted + 1
        PROVE Moves(w, y) /\ Typed(y) /\ PinKnows(y)'
    BY <1>1, <1>2, <1>5, <2>1 DEF Continues, PinKnows
  <2>2. ASSUME NEW statuses, HandsBack(w, statuses)
        PROVE Moves(w, Idle) /\ Typed(Idle) /\ PinKnows(Idle)'
    BY <2>2, IdleTyped, IdlePins DEF HandsBack
  <2> QED BY <2>1, <2>2, SendMessageEffect
<1>7. welcomeId' # None => topic' /\ Backed(welcomeId)'
  <2>1. welcomeId # None => welcomeId \in Messages
    BY DEF TypeInv, TypeOK, MaybeMessage
  <2> QED BY <1>1, <1>2, <1>3, <2>1 DEF PinInv, Backed, Messages
<1> QED BY <1>3, <1>4, <1>6, <1>7, PinSteps

LEMMA PinMessagePins ==
  ASSUME TypeInv, TypeInv', PinInv, NEW w \in Workers, PinMessage(w)
  PROVE PinInv'
<1> DEFINE m == worker[w].message
<1>1. UNCHANGED <<topic, posted, content, welcomeId>>
  BY DEF PinMessage, rowVars
<1>2. m \in Messages /\ m # None /\ m <= posted /\ topic
  BY PinMessageEffect DEF PinInv, PinKnows
<1>3. pinned \subseteq pinned'
  BY PinMessageEffect
<1>4. Lasting
  BY <1>1, <1>3 DEF Lasting, Backed, TypeInv, TypeOK
<1>5. \E y : Moves(w, y) /\ Typed(y) /\ PinKnows(y)'
  <2>1. ASSUME m \in pinned', GoesOn(w, "record")
        PROVE \E y : Moves(w, y) /\ Typed(y) /\ PinKnows(y)'
    BY <1>1, <1>2, <2>1 DEF GoesOn, Continues, PinKnows, Backed
  <2>2. ASSUME NEW statuses, HandsBack(w, statuses)
        PROVE Moves(w, Idle) /\ Typed(Idle) /\ PinKnows(Idle)'
    BY <2>2, IdleTyped, IdlePins DEF HandsBack
  <2> QED BY <2>1, <2>2, PinMessageEffect
<1>6. /\ \A n \in Messages : n > posted' => content'[n] = None
      /\ welcomeId' # None => topic' /\ Backed(welcomeId)'
  BY <1>1, <1>3 DEF PinInv, Backed
<1> QED BY <1>4, <1>5, <1>6, PinSteps

LEMMA RecordPins ==
  ASSUME TypeInv, TypeInv', PinInv, NEW w \in Workers,
         UpdateSpaceWelcomeMessageID(w)
  PROVE PinInv'
<1>1. UNCHANGED <<topic, posted, content, pinned>>
  BY DEF UpdateSpaceWelcomeMessageID, discordVars
<1>2. Lasting
  BY <1>1, UnchangedLasts
<1>3. /\ worker[w].message # None /\ topic /\ Backed(worker[w].message)
      /\ welcomeId' \in {welcomeId, worker[w].message}
  BY RecordEffect DEF PinInv, PinKnows
<1>4. \E y : Moves(w, y) /\ Typed(y) /\ PinKnows(y)'
  BY RecordEffect DEF GoesOn, Continues, PinKnows
<1>5. /\ \A n \in Messages : n > posted' => content'[n] = None
      /\ welcomeId' # None => topic' /\ Backed(welcomeId)'
  BY <1>1, <1>3 DEF PinInv, Backed
<1> QED BY <1>2, <1>4, <1>5, PinSteps

LEMMA DeleteMessagePins ==
  ASSUME TypeInv, TypeInv', PinInv, NEW m \in Messages, DeleteMessage(m)
  PROVE PinInv'
<1>1. /\ UNCHANGED <<topic, posted, welcomeId, worker>>
      /\ pinned' = pinned \ {m} /\ content' = [content EXCEPT ![m] = None]
  BY DEF DeleteMessage, rowVars
<1>2. \A n \in Messages : /\ content'[n] \in {content[n], None}
                          /\ n \in pinned /\ n \notin pinned' => content'[n] = None
  BY <1>1 DEF TypeInv, TypeOK
<1>3. Lasting
  BY <1>1, <1>2 DEF Lasting, Backed, TypeInv, TypeOK
<1>4. \A n \in Messages : n > posted' => content'[n] = None
  BY <1>1, <1>2 DEF PinInv
<1>5. welcomeId' # None => topic' /\ Backed(welcomeId)'
  BY <1>1, <1>2 DEF PinInv, Backed, TypeInv, TypeOK, MaybeMessage
<1> QED BY <1>1, <1>3, <1>4, <1>5, PinSteps

LEMMA PinNext == TypeInv /\ TypeInv' /\ PinInv /\ [Next]_vars => PinInv'
<1> SUFFICES ASSUME TypeInv, TypeInv', PinInv, [Next]_vars PROVE PinInv'
  OBVIOUS
<1> USE DEF rowVars, discordVars
<1>1. ASSUME NEW w \in Workers, AdvanceJob(w)
      PROVE PinInv'
  <2>1. \E y : Moves(w, y) /\ Typed(y) /\ PinKnows(y)'
    BY <1>1, AdvanceJobEffect DEF GoesOn, Continues, PinKnows
  <2> QED BY <1>1, <2>1, PinAside DEF AdvanceJob
<1>2. ASSUME NEW w \in Workers, Finish(w)
      PROVE PinInv'
  BY <1>2, FinishEffect, IdleTyped, IdlePins, PinAside DEF Finish, HandsBack
<1>3. ASSUME NEW w \in Workers, LeaseLost(w)
      PROVE PinInv'
  BY <1>3, IdleTyped, IdlePins, PinAside DEF LeaseLost, Moves
<1>4. ASSUME NEW w \in Workers, NEW i \in TaskIds, StartTask(w, i)
      PROVE PinInv'
  <2> DEFINE y == [Idle EXCEPT !.pc = "load", !.id = i]
  <2>1. Moves(w, y)
    BY <1>4, StartTaskTypes
  <2>2. worker'[w] = y /\ y.pc = "load"
    BY <2>1 DEF Moves, TypeInv, TypeOK, Idle
  <2>3. Typed(y)
    BY <2>2 DEF TypeInv
  <2> HIDE DEF y
  <2>4. PinKnows(y)'
    BY <2>2 DEF PinKnows
  <2> QED BY <1>4, <2>1, <2>3, <2>4, PinAside DEF StartTask
<1>5. ASSUME NEW w \in Workers, WorkerStep(w)
      PROVE PinInv'
  BY <1>1, <1>2, <1>3, <1>5, LoadSpacePins, SetChannelTopicPins,
     EditMessagePins, SendMessagePins, PinMessagePins, RecordPins
     DEF WorkerStep
<1>6. ASSUME NEW r \in Requests, RequestStep(r)
      PROVE PinInv'
  BY <1>6, PinAside DEF RequestStep, GetSpaceByID, CreateJob, Enqueue,
     StoreResponse, APICrash
<1>7. ASSUME NEW r \in Requests, NEW text \in Texts \cup {None},
             NEW key \in Keys \cup {None}, Send(r, text, key)
      PROVE PinInv'
  BY <1>7, PinAside DEF Send
<1>8. CASE Provisioned
  BY <1>8, PinAside DEF Provisioned
<1>9. CASE UNCHANGED vars
  BY <1>9, PinAside DEF vars
<1> QED BY <1>4, <1>5, <1>6, <1>7, <1>8, <1>9, DeleteMessagePins DEF Next

(* Whatever fails, and however runs overlap: the message a space records is *)
(* pinned under a topic, or somebody deleted it.                            *)
THEOREM RecordedPinned == Spec => []RecordedIsPinned
<1>1. PinInv => RecordedIsPinned
  BY DEF PinInv, Backed, RecordedIsPinned
<1> QED BY <1>1, TypeInit, TypeNext, PinInit, PinNext, PTL DEF Spec

-----------------------------------------------------------------------------
(* What is recorded shows the last text *)

(* While runs do not overlap there is one at a time; the message it is      *)
(* about to record shows its text; and once it has recorded it, it touches  *)
(* no message any more.                                                     *)
ShowInv ==
    overlaps = 0 =>
        /\ \A v, w \in Workers : Busy(v) /\ Busy(w) => v = w
        /\ shown # None =>
             /\ welcomeId \in Messages
             /\ content[welcomeId] \in {shown, None}
             /\ \A w \in Workers : worker[w].pc \in {"idle", "job", "finish"}
        /\ \A w \in Workers : worker[w].pc \in {"pin", "record"} =>
             content[worker[w].message] \in {worker[w].text, None}

LEMMA ShowInit == Init => ShowInv
  BY IdleTyped DEF Init, ShowInv, Busy

(* The step of a run under way. *)
LEMMA ShowSteps ==
  ASSUME TypeInv, ShowInv, UNCHANGED overlaps, NEW w \in Workers, Busy(w),
         NEW y, Typed(y), Moves(w, y),
         overlaps = 0 /\ y.pc \in {"pin", "record"} =>
             content'[y.message] \in {y.text, None},
         overlaps = 0 /\ shown' # None =>
             /\ welcomeId' \in Messages
             /\ content'[welcomeId'] \in {shown', None}
             /\ y.pc \in {"idle", "job", "finish"}
  PROVE ShowInv'
<1> SUFFICES ASSUME overlaps = 0 PROVE ShowInv'
  BY DEF ShowInv
<1>1. /\ worker'[w] = y
      /\ \A v \in Workers : v # w => worker'[v] = worker[v]
  BY MovesTyped
<1>2. \A v \in Workers : v # w => worker'[v].pc = "idle"
  BY <1>1 DEF ShowInv, Busy
<1> QED BY <1>1, <1>2 DEF ShowInv, Busy

(* Nothing is shown while a run has a message to post, pin or record. *)
LEMMA NotShown ==
  ASSUME ShowInv, overlaps = 0, NEW w \in Workers,
         worker[w].pc \notin {"idle", "job", "finish"}
  PROVE shown = None
  BY DEF ShowInv

(* A run hands its task back. *)
LEMMA ShowReturns ==
  ASSUME TypeInv, ShowInv, NEW w \in Workers, Busy(w), Moves(w, Idle),
         UNCHANGED <<overlaps, shown>>,
         \/ UNCHANGED <<content, welcomeId>>
         \/ worker[w].pc \notin {"job", "finish"}
  PROVE ShowInv'
<1>1. overlaps = 0 /\ shown' # None =>
         /\ welcomeId' \in Messages
         /\ content'[welcomeId'] \in {shown', None}
  BY NotShown DEF ShowInv, Busy
<1> QED BY <1>1, IdleTyped, ShowSteps

(* A run goes on before it records. *)
LEMMA ShowGoesOn ==
  ASSUME TypeInv, ShowInv, NEW w \in Workers, UNCHANGED <<overlaps, shown>>,
         worker[w].pc \notin {"idle", "job", "finish"},
         NEW y, Continues(w, y),
         overlaps = 0 /\ y.pc \in {"pin", "record"} =>
             content'[y.message] \in {y.text, None}
  PROVE ShowInv'
  BY NotShown, ShowSteps DEF Continues, Busy

LEMMA ShowRuns ==
  ASSUME TypeInv, ShowInv, NEW w \in Workers, WorkerStep(w)
  PROVE ShowInv'
<1> USE DEF historyVars, rowVars, discordVars
<1>1. CASE LoadSpace(w)
  <2>1. worker[w].pc = "load" /\ UNCHANGED <<overlaps, shown>>
    BY <1>1 DEF LoadSpace
  <2>2. ASSUME NEW y, Continues(w, y), y.pc = "topic"
        PROVE ShowInv'
    BY <2>1, <2>2, ShowGoesOn
  <2>3. ASSUME NEW statuses, HandsBack(w, statuses)
        PROVE ShowInv'
    BY <2>1, <2>3, ShowReturns DEF HandsBack, Busy
  <2> QED BY <1>1, <2>2, <2>3, LoadSpaceEffect
<1>2. CASE SetChannelTopic(w)
  <2>1. worker[w].pc = "topic" /\ UNCHANGED <<overlaps, shown>>
    BY <1>2 DEF SetChannelTopic
  <2>2. ASSUME NEW pc \in {"send", "edit"}, GoesOn(w, pc)
        PROVE ShowInv'
    BY <2>1, <2>2, ShowGoesOn DEF GoesOn
  <2>3. ASSUME NEW statuses, HandsBack(w, statuses)
        PROVE ShowInv'
    BY <2>1, <2>3, ShowReturns DEF HandsBack, Busy
  <2> QED BY <1>2, <2>2, <2>3, SetChannelTopicEffect
<1>3. CASE EditMessage(w)
  <2>1. worker[w].pc = "edit" /\ UNCHANGED <<overlaps, shown>>
    BY <1>3 DEF EditMessage
  <2>2. ASSUME GoesOn(w, "record"),
               content'[worker[w].message] = worker[w].text
        PROVE ShowInv'
    BY <2>1, <2>2, ShowGoesOn DEF GoesOn
  <2>3. ASSUME GoesOn(w, "send")
        PROVE ShowInv'
    BY <2>1, <2>3, ShowGoesOn DEF GoesOn
  <2> QED BY <1>3, <2>2, <2>3, EditMessageEffect
<1>4. CASE SendMessage(w)
  <2>1. worker[w].pc = "send" /\ UNCHANGED <<overlaps, shown>>
    BY <1>4 DEF SendMessage
  <2>2. ASSUME NEW y, Continues(w, y), y.text = worker[w].text,
               y.message = posted + 1, posted + 1 \in Messages,
               content' = [content EXCEPT ![posted + 1] = worker[w].text]
        PROVE ShowInv'
    <3>1. content'[y.message] = y.text
      BY <2>2 DEF TypeInv, TypeOK
    <3> QED BY <2>1, <2>2, <3>1, ShowGoesOn
  <2>3. ASSUME NEW statuses, HandsBack(w, statuses)
        PROVE ShowInv'
    BY <2>1, <2>3, ShowReturns DEF HandsBack, Busy
  <2> QED BY <1>4, <2>2, <2>3, SendMessageEffect
<1>5. CASE PinMessage(w)
  <2>1. worker[w].pc = "pin" /\ UNCHANGED <<overlaps, shown, content>>
    BY <1>5 DEF PinMessage
  <2>2. ASSUME GoesOn(w, "record")
        PROVE ShowInv'
    <3>1. overlaps = 0 =>
            content'[worker[w].message] \in {worker[w].text, None}
      BY <2>1 DEF ShowInv
    <3> QED BY <2>1, <2>2, <3>1, ShowGoesOn DEF GoesOn
  <2>3. ASSUME NEW statuses, HandsBack(w, statuses)
        PROVE ShowInv'
    BY <2>1, <2>3, ShowReturns DEF HandsBack, Busy
  <2> QED BY <1>5, <2>2, <2>3, PinMessageEffect
<1>6. CASE UpdateSpaceWelcomeMessageID(w)
  <2>1. /\ worker[w].pc = "record" /\ worker[w].message \in Messages
        /\ UNCHANGED <<overlaps, content>>
    BY <1>6, RecordEffect DEF UpdateSpaceWelcomeMessageID
  <2>2. PICK y : Continues(w, y) /\ y.pc = "job"
    BY <1>6, RecordEffect DEF GoesOn
  <2>3. overlaps = 0 => content[worker[w].message] \in {worker[w].text, None}
    BY <2>1 DEF ShowInv
  <2>4. overlaps = 0 /\ shown' # None =>
          /\ welcomeId' = worker[w].message /\ shown' = worker[w].text
    BY <1>6, <2>1, RecordEffect, NotShown
  <2> QED BY <2>1, <2>2, <2>3, <2>4, ShowSteps DEF Continues, Busy
<1>7. CASE AdvanceJob(w)
  <2>1. worker[w].pc = "job" /\ UNCHANGED <<overlaps, shown, content, welcomeId>>
    BY <1>7 DEF AdvanceJob
  <2>2. PICK y : Continues(w, y) /\ y.pc = "finish"
    BY <1>7, AdvanceJobEffect DEF GoesOn
  <2>3. overlaps = 0 /\ shown' # None =>
           /\ welcomeId' \in Messages
           /\ content'[welcomeId'] \in {shown', None}
    BY <2>1 DEF ShowInv
  <2> QED BY <2>1, <2>2, <2>3, ShowSteps DEF Continues, Busy
<1>8. CASE Finish(w)
  BY <1>8, FinishEffect, ShowReturns DEF Finish, HandsBack, Busy
<1>9. CASE LeaseLost(w)
  <2>1. Busy(w) /\ UNCHANGED <<overlaps, shown, content, welcomeId>>
    BY <1>9 DEF LeaseLost
  <2>2. CASE UNCHANGED worker
    BY <2>1, <2>2 DEF ShowInv, Busy
  <2>3. CASE Moves(w, Idle)
    BY <2>1, <2>3, ShowReturns
  <2> QED BY <1>9, <2>2, <2>3 DEF LeaseLost, Moves
<1> QED BY <1>1, <1>2, <1>3, <1>4, <1>5, <1>6, <1>7, <1>8, <1>9 DEF WorkerStep

LEMMA ShowNext == TypeInv /\ ShowInv /\ [Next]_vars => ShowInv'
<1> SUFFICES ASSUME TypeInv, ShowInv, [Next]_vars PROVE ShowInv'
  OBVIOUS
<1> USE DEF historyVars, rowVars, discordVars
<1>1. ASSUME NEW w \in Workers, NEW i \in TaskIds, StartTask(w, i)
      PROVE ShowInv'
  <2>1. shown' = None /\ ~Busy(w)
    BY <1>1 DEF StartTask
  <2>2. overlaps' = 0 => overlaps = 0 /\ \A v \in Workers : ~Busy(v)
    BY <1>1 DEF StartTask, TypeInv, TypeOK
  <2>3. \A v \in Workers : v # w => worker'[v] = worker[v]
    BY <1>1 DEF StartTask, TypeInv, TypeOK
  <2>4. worker'[w].pc = "load"
    BY <1>1 DEF StartTask, TypeInv, TypeOK, Idle
  <2> QED BY <2>1, <2>2, <2>3, <2>4 DEF ShowInv, Busy
<1>2. ASSUME NEW m \in Messages, DeleteMessage(m)
      PROVE ShowInv'
  <2>1. /\ UNCHANGED <<overlaps, shown, welcomeId, worker>>
        /\ \A n \in Messages : content'[n] \in {content[n], None}
    BY <1>2 DEF DeleteMessage, TypeInv, TypeOK
  <2>2. \A w \in Workers : worker[w].pc \in {"pin", "record"} =>
          worker[w].message \in Messages
    BY DEF TypeInv, Typed
  <2> QED BY <2>1, <2>2 DEF ShowInv, Busy
<1>3. ASSUME UNCHANGED <<overlaps, shown, content, welcomeId, worker>>
      PROVE ShowInv'
  BY <1>3 DEF ShowInv, Busy
<1>4. ASSUME NEW r \in Requests, RequestStep(r)
      PROVE ShowInv'
  BY <1>3, <1>4 DEF RequestStep, GetSpaceByID, CreateJob, Enqueue,
     StoreResponse, APICrash
<1>5. ASSUME NEW r \in Requests, NEW text \in Texts \cup {None},
             NEW key \in Keys \cup {None}, Send(r, text, key)
      PROVE ShowInv'
  BY <1>3, <1>5 DEF Send
<1>6. CASE Provisioned \/ UNCHANGED vars
  BY <1>3, <1>6 DEF Provisioned, vars
<1> QED BY <1>1, <1>2, <1>4, <1>5, <1>6, ShowRuns DEF Next

(* If runs do not overlap, the recorded message shows the text of the run   *)
(* that recorded it last, whatever edit, post, pin or update failed before. *)
THEOREM RecordedShows == Spec => []RecordedShowsLastText
<1>1. ShowInv => RecordedShowsLastText
  BY DEF ShowInv, RecordedShowsLastText
<1> QED BY <1>1, TypeInit, TypeNext, ShowInit, ShowNext, PTL DEF Spec

-----------------------------------------------------------------------------
(* Completed jobs are those whose tasks ran *)

(* The premise of JobsFollowRuns. *)
Quiet == ~crowded /\ faults = 0 /\ \A i \in TaskIds : task[i] # "dead"

Live(i) == task[i] \in {"waiting", "running"}
Newest == jobs[Len(jobs)]

(* One thing at a time: a request that has not enqueued, or a task.         *)
OneAtATime ==
    /\ \A q, r \in Requests : InFlight(q) /\ InFlight(r) => q = r
    /\ \A r \in Requests : request[r].pc \in {"load", "job", "enqueue"} =>
         \A i \in TaskIds : ~Live(i)
    /\ \A i, j \in TaskIds : Live(i) /\ Live(j) => i = j
    /\ \A w \in Workers : Busy(w) => task[worker[w].id] = "running"
    /\ \A v, w \in Workers : Busy(v) /\ Busy(w) => v = w

(* What is under way, or has run, has a job. *)
HaveJobs ==
    /\ \A r \in Requests : request[r].pc = "enqueue" => HasJob(TaskId(r))
    /\ \A i \in TaskIds : Live(i) \/ i \in ran => HasJob(i)

(* Every job but the newest has run, and that has, or is under way. *)
JobsRan ==
    /\ \A n \in 1..Len(jobs) : n # Len(jobs) => jobs[n] \in ran
    /\ jobs # <<>> =>
         \/ Newest \in ran \/ Live(Newest)
         \/ \E r \in Requests : request[r].pc = "enqueue" /\ TaskId(r) = Newest
    /\ \A w \in Workers : worker[w].pc = "finish" => worker[w].id \in ran
    /\ completed = ran

JobInv == Quiet => OneAtATime /\ HaveJobs /\ JobsRan

LEMMA JobInit == Init => JobInv
<1> SUFFICES ASSUME Init PROVE JobInv
  OBVIOUS
<1>1. /\ jobs = <<>> /\ completed = {} /\ ran = {}
      /\ \A i \in TaskIds : ~Live(i)
  BY DEF Init, Live
<1>2. /\ \A r \in Requests : request[r].pc = "unsent" /\ ~InFlight(r)
      /\ \A w \in Workers : worker[w].pc = "idle" /\ ~Busy(w)
  BY IdleTyped, RequestsTyped DEF Init, InFlight, Busy
<1>3. OneAtATime
  BY <1>1, <1>2 DEF OneAtATime
<1>4. HaveJobs
  BY <1>1, <1>2 DEF HaveJobs
<1>5. JobsRan
  BY <1>1, <1>2 DEF JobsRan
<1> QED BY <1>3, <1>4, <1>5 DEF JobInv

(* A run goes on, short of its end. *)
LEMMA JobGoesOn ==
  ASSUME TypeInv, OneAtATime, HaveJobs, JobsRan, NEW w \in Workers, Busy(w),
         NEW y, Continues(w, y), y.id = worker[w].id,
         y.pc \notin {"idle", "finish"},
         UNCHANGED <<jobs, completed, ran, request>>
  PROVE OneAtATime' /\ HaveJobs' /\ JobsRan'
<1>1. /\ worker'[w] = y /\ UNCHANGED task
      /\ \A v \in Workers : v # w => worker'[v] = worker[v]
  BY MovesTyped DEF Continues, taskVars
<1>2. OneAtATime'
  BY <1>1 DEF OneAtATime, Busy, Live, InFlight
<1>3. HaveJobs'
  BY <1>1 DEF HaveJobs, Live, HasJob, TaskId
<1>4. JobsRan'
  BY <1>1 DEF JobsRan, Live, Newest, TaskId
<1> QED BY <1>2, <1>3, <1>4

(* A run ends: its task waits again, or is forgotten because it has run. *)
LEMMA JobReturns ==
  ASSUME TypeInv, OneAtATime, HaveJobs, JobsRan, NEW w \in Workers, Busy(w),
         NEW statuses, HandsBack(w, statuses), Quiet',
         statuses \subseteq {"waiting", "dead", "none"},
         "none" \in statuses => worker[w].id \in ran,
         UNCHANGED <<jobs, completed, ran, request>>
  PROVE OneAtATime' /\ HaveJobs' /\ JobsRan'
<1> DEFINE i == worker[w].id
<1>0. i \in TaskIds /\ task[i] = "running"
  BY DEF TypeInv, Typed, Busy, OneAtATime
<1>1. /\ worker'[w] = Idle
      /\ \A v \in Workers : v # w => worker'[v] = worker[v] /\ ~Busy(v)
  BY MovesTyped, IdleTyped DEF HandsBack, OneAtATime
<1>2. \A v \in Workers : worker'[v].pc = "idle"
  BY <1>1, IdleTyped DEF Busy
<1>3. /\ \A j \in TaskIds : j # i => task'[j] = task[j] /\ ~Live(j)
      /\ task'[i] = "waiting" \/ (task'[i] = "none" /\ i \in ran)
  BY <1>0 DEF HandsBack, Settles, Quiet, OneAtATime, Live
<1>4. OneAtATime'
  BY <1>0, <1>2, <1>3 DEF OneAtATime, Busy, Live, InFlight
<1>5. HaveJobs'
  BY <1>0, <1>3 DEF HaveJobs, Live, HasJob, TaskId
<1>6. JobsRan'
  <2>1. jobs # <<>> => Newest \in TaskIds
    BY DEF Newest, TypeInv, TypeOK
  <2>2. jobs # <<>> =>
          \/ Newest \in ran \/ Live(Newest)'
          \/ \E r \in Requests : request[r].pc = "enqueue" /\ TaskId(r) = Newest
    BY <1>0, <1>3, <2>1 DEF JobsRan, Live, Newest
  <2> QED BY <1>2, <2>2 DEF JobsRan, Newest, TaskId
<1> QED BY <1>4, <1>5, <1>6

(* The newest job is the run's own, or both have run before. *)
LEMMA JobAdvances ==
  ASSUME TypeInv, OneAtATime, HaveJobs, JobsRan, NEW w \in Workers,
         AdvanceJob(w), faults' = 0
  PROVE OneAtATime' /\ HaveJobs' /\ JobsRan'
<1> DEFINE i == worker[w].id
<1>1. /\ i \in TaskIds /\ worker[w].pc = "job" /\ ran' = ran \cup {i}
      /\ completed' = completed \cup GetJobBySpaceIDAndKind
  BY AdvanceJobEffect, FaultCounted DEF TypeInv, TypeOK
<1>2. UNCHANGED <<jobs, request, task>>
  BY DEF AdvanceJob, taskVars
<1>3. PICK y : Continues(w, y) /\ y.pc = "finish" /\ y.id = i
  BY AdvanceJobEffect DEF GoesOn
<1>4. /\ worker'[w] = y
      /\ \A v \in Workers : v # w => worker'[v] = worker[v]
  BY <1>3, MovesTyped DEF Continues
<1>5. /\ Live(i) /\ HasJob(i) /\ \A j \in TaskIds : Live(j) => j = i
      /\ \A r \in Requests : request[r].pc # "enqueue"
  BY <1>1 DEF OneAtATime, HaveJobs, Busy, Live
<1>6. jobs # <<>> /\ Newest \in TaskIds /\ completed' = completed \cup {Newest}
  BY <1>1, <1>5 DEF HasJob, GetJobBySpaceIDAndKind, Newest, TypeInv, TypeOK
<1>7. Newest = i \/ (Newest \in ran /\ i \in ran)
  <2>1. Newest = i \/ Newest \in ran
    BY <1>5, <1>6 DEF JobsRan
  <2>2. PICK n \in 1..Len(jobs) : jobs[n] = i
    BY <1>5 DEF HasJob, TypeInv, TypeOK
  <2>3. i \in ran \/ Newest = i
    BY <2>2 DEF JobsRan, Newest
  <2> QED BY <2>1, <2>3
<1>8. completed' = ran'
  BY <1>1, <1>6, <1>7 DEF JobsRan
<1>9. OneAtATime'
  BY <1>1, <1>2, <1>3, <1>4 DEF OneAtATime, Busy, Live, InFlight
<1>10. HaveJobs'
  BY <1>1, <1>2, <1>5 DEF HaveJobs, Live, HasJob, TaskId
<1>11. JobsRan'
  BY <1>1, <1>2, <1>3, <1>4, <1>6, <1>7, <1>8 DEF JobsRan, Newest
<1> QED BY <1>9, <1>10, <1>11

LEMMA JobStarts ==
  ASSUME TypeInv, OneAtATime, HaveJobs, JobsRan, NEW w \in Workers,
         NEW i \in TaskIds, StartTask(w, i)
  PROVE OneAtATime' /\ HaveJobs' /\ JobsRan'
<1>1. /\ UNCHANGED <<jobs, completed, ran, request>>
      /\ ~Busy(w) /\ task[i] = "waiting"
      /\ task' = [task EXCEPT ![i] = "running"]
  BY DEF StartTask, jobVars
<1>2. /\ worker'[w].pc = "load" /\ worker'[w].id = i
      /\ \A v \in Workers : v # w => worker'[v] = worker[v]
  BY DEF StartTask, TypeInv, TypeOK, Idle
<1>3. \A v \in Workers : ~Busy(v)
  <2> SUFFICES ASSUME NEW v \in Workers, Busy(v) PROVE FALSE
    OBVIOUS
  <2>1. task[worker[v].id] = "running" /\ worker[v].id \in TaskIds
    BY DEF OneAtATime, TypeInv, Typed, Busy
  <2> QED BY <1>1, <2>1 DEF OneAtATime, Live
<1>4. task'[i] = "running" /\ \A j \in TaskIds : j # i => task'[j] = task[j]
  BY <1>1 DEF TypeInv, TypeOK
<1>5. \A j \in TaskIds : Live(j)' <=> Live(j)
  BY <1>1, <1>4 DEF Live
<1>6. OneAtATime'
  BY <1>1, <1>2, <1>3, <1>4, <1>5 DEF OneAtATime, Busy, InFlight
<1>7. HaveJobs'
  BY <1>1, <1>5 DEF HaveJobs, HasJob, TaskId
<1>8. JobsRan'
  <2>1. jobs # <<>> => Newest \in TaskIds
    BY DEF Newest, TypeInv, TypeOK
  <2>2. \A v \in Workers : worker'[v].pc # "finish"
    BY <1>2, <1>3 DEF Busy
  <2>3. jobs # <<>> =>
          \/ Newest \in ran \/ Live(Newest)'
          \/ \E r \in Requests : request[r].pc = "enqueue" /\ TaskId(r) = Newest
    BY <1>1, <1>4, <2>1 DEF JobsRan, Live, Newest
  <2> QED BY <1>1, <2>2, <2>3 DEF JobsRan, Newest, TaskId
<1> QED BY <1>6, <1>7, <1>8

(* What a request's pc becomes, and what the others keep. *)
LEMMA GotoKeeps ==
  ASSUME TypeInv, NEW r \in Requests, NEW pc, Goto(r, pc)
  PROVE /\ request'[r].pc = pc /\ TaskId(r)' = TaskId(r)
        /\ \A q \in Requests : q # r =>
             request'[q] = request[q] /\ TaskId(q)' = TaskId(q)
<1>1. request[r] \in RequestRec
  BY DEF TypeInv, TypeOK
<1>2. /\ request'[r] = [request[r] EXCEPT !.pc = pc]
      /\ \A q \in Requests : q # r => request'[q] = request[q]
  BY DEF Goto, TypeInv, TypeOK
<1>3. request'[r].pc = pc /\ request'[r].key = request[r].key
  BY <1>1, <1>2 DEF RequestRec
<1> QED BY <1>2, <1>3 DEF TaskId

LEMMA JobSends ==
  ASSUME TypeInv, OneAtATime, HaveJobs, JobsRan, NEW r \in Requests,
         NEW text \in Texts \cup {None}, NEW key \in Keys \cup {None},
         Send(r, text, key), ~crowded'
  PROVE OneAtATime' /\ HaveJobs' /\ JobsRan'
<1>1. /\ UNCHANGED <<jobs, completed, ran, task, worker>>
      /\ request' = [request EXCEPT ![r] = [pc |-> "load", text |-> text,
                                            key |-> key]]
  BY DEF Send, jobVars, taskVars
<1>2. /\ \A q \in Requests : ~InFlight(q)
      /\ \A i \in TaskIds : ~Live(i)
  BY DEF Send, Live
<1>3. /\ request'[r].pc = "load"
      /\ \A q \in Requests : q # r => request'[q] = request[q]
  BY <1>1 DEF TypeInv, TypeOK
<1>4. \A q \in Requests : /\ InFlight(q)' => q = r
                          /\ request[q].pc # "enqueue"
                          /\ request'[q].pc # "enqueue"
  BY <1>2, <1>3 DEF InFlight
<1>5. OneAtATime'
  BY <1>1, <1>2, <1>4 DEF OneAtATime, Busy, Live
<1>6. HaveJobs'
  BY <1>1, <1>4 DEF HaveJobs, Live, HasJob
<1>7. JobsRan'
  BY <1>1, <1>4 DEF JobsRan, Live, Newest
<1> QED BY <1>5, <1>6, <1>7

(* A new row makes the one before it an old one, and that has run. *)
LEMMA JobCreates ==
  ASSUME TypeInv, OneAtATime, HaveJobs, JobsRan, NEW r \in Requests,
         CreateJob(r), faults' = 0
  PROVE OneAtATime' /\ HaveJobs' /\ JobsRan'
<1> DEFINE i == TaskId(r)
<1>1. /\ UNCHANGED <<completed, ran, task, worker>>
      /\ request[r].pc = "job" /\ Goto(r, "enqueue")
      /\ jobs' = InsertJob(i)
  BY FaultCounted DEF CreateJob, TypeInv, TypeOK, taskVars, historyVars
<1>2. /\ request'[r].pc = "enqueue" /\ TaskId(r)' = i
      /\ \A q \in Requests : q # r =>
            request'[q] = request[q] /\ TaskId(q)' = TaskId(q)
  BY <1>1, GotoKeeps
<1>3. /\ \A j \in TaskIds : ~Live(j)
      /\ \A q \in Requests : InFlight(q) => q = r
  BY <1>1 DEF OneAtATime, InFlight
<1>4. \A q \in Requests : /\ InFlight(q)' => q = r
                          /\ request[q].pc # "enqueue"
                          /\ request'[q].pc = "enqueue" => q = r
  BY <1>1, <1>2, <1>3 DEF InFlight
<1>5. OneAtATime'
  BY <1>1, <1>3, <1>4 DEF OneAtATime, Busy, Live
<1>6. i \in TaskIds /\ jobs \in Seq(TaskIds)
  BY TaskIdTyped DEF TypeInv, TypeOK
<1> HIDE DEF i
<1>7. \A n \in 1..Len(jobs) : jobs[n] \in ran
  BY <1>3, <1>4, <1>6 DEF JobsRan, Newest
<1>8. HasJob(i)' /\ \A j \in TaskIds : HasJob(j) => HasJob(j)'
  <2>1. CASE HasJob(i)
    BY <1>1, <1>2, <2>1 DEF InsertJob, HasJob, i
  <2>2. CASE ~HasJob(i)
    <3>1. jobs' = Append(jobs, i)
      BY <1>1, <2>2 DEF InsertJob
    <3>2. /\ Len(jobs') = Len(jobs) + 1 /\ jobs'[Len(jobs) + 1] = i
          /\ DOMAIN jobs' = 1..(Len(jobs) + 1)
          /\ DOMAIN jobs = 1..Len(jobs)
          /\ \A n \in 1..Len(jobs) : jobs'[n] = jobs[n]
      BY <1>6, <3>1
    <3>3. \A n \in DOMAIN jobs : n \in DOMAIN jobs' /\ jobs'[n] = jobs[n]
      BY <1>6, <3>2
    <3>4. Len(jobs) + 1 \in DOMAIN jobs' /\ jobs'[Len(jobs) + 1] = i
      BY <1>6, <3>2
    <3>5. \E n \in DOMAIN jobs' : jobs'[n] = i
      BY <3>4
    <3> QED BY <1>2, <3>3, <3>5 DEF HasJob, i
  <2> QED BY <2>1, <2>2
<1>9. HaveJobs'
  BY <1>1, <1>2, <1>4, <1>8 DEF HaveJobs, Live, i
<1>10. JobsRan'
  <2>1. CASE HasJob(i)
    <3>1. jobs' = jobs
      BY <1>1, <2>1 DEF InsertJob
    <3>2. jobs # <<>> => Newest \in ran
      BY <1>6, <1>7 DEF Newest
    <3> QED BY <1>1, <3>1, <3>2 DEF JobsRan, Newest
  <2>2. CASE ~HasJob(i)
    <3>1. jobs' = Append(jobs, i)
      BY <1>1, <2>2 DEF InsertJob
    <3>2. /\ Len(jobs') = Len(jobs) + 1 /\ jobs'[Len(jobs')] = i
          /\ \A n \in 1..Len(jobs) : jobs'[n] = jobs[n]
      BY <1>6, <3>1
    <3>3. \A n \in 1..Len(jobs') : n # Len(jobs') => jobs'[n] \in ran'
      BY <1>1, <1>6, <1>7, <3>2
    <3> QED BY <1>1, <1>2, <3>2, <3>3 DEF JobsRan, Newest, i
  <2> QED BY <2>1, <2>2
<1> QED BY <1>5, <1>9, <1>10

LEMMA JobEnqueues ==
  ASSUME TypeInv, OneAtATime, HaveJobs, JobsRan, Quiet, NEW r \in Requests,
         Enqueue(r), faults' = 0
  PROVE OneAtATime' /\ HaveJobs' /\ JobsRan'
<1> DEFINE i == TaskId(r)
<1>0. i \in TaskIds
  BY TaskIdTyped DEF TypeInv
<1>1. /\ UNCHANGED <<jobs, completed, ran, worker>>
      /\ request[r].pc = "enqueue" /\ Goto(r, "answer")
  BY DEF Enqueue, jobVars, historyVars
<1>2. /\ request'[r].pc = "answer"
      /\ \A q \in Requests : q # r =>
            request'[q] = request[q] /\ TaskId(q)' = TaskId(q)
  BY <1>1, GotoKeeps
<1>3. /\ \A j \in TaskIds : ~Live(j)
      /\ \A q \in Requests : InFlight(q) => q = r
  BY <1>1 DEF OneAtATime, InFlight
<1>4. \A q \in Requests :
        /\ InFlight(q)' => q = r
        /\ request'[q].pc \notin {"load", "job", "enqueue"}
        /\ request[q].pc = "enqueue" => q = r
  BY <1>1, <1>2, <1>3 DEF InFlight
<1>5. task[i] = "none"
  BY <1>0, <1>3 DEF Quiet, Live, TypeInv, TypeOK
<1>6. task' = [task EXCEPT ![i] = "waiting"]
  BY <1>5, FaultCounted DEF Enqueue, TypeInv, TypeOK
<1>7. task'[i] = "waiting" /\ \A j \in TaskIds : j # i => task'[j] = task[j]
  BY <1>0, <1>6 DEF TypeInv, TypeOK
<1>8. \A j \in TaskIds : Live(j)' <=> j = i
  BY <1>0, <1>3, <1>7 DEF Live
<1>9. \A w \in Workers : ~Busy(w)
  BY <1>3 DEF OneAtATime, Live, TypeInv, Typed, Busy
<1>10. HasJob(i)
  BY <1>1 DEF HaveJobs
<1>11. OneAtATime'
  BY <1>1, <1>4, <1>8, <1>9 DEF OneAtATime, Busy
<1>12. HaveJobs'
  BY <1>1, <1>4, <1>8, <1>10 DEF HaveJobs, HasJob
<1>13. JobsRan'
  <2>1. jobs # <<>> => Newest \in TaskIds
    BY DEF Newest, TypeInv, TypeOK
  <2>2. jobs # <<>> => Newest \in ran \/ Newest = i
    BY <1>3, <1>4, <2>1 DEF JobsRan
  <2>3. jobs # <<>> => Newest \in ran \/ task'[Newest] = "waiting"
    BY <1>7, <2>2
  <2> QED BY <1>1, <2>3 DEF JobsRan, Newest, Live
<1> QED BY <1>11, <1>12, <1>13

(* The other steps of a request: one that does not enqueue moves or ends. *)
LEMMA JobRequests ==
  ASSUME TypeInv, OneAtATime, HaveJobs, JobsRan, NEW r \in Requests,
         GetSpaceByID(r) \/ StoreResponse(r), faults' = 0
  PROVE OneAtATime' /\ HaveJobs' /\ JobsRan'
<1>1. /\ UNCHANGED <<jobs, completed, ran, task, worker>>
      /\ \/ request[r].pc = "load" /\ Goto(r, "job")
         \/ request[r].pc = "answer" /\ Reply(r)
  BY FaultCounted DEF GetSpaceByID, StoreResponse, TypeInv, TypeOK, taskVars,
     historyVars, jobVars
<1>2. /\ request'[r].pc \in {"job", "done"}
      /\ request'[r].pc = "job" => request[r].pc = "load"
      /\ \A q \in Requests : q # r => request'[q] = request[q]
  <2>1. CASE Goto(r, "job") /\ request[r].pc = "load"
    BY <2>1, GotoKeeps
  <2>2. CASE Reply(r)
    BY <2>2, RequestsTyped DEF Reply, TypeInv, TypeOK
  <2> QED BY <1>1, <2>1, <2>2
<1>3. request[r].pc # "enqueue" /\ InFlight(r)
  BY <1>1 DEF InFlight
<1>4. \A q \in Requests :
        /\ InFlight(q)' => InFlight(q)
        /\ request'[q].pc \in {"load", "job", "enqueue"} =>
             request[q].pc \in {"load", "job", "enqueue"}
        /\ request'[q].pc = "enqueue" <=> request[q].pc = "enqueue"
        /\ request'[q].pc = "enqueue" => TaskId(q)' = TaskId(q)
  BY <1>2, <1>3 DEF InFlight, TaskId
<1>5. OneAtATime'
  BY <1>1, <1>4 DEF OneAtATime, Busy, Live
<1>6. HaveJobs'
  BY <1>1, <1>4 DEF HaveJobs, Live, HasJob
<1>7. JobsRan'
  BY <1>1, <1>4 DEF JobsRan, Live, Newest
<1> QED BY <1>5, <1>6, <1>7

(* Nothing that is not quiet becomes quiet. *)
LEMMA QuietBefore ==
  ASSUME TypeInv, faults' = 0, ~crowded', crowded => crowded',
         Fault \/ UNCHANGED faults,
         \A i \in TaskIds : task[i] = "dead" => task'[i] = "dead", Quiet'
  PROVE Quiet
  BY FaultCounted DEF Quiet, TypeInv, TypeOK

(* A step that has nothing to do with jobs. *)
LEMMA JobAside ==
  ASSUME JobInv,
         UNCHANGED <<jobs, completed, ran, request, task, worker, crowded,
                     faults>>
  PROVE JobInv'
<1>1. Quiet' => Quiet
  BY DEF Quiet
<1>2. /\ OneAtATime => OneAtATime'
      /\ HaveJobs => HaveJobs'
      /\ JobsRan => JobsRan'
  BY DEF OneAtATime, HaveJobs, JobsRan, Busy, Live, InFlight, HasJob, TaskId,
         Newest
<1> QED BY <1>1, <1>2 DEF JobInv

LEMMA JobRuns ==
  ASSUME TypeInv, JobInv, NEW w \in Workers, WorkerStep(w), Quiet'
  PROVE OneAtATime' /\ HaveJobs' /\ JobsRan'
<1> USE DEF jobVars, historyVars
<1>1. /\ faults' = 0
      /\ Fault \/ UNCHANGED faults
      /\ UNCHANGED <<jobs, request, crowded>>
  BY DEF Quiet, WorkerStep, LoadSpace, SetChannelTopic, EditMessage,
     SendMessage, PinMessage, UpdateSpaceWelcomeMessageID, AdvanceJob, Finish,
     LeaseLost
<1>2. ~Fault /\ UNCHANGED faults /\ ~LeaseLost(w)
  BY <1>1, FaultCounted DEF TypeInv, TypeOK, LeaseLost
<1>3. ASSUME \A i \in TaskIds : task[i] = "dead" => task'[i] = "dead"
      PROVE OneAtATime /\ HaveJobs /\ JobsRan
  BY <1>1, <1>2, <1>3, QuietBefore DEF JobInv, Quiet
<1>4. ASSUME Busy(w), UNCHANGED <<completed, ran>>, NEW y, Continues(w, y),
             y.id = worker[w].id, y.pc \notin {"idle", "finish"}
      PROVE OneAtATime' /\ HaveJobs' /\ JobsRan'
  BY <1>1, <1>3, <1>4, JobGoesOn DEF Continues, taskVars
<1>5. ASSUME Busy(w), UNCHANGED <<completed, ran>>, NEW statuses,
             HandsBack(w, statuses),
             statuses \subseteq {"waiting", "dead", "none"},
             "none" \in statuses => worker[w].pc = "finish"
      PROVE OneAtATime' /\ HaveJobs' /\ JobsRan'
  <2>1. OneAtATime /\ HaveJobs /\ JobsRan
    BY <1>3, <1>5 DEF HandsBack, Settles
  <2>2. "none" \in statuses => worker[w].id \in ran
    BY <1>5, <2>1 DEF JobsRan
  <2> QED BY <1>1, <1>5, <2>1, <2>2, JobReturns
<1>6. ASSUME Busy(w), UNCHANGED <<completed, ran>>, NEW pc, GoesOn(w, pc),
             pc \notin {"idle", "finish"}
      PROVE OneAtATime' /\ HaveJobs' /\ JobsRan'
  BY <1>4, <1>6 DEF GoesOn
<1>7. CASE LoadSpace(w)
  <2>1. Busy(w) /\ UNCHANGED <<completed, ran>>
    BY <1>7 DEF LoadSpace, Busy
  <2> QED BY <1>4, <1>5, <1>7, <2>1, LoadSpaceEffect
<1>8. CASE SetChannelTopic(w)
  <2>1. Busy(w) /\ UNCHANGED <<completed, ran>>
    BY <1>8 DEF SetChannelTopic, Busy
  <2> QED BY <1>5, <1>6, <1>8, <2>1, SetChannelTopicEffect
<1>9. CASE EditMessage(w)
  <2>1. Busy(w) /\ UNCHANGED <<completed, ran>>
    BY <1>9 DEF EditMessage, Busy
  <2> QED BY <1>6, <1>9, <2>1, EditMessageEffect
<1>10. CASE SendMessage(w)
  <2>1. Busy(w) /\ UNCHANGED <<completed, ran>>
    BY <1>10 DEF SendMessage, Busy
  <2> QED BY <1>4, <1>5, <1>10, <2>1, SendMessageEffect
<1>11. CASE PinMessage(w)
  <2>1. Busy(w) /\ UNCHANGED <<completed, ran>>
    BY <1>11 DEF PinMessage, Busy
  <2> QED BY <1>5, <1>6, <1>11, <2>1, PinMessageEffect
<1>12. CASE UpdateSpaceWelcomeMessageID(w)
  <2>1. Busy(w) /\ UNCHANGED <<completed, ran>>
    BY <1>12 DEF UpdateSpaceWelcomeMessageID, Busy
  <2> QED BY <1>6, <1>12, <2>1, RecordEffect
<1>13. CASE AdvanceJob(w)
  <2>1. UNCHANGED task
    BY <1>13 DEF AdvanceJob, taskVars
  <2> QED BY <1>1, <1>3, <1>13, <2>1, JobAdvances
<1>14. CASE Finish(w)
  <2>1. /\ Busy(w) /\ UNCHANGED <<completed, ran>>
        /\ worker[w].pc = "finish" /\ HandsBack(w, {"none"})
    BY <1>14, FinishEffect DEF Finish, Busy
  <2> QED BY <1>5, <2>1
<1> QED BY <1>2, <1>7, <1>8, <1>9, <1>10, <1>11, <1>12, <1>13, <1>14
        DEF WorkerStep

LEMMA JobNext == TypeInv /\ JobInv /\ [Next]_vars => JobInv'
<1> SUFFICES ASSUME TypeInv, JobInv, [Next]_vars PROVE JobInv'
  OBVIOUS
<1> USE DEF historyVars, jobVars, taskVars
<1>1. ASSUME NEW r \in Requests, RequestStep(r), Quiet'
      PROVE OneAtATime' /\ HaveJobs' /\ JobsRan'
  <2>1. /\ faults' = 0 /\ UNCHANGED crowded
        /\ Fault \/ UNCHANGED faults
    BY <1>1 DEF Quiet, RequestStep, GetSpaceByID, CreateJob, Enqueue,
       StoreResponse, APICrash
  <2>2. ~Fault
    BY <2>1, FaultCounted DEF TypeInv, TypeOK
  <2>3. \A i \in TaskIds : task[i] = "dead" => task'[i] = "dead"
    <3>1. CASE Enqueue(r)
      BY <3>1 DEF Enqueue, TypeInv, TypeOK
    <3>2. CASE ~Enqueue(r)
      BY <1>1, <3>2 DEF RequestStep, GetSpaceByID, CreateJob, StoreResponse,
         APICrash
    <3> QED BY <3>1, <3>2
  <2>4. Quiet /\ OneAtATime /\ HaveJobs /\ JobsRan
    BY <1>1, <2>1, <2>3, QuietBefore DEF JobInv, Quiet
  <2> QED BY <1>1, <2>1, <2>2, <2>4, JobCreates, JobEnqueues, JobRequests
             DEF RequestStep, APICrash
<1>2. ASSUME NEW r \in Requests, NEW text \in Texts \cup {None},
             NEW key \in Keys \cup {None}, Send(r, text, key), Quiet'
      PROVE OneAtATime' /\ HaveJobs' /\ JobsRan'
  <2>1. ~crowded' /\ ~crowded /\ UNCHANGED <<faults, task>>
    BY <1>2 DEF Quiet, Send
  <2>2. OneAtATime /\ HaveJobs /\ JobsRan
    BY <1>2, <2>1 DEF JobInv, Quiet
  <2> QED BY <1>2, <2>1, <2>2, JobSends
<1>3. ASSUME NEW w \in Workers, NEW i \in TaskIds, StartTask(w, i), Quiet'
      PROVE OneAtATime' /\ HaveJobs' /\ JobsRan'
  <2>1. /\ UNCHANGED <<faults, crowded>>
        /\ \A j \in TaskIds : task[j] = "dead" => task'[j] = "dead"
    BY <1>3 DEF StartTask, TypeInv, TypeOK
  <2>2. OneAtATime /\ HaveJobs /\ JobsRan
    BY <1>3, <2>1 DEF JobInv, Quiet
  <2> QED BY <1>3, <2>2, JobStarts
<1>4. ASSUME NEW m \in Messages, DeleteMessage(m)
      PROVE JobInv'
  BY <1>4, JobAside DEF DeleteMessage
<1>5. CASE Provisioned \/ UNCHANGED vars
  BY <1>5, JobAside DEF Provisioned, vars
<1>6. ASSUME NEW w \in Workers, WorkerStep(w)
      PROVE JobInv'
  BY <1>6, JobRuns DEF JobInv
<1> QED BY <1>1, <1>2, <1>3, <1>4, <1>5, <1>6 DEF Next, JobInv

(* With syncs requested one after another, nothing failing and no task      *)
(* archived, advanceJob completes the jobs of the tasks that ran and no     *)
(* others, although it looks for the newest one.                            *)
THEOREM JobsFollow == Spec => []JobsFollowRuns
<1>1. TypeInv /\ JobInv => JobsFollowRuns
  BY DEF TypeInv, TypeOK, JobInv, Quiet, HaveJobs, JobsRan, JobsFollowRuns
<1> QED BY <1>1, TypeInit, TypeNext, JobInit, JobNext, PTL DEF Spec

-----------------------------------------------------------------------------
(* Extra pins are owed to failures or overlapping runs *)

(* A run that will edit, pin or record message m. *)
InHand(x, m) ==
    x.pc \in {"topic", "edit", "pin", "record"} /\ x.message = m

(* The run's message is known to nobody else. *)
Sole(w) ==
    /\ welcomeId # worker[w].message
    /\ \A v \in Workers : v # w => ~InHand(worker[v], worker[w].message)

(* A run that may still pin a message, or leave the row with one that is    *)
(* not pinned.                                                              *)
Owes(w) ==
    \/ worker[w].pc \in {"load", "topic", "edit", "send", "pin"}
    \/ /\ worker[w].pc = "record"
       /\ ~Sole(w) \/ worker[w].message \notin pinned

(* L is the run that started alone, if it is still there; the others have   *)
(* been paid for when they started.                                         *)
Charged(L) == {w \in Workers : w \notin L /\ Owes(w)}

(* The recorded message has no pin, or the leading run is to replace it. *)
Replaces(l) ==
    \/ worker[l].pc \in {"send", "pin"}
    \/ /\ worker[l].pc \in {"topic", "edit", "record"}
       /\ worker[l].message \notin pinned
Vacant(L) ==
    \/ \E l \in L : Replaces(l)
    \/ /\ \A l \in L : worker[l].pc \in {"idle", "load", "job", "finish"}
       /\ welcomeId \notin pinned

Bit(b) == IF b THEN 1 ELSE 0
PaidBy(L) ==
    /\ IsFiniteSet(Charged(L))
    /\ Cardinality(pinned) + Cardinality(Charged(L)) + Bit(Vacant(L))
         <= 1 + faults + overlaps

Led == {L \in SUBSET Workers : \A k, l \in L : k = l}
PinsSole == \A w \in Workers : worker[w].pc = "pin" => Sole(w)
PaidInv == PinsSole /\ \E L \in Led : PaidBy(L)

LEMMA PinnedFinite ==
  ASSUME TypeInv
  PROVE  /\ IsFiniteSet(pinned) /\ Cardinality(pinned) \in Nat
         /\ faults \in Nat /\ overlaps \in Nat
<1>1. IsFiniteSet(Messages)
  BY FS_Interval DEF Messages
<1>2. pinned \subseteq Messages
  BY DEF TypeInv, TypeOK
<1>3. IsFiniteSet(pinned)
  BY <1>1, <1>2, FS_Subset
<1> QED BY <1>3, FS_CardinalityType DEF TypeInv, TypeOK

(* A set that gains at most w grows by at most w. *)
LEMMA SizesGrow ==
  ASSUME NEW S, NEW T, NEW w, IsFiniteSet(S), T \ {w} \subseteq S \ {w}
  PROVE  /\ IsFiniteSet(T)
         /\ Cardinality(S) \in Nat /\ Cardinality(T) \in Nat
         /\ Cardinality(T) + Bit(w \in S) <= Cardinality(S) + Bit(w \in T)
<1> DEFINE R == S \ {w}
           Q == T \ {w}
<1>1. /\ IsFiniteSet(R) /\ Cardinality(S) \in Nat /\ Cardinality(R) \in Nat
      /\ Cardinality(R) = IF w \in S THEN Cardinality(S) - 1
                          ELSE Cardinality(S)
  BY FS_RemoveElement, FS_CardinalityType
<1>2. w \notin Q /\ Q \subseteq R /\ T = IF w \in T THEN Q \cup {w} ELSE Q
  OBVIOUS
<1> HIDE DEF R, Q
<1>3. /\ IsFiniteSet(Q) /\ Cardinality(Q) \in Nat
      /\ Cardinality(Q) <= Cardinality(R)
  BY <1>1, <1>2, FS_Subset, FS_CardinalityType
<1>4. /\ IsFiniteSet(Q \cup {w})
      /\ Cardinality(Q \cup {w}) = Cardinality(Q) + 1
  BY <1>2, <1>3, FS_AddElement
<1>5. CASE w \in T
  <2>1. T = Q \cup {w}
    BY <1>2, <1>5
  <2> QED BY <1>1, <1>3, <1>4, <1>5, <2>1 DEF Bit
<1>6. CASE w \notin T
  <2>1. T = Q
    BY <1>2, <1>6
  <2> QED BY <1>1, <1>3, <1>6, <2>1 DEF Bit
<1> QED BY <1>5, <1>6

LEMMA OneSizes ==
  ASSUME NEW S, NEW x, IsFiniteSet(S)
  PROVE  /\ Cardinality(S \cup {x}) \in Nat
         /\ Cardinality(S \cup {x}) <= Cardinality(S) + 1
         /\ Cardinality(S \ {x}) = Cardinality(S) - Bit(x \in S)
<1>1. Cardinality(S) \in Nat
  BY FS_CardinalityType
<1>2. /\ IsFiniteSet(S \cup {x})
      /\ Cardinality(S \cup {x}) = IF x \in S THEN Cardinality(S)
                                 ELSE Cardinality(S) + 1
  BY FS_AddElement
<1>3. Cardinality(S \ {x}) = IF x \in S THEN Cardinality(S) - 1
                            ELSE Cardinality(S)
  BY FS_RemoveElement
<1> QED BY <1>1, <1>2, <1>3 DEF Bit

LEMMA PaidInit == Init => PaidInv
<1> SUFFICES ASSUME Init PROVE PaidInv
  OBVIOUS
<1>1. \A w \in Workers : worker[w].pc = "idle"
  BY IdleTyped DEF Init
<1>2. {} \in Led /\ Charged({}) = {}
  BY <1>1 DEF Led, Charged, Owes
<1>3. pinned = {} /\ faults = 0 /\ overlaps = 0
  BY DEF Init
<1>4. PaidBy({})
  BY <1>2, <1>3, FS_EmptySet DEF PaidBy, Bit
<1>5. PinsSole
  BY <1>1 DEF PinsSole
<1> QED BY <1>2, <1>4, <1>5 DEF PaidInv

(* A step of run w is paid for if failures and overlaps cover what it pins, *)
(* owes and leaves vacant, and it makes nobody else owe anything.           *)
LEMMA RunPaid ==
  ASSUME TypeInv, TypeInv', NEW L \in Led, PaidBy(L), NEW w \in Workers,
         \A v \in Workers : v # w => (Owes(v)' => Owes(v)),
         Cardinality(pinned') + Bit(w \notin L /\ Owes(w)') + Bit(Vacant(L)')
           + faults + overlaps
         <= Cardinality(pinned) + Bit(w \notin L /\ Owes(w)) + Bit(Vacant(L))
              + faults' + overlaps'
  PROVE  PaidBy(L)'
<1>1. /\ IsFiniteSet(Charged(L))
      /\ Cardinality(pinned) + Cardinality(Charged(L)) + Bit(Vacant(L))
           <= 1 + faults + overlaps
  BY DEF PaidBy
<1>2. Charged(L)' \ {w} \subseteq Charged(L) \ {w}
  BY DEF Charged
<1>3. /\ IsFiniteSet(Charged(L)')
      /\ Cardinality(Charged(L)) \in Nat /\ Cardinality(Charged(L)') \in Nat
      /\ Cardinality(Charged(L)') + Bit(w \in Charged(L))
           <= Cardinality(Charged(L)) + Bit(w \in Charged(L)')
  BY <1>1, <1>2, SizesGrow
<1>4. /\ w \in Charged(L) <=> (w \notin L /\ Owes(w))
      /\ w \in Charged(L)' <=> (w \notin L /\ Owes(w)')
  BY DEF Charged
<1>5. /\ Cardinality(pinned) \in Nat /\ faults \in Nat /\ overlaps \in Nat
      /\ Cardinality(pinned') \in Nat /\ faults' \in Nat /\ overlaps' \in Nat
  <2>1. /\ Cardinality(pinned) \in Nat /\ faults \in Nat /\ overlaps \in Nat
    BY PinnedFinite
  <2>2. /\ (Cardinality(pinned) \in Nat)' /\ (faults \in Nat)'
        /\ (overlaps \in Nat)'
    BY PinnedFinite, PTL
  <2> QED BY <2>1, <2>2
<1>6. Cardinality(pinned') + Cardinality(Charged(L)') + Bit(Vacant(L)')
        <= 1 + faults' + overlaps'
  BY <1>1, <1>3, <1>4, <1>5 DEF Bit
<1> QED BY <1>3, <1>6 DEF PaidBy

(* What only one run knows stays so while another run w goes on: w takes    *)
(* the recorded message, one it had, or a new one.                          *)
LEMMA SoleStays ==
  ASSUME TypeInv, PinInv, NEW v \in Workers, NEW w \in Workers, v # w,
         worker[v].pc \in {"pin", "record"}, Sole(v), NEW y, Typed(y),
         Moves(w, y),
         \A m \in Messages : InHand(y, m) =>
             m = welcomeId \/ InHand(worker[w], m) \/ m = posted + 1,
         welcomeId' = welcomeId
           \/ (welcomeId' \in Messages /\ InHand(worker[w], welcomeId'))
  PROVE  Sole(v)' /\ worker'[v] = worker[v]
<1>1. /\ worker'[w] = y
      /\ \A u \in Workers : u # w => worker'[u] = worker[u]
  BY MovesTyped
<1>2. PICK m \in Messages : m = worker[v].message
  BY DEF TypeInv, Typed
<1>3. m <= posted /\ posted \in Nat /\ m # None
  BY <1>2 DEF PinInv, PinKnows, Backed, TypeInv, TypeOK
<1>4. welcomeId # m /\ ~InHand(worker[w], m)
  BY <1>2 DEF Sole
<1>5. ~InHand(y, m)
  BY <1>3, <1>4
<1>6. welcomeId' # m
  BY <1>4
<1>7. ASSUME NEW u \in Workers, u # v PROVE ~InHand(worker'[u], m)
  BY <1>1, <1>2, <1>5, <1>7 DEF Sole
<1> QED BY <1>1, <1>2, <1>6, <1>7 DEF Sole

(* So nobody else owes more than before. *)
LEMMA OthersOwe ==
  ASSUME TypeInv, PinInv, NEW w \in Workers, NEW y, Typed(y), Moves(w, y),
         \A m \in Messages : InHand(y, m) =>
             m = welcomeId \/ InHand(worker[w], m) \/ m = posted + 1,
         welcomeId' = welcomeId
           \/ (welcomeId' \in Messages /\ InHand(worker[w], welcomeId')),
         pinned \subseteq pinned'
  PROVE  /\ \A v \in Workers : v # w => (Owes(v)' => Owes(v))
         /\ PinsSole => \A v \in Workers :
              v # w /\ worker'[v].pc = "pin" => Sole(v)'
<1>1. \A u \in Workers : u # w => worker'[u] = worker[u]
  BY MovesTyped
<1>2. ASSUME NEW v \in Workers, v # w, Owes(v)', ~Owes(v) PROVE FALSE
  <2>1. worker'[v] = worker[v]
    BY <1>1, <1>2
  <2>2. worker[v].pc = "record" /\ Sole(v) /\ worker[v].message \in pinned
    BY <1>2, <2>1 DEF Owes
  <2>3. Sole(v)'
    BY <1>2, <2>2, SoleStays
  <2> QED BY <1>2, <2>1, <2>2, <2>3 DEF Owes
<1>3. ASSUME PinsSole, NEW v \in Workers, v # w, worker'[v].pc = "pin"
      PROVE  Sole(v)'
  <2>1. worker[v].pc = "pin" /\ Sole(v)
    BY <1>1, <1>3 DEF PinsSole
  <2> QED BY <1>3, <2>1, SoleStays
<1> QED BY <1>2, <1>3

(* The leading run decides alone what is vacant, and no other run does.     *)
LEMMA LeadVacant ==
  ASSUME NEW L \in Led, NEW w \in Workers
  PROVE  /\ w \in L =>
              (Vacant(L) <=> \/ Replaces(w)
                             \/ /\ worker[w].pc \in {"idle", "load", "job",
                                                     "finish"}
                                /\ welcomeId \notin pinned)
         /\ w \in L =>
              (Vacant(L)' <=> \/ Replaces(w)'
                              \/ /\ worker'[w].pc \in {"idle", "load", "job",
                                                       "finish"}
                                 /\ welcomeId' \notin pinned')
<1>1. w \in L => \A l \in L : l = w
  BY DEF Led
<1> QED BY <1>1 DEF Vacant, Replaces

LEMMA OtherVacant ==
  ASSUME NEW L \in Led, NEW w \in Workers, w \notin L,
         \A u \in Workers : u # w => worker'[u] = worker[u],
         pinned \subseteq pinned', Vacant(L)', ~Vacant(L)
  PROVE  welcomeId' \notin pinned' /\ welcomeId \in pinned
<1>1. \A l \in L : worker'[l] = worker[l]
  BY DEF Led
<1> QED BY <1>1 DEF Vacant, Replaces

(* A call of a run that changes neither pins nor row. *)
LEMMA CallPaid ==
  ASSUME TypeInv, TypeInv', PinInv, PaidInv, NEW w \in Workers, NEW y,
         Typed(y), Moves(w, y), UNCHANGED <<pinned, welcomeId, overlaps>>,
         faults' \in {faults, faults + 1}, NEW p, p = worker[w].pc,
         \/ p = "load" /\ y.pc = "topic" /\ y.message = welcomeId
         \/ p = "load" /\ y.pc = "idle"
         \/ p = "topic" /\ y.pc = "send" /\ worker[w].message = None
         \/ p = "topic" /\ y.pc = "edit" /\ y.message = worker[w].message
         \/ p = "edit" /\ y.pc = "record" /\ y.message = worker[w].message
         \/ p = "edit" /\ y.pc = "send"
              /\ (worker[w].message \notin pinned \/ faults' = faults + 1)
         \/ p = "send" /\ y.pc = "pin" /\ y.message = posted + 1
         \/ p = "pin" /\ y.pc = "idle"
         \/ p \in {"job", "finish"} /\ y.pc \in {"finish", "idle"}
         \/ y.pc = "idle" /\ faults' = faults + 1
  PROVE  PaidInv'
<1>1. PICK L \in Led : PaidBy(L)
  BY DEF PaidInv
<1>2. /\ worker'[w] = y
      /\ \A u \in Workers : u # w => worker'[u] = worker[u]
  BY MovesTyped
<1>3. \A m \in Messages : InHand(y, m) =>
        m = welcomeId \/ InHand(worker[w], m) \/ m = posted + 1
  BY DEF InHand
<1>4. /\ \A v \in Workers : v # w => (Owes(v)' => Owes(v))
      /\ \A v \in Workers : v # w /\ worker'[v].pc = "pin" => Sole(v)'
  BY <1>3, OthersOwe DEF PaidInv
<1>5. Cardinality(pinned) \in Nat /\ faults \in Nat /\ overlaps \in Nat
  BY PinnedFinite
<1>6. w \notin L => (Owes(w)' => Owes(w)) /\ (Vacant(L)' => Vacant(L))
  <2>1. Owes(w)' => Owes(w)
    BY <1>2 DEF Owes
  <2> QED BY <1>2, <2>1, OtherVacant
<1>7. w \in L /\ Vacant(L)' => Vacant(L) \/ faults' = faults + 1
  <2>1. None \notin pinned
    BY DEF TypeInv, TypeOK
  <2> QED BY <1>2, <2>1, LeadVacant DEF Replaces
<1>8. Cardinality(pinned') + Bit(w \notin L /\ Owes(w)') + Bit(Vacant(L)')
        + faults + overlaps
      <= Cardinality(pinned) + Bit(w \notin L /\ Owes(w)) + Bit(Vacant(L))
           + faults' + overlaps'
  BY <1>5, <1>6, <1>7 DEF Bit
<1>9. PaidBy(L)'
  BY <1>1, <1>4, <1>8, RunPaid
<1>10. ASSUME y.pc = "pin" PROVE Sole(w)'
  <2>1. y.message = posted + 1 /\ posted \in Nat /\ y.message \in Messages
    BY <1>10 DEF TypeInv, TypeOK, Typed
  <2>2. welcomeId # y.message
    BY <2>1 DEF PinInv, Backed, TypeInv, TypeOK, MaybeMessage, Messages
  <2>3. ASSUME NEW v \in Workers, v # w PROVE ~InHand(worker[v], y.message)
    BY <2>1, <2>3 DEF PinInv, PinKnows, Backed, InHand
  <2> QED BY <1>2, <2>2, <2>3 DEF Sole
<1>11. PinsSole'
  BY <1>2, <1>4, <1>10 DEF PinsSole
<1> QED BY <1>9, <1>11 DEF PaidInv

(* The pin: a run that was paid for has pinned, or the vacancy is filled. *)
LEMMA PinPaid ==
  ASSUME TypeInv, TypeInv', PinInv, PaidInv, NEW w \in Workers, PinMessage(w)
  PROVE  PaidInv'
<1>0. /\ UNCHANGED <<welcomeId, overlaps>> /\ faults' \in {faults, faults + 1}
      /\ worker[w].pc = "pin"
  BY DEF PinMessage, rowVars, historyVars, Fault
<1>1. PICK L \in Led : PaidBy(L)
  BY DEF PaidInv
<1>2. PICK m \in Messages : m = worker[w].message
  BY PinMessageEffect
<1>3. Sole(w)
  BY <1>0 DEF PaidInv, PinsSole
<1>4. /\ IsFiniteSet(pinned) /\ Cardinality(pinned) \in Nat
      /\ faults \in Nat /\ overlaps \in Nat
  BY PinnedFinite
<1>5. ASSUME pinned' = pinned \cup {m}, NEW y, Typed(y), Moves(w, y),
             \/ y.pc = "record" /\ y.message = m
             \/ y.pc = "idle" /\ faults' = faults + 1
      PROVE  PaidInv'
  <2>1. /\ worker'[w] = y
        /\ \A u \in Workers : u # w => worker'[u] = worker[u]
    BY <1>5, MovesTyped
  <2>2. \A n \in Messages : InHand(y, n) => InHand(worker[w], n)
    BY <1>0, <1>2, <1>5 DEF InHand
  <2>3. /\ \A v \in Workers : v # w => (Owes(v)' => Owes(v))
        /\ \A v \in Workers : v # w /\ worker'[v].pc = "pin" => Sole(v)'
    BY <1>0, <1>5, <2>2, OthersOwe DEF PaidInv
  <2>4. y.pc = "record" => Sole(w)'
    BY <1>0, <1>2, <1>3, <1>5, <2>1 DEF Sole
  <2>5. Owes(w) /\ ~Owes(w)'
    BY <1>0, <1>5, <2>1, <2>4 DEF Owes
  <2>6. Cardinality(pinned') <= Cardinality(pinned) + 1
        /\ Cardinality(pinned') \in Nat
    BY <1>4, <1>5, OneSizes
  <2>7. w \notin L => (Vacant(L)' => Vacant(L))
    BY <1>0, <1>5, <2>1, OtherVacant
  <2>8. w \in L => Vacant(L) /\ (Vacant(L)' => faults' = faults + 1)
    BY <1>0, <1>2, <1>5, <2>1, LeadVacant DEF Replaces
  <2>9. Cardinality(pinned') + Bit(w \notin L /\ Owes(w)') + Bit(Vacant(L)')
          + faults + overlaps
        <= Cardinality(pinned) + Bit(w \notin L /\ Owes(w)) + Bit(Vacant(L))
             + faults' + overlaps'
    BY <1>0, <1>4, <2>5, <2>6, <2>7, <2>8 DEF Bit
  <2>10. PaidBy(L)'
    BY <1>1, <2>3, <2>9, RunPaid
  <2>11. PinsSole'
    BY <1>5, <2>1, <2>3 DEF PinsSole
  <2> QED BY <2>10, <2>11 DEF PaidInv
<1>6. CASE \/ content[m] # None /\ pinned' = PinnedMessage(m)
                /\ Step(w, "record") /\ UNCHANGED <<taskVars, faults>>
  <2>1. PICK y : /\ Moves(w, y) /\ Typed(y) /\ y.pc = "record"
                 /\ y.message = worker[w].message
    <3>1. worker[w].text \in Contents /\ worker[w].message \in Messages
      BY <1>0 DEF TypeInv, Typed
    <3> QED BY <1>0, <1>6, <3>1, StepMoves
  <2> QED BY <1>2, <1>5, <1>6, <2>1 DEF PinnedMessage
<1>7. CASE ReturnError(w) /\ (pinned' = PinnedMessage(m) => Fault)
             /\ pinned' \in {pinned, PinnedMessage(m)}
  <2>1. Moves(w, Idle)
    BY <1>0, <1>7, ReturnErrorHandsBack DEF HandsBack
  <2>2. CASE pinned' = pinned
    BY <1>0, <2>1, <2>2, IdleTyped, CallPaid
  <2>3. CASE pinned' = PinnedMessage(m)
    BY <1>5, <1>7, <2>1, <2>3, IdleTyped DEF PinnedMessage, Fault
  <2> QED BY <1>7, <2>2, <2>3
<1>8. CASE content[m] = None /\ ReturnError(w) /\ UNCHANGED pinned
  <2>1. Moves(w, Idle)
    BY <1>0, <1>8, ReturnErrorHandsBack DEF HandsBack
  <2> QED BY <1>0, <1>8, <2>1, IdleTyped, CallPaid
<1> QED BY <1>2, <1>6, <1>7, <1>8 DEF PinMessage

(* The record: a message that lost its pin leaves the row vacant, at the    *)
(* cost of the run that recorded it.                                        *)
LEMMA RecordPaid ==
  ASSUME TypeInv, TypeInv', PinInv, PaidInv, NEW w \in Workers,
         UpdateSpaceWelcomeMessageID(w)
  PROVE  PaidInv'
<1>0. /\ UNCHANGED <<pinned, overlaps>> /\ faults' \in {faults, faults + 1}
      /\ worker[w].pc = "record" /\ worker[w].message \in Messages
      /\ welcomeId' \in {welcomeId, worker[w].message}
      /\ welcomeId' = worker[w].message \/ faults' = faults + 1
  BY RecordEffect DEF UpdateSpaceWelcomeMessageID, discordVars, Fault
<1>1. PICK L \in Led : PaidBy(L)
  BY DEF PaidInv
<1>2. PICK y : Moves(w, y) /\ Typed(y) /\ y.pc = "job"
  BY RecordEffect DEF GoesOn, Continues
<1>3. /\ worker'[w] = y
      /\ \A u \in Workers : u # w => worker'[u] = worker[u]
  BY <1>2, MovesTyped
<1>4. /\ \A n \in Messages : ~InHand(y, n)
      /\ welcomeId' = welcomeId
           \/ (welcomeId' \in Messages /\ InHand(worker[w], welcomeId'))
  BY <1>0, <1>2 DEF InHand
<1>5. /\ \A v \in Workers : v # w => (Owes(v)' => Owes(v))
      /\ \A v \in Workers : v # w /\ worker'[v].pc = "pin" => Sole(v)'
  BY <1>0, <1>2, <1>4, OthersOwe DEF PaidInv
<1>6. Cardinality(pinned) \in Nat /\ faults \in Nat /\ overlaps \in Nat
  BY PinnedFinite
<1>7. ~Owes(w)'
  BY <1>2, <1>3 DEF Owes
<1>8. w \notin L => (Vacant(L)' => Vacant(L) \/ Owes(w))
  BY <1>0, <1>3, OtherVacant DEF Owes
<1>9. w \in L => (Vacant(L)' => Vacant(L) \/ faults' = faults + 1)
  BY <1>0, <1>2, <1>3, LeadVacant DEF Replaces
<1>10. Cardinality(pinned') + Bit(w \notin L /\ Owes(w)') + Bit(Vacant(L)')
         + faults + overlaps
       <= Cardinality(pinned) + Bit(w \notin L /\ Owes(w)) + Bit(Vacant(L))
            + faults' + overlaps'
  BY <1>0, <1>6, <1>7, <1>8, <1>9 DEF Bit
<1>11. PaidBy(L)'
  BY <1>1, <1>5, <1>10, RunPaid
<1>12. PinsSole'
  BY <1>2, <1>3, <1>5 DEF PinsSole
<1> QED BY <1>11, <1>12 DEF PaidInv

(* A run that starts alone leads; one that does not is paid for by the      *)
(* overlap.                                                                 *)
LEMMA StartPaid ==
  ASSUME TypeInv, TypeInv', PinInv, PaidInv, NEW w \in Workers,
         NEW i \in TaskIds, StartTask(w, i)
  PROVE  PaidInv'
<1>0. /\ UNCHANGED <<pinned, welcomeId, faults>> /\ worker[w].pc = "idle"
  BY DEF StartTask, rowVars, discordVars, Busy
<1>1. PICK L \in Led : PaidBy(L)
  BY DEF PaidInv
<1>2. PICK y : Moves(w, y) /\ Typed(y) /\ y.pc = "load"
  <2> DEFINE y == [Idle EXCEPT !.pc = "load", !.id = i]
  <2>1. Moves(w, y)
    BY StartTaskTypes
  <2>2. worker'[w] = y /\ y.pc = "load"
    BY <2>1 DEF Moves, TypeInv, TypeOK, Idle
  <2>3. Typed(y)
    BY <2>2 DEF TypeInv
  <2> HIDE DEF y
  <2> QED BY <2>1, <2>2, <2>3
<1>3. /\ worker'[w] = y
      /\ \A u \in Workers : u # w => worker'[u] = worker[u]
  BY <1>2, MovesTyped
<1>4. /\ \A v \in Workers : v # w => (Owes(v)' => Owes(v))
      /\ \A v \in Workers : v # w /\ worker'[v].pc = "pin" => Sole(v)'
  <2>1. \A n \in Messages : ~InHand(y, n)
    BY <1>2 DEF InHand
  <2> QED BY <1>0, <1>2, <2>1, OthersOwe DEF PaidInv
<1>5. Cardinality(pinned) \in Nat /\ faults \in Nat /\ overlaps \in Nat
  BY PinnedFinite
<1>6. PinsSole'
  BY <1>2, <1>3, <1>4 DEF PinsSole
<1>7. CASE \E v \in Workers : Busy(v)
  <2>1. overlaps' = overlaps + 1
    BY <1>7 DEF StartTask
  <2>2. Vacant(L)' => Vacant(L)
    <3>1. CASE w \in L
      BY <1>0, <1>2, <1>3, <3>1, LeadVacant DEF Replaces
    <3>2. CASE w \notin L
      BY <1>0, <1>3, <3>2, OtherVacant
    <3> QED BY <3>1, <3>2
  <2>3. Cardinality(pinned') + Bit(w \notin L /\ Owes(w)') + Bit(Vacant(L)')
          + faults + overlaps
        <= Cardinality(pinned) + Bit(w \notin L /\ Owes(w)) + Bit(Vacant(L))
             + faults' + overlaps'
    BY <1>0, <1>5, <2>1, <2>2 DEF Bit
  <2>4. PaidBy(L)'
    BY <1>1, <1>4, <2>3, RunPaid
  <2> QED BY <1>6, <2>4 DEF PaidInv
<1>8. CASE \A v \in Workers : worker[v].pc = "idle"
  <2>1. overlaps' = overlaps
    BY <1>8 DEF StartTask, Busy
  <2>2. {w} \in Led
    BY DEF Led
  <2>3. Charged({w})' = {}
    BY <1>3, <1>8 DEF Charged, Owes
  <2>4. Vacant({w})' => Vacant(L)
    <3>1. Vacant({w})' => welcomeId \notin pinned
      BY <1>0, <1>2, <1>3, <2>2, LeadVacant DEF Replaces
    <3>2. \A l \in L : worker[l].pc = "idle"
      BY <1>8 DEF Led
    <3> QED BY <3>1, <3>2 DEF Vacant
  <2>5. /\ IsFiniteSet(Charged({w})') /\ Cardinality(Charged({w})') = 0
    BY <2>3, FS_EmptySet
  <2>6. /\ Cardinality(Charged(L)) \in Nat
        /\ Cardinality(pinned) + Cardinality(Charged(L)) + Bit(Vacant(L))
             <= 1 + faults + overlaps
    BY <1>1, FS_CardinalityType DEF PaidBy
  <2>7. Cardinality(pinned') + Cardinality(Charged({w})') + Bit(Vacant({w})')
          <= 1 + faults' + overlaps'
    BY <1>0, <1>5, <2>1, <2>4, <2>5, <2>6 DEF Bit
  <2>8. PaidBy({w})'
    BY <2>5, <2>7 DEF PaidBy
  <2> QED BY <1>6, <2>2, <2>8 DEF PaidInv
<1> QED BY <1>7, <1>8 DEF Busy

(* A moderator frees the place of a pin: for the run that alone knows the   *)
(* message, or else for whoever replaces it.                                *)
LEMMA DeletePaid ==
  ASSUME TypeInv, TypeInv', PaidInv, NEW m \in Messages, DeleteMessage(m)
  PROVE  PaidInv'
<1>0. /\ UNCHANGED <<worker, welcomeId, faults, overlaps>>
      /\ pinned' = pinned \ {m}
  BY DEF DeleteMessage, rowVars, historyVars
<1>1. PICK L \in Led : PaidBy(L)
  BY DEF PaidInv
<1>2. (\A v \in Workers : Sole(v)' <=> Sole(v)) /\ PinsSole'
  BY <1>0 DEF Sole, PaidInv, PinsSole
<1>3. /\ IsFiniteSet(pinned) /\ Cardinality(pinned) \in Nat
      /\ faults \in Nat /\ overlaps \in Nat
  BY PinnedFinite
<1>4. Cardinality(pinned') = Cardinality(pinned) - Bit(m \in pinned)
  BY <1>0, <1>3, OneSizes
<1>5. /\ IsFiniteSet(Charged(L)) /\ Cardinality(Charged(L)) \in Nat
      /\ Cardinality(pinned) + Cardinality(Charged(L)) + Bit(Vacant(L))
           <= 1 + faults + overlaps
  BY <1>1, FS_CardinalityType DEF PaidBy
<1>6. m \notin pinned => pinned' = pinned
  BY <1>0
<1>7. \A v \in Workers : Owes(v)' /\ ~Owes(v) =>
        /\ worker[v].pc = "record" /\ Sole(v) /\ worker[v].message = m
        /\ m \in pinned
  BY <1>0, <1>2 DEF Owes
<1>8. CASE \E v \in Workers : v \notin L /\ Owes(v)' /\ ~Owes(v)
  <2>1. PICK v \in Workers : v \notin L /\ Owes(v)' /\ ~Owes(v)
    BY <1>8
  <2>2. /\ worker[v].pc = "record" /\ Sole(v) /\ worker[v].message = m
        /\ m \in pinned
    BY <1>7, <2>1
  <2>3. /\ welcomeId # m
        /\ \A u \in Workers : u # v => ~InHand(worker[u], m)
    BY <2>2 DEF Sole
  <2>4. \A u \in Workers : u # v => (Owes(u)' => Owes(u))
    BY <1>7, <2>3 DEF InHand
  <2>5. \A l \in L : Replaces(l)' => Replaces(l)
    BY <1>0, <2>1, <2>3 DEF Led, Replaces, InHand
  <2>6. Vacant(L)' => Vacant(L)
    BY <1>0, <2>3, <2>5 DEF Vacant
  <2>7. Cardinality(pinned') + Bit(v \notin L /\ Owes(v)') + Bit(Vacant(L)')
          + faults + overlaps
        <= Cardinality(pinned) + Bit(v \notin L /\ Owes(v)) + Bit(Vacant(L))
             + faults' + overlaps'
    BY <1>0, <1>3, <1>4, <2>1, <2>2, <2>6 DEF Bit
  <2>8. PaidBy(L)'
    BY <1>1, <2>4, <2>7, RunPaid
  <2> QED BY <1>2, <2>8 DEF PaidInv
<1>9. CASE \A v \in Workers : v \notin L /\ Owes(v)' => Owes(v)
  <2>1. Charged(L)' \subseteq Charged(L)
    BY <1>9 DEF Charged
  <2>2. /\ IsFiniteSet(Charged(L)') /\ Cardinality(Charged(L)') \in Nat
        /\ Cardinality(Charged(L)') <= Cardinality(Charged(L))
    BY <1>5, <2>1, FS_Subset, FS_CardinalityType
  <2>3. m \notin pinned => (Vacant(L)' => Vacant(L))
    BY <1>0, <1>6 DEF Vacant, Replaces
  <2>4. Cardinality(pinned') + Cardinality(Charged(L)') + Bit(Vacant(L)')
          <= 1 + faults' + overlaps'
    BY <1>0, <1>3, <1>4, <1>5, <2>2, <2>3 DEF Bit
  <2>5. PaidBy(L)'
    BY <2>2, <2>4 DEF PaidBy
  <2> QED BY <1>1, <1>2, <2>5 DEF PaidInv
<1> QED BY <1>8, <1>9

(* Steps that touch neither runs nor pins nor the row. *)
LEMMA AsidePaid ==
  ASSUME TypeInv, TypeInv', PaidInv,
         UNCHANGED <<worker, pinned, welcomeId, overlaps>>,
         faults' \in {faults, faults + 1}
  PROVE  PaidInv'
<1>1. PICK L \in Led : PaidBy(L)
  BY DEF PaidInv
<1>2. (\A v \in Workers : Sole(v)' <=> Sole(v)) /\ PinsSole'
  BY DEF Sole, PaidInv, PinsSole
<1>3. Charged(L)' = Charged(L)
  BY <1>2 DEF Charged, Owes
<1>4. Vacant(L)' <=> Vacant(L)
  BY DEF Vacant, Replaces
<1>5. /\ IsFiniteSet(Charged(L)) /\ Cardinality(Charged(L)) \in Nat
      /\ Cardinality(pinned) + Cardinality(Charged(L)) + Bit(Vacant(L))
           <= 1 + faults + overlaps
  BY <1>1, FS_CardinalityType DEF PaidBy
<1>6. Cardinality(pinned) \in Nat /\ faults \in Nat /\ overlaps \in Nat
  BY PinnedFinite
<1>7. Cardinality(pinned') + Cardinality(Charged(L)') + Bit(Vacant(L)')
        <= 1 + faults' + overlaps'
  BY <1>3, <1>4, <1>5, <1>6 DEF Bit
<1>8. PaidBy(L)'
  BY <1>3, <1>5, <1>7 DEF PaidBy
<1> QED BY <1>1, <1>2, <1>8 DEF PaidInv

LEMMA HandsBackPaid ==
  ASSUME TypeInv, TypeInv', PinInv, PaidInv, NEW w \in Workers,
         Moves(w, Idle), UNCHANGED <<pinned, welcomeId, overlaps>>,
         \/ Fault
         \/ UNCHANGED faults /\ worker[w].pc \in {"load", "finish"}
  PROVE  PaidInv'
  BY IdleTyped, CallPaid DEF Fault

LEMMA PaidNext ==
  TypeInv /\ TypeInv' /\ PinInv /\ PaidInv /\ [Next]_vars => PaidInv'
<1> SUFFICES ASSUME TypeInv, TypeInv', PinInv, PaidInv, [Next]_vars
             PROVE  PaidInv'
  OBVIOUS
<1> USE DEF rowVars, discordVars, historyVars
<1>1. ASSUME NEW w \in Workers, LoadSpace(w)
      PROVE PaidInv'
  <2>1. UNCHANGED <<pinned, welcomeId, overlaps>>
    BY <1>1 DEF LoadSpace
  <2>2. ASSUME NEW y, Continues(w, y), y.pc = "topic",
               y.message = welcomeId, UNCHANGED faults, worker[w].pc = "load"
        PROVE PaidInv'
    BY <2>1, <2>2, CallPaid DEF Continues
  <2> QED BY <1>1, <2>1, <2>2, LoadSpaceEffect, HandsBackPaid DEF HandsBack
<1>2. ASSUME NEW w \in Workers, SetChannelTopic(w)
      PROVE PaidInv'
  <2>1. UNCHANGED <<pinned, welcomeId, overlaps>> /\ worker[w].pc = "topic"
    BY <1>2 DEF SetChannelTopic
  <2>2. ASSUME worker[w].message = None, GoesOn(w, "send"), UNCHANGED faults
        PROVE PaidInv'
    BY <2>1, <2>2, CallPaid DEF GoesOn, Continues
  <2>3. ASSUME GoesOn(w, "edit"), UNCHANGED faults
        PROVE PaidInv'
    BY <2>1, <2>3, CallPaid DEF GoesOn, Continues
  <2> QED BY <1>2, <2>1, <2>2, <2>3, SetChannelTopicEffect, HandsBackPaid
          DEF HandsBack
<1>3. ASSUME NEW w \in Workers, EditMessage(w)
      PROVE PaidInv'
  <2>1. UNCHANGED <<pinned, welcomeId, overlaps>> /\ worker[w].pc = "edit"
    BY <1>3 DEF EditMessage
  <2>2. ASSUME GoesOn(w, "record"), UNCHANGED faults
        PROVE PaidInv'
    BY <2>1, <2>2, CallPaid DEF GoesOn, Continues
  <2>3. ASSUME GoesOn(w, "send"),
               \/ worker[w].message \notin pinned /\ UNCHANGED faults
               \/ Fault
        PROVE PaidInv'
    BY <2>1, <2>3, CallPaid DEF GoesOn, Continues, Fault
  <2>4. \/ Step(w, "record")
        \/ content[worker[w].message] = None /\ UNCHANGED faults
        \/ Fault
    BY <1>3 DEF EditMessage
  <2>5. CASE Step(w, "record")
    <3>1. worker'[w].pc = "record"
      BY <2>5 DEF Step, TypeInv, TypeOK, WorkerRec
    <3>2. ~GoesOn(w, "send")
      BY <3>1, MovesTyped DEF GoesOn, Continues
    <3> QED BY <1>3, <2>2, <3>2, EditMessageEffect
  <2>6. content[worker[w].message] = None => worker[w].message \notin pinned
    BY DEF TypeInv, TypeOK
  <2> QED BY <1>3, <2>2, <2>3, <2>4, <2>5, <2>6, EditMessageEffect
<1>4. ASSUME NEW w \in Workers, SendMessage(w)
      PROVE PaidInv'
  <2>1. UNCHANGED <<pinned, welcomeId, overlaps>>
    BY <1>4 DEF SendMessage
  <2>2. ASSUME NEW y, Continues(w, y), y.pc = "pin",
               y.message = posted + 1, UNCHANGED faults, worker[w].pc = "send"
        PROVE PaidInv'
    BY <2>1, <2>2, CallPaid DEF Continues
  <2> QED BY <1>4, <2>1, <2>2, SendMessageEffect, HandsBackPaid DEF HandsBack
<1>5. ASSUME NEW w \in Workers, AdvanceJob(w)
      PROVE PaidInv'
  <2>1. UNCHANGED <<pinned, welcomeId, overlaps>> /\ worker[w].pc = "job"
        /\ faults' \in {faults, faults + 1}
    BY <1>5 DEF AdvanceJob, Fault
  <2>2. PICK y : Moves(w, y) /\ Typed(y) /\ y.pc = "finish"
    BY <1>5, AdvanceJobEffect DEF GoesOn, Continues
  <2> QED BY <2>1, <2>2, CallPaid
<1>6. ASSUME NEW w \in Workers, Finish(w)
      PROVE PaidInv'
  BY <1>6, FinishEffect, HandsBackPaid DEF Finish, HandsBack
<1>7. ASSUME NEW w \in Workers, LeaseLost(w)
      PROVE PaidInv'
  <2>1. UNCHANGED <<pinned, welcomeId, overlaps>> /\ Fault
        /\ (worker' = worker \/ Moves(w, Idle))
    BY <1>7 DEF LeaseLost, Moves
  <2> QED BY <2>1, AsidePaid, HandsBackPaid DEF Fault
<1>8. ASSUME NEW w \in Workers, WorkerStep(w)
      PROVE PaidInv'
  BY <1>1, <1>2, <1>3, <1>4, <1>5, <1>6, <1>7, <1>8, PinPaid, RecordPaid
     DEF WorkerStep
<1>9. ASSUME NEW r \in Requests, RequestStep(r)
      PROVE PaidInv'
  BY <1>9, AsidePaid DEF RequestStep, GetSpaceByID, CreateJob, Enqueue,
     StoreResponse, APICrash, Fault
<1>10. ASSUME NEW r \in Requests, NEW text \in Texts \cup {None},
              NEW key \in Keys \cup {None}, Send(r, text, key)
       PROVE PaidInv'
  BY <1>10, AsidePaid DEF Send
<1>11. CASE Provisioned
  BY <1>11, AsidePaid DEF Provisioned
<1>12. CASE UNCHANGED vars
  BY <1>12, AsidePaid DEF vars
<1> QED BY <1>8, <1>9, <1>10, <1>11, <1>12, StartPaid, DeletePaid DEF Next

(* A re-sync edits the pin rather than adding one (AC-4): whatever the      *)
(* interleaving, pins beyond the first number at most the failures and the  *)
(* runs that began while another was under way.                             *)
THEOREM ExtraPinsCaused == Spec => []ExtraPinsNeedCause
<1>1. TypeInv /\ PaidInv => ExtraPinsNeedCause
  <2> SUFFICES ASSUME TypeInv, PaidInv PROVE ExtraPinsNeedCause
    OBVIOUS
  <2>1. PICK L \in Led : PaidBy(L)
    BY DEF PaidInv
  <2>2. Cardinality(Charged(L)) \in Nat
    BY <2>1, FS_CardinalityType DEF PaidBy
  <2> QED BY <2>1, <2>2, PinnedFinite DEF PaidBy, Bit, ExtraPinsNeedCause
<1> QED BY <1>1, TypeInit, TypeNext, PinInit, PinNext, PaidInit, PaidNext, PTL
        DEF Spec
=============================================================================
