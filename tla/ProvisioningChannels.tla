------------------------ MODULE ProvisioningChannels ------------------------
(***************************************************************************)
(* How many channels a merchant can cost: every channel beyond the first   *)
(* is paid for by a failure, however many goroutines run, lose their lease *)
(* and write late.                                                         *)
(***************************************************************************)
EXTENDS ProvisioningProofs, FiniteSetTheorems

USE NoneAssumption, BoundsAssumption
USE DEF UpdateSpaceDiscordChannel, UpdateSpaceACLState, CreateChannelDenied

-----------------------------------------------------------------------------
(* The potential *)

(* Goroutine w has the lease of m's task. *)
Holds(w, m) == task[m].state = "active" /\ task[m].owner = w

(* The goroutine with the lease runs, and is at one of these steps. *)
Holding(m, steps) ==
    LET w == task[m].owner IN
    /\ task[m].state = "active" /\ w \in Workers
    /\ worker[w].m = m /\ worker[w].pc \in steps

(* The runs that may still create a channel, or undo the record of one, on  *)
(* their own account: those about to create, and those without the lease    *)
(* that have yet to load the space or to mark it.                           *)
IsDue(w, m) ==
    /\ worker[w].m = m
    /\ \/ worker[w].pc = "create"
       \/ worker[w].pc \in {"acquire", "load", "markSpace"} /\ ~Holds(w, m)
Due(m) == {w \in Workers : IsDue(w, m)}

(* What LoadSpace skips. *)
Recorded(m) == space[m].channel # NoChannel /\ space[m].acl = "applied"

(* The run with the lease, or the next one, will find the space not         *)
(* provisioned, and no run with the lease is seeing to that.                *)
Open(m) ==
    \/ Holding(m, {"markSpace"})
    \/ ~Recorded(m) /\ ~Holding(m, {"create", "allow", "persist"})

Bit(b) == IF b THEN 1 ELSE 0

(* Channels made, channels due and the one that is open are paid for. *)
Paid(m) ==
    /\ IsFiniteSet(Due(m))
    /\ created[m] + Cardinality(Due(m)) + Bit(Open(m)) <= 1 + faults
ChannelInv == \A m \in Merchants : Paid(m)

(* Two sets that differ in w at most differ in size by w. *)
LEMMA SizesDiffer ==
  ASSUME NEW S, NEW T, NEW w, IsFiniteSet(S), T \ {w} = S \ {w}
  PROVE  /\ IsFiniteSet(T)
         /\ Cardinality(S) \in Nat /\ Cardinality(T) \in Nat
         /\ Cardinality(T) + Bit(w \in S) = Cardinality(S) + Bit(w \in T)
<1> DEFINE R == S \ {w}
<1>1. /\ IsFiniteSet(R) /\ Cardinality(S) \in Nat /\ Cardinality(R) \in Nat
      /\ Cardinality(R) = IF w \in S THEN Cardinality(S) - 1
                          ELSE Cardinality(S)
  BY FS_RemoveElement, FS_CardinalityType
<1>2. w \notin R
  OBVIOUS
<1>3. /\ IsFiniteSet(R \cup {w})
      /\ Cardinality(R \cup {w}) = Cardinality(R) + 1
  BY <1>1, <1>2, FS_AddElement
<1>4. T = IF w \in T THEN R \cup {w} ELSE R
  OBVIOUS
<1> HIDE DEF R
<1>5. CASE w \in T
  <2>1. T = R \cup {w}
    BY <1>4, <1>5
  <2> QED BY <1>1, <1>3, <1>5, <2>1 DEF Bit
<1>6. CASE w \notin T
  <2>1. T = R
    BY <1>4, <1>6
  <2> QED BY <1>1, <1>6, <2>1 DEF Bit
<1> QED BY <1>5, <1>6

(* At the start nothing is made or due, and one channel is open. *)
LEMMA ChannelInit == Init => ChannelInv
<1> SUFFICES ASSUME Init, NEW m \in Merchants PROVE Paid(m)
  BY DEF ChannelInv
<1>1. Due(m) = {}
  BY DEF Init, Idle, Due, IsDue
<1>2. IsFiniteSet(Due(m)) /\ Cardinality(Due(m)) = 0
  BY <1>1, FS_EmptySet
<1>3. created[m] = 0 /\ faults = 0
  BY DEF Init
<1> QED BY <1>2, <1>3 DEF Paid, Bit

(* Merchants that a step does not touch stay paid for. *)
LEMMA OthersPaid ==
  ASSUME TypeOK, TypeOK', NEW n \in Merchants, Paid(n),
         \A v \in Workers : IsDue(v, n)' <=> IsDue(v, n),
         Open(n)' => Open(n), created'[n] = created[n], faults' >= faults
  PROVE  Paid(n)'
<1>1. Due(n)' = Due(n)
  BY DEF Due
<1>2. Cardinality(Due(n)) \in Nat
  BY FS_CardinalityType DEF Paid
<1>3. created[n] \in Nat /\ faults \in Nat /\ faults' \in Nat
  BY DEF TypeOK, Channels
<1>4. IsFiniteSet(Due(n)')
  BY <1>1 DEF Paid
<1>5. created[n] + Cardinality(Due(n)) + Bit(Open(n)) <= 1 + faults
  BY DEF Paid
<1>6. created'[n] + Cardinality(Due(n)') + Bit(Open(n)') <= 1 + faults'
  BY <1>1, <1>2, <1>3, <1>5 DEF Bit
<1> QED BY <1>4, <1>6 DEF Paid

(* A step of goroutine w for merchant m, or of asynq with its task, is paid *)
(* for if its failures cover what it creates, makes due and leaves open.    *)
LEMMA StepPaid ==
  ASSUME TypeOK, TypeOK', ChannelInv, NEW m \in Merchants, NEW w \in Workers,
         \A v \in Workers \ {w} :
           worker'[v] = worker[v] /\ (Holds(v, m)' <=> Holds(v, m)),
         worker[w].m = m \/ worker[w].pc = "idle",
         worker'[w].m = m \/ worker'[w].pc = "idle",
         \A n \in Merchants \ {m} :
           /\ created'[n] = created[n] /\ space'[n] = space[n]
           /\ task'[n] = task[n],
         faults' >= faults,
         created'[m] + Bit(IsDue(w, m)') + Bit(Open(m)')
           <= created[m] + Bit(IsDue(w, m)) + Bit(Open(m)) + faults' - faults
  PROVE  ChannelInv'
<1>1. ASSUME NEW n \in Merchants, n # m PROVE Paid(n)'
  <2>1. Paid(n) /\ task'[n] = task[n] /\ space'[n] = space[n]
        /\ created'[n] = created[n]
    BY <1>1 DEF ChannelInv
  <2>2. ASSUME NEW v \in Workers PROVE IsDue(v, n)' <=> IsDue(v, n)
    BY <1>1, <2>1, <2>2 DEF IsDue, Holds
  <2>3. \A steps \in {{"markSpace"}, {"create", "allow", "persist"}} :
          Holding(n, steps)' <=> Holding(n, steps)
    BY <1>1, <2>1 DEF Holding
  <2>4. Open(n)' => Open(n)
    BY <2>1, <2>3 DEF Open, Recorded
  <2> QED BY <2>1, <2>2, <2>4, OthersPaid
<1>2. Paid(m)'
  <2>1. /\ Paid(m) /\ IsFiniteSet(Due(m))
        /\ created[m] + Cardinality(Due(m)) + Bit(Open(m)) <= 1 + faults
    BY DEF ChannelInv, Paid
  <2>2. ASSUME NEW v \in Workers, v # w PROVE IsDue(v, m)' <=> IsDue(v, m)
    BY <2>2 DEF IsDue
  <2>3. Due(m)' \ {w} = Due(m) \ {w}
    BY <2>2 DEF Due
  <2>4. /\ IsFiniteSet(Due(m)')
        /\ Cardinality(Due(m)) \in Nat /\ Cardinality(Due(m)') \in Nat
        /\ Cardinality(Due(m)') + Bit(w \in Due(m))
             = Cardinality(Due(m)) + Bit(w \in Due(m)')
    BY <2>1, <2>3, SizesDiffer
  <2>5. (w \in Due(m) <=> IsDue(w, m)) /\ (w \in Due(m)' <=> IsDue(w, m)')
    BY DEF Due
  <2>6. /\ created[m] \in Nat /\ created'[m] \in Nat /\ faults \in Nat
        /\ faults' \in Nat
    BY DEF TypeOK, Channels
  <2>7. created'[m] + Cardinality(Due(m)') + Bit(Open(m)') <= 1 + faults'
    BY <2>1, <2>4, <2>5, <2>6 DEF Bit
  <2> QED BY <2>4, <2>7 DEF Paid
<1> QED BY <1>1, <1>2 DEF ChannelInv

-----------------------------------------------------------------------------
(* The steps *)

(* A handler's step that leaves the tasks alone changes only its own place  *)
(* in the count: Open is decided by its step if it has the lease, and by    *)
(* the row otherwise.                                                       *)
LEMMA OwnStep ==
  ASSUME TypeOK, TypeOK', NEW w \in Workers, worker[w].pc # "idle",
         \A v \in Workers \ {w} : worker'[v] = worker[v],
         worker'[w].pc = "idle" \/ worker'[w].m = worker[w].m,
         UNCHANGED task, NEW m, m = worker[w].m
  PROVE  /\ Holds(w, m)' <=> Holds(w, m)
         /\ \A steps \in {{"markSpace"}, {"create", "allow", "persist"}} :
              /\ Holds(w, m) => (Holding(m, steps) <=> worker[w].pc \in steps)
              /\ Holds(w, m) => (Holding(m, steps)' <=> worker'[w].pc \in steps)
              /\ ~Holds(w, m) => (Holding(m, steps)' <=> Holding(m, steps))
<1>1. Holds(w, m)' <=> Holds(w, m)
  BY DEF Holds
<1>2. ASSUME NEW steps \in {{"markSpace"}, {"create", "allow", "persist"}}
      PROVE  /\ Holds(w, m) => (Holding(m, steps) <=> worker[w].pc \in steps)
             /\ Holds(w, m) => (Holding(m, steps)' <=> worker'[w].pc \in steps)
             /\ ~Holds(w, m) => (Holding(m, steps)' <=> Holding(m, steps))
  BY <1>2 DEF Holds, Holding
<1> QED BY <1>1, <1>2

(* What a step of the handler does to the count, by its kind. *)
LEMMA MovePaid ==
  ASSUME TypeOK, TypeOK', ChannelInv, NEW w \in Workers,
         worker[w].pc # "idle", NEW m \in Merchants, m = worker[w].m,
         \A v \in Workers \ {w} : worker'[v] = worker[v],
         worker'[w].pc = "idle" \/ worker'[w].m = m, UNCHANGED task,
         \A n \in Merchants \ {m} :
           created'[n] = created[n] /\ space'[n] = space[n],
         faults' \in {faults, faults + 1}, NEW p, p = worker[w].pc,
         NEW q, q = worker'[w].pc,
         \/ p = "acquire" /\ q \in {"load", "return"}
              /\ UNCHANGED <<space, created>>
         \/ p = "load" /\ q = "return" /\ UNCHANGED <<space, created>>
         \/ p = "load" /\ ~Recorded(m) /\ q \in {"create", "markSpace"}
              /\ UNCHANGED <<space, created>>
         \/ p = "create" /\ q = "allow" /\ created'[m] = created[m] + 1
              /\ UNCHANGED space
         \/ p = "create" /\ q \in {"return", "markSpace"} /\ UNCHANGED space
              /\ created'[m] \in {created[m], created[m] + 1}
              /\ (q = "return" => created'[m] = created[m])
              /\ faults' = faults + 1
         \/ p = "allow" /\ q = "persist" /\ UNCHANGED <<space, created>>
         \/ p \in {"allow", "persist"} /\ q \in {"return", "markSpace"}
              /\ UNCHANGED <<space, created>> /\ faults' = faults + 1
         \/ p = "persist" /\ q = "complete" /\ Recorded(m)'
              /\ UNCHANGED created
         \/ p \in {"complete", "archiveJob"} /\ q = "return"
              /\ UNCHANGED <<space, created>>
         \/ p = "markSpace" /\ q = "archiveJob" /\ UNCHANGED created
         \/ q = "idle" /\ UNCHANGED <<space, created>>
              /\ faults' = faults + 1
  PROVE  ChannelInv'
<1>1. /\ Holds(w, m)' <=> Holds(w, m)
      /\ \A steps \in {{"markSpace"}, {"create", "allow", "persist"}} :
           /\ Holds(w, m) => (Holding(m, steps) <=> p \in steps)
           /\ Holds(w, m) => (Holding(m, steps)' <=> q \in steps)
           /\ ~Holds(w, m) => (Holding(m, steps)' <=> Holding(m, steps))
  BY OwnStep
<1>2. Open(m)' <=> \/ Holding(m, {"markSpace"})'
                   \/ /\ ~Recorded(m)'
                      /\ ~Holding(m, {"create", "allow", "persist"})'
  BY DEF Open
<1>3. IsDue(w, m) <=> \/ p = "create"
                      \/ /\ p \in {"acquire", "load", "markSpace"}
                         /\ ~Holds(w, m)
  BY DEF IsDue
<1>4. IsDue(w, m)' <=> \/ q = "create"
                       \/ /\ q \in {"acquire", "load", "markSpace"}
                          /\ ~Holds(w, m)
  BY <1>1 DEF IsDue
<1>5. /\ created[m] \in Nat /\ created'[m] \in Nat /\ faults \in Nat
      /\ faults' \in Nat /\ faults' >= faults
  BY DEF TypeOK, Channels
<1>6. UNCHANGED space => (Recorded(m)' <=> Recorded(m))
  BY DEF Recorded
<1>7. \A v \in Workers \ {w} : Holds(v, m)' <=> Holds(v, m)
  BY DEF Holds
<1>8. created'[m] + Bit(IsDue(w, m)') + Bit(Open(m)')
        <= created[m] + Bit(IsDue(w, m)) + Bit(Open(m)) + faults' - faults
  <2>1. CASE Holds(w, m)
    <3>1. /\ Open(m) <=> \/ p = "markSpace"
                         \/ /\ ~Recorded(m)
                            /\ p \notin {"create", "allow", "persist"}
          /\ Open(m)' <=> \/ q = "markSpace"
                          \/ /\ ~Recorded(m)'
                             /\ q \notin {"create", "allow", "persist"}
      BY <1>1, <1>2, <2>1 DEF Open
    <3>2. (IsDue(w, m) <=> p = "create") /\ (IsDue(w, m)' <=> q = "create")
      BY <1>3, <1>4, <2>1
    <3> QED BY <1>5, <1>6, <3>1, <3>2 DEF Bit
  <2>2. CASE ~Holds(w, m)
    <3>1. (Recorded(m)' \/ ~Recorded(m)) => (Open(m)' => Open(m))
      BY <1>1, <1>2, <2>2 DEF Open
    <3>2. /\ IsDue(w, m) <=> p \in {"create", "acquire", "load", "markSpace"}
          /\ IsDue(w, m)' <=> q \in {"create", "acquire", "load", "markSpace"}
      BY <1>3, <1>4, <2>2
    <3> QED BY <1>5, <1>6, <3>1, <3>2 DEF Bit
  <2> QED BY <2>1, <2>2
<1> QED BY <1>5, <1>7, <1>8, StepPaid

(* The steps of provision_space and its crash, up to its return. *)
LEMMA HandlerPaid ==
  ASSUME TypeOK, TypeOK', BackedInv, ChannelInv, NEW w \in Workers,
         HandlerStep(w) \/ WorkerCrash(w), ~FinishTask(w)
  PROVE  ChannelInv'
<1>0. /\ worker[w].pc # "idle" /\ worker[w].m \in Merchants
      /\ UNCHANGED task
  BY DEF TypeOK, HandlerStep, AcquireMerchant, LoadSpace, CreateChannel,
         ApplyAgentAllow, PersistChannel, CompleteJob, MarkSpace, ArchiveJob,
         WorkerCrash
<1>1. /\ space \in [Merchants -> SpaceRec] /\ created \in [Merchants -> Channels]
      /\ faults \in Nat
  BY DEF TypeOK
<1>2. PICK m \in Merchants : m = worker[w].m
  BY <1>0
<1>3. CASE AcquireMerchant(w)
  <2>1. /\ worker[w].pc = "acquire" /\ UNCHANGED <<space, created>>
        /\ faults' \in {faults, faults + 1}
    BY <1>3 DEF AcquireMerchant, Fault
  <2>2. PICK p \in {"load", "return"} :
          Moved(w, p, worker[w].cat, worker[w].channel)
    BY <1>3, HandlerMoves
  <2> QED BY <1>0, <1>2, <2>1, <2>2, MovePaid DEF Moved
<1>4. CASE LoadSpace(w)
  <2>1. /\ worker[w].pc = "load" /\ UNCHANGED <<space, created>>
        /\ faults' \in {faults, faults + 1}
    BY <1>4 DEF LoadSpace, Fault
  <2>2. \/ worker'[w].pc = "return"
        \/ ~Recorded(m) /\ worker'[w].pc \in {"create", "markSpace"}
    BY <1>2, <1>4, HandlerMoves DEF Moved, Recorded
  <2>3. /\ worker'[w].m = m
        /\ \A v \in Workers \ {w} : worker'[v] = worker[v]
    BY <1>2, <1>4, HandlerMoves DEF Moved
  <2> QED BY <1>0, <1>2, <2>1, <2>2, <2>3, MovePaid
<1>5. CASE CreateChannel(w)
  <2>1. /\ worker[w].pc = "create" /\ UNCHANGED space
        /\ faults' \in {faults, faults + 1}
        /\ \A n \in Merchants \ {m} : created'[n] = created[n]
        /\ created'[m] \in {created[m], created[m] + 1}
    BY <1>0, <1>1, <1>2, <1>5 DEF CreateChannel, Fault
  <2>2. /\ worker'[w].m = m
        /\ \A v \in Workers \ {w} : worker'[v] = worker[v]
    BY <1>2, <1>5, HandlerMoves DEF Moved
  <2>3. \/ worker'[w].pc = "allow" /\ created'[m] = created[m] + 1
        \/ /\ worker'[w].pc = "return" /\ created'[m] = created[m]
           /\ faults' = faults + 1
        \/ worker'[w].pc = "markSpace" /\ faults' = faults + 1
    <3>1. worker \in [Workers -> WorkerRec] /\ worker[w] \in WorkerRec
      BY DEF TypeOK
    <3> QED BY <1>0, <1>1, <1>2, <1>5, <3>1
            DEF CreateChannel, Fault, Return, WorkerRec
  <2> QED BY <1>0, <1>2, <2>1, <2>2, <2>3, MovePaid
<1>6. CASE ApplyAgentAllow(w)
  <2>1. /\ worker[w].pc = "allow" /\ UNCHANGED <<space, created>>
        /\ faults' \in {faults, faults + 1}
    BY <1>6 DEF ApplyAgentAllow, Fault
  <2>2. /\ worker'[w].m = m
        /\ \A v \in Workers \ {w} : worker'[v] = worker[v]
    BY <1>2, <1>6, HandlerMoves DEF Moved
  <2>3. \/ worker'[w].pc = "persist"
        \/ worker'[w].pc \in {"return", "markSpace"} /\ faults' = faults + 1
    <3>1. worker \in [Workers -> WorkerRec] /\ worker[w] \in WorkerRec
      BY DEF TypeOK
    <3> QED BY <1>6, <3>1 DEF ApplyAgentAllow, Fault, Return, WorkerRec
  <2> QED BY <1>0, <1>2, <2>1, <2>2, <2>3, MovePaid
<1>7. CASE PersistChannel(w)
  <2>1. /\ worker[w].pc = "persist" /\ UNCHANGED created
        /\ faults' \in {faults, faults + 1}
        /\ \A n \in Merchants \ {m} : space'[n] = space[n]
    BY <1>1, <1>2, <1>7 DEF PersistChannel, Fault
  <2>2. /\ worker'[w].m = m
        /\ \A v \in Workers \ {w} : worker'[v] = worker[v]
    BY <1>2, <1>7, HandlerMoves DEF Moved
  <2>3. \/ /\ worker'[w].pc = "complete"
           /\ space'[m] = [acl |-> "applied", channel |-> worker[w].channel,
                           category |-> worker[w].cat]
        \/ /\ worker'[w].pc = "return" /\ UNCHANGED space
           /\ faults' = faults + 1
    <3>1. worker \in [Workers -> WorkerRec] /\ worker[w] \in WorkerRec
      BY DEF TypeOK
    <3> QED BY <1>0, <1>1, <1>2, <1>7, <3>1
            DEF PersistChannel, Fault, Return, WorkerRec
  <2>4. worker[w].channel # NoChannel
    BY <1>1, <1>2, <2>1 DEF BackedInv, NoChannel, Channels
  <2>5. worker'[w].pc = "complete" => Recorded(m)'
    BY <2>3, <2>4 DEF Recorded
  <2> QED BY <1>0, <1>2, <2>1, <2>2, <2>3, <2>5, MovePaid
<1>8. CASE CompleteJob(w) \/ ArchiveJob(w)
  <2>1. /\ worker[w].pc \in {"complete", "archiveJob"}
        /\ UNCHANGED <<space, created>> /\ faults' \in {faults, faults + 1}
    BY <1>8 DEF CompleteJob, ArchiveJob, TransitionJob, Fault
  <2>2. Moved(w, "return", worker[w].cat, worker[w].channel)
    BY <1>8, HandlerMoves
  <2> QED BY <1>0, <1>2, <2>1, <2>2, MovePaid DEF Moved
<1>9. CASE MarkSpace(w)
  <2>1. /\ worker[w].pc = "markSpace" /\ UNCHANGED created
        /\ faults' \in {faults, faults + 1}
        /\ \A n \in Merchants \ {m} : space'[n] = space[n]
    BY <1>1, <1>2, <1>9 DEF MarkSpace, Fault
  <2>2. Moved(w, "archiveJob", worker[w].cat, worker[w].channel)
    BY <1>9, HandlerMoves
  <2> QED BY <1>0, <1>2, <2>1, <2>2, MovePaid DEF Moved
<1>10. CASE WorkerCrash(w)
  <2>1. UNCHANGED <<space, created>> /\ faults' = faults + 1
    BY <1>10 DEF WorkerCrash, Fault
  <2>2. /\ worker'[w].pc = "idle"
        /\ \A v \in Workers \ {w} : worker'[v] = worker[v]
    BY <1>10, IdleMoves DEF WorkerCrash
  <2> QED BY <1>0, <1>2, <2>1, <2>2, MovePaid
<1> QED BY <1>3, <1>4, <1>5, <1>6, <1>7, <1>8, <1>9, <1>10 DEF HandlerStep
(* The end of a run gives its lease back, and with it what is open: the run *)
(* that had it has nothing due any more.                                    *)
LEMMA FinishPaid ==
  ASSUME TypeOK, TypeOK', ChannelInv, NEW w \in Workers, FinishTask(w)
  PROVE  ChannelInv'
<1>0. /\ worker[w].pc = "return" /\ worker[w].m \in Merchants
      /\ UNCHANGED <<space, created, faults>>
  BY DEF FinishTask, TypeOK
<1>1. PICK m \in Merchants : m = worker[w].m
  BY <1>0
<1>2. /\ worker'[w].pc = "idle"
      /\ \A v \in Workers \ {w} : worker'[v] = worker[v]
  BY IdleMoves DEF FinishTask
<1>3. task \in [Merchants -> TaskRec] /\ task[m] \in TaskRec
  BY DEF TypeOK
<1>4. /\ \A n \in Merchants \ {m} : task'[n] = task[n]
      /\ \/ task'[m] = task[m] /\ ~Holds(w, m)
         \/ Holds(w, m) /\ task'[m].state # "active"
  <2>1. CASE Holds(w, m)
    <3>1. task' = [task EXCEPT ![m] = Settled(task[m], worker[w].result)]
      BY <1>1, <1>3, <2>1 DEF FinishTask, Holds
    <3>2. Settled(task[m], worker[w].result).state # "active"
      BY <1>3 DEF Settled, Retried, TaskRec
    <3> QED BY <1>3, <2>1, <3>1, <3>2
  <2>2. CASE ~Holds(w, m)
    BY <1>1, <2>2 DEF FinishTask, Holds
  <2> QED BY <2>1, <2>2
<1>5. \A v \in Workers \ {w} : Holds(v, m)' <=> Holds(v, m)
  BY <1>4 DEF Holds
<1>6. ~IsDue(w, m) /\ ~IsDue(w, m)'
  BY <1>0, <1>2 DEF IsDue
<1>7. \A steps \in {{"markSpace"}, {"create", "allow", "persist"}} :
        Holding(m, steps)' <=> Holding(m, steps)
  <2>1. CASE Holds(w, m)
    BY <1>0, <1>4, <2>1 DEF Holds, Holding
  <2>2. CASE ~Holds(w, m)
    BY <1>2, <1>4, <2>2 DEF Holds, Holding
  <2> QED BY <2>1, <2>2
<1>8. Open(m)' <=> Open(m)
  BY <1>0, <1>7 DEF Open, Recorded
<1>9. /\ created[m] \in Nat /\ faults \in Nat /\ created'[m] = created[m]
      /\ faults' = faults
  BY <1>0 DEF TypeOK, Channels
<1>10. created'[m] + Bit(IsDue(w, m)') + Bit(Open(m)')
         <= created[m] + Bit(IsDue(w, m)) + Bit(Open(m)) + faults' - faults
  BY <1>6, <1>8, <1>9 DEF Bit
<1> QED BY <1>0, <1>1, <1>2, <1>4, <1>5, <1>9, <1>10, StepPaid

(* A run that starts has the lease: what is open stays open for it. *)
LEMMA StartPaid ==
  ASSUME TypeOK, TypeOK', ChannelInv, NEW w \in Workers, NEW m \in Merchants,
         StartTask(w, m)
  PROVE  ChannelInv'
<1>0. /\ worker[w].pc = "idle" /\ task[m].state = "pending"
      /\ UNCHANGED <<space, created>> /\ faults' \in {faults, faults + 1}
  BY DEF StartTask, TransitionJob, Fault
<1>1. /\ worker'[w].pc \in {"acquire", "return"} /\ worker'[w].m = m
      /\ \A v \in Workers \ {w} : worker'[v] = worker[v]
  BY StartMoves
<1>2. /\ task'[m].state = "active" /\ task'[m].owner = w
      /\ \A n \in Merchants \ {m} : task'[n] = task[n]
  <2>1. task \in [Merchants -> TaskRec] /\ task[m] \in TaskRec
    BY DEF TypeOK
  <2> QED BY <2>1 DEF StartTask, TaskRec
<1>3. Holds(w, m)' /\ \A v \in Workers \ {w} : Holds(v, m)' <=> Holds(v, m)
  BY <1>0, <1>2 DEF Holds
<1>4. ~IsDue(w, m) /\ ~IsDue(w, m)'
  BY <1>0, <1>1, <1>3 DEF IsDue
<1>5. \A steps \in {{"markSpace"}, {"create", "allow", "persist"}} :
        ~Holding(m, steps)' /\ ~Holding(m, steps)
  BY <1>0, <1>1, <1>2 DEF Holding
<1>6. Open(m)' <=> Open(m)
  BY <1>0, <1>5 DEF Open, Recorded
<1>7. /\ created[m] \in Nat /\ faults \in Nat /\ created'[m] = created[m]
      /\ faults' \in Nat /\ faults' >= faults
  BY <1>0 DEF TypeOK, Channels
<1>8. created'[m] + Bit(IsDue(w, m)') + Bit(Open(m)')
        <= created[m] + Bit(IsDue(w, m)) + Bit(Open(m)) + faults' - faults
  BY <1>4, <1>6, <1>7 DEF Bit
<1> QED BY <1>0, <1>1, <1>2, <1>3, <1>7, <1>8, StepPaid

(* A lease that is lost under a running handler costs a failure: it pays    *)
(* for the run that is now on its own account, or for the next one.         *)
LEMMA LeasePaid ==
  ASSUME TypeOK, TypeOK', ChannelInv, NEW m \in Merchants, LeaseExpires(m)
  PROVE  ChannelInv'
<1>0. /\ task[m].state = "active" /\ UNCHANGED <<worker, space, created>>
      /\ \/ ~Runs(task[m].owner, m) /\ faults' = faults
         \/ faults' = faults + 1
  BY DEF LeaseExpires, runVars, Fault
<1>1. /\ task'[m].state # "active"
      /\ \A n \in Merchants \ {m} : task'[n] = task[n]
  <2>1. task \in [Merchants -> TaskRec] /\ task[m] \in TaskRec
    BY DEF TypeOK
  <2>2. Retried(task[m]).state # "active"
    BY <2>1 DEF Retried, TaskRec
  <2>3. task' = [task EXCEPT ![m] = Retried(task[m])]
    BY DEF LeaseExpires
  <2> QED BY <2>1, <2>2, <2>3
<1>2. \A steps \in {{"markSpace"}, {"create", "allow", "persist"}} :
        ~Holding(m, steps)'
  BY <1>1 DEF Holding
<1>3. /\ created[m] \in Nat /\ faults \in Nat /\ created'[m] = created[m]
      /\ faults' \in Nat /\ faults' >= faults
  BY <1>0 DEF TypeOK, Channels
<1>4. Open(m)' <=> ~Recorded(m)
  BY <1>0, <1>2 DEF Open, Recorded
<1>5. CASE Runs(task[m].owner, m) /\ task[m].owner \in Workers
  <2>1. PICK w \in Workers : w = task[m].owner
    BY <1>5
  <2>2. /\ worker[w].m = m /\ Holds(w, m) /\ ~Holds(w, m)'
        /\ faults' = faults + 1
    BY <1>0, <1>1, <1>5, <2>1 DEF Runs, Holds
  <2>3. \A v \in Workers \ {w} : Holds(v, m)' <=> Holds(v, m)
    BY <1>1, <2>1 DEF Holds
  <2>4. IsDue(w, m) => IsDue(w, m)'
    BY <1>0, <2>2 DEF IsDue
  <2>5. Open(m)' /\ ~Open(m) => worker[w].pc \in {"create", "allow", "persist"}
    BY <1>4, <2>1, <2>2 DEF Open, Holding
  <2>6. worker[w].pc \in {"create", "allow", "persist"} =>
          (IsDue(w, m)' <=> IsDue(w, m))
    BY <1>0, <2>2 DEF IsDue
  <2>7. created'[m] + Bit(IsDue(w, m)') + Bit(Open(m)')
          <= created[m] + Bit(IsDue(w, m)) + Bit(Open(m)) + faults' - faults
    BY <1>3, <2>2, <2>4, <2>5, <2>6 DEF Bit
  <2> QED BY <1>0, <1>1, <1>3, <2>2, <2>3, <2>7, StepPaid
<1>6. CASE ~(Runs(task[m].owner, m) /\ task[m].owner \in Workers)
  <2>1. ASSUME NEW n \in Merchants PROVE Paid(n)'
    <3>1. ASSUME NEW v \in Workers PROVE IsDue(v, n)' <=> IsDue(v, n)
      BY <1>0, <1>1, <1>6, <2>1, <3>1 DEF IsDue, Holds, Runs
    <3>2. \A steps \in {{"markSpace"}, {"create", "allow", "persist"}} :
            Holding(n, steps)' <=> Holding(n, steps)
      BY <1>0, <1>1, <1>6, <2>1 DEF Holding, Runs
    <3>3. Open(n)' => Open(n)
      BY <1>0, <3>2 DEF Open, Recorded
    <3> QED BY <1>0, <1>3, <2>1, <3>1, <3>3, OthersPaid DEF ChannelInv
  <2> QED BY <2>1 DEF ChannelInv
<1> QED BY <1>5, <1>6

(* Requests, relays and expiring locks create nothing and take no lease. *)
LEMMA RestPaid ==
  ASSUME TypeOK, TypeOK', ChannelInv, UNCHANGED <<worker, created>>,
         faults' \in {faults, faults + 1},
         \A n \in Merchants :
           /\ task'[n] = task[n] \/ (task[n].state # "active"
                                      /\ task'[n].state # "active")
           /\ space'[n] = space[n] \/ (~Recorded(n) /\ ~Recorded(n)')
  PROVE  ChannelInv'
<1>1. ASSUME NEW n \in Merchants PROVE Paid(n)'
  <2>1. ASSUME NEW v \in Workers PROVE IsDue(v, n)' <=> IsDue(v, n)
    BY <1>1, <2>1 DEF IsDue, Holds
  <2>2. \A steps \in {{"markSpace"}, {"create", "allow", "persist"}} :
          Holding(n, steps)' <=> Holding(n, steps)
    BY <1>1 DEF Holding
  <2>3. Open(n)' => Open(n)
    BY <1>1, <2>2 DEF Open, Recorded
  <2>4. faults' >= faults
    BY DEF TypeOK
  <2> QED BY <1>1, <2>1, <2>3, <2>4, OthersPaid DEF ChannelInv
<1> QED BY <1>1 DEF ChannelInv

(* ChannelInv is inductive. *)
LEMMA ChannelNext ==
  TypeOK /\ TypeOK' /\ BackedInv /\ ChannelInv /\ [Next]_vars => ChannelInv'
<1> SUFFICES ASSUME TypeOK, TypeOK', BackedInv, ChannelInv, [Next]_vars
             PROVE  ChannelInv'
  OBVIOUS
<1>1. ASSUME NEW m \in Merchants, NEW c \in MaybeCategory,
             CreateSpaceWithOutbox(m, c)
      PROVE  ChannelInv'
  <2>1. UNCHANGED <<worker, created, faults, task>>
    BY <1>1 DEF CreateSpaceWithOutbox, runVars
  <2>2. space \in [Merchants -> SpaceRec] /\ space[m] \in SpaceRec
    BY DEF TypeOK
  <2>3. /\ space[m].acl = "absent" /\ space'[m].acl = "pending"
        /\ \A n \in Merchants \ {m} : space'[n] = space[n]
    BY <1>1, <2>2 DEF CreateSpaceWithOutbox, SpaceRec
  <2>4. ~Recorded(m) /\ ~Recorded(m)'
    BY <2>3 DEF Recorded
  <2> QED BY <2>1, <2>3, <2>4, RestPaid
<1>2. ASSUME NEW m \in Merchants,
             \/ UpdateOutboxPayload(m) \/ CreateJob(m) \/ APICrash(m)
             \/ LockExpires(m)
      PROVE  ChannelInv'
  <2>1. /\ UNCHANGED <<worker, created, task, space>>
        /\ faults' \in {faults, faults + 1}
    BY <1>2 DEF UpdateOutboxPayload, CreateJob, APICrash, LockExpires, runVars,
                Fault
  <2> QED BY <2>1, RestPaid
<1>3. ASSUME NEW r \in Relays, NEW row \in relay[r].rows, EnqueueRow(r, row)
      PROVE  ChannelInv'
  <2>1. /\ UNCHANGED <<worker, created, space>>
        /\ faults' \in {faults, faults + 1}
    BY <1>3 DEF EnqueueRow, runVars, Fault
  <2>2. ASSUME NEW n \in Merchants
        PROVE  task'[n] = task[n] \/ (task[n].state # "active"
                                      /\ task'[n].state # "active")
    BY <1>3, <2>2 DEF EnqueueRow, TaskIDInUse, TypeOK
  <2> QED BY <2>1, <2>2, RestPaid
<1>4. ASSUME NEW r \in Relays, \/ ListPendingOutbox(r)
                               \/ StampOutboxEnqueued(r) \/ RelayCrash(r)
      PROVE  ChannelInv'
  <2>1. /\ UNCHANGED <<worker, created, task, space>>
        /\ faults' \in {faults, faults + 1}
    BY <1>4 DEF ListPendingOutbox, StampOutboxEnqueued, RelayCrash, runVars,
                Fault
  <2> QED BY <2>1, RestPaid
<1>5. CASE UNCHANGED vars
  <2>1. UNCHANGED <<worker, created, task, space, faults>>
    BY <1>5 DEF vars
  <2> QED BY <2>1, RestPaid
<1>6. ASSUME NEW w \in Workers, HandlerStep(w) \/ WorkerCrash(w)
      PROVE  ChannelInv'
  BY <1>6, HandlerPaid, FinishPaid
<1> QED BY <1>1, <1>2, <1>3, <1>4, <1>5, <1>6, LeasePaid, StartPaid
        DEF Next, RelayStep

(* Duplicate enqueues, redeliveries, lock contention and any number of      *)
(* goroutines alone never make provisioning create a second channel: with   *)
(* or without the lock, each one beyond the first is preceded by a failure  *)
(* of its own.                                                              *)
THEOREM ExtraChannelsPaid == Spec => []ExtraChannelsNeedFaults
<1>1. TypeOK /\ ChannelInv => ExtraChannelsNeedFaults
  <2> SUFFICES ASSUME TypeOK, ChannelInv, NEW m \in Merchants
               PROVE  created[m] <= 1 + faults
    BY DEF ExtraChannelsNeedFaults
  <2>1. /\ IsFiniteSet(Due(m))
        /\ created[m] + Cardinality(Due(m)) + Bit(Open(m)) <= 1 + faults
    BY DEF ChannelInv, Paid
  <2>2. Cardinality(Due(m)) \in Nat /\ created[m] \in Nat /\ faults \in Nat
    BY <2>1, FS_CardinalityType DEF TypeOK, Channels
  <2> QED BY <2>1, <2>2 DEF Bit
<1>2. Spec => []BackedInv
  BY BackedInit, BackedNext, TypeCorrect, PTL DEF Spec
<1> QED BY <1>1, <1>2, ChannelInit, ChannelNext, TypeCorrect, PTL DEF Spec
=============================================================================
