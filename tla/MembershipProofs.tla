-------------------------- MODULE MembershipProofs --------------------------
(***************************************************************************)
(* Proofs about Membership, for any users, accounts and goroutines and any *)
(* bounds.                                                                 *)
(***************************************************************************)
EXTENDS Membership, TLAPS

USE NoneAssumption, LinkAssumption, SwitchesAssumption, BoundsAssumption
USE DEF CreateSpaceMember, SetSpaceMemberOverwriteApplied, RevokeSpaceMember,
        SetCollaboratorOverwrite, DeleteCollaboratorOverwrite,
        AddGuildMember, RemoveGuildMember

-----------------------------------------------------------------------------
(* Effects: what each step does to the local state of its goroutine *)

Typed == worker \in [Workers -> WorkerRec]

(* The other goroutines are as before. *)
Others(w) == \A v \in Workers \ {w} : worker'[v] = worker[v]

SameTask(w) ==
    /\ worker'[w].kind = worker[w].kind /\ worker'[w].user = worker[w].user
    /\ worker'[w].id = worker[w].id

SameSweep(w) ==
    /\ worker'[w].members = worker[w].members
    /\ worker'[w].todo = worker[w].todo
    /\ worker'[w].desired = worker[w].desired
    /\ worker'[w].prune = worker[w].prune
    /\ worker'[w].reapply = worker[w].reapply

(* The run goes on to step p and remembers nothing new. *)
Moved(w, p) ==
    /\ worker'[w].pc = p /\ SameTask(w) /\ SameSweep(w)
    /\ Typed' /\ Others(w)

(* The run is over, or its process dead. *)
Ended(w) == worker'[w] = Idle /\ Typed' /\ Others(w)

(* A run begins. *)
Started(w, kind, u) ==
    /\ worker'[w].pc = "acquire" /\ worker'[w].kind = kind
    /\ worker'[w].user = u
    /\ worker'[w].prune = {} /\ worker'[w].reapply = {}
    /\ worker'[w].todo = {} /\ worker'[w].members = {}
    /\ \A d \in DiscordIds : worker'[w].desired[d] = None
    /\ Typed' /\ Others(w)

(* The run of a task has read its user. *)
Loaded(w) ==
    /\ worker'[w].pc = "member" /\ worker'[w].kind = worker[w].kind
    /\ worker'[w].user = worker[w].user
    /\ worker'[w].id = discordOf[worker[w].user]
    /\ SameSweep(w) /\ Typed' /\ Others(w)

(* A sweep has listed the rows. *)
Listed(w) ==
    /\ worker'[w].pc = "resolve" /\ SameTask(w)
    /\ worker'[w].members = Active /\ worker'[w].todo = Active
    /\ worker'[w].desired = worker[w].desired
    /\ worker'[w].prune = worker[w].prune
    /\ worker'[w].reapply = worker[w].reapply
    /\ Typed' /\ Others(w)

(* A sweep has read the user of one of the rows. *)
Resolved(w, u) ==
    /\ worker'[w].pc = "resolve" /\ SameTask(w)
    /\ worker'[w].members = worker[w].members
    /\ worker'[w].todo = worker[w].todo \ {u}
    /\ worker'[w].desired =
         IF discordOf[u] = None THEN worker[w].desired
         ELSE [worker[w].desired EXCEPT ![discordOf[u]] = u]
    /\ worker'[w].prune = worker[w].prune
    /\ worker'[w].reapply = worker[w].reapply
    /\ Typed' /\ Others(w)

(* A sweep has compared the two sets. *)
Compared(w) ==
    /\ worker'[w].pc = "repair" /\ SameTask(w)
    /\ worker'[w].members = worker[w].members
    /\ worker'[w].todo = worker[w].todo
    /\ worker'[w].desired = worker[w].desired
    /\ worker'[w].prune = overwrites \ DesiredIds(w)
    /\ worker'[w].reapply = DesiredIds(w) \ overwrites
    /\ Typed' /\ Others(w)

(* A sweep has dealt with an overwrite to revoke, *)
Pruned(w, d) ==
    /\ worker'[w].pc = "repair" /\ SameTask(w)
    /\ worker'[w].members = worker[w].members
    /\ worker'[w].todo = worker[w].todo
    /\ worker'[w].desired = worker[w].desired
    /\ worker'[w].prune = worker[w].prune \ {d}
    /\ worker'[w].reapply = worker[w].reapply
    /\ Typed' /\ Others(w)

(* or with one to re-apply, and goes on to step p with user u. *)
Reapplied(w, d, p, u) ==
    /\ worker'[w].pc = p
    /\ worker'[w].kind = worker[w].kind /\ worker'[w].user = u
    /\ worker'[w].members = worker[w].members
    /\ worker'[w].todo = worker[w].todo
    /\ worker'[w].desired = worker[w].desired
    /\ worker'[w].prune = worker[w].prune
    /\ worker'[w].reapply = worker[w].reapply \ {d}
    /\ Typed' /\ Others(w)

(* A sweep has marked a row and goes on. *)
Remarked(w) ==
    /\ worker'[w].pc = "repair"
    /\ worker'[w].kind = worker[w].kind /\ worker'[w].user = None
    /\ SameSweep(w) /\ Typed' /\ Others(w)

-----------------------------------------------------------------------------

(* The state of a goroutine that does not run is one of its states. *)
LEMMA IdleType ==
  /\ Idle \in WorkerRec /\ Idle.pc = "idle" /\ Idle.kind = "none"
  /\ Idle.user = None /\ Idle.members = {} /\ Idle.todo = {}
  /\ Idle.prune = {} /\ Idle.reapply = {}
  /\ \A d \in DiscordIds : Idle.desired[d] = None
  BY DEF Idle, WorkerRec, Steps, MaybeUser, MaybeId

(* Writing one goroutine's state leaves the others alone. *)
LEMMA Update ==
  ASSUME Typed, NEW w \in Workers, NEW t \in WorkerRec,
         worker' = [worker EXCEPT ![w] = t]
  PROVE  worker'[w] = t /\ Typed' /\ Others(w)
  BY DEF Typed, Others

LEMMA EndEffect ==
  ASSUME Typed, NEW w \in Workers, worker' = [worker EXCEPT ![w] = Idle]
  PROVE  Ended(w)
  BY IdleType, Update DEF Ended

LEMMA GotoEffect ==
  ASSUME Typed, NEW w \in Workers, NEW p \in Steps,
         worker' = [worker EXCEPT ![w].pc = p]
  PROVE  Moved(w, p)
<1> DEFINE t == [worker[w] EXCEPT !.pc = p]
<1>1. worker[w] \in WorkerRec
  BY DEF Typed
<1>2. /\ t \in WorkerRec /\ t.pc = p
      /\ t.kind = worker[w].kind /\ t.user = worker[w].user
      /\ t.id = worker[w].id /\ t.members = worker[w].members
      /\ t.todo = worker[w].todo /\ t.desired = worker[w].desired
      /\ t.prune = worker[w].prune /\ t.reapply = worker[w].reapply
  BY <1>1 DEF WorkerRec
<1>3. worker' = [worker EXCEPT ![w] = t]
  BY DEF Typed
<1>4. worker'[w] = t /\ Typed' /\ Others(w)
  BY <1>2, <1>3, Update
<1> QED BY <1>2, <1>4 DEF Moved, SameTask, SameSweep

LEMMA StartEffect ==
  ASSUME Typed, NEW w \in Workers, NEW k \in TaskKinds \cup {"sweep"},
         NEW u \in MaybeUser,
         worker' = [worker EXCEPT ![w] = [Idle EXCEPT
                      !.pc = "acquire", !.kind = k, !.user = u]]
  PROVE  Started(w, k, u)
<1> DEFINE t == [Idle EXCEPT !.pc = "acquire", !.kind = k, !.user = u]
<1>1. "acquire" \in Steps
  BY DEF Steps
<1>2. /\ t \in WorkerRec /\ t.pc = "acquire" /\ t.kind = k /\ t.user = u
      /\ t.members = Idle.members /\ t.todo = Idle.todo
      /\ t.desired = Idle.desired
      /\ t.prune = Idle.prune /\ t.reapply = Idle.reapply
  BY <1>1, IdleType DEF WorkerRec
<1>3. worker'[w] = t /\ Typed' /\ Others(w)
  BY <1>2, Update
<1> HIDE DEF t
<1> QED BY <1>2, <1>3, IdleType DEF Started

LEMMA StartTaskEffect ==
  ASSUME Typed, NEW w \in Workers, NEW t \in Task, StartTask(w, t)
  PROVE  Started(w, t.kind, t.user)
<1>1. t.kind \in TaskKinds \cup {"sweep"} /\ t.user \in MaybeUser
  BY DEF Task, MaybeUser
<1>2. worker' = [worker EXCEPT ![w] = [Idle EXCEPT
                   !.pc = "acquire", !.kind = t.kind, !.user = t.user]]
  BY DEF StartTask
<1> QED BY <1>1, <1>2, StartEffect

LEMMA StartSweepEffect ==
  ASSUME Typed, NEW w \in Workers, StartSweep(w)
  PROVE  Started(w, "sweep", None)
<1> DEFINE t == [Idle EXCEPT !.pc = "acquire", !.kind = "sweep"]
<1>1. "acquire" \in Steps
  BY DEF Steps
<1>2. /\ t \in WorkerRec /\ t.pc = "acquire" /\ t.kind = "sweep"
      /\ t.user = Idle.user
      /\ t.members = Idle.members /\ t.todo = Idle.todo
      /\ t.desired = Idle.desired
      /\ t.prune = Idle.prune /\ t.reapply = Idle.reapply
  BY <1>1, IdleType DEF WorkerRec
<1>3. worker'[w] = t /\ Typed' /\ Others(w)
  BY <1>2, Update DEF StartSweep
<1> QED BY <1>2, <1>3, IdleType DEF Started

LEMMA LoadEffect ==
  ASSUME Typed, NEW w \in Workers, NEW i \in MaybeId,
         NEW c \in {"unknown", "known"},
         worker' = [worker EXCEPT ![w].pc = "member", ![w].id = i,
                                  ![w].channel = c],
         i = discordOf[worker[w].user]
  PROVE  Loaded(w)
<1> DEFINE t == [worker[w] EXCEPT !.pc = "member", !.id = i, !.channel = c]
<1>1. worker[w] \in WorkerRec /\ "member" \in Steps
  BY DEF Typed, Steps
<1>2. /\ t \in WorkerRec /\ t.pc = "member"
      /\ t.kind = worker[w].kind /\ t.user = worker[w].user
      /\ t.id = i /\ t.members = worker[w].members
      /\ t.todo = worker[w].todo /\ t.desired = worker[w].desired
      /\ t.prune = worker[w].prune /\ t.reapply = worker[w].reapply
  BY <1>1 DEF WorkerRec
<1>3. worker' = [worker EXCEPT ![w] = t]
  BY DEF Typed
<1>4. worker'[w] = t /\ Typed' /\ Others(w)
  BY <1>2, <1>3, Update
<1> QED BY <1>2, <1>4 DEF Loaded, SameSweep

LEMMA ListEffect ==
  ASSUME Typed, NEW w \in Workers,
         worker' = [worker EXCEPT ![w].pc = "resolve",
                                  ![w].members = Active, ![w].todo = Active]
  PROVE  Listed(w)
<1> DEFINE t == [worker[w] EXCEPT !.pc = "resolve", !.members = Active,
                                  !.todo = Active]
<1>1. /\ worker[w] \in WorkerRec /\ "resolve" \in Steps
      /\ Active \in SUBSET Users
  BY DEF Typed, Steps, Active
<1> HIDE DEF Active
<1>2. /\ t \in WorkerRec /\ t.pc = "resolve"
      /\ t.kind = worker[w].kind /\ t.user = worker[w].user
      /\ t.id = worker[w].id /\ t.members = Active
      /\ t.todo = Active /\ t.desired = worker[w].desired
      /\ t.prune = worker[w].prune /\ t.reapply = worker[w].reapply
  BY <1>1 DEF WorkerRec
<1>3. worker' = [worker EXCEPT ![w] = t]
  BY DEF Typed
<1>4. worker'[w] = t /\ Typed' /\ Others(w)
  BY <1>2, <1>3, Update
<1> QED BY <1>2, <1>4 DEF Listed, SameTask

LEMMA ResolveEffect ==
  ASSUME Typed, NEW w \in Workers, NEW u \in Users, worker[w].pc = "resolve",
         discordOf \in [Users -> MaybeId],
         worker' = [worker EXCEPT
                ![w].todo = @ \ {u},
                ![w].desired = IF discordOf[u] = None THEN @
                               ELSE [@ EXCEPT ![discordOf[u]] = u]]
  PROVE  Resolved(w, u)
<1> DEFINE td == worker[w].todo \ {u}
           ds == IF discordOf[u] = None THEN worker[w].desired
                 ELSE [worker[w].desired EXCEPT ![discordOf[u]] = u]
           t == [worker[w] EXCEPT !.todo = td, !.desired = ds]
<1>1. /\ worker[w] \in WorkerRec /\ td \in SUBSET Users
      /\ worker[w].desired \in [DiscordIds -> MaybeUser]
  BY DEF Typed, WorkerRec
<1>2. ds \in [DiscordIds -> MaybeUser]
  BY <1>1 DEF MaybeId, MaybeUser
<1>3. worker' = [worker EXCEPT ![w] = t]
  BY DEF Typed
<1> HIDE DEF td, ds
<1>4. /\ t \in WorkerRec /\ t.pc = worker[w].pc
      /\ t.kind = worker[w].kind /\ t.user = worker[w].user
      /\ t.id = worker[w].id /\ t.members = worker[w].members
      /\ t.todo = td /\ t.desired = ds
      /\ t.prune = worker[w].prune /\ t.reapply = worker[w].reapply
  BY <1>1, <1>2 DEF WorkerRec
<1>5. worker'[w] = t /\ Typed' /\ Others(w)
  BY <1>3, <1>4, Update
<1> QED BY <1>4, <1>5 DEF Resolved, SameTask, td, ds

LEMMA CompareEffect ==
  ASSUME Typed, NEW w \in Workers, overwrites \in SUBSET DiscordIds,
         worker' = [worker EXCEPT
                          ![w].pc = "repair",
                          ![w].prune = overwrites \ DesiredIds(w),
                          ![w].reapply = DesiredIds(w) \ overwrites]
  PROVE  Compared(w)
<1> DEFINE pr == overwrites \ DesiredIds(w)
           re == DesiredIds(w) \ overwrites
           t == [worker[w] EXCEPT !.pc = "repair", !.prune = pr,
                                  !.reapply = re]
<1>1. /\ worker[w] \in WorkerRec /\ "repair" \in Steps
      /\ pr \in SUBSET DiscordIds /\ re \in SUBSET DiscordIds
  BY DEF Typed, Steps, DesiredIds
<1>2. worker' = [worker EXCEPT ![w] = t]
  BY DEF Typed
<1> HIDE DEF pr, re
<1>3. /\ t \in WorkerRec /\ t.pc = "repair"
      /\ t.kind = worker[w].kind /\ t.user = worker[w].user
      /\ t.id = worker[w].id /\ t.members = worker[w].members
      /\ t.todo = worker[w].todo /\ t.desired = worker[w].desired
      /\ t.prune = pr /\ t.reapply = re
  BY <1>1 DEF WorkerRec
<1>4. worker'[w] = t /\ Typed' /\ Others(w)
  BY <1>2, <1>3, Update
<1> QED BY <1>3, <1>4 DEF Compared, SameTask, pr, re

LEMMA PruneEffect ==
  ASSUME Typed, NEW w \in Workers, NEW d, worker[w].pc = "repair",
         worker' = [worker EXCEPT ![w].prune = @ \ {d}]
  PROVE  Pruned(w, d)
<1> DEFINE pr == worker[w].prune \ {d}
           t == [worker[w] EXCEPT !.prune = pr]
<1>1. worker[w] \in WorkerRec /\ pr \in SUBSET DiscordIds
  BY DEF Typed, WorkerRec
<1>2. worker' = [worker EXCEPT ![w] = t]
  BY DEF Typed
<1> HIDE DEF pr
<1>3. /\ t \in WorkerRec /\ t.pc = worker[w].pc
      /\ t.kind = worker[w].kind /\ t.user = worker[w].user
      /\ t.id = worker[w].id /\ t.members = worker[w].members
      /\ t.todo = worker[w].todo /\ t.desired = worker[w].desired
      /\ t.prune = pr /\ t.reapply = worker[w].reapply
  BY <1>1 DEF WorkerRec
<1>4. worker'[w] = t /\ Typed' /\ Others(w)
  BY <1>2, <1>3, Update
<1> QED BY <1>3, <1>4 DEF Pruned, SameTask, pr

LEMMA ReapplyEffect ==
  ASSUME Typed, NEW w \in Workers, NEW d \in DiscordIds,
         worker' = [worker EXCEPT ![w].reapply = @ \ {d},
                                  ![w].pc = "remark",
                                  ![w].user = worker[w].desired[d]]
  PROVE  Reapplied(w, d, "remark", worker[w].desired[d])
<1> DEFINE re == worker[w].reapply \ {d}
           u == worker[w].desired[d]
           t == [worker[w] EXCEPT !.reapply = re, !.pc = "remark", !.user = u]
<1>1. /\ worker[w] \in WorkerRec /\ re \in SUBSET DiscordIds
      /\ "remark" \in Steps /\ u \in MaybeUser
  BY DEF Typed, WorkerRec, Steps
<1>2. worker' = [worker EXCEPT ![w] = t]
  BY DEF Typed
<1> HIDE DEF re, u
<1>3. /\ t \in WorkerRec /\ t.pc = "remark"
      /\ t.kind = worker[w].kind /\ t.user = u
      /\ t.members = worker[w].members
      /\ t.todo = worker[w].todo /\ t.desired = worker[w].desired
      /\ t.prune = worker[w].prune /\ t.reapply = re
  BY <1>1 DEF WorkerRec
<1>4. worker'[w] = t /\ Typed' /\ Others(w)
  BY <1>2, <1>3, Update
<1> QED BY <1>3, <1>4 DEF Reapplied, re, u

LEMMA SkipEffect ==
  ASSUME Typed, NEW w \in Workers, NEW d, worker[w].pc = "repair",
         worker' = [worker EXCEPT ![w].reapply = @ \ {d}]
  PROVE  Reapplied(w, d, "repair", worker[w].user)
<1> DEFINE re == worker[w].reapply \ {d}
           t == [worker[w] EXCEPT !.reapply = re]
<1>1. worker[w] \in WorkerRec /\ re \in SUBSET DiscordIds
  BY DEF Typed, WorkerRec
<1>2. worker' = [worker EXCEPT ![w] = t]
  BY DEF Typed
<1> HIDE DEF re
<1>3. /\ t \in WorkerRec /\ t.pc = worker[w].pc
      /\ t.kind = worker[w].kind /\ t.user = worker[w].user
      /\ t.members = worker[w].members
      /\ t.todo = worker[w].todo /\ t.desired = worker[w].desired
      /\ t.prune = worker[w].prune /\ t.reapply = re
  BY <1>1 DEF WorkerRec
<1>4. worker'[w] = t /\ Typed' /\ Others(w)
  BY <1>2, <1>3, Update
<1> QED BY <1>3, <1>4 DEF Reapplied, re

LEMMA RemarkEffect ==
  ASSUME Typed, NEW w \in Workers,
         worker' = [worker EXCEPT ![w].pc = "repair", ![w].user = None]
  PROVE  Remarked(w)
<1> DEFINE t == [worker[w] EXCEPT !.pc = "repair", !.user = None]
<1>1. worker[w] \in WorkerRec /\ "repair" \in Steps /\ None \in MaybeUser
  BY DEF Typed, Steps, MaybeUser
<1>2. worker' = [worker EXCEPT ![w] = t]
  BY DEF Typed
<1>3. /\ t \in WorkerRec /\ t.pc = "repair"
      /\ t.kind = worker[w].kind /\ t.user = None
      /\ t.members = worker[w].members
      /\ t.todo = worker[w].todo /\ t.desired = worker[w].desired
      /\ t.prune = worker[w].prune /\ t.reapply = worker[w].reapply
  BY <1>1 DEF WorkerRec
<1>4. worker'[w] = t /\ Typed' /\ Others(w)
  BY <1>2, <1>3, Update
<1> QED BY <1>3, <1>4 DEF Remarked, SameSweep

(* The steps of a run, as effects. *)
LEMMA AcquireEffects ==
  ASSUME Typed, NEW w \in Workers, AcquireSpace(w)
  PROVE  \/ Ended(w)
         \/ Moved(w, IF worker[w].kind = "sweep" THEN "list" ELSE "user")
<1> DEFINE p == IF worker[w].kind = "sweep" THEN "list" ELSE "user"
<1>1. p \in Steps
  BY DEF Steps
<1>2. \/ worker' = [worker EXCEPT ![w].pc = p]
      \/ worker' = [worker EXCEPT ![w] = Idle]
  BY DEF AcquireSpace
<1> HIDE DEF p
<1>3. Ended(w) \/ Moved(w, p)
  BY <1>1, <1>2, GotoEffect, EndEffect
<1> QED BY <1>3 DEF p

LEMMA InviteEffects ==
  ASSUME Typed, NEW w \in Workers, worker[w].user \in Users,
         discordOf \in [Users -> MaybeId]
  PROVE  /\ InviteLoadUser(w) => Loaded(w) \/ Ended(w)
         /\ InviteLoadMember(w) =>
              Ended(w) \/ (worker[w].id # None /\ Moved(w, "join"))
         /\ JoinGuild(w) => Moved(w, "grant")
         /\ Grant(w) => Moved(w, "mark") \/ Ended(w)
         /\ MarkApplied(w) => Ended(w)
<1>1. discordOf[worker[w].user] \in MaybeId
  OBVIOUS
<1>2. {"join", "grant", "mark"} \subseteq Steps
  BY DEF Steps
<1>3. ASSUME InviteLoadUser(w) PROVE Loaded(w) \/ Ended(w)
  <2>1. \/ worker' = [worker EXCEPT ![w].pc = "member",
                                    ![w].id = discordOf[worker[w].user],
                                    ![w].channel = "known"]
        \/ worker' = [worker EXCEPT ![w] = Idle]
    BY <1>3 DEF InviteLoadUser, ReturnError, End
  <2> QED BY <1>1, <2>1, LoadEffect, EndEffect
<1>4. ASSUME InviteLoadMember(w)
      PROVE  Ended(w) \/ (worker[w].id # None /\ Moved(w, "join"))
  <2>1. \/ worker' = [worker EXCEPT ![w] = Idle]
        \/ worker[w].id # None /\ worker' = [worker EXCEPT ![w].pc = "join"]
    BY <1>4 DEF InviteLoadMember, ReturnOK, ReturnError, End
  <2> QED BY <1>2, <2>1, GotoEffect, EndEffect
<1>5. JoinGuild(w) => Moved(w, "grant")
  BY <1>2, GotoEffect DEF JoinGuild
<1>6. ASSUME Grant(w) PROVE Moved(w, "mark") \/ Ended(w)
  <2>1. \/ worker' = [worker EXCEPT ![w] = Idle]
        \/ worker' = [worker EXCEPT ![w].pc = "mark"]
    BY <1>6 DEF Grant, ReturnError, End
  <2> QED BY <1>2, <2>1, GotoEffect, EndEffect
<1>7. MarkApplied(w) => Ended(w)
  BY EndEffect DEF MarkApplied, ReturnOK, End
<1> QED BY <1>3, <1>4, <1>5, <1>6, <1>7

LEMMA ExpelEffects ==
  ASSUME Typed, NEW w \in Workers, worker[w].user \in Users,
         discordOf \in [Users -> MaybeId]
  PROVE  /\ ExpelLoadUser(w) => Loaded(w) \/ Ended(w)
         /\ ExpelLoadMember(w) => Ended(w) \/ Moved(w, "delete")
         /\ DeleteOverwrite(w) => Moved(w, "kick") \/ Moved(w, "revoke")
         /\ KickMember(w) => Moved(w, "revoke")
         /\ RevokeMember(w) => Ended(w)
<1>1. discordOf[worker[w].user] \in MaybeId
  OBVIOUS
<1>2. {"delete", "kick", "revoke"} \subseteq Steps
  BY DEF Steps
<1>3. ASSUME ExpelLoadUser(w) PROVE Loaded(w) \/ Ended(w)
  <2> DEFINE c == IF provisioned THEN "known" ELSE worker[w].channel
  <2>1. c \in {"unknown", "known"}
    BY DEF Typed, WorkerRec
  <2>2. \/ worker' = [worker EXCEPT ![w].pc = "member",
                                    ![w].id = discordOf[worker[w].user],
                                    ![w].channel = c]
        \/ worker' = [worker EXCEPT ![w] = Idle]
    BY <1>3 DEF ExpelLoadUser, ReturnError, End, Typed
  <2> HIDE DEF c
  <2> QED BY <1>1, <2>1, <2>2, LoadEffect, EndEffect
<1>4. ASSUME ExpelLoadMember(w) PROVE Ended(w) \/ Moved(w, "delete")
  <2>1. \/ worker' = [worker EXCEPT ![w] = Idle]
        \/ worker' = [worker EXCEPT ![w].pc = "delete"]
    BY <1>4 DEF ExpelLoadMember, ReturnOK, ReturnError, End
  <2> QED BY <1>2, <2>1, GotoEffect, EndEffect
<1>5. ASSUME DeleteOverwrite(w) PROVE Moved(w, "kick") \/ Moved(w, "revoke")
  <2>1. \/ worker' = [worker EXCEPT ![w].pc = "kick"]
        \/ worker' = [worker EXCEPT ![w].pc = "revoke"]
    BY <1>5 DEF DeleteOverwrite
  <2> QED BY <1>2, <2>1, GotoEffect
<1>6. KickMember(w) => Moved(w, "revoke")
  BY <1>2, GotoEffect DEF KickMember
<1>7. ASSUME RevokeMember(w) PROVE Ended(w)
  <2>1. worker' = [worker EXCEPT ![w] = Idle]
    BY <1>7 DEF RevokeMember, ReturnOK, ReturnError, End
  <2> QED BY <2>1, EndEffect
<1> QED BY <1>3, <1>4, <1>5, <1>6, <1>7

LEMMA SweepEffects ==
  ASSUME Typed, NEW w \in Workers, overwrites \in SUBSET DiscordIds,
         discordOf \in [Users -> MaybeId]
  PROVE  /\ ListMembers(w) => Listed(w) \/ Ended(w)
         /\ \A u \in Users : ResolveMember(w, u) => Resolved(w, u) \/ Ended(w)
         /\ ReadOverwrites(w) => Compared(w) \/ Ended(w)
         /\ \A d \in DiscordIds : PruneOverwrite(w, d) => Pruned(w, d)
         /\ \A d \in DiscordIds : ReapplyOverwrite(w, d) =>
              \/ Reapplied(w, d, "remark", worker[w].desired[d])
              \/ Reapplied(w, d, "repair", worker[w].user)
         /\ MarkReapplied(w) => Remarked(w)
         /\ EndSweep(w) => Ended(w)
<1>1. ASSUME ListMembers(w) PROVE Listed(w) \/ Ended(w)
  <2>1. \/ worker' = [worker EXCEPT ![w].pc = "resolve",
                                    ![w].members = Active,
                                    ![w].todo = Active]
        \/ worker' = [worker EXCEPT ![w] = Idle]
    BY <1>1 DEF ListMembers, ReturnOK, ReturnError, End
  <2> QED BY <2>1, ListEffect, EndEffect
<1>2. ASSUME NEW u \in Users, ResolveMember(w, u)
      PROVE  Resolved(w, u) \/ Ended(w)
  <2>1. worker[w].pc = "resolve"
    BY <1>2 DEF ResolveMember
  <2>2. \/ worker' = [worker EXCEPT
                ![w].todo = @ \ {u},
                ![w].desired = IF discordOf[u] = None THEN @
                               ELSE [@ EXCEPT ![discordOf[u]] = u]]
        \/ worker' = [worker EXCEPT ![w] = Idle]
    BY <1>2 DEF ResolveMember, ReturnError, End
  <2> QED BY <2>1, <2>2, ResolveEffect, EndEffect
<1>3. ASSUME ReadOverwrites(w) PROVE Compared(w) \/ Ended(w)
  <2>1. \/ worker' = [worker EXCEPT
                          ![w].pc = "repair",
                          ![w].prune = overwrites \ DesiredIds(w),
                          ![w].reapply = DesiredIds(w) \ overwrites]
        \/ worker' = [worker EXCEPT ![w] = Idle]
    BY <1>3 DEF ReadOverwrites, ReturnError, End
  <2> QED BY <2>1, CompareEffect, EndEffect
<1>4. ASSUME NEW d \in DiscordIds, PruneOverwrite(w, d) PROVE Pruned(w, d)
  BY <1>4, PruneEffect DEF PruneOverwrite
<1>5. ASSUME NEW d \in DiscordIds, ReapplyOverwrite(w, d)
      PROVE  \/ Reapplied(w, d, "remark", worker[w].desired[d])
             \/ Reapplied(w, d, "repair", worker[w].user)
  <2>1. worker[w].pc = "repair"
    BY <1>5 DEF ReapplyOverwrite
  <2>2. \/ worker' = [worker EXCEPT ![w].reapply = @ \ {d},
                                    ![w].pc = "remark",
                                    ![w].user = worker[w].desired[d]]
        \/ worker' = [worker EXCEPT ![w].reapply = @ \ {d}]
    BY <1>5 DEF ReapplyOverwrite
  <2> QED BY <2>1, <2>2, ReapplyEffect, SkipEffect
<1>6. MarkReapplied(w) => Remarked(w)
  BY RemarkEffect DEF MarkReapplied
<1>7. EndSweep(w) => Ended(w)
  BY EndEffect DEF EndSweep, ReturnOK, End
<1> QED BY <1>1, <1>2, <1>3, <1>4, <1>5, <1>6, <1>7

-----------------------------------------------------------------------------
(* Type correctness *)

TaskSteps == {"user", "member", "join", "grant", "mark", "delete", "kick",
              "revoke"}
SweepSteps == {"list", "resolve", "repair", "remark"}

(* What a goroutine knows at its step: the run of a task has a user, from   *)
(* the guild on also an account, and what a sweep re-applies has a user.    *)
HandlerTyped(r) ==
    /\ r.pc # "idle" => r.kind # "none"
    /\ r.pc \in TaskSteps => r.kind # "sweep"
    /\ r.pc \in SweepSteps => r.kind = "sweep"
    /\ r.kind \in TaskKinds => r.user \in Users
    /\ r.pc \in {"join", "grant"} => r.id # None
    /\ r.pc = "remark" => r.user # None
    /\ \A d \in r.reapply : r.desired[d] # None

HandlersTyped == \A w \in Workers : HandlerTyped(worker[w])

(* TypeOK without the goroutines. *)
DataTyped ==
    /\ provisioned \in BOOLEAN
    /\ row \in [Users -> {"none", "active", "revoked"}]
    /\ marked \in SUBSET Users
    /\ discordOf \in [Users -> MaybeId]
    /\ \A u, v \in Users :
         u # v /\ discordOf[u] # None => discordOf[u] # discordOf[v]
    /\ connecting \in SUBSET Users
    /\ overwrites \in SUBSET DiscordIds
    /\ guild \in SUBSET DiscordIds
    /\ waiting \in SUBSET Task
    /\ lock \in Workers \cup {None}
    /\ steady \in [Workers -> SUBSET DiscordIds]
    /\ requests \in 0..MaxRequests
    /\ faults \in 0..MaxFaults

TypeInv == DataTyped /\ Typed /\ HandlersTyped

LEMMA TypeInvOK == TypeInv => TypeOK
  BY DEF TypeInv, DataTyped, Typed, TypeOK

LEMMA TypeInit == Init => TypeInv
<1> SUFFICES ASSUME Init PROVE TypeInv
  OBVIOUS
<1>1. DataTyped
  <2>1. /\ row \in [Users -> {"none", "active", "revoked"}]
        /\ steady \in [Workers -> SUBSET DiscordIds]
    BY DEF Init
  <2>2. /\ provisioned \in BOOLEAN /\ discordOf \in [Users -> MaybeId]
        /\ \A u, v \in Users :
             u # v /\ discordOf[u] # None => discordOf[u] # discordOf[v]
    BY Zenon DEF Init
  <2>3. requests \in 0..MaxRequests /\ faults \in 0..MaxFaults
    BY DEF Init
  <2>4. /\ marked = {} /\ connecting = {} /\ overwrites = {} /\ guild = {}
        /\ waiting = {} /\ lock = None
    BY Zenon DEF Init
  <2> QED BY <2>1, <2>2, <2>3, <2>4 DEF DataTyped
<1>2. Typed
  BY IdleType DEF Init, Typed
<1>3. HandlersTyped
  <2> SUFFICES ASSUME NEW w \in Workers PROVE HandlerTyped(worker[w])
    BY DEF HandlersTyped
  <2>1. worker[w] = Idle
    BY DEF Init
  <2> QED BY <2>1, IdleType DEF HandlerTyped, TaskSteps, SweepSteps,
         TaskKinds
<1> QED BY <1>1, <1>2, <1>3 DEF TypeInv

(* One goroutine's step keeps all of them typed if it keeps its own. *)
LEMMA HandlersKept ==
  ASSUME HandlersTyped, NEW w \in Workers, Others(w), HandlerTyped(worker'[w])
  PROVE  HandlersTyped'
<1> SUFFICES ASSUME NEW v \in Workers PROVE HandlerTyped(worker'[v])
  BY DEF HandlersTyped
<1>1. CASE v = w
  BY <1>1
<1>2. CASE v # w
  BY <1>2 DEF HandlersTyped, Others
<1> QED BY <1>1, <1>2

LEMMA EndedTyped ==
  ASSUME HandlersTyped, NEW w \in Workers, Ended(w)
  PROVE  Typed' /\ HandlersTyped'
<1>1. HandlerTyped(worker'[w])
  BY IdleType DEF Ended, HandlerTyped, TaskSteps, SweepSteps,
         TaskKinds
<1> QED BY <1>1, HandlersKept DEF Ended

(* The kind and the user of a run that is not a sweep make a task. *)
LEMMA TaskOfType ==
  ASSUME TypeInv, NEW w \in Workers, worker[w].pc # "idle",
         worker[w].kind # "sweep"
  PROVE  worker[w].kind \in TaskKinds /\ worker[w].user \in Users
         /\ TaskOf(w) \in Task
<1>1. worker[w].kind \in TaskKinds \cup {"none", "sweep"}
  BY DEF TypeInv, Typed, WorkerRec
<1>2. HandlerTyped(worker[w])
  BY DEF TypeInv, HandlersTyped
<1>3. worker[w].kind \in TaskKinds /\ worker[w].user \in Users
  BY <1>1, <1>2 DEF HandlerTyped
<1> QED BY <1>3 DEF TaskOf, Task

LEMMA TaskStepUser ==
  ASSUME TypeInv, NEW w \in Workers, worker[w].pc \in TaskSteps
  PROVE  worker[w].user \in Users
<1>1. HandlerTyped(worker[w])
  BY DEF TypeInv, HandlersTyped
<1>2. worker[w].kind # "sweep" /\ worker[w].pc # "idle"
  BY <1>1 DEF HandlerTyped, TaskSteps,
             SweepSteps
<1> QED BY <1>2, TaskOfType

(* What the pieces that several steps share do to the data. *)
LEMMA RequeueType ==
  ASSUME TypeInv, NEW w \in Workers, worker[w].pc # "idle", Requeue(w)
  PROVE  waiting' \in SUBSET Task
<1>1. CASE waiting' = waiting
  BY <1>1 DEF TypeInv, DataTyped
<1>2. CASE worker[w].kind # "sweep" /\ waiting' = waiting \cup {TaskOf(w)}
  BY <1>2, TaskOfType DEF TypeInv, DataTyped
<1> QED BY <1>1, <1>2 DEF Requeue

LEMMA FaultType ==
  ASSUME TypeInv, Fault \/ UNCHANGED faults PROVE faults' \in 0..MaxFaults
  BY DEF TypeInv, DataTyped, Fault

LEMMA RequestType ==
  ASSUME TypeInv, Request PROVE requests' \in 0..MaxRequests
  BY DEF TypeInv, DataTyped, Request

LEMMA EndType ==
  ASSUME TypeInv, NEW w \in Workers, End(w)
  PROVE  lock' \in Workers \cup {None}
  BY DEF TypeInv, DataTyped, End

LEMMA TrackType ==
  ASSUME TypeInv, TrackSteady PROVE steady' \in [Workers -> SUBSET DiscordIds]
  BY DEF TypeInv, DataTyped, TrackSteady

LEMMA ForgetType ==
  ASSUME TypeInv, NEW w \in Workers, ForgetSteady(w) \/ UNCHANGED steady
  PROVE  steady' \in [Workers -> SUBSET DiscordIds]
  BY DEF TypeInv, DataTyped, ForgetSteady

(* The requests, staff and the lock's TTL. *)
LEMMA TypeAPI ==
  ASSUME TypeInv,
         \/ Provisioned
         \/ \E u \in Users :
              \/ InviteCollaborator(u)
              \/ \E kind \in TaskKinds \ {"invite"} :
                   ExpelCollaborator(u, kind)
              \/ \E d \in {e \in DiscordIds : <<u, e>> \in CanLink} :
                   LinkAccount(u, d)
              \/ EnqueuePendingInvites(u)
         \/ \E d \in DiscordIds : ManualEdit(d)
         \/ LockExpires
  PROVE  TypeInv'
<1>0. UNCHANGED worker
  BY DEF Provisioned, InviteCollaborator, ExpelCollaborator, LinkAccount,
         EnqueuePendingInvites, ManualEdit, LockExpires
<1>1. Typed' /\ HandlersTyped'
  BY <1>0 DEF TypeInv, Typed, HandlersTyped
<1>2. ASSUME Provisioned \/ LockExpires PROVE DataTyped'
  BY <1>2 DEF TypeInv, DataTyped, Provisioned, LockExpires, desiredVars,
              discordVars, boundVars
<1>3. ASSUME NEW u \in Users, InviteCollaborator(u) PROVE DataTyped'
  <2>1. row' \in [Users -> {"none", "active", "revoked"}]
    BY <1>3 DEF InviteCollaborator, TypeInv, DataTyped
  <2>2. waiting' \in SUBSET Task
    BY <1>3 DEF InviteCollaborator, TypeInv, DataTyped, Task, TaskKinds
  <2>3. requests' \in 0..MaxRequests
    BY <1>3, RequestType DEF InviteCollaborator
  <2> QED BY <1>3, <2>1, <2>2, <2>3
          DEF InviteCollaborator, TypeInv, DataTyped, discordVars
<1>4. ASSUME NEW u \in Users, NEW kind \in TaskKinds,
             ExpelCollaborator(u, kind)
      PROVE  DataTyped'
  <2>1. waiting' \in SUBSET Task
    BY <1>4 DEF ExpelCollaborator, TypeInv, DataTyped, Task
  <2>2. requests' \in 0..MaxRequests
    BY <1>4, RequestType DEF ExpelCollaborator
  <2> QED BY <1>4, <2>1, <2>2
          DEF ExpelCollaborator, TypeInv, DataTyped, desiredVars, discordVars
<1>5. ASSUME NEW u \in Users, NEW d \in DiscordIds, LinkAccount(u, d)
      PROVE  DataTyped'
  <2>1. requests' \in 0..MaxRequests /\ faults' \in 0..MaxFaults
    BY <1>5, RequestType, FaultType DEF LinkAccount
  <2>2. steady' \in [Workers -> SUBSET DiscordIds]
    BY <1>5, TrackType DEF LinkAccount
  <2>3. /\ discordOf' \in [Users -> MaybeId]
        /\ \A x, y \in Users :
             x # y /\ discordOf'[x] # None => discordOf'[x] # discordOf'[y]
    <3>1. CASE discordOf' = discordOf
      BY <3>1 DEF TypeInv, DataTyped
    <3>2. CASE discordOf' = [discordOf EXCEPT ![u] = d]
      <4>1. \A x \in Users \ {u} : discordOf'[x] = discordOf[x]
        BY <3>2 DEF TypeInv, DataTyped
      <4>2. discordOf'[u] = d
        BY <3>2 DEF TypeInv, DataTyped
      <4>3. \A x \in Users \ {u} : discordOf[x] # d
        BY <1>5 DEF LinkAccount
      <4>4. discordOf' \in [Users -> MaybeId]
        BY <3>2 DEF TypeInv, DataTyped, MaybeId
      <4> QED BY <4>1, <4>2, <4>3, <4>4 DEF TypeInv, DataTyped
    <3> QED BY <1>5, <3>1, <3>2 DEF LinkAccount
  <2>4. connecting' \in SUBSET Users
    BY <1>5 DEF LinkAccount, TypeInv, DataTyped
  <2> QED BY <1>5, <2>1, <2>2, <2>3, <2>4
          DEF LinkAccount, TypeInv, DataTyped, discordVars
<1>6. ASSUME NEW u \in Users, EnqueuePendingInvites(u) PROVE DataTyped'
  <2>1. waiting' \in SUBSET Task
    BY <1>6 DEF EnqueuePendingInvites, TypeInv, DataTyped, Task, TaskKinds
  <2> QED BY <1>6, <2>1
          DEF EnqueuePendingInvites, TypeInv, DataTyped, discordVars,
              boundVars
<1>7. ASSUME NEW d \in DiscordIds, ManualEdit(d) PROVE DataTyped'
  <2>1. requests' \in 0..MaxRequests
    BY <1>7, RequestType DEF ManualEdit
  <2> QED BY <1>7, <2>1
          DEF ManualEdit, TypeInv, DataTyped, desiredVars
<1> QED BY <1>1, <1>2, <1>3, <1>4, <1>5, <1>6, <1>7 DEF TypeInv

(* Runs that start, lose their lease or acquire the lock. *)
LEMMA TypeStart ==
  ASSUME TypeInv, NEW w \in Workers,
         \/ \E t \in waiting : StartTask(w, t)
         \/ StartSweep(w) \/ LeaseLost(w) \/ AcquireSpace(w)
  PROVE  TypeInv'
<1>1. ASSUME NEW k \in TaskKinds \cup {"sweep"}, NEW u, Started(w, k, u),
             k \in TaskKinds => u \in Users
      PROVE  Typed' /\ HandlersTyped'
  <2>1. HandlerTyped(worker'[w])
    BY <1>1 DEF Started, HandlerTyped, TaskSteps, SweepSteps,
         TaskKinds
  <2>2. HandlersTyped
    BY DEF TypeInv
  <2>3. Typed' /\ Others(w)
    BY <1>1 DEF Started
  <2> QED BY <2>1, <2>2, <2>3, HandlersKept
<1>2. ASSUME NEW t \in waiting, StartTask(w, t) PROVE TypeInv'
  <2>1. t \in Task /\ t.kind \in TaskKinds /\ t.user \in Users
    BY DEF TypeInv, DataTyped, Task
  <2>2. Started(w, t.kind, t.user)
    BY <1>2, <2>1, StartTaskEffect DEF TypeInv
  <2>3. Typed' /\ HandlersTyped'
    BY <1>1, <2>1, <2>2
  <2>4. DataTyped'
    BY <1>2 DEF StartTask, TypeInv, DataTyped, desiredVars, discordVars,
                boundVars
  <2> QED BY <2>3, <2>4 DEF TypeInv
<1>3. ASSUME StartSweep(w) PROVE TypeInv'
  <2>1. Started(w, "sweep", None)
    BY <1>3, StartSweepEffect DEF TypeInv
  <2>2. Typed' /\ HandlersTyped'
    BY <1>1, <2>1 DEF TaskKinds
  <2>3. DataTyped'
    BY <1>3 DEF StartSweep, TypeInv, DataTyped, desiredVars, discordVars,
                boundVars
  <2> QED BY <2>2, <2>3 DEF TypeInv
<1>4. ASSUME LeaseLost(w) PROVE TypeInv'
  <2>1. Typed' /\ HandlersTyped'
    <3>1. CASE UNCHANGED worker
      BY <3>1 DEF TypeInv, Typed, HandlersTyped
    <3>2. CASE worker' = [worker EXCEPT ![w] = Idle]
      BY <3>2, EndEffect, EndedTyped DEF TypeInv
    <3> QED BY <1>4, <3>1, <3>2 DEF LeaseLost
  <2>2. waiting' \in SUBSET Task
    BY <1>4, RequeueType DEF LeaseLost
  <2>3. faults' \in 0..MaxFaults
    BY <1>4, FaultType DEF LeaseLost
  <2>4. steady' \in [Workers -> SUBSET DiscordIds]
    BY <1>4, ForgetType DEF LeaseLost
  <2>5. DataTyped'
    BY <1>4, <2>2, <2>3, <2>4
       DEF LeaseLost, TypeInv, DataTyped, desiredVars, discordVars
  <2> QED BY <2>1, <2>5 DEF TypeInv
<1>5. ASSUME AcquireSpace(w) PROVE TypeInv'
  <2>0. HandlerTyped(worker[w]) /\ worker[w].pc = "acquire"
    BY <1>5 DEF TypeInv, HandlersTyped, AcquireSpace
  <2>1. Typed' /\ HandlersTyped'
    <3>1. CASE Ended(w)
      BY <3>1, EndedTyped DEF TypeInv
    <3>2. CASE Moved(w, IF worker[w].kind = "sweep" THEN "list" ELSE "user")
      <4>1. HandlerTyped(worker'[w])
        BY <2>0, <3>2 DEF Moved, SameTask, SameSweep, HandlerTyped, TaskSteps,
             SweepSteps
      <4> QED BY <3>2, <4>1, HandlersKept DEF Moved, TypeInv
    <3> QED BY <1>5, <3>1, <3>2, AcquireEffects DEF TypeInv
  <2>2. waiting' \in SUBSET Task
    <3>1. CASE UNCHANGED waiting
      BY <3>1 DEF TypeInv, DataTyped
    <3>2. CASE Requeue(w)
      BY <2>0, <3>2, RequeueType
    <3> QED BY <1>5, <3>1, <3>2 DEF AcquireSpace
  <2>3. faults' \in 0..MaxFaults
    BY <1>5, FaultType DEF AcquireSpace
  <2>4. lock' \in Workers \cup {None}
    BY <1>5 DEF AcquireSpace, TypeInv, DataTyped
  <2>5. DataTyped'
    BY <1>5, <2>2, <2>3, <2>4
       DEF AcquireSpace, TypeInv, DataTyped, desiredVars, discordVars
  <2> QED BY <2>1, <2>5 DEF TypeInv
<1> QED BY <1>2, <1>3, <1>4, <1>5

(* The steps of invite_collaborator and expel_collaborator. *)
LEMMA TypeTask ==
  ASSUME TypeInv, NEW w \in Workers, TaskStep(w)
  PROVE  TypeInv'
<1>1. /\ worker[w].pc \in TaskSteps /\ worker[w].pc # "idle"
      /\ worker[w].user \in Users /\ HandlerTyped(worker[w])
  <2>1. worker[w].pc \in TaskSteps /\ worker[w].pc # "idle"
    BY DEF TaskStep, InviteLoadUser, InviteLoadMember, JoinGuild, Grant,
           MarkApplied, ExpelLoadUser, ExpelLoadMember, DeleteOverwrite,
           KickMember, RevokeMember, TaskSteps
  <2> QED BY <2>1, TaskStepUser DEF TypeInv, HandlersTyped
<1>2. Typed /\ HandlersTyped /\ discordOf \in [Users -> MaybeId]
  BY DEF TypeInv, DataTyped
<1>3. ASSUME Ended(w) \/ Loaded(w)
             \/ (worker[w].id # None /\ Moved(w, "join"))
             \/ (worker[w].pc = "join" /\ Moved(w, "grant"))
             \/ \E p \in {"mark", "delete", "kick", "revoke"} : Moved(w, p)
      PROVE  Typed' /\ HandlersTyped'
  <2>1. CASE Ended(w)
    BY <1>2, <2>1, EndedTyped
  <2>2. CASE Loaded(w)
    <3>1. HandlerTyped(worker'[w])
      BY <1>1, <2>2 DEF Loaded, SameSweep, HandlerTyped, TaskSteps,
             SweepSteps
    <3> QED BY <1>2, <2>2, <3>1, HandlersKept DEF Loaded
  <2>3. ASSUME NEW p \in TaskSteps, Moved(w, p),
               p \in {"join", "grant"} => worker[w].id # None
        PROVE  Typed' /\ HandlersTyped'
    <3>1. HandlerTyped(worker'[w])
      BY <1>1, <2>3
         DEF Moved, SameTask, SameSweep, HandlerTyped, TaskSteps,
             SweepSteps
    <3> QED BY <1>2, <2>3, <3>1, HandlersKept DEF Moved
  <2>4. worker[w].pc = "join" => worker[w].id # None
    BY <1>1 DEF HandlerTyped
  <2> QED BY <1>3, <2>1, <2>2, <2>3, <2>4 DEF TaskSteps
<1>4. Typed' /\ HandlersTyped'
  BY <1>1, <1>2, <1>3, InviteEffects, ExpelEffects DEF TaskStep, JoinGuild
<1>5. faults' \in 0..MaxFaults
  <2>1. Fault \/ UNCHANGED faults
    BY DEF TaskStep, InviteLoadUser, InviteLoadMember, JoinGuild, Grant,
           MarkApplied, ExpelLoadUser, ExpelLoadMember, DeleteOverwrite,
           KickMember, RevokeMember, boundVars
  <2> QED BY <2>1, FaultType
<1>6. UNCHANGED <<provisioned, discordOf, connecting, requests>>
  BY DEF TaskStep, InviteLoadUser, InviteLoadMember, JoinGuild, Grant,
         MarkApplied, ExpelLoadUser, ExpelLoadMember, DeleteOverwrite,
         KickMember, RevokeMember, boundVars, desiredVars
<1>7. waiting' \in SUBSET Task
  <2>1. UNCHANGED waiting \/ Requeue(w)
    BY DEF TaskStep, InviteLoadUser, InviteLoadMember, JoinGuild, Grant,
           MarkApplied, ExpelLoadUser, ExpelLoadMember, DeleteOverwrite,
           KickMember, RevokeMember, ReturnOK, ReturnError
  <2> QED BY <1>1, <2>1, RequeueType DEF TypeInv, DataTyped
<1>8. lock' \in Workers \cup {None}
  <2>1. UNCHANGED lock \/ End(w)
    BY DEF TaskStep, InviteLoadUser, InviteLoadMember, JoinGuild, Grant,
           MarkApplied, ExpelLoadUser, ExpelLoadMember, DeleteOverwrite,
           KickMember, RevokeMember, ReturnOK, ReturnError
  <2> QED BY <2>1, EndType DEF TypeInv, DataTyped
<1>9. steady' \in [Workers -> SUBSET DiscordIds]
  <2>1. UNCHANGED steady \/ TrackSteady
    BY DEF TaskStep, InviteLoadUser, InviteLoadMember, JoinGuild, Grant,
           MarkApplied, ExpelLoadUser, ExpelLoadMember, DeleteOverwrite,
           KickMember, RevokeMember
  <2> QED BY <2>1, TrackType, ForgetType DEF TypeInv, DataTyped
<1>10. /\ row' \in [Users -> {"none", "active", "revoked"}]
       /\ marked' \in SUBSET Users
  <2>1. \/ UNCHANGED row
        \/ row' = [row EXCEPT ![worker[w].user] = "revoked"]
    BY DEF TaskStep, InviteLoadUser, InviteLoadMember, JoinGuild, Grant,
           MarkApplied, ExpelLoadUser, ExpelLoadMember, DeleteOverwrite,
           KickMember, RevokeMember, desiredVars
  <2>2. UNCHANGED marked \/ marked' = marked \cup {worker[w].user}
    BY DEF TaskStep, InviteLoadUser, InviteLoadMember, JoinGuild, Grant,
           MarkApplied, ExpelLoadUser, ExpelLoadMember, DeleteOverwrite,
           KickMember, RevokeMember
  <2> QED BY <1>1, <2>1, <2>2 DEF TypeInv, DataTyped
<1>11. overwrites' \in SUBSET DiscordIds /\ guild' \in SUBSET DiscordIds
  <2>1. worker[w].pc \in {"join", "grant"} => worker[w].id \in DiscordIds
    BY <1>1, <1>2 DEF Typed, WorkerRec, MaybeId, HandlerTyped
  <2>2. /\ \/ overwrites' \in {overwrites, overwrites \ {worker[w].id}}
           \/ /\ worker[w].pc = "grant"
              /\ overwrites' = overwrites \cup {worker[w].id}
        /\ \/ guild' \in {guild, guild \ {worker[w].id}}
           \/ worker[w].pc = "join" /\ guild' = guild \cup {worker[w].id}
    BY DEF TaskStep, InviteLoadUser, InviteLoadMember, JoinGuild, Grant,
           MarkApplied, ExpelLoadUser, ExpelLoadMember, DeleteOverwrite,
           KickMember, RevokeMember, discordVars
  <2> QED BY <2>1, <2>2 DEF TypeInv, DataTyped
<1>12. DataTyped'
  BY <1>5, <1>6, <1>7, <1>8, <1>9, <1>10, <1>11 DEF TypeInv, DataTyped
<1> QED BY <1>4, <1>12 DEF TypeInv

(* The steps of ReconcileSpace keep the goroutine typed, *)
LEMMA SweepHandler ==
  ASSUME TypeInv, NEW w \in Workers, SweepStep(w)
  PROVE  Typed' /\ HandlersTyped'
<1>1. /\ HandlerTyped(worker[w]) /\ worker[w] \in WorkerRec
      /\ Typed /\ HandlersTyped
      /\ discordOf \in [Users -> MaybeId] /\ overwrites \in SUBSET DiscordIds
  BY DEF TypeInv, HandlersTyped, DataTyped, Typed
<1>2. /\ worker[w].todo \subseteq Users /\ worker[w].prune \subseteq DiscordIds
      /\ worker[w].reapply \subseteq DiscordIds
      /\ worker[w].desired \in [DiscordIds -> MaybeUser]
  BY <1>1 DEF WorkerRec
<1>3. worker[w].pc \in SweepSteps /\ worker[w].kind = "sweep"
  <2>1. worker[w].pc \in SweepSteps
    BY DEF SweepStep, ListMembers, ResolveMember, ReadOverwrites, SweepSteps,
           PruneOverwrite, ReapplyOverwrite, MarkReapplied, EndSweep
  <2> QED BY <1>1, <2>1 DEF HandlerTyped
<1>4. CASE Ended(w)
  BY <1>1, <1>4, EndedTyped
<1>5. ASSUME Typed', Others(w),
             worker'[w].pc \in SweepSteps, worker'[w].kind = worker[w].kind,
             worker'[w].pc = "remark" => worker'[w].user # None,
             \A d \in worker'[w].reapply : worker'[w].desired[d] # None
      PROVE  Typed' /\ HandlersTyped'
  <2>1. HandlerTyped(worker'[w])
    BY <1>3, <1>5 DEF HandlerTyped, SweepSteps, TaskSteps, TaskKinds
  <2> QED BY <1>1, <1>5, <2>1, HandlersKept
<1>6. \A d \in worker[w].reapply : worker[w].desired[d] # None
  BY <1>1 DEF HandlerTyped
<1>7. CASE Listed(w)
  BY <1>5, <1>6, <1>7 DEF Listed, SameTask, SweepSteps
<1>8. ASSUME NEW u \in worker[w].todo, Resolved(w, u)
      PROVE  Typed' /\ HandlersTyped'
  <2>1. \A d \in worker[w].reapply : worker'[w].desired[d] # None
    BY <1>1, <1>2, <1>6, <1>8 DEF Resolved, MaybeId, MaybeUser
  <2> QED BY <1>5, <1>8, <2>1 DEF Resolved, SameTask, SweepSteps
<1>9. CASE Compared(w)
  BY <1>5, <1>9 DEF Compared, SameTask, SweepSteps, DesiredIds
<1>10. ASSUME NEW d \in DiscordIds, Pruned(w, d)
       PROVE  Typed' /\ HandlersTyped'
  BY <1>5, <1>6, <1>10 DEF Pruned, SameTask, SweepSteps
<1>11. ASSUME NEW d \in worker[w].reapply,
              \/ Reapplied(w, d, "remark", worker[w].desired[d])
              \/ Reapplied(w, d, "repair", worker[w].user)
       PROVE  Typed' /\ HandlersTyped'
  BY <1>5, <1>6, <1>11 DEF Reapplied, SweepSteps
<1>12. CASE Remarked(w)
  BY <1>5, <1>6, <1>12 DEF Remarked, SameSweep, SweepSteps
<1>13. \/ ListMembers(w) \/ ReadOverwrites(w) \/ MarkReapplied(w)
       \/ EndSweep(w)
       \/ \E u \in worker[w].todo : ResolveMember(w, u)
       \/ \E d \in worker[w].prune : PruneOverwrite(w, d)
       \/ \E d \in worker[w].reapply : ReapplyOverwrite(w, d)
  BY DEF SweepStep
<1>14. \/ Ended(w) \/ Listed(w) \/ Compared(w) \/ Remarked(w)
       \/ \E u \in worker[w].todo : Resolved(w, u)
       \/ \E d \in DiscordIds : Pruned(w, d)
       \/ \E d \in worker[w].reapply :
            \/ Reapplied(w, d, "remark", worker[w].desired[d])
            \/ Reapplied(w, d, "repair", worker[w].user)
  BY <1>1, <1>2, <1>13, SweepEffects
<1> QED BY <1>4, <1>7, <1>8, <1>9, <1>10, <1>11, <1>12, <1>14

(* and the data. *)
LEMMA BackedType ==
  ASSUME discordOf \in [Users -> MaybeId] PROVE Backed \in SUBSET DiscordIds
  BY DEF Backed, Active, MaybeId

LEMMA TypeSweep ==
  ASSUME TypeInv, NEW w \in Workers, SweepStep(w)
  PROVE  TypeInv'
<1>1. /\ HandlerTyped(worker[w]) /\ worker[w] \in WorkerRec
      /\ discordOf \in [Users -> MaybeId] /\ worker[w].pc # "idle"
  BY DEF TypeInv, HandlersTyped, DataTyped, Typed, SweepStep, ListMembers,
         ResolveMember, ReadOverwrites, PruneOverwrite, ReapplyOverwrite,
         MarkReapplied, EndSweep
<1>2. Typed' /\ HandlersTyped'
  BY SweepHandler
<1>3. UNCHANGED <<provisioned, row, discordOf, connecting, requests, guild>>
  BY DEF SweepStep, ListMembers, ResolveMember, ReadOverwrites,
         PruneOverwrite, ReapplyOverwrite, MarkReapplied, EndSweep,
         desiredVars, discordVars, boundVars
<1>4. faults' \in 0..MaxFaults
  <2>1. Fault \/ UNCHANGED faults
    BY DEF SweepStep, ListMembers, ResolveMember, ReadOverwrites,
           PruneOverwrite, ReapplyOverwrite, MarkReapplied, EndSweep,
           boundVars
  <2> QED BY <2>1, FaultType
<1>5. waiting' \in SUBSET Task
  <2>1. UNCHANGED waiting \/ Requeue(w)
    BY DEF SweepStep, ListMembers, ResolveMember, ReadOverwrites,
           PruneOverwrite, ReapplyOverwrite, MarkReapplied, EndSweep,
           ReturnOK, ReturnError
  <2> QED BY <1>1, <2>1, RequeueType DEF TypeInv, DataTyped
<1>6. lock' \in Workers \cup {None}
  <2>1. UNCHANGED lock \/ End(w)
    BY DEF SweepStep, ListMembers, ResolveMember, ReadOverwrites,
           PruneOverwrite, ReapplyOverwrite, MarkReapplied, EndSweep,
           ReturnOK, ReturnError
  <2> QED BY <2>1, EndType DEF TypeInv, DataTyped
<1>7. steady' \in [Workers -> SUBSET DiscordIds]
  <2>1. \/ UNCHANGED steady \/ ForgetSteady(w)
        \/ steady' = [steady EXCEPT ![w] = Backed]
    BY DEF SweepStep, ListMembers, ResolveMember, ReadOverwrites,
           PruneOverwrite, ReapplyOverwrite, MarkReapplied, EndSweep
  <2>2. CASE steady' = [steady EXCEPT ![w] = Backed]
    BY <1>1, <2>2, BackedType DEF TypeInv, DataTyped
  <2> QED BY <2>1, <2>2, ForgetType
<1>8. marked' \in SUBSET Users
  <2>1. \/ UNCHANGED marked
        \/ worker[w].pc = "remark" /\ marked' = marked \cup {worker[w].user}
    BY DEF SweepStep, ListMembers, ResolveMember, ReadOverwrites,
           PruneOverwrite, ReapplyOverwrite, MarkReapplied, EndSweep
  <2>2. worker[w].pc = "remark" => worker[w].user \in Users
    BY <1>1 DEF HandlerTyped, WorkerRec, MaybeUser
  <2> QED BY <2>1, <2>2 DEF TypeInv, DataTyped
<1>9. overwrites' \in SUBSET DiscordIds
  <2>1. worker[w].reapply \subseteq DiscordIds
    BY <1>1 DEF WorkerRec
  <2>2. \/ UNCHANGED overwrites
        \/ \E d \in worker[w].prune : overwrites' = overwrites \ {d}
        \/ \E d \in worker[w].reapply : overwrites' = overwrites \cup {d}
    BY DEF SweepStep, ListMembers, ResolveMember, ReadOverwrites,
           PruneOverwrite, ReapplyOverwrite, MarkReapplied, EndSweep,
           discordVars
  <2> QED BY <2>1, <2>2 DEF TypeInv, DataTyped
<1>10. DataTyped'
  BY <1>3, <1>4, <1>5, <1>6, <1>7, <1>8, <1>9 DEF TypeInv, DataTyped
<1> QED BY <1>2, <1>10 DEF TypeInv

LEMMA TypeNext == TypeInv /\ [Next]_vars => TypeInv'
<1> SUFFICES ASSUME TypeInv, [Next]_vars PROVE TypeInv'
  OBVIOUS
<1>1. CASE UNCHANGED vars
  BY <1>1 DEF vars, desiredVars, discordVars, boundVars, TypeInv, DataTyped,
              Typed, HandlersTyped
<1>2. CASE Next
  BY <1>2, TypeAPI, TypeStart, TypeTask, TypeSweep DEF Next, RunStep
<1> QED BY <1>1, <1>2

(* Every reachable state is typed, for any users, accounts and goroutines:  *)
(* no two users ever share an account, a run between two of its steps has   *)
(* its user, and what fails goes back to the queue as a task.               *)
THEOREM TypeCorrect == Spec => []TypeOK
  BY TypeInit, TypeNext, TypeInvOK, PTL DEF Spec

(* The steps of a task's run, together. *)
LEMMA TaskStepEffects ==
  ASSUME TypeInv, NEW w \in Workers, TaskStep(w)
  PROVE  /\ worker[w].pc \in TaskSteps /\ worker[w].user \in Users
         /\ \/ Ended(w) \/ Loaded(w)
            \/ \E p \in {"join", "grant", "mark", "delete", "kick", "revoke"} :
                 Moved(w, p)
<1>1. worker[w].pc \in TaskSteps
  BY DEF TaskStep, InviteLoadUser, InviteLoadMember, JoinGuild, Grant,
         MarkApplied, ExpelLoadUser, ExpelLoadMember, DeleteOverwrite,
         KickMember, RevokeMember, TaskSteps
<1>2. /\ worker[w].user \in Users /\ Typed
      /\ discordOf \in [Users -> MaybeId]
  BY <1>1, TaskStepUser DEF TypeInv, DataTyped
<1> QED BY <1>1, <1>2, InviteEffects, ExpelEffects DEF TaskStep

(* The steps of a sweep, together. *)
LEMMA SweepStepEffects ==
  ASSUME TypeInv, NEW w \in Workers, SweepStep(w)
  PROVE  /\ worker[w].pc \in SweepSteps
         /\ \/ Ended(w) \/ Listed(w) \/ Compared(w) \/ Remarked(w)
            \/ \E u \in worker[w].todo : Resolved(w, u)
            \/ \E d \in DiscordIds : Pruned(w, d)
            \/ \E d \in DiscordIds :
                 \/ Reapplied(w, d, "remark", worker[w].desired[d])
                 \/ Reapplied(w, d, "repair", worker[w].user)
<1>1. /\ Typed /\ discordOf \in [Users -> MaybeId]
      /\ overwrites \in SUBSET DiscordIds
  BY DEF TypeInv, DataTyped
<1>2. /\ worker[w].todo \subseteq Users /\ worker[w].prune \subseteq DiscordIds
      /\ worker[w].reapply \subseteq DiscordIds
  BY <1>1 DEF Typed, WorkerRec
<1>3. worker[w].pc \in SweepSteps
  BY DEF SweepStep, ListMembers, ResolveMember, ReadOverwrites, SweepSteps,
         PruneOverwrite, ReapplyOverwrite, MarkReapplied, EndSweep
<1> QED BY <1>1, <1>2, <1>3, SweepEffects DEF SweepStep

-----------------------------------------------------------------------------
(* Sweeps spare the members that were there all along *)

Sweeping == {"resolve", "repair", "remark"}

(* SweepSparesSteadyMembers, with what makes it true: while the users of    *)
(* the listed rows are read, a steady account is desired already or belongs *)
(* to a row still to be resolved.                                           *)
SteadyRun(w) ==
    /\ worker[w].pc \notin Sweeping => steady[w] = {}
    /\ worker[w].pc \notin {"repair", "remark"} => worker[w].prune = {}
    /\ worker[w].pc = "resolve" =>
         \A d \in steady[w] :
             \/ worker[w].desired[d] # None
             \/ \E u \in worker[w].todo : discordOf[u] = d
    /\ worker[w].prune \cap steady[w] = {}

SteadyInv == \A w \in Workers : SteadyRun(w)

LEMMA SteadyInit == Init => SteadyInv
<1> SUFFICES ASSUME Init, NEW w \in Workers PROVE SteadyRun(w)
  BY DEF SteadyInv
<1>1. worker[w] = Idle /\ steady[w] = {}
  BY DEF Init
<1> QED BY <1>1, IdleType DEF SteadyRun, Sweeping

(* A step that leaves the goroutine alone and at most forgets accounts. *)
LEMMA SteadyFrame ==
  ASSUME NEW v \in Workers, SteadyRun(v), worker'[v] = worker[v],
         steady'[v] \subseteq steady[v], UNCHANGED discordOf
  PROVE  SteadyRun(v)'
  BY DEF SteadyRun

(* A step of w: its own part has to be shown. *)
LEMMA SteadyStep ==
  ASSUME SteadyInv, NEW w \in Workers, Others(w), UNCHANGED discordOf,
         \A v \in Workers \ {w} : steady'[v] \subseteq steady[v],
         SteadyRun(w)'
  PROVE  SteadyInv'
<1> SUFFICES ASSUME NEW v \in Workers PROVE SteadyRun(v)'
  BY DEF SteadyInv
<1>1. CASE v = w
  BY <1>1
<1>2. CASE v # w
  BY <1>2, SteadyFrame DEF SteadyInv, Others
<1> QED BY <1>1, <1>2

(* A run that is not past the listing of the rows, before and after. *)
LEMMA SteadyQuiet ==
  ASSUME TypeInv, SteadyInv, NEW w \in Workers, Others(w),
         UNCHANGED discordOf, worker'[w].pc \notin Sweeping,
         worker[w].pc \notin Sweeping,
         worker'[w].prune \in {{}, worker[w].prune},
         UNCHANGED steady \/ TrackSteady
  PROVE  SteadyInv'
<1>1. /\ steady \in [Workers -> SUBSET DiscordIds] /\ steady[w] = {}
      /\ worker[w].prune = {}
  BY DEF TypeInv, DataTyped, SteadyInv, SteadyRun, Sweeping
<1>2. \A v \in Workers : steady'[v] \subseteq steady[v]
  BY <1>1 DEF TrackSteady
<1>3. SteadyRun(w)'
  BY <1>1, <1>2 DEF SteadyRun, Sweeping
<1> QED BY <1>2, <1>3, SteadyStep

(* A run that ends forgets its accounts. *)
LEMMA SteadyEnd ==
  ASSUME TypeInv, SteadyInv, NEW w \in Workers, Ended(w),
         UNCHANGED discordOf, ForgetSteady(w)
  PROVE  SteadyInv'
<1>1. \A v \in Workers : steady'[v] \subseteq steady[v]
  BY DEF ForgetSteady, TypeInv, DataTyped
<1>2. steady'[w] = {}
  BY DEF ForgetSteady, TypeInv, DataTyped
<1>3. SteadyRun(w)'
  BY <1>2, IdleType DEF SteadyRun, Ended
<1> QED BY <1>1, <1>3, SteadyStep DEF Ended

(* An account that changes users is no longer steady; all others keep the   *)
(* user they had.                                                           *)
LEMMA SteadyLink ==
  ASSUME TypeInv, SteadyInv, NEW u \in Users, NEW d \in DiscordIds,
         LinkAccount(u, d)
  PROVE  SteadyInv'
<1> SUFFICES ASSUME NEW w \in Workers PROVE SteadyRun(w)'
  BY DEF SteadyInv
<1>1. worker'[w] = worker[w] /\ SteadyRun(w) /\ worker[w] \in WorkerRec
  BY DEF LinkAccount, SteadyInv, TypeInv, Typed
<1>2. steady'[w] = steady[w] \cap Backed'
  BY DEF LinkAccount, TrackSteady
<1>3. discordOf \in [Users -> MaybeId] /\ steady[w] \subseteq DiscordIds
      /\ \A x, y \in Users :
           x # y /\ discordOf[x] # None => discordOf[x] # discordOf[y]
  BY DEF TypeInv, DataTyped
<1>4. ASSUME NEW e \in steady'[w], NEW x \in worker[w].todo, discordOf[x] = e
      PROVE  discordOf'[x] = e
  <2>1. x \in Users /\ e \in DiscordIds /\ e # None
    BY <1>1, <1>2, <1>3 DEF WorkerRec
  <2>2. PICK y \in Users : discordOf'[y] = e
    BY <1>2 DEF Backed, Active
  <2>3. \A z \in Users \ {u} : discordOf'[z] = discordOf[z]
    BY <1>3 DEF LinkAccount
  <2>4. CASE x # u
    BY <1>4, <2>1, <2>3, <2>4
  <2>5. CASE x = u
    <3>1. CASE y = u
      BY <2>2, <2>5, <3>1
    <3>2. CASE y # u
      <4>1. discordOf[y] = e
        BY <2>2, <2>3, <3>2
      <4> QED BY <1>3, <1>4, <2>1, <2>5, <3>2, <4>1
    <3> QED BY <3>1, <3>2
  <2> QED BY <2>4, <2>5
<1> QED BY <1>1, <1>2, <1>4 DEF SteadyRun

LEMMA SteadySweep ==
  ASSUME TypeInv, SteadyInv, NEW w \in Workers, SweepStep(w)
  PROVE  SteadyInv'
<1>1. /\ SteadyRun(w) /\ HandlerTyped(worker[w]) /\ worker[w] \in WorkerRec
      /\ Typed /\ discordOf \in [Users -> MaybeId]
      /\ overwrites \in SUBSET DiscordIds
      /\ steady \in [Workers -> SUBSET DiscordIds]
  BY DEF SteadyInv, TypeInv, HandlersTyped, DataTyped, Typed
<1>2. /\ worker[w].todo \subseteq Users /\ worker[w].prune \subseteq DiscordIds
      /\ worker[w].reapply \subseteq DiscordIds
      /\ worker[w].desired \in [DiscordIds -> MaybeUser]
  BY <1>1 DEF WorkerRec
<1>3. UNCHANGED discordOf
  BY DEF SweepStep, ListMembers, ResolveMember, ReadOverwrites,
         PruneOverwrite, ReapplyOverwrite, MarkReapplied, EndSweep,
         desiredVars
<1>4. ASSUME Others(w), UNCHANGED steady, SteadyRun(w)' PROVE SteadyInv'
  BY <1>3, <1>4, SteadyStep
<1>5. ASSUME ListMembers(w) PROVE SteadyInv'
  <2>0. /\ steady[w] = {} /\ worker[w].pc = "list"
        /\ worker[w].pc \notin Sweeping /\ worker[w].prune = {}
    BY <1>1, <1>5 DEF SteadyRun, ListMembers, Sweeping
  <2>1. CASE worker' = [worker EXCEPT ![w] = Idle] /\ UNCHANGED steady
    <3>1. worker'[w] = Idle /\ Others(w)
      BY <1>1, <2>1, EndEffect DEF Ended
    <3>2. worker'[w].pc \notin Sweeping /\ worker'[w].prune = {}
      BY <3>1, IdleType DEF Sweeping
    <3> QED BY <1>3, <2>0, <2>1, <3>1, <3>2, SteadyQuiet
  <2>2. CASE /\ worker' = [worker EXCEPT ![w].pc = "resolve",
                                         ![w].members = Active,
                                         ![w].todo = Active]
             /\ steady' = [steady EXCEPT ![w] = Backed]
    <3>1. Listed(w)
      BY <1>1, <2>2, ListEffect
    <3>2. \A d \in Backed : \E u \in Active : discordOf[u] = d
      BY DEF Backed
    <3>3. /\ steady'[w] = Backed
          /\ \A v \in Workers \ {w} : steady'[v] = steady[v]
      BY <1>1, <2>2
    <3>4. SteadyRun(w)'
      BY <1>3, <2>0, <3>1, <3>2, <3>3 DEF SteadyRun, Listed, Sweeping
    <3> QED BY <1>3, <3>1, <3>3, <3>4, SteadyStep DEF Listed
  <2> QED BY <1>5, <2>1, <2>2 DEF ListMembers, ReturnOK, ReturnError, End
<1>6. ASSUME NEW u \in worker[w].todo, ResolveMember(w, u) PROVE SteadyInv'
  <2>0. worker[w].pc = "resolve" /\ u \in Users
    BY <1>2, <1>6 DEF ResolveMember
  <2>1. CASE worker' = [worker EXCEPT ![w] = Idle] /\ ForgetSteady(w)
    BY <1>1, <1>3, <2>1, EndEffect, SteadyEnd
  <2>2. CASE /\ worker' = [worker EXCEPT
                  ![w].todo = @ \ {u},
                  ![w].desired = IF discordOf[u] = None THEN @
                                 ELSE [@ EXCEPT ![discordOf[u]] = u]]
             /\ UNCHANGED steady
    <3>1. Resolved(w, u)
      BY <1>1, <2>0, <2>2, ResolveEffect
    <3>2. ASSUME NEW d \in steady[w]
          PROVE  \/ worker'[w].desired[d] # None
                 \/ \E x \in worker'[w].todo : discordOf[x] = d
      <4>0. d \in DiscordIds /\ d # None
        BY <1>1
      <4>1. CASE worker[w].desired[d] # None
        BY <1>1, <1>2, <2>0, <3>1, <4>0, <4>1 DEF Resolved, MaybeId
      <4>2. CASE discordOf[u] = d
        BY <1>1, <1>2, <2>0, <3>1, <4>0, <4>2 DEF Resolved
      <4>3. ASSUME NEW x \in worker[w].todo, discordOf[x] = d, x # u
            PROVE  \E y \in worker'[w].todo : discordOf[y] = d
        BY <3>1, <4>3 DEF Resolved
      <4> QED BY <1>1, <2>0, <4>1, <4>2, <4>3 DEF SteadyRun
    <3>3. SteadyRun(w)'
      BY <1>1, <1>3, <2>0, <2>2, <3>1, <3>2 DEF SteadyRun, Resolved, Sweeping
    <3> QED BY <1>4, <2>2, <3>1, <3>3 DEF Resolved
  <2> QED BY <1>6, <2>1, <2>2 DEF ResolveMember, ReturnError, End
<1>7. ASSUME ReadOverwrites(w) PROVE SteadyInv'
  <2>0. worker[w].pc = "resolve" /\ worker[w].todo = {}
    BY <1>7 DEF ReadOverwrites
  <2>1. CASE worker' = [worker EXCEPT ![w] = Idle] /\ ForgetSteady(w)
    BY <1>1, <1>3, <2>1, EndEffect, SteadyEnd
  <2>2. CASE /\ worker' = [worker EXCEPT
                             ![w].pc = "repair",
                             ![w].prune = overwrites \ DesiredIds(w),
                             ![w].reapply = DesiredIds(w) \ overwrites]
             /\ UNCHANGED steady
    <3>1. Compared(w)
      BY <1>1, <2>2, CompareEffect
    <3>2. steady[w] \subseteq DesiredIds(w)
      BY <1>1, <2>0 DEF SteadyRun, DesiredIds
    <3>3. SteadyRun(w)'
      BY <2>2, <3>1, <3>2 DEF SteadyRun, Compared, Sweeping
    <3> QED BY <1>4, <2>2, <3>1, <3>3 DEF Compared
  <2> QED BY <1>7, <2>1, <2>2 DEF ReadOverwrites, ReturnError, End
<1>8. ASSUME NEW d \in worker[w].prune, PruneOverwrite(w, d)
      PROVE  SteadyInv'
  <2>1. Pruned(w, d) /\ UNCHANGED steady
    BY <1>1, <1>2, <1>8, SweepEffects DEF PruneOverwrite
  <2>2. SteadyRun(w)'
    BY <1>1, <1>8, <2>1 DEF SteadyRun, Pruned, Sweeping
  <2> QED BY <1>4, <2>1, <2>2 DEF Pruned
<1>9. ASSUME NEW d \in worker[w].reapply, ReapplyOverwrite(w, d)
      PROVE  SteadyInv'
  <2>1. /\ \/ Reapplied(w, d, "remark", worker[w].desired[d])
           \/ Reapplied(w, d, "repair", worker[w].user)
        /\ UNCHANGED steady /\ worker[w].pc = "repair"
    BY <1>1, <1>2, <1>9, SweepEffects DEF ReapplyOverwrite
  <2>2. SteadyRun(w)' /\ Others(w)
    BY <1>1, <2>1 DEF SteadyRun, Reapplied, Sweeping
  <2> QED BY <1>4, <2>1, <2>2
<1>10. ASSUME MarkReapplied(w) PROVE SteadyInv'
  <2>1. Remarked(w) /\ UNCHANGED steady /\ worker[w].pc = "remark"
    BY <1>1, <1>10, SweepEffects DEF MarkReapplied
  <2>2. SteadyRun(w)' /\ Others(w)
    BY <1>1, <2>1 DEF SteadyRun, Remarked, SameSweep, Sweeping
  <2> QED BY <1>4, <2>1, <2>2
<1>11. ASSUME EndSweep(w) PROVE SteadyInv'
  BY <1>1, <1>3, <1>11, SweepEffects, SteadyEnd DEF EndSweep
<1> QED BY <1>5, <1>6, <1>7, <1>8, <1>9, <1>10, <1>11 DEF SweepStep

LEMMA SteadyTask ==
  ASSUME TypeInv, SteadyInv, NEW w \in Workers, TaskStep(w)
  PROVE  SteadyInv'
<1>1. /\ worker[w].pc \in TaskSteps
      /\ \/ Ended(w) \/ Loaded(w)
         \/ \E p \in {"join", "grant", "mark", "delete", "kick", "revoke"} :
              Moved(w, p)
  BY TaskStepEffects
<1>4. /\ worker'[w].pc \notin Sweeping /\ Others(w)
      /\ worker'[w].prune \in {{}, worker[w].prune}
  BY <1>1, IdleType DEF Ended, Loaded, Moved, SameSweep, Sweeping
<1>5. UNCHANGED discordOf /\ (UNCHANGED steady \/ TrackSteady)
  BY DEF TaskStep, InviteLoadUser, InviteLoadMember, JoinGuild, Grant,
         MarkApplied, ExpelLoadUser, ExpelLoadMember, DeleteOverwrite,
         KickMember, RevokeMember, desiredVars
<1>6. worker[w].pc \notin Sweeping
  BY <1>1 DEF TaskSteps, Sweeping
<1> QED BY <1>4, <1>5, <1>6, SteadyQuiet

LEMMA SteadyStart ==
  ASSUME TypeInv, SteadyInv, NEW w \in Workers,
         \/ \E t \in waiting : StartTask(w, t)
         \/ StartSweep(w) \/ LeaseLost(w) \/ AcquireSpace(w)
  PROVE  SteadyInv'
<1>0. Typed /\ waiting \subseteq Task
  BY DEF TypeInv, DataTyped
<1>1. UNCHANGED discordOf
  BY DEF StartTask, StartSweep, LeaseLost, AcquireSpace, desiredVars
<1>2. CASE LeaseLost(w)
  <2>1. CASE UNCHANGED <<worker, steady>>
    BY <1>1, <2>1 DEF SteadyInv, SteadyRun
  <2>2. CASE worker' = [worker EXCEPT ![w] = Idle] /\ ForgetSteady(w)
    BY <1>0, <1>1, <2>2, EndEffect, SteadyEnd
  <2> QED BY <1>2, <2>1, <2>2 DEF LeaseLost
<1>3. CASE (\E t \in waiting : StartTask(w, t)) \/ StartSweep(w)
  <2>1. \E k, u : Started(w, k, u)
    BY <1>0, <1>3, StartTaskEffect, StartSweepEffect
  <2>2. /\ worker[w].pc = "idle" /\ UNCHANGED steady
        /\ worker'[w].pc = "acquire" /\ worker'[w].prune = {} /\ Others(w)
    BY <1>3, <2>1 DEF StartTask, StartSweep, Started
  <2> QED BY <1>1, <2>2, SteadyQuiet DEF Sweeping
<1>4. CASE AcquireSpace(w)
  <2>1. /\ worker'[w].pc \in {"idle", "list", "user"} /\ Others(w)
        /\ worker'[w].prune \in {{}, worker[w].prune}
    BY <1>0, <1>4, AcquireEffects, IdleType DEF Ended, Moved, SameSweep
  <2>2. worker[w].pc = "acquire" /\ UNCHANGED steady
    BY <1>4 DEF AcquireSpace
  <2> QED BY <1>1, <2>1, <2>2, SteadyQuiet DEF Sweeping
<1> QED BY <1>2, <1>3, <1>4

LEMMA SteadyNext == TypeInv /\ SteadyInv /\ [Next]_vars => SteadyInv'
<1> SUFFICES ASSUME TypeInv, SteadyInv, [Next]_vars PROVE SteadyInv'
  OBVIOUS
<1>1. CASE UNCHANGED <<worker, steady, discordOf>>
  BY <1>1 DEF SteadyInv, SteadyRun
<1>2. UNCHANGED vars => UNCHANGED <<worker, steady, discordOf>>
  BY DEF vars, desiredVars
<1>3. ASSUME \/ Provisioned
             \/ \E u \in Users :
                  \/ InviteCollaborator(u)
                  \/ \E kind \in TaskKinds \ {"invite"} :
                       ExpelCollaborator(u, kind)
                  \/ EnqueuePendingInvites(u)
             \/ \E d \in DiscordIds : ManualEdit(d)
             \/ LockExpires
      PROVE  UNCHANGED <<worker, steady, discordOf>>
  BY <1>3 DEF Provisioned, InviteCollaborator, ExpelCollaborator,
              EnqueuePendingInvites, ManualEdit, LockExpires, desiredVars
<1> QED BY <1>1, <1>2, <1>3, SteadyLink, SteadyStart, SteadyTask, SteadySweep
        DEF Next, RunStep

(* However requests, tasks and other sweeps interleave with a sweep, with   *)
(* or without locks and whatever fails, it never sets out to revoke the     *)
(* overwrite of a member that was there since it listed the rows.           *)
THEOREM SteadyMembersSpared == Spec => []SweepSparesSteadyMembers
<1>1. SteadyInv => SweepSparesSteadyMembers
  BY DEF SteadyInv, SteadyRun, SweepSparesSteadyMembers
<1> QED BY <1>1, TypeInit, TypeNext, SteadyInit, SteadyNext, PTL DEF Spec

-----------------------------------------------------------------------------
(* Only people who were invited have access *)

Invited(u, d) == <<u, d>> \in CanLink /\ row[u] # "none"

(* Whatever a run remembers of rows and accounts, however old, was true of  *)
(* people who were invited; rows are never deleted.                         *)
InvitedRun(w) ==
    /\ \A u \in worker[w].todo : row[u] # "none"
    /\ \A d \in DiscordIds : worker[w].desired[d] # None =>
         Invited(worker[w].desired[d], d)
    /\ worker[w].pc \in {"member", "join", "grant"} /\ worker[w].id # None =>
         <<worker[w].user, worker[w].id>> \in CanLink
    /\ worker[w].pc \in {"join", "grant"} => row[worker[w].user] # "none"

LinksAllowed ==
    \A u \in Users : discordOf[u] # None => <<u, discordOf[u]>> \in CanLink

InvitedInv ==
    /\ OnlyInvitedHaveAccess
    /\ LinksAllowed
    /\ \A w \in Workers : InvitedRun(w)

RowsKept == \A u \in Users : row[u] # "none" => row'[u] # "none"

LEMMA InvitedInit == Init => InvitedInv
<1> SUFFICES ASSUME Init PROVE InvitedInv
  OBVIOUS
<1>1. ASSUME NEW w \in Workers PROVE InvitedRun(w)
  <2>1. worker[w] = Idle
    BY DEF Init
  <2> QED BY <2>1, IdleType DEF InvitedRun
<1>2. OnlyInvitedHaveAccess
  BY DEF Init, OnlyInvitedHaveAccess
<1>3. LinksAllowed
  BY Zenon DEF Init, LinksAllowed
<1> QED BY <1>1, <1>2, <1>3 DEF InvitedInv

(* What a run knows stays true while the others work. *)
LEMMA InvitedFrame ==
  ASSUME TypeInv, NEW v \in Workers, InvitedRun(v), worker'[v] = worker[v],
         RowsKept
  PROVE  InvitedRun(v)'
<1>1. HandlerTyped(worker[v]) /\ worker[v] \in WorkerRec
  BY DEF TypeInv, HandlersTyped, Typed
<1>2. /\ worker[v].todo \subseteq Users
      /\ worker[v].desired \in [DiscordIds -> MaybeUser]
  BY <1>1 DEF WorkerRec
<1>3. worker[v].pc \in {"join", "grant"} => worker[v].user \in Users
  BY TaskStepUser DEF TaskSteps
<1>4. \A d \in DiscordIds : worker[v].desired[d] # None =>
        worker[v].desired[d] \in Users
  BY <1>2 DEF MaybeUser
<1> QED BY <1>2, <1>3, <1>4 DEF InvitedRun, Invited, RowsKept

LEMMA InvitedStep ==
  ASSUME TypeInv, InvitedInv, NEW w \in Workers, Others(w), RowsKept,
         UNCHANGED discordOf, OnlyInvitedHaveAccess', InvitedRun(w)'
  PROVE  InvitedInv'
<1>1. ASSUME NEW v \in Workers PROVE InvitedRun(v)'
  <2>1. CASE v = w
    BY <2>1
  <2>2. CASE v # w
    BY <2>2, InvitedFrame DEF InvitedInv, Others
  <2> QED BY <2>1, <2>2
<1>2. LinksAllowed'
  BY DEF InvitedInv, LinksAllowed
<1> QED BY <1>1, <1>2 DEF InvitedInv

(* No step but a grant or a re-application adds an overwrite. *)
LEMMA AccessKept ==
  ASSUME TypeInv, OnlyInvitedHaveAccess, RowsKept,
         overwrites' \subseteq overwrites
  PROVE  OnlyInvitedHaveAccess'
  BY DEF OnlyInvitedHaveAccess, RowsKept, TypeInv, DataTyped

LEMMA InvitedAPI ==
  ASSUME TypeInv, InvitedInv,
         \/ Provisioned
         \/ \E u \in Users :
              \/ InviteCollaborator(u)
              \/ \E kind \in TaskKinds \ {"invite"} :
                   ExpelCollaborator(u, kind)
              \/ \E d \in {e \in DiscordIds : <<u, e>> \in CanLink} :
                   LinkAccount(u, d)
              \/ EnqueuePendingInvites(u)
         \/ \E d \in DiscordIds : ManualEdit(d)
         \/ LockExpires
  PROVE  InvitedInv'
<1>1. UNCHANGED worker
  BY DEF Provisioned, InviteCollaborator, ExpelCollaborator, LinkAccount,
         EnqueuePendingInvites, ManualEdit, LockExpires
<1>2. RowsKept
  BY DEF Provisioned, InviteCollaborator, ExpelCollaborator, LinkAccount,
         EnqueuePendingInvites, ManualEdit, LockExpires, desiredVars,
         RowsKept, TypeInv, DataTyped
<1>3. \A w \in Workers : InvitedRun(w)'
  BY <1>1, <1>2, InvitedFrame DEF InvitedInv
<1>4. OnlyInvitedHaveAccess'
  <2>1. UNCHANGED overwrites \/ ManualEdits
    BY DEF Provisioned, InviteCollaborator, ExpelCollaborator, LinkAccount,
           EnqueuePendingInvites, ManualEdit, LockExpires, discordVars
  <2>2. CASE ManualEdits
    BY <2>2 DEF OnlyInvitedHaveAccess
  <2>3. CASE UNCHANGED overwrites
    BY <1>2, <2>3, AccessKept DEF InvitedInv
  <2> QED BY <2>1, <2>2, <2>3
<1>5. LinksAllowed'
  <2>1. CASE UNCHANGED discordOf
    BY <2>1 DEF InvitedInv, LinksAllowed
  <2>2. ASSUME NEW u \in Users, NEW d \in DiscordIds, <<u, d>> \in CanLink,
               discordOf' = [discordOf EXCEPT ![u] = d]
        PROVE  LinksAllowed'
    <3>1. discordOf \in [Users -> MaybeId]
      BY DEF TypeInv, DataTyped
    <3>2. discordOf'[u] = d /\ \A x \in Users \ {u} :
            discordOf'[x] = discordOf[x]
      BY <2>2, <3>1
    <3> QED BY <2>2, <3>2 DEF InvitedInv, LinksAllowed
  <2>3. \/ UNCHANGED discordOf
        \/ \E u \in Users :
             \E d \in {e \in DiscordIds : <<u, e>> \in CanLink} :
               discordOf' = [discordOf EXCEPT ![u] = d]
    BY DEF Provisioned, InviteCollaborator, ExpelCollaborator, LinkAccount,
           EnqueuePendingInvites, ManualEdit, LockExpires, desiredVars
  <2> QED BY <2>1, <2>2, <2>3
<1> QED BY <1>3, <1>4, <1>5 DEF InvitedInv

LEMMA InvitedStart ==
  ASSUME TypeInv, InvitedInv, NEW w \in Workers,
         \/ \E t \in waiting : StartTask(w, t)
         \/ StartSweep(w) \/ LeaseLost(w) \/ AcquireSpace(w)
  PROVE  InvitedInv'
<1>0. Typed /\ waiting \subseteq Task /\ InvitedRun(w)
  BY DEF TypeInv, DataTyped, InvitedInv
<1>1. UNCHANGED <<discordOf, row, overwrites>>
  BY DEF StartTask, StartSweep, LeaseLost, AcquireSpace, desiredVars,
         discordVars
<1>2. RowsKept /\ OnlyInvitedHaveAccess'
  BY <1>1, AccessKept DEF RowsKept, InvitedInv
<1>3. UNCHANGED worker \/ (Others(w) /\ InvitedRun(w)')
  <2>1. CASE LeaseLost(w)
    <3>1. UNCHANGED worker \/ Ended(w)
      BY <1>0, <2>1, EndEffect DEF LeaseLost
    <3> QED BY <3>1, IdleType DEF Ended, InvitedRun
  <2>2. CASE (\E t \in waiting : StartTask(w, t)) \/ StartSweep(w)
    <3>1. \E k, u : Started(w, k, u)
      BY <1>0, <2>2, StartTaskEffect, StartSweepEffect
    <3> QED BY <3>1 DEF Started, InvitedRun
  <2>3. CASE AcquireSpace(w)
    <3>1. \/ Ended(w)
          \/ \E p \in {"list", "user"} : Moved(w, p)
      BY <1>0, <2>3, AcquireEffects
    <3>2. CASE Ended(w)
      BY <3>2, IdleType DEF Ended, InvitedRun
    <3>3. CASE \E p \in {"list", "user"} : Moved(w, p)
      BY <1>0, <1>1, <3>3
         DEF Moved, SameTask, SameSweep, InvitedRun, Invited
    <3> QED BY <3>1, <3>2, <3>3
  <2> QED BY <2>1, <2>2, <2>3
<1>4. CASE UNCHANGED worker
  BY <1>1, <1>2, <1>4, InvitedStep, InvitedFrame DEF InvitedInv, Others
<1> QED BY <1>1, <1>2, <1>3, <1>4, InvitedStep

LEMMA InvitedTask ==
  ASSUME TypeInv, InvitedInv, NEW w \in Workers, TaskStep(w)
  PROVE  InvitedInv'
<1>2. /\ worker[w].user \in Users /\ Typed /\ InvitedRun(w)
      /\ discordOf \in [Users -> MaybeId]
      /\ worker[w] \in WorkerRec /\ HandlerTyped(worker[w])
  BY TaskStepEffects
     DEF TypeInv, DataTyped, InvitedInv, Typed, HandlersTyped
<1>3. RowsKept
  <2>1. \/ UNCHANGED row
        \/ row' = [row EXCEPT ![worker[w].user] = "revoked"]
    BY DEF TaskStep, InviteLoadUser, InviteLoadMember, JoinGuild, Grant,
           MarkApplied, ExpelLoadUser, ExpelLoadMember, DeleteOverwrite,
           KickMember, RevokeMember, desiredVars
  <2> QED BY <1>2, <2>1 DEF RowsKept, TypeInv, DataTyped
<1>4. UNCHANGED discordOf
  BY DEF TaskStep, InviteLoadUser, InviteLoadMember, JoinGuild, Grant,
         MarkApplied, ExpelLoadUser, ExpelLoadMember, DeleteOverwrite,
         KickMember, RevokeMember, desiredVars
<1>5. OnlyInvitedHaveAccess'
  <2>1. \/ overwrites' \subseteq overwrites
        \/ /\ worker[w].pc = "grant"
           /\ overwrites' = overwrites \cup {worker[w].id}
    BY DEF TaskStep, InviteLoadUser, InviteLoadMember, JoinGuild, Grant,
           MarkApplied, ExpelLoadUser, ExpelLoadMember, DeleteOverwrite,
           KickMember, RevokeMember, discordVars
  <2>2. CASE /\ worker[w].pc = "grant"
             /\ overwrites' = overwrites \cup {worker[w].id}
    <3>1. worker[w].id # None
      BY <1>2, <2>2 DEF HandlerTyped
    <3>2. /\ <<worker[w].user, worker[w].id>> \in CanLink
          /\ row'[worker[w].user] # "none"
      BY <1>2, <1>3, <2>2, <3>1 DEF InvitedRun, RowsKept
    <3> QED BY <1>2, <1>3, <2>2, <3>2
            DEF InvitedInv, OnlyInvitedHaveAccess, RowsKept
  <2> QED BY <1>3, <2>1, <2>2, AccessKept DEF InvitedInv
<1>6. Others(w) /\ InvitedRun(w)'
  <2>0. /\ worker[w].todo \subseteq Users
        /\ \A d \in DiscordIds : worker[w].desired[d] # None =>
             worker[w].desired[d] \in Users
    BY <1>2 DEF WorkerRec, MaybeUser
  <2>1. CASE Ended(w)
    BY <2>1, IdleType DEF Ended, InvitedRun
  <2>2. ASSUME SameSweep(w)
        PROVE  /\ \A u \in worker'[w].todo : row'[u] # "none"
               /\ \A d \in DiscordIds : worker'[w].desired[d] # None =>
                    /\ <<worker'[w].desired[d], d>> \in CanLink
                    /\ row'[worker'[w].desired[d]] # "none"
    BY <1>2, <1>3, <2>0, <2>2 DEF SameSweep, InvitedRun, Invited, RowsKept
  <2>3. CASE Loaded(w)
    BY <1>2, <2>2, <2>3
       DEF Loaded, InvitedRun, Invited, InvitedInv, LinksAllowed
  <2>4. ASSUME NEW p \in {"mark", "delete", "kick", "revoke"}, Moved(w, p)
        PROVE  Others(w) /\ InvitedRun(w)'
    BY <2>2, <2>4 DEF Moved, InvitedRun, Invited
  <2>5. ASSUME NEW p \in {"join", "grant"}, Moved(w, p),
               row[worker[w].user] # "none",
               worker[w].pc \in {"member", "join", "grant"}
        PROVE  Others(w) /\ InvitedRun(w)'
    BY <1>2, <1>3, <2>2, <2>5
       DEF Moved, SameTask, InvitedRun, Invited, RowsKept
  <2>6. InviteLoadMember(w) => worker[w].pc = "member"
          /\ (Ended(w) \/ (row[worker[w].user] # "none" /\ Moved(w, "join")))
    <3> SUFFICES ASSUME InviteLoadMember(w)
                 PROVE  worker[w].pc = "member" /\ (Ended(w) \/
                          (row[worker[w].user] # "none" /\ Moved(w, "join")))
      OBVIOUS
    <3>1. /\ worker[w].pc = "member"
          /\ \/ worker' = [worker EXCEPT ![w] = Idle]
             \/ /\ row[worker[w].user] # "none"
                /\ worker' = [worker EXCEPT ![w].pc = "join"]
      BY DEF InviteLoadMember, ToApply, ReturnOK, ReturnError, End
    <3> QED BY <1>2, <3>1, GotoEffect, EndEffect DEF Steps
  <2>7. JoinGuild(w) => worker[w].pc = "join" /\ row[worker[w].user] # "none"
    BY <1>2 DEF JoinGuild, InvitedRun
  <2> QED BY <1>2, <2>1, <2>3, <2>4, <2>5, <2>6, <2>7, InviteEffects,
             ExpelEffects DEF TaskStep
<1> QED BY <1>3, <1>4, <1>5, <1>6, InvitedStep

LEMMA InvitedSweep ==
  ASSUME TypeInv, InvitedInv, NEW w \in Workers, SweepStep(w)
  PROVE  InvitedInv'
<1>1. /\ InvitedRun(w) /\ HandlerTyped(worker[w]) /\ worker[w] \in WorkerRec
      /\ Typed /\ discordOf \in [Users -> MaybeId] /\ LinksAllowed
      /\ overwrites \in SUBSET DiscordIds
  BY DEF InvitedInv, TypeInv, HandlersTyped, DataTyped, Typed
<1>2. /\ worker[w].todo \subseteq Users /\ worker[w].prune \subseteq DiscordIds
      /\ worker[w].reapply \subseteq DiscordIds
      /\ worker[w].desired \in [DiscordIds -> MaybeUser]
  BY <1>1 DEF WorkerRec
<1>3. UNCHANGED <<discordOf, row>>
  BY DEF SweepStep, ListMembers, ResolveMember, ReadOverwrites,
         PruneOverwrite, ReapplyOverwrite, MarkReapplied, EndSweep,
         desiredVars
<1>4. RowsKept
  BY <1>3 DEF RowsKept
<1>5. OnlyInvitedHaveAccess'
  <2>1. \/ overwrites' \subseteq overwrites
        \/ \E d \in worker[w].reapply : overwrites' = overwrites \cup {d}
    BY DEF SweepStep, ListMembers, ResolveMember, ReadOverwrites,
           PruneOverwrite, ReapplyOverwrite, MarkReapplied, EndSweep,
           discordVars
  <2>2. ASSUME NEW d \in worker[w].reapply, overwrites' = overwrites \cup {d}
        PROVE  OnlyInvitedHaveAccess'
    <3>1. worker[w].desired[d] \in Users /\ worker[w].desired[d] # None
      BY <1>1, <1>2 DEF HandlerTyped, MaybeUser
    <3>2. Invited(worker[w].desired[d], d)
      BY <1>1, <1>2, <3>1 DEF InvitedRun
    <3> QED BY <1>3, <2>2, <3>1, <3>2
            DEF InvitedInv, OnlyInvitedHaveAccess, Invited
  <2> QED BY <1>4, <2>1, <2>2, AccessKept DEF InvitedInv
<1>6. Others(w) /\ InvitedRun(w)'
  <2>1. CASE Ended(w)
    BY <2>1, IdleType DEF Ended, InvitedRun
  <2>2. ASSUME worker'[w].pc \in SweepSteps, Others(w),
               worker'[w].todo \subseteq worker[w].todo,
               worker'[w].desired = worker[w].desired
        PROVE  Others(w) /\ InvitedRun(w)'
    BY <1>1, <1>3, <2>2 DEF InvitedRun, Invited, SweepSteps
  <2>3. CASE Listed(w)
    BY <1>1, <1>3, <2>3 DEF Listed, InvitedRun, Invited, Active
  <2>4. ASSUME NEW u \in worker[w].todo, Resolved(w, u)
        PROVE  Others(w) /\ InvitedRun(w)'
    <3>1. ASSUME NEW d \in DiscordIds, worker'[w].desired[d] # None
          PROVE  /\ <<worker'[w].desired[d], d>> \in CanLink
                 /\ row'[worker'[w].desired[d]] # "none"
      <4>1. CASE discordOf[u] = d
        <5>1. worker'[w].desired[d] = u
          BY <1>2, <2>4, <4>1 DEF Resolved
        <5>2. <<u, d>> \in CanLink /\ row[u] # "none"
          BY <1>1, <1>2, <4>1 DEF LinksAllowed, InvitedRun
        <5> QED BY <1>3, <5>1, <5>2
      <4>2. CASE discordOf[u] # d
        <5>1. worker'[w].desired[d] = worker[w].desired[d]
          BY <1>2, <2>4, <4>2 DEF Resolved
        <5> QED BY <1>1, <1>3, <3>1, <5>1 DEF Invited, InvitedRun
      <4> QED BY <4>1, <4>2
    <3> QED BY <1>1, <1>3, <2>4, <3>1 DEF Resolved, InvitedRun, Invited
  <2>5. CASE Compared(w)
    BY <2>2, <2>5 DEF Compared, SweepSteps
  <2>6. ASSUME NEW d \in DiscordIds, Pruned(w, d)
        PROVE  Others(w) /\ InvitedRun(w)'
    BY <2>2, <2>6 DEF Pruned, SweepSteps
  <2>7. ASSUME NEW d \in DiscordIds,
               \/ Reapplied(w, d, "remark", worker[w].desired[d])
               \/ Reapplied(w, d, "repair", worker[w].user)
        PROVE  Others(w) /\ InvitedRun(w)'
    BY <2>2, <2>7 DEF Reapplied, SweepSteps
  <2>8. CASE Remarked(w)
    BY <2>2, <2>8 DEF Remarked, SameSweep, SweepSteps
  <2>9. \/ Ended(w) \/ Listed(w) \/ Compared(w) \/ Remarked(w)
        \/ \E u \in worker[w].todo : Resolved(w, u)
        \/ \E d \in DiscordIds : Pruned(w, d)
        \/ \E d \in DiscordIds :
             \/ Reapplied(w, d, "remark", worker[w].desired[d])
             \/ Reapplied(w, d, "repair", worker[w].user)
    BY SweepStepEffects
  <2> QED BY <2>1, <2>3, <2>4, <2>5, <2>6, <2>7, <2>8, <2>9
<1> QED BY <1>3, <1>4, <1>5, <1>6, InvitedStep

LEMMA InvitedNext == TypeInv /\ InvitedInv /\ [Next]_vars => InvitedInv'
<1> SUFFICES ASSUME TypeInv, InvitedInv, [Next]_vars PROVE InvitedInv'
  OBVIOUS
<1>1. CASE UNCHANGED vars
  BY <1>1 DEF vars, desiredVars, discordVars, InvitedInv, InvitedRun,
              Invited, LinksAllowed, OnlyInvitedHaveAccess
<1>2. CASE Next
  BY <1>2, InvitedAPI, InvitedStart, InvitedTask, InvitedSweep
     DEF Next, RunStep
<1> QED BY <1>1, <1>2

(* Unless staff edit the channel by hand, every overwrite is of an account  *)
(* that somebody who was invited can log in to: no task that outlives its   *)
(* row or its link, and no sweep with a stale list, opens the channel to    *)
(* anyone else, with or without locks.                                      *)
THEOREM InvitedOnly == Spec => []OnlyInvitedHaveAccess
<1>1. InvitedInv => OnlyInvitedHaveAccess
  BY DEF InvitedInv
<1> QED BY <1>1, TypeInit, TypeNext, InvitedInit, InvitedNext, PTL DEF Spec

-----------------------------------------------------------------------------
(* With the per-space lock, sweeps act on current rows *)

Running(w) == worker[w].pc \notin {"idle", "acquire"}

(* Whoever has passed AcquireSpace holds the lock: runs exclude each other. *)
LockInv == \A w \in Workers : Running(w) => lock = w

LEMMA LockInit == Init => LockInv
  BY IdleType DEF Init, LockInv, Running

(* A step of w that leaves the lock alone, or ends the run. *)
LEMMA LockStep ==
  ASSUME LockInv, NEW w \in Workers, Others(w),
         \/ UNCHANGED lock /\ (Running(w) \/ ~Running(w)')
         \/ End(w) /\ ~Running(w)'
  PROVE  LockInv'
<1> SUFFICES ASSUME NEW v \in Workers, Running(v)' PROVE lock' = v
  BY DEF LockInv
<1>1. CASE v = w
  BY <1>1 DEF LockInv
<1>2. CASE v # w
  <2>1. lock = v
    BY <1>2 DEF LockInv, Others, Running
  <2>2. ~Holds(w)
    BY <1>2, <2>1 DEF Holds
  <2> QED BY <2>1, <2>2 DEF End
<1> QED BY <1>1, <1>2

LEMMA LockNext ==
  ASSUME Locking = TRUE, Expiry = FALSE
  PROVE  TypeInv /\ LockInv /\ [Next]_vars => LockInv'
<1> SUFFICES ASSUME TypeInv, LockInv, [Next]_vars PROVE LockInv'
  OBVIOUS
<1>0. /\ Typed /\ waiting \subseteq Task /\ discordOf \in [Users -> MaybeId]
      /\ overwrites \in SUBSET DiscordIds
  BY DEF TypeInv, DataTyped
<1>1. CASE UNCHANGED <<worker, lock>>
  BY <1>1 DEF LockInv, Running
<1>2. ASSUME \/ UNCHANGED vars
             \/ Provisioned
             \/ \E u \in Users :
                  \/ InviteCollaborator(u)
                  \/ \E kind \in TaskKinds \ {"invite"} :
                       ExpelCollaborator(u, kind)
                  \/ \E d \in {e \in DiscordIds : <<u, e>> \in CanLink} :
                       LinkAccount(u, d)
                  \/ EnqueuePendingInvites(u)
             \/ \E d \in DiscordIds : ManualEdit(d)
      PROVE  UNCHANGED <<worker, lock>>
  BY <1>2 DEF Provisioned, InviteCollaborator, ExpelCollaborator, LinkAccount,
              EnqueuePendingInvites, ManualEdit, vars
<1>3. CASE LockExpires
  <2>1. ASSUME NEW w \in Workers, Running(w) PROVE FALSE
    <3>1. lock = w
      BY <2>1 DEF LockInv
    <3> QED BY <1>3, <2>1, <3>1 DEF LockExpires, Holds, Locks, Running
  <2> QED BY <1>3, <2>1 DEF LockExpires, LockInv, Running
<1>4. ASSUME NEW w \in Workers,
             (\E t \in waiting : StartTask(w, t)) \/ StartSweep(w)
      PROVE  LockInv'
  <2>1. \E k, u : Started(w, k, u)
    BY <1>0, <1>4, StartTaskEffect, StartSweepEffect
  <2>2. Others(w) /\ ~Running(w)' /\ UNCHANGED lock
    BY <1>4, <2>1 DEF Started, Running, StartTask, StartSweep
  <2> QED BY <2>2, LockStep
<1>5. ASSUME NEW w \in Workers, LeaseLost(w) PROVE LockInv'
  <2>1. UNCHANGED lock /\ (UNCHANGED worker \/ Ended(w))
    BY <1>0, <1>5, EndEffect DEF LeaseLost
  <2>2. CASE Ended(w)
    <3>1. ~Running(w)' /\ Others(w)
      BY <2>2, IdleType DEF Ended, Running
    <3> QED BY <2>1, <3>1, LockStep
  <2> QED BY <1>1, <2>1, <2>2
<1>6. ASSUME NEW w \in Workers, AcquireSpace(w) PROVE LockInv'
  <2>1. Others(w)
    BY <1>0, <1>6, AcquireEffects DEF Ended, Moved
  <2>2. CASE lock = None /\ lock' = w
    BY <2>1, <2>2 DEF LockInv, Running, Others
  <2>3. CASE worker' = [worker EXCEPT ![w] = Idle] /\ UNCHANGED lock
    <3>1. ~Running(w)'
      BY <1>0, <2>3, EndEffect, IdleType DEF Ended, Running
    <3> QED BY <2>1, <2>3, <3>1, LockStep
  <2> QED BY <1>6, <2>2, <2>3 DEF AcquireSpace, Locks
<1>7. ASSUME NEW w \in Workers, TaskStep(w) \/ SweepStep(w) PROVE LockInv'
  <2>1. Running(w)
    BY <1>7, TaskStepEffects, SweepStepEffects
       DEF Running, TaskSteps, SweepSteps
  <2>2. UNCHANGED lock \/ End(w)
    BY <1>7 DEF TaskStep, InviteLoadUser, InviteLoadMember, JoinGuild, Grant,
                MarkApplied, ExpelLoadUser, ExpelLoadMember, DeleteOverwrite,
                KickMember, RevokeMember, SweepStep, ListMembers,
                ResolveMember, ReadOverwrites, PruneOverwrite,
                ReapplyOverwrite, MarkReapplied, EndSweep, ReturnOK,
                ReturnError
  <2>3. Others(w)
    BY <1>7, TaskStepEffects, SweepStepEffects
       DEF Ended, Loaded, Moved, Listed, Resolved, Compared, Pruned,
           Reapplied, Remarked
  <2>4. CASE UNCHANGED lock
    BY <2>1, <2>3, <2>4, LockStep
  <2>5. CASE End(w)
    <3>1. ~Running(w)'
      BY <1>0, <2>5, EndEffect, IdleType DEF End, Ended, Running
    <3> QED BY <2>3, <2>5, <3>1, LockStep
  <2> QED BY <2>2, <2>4, <2>5
<1> QED BY <1>1, <1>2, <1>3, <1>4, <1>5, <1>6, <1>7 DEF Next, RunStep

(* What a sweep remembers of the rows is true now. *)
CurrentRun(w) ==
    /\ worker[w].pc \notin Sweeping =>
         /\ worker[w].todo = {}
         /\ \A d \in DiscordIds : worker[w].desired[d] = None
    /\ \A u \in worker[w].todo : row[u] = "active"
    /\ \A d \in DiscordIds : worker[w].desired[d] # None =>
         row[worker[w].desired[d]] = "active"

CurrentInv == \A w \in Workers : CurrentRun(w)

LEMMA CurrentInit == Init => CurrentInv
<1> SUFFICES ASSUME Init, NEW w \in Workers PROVE CurrentRun(w)
  BY DEF CurrentInv
<1>1. worker[w] = Idle
  BY DEF Init
<1> QED BY <1>1, IdleType DEF CurrentRun

(* A run knows no more than before and no row is revoked, or it knows       *)
(* nothing.                                                                 *)
LEMMA CurrentFrame ==
  ASSUME TypeInv, NEW v \in Workers, CurrentRun(v), worker'[v] = worker[v],
         \/ worker[v].pc \notin Sweeping
         \/ \A u \in Users : row[u] = "active" => row'[u] = "active"
  PROVE  CurrentRun(v)'
<1>1. /\ worker[v].todo \subseteq Users
      /\ worker[v].desired \in [DiscordIds -> MaybeUser]
  BY DEF TypeInv, Typed, WorkerRec
<1>2. \A d \in DiscordIds : worker[v].desired[d] # None =>
        worker[v].desired[d] \in Users
  BY <1>1 DEF MaybeUser
<1> QED BY <1>1, <1>2 DEF CurrentRun

LEMMA CurrentStep ==
  ASSUME TypeInv, CurrentInv, NEW w \in Workers, Others(w), CurrentRun(w)',
         \/ \A v \in Workers \ {w} : worker[v].pc \notin Sweeping
         \/ UNCHANGED row
  PROVE  CurrentInv'
<1> SUFFICES ASSUME NEW v \in Workers PROVE CurrentRun(v)'
  BY DEF CurrentInv
<1>1. CASE v = w
  BY <1>1
<1>2. CASE v # w
  BY <1>2, CurrentFrame DEF CurrentInv, Others
<1> QED BY <1>1, <1>2

LEMMA CurrentSweep ==
  ASSUME TypeInv, CurrentInv, NEW w \in Workers, SweepStep(w)
  PROVE  CurrentInv'
<1>1. CurrentRun(w)
  BY DEF CurrentInv
<1>2. /\ worker[w].todo \subseteq Users
      /\ worker[w].desired \in [DiscordIds -> MaybeUser]
  BY DEF TypeInv, Typed, WorkerRec
<1>3. UNCHANGED row
  BY DEF SweepStep, ListMembers, ResolveMember, ReadOverwrites,
         PruneOverwrite, ReapplyOverwrite, MarkReapplied, EndSweep,
         desiredVars
<1>4. CASE Ended(w)
  <2>1. CurrentRun(w)'
    BY <1>4, IdleType DEF Ended, CurrentRun
  <2> QED BY <1>3, <1>4, <2>1, CurrentStep DEF Ended
<1>5. CASE Listed(w)
  <2>1. CurrentRun(w)'
    BY <1>1, <1>3, <1>5 DEF Listed, CurrentRun, Active, Sweeping
  <2> QED BY <1>3, <1>5, <2>1, CurrentStep DEF Listed
<1>6. ASSUME NEW u \in worker[w].todo, Resolved(w, u) PROVE CurrentInv'
  <2>1. ASSUME NEW d \in DiscordIds, worker'[w].desired[d] # None
        PROVE  row[worker'[w].desired[d]] = "active"
    <3>1. CASE discordOf[u] = d
      <4>1. worker'[w].desired[d] = u
        BY <1>2, <1>6, <3>1 DEF Resolved
      <4> QED BY <1>1, <4>1 DEF CurrentRun
    <3>2. CASE discordOf[u] # d
      <4>1. worker'[w].desired[d] = worker[w].desired[d]
        BY <1>2, <1>6, <3>2 DEF Resolved
      <4> QED BY <1>1, <2>1, <4>1 DEF CurrentRun
    <3> QED BY <3>1, <3>2
  <2>2. CurrentRun(w)'
    BY <1>1, <1>3, <1>6, <2>1 DEF Resolved, CurrentRun, Sweeping
  <2> QED BY <1>3, <1>6, <2>2, CurrentStep DEF Resolved
<1>7. ASSUME Others(w), worker'[w].pc \in Sweeping,
             worker'[w].todo = worker[w].todo,
             worker'[w].desired = worker[w].desired
      PROVE  CurrentInv'
  <2>1. CurrentRun(w)'
    BY <1>1, <1>3, <1>7 DEF CurrentRun
  <2> QED BY <1>3, <1>7, <2>1, CurrentStep
<1>8. CASE Compared(w)
  BY <1>7, <1>8 DEF Compared, Sweeping
<1>9. ASSUME NEW d, Pruned(w, d) PROVE CurrentInv'
  BY <1>7, <1>9 DEF Pruned, Sweeping
<1>10. ASSUME NEW d, \/ Reapplied(w, d, "remark", worker[w].desired[d])
                     \/ Reapplied(w, d, "repair", worker[w].user)
       PROVE  CurrentInv'
  BY <1>7, <1>10 DEF Reapplied, Sweeping
<1>11. CASE Remarked(w)
  BY <1>7, <1>11 DEF Remarked, SameSweep, Sweeping
<1> QED BY <1>4, <1>5, <1>6, <1>8, <1>9, <1>10, <1>11, SweepStepEffects

LEMMA CurrentNext ==
  TypeInv /\ LockInv /\ CurrentInv /\ [Next]_vars => CurrentInv'
<1> SUFFICES ASSUME TypeInv, LockInv, CurrentInv, [Next]_vars
             PROVE  CurrentInv'
  OBVIOUS
<1>0. Typed /\ waiting \subseteq Task
  BY DEF TypeInv, DataTyped
<1>1. ASSUME UNCHANGED worker,
             \A u \in Users : row[u] = "active" => row'[u] = "active"
      PROVE  CurrentInv'
  BY <1>1, CurrentFrame DEF CurrentInv
<1>2. CASE \/ UNCHANGED vars
           \/ Provisioned
           \/ \E u \in Users :
                \/ InviteCollaborator(u)
                \/ \E kind \in TaskKinds \ {"invite"} :
                     ExpelCollaborator(u, kind)
                \/ \E d \in {e \in DiscordIds : <<u, e>> \in CanLink} :
                     LinkAccount(u, d)
                \/ EnqueuePendingInvites(u)
           \/ \E d \in DiscordIds : ManualEdit(d)
           \/ LockExpires
  <2>1. /\ UNCHANGED worker
        /\ \/ UNCHANGED row
           \/ \E u \in Users :
                row' = [row EXCEPT ![u] = IF @ = "none" THEN "active" ELSE @]
    BY <1>2 DEF vars, Provisioned, InviteCollaborator, ExpelCollaborator,
                LinkAccount, EnqueuePendingInvites, ManualEdit, LockExpires,
                desiredVars
  <2>2. \A u \in Users : row[u] = "active" => row'[u] = "active"
    BY <2>1 DEF TypeInv, DataTyped
  <2> QED BY <1>1, <2>1, <2>2
<1>3. ASSUME NEW w \in Workers, UNCHANGED row,
             \/ Ended(w) \/ \E k, u : Started(w, k, u)
             \/ worker[w].pc = "acquire" /\ Moved(w, "list")
             \/ worker[w].pc = "acquire" /\ Moved(w, "user")
      PROVE  CurrentInv'
  <2>1. CurrentRun(w)
    BY DEF CurrentInv
  <2>2. CurrentRun(w)' /\ Others(w)
    BY <1>3, <2>1, IdleType
       DEF Ended, Started, Moved, SameSweep, CurrentRun, Sweeping
  <2> QED BY <1>3, <2>2, CurrentStep
<1>4. ASSUME NEW w \in Workers,
             \/ \E t \in waiting : StartTask(w, t)
             \/ StartSweep(w) \/ LeaseLost(w) \/ AcquireSpace(w)
      PROVE  CurrentInv'
  <2>0. UNCHANGED row
    BY <1>4 DEF StartTask, StartSweep, LeaseLost, AcquireSpace, desiredVars
  <2>1. CASE LeaseLost(w)
    <3>1. UNCHANGED worker \/ Ended(w)
      BY <1>0, <2>1, EndEffect DEF LeaseLost
    <3> QED BY <1>1, <1>3, <2>0, <3>1
  <2>2. CASE (\E t \in waiting : StartTask(w, t)) \/ StartSweep(w)
    <3>1. \E k, u : Started(w, k, u)
      BY <1>0, <2>2, StartTaskEffect, StartSweepEffect
    <3> QED BY <1>3, <2>0, <3>1
  <2>3. CASE AcquireSpace(w)
    <3>1. worker[w].pc = "acquire"
          /\ (Ended(w) \/ Moved(w, "list") \/ Moved(w, "user"))
      BY <1>0, <2>3, AcquireEffects DEF AcquireSpace
    <3> QED BY <1>3, <2>0, <3>1
  <2> QED BY <1>4, <2>1, <2>2, <2>3
<1>5. ASSUME NEW w \in Workers, TaskStep(w) PROVE CurrentInv'
  <2>1. /\ worker[w].pc \in TaskSteps
        /\ \/ Ended(w) \/ Loaded(w)
           \/ \E p \in {"join", "grant", "mark", "delete", "kick", "revoke"} :
                Moved(w, p)
    BY <1>5, TaskStepEffects
  <2>2. \A v \in Workers \ {w} : worker[v].pc \notin Sweeping
    BY <2>1 DEF LockInv, Running, TaskSteps, Sweeping
  <2>3. worker[w].pc \notin Sweeping /\ CurrentRun(w)
    BY <2>1 DEF TaskSteps, Sweeping, CurrentInv
  <2>4. Others(w) /\ CurrentRun(w)'
    BY <2>1, <2>3, IdleType
       DEF Ended, Loaded, Moved, SameSweep, CurrentRun, Sweeping
  <2> QED BY <2>2, <2>4, CurrentStep
<1> QED BY <1>2, <1>4, <1>5, CurrentSweep DEF Next, RunStep

(* If invite and expel were given the lock, and runs ended before its TTL,  *)
(* a sweep would re-apply only the overwrites of members who are active at  *)
(* that moment.                                                             *)
THEOREM ReappliesActive ==
  ASSUME Locking = TRUE, Expiry = FALSE
  PROVE  Spec => []SweepReappliesActive
<1>1. TypeInv /\ CurrentInv => SweepReappliesActive
  <2> SUFFICES ASSUME TypeInv, CurrentInv, NEW w \in Workers,
                      NEW d \in worker[w].reapply
               PROVE  row[worker[w].desired[d]] = "active"
    BY DEF SweepReappliesActive
  <2>1. d \in DiscordIds /\ worker[w].desired[d] # None
    BY DEF TypeInv, Typed, WorkerRec, HandlersTyped, HandlerTyped
  <2> QED BY <2>1 DEF CurrentInv, CurrentRun
<1> QED BY <1>1, TypeInit, TypeNext, LockInit, LockNext, CurrentInit,
           CurrentNext, PTL DEF Spec

-----------------------------------------------------------------------------
(* With the per-space lock, sweeps revoke only what no row backs *)

(* Everyone has one account, and nobody else can log in to it. *)
OneAccountEach ==
    \A u, v \in Users, d, e \in DiscordIds :
        <<u, d>> \in CanLink /\ <<v, e>> \in CanLink => (u = v <=> d = e)

(* Then a link, once made, stays: overwrites and what runs remember of      *)
(* accounts belong to users that are linked now.                            *)
LinkedRun(w) ==
    /\ worker[w].pc \in {"member", "join", "grant"} /\ worker[w].id # None =>
         discordOf[worker[w].user] = worker[w].id
    /\ \A d \in DiscordIds : worker[w].desired[d] # None =>
         discordOf[worker[w].desired[d]] = d

LinkedInv ==
    /\ \A d \in overwrites :
         \E u \in Users : discordOf[u] = d /\ row[u] # "none"
    /\ \A w \in Workers : LinkedRun(w)

LinksKept ==
    \A u \in Users : discordOf[u] # None => discordOf'[u] = discordOf[u]

LEMMA LinkedInit == Init => LinkedInv
<1> SUFFICES ASSUME Init PROVE LinkedInv
  OBVIOUS
<1>1. ASSUME NEW w \in Workers PROVE LinkedRun(w)
  <2>1. worker[w] = Idle
    BY DEF Init
  <2> QED BY <2>1, IdleType DEF LinkedRun
<1>2. overwrites = {}
  BY DEF Init
<1> QED BY <1>1, <1>2 DEF LinkedInv

(* No step undoes a link. *)
LEMMA NextKeepsLinks ==
  ASSUME OneAccountEach, TypeInv, LinksAllowed, [Next]_vars
  PROVE  LinksKept
<1>1. discordOf \in [Users -> MaybeId]
  BY DEF TypeInv, DataTyped
<1>2. ASSUME NEW u \in Users,
             NEW d \in {e \in DiscordIds : <<u, e>> \in CanLink},
             LinkAccount(u, d)
      PROVE  LinksKept
  <2>1. CASE UNCHANGED discordOf
    BY <2>1 DEF LinksKept
  <2>2. CASE discordOf' = [discordOf EXCEPT ![u] = d]
    <3>1. discordOf[u] # None => discordOf[u] = d
      BY <1>1, <1>2 DEF LinksAllowed, OneAccountEach, MaybeId
    <3> QED BY <1>1, <2>2, <3>1 DEF LinksKept
  <2> QED BY <1>2, <2>1, <2>2 DEF LinkAccount
<1>3. ASSUME NEW w \in Workers, RunStep(w) PROVE UNCHANGED discordOf
  BY <1>3 DEF RunStep, AcquireSpace, TaskStep, InviteLoadUser,
       InviteLoadMember, JoinGuild, Grant, MarkApplied, ExpelLoadUser,
       ExpelLoadMember, DeleteOverwrite, KickMember, RevokeMember, SweepStep,
       ListMembers, ResolveMember, ReadOverwrites, PruneOverwrite,
       ReapplyOverwrite, MarkReapplied, EndSweep, desiredVars
<1>4. CASE UNCHANGED discordOf
  BY <1>4 DEF LinksKept
<1> QED BY <1>2, <1>3, <1>4
        DEF Next, vars, Provisioned, InviteCollaborator, ExpelCollaborator,
            EnqueuePendingInvites, ManualEdit, StartTask, StartSweep,
            LeaseLost, LockExpires, desiredVars

LEMMA NextKeepsRows ==
  ASSUME TypeInv, [Next]_vars PROVE RowsKept
<1>1. row \in [Users -> {"none", "active", "revoked"}]
  BY DEF TypeInv, DataTyped
<1>2. ASSUME NEW u \in Users, InviteCollaborator(u) PROVE RowsKept
  BY <1>1, <1>2 DEF InviteCollaborator, RowsKept
<1>3. ASSUME NEW w \in Workers, RevokeMember(w) PROVE RowsKept
  BY <1>1, <1>3 DEF RevokeMember, RowsKept
<1>4. ASSUME NEW w \in Workers, RunStep(w) PROVE UNCHANGED row \/ RowsKept
  BY <1>3, <1>4 DEF RunStep, AcquireSpace, TaskStep, InviteLoadUser,
       InviteLoadMember, JoinGuild, Grant, MarkApplied, ExpelLoadUser,
       ExpelLoadMember, DeleteOverwrite, KickMember, SweepStep,
       ListMembers, ResolveMember, ReadOverwrites, PruneOverwrite,
       ReapplyOverwrite, MarkReapplied, EndSweep, desiredVars
<1>5. CASE UNCHANGED row
  BY <1>5 DEF RowsKept
<1> QED BY <1>2, <1>4, <1>5
        DEF Next, vars, Provisioned, ExpelCollaborator, LinkAccount,
            EnqueuePendingInvites, ManualEdit, StartTask, StartSweep,
            LeaseLost, LockExpires, desiredVars

(* What becomes of the overwrites in a step. *)
LEMMA OverwriteEffects ==
  ASSUME ManualEdits = FALSE, [Next]_vars
  PROVE  \/ overwrites' \subseteq overwrites
         \/ \E w \in Workers :
              /\ TaskStep(w) /\ worker[w].pc = "grant"
              /\ overwrites' = overwrites \cup {worker[w].id}
         \/ \E w \in Workers : \E d \in worker[w].reapply :
              /\ SweepStep(w) /\ worker[w].pc = "repair"
              /\ worker[w].prune = {}
              /\ overwrites' = overwrites \cup {d}
<1>1. ASSUME NEW w \in Workers, TaskStep(w)
      PROVE  \/ overwrites' \subseteq overwrites
             \/ /\ worker[w].pc = "grant"
                /\ overwrites' = overwrites \cup {worker[w].id}
  BY <1>1 DEF TaskStep, InviteLoadUser, InviteLoadMember, JoinGuild, Grant,
              MarkApplied, ExpelLoadUser, ExpelLoadMember, DeleteOverwrite,
              KickMember, RevokeMember, discordVars
<1>2. ASSUME NEW w \in Workers, SweepStep(w)
      PROVE  \/ overwrites' \subseteq overwrites
             \/ \E d \in worker[w].reapply :
                  /\ worker[w].pc = "repair" /\ worker[w].prune = {}
                  /\ overwrites' = overwrites \cup {d}
  BY <1>2 DEF SweepStep, ListMembers, ResolveMember, ReadOverwrites,
              PruneOverwrite, ReapplyOverwrite, MarkReapplied, EndSweep,
              discordVars
<1>3. ASSUME \/ UNCHANGED vars
             \/ Provisioned
             \/ \E u \in Users :
                  \/ InviteCollaborator(u)
                  \/ \E kind \in TaskKinds \ {"invite"} :
                       ExpelCollaborator(u, kind)
                  \/ \E d \in {e \in DiscordIds : <<u, e>> \in CanLink} :
                       LinkAccount(u, d)
                  \/ EnqueuePendingInvites(u)
             \/ \E d \in DiscordIds : ManualEdit(d)
             \/ \E w \in Workers :
                  \/ \E t \in waiting : StartTask(w, t)
                  \/ StartSweep(w) \/ AcquireSpace(w) \/ LeaseLost(w)
             \/ LockExpires
      PROVE  UNCHANGED overwrites
  BY <1>3 DEF vars, Provisioned, InviteCollaborator, ExpelCollaborator,
              LinkAccount, EnqueuePendingInvites, ManualEdit, StartTask,
              StartSweep, AcquireSpace, LeaseLost, LockExpires, discordVars
<1> QED BY <1>1, <1>2, <1>3 DEF Next, RunStep

(* What becomes of a goroutine in a step. *)
LEMMA WorkerEffects ==
  ASSUME TypeInv, [Next]_vars
  PROVE  \/ UNCHANGED worker
         \/ \E w \in Workers :
              /\ Others(w)
              /\ \/ Ended(w) \/ \E k, u : Started(w, k, u)
                 \/ /\ AcquireSpace(w) /\ worker[w].pc = "acquire"
                    /\ \E p \in {"list", "user"} : Moved(w, p)
                 \/ TaskStep(w) \/ SweepStep(w)
<1>1. Typed /\ waiting \subseteq Task
  BY DEF TypeInv, DataTyped
<1>2. ASSUME NEW w \in Workers, TaskStep(w) PROVE Others(w)
  BY <1>2, TaskStepEffects DEF Ended, Loaded, Moved
<1>3. ASSUME NEW w \in Workers, SweepStep(w) PROVE Others(w)
  BY <1>3, SweepStepEffects
     DEF Ended, Listed, Resolved, Compared, Pruned, Reapplied, Remarked
<1>4. ASSUME NEW w \in Workers, AcquireSpace(w)
      PROVE  /\ Others(w) /\ worker[w].pc = "acquire"
             /\ Ended(w) \/ \E p \in {"list", "user"} : Moved(w, p)
  <2>1. Ended(w) \/ \E p \in {"list", "user"} : Moved(w, p)
    BY <1>1, <1>4, AcquireEffects
  <2> QED BY <1>4, <2>1 DEF AcquireSpace, Ended, Moved
<1>5. ASSUME NEW w \in Workers,
             (\E t \in waiting : StartTask(w, t)) \/ StartSweep(w)
      PROVE  Others(w) /\ \E k, u : Started(w, k, u)
  <2>1. \E k, u : Started(w, k, u)
    BY <1>1, <1>5, StartTaskEffect, StartSweepEffect
  <2> QED BY <2>1 DEF Started
<1>6. ASSUME NEW w \in Workers, LeaseLost(w)
      PROVE  UNCHANGED worker \/ (Others(w) /\ Ended(w))
  <2>1. UNCHANGED worker \/ Ended(w)
    BY <1>1, <1>6, EndEffect DEF LeaseLost
  <2> QED BY <2>1 DEF Ended
<1>7. ASSUME \/ UNCHANGED vars
             \/ Provisioned
             \/ \E u \in Users :
                  \/ InviteCollaborator(u)
                  \/ \E kind \in TaskKinds \ {"invite"} :
                       ExpelCollaborator(u, kind)
                  \/ \E d \in {e \in DiscordIds : <<u, e>> \in CanLink} :
                       LinkAccount(u, d)
                  \/ EnqueuePendingInvites(u)
             \/ \E d \in DiscordIds : ManualEdit(d)
             \/ LockExpires
      PROVE  UNCHANGED worker
  BY <1>7 DEF vars, Provisioned, InviteCollaborator, ExpelCollaborator,
              LinkAccount, EnqueuePendingInvites, ManualEdit, LockExpires
<1> QED BY <1>2, <1>3, <1>4, <1>5, <1>6, <1>7 DEF Next, RunStep

(* The steps that need the account come after the one that reads it. *)
LEMMA JoinEffects ==
  ASSUME TypeInv, NEW w \in Workers, TaskStep(w),
         worker'[w].pc \in {"join", "grant"}
  PROVE  worker[w].pc \in {"member", "join"} /\ \E p : Moved(w, p)
<1>1. /\ worker[w].user \in Users /\ Typed
      /\ discordOf \in [Users -> MaybeId]
  BY TaskStepEffects DEF TypeInv, DataTyped
<1>2. ~Ended(w) /\ ~Loaded(w)
  BY IdleType DEF Ended, Loaded
<1>3. \A p : Moved(w, p) => p \in {"join", "grant"}
  BY DEF Moved
<1> QED BY <1>1, <1>2, <1>3, InviteEffects, ExpelEffects
        DEF TaskStep, InviteLoadMember, JoinGuild

LEMMA LinkedFrame ==
  ASSUME TypeInv, LinksKept, NEW v \in Workers, LinkedRun(v),
         worker'[v] = worker[v]
  PROVE  LinkedRun(v)'
<1>1. worker[v].pc \in {"member", "join", "grant"} => worker[v].user \in Users
  BY TaskStepUser DEF TaskSteps
<1>2. worker[v] \in WorkerRec
  BY DEF TypeInv, Typed
<1>3. \A d \in DiscordIds : worker[v].desired[d] # None =>
        worker[v].desired[d] \in Users
  BY <1>2 DEF WorkerRec, MaybeUser
<1> QED BY <1>1, <1>3 DEF LinkedRun, LinksKept

LEMMA LinkedNext ==
  ASSUME OneAccountEach, ManualEdits = FALSE
  PROVE  TypeInv /\ InvitedInv /\ LinkedInv /\ [Next]_vars => LinkedInv'
<1> SUFFICES ASSUME TypeInv, InvitedInv, LinkedInv, [Next]_vars
             PROVE  LinkedInv'
  OBVIOUS
<1>1. LinksKept /\ RowsKept
  BY NextKeepsLinks, NextKeepsRows DEF InvitedInv
<1>2. /\ overwrites \in SUBSET DiscordIds /\ discordOf \in [Users -> MaybeId]
      /\ Typed
  BY DEF TypeInv, DataTyped
<1>3. ASSUME NEW d \in overwrites'
      PROVE  \E u \in Users : discordOf'[u] = d /\ row'[u] # "none"
  <2>1. ASSUME NEW u \in Users, discordOf[u] = d, d # None, row[u] # "none"
        PROVE  discordOf'[u] = d /\ row'[u] # "none"
    BY <1>1, <2>1 DEF LinksKept, RowsKept
  <2>2. CASE d \in overwrites
    <3>1. PICK u \in Users : discordOf[u] = d /\ row[u] # "none"
      BY <2>2 DEF LinkedInv
    <3> QED BY <1>2, <2>1, <2>2, <3>1
  <2>3. ASSUME NEW w \in Workers, TaskStep(w), worker[w].pc = "grant",
               d = worker[w].id
        PROVE  \E u \in Users : discordOf'[u] = d /\ row'[u] # "none"
    <3>1. worker[w].user \in Users
      BY <2>3, TaskStepEffects
    <3>2. worker[w].id # None
      BY <2>3 DEF TypeInv, HandlersTyped, HandlerTyped
    <3>3. /\ discordOf[worker[w].user] = d
          /\ row[worker[w].user] # "none"
      BY <2>3, <3>2 DEF LinkedInv, LinkedRun, InvitedInv, InvitedRun
    <3> QED BY <2>1, <2>3, <3>1, <3>2, <3>3
  <2>4. ASSUME NEW w \in Workers, d \in worker[w].reapply
        PROVE  \E u \in Users : discordOf'[u] = d /\ row'[u] # "none"
    <3> DEFINE u == worker[w].desired[d]
    <3>1. /\ d \in DiscordIds /\ u # None
          /\ worker[w].desired \in [DiscordIds -> MaybeUser]
      BY <1>2, <2>4
         DEF TypeInv, HandlersTyped, HandlerTyped, Typed, WorkerRec
    <3>2. u \in Users
      BY <3>1 DEF MaybeUser
    <3>3. discordOf[u] = d /\ row[u] # "none"
      BY <3>1 DEF LinkedInv, LinkedRun, InvitedInv, InvitedRun, Invited
    <3> HIDE DEF u
    <3> QED BY <2>1, <3>1, <3>2, <3>3
  <2>5. \/ d \in overwrites
        \/ \E w \in Workers :
             TaskStep(w) /\ worker[w].pc = "grant" /\ d = worker[w].id
        \/ \E w \in Workers : d \in worker[w].reapply
    BY OverwriteEffects
  <2> QED BY <2>2, <2>3, <2>4, <2>5
<1>4. ASSUME NEW v \in Workers PROVE LinkedRun(v)'
  <2>0. LinkedRun(v)
    BY DEF LinkedInv
  <2>1. CASE worker'[v] = worker[v]
    BY <1>1, <2>0, <2>1, LinkedFrame
  <2>2. ASSUME SameSweep(v)
        PROVE  \A d \in DiscordIds : worker'[v].desired[d] # None =>
                 discordOf'[worker'[v].desired[d]] = d
    <3>1. \A d \in DiscordIds : worker[v].desired[d] # None =>
            worker[v].desired[d] \in Users
      BY <1>2 DEF Typed, WorkerRec, MaybeUser
    <3> QED BY <1>1, <2>0, <2>2, <3>1 DEF SameSweep, LinkedRun, LinksKept
  <2>3. CASE Ended(v) \/ \E k, u : Started(v, k, u)
    BY <2>3, IdleType DEF Ended, Started, LinkedRun
  <2>4. CASE \E p \in {"list", "user", "mark", "delete", "kick", "revoke"} :
               Moved(v, p)
    BY <2>2, <2>4 DEF Moved, LinkedRun
  <2>5. CASE TaskStep(v)
    <3>1. worker[v].user \in Users
      BY <2>5, TaskStepEffects
    <3>2. CASE Loaded(v)
      BY <1>1, <2>2, <3>1, <3>2 DEF Loaded, LinkedRun, LinksKept
    <3>3. CASE \E p \in {"join", "grant"} : Moved(v, p)
      <4>1. /\ worker'[v].pc \in {"join", "grant"} /\ SameTask(v)
            /\ SameSweep(v)
        BY <3>3 DEF Moved
      <4>2. worker[v].pc \in {"member", "join"}
        BY <2>5, <4>1, JoinEffects
      <4> QED BY <1>1, <2>0, <2>2, <3>1, <4>1, <4>2
              DEF SameTask, LinkedRun, LinksKept
    <3> QED BY <2>3, <2>4, <2>5, <3>2, <3>3, TaskStepEffects
  <2>6. CASE SweepStep(v)
    <3>1. ASSUME worker'[v].pc \in SweepSteps,
                 worker'[v].desired = worker[v].desired
          PROVE  LinkedRun(v)'
      <4>1. \A d \in DiscordIds : worker[v].desired[d] # None =>
              worker[v].desired[d] \in Users
        BY <1>2 DEF Typed, WorkerRec, MaybeUser
      <4> QED BY <1>1, <2>0, <3>1, <4>1 DEF LinkedRun, LinksKept, SweepSteps
    <3>2. ASSUME NEW u \in worker[v].todo, Resolved(v, u)
          PROVE  LinkedRun(v)'
      <4>1. /\ u \in Users /\ worker[v].desired \in [DiscordIds -> MaybeUser]
        BY <1>2, <3>2 DEF Typed, WorkerRec
      <4>2. ASSUME NEW d \in DiscordIds, worker'[v].desired[d] # None
            PROVE  discordOf'[worker'[v].desired[d]] = d
        <5>1. CASE discordOf[u] = d
          <6>1. worker'[v].desired[d] = u
            BY <3>2, <4>1, <5>1 DEF Resolved
          <6> QED BY <1>1, <4>1, <5>1, <6>1 DEF LinksKept
        <5>2. CASE discordOf[u] # d
          <6>1. worker'[v].desired[d] = worker[v].desired[d]
            BY <3>2, <4>1, <5>2 DEF Resolved
          <6>2. worker[v].desired[d] \in Users
            BY <4>1, <4>2, <6>1 DEF MaybeUser
          <6> QED BY <1>1, <2>0, <4>2, <6>1, <6>2 DEF LinkedRun, LinksKept
        <5> QED BY <5>1, <5>2
      <4> QED BY <3>2, <4>2 DEF Resolved, LinkedRun
    <3>3. CASE Listed(v) \/ Compared(v) \/ Remarked(v)
      BY <3>1, <3>3 DEF Listed, Compared, Remarked, SameSweep, SweepSteps
    <3>4. ASSUME NEW d, \/ Pruned(v, d)
                        \/ Reapplied(v, d, "remark", worker[v].desired[d])
                        \/ Reapplied(v, d, "repair", worker[v].user)
          PROVE  LinkedRun(v)'
      BY <3>1, <3>4 DEF Pruned, Reapplied, SweepSteps
    <3> QED BY <2>3, <2>6, <3>2, <3>3, <3>4, SweepStepEffects
  <2> QED BY <2>1, <2>3, <2>4, <2>5, <2>6, WorkerEffects DEF Others
<1> QED BY <1>3, <1>4 DEF LinkedInv

(* While a sweep reads users, an overwrite has a user that is revoked, is   *)
(* still to be read or is desired; what it sets out to revoke belongs to    *)
(* users that are revoked, for good.                                        *)
PruneRun(w) ==
    /\ worker[w].pc = "resolve" =>
         \A d \in overwrites, u \in Users : discordOf[u] = d =>
             \/ row[u] = "revoked" \/ u \in worker[w].todo
             \/ worker[w].desired[d] # None
    /\ \A d \in worker[w].prune \cap overwrites, u \in Users :
         discordOf[u] = d => row[u] = "revoked"

PruneInv == \A w \in Workers : PruneRun(w)

LEMMA PruneInit == Init => PruneInv
<1> SUFFICES ASSUME Init, NEW w \in Workers PROVE PruneRun(w)
  BY DEF PruneInv
<1>1. worker[w] = Idle
  BY DEF Init
<1> QED BY <1>1, IdleType DEF PruneRun

(* Overwrites that stay keep their user, and the user's row is as it was or *)
(* revoked.                                                                 *)
LEMMA OverwriteKept ==
  ASSUME OneAccountEach, TypeInv, TypeInv', InvitedInv, LinkedInv,
         [Next]_vars, NEW d \in overwrites, NEW u \in Users,
         discordOf'[u] = d
  PROVE  discordOf[u] = d /\ row[u] # "none"
         /\ (row'[u] = row[u] \/ row'[u] = "revoked")
<1>1. LinksKept
  BY NextKeepsLinks DEF InvitedInv
<1>2. d \in DiscordIds /\ d # None
  BY DEF TypeInv, DataTyped
<1>3. PICK v \in Users : discordOf[v] = d /\ row[v] # "none"
  BY DEF LinkedInv
<1>4. discordOf'[v] = d
  BY <1>1, <1>2, <1>3 DEF LinksKept
<1>5. v = u
  BY <1>2, <1>4 DEF TypeInv, DataTyped
<1>6. row'[u] = row[u] \/ row'[u] = "revoked"
  <2>1. row \in [Users -> {"none", "active", "revoked"}]
    BY DEF TypeInv, DataTyped
  <2>2. ASSUME NEW x \in Users, InviteCollaborator(x)
        PROVE  row'[u] = row[u]
    BY <1>3, <1>5, <2>1, <2>2 DEF InviteCollaborator
  <2>3. ASSUME NEW w \in Workers, RunStep(w)
        PROVE  \/ UNCHANGED row
               \/ \E x \in Users : row' = [row EXCEPT ![x] = "revoked"]
    <3>1. ASSUME RevokeMember(w)
          PROVE  \/ UNCHANGED row
                 \/ \E x \in Users : row' = [row EXCEPT ![x] = "revoked"]
      <4>1. worker[w].user \in Users
        BY <3>1, TaskStepEffects DEF TaskStep
      <4> QED BY <3>1, <4>1 DEF RevokeMember
    <3> QED BY <2>3, <3>1 DEF RunStep, AcquireSpace, TaskStep, InviteLoadUser,
       InviteLoadMember, JoinGuild, Grant, MarkApplied, ExpelLoadUser,
       ExpelLoadMember, DeleteOverwrite, KickMember, SweepStep,
       ListMembers, ResolveMember, ReadOverwrites, PruneOverwrite,
       ReapplyOverwrite, MarkReapplied, EndSweep, desiredVars
  <2>4. \/ \E x \in Users : InviteCollaborator(x)
        \/ UNCHANGED row
        \/ \E x \in Users : row' = [row EXCEPT ![x] = "revoked"]
    BY <2>3 DEF Next, vars, Provisioned, ExpelCollaborator, LinkAccount,
            EnqueuePendingInvites, ManualEdit, StartTask, StartSweep,
            LeaseLost, LockExpires, desiredVars
  <2> QED BY <2>1, <2>2, <2>4
<1> QED BY <1>3, <1>5, <1>6

(* The sweep's own step, when the channel gains nothing from it. *)
LEMMA PruneSweep ==
  ASSUME OneAccountEach, TypeInv, TypeInv', SteadyInv', InvitedInv, LinkedInv,
         [Next]_vars, NEW v \in Workers, PruneRun(v), SweepStep(v),
         worker'[v].pc \in Sweeping, overwrites' \subseteq overwrites
  PROVE  PruneRun(v)'
<1>1. /\ overwrites \in SUBSET DiscordIds /\ discordOf \in [Users -> MaybeId]
      /\ Typed /\ row \in [Users -> {"none", "active", "revoked"}]
  BY DEF TypeInv, DataTyped
<1>2. /\ worker[v].todo \subseteq Users /\ worker[v].prune \subseteq DiscordIds
      /\ worker[v].reapply \subseteq DiscordIds
      /\ worker[v].desired \in [DiscordIds -> MaybeUser]
  BY <1>1 DEF Typed, WorkerRec
<1>3. worker'[v].pc = "resolve" => worker'[v].prune = {}
  BY DEF SteadyInv, SteadyRun
<1>4. ~Ended(v)
  BY IdleType DEF Ended, Sweeping
<1>5. ASSUME worker'[v].pc # "resolve",
             \A d \in worker'[v].prune, u \in Users :
                 d \in overwrites /\ discordOf[u] = d => row[u] = "revoked"
      PROVE  PruneRun(v)'
  <2>1. ASSUME NEW d \in worker'[v].prune, d \in overwrites', NEW u \in Users,
               discordOf'[u] = d
        PROVE  row'[u] = "revoked"
    <3>1. d \in overwrites
      BY <2>1
    <3>2. discordOf[u] = d /\ (row'[u] = row[u] \/ row'[u] = "revoked")
      BY <2>1, <3>1, OverwriteKept
    <3> QED BY <1>5, <2>1, <3>1, <3>2
  <2> QED BY <1>5, <2>1 DEF PruneRun
<1>6. ASSUME worker'[v].pc = "resolve",
             \A d \in overwrites, u \in Users :
                 discordOf[u] = d /\ row[u] # "none" =>
                     \/ row[u] = "revoked" \/ u \in worker'[v].todo
                     \/ worker'[v].desired[d] # None
      PROVE  PruneRun(v)'
  <2>1. ASSUME NEW d \in overwrites', NEW u \in Users, discordOf'[u] = d
        PROVE  \/ row'[u] = "revoked" \/ u \in worker'[v].todo
               \/ worker'[v].desired[d] # None
    <3>1. d \in overwrites
      BY <2>1
    <3>2. /\ discordOf[u] = d /\ row[u] # "none"
          /\ row'[u] = row[u] \/ row'[u] = "revoked"
      BY <2>1, <3>1, OverwriteKept
    <3> QED BY <1>6, <3>1, <3>2
  <2> QED BY <1>3, <1>6, <2>1 DEF PruneRun
<1>7. CASE ListMembers(v)
  <2>1. Listed(v)
    BY <1>1, <1>4, <1>7, SweepEffects
  <2>2. worker'[v].pc = "resolve" /\ worker'[v].todo = Active
    BY <2>1 DEF Listed
  <2>3. \A u \in Users :
          row[u] # "none" => row[u] = "revoked" \/ u \in Active
    BY <1>1 DEF Active
  <2> QED BY <1>6, <2>2, <2>3
<1>8. ASSUME NEW x \in worker[v].todo, ResolveMember(v, x) PROVE PruneRun(v)'
  <2>1. Resolved(v, x) /\ worker[v].pc = "resolve" /\ x \in Users
    BY <1>1, <1>2, <1>4, <1>8, SweepEffects DEF ResolveMember
  <2>2. ASSUME NEW d \in overwrites, NEW u \in Users, discordOf[u] = d
        PROVE  \/ row[u] = "revoked" \/ u \in worker'[v].todo
               \/ worker'[v].desired[d] # None
    <3>1. d \in DiscordIds /\ d # None
      BY <1>1
    <3>2. CASE u = x
      BY <1>2, <2>1, <2>2, <3>1, <3>2 DEF Resolved
    <3>3. CASE u # x
      <4>1. \/ row[u] = "revoked" \/ u \in worker[v].todo
            \/ worker[v].desired[d] # None
        BY <2>1, <2>2 DEF PruneRun
      <4>2. u \in worker[v].todo => u \in worker'[v].todo
        BY <2>1, <3>3 DEF Resolved
      <4>3. worker[v].desired[d] # None => worker'[v].desired[d] # None
        BY <1>2, <2>1, <3>1 DEF Resolved
      <4> QED BY <4>1, <4>2, <4>3
    <3> QED BY <3>2, <3>3
  <2>3. worker'[v].pc = "resolve"
    BY <2>1 DEF Resolved
  <2> QED BY <1>6, <2>2, <2>3
<1>9. CASE ReadOverwrites(v)
  <2>1. /\ Compared(v) /\ worker[v].pc = "resolve" /\ worker[v].todo = {}
    BY <1>1, <1>4, <1>9, SweepEffects DEF ReadOverwrites
  <2>2. /\ worker'[v].pc = "repair"
        /\ worker'[v].prune = overwrites \ DesiredIds(v)
    BY <2>1 DEF Compared
  <2>3. \A d \in worker'[v].prune :
          d \in overwrites /\ worker[v].desired[d] = None
    BY <1>1, <2>2 DEF DesiredIds
  <2> QED BY <1>5, <2>1, <2>2, <2>3 DEF PruneRun
<1>10. ASSUME worker'[v].pc # "resolve",
              worker'[v].prune \subseteq worker[v].prune
       PROVE  PruneRun(v)'
  BY <1>5, <1>10 DEF PruneRun
<1>11. ASSUME NEW d \in worker[v].prune, PruneOverwrite(v, d)
       PROVE  PruneRun(v)'
  <2>1. Pruned(v, d)
    BY <1>1, <1>2, <1>11, SweepEffects
  <2> QED BY <1>10, <2>1 DEF Pruned
<1>12. ASSUME NEW d \in worker[v].reapply, ReapplyOverwrite(v, d)
       PROVE  PruneRun(v)'
  <2>1. \/ Reapplied(v, d, "remark", worker[v].desired[d])
        \/ Reapplied(v, d, "repair", worker[v].user)
    BY <1>1, <1>2, <1>12, SweepEffects
  <2> QED BY <1>10, <2>1 DEF Reapplied
<1>13. CASE MarkReapplied(v)
  <2>1. Remarked(v)
    BY <1>1, <1>13, SweepEffects
  <2> QED BY <1>10, <2>1 DEF Remarked, SameSweep
<1>14. ~EndSweep(v)
  BY <1>1, <1>4, SweepEffects
<1> QED BY <1>7, <1>8, <1>9, <1>11, <1>12, <1>13, <1>14 DEF SweepStep

(* Under the lock nothing is granted during a sweep, except by itself and   *)
(* after it has revoked.                                                    *)
LEMMA PruneNext ==
  ASSUME OneAccountEach, ManualEdits = FALSE
  PROVE  /\ TypeInv /\ TypeInv' /\ SteadyInv' /\ InvitedInv /\ LinkedInv
         /\ LockInv /\ PruneInv /\ [Next]_vars
         => PruneInv'
<1> SUFFICES ASSUME TypeInv, TypeInv', SteadyInv', InvitedInv, LinkedInv,
                    LockInv, PruneInv, [Next]_vars, NEW v \in Workers
             PROVE  PruneRun(v)'
  BY DEF PruneInv
<1>0. PruneRun(v)
  BY DEF PruneInv
<1>1. CASE worker'[v].pc \notin Sweeping
  <2>1. worker'[v].prune = {}
    BY <1>1 DEF SteadyInv, SteadyRun, Sweeping
  <2> QED BY <1>1, <2>1 DEF PruneRun, Sweeping
<1>2. CASE worker'[v].pc \in Sweeping
  <2>1. worker'[v] = worker[v] \/ SweepStep(v)
    <3>1. ASSUME NEW w \in Workers, TaskStep(w) PROVE w # v
      <4>1. \/ Ended(w) \/ Loaded(w)
            \/ \E p \in {"join", "grant", "mark", "delete", "kick", "revoke"} :
                 Moved(w, p)
        BY <3>1, TaskStepEffects
      <4> QED BY <1>2, <4>1, IdleType DEF Ended, Loaded, Moved, Sweeping
    <3>2. ASSUME NEW w \in Workers,
                 \/ Ended(w) \/ \E k, u : Started(w, k, u)
                 \/ \E p \in {"list", "user"} : Moved(w, p)
          PROVE  w # v
      BY <1>2, <3>2, IdleType DEF Ended, Started, Moved, Sweeping
    <3> QED BY <3>1, <3>2, WorkerEffects DEF Others
  <2>2. worker[v].pc \in SweepSteps
    BY <1>2, <2>1, SweepStepEffects DEF Sweeping, SweepSteps
  <2>3. \A w \in Workers \ {v} : ~TaskStep(w) /\ ~SweepStep(w)
    <3>1. lock = v
      BY <2>2 DEF LockInv, Running, SweepSteps
    <3>2. \A w \in Workers \ {v} : ~Running(w)
      BY <3>1 DEF LockInv
    <3> QED BY <3>2, TaskStepEffects, SweepStepEffects
            DEF Running, TaskSteps, SweepSteps
  <2>4. ~TaskStep(v)
    BY <2>2, TaskStepEffects DEF TaskSteps, SweepSteps
  <2>5. CASE overwrites' \subseteq overwrites
    <3>1. CASE SweepStep(v)
      BY <1>0, <1>2, <2>5, <3>1, PruneSweep
    <3>2. CASE worker'[v] = worker[v]
      <4>1. ASSUME NEW d \in overwrites', NEW u \in Users, discordOf'[u] = d
            PROVE  /\ d \in overwrites /\ discordOf[u] = d
                   /\ row[u] = "revoked" => row'[u] = "revoked"
        <5>1. d \in overwrites
          BY <2>5, <4>1
        <5> QED BY <4>1, <5>1, OverwriteKept
      <4> QED BY <1>0, <3>2, <4>1 DEF PruneRun
    <3> QED BY <2>1, <3>1, <3>2
  <2>6. CASE /\ SweepStep(v) /\ worker[v].pc = "repair"
             /\ worker[v].prune = {}
             /\ ~(overwrites' \subseteq overwrites)
    <3>1. PICK d \in worker[v].reapply : ReapplyOverwrite(v, d)
      BY <2>6 DEF SweepStep, ListMembers, ResolveMember, ReadOverwrites,
              PruneOverwrite, MarkReapplied, EndSweep, discordVars
    <3>2. /\ Typed /\ overwrites \in SUBSET DiscordIds /\ d \in DiscordIds
          /\ discordOf \in [Users -> MaybeId]
      BY DEF TypeInv, DataTyped, Typed, WorkerRec
    <3>3. \/ Reapplied(v, d, "remark", worker[v].desired[d])
          \/ Reapplied(v, d, "repair", worker[v].user)
      BY <3>1, <3>2, SweepEffects
    <3>4. worker'[v].pc # "resolve" /\ worker'[v].prune = {}
      BY <2>6, <3>3 DEF Reapplied
    <3> QED BY <3>4 DEF PruneRun
  <2> QED BY <2>3, <2>4, <2>5, <2>6, OverwriteEffects
<1> QED BY <1>1, <1>2

(* If invite and expel were given the lock, runs ended before its TTL,      *)
(* staff kept their hands off the channel and everyone had one account, a   *)
(* sweep would never set out to revoke an overwrite that a row backs.       *)
THEOREM RevokesUnbacked ==
  ASSUME Locking = TRUE, Expiry = FALSE, ManualEdits = FALSE, OneAccountEach
  PROVE  Spec => []SweepRevokesUnbacked
<1>1. PruneInv => SweepRevokesUnbacked
  <2> SUFFICES ASSUME PruneInv, NEW w \in Workers,
                      NEW d \in worker[w].prune \cap overwrites, d \in Backed
               PROVE  FALSE
    BY DEF SweepRevokesUnbacked
  <2>1. PICK u \in Users : row[u] = "active" /\ discordOf[u] = d
    BY DEF Backed, Active
  <2> QED BY <2>1 DEF PruneInv, PruneRun
<1> QED BY <1>1, TypeInit, TypeNext, SteadyInit, SteadyNext, InvitedInit,
           InvitedNext, LinkedInit, LinkedNext, LockInit, LockNext,
           PruneInit, PruneNext, PTL DEF Spec

(* With the same assumptions a sweep acts on current rows, both when it     *)
(* re-applies and when it revokes.                                          *)
THEOREM SweepsAreCurrent ==
  ASSUME Locking = TRUE, Expiry = FALSE, ManualEdits = FALSE, OneAccountEach
  PROVE  Spec => []SweepActsOnCurrentRows
<1>1. SweepReappliesActive /\ SweepRevokesUnbacked => SweepActsOnCurrentRows
  BY DEF SweepActsOnCurrentRows
<1>2. Spec => []SweepReappliesActive
  BY ReappliesActive
<1>3. Spec => []SweepRevokesUnbacked
  BY RevokesUnbacked
<1> QED BY <1>1, <1>2, <1>3, PTL

-----------------------------------------------------------------------------
(* With the per-space lock, expelled members stay out *)

(* An invite that goes on to grant found its row unmarked, and it still is: *)
(* no other run can have marked it since.                                   *)
UnmarkedInv ==
    \A w \in Workers :
        worker[w].pc \in {"join", "grant"} => worker[w].user \notin marked

LEMMA UnmarkedInit == Init => UnmarkedInv
  BY IdleType DEF Init, UnmarkedInv

(* Rows are marked by the last step of an invite and by sweeps. *)
LEMMA MarkEffects ==
  ASSUME [Next]_vars
  PROVE  \/ UNCHANGED marked
         \/ \E w \in Workers : worker[w].pc \in {"mark", "remark"}
<1>1. ASSUME NEW w \in Workers, TaskStep(w)
      PROVE  UNCHANGED marked \/ worker[w].pc = "mark"
  BY <1>1 DEF TaskStep, InviteLoadUser, InviteLoadMember, JoinGuild, Grant,
              MarkApplied, ExpelLoadUser, ExpelLoadMember, DeleteOverwrite,
              KickMember, RevokeMember
<1>2. ASSUME NEW w \in Workers, SweepStep(w)
      PROVE  UNCHANGED marked \/ worker[w].pc = "remark"
  BY <1>2 DEF SweepStep, ListMembers, ResolveMember, ReadOverwrites,
              PruneOverwrite, ReapplyOverwrite, MarkReapplied, EndSweep
<1>3. ASSUME \/ UNCHANGED vars
             \/ Provisioned
             \/ \E u \in Users :
                  \/ InviteCollaborator(u)
                  \/ \E kind \in TaskKinds \ {"invite"} :
                       ExpelCollaborator(u, kind)
                  \/ \E d \in {e \in DiscordIds : <<u, e>> \in CanLink} :
                       LinkAccount(u, d)
                  \/ EnqueuePendingInvites(u)
             \/ \E d \in DiscordIds : ManualEdit(d)
             \/ \E w \in Workers :
                  \/ \E t \in waiting : StartTask(w, t)
                  \/ StartSweep(w) \/ AcquireSpace(w) \/ LeaseLost(w)
             \/ LockExpires
      PROVE  UNCHANGED marked
  BY <1>3 DEF vars, Provisioned, InviteCollaborator, ExpelCollaborator,
              LinkAccount, EnqueuePendingInvites, ManualEdit, StartTask,
              StartSweep, AcquireSpace, LeaseLost, LockExpires
<1> QED BY <1>1, <1>2, <1>3 DEF Next, RunStep

LEMMA UnmarkedNext ==
  TypeInv /\ LockInv /\ UnmarkedInv /\ [Next]_vars => UnmarkedInv'
<1> SUFFICES ASSUME TypeInv, LockInv, UnmarkedInv, [Next]_vars,
                    NEW v \in Workers, worker'[v].pc \in {"join", "grant"}
             PROVE  worker'[v].user \notin marked'
  BY DEF UnmarkedInv
(* The run itself: it looked at the mark, or had looked before. *)
<1>1. ASSUME TaskStep(v)
      PROVE  /\ worker'[v].user = worker[v].user
             /\ worker[v].user \notin marked
             /\ worker[v].pc \in {"member", "join"}
  <2>1. /\ worker[v].pc \in {"member", "join"}
        /\ worker'[v].user = worker[v].user
    BY <1>1, JoinEffects DEF Moved, SameTask
  <2>2. CASE worker[v].pc = "join"
    BY <2>1, <2>2 DEF UnmarkedInv
  <2>3. CASE worker[v].pc = "member"
    <3>1. InviteLoadMember(v) \/ ExpelLoadMember(v)
      BY <1>1, <2>3 DEF TaskStep, InviteLoadUser, JoinGuild, Grant,
           MarkApplied, ExpelLoadUser, DeleteOverwrite, KickMember,
           RevokeMember
    <3>2. /\ Typed /\ worker[v].user \in Users
          /\ discordOf \in [Users -> MaybeId]
      BY <1>1, TaskStepEffects DEF TypeInv, DataTyped
    <3>3. ~ExpelLoadMember(v)
      BY <3>2, ExpelEffects, IdleType DEF Ended, Moved
    <3>4. worker' # [worker EXCEPT ![v] = Idle]
      BY <3>2, EndEffect, IdleType DEF Ended
    <3>5. ToApply(worker[v].user)
      BY <3>1, <3>3, <3>4 DEF InviteLoadMember, ReturnOK, ReturnError, End
    <3> QED BY <2>1, <3>5 DEF ToApply
  <2> QED BY <2>1, <2>2, <2>3
<1>2. \/ worker'[v] = worker[v]
      \/ TaskStep(v)
  <2>1. ~Ended(v) /\ \A k, u : ~Started(v, k, u)
    BY IdleType DEF Ended, Started
  <2>2. \A p \in {"list", "user"} : ~Moved(v, p)
    BY DEF Moved
  <2>3. ~SweepStep(v)
    BY <2>1, SweepStepEffects
       DEF Listed, Resolved, Compared, Pruned, Reapplied, Remarked
  <2> QED BY <2>1, <2>2, <2>3, WorkerEffects DEF Others
<1>3. /\ worker'[v].user = worker[v].user
      /\ worker[v].user \notin marked
      /\ worker[v].pc \in {"member", "join", "grant"}
  BY <1>1, <1>2 DEF UnmarkedInv
(* Nobody else is running. *)
<1>4. \A w \in Workers : worker[w].pc \notin {"mark", "remark"}
  BY <1>3 DEF LockInv, Running
<1> QED BY <1>3, <1>4, MarkEffects

(* If invite and expel were given the lock, and runs ended before its TTL,  *)
(* a member who was expelled after the overwrite was recorded would not get *)
(* it back from an invite or a sweep, however tasks are repeated, delayed   *)
(* and interleaved and however often the member is invited again.           *)
THEOREM ExpelledMembersStayOut ==
  ASSUME Locking = TRUE, Expiry = FALSE
  PROVE  Spec => ExpelledStayOut
<1> DEFINE Entitled(u, d) ==
      /\ <<u, d>> \in CanLink
      /\ row[u] = "active" \/ (row[u] = "revoked" /\ u \notin marked)
<1>1. ASSUME TypeInv, InvitedInv, CurrentInv, UnmarkedInv, [Next]_vars,
             ManualEdits = FALSE, NEW d \in overwrites' \ overwrites
      PROVE  \E u \in Users : Entitled(u, d)
  <2>1. ASSUME NEW w \in Workers, TaskStep(w), worker[w].pc = "grant",
               d = worker[w].id
        PROVE  \E u \in Users : Entitled(u, d)
    <3>1. /\ worker[w].user \in Users /\ worker[w].id # None
          /\ row[worker[w].user] \in {"none", "active", "revoked"}
      BY <1>1, <2>1, TaskStepEffects
         DEF TypeInv, DataTyped, HandlersTyped, HandlerTyped
    <3>2. /\ <<worker[w].user, d>> \in CanLink
          /\ row[worker[w].user] # "none"
      BY <1>1, <2>1, <3>1 DEF InvitedInv, InvitedRun
    <3>3. worker[w].user \notin marked
      BY <1>1, <2>1 DEF UnmarkedInv
    <3> QED BY <3>1, <3>2, <3>3
  <2>2. ASSUME NEW w \in Workers, d \in worker[w].reapply
        PROVE  \E u \in Users : Entitled(u, d)
    <3>1. /\ d \in DiscordIds /\ worker[w].desired[d] # None
          /\ worker[w].desired[d] \in Users
      BY <1>1, <2>2 DEF TypeInv, Typed, WorkerRec, HandlersTyped,
                        HandlerTyped, MaybeUser
    <3>2. /\ <<worker[w].desired[d], d>> \in CanLink
          /\ row[worker[w].desired[d]] = "active"
      BY <1>1, <3>1 DEF InvitedInv, InvitedRun, Invited, CurrentInv,
                        CurrentRun
    <3> QED BY <3>1, <3>2
  <2>3. \/ \E w \in Workers :
             TaskStep(w) /\ worker[w].pc = "grant" /\ d = worker[w].id
        \/ \E w \in Workers : d \in worker[w].reapply
    BY <1>1, OverwriteEffects
  <2> QED BY <2>1, <2>2, <2>3
<1>2. TypeInv /\ InvitedInv /\ CurrentInv /\ UnmarkedInv /\ [Next]_vars =>
        [~ManualEdits =>
           \A d \in overwrites' \ overwrites :
             \E u \in Users : /\ <<u, d>> \in CanLink
                              /\ \/ row[u] = "active"
                                 \/ row[u] = "revoked"
                                      /\ u \notin marked]_vars
  BY <1>1
<1> QED BY <1>2, TypeInit, TypeNext, InvitedInit, InvitedNext, LockInit,
           LockNext, CurrentInit, CurrentNext, UnmarkedInit, UnmarkedNext,
           PTL DEF Spec, ExpelledStayOut

-----------------------------------------------------------------------------
(* With the per-space lock, sweeps repair the channel *)

(* Only runs touch the channel's overwrites. *)
LEMMA OverwritesStay ==
  ASSUME ManualEdits = FALSE, [Next]_vars,
         \A w \in Workers : ~TaskStep(w) /\ ~SweepStep(w)
  PROVE  UNCHANGED overwrites
  BY DEF Next, RunStep, vars, Provisioned, InviteCollaborator,
         ExpelCollaborator, LinkAccount, EnqueuePendingInvites, ManualEdit,
         StartTask, StartSweep, AcquireSpace, LeaseLost, LockExpires,
         discordVars

(* Only its own listing makes an account steady for a sweep. *)
LEMMA SteadyShrinks ==
  ASSUME TypeInv, [Next]_vars, NEW v \in Workers, ~ListMembers(v)
  PROVE  steady'[v] \subseteq steady[v]
<1>1. steady \in [Workers -> SUBSET DiscordIds]
  BY DEF TypeInv, DataTyped
<1>2. TrackSteady => steady'[v] \subseteq steady[v]
  BY <1>1 DEF TrackSteady
<1>3. \A w \in Workers : ForgetSteady(w) => steady'[v] \subseteq steady[v]
  BY <1>1 DEF ForgetSteady
<1>4. ASSUME NEW w \in Workers, TaskStep(w)
      PROVE  UNCHANGED steady \/ TrackSteady
  BY <1>4 DEF TaskStep, InviteLoadUser, InviteLoadMember, JoinGuild, Grant,
              MarkApplied, ExpelLoadUser, ExpelLoadMember, DeleteOverwrite,
              KickMember, RevokeMember
<1>5. ASSUME NEW w \in Workers, SweepStep(w), ~ListMembers(w)
      PROVE  UNCHANGED steady \/ ForgetSteady(w)
  BY <1>5 DEF SweepStep, ResolveMember, ReadOverwrites, PruneOverwrite,
              ReapplyOverwrite, MarkReapplied, EndSweep
<1>6. ASSUME NEW w \in Workers, ListMembers(w)
      PROVE  steady'[v] \subseteq steady[v]
  BY <1>1, <1>6 DEF ListMembers
<1>7. ASSUME \/ UNCHANGED vars
             \/ Provisioned
             \/ \E u \in Users :
                  \/ InviteCollaborator(u)
                  \/ \E kind \in TaskKinds \ {"invite"} :
                       ExpelCollaborator(u, kind)
                  \/ \E d \in {e \in DiscordIds : <<u, e>> \in CanLink} :
                       LinkAccount(u, d)
                  \/ EnqueuePendingInvites(u)
             \/ \E d \in DiscordIds : ManualEdit(d)
             \/ \E w \in Workers :
                  \/ \E t \in waiting : StartTask(w, t)
                  \/ StartSweep(w) \/ AcquireSpace(w)
             \/ LockExpires
      PROVE  UNCHANGED steady \/ TrackSteady
  BY <1>7 DEF vars, Provisioned, InviteCollaborator, ExpelCollaborator,
              LinkAccount, EnqueuePendingInvites, ManualEdit, StartTask,
              StartSweep, AcquireSpace, LockExpires
<1>8. ASSUME NEW w \in Workers, LeaseLost(w)
      PROVE  UNCHANGED steady \/ ForgetSteady(w)
  BY <1>8 DEF LeaseLost
<1> QED BY <1>2, <1>3, <1>4, <1>5, <1>6, <1>7, <1>8 DEF Next, RunStep

(* While a sweep repairs, the overwrites are those it wants, less those it  *)
(* has yet to re-apply and with those it has yet to revoke; and it wants    *)
(* all that is steady.                                                      *)
RepairRun(w) ==
    worker[w].pc \in {"repair", "remark"} =>
        /\ worker[w].prune \cap DesiredIds(w) = {}
        /\ steady[w] \subseteq DesiredIds(w)
        /\ faults = 0 =>
             /\ overwrites \subseteq DesiredIds(w) \cup worker[w].prune
             /\ DesiredIds(w) \subseteq overwrites \cup worker[w].reapply

RepairInv == \A w \in Workers : RepairRun(w)

LEMMA RepairInit == Init => RepairInv
  BY IdleType DEF Init, RepairInv, RepairRun

(* The sweep's own step. *)
LEMMA RepairSweep ==
  ASSUME TypeInv, SteadyInv, [Next]_vars, NEW v \in Workers, RepairRun(v),
         SweepStep(v), worker'[v].pc \in {"repair", "remark"}
  PROVE  RepairRun(v)'
<1>1. /\ overwrites \in SUBSET DiscordIds /\ discordOf \in [Users -> MaybeId]
      /\ Typed /\ faults \in Nat
  BY DEF TypeInv, DataTyped
<1>2. /\ worker[v].todo \subseteq Users /\ worker[v].prune \subseteq DiscordIds
      /\ worker[v].reapply \subseteq DiscordIds
  BY <1>1 DEF Typed, WorkerRec
<1>3. ~Ended(v) /\ ~Listed(v) /\ \A u : ~Resolved(v, u)
  BY IdleType DEF Ended, Listed, Resolved
<1>4. ~ListMembers(v) /\ ~EndSweep(v) /\ \A u \in Users : ~ResolveMember(v, u)
  BY <1>1, <1>3, SweepEffects
<1>5. steady'[v] \subseteq steady[v]
  BY <1>4, SteadyShrinks
<1>6. CASE ReadOverwrites(v)
  <2>1. Compared(v) /\ worker[v].pc = "resolve" /\ worker[v].todo = {}
    BY <1>1, <1>3, <1>6, SweepEffects DEF ReadOverwrites
  <2>2. steady[v] \subseteq DesiredIds(v)
    BY <2>1 DEF SteadyInv, SteadyRun, DesiredIds, TypeInv, DataTyped
  <2>3. UNCHANGED overwrites
    BY <1>6 DEF ReadOverwrites, discordVars
  <2>4. DesiredIds(v)' = DesiredIds(v)
    BY <2>1 DEF Compared, DesiredIds
  <2> QED BY <1>5, <2>1, <2>2, <2>3, <2>4 DEF Compared, RepairRun
<1>7. ASSUME NEW d \in worker[v].prune, PruneOverwrite(v, d)
      PROVE  RepairRun(v)'
  <2>1. Pruned(v, d) /\ worker[v].pc = "repair"
    BY <1>1, <1>2, <1>7, SweepEffects DEF PruneOverwrite
  <2>2. DesiredIds(v)' = DesiredIds(v)
    BY <2>1 DEF Pruned, DesiredIds
  <2>3. faults' = 0 => faults = 0 /\ overwrites' = overwrites \ {d}
    BY <1>1, <1>7 DEF PruneOverwrite, Fault
  <2> QED BY <1>5, <1>7, <2>1, <2>2, <2>3 DEF Pruned, RepairRun
<1>8. ASSUME NEW d \in worker[v].reapply, ReapplyOverwrite(v, d)
      PROVE  RepairRun(v)'
  <2>1. /\ \/ Reapplied(v, d, "remark", worker[v].desired[d])
           \/ Reapplied(v, d, "repair", worker[v].user)
        /\ worker[v].pc = "repair"
    BY <1>1, <1>2, <1>8, SweepEffects DEF ReapplyOverwrite
  <2>2. DesiredIds(v)' = DesiredIds(v)
    BY <2>1 DEF Reapplied, DesiredIds
  <2>3. d \in DesiredIds(v)
    BY <1>2, <1>8 DEF TypeInv, HandlersTyped, HandlerTyped, DesiredIds
  <2>4. faults' = 0 => faults = 0 /\ overwrites' = overwrites \cup {d}
    BY <1>1, <1>8 DEF ReapplyOverwrite, Fault
  <2> QED BY <1>5, <2>1, <2>2, <2>3, <2>4 DEF Reapplied, RepairRun
<1>9. CASE MarkReapplied(v)
  <2>1. Remarked(v) /\ worker[v].pc = "remark" /\ UNCHANGED overwrites
    BY <1>1, <1>9, SweepEffects DEF MarkReapplied, discordVars
  <2>2. DesiredIds(v)' = DesiredIds(v)
    BY <2>1 DEF Remarked, SameSweep, DesiredIds
  <2>3. faults' = 0 => faults = 0
    BY <1>1, <1>9 DEF MarkReapplied, Fault
  <2> QED BY <1>5, <2>1, <2>2, <2>3 DEF Remarked, SameSweep, RepairRun
<1> QED BY <1>2, <1>4, <1>6, <1>7, <1>8, <1>9 DEF SweepStep

(* Failures are only ever added. *)
LEMMA FaultsStay ==
  ASSUME TypeInv, [Next]_vars, faults' = 0 PROVE faults = 0
<1>1. faults \in Nat
  BY DEF TypeInv, DataTyped
<1>2. ASSUME NEW w \in Workers, TaskStep(w) PROVE UNCHANGED faults \/ Fault
  BY <1>2 DEF TaskStep, InviteLoadUser, InviteLoadMember, JoinGuild, Grant,
              MarkApplied, ExpelLoadUser, ExpelLoadMember, DeleteOverwrite,
              KickMember, RevokeMember, boundVars
<1>3. ASSUME NEW w \in Workers, SweepStep(w) PROVE UNCHANGED faults \/ Fault
  BY <1>3 DEF SweepStep, ListMembers, ResolveMember, ReadOverwrites,
              PruneOverwrite, ReapplyOverwrite, MarkReapplied, EndSweep,
              boundVars
<1>4. ASSUME \/ UNCHANGED vars
             \/ Provisioned
             \/ \E u \in Users :
                  \/ InviteCollaborator(u)
                  \/ \E kind \in TaskKinds \ {"invite"} :
                       ExpelCollaborator(u, kind)
                  \/ \E d \in {e \in DiscordIds : <<u, e>> \in CanLink} :
                       LinkAccount(u, d)
                  \/ EnqueuePendingInvites(u)
             \/ \E d \in DiscordIds : ManualEdit(d)
             \/ \E w \in Workers :
                  \/ \E t \in waiting : StartTask(w, t)
                  \/ StartSweep(w) \/ AcquireSpace(w) \/ LeaseLost(w)
             \/ LockExpires
      PROVE  UNCHANGED faults \/ Fault
  BY <1>4 DEF vars, Provisioned, InviteCollaborator, ExpelCollaborator,
              LinkAccount, EnqueuePendingInvites, ManualEdit, StartTask,
              StartSweep, AcquireSpace, LeaseLost, LockExpires, boundVars
<1>5. UNCHANGED faults \/ Fault
  BY <1>2, <1>3, <1>4 DEF Next, RunStep
<1> QED BY <1>1, <1>5 DEF Fault

LEMMA RepairNext ==
  ASSUME ManualEdits = FALSE
  PROVE  TypeInv /\ SteadyInv /\ LockInv /\ RepairInv /\ [Next]_vars
         => RepairInv'
<1> SUFFICES ASSUME TypeInv, SteadyInv, LockInv, RepairInv, [Next]_vars,
                    NEW v \in Workers, worker'[v].pc \in {"repair", "remark"}
             PROVE  RepairRun(v)'
  BY DEF RepairInv, RepairRun
<1>1. RepairRun(v)
  BY DEF RepairInv
<1>2. CASE SweepStep(v)
  BY <1>1, <1>2, RepairSweep
<1>3. CASE ~SweepStep(v)
  <2>1. worker'[v] = worker[v]
    <3>1. ASSUME TaskStep(v) PROVE FALSE
      BY <3>1, TaskStepEffects, IdleType DEF Ended, Loaded, Moved
    <3>2. ~Ended(v) /\ (\A k, u : ~Started(v, k, u))
          /\ \A p \in {"list", "user"} : ~Moved(v, p)
      BY IdleType DEF Ended, Started, Moved
    <3> QED BY <1>3, <3>1, <3>2, WorkerEffects DEF Others
  <2>2. \A w \in Workers : ~TaskStep(w) /\ ~SweepStep(w)
    <3>1. worker[v].pc \in {"repair", "remark"}
      BY <2>1
    <3>2. \A w \in Workers \ {v} : ~Running(w)
      BY <3>1 DEF LockInv, Running
    <3>3. ~TaskStep(v)
      BY <3>1, TaskStepEffects DEF TaskSteps
    <3> QED BY <1>3, <3>2, <3>3, TaskStepEffects, SweepStepEffects
            DEF Running, TaskSteps, SweepSteps
  <2>3. UNCHANGED overwrites
    BY <2>2, OverwritesStay
  <2>4. steady'[v] \subseteq steady[v]
    BY <1>3, SteadyShrinks DEF SweepStep
  <2>5. DesiredIds(v)' = DesiredIds(v)
    BY <2>1 DEF DesiredIds
  <2> QED BY <1>1, <2>1, <2>3, <2>4, <2>5, FaultsStay DEF RepairRun
<1> QED BY <1>2, <1>3

(* If invite and expel were given the lock, runs ended before its TTL,      *)
(* staff kept their hands off the channel and everyone had one account, a   *)
(* sweep that meets no failure would leave the channel exactly as the rows  *)
(* it listed say: this is what each sweep adds to the convergence that TLC  *)
(* checks.                                                                  *)
THEOREM SweepsRepair ==
  ASSUME Locking = TRUE, Expiry = FALSE, ManualEdits = FALSE, OneAccountEach
  PROVE  Spec => []SweepRepairs
<1>1. TypeInv /\ CurrentInv /\ LinkedInv /\ RepairInv => SweepRepairs
  <2> SUFFICES ASSUME TypeInv, CurrentInv, LinkedInv, RepairInv,
                      NEW w \in Workers,
                      worker[w].pc = "repair", faults = 0,
                      worker[w].prune = {}, worker[w].reapply = {}
               PROVE  steady[w] \subseteq overwrites
                      /\ overwrites \subseteq Backed
    BY DEF SweepRepairs
  <2>1. overwrites = DesiredIds(w) /\ steady[w] \subseteq DesiredIds(w)
    BY DEF RepairInv, RepairRun
  <2>2. ASSUME NEW d \in DesiredIds(w) PROVE d \in Backed
    <3>1. /\ d \in DiscordIds /\ worker[w].desired[d] # None
          /\ worker[w].desired[d] \in Users
      BY DEF DesiredIds, TypeInv, Typed, WorkerRec, MaybeUser
    <3>2. /\ row[worker[w].desired[d]] = "active"
          /\ discordOf[worker[w].desired[d]] = d
      BY <3>1 DEF CurrentInv, CurrentRun, LinkedInv, LinkedRun
    <3> QED BY <3>1, <3>2 DEF Backed, Active
  <2> QED BY <2>1, <2>2
<1> QED BY <1>1, TypeInit, TypeNext, SteadyInit, SteadyNext, InvitedInit,
           InvitedNext, LinkedInit, LinkedNext, LockInit, LockNext,
           CurrentInit, CurrentNext, RepairInit, RepairNext, PTL DEF Spec
=============================================================================
