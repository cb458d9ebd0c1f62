----------------------------- MODULE Membership -----------------------------
(***************************************************************************)
(* Collaborators of one space: the API's invite, expel and OAuth2 callback *)
(* handlers, the invite_collaborator and expel_collaborator workers, the   *)
(* scheduled reconcile sweep and the per-space lock, on the rows of        *)
(* space_members (desired state) and the member overwrites of the space's  *)
(* Discord channel (real state).                                           *)
(*                                                                         *)
(* Every store or Discord call of a handler is a step of its own. A failed *)
(* attempt goes back to the queue or, its retry budget spent, is archived. *)
(***************************************************************************)
EXTENDS Naturals, FiniteSets

CONSTANTS
    Users,        \* collaborators
    DiscordIds,   \* Discord accounts
    CanLink,      \* <<u, d>>: the person behind u can log in to account d
    Workers,      \* asynq handler goroutines
    None,         \* NULL
    Locking,      \* were invite and expel given a Valkey locker? (else Noop)
    Expiry,       \* may the lock expire while its holder still runs?
    ManualEdits,  \* may staff edit the channel's overwrites in Discord?
    MaxRequests,  \* bound: API calls and manual edits in a behaviour
    MaxFaults     \* bound: store, Valkey and Discord errors and crashes

ASSUME NoneAssumption == None \notin Users \cup DiscordIds \cup Workers
ASSUME LinkAssumption == CanLink \subseteq Users \X DiscordIds
ASSUME SwitchesAssumption ==
    Locking \in BOOLEAN /\ Expiry \in BOOLEAN /\ ManualEdits \in BOOLEAN
ASSUME BoundsAssumption == MaxRequests \in Nat /\ MaxFaults \in Nat

VARIABLES
    provisioned,  \* the space has a channel and acl_state applied
    row,          \* u's row in space_members
    marked,       \* users whose row has overwrite_applied
    discordOf,    \* users.discord_user_id
    connecting,   \* users whose OAuth2 callback has yet to list invites
    overwrites,   \* member overwrites of the channel
    guild,        \* members of the guild
    waiting,      \* tasks in the membership queue
    lock,         \* lock:space, the run that set it
    worker,       \* local state of each handler goroutine
    steady,       \* history: accounts backed ever since w's sweep listed
    requests,     \* API calls and manual edits so far
    faults        \* failures so far

desiredVars == <<provisioned, row, discordOf, connecting>>
discordVars == <<overwrites, guild>>
boundVars == <<requests, faults>>
vars == <<desiredVars, marked, discordVars, waiting, lock, worker, steady,
          boundVars>>

-----------------------------------------------------------------------------
(* Types *)

MaybeUser == Users \cup {None}
MaybeId == DiscordIds \cup {None}
TaskKinds == {"invite", "expelChannel", "expelServer"}
Task == [kind : TaskKinds, user : Users]
Steps == {"idle", "acquire", "user", "member", "join", "grant", "mark",
          "delete", "kick", "revoke", "list", "resolve", "repair", "remark"}

WorkerRec ==
    [pc : Steps, kind : TaskKinds \cup {"none", "sweep"}, user : MaybeUser,
     id : MaybeId,                       \* the user's account, once loaded
     channel : {"unknown", "known"},     \* was there a channel, once loaded?
     members : SUBSET Users,             \* sweep: rows of ListActive...
     todo : SUBSET Users,                \* sweep: rows not yet resolved
     desired : [DiscordIds -> MaybeUser],  \* sweep: desiredByDiscordID
     prune : SUBSET DiscordIds,          \* sweep: overwrites to revoke
     reapply : SUBSET DiscordIds]        \* sweep: overwrites to re-apply

Idle == [pc |-> "idle", kind |-> "none", user |-> None, id |-> None,
         channel |-> "unknown", members |-> {}, todo |-> {},
         desired |-> [d \in DiscordIds |-> None], prune |-> {},
         reapply |-> {}]

(* Type invariant: every variable stays in its declared set, and two users  *)
(* never share an account (users.discord_user_id is UNIQUE).                *)
TypeOK ==
    /\ provisioned \in BOOLEAN
    /\ row \in [Users -> {"none", "active", "revoked"}]
    /\ marked \in SUBSET Users
    /\ discordOf \in [Users -> MaybeId]
    /\ \A u, v \in Users :
         u # v /\ discordOf[u] # None => discordOf[u] # discordOf[v]
    /\ connecting \in SUBSET Users
    /\ overwrites \in SUBSET DiscordIds
    /\ guild \in SUBSET DiscordIds
    /\ waiting \in SUBSET Task
    /\ lock \in Workers \cup {None}
    /\ worker \in [Workers -> WorkerRec]
    /\ steady \in [Workers -> SUBSET DiscordIds]
    /\ requests \in 0..MaxRequests
    /\ faults \in 0..MaxFaults

Active == {u \in Users : row[u] = "active"}

(* The accounts that the rows of space_members give access to. *)
Backed == {discordOf[u] : u \in {v \in Active : discordOf[v] # None}}

(* Users are known to the hub with or without an account. *)
Init ==
    /\ provisioned = FALSE
    /\ row = [u \in Users |-> "none"]
    /\ marked = {}
    /\ discordOf \in [Users -> MaybeId]
    /\ \A u \in Users : discordOf[u] # None => <<u, discordOf[u]>> \in CanLink
    /\ \A u, v \in Users :
         u # v /\ discordOf[u] # None => discordOf[u] # discordOf[v]
    /\ connecting = {}
    /\ overwrites = {}
    /\ guild = {}
    /\ waiting = {}
    /\ lock = None
    /\ worker = [w \in Workers |-> Idle]
    /\ steady = [w \in Workers |-> {}]
    /\ requests = 0
    /\ faults = 0

Request == requests < MaxRequests /\ requests' = requests + 1
Fault == faults < MaxFaults /\ faults' = faults + 1

(* An account that loses its row or its user is no longer steady, and none  *)
(* is once the sweep is over.                                               *)
TrackSteady == steady' = [w \in Workers |-> steady[w] \cap Backed']
ForgetSteady(w) == steady' = [steady EXCEPT ![w] = {}]

-----------------------------------------------------------------------------
(* What the store and the Discord client write *)

(* INSERT INTO space_members: a row that exists, revoked or not, stays. *)
CreateSpaceMember(u) == [row EXCEPT ![u] = IF @ = "none" THEN "active" ELSE @]
RevokeSpaceMember(u) == [row EXCEPT ![u] = "revoked"]
SetSpaceMemberOverwriteApplied(u) == marked \cup {u}

SetCollaboratorOverwrite(d) == overwrites \cup {d}
DeleteCollaboratorOverwrite(d) == overwrites \ {d}
AddGuildMember(d) == guild \cup {d}
RemoveGuildMember(d) == guild \ {d}

-----------------------------------------------------------------------------
(* API *)

(* provision_space has applied the channel (see Provisioning): for good. *)
Provisioned ==
    /\ ~provisioned
    /\ provisioned' = TRUE
    /\ UNCHANGED <<row, discordOf, connecting, marked, discordVars, waiting,
                   lock, worker, steady, boundVars>>

(* InviteCollaborator: insert the row, a conflict being no error, then      *)
(* enqueue; the enqueue's error is ignored.                                 *)
InviteCollaborator(u) ==
    /\ Request
    /\ row' = CreateSpaceMember(u)
    /\ waiting' \in {waiting,
                     waiting \cup {[kind |-> "invite", user |-> u]}}
    /\ UNCHANGED <<provisioned, discordOf, connecting, marked, discordVars,
                   lock, worker, steady, faults>>

(* ExpelCollaborator: only enqueues, and ignores the error. *)
ExpelCollaborator(u, kind) ==
    /\ Request
    /\ waiting' \in {waiting, waiting \cup {[kind |-> kind, user |-> u]}}
    /\ UNCHANGED <<desiredVars, marked, discordVars, lock, worker, steady,
                   faults>>

(* Mutant: no UNIQUE constraint on discord_user_id. *)
LinkAccountUnchecked(u, d) ==
    /\ Request
    /\ u \notin connecting
    /\ connecting' = connecting \cup {u}
    /\ discordOf' = [discordOf EXCEPT ![u] = d]
    /\ UNCHANGED <<provisioned, row, marked, discordVars, waiting, lock,
                   worker, faults>>
    /\ TrackSteady

(* OAuthDiscordCallback, the link: an account that another user holds is a  *)
(* conflict and ends the request; any other error is logged.                *)
LinkAccount(u, d) ==
    /\ Request
    /\ u \notin connecting
    /\ \A v \in Users \ {u} : discordOf[v] # d
    /\ connecting' = connecting \cup {u}
    /\ \/ discordOf' = [discordOf EXCEPT ![u] = d] /\ UNCHANGED faults
       \/ Fault /\ UNCHANGED discordOf
    /\ UNCHANGED <<provisioned, row, marked, discordVars, waiting, lock,
                   worker>>
    /\ TrackSteady

(* OAuthDiscordCallback, the rest: when the tokens are stored, an invite    *)
(* task for the user's active row unless it is marked; any error loses it.  *)
EnqueuePendingInvites(u) ==
    /\ u \in connecting
    /\ connecting' = connecting \ {u}
    /\ waiting' \in {waiting} \cup
         (IF u \in Active \ marked
          THEN {waiting \cup {[kind |-> "invite", user |-> u]}} ELSE {})
    /\ UNCHANGED <<provisioned, row, discordOf, marked, discordVars, lock,
                   worker, steady, boundVars>>

(* Staff add or delete a member overwrite by hand in Discord. *)
ManualEdit(d) ==
    /\ ManualEdits /\ provisioned /\ Request
    /\ overwrites' = IF d \in overwrites THEN overwrites \ {d}
                     ELSE overwrites \cup {d}
    /\ UNCHANGED <<desiredVars, marked, guild, waiting, lock, worker, steady,
                   faults>>

-----------------------------------------------------------------------------
(* Start and end of a run *)

TaskOf(w) == [kind |-> worker[w].kind, user |-> worker[w].user]

(* asynq hands a task to an idle goroutine. *)
StartTask(w, t) ==
    /\ worker[w].pc = "idle"
    /\ waiting' = waiting \ {t}
    /\ worker' = [worker EXCEPT ![w] = [Idle EXCEPT
                    !.pc = "acquire", !.kind = t.kind, !.user = t.user]]
    /\ UNCHANGED <<desiredVars, marked, discordVars, lock, steady, boundVars>>

(* The scheduled reconcile:guild task reaches this space. *)
StartSweep(w) ==
    /\ worker[w].pc = "idle"
    /\ worker' = [worker EXCEPT ![w] = [Idle EXCEPT
                    !.pc = "acquire", !.kind = "sweep"]]
    /\ UNCHANGED <<desiredVars, marked, discordVars, waiting, lock, steady,
                   boundVars>>

(* Sweeps always take the lock; invite and expel only when they have one.   *)
Locks(w) == Locking \/ worker[w].kind = "sweep"
Holds(w) ==
    lock = w /\ Locks(w) /\ worker[w].pc \notin {"idle", "acquire"}

(* The handler returns. The deferred ReleaseSpace deletes the lock only     *)
(* when it still carries the run's token; its error is ignored.             *)
End(w) ==
    /\ worker' = [worker EXCEPT ![w] = Idle]
    /\ lock' \in {lock} \cup (IF Holds(w) THEN {None} ELSE {})

(* The run is over: a sweep just ends, a task is done. *)
ReturnOK(w) == End(w) /\ UNCHANGED waiting

(* A failed sweep is left to the next one; a failed task is retried while   *)
(* its budget lasts, then archived.                                         *)
Requeue(w) ==
    \/ UNCHANGED waiting
    \/ worker[w].kind # "sweep" /\ waiting' = waiting \cup {TaskOf(w)}

ReturnError(w) == End(w) /\ Requeue(w)

(* The task's lease is lost and asynq retries it: the worker process has    *)
(* died, or is only slow and goes on with its run. The lock stays behind.   *)
LeaseLost(w) ==
    /\ worker[w].pc # "idle"
    /\ Fault
    /\ Requeue(w)
    /\ \/ UNCHANGED <<worker, steady>>
       \/ worker' = [worker EXCEPT ![w] = Idle] /\ ForgetSteady(w)
    /\ UNCHANGED <<desiredVars, marked, discordVars, lock, requests>>

(* The 30 second TTL of the lock ends: its holder is dead or, with Expiry,  *)
(* still at work.                                                           *)
LockExpires ==
    /\ lock # None
    /\ Expiry \/ ~Holds(lock)
    /\ lock' = None
    /\ UNCHANGED <<desiredVars, marked, discordVars, waiting, worker, steady,
                   boundVars>>

(* Mutant: a held lock is taken over. *)
AcquireSpaceAnyway(w) ==
    /\ worker[w].pc = "acquire"
    /\ lock' = IF Locks(w) THEN w ELSE lock
    /\ worker' = [worker EXCEPT ![w].pc =
                    IF worker[w].kind = "sweep" THEN "list" ELSE "user"]
    /\ UNCHANGED <<desiredVars, marked, discordVars, waiting, steady,
                   boundVars>>

(* AcquireSpace: SET NX with the run's token, or nothing for NoopLocker. A  *)
(* held lock makes a task retry and a sweep skip the space; a Valkey error  *)
(* fails both. Neither releases anything.                                   *)
AcquireSpace(w) ==
    /\ worker[w].pc = "acquire"
    /\ \/ /\ Locks(w) => lock = None
          /\ lock' = IF Locks(w) THEN w ELSE lock
          /\ worker' = [worker EXCEPT ![w].pc =
                          IF worker[w].kind = "sweep" THEN "list" ELSE "user"]
          /\ UNCHANGED <<waiting, faults>>
       \/ /\ Locks(w)
          /\ (lock # None /\ UNCHANGED faults) \/ Fault
          /\ worker' = [worker EXCEPT ![w] = Idle]
          /\ Requeue(w)
          /\ UNCHANGED lock
    /\ UNCHANGED <<desiredVars, marked, discordVars, steady, requests>>

-----------------------------------------------------------------------------
(* invite_collaborator and expel_collaborator *)

(* invite: GetSpaceByID and GetUserByID; without a channel, try later. *)
InviteLoadUser(w) ==
    /\ worker[w].pc = "user" /\ worker[w].kind = "invite"
    /\ \/ /\ provisioned
          /\ worker' = [worker EXCEPT ![w].pc = "member",
                                      ![w].id = discordOf[worker[w].user],
                                      ![w].channel = "known"]
          /\ UNCHANGED <<lock, waiting, faults>>
       \/ ~provisioned /\ ReturnError(w) /\ UNCHANGED faults
       \/ Fault /\ ReturnError(w)
    /\ UNCHANGED <<desiredVars, marked, discordVars, steady, requests>>

(* Mutant: every row is applied, again and again. *)
ToApplyAgain(u) == row[u] # "none"

(* A row, revoked or not, whose overwrite is not recorded as applied. *)
ToApply(u) == row[u] # "none" /\ u \notin marked

(* invite: GetSpaceMemberBySpaceAndUser. Done when there is no row to apply;*)
(* without an account, try later.                                           *)
InviteLoadMember(w) ==
    LET toApply == ToApply(worker[w].user) IN
    /\ worker[w].pc = "member" /\ worker[w].kind = "invite"
    /\ \/ ~toApply /\ ReturnOK(w) /\ UNCHANGED faults
       \/ toApply /\ worker[w].id = None /\ ReturnError(w) /\ UNCHANGED faults
       \/ /\ toApply /\ worker[w].id # None
          /\ worker' = [worker EXCEPT ![w].pc = "join"]
          /\ UNCHANGED <<lock, waiting, faults>>
       \/ Fault /\ ReturnError(w)
    /\ UNCHANGED <<desiredVars, marked, discordVars, steady, requests>>

(* AddGuildMember, if there is a usable token; failing is not fatal. *)
JoinGuild(w) ==
    /\ worker[w].pc = "join"
    /\ guild' \in {guild, AddGuildMember(worker[w].id)}
    /\ worker' = [worker EXCEPT ![w].pc = "grant"]
    /\ UNCHANGED <<desiredVars, marked, overwrites, waiting, lock, steady,
                   boundVars>>

(* SetCollaboratorOverwrite; an error, even when Discord did it, retries.   *)
Grant(w) ==
    /\ worker[w].pc = "grant"
    /\ \/ /\ overwrites' = SetCollaboratorOverwrite(worker[w].id)
          /\ worker' = [worker EXCEPT ![w].pc = "mark"]
          /\ UNCHANGED <<lock, waiting, faults>>
       \/ /\ Fault /\ ReturnError(w)
          /\ overwrites' \in {overwrites,
                              SetCollaboratorOverwrite(worker[w].id)}
    /\ UNCHANGED <<desiredVars, marked, guild, steady, requests>>

(* SetSpaceMemberOverwriteApplied; failing is not fatal. *)
MarkApplied(w) ==
    /\ worker[w].pc = "mark"
    /\ \/ /\ marked' = SetSpaceMemberOverwriteApplied(worker[w].user)
          /\ UNCHANGED faults
       \/ Fault /\ UNCHANGED marked
    /\ ReturnOK(w)
    /\ UNCHANGED <<desiredVars, discordVars, steady, requests>>

(* expel: GetSpaceByID and GetUserByID; there may be no channel yet. *)
ExpelLoadUser(w) ==
    /\ worker[w].pc = "user" /\ worker[w].kind # "invite"
    /\ \/ /\ worker' = [worker EXCEPT
                          ![w].pc = "member",
                          ![w].id = discordOf[worker[w].user],
                          ![w].channel = IF provisioned THEN "known" ELSE @]
          /\ UNCHANGED <<lock, waiting, faults>>
       \/ Fault /\ ReturnError(w)
    /\ UNCHANGED <<desiredVars, marked, discordVars, steady, requests>>

(* expel: GetSpaceMemberBySpaceAndUser; without a row there is nothing to   *)
(* expel.                                                                   *)
ExpelLoadMember(w) ==
    /\ worker[w].pc = "member" /\ worker[w].kind # "invite"
    /\ \/ /\ row[worker[w].user] = "none"
          /\ ReturnOK(w) /\ UNCHANGED faults
       \/ /\ row[worker[w].user] # "none"
          /\ worker' = [worker EXCEPT ![w].pc = "delete"]
          /\ UNCHANGED <<lock, waiting, faults>>
       \/ Fault /\ ReturnError(w)
    /\ UNCHANGED <<desiredVars, marked, discordVars, steady, requests>>

(* DeleteCollaboratorOverwrite when channel and account are known; failing  *)
(* is not fatal.                                                            *)
DeleteOverwrite(w) ==
    /\ worker[w].pc = "delete"
    /\ worker' = [worker EXCEPT ![w].pc =
                    IF worker[w].kind = "expelServer" THEN "kick"
                    ELSE "revoke"]
    /\ IF worker[w].channel = "known" /\ worker[w].id # None
       THEN \/ /\ overwrites' = DeleteCollaboratorOverwrite(worker[w].id)
               /\ UNCHANGED faults
            \/ Fault /\ UNCHANGED overwrites
       ELSE UNCHANGED <<overwrites, faults>>
    /\ UNCHANGED <<desiredVars, marked, guild, waiting, lock, steady,
                   requests>>

(* RemoveGuildMember, server scope only; failing is not fatal. *)
KickMember(w) ==
    /\ worker[w].pc = "kick"
    /\ worker' = [worker EXCEPT ![w].pc = "revoke"]
    /\ IF worker[w].id # None
       THEN \/ guild' = RemoveGuildMember(worker[w].id) /\ UNCHANGED faults
            \/ Fault /\ UNCHANGED guild
       ELSE UNCHANGED <<guild, faults>>
    /\ UNCHANGED <<desiredVars, marked, overwrites, waiting, lock, steady,
                   requests>>

(* RevokeSpaceMember, once: a row that was revoked stays so. An error makes *)
(* the whole task retry.                                                    *)
RevokeMember(w) ==
    /\ worker[w].pc = "revoke"
    /\ \/ /\ row' = RevokeSpaceMember(worker[w].user)
          /\ ReturnOK(w) /\ UNCHANGED faults
       \/ /\ UNCHANGED row
          /\ Fault /\ ReturnError(w)
    /\ UNCHANGED <<provisioned, discordOf, connecting, marked, discordVars,
                   requests>>
    /\ TrackSteady

-----------------------------------------------------------------------------
(* ReconcileSpace *)

(* Mutant: the query does not select the rows of this space. *)
ListMembersOfAllSpaces(w) ==
    /\ worker[w].pc = "list" /\ provisioned
    /\ worker' = [worker EXCEPT ![w].pc = "resolve", ![w].members = Users,
                                ![w].todo = Users]
    /\ steady' = [steady EXCEPT ![w] = Backed]
    /\ UNCHANGED <<desiredVars, marked, discordVars, waiting, lock, boundVars>>

(* ListActiveSpaceMembers of a provisioned space. *)
ListMembers(w) ==
    /\ worker[w].pc = "list"
    /\ \/ /\ provisioned
          /\ worker' = [worker EXCEPT ![w].pc = "resolve",
                                      ![w].members = Active,
                                      ![w].todo = Active]
          /\ steady' = [steady EXCEPT ![w] = Backed]
          /\ UNCHANGED <<lock, waiting, faults>>
       \/ /\ ~provisioned
          /\ ReturnOK(w) /\ UNCHANGED <<steady, faults>>
       \/ Fault /\ ReturnError(w) /\ UNCHANGED steady
    /\ UNCHANGED <<desiredVars, marked, discordVars, requests>>

(* Mutant: a member whose user cannot be read is left out. *)
ResolveMemberSkippingErrors(w, u) ==
    /\ worker[w].pc = "resolve" /\ u \in worker[w].todo
    /\ \/ /\ worker' = [worker EXCEPT
                ![w].todo = @ \ {u},
                ![w].desired = IF discordOf[u] = None THEN @
                               ELSE [@ EXCEPT ![discordOf[u]] = u]]
          /\ UNCHANGED faults
       \/ /\ Fault
          /\ worker' = [worker EXCEPT ![w].todo = @ \ {u}]
    /\ UNCHANGED <<desiredVars, marked, discordVars, waiting, lock, steady,
                   requests>>

(* GetUserByID of one listed member, in any order. A failed read aborts the *)
(* sweep of this space; a user without an account is left out.              *)
ResolveMember(w, u) ==
    /\ worker[w].pc = "resolve" /\ u \in worker[w].todo
    /\ \/ /\ worker' = [worker EXCEPT
                ![w].todo = @ \ {u},
                ![w].desired = IF discordOf[u] = None THEN @
                               ELSE [@ EXCEPT ![discordOf[u]] = u]]
          /\ UNCHANGED <<lock, waiting, steady, faults>>
       \/ Fault /\ ReturnError(w) /\ ForgetSteady(w)
    /\ UNCHANGED <<desiredVars, marked, discordVars, requests>>

DesiredIds(w) == {d \in DiscordIds : worker[w].desired[d] # None}

(* The circuit breaker: rows, overwrites, and yet nobody desired. *)
BreakerTrips(w) ==
    worker[w].members # {} /\ DesiredIds(w) = {} /\ overwrites # {}

(* Mutant: a row marked overwrite_applied is not looked at again. *)
ReadOverwritesTrustingMark(w) ==
    /\ worker[w].pc = "resolve" /\ worker[w].todo = {}
    /\ ~BreakerTrips(w)
    /\ worker' = [worker EXCEPT
          ![w].pc = "repair",
          ![w].prune = overwrites \ DesiredIds(w),
          ![w].reapply = {d \in DesiredIds(w) \ overwrites :
                            worker[w].desired[d] \notin marked}]
    /\ UNCHANGED <<desiredVars, marked, discordVars, waiting, lock, steady,
                   boundVars>>

(* GetChannelOverwrites and the diff of the two sets. *)
ReadOverwrites(w) ==
    /\ worker[w].pc = "resolve" /\ worker[w].todo = {}
    /\ \/ /\ ~BreakerTrips(w)
          /\ worker' = [worker EXCEPT
                          ![w].pc = "repair",
                          ![w].prune = overwrites \ DesiredIds(w),
                          ![w].reapply = DesiredIds(w) \ overwrites]
          /\ UNCHANGED <<lock, waiting, steady, faults>>
       \/ /\ BreakerTrips(w)
          /\ ReturnError(w) /\ ForgetSteady(w) /\ UNCHANGED faults
       \/ Fault /\ ReturnError(w) /\ ForgetSteady(w)
    /\ UNCHANGED <<desiredVars, marked, discordVars, requests>>

(* Rule 1: revoke an overwrite that is not desired; on to the next on error.*)
PruneOverwrite(w, d) ==
    /\ worker[w].pc = "repair" /\ d \in worker[w].prune
    /\ worker' = [worker EXCEPT ![w].prune = @ \ {d}]
    /\ \/ overwrites' = DeleteCollaboratorOverwrite(d) /\ UNCHANGED faults
       \/ Fault /\ UNCHANGED overwrites
    /\ UNCHANGED <<desiredVars, marked, guild, waiting, lock, steady,
                   requests>>

(* Rule 2, after rule 1: re-apply an overwrite that is missing. *)
ReapplyOverwrite(w, d) ==
    /\ worker[w].pc = "repair" /\ worker[w].prune = {}
    /\ d \in worker[w].reapply
    /\ \/ /\ overwrites' = SetCollaboratorOverwrite(d)
          /\ worker' = [worker EXCEPT ![w].reapply = @ \ {d},
                                      ![w].pc = "remark",
                                      ![w].user = worker[w].desired[d]]
          /\ UNCHANGED faults
       \/ /\ Fault
          /\ overwrites' \in {overwrites, SetCollaboratorOverwrite(d)}
          /\ worker' = [worker EXCEPT ![w].reapply = @ \ {d}]
    /\ UNCHANGED <<desiredVars, marked, guild, waiting, lock, steady,
                   requests>>

(* SetSpaceMemberOverwriteApplied of the re-applied row; not fatal. *)
MarkReapplied(w) ==
    /\ worker[w].pc = "remark"
    /\ worker' = [worker EXCEPT ![w].pc = "repair", ![w].user = None]
    /\ \/ /\ marked' = SetSpaceMemberOverwriteApplied(worker[w].user)
          /\ UNCHANGED faults
       \/ Fault /\ UNCHANGED marked
    /\ UNCHANGED <<desiredVars, discordVars, waiting, lock, steady, requests>>

EndSweep(w) ==
    /\ worker[w].pc = "repair"
    /\ worker[w].prune = {} /\ worker[w].reapply = {}
    /\ ReturnOK(w) /\ ForgetSteady(w)
    /\ UNCHANGED <<desiredVars, marked, discordVars, boundVars>>

-----------------------------------------------------------------------------

TaskStep(w) ==
    \/ InviteLoadUser(w) \/ InviteLoadMember(w) \/ JoinGuild(w) \/ Grant(w)
    \/ MarkApplied(w)
    \/ ExpelLoadUser(w) \/ ExpelLoadMember(w) \/ DeleteOverwrite(w)
    \/ KickMember(w) \/ RevokeMember(w)

SweepStep(w) ==
    \/ ListMembers(w)
    \/ \E u \in worker[w].todo : ResolveMember(w, u)
    \/ ReadOverwrites(w)
    \/ \E d \in worker[w].prune : PruneOverwrite(w, d)
    \/ \E d \in worker[w].reapply : ReapplyOverwrite(w, d)
    \/ MarkReapplied(w) \/ EndSweep(w)

RunStep(w) == AcquireSpace(w) \/ TaskStep(w) \/ SweepStep(w)

Next ==
    \/ Provisioned
    \/ \E u \in Users :
         \/ InviteCollaborator(u)
         \/ \E kind \in TaskKinds \ {"invite"} : ExpelCollaborator(u, kind)
         \/ \E d \in {e \in DiscordIds : <<u, e>> \in CanLink} :
              LinkAccount(u, d)
         \/ EnqueuePendingInvites(u)
    \/ \E d \in DiscordIds : ManualEdit(d)
    \/ \E w \in Workers :
         \/ \E t \in waiting : StartTask(w, t)
         \/ StartSweep(w) \/ RunStep(w) \/ LeaseLost(w)
    \/ LockExpires

Spec == Init /\ [][Next]_vars

(* Goroutines run, keys expire, and the scheduler's sweeps are served again *)
(* and again however busy the other queues are (asynq's weighted queues).   *)
(* Clients, staff, failures and queued tasks are under no obligation.       *)
Fairness ==
    /\ \A w \in Workers : WF_vars(RunStep(w))
    /\ SF_vars(\E w \in Workers : StartSweep(w))
    /\ WF_vars(LockExpires)

FairSpec == Spec /\ Fairness

-----------------------------------------------------------------------------
(* Properties *)

(* However invites, expulsions, re-links and other sweeps interleave with a *)
(* sweep, and whatever reads of it fail, the overwrites it sets out to      *)
(* revoke never include that of a member whose row and account have been    *)
(* there since it listed the rows (the mass-revocation of SEC-M5-001).      *)
SweepSparesSteadyMembers ==
    \A w \in Workers : worker[w].prune \cap steady[w] = {}

(* Only accounts of people who were invited to the space ever hold an       *)
(* overwrite, unless staff edit the channel by hand: neither a task that    *)
(* outlives its row or its link nor a sweep with a stale list opens the     *)
(* channel to anyone else.                                                  *)
OnlyInvitedHaveAccess ==
    ~ManualEdits =>
        \A d \in overwrites :
            \E u \in Users : <<u, d>> \in CanLink /\ row[u] # "none"

(* What a sweep is about to re-apply belongs to members who are active now, *)
(* not only when the sweep listed them: no expulsion can run in between.    *)
SweepReappliesActive ==
    \A w \in Workers : \A d \in worker[w].reapply :
        row[worker[w].desired[d]] = "active"

(* What a sweep is about to revoke is not backed by any row: no invite can  *)
(* grant an overwrite after the sweep listed the rows and before it read    *)
(* the overwrites.                                                          *)
SweepRevokesUnbacked ==
    \A w \in Workers : worker[w].prune \cap Backed \cap overwrites = {}

(* With the per-space lock a sweep acts on current rows, although it read   *)
(* them one call after another: what it is about to re-apply is due, and    *)
(* what it is about to revoke is not.                                       *)
SweepActsOnCurrentRows == SweepReappliesActive /\ SweepRevokesUnbacked

(* With the per-space lock, and nothing failing, a sweep that has nothing   *)
(* left to do has repaired the channel: every overwrite, the drift that     *)
(* late invites left behind included, is backed by a row, and every account *)
(* backed since the rows were listed has its overwrite again.               *)
SweepRepairs ==
    \A w \in Workers :
        /\ worker[w].pc = "repair" /\ faults = 0
        /\ worker[w].prune = {} /\ worker[w].reapply = {}
        => steady[w] \subseteq overwrites /\ overwrites \subseteq Backed

(* With the per-space lock, an overwrite only ever appears for an account   *)
(* of a member who is active or whose overwrite was never recorded: once it *)
(* was, neither a repeated or delayed invite, nor an invite after the       *)
(* expulsion (whose row stays revoked), nor a sweep lets an expelled        *)
(* member back in.                                                          *)
ExpelledStayOut ==
    [][~ManualEdits =>
        \A d \in overwrites' \ overwrites :
            \E u \in Users : /\ <<u, d>> \in CanLink
                             /\ \/ row[u] = "active"
                                \/ row[u] = "revoked" /\ u \notin marked]_vars

(* Desired and real state converge: once clients, staff and failures are    *)
(* quiet, the channel's overwrites settle on exactly the accounts backed by *)
(* active rows, unless no active member has connected an account (then the  *)
(* circuit breaker keeps sweeps from revoking anything).                    *)
Converges ==
    <>[](provisioned =>
           overwrites = Backed \/ (Active # {} /\ Backed = {}))
=============================================================================
