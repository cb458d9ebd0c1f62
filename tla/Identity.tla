------------------------------ MODULE Identity ------------------------------
(***************************************************************************)
(* The users table and what hangs on a row of it: invitations that look a  *)
(* user up or create it, the "Connect with Discord" states and callbacks   *)
(* that link an account and store its token, and the roster of agents      *)
(* whose Agent role project_agent_role tasks add and remove.               *)
(*                                                                         *)
(* Nothing here holds a transaction or a lock across two statements. The   *)
(* channels of the invited are in Membership.                              *)
(***************************************************************************)
EXTENDS Integers, Sequences

CONSTANTS
    Users,      \* ids of rows, in use or not
    Emails,
    Accounts,   \* Discord accounts
    States,     \* OAuth2 state tokens, one nonce each
    Requests,   \* HTTP requests, each sent at most once
    Workers,    \* asynq handler goroutines
    None,       \* NULL
    Runes,      \* characters of names, the space among them
    Names,      \* display names and suffixes, as sequences of runes
    NickMax,    \* longest nickname Discord takes (discordNickMax)
    MaxRetry,   \* bound: asynq's retries of a task
    MaxFaults   \* bound: store, asynq and Discord errors and crashes

ASSUME NoneAssumption ==
    None \notin Users \cup Emails \cup Accounts \cup States
                 \cup {"agent", "collaborator"}
ASSUME BoundsAssumption ==
    MaxRetry \in Nat /\ MaxFaults \in Nat /\ NickMax \in Nat \ {0}
ASSUME NamesAssumption == " " \in Runes /\ Names \subseteq Seq(Runes)

VARIABLES
    type,       \* users.type; None: there is no such row
    active,     \* users.is_active
    email,      \* users.email, not unique
    account,    \* users.discord_user_id, unique
    token,      \* oauth_tokens: the account whose token is stored for a user
    nonce,      \* Valkey: the user of each nonce that is still there
    task,       \* project_agent_role tasks in asynq, by user and kind
    retries,    \* retries of each of them
    role,       \* Discord: accounts that have the Agent role
    request,    \* local state of each API request
    worker,     \* local state of each handler goroutine
    issued,     \* history: the user a state was issued for
    redeemed,   \* history: how many callbacks a state was good for
    viaEmail,   \* history: rows that invitations by email created
    rivals,     \* history: emails two such invitations missed at a time
    torn,       \* history: users whose link or token was lost or raced
    disturbed,  \* history: agents whose tasks were lost or met each other
    moved,      \* history: accounts that left a row
    faults      \* failures so far

rowVars == <<type, active, email>>
taskVars == <<task, retries>>
oauthVars == <<token, nonce, issued, redeemed, torn>>
emailVars == <<viaEmail, rivals>>
roleVars == <<role, disturbed>>
vars == <<rowVars, account, oauthVars, taskVars, request, worker, emailVars,
          roleVars, moved, faults>>

-----------------------------------------------------------------------------
(* Types *)

Kinds == {"add", "remove"}
Tasks == Users \X Kinds
MaybeUser == Users \cup {None}
MaybeAccount == Accounts \cup {None}
MaybeEmail == Emails \cup {None}

RequestRec ==
    [pc : {"unsent", "create", "issue", "add", "remove", "link", "store",
           "done"},
     user : MaybeUser, email : MaybeEmail, account : MaybeAccount]
Unsent == [pc |-> "unsent", user |-> None, email |-> None, account |-> None]
Done == [Unsent EXCEPT !.pc = "done"]
WorkerRec ==
    [pc : {"idle", "load", "assign", "unassign", "finish"},
     task : Tasks \cup {None}, account : MaybeAccount]
Idle == [pc |-> "idle", task |-> None, account |-> None]

(* Type invariant: every variable stays in its declared set, and no two     *)
(* rows hold the same account.                                              *)
TypeOK ==
    /\ type \in [Users -> {"agent", "collaborator", None}]
    /\ active \in SUBSET Users
    /\ email \in [Users -> MaybeEmail]
    /\ account \in [Users -> MaybeAccount]
    /\ \A u, v \in Users :
         u # v => account[u] # account[v] \/ account[u] = None
    /\ token \in [Users -> MaybeAccount]
    /\ nonce \in [States -> MaybeUser]
    /\ task \in [Tasks -> {"none", "waiting", "running", "dead"}]
    /\ retries \in [Tasks -> 0..MaxRetry]
    /\ role \in SUBSET Accounts
    /\ request \in [Requests -> RequestRec]
    /\ worker \in [Workers -> WorkerRec]
    /\ issued \in [States -> MaybeUser]
    /\ redeemed \in [States -> Nat]
    /\ viaEmail \in SUBSET Users
    /\ rivals \in SUBSET Emails
    /\ torn \in SUBSET Users
    /\ disturbed \in SUBSET Users
    /\ moved \in SUBSET Accounts
    /\ faults \in 0..MaxFaults

Init ==
    /\ type = [u \in Users |-> None]
    /\ active = {}
    /\ email = [u \in Users |-> None]
    /\ account = [u \in Users |-> None]
    /\ token = [u \in Users |-> None]
    /\ nonce = [s \in States |-> None]
    /\ task = [t \in Tasks |-> "none"]
    /\ retries = [t \in Tasks |-> 0]
    /\ role = {}
    /\ request = [q \in Requests |-> Unsent]
    /\ worker = [w \in Workers |-> Idle]
    /\ issued = [s \in States |-> None]
    /\ redeemed = [s \in States |-> 0]
    /\ viaEmail = {} /\ rivals = {}
    /\ torn = {} /\ disturbed = {} /\ moved = {}
    /\ faults = 0

Fault == faults < MaxFaults /\ faults' = faults + 1

Goto(q, pc) == request' = [request EXCEPT ![q].pc = pc]
Proceed(q, pc, u) == request' = [request EXCEPT ![q] =
                                   [Unsent EXCEPT !.pc = pc, !.user = u]]
Reply(q) == request' = [request EXCEPT ![q] = Done]

-----------------------------------------------------------------------------
(* The users statements of the store *)

GetUserByDiscordID(d) == {u \in Users : d # None /\ account[u] = d}

(* Mutant: only users that have connected are found. *)
GetUserByEmailConnected(e) ==
    {u \in Users : e # None /\ email[u] = e /\ account[u] # None}

GetUserByEmail(e) == {u \in Users : e # None /\ email[u] = e}

(* INSERT INTO users under UNIQUE (discord_user_id); the id is a new one. *)
CreateUser(u, t, e, d) ==
    /\ GetUserByDiscordID(d) = {}
    /\ type[u] = None
    /\ type' = [type EXCEPT ![u] = t]
    /\ active' = active \cup {u}
    /\ email' = [email EXCEPT ![u] = e]
    /\ account' = [account EXCEPT ![u] = d]

(* Mutant: without the constraint. *)
UpdateDiscordUserIDUnchecked(u, d) ==
    /\ account' = [account EXCEPT ![u] = d]
    /\ moved' = moved \cup ({account[u]} \ {None, d})
    /\ UNCHANGED disturbed

(* UPDATE users SET discord_user_id, under the same constraint. *)
UpdateDiscordUserID(u, d) ==
    /\ GetUserByDiscordID(d) \subseteq {u}
    /\ account' = [account EXCEPT ![u] = d]
    /\ LET left == {account[u]} \ {None, d} IN
         /\ moved' = moved \cup left
         /\ disturbed' = disturbed \cup {v \in {u} : left # {}}

DeactivateUser(u) == active' = active \ {u}

UpsertOAuthToken(u, d) == token' = [token EXCEPT ![u] = d]

-----------------------------------------------------------------------------
(* InviteCollaborator: whom the request is about, and a state to connect    *)

(* A user without an account gets a connect_url; the row is as it was read. *)
Resolve(q, u) == IF account[u] = None THEN Proceed(q, "issue", u) ELSE Reply(q)

(* resolveByUserID: agents may be invited as well. *)
InviteByUserID(q, u) ==
    /\ request[q].pc = "unsent"
    /\ type[u] # None
    /\ Resolve(q, u)
    /\ UNCHANGED <<rowVars, account, oauthVars, taskVars, worker, emailVars,
                   roleVars, moved, faults>>

(* resolveOrCreateByDiscordID, the lookup; the email is only recorded. *)
InviteByDiscordID(q, d, e) ==
    /\ request[q].pc = "unsent"
    /\ IF GetUserByDiscordID(d) = {}
       THEN request' = [request EXCEPT ![q] = [Unsent EXCEPT
                          !.pc = "create", !.email = e, !.account = d]]
       ELSE Reply(q)
    /\ UNCHANGED <<rowVars, account, oauthVars, taskVars, worker, emailVars,
                   roleVars, moved, faults>>

Missing(q, e) == request[q].pc = "create" /\ request[q].email = e
                   /\ request[q].account = None

(* resolveOrCreateByEmail, the lookup; of several rows, any is returned. *)
InviteByEmail(q, e) ==
    /\ request[q].pc = "unsent"
    /\ \/ \E u \in GetUserByEmail(e) : Resolve(q, u) /\ UNCHANGED rivals
       \/ /\ GetUserByEmail(e) = {}
          /\ request' = [request EXCEPT ![q] = [Unsent EXCEPT
                            !.pc = "create", !.email = e]]
          /\ rivals' = rivals \cup {f \in {e} : \E p \in Requests : Missing(p, f)}
    /\ UNCHANGED <<rowVars, account, oauthVars, taskVars, worker, viaEmail,
                   roleVars, moved, faults>>

(* CreateUser for an unknown collaborator. On a conflict the row that holds *)
(* the account is read again, and needs no connect_url.                     *)
CreateCollaborator(q) ==
    LET e == request[q].email
        d == request[q].account IN
    /\ request[q].pc = "create"
    /\ \/ \E u \in Users :
            /\ CreateUser(u, "collaborator", e, d)
            /\ viaEmail' = viaEmail \cup {v \in {u} : d = None}
            /\ \/ /\ UNCHANGED faults
                  /\ IF d = None THEN Proceed(q, "issue", u) ELSE Reply(q)
               \/ Fault /\ Reply(q)
       \/ /\ GetUserByDiscordID(d) # {} /\ Reply(q)
          /\ UNCHANGED <<rowVars, account, viaEmail, faults>>
    /\ UNCHANGED <<oauthVars, taskVars, worker, rivals, roleVars, moved>>

(* SET with the TTL *)
SetNonce(s, u) == nonce' = [nonce EXCEPT ![s] = u]

(* StateManager.Issue with a new nonce. *)
Issue(q, s) ==
    /\ request[q].pc = "issue"
    /\ issued[s] = None
    /\ SetNonce(s, request[q].user)
    /\ issued' = [issued EXCEPT ![s] = request[q].user]
    /\ Reply(q)
    /\ UNCHANGED <<rowVars, account, token, redeemed, torn, taskVars, worker,
                   emailVars, roleVars, moved, faults>>

(* Valkey: a nonce lives for stateTTL. *)
NonceExpires(s) ==
    /\ nonce[s] # None
    /\ nonce' = [nonce EXCEPT ![s] = None]
    /\ UNCHANGED <<rowVars, account, token, issued, redeemed, torn, taskVars,
                   request, worker, emailVars, roleVars, moved, faults>>

-----------------------------------------------------------------------------
(* OAuthDiscordCallback *)

Connecting(q, u) == request[q].pc \in {"link", "store"} /\ request[q].user = u

(* Mutant: GET alone. *)
ConsumeNonceKeeping(s) == UNCHANGED nonce

(* GETDEL *)
ConsumeNonce(s) == nonce' = [nonce EXCEPT ![s] = None]

(* StateManager.Validate. The browser brings a state and the account that   *)
(* authorised; a state that was not issued (the user id AddAgent puts in    *)
(* its connect_url), is spent or has expired ends the request.              *)
Validate(q, s, d) ==
    LET u == nonce[s] IN
    /\ request[q].pc = "unsent"
    /\ u # None
    /\ ConsumeNonce(s)
    /\ redeemed' = [redeemed EXCEPT ![s] = @ + 1]
    /\ torn' = torn \cup {v \in {u} : \E p \in Requests : Connecting(p, v)}
    /\ request' = [request EXCEPT ![q] = [Unsent EXCEPT
                      !.pc = "link", !.user = u, !.account = d]]
    /\ UNCHANGED <<rowVars, account, token, issued, taskVars, worker,
                   emailVars, roleVars, moved, faults>>

(* ExchangeCode or FetchDiscordUser fails, or the user has denied access:   *)
(* the state is spent all the same.                                         *)
ExchangeFails(q) ==
    /\ request[q].pc = "link"
    /\ Reply(q)
    /\ UNCHANGED <<rowVars, account, oauthVars, taskVars, worker, emailVars,
                   roleVars, moved, faults>>

(* Mutant: a conflict is logged like any other error. *)
LinkDiscordUserIDOrGoOn(q) ==
    LET u == request[q].user
        d == request[q].account IN
    /\ request[q].pc = "link"
    /\ Goto(q, "store")
    /\ \/ UpdateDiscordUserID(u, d)
       \/ /\ ~ GetUserByDiscordID(d) \subseteq {u}
          /\ UNCHANGED <<account, moved, disturbed>>
    /\ UNCHANGED <<rowVars, oauthVars, taskVars, worker, emailVars, role,
                   faults>>

(* linkDiscordUserID: a conflict ends the request, another error does not.  *)
LinkDiscordUserID(q) ==
    LET u == request[q].user
        d == request[q].account IN
    /\ request[q].pc = "link"
    /\ \/ UpdateDiscordUserID(u, d) /\ Goto(q, "store") /\ UNCHANGED <<torn, faults>>
       \/ /\ ~ GetUserByDiscordID(d) \subseteq {u}
          /\ Reply(q)
          /\ UNCHANGED <<account, moved, disturbed, torn, faults>>
       \/ /\ Fault /\ Goto(q, "store")
          /\ torn' = torn \cup {u}
          /\ UpdateDiscordUserID(u, d) \/ UNCHANGED <<account, moved, disturbed>>
    /\ UNCHANGED <<rowVars, token, nonce, issued, redeemed, taskVars, worker,
                   emailVars, role>>

(* TokenStore.Store, and the answer. *)
StoreToken(q) ==
    LET u == request[q].user IN
    /\ request[q].pc = "store"
    /\ Reply(q)
    /\ \/ UpsertOAuthToken(u, request[q].account) /\ UNCHANGED <<torn, faults>>
       \/ Fault /\ torn' = torn \cup {u} /\ UNCHANGED token
    /\ UNCHANGED <<rowVars, account, nonce, issued, redeemed, taskVars, worker,
                   emailVars, roleVars, moved>>

-----------------------------------------------------------------------------
(* AddAgent and RemoveAgent *)

(* CreateUser. If the answer is lost, nothing is enqueued. *)
AddAgent(q, e, d) ==
    /\ request[q].pc = "unsent"
    /\ \E u \in Users :
         /\ CreateUser(u, "agent", e, d)
         /\ \/ Proceed(q, "add", u) /\ UNCHANGED <<disturbed, faults>>
            \/ Fault /\ Reply(q) /\ disturbed' = disturbed \cup {u}
    /\ UNCHANGED <<oauthVars, taskVars, worker, emailVars, role, moved>>

(* GetUserByID, whose type never changes, and DeactivateUser. *)
RemoveAgent(q, u) ==
    /\ request[q].pc = "unsent"
    /\ type[u] = "agent"
    /\ DeactivateUser(u)
    /\ \/ Proceed(q, "remove", u) /\ UNCHANGED <<disturbed, faults>>
       \/ Fault /\ Reply(q) /\ disturbed' = disturbed \cup {u}
    /\ UNCHANGED <<type, email, account, oauthVars, taskVars, worker,
                   emailVars, role, moved>>

(* Is something of kind k still under way for agent u? *)
UnderWay(u, k) ==
    \/ task[<<u, k>>] # "none"
    \/ \E q \in Requests : request[q].pc = k /\ request[q].user = u
    \/ \E w \in Workers : worker[w].task = <<u, k>>

(* Enqueue under the id project_agent_role:<user>:<kind>: asynq refuses an  *)
(* id it still knows. The refusal and any other error are only logged.      *)
EnqueueRole(q) ==
    LET u == request[q].user
        k == request[q].pc
        meets == k = "remove" /\ UnderWay(u, "add") IN
    /\ k \in Kinds
    /\ Reply(q)
    /\ \/ /\ task[<<u, k>>] = "none"
          /\ task' = [task EXCEPT ![<<u, k>>] = "waiting"]
          /\ disturbed' = disturbed \cup {v \in {u} : meets}
          /\ UNCHANGED <<retries, faults>>
       \/ task[<<u, k>>] # "none" /\ UNCHANGED <<taskVars, disturbed, faults>>
       \/ Fault /\ disturbed' = disturbed \cup {u} /\ UNCHANGED taskVars
    /\ UNCHANGED <<rowVars, account, oauthVars, worker, emailVars, role, moved>>

-----------------------------------------------------------------------------
(* project_agent_role *)

StartTask(w, t) ==
    /\ worker[w].pc = "idle" /\ task[t] = "waiting"
    /\ task' = [task EXCEPT ![t] = "running"]
    /\ worker' = [worker EXCEPT ![w] = [Idle EXCEPT !.pc = "load", !.task = t]]
    /\ UNCHANGED <<rowVars, account, oauthVars, retries, request, emailVars,
                   roleVars, moved, faults>>

(* asynq retries a running task while its budget lasts, and keeps it dead   *)
(* after that. A goroutine that lost its lease settles nothing, unless the  *)
(* task runs again.                                                         *)
Retry(t) ==
    IF task[t] # "running" THEN UNCHANGED <<taskVars, disturbed>>
    ELSE LET again == retries[t] < MaxRetry IN
         /\ task' = [task EXCEPT ![t] = IF again THEN "waiting" ELSE "dead"]
         /\ retries' = [retries EXCEPT ![t] = IF again THEN @ + 1 ELSE @]
         /\ disturbed' = disturbed \cup {u \in {t[1]} : ~ again}

ReturnError(w) ==
    /\ worker' = [worker EXCEPT ![w] = Idle]
    /\ Retry(worker[w].task)

(* Mutant: an agent who has not connected is skipped. *)
LoadUserSkipping(w) ==
    LET d == account[worker[w].task[1]] IN
    /\ worker[w].pc = "load"
    /\ worker' = [worker EXCEPT ![w].account = d, ![w].pc =
                     IF d = None THEN "finish" ELSE
                     IF worker[w].task[2] = "add" THEN "assign" ELSE "unassign"]
    /\ UNCHANGED <<rowVars, account, oauthVars, taskVars, request, emailVars,
                   roleVars, moved, faults>>

(* GetUserByID: an agent who has not connected yet is retried. Tasks are    *)
(* only made for agents; whether the agent is active is not looked at.      *)
LoadUser(w) ==
    LET d == account[worker[w].task[1]] IN
    /\ worker[w].pc = "load"
    /\ \/ /\ d # None
          /\ worker' = [worker EXCEPT ![w].account = d, ![w].pc =
                           IF worker[w].task[2] = "add" THEN "assign"
                           ELSE "unassign"]
          /\ UNCHANGED <<taskVars, disturbed, faults>>
       \/ d = None /\ ReturnError(w) /\ UNCHANGED faults
       \/ Fault /\ ReturnError(w)
    /\ UNCHANGED <<rowVars, account, oauthVars, request, emailVars, role,
                   moved>>

(* A change of the role that reports an error may have been made. *)
ChangeRole(w, changed) ==
    /\ \/ /\ role' = changed
          /\ worker' = [worker EXCEPT ![w].pc = "finish"]
          /\ UNCHANGED <<taskVars, disturbed, faults>>
       \/ role' \in {role, changed} /\ Fault /\ ReturnError(w)
    /\ UNCHANGED <<rowVars, account, oauthVars, request, emailVars, moved>>

AssignRole(w) ==
    /\ worker[w].pc = "assign"
    /\ ChangeRole(w, role \cup {worker[w].account})

RemoveRole(w) ==
    /\ worker[w].pc = "unassign"
    /\ ChangeRole(w, role \ {worker[w].account})

(* The handler returns nil (stamping provisioned_at and the nickname do not *)
(* fail it) and asynq forgets the task.                                     *)
Finish(w) ==
    LET t == worker[w].task IN
    /\ worker[w].pc = "finish"
    /\ worker' = [worker EXCEPT ![w] = Idle]
    /\ IF task[t] = "running"
       THEN /\ task' = [task EXCEPT ![t] = "none"]
            /\ retries' = [retries EXCEPT ![t] = 0]
       ELSE UNCHANGED taskVars
    /\ UNCHANGED <<rowVars, account, oauthVars, request, emailVars, roleVars,
                   moved, faults>>

(* The task's lease is lost and asynq's recoverer retries it: the worker    *)
(* process has died, or is only slow and goes on.                           *)
LeaseLost(w) ==
    /\ worker[w].pc # "idle"
    /\ Fault
    /\ Retry(worker[w].task)
    /\ worker' \in {worker, [worker EXCEPT ![w] = Idle]}
    /\ UNCHANGED <<rowVars, account, oauthVars, request, emailVars, role,
                   moved>>

-----------------------------------------------------------------------------
(* buildNickname, the mark on an agent's name *)

HasSuffix(base, suffix) ==
    /\ Len(suffix) <= Len(base)
    /\ SubSeq(base, Len(base) - Len(suffix) + 1, Len(base)) = suffix
Truncated(runes, n) == IF Len(runes) <= n THEN runes ELSE SubSeq(runes, 1, n)

(* Mutant: the room for the space is forgotten. *)
buildNicknameTight(base, suffix) ==
    CASE base = <<>> -> suffix
      [] HasSuffix(base, suffix) -> base
      [] Len(suffix) < NickMax ->
           Truncated(base, NickMax - Len(suffix)) \o <<" ">> \o suffix
      [] OTHER -> Truncated(suffix, NickMax)

(* A name that carries the suffix is kept as it is, whatever its length;    *)
(* another is cut so that a space and the suffix fit, and is left out if    *)
(* they leave no room.                                                      *)
buildNickname(base, suffix) ==
    LET available == NickMax - (Len(suffix) + 1)
        marked(name) == name \o <<" ">> \o suffix IN
    IF base = <<>> THEN suffix
    ELSE IF HasSuffix(base, suffix) THEN base
    ELSE IF Len(marked(base)) <= NickMax THEN marked(base)
    ELSE IF available <= 0 THEN Truncated(suffix, NickMax)
    ELSE marked(Truncated(base, available))

-----------------------------------------------------------------------------

Send(q) ==
    \/ \E u \in Users : InviteByUserID(q, u) \/ RemoveAgent(q, u)
    \/ \E e \in Emails : InviteByEmail(q, e)
    \/ \E d \in Accounts, e \in MaybeEmail : InviteByDiscordID(q, d, e)
    \/ \E e \in Emails, d \in MaybeAccount : AddAgent(q, e, d)
    \/ \E s \in States, d \in Accounts : Validate(q, s, d)

RequestStep(q) ==
    \/ CreateCollaborator(q) \/ ExchangeFails(q) \/ LinkDiscordUserID(q)
    \/ StoreToken(q) \/ EnqueueRole(q)
    \/ \E s \in States : Issue(q, s)

WorkerStep(w) ==
    \/ LoadUser(w) \/ AssignRole(w) \/ RemoveRole(w) \/ Finish(w)

Next ==
    \/ \E q \in Requests : Send(q) \/ RequestStep(q)
    \/ \E s \in States : NonceExpires(s)
    \/ \E w \in Workers :
         WorkerStep(w) \/ LeaseLost(w) \/ \E t \in Tasks : StartTask(w, t)

Spec == Init /\ [][Next]_vars

-----------------------------------------------------------------------------
(* Properties *)

(* A state token is good for one callback, however many carry it at a time. *)
StateRedeemedOnce == \A s \in States : redeemed[s] <= 1

(* The token an invite task joins the guild with is the token of the        *)
(* account the row is linked to, once no callback of the user is under way: *)
(* a failed exchange, a denial and an account that belongs to somebody else *)
(* change neither. Only an error of the link or of the token's write, or    *)
(* two callbacks of the user at a time, tear the two apart.                 *)
TokenMatchesLink ==
    \A u \in Users \ torn :
        (\A q \in Requests : ~ Connecting(q, u)) /\ token[u] # None
            => token[u] = account[u]

(* users.email is not unique: invitations by email create a second row for  *)
(* an email only if two of them missed it at the same time.                 *)
EmailResolvedOnce ==
    \A u, v \in viaEmail : u # v /\ email[u] = email[v] => email[u] \in rivals

(* Once none of its requests and tasks is under way, a connected agent has  *)
(* the Agent role exactly if the roster says it is active, though its tasks *)
(* were deferred until it connected, retried, or ran twice. Lost or dead    *)
(* tasks, a removal that meets the addition, and accounts that change hands *)
(* are the exceptions, and there is no sweep over roles that repairs them.  *)
RoleMatchesRoster ==
    \A u \in Users \ disturbed :
        /\ type[u] = "agent"
        /\ account[u] \notin moved \cup {None}
        /\ ~ UnderWay(u, "add") /\ ~ UnderWay(u, "remove")
        => (account[u] \in role <=> u \in active)

(* Whatever fails, repeats or runs late, the role is only taken from an     *)
(* agent that the roster has struck off; and once a removal's task is in    *)
(* the queue or running, a late addition no longer gives the role to an     *)
(* agent whose tasks did not meet. Only an account that has changed hands   *)
(* can lose or gain it out of order.                                        *)
RoleChangesInOrder ==
    [][\A u \in Users : account[u] \notin moved =>
         /\ account[u] \in role \ role' => u \notin active
         /\ account[u] \in role' \ role /\ u \notin disturbed =>
              /\ task[<<u, "remove">>] = "none"
              /\ \A w \in Workers :
                   \/ worker[w].pc = "idle"
                   \/ worker[w].task # <<u, "remove">>]_vars

GoodNickname(name, suffix, nick) ==
    LET kept == Len(nick) - Len(suffix) - 1 IN
    /\ buildNickname(nick, suffix) = nick
    /\ Len(nick) <= NickMax \/ HasSuffix(name, suffix) \/ name = <<>>
    /\ Len(suffix) <= NickMax => HasSuffix(nick, suffix)
    /\ kept > 0 /\ nick # name =>
         /\ SubSeq(nick, 1, kept) = SubSeq(name, 1, kept)
         /\ kept = Len(name) \/ Len(nick) = NickMax

MarksEveryName ==
    \A name \in Names, suffix \in Names \ {<<>>} :
        GoodNickname(name, suffix, buildNickname(name, suffix))

(* Whatever the agent's name, the nickname set with the role is stable (a   *)
(* task that is retried applies it again), fits unless the name or suffix   *)
(* it was made of did not, carries the suffix if there is room for it, and  *)
(* loses no more of the name than it has to.                                *)
NicknameMarks ==
    \A w \in Workers :
        worker[w].pc = "finish" /\ worker[w].task[2] = "add" => MarksEveryName
=============================================================================
