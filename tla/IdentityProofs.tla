--------------------------- MODULE IdentityProofs ---------------------------
(***************************************************************************)
(* Proofs about Identity, for any users, emails, accounts, states,         *)
(* requests and goroutines and any number of retries and failures.         *)
(***************************************************************************)
EXTENDS Identity, SequenceTheorems, TLAPS

USE BoundsAssumption, NoneAssumption

-----------------------------------------------------------------------------
(* Types *)

(* What a request and a run hold in hand at each of their steps. *)
TypedRequest(x) ==
    /\ x \in RequestRec
    /\ x.pc \in {"issue", "add", "remove", "link", "store"} => x.user \in Users
    /\ x.pc \in {"link", "store"} => x.account \in Accounts
    /\ x.pc = "create" /\ x.account = None => x.email \in Emails

TypedWorker(x) ==
    /\ x \in WorkerRec
    /\ x.pc # "idle" => x.task \in Tasks
    /\ x.pc \in {"assign", "unassign", "finish"} => x.account \in Accounts
    /\ x.pc = "assign" => x.task[2] = "add"
    /\ x.pc = "unassign" => x.task[2] = "remove"

TypeInv ==
    /\ TypeOK
    /\ \A q \in Requests : TypedRequest(request[q])
    /\ \A w \in Workers : TypedWorker(worker[w])

-----------------------------------------------------------------------------
(* States, rows, tokens and emails *)

StateInv ==
    \A s \in States :
        /\ redeemed[s] <= 1
        /\ nonce[s] # None => redeemed[s] = 0 /\ issued[s] # None
        /\ issued[s] = None => redeemed[s] = 0

(* Whatever names a user names one whose row is there. *)
Known(u) == type[u] # None

RowsInv ==
    /\ \A u \in Users :
         email[u] # None \/ account[u] # None \/ token[u] # None => Known(u)
    /\ \A u \in active \cup viaEmail : Known(u)
    /\ \A q \in Requests : request[q].user # None => Known(request[q].user)
    /\ \A s \in States : nonce[s] # None => Known(nonce[s])
    /\ \A t \in Tasks : task[t] # "none" => Known(t[1])
    /\ \A w \in Workers : worker[w].pc # "idle" => Known(worker[w].task[1])

(* Of a user that is not torn, one callback at a time is under way, and     *)
(* before the token is stored the row holds the account it is for.          *)
TokenInv ==
    \A u \in Users \ torn :
        /\ \A p, q \in Requests : Connecting(p, u) /\ Connecting(q, u) => p = q
        /\ \A q \in Requests : request[q].pc = "store" /\ request[q].user = u =>
             request[q].account = account[u]
        /\ (\A q \in Requests : request[q].pc = "store" => request[q].user # u)
             /\ token[u] # None => token[u] = account[u]

(* An invitation that has missed an email still does not find it, unless    *)
(* two of them missed it.                                                   *)
EmailInv ==
    /\ EmailResolvedOnce
    /\ \A p, q \in Requests, e \in Emails :
         Missing(p, e) /\ Missing(q, e) /\ p # q => e \in rivals
    /\ \A q \in Requests, e \in Emails, u \in viaEmail :
         Missing(q, e) /\ email[u] = e => e \in rivals

-----------------------------------------------------------------------------
(* The role *)

Asked(u, k) == \E q \in Requests : request[q].pc = k /\ request[q].user = u
Runs(w, u, k) == worker[w].pc # "idle" /\ worker[w].task = <<u, k>>
Queued(u, k) ==
    \/ task[<<u, k>>] # "none"
    \/ \E w \in Workers : Runs(w, u, k)

(* asynq will still run a task of this kind. *)
Pending(u, k) == Asked(u, k) \/ task[<<u, k>>] \in {"waiting", "running"}

(* A run holds the account of its agent, unless that was re-linked. *)
HoldsAccount(w) ==
    LET u == worker[w].task[1] IN
    worker[w].pc \in {"assign", "unassign", "finish"} =>
        \/ worker[w].account = account[u]
        \/ worker[w].account \in moved /\ u \in disturbed

HeldInv == \A w \in Workers : HoldsAccount(w)

(* The role is only held by accounts that are or were linked. *)
OwnedInv == \A d \in role : d \in moved \/ \E u \in Users : account[u] = d

(* Additions and removals of an undisturbed agent do not mix. *)
ApartInv ==
    /\ \A u \in active : ~ Asked(u, "remove") /\ ~ Queued(u, "remove")
    /\ \A t \in Tasks : task[t] = "dead" => t[1] \in disturbed
    /\ \A u \in Users \ disturbed :
         /\ Queued(u, "remove") => ~ Asked(u, "add") /\ ~ Queued(u, "add")
         /\ type[u] = "agent" /\ u \notin active =>
              Asked(u, "remove") \/ ~ (Asked(u, "add") \/ Queued(u, "add"))

Settled(u) == u \notin disturbed /\ account[u] \notin moved

RoleInv ==
    /\ \A u \in Users : Settled(u) /\ type[u] = "agent" =>
         /\ u \in active => account[u] \in role \/ Pending(u, "add")
         /\ u \notin active => account[u] \notin role \/ Pending(u, "remove")
    /\ \A w \in Workers :
         worker[w].pc = "finish" /\ Settled(worker[w].task[1]) =>
             (account[worker[w].task[1]] \in role <=> worker[w].task[2] = "add")
-----------------------------------------------------------------------------
(* What steps do to requests, runs and tasks *)

(* Request q goes on with these values in hand. *)
Becomes(q, pc, u, e, d) ==
    request' = [request EXCEPT ![q] =
                   [pc |-> pc, user |-> u, email |-> e, account |-> d]]

(* Run w goes on with these values in hand. *)
Moves(w, pc, t, d) ==
    worker' = [worker EXCEPT ![w] = [pc |-> pc, task |-> t, account |-> d]]

LEMMA UnsentIs ==
  /\ Unsent = [pc |-> "unsent", user |-> None, email |-> None, account |-> None]
  /\ Done = [pc |-> "done", user |-> None, email |-> None, account |-> None]
  /\ Idle = [pc |-> "idle", task |-> None, account |-> None]
  BY DEF Unsent, Done, Idle

(* A record with several fields replaced, one field at a time. *)
LEMMA UnsentWith ==
  ASSUME NEW pc, NEW u, NEW e, NEW d
  PROVE /\ [Unsent EXCEPT !.pc = pc, !.user = u] =
             [pc |-> pc, user |-> u, email |-> None, account |-> None]
        /\ [Unsent EXCEPT !.pc = pc, !.email = e] =
             [pc |-> pc, user |-> None, email |-> e, account |-> None]
        /\ [Unsent EXCEPT !.pc = pc, !.email = e, !.account = d] =
             [pc |-> pc, user |-> None, email |-> e, account |-> d]
<1> DEFINE R(x, y, z) == [pc |-> pc, user |-> x, email |-> y, account |-> z]
<1>1. [Unsent EXCEPT !.pc = pc] = R(None, None, None)
  BY DEF Unsent
<1>2. [R(None, None, None) EXCEPT !.user = u] = R(u, None, None)
  OBVIOUS
<1>3. [R(None, None, None) EXCEPT !.email = e] = R(None, e, None)
  OBVIOUS
<1>4. [R(None, e, None) EXCEPT !.account = d] = R(None, e, d)
  OBVIOUS
<1> HIDE DEF R
<1>6. /\ [[Unsent EXCEPT !.pc = pc] EXCEPT !.user = u] = R(u, None, None)
      /\ [[Unsent EXCEPT !.pc = pc] EXCEPT !.email = e] = R(None, e, None)
  BY <1>1, <1>2, <1>3, Zenon
<1>7. [[[Unsent EXCEPT !.pc = pc] EXCEPT !.email = e] EXCEPT !.account = d] =
        R(None, e, d)
  BY <1>4, <1>6, Zenon
<1>8. /\ [Unsent EXCEPT !.pc = pc, !.user = u] =
           [[Unsent EXCEPT !.pc = pc] EXCEPT !.user = u]
      /\ [Unsent EXCEPT !.pc = pc, !.email = e] =
           [[Unsent EXCEPT !.pc = pc] EXCEPT !.email = e]
      /\ [Unsent EXCEPT !.pc = pc, !.email = e, !.account = d] =
           [[[Unsent EXCEPT !.pc = pc] EXCEPT !.email = e] EXCEPT !.account = d]
  OBVIOUS
<1> QED BY <1>6, <1>7, <1>8, Zenon DEF R

LEMMA ConnectingWith ==
  ASSUME NEW u, NEW d
  PROVE [Unsent EXCEPT !.pc = "link", !.user = u, !.account = d] =
          [pc |-> "link", user |-> u, email |-> None, account |-> d]
<1> DEFINE R(x, y) == [pc |-> "link", user |-> x, email |-> None, account |-> y]
<1>1. [Unsent EXCEPT !.pc = "link", !.user = u] = R(u, None)
  BY UnsentWith
<1>2. [R(u, None) EXCEPT !.account = d] = R(u, d)
  OBVIOUS
<1> HIDE DEF R
<1>3. [[Unsent EXCEPT !.pc = "link", !.user = u] EXCEPT !.account = d] = R(u, d)
  BY <1>1, <1>2, Zenon
<1>4. [Unsent EXCEPT !.pc = "link", !.user = u, !.account = d] =
        [[Unsent EXCEPT !.pc = "link", !.user = u] EXCEPT !.account = d]
  OBVIOUS
<1> QED BY <1>3, <1>4, Zenon DEF R

LEMMA IdleWith ==
  ASSUME NEW pc, NEW t
  PROVE [Idle EXCEPT !.pc = pc, !.task = t] =
          [pc |-> pc, task |-> t, account |-> None]
<1> DEFINE R(x) == [pc |-> pc, task |-> x, account |-> None]
<1>1. [Idle EXCEPT !.pc = pc] = R(None)
  BY DEF Idle
<1>2. [R(None) EXCEPT !.task = t] = R(t)
  OBVIOUS
<1> HIDE DEF R
<1>3. [[Idle EXCEPT !.pc = pc] EXCEPT !.task = t] = R(t)
  BY <1>1, <1>2, Zenon
<1>4. [Idle EXCEPT !.pc = pc, !.task = t] =
        [[Idle EXCEPT !.pc = pc] EXCEPT !.task = t]
  OBVIOUS
<1> QED BY <1>3, <1>4, Zenon DEF R

LEMMA FaultCounted ==
  ASSUME faults \in 0..MaxFaults, Fault \/ UNCHANGED faults
  PROVE faults' \in 0..MaxFaults
  BY DEF Fault

LEMMA ReplyBecomes ==
  ASSUME NEW q \in Requests, Reply(q)
  PROVE Becomes(q, "done", None, None, None)
  BY UnsentIs DEF Reply, Becomes

LEMMA ProceedBecomes ==
  ASSUME NEW q \in Requests, NEW pc, NEW u, Proceed(q, pc, u)
  PROVE Becomes(q, pc, u, None, None)
  BY UnsentWith DEF Proceed, Becomes

LEMMA GotoBecomes ==
  ASSUME TypeInv, NEW q \in Requests, NEW pc, Goto(q, pc)
  PROVE Becomes(q, pc, request[q].user, request[q].email, request[q].account)
<1>1. request[q] \in RequestRec
  BY DEF TypeInv, TypeOK
<1>2. [request[q] EXCEPT !.pc = pc] =
        [pc |-> pc, user |-> request[q].user, email |-> request[q].email,
         account |-> request[q].account]
  BY <1>1 DEF RequestRec
<1> QED BY <1>2 DEF Goto, Becomes

(* The other requests keep what they had, and the types hold. *)
LEMMA BecomesTyped ==
  ASSUME TypeInv, NEW q \in Requests, NEW pc, NEW u \in MaybeUser,
         NEW e \in MaybeEmail, NEW d \in MaybeAccount,
         pc \in {"create", "issue", "add", "remove", "link", "store", "done"},
         pc \in {"issue", "add", "remove", "link", "store"} => u \in Users,
         pc \in {"link", "store"} => d \in Accounts,
         pc = "create" /\ d = None => e \in Emails,
         Becomes(q, pc, u, e, d)
  PROVE /\ request' \in [Requests -> RequestRec]
        /\ \A p \in Requests : TypedRequest(request'[p])
        /\ request'[q].pc = pc /\ request'[q].user = u
        /\ request'[q].email = e /\ request'[q].account = d
        /\ \A p \in Requests : p # q => request'[p] = request[p]
<1> DEFINE y == [pc |-> pc, user |-> u, email |-> e, account |-> d]
<1>1. /\ y \in RequestRec
      /\ y.pc = pc /\ y.user = u /\ y.email = e /\ y.account = d
  BY DEF RequestRec
<1>2. TypedRequest(y)
  BY <1>1 DEF TypedRequest
<1>3. request \in [Requests -> RequestRec] /\ request' = [request EXCEPT ![q] = y]
  BY DEF TypeInv, TypeOK, Becomes
<1> HIDE DEF y
<1>4. /\ request'[q] = y
      /\ \A p \in Requests : p # q => request'[p] = request[p]
      /\ request' \in [Requests -> RequestRec]
  BY <1>1, <1>3
<1>5. \A p \in Requests : TypedRequest(request'[p])
  BY <1>2, <1>4 DEF TypeInv
<1> QED BY <1>1, <1>4, <1>5

LEMMA MovesTyped ==
  ASSUME TypeInv, NEW w \in Workers, NEW pc, NEW t \in Tasks \cup {None},
         NEW d \in MaybeAccount,
         pc \in {"idle", "load", "assign", "unassign", "finish"},
         pc # "idle" => t \in Tasks,
         pc \in {"assign", "unassign", "finish"} => d \in Accounts,
         pc = "assign" => t[2] = "add",
         pc = "unassign" => t[2] = "remove",
         Moves(w, pc, t, d)
  PROVE /\ worker' \in [Workers -> WorkerRec]
        /\ \A v \in Workers : TypedWorker(worker'[v])
        /\ worker'[w].pc = pc /\ worker'[w].task = t /\ worker'[w].account = d
        /\ \A v \in Workers : v # w => worker'[v] = worker[v]
<1> DEFINE y == [pc |-> pc, task |-> t, account |-> d]
<1>1. y \in WorkerRec /\ y.pc = pc /\ y.task = t /\ y.account = d
  BY DEF WorkerRec
<1>2. TypedWorker(y)
  BY <1>1 DEF TypedWorker
<1>3. worker \in [Workers -> WorkerRec] /\ worker' = [worker EXCEPT ![w] = y]
  BY DEF TypeInv, TypeOK, Moves
<1> HIDE DEF y
<1>4. /\ worker'[w] = y
      /\ \A v \in Workers : v # w => worker'[v] = worker[v]
      /\ worker' \in [Workers -> WorkerRec]
  BY <1>1, <1>3
<1>5. \A v \in Workers : TypedWorker(worker'[v])
  BY <1>2, <1>4 DEF TypeInv
<1> QED BY <1>1, <1>4, <1>5

LEMMA TaskParts ==
  ASSUME NEW t \in Tasks
  PROVE t[1] \in Users /\ t[2] \in {"add", "remove"} /\ t = <<t[1], t[2]>>
  BY DEF Tasks, Kinds

LEMMA RunParts ==
  ASSUME TypeInv, NEW w \in Workers, worker[w].pc # "idle"
  PROVE /\ worker[w].task \in Tasks
        /\ worker[w].task[1] \in Users
        /\ worker[w].task[2] \in {"add", "remove"}
        /\ worker[w].task = <<worker[w].task[1], worker[w].task[2]>>
<1>1. worker[w].task \in Tasks
  BY DEF TypeInv, TypedWorker
<1> QED BY <1>1, TaskParts

(* asynq takes a running task back, or leaves a task that is not running.   *)
TakesBack(t) ==
    /\ task' \in [Tasks -> {"none", "waiting", "running", "dead"}]
    /\ retries' \in [Tasks -> 0..MaxRetry]
    /\ \A s \in Tasks : s # t \/ task[t] # "running" => task'[s] = task[s]
    /\ task[t] = "running" =>
         \/ task'[t] = "waiting" /\ disturbed' = disturbed
         \/ task'[t] = "dead" /\ t[1] \in disturbed'
    /\ disturbed \subseteq disturbed'
    /\ disturbed' \subseteq disturbed \cup {t[1]}

LEMMA RetryTakesBack ==
  ASSUME TypeOK, NEW t \in Tasks, Retry(t)
  PROVE TakesBack(t)
<1>1. CASE task[t] # "running"
  BY <1>1 DEF Retry, TakesBack, TypeOK, taskVars
<1>2. CASE task[t] = "running" /\ retries[t] < MaxRetry
  <2>1. /\ task' = [task EXCEPT ![t] = "waiting"]
        /\ retries' = [retries EXCEPT ![t] = @ + 1]
        /\ disturbed' = disturbed
    BY <1>2 DEF Retry
  <2>2. task' \in [Tasks -> {"none", "waiting", "running", "dead"}]
    BY <2>1 DEF TypeOK
  <2>3. retries' \in [Tasks -> 0..MaxRetry]
    BY <1>2, <2>1 DEF TypeOK
  <2> QED BY <1>2, <2>1, <2>2, <2>3 DEF TypeOK, TakesBack
<1>3. CASE task[t] = "running" /\ ~(retries[t] < MaxRetry)
  <2>1. /\ task' = [task EXCEPT ![t] = "dead"]
        /\ retries' = [retries EXCEPT ![t] = @]
        /\ disturbed' = disturbed \cup {t[1]}
    BY <1>3 DEF Retry
  <2>2. task' \in [Tasks -> {"none", "waiting", "running", "dead"}]
    BY <2>1 DEF TypeOK
  <2>3. retries' \in [Tasks -> 0..MaxRetry]
    BY <2>1 DEF TypeOK
  <2> QED BY <1>3, <2>1, <2>2, <2>3 DEF TypeOK, TakesBack
<1> QED BY <1>1, <1>2, <1>3

LEMMA ReturnErrorTakesBack ==
  ASSUME TypeInv, NEW w \in Workers, worker[w].pc # "idle", ReturnError(w)
  PROVE Moves(w, "idle", None, None) /\ TakesBack(worker[w].task)
  BY RunParts, RetryTakesBack, UnsentIs DEF ReturnError, Moves, TypeInv

-----------------------------------------------------------------------------
(* Initial states *)

LEMMA InitTypes == Init => TypeInv
<1> SUFFICES ASSUME Init PROVE TypeInv
  OBVIOUS
<1>1. /\ Unsent \in RequestRec /\ Unsent.pc = "unsent"
      /\ Idle \in WorkerRec /\ Idle.pc = "idle"
  BY DEF Unsent, Idle, RequestRec, WorkerRec, MaybeUser, MaybeEmail,
     MaybeAccount
<1>2. TypedRequest(Unsent) /\ TypedWorker(Idle)
  BY <1>1 DEF TypedRequest, TypedWorker
<1>3. /\ request \in [Requests -> RequestRec]
      /\ worker \in [Workers -> WorkerRec]
      /\ \A q \in Requests : TypedRequest(request[q])
      /\ \A w \in Workers : TypedWorker(worker[w])
  BY <1>1, <1>2 DEF Init
<1>4. /\ type \in [Users -> {"agent", "collaborator", None}]
      /\ email \in [Users -> MaybeEmail]
      /\ account \in [Users -> MaybeAccount]
      /\ token \in [Users -> MaybeAccount]
      /\ nonce \in [States -> MaybeUser] /\ issued \in [States -> MaybeUser]
      /\ redeemed \in [States -> Nat]
      /\ \A u \in Users : account[u] = None
  BY DEF Init, MaybeUser, MaybeEmail, MaybeAccount
<1>5. /\ task \in [Tasks -> {"none", "waiting", "running", "dead"}]
      /\ retries \in [Tasks -> 0..MaxRetry]
  BY DEF Init
<1>6. /\ active \in SUBSET Users /\ role \in SUBSET Accounts
      /\ viaEmail \in SUBSET Users /\ rivals \in SUBSET Emails
      /\ torn \in SUBSET Users /\ disturbed \in SUBSET Users
      /\ moved \in SUBSET Accounts /\ faults \in 0..MaxFaults
  BY DEF Init
<1>7. TypeOK
  BY <1>3, <1>4, <1>5, <1>6 DEF TypeOK
<1> QED BY <1>3, <1>7 DEF TypeInv

-----------------------------------------------------------------------------
(* The statements that write users *)

(* The row of u is new; the others stay as they are. *)
Inserts(u, t, e, d) ==
    /\ type[u] = None
    /\ type' \in [Users -> {"agent", "collaborator", None}]
    /\ email' \in [Users -> MaybeEmail]
    /\ account' \in [Users -> MaybeAccount]
    /\ type'[u] = t /\ email'[u] = e /\ account'[u] = d
    /\ \A v \in Users : v # u => /\ type'[v] = type[v]
                                 /\ email'[v] = email[v]
                                 /\ account'[v] = account[v]
    /\ active' = active \cup {u}
    /\ \A v \in Users : v # u => account[v] # d \/ d = None
    /\ account[u] # d \/ d = None

UniqueAccounts ==
    \A u, v \in Users : u # v => account[u] # account[v] \/ account[u] = None

LEMMA CreateUserInserts ==
  ASSUME TypeOK, NEW u \in Users, NEW t \in {"agent", "collaborator"},
         NEW e \in MaybeEmail, NEW d \in MaybeAccount, CreateUser(u, t, e, d)
  PROVE Inserts(u, t, e, d) /\ UniqueAccounts'
<1>1. \A v \in Users : account[v] # d \/ d = None
  BY DEF CreateUser, GetUserByDiscordID
<1>2. Inserts(u, t, e, d)
  BY <1>1 DEF TypeOK, CreateUser, Inserts
<1>3. UniqueAccounts'
  BY <1>1, <1>2 DEF TypeOK, Inserts, UniqueAccounts
<1> QED BY <1>2, <1>3

(* u is linked to d, which is nobody else's; an account it leaves is noted. *)
Links(u, d) ==
    /\ account' \in [Users -> MaybeAccount]
    /\ account'[u] = d
    /\ \A v \in Users : v # u => account'[v] = account[v] /\ account[v] # d
    /\ moved' \in SUBSET Accounts /\ moved \subseteq moved'
    /\ disturbed' \in SUBSET Users /\ disturbed \subseteq disturbed'
    /\ disturbed' \subseteq disturbed \cup {u}
    /\ \/ account[u] \in {None, d} /\ moved' = moved
       \/ account[u] \in moved' /\ u \in disturbed'

LEMMA UpdateLinks ==
  ASSUME TypeOK, NEW u \in Users, NEW d \in Accounts, UpdateDiscordUserID(u, d)
  PROVE Links(u, d) /\ UniqueAccounts'
<1> DEFINE left == {account[u]} \ {None, d}
<1>1. /\ account' = [account EXCEPT ![u] = d]
      /\ moved' = moved \cup left
      /\ disturbed' = disturbed \cup {v \in {u} : left # {}}
  BY DEF UpdateDiscordUserID
<1>2. \A v \in Users : v # u => account[v] # d
  BY DEF UpdateDiscordUserID, GetUserByDiscordID
<1>3. account' \in [Users -> MaybeAccount] /\ account'[u] = d
  BY <1>1 DEF TypeOK, MaybeAccount
<1>4. \A v \in Users : v # u => account'[v] = account[v]
  BY <1>1 DEF TypeOK
<1>5. /\ left \subseteq Accounts
      /\ account[u] \in {None, d} => left = {}
      /\ account[u] \notin {None, d} => account[u] \in left
  BY DEF TypeOK, MaybeAccount
<1> HIDE DEF left
<1>6. /\ moved' \in SUBSET Accounts /\ moved \subseteq moved'
      /\ disturbed' \in SUBSET Users /\ disturbed \subseteq disturbed'
      /\ disturbed' \subseteq disturbed \cup {u}
  BY <1>1, <1>5 DEF TypeOK
<1>7. \/ account[u] \in {None, d} /\ moved' = moved
      \/ account[u] \in moved' /\ u \in disturbed'
  BY <1>1, <1>5
<1>8. UniqueAccounts'
  BY <1>2, <1>3, <1>4 DEF TypeOK, UniqueAccounts
<1> QED BY <1>2, <1>3, <1>4, <1>6, <1>7, <1>8 DEF Links

-----------------------------------------------------------------------------
(* Every step keeps the types *)

LEMMA ResolveBecomes ==
  ASSUME NEW q \in Requests, NEW u, Resolve(q, u)
  PROVE \/ Becomes(q, "issue", u, None, None)
        \/ Becomes(q, "done", None, None, None)
  BY ProceedBecomes, ReplyBecomes DEF Resolve

(* What is left to show of a request's step. *)
LEMMA RequestTypes ==
  ASSUME TypeInv,
         request' \in [Requests -> RequestRec],
         \A p \in Requests : TypedRequest(request'[p]),
         \/ UNCHANGED <<type, active, email, account>>
         \/ /\ type' \in [Users -> {"agent", "collaborator", None}]
            /\ active' \in SUBSET Users
            /\ email' \in [Users -> MaybeEmail]
            /\ account' \in [Users -> MaybeAccount]
            /\ UniqueAccounts',
         token' \in [Users -> MaybeAccount],
         nonce' \in [States -> MaybeUser], issued' \in [States -> MaybeUser],
         redeemed' \in [States -> Nat],
         task' \in [Tasks -> {"none", "waiting", "running", "dead"}],
         viaEmail' \in SUBSET Users, rivals' \in SUBSET Emails,
         torn' \in SUBSET Users, disturbed' \in SUBSET Users,
         moved' \in SUBSET Accounts, Fault \/ UNCHANGED faults,
         UNCHANGED <<retries, role, worker>>
  PROVE TypeInv'
<1>1. faults' \in 0..MaxFaults
  BY FaultCounted DEF TypeInv, TypeOK
<1>2. /\ type' \in [Users -> {"agent", "collaborator", None}]
      /\ active' \in SUBSET Users
      /\ email' \in [Users -> MaybeEmail]
      /\ account' \in [Users -> MaybeAccount]
      /\ UniqueAccounts'
  BY DEF TypeInv, TypeOK, UniqueAccounts
<1>3. TypeOK'
  BY <1>1, <1>2 DEF TypeInv, TypeOK, UniqueAccounts
<1> QED BY <1>3 DEF TypeInv

LEMMA NoneTyped == None \in MaybeUser /\ None \in MaybeEmail /\ None \in MaybeAccount
  BY DEF MaybeUser, MaybeEmail, MaybeAccount

LEMMA DoneTypes ==
  ASSUME TypeInv, NEW q \in Requests, Becomes(q, "done", None, None, None)
  PROVE /\ request' \in [Requests -> RequestRec]
        /\ \A p \in Requests : TypedRequest(request'[p])
        /\ request'[q].pc = "done" /\ request'[q].user = None
        /\ \A p \in Requests : p # q => request'[p] = request[p]
  BY BecomesTyped, NoneTyped

LEMMA InviteByUserIDTypes ==
  ASSUME TypeInv, NEW q \in Requests, NEW u \in Users, InviteByUserID(q, u)
  PROVE TypeInv'
<1>1. /\ request' \in [Requests -> RequestRec]
      /\ \A p \in Requests : TypedRequest(request'[p])
  <2>1. CASE Becomes(q, "issue", u, None, None)
    BY <2>1, BecomesTyped, NoneTyped DEF MaybeUser
  <2>2. CASE Becomes(q, "done", None, None, None)
    BY <2>2, DoneTypes
  <2> QED BY <2>1, <2>2, ResolveBecomes DEF InviteByUserID
<1> QED BY <1>1, RequestTypes DEF InviteByUserID, TypeInv, TypeOK, rowVars,
           oauthVars, taskVars, emailVars, roleVars

LEMMA InviteByDiscordIDEffect ==
  ASSUME NEW q \in Requests, NEW d \in Accounts, NEW e \in MaybeEmail,
         InviteByDiscordID(q, d, e)
  PROVE \/ Becomes(q, "create", None, e, d)
        \/ Becomes(q, "done", None, None, None)
<1>1. CASE request' = [request EXCEPT ![q] = [Unsent EXCEPT
                           !.pc = "create", !.email = e, !.account = d]]
  <2>1. [Unsent EXCEPT !.pc = "create", !.email = e, !.account = d] =
          [pc |-> "create", user |-> None, email |-> e, account |-> d]
    BY UnsentWith
  <2> QED BY <1>1, <2>1, Zenon DEF Becomes
<1> QED BY <1>1, ReplyBecomes DEF InviteByDiscordID

LEMMA InviteByDiscordIDTypes ==
  ASSUME TypeInv, NEW q \in Requests, NEW d \in Accounts, NEW e \in MaybeEmail,
         InviteByDiscordID(q, d, e)
  PROVE TypeInv'
<1>1. \/ Becomes(q, "create", None, e, d)
      \/ Becomes(q, "done", None, None, None)
  BY InviteByDiscordIDEffect
<1>2. /\ request' \in [Requests -> RequestRec]
      /\ \A p \in Requests : TypedRequest(request'[p])
  <2>1. CASE Becomes(q, "create", None, e, d)
    BY <2>1, BecomesTyped, NoneTyped DEF MaybeAccount
  <2> QED BY <1>1, <2>1, DoneTypes
<1> QED BY <1>2, RequestTypes DEF InviteByDiscordID, TypeInv, TypeOK, rowVars,
           oauthVars, taskVars, emailVars, roleVars

LEMMA InviteByEmailEffect ==
  ASSUME NEW q \in Requests, NEW e \in Emails, InviteByEmail(q, e)
  PROVE \/ /\ UNCHANGED rivals
           /\ \E u \in Users :
                \/ Becomes(q, "issue", u, None, None) /\ email[u] = e
                \/ Becomes(q, "done", None, None, None)
        \/ /\ Becomes(q, "create", None, e, None)
           /\ \A u \in Users : email[u] # e
           /\ rivals' = rivals \cup
                {f \in {e} : \E p \in Requests : Missing(p, f)}
<1>1. CASE \E u \in GetUserByEmail(e) : Resolve(q, u) /\ UNCHANGED rivals
  BY <1>1, ResolveBecomes DEF GetUserByEmail
<1>2. CASE /\ GetUserByEmail(e) = {}
           /\ request' = [request EXCEPT ![q] = [Unsent EXCEPT
                             !.pc = "create", !.email = e]]
           /\ rivals' = rivals \cup
                {f \in {e} : \E p \in Requests : Missing(p, f)}
  BY <1>2, UnsentWith DEF GetUserByEmail, Becomes
<1> QED BY <1>1, <1>2 DEF InviteByEmail

LEMMA InviteByEmailTypes ==
  ASSUME TypeInv, NEW q \in Requests, NEW e \in Emails, InviteByEmail(q, e)
  PROVE TypeInv'
<1>1. /\ request' \in [Requests -> RequestRec]
      /\ \A p \in Requests : TypedRequest(request'[p])
  <2>1. ASSUME NEW u \in Users, Becomes(q, "issue", u, None, None)
        PROVE /\ request' \in [Requests -> RequestRec]
              /\ \A p \in Requests : TypedRequest(request'[p])
    BY <2>1, BecomesTyped, NoneTyped DEF MaybeUser
  <2>2. CASE Becomes(q, "create", None, e, None)
    BY <2>2, BecomesTyped, NoneTyped DEF MaybeEmail
  <2> QED BY <2>1, <2>2, InviteByEmailEffect, DoneTypes
<1>2. rivals' \in SUBSET Emails
  BY InviteByEmailEffect DEF TypeInv, TypeOK
<1> QED BY <1>1, <1>2, RequestTypes DEF InviteByEmail, TypeInv, TypeOK,
           rowVars, oauthVars, taskVars, roleVars

LEMMA CreateCollaboratorEffect ==
  ASSUME TypeInv, NEW q \in Requests, CreateCollaborator(q)
  PROVE LET e == request[q].email
            d == request[q].account IN
        \/ \E u \in Users :
             /\ Inserts(u, "collaborator", e, d) /\ UniqueAccounts'
             /\ viaEmail' = viaEmail \cup {v \in {u} : d = None}
             /\ \/ d = None /\ Becomes(q, "issue", u, None, None)
                \/ Becomes(q, "done", None, None, None)
        \/ /\ Becomes(q, "done", None, None, None)
           /\ UNCHANGED <<type, active, email, account, viaEmail>>
<1> DEFINE e == request[q].email
           d == request[q].account
<1>1. e \in MaybeEmail /\ d \in MaybeAccount
  BY DEF TypeInv, TypeOK, RequestRec
<1>2. ASSUME NEW u \in Users, CreateUser(u, "collaborator", e, d),
             viaEmail' = viaEmail \cup {v \in {u} : d = None},
             \/ /\ UNCHANGED faults
                /\ IF d = None THEN Proceed(q, "issue", u) ELSE Reply(q)
             \/ Fault /\ Reply(q)
      PROVE /\ Inserts(u, "collaborator", e, d) /\ UniqueAccounts'
            /\ viaEmail' = viaEmail \cup {v \in {u} : d = None}
            /\ \/ d = None /\ Becomes(q, "issue", u, None, None)
               \/ Becomes(q, "done", None, None, None)
  <2>1. Inserts(u, "collaborator", e, d) /\ UniqueAccounts'
    BY <1>1, <1>2, CreateUserInserts DEF TypeInv
  <2>2. \/ d = None /\ Becomes(q, "issue", u, None, None)
        \/ Becomes(q, "done", None, None, None)
    BY <1>2, ProceedBecomes, ReplyBecomes
  <2> QED BY <1>2, <2>1, <2>2
<1>3. CASE Reply(q) /\ UNCHANGED <<rowVars, account, viaEmail>>
  BY <1>3, ReplyBecomes DEF rowVars
<1> QED BY <1>2, <1>3 DEF CreateCollaborator

LEMMA CreateCollaboratorTypes ==
  ASSUME TypeInv, NEW q \in Requests, CreateCollaborator(q)
  PROVE TypeInv'
<1>1. /\ request' \in [Requests -> RequestRec]
      /\ \A p \in Requests : TypedRequest(request'[p])
  <2>1. ASSUME NEW u \in Users, Becomes(q, "issue", u, None, None)
        PROVE /\ request' \in [Requests -> RequestRec]
              /\ \A p \in Requests : TypedRequest(request'[p])
    BY <2>1, BecomesTyped, NoneTyped DEF MaybeUser
  <2> QED BY <2>1, CreateCollaboratorEffect, DoneTypes
<1>2. viaEmail' \in SUBSET Users
  BY CreateCollaboratorEffect DEF TypeInv, TypeOK
<1>3. \/ UNCHANGED <<type, active, email, account>>
      \/ /\ type' \in [Users -> {"agent", "collaborator", None}]
         /\ active' \in SUBSET Users
         /\ email' \in [Users -> MaybeEmail]
         /\ account' \in [Users -> MaybeAccount]
         /\ UniqueAccounts'
  BY CreateCollaboratorEffect DEF Inserts, TypeInv, TypeOK
<1> QED BY <1>1, <1>2, <1>3, RequestTypes DEF CreateCollaborator, TypeInv,
           TypeOK, oauthVars, taskVars, roleVars

LEMMA IssueTypes ==
  ASSUME TypeInv, NEW q \in Requests, NEW s \in States, Issue(q, s)
  PROVE TypeInv'
<1>1. request[q].user \in Users
  BY DEF Issue, TypeInv, TypedRequest
<1>2. nonce' \in [States -> MaybeUser] /\ issued' \in [States -> MaybeUser]
  BY <1>1 DEF Issue, SetNonce, TypeInv, TypeOK, MaybeUser
<1>3. Becomes(q, "done", None, None, None)
  BY ReplyBecomes DEF Issue
<1> QED BY <1>2, <1>3, DoneTypes, RequestTypes DEF Issue, TypeInv, TypeOK,
           rowVars, taskVars, emailVars, roleVars

LEMMA NonceExpiresTypes ==
  ASSUME TypeInv, NEW s \in States, NonceExpires(s)
  PROVE TypeInv'
<1>1. nonce' \in [States -> MaybeUser]
  BY DEF NonceExpires, TypeInv, TypeOK, MaybeUser
<1> QED BY <1>1, RequestTypes DEF NonceExpires, TypeInv, TypeOK, rowVars,
           taskVars, emailVars, roleVars

(* Callbacks *)

LEMMA ValidateEffect ==
  ASSUME TypeInv, NEW q \in Requests, NEW s \in States, NEW d \in Accounts,
         Validate(q, s, d)
  PROVE /\ nonce[s] \in Users
        /\ Becomes(q, "link", nonce[s], None, d)
        /\ nonce' = [nonce EXCEPT ![s] = None]
        /\ redeemed' = [redeemed EXCEPT ![s] = @ + 1]
        /\ torn' = torn \cup
             {v \in {nonce[s]} : \E p \in Requests : Connecting(p, v)}
<1>1. nonce[s] \in Users
  BY DEF Validate, TypeInv, TypeOK, MaybeUser
<1>2. Becomes(q, "link", nonce[s], None, d)
  <2>1. \A u : [Unsent EXCEPT !.pc = "link", !.user = u, !.account = d] =
                [pc |-> "link", user |-> u, email |-> None, account |-> d]
    BY ConnectingWith, Zenon
  <2>2. request' = [request EXCEPT ![q] = [Unsent EXCEPT
                       !.pc = "link", !.user = nonce[s], !.account = d]]
    BY DEF Validate
  <2> QED BY <2>1, <2>2, Zenon DEF Becomes
<1> QED BY <1>1, <1>2 DEF Validate, ConsumeNonce

LEMMA ValidateTypes ==
  ASSUME TypeInv, NEW q \in Requests, NEW s \in States, NEW d \in Accounts,
         Validate(q, s, d)
  PROVE TypeInv'
<1>1. /\ request' \in [Requests -> RequestRec]
      /\ \A p \in Requests : TypedRequest(request'[p])
  BY ValidateEffect, BecomesTyped, NoneTyped DEF MaybeUser, MaybeAccount
<1>2. /\ nonce' \in [States -> MaybeUser] /\ redeemed' \in [States -> Nat]
  BY ValidateEffect, NoneTyped DEF TypeInv, TypeOK
<1>3. torn' \in SUBSET Users
  BY ValidateEffect DEF TypeInv, TypeOK
<1> QED BY <1>1, <1>2, <1>3, RequestTypes DEF Validate, TypeInv, TypeOK,
           rowVars, taskVars, emailVars, roleVars

LEMMA ExchangeFailsTypes ==
  ASSUME TypeInv, NEW q \in Requests, ExchangeFails(q)
  PROVE TypeInv'
<1>1. Becomes(q, "done", None, None, None)
  BY ReplyBecomes DEF ExchangeFails
<1> QED BY <1>1, DoneTypes, RequestTypes DEF ExchangeFails, TypeInv, TypeOK,
           rowVars, oauthVars, taskVars, emailVars, roleVars

(* The callback goes on to the token, or ends without a change. *)
LEMMA LinkEffect ==
  ASSUME TypeInv, NEW q \in Requests, LinkDiscordUserID(q)
  PROVE LET u == request[q].user
            d == request[q].account IN
        /\ u \in Users /\ d \in Accounts
        /\ torn \subseteq torn' /\ torn' \subseteq torn \cup {u}
        /\ Fault \/ UNCHANGED faults
        /\ \/ /\ Becomes(q, "store", u, request[q].email, d)
              /\ \/ Links(u, d) /\ UniqueAccounts'
                 \/ u \in torn' /\ UNCHANGED <<account, moved, disturbed>>
           \/ /\ Becomes(q, "done", None, None, None)
              /\ UNCHANGED <<account, moved, disturbed>>
<1> DEFINE u == request[q].user
           d == request[q].account
<1>1. u \in Users /\ d \in Accounts
  BY DEF LinkDiscordUserID, TypeInv, TypedRequest
<1>2. ASSUME UpdateDiscordUserID(u, d) PROVE Links(u, d) /\ UniqueAccounts'
  BY <1>1, <1>2, UpdateLinks DEF TypeInv
<1>3. ASSUME Goto(q, "store")
      PROVE Becomes(q, "store", u, request[q].email, d)
  BY <1>3, GotoBecomes
<1>4. CASE /\ UpdateDiscordUserID(u, d) /\ Goto(q, "store")
           /\ UNCHANGED <<torn, faults>>
  BY <1>1, <1>2, <1>3, <1>4
<1>5. CASE Reply(q) /\ UNCHANGED <<account, moved, disturbed, torn, faults>>
  BY <1>1, <1>5, ReplyBecomes
<1>6. CASE /\ Fault /\ Goto(q, "store")
           /\ torn' = torn \cup {u}
           /\ UpdateDiscordUserID(u, d) \/ UNCHANGED <<account, moved, disturbed>>
  BY <1>1, <1>2, <1>3, <1>6
<1> QED BY <1>4, <1>5, <1>6 DEF LinkDiscordUserID

LEMMA LinkTypes ==
  ASSUME TypeInv, NEW q \in Requests, LinkDiscordUserID(q)
  PROVE TypeInv'
<1> DEFINE u == request[q].user
           d == request[q].account
<1>1. request[q].email \in MaybeEmail /\ u \in Users /\ d \in Accounts
  BY LinkEffect DEF TypeInv, TypeOK, RequestRec
<1>2. /\ request' \in [Requests -> RequestRec]
      /\ \A p \in Requests : TypedRequest(request'[p])
  <2>1. CASE Becomes(q, "store", u, request[q].email, d)
    BY <1>1, <2>1, BecomesTyped DEF MaybeUser, MaybeAccount
  <2> QED BY <2>1, LinkEffect, DoneTypes
<1>3. /\ \/ UNCHANGED account
         \/ account' \in [Users -> MaybeAccount] /\ UniqueAccounts'
      /\ moved' \in SUBSET Accounts /\ disturbed' \in SUBSET Users
      /\ torn' \in SUBSET Users
  BY LinkEffect DEF Links, TypeInv, TypeOK
<1> QED BY <1>2, <1>3, LinkEffect, RequestTypes DEF LinkDiscordUserID,
           TypeInv, TypeOK, rowVars, taskVars, emailVars

LEMMA StoreTokenTypes ==
  ASSUME TypeInv, NEW q \in Requests, StoreToken(q)
  PROVE TypeInv'
<1>1. request[q].user \in Users /\ request[q].account \in Accounts
  BY DEF StoreToken, TypeInv, TypedRequest
<1>2. token' \in [Users -> MaybeAccount] /\ torn' \in SUBSET Users
  BY <1>1 DEF StoreToken, UpsertOAuthToken, TypeInv, TypeOK, MaybeAccount
<1>3. Becomes(q, "done", None, None, None)
  BY ReplyBecomes DEF StoreToken
<1> QED BY <1>2, <1>3, DoneTypes, RequestTypes DEF StoreToken, TypeInv,
           TypeOK, rowVars, taskVars, emailVars, roleVars

(* Agents *)

LEMMA AddAgentEffect ==
  ASSUME TypeInv, NEW q \in Requests, NEW e \in Emails, NEW d \in MaybeAccount,
         AddAgent(q, e, d)
  PROVE \E u \in Users :
          /\ Inserts(u, "agent", e, d) /\ UniqueAccounts'
          /\ \/ Becomes(q, "add", u, None, None) /\ UNCHANGED disturbed
             \/ /\ Becomes(q, "done", None, None, None)
                /\ disturbed' = disturbed \cup {u}
<1>1. PICK u \in Users :
        /\ CreateUser(u, "agent", e, d)
        /\ \/ Proceed(q, "add", u) /\ UNCHANGED <<disturbed, faults>>
           \/ Fault /\ Reply(q) /\ disturbed' = disturbed \cup {u}
  BY DEF AddAgent
<1>2. Inserts(u, "agent", e, d) /\ UniqueAccounts'
  BY <1>1, CreateUserInserts DEF TypeInv, MaybeEmail
<1> QED BY <1>1, <1>2, ProceedBecomes, ReplyBecomes

LEMMA AddAgentTypes ==
  ASSUME TypeInv, NEW q \in Requests, NEW e \in Emails, NEW d \in MaybeAccount,
         AddAgent(q, e, d)
  PROVE TypeInv'
<1>1. PICK u \in Users :
          /\ Inserts(u, "agent", e, d) /\ UniqueAccounts'
          /\ \/ Becomes(q, "add", u, None, None) /\ UNCHANGED disturbed
             \/ /\ Becomes(q, "done", None, None, None)
                /\ disturbed' = disturbed \cup {u}
  BY AddAgentEffect
<1>2. /\ request' \in [Requests -> RequestRec]
      /\ \A p \in Requests : TypedRequest(request'[p])
  <2>1. CASE Becomes(q, "add", u, None, None)
    BY <2>1, BecomesTyped, NoneTyped DEF MaybeUser
  <2> QED BY <1>1, <2>1, DoneTypes
<1>3. disturbed' \in SUBSET Users
  BY <1>1 DEF TypeInv, TypeOK
<1>4. /\ type' \in [Users -> {"agent", "collaborator", None}]
      /\ active' \in SUBSET Users
      /\ email' \in [Users -> MaybeEmail]
      /\ account' \in [Users -> MaybeAccount]
      /\ UniqueAccounts'
  BY <1>1 DEF Inserts, TypeInv, TypeOK
<1>5. Fault \/ UNCHANGED faults
  BY DEF AddAgent
<1> QED BY <1>2, <1>3, <1>4, <1>5, RequestTypes DEF AddAgent, TypeInv, TypeOK,
           oauthVars, taskVars, emailVars

LEMMA RemoveAgentEffect ==
  ASSUME NEW q \in Requests, NEW u \in Users, RemoveAgent(q, u)
  PROVE /\ type[u] = "agent" /\ active' = active \ {u}
        /\ \/ Becomes(q, "remove", u, None, None) /\ UNCHANGED disturbed
           \/ /\ Becomes(q, "done", None, None, None)
              /\ disturbed' = disturbed \cup {u}
  BY ProceedBecomes, ReplyBecomes DEF RemoveAgent, DeactivateUser

LEMMA RemoveAgentTypes ==
  ASSUME TypeInv, NEW q \in Requests, NEW u \in Users, RemoveAgent(q, u)
  PROVE TypeInv'
<1>1. /\ request' \in [Requests -> RequestRec]
      /\ \A p \in Requests : TypedRequest(request'[p])
  <2>1. CASE Becomes(q, "remove", u, None, None)
    BY <2>1, BecomesTyped, NoneTyped DEF MaybeUser
  <2> QED BY <2>1, RemoveAgentEffect, DoneTypes
<1>2. active' \in SUBSET Users /\ disturbed' \in SUBSET Users
  BY RemoveAgentEffect DEF TypeInv, TypeOK
<1>3. UNCHANGED <<type, email, account>> /\ UniqueAccounts'
  BY DEF RemoveAgent, UniqueAccounts, TypeInv, TypeOK
<1>4. Fault \/ UNCHANGED faults
  BY DEF RemoveAgent
<1> QED BY <1>1, <1>2, <1>3, <1>4, RequestTypes DEF RemoveAgent, TypeInv,
           TypeOK, oauthVars, taskVars, emailVars

LEMMA EnqueueRoleEffect ==
  ASSUME TypeInv, NEW q \in Requests, EnqueueRole(q)
  PROVE LET u == request[q].user
            k == request[q].pc IN
        /\ u \in Users /\ k \in {"add", "remove"} /\ <<u, k>> \in Tasks
        /\ Becomes(q, "done", None, None, None)
        /\ disturbed \subseteq disturbed' /\ disturbed' \subseteq disturbed \cup {u}
        /\ \/ /\ task[<<u, k>>] = "none"
              /\ task' = [task EXCEPT ![<<u, k>>] = "waiting"]
              /\ k = "remove" /\ UnderWay(u, "add") => u \in disturbed'
           \/ UNCHANGED task /\ (task[<<u, k>>] # "none" \/ u \in disturbed')
<1> DEFINE u == request[q].user
           k == request[q].pc
<1>1. k \in {"add", "remove"}
  BY DEF EnqueueRole, Kinds
<1>2. u \in Users
  BY <1>1 DEF TypeInv, TypedRequest
<1>3. <<u, k>> \in Tasks
  BY <1>1, <1>2 DEF Tasks, Kinds
<1>4. Becomes(q, "done", None, None, None)
  BY ReplyBecomes DEF EnqueueRole
<1>5. CASE /\ task[<<u, k>>] = "none"
           /\ task' = [task EXCEPT ![<<u, k>>] = "waiting"]
           /\ disturbed' = disturbed \cup
                {v \in {u} : k = "remove" /\ UnderWay(u, "add")}
  BY <1>1, <1>2, <1>3, <1>4, <1>5
<1>6. CASE task[<<u, k>>] # "none" /\ UNCHANGED <<taskVars, disturbed, faults>>
  BY <1>1, <1>2, <1>3, <1>4, <1>6 DEF taskVars
<1>7. CASE Fault /\ disturbed' = disturbed \cup {u} /\ UNCHANGED taskVars
  BY <1>1, <1>2, <1>3, <1>4, <1>7 DEF taskVars
<1> QED BY <1>5, <1>6, <1>7 DEF EnqueueRole

LEMMA EnqueueRoleTypes ==
  ASSUME TypeInv, NEW q \in Requests, EnqueueRole(q)
  PROVE TypeInv'
<1>1. /\ request' \in [Requests -> RequestRec]
      /\ \A p \in Requests : TypedRequest(request'[p])
  BY EnqueueRoleEffect, DoneTypes
<1>2. task' \in [Tasks -> {"none", "waiting", "running", "dead"}]
  BY EnqueueRoleEffect DEF TypeInv, TypeOK
<1>3. disturbed' \in SUBSET Users
  BY EnqueueRoleEffect DEF TypeInv, TypeOK
<1>4. (Fault \/ UNCHANGED faults) /\ UNCHANGED retries
  BY DEF EnqueueRole, taskVars
<1> QED BY <1>1, <1>2, <1>3, <1>4, RequestTypes DEF EnqueueRole, TypeInv,
           TypeOK, rowVars, oauthVars, emailVars

(* Runs *)

LEMMA StartTaskEffect ==
  ASSUME TypeInv, NEW w \in Workers, NEW t \in Tasks, StartTask(w, t)
  PROVE /\ Moves(w, "load", t, None)
        /\ worker[w].pc = "idle" /\ task[t] = "waiting"
        /\ task' = [task EXCEPT ![t] = "running"]
<1>1. Moves(w, "load", t, None)
  BY IdleWith, Zenon DEF StartTask, Moves
<1> QED BY <1>1 DEF StartTask

(* The run goes on with the account, or hands its task back. *)
LEMMA LoadUserEffect ==
  ASSUME TypeInv, NEW w \in Workers, LoadUser(w)
  PROVE LET t == worker[w].task
            d == account[t[1]] IN
        \/ /\ d \in Accounts /\ UNCHANGED <<task, retries, disturbed, faults>>
           /\ \/ t[2] = "add" /\ Moves(w, "assign", t, d)
              \/ t[2] = "remove" /\ Moves(w, "unassign", t, d)
        \/ /\ Moves(w, "idle", None, None) /\ TakesBack(t)
           /\ Fault \/ UNCHANGED faults
<1> DEFINE t == worker[w].task
           d == account[t[1]]
<1>1. worker[w].pc # "idle" /\ worker[w] \in WorkerRec
  BY DEF LoadUser, TypeInv, TypeOK
<1>2. d \in MaybeAccount /\ t[2] \in {"add", "remove"}
  BY <1>1, RunParts DEF TypeInv, TypeOK
<1>3. CASE /\ d # None
           /\ worker' = [worker EXCEPT ![w].account = d, ![w].pc =
                           IF worker[w].task[2] = "add" THEN "assign"
                           ELSE "unassign"]
           /\ UNCHANGED <<taskVars, disturbed, faults>>
  <2>1. \A pc \in {"assign", "unassign"} :
          worker' = [worker EXCEPT ![w].account = d, ![w].pc = pc] =>
            Moves(w, pc, t, d)
    <3> SUFFICES ASSUME NEW pc \in {"assign", "unassign"},
                        worker' = [worker EXCEPT ![w].account = d, ![w].pc = pc]
                 PROVE Moves(w, pc, t, d)
      OBVIOUS
    <3>1. [[worker[w] EXCEPT !.account = d] EXCEPT !.pc = pc] =
            [pc |-> pc, task |-> t, account |-> d]
      <4> DEFINE R(x) == [pc |-> x, task |-> t, account |-> d]
      <4>1. [worker[w] EXCEPT !.account = d] = R(worker[w].pc)
        BY <1>1 DEF WorkerRec
      <4>2. [R(worker[w].pc) EXCEPT !.pc = pc] = R(pc)
        OBVIOUS
      <4> HIDE DEF R
      <4>3. [[worker[w] EXCEPT !.account = d] EXCEPT !.pc = pc] = R(pc)
        BY <4>1, <4>2, Zenon
      <4> QED BY <4>3, Zenon DEF R
    <3>2. worker' = [worker EXCEPT ![w] =
                       [[worker[w] EXCEPT !.account = d] EXCEPT !.pc = pc]]
      BY DEF TypeInv, TypeOK
    <3> QED BY <3>1, <3>2, Zenon DEF Moves
  <2>2. CASE t[2] = "add"
    <3>1. Moves(w, "assign", t, d)
      BY <1>3, <2>1, <2>2
    <3> QED BY <1>2, <1>3, <2>2, <3>1 DEF taskVars, MaybeAccount
  <2>3. CASE t[2] = "remove"
    <3>1. Moves(w, "unassign", t, d)
      BY <1>3, <2>1, <2>3
    <3> QED BY <1>2, <1>3, <2>3, <3>1 DEF taskVars, MaybeAccount
  <2> QED BY <1>2, <2>2, <2>3
<1>4. CASE ReturnError(w) /\ (Fault \/ UNCHANGED faults)
  BY <1>1, <1>4, ReturnErrorTakesBack
<1> QED BY <1>3, <1>4 DEF LoadUser

LEMMA ChangeRoleEffect ==
  ASSUME TypeInv, NEW w \in Workers, worker[w].pc # "idle", NEW changed,
         ChangeRole(w, changed)
  PROVE \/ /\ role' = changed /\ UNCHANGED <<task, retries, disturbed, faults>>
           /\ Moves(w, "finish", worker[w].task, worker[w].account)
        \/ /\ role' \in {role, changed} /\ Fault
           /\ Moves(w, "idle", None, None) /\ TakesBack(worker[w].task)
<1>1. CASE /\ role' = changed
           /\ worker' = [worker EXCEPT ![w].pc = "finish"]
           /\ UNCHANGED <<taskVars, disturbed, faults>>
  <2>1. [worker[w] EXCEPT !.pc = "finish"] =
          [pc |-> "finish", task |-> worker[w].task,
           account |-> worker[w].account]
    BY DEF TypeInv, TypeOK, WorkerRec
  <2>2. Moves(w, "finish", worker[w].task, worker[w].account)
    BY <1>1, <2>1 DEF Moves
  <2> QED BY <1>1, <2>2 DEF taskVars
<1>2. CASE role' \in {role, changed} /\ Fault /\ ReturnError(w)
  BY <1>2, ReturnErrorTakesBack
<1> QED BY <1>1, <1>2 DEF ChangeRole

LEMMA FinishEffect ==
  ASSUME TypeInv, NEW w \in Workers, Finish(w)
  PROVE LET t == worker[w].task IN
        /\ t \in Tasks /\ Moves(w, "idle", None, None)
        /\ task' \in [Tasks -> {"none", "waiting", "running", "dead"}]
        /\ retries' \in [Tasks -> 0..MaxRetry]
        /\ task[t] = "running" => task'[t] = "none"
        /\ \A s \in Tasks : s # t \/ task[t] # "running" => task'[s] = task[s]
<1> DEFINE t == worker[w].task
<1>1. t \in Tasks
  BY RunParts DEF Finish
<1>2. Moves(w, "idle", None, None)
  BY UnsentIs DEF Finish, Moves
<1>3. CASE /\ task[t] = "running"
           /\ task' = [task EXCEPT ![t] = "none"]
           /\ retries' = [retries EXCEPT ![t] = 0]
  <2>1. /\ task' \in [Tasks -> {"none", "waiting", "running", "dead"}]
        /\ retries' \in [Tasks -> 0..MaxRetry]
    BY <1>1, <1>3 DEF TypeInv, TypeOK
  <2> QED BY <1>1, <1>2, <1>3, <2>1 DEF TypeInv, TypeOK
<1>4. CASE task[t] # "running" /\ UNCHANGED taskVars
  BY <1>1, <1>2, <1>4 DEF TypeInv, TypeOK, taskVars
<1> QED BY <1>3, <1>4 DEF Finish

LEMMA LeaseLostEffect ==
  ASSUME TypeInv, NEW w \in Workers, LeaseLost(w)
  PROVE /\ worker[w].pc # "idle" /\ TakesBack(worker[w].task)
        /\ UNCHANGED worker \/ Moves(w, "idle", None, None)
        /\ Fault
  BY RunParts, RetryTakesBack, UnsentIs DEF LeaseLost, Moves, TypeInv

(* What is left to show of a run's step. *)
LEMMA RunTypes ==
  ASSUME TypeInv,
         worker' \in [Workers -> WorkerRec],
         \A w \in Workers : TypedWorker(worker'[w]),
         task' \in [Tasks -> {"none", "waiting", "running", "dead"}],
         retries' \in [Tasks -> 0..MaxRetry],
         role' \in SUBSET Accounts, disturbed' \in SUBSET Users,
         Fault \/ UNCHANGED faults,
         UNCHANGED <<rowVars, account, oauthVars, request, emailVars, moved>>
  PROVE TypeInv'
<1>1. faults' \in 0..MaxFaults
  BY FaultCounted DEF TypeInv, TypeOK
<1>2. UNCHANGED <<type, active, email, account, token, nonce, issued, redeemed,
                  torn, request, viaEmail, rivals, moved>>
  BY DEF rowVars, oauthVars, emailVars
<1>3. TypeOK'
  BY <1>1, <1>2 DEF TypeInv, TypeOK
<1> QED BY <1>2, <1>3 DEF TypeInv

LEMMA IdlesTyped ==
  ASSUME TypeInv, NEW w \in Workers, Moves(w, "idle", None, None)
  PROVE /\ worker' \in [Workers -> WorkerRec]
        /\ \A v \in Workers : TypedWorker(worker'[v])
        /\ worker'[w].pc = "idle"
        /\ \A v \in Workers : v # w => worker'[v] = worker[v]
  BY MovesTyped, NoneTyped

LEMMA TakesBackTyped ==
  ASSUME TypeInv, NEW t \in Tasks, TakesBack(t)
  PROVE /\ task' \in [Tasks -> {"none", "waiting", "running", "dead"}]
        /\ retries' \in [Tasks -> 0..MaxRetry]
        /\ disturbed' \in SUBSET Users
  BY TaskParts DEF TakesBack, TypeInv, TypeOK

LEMMA StartTaskTypes ==
  ASSUME TypeInv, NEW w \in Workers, NEW t \in Tasks, StartTask(w, t)
  PROVE TypeInv'
<1>1. /\ worker' \in [Workers -> WorkerRec]
      /\ \A v \in Workers : TypedWorker(worker'[v])
  BY StartTaskEffect, MovesTyped, NoneTyped
<1>2. task' \in [Tasks -> {"none", "waiting", "running", "dead"}]
  BY StartTaskEffect DEF TypeInv, TypeOK
<1> QED BY <1>1, <1>2, RunTypes DEF StartTask, TypeInv, TypeOK, roleVars

LEMMA LoadUserTypes ==
  ASSUME TypeInv, NEW w \in Workers, LoadUser(w)
  PROVE TypeInv'
<1> DEFINE t == worker[w].task
           d == account[t[1]]
<1>1. t \in Tasks
  BY RunParts DEF LoadUser
<1>2. CASE /\ Moves(w, "idle", None, None) /\ TakesBack(t)
           /\ Fault \/ UNCHANGED faults
  BY <1>1, <1>2, IdlesTyped, TakesBackTyped, RunTypes DEF LoadUser, TypeInv, TypeOK
<1>3. CASE /\ d \in Accounts /\ UNCHANGED <<task, retries, disturbed, faults>>
           /\ \/ t[2] = "add" /\ Moves(w, "assign", t, d)
              \/ t[2] = "remove" /\ Moves(w, "unassign", t, d)
  <2>1. d \in MaybeAccount /\ t \in Tasks \cup {None}
    BY <1>1, <1>3 DEF MaybeAccount
  <2>2. /\ worker' \in [Workers -> WorkerRec]
        /\ \A v \in Workers : TypedWorker(worker'[v])
    <3>1. CASE t[2] = "add" /\ Moves(w, "assign", t, d)
      BY <1>1, <1>3, <2>1, <3>1, MovesTyped
    <3>2. CASE t[2] = "remove" /\ Moves(w, "unassign", t, d)
      BY <1>1, <1>3, <2>1, <3>2, MovesTyped
    <3> QED BY <1>3, <3>1, <3>2
  <2> QED BY <1>3, <2>2, RunTypes DEF LoadUser, TypeInv, TypeOK
<1> QED BY <1>2, <1>3, LoadUserEffect

LEMMA ChangeRoleTypes ==
  ASSUME TypeInv, NEW w \in Workers, worker[w].pc \in {"assign", "unassign"},
         NEW changed \in SUBSET Accounts, ChangeRole(w, changed)
  PROVE TypeInv'
<1>1. worker[w].task \in Tasks /\ worker[w].account \in Accounts
  BY RunParts DEF TypeInv, TypedWorker
<1>2. CASE /\ role' = changed /\ UNCHANGED <<task, retries, disturbed, faults>>
           /\ Moves(w, "finish", worker[w].task, worker[w].account)
  <2>1. /\ worker' \in [Workers -> WorkerRec]
        /\ \A v \in Workers : TypedWorker(worker'[v])
    BY <1>1, <1>2, MovesTyped DEF MaybeAccount
  <2> QED BY <1>2, <2>1, RunTypes DEF ChangeRole, TypeInv, TypeOK
<1>3. CASE /\ role' \in {role, changed} /\ Fault
           /\ Moves(w, "idle", None, None) /\ TakesBack(worker[w].task)
  BY <1>1, <1>3, IdlesTyped, TakesBackTyped, RunTypes DEF ChangeRole, TypeInv, TypeOK
<1> QED BY <1>2, <1>3, ChangeRoleEffect

LEMMA RunStepTypes ==
  ASSUME TypeInv, NEW w \in Workers, WorkerStep(w) \/ LeaseLost(w)
  PROVE TypeInv'
<1>1. CASE AssignRole(w)
  <2>1. worker[w].account \in Accounts
    BY <1>1 DEF AssignRole, TypeInv, TypedWorker
  <2> QED BY <1>1, <2>1, ChangeRoleTypes DEF AssignRole, TypeInv, TypeOK
<1>2. CASE RemoveRole(w)
  BY <1>2, ChangeRoleTypes DEF RemoveRole, TypeInv, TypeOK
<1>3. CASE Finish(w)
  BY <1>3, FinishEffect, IdlesTyped, RunTypes DEF Finish, TypeInv, TypeOK, roleVars
<1>4. CASE LeaseLost(w)
  <2>1. worker[w].task \in Tasks
    BY <1>4, RunParts DEF LeaseLost
  <2>2. /\ worker' \in [Workers -> WorkerRec]
        /\ \A v \in Workers : TypedWorker(worker'[v])
    BY <1>4, LeaseLostEffect, IdlesTyped DEF TypeInv, TypeOK
  <2> QED BY <1>4, <2>1, <2>2, LeaseLostEffect, TakesBackTyped, RunTypes
             DEF LeaseLost, TypeInv, TypeOK
<1> QED BY <1>1, <1>2, <1>3, <1>4, LoadUserTypes DEF WorkerStep

LEMMA TypeNext == TypeInv /\ [Next]_vars => TypeInv'
<1> SUFFICES ASSUME TypeInv, [Next]_vars PROVE TypeInv'
  OBVIOUS
<1>1. ASSUME NEW q \in Requests, Send(q) PROVE TypeInv'
  BY <1>1, InviteByUserIDTypes, InviteByDiscordIDTypes, InviteByEmailTypes,
     AddAgentTypes, RemoveAgentTypes, ValidateTypes DEF Send
<1>2. ASSUME NEW q \in Requests, RequestStep(q) PROVE TypeInv'
  BY <1>2, CreateCollaboratorTypes, ExchangeFailsTypes, LinkTypes,
     StoreTokenTypes, EnqueueRoleTypes, IssueTypes DEF RequestStep
<1>3. CASE UNCHANGED vars
  BY <1>3 DEF vars, rowVars, taskVars, oauthVars, emailVars, roleVars, TypeInv,
     TypeOK
<1> QED BY <1>1, <1>2, <1>3, NonceExpiresTypes, RunStepTypes, StartTaskTypes
        DEF Next

(* Rows, tasks, runs and requests keep their types, and two rows never      *)
(* hold one account, although inserts and links race: the constraint on     *)
(* discord_user_id decides.                                                 *)
THEOREM TypeCorrect == Spec => []TypeOK
<1>1. TypeInv => TypeOK
  BY DEF TypeInv
<1> QED BY <1>1, InitTypes, TypeNext, PTL DEF Spec

-----------------------------------------------------------------------------
(* States are redeemed once *)

LEMMA StateNext == TypeInv /\ StateInv /\ [Next]_vars => StateInv'
<1> SUFFICES ASSUME TypeInv, StateInv, [Next]_vars PROVE StateInv'
  OBVIOUS
<1>1. ASSUME UNCHANGED <<nonce, issued, redeemed>> PROVE StateInv'
  BY <1>1 DEF StateInv
<1>2. ASSUME NEW q \in Requests, NEW s \in States, Issue(q, s) PROVE StateInv'
  <2>1. request[q].user \in Users
    BY <1>2 DEF Issue, TypeInv, TypedRequest
  <2> QED BY <1>2, <2>1 DEF Issue, SetNonce, StateInv, TypeInv, TypeOK
<1>3. ASSUME NEW s \in States, NonceExpires(s) PROVE StateInv'
  BY <1>3 DEF NonceExpires, StateInv, TypeInv, TypeOK
<1>4. ASSUME NEW q \in Requests, NEW s \in States, NEW d \in Accounts,
             Validate(q, s, d)
      PROVE StateInv'
  <2>1. nonce[s] # None /\ UNCHANGED issued
    BY <1>4 DEF Validate
  <2>2. redeemed[s] = 0 /\ issued[s] # None
    BY <2>1 DEF StateInv
  <2>3. /\ nonce'[s] = None /\ redeemed'[s] = 1
        /\ \A r \in States : r # s =>
             nonce'[r] = nonce[r] /\ redeemed'[r] = redeemed[r]
    BY <1>4, <2>2, ValidateEffect DEF TypeInv, TypeOK
  <2> QED BY <2>1, <2>2, <2>3 DEF StateInv
<1>5. ASSUME NEW q \in Requests, Send(q) PROVE StateInv'
  BY <1>1, <1>4, <1>5 DEF Send, InviteByUserID, InviteByDiscordID,
     InviteByEmail, AddAgent, RemoveAgent, oauthVars
<1>6. ASSUME NEW q \in Requests, RequestStep(q) PROVE StateInv'
  BY <1>1, <1>2, <1>6 DEF RequestStep, CreateCollaborator, ExchangeFails,
     LinkDiscordUserID, StoreToken, EnqueueRole, oauthVars
<1>7. ASSUME NEW w \in Workers,
             \/ WorkerStep(w) \/ LeaseLost(w)
             \/ \E t \in Tasks : StartTask(w, t)
      PROVE StateInv'
  BY <1>1, <1>7 DEF WorkerStep, LoadUser, AssignRole, RemoveRole, ChangeRole,
     Finish, LeaseLost, StartTask, oauthVars
<1>8. CASE UNCHANGED vars
  BY <1>1, <1>8 DEF vars, oauthVars
<1> QED BY <1>3, <1>5, <1>6, <1>7, <1>8 DEF Next

(* A state token is good for one callback: GETDEL hands it to one of them.  *)
THEOREM RedeemedOnce == Spec => []StateRedeemedOnce
<1>1. Init => StateInv
  BY DEF Init, StateInv
<1>2. StateInv => StateRedeemedOnce
  BY DEF StateInv, StateRedeemedOnce
<1> QED BY <1>1, <1>2, InitTypes, TypeNext, StateNext, PTL DEF Spec

-----------------------------------------------------------------------------
(* Rows are there before anything names them *)

(* Rows are never deleted. *)
LEMMA InsertKnows ==
  ASSUME TypeInv, NEW u \in Users, NEW t \in {"agent", "collaborator"}, NEW e,
         NEW d, Inserts(u, t, e, d)
  PROVE type'[u] # None /\ \A v \in Users : Known(v) => type'[v] # None
  BY DEF Inserts, Known

(* What a step has to show: users that are newly named have rows. *)
LEMMA RowsKept ==
  ASSUME TypeInv, TypeInv', RowsInv,
         \A u \in Users : Known(u) => type'[u] # None,
         \A u \in Users : account'[u] # account[u] /\ account'[u] # None =>
                            type'[u] # None,
         \A u \in Users : token'[u] # token[u] => type'[u] # None,
         \A u \in Users : email'[u] # email[u] => type'[u] # None,
         \A u \in Users : u \in active' \cup viaEmail' =>
                            u \in active \cup viaEmail \/ type'[u] # None,
         \A q \in Requests : request'[q].user # request[q].user
                               /\ request'[q].user # None =>
                               type'[request'[q].user] # None,
         \A s \in States : nonce'[s] # nonce[s] /\ nonce'[s] # None =>
                             type'[nonce'[s]] # None,
         \A t \in Tasks : task'[t] # "none" =>
                            task[t] # "none" \/ type'[t[1]] # None,
         \A w \in Workers : worker'[w].pc # "idle" =>
             \/ worker[w].pc # "idle" /\ worker'[w].task = worker[w].task
             \/ type'[worker'[w].task[1]] # None
  PROVE RowsInv'
<1>0. /\ \A q \in Requests : request'[q].user \in MaybeUser
      /\ \A s \in States : nonce'[s] \in MaybeUser
      /\ \A w \in Workers : worker'[w].pc # "idle" => worker'[w].task \in Tasks
      /\ active' \cup viaEmail' \subseteq Users
  BY DEF TypeInv, TypeOK, RequestRec, TypedWorker
<1>1. \A u \in Users :
        email'[u] # None \/ account'[u] # None \/ token'[u] # None =>
          type'[u] # None
  BY DEF RowsInv, Known
<1>2. \A u \in active' \cup viaEmail' : type'[u] # None
  BY <1>0 DEF RowsInv, Known
<1>3. \A q \in Requests : request'[q].user # None => type'[request'[q].user] # None
  BY <1>0 DEF RowsInv, MaybeUser, Known
<1>4. \A s \in States : nonce'[s] # None => type'[nonce'[s]] # None
  BY <1>0 DEF RowsInv, MaybeUser, Known
<1>5. \A t \in Tasks : task'[t] # "none" => type'[t[1]] # None
  BY <1>0, TaskParts DEF RowsInv, Known
<1>6. \A w \in Workers : worker'[w].pc # "idle" => type'[worker'[w].task[1]] # None
  BY <1>0, TaskParts DEF RowsInv, Known
<1> QED BY <1>1, <1>2, <1>3, <1>4, <1>5, <1>6 DEF RowsInv, Known

LEMMA BecomesHas ==
  ASSUME TypeInv, NEW q \in Requests, NEW pc, NEW u, NEW e, NEW d,
         Becomes(q, pc, u, e, d)
  PROVE /\ request'[q].pc = pc /\ request'[q].user = u
        /\ request'[q].email = e /\ request'[q].account = d
        /\ \A p \in Requests : p # q => request'[p] = request[p]
<1> DEFINE y == [pc |-> pc, user |-> u, email |-> e, account |-> d]
<1>1. y.pc = pc /\ y.user = u /\ y.email = e /\ y.account = d
  OBVIOUS
<1>2. request' = [request EXCEPT ![q] = y] /\ request \in [Requests -> RequestRec]
  BY DEF Becomes, TypeInv, TypeOK
<1> HIDE DEF y
<1> QED BY <1>1, <1>2

LEMMA MovesHas ==
  ASSUME TypeInv, NEW w \in Workers, NEW pc, NEW t, NEW d, Moves(w, pc, t, d)
  PROVE /\ worker'[w].pc = pc /\ worker'[w].task = t /\ worker'[w].account = d
        /\ \A v \in Workers : v # w => worker'[v] = worker[v]
<1> DEFINE y == [pc |-> pc, task |-> t, account |-> d]
<1>1. y.pc = pc /\ y.task = t /\ y.account = d
  OBVIOUS
<1>2. worker' = [worker EXCEPT ![w] = y] /\ worker \in [Workers -> WorkerRec]
  BY DEF Moves, TypeInv, TypeOK
<1> HIDE DEF y
<1> QED BY <1>1, <1>2

(* Requests, with the rows as they are *)
LEMMA RowsRequests ==
  ASSUME TypeInv, TypeInv', RowsInv, NEW q \in Requests,
         NEW pc, NEW u \in MaybeUser, NEW e, NEW d, Becomes(q, pc, u, e, d),
         u # None => Known(u),
         \A v \in Users : account'[v] # account[v] \/ token'[v] # token[v] =>
                            Known(v),
         \A s \in States : nonce'[s] # nonce[s] /\ nonce'[s] # None =>
                             Known(nonce'[s]),
         \A t \in Tasks : task'[t] # "none" => task[t] # "none" \/ Known(t[1]),
         active' \subseteq active, UNCHANGED <<type, email, viaEmail, worker>>
  PROVE RowsInv'
<1>1. /\ request'[q].user = u
      /\ \A p \in Requests : p # q => request'[p] = request[p]
  BY BecomesHas
<1> QED BY <1>1, RowsKept DEF Known

LEMMA RowsInserts ==
  ASSUME TypeInv, TypeInv', RowsInv, NEW q \in Requests, NEW u \in Users,
         NEW t \in {"agent", "collaborator"}, NEW e, NEW d, Inserts(u, t, e, d),
         \/ \E pc : Becomes(q, pc, u, None, None)
         \/ Becomes(q, "done", None, None, None),
         viaEmail' \subseteq viaEmail \cup {u},
         UNCHANGED <<oauthVars, taskVars, worker>>
  PROVE RowsInv'
<1>1. type'[u] # None /\ \A v \in Users : Known(v) => type'[v] # None
  BY InsertKnows
<1>2. /\ request'[q].user \in {u, None}
      /\ \A p \in Requests : p # q => request'[p] = request[p]
  BY BecomesHas
<1>3. UNCHANGED <<token, nonce, task>>
  BY DEF oauthVars, taskVars
<1>4. \A v \in Users : account'[v] # account[v] \/ email'[v] # email[v] => v = u
  BY DEF Inserts
<1>5. active' = active \cup {u}
  BY DEF Inserts
<1> QED BY <1>1, <1>2, <1>3, <1>4, <1>5, RowsKept

LEMMA RowsSends ==
  ASSUME TypeInv, TypeInv', RowsInv, NEW q \in Requests, Send(q)
  PROVE RowsInv'
<1> USE DEF rowVars, oauthVars, taskVars, emailVars
<1>1. ASSUME NEW u \in Users, InviteByUserID(q, u) PROVE RowsInv'
  <2>1. /\ \/ Becomes(q, "issue", u, None, None)
           \/ Becomes(q, "done", None, None, None)
        /\ Known(u)
    BY <1>1, ResolveBecomes DEF InviteByUserID, Known
  <2> QED BY <1>1, <2>1, RowsRequests, NoneTyped DEF InviteByUserID, MaybeUser
<1>2. ASSUME NEW u \in Users, RemoveAgent(q, u) PROVE RowsInv'
  <2>1. Known(u)
    BY <1>2 DEF RemoveAgent, Known
  <2>2. active' \subseteq active
    BY <1>2, RemoveAgentEffect
  <2> QED BY <1>2, <2>1, <2>2, RemoveAgentEffect, RowsRequests, NoneTyped
             DEF RemoveAgent, MaybeUser
<1>3. ASSUME NEW e \in Emails, InviteByEmail(q, e) PROVE RowsInv'
  <2>1. ASSUME NEW u \in Users, email[u] = e, Becomes(q, "issue", u, None, None)
        PROVE RowsInv'
    <3>1. Known(u)
      BY <2>1 DEF RowsInv
    <3> QED BY <1>3, <2>1, <3>1, RowsRequests DEF InviteByEmail, MaybeUser
  <2>2. CASE \/ Becomes(q, "create", None, e, None)
             \/ Becomes(q, "done", None, None, None)
    BY <1>3, <2>2, RowsRequests, NoneTyped DEF InviteByEmail
  <2> QED BY <1>3, <2>1, <2>2, InviteByEmailEffect
<1>4. ASSUME NEW d \in Accounts, NEW e \in MaybeEmail, InviteByDiscordID(q, d, e)
      PROVE RowsInv'
  <2>1. \/ Becomes(q, "create", None, e, d)
        \/ Becomes(q, "done", None, None, None)
    BY <1>4, InviteByDiscordIDEffect
  <2> QED BY <1>4, <2>1, RowsRequests, NoneTyped DEF InviteByDiscordID
<1>5. ASSUME NEW e \in Emails, NEW d \in MaybeAccount, AddAgent(q, e, d)
      PROVE RowsInv'
  <2>1. PICK u \in Users :
          /\ Inserts(u, "agent", e, d)
          /\ \/ Becomes(q, "add", u, None, None)
             \/ Becomes(q, "done", None, None, None)
    BY <1>5, AddAgentEffect
  <2> QED BY <1>5, <2>1, RowsInserts DEF AddAgent
<1>6. ASSUME NEW s \in States, NEW d \in Accounts, Validate(q, s, d)
      PROVE RowsInv'
  <2>1. /\ nonce[s] \in Users /\ Known(nonce[s])
        /\ Becomes(q, "link", nonce[s], None, d)
    BY <1>6, ValidateEffect DEF RowsInv
  <2>2. \A r \in States : nonce'[r] = nonce[r] \/ nonce'[r] = None
    BY <1>6, ValidateEffect DEF TypeInv, TypeOK
  <2> QED BY <1>6, <2>1, <2>2, RowsRequests DEF Validate, MaybeUser
<1> QED BY <1>1, <1>2, <1>3, <1>4, <1>5, <1>6 DEF Send

LEMMA RowsRequestSteps ==
  ASSUME TypeInv, TypeInv', RowsInv, NEW q \in Requests, RequestStep(q)
  PROVE RowsInv'
<1> USE DEF rowVars, oauthVars, taskVars, emailVars
<1>1. CASE CreateCollaborator(q)
  <2>1. CASE /\ Becomes(q, "done", None, None, None)
             /\ UNCHANGED <<type, active, email, account, viaEmail>>
    BY <1>1, <2>1, RowsRequests, NoneTyped DEF CreateCollaborator
  <2>2. ASSUME NEW u \in Users, NEW e, NEW d, Inserts(u, "collaborator", e, d),
               viaEmail' = viaEmail \cup {v \in {u} : d = None},
               \/ d = None /\ Becomes(q, "issue", u, None, None)
               \/ Becomes(q, "done", None, None, None)
        PROVE RowsInv'
    BY <1>1, <2>2, RowsInserts DEF CreateCollaborator
  <2> QED BY <1>1, <2>1, <2>2, CreateCollaboratorEffect
<1>2. CASE ExchangeFails(q)
  BY <1>2, ReplyBecomes, RowsRequests, NoneTyped DEF ExchangeFails
<1>3. CASE LinkDiscordUserID(q)
  <2>1. request[q].user \in Users /\ Known(request[q].user)
    BY <1>3, LinkEffect DEF RowsInv
  <2>2. \A v \in Users : account'[v] # account[v] => v = request[q].user
    BY <1>3, LinkEffect DEF Links
  <2>3. \/ Becomes(q, "store", request[q].user, request[q].email,
                   request[q].account)
        \/ Becomes(q, "done", None, None, None)
    BY <1>3, LinkEffect
  <2> QED BY <1>3, <2>1, <2>2, <2>3, RowsRequests, NoneTyped
             DEF LinkDiscordUserID, MaybeUser
<1>4. CASE StoreToken(q)
  <2>1. request[q].user \in Users /\ Known(request[q].user)
    BY <1>4 DEF StoreToken, TypeInv, TypedRequest, RowsInv
  <2>2. \A v \in Users : token'[v] # token[v] => v = request[q].user
    BY <1>4 DEF StoreToken, UpsertOAuthToken, TypeInv, TypeOK
  <2>3. Becomes(q, "done", None, None, None)
    BY <1>4, ReplyBecomes DEF StoreToken
  <2> QED BY <1>4, <2>1, <2>2, <2>3, RowsRequests, NoneTyped DEF StoreToken
<1>5. CASE EnqueueRole(q)
  <2>1. request[q].user \in Users /\ Known(request[q].user)
    BY <1>5, EnqueueRoleEffect DEF RowsInv
  <2>2. \A t \in Tasks : task'[t] # "none" => task[t] # "none" \/ Known(t[1])
    <3>1. PICK t \in Tasks : t = <<request[q].user, request[q].pc>>
      BY <1>5, EnqueueRoleEffect
    <3>2. task' = task \/ task' = [task EXCEPT ![t] = "waiting"]
      BY <1>5, <3>1, EnqueueRoleEffect
    <3>3. t[1] = request[q].user
      BY <3>1
    <3> QED BY <2>1, <3>2, <3>3 DEF TypeInv, TypeOK
  <2>3. Becomes(q, "done", None, None, None)
    BY <1>5, EnqueueRoleEffect
  <2> QED BY <1>5, <2>2, <2>3, RowsRequests, NoneTyped DEF EnqueueRole
<1>6. ASSUME NEW s \in States, Issue(q, s) PROVE RowsInv'
  <2>1. request[q].user \in Users /\ Known(request[q].user)
    BY <1>6 DEF Issue, TypeInv, TypedRequest, RowsInv
  <2>2. \A r \in States : nonce'[r] # nonce[r] => nonce'[r] = request[q].user
    BY <1>6 DEF Issue, SetNonce, TypeInv, TypeOK
  <2>3. Becomes(q, "done", None, None, None)
    BY <1>6, ReplyBecomes DEF Issue
  <2> QED BY <1>6, <2>1, <2>2, <2>3, RowsRequests, NoneTyped DEF Issue
<1> QED BY <1>1, <1>2, <1>3, <1>4, <1>5, <1>6 DEF RequestStep

LEMMA RowsRuns ==
  ASSUME TypeInv, TypeInv', RowsInv, NEW w \in Workers,
         \/ WorkerStep(w) \/ LeaseLost(w)
         \/ \E t \in Tasks : StartTask(w, t)
  PROVE RowsInv'
<1>1. ASSUME NEW t \in Tasks, StartTask(w, t)
      PROVE /\ worker'[w].task = t /\ Known(t[1])
            /\ \A v \in Workers : v # w => worker'[v] = worker[v]
            /\ \A s \in Tasks : task'[s] # "none" => task[s] # "none"
  BY <1>1, StartTaskEffect, MovesHas DEF RowsInv, TypeInv, TypeOK
<1>2. ASSUME Moves(w, "idle", None, None)
      PROVE /\ worker'[w].pc = "idle"
            /\ \A v \in Workers : v # w => worker'[v] = worker[v]
  BY <1>2, MovesHas
<1>3. ASSUME NEW t \in Tasks, TakesBack(t)
      PROVE \A s \in Tasks : task'[s] # "none" => task[s] # "none"
  BY <1>3 DEF TakesBack
<1>4. ASSUME worker[w].pc # "idle", NEW pc, NEW d,
             Moves(w, pc, worker[w].task, d)
      PROVE \A v \in Workers : /\ worker'[v].task = worker[v].task
                               /\ worker[v].pc = "idle" => worker'[v].pc = "idle"
  BY <1>4, MovesHas
<1>5. UNCHANGED <<type, active, email, account, token, nonce, viaEmail, request>>
  BY DEF WorkerStep, LoadUser, AssignRole, RemoveRole, ChangeRole, Finish,
     LeaseLost, StartTask, rowVars, oauthVars, emailVars
<1>6. ASSUME \A s \in Tasks : task'[s] # "none" => task[s] # "none",
             \A v \in Workers : worker'[v].pc # "idle" =>
                \/ worker[v].pc # "idle" /\ worker'[v].task = worker[v].task
                \/ type'[worker'[v].task[1]] # None
      PROVE RowsInv'
  BY <1>5, <1>6, RowsKept DEF Known
<1>7. CASE \E t \in Tasks : StartTask(w, t)
  BY <1>1, <1>5, <1>6, <1>7 DEF Known
<1>8. ASSUME worker[w].pc # "idle",
             UNCHANGED worker \/ Moves(w, "idle", None, None),
             TakesBack(worker[w].task)
      PROVE RowsInv'
  BY <1>2, <1>3, <1>6, <1>8, RunParts
<1>9. ASSUME worker[w].pc # "idle", NEW pc, NEW d, UNCHANGED task,
             Moves(w, pc, worker[w].task, d)
      PROVE RowsInv'
  BY <1>4, <1>6, <1>9
<1>10. CASE LoadUser(w)
  <2>1. worker[w].pc # "idle"
    BY <1>10 DEF LoadUser
  <2> QED BY <1>8, <1>9, <1>10, <2>1, LoadUserEffect
<1>11. ASSUME worker[w].pc # "idle", NEW changed, ChangeRole(w, changed)
       PROVE RowsInv'
  BY <1>8, <1>9, <1>11, ChangeRoleEffect
<1>12. CASE Finish(w)
  <2>1. \A s \in Tasks : task'[s] # "none" => task[s] # "none"
    BY <1>12, FinishEffect
  <2> QED BY <1>2, <1>6, <1>12, <2>1, FinishEffect
<1>13. CASE LeaseLost(w)
  BY <1>8, <1>13, LeaseLostEffect
<1> QED BY <1>7, <1>10, <1>11, <1>12, <1>13 DEF WorkerStep, AssignRole, RemoveRole

LEMMA RowsNext == TypeInv /\ RowsInv /\ [Next]_vars => RowsInv'
<1> SUFFICES ASSUME TypeInv, RowsInv, [Next]_vars PROVE RowsInv'
  OBVIOUS
<1>1. TypeInv'
  BY TypeNext
<1>2. ASSUME NEW s \in States, NonceExpires(s) PROVE RowsInv'
  <2>1. \A r \in States : nonce'[r] = nonce[r] \/ nonce'[r] = None
    BY <1>2 DEF NonceExpires, TypeInv, TypeOK
  <2> QED BY <1>1, <1>2, <2>1, RowsKept DEF NonceExpires, rowVars, taskVars,
             emailVars, Known
<1>3. CASE UNCHANGED vars
  BY <1>3 DEF vars, rowVars, oauthVars, taskVars, emailVars, RowsInv, Known
<1> QED BY <1>1, <1>2, <1>3, RowsSends, RowsRequestSteps, RowsRuns DEF Next

LEMMA RowsInit == Init => RowsInv
<1> SUFFICES ASSUME Init PROVE RowsInv
  OBVIOUS
<1>1. Unsent.user = None /\ Idle.pc = "idle"
  BY DEF Unsent, Idle
<1> QED BY <1>1 DEF Init, RowsInv, Known

-----------------------------------------------------------------------------
(* Tokens match links *)

(* Steps that are no callback: the rows they write are new. *)
LEMMA TokenAside ==
  ASSUME TokenInv,
         \A q \in Requests : \/ request'[q] = request[q]
                             \/ /\ request[q].pc \notin {"link", "store"}
                                /\ request'[q].pc \notin {"link", "store"},
         \A u \in Users : token[u] # None => account'[u] = account[u],
         \A q \in Requests : request[q].pc = "store" =>
             account'[request[q].user] = account[request[q].user],
         UNCHANGED <<token, torn>>
  PROVE TokenInv'
  BY DEF TokenInv, Connecting

LEMMA TokenValidate ==
  ASSUME TypeInv, TokenInv, NEW q \in Requests, NEW s \in States,
         NEW d \in Accounts, Validate(q, s, d)
  PROVE TokenInv'
<1>1. PICK u \in Users : u = nonce[s]
  BY ValidateEffect
<1>2. /\ request'[q].pc = "link" /\ request'[q].user = u
      /\ \A p \in Requests : p # q => request'[p] = request[p]
  BY <1>1, ValidateEffect, BecomesHas
<1>3. request[q].pc = "unsent" /\ UNCHANGED <<account, token>>
  BY DEF Validate
<1>4. /\ torn \subseteq torn'
      /\ u \notin torn' => \A p \in Requests : ~ Connecting(p, u)
  BY <1>1, ValidateEffect
<1> QED BY <1>2, <1>3, <1>4 DEF TokenInv, Connecting

LEMMA TokenLink ==
  ASSUME TypeInv, TokenInv, NEW q \in Requests, LinkDiscordUserID(q)
  PROVE TokenInv'
<1>a. PICK e : e = request[q].email
  OBVIOUS
<1>b. PICK u \in Users, d \in Accounts :
        u = request[q].user /\ d = request[q].account
  BY LinkEffect
<1>1. u = request[q].user /\ d = request[q].account /\ e = request[q].email
  BY <1>a, <1>b
<1>2. request[q].pc = "link" /\ UNCHANGED token
  BY DEF LinkDiscordUserID
<1>3. torn \subseteq torn'
  BY LinkEffect
<1>4. CASE /\ Becomes(q, "store", u, e, d)
           /\ account'[u] = d \/ u \in torn'
           /\ \A v \in Users : v # u => account'[v] = account[v]
  <2>1. /\ request'[q].pc = "store" /\ request'[q].user = u
        /\ request'[q].account = d
        /\ \A p \in Requests : p # q => request'[p] = request[p]
    BY <1>4, BecomesHas
  <2> QED BY <1>1, <1>2, <1>3, <1>4, <2>1 DEF TokenInv, Connecting
<1>5. CASE Becomes(q, "done", None, None, None) /\ UNCHANGED account
  <2>1. /\ request'[q].pc = "done"
        /\ \A p \in Requests : p # q => request'[p] = request[p]
    BY <1>5, BecomesHas
  <2> QED BY <1>1, <1>2, <1>3, <1>5, <2>1 DEF TokenInv, Connecting
<1> QED BY <1>1, <1>4, <1>5, LinkEffect DEF Links

LEMMA TokenStore ==
  ASSUME TypeInv, TokenInv, NEW q \in Requests, StoreToken(q)
  PROVE TokenInv'
<1>1. PICK u \in Users, d \in Accounts :
        u = request[q].user /\ d = request[q].account
  BY DEF StoreToken, TypeInv, TypedRequest
<1>2. /\ request'[q].pc = "done"
      /\ \A p \in Requests : p # q => request'[p] = request[p]
  BY ReplyBecomes, BecomesHas DEF StoreToken
<1>3. /\ request[q].pc = "store" /\ UNCHANGED account
      /\ torn \subseteq torn'
      /\ \A v \in Users : v # u => token'[v] = token[v]
      /\ token'[u] = d \/ u \in torn'
  BY <1>1 DEF StoreToken, UpsertOAuthToken, TypeInv, TypeOK
<1> QED BY <1>1, <1>2, <1>3 DEF TokenInv, Connecting

LEMMA TokenInserts ==
  ASSUME TypeInv, RowsInv, TokenInv, NEW q \in Requests, NEW u \in Users, NEW t,
         NEW e, NEW d, Inserts(u, t, e, d),
         request[q].pc \notin {"link", "store"},
         \/ \E pc \in {"add", "issue"} : Becomes(q, pc, u, None, None)
         \/ Becomes(q, "done", None, None, None),
         UNCHANGED <<token, torn>>
  PROVE TokenInv'
<1>1. ~ Known(u) /\ \A v \in Users : v # u => account'[v] = account[v]
  BY DEF Inserts, Known
<1>2. /\ request'[q].pc \notin {"link", "store"}
      /\ \A p \in Requests : p # q => request'[p] = request[p]
  BY BecomesHas
<1>3. \A p \in Requests : request[p].pc = "store" =>
        request[p].user \in Users /\ Known(request[p].user)
  BY DEF TypeInv, TypedRequest, RowsInv
<1>4. \A v \in Users : token[v] # None => Known(v)
  BY DEF RowsInv
<1> QED BY <1>1, <1>2, <1>3, <1>4, TokenAside

LEMMA TokenRequests ==
  ASSUME TypeInv, TokenInv, NEW q \in Requests, NEW pc, NEW u, NEW e, NEW d,
         Becomes(q, pc, u, e, d), UNCHANGED <<account, token, torn>>,
         request[q].pc \notin {"link", "store"}, pc \notin {"link", "store"}
  PROVE TokenInv'
<1>1. /\ request'[q].pc = pc
      /\ \A p \in Requests : p # q => request'[p] = request[p]
  BY BecomesHas
<1> QED BY <1>1, TokenAside

LEMMA TokenSends ==
  ASSUME TypeInv, RowsInv, TokenInv, NEW q \in Requests, Send(q)
  PROVE TokenInv'
<1> USE DEF oauthVars
<1>0. request[q].pc = "unsent"
  BY DEF Send, InviteByUserID, RemoveAgent, InviteByEmail, InviteByDiscordID,
     AddAgent, Validate
<1>1. ASSUME NEW u \in Users, InviteByUserID(q, u) PROVE TokenInv'
  BY <1>0, <1>1, ResolveBecomes, TokenRequests DEF InviteByUserID
<1>2. ASSUME NEW u \in Users, RemoveAgent(q, u) PROVE TokenInv'
  BY <1>0, <1>2, RemoveAgentEffect, TokenRequests DEF RemoveAgent
<1>3. ASSUME NEW e \in Emails, InviteByEmail(q, e) PROVE TokenInv'
  <2>1. UNCHANGED <<account, token, torn>>
    BY <1>3 DEF InviteByEmail
  <2> QED BY <1>0, <1>3, <2>1, InviteByEmailEffect, TokenRequests
<1>4. ASSUME NEW d \in Accounts, NEW e \in MaybeEmail, InviteByDiscordID(q, d, e)
      PROVE TokenInv'
  <2>1. UNCHANGED <<account, token, torn>>
    BY <1>4 DEF InviteByDiscordID
  <2> QED BY <1>0, <1>4, <2>1, InviteByDiscordIDEffect, TokenRequests
<1>5. ASSUME NEW e \in Emails, NEW d \in MaybeAccount, AddAgent(q, e, d)
      PROVE TokenInv'
  <2>1. PICK u \in Users :
          /\ Inserts(u, "agent", e, d)
          /\ \/ Becomes(q, "add", u, None, None)
             \/ Becomes(q, "done", None, None, None)
    BY <1>5, AddAgentEffect
  <2> QED BY <1>0, <1>5, <2>1, TokenInserts DEF AddAgent
<1> QED BY <1>1, <1>2, <1>3, <1>4, <1>5, TokenValidate DEF Send

LEMMA TokenRequestSteps ==
  ASSUME TypeInv, RowsInv, TokenInv, NEW q \in Requests, RequestStep(q)
  PROVE TokenInv'
<1> USE DEF oauthVars
<1>1. CASE CreateCollaborator(q)
  <2>0. request[q].pc = "create" /\ UNCHANGED <<token, torn>>
    BY <1>1 DEF CreateCollaborator
  <2>1. CASE /\ Becomes(q, "done", None, None, None)
             /\ UNCHANGED <<type, active, email, account, viaEmail>>
    BY <2>0, <2>1, TokenRequests
  <2>2. ASSUME NEW u \in Users, NEW e, NEW d, Inserts(u, "collaborator", e, d),
               \/ d = None /\ Becomes(q, "issue", u, None, None)
               \/ Becomes(q, "done", None, None, None)
        PROVE TokenInv'
    BY <2>0, <2>2, TokenInserts
  <2> QED BY <1>1, <2>1, <2>2, CreateCollaboratorEffect
<1>2. CASE ExchangeFails(q)
  <2>1. /\ request'[q].pc = "done"
        /\ \A p \in Requests : p # q => request'[p] = request[p]
    BY <1>2, ReplyBecomes, BecomesHas DEF ExchangeFails
  <2>2. request[q].pc = "link" /\ UNCHANGED <<account, token, torn>>
    BY <1>2 DEF ExchangeFails
  <2> QED BY <2>1, <2>2 DEF TokenInv, Connecting
<1>3. CASE EnqueueRole(q)
  <2>1. request[q].pc \notin {"link", "store"}
    BY <1>3, EnqueueRoleEffect
  <2> QED BY <1>3, <2>1, EnqueueRoleEffect, TokenRequests DEF EnqueueRole
<1>4. ASSUME NEW s \in States, Issue(q, s) PROVE TokenInv'
  BY <1>4, ReplyBecomes, TokenRequests DEF Issue
<1> QED BY <1>1, <1>2, <1>3, <1>4, TokenLink, TokenStore DEF RequestStep

LEMMA TokenNext == TypeInv /\ RowsInv /\ TokenInv /\ [Next]_vars => TokenInv'
<1> SUFFICES ASSUME TypeInv, RowsInv, TokenInv, [Next]_vars PROVE TokenInv'
  OBVIOUS
<1>1. ASSUME UNCHANGED <<request, account, token, torn>> PROVE TokenInv'
  BY <1>1 DEF TokenInv, Connecting
<1>2. ASSUME NEW w \in Workers,
             \/ WorkerStep(w) \/ LeaseLost(w)
             \/ \E t \in Tasks : StartTask(w, t)
      PROVE UNCHANGED <<request, account, token, torn>>
  BY <1>2 DEF WorkerStep, LoadUser, AssignRole, RemoveRole, ChangeRole, Finish,
     LeaseLost, StartTask, oauthVars
<1>3. ASSUME NEW s \in States, NonceExpires(s) PROVE TokenInv'
  BY <1>1, <1>3 DEF NonceExpires
<1>4. CASE UNCHANGED vars
  BY <1>1, <1>4 DEF vars, oauthVars
<1> QED BY <1>1, <1>2, <1>3, <1>4, TokenSends, TokenRequestSteps DEF Next

(* Whatever callbacks fail, are denied or meet, the stored token is that of *)
(* the linked account unless the user's own link or token was torn.         *)
THEOREM TokensMatch == Spec => []TokenMatchesLink
<1>1. Init => TokenInv
  <2>1. Unsent.pc = "unsent"
    BY DEF Unsent
  <2> QED BY <2>1 DEF Init, TokenInv, Connecting
<1>2. TypeInv /\ TokenInv => TokenMatchesLink
  BY DEF TypeInv, TypedRequest, TokenInv, TokenMatchesLink, Connecting
<1> QED BY <1>1, <1>2, InitTypes, TypeNext, RowsInit, RowsNext, TokenNext, PTL
        DEF Spec

-----------------------------------------------------------------------------
(* An email is resolved once *)

(* Steps that neither miss an email nor create a row for one. *)
LEMMA EmailAside ==
  ASSUME EmailInv,
         \A q \in Requests : \/ request'[q] = request[q]
                             \/ request'[q].pc # "create"
                             \/ request'[q].account # None,
         \A u \in viaEmail : email'[u] = email[u],
         UNCHANGED <<viaEmail, rivals>>
  PROVE EmailInv'
<1>1. \A q \in Requests, e \in Emails : Missing(q, e)' => Missing(q, e)
  BY DEF Missing
<1>2. EmailResolvedOnce'
  BY DEF EmailInv, EmailResolvedOnce
<1> QED BY <1>1, <1>2 DEF EmailInv

LEMMA EmailRequests ==
  ASSUME TypeInv, EmailInv, NEW q \in Requests, NEW pc, NEW u, NEW e, NEW d,
         Becomes(q, pc, u, e, d), pc # "create" \/ d # None,
         UNCHANGED <<email, viaEmail, rivals>>
  PROVE EmailInv'
<1>1. /\ request'[q].pc = pc /\ request'[q].account = d
      /\ \A p \in Requests : p # q => request'[p] = request[p]
  BY BecomesHas
<1> QED BY <1>1, EmailAside

LEMMA EmailInvites ==
  ASSUME TypeInv, EmailInv, NEW q \in Requests, NEW e \in Emails,
         InviteByEmail(q, e)
  PROVE EmailInv'
<1>0. request[q].pc = "unsent" /\ UNCHANGED <<email, viaEmail>>
  BY DEF InviteByEmail, rowVars
<1>1. ASSUME NEW u \in Users, UNCHANGED rivals,
             \/ Becomes(q, "issue", u, None, None)
             \/ Becomes(q, "done", None, None, None)
      PROVE EmailInv'
  BY <1>0, <1>1, EmailRequests
<1>2. CASE /\ Becomes(q, "create", None, e, None)
           /\ \A u \in Users : email[u] # e
           /\ rivals' = rivals \cup
                {f \in {e} : \E p \in Requests : Missing(p, f)}
  <2>1. /\ request'[q].pc = "create" /\ request'[q].email = e
        /\ \A p \in Requests : p # q => request'[p] = request[p]
    BY <1>2, BecomesHas
  <2>2. /\ \A p \in Requests, f \in Emails : p # q =>
             (Missing(p, f)' <=> Missing(p, f))
        /\ \A f \in Emails : Missing(q, f)' => f = e
    BY <2>1 DEF Missing
  <2>3. /\ rivals \subseteq rivals'
        /\ \A p \in Requests : Missing(p, e) => e \in rivals'
    BY <1>2
  <2>4. EmailResolvedOnce'
    BY <1>0, <2>3 DEF EmailInv, EmailResolvedOnce
  <2>5. \A p, r \in Requests, f \in Emails :
          Missing(p, f)' /\ Missing(r, f)' /\ p # r => f \in rivals'
    BY <2>2, <2>3 DEF EmailInv
  <2>6. \A p \in Requests, f \in Emails, u \in viaEmail' :
          Missing(p, f)' /\ email'[u] = f => f \in rivals'
    BY <1>0, <1>2, <2>2, <2>3 DEF EmailInv, TypeInv, TypeOK
  <2> QED BY <2>4, <2>5, <2>6 DEF EmailInv
<1> QED BY <1>1, <1>2, InviteByEmailEffect

LEMMA EmailCreates ==
  ASSUME TypeInv, RowsInv, EmailInv, NEW q \in Requests, CreateCollaborator(q)
  PROVE EmailInv'
<1>1. PICK e, d : e = request[q].email /\ d = request[q].account
  OBVIOUS
<1>2. request[q].pc = "create" /\ UNCHANGED rivals
  BY DEF CreateCollaborator
<1>3. CASE /\ Becomes(q, "done", None, None, None)
           /\ UNCHANGED <<type, active, email, account, viaEmail>>
  BY <1>2, <1>3, EmailRequests
<1>4. ASSUME NEW u \in Users, Inserts(u, "collaborator", e, d),
             viaEmail' = viaEmail \cup {v \in {u} : d = None},
             \/ d = None /\ Becomes(q, "issue", u, None, None)
             \/ Becomes(q, "done", None, None, None)
      PROVE EmailInv'
  <2>1. /\ request'[q].pc # "create"
        /\ \A p \in Requests : p # q => request'[p] = request[p]
    BY <1>4, BecomesHas
  <2>2. u \notin viaEmail
    BY <1>4 DEF Inserts, RowsInv, Known
  <2>3. viaEmail \subseteq Users /\ \A v \in viaEmail : email'[v] = email[v]
    BY <1>4, <2>2 DEF Inserts, TypeInv, TypeOK
  <2>4. CASE d # None
    <3>1. UNCHANGED viaEmail
      BY <1>4, <2>4
    <3> QED BY <1>2, <2>1, <2>3, <3>1, EmailAside
  <2>5. CASE d = None
    <3>1. e \in Emails /\ Missing(q, e) /\ email'[u] = e
      BY <1>1, <1>2, <1>4, <2>5 DEF Missing, TypeInv, TypedRequest, Inserts
    <3>2. \A p \in Requests, f \in Emails :
            Missing(p, f)' => p # q /\ Missing(p, f)
      BY <2>1 DEF Missing
    <3>3. \A v \in viaEmail : email[v] = e => e \in rivals
      BY <3>1 DEF EmailInv
    <3>4. viaEmail' = viaEmail \cup {u}
      BY <1>4, <2>5
    <3>5. EmailResolvedOnce'
      BY <1>2, <2>3, <3>1, <3>3, <3>4 DEF EmailInv, EmailResolvedOnce
    <3>6. \A p \in Requests, f \in Emails, v \in viaEmail' :
            Missing(p, f)' /\ email'[v] = f => f \in rivals'
      BY <1>2, <2>3, <3>1, <3>2, <3>4 DEF EmailInv
    <3>7. \A p, r \in Requests, f \in Emails :
            Missing(p, f)' /\ Missing(r, f)' /\ p # r => f \in rivals'
      BY <1>2, <3>2 DEF EmailInv
    <3> QED BY <3>5, <3>6, <3>7 DEF EmailInv
  <2> QED BY <2>4, <2>5
<1> QED BY <1>1, <1>3, <1>4, CreateCollaboratorEffect

LEMMA EmailNext == TypeInv /\ RowsInv /\ EmailInv /\ [Next]_vars => EmailInv'
<1> SUFFICES ASSUME TypeInv, RowsInv, EmailInv, [Next]_vars PROVE EmailInv'
  OBVIOUS
<1> USE DEF rowVars, emailVars
<1>1. ASSUME UNCHANGED <<request, email, viaEmail, rivals>> PROVE EmailInv'
  BY <1>1, EmailAside
<1>2. ASSUME NEW w \in Workers,
             \/ WorkerStep(w) \/ LeaseLost(w)
             \/ \E t \in Tasks : StartTask(w, t)
      PROVE UNCHANGED <<request, email, viaEmail, rivals>>
  BY <1>2 DEF WorkerStep, LoadUser, AssignRole, RemoveRole, ChangeRole, Finish,
     LeaseLost, StartTask
<1>3. ASSUME NEW s \in States, NonceExpires(s) PROVE EmailInv'
  BY <1>1, <1>3 DEF NonceExpires
<1>4. CASE UNCHANGED vars
  BY <1>1, <1>4 DEF vars
<1>5. ASSUME NEW q \in Requests, Send(q) PROVE EmailInv'
  <2>1. ASSUME NEW u \in Users, InviteByUserID(q, u) PROVE EmailInv'
    BY <2>1, ResolveBecomes, EmailRequests DEF InviteByUserID
  <2>2. ASSUME NEW u \in Users, RemoveAgent(q, u) PROVE EmailInv'
    BY <2>2, RemoveAgentEffect, EmailRequests DEF RemoveAgent
  <2>3. ASSUME NEW d \in Accounts, NEW e \in MaybeEmail,
               InviteByDiscordID(q, d, e)
        PROVE EmailInv'
    <3>1. UNCHANGED <<email, viaEmail, rivals>> /\ d # None
      BY <2>3 DEF InviteByDiscordID
    <3> QED BY <2>3, <3>1, InviteByDiscordIDEffect, EmailRequests
  <2>4. ASSUME NEW e \in Emails, NEW d \in MaybeAccount, AddAgent(q, e, d)
        PROVE EmailInv'
    <3>1. PICK u \in Users :
            /\ Inserts(u, "agent", e, d)
            /\ \/ Becomes(q, "add", u, None, None)
               \/ Becomes(q, "done", None, None, None)
      BY <2>4, AddAgentEffect
    <3>2. /\ request'[q].pc # "create"
          /\ \A p \in Requests : p # q => request'[p] = request[p]
      BY <3>1, BecomesHas
    <3>3. \A v \in viaEmail : email'[v] = email[v]
      BY <3>1 DEF Inserts, RowsInv, Known, TypeInv, TypeOK
    <3> QED BY <2>4, <3>2, <3>3, EmailAside DEF AddAgent
  <2>5. ASSUME NEW s \in States, NEW d \in Accounts, Validate(q, s, d)
        PROVE EmailInv'
    BY <2>5, ValidateEffect, EmailRequests DEF Validate
  <2> QED BY <1>5, <2>1, <2>2, <2>3, <2>4, <2>5, EmailInvites DEF Send
<1>6. ASSUME NEW q \in Requests, RequestStep(q) PROVE EmailInv'
  <2>1. CASE ExchangeFails(q)
    BY <2>1, ReplyBecomes, EmailRequests DEF ExchangeFails
  <2>2. CASE LinkDiscordUserID(q)
    <3>1. UNCHANGED <<email, viaEmail, rivals>>
      BY <2>2 DEF LinkDiscordUserID
    <3> QED BY <2>2, <3>1, LinkEffect, EmailRequests
  <2>3. CASE StoreToken(q)
    BY <2>3, ReplyBecomes, EmailRequests DEF StoreToken
  <2>4. CASE EnqueueRole(q)
    BY <2>4, EnqueueRoleEffect, EmailRequests DEF EnqueueRole
  <2>5. ASSUME NEW s \in States, Issue(q, s) PROVE EmailInv'
    BY <2>5, ReplyBecomes, EmailRequests DEF Issue
  <2> QED BY <1>6, <2>1, <2>2, <2>3, <2>4, <2>5, EmailCreates DEF RequestStep
<1> QED BY <1>1, <1>2, <1>3, <1>4, <1>5, <1>6 DEF Next

(* Invitations by email create one row per email, unless two of them missed *)
(* it at the same time: the table has no constraint that would stop those.  *)
THEOREM EmailsResolved == Spec => []EmailResolvedOnce
<1>1. Init => EmailInv
  <2>1. Unsent.pc = "unsent"
    BY DEF Unsent
  <2> QED BY <2>1 DEF Init, EmailInv, EmailResolvedOnce, Missing
<1>2. EmailInv => EmailResolvedOnce
  BY DEF EmailInv
<1> QED BY <1>1, <1>2, InitTypes, TypeNext, RowsInit, RowsNext, EmailNext, PTL
        DEF Spec

-----------------------------------------------------------------------------
(* The role follows the roster *)

RolesInv == HeldInv /\ OwnedInv /\ ApartInv /\ RoleInv

LEMMA RolesInit == Init => RolesInv
<1> SUFFICES ASSUME Init PROVE RolesInv
  OBVIOUS
<1>1. Unsent.pc = "unsent" /\ Idle.pc = "idle"
  BY DEF Unsent, Idle
<1>2. \A u \in Users, k \in {"add", "remove"} : <<u, k>> \in Tasks
  BY DEF Tasks, Kinds
<1>3. HeldInv /\ OwnedInv /\ RoleInv
  BY <1>1 DEF Init, HeldInv, HoldsAccount, OwnedInv, RoleInv
<1>4. ApartInv
  BY <1>1, <1>2 DEF Init, ApartInv, Asked, Queued, Runs
<1> QED BY <1>3, <1>4 DEF RolesInv

(* What the invariants see of requests is which tasks they are to enqueue. *)
LEMMA AskedKept ==
  ASSUME TypeInv, NEW q \in Requests, NEW pc, NEW u, NEW e, NEW d,
         Becomes(q, pc, u, e, d), request[q].pc \notin {"add", "remove"},
         NEW v, NEW k \in {"add", "remove"}, pc # k \/ u # v
  PROVE Asked(v, k)' <=> Asked(v, k)
<1>1. /\ request'[q].pc = pc /\ request'[q].user = u
      /\ \A p \in Requests : p # q => request'[p] = request[p]
  BY BecomesHas
<1> QED BY <1>1 DEF Asked

LEMMA RolesAside ==
  ASSUME RolesInv,
         \A u \in Users, k \in {"add", "remove"} : Asked(u, k)' <=> Asked(u, k),
         UNCHANGED <<type, active, account, task, worker, role, disturbed, moved>>,
         active \subseteq Users
  PROVE RolesInv'
<1>1. \A u \in Users, k \in {"add", "remove"} :
        /\ Queued(u, k)' <=> Queued(u, k)
        /\ Pending(u, k)' <=> Pending(u, k)
        /\ Settled(u)' <=> Settled(u)
  BY DEF Queued, Runs, Pending, Settled
<1>2. HeldInv' /\ OwnedInv'
  BY DEF RolesInv, HeldInv, HoldsAccount, OwnedInv
<1>3. ApartInv'
  BY <1>1 DEF RolesInv, ApartInv
<1>4. RoleInv'
  <2>1. \A u \in Users : Settled(u)' /\ type'[u] = "agent" =>
          /\ u \in active' => account'[u] \in role' \/ Pending(u, "add")'
          /\ u \notin active' => account'[u] \notin role' \/ Pending(u, "remove")'
    BY <1>1 DEF RolesInv, RoleInv
  <2>2. \A w \in Workers :
          worker'[w].pc = "finish" /\ Settled(worker[w].task[1])' =>
             (account'[worker'[w].task[1]] \in role' <=> worker'[w].task[2] = "add")
    BY DEF RolesInv, RoleInv, Settled
  <2> QED BY <2>1, <2>2 DEF RoleInv
<1> QED BY <1>2, <1>3, <1>4 DEF RolesInv

LEMMA RolesRequests ==
  ASSUME TypeInv, RolesInv, NEW q \in Requests, NEW pc, NEW u, NEW e, NEW d,
         Becomes(q, pc, u, e, d), request[q].pc \notin {"add", "remove"},
         pc \notin {"add", "remove"},
         UNCHANGED <<type, active, account, task, worker, role, disturbed, moved>>
  PROVE RolesInv'
<1>1. \A v \in Users, k \in {"add", "remove"} : Asked(v, k)' <=> Asked(v, k)
  BY AskedKept
<1> QED BY <1>1, RolesAside DEF TypeInv, TypeOK

(* A new row: nothing is under way for it. *)
LEMMA RolesInserts ==
  ASSUME TypeInv, RowsInv, RolesInv, NEW q \in Requests, NEW u \in Users,
         NEW t \in {"agent", "collaborator"}, NEW e, NEW d, Inserts(u, t, e, d),
         request[q].pc \notin {"add", "remove"},
         \/ /\ \/ t = "agent" /\ Becomes(q, "add", u, None, None)
               \/ t = "collaborator" /\ Becomes(q, "issue", u, None, None)
               \/ t = "collaborator" /\ Becomes(q, "done", None, None, None)
            /\ UNCHANGED disturbed
         \/ /\ Becomes(q, "done", None, None, None)
            /\ disturbed' = disturbed \cup {u},
         UNCHANGED <<task, worker, role, moved>>
  PROVE RolesInv'
<1>1. ~ Known(u) /\ u \notin active /\ account[u] = None
  BY DEF Inserts, Known, RowsInv
<1>2. \A k \in {"add", "remove"} :
        ~ Asked(u, k) /\ ~ Queued(u, k)
  <2> SUFFICES ASSUME NEW k \in {"add", "remove"}
               PROVE ~ Asked(u, k) /\ ~ Queued(u, k)
    OBVIOUS
  <2>0. PICK s \in Tasks : s = <<u, k>>
    BY DEF Tasks, Kinds
  <2>1. s = <<u, k>> /\ s[1] = u
    BY <2>0
  <2>2. task[s] = "none"
    BY <1>1, <2>1 DEF RowsInv, TypeInv, TypeOK
  <2>3. \A w \in Workers : worker[w].pc # "idle" => worker[w].task # s
    BY <1>1, <2>1 DEF RowsInv
  <2>4. ~ Asked(u, k)
    BY <1>1 DEF Asked, RowsInv
  <2> QED BY <2>1, <2>2, <2>3, <2>4 DEF Queued, Runs
<1>3. /\ \A v \in Users : v # u => /\ type'[v] = type[v]
                                   /\ account'[v] = account[v]
      /\ type'[u] = t /\ active' = active \cup {u}
  BY DEF Inserts
<1>4. disturbed \subseteq disturbed'
  OBVIOUS
<1>5. /\ \A v \in Users, k \in {"add", "remove"} : v # u =>
           (Asked(v, k)' <=> Asked(v, k))
      /\ ~ Asked(u, "remove")'
      /\ t = "agent" => Asked(u, "add")' \/ u \in disturbed'
  <2>1. PICK pc, x :
          /\ Becomes(q, pc, x, None, None)
          /\ x = u \/ pc = "done"
          /\ pc \in {"add", "issue", "done"}
          /\ t = "agent" => (pc = "add" /\ x = u) \/ u \in disturbed'
    OBVIOUS
  <2>2. request'[q].pc = pc /\ request'[q].user = x
    BY <2>1, BecomesHas
  <2>3. \A v \in Users, k \in {"add", "remove"} : v # u =>
           (Asked(v, k)' <=> Asked(v, k))
    BY <2>1, AskedKept
  <2>4. Asked(u, "remove")' <=> Asked(u, "remove")
    BY <2>1, AskedKept
  <2> QED BY <1>2, <2>1, <2>2, <2>3, <2>4 DEF Asked
<1>6. \A v \in Users, k \in {"add", "remove"} : Queued(v, k)' <=> Queued(v, k)
  BY DEF Queued, Runs
<1>7. HeldInv'
  <2>1. \A w \in Workers : worker[w].pc # "idle" =>
          worker[w].task[1] # u /\ worker[w].task[1] \in Users
    BY <1>1, RunParts DEF RowsInv
  <2> QED BY <1>3, <1>4, <2>1 DEF RolesInv, HeldInv, HoldsAccount
<1>8. OwnedInv'
  <2>1. None \notin role
    BY DEF TypeInv, TypeOK
  <2> QED BY <1>1, <1>3, <2>1 DEF RolesInv, OwnedInv
<1>9. ApartInv'
  <2>1. \A v \in active' : ~ Asked(v, "remove")' /\ ~ Queued(v, "remove")'
    BY <1>2, <1>3, <1>5, <1>6 DEF RolesInv, ApartInv, TypeInv, TypeOK
  <2>2. \A s \in Tasks : task'[s] = "dead" => s[1] \in disturbed'
    BY <1>4 DEF RolesInv, ApartInv
  <2>3. \A v \in Users \ disturbed' :
         /\ Queued(v, "remove")' => ~ Asked(v, "add")' /\ ~ Queued(v, "add")'
         /\ type'[v] = "agent" /\ v \notin active' =>
              Asked(v, "remove")' \/ ~ (Asked(v, "add")' \/ Queued(v, "add")')
    BY <1>2, <1>3, <1>4, <1>5, <1>6 DEF RolesInv, ApartInv
  <2> QED BY <2>1, <2>2, <2>3 DEF ApartInv
<1>10. RoleInv'
  <2>1. \A v \in Users : v # u /\ Settled(v)' => Settled(v)
    BY <1>3, <1>4 DEF Settled
  <2>2. \A v \in Users, k \in {"add", "remove"} : v # u =>
          (Pending(v, k)' <=> Pending(v, k))
    BY <1>5 DEF Pending
  <2>3. \A v \in Users : Settled(v)' /\ type'[v] = "agent" =>
          /\ v \in active' => account'[v] \in role' \/ Pending(v, "add")'
          /\ v \notin active' => account'[v] \notin role' \/ Pending(v, "remove")'
    BY <1>3, <1>5, <2>1, <2>2 DEF RolesInv, RoleInv, Pending, Settled
  <2>4. \A w \in Workers :
          worker'[w].pc = "finish" /\ Settled(worker[w].task[1])' =>
             (account'[worker'[w].task[1]] \in role' <=> worker'[w].task[2] = "add")
    <3>1. \A w \in Workers : worker[w].pc = "finish" =>
            worker[w].task[1] # u /\ worker[w].task[1] \in Users
      BY <1>1, RunParts DEF RowsInv
    <3> QED BY <1>3, <2>1, <3>1 DEF RolesInv, RoleInv, Settled
  <2> QED BY <2>3, <2>4 DEF RoleInv
<1> QED BY <1>7, <1>8, <1>9, <1>10 DEF RolesInv

LEMMA RolesLink ==
  ASSUME TypeInv, RolesInv, NEW q \in Requests, LinkDiscordUserID(q)
  PROVE RolesInv'
<1>a. PICK e : e = request[q].email
  OBVIOUS
<1>b. PICK u \in Users, d \in Accounts :
        u = request[q].user /\ d = request[q].account
  BY LinkEffect
<1>1. u = request[q].user /\ d = request[q].account /\ e = request[q].email
  BY <1>a, <1>b
<1>2. /\ request[q].pc = "link"
      /\ UNCHANGED <<type, active, task, worker, role>>
  BY DEF LinkDiscordUserID, rowVars, taskVars
<1>3. CASE /\ Becomes(q, "done", None, None, None)
           /\ UNCHANGED <<account, moved, disturbed>>
  BY <1>2, <1>3, RolesRequests
<1>4. CASE /\ Becomes(q, "store", u, e, d)
           /\ UNCHANGED <<account, moved, disturbed>>
  BY <1>2, <1>4, RolesRequests
<1>5. ASSUME Becomes(q, "store", u, e, d), Links(u, d) PROVE RolesInv'
  <2>1. \A v \in Users, k \in {"add", "remove"} :
          /\ Asked(v, k)' <=> Asked(v, k)
          /\ Queued(v, k)' <=> Queued(v, k)
          /\ Pending(v, k)' <=> Pending(v, k)
    <3>1. \A v \in Users, k \in {"add", "remove"} : Asked(v, k)' <=> Asked(v, k)
      BY <1>2, <1>5, AskedKept
    <3> QED BY <1>2, <3>1 DEF Queued, Runs, Pending
  <2>2. /\ account'[u] = d
        /\ \A v \in Users : v # u => account'[v] = account[v] /\ account[v] # d
        /\ moved \subseteq moved' /\ disturbed \subseteq disturbed'
        /\ \/ account[u] \in {None, d} /\ moved' = moved
           \/ account[u] \in moved' /\ u \in disturbed'
    BY <1>5 DEF Links
  <2>3. None \notin role /\ None \notin moved
    BY DEF TypeInv, TypeOK
  <2>4. HeldInv'
    <3>1. \A w \in Workers : worker[w].pc \in {"assign", "unassign", "finish"} =>
            worker[w].account # None /\ worker[w].task[1] \in Users
      BY RunParts DEF TypeInv, TypedWorker
    <3> QED BY <1>2, <2>2, <3>1 DEF RolesInv, HeldInv, HoldsAccount
  <2>5. OwnedInv'
    BY <1>2, <2>2, <2>3 DEF RolesInv, OwnedInv
  <2>6. ApartInv'
    <3>1. \A v \in active' : ~ Asked(v, "remove")' /\ ~ Queued(v, "remove")'
      BY <1>2, <2>1 DEF RolesInv, ApartInv, TypeInv, TypeOK
    <3>2. \A s \in Tasks : task'[s] = "dead" => s[1] \in disturbed'
      BY <1>2, <2>2 DEF RolesInv, ApartInv
    <3>3. \A v \in Users \ disturbed' :
           /\ Queued(v, "remove")' => ~ Asked(v, "add")' /\ ~ Queued(v, "add")'
           /\ type'[v] = "agent" /\ v \notin active' =>
                Asked(v, "remove")' \/ ~ (Asked(v, "add")' \/ Queued(v, "add")')
      BY <1>2, <2>1, <2>2 DEF RolesInv, ApartInv
    <3> QED BY <3>1, <3>2, <3>3 DEF ApartInv
  <2>7. \A v \in Users : Settled(v)' =>
          Settled(v) /\ (v = u => account[u] = d \/ account[u] = None)
    BY <2>2, <2>3 DEF Settled
  <2>8. ASSUME Settled(u)', account[u] = None
        PROVE d \notin role
    BY <2>2, <2>8 DEF RolesInv, OwnedInv, Settled
  <2>9. \A v \in Users : Settled(v)' /\ type'[v] = "agent" =>
          /\ v \in active' => account'[v] \in role' \/ Pending(v, "add")'
          /\ v \notin active' => account'[v] \notin role' \/ Pending(v, "remove")'
    BY <1>2, <2>1, <2>2, <2>3, <2>7, <2>8 DEF RolesInv, RoleInv
  <2>10. \A w \in Workers :
          worker'[w].pc = "finish" /\ Settled(worker[w].task[1])' =>
             (account'[worker'[w].task[1]] \in role' <=> worker'[w].task[2] = "add")
    <3> SUFFICES ASSUME NEW w \in Workers, worker[w].pc = "finish", NEW v,
                        v = worker[w].task[1], Settled(v)'
                 PROVE account'[v] \in role <=> worker[w].task[2] = "add"
      BY <1>2 DEF Settled
    <3>1. v \in Users /\ worker[w].account # None
      BY RunParts DEF TypeInv, TypedWorker
    <3>2. v \notin disturbed /\ worker[w].account = account[v]
      BY <2>7, <3>1 DEF Settled, RolesInv, HeldInv, HoldsAccount
    <3>3. account'[v] = account[v]
      BY <2>2, <2>7, <3>1, <3>2
    <3> QED BY <2>7, <3>1, <3>3 DEF RolesInv, RoleInv
  <2>11. RoleInv'
    BY <2>9, <2>10 DEF RoleInv
  <2> QED BY <2>4, <2>5, <2>6, <2>11 DEF RolesInv
<1> QED BY <1>1, <1>3, <1>4, <1>5, LinkEffect

LEMMA RolesRemoveAgent ==
  ASSUME TypeInv, RolesInv, NEW q \in Requests, NEW u \in Users,
         RemoveAgent(q, u)
  PROVE RolesInv'
<1>1. /\ request[q].pc = "unsent" /\ active' = active \ {u}
      /\ disturbed \subseteq disturbed'
      /\ UNCHANGED <<type, account, task, worker, role, moved>>
  BY RemoveAgentEffect DEF RemoveAgent, taskVars
<1>2. /\ \A v \in Users : Asked(v, "add")' <=> Asked(v, "add")
      /\ \A v \in Users : v # u => (Asked(v, "remove")' <=> Asked(v, "remove"))
      /\ Asked(u, "remove")' \/ u \in disturbed'
  <2>1. CASE Becomes(q, "remove", u, None, None)
    <3>1. request'[q].pc = "remove" /\ request'[q].user = u
      BY <2>1, BecomesHas
    <3>2. Asked(u, "remove")'
      BY <3>1 DEF Asked
    <3>3. \A v \in Users : Asked(v, "add")' <=> Asked(v, "add")
      BY <1>1, <2>1, AskedKept
    <3>4. \A v \in Users : v # u => (Asked(v, "remove")' <=> Asked(v, "remove"))
      BY <1>1, <2>1, AskedKept
    <3> QED BY <3>2, <3>3, <3>4
  <2>2. CASE Becomes(q, "done", None, None, None) /\ u \in disturbed'
    <3>1. \A v \in Users, k \in {"add", "remove"} : Asked(v, k)' <=> Asked(v, k)
      BY <1>1, <2>2, AskedKept
    <3> QED BY <2>2, <3>1
  <2> QED BY <2>1, <2>2, RemoveAgentEffect
<1>3. \A v \in Users, k \in {"add", "remove"} : Queued(v, k)' <=> Queued(v, k)
  BY <1>1 DEF Queued, Runs
<1>4. HeldInv' /\ OwnedInv'
  BY <1>1 DEF RolesInv, HeldInv, HoldsAccount, OwnedInv
<1>5. ApartInv'
  <2>1. \A v \in active' : ~ Asked(v, "remove")' /\ ~ Queued(v, "remove")'
    BY <1>1, <1>2, <1>3 DEF RolesInv, ApartInv, TypeInv, TypeOK
  <2>2. \A s \in Tasks : task'[s] = "dead" => s[1] \in disturbed'
    BY <1>1 DEF RolesInv, ApartInv
  <2>3. \A v \in Users \ disturbed' :
         /\ Queued(v, "remove")' => ~ Asked(v, "add")' /\ ~ Queued(v, "add")'
         /\ type'[v] = "agent" /\ v \notin active' =>
              Asked(v, "remove")' \/ ~ (Asked(v, "add")' \/ Queued(v, "add")')
    BY <1>1, <1>2, <1>3 DEF RolesInv, ApartInv
  <2> QED BY <2>1, <2>2, <2>3 DEF ApartInv
<1>6. \A v \in Users : Settled(v)' => Settled(v) /\ v \notin disturbed'
  BY <1>1 DEF Settled
<1>7. RoleInv'
  <2>1. \A v \in Users : Settled(v)' /\ type'[v] = "agent" =>
          /\ v \in active' => account'[v] \in role' \/ Pending(v, "add")'
          /\ v \notin active' => account'[v] \notin role' \/ Pending(v, "remove")'
    BY <1>1, <1>2, <1>6 DEF RolesInv, RoleInv, Pending
  <2>2. \A w \in Workers :
          worker'[w].pc = "finish" /\ Settled(worker[w].task[1])' =>
             (account'[worker'[w].task[1]] \in role' <=> worker'[w].task[2] = "add")
    BY <1>1 DEF RolesInv, RoleInv, Settled
  <2> QED BY <2>1, <2>2 DEF RoleInv
<1> QED BY <1>4, <1>5, <1>7 DEF RolesInv

LEMMA RolesEnqueue ==
  ASSUME TypeInv, RolesInv, NEW q \in Requests, EnqueueRole(q)
  PROVE RolesInv'
<1>1. PICK u \in Users, k \in {"add", "remove"} :
        u = request[q].user /\ k = request[q].pc
  BY EnqueueRoleEffect
<1>2. PICK t \in Tasks : t = <<u, k>>
  BY <1>1 DEF Tasks, Kinds
<1>3. /\ disturbed \subseteq disturbed'
      /\ UNCHANGED <<type, active, account, worker, role, moved>>
  BY EnqueueRoleEffect DEF EnqueueRole, rowVars
<1>4. \/ /\ task[t] = "none" /\ task' = [task EXCEPT ![t] = "waiting"]
         /\ k = "remove" /\ UnderWay(u, "add") => u \in disturbed'
      \/ UNCHANGED task /\ (task[t] # "none" \/ u \in disturbed')
  BY <1>1, <1>2, EnqueueRoleEffect
<1>5. /\ \A s \in Tasks : s # t => task'[s] = task[s]
      /\ task[t] # "none" => task'[t] = task[t]
      /\ task'[t] # "dead" \/ task[t] = "dead"
      /\ task'[t] # "none" \/ u \in disturbed'
  BY <1>4 DEF TypeInv, TypeOK
<1>6. /\ request'[q].pc = "done"
      /\ \A p \in Requests : p # q => request'[p] = request[p]
  BY EnqueueRoleEffect, BecomesHas
<1>7. /\ Asked(u, k)
      /\ \A v \in Users, l \in {"add", "remove"} :
           /\ Asked(v, l)' => Asked(v, l)
           /\ v # u \/ l # k => (Asked(v, l) => Asked(v, l)')
  BY <1>1, <1>6 DEF Asked
<1>8. \A v \in Users, l \in {"add", "remove"} : v # u \/ l # k =>
        <<v, l>> \in Tasks /\ <<v, l>> # t
  BY <1>2 DEF Tasks, Kinds
<1>9. /\ \A v \in Users, l \in {"add", "remove"} : v # u \/ l # k =>
           (Queued(v, l)' <=> Queued(v, l))
      /\ Queued(u, k) => Queued(u, k)'
  BY <1>2, <1>3, <1>5, <1>8 DEF Queued, Runs
<1>10. ASSUME k = "remove", u \notin disturbed'
       PROVE ~ Asked(u, "add") /\ ~ Queued(u, "add")
  <2>1. CASE task[t] = "none"
    <3>1. ~ UnderWay(u, "add")
      BY <1>4, <1>10, <2>1
    <3> QED BY <3>1 DEF UnderWay, Asked, Queued, Runs
  <2>2. CASE task[t] # "none"
    <3>1. Queued(u, "remove") /\ u \notin disturbed
      BY <1>2, <1>3, <1>10, <2>2 DEF Queued
    <3> QED BY <3>1 DEF RolesInv, ApartInv
  <2> QED BY <2>1, <2>2
<1>11. HeldInv' /\ OwnedInv'
  BY <1>3 DEF RolesInv, HeldInv, HoldsAccount, OwnedInv
<1>12. ApartInv'
  <2>1. \A v \in active' : ~ Asked(v, "remove")' /\ ~ Queued(v, "remove")'
    <3>1. k = "remove" => u \notin active
      BY <1>7 DEF RolesInv, ApartInv
    <3> QED BY <1>3, <1>7, <1>9, <3>1 DEF RolesInv, ApartInv, TypeInv, TypeOK
  <2>2. \A s \in Tasks : task'[s] = "dead" => s[1] \in disturbed'
    BY <1>3, <1>5 DEF RolesInv, ApartInv
  <2>3. ASSUME NEW v \in Users \ disturbed', Queued(v, "remove")'
        PROVE ~ Asked(v, "add")' /\ ~ Queued(v, "add")'
    <3>1. CASE v = u /\ k = "remove"
      BY <1>7, <1>9, <1>10, <3>1
    <3>2. CASE v # u \/ k # "remove"
      <4>1. Queued(v, "remove") /\ v \notin disturbed
        BY <1>3, <1>9, <2>3, <3>2
      <4>2. ~ Asked(v, "add") /\ ~ Queued(v, "add")
        BY <4>1 DEF RolesInv, ApartInv
      <4> QED BY <1>7, <1>9, <4>2
    <3> QED BY <3>1, <3>2
  <2>4. ASSUME NEW v \in Users \ disturbed', type'[v] = "agent", v \notin active'
        PROVE Asked(v, "remove")' \/ ~ (Asked(v, "add")' \/ Queued(v, "add")')
    <3>1. CASE v = u /\ k = "remove"
      BY <1>7, <1>9, <1>10, <3>1
    <3>2. CASE v # u \/ k # "remove"
      <4>1. Asked(v, "remove") \/ ~ (Asked(v, "add") \/ Queued(v, "add"))
        BY <1>3, <2>4 DEF RolesInv, ApartInv
      <4> QED BY <1>7, <1>9, <3>2, <4>1
    <3> QED BY <3>1, <3>2
  <2> QED BY <2>1, <2>2, <2>3, <2>4 DEF ApartInv
<1>13. \A v \in Users : Settled(v)' => Settled(v) /\ v \notin disturbed'
  BY <1>3 DEF Settled
<1>14. \A v \in Users, l \in {"add", "remove"} :
         Pending(v, l) /\ v \notin disturbed' => Pending(v, l)'
  <2> SUFFICES ASSUME NEW v \in Users, NEW l \in {"add", "remove"},
                      Pending(v, l), v \notin disturbed'
               PROVE Pending(v, l)'
    OBVIOUS
  <2>1. CASE v # u \/ l # k
    BY <1>5, <1>7, <1>8, <2>1 DEF Pending
  <2>2. CASE v = u /\ l = k
    <3>1. task'[t] # "none"
      BY <1>5, <2>2
    <3>2. t[1] = u
      BY <1>2
    <3>3. task[t] # "dead"
      BY <1>3, <2>2, <3>2 DEF RolesInv, ApartInv
    <3>4. task'[t] \in {"waiting", "running"}
      BY <1>4, <3>1, <3>3 DEF TypeInv, TypeOK
    <3> QED BY <1>2, <2>2, <3>4 DEF Pending
  <2> QED BY <2>1, <2>2
<1>15. RoleInv'
  <2>1. \A v \in Users : Settled(v)' /\ type'[v] = "agent" =>
          /\ v \in active' => account'[v] \in role' \/ Pending(v, "add")'
          /\ v \notin active' => account'[v] \notin role' \/ Pending(v, "remove")'
    BY <1>3, <1>13, <1>14 DEF RolesInv, RoleInv
  <2>2. \A w \in Workers :
          worker'[w].pc = "finish" /\ Settled(worker[w].task[1])' =>
             (account'[worker'[w].task[1]] \in role' <=> worker'[w].task[2] = "add")
    BY <1>3 DEF RolesInv, RoleInv, Settled
  <2> QED BY <2>1, <2>2 DEF RoleInv
<1> QED BY <1>11, <1>12, <1>15 DEF RolesInv

(* A run begins, or goes on with the account it has read. *)
LEMMA RolesGoOn ==
  ASSUME TypeInv, RolesInv, NEW w \in Workers, NEW t \in Tasks, NEW pc, NEW d,
         Moves(w, pc, t, d), pc \in {"load", "assign", "unassign"},
         pc # "load" => d = account[t[1]],
         \/ /\ task[t] = "waiting" /\ task' = [task EXCEPT ![t] = "running"]
         \/ worker[w].pc # "idle" /\ worker[w].task = t /\ UNCHANGED task,
         worker[w].pc \in {"idle", "load"},
         UNCHANGED <<type, active, account, request, role, disturbed, moved>>
  PROVE RolesInv'
<1>1. /\ worker'[w].pc = pc /\ worker'[w].task = t /\ worker'[w].account = d
      /\ \A v \in Workers : v # w => worker'[v] = worker[v]
  BY MovesHas
<1>2. \A s \in Tasks : /\ task'[s] # "none" <=> task[s] # "none"
                       /\ task'[s] = "dead" <=> task[s] = "dead"
                       /\ task'[s] \in {"waiting", "running"} <=>
                            task[s] \in {"waiting", "running"}
  BY DEF TypeInv, TypeOK
<1>3. \A v \in Users, k \in {"add", "remove"} : <<v, k>> \in Tasks
  BY DEF Tasks, Kinds
<1>4. \A v \in Users, k \in {"add", "remove"} :
        /\ Asked(v, k)' <=> Asked(v, k)
        /\ Queued(v, k)' => Queued(v, k)
        /\ Pending(v, k)' <=> Pending(v, k)
  <2> SUFFICES ASSUME NEW v \in Users, NEW k \in {"add", "remove"}
               PROVE /\ Asked(v, k)' <=> Asked(v, k)
                     /\ Queued(v, k)' => Queued(v, k)
                     /\ Pending(v, k)' <=> Pending(v, k)
    OBVIOUS
  <2>1. PICK s \in Tasks : s = <<v, k>>
    BY <1>3
  <2>2. Asked(v, k)' <=> Asked(v, k)
    BY DEF Asked
  <2>3. Pending(v, k)' <=> Pending(v, k)
    BY <1>2, <2>1, <2>2 DEF Pending
  <2>4. ASSUME Runs(w, v, k)' PROVE Queued(v, k)
    BY <1>1, <2>4 DEF Queued, Runs
  <2>5. ASSUME NEW x \in Workers, x # w, Runs(x, v, k)' PROVE Runs(x, v, k)
    BY <1>1, <2>5 DEF Runs
  <2>6. task'[<<v, k>>] # "none" => task[<<v, k>>] # "none"
    BY <1>2, <2>1
  <2>7. Queued(v, k)' => Queued(v, k)
    BY <2>4, <2>5, <2>6 DEF Queued
  <2> QED BY <2>2, <2>3, <2>7
<1>5. HeldInv'
  BY <1>1 DEF RolesInv, HeldInv, HoldsAccount
<1>6. OwnedInv'
  BY DEF RolesInv, OwnedInv
<1>7. ApartInv'
  BY <1>2, <1>4 DEF RolesInv, ApartInv, TypeInv, TypeOK
<1>8. RoleInv'
  <2>1. \A v \in Users : Settled(v)' /\ type'[v] = "agent" =>
          /\ v \in active' => account'[v] \in role' \/ Pending(v, "add")'
          /\ v \notin active' => account'[v] \notin role' \/ Pending(v, "remove")'
    BY <1>4 DEF RolesInv, RoleInv, Settled
  <2>2. \A v \in Workers :
          worker'[v].pc = "finish" /\ Settled(worker[v].task[1])' =>
             (account'[worker'[v].task[1]] \in role' <=> worker'[v].task[2] = "add")
    BY <1>1 DEF RolesInv, RoleInv, Settled
  <2> QED BY <2>1, <2>2 DEF RoleInv
<1> QED BY <1>5, <1>6, <1>7, <1>8 DEF RolesInv

(* A run that may have changed the role ends or hands its task back: its    *)
(* own agent is the only one whose account it can have touched.             *)
LEMMA RolesChange ==
  ASSUME TypeInv, RolesInv, NEW w \in Workers, worker[w].pc # "idle",
         \/ role' = role
         \/ worker[w].pc = "assign" /\ role' = role \cup {worker[w].account}
         \/ worker[w].pc = "unassign" /\ role' = role \ {worker[w].account},
         \/ UNCHANGED worker /\ role' = role
         \/ Moves(w, "idle", None, None)
         \/ /\ Moves(w, "finish", worker[w].task, worker[w].account)
            /\ \/ worker[w].pc = "assign" /\ worker[w].account \in role'
               \/ worker[w].pc = "unassign" /\ worker[w].account \notin role',
         \/ UNCHANGED <<task, disturbed>>
         \/ TakesBack(worker[w].task),
         UNCHANGED <<type, active, account, request, moved>>
  PROVE RolesInv'
<1>a. PICK a : a = worker[w].account
  OBVIOUS
<1>b. PICK u \in Users, k \in {"add", "remove"}, t \in Tasks :
        /\ t = worker[w].task /\ t = <<u, k>> /\ t[1] = u /\ t[2] = k
  BY RunParts
<1>1. /\ t = worker[w].task /\ t = <<u, k>> /\ t[1] = u /\ t[2] = k
      /\ a = worker[w].account
  BY <1>a, <1>b
<1>2. /\ worker[w].pc = "assign" => k = "add"
      /\ worker[w].pc = "unassign" => k = "remove"
      /\ worker[w].pc \in {"assign", "unassign"} => a \in Accounts
  BY <1>1 DEF TypeInv, TypedWorker
<1>3. worker[w].pc \in {"assign", "unassign"} =>
        a = account[u] \/ (a \in moved /\ u \in disturbed)
  BY <1>1 DEF RolesInv, HeldInv, HoldsAccount
<1>4. /\ \A v \in Workers : v # w => worker'[v] = worker[v]
      /\ \/ worker' = worker
         \/ worker'[w].pc = "idle"
         \/ /\ worker'[w].pc = "finish" /\ worker'[w].task = t
            /\ worker'[w].account = a
            /\ \/ worker[w].pc = "assign" /\ a \in role'
               \/ worker[w].pc = "unassign" /\ a \notin role'
  BY <1>1, MovesHas
<1>5. /\ disturbed \subseteq disturbed'
      /\ \A s \in Tasks :
           /\ task'[s] # "none" => task[s] # "none"
           /\ task'[s] = "dead" => task[s] = "dead" \/ s[1] \in disturbed'
           /\ task[s] \in {"waiting", "running"} =>
                task'[s] \in {"waiting", "running"} \/ s[1] \in disturbed'
  BY <1>1 DEF TakesBack
<1>6. \A v \in Users, l \in {"add", "remove"} :
        <<v, l>> \in Tasks /\ <<v, l>>[1] = v
  BY DEF Tasks, Kinds
<1>7. \A v \in Users, l \in {"add", "remove"} :
        /\ Asked(v, l)' <=> Asked(v, l)
        /\ Queued(v, l)' => Queued(v, l)
        /\ Pending(v, l) /\ v \notin disturbed' => Pending(v, l)'
  <2> SUFFICES ASSUME NEW v \in Users, NEW l \in {"add", "remove"}
               PROVE /\ Asked(v, l)' <=> Asked(v, l)
                     /\ Queued(v, l)' => Queued(v, l)
                     /\ Pending(v, l) /\ v \notin disturbed' => Pending(v, l)'
    OBVIOUS
  <2>1. PICK s \in Tasks : s = <<v, l>> /\ s[1] = v
    BY <1>6
  <2>2. Asked(v, l)' <=> Asked(v, l)
    BY DEF Asked
  <2>3. Pending(v, l) /\ v \notin disturbed' => Pending(v, l)'
    BY <1>5, <2>1, <2>2 DEF Pending
  <2>4. \A x \in Workers : Runs(x, v, l)' => Runs(x, v, l)
    BY <1>1, <1>4 DEF Runs
  <2>5. Queued(v, l)' => Queued(v, l)
    BY <1>5, <2>1, <2>4 DEF Queued
  <2> QED BY <2>2, <2>3, <2>5
<1>8. Queued(u, k)
  BY <1>1 DEF Queued, Runs
<1>9. HeldInv'
  BY <1>1, <1>3, <1>4, <1>5 DEF RolesInv, HeldInv, HoldsAccount
<1>10. OwnedInv'
  BY <1>1, <1>3 DEF RolesInv, OwnedInv
<1>11. ApartInv'
  BY <1>5, <1>7 DEF RolesInv, ApartInv, TypeInv, TypeOK
<1>12. \A v \in Users : Settled(v)' => Settled(v) /\ v \notin disturbed'
  BY <1>5 DEF Settled
(* If the account of v is the one that was touched, v is the run's agent. *)
<1>13. ASSUME NEW v \in Users, Settled(v),
              account[v] \in role' <=> account[v] \notin role
       PROVE v = u /\ ((worker[w].pc = "assign" /\ account[v] \in role')
                       \/ (worker[w].pc = "unassign" /\ account[v] \notin role'))
  <2>1. /\ account[v] = a /\ worker[w].pc \in {"assign", "unassign"}
        /\ \/ worker[w].pc = "assign" /\ account[v] \in role'
           \/ worker[w].pc = "unassign" /\ account[v] \notin role'
    BY <1>1, <1>13
  <2>2. a \notin moved /\ a \in Accounts
    BY <1>2, <1>13, <2>1 DEF Settled
  <2>3. account[u] = account[v] /\ account[v] # None
    BY <1>3, <2>1, <2>2
  <2> QED BY <2>1, <2>3 DEF TypeInv, TypeOK
<1>14. ASSUME NEW v \in Users, Settled(v)', type'[v] = "agent"
       PROVE /\ v \in active' => account'[v] \in role' \/ Pending(v, "add")'
             /\ v \notin active' => account'[v] \notin role' \/ Pending(v, "remove")'
  <2>1. Settled(v) /\ v \notin disturbed' /\ v \notin disturbed
    BY <1>12, <1>14 DEF Settled
  <2>2. ASSUME v \in active PROVE account[v] \in role' \/ Pending(v, "add")'
    <3>1. account[v] \in role \/ Pending(v, "add")
      BY <1>14, <2>1, <2>2 DEF RolesInv, RoleInv
    <3>2. CASE account[v] \in role /\ account[v] \notin role'
      <4>1. v = u /\ k = "remove"
        BY <1>2, <1>13, <2>1, <3>2
      <4> QED BY <1>8, <2>2, <4>1 DEF RolesInv, ApartInv
    <3> QED BY <1>7, <2>1, <3>1, <3>2
  <2>3. ASSUME v \notin active
        PROVE account[v] \notin role' \/ Pending(v, "remove")'
    <3>1. account[v] \notin role \/ Pending(v, "remove")
      BY <1>14, <2>1, <2>3 DEF RolesInv, RoleInv
    <3>2. CASE account[v] \notin role /\ account[v] \in role'
      <4>1. v = u /\ k = "add"
        BY <1>2, <1>13, <2>1, <3>2
      <4>2. Asked(v, "remove")
        BY <1>8, <1>14, <2>1, <2>3, <4>1 DEF RolesInv, ApartInv
      <4> QED BY <1>7, <4>2 DEF Pending
    <3> QED BY <1>7, <2>1, <3>1, <3>2
  <2> QED BY <2>2, <2>3
<1>15. ASSUME NEW x \in Workers, worker'[x].pc = "finish",
              Settled(worker[x].task[1])'
       PROVE account'[worker'[x].task[1]] \in role' <=> worker'[x].task[2] = "add"
  <2>1. CASE x = w /\ worker' # worker
    <3>1. /\ worker'[x].task[1] = u /\ worker'[x].task[2] = k
          /\ \/ worker[w].pc = "assign" /\ a \in role'
             \/ worker[w].pc = "unassign" /\ a \notin role'
      BY <1>1, <1>4, <1>15, <2>1
    <3>2. u \notin disturbed
      BY <1>5, <1>15, <3>1 DEF Settled
    <3> QED BY <1>2, <1>3, <3>1, <3>2
  <2>2. CASE x # w \/ worker' = worker
    <3>1. worker'[x] = worker[x] /\ worker[x].pc = "finish"
      BY <1>4, <1>15, <2>2
    <3>2. PICK v \in Users, l \in {"add", "remove"} :
            /\ v = worker[x].task[1] /\ l = worker[x].task[2]
            /\ worker[x].task = <<v, l>>
      BY <3>1, RunParts
    <3>3. Settled(v) /\ v \notin disturbed
      BY <1>5, <1>15, <3>1, <3>2 DEF Settled
    <3>4. account[v] \in role <=> l = "add"
      BY <3>1, <3>2, <3>3 DEF RolesInv, RoleInv
    <3>5. Queued(v, l)
      BY <3>1, <3>2 DEF Queued, Runs
    <3>6. CASE account[v] \in role' <=> account[v] \notin role
      <4>1. v = u /\ l # k
        BY <1>2, <1>13, <3>3, <3>4, <3>6
      <4> QED BY <1>8, <3>3, <3>5, <4>1 DEF RolesInv, ApartInv
    <3> QED BY <3>1, <3>2, <3>4, <3>6
  <2> QED BY <2>1, <2>2
<1>16. RoleInv'
  BY <1>14, <1>15 DEF RoleInv
<1> QED BY <1>9, <1>10, <1>11, <1>16 DEF RolesInv

(* A run that has done its work lets asynq forget the task. *)
LEMMA RolesFinish ==
  ASSUME TypeInv, RolesInv, NEW w \in Workers, Finish(w)
  PROVE RolesInv'
<1>1. worker[w].pc = "finish"
  BY DEF Finish
<1>2. PICK u \in Users, k \in {"add", "remove"}, t \in Tasks :
        /\ t = worker[w].task /\ t = <<u, k>> /\ t[1] = u /\ t[2] = k
  BY <1>1, RunParts
<1>3. /\ worker'[w].pc = "idle"
      /\ \A v \in Workers : v # w => worker'[v] = worker[v]
  BY FinishEffect, MovesHas
<1>4. /\ \A s \in Tasks : s # t => task'[s] = task[s]
      /\ task'[t] = task[t] \/ task'[t] = "none"
      /\ UNCHANGED <<type, active, account, request, role, disturbed, moved>>
  BY <1>2, FinishEffect DEF Finish, rowVars, roleVars
<1>5. \A v \in Users, l \in {"add", "remove"} :
        /\ <<v, l>> \in Tasks
        /\ v # u \/ l # k => <<v, l>> # t
  BY <1>2 DEF Tasks, Kinds
<1>6. \A v \in Users, l \in {"add", "remove"} :
        /\ Asked(v, l)' <=> Asked(v, l)
        /\ Queued(v, l)' => Queued(v, l)
        /\ v # u \/ l # k => (Pending(v, l) => Pending(v, l)')
  <2> SUFFICES ASSUME NEW v \in Users, NEW l \in {"add", "remove"}
               PROVE /\ Asked(v, l)' <=> Asked(v, l)
                     /\ Queued(v, l)' => Queued(v, l)
                     /\ v # u \/ l # k => (Pending(v, l) => Pending(v, l)')
    OBVIOUS
  <2>1. PICK s \in Tasks : s = <<v, l>>
    BY <1>5
  <2>2. Asked(v, l)' <=> Asked(v, l)
    BY <1>4 DEF Asked
  <2>3. v # u \/ l # k => (Pending(v, l) => Pending(v, l)')
    BY <1>4, <1>5, <2>1, <2>2 DEF Pending
  <2>4. \A x \in Workers : Runs(x, v, l)' => Runs(x, v, l)
    BY <1>3 DEF Runs
  <2>5. Queued(v, l)' => Queued(v, l)
    BY <1>4, <2>1, <2>4 DEF Queued
  <2> QED BY <2>2, <2>3, <2>5
<1>7. HeldInv' /\ OwnedInv'
  BY <1>3, <1>4 DEF RolesInv, HeldInv, HoldsAccount, OwnedInv
<1>8. ApartInv'
  <2>1. \A s \in Tasks : task'[s] = "dead" => task[s] = "dead"
    BY <1>4
  <2> QED BY <1>4, <1>6, <2>1 DEF RolesInv, ApartInv, TypeInv, TypeOK
<1>9. Settled(u) => (account[u] \in role <=> k = "add")
  BY <1>1, <1>2 DEF RolesInv, RoleInv
<1>10. RoleInv'
  <2>1. \A v \in Users : Settled(v)' /\ type'[v] = "agent" =>
          /\ v \in active' => account'[v] \in role' \/ Pending(v, "add")'
          /\ v \notin active' => account'[v] \notin role' \/ Pending(v, "remove")'
    BY <1>4, <1>6, <1>9 DEF RolesInv, RoleInv, Settled
  <2>2. \A x \in Workers :
          worker'[x].pc = "finish" /\ Settled(worker[x].task[1])' =>
             (account'[worker'[x].task[1]] \in role' <=> worker'[x].task[2] = "add")
    BY <1>3, <1>4 DEF RolesInv, RoleInv, Settled
  <2> QED BY <2>1, <2>2 DEF RoleInv
<1> QED BY <1>7, <1>8, <1>10 DEF RolesInv

LEMMA RolesRuns ==
  ASSUME TypeInv, RolesInv, NEW w \in Workers,
         \/ WorkerStep(w) \/ LeaseLost(w)
         \/ \E t \in Tasks : StartTask(w, t)
  PROVE RolesInv'
<1>1. UNCHANGED <<type, active, account, request, moved>>
  BY DEF WorkerStep, LoadUser, AssignRole, RemoveRole, ChangeRole, Finish,
     LeaseLost, StartTask, rowVars
<1>2. ASSUME NEW t \in Tasks, StartTask(w, t) PROVE RolesInv'
  <2>1. UNCHANGED <<role, disturbed>>
    BY <1>2 DEF StartTask, roleVars
  <2>2. /\ Moves(w, "load", t, None) /\ worker[w].pc = "idle"
        /\ task[t] = "waiting" /\ task' = [task EXCEPT ![t] = "running"]
    BY <1>2, StartTaskEffect
  <2> QED BY <1>1, <2>1, <2>2, RolesGoOn
<1>3. CASE LoadUser(w)
  <2>1. /\ worker[w].pc = "load" /\ UNCHANGED role
        /\ worker[w].task \in Tasks
    BY <1>3, RunParts DEF LoadUser
  <2>2. ASSUME UNCHANGED <<task, retries, disturbed, faults>>,
               NEW pc \in {"assign", "unassign"},
               Moves(w, pc, worker[w].task, account[worker[w].task[1]])
        PROVE RolesInv'
    BY <1>1, <2>1, <2>2, RolesGoOn
  <2>3. CASE Moves(w, "idle", None, None) /\ TakesBack(worker[w].task)
    BY <1>1, <2>1, <2>3, RolesChange
  <2> QED BY <1>3, <2>2, <2>3, LoadUserEffect
<1>4. CASE AssignRole(w)
  <2>1. worker[w].pc = "assign"
    BY <1>4 DEF AssignRole
  <2>2. PICK changed : changed = role \cup {worker[w].account}
    OBVIOUS
  <2>3. ChangeRole(w, changed)
    BY <1>4, <2>2 DEF AssignRole
  <2> QED BY <1>1, <2>1, <2>2, <2>3, ChangeRoleEffect, RolesChange
<1>5. CASE RemoveRole(w)
  <2>1. worker[w].pc = "unassign"
    BY <1>5 DEF RemoveRole
  <2>2. PICK changed : changed = role \ {worker[w].account}
    OBVIOUS
  <2>3. ChangeRole(w, changed)
    BY <1>5, <2>2 DEF RemoveRole
  <2> QED BY <1>1, <2>1, <2>2, <2>3, ChangeRoleEffect, RolesChange
<1>6. CASE LeaseLost(w)
  <2>1. UNCHANGED role
    BY <1>6 DEF LeaseLost
  <2> QED BY <1>1, <1>6, <2>1, LeaseLostEffect, RolesChange
<1> QED BY <1>2, <1>3, <1>4, <1>5, <1>6, RolesFinish DEF WorkerStep

LEMMA RolesNext == TypeInv /\ RowsInv /\ RolesInv /\ [Next]_vars => RolesInv'
<1> SUFFICES ASSUME TypeInv, RowsInv, RolesInv, [Next]_vars PROVE RolesInv'
  OBVIOUS
<1> USE DEF rowVars, taskVars, roleVars
<1>1. ASSUME UNCHANGED <<type, active, account, request, task, worker, role,
                         disturbed, moved>>
      PROVE RolesInv'
  <2>1. \A u \in Users, k \in {"add", "remove"} : Asked(u, k)' <=> Asked(u, k)
    BY <1>1 DEF Asked
  <2> QED BY <1>1, <2>1, RolesAside DEF TypeInv, TypeOK
<1>2. ASSUME NEW s \in States, NonceExpires(s) PROVE RolesInv'
  BY <1>1, <1>2 DEF NonceExpires
<1>3. CASE UNCHANGED vars
  BY <1>1, <1>3 DEF vars
<1>4. ASSUME NEW q \in Requests, Send(q) PROVE RolesInv'
  <2>0. request[q].pc = "unsent"
    BY <1>4 DEF Send, InviteByUserID, RemoveAgent, InviteByEmail,
       InviteByDiscordID, AddAgent, Validate
  <2>1. ASSUME NEW u \in Users, InviteByUserID(q, u) PROVE RolesInv'
    BY <2>0, <2>1, ResolveBecomes, RolesRequests DEF InviteByUserID
  <2>2. ASSUME NEW e \in Emails, InviteByEmail(q, e) PROVE RolesInv'
    <3>1. UNCHANGED <<type, active, account, task, worker, role, disturbed, moved>>
      BY <2>2 DEF InviteByEmail
    <3> QED BY <2>0, <2>2, <3>1, InviteByEmailEffect, RolesRequests
  <2>3. ASSUME NEW d \in Accounts, NEW e \in MaybeEmail,
               InviteByDiscordID(q, d, e)
        PROVE RolesInv'
    <3>1. UNCHANGED <<type, active, account, task, worker, role, disturbed, moved>>
      BY <2>3 DEF InviteByDiscordID
    <3> QED BY <2>0, <2>3, <3>1, InviteByDiscordIDEffect, RolesRequests
  <2>4. ASSUME NEW e \in Emails, NEW d \in MaybeAccount, AddAgent(q, e, d)
        PROVE RolesInv'
    <3>1. PICK u \in Users :
            /\ Inserts(u, "agent", e, d)
            /\ \/ Becomes(q, "add", u, None, None) /\ UNCHANGED disturbed
               \/ /\ Becomes(q, "done", None, None, None)
                  /\ disturbed' = disturbed \cup {u}
      BY <2>4, AddAgentEffect
    <3>2. UNCHANGED <<task, worker, role, moved>>
      BY <2>4 DEF AddAgent
    <3> QED BY <2>0, <3>1, <3>2, RolesInserts
  <2>5. ASSUME NEW s \in States, NEW d \in Accounts, Validate(q, s, d)
        PROVE RolesInv'
    <3>1. UNCHANGED <<type, active, account, task, worker, role, disturbed, moved>>
      BY <2>5 DEF Validate
    <3> QED BY <2>0, <2>5, <3>1, ValidateEffect, RolesRequests
  <2> QED BY <1>4, <2>1, <2>2, <2>3, <2>4, <2>5, RolesRemoveAgent DEF Send
<1>5. ASSUME NEW q \in Requests, RequestStep(q) PROVE RolesInv'
  <2>1. CASE CreateCollaborator(q)
    <3>1. /\ request[q].pc = "create"
          /\ UNCHANGED <<task, worker, role, disturbed, moved>>
      BY <2>1 DEF CreateCollaborator
    <3>2. CASE /\ Becomes(q, "done", None, None, None)
               /\ UNCHANGED <<type, active, email, account, viaEmail>>
      BY <3>1, <3>2, RolesRequests
    <3>3. ASSUME NEW u \in Users, NEW e, NEW d, Inserts(u, "collaborator", e, d),
                 \/ d = None /\ Becomes(q, "issue", u, None, None)
                 \/ Becomes(q, "done", None, None, None)
          PROVE RolesInv'
      BY <3>1, <3>3, RolesInserts
    <3> QED BY <2>1, <3>2, <3>3, CreateCollaboratorEffect
  <2>2. CASE ExchangeFails(q)
    BY <2>2, ReplyBecomes, RolesRequests DEF ExchangeFails
  <2>3. CASE StoreToken(q)
    BY <2>3, ReplyBecomes, RolesRequests DEF StoreToken
  <2>4. ASSUME NEW s \in States, Issue(q, s) PROVE RolesInv'
    BY <2>4, ReplyBecomes, RolesRequests DEF Issue
  <2> QED BY <1>5, <2>1, <2>2, <2>3, <2>4, RolesLink, RolesEnqueue
          DEF RequestStep
<1> QED BY <1>2, <1>3, <1>4, <1>5, RolesRuns DEF Next

(* Once an agent's requests and tasks are done it has the role exactly if   *)
(* the roster says so, however its tasks were deferred, retried or run      *)
(* twice: an addition and a removal that do not meet are applied in order.  *)
THEOREM RoleFollowsRoster == Spec => []RoleMatchesRoster
<1>1. TypeInv /\ RolesInv => RoleMatchesRoster
  <2> SUFFICES ASSUME TypeInv, RolesInv, NEW u \in Users \ disturbed,
                      type[u] = "agent", account[u] \notin moved \cup {None},
                      ~ UnderWay(u, "add"), ~ UnderWay(u, "remove")
               PROVE account[u] \in role <=> u \in active
    BY DEF RoleMatchesRoster
  <2>1. ~ Pending(u, "add") /\ ~ Pending(u, "remove") /\ Settled(u)
    BY DEF UnderWay, Pending, Asked, Settled
  <2> QED BY <2>1 DEF RolesInv, RoleInv
<1> QED BY <1>1, InitTypes, TypeNext, RowsInit, RowsNext, RolesInit, RolesNext,
           PTL DEF Spec

(* Only a run that assigns or removes the role changes who has it, and only *)
(* of the account it holds.                                                 *)
LEMMA RoleEffects ==
  ASSUME [Next]_vars
  PROVE \/ UNCHANGED role
        \/ \E w \in Workers :
             \/ /\ worker[w].pc = "assign"
                /\ role' \in {role, role \cup {worker[w].account}}
             \/ /\ worker[w].pc = "unassign"
                /\ role' \in {role, role \ {worker[w].account}}
<1> USE DEF roleVars
<1>1. CASE UNCHANGED vars
  BY <1>1 DEF vars
<1>2. ASSUME NEW q \in Requests, Send(q) PROVE UNCHANGED role
  BY <1>2 DEF Send, InviteByUserID, RemoveAgent, InviteByEmail,
     InviteByDiscordID, AddAgent, Validate
<1>3. ASSUME NEW q \in Requests, RequestStep(q) PROVE UNCHANGED role
  BY <1>3 DEF RequestStep, CreateCollaborator, ExchangeFails,
     LinkDiscordUserID, StoreToken, EnqueueRole, Issue
<1>4. ASSUME NEW s \in States, NonceExpires(s) PROVE UNCHANGED role
  BY <1>4 DEF NonceExpires
<1>5. ASSUME NEW w \in Workers,
             \/ LoadUser(w) \/ Finish(w) \/ LeaseLost(w)
             \/ \E t \in Tasks : StartTask(w, t)
      PROVE UNCHANGED role
  BY <1>5 DEF LoadUser, Finish, LeaseLost, StartTask
<1>6. ASSUME NEW w \in Workers, AssignRole(w)
      PROVE /\ worker[w].pc = "assign"
            /\ role' \in {role, role \cup {worker[w].account}}
  BY <1>6 DEF AssignRole, ChangeRole
<1>7. ASSUME NEW w \in Workers, RemoveRole(w)
      PROVE /\ worker[w].pc = "unassign"
            /\ role' \in {role, role \ {worker[w].account}}
  BY <1>7 DEF RemoveRole, ChangeRole
<1> QED BY <1>1, <1>2, <1>3, <1>4, <1>5, <1>6, <1>7 DEF Next, WorkerStep

(* The agent whose account a run changes the role of is the agent of the    *)
(* run's task, unless the account has changed hands.                        *)
LEMMA RunChangesItsAgent ==
  ASSUME TypeInv, RolesInv, NEW w \in Workers, NEW u \in Users,
         worker[w].pc \in {"assign", "unassign"},
         account[u] = worker[w].account, account[u] \notin moved
  PROVE Runs(w, u, IF worker[w].pc = "assign" THEN "add" ELSE "remove")
<1>1. PICK v \in Users, k \in {"add", "remove"} :
        /\ v = worker[w].task[1] /\ k = worker[w].task[2]
        /\ worker[w].task = <<v, k>>
  BY RunParts
<1>2. account[v] = account[u]
  BY <1>1 DEF RolesInv, HeldInv, HoldsAccount
<1>3. worker[w].account \in Accounts /\ None \notin Accounts
  BY DEF TypeInv, TypedWorker
<1>4. v = u
  BY <1>2, <1>3 DEF TypeInv, TypeOK
<1>5. k = IF worker[w].pc = "assign" THEN "add" ELSE "remove"
  BY <1>1 DEF TypeInv, TypedWorker
<1> QED BY <1>1, <1>4, <1>5 DEF Runs

(* However tasks fail, repeat or outlive their lease: an agent loses the    *)
(* role only after the roster has struck it off, and gains it only before   *)
(* the removal reaches the queue, unless its tasks met or its account has   *)
(* changed hands.                                                           *)
THEOREM RoleChangesOrdered == Spec => RoleChangesInOrder
<1>1. ASSUME TypeInv, RolesInv, [Next]_vars, NEW u \in Users,
             account[u] \notin moved, account[u] \in role \ role'
      PROVE u \notin active
  <2>1. PICK w \in Workers :
          worker[w].pc = "unassign" /\ account[u] = worker[w].account
    BY <1>1, RoleEffects
  <2>2. Runs(w, u, "remove")
    BY <1>1, <2>1, RunChangesItsAgent
  <2> QED BY <1>1, <2>2 DEF RolesInv, ApartInv, Queued
<1>2. ASSUME TypeInv, RolesInv, [Next]_vars, NEW u \in Users,
             account[u] \notin moved, account[u] \in role' \ role,
             u \notin disturbed
      PROVE /\ task[<<u, "remove">>] = "none"
            /\ \A w \in Workers :
                 worker[w].pc = "idle" \/ worker[w].task # <<u, "remove">>
  <2>1. PICK w \in Workers :
          worker[w].pc = "assign" /\ account[u] = worker[w].account
    BY <1>2, RoleEffects
  <2>2. Runs(w, u, "add")
    BY <1>2, <2>1, RunChangesItsAgent
  <2>3. ~ Queued(u, "remove")
    BY <1>2, <2>2 DEF RolesInv, ApartInv, Queued
  <2> QED BY <2>3 DEF Queued, Runs
<1>3. TypeInv /\ RolesInv /\ [Next]_vars =>
        [\A u \in Users : account[u] \notin moved =>
           /\ account[u] \in role \ role' => u \notin active
           /\ account[u] \in role' \ role /\ u \notin disturbed =>
                /\ task[<<u, "remove">>] = "none"
                /\ \A w \in Workers :
                     \/ worker[w].pc = "idle"
                     \/ worker[w].task # <<u, "remove">>]_vars
  BY <1>1, <1>2, Zenon
<1> QED BY <1>3, InitTypes, TypeNext, RowsInit, RowsNext, RolesInit, RolesNext,
           PTL DEF Spec, RoleChangesInOrder

-----------------------------------------------------------------------------
(* Nicknames *)

(* The first n runes of a name, and how they relate to it. *)
LEMMA PrefixRunes ==
  ASSUME NEW S, NEW s \in Seq(S), NEW n \in 0..Len(s)
  PROVE /\ SubSeq(s, 1, n) \in Seq(S) /\ Len(SubSeq(s, 1, n)) = n
        /\ \A i \in 1..n : SubSeq(s, 1, n)[i] = s[i]
<1>1. \A i \in 1..n : s[i] \in S
  BY ElementOfSeq
<1> QED BY <1>1, SubSeqProperties

(* A name ends in what was appended to it. *)
LEMMA ConcatHasSuffix ==
  ASSUME NEW S, NEW s \in Seq(S), NEW t \in Seq(S)
  PROVE HasSuffix(s \o t, t)
<1> DEFINE m == Len(s) + Len(t) - Len(t) + 1
           n == Len(s) + Len(t)
           u == SubSeq(s \o t, m, n)
<1>1. /\ s \o t \in Seq(S) /\ Len(s) \in Nat /\ Len(t) \in Nat
      /\ Len(s \o t) = Len(s) + Len(t)
      /\ \A i \in 1 .. Len(s) + Len(t) : (s \o t)[i] =
                     IF i <= Len(s) THEN s[i] ELSE t[i - Len(s)]
  BY ConcatProperties, LenProperties
<1>2. m \in Int /\ n \in Int /\ m = Len(s) + 1
  BY <1>1
<1>3. \A i \in m..n : (s \o t)[i] \in S
  BY <1>1, <1>2, ElementOfSeq
<1>4. /\ u \in Seq(S)
      /\ Len(u) = IF m <= n THEN n - m + 1 ELSE 0
      /\ \A i \in 1..n - m + 1 : u[i] = (s \o t)[m + i - 1]
  BY <1>2, <1>3, SubSeqProperties
<1> HIDE DEF u
<1>5. Len(u) = Len(t)
  BY <1>1, <1>2, <1>4
<1>6. ASSUME NEW i \in 1..Len(u) PROVE u[i] = t[i]
  <2> DEFINE whole == s \o t
  <2>1. \A j \in 1 .. Len(s) + Len(t) :
          whole[j] = IF j <= Len(s) THEN s[j] ELSE t[j - Len(s)]
    BY <1>1
  <2>2. \A k \in 1..n - m + 1 : u[k] = whole[m + k - 1]
    BY <1>4
  <2> HIDE DEF whole
  <2>3. PICK j \in 1 .. Len(s) + Len(t) :
          j = m + i - 1 /\ ~(j <= Len(s)) /\ j - Len(s) = i
    <3> DEFINE j == m + i - 1
    <3>1. /\ j \in 1 .. Len(s) + Len(t)
          /\ ~(j <= Len(s)) /\ j - Len(s) = i
      BY <1>1, <1>2, <1>5
    <3> HIDE DEF j
    <3> QED BY <3>1 DEF j
  <2>4. i \in 1..n - m + 1
    BY <1>1, <1>2, <1>5
  <2>5. u[i] = whole[j]
    BY <2>2, <2>3, <2>4
  <2> QED BY <2>1, <2>3, <2>5
<1>7. u = t
  BY <1>4, <1>5, <1>6, SeqEqual
<1> QED BY <1>1, <1>7 DEF HasSuffix, u

LEMMA SuffixOfItself ==
  ASSUME NEW S, NEW s \in Seq(S)
  PROVE HasSuffix(s, s)
<1>1. <<>> \in Seq(S) /\ <<>> \o s = s
  BY EmptySeq, ConcatEmptySeq
<1> QED BY <1>1, ConcatHasSuffix

LEMMA OneRune ==
  ASSUME NEW S, NEW e \in S
  PROVE <<e>> \in Seq(S) /\ Len(<<e>>) = 1
  OBVIOUS

(* A name, a space and the suffix. *)
Space == " "
Marked(name, suffix) == name \o <<Space>> \o suffix

LEMMA SpaceIsRune == Space \in Runes
  BY NamesAssumption, Zenon DEF Space

LEMMA MarkedName ==
  ASSUME NEW s \in Seq(Runes), NEW t \in Seq(Runes)
  PROVE /\ Marked(s, t) \in Seq(Runes) /\ Marked(s, t) # <<>>
        /\ Len(Marked(s, t)) = Len(s) + 1 + Len(t)
        /\ HasSuffix(Marked(s, t), t)
        /\ SubSeq(Marked(s, t), 1, Len(s)) = s
<1> DEFINE p == s \o <<Space>>
<1>1. /\ <<Space>> \in Seq(Runes) /\ Len(<<Space>>) = 1
      /\ Len(s) \in Nat /\ Len(t) \in Nat
  BY OneRune, SpaceIsRune, LenProperties
<1>2. /\ p \in Seq(Runes) /\ Len(p) = Len(s) + 1
      /\ \A i \in 1..Len(s) : p[i] = s[i]
  <2> DEFINE space == <<Space>>
  <2> HIDE DEF space
  <2> QED BY <1>1, ConcatProperties DEF space
<1> HIDE DEF p
<1>3. /\ p \o t \in Seq(Runes) /\ Len(p \o t) = Len(s) + 1 + Len(t)
      /\ \A i \in 1..Len(s) : (p \o t)[i] = s[i]
  <2>1. p \in Seq(Runes)
    BY <1>2
  <2>2. /\ p \o t \in Seq(Runes) /\ Len(p \o t) = Len(p) + Len(t)
        /\ \A i \in 1..Len(p) + Len(t) :
             (p \o t)[i] = IF i <= Len(p) THEN p[i] ELSE t[i - Len(p)]
    BY <2>1, ConcatProperties
  <2> QED BY <1>1, <1>2, <2>2
<1>4. HasSuffix(p \o t, t)
  BY <1>2, ConcatHasSuffix
<1>5. SubSeq(p \o t, 1, Len(s)) = s
  <2>1. Len(s) \in 0..Len(p \o t)
    BY <1>1, <1>3
  <2>2. /\ SubSeq(p \o t, 1, Len(s)) \in Seq(Runes)
        /\ Len(SubSeq(p \o t, 1, Len(s))) = Len(s)
        /\ \A i \in 1..Len(s) : SubSeq(p \o t, 1, Len(s))[i] = (p \o t)[i]
    BY <1>3, <2>1, PrefixRunes
  <2>3. \A i \in 1..Len(s) : SubSeq(p \o t, 1, Len(s))[i] = s[i]
    BY <1>3, <2>2
  <2> QED BY <2>2, <2>3, SeqEqual
<1>6. p \o t # <<>>
  BY <1>1, <1>3, EmptySeq
<1> QED BY <1>3, <1>4, <1>5, <1>6 DEF Marked, p

(* What buildNickname makes of a name that does not carry the suffix yet. *)
LEMMA NicknameCases ==
  ASSUME NEW name \in Seq(Runes), NEW suffix \in Seq(Runes),
         suffix # <<>>
  PROVE LET nick == buildNickname(name, suffix) IN
        \/ name = <<>> /\ nick = suffix
        \/ name # <<>> /\ HasSuffix(name, suffix) /\ nick = name
        \/ /\ name # <<>> /\ ~HasSuffix(name, suffix)
           /\ Len(name) + 1 + Len(suffix) <= NickMax
           /\ nick = Marked(name, suffix)
        \/ /\ name # <<>> /\ ~HasSuffix(name, suffix)
           /\ NickMax <= Len(suffix) + 1
           /\ nick = Truncated(suffix, NickMax)
        \/ \E n \in 1..Len(name) :
             /\ name # <<>> /\ ~HasSuffix(name, suffix)
             /\ n + 1 + Len(suffix) = NickMax
             /\ nick = Marked(SubSeq(name, 1, n), suffix)
<1> DEFINE available == NickMax - (Len(suffix) + 1)
           nick == buildNickname(name, suffix)
<1>1. Len(name) \in Nat /\ Len(suffix) \in Nat /\ NickMax \in Nat
  BY LenProperties
<1>2. Len(Marked(name, suffix)) = Len(name) + 1 + Len(suffix)
  BY MarkedName
<1>3. nick = IF name = <<>> THEN suffix
             ELSE IF HasSuffix(name, suffix) THEN name
             ELSE IF Len(Marked(name, suffix)) <= NickMax
                  THEN Marked(name, suffix)
             ELSE IF available <= 0 THEN Truncated(suffix, NickMax)
             ELSE Marked(Truncated(name, available), suffix)
  BY Zenon DEF buildNickname, Marked, Space
<1> HIDE DEF nick
<1>4. CASE name = <<>> \/ HasSuffix(name, suffix)
  BY <1>3, <1>4 DEF nick
<1>5. CASE /\ name # <<>> /\ ~HasSuffix(name, suffix)
           /\ Len(Marked(name, suffix)) <= NickMax
  BY <1>2, <1>3, <1>5 DEF nick
<1>6. CASE /\ name # <<>> /\ ~HasSuffix(name, suffix)
           /\ ~(Len(Marked(name, suffix)) <= NickMax) /\ available <= 0
  <2>1. NickMax <= Len(suffix) + 1
    BY <1>1, <1>6
  <2>2. nick = Truncated(suffix, NickMax)
    BY <1>3, <1>6
  <2> QED BY <1>6, <2>1, <2>2 DEF nick
<1>7. CASE /\ name # <<>> /\ ~HasSuffix(name, suffix)
           /\ ~(Len(Marked(name, suffix)) <= NickMax) /\ ~(available <= 0)
  <2>1. /\ available \in 1..Len(name)
        /\ available + 1 + Len(suffix) = NickMax
    BY <1>1, <1>2, <1>7
  <2>2. nick = Marked(Truncated(name, available), suffix)
    BY <1>3, <1>7
  <2>3. Truncated(name, available) = SubSeq(name, 1, available)
    BY <1>1, <2>1, SubSeqFull DEF Truncated
  <2> HIDE DEF available
  <2> QED BY <1>7, <2>1, <2>2, <2>3 DEF nick
<1> QED BY <1>4, <1>5, <1>6, <1>7

(* A name cut to n runes. *)
LEMMA TruncatedRunes ==
  ASSUME NEW S, NEW s \in Seq(S), NEW n \in Nat
  PROVE /\ Truncated(s, n) \in Seq(S)
        /\ Len(s) <= n => Truncated(s, n) = s
        /\ n < Len(s) => Len(Truncated(s, n)) = n
<1>1. Len(s) \in Nat
  BY LenProperties
<1>2. CASE Len(s) <= n
  BY <1>1, <1>2 DEF Truncated
<1>3. CASE n < Len(s)
  <2>1. n \in 0..Len(s) /\ ~(Len(s) <= n)
    BY <1>1, <1>3
  <2> QED BY <1>1, <1>3, <2>1, PrefixRunes DEF Truncated
<1> QED BY <1>1, <1>2, <1>3

(* A nickname that carries the suffix is final. *)
LEMMA SuffixedIsStable ==
  ASSUME NEW nick, NEW suffix, nick # <<>>, HasSuffix(nick, suffix)
  PROVE buildNickname(nick, suffix) = nick
  BY DEF buildNickname

(* A nickname that consists of the first runes of a suffix too long to fit  *)
(* is final.                                                                *)
LEMMA CutSuffixIsStable ==
  ASSUME NEW suffix \in Seq(Runes), suffix # <<>>, NickMax < Len(suffix)
  PROVE buildNickname(Truncated(suffix, NickMax), suffix) =
          Truncated(suffix, NickMax)
<1> DEFINE t == Truncated(suffix, NickMax)
<1>1. /\ t \in Seq(Runes) /\ Len(t) = NickMax /\ NickMax \in Nat \ {0}
      /\ Len(suffix) \in Nat
  BY TruncatedRunes, LenProperties
<1> HIDE DEF t
<1>2. t # <<>> /\ ~HasSuffix(t, suffix)
  BY <1>1, EmptySeq DEF HasSuffix
<1>3. buildNickname(t, suffix) = Truncated(suffix, NickMax)
  <2>1. ~(Len(t) + 1 + Len(suffix) <= NickMax)
    BY <1>1
  <2>2. \A n \in 1..Len(t) : n + 1 + Len(suffix) # NickMax
    BY <1>1
  <2> QED BY <1>1, <1>2, <2>1, <2>2, NicknameCases
<1> QED BY <1>3 DEF t

(* The five outcomes, and what makes each of them a good nickname. *)
LEMMA NicknameIsGood ==
  ASSUME NEW name \in Seq(Runes), NEW suffix \in Seq(Runes), suffix # <<>>
  PROVE GoodNickname(name, suffix, buildNickname(name, suffix))
<1>0. SUFFICES ASSUME NEW nick, nick = buildNickname(name, suffix)
               PROVE GoodNickname(name, suffix, nick)
  BY Zenon
<1> DEFINE kept == Len(nick) - Len(suffix) - 1
<1>1. /\ Len(name) \in Nat /\ Len(suffix) \in Nat /\ NickMax \in Nat \ {0}
      /\ HasSuffix(suffix, suffix)
  BY LenProperties, SuffixOfItself
<1>2. CASE nick = suffix /\ (name = <<>> \/ Len(suffix) <= NickMax)
  <2>1. ~(kept > 0)
    BY <1>1, <1>2
  <2>2. buildNickname(nick, suffix) = nick
    BY <1>1, <1>2, SuffixedIsStable
  <2> QED BY <1>1, <1>2, <2>1, <2>2 DEF GoodNickname
<1>3. CASE name # <<>> /\ HasSuffix(name, suffix) /\ nick = name
  <2>1. buildNickname(nick, suffix) = nick
    BY <1>3, SuffixedIsStable
  <2> QED BY <1>3, <2>1 DEF GoodNickname
<1>4. ASSUME NEW n \in 1..Len(name), nick = Marked(SubSeq(name, 1, n), suffix),
             n + 1 + Len(suffix) <= NickMax,
             n = Len(name) \/ n + 1 + Len(suffix) = NickMax
      PROVE GoodNickname(name, suffix, nick)
  <2> DEFINE first == SubSeq(name, 1, n)
  <2>1. first \in Seq(Runes) /\ Len(first) = n
    <3>1. n \in 0..Len(name)
      BY <1>1
    <3> QED BY <3>1, PrefixRunes
  <2> HIDE DEF first
  <2>2. /\ nick # <<>> /\ Len(nick) = n + 1 + Len(suffix)
        /\ HasSuffix(nick, suffix) /\ SubSeq(nick, 1, n) = first
    BY <1>4, <2>1, MarkedName DEF first
  <2>3. kept = n
    BY <1>1, <2>2
  <2>4. buildNickname(nick, suffix) = nick
    BY <2>2, SuffixedIsStable
  <2> QED BY <1>1, <1>4, <2>2, <2>3, <2>4 DEF GoodNickname, first
<1>5. CASE /\ name # <<>> /\ Len(name) + 1 + Len(suffix) <= NickMax
           /\ nick = Marked(name, suffix)
  <2>1. SubSeq(name, 1, Len(name)) = name /\ Len(name) \in 1..Len(name)
    BY <1>1, <1>5, SubSeqFull, EmptySeq
  <2> QED BY <1>4, <1>5, <2>1
<1>6. CASE nick = Truncated(suffix, NickMax)
  <2>1. CASE Len(suffix) <= NickMax
    BY <1>1, <1>2, <1>6, <2>1, TruncatedRunes
  <2>2. CASE NickMax < Len(suffix)
    <3>1. Len(nick) = NickMax
      BY <1>1, <1>6, <2>2, TruncatedRunes
    <3>2. ~(kept > 0) /\ ~(Len(suffix) <= NickMax)
      BY <1>1, <2>2, <3>1
    <3>3. buildNickname(nick, suffix) = nick
      BY <1>6, <2>2, CutSuffixIsStable
    <3> QED BY <1>1, <3>1, <3>2, <3>3 DEF GoodNickname
  <2> QED BY <1>1, <2>1, <2>2
<1>7. ASSUME NEW n \in 1..Len(name), n + 1 + Len(suffix) = NickMax,
             nick = Marked(SubSeq(name, 1, n), suffix)
      PROVE GoodNickname(name, suffix, nick)
  <2>1. n + 1 + Len(suffix) <= NickMax
    BY <1>1, <1>7
  <2> QED BY <1>4, <1>7, <2>1
<1> QED BY <1>0, <1>2, <1>3, <1>5, <1>6, <1>7, NicknameCases

(* Whatever names and suffixes there are, the nickname of an agent is       *)
(* stable, fits unless the name or suffix it was made of did not, carries   *)
(* the suffix if there is room for it and loses no more of the name than it *)
(* has to: buildNickname is correct for names of any length.                *)
THEOREM NicknamesMark == Spec => []NicknameMarks
<1>1. ASSUME NEW name \in Names, NEW suffix \in Names \ {<<>>}
      PROVE GoodNickname(name, suffix, buildNickname(name, suffix))
  <2>1. name \in Seq(Runes) /\ suffix \in Seq(Runes) /\ suffix # <<>>
    BY NamesAssumption, Zenon
  <2> QED BY <2>1, NicknameIsGood, Zenon
<1>2. NicknameMarks
  BY <1>1, Zenon DEF NicknameMarks, MarksEveryName
<1> QED BY <1>2, PTL
=============================================================================
