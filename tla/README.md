# Formal model of discord-support-hub

TLA+ specifications of the hub's asynchronous core, TLC configurations that
check them on small instances, and TLAPS proofs of the central safety
properties. Every definition is translated from the Go source; `PROJECT.json`
maps each one to the lines it stands for.

## 1. The system and its parts

The hub manages, for every merchant, one private Discord channel (a *space*).
An HTTP API writes desired state to Postgres and hands the Discord work to
asynq tasks (Valkey); worker processes carry it out; a scheduled reconciler
compares desired with real state.

| Component | State | Operations | Interacts through |
|---|---|---|---|
| Provision request (`api/handlers/spaces.go`) | rows of `spaces`, `outbox`, `jobs` | commit space + outbox, patch the payload, insert the job | Postgres |
| Outbox relay (`worker/relay.go`) | a batch in memory, `enqueued_at` | list pending rows, enqueue, stamp | Postgres, asynq task ids |
| `provision_space` worker | `acl_state`, channel id, category, Discord channel | lock, load, create, allow, persist, complete; fail closed | lock, Discord, Postgres |
| asynq (`queue`, `worker/worker.go`, `worker/errors.go`) | tasks, leases, retry counts | enqueue, start, retry, archive, recover | Valkey |
| Locks (`lock/lock.go`) | `lock:merchant:*`, `lock:space:*` with token and TTL | SET NX, compare-and-delete, expiry; `NoopLocker` | Valkey |
| Membership requests (`handlers/collaborators.go`) | `space_members` | invite (insert + enqueue), expel (enqueue) | Postgres, asynq |
| OAuth2 callback (`handlers/transversal.go`, `oauth/`) | `users.discord_user_id`, tokens, nonces | issue and consume a state, exchange, link the account, store tokens, enqueue pending invites | Postgres, Valkey, asynq |
| `invite_collaborator`, `expel_collaborator` workers | `space_members`, overwrites, guild | join, grant, mark; delete, kick, revoke | lock, Discord, Postgres |
| Reconcile engine and scheduler (`reconcile/`, `worker/scheduler.go`) | overwrites, `overwrite_applied` | list, resolve, diff, circuit breaker, prune, re-apply | lock, Discord, Postgres |
| Space lifecycle (`handlers/spaces.go`, `worker/change_lifecycle.go`) | `lifecycle_state`, `@everyone` overwrite | open, resolve, archive, reopen: checked by the request, applied by the task | Postgres, asynq, Discord |
| Users (`handlers/collaborators.go`, `agents.go`) | rows of `users`: email, account, type, `is_active` | find by id, account or email, create; roster add and remove | Postgres, asynq |
| Role projection (`worker/project_agent_role.go`, `apply_nickname_suffix.go`) | the Agent role and nickname of an account | load, defer until connected, assign or remove, name | asynq, Discord |
| Welcome sync (`handlers/spaces.go`, `worker/sync_welcome.go`) | `welcome_message_id`, `jobs`, messages and pins | topic, edit or send and pin, record, advance the job | asynq, Discord, Postgres |
| Idempotency middleware (`api/middleware/idempotency.go`) | `idempotency_keys` | look up, register, store the response, replay | Postgres |
| Rate limiter (`ratelimit/`) | a hash with a TTL per bucket | take (Lua), header update, penalty, expiry | Valkey, the clock |
| Spaces cache (`handlers/spaces.go`, `cache/`) | `spaces:list`, its filtered variants and token, `spaces:id:*` | look up, query, fill, invalidate, expire | Valkey, Postgres |
| AuthN/AuthZ, router, config, observability, commands, demo client | none that interleaves | | |

**What is hard in it.** Handlers interleave at every store, Valkey and Discord
call. A task may be retried after any of its calls, run twice when its lease
is lost, or run beside a task that undoes it. Locks expire under their holder
and are compared only on release. The outbox row becomes visible before its
payload is complete. The sweep reads rows, users and overwrites one call after
another. Several failures are deliberately "not fatal". And the worker binary
(`cmd/worker/main.go:143`) gives its handlers no locker at all, so they run
with `NoopLocker` beside sweeps that do lock. `PROJECT.json` lists these
hazards at their lines with the properties aimed at them.

**What makes each part correct.**

- Provisioning: `applied` is backed by a channel and a category allow, and is
  final; channel and `applied` appear in one step; only failures may cost extra
  channels; a committed space reaches the queue and its task comes to rest; the
  job row tells the truth.
- Relay: a row is stamped only if its task reached the queue; rows are not
  lost and not fed for ever.
- Membership and reconcile: no sweep revokes a member who was there all along;
  nobody gains access without an invite; when the lock is used, a sweep acts on
  current rows and leaves the channel as they say, and an expelled member stays
  out; overwrites settle on the rows.
- Lifecycle and idempotency: a space in use keeps the `@everyone` deny it was
  created with; row and channel agree when nothing is under way; a request
  repeated with its key has one effect.
- Users, OAuth2 and roster: a state is redeemed once; the stored token is that
  of the linked account; an email is resolved to one row; the Agent role
  follows the roster, and changes in its order.
- Welcome: a recorded message is pinned and shows the last text; a re-sync adds
  no pin; the job of a run that ended is completed.
- Spaces cache: a filtered key holds a filtered page; once a new space's keys
  are deleted, a plain first page under `spaces:list` names it, unless its fill
  straddled the deletion; the cache catches up with a table at rest.
- Rate limiter: no window is granted more than its budget; a penalty holds; a
  refused caller is told the right time; a hash with a stamp and a TTL behaves
  like a token bucket.

## 2. Modules

| Module | Models |
|---|---|
| `Provisioning` | API request, relays, asynq task, merchant lock, `provision_space` handlers, Discord channels and categories |
| `SpaceContract` | what provisioning promises about a row of `spaces`; `Provisioning` implements it |
| `ProvisioningProofs`, `ProvisioningChannels` | theorems about `Provisioning`; the second counts channels |
| `Membership` | invite/expel/OAuth requests, both workers, the sweep, the space lock, overwrites of one channel |
| `MembershipProofs` | theorems about `Membership` |
| `Lifecycle` | idempotency middleware, lifecycle requests, `change_lifecycle` tasks and handlers, row and `@everyone` overwrite of one space |
| `LifecycleProofs` | theorems about `Lifecycle` |
| `Identity` | rows of `users`, invites that find or create them, OAuth2 states and callbacks, the roster, `project_agent_role` |
| `IdentityProofs` | theorems about `Identity` |
| `SpacesCache` | reads of spaces through the Valkey cache, writes, invalidation, expiry |
| `SpacesCacheProofs` | theorems about `SpacesCache` |
| `Welcome` | `welcome:sync` requests, jobs rows, tasks, `sync_welcome` handlers, messages and pins of one channel |
| `WelcomeProofs` | theorems about `Welcome` |
| `RateLimit` | token buckets in ticks, the goroutines that take from them, 429s |
| `TokenBucket` | what the limiter promises: a balance per bucket; `RateLimit` implements it |
| `RateLimitProofs` | theorems about `RateLimit` |
| `MC...` | one per model: the instances for TLC (symmetry sets, account relations, inputs) |

The models share no variables. What one needs of another is an action of
its environment: the channel of `Membership`, `Lifecycle` and `Welcome` comes
into being by `Provisioned`, and `SpacesCache` sees workers only as commits to
its table. The sweep of `Membership` runs for a space whose row is
`active` throughout; it only touches overwrites of members and `Lifecycle` only
that of `@everyone`, so the two do not meet in Discord. A callback is split:
its rows and tokens are in `Identity`, the invites it enqueues in `Membership`.

Definitions whose comment begins with "Mutant:" are faulty forms of the
definition after them; no specification uses them. `PROJECT.json` names the
property each one breaks.

### Provisioning

Everything is indexed by merchant: `spaces` is UNIQUE on `merchant_id`, so a
merchant has at most one space, outbox row, job row and task id. `request`
holds the API request between its statements (`CreateSpaceWithOutbox`,
`UpdateOutboxPayload`, `CreateJob`; `APICrash` ends it anywhere). `relay` is a
relay's batch: `ListPendingOutbox` takes the rows that are not stamped,
`EnqueueRow` adds a task (an id in use is refused by asynq and counts as
enqueued), `StampOutboxEnqueued` stamps what was sent. `worker[w]` is one
handler goroutine; its `pc` names the next call of `provisionSpaceHandler`
(`acquire`, `load`, `create`, `allow`, `persist`, `complete`, and the
fail-closed `markSpace`, `archiveJob`). A Discord call that reports an error
may still have taken effect (`CreateChannel` models both). `FinishTask`
settles the task the way `IsFailure` and `SkipRetry` make asynq do;
`LeaseExpires` is asynq's recoverer; `LockExpires` the key's TTL. Channels are
numbered in the order in which Discord created them.

Left out because nothing reads it back in this protocol: audit rows, metrics,
cache invalidation, logging, channel names, the relay's `BatchSize`.

### Membership

One provisioned (or not yet provisioned) space. `row` and `marked` are
`space_members`; `discordOf` is `users.discord_user_id`; `overwrites` and
`guild` are Discord's. `worker[w]` is a goroutine that runs an invite, an
expulsion (scope channel or server) or a sweep; each call is a step. Failed
`AddGuildMember`, `DeleteCollaboratorOverwrite`, `RemoveGuildMember` and marks
are not fatal, as in the code; all other errors return the task to asynq, which
retries it or, its budget spent, archives it (`Requeue` allows both). The sweep
lists rows (`ListMembers`), resolves users in any order (`ResolveMember`),
reads overwrites and diffs (`ReadOverwrites`), and repairs one overwrite at a
time. `CanLink` says which person can log in to which account. `steady` is a
history variable: the accounts that have been backed by an active row ever
since a running sweep listed the rows.

`Locking` says whether the handlers were given a Valkey locker; as deployed it
is FALSE. Sweeps always lock. `Expiry` lets the lock's TTL end while its holder
still runs. `ManualEdits` lets staff edit overwrites in Discord.

Left out: how an invite finds or creates the user row (see Identity), the
decryption of OAuth2 tokens (whether a usable one exists is a free choice),
audit rows, category handling, `reconcile_space` tasks (same engine; nothing
enqueues them).

### Lifecycle

One space. A request (`request[r]`) is sent with a key or none, goes through
the middleware (`LookupKey`, `RegisterKey`) and the handler (`CheckTransition`,
`Enqueue`, `StoreResponse`), one step per store or queue call; `APICrash` ends
it anywhere. `bodyOf` and `answered` are the row of `idempotency_keys`: the
body it was inserted with, here the action, and whether it has a response. The
key is the task's id; without one the id is made from space and action. asynq
forgets the id of a finished task, keeps that of an archived (`dead`) one and
refuses to enqueue an id it knows. `worker[w]` is a `change_lifecycle` handler:
load the space, change the overwrite if there is a channel, write the row.
`everyone` is the one overwrite Discord keeps for `@everyone`: `denied` by the
creation, `locked` by `ArchiveChannel`, `open` when `UnarchiveChannel` has
deleted it. `left`, `overlapped`, `shared`, `sent` and `again` are history:
the row has been closed once, two runs overlapped, two requests carried one
key at a time, the tasks of a key.

Left out: the jobs mirror and audit rows (no handler reads them back), the 24
hour expiry of keys, other routes behind the middleware, and requests refused
before they touch any state (unknown action, no control-plane principal).

### Identity

`type`, `active`, `email` and `account` are the columns of `users`; `account`
alone is UNIQUE. `token` is `oauth_tokens`, seen as the account a token belongs
to; `nonce` the `oauth:nonce:*` keys. `request[q]` is an API request between
two of its calls: an invitation by user id, by account or by email
(`InviteByEmail` looks up, `CreateCollaborator` inserts, later), the `Issue` of
a state, a callback (`Validate` consumes the nonce, `ExchangeFails`,
`LinkDiscordUserID`, `StoreToken`), `AddAgent` and `RemoveAgent` with the
`EnqueueRole` that follows. Tasks are keyed by user and kind, as their asynq
ids are. `worker[w]` is a `project_agent_role` handler: `LoadUser` (an Add of
an agent that has not connected is an error, retried until its retries are
spent), `AssignRole` or `RemoveRole`, `Finish`, `LeaseLost`. `buildNickname` is
a function on sequences of runes. `torn`, `rivals`, `disturbed` and `moved` are
history: they name the failures and races each property excepts.

Left out: HMAC and encryption (a state that was not issued is refused, a stored
token can be read back), the address of the redirect, audit rows, and
`apply_nickname_suffix`, which nothing enqueues.

### Welcome

`jobs` is the space's jobs rows in the order of `created_at`, `content` and
`pinned` are Discord's, and `worker[w]` is a `sync_welcome` handler whose `pc`
names its next call: `load`, `topic`, `edit` or `send` and `pin`, `record`,
`job`, `finish`. Any call may fail, and a call of Discord that fails may have
been done. `DeleteMessage` is a moderator. A task without a key is
`welcome:sync:<space>`, and asynq keeps that id when the task is archived. The
payload has no job id, so `AdvanceJob` completes the newest job, as the code
does. `overlaps`, `crowded`, `ran` and `shown` are history.

Left out: what the default text says, the length check, audit rows, the
middleware in front of the route (`Send` uses what `Lifecycle` shows of it).

### SpacesCache

`db` is the table after every commit, and a cached page is kept with two pieces
of history: the commit it was read at (`at`), and whether it was read with
neither filter nor cursor (`plain`). A list read is `StartList` (which chooses
the key by the filter and, for a filtered read, by the presence of the token),
`GetList`, `QueryList`, `FillList` and, for a filtered read, `FillToken`; a
read by id is `GetSpace`, `GetSpaceByID`, `FillSpace`. `CreateSpace` is
ProvisionSpace's commit and `Invalidate` the deletion that follows it, which
may fail; `WorkerWrite` is any worker's commit, without a deletion because
workers have no cache. Any call to Valkey or Postgres in a read may fail: the
cache's errors count as misses or are ignored, the table's end the read. The
`...Expires` actions are TTLs.

Left out: the `merchant_id` filter (told apart from `lifecycle_state` by the
key's text only), and columns other than the lifecycle.

### RateLimit

Time is in ticks of `1/TicksPerSecond` of a second and tokens are counted in
the same fraction, so the arithmetic is exact where the code's is in floats.
`Take` is the Lua script, run with a clock reading up to `MaxLag` ticks old;
`TakeGlobal` and `TakeRoute` are the two takes before a call, `Sleep` the
retry delay of a refused one. `UpdateFromHeaders` and `PenalizeUntil` write a
bucket outright; `Tick` advances the clock and drops expired keys.
`StartWindow` starts an observation of a bucket; `granted`, `since`, `newest`
and `frozen` are history.

`TokenBucket` is the abstract specification: a balance per bucket that every
tick refills, takes that cost a token, freezes, reports of Discord. The
refinement mapping gives a bucket the balance that the slowest caller finds
(the refill up to `clock - MaxLag`), so a take with a newer stamp is a take
with that much more refilled. A bucket is `fading` (`Fades`) when its key
expires before it is full again; only header updates write such keys, because
their TTL is Discord's reset and not the time the bucket takes to fill.

Left out: errors of Valkey (the take fails and asynq retries the task), the
names of routes, and the loss of a fraction of a token to rounding.

## 3. Runs

| Run | Expect | Shows |
|---|---|---|
| `prov_safety` | pass | `TypeOK`, `AppliedIsBacked`, `ExtraChannelsNeedFaults`, `StampedWasEnqueued` as deployed: no lock, two goroutines, two relays, leases lost by running workers, three failures |
| `prov_contract` | pass | `KeepsContract`, `AppliedIsFinal`, `CompletedMeansApplied` and, under fairness, `CommittedIsSettled`, with the lock and when only dead workers lose leases |
| `mem_safety` | pass | `TypeOK`, `SweepSparesSteadyMembers`, `OnlyInvitedHaveAccess` as deployed, with an own account for each user and one that changes users |
| `mem_locked` | pass | `SweepActsOnCurrentRows` (its parts `SweepReappliesActive` and `SweepRevokesUnbacked`), `SweepRepairs` and `ExpelledStayOut` with the lock used by every handler, four requests, one failure |
| `mem_converge` | pass | `Converges` as deployed, with manual edits, under fairness |
| `life_safety` | pass | `TypeOK`, `OpenedOnlyAfterClosing`, `AgreesUnlessRaced`, `OncePerKeyUnlessConcurrent`: three requests, two goroutines, one failure |
| `id_safety` | pass | `TypeOK`, `StateRedeemedOnce`, `TokenMatchesLink`, `EmailResolvedOnce`, `RoleMatchesRoster`, `NicknameMarks`, `RoleChangesInOrder`: invites, connects, callbacks and roster changes in any order, one failure |
| `cache_settle` | pass | `TypeOK`, `FilteredListsKeepTheirFilter`, `NewSpaceListed` and, under fairness, `Settles`: two readers against a writer, its deletion and expiries |
| `welcome_pins` | pass | `TypeOK`, `RecordedIsPinned`, `ExtraPinsNeedCause`, `RecordedShowsLastText`, `JobsFollowRuns`: two requests, two goroutines, one failure, a moderator |
| `rate_budget` | pass | `TypeOK`, `WithinBudget`, `PenaltyHolds`, `WaitIsExact`, and `IsTokenBucket`, the refinement of `TokenBucket`: a global and a route bucket with late takes, headers, penalties and expiry |
| `prov_payload` | violation | `EnqueuedPayloadComplete`: the relay can read the payload before it is patched |
| `life_reopen` | violation | `NeverOpenToEveryone`: reopening deletes the deny of the creation |

Each violation run states what a comment or document of the repository says;
`PROJECT.json` "findings" quotes it beside what the code does.

**Observations** made while translating that are not runs of their own. Those
marked TLC are counterexamples of the models under the conditions named:

- TLC: a failure after the creation of a channel makes the retry create a
  second one (`provision_space.go:201`; `docs/02-architecture.md:172` says
  "a retry at any layer cannot double-provision"). `ExtraChannelsNeedFaults`
  says that nothing else costs a channel.
- TLC: as deployed, `SweepRevokesUnbacked` is false: a sweep takes back the
  grant of a member invited while it ran, because the handlers have no lock
  (`cmd/worker/main.go:143`; `docs/02-architecture.md:433` relies on a
  consistent snapshot of Postgres). The next sweep grants it again
  (`Converges`).
- TLC: an invite task that runs after the expulsion goes on and grants: the
  handler does not look at `revoked_at` (`invite_collaborator.go:113`). The
  next sweep revokes it.
- TLC: `AppliedIsFinal` fails with the lock as soon as a slow worker may lose
  lease and lock (`Locking` and `Stalls` TRUE, two failures): the token is
  compared on release only, and a revived worker writes over its successor's
  applied space (`provision_space.go:217`; `docs/02-architecture.md:436` says
  the "fencing token prevents a revived stale worker from acting").
- TLC: when every active row belongs to a user without an account, the circuit
  breaker fails each sweep, and an overwrite no row backs stays
  (`reconcile.go:239`; `docs/02-architecture.md:214` says it "is removed on the
  next reconcile pass"). `Converges` excepts exactly this case.
- TLC: tasks take transitions that are not in `lifecycleTransitions`: `archive`
  and `resolve` are both accepted from `active`, and the second to run resolves
  an archived space (`spaces.go:442` says any other transition is rejected).
- TLC: two overlapping requests with one key are both enqueued when the first
  task has finished before the second request enqueues (`idempotency.go:83`
  says "asynq TaskID prevents double-enqueue"). Either condition of
  `AgreesUnlessRaced` is needed as well: a failure or an overlap alone leaves an
  archived row with an open channel.
- Without a key the task id is made from space and action; asynq keeps the id
  of an archived task, so one exhausted `archive` task makes later archive
  requests of that space answer 202 and do nothing (`spaces.go:534`).
- A lifecycle request writes no desired state and no outbox row, although its
  own comment says so (`spaces.go:464`): an enqueue that fails is lost.
- `failClosed` writes `failed` when this attempt knows of no channel, although
  an earlier attempt, or the failed call itself, may have made one
  (`provision_space.go:293`; line 186 says there is none).
- The jobs row is inserted after the outbox commit and updated only on some
  paths: a task that settles before the insert leaves it pending for ever
  (`spaces.go:226`; `docs/02-architecture.md:93` says it mirrors the task).
- A second invite of an expelled user conflicts with the revoked row, counts as
  success and leaves it revoked (`collaborators.go:121`). With the lock, its
  task grants nothing if the first invite had been recorded
  (`ExpelledStayOut`); without it, or if it had not, the task may, until the
  next sweep.
- An accepted expulsion is written nowhere but in the queue, and the error of
  its enqueue is discarded (`collaborators.go:444`).
- The `connect_url` that AddAgent returns carries the raw user id as its state
  (`agents.go:252`), which `Validate` always refuses.
- A role task that is not enqueued, or dies, is not repaired: the comments of
  AddAgent (`agents.go:109`) rely on a reconciler, and no sweep looks at roles.
  An Add that waits for an agent to connect dies when its retries are spent.
- `users.email` is not UNIQUE, so the conflict that `collaborators.go:341`
  handles cannot come from an email: two invitations that miss an email at once
  make two users (`EmailResolvedOnce` excepts them).
- A nickname that ends in the suffix is kept as it is, even beyond 32 runes.
- A filtered read without a generation token queries Postgres and fills the
  unfiltered key `spaces:list` with its filtered page (`spaces.go:308`), which
  later unfiltered reads are served. Neither is the page's cursor part of a key.
- The filtered keys do not contain the generation token although
  `spaces.go:299` says so: once a read has set the token again, variants from
  before the deletion are served until their TTL. Workers delete nothing.
- A penalty replaces an earlier, longer one, and a header update thaws a frozen
  bucket. The capacity a header update stores is never read by the script. No
  process of the deployment is given the limiter.
- `advanceJob` completes the newest welcome job of the space, whichever task
  ran: of syncs that crowd each other, only the last job is completed.
- A welcome message that is deleted before it was pinned makes its task fail,
  and a task without a key that is archived keeps its id, so that later syncs of
  that space are accepted and do nothing.
- A failed `RemoveGuildMember` is not repaired by anything: sweeps compare
  overwrites only (`expel_collaborator.go:117`).

**Bounds.** Merchants do not share rows, locks or tasks, so one merchant is
enough; only a relay's batch mixes the rows of several merchants, and the proof
of `StampedWasEnqueued` covers any number of them. Two goroutines and two
relays give every pairwise race. `MaxRetry` 2 lets a task fail, be retried and
be archived; `MaxFaults` 2 or 3 lets a failure be followed by one on its
recovery path; `MaxChannels` is one more than the failures, so it never cuts a
behaviour short. Membership uses two users with an account each, one expelled
and one kept, and in `mem_safety` a third account (`SharedAccount`) that may
move from one to the other: an overwrite of an own account tells whose it is,
and one of the third a link that has moved. Two to four requests give a
connect, invite, expel, invite again; its guards `Fault` and `Request` are
where its bounds enter. Lifecycle uses one key and three requests: two that
share the key, one after the other or at once, and one more, with the key or
without, that moves the row between them; one failure, which may strike
anywhere.

Identity uses two rows, one email (so that rows can compete for it), two
accounts (an account moves, or two people claim one), two states, four
requests (a roster change, a connect with its callback, one more) and one
retry, so that a deferred Add can be retried or die; nicknames are all names of
up to six runes over a letter and a blank with a limit of four. SpacesCache
uses one space, a filter it passes or not, two readers and two commits: a
second space adds pages, and the proofs cover any number of spaces and any
page size, so also spaces that do not fit on the first page. Welcome uses one
text beside the default and three messages: a first, a replacement, and one
posted by an overlapping run; `MaxMessages` cuts longer behaviours short, the
proofs hold for any value of it. RateLimit uses three ticks a second, a
global bucket of two and a route bucket of one, penalties of up to a second
and five ticks of time: refill, cap, freeze and expiry all happen, and a take
may be one tick late. The proofs of all modules cover every other size.

**Deadlock.** `prov_*` runs disable the check: once every merchant's space is
settled and stamped, nothing more happens. `life_*`, `id_safety` and
`welcome_pins` do as well: every request is sent once; `rate_budget` stops at
`MaxTime`. In `mem_*` the sweeps and in `cache_settle` the reads go on for ever
and the check is on.

**Fairness.** Weak fairness of relays and handler goroutines: `Relay.Run` ticks
in a loop and goroutines run until their calls return. Weak fairness of lease
and lock expiry: asynq's recoverer and Valkey's TTLs. In `Provisioning`, weak
fairness of task start (asynq's processor). In `Membership` strong fairness of
the start of a sweep: the scheduler enqueues `reconcile:guild` every five
minutes and asynq's weighted, non-strict queues serve every queue again and
again, although goroutines may be busy in between. Queued membership tasks are
given no fairness: an archived task never runs. In `SpacesCache`, weak fairness
of a read that has started (its calls return or time out) and of the expiry of
a key that stays (every key is set with a TTL); readers need not start.
Clients, staff and failures are never fair.

## 4. Proofs

`ProvisioningProofs` proves, for any sets of merchants, goroutines, relays and
categories and any bounds:

| Theorem | Statement | Assumes |
|---|---|---|
| `TypeCorrect` | `Spec => []TypeOK` | |
| `AppliedBacked` | `Spec => []AppliedIsBacked` | |
| `StampedEnqueued` | `Spec => []StampedWasEnqueued` | |
| `CompletedApplied` | `Spec => []CompletedMeansApplied` | `Stalls = FALSE` |
| `AppliedFinal` | `Spec => AppliedIsFinal` | `Stalls = FALSE` |
| `ContractKept` | `Spec => KeepsContract` | `Stalls = FALSE` |
| `ExtraChannelsPaid` (in `ProvisioningChannels`) | `Spec => []ExtraChannelsNeedFaults` | |

The first three and the last hold with and without the lock and with workers
that outlive their leases. The other three are false with them (see the
observations), so they assume that only dead workers lose their lease; the lock
is not assumed, because a task with one owner already serialises a merchant's
handlers.

The argument. `AppliedIsBacked` is not inductive: `BackedInv` adds what a
handler knows at each step (its category is set from `create` on, its channel
exists from `allow` on, its category carries the allow at `persist`).
`StampedWasEnqueued` needs `RelayInv`: rows a relay is about to stamp have a
task. The other three rest on `RunInv`: a running handler owns the active task
(`OwnsTask`, so there is one per merchant), requests, rows and tasks have a
space (`RowsHaveSpace`), a handler past its load runs on a space that is not
applied (`LoadedIsCurrent`), and completed jobs have applied spaces.
`ExtraChannelsNeedFaults` compares two counters and needs a potential:
`ChannelInv` says that the channels created, the runs that are about to create
one or, having lost the lease, may still come to that, and one more if the run
with the lease (or the next one) will find the space unprovisioned, are at most
one more than the failures. Each step moves the potential from one summand to
another, or is a failure.

`MembershipProofs` proves, for any users, accounts, goroutines and bounds:

| Theorem | Statement | Assumes |
|---|---|---|
| `TypeCorrect` | `Spec => []TypeOK` | |
| `SteadyMembersSpared` | `Spec => []SweepSparesSteadyMembers` | |
| `InvitedOnly` | `Spec => []OnlyInvitedHaveAccess` | |
| `ReappliesActive` | `Spec => []SweepReappliesActive` | `Locking = TRUE`, `Expiry = FALSE` |
| `ExpelledMembersStayOut` | `Spec => ExpelledStayOut` | the same |
| `RevokesUnbacked`, `SweepsAreCurrent` | `Spec => []SweepRevokesUnbacked`, `Spec => []SweepActsOnCurrentRows` | the same, `ManualEdits = FALSE`, `OneAccountEach` |
| `SweepsRepair` | `Spec => []SweepRepairs` | all of these |

The first three hold as deployed. The others need the lock, which the deployed
handlers do not take, and a TTL longer than a run; the last three also that
everyone has one account of their own (`OneAccountEach`), because linking an
account takes no lock and a re-link between the sweep's reads would change what
backs an overwrite. `ExpelledStayOut` is an action property and excepts no more
than it must: an invite delayed past the expulsion still grants if the
overwrite was never recorded, and the next sweep takes it back. `SweepRepairs`
is what a sweep contributes to `Converges`, whose liveness only TLC checks. The
invariants: `TypeInv` adds what each step of a run knows to `TypeOK`;
`SteadyInv` says that a sweep's desired set contains, or has still to resolve,
every steady account; `InvitedInv` that what tasks, runs and sweeps hold in
hand belongs to invited users; `LockInv` that whoever is inside a critical
section holds the lock, so there is one; `CurrentInv` that the users a sweep
still has to resolve or has resolved are active now; `LinkedInv` that
overwrites, and the accounts runs remember, belong to users linked to them now;
`PruneInv` that what a sweep is about to revoke belongs to revoked rows;
`UnmarkedInv` that an invite which goes on to grant found its row unmarked and
it still is (only the holder of the lock marks rows); `RepairInv` that the
overwrites a sweep wants and those that are there differ by no more than what
it has still to revoke and to re-apply, unless a call has failed.

`LifecycleProofs` proves, for any requests, keys, goroutines and any number of
failures, `TypeCorrect` (`TypeOK`), `OpensLate` (`OpenedOnlyAfterClosing`),
`Agrees` (`AgreesUnlessRaced`) and `OncePerKey`
(`OncePerKeyUnlessConcurrent`), from the assumptions on the constants alone.
`OpenInv`: whatever may still lift the overwrite (a request past its check, a
task, a run) was accepted for a space that had been closed. `AgreeInv`: runs
that do not overlap are one at a time, and before a run writes the row the
overwrite fits what it is about to write. `KeysInv`, for a key no two requests
carried at once: the request that carries it has not enqueued before it
enqueues, and once its task is queued the key is answered or about to be, so
the next lookup replays.

`IdentityProofs` proves, for any users, emails, accounts, states, requests and
goroutines, `TypeCorrect` (`TypeOK`), `RedeemedOnce` (`StateRedeemedOnce`),
`TokensMatch` (`TokenMatchesLink`), `EmailsResolved` (`EmailResolvedOnce`),
`RoleFollowsRoster` (`RoleMatchesRoster`), `RoleChangesOrdered`
(`RoleChangesInOrder`) and `NicknamesMark` (`NicknameMarks`). `StateInv`: a
nonce that is there was issued and not redeemed. `RowsInv`: whatever names a
user has a row. `TokenInv`: a user that is not torn has one callback at a time,
and before it stores the token the row holds its account. `EmailInv`: an
invitation that missed an email would miss it still, unless it has a rival.
`RolesInv` has four parts: a run past its load holds the account its agent is
linked to, unless that moved (`HeldInv`); the role is held only by accounts
that are or were linked (`OwnedInv`); additions and removals of an undisturbed
agent do not mix (`ApartInv`); and its role follows the roster or the task that
will see to it is under way (`RoleInv`). `RoleChangesInOrder` follows from
`HeldInv` and `ApartInv`: an account that has not moved has one row, so the run
that changes its role is a run of that agent, and the kinds of its tasks do not
mix. It also says that a removal is never overtaken: while one is queued, no
late addition gives the role back. `NicknamesMark` is about `buildNickname`
alone and assumes only that names are sequences over `Runes` and a blank is a
rune (`NamesAssumption`): its five outcomes (`NicknameCases`), each measured
with the library's facts about concatenation and subsequences, for names,
suffixes and limits of any size.

`WelcomeProofs` proves `TypeCorrect` (`TypeOK`), `RecordedPinned`
(`RecordedIsPinned`), `RecordedShows` (`RecordedShowsLastText`), `JobsFollow`
(`JobsFollowRuns`) and `ExtraPinsCaused` (`ExtraPinsNeedCause`), for any
requests, keys, texts and goroutines. `PinInv`: a message that the row or a run
past its pin holds is pinned or deleted, and stays so. `ShowInv`: runs that do
not overlap are one at a time, and nothing is shown before it is recorded.
`JobInv`, while syncs come one after another: one thing is under way at a time,
each task under way has the newest job, and the jobs completed are those of the
runs that ended. `PaidInv` is again a potential: pins, plus the runs that began
beside another and may still add a pin or unpin the row, plus one if the
recorded message has no pin or the leading run is to replace it, are at most
one more than failures and overlaps; a message about to be pinned is known to
its run alone.

`SpacesCacheProofs` proves `TypeCorrect` (`TypeOK`), `FiltersKept`
(`FilteredListsKeepTheirFilter`) and `NewSpacesListed` (`NewSpaceListed`), for
any number of spaces, readers, commits and failures and any page size. The
invariant: pages, in a reader's hand or in the cache, were read under their
key's filter at a commit that was made, and those read with neither filter nor
cursor are that commit's first page (`FirstIfPlain`); what may fill
`spaces:list` was read when the spaces whose keys were deleted were there,
unless a fill straddled the deletion (`KnowsListed`); both hold in `ReadersInv`
and `ListInv`, and keys are deleted only for created spaces (`ListedInv`).
`OnFirstPage` does the counting: the spaces before one whose number is within
the page size are too few to fill the page. A filtered page, or a later one,
that was filed under `spaces:list` is excepted: the code serves it (section 3,
observations).

`RateLimitProofs` proves `TypeCorrect` (`TypeOK`), `WaitsExact`
(`WaitIsExact`), `PenaltiesHold` (`PenaltyHolds`), `BudgetKept`
(`WithinBudget`) and `ImplementsTokenBucket` (`IsTokenBucket`), for all
capacities, rates, tick lengths, lags and inputs that satisfy the assumptions
on the constants; `BuffersAssumption` is the one that matters: a key outlives
the time its bucket takes to fill. `TypeInv` adds that a goroutine's reading of
the clock is at most `MaxLag` old. `FrozenInv`: until a penalty ends, its key
is there, empty and stamped with that end. `BudgetInv` is a potential again:
what was granted and what is left in the bucket is covered by a full bucket and
the refill up to the bucket's stamp, and a key that is gone outlived the time
in which its bucket fills. The refinement is proved step by step: initial
buckets are full; a take is the ideal take at the lead of its stamp; a penalty
is a freeze, a header update a report; a tick is a refill in which exactly the
keys that fade and expire are forgotten; every other step leaves all balances
alone.

Every invariant and every action property of the passing runs, and both
refinements, are stated by a theorem. Only TLC checks liveness
(`CommittedIsSettled`, `Converges`, `Settles`): fairness and ENABLED are outside
the prover.

## 5. Not modelled, and what is left

Merchants and jobs endpoints (single statements), authentication and
authorisation (stateless predicates, hashing, encryption), router,
configuration, migrations, observability and the demo client have no protocol
state. `reconcile_space` and `apply_nickname_suffix` tasks are never enqueued.
The expiry of idempotency keys after 24 hours and the reuse of one key on
several routes, audit retention, and Valkey outages seen by the limiter and the
cache are left out of the models of those parts. One hazard in `PROJECT.json`
has no property: an expulsion whose enqueue is lost leaves no state that a
property could relate to the request.

What could come next: `Lifecycle` extended to the other routes behind the
idempotency middleware; an abstract specification of the roster ("the role
follows the roster") that `Identity` refines where nothing is disturbed; the
composition of `SpacesCache` with the lifecycle writes of `Lifecycle`.
