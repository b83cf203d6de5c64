# Tavern: a verification development

TLA+ models of the parts of Tavern in which several actors meet: browser and
gateway, concurrent requests on one account or one server, and instances that
federate. Each model is translated from the source; TLC checks it on small
instances, and TLAPS proves the types and every checked safety property of all eleven
components for every value of the constants.

| module | models | checked by | proofs |
|---|---|---|---|
| `Gateway` | WebSocket gateway and web gateway client | `gateway` | `GatewayProofs` |
| `Sessions` | sessions of one account | `sessions` | `SessionsProofs` |
| `AccountSessions` | what an account's sessions promise (abstract) | as property `KeepsSessionsApart` of `sessions` | `SessionsImplement` in `SessionsProofs` |
| `LoginGate` | password step, second step, enrolment of one account | `login` | `LoginGateProofs` |
| `Presence` | presence of one user | `presence` | `GatewayProofs` |
| `Peering` | handshake between instances | `peering` | `PeeringProofs` |
| `FederatedMessage` | one message through outbox, relay and inbound handlers | `fedmsg_relay` | `FederatedMessageProofs` |
| `ReplicatedMessage` | what a federated message promises (abstract) | as property `Replicates` of `fedmsg_relay` | `Implements` in `FederatedMessageProofs` |
| `FederatedDm` | a one-to-one conversation between two instances | `dm` | `FederatedDmProofs` |
| `FederatedRoster` | a server's channels and members, and their mirror | `roster` | `FederatedRosterProofs` |
| `Membership` | one server's members, bans and invite | `membership` | `MembershipProofs` |
| `WebStore` | the lists a browser tab shows | `store` | `MembershipProofs` |
| `Uploads` | attachments from the upload to icon and message | `uploads` | `FederatedMessageProofs` |

Every module is a complete specification of its component; `MC<module>` gives it
values for TLC. `PROJECT.json` lists components, runs, mutants (for each checked
property a plausible slip in a named definition that breaks it), the source lines
of every definition, findings, hazards and theorems. Paths below are relative to
the repository root.

Three proof modules hold the theorems of two components each, next to the one it meets:
`Presence` counts the sockets of `Gateway`, `WebStore` shows the members that `Membership`
admits, a message of `FederatedMessage` claims the files of `Uploads`. The second component's
specification has names of its own (`PresenceSpec`, `StoreSpec`, `UploadsSpec` and so on).

To check a run: `tlc -config gateway.cfg MCGateway`; to check the proofs of a
module: `tlapm SessionsProofs.tla`.

## 1. The system

Tavern is a self-hosted chat for tabletop groups: a monorepo with an API process
(`apps/api`: Fastify routes, services, and the WebSocket gateway), a worker
(`apps/worker`: BullMQ jobs), web and mobile clients, and shared packages.
State lives in Postgres (through Prisma, READ COMMITTED), in Redis queues, and in
the memory of the API process: sockets, replay buffers, socket counts, timers. All of
it is lost in a restart. Instances federate by signed HTTP envelopes.

The API is one Node process. Nothing preempts a handler between two `await`s, so
the unit of interleaving is the code from one `await` to the next, and most of
what can go wrong is a decision that rests on something read before an `await`.

### Components

**Gateway** (`apps/api/src/gateway/index.ts`, `services/gateway-broker.ts`,
`apps/web/src/lib/gateway-client.ts`). *State:* the `clients` map with each
socket's user, sequence number, replay buffer and its floor; `orphanedSessions`
(the buffers of closed sockets, kept for a while); `userConnections`; in the
browser the current socket, the last number seen and the session to resume.
*Operations:* HELLO, IDENTIFY, RESUME, dispatch, fan-out of published events,
heartbeat, close. *Meets:* routes publish through the broker; the first and
last socket of a user drive presence; a READY is read from the database and carries the user's server rows only. *Hard:* events
published while a handshake awaits; a fan-out that awaits permissions while
sockets come and go; half-open connections; adoption of another socket's buffer.
*Correct when* the stream of a registered socket has no hole,
buffers have one owner, and registration and cleanup agree.

**Sessions** (`services/auth-service.ts`, `routes/account.ts`). *State:* session
rows with revocation, password hash, reset links, the account's deletion date.
*Operations:* login and registration, refresh with rotation and reuse
detection, logout, revoke-others, password change and reset, detached pruning to
a cap. *Hard:* two refreshes with one token; anything between a check and the
session it leads to; overlapping prunes. *Correct when* a token is spent once,
revocation ends what it says, and the cap is restored.

**Presence** (`services/presence-service.ts`). *State:* in memory the socket count
and activity flag per user and the debounce timers; in Postgres presence, do-not-disturb,
custom status and a timestamp. *Operations:* connect, disconnect, activity,
do-not-disturb, status, debounced and immediate federation fan-out. *Hard:*
read-compare-write over `await`s, timers against fan-outs in flight, restart.
*Correct when* presence follows the sockets and peers end with the latest state.

**Peering** (`services/federation-peering.ts`, `routes/federation-peering.ts`,
`routes/admin-federation.ts`). *State:* a `RemoteInstance` row per peer. *Operations:*
initiate, approve, revoke, and the request, accept and revoke envelopes.
*Hard:* crossing handshakes, posts that are tried once, writes over stale reads.
*Correct when* two admins are needed to peer, grants stay within what is
advertised, and a revocation holds.

**Federated messages** (`services/federation-outbox.ts`, `queues.ts`,
`federation-inbound.ts`, `routes/messages.ts`,
`packages/federation/src/outbox-dispatcher.ts`,
`apps/worker/src/federation-outbox-worker.ts`). *State:* the message row on each
instance, outbox jobs with ids that decide what is a duplicate, envelopes in
flight. *Operations:* post, edit, delete, enqueue, dispatch, retry, receive,
relay. *Hard:* no answer is not a failure; four jobs run at a time; envelopes
overtake; a crash between commit and enqueue. *Correct when* a message is
announced once, a deletion is final, everyone gets everything.

**Membership** (`services/ban-service.ts`, `routes/bans.ts`, `routes/invites.ts`,
`routes/federation-invites-accept.ts`, `federation-inbound.ts`,
`routes/moderation-actions.ts`, `routes/admin-server-remote-members.ts`).
*State:* users, members, bans with expiry, an invite and its uses; on the peer its mirror
of the server. *Operations:* join, register with an invite, federated accept, remote
member by an admin, kick, ban, unban, cleanup of expired bans. *Hard:* transactions at
READ COMMITTED that see neither each other nor what was read before them; a
second instance that commits in its own time. *Correct when* bans keep people
out, an invite admits what it says, and both instances agree.

**Login gate** (`services/auth-service.ts`, `routes/totp.ts`, `lib/totp.ts`,
`routes/auth.ts`). *State:* failure counter and lock, TOTP secret, enablement, last
accepted counter and the list of backup codes, all in the user's row; the ticket between the two steps.
*Operations:* password step, second step with a code or a backup code, setup,
verify, disable, regenerate. *Hard:* password verification takes long, between the
read of the counter and its write; two second steps with one code; enrolment
routes that read, decide and write without looking again. *Correct when* a code logs in once,
failures are counted, and an enrolled account has a usable second factor.

**Federated direct messages** (`services/dm-service.ts`, `routes/dms.ts`,
`federation-inbound.ts`). *State:* on each instance the channel rows of the pair, its messages,
the recipient's opt-out, outbox jobs. *Operations:* open, post, toggle, `dm.create`,
`dm.message.create`. *Hard:* two opens at one end, opens that cross, a message that overtakes
its channel. *Correct when* each end has one channel, both agree unless opens crossed, and
what is acknowledged is stored.

**Federated roster** (`services/federation-mirror.ts`, `federation-outbox.ts`,
`federation-inbound.ts`, `routes/channels.ts`, `routes/federation-leave-mirror.ts`,
`routes/federation-invites-accept.ts`). *State:* server, channels and members at home and on
the peer's mirror; jobs and envelopes; the peer's users' requests to join and leave. *Operations:* every
change at home with its fan-out, the peer's handlers, join, leave, tear-down of an empty mirror.
*Hard:* partial changes that overtake each other, are merged over each other or are refused for
good; two instances that commit one after the other, and a home that answers too late; the count
before a tear-down. *Correct when* the mirror at rest is as the home, and joins and leaves that
were answered hold on both.

**Web store** (`apps/web/src/lib/store.ts`, `realtime.ts`, `MessageList.tsx`,
`MemberSidebar.tsx`). *State:* the tab's lists and their load states, requests in flight. *Operations:*
fetch, apply, cancel, fail, and the dispatches of the gateway. *Hard:* an answer was
read before dispatches that are already applied; the two are unordered. *Correct when*
a tab at rest shows what the API has.

**Uploads** (`routes/uploads.ts`, `services/upload-governor.ts`, `services/queues.ts`,
`packages/media/src/pipeline.ts`, `packages/db/src/server-icon.ts`, `routes/servers.ts`,
`routes/messages.ts`). *State:* attachment rows and objects; in the API's memory one-time tickets,
the slots of governed uploads and their line; scan jobs; the server's icon and its URL; claims of
messages. *Operations:* request, PUT, complete, scan, backfill of icon URLs, PATCH of an icon, POST of a message,
restarts. *Hard:* read-then-write in every handler; a queue that knows job ids; a scan cut short.
*Correct when* slots are neither exceeded nor idle, every scan ends, icon and message keep their file.

The components below are not modelled; section 8 says in which order they
follow and why some never will.

| component | what it keeps and does | what would be worth stating |
|---|---|---|
| Federated identities (`federation-profile.ts`, keys, envelopes) | cached profiles, keys, signatures | (read-through caches and cryptography) |
| Reactions, pins, threads, saved, drafts, search | toggles per user and emoji, CRUD | add and remove end in the same state everywhere |
| Permissions and roles (`packages/shared/src/permissions.ts`) | roles, overwrites, hierarchy | resolution equals its definition; nobody acts above their own role |
| Moderation, automod, join gates, raid lockdown | warnings, rules, lockdown, audit log | escalation counts each warning once; lockdown stops joins |
| Scheduler and worker (`scheduler.ts`, `apps/worker`) | scheduled messages, cleanup, recaps | sent once, whatever restarts; what is pending has a timer |
| Polls, game nights, campaigns | votes, RSVPs, documents | vote limits under concurrency |
| Tabletop tools (encounters, decks, dice, maps, boards) | turn order, random draws | one active turn |
| Voice, breakouts, recordings | voice states; media in LiveKit | a voice state has a socket behind it |
| Notifications, inbox, push | read states, subscriptions | counters match |
| Bots, plugins, webhooks, imports | tokens, manifests | (each call stands alone) |
| Export, backup, templates | bulk reads and inserts | (conversion) |
| Mobile application | stores, token refresh | (as the web client) |
| Shared schemas, database, infrastructure | declarations | (the unique keys the models rely on) |

### How the modelled parts meet

`Presence` is driven by the sockets that `Gateway` registers and closes;
`OpenSocketIsTracked` of the one is what makes the calls of the other
legitimate. The session lookups that guard a handshake are `Sessions`' rows;
`Gateway` lets them fail at any time (`AuthFails`). `FederatedMessage` runs
between instances that `Peering` has made peers and in rooms whose mirror `Membership`'s
accept builds and `FederatedRoster` keeps. `LoginGate` ends in the session that `Sessions`
issues. `FederatedDm` and `FederatedRoster` use the outbox and its dispatcher as
`FederatedMessage` models them, with their own handlers at the other end. `WebStore` consumes the
dispatches that `Gateway` delivers, and `Uploads` ends in a message's POST. They are separate modules because they share no variable that
both write; each takes its neighbour's behaviour as an unconstrained input.

## 2. How the models are written

- **A step is what runs without interruption.** A handler lives in a slot
  (`Request`, `Call`, `Slot`) or in a set (`running`, `local`, `fan`, `net`) and is
  split at each `await` on which a later decision rests. A single statement and a
  `$transaction` whose statements lock what they read are one step; a transaction
  that reads without a lock is two (its check, then its writes and commit),
  which is what READ COMMITTED allows.
- **Checks that only refuse** (validation, expired tokens, missing permissions)
  are guards when the state they look at is modelled, and left out when it is not.
- **Data** is what the properties tell apart: an event is its number, a text the
  number of the edit, a session its place by `createdAt`, a timestamp a version.
- **Mutants.** Next to a definition stands its mutated form under a name of its
  own and the comment `Mutant:`. It is used by no specification; `PROJECT.json`
  pairs it with the property that it violates.
- **History variables** (`since` of a `Client` record, `line` and `pw` of a session row, `swept`, `lost`, `asked`, `approved`,
  `announced`, `written`, `excused`, `admitted`, `streak`, `raced`, `cut`, `missed`, `overtaken`,
  `told`, `stale`, ...) record what the code does not store and a property needs. Each module
  marks its own.
- **Named exceptions.** Where the code allows a race to do damage, the property names that
  race ("unless two leaves ran at once") through a history variable that is set only when
  it happens; everything else must come out right. The race itself is in section 5.
- **Two scenes in one module.** `WebStore` and `Uploads` have parts that share code but not
  state. `view`, chosen in the initial state and never changed, says which of them a behaviour
  follows, so that their interleavings, which nothing can tell apart, are not multiplied.

## 3. The modules

### Gateway

| state | code |
|---|---|
| `conn[c]` | the `Client` record of socket `c`: open or closing, identified, `seq`, which array is its buffer, `bufferFloor`; `task` and `snap`: a READY under construction and the server row its queries saw; history `since`: what was published when the socket was registered |
| `heap[c]` | the replay array allocated with socket `c` (arrays are shared by reference between a record and its orphan) |
| `orphans` | `orphanedSessions` |
| `userConns` | `userConnections` |
| `fan` | fan-outs awaiting `shouldDeliver`, each with its place in the iteration |
| `published`, `serverRow` | the events published so far; the row READY carries, as the number of the SERVER_UPDATE that last changed it |
| `up`, `dev`, `knows`, `shows` | the request on the wire, the browser's `GatewayClient`, the events and rows it was told, and the row it displays |

`Connect` and `ClientClose` are the browser; `HandleIdentify`, `ResumeAdopt`,
`ResumeGap`, `ResumeFresh`, `AuthFails`, `ReadyQuery` and `ReadySend` the handshake;
`Publish` and `Deliver` the fan-out; `ServerClose`, `SweepSocket` and
`OrphanExpires` the end of a socket. A live JavaScript `Map` is iterated in
insertion order, sockets inserted meanwhile included: sockets are numbered in that order and
`NextTarget` is the iteration. Any send may find a slow consumer and close the
socket instead; browser and server notice a close independently, so there
are half-open connections on both sides.

READY is the user's server rows and nothing else, and the client puts each in place of the one it shows
(`OnDispatch`); it fetches nothing. An event of a message, channel or member is known only from its own dispatch.

Properties: `StreamMissesNothing` (from registration on, every event is told; a stream that began with READY
also tells the present server row), `RingExact`, `BufferHasOneOwner`, `OpenSocketIsTracked`, and the liveness
property `EventuallyUpToDate`. What was published between two sockets of a tab is told by neither a READY nor a
RESUME, and a READY that left its query before a SERVER_UPDATE overwrites the newer row: section 5
(`ReadyRepopulates`, `ResumeCatchesUp`, `ServerRowIsLatest`).

### Sessions

State: `sess` (rows), `password`, `resets` (reset links), `lapsed`
(`scheduledDeleteAt` is past), `req` (handlers), `tickets` (the staged tokens that a login with two-factor
on has handed out and that have not expired; the code stores them nowhere), and the history `swept` (the
sessions there were when all had to go, and those that carry one of them on). Actions: `Login`, which issues or
stages, `LoginStages`, `LoginTotp` (any token that has not expired, as often as a code is right; what makes a code
right is in `LoginGate`), `StagedExpires`, `RefreshRead`/`Reuse`/`User`/`Lapsed`/`Rotate` (one per awaited statement of
`refresh`), `IssueSession`, `PruneCount`/`Pick`/`Revoke`/`Fails` (detached from the
request that starts it), `Logout`, `RevokeOthers`, `ChangeRead`/`Commit`,
`ForgotPassword`, `ResetRead`/`Commit`, `Lapse`.

Properties: `CapHoldsWhenQuiet` (prunes that overlap still restore the cap, unless one
failed and nobody logged in since), `RevocationEndsSessions` (what a new password, revoke-others or the reuse
detection has ended no refresh brings back that had yet to rotate; it is silent on logins past the password and
on staged tokens, which do lead to sessions afterwards: section 5) and `KeepsSessionsApart`, below. `LineageHasOneActive` (a token has
one successor, whatever refreshes race) follows from the last one; it is stated and proved, and no run lists it.

### AccountSessions

The abstract specification of an account's sessions: `held[l]`, the good sessions of the lineage that
session `l` started, and `passing`, the lineages that a refresh has spent and not yet reissued. A login is a `Start`, a refresh a
`Spend` and later an `Issue` of its successor, a new password a `Change`, which ends everything; all
else may only `End` lineages that nobody is passing on. There are no handlers, reads, links, causes or prunes in it.
`Sessions!Abstract` instantiates it with what the rows and the handlers before their issue say (`Held`,
`Passing`); `KeepsSessionsApart` says that every behaviour of the handlers, however they overlap, is one of it.

### Presence

State: `socket`, `count` (`openSocketsByUser`), `active`, `row`, `shown` (what the audience
was last sent), `call` (handlers), `timer`, `emits`, `sent`. Actions:
`MarkConnected`, `CloseOne` and `CloseLast` (as the gateway calls them: only a user's last
socket reports a disconnect), `ReportActivity`, `SetManualDnd`, `SetCustomStatus`,
then `ComputeNext`, `WritePresence`, `Broadcast`, `WriteStatus`, `Announce`; `TimerFires`,
`Emit`, `Restart`.

Properties: `CountCoversOpenSockets` (nobody is shown offline over an open
socket because the count is low) and `FanOutCoversLatest` (debouncing never
drops the last state).

### Peering

State: `row[i][j]`, `running` (handlers between read and write), `net`. Actions:
`Initiate`, `Approve`, `Revoke` by admins, `ReceiveRequest`, `ReceiveAccept`,
`ReceiveRevoke` by the route, one `...Writes` action per handler's write, `Lose`.
An accept has three steps: the read before the discovery request, the transaction's own read
(`AcceptRereads`, a plain `findUnique`) and its unconditional update (`AcceptWrites`).
`ReceiveRevoke` does nothing, because the route answers 400 (section 5).

Properties: `PeeredTakesTwoAdmins`, `RevocationHolds` (action property: a revocation that no handler past its last
look at the row can write over stays, until this instance's own admin initiates again), `HandshakeCompletes`
(liveness). `GrantsOnlyAdvertised` is stated and proved, and no run lists it.

### FederatedMessage

State: `copy[i]` (the row on each instance), `local` (PATCH and DELETE past their checks),
`fanouts` (committed, not enqueued), `outbox` (jobs), `net`. Actions: `Post`,
`Request`/`RequestWrites`, `FanOut`, `Dispatch`, `NoAnswer` (the envelope was lost, or will
still be handled; the job is retried or exhausted), `Receive`, `CommitCreate`,
`CommitChange` (an inbound handler's check and its transaction), `Crash`. The
constants say which protocol it is: a room (`FreshNonces = FALSE`: the job id of an
update names the message only) or a DM (`TRUE`), and whether the author is at
home or on a mirror, in which case the home relays.

Properties: `AnnouncedOnce` (clients of an instance see MESSAGE_CREATE once),
`NothingEchoes`, `CreateReachesAll`, and `Replicates`, below.

### ReplicatedMessage

The abstract specification of a federated message: `copy[i]` and `written`, the texts the
author's row has had. `Post`, `Edit` and `Delete` happen at the author's instance;
another instance may `Learn` the message with a written text, `Follow` to a written text, or
`Drop` it once the author's instance has. There are no envelopes, jobs, relays or
failures in it. `FederatedMessage!Abstract` instantiates it with the same `copy` and the
history `written` (the text of a deleted message is 0 there); `Replicates` says that every
behaviour of the detailed model, with its retries, reorderings, relay and crashes, is one of
the abstract model. The converse half of the promise, that edits arrive, is not in it: that is what section 5
refutes.

### Membership

State: `account`, `member`, `ban`, `open` and `uses` of the invite, `task` (handlers), `mirror`
(the peer's members of its mirror). Actions: `Join`, `JoinPrune`, `JoinCheck`, `JoinCommit`;
`Register`, `RegisterCommit`; `Accept`, `AcceptCommit`, `AnswerLost`, `Mirror`; `AdminAdd`,
`Kick`, `Ban`, `BanCommit`, `Unban`, `BanExpires`, `ListBans`, `ListPrune`, `InviteCloses`.

How transactions are split: the check inside a transaction takes no lock, so it is a
step; the conditional `updateMany` on the invite locks its row until commit, so it,
the insert and the commit are one step. The cleanup of an expired ban deletes
by key, whatever the row then says, and takes effect at commit. The peer
builds its mirror only from an answer that reaches it; its first accept fails
(section 5), and it is only when the joiner is kicked between the home's commit and the
snapshot that a mirror comes about.

Properties: `InviteIsBounded`, `UsePerAdmission` (action property: a use is taken exactly
when one member comes in), `BannedMemberIsExcused`. The last one is as strong as the code
allows: a ban that committed before an admission's own check keeps the user
out, and a ban that read the member removes it; only a ban and an admission
that overlap, or an admin who adds a remote member, leave a banned member. The
stronger `BannedIsNotMember` is refuted.

### LoginGate

| state | code |
|---|---|
| `row` | the user's columns: failure counters and locks of both steps, enablement, secret, last accepted slot, backup codes |
| `req[r]` | a handler between its read and its write, with the row it read |
| `now`, `staged` | the 30-second slot; whether a ticket of the password step is valid |
| `admitted`, `streak`, `confirmed`, `raced` | histories: sessions per code, failures answered and those of them whose write was lost, secrets proved at verify, columns written from an outdated read |

`LoginRead` then `LoginWrong` or `LoginRight` is the password step, with the slow verification
between them; `TotpReadCode` or `TotpReadBackup`, then `TotpAdvance`, `TotpConsume`, `TotpFail` or
`TotpFailSwallowed` (the counter's own write fails, the error is dropped and the answer is the same 401) is
the second step; `SetupRead`/`Write`, `VerifyRead`/`Write`, `DisableRead`/`Write`,
`RegenerateRead`/`Write` are the routes; `PasswordReset`, `Tick`, `LockEnds` and `StagedExpires` the rest.
Only `loginTotp` writes under a condition, and that is what the first property rests on.

Properties: `CodeLogsInOnce` (however many second steps run at once, and across disabling and
enrolling again), `FailuresAreCounted` (unless two handlers overlapped on it, a counter is the number of failures answered since
it was cleared, for the second step without those whose write failed), `EnrolledIsUsable` (two-factor is on only with a
secret the user's authenticator has proved to hold).

### FederatedDm

State: `channels[i]` and `messages[i]`, the rows at each end; `accepts[i]`, the opt-out;
`opens` (POST handlers: `lookup`, `insert`, `tell`), `fanouts`, `outbox`, `net`; histories `answered`
(ids given to the user) and `cut` (the process died over an open). An id is the instance that minted
it and the number of the open. Actions: `OpenStart`, `OpenLookup`, `OpenInsert` (the unique pair key
decides; the loser fetches the winner's row), `OpenTell`, `Post`, `FanOut`, `Toggle`, `Dispatch`, `NoAnswer`,
`Receive`, `CommitCreate`, `CommitMessage`, `Crash`.

Properties: `OneConversation`, `SplitOnlyByCrossing`, `ArrivedBelongs`,
`AcknowledgedIsStored`, and the liveness property `OpenGetsThrough`.

### FederatedRoster

State: `at[o][f]`, the number of the change that wrote field `f` of the home's row of object `o` (the server, a
channel, a member), or 0; `mirror`, the same on the peer; `pending` (committed, not fanned out), `outbox`, `late`
(attempts nobody awaits any more), `merges` (updates of a channel that the peer has read a row for and not
written); `leave[g]`, `accept[g]`, the two-instance requests of the peer's users, and `strayJoins`,
`strayLeaves`, those that failed after ten seconds and that the home may still handle.
Actions at home: `UpdateServer`, `CreateChannel`, `UpdateChannel`, `DeleteChannel`, `Join`, `AdminAdd`,
`Remove`, then `FanOut`; `Crash`; delivery: `Dispatch`, `TimesOut`, `HandleLate`, `NeverArrives`, `Merge`; joins:
`AcceptAsk`, `Admit`, `AcceptFails`, `AdmitLate`, `AcceptMirror`; leaves: `LeaveAsk`, `HomeLets`, `LeaveFails`,
`HomeLetsLate`, `LeaveTx`, `LeaveCommit`. An update carries the fields the PATCH named: the server's are written
where they are, a channel's merged into the row read before, all of which is then written (`RowAfter`).
`LeaveTx` deletes and counts, `LeaveCommit` makes it visible: two leaves may count each other's row.

Properties: `MirrorIsCurrent` (at rest each field of the mirror is as at home, unless its own last change
did not get there or an older value was written over it; later changes of other fields repair nothing),
`LeftIsGone` (a user told that they left is not on the mirror, and at the home only by a late join),
`JoinedIsOnMirror`, `NoOrphanMirror`.

### WebStore

State: the API's `rows`; `late` (committed changes not yet published) and `stream` (the socket, in order);
the tab's `list`, `cached`, `load`, its `gets` in flight and `chained` forced fetches, `shown`. Actions: `Add`, `Edit`,
`Remove`, `Rebroadcast` (a reply bumps the parent's counter) and `Publish` at the API; `Answer` (the GET reads the
database), `Apply`, `Fail`; `OpenRoster`, `ShowRoom`, `HideRoom`; `Dispatch`, which does what the listeners of
`realtime.ts` do. The roster answers a MEMBER_ADD by fetching again, the message list applies what it gets.

Properties: `RosterIsCurrent` and `RoomIsCurrent` (a loaded list of a tab at rest is what the API has, but
for what changed between the reading and the applying of the last answer), `LoadingEnds` (liveness).

### Uploads

| state | code |
|---|---|
| `status`, `stored`, `bad`, `messageId` | the attachment row, its object and what a scan will find |
| `link`, `put`, `waiters`, `activeUploads` | tickets and `UploadGovernor`: each PUT, the line, the slots |
| `completing`, `enqueuing` | `POST /uploads/:id/complete` past its check, and past its write |
| `mode`, `known`, `queued`, `checked`, `scanning` | BullMQ, which ignores a job id it has had, or the in-process fallback |
| `backfill`, `icon`, `iconUrl`, `patch` | `refreshServerIconsForAttachment`, the server's columns, PATCH handlers |
| `post[m]` | the POST of a message: checked, then committed |

Actions: `RequestUpload`, `PutStraight`, `PutArrives`, `WaiterResumes`, `PutEnds`; `CompleteChecks`,
`CompleteWrites`, `Enqueue`; `ScanStarts`, `ScanMarks`, `ScanEnds`; `BackfillReads`, `BackfillWrites`; `PatchReads`,
`PatchWrites`; `PostChecks`, `PostCommits`; `RestartApi` (tickets, line and in-memory jobs are gone), `RestartWorker`.
A woken waiter takes its slot one microtask later, so a newcomer may be ahead of it; the loop in `acquire` is why the limit holds.

Properties: `SlotsAreUsed` (never more than the limit, never idle while somebody waits), `ScansSettle`
(liveness: every completed upload gets its verdict), `IconFollowsScan`, `PostedKeepsFile`.

## 4. The runs

| run | instance | states | what it shows |
|---|---|---|---|
| `gateway` | one tab, 2 sockets, 2 events, buffer of 1 | 1.5M | safety and liveness of the gateway |
| `sessions` | 2 handlers, 3 sessions, 2 passwords, 1 link, cap 1, two-factor on or off | 3.7M | cap and revocations under any overlap; implements `AccountSessions` |
| `presence` | 2 handlers, 2 sockets, 2 statuses, 2 writes, 1 restart | 534k | count and debounce |
| `peering` | 2 instances with different capabilities, 3 initiations, 1 revocation, 1 lost envelope | 661k | safety and liveness of the handshake |
| `fedmsg_relay` | 3 instances, author on a mirror, 1 edit, 2 failures, 1 crash | 206k | relay: once, no echo, reaches all; implements `ReplicatedMessage` |
| `membership` | owner, local and remote user, 3 handlers, 2 uses, 1 lost answer | 1.3M | invite and bans under any overlap |
| `login` | 2 handlers at a time, 8 in all, thresholds of 2, 3 slots, 2 secrets, 2 sets of one backup code | 565k | single use, counting and enrolment under any overlap |
| `dm` | 2 instances, 2 opens, 1 message, 1 opt-out change, 1 failure, 1 crash, 2 attempts | 197k | safety and liveness of a conversation opened from both ends |
| `store` | 2 items, 3 changes, 1 rebroadcast, 2 openings, 1 failed GET | 975k | both lists against any order of answers and dispatches |
| `roster` | server, 1 channel, rows of 2 fields, 1 user of the home, 2 of the peer, 3 changes or requests, 1 lost answer or crash, 2 attempts | 3.6M | mirror at rest, joins and leaves |
| `uploads` | 4 uploads for 2 slots; 1 attachment with 2 completes, 2 PATCHes, 2 messages, 2 restarts | 628k | governor, scans, icon and claim |

The twelfth run, `fedmsg_v_edit`, is a refutation (section 5). Each run takes at most two
and a half minutes on two cores.

**Type invariants.** Every component module has one (`TypeOK`, `PresenceTypeOK`, `StoreTypeOK`,
`UploadsTypeOK`). It is proved and therefore not listed with a run.

**Why the bounds are enough.** The interesting cases need two of something and sometimes a
third to be affected by it:

- `gateway`: two sockets let one overlap the other (half-open reconnect, adoption of the first
  one's buffer); a buffer of one makes READY plus one event wrap, so every
  replay is at the limit; two events put one before and one after the READY
  query, or before and after the close, and change the server row or not. A larger instance (3 sockets, 1 event, 3.5 million
  states) was checked as well: a third socket resumes what a second one adopted.
- `sessions`: with a cap of one and three sessions two prunes overlap
  while a third session is over the cap; two handlers race for one token, and
  the third session of a lineage needs a successor of a successor. Two
  passwords are before and after the change; both handlers can hold the one link.
- `presence`: two handlers overlap, two sockets tell "a socket" from "the last
  socket", two versions tell the latest from an older one, one restart hits any point.
- `peering`: three initiations give a crossing pair and a repetition; one revocation and one loss
  can hit any of them. The capability sets differ, so an intersection shows.
- `fedmsg_relay`: attempts are three as in the code, and two failures exhaust all but one, so
  a late handling can meet both its retry and the next change. Protocols with fresh nonces (DMs)
  are other values of the constants; the proofs cover them.
- `membership`: the limit of two uses is below the number of admissions tried
  (members may be kicked and return); one handler each for join, ban and
  cleanup is the triple in which each overtakes the others.
- `login`: two handlers overlap in every pair of steps; eight in a behaviour reach a threshold of
  two, a lock, its end and the next failure, or enrolment, disabling, enrolment and a login. Three
  slots hold the window of the check; two secrets and two sets tell the old enrolment from the new.
- `dm`: two opens are the pair at one end or the crossing pair; with two attempts and one failure a
  late handling meets the retry, and one message can overtake its channel.
- `store`: two items tell a change that an answer missed from one it saw; three changes are an
  addition, a removal and a return of one item, whose events may cross.
- `roster`: it starts from mirrors that exist and from at least one guest on them, because the first accept
  rolls back (section 5). Two changes of one object can overtake each other or be merged over each other, of the
  same field or of two; two guests are the last user and the one before; `MaxEvents = 4` counts the initial state's number.
- `uploads`: with two slots two uploads hold, a third waits, and the fourth arrives as the third is
  woken. In the file's life two of each handler overlap, and of two restarts one can be the API's and
  one the worker's, or both can hit one scan.

`CHECK_DEADLOCK FALSE` is set where the system may stop: bounds run out, and a
system in which nobody does anything is in order. `membership` cannot stop (a
handler that lists bans can always run), so there it is not set. Symmetry is used only over
handler slots, sockets of presence, reset links and the fields and the peer's users of `roster`, only in runs without liveness
properties.

**Fairness.** `Gateway!FairSpec`: weak fairness of each socket's handshake
continuations, of the close event of a socket one side has left, and of fan-outs that
await a permission query: the event loop runs whatever is ready, and TCP or the
heartbeat sweeper ends every half-open socket. Nothing is assumed of the browser's
reconnects, of publications or of expiry. `Peering!FairSpec`: envelopes that are not lost
arrive (`Deliver`) and handlers run on (`Write`); admins need never act.
`FederatedDm!FairSpec`: handlers run on (`Handle`, `FanOut`), the worker takes its jobs
(`Dispatch`), an envelope that arrived is handled (`Apply`); nobody needs to post, and a crash or
an unanswered attempt may happen any time within its bound. `WebStore!StoreFairSpec`: a GET is
answered and its answer applied (or it fails first); nothing is assumed of the publication of
events or of the socket. `Uploads!Fairness`: handlers go on, a woken waiter runs, the worker takes
jobs; a PUT may last for ever, and no restart need happen. All
other properties are safety properties, and fairness plays no part in them.

## 5. What the code does against its own documents

One refutation is kept as a run: `fedmsg_v_edit` shows `EditsConverge` violated, because a room's edits
share one job id and the second is taken for a duplicate of the finished first one
(`PROJECT.json` quotes the sentence it refutes).

The properties below are stated in the modules, with comments, and are refuted in seconds: take
the component's configuration, put this property in the place of its properties, no symmetry for an action
property, and change constants as said (a dash: as they are).

| module | property | constants | what happens | the sentence |
|---|---|---|---|---|
| `Gateway` | `ResumeCatchesUp` | - | the buffer of a closed socket is stashed once; what is published before RESUME is in no buffer, and RESUME sends no READY | `gateway/index.ts:72` |
| `Gateway` | `ReadyRepopulates` | - | READY carries server rows only and the client fetches nothing on it; messages, channels and members published while no socket was registered stay unknown | `gateway/index.ts:353` |
| `Gateway` | `ServerRowIsLatest` | - | a SERVER_UPDATE fanned out while READY is built is overwritten by the READY's older row (and one fan-out may overtake another) | (the client's assumption, `realtime.ts:140`) |
| `Gateway` | `ClientNotAheadOfStream` | 3 sockets, 1 event, `BufferMax` 2 | the client sends the new session's id with the old session's number when its fresh READY was lost; nothing is replayed | `gateway/index.ts:326` |
| `Gateway` | `MonotonicSequence` | 3 events, `BufferMax` 4 | a fan-out that resolves after the close writes into the array the orphan shares; after RESUME its number is given again | `gateway/index.ts:14` |
| `Gateway` | `ClosedSocketIsUntracked` | - | a socket that closes during IDENTIFY's lookup is registered after its close, for ever | `gateway/index.ts:90` |
| `Sessions` | `PruneKeepsCap` | - | a prune that rests on an old count revokes sessions within the cap | `auth-service.ts:867` |
| `Sessions` | `RevokeOthersIsNoReuse` | 2 sessions | after revoke-others the caller's own refresh is classified as reuse | `account.ts:132` |
| `Sessions` | `ActiveSessionKnowsPassword` | 2 sessions, 3 passwords | a staged token is bound to no password and revoked by nothing: its second step issues a session after the change revoked them all; so does a login or refresh past its checks | `auth-service.ts:778` |
| `Sessions` | `ResetLinkSingleUse` | 2 sessions, 3 passwords | two resets that read the link before either commits both take effect | `routes/auth.ts:231` |
| `LoginGate` | `FailureNeverLowersCounter` | - | a failure that read the counter before another one wrote it writes a lower value | `auth-service.ts:394` |
| `Presence` | `AllClosedIsOffline` | 1 handler, no restart | the count goes up with each socket and down only with a user's last one; after two tabs the user never goes offline | `presence-service.ts:18` |
| `Presence` | `OpenIsNotOffline` | no restart, 4 writes | an overlapping disconnect writes offline over a reconnect | `presence-service.ts:19` |
| `Presence` | `AudienceSeesLiveStatus` | no restart, 4 writes | a presence broadcast carries the custom status it read before an `await` | `presence-service.ts:235` |
| `Peering` | `RevocationIsMutual` | 1 initiation, no loss | the peering route answers 400 to `peering.revoke`, so the other side stays peered | `docs/federation-operations.md:140` |
| `Peering` | `LostAcceptIsPickedUp` | 1 initiation, no revocation | a lost accept is never sent again | `docs/federation-operations.md:118` |
| `Peering` | `NoUnrevoke` | 1 initiation, no loss | an approval that had read the row overwrites a revocation | `docs/federation-operations.md:140` |
| `Peering` | `NoAcceptReopens` | 1 initiation, no loss | the second read of an accept takes no lock; a revocation that commits between it and the update is overwritten with `peered` | `federation-peering.ts:274` |
| `Peering` | `HandshakeCanStartOver` | 2 initiations, no loss | the unrevoked side cannot approve the second handshake | `docs/federation-operations.md:140` |
| `Peering` | `CapabilitiesAreSymmetric` | 1 initiation, no revocation, no loss | the approver intersects with what was asked for, not with what the initiator keeps | `federation-peering.ts:209` |
| `FederatedMessage` | `DeletesReachAll` | no edit, failure or crash | the home relays creates only | `federation-outbox.ts:480` |
| `FederatedMessage` | `EditsConverge` | `Author` = home, `FreshNonces` TRUE, 2 edits, no failure | edits are applied in the order of arrival | `docs/federation.md:22` |
| `FederatedMessage` | `OvertakingIsRetried` | as before, 1 edit | the 404 of an edit that overtook its create is a permanent failure, as every 404 is to the dispatcher | `federation-inbound.ts:1037` (of a message that overtook its channel) |
| `FederatedMessage` | `TombstonesAreEmpty` | `Author` = home, no failure | an edit checked before a delete writes its text into the tombstone | `federation-inbound.ts:1673` |
| `FederatedDm` | `Reconciled` | - | opens that cross leave each end with the channel of its own; both refuse the other's with 409, and nothing reconciles them | `federation-inbound.ts:3248` |
| `Membership` | `AnsweredJoinIsMirrored` | - | the snapshot names the joiner, whom the accepting instance looks up as a remote user of itself; the mirror is rolled back after the home has committed | `routes/federation-invites-accept.ts` |
| `Membership` | `BannedIsNotMember` | - | an overlapping ban and join leave a banned member | `invites.ts:350` |
| `Membership` | `CleanupSparesBans` | - | the cleanup of an expired ban deletes, by key, the one that replaced it | `ban-service.ts:254` |

For eight of them the proofs say where the blame lies: with one handler at a time, and everything else as it is, the
sentences of `PruneKeepsCap`, `ActiveSessionKnowsPassword`, `ResetLinkSingleUse`, `FailureNeverLowersCounter`, `OpenIsNotOffline`,
`AudienceSeesLiveStatus` (until a restart), `BannedIsNotMember` and `CleanupSparesBans` are theorems (section 6), that of
`ActiveSessionKnowsPassword` for an account without a second factor: a staged token breaks it with no overlap at all. It is
overlap, and nothing else, that breaks the others.

Some disagreements are in the models as the exceptions their properties name, or as guards that never hold:

- *Gateway and tab:* a MEMBER_ADD that arrives while a fetch answered before the join is on its way leaves the
  roster without the member; the comment in `realtime.ts` counts on the refetch already running (`WebStore`).
- *Roster:* `docs/federation-operations.md:428` has member changes mirrored, but the peer refuses, for good,
  a `member.add` signed by the joiner or an admin and a `member.remove` of a moderator who is not the owner
  (`Accepts`). Removing a peer's own user changes nothing on the mirror (`RowAfter`). A retried
  `channel.create` brings a deleted channel back, and an update ahead of its create is refused for good. Two
  updates of one channel, of different fields, that the peer handles at once lose one of the two
  (`handleChannelUpdate` merges into a row it read without a lock, `Merge`). A join that was answered 502 after
  ten seconds, and that the home takes after a leave was answered with success, leaves the user on the
  home's roster without a mirror (`AdmitLate`, `revived`). A
  tear-down that overlaps another user's accept deletes the new member's mirror; two leaves
  that overlap leave a mirror without users. A home that has no member of the peer left sends it nothing.
- *Uploads:* a PATCH of an icon that reads the attachment before its verdict and writes after the backfill
  leaves the URL empty, the race that `server-icon.ts:53-58` says it covers (`outrun`). A second
  complete of a scanned attachment sets it back to `uploaded`, and the queue ignores the job because
  it has had that id (`reopened`). A worker that restarts during a scan leaves `processing`, which
  the retried job skips (`cut`). Two messages that pass the check together both take the attachment (`crossed`).
- *Read, not modelled:* a scan's placeholder waveform overwrites one the message brought
  (`pipeline.ts:15`); `routes/scheduled.ts` says the server checks again when a scheduled message is sent, which it
  does not, and messages more than a day ahead at a restart get no timer (`scheduler.ts:15-19`).

## 6. What is proved

All theorems hold for every value of the constants under the named `ASSUME` of
the module (`SessionsAssumption` and so on: bounds are naturals, capability sets are
subsets of `Capability`, `Home` and `Author` are instances, the owner is not a user of
the peer, a conversation has two ends). In particular they hold for any number of concurrent
handlers, sockets, users, channels and, for messages, instances. The bounds on edits, failures and the like may be any number.

| module | theorem | property |
|---|---|---|
| `GatewayProofs` | `GatewayTypes`, `StreamHasNoHole`, `RingIsExact`, `OneOwner`, `Tracked` | `TypeOK`, `StreamMissesNothing`, `RingExact`, `BufferHasOneOwner`, `OpenSocketIsTracked` |
| " (Presence) | `PresenceTypes`, `CountNeverTooLow`, `DebounceLosesNothing`, `SerialPresenceIsRight` | `PresenceTypeOK`, `CountCoversOpenSockets`, `FanOutCoversLatest`; serial: `OpenIsNotOffline`, `AudienceSeesLiveStatus` |
| `SessionsProofs` | `TypeCorrect`, `LineageNeverForks`, `RevocationsHold`, `SessionsImplement`, `CapHolds`, `SerialHandlersKeepTheirWord` | `TypeOK`, `LineageHasOneActive`, `RevocationEndsSessions`, `KeepsSessionsApart`, `CapHoldsWhenQuiet`; serial: `ActiveSessionKnowsPassword`, `ResetLinkSingleUse`, `PruneKeepsCap` |
| `PeeringProofs` | `TypeCorrect`, `NobodyPeersAlone`, `GrantsAreAdvertised`, `EnvelopesDoNotReopen` | `TypeOK`, `PeeredTakesTwoAdmins`, `GrantsOnlyAdvertised`, `RevocationHolds` |
| `FederatedMessageProofs` | `TypeCorrect`, `AnnouncedAtMostOnce`, `RelayHasNoEcho`, `DeletionIsFinal`, `Implements`, `CreateIsDelivered` | `TypeOK`, `AnnouncedOnce`, `NothingEchoes`, `DeletedStaysDeleted`, `Replicates`, `CreateReachesAll` |
| " (Uploads) | `UploadsTypes`, `SlotsHold`, `IconHolds`, `ClaimsHold` | `UploadsTypeOK`, `SlotsAreUsed`, `IconFollowsScan`, `PostedKeepsFile` |
| `MembershipProofs` | `TypeCorrect`, `InviteBounded`, `BansHold`, `UsesAdmit`, `SerialHandlersKeepBans` | `TypeOK`, `InviteIsBounded`, `BannedMemberIsExcused`, `UsePerAdmission`; serial: `BannedIsNotMember`, `CleanupSparesBans` |
| " (WebStore) | `StoreTypes`, `RosterHolds`, `RoomHolds` | `StoreTypeOK`, `RosterIsCurrent`, `RoomIsCurrent` |
| `LoginGateProofs` | `TypeCorrect`, `CodesAreSingleUse`, `CountersAreExact`, `EnrolmentIsUsable`, `SerialHandlersCountExactly` | `TypeOK`, `CodeLogsInOnce`, `FailuresAreCounted`, `EnrolledIsUsable`; serial: `FailureNeverLowersCounter` |
| `FederatedDmProofs` | `TypeCorrect`, `OneChannelPerEnd`, `EndsAgreeUnlessCrossed`, `ArrivalsBelong`, `AcknowledgedStays` | `TypeOK`, `OneConversation`, `SplitOnlyByCrossing`, `ArrivedBelongs`, `AcknowledgedIsStored` |
| `FederatedRosterProofs` | `TypeCorrect`, `MirrorConverges`, `LeavesHold`, `JoinsHold`, `MirrorsHaveUsers` | `TypeOK`, `MirrorIsCurrent`, `LeftIsGone`, `JoinedIsOnMirror`, `NoOrphanMirror` |

A theorem marked "serial" assumes one handler slot (`Request = {slot}` and the like) and proves what section 5
refutes of two: it locates the cause of the refutation, and is no promise about the running system. All others
are for any number of slots.

None of the safety invariants is inductive as it stands. What is added:

- **Gateway.** `NothingIsMissed` is `StreamMissesNothing` before the system settles: the browser that holds a
  registered socket was told of each event published since, or a fan-out that has not passed the socket yet will
  bring it; and, if the stream began with its READY, the same holds of the present server row, or the READY under
  construction has read that row or has yet to read. It needs `OwnArray` and `BufferHasOneOwner` (until a socket closes nobody else
  dispatches into its array), `SocketsBelong`, `NothingFromTheFuture` and `UnusedIsBlank`. The steps fall into
  classes, each with its lemma: those that leave streams alone (`QuietStep`), those
  that dispatch one frame (`Dispatched`), adoption, and publication. `NextTarget` skips only sockets that are not
  identified, and what a running fan-out has already passed was published before the socket was registered; its row is in the READY still to be read.
- **Sessions.** That one session of a lineage is active says nothing of the refresh that has
  revoked it and not yet created the successor. `SuccessorIsOnlyHolder`: a
  lineage is held either by its active session or by exactly one such refresh;
  `RefreshKnowsLine` ties a refresh before its rotation to the session it read,
  `LinesExist` says lineages start with sessions that exist. The step that matters is
  `RefreshRotate`: its conditional update succeeds only on an active session, so
  by the invariant nobody else holds the lineage. For the cap, `PruneOwed`: while more sessions
  than the cap are active (and no prune has been lost) some prune `WillHoldCap`: it has not counted yet, or counted at least
  as many too many as there are now, or has picked so many that the others are within the cap. Revocations by
  others only help it; a new session brings a prune of its own. `LowestTaken` says what picking
  the oldest leaves. For revocations, `NothingCarriedOn`: no handler about to create a session carries on one that had to go,
  because the rotation before it succeeded on an active session, and nothing in `swept` is active.
  For `SessionsImplement`, `LineageInv` makes `Held` of a lineage empty or one session, and the steps fall into three: a
  rotation is a `Spend`, a creation a `Start` or an `Issue`, and a revocation an `End` or a `Change`. `EndsLineages` says that
  a step which only ends rows ends whole lineages; `PassingKept`, that a handler which neither starts nor ends as
  a lineage's holder leaves `Passing` as it was.
- **Presence.** `Counted`: the count lies between the open sockets and the sockets ever
  used. `FanOutOwed`: the current version has been sent, or a timer, a fan-out
  in flight or a handler past its write still owes it. Every step passes the debt on.
- **Peering.** `Backed`: each envelope, each handler between its read and its write and
  each row is justified by what admins have done (`EnvelopeBacked`, `HandlerBacked`,
  `RowBacked`). Handlers must be in it because they write what they read
  earlier, whatever happened to the row since. `RevocationHolds` needs the types only: of the steps that can make a
  handler one that is past its check, none is enabled on a revoked row.
- **FederatedMessage.** `Routed` (`Outward`, `Sendable`): the jobs and envelopes leave the author or the
  home, never towards the author; `Counted`: an instance has announced exactly if
  it has a row, and what is past its checks has seen one. `DeletionIsFinal` is an
  action property that follows from the same invariant. `Implements` adds `Sourced`: whatever text is
  anywhere under way the author's row has had, and a delete is under way only after the author's. With it
  each action of the model is a step of `ReplicatedMessage` or leaves its variables alone. For
  `CreateReachesAll`, `Covered`: without a crash, an instance without the message has it coming by a fan-out or
  a job, or the home, which will relay it, has not got it yet. `CreateJobsLive` keeps that promise through retries: an
  active create has an envelope that will be answered, and a finished one delivered or used up
  its attempts; `OneJobEach` ties an answer to its job.
- **Membership.** `RacesExcused`: an admission that has passed its check while a ban of
  the user is committed, or a ban that has read "no member" of someone who is
  one by now, has left its mark in `excused`; `Targets` says whom a handler can
  aim at. `UsePerAdmission` follows from the types: a commit is for someone who
  is not in.
- **WebStore.** What is shown of an item is what the API has, or an event newer than what was shown
  is still to be dispatched: `AnswersAreCurrent` says it of the one live answer (`OneLiveGet`), `ListIsCurrent` of
  the list. `NewestAgrees` makes the last of those events bring the row's value; `NumbersAreSpent` orders them.
  At rest nothing is to be dispatched, so the list is current.
- **Uploads.** Four parts. The line (`LineIsKept`, `SlotsAreCounted`): it holds each waiting upload exactly once, and
  while it is not empty, slots taken and waiters woken make up the limit. The claims (`ClaimsAreMarked`):
  who checked an attachment that has an owner by now has left a mark in `crossed`. The jobs (`JobsAreAsked`,
  `JobsAreInStep`): every job and report goes back to a complete of its own, so an attachment completed once and
  not cut short is under one of them, in step with its status. The icon (`UrlsAreCurrent`): what is stored, or about
  to be stored, `Shows` the attachment: it resolves to it, or a backfill still to come will say so.
- **LoginGate.** `SpentStaysSpent`: a slot that ended in a session is at or before the row's last accepted
  one, and a spent backup code is in no list and in no set still to be generated; the conditional
  updates then find nothing. A counter lacks exactly the failures whose write was lost as long as the rows the handlers have read are
  the current ones (`EnrolmentReads` for the enrolment columns), which is what not being `raced` says.
- **FederatedDm.** Rows only grow (`RowsGrow`), every job, envelope and fan-out is backed by a row at its sender
  (`JobsBacked`, `NetBacked`, `FanoutsBacked`), every open by what it found (`OpensBacked`), and a message's number names one message (`OneNumber`).
- **FederatedRoster.** `Copies`: `Numbered` (what is sent carries the number of its change, and a field's
  last number says what its value is) and `Tracked` (a change of a field that the peer has not seen is under way or in
  `missed`, and one it applied last is what the field says). `Requests`: `Joins`, `Leaves` and `Inhabited` follow each request of a guest over both instances.

The serial theorems add what one handler may rely on: what it has read is so when it writes. For the sessions, without a second factor,
whoever is about to issue knows the current password (`PasswordInv`); a checked link is live (`LinkIsLive`) and a prune's count and pick are exact (`PruneIsCurrent`, with `BelowAndAbove` for the
number of sessions outside the oldest). For the login gate `ReadsStand` covers the three groups of columns; a password reset, which
is no handler there, may only lower a counter. For presence `ShownOnline` and `StatusKnown` follow the stages
of the handler, and `Counted` excludes "offline" over an open socket. For the bans nobody is `excused` but an admin's guest
(`OnlyGuestsExcused`), and no cleanup holds a ban that has become active (`PrunesNoBan`).

The proofs have the same layout throughout: lemmas on the operators that change state
(`EndedRevokes`, `SetRowResult`, `ApplyResult`, `AdmitType`, ...), the initial
state, one step per action of `Next`, and a temporal step by PTL.

**Only model-checked.** Liveness: `EventuallyUpToDate`, `HandshakeCompletes`, `OpenGetsThrough`,
`LoadingEnds` and `ScansSettle` rest on fairness, whose `ENABLED` the provers do not treat. Every other
property of a passing run has its theorem. What the theorems say of the
streams, queues and lines, which are sequences, is said of each position by an index, so that
no proof needs induction over data.

## 7. What the models leave out

- *Gateway:* several API processes (the broker's Redis path gives no ordering across them),
  event audiences and permissions (all published events concern the user;
  `shouldDeliver` only decides later), heartbeats as time (a sweep may happen at any
  time), message contents. The server rows of a user are one row; a route's commit and its publication
  are one step (READY could carry a row whose event is still to come). The fields READY does not carry, which the
  client blanks until it has fetched `/servers`, are not told apart.
- *Sessions:* registration beyond the session it issues, the token's bytes, expiry by time. Lockout
  and the codes of the second factor are in `LoginGate`.
- *LoginGate:* passkeys and single sign-on, the rate limits in front of the routes, mails.
- *Presence:* opt-out of federated presence, expiry of a custom status, the receiving
  instance's comparison of timestamps.
- *Peering:* keys, signatures and the nonce log; status `blocked`, which nothing writes.
- *FederatedMessage:* attachments, reactions, moderator deletes (they do not leave the
  instance), the queue's in-process fallback without Redis, revocation while jobs
  are queued, forgetting of finished jobs. It starts from mirrors that exist, as the
  integration tests seed them.
- *Membership:* role hierarchy, raid lockdown and join gates (checked before the
  transaction), the removal of a banned user's messages, several invites and servers. Leaving a
  mirror and the fan-out of later member changes are in `FederatedRoster`.
- *FederatedDm:* group conversations (they do not federate), blocks, edits and deletes (in
  `FederatedMessage`), forgetting of finished jobs.
- *FederatedRoster:* a peer that is revoked or has federation switched off, two requests of one user to
  leave at once, categories and roles, positions, transfer of ownership, the first accept (in `Membership`).
- *WebStore:* reactions and their counts, voice and read states, typing, several pages of messages,
  several tabs, a reconnect (in `Gateway`).
- *Uploads:* limits, formats, thumbnails, waveforms, expiry and its clean-up, serving of files, the admin's
  storage pages, a database or storage that fails.

## 8. Plan

In order of importance; the first fourteen are done.

1. `Gateway`, 2. `Sessions`, 3. `Presence`, 4. `Peering`, 5. `FederatedMessage`,
   6. `Membership`, 7. `ReplicatedMessage` with the step simulation, 8. `LoginGate`,
   9. `FederatedRoster`, 10. `FederatedDm`, 11. `WebStore` and 12. `Uploads`;
   13. theorems for the safety properties of all of them.
14. `AccountSessions`, a lineage as a single token that moves, implemented by `Sessions`, with the
    step simulation proved from `LineageInv`; theorems that locate the refutations in overlaps.
15. `Scheduler`: scheduled messages over restarts and timers. Properties: sent at most once unless a
    crash falls between the post and its record; what is pending and near has a timer.
16. `Reactions`: toggles without nonces against their job ids.
17. `Permissions`: resolution as pure operators against a reference definition over all
    small sets of roles and overwrites; the hierarchy rule as a theorem.
18. `Encounter` and `Deck`, `Polls`: counters and positions under concurrent requests.

The number of listed runs is kept at a dozen: a new module takes the place of a listed
refutation, which then joins the table of section 5.

Not planned: parsers (dice, slash commands, imports), cryptography and canonical JSON,
media transcoding, LiveKit, presentation, migrations, bulk export. They have no
protocol state of their own, or their correctness is outside this repository.
