# Ponder live rooms: TLA+ models, checks and proofs

Ponder is a social application around live rooms.  Its core logic is what keeps
a room consistent while people join, drop out, are seated, demoted and ejected:
an authoritative state machine at the edge (the *Room Brain*), replicas of it in
every browser, and a media side that follows its authority.  This directory
models that core, checks it with TLC and proves the main results with TLAPS.

## 1. Inventory

| Part | State it keeps | Operations | What is hard about it |
|---|---|---|---|
| Room Brain domain (`packages/domain/src/room-brain*.ts`) | the room: sequence, lock, roles, speaker queue, reactions; the window of idempotency keys | nine commands; envelope check; command authorization | orders of commands nobody tried; retries whose key has left the window |
| Room Brain edge actor (`services/room-brain-worker`) | in storage: room, keys, connection registry; in the runtime: hibernating sockets | upgrade, message, close/error, moderation action, media grant | overlapping sockets of one user, late closes, ejection while re-joining, a send that throws in mid-broadcast, two writes of which one fails, restarts |
| Browser client and replica (`lib/realtime/roomBrainClient.ts`, `room-brain-client-sync.ts`) | socket, replica status and room, reconnect timer | start, stop, sendCommand; open/message/close events; timer | gaps, stale snapshots, reconnects with messages under way, stop during an awaited ticket |
| Ticket endpoint (`realtime-token`) | none (it creates the membership row) | POST | a ticket outlives the facts it was issued on |
| Media decision and coordinator (`room-media-session.ts`, `roomMediaSessionCoordinator.ts`) | desired and joined role, publications, revisions | room updates, microphone and camera requests, stop; one worker | authority changes while a provider call is awaited; failed leaves |
| Media provider sessions (`media-session` route, `roomMediaProviderSession.ts`, SQL) | one row per provider participant: current, revoked, reconciliation lease | exchange, revoke user, revoke room, reconcile | concurrent exchanges, revocation during an exchange, crashes between intent, provider call and mark |
| Membership, leave, ejection, demotion (`roomMembership.ts`, routes, SQL) | membership row, audit rows | ensureActive, markLeft, hostEject and the routes around them | read-then-write races; three systems that fail one by one |
| Lifecycle and provisioning (`liveRoomLifecycle.ts`, `roomMediaProvisioning.ts`) | room status, meeting mapping, provider meeting status | create, open, close, moderation close | concurrent provisioning, failing compensations |
| Connections and discovery (SQL) | connection rows, impression batches, outcomes, presence leases | request, accept, record, heartbeat | mutual requests, rate limits, expiring batches |
| Identity and access, matching, translation, wallet, mobile, demos | see `PROJECT.json` | | mostly sequential |

How they interact.  The browser asks the ticket endpoint for a token, opens a
WebSocket to the edge actor with it, receives a snapshot and then broadcasts,
and sends commands under the sequence it last saw.  The backend relays
demotions and ejections to the actor over HTTP.  The replica's room feeds the
media coordinator, which asks the backend for a media capability (signed by the
actor for one sequence), exchanges it for a provider participant and leaves when
the room takes the authority away.  The database rows of memberships and
provider sessions are what the backend revokes by.

What makes each part correct: one history of rooms that every page follows;
no command applied twice; nobody moderates without a moderating token; the
registry of connections tracks the sockets; an ejected user is disconnected; a
media session exists only under current authority and never without a handle to
revoke it by.

## 2. Modules

```
RoomBrain             operators: commands, authorization, envelopes
  RoomBrainProtocol   abstract specification of the actor (room, recent)
    RoomBrainReplay   + history variable: the accepted envelopes
  RoomBrainWorker     the Durable Object; implements RoomBrainProtocol
    RoomSync          + browsers and channels; implements ReplicatedRoom
    RoomAccess        + membership rows, tickets and the backend's routes
  ReplicatedRoom      abstract specification of what the pages show

RoomProvisioning      a room's row, its meeting and the mapping between them
Connections           connection requests as database transactions
MediaCoordinator      the browser's media session worker
MediaSessions         the server's provider sessions of one user

RoomBrainLemmas                      lemmas about the operators
RoomBrainProofs                      theorems about Protocol and Replay
RoomBrainWorkerProofs                theorems about Worker, and the refinement
MediaCoordinatorProofs               theorems about MediaCoordinator
MediaSessionsProofs                  theorems about MediaSessions
RoomCompositionProofs                theorems about RoomAccess and RoomSync, whose
                                     object is Worker's, and the refinement
RoomProvisioningProofs               theorems about RoomProvisioning
ConnectionsProofs                    theorems about Connections
MC*.tla, MC*.cfg                     instances for TLC
```

Every definition that stands for code names its lines under `map` in
`PROJECT.json`.

**RoomBrain** is the pure state machine.  `Accepts` collects the conditions under
which `applyRoomBrainCommand` does not throw, `Effect` what each branch changes,
`Applied` adds the sequence.  `Authorized` is `authorizeRoomBrainEnvelope`
against the role of the token, which the ticket endpoint sets to host for the
creator and viewer for everyone else (`TokenRole`).  `ClientCommands` excludes
demotion and ejection, which `decodeCommand` does not let through from a socket.
`Verdict` is the order in which `applyRoomBrainEnvelope` looks: key, sequence,
command.  A reaction is a member of a small set.

**RoomBrainProtocol** is the promise: a room changes by one accepted command at a
time, and besides the commands of clients and moderators only by the join and
leave the actor applies on a first and last connection.

**RoomBrainReplay** adds the log of accepted envelopes and offers every envelope
with every sequence that ever was current, any number of times.

**RoomBrainWorker** has one action per handler and outcome.  `Connect` is the
upgrade (refused, further connection, first connection, half stored), `Message`
is `webSocketMessage`, `Close` is `removeConnection`, `Moderate` is
`applyModerationAction`.  `room`, `recent` and `presence` are what the code keeps
in storage, `socket` what the runtime keeps.  `sent` and `reply` are outputs of the
handler that ran last; no guard reads them.

*Tickets and sockets.*  The registry knows `connectionId`s, which come from tickets
(`IdOf`), and nothing marks a ticket as used: `claimRoomBrainPresence` accepts a
registered id, at the limit too, and `fetch` opens another socket
(`docs/ROOM_BRAIN_EDGE_RUNTIME.md:21` speaks of a 60-second replay window).  The
client under `src/` asks for a ticket per connection, but the object does not rely
on that and neither does the model: any number of sockets of one ticket may be
opened, and share one registry entry.  What follows from the code is that

* the limit counts tickets, not sockets;
* the end of one of these sockets takes the entry away and, if it was the user's
  last, removes the user, while the others are open.  Such a user stays connected
  outside the room and may join again by command, and the ends of the other
  sockets, which find no entry, remove nobody.

`Undisturbed(c)` says that no other socket of the ticket of `c` has ended or was
refused.  `ConnectionLimitHolds`, `LateEndKeepsUser`, `PresenceTracksSockets` and
`NoGhosts` hold up to sockets that are not, and say so.  With one socket per ticket
every socket is undisturbed.

**RoomSync** composes the actor with one `ManagedRoomBrainClient` per user.  `up`
and `down` are the messages under way on each socket, in order.  `Upgrade`,
`Deliver`, `ConnectionLost`, `Reconnect`, `Stop` and `SendCommand` are the methods
and event listeners of the client, `Return` is the page opened again, with a client
of its own while the socket of the one before may linger; `Received` is `applyRoomBrainServerMessage`.

**ReplicatedRoom** is the promise to the pages: one history, never backwards.

**MediaCoordinator** is `RoomMediaSessionCoordinator`.  `intent` joins the decision
derived from the replica, the user's wishes, `stopped` and `desiredRevision`.
JavaScript runs a pass without interruption up to its first `await`, so `Pass`
computes where a pass comes to wait (`reconcileOneStep` with the helpers it calls),
and the worker's actions are the continuations after each `await`, one for the
call that succeeds and one for the call that fails.  `joinedRole` and `enabled`
are what the class believes, `session` is what the provider's handle stands for: a
leave that fails may have ended it or turned publications off, a device call that
fails may have switched the device.  A join that fails leaves the meeting, swallows
a failure of that too and keeps no handle (`realtimeKitMediaProvider.ts:81-88`): a
session may live on (`stray`) that no later call of the code can reach, and the next
join runs beside it.  The properties are about the session with a handle.
`updateRoomBrainState`, the requests and `stop` act between any two steps.

**MediaSessions** is the server side of one user's media in one room: requests to
`media-session` (`exchange`), revocations after a leave, an ejection, a demotion or
a closure (which lists the rows of everyone, under a bound of its own: `MaxHandles`)
and the scheduled reconciliation (both `job`), which run in different processes.
A step is one call to what they share: the rows of
`room_media_provider_sessions` (`row`), the provider (`participant`), or the Room
Brain, of which only the sequence and the presence of the user matter
(`authority`).  `Begin` to `Deliver` are the calls of the POST handler and of
`replaceTrackedMediaProviderSession` in order; `List`, `Take`, `RevokeTarget`,
`MarkTarget` those of `revokeTrackedSessionsBestEffort`; `Claim` is
`claim_room_media_revocations`.  Every call has a failing counterpart that may have
taken effect or not, and every process may die between two calls
(`ExchangeDies`, `JobDies`).  An exchange whose participant could not be registered
and not be deleted ends without a row ("manual cleanup required"); its browser gets
no credentials.  A row goes from tracked to revoked, with a requested
and a leased reconciliation in between; attempts and backoff are folded into
`LeaseExpires`, retries of one call into its failure.  Left out: the reads of
membership and room before the capability (they change nothing), the batch limit
of the claim (a pass claims all that is due), and the comparison of roles beside the sequence (a role changes only with the
sequence).

**RoomAccess** composes the actor with what decides who may reach it.  `member` is
the row of `room_members`, `ticket` the user of the live Room Brain token with each
connection id, and the processes are ticket requests
(`entry`), leaves (`departure`) and the host's ejections and demotions (`removal`).
`EnterReads`, `EnterInserts` and `EnterReactivates` are the calls of
`ensureActiveMembership`, whose reads, inserts and guarded updates other requests
may cross; `LeaveReads` and `LeaveMarks` those of `markMembershipLeft`.
`EjectionPersisted` is `host_eject_room_member`, `RemovalAnswered` the relayed
moderation action with the one repetition of an ejection that met another sequence.
`Arrives` is an upgrade, which looks at nothing but the ticket and leaves it valid;
it ends with `TicketExpires`.  Each call may fail
with or without effect (`EnterFails`, `RemovalUnanswered`, the second alternative of
`EjectionPersisted`), each process may die.  `outcome` is history: what the host has
been told of an ejection, and whether anything issued before it was left.  Left
out: audit rows and reasons; the revocation of media sessions, which is
`MediaSessions` and here only a place a removal passes; the creator's membership,
which no ticket of the creator needs.

**RoomProvisioning** is the life of a room: creation (`CreateRow`, provisioning,
`Open`), closure by its creator or a moderator (`Close`, `Evict`, `Locate`,
`Disable`) and the compensations between them.  `status` is the row of `rooms`,
`mapping` the row of `room_media_provider_mappings`, `meeting` what the provider
holds.  `Find` to `ActivateFails` are `ensureRealtimeKitMeetingProvisioned` and
`compensateCreatedMeeting`, `Locate` and `Disable` are
`deactivateRealtimeKitMeetingForRoom`.  No route calls the provisioning of one room
twice, though the function is written for that; the model offers it
(`ProvisionAgain`), and properties that are about the routes exclude it by name
(`again`).  Left out: titles and limits, audit rows, the archived status, which
nothing writes.

**Connections** is `request_connection_from_resonance`, a call of which is one
transaction under READ COMMITTED; a step is one of its statements, in the order of
the function: the reads of the two rows (`ReadOutbound`, `ReadInbound` with what
follows from them, `Continuation`), the guarded update of an inbound request, the
advisory lock, the count, the insert, the check of `record_resonance_outcome` and
the commit.  `connection` holds committed rows only; what a transaction has written
is in its `request` record until `Commit` and makes other writers of that row wait
(`IsFree`).  `now` is the time a transaction began, which is also the `created_at`
of the row it inserts and the end of the window it counts, however long it waits
for the lock.  Any statement may raise (`AbortTransaction`, the limit and the
blocked pair included).  `Block` is the one update by a participant that the
functions expect.  The table's policy allows a participant any update of their rows;
no code under `src/` makes one, a block included, so the others (unblocking,
accepting by hand) are left out, as are direct inserts and the checks before the
first read.

### Assumptions about code that is not in the repository

* Durable Object events are atomic between storage operations (input gates), so a
  handler is one action.  It can be cut short by a `storage.put` that rejects
  (`StorageMayFail`), by a restart (`MayRestart`: sockets vanish without a close
  event, storage stays), and by `send` on a socket the object has closed, which
  throws.  Until the peer confirms, `getWebSockets()` still lists that socket,
  so a broadcast then reaches some subset of the others and the statements after
  it do not run.
* Messages on a socket arrive in order; a socket may be lost at any moment, the
  two ends learn of it separately.  Messages of a socket in closing have no
  effect.
* The `close(code)` of a browser accepts 1000 and 3000 to 4999 and throws
  otherwise (`CloseThrows`); with `CloseThrows = FALSE` the model follows the
  socket the unit tests substitute.
* Every POST to the provider creates a participant with an id of its own: the
  adapter sends only the user's id and tracks the id the provider answers.
  Deleting a participant the provider does not have counts as success.
* A call of the media SDK ends with success or failure, and one that fails may have
  taken effect or not.

## 3. Runs

| Run | Question | Bounds and why they are enough |
|---|---|---|
| `room` | queue, roles and lock under every order of commands; is an envelope ever applied twice | a host and two viewers (two are needed to disturb each other's queue places), three keys over a window of two (keys leave the window and return), five changes |
| `worker` | limit, ejection, late ends, and the refinement, when writes fail and the object restarts | two users, four sockets over three tickets (one ticket opens two sockets), limit two: one user can exceed the limit, hold two tickets' sockets and a third of a ticket used twice, lose and replace them; four changes |
| `sync` | is a replica's room the actor's room of that sequence, and does every page follow one history, whatever ejections, aborted broadcasts and lost sockets do to it | two pages, three connections of a ticket each (as the client asks for them), one message under way on a socket that sends, two keys over a window of one, five changes: enough for an ejection, under a key of its own, to leave a socket at which a broadcast stops and for the other page to run into the gap (`sync_gap` does, with one key).  `Spoken` bounds the commands of the pages to a seat request |
| `sync_live` | with storage failures and restarts but without ejections: does a live connection ever see a gap, does every change reach each connected page, do the pages still follow one history | two connections, three changes, one message under way, two keys (one is remembered, the other is free), seat requests |
| `coordinator` | joins, publications and lost changes of the media worker; does it end, does it leave or show its failure | three roles, two of them publishing (a change of role with and without the right to publish), five changes of the intent while calls are under way, failing calls |
| `sessions` | can every participant with credentials be revoked, is one at most live, what does a successful revocation mean, is a requested reconciliation carried out | two exchanges of one user, one revocation, one process that runs pass after pass (two passes at once are left to the theorems), one change of authority; a revocation that finds two handles fails (`MaxHandles`; four for a user in the code).  No bound on failures and deaths |
| `access` | does an ejected row stay, is everyone who enters an active member, is everyone in the room ejectable, is a confirmed ejection final once older tickets are gone, used or not; without faults of the storage, do registry, room and broadcasts follow the sockets | a host and a viewer, three sockets over two tickets (one opens two sockets), two ticket requests (to race each other's insert and update), one leave, one removal at a time (which can be made again and again), two of these under way at once (`TwoUnderWay`: each may meet any sequence of others at each of its steps), four changes, commands that move the sequence under an ejection.  No bound on failures and deaths |
| `provisioning` | do row, mapping and provider agree after overlapping creations and closures, is a meeting ever lost track of | one room, three requests (a creation, or two provisionings that race for the mapping, against a closure; processes are used again), three meetings.  No bound on failures and deaths |
| `connections` | does the limit hold under parallel and waiting requests, do two people who ask each other meet, can a request undo a block or record an acceptance that never was | three users, of whom one asks two and is asked by one, three requests of any of these (so two of one viewer, or two for one pair, run against each other), limit one, three points in time over a window of one |
| `sync_gap`, `sessions_unresolved`, `access_reconnect` | statements of the documentation and of a test that the code does not meet | as the runs above |

`MaxSequence` bounds the changes, `MaxUnderWay` the messages under way on a socket
that sends, `Spoken` (`RoomSync`) and `SentTypes` (`RoomAccess`) the types of
commands that clients send.  At a bound, or when every socket has been used, a model stops, hence
`CHECK_DEADLOCK FALSE` in every run but `provisioning`.  `MCRoomSync` leaves `sent` and `reply` out of the fingerprint (`View`, `LogView`):
they are outputs, already queued on the sockets.  So does `MCRoomBrainWorker`, which
keeps of `reply` what `EjectionDisconnects` reads, and `MCRoomAccess`, which also
leaves out `recent`, as every key is a new one there, and of `outcome` what its
properties do not read.  Sockets, as far as their
tickets are interchangeable, keys and equal viewers are symmetric.

**Fairness.**  `sync_live` assumes weak fairness of `Deliver` for each page: a
browser dispatches the message events of an open socket; nothing is assumed about
reconnects, tickets, commands or the actor.  `coordinator` assumes weak fairness
of `Work`: the event loop runs the continuation of a settled promise, and a call
of the SDK or a fetch settles at some time (the code has no timeout of its own).
Nothing is assumed about the room or the user.  `sessions` assumes that the
schedule starts pass after pass (weak fairness of `Claim` and `Finish`), that
leases and backoffs expire, and that the calls of passes do not fail or passes
die for ever (strong fairness of `Take`, `RevokeTarget` and `MarkTarget` of
passes).  Nothing is assumed about exchanges and revocations: they may die at any
point and never be tried again.

**Findings.**  Three runs end in a counterexample:

1. `sync_gap` - `close(1012)` throws in browsers, so the client that detected a gap
   keeps its socket and never resynchronizes.  An ejection makes gaps: it closes
   sockets, and while one lingers the next `send` on it throws in the unguarded
   loop of `broadcast`, so that other sockets miss a change that is stored.
   In the run the host ejects the viewer, whose socket lingers; the next change is
   broadcast to some, and the page that missed it meets the one after.
2. `sessions_unresolved` - an exchange registers and verifies its participant; the
   final grant fails, and so does the clean-up (`media-session/route.ts:250-269`).  The
   route answers that reconciliation is required, but requests none: the participant
   stays live behind its row until a later revocation or exchange of the user, which
   lists the row.
3. `access_reconnect` - an upgrade asks for a ticket and not for the membership, so
   a ticket signed before an ejection still opens a connection, and joins the room
   again, after the object has confirmed the ejection, until the ticket expires.  A
   ticket that was used before the ejection does so too.

Met while modelling and visible in the models, without a run of their own:

* `docs/ROOM_BRAIN_TRANSPORT.md:34` prescribes "if broadcast: send to other room
  sockets".  The code sends a change to its sender as well (`index.ts:244-246`, no
  `except`), and must: the ack carries no change, and a replica advances by the
  broadcast only.  `ChangesAreBroadcast` requires the sender to be told, as the code
  does; the broadcast of the document (`ReachableOthers`) violates `ChangesArrive`.
* A ticket used twice weakens limit, late ends and registry (section 2, tickets and
  sockets).  No document promises otherwise.
* `docs/ROOM_BRAIN_TRANSPORT.md:16` explains an ack as "command accepted and sequence
  advanced"; the code acknowledges before it stores, and a write that rejects leaves
  the sequence where it was (`MessageNotStored`).
* A join of the media SDK that fails half-way, and whose leave fails too, may leave
  a session that nothing ends (`stray`); the page shows the error of the join.
* A leave of the media worker that fails settles its revision; the worker rests,
  possibly publishing, until a later change.  `AuthorityLossLeaves` therefore says
  "left, or shows an error".
* A demotion whose answer is lost is carried out but never followed by a
  revocation of the media sessions (`AfterAnswer`).
* A leave may be marked after the same user has come back with a new ticket.  The
  row is then "left" while the user is connected, and a demotion is refused as if
  there was no such member.  An ejection still works (`EveryoneIsEjectable`).
* A room that is closed while it is being created opens afterwards, with a disabled
  meeting if the closure came late (`hurried`).  A lost answer of `markRoomOpen`
  leaves a room open with a disabled meeting, reported as closed (`OpenFails`).
* Closing a room changes nothing in the Room Brain: its sockets stay.
* Two people who ask each other at the same time are left with two pending rows,
  and no later request accepts either: a caller who has asked is answered
  "pending" before the inbound row is looked at.  `RequestsMeetUnlessCrossed` says
  that overlapping requests are the only way there.
* A request without a batch is answered "accepted" even if its update found the
  row blocked; with a batch the check of the outcome turns this into an error.

What holds in spite of them: `ReplicaAgreement` and `ImplementsReplicatedRoom`, with
ejections and aborted broadcasts (`sync`) and with failing storage (`sync_live`).  A
page may be stuck, it never shows a room that was not and never goes back.

## 4. Proofs

Every safety property of the passing runs, the action properties and the three
refinements are proved for all values of the constants.  The proofs assume only the
named assumptions of the modules: the host is a user, limits are positive, `NoUser`
is no user, no page sends a join or a leave.  Users, connections, keys, requests,
limits and faults are arbitrary; no set is assumed to be finite (where cardinalities
are compared, the invariant keeps what is counted finite: `presence` in the worker,
the rows in `Connections`).  Where a property needs a fault or an action to be
absent, the theorem says so in front of `Spec =>`.  The bounds of the runs play no
part: `MaxRevision`, `MaxUnderWay`, `Spoken` and `SentTypes` occur in no proof,
`MaxSequence` only where the abstract specification has the same guard, `MaxTime`
only as the type of the clock.

* `RoomBrainLemmas`: what `Without`, a recursive function, returns on any
  sequence (the library's induction theorems cannot be used with the installed
  provers, so the module argues from the least counterexample, `LeastNat`); each
  command keeps the room's invariant (`EffectKeepsRoomInv`, one step per command),
  the key window keeps its length and its newest entries (`RememberWindow`), and
  what each kind of actor may submit.
* `RoomBrainProofs`: from the inductive invariant (type, queue of distinct viewers,
  no moderating role without a moderating token) follow `TypeOK`,
  `QueueHoldsViewers`, `NoMintedPrivilege` and, as a step property,
  `LockedRoomAdmitsNoViewer`.  For the replay module the invariant relates the log
  to the state: every logged envelope expected a sequence below the current one,
  in strictly increasing order, and the window holds the keys of the newest log
  entries; `NoReplay` follows from the first part alone, `KeysFreshWithinWindow`
  from the second.
* `RoomBrainWorkerProofs`: `SpecImplementsProtocol` - every action of the actor,
  faults included, is a step or a stutter of `RoomBrainProtocol`.  Its invariant
  says that a socket in use has an owner.  `SpecWorkerInv` adds that the ticket of every undisturbed open socket is
  registered for its owner, from which `ConnectionLimitHolds` and `LateEndKeepsUser`
  follow even when writes fail; `EjectionDisconnects` does not need it.
  `SpecPresenceTracksSockets` adds, when no write fails and the object does not
  restart, that the registry names no other ticket than those of live sockets;
  `SpecNoGhosts` needs no failing writes only (after a restart the registry names
  sockets that are gone); `SpecChangesAreBroadcast` needs neither.  `IdOf` is any
  function, so the theorems hold for any number of sockets per ticket.

* `RoomCompositionProofs`, on `RoomAccess`: `AccessImplementsWorker` - whatever the
  backend's processes do, the object takes steps of `RoomBrainWorker` or none.  A
  relayed removal carries a sequence the room had once, and the worker's
  specification offers every such sequence, which is why the invariant bounds it
  (`RemovalsOK`).  The rest of the invariant says whose request each process serves
  (`EntriesOK`, `DeparturesOK`), that an ejection is relayed only when the database
  has it, that whoever is inside, holds a ticket or is being admitted has a
  membership row (`EveryoneKnown`, which gives `EveryoneIsEjectable`), and what a
  confirmed ejection without older tickets, used ones included, means (`ShutOut`: the
  row is ejected, the user is outside without a ticket, and requests under way have not passed the
  read).  What the worker's steps do to sockets and registry is cited from
  `RoomBrainWorkerProofs`.
* `RoomCompositionProofs`, on `RoomSync`: `SyncImplementsWorker` in the same way.
  The invariant says that the history holds the room of every sequence
  (`HistoryInv`), which connection a client in each mode holds (`ClientsInv`), that
  every snapshot under way is a room of the history and every change under way the
  step from one to the next (`DownInv`), and the same of the replicas
  (`ReplicasInv`), which gives `ReplicaAgreement`: a replica that applies a change to
  the room it has arrives at the room the object had.  `ShownInv` bounds what a page
  showed last by what its replica and its connection can still bring, so that a
  step of the composition is a step or a stutter of `ReplicatedRoom`
  (`SyncImplementsLog`), with ejections, aborted broadcasts, failing writes and
  restarts.  `SpecNoGaps` adds the order of a live connection (`OrderInv`): the
  messages under way continue the replica without a hole and end at the room of the
  object; it needs that no socket is closing, hence no moderation, and nothing else.
  The two parts share a module because they rest on the same lemmas; neither uses an
  assumption on the constants of the other.

* `MediaCoordinatorProofs`: the inductive invariant adds to the types how the
  revisions relate (a worker about to end has settled the revision of its last
  pass), what the worker may rely on where it waits (no belief in a session
  while joining, a publishing role while enabling) and that the session with a
  handle, where there is one, has the role the class believes.  `NoChangeIsIgnored`, `PublicationIsAllowed` and `JoinsAreCurrent` follow,
  for any set of roles and without a bound on the changes.  `RestingIsInLine` adds
  `Quiet`: a pass that found nothing to do, and the worker that then settles and
  rests, are in line with the intent, unless the intent moved on (then there is
  another pass) or an error is shown.

* `MediaSessionsProofs`: the properties relate processes that never meet, so the
  invariant has to say what each of them knows.  `ExchangeFacts`: what the place of
  an exchange says of its participant and row (delete before mark, track before
  deliver).  `ListsRegistrants`: a process only ends participants that were
  tracked once, so no process touches a participant before its exchange does.
  `Behind`: of two active exchanges with live participants, the one that registered
  later still lists the earlier one.  `Listing`: what a revocation that has gone
  well so far still has to end is on its list, and anything delivered since has a
  newer sequence.  From these follow `TrackedUntilGone`, `OneDeliveredLive` and
  `CleanRevocation`, for any numbers of exchanges, revocations and passes.

* `RoomProvisioningProofs`: the invariant says what a request knows at each place
  (`RequestsOK`), that a meeting is held by one request or by the mapping
  (`OwnersOK`, `MeetingsHeld`), what a closure has settled (`ClosuresOK`) and what a
  room that is not at rest still has coming (`RoomsOK`).  `OpenRoomsHaveMeetings`,
  `NoMeetingIsForgotten`, `RoomsAtRestAgree` and `ClosuresAreFinal` follow for any
  numbers of rooms, requests and meetings.

* `ConnectionsProofs`: `WriteInv` says that a row has one writer at a time and still
  is, when its writer commits, as it was when the statement read it; so `RowSteps`
  can list all that ever happens to a row, and `BlockStands` follows.  For
  `ThrottleHolds` the invariant says that a transaction between count and commit
  holds the lock of its viewer (`LockInv`) and that the count it made is still true
  (`CountInv`): nobody else inserts for that viewer, and the rows it counted include
  every window its own row can fall in, as it counts without an upper end.
  `MeetInv`: what asked and is over left a row, and who began afterwards has seen
  it.  `OutcomeInv`: what the check of the outcome saw is still there, or is in the
  transaction's own write, when it commits.  `RequestsMeetUnlessCrossed` and
  `OutcomesAreTrue` follow, for any people, calls, limits and windows.

The type invariants of `RoomBrainWorker`, `RoomAccess`, `MediaCoordinator`,
`MediaSessions` and `RoomProvisioning` are proved and therefore in no run's list.

Only model-checked: liveness (`ChangesArrive`, `ComesToRest`, `AuthorityLossLeaves`,
`RequestedIsRevoked`), which is beyond the prover, and the three counterexamples.

## 5. Plan

1. Room Brain core: done (section 2).
2. `MediaCoordinator`: done (section 2).
3. `MediaSessions`: done (section 2).
4. `RoomAccess`: memberships, tickets, leave and ejection around the actor: done,
   proved.
5. `RoomProvisioning`: create, open, close and compensations: done, proved.
6. `Connections`: mutual requests and limits: done, proved.
7. Proofs: every safety property, action property and refinement: done (section 4).
   Open: an abstract specification of the membership side of `RoomAccess` (who may
   be inside) and of the media sessions (one revocable session), with a proof that
   the detailed modules implement them.
8. Pure parts (matching order, age gate, route access): sequential functions with
   unit tests, not planned.
