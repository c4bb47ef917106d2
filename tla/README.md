# A TLA+ model of air

*air* is an end-to-end encrypted messenger: a server (`backend`, `server`)
that stores and forwards what it cannot read, and clients (`coreclient`,
`applogic`, `apiclient`) that keep MLS groups, chats and contacts in a local
database. What makes it hard is not any single handler but the way handlers
meet: two processes of one device drain the same queue, the server forgets
messages on the client's word, commits of several members compete for one
epoch, and everything may be retried, cancelled or cut off halfway.

The modules in this directory model these protocols: the delivery of queued
messages from the queuing service to a client, the competition of commits in a
group, leaving, deleting and rejoining one, connecting by username, the outbound
service and each of the queues it sends, attachments, the creation of a user,
and the tokens that pay for usernames and invitation codes. TLC checks small
instances; TLAPS proves every safety invariant that a passing run checks, and
the refinement, for any number of messages, streams, members and faults.
`PROJECT.json` maps every definition to the lines it models.

## 1. Inventory

| Component | State | Operations | Modelled |
|---|---|---|---|
| QS queue service (`backend/src/qs/queue.rs`, `pg_listen.rs`, `qs/client_record.rs`, `qs/grpc.rs`) | queue rows, queue ratchet, registry of listeners, Postgres LISTEN connection, one stream per listener | enqueue, listen, fetch, acknowledge, notify, cancel | `QsQueue` |
| QS delivery on the client (`coreclient/.../process_qs.rs`, `event_loop`, `applogic/src/messages.rs`, `util/background.rs`) | client ratchet, accumulated messages, responder | connect, receive, decrypt, handle, acknowledge, reconnect; the background handler | `QsDelivery` |
| Delivery service (`backend/src/ds`) | encrypted group state, member profiles, proposals, collision tags | group operation, send message, join, resync, self-remove, delete; fan-out | `GroupCommit` (group operation), `Membership` (self-remove, resync, delete), `Receipts` and `Outbox` (collision tags), `Connections` (joining) |
| Pending chat operations (`coreclient/src/job`, `groups`) | MLS group with its pending commit, `pending_chat_operation` row, failure flag | create, send, retry, wait, give up, merge; leave, remove, delete | `GroupCommit`, `Membership` |
| Username queue (`auth_service/usernames/queue.rs`) | rows with `fetched_by`, registry of listeners | enqueue, fetch with SKIP LOCKED, acknowledge one by one | `UsernameQueue` |
| Usernames and the connection protocol (`auth_service/usernames`, `connection_package`, `clients/add_contact.rs`, `chats/pending.rs`, `process_as.rs`) | username record, packages, keys, pending contacts and chats, connection groups | register, remove, publish, connect, offer, accept, confirm | `Connections` |
| Outbound service (`outbound_service/mod.rs`, `utils/global_lock.rs`) | run token, task, global lock | start, stop, notify work, run once | `OutboundService` |
| Unsent messages (`chat_messages.rs`, `chat_message_queue.rs`, `clients/message.rs`) | message, edits, queue rows and their locks | send, edit, delete, dequeue, send, fail all | `Outbox` |
| Receipts (`receipts.rs`, `receipt_queue.rs`, `ds/collision_tags.rs`) | queue rows and locks, collision tags | enqueue, dequeue a chat, send, collide, remove | `Receipts` |
| Reactions (`reactions.rs`, `reaction_queue.rs`) | reaction, queue of additions and tombstones | add, take back, send, defer, roll back | `Reactions` |
| Attachments on the client (`clients/attachment`, `attachments_repository.rs`) | attachment and pending records, permits, tasks | record, download, cancel, provision, upload, retry | `Attachments` |
| User creation (`clients/create_user.rs`, `clients/store.rs`) | stored creation state, client record, ratchet and own rows; AS and QS records | one step after the other, resume | `UserCreation` |
| Push notifications | tokens in client records | decide, send | effect only (`WakeUp`) |
| QS records and key packages | client, user and key package tables | create, update, publish, take | the ratchet (`QsQueue`) and creation (`UserCreation`) |
| Database locks of the client (`db/access.rs`, `utils/file_lock.rs`) | in-process and file locks | read, write, transaction | the promise is used; the global lock is in `OutboundService` |
| Authentication service | user and client records, token keys, nonces and allowance, invitation codes | register, issue tokens, redeem | registration (`UserCreation`), usernames (`Connections`), tokens (`Tokens`) |
| Privacy pass tokens (`auth_service/privacy_pass.rs`, `client_api/privacy_pass.rs`, `coreclient/src/privacy_pass`, `clients/invitation_code.rs`) | keys, nonces and allowance of the AS; keys and stock of tokens of the client | rotate keys, issue, redeem, replenish, purge | `Tokens` |
| Resync (`outbound_service/resync.rs`, `ds/resync.rs`) | resync rows, leaves and member profiles | queue, rejoin by external commit, drop | `Membership` |
| Timed tasks (`outbound_service/timed_tasks.rs`) | due times | upload packages, refresh, replenish | tokens and usernames (`Tokens`) |
| Attachment storage, relay, rate limiter | objects, streams, counters | put, get, allow | no |
| MLS layers, common types, protocols, transport | cryptographic state, encodings | | no: the source of epochs and ratchets |
| Chats, contacts, profiles; app and UI; test harness | local records, cubits | | no |

How they interact. The DS hands each accepted message to the QS
(`fan_out_message`, `dispatch`), which encrypts it with the queue's ratchet
and stores it. A client holds one listen stream per process; the server pushes
rows down the stream and ends every burst with an *empty* sentinel. The client
decrypts and handles each message in a database transaction of its own, and
sends an acknowledgement after a burst, whereupon the server deletes. A member
that wants to change a group stages a commit in its MLS group, stores it with
an operation row, and sends it to the DS; it learns the outcome twice, as the
answer to the request and as a message in its own queue. Everything else that
a client sends (messages, edits, receipts, reactions) is a row in a queue of
its database, which the outbound service works off; it is stopped while
messages are received and started when the queue is empty, and its runs in the
app and in the background handler exclude each other with a lock file.

Hard behaviours, in the order of how much they worried us:

* the app and the notification extension run at once on the same database and
  queue, cancelling each other's streams;
* an acknowledgement is irreversible, and it is sent by a party that may have
  failed halfway;
* answers to commits are lost, late, or overtaken by the queue; a retry finds
  its own commit already accepted;
* the wakeup path (LISTEN, NOTIFY, broadcast channel) is established
  asynchronously and is lossy by design;
* fan-out happens after the group lock is released;
* a leave is a proposal of one epoch that somebody else has to commit, and a
  resync moves a member to another leaf while others commit;
* rows of the outbound queues are locked by a run, sent, and removed in three
  transactions, while the user edits, deletes and queues more;
* stop and start exchange tokens with a task that may be anywhere in its loop;
* a creation, a registration or a connection is a series of local writes and
  requests with a crash or a lost answer between any two of them.

The full list, each at its line and with the properties that cover it, is
under `hazards` in `PROJECT.json`.

What makes each component correct. *Queue service*: rows are a window of the
ratchet's numbers, the newest listener owns the queue, a waiting listener is
woken. *Delivery*: no message is lost, none is handled twice or out of order,
the ratchet meets no gap, an acknowledgement covers only settled messages,
everything is settled in the end. *Group commits*: members never diverge from
the DS's order of commits, no member is left behind, an accepted commit is never
orphaned by its author, an operation is resolved in the end. *Membership*: who
has processed its queue agrees with the DS on the group and gets its messages, a
leave is not lost, who was removed stays out. *Outbound service*: it works only
between batches, what is queued is sent, nobody waits for a run that never ends.
*Outbound queues*: what is shown as sent was accepted, nothing is forgotten,
peers converge to what the user sees, every row leaves its queue. *Attachments*:
a download can be retried until it succeeds, a message refers to an uploaded
object. *Connections*: a package for one use is used once, an offer can be read,
an accepted request is confirmed. *Creation*: client and server agree on the
secrets, and an interrupted creation can be resumed. *Tokens*: a token pays
once, and a stock that runs low is filled again whatever the server does with
its keys.

## 2. Modules

```
QsQueue                     the queue service
  └─ QsDelivery             composed with the processes of one device
       └─ ReliableQueue     what both together promise (INSTANCE, refinement)
GroupCommit                 DS, fan-out, members; uses the promise of ReliableQueue
Membership                  leaving, removing, deleting the chat, resync
UsernameQueue               the queue of a username
Connections                 connecting by username, from end to end
OutboundService             when the client sends
Outbox, Receipts,           what it sends
  Reactions, Attachments
UserCreation                how a client begins
Tokens                      what it pays with

MCServer                    QsQueue and QsDelivery + UsernameQueue + Connections
                            + Tokens (invitation codes) + GroupCommit + Membership
MCClient                    OutboundService + Outbox + Receipts + Reactions
                            + Attachments + UserCreation + GroupCommit
                            + Tokens (usernames)
MCQsDelivery, MCGroupCommit, MCMembership, MCReceipts
                            model values and symmetry for TLC

QsQueue_proofs              theorems about QsQueue, with any client
  └─ QsDelivery_proofs      and about QsDelivery, the refinement included
GroupCommit_proofs          about GroupCommit
Membership_proofs           about Membership
Contacts_proofs             about UsernameQueue and Connections
Outbound_proofs             about OutboundService, Receipts, Attachments, Reactions
Outbox_proofs               about Outbox
Accounts_proofs             about UserCreation and Tokens
```

The two sums `MCServer` and `MCClient` put modules side by side that share no
variable. A product of their state spaces would show nothing that the parts do
not, so the variable `part` chooses in the initial state which module acts, and
the others stay as they are: one run of TLC checks them all. Fairness and
liveness carry over, because no action with fairness is enabled in an initial
state. In `MCServer` the QS queue is a part three times: with clients that
acknowledge and listen from any number, with the app alone, and with the
background handler alone; the two processes together have a run of their own.

**QsQueue** has one queue. A message is its sequence number, since the ratchet
gives every message one number and one key. `Enqueue` is the whole transaction
of `do_enqueue` (row, NOTIFY, ratchet), `Ack` the deletion, `Listen` the
subscription plus `track_listener`, including the cleanup of cancelled
listeners and the commands to the LISTEN task. `Prune` is that cleanup done by
another client's request. The stream is the loop of
`QueueStreamContext::into_stream`: `Begin`, `StartQuery`,
`FetchNextMessages`, `Wake`, `Stop`, with the database query as an await of
its own; `EmitMessage` and `EmitEmpty` are the transport polling it.
`PgCommand` and `PgNotification` are the two branches of the LISTEN task;
`PgCommandFails` is a LISTEN or UNLISTEN that Postgres refuses, which the task
logs and never repeats, and `PgLoss` a notification that is lost.
Identities of streams are reused once a stream is gone and no longer
registered. `fetched` and `armed` are history variables.

**QsDelivery** adds the processes. `"fg"` is the app: a stream task feeding
the event loop's `QsStreamProcessor`, which keeps what it has accumulated when
a stream ends, and learns the new responder in an event of its own
(`ReplaceResponder`). `"bg"` is `fetch_and_process_qs_messages`, started by a
push (`WakeUp`). Reading the start of the listen request from the database
(`ReadStart`) and the server handling that request (`Connect`) are two steps.
One iteration of `fully_process_qs_messages` is one step, because it is one
write transaction and the database serialises writers: `SkipReplay`,
`HandleMessage`, `RefuseMessage`, `FailDecryption`, `FailCommit`, `Abort`. What
a handler does to chats and groups is one entry of the history `handled`.

**ReliableQueue** is the abstract specification: messages are sent in order and
settled one by one in that order, each exactly once. `QsDelivery` maps `sent`
to the server's ratchet, `settled` to the set of handled or dropped messages,
and `received` to `handled`.

**GroupCommit** has one group with a fixed set of members. A commit is a
number; the history `staged` has its author and the commits it builds on, so
that a fork is visible. The DS accepts a commit that builds on its `log` and
otherwise answers *wrong epoch*, or an internal error when the epoch is right
and the commit does not verify; acceptance happens under the row lock
(`DsAccepts`), fan-out after it, one dispatch a step (`FanOut`), the author's
commit response last (`CommitResponse`). A member has its merged `chain`, the
`pending` commit of its MLS group, the operation row `op`, the flag
`pending_commit_failed`, and up to two running jobs: one for the user
interface, one for the outbound service. A job works on a copy of the group
from when it started (`base`, `flag`), as in the code. A crash forgets the
jobs; it may also fall between the two writes by which `handle_error` makes an
operation wait. Queues deliver in order and without loss, which is the
promise of ReliableQueue.

**Membership** looks at the same group from the side of who is in it. A state
of the group is the commit that led to it, with the user on each leaf; a
member's copy is such a state, its own leaf and the leave proposals it has
stored, and the DS has its state, proposals and the profile of each leaf.
`Leave` stages a SelfRemove proposal, `SendLeave` is the whole of
`execute_internal` for it (whatever the DS answers, the chat becomes inactive),
`StageCommit` and `SendCommit` are an update or a removal, `StageDelete` and
`SendDelete` the deletion of a chat, which the DS checks and fans out and does
not apply. `StartResync` is the transaction that deletes the copy and joins by
an external commit on the leftmost blank leaf; `SendResync` is the request
signed for the *original* leaf. `Receive...` are the handlers of the queue.
`overlooked` has the users whose stored proposal was cleared by a commit that
did not contain it (`ClearProposals`).
Timeouts and overlapping fan-outs of commits are left to GroupCommit: here the
DS answers and fans out in one step, and only leaves, deletions and resyncs
lose their answers.

**UsernameQueue** is the other kind of queue. A row records who fetched it
last; a query locks the rows that were fetched by others or nobody and skips
rows that are locked. The query is two steps (`QueryRows`, `FetchRows`), so
that two listeners can be in it at once. What it returns is a set: the oldest
rows that are left (`Oldest`), in no order, since UPDATE ... RETURNING promises
none. Messages are acknowledged one by one. As in the QS queue a LISTEN may
fail (`ListenFails`) and a notification may be lost (`LoseNotification`);
`unannounced` has the messages that a listener was not told of since its last
query, `skipped` those that this query left out because they were locked.

**Connections** follows an attempt of `add_contact` through its requests and
its local transaction, the owner's `add_username` and `remove_username` with
their two halves on server and client, the AS's choice of a package under row
locks, the offer in the username's queue, the owner's pending chat, the
external commit with which it joins, and the join message that confirms the
contact. An attempt, its offer, its group and its chat have one number.

**OutboundService** models the watch cell with the run token. A token is a pair
of identities for its `cancel` and its `done` half; what is cancelled or done
is in two sets. `Start`, `Stop` and `NotifyWork` are the operations; the task
sees a change, takes the global lock, works and finishes in steps of their own,
and the processor of QS events, the user, the pause of the app and the
background handler's `run_once` are its callers.

**Outbox** has the messages of one chat. A version of a message is a number; an
edit or deletion replaces the content and remembers what it replaces. The queue
gives each queued message its time (`unsentRows`). A run
dequeues, loads a copy, sends, writes the copy back and removes the row, in
separate steps with the user in between; the peer applies what the DS accepts
by the rules of `handle_message_edit`. **Receipts** has the rows of several
chats, a run that takes all rows of one chat, the collision tags of the DS
that make a message with receipts idempotent, and a sibling device that may
deliver the same receipts. The DS commits the tags in a transaction of their own
(`AcceptReceipts`) and passes the message on afterwards (`FanOutReceipts`), which
may fail without the client hearing of it (`FanOutFails`) or not happen at all
when the client leaves and the handler is dropped (`HandlerLeft`);
`undispatched` has the receipts whose tags remain of that. **Reactions** has one
emoji of one user on one message, added and taken back again; the queue is a set
of additions and tombstones, which `Before` puts in the order in which they are
dequeued. The contact may be blocked at any time (`BlockContact`): taking back a
reaction then queues no tombstone, and the loop removes rows as if it had sent
them (`CheckReaction`). **Attachments** has the incoming side (pending record,
download loop with permits, tasks that may be cancelled or opened by hand) and
the outgoing side (provision, upload, queue, send, retry with a new remote id).
The notifications of the loop wait in a broadcast that forgets what does not fit
while the loop waits for a permit (`LoseAnnounced`), a task may fail before its
first write (`FailStart`), and the loop may begin without the pending records
(`RestartUnread`). `RetryUpload` is one step, though the code provisions the new
object between two transactions.

**UserCreation** is the chain of `UserCreationState`: each step draws secrets,
writes rows, sends requests and stores the next state, and a crash may fall
between any two of these; `LoadUser` resumes. The credential that the stored
state carries is valid for ninety days (`PayloadExpires`); the AS refuses it
afterwards.

**Tokens** has the AS, which rotates its keys in three statements without a
transaction, and one user with a username. Tokens of one operation type
(`OperationType`) are modelled at a time; the other type has keys, tokens and an
allowance of its own and matters only because fetching keys stores those of both
(`ReplenishOther`). Two processes of the client use the stock: the timed tasks,
and the calls of the user. A request is served when it is sent and answered in a
later step, or the answer is lost. Time is counted in days, and none passes
during a rotation, a call or a run of a task. Three things of the code are
narrowed: one server rotates keys (a TODO in `rotate_keys_if_needed` speaks of
several); tokens for usernames have no nonces here, since `consume_token` deletes
a token before it is sent and it cannot be sent again; and the branch of
`replenish_tokens` for a partial quota is left out, as the allowance of
invitation codes is one token and that of usernames is not enforced.

### Disturbances and bounds

Faults, and overlaps that the code does not exclude but that are rare, are
*disturbances*. Each has a kind; a configuration lists the kinds it allows
(`Disturbances`) and how many may happen in a behaviour (`MaxDisturbances`).
The theorems hold for every number of them.

| Kind | What it is |
|---|---|
| `pg`, `listen`, `fetch`, `restart` | notification lost; LISTEN or UNLISTEN fails; query fails; server restarts |
| `wake`, `background`, `crash`, `break`, `connect`, `ack` | a push starts the handler; app to background; process dies; connection breaks; request fails; acknowledgement lost |
| `malformed`, `refuse`, `decrypt` | message cannot be converted; is refused by its handler; does not decrypt |
| `fatal`, `commit` | database error aborts the batch; commit of the ratchet transaction fails |
| `network`, `internal`, `dispatch` | a job's request times out (lost, or handled late); the DS fails; a dispatch to a queue fails |
| `race` | two jobs of one member overlap |
| `overlap` | the fan-outs of two commits overlap |

The other modules count their faults the same way under names of their own
(`ServiceFaults`, `ReceiptFaults`, `OutboxFaults`, `AttachmentFaults`,
`ReactionFaults`, `CreationFaults`, `ConnectFaults`, `GroupFaults`,
`MembershipFaults`, `TokenFaults`, each with a bound `Max...`; the username
queue has only a number, `QueueErrors`). Their kinds are crashes, lost requests
or answers (`network`), runs that are cancelled (`cancel`), a pending chat
operation or resync that makes the loop skip (`operation`, `pending`, `resync`,
`defer`), a generation used by a sibling device (`collide`, `sibling`), errors
that are not recoverable (`fatal`), the app moving to the background, local
deletion (`local`), expired or taken packages (`expire`, `twice`), failing
database writes (`database`), a fan-out of the DS that fails (`dispatch`), a
contact that is blocked (`block`), a payload that expires (`late`), a resync
that fails before its commit is sent (`local` in Membership), for attachments
opening by hand (`open`), an object that is gone (`expired`), a failing send
(`outbox`), a broadcast that overflows (`lag`) and pending records that cannot
be read (`unread`), and for tokens a lost answer (`lost`), a refused username or
invitation (`refused`, `quota`), a local database that stays locked (`locked`),
a failing statement of the rotation (`database`) and a crash of the server's
database (`dbcrash`).

Bounds. `MaxSeq`, `MaxCommits`, `MaxCommands`, `MaxOffers`, `MaxListeners`,
`MaxAttempts`, `MaxRequests`, `MaxToggles`, `MaxProvisioned`, `MaxStreamEvents`,
`MaxQueued`, `MaxRunOnce`, `MaxMade`, `MaxWishes`, `MaxDay`, `MaxCalls` and
`MaxOther` bound how often something happens. `MaxBuffer` and `MaxFetch`
(`MAX_BUFFER_SIZE`), `MaxRetries` (`MAX_RETRIES`), `MaxTags` (the DS's limit of
30 tags) and `NumDownloads` (`NUM_CONCURRENT_DOWNLOADS`) are constants of the
code, made small; so are `RotationPeriod`, `OverlapDays`, `RefreshAge`,
`MaxNameTokens`, `LowNameTokens` and the set `KeyIds` of truncated key ids.

Why the bounds are enough. Two streams: a third never matters to a QS queue, as
the registry holds one listener and cancels one. Two messages with batches of
two (`server`) give a full batch, a partial batch and an empty query, and with
batches of one (`device`) a query that continues after a full batch. The first
message is in the queue before anybody listens (`MessageWaits`); the second one
may come at any time, to a queue that is empty again too. One disturbance of the
queue with any client and of the app (`OneDisturbance`), two of the handler,
whose wake-up is one, and two of both processes together. Of two stream events,
a run of the handler and a fault of the outbound service three happen
(`ThreeEvents`). Among members and senders that are alike, alice makes the first
commit and carol the first attempt to connect (`AliceFirst`, `CarolFirst`).
Larger instances were checked apart from the runs without a violation: three
messages with batches of two, for any client and for the app alone (2.4 M and
2.1 M states), three offers to a username, and two faults of a connection. Two
retries let an operation be retried once and then given up. Two members are a
winner and a loser; three commits are a loss, a retry and a next operation.
Three receipts in one chat and one in another, with three tags of which one is
for the generation, give a chat with one receipt too many and a chat that is put
off while the other is sent. Two messages and three requests are an edit of an
edit with another message behind it. Two attempts of two senders compete for one
package and the last resort. Three members are one who leaves, one who commits
and one who looks on; two wishes with four commits are a leave, a deletion or a
removal against a resync that is tried more than once (three wishes were checked
once, apart from the runs: 5.6 M states, no violation). Three additions of a
reaction are one queued, one sent and one taken back meanwhile. One permit and
two attachments make one wait for the other. Two or three faults are what the
findings and the near misses needed; three interrupt a creation that is already
resumed. The days of a run of Tokens reach past the first rotation and the
removal of the first key and its nonces, so that a token meets its key, its key
beside a newer one, and no key; two calls are a call and its repetition. In the
run `client` they reach a third key, which takes the id of the first one.

### Fairness

Only the liveness properties assume any. `Fairness` in QsDelivery is weak
fairness of each stream's loop, the LISTEN task, each process, the event loop's
handling of the new responder, the arrival of acknowledgements, and the server
noticing that a client has left: tokio polls every ready task, and the app's
stream task reconnects without a limit on attempts. Nothing is assumed of
enqueueing, of disturbances or of `Prune`. `GroupFairness` is weak fairness of
the DS, of every member's queue processing, of jobs ending, and of the outbound
service retrying what is due.

`OutboundFairness` is weak fairness of the task's steps (tokio runs it, its
ticker ticks, requests time out), of the Empty event that ends every batch and
of the callers that wait for a token; and strong fairness of taking the global
lock, which the other process may hold now and then. `OutboxFairness`,
`ReceiptsFairness` and `ReactionsFairness` are weak fairness of the loop of a
run and of its being started again (Empty events and the periodic wake); for
receipts also of the expiry of the locks that a dead run leaves.
`AttachmentsFairness` is weak fairness of each download and upload task, and
`CreationFairness` of the steps of a creation and of launching the app again.
`TokensFairness` is weak fairness of the rotation's steps, of both processes and
of the task that replenishes, which is scheduled anew whatever its result was.
Nobody has to start an operation, to send or to toggle anything, and no fault
is ever fair.

## 3. Runs

| Run | Configuration | Result |
|---|---|---|
| `server` | `Server.cfg`: QS queue with arbitrary clients, with the app and with the handler, 2 messages, batches of 2, fifteen kinds of disturbances; username queue with 2 messages and single fetches, a failing LISTEN or a lost notification; tokens for invitation codes; 2 attempts of 2 senders to connect; 2 members, 3 commits, timeouts, overlapping fan-outs, failing dispatches, 2 faults; 3 members, 2 wishes, 4 commits, 2 faults | holds, 1.0 M states |
| `device` | app and handler, 2 messages, batches of 1, crashes, broken streams, failing requests, lost acknowledgements, refused messages | holds, with the refinement of ReliableQueue, 1.5 M states |
| `live` | app and handler, broken streams, lost acknowledgements, unreadable messages, failing commits, aborted batches; fairness | every message is settled unless a listener is stalled or a commit has failed, 0.6 M states |
| `client` | `Client.cfg`: creation, outbound service and its queues, tokens for usernames; 2 members, 2 commits, crashes, DS failures; fairness | holds, 0.5 M states |
| `partial`, `group_race`, `overlooked`, `replaced`, `deletion`, `receipts`, `keys`, `resume` | smallest instance that shows the finding | violated |

Deadlock is not checked where a finished instance may stop: all bounds used up
and everything delivered.

What the passing runs check:

* `QueueWindow`: the table is a gapless window of the ratchet's numbers, with
  enqueues and acknowledgements in any order.
* `NewestListens`: an uncancelled stream is the registered one, so two streams
  never both own the queue.
* `ListenFollowsRegistry`: LISTEN and UNLISTEN commands, in whatever order
  requests, disconnects and cleanups produced them, end in the right state,
  unless the last of them has failed.
* `WokenWhileListening`: no wakeup is lost while LISTEN is in effect.
* `RestingHasSeenRows`: a listener of a username queue comes to rest only when
  it has been sent every stored message, except rows that its query found
  locked by the query of its predecessor (which the run `replaced` shows) and
  messages of which no notification reached it: LISTEN was not executed yet or
  failed, or the notification was lost.
* `NoMessageLost`, `NoGap`, `DeliveryInv`: see section 4.
* `HandledInOrder`: effects in order and once whatever fails, commits of the
  ratchet transaction and aborted batches included (`server`).
* `ReliableDelivery`: the refinement adds that nothing is skipped. The `device`
  run has no `malformed` or `decrypt` disturbance: a message that
  cannot be read is dropped before its predecessors are handled, or leaves
  the ratchet behind, which the abstract specification does not describe.
* `EventuallySettled`: liveness, up to a stalled listener (see below) and to a
  message whose commit has failed: its row is acknowledged, or, when the
  acknowledgement is lost, left in the queue until the next listen request
  (`LeftBehind`).
* `NoFork`, `OwnCommitKept`, `OperationHasItsCommit`: members follow the DS's
  order of commits; a commit that won stays with its author until merged;
  pending commit and row come and go together over three removal paths.
* `NothingMissed`, `EventuallyResolved`: for every commit a member lacks, the
  message that brings it is underway; operations are resolved and epochs
  reached.
* `CaughtUpAgrees`: a member that has processed its queue has the DS's state
  and leave proposals, and the DS sends its messages to it under the leaf it
  believes to have. Excepted are members with a resync to perform or whose
  resync was dropped (the copy is then a fork that nobody repairs), and those
  that have merged a deletion, which the DS does not apply.
* `LeaveHolds`: a user who asked to leave and is still a member has the
  operation left to try, or the DS has its proposal stored for the next commit.
  Excepted are users whose resync has deleted the operation together with the
  group, whose proposal was cleared by a commit that did not contain it (which
  the run `overlooked` shows), or whose chat was deleted.
* `RemovedStaysOut`: nobody who is out of the group is in it again by a resync,
  not even one that was queued before the removal and names a leaf that is now
  another member's.
* `PackageUsedOnce`, `OffersCanBeRead`, `ConfirmationComes`: see their comments
  in `Connections`; the exceptions are packages that an earlier owner of the
  username has left on the server, registrations whose rollback was lost, and
  senders with two contacts for one username.
* `NoLiveWorkWhileReceiving`, `QueuedWorkIsDone`, `ProcessorGoesOn`: no work
  with a live token while a batch is received; queued work is done in the end;
  `stop` returns, wherever the task is and whatever replaces the token.
* `RecordedIsDelivered`, `ReceiptsLeaveQueue`: a receipt that the client
  records as delivered was delivered, also when a collision reports it, unless
  the DS has kept its tag and not passed it on (`undispatched`, see below); every
  receipt leaves the queue, except in a chat with more receipts than the DS
  takes in one message (`TooMany`): the refusal counts as recoverable and
  nothing splits the batch.
* `SentIsAccepted`, `NoMessageForgotten`, `PeersAgree`, `MessagesLeaveQueue`:
  what is shown as sent was accepted with that content; nothing stays
  *sending*; the peer shows the same content; the queue empties. The
  exceptions (`overtaken`, `skippedUnsent`, `BuiltOnLost`, `sentTwice`) are
  explained at the properties.
* `RetryPossible`, `DownloadsStart`, `SentIsUploaded`: a download that has not
  succeeded keeps its keys, unless a failed send has deleted them (which the run
  `keys` shows); a pending download is taken up, unless the user cancels it, its
  keys are gone, or its notification or its task was lost, which lasts until the
  next start; a sent message refers to an uploaded object.
* `ReactionsAgree`: with an empty queue user and peer see the same reaction,
  unless a deferred row was overtaken, or a row was given up: after an error,
  because the chat was blocked, or because the DS did not pass it on.
* `SecretsAgree`, `CreationIsResumed`: the client's ratchet begins with the
  secret its QS record has; a creation can be resumed except from the five
  points named in `Unresumable`, which the run `resume` is about.
* `SpentOnce`: a token pays for one invitation code, however often it is sent
  and however keys and nonces are removed meanwhile. Excepted are tokens whose
  nonce a crash of the server's database erased.
* `StockComesBack`: a client without tokens has tokens again, unless a key id
  has come back under which it knows an older key (`IdComesBack`).

The properties of GroupCommit except a member that has *abandoned* an accepted
commit: after `MAX_RETRIES` timeouts, or an internal error on a retry, a job
discards its pending commit although an earlier attempt may have been accepted.
Such a member cannot follow the group, and its later operations wait for a
response that does not resolve them. The code has no recovery from this yet.

What the violations show (details and quotes under `findings`):

* `partial`: the background handler acknowledges a whole batch of which it has
  processed a part; the rest is deleted unread. The app's processor does not.
* `group_race`: a job whose commit the queue has merged meanwhile takes the
  user's next operation for its own and overwrites it with its old copy.
* `overlooked`: a commit that was staged before a leave proposal arrived is
  accepted after it. It does not contain the proposal, the DS clears the
  proposals it has stored, and the leaver has deleted its operation: it stays in
  the group for good, although `process_qs.rs:1082` says that the proposal "will
  be committed with the next commit".
* `replaced`: the query of a new listener of a username skips the rows that the
  query of its predecessor has locked; the predecessor is cancelled and sends
  them to nobody, and the new listener rests without them, against the doc of
  `listen` ("All messages that are not acknowledged will be emitted to the new
  listener").
* `deletion`: an edit or deletion made while the message is being sent is
  overwritten with the copy from before and dropped from the queue.
* `receipts`: receipts that a run has put off are deleted by the next message
  that the same run sends, because rows are removed by the run's id.
* `keys`: when a message cannot be sent, `remove_all_and_and_mark_as_failed`
  deletes every pending attachment, not only "those associated with the queued
  messages": a received attachment whose download failed cannot be retried.
* `resume`: an interrupted creation does not come to its end by launching the
  app again, although the doc of `load` says that "this will resume that
  process". TLC shows a request that fails once: `load` completes the
  creation and never writes the `own_client_info` row that a new user gets. When
  the failure is the lost answer to the registration, the user exists on the AS
  and the repeated request is refused for ever; the other points of
  `Unresumable` are as final: a client record without a state, rows of a
  preparation that was cut short, a redeemed code, an expired payload.

More facts came out of experiments and are not runs. A message that arrives
after the query that finds the queue empty and before LISTEN is executed wakes
nobody; the listener waits until the next message, or until it is replaced
(`Stalled` in `EventuallySettled`). A stream can be cancelled before its first
query, as the first state of the loop fetches nothing. A failed commit of the
ratchet transaction is logged, the loop goes on, and the batch is
acknowledged. With `overlap`, `NothingMissed` fails: the commit of epoch
*e + 1* can enter a member's queue before its response of epoch *e*; the member
flags the group, drops the commit and stays behind, since the resync it asks
for is not scheduled. With `race`, `NoFork` fails: in the situation of
`group_race` a response merges a pending commit other than the one it answers.

The DS commits the collision tags of receipts before it passes the message on.
When the client leaves in between, or the dispatch fails, its retry collides with
its own tags, and it records receipts as delivered by a sibling device that
nobody has received; the comment in `receipts.rs:208` takes every tag found for a
delivery. `RecordedIsDelivered` excepts these receipts.

Membership adds four. A resync deletes the group and by cascade a pending leave.
`delete_group` on the DS neither applies the commit nor deletes the group, so
another commit on the same state is still accepted and its author never merges
the deletion; a deletion that loses such a race is a fatal error and not
retried. When the answer to a resync is lost and the member has moved to a
lower leaf, the retry names the original leaf and is refused for ever. When
building the commit fails on such a retry, the row is dropped and the copy
remains as it is.

Tokens adds five more. `purge_and_replenish` deletes the client's keys before it
asks for tokens, and that request begins with those keys: it always fails with
"no VOPRF public keys available", although its comment (`privacy_pass/mod.rs:298`)
says that it "replenishes from the server" and `add_username` has a message for
the case that it succeeds ("token key rotated; replenished"); only the timed task,
or the next call with an empty stock, brings keys and tokens back. When the
answer to a request for an invitation code is lost, the token is burned and stays
in the stock, against the comment at `invitation_code.rs:59` ("Token is not
burned"); later requests return no code, and the token is not replaced before the
set of key ids changes, because the stock does not count as low. The table
`as_token_nonce` is UNLOGGED: after a crash of the database a token can pay
twice. Key ids have eight bits: when the id of a removed key is drawn again, a
client that knows no other id keeps the old key and gets no tokens until the set
of ids changes. `load_batched_token_keys` sorts by id and not by age, so new
tokens may be made under the older of two keys and expire sooner.

## 4. Proofs

The theorems hold for every value of the constants that satisfies the
assumptions of the modules (`QueueAssumption`, `ProcsAssumption` and so on),
which TLC evaluates in every run: any set of streams, members, messages or
packages, any batch size, limit or period, any number of faults, and every kind
of fault that the table does not exclude.

| Theorem | Property | Where |
|---|---|---|
| `QueueTypeCorrect`, `WindowWithoutHole`, `OneListener`, `ListenMatchesRegistry`, `NoLostWakeup` | `QueueTypeOK`, `QueueWindow`, `NewestListens`, `ListenFollowsRegistry`, `WokenWhileListening` | `QsQueue_proofs`, with clients that ask for anything |
| `QueueKeepsItsPromises` | the same four, with the modelled device as the client | `QsDelivery_proofs` |
| `TypeCorrect`, `InOrder` | `TypeOK`, `HandledInOrder` | `QsDelivery_proofs` |
| `DeliveryInvariant`, `NothingLost`, `RatchetWithoutGap`, `AcksAreSafe` | `DeliveryInv`, `NoMessageLost`, `NoGap`, `AckedIsSettled` | `QsDelivery_proofs`, under `NoSilentFailure` |
| `DeliveryIsReliable` | `ReliableDelivery`: the refinement of ReliableQueue | `QsDelivery_proofs`, under `EveryMessageReadable` |
| `GroupTypeCorrect`, `CommitAndOperation` | `GroupTypeOK`, `OperationHasItsCommit` | `GroupCommit_proofs` |
| `GroupInvariant`, `MembersAgree`, `AuthorCanFollow`, `LoserBailsAlone` | `GroupInv`, `NoFork`, `OwnCommitKept`, `LoserBails` | `GroupCommit_proofs`, under `NoRace` |
| `NobodyLeftBehind` | `NothingMissed` | `GroupCommit_proofs`, under `NoRace` and `QuietDs` |
| `MembershipInvariant`, `LeaveIsKept`, `CaughtUpMembersAgree`, `NobodyComesBack` | `FullInv`, `LeaveHolds`, `CaughtUpAgrees`, `RemovedStaysOut` | `Membership_proofs` |
| `NoOfferOverlooked` | `RestingHasSeenRows` | `Contacts_proofs` |
| `PackageServesOne`, `OwnerCanRead`, `ConfirmationIsNotLost` | `PackageUsedOnce`, `OffersCanBeRead`, `ConfirmationComes` | `Contacts_proofs` |
| `ReceivingStopsWork` | `NoLiveWorkWhileReceiving` | `Outbound_proofs` |
| `ReceiptsTypeCorrect`, `RecordedReceiptsDelivered` | `ReceiptsTypeOK`, `RecordedIsDelivered` | `Outbound_proofs` |
| `DownloadsRetriable`, `SentAttachmentUploaded` | `RetryPossible`, `SentIsUploaded` | `Outbound_proofs` |
| `UserAndPeerAgree` | `ReactionsAgree` | `Outbound_proofs` |
| `SentWasAccepted`, `NothingForgotten`, `PeerShowsSent` | `SentIsAccepted`, `NoMessageForgotten`, `PeersAgree` | `Outbox_proofs` |
| `RatchetFitsRecord` | `SecretsAgree` | `Accounts_proofs` |
| `TokenPaysOnce` | `SpentOnce` | `Accounts_proofs` |

Four assumptions name the faults without which a property holds. Each is about
a constant, the set of kinds of disturbances, and leaves all other kinds in.

* `NoSilentFailure`: commits of the ratchet transaction do not fail and the
  background handler meets no fatal database error. It excludes what the run
  `partial` exhibits, and failing commits, after which the batch is
  acknowledged. Where neither happens, the modelled code loses no message.
* `EveryMessageReadable`: in addition every message can be converted and
  decrypted. An unreadable message is dropped before its predecessors are
  handled, or leaves the ratchet behind, which ReliableQueue does not describe.
* `NoRace`: two jobs of one member do not overlap. With the overlap the run
  `group_race` violates `LoserBails`, and `NoFork` fails as well: the theorems
  say that nothing else in the model can cause either.
* `QuietDs`: the fan-outs of two commits do not overlap and no dispatch fails.
  With `overlap` or `dispatch` a commit reaches a member too early or never, and
  `NothingMissed` fails.

### The arguments

**The queue.** The invariants do not depend on what a client may ask for, so
they are proved of `AnyQueueStep`, a step with a client that acknowledges and
listens from any number. Both `QueueNext` and every step of QsDelivery are such
steps (`DeviceIsClient`), which gives the invariants once for both.
`WokenWhileListening` needs one part more (`ArmedIsListening`): a stream is armed
only as long as LISTEN is in effect.

**Delivery.** `NoMessageLost` is not inductive: an acknowledgement deletes
rows, so one has to know that what it covers is settled (`AckedIsSettled`). An
acknowledgement is computed when the burst ends and sent when the burst is
processed, so in between everything below it must be settled or still in the
process's hands (`Below`). That follows if the *pipeline* of a process, its
accumulated messages followed by its stream's buffer and fetch position, has
no hole: what precedes a message in the queue and is not settled precedes it
in the pipeline (`AccumulatedWithoutHole`, `BufferedWithoutHole`,
`FetchedWithoutHole`). A pipeline starts without a hole because the start of
the listen request is read from the client's ratchet and everything behind the
ratchet is settled (`RatchetIsSettled`), and stays so because a query returns
the first rows from the fetch position and what is not in the table is settled
(`NoMessageLost` again). The other process can only settle more, and settling
is forever (`SettledGrows`), so the pipelines do not disturb each other as
long as no two processes share a stream (`Attached`). Together these parts are
`DeliveryInv`, which the run `device` also checks.

**The refinement.** With every message readable, what is settled is exactly what
the client's ratchet has passed (`SettledIsPrefix`), and by `NoGap` the next
message at hand that is no replay is the one the ratchet expects. So a step that
settles a message settles the next one of the abstract queue, an enqueue is a
send, and every other step of the device and the server is a stutter.

**Commits.** `NoFork` rests on where a commit can be. A commit is staged for the
state its author has (`PendingOnChain`), the DS accepts it only on its own last
state (`LogIsChain`), and until it is decided it is its author's pending commit
or given up (`DecidedOrPending`); a job with the answer *ok* has an accepted
commit and holds the stored operation if there is one (`JobOwnsOperation`, the
part that needs `NoRace`); a response in a queue is for the receiver's own
accepted commit (`ResponsesAreOwn`). A member that merges therefore merges the
next commit of the log, over either path. For `NothingMissed` handlers are
single and the messages in a queue are in the order of their epochs
(`OneHandler`, `DeliveredInOrder`), so no message arrives before the epoch it
needs. `OperationHasItsCommit` holds in every configuration: only four kinds of
steps remove an operation, and each removes the pending commit.

**Membership.** `FullInv` has the facts about each commit, row, message and
resync (`MembershipInv`: commits move nobody except a resyncing author, profiles
fit the tree, proposals are of users who have asked to leave, a resync lies in
the past of the group), and the promises: `LeaveHolds`, `ChainsFit` and
`ProposalsCome`. `ChainsFit` says that the commits in a queue lead, one built on
the other, from the member's state to that of the DS; `CaughtUpAgrees` is the
case of an empty queue. Members with a resync to perform or a merged deletion
are excused from it (`Following`), as in the property. `RemovedStaysOut` follows
since a resync is accepted only on the present state of the DS, where its author
has to be on the leaf it names. That a resyncing member always finds a blank
leaf is a pigeonhole argument: there are no more users than leaves, and it is on
none. Before it was proved, TLC checked `FullInv` on instances with three users
(up to 3.1 M states).

**The client's queues.** *Service*: a task that is not idle has the current
cancel token or one that is cancelled, because a live token is never replaced
(`NoStrayToken`). *Receipts*: a tag is there for a receipt whose fan-out is
over, well or badly, or for the message that the DS has at hand
(`TagsAccounted`), so a collision and an answer both speak of a fan-out that is
over. *Attachments*: a running download has its pending record, a running upload
is the one of the message's remote id (`LoadingIsPending`, `UploadIsOfMessage`).
*Reactions*: as long as rows were sent in order and none was given up, an
addition that is not the user's any more has its tombstone behind it
(`AdditionsCovered`), and what the peer shows and the user has no more will be
taken back (`PeerFollows`). *Outbox*: the copy that is being sent is the user's
last version unless it was overtaken (`LastIsSent`); for the peer, every copy
that may still be sent, the row's, the user's and the loop's, is one that the
peer has or whose predecessor it has (`PeerHasCopies`), versions of different
messages are apart and the copy in flight is the oldest.

**Contacts and accounts.** *Username queue*: what the newest stream has marked
it has sent or holds (`MarkedIsSent`), a query comes back empty only if there
was nothing to lock, and what arrives afterwards wakes it or is one of the
messages it was not told of (`NothingLeft`). *Connections*: a package for one
use is deleted when it is given (`GivenIsDeleted`), no two queries lock one row
(`LocksHold`), the owner keeps the keys of what is stored and of what was given
(`KeysKept`), and no confirmation is consumed while the sender's transaction is
open (`ConfirmedInTime`). *Creation*: the stored state has the secret drawn
last, with which every record of the QS was made (`StateHasSecret`,
`RecordsHaveSecret`). *Tokens*: a redeemed token has its nonce, or its key is
gone (`RedeemedIsRefused`), and the rotation prunes nonces only when the keys of
that age are removed (`PruningAfterRemoval`).

Two assumptions about constants were made explicit for the proofs: the value that
stands for *no package* is not a package, and no user has two leaves in the first
tree (`ConnectionsAssumption`, `MembershipAssumption`).

Only model-checked: the liveness properties (`EventuallySettled`,
`EventuallyResolved`, `QueuedWorkIsDone`, `ProcessorGoesOn`, `ReceiptsLeaveQueue`,
`MessagesLeaveQueue`, `DownloadsStart`, `CreationIsResumed`, `StockComesBack`),
because reasoning about fairness is outside this proof system's reach; and the
eight violations, which are counterexamples.

## 5. Plan

Done: all modules of section 2, their runs, and proofs of every safety property
that a passing run checks.

Next, in this order:

1. Type correctness of the modules whose proofs use only the types they need;
   weaker assumptions for `NobodyLeftBehind`: which overlaps of two fan-outs are
   harmless.
2. Adding members, with welcomes and key packages.
3. The remaining timed tasks, and several devices of a user.

## 6. Not modelled

* Contents: ciphertexts, MLS trees, signatures, profiles. A message is a
  number, a commit an author and a base.
* Event payloads of the QS, which bypass the queue and which clients ignore;
  metrics, authentication of requests, logging.
* The decision to send a push notification. That a process wakes up at any
  time, or never, covers all its outcomes.
* Several devices of a user, except as a sibling that collides, and several
  queues at once: queues share only the cleanup in `track_listener`, which
  `Prune` stands for.
* Failing fan-outs of ordinary messages: `Outbox` takes acceptance by the DS for
  delivery. `Receipts`, `Reactions` and `GroupCommit` have the failing dispatch.
* Time: retry intervals, expiry of groups and listeners. A due retry may happen
  at any moment.
* Adding members, the APQ variants of groups, a member that resyncs while its
  leave is stored (what OpenMLS makes of that commit is not decided here), and
  the room policy, an external crate, which is a nondeterministic refusal.
* Attachment storage, the relay service and the rate limiter: thin layers over
  an object store and a counter, about which a property would restate the code.
* The user interface, generated bindings, the test harness and the tooling.
