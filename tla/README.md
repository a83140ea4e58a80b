# mwanachama-backend-comm: the verification project

TLA+ models of the communication backend, the TLC configurations that check
them on small instances, and proofs, checked by TLAPS, of every safety property
the runs check, for every size of instance.

The code is a Go library over a SQL database (Postgres in production, SQLite
in its tests). A host program embeds `CommManager`, calls it from as many
request handlers and processes as it likes, and supplies the facts the library
does not own as hooks: who belongs to a group, who leads it, who answers for a
subject, who stands behind a record. Nothing is kept in memory between calls
but the hooks and the push slots. What is hard is therefore what happens
between the SQL statements of calls that run at the same time.

## 1. Inventory

| Component | State it keeps | Operations | What makes it correct | Module |
| --- | --- | --- | --- | --- |
| Chat threads (`chat_impl.go`, `manager_chat.go`, `manager_chat_start.go`) | `chat_thread`, `chat_message` | mint, start (lead or member), open to the group, decline, post | a start reveals nothing; declines and opens in any order leave a legal row; the requester is told once | `ChatThreads` |
| Chat reading (`chat_impl.go`, `chat_read_impl.go`, `manager_chat.go`) | posts, `chat_read_marker` | post, list, list after a post, mark, the list of threads | read stays read; only what was overtaken is missed; a thread is dated no older than what is counted in it | `ChatReading` |
| Chat archive (`chat_archive_impl.go`) | archive rows | archive, unarchive, the two lists | archiving again is the first archive | `ChatReading` |
| Standing messages (`standing_impl.go`) | `standing_message` | set up, stop, send what is due | each occurrence at most once and in order, nothing after the stop, nothing missed | `StandingMessages`, `OccurrenceLog` |
| Subject threads (`subject_impl.go`, `manager_subject.go`) | subject threads and messages | open, read, post with notices | one thread per owner, private stays private, the answering side unnamed, the right people told | `SubjectThreads` |
| Moderation (`moderation_impl.go`, `moderation_dismissal_impl.go`) | reports, removals, dismissals, disputes; acts at the host's | remove, dismiss, dispute, decide | the act log tells what the rows tell; nobody reviews their own removal | `Moderation` |
| Direct-message roster (`dm_impl.go`, `dm_roster_impl.go`) | `dm_participant` | create, invite, accept, leave, kick, promote, re-enable | only admins move others; a call that no change of the roster crosses is as good as one statement | `DMRoster` |
| Notifications (`notification_impl.go`, `notification_acknowledgement_impl.go`, `manager_audience.go`) | notifications, preferences, acknowledgements | raise, raise to an audience, mute, acknowledge, receipts, mark read | mutes honoured, whoever was resolved is raised for or reported with a reason, one acknowledgement, receipts complete | `Notifications` |
| Push delivery (`push_impl.go`, `push_delivery.go`, `webpush.go`) | subscriptions, attempts, 16 slots | subscribe, unsubscribe, deliver, drop, record, drain | no stranger's browser, nothing working dropped, every attempt accounted for, every delivery ends | `PushDelivery` |
| Direct messages and reactions (`dm_message_impl.go`, `manager_dm.go`) | messages, reactions | post, let expire, list, react, clear | only who was active is shown a message or reacts to it | `DMMessages` |
| Device keys (`dm_message_impl.go`) | `dm_device_key` | publish, look up, sign a handset out | one live key a handset; a publish touches no other handset | `DeviceKeys` |
| Addresses and directory (`address_impl.go`, `address_directory_impl.go`, `models/address*.go`) | addresses, blocks | publish, retire, settings, block, resolve, list, search | a retired address is gone for ever; settings are one sheet; SQL and Go agree on who is found, but for whom the host's actors table leaves out; a page repeats or skips only for a move or a tie | `Addresses` |
| Test runs (`testrun.go`) | rows scoped by a run id | one run's own stores | nothing leaves a run | the address stores' part, in `Addresses` |
| Provisioning (`provision.go`) | the tables themselves | adopt legacy tables and columns, migrate, caps | a start cut short may be repeated, by two servers at once; whoever serves finds every row | `Provisioning` |
| Identity owner, validation, record store, errors, blueprint, routes, tools, DDL | none of their own | checks, dispatch, printing | | not modelled: pure or generated |

How they interact: `CommManager` fences a call (hooks, thread rows), then calls
one store; a member's start, a decline and a subject's post write rows and
notifications in one transaction and hand each notification to push delivery
after the commit; `RaiseToAudience` calls the ordinary `Raise` per recipient;
standing messages post through the chat store without the manager's fences;
moderation writes its acts through the host in its own transaction. The
database is all that is shared.

The hard behaviours, with their lines, are the `hazards` of `PROJECT.json`:
conditional updates that miss and retry, unique indexes met by two inserts,
facts read in one statement and used in the next, clocks that disagree, a
process that dies between commit and push, and timeouts that race an answer.

## 2. How the models correspond to the code

**Grain.** A call is an `op` record: the point it has reached and what it
carries in local variables. Each statement outside a transaction is an action
of its own. A transaction takes effect in the action that commits it, where its
row locks or unique indexes make rivals wait; reads a transaction makes without
a lock are cut off into actions before it. The isolation is Postgres's READ
COMMITTED. The library's own tests serialise on one SQLite connection
(`SetMaxOpenConns(1)`), which is why these interleavings have no test.

**Names.** Actions and helpers carry the names of the functions they translate;
`map` gives the lines. An operator with a comment "Mutant:" is a plausible bug
of the definition after it; it is in no behaviour and shows that a property can
fail.

**History.** A variable or field marked *(history)* records the past for a
property and steers nothing.

`ChatThreads`. One room. `thread` holds the rows, with a tag path as the pair
of label and "put aside"; `op` the calls: a lead's start
(`StartResolve, StartInsert, StartConflict, StartRescue`), a member's
(`RequestResolve, RequestCommit, RequestRollback`), `OpenRead/OpenWrite`,
`DeclineFence/DeclineRead/DeclineCommit/DeclineAgain`,
`PostFence/PostCheck/PostInsert`, the host's `MintThread` and its `Handover` of
leadership. `LeadsToTell` and the first resolve of a member's start are one
step: the first reads only hooks. The `Recipients` hook is left out.

`StandingMessages`. Any number of hosts, each with its clock, run
`SendDueStandingMessages`: list the running messages once, then per message a
claim (compare-and-swap on `last_sent_at`) and a post in one transaction. Leads
set up and stop. Recurrence arithmetic belongs to an external package; a
schedule is the set of its occurrences. `OccurrenceLog` is what a group is
promised; `StandingMessages` implements it with `phase` computed from the row.

`Moderation`. `CreateRemoval`, `DismissReports`, `CreateDispute` and
`DecideDispute` over one row each per message, cut at unlocked reads. An act's
actor is taken to be the caller (`models/moderation_act.go:127`), a failing
writer rolls both back. Reports are filed aside and read by none of these.

`DMMessages` extends `DMRoster` with the thread's messages and reactions: a
reader's call asks the roster in one step (`ListFence`, `ReactionFence`) and
lists or writes in a later one, while every roster action goes on. A post asks
nobody and is the host's call; a message past its deadline leaves the listing
only.

`DeviceKeys`. `PublishDeviceKey` is an upsert, a read back and an update of the
handset's other keys, with no transaction (`PublishKey, ReadBack,
RetireSiblings`), and may fail at each; `RetireDevice` signs a handset out. A
key is a row, and the handset may be none.

`DMRoster`. One thread's participants; every operation is at least two
statements. `claimEmptiedThread` is cut into its snapshot and its write,
because two of them update different rows and do not wait for each other.
`crossed` remembers whose call in flight saw the roster change.

`ChatReading`. A post is stamped in one step and lands in a later one; marks
travel before they are written. The list of threads is cut between the unread
counts and the last posts (`CountUnread, ListThread`), and an archive between
its insert and its read back (`Archive, ArchiveAnswer`); the instant an archive
took from the clock is any up to now. One thread; the newest unread post stands
for the number of them, a message being counted or not.

`SubjectThreads`. One subject; standing comes from the host and may change
within a call. A post's transaction is cut where it reads the authors to tell;
message and notices commit together; pushes follow one by one, and a server may
die before them.

`Notifications`. One record. The host names any audience behind it, another
one at each call. `RaiseToAudience` is `AskMuted`, `InsertNote`,
`HandToPush` per recipient; a single `Raise` is an audience of one.
`AcknowledgeNotification` is a read, an insert that may meet the unique index,
and a read again. Receipts are two reads a page, over ids that are random and
do not follow the raising. The partial unique indexes of `provision.go` are
`CapSpent`: two hold one row for each recipient (`Capped`), that of
`survey_nudge` one for the structure (`CappedOnce`). Whatever unique index an
insert meets, the primary key among them when the template carries an id, is
read as a spent cap (`Refused`).

`PushDelivery`. Subscriptions by endpoint; one delivery per notification with
its slot, its list read once and its timeout. What a push service answers is
taken as given, with one law: an endpoint it forgot it never serves again.

`Addresses`. The rows of the live table and of the runs' table, keyed by run
and hash. `Publish` and `Retire` are one statement each; `UpdateSettings` is a
guarded update (`UpdateSettings`) and a read-back by owner and index alone
(`Answer`), with other calls in between. A settings sheet replaces every column
of the last one, the absent ones too (`Settled`). The three statements that
look addresses up are `ResolveRows`, `ListListed` and `SearchRows`; only the
last spells the scope of a run out by hand (`RunClause`), the others get it
from the store. `Search` joins the host's table of actors (`members`), which
the host changes as it will (`HostChange`): an address whose owner has no row
there is listed by `ListListed` and not found by `Search`. Both may leave one
actor out. `FirstPage` and `NextPage` are two calls of `Search` with an offset;
ORDER BY is `listed_at`, then `public_address`, which is whatever the owner
sent and may be another's, so rows may tie, and each call may have the ties in
another order (`Orders`). Time is counted in minutes of days of `DayLength`
minutes, so that `models/address_hours.go` is modelled with its weekday and its
half-open windows, and a schedule's edges are a few ticks apart.

`Provisioning`. `Provision` runs when a server starts, one statement after the
other and in no transaction: per object `HasLegacy, HasBeside, CountStranded,
RenameTable, DropIndexes`, per renamed column, in any order, `HasOld, HasNew,
RenameColumn`; then `Migrate` and the indexes of `SyncNotificationCap`.
`Fail` is a refused statement or a server's death at any of these points, and
two servers may be between any two of them. A table is its rows, the names its
columns go by and whether it still has the older indexes. `spec.Migrate` and
the database are modelled from how they are used here.

## 3. The runs

| Run | Instance | What it shows |
| --- | --- | --- |
| `ChatThreads_room` | 2 actors, one muted, 1 topic, 2 thread ids, leadership changes once, fairness | starts, opens, declines and posts in any order: `DeclinedStaysAside`, `ToldTruly` (a requester of the decline at most once, leads of real requests only), `StartNeverReveals`, `NeverTakenBack`, and `CallsReturn`: `DeclineThread`, which calls itself, ends |
| `StandingMessages_sending` | 1 message due at 1 and 3, clocks to 3, 2 hosts, 2 leads, 1 setback, fairness | `ImplementsLog`, `SendsTheLatest`, `NothingMissed` |
| `SubjectThreads_replies` | a member and an answerer, 2 posts, 1 change of standing, 1 crash, fairness | `OneThreadPerOwner`, `Confided` (who may read, who is named), `WhoIsTold`, `ToldArePushed` |
| `Moderation_log` | the author and two others, 1 message | `ActsTellTheRows`, `ReviewerIsNotRemover` |
| `DMMessages_thread` | the creator and one more, 1 message, 1 emoji | `ReadersWereActive`, and of the roster under it `OnlyAdminsMoveOthers` and `UncrossedCallsHold`: a call no change of the roster crossed takes effect as one statement would |
| `DeviceKeys_handsets` | 2 keys of one actor and 1 of another, 2 handsets, 2 publishes at once | `OneKeyPerHandset`, `LonePublishReplaces` |
| `ChatReading_follow` | 2 who post, one of them reads, 3 posts, 2 instants | `ReadStaysRead`, `PollMissesOnlyOvertaken`, `UnseenIsUnread`, `ListingDated`, `ArchiveAnswersFirst` |
| `Notifications_audience` | 2 handlers, any audience of 2 recipients, 3 events (one with a cap for each recipient, one for the structure, one unmutable), 2 ids of which a template may carry 1, 3 calls of which 2 raise, failures at any point, pages of 1 | `MuteIsHonoured`, `AudienceAccounted` (told, muted and capped are all who were resolved, and nobody else), `FirstAcknowledgementStands`, `ReceiptsMissNobody` |
| `PushDelivery_browsers` | 2 people, 2 endpoints, 2 notices, 1 slot, 3 row ids, fairness | `SentToOwnBrowsers`, `AttemptsAccounted`, `DropsOnlyTheGone`, `DeliveriesEnd` |
| `Addresses_directory` | 2 owners, live and 2 test runs, 2 hashes, 2 addresses, 5 sheets of which 2 are malformed, 2 writes at once, days of 2 minutes, pages of 1, the host's table changing at will | `StatementsAgree`, `OneSheet`, `PagesTile`, `RetiredForGood` |
| `Provisioning_upgrade` | 2 servers, 2 objects with 1 and 2 renamed columns, 1 older row, 3 caps, 2 failures, 4 starts, fairness | `ServedIsWhole`, `SomebodyServes` |
| `DMRoster_claims` | the creator, a first participant, an outsider | refutes `ClaimsAreExclusive` |

Type invariants are proved with the rest; the runs of `Notifications` and
`PushDelivery` check theirs as well, because what may be muted and which id
names which row is part of them. `CHECK_DEADLOCK FALSE` is set where the
bounds let everything come to rest. Modules whose proofs share a module have
names of their own for what others call `Init`, `Next` and `Spec`
(`ReadInit`, `KeySpec`, `FairPushSpec`).

**Why the bounds are enough.** Each hazard is a race of two calls, so two
actors and two of whatever they contend for reach it; the rival claims of
`DMRoster_claims` need a third, and where a third could otherwise matter, in
the room and on the roster, the theorems hold for any number. One reader is
enough in `ChatReading` because readers share no row: markers and archives are
theirs alone; three posts are one held, one missed and one that overtook. One
topic suffices for the threads because topics share nothing but the thread ids;
two ids give a label's holder and a thread put aside. Instants 1 and 3 leave an
instant with nothing due. One slot for two deliveries is a full pool. One
failure or crash is one broken call with everything after it; in `Provisioning`
two failures and four starts let both servers break off and both come back. Two
addresses with pages of one are what a walk can repeat or pass over, tied or
not; two instants and two minutes to a day put an address before its hours and
in them, before its expiry and at it. Two test runs share one table, the live
rows have their own. Two writes at once meet each other and a retirement. Two
ids and pages of one make a row land before or behind a cursor.
`MaxHandovers`, `MaxChanges`, `MaxPosts`, `MaxTime`, `MaxIds`, `MaxRaises`,
`MaxBegun`, `MaxSetbacks`, `MaxCrashes`, `MaxFailures`, `MaxRows` and
`MaxStarts` bound counters the code does not bound. Symmetry is used for
handsets and publishes, for recipients and handlers and for test runs and
settings calls, in runs without liveness. Interleavings of two standing
messages are covered by the proofs, not by a run.

**Fairness.** Only what the code's own scheduling drives is fair; users, leads,
the host's changes of mind, failures, crashes and timeouts never are.
`Continue(a)` (chat, subject threads): a server runs the statements of a call
one after another; a member's roll-back and a subject's crash stay possible at
any point. `Advance` and `HostStep` (standing messages): clocks advance and
timers tick. `Deliver(n)` (push): a send ends, by its answer or by the
30-second context. `Provision(p)` (provisioning): a server that lives runs its
statements; that one is started again is never assumed, and `SomebodyServes`
speaks of starts after the last failure. Weak fairness suffices because what
each waits for, once possible, stays so or is itself fair.

## 4. What is proved

Eight modules hold the proofs, of all twelve component modules, for all sets
of actors, threads, messages, hosts, keys, addresses, servers and calls and all
bounds, from the modules' named assumptions only (distinct null values,
naturals as bounds, a creator among the actors, readers among them, a muted
set of actors, a roster of finitely many, some event to notify of, ids counted
from 1, those a template carries among them, public addresses numbered from 1).
`ChatProofs` is about `ChatThreads` and `ChatReading`, `DirectMessagesProofs`
about `DMMessages` with its roster and `DeviceKeys`, `NotificationsProofs` about
`Notifications` and `PushDelivery`; the others are named after the one module
they are about.

One pattern carries most of them. The property of a row is threatened by a
call that read the row some time ago, so the invariant says what every call in
flight relies on; rows change in few ways (they only grow, or a guard on the
update asks what was read), so what a call relied on outlives the steps of
others; and each action's lemma is then about the one call that moves.

* **ChatThreads**: `TypeCorrect`, `DeclineSafety`, `NoticesTrue`,
  `NeverReveals`, `PostingFenced` (whoever has a post in a
  thread could read it), `GroupKeeps`. The invariant `IInv` adds what every
  call in flight relies on (`CallsAreSound`), that an unminted id is clean and
  that a thread not put aside was never told of a decline. Rows only grow
  (`Grows`: once minted a label, requester and path aside stay, an audience
  only widens): `GrowingKeeps` and `GrowingCalls` say so once.
* **ChatReading**: `ReadTypeCorrect`, `ReadStays`, `ArchivedOnce`,
  `PollMisses`, `UnseenCounted`, `ThreadsDated`. A post is never taken from the
  table and a read point never goes back (`PointsAdvance`); whatever changes an
  archive row crosses the calls about to read it back. For what a client sees,
  `FollowInv` says that it holds all that sorts before its newest post and did
  not land late behind one of its posts; a poll, a mark by what was shown and a
  list of threads cut between its counts and its dates then err only by such
  posts.
* **StandingMessages**: `TypeCorrect`, `ExactlyOnce` (sent in order, never
  twice), `ClaimIsPost` (`last_sent_at` is the last occurrence posted),
  `OneStop`, `Silence`, `LatestGoesOut` (no backlog), and `Refinement`:
  `Spec => Log!LogSpec`. The invariant ties `last_sent_at` to the end of `sent`
  and bounds what a stale tick saw by what the row now says; the
  compare-and-swap then gives the order.
* **Moderation**: `TypeCorrect`, `NoSelfReview`, `LogIsTrue`. A removal is
  never withdrawn and keeps its remover, so what `DecideDispute` read of it
  before its update is still so at the commit (`ReadsHold`). That the log tells
  what the rows tell is about acts filtered out of a sequence by kind; the
  property counts positions of the log (`Entries`), and a step appends one act
  and changes the one row it tells of, so no induction over the log is needed.
* **DMMessages**, the roster included: `TypeCorrect`, `OnlyAdmins`,
  `UncrossedHold`, `ReadersFenced`, and `RosterImplemented`: whatever is posted,
  read and reacted to, the roster behaves as `DMRoster` says. Two facts carry
  it: an admin flag once given stays, so a call that asked for it may write
  later; what an uncrossed call has read of the roster still holds (`CrossInv`),
  by which its write is as good as one statement; and who is active, or in a call begun while active, is entitled to all
  there is (`Entitlement`), a leaver to what there was.
* **DeviceKeys**: `KeyTypeCorrect`, `HandsetKey`, `LoneReplaces`. Two live keys
  of one handset say nothing about who is at fault; the invariant does: of two
  such keys one was written last by a call that still knows the row's handset
  (`Fresh`) and is about to retire the other, or that failed. `LoneUndisturbed`
  adds that a call alone with its actor finds all as it left it.
* **SubjectThreads**: `TypeCorrect`, `OneThread`, `StaysConfided`,
  `RightlyTold`, `PushedOnce`. A call works with the standing it was fenced
  with, which the host may have withdrawn since, and with recipients read
  before its insert. `CallOK` says what of this stays true: the standing was
  once given, whom it is to tell were and stay parties to the thread, whoever
  wrote before the call began is among them, and what it has still to push was
  not pushed.
* **Notifications**: `NoteTypeCorrect`, `MutesHonoured`, `AudienceComplete`,
  `FirstStands`, `NobodyMissed`. `NoteInv` places everybody resolved for a
  raise (`Sorted`: still to come, at hand, raised for, or missed for one reason,
  and nobody else), ties
  those raised for to rows of their own (`Told`) and the histories of a mute to
  the preferences as they are (`HistorySound`); no step takes a row or an
  acknowledgement back (`Grows`), so only a change of preference touches the
  calls of others. That as many were told as rows were raised is a bijection
  from rows to recipients. The walk of receipts keeps that all that was due up
  to the cursor was seen; `PageFacts` carries this over a page by the rank of an
  id among those beyond the cursor, for any limit.
* **PushDelivery**: `PushTypeCorrect`, `OwnBrowsersOnly`, `SendsAccounted`,
  `WorkingStay`. Ids are minted in order and never come again (`RowsMinted`), so
  an id in a list read earlier is of the endpoint it was listed with or of
  nobody (`ListsSound`): a send goes to a browser its recipient used, and the
  drop by id cannot hit the row of whoever came after.
* **Addresses**: `TypeCorrect`, `StatementsTrue`, `SheetsWhole`,
  `RetiredStays`, `WalkTiles`. The invariant is that every row holds one
  well-formed sheet, from which the two listings agree with `InDirectory` (a
  listed address is public because `Validate` says so), and that owner and index
  name one row in a run, on which the read-back of `UpdateSettings` relies.
  For the walk, a row is on the page due when so many come before it
  (`PageCounts`); a row that changes page while it stays in place has another
  before it that was not, or the other way round; and two that both stay in
  place change order only where neither sorts before the other (`CrossersTie`).
* **Provisioning**: `ServedWhole`. `ProvInv` says what a server has seen to at
  each point (`SeenTo`): objects behind it are settled, and all that goes by an
  old name in the object at hand is among the columns still to look at. No
  statement of any server undoes it (`Kept`); a server that dies may leave an
  object unsettled, but then no server has passed it.

Proved properties that no run needs to repeat (`PostersCouldRead`,
`SentInOrder`, `LastSentWasPosted`, `StoppedOnce`, `StopIsFinal`,
`PushedOnceCommitted`, most type invariants) are stated in the component
modules; TLC has agreed with each.

**Only model-checked**: `CallsReturn`, `NothingMissed`, `ToldArePushed`,
`DeliveriesEnd` and `SomebodyServes`, because liveness under fairness and
ENABLED are beyond this prover. `ClaimsAreExclusive` is refuted, not proved.
No module uses RECURSIVE.

## 5. Where the code and its documents disagree

Refuted by a run, with the trace TLC prints: two departed participants both
re-enable themselves (`dm_roster_impl.go:139` against
`comm.operations.json:806`).

Met while modelling; the modules contain the behaviour, unless said otherwise,
and no property denies it:

* Two listings with the same `listed_at` and `public_address` may swap between
  two pages with nothing moved, one shown twice and one never
  (`address_directory_impl.go:61` against "the order is total and stable",
  `models/address_directory.go:79`). The index on `public_address` is not
  unique (`comm.blueprint.json:1022`), and `UpdateSettings` stores what it is
  sent (`address_impl.go:104`). `PagesTile` allows it.
* A declined thread goes on receiving a standing message
  (`standing_impl.go:176`; `routes.md:389`, `models/chat.go:20`).
* A reinstated message stays hidden (`manager_read_by_id.go:32`;
  `comm.blueprint.json:890`; the read by id is not modelled).
* Where nothing ties either, a browse with an offset does repeat or skip a row
  that did not move, when another is listed before it or goes
  (`models/address_directory.go:79`): `PagesTile` allows it, and nothing else.
* A live listed address whose owner has no row in the host's table of actors is
  in the directory by `InDirectory` and `ListListed` and not by `Search`
  (`address_directory_impl.go:56`); `StatementsAgree` says so.
* A template that carries an id is raised for one recipient only: the rest meet
  the primary key and are missed as `ErrNotificationCapSpent`, though no cap
  was spent (`notification_impl.go:112`; `audience-raise.md:27`).
* A server that dies between a table's rename and `DropIndexes` leaves the
  older indexes for ever, since the next start finds no old table
  (`provision.go:73`).
* A post that passed its check lands in a thread declined meanwhile
  (`manager_chat.go:173`; `routes.md:389`).
* A member whose start was put aside under a suffix is not answered with it the
  next time (`chat_impl.go:121`; `routes.md:369`).
* Two decisions of one dispute that both read it open both commit, each with an
  act (`moderation_impl.go:186`; "decided only once",
  `models/moderation.go:162`).
* A message can be both withheld and left standing, the dismissal's lock having
  no removal to lock (`moderation_impl.go:91`; `models/moderation.go:20`).
* A caller who left or was kicked after `isAdmin` answered still kicks,
  promotes or invites (`dm_roster_impl.go:84`); `UncrossedCallsHold` denies it
  only to calls nothing crossed.
* `Accept` writes active over any state, so a kicked participant may come back
  (`dm_roster_impl.go:54`; `comm.blueprint.json:469`); two last admins may
  leave at once (`dm_roster_impl.go:62`; `comm.blueprint.json:481`, known at
  `todo_done.md:28`); an invitation repeated while it is being accepted undoes
  the acceptance (`dm_roster_impl.go:43`; `dm_impl_test.go:69`).
* A post stamped before a mark and landing after it is never unread
  (`chat_impl.go:193`; `read-markers.md:58`), and a poll by the newest post
  misses it (`chat_impl.go:230`; `routes.md:417`).
* Once a delivery's 30 seconds are over the record of the attempt fails with
  the send (`push_delivery.go:64`; `web-push.md` has every attempt recorded);
  the host is told through `onFailure`.
* A mute set between a raise's read and its insert does not stop that notice
  (`notification_impl.go:106`).
* `AudienceRaise.Missed` names who muted, where
  `notification-acknowledgement.md` has the sender never told who did
  (`manager_audience.go:58`).
* Two publishes of one handset that cross can each retire the other's key and
  leave it none (`dm_message_impl.go:91`); `LonePublishReplaces` is therefore
  about publishes left alone, and `OneKeyPerHandset` says at most one.
* Archiving crossed by the same reader's unarchive may answer not found
  although the insert succeeded (`chat_archive_impl.go:36`).
* `CreateDispute` does not ask that the one who raises it wrote the message
  (`models/moderation.go:151`).

## 6. Not modelled

Read marks (one update) and the rules setting of notifications, the
`Recipients` hook, `Activity` and listings that are plain reads, message
bodies, validation, the wire formats of Web Push, the blueprint and the routes.
Of addresses: blocks (an insert and a count), salts, the message timer, the
counts, the search term and the arithmetic of `models/address_code.go`. Of test
runs: the scope every other store takes from the external `specstore`, and the
hooks a run drops.

## 7. Plan

On disk: threads, standing messages, moderation, roster and messages, device
keys, reading and archive, subject threads, push, notifications, addresses,
provisioning. Then

1. Abstract specifications for the parts that have none: an acknowledgement
   as a register written once, which `Notifications` implements; a device-key
   table with a publish in one step, which `DeviceKeys` implements for publishes
   left alone.
2. Read marks and the `Recipients` hook in `Notifications`; `Views` in
   `SubjectThreads`.
3. Test runs: an abstract isolated store that the scoped stores implement.

## 8. Running

    tlc -workers 2 -config ChatThreads_room.cfg ChatThreads
    tlapm ChatProofs.tla

Each `.cfg` is named after the run; `PROJECT.json` lists its module. The
longest run takes about two and a half minutes on two cores.
