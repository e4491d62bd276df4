# A verification development for anytype-caldav

`anytype-caldav` serves the tasks, events and recurring series of one Anytype
space to calendar clients over CalDAV, writes back what the clients change,
pushes reminders to browsers, and makes the meetings of recurring series ahead
of time. It is one Rust process on the tokio runtime. Anytype is its only
database; what Anytype cannot hold is in a small SQLite state file.

The modules here describe the parts of that process in which something can go
wrong between two steps. TLC checks them on small instances, TLAPS proves the
main invariants for every value of the constants. Paths in this file are
relative to `src/src/` unless they say otherwise.

## 1. Inventory

### Parts and how they interact

```
 calendar clients          browsers                     people in the Anytype app
      | HTTP                  | HTTP                               |
 caldav/* (tasks, events,   push.rs  <---- scheduler.rs            |
   settings, auth, home)       |      notify    |                  |
      | get / invalidate       |                |                  |
    feed.rs                    |                |   series.rs      |
      | list_tasks             |                |      |           |
      +---------- anytype_source.rs (HTTP client) -----+------> Anytype
                               |                |      |
                               +-- state.rs (SQLite) --+
```

* The CalDAV handlers call `FeedService::get` to find a resource, write to Anytype through
  the source, and call `FeedService::invalidate` afterwards.
* The scheduler polls Anytype and the table of devices, claims each due reminder in the
  state file, and hands it to `PushService::notify`.
* The series generator polls Anytype and makes, rewrites and archives event objects; its
  claims are in the same state file. The command `generate --apply` makes the same pass in a
  second process.
* The parts share memory in two places: the feed, and the table of the people in the one
  `AnytypeTaskSource` (`main.rs:390-437`), which the feed's refreshes and the scheduler's
  passes both replace and every read of a task uses. Otherwise they meet in Anytype and in
  the state file, and so does every person who edits in the app.

### Component by component

| Component | State it keeps | Operations | What makes it correct |
|---|---|---|---|
| Task feed, `feed.rs` | snapshot, time and outcome of the last attempt (a mutex); the refresh guard (an async mutex); a generation (a watch channel) | `get`, `refresh`, `record_failure`, `invalidate` | one refresh at a time; a refresh dropped by its client frees the guard; the served body never moves back; a held body is served through failures; a request ends; whoever refreshes sees the writes that search has found |
| CalDAV tasks, `caldav/tasks.rs` | none between requests | PUT, DELETE, GET, REPORT, PROPFIND, and the move a client makes of a PUT and a DELETE | one calendar per task and reader; a name is found wherever it is served; an older body undoes nothing; the DELETE of a move removes nothing |
| CalDAV events, `caldav/events.rs`, `events.rs` | a snapshot with an age (a mutex) | GET; PUT of an event, series or deadline as a plan of several writes; DELETE | a save that succeeds leaves what was sent, also after one that failed half way; the ETag covers all that a plan writes; nothing is orphaned, doubled or hidden |
| CalDAV settings, names, home | documents in the state file | GET, PUT, DELETE with preconditions; home set | a condition is about the document that is replaced; each reader finds their tasks at home |
| Reminder scheduler and push, `scheduler.rs`, `push.rs`, `reminder.rs` | `handled_reminders`, `subscriptions` (durable); the pass (volatile) | `check`, `notify`, subscribe, unsubscribe | at most one push per moment and device; never after a crash; only to those concerned; not lost while nobody listens; handled in the end |
| Meeting generator, `series.rs` | `generated_instances` (durable); the pass (volatile) | plan, create, record, upkeep, exclude | one meeting per day; a deleted one stays deleted; an occurrence is made in the end; untouched meetings follow the series; what is made has the dates of the series |
| State file, `state.rs` | the tables above | claims are `INSERT OR IGNORE` | a claim succeeds once |
| Write-back and rendering, `writeback.rs`, `render.rs`, `model.rs` | none | VTODO to fields, fields to VTODO | an unchanged resource changes nothing; what is sent is served next; a pair of dates is in order; a date that is not shown is not moved |
| Anytype client, `anytype_source.rs` | the table of the people | a listing of several reads, the read of one task; create, update, archive | tasks, calendars and writes use one id per person; a field left out of an update keeps its value |
| Accounts and auth, `accounts.rs`, `caldav/auth.rs` | none beside the snapshot | who may sign in, which accounts are listed | accounts follow the space |
| HTTP, XML, paths | none | routing and syntax; a subscription is stored | |
| Configuration, locale, installer, `main.rs` | none at run time | start, stop on a signal | |
| Deployment, `src/deploy` | none | compose files and shell | |

### What is hard about it

* **Awaits.** A handler locates an object in a snapshot, reads it, writes it and tells the
  feed, and everything may change at each await. A client that disconnects drops the
  handler's future wherever it stands.
* **Calls that fail after they worked.** Every write to Anytype may be there although the
  answer said otherwise. Creates have no idempotency key.
* **Search lags.** Anytype's search does not return at once what was created or written, and
  a listing is several pages of it.
* **Crashes.** A claim is durable before what it is a claim for is done.
* **Several writers.** The people, the service and a second process write the same objects,
  whole lists at a time, without a compare-and-set.
* **Several listings.** The feed and the scheduler list at the same time, and each puts its
  table of the people in use before it normalizes its tasks.
* **Coarse clocks.** `last_modified` has whole seconds, SEQUENCE is made of it.
* **Dates.** A day is an instant in Anytype and a day on the wire; clocks are put forward
  and back, an end is included here and excluded there, and two properties share what one
  field of a VTODO can say.
* **Two ids per person.** A membership and the page that links to it are one person; which
  is which comes from a listing whose reads are not one moment.

`PROJECT.json` lists each of these under `hazards` at the line where it bites.

## 2. The modules

| Module | Models | Extends / uses |
|---|---|---|
| `CachedSource` | what the feed promises, abstractly | |
| `Feed` | `FeedService` | instantiates `CachedSource` as `C` |
| `Reminders` | the scheduler's pass, `PushService::notify`, subscriptions | |
| `Series` | the generator's pass, upkeep and claims | |
| `Calendars` | who sees a task in which calendar, and what a move makes of the assignees (no state) | |
| `Tasks` | PUT and DELETE of a task over the feed and Anytype | extends `Calendars`, instantiates `CachedSource` as `C` |
| `Events` | GET, PUT and DELETE of an event, a series or a deadline over the service's snapshot and Anytype | |
| `Clock` | time zones, and instants, days and civil times in them (no state) | |
| `TaskDates` | a task's dates as a VTODO and back (no state) | extends `Clock` |
| `EventDates` | an event's dates as a VEVENT and back; a series expanded (no state) | extends `Clock` |
| `Generated` | the dates of what the generator makes (no state) | extends `TaskDates`, `EventDates` |
| `WriteBack` | a client that saves an object's dates and reads them again | extends `Generated` |
| `Directory` | people, their pages and ids (no state) | |
| `Documents` | the settings' documents | |
| `Accounts` | the listing of a space, signing in, moving a task, keeping a document | extends `Calendars`, `Directory`, `Documents` |
| `FeedProofs`, `RemindersProofs`, `SeriesProofs`, `CalendarsProofs`, `TasksProofs`, `EventsProofs`, `WriteBackProofs`, `AccountsProofs` | proofs about the module of that name | `TasksProofs` and `AccountsProofs` use those about `Calendars`; `AccountsProofs` is also about `Directory` |
| `MCFeed`, `MCReminders`, `MCSeries`, `MCTasks`, `MCEvents`, `MCWriteBack`, `MCAccounts` | values of constants for TLC, symmetry | |

`CachedSource` is the joint between two layers. `Feed` implements it, which is checked by
the run `feed` and proved as `FeedImplementsCachedSource`. `Tasks` is built on it: its feed
is `C!Replace` and `C!Tell`, and nothing stronger. `CachedSource` does not say that an
answer called fresh shows earlier writes, because the code does not guarantee it (see
`feed_read_your_writes` below), and `Tasks` does not assume it: a request may be answered
with a snapshot from before any write. What `CreateSeesEarlierTasks` and `DeleteSeesTheMove`
say is therefore relative to the snapshot that the request was answered with. From one that
is older, a PUT makes a second task and the DELETE of a move archives the task it moved
(`tasks_moved`). What the feed does guarantee is `OwnRefreshSeesFoundWrites`.

### Feed

| Model | Code |
|---|---|
| `snapshot`, `last_attempt`, `last_ok` | the `State` under the mutex. A snapshot is the version of Anytype's tasks it shows; `last_attempt` is none, recent, or aged beyond `min_refresh_interval` |
| `refresh_guard` | the `tokio::sync::Mutex` and who holds its guard |
| `generation`, `generation_before` | the watch channel and what a waiter read of it |
| `version`, `indexed`, `uninvalidated` | Anytype's tasks, those of their changes that search finds, and the writes whose `invalidate` is still to come |
| `CheckCache`, `ReadGeneration`, `TryLock`, `Wake`, `WaitTimesOut`, `Answer` | `get`, cut at each point where another request can run |
| `ListTasks`, `Refreshed`, `RecordFailure`, `Announce` | `refresh` and `record_failure`; the timeout around them is `RecordFailure` |
| `Disconnect` | hyper drops the future at an await |

A write in Anytype and the `invalidate` that follows it are separate actions: a refresh can
read before the one and store after the other. A third is `Index`, by which search gets to
know the write, at once or much later (`SearchLags`): `invalidate` does not wait for it.
`list_tasks` pages through a search; a body is the version of Anytype all of whose changes
search found when the first page was read. That later pages show newer versions of some
objects, or that an object moves between pages and is missed, is not modelled. Every action
that holds the state mutex is one step, because the mutex is never held over an await.

### Reminders

A *moment* is an object and an instant, the key of `handled_reminders`.
`planned` gives each object the instants that `reminders_for` would return; the
arithmetic of leads is not modelled. `pc` follows the pass: tasks are read
(`ReadTasks`), the audience is counted (`CountAudience`), events are expanded
(`ReadEvents`), then each due moment is held, skipped, expired or claimed, and a
claimed one is sent endpoint by endpoint (`ReadTargets`, `Push`, `Prune`). The
recipients depend on `assigned`, what the pass read, and on `subscriptions` at
the time of sending. `Crash` and failures keep the tables and lose the pass. A
missing row of `subscriptions` is `NotSubscribed`, a device without an account
is `Everyone`. `pushes`, `owners` and `responsible` are history variables.

### Series

One series, and the days of it that lie ahead within the horizon. A *form* is all the
generator writes to a meeting: its look and its end, if it has one. `rrule` tells whether
there is a rule (and a start), one that does not parse, or one that does: a day in `exdate`
is out before the rule is parsed (`Considered`), other days of a broken rule are left as
they are. A claim is a row of `generated_instances`: it has a fingerprint (`shape`), a
digest of the body (`body`), and an age, which is fresh or past `SETTLED`. `pass[w]` is what
a worker has read and where it stands; a worker is the service or the command. A pass reads
the series and the instances, then claims, creates and records each missing day, then plans
its upkeep from what it read and carries it out job by job. `Index` is search getting to
know an object. `Settle` assumes that no create lasts longer than `SETTLED` (ten minutes)
and that search finds an object by then.

`Archive` has no guard on the meeting, as the code has none: a second process may archive
what another one has archived already, succeed, and then release the claim of the meeting
made in its place. Three histories tell what the properties have to except: `lost` counts,
per day, creates that worked and were told to have failed; `twice` the archivings of a
meeting already gone, by one of several processes; `strayed` has the meetings that a claim
of their day does not describe, though nobody changed them by hand: a rewrite that was not
recorded, an end that stays because an update cannot clear it, the second of two meetings.
`Kind::Event` is modelled; a task series makes the same pass without recording and upkeep.
Days do not interfere with each other except through `exdate`. Instances that a person made
by hand are left out: the code tells them apart by their missing claim and does nothing to
them.

### Calendars and Tasks

`Calendars` has the functions that decide in `feed.rs`, `caldav/home.rs` and
`caldav/tasks.rs`, each on its own, where a task is shown: `partition` files it
under its first assignee, `collection_view` moves a shared one to its reader,
`locate` says which calendar serves it. A space is a function from names to
assignees in order.

`Tasks` follows requests on one resource name. `past` is the history of the objects that
have this name, so that what a snapshot shows, what a client's body was made from, and what
the fresh read returns are positions in it. A request comes (`Send`), is located in the
snapshot it is answered with (`Locate`), reads the object (`Get`), writes (`Create`,
`Update`, `Archive`) and tells the feed (`Invalidate`); each can fail, and each write can
work and be told to have failed (`Ends`). What a request says beyond what its body is based
on is chosen in `Locate`, where it first matters, which saves TLC the states in between.
Clients address calendars of their home set, and the flat calendar as nobody in particular.
The values of a field are named by their writers, so that an edit undone is an edit seen.
Status codes are not modelled, only which of them end the request. A snapshot shows all
objects as of one version. A body that a client makes from a task it was served carries the
SEQUENCE it was served with, which the client may raise; a client that leaves SEQUENCE out
has its body taken as it is (`render.rs:99`), and is not modelled.

### Events

Everything that one resource name stands for. An object is an event, a series, an
occurrence that replaces one of a series (`series` and `occurrence` say which), a
meeting of a `recurring_event`, or has a deadline that is served as an entry of
its own. `Resource` is `render_series`: the master's fields and the replaced
occurrences; its value is its ETag too, as the ETag is a digest of what is
served. A request comes (`Send`), is located in the snapshot (`List`, `Store`,
`Locate`, `Answered`), reads the event and what replaces its occurrences
(`GetEvent`, `ListReplacements`), and is refused or planned (`Decide`,
`PlanUpdate`, `PlanDelete`). A plan is a set of writes in the code's order: the
master, then updates, creates and archivings, each an action of its own
(`ApplyMaster` ... `ApplyArchive`), each of which can fail or be done and be
reported failed. PROPFIND and REPORT serve the same snapshot as a GET.
How old the snapshot is shows only when a request asks for it: `List` is enabled with
any snapshot, as its ttl may have passed by then, and without one.
`disturbed` is history: others wrote, or search lagged, after the request had
read the event, which no code without a compare-and-set can see. Values stand
for an event's name, place, times and alarms, which are written one for one.

### Clock, TaskDates, EventDates, Generated and WriteBack

A day has `SlotsPerDay` slots; an instant is a number of slots. A zone is an
offset before and after one change of its clocks; `Civil`, `Earliest` and
`Ambiguous` are what chrono says of it, gaps and repeated hours included. A moment
on the wire is a day, a UTC instant or a civil time with TZID.

`TaskDates` has `schedule` and `wire` of `render.rs` (which of plan, deadline and
week make DTSTART and DUE) and `for_update` and `for_create` of `writeback.rs`
(what a body means for the three properties). `EventDates` has `vevent_for`,
`event_patch_for_update` and `event_patch_for_create`, and the two expansions of a
series, `occurrences_between` for reminders and `upcoming` for the generator.
`Generated` has `event_end`, `carried`, `whole_week` and the dates of `create_event`
and `create_task`. Each function of the code is an operator of the same name, and
an optional date is a set of at most one.

`WriteBack` is one object and one client: it saves any dates (`SaveTask`,
`SaveEvent`), or makes an object (`CreateTask`, `CreateEvent`), and reads it again,
from every object there can be with the dates of a run. The invariants are about
an object that is served and comes back unchanged; the action properties are
about what a save leaves.

### Directory, Documents and Accounts

A person has a membership of the space and, perhaps, a page that links to it. Either may be
an assignee. `Directory` has the functions that make of pages and members the table
`profiles_by_participant`, the names of the calendars and the holders of accounts,
`normalize_assignees`, and `accounts::holders`, which claims to mirror them. `Documents` is
check-then-write on a document of one reader: `CheckPut` is the comparison with `If-Match`
or `If-None-Match`, `Save` the write after it. A read of the document that fails is taken
for none (`settings.rs:126`); `checked` and `blind` are history: the saves there were at the
check, and whether its read failed.

`Accounts` puts them beside the listings. There are two listers, the feed and the scheduler,
over one source and one `table`. The reads of a listing (`ListTasks`, `VerifySchema`,
`ReadPages`, `ReadMembers`) let people edit in between, and what search shows of an edit
late is an edit that comes later. `ReadMembers` puts the table in use under the write lock;
`NormalizeTasks` takes a read lock anew, and the other lister may have replaced the table by
then. `mixed` is the history of that, in a batch, in the snapshot made of it and in the
requests located there. The code takes that lock for each task; the model has one task. A
refresh of the feed ends with `Publish`; the scheduler's batch goes on in `Reminders` and
publishes nothing. Requests sign in by the snapshot (`MaySignIn`), find the task in it, read
it (`ReadTask`), normalize it through the table there is by then (`NormalizeTask`), and
write its assignees (`Locate`, `WriteTask`). `located` and `used` are history: the two
tables a request met.

## 3. The runs

`CHECK_DEADLOCK FALSE` is set where a model ends and the program would wait for the
next request: every request is answered once, and edits, faults and time are bounded.
`Accounts` goes on for ever, because listings do.

| Run | Shows |
|---|---|
| `feed` | three requests, one write, which search finds at once or late: the guard is never leaked (`GuardNeverLeaked`), a request that refreshes sees the writes that the feed was told of and that search had found (`OwnRefreshSeesFoundWrites`), the feed implements its abstract specification (`ImplementsCachedSource`), a feed that served once turns nobody away (`ServedOnceServedAlways`), every request ends (`EveryRequestEnds`) |
| `feed_read_your_writes` | *violated*: a fresh answer may be older than a write that was invalidated before the request, even with a search that never lags |
| `reminders` | two devices, one task, one event, two failures: at most one push (`AtMostOncePerDevice`), only after a durable claim (`SentOnlyWhenClaimed`), only to those concerned (`OnlyThoseConcerned`), none used up before the first subscription (`HeldForTheFirstDevice`), a due one is handled in the end (`DueTaskIsHandled`) |
| `reminders_all_day` | *violated*: the reminder of an all-day event may come hours after its start, when the event is no longer expanded |
| `series` | a worker that fails and crashes, or two at once that do so as well, with fewer edits: one meeting per day but for creates that were lost and meetings archived twice (`OneMeetingPerDay`), a deleted one stays deleted on days without those (`DeletedStaysDeleted`), each occurrence is made (`EveryOccurrenceIsMade`), an untouched meeting that its claim describes follows its series, through failures and crashes (`UntouchedMeetingFollowsSeries`) |
| `series_excluded` | *violated*: after a crash between a claim and its create, the day is put on the series' `exdate` as if its meeting had been deleted by hand |
| `tasks` | two requests at once that may fail, or one among edits and archivings: no second task is made of one that was there ever since the snapshot a PUT was answered from (`CreateSeesEarlierTasks`), a DELETE answered from a snapshot that shows the move leaves the task alone (`DeleteSeesTheMove`), a body undoes no edit made after it (`EditsOfOthersSurvive`), each reader meets each task in one calendar (`EachTaskShownOnce`), a move ends where it was sent (`MovedIsShownThere`) |
| `tasks_moved` | *violated*: when no refresh after a move's PUT shows it, because it failed or read too early, the DELETE is answered from the snapshot before and archives the task that was handed over |
| `events` | four turns of requests, edits and failures: a save that succeeds leaves what was sent, whatever earlier ones left half done (`SavedSeriesIsAsSent`); every event is served, once (`EveryEventIsServed`); If-Match protects every occurrence (`IfMatchProtectsOccurrences`); a DELETE leaves no orphans and can be repeated (`DeletedSeriesIsGone`); a meeting that is deleted is excluded first (`DeletedMeetingStaysOut`) |
| `write_back` | every task and event with dates on three days in five pairs of zones: what comes back unchanged writes nothing (`UnchangedTaskIsLeftAlone`, `UnchangedEventIsLeftAlone`), what is saved is what is served next (`TaskIsAsSent`, `EventIsShownAsSent`), DUE comes after DTSTART (`ShownPairIsOrdered`), the only date stays plan or deadline (`TheOnlyDateKeepsItsRole`), a deadline not shown is not moved (`HiddenDeadlineIsKept`), reminders and meetings are of the occurrences a client shows (`RemindedIsShown`, `MeetingsAreShown`), and a meeting or task made of an occurrence has the dates of the series, moved (`MadeAsTheSeriesIs`) |
| `accounts` | the listings of the feed and of the scheduler among edits and failures, requests and saves: one calendar per person, unless the two listings mixed their tables (`OneCalendarEach`); a task taken out of a calendar addresses its person by neither id, where it was located and read through one table (`TakenOffForGood`); accounts follow the space in the end, and a second calendar goes away (`AccountsFollowTheSpace`); a conditional save overwrites nothing its device has not seen but what was saved since its check, and, under If-None-Match, what its check could not read (`EarlierSaveIsKept`) |
| `accounts_taken_off` | *violated*: a listing that has replaced its table and not yet published its snapshot makes a DELETE take nobody off the task, and report success |

Each violated run has an entry under `findings` with the sentence of the source
it refutes.

### Bounds, and why they are enough

* **feed**: three requests give a refresher, a waiter on it, and one that comes after
  either; `MaxVersion = 1` gives a body before and after a write, which search finds at any
  time. `feed_read_your_writes` has a search that finds it at once. Disconnects, timeouts
  and failures are not bounded.
* **reminders**: `MaxTime = 2` with `LateWindow = 1` lets a moment be early, due, late and
  expired. Two edits reassign a task away and back, or move a device from one owner to
  another. Two faults are a failure and the crash that follows.
* **series**: three meetings let a day have one, a double, and one made again. Two edits
  change the series and then its meeting. `Scenario` and `UpsetsLeft` are the bounds: one
  worker with two edits, a fault and a crash, of which any three happen (`MaxUpsets`); or
  two workers that meet two edits, or one edit and then a fault or a crash, or one of these
  (`MaxTogether`). In either case there are behaviours without any failure and such with
  one, so that the premises of the liveness properties are met, and refused, with two
  workers as well. `series_excluded` has two days because the claimed day must be another
  than the one that is made.
* **tasks**: two objects are the one that was there and the one made beside it, or two
  creates. `MaxSecond` lets writes fall in the same second or not. In `Scenario` the other
  writer is the other request, or two edits in Anytype. Two people are a pair of assignees,
  the one a task is moved from and the one it is moved to, and either reads; that it is so
  for more of them is proved. `tasks_moved` has no edits.
* **events**: one client with four turns, which requests, edits in Anytype and failed calls
  share: a PUT that fails half way, an edit, and its retry are three of them. Three objects
  are a series, an occurrence and another one; two occurrences are one that took place and
  one ahead. A second client writes what an edit in Anytype writes.
* **Views.** `tasks`, `tasks_moved`, `events`, `series` and `accounts` compare states by
  `Relevant`, which leaves out what no later step and no property reads: the condition of a
  request that has passed it, what a request that is done had been told, the snapshot and
  the copies when nobody will ask or send any more, a body that only an undisturbed request
  is judged by; what a generator's pass has read and used, and the shape of a meeting that
  is gone; the tasks of a scheduler's pass, and which of two devices is which. Two states
  that agree on the rest have the same steps and violate the same properties, so that no
  state of interest is lost.
* **write_back**: a day of four slots has a midnight, a morning, a noon and an evening; a
  week of two days has a Monday and a Sunday; three days hold a week and a day beside it.
  The pairs of zones are: without a change; forward at midnight, so that a day has none;
  forward at noon; back at noon; and, without weeks, a time zone that differs from that of
  the days.
* **accounts**: two people with a membership and a page each, in six spaces: all linked, one
  page linking both, one not linked, one not active, nobody assigned, and one with a single
  page. `Scenario` combines two edits, between any two reads, and a failure; or one edit and
  a failure with a pass of the scheduler or with a request; or one edit, a pass and a
  request together, in the last of the spaces (`BusySpaces`), which has the fewest edits to
  choose from. One pass (`MaxPasses`) is a table put in use at any moment of a refresh,
  before or after an edit. Two devices, four turns and three saves, with an error of the
  state file, are a save between another's check and its write, and one after it; they need
  no listing beside them.
* **Symmetry** is used for requests, people, fields, clients and values, and only in runs
  without liveness.

### Fairness

* `Feed`: weak fairness of each request's own steps. tokio polls a woken future, and the two
  waits have timeouts (`WaitTimesOut`, `RecordFailure`). Clients, writers and the clock of
  the interval are not fair.
* `Reminders`: weak fairness of the scheduler's steps without failures (its loop ticks every
  poll interval and survives a failed pass), and of the clock. Nobody has to edit, subscribe
  or fail.
* `Series`: weak fairness of each worker, and of search finding each object. Nothing makes a
  claim settle. `EveryOccurrenceIsMade` excludes passes cut short: a claim without a meeting
  stays, which is what `series_excluded` shows. `UntouchedMeetingFollowsSeries` allows for
  failures and crashes, and leaves out single meetings: those changed by hand, and those
  that strayed, for a rewrite whose fingerprint was not recorded makes the meeting count as
  changed by hand. A meeting that a later claim describes again counts again.
* `Accounts`: weak fairness of the feed's listing as a whole. It rests on the clients alone:
  calendars sync, so that somebody keeps asking for the feed. The scheduler's passes do not
  refresh it and are not fair, nor are people and requests.
* `Tasks`, `Events`, `WriteBack`: none, safety only.

## 4. The proofs

All are for every value of the constants under the named assumptions of the
modules, which TLC evaluates in the runs.

**FeedProofs.** `FeedInv` is inductive: types; whoever is refreshing holds the guard
(`HolderRefreshes`, without which two refreshes could overlap and store in the wrong order);
a reading under way is no older than the held body (`ReadsAreOrdered`) and no older than
what was invalidated and found by search when its request came (`ReadsAreRecent`); a request
that has not ended was told nothing (`Unsaid`). From it follow `FeedTypeCorrect`,
`GuardIsNeverLeaked` and `OwnRefreshIsCurrent`. `FeedStepIsCachedStep` maps each step to a
step of `CachedSource` or a stutter, which gives `FeedImplementsCachedSource`.
`NobodyIsTurnedAway` is proved on the abstract side: in `CachedSource` a body once held
stays, so the property holds of whatever implements it.

**RemindersProofs.** `RemindersInv` adds to the checked invariants what the pass
holds: the moment being sent is claimed as attempted and its remaining targets
have not been told (`SendIsClaimed`), the histories include the present
(`HistoriesKnow`), and the targets are concerned (`TargetsAreConcerned`). The
argument for `AtMostOncePerDevice` is that a push needs a target still to be
told, targets are only set after a claim, and a claim succeeds once. The results
are `RemindersTypeCorrect`, `ToldAtMostOnce`, `SentMeansClaimed`,
`RemindersStayPrivate` and `FirstDeviceIsAwaited`.

**CalendarsProofs.** `ShownWhereServed`: `collection_view` lists a task for a
reader in exactly the calendar that `locate` says serves it. From it,
`NoTaskIsUnserved` and `OwnTasksAreAtHome`.

**TasksProofs.** `TasksInv` says what a request may go on from across its awaits. Its parts
are the types with three facts about versions (`Typed`); that one version differs from the
one before in one object only (`OneChangeAtATime`); and for each request `GoesOnFrom`: it
was told of a version that existed (`ToldOf`), the task it located was there (`FoundThere`),
or at some moment since that version there was not exactly one (`FoundNothing`), only a
DELETE is about to archive, and a PUT is about to write a field its client did not edit only
if somebody's later value was known to the client by `last_modified` (`WritesWhatWasKnown`).
`past` only grows, so each of these, once true, stays true until the request's next step;
that is the argument of `TasksStep`.

From it follow `TasksTypeCorrect`, `EditsOfOthersAreKept`, `MovesAreShown`,
`CreatesSeeEarlierTasks` and `DeletesSeeTheMove`. None assumes how recent an answer is: the
last two say what holds since the snapshot of the answer, and of a DELETE whose snapshot
shows the writes the feed was told of. `EachTaskIsShownOnce` needs the types only: by
`ShownWhereServed` the calendars that show a task to a reader are the one that serves it.

**SeriesProofs.** `OneMeetingPerDay` counts. For a day, take the meetings that are there,
that a user deleted, or that a lone process has seen and may still archive (`Counted`), and
the workers that are about to make one or to give up the day's claim (`Busy`): together they
are at most the creates whose answer was lost, plus the archivings of meetings already gone,
plus one while the day is claimed (`Balanced`). A claim that succeeds makes room for one, a
create turns a busy worker into a meeting, archiving turns a meeting into a busy worker, or
makes a place where another process was first, and releasing frees both. That a lone process
needs no place when a user deletes the meeting it is about to archive, and that its releases
free no other claim, rests on three more parts of `SeriesInv`: a settled claim has no create
under way and a meeting that search finds (`SettledIsFound`); what a pass has read and
planned is about meetings that were made, of the days it says, each taken up once
(`PassesAreSound`); and a worker that is alone may rely on what was settled at its start,
and archives only days taken out of the rule (`TheLoneRelies`). The lemma `WorkSteps` sorts
the actions of a worker into ways of touching meetings and claims, and each part is shown
for those. The results are `SeriesTypeCorrect`, `DaysHaveOneMeeting` and
`DeletedMeetingsStayDeleted`, for any number of processes, failures and crashes. They assume
what `Series` assumes: that a create is over and indexed by the time its claim settles.

**EventsProofs.** A PUT of a series is several writes, each an await, and the
invariant has to say what is true between any two of them. `EventsInv` consists of
the types; of `Linkage`: only an object without a name is linked, and to one that has
or had the name; of what snapshots, copies and requests are about (`ServesKnown`,
`Addressed`); and of `Undisturbed`: as long as nobody else wrote since a request read
the event,

* at "list" the master is what it read (`Reads`);
* at "apply" (`Applies`) the master is as the body says, or its patch makes it so
  (`MasterAgrees`); each write makes its occurrence what the body says
  (`WritesAgree`); each occurrence of the body is there or to be created, with its
  value or an update to it (`SentIsThere`); what is there and not in the body is to be
  archived, unless it is a meeting that may stay (`OnlySentIsThere`); what is to be
  archived of a `recurring_event` is in the body's `exdate` (`ArchivesExcluded`); and
  under If-Match the client changed each occurrence the plan touches (`Protects`);
* at "delete" whatever is linked to the series is to be archived, or the record of
  what took place (`Deletes`).

`PlannedApplies` shows this of a plan when it is made, from what the ETag compares;
each `Apply...Keeps` shows that a write takes from the plan what it adds to Anytype.
When the plan is empty nothing is left to come, and `SavedIsAsSent` follows;
`ExcludedBeforeItGoes` needs that archivings come after the master, `SeriesGoesLast`
that the list of a DELETE is empty before the series goes. `OnlyChangedIsWritten`
adds that a write is one of the plan's (`WritesAreOfThePlan`). `NothingDisappears`
needs no request at all: an occurrence is linked to one series, which either recurs
and holds it or leaves it alone.

**AccountsProofs.** First what holds of any directory. `NormalizedIsOwn`: no assignee is a
membership that has a page, after normalizing through any table. `AccountsAreListed`:
whoever may sign in has an account that the command lists. `HoldersAgree`: the two
derivations of the holders agree unless two pages link one active member.

Then the requests. `ListsAreKeyed` is inductive: what was normalized through a table, in the
batch and in the snapshot, has no membership to which that table gives a page; and while a
lister has put its table in use and has yet to normalize, either that table is still the one
in use or the batch is `mixed`. `OneCalendar` follows. `RequestsAreKeyed` adds that a
request takes from and brings to calendars of the table it was located by, unless that
snapshot is mixed, and that the list it read is normalized by the table it used; when both
are one table, what `Left` writes addresses the person no more, which is `TakenOffStaysOff`.
`PutsPassed` is about saves under way: whatever the document has become by now, it is one
that the save may overwrite (`MayReplace`): the one its device has, one saved after the
check, or any, where If-None-Match met a read that failed. Saves of other devices keep it,
as they come after the check. `SavesAreConditional` follows.

What `Without` (a filter) leaves of a list is proved in `CalendarsProofs` as
`WithoutIsWithout`, by the least entry for which it fails instead of by induction
over the list, since induction needs an operator as a parameter.

**WriteBackProofs.** The steps of `WriteBack` are simple and its operators are not: most of
these proofs are lemmas about dates, for every length of a day and of a week, every pair
of zones with a change of any size, and any instants. `DatesInv` is inductive and short:
an object has the fields of its kind, each with at most one instant; a task has a week only
with weeks on; an event has exclusions only with a rule. Initial dates and every patch
that `ForUpdate`, `ForCreate`, `EventPatchForUpdate` and `EventPatchForCreate` compute
keep it (`TaskPatchesAre`, `EventPatchesAre`). What the theorems rest on:

* *Clocks.* A civil time is shown first at one instant if at all, and at that one if the
  zone does not repeat it (`EarliestIs`, `EarliestIsThere`); clocks go forward but for the
  hour they repeat (`CivilsInOrder`), and a pair that is evenly apart at both ends is so
  all the way (`EvenClocks`).
* *What is shown.* The renderer shows one of four shapes, with a pair in order (`WireIs`,
  `ScheduleIs`); an event shows its first and last value in one value type
  (`ZonedDatesAre`). From these follow `UnchangedTasksAreLeftAlone`,
  `ShownPairsAreOrdered` and `UnchangedEventsAreLeftAlone`.
* *What is held.* A moment that is on no edge of a day, not repeated, and has a midnight if
  it is a day is read from Anytype as it was stored (`HeldAsItIs`). `Holds` lists the ways
  in which a task holds what a client sent: in either field or in both, as a plan and a
  deadline, or as a week; each is shown as what was sent (`HeldIsShown`), and each save
  leads to one of them (`NewTaskHolds`, `UpdatedTaskHolds`). So `TasksAreAsSent`; likewise
  `EventsAreShownAsSent` by way of `SavedEventIsShown` and `SavedExdatesAreShown`.
  `RolesAreKept` and `HiddenDeadlinesAreKept` follow from the shape that was shown.
* *A series expanded.* Each day has one occurrence at most (`OccurrenceOfDay`), so that
  leaving out a day and leaving out an instant agree: `MeetingsAsShown`. A client steps
  through civil times or days, the scheduler through instants, and both meet the same
  (`RemindedTimes`, `RemindedDays`): `RemindersAsShown`.
* *An occurrence, moved.* Where the clocks run evenly until the end, start and end are as
  many days later on the clock as the occurrence is (`OccurrenceMoved`, `EndsMoved`),
  classification and rendering commute with that (`EventsMoved`, `PairMoved`), and a task
  kept by its week is shown with the same two days (`GeneratedTask`): `MadeAsTheSeries`.

The proofs found three conditions that the properties now name. A day that a client sends
needs a midnight to be stored as (`HasMidnight`), where a zone has none. `RemindedIsShown`
needs excluded instants to be in the first pass of a repeated hour, also in the zone of the
configuration. And `ExdateSets` of an event without a rule are not a state of the program.

**Only model-checked.** Liveness under fairness (`EveryRequestEnds`, `DueTaskIsHandled`,
`EveryOccurrenceIsMade`, `UntouchedMeetingFollowsSeries`, `AccountsFollowTheSpace`), which
is out of the prover's reach, and the violated runs. Every safety invariant and action
property of a passing run is a theorem. `WriteBack` has a daily rule, as far as
`Horizon` goes; that other rules are expanded alike is not claimed.

The runs check `TypeOK` where a wrong type would be a wrong step, in `Tasks` and
`Feed`. It is proved there and in `Reminders`, `Series`, `Events`, `Accounts` and
`WriteBack`.

## 5. Not modelled, and why

* *Configuration, locale, installer, deployment*: parsing and wiring before anything
  runs beside it. `main.rs`'s abort on a signal is the crash of the other modules.
* *HTTP, XML, paths*: routing and syntax. The published feed's validators keep no
  state; that `If-Modified-Since` compares the newest modification, so that a
  deletion alone looks like no change, is a matter of one comparison.
* *Display names*: a PROPPATCH writes one row whole and nothing is read before it.
* *Passwords*: compared by a library.
* *In the modelled parts*: the text of notifications, ctags, diagnostics and
  rendered bytes; rules of recurrence other than every day; leads; templates;
  several series at once; several resource names at once; status codes; events
  shown among tasks (`events_in_tasks`); iCalendar's syntax.

### Known, and not singled out by a run

The code does the following. The models contain it, and the properties except it by
name or ask for nothing that it would break:

* An assignee added between `put`'s read and its write is dropped; an `exdate` added during
  a pass is overwritten; hand edits made between a pass's read and its rewrite are
  overwritten; a name that was removed as gone takes a new subscription of the same endpoint
  along.
* A claim of a reminder is spent when anybody is subscribed, also when the task concerns
  none of them.
* A series that loses its end leaves the old one on its meetings, which count as changed by
  hand from then on (`series.rs:966-968`; `strayed`).
* A create of a meeting whose answer is lost is made once more, and what a user then deletes
  may have a double (`lost`). Two processes that archive one meeting may give up the claim
  of the one made in its place (`twice`).
* A PUT answered from a snapshot that does not show the task, called fresh or not, makes a
  second one under its name.
* A pass of the scheduler that falls between the two locks of a refresh leaves tasks
  normalized by its table in the feed's snapshot: a person has a second calendar until the
  next refresh (`mixed`).
* If-None-Match on a document overwrites the one there is when the check's read fails, and
  of two saves that pass their checks at once the second one overwrites the first.
* A create of an event that fails, and the PUT and DELETE of a deadline that fail, do not
  invalidate the snapshot; a listing under way when another request invalidates is stored
  after it.
* While search does not find an occurrence that was made, a PUT of the series makes it
  again. `read_series` takes every object linked to a series.
* A series without a start hides the occurrences it should hold.
* A body of a series sent without If-Match, made from an older copy, overwrites occurrences
  edited since: only the master's SEQUENCE is compared.
* In an hour that a clock shows twice, a time with TZID is its first pass, and two instants
  of it may be shown in the wrong order. An `exdate` in the second pass is served as the
  first, so that a client leaves out what the scheduler does not.
* A day without a midnight has no stored form: the date is left out silently
  (`writeback.rs:144`).
* A save that is repeated on a task with a deadline that is not shown may differ from the
  first: what is hidden after the one is what the other sees.
* A plan on a Monday with a deadline on that Sunday becomes a week when it is sent back.
* `upcoming` leaves out a day, `occurrences_between` an instant: an `exdate` beside the
  rule's time leaves out a meeting and not its reminder.
* What is made of an occurrence has the length of the first one in hours, so that across a
  change of clocks an all-day end is off its midnight, and a task of a week does not take
  the week.
* Where two pages link one member, `accounts::holders` lists both and the directory keeps
  the last.

## 6. Plan

Done, in this order: `CachedSource`, `Feed`, `FeedProofs`, `Reminders`,
`RemindersProofs`, `Series`, `Calendars`, `Tasks`, `CalendarsProofs`,
`TasksProofs` (one property), `Clock`, `TaskDates`, `EventDates`, `WriteBack`, `Events`,
`Directory`, `Documents`, `Accounts`, `AccountsProofs`, `Generated`, `SeriesProofs`,
`TasksProofs` (all safety properties), `EventsProofs`, `WriteBackProofs`. Every safety
property that a passing run checks is now a theorem.

Next, most important first:

1. An abstract specification of a calendar that holds each occurrence once, which
   `Series` implements as long as no answer is lost, from `SeriesInv`.
2. The accounts: that a listing ends with the directory of one moment when nobody edits.
3. Weekly rules in `EventDates`, for which `NthIs` is the lemma to state anew.
