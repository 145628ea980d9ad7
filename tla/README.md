# SessionWarden in TLA+

SessionWarden limits how long and when the users of a Linux machine may use
it. A root daemon listens to systemd-logind, keeps each user's sessions and the
time spent in them, answers PAM whether a user may log in or unlock, and locks
sessions that are no longer permitted; `swctl` lets administrators pause users and
grant them exceptions. These modules model its state and every operation that
changes it, check them with TLC on small instances, and prove with TLAPS nearly all
of the safety properties for every value of the constants: of the records and their
abstract specification, of the watcher, the methods' memory, the daily limit, of
what administrators and paused users are promised, and of the daemons.

Paths below are relative to the repository.

## The system

| part | state it keeps | operations |
|---|---|---|
| session records, `internal/session` | users, each with sessions, overrides and a pause flag; a session has segments, the intervals it was unlocked | add, end, lookup by ID, segments, time used today |
| state manager, `internal/state` | the map of users in memory, `state.json` and its modification time, a mutex | `HandleLogin`, `HandleLogout`, `HandleLock`, `HandleUnlock`, `HandleSleep`, `Save`, `Heartbeat`, `GetState`, load and start-up checks |
| watcher, `internal/loginctl` | a channel of ten signals | turns logind's signals into calls of the handlers |
| D-Bus service, `internal/ipc` | none | `CheckLogin`, `GetUserStatus`, `PauseUser`, `ResumeUser`, `AddOverride`, `ListOverrides`, `RemoveOverride`, `SendNotification` |
| policy, `internal/eval` | none | `PermitLogin`, `GetTimeRemaining`, `CheckSendNotification` |
| configuration, `internal/config` | a section per user and a default one | load, fill in defaults, ranges and weekends |
| engine, `internal/engine` | a ticker | every minute: lock or warn each user; lock a paused user |
| PAM module, `pam` | none | asks `CheckLogin` in the auth and account phases |
| daemons, `cmd/sessionwardend` | the threads of the process, their connections to the bus, the configuration | start and stop the above; the user daemon shows notifications |
| `swctl`, `cmd/swctl` | what the administrator was shown | `override add`, `list`, `remove`, `pause`, `resume`, `user`, `notify`, each a D-Bus call |

**Interaction.** logind's signals go through the channel to the watcher, which
calls a handler, one at a time. D-Bus methods run in a goroutine per call, the
engine in one of its own. All three share `state.Manager`: handlers hold its
mutex to their return, methods and engine only inside `GetState` and `Save`.
PAM and `swctl` reach the methods over D-Bus.

**What is hard.**

* Concurrency: `GetState` hands out the shared state, so methods read, change
  and write users outside the mutex, with copies whose slices share arrays.
* Ordering: signals overtake each other when the channel is full, come again
  after a wake, and are handled later than they were sent.
* Failure: saves fail and are ignored; the daemon stops and misses signals;
  the power fails, and what was open must be ended at the time of the last
  heartbeat, which is the modification time of the file.
* Reuse: logind counts session IDs from the start at each boot, so the records
  hold the same ID several times, for one user or for two.
* Time: permission is computed by one function and its end predicted by
  another; a permitted unlock is enforced only by later rounds; time is charged
  to the day a session began.
* Parts that fail alone: a thread ends with an error and the process goes on, the
  bus goes and comes back, a configuration does not load; systemd restarts only
  a process that failed.
* Stale views: an administrator removes an override by an index in a listing.
* Steps apart: PAM permits a login, then the session begins, then its signal is
  handled; a pause sets a flag, saves it, then locks what it finds active.

**What makes each part correct.** Records: segments never overlap and are open
at most at the end, one active record per session ID, recorded time is never
taken back. Manager: no session survives a power loss, the file never holds a
time after its modification time. Watcher: the records follow logind and
charge no more than the unlocked time. Methods: a change that returned stays,
and is saved; every call returns. Policy and engine: the countdown tells when
the lock comes, the lock comes within a round, one warning comes before it, the
time charged is the time spent, a pause locks. Console: what a call acknowledged
stands, and indices shown stay good, as long as no one else has the user in hand. Daemons: a stop ends the process, what
failed is restarted and works again, a notification is shown once, to its addressee.

## Modules

| module | models | state and steps |
|---|---|---|
| `SessionRecords` | `internal/session` | operators only. `Session`, `User`; `AddSegment`, `EndSegment`, `End`, `AddSession`, `EndSession`, `GetSessionByID`, ... have the names of the methods |
| `StateManager` | `manager.go`, `handlers.go`, `state.go` | `users` is `m.state.Users`, `disk` is `state.json` with its mtime, `now`, `powered`, `since` the machine. One action per handler, with the save that ends it; `Heartbeat`, `NewManager` (load and start-up checks), `DaemonStop`, `PowerOff`, `Boot`, `Tick` |
| `SessionLifecycle` | what a user of the manager may rely on | abstract: each session is closed, idle or running in memory and as last saved |
| `LifecycleRefinement` | | the mapping from `StateManager` to `SessionLifecycle` |
| `SessionTracking` | `StateManager` composed with the watcher and logind | adds logind's sessions, the channel and the goroutines that wait for it, sleep, and the time each user truly had an unlocked session |
| `IpcCalls` | the D-Bus methods beside the handlers | one step per access to shared memory; slices are headers into a heap of arrays, as Go has them |
| `Policy` | `internal/eval`, ranges and defaults of `internal/config`, `override.go` | operators only, named as the functions |
| `Enforcement` | the engine's rounds, PAM, the handlers and the administrator around one user, for a day | `used`, `screen`, `usr`; what is still to come of a login (`asked`, `recorded`), of a handler (`copy`) and of `PauseUser` (`pausing`: the flag is set, then saved, then the session locked); `overdue`, `calm`, `warnings` and `spared` only observe |
| `DailyLimit` | `StateManager` composed with PAM, the engine and the screens of several sessions | adds `screens`, the users a round has yet to look at (`todo`), and three observers: minutes spent today in sessions begun today, with any session, and who had two at once. `CheckUser` is one turn of the loop in `checkSessions` |
| `Console` | `swctl` and the methods it calls, beside the handlers | `users` and `disk` as in `StateManager`, but only pause flags and overrides; where each call and the handler are (`at`), the copy each has of a user (`holds`, `copy`), what each administrator was shown, and what calls have answered of each override and pause (`promised`, `pause`). A call copies, changes, writes back and saves in steps of its own; only the last waits for the handler |
| `Daemons` | `main.go`, the start of `Watch`, the emission of notifications, systemd's restarts | where each thread is, whose connection is open, who is in the middle of the map of users, the starts that count for systemd, the bus, the user daemons' channels |
| `StateManager_proofs`, `SessionTracking_proofs`, `IpcCalls_proofs`, `DailyLimit_proofs`, `Console_proofs`, `Enforcement_proofs`, `Daemons_proofs` | | the theorems; that of the refinement is in `StateManager_proofs` |
| `Sums` | | lemmas about sums over finite sets, for durations and extra time |
| `MC...` | | symmetry and example configurations for TLC |

Sessions of a user are a set of records with a position `pos`, not a sequence:
the code only ever appends, drops and takes the first or the last of some. Names
of users, session IDs and overrides are model values. A user record that is not
in the map is `Missing`.

A handler is one step because it holds the mutex throughout; a crash inside it,
after memory changed and before the file did, equals a handler whose save fails
and then a crash. `IpcCalls` opens the handlers up into their accesses, since the
methods do not take the mutex.

External, modelled from how the code uses it: logind (signals, `LockedHint`,
session IDs), godbus (its channel delivery and goroutine per call), Go's
`append`, the clock, the power, the desktop's screen locker.

## Runs

Passing:

| run | checks | shows |
|---|---|---|
| `lifecycle` | `TypeOK`, `FileTimesBeforeMtime`, `SegmentsChained`, `OneActivePerId`, `HistoryKept`, `ImplementsLifecycle` | any handler calls in any order, failing saves, one daemon stop and one power loss over two days leave well-formed records, take no recorded time back, and move each session along the abstract lifecycle |
| `tracking` | `TrackingTypeOK`, `InSync`, `LockedNotCharged`, `NeverOvercharged`, `EndedStopsCharging`, `NoSessionOutlivesBoot` | with prompt, ordered signals the records are logind's sessions and charge at most the unlocked time, none of it to a session that has ended, over sleep and over one power loss, which ends every session and after which another user gets the ID |
| `tracking_disorder` | `InSync` | still so with a full channel, reordered, repeated and late signals, and a daemon restart |
| `ipc` | `TypeOK`, `NoneRevived`, `GrantedOnce`, `DiskCurrent`, `CallsReturn` | two calls against two signals, with failing saves: a stale write-back revives no session that was open before the calls, because the copy shares its array, unless another session's login made `append` move the records; as long as none is removed no override counts twice; memory and file agree when no one is at work; every call returns |
| `enforcement` | `EnforcementTypeOK`, `CountdownAgrees`, `LockedInTime`, `PausedStaysLocked`, `WarnedOnce` | four configurations, overrides that expire during the day or after it, two changes by the administrator or copies by a handler, a failed save or a refused lock, rounds up to a tick late: the lock comes when it was announced, after one warning per threshold, and a paused user stays locked, but for the five ways listed below |
| `limit` | `LimitTypeOK`, `ChargedAsSpent`, `LimitKept`, `RoundLocksLatest` | two sessions of a user across midnight, a restart, extra time: the time charged is the time spent in sessions begun today; each round locks the latest when the limit is spent; with one session at a time no minute is spent beyond the limit and the extra time in force, whenever that expires |
| `daemons` | `TypeOK`, `ShownOnceToAddressee`, `CrashesExplained`, `ShutdownCompletes`, `Recovers`, `NotificationsShown` | whatever fails or is lost, the daemon dies at work for three reasons only (no configuration, the watcher's connection lost, the map of users written while it is used), ends when stopped, works again otherwise unless systemd gives it up, and what reached a user's daemon is shown once, to its addressee |
| `console` | `ConsoleTypeOK`, `AcknowledgedStands`, `ListingStands` | calls step by step beside handlers, failing saves and a restart: unless two copies of the user were out at once (then the user is `raced`, and what is lost is the matter of `IpcCalls`), an acknowledged grant, revocation or pause stands, and an index shown stays good until an override of that user is removed or the daemon restarted |

Refuted, each a disagreement of the code with what the repository says of it
(`PROJECT.json`, "findings"):

| run | property | what happens |
|---|---|---|
| `ipc_duplicate` | `GrantedAtMostOnce` | `RemoveOverride` shifts the array another call's copy still spans; written back, the last override is there twice |
| `enforcement_expired` | `ExpiredIgnored` | allowed hours that have expired replace the configured hours by any hour |
| `limit_midnight` | `DailyLimitKept` | a session of yesterday, unlocked today, is charged to nothing, and runs on past today's limit |
| `daemon_config` | `NeverCrashes` | a configuration that does not load, as with the readme's `daily_limit = "unlimited"`, is nil; the first check dereferences it |

### Bounds

* `lifecycle`: one user and one ID reused across two records of two segments,
  a clock of three ticks with days of two, one stop, one outage. Two records
  are the least that can confuse "first" with "last"; two days reach
  `RemoveOldSessions`; one user because handlers touch one user, except
  `GetUserBySession`, which `tracking` exercises with two.
* `tracking`: two users share the one ID before and after a power loss; a
  channel of two slots; one outage, see below. `tracking_disorder`: one slot and two waiting signals
  are enough for any order of three.
* `ipc`: two calls and two signals; a lost update needs one of each or two
  calls. `Resume` is left out, being `Pause` with the other flag, and the lock signal, which
  does to one session what a sleep does. No symmetry, since it checks liveness. `ipc_duplicate` needs two additions, the removal and a stale copy.
* `enforcement`: a Saturday of nine minutes of two ticks. It is a weekend day in three
  configurations and a working day in one; limits end before and after the hours, thresholds
  are off and on round times. One override gives extra time, one later hours, and one hours that
  expire in the middle of the day. A pause takes one of the two changes, so that the other can be a
  copy taken before it, a resume or an override; one fault fails its save or its lock.
* `limit`: a limit of one minute and one minute of extra time in days of four,
  so that a limit is spent, extended and spent again before midnight, and every
  order of two sessions, begun before or after it, comes up. One override expires in the
  first day's second minute, after the time it gives was used or not; the other lasts. The clock stops in the
  first minute of the second day, when old sessions no longer count and a start
  drops them.
* `daemons`: two users of whom one has a desktop, two notifications and a channel
  of one slot, which is full with the first; one fault, anywhere; one start of
  the service by an operator and two in a row by systemd, so that it restarts once and may give up. Methods are counted
  as none, readers, a writer, or several with a writer among them, which is all that sharing a map depends on.
* `console`: two administrators, so that one acts on what the other made stale, and the handlers; one user,
  two overrides, one restart. Nothing is claimed once the user is raced, so that the run looks no
  further (`NotAllRaced`). The theorems hold for any number of them.

Every constant that bounds a counter is named `Max...`; a run stops where they
are used up, so no run checks for deadlock. Where being stuck would be a fault,
`CallsReturn`, `ShutdownCompletes` and `Recovers` say so.

### Assumptions of the tracking runs

`PamGuards` (no login while the daemon is down, nor before its watcher has subscribed), `Prompt` (no time passes while
a signal waits), `SleepWaits` (nor does the machine fall asleep), `QuietSleep`
(no login or unlock between the announcement of sleep and the wake), `ReEmits`
(logind may announce sessions again after a wake). The code guarantees none of
them by itself: the service may answer PAM before the watcher has matched its signals
(main.go:82, :92), and a login in between is not recorded at all. A daemon here runs from the moment
`Watch` has subscribed, and `/proc/uptime` can be read. `tracking` shows what it does when the first four hold and `ReEmits` does not,
`tracking_disorder` what remains when it is the other way round.

### Fairness

`IpcCalls`: a step of a running goroutine is weakly fair: Go
schedules preemptively. Taking the mutex is strongly fair: `sync.Mutex` hands
itself to a goroutine that has waited a millisecond (starvation mode), so no
stream of handlers keeps a caller out for ever. Calls and signals need not come.

`Daemons`: the threads, the start and the end of the process, and a user daemon's loop
with the goroutines that wait for its channel are weakly fair, for the same reason. That a thread looks at
`ctx` is strongly fair: a `select` chooses among its ready cases at random, so that a stream
of signals or ticks does not keep it from the end for ever. A restart is weakly fair while systemd's limit admits it
(`Restart=on-failure`; flake.nix:95-100 sets neither `RestartSec` nor a limit, so 100 ms and five starts in ten
seconds), and giving up is when it does not. A start that ran for long enough no longer counts: since time is not
modelled, a crash at work leaves the count or clears it. The return of the bus is weakly fair, systemd starts
that too, but nothing says that it is back before the last start: a bus that is away for a second leaves the unit failed for good,
which `Recovers` excepts by asking that the daemon be `wanted` for ever. A user's daemon has `RestartSec` of five seconds, which
no limit on starts catches. Logins, stops, notifications and faults need not come.

### Seen and not kept as runs

These change constants of a module here and are violated; they are recorded so
that no one takes the assumptions above for guarantees.

* `SessionTracking`, `Capacity = 1`, `MaxWaiting = 2`, `Prompt = FALSE`:
  `LockedNotCharged` fails, since a lock and the unlock before it trade places.
* `SessionTracking`, `SleepWaits = FALSE` and `Prompt = FALSE`:
  `NeverOvercharged` fails, the sleep being charged. There is no inhibitor lock.
* `SessionTracking`, `ReEmits = TRUE`: a locked session that logind announces
  again is charged. `handlers_test.go` wants a new segment there.
* `SessionTracking`, `MaxStops = 1`: `NoGhosts` fails, a session that ends while
  the daemon is down stays active: nothing asks logind for its sessions.
* `StateManager`, one outage and then one stop: `NoSessionOutlivesBoot` fails. "StartUpChecks
  checks for power outages and cleans up sessions" (manager.go:92), but the cleanup stays in memory,
  and the next `Heartbeat` (manager.go:73) makes the uncleaned file look recent. If the daemon is
  restarted before any handler saves, the sessions of before the power loss are active again.
* `SessionTracking`, one stop: `EndedStopsCharging` fails. "IDs can repeat
  across reboots, so ended records with the same ID are ignored" (user.go:77), but
  `HandleUnlock` takes the latest record of the ID even if it has ended (handlers.go:113): when
  the daemon missed the login, the unlock opens a segment in it that only a lock closes.
* `SessionTracking`, `MaxOutages = 2`: `NeverOvercharged` fails, for the first
  cause above. The cleanup of the first outage is not saved, a
  heartbeat makes the file recent, and after the second outage the sessions of
  the first are ended at that heartbeat: the first outage itself is charged.
  (`NoSessionOutlivesBoot` holds with two outages and `MaxStops = 0`.)
* `IpcCalls`, operations `Pause` and `Add`: `PauseSticks` fails, "Pause / lock user session until
  manually resumed" (pause.go:16) notwithstanding: `AddOverride` writes back the user it
  copied before the pause, and both calls return without an error.
* `IpcCalls`, `Events` with `"Login"`: `LoginsKept` fails. With two calls, one may
  lose a session that logged in between them and the other revive it after its
  logout, which is why `NoneRevived` is about sessions open before. With two IDs it needs
  its condition, too: the login of the other session makes `append` move the records to a new array,
  the session's end is written there, and a copy made before still spans the old one.
* `IpcCalls`, any event: `NoMapRace` fails. Go aborts the daemon when it notices, which `Daemons` has
  (`MapFatal`) and `CrashesExplained` names.
* `DailyLimit`, without the exception of `twofold`: `LimitKept` fails, since two sessions
  of a user run beside one another and a round locks only the latest (engine.go:95).
* `Enforcement`, `PausedStaysLocked` without its exception `spared`: five ways leave a paused user's session open, and no
  round closes it, since rounds skip paused users (engine.go:79). A login or unlock was permitted before the pause and comes
  after it, as account management is "login only, not unlock" (pam_sessionwarden.c:228) and a login is checked before it
  begins; the pause came before the login's signal was handled and found no active session (engine.go:195); its save failed, so
  that it returned before the lock while the flag stays (protocol.go:111); logind refused the lock, which is only
  logged (protocol.go:117); or a handler or another call wrote back a copy of the user that was paused, after a resume. What
  remains is that no other order of logins, unlocks, rounds, locks and pauses does.
* `Enforcement`, `CountdownAgrees` without its conditions. An empty range of hours permits only midnight in `PermitLogin`
  and nothing is counted down by `GetTimeRemaining`; with several allowed-hours overrides `PermitLogin`
  wants all, the countdown takes the first; hours that have expired permit any hour, and the countdown goes back to the configured
  ones (`HoursAgree`). Extra time given to a user without a limit becomes the limit of `PermitLogin` and is not counted down
  (`Counted`). The countdown does not foresee that an override expires, which ends what is claimed (`same`). With a threshold below a
  minute `WarnedOnce` fails: the round that would warn finds the session to lock already.
* `Console` without `raced`: `AcknowledgedStands` and `ListingStands` fail, a handler or another call that copied the user
  before an acknowledged call writes back the user as it was.
* The default expiry of `swctl override add`: "Default: expire at end of day" (cmd/swctl/arg/override.go:52; "expire at eod today",
  internal/session/override.go:12), but `Truncate` cuts at midnight in UTC. West of it, as in the Chicago of flake.nix, that is
  in the evening of the same day or of the next one. Overrides in the models expire at any time, so nothing rests on it.

By reading only: a user without a section of its own is held to an enabled
default at login but never by the rounds (engine.go:86-88); `enabled = false` in
a user's own section stops the rounds but not `PermitLogin`; a paused user without any policy is still
permitted to log in (eval.go:16-26); a `Duration` made of
`math.MaxInt64` seconds overflows to minus one second, which a threshold below a
minute takes for a reason to warn (eval.go:182); the example
`--expires "2026-01-20T23:59:59"` of `swctl override add` has no zone and is refused by
RFC 3339 (cmd/swctl/arg/override.go:35, :47); `override list`, "List active overrides", also lists expired ones;
the stop of an open segment is the zero time in JSON, so `swctl user` never says
"Currently active" and prints a negative time (user.go:96-116).

## Proofs

The theorems hold for every value of the constants that the modules' named
assumptions admit. These say what a constant is: bounds, minutes and expiries are numbers,
there is a configuration for each user, `Missing` (nil in the code) is no user, file, session or screen,
and names of callers are no records. Where a theorem needs more it
says so, in the column "if"; each condition is one the code does not meet by itself, and
for those the list above has a behaviour without it that refutes the property.

| module | theorem | states | if |
|---|---|---|---|
| `StateManager_proofs` | `TypeCorrect` | `Spec => []TypeOK` | |
| | `MtimeBoundsFile` | `Spec => []FileTimesBeforeMtime` | |
| | `ChainedAlways` | `Spec => []SegmentsChained` | |
| | `OneActiveAlways` | `Spec => []OneActivePerId` | |
| | `HistoryAlwaysKept` | `Spec => HistoryKept` | |
| | `Invariance` | `Spec => []Inv`, from which the others follow | |
| | `Refinement` | `Spec => ImplementsLifecycle` | |
| | `NoneOutlivesBoot` | `Spec => []NoSessionOutlivesBoot` | `MaxStops = 0` |
| `SessionTracking_proofs` | `TrackingIsManager` | `TrackingSpec => Spec` | |
| | `TrackingTypeCorrect` | `TrackingSpec => []TrackingTypeOK` | `IsFiniteSet(Ids)` |
| | `InSyncOneRun` | `TrackingSpec => []InSync` | `MaxStops = 0` |
| | `InSyncOneDay` | `TrackingSpec => []InSync` | one boot, one day, no failing save |
| | `LockedNeverCharged` | `TrackingSpec => []LockedNotCharged` | `MaxWaiting = 0`, not `ReEmits`, and what one of the two above needs |
| | `EndedNeverCharged` | `TrackingSpec => []EndedStopsCharging` | `MaxStops = 0`, `PamGuards`, `MaxWaiting = 0`, not `ReEmits` |
| | `TrackedNoneOutlivesBoot` | `TrackingSpec => []NoSessionOutlivesBoot` | `MaxStops = 0` |
| | `NeverOverchargedAlways` | `TrackingSpec => []NeverOvercharged` | as `EndedNeverCharged`, and `Prompt`, `SleepWaits`, `QuietSleep`, no failing save, `MaxOutages <= 1`, `IsFiniteSet(Ids)` |
| `IpcCalls_proofs` | `Invariance` | `Spec => []Inv`: control, counters, memory | |
| | `TypeCorrect` | `Spec => []TypeOK` | |
| | `FileFollows` | `Spec => []DiskCurrent` | |
| | `GrantsStaySingle` | `Spec => []GrantedOnce` | |
| | `EndedStayEnded` | `Spec => []NoneRevived` | |
| `DailyLimit_proofs` | `LimitTypeCorrect` | `LimitSpec => []LimitTypeOK` | `IsFiniteSet(Ids)` |
| | `ChargedIsSpent` | `LimitSpec => []ChargedAsSpent` | no failing save |
| | `RoundsLock` | `LimitSpec => RoundLocksLatest` | no failing save |
| | `OneAtATimeKeepsLimit` | `LimitSpec => LimitKept` | no failing save |
| `Console_proofs` | `AcknowledgedAlways` | `Spec => []AcknowledgedStands` | |
| | `ListingStandsAlways` | `Spec => []ListingStands` | |
| | `ConsoleTypeCorrect` | `Spec => []ConsoleTypeOK` | |
| `Enforcement_proofs` | `LockedInTimeAlways` | `Spec => []LockedInTime` | |
| | `PausedStaysLockedAlways` | `Spec => []PausedStaysLocked` | |
| | `EnforcementTypeCorrect` | `Spec => []EnforcementTypeOK` | |
| | `CountersAlways` | `Spec => []Counters`: time used, calm and warnings are counted | |
| | `CountdownAgreesAlways` | `Spec => []CountdownAgrees` | |
| | `WarnedOnceAlways` | `Spec => WarnedOnce` | |
| `Daemons_proofs` | `TypeCorrect` | `Spec => []TypeOK` | |
| | `ShownOnceAlways` | `Spec => []ShownOnceToAddressee` | |
| | `CrashesExplainedAlways` | `Spec => CrashesExplained` | |

The conditions. `MaxStops = 0`: the daemon ends only with the machine, as it does unless an
administrator restarts it or it fails; a restart misses signals. No failing save:
`Save` logs the error and goes on, and a restart then finds an older file. `MaxWaiting = 0` and not
`ReEmits`: the watcher keeps up with its channel of ten, so that no signal waits for a
slot and is overtaken, and logind repeats none. `PamGuards` is the PAM module's rule.
`Prompt`, `SleepWaits` and `QuietSleep` are described above: time that passes while a signal waits, or a sleep
that begins before it is handled, is charged to a session that is locked or asleep. `MaxOutages <= 1`: what a start
ends after an outage is not saved, while heartbeats make the file look recent, so that a second outage is taken for
one that began then and the first is charged. These are the conditions of `tracking`.
`TrackingTypeOK` and `LimitTypeOK` count minutes by the number of sessions open, which is a
number if the IDs are finitely many.

### The records

None of the invariants is inductive alone. `SegmentsChained` needs that the clock
is not before any recorded time, or a new end could precede its start; it must
hold of the file, or a load would break it; and since start-up ends sessions at
the modification time, the times in the file must be bounded by that, not by the
clock. One active record per ID must hold of the file for the same reason.
`Inv` therefore says: the state is well typed; the records in memory are good with
respect to `now`; the modification time is not after `now`; the records in the
file are good with respect to it. Good (`GoodSet`) means chained, stamped no
later than the given time, and one active record per ID.

The argument goes from segments to records (`AddSegmentGood`, `EndSegmentGood`,
`EndGood`), to sets of records (`AddSessionGood`, `RewriteGood`, `EndActiveGood`), to
the map of users, to one lemma per action. `HistoryKept` then follows from what
the same operators do to the records that were there before (`Continues`).

`Refinement` maps a user's records of one ID to the state of a session: running, idle or
closed. Each operation on one record is a step of that session's life, and leaves the records of other
IDs what they were (`StatusOf` and the lemmas after it); a handler changes memory, and a save makes
the saved statuses those in memory. That sleeping and start-up touch every session is the
"all of them" of `SessionLifecycle`.

`NoneOutlivesBoot` ties the modification time to the boot: while the daemon is down, whatever
touched the file did so before the machine came up, so the next start takes it to have been down and ends
what is active; while it runs, no active session began before `since` (`BootInv`). With a second start
on one boot the first half fails, which is the behaviour listed above.

### Tracking

`Agrees` relates logind, the signals on their way and the records: a session without an active
record is still to be announced, and an active record is of logind's session of that ID and user,
or its end is still to be announced. It speaks of the set of pending signals and not of their order, so
it survives reordering and repetition; that a session is not announced after its end is what makes
it inductive: no session comes back under an ID on the same boot, so the end of a session is the last word on
its ID. Between boots, the records are ended by `NoneOutlivesBoot`'s invariant.
`InSyncOneDay` needs instead that the file is what memory was (`DayInv`), and that a start finds
nothing to clean.

Locks do depend on order. `Suspended`: a locked session is not running in the records, with
no login or unlock of it on its way, or its lock is in the channel with neither behind it.
`EndedNeverCharged` has to exclude that an unlock finds no active record and takes an ended one:
an unlock on its way is of a session that is over, or has an active record, or whose announcement
is before it in the channel (`UnlockAfterNew`); ended records are then always closed (`Closed`).
Both are said of a signal that was sent with no other behind it that would undo it (`Sent`, `Unsent`), and so is
`AtRest`: an announced sleep is still to be handled with no login or unlock behind it, or no session is running
in the records, which is what holds while the machine sleeps.

`NeverOverchargedAlways` is about sums of the records' durations. Only time lengthens them: opening or closing a
segment at the present moment, and ending or beginning a session, add nothing (`RewriteSpent`, `AddSessionSpent`), and dropping old sessions
lessens it (`SubsetSpent`). A minute adds one for each record with an open segment (`TickSpent`); those are running in the
records, so their sessions are unlocked in logind, and since an ID has one active record they are
at most as many (`TickWithin`, with `SumImage`). While the machine sleeps they are none (`AtRest`). The
invariant, `SpendInv`, must also hold of the file, since a start after an outage ends what is open at the
file's modification time: before the first outage the file has what memory has, and while the machine is down its
records up to that time stay within what was counted.

### The methods' memory

`IpcCalls` has Go's slices as headers into a heap of arrays. The proofs begin with the heap: an array
holds records or overrides, never both; `append` in place, `append` with a new array, the shift of a
removal and the change of a record leave every other slice readable (`Keeps`) and arrays of the other
kind alone (`Touches`). On this rests `Inv`: where the threads are, that the
mutex is held by the one that is between taking and releasing it, and that all slices are within
arrays of their kind. `FileFollows` is that memory and file differ only while someone is about
to save or after a save that failed. `GrantsStaySingle` holds because *no array* has an
override twice, and none has that of a call that is yet to append it: whichever stale slice is written back
spans distinct overrides. `EndedStayEnded` holds because all copies share the one array
of records as long as no login moved it (`OneRecord`), and the end is written in it.

### The daily limit

`ChargedIsSpent` says that a function of the records equals an observer of the screens. The invariant
links them: a record is active as long as its screen is there and idle while it is locked (`Shown`), an ID has
one record (`OnePerId`), positions are numbered (`Numbered`), and each screen begun today has its record
(`Complete`). What a user is charged then grows, in a minute, by the number of open records of today, which are as
many as the screens open (`Charged`). Since a restart reads the file, all this is said of what a
start would find (`Kept`), which a successful save makes the same. The sums over records are handled
by `Sums`, by a smallest set for which a claim fails, as induction over sets is beyond the provers.

The round looks for the last active session, so that `RoundsLock` also needs records in the
order of the logins (`Ordered`, `Aged`), and that the time the daemon allows is the configured limit
and the sum of extra minutes (`CreditIsAllowance`). `OneAtATimeKeepsLimit` adds that a user without two open
sessions at once has one unlocked screen (`Alone`), that a minute passes only after the round looked at
everyone (`Rounds`), and that whoever has an unlocked screen the round is done with has a minute left (`Spending`): an override
that expires does so as a minute passes, after which the round looks again.

### The console

What is acknowledged must hold of the file as well as of memory, or a restart would
break it: a failed save leaves the file behind, but then the call answered an error, and
its promise is open. What a call has yet to answer must hold as well, once it has written (`Answered`), as another's save may
come before its own. `ConsoleInv` says of every user who is not raced (`Clean`) that one thread at most has a copy (`Alone`); that the
copy is the user in memory but for what the call of its owner changed (`Copied`), so that writing it back loses
nothing; that an override being added is in no list yet (`Adding`); that memory and file both uphold `promised` and `pause`,
each override listed once (`Claims`), but in memory while a removal moves the rest down in place; and that views are prefixes of the list in memory unless they
are outdated (`Listings`). The rest is about sequences: appending keeps prefixes and places, a removal shifts what comes
after (`RemoveFromList`).

### Enforcement and the daemons

`LockedInTime` counts from when a session is not permitted; it becomes inductive when
the time since then is tied to the ticker: while the session is not permitted, `overdue` is at most the time since the last
round was due, so that a round comes before the bound is passed (`SinceRound`, `Clock`). A round whose lock logind refuses
starts the count again.
`PausedStaysLocked` is inductive with the shape of the state: between the flag and the end of `PauseUser` nothing is claimed, the
lock closes the session or spares it, and what unlocks a session later was asked before, as what is enforced permits no
paused user.

`CountdownAgrees` compares two functions. Where they read the same hours (`Held`), `PermitLogin` is shown to say
that the hours have begun, that they have not ended and that there is spare time (`PermittedLater`),
and the countdown to be the smaller of what is left of the hours and of the limit (`RemainingIsLeft`); within
a day clock and calendar advance together (`SameDay`), and the overrides in force at two times of it
being the same, so are the hours and the extra time (`Ahead`).
So while no one does anything and no override expires the countdown runs to a fixed time, `Deadline`. `WarnedOnce` needs besides
that rounds on time are a minute apart, so that exactly one falls into the minute in which a
threshold is passed. The invariant (`WarnInv`) says that the last of them found the session
permitted, and that a threshold has been warned of once if its minute was entered by then, and
otherwise not yet.

A notification is shown once because it is in one place: sent to a daemon it is in
its channel, in a goroutine that waits for the channel, or shown (`InOnePlace`). A
panic needs a nil configuration, a closed channel or a map in use by the guards of its actions; the work
is to show that no other step fails a running process.

The type invariant (`TypeCorrect`) is that a connection is open only in a running process with the bus
up, a thread at work only there, and a user daemon only for a user who is logged in.

### Model-checked only

`CallsReturn`, `ShutdownCompletes`, `Recovers` and `NotificationsShown`, which are liveness under fairness and beyond
the prover. Every invariant and action property of the passing runs is a theorem, under the conditions above.

## Not modelled

TOML and JSON syntax, D-Bus types, log lines and messages; what `swctl status` and `swctl
user` print of sessions; bus policy and Nix packaging but for the restart and its limit; PAM's bypass groups; sessions of a class other than `user`, which the watcher drops;
the default expiry that `swctl` computes; functions without a caller (`CleanupExpiredOverrides`,
`CleanupOldSessions`, `StartNewSegments`, `internal/engine/util.go`).

`Enforcement` takes recorded time to be right, has one session, and ends at midnight: that a call's stale copy may lose the
record of a login is `LoginsKept` of `IpcCalls`. Time does not pass there between a login and its handler. `DailyLimit` has
several sessions and days but no delays, and its logind refuses nothing. `Console` leaves sessions out, and what happens to a user of whom two copies were out at once
to `IpcCalls`, which has such calls and no restarts. `Daemons` has no records: notifications and logins are of any user.

## Plan

In this order; all of it is done.

1. `SessionRecords`, `StateManager`, their invariants and proofs; `SessionLifecycle`.
2. `SessionTracking`: the manager with logind, channel, sleep and power.
3. `IpcCalls`: methods and handlers on shared memory.
4. `Policy` and `Enforcement`, with the proofs of `LockedInTime` and `PausedStaysLocked`.
5. `DailyLimit`: records, engine and PAM together, over midnight and for several sessions.
6. `Daemons`, with liveness and the proofs about notifications and crashes.
7. `Console`, its calls in steps beside the handlers, with the proof of all its invariants.
8. Proofs that `StateManager` implements `SessionLifecycle` and ends sessions over an outage, and of
   what `SessionTracking` keeps in step.
9. Proofs about `DailyLimit`: time charged, rounds, and the limit.
10. Proofs about `IpcCalls`: mutex, heap, and its four invariants.
11. Proofs that the countdown of `Enforcement` and `PermitLogin` agree, and of the warnings.
12. The proof of `NeverOvercharged`, by what a minute adds to the records in memory and in the file.
