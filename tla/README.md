# A TLA+ model of goradio-panel

goradio-panel is the web panel of the GoRadio audio server: a Go process that
serves a JSON API and a React front end, keeps accounts and listener history in
SQLite, watches the stations of one or more audio servers over gRPC, and runs
the stations an operator creates in it as child processes. This directory holds
a formal model of the parts of it where several things happen at once, on the
panel and in the browser, TLC configurations that check them on small instances,
and TLAPS proofs of the results that hold for every size.

Files are named by their last part: `runner.go` is
`internal/stationrunner/runner.go`, `StationPage.tsx` is
`web/src/pages/StationPage.tsx` and so on.

## 1. Inventory

| Component | State it keeps | Operations | Interacts with |
|---|---|---|---|
| **Runner** (`runner.go`) | `procs`: key -> managedProc (`state`, `stopping`, `done`, exit data) under `r.mu` and `p.mu` | Start, Stop, Restart, Status, Logs; one Wait goroutine per child | handlers, boot, the kernel (fork, signals, exits) |
| **Managed stations** (`managed_stations_handlers.go`, `db/managed_stations.go`, `main.go`) | table `managed_stations` (`desired_running`), `station.yaml` and `station.lua` on disk | create, delete, start, stop, restart, get/put script, get process; reconciliation at boot | Runner, database, file system, audio server (unregister) |
| **Accounts and sessions** (`user_handlers.go`, `auth_handlers.go`, `db/users.go`, `auth/`) | table `users`; a session is a signed token in the browser | login, list, create, delete, set password, bootstrap of the admin | every other route through `requireSession` |
| **Stats collector** (`stats/collector.go`, `audioclient/events.go`) | `watched`: slug -> watch (connected, silence, now playing, listener count, cancel) | discovery on a ticker, one watcher and one forwarder goroutine per station, fallback snapshots | audio server (ListStations, GetStatus, SubscribeEvents), stats store, station list |
| **Station page** (`StationPage.tsx`, `useStationStatus.ts`, `useStationEvents.ts`, `useStationMutations.ts`) | the query cache entry of a station; per visit a cancelled flag, an EventSource and a retry timer | mount, leave, poll, connect, retry, apply an event, mutate and invalidate | event stream, proxy handlers |
| **Navigation drawer** (`Shell.tsx`, `useDrawerSwipe.ts`, `useMediaQuery.ts`) | open flag, drag offset, the gesture, a ref that an effect keeps | touches, menu button, backdrop, route and screen changes | none |
| **Player and now-playing card** (`StreamPlayer.tsx`, `NowPlaying.tsx`, `useTickingElapsed.ts`) | phase, listening, audible, refs beside them; drag position and its timer; the clock's base | mount, change of source, listen, stop, retry, element events, seek by dragging | the `<audio>` element, station page |
| **Script editor and process controls** (`EditStationPage.tsx`, `ControllerSection.tsx`, `ScriptEditor.tsx`, `useManagedStation.ts`) | draft, dirty, seeded; cache entries of process and script | open, leave, type, save, start, stop, restart, delete, poll | managed stations |
| **Signed-in tabs** (`authStore.ts`, `AuthContext.tsx`, `client.ts`, `App.tsx`, `LoginPage.tsx`, `UsersPage.tsx`, `useUsers.ts`) | token and name in localStorage, name in each tab, list of accounts | login, logout, load, 401, list and change accounts | accounts |
| Ring buffer (`ringbuffer.go`) | last 500 lines of a child's output, a partial line | Write, Lines | Runner |
| Audio client (`audioclient/client.go` and wrappers) | the admin token, refreshed at half its life | one RPC per wrapper, refresh loop, probe at start | audio server |
| Registry (`registry.go`, `target.go`) | connected servers in order | dial all or none, Get, All | boot, `withServer` |
| Database (`db/db.go`, `schema.sql`) | schema, `listener_stats.server_id` | open, migrate (add column, index, backfill) | everything stored |
| Stats store (`stats/store.go`) | table `listener_stats` | Insert, Query | collector, chart |
| Release checker (`releases.go`) | latest release, fetched at | refresh on a ticker, Latest, UpdateAvailable | version route |
| Event stream, panel side (`sse_handler.go`, `sse_token.go`) | none: a signed token that lives some seconds | mint, verify, subscribe, forward | audio client, station page |
| Configuration (`config.go`) | settings | defaults, YAML, environment, validation | boot |
| Router, scope, proxy handlers (`httpapi/`) | none | one RPC or query per route | audio client, store |
| Other pages, components and hooks (`web/src`) | local form state | dashboard, tokens, media, modals, menus, chart, directory browser | the API |

What is hard in it, and where it bites, is listed under `hazards` in
`PROJECT.json`, each with the properties that would catch it or the reason why
there is none. In short:

* **Concurrency in the Runner.** Start looks at the map under the lock, spawns
  without it and takes it again to publish; Stop marks, signals and waits in
  three separate regions; the Wait goroutine runs beside both.
* **Long requests over several stores.** create is an INSERT, three file
  operations, a token and a spawn; delete drops three of its four errors;
  nothing is undone when a step fails or the panel dies.
* **Check, then act, in the accounts.** The guards of a delete are statements of
  their own, and the browser names accounts by ids it read earlier.
* **Goroutines over an unreliable stream.** Stations vanish and return between
  two discoveries, streams drop, the initial GetStatus races with the events.
* **A browser that awaits.** A token arrives after its page was left, an event or
  the answer of a mutation while an older fetch is under way, a save while more
  is typed, a 401 for a token that is no longer the stored one.
* **Refs beside state.** The gesture, the player and the editor keep values that
  React does not watch: what a handler reads there is as of the last effect, of
  an earlier source or of an earlier click.

What makes each component correct: one live process per station, tracked, and
dead after a successful stop; a table that tells the next boot the truth about
what should run; always an account, and never the wrong one touched; one live
watcher per registered station, whose cached state is no older than the last
event, and no goroutine left behind; one stream per open page, which shows what
it was told; a drawer nothing pins half open; a player that is heard exactly
when it says so; a draft only its author changes; a tab that ends at the login
page when its session does.

## 2. Modules

| Module | What it is |
|---|---|
| `StationRunner` | the Runner, its callers' goroutines, the Wait goroutines, the children and the kernel |
| `StationSupervisor` | what a Runner promises, without locks, goroutines or timers |
| `ManagedStations` | extends `StationRunner`: handlers as sequences of steps over table, files and Runner; boot; death of the panel |
| `StationDirectory` | extends `StationSupervisor`: what the panel promises of its stations, the table included |
| `Accounts` | the users table, sessions, the operators' (possibly old) lists, requests in flight |
| `AccountRegister` | what the users table promises, as if every request were one statement |
| `Collector` | discovery loop, watchers, forwarders, and the audio server as their environment |
| `StationFeeds` | what the collector promises: one queue per station, from the station to its cached state |
| `StationPage` | one browser page: query cache, polls, event streams, mutations, and the panel as their environment |
| `Drawer` | the navigation drawer under fingers, clicks, routes and a turning screen |
| `StreamPlayer` | the live player and the `<audio>` element it drives |
| `NowPlaying` | extends `StreamPlayer`: the card around it, with its seek bar and its clock |
| `StationEditor` | the edit page of a managed station beside other operators |
| `Session` | the tabs of one browser, the session they share, and the list of accounts |
| `...Proofs` | the theorems about the module of that name and their proofs; `StationRunnerProofs` holds those about `ManagedStations` too |
| `MC...` | definitions for the instances TLC checks |

### StationRunner

`procs`, `state`, `stopping`, `done` are the fields of `Runner` and
`managedProc`. `os`, `owner`, `signal`, `death` are the kernel's view of a child.
`pc`, `op`, `arg`, `cur`, `ret` are where each calling goroutine is. Every region
between a Lock and its Unlock is one action, and every call that blocks or
talks to the kernel is one too:

| Action | Code |
|---|---|
| `StartCheck`, `Spawn`/`SpawnFails`, `StartPublish` | Start: the check under `r.mu`, `cmd.Start` with no lock, the publication |
| `Lookup`, `StopMark`, `StopSignal`, `StopSawDone`, `StopTimesOut` | Stop: map read, `stopping = true`, SIGTERM, `<-p.done`, the 10 s timer and SIGKILL |
| `StatusRead` | the second half of Status |
| `WaitReaps`, `WaitRecords`, `WaitCloses` | the Wait goroutine: `cmd.Wait`, the switch under `p.mu`, `close(p.done)` |
| `Exit` | a child exits cleanly, fails by itself, or ends after a signal |

Restart is a Stop whose successful return goes on to `StartCheck`. A SIGTERM may
be ignored for ever. A signal to a zombie has no effect, nor has a SIGTERM that
follows a SIGKILL (two requests may stop one station), and after `Wait` it is the
error `os.Process.Signal` returns. Exit codes, start times and log lines are
left out; the exit code is reduced to clean or not, which is what the switch
tells apart.

Any goroutine may call anything, as in the code, where every request runs in a
goroutine of its own. Two calls of one key that both start it (Start, or Restart
from its Stop on) may spawn two processes, as run `RunnerTwoStarts` shows. The
history variable `crossed` holds the keys for which two such calls have been under
way at once; it restricts nothing. `OneProcessPerKey` and the properties that build
on it are about the keys that are not in it, and so are the promises of
`StationSupervisor`, whose variable `apart` is their set: a key leaves it in the step
`Cross` and nothing is promised of it from then on. Other keys are not affected,
and `StopLeavesDead`, `CrashIsUnasked` and the liveness properties hold for all.

`StationSupervisor` has the live processes of a key, the answer of Status and whether
the tracked process was asked to end. `liveOf`, `statusOf` and `askedOf` compute
them from the state above.

### ManagedStations

A request is the sequence of steps its handler takes (`CreateSteps`, ...). Each
step is atomic (one SQL statement on a pool of one connection, one file, one
call) and most may fail, which answers the request and keeps what the earlier
ones did. The steps `start`, `stop` and `restart` call the Runner: the handler's
goroutine runs `StationRunner`'s actions until the call returns. `Dies` kills the
panel at any point: goroutines and `procs` are gone, table and files stay, and
the children go down with the panel as they do in its container image or under
systemd's default kill mode; the next life spawns processes of its own. `BootLists`, `BootStarts` and `Serves` are
`reconcileManagedStations` followed by `ListenAndServe`; a list that fails skips the
stations of its server. Any goroutine serves any request: a slug two requests
have been about at once is in `crossed` until the panel's next boot, and the properties
of rows and processes are about the others. `StationDirectory` sees the row of a
station and its processes: while the station is `apart`, it gets a process only while
its row wants it to run, its row is created, revived and deleted only when nothing of
it is alive, and the death of the panel takes the processes and leaves the rows. A
file is written in two steps (`BeginsWrite` truncates it), so a failure or a death in
between leaves it cut; RemoveAll may stop half way. A script is no script, cut short,
the starter template, or edited. Reads (get script, get process) change nothing
and are not actions; the Runner's Status is in `StationRunner`.

### Accounts

`users[i]` is the name in row `i`, `password[i]` the account for which the
password in row `i` was chosen: an operator who sets a password chooses it for
the name that was on screen. `session` holds the username in a signed token,
which stays valid when its account is gone. `view` is the list an operator
loaded at some time. A delete is three statements, `CheckSelf`, `CountUsers` and
`Delete`, with other requests in between; each may fail. A self lookup that fails counts
as "not yourself", as in the code; `checked` in a request remembers, for the
properties only, whether it was answered. Hashing, the transport of tokens and
the validation of empty names are left out. Every operator may delete; `crossed`
remembers, for the properties only, that one delete has passed its count while
another was between its own and its DELETE. In `AccountRegister` an account is opened under an id
that was never used and a name that is free, and keeps both, with its own password,
until it is closed.

### Collector

`watched` and the four fields of a watch the properties tell apart (`cancel`,
`connected`, `silence`, and whether its goroutine has started). `silence` stands
for the three fields that events update; they are written in the same way.
`ListStations`, `Discover` (the locked region), `StartWatch` and `GoWatch` (before
and after the GetStatus call) are the loop's steps; `Subscribe`,
`SubscribeFails`, `Handle`, `SawClosed`, `Wake`, `Quit` those of `watchEvents`;
`Receive` and `Close` those of the forwarding goroutine, which hands events over
an unbuffered channel. The audio server may go down, unregister and register
stations, and drop any stream; a connection that breaks loses the events that were
still under way from some event on. The context given to Run is never cancelled by
the panel, so that branch is left out, as is the fallback ticker, which only
reads. Lengths of sleeps are left out. The queue that `StationFeeds` keeps for a watch
is the event its forwarder holds followed by those on the wire.

### StationPage

A station is a server and a slug, its status only a `version`. `data`, `fetch` and
`failed` are the cache entry as react-query keeps it; `effect`, `target`,
`cancelled`, `phase` and `wire` are the runs of the effect in
`useStationEvents.ts`, of which each visit starts a new one; `sent`, `station`,
`option` and `mine` are mutations, which outlive the page that sent them and whose
`onSuccess` invalidates the station the component shows by then. `heard` remembers,
for a property only, the newest change the page was told of.

| Action | Code |
|---|---|
| `Visit`, `Leave` | the page is mounted, shows another station, or is unmounted; the effect's cleanup is part of the step |
| `Minted`, `MintFails`, `Connected`, `StreamFails`, `Retry` | `connect()`: the awaited token, the test of `cancelled`, the EventSource, `onerror`, the retry timer |
| `Deliver` | `onmessage` and `applyEvent`: the entry is invalidated |
| `Poll`, `Respond`, `Receive`, `FetchFails`, `Forget` | `useStationStatus.ts`, and what react-query does with an answer, a failure and an unused entry |
| `Mutate`, `Apply`, `Answered`, `MutationFails` | `useStationMutations.ts`, with what the audio server does in between |

An event tells only those who are subscribed: one that comes before a stream is
open, or between two, is lost. An invalidation while a fetch is under way drops
its answer and asks again if there was data, and keeps it otherwise, as react-query
does.

### Drawer

`navOpen`, `drag`, `gesture` are the state and ref of the same names, `seen` is
`openRef`, `isDrawer` what `useMediaQuery` last reported and `narrow` the screen as
it is. `finger` and `second` are what touches the screen. A step is an event with
the render it causes; the effect that copies `navOpen` to `seen` runs in the same
step when a click or a touch caused it and may come later otherwise. Positions are
whole numbers, and the thresholds of the hook are constants. A finger whose target
was removed (`"gone"`) is heard no more; `lost` remembers that its end was not.

### StreamPlayer and NowPlaying

`src`, `net`, `paused`, `muted`, `promised` and `queue` are the element: its load
state, the promise of a `play()` that is undecided and the events it has queued but
not fired. `load()` empties that queue. A station without a stream URL, or whose
configuration is still being loaded, has no element (`src` is "none"): `NoStream` is
the cleanup of the old effect and the early return of the new one, which leave what
the component remembers as it was. `phase`, `listening`, `audibleNow` are the
component's state, `everPlayed`, `clicked`, `latency` its refs. Each handler, click and
effect is one action. `NowPlaying` adds what the card makes of it: every step of
the player carries the report of its effect (`Told`), every snapshot of the status
the resynchronisation of the clock (`Synced`), and the bar has `PointerDown`,
`PointerMove`, `PointerUp` and the timer `Clears`. The card survives a change of
station, and so do drag, timer and clock.

### StationEditor

`gen`, `script`, `proc` are the station on the panel, created anew after each
delete; the fetches and the cache entries are separate variables, so an answer may
be old when it arrives. `draft` is the section's content with its `dirty` and
`seeded`; `Rendered` ends every step that can mount, unmount or feed the section,
because the seeding effect runs then. `request` holds what the page sent, with
`mine` for whether the component that sent it is still there to be called back. Any
answer may be lost after the panel has done what was asked, so that `onSuccess` never
runs; `unheard` remembers, for a property only, the stations whose deletion this page
was not told of.
`Others` is everybody else: save, delete, create, and the process itself.

### Session

`stored` and `storedName` are the two keys in localStorage, `name[t]` the name in
tab `t`'s React state, `page[t]` where the tab is. A request carries the token that
was stored when it was sent; any 401 clears whatever is stored by then and sends
the tab to `/login`, and a page load forgets everything the tab kept. A change of an
account is sent, applied and answered in steps of their own (`Sends`, `Applies`,
`Changed`), and the answer may find the tab on another page, or never come. `accounts`
is a version of the list that `Accounts` models in full; `told` remembers, for a
property, the newest change the tab was told of.

## 3. Runs

| Run | Instance | Shows |
|---|---|---|
| `RunnerCalls` | 1 key, 2 goroutines that call anything, 2 processes, fair | until two starting calls overlap: one process per key, running means tracked, restarts are not refused; always: a signalled process is no crash, a successful Stop leaves its process dead, refinement of `StationSupervisor`, every Stop returns, every death is recorded |
| `RunnerTwoStarts` | the same 2 goroutines | *violation*: two live processes for one key |
| `PanelOneRequest` | 1 slug, all six requests one after another, 2 processes, 1 death of the panel | table and processes agree; create starts fresh; a successful delete or stop is complete; refinement of `StationDirectory` across the deaths of the panel |
| `PanelBoot` | 2 slugs, 1 goroutine that creates, 2 processes, 2 deaths, fair | boot starts or skips every wanted station, and ends |
| `AccountsDeletes` | 3 names, 4 ids, 2 operators | an account is left until two deletes cross; stale ids are harmless; refinement of `AccountRegister` |
| `AccountsNoneLeft` | the same 2 operators | *violation*: no account left |
| `CollectorLive` | 1 station, 3 watches, 2 troubles, 2 changes, fair | refinement of `StationFeeds`: one live feed, first in first out; no watch dropped without its cancel; state no older than the last event; recovery; goroutines end |
| `StationPageFresh` | 2 stations, 2 visits, 1 mutation, 1 change each, 1 trouble, fair | one stream, of the station shown; what was told is shown; an open page converges and gets its stream back |
| `DrawerGestures` | page 6 wide, drawer 4, lock and flick 1, all three targets | no drag outlives its touch or goes beyond the drawer's width; a gesture moves the drawer only the way its finger went, or before the effect of a render that closed it |
| `ListeningPage` | 2 stations, 2 tracks of which one can be sought, 2 elapsed times, 3 troubles, fair | proof of sound and delay are of the present source; the bar has one master; a click to listen is answered |
| `EditorKeepsDraft` | 2 texts, 1 request at a time, 1 re-creation, 1 trouble, fair | a draft is not overwritten; no script of a station whose deletion the page was told of; the process shown converges |
| `SessionTwoTabs` | 2 users, 2 tabs of which one lists accounts, 2 logins, 1 change, fair | a dead session ends at the login page; only another tab's login splits name and token; changes the page was told of are listed |

Between them the passing runs take every action of their next-state relations. A type
invariant is a theorem of every module (section 4), and so are some simpler safety
properties that no run repeats: `StatusIsCurrent`, `DrainMovesOn`, `HolderCanLogin`,
`CheckedIsNotSelf`, `LiveWatchIsTracked`, `NeverOpenWide`, `TogglesWin`,
`UnmutedIsListening`, `ClockIsOfTrack`. All of them, and the inductive invariants of
section 4, held on the instances above before they were proved.

**Why the bounds are enough.**

* *Runner.* `CrossedCallsEnd` lets calls that crossed run to their end and admits only
  Status after them, since two processes are all there are. Keys do not interact
  except through `r.mu`, which no action holds across a step, so one key shows what
  there is to see; the proofs cover any number. Two processes are what it takes for
  one to replace another.
* *Panel.* The two processes, of each life of the panel, allow a station and its
  replacement; when they are used up, starts can still fail, so no request gets
  stuck. Two slugs let boot have one station behind another that cannot start. Both
  runs have one goroutine, so requests do not overlap in them: overlapping requests
  of the whole panel are out of TLC's reach, and what holds of them rests on the
  proofs, which cover any number of goroutines, slugs, processes and deaths, and on
  `RunnerCalls`, where calls of the Runner do overlap.
* *Accounts.* Four ids let an account be deleted and re-created while an old list
  still names it, by a session that is older than both. Two operators suffice for two
  deletes that cross, and for a self delete whose lookup failed.
* *Collector.* A station uses up one watch more than the troubles that can make it
  vanish; three watches allow a station that leaves and returns twice, with the
  watcher of each stay still ending. The proofs cover any number of stations.
* *StationPage.* Two visits are a page and its successor, with the token of the
  first still to come; the second may be a return to the same station, since `Leave`
  lies between. One change per station suffices for an event, a fetch and a mutation
  to disagree about it, and one trouble for a retry. The page may have several
  mutations under way, one per button; the run has one, the proofs any number.
* *Drawer.* Six positions put the finger below, on and above the lock, the flick and
  the middle of the drawer; every threshold is met exactly and missed by one.
* *ListeningPage.* With three troubles a stream can stall, fail after a retry and be
  paused from outside; two stations and two tracks are what is needed for something
  of the first to survive in the second. One track has no duration, so the bar may
  lose its handle in the middle of a drag.
* *EditorKeepsDraft.* One request of the page against unrestricted other operators:
  they save, delete, create and restart at any time, and a request outlives the page
  it was sent from. The proofs cover any number of requests.
* *SessionTwoTabs.* Two tokens let a late 401 of the first hit the second. One tab
  suffices for the list, which tabs do not share. `FewRequests` gives a tab one change
  under way at a time, has the Users page ask in the first login only, and lets the
  same user log in first, all users being alike; the proofs have no such bounds.

Symmetry is declared over processes in `PanelOneRequest` and over equal operators in
the accounts runs; neither checks liveness.

**Deadlock** is checked in every run but `StationPageFresh`. None of the others stops: a
goroutine can always ask for a status, an operator sign in, the discovery loop list
the stations, a finger come down. `StationPageFresh` bounds the visits, and after the
last of them a browser with nothing cached has nothing left to do.

**Fairness.** `StationRunner`: a goroutine inside a call and a Wait goroutine keep
running (they are scheduled by the Go runtime), the timer fires, and the kernel
ends a process it has sent SIGKILL. One assumption deserves a name: that
`cmd.Wait` returns once the child has exited, which fails if a grandchild keeps
the output pipe open. Nothing is assumed of the children otherwise, and nobody
need make a call. `ManagedStations` adds that handlers and the boot loop keep
running. `Collector`: loop, watchers and forwarders run and a server that is down
comes back; whether a subscription succeeds or a stream lasts is not assumed,
only that it goes wrong finitely often. `StationPage`, `StationEditor` and `Session`:
requests are answered or fail, timers fire and a mounted page polls; in `Session`
an answer needs strong fairness, because every reload of the tab drops the request
that was under way. `NowPlaying`: a stream that neither fails nor ends gets going and
events are fired. No user need click, navigate or lift a finger in any of them.

### What the violations mean

Each contradicts a sentence of the source, quoted under `findings`. Start's check
and its publication are in different critical sections, so two start requests
for one station (a double click in two tabs) run it twice and lose one of the
processes. Two operators who delete each other leave no account; the next restart
bootstraps the admin again.

## 4. Proofs

All theorems are proved for every value of the constants that satisfies the
named assumption of the module (`ConstantsAssumption` in `StationRunner`, and
`AccountsAssumption`, `CollectorAssumption`, ... in the others). These say that the
bounds are natural numbers, that `None` and the other marks are no other value, and
that a set of callers is a set of callers; `DrawerAssumption` adds that a drawer has
a width.

**StationRunner.** The inductive invariant `IInv` has two layers. `SharedInv` holds
whoever the callers are: `ProcInv` (the struct follows the child: published before
it is reaped, recorded after, signalled only when marked, failed by itself only if
never signalled), `ThreadInv` (what a goroutine at each program point knows of its
process), `PublisherInv` (a child that is alive or a zombie and has no struct has
exactly one goroutine about to publish it) and `KeyInv` (what a key tracks was
published for it). The second layer is about the keys that are not `crossed`:
`RunningIsTracked`, and `StarterInv` (calls that start such a key come one at a time;
while one spawns, nothing of its key runs; while one restarts, the process it stops
stays the tracked one). No theorem assumes anything of the callers. None of the
properties is inductive alone: `OneProcessPerKey`,
say, needs to know that a goroutine past the check is the only starter of its key
and that the process it saw was dead. From `IInv` follow:

| Theorem | Property | About |
|---|---|---|
| `TypeCorrect` | `TypeOK` | every key |
| `CrashesAreUnasked` | `CrashIsUnasked` | every key |
| `StopKills` | `StopLeavesDead` | every key |
| `DrainsMoveOn` | `DrainMovesOn` | every key |
| `OneProcess` | `OneProcessPerKey` | keys not crossed |
| `RunningTracked` | `RunningIsTracked` | keys not crossed |
| `StatusCurrent` | `StatusIsCurrent` | keys not crossed |
| `RestartAccepted` | `RestartNotRefused` | keys not crossed |
| `Implementation` | `ImplementsSupervisor` | every key; the promise ends where it is crossed |

`Implementation` is step simulation: spawning, publishing, marking, dying and
recording map to the actions of `StationSupervisor`, a call that crosses another to
its `Cross`, everything else to a stutter. `DrainsMoveOn` is the part of `StopTerminates` that needs no fairness: a Stop
past its timer always waits for something that will happen. Only the timer brings a
goroutine there, right after its SIGKILL (`OnlyTimersDrain`); SIGKILL is final, and a
published child that is dead stays dead (`KillsLast`).

**ManagedStations** (in `StationRunnerProofs`, on top of `IInv`). `PanelInv` has the same
two layers. `SharedPanelInv` holds however many requests overlap: `RequestOK` (what is
left of a request is a suffix of its handler's steps, and a goroutine inside the Runner
is the one whose request waits for that call), `RequestsApart` (requests about a
station that is not crossed come one at a time) and `BootOK` (boot serves nobody, what it
still has to start is wanted, and what is wanted and was not skipped is started or being
started). `AloneInv` is about the stations that are not crossed: `DoneOK` (what the steps a request has left behind have brought about in the
table and the files), `StopOK` (Stop acts on the process its key tracks and comes back to
a key with none alive, which is where `OneProcessPerKey` is needed) and `LiveOK` (what
runs is wanted, or is about to be stopped by a request that has just cleared the wish).
Requests may overlap in any way, any step may fail or break off, and the panel may die
between any two; a death takes every station out of `crossed`, since it ends every
request.

| Theorem | Property | About |
|---|---|---|
| `PanelTypeCorrect` | `PanelTypeOK` | every key |
| `BootReconciles` | `BootIsThorough` | every key |
| `PanelCrashesUnasked` | `CrashIsUnasked` | every key |
| `PanelDrainsMoveOn` | `DrainMovesOn` | every key |
| `PanelOneProcess` | `OneProcessPerKey` | keys not crossed |
| `WhatRunsIsWanted` | `LiveIsWanted` | keys not crossed |
| `CreateIsFresh` | `CreateStartsFresh` | keys not crossed |
| `StopEndsStation` | `StopIsComplete` | keys not crossed |
| `DeleteEndsStation` | `DeleteIsComplete` | keys not crossed |
| `PanelImplementation` | `ImplementsDirectory` | every key; the promise ends where it is crossed |

`PanelImplementation` carries the simulation of the Runner over to the panel: a step of a
goroutine, a Wait goroutine or a child is a step of the supervisor with the rows left
alone (a spawn needs `DoneOK` for the row to want it); a step of a handler changes at most
its row, for which `StopOK` and `LiveOK` say what is alive; a death is `Reboot`. To the
Runner alone every step of the panel is a step of its own, a stutter or a death
(`PanelRunsRunner`), which brings `DrainMovesOn` over: no handler is stuck in a Stop.

**Accounts.** `AccountsInv`: ids are below the counter and an entry of any list, or
of any request, names the account of its id or a deleted one (so `StaleIds` and
`HoldersLogin` hold for any number of operators); past the self check the target is
not the session's account (`NoSelf`, if the check was answered); until two deletes
have crossed, one at a time is past its count, which still holds at its DELETE
(`LastUser`). The steps over finite
sets use `FiniteSetTheorems`. `AccountsImplementation` needs no assumption on the
callers: every statement opens an account, closes one, or leaves the register as it
is, because an UPDATE by an old id meets the account the operator meant or no row; that
the last account is kept is part of the promise until `crossed`.

**Collector.** `LoopInv`: a tracked watch belongs to its station and either has its
cancel function or is about to get it in this round of discovery; every watch of a
station that is not canceled is the tracked one, so there is one (`OneLiveWatch`), and
`CancelsAreSet` follows as well. `EventsWin` needs `CollectorInv`, which adds `StartOK` (a
watch that is yet to be started has no goroutine), `NewestIs` (the newest of what is
queued, handed over and cached for a watch whose stream was heard is the station's own
state) and `StreamOK` (a watcher drains exactly while it has a stream and a forwarder, and
the forwarder's channel belongs to that subscription). `CollectorImplementation` shows
that goroutines, stream and channel together are the feed of `StationFeeds`: the
forwarder's `Receive` is a stutter, because the event it takes stays at the head of
`Queue(w)` until the watcher caches it, and a feed shuts only when it was canceled, or
when its stream has ended and the queue is empty. The steps over queues use `SequenceTheorems`.

**The front end.** Each invariant says what the code relies on without saying so:

| Module | Invariant beside the type | Theorems |
|---|---|---|
| `StationPage` | `EffectOK`: every effect but the mounted one is over, or waits for a token it will refuse. `FetchOK`: no answer under way is older than what the page was told, because telling restarts the fetch. `NewsOK`: events and answers speak of changes that happened | `PageTypeCorrect`, `OneStreamOnly`, `NewsIsShown` |
| `Drawer` | `NeverOpenWide` and `DragIsHeld` are inductive with the type; `OpenIsSeen` adds that an open drawer is read as open: only the effect of a render that closed it may be late | `DrawerTypeCorrect`, `DragHeld`, `WideIsClosed`, `TogglesEndDrags`, `GesturesGoTheirWay` |
| `NowPlaying` | `SoundOK`: where the button is shown, sound proves that this source has played, and no event of playing is queued before it has. `OffsetIsCurrent`, `TargetIsHeld`, `ClockIsOfTrack` are inductive beside it | `NowTypeCorrect`, `HeardIsListening`, `ProofIsOwn`, `OffsetCurrent`, `TargetHeld`, `ClockCurrent` |
| `StationEditor` | `Current`, of the cached script and of the one being fetched: it is of the station that exists, the answer that removes it is on its way, or the page was never told of the deletion | `EditorTypeCorrect`, `ScriptIsOfStation`, `DraftKept` |
| `Session` | `ListOK`: a list that was read is no older than the changes the tab was told of on its page, unless another is coming or has failed to | `SessionTypeCorrect`, `OwnChangesAreListed`, `NamesAgree` |

**Only model-checked.** Liveness (`StopTerminates`, `DeathIsRecorded`, `BootEnds`,
`Recovers`, `GoroutinesEnd`, `ShowsCurrent`, `StreamReturns`,
`ListenIsAnswered`, `ProcessConverges`, `EndsAtLogin`), which is out of the prover's
reach.

## 5. Not modelled

The components marked `not_modelled` in `PROJECT.json`, with their reasons. The
largest of them are stateless (the proxy handlers, the router, most hooks and
components of the front end), sequential at boot (configuration, registry,
migration) or a single value behind a mutex (release checker, ring buffer). The
refresh of the admin token is a matter of durations: the project has no clock, and
without one nothing can be said of a token that is renewed in time.

Within the modelled components: contents of files, tokens, passwords and log lines;
the signature of the event stream's token; the rows of the listener statistics and
the fallback snapshot; what an RPC that never returns does to the loop that called
it (only keepalive bounds it); children that outlive the panel; which of two
overlapping saves of a script wins; the fields of forms; volume, ticks between two
snapshots and the value of a position on the bar; the log tail and CodeMirror
itself. Some of these have behaviour that a reader of the code should know and that
no sentence of the repository contradicts; they are hazards with a note.
