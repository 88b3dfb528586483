# A verification project for wrongtop

wrongtop is a terminal system monitor written in Go. One process samples the
machine (`internal/collector`), shows the samples in a bubbletea program
(`internal/app`, `internal/ui`), follows containers (`internal/dockerclient`),
and can stream its samples to other machines (`internal/remote`). This
directory holds TLA+ models of the parts where steps of several goroutines,
timers or messages meet, TLC configurations that check them, and theorems that
TLAPS checks.

Run anything from this directory: `tlc -config MCRemoteServe.cfg MCRemoteServe.tla`,
`tlapm RemoteServeProofs.tla`.

## 1. Inventory

| part | state it keeps | operations | meets |
|---|---|---|---|
| **Remote server** `remote/server.go` | registry of client channels under `mu`, the listener, the context | accept, handshake, register, broadcast, drop, shut down | one goroutine per client, a ticker, a shutdown goroutine |
| **Remote client** `remote/remote.go`, `connect` in `cmd/wrongtop/main.go` | one connection, an `AfterFunc` hook on a ten-second context | `Dial`, `Next` | the server, the deadline, the reader goroutine in `app.go` |
| **Collector** `collector/collector.go`, `gpu.go` | previous counters, `pollClock`, caches each with its own mutex | `Collect` | overlapping calls: the application starts one per tick and waits for none |
| **Platform probes** `collector/*_linux.go`, `*_darwin*.go`, NVML | none | reads of sysfs, IOKit, NVML | the collector |
| **Event loop** `app/app.go` | latest sample, alert history, docker client, configuration, active tab, overlays | one handler per message, commands in goroutines | everything |
| **Docker tab and client** `ui/docker`, `dockerclient` | container list, rates, the log pane | listings, actions, the log viewer's three goroutines | the daemon, the event loop |
| **Processes tab** `ui/processes`, `procs` | sample, filter, order, selection, detail box, signal prompt | keys, samples, resizes, lookups | the event loop, the system's signals |
| **Other tabs** `ui/dashboard`, `disks`, `network`, `sensors`, `conns` | histories, tables | samples, keys | the event loop |
| **Canvas and toolkit** `ui/canvas`, `ui/*.go`, `format` | history rings, scales, render caches | push, resize, draw, hit tests | the tabs |
| **Configuration and themes** `config`, `theme` | the configuration, the theme registry | load, normalize, resolve, cycle | the event loop on `R` and `T` |

What is hard in them, and what makes them correct:

* *Server.* A channel is closed by three parties; a handler must never be left
  waiting on one that nobody closes; a client's stream must have no gap; a
  stalled peer must cost nobody else anything; shutdown must end everything.
* *Client.* The dial context must bound the handshake and must not bound the stream.
* *Collector.* Overlapping calls, failed sections, suspensions and counters
  that restart must not produce spikes, and late calls with an old clock must
  not defeat the caches.
* *Event loop.* Messages arrive in any order. There must be one timer chain,
  one reconnect chain, a consistent alert history, and a remote session that
  stays read-only and says when it is lost.
* *Log viewer.* Lines of a closed pane are in flight when the next one opens;
  everything a pane started must end when it closes.
* *Processes.* The table changes between the user's look and the user's key.
  Parents come from the kernel one process at a time and may form cycles.
* *Tables.* The table widget draws itself at every change of its rows or of its
  columns, and panics on a row longer than the header; hidden tabs skip samples
  and resizes.
* *Dashboard.* Its frame is cached, its panels share borders and are integer
  shares of the terminal, its history graphs are rings that each resize copies.
* *Screen.* Drawing the row of tabs records where a click goes; one row is
  shared by titles, chips and notes at any width.
* *Configuration and themes.* Values are repaired and keys are checked one by
  one, but must agree with each other; files change under a running program.

`PROJECT.json` lists every component with its status, and under `hazards` each
of these dangers at the line where it bites.

## 2. Modules

| module | models | checked by |
|---|---|---|
| `SnapshotFeed` | what a client of the server is promised: a gapless, in-order run of snapshots from the first one published after it subscribed | refinement target |
| `RemoteServe` | `Serve` and `handleConn` | `serve` |
| `RemoteClient` | `Dial` and `Next` under the context of `wrongtop connect` | `streams`, `client_race` |
| `CollectorRates`, `CollectorCaches` | the two halves of `Collect`'s shared state | `collector`, `collector_rates` |
| `AppLoop` | the event loop of the root model | `app`, `app_latest` |
| `Screen` | tabs, overlays, global keys, the two bars and the frame around the tabs | `app`, `typed_keys` |
| `Settings` | configuration file, theme files, the keys `T` and `R` | `app` |
| `Dashboard` | the dashboard's layout, budgets, graph widths and cached frame | `app` |
| `HistoryWindow` | what a history graph shows: the latest samples, two per cell | refinement target |
| `HistoryRing` | the ring buffer of `canvas.Graph` | `app` |
| `DockerLogs` | the log viewer: pane, wait commands, pump, copier | `streams`, `docker_leak` |
| `DockerPoll` | the container table: listings in flight, rates, rows and cursor, lifecycle actions | `tabs`, `docker_rates` |
| `ProcTable` | the Processes tab behind the root's input routing | `tabs`, `procs_readonly` |
| `ProcTree` | `BuildTree` and the keys that collapse and expand | `tabs` |
| `TableTabs` | the Disks, Network and Connections tabs | `tabs` |
| `Tabs` | the processes and the table tabs side by side: whatever tab is in front is fresh | `tabs` |
| `RemoteServeProofs` | theorems about `RemoteServe`, and that it implements `SnapshotFeed` | TLAPS |
| `AppLoopProofs` | about `AppLoop` and the composition `MCAppLoop` | TLAPS |
| `ScreenProofs` | about `Screen` and `Settings` | TLAPS |
| `DashboardProofs` | about `Dashboard`, and that `HistoryRing` implements `HistoryWindow` | TLAPS |
| `CollectorProofs` | about `CollectorRates`, `CollectorCaches` and the composition `MCCollector` | TLAPS |
| `StreamsProofs` | about `DockerLogs`, `RemoteClient` and the composition `MCStreams` | TLAPS |
| `TreeProofs` | about `ProcTree` | TLAPS |
| `TabsProofs` | about `DockerPoll`, `ProcTable`, `TableTabs`, `Tabs` and the composition `MCTabs` | TLAPS |
| `MC*` | constants, symmetry, and the composition of several modules into one run | |

How the state corresponds to the code, module by module:

**`RemoteServe`.** One program counter per goroutine: `main` (accept loop),
`tk` (ticker), `sd` (shutdown), `pc[c]` (handler of connection `c`). `mu` names
the critical section that holds the mutex; `clients` is the registry;
`chan[c]`/`closed[c]` are the handler's channel. A broadcast is a lock, one
step per registered client (the code's `select` with a `default`), and an
unlock; since the map's iteration order is unspecified the steps come in any
order. `register` is two steps because the context may be cancelled between
the test and the insertion, which the mutex does not prevent. The handler
receives without the mutex. `token[c]` is what the peer presents, until it is
read: a good token, a bad one, or silence; `peer[c]` is whether the peer reads
its socket, which matters only while it is written to and is not followed
otherwise. A stalled write fails by its deadline, a silent handshake by its
five seconds, and either may be reset at any time. `panicked` records a send
on, or a close of, a closed channel. A failing `Accept` makes `Serve` return
with the goroutines still running (`AcceptError`), as in the code. `next` and
`frame` name the snapshot a handler writes next and is writing; they are what
the refinement compares with `SnapshotFeed`.

**`RemoteClient`.** `hook` is the `AfterFunc`: armed, stopped, started, ran.
Starting the callback and running it are different steps, because it runs in
its own goroutine and `stop()` waits for nobody. Frames are kinds (`hello`,
`other` protocol, `snap`, `bad`).

**`CollectorRates`/`CollectorCaches`.** A step is one critical section of the
code. A monitored counter advances by one a second, so a rate is wrong exactly
when its difference exceeds its window. `collectDiskIO` and `collectNet` have
the same shape (read without `mu`, exchange under it) and are the section
`io`; the process table is read, diffed and stored under `mu`. The halves
share only the clock, and a behaviour of `MCCollector` exercises one of them
(variable `half`); checking the product would multiply their states without
adding an interaction.

**`AppLoop`.** Commands run in goroutines, so a command is a counter or a set
of commands in flight and its message may arrive at any time. A sample is
named by the position of its `Collect` among all of them. `alerts` and
`openAlerts` are the history and the open events; the code's pointer shared by
both is the pair (key, start). In remote mode the reader goroutine has its own
program counter; `program.Send` is a rendezvous with the loop.

**`Screen`.** Every message but mouse motion redraws, so an action is a message
and the redraw after it. Texts are their widths: titles with and without their
label, the cap that a nerd font draws behind the active one (`CapW`), the alert
chips, the live chips by priority, the identity, the hints.
`tabBarLeft` is called up to three times for one frame and writes `tabBounds`
each time; the model makes the same calls in the same order. `typed` counts
what reached the filter, and `meant` (a history variable, not in the code)
what was pressed while it was open.

**`Settings`.** Themes are numbers, and their order is the order of the names.
A palette is a theme and the version of the file that defines it, so that an
old palette under a new name can be told from a current one. Of the fields of
the configuration the theme, the two keys and one pair of thresholds are
modelled, those that are repaired against each other or against other code.
`Huge` stands for the floats that adding one does not change.

**`Dashboard`.** A sample is how many things it reports, which is all the
layout looks at. `GridPanels` returns the rectangles that `gridPanels` gives to
`ui.Frame`; `GridLines` returns how many lines each panel's view renders for
it, which may be more than it has rows: `ui.Frame` clips the rest. CPU,
NETWORK, DISKS, GPUS and PROCESSES are given a budget; HOST is given one that
only its load graph looks at (`HostLines`), MEMORY none (`MemLines`). `extras`
counts what HOST shows only where the platform reports it: the full name of
the system, users, battery, fans. `frame` is the cached frame, represented by
the inputs it was built from.

**`HistoryRing`.** `graph` is the record of `canvas.Graph`: array, head, size,
width. `RingNext` is `Push` and `Resize`; `Shown` is what `View` reads, and
the refinement maps it to the window of `HistoryWindow`.

**`DockerLogs`.** Each opening of the pane is a stream with a pump, a copier, a
channel, a log response and at most one wait command. The copier's write into
the pipe is a rendezvous with the pump's scan, as `io.Pipe` is unbuffered.
`front` says whether the Docker tab is the active one: keys reach the tab only
then, but the messages of its commands always do, as the root routes
completions to every tab (`app.go:338-353`). Scrolling and the pane's height
are left out.

**`DockerPoll`.** The daemon is the environment: containers start, stop, are
removed and move traffic; the newest comes first in its list. A listing is
one `ContainerList` and then one step per stats call, as they run
concurrently; several listings may be in flight and their updates arrive in
any order. A listing that fails delivers an empty list, as `List` returns nil
with its error and the tab stores it. One counter stands for the four that
`updateRates` treats alike, and `rates` holds differences, not quotients; an
update in the same instant as the last one shows zeros. `total` and `epoch`
are not in the code: they are the traffic and the starts and stops that really
happened, which the rate properties compare with. `prev` is kept apart from
`cons` although both name the same containers, as in the code. An open log
pane and the overlays only keep keys from the table, so the model, which
lets a key arrive whenever the tab is active, covers them.

**`ProcTable`.** A process is its pid. Sorting by CPU may put processes in any
order, so an order is a sequence the environment picks; the filter and the
collapsed subtrees are the set of pids let through (`shown`), which a sample
may change too, since it may rename or reparent a process; `t` may hide the
selected row, as in the code, where processes stay collapsed outside the tree. `Kept` is the loop of
`procs.Filter` over the sample. `Rebuild` is the code's
`rebuild`, including what bubbles' `SetRows` does to the cursor. Global keys
are taken by the root before the tab sees them, whether a prompt is open or
not, as in `Update`.

**`ProcTree`.** Parents are any function on the pids, cycles included.
`BuildTree` is recursive in the code; here the calls its loops still have to
make are a sequence, `todo`, which the body of one call extends at its front
with the calls for the children (`Emit`). Calls for processes already visited
return at once, so a step of the walk (`Walk`) skips to the first call that
makes a row, and as many steps as there are processes suffice. What a
recursion only collects is a least closed set: the pids `markSubtree` flags,
and, in the properties, the ancestors of a process.

**`TableTabs`.** A sample is a set of names, the same for every table, and
whether it has process ids. `body` and `cols` are what the widget holds;
`torn` becomes true when one of its redraws meets a row longer than the header.
Both calls of a rebuild, and the redraw inside each, are in one action, in the
code's order. `hist` is the length of the history of every name seen.

Operators named `X_Suffix` are faulty variants of `X`, one for each checked
property: with `X` replaced by its variant the property fails, which shows
that the property depends on that code.

## 3. Runs

| run | bounds | what it shows |
|---|---|---|
| `serve` | 2 clients, channels of 2, 4 broadcasts | `TypeOK`, `NoPanic`, `NoOrphan`, `NobodyAfterShutdown`; `ImplementsFeed`: the server refines `SnapshotFeed`; `ShutdownEndsStreams`, `PeersCannotBlock` |
| `streams` | 2 openings, channels of 2, pane of 2 lines, 4 lines of the first stream and 2 of the second, the user in or out of the tab; or 3 frames, 2 on the wire | log viewer: `PaneShowsItsStream`, `NothingLost`, `PaneStaysArmed`, `ClosedPaneEnds`; client: `DialLeavesNothing`, `DialEnds` |
| `client_race` | same client | **violated**: `LiveStreamStaysOpen` |
| `collector` | 2 overlapping calls, 4 seconds, cadence 2 and 1, back-off 2, one restart per section | `WindowsDisjoint`, `NoSpuriousSpike`, `CachesPaced` |
| `collector_rates` | no restarts | **violated**: `RateCoversInterval` |
| `app` | loop: 2 alert keys, history of 3, 4 samples. Screen: 3 tabs, a cap of one cell, 4 terminals, 0, 1 or 4 alerts. Settings: 3 built-in themes, 3 names for user themes (one of them a built-in's), 8 letters, 2 edits. Dashboard: 15 sizes, 3 samples. Graph: 2 values, widths 1 to 3 | `ChainsStayOne`, `RemoteViewSound`, `HistorySound`, `LossIsReported`; `ClickHitsShownTab`, `ScreenFits`; `SettingsApplied`, `ThemeCycleReachesAll`; `PanelsTile`, `PanelContents`, `FrameIsCurrent`; `RingIsWindow` |
| `app_latest` | same event loop | **violated**: `LatestIsNewest` |
| `typed_keys` | same screen without the cap | **violated**: `DigitsReachFilter` |
| `docker_leak` | same log viewer, 3 lines | **violated**: `CopierReturns` |
| `tabs` | 2 processes (symmetric), 2 signals; or a tree of 3 pids; or tables with 2 names (symmetric), 2 widths, histories of 1; or 2 containers and 1 listing; or 1 container, 2 listings in flight, 3 starts and stops, 2 units of traffic | `FrontIsFresh`, `SelectionFollowsProcess`, `PromptIsBinding`, `CmdlineMatches`; `TreeIsForest`; `RowsFitColumns`; `ActsOnShownRow`, `RateOfGoodSamples` |
| `docker_rates` | 1 container, 1 listing | **violated**: `RateIsTraffic` |
| `procs_readonly` | same processes | **violated**: `ReadOnlySendsNothing` |

Each composite run (`streams`, `collector`, `app`, `tabs`) also checks `Types`,
the conjunction of its modules' type invariants. In a composite run a behaviour
exercises one module (variable `half` or `part`) while the others stay as they
start: they share no state that a property depends on, so their product would
have more states and no more interactions.

Why the bounds are enough. Two clients are the fewest with which one client
can be hurt by what happens to another; channels of two become full, empty and
neither; four broadcasts overfill a channel after a drop. `serve` has no
symmetry (it is unsound for liveness). Two Collects are the fewest that
overlap; four seconds leave room for a gap longer than `MaxElapsed`. A history
of three events with two keys is cut while one of its events is open. The four
terminals of `Screen` are one in which the strip of tabs fits with its labels,
one in which it fits without them, one that has to drop the chips, and one
that does not even hold the icons; heights are the least that shows anything
and one with room. Two edits are a change of the themes and one of the file
that names them, in either order. The dashboard's sizes lie on both sides of
every threshold of `class`, and its samples underfill, fill and overfill the
panels: 6, 8 and 11 facts about the host meet 7 and 10 rows, three to six
meters of memory meet 5 and 8. Rings of widths one to three wrap, grow and
shrink. Two openings are a stream and its successor; four lines exceed pane and
channel, and of the second stream, of which only the mixing with the first is
asked, two are enough (`Talks`: it bounds what a container writes, which is
not fair, and a copier that must end can). With two
processes each reordering, disappearance and return moves the selection. Three
pids are the fewest with a cycle of two and a process below it, and with a
parent between a root and a leaf. The widths of the tables lie around their
thresholds; histories of one name overflow with two. The Docker tab is
checked in two halves that share no property: its table depends on which
containers a listing names and not on their traffic, its rates on one
container's samples and not on the user. Three starts and stops make a restart
between any two of three samples. Every bound is a CONSTANT named as such in
its module.

`CHECK_DEADLOCK FALSE` appears where a bounded environment really stops:
`MCCollector*` (the clock reaches `MaxClock`), `MCStreams` and
`DockerLogsLeak` (no more openings, streams over), `RemoteClientRace` (the
session is over). `RemoteServe` has the explicit `Stopped` step instead, so
there every other stop would be reported; `MCAppLoop` and `MCTabs` never stop.

### What the violated runs show

* `client_race` - `remote.go:103-108`. If the ten-second context ends after
  the Hello was read and before the deferred `stop()` runs, the callback has
  started; `stop()` does not wait, `Dial` returns a client, and the callback
  closes it. The comment says "a live post-handshake stream is never closed".
* `collector_rates` - `collector.go:86-96`. A section that fails keeps its
  stored counters while `pollClock` moves on: the next rate counts two
  intervals and divides by one.
* `app_latest` - `app.go:100,274`. `m.latest` is "most recent sample", but an
  older sample delivered later replaces a newer one. Alert events can then end
  before they start.
* `typed_keys` - `app.go:383`. `globalKey` sees every key first: digits switch
  tabs instead of extending an open filter query, and `q`, `a`, `?`, `T` and
  `R` never reach it either, although the filter matches names and, "for
  all-digit queries", pid prefixes (README.md:99).
* `docker_leak` - `docker.go:275-290`, `stream.go:13-15`. The pump closes the
  log response but not the pipe's reading end; a copier blocked in the pipe
  never returns. Each pane closed in the middle of a busy stream leaves one
  goroutine behind.
* `docker_rates` - `docker.go:334`. A stats call that fails leaves its item's
  counters at zero, and `updateRates` takes them for a sample: the next rate is
  the container's lifetime traffic over one interval. The comment on `List`
  says "zeros are fine when they fail" (`dockerclient/docker.go:68`).
  `RateOfGoodSamples` shows that nothing else makes a rate up as long as
  updates arrive in order.
* `procs_readonly` - `processes.go:286,314`. `read_only` is tested when the
  prompt opens, not when it is answered, and `R` reloads under an open prompt.

### Observations that no run states as a property

They were met while modelling; the models behave as the code does.

* A disk or network counter that restarts between the unlocked reads of two
  overlapping Collects gives one since-boot spike, because the later store can
  hold the earlier read (`NoSpuriousSpike` excludes this case by name).
* A listing that fails after a connection shows "no containers", which the view
  takes for "daemon reachable but nothing running on it" (`docker.go`, `View`).
* If `Accept` fails while the context is alive (`server.go:109`), `Serve`
  returns an error and its ticker goroutine goes on collecting.
* A signal is sent by pid alone (`processes.go:289`): a pid that is reused
  while the prompt is open names another process. The model takes a process
  for its pid and cannot tell them apart.
* Themes: when a user theme has a built-in's name, the list that `T` walks
  holds it twice and the walk never gets past the second place, although `T`
  "cycles" all of them (README.md:87,182); `ThemeCycleReachesAll` is stated
  without that case. A reload empties the user registry before it reads the
  directory (`theme.go:249`), so an unreadable directory removes the user
  themes; the comment at `app.go:446-448` says the registry keeps its content.
  Colours that a theme file omits come from the gruvbox palette and not from
  the configured default (`loadUserThemes`).
* `normalize` computes `crit` from `warn` by adding to a float: from 2^53 on,
  and for infinity, the result is not above `warn` (`config.go:176-178`;
  `SettingsApplied` is stated below that value).
* Dashboard: beside its bar a core's entry needs eight cells (`c0 ` and ` 100%`,
  `coreBar`), while `perCoreView` subtracts seven and a width that it also
  raises to ten: a row of the view can be wider than its panel, for example at
  80 columns (`panels.go:223-265`). `p` does not
  resize the CPU graph, although `heroWorth` depends on the density
  (`panels.go:160-162`). Notes such as "+3 more" are one line beyond the budget
  and are clipped with their panel. `hostView` renders up to eleven facts into seven
to ten rows, and `memView`, which is given no budget, at least five lines: with
its graphs eight where MEMORY may have five rows. The last facts (fans, battery,
sensors, temperature) are then lost without a note, and under a swap meter
zram's bar; `ClippingBounded` says how much at most. The branch of
  `gridPanels` for fewer than six rows in the last band cannot be taken: there
  are always ten (the lemma `Bands`).
* The selection of the Processes tab is a pid, and 0 stands for none
  (`processes.go:341,363`). The reader on darwin does not filter pid 0
  (`procsys_darwin.go:30-40`): were it listed and selected, a rebuild would lose
  it. The model's pids are positive (section 5).
* In a terminal of one row the frame has two (`ScreenFits` begins at two).
* A mouse click on the other disks table takes the focus without restyling the
  tables as the keys do (`disks.go`, comment at 65-66).
* The maps of histories are dropped when they hold more than 128 names; with
  more live names than that every sample drops them.
* `BuildTree` hides the descendants of collapsed processes, except in a cycle
  of parents: an offshoot of the cycle that is listed before the cycle's first
  member is shown at the top level. `TreeIsForest` states the hiding for
  processes with no cycle above them.
* The comment at `processes.go:89` says that the application dims inactive tabs
  right after `New`; it does not.

## 4. Fairness

* `RemoteServe`: weak fairness of each goroutine (`Main`, `Ticker`,
  `Shutdown`, every `Handler`): Go runs runnable goroutines, timers fire, and
  `sync.Mutex` hands itself to starving waiters. Peers, the owner of the
  context and accept errors have none: a peer may stall for ever. That a
  stalled handshake or write fails is the deadline the code sets, hence part of
  the handler's fairness.
* `RemoteClient`: the client's goroutines and the deadline; not the server.
* `DockerLogs`: event loop, pump, wait commands; the copier's read and the
  daemon request only once they cannot stay blocked (body ended or closed,
  context cancelled). Not the user, the daemon or the container.
* `AppLoop`: the reader goroutine and the delivery of its messages.
* All other modules: safety only, no fairness.

## 5. Proofs

Every theorem holds for all values of the constants, under the named ASSUME of
the module it is about; TLC evaluates those assumptions in the runs. They say:

* capacities, cadences and widths of graphs are at least one; bounds on
  counters are natural numbers;
* the alert keys, the pids, the names in a sample and the names of theme files
  are finite sets, as a machine has finitely many of each; pids are positive,
  zero being the parent of none;
* a terminal's size is a pair of integers (of natural numbers for the frame), a
  tab's title with its label is no narrower than its icon, the identity on the
  left of the status bar has at least twelve cells (the name in a padded chip,
  a blank and a version, `statusBarView`);
* a sample reports natural numbers of things, of which HOST shows at most four
  beside its five fixed lines and its sensors;
* `LettersAssumption`: lower and upper case are as they are for letters, the
  letters that the application and the tab use are reserved in both cases, the
  built-in kill key is none of them;
* `ThresholdsAssumption`: thresholds are integers and the built-in warning one
  lies below the critical one.

| proof module | theorem | statement |
|---|---|---|
| `RemoteServeProofs` | `TypeCorrect` | `Safety => []TypeOK` |
| | `RegistryInvariant` | `Safety => []IInv` |
| | `ServeNeverPanics` | `Safety => []NoPanic` |
| | `HandlersReachable` | `Safety => []NoOrphan` |
| | `ShutdownIsFinal` | `Safety => []NobodyAfterShutdown` |
| | `QueuesAreRuns` | `Safety => []QueueInv` |
| | `ServeImplementsFeed` | `Safety => ImplementsFeed` |
| `AppLoopProofs` | `ChainsAreOne` | `Spec => []ChainsStayOne` |
| | `RemoteViewIsSound` | `Spec => []RemoteViewSound` |
| | `HistoryIsSound` | `Spec => HistorySound` |
| | `LoopTypeCorrect` | `Spec => []TypeOK` |
| | `AppTypesCorrect` | `MCSpec => []Types` |
| | `AppCorrect` | `MCSpec` implies all the run `app` checks but `LossIsReported` |
| `ScreenProofs` | `FrameAlwaysFits` | `ScreenSpec => []ScreenFits` |
| | `ClicksReachShownTab` | `ScreenSpec => []ClickHitsShownTab` |
| | `ScreenTypeCorrect` | `ScreenSpec => []ScreenTypeOK` |
| | `SettingsAlwaysApplied` | `SettingsSpec => []SettingsApplied` |
| | `CycleReachesEveryTheme` | `SettingsSpec => []ThemeCycleReachesAll` |
| | `SettingsTypeCorrect` | `SettingsSpec => []SettingsTypeOK` |
| `DashboardProofs` | `FrameStaysCurrent` | `DashSpec => []FrameIsCurrent` |
| | `PanelsAlwaysTile` | `DashSpec => []PanelsTile` |
| | `PanelContentsHold` | `DashSpec => []PanelContents` |
| | `DashTypeCorrect` | `DashSpec => []DashTypeOK` |
| | `RingTypeCorrect` | `RingSpec => []RingTypeOK` |
| | `RingRefinesWindow` | `RingSpec => RingIsWindow` |
| `CollectorProofs` | `WindowsAreDisjoint` | `Spec => []WindowsDisjoint` |
| | `RatesAreSane` | `Spec => []NoSpuriousSpike` |
| | `CachesArePaced` | `C!Spec => CachesPaced` |
| | `CollectorTypesCorrect` | `MCSpec => []Types` |
| | `CollectorCorrect` | `MCSpec` implies all the run `collector` checks |
| `StreamsProofs` | `PaneIsItsStream` | `Spec => []PaneShowsItsStream` |
| | `PaneLosesNothing` | `Spec => []NothingLost` |
| | `PaneIsArmed` | `Spec => []PaneStaysArmed` |
| | `DialLeavesNoTrace` | `C!Spec => DialLeavesNothing` |
| | `StreamsTypesCorrect` | `MCSpec => []Types` |
| | `StreamsCorrect` | `MCSpec` implies all the run `streams` checks but `ClosedPaneEnds` and `DialEnds` |
| `TreeProofs` | `TreeStaysForest` | `TreeSpec => [](TreeIsForest /\ TreeTypeOK)` |
| `TabsProofs` | `RowsMatchContainers` | `D!Spec => []ShownInv` |
| | `KeysActOnShownRow` | `D!Spec => ActsOnShownRow` |
| | `PollTypeCorrect` | `D!Spec => [](TypeInv /\ D!TypeOK)` |
| | `RowStaysSelected` | `D!Spec => []D!RowSelected` |
| | `SamplesAlwaysAgree` | `D!Spec => []RatesInv` |
| | `RatesAreOfTraffic` | `D!Spec => RateOfGoodSamples` |
| | `CmdlineStaysWithItsBox` | `Spec => []CmdlineMatches` |
| | `PromptsBind` | `Spec => PromptIsBinding` |
| | `SelectionStays` | `Spec => SelectionFollowsProcess` |
| | `ProcessesAreFresh` | `Spec => []ActiveTableIsFresh` |
| | `TableTypeCorrect` | `Spec => []TypeOK` |
| | `TablesNeverTear` | `TableSpec => []RowsFitColumns` |
| | `FrontTablesAreFresh` | `TableSpec => []FrontTableIsFresh` |
| | `TablesTypeCorrect` | `TableSpec => []TableTypeOK` |
| | `FrontTabIsFresh` | `TabsSpec => []FrontIsFresh` |
| | `TabsTypesCorrect` | `MCSpec => []Types` |
| | `TabsCorrect` | `MCSpec` implies all the run `tabs` checks |

**The registry.** None of the server's safety properties is inductive by
itself. `NoPanic` needs to know that a
registered channel is open; that needs to know that whoever closes one also
deletes it, and that a broadcast's work list `todo` stays inside the registry,
which holds only because no other section runs while it has the mutex.
`IInv` is the conjunction of these facts: `MutexInv` (who holds `mu`),
`RegistryInv` (registered means open and streaming; unregistered and streaming
means closed), `ShutdownInv` (the shutdown goroutine acts only on a cancelled
context, and an insertion in progress precedes it). The last one is the
argument for "register refuses once ctx is done": an insertion holds the mutex
from its test on, so the shutdown loop, which starts by taking the mutex,
sees it.

**The feed.** Gaplessness is a fact about three places at once: what a handler
writes, what lies in its channel, and what a running broadcast has yet to send
it. `QueueInv` ties them together: a channel holds consecutive snapshots that
follow the one in the handler's hand, and those of a registered client reach
up to the latest one, or to the one before it as long as the client is in
`todo`. With it every step of the server is a step of `SnapshotFeed` or a
stutter: registering subscribes, closing the channel fixes how far the client
is still served (`Upto`), and the feed is shut when the shutdown goroutine
takes the mutex.

**The compositions.** In a composite run a behaviour exercises one part. The
lemmas `PartsRun` and `HalvesRun` say that it is then a behaviour of each part,
the others only stuttering, so every theorem about a part holds of the whole.
The halves of the collector do share variables (the clock, and when each
Collect began); there `HalfRuns` says that a behaviour is one of the half in
play and that the other's stored state stays as it was made. `AppCorrect`,
`StreamsCorrect`, `CollectorCorrect` and `TabsCorrect` collect the results: what
the run checks of one instance, for every instance.

**The event loop.** `ChainsStayOne` is inductive with the ranges of the
counters (`CountersOK`). For the history, `HistoryInv` adds that an event
starts at a sample already on screen (`OnScreen`), so that the next sample
cannot open an event that is there already; locally those on screen are the
samples begun and no longer in flight, and a sample in flight was begun
(`SamplesOK`). `TrackSound` is the lemma about one call of
`trackAlerts`; `CutDropsOldest` the one about its cut.

**The rates.** A Collect takes its window from `pollClock` to its own `now` and
advances `pollClock` in the same critical section. `ClocksInv` says that every
Collect that runs has a `now` of at most `pollClock`: a new window begins where
all windows taken before end. `CountersInv` says that what a Collect holds, and what is stored
as the basis, lies between a counter's first value and its value now, until it
restarts; `RateBounded` is the arithmetic of the guarded subtraction.

**The caches.** `CachesPaced` looks at one step, and the invariant it needs is
only that times are times. Each fill is compared with the Collect's own `now`
and never with the clock, so that a Collect may come late does not matter: a
difference that is negative is below every interval. A probe within the
back-off of a failed one is excluded by `backedOff`, before the cadence is
looked at.

**The dial.** `HookInv` follows the hook through `Dial`: it is armed only while
the context lives and only between `Arm` and the return, and a callback that
has started implies a context that is done. Hence a failed dial has closed its
connection, and once `Dial` is over the end of the context starts nothing.

**The screen.** Every message ends in a redraw, and `RedrawFits` shows that a
redraw establishes `ScreenInv` whatever the message did: the frame fits, and
what is recorded of the row of tabs is what is on screen (`RowRecorded`). The
work is arithmetic over rows of any length: `TotalsExist`, `TotalsRise` and
`TotalsCover` are about running totals of widths, so that the zones of the
tabs cover the strip exactly once (`ZonesCoverStrip`), and the chips kept fill
no more than their budget (`KeptChipsFit`).

**The settings.** `SettingsInv`: the configuration in force is sane (`CfgSane`)
and screen and tabs show the palette its theme means. `NormalizedSane` says
that `normalize` makes any file sane, whichever of its keys collide;
`KeysReachHandlers` that with a sane configuration each key of the tab reaches
its own handler. For the theme key: the list of names is in order and, without
a user theme of a built-in's name, free of repetition (`DistinctNames`);
`NextInCycle` turns a press into a step along it and `CycleShowsAll` into a
walk that returns after as many presses as there are names.

**The processes.** `StepCases` sorts the steps of the tab into rebuilds of the
rows and steps that leave them alone; each theorem then needs one case per
kind. `ProcessesAreFresh` is the exception: whether a sample rebuilds depends on
visibility, so it goes action by action, with the extra fact that an active tab
is visible. For the types, `KeptIsList` shows that the loop of `procs.Filter`
returns the list of what it lets through, and `TableRebuilt` that a rebuild of
any rows ends with the cursor on one of them, as `EnsureCursor` comes last.

**The tree.** `BuildTree` runs to its end within one action, so the argument is
a loop invariant: `WalkInv` holds at `Start`, every `Walk` keeps it
(`WalkStep`), and when nobody is left to visit it says that the rows are a
forest. Its parts: `WalkPending`, a process not yet visited has a call to come,
and if no cycle is above it one in its place or after its parent's (`Waits`);
`WalkNested`, the parent of a row or of a call is the nearest row above it that
is less deep; `WalkShown`, nobody has two rows and whoever was flagged without
a row is below a collapsed process; `WalkSorted`, siblings follow the sort.
The fact that is not local is `NextIsProper`:
a call for an offshoot of a cycle may be at any depth, but the highest
unvisited process with no cycle above it has a call in its place, the calls up
to that one are right, and the next row comes no later. Every row visits
a process, so the walk ends after at most as many rows (`WalkEnds`).

**The table tabs.** `TablesInv` has three parts. `HeadersOK`: a header has a
column for every cell a rebuild would give a row now; before the first resize
it is the header of 100 columns that the constructor gives (`CellsFit`).
`FrontOK`: the tab in front is among those told of samples, and its rows are
the last sample's. `RowsFitColumns` itself. `ResizeStep` is about the order in
which a resize replaces header and rows, `RebuildStep` about any rebuild, of
any set of tabs. `CursorOnRow` says that the cursor ends on a row when there is
one, whether a rebuild of the columns emptied the table first or not, and
`HistoriesRecorded` that histories stay bounded in length and in number.

**The log pane.** `Behind(s)` is the number of the line before the first one in
the channel of stream `s`. `OnScreen` says that the channel holds the lines
after it, that the message in flight carries it, and that the pane ends with it
or, when a message is in flight, with the one before. It holds of the stream on
screen only: the pump of a closed pane may drop the line in its hand. A message
of an earlier stream that comes late meets another pane and changes neither.
`KeptLines` is the lemma about cutting the buffer. Which tab is active does not
occur in the invariant: `LogLine` is not guarded by `front`, which is what the
routing of completions to every tab amounts to.

**The containers.** `ActsOnShownRow` speaks of rows and `Action` reads the
container list, so it needs `ShownInv`: an active tab is visible, and a visible
tab's rows are its containers; a tab that is visible and not active, as the
Docker tab is when it is built, obeys it too.

**The rates of containers.** `RateOfGoodSamples` compares the update that
arrives with the one before it, but either may have been read long ago, by a
listing that was overtaken. `RatesInv` therefore speaks of every sample held
anywhere, in flight or in the tab: it is true of the container now
(`SampleTrue`: not of the future, and within one run no counter ran backwards
or ahead of the traffic), and any two of the same container agree
(`SamplesAgree`). A sample read now agrees with all older ones because they are
true (`ReadNowAgrees`).

**The dashboard.** `PanelsAlwaysTile` is arithmetic about a layout of seven
rectangles in three bands. `Bands` bounds the bands' heights for any terminal
of the grid class; `Tiling` and `Anchored` then state the geometry for any
heights in these ranges, `ApartInside` turns "apart but for a border" into the
disjointness that the property speaks of, and `LayoutTiles` puts them together
for the densities that show all panels or fewer.
`PanelContentsHold` adds the views, all seven: `RowsNeeded` is the arithmetic of
the budgets, `HostClips` and `MemClips` bound what the two panels without one
lose, `ClippingIsBounded` goes through the panels, and the graphs need `SizedInv`: they
have the widths that the present size gives under some density, as `p` does not
resize them.

**The ring.** Modulo the capacity each index that `View` computes is one
subtraction away (`TailIndexValue`), so the window is a plain rotation of the
array; a push moves every index by one (`PushShows`) and a resize starts a
rotation at zero (`ResizeShows`).

**Induction over data.** A recursive function has the values it was written for
only if a function with these values exists, and the library's theorems that
say so take an operator as a parameter, which the installed provers cannot
instantiate. `Climb` states the induction for a set instead (a set with 0,
closed under successor below n, has every number up to n), from the
well-foundedness of the natural numbers. `WalksExist`, `KeptIsList`,
`TotalsExist` and `PressesExist` use it to show that the functions are there
and typed. `ProcTable` has `Kept` and not `SelectSeq`, whose definition is
hidden from the provers.

Only model-checked: liveness, since the proof system has no backend for
fairness or ENABLED here. That is `ShutdownEndsStreams` and `PeersCannotBlock`
of the server, `LossIsReported` of the event loop, `ClosedPaneEnds` of the log
viewer and `DialEnds` of the client. Every invariant, action property and
refinement that a passing run checks has a theorem.

## 6. Not modelled, and why

* Platform probes (sysfs, IOKit, SMC, NVML) are reads without state.
* The Sensors tab is graphs in maps: a graph is `HistoryRing`, the bound of the
  maps is the one `TableTabs` states for the other histories.
* Drawing, glyphs, colour ramps, number formats, the texts of overlays and of
  the container's feedback line, and the scrolling of the log pane are layout.
* `procs.Sort` and `procs.Filter` are any order and any set in `ProcTable`:
  its properties hold whatever they return.
* Frame encoding is abstracted to frame kinds; `sanitizeSnapshot` is a pure
  filter on strings.
* `dump` and flag parsing are sequential code.
* `EvaluateAlerts` is the set of keys that a sample raises: any set.
* The remaining fields of the configuration are clamped one by one, without
  relation to each other.

## 7. Plan

Done: the server, its client and its refinement; the collector; the event
loop, the screen around the tabs and the settings; the log viewer and the
container table; the processes and their tree; the table tabs; the dashboard's
layout and frame; the history ring and its refinement; for all of them the
theorems of section 5.

Left, in this order:

1. `RemoteSession`: `RemoteServe`, `RemoteClient` and the remote half of
   `AppLoop` composed, with the end-to-end promise that the screen shows a
   prefix of what was broadcast since registration. `ServeImplementsFeed`
   allows `SnapshotFeed` in the server's place.
2. `EvaluateAlerts` with its thresholds, and the sensors' maps of graphs.
