# wol in TLA+

Specifications, model-checking configurations and machine-checked proofs about
`wol`, the Wake-on-LAN tool: a terminal program (the Wake Desk) and a command
line that wake, check, shut down and open machines of a home network, keep
them in an SQLite inventory, and update themselves.

## 1. The system

| Component | State | Operations | Works with |
|---|---|---|---|
| **fleet** (`internal/fleet`) | per run: a queue per site, a pool of goroutines per site, one semaphore, one context, one buffered channel | `Run`, with `Check` or `Wake` as the operation | batch command, Wake Desk (callers); presence, wake service (operations) |
| **batch command** (`cmd/wol/cmd_batch.go`) | counters, signal context, exit code | `wol batch check`, `wol batch wake` | fleet |
| **Wake Desk** (`internal/tui`) | one model updated by one goroutine; commands run in others and answer with messages; request, action and batch identifiers; a form; a picker; LAN discovery | one handler per key and message | all below |
| **remote manager** (`internal/remoteflow`) | registered sessions and streams of each machine, a closed flag, a context | `Open`, `Stop`, `Close` | wake service, local remote, Moonlight client |
| **local remote** (`internal/localremote`) | a broker with one-time, launch and form tokens; two containers and a network; saved credentials | `Start`, `Session.Close`, HTTP handlers, orphan removal | Docker, the browser |
| **Moonlight client** (`internal/moonlight`) | a process and whether it was waited for | `Start`, `Stop`, `Alive` | the operating system |
| **presence** (`internal/presence`) | detector: none between probes; cache: entries and calls in flight | `Probe`, `ProbeBatch`, `Resolve`, `Invalidate` | fleet, Wake Desk |
| **wake service** (`internal/wake`, `internal/wol`) | none; records attempts | `ResolveRoute`, `WakeDevice` | store, network, SSH relay |
| **store** (`internal/store`) | sites, relays, machines, groups, remote and power profiles, wake and power attempts | create, update, delete, upsert, import, export, `SyncDeviceAddress` | every command |
| **LAN discovery** (`internal/scanner`) | none | `ClassifyLAN`, `SyncDeviceIPs` | store, presence |
| **power** (`internal/power`) | none; records attempts | `Execute` now, later, cancel | SSH, store |
| **updater** (`internal/updater`) | the executable on disk | check, download, verify, replace | GitHub releases, signatures |
| release signing, Sunshine API, doctor, network configuration, rendering, flags | none of their own | | |

### What is hard, and what makes each part right

* **fleet.** Goroutines of several sites compete for one semaphore; the caller
  cancels at any moment and may stop reading. Right when: both limits hold,
  every machine is reported once and truthfully, nothing begins after the
  cancellation, the run always ends.
* **batch command.** A signal races the last results. Right when the exit code
  agrees with what was printed.
* **presence cache.** Callers share a probe whose context belongs to one of
  them. Right when probes are shared, aborted probes do not spread, and nobody
  waits for ever. (No command uses the cache yet.)
* **remote manager.** Sessions are started outside a lock and registered under
  it, while other calls replace, stop and close. Right when nothing that was
  started is lost.
* **Wake Desk.** Answers arrive after the state that asked for them is gone.
  Right when a late answer never changes a state it does not belong to, and
  when exclusive actions are exclusive.
* **local remote.** Starting is a sequence of commands each of which can fail
  or be cut; several processes share a Docker daemon. Right when a session
  leaves nothing behind and does not remove what another process owns.
* **store.** Checks outside transactions, references no foreign key enforces,
  old files upgraded by whoever opens them first. Right when no reference
  dangles, an export can be imported and an upgrade loses nothing.
* **wake service, power.** Right when what happened is what was recorded.
* **updater.** Right when an executable is always present and only a verified
  one is installed.
* **presence detector.** Evidence is partial and late. Right when `offline`
  is said only on evidence.

`PROJECT.json` lists the components with what is and is not modelled of each,
the hazards with their lines and the properties that cover them, and the lines
of the source each definition stands for.

## 2. Modules

| Module | What it is | Source |
|---|---|---|
| `FleetContract` | what `Run` promises its callers, without goroutines | - |
| `Fleet` | `fleet.Run`, its workers and its caller; the refinement to `FleetContract`; the inductive invariant | `internal/fleet/fleet.go` |
| `CacheContract` | what `presence.Cache` promises its callers, without locks, channels or clocks | - |
| `BatchCommand` | `wol batch`, composed over `Fleet` | `cmd/wol/cmd_batch.go` |
| `PresenceCache` | `presence.Cache` under concurrent callers; the refinement to `CacheContract` | `internal/presence/cache.go` |
| `RemoteManager` | `remoteflow.Manager`, with the lives of sessions and processes | `internal/remoteflow/flow.go` and the `Close` and `Stop` it calls |
| `WakeDesk` | the Wake Desk: keys, messages and the commands in flight between them | `internal/tui` |
| `LocalSession` | local remote sessions and what they have in Docker | `internal/localremote/{session,docker,orphans}.go` |
| `Inventory` | the store under concurrent calls, import and export | `internal/store` |
| `LanSync` | LAN scans that follow moved machines, over `Inventory` | `internal/scanner/lan.go`, `cmd/wol/cmd_scan.go` |
| `SelfUpdate` | `wol update`: order of versions, decision, checks, replacement | `internal/updater`, `cmd/wol/cmd_update.go` |
| `WakeService` | `WakeDevice`: route, packets, confirmation, history | `internal/wake`, `internal/wol` |
| `Detector` | `Detector.Probe`: dials, ping, ARP, verdict | `internal/presence/presence.go` |
| `Power` | `wol shutdown`, the power form, `power.Service` | `cmd/wol/cmd_shutdown.go`, `internal/power` |
| `Schema` | `store.Open` on an old file | `internal/store/store.go` |
| `Broker` | the requests of the browser to a session | `internal/localremote/{session,token,vault}.go` |
| `Commands` | one command of `wol`: an instance of one of the six modules above | `cmd/wol/main.go` |
| `FleetProofs`, `BatchProofs`, `CacheProofs`, `ManagerProofs`, `DeskProofs`, `InventoryProofs`, `SessionProofs`, `CommandsProofs` | the theorems | - |
| `MC...` | constants of the instances TLC checks | - |

Some modules hold *variants*: definitions that no specification uses, each a
plausible mistake in the action it is named after. `PROJECT.json` ("mutants")
pairs each with a property that fails when it takes that action's place, so
that every property is known to be able to fail.

How they are composed: `BatchCommand` extends `Fleet`, `LanSync` extends
`Inventory`; `Fleet` implements `FleetContract`, and `WakeDesk` relies on that
contract for what a running batch may still report; `PresenceCache` implements
`CacheContract`. `Commands` instantiates
`SelfUpdate`, `WakeService`, `Detector`, `Power`, `Schema` and `Broker`: `verb` is
the command a process runs, and each step is one of that command's module.

### Fleet

One worker `<<s, i>>` per goroutine, with the program counter of its loop:
`receive` (range over the queue), `check` (first `ctx.Err()`), `select`,
`acquired` (token in hand, second `ctx.Err()`), `running`, `release`, `send`,
`done`. `jobs[s]` is the site's closed channel, as the set of machines left in
it: its order is one of the orders the model allows. `global` is the set of
workers that hold a token. `results` is every result ever sent and `taken` how
many the reader has received, so that the channel's buffer holds
`Len(results) - taken`. The operation is one step that ends with some
outcome. Site timeouts and the fields of a result other than machine and status
are left out. `started` (machines whose operation was begun) is a history
variable, read by no guard.

The caller is an environment: it may cancel once, it takes results one by one,
it may stop reading. That covers both callers in the program: the Wake Desk
reads a result per message and stops when the request is stale, and the batch
command ranges over the channel.

### BatchCommand

Extends `Fleet`: the caller becomes the loop of `runBatch`. `PrintResult` takes
and counts a result, `OutputFails` is a failed write of a JSON line,
`Conclude` computes the exit code, `Interrupt` is the signal. The process ends
with its exit code, and with it all goroutines.

### PresenceCache

A caller is one call of `Resolve`; each critical section under the mutex is one
step. A result is named by the caller whose probe produced it, which lets the
properties ask whose evidence a caller was given. The time to live is the
action `Expire`. Sending on the `done` channel is membership in `done`.

### RemoteManager

A session or a process is named by the call of `Open` that started it, with a
life `none`, `starting`, `up`, `closing`, `down`. `todo[x]` is what a call has
taken out of the maps, or refused, and has yet to close. The
`context.AfterFunc` that ties a session to its action until it has started has
its own three states, because its goroutine can be running when it is stopped.
The manager is modelled as the API it offers to concurrent callers. In today's
program only the Wake Desk calls it concurrently, and only for streams;
browser sessions come from `wol remote open`, one in each process. The
instances keep the two kinds apart where that matters.

### WakeDesk

`Update` is the only code that changes the model, one message at a time, so each
key and each kind of message is one action, guarded as `handleKey` and `Update`
are. What makes the desk hard is between them: `cmds` holds the commands that
have been launched and have not answered, each with the identifier and the
machine its answer will carry, and any of them may answer next. `Stale` is the
comparison of identifiers with which `Update` refuses an answer; saved forms,
deletions and initiated shutdowns carry none and are never stale. `live` tells
whether the context of a command is still alive, `left` which results a reader
of `fleet.Run` has still to see: `FleetContract` is what justifies that each
machine is reported once and then the channel closes.

`requestID` is shared by loads, scans and probes, as in the code, and so are
`loadCancel` and `actionCancel`, which hold the identifier whose context they
cancel. `handleKey` asks its questions in a fixed order; `AtForm`, `AtPicker`,
`AtLAN`, `AtDesk` are the prefixes of that order, so that an action says where
its key is heard. `saidSent`, a history variable, has the machines whose result said
that their packet was sent. It is what the desk was told, not what is on the wire:
a wake can end as `failed` after packets have gone out.

The cursor, tabs and filters are abstracted to any machine displayed; a load or
a discovery displays any set of machines. Quitting is left out.

### LocalSession

`phase[s]` is the step of `Start` or `Close` a session is at: the two listings and
the removal of orphans, the network, the two containers, the published port,
the listener, `up`, the two halves of closing, `over`; `lost` when its process was
killed. Each command of Docker is one step with three outcomes: it acts and
says so, it fails, or it is cut and acts all the same, which Docker does.
`docker` is what exists, `started[s]` what the session knows it has made,
`owner[s]` the process id on its labels. A process id may be given to a new
process after a crash (`Reuse`), as an operating system does. `faulty` and
`orphans` are history variables. Whoever closes first (the browser, the context,
a lost connection, the owner) sets `asked`; a second one waits for the first. While a
session is starting only its context can end, which cuts the command it is at.

### Inventory and LanSync

`db` has one function or set per table; a row keeps the references it has and a
machine its address, the rest of its fields being of no consequence to other
rows. SQLite makes a statement or a transaction atomic, so these are the steps;
a call that reads in one and writes in another keeps what it has read in
`call[p]`. An id is handed out once, and `NameOf` is the unique name an import
finds a row by: the instances give two ids the same name, so that an import
meets rows of its own. A remote profile is the address it names; `follows` has the machines whose
profiles were last left to the machine's own address, and may be said to follow it. `disturbed` (a call was overtaken by another's write) and
`follows` are history variables. The sets of values the tables may hold (`Inventories`)
allow references that dangle: that they do not is what is proved.

A scan is a call too: `BeginScan` reads the ARP table (external) and the machines,
`CheckSite` and `SyncDeviceAddress` treat one machine after the other, `AddHost`
adds what `--add` asks for.

### SelfUpdate

A version is `[base, pre]`, compared by `CompareVersions` as the code does, missing
parts and mixed pre-releases included; a release is a set of assets with the terms
of their names, matched by `MatchAsset`. `at[u]` is the step of one update: the
release that is asked for, the decision, the checksums, the signature, the archive,
the extracted program (or, failing these, a build from source), the temporary
file, its write, its sync, and the renames. Each may fail. A crash empties a file
that was not flushed. `Publish` replaces the assets of the release between two
downloads. On Windows the program in use is moved aside first.

### WakeService, Detector, Power, Schema, Broker

`WakeService` keeps the packets on the `wire` apart from the `attempt` the code
fills in and from what is `recorded`: the context may end at every step, a send
may fail after any number of packets, and the store may refuse the record.
`Detector` has one goroutine per port; the first that is answered cancels the
others, the time or the caller may cut the sweep, and answers that were under
way still arrive. `Power` parses a command line of any flags before and after the
machine, then asks for the platform and sends the command. `Schema` is two
processes that open an old file, each statement and the transaction one step,
which may fail or be cut in between, next to a user who saves a profile.
`Broker` serves the tabs of several browsers at once: what is under the mutex is
one step, and between a lookup in the vault, the building of a token and the page
any other request may come. Tokens are numbers, fresh each time.

## 3. Runs

| Run | Instance | What it shows |
|---|---|---|
| `fleet` | 4 machines, a site limited to 2 workers, a site with 1, 2 tokens | limits, truthful unique results, order of the end, no work after the cancellation, termination; `Fleet` implements `FleetContract` |
| `batch_command` | 3 machines, 2 workers, 2 tokens | the exit code against what was printed; an interruption reports all; the command ends |
| `presence_cache` | 4 callers, 2 keys, 1 forced, 2 cancellable, 2 evictions | only sound results spread, everybody returns; `PresenceCache` implements `CacheContract` |
| `remote_manager` | 2 browser sessions and a stream of a machine, 1 stop, 1 close | nothing is lost, nothing outlives `Close` and the calls it overlapped, no deadlock among calls that close the same session: a Stop or Close returns, and an Open does unless Docker keeps it while its context and the manager's are alive |
| `wake_desk_batches` | 2 machines, 2 commands in flight, batches, checks, deletions and actions | results of a batch are accounted for and retained, a retry takes no machine that was said to be sent its packet, what is replaced is cancelled |
| `wake_desk` | 1 machine, 2 commands in flight, everything but explicit checks and deletions | a wake and a remote never overlap, nothing on the screen waits for a refused answer, and everything that is waited for ends but the opening of a remote, which may wait for Esc |
| `inventory` | 2 processes, 3 calls, ids with equal names, 2 addresses, every kind of call | what calls do alone is sound; an export restores; an import of any export, torn ones included, keeps an inventory sound; a scan follows every machine it may |
| `local_session` | 2 sessions of 2 processes, the leftovers of a crashed one, 1 crash | live sessions are untouched by reaping, what is left behind is reported, orphans are reaped, a session that is cut while starting, asked to end or closing ends |
| `commands` | 2 updates, 3 versions, 2 releases; 2 packets; 3 ports; lines of 3 words; 2 openers; 3 tabs of 2 browsers | the properties of the six modules of `Commands` |
| `actions_do_not_overlap` | 1 machine, actions and power | **violated**: a message of the desk |
| `close_tears_down_all` | 2 streams, 1 stop, 1 close | **violated**: the comment of `Close` |
| `in_use_stays` | as `inventory` | **violated**: `docs/homelab.md` and the refusals of the store |

The violated runs are disagreements between a document, a comment or a message
and the code:

* *Close does not tear down everything.* It takes the registered sessions. What
  a concurrent `Open` has launched and not registered is closed by that `Open`
  later; the program exits without waiting for it.
* *Two machine actions at once.* `shutdownInitiatedMsg` carries no identifier.
  If the power form is left with Esc while it is being saved and a wake is begun,
  the answer begins the watch of the shutdown all the same: both are in
  progress, the answers of the wake are refused from then on, its context is
  cancelled by nobody, and the desk stays locked until Esc. `SpinnersAreBacked`
  and `SpinnersStop` therefore speak of the action that `actionTarget` names,
  not of `waking` and `opening`.
* *What is in use is deleted.* `DeleteSite` and `DeleteWakeRelay` count the uses
  before their transaction; a use that is saved between loses its reference.

### What else was seen

Behaviours the models have, or that were met while writing them, which
contradict no stated promise, or only in passing:

* `presence.Cache.Resolve` looks into the cache and then, in another critical
  section, among the calls in flight: a caller overtaken in between by a whole
  probe probes again (the comment says "runs probe once").
* If an action's context ends while the startup of a session returns, `Open`
  reports a session that is then cut (the comment says the manager owns it).
* A wake whose packets went out is reported as `failed` when a later packet of the
  same wake could not be sent, when the attempt could not be recorded or when the
  relay's connection broke (`WakeService` has the first two). The Wake Desk cannot tell it from one that sent
  nothing: R takes the machine again, and it gets another packet. No document
  promises otherwise; `RetriesSpareTheCompleted` is about the machines whose result
  said `sent`.
* Nothing limits how long `Open` waits for Docker while a browser session starts, nor how
  long the Wake Desk waits for the program that opens a remote: both end with the
  user's Ctrl+C or Esc.
* When the browser cannot be opened, `Start` returns that error and drops the one of
  `Close`.
* The Wake Desk refuses machine actions during a batch by a list of letters;
  Enter opens the picker, which reaches them.
* A second move of a machine overwrites an explicit remote host that equals its
  old address (`site_config.go`); an address edited by hand leaves the remote
  profile behind; `wol scan` lists as `updated-ip` hosts it did not update.
* The machine form takes any text as a relay. An export with such a machine is
  refused by `Import`: `ExportRestores` excludes it.
* The power form forgets the SSH key when the profile cannot be read. `ssh` may
  report a failure of `shutdown now` although the machine goes down.
* The removal of orphans fails a `Start` when a process dies between its two
  listings, or when two sessions reap the same container.
* On Windows there is no executable between the two renames; another update may
  then have moved it (`ProgramSurvives` says which states are possible). Of two
  concurrent updates the older release may be the last. Versions with `+build`
  compare as if the build were a part. An asset named `x86_64` is read as `x86`.
  When no asset matches, the source is built, which has no checksum.
* A probe whose time is up before its first dial may say offline with no dial
  counted.
* A second process that looked at the columns of an old inventory before the first
  upgraded it copies the profiles again, and what was saved between is reset
  (`UpgradeLosesNothing` excludes the machines concerned). A concurrent
  `ALTER TABLE` fails one of two openings, which can be repeated.
* A password forgotten while a sign-in that uses it is being served is saved again.

**Bounds.** In `Fleet` what matters is more workers than tokens, more machines
than workers, two sites of which one has a single worker, a cancellation and a
reader that leaves at every possible point; four machines and three workers
are the least that give all of these, with three for the longer `BatchCommand`.
In `PresenceCache`
two callers race, a third joins or arrives late and a fourth shows keys do not
interfere; `MaxEvictions` bounds expiries and invalidations, two allow one of
each. In `RemoteManager` one session can replace another while a stream of the
same machine is opened, stopped and closed; the calls are finite in number
and there are no counters. The variables of machines do not interact, so one
machine is enough. In `WakeDesk` a user who did
everything with two machines would be too many states, so each run has a user
with some uses (`Doing`), chosen so that those that share state meet: batches,
checks, deletions and actions share the load context and the locks of two
machines; everything but checks and deletions shares the screen of one. `MaxBegun`
bounds the identifiers used up: five allow a batch, its retry and what a refresh
or a check does in between, four a discovery, a new host, its form and its
successor. `MaxInFlight` bounds the commands in flight: with two, the answer to a
newer command can overtake that to an older one. Larger instances (three
commands, one machine, forms or actions alone) were explored without a
difference. `MaxFound` is two, so that a queue of new hosts has a head and a rest.

In `Inventory` three calls of two processes let one call be overtaken by a whole
other one and a third observe the result, and let an export be imported after
the inventory changed; two ids of a table share a name, so that an import meets
its own and foreign rows; a machine has a relay and one has none, so that a scan
follows some and not others. In `LocalSession` a session can start, run or close
while the other reaps what a third left, and `MaxCrashes` is one: with it a
process that reaps can itself leave orphans. In `Commands` two updates can
overtake each other at any step, `MaxBuilds` 2 publishes a release anew once;
three ports are one that is answered, one that is cut and one that fails;
`MaxTokens` 3 lets a sign-in replace one that replaced another, and three tabs of
two browsers have both a tab of the same and of another browser; a line of three
words has a flag before and after the machine, or two flags that disagree.

**Deadlock** is not checked: all of these systems really stop. That they stop in
the right state is stated by the liveness properties.

**Fairness.** Weak fairness of each goroutine, since the Go scheduler runs what can
run, where what it waits for ends:

* `Fleet`, `BatchCommand`: an operation is bounded (35 s for a wake, the site's
  timeout for a check). A blocked `select` or a full semaphore needs no strong
  fairness because tokens are given back for ever only finitely often. A reader is
  assumed to read for as long as it has not stopped.
* `PresenceCache`: a probe has its own timeout.
* `LocalSession`, `RemoteManager`: **the commands that start a session have no
  deadline.** Their context is that of `wol remote open` or of the manager. A session or
  an `Open` that is starting is therefore taken to go on only once a context of its own
  is done (`Bounded`), which kills the command of Docker it waits for. Nobody is
  assumed to end that context. `CallsReturn` leaves out the `Open` that still waits for
  Docker (`WaitsForDocker`), and `SessionsEnd` speaks of sessions whose context has ended, that
  were asked to end, or that close. Closing has fifteen seconds for the server and
  fifteen for the containers. The goroutine of `context.AfterFunc` runs once its
  context is done.
* `WakeDesk`: loads, probes, saves, discoveries and power commands have timeouts of 2 to
  20 s, a wake 35 s and the watch of a machine 90 s; a scan or a batch ends because
  `fleet.Run` does. **The command that opens a remote has none**: once the machine
  answers it waits for `xdg-open`, `open` or another program of the desktop under a
  context that only Esc cancels. It is taken to answer only when that is done (`Bounded`), and
  `SpinnersStop` leaves out an action that is such an opening. That loads and
  checks end is said of a user who does not replace them for ever, which
  `MaxBegun` prevents.

Keys, cancellations, signals, expiries, failing output, Stop, Close, crashes and users
ending sessions are never assumed to happen. `Inventory` and `Commands` state safety
only: their steps are statements and system calls that return, and nothing waits.

## 4. Proofs

Everything below is proved for every value of the constants that satisfies the
assumptions named beside the constants, and each inductive invariant was checked by
TLC on the instances first. Most assumptions say that model values are apart, sets
finite and bounds natural numbers. Those that say something of the system:

* `NamesAssumption` (`Inventory`): an id, and the unique name of a row, belong to one
  table; `newID` writes the table into the id. `StartAssumption`: the inventory begins
  with sound references. `SightingsAssumption` (`LanSync`): a scan sees finitely many
  addresses.
* `VersionsAssumption` (`Commands`): versions are those of SemVer, with at most three
  numbers and any pre-release; for others (`+build` is read as a part) the order of the
  code is not that of SemVer. `ReleasesAssumption`: an archive named for one platform
  holds a program for it, as `scripts/package.sh` makes them.
* `ShutdownAssumption` (`Commands`): a command line is a sequence of words; a delay is
  not negative, others being refused before anything is asked of a machine.

### The pool

`FleetProofs` proves, for every finite set of machines, sites, limits and
outcomes, that `Spec` implies the invariants `TypeOK`,
`BoundedWork`, `NoDuplicateResult`, `ClosedIsComplete`, `TruthfulReport` and
`SendNeverBlocks`, and the action property `CancelStartsNothing`.

None of those invariants is inductive alone. `IInv` in `Fleet` adds:

* `Possession`: a worker holds a machine exactly between receiving and sending,
  and one of its own site.
* `OnePlace`, `NoneLost`: each machine is in exactly one of a queue, a worker, or
  the results.
* `Tokens`: the workers in `global` are exactly those between acquiring and
  releasing, and there are no more of them than tokens.
* `History`: the status a worker carries agrees with whether its machine was
  begun.
* `Ending`: a worker that is done leaves its queue empty, and the channel is
  closed only when all are done.

Each action has a lemma that it preserves `IInv`, `NextIInv` puts them together
and `Invariance` is the temporal conclusion. The corollaries need counting:
`BoundedWork` embeds the running workers in the token holders and in the
worker numbers of a site; `SendNeverBlocks` embeds the indices of the results
into the machines other than the one in hand, so that the results sent are
fewer than the buffer's slots.

`RunImplementsContract` is `ImplementsContract`, from the same invariant. The
mapping reads a machine's fate off the place the machine is in, which `IInv`
makes unique (`FateIsByPlace`). A worker's step changes no fate but that of the
machine it holds (`FateFrame`), so each action of the code is one action of the
contract at that machine, or none: beginning is `Begin`, returning `Complete`,
sending `Report`, giving up `Skip`, closing `End`. The one hard guard is that of
`Begin`: the worker in hand holds a token and a worker number, and the machines
in flight embed in the other ones (`RoomToBegin`), so there is room under both
limits.

### The batch command

`BatchProofs` proves `ExitCodeTellsTruth` and `InterruptedReportsAll`. Every step of
the command is a step of the pool and its reader, so `IInv` holds of it; `BatchInv`
adds that the counts are positive exactly when there is something to count
(`Counted`), and that as long as nothing is cancelled no worker is on a path that
skips its machine (`OnlyCancelledSkips`), which is why a finished batch hides no
skipped machine. That the results are as many as the machines (`OneResultEach`) is
a bijection: none is missing when the channel is closed, and none is there twice.

### The presence cache

`CacheProofs` proves `OneProbeAtATime` and `OnlySoundResultsSpread`. That a
cached or returned result is sound is not kept by a step alone, because the
context of a probe may be done later: `CacheInv` adds that a call that leads is the
one registered for its key (`Flight`), that a spoilt probe is one whose call has
failed (`SpoiltIsKnown`), and that what is cached, shared or returned is *settled*:
the result of a probe that ended in time and that nothing can spoil any more.

`CacheImplementsContract` is `ImplementsCacheContract`. The contract knows flights,
verdicts and what is kept; where a call is in `Resolve`, and when its channel is
closed, it does not. `ContractInv` adds the order of a call's steps (`Progress`): a call
that still looks is in no flight, and a channel is closed only after the verdict is
stored. A probe's end, its `Set` and its deferred function are `Conclude`, `Keep` and
`Land`; that they find their call registered is `Flight`. What the contract adds to the two
invariants is what a caller may rely on: a forced call is never given what was kept,
leader, followers and cache get one verdict, and a result is kept only while its
probe is in flight, so that no older one replaces a newer one. `OneProbeAtATime` is in
the contract as the guard of `TakeOff`, and is not checked by a run of its own.

### The remote manager

`ManagerProofs` proves `AlwaysOwned` and `NothingOutlivesClose`. `AlwaysOwned` speaks
of what is up; but a session that is closing by itself is still registered or
taken by a call that waits for it, so `ManagerInv` says it of both (`Owned`), that
what is starting is in its own `Open`, that a call has something to close only
where it closes it (`TodoIsHeld`), and that from `Close` on nothing is registered
(`ClosedStays`). When every call has returned these leave nothing for anything to
be owned by.

### The Wake Desk

`DeskProofs` proves `SpinnersAreBacked`, `ReplacedIsCancelled`,
`WakeAndRemoteDoNotOverlap`, `BatchAccounts`, `RetriesSpareTheCompleted` and
`ResultsRetained`, for any number of machines, commands in flight and identifiers. The
desk is a set of conversations, and `DeskInv` says for each what the commands in flight
have to do with what the screen shows:

* `LoadInv`: a load or a check that is shown has its command in flight under the
  current `requestID`, and only the current one may be alive: beginning another cancels
  the one before.
* `ActionInv`: the action of `actionTarget` has a command with its identifier. This
  needs `OneCommandEach`: identifiers are used once, and the command that follows a
  wake takes the place of its packet's, so that the command whose answer ends an action
  is the one that was awaited, and the answer of an older one is not.
* `FormInv`: a form that is being saved, or prepared, has a command in flight.
* `BatchInv`: a running batch has one reader (`OneReader`) and what it has not read
  and what is reported together are its targets (`BatchAccounts`, an invariant of the
  run that is inductive next to the others). `SentIsSettled` is what makes retries spare
  those who are done: a machine said to be sent its packet is among the targets of no
  batch but the running one that reported it, and every result about it says so; a retry
  takes only targets whose last result does not.

A key changes little and an answer much, so the lemmas are one per kind of message and
one per group of keys, over what `Launch` and `Cut` do to the commands in flight.
`ResultsRetained` follows from the fact that only a batch being begun writes `batchResults`
other than at its end.

### The inventory

`InventoryProofs` proves `UndisturbedIsSound`, `ImportKeepsSound`, `ScanCatchesUp` and
`ExportRestores`, over the specification with the scans (`SharedSpec`). A call reads in
one step and writes in another, so soundness is not kept by a write alone:
`InventoryInv` adds what each kind of call *knows* while no write has overtaken it
(`Knows`): a deletion that nothing used what it deletes, a site or machine being saved
that what it refers to is there, a profile that its machine is there and has the
address that was read, an export that its tables are those of the inventory, a scan that
the machines it has still to treat are where it read them, and those it has treated where
it found them. A write sets `disturbed` when another call is under way, so the lemma
`Change` need only show what a writer does to its own knowledge and to the tables, and
`Look` what a reader learns.

An import finds a row by its name or makes a new one. That names are unique on both sides
(`Distinct`) makes `Rows` a choice of one, so that `To` is an injection of the file's ids
(`ToIs`, `OntoIs`); `RowsOfImport` then gives each table of the result, row by row, and
soundness and distinctness follow (`ImportIsSound`, `ImportIsDistinct`). `Accepts` is
needed: a torn export may dangle, and what saves the inventory is that such a file is
refused or loses the reference. Into an empty inventory every id is new, and the tables
are those exported up to names (`ImportRestores`).

### Local sessions

`SessionProofs` proves `LiveSessionsAreUntouched`, `NothingLeftBehind` and
`OrphansAreReaped`, for any sessions, processes, crashes and reuse of process ids. `VictimsAreDead` is the
heart: what a process has decided to remove belongs to a session that is over or
lost, and stays so even when its process id is given away, since sessions have
names of their own. `Accounted` says that what exists in Docker is known to its
session, is still to be removed, was failed by Docker, or its session is lost.
`NetworkIsLast` is the order of removal the code depends on. For `OrphansAreReaped`,
`OrphanInv` adds that what was orphaned when a session began is still of a dead
session and a dead process unless it was taken off the list by a reuse of the process
id, and `Progress`: while Docker has not failed, an orphan that is still there is to be
looked at in this listing or the next.

### Commands

`CommandsProofs` proves one invariant per command and that the steps of one command
leave those of the others alone. `WakeInv`: packets go out by the route of the
machine only, the attempt counts what is on the wire, and what is recorded is the
attempt; hence `WakeIsToldTruly`. `StatusInv`: what was heard in a sweep is in the
channel or on its way there (`HeardIsKept`); hence `VerdictIsEvidence`, which without
it could miss an answer of a port that was cut. `UpdateInv`: the temporary file
is flushed before any rename (`WrittenFirst`), an active update on Windows runs from
a file that still exists (`RunsFrom`), so nobody can remove it, and only one update
can have moved the program aside (`OneMoves`); hence `ProgramSurvives`. `RemoteInv`: the
link gives one browser the cookie (`OneBrowser`) and tokens appear on pages in the
order they were built (`TokensInOrder`); hence `SignInLaunchesOnce`.

`ReleaseInv` follows an update from its decision to the disk: what was decided is later
than the program that runs, or asked for; what is signed is what is downloaded, of one build; what is
written is what was checked; hence `OneReleaseIsInstalled`. That a negative
`CompareVersions` is precedence in SemVer (`OlderIsBefore`) is proved for versions of any
length: a loop that returns at the first difference is a choice of the least index at which
two sequences differ, which exists by the well-foundedness of the naturals, and precedence
at that index is precedence. `SchemaInv`: the rows
that are keyed are unique (`RowsAreKeys`), each machine keeps its newest profile whatever
is copied (`NewestIsKept`), an address is erased before its column is dropped
(`UrlsGoFirst`), and an open inventory is up to date and has what was saved
(`OpenIsCurrent`); hence `UpgradeLosesNothing`. `ShutdownInv`: the flags set so far are
alike (`Same`) to those on the part of the line that has been read, in which there was no
terminator (`ReadSoFar`), and what is sent is built from them (`SentAsBuilt`); a pass of
the parser moves a block of flags and at most one word over (`LeadingIs`), and of
two lists in a row a delay in the second counts (`DelayOfBoth`); hence
`MachineIsToldWhatWasAsked`, in which `DelayIsKept` is the arithmetic of seconds and minutes.

### Only model-checked

The liveness properties (`Completes`, `BatchEnds`, `EveryCallReturns`,
`CallsReturn`, `SpinnersStop`, `SessionsEnd`): liveness, and the ENABLED in fairness, are
out of the prover's reach. Every invariant and every action property of a passing run is
a theorem. The refinements of `FleetContract` and `CacheContract` are proved for their safety. Induction over data
is out of reach too: where a loop of the code had to be reasoned about, its model is
a choice of the first or last index, or the parser's own steps, and the argument is by the
least element of a set of naturals.

## 5. Not modelled

* Rendering, the other flags and printing, doctor and network configuration, the
  Sunshine API (one request per call), the external desktop clients, shell
  command text, archive formats, signature arithmetic, simulator and device
  scans: they keep no state or are pure input/output.
* Fields of rows and forms that nothing else depends on, and their validation;
  `UpdateWakeRelay`, the editing of groups and `ProbeBatch`, which no command calls.
* In the Wake Desk: tabs, filters, help, the presence shown, streams and their
  disconnection, the check of one site, quitting. The evidence shown per machine
  (an old scan written over a fresher wake) would multiply the states of `WakeDesk`,
  and no document says which of the two is to be seen.
* The steps inside `ensureReachable` of the remote manager, which are a wake and
  probes of the modules above, are one step that succeeds or fails.
* The packets on the network and the SSH session of a relay: external, they do or
  do not arrive.

Next: an abstract specification of the remote manager, as `FleetContract` is of the
pool, and a proof that the manager implements it.

## 6. Running

    tlc -config MCFleet.cfg MCFleet.tla
    tlapm FleetProofs.tla

`PROJECT.json` lists every run with its module and configuration. The longest
take a few minutes on two cores, and so do the proofs of `CommandsProofs`, `DeskProofs`
and `InventoryProofs`.
