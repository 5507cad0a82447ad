# Verification of NKN-Monitor

NKN-Monitor measures the network between sites. A PowerShell *client* on each
site runs the measurements a *coordinator* (FastAPI) prescribes and reports
them; the coordinator writes them to VictoriaMetrics and keeps the registered
probes and the history of traceroute paths in SQLite. An administrator works on
the same SQLite file through `/admin`. The repository has no tests.

This directory holds TLA+ modules of the system, the TLC configurations that
check them on small instances, and TLAPS proofs of what matters most. Paths
below are relative to the repository; `main.py`, `sqlite.py`, ... are under
`coordinator/src/`, the client is `client/NknMonitor.ps1`.

## 1. Inventory

| Part | State | Operations | What makes it correct |
|---|---|---|---|
| Registration, authentication (`main.py` 209-261) | table `probes` | register, look up a token, touch | a removed token opens nothing; a row never comes back |
| Heartbeat (`main.py` 310-378) | `probes`, VictoriaMetrics | update the row, write metrics | an answered contact is recorded and protects from a sweep |
| Results (`main.py` 466-515, `vm.py`) | VictoriaMetrics, `traceroute_paths` | accept, write, save paths, touch | an answered batch is stored, a refused one leaves no trace in the path history, retries do no harm |
| Path storage (`sqlite.py` 212-300) | `traceroute_paths` | replace by key, keep the newest 50 per (client, measurement) | the rows are the newest ones, whatever the order of arrival |
| Probe administration (`admin.py` 228-251) | both tables | delete, sweep, set role | nothing is left of what is removed, nothing fresh is removed |
| Specification and peers (`main.py` 264-307, `peers.py`, `classification.py`) | reads `probes` | spec with peers | a peer is another, reachable site; anchors are always among them |
| Configuration (`config.py`, `admin.py` 66-205) | YAML file, `app.state.config` of each worker | validate, write, swap | file and memory agree; only a checked configuration that was written comes into force |
| Graph endpoints (`admin.py` 254-515) | reads `probes`, VictoriaMetrics | nodes, edges, traceroute graph | every edge has its nodes, and no measured pair is missing |
| Client distribution (`client_distribution.py`, `main.py` 381-463) | hash and version cached at start | version, download | the client installs nothing that was not announced |
| Client loop (ps1 817-964) | timers, specification, identity | register, fetch, heartbeat, measure, report | it recovers from a 401, and keeps its identity otherwise |
| Client buffer (ps1 600-703) | `buffer.jsonl` | append, flush | a result is kept until stored or expired |
| Client identity (ps1 212-249) | `config.json` | read, save | the saved identity is the one in use |
| Self-update (ps1 150-191) | script, `.new`, `.old` | download, verify, swap, exit | a verified script is always there to start |
| Admin page (`admin.py`, script part) | probes table as shown, form cards | refresh, commands, edit, save | the page comes to show the table; a click changes what it was meant for |
| Mock client (`mock_probe.py`) | identity, targets, ages | register, heartbeat, fetch, report | it goes on reporting after any failure |

How they interact: client and coordinator by HTTP requests that can fail, or
succeed with the answer lost; the handlers with each other and with the
administrator through the SQLite file, one transaction per storage method; the
results handler and the heartbeat with VictoriaMetrics by an awaited HTTP write
with a time-out; the client with its earlier life through two files.

What is hard:

- *Concurrency.* Authentication is a `def` dependency and the admin handlers are
  `def`: they run in the thread pool, between any two steps of a request. The
  probe handlers are `async def`: they hold the event loop of their worker until
  they await VictoriaMetrics. With `docker-compose.prod.yml` the Dockerfile's four
  worker processes share the database, with `config.yaml` mounted read-only (line 12); the
  single-container image runs one worker and its file can be written.
- *Failure.* A worker dies between two transactions, SQLite fails (locked for more
  than the connection's time-out), VictoriaMetrics fails with or without having
  stored the lines, or stores them after the request that sent them has ended, the client is killed while it writes a file.
- *Ordering.* Clocks are read before locks are taken; batches arrive late, twice
  and out of order from the client's buffer.

`PROJECT.json` lists the components with what is and is not modelled, and every
hazard at its line.

## 2. Modules

| Module | Models | Variables and the code they stand for |
|---|---|---|
| `Coordinator` | request handlers, both tables, VictoriaMetrics, delete and sweep | `probes`, `paths` (tables), `vm` (points stored), `wire` (points sent and not stored), `req` (one record per request in progress: step, operation, id, batch, points still to save, clock reading), `sweep` (a cutoff waiting for the lock), `now`; `saved` is history: paths saved since the client was last deleted |
| `PathHistory` | what readers of the path history are promised, without requests, trims or failures | `shown`; `Coordinator` implements it with `shown <- paths` |
| `ProbeClient` | the client's registration, loop and buffer | `rows`, `issued`, `stored` (what the coordinator keeps), `config`, `lines`, `tail` (the files), `pc`, `id`, `plain` (the token could be decrypted), `batch`, `rest`, `known`, `due` (script variables), `now`, `born`; `acked`, `refused`, `crashes` are history |
| `PeerAssignment` | `assign_peers`, classification, the handlers that write what they read, the specification a client caches | `rows` (`list_probes`), `count` (the configured number), `day`, `luck` (outcomes of the seeded shuffle), `home` (where a probe really is), `spec` |
| `ConfigStore` | the YAML file, the copies of the workers, saves from several tabs | `file`, `mem` (`app.state.config`), `draft`, `put` (a save between truncation and answer); `dirty`, `killed`, `acked` are history |
| `ConfigForm` | the measurement cards of the form | `cards` (the DOM), `stored`; `untouched`, `chosen` are history |
| `PeerGraph` | `/peer-graph/nodes` and `/peer-graph/edges` of one panel refresh | `table`, `site`, `nkn`, `hb` (columns of `probes`), `series` (VictoriaMetrics), `now`, `nodes`, `edges` (the two requests); `calm` is history |
| `TraceGraph` | `_build_traceroute_graph` and its second pass for host names | `live`, `newest` (tables), `req`, `changes`; `seen` is history |
| `SelfUpdate` | the coordinator's copy of the script and `Update-Self` | `copy`, `info` (`ClientInfo` of each worker), `script` (the three files), `running`, `step`, `offer`, `sent`; `announced` is history |
| `AdminPage` | `refreshProbes` and the commands of the probes table | `table`, `page`, `fetch` (calls under way), `cmd` |
| `MockProbe` | `run_probe` of the mock client | `rows`, `reported`, `pc`, `id`, `targets`, `hbAge`, `specAge`, `removed` |
| `Filter` | `At(s, I)`: a sequence without the elements that a loop, a comprehension or a WHERE clause leaves out; used by the flush, the peers and the deletes | |
| `Endpoints` | `ConfigStore`, `ConfigForm`, `PeerGraph`, `TraceGraph` and `PeerAssignment` side by side | theirs, and `part` |
| `Callers` | `SelfUpdate`, `AdminPage` and `MockProbe` side by side | theirs, and `part` |
| `CoordinatorProofs`, `ProbeClientProofs`, `PeerAssignmentProofs`, `PeerGraphProofs`, `TraceGraphProofs`, `EndpointsProofs`, `CallersProofs` | theorems about the module in the name; the last two also about the parts that have no such module (`ConfigStore`, `ConfigForm`; `SelfUpdate`, `AdminPage`, `MockProbe`) | |
| `SequenceProofs` | lemmas about sequences and `Filter` that they share | |
| `MCCoordinator`, `MCProbeClient`, `MCPeerAssignment`, `MCEndpoints`, `MCCallers` | small instances for TLC | |

The parts of `Endpoints` and of `Callers` share no state in their models (what one reads of another,
as the graphs read the probes table, is a variable of its own with the writers as actions), so
interleaving them would multiply states without adding behaviour of any part: `part` says which one
moves, the others rest. `Endpoints` instantiates the modules with the theorems of its parts, so that
`EndpointsProofs` can cite them.

### Coordinator

A request goes through the steps at which other code can run: `Authenticate`
(look-up, then touch: two transactions, so the clock reading is carried in the
slot), the handler body up to its first transaction or await, `VmAck`/`VmFails`,
one `SavePath` per path, the final `ResultsCommit`. A guard `LoopFree` keeps two
handlers of one worker from running in between each other; the resumption after the
await (`VmAck`, `VmFails`, `HeartbeatAnswer`) needs it like any step of a handler. The
steps of the thread pool (authentication, the administrator) and `VmStore` do not. `StorageFails` ends the request with 500 at
any transaction; `Crash(w)` empties the slots of a worker and keeps the stores.
The lines of a batch are on the `wire` from the moment the handler posts them.
`VmStore` stores them one by one at any later time, also after the request has ended
with the 10 s time-out (502) or its worker has died, or never. `VmAck` needs all of them
stored; `VmFails` may happen at any time before.

`DeleteProbe` is one transaction over both tables; a sweep is two steps,
`SweepBegin` (the cutoff) and `Sweep` (the lock and the deletes). A row that is
missing remembers why (`Missing`), so that properties can speak of removed probes.

Abstractions: an id and its token are one value (uuid4 and a 256-bit token, never
issued twice); a batch is a set of results, as the primary key makes the saves of
one batch independent; timestamps are numbers (the client sends one fixed format
whose text order is the time order); the columns no property reads are left out;
the points a heartbeat writes are left out, as a failure of that write is only
logged.

### ProbeClient

`pc` is the place in the script. Every HTTP call has the outcomes: done and
answered, 401, failed without effect, done with the answer lost. `Kill` may happen
anywhere; during an append it leaves any number of whole lines and possibly a cut
line (`tail = "cut"`) or a whole one without its newline (`"open"`), which the next
append runs into; during the save of `config.json` it leaves the old, the new or an
unreadable file. Disk errors are counted with the kills in `crashes`. `due` holds what
the timers force: at start and after a 401 every timer is reset and nothing may be
skipped; otherwise skipping is free, which covers every interval the server may set.

Results are numbers in the order of measuring, up to `MaxResults`; later rounds
report nothing of interest, so the loop goes on for the liveness properties. A token
that cannot be decrypted (`Unprotect-Token`) is an empty one: `Start` may find `plain` false,
and a request may then be answered 401 although the probe is registered (each request
decrypts anew, so it need not be). Not represented: `-Once`, a changed coordinator URL, tokens stored in plain text by an
older version, two clients on
the same files, a specification without measurements, and how `Move-Item -Force`
replaces a file (taken to be atomic, as the comment at ps1 688-689 says). Update-Self
is only the exit it ends in (`HeartbeatUpdates`).

The definitions named `..._Bug` are faulty variants: a dropped guard, a skipped save, a
wrong trim. No action uses them. Substituted for the definition below them they break
the property that `PROJECT.json` pairs with them.

### The other modules

*PeerAssignment.* An address is its /24; `Garbled` is one that `ip_network` refuses. The seeded
`random.shuffle` is a permutation drawn once for each probe, day and length, since the seed is
`id-date` and the algorithm looks at nothing but the length. A heartbeat overwrites the class
and, by `COALESCE`, keeps addresses when it has none; an address that is no address for
`ip_network` counts as one there. The configured number (`count`) is any integer, as nothing
checks it, and changes with a save of the configuration; `Prefix` is the slice of Python, which
with a negative number leaves elements out at the end.

*ConfigStore.* A configuration is the set of its entries. `write_text` truncates and then writes
(two steps); it can be cut by an error or a kill anywhere. `put_config` does not await in
between, so one worker runs one save at a time, and several workers do not exclude each other.

*ConfigForm.* A card has a name and is complete or not; a stored measurement may carry settings
the form has no field for. All operations go through `collectMeasurements`, which drops
incomplete cards. A save may be refused, and then changes nothing.

*PeerGraph.* The two requests have a filter each (`ActiveNodes`, `ActiveEnds`). Reading the clock
and reading the table are one step of a request: table and clock change between the two requests
too, and the checked property speaks of refreshes in which neither does. A series names its target
by site.

*TraceGraph.* A filter lists labels: site names, and the first digits of the ids of probes without a row.
Pairs are read in any order; the order in the code, by site name, decides only
which of several names of one hop is shown.

*SelfUpdate.* A script is the version in its header and the version in its code, and stands for
its bytes, so comparing records is comparing hashes. The two versions may differ. Nothing has to
start the script again: after an update it ends with exit 0 (ps1 186).

*AdminPage.* Of a probe the page shows that it exists and its role. A select shows the role
just chosen before the server has stored it, and returns to the old one when it is refused.

*MockProbe.* Ages of heartbeat and specification are counted in rounds.

## 3. Runs

| Run | Instance | Shows |
|---|---|---|
| `coordinator_sweep` | one worker, 2 slots, 1 id, clock 0..3, window 1 (223,756 states) | an answered contact stays recorded (`AckedContactIsRecorded`) and a sweep spares whoever was answered within the window (`SweepSparesAnswered`), although both read the clock before they get the lock; every request ends, the ones that wait for the event loop while the other one holds it among them (`RequestsEnd`) |
| `coordinator_paths` | two workers, 2 slots, overlapping batches of two measurements, retention 2 (96,642 states) | paths in SQLite are backed by VictoriaMetrics, are the newest ones saved, an answered batch is stored, a removed probe stays removed and silent; the table implements `PathHistory` (`KeepsHistory`) |
| `client_buffer` | 4 results in rounds of up to 2, flushes of 2, clock 0..2, retention 1, 1 crash (7.6 million states) | nothing leaves the buffer unsent and unexpired, a crash costs at most a round and one line, what was answered is not sent again, a new identity is requested only when needed, the saved identity is the one in use |
| `client_live` | 2 results, 1 crash, read errors allowed (26,922 states) | the buffer drains and an invalid token is replaced |
| `endpoints` | see below (239,974 states) | saves of the configuration are whole, valid and in force; the graphs agree with the tables they were read from; removing a card costs at most one card and none before it; a peer that was handed out keeps an address |
| `callers` | see below (38,649 states) | only announced scripts are installed, the last script is never removed, updates end; the probes table of the page catches up; the mock goes on reporting |
| `peers_select` | 3 probes in 2 networks, every outcome of the shuffle, 2 days, 1 peer configured or -1 (105,856 states) | the assignment has all eligible anchors and as many others as fit (`AssignmentIsFull`), and changes only with the day, the configured number or the eligible probes (`OnlyDaysRotate`) |
| `orphan_after_delete` | one worker, 2 slots, a batch with one path | **violated**: a results request in flight saves paths after `delete_probe` removed them with their probe |
| `client_unattended` | no crash, nobody restarts the script | **violated**: one failed attempt to register again leaves the client without a token for good |
| `client_offline` | no crash, the coordinator stays away | **violated**: expired results stay in the buffer |
| `client_unreadable_buffer` | one failed read of the file | **violated**: the buffer is taken for empty and removed |
| `panel_ends` | two probes of two sites, clock 0..1, window 1 | **violated**: an edge of the panel ends at a probe that is no node |

Why the bounds are enough.

- `coordinator_*`: two slots are the smallest number at which a handler meets another handler
  of the same probe, and the administrator is a third actor; a slot is reused, so retries and
  any number of requests in sequence are there. Ids do not interact in any handler (every
  statement names one id; a sweep treats each row alone), so one id is enough for the runs, and
  the theorems cover any number. With retention 2 and paths of three timestamps in two batches
  the trim removes a row, the newest is stored before older ones, and a batch can be repeated
  after it was trimmed. Authentication and the resumption after the
  await meet a held event loop in `coordinator_sweep`, whose two slots share a worker; in
  `coordinator_paths` each slot has its own. The clock to 3 with a window of 1 lets a sweep hold a
  cutoff while a contact passes the window.
- `client_buffer`: four results against flushes of two let a flush stop between batches, and
  keep the bound of `LossNeedsCrash` (3 for one crash) below what could be lost. Guards on
  fresh ids in `RegisterFails`, `Kill` and `DeleteProbe` keep one id for the next
  registration, so the bound never blocks it.
- `endpoints`: two tabs save against each other, with two faults, so a fault can hit the save
  that repairs the first. One worker: with two, a save reaches the memory of one only (section
  7). Three probes on two sites give two probes of one site name and a third that
  measures them. The constraint `Explored` keeps at most one series, as an edge depends on its own
  series only, and leaves out refreshes during which something changed, as the property of the
  panel speaks of calm ones (the others are the subject of `panel_ends`); every state in which a
  refresh begins is reached without them. The paths of the traceroute graph are one with a loop, one without names and one that
  names a shared hop differently, from two probes, with two changes during a request. Three cards and room
  for a fourth put a card before and behind the removed one, each complete or not.
- `callers`: two workers that announce different copies, two deploys (an update during an
  update), two faults (a failure in the retry after a failure). The scripts are two releases, one file
  without a header and one whose header is not the version in its code. On the page two overlapping
  fetches are the smallest number that can answer in the wrong order, with three changes. Three ids
  and two failures for the mock let a lost registration be followed by another.
- `peers_select`: one probe's assignment is looked at. Its own class and role do not enter it, so the
  constraint `Explored` leaves out what follows once they were changed. The number -1 makes the
  difference in `Remaining` negative, which one anchor more than places would do as well.

`CHECK_DEADLOCK` is off in `endpoints`, `callers` and `peers_select`, where a part comes to rest: its ids
are used up (a registered id is never issued again), the deploys or the changes are counted
out and nothing is left to do. It is on in the others: a worker can always be crashed again, the script
always has a next step or can be started.

## 4. Fairness

- `Coordinator!FairSpec`: strong fairness of each slot's handler steps. The event loop
  serves its ready tasks in turn, and the storage lock is held for one transaction; a
  handler that is enabled again and again, whenever the other one has released the loop,
  gets its turn. `VmAck` is not in it: nothing guarantees that VictoriaMetrics answers.
  `VmFails` is, because the HTTP client has a 10 s time-out. No fairness for arrivals,
  the administrator, crashes or the clock.
- `ProbeClient!FairSpec`: a running script continues (weak fairness), and of what can go
  either way repeatedly the good outcome happens repeatedly (strong fairness): the
  coordinator is reachable often enough, measurements fall due. `WF(Start)` is somebody
  or a scheduled task starting a script that ended; the code cannot guarantee that. The
  strong fairness of `FlushAcked` also says that no batch is refused for good: a batch the
  coordinator can never store (answered 422 or 502 each time) would stay first in the
  buffer until it expires, and what is behind it waits.
- `UnattendedSpec` drops it: the script is started once. `OfflineSpec` keeps it and drops
  what the coordinator contributes.
- `SelfUpdate!Fairness`: the script runs to the end of what it began, a worker is restarted some time
  after its copy was replaced, and heartbeats reach every worker again and again. Nothing is
  assumed of the start of the script: it ends with exit 0, after which a task that restarts on failure
  does nothing (docs/unraid-deployment.md:154-155), so `UpdatesEnd` speaks of the client whenever it
  runs. Failures and kills are not fair, and bounded.
- `AdminPage!LiveSpec`: the timers of the page run, an answer is rendered, and the server answers
  again and again. No fairness for the user, for commands and for others.
- `MockProbe!LiveSpec`: the task runs; registration, heartbeat, report and a specification with targets
  succeed again and again.

## 5. Proofs

Every theorem holds for all values of the constants under the assumptions each module declares about
them, and under `SingleLoop` (all slots on one worker), `OneWorker` or `~ReadErrors` where it is named.
What `ConfigForm`, `PeerGraph`, `TraceGraph`, `AdminPage` and `MockProbe` assume of their constants is a
definition there, assumed by the module that instantiates them (`Endpoints`, `Callers`) and a
hypothesis of the theorems about the part alone.

`CoordinatorProofs`:

| Theorem | Property | Argument |
|---|---|---|
| `TypeCorrect` | `TypeOK` | `TypeInv` adds that a slot being served has an id, without which row updates would leave `Ids` |
| `BackedByVM` | `PathsBackedByVM` | `BackedInv` adds that the paths a request still has to save are in VictoriaMetrics already (`SavesAreBacked`): the save loop is entered only after the write was acknowledged |
| `RemovalIsFinal` | `GoneForGood` | `LifeInv` adds that a registration in flight holds an id no row was ever issued with; every other write is an UPDATE (`TouchKeepsState`) |
| `RemovedIsSilent` | `SilentOnceDrained` | the same invariant with `TodoIsOwn`: a slot saves and sends only under its own id, and a removed id is authenticated by no slot. What VictoriaMetrics stores of it afterwards was on the wire before (`StoredWasSent`) |
| `AnsweredIsRecorded` | `AckedContactIsRecorded` | `ClockInv`: with one event loop at most one slot holds a clock reading it has yet to write (`OneHolder`), and no row is newer than the clock |
| `SweepIsSafe` | `SweepSparesAnswered` | from the previous theorem and that a waiting cutoff is not in the future |

With several workers `AnsweredIsRecorded` and `SweepIsSafe` do not hold: a reading taken
earlier can be written later by another process and set a row back. TLC finds it when
`LoopFree` is replaced by its faulty variant.

The same module, about `traceroute_paths`:

| Theorem | Property | Argument |
|---|---|---|
| `NewestAreKept` | `KeepsNewest` | a save trims the rows that earlier trims left. `NewestSuffices`: a path with Retention newer ones has Retention newer ones among the newest (take, of the newer ones that were lost, one with a minimal set above it: none of that set is lost). Hence `TrimKeepsNewest`: trimming what was left gives the newest of all. `NewestInv` adds that only finitely many were saved |
| `ImplementsHistory` | `KeepsHistory` | the refinement of `PathHistory`: what a trim takes has Retention newer paths in the new table, by `NewestSuffices` again |
| `AnsweredIsStored` | `AckedResultsAreStored` | `BatchInv` follows a batch through its request: points stored once it left VictoriaMetrics, each path saved or still to save, unless its probe was removed, which is for good (`LifeInv`) |

`ProbeClientProofs`:

| Theorem | Property | Argument |
|---|---|---|
| `ClientTypeCorrect` | `TypeOK` | inductive as it stands; an append or a flush at any point leaves sequences of results |
| `IdentityOutlivesKills`, `RegistersWhenNeeded` | `IdentityIsSaved`, `RegistersOnlyWhenNeeded` | `IdentityInv` adds that a process which is about to register has no id on file, one that was deleted, or a token it could not decrypt; a deleted row does not come back, so this outlasts the request |
| `BufferedIsKept` | `BufferKept` | with `~ReadErrors`. `FlushInv`: while a flush runs, each line of the file is still to be sent, stored or expired. So both the rewrite and the removal of the file at the end are harmless, and a kill or an error before them leaves the old file |
| `OnlyCrashesLose` | `LossNeedsCrash` | with `~ReadErrors`. The bound is not inductive: a torn line costs nothing when it is torn, and one or two results at the next append. `LossInv` counts this debt (`Owed`) with the losses; `BatchInv` says where the results of a round are meanwhile |
| `AnsweredStaysOut` | `AnsweredIsNotResent` | `CleanInv`: until something was killed no result is twice in the file and none is in the file and in a round at once; during a flush the answered ones have left `rest`, which replaces the file |

`~ReadErrors` leaves out one fault, a read of the file that fails and is not noticed. With it both
theorems are false: it is the fourth finding, and the run `client_unreadable_buffer` shows it.

`PeerAssignmentProofs`:

| Theorem | Property | Argument |
|---|---|---|
| `PeersTypeCorrect` | `TypeOK`, part of `TypesOK` | with `LuckOK` (an outcome of the shuffle is a permutation) and `HomeOK`; a table read newest first keeps one row for each id |
| `AssignmentsAreFull` | `AssignmentIsFull` | the anchors and a prefix of the shuffled candidates are two disjoint sets of rows, no row twice in either (`AssignedFacts`), so the lengths are the numbers of peers. The cut at 0 of the difference is needed: with more anchors than places, or a negative configured number, it is negative |
| `PeersHaveAnAddress` | `PeersKeepAnAddress` | `AddressInv` says the same of the rows; a row is eligible only with an address, a heartbeat without one keeps the stored one, and a new row has an id nobody was given |
| `PeersRotateByDay` | `OnlyDaysRotate` | `OrderKept`: no step changes the order of the rows that stay. Two filtered tables with the same rows in the same order are the same sequence (`AtUnique`), and the shuffle depends only on its length, the probe and the day |

`TraceGraphProofs`:

| Theorem | Property | Argument |
|---|---|---|
| `TraceTypeCorrect` | `TypeOK` | `TypeInv` says it of the request as one record |
| `EdgesAreNewest`, `NamesAreReported` | `EdgesWereNewest`, `NamesWereReported` | `ServingInv`: what is newest while a request is served has been noted in `seen`, and pairs still to be read are of probes in the graph |
| `CalmGraphsAreExact` | `CalmGraphIsExact` | `CalmInv`: at each moment the graph is that of the pairs already read, and the second pass reads them all again |

`PeerGraphProofs`:

| Theorem | Property | Argument |
|---|---|---|
| `PanelTypeCorrect` | `TypeOK` | part of `PanelInv` |
| `CalmPanelsAreComplete` | `CalmPanelIsComplete` | `PanelInv`: as long as nothing changed, the nodes and what the second request read are the active probes, by either filter (`CalmInv`); a registered probe has a site name and no series leads from a probe to itself (`TableInv`). A site name that one active probe bears names that one (`Named`) |

`EndpointsProofs`, first about the parts `ConfigStore` and `ConfigForm`:

| Theorem | Property | Argument |
|---|---|---|
| `OnlySavedIsServed` | `ServedWasSaved` | `OnePut`: a worker runs one save at a time, so its type invariant (a save has a live worker) is inductive; only `Write` changes the configuration of a worker that stays up |
| `SavedStays`, `ReloadIsHot`, `ValidIsServed` | `SavedIsOnDisk`, `HotReloaded`, `ServedIsValid` | with one worker: while a save is open the file is empty and its body valid, otherwise file and memory are those of the last answered save unless something went wrong since (`FileInv`) |
| `RemovalsTakeNoneBefore` (a lemma) | `ConfigForm!RemoveTakesNoneBefore` | `FormInv`: no name twice among the cards. Collecting moves a card towards the front, never back (`PlaceNotBefore`), so the index of the button meets the chosen card, one behind it or none; no incomplete card before it leaves it in its place (`PlaceUnmoved`) |

then about the composition. `PartsBehave`: a behaviour of `EndpointsSpec` is one of each part's
specification, as the others stutter. With it every theorem about a part is one about the composition:

| Theorem | Property | From |
|---|---|---|
| `EndpointsTypesCorrect` | `TypesOK` | the type theorems of the five parts |
| `PanelsAreComplete` | `CalmPanelIsComplete` | `PeerGraphProofs` |
| `GraphEdgesAreNewest`, `GraphNamesAreReported`, `GraphsAreExact` | `EdgesWereNewest`, `NamesWereReported`, `CalmGraphIsExact` | `TraceGraphProofs` |
| `FormRemovalsTakeNoneBefore` | `RemoveTakesNoneBefore` | `RemovalsTakeNoneBefore` |
| `PeersKeepAddresses` | `PeersKeepAnAddress` | `PeerAssignmentProofs` |

`CallersProofs`:

| Theorem | Property | Argument |
|---|---|---|
| `InstalledWasAnnounced` | `OnlyAnnouncedInstalled` | `SafeInv`: what is offered was announced, and from the check of the hash to the last move the new file is the one offered |
| `ScriptIsLeft` | `SomeScriptIsLeft` | the same invariant: a step that removes the backup is reached only while a script stands in its place, and a script leaves its place only as the backup |
| `CallersTypesCorrect` | `TypesOK` | `RunInv` adds to `SafeInv` that an update under way has a running script and an offer; the types of the page and of the mock are inductive as they stand (`PageNext`, `MockNext`), the mock's because nobody has reported while it registers |

`PartsBehave` there is the same lemma for `CallersSpec`.

TLC checked each of these invariants as an invariant of a small instance before it was proved
(`FormInv` as `ConfigForm!TypeOK`, to which `FormTypeNow` proves it equal).

`SelectSeq` is recursive, so the provers know nothing of what it returns. Where a proof has to follow a
filtered sequence the modules use `At` of `Filter`, which names the places that stay; `FilterIsSelect`
(in `MCProbeClient`) has TLC compare the two on all short sequences. That
`At` lists those elements once each and in order is proved (`AtFacts`, `AtRange`, `AtInjective`,
`AtUnique`).

Only model-checked:

- liveness under fairness, out of the prover's reach: `RequestsEnd`, `BufferDrains`, `ReRegisters`,
  `UpdatesEnd`, `PageCatchesUp`, `KeepsReporting`. Every invariant and every action property of a
  passing run is proved;
- that `At` is `SelectSeq` (`FilterIsSelect`), which needs induction over the sequence.

## 6. Findings

1. `delete_probe` promises to remove the probe's traceroute paths; a results request in
   flight stores new ones afterwards, under an id nothing refers to any more.
2. The client re-registers after a 401 only if the first attempt succeeds; otherwise the
   script ends.
3. The 7 days' storage time of the client's buffer is not enforced while the client is
   offline.
4. A buffer that cannot be read for a moment is deleted.
5. The edges of the peer graph may end at probes that are not among its nodes, although the
   docstring says they must not: each endpoint applies the criteria to the table and the clock of its
   own request.

`PROJECT.json` quotes the lines each of them contradicts.

## 7. Further statements that do not hold

Modules state these at their end, and TLC refutes each of them when it is checked as a property of
the module with a small instance. No run repeats it.

| Statement | What a document says, and what happens |
|---|---|
| `HotReloaded` with two workers | README.md:20, 88 promise hot reload at save. `put_config` replaces `app.state.config` of the process that served the request only (`admin.py` 134, 193); the others keep the old one. Needs several workers and a file that can be written: `docker-compose.prod.yml` 14 starts four but mounts the file read-only (12), so a save fails at the write there |
| `ConfigStore!BrokenNeedsKill` | `admin.py` 188-189: the file is never corrupt unless the process dies in `write_text`. A failed write (no space) leaves a truncated file behind a living process |
| `ConfigStore!SpecIsServed` | the docstring at `admin.py` 89 speaks of validation. `interval_seconds` is not looked at, and `int()` in `main.py` 529 fails at every specification request |
| `ConfigForm!RemoveTakesTheChosen` | the button on a card removes that card. The index counts all cards and is applied to the collected list, without the incomplete ones (`admin.py` 1395-1397): behind an incomplete card the next measurement goes |
| `ConfigForm!NewTypeKeepsCards` | `admin.py` 1403: the card is rendered anew with the fields of its type. All incomplete cards disappear, a card just added among them |
| `ConfigForm!SaveRoundTrips` | SPECIFICATION.md:236-245 shows measurements with `category` and `label`. Saving an untouched form drops them (`admin.py` 1410-1431) |
| `PeerGraph!EdgeEndsAtMeasured` | SPECIFICATION.md:505: which probes measure which. With two probes of one site name the edge may end at the one that was not measured (`admin.py` 324-325) |
| `SelfUpdate!UpdatesEnd` without its exception for header and code that differ | README.md:145: a release raises both. The offer compares the header (`main.py` 356), the client its own constant (ps1 905): if only the header is raised, every client replaces itself at every heartbeat for ever |
| `SelfUpdate!SentMatchesHash` | `main.py` 402-405: the bytes match the announced hash. The hash is read at start, the bytes at each request; clients throw the download away until the workers are restarted |
| `SelfUpdate!StaysStartable` | docs/unraid-deployment.md:152-153: the script is replaced on disk, the original kept for a rollback. Between the two moves (ps1 180-181) none stands at the path, and nothing moves `.old` back |
| `PeerAssignment!AnchorsAlwaysIncluded` | `peers.py` 35-36, SPECIFICATION.md:400: anchors always. The filters stand before the role is looked at (`peers.py` 47-58) |
| `PeerAssignment!PeersAreElsewhere` | SPECIFICATION.md:399: no peers in one's own /24. The first specification is fetched before the first heartbeat (ps1 857-880, 894), when the coordinator has no address to compare |
| `PeerAssignment!OnlyNknProbesHavePeers` | SPECIFICATION.md:395: for every client on NKN. The class of the asker is not looked at (`peers.py` 50) |
| `ProbeClient!KeepsItsProbe` | One may expect that a client keeps the probe its config.json names as long as the coordinator knows it. A token that cannot be decrypted for a moment is sent empty (ps1 144-146), answered 401 (`main.py` 213-219) and replaced by a registration under a new id |
| `MockProbe!ComesBack` | SPECIFICATION.md:768: the same contract as the real client, which registers again after a 401. The mock logs failures for ever |

## 8. Not modelled

- The measurements of the client (ping, TCP, DNS, HTTP, traceroute) and the simulated values of the
  mock: calls of the operating system and random numbers. Grafana dashboards, HTML and layout: data.
- The drop-down with the details of a traceroute (`admin.py` 1520-1536). It looks for an open
  detail before it awaits the history and inserts after it, so two quick clicks open two details; a
  model of it alone says no more than that.
- Timestamps as text: the retention compares strings (`sqlite.py` 240), and formats that `_valid_iso`
  accepts besides the one the client writes sort differently from the instants they name.
- `Move-Item -Force` over an existing file: taken to be atomic, as the comment at ps1 688-689 says;
  how PowerShell does it is outside the repository.
- Who starts the client. docs/unraid-deployment.md:154-155 says that a task with "restart on failure"
  starts it after an update; it ends with exit 0 (ps1 186), which is no failure. The models let it be
  started or not.
- The encryption of the token (DPAPI) beyond that decrypting it may fail, and the migration of tokens
  in plain text; `-Once`, a changed coordinator URL, the prompts of the client; the download with
  the coordinator's address baked in (text substitution without state).
- Features that SPECIFICATION.md plans and the code does not have.

- A sweep removes probes and leaves their traceroute paths (`sqlite.py` 312-334), which
  `Coordinator` has; no document says otherwise (docs/gdpr.md:29 gives paths a retention of their
  own), so no property is stated about it.

## 9. Plan

`System`: `ProbeClient` and `Coordinator` composed, at-least-once delivery from measurement to
VictoriaMetrics across 401s, retries and deletes. Each module has the other one's part as an
environment today: `ProbeClient` keeps `rows` and `stored`, `Coordinator` lets any batch arrive. What
is to be proved about it: `ProbeClient` is implemented by the composition, with `rows` and `stored` read
from the coordinator's tables, so that its theorems hold of the two programs together.
