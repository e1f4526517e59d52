# Telemetry platform testbed: a TLA+ verification project

This directory holds TLA+ models of the telemetry platform, the TLC runs that
check them on small instances, and proofs of the most important properties for
every instance. The models are translated from the source; `PROJECT.json` says
which lines each definition stands for. (The repository root is called `src/`
here, so the C sources are under `src/src/`.)

To check: `tlc -config <run>.cfg <module>.tla` for a run (`PROJECT.json` names the
module of each), `tlapm <module>.tla` for the proofs in a module `...Proofs`.

## 1. Inventory of the system

    robot_sim --MQTT--> telemetry_gateway --(SQLite)--> database file
                              |                              |
                              +--WebSocket--> browser UI <---+ history
    run_*_auto.sh starts, stops and kills all of these; analyze_*.py reads the UI's CSV logs

| component | state | operations | who it talks to | what is hard | what makes it correct |
|---|---|---|---|---|---|
| gateway (`telemetry_gateway.c`, `mqtt_client.c`, `telemetry_gateway_main.c`) | the queue under `q_mu`, the batch, `running`, threads, open resources, statistics | start, stop, `on_message`, `queue_push`, `queue_pop_batch`, the writer's transaction and broadcast | mosquitto's network thread calls it; it calls SQLite and the WebSocket server | three threads, failed transactions, a stop that races them all, kill and restart | samples in order and never twice, batches stored whole, memory owned, stop ends |
| WebSocket server (`ws_server.c`) | the list of client records under `mu`, each record's `alive` and `fd`, the impairment state | accept, handshake, client loop, broadcast with cut / drop / delay, stop | called by the writer; one detached thread per client; reads the database for history | records used by a thread and freed by another, sockets written by two threads, the cut against the delay | list and memory agree, a message reaches all who should get it and nobody else, threads end |
| storage (`db_sqlite.c`) | schema version and columns, the open transaction, rows | open and migrate, begin, insert, commit, history query | the writer and the client threads | migration that crashes half way, statements that end the transaction, LIMIT and order | transactions all or nothing, the newest N rows in ascending order |
| browser UI (`app.js`) | the socket, reconnect timer, pending recovery, pause, the log of samples | connect, disconnect, timer, open, close, telemetry, history, pause, clear | the WebSocket server | events of an old socket after a new one, timers against buttons, replay among live data | one socket, one request per reconnection, no hole that the replay should fill, never stuck |
| robot simulator (`robot_main.c`, sensors, `telemetry_cache.c`, `telemetry_state_pub.c`) | the cache under its lock, a sequence number | sensor threads set their part, the publisher takes a snapshot | MQTT at QoS 0 | sensors that end silently, a sequence number that every sensor advances | a snapshot is consistent, its number grows |
| runners (`run_*_auto.sh`, `playwright_export_ui_log.py`) | the processes of a run | start, wait, terminate, validate | all processes, by signals and files | TERM, then KILL after 6 s | a run is validated by what its log contains |
| analysis (`analyze_rate_sweep_with_baseline.py`, `analyze_ui_logs_with_latex.py`) | none | nominal step, missing ranges, disconnect pair, recovery time | reads CSV | boundaries of intervals, step inference | agreement with a reference definition |
| `state_dump.c`, protobuf code | none | print, encode, decode | MQTT | none | not modelled: output and generated code |

## 2. Modules

| module | models | status |
|---|---|---|
| `SampleStore` | what the gateway promises: pending samples are settled in order, each batch whole, into a log that only grows | written |
| `Gateway` | the gateway process, its threads, SQLite transactions, crash and restart | checked, safety proved |
| `GatewayProofs` | types, resources and threads, the writer's sleep, memory | proved |
| `GatewayOrderProofs` | the order of samples on their way through the gateway | proved |
| `GatewayStoreProofs` | batches settled as a whole, what is left of that when SQLite rolls back, and the refinement of `SampleStore` | proved |
| `WsServer` | the WebSocket server, its threads and their memory | checked, safety proved |
| `WsServerProofs` | who owns a record, how far a broadcast has come, lost messages | proved |
| `Ui` | the browser page with its sockets and timers, and a server without faults | checked, all proved |
| `UiProofs` | one socket, the requests, the replay that leaves no hole | proved |
| `DbSqlite` | opening and migrating the database file, and the history query of several client threads | checked, safety proved |
| `DbSqliteProofs` | the migration, the rows of a reply and the snapshots they come from | proved |
| `RobotSim` | the simulator's threads, their cache, the publisher and QoS 0 | checked, safety proved |
| `StateFeed` | what the simulator promises: messages are whole states, numbered by updates, in order, any of them may be lost | written |
| `RobotSimProofs` | lock, cache, threads, the age of published states, and the refinement of `StateFeed` | proved |
| `WsWire` | the accept key and the frames, as functions on bytes | checked by `Algorithms` |
| `Inputs` | options and the "Last N" of the page, from where they are typed to where they are used | checked by `Algorithms` |
| `Analysis` | the search for missing samples in a log | checked by `Algorithms` |
| `Algorithms` | picks one input for one of the last three, and holds the reference definitions | checked, all proved |
| `AlgorithmsProofs` | accept key, frames, inputs and the search in a log, for every input | proved |
| `MC...` | instances for TLC | written |

`Algorithms` extends `WsWire`, `Inputs` and `Analysis`. `Gateway` refines
`SampleStore` and `RobotSim` refines `StateFeed`; `GatewayStoreProofs` extends
`GatewayOrderProofs`, which extends `GatewayProofs`, which extends `Gateway`, since
each needs the invariant of the one before. The other proof modules extend the
module they are about.

What is proved, of which component and from what is said in a paragraph "Proofs"
of its section. In all of them the constants that bound an instance are any
numbers, and all that is assumed of them is in the modules' named `ASSUME`s.
Every invariant, every refinement and every action property that a passing run checks
is stated by a theorem. Only liveness under fairness is left to TLC, because it needs
ENABLED: `StopTerminates`, `QueuedPersists`, `BroadcastReturns`, `SeveredLeaves`,
`StopReturns`, `OpenSucceeds`, `ShutsDown` and `UpdateArrives`.

Plan for what is left, in this order:

1. A composition of `Gateway`'s store with `Ui` in place of `Ui`'s fault-free
   server, to see what a rolled-back batch does to a replay.
2. The analysis beyond missing samples: the pair of a planned disconnect and the
   recovery time.

## 3. Gateway

State. `main` is the place of the main thread in `telemetry_gateway_start` and
`_stop`; `open` the set of resources it owns; `rx` and `held` the network thread
inside `on_message`; `queue` the linked list; `writer`, `batch`, `pos`, `ok` the
writer thread and its locals; `client` a client thread of the server, as far as it
uses what the gateway owns; `txOpen`, `tx`, `db` the connection's transaction
and the file; `live` what was broadcast; `heap` the raw payload copies that are
allocated. Each action is one critical section or one step between shared
accesses; `PROJECT.json` maps them.

Environment. `Faults` says what may fail, `MaxFaults` how often: BEGIN, an INSERT
(leaving the transaction open or rolling it back, both of which SQLite does),
COMMIT (rolled back, or busy with the transaction still open), an allocation, a
step of the start. `Crash` may happen at any point; the file survives. When
pthread_create fails, POSIX leaves `writer_th` (and `stats_th`) undefined, and the
stop may join it: "none" stands for a join that is skipped or returns at once, and
`Crash` for a process that dies of it.

Client threads are detached, and `ws_server_stop` does not wait for them: `StopWs`
leaves `client` as it is, and one that is between its recv and its query goes on to
query the reader after it has been closed and the gateway freed. `ClientsFindReader`
says that it does not, and fails (section 9); `JoinedUseOpen` is about the threads
that the stop joins.

Bounds: at most 3 messages, batches of up to 2, two lives, two faults (the cfg
files have the numbers). They allow a full batch with one more sample queued, a
fault in each of two batches or two in one, a crash in any state and a restart on
the rows that remain. Messages, lives and faults are counters that the code does
not have; the proofs do not bound them.

Fairness (`FairSpec`): every thread of the process takes its steps. Messages,
signals, crashes, starts and spurious wakeups are never owed.

| run | checks | shows |
|---|---|---|
| `GatewaySafety` | `TypeOK`, `InOrder`, `NoLeak`, `JoinedUseOpen`, `NoLostWakeup`, `FirstDecides` | all faults and crashes |
| `GatewayStore` | `SettledWhole`, `StoreRefined`, `StopTerminates`, `QueuedPersists` | the gateway implements `SampleStore`; a stop ends, what is queued is persisted |
| `GatewayRolledBackLive` | `PersistedBeforeLive` | violated: a rolled-back batch is broadcast |

`GatewayStore` leaves two faults out. "insertAbort", because the refinement does
not survive it: once SQLite has rolled back by itself, the later INSERTs of the
batch are committed one by one. "commitBusy", because `QueuedPersists` does not:
the writer ignores the result of COMMIT, so when it is SQLITE_BUSY the transaction
stays open and every later BEGIN fails. That takes a database that is not in WAL
mode, which `db_apply_pragmas` requests without looking at the answer.
`GatewaySafety` includes both and shows what still holds.

### Proofs

`GatewayProofs` proves, for any number of messages, lives and faults, any batch
size and any set of faults (`BoundsAssumption`, `BatchAssumption`,
`FaultsAssumption` are all that is assumed):

- `ControlInvariant`: `IInv`, which joins the type invariant to what the place of
  the main thread says of the resources that are open and the threads that run.
  `JoinedUseOpen` alone is not inductive: that the database is open while the
  writer inserts follows from the writer having been joined before the main
  thread reaches the step that closes it, so `IInv` says at which steps of start
  and stop each resource is open and each thread may exist.
- `TypeCorrect` and `JoinedThreadsUseOpen`, which follow from it.
- `WriterNotForgotten`: `NoLostWakeup` is inductive with `IInv` and the type invariant.
  Whoever fills the queue wakes the writer in the same critical section. A stop clears
  `running` without the lock, and the writer may look at it just before and
  sleep just after; it is not forgotten, because the broadcast of the stop is still
  to come.
- `RawCopiesOwned`: `NoLeak` is inductive with the type invariant; the lemmas say
  what taking a prefix of the queue does to its range.

`GatewayOrderProofs` proves, under the same assumptions and with every fault:

- `OrderKept`: `OrderInv`, of which `InOrder` is a part that is not inductive. Going
  from new to old: the sample in the callback, the queue and the batch hold
  increasing numbers, each above the next, and none above `rx` (`PipeInOrder`,
  `AllReceived`). Rows are below what is in the transaction, and both are below what
  the writer may still insert in this turn and all that waits (`RowsInOrder`); the
  batch itself is not above them once it is broadcast, because then it is in the
  file. What was broadcast is below the rest of the batch (`LiveInOrder`). A crash
  empties everything but the file, and `rx` goes on. The lemmas say when a
  concatenation, a prefix and the rest of an increasing sequence increase.
- `SamplesInOrder`, which follows from it.

`GatewayStoreProofs` proves, if "insertAbort" is not among the faults (`NoAbort`),
for all others, "commitBusy" included:

- `TurnStaysWhole`: before COMMIT nothing of the batch is in the file, and while
  INSERTs succeed the transaction is exactly the part of the batch they have done.
  That nothing of it is in the file comes from the order: rows are below what is to
  be inserted.
- `BatchSettledWhole`, and `ImplementsStore`: the initial state maps to that of
  `SampleStore`, and each action to a step of it or a stutter, one lemma for each
  kind of action. The writer settles the batch in the step that leaves the
  transaction behind, by COMMIT, rollback or a BEGIN that fails; a crash drops what
  is pending.

The hypothesis is needed: the comment on `GatewayStore` above says what "insertAbort"
does to a batch. What is left of the promise then is proved for every fault:

- `FirstSampleDecides`: a batch that is broadcast is in the file as a whole, or its
  first sample is not there. So a batch can be in the file in part, but never as a
  beginning that breaks off. `FirstTurn` is the inductive invariant: while no INSERT
  has failed, the batch is in the transaction and nothing of it in the file; after
  the first that failed, the writer is past the first sample, and since samples are
  in order no later INSERT can bring it back. `GatewaySafety` checks it.

## 4. WebSocket server

State. Per connection: `mem` (the record: none, live, freed), `alive`, `fd`, the
place `th` of its thread, `wire` (the last piece sent, whether the status has
been, the last message). `clients` is the list, newest first; `bc` and `cur` the
broadcast and its cursor; `acc` and `newc` the accept thread (when pthread_create
fails it closes the socket, but the record keeps the number, `fd` "stale", until it is
freed); `stop` the stop;
`lost` the messages counted in `cut_msgs` or `dropped_msgs`; `clock` whether the
time since the anchor is before, in or after the cut. `mu` is held by a broadcast
over several steps; every other critical section is one action that needs it free.

A frame is two pieces because `ws_send_text` sends header and body separately. A
thread that uses a record another has freed sets `undef`, and the model goes no
further; safety properties say what holds up to then, liveness properties allow
it as an outcome, and `WsUseAfterFree` shows how it happens.

Bounds: two connections and two messages in `WsCut`, with the cut, drops and the
stop; one connection and two messages in `WsStop`, with delays and requests as
well. Two messages and the clock put one of them before or after the cut, or both
in it. A reconnection is a new connection, so two allow one client to come back,
or two to be walked by the cursor. Connections are interchangeable, so `WsCut`,
which checks safety only, uses symmetry.
`CHECK_DEADLOCK FALSE`: connections and messages run out, the server stops, and
`undef` ends a behaviour.

Fairness: accept, client, broadcast and stopping threads go on; sends, receives
and accept end at the latest after the 60 s their sockets are given. Weak fairness
is enough for the threads that wait for `mu` because broadcasts are bounded; the
code's mutex promises no more.

| run | checks | shows |
|---|---|---|
| `WsCut` | `TypeOK`, `Owned`, `EveryClientServed`, `NoDuplicate`, `LostReachNoOne` | two clients through a cut, drops and a stop at any point: list and memory agree, and each message reaches who it should |
| `WsStop` | `BroadcastReturns`, `SeveredLeaves`, `StopReturns` | one client with every knob on: broadcasts and the stop end, and closed connections are freed |
| `WsStatusFirst` | `StatusFirst` | violated: telemetry before the status and before the upgrade |
| `WsFramesWhole` | `FramesWhole` | violated: one frame inside another |
| `WsUseAfterFree` | `NoUseAfterFree` | violated: a broadcast frees a record that is in use |

### Proofs

`WsServerProofs` proves, for any set of connections, any number of messages and
requests and any setting of the experiment's knobs:

- `ServerInvariant`: `IInv` joins `Owned` and three parts. `RecordInv` says who has a
  record that is being set up or freed: `Owned` is not inductive without it, because
  a record that was never made must be nobody's before it can be linked, and one
  that its thread is about to free must be in the list no more. `TurnInv` says that
  a broadcast holds `mu` while it sends, that the clients before its cursor have the
  message and those from the cursor on have not, which is what removing a client
  under the cursor could break. `LostInv` says that the message under way is not one
  that was counted as lost.
- `ServerTypeCorrect`, `RecordsOwned`, `BroadcastReachesAll`, `NoMessageTwice` and
  `LostStaysLost`, which follow from it.

As in the runs, a state in which a freed record was used (`undef`) has no
successor: the theorems say what holds up to there.

Not modelled: the reuse of freed memory and of descriptor numbers (every
connection has its own), the contents of requests and replies (section 8 has the
accept key, the frames and the options) and time: that `ws_server_stop` may wait 60 s for accept while the runner kills the
process after 6 s is seen in `Gateway` as a crash during a stop.

## 5. Browser UI

State. The page's variables keep their names; `online` is the state of the
buttons; `live`, `replay` and `window` are what the log says of telemetry rows and
batches; `reqs` and `loaded` count `history_request` and `history_batch_loaded`
rows by socket. Sockets are numbered as they are made; `ready` is `readyState`,
`inbox` what the gateway has sent and the browser has not delivered, `link` the
gateway's end. A socket that is closing delivers nothing more, as the WebSocket
standard says, and its `onclose` comes at any later time.

The gateway here persists, then broadcasts, and closes clients at the first message of
a cut; it may drop any connection and what was under way on it. The thread of a
client answers its requests one after the other, in two steps: `ReadHistory` reads
what is persisted by then, `SendReply` sends it, and anything may come in between,
since the query does not hold the server's lock. A batch may so go behind live
samples that are newer than its last. `HistoryFails` is the query that returns an
error. That queries of several clients share one connection is in `DbSqlite`. It has none of the faults that
`Gateway` and `WsServer` have.

`Recovered` is the testbed's central claim in one formula: after the reply to a
reconnection's request is in, the page has missed nothing newer than the first
row of that reply, although history and live data are produced by different
threads and samples are persisted, broadcast and lost between the read of the history
and its arrival. It holds because the client is in the server's list before it can
ask: a sample that is not in the batch is persisted, and so broadcast, after that. The page cannot know of samples that it ignored while paused, that the
user cleared, or that a cut swallowed although the page was back: it waits 3.2 s
and the experiments' cut lasts 3 s, but nothing ties the two together. These
samples are collected in `excused`, which no guard reads. `clicks` is such a ghost
too: it lets `AskedOnce` count the requests that nobody clicked for.

| run | checks | shows |
|---|---|---|
| `Ui` | `TypeOK`, `OneSocket`, `AskedOnce`, `NeverStuck`, `Recovered`, `LiveInOrder` | all buttons, a constructor that throws, losses at any time, histories that fail or come late, and a cut of any length |

Bounds: two sockets allow a loss and a reconnection, by the timer or by hand, with
both sockets' events under way at once; three samples with a window of two leave
one that the replay does not reach, which `Recovered` distinguishes from a hole;
one click on Load history puts two replies on one socket. `Heard`, the view of the
run, takes states for one that differ only in what was sent or asked on a socket that
is closing or closed, where nothing is delivered any more. `CHECK_DEADLOCK FALSE`:
sockets and samples run out.

Only safety is checked: that the page does reconnect depends on users and networks,
from which the code can ask nothing. `NeverStuck` says that there is a socket on its
way or a timer set, unless the page was disconnected by hand or the constructor of
`WebSocket` threw, and that in those cases Connect is enabled. The last case is a page
that gives up: when the constructor throws in the reconnection that the timer began
(the URL was edited while the page was connected), `connect` returns with no socket and
sets no timer (`app.js` 611-617), so only the user can go on.

`NeverStuck` does not say that the timer is off while a connection is
healthy, because that is not so: connect stays enabled until a socket opens, a
second click on it closes the first socket, and the first socket's `onclose`, if it
comes after the second one has opened, sets the timer, which then replaces the
healthy socket. `OneSocket` and `Recovered` hold on this path as well.

`LiveInOrder` says that a live sample is newer than all live ones the page has logged,
over reconnections too. Nothing of the kind holds of a replay: a batch that was read
before and sent after a live sample makes the page show an older one (`LatestStays`,
section 9).

### Proofs

`UiProofs` proves every property of the run, for any number of samples, sockets and
clicks and any "Last N" (`UiBoundsAssumption`: they are natural numbers). TLC has
checked the inductive invariant on the instance of the run before. `UiInvariant`
proves `IInv`, whose parts are:

- `SocketInv` and `AskInv`: what a socket that is not made, not answered, opening or
  open has asked for. `NeverLeftBehind` and `OnlyOneSocket` are in it.
- `CountInv`: no batch is loaded that was not asked for, so `HistoryAskedOnce`.
- `QueueInv`: the live samples under way to the page are in order, and so are batches;
  a batch may be behind live samples that it does not contain.
- `ReadInv` and `GapInv`: a history that has been read and not yet sent was asked for,
  and all that was broadcast since it was read is on its way to the page.
- `LogInv`: live samples under way are newer than those the page has logged, so
  `LiveStaysInOrder`; from the first row of the last batch on the replay has no gap.
- `HoleInv`: `Recovered` for a page whose messages are still under way. `Recovered` is
  not inductive: a hole that a batch on its way will fill, and a batch that was
  lost with its connection, look the same in what the page has. While the
  gateway's end of the socket is up, only samples older than all that the page has
  can be missing, and a batch that is coming closes the gap to the live samples
  behind it. When that end has gone, what was under way may be lost from any point
  on, so nothing that is still delivered may lie behind a hole (`LoseHole` is the
  lemma that goes from one to the other). `ReplayRecovers` follows from it.

Not modelled: drawing, the table, staleness and gap figures, the CSV export, the
`error` reply (logged only), the run tag.

## 6. Storage

State. `version` and `cols` are the file's schema: the table, the columns that
only `CREATE TABLE` makes, the motors' columns that `ensure_column` adds. `opener`
is the place in `db_writer_open`, `times` the rows by insertion with their
`received_at_ns`. The client threads of the server share one reader connection:
`query` is each thread's call of `db_reader_history_last_json`, `snap` the rows
that the connection's read transaction sees. SQLite keeps that transaction for as
long as any statement of the connection is active, so a query that overlaps
another reads the other's snapshot.

A query picks its rows newest first (`PickRow`), and writes them the other way round
(`WriteRow`): `left` is how many are still to be written, `text` what is in the reply, a
row or a comma at a time. An error of `sqlite3_step` ends the picking as the last row
does (`RowFails`). What `sb_append` returns in the loop that writes is not looked at
(`WriteFails`): when memory is short, a row, a comma or both are lost, the newest row as
well as any, and the reply is sent as a good one.

| run | checks | shows |
|---|---|---|
| `DbSqlite` | `TypeOK`, `VersionHonest`, `ReplyIsWindow`, `OpenSucceeds` | a file of any version and stage of migration, a failed statement and a crash anywhere, then two threads that query while rows arrive, a step fails or memory is short |

`ReplyIsWindow` says what a page may believe of a reply. Its rows are in the order of
their time, each once; unless memory was short while it was written, it is a proper list
and lacks only rows that are older than all it has, and those only if the limit was
reached or the reading cut short.

`Ui` answers from everything that is persisted. That holds of a query that overlaps no
other, so for a testbed with one page; with several, a reply may miss rows that were
already broadcast (`FreshReply`, section 9), and overlap can go on for as long as the
pages ask. What is left is proved: no client is answered from an older snapshot than
before.

When the step of `PRAGMA user_version` fails, the version is taken for 0
(`MisreadVersion`) and the file is migrated. To files of versions 0 to 2 this does no
harm, as `VersionHonest` and `OpenSucceeds` show; a file of a later version is stamped as
one of version 2 (`LaterVersionKept`, section 9).

`OpenSucceeds` is for files that have all columns of `CREATE TABLE` but the motors'
or no table. A file without a version that lacks another column is given version
2 all the same and fails at the INSERT's `prepare`, then and ever after, although
the comment in `db_migrate_v2` means to repair a partial schema.

Bounds: two columns to add, so a crash falls before, between and after them; three
rows with limits of at most two, so a reply can be shorter than the file, with
insertion times in any order (`ClockBack`); two threads, so one can overlap the
other; one fault and one crash. Fairness: the thread that opens the file goes on.
`CHECK_DEADLOCK FALSE`: nobody has to start a gateway that is off.

### Proofs

`DbSqliteProofs` proves, for any number of client threads, columns, rows and faults,
any limits above 0 and insertion times in any order:

- `DbInvariant`: `MigrateInv` says which columns are there at each step of the
  migration, so that the version is written only when all are (`VersionIsHonest`);
  a crash leaves columns without a version, never the reverse. `QueryInv` says of
  each query that the rows it has picked are the newest of its snapshot, newest
  first (`Window`); and of its text that it has the oldest of these in the order of
  their time, separated by commas, or some of them in that order if an append has failed
  (`Written`). `RepliesAreWindows` follows. The lemma on what one turn of the loop adds (`PieceAdded`) is
  the longest.
- `DbTypeCorrect`, and `NeverAnOlderReply`, an action property that no run checks:
  snapshots only grow.

Not modelled: the text of rows (`seq` is printed signed in a reply and unsigned
live, which differs from 2^31 on), and two gateways on one file.

## 7. Robot simulator

State. `main`, `started` and `joined` are the place of main, `th` that of the four
sensor threads and the publisher; `mu` the cache's lock; `cache` and `seq` the
cache, `snap` the publisher's copy. Each part of the cache is two numbers, its
first and its last field, both set to the sensor's `cycle`: a part with two
different numbers is torn. A setter is two steps under the lock, and so is the
copy. `net` is what mosquitto has under way and `got` what the gateway had last.

| run | checks | shows |
|---|---|---|
| `RobotSim` | `TypeOK`, `SeqNamesState`, `NoThreadOutlives`, `FeedRefined`, `ShutsDown`, `UpdateArrives` | starts, connections and mallocs that fail, lost messages, a signal at any point |

`SeqNamesState` is why `seq` can stand for a state in the analysis: a state with
number n has exactly n updates in it. Every sensor advances it, so it grows by
several from one published state to the next, which is why the analysis has to
infer its step.

`FeedRefined` says that the simulator implements `StateFeed`, in which a state is read
and written in one step and no lock is needed. There an update is the setter's second
half, which writes the last field and the number, and a message is taken when its
copy is complete, before it is given to mosquitto.

Bounds: two cycles of one sensor and one of another, so that an old update can meet
a newer one and two sensors meet each other; all four threads run. One message
under way, so another is lost at the sender; one failure, in any of the starts,
connections and mallocs.

Fairness (`FairSpec`): each thread goes on. Weak fairness is enough for a lock: the
properties do not need a sensor to win it against a publisher that takes it again
and again, and once the loops end it stays free. `Deliver` is strongly fair: a
network to which messages are given again and again delivers some, which is the
least at which anything can be promised at QoS 0. A signal, a failure and a loss
are never owed. `CHECK_DEADLOCK FALSE`: the process ends.

### Proofs

`RobotSimProofs` proves, for any number of cycles, messages and failures:

- `SimInvariant`: the lock is held by the thread between the two halves of its
  access (`LockInv`), so outside the lock no part of the cache is torn and `seq` is
  the sum of its parts (`CacheInv`). A copy that is made under the lock is a state the
  cache had (`CopyInv`), and from the gateway back to the cache copies grow newer in
  every part (`AgeInv`). Threads are started and joined in one order (`JoinInv`).
- `SimTypeCorrect`, `PublishedStatesWhole`, `ThreadsJoined` and `ReceivedNeverOlder`,
  an action property that no run checks, because `StateFeed` implies it.
- `ImplementsFeed`: the initial state maps to that of `StateFeed`, and each action to a
  step of it or a stutter. That the copy is the state of the moment at which it is
  complete, although it is made in two steps, is `LockInv` and `CopyInv`.

Not modelled: what is measured, the sensors' raw topics (no part of the platform
reads them; `state_dump` prints states), timing, a restart of the simulator, which
begins again at 0, and `seq` beyond 2^32.

## 8. Algorithms

A behaviour of `Algorithms` picks one input, and each invariant compares what the
code's functions make of it with a reference: a standard, or what the inputs mean.

| run | property | compares |
|---|---|---|
| `Algorithms` | `AcceptKeyRight` | the blocks that streaming and padding give to SHA-1 with those of FIPS 180-4; decoding of base64 by RFC 4648 with the digest |
| | `FramesAgree` | headers with RFC 6455 read by a browser, and a browser's masked frames with what the server reads |
| | `InputsRespected` | options and "Last N" where they are typed with where they are used |
| | `MissingFound` | the numbers the analysis takes for missing with the samples that are |

`sha1_transform` is an unknown function of a state and a block, so equal blocks are
all that can be asked. Lengths are those around the ends of blocks, the changes of
a frame's form and the 1 MB limit; numbers those around each bound of a range and the
ends of `int` (TLC's integers have 32 bits, which is why -2^31 and `strtol` beyond
`int` are not tried). "Last N" is tried in tenths and as no number at all, because the
page truncates it; a request without a number gets the server's default; a frame whose
8-byte length has a bit set above the lower four bytes must be refused. Logs are all those of five published samples, each on the page
up to twice, with steps of 1, 4 and 8, or at most once with numbers that drift.

`MissingFound` has one condition, `Usual`: the usual step outnumbers every other step
in the live rows. Otherwise `infer_nominal_seq_step` picks another one, and everything that follows
is in another unit. Where numbers drift by less than a quarter of a step, as they
do when sensors and publisher are not in phase, the count of missing samples is
right but the numbers that stand for them need not be, so
`recovered_by_replay`, which looks those numbers up among the replayed rows, may
be too low. That is why the second half of the property asks for no drift.
`CHECK_DEADLOCK FALSE`: one input is picked.

### Proofs

`AlgorithmsProofs` proves the four invariants for every input, and so for every log
length. The constants are assumed to hold keys that fit the buffer of 255 bytes with
the GUID (`KeysAssumption`), payload lengths that four bytes hold and masks of four
bytes (`FramesAssumption`), any integers (`NumbersAssumption`), any positive steps and
any number of samples and repetitions (`LogAssumption`). An input is picked once, so
the inductive invariant, `PickedInv`, only says which inputs there are; the work is in
lemmas about the functions:

- `AcceptKeyComputed`. `Consumed` is the invariant of the streaming: what `sha1_update`
  has been given is the blocks it has compressed followed by the buffer. It is kept
  whether the data fills a block, several or none, and `PaddingRight` and
  `LengthBytes` say that what `sha1_final` adds is the standard's padding. For base64,
  the four characters of a group are the quotients of its three bytes by 64 and
  decoding puts them together again (`FourCharacters`, `BytesOut`); the last group has
  two bytes and one "=".
- `FramesUnderstood`. XOR is defined by bits, and masking twice is the identity because
  it is on every bit (`XorTwice`). The headers are read back form by form
  (`HeaderForms`), with a shift and a mask for every byte of a length.
- `InputsHonoured`, with `OptionsRespected`, `DelayWithinJitter`, `SleepsTheDelay` and
  `LastRespected` for its parts. That the digits of a number are read as that number
  (`DigitsRead`) goes by induction over the digits, as does that the loop of
  `json_find_int` gives a value for every text (`ReadingExists`).
- `MissingSamplesFound`. The rows of a log are described by the sample each one shows,
  an increasing function (`LiveRowsLog`, by induction over the samples). With it:
  the most common step is the usual one (`UsualTaken`), the rounded quotient of a gap
  counts the samples in it although numbers drift (`GapCounted`), each missing sample
  lies in exactly one gap (`GapAround`, `NoneBetween`), and the expected numbers are as
  many as the missing samples because the numbers of two gaps do not meet
  (`ExpectedOnce`, `ExpectedCounted`).

The induction theorems of the library take an operator as a parameter, which the
provers cannot instantiate. `SetInduction` takes the set of the numbers for which a
statement holds instead, and is proved from the least number outside that set
(`WFMin`).

Not modelled: `planned_disconnect_pair` and the recovery time, averages and
quantiles, plots and LaTeX; the text of JSON beyond digits and a sign.

## 9. What the runs found

The violated runs are disagreements between the code and what the repository says
of it; `PROJECT.json` quotes both sides: a rolled-back batch is broadcast;
telemetry can precede the status and the handshake; frames of two threads can be
torn; a broadcast frees records that are in use.

Four more properties are stated in the modules and do not hold. No run lists them, since
they contradict no promise of the repository but a reader's expectation, need an I/O
error at one statement, or show at a second place what a violated run shows already; TLC finds each of them violated within
seconds, on the instance that is named here:

| property | instance | what happens |
|---|---|---|
| `ClientsFindReader` of `Gateway` | no messages, one life, no faults | `ws_server_stop` does not wait for client threads; one queries the reader after `telemetry_gateway_stop` has closed it and freed the gateway (`ws_server.c` 697 and 636). The same missing join lets them use the freed server, which `NoUseAfterFree` covers |
| `FreshReply` of `DbSqlite` | two clients, two rows, a limit of 1, no faults | a query that begins while another client's is under way reads the other's snapshot and misses a row that was committed before it was asked for |
| `LaterVersionKept` of `DbSqlite` | one client, one row, one fault | the step of `PRAGMA user_version` fails, and a file of a later version, which an open is meant to refuse, is stamped as one of version 2 |
| `LatestStays` of `Ui` | that of the run `Ui` | a history is read, the next sample is persisted and broadcast, the reply is sent: the page goes back to the last row of the reply (`ws_server.c` 636-637, `app.js` 552-553) until the next live sample |

## 10. Not modelled

`state_dump.c` prints what it receives and keeps no state. The protobuf code is
generated. Of the runners, only how they stop and kill the gateway is in a model
(`Crash` of `Gateway`): the rest is shell that starts processes and waits. The
queue of the gateway has no limit, and a model with bounded messages cannot show
it grow. Rows hold `seq` as a signed number, which differs from what is sent live
from 2^31 on; the models have no numbers that large.
