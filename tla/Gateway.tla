------------------------------- MODULE Gateway -------------------------------
(***************************************************************************)
(* The telemetry gateway process (src/src/core/telemetry_gateway.c): the   *)
(* MQTT network thread hands each sample to a queue, the writer thread     *)
(* persists batches of them with SQLite and then broadcasts them, and the  *)
(* main thread starts everything and stops it.  The process may be killed  *)
(* at any point and started again on the same database file.               *)
(*                                                                         *)
(* A sample is the number of its reception.  A queue_push is one critical  *)
(* section of q_mu, and so is a turn of queue_pop_batch up to its wait, so *)
(* each is one action; every other shared access is a step of its own.     *)
(* Statistics only feed a log line and are left out.                       *)
(***************************************************************************)
EXTENDS Integers, SequencesExt

CONSTANTS MaxRx,          \* bound: samples received in all
          BatchSize,      \* GW_BATCH, or 1 when the batch buffer's calloc fails
          MaxLives,       \* bound: times the process is started
          MaxFaults,      \* bound: failures of the kinds in Faults
          Faults          \* what may fail in this environment

(* begin        BEGIN IMMEDIATE fails (another connection writes, I/O)      *)
(* insert       an INSERT fails and the transaction stays open              *)
(* insertAbort  an INSERT fails and SQLite rolls the transaction back       *)
(* commit       COMMIT fails and SQLite rolls the transaction back          *)
(* commitBusy   COMMIT returns SQLITE_BUSY: the transaction stays open (no  *)
(*              WAL: a reader holds its shared lock)                        *)
(* oom          the calloc of a queue node or of a JSON text fails          *)
(* start        a step of telemetry_gateway_start fails                     *)
FaultKinds == {"begin", "insert", "insertAbort", "commit", "commitBusy",
               "oom", "start"}

ASSUME BoundsAssumption == /\ MaxRx \in Nat
                           /\ MaxLives \in Nat
                           /\ MaxFaults \in Nat
ASSUME BatchAssumption == BatchSize \in Nat \ {0}
ASSUME FaultsAssumption == Faults \subseteq FaultKinds

VARIABLES
    \* the main thread and what it owns
    main,         \* where telemetry_gateway_start / _stop is
    running,      \* g->running
    open,         \* resources that are open: dbw, dbr, ws, mqtt
    stats,        \* stats_thread: "none", "run", "done"
    client,       \* a detached client thread: "none", "recv", "query"
    \* the MQTT network thread
    rx,           \* number of messages received so far
    held,         \* sample inside on_message, not yet queued: <<>> or <<s>>
    \* the queue, under q_mu
    queue,
    \* the writer thread
    writer,       \* where writer_thread is
    batch,        \* samples it popped
    pos,          \* index of the next sample to insert or to broadcast
    ok,           \* no insert of this batch has failed
    \* SQLite: the connection's transaction and the file
    txOpen, tx, db,
    \* what left the process, and the raw payload copies still allocated
    live,         \* samples handed to ws_server_broadcast, in order
    heap,
    \* the environment
    lives, faults

mainVars == <<main, running, open, stats, client>>
rxVars == <<rx, held>>
writerVars == <<writer, batch, pos, ok>>
dbVars == <<txOpen, tx, db>>
vars == <<mainVars, rxVars, queue, writerVars, dbVars, live, heap, lives,
          faults>>

Samples == 1..MaxRx

StartSteps == {"openWriter", "openReader", "startWs", "createWriter",
               "createStats", "connect", "callbacks"}
StopSteps == {"stop", "wake", "joinWriter", "joinStats", "closeMqtt",
              "stopWs", "closeReader", "closeWriter", "free"}
WriterSteps == {"none", "loop", "pop", "wait", "begin", "insert",
                "broadcast", "done"}

MainTypeOK == /\ main \in {"off", "run"} \cup StartSteps \cup StopSteps
              /\ running \in BOOLEAN
              /\ open \subseteq {"dbw", "dbr", "ws", "mqtt"}
              /\ stats \in {"none", "run", "done"}
              /\ client \in {"none", "recv", "query"}

RxTypeOK == /\ rx \in 0..MaxRx
            /\ held \in Seq(Samples) /\ Len(held) <= 1
            /\ queue \in Seq(Samples)

WriterTypeOK == /\ writer \in WriterSteps
                /\ batch \in Seq(Samples) /\ Len(batch) <= BatchSize
                /\ pos \in 1..(Len(batch) + 1)
                /\ ok \in BOOLEAN

DbTypeOK == /\ txOpen \in BOOLEAN
            /\ tx \in Seq(Samples)
            /\ db \in Seq(Samples)

OutTypeOK == /\ live \in Seq(Samples)
             /\ heap \subseteq Samples
             /\ lives \in 0..MaxLives
             /\ faults \in 0..MaxFaults

TypeOK == MainTypeOK /\ RxTypeOK /\ WriterTypeOK /\ DbTypeOK /\ OutTypeOK

Init ==
    /\ main = "off" /\ running = FALSE /\ open = {} /\ stats = "none"
    /\ client = "none"
    /\ rx = 0 /\ held = <<>>
    /\ queue = <<>>
    /\ writer = "none" /\ batch = <<>> /\ pos = 1 /\ ok = TRUE
    /\ txOpen = FALSE /\ tx = <<>> /\ db = <<>>
    /\ live = <<>> /\ heap = {}
    /\ lives = 0 /\ faults = 0

Fault(kind) == /\ kind \in Faults
               /\ faults < MaxFaults
               /\ faults' = faults + 1

NoFault == UNCHANGED faults

-----------------------------------------------------------------------------
(* telemetry_gateway_start *)

Boot ==
    /\ main = "off" /\ lives < MaxLives
    /\ main' = "openWriter"
    /\ running' = TRUE
    /\ lives' = lives + 1
    /\ UNCHANGED <<open, stats, client, rxVars, queue, writerVars, dbVars,
                   live, heap, faults>>

(* One step of the start opens a resource and goes on; a step that fails    *)
(* calls telemetry_gateway_stop on whatever is open by then.                *)
Opens(step, resource, next) ==
    /\ main = step
    /\ \/ main' = next /\ open' = open \cup {resource} /\ NoFault
       \/ main' = "stop" /\ open' = open /\ Fault("start")
    /\ UNCHANGED <<running, stats, client, rxVars, queue, writerVars, dbVars,
                   live, heap, lives>>

OpenWriter == Opens("openWriter", "dbw", "openReader")
OpenReader == Opens("openReader", "dbr", "startWs")
StartWs == Opens("startWs", "ws", "createWriter")

(* When pthread_create fails, what it leaves in writer_th is not defined:   *)
(* zero, and stop's join is skipped, or the handle of a thread that never   *)
(* ran, and the join returns at once or the process dies of it.  "none"     *)
(* stands for each of them: JoinWriter does not wait, and Crash may come    *)
(* in its place.                                                            *)
CreateWriter ==
    /\ main = "createWriter"
    /\ \/ main' = "createStats" /\ writer' = "loop" /\ NoFault
       \/ main' = "stop" /\ writer' = writer /\ Fault("start")
    /\ UNCHANGED <<running, open, stats, client, rxVars, queue, batch, pos,
                   ok, dbVars, live, heap, lives>>

(* Without --stats, or when the thread cannot be created, there is none;    *)
(* stats_th is then as undefined as writer_th above, and "none" stands for  *)
(* the same outcomes of its join.                                           *)
CreateStats ==
    /\ main = "createStats"
    /\ main' = "connect"
    /\ stats' \in {"none", "run"}
    /\ UNCHANGED <<running, open, client, rxVars, queue, writerVars, dbVars,
                   live, heap, lives, faults>>

(* mqtt_client_connect starts the network thread before it returns. *)
Connect == Opens("connect", "mqtt", "callbacks")

(* The callbacks are set, and the topic subscribed, only after that. *)
SetCallbacks ==
    /\ main = "callbacks"
    /\ main' = "run"
    /\ UNCHANGED <<running, open, stats, client, rxVars, queue, writerVars,
                   dbVars, live, heap, lives, faults>>

-----------------------------------------------------------------------------
(* The MQTT network thread: on_message and queue_push *)

(* A message finds the gateway running; its payload does not unpack, or its *)
(* sample is filled in and its raw payload copied (there is no copy of an   *)
(* empty payload, nor when malloc fails).                                   *)
OnMessage ==
    /\ "mqtt" \in open /\ main # "callbacks" /\ running /\ held = <<>>
    /\ rx < MaxRx
    /\ rx' = rx + 1
    /\ \/ held' = <<rx + 1>> /\ heap' \in {heap, heap \cup {rx + 1}}
       \/ UNCHANGED <<held, heap>>
    /\ UNCHANGED <<mainVars, queue, writerVars, dbVars, live, lives, faults>>

(* mutant: the new node is linked at the head *)
QueuePushMut ==
    /\ held # <<>>
    /\ queue' = held \o queue
    /\ held' = <<>>
    /\ writer' = IF writer = "wait" THEN "pop" ELSE writer
    /\ UNCHANGED <<mainVars, rx, batch, pos, ok, dbVars, live, heap, lives,
                   faults>>

QueuePush ==
    /\ held # <<>>
    /\ queue' = queue \o held
    /\ held' = <<>>
    /\ writer' = IF writer = "wait" THEN "pop" ELSE writer
    /\ UNCHANGED <<mainVars, rx, batch, pos, ok, dbVars, live, heap, lives,
                   faults>>

(* No memory for the queue node: the sample and its raw copy are dropped. *)
QueuePushFails ==
    /\ held # <<>>
    /\ Fault("oom")
    /\ heap' = heap \ Range(held)
    /\ held' = <<>>
    /\ UNCHANGED <<mainVars, rx, queue, writerVars, dbVars, live, lives>>

-----------------------------------------------------------------------------
(* writer_thread *)

WriterLoop ==
    /\ writer = "loop"
    /\ writer' = IF running THEN "pop" ELSE "done"
    /\ UNCHANGED <<mainVars, rxVars, queue, batch, pos, ok, dbVars, live,
                   heap, lives, faults>>

(* queue_pop_batch, up to pthread_cond_wait, which releases q_mu. *)
PopWaits ==
    /\ writer = "pop" /\ running /\ queue = <<>>
    /\ writer' = "wait"
    /\ UNCHANGED <<mainVars, rxVars, queue, batch, pos, ok, dbVars, live,
                   heap, lives, faults>>

SpuriousWakeup ==
    /\ writer = "wait"
    /\ writer' = "pop"
    /\ UNCHANGED <<mainVars, rxVars, queue, batch, pos, ok, dbVars, live,
                   heap, lives, faults>>

(* mutant: the loop ignores max and writes past the batch buffer *)
PopCountMut == Len(queue)

(* How many samples queue_pop_batch takes. *)
PopCount == IF Len(queue) < BatchSize THEN Len(queue) ELSE BatchSize

(* mutant: the sample after the batch is unlinked as well *)
PopBatchMut ==
    /\ writer = "pop" /\ (~running \/ queue # <<>>)
    /\ batch' = SubSeq(queue, 1, PopCount)
    /\ queue' = SubSeq(queue, PopCount + 2, Len(queue))
    /\ writer' = IF PopCount = 0 THEN "loop" ELSE "begin"
    /\ UNCHANGED <<mainVars, rxVars, pos, ok, dbVars, live, heap, lives,
                   faults>>

PopBatch ==
    /\ writer = "pop" /\ (~running \/ queue # <<>>)
    /\ batch' = SubSeq(queue, 1, PopCount)
    /\ queue' = SubSeq(queue, PopCount + 1, Len(queue))
    /\ writer' = IF PopCount = 0 THEN "loop" ELSE "begin"
    /\ UNCHANGED <<mainVars, rxVars, pos, ok, dbVars, live, heap, lives,
                   faults>>

BeginTx ==
    /\ writer = "begin" /\ ~txOpen
    /\ txOpen' = TRUE
    /\ writer' = "insert" /\ pos' = 1 /\ ok' = TRUE
    /\ UNCHANGED <<mainVars, rxVars, queue, batch, tx, db, live, heap, lives,
                   faults>>

(* mutant: the early continue forgets the raw copies *)
BeginFailsMut ==
    /\ writer = "begin"
    /\ \/ txOpen /\ NoFault
       \/ Fault("begin")
    /\ batch' = <<>> /\ pos' = 1
    /\ writer' = "loop"
    /\ UNCHANGED <<mainVars, rxVars, queue, ok, dbVars, live, heap, lives>>

(* SQLite refuses a BEGIN inside a transaction too: the batch is dropped. *)
BeginFails ==
    /\ writer = "begin"
    /\ \/ txOpen /\ NoFault
       \/ Fault("begin")
    /\ heap' = heap \ Range(batch)
    /\ batch' = <<>> /\ pos' = 1
    /\ writer' = "loop"
    /\ UNCHANGED <<mainVars, rxVars, queue, ok, dbVars, live, lives>>

(* An INSERT outside a transaction is durable at once. *)
InsertState ==
    /\ writer = "insert" /\ pos <= Len(batch)
    /\ IF txOpen THEN tx' = Append(tx, batch[pos]) /\ db' = db
                 ELSE db' = Append(db, batch[pos]) /\ tx' = tx
    /\ pos' = pos + 1
    /\ UNCHANGED <<mainVars, rxVars, queue, writer, batch, ok, txOpen, live,
                   heap, lives, faults>>

(* mutant: a failed INSERT is not remembered *)
InsertFailsMut ==
    /\ writer = "insert" /\ pos <= Len(batch)
    /\ Fault("insert")
    /\ pos' = pos + 1
    /\ UNCHANGED <<mainVars, rxVars, queue, writer, batch, ok, dbVars, live,
                   heap, lives>>

(* The loop goes on with the next sample after a failed INSERT. *)
InsertFails ==
    /\ writer = "insert" /\ pos <= Len(batch)
    /\ \/ Fault("insert") /\ UNCHANGED <<txOpen, tx>>
       \/ Fault("insertAbort") /\ txOpen' = FALSE /\ tx' = <<>>
    /\ ok' = FALSE
    /\ pos' = pos + 1
    /\ UNCHANGED <<mainVars, rxVars, queue, writer, batch, db, live, heap,
                   lives>>

(* The result of COMMIT is not looked at. *)
Commit ==
    /\ writer = "insert" /\ pos > Len(batch) /\ ok
    /\ \/ db' = db \o tx /\ tx' = <<>> /\ txOpen' = FALSE /\ NoFault
       \/ db' = db /\ tx' = <<>> /\ txOpen' = FALSE /\ Fault("commit")
       \/ UNCHANGED dbVars /\ Fault("commitBusy")
    /\ writer' = "broadcast" /\ pos' = 1
    /\ UNCHANGED <<mainVars, rxVars, queue, batch, ok, live, heap, lives>>

(* mutant: after a failed INSERT nothing ends the transaction *)
RollbackMut ==
    /\ writer = "insert" /\ pos > Len(batch) /\ ~ok
    /\ writer' = "broadcast" /\ pos' = 1
    /\ UNCHANGED <<mainVars, rxVars, queue, batch, ok, dbVars, live, heap,
                   lives, faults>>

(* Without a transaction, ROLLBACK fails and changes nothing. *)
Rollback ==
    /\ writer = "insert" /\ pos > Len(batch) /\ ~ok
    /\ tx' = <<>> /\ txOpen' = FALSE
    /\ writer' = "broadcast" /\ pos' = 1
    /\ UNCHANGED <<mainVars, rxVars, queue, batch, ok, db, live, heap, lives,
                   faults>>

(* Every sample of the batch is rendered and broadcast, however its         *)
(* transaction ended; rendering may find no memory.  Its raw copy is freed. *)
BroadcastSample ==
    /\ writer = "broadcast" /\ pos <= Len(batch)
    /\ \/ live' = Append(live, batch[pos]) /\ NoFault
       \/ live' = live /\ Fault("oom")
    /\ heap' = heap \ {batch[pos]}
    /\ pos' = pos + 1
    /\ UNCHANGED <<mainVars, rxVars, queue, writer, batch, ok, dbVars, lives>>

BatchDone ==
    /\ writer = "broadcast" /\ pos > Len(batch)
    /\ batch' = <<>> /\ pos' = 1
    /\ writer' = "loop"
    /\ UNCHANGED <<mainVars, rxVars, queue, ok, dbVars, live, heap, lives,
                   faults>>

(* stats_thread reads what it reports under the locks; it ends when it sees *)
(* running cleared.                                                         *)
StatsExit ==
    /\ stats = "run" /\ ~running
    /\ stats' = "done"
    /\ UNCHANGED <<main, running, open, client, rxVars, queue, writerVars,
                   dbVars, live, heap, lives, faults>>

-----------------------------------------------------------------------------
(* A client's detached thread (ws_server.c), as far as it uses what the      *)
(* gateway owns.  One stands for any number of them: each only reads.       *)

(* accept_thread creates one while the server is open. *)
ClientJoins ==
    /\ "ws" \in open /\ client = "none"
    /\ client' = "recv"
    /\ UNCHANGED <<main, running, open, stats, rxVars, queue, writerVars,
                   dbVars, live, heap, lives, faults>>

(* A history request ends its wait in recv, and it queries s->db, the       *)
(* gateway's reader.  Closing the socket elsewhere does not end that wait,  *)
(* and s->running is not looked at between recv and the query.              *)
ClientQueries ==
    /\ client = "recv"
    /\ client' = "query"
    /\ UNCHANGED <<main, running, open, stats, rxVars, queue, writerVars,
                   dbVars, live, heap, lives, faults>>

(* It has its reply, and goes on or finds the server stopped; once the      *)
(* server is freed, what it reads of s->running is anything.                *)
ClientAnswered ==
    /\ client = "query"
    /\ client' \in {"recv", "none"}
    /\ UNCHANGED <<main, running, open, stats, rxVars, queue, writerVars,
                   dbVars, live, heap, lives, faults>>

(* Its connection ends. *)
ClientLeaves ==
    /\ client = "recv"
    /\ client' = "none"
    /\ UNCHANGED <<main, running, open, stats, rxVars, queue, writerVars,
                   dbVars, live, heap, lives, faults>>

-----------------------------------------------------------------------------
(* telemetry_gateway_stop, called by main after a signal or by a failed start *)

Signal ==
    /\ main = "run"
    /\ main' = "stop"
    /\ UNCHANGED <<running, open, stats, client, rxVars, queue, writerVars,
                   dbVars, live, heap, lives, faults>>

(* running is cleared without the lock. *)
ClearRunning ==
    /\ main = "stop"
    /\ main' = "wake" /\ running' = FALSE
    /\ UNCHANGED <<open, stats, client, rxVars, queue, writerVars, dbVars,
                   live, heap, lives, faults>>

(* mutant: the condition variable is not broadcast *)
WakeWriterMut ==
    /\ main = "wake"
    /\ main' = "joinWriter"
    /\ UNCHANGED <<running, open, stats, client, rxVars, queue, writerVars,
                   dbVars, live, heap, lives, faults>>

WakeWriter ==
    /\ main = "wake"
    /\ main' = "joinWriter"
    /\ writer' = IF writer = "wait" THEN "pop" ELSE writer
    /\ UNCHANGED <<running, open, stats, client, rxVars, queue, batch, pos,
                   ok, dbVars, live, heap, lives, faults>>

(* mutant: the writer is not joined *)
JoinWriterMut ==
    /\ main = "joinWriter"
    /\ main' = "joinStats"
    /\ UNCHANGED <<running, open, stats, client, rxVars, queue, writerVars,
                   dbVars, live, heap, lives, faults>>

JoinWriter ==
    /\ main = "joinWriter" /\ writer \in {"none", "done"}
    /\ main' = "joinStats"
    /\ UNCHANGED <<running, open, stats, client, rxVars, queue, writerVars,
                   dbVars, live, heap, lives, faults>>

JoinStats ==
    /\ main = "joinStats" /\ stats \in {"none", "done"}
    /\ main' = "closeMqtt"
    /\ UNCHANGED <<running, open, stats, client, rxVars, queue, writerVars,
                   dbVars, live, heap, lives, faults>>

(* mosquitto_loop_stop joins the network thread: no callback is running. *)
CloseMqtt ==
    /\ main = "closeMqtt" /\ held = <<>>
    /\ main' = "stopWs" /\ open' = open \ {"mqtt"}
    /\ UNCHANGED <<running, stats, client, rxVars, queue, writerVars, dbVars,
                   live, heap, lives, faults>>

(* ws_server_stop joins accept_thread and frees the server.  It does not    *)
(* join the detached client threads: one of them goes on as it was.         *)
StopWs ==
    /\ main = "stopWs"
    /\ main' = "closeReader" /\ open' = open \ {"ws"}
    /\ UNCHANGED <<running, stats, client, rxVars, queue, writerVars, dbVars,
                   live, heap, lives, faults>>

CloseReader ==
    /\ main = "closeReader"
    /\ main' = "closeWriter" /\ open' = open \ {"dbr"}
    /\ UNCHANGED <<running, stats, client, rxVars, queue, writerVars, dbVars,
                   live, heap, lives, faults>>

(* Closing the connection rolls back a transaction that is still open. *)
CloseWriter ==
    /\ main = "closeWriter"
    /\ main' = "free" /\ open' = open \ {"dbw"}
    /\ txOpen' = FALSE /\ tx' = <<>>
    /\ UNCHANGED <<running, stats, client, rxVars, queue, writerVars, db,
                   live, heap, lives, faults>>

(* What is still queued is freed, not persisted; the process then exits. *)
FreeGateway ==
    /\ main = "free"
    /\ main' = "off"
    /\ heap' = heap \ Range(queue)
    /\ queue' = <<>>
    /\ writer' = "none" /\ stats' = "none" /\ client' = "none"
    /\ UNCHANGED <<running, open, rxVars, batch, pos, ok, dbVars, live, lives,
                   faults>>

-----------------------------------------------------------------------------
(* The process is killed: what was not committed is gone. *)
Crash ==
    /\ main # "off"
    /\ main' = "off" /\ running' = FALSE /\ open' = {} /\ stats' = "none"
    /\ client' = "none"
    /\ held' = <<>> /\ queue' = <<>> /\ heap' = {}
    /\ writer' = "none" /\ batch' = <<>> /\ pos' = 1 /\ ok' = TRUE
    /\ txOpen' = FALSE /\ tx' = <<>>
    /\ UNCHANGED <<rx, db, live, lives, faults>>

(* The last process has ended. *)
Finished == main = "off" /\ lives = MaxLives /\ UNCHANGED vars

StartNext == \/ OpenWriter \/ OpenReader \/ StartWs \/ CreateWriter
             \/ CreateStats \/ Connect \/ SetCallbacks
StopNext == \/ ClearRunning \/ WakeWriter \/ JoinWriter \/ JoinStats
            \/ CloseMqtt \/ StopWs \/ CloseReader \/ CloseWriter
            \/ FreeGateway
PushNext == QueuePush \/ QueuePushFails
WriterNext == \/ WriterLoop \/ PopWaits \/ PopBatch \/ BeginTx \/ BeginFails
              \/ InsertState \/ InsertFails \/ Commit \/ Rollback
              \/ BroadcastSample \/ BatchDone
ClientNext == ClientJoins \/ ClientQueries \/ ClientAnswered \/ ClientLeaves

Next == \/ Boot \/ StartNext \/ Signal \/ StopNext \/ Crash \/ Finished
        \/ OnMessage \/ PushNext
        \/ WriterNext \/ SpuriousWakeup
        \/ StatsExit \/ ClientNext

Spec == Init /\ [][Next]_vars

(* Every thread runs.  Nothing obliges a message, a client, a signal, a     *)
(* crash, a start or a spurious wakeup to come.                             *)
Fairness == /\ WF_vars(StartNext) /\ WF_vars(StopNext) /\ WF_vars(PushNext)
            /\ WF_vars(WriterNext) /\ WF_vars(StatsExit)

FairSpec == Spec /\ Fairness

-----------------------------------------------------------------------------
(* Properties *)

Increasing(s) == \A i, j \in DOMAIN s : i < j => s[i] < s[j]

(* Samples travel in the order they were received and never twice: through  *)
(* the pipeline (batch, queue, callback), into the database and to the      *)
(* clients, whatever fails, across restarts (queue_push, queue_pop_batch).  *)
InOrder == /\ Increasing(batch \o queue \o held)
           /\ Increasing(db)
           /\ Increasing(live)

(* When the writer starts to broadcast a batch, its transaction has put all *)
(* of it in the database or none of it (writer_thread's COMMIT / ROLLBACK). *)
SettledWhole == writer = "broadcast" =>
    \/ Range(batch) \subseteq Range(db)
    \/ Range(batch) \cap Range(db) = {}

(* Every raw payload copy that is allocated has exactly one owner that will *)
(* free it: the callback, the queue, or the part of the batch not yet       *)
(* released.  No early continue, failed insert or stop leaks one.           *)
Unreleased == IF writer = "broadcast" THEN SubSeq(batch, pos, Len(batch))
                                      ELSE batch
NoLeak == heap \subseteq Range(held) \cup Range(queue) \cup Range(Unreleased)

(* No thread that telemetry_gateway_stop joins uses what it has closed or   *)
(* freed, on any path through a failed start or a stop: the writer's        *)
(* connection and server, the gateway behind each of them.  Of the client   *)
(* threads, which are not joined, it says only that the reader is there     *)
(* until ws_server_stop; ClientsFindReader is the rest, and does not hold.  *)
JoinedUseOpen ==
    /\ writer \in {"begin", "insert"} => "dbw" \in open
    /\ writer = "broadcast" => "ws" \in open
    /\ "ws" \in open => "dbr" \in open
    /\ txOpen => "dbw" \in open
    /\ writer \notin {"none", "done"} => main \notin {"off", "free"}
    /\ stats = "run" => main \notin {"off", "free"}
    /\ held # <<>> => main \notin {"off", "free"}

(* A client's thread finds the reader that it queries open: the server      *)
(* borrows it ("not owned", ws_server.c) and closes "all clients" when it   *)
(* stops.  This fails: ws_server_stop does not wait for the client threads, *)
(* and one that is between its recv and its query goes on to it.            *)
ClientsFindReader == client = "query" => "dbr" \in open

(* A writer that sleeps has been told of everything it must act on: the     *)
(* queue is empty, and the gateway runs or stop's broadcast is still to     *)
(* come, although stop clears running without the lock (queue_pop_batch).   *)
NoLostWakeup == writer = "wait" =>
    /\ queue = <<>>
    /\ running \/ main = "wake"

(* What a batch that is broadcast may have left in the database, whatever   *)
(* fails, SQLite's own rollback in the middle of a batch included: all of   *)
(* it, or not its first sample.  Only a hole at the front can be followed   *)
(* by rows that were committed one by one (writer_thread, insert_state).    *)
FirstDecides == writer = "broadcast" =>
    (batch[1] \in Range(db) => Range(batch) \subseteq Range(db))

(* A client is shown only samples that are in the database                  *)
(* (writer_thread broadcasts after COMMIT).                                 *)
PersistedBeforeLive == Range(live) \subseteq Range(db)

(* A stop always ends: no lost wakeup of the writer between clearing        *)
(* running and the broadcast, no join that waits for ever.                  *)
StopTerminates == main = "stop" ~> main = "off"

(* Once SQLite and malloc work again, a sample that waits in the queue is   *)
(* persisted, unless the gateway stops first: no earlier failure keeps the  *)
(* writer from its work.                                                    *)
QueuedPersists == \A s \in Samples :
    (s \in Range(queue) /\ faults = MaxFaults)
        ~> (s \in Range(db) \/ ~running)

(* The gateway implements SampleStore: what waits is the batch whose        *)
(* transaction has not ended, then the queue; the log is the database.      *)
Store == INSTANCE SampleStore WITH
    pending <- (IF writer \in {"begin", "insert"} THEN batch ELSE <<>>) \o queue,
    log <- db
StoreRefined == Store!StoreSpec

=============================================================================
