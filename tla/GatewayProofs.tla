---------------------------- MODULE GatewayProofs ----------------------------
(***************************************************************************)
(* Proofs about Gateway for every number of samples, batch size, number of *)
(* process lives and set of failures.                                      *)
(***************************************************************************)
EXTENDS Gateway, SequenceTheorems, TLAPS

-----------------------------------------------------------------------------
(* The control invariant: what the position of the main thread says about  *)
(* the other threads and about the resources.                              *)

(* What may be open when the main thread is at each step of the stop. *)
StopOpens ==
    /\ main \in {"stopWs", "closeReader", "closeWriter", "free"} => "mqtt" \notin open
    /\ main \in {"closeReader", "closeWriter", "free"} => "ws" \notin open
    /\ main \in {"closeWriter", "free"} => "dbr" \notin open
    /\ main = "free" => "dbw" \notin open

(* What is open at each step of the start. *)
StartOpens ==
    /\ main \in {"off", "openWriter"} => open = {}
    /\ main = "openReader" => open = {"dbw"}
    /\ main = "startWs" => open = {"dbw", "dbr"}
    /\ main \in {"createWriter", "createStats", "connect"} => open = {"dbw", "dbr", "ws"}
    /\ main \in {"callbacks", "run"} => open = {"dbw", "dbr", "ws", "mqtt"}

(* The threads that exist, and what they stand on. *)
ThreadsInv ==
    /\ main \in {"off", "openWriter", "openReader", "startWs", "createWriter"}
          => writer = "none"
    /\ main \in {"joinStats", "closeMqtt", "stopWs", "closeReader", "closeWriter", "free"}
          => writer \in {"none", "done"}
    /\ main \in {"off", "openWriter", "openReader", "startWs", "createWriter", "createStats"}
          => stats = "none"
    /\ main \in {"closeMqtt", "stopWs", "closeReader", "closeWriter", "free"}
          => stats \in {"none", "done"}
    /\ writer \notin {"none", "done"} => {"dbw", "dbr", "ws"} \subseteq open
    /\ held # <<>> => "mqtt" \in open
    /\ "ws" \in open => "dbr" \in open

(* The batch and the transaction belong to one turn of the writer's loop. *)
TurnInv ==
    /\ writer \notin {"begin", "insert", "broadcast"} => batch = <<>>
    /\ writer \notin {"insert", "broadcast"} => pos = 1
    /\ txOpen => "dbw" \in open
    /\ ~txOpen => tx = <<>>
    /\ main = "off" => queue = <<>>
    /\ main \in {"off"} \cup (StopSteps \ {"stop"}) => ~running

ControlInv == StopOpens /\ StartOpens /\ ThreadsInv /\ TurnInv

IInv == TypeOK /\ ControlInv

(* Every step keeps the control invariant, one step of the proof per action.*)
LEMMA ControlStep ==
    ASSUME IInv, [Next]_vars
    PROVE  ControlInv'
<1> USE DEF IInv, TypeOK, MainTypeOK, RxTypeOK, WriterTypeOK, ControlInv,
            StopOpens, StartOpens, ThreadsInv, TurnInv, StartSteps, StopSteps, WriterSteps, mainVars, rxVars, writerVars, dbVars,
            Fault, NoFault
<1>1. CASE Boot
  BY <1>1 DEF Boot
<1>2. CASE OpenWriter
  BY <1>2 DEF OpenWriter, Opens
<1>3. CASE OpenReader
  BY <1>3 DEF OpenReader, Opens
<1>4. CASE StartWs
  BY <1>4 DEF StartWs, Opens
<1>5. CASE CreateWriter
  BY <1>5 DEF CreateWriter
<1>6. CASE CreateStats
  BY <1>6 DEF CreateStats
<1>7. CASE Connect
  BY <1>7 DEF Connect, Opens
<1>8. CASE SetCallbacks
  BY <1>8 DEF SetCallbacks
<1>9. CASE Signal
  BY <1>9 DEF Signal
<1>10. CASE ClearRunning
  BY <1>10 DEF ClearRunning
<1>11. CASE WakeWriter
  BY <1>11 DEF WakeWriter
<1>12. CASE JoinWriter
  BY <1>12 DEF JoinWriter
<1>13. CASE JoinStats
  BY <1>13 DEF JoinStats
<1>14. CASE CloseMqtt
  BY <1>14 DEF CloseMqtt
<1>15. CASE StopWs
  BY <1>15 DEF StopWs
<1>16. CASE CloseReader
  BY <1>16 DEF CloseReader
<1>17. CASE CloseWriter
  BY <1>17 DEF CloseWriter
<1>18. CASE FreeGateway
  BY <1>18 DEF FreeGateway
<1>19. CASE Crash
  BY <1>19 DEF Crash
<1>20. CASE OnMessage
  BY <1>20 DEF OnMessage
<1>21. CASE QueuePush
  BY <1>21 DEF QueuePush
<1>22. CASE QueuePushFails
  BY <1>22 DEF QueuePushFails
<1>23. CASE WriterLoop
  BY <1>23 DEF WriterLoop
<1>24. CASE PopWaits
  BY <1>24 DEF PopWaits
<1>25. CASE PopBatch
  BY <1>25 DEF PopBatch, PopCount
<1>26. CASE BeginTx
  BY <1>26 DEF BeginTx
<1>27. CASE BeginFails
  BY <1>27 DEF BeginFails
<1>28. CASE InsertState
  BY <1>28 DEF InsertState
<1>29. CASE InsertFails
  BY <1>29 DEF InsertFails
<1>30. CASE Commit
  BY <1>30 DEF Commit
<1>31. CASE Rollback
  BY <1>31 DEF Rollback
<1>32. CASE BroadcastSample
  BY <1>32 DEF BroadcastSample
<1>33. CASE BatchDone
  BY <1>33 DEF BatchDone
<1>34. CASE SpuriousWakeup
  BY <1>34 DEF SpuriousWakeup
<1>35. CASE StatsExit
  BY <1>35 DEF StatsExit
<1>36. CASE ClientNext
  <2>1. UNCHANGED <<main, running, open, stats, writer, held, queue, batch, pos, txOpen, tx>>
    BY ONLY <1>36 DEF ClientNext, ClientJoins, ClientQueries, ClientAnswered, ClientLeaves,
        rxVars, writerVars, dbVars
  <2>2. QED
    BY ONLY IInv, <2>1 DEF IInv, ControlInv, StopOpens, StartOpens, ThreadsInv, TurnInv
<1>37. CASE Finished
  BY <1>37 DEF Finished, vars
<1>38. CASE UNCHANGED vars
  BY <1>38 DEF vars
<1>39. QED
  BY <1>1, <1>2, <1>3, <1>4, <1>5, <1>6, <1>7, <1>8, <1>9, <1>10, <1>11, <1>12, <1>13, <1>14, <1>15, <1>16, <1>17, <1>18, <1>19, <1>20, <1>21, <1>22, <1>23, <1>24, <1>25, <1>26, <1>27, <1>28, <1>29, <1>30, <1>31, <1>32, <1>33, <1>34, <1>35, <1>36, <1>37, <1>38 DEF Next, StartNext, StopNext, PushNext, WriterNext

-----------------------------------------------------------------------------
(* Type correctness *)

(* What queue_pop_batch takes and what it leaves are queues of samples. *)
LEMMA PopType ==
    ASSUME TypeOK
    PROVE  /\ PopCount \in 0..Len(queue) /\ PopCount <= BatchSize
           /\ SubSeq(queue, 1, PopCount) \in Seq(Samples)
           /\ Len(SubSeq(queue, 1, PopCount)) = PopCount
           /\ SubSeq(queue, PopCount + 1, Len(queue)) \in Seq(Samples)
<1>1. Len(queue) \in Nat /\ \A k \in 1..Len(queue) : queue[k] \in Samples
  BY LenProperties, ElementOfSeq DEF TypeOK, RxTypeOK
<1>2. PopCount \in 0..Len(queue) /\ PopCount <= BatchSize
  BY <1>1, BatchAssumption DEF PopCount
<1>3. /\ SubSeq(queue, 1, PopCount) \in Seq(Samples)
      /\ Len(SubSeq(queue, 1, PopCount)) = PopCount
  BY <1>1, <1>2, SubSeqProperties
<1>4. SubSeq(queue, PopCount + 1, Len(queue)) \in Seq(Samples)
  BY <1>1, <1>2, SubSeqProperties
<1>5. QED
  BY <1>2, <1>3, <1>4

(* The empty sequence is a queue of samples.                                *)
LEMMA EmptySamples == <<>> \in Seq(Samples) /\ Len(<<>>) = 0
BY EmptySeq

(* The sample at hand in the insert and broadcast loops. *)
LEMMA CurrentSample ==
    ASSUME TypeOK, pos <= Len(batch)
    PROVE  batch[pos] \in Samples
BY LenProperties, ElementOfSeq DEF TypeOK, WriterTypeOK

(* Every step keeps the types, one step of the proof per action.            *)
LEMMA TypeStep ==
    ASSUME IInv, [Next]_vars
    PROVE  TypeOK'
<1> USE DEF IInv, TypeOK, mainVars, rxVars, writerVars, dbVars
<1>1. CASE Boot
  <2>1. MainTypeOK'
    BY <1>1 DEF Boot, MainTypeOK, StartSteps, StopSteps
  <2>2. OutTypeOK'
    BY <1>1, BoundsAssumption DEF Boot, OutTypeOK
  <2>3. QED
    BY <1>1, <2>1, <2>2 DEF Boot, RxTypeOK, WriterTypeOK, DbTypeOK
<1>2. CASE OpenWriter
  <2>1. MainTypeOK'
    BY <1>2 DEF OpenWriter, Opens, MainTypeOK, StartSteps, StopSteps
  <2>2. OutTypeOK'
    BY <1>2, BoundsAssumption DEF OpenWriter, Opens, OutTypeOK, Fault, NoFault
  <2>3. QED
    BY <1>2, <2>1, <2>2 DEF OpenWriter, Opens, RxTypeOK, WriterTypeOK, DbTypeOK
<1>3. CASE OpenReader
  <2>1. MainTypeOK'
    BY <1>3 DEF OpenReader, Opens, MainTypeOK, StartSteps, StopSteps
  <2>2. OutTypeOK'
    BY <1>3, BoundsAssumption DEF OpenReader, Opens, OutTypeOK, Fault, NoFault
  <2>3. QED
    BY <1>3, <2>1, <2>2 DEF OpenReader, Opens, RxTypeOK, WriterTypeOK, DbTypeOK
<1>4. CASE StartWs
  <2>1. MainTypeOK'
    BY <1>4 DEF StartWs, Opens, MainTypeOK, StartSteps, StopSteps
  <2>2. OutTypeOK'
    BY <1>4, BoundsAssumption DEF StartWs, Opens, OutTypeOK, Fault, NoFault
  <2>3. QED
    BY <1>4, <2>1, <2>2 DEF StartWs, Opens, RxTypeOK, WriterTypeOK, DbTypeOK
<1>5. CASE CreateWriter
  <2>1. MainTypeOK'
    BY <1>5 DEF CreateWriter, MainTypeOK, StartSteps, StopSteps
  <2>2. WriterTypeOK'
    BY <1>5, BatchAssumption DEF CreateWriter, WriterTypeOK, WriterSteps, ControlInv, TurnInv
  <2>3. OutTypeOK'
    BY <1>5, BoundsAssumption DEF CreateWriter, OutTypeOK, Fault, NoFault
  <2>4. QED
    BY <1>5, <2>1, <2>2, <2>3 DEF CreateWriter, RxTypeOK, DbTypeOK
<1>6. CASE CreateStats
  <2>1. MainTypeOK'
    BY <1>6 DEF CreateStats, MainTypeOK, StartSteps, StopSteps
  <2>2. QED
    BY <1>6, <2>1 DEF CreateStats, RxTypeOK, WriterTypeOK, DbTypeOK, OutTypeOK
<1>7. CASE Connect
  <2>1. MainTypeOK'
    BY <1>7 DEF Connect, Opens, MainTypeOK, StartSteps, StopSteps
  <2>2. OutTypeOK'
    BY <1>7, BoundsAssumption DEF Connect, Opens, OutTypeOK, Fault, NoFault
  <2>3. QED
    BY <1>7, <2>1, <2>2 DEF Connect, Opens, RxTypeOK, WriterTypeOK, DbTypeOK
<1>8. CASE SetCallbacks
  <2>1. MainTypeOK'
    BY <1>8 DEF SetCallbacks, MainTypeOK, StartSteps, StopSteps
  <2>2. QED
    BY <1>8, <2>1 DEF SetCallbacks, RxTypeOK, WriterTypeOK, DbTypeOK, OutTypeOK
<1>9. CASE Signal
  <2>1. MainTypeOK'
    BY <1>9 DEF Signal, MainTypeOK, StartSteps, StopSteps
  <2>2. QED
    BY <1>9, <2>1 DEF Signal, RxTypeOK, WriterTypeOK, DbTypeOK, OutTypeOK
<1>10. CASE ClearRunning
  <2>1. MainTypeOK'
    BY <1>10 DEF ClearRunning, MainTypeOK, StartSteps, StopSteps
  <2>2. QED
    BY <1>10, <2>1 DEF ClearRunning, RxTypeOK, WriterTypeOK, DbTypeOK, OutTypeOK
<1>11. CASE WakeWriter
  <2>1. MainTypeOK'
    BY <1>11 DEF WakeWriter, MainTypeOK, StartSteps, StopSteps
  <2>2. WriterTypeOK'
    BY <1>11, BatchAssumption DEF WakeWriter, WriterTypeOK, WriterSteps, ControlInv, TurnInv
  <2>3. QED
    BY <1>11, <2>1, <2>2 DEF WakeWriter, RxTypeOK, DbTypeOK, OutTypeOK
<1>12. CASE JoinWriter
  <2>1. MainTypeOK'
    BY <1>12 DEF JoinWriter, MainTypeOK, StartSteps, StopSteps
  <2>2. QED
    BY <1>12, <2>1 DEF JoinWriter, RxTypeOK, WriterTypeOK, DbTypeOK, OutTypeOK
<1>13. CASE JoinStats
  <2>1. MainTypeOK'
    BY <1>13 DEF JoinStats, MainTypeOK, StartSteps, StopSteps
  <2>2. QED
    BY <1>13, <2>1 DEF JoinStats, RxTypeOK, WriterTypeOK, DbTypeOK, OutTypeOK
<1>14. CASE CloseMqtt
  <2>1. MainTypeOK'
    BY <1>14 DEF CloseMqtt, MainTypeOK, StartSteps, StopSteps
  <2>2. QED
    BY <1>14, <2>1 DEF CloseMqtt, RxTypeOK, WriterTypeOK, DbTypeOK, OutTypeOK
<1>15. CASE StopWs
  <2>1. MainTypeOK'
    BY <1>15 DEF StopWs, MainTypeOK, StartSteps, StopSteps
  <2>2. QED
    BY <1>15, <2>1 DEF StopWs, RxTypeOK, WriterTypeOK, DbTypeOK, OutTypeOK
<1>16. CASE CloseReader
  <2>1. MainTypeOK'
    BY <1>16 DEF CloseReader, MainTypeOK, StartSteps, StopSteps
  <2>2. QED
    BY <1>16, <2>1 DEF CloseReader, RxTypeOK, WriterTypeOK, DbTypeOK, OutTypeOK
<1>17. CASE CloseWriter
  <2>1. MainTypeOK'
    BY <1>17 DEF CloseWriter, MainTypeOK, StartSteps, StopSteps
  <2>2. DbTypeOK'
    BY <1>17, EmptySamples DEF CloseWriter, DbTypeOK
  <2>3. QED
    BY <1>17, <2>1, <2>2 DEF CloseWriter, RxTypeOK, WriterTypeOK, OutTypeOK
<1>18. CASE FreeGateway
  <2>1. MainTypeOK'
    BY <1>18 DEF FreeGateway, MainTypeOK, StartSteps, StopSteps
  <2>2. RxTypeOK'
    BY <1>18, EmptySamples DEF FreeGateway, RxTypeOK
  <2>3. WriterTypeOK'
    BY <1>18, BatchAssumption DEF FreeGateway, WriterTypeOK, WriterSteps, ControlInv, TurnInv
  <2>4. OutTypeOK'
    BY <1>18, BoundsAssumption DEF FreeGateway, OutTypeOK
  <2>5. QED
    BY <1>18, <2>1, <2>2, <2>3, <2>4 DEF FreeGateway, DbTypeOK
<1>19. CASE Crash
  <2>1. MainTypeOK'
    BY <1>19 DEF Crash, MainTypeOK, StartSteps, StopSteps
  <2>2. RxTypeOK'
    BY <1>19, EmptySamples DEF Crash, RxTypeOK
  <2>3. WriterTypeOK'
    BY <1>19, EmptySamples, BatchAssumption DEF Crash, WriterTypeOK, WriterSteps, ControlInv, TurnInv
  <2>4. DbTypeOK'
    BY <1>19, EmptySamples DEF Crash, DbTypeOK
  <2>5. OutTypeOK'
    BY <1>19, BoundsAssumption DEF Crash, OutTypeOK
  <2>6. QED
    BY <1>19, <2>1, <2>2, <2>3, <2>4, <2>5 DEF Crash
<1>20. CASE OnMessage
  <2>1. rx + 1 \in Samples /\ rx' \in 0..MaxRx
    BY <1>20, BoundsAssumption DEF OnMessage, RxTypeOK, Samples
  <2>2. RxTypeOK'
    <3>1. <<rx + 1>> \in Seq(Samples) /\ Len(<<rx + 1>>) = 1
      BY <2>1
    <3>2. held' \in Seq(Samples) /\ Len(held') <= 1
      <4>1. held' = <<rx + 1>> \/ held' = held
        BY <1>20 DEF OnMessage
      <4>2. CASE held' = <<rx + 1>>
        BY <3>1, <4>2
      <4>3. CASE held' = held
        BY <4>3 DEF RxTypeOK
      <4>4. QED
        BY <4>1, <4>2, <4>3
    <3>3. queue' \in Seq(Samples)
      BY <1>20 DEF OnMessage, RxTypeOK
    <3>4. QED
      BY <2>1, <3>2, <3>3 DEF RxTypeOK
  <2>3. OutTypeOK'
    BY <1>20, <2>1 DEF OnMessage, OutTypeOK
  <2>4. QED
    BY <1>20, <2>2, <2>3 DEF OnMessage, MainTypeOK, WriterTypeOK, DbTypeOK
<1>21. CASE QueuePush
  <2>1. RxTypeOK'
    BY <1>21, EmptySamples DEF QueuePush, RxTypeOK
  <2>2. WriterTypeOK'
    BY <1>21, BatchAssumption DEF QueuePush, WriterTypeOK, WriterSteps, ControlInv, TurnInv
  <2>3. QED
    BY <1>21, <2>1, <2>2 DEF QueuePush, MainTypeOK, DbTypeOK, OutTypeOK
<1>22. CASE QueuePushFails
  <2>1. RxTypeOK'
    BY <1>22, EmptySamples DEF QueuePushFails, RxTypeOK
  <2>2. OutTypeOK'
    BY <1>22, BoundsAssumption DEF QueuePushFails, OutTypeOK, Fault, NoFault
  <2>3. QED
    BY <1>22, <2>1, <2>2 DEF QueuePushFails, MainTypeOK, WriterTypeOK, DbTypeOK
<1>23. CASE WriterLoop
  <2>1. WriterTypeOK'
    BY <1>23, BatchAssumption DEF WriterLoop, WriterTypeOK, WriterSteps, ControlInv, TurnInv
  <2>2. QED
    BY <1>23, <2>1 DEF WriterLoop, MainTypeOK, RxTypeOK, DbTypeOK, OutTypeOK
<1>24. CASE PopWaits
  <2>1. WriterTypeOK'
    BY <1>24, BatchAssumption DEF PopWaits, WriterTypeOK, WriterSteps, ControlInv, TurnInv
  <2>2. QED
    BY <1>24, <2>1 DEF PopWaits, MainTypeOK, RxTypeOK, DbTypeOK, OutTypeOK
<1>25. CASE PopBatch
  <2>1. RxTypeOK'
    BY <1>25, PopType DEF PopBatch, RxTypeOK
  <2>2. WriterTypeOK'
    BY <1>25, PopType, BatchAssumption DEF PopBatch, WriterTypeOK, WriterSteps, ControlInv, TurnInv
  <2>3. QED
    BY <1>25, <2>1, <2>2 DEF PopBatch, MainTypeOK, DbTypeOK, OutTypeOK
<1>26. CASE BeginTx
  <2>1. WriterTypeOK'
    BY <1>26, BatchAssumption DEF BeginTx, WriterTypeOK, WriterSteps, ControlInv, TurnInv
  <2>2. DbTypeOK'
    BY <1>26 DEF BeginTx, DbTypeOK
  <2>3. QED
    BY <1>26, <2>1, <2>2 DEF BeginTx, MainTypeOK, RxTypeOK, OutTypeOK
<1>27. CASE BeginFails
  <2>1. WriterTypeOK'
    BY <1>27, EmptySamples, BatchAssumption DEF BeginFails, WriterTypeOK, WriterSteps, ControlInv, TurnInv
  <2>2. OutTypeOK'
    BY <1>27, BoundsAssumption DEF BeginFails, OutTypeOK, Fault, NoFault
  <2>3. QED
    BY <1>27, <2>1, <2>2 DEF BeginFails, MainTypeOK, RxTypeOK, DbTypeOK
<1>28. CASE InsertState
  <2>1. WriterTypeOK'
    BY <1>28, BatchAssumption DEF InsertState, WriterTypeOK, WriterSteps, ControlInv, TurnInv
  <2>2. DbTypeOK'
    <3>1. batch[pos] \in Samples
      BY <1>28, CurrentSample DEF InsertState
    <3>2. tx' \in Seq(Samples) /\ db' \in Seq(Samples)
      <4>1. Append(tx, batch[pos]) \in Seq(Samples) /\ Append(db, batch[pos]) \in Seq(Samples)
        BY <3>1 DEF DbTypeOK
      <4>2. QED
        BY <1>28, <4>1 DEF InsertState, DbTypeOK
    <3>3. txOpen' \in BOOLEAN
      BY <1>28 DEF InsertState, DbTypeOK
    <3>4. QED
      BY <3>2, <3>3 DEF DbTypeOK
  <2>3. QED
    BY <1>28, <2>1, <2>2 DEF InsertState, MainTypeOK, RxTypeOK, OutTypeOK
<1>29. CASE InsertFails
  <2>1. WriterTypeOK'
    <3>1. /\ pos <= Len(batch) /\ pos' = pos + 1 /\ ok' = FALSE
          /\ writer' = writer /\ batch' = batch
      BY <1>29 DEF InsertFails
    <3>2. pos' \in 1..(Len(batch') + 1)
      BY <3>1 DEF WriterTypeOK
    <3>3. QED
      BY <3>1, <3>2 DEF WriterTypeOK
  <2>2. DbTypeOK'
    BY <1>29, EmptySamples DEF InsertFails, DbTypeOK
  <2>3. OutTypeOK'
    BY <1>29, BoundsAssumption DEF InsertFails, OutTypeOK, Fault, NoFault
  <2>4. QED
    BY <1>29, <2>1, <2>2, <2>3 DEF InsertFails, MainTypeOK, RxTypeOK
<1>30. CASE Commit
  <2>1. WriterTypeOK'
    BY <1>30, BatchAssumption DEF Commit, WriterTypeOK, WriterSteps, ControlInv, TurnInv
  <2>2. DbTypeOK'
    <3>1. db \o tx \in Seq(Samples)
      BY ConcatProperties DEF DbTypeOK
    <3>2. QED
      BY <1>30, <3>1, EmptySamples DEF Commit, DbTypeOK
  <2>3. OutTypeOK'
    BY <1>30, BoundsAssumption DEF Commit, OutTypeOK, Fault, NoFault
  <2>4. QED
    BY <1>30, <2>1, <2>2, <2>3 DEF Commit, MainTypeOK, RxTypeOK
<1>31. CASE Rollback
  <2>1. WriterTypeOK'
    BY <1>31, BatchAssumption DEF Rollback, WriterTypeOK, WriterSteps, ControlInv, TurnInv
  <2>2. DbTypeOK'
    BY <1>31, EmptySamples DEF Rollback, DbTypeOK
  <2>3. QED
    BY <1>31, <2>1, <2>2 DEF Rollback, MainTypeOK, RxTypeOK, OutTypeOK
<1>32. CASE BroadcastSample
  <2>1. WriterTypeOK'
    BY <1>32, BatchAssumption DEF BroadcastSample, WriterTypeOK, WriterSteps, ControlInv, TurnInv
  <2>2. OutTypeOK'
    <3>1. batch[pos] \in Samples
      BY <1>32, CurrentSample DEF BroadcastSample
    <3>2. Append(live, batch[pos]) \in Seq(Samples)
      BY <3>1 DEF OutTypeOK
    <3>3. live' \in Seq(Samples) /\ heap' \subseteq Samples
      BY <1>32, <3>2 DEF BroadcastSample, OutTypeOK
    <3>4. lives' \in 0..MaxLives /\ faults' \in 0..MaxFaults
      BY <1>32, BoundsAssumption DEF BroadcastSample, OutTypeOK, Fault, NoFault
    <3>5. QED
      BY <3>3, <3>4 DEF OutTypeOK
  <2>3. QED
    BY <1>32, <2>1, <2>2 DEF BroadcastSample, MainTypeOK, RxTypeOK, DbTypeOK
<1>33. CASE BatchDone
  <2>1. WriterTypeOK'
    BY <1>33, EmptySamples, BatchAssumption DEF BatchDone, WriterTypeOK, WriterSteps, ControlInv, TurnInv
  <2>2. QED
    BY <1>33, <2>1 DEF BatchDone, MainTypeOK, RxTypeOK, DbTypeOK, OutTypeOK
<1>34. CASE SpuriousWakeup
  <2>1. WriterTypeOK'
    BY <1>34, BatchAssumption DEF SpuriousWakeup, WriterTypeOK, WriterSteps, ControlInv, TurnInv
  <2>2. QED
    BY <1>34, <2>1 DEF SpuriousWakeup, MainTypeOK, RxTypeOK, DbTypeOK, OutTypeOK
<1>35. CASE StatsExit
  <2>1. MainTypeOK'
    BY <1>35 DEF StatsExit, MainTypeOK, StartSteps, StopSteps
  <2>2. QED
    BY <1>35, <2>1 DEF StatsExit, RxTypeOK, WriterTypeOK, DbTypeOK, OutTypeOK
<1>36. CASE ClientNext
  <2>1. MainTypeOK'
    BY <1>36 DEF ClientNext, ClientJoins, ClientQueries, ClientAnswered, ClientLeaves, MainTypeOK
  <2>2. QED
    BY <1>36, <2>1 DEF ClientNext, ClientJoins, ClientQueries, ClientAnswered, ClientLeaves,
        RxTypeOK, WriterTypeOK, DbTypeOK, OutTypeOK
<1>37. CASE UNCHANGED vars
  BY <1>37 DEF vars, MainTypeOK, RxTypeOK, WriterTypeOK, DbTypeOK, OutTypeOK
<1>38. QED
  BY <1>1, <1>2, <1>3, <1>4, <1>5, <1>6, <1>7, <1>8, <1>9, <1>10, <1>11, <1>12, <1>13, <1>14, <1>15, <1>16, <1>17, <1>18, <1>19, <1>20, <1>21, <1>22, <1>23, <1>24, <1>25, <1>26, <1>27, <1>28, <1>29, <1>30, <1>31, <1>32, <1>33, <1>34, <1>35, <1>36, <1>37
     DEF Next, StartNext, StopNext, PushNext, WriterNext, Finished

(* A gateway that has never been started has its types and its control      *)
(* invariant.                                                               *)
LEMMA IInvInit ==
    ASSUME Init
    PROVE  IInv
<1>1. TypeOK
  <2>1. MainTypeOK
    BY DEF Init, MainTypeOK
  <2>2. RxTypeOK
    <3>1. 0 \in 0..MaxRx /\ Len(<<>>) <= 1
      BY EmptySamples, BoundsAssumption
    <3>2. QED
      BY <3>1, EmptySamples DEF Init, RxTypeOK
  <2>3. WriterTypeOK
    BY EmptySamples, BatchAssumption DEF Init, WriterTypeOK, WriterSteps
  <2>4. DbTypeOK
    BY EmptySamples DEF Init, DbTypeOK
  <2>5. OutTypeOK
    BY EmptySamples, BoundsAssumption DEF Init, OutTypeOK
  <2>6. QED
    BY <2>1, <2>2, <2>3, <2>4, <2>5 DEF TypeOK
<1>2. ControlInv
  BY DEF Init, ControlInv, StopOpens, StartOpens, ThreadsInv, TurnInv
<1>3. QED
  BY <1>1, <1>2 DEF IInv

(* The typing and control invariant holds in every reachable state. *)
THEOREM ControlInvariant == Spec => []IInv
<1>1. Init => IInv
  BY IInvInit
<1>2. IInv /\ [Next]_vars => IInv'
  BY TypeStep, ControlStep DEF IInv
<1>3. QED
  BY <1>1, <1>2, PTL DEF Spec

(* Every variable keeps its type; in particular the writer never takes more *)
(* samples than its batch buffer holds (queue_pop_batch's max).             *)
THEOREM TypeCorrect == Spec => []TypeOK
<1>1. IInv => TypeOK
  BY DEF IInv
<1>2. QED
  BY <1>1, ControlInvariant, PTL

(* No thread that telemetry_gateway_stop joins uses a connection, a server  *)
(* or a gateway that it has closed or freed, on any path.                   *)
THEOREM JoinedThreadsUseOpen == Spec => []JoinedUseOpen
<1>1. IInv => JoinedUseOpen
  BY DEF IInv, TypeOK, MainTypeOK, WriterTypeOK, WriterSteps, ControlInv, StopOpens,
         StartOpens, ThreadsInv, TurnInv, JoinedUseOpen
<1>2. QED
  BY <1>1, ControlInvariant, PTL

-----------------------------------------------------------------------------
(* The condition variable *)

(* A sleeping writer is never left behind: whatever makes the queue         *)
(* non-empty wakes it, and when running has been cleared the broadcast of   *)
(* telemetry_gateway_stop is still to come (queue_push, queue_pop_batch).   *)
THEOREM WriterNotForgotten == Spec => []NoLostWakeup
<1>1. Init => NoLostWakeup
  BY DEF Init, NoLostWakeup
<1>2. ASSUME IInv, NoLostWakeup, [Next]_vars
      PROVE  NoLostWakeup'
  <2> SUFFICES ASSUME writer' = "wait"
               PROVE  queue' = <<>> /\ (running' \/ main' = "wake")
    BY DEF NoLostWakeup
  <2> USE DEF mainVars, rxVars, writerVars, dbVars
  <2>1. CASE PopWaits
    BY <2>1 DEF PopWaits
  <2>2. CASE StartNext
    BY <1>2, <2>2
       DEF StartNext, OpenWriter, OpenReader, StartWs, CreateWriter, CreateStats,
           Connect, SetCallbacks, Opens, NoLostWakeup
  <2>3. CASE StopNext
    <3>1. writer = "wait" => ~(main \in {"joinStats", "closeMqtt", "stopWs", "closeReader",
                                         "closeWriter", "free", "off"})
      BY <1>2 DEF IInv, ControlInv, ThreadsInv
    <3>2. QED
      BY <1>2, <2>3, <3>1
         DEF StopNext, ClearRunning, WakeWriter, JoinWriter, JoinStats, CloseMqtt, StopWs,
             CloseReader, CloseWriter, FreeGateway, NoLostWakeup
  <2>4. CASE QueuePush
    BY <2>4 DEF QueuePush
  <2>5. CASE Boot \/ Signal \/ Crash \/ OnMessage \/ QueuePushFails \/ StatsExit
             \/ ClientNext \/ UNCHANGED vars
    BY <1>2, <2>5 DEF Boot, Signal, Crash, OnMessage, QueuePushFails, StatsExit, ClientNext,
                      ClientJoins, ClientQueries, ClientAnswered, ClientLeaves, vars, NoLostWakeup
  <2>6. CASE SpuriousWakeup \/ WriterLoop \/ PopBatch \/ BeginTx \/ BeginFails
             \/ InsertState \/ InsertFails \/ Commit \/ Rollback \/ BroadcastSample
             \/ BatchDone
    BY <2>6 DEF SpuriousWakeup, WriterLoop, PopBatch, BeginTx, BeginFails, InsertState,
                InsertFails, Commit, Rollback, BroadcastSample, BatchDone
  <2>7. QED
    BY <1>2, <2>1, <2>2, <2>3, <2>4, <2>5, <2>6 DEF Next, WriterNext, PushNext, Finished
<1>3. QED
  BY <1>1, <1>2, ControlInvariant, PTL DEF Spec

-----------------------------------------------------------------------------
(* Elements of the sequences the samples travel through *)

(* The elements of a piece of a sequence. *)
LEMMA RangeOfSubSeq ==
    ASSUME NEW S, NEW s \in Seq(S), NEW m \in Nat \ {0}, NEW n \in 0..Len(s)
    PROVE  Range(SubSeq(s, m, n)) = {s[k] : k \in m..n}
<1>1. DOMAIN s = 1..Len(s) /\ Len(s) \in Nat
  BY LenProperties
<1>2. \A k \in m..n : s[k] \in S
  BY <1>1, ElementOfSeq
<1>3. /\ SubSeq(s, m, n) \in Seq(S)
      /\ Len(SubSeq(s, m, n)) = IF m <= n THEN n - m + 1 ELSE 0
      /\ \A i \in 1..(n - m + 1) : SubSeq(s, m, n)[i] = s[m + i - 1]
  BY <1>1, <1>2, SubSeqProperties
<1>4. DOMAIN SubSeq(s, m, n) = 1..(n - m + 1)
  <2>1. DOMAIN SubSeq(s, m, n) = 1..Len(SubSeq(s, m, n))
    BY <1>3, LenProperties
  <2>2. QED
    BY <1>1, <1>3, <2>1
<1>5. Range(SubSeq(s, m, n)) \subseteq {s[k] : k \in m..n}
  <2>1. ASSUME NEW i \in 1..(n - m + 1)
        PROVE  SubSeq(s, m, n)[i] = s[m + i - 1] /\ m + i - 1 \in m..n
    BY <1>1, <1>3
  <2>2. QED
    BY <1>4, <2>1 DEF Range
<1>6. {s[k] : k \in m..n} \subseteq Range(SubSeq(s, m, n))
  <2>1. ASSUME NEW k \in m..n
        PROVE  s[k] = SubSeq(s, m, n)[k - m + 1] /\ k - m + 1 \in 1..(n - m + 1)
    <3>1. k - m + 1 \in 1..(n - m + 1) /\ m + (k - m + 1) - 1 = k
      BY <1>1
    <3>2. QED
      BY <1>3, <3>1
  <2>2. QED
    BY <1>4, <2>1 DEF Range
<1>7. QED
  BY <1>5, <1>6

(* An empty queue owns nothing.                                             *)
LEMMA RangeOfEmpty == Range(<<>>) = {}
BY DEF Range

-----------------------------------------------------------------------------
(* Raw payload copies *)

(* A gateway that has never been started has allocated nothing.             *)
LEMMA NoLeakInit ==
    ASSUME Init
    PROVE  NoLeak
BY DEF Init, NoLeak

(* The whole batch is unreleased until the broadcast begins, and what the   *)
(* broadcast has not reached from then on.                                  *)
LEMMA UnreleasedRange ==
    ASSUME TypeOK
    PROVE  Range(Unreleased) = IF writer = "broadcast"
                               THEN {batch[k] : k \in pos..Len(batch)}
                               ELSE Range(batch)
<1>1. batch \in Seq(Samples) /\ Len(batch) \in Nat /\ pos \in Nat \ {0}
  BY LenProperties DEF TypeOK, WriterTypeOK
<1>2. Range(SubSeq(batch, pos, Len(batch))) = {batch[k] : k \in pos..Len(batch)}
  BY <1>1, RangeOfSubSeq
<1>3. QED
  BY <1>2 DEF Unreleased

(* Every step keeps every raw copy owned: one that gives samples up frees   *)
(* their copies, and one that moves them moves the ownership.               *)
LEMMA NoLeakStep ==
    ASSUME IInv, TypeOK', NoLeak, [Next]_vars
    PROVE  NoLeak'
<1> USE DEF NoLeak, mainVars, rxVars, writerVars, dbVars
<1>0. /\ TypeOK /\ ControlInv
      /\ held \in Seq(Samples) /\ queue \in Seq(Samples) /\ batch \in Seq(Samples)
      /\ Range(<<>>) = {}
  BY RangeOfEmpty DEF IInv, TypeOK, RxTypeOK, WriterTypeOK
<1>1. CASE OnMessage
  <2>1. UNCHANGED <<queue, Unreleased>>
    BY <1>1 DEF OnMessage, Unreleased
  <2>2. held = <<>>
    BY <1>1 DEF OnMessage
  <2>3. CASE held' = <<rx + 1>> /\ heap' \subseteq heap \cup {rx + 1}
    <3>1. rx + 1 \in Range(held')
      BY <2>3 DEF Range
    <3>2. QED
      BY <1>0, <2>1, <2>2, <2>3, <3>1
  <2>4. CASE UNCHANGED <<held, heap>>
    BY <2>1, <2>4
  <2>5. QED
    BY <1>1, <2>3, <2>4 DEF OnMessage
<1>2. CASE QueuePush
  <2>1. Range(queue') = Range(queue) \cup Range(held)
    BY <1>0, <1>2, RangeConcatenation DEF QueuePush
  <2>2. heap' = heap /\ UNCHANGED Unreleased
    BY <1>2 DEF QueuePush, Unreleased
  <2>3. QED
    BY <2>1, <2>2
<1>3. CASE QueuePushFails
  BY <1>0, <1>3 DEF QueuePushFails, Unreleased
<1>4. CASE PopBatch
  <2>1. PopCount \in 0..Len(queue) /\ Len(queue) \in Nat
    BY <1>0, PopType, LenProperties
  <2>2. Range(batch') = {queue[k] : k \in 1..PopCount}
    <3>1. Range(SubSeq(queue, 1, PopCount)) = {queue[k] : k \in 1..PopCount}
      BY <1>0, <2>1, RangeOfSubSeq
    <3>2. QED
      BY <1>4, <3>1, Zenon DEF PopBatch
  <2>3. Range(queue') = {queue[k] : k \in (PopCount + 1)..Len(queue)}
    <3>1. PopCount + 1 \in Nat \ {0} /\ Len(queue) \in 0..Len(queue)
      BY <2>1
    <3>2. Range(SubSeq(queue, PopCount + 1, Len(queue)))
            = {queue[k] : k \in (PopCount + 1)..Len(queue)}
      BY <1>0, <3>1, RangeOfSubSeq
    <3>3. QED
      BY <1>4, <3>2, Zenon DEF PopBatch
  <2>4. Range(queue) = {queue[k] : k \in 1..Len(queue)}
    BY <1>0, RangeEquality
  <2>5. Range(queue) \subseteq Range(batch') \cup Range(queue')
    <3>1. 1..Len(queue) = 1..PopCount \cup (PopCount + 1)..Len(queue)
      BY <2>1
    <3>2. QED
      BY <2>2, <2>3, <2>4, <3>1
  <2>6. Unreleased = batch /\ batch = <<>> /\ Unreleased' = batch'
    BY <1>0, <1>4 DEF PopBatch, Unreleased, ControlInv, TurnInv
  <2>7. UNCHANGED <<held, heap>>
    BY <1>4 DEF PopBatch
  <2>8. QED
    BY <1>0, <2>5, <2>6, <2>7
<1>5. CASE BeginFails
  BY <1>0, <1>5 DEF BeginFails, Unreleased
<1>6. CASE Commit \/ Rollback
  <2>1. /\ Unreleased = batch
        /\ writer' = "broadcast" /\ pos' = 1 /\ UNCHANGED <<batch, queue, held, heap>>
    BY <1>6 DEF Commit, Rollback, Unreleased
  <2>2. Range(Unreleased') = {batch[k] : k \in 1..Len(batch)}
    <3>1. Unreleased' = SubSeq(batch, 1, Len(batch))
      BY <2>1 DEF Unreleased
    <3>2. Len(batch) \in 0..Len(batch)
      BY <1>0, LenProperties
    <3>3. Range(SubSeq(batch, 1, Len(batch))) = {batch[k] : k \in 1..Len(batch)}
      BY <1>0, <3>2, RangeOfSubSeq
    <3>4. QED
      BY <3>1, <3>3, Zenon
  <2>3. Range(batch) = {batch[k] : k \in 1..Len(batch)}
    BY <1>0, RangeEquality
  <2>4. Range(batch) \subseteq Range(Unreleased')
    BY <2>2, <2>3
  <2>5. QED
    BY <2>1, <2>4
<1>7. CASE BroadcastSample
  <2>1. /\ writer = "broadcast" /\ writer' = "broadcast"
        /\ pos <= Len(batch) /\ pos' = pos + 1
        /\ heap' = heap \ {batch[pos]}
        /\ UNCHANGED <<batch, queue, held>>
    BY <1>7 DEF BroadcastSample
  <2>2. Len(batch) \in Nat /\ pos \in Nat \ {0}
    BY <1>0, LenProperties DEF TypeOK, WriterTypeOK
  <2>3. Range(Unreleased) = {batch[k] : k \in pos..Len(batch)}
    BY <1>0, <2>1, UnreleasedRange
  <2>4. Range(Unreleased') = {batch[k] : k \in (pos + 1)..Len(batch)}
    <3>1. Unreleased' = SubSeq(batch, pos + 1, Len(batch))
      BY <2>1 DEF Unreleased
    <3>2. QED
      BY <1>0, <2>2, <3>1, RangeOfSubSeq
  <2>5. Range(Unreleased) \ {batch[pos]} \subseteq Range(Unreleased')
    <3>1. \A k \in pos..Len(batch) : k = pos \/ k \in (pos + 1)..Len(batch)
      BY <2>2
    <3>2. QED
      BY <2>3, <2>4, <3>1
  <2>6. QED
    BY <2>1, <2>5
<1>8. CASE BatchDone
  <2>1. Range(Unreleased) = {}
    <3>1. pos..Len(batch) = {}
      BY <1>0, <1>8, LenProperties DEF BatchDone, TypeOK, WriterTypeOK
    <3>2. QED
      BY <1>0, <1>8, <3>1, UnreleasedRange DEF BatchDone
  <2>2. QED
    BY <1>0, <1>8, <2>1 DEF BatchDone, Unreleased
<1>9. CASE FreeGateway
  <2>1. held = <<>> /\ batch = <<>> /\ writer # "broadcast"
    BY <1>0, <1>9 DEF FreeGateway, ControlInv, StopOpens, ThreadsInv, TurnInv
  <2>2. QED
    BY <1>0, <1>9, <2>1 DEF FreeGateway, Unreleased
<1>10. CASE Crash
  BY <1>10 DEF Crash
<1>11. CASE UNCHANGED <<heap, queue, held, Unreleased>>
  BY <1>11
<1>12. CASE WakeWriter \/ CreateWriter \/ WriterLoop \/ PopWaits \/ SpuriousWakeup
            \/ BeginTx \/ InsertState \/ InsertFails
  <2>1. UNCHANGED <<heap, queue, held>>
    BY <1>12 DEF WakeWriter, CreateWriter, WriterLoop, PopWaits, SpuriousWakeup, BeginTx,
                 InsertState, InsertFails
  <2>2. UNCHANGED Unreleased
    BY <1>0, <1>12 DEF WakeWriter, CreateWriter, WriterLoop, PopWaits, SpuriousWakeup,
        BeginTx, InsertState, InsertFails, Unreleased, ControlInv, ThreadsInv
  <2>3. QED
    BY <2>1, <2>2
<1>13. CASE StatsExit \/ Boot \/ OpenWriter \/ OpenReader \/ StartWs \/ CreateStats
            \/ Connect \/ SetCallbacks \/ Signal \/ ClearRunning \/ JoinWriter
            \/ JoinStats \/ CloseMqtt \/ StopWs \/ CloseReader \/ CloseWriter \/ ClientNext
  <2>1. UNCHANGED <<heap, queue, held, writer, batch, pos>>
    BY <1>13 DEF ClientNext, ClientJoins, ClientQueries, ClientAnswered, ClientLeaves, StatsExit, Boot, OpenWriter, OpenReader, StartWs, Opens, CreateStats,
        Connect, SetCallbacks, Signal, ClearRunning, JoinWriter, JoinStats, CloseMqtt,
        StopWs, CloseReader, CloseWriter
  <2>2. QED
    BY <2>1 DEF Unreleased
<1>14. CASE UNCHANGED vars
  BY <1>14 DEF vars, Unreleased
<1>15. QED
  BY <1>1, <1>2, <1>3, <1>4, <1>5, <1>6, <1>7, <1>8, <1>9, <1>10, <1>12, <1>13, <1>14
     DEF Next, StartNext, StopNext, PushNext, WriterNext, Finished

(* No raw payload copy is ever without an owner that will free it. *)
THEOREM RawCopiesOwned == Spec => []NoLeak
<1>1. Init => NoLeak
  BY NoLeakInit
<1>2. IInv /\ NoLeak /\ [Next]_vars => NoLeak'
  BY NoLeakStep, TypeStep DEF IInv
<1>3. QED
  BY <1>1, <1>2, ControlInvariant, PTL DEF Spec

=============================================================================
