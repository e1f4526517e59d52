-------------------------- MODULE GatewayStoreProofs --------------------------
(***************************************************************************)
(* Proofs that the gateway settles a batch as a whole and implements       *)
(* SampleStore, when a failed INSERT leaves its transaction open.  (With   *)
(* "insertAbort" the gateway keeps neither promise: the later INSERTs of   *)
(* the batch are durable one by one.)                                      *)
(***************************************************************************)
EXTENDS GatewayOrderProofs

NoAbort == "insertAbort" \notin Faults

(* In a turn of the writer's loop nothing of the batch is in the database   *)
(* before COMMIT, and the transaction holds what was inserted.              *)
TurnWhole ==
    /\ writer \in {"begin", "insert"} =>
          batch # <<>> /\ Range(batch) \cap Range(db) = {}
    /\ writer = "insert" => txOpen /\ (ok => tx = SubSeq(batch, 1, pos - 1))
    /\ SettledWhole

-----------------------------------------------------------------------------
(* A batch is settled as a whole *)

(* Inserting one more sample of a batch makes the inserted part longer.     *)
LEMMA LongerPart ==
    ASSUME NEW s \in Seq(Samples), NEW n \in 1..Len(s)
    PROVE  Append(SubSeq(s, 1, n - 1), s[n]) = SubSeq(s, 1, n)
<1>1. Len(s) \in Nat /\ \A k \in 1..Len(s) : s[k] \in Samples
  BY LenProperties, ElementOfSeq
<1>2. SubSeq(s, 1, n - 1) \in Seq(Samples)
  BY <1>1, SubSeqProperties
<1>3. 1 \in 1..Len(s)
  BY <1>1
<1>4. SubSeq(s, 1, n) = SubSeq(s, 1, n - 1) \o <<s[n]>>
  BY <1>3, SubSeqRecursiveSecond
<1>5. s[n] \in Samples
  BY <1>1
<1>6. Append(SubSeq(s, 1, n - 1), s[n]) = SubSeq(s, 1, n - 1) \o <<s[n]>>
  BY <1>2, <1>5, AppendIsConcat
<1>7. QED
  BY <1>4, <1>6

(* At COMMIT the transaction is the batch. *)
LEMMA CommitsBatch ==
    ASSUME IInv, TurnWhole, Commit
    PROVE  tx = batch /\ batch # <<>>
<1>1. batch \in Seq(Samples) /\ Len(batch) \in Nat /\ pos - 1 = Len(batch)
  BY LenProperties DEF IInv, TypeOK, WriterTypeOK, Commit
<1>2. tx = SubSeq(batch, 1, Len(batch)) /\ batch # <<>>
  BY <1>1 DEF TurnWhole, Commit
<1>3. QED
  BY <1>1, <1>2, SubSeqFull

(* Every step keeps the turn whole when no INSERT aborts its transaction.   *)
LEMMA TurnWholeStep ==
    ASSUME NoAbort, IInv, OrderInv, TurnWhole, [Next]_vars
    PROVE  TurnWhole'
<1> USE DEF mainVars, rxVars, writerVars, dbVars
<1>0. /\ TypeOK /\ ControlInv
      /\ queue \in Seq(Samples) /\ batch \in Seq(Samples)
      /\ tx \in Seq(Samples) /\ db \in Seq(Samples)
      /\ Len(batch) \in Nat /\ pos \in Nat \ {0} /\ Len(queue) \in Nat
  BY LenProperties DEF IInv, TypeOK, RxTypeOK, WriterTypeOK, DbTypeOK
<1>1. CASE PopBatch
  <2>1. /\ batch' = SubSeq(queue, 1, PopCount) /\ UNCHANGED db
        /\ writer' = IF PopCount = 0 THEN "loop" ELSE "begin"
    BY <1>1 DEF PopBatch
  <2>2. Len(SubSeq(queue, 1, PopCount)) = PopCount /\ PopCount \in 0..Len(queue)
    BY <1>0, PopType
  <2>3. writer' = "begin" => batch' # <<>>
    BY <2>1, <2>2, EmptySamples
  <2>4. Range(batch') \subseteq Range(queue)
    BY <1>0, <2>1, <2>2, IncreasingSplit DEF OrderInv, PipeInOrder
  <2>5. Range(queue) \cap Range(db) = {}
    <3>1. Range(db) \subseteq 1..rx
      BY DEF OrderInv, AllReceived
    <3>2. QED
      BY <3>1 DEF OrderInv, RowsInOrder, Waiting, Below
  <2>6. QED
    BY <2>1, <2>3, <2>4, <2>5 DEF TurnWhole, SettledWhole
<1>2. CASE BeginTx
  <2>1. /\ writer = "begin" /\ writer' = "insert" /\ txOpen' /\ pos' = 1
        /\ tx = <<>> /\ UNCHANGED <<batch, tx, db>>
    BY <1>0, <1>2 DEF BeginTx, ControlInv, TurnInv
  <2>2. SubSeq(batch, 1, 0) = <<>>
    BY SubSeqEmpty
  <2>3. SubSeq(batch', 1, pos' - 1) = <<>>
    BY <2>1, <2>2
  <2>4. QED
    BY <2>1, <2>3 DEF TurnWhole, SettledWhole
<1>3. CASE InsertState
  <2>1. /\ writer = "insert" /\ writer' = "insert" /\ pos <= Len(batch) /\ pos' = pos + 1
        /\ txOpen /\ txOpen' /\ tx' = Append(tx, batch[pos])
        /\ UNCHANGED <<batch, db, ok>>
    BY <1>3 DEF InsertState, TurnWhole
  <2>2. ok => tx' = SubSeq(batch, 1, pos' - 1)
    <3>1. pos \in 1..Len(batch) /\ pos' - 1 = pos
      BY <1>0, <2>1
    <3>2. Append(SubSeq(batch, 1, pos - 1), batch[pos]) = SubSeq(batch, 1, pos)
      BY <1>0, <3>1, LongerPart
    <3>3. QED
      BY <2>1, <3>1, <3>2 DEF TurnWhole
  <2>3. QED
    BY <2>1, <2>2 DEF TurnWhole, SettledWhole
<1>4. CASE InsertFails
  <2>1. writer = "insert" /\ UNCHANGED <<writer, batch, db, txOpen>>
    BY <1>4 DEF InsertFails, Fault, NoAbort
  <2>2. ~ok'
    BY <1>4 DEF InsertFails
  <2>3. QED
    BY <2>1, <2>2 DEF TurnWhole, SettledWhole
<1>5. CASE Commit
  <2>1. /\ writer = "insert" /\ writer' = "broadcast" /\ UNCHANGED batch
        /\ db' \in {db, db \o tx}
    BY <1>5 DEF Commit
  <2>2. tx = batch
    BY <1>5, CommitsBatch
  <2>3. Range(db \o batch) = Range(db) \cup Range(batch)
    BY <1>0, RangeConcatenation
  <2>4. QED
    BY <2>1, <2>2, <2>3 DEF TurnWhole, SettledWhole
<1>6. CASE Rollback
  BY <1>6 DEF Rollback, TurnWhole, SettledWhole
<1>7. CASE BeginFails \/ BatchDone \/ Crash \/ FreeGateway
  BY <1>7 DEF BeginFails, BatchDone, Crash, FreeGateway, TurnWhole, SettledWhole
<1>8. CASE WakeWriter \/ CreateWriter \/ WriterLoop \/ PopWaits \/ SpuriousWakeup
           \/ QueuePush
  <2>1. /\ UNCHANGED <<batch, db, tx, txOpen, pos, ok>>
        /\ \/ writer' = writer
           \/ writer' \notin {"begin", "insert", "broadcast"}
    BY <1>8 DEF WakeWriter, CreateWriter, WriterLoop, PopWaits, SpuriousWakeup, QueuePush
  <2>2. QED
    BY <2>1 DEF TurnWhole, SettledWhole
<1>9. CASE CloseWriter
  <2>1. writer \in {"none", "done"} /\ UNCHANGED <<writer, batch, db>>
    BY <1>0, <1>9 DEF CloseWriter, ControlInv, ThreadsInv
  <2>2. QED
    BY <2>1 DEF TurnWhole, SettledWhole
<1>10. CASE \/ ClientNext \/ QueuePushFails \/ StatsExit \/ Boot \/ OpenWriter \/ OnMessage
            \/ OpenReader \/ StartWs \/ CreateStats \/ Connect \/ SetCallbacks \/ Signal
            \/ ClearRunning \/ JoinWriter \/ JoinStats \/ CloseMqtt \/ StopWs
            \/ CloseReader \/ BroadcastSample \/ UNCHANGED vars
  <2>1. /\ UNCHANGED <<writer, batch, db, tx, txOpen, ok>>
        /\ writer = "insert" => pos' = pos
    BY <1>10 DEF ClientNext, ClientJoins, ClientQueries, ClientAnswered,
        ClientLeaves, QueuePushFails, StatsExit, Boot, OpenWriter, OpenReader, OnMessage,
        StartWs, Opens, CreateStats, Connect, SetCallbacks, Signal, ClearRunning,
        JoinWriter, JoinStats, CloseMqtt, StopWs, CloseReader, BroadcastSample, vars
  <2>2. QED
    BY <2>1 DEF TurnWhole, SettledWhole
<1>11. QED
  BY <1>1, <1>2, <1>3, <1>4, <1>5, <1>6, <1>7, <1>8, <1>9, <1>10
     DEF Next, StartNext, StopNext, PushNext, WriterNext, Finished

(* The turn stays whole in every reachable state.                           *)
THEOREM TurnStaysWhole ==
    ASSUME NoAbort
    PROVE  Spec => []TurnWhole
<1>1. Init => TurnWhole
  BY DEF Init, TurnWhole, SettledWhole
<1>2. IInv /\ OrderInv /\ TurnWhole /\ [Next]_vars => TurnWhole'
  BY TurnWholeStep
<1>3. QED
  BY <1>1, <1>2, ControlInvariant, OrderKept, PTL DEF Spec

(* When the writer starts to broadcast a batch, all of it is in the         *)
(* database or none of it, whatever else failed.                            *)
THEOREM BatchSettledWhole ==
    ASSUME NoAbort
    PROVE  Spec => []SettledWhole
<1>1. TurnWhole => SettledWhole
  BY DEF TurnWhole
<1>2. QED
  BY <1>1, TurnStaysWhole, PTL

-----------------------------------------------------------------------------
(* A batch whose transaction SQLite has rolled back *)

(* While every INSERT has succeeded the batch is in the transaction.  After *)
(* the first that failed, the first sample can no longer be inserted.       *)
FirstTurn ==
    /\ writer \in {"begin", "insert", "broadcast"} => batch # <<>>
    /\ writer = "begin" => Range(batch) \cap Range(db) = {}
    /\ writer = "insert" /\ ok =>
          txOpen /\ tx = SubSeq(batch, 1, pos - 1) /\ Range(batch) \cap Range(db) = {}
    /\ writer = "insert" /\ ~ok => pos > 1 /\ batch[1] \notin Range(db)
    /\ FirstDecides

(* The first sample of a batch is one of it, and no later one is the same.  *)
LEMMA FirstOfBatch ==
    ASSUME IInv, batch # <<>>
    PROVE  /\ batch[1] \in Range(batch)
           /\ OrderInv => \A n \in 2..Len(batch) : batch[n] # batch[1]
<1>1. batch \in Seq(Samples) /\ Len(batch) \in Nat \ {0} /\ DOMAIN batch = 1..Len(batch)
  BY EmptySeq, LenProperties DEF IInv, TypeOK, WriterTypeOK
<1>2. 1 \in DOMAIN batch
  BY <1>1
<1>3. ASSUME OrderInv, NEW n \in 2..Len(batch)
      PROVE  batch[n] # batch[1]
  <2>1. n \in DOMAIN batch /\ 1 < n
    BY <1>1, <1>3
  <2>2. batch[1] < batch[n]
    BY <1>2, <1>3, <2>1, Zenon DEF OrderInv, PipeInOrder, Increasing
  <2>3. batch[1] \in Nat
    <3>1. batch[1] \in Samples
      BY <1>1, <1>2, ElementOfSeq
    <3>2. QED
      BY <3>1, BoundsAssumption DEF Samples
  <2>4. QED
    BY <2>2, <2>3
<1>4. QED
  BY <1>2, <1>3 DEF Range

(* Appending a sample adds it to the range.                                 *)
LEMMA RangeOfAppend ==
    ASSUME NEW s \in Seq(Samples), NEW e \in Samples
    PROVE  Range(Append(s, e)) = Range(s) \cup {e}
<1>1. PICK t \in Seq(Samples) : Range(t) = {e} /\ Append(s, e) = s \o t
  <2>1. <<e>> \in Seq(Samples) /\ Range(<<e>>) = {e}
    BY DEF Range
  <2>2. Append(s, e) = s \o <<e>>
    BY AppendIsConcat
  <2>3. QED
    BY <2>1, <2>2, Zenon
<1>2. Range(s \o t) = Range(s) \cup Range(t)
  BY RangeConcatenation
<1>3. QED
  BY <1>1, <1>2

(* Every step, an INSERT that ends its transaction included, keeps it.      *)
LEMMA FirstTurnStep ==
    ASSUME IInv, OrderInv, FirstTurn, [Next]_vars
    PROVE  FirstTurn'
<1> USE DEF mainVars, rxVars, writerVars, dbVars
<1>0. /\ TypeOK /\ ControlInv
      /\ queue \in Seq(Samples) /\ batch \in Seq(Samples)
      /\ tx \in Seq(Samples) /\ db \in Seq(Samples)
      /\ Len(batch) \in Nat /\ pos \in Nat \ {0} /\ Len(queue) \in Nat
  BY LenProperties DEF IInv, TypeOK, RxTypeOK, WriterTypeOK, DbTypeOK
<1>1. CASE PopBatch
  <2>1. /\ batch' = SubSeq(queue, 1, PopCount) /\ UNCHANGED db
        /\ writer' = IF PopCount = 0 THEN "loop" ELSE "begin"
    BY <1>1 DEF PopBatch
  <2>2. Len(SubSeq(queue, 1, PopCount)) = PopCount /\ PopCount \in 0..Len(queue)
    BY <1>0, PopType
  <2>3. writer' = "begin" => batch' # <<>>
    BY <2>1, <2>2, EmptySamples
  <2>4. Range(batch') \subseteq Range(queue)
    BY <1>0, <2>1, <2>2, IncreasingSplit DEF OrderInv, PipeInOrder
  <2>5. Range(db) \subseteq 1..rx
    BY DEF OrderInv, AllReceived
  <2>6. Range(queue) \cap Range(db) = {}
    BY <2>5 DEF OrderInv, RowsInOrder, Waiting, Below
  <2>7. QED
    BY <2>1, <2>3, <2>4, <2>6 DEF FirstTurn, FirstDecides
<1>2. CASE BeginTx
  <2>1. /\ writer = "begin" /\ writer' = "insert" /\ txOpen' /\ pos' = 1 /\ ok'
        /\ tx = <<>> /\ UNCHANGED <<batch, tx, db>>
    BY <1>0, <1>2 DEF BeginTx, ControlInv, TurnInv
  <2>2. SubSeq(batch', 1, pos' - 1) = <<>>
    BY <2>1, SubSeqEmpty
  <2>3. QED
    BY <2>1, <2>2 DEF FirstTurn, FirstDecides
<1>3. CASE InsertState
  <2>1. /\ writer = "insert" /\ writer' = "insert" /\ pos \in 1..Len(batch)
        /\ pos' = pos + 1 /\ UNCHANGED <<batch, ok, txOpen>>
    BY <1>0, <1>3 DEF InsertState
  <2>2. CASE ok
    <3>1. tx' = Append(SubSeq(batch, 1, pos - 1), batch[pos]) /\ UNCHANGED db /\ txOpen
      BY <1>3, <2>1, <2>2 DEF InsertState, FirstTurn
    <3>2. tx' = SubSeq(batch, 1, pos' - 1)
      BY <1>0, <2>1, <3>1, LongerPart
    <3>3. QED
      BY <2>1, <2>2, <3>1, <3>2 DEF FirstTurn, FirstDecides
  <2>3. CASE ~ok
    <3>1. pos \in 2..Len(batch) /\ batch # <<>> /\ batch[1] \notin Range(db)
      BY <2>1, <2>3 DEF FirstTurn
    <3>2. batch[pos] # batch[1] /\ batch[pos] \in Samples
      BY <1>0, <2>1, <3>1, FirstOfBatch, ElementOfSeq
    <3>3. Range(db') \subseteq Range(db) \cup {batch[pos]}
      BY <1>0, <1>3, <3>2, RangeOfAppend DEF InsertState
    <3>4. QED
      BY <2>1, <2>3, <3>1, <3>2, <3>3 DEF FirstTurn, FirstDecides
  <2>4. QED
    BY <1>0, <2>2, <2>3
<1>4. CASE InsertFails
  <2>1. /\ writer = "insert" /\ ~ok' /\ pos' > 1 /\ UNCHANGED <<writer, batch, db>>
    BY <1>0, <1>4 DEF InsertFails
  <2>2. batch # <<>> /\ batch[1] \notin Range(db)
    BY <2>1, FirstOfBatch DEF FirstTurn
  <2>3. QED
    BY <2>1, <2>2 DEF FirstTurn, FirstDecides
<1>5. CASE Commit
  <2>1. /\ writer = "insert" /\ writer' = "broadcast" /\ UNCHANGED batch /\ ok
        /\ db' \in {db, db \o tx} /\ pos - 1 = Len(batch)
    BY <1>0, <1>5 DEF Commit, IInv, TypeOK, WriterTypeOK
  <2>2. tx = batch /\ batch # <<>> /\ Range(batch) \cap Range(db) = {}
    BY <1>0, <2>1, SubSeqFull DEF FirstTurn
  <2>3. Range(db \o batch) = Range(db) \cup Range(batch)
    BY <1>0, RangeConcatenation
  <2>4. batch[1] \in Range(batch)
    BY <2>2, FirstOfBatch
  <2>5. QED
    BY <2>1, <2>2, <2>3, <2>4 DEF FirstTurn, FirstDecides
<1>6. CASE Rollback
  BY <1>6 DEF Rollback, FirstTurn, FirstDecides
<1>7. CASE BeginFails \/ BatchDone \/ Crash \/ FreeGateway
  BY <1>7 DEF BeginFails, BatchDone, Crash, FreeGateway, FirstTurn, FirstDecides
<1>8. CASE WakeWriter \/ CreateWriter \/ WriterLoop \/ PopWaits \/ SpuriousWakeup
           \/ QueuePush
  <2>1. /\ UNCHANGED <<batch, db, tx, txOpen, pos, ok>>
        /\ \/ writer' = writer
           \/ writer' \notin {"begin", "insert", "broadcast"}
    BY <1>8 DEF WakeWriter, CreateWriter, WriterLoop, PopWaits, SpuriousWakeup, QueuePush
  <2>2. QED
    BY <2>1 DEF FirstTurn, FirstDecides
<1>9. CASE CloseWriter
  <2>1. writer \in {"none", "done"} /\ UNCHANGED <<writer, batch, db>>
    BY <1>0, <1>9 DEF CloseWriter, ControlInv, ThreadsInv
  <2>2. QED
    BY <2>1 DEF FirstTurn, FirstDecides
<1>10. CASE \/ ClientNext \/ QueuePushFails \/ StatsExit \/ Boot \/ OpenWriter \/ OnMessage
            \/ OpenReader \/ StartWs \/ CreateStats \/ Connect \/ SetCallbacks \/ Signal
            \/ ClearRunning \/ JoinWriter \/ JoinStats \/ CloseMqtt \/ StopWs
            \/ CloseReader \/ BroadcastSample \/ UNCHANGED vars
  <2>1. /\ UNCHANGED <<writer, batch, db, tx, txOpen, ok>>
        /\ writer = "insert" => pos' = pos
    BY <1>10 DEF ClientNext, ClientJoins, ClientQueries, ClientAnswered,
        ClientLeaves, QueuePushFails, StatsExit, Boot, OpenWriter, OpenReader, OnMessage,
        StartWs, Opens, CreateStats, Connect, SetCallbacks, Signal, ClearRunning,
        JoinWriter, JoinStats, CloseMqtt, StopWs, CloseReader, BroadcastSample, vars
  <2>2. QED
    BY <2>1 DEF FirstTurn, FirstDecides
<1>11. QED
  BY <1>1, <1>2, <1>3, <1>4, <1>5, <1>6, <1>7, <1>8, <1>9, <1>10
     DEF Next, StartNext, StopNext, PushNext, WriterNext, Finished

(* A batch is in the database as a whole, or its first sample is not there, *)
(* whatever fails, SQLite's own rollback included: it takes back all that   *)
(* was inserted of the batch, and only later samples are inserted after it. *)
THEOREM FirstSampleDecides == Spec => []FirstDecides
<1>1. Init => FirstTurn
  BY DEF Init, FirstTurn, FirstDecides
<1>2. IInv /\ OrderInv /\ FirstTurn /\ [Next]_vars => FirstTurn'
  BY FirstTurnStep
<1>3. FirstTurn => FirstDecides
  BY DEF FirstTurn
<1>4. QED
  BY <1>1, <1>2, <1>3, ControlInvariant, OrderKept, PTL DEF Spec

-----------------------------------------------------------------------------
(* The gateway implements SampleStore *)

(* What waits, as the refinement mapping of Store has it.                   *)
Pending == (IF writer \in {"begin", "insert"} THEN batch ELSE <<>>) \o queue

(* The two halves of a concatenation.                                       *)
LEMMA ConcatHalves ==
    ASSUME NEW s \in Seq(Samples), NEW t \in Seq(Samples)
    PROVE  /\ SubSeq(s \o t, 1, Len(s)) = s
           /\ SubSeq(s \o t, Len(s) + 1, Len(s \o t)) = t
<1>1. /\ s \o t \in Seq(Samples) /\ Len(s) \in Nat /\ Len(t) \in Nat
      /\ Len(s \o t) = Len(s) + Len(t)
      /\ \A i \in 1..Len(s) : (s \o t)[i] = s[i] /\ (s \o t)[i] \in Samples
      /\ \A i \in 1..Len(t) : (s \o t)[Len(s) + i] = t[i]
      /\ \A i \in (Len(s) + 1)..(Len(s) + Len(t)) : (s \o t)[i] \in Samples
  BY ConcatProperties, LenProperties, ElementOfSeq
<1>2. SubSeq(s \o t, 1, Len(s)) = s
  <2>1. /\ SubSeq(s \o t, 1, Len(s)) \in Seq(Samples)
        /\ Len(SubSeq(s \o t, 1, Len(s))) = Len(s)
        /\ \A i \in 1..Len(s) : SubSeq(s \o t, 1, Len(s))[i] = s[i]
    BY <1>1, SubSeqProperties
  <2>2. QED
    BY <2>1, SeqEqual
<1>3. SubSeq(s \o t, Len(s) + 1, Len(s \o t)) = t
  <2>1. /\ SubSeq(s \o t, Len(s) + 1, Len(s \o t)) \in Seq(Samples)
        /\ Len(SubSeq(s \o t, Len(s) + 1, Len(s \o t))) = Len(t)
        /\ \A i \in 1..Len(t) : SubSeq(s \o t, Len(s) + 1, Len(s \o t))[i] = t[i]
    BY <1>1, SubSeqProperties
  <2>2. QED
    BY <2>1, SeqEqual
<1>4. QED
  BY <1>2, <1>3

(* The end of a transaction, however it ends, settles the batch.            *)
LEMMA TurnSettles ==
    ASSUME IInv, TurnWhole, writer \in {"begin", "insert"},
           writer' \notin {"begin", "insert"}, UNCHANGED queue,
           db' \in {db, db \o batch}
    PROVE  Store!Settle
<1>1. /\ batch \in Seq(Samples) /\ queue \in Seq(Samples) /\ batch # <<>>
      /\ Len(batch) \in Nat \ {0} /\ Len(queue) \in Nat
  BY EmptySeq, LenProperties DEF IInv, TypeOK, WriterTypeOK, RxTypeOK, TurnWhole
<1>2. Pending = batch \o queue /\ Pending' = queue
  BY <1>1, ConcatEmptySeq DEF Pending
<1>3. Len(batch) \in 1..Len(batch \o queue)
  BY <1>1, ConcatProperties
<1>4. /\ queue = SubSeq(batch \o queue, Len(batch) + 1, Len(batch \o queue))
      /\ batch = SubSeq(batch \o queue, 1, Len(batch))
  BY <1>1, ConcatHalves
<1>5. \E k \in 1..Len(Pending) :
        /\ Pending' = SubSeq(Pending, k + 1, Len(Pending))
        /\ db' \in {db, db \o SubSeq(Pending, 1, k)}
  BY <1>2, <1>3, <1>4
<1>6. QED
  BY <1>5 DEF Store!Settle, Pending

(* The callback holds one sample when it holds any. *)
LEMMA OneSample ==
    ASSUME NEW s \in Seq(Samples), s # <<>>, Len(s) <= 1
    PROVE  \E e \in Samples : s = <<e>> /\ e \in Range(s)
<1>1. Len(s) \in Nat \ {0} /\ Len(s) <= 1
  BY EmptySeq
<1>2. Len(s) = 1
  BY <1>1
<1>3. s[1] \in Samples /\ DOMAIN s = {1}
  BY <1>2, LenProperties, ElementOfSeq
<1>4. s = <<s[1]>> /\ s[1] \in Range(s)
  BY <1>2, <1>3 DEF Range
<1>5. QED
  BY <1>3, <1>4

(* Every step of the gateway is a step of SampleStore, or none: a message   *)
(* is accepted when it is queued, a batch is settled when its transaction   *)
(* ends or does not begin, and a stop or a crash loses the rest.            *)
LEMMA StoreStep ==
    ASSUME IInv, OrderInv, TurnWhole, TurnWhole', [Next]_vars, NoAbort
    PROVE  [Store!StoreNext]_(Store!sVars)
<1> USE DEF mainVars, rxVars, writerVars, dbVars
<1>0. /\ TypeOK /\ ControlInv
      /\ held \in Seq(Samples) /\ queue \in Seq(Samples) /\ batch \in Seq(Samples)
      /\ <<>> \in Seq(Samples)
      /\ Len(batch) \in Nat /\ Len(queue) \in Nat
  BY LenProperties, EmptySamples DEF IInv, TypeOK, RxTypeOK, WriterTypeOK
<1>1. UNCHANGED <<Pending, db>> => UNCHANGED Store!sVars
  BY DEF Pending, Store!sVars
<1>2. CASE QueuePush
  <2>1. /\ held # <<>> /\ queue' = queue \o held /\ UNCHANGED <<batch, db>>
        /\ writer' \in {"begin", "insert"} <=> writer \in {"begin", "insert"}
    BY <1>2 DEF QueuePush
  <2>2. PICK s \in Samples : held = <<s>> /\ s \in Range(held)
    BY <1>0, <2>1, OneSample DEF TypeOK, RxTypeOK
  <2>3. PICK b \in Seq(Samples) :
          /\ b \in {batch, <<>>}
          /\ Pending = b \o queue
          /\ Pending' = b \o (queue \o held)
    BY <1>0, <2>1 DEF Pending
  <2>4. b \o queue \in Seq(Samples) /\ Range(b \o queue) = Range(b) \cup Range(queue)
    BY <1>0, RangeConcatenation, ConcatProperties
  <2>5. Pending' = Append(Pending, s)
    <3>1. b \o (queue \o held) = (b \o queue) \o held
      BY <1>0, ConcatAssociative
    <3>2. Append(b \o queue, s) = (b \o queue) \o <<s>>
      BY <2>4, AppendIsConcat
    <3>3. QED
      BY <2>2, <2>3, <3>1, <3>2
  <2>6. \A old \in Range(Pending) \cup Range(db) : old < s
    <3>1. Range(b) \subseteq Range(batch)
      BY <2>3, RangeOfEmpty
    <3>2. QED
      BY <2>2, <2>3, <2>4, <3>1
         DEF OrderInv, PipeInOrder, RowsInOrder, Waiting, Below
  <2>7. Store!Accept
    BY <2>1, <2>5, <2>6 DEF Store!Accept, Pending, Range, Store!Range
  <2>8. QED
    BY <2>7 DEF Store!StoreNext
<1>3. CASE PopBatch
  <2>1. /\ writer = "pop" /\ UNCHANGED db
        /\ batch' = SubSeq(queue, 1, PopCount)
        /\ queue' = SubSeq(queue, PopCount + 1, Len(queue))
        /\ writer' = IF PopCount = 0 THEN "loop" ELSE "begin"
    BY <1>3 DEF PopBatch
  <2>2. Pending = queue
    BY <1>0, <2>1, ConcatEmptySeq DEF Pending
  <2>3. CASE PopCount = 0
    <3>1. Pending' = <<>> \o queue /\ <<>> \o queue = queue
      BY <1>0, <2>1, <2>3, SubSeqFull, ConcatEmptySeq DEF Pending
    <3>2. QED
      BY <1>1, <2>1, <2>2, <3>1
  <2>4. CASE PopCount # 0
    <3>1. PopCount \in 0..Len(queue)
      BY <1>0, PopType
    <3>2. SubSeq(queue, 1, PopCount) \o SubSeq(queue, PopCount + 1, Len(queue)) = queue
      BY <1>0, <3>1, SplitConcat
    <3>3. Pending' = queue
      BY <2>1, <2>4, <3>2 DEF Pending
    <3>4. QED
      BY <1>1, <2>1, <2>2, <3>3
  <2>5. QED
    BY <2>3, <2>4
<1>4. CASE BeginFails \/ Rollback
  <2>1. /\ writer \in {"begin", "insert"} /\ writer' \notin {"begin", "insert"}
        /\ UNCHANGED <<queue, db>>
    BY <1>4 DEF BeginFails, Rollback
  <2>2. QED
    BY <2>1, TurnSettles DEF Store!StoreNext
<1>5. CASE Commit
  <2>1. tx = batch
    BY <1>5, CommitsBatch
  <2>2. /\ writer \in {"begin", "insert"} /\ writer' \notin {"begin", "insert"}
        /\ UNCHANGED queue /\ db' \in {db, db \o batch}
    BY <1>5, <2>1 DEF Commit
  <2>3. QED
    BY <2>2, TurnSettles DEF Store!StoreNext
<1>6. CASE FreeGateway \/ Crash
  <2>1. queue' = <<>> /\ writer' = "none" /\ UNCHANGED db
    BY <1>6 DEF FreeGateway, Crash
  <2>2. Pending' = <<>>
    BY <1>0, <2>1, ConcatEmptySeq DEF Pending
  <2>3. QED
    BY <2>1, <2>2 DEF Pending, Store!StoreNext, Store!Lose
<1>7. CASE InsertState \/ InsertFails \/ BeginTx
  <2>1. /\ writer \in {"begin", "insert"} /\ writer' \in {"begin", "insert"}
        /\ UNCHANGED <<batch, queue, db>>
    BY <1>7 DEF InsertState, InsertFails, BeginTx, TurnWhole
  <2>2. QED
    BY <1>1, <2>1 DEF Pending
<1>8. CASE \/ BatchDone \/ BroadcastSample \/ WakeWriter \/ CreateWriter \/ WriterLoop
           \/ PopWaits \/ SpuriousWakeup
  <2>1. /\ UNCHANGED <<queue, db>>
        /\ \/ UNCHANGED <<writer, batch>>
           \/ /\ writer \notin {"begin", "insert"}
              /\ writer' \notin {"begin", "insert"}
    BY <1>0, <1>8 DEF BatchDone, BroadcastSample, WakeWriter, CreateWriter, WriterLoop,
       PopWaits, SpuriousWakeup, ControlInv, ThreadsInv
  <2>2. QED
    BY <1>1, <2>1 DEF Pending
<1>9. CASE \/ ClientNext \/ QueuePushFails \/ StatsExit \/ Boot \/ OpenWriter \/ OnMessage
           \/ OpenReader \/ StartWs \/ CreateStats \/ Connect \/ SetCallbacks \/ Signal
           \/ ClearRunning \/ JoinWriter \/ JoinStats \/ CloseMqtt \/ StopWs
           \/ CloseReader \/ CloseWriter \/ UNCHANGED vars
  <2>1. UNCHANGED <<writer, batch, queue, db>>
    BY <1>9 DEF ClientNext, ClientJoins, ClientQueries, ClientAnswered,
        ClientLeaves, QueuePushFails, StatsExit, Boot, OpenWriter, OpenReader, OnMessage,
       StartWs, Opens, CreateStats, Connect, SetCallbacks, Signal, ClearRunning,
       JoinWriter, JoinStats, CloseMqtt, StopWs, CloseReader, CloseWriter, vars
  <2>2. QED
    BY <1>1, <2>1 DEF Pending
<1>10. QED
  BY <1>2, <1>3, <1>4, <1>5, <1>6, <1>7, <1>8, <1>9
     DEF Next, StartNext, StopNext, PushNext, WriterNext, Finished

(* The gateway implements SampleStore.                                      *)
THEOREM ImplementsStore ==
    ASSUME NoAbort
    PROVE  Spec => StoreRefined
<1>1. Init => Store!StoreInit
  <2>1. ASSUME Init PROVE Pending = <<>>
    BY <2>1, EmptySamples, ConcatEmptySeq DEF Init, Pending
  <2>2. QED
    BY <2>1 DEF Init, Pending, Store!StoreInit
<1>2. IInv /\ OrderInv /\ TurnWhole /\ TurnWhole' /\ [Next]_vars
        => [Store!StoreNext]_(Store!sVars)
  BY StoreStep
<1>3. QED
  BY <1>1, <1>2, ControlInvariant, OrderKept, TurnStaysWhole, PTL
     DEF Spec, StoreRefined, Store!StoreSpec

=============================================================================
