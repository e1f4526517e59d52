-------------------------- MODULE GatewayOrderProofs --------------------------
(***************************************************************************)
(* Proofs about the order in which samples travel through Gateway, and     *)
(* that Gateway implements SampleStore.                                    *)
(***************************************************************************)
EXTENDS GatewayProofs

Below(S, T) == \A a \in S, b \in T : a < b

-----------------------------------------------------------------------------
(* Increasing sequences *)

(* A sequence increases if its two parts do and all of the first part is    *)
(* below all of the second.                                                 *)
LEMMA IncreasingConcat ==
    ASSUME NEW s \in Seq(Samples), NEW t \in Seq(Samples)
    PROVE  Increasing(s \o t)
             <=> Increasing(s) /\ Increasing(t) /\ Below(Range(s), Range(t))
<1>1. /\ Len(s) \in Nat /\ DOMAIN s = 1..Len(s)
      /\ Len(t) \in Nat /\ DOMAIN t = 1..Len(t)
  BY LenProperties
<1>2. /\ DOMAIN (s \o t) = 1..(Len(s) + Len(t))
      /\ \A i \in 1..Len(s) : (s \o t)[i] = s[i]
      /\ \A j \in 1..Len(t) : (s \o t)[Len(s) + j] = t[j]
  BY <1>1, ConcatProperties, LenProperties
<1>3. Below(Range(s), Range(t)) <=> \A i \in 1..Len(s), j \in 1..Len(t) : s[i] < t[j]
  BY <1>1 DEF Below, Range
<1>4. ASSUME Increasing(s \o t)
      PROVE  Increasing(s) /\ Increasing(t) /\ Below(Range(s), Range(t))
  <2>1. Increasing(s)
    BY <1>1, <1>2, <1>4 DEF Increasing
  <2>2. ASSUME NEW i \in 1..Len(t), NEW j \in 1..Len(t), i < j
        PROVE  t[i] < t[j]
    <3>1. /\ Len(s) + i \in 1..(Len(s) + Len(t)) /\ Len(s) + j \in 1..(Len(s) + Len(t))
          /\ Len(s) + i < Len(s) + j
      BY <1>1, <2>2
    <3>2. (s \o t)[Len(s) + i] < (s \o t)[Len(s) + j]
      BY <1>2, <1>4, <3>1 DEF Increasing
    <3>3. QED
      BY <1>2, <3>2
  <2>3. ASSUME NEW i \in 1..Len(s), NEW j \in 1..Len(t)
        PROVE  s[i] < t[j]
    <3>1. /\ i \in 1..(Len(s) + Len(t)) /\ Len(s) + j \in 1..(Len(s) + Len(t))
          /\ i < Len(s) + j
      BY <1>1
    <3>2. (s \o t)[i] < (s \o t)[Len(s) + j]
      BY <1>2, <1>4, <3>1 DEF Increasing
    <3>3. QED
      BY <1>2, <3>2
  <2>4. Increasing(t)
    BY <1>1, <2>2 DEF Increasing
  <2>5. QED
    BY <1>3, <2>1, <2>3, <2>4
<1>5. ASSUME Increasing(s), Increasing(t), Below(Range(s), Range(t)),
             NEW i \in 1..(Len(s) + Len(t)), NEW j \in 1..(Len(s) + Len(t)), i < j
      PROVE  (s \o t)[i] < (s \o t)[j]
  <2>1. CASE j <= Len(s)
    <3>1. i \in 1..Len(s) /\ j \in 1..Len(s)
      BY <1>1, <1>5, <2>1
    <3>2. QED
      BY <1>1, <1>2, <1>5, <3>1 DEF Increasing
  <2>2. CASE i <= Len(s) /\ j > Len(s)
    <3>1. i \in 1..Len(s) /\ j - Len(s) \in 1..Len(t) /\ Len(s) + (j - Len(s)) = j
      BY <1>1, <2>2
    <3>2. (s \o t)[i] = s[i] /\ (s \o t)[j] = t[j - Len(s)]
      BY <1>2, <3>1
    <3>3. s[i] < t[j - Len(s)]
      BY <1>3, <1>5, <3>1
    <3>4. QED
      BY <3>2, <3>3
  <2>3. CASE i > Len(s)
    <3>1. /\ i - Len(s) \in 1..Len(t) /\ j - Len(s) \in 1..Len(t)
          /\ Len(s) + (i - Len(s)) = i /\ Len(s) + (j - Len(s)) = j
          /\ i - Len(s) < j - Len(s)
      BY <1>1, <1>5, <2>3
    <3>2. (s \o t)[i] = t[i - Len(s)] /\ (s \o t)[j] = t[j - Len(s)]
      BY <1>2, <3>1
    <3>3. t[i - Len(s)] < t[j - Len(s)]
      BY <1>1, <1>5, <3>1 DEF Increasing
    <3>4. QED
      BY <3>2, <3>3
  <2>4. QED
    BY <1>1, <2>1, <2>2, <2>3
<1>6. QED
  BY <1>2, <1>4, <1>5 DEF Increasing

(* A sequence of at most one sample increases.                              *)
LEMMA IncreasingShort ==
    ASSUME NEW s \in Seq(Samples), Len(s) <= 1
    PROVE  Increasing(s)
BY LenProperties DEF Increasing

(* Appending a sample that is above all others keeps the order.             *)
LEMMA IncreasingAppend ==
    ASSUME NEW s \in Seq(Samples), NEW e \in Samples,
           Increasing(s), Below(Range(s), {e})
    PROVE  /\ Increasing(Append(s, e))
           /\ Range(Append(s, e)) = Range(s) \cup {e}
<1>1. PICK t \in Seq(Samples) :
        Len(t) = 1 /\ Range(t) = {e} /\ Append(s, e) = s \o t
  <2>1. <<e>> \in Seq(Samples) /\ Len(<<e>>) = 1 /\ Range(<<e>>) = {e}
    BY DEF Range
  <2>2. Append(s, e) = s \o <<e>>
    BY AppendIsConcat
  <2>3. QED
    BY <2>1, <2>2, Zenon
<1>2. Increasing(t)
  BY <1>1, IncreasingShort
<1>3. Increasing(s \o t)
  BY <1>1, <1>2, IncreasingConcat
<1>4. Range(s \o t) = Range(s) \cup Range(t)
  BY RangeConcatenation
<1>5. QED
  BY <1>1, <1>3, <1>4

(* The first n samples of a sequence and the others make it up.             *)
LEMMA SplitConcat ==
    ASSUME NEW s \in Seq(Samples), NEW n \in 0..Len(s)
    PROVE  /\ SubSeq(s, 1, n) \in Seq(Samples)
           /\ SubSeq(s, n + 1, Len(s)) \in Seq(Samples)
           /\ SubSeq(s, 1, n) \o SubSeq(s, n + 1, Len(s)) = s
<1>1. Len(s) \in Nat /\ DOMAIN s = 1..Len(s) /\ \A k \in 1..Len(s) : s[k] \in Samples
  BY LenProperties, ElementOfSeq
<1>2. /\ SubSeq(s, 1, n) \in Seq(Samples)
      /\ SubSeq(s, n + 1, Len(s)) \in Seq(Samples)
  BY <1>1, SubSeqProperties
<1>3. 1 \in 1..(Len(s) + 1) /\ n \in (1 - 1)..Len(s) /\ Len(s) \in n..Len(s)
  BY <1>1
<1>4. SubSeq(s, 1, n) \o SubSeq(s, n + 1, Len(s)) = SubSeq(s, 1, Len(s))
  BY <1>3, ConcatAdjacentSubSeq
<1>5. QED
  BY <1>2, <1>4, SubSeqFull

(* The first n samples of an increasing sequence and the others increase,   *)
(* and are below one another.                                               *)
LEMMA IncreasingSplit ==
    ASSUME NEW s \in Seq(Samples), NEW n \in 0..Len(s), Increasing(s)
    PROVE  /\ Increasing(SubSeq(s, 1, n)) /\ Increasing(SubSeq(s, n + 1, Len(s)))
           /\ Below(Range(SubSeq(s, 1, n)), Range(SubSeq(s, n + 1, Len(s))))
           /\ Range(SubSeq(s, 1, n)) \cup Range(SubSeq(s, n + 1, Len(s))) = Range(s)
<1>1. ASSUME NEW u \in Seq(Samples), NEW v \in Seq(Samples), u \o v = s
      PROVE  /\ Increasing(u) /\ Increasing(v) /\ Below(Range(u), Range(v))
             /\ Range(u) \cup Range(v) = Range(s)
  BY <1>1, IncreasingConcat, RangeConcatenation
<1>2. QED
  BY <1>1, SplitConcat, Zenon

-----------------------------------------------------------------------------
(* The order invariant                                                      *)

(* What may still be received later than the rows and the batch.            *)
Waiting == Range(queue) \cup Range(held)

(* What the writer may still insert in this turn of its loop. *)
ToInsert == IF writer = "broadcast" THEN {}
                                    ELSE {batch[k] : k \in pos..Len(batch)}

(* The pipeline: the batch was received before the queue, and the queue     *)
(* before the sample in the callback.                                       *)
PipeInOrder == /\ Increasing(batch) /\ Increasing(queue)
               /\ Below(Range(batch), Waiting)
               /\ Below(Range(queue), Range(held))

(* The rows, then those of the transaction, then what is still to insert. *)
RowsInOrder == /\ Increasing(db) /\ Increasing(tx)
               /\ Below(Range(db), Range(tx))
               /\ Below(Range(db), ToInsert) /\ Below(Range(tx), ToInsert)
               /\ Below(Range(db), Waiting) /\ Below(Range(tx), Waiting)

(* What the clients were shown, then what is still to broadcast. *)
LiveInOrder == /\ Increasing(live)
               /\ Below(Range(live), Range(Unreleased))
               /\ Below(Range(live), Waiting)

(* Nothing is anywhere that was not received. *)
AllReceived == \A s \in {batch, queue, held, tx, db, live} : Range(s) \subseteq 1..rx

OrderInv == PipeInOrder /\ RowsInOrder /\ LiveInOrder /\ AllReceived

(* An empty sequence increases and holds nothing.                           *)
LEMMA NothingIncreases == Increasing(<<>>) /\ Range(<<>>) = {}
BY RangeOfEmpty DEF Increasing

(* Nothing is anywhere before the first start. *)
LEMMA OrderInit ==
    ASSUME Init
    PROVE  OrderInv
<1>1. Increasing(<<>>) /\ Range(<<>>) = {}
  BY NothingIncreases
<1>2. ToInsert = {} /\ Unreleased = <<>>
  BY EmptySamples DEF Init, ToInsert, Unreleased
<1>3. QED
  BY <1>1, <1>2 DEF Init, OrderInv, PipeInOrder, RowsInOrder, LiveInOrder, AllReceived,
                    Waiting, Below

(* A step that only gives samples up keeps the order: stops, crashes,       *)
(* failures, and the ends of a turn are such steps.                         *)
LEMMA OrderShrinks ==
    ASSUME OrderInv, UNCHANGED <<rx, db, live>>,
           batch' \in {batch, <<>>}, queue' \in {queue, <<>>},
           held' \in {held, <<>>}, tx' \in {tx, <<>>},
           ToInsert' \subseteq ToInsert,
           Range(Unreleased') \subseteq Range(Unreleased)
    PROVE  OrderInv'
<1>1. Increasing(<<>>) /\ Range(<<>>) = {}
  BY NothingIncreases
<1>2. /\ Range(batch') \subseteq Range(batch) /\ Range(queue') \subseteq Range(queue)
      /\ Range(held') \subseteq Range(held) /\ Range(tx') \subseteq Range(tx)
      /\ Waiting' \subseteq Waiting
  BY <1>1 DEF Waiting
<1>3. Increasing(batch') /\ Increasing(queue') /\ Increasing(tx')
  BY <1>1 DEF OrderInv, PipeInOrder, RowsInOrder
<1>4. PipeInOrder'
  BY <1>2, <1>3 DEF OrderInv, PipeInOrder, Below
<1>5. RowsInOrder'
  BY <1>2, <1>3 DEF OrderInv, RowsInOrder, Below
<1>6. LiveInOrder'
  BY <1>2 DEF OrderInv, LiveInOrder, Below
<1>7. AllReceived'
  BY <1>2 DEF OrderInv, AllReceived
<1>8. QED
  BY <1>4, <1>5, <1>6, <1>7 DEF OrderInv

(* Every step keeps the order: a message is newer than everything, and the  *)
(* samples that move on are the oldest of where they were.                  *)
LEMMA OrderStep ==
    ASSUME IInv, TypeOK', OrderInv, [Next]_vars
    PROVE  OrderInv'
<1> USE DEF mainVars, rxVars, writerVars, dbVars
<1>0. /\ TypeOK /\ ControlInv
      /\ held \in Seq(Samples) /\ queue \in Seq(Samples) /\ batch \in Seq(Samples)
      /\ tx \in Seq(Samples) /\ db \in Seq(Samples) /\ live \in Seq(Samples)
      /\ Range(<<>>) = {} /\ Increasing(<<>>)
      /\ rx \in Nat /\ Len(batch) \in Nat /\ pos \in Nat \ {0}
  <2>1. /\ TypeOK /\ ControlInv
        /\ held \in Seq(Samples) /\ queue \in Seq(Samples) /\ batch \in Seq(Samples)
        /\ tx \in Seq(Samples) /\ db \in Seq(Samples) /\ live \in Seq(Samples)
    BY DEF IInv, TypeOK, RxTypeOK, WriterTypeOK, DbTypeOK, OutTypeOK
  <2>2. rx \in Nat /\ Len(batch) \in Nat /\ pos \in Nat \ {0}
    BY <2>1, LenProperties DEF TypeOK, RxTypeOK, WriterTypeOK
  <2>3. QED
    BY <2>1, <2>2, NothingIncreases
<1>1. CASE OnMessage
  <2>1. UNCHANGED <<batch, queue, db, tx, live, ToInsert, Unreleased>> /\ rx' = rx + 1
    BY <1>1 DEF OnMessage, ToInsert, Unreleased
  <2>2. Range(held') \subseteq {rx + 1}
    BY <1>0, <1>1 DEF OnMessage, Range
  <2>3. /\ Range(batch) \subseteq 1..rx /\ Range(queue) \subseteq 1..rx
        /\ Range(db) \subseteq 1..rx /\ Range(tx) \subseteq 1..rx
        /\ Range(live) \subseteq 1..rx
    BY DEF OrderInv, AllReceived
  <2>4. \A S : S \subseteq 1..rx => Below(S, {rx + 1}) /\ S \subseteq 1..(rx + 1)
    BY <1>0 DEF Below
  <2>5. PipeInOrder'
    BY <2>1, <2>2, <2>3, <2>4 DEF OrderInv, PipeInOrder, Below, Waiting
  <2>6. RowsInOrder'
    BY <2>1, <2>2, <2>3, <2>4 DEF OrderInv, RowsInOrder, Below, Waiting
  <2>7. LiveInOrder'
    BY <2>1, <2>2, <2>3, <2>4 DEF OrderInv, LiveInOrder, Below, Waiting
  <2>8. AllReceived'
    <3>1. Range(held') \subseteq 1..(rx + 1)
      BY <1>0, <2>2
    <3>2. QED
      BY <2>1, <2>3, <2>4, <3>1 DEF AllReceived
  <2>9. QED
    BY <2>5, <2>6, <2>7, <2>8 DEF OrderInv
<1>2. CASE QueuePush
  <2>1. /\ UNCHANGED <<rx, batch, db, tx, live, ToInsert, Unreleased>>
        /\ queue' = queue \o held /\ held' = <<>>
    BY <1>2 DEF QueuePush, ToInsert, Unreleased
  <2>2. Increasing(held)
    BY <1>0, IncreasingShort DEF TypeOK, RxTypeOK
  <2>3. Increasing(queue') /\ Range(queue') = Range(queue) \cup Range(held)
    <3>1. Increasing(queue \o held)
      BY <1>0, <2>2, IncreasingConcat DEF OrderInv, PipeInOrder
    <3>2. Range(queue \o held) = Range(queue) \cup Range(held)
      BY <1>0, RangeConcatenation
    <3>3. QED
      BY <2>1, <3>1, <3>2
  <2>4. Waiting' = Waiting
    BY <1>0, <2>1, <2>3 DEF Waiting
  <2>5. QED
    BY <1>0, <2>1, <2>3, <2>4
       DEF OrderInv, PipeInOrder, RowsInOrder, LiveInOrder, AllReceived, Below
<1>3. CASE PopBatch
  <2>1. /\ batch' = SubSeq(queue, 1, PopCount)
        /\ queue' = SubSeq(queue, PopCount + 1, Len(queue))
        /\ UNCHANGED <<rx, held, pos, db, tx, live>>
        /\ batch = <<>> /\ pos = 1 /\ writer # "broadcast" /\ writer' # "broadcast"
    BY <1>0, <1>3 DEF PopBatch, ControlInv, TurnInv
  <2>2. PopCount \in 0..Len(queue)
    BY <1>0, PopType
  <2>3. /\ Increasing(batch') /\ Increasing(queue')
        /\ Below(Range(batch'), Range(queue'))
        /\ Range(batch') \cup Range(queue') = Range(queue)
    BY <1>0, <2>1, <2>2, IncreasingSplit DEF OrderInv, PipeInOrder
  <2>4. ToInsert' = Range(batch') /\ Unreleased' = batch'
    <3>1. ToInsert' = {batch'[k] : k \in 1..Len(batch')} /\ Unreleased' = batch'
      BY <2>1 DEF ToInsert, Unreleased
    <3>2. batch' \in Seq(Samples)
      BY DEF TypeOK, WriterTypeOK
    <3>3. QED
      BY <3>1, <3>2, RangeEquality
  <2>5. PipeInOrder'
    BY <2>1, <2>3 DEF OrderInv, PipeInOrder, Below, Waiting
  <2>6. RowsInOrder'
    BY <2>1, <2>3, <2>4 DEF OrderInv, RowsInOrder, Below, Waiting
  <2>7. LiveInOrder'
    BY <2>1, <2>3, <2>4 DEF OrderInv, LiveInOrder, Below, Waiting
  <2>8. AllReceived'
    BY <2>1, <2>3 DEF OrderInv, AllReceived
  <2>9. QED
    BY <2>5, <2>6, <2>7, <2>8 DEF OrderInv
<1>4. CASE InsertState
  <2> DEFINE e == batch[pos]
  <2>1. /\ pos <= Len(batch) /\ pos' = pos + 1 /\ writer = "insert"
        /\ UNCHANGED <<rx, batch, queue, held, live, writer, Unreleased, Waiting>>
        /\ \/ tx' = Append(tx, e) /\ db' = db
           \/ db' = Append(db, e) /\ tx' = tx /\ tx = <<>>
    BY <1>0, <1>4 DEF InsertState, Unreleased, Waiting, ControlInv, TurnInv
  <2>2. e \in Samples /\ e \in Range(batch) /\ e \in ToInsert
    <3>1. pos \in 1..Len(batch) /\ pos \in pos..Len(batch)
      BY <1>0, <2>1
    <3>2. QED
      BY <1>0, <2>1, <3>1, CurrentSample, RangeEquality DEF ToInsert
  <2>3. Below({e}, ToInsert') /\ ToInsert' \subseteq ToInsert
    <3>1. ToInsert' = {batch[k] : k \in (pos + 1)..Len(batch)}
      BY <2>1 DEF ToInsert
    <3>2. \A k \in (pos + 1)..Len(batch) : e < batch[k]
      <4>1. /\ DOMAIN batch = 1..Len(batch) /\ pos \in 1..Len(batch)
            /\ \A k \in (pos + 1)..Len(batch) : k \in 1..Len(batch) /\ pos < k
        BY <1>0, <2>1, LenProperties
      <4>2. Increasing(batch)
        BY DEF OrderInv, PipeInOrder
      <4>3. QED
        BY <4>1, <4>2 DEF Increasing
    <3>3. ToInsert = {batch[k] : k \in pos..Len(batch)}
      BY <2>1 DEF ToInsert
    <3>4. (pos + 1)..Len(batch) \subseteq pos..Len(batch)
      BY <1>0
    <3>5. QED
      BY <3>1, <3>2, <3>3, <3>4 DEF Below
  <2>4. Below({e}, Waiting) /\ e \in 1..rx
    BY <2>2 DEF OrderInv, PipeInOrder, AllReceived, Below
  <2>5. CASE tx' = Append(tx, e) /\ db' = db
    <3>1. Below(Range(tx), {e}) /\ Below(Range(db), {e})
      BY <2>2 DEF OrderInv, RowsInOrder, Below
    <3>2. Increasing(tx') /\ Range(tx') = Range(tx) \cup {e}
      BY <1>0, <2>2, <2>5, <3>1, IncreasingAppend DEF OrderInv, RowsInOrder
    <3>3. RowsInOrder'
      BY <2>1, <2>3, <2>4, <2>5, <3>1, <3>2 DEF OrderInv, RowsInOrder, Below
    <3>4. AllReceived'
      BY <2>1, <2>4, <2>5, <3>2 DEF OrderInv, AllReceived
    <3>5. QED
      BY <2>1, <3>3, <3>4 DEF OrderInv, PipeInOrder, LiveInOrder
  <2>6. CASE db' = Append(db, e) /\ tx' = tx /\ tx = <<>>
    <3>1. Below(Range(db), {e})
      BY <2>2 DEF OrderInv, RowsInOrder, Below
    <3>2. Increasing(db') /\ Range(db') = Range(db) \cup {e}
      BY <1>0, <2>2, <2>6, <3>1, IncreasingAppend DEF OrderInv, RowsInOrder
    <3>3. RowsInOrder'
      BY <1>0, <2>1, <2>3, <2>4, <2>6, <3>2 DEF OrderInv, RowsInOrder, Below
    <3>4. AllReceived'
      BY <2>1, <2>4, <2>6, <3>2 DEF OrderInv, AllReceived
    <3>5. QED
      BY <2>1, <3>3, <3>4 DEF OrderInv, PipeInOrder, LiveInOrder
  <2>7. QED
    BY <2>1, <2>5, <2>6
<1>5. CASE Commit
  <2>1. /\ UNCHANGED <<rx, batch, queue, held, live>>
        /\ \/ db' = db \o tx /\ tx' = <<>>
           \/ db' = db /\ tx' \in {tx, <<>>}
        /\ writer' = "broadcast" /\ writer # "broadcast" /\ pos' = 1
    BY <1>5 DEF Commit
  <2>2. ToInsert' = {} /\ Range(Unreleased') = Range(Unreleased)
    <3>1. Unreleased = batch /\ Unreleased' = SubSeq(batch, 1, Len(batch)) /\ ToInsert' = {}
      BY <2>1 DEF Unreleased, ToInsert
    <3>2. SubSeq(batch, 1, Len(batch)) = batch
      BY <1>0, SubSeqFull
    <3>3. QED
      BY <3>1, <3>2
  <2>3. CASE db' = db \o tx /\ tx' = <<>>
    <3>1. Increasing(db')
      <4>1. Increasing(db \o tx)
        BY <1>0, IncreasingConcat DEF OrderInv, RowsInOrder
      <4>2. QED
        BY <2>3, <4>1
    <3>2. Range(db') = Range(db) \cup Range(tx)
      BY <1>0, <2>3, RangeConcatenation
    <3>3. RowsInOrder'
      BY <1>0, <2>1, <2>2, <2>3, <3>1, <3>2 DEF OrderInv, RowsInOrder, Below, Waiting
    <3>4. PipeInOrder' /\ LiveInOrder'
      BY <2>1, <2>2 DEF OrderInv, PipeInOrder, LiveInOrder, Waiting
    <3>5. AllReceived'
      BY <1>0, <2>1, <2>3, <3>2 DEF OrderInv, AllReceived
    <3>6. QED
      BY <3>3, <3>4, <3>5 DEF OrderInv
  <2>4. CASE db' = db /\ tx' \in {tx, <<>>}
    BY <2>1, <2>2, <2>4, OrderShrinks
  <2>5. QED
    BY <2>1, <2>3, <2>4
<1>6. CASE BroadcastSample
  <2> DEFINE e == batch[pos]
  <2>1. /\ writer = "broadcast" /\ writer' = "broadcast"
        /\ pos <= Len(batch) /\ pos' = pos + 1
        /\ live' \in {Append(live, e), live}
        /\ UNCHANGED <<rx, batch, queue, held, db, tx, ToInsert, Waiting>>
    BY <1>6 DEF BroadcastSample, ToInsert, Waiting
  <2>2. Range(Unreleased) = {batch[k] : k \in pos..Len(batch)}
    BY <1>0, <2>1, UnreleasedRange
  <2>3. Range(Unreleased') = {batch[k] : k \in (pos + 1)..Len(batch)}
    <3>1. Unreleased' = SubSeq(batch, pos + 1, Len(batch))
      BY <2>1 DEF Unreleased
    <3>2. QED
      BY <1>0, <3>1, RangeOfSubSeq
  <2>4. e \in Samples /\ e \in Range(batch) /\ e \in Range(Unreleased)
    <3>1. pos \in 1..Len(batch) /\ pos \in pos..Len(batch)
      BY <1>0, <2>1
    <3>2. QED
      BY <1>0, <2>1, <2>2, <3>1, CurrentSample, RangeEquality
  <2>5. Below({e}, Range(Unreleased')) /\ Range(Unreleased') \subseteq Range(Unreleased)
    <3>1. \A k \in (pos + 1)..Len(batch) : e < batch[k]
      <4>1. /\ DOMAIN batch = 1..Len(batch) /\ pos \in 1..Len(batch)
            /\ \A k \in (pos + 1)..Len(batch) : k \in 1..Len(batch) /\ pos < k
        BY <1>0, <2>1, LenProperties
      <4>2. Increasing(batch)
        BY DEF OrderInv, PipeInOrder
      <4>3. QED
        BY <4>1, <4>2 DEF Increasing
    <3>2. (pos + 1)..Len(batch) \subseteq pos..Len(batch)
      BY <1>0
    <3>3. QED
      BY <2>2, <2>3, <3>1, <3>2 DEF Below
  <2>6. Below({e}, Waiting) /\ e \in 1..rx
    BY <2>4 DEF OrderInv, PipeInOrder, AllReceived, Below
  <2>7. CASE live' = Append(live, e)
    <3>1. Below(Range(live), {e})
      BY <2>4 DEF OrderInv, LiveInOrder, Below
    <3>2. Increasing(live') /\ Range(live') = Range(live) \cup {e}
      BY <1>0, <2>4, <2>7, <3>1, IncreasingAppend DEF OrderInv, LiveInOrder
    <3>3. LiveInOrder'
      BY <2>1, <2>5, <2>6, <3>2 DEF OrderInv, LiveInOrder, Below
    <3>4. AllReceived'
      BY <2>1, <2>6, <3>2 DEF OrderInv, AllReceived
    <3>5. QED
      BY <2>1, <3>3, <3>4 DEF OrderInv, PipeInOrder, RowsInOrder
  <2>8. CASE live' = live
    BY <2>1, <2>5, <2>8, OrderShrinks
  <2>9. QED
    BY <2>1, <2>7, <2>8
<1>7. CASE InsertFails
  <2>1. /\ UNCHANGED <<rx, batch, queue, held, db, live, Unreleased>>
        /\ tx' \in {tx, <<>>} /\ pos' = pos + 1 /\ writer = "insert" /\ writer' = "insert"
    BY <1>7 DEF InsertFails, Unreleased
  <2>2. ToInsert' \subseteq ToInsert
    <3>1. (pos + 1)..Len(batch) \subseteq pos..Len(batch)
      BY <1>0
    <3>2. QED
      BY <2>1, <3>1 DEF ToInsert
  <2>3. QED
    BY <2>1, <2>2, OrderShrinks
<1>8. CASE Rollback
  <2>1. /\ UNCHANGED <<rx, batch, queue, held, db, live>>
        /\ tx' = <<>> /\ writer = "insert" /\ writer' = "broadcast" /\ pos' = 1
    BY <1>8 DEF Rollback
  <2>2. ToInsert' = {} /\ Unreleased = batch /\ Unreleased' = SubSeq(batch, 1, Len(batch))
    BY <2>1 DEF ToInsert, Unreleased
  <2>3. SubSeq(batch, 1, Len(batch)) = batch
    BY <1>0, SubSeqFull
  <2>4. QED
    BY <2>1, <2>2, <2>3, OrderShrinks
<1>9. CASE BeginFails \/ BatchDone \/ Crash
  <2>1. /\ UNCHANGED <<rx, db, live>> /\ batch' = <<>> /\ writer' # "broadcast"
        /\ queue' \in {queue, <<>>} /\ held' \in {held, <<>>} /\ tx' \in {tx, <<>>}
        /\ pos' = 1
    BY <1>9 DEF BeginFails, BatchDone, Crash
  <2>2. ToInsert' = {} /\ Range(Unreleased') = {}
    BY <1>0, <2>1, EmptySamples DEF ToInsert, Unreleased
  <2>3. QED
    BY <2>1, <2>2, OrderShrinks
<1>10. CASE \/ BeginTx \/ WakeWriter \/ CreateWriter \/ WriterLoop \/ PopWaits
            \/ SpuriousWakeup \/ FreeGateway
  <2>1. /\ UNCHANGED <<rx, db, live, batch, held, tx>> /\ queue' \in {queue, <<>>}
        /\ pos' = pos /\ (writer' = "broadcast" <=> writer = "broadcast")
    BY <1>0, <1>10 DEF BeginTx, WakeWriter, CreateWriter, WriterLoop, PopWaits,
       SpuriousWakeup, FreeGateway, ControlInv, TurnInv, ThreadsInv
  <2>2. UNCHANGED <<ToInsert, Unreleased>>
    BY <2>1 DEF ToInsert, Unreleased
  <2>3. QED
    BY <2>1, <2>2, OrderShrinks
<1>11. CASE \/ ClientNext \/ QueuePushFails \/ CloseWriter \/ StatsExit \/ Boot \/ OpenWriter
            \/ OpenReader \/ StartWs \/ CreateStats \/ Connect \/ SetCallbacks \/ Signal
            \/ ClearRunning \/ JoinWriter \/ JoinStats \/ CloseMqtt \/ StopWs
            \/ CloseReader
  <2>1. /\ UNCHANGED <<rx, db, live, batch, queue, writer, pos>>
        /\ held' \in {held, <<>>} /\ tx' \in {tx, <<>>}
    BY <1>11 DEF ClientNext, ClientJoins, ClientQueries, ClientAnswered,
        ClientLeaves, QueuePushFails, CloseWriter, StatsExit, Boot, OpenWriter, OpenReader,
        StartWs, Opens, CreateStats, Connect, SetCallbacks, Signal, ClearRunning,
        JoinWriter, JoinStats, CloseMqtt, StopWs, CloseReader
  <2>2. UNCHANGED <<ToInsert, Unreleased>>
    BY <2>1 DEF ToInsert, Unreleased
  <2>3. QED
    BY <2>1, <2>2, OrderShrinks
<1>12. CASE UNCHANGED vars
  <2>1. UNCHANGED <<rx, db, live, batch, queue, held, tx, ToInsert, Unreleased>>
    BY <1>12 DEF vars, ToInsert, Unreleased
  <2>2. QED
    BY <2>1, OrderShrinks
<1>13. QED
  BY <1>1, <1>2, <1>3, <1>4, <1>5, <1>6, <1>7, <1>8, <1>9, <1>10, <1>11, <1>12
     DEF Next, StartNext, StopNext, PushNext, WriterNext, Finished

(* The order invariant holds in every reachable state.                      *)
THEOREM OrderKept == Spec => []OrderInv
<1>1. Init => OrderInv
  BY OrderInit
<1>2. IInv /\ IInv' /\ OrderInv /\ [Next]_vars => OrderInv'
  BY OrderStep DEF IInv
<1>3. QED
  BY <1>1, <1>2, ControlInvariant, PTL DEF Spec

(* Samples travel in the order they were received and never twice, through  *)
(* the pipeline, into the database and to the clients, whatever fails and   *)
(* across restarts.                                                         *)
THEOREM SamplesInOrder == Spec => []InOrder
<1>1. IInv /\ OrderInv => InOrder
  <2> SUFFICES ASSUME IInv, OrderInv
               PROVE  Increasing(batch \o queue \o held)
    BY DEF OrderInv, RowsInOrder, LiveInOrder, InOrder
  <2>1. /\ held \in Seq(Samples) /\ queue \in Seq(Samples) /\ batch \in Seq(Samples)
        /\ Len(held) <= 1
    BY DEF IInv, TypeOK, RxTypeOK, WriterTypeOK
  <2>2. Increasing(held)
    BY <2>1, IncreasingShort
  <2>3. batch \o queue \in Seq(Samples) /\ Increasing(batch \o queue)
    BY <2>1, IncreasingConcat, ConcatProperties
       DEF OrderInv, PipeInOrder, Waiting, Below
  <2>4. Range(batch \o queue) = Range(batch) \cup Range(queue)
    BY <2>1, RangeConcatenation
  <2>5. Below(Range(batch \o queue), Range(held))
    BY <2>4 DEF OrderInv, PipeInOrder, Waiting, Below
  <2>6. QED
    BY <2>1, <2>2, <2>3, <2>5, IncreasingConcat
<1>2. QED
  BY <1>1, ControlInvariant, OrderKept, PTL

=============================================================================
