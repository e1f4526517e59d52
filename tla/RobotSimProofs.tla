---------------------------- MODULE RobotSimProofs ----------------------------
(***************************************************************************)
(* Proofs about RobotSim for every number of cycles, messages and failures.*)
(***************************************************************************)
EXTENDS RobotSim, SequenceTheorems, TLAPS

(* Where a sensor thread and the publisher can be. *)
PlaceInv ==
    /\ \A s \in Sensors : th[s] \in {"none", "connect", "loop", "set", "rest", "done"}
    /\ th["state"] \in {"none", "connect", "loop", "get", "copy", "send", "done"}

(* The cache's lock is held by the thread that is between the two halves of *)
(* its access.                                                              *)
LockInv == /\ \A s \in Sensors : th[s] = "rest" <=> mu = s
           /\ th["state"] = "copy" <=> mu = "state"

(* Threads are started and joined in the one order; a thread that was not   *)
(* started is nowhere, and one that was joined has ended.                   *)
JoinInv == /\ \A i \in 1..Len(Order) : i > started => th[Order[i]] = "none"
           /\ \A i \in 1..Len(Order) : i <= joined => th[Order[i]] = "done"
           /\ main = "start" => started < Len(Order)
           /\ main = "gone" => joined = started

(* Outside the lock no part of the cache is torn, and seq is the number of  *)
(* updates in it.                                                           *)
CacheInv ==
    /\ \A s \in Sensors :
         /\ cycle[s] = cache[s].last + (IF th[s] \in {"set", "rest"} THEN 1 ELSE 0)
         /\ cache[s].first = IF th[s] = "rest" THEN cycle[s] ELSE cache[s].last
    /\ seq = Total([s \in Sensors |-> cache[s].last])

Whole(m) == /\ \A s \in Sensors : m.parts[s].first = m.parts[s].last
            /\ m.seq = Total([s \in Sensors |-> m.parts[s].last])

(* The copy that is taken under the lock is a state the cache had, and so   *)
(* is every copy on its way to the gateway.                                 *)
CopyInv ==
    /\ th["state"] = "copy" => \A s \in {"imu", "tilt"} : snap.parts[s] = cache[s]
    /\ th["state"] = "send" => Whole(snap)
    /\ \A i \in 1..Len(net) : Whole(net[i])
    /\ Whole(got)

NotNewer(a, b) == \A s \in Sensors : a[s].last <= b[s].last

(* From the gateway to the cache the copies grow newer, in every part.      *)
AgeInv ==
    /\ \A i, j \in 1..Len(net) : i <= j => NotNewer(net[i].parts, net[j].parts)
    /\ \A i \in 1..Len(net) : NotNewer(got.parts, net[i].parts)
    /\ th["state"] = "send" =>
         /\ NotNewer(got.parts, snap.parts)
         /\ \A i \in 1..Len(net) : NotNewer(net[i].parts, snap.parts)
         /\ NotNewer(snap.parts, cache)
    /\ NotNewer(got.parts, cache)
    /\ \A i \in 1..Len(net) : NotNewer(net[i].parts, cache)

IInv == TypeOK /\ PlaceInv /\ LockInv /\ JoinInv /\ CacheInv /\ CopyInv /\ AgeInv

-----------------------------------------------------------------------------
(* Helpers *)

(* The order of main names every thread once.                               *)
LEMMA OrderOnce ==
    /\ Len(Order) = 5
    /\ \A i \in 1..5 : Order[i] \in Threads
    /\ \A i, j \in 1..5 : Order[i] = Order[j] => i = j
    /\ \A t \in Threads : \E i \in 1..5 : Order[i] = t
<1>1. /\ Len(Order) = 5
      /\ Order[1] = "imu" /\ Order[2] = "tilt" /\ Order[3] = "motor1"
      /\ Order[4] = "motor2" /\ Order[5] = "state"
  BY DEF Order
<1>2. \A i \in 1..5 : i = 1 \/ i = 2 \/ i = 3 \/ i = 4 \/ i = 5
  OBVIOUS
<1>3. \A i \in 1..5 : Order[i] \in Threads
  BY <1>1, <1>2 DEF Threads, Sensors
<1>4. \A i, j \in 1..5 : Order[i] = Order[j] => i = j
  BY <1>1, <1>2
<1>5. \A t \in Threads : \E i \in 1..5 : Order[i] = t
  <2>1. 1 \in 1..5 /\ 2 \in 1..5 /\ 3 \in 1..5 /\ 4 \in 1..5 /\ 5 \in 1..5
    OBVIOUS
  <2>2. QED
    BY <1>1, <2>1 DEF Threads, Sensors
<1>6. QED
  BY <1>1, <1>3, <1>4, <1>5

(* More updates of one sensor and no fewer of the others are more in all.   *)
LEMMA TotalGrows ==
    ASSUME NEW f \in [Sensors -> Nat], NEW g \in [Sensors -> Nat],
           \A s \in Sensors : f[s] <= g[s], \E s \in Sensors : f[s] # g[s]
    PROVE  Total(g) > Total(f)
<1>1. PICK s \in Sensors : f[s] # g[s]
  OBVIOUS
<1>2. \A r \in Sensors : f[r] \in Nat /\ g[r] \in Nat
  OBVIOUS
<1>3. f[s] < g[s]
  BY <1>1, <1>2
<1>4. CASE s = "imu"
  BY <1>2, <1>3, <1>4 DEF Total, Sensors
<1>5. CASE s = "tilt"
  BY <1>2, <1>3, <1>5 DEF Total, Sensors
<1>6. CASE s = "motor1"
  BY <1>2, <1>3, <1>6 DEF Total, Sensors
<1>7. CASE s = "motor2"
  BY <1>2, <1>3, <1>7 DEF Total, Sensors
<1>8. QED
  BY <1>4, <1>5, <1>6, <1>7 DEF Sensors

(* Messages of a queue, one more and one less. *)
LEMMA QueueStep ==
    ASSUME NEW S, NEW q \in Seq(S)
    PROVE  /\ Len(q) \in Nat /\ \A i \in 1..Len(q) : q[i] \in S
           /\ \A m \in S : /\ Append(q, m) \in Seq(S) /\ Len(Append(q, m)) = Len(q) + 1
                           /\ \A i \in 1..Len(q) : Append(q, m)[i] = q[i]
                           /\ Append(q, m)[Len(q) + 1] = m
           /\ q # <<>> => /\ Head(q) = q[1] /\ 1 \in 1..Len(q)
                          /\ Tail(q) \in Seq(S) /\ Len(Tail(q)) = Len(q) - 1
                          /\ \A i \in 1..(Len(q) - 1) : Tail(q)[i] = q[i + 1]
<1>1. Len(q) \in Nat /\ \A i \in 1..Len(q) : q[i] \in S
  BY LenProperties, ElementOfSeq
<1>2. ASSUME NEW m \in S
      PROVE  /\ Append(q, m) \in Seq(S) /\ Len(Append(q, m)) = Len(q) + 1
             /\ \A i \in 1..Len(q) : Append(q, m)[i] = q[i]
             /\ Append(q, m)[Len(q) + 1] = m
  BY <1>1, AppendProperties
<1>3. ASSUME q # <<>>
      PROVE  /\ Head(q) = q[1] /\ 1 \in 1..Len(q)
             /\ Tail(q) \in Seq(S) /\ Len(Tail(q)) = Len(q) - 1
             /\ \A i \in 1..(Len(q) - 1) : Tail(q)[i] = q[i + 1]
  <2>1. Len(q) \in Nat \ {0}
    BY <1>3, EmptySeq
  <2>2. /\ Tail(q) \in Seq(S) /\ Len(Tail(q)) = Len(q) - 1
        /\ \A i \in 1..Len(Tail(q)) : Tail(q)[i] = q[i + 1]
    BY <1>3, HeadTailProperties
  <2>3. Head(q) = q[1]
    BY <1>3
  <2>4. QED
    BY <2>1, <2>2, <2>3
<1>4. QED
  BY <1>1, <1>2, <1>3

-----------------------------------------------------------------------------
(* The threads and the lock *)

(* Every step keeps every thread at a place of its own code.                *)
LEMMA PlaceStep ==
    ASSUME IInv, [Next]_vars
    PROVE  PlaceInv' /\ th' \in [Threads -> {"none", "connect", "loop", "set", "rest",
                                             "get", "copy", "send", "done"}]
<1> USE DEF mainVars, cacheVars, netVars
<1>0. /\ th \in [Threads -> {"none", "connect", "loop", "set", "rest", "get",
                             "copy", "send", "done"}]
      /\ PlaceInv
  BY DEF IInv, TypeOK
<1>1. CASE StartThread
  <2>1. started + 1 \in 1..5
    BY <1>1, OrderOnce DEF StartThread, IInv, TypeOK, JoinInv
  <2>2. Order[started + 1] \in Threads /\ th' = [th EXCEPT ![Order[started + 1]] = "connect"]
    BY <1>1, <2>1, OrderOnce DEF StartThread, Goto
  <2>3. QED
    BY <1>0, <2>2 DEF PlaceInv, Threads, Sensors
<1>2. ASSUME NEW t \in Threads, Connect(t) \/ LoopEnds(t)
      PROVE  PlaceInv' /\ th' \in [Threads -> {"none", "connect", "loop", "set", "rest",
                                               "get", "copy", "send", "done"}]
  <2>1. th' \in {[th EXCEPT ![t] = "loop"], [th EXCEPT ![t] = "done"]}
    BY <1>2 DEF Connect, LoopEnds, Goto
  <2>2. QED
    BY <1>0, <2>1 DEF PlaceInv, Threads, Sensors
<1>3. ASSUME NEW s \in Sensors, Measure(s) \/ SetFirst(s) \/ SetRest(s)
      PROVE  PlaceInv' /\ th' \in [Threads -> {"none", "connect", "loop", "set", "rest",
                                               "get", "copy", "send", "done"}]
  <2>1. th' \in {[th EXCEPT ![s] = "set"], [th EXCEPT ![s] = "rest"],
                 [th EXCEPT ![s] = "loop"]}
    BY <1>3 DEF Measure, SetFirst, SetRest, Goto
  <2>2. QED
    BY <1>0, <2>1 DEF PlaceInv, Threads, Sensors
<1>4. CASE BeginState \/ GetFirst \/ GetRest \/ NoMemory \/ Publish
  <2>1. th' \in {[th EXCEPT !["state"] = "get"], [th EXCEPT !["state"] = "copy"],
                 [th EXCEPT !["state"] = "send"], [th EXCEPT !["state"] = "loop"]}
    BY <1>4 DEF BeginState, GetFirst, GetRest, NoMemory, Publish, Goto
  <2>2. QED
    BY <1>0, <2>1 DEF PlaceInv, Threads, Sensors
<1>5. CASE Signal \/ StartFails \/ JoinThread \/ Return \/ Deliver \/ Lose \/ UNCHANGED vars
  <2>1. th' = th
    BY <1>5 DEF Signal, StartFails, JoinThread, Return, Deliver, Lose, vars
  <2>2. QED
    BY <1>0, <2>1 DEF PlaceInv
<1>6. QED
  BY <1>1, <1>2, <1>3, <1>4, <1>5
     DEF Next, MainNext, ImuThread, TiltThread, Motor1Thread, Motor2Thread, SensorNext,
         StateNext, Threads, Sensors

(* Every step keeps the lock with the thread that works under it.           *)
LEMMA LockStep ==
    ASSUME IInv, [Next]_vars
    PROVE  LockInv' /\ mu' \in Threads \cup {"free"}
<1> USE DEF mainVars, cacheVars, netVars
<1>0. /\ th \in [Threads -> {"none", "connect", "loop", "set", "rest", "get",
                             "copy", "send", "done"}]
      /\ mu \in Threads \cup {"free"} /\ PlaceInv /\ LockInv
  BY DEF IInv, TypeOK
<1>1. CASE StartThread
  <2>1. started + 1 \in 1..5
    BY <1>1, OrderOnce DEF StartThread, IInv, TypeOK, JoinInv
  <2>2. Order[started + 1] \in Threads /\ th' = [th EXCEPT ![Order[started + 1]] = "connect"]
    BY <1>1, <2>1, OrderOnce DEF StartThread, Goto
  <2>3. th[Order[started + 1]] = "none"
    BY <2>1, OrderOnce DEF IInv, TypeOK, JoinInv
  <2>4. mu' = mu
    BY <1>1 DEF StartThread
  <2>5. QED
    BY <1>0, <2>2, <2>3, <2>4 DEF LockInv, Threads, Sensors
<1>2. ASSUME NEW t \in Threads, Connect(t) \/ LoopEnds(t)
      PROVE  LockInv' /\ mu' \in Threads \cup {"free"}
  <2>1. /\ th' \in {[th EXCEPT ![t] = "loop"], [th EXCEPT ![t] = "done"]}
        /\ th[t] \in {"connect", "loop"} /\ mu' = mu
    BY <1>2 DEF Connect, LoopEnds, Goto
  <2>2. QED
    BY <1>0, <2>1 DEF LockInv, Threads, Sensors
<1>3. ASSUME NEW s \in Sensors, Measure(s) \/ SetFirst(s) \/ SetRest(s)
      PROVE  LockInv' /\ mu' \in Threads \cup {"free"}
  BY <1>0, <1>3 DEF Measure, SetFirst, SetRest, Goto, Locks, Unlocks, LockInv, Threads, Sensors
<1>4. CASE BeginState \/ GetFirst \/ GetRest \/ NoMemory \/ Publish
  BY <1>0, <1>4 DEF BeginState, GetFirst, GetRest, NoMemory, Publish, Goto, Locks, Unlocks,
     LockInv, Threads, Sensors
<1>5. CASE Signal \/ StartFails \/ JoinThread \/ Return \/ Deliver \/ Lose \/ UNCHANGED vars
  <2>1. th' = th /\ mu' = mu
    BY <1>5 DEF Signal, StartFails, JoinThread, Return, Deliver, Lose, vars
  <2>2. QED
    BY <1>0, <2>1 DEF LockInv
<1>6. QED
  BY <1>1, <1>2, <1>3, <1>4, <1>5
     DEF Next, MainNext, ImuThread, TiltThread, Motor1Thread, Motor2Thread, SensorNext,
         StateNext, Threads, Sensors

(* Every step keeps the starts and joins in order: no thread moves before   *)
(* it is started, or once it has been joined.                               *)
LEMMA JoinStep ==
    ASSUME IInv, [Next]_vars
    PROVE  JoinInv'
<1> USE DEF mainVars, cacheVars, netVars
<1>0. /\ th \in [Threads -> {"none", "connect", "loop", "set", "rest", "get",
                             "copy", "send", "done"}]
      /\ started \in 0..5 /\ joined \in 0..started /\ JoinInv /\ Len(Order) = 5
  BY OrderOnce DEF IInv, TypeOK
<1>1. CASE StartThread
  <2>1. /\ started + 1 \in 1..5 /\ started' = started + 1 /\ UNCHANGED joined
        /\ main = "start" /\ main' = IF started' = 5 THEN "join" ELSE "start"
        /\ th' = [th EXCEPT ![Order[started + 1]] = "connect"]
    BY <1>0, <1>1 DEF StartThread, JoinInv, Goto
  <2>2. \A i \in 1..5 : i # started + 1 => th'[Order[i]] = th[Order[i]]
    BY <1>0, <2>1, OrderOnce
  <2>3. \A i \in 1..5 : i > started' => th'[Order[i]] = "none"
    BY <1>0, <2>1, <2>2 DEF JoinInv
  <2>4. \A i \in 1..5 : i <= joined' => th'[Order[i]] = "done"
    BY <1>0, <2>1, <2>2 DEF JoinInv
  <2>5. (main' = "start" => started' < 5) /\ main' # "gone"
    BY <1>0, <2>1
  <2>6. QED
    BY <1>0, <2>3, <2>4, <2>5 DEF JoinInv
<1>2. ASSUME NEW t \in Threads, th[t] \notin {"none", "done"},
             NEW place, th' = [th EXCEPT ![t] = place],
             UNCHANGED <<main, started, joined>>
      PROVE  JoinInv'
  <2>1. \A i \in 1..5 : th[Order[i]] \in {"none", "done"} => th'[Order[i]] = th[Order[i]]
    BY <1>0, <1>2, OrderOnce
  <2>2. QED
    BY <1>0, <1>2, <2>1 DEF JoinInv
<1>3. ASSUME NEW t \in Threads, Connect(t) \/ LoopEnds(t)
      PROVE  JoinInv'
  <2>1. th[t] \notin {"none", "done"} /\ UNCHANGED <<main, started, joined>>
    BY <1>3 DEF Connect, LoopEnds
  <2>2. th' = [th EXCEPT ![t] = "loop"] \/ th' = [th EXCEPT ![t] = "done"]
    BY <1>3 DEF Connect, LoopEnds, Goto
  <2>3. QED
    BY <1>2, <2>1, <2>2
<1>4. ASSUME NEW s \in Sensors, Measure(s) \/ SetFirst(s) \/ SetRest(s)
      PROVE  JoinInv'
  <2>1. /\ th[s] \notin {"none", "done"} /\ s \in Threads
        /\ UNCHANGED <<main, started, joined>>
    BY <1>4 DEF Measure, SetFirst, SetRest, Threads
  <2>2. \/ th' = [th EXCEPT ![s] = "set"] \/ th' = [th EXCEPT ![s] = "rest"]
        \/ th' = [th EXCEPT ![s] = "loop"]
    BY <1>4 DEF Measure, SetFirst, SetRest, Goto
  <2>3. QED
    BY <1>2, <2>1, <2>2
<1>5. CASE BeginState \/ GetFirst \/ GetRest \/ NoMemory \/ Publish
  <2>1. /\ th["state"] \notin {"none", "done"} /\ "state" \in Threads
        /\ UNCHANGED <<main, started, joined>>
    BY <1>5 DEF BeginState, GetFirst, GetRest, NoMemory, Publish, Threads
  <2>2. \/ th' = [th EXCEPT !["state"] = "get"] \/ th' = [th EXCEPT !["state"] = "copy"]
        \/ th' = [th EXCEPT !["state"] = "send"] \/ th' = [th EXCEPT !["state"] = "loop"]
    BY <1>5 DEF BeginState, GetFirst, GetRest, NoMemory, Publish, Goto
  <2>3. QED
    BY <1>2, <2>1, <2>2
<1>6. CASE JoinThread
  <2>1. /\ joined + 1 \in 1..started /\ joined' = joined + 1
        /\ th[Order[joined + 1]] = "done" /\ main = "join"
        /\ UNCHANGED <<main, started, th>>
    BY <1>0, <1>6 DEF JoinThread, Joinable
  <2>2. \A i \in 1..5 : i <= joined + 1 => i <= joined \/ i = joined + 1
    BY <1>0
  <2>3. QED
    BY <1>0, <2>1, <2>2 DEF JoinInv
<1>7. CASE StartFails \/ Return
  BY <1>0, <1>7 DEF StartFails, Return, JoinInv
<1>8. CASE Signal \/ Deliver \/ Lose \/ UNCHANGED vars
  <2>1. UNCHANGED <<th, main, started, joined>>
    BY <1>8 DEF Signal, Deliver, Lose, vars
  <2>2. QED
    BY <1>0, <2>1 DEF JoinInv
<1>9. QED
  BY <1>1, <1>3, <1>4, <1>5, <1>6, <1>7, <1>8
     DEF Next, MainNext, ImuThread, TiltThread, Motor1Thread, Motor2Thread, SensorNext,
         StateNext, Threads, Sensors

-----------------------------------------------------------------------------
(* The cache *)

(* What a step that leaves the sensors' work alone keeps.                   *)
LEMMA CacheKept ==
    ASSUME IInv, UNCHANGED <<cycle, cache, seq>>,
           \A s \in Sensors : /\ th[s] = "rest" <=> th'[s] = "rest"
                              /\ th[s] = "set" <=> th'[s] = "set"
    PROVE  CacheInv'
BY DEF IInv, CacheInv

(* Every step keeps the parts whole outside the lock, and seq their count.  *)
LEMMA CacheStep ==
    ASSUME IInv, [Next]_vars
    PROVE  /\ CacheInv' /\ cycle' \in [Sensors -> Nat] /\ cache' \in [Sensors -> Part]
           /\ \A s \in Sensors : cache'[s].last >= cache[s].last
<1> USE DEF mainVars, cacheVars, netVars
<1>0. /\ th \in [Threads -> {"none", "connect", "loop", "set", "rest", "get",
                             "copy", "send", "done"}]
      /\ cycle \in [Sensors -> Nat] /\ cache \in [Sensors -> Part]
      /\ \A s \in Sensors : cache[s].first \in Nat /\ cache[s].last \in Nat
      /\ CacheInv
      /\ Sensors \subseteq Threads /\ "state" \notin Sensors
  BY DEF IInv, TypeOK, Part, Sensors, Threads
<1>1. CASE UNCHANGED <<cycle, cache>> /\ CacheInv'
  BY <1>0, <1>1
<1>2. CASE StartThread
  <2>1. started + 1 \in 1..5
    BY <1>2, OrderOnce DEF StartThread, IInv, TypeOK, JoinInv
  <2>2. /\ Order[started + 1] \in Threads /\ th' = [th EXCEPT ![Order[started + 1]] = "connect"]
        /\ UNCHANGED <<cycle, cache, seq>>
    BY <1>2, <2>1, OrderOnce DEF StartThread, Goto
  <2>3. th[Order[started + 1]] = "none"
    BY <2>1, OrderOnce DEF IInv, TypeOK, JoinInv
  <2>4. \A s \in Sensors : /\ th[s] = "rest" <=> th'[s] = "rest"
                           /\ th[s] = "set" <=> th'[s] = "set"
    BY <1>0, <2>2, <2>3
  <2>5. QED
    BY <1>1, <2>2, <2>4, CacheKept
<1>3. ASSUME NEW t \in Threads, Connect(t) \/ LoopEnds(t)
      PROVE  UNCHANGED <<cycle, cache>> /\ CacheInv'
  <2>1. /\ th' = [th EXCEPT ![t] = "loop"] \/ th' = [th EXCEPT ![t] = "done"]
        /\ th[t] \in {"connect", "loop"} /\ UNCHANGED <<cycle, cache, seq>>
    BY <1>3 DEF Connect, LoopEnds, Goto
  <2>2. \A s \in Sensors : /\ th[s] = "rest" <=> th'[s] = "rest"
                           /\ th[s] = "set" <=> th'[s] = "set"
    BY <1>0, <2>1
  <2>3. QED
    BY <2>1, <2>2, CacheKept
<1>4. CASE BeginState \/ GetFirst \/ GetRest \/ NoMemory \/ Publish
  <2>1. UNCHANGED <<cycle, cache, seq>>
    BY <1>4 DEF BeginState, GetFirst, GetRest, NoMemory, Publish
  <2>2. PICK place : th' = [th EXCEPT !["state"] = place]
    BY <1>4 DEF BeginState, GetFirst, GetRest, NoMemory, Publish, Goto
  <2>3. \A s \in Sensors : th'[s] = th[s]
    BY <1>0, <2>2
  <2>4. QED
    BY <1>1, <2>1, <2>3, CacheKept
<1>5. CASE Signal \/ StartFails \/ JoinThread \/ Return \/ Deliver \/ Lose \/ UNCHANGED vars
  <2>1. UNCHANGED <<th, cycle, cache, seq>>
    BY <1>5 DEF Signal, StartFails, JoinThread, Return, Deliver, Lose, vars
  <2>2. QED
    BY <1>1, <2>1, CacheKept
<1>6. ASSUME NEW s \in Sensors, Measure(s)
      PROVE  CacheInv' /\ cycle' \in [Sensors -> Nat] /\ UNCHANGED cache
  <2>1. /\ th' = [th EXCEPT ![s] = "set"] /\ th[s] = "loop"
        /\ cycle' = [cycle EXCEPT ![s] = @ + 1] /\ UNCHANGED <<cache, seq>>
    BY <1>6 DEF Measure, Goto
  <2>2. QED
    BY <1>0, <2>1 DEF CacheInv
<1>7. ASSUME NEW s \in Sensors, SetFirst(s)
      PROVE  /\ CacheInv' /\ UNCHANGED cycle /\ cache' \in [Sensors -> Part]
             /\ \A r \in Sensors : cache'[r].last = cache[r].last
  <2>1. /\ th' = [th EXCEPT ![s] = "rest"] /\ th[s] = "set"
        /\ cache' = [cache EXCEPT ![s].first = cycle[s]] /\ UNCHANGED <<cycle, seq>>
    BY <1>7 DEF SetFirst, Goto
  <2>2. /\ cache'[s].first = cycle[s] /\ cache'[s].last = cache[s].last
        /\ \A r \in Sensors \ {s} : cache'[r] = cache[r]
        /\ cache' \in [Sensors -> Part]
    BY <1>0, <2>1 DEF Part
  <2>3. \A r \in Sensors : cache'[r].last = cache[r].last
    BY <2>2
  <2>4. [r \in Sensors |-> cache'[r].last] = [r \in Sensors |-> cache[r].last]
    BY <2>3
  <2>5. \A r \in Sensors :
          /\ cycle'[r] = cache'[r].last + (IF th'[r] \in {"set", "rest"} THEN 1 ELSE 0)
          /\ cache'[r].first = IF th'[r] = "rest" THEN cycle'[r] ELSE cache'[r].last
    BY <1>0, <2>1, <2>2 DEF CacheInv
  <2>6. QED
    BY <1>0, <2>1, <2>2, <2>3, <2>4, <2>5 DEF CacheInv
<1>8. ASSUME NEW s \in Sensors, SetRest(s)
      PROVE  /\ CacheInv' /\ UNCHANGED cycle /\ cache' \in [Sensors -> Part]
             /\ \A r \in Sensors : cache'[r].last >= cache[r].last
  <2>1. /\ th' = [th EXCEPT ![s] = "loop"] /\ th[s] = "rest"
        /\ cache' = [cache EXCEPT ![s].last = cycle[s]]
        /\ seq' = seq + 1 /\ UNCHANGED cycle
    BY <1>8 DEF SetRest, Goto, NextSeq
  <2>2. /\ cache'[s].last = cycle[s] /\ cache'[s].first = cache[s].first
        /\ \A r \in Sensors \ {s} : cache'[r] = cache[r]
        /\ cache' \in [Sensors -> Part]
    BY <1>0, <2>1 DEF Part
  <2>3. cycle[s] = cache[s].last + 1
    BY <1>0, <2>1 DEF CacheInv
  <2>4. Total([r \in Sensors |-> cache'[r].last]) = Total([r \in Sensors |-> cache[r].last]) + 1
    BY <1>0, <2>2, <2>3 DEF Total, Sensors
  <2>5. \A r \in Sensors :
          /\ cycle'[r] = cache'[r].last + (IF th'[r] \in {"set", "rest"} THEN 1 ELSE 0)
          /\ cache'[r].first = IF th'[r] = "rest" THEN cycle'[r] ELSE cache'[r].last
    BY <1>0, <2>1, <2>2, <2>3 DEF CacheInv
  <2>6. \A r \in Sensors : cache'[r].last >= cache[r].last
    BY <1>0, <2>2, <2>3
  <2>7. QED
    BY <1>0, <2>1, <2>2, <2>4, <2>5, <2>6 DEF CacheInv
<1>9. ASSUME NEW s \in Sensors, SensorNext(s)
      PROVE  /\ CacheInv' /\ cycle' \in [Sensors -> Nat] /\ cache' \in [Sensors -> Part]
             /\ \A r \in Sensors : cache'[r].last >= cache[r].last
  BY <1>0, <1>1, <1>3, <1>6, <1>7, <1>8, <1>9 DEF SensorNext
<1>10. QED
  BY <1>1, <1>2, <1>3, <1>4, <1>5, <1>9
     DEF Next, MainNext, ImuThread, TiltThread, Motor1Thread, Motor2Thread,
         StateNext, Threads, Sensors

-----------------------------------------------------------------------------
(* The copies of the cache *)

(* Only the publisher's own steps and the network touch a copy, and while   *)
(* the publisher copies, it alone has the cache.                            *)
LEMMA QuietStep ==
    ASSUME IInv, [Next]_vars, ~GetFirst, ~GetRest, ~Publish, ~Deliver, ~Lose
    PROVE  /\ UNCHANGED <<snap, net, got>>
           /\ th'["state"] \in {"copy", "send"} => th'["state"] = th["state"]
           /\ th["state"] = "copy" => UNCHANGED cache
<1> USE DEF mainVars, cacheVars, netVars
<1>0. /\ th \in [Threads -> {"none", "connect", "loop", "set", "rest", "get",
                             "copy", "send", "done"}]
      /\ LockInv
      /\ Sensors \subseteq Threads /\ "state" \notin Sensors /\ "state" \in Threads
  BY DEF IInv, TypeOK, Sensors, Threads
<1>1. CASE StartThread
  <2>1. started + 1 \in 1..5
    BY <1>1, OrderOnce DEF StartThread, IInv, TypeOK, JoinInv
  <2>2. /\ Order[started + 1] \in Threads /\ th' = [th EXCEPT ![Order[started + 1]] = "connect"]
        /\ UNCHANGED <<snap, net, got, cache>>
    BY <1>1, <2>1, OrderOnce DEF StartThread, Goto
  <2>3. QED
    BY <1>0, <2>2
<1>2. ASSUME NEW t \in Threads, Connect(t) \/ LoopEnds(t)
      PROVE  /\ UNCHANGED <<snap, net, got, cache>>
             /\ th'["state"] \in {"copy", "send"} => th'["state"] = th["state"]
  <2>1. /\ th' = [th EXCEPT ![t] = "loop"] \/ th' = [th EXCEPT ![t] = "done"]
        /\ UNCHANGED <<snap, net, got, cache>>
    BY <1>2 DEF Connect, LoopEnds, Goto
  <2>2. QED
    BY <1>0, <2>1
<1>3. ASSUME NEW s \in Sensors, Measure(s) \/ SetFirst(s) \/ SetRest(s)
      PROVE  /\ UNCHANGED <<snap, net, got>> /\ th'["state"] = th["state"]
             /\ th["state"] = "copy" => UNCHANGED cache
  <2>1. /\ \/ th' = [th EXCEPT ![s] = "set"] \/ th' = [th EXCEPT ![s] = "rest"]
           \/ th' = [th EXCEPT ![s] = "loop"]
        /\ UNCHANGED <<snap, net, got>>
    BY <1>3 DEF Measure, SetFirst, SetRest, Goto
  <2>2. \/ UNCHANGED cache
        \/ mu = "free"
        \/ th[s] = "rest"
    BY <1>3 DEF Measure, SetFirst, SetRest, Locks
  <2>3. QED
    BY <1>0, <2>1, <2>2 DEF LockInv
<1>4. CASE BeginState \/ NoMemory
  <2>1. /\ th' = [th EXCEPT !["state"] = "get"] \/ th' = [th EXCEPT !["state"] = "loop"]
        /\ UNCHANGED <<snap, net, got, cache>>
    BY <1>4 DEF BeginState, NoMemory, Goto
  <2>2. QED
    BY <1>0, <2>1
<1>5. CASE Signal \/ StartFails \/ JoinThread \/ Return \/ UNCHANGED vars
  BY <1>5 DEF Signal, StartFails, JoinThread, Return, vars
<1>6. QED
  BY <1>0, <1>1, <1>2, <1>3, <1>4, <1>5
     DEF Next, MainNext, ImuThread, TiltThread, Motor1Thread, Motor2Thread, SensorNext,
         StateNext, Threads, Sensors

(* What the two halves of the copy make of it: at the end it is the cache.  *)
LEMMA CopyHalves ==
    ASSUME IInv
    PROVE  /\ GetFirst => /\ snap' \in State /\ UNCHANGED <<cache, net, got>>
                          /\ \A s \in {"imu", "tilt"} : snap'.parts[s] = cache[s]
                          /\ th'["state"] = "copy"
           /\ GetRest => /\ snap' = [parts |-> cache, seq |-> seq] /\ snap' \in State
                         /\ UNCHANGED <<cache, net, got>> /\ th'["state"] = "send"
                         /\ \A s \in Sensors : th[s] # "rest"
<1> USE DEF mainVars, cacheVars, netVars
<1>0. /\ "state" \in DOMAIN th
      /\ cache \in [Sensors -> Part] /\ seq \in Nat
      /\ snap.seq \in Nat /\ snap.parts \in [Sensors -> Part] /\ snap \in State
      /\ NoParts \in [Sensors -> Part]
      /\ LockInv
  <2>1. /\ th \in [Threads -> {"none", "connect", "loop", "set", "rest", "get",
                              "copy", "send", "done"}]
        /\ cache \in [Sensors -> Part] /\ snap \in State /\ LockInv
        /\ seq \in 0..Total(cycle)
    BY DEF IInv, TypeOK
  <2>2. NoParts \in [Sensors -> Part]
    BY DEF NoParts, Part
  <2>3. QED
    BY <2>1, <2>2 DEF State, Threads
<1>1. ASSUME GetFirst
      PROVE  /\ snap' \in State /\ UNCHANGED <<cache, net, got>>
             /\ \A s \in {"imu", "tilt"} : snap'.parts[s] = cache[s]
             /\ th'["state"] = "copy"
  <2>1. /\ snap' = [snap EXCEPT !.parts = Copy(NoParts, {"imu", "tilt"})]
        /\ UNCHANGED <<cache, net, got>> /\ th'["state"] = "copy"
    BY <1>0, <1>1 DEF GetFirst, Goto
  <2>2. /\ Copy(NoParts, {"imu", "tilt"}) \in [Sensors -> Part]
        /\ \A s \in {"imu", "tilt"} : Copy(NoParts, {"imu", "tilt"})[s] = cache[s]
    BY <1>0 DEF Copy, Sensors
  <2>3. snap' = [parts |-> Copy(NoParts, {"imu", "tilt"}), seq |-> snap.seq]
    BY <1>0, <2>1 DEF State
  <2>4. QED
    BY <1>0, <2>1, <2>2, <2>3 DEF State
<1>2. ASSUME GetRest
      PROVE  /\ snap' = [parts |-> cache, seq |-> seq] /\ snap' \in State
             /\ UNCHANGED <<cache, net, got>> /\ th'["state"] = "send"
             /\ \A s \in Sensors : th[s] # "rest"
  <2>1. /\ snap' = [parts |-> Copy(snap.parts, Rest), seq |-> seq]
        /\ UNCHANGED <<cache, net, got>> /\ th'["state"] = "send" /\ th["state"] = "copy"
    BY <1>0, <1>2 DEF GetRest, Goto
  <2>2. \A s \in {"imu", "tilt"} : snap.parts[s] = cache[s]
    BY <2>1 DEF IInv, CopyInv
  <2>3. \A s \in Sensors : (IF s \in Rest THEN cache[s] ELSE snap.parts[s]) = cache[s]
    BY <2>2 DEF Sensors, Rest
  <2>4. Copy(snap.parts, Rest) = [s \in Sensors |-> cache[s]]
    BY <2>3 DEF Copy
  <2>5. Copy(snap.parts, Rest) = cache
    BY <1>0, <2>4
  <2>6. \A s \in Sensors : th[s] # "rest"
    BY <1>0, <2>1 DEF LockInv, Sensors
  <2>7. QED
    BY <1>0, <2>1, <2>5, <2>6 DEF State
<1>3. QED
  BY <1>1, <1>2

(* What Publish, Deliver and Lose make of the messages.                     *)
LEMMA NetStep ==
    ASSUME IInv
    PROVE  /\ Publish => /\ net' \in {net, Append(net, snap)} /\ UNCHANGED <<snap, got, cache>>
                         /\ th["state"] = "send" /\ th'["state"] = "loop"
           /\ Deliver => /\ net # <<>> /\ got' = net[1] /\ net' = Tail(net)
                         /\ UNCHANGED <<snap, cache, th>>
           /\ Lose => net # <<>> /\ net' = Tail(net) /\ UNCHANGED <<snap, got, cache, th>>
<1> USE DEF mainVars, cacheVars, netVars
<1>1. "state" \in DOMAIN th
  BY DEF IInv, TypeOK, Threads
<1>2. net # <<>> => Head(net) = net[1]
  BY DEF IInv, TypeOK
<1>3. QED
  BY <1>1, <1>2 DEF Publish, Deliver, Lose, Goto

(* Every step keeps every copy a state that the cache had.                  *)
LEMMA CopyStep ==
    ASSUME IInv, [Next]_vars
    PROVE  CopyInv' /\ snap' \in State /\ got' \in State /\ net' \in Seq(State)
<1>0. CopyInv /\ snap \in State /\ got \in State /\ net \in Seq(State)
  BY DEF IInv, TypeOK
<1>1. CASE ~GetFirst /\ ~GetRest /\ ~Publish /\ ~Deliver /\ ~Lose
  <2>1. /\ UNCHANGED <<snap, net, got>>
        /\ th'["state"] \in {"copy", "send"} => th'["state"] = th["state"]
        /\ th["state"] = "copy" => UNCHANGED cache
    BY <1>1, QuietStep
  <2>2. QED
    BY <1>0, <2>1 DEF CopyInv, Whole
<1>2. CASE GetFirst
  BY <1>0, <1>2, CopyHalves DEF CopyInv, Whole
<1>3. CASE GetRest
  <2>1. /\ snap' = [parts |-> cache, seq |-> seq] /\ snap' \in State
        /\ UNCHANGED <<cache, net, got>> /\ th'["state"] = "send"
        /\ \A s \in Sensors : th[s] # "rest"
    BY <1>3, CopyHalves
  <2>2. /\ \A s \in Sensors : cache[s].first = cache[s].last
        /\ seq = Total([s \in Sensors |-> cache[s].last])
    BY <2>1 DEF IInv, CacheInv
  <2>3. Whole(snap')
    BY <2>1, <2>2 DEF Whole
  <2>4. QED
    BY <1>0, <2>1, <2>3 DEF CopyInv, Whole
<1>4. CASE Publish
  <2>1. /\ net' \in {net, Append(net, snap)} /\ UNCHANGED <<snap, got, cache>>
        /\ th["state"] = "send" /\ th'["state"] = "loop"
    BY <1>4, NetStep
  <2>2. Whole(snap) /\ Whole(got) /\ \A i \in 1..Len(net) : Whole(net[i])
    BY <1>0, <2>1 DEF CopyInv
  <2>3. net' \in Seq(State) /\ \A i \in 1..Len(net') : Whole(net'[i])
    <3>1. CASE net' = net
      BY <1>0, <2>2, <3>1
    <3>2. CASE net' = Append(net, snap)
      <4>1. /\ Len(net) \in Nat /\ Len(net') = Len(net) + 1 /\ net' \in Seq(State)
            /\ \A i \in 1..Len(net) : net'[i] = net[i]
            /\ net'[Len(net) + 1] = snap
        BY <1>0, <3>2, QueueStep
      <4>2. \A i \in 1..(Len(net) + 1) : i \in 1..Len(net) \/ i = Len(net) + 1
        BY <4>1
      <4>3. QED
        BY <2>2, <4>1, <4>2
    <3>3. QED
      BY <2>1, <3>1, <3>2
  <2>4. QED
    BY <1>0, <2>1, <2>2, <2>3 DEF CopyInv, Whole
<1>5. CASE Deliver \/ Lose
  <2>1. /\ net # <<>> /\ got' \in {got, net[1]} /\ net' = Tail(net)
        /\ UNCHANGED <<snap, cache, th>>
    BY <1>5, NetStep
  <2>2. /\ 1 \in 1..Len(net) /\ net[1] \in State /\ Len(net) \in Nat
        /\ net' \in Seq(State) /\ Len(net') = Len(net) - 1
        /\ \A i \in 1..(Len(net) - 1) : net'[i] = net[i + 1]
    BY <1>0, <2>1, QueueStep
  <2>3. \A i \in 1..(Len(net) - 1) : i + 1 \in 1..Len(net)
    BY <2>2
  <2>4. Whole(got') /\ \A i \in 1..Len(net') : Whole(net'[i])
    BY <1>0, <2>1, <2>2, <2>3 DEF CopyInv
  <2>5. QED
    BY <1>0, <2>1, <2>2, <2>4 DEF CopyInv, Whole
<1>6. QED
  BY <1>1, <1>2, <1>3, <1>4, <1>5

-----------------------------------------------------------------------------
(* Types *)

(* Every step keeps the types. *)
LEMMA TypeStep ==
    ASSUME IInv, [Next]_vars
    PROVE  TypeOK'
<1> USE DEF mainVars, cacheVars, netVars
<1>1. /\ th' \in [Threads -> {"none", "connect", "loop", "set", "rest", "get",
                              "copy", "send", "done"}]
      /\ mu' \in Threads \cup {"free"}
      /\ cycle' \in [Sensors -> Nat] /\ cache' \in [Sensors -> Part]
      /\ CacheInv'
  BY PlaceStep, LockStep, CacheStep
<1>2. seq' \in 0..Total(cycle')
  <2>1. \A s \in Sensors : /\ cache'[s].last \in Nat /\ cycle'[s] \in Nat
                           /\ cache'[s].last <= cycle'[s]
    BY <1>1 DEF CacheInv, Part
  <2>2. seq' = Total([s \in Sensors |-> cache'[s].last])
    BY <1>1 DEF CacheInv
  <2>3. QED
    BY <2>1, <2>2 DEF Total, Sensors
<1>3. /\ running' \in BOOLEAN /\ main' \in {"start", "join", "gone"}
      /\ started' \in 0..5 /\ joined' \in 0..started'
  <2>1. /\ running \in BOOLEAN /\ main \in {"start", "join", "gone"}
        /\ started \in 0..5 /\ joined \in 0..started
        /\ main = "start" => started < 5
    BY OrderOnce DEF IInv, TypeOK, JoinInv
  <2>2. CASE StartThread
    BY <2>1, <2>2 DEF StartThread
  <2>3. CASE StartFails
    BY <2>1, <2>3 DEF StartFails, StaysRunning
  <2>4. CASE JoinThread
    BY <2>1, <2>4 DEF JoinThread
  <2>5. CASE Signal \/ Return
    BY <2>1, <2>5 DEF Signal, Return
  <2>6. ASSUME NEW t \in Threads, Connect(t) \/ LoopEnds(t)
        PROVE  UNCHANGED mainVars
    BY <2>6 DEF Connect, LoopEnds
  <2>7. ASSUME NEW s \in Sensors, Measure(s) \/ SetFirst(s) \/ SetRest(s)
        PROVE  UNCHANGED mainVars
    BY <2>7 DEF Measure, SetFirst, SetRest
  <2>8. CASE \/ BeginState \/ GetFirst \/ GetRest \/ NoMemory \/ Publish \/ Deliver
             \/ Lose \/ UNCHANGED vars
    BY <2>1, <2>8 DEF BeginState, GetFirst, GetRest, NoMemory, Publish, Deliver, Lose, vars
  <2>9. QED
    BY <2>1, <2>2, <2>3, <2>4, <2>5, <2>6, <2>7, <2>8
       DEF Next, MainNext, ImuThread, TiltThread, Motor1Thread, Motor2Thread, SensorNext,
           StateNext, Threads, Sensors
<1>4. snap' \in State /\ got' \in State /\ net' \in Seq(State)
  BY CopyStep
<1>5. fails' \in 0..MaxFails
  <2>1. fails' = fails \/ Fail
    <3>1. ASSUME NEW t \in Threads, Connect(t) \/ LoopEnds(t)
          PROVE  fails' = fails \/ Fail
      BY <3>1 DEF Connect, LoopEnds
    <3>2. ASSUME NEW s \in Sensors, Measure(s) \/ SetFirst(s) \/ SetRest(s)
          PROVE  fails' = fails
      BY <3>2 DEF Measure, SetFirst, SetRest
    <3>3. QED
      BY <3>1, <3>2
         DEF Next, MainNext, ImuThread, TiltThread, Motor1Thread, Motor2Thread, SensorNext,
             StateNext, Threads, Sensors, Signal, StartThread, StartFails, JoinThread,
             Return, BeginState, GetFirst, GetRest, NoMemory, Publish, Deliver, Lose, vars
  <2>2. QED
    BY <2>1, NetAssumption DEF Fail, IInv, TypeOK
<1>6. QED
  BY <1>1, <1>2, <1>3, <1>4, <1>5 DEF TypeOK

-----------------------------------------------------------------------------
(* The age of the copies *)

(* The numbers of updates that the order of copies compares. *)
LEMMA AgeTypes ==
    ASSUME TypeOK
    PROVE  /\ \A s \in Sensors : cache[s].last \in Nat
           /\ \A m \in State, s \in Sensors : m.parts[s].last \in Nat
           /\ \A i \in 1..Len(net) : net[i] \in State
           /\ got \in State /\ snap \in State /\ Len(net) \in Nat
BY LenProperties, ElementOfSeq DEF TypeOK, State, Part

(* Every step keeps the copies in the order of their age. *)
LEMMA AgeStep ==
    ASSUME IInv, TypeOK', [Next]_vars
    PROVE  AgeInv'
<1>0. /\ AgeInv /\ net \in Seq(State) /\ snap \in State
      /\ \A s \in Sensors : /\ cache[s].last \in Int /\ cache'[s].last \in Int
                            /\ cache[s].last <= cache'[s].last
      /\ \A m \in State, s \in Sensors : m.parts[s].last \in Int
      /\ \A i \in 1..Len(net) : net[i] \in State
      /\ got \in State /\ Len(net) \in Nat
  <2>1. \A s \in Sensors : cache'[s].last \in Nat
    BY DEF TypeOK, Part
  <2>2. QED
    BY <2>1, AgeTypes, CacheStep DEF IInv, TypeOK
<1>1. \A m \in State : NotNewer(m.parts, cache) => NotNewer(m.parts, cache')
  BY <1>0 DEF NotNewer
<1>2. CASE ~GetFirst /\ ~GetRest /\ ~Publish /\ ~Deliver /\ ~Lose
  <2>1. /\ UNCHANGED <<snap, net, got>>
        /\ th'["state"] \in {"copy", "send"} => th'["state"] = th["state"]
    BY <1>2, QuietStep
  <2>2. QED
    BY <1>0, <1>1, <2>1 DEF AgeInv
<1>3. CASE GetFirst
  <2>1. UNCHANGED <<cache, net, got>> /\ th'["state"] = "copy"
    BY <1>3, CopyHalves
  <2>2. QED
    BY <1>0, <2>1 DEF AgeInv
<1>4. CASE GetRest
  <2>1. /\ snap'.parts = cache /\ UNCHANGED <<cache, net, got>> /\ th'["state"] = "send"
    BY <1>4, CopyHalves
  <2>2. NotNewer(cache, cache)
    BY <1>0 DEF NotNewer
  <2>3. QED
    BY <1>0, <2>1, <2>2 DEF AgeInv
<1>5. CASE Publish
  <2>1. /\ net' \in {net, Append(net, snap)} /\ UNCHANGED <<snap, got, cache>>
        /\ th["state"] = "send" /\ th'["state"] = "loop"
    BY <1>5, NetStep
  <2>2. CASE net' = net
    BY <1>0, <2>1, <2>2 DEF AgeInv
  <2>3. CASE net' = Append(net, snap)
    <3>1. /\ Len(net') = Len(net) + 1
          /\ \A i \in 1..Len(net) : net'[i] = net[i]
          /\ net'[Len(net) + 1] = snap
      BY <1>0, <2>3, QueueStep
    <3>2. \A i \in 1..(Len(net) + 1) : i \in 1..Len(net) \/ i = Len(net) + 1
      BY <1>0
    <3>3. NotNewer(snap.parts, snap.parts)
      BY <1>0 DEF NotNewer
    <3>4. \A i, j \in 1..Len(net') : i <= j => NotNewer(net'[i].parts, net'[j].parts)
      <4>1. ASSUME NEW i \in 1..Len(net'), NEW j \in 1..Len(net'), i <= j
            PROVE  NotNewer(net'[i].parts, net'[j].parts)
        <5>1. \/ i \in 1..Len(net) /\ j \in 1..Len(net)
              \/ i \in 1..Len(net) /\ j = Len(net) + 1
              \/ i = Len(net) + 1 /\ j = Len(net) + 1
          BY <1>0, <3>1, <4>1
        <5>2. QED
          BY <1>0, <2>1, <3>1, <3>3, <4>1, <5>1 DEF AgeInv
      <4>2. QED
        BY <4>1
    <3>5. \A i \in 1..Len(net') : /\ NotNewer(got.parts, net'[i].parts)
                                  /\ NotNewer(net'[i].parts, cache)
      BY <1>0, <2>1, <3>1, <3>2 DEF AgeInv
    <3>6. QED
      BY <1>0, <2>1, <3>4, <3>5 DEF AgeInv
  <2>4. QED
    BY <2>1, <2>2, <2>3
<1>6. CASE Deliver \/ Lose
  <2>1. /\ net # <<>> /\ got' \in {got, net[1]} /\ net' = Tail(net)
        /\ UNCHANGED <<snap, cache, th>>
    BY <1>6, NetStep
  <2>2. /\ 1 \in 1..Len(net) /\ Len(net') = Len(net) - 1
        /\ \A i \in 1..(Len(net) - 1) : net'[i] = net[i + 1]
    BY <1>0, <2>1, QueueStep
  <2>3. \A i \in 1..(Len(net) - 1) : i + 1 \in 1..Len(net) /\ 1 <= i + 1
    BY <1>0
  <2>4. \A i, j \in 1..Len(net') : i <= j => NotNewer(net'[i].parts, net'[j].parts)
    <3>1. ASSUME NEW i \in 1..(Len(net) - 1), NEW j \in 1..(Len(net) - 1), i <= j
          PROVE  NotNewer(net'[i].parts, net'[j].parts)
      <4>1. i + 1 \in 1..Len(net) /\ j + 1 \in 1..Len(net) /\ i + 1 <= j + 1
        BY <1>0, <3>1
      <4>2. QED
        BY <1>0, <2>2, <4>1 DEF AgeInv
    <3>2. QED
      BY <2>2, <3>1
  <2>5. \A i \in 1..Len(net') : /\ NotNewer(got'.parts, net'[i].parts)
                                /\ NotNewer(net'[i].parts, cache)
    BY <1>0, <2>1, <2>2, <2>3 DEF AgeInv
  <2>6. QED
    BY <1>0, <2>1, <2>2, <2>3, <2>4, <2>5 DEF AgeInv
<1>7. QED
  BY <1>2, <1>3, <1>4, <1>5, <1>6

(* Before the first step nothing is started, measured or sent.              *)
LEMMA IInvInit ==
    ASSUME Init
    PROVE  IInv
<1>1. /\ \A s \in Sensors : /\ cache[s] = [first |-> 0, last |-> 0] /\ cycle[s] = 0
                            /\ got.parts[s] = [first |-> 0, last |-> 0]
                            /\ th[s] = "none"
      /\ th["state"] = "none" /\ net = <<>> /\ Len(net) = 0 /\ seq = 0 /\ got.seq = 0
      /\ mu = "free" /\ "free" \notin Sensors
  BY EmptySeq DEF Init, NoParts, Threads, Sensors
<1>2. /\ Total([s \in Sensors |-> 0]) = 0 /\ Total(cycle) = 0
      /\ [s \in Sensors |-> cache[s].last] = [s \in Sensors |-> 0]
      /\ [s \in Sensors |-> got.parts[s].last] = [s \in Sensors |-> 0]
  BY <1>1 DEF Total, Sensors
<1>3. NoParts \in [Sensors -> Part]
  BY DEF NoParts, Part
<1>4. TypeOK
  <2>1. got \in State /\ snap \in State
    BY <1>3 DEF Init, State
  <2>2. net \in Seq(State)
    BY <1>1, EmptySeq
  <2>3. QED
    BY <1>2, <1>3, <2>1, <2>2, NetAssumption DEF Init, TypeOK
<1>5. PlaceInv /\ LockInv /\ CacheInv
  BY <1>1, <1>2 DEF PlaceInv, LockInv, CacheInv
<1>6. JoinInv
  BY OrderOnce DEF Init, JoinInv
<1>7. CopyInv
  BY <1>1, <1>2 DEF CopyInv, Whole
<1>8. AgeInv
  BY <1>1 DEF AgeInv, NotNewer
<1>9. QED
  BY <1>4, <1>5, <1>6, <1>7, <1>8 DEF IInv

-----------------------------------------------------------------------------
(* Theorems *)

(* The inductive invariant holds in every reachable state.                  *)
THEOREM SimInvariant == Spec => []IInv
<1>1. Init => IInv
  BY IInvInit
<1>2. IInv /\ [Next]_vars => IInv'
  BY PlaceStep, LockStep, JoinStep, CacheStep, TypeStep, CopyStep, AgeStep DEF IInv
<1>3. QED
  BY <1>1, <1>2, PTL DEF Spec

(* Every variable keeps its type; in particular the sequence number never   *)
(* runs ahead of the updates the sensors have begun.                        *)
THEOREM SimTypeCorrect == Spec => []TypeOK
<1>1. IInv => TypeOK
  BY DEF IInv
<1>2. QED
  BY <1>1, SimInvariant, PTL

(* Every state that is published is one that the cache had: no part of it   *)
(* is torn, and its sequence number is the number of updates in it          *)
(* (telemetry_cache.c's setters and telemetry_cache_get).                   *)
THEOREM PublishedStatesWhole == Spec => []SeqNamesState
<1>1. IInv => SeqNamesState
  BY DEF IInv, CopyInv, Whole, SeqNamesState, Copies
<1>2. QED
  BY <1>1, SimInvariant, PTL

(* When main returns, on the normal path or after a failed start, no thread *)
(* is left (robot_main.c's joins).                                          *)
THEOREM ThreadsJoined == Spec => []NoThreadOutlives
<1>1. IInv => NoThreadOutlives
  <2>1. SUFFICES ASSUME IInv, main = "gone", NEW t \in Threads
                 PROVE  th[t] \in {"none", "done"}
    BY DEF NoThreadOutlives
  <2>2. PICK i \in 1..5 : Order[i] = t
    BY OrderOnce
  <2>3. joined = started /\ started \in 0..5
    BY <2>1 DEF IInv, JoinInv, TypeOK
  <2>4. i <= joined \/ i > started
    BY <2>3
  <2>5. QED
    BY <2>1, <2>2, <2>4, OrderOnce DEF IInv, JoinInv
<1>2. QED
  BY <1>1, SimInvariant, PTL

(* What the gateway receives is never older, in any part, than what it had, *)
(* and when it differs its sequence number is greater, although messages    *)
(* may be lost (README.md:34).                                              *)
THEOREM ReceivedNeverOlder == Spec => NeverOlder
<1>1. ASSUME IInv, IInv', [Next]_vars
      PROVE  [got' # got =>
                /\ got'.seq > got.seq
                /\ \A s \in Sensors : got'.parts[s].last >= got.parts[s].last]_vars
  <2>1. CASE got' = got
    BY <2>1
  <2>2. CASE got' # got
    <3>1. Deliver
      BY <1>1, <2>2, QuietStep, CopyHalves, NetStep
    <3>2. got' = net[1] /\ net # <<>>
      BY <1>1, <3>1, NetStep
    <3>3. 1 \in 1..Len(net)
      BY <1>1, <3>2, QueueStep DEF IInv, TypeOK
    <3>4. NotNewer(got.parts, got'.parts)
      BY <1>1, <3>2, <3>3 DEF IInv, AgeInv
    <3>5. /\ got \in State /\ got' \in State /\ Whole(got) /\ Whole(got')
      BY <1>1 DEF IInv, TypeOK, CopyInv
    <3>6. \A s \in Sensors : /\ got.parts[s].last \in Nat /\ got'.parts[s].last \in Nat
                             /\ got.parts[s].last <= got'.parts[s].last
      BY <3>4, <3>5 DEF NotNewer, State, Part
    <3>7. \E s \in Sensors : got.parts[s].last # got'.parts[s].last
      <4>1. SUFFICES ASSUME \A s \in Sensors : got.parts[s].last = got'.parts[s].last
                     PROVE  FALSE
        OBVIOUS
      <4>2. \A s \in Sensors : got.parts[s] = got'.parts[s]
        BY <3>5, <4>1 DEF Whole, State, Part
      <4>3. got.parts = got'.parts
        BY <3>5, <4>2 DEF State
      <4>4. got.seq = got'.seq
        BY <3>5, <4>3 DEF Whole
      <4>5. QED
        BY <2>2, <3>5, <4>3, <4>4 DEF State
    <3>8. got'.seq > got.seq
      <4> DEFINE old == [s \in Sensors |-> got.parts[s].last]
                 new == [s \in Sensors |-> got'.parts[s].last]
      <4>1. got.seq = Total(old) /\ got'.seq = Total(new)
        BY <3>5 DEF Whole
      <4>2. /\ old \in [Sensors -> Nat] /\ new \in [Sensors -> Nat]
            /\ \A s \in Sensors : old[s] <= new[s]
            /\ \E s \in Sensors : old[s] # new[s]
        BY <3>6, <3>7
      <4> HIDE DEF old, new
      <4>3. QED
        BY <4>1, <4>2, TotalGrows
    <3>9. QED
      BY <3>6, <3>8
  <2>3. QED
    BY <2>1, <2>2
<1>2. QED
  BY <1>1, SimInvariant, PTL DEF Spec, NeverOlder

-----------------------------------------------------------------------------
(* The simulator implements StateFeed *)

Flight == IF th["state"] = "send" THEN Append(net, snap) ELSE net

(* Removing the first or the last of a queue. *)
LEMMA RemoveEnds ==
    ASSUME NEW S, NEW q \in Seq(S)
    PROVE  /\ q # <<>> => 1 \in 1..Len(q) /\ Feed!RemoveAt(q, 1) = Tail(q)
           /\ \A m \in S : /\ Len(Append(q, m)) \in 1..Len(Append(q, m))
                           /\ Feed!RemoveAt(Append(q, m), Len(Append(q, m))) = q
<1>0. Len(q) \in Nat /\ \A i \in 1..Len(q) : q[i] \in S
  BY LenProperties, ElementOfSeq
<1>1. ASSUME q # <<>>
      PROVE  1 \in 1..Len(q) /\ Feed!RemoveAt(q, 1) = Tail(q)
  <2>1. /\ Tail(q) \in Seq(S) /\ Len(Tail(q)) = Len(q) - 1 /\ 1 \in 1..Len(q)
        /\ \A i \in 1..(Len(q) - 1) : Tail(q)[i] = q[i + 1]
    BY <1>1, QueueStep
  <2>2. SubSeq(q, 1, 0) = <<>>
    BY <1>0, SubSeqEmpty
  <2>4. SubSeq(q, 2, Len(q)) = Tail(q)
    BY <1>1, TailIsSubSeq
  <2>5. Feed!RemoveAt(q, 1) = <<>> \o Tail(q)
    BY <2>2, <2>4 DEF Feed!RemoveAt
  <2>6. QED
    BY <2>1, <2>5, ConcatEmptySeq
<1>2. ASSUME NEW m \in S
      PROVE  /\ Len(Append(q, m)) \in 1..Len(Append(q, m))
             /\ Feed!RemoveAt(Append(q, m), Len(Append(q, m))) = q
  <2> DEFINE a == Append(q, m)
  <2>1. /\ a \in Seq(S) /\ Len(a) = Len(q) + 1
        /\ \A i \in 1..Len(q) : a[i] = q[i]
    BY <1>0, <1>2, AppendProperties
  <2> HIDE DEF a
  <2>2. SubSeq(a, Len(a) + 1, Len(a)) = <<>>
    BY <1>0, <2>1, SubSeqEmpty
  <2>3. /\ SubSeq(a, 1, Len(q)) \in Seq(S) /\ Len(SubSeq(a, 1, Len(q))) = Len(q)
        /\ \A i \in 1..Len(q) : SubSeq(a, 1, Len(q))[i] = q[i]
    <3>1. \A i \in 1..Len(q) : a[i] \in S
      BY <1>0, <2>1
    <3>2. QED
      BY <1>0, <2>1, <3>1, SubSeqProperties
  <2>4. SubSeq(a, 1, Len(q)) = q
    BY <2>3, SeqEqual
  <2>5. Len(a) - 1 = Len(q)
    BY <1>0, <2>1
  <2>6. Feed!RemoveAt(a, Len(a)) = q \o <<>>
    BY <2>2, <2>4, <2>5 DEF Feed!RemoveAt
  <2>7. QED
    BY <1>0, <2>1, <2>6, ConcatEmptySeq DEF a
<1>3. QED
  BY <1>1, <1>2

(* A step that is not one of the publisher's copies, not a message's and    *)
(* not the end of a setter stutters: no other step is seen by the gateway.  *)
LEMMA FeedStutters ==
    ASSUME IInv, UNCHANGED <<snap, net, got, seq>>,
           th'["state"] = "send" <=> th["state"] = "send",
           \A s \in Sensors : cache'[s].last = cache[s].last
    PROVE  UNCHANGED Feed!fVars
<1>1. [s \in Sensors |-> cache'[s].last] = [s \in Sensors |-> cache[s].last]
  OBVIOUS
<1>2. QED
  BY <1>1 DEF Feed!fVars

(* What the setter's last half, and the copy's, do to the cache is seen.    *)
LEMMA FeedAdvances ==
    ASSUME IInv
    PROVE  /\ \A s \in Sensors : SetRest(s) => Feed!Update(s)
           /\ GetRest => Feed!Take
<1> USE DEF mainVars, cacheVars, netVars
<1>0. /\ th \in [Threads -> {"none", "connect", "loop", "set", "rest", "get",
                             "copy", "send", "done"}]
      /\ cache \in [Sensors -> Part]
      /\ Sensors \subseteq Threads /\ "state" \notin Sensors /\ "state" \in Threads
  BY DEF IInv, TypeOK, Sensors, Threads
<1>1. ASSUME NEW s \in Sensors, SetRest(s)
      PROVE  Feed!Update(s)
  <2>1. /\ th' = [th EXCEPT ![s] = "loop"] /\ th[s] = "rest"
        /\ cache' = [cache EXCEPT ![s].last = cycle[s]]
        /\ seq' = seq + 1 /\ UNCHANGED <<snap, net, got>>
    BY <1>1 DEF SetRest, Goto, NextSeq
  <2>2. cycle[s] = cache[s].last + 1
    BY <2>1 DEF IInv, CacheInv
  <2>3. \A r \in Sensors : cache'[r].last = IF r = s THEN cache[s].last + 1 ELSE cache[r].last
    BY <1>0, <2>1, <2>2 DEF Part
  <2>4. [r \in Sensors |-> cache'[r].last]
          = [[r \in Sensors |-> cache[r].last] EXCEPT ![s] = @ + 1]
    BY <2>3
  <2>5. th'["state"] = th["state"]
    BY <1>0, <2>1
  <2>6. QED
    BY <2>1, <2>4, <2>5 DEF Feed!Update
<1>2. ASSUME GetRest
      PROVE  Feed!Take
  <2>1. /\ snap' = [parts |-> cache, seq |-> seq] /\ UNCHANGED <<cache, net, got>>
        /\ th'["state"] = "send" /\ \A s \in Sensors : th[s] # "rest"
    BY <1>2, CopyHalves
  <2>2. th["state"] = "copy" /\ UNCHANGED seq
    BY <1>2 DEF GetRest
  <2>3. \A s \in Sensors : cache[s] = [first |-> cache[s].last, last |-> cache[s].last]
    BY <1>0, <2>1 DEF IInv, CacheInv, Part
  <2>4. cache = [s \in Sensors |-> [first |-> [r \in Sensors |-> cache[r].last][s],
                                    last |-> [r \in Sensors |-> cache[r].last][s]]]
    BY <1>0, <2>3
  <2>5. snap' = Feed!StateNow
    BY <2>1, <2>4 DEF Feed!StateNow
  <2>6. [s \in Sensors |-> cache'[s].last] = [s \in Sensors |-> cache[s].last]
    BY <2>1
  <2>7. QED
    BY <2>1, <2>2, <2>5, <2>6 DEF Feed!Take
<1>3. QED
  BY <1>1, <1>2

(* A message that is sent stays under way; one that finds no memory or no   *)
(* room is the newest under way, one that is lost or received the oldest.   *)
LEMMA FeedMoves ==
    ASSUME IInv, NoMemory \/ Publish \/ Deliver \/ Lose
    PROVE  [Feed!FeedNext]_(Feed!fVars)
<1> USE DEF mainVars, cacheVars, netVars
<1>0. /\ net \in Seq(State) /\ snap \in State /\ "state" \in DOMAIN th
  BY DEF IInv, TypeOK, Threads
<1>1. UNCHANGED <<cache, seq>>
  BY DEF NoMemory, Publish, Deliver, Lose
<1>2. [s \in Sensors |-> cache'[s].last] = [s \in Sensors |-> cache[s].last]
  BY <1>1
<1>3. /\ Append(net, snap) \in Seq(State) /\ Append(net, snap) # <<>>
      /\ net # <<>> => /\ Head(Append(net, snap)) = Head(net)
                       /\ Tail(Append(net, snap)) = Append(Tail(net), snap)
  BY <1>0
<1>4. Flight \in Seq(State)
  BY <1>0, <1>3 DEF Flight
<1>5. ASSUME Flight' = net, Flight = Append(net, snap), UNCHANGED got
      PROVE  Feed!FeedNext
  <2>1. Len(Flight) \in 1..Len(Flight) /\ Feed!RemoveAt(Flight, Len(Flight)) = net
    BY <1>0, <1>5, RemoveEnds
  <2>2. QED
    BY <1>1, <1>2, <1>5, <2>1 DEF Feed!FeedNext, Feed!Drop, Flight
<1>6. CASE NoMemory
  BY <1>0, <1>5, <1>6 DEF NoMemory, Goto, Flight
<1>7. CASE Publish
  <2>1. /\ net' \in {net, Append(net, snap)} /\ UNCHANGED <<snap, got>>
        /\ th["state"] = "send" /\ th'["state"] = "loop"
    BY <1>7, NetStep
  <2>2. CASE net' = net
    BY <1>5, <2>1, <2>2 DEF Flight
  <2>3. CASE net' = Append(net, snap)
    BY <1>1, <1>2, <2>1, <2>3 DEF Flight, Feed!fVars
  <2>4. QED
    BY <2>1, <2>2, <2>3
<1>8. CASE Deliver \/ Lose
  <2>1. /\ net # <<>> /\ net' = Tail(net) /\ UNCHANGED <<snap, th>>
        /\ got' = Head(net) \/ got' = got
    BY <1>8 DEF Deliver, Lose
  <2>2. /\ Flight # <<>> /\ Head(Flight) = Head(net) /\ Flight' = Tail(Flight)
    BY <1>0, <1>3, <2>1 DEF Flight
  <2>3. CASE got' = Head(net)
    BY <1>1, <1>2, <2>2, <2>3 DEF Feed!FeedNext, Feed!Receive, Flight
  <2>4. CASE got' = got
    <3>1. 1 \in 1..Len(Flight) /\ Feed!RemoveAt(Flight, 1) = Tail(Flight)
      BY <1>4, <2>2, RemoveEnds
    <3>2. QED
      BY <1>1, <1>2, <2>2, <2>4, <3>1 DEF Feed!FeedNext, Feed!Drop, Flight
  <2>5. QED
    BY <2>1, <2>3, <2>4
<1>9. QED
  BY <1>6, <1>7, <1>8

(* Every step of the simulator is one of StateFeed's, or is not seen.       *)
LEMMA FeedStep ==
    ASSUME IInv, [Next]_vars
    PROVE  [Feed!FeedNext]_(Feed!fVars)
<1> USE DEF mainVars, cacheVars, netVars
<1>0. /\ th \in [Threads -> {"none", "connect", "loop", "set", "rest", "get",
                             "copy", "send", "done"}]
      /\ cache \in [Sensors -> Part] /\ cycle \in [Sensors -> Nat]
      /\ Sensors \subseteq Threads /\ "state" \notin Sensors /\ "state" \in Threads
  BY DEF IInv, TypeOK, Sensors, Threads
<1>1. CASE \E s \in Sensors : SetRest(s)
  BY <1>1, FeedAdvances DEF Feed!FeedNext
<1>2. CASE GetRest
  BY <1>2, FeedAdvances DEF Feed!FeedNext
<1>3. CASE NoMemory \/ Publish \/ Deliver \/ Lose
  BY <1>3, FeedMoves
<1>4. CASE GetFirst
  <2>1. /\ th' = [th EXCEPT !["state"] = "copy"] /\ th["state"] = "get"
        /\ UNCHANGED <<cache, seq, net, got>>
    BY <1>4 DEF GetFirst, Goto
  <2>2. th'["state"] # "send" /\ th["state"] # "send"
    BY <1>0, <2>1
  <2>3. [s \in Sensors |-> cache'[s].last] = [s \in Sensors |-> cache[s].last]
    BY <2>1
  <2>4. QED
    BY <2>1, <2>2, <2>3 DEF Feed!fVars
<1>5. ASSUME NEW s \in Sensors, SetFirst(s)
      PROVE  UNCHANGED Feed!fVars
  <2>1. /\ th' = [th EXCEPT ![s] = "rest"]
        /\ cache' = [cache EXCEPT ![s].first = cycle[s]]
        /\ UNCHANGED <<snap, seq, net, got>>
    BY <1>5 DEF SetFirst, Goto
  <2>2. \A r \in Sensors : cache'[r].last = cache[r].last
    BY <1>0, <2>1 DEF Part
  <2>3. th'["state"] = th["state"]
    BY <1>0, <2>1
  <2>4. QED
    BY <2>1, <2>2, <2>3, FeedStutters
<1>6. CASE StartThread
  <2>1. started + 1 \in 1..5
    BY <1>6, OrderOnce DEF StartThread, IInv, TypeOK, JoinInv
  <2>2. /\ Order[started + 1] \in Threads
        /\ th' = [th EXCEPT ![Order[started + 1]] = "connect"]
        /\ UNCHANGED <<snap, net, got, cache, seq>>
    BY <1>6, <2>1, OrderOnce DEF StartThread, Goto
  <2>3. th[Order[started + 1]] = "none"
    BY <2>1, OrderOnce DEF IInv, TypeOK, JoinInv
  <2>4. th'["state"] = "send" <=> th["state"] = "send"
    BY <1>0, <2>2, <2>3
  <2>5. QED
    BY <2>2, <2>4, FeedStutters
<1>7. ASSUME NEW t \in Threads, Connect(t) \/ LoopEnds(t)
      PROVE  UNCHANGED Feed!fVars
  <2>1. /\ th' = [th EXCEPT ![t] = "loop"] \/ th' = [th EXCEPT ![t] = "done"]
        /\ th[t] \in {"connect", "loop"} /\ UNCHANGED <<snap, net, got, cache, seq>>
    BY <1>7 DEF Connect, LoopEnds, Goto
  <2>2. th'["state"] = "send" <=> th["state"] = "send"
    BY <1>0, <2>1
  <2>3. QED
    BY <2>1, <2>2, FeedStutters
<1>8. CASE BeginState \/ \E s \in Sensors : Measure(s)
  <2>1. PICK t \in Threads :
          /\ th' = [th EXCEPT ![t] = "get"] \/ th' = [th EXCEPT ![t] = "set"]
          /\ th[t] = "loop" /\ UNCHANGED <<snap, net, got, cache, seq>>
    BY <1>0, <1>8 DEF BeginState, Measure, Goto
  <2>2. th'["state"] = "send" <=> th["state"] = "send"
    BY <1>0, <2>1
  <2>3. QED
    BY <2>1, <2>2, FeedStutters
<1>9. CASE Signal \/ StartFails \/ JoinThread \/ Return \/ UNCHANGED vars
  <2>1. UNCHANGED <<th, cache, seq, snap, net, got>>
    BY <1>9 DEF Signal, StartFails, JoinThread, Return, vars
  <2>2. QED
    BY <2>1, FeedStutters
<1>10. QED
  BY <1>0, <1>1, <1>2, <1>3, <1>4, <1>5, <1>6, <1>7, <1>8, <1>9
     DEF Next, MainNext, ImuThread, TiltThread, Motor1Thread, Motor2Thread, SensorNext,
         StateNext, Threads, Sensors

(* The simulator implements StateFeed: every message that reaches the       *)
(* gateway is the whole state of one moment, numbered by the updates until  *)
(* then and in order, whatever the threads do between the copy's halves,    *)
(* whatever fails and whatever is lost (telemetry_cache_get).               *)
THEOREM ImplementsFeed == Spec => FeedRefined
<1>1. Init => Feed!FeedInit
  <2> SUFFICES ASSUME Init
               PROVE  Feed!FeedInit
    OBVIOUS
  <2>1. /\ cache = NoParts /\ seq = 0 /\ net = <<>> /\ th["state"] = "none"
        /\ got = [parts |-> NoParts, seq |-> 0]
    BY DEF Init, Threads
  <2>2. [s \in Sensors |-> cache[s].last] = [s \in Sensors |-> 0]
    BY <2>1 DEF NoParts
  <2>3. NoParts = [s \in Sensors |-> [first |-> [r \in Sensors |-> cache[r].last][s],
                                      last |-> [r \in Sensors |-> cache[r].last][s]]]
    BY <2>2 DEF NoParts
  <2>4. QED
    BY <2>1, <2>2, <2>3 DEF Feed!FeedInit, Feed!StateNow
<1>2. IInv /\ [Next]_vars => [Feed!FeedNext]_(Feed!fVars)
  BY FeedStep
<1>3. QED
  BY <1>1, <1>2, SimInvariant, PTL DEF Spec, FeedRefined, Feed!FeedSpec

=============================================================================
