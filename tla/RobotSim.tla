------------------------------- MODULE RobotSim -------------------------------
(***************************************************************************)
(* The robot simulator (src/src/apps/robot_main.c): four sensor threads    *)
(* write their part of a cache on main's stack (telemetry_cache.c), a      *)
(* publisher thread (telemetry_state_pub.c) copies the cache and sends it  *)
(* over MQTT at QoS 0, and main starts and joins them all.                 *)
(*                                                                         *)
(* What a sensor measures is abstracted to the number of its cycle.  A     *)
(* part of the cache has several fields, written one after another: two of *)
(* them, the first and the last, are enough to tell a torn part.  The raw  *)
(* topics of the sensors have no reader in the platform and are left out.  *)
(***************************************************************************)
EXTENDS Integers, Sequences

CONSTANTS Updates,        \* bound: cycles of each sensor
          MaxNet,         \* bound: messages under way; more are lost
          MaxFails        \* bound: starts, connections and mallocs that fail

Sensors == {"imu", "tilt", "motor1", "motor2"}

ASSUME UpdatesAssumption == Updates \in [Sensors -> Nat]
ASSUME NetAssumption == MaxNet \in Nat /\ MaxFails \in Nat

(* The order in which main starts and joins its threads. *)
Order == <<"imu", "tilt", "motor1", "motor2", "state">>
Threads == Sensors \cup {"state"}

VARIABLES
    running,              \* g_running, shared by main and all threads
    main,                 \* main: "start", "join", "gone"
    started, joined,      \* threads of Order started and joined so far
    th,                   \* the place of each thread
    mu,                   \* who holds the cache's lock, or "free"
    cycle,                \* the cycle each sensor is in
    cache, seq,           \* telemetry_cache_t
    snap,                 \* the publisher's copy of it
    net,                  \* states on their way to the gateway
    got,                  \* the last state the gateway has received
    fails

mainVars == <<running, main, started, joined>>
cacheVars == <<mu, cache, seq>>
netVars == <<net, got>>
vars == <<mainVars, th, cycle, cacheVars, snap, netVars, fails>>

Part == [first : Nat, last : Nat]
State == [parts : [Sensors -> Part], seq : Nat]
NoParts == [s \in Sensors |-> [first |-> 0, last |-> 0]]

(* seq counts the updates of all sensors. *)
Total(f) == f["imu"] + f["tilt"] + f["motor1"] + f["motor2"]

TypeOK ==
    /\ running \in BOOLEAN
    /\ main \in {"start", "join", "gone"}
    /\ started \in 0..5 /\ joined \in 0..started
    /\ th \in [Threads -> {"none", "connect", "loop", "set", "rest", "get",
                           "copy", "send", "done"}]
    /\ mu \in Threads \cup {"free"}
    /\ cycle \in [Sensors -> Nat]
    /\ cache \in [Sensors -> Part]
    /\ seq \in 0..Total(cycle)
    /\ snap \in State /\ got \in State
    /\ net \in Seq(State)
    /\ fails \in 0..MaxFails

Init ==
    /\ running = TRUE
    /\ main = "start" /\ started = 0 /\ joined = 0
    /\ th = [t \in Threads |-> "none"]
    /\ mu = "free"
    /\ cycle = [s \in Sensors |-> 0]
    /\ cache = NoParts /\ seq = 0
    /\ snap = [parts |-> NoParts, seq |-> 0]
    /\ net = <<>>
    /\ got = [parts |-> NoParts, seq |-> 0]
    /\ fails = 0

Goto(t, place) == th' = [th EXCEPT ![t] = place]
Fail == fails < MaxFails /\ fails' = fails + 1

-----------------------------------------------------------------------------
(* main *)

(* on_sigint *)
Signal ==
    /\ main # "gone" /\ running
    /\ running' = FALSE
    /\ UNCHANGED <<main, started, joined, th, cycle, cacheVars, snap, netVars,
                   fails>>

StartThread ==
    /\ main = "start"
    /\ started' = started + 1
    /\ Goto(Order[started'], "connect")
    /\ main' = IF started' = Len(Order) THEN "join" ELSE "start"
    /\ UNCHANGED <<running, joined, cycle, cacheVars, snap, netVars, fails>>

(* mutant: the threads started so far are joined without being told to end *)
StaysRunningMut == running

(* A start that fails tells the threads started so far to end; the first    *)
(* start has none to tell.                                                  *)
StaysRunning == running /\ started = 0

StartFails ==
    /\ main = "start" /\ Fail
    /\ running' = StaysRunning
    /\ main' = "join"
    /\ UNCHANGED <<started, joined, th, cycle, cacheVars, snap, netVars>>

(* mutant: main does not wait for the publisher *)
JoinableMut(t) == th[t] = "done" \/ t = "state"

(* pthread_join *)
Joinable(t) == th[t] = "done"

JoinThread ==
    /\ main = "join" /\ joined < started
    /\ Joinable(Order[joined + 1])
    /\ joined' = joined + 1
    /\ UNCHANGED <<running, main, started, th, cycle, cacheVars, snap, netVars,
                   fails>>

(* mosquitto_lib_cleanup, and main returns: the cache is gone. *)
Return ==
    /\ main = "join" /\ joined = started
    /\ main' = "gone"
    /\ UNCHANGED <<running, started, joined, th, cycle, cacheVars, snap, netVars,
                   fails>>

-----------------------------------------------------------------------------
(* Every thread *)

(* A thread that cannot connect ends, and nobody is told. *)
Connect(t) ==
    /\ th[t] = "connect"
    /\ \/ Goto(t, "loop") /\ UNCHANGED fails
       \/ Goto(t, "done") /\ Fail
    /\ UNCHANGED <<mainVars, cycle, cacheVars, snap, netVars>>

(* The loop ends by closing the thread's client. *)
LoopEnds(t) ==
    /\ th[t] = "loop" /\ ~running
    /\ Goto(t, "done")
    /\ UNCHANGED <<mainVars, cycle, cacheVars, snap, netVars, fails>>

(* mutant: the lock is not waited for *)
LocksMut(t) == mu' = t

(* pthread_mutex_lock(&c->mu) *)
Locks(t) == mu = "free" /\ mu' = t
Unlocks == mu' = "free"

-----------------------------------------------------------------------------
(* imu_thread, tilt_thread, motor1_thread and motor2_thread *)

Measure(s) ==
    /\ th[s] = "loop" /\ running
    /\ cycle[s] < Updates[s]
    /\ cycle' = [cycle EXCEPT ![s] = @ + 1]
    /\ Goto(s, "set")
    /\ UNCHANGED <<mainVars, cacheVars, snap, netVars, fails>>

SetFirst(s) ==
    /\ th[s] = "set"
    /\ Locks(s)
    /\ cache' = [cache EXCEPT ![s].first = cycle[s]]
    /\ Goto(s, "rest")
    /\ UNCHANGED <<mainVars, cycle, seq, snap, netVars, fails>>

(* mutant: seq is advanced for every field *)
NextSeqEach(s) == seq + 2

(* Every setter advances the one sequence number. *)
NextSeq(s) == seq + 1

SetRest(s) ==
    /\ th[s] = "rest"
    /\ cache' = [cache EXCEPT ![s].last = cycle[s]]
    /\ seq' = NextSeq(s)
    /\ Unlocks
    /\ Goto(s, "loop")
    /\ UNCHANGED <<mainVars, cycle, snap, netVars, fails>>

-----------------------------------------------------------------------------
(* telemetry_pub_thread *)

Copy(parts, S) == [s \in Sensors |-> IF s \in S THEN cache[s] ELSE parts[s]]

BeginState ==
    /\ th["state"] = "loop" /\ running
    /\ Goto("state", "get")
    /\ UNCHANGED <<mainVars, cycle, cacheVars, snap, netVars, fails>>

(* telemetry_cache_get copies the parts one after another, then seq. *)
GetFirst ==
    /\ th["state"] = "get"
    /\ Locks("state")
    /\ snap' = [snap EXCEPT !.parts = Copy(NoParts, {"imu", "tilt"})]
    /\ Goto("state", "copy")
    /\ UNCHANGED <<mainVars, cycle, cache, seq, netVars, fails>>

(* mutant: the second motor is forgotten *)
RestMut == {"motor1"}
Rest == {"motor1", "motor2"}

GetRest ==
    /\ th["state"] = "copy"
    /\ snap' = [parts |-> Copy(snap.parts, Rest), seq |-> seq]
    /\ Unlocks
    /\ Goto("state", "send")
    /\ UNCHANGED <<mainVars, cycle, cache, seq, netVars, fails>>

(* Without memory for the message, this state is not published. *)
NoMemory ==
    /\ th["state"] = "send" /\ Fail
    /\ Goto("state", "loop")
    /\ UNCHANGED <<mainVars, cycle, cacheVars, snap, netVars>>

(* mutant: the copy is kept and published again *)
PublishMut ==
    /\ th["state"] = "send"
    /\ net' = IF Len(net) < MaxNet THEN Append(net, snap) ELSE net
    /\ UNCHANGED <<mainVars, th, cycle, cacheVars, snap, got, fails>>

(* mosquitto_publish at QoS 0; its failure is only printed. *)
Publish ==
    /\ th["state"] = "send"
    /\ net' = IF Len(net) < MaxNet THEN Append(net, snap) ELSE net
    /\ Goto("state", "loop")
    /\ UNCHANGED <<mainVars, cycle, cacheVars, snap, got, fails>>

-----------------------------------------------------------------------------
(* MQTT: one publisher's messages keep their order, and any may be lost *)

Deliver ==
    /\ net # <<>>
    /\ got' = Head(net) /\ net' = Tail(net)
    /\ UNCHANGED <<mainVars, th, cycle, cacheVars, snap, fails>>

Lose ==
    /\ net # <<>>
    /\ net' = Tail(net)
    /\ UNCHANGED <<mainVars, th, cycle, cacheVars, snap, got, fails>>

-----------------------------------------------------------------------------
MainNext == StartThread \/ StartFails \/ JoinThread \/ Return
SensorNext(s) == Connect(s) \/ LoopEnds(s) \/ Measure(s) \/ SetFirst(s) \/ SetRest(s)
ImuThread == SensorNext("imu")
TiltThread == SensorNext("tilt")
Motor1Thread == SensorNext("motor1")
Motor2Thread == SensorNext("motor2")
StateNext == \/ Connect("state") \/ LoopEnds("state")
             \/ BeginState \/ GetFirst \/ GetRest \/ NoMemory \/ Publish

Next == \/ Signal \/ MainNext
        \/ ImuThread \/ TiltThread \/ Motor1Thread \/ Motor2Thread
        \/ StateNext
        \/ Deliver \/ Lose

Spec == Init /\ [][Next]_vars

(* The threads go on; a signal is never owed.  The publisher takes the lock *)
(* again and again and a sensor that waits for it may starve, but not once  *)
(* the loops end.  Of the messages sent again and again, some arrive.       *)
FairSpec == /\ Spec
            /\ WF_vars(MainNext) /\ WF_vars(StateNext)
            /\ WF_vars(ImuThread) /\ WF_vars(TiltThread)
            /\ WF_vars(Motor1Thread) /\ WF_vars(Motor2Thread)
            /\ SF_vars(Deliver)

-----------------------------------------------------------------------------
(* Properties *)

Copies == {net[i] : i \in 1..Len(net)} \cup {got}
          \cup (IF th["state"] = "send" THEN {snap} ELSE {})

(* Every state that is published is one that the cache had between two      *)
(* setters: none of its parts is torn, and its sequence number is the       *)
(* number of updates in it, so equal numbers name equal states.             *)
SeqNamesState == \A m \in Copies :
    /\ \A s \in Sensors : m.parts[s].first = m.parts[s].last
    /\ m.seq = Total([s \in Sensors |-> m.parts[s].last])

(* What the gateway receives is never older, in any part, than what it had, *)
(* and is new exactly when its sequence number is greater (README.md:34:    *)
(* seq stands for ordering and freshness).                                  *)
NeverOlder == [][got' # got =>
    /\ got'.seq > got.seq
    /\ \A s \in Sensors : got'.parts[s].last >= got.parts[s].last]_vars

(* The simulator implements StateFeed: two setters never advance the state  *)
(* as one, and a message, from the moment its copy is complete, is the      *)
(* whole state of that moment, although other threads write it meanwhile    *)
(* (telemetry_cache.c's lock, telemetry_cache_get).                         *)
Feed == INSTANCE StateFeed WITH
    now <- [s \in Sensors |-> cache[s].last],
    count <- seq,
    flight <- IF th["state"] = "send" THEN Append(net, snap) ELSE net
FeedRefined == Feed!FeedSpec

(* When main returns, on the normal path or after any start has failed, no  *)
(* thread is left that would use the cache of main's stack or the library.  *)
NoThreadOutlives == main = "gone" => \A t \in Threads : th[t] \in {"none", "done"}

(* A signal, or a start that fails, ends the process. *)
ShutsDown == ~running \/ (main = "join" /\ started < Len(Order)) ~> main = "gone"

(* Although messages are lost and none is sent twice, an update reaches the *)
(* gateway: the publisher goes on sending the state that contains it.       *)
UpdateArrives == \A s \in Sensors : \A n \in 1..Updates[s] :
    cache[s].last = n ~> \/ got.parts[s].last >= n
                         \/ ~running \/ th["state"] = "done"

=============================================================================
