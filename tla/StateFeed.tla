------------------------------ MODULE StateFeed ------------------------------
(***************************************************************************)
(* What the robot simulator promises to the gateway: the sensors advance   *)
(* one state, one update at a time; a message is the whole of that state   *)
(* at one moment, numbered by the updates made until then; messages arrive *)
(* in the order in which they were taken, and any of them may be lost.     *)
(***************************************************************************)
EXTENDS Naturals, SequencesExt

CONSTANT Sensors

VARIABLES now,            \* the update each sensor has reached
          count,          \* updates of all sensors
          flight,         \* messages taken and neither lost nor received yet
          got             \* the last message received

fVars == <<now, count, flight, got>>

(* The state as a message carries it. *)
StateNow == [parts |-> [s \in Sensors |-> [first |-> now[s], last |-> now[s]]],
             seq |-> count]

FeedInit == /\ now = [s \in Sensors |-> 0]
            /\ count = 0
            /\ flight = <<>>
            /\ got = StateNow

Update(s) == /\ now' = [now EXCEPT ![s] = @ + 1]
             /\ count' = count + 1
             /\ UNCHANGED <<flight, got>>

Take == /\ flight' = Append(flight, StateNow)
        /\ UNCHANGED <<now, count, got>>

Drop(i) == /\ flight' = RemoveAt(flight, i)
           /\ UNCHANGED <<now, count, got>>

Receive == /\ flight # <<>>
           /\ got' = Head(flight) /\ flight' = Tail(flight)
           /\ UNCHANGED <<now, count>>

FeedNext == \/ \E s \in Sensors : Update(s)
            \/ Take
            \/ \E i \in 1..Len(flight) : Drop(i)
            \/ Receive

FeedSpec == FeedInit /\ [][FeedNext]_fVars

=============================================================================
