----------------------------- MODULE SampleStore -----------------------------
(***************************************************************************)
(* What the gateway promises about the samples it accepts: they wait in    *)
(* the order they were received, and the oldest of them are settled        *)
(* together, all of them entering the durable log, in that order, or none. *)
(* A process that stops or dies loses what still waits and nothing else.   *)
(***************************************************************************)
EXTENDS Naturals, Sequences, Functions

CONSTANT Samples          \* natural numbers, in the order of reception

VARIABLES pending,        \* accepted samples whose fate is still open
          log             \* durable samples

sVars == <<pending, log>>

StoreTypeOK == /\ pending \in Seq(Samples)
               /\ log \in Seq(Samples)

StoreInit == /\ pending = <<>>
             /\ log = <<>>

(* A sample is accepted after every sample that is pending or durable. *)
Accept == \E s \in Samples :
    /\ \A old \in Range(pending) \cup Range(log) : old < s
    /\ pending' = Append(pending, s)
    /\ UNCHANGED log

(* The k oldest pending samples become durable together, or are given up. *)
Settle == \E k \in 1..Len(pending) :
    /\ pending' = SubSeq(pending, k + 1, Len(pending))
    /\ log' \in {log, log \o SubSeq(pending, 1, k)}

(* A stop or a crash gives up everything that is pending. *)
Lose == /\ pending' = <<>>
        /\ UNCHANGED log

StoreNext == Accept \/ Settle \/ Lose

StoreSpec == StoreInit /\ [][StoreNext]_sVars

=============================================================================
