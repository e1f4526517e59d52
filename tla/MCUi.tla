--------------------------------- MODULE MCUi ---------------------------------
(***************************************************************************)
(* The instance of Ui that TLC checks: its constants are plain numbers,    *)
(* given in Ui.cfg, and it counts states by what can still matter.         *)
(***************************************************************************)
EXTENDS Ui

(* Nothing is delivered any more on a socket that is closing or closed.  Of *)
(* what was sent and asked on it, all that can still matter is whether the  *)
(* gateway's end of it counts as Listening, now or later: no guard, and no  *)
(* invariant but for types, reads more.  Two states that differ in nothing  *)
(* else have the same future, and TLC visits one of them.                   *)
Deaf(k) == ready[k] \in {"closing", "closed"}
StillUp(k) == IF link[k] # "up" THEN <<>>
              ELSE IF Listening(k) THEN <<TRUE>>
              ELSE <<busy[k], reqs[k] - answered[k]>>
OfSocket(k) == IF Deaf(k) THEN StillUp(k)
               ELSE <<inbox[k], link[k], reqs[k], loaded[k], answered[k], fetched[k],
                      busy[k]>>
Heard == <<pageVars, logVars, clicks, ready, persisted, sent, cut,
           [k \in Sockets |-> OfSocket(k)]>>
=============================================================================
