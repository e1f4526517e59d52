------------------------------- MODULE WsServer -------------------------------
(***************************************************************************)
(* The WebSocket server inside the gateway (src/src/core/ws_server.c): the *)
(* accept thread makes a record and a detached thread for each connection, *)
(* the gateway's writer thread broadcasts telemetry over the list of       *)
(* records, and an experiment cuts, drops or delays what it broadcasts.    *)
(*                                                                         *)
(* mu protects the list of records.  It does not protect a record's alive  *)
(* and fd, nor what is sent on its socket: the record's thread uses them   *)
(* without mu, so those uses are steps that interleave with a broadcast.   *)
(* A record that has been freed and is used again is undefined behaviour:  *)
(* undef records it and the model goes no further (glibc usually aborts).  *)
(* Every connection has a record and a descriptor of its own: the reuse of *)
(* freed memory and of closed descriptors is not modelled.                 *)
(***************************************************************************)
EXTENDS Integers, SequencesExt

CONSTANTS Conns,          \* connections that browsers open
          NoConn,         \* no connection is being set up
          MaxMsgs,        \* bound: calls of ws_server_broadcast
          MaxReqs,        \* bound: frames that are answered by a reply
          CutPlanned,     \* cut_duration_s > 0
          ModeClose,      \* reconnect_mode_close
          Drops, Delays,  \* drop_pct > 0, delay_ms or jitter_ms > 0
          MayStop         \* whether ws_server_stop is called

ASSUME ConnsAssumption == IsFiniteSet(Conns) /\ NoConn \notin Conns
ASSUME MaxAssumption == MaxMsgs \in Nat /\ MaxReqs \in Nat
ASSUME KnobsAssumption == /\ {CutPlanned, ModeClose} \subseteq BOOLEAN
                          /\ {Drops, Delays, MayStop} \subseteq BOOLEAN

VARIABLES
    \* struct ws_server
    running, clients, experimentAnchorSet, cutCloseFired,
    mu,           \* "free", or "bcast" while a broadcast holds it
    \* struct ws_client, for each connection
    mem,          \* the record: "none", "live", "freed"
    alive,
    fd,           \* "none", "open", "stale" (closed, but c->fd still has the
                  \* number), or "closed" (c->fd = -1, or the record is freed)
    \* threads
    acc, newc,    \* accept_thread, and the connection it sets up
    th,           \* client_thread of each connection
    bc, cur,      \* ws_server_broadcast, and its place in the list
    stop,         \* ws_server_stop
    \* what goes over the sockets, and what the environment does
    msg,          \* the message being broadcast is the msg-th
    wire,         \* of each connection, the last piece sent, whether the
                  \* status has been, and the last message that has been
    lost,         \* messages counted in cut_msgs or in dropped_msgs
    reqs,         \* history requests and pings received so far
    clock,        \* experiment time: "before", "cut", "after"
    undef         \* a freed record or server has been used

listVars == <<clients, mu>>
recVars == <<mem, alive, fd>>
cutVars == <<experimentAnchorSet, cutCloseFired, clock>>
accVars == <<acc, newc>>
bcVars == <<bc, cur, msg, lost>>
stopVars == <<running, stop>>
outVars == <<wire, reqs, undef>>
vars == <<listVars, recVars, cutVars, accVars, th, bcVars, stopVars, outVars>>

Msgs == 1..MaxMsgs

(* A frame leaves in two send_all calls, a header and a body; the answer to *)
(* the upgrade request and an empty close frame leave in one.  A reply is   *)
(* the rows, or the error, a history request is answered with, or a pong.   *)
Pieces == ({"status", "reply", "telemetry"} \X {"head", "body"})
          \cup ({"none", "upgrade", "close"} \X {"whole"})

TypeOK ==
    /\ running \in BOOLEAN
    /\ clients \in Seq(Conns)
    /\ experimentAnchorSet \in BOOLEAN /\ cutCloseFired \in BOOLEAN
    /\ mu \in {"free", "bcast"}
    /\ mem \in [Conns -> {"none", "live", "freed"}]
    /\ alive \in [Conns -> BOOLEAN]
    /\ fd \in [Conns -> {"none", "open", "stale", "closed"}]
    /\ acc \in {"loop", "accept", "link", "spawn", "detach", "unspawn",
               "remove", "done"}
    /\ newc \in Conns \cup {NoConn}
    /\ th \in [Conns -> {"none", "shake", "anchor", "status", "statusBody",
                         "loop", "recv", "reply", "replyBody", "close",
                         "exit", "shut", "remove", "free", "done"}]
    /\ bc \in {"idle", "sleep", "next", "head", "body"}
    /\ cur \in Nat \ {0}
    /\ stop \in {"up", "join", "clients", "server", "down"}
    /\ msg \in 0..MaxMsgs
    /\ wire \in [Conns -> [last : Pieces, status : BOOLEAN, shown : 0..MaxMsgs]]
    /\ lost \subseteq Msgs
    /\ reqs \in 0..MaxReqs
    /\ clock \in {"before", "cut", "after"}
    /\ undef \in BOOLEAN

Init ==
    /\ running = TRUE /\ clients = <<>> /\ mu = "free"
    /\ experimentAnchorSet = FALSE /\ cutCloseFired = FALSE
    /\ mem = [c \in Conns |-> "none"]
    /\ alive = [c \in Conns |-> FALSE]
    /\ fd = [c \in Conns |-> "none"]
    /\ acc = "loop" /\ newc = NoConn
    /\ th = [c \in Conns |-> "none"]
    /\ bc = "idle" /\ cur = 1 /\ msg = 0
    /\ stop = "up"
    /\ wire = [c \in Conns |-> [last |-> <<"none", "whole">>, status |-> FALSE,
                                shown |-> 0]]
    /\ lost = {}
    /\ reqs = 0
    /\ clock = "before"
    /\ undef = FALSE

-----------------------------------------------------------------------------
(* accept_thread *)

(* mutant: the loop does not look at running. *)
AcceptsMut == TRUE
Accepts == running

AcceptLoop ==
    /\ acc = "loop"
    /\ acc' = IF Accepts THEN "accept" ELSE "done"
    /\ UNCHANGED <<newc, listVars, recVars, cutVars, th, bcVars, stopVars,
                   outVars>>

(* accept, once called, may bring a connection even after running is cleared *)
Accept(c) ==
    /\ acc = "accept" /\ mem[c] = "none"
    /\ mem' = [mem EXCEPT ![c] = "live"]
    /\ alive' = [alive EXCEPT ![c] = TRUE]
    /\ fd' = [fd EXCEPT ![c] = "open"]
    /\ newc' = c /\ acc' = "link"
    /\ UNCHANGED <<listVars, cutVars, th, bcVars, stopVars, outVars>>

(* accept or calloc fails; accept does so at the latest after its timeout. *)
AcceptFails ==
    /\ acc = "accept"
    /\ acc' = "loop"
    /\ UNCHANGED <<newc, listVars, recVars, cutVars, th, bcVars, stopVars,
                   outVars>>

(* The record enters the list before the handshake has taken place. *)
LinkClient ==
    /\ acc = "link" /\ mu = "free"
    /\ clients' = <<newc>> \o clients
    /\ acc' = "spawn"
    /\ UNCHANGED <<newc, mu, recVars, cutVars, th, bcVars, stopVars, outVars>>

(* Without a thread the record is no longer alive. *)
SpawnThread ==
    /\ acc = "spawn"
    /\ mem[newc] = "live"
    /\ \/ th' = [th EXCEPT ![newc] = "shake"] /\ acc' = "detach"
          /\ alive' = alive
       \/ th' = th /\ acc' = "unspawn"
          /\ alive' = [alive EXCEPT ![newc] = FALSE]
    /\ UNCHANGED <<newc, mem, fd, listVars, cutVars, bcVars, stopVars, outVars>>

(* pthread_detach(c->th) reads the record. *)
DetachThread ==
    /\ acc = "detach"
    /\ mem[newc] = "live"
    /\ acc' = "loop" /\ newc' = NoConn
    /\ UNCHANGED <<listVars, recVars, cutVars, th, bcVars, stopVars, outVars>>

(* mutant: the record stays in the list. *)
WithoutMut(c) == clients

(* client_remove *)
Without(c) == RemoveFirst(clients, c)

(* Its socket is closed, but c->fd keeps the number, which a broadcast that  *)
(* finds the record not alive closes once more.                             *)
UnspawnClose ==
    /\ acc = "unspawn"
    /\ fd' = [fd EXCEPT ![newc] = IF @ = "open" THEN "stale" ELSE @]
    /\ acc' = "remove"
    /\ UNCHANGED <<newc, mem, alive, listVars, cutVars, th, bcVars, stopVars,
                   outVars>>

(* The record is removed from the list and freed. *)
UnspawnClient ==
    /\ acc = "remove" /\ mu = "free"
    /\ mem[newc] = "live"
    /\ clients' = Without(newc)
    /\ mem' = [mem EXCEPT ![newc] = "freed"]
    /\ acc' = "loop" /\ newc' = NoConn
    /\ UNCHANGED <<mu, alive, fd, cutVars, th, bcVars, stopVars, outVars>>

-----------------------------------------------------------------------------
(* client_thread: each step is taken on a record that is still live *)

At(c, step) == th[c] = step /\ mem[c] = "live"
Goto(c, step) == th' = [th EXCEPT ![c] = step]
Sends(c, frame, part) ==
    /\ fd[c] = "open"
    /\ LET sent == <<frame, part>>
       IN wire' = [wire EXCEPT ![c] =
            [last |-> sent,
             status |-> @.status \/ sent = <<"status", "body">>,
             shown |-> IF sent = <<"telemetry", "body">> THEN msg ELSE @.shown]]

(* ws_handshake: a valid request is answered, or the connection is given up *)
Handshake(c) ==
    /\ At(c, "shake")
    /\ \/ Sends(c, "upgrade", "whole") /\ Goto(c, "anchor")
       \/ wire' = wire /\ Goto(c, "exit")
    /\ UNCHANGED <<listVars, recVars, cutVars, accVars, bcVars, stopVars, reqs,
                   undef>>

(* Experiment time starts with the first successful handshake. *)
SetAnchor(c) ==
    /\ At(c, "anchor") /\ mu = "free"
    /\ experimentAnchorSet' = TRUE
    /\ Goto(c, "status")
    /\ UNCHANGED <<listVars, recVars, cutCloseFired, clock, accVars, bcVars,
                   stopVars, outVars>>

(* ws_send_text without mu; a failure ends it, and is not looked at. *)
SendHead(c, step, frame, next) ==
    /\ At(c, step)
    /\ \/ Sends(c, frame, "head") /\ Goto(c, next)
       \/ wire' = wire /\ Goto(c, "loop")
    /\ UNCHANGED <<listVars, recVars, cutVars, accVars, bcVars, stopVars, reqs,
                   undef>>
SendBody(c, step, frame) ==
    /\ At(c, step)
    /\ Sends(c, frame, "body") \/ wire' = wire
    /\ Goto(c, "loop")
    /\ UNCHANGED <<listVars, recVars, cutVars, accVars, bcVars, stopVars, reqs,
                   undef>>

SendStatus(c) == \/ SendHead(c, "status", "status", "statusBody")
                 \/ SendBody(c, "statusBody", "status")
SendReply(c) == \/ SendHead(c, "reply", "reply", "replyBody")
                \/ SendBody(c, "replyBody", "reply")

ClientLoop(c) ==
    /\ At(c, "loop")
    /\ Goto(c, IF running /\ alive[c] THEN "recv" ELSE "exit")
    /\ UNCHANGED <<listVars, recVars, cutVars, accVars, bcVars, stopVars,
                   outVars>>

(* ws_recv_frame fails (a shut down or broken socket, the peer's end, 60 s   *)
(* of silence, no memory), or it brings a frame: a history request or a      *)
(* ping, a close, or one that is ignored.                                    *)
ReceiveFails(c) ==
    /\ At(c, "recv")
    /\ Goto(c, "exit")
    /\ UNCHANGED <<listVars, recVars, cutVars, accVars, bcVars, stopVars,
                   outVars>>

ReceiveRequest(c) ==
    /\ At(c, "recv") /\ fd[c] = "open" /\ reqs < MaxReqs
    /\ reqs' = reqs + 1
    /\ Goto(c, "reply")
    /\ UNCHANGED <<listVars, recVars, cutVars, accVars, bcVars, stopVars, wire,
                   undef>>

ReceiveIgnored(c) ==
    /\ At(c, "recv") /\ fd[c] = "open"
    /\ Goto(c, "loop")
    /\ UNCHANGED <<listVars, recVars, cutVars, accVars, bcVars, stopVars,
                   outVars>>

ReceiveClose(c) ==
    /\ At(c, "recv") /\ fd[c] = "open"
    /\ Goto(c, "close")
    /\ UNCHANGED <<listVars, recVars, cutVars, accVars, bcVars, stopVars,
                   outVars>>

AnswerClose(c) ==
    /\ At(c, "close")
    /\ Sends(c, "close", "whole") \/ wire' = wire
    /\ Goto(c, "exit")
    /\ UNCHANGED <<listVars, recVars, cutVars, accVars, bcVars, stopVars, reqs,
                   undef>>

(* alive is cleared, the socket closed, and fd set to -1. *)
ClientExit(c) ==
    /\ At(c, "exit")
    /\ alive' = [alive EXCEPT ![c] = FALSE]
    /\ Goto(c, "shut")
    /\ UNCHANGED <<listVars, mem, fd, cutVars, accVars, bcVars, stopVars,
                   outVars>>
(* mutant: the thread ends without its record being freed. *)
AfterShutMut == "done"
AfterShut == "remove"

ClientShut(c) ==
    /\ At(c, "shut")
    /\ fd' = [fd EXCEPT ![c] = "closed"]
    /\ Goto(c, AfterShut)
    /\ UNCHANGED <<listVars, mem, alive, cutVars, accVars, bcVars, stopVars,
                   outVars>>

ClientRemove(c) ==
    /\ At(c, "remove") /\ mu = "free"
    /\ clients' = Without(c)
    /\ Goto(c, "free")
    /\ UNCHANGED <<mu, recVars, cutVars, accVars, bcVars, stopVars, outVars>>

ClientFree(c) ==
    /\ At(c, "free")
    /\ mem' = [mem EXCEPT ![c] = "freed"]
    /\ Goto(c, "done")
    /\ UNCHANGED <<listVars, alive, fd, cutVars, accVars, bcVars, stopVars,
                   outVars>>

(* A thread goes on with a record that another thread has freed.  (The      *)
(* records of the threads that would still use a freed server are freed too, *)
(* as Owned says.)                                                           *)
UseFreed ==
    /\ \/ \E c \in Conns : th[c] \notin {"none", "done"} /\ mem[c] = "freed"
       \/ acc \in {"spawn", "detach", "remove"} /\ mem[newc] = "freed"
    /\ undef' = TRUE
    /\ UNCHANGED <<listVars, recVars, cutVars, accVars, th, bcVars, stopVars,
                   wire, reqs>>

-----------------------------------------------------------------------------
(* ws_server_broadcast, called by one thread, one message after another *)

(* impairment_cut_active *)
CutActive == CutPlanned /\ experimentAnchorSet /\ clock = "cut"

(* What closing all records of the list leaves. *)
AliveUnlisted == [c \in Conns |-> alive[c] /\ c \notin Range(clients)]
FdUnlisted == [c \in Conns |-> IF c \in Range(clients) THEN "closed" ELSE fd[c]]

(* The cut: the message is lost and, once per cut, all clients are closed;   *)
(* their records stay in the list.                                           *)
BroadcastCut ==
    /\ bc = "idle" /\ stop = "up" /\ msg < MaxMsgs /\ mu = "free"
    /\ CutActive
    /\ msg' = msg + 1 /\ lost' = lost \cup {msg'}
    /\ IF ModeClose /\ ~cutCloseFired
         THEN cutCloseFired' = TRUE /\ alive' = AliveUnlisted /\ fd' = FdUnlisted
         ELSE UNCHANGED <<cutCloseFired, alive, fd>>
    /\ UNCHANGED <<bc, cur, listVars, mem, experimentAnchorSet, clock, accVars,
                   th, stopVars, outVars>>

(* mutant: the message is counted as dropped, and sent. *)
AfterDropMut == bc' = "next" /\ mu' = "bcast"
AfterDrop == bc' = "idle" /\ mu' = "free"

(* Outside the cut the message is dropped, delayed with mu released, or sent *)
BroadcastStart ==
    /\ bc = "idle" /\ stop = "up" /\ msg < MaxMsgs /\ mu = "free"
    /\ ~CutActive
    /\ msg' = msg + 1
    /\ cutCloseFired' = FALSE
    /\ cur' = 1
    /\ \/ Drops /\ AfterDrop /\ lost' = lost \cup {msg'}
       \/ Delays /\ bc' = "sleep" /\ mu' = "free" /\ lost' = lost
       \/ bc' = "next" /\ mu' = "bcast" /\ lost' = lost
    /\ UNCHANGED <<clients, recVars, experimentAnchorSet, clock, accVars, th,
                   stopVars, outVars>>

BroadcastWakes ==
    /\ bc = "sleep" /\ mu = "free"
    /\ bc' = "next" /\ mu' = "bcast"
    /\ UNCHANGED <<cur, msg, lost, clients, recVars, cutVars, accVars, th,
                   stopVars, outVars>>

(* mutant: the cursor moves on although the record under it has left. *)
CursorSkips == cur + 1
(* mutant: the cursor moves back when the record under it leaves. *)
CursorBack == cur - 1

(* After a removal the cursor is at the next record already. *)
CursorAfterRemoval == cur

(* The record at the cursor leaves the list and is freed. *)
FreeAtCursor ==
    /\ mem' = [mem EXCEPT ![clients[cur]] = "freed"]
    /\ alive' = [alive EXCEPT ![clients[cur]] = FALSE]
    /\ fd' = [fd EXCEPT ![clients[cur]] = "closed"]
    /\ clients' = RemoveAt(clients, cur)
    /\ bc' = "next" /\ cur' = CursorAfterRemoval
    /\ UNCHANGED mu

BroadcastNext ==
    /\ bc = "next" /\ cur <= Len(clients)
    /\ IF alive[clients[cur]]
         THEN bc' = "head" /\ UNCHANGED <<cur, listVars, recVars>>
         ELSE FreeAtCursor
    /\ UNCHANGED <<msg, lost, cutVars, accVars, th, stopVars, outVars>>

BroadcastHead ==
    /\ bc = "head"
    /\ \/ /\ Sends(clients[cur], "telemetry", "head")
          /\ bc' = "body" /\ UNCHANGED <<cur, listVars, recVars>>
       \/ wire' = wire /\ FreeAtCursor
    /\ UNCHANGED <<msg, lost, cutVars, accVars, th, stopVars, reqs, undef>>

(* mutant: the cursor is not advanced. *)
CursorAfterSendMut == cur
CursorAfterSend == cur + 1

BroadcastBody ==
    /\ bc = "body"
    /\ \/ /\ Sends(clients[cur], "telemetry", "body")
          /\ bc' = "next" /\ cur' = CursorAfterSend
          /\ UNCHANGED <<listVars, recVars>>
       \/ wire' = wire /\ FreeAtCursor
    /\ UNCHANGED <<msg, lost, cutVars, accVars, th, stopVars, reqs, undef>>

BroadcastEnds ==
    /\ bc = "next" /\ cur > Len(clients)
    /\ bc' = "idle" /\ mu' = "free" /\ cur' = 1
    /\ UNCHANGED <<msg, lost, clients, recVars, cutVars, accVars, th, stopVars,
                   outVars>>

-----------------------------------------------------------------------------
(* ws_server_stop, called when no broadcast can come any more *)

StopServer ==
    /\ MayStop /\ stop = "up" /\ bc = "idle"
    /\ running' = FALSE
    /\ stop' = "join"
    /\ UNCHANGED <<listVars, recVars, cutVars, accVars, th, bcVars, outVars>>

JoinAccept ==
    /\ stop = "join" /\ acc = "done"
    /\ stop' = "clients"
    /\ UNCHANGED <<running, listVars, recVars, cutVars, accVars, th, bcVars,
                   outVars>>

(* The list is taken under mu, and its records are closed and freed; their  *)
(* detached threads are not waited for.                                     *)
FreeClients ==
    /\ stop = "clients" /\ mu = "free"
    /\ clients' = <<>>
    /\ mem' = [c \in Conns |-> IF c \in Range(clients) THEN "freed" ELSE mem[c]]
    /\ alive' = AliveUnlisted /\ fd' = FdUnlisted
    /\ stop' = "server"
    /\ UNCHANGED <<running, mu, cutVars, accVars, th, bcVars, outVars>>

FreeServer ==
    /\ stop = "server"
    /\ stop' = "down"
    /\ UNCHANGED <<running, listVars, recVars, cutVars, accVars, th, bcVars,
                   outVars>>

-----------------------------------------------------------------------------
(* Experiment time passes once it has been anchored. *)
Tick ==
    /\ CutPlanned /\ experimentAnchorSet
    /\ \/ clock = "before" /\ clock' = "cut"
       \/ clock = "cut" /\ clock' = "after"
    /\ UNCHANGED <<experimentAnchorSet, cutCloseFired, listVars, recVars,
                   accVars, th, bcVars, stopVars, outVars>>

AcceptNext == \/ AcceptLoop \/ AcceptFails \/ \E c \in Conns : Accept(c)
              \/ LinkClient \/ SpawnThread \/ DetachThread
              \/ UnspawnClose \/ UnspawnClient
ClientNext(c) == \/ Handshake(c) \/ SetAnchor(c) \/ SendStatus(c)
                 \/ ClientLoop(c) \/ ReceiveFails(c) \/ ReceiveRequest(c)
                 \/ ReceiveIgnored(c) \/ ReceiveClose(c)
                 \/ SendReply(c) \/ AnswerClose(c)
                 \/ ClientExit(c) \/ ClientShut(c) \/ ClientRemove(c)
                 \/ ClientFree(c)
BroadcastGoesOn == \/ BroadcastWakes \/ BroadcastNext \/ BroadcastHead
                   \/ BroadcastBody \/ BroadcastEnds
StopGoesOn == JoinAccept \/ FreeClients \/ FreeServer

Next == /\ ~undef
        /\ \/ AcceptNext
           \/ \E c \in Conns : ClientNext(c)
           \/ BroadcastCut \/ BroadcastStart \/ BroadcastGoesOn
           \/ StopServer \/ StopGoesOn
           \/ Tick \/ UseFreed

Spec == Init /\ [][Next]_vars

(* Each thread goes on while it can: a send or a receive ends, at the latest *)
(* after the 60 s of its timeout, and so does accept.  Weak fairness is      *)
(* enough for those that wait for mu, because broadcasts are bounded.        *)
FairSpec == /\ Spec
            /\ WF_vars(~undef /\ AcceptNext)
            /\ \A c \in Conns : WF_vars(~undef /\ ClientNext(c))
            /\ WF_vars(~undef /\ BroadcastGoesOn)
            /\ WF_vars(~undef /\ StopGoesOn)
            /\ WF_vars(UseFreed /\ ~undef)

-----------------------------------------------------------------------------
(* Safety *)

(* Memory: every record of the list is live and is in it once, and a live    *)
(* record is always someone's to free: it is in the list, about to enter it, *)
(* or with its own thread, which has taken it out.  So until a freed record  *)
(* is used, none is leaked and no pointer of the list dangles.               *)
Owned ==
    /\ IsInjective(clients)
    /\ \A c \in Conns : mem[c] = "live" <=> \/ c \in Range(clients)
                                            \/ acc = "link" /\ newc = c
                                            \/ th[c] = "free"

(* A broadcast that ends has sent its message to every client that is still  *)
(* in the list, although it takes others out of it on its way.               *)
EveryClientServed ==
    bc = "next" /\ cur > Len(clients)
        => \A c \in Range(clients) : wire[c].shown = msg

(* No client is sent a message twice, or an older one after a newer one.     *)
NoDuplicate == bc = "head" => wire[clients[cur]].shown < msg

(* A message that is counted as cut or as dropped reaches no client, not     *)
(* even one that connects during the cut.                                    *)
LostReachNoOne == \A c \in Conns : wire[c].shown \notin lost

-----------------------------------------------------------------------------
(* Liveness, up to the use of a freed record *)

(* A broadcast ends, and gives mu back. *)
BroadcastReturns == bc # "idle" ~> bc = "idle" \/ undef

(* The record of a connection that has been closed is freed. *)
SeveredLeaves ==
    \A c \in Conns : fd[c] \in {"stale", "closed"} ~> mem[c] = "freed" \/ undef

(* ws_server_stop returns. *)
StopReturns == stop = "join" ~> stop = "down" \/ undef

-----------------------------------------------------------------------------
(* What comments and documents of the repository say, and the code does not  *)
(* do: the runs that check these find a behaviour that breaks them.          *)

(* ws_server.c:5: the status is sent upon connect, that is before telemetry. *)
StatusFirst == \A c \in Conns : wire[c].shown > 0 => wire[c].status

(* ws_server.c:3: text frames are broadcast, so nothing may come between the *)
(* header and the body of a frame.                                           *)
FramesWhole ==
    [][\A c \in Conns :
        wire[c].last[2] = "head" /\ wire'[c] # wire[c]
            => wire'[c].last = <<wire[c].last[1], "body">>]_vars

(* EXPERIMENTS.md:10: telemetry is still received and persisted while the    *)
(* browser is disconnected, so a disconnect leaves the process well-defined. *)
NoUseAfterFree == ~undef

=============================================================================
