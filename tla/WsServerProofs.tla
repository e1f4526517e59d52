--------------------------- MODULE WsServerProofs ---------------------------
(***************************************************************************)
(* Proofs about WsServer for every set of connections, every number of     *)
(* messages and requests, and every setting of an experiment.              *)
(***************************************************************************)
EXTENDS WsServer, SequenceTheorems, WellFoundedInduction, TLAPS

(* Who has a record: a connection that is being set up has no thread yet, a *)
(* record that was never made is nobody's, and one that its thread is about *)
(* to free is in the list no more.                                          *)
RecordInv ==
    /\ acc \in {"link", "spawn", "detach", "unspawn", "remove"} => newc \in Conns
    /\ acc \in {"link", "spawn", "unspawn", "remove"} => th[newc] = "none"
    /\ acc = "link" => newc \notin Range(clients)
    /\ \A c \in Conns : mem[c] = "none" => th[c] = "none"
    /\ \A c \in Conns : th[c] = "free" => c \notin Range(clients)

Sending == bc \in {"next", "head", "body"}

(* A broadcast holds mu while it sends.  The clients before its cursor have *)
(* the message, and none of those from the cursor on has it.                *)
TurnInv ==
    /\ mu = "bcast" <=> Sending
    /\ bc \in {"head", "body"} => cur <= Len(clients)
    /\ \A c \in Conns : wire[c].shown <= msg
    /\ bc = "sleep" => cur = 1 /\ \A c \in Conns : wire[c].shown < msg
    /\ Sending =>
         /\ cur <= Len(clients) + 1
         /\ \A i \in 1..Len(clients) :
              /\ i < cur => wire[clients[i]].shown = msg
              /\ cur <= i => wire[clients[i]].shown < msg

(* The message of a broadcast that goes on is not one of the lost.          *)
LostInv == /\ lost \subseteq 1..msg
           /\ bc # "idle" => msg \notin lost
           /\ LostReachNoOne

IInv == TypeOK /\ RecordInv /\ Owned /\ TurnInv /\ LostInv

Wires == [last : Pieces, status : BOOLEAN, shown : 0..MaxMsgs]
Steps == {"none", "shake", "anchor", "status", "statusBody", "loop", "recv", "reply",
          "replyBody", "close", "exit", "shut", "remove", "free", "done"}

-----------------------------------------------------------------------------
(* Lists without a repetition *)

(* What RemoveAt leaves of a sequence.                                      *)
LEMMA RemoveAtElements ==
    ASSUME NEW S, NEW s \in Seq(S), NEW i \in 1..Len(s)
    PROVE  /\ RemoveAt(s, i) \in Seq(S)
           /\ Len(RemoveAt(s, i)) = Len(s) - 1
           /\ \A j \in 1..(Len(s) - 1) :
                 RemoveAt(s, i)[j] = IF j < i THEN s[j] ELSE s[j + 1]
<1> DEFINE a == SubSeq(s, 1, i - 1)
           b == SubSeq(s, i + 1, Len(s))
<1>1. Len(s) \in Nat /\ \A j \in 1..Len(s) : s[j] \in S
  BY LenProperties, ElementOfSeq
<1>2. a \in Seq(S) /\ Len(a) = i - 1 /\ \A j \in 1..(i - 1) : a[j] = s[j]
  <2>1. \A j \in 1..(i - 1) : s[j] \in S
    BY <1>1
  <2>2. /\ a \in Seq(S) /\ Len(a) = (IF 1 <= i - 1 THEN (i - 1) - 1 + 1 ELSE 0)
        /\ \A j \in 1..((i - 1) - 1 + 1) : a[j] = s[1 + j - 1]
    BY <1>1, <2>1, SubSeqProperties
  <2>3. QED
    BY <1>1, <2>2
<1>3. b \in Seq(S) /\ Len(b) = Len(s) - i /\ \A j \in 1..(Len(s) - i) : b[j] = s[i + j]
  <2>1. \A j \in (i + 1)..Len(s) : s[j] \in S
    BY <1>1
  <2>2. /\ b \in Seq(S)
        /\ Len(b) = (IF i + 1 <= Len(s) THEN Len(s) - (i + 1) + 1 ELSE 0)
        /\ \A j \in 1..(Len(s) - (i + 1) + 1) : b[j] = s[(i + 1) + j - 1]
    BY <1>1, <2>1, SubSeqProperties
  <2>3. QED
    BY <1>1, <2>2
<1>4. RemoveAt(s, i) = a \o b
  BY DEF RemoveAt
<1> HIDE DEF a, b
<1>5. /\ a \o b \in Seq(S) /\ Len(a \o b) = Len(a) + Len(b)
      /\ \A j \in 1..(Len(a) + Len(b)) :
            (a \o b)[j] = IF j <= Len(a) THEN a[j] ELSE b[j - Len(a)]
  BY <1>2, <1>3, ConcatProperties
<1>6. Len(a \o b) = Len(s) - 1
  BY <1>1, <1>2, <1>3, <1>5
<1>7. ASSUME NEW j \in 1..(Len(s) - 1)
      PROVE  (a \o b)[j] = IF j < i THEN s[j] ELSE s[j + 1]
  <2>1. CASE j < i
    BY <1>1, <1>2, <1>3, <1>5, <2>1
  <2>2. CASE ~(j < i)
    <3>1. j - (i - 1) \in 1..(Len(s) - i) /\ i + (j - (i - 1)) = j + 1
      BY <1>1, <2>2
    <3>2. (a \o b)[j] = b[j - (i - 1)]
      BY <1>1, <1>2, <1>3, <1>5, <2>2
    <3>3. QED
      BY <1>3, <2>2, <3>1, <3>2
  <2>3. QED
    BY <2>1, <2>2
<1>8. QED
  BY <1>4, <1>5, <1>6, <1>7

(* Without one element, a list that has each element once has it no more,   *)
(* and still has the others once.                                           *)
LEMMA RemoveAtOnce ==
    ASSUME NEW S, NEW s \in Seq(S), IsInjective(s), NEW i \in 1..Len(s)
    PROVE  /\ IsInjective(RemoveAt(s, i))
           /\ Range(RemoveAt(s, i)) = Range(s) \ {s[i]}
<1>1. PICK t \in Seq(S) : t = RemoveAt(s, i)
  BY RemoveAtElements
<1>2. /\ Len(s) \in Nat /\ Len(t) = Len(s) - 1
      /\ \A j \in 1..Len(t) : t[j] = IF j < i THEN s[j] ELSE s[j + 1]
  BY <1>1, RemoveAtElements, LenProperties
<1>3. DOMAIN s = 1..Len(s) /\ DOMAIN t = 1..Len(t)
  BY LenProperties
<1>4. \A j, k \in 1..Len(s) : s[j] = s[k] => j = k
  BY <1>3 DEF IsInjective
<1>5. \A j, k \in 1..Len(t) : t[j] = t[k] => j = k
  <2>1. SUFFICES ASSUME NEW j \in 1..Len(t), NEW k \in 1..Len(t), j # k
                 PROVE  t[j] # t[k]
    OBVIOUS
  <2>2. /\ j \in 1..Len(s) /\ j + 1 \in 1..Len(s) /\ k \in 1..Len(s) /\ k + 1 \in 1..Len(s)
        /\ j < i /\ ~(k < i) => j # k + 1
        /\ ~(j < i) /\ k < i => j + 1 # k
        /\ j + 1 # k + 1
    BY <1>2, <2>1
  <2>3. QED
    BY <1>2, <1>4, <2>1, <2>2
<1>6. \A j \in 1..Len(t) : t[j] \in Range(s) \ {s[i]}
  <2>1. SUFFICES ASSUME NEW j \in 1..Len(t)
                 PROVE  t[j] \in Range(s) \ {s[i]}
    OBVIOUS
  <2>2. /\ j \in 1..Len(s) /\ j + 1 \in 1..Len(s)
        /\ j < i => j # i
        /\ ~(j < i) => j + 1 # i
    BY <1>2
  <2>3. QED
    BY <1>2, <1>3, <1>4, <2>2 DEF Range
<1>7. \A k \in 1..Len(s) : k # i => s[k] \in Range(t)
  <2>1. SUFFICES ASSUME NEW k \in 1..Len(s), k # i
                 PROVE  \E j \in 1..Len(t) : t[j] = s[k]
    BY <1>3 DEF Range
  <2>2. CASE k < i
    <3>1. k \in 1..Len(t)
      BY <1>2, <2>2
    <3>2. QED
      BY <1>2, <2>2, <3>1
  <2>3. CASE i < k
    <3>1. k - 1 \in 1..Len(t) /\ ~(k - 1 < i) /\ (k - 1) + 1 = k
      BY <1>2, <2>3
    <3>2. QED
      BY <1>2, <3>1
  <2>4. QED
    BY <1>2, <2>1, <2>2, <2>3
<1>8. Range(t) = Range(s) \ {s[i]}
  BY <1>3, <1>6, <1>7 DEF Range
<1>9. QED
  BY <1>1, <1>3, <1>5, <1>8 DEF IsInjective

(* client_remove takes out the record it is given, wherever it is.          *)
LEMMA RemoveFirstOnce ==
    ASSUME NEW S, NEW s \in Seq(S), IsInjective(s), NEW c
    PROVE  /\ RemoveFirst(s, c) \in Seq(S) /\ IsInjective(RemoveFirst(s, c))
           /\ Range(RemoveFirst(s, c)) = Range(s) \ {c}
<1> DEFINE I == {i \in 1..Len(s) : s[i] = c}
<1>1. Len(s) \in Nat /\ DOMAIN s = 1..Len(s)
  BY LenProperties
<1>2. CASE I = {}
  BY <1>1, <1>2 DEF RemoveFirst, Range
<1>3. CASE I # {}
  <2>1. I \subseteq Nat
    BY <1>1
  <2>2. PICK m \in I : \A n \in I : ~(<<n, m>> \in OpToRel(<, Nat))
    BY <1>3, <2>1, NatLessThanWellFounded, WFMin
  <2>3. ASSUME NEW n \in I
        PROVE  m <= n
    <3>1. n \in Nat /\ m \in Nat
      BY <2>1
    <3>2. ASSUME NEW j \in Nat, NEW k \in Nat, j < k
          PROVE  <<j, k>> \in OpToRel(<, Nat)
      BY <3>2 DEF OpToRel
    <3>3. ~(n < m)
      BY <2>2, <3>1, <3>2
    <3>4. QED
      BY <3>1, <3>3
  <2>4. SelectInSeq(s, LAMBDA v : v = c) \in I
    BY <1>3, <2>3 DEF SelectInSeq, Min
  <2>5. PICK i \in 1..Len(s) : s[i] = c /\ RemoveFirst(s, c) = RemoveAt(s, i)
    BY <1>3, <2>4 DEF RemoveFirst
  <2>6. /\ RemoveAt(s, i) \in Seq(S) /\ IsInjective(RemoveAt(s, i))
        /\ Range(RemoveAt(s, i)) = Range(s) \ {s[i]}
    BY RemoveAtElements, RemoveAtOnce
  <2>7. QED
    BY <2>5, <2>6
<1>4. QED
  BY <1>2, <1>3

(* A new record at the head of the list.                                    *)
LEMMA PushedOnce ==
    ASSUME NEW S, NEW s \in Seq(S), IsInjective(s), NEW x \in S, x \notin Range(s)
    PROVE  /\ <<x>> \o s \in Seq(S) /\ IsInjective(<<x>> \o s)
           /\ Range(<<x>> \o s) = Range(s) \cup {x}
<1>0. <<x>> \in Seq(S) /\ Len(<<x>>) = 1 /\ <<x>>[1] = x
  OBVIOUS
<1>1. PICK h \in Seq(S) : h = <<x>> /\ Len(h) = 1 /\ h[1] = x
  BY <1>0
<1>2. /\ h \o s \in Seq(S) /\ Len(h \o s) = 1 + Len(s)
      /\ \A i \in 1..(1 + Len(s)) : (h \o s)[i] = IF i <= 1 THEN h[i] ELSE s[i - 1]
  BY <1>1, ConcatProperties
<1>3. PICK t \in Seq(S) : t = h \o s
  BY <1>2
<1>4. /\ Len(s) \in Nat /\ DOMAIN s = 1..Len(s) /\ DOMAIN t = 1..Len(t)
      /\ Len(t) = 1 + Len(s)
  BY <1>2, <1>3, LenProperties
<1>5. t[1] = x /\ \A i \in 2..Len(t) : i - 1 \in 1..Len(s) /\ t[i] = s[i - 1]
  BY <1>1, <1>2, <1>3, <1>4
<1>6. \A i \in 1..Len(t) : i = 1 \/ i \in 2..Len(t)
  BY <1>4
<1>7. \A i \in 1..Len(s) : i + 1 \in 2..Len(t) /\ (i + 1) - 1 = i
  BY <1>4
<1>8. \A i \in 1..Len(s) : s[i] # x
  BY <1>4 DEF Range
<1>9. \A i, j \in 1..Len(s) : s[i] = s[j] => i = j
  BY <1>4 DEF IsInjective
<1>10. ASSUME NEW i \in 1..Len(t), NEW j \in 1..Len(t), t[i] = t[j]
       PROVE  i = j
  <2>1. CASE i = 1
    BY <1>5, <1>6, <1>8, <1>10, <2>1
  <2>2. CASE j = 1
    BY <1>5, <1>6, <1>8, <1>10, <2>2
  <2>3. CASE i \in 2..Len(t) /\ j \in 2..Len(t)
    <3>1. i - 1 = j - 1
      BY <1>5, <1>9, <1>10, <2>3
    <3>2. QED
      BY <3>1, <1>4
  <2>4. QED
    BY <1>6, <2>1, <2>2, <2>3
<1>11. Range(t) = Range(s) \cup {x}
  <2>1. \A i \in 1..Len(t) : t[i] \in Range(s) \cup {x}
    BY <1>4, <1>5, <1>6 DEF Range
  <2>2. \A i \in 1..Len(s) : t[i + 1] = s[i] /\ i + 1 \in 1..Len(t) /\ 1 \in 1..Len(t)
    BY <1>4, <1>5, <1>7
  <2>3. x \in Range(t)
    <3>1. 1 \in 1..Len(t)
      BY <1>4
    <3>2. QED
      BY <1>4, <1>5, <3>1 DEF Range
  <2>4. Range(s) \subseteq Range(t)
    BY <1>4, <2>2 DEF Range
  <2>5. QED
    BY <1>4, <2>1, <2>3, <2>4 DEF Range
<1>12. QED
  BY <1>1, <1>3, <1>4, <1>10, <1>11 DEF IsInjective

-----------------------------------------------------------------------------
(* The steps *)

Talks(c) == \/ Handshake(c) \/ SetAnchor(c) \/ SendStatus(c) \/ SendReply(c)
            \/ ClientLoop(c) \/ ReceiveFails(c) \/ ReceiveRequest(c)
            \/ ReceiveIgnored(c) \/ ReceiveClose(c) \/ AnswerClose(c)
            \/ ClientExit(c) \/ ClientShut(c)
Waits == AcceptLoop \/ AcceptFails \/ DetachThread
Elsewhere == \/ StopServer \/ JoinAccept \/ FreeServer \/ Tick \/ UseFreed
             \/ UNCHANGED vars
Records == \/ LinkClient \/ SpawnThread \/ UnspawnClose \/ UnspawnClient \/ FreeClients
           \/ \E c \in Conns : Accept(c) \/ ClientRemove(c) \/ ClientFree(c)
Broadcasts == \/ BroadcastCut \/ BroadcastStart \/ BroadcastWakes \/ BroadcastEnds
              \/ BroadcastNext \/ BroadcastHead \/ BroadcastBody

(* A step is one of the client threads', of the accept thread's, of the     *)
(* broadcast's, or one that touches neither the list nor a thread.          *)
LEMMA NextActions ==
    ASSUME [Next]_vars
    PROVE  \/ \E c \in Conns : Talks(c)
           \/ Waits \/ Elsewhere \/ Records \/ Broadcasts
BY DEF Next, AcceptNext, ClientNext, BroadcastGoesOn, StopGoesOn, Talks, Waits,
   Elsewhere, Records, Broadcasts

(* Only the body of a telemetry frame shows a client the message.           *)
LEMMA SendsKeep ==
    ASSUME wire \in [Conns -> Wires], msg \in 0..MaxMsgs, NEW c \in Conns,
           NEW frame, NEW part, <<frame, part>> \in Pieces, Sends(c, frame, part)
    PROVE  /\ wire' \in [Conns -> Wires]
           /\ \A d \in Conns \ {c} : wire'[d] = wire[d]
           /\ wire'[c].shown = IF frame = "telemetry" /\ part = "body" THEN msg
                               ELSE wire[c].shown
<1>1. PICK new : /\ wire' = [wire EXCEPT ![c] = new]
                 /\ new = [last |-> <<frame, part>>,
                           status |-> wire[c].status \/ <<frame, part>> = <<"status", "body">>,
                           shown |-> IF <<frame, part>> = <<"telemetry", "body">> THEN msg
                                     ELSE wire[c].shown]
  BY DEF Sends
<1>2. wire[c] \in Wires
  OBVIOUS
<1>3. wire[c].status \in BOOLEAN /\ wire[c].shown \in 0..MaxMsgs
  BY <1>2 DEF Wires
<1>4. new \in Wires
  BY <1>1, <1>3 DEF Wires
<1>5. <<frame, part>> = <<"telemetry", "body">> <=> frame = "telemetry" /\ part = "body"
  OBVIOUS
<1>6. QED
  BY <1>1, <1>4, <1>5

(* Between the handshake and its end a client's thread leaves the list, the *)
(* records of others and the broadcast alone, and shows no message.         *)
LEMMA TalkStep ==
    ASSUME TypeOK, NEW c \in Conns, Talks(c)
    PROVE  /\ UNCHANGED <<listVars, mem, cutCloseFired, clock, accVars, bcVars, stopVars,
                          undef>>
           /\ th' \in [Conns -> Steps]
           /\ \A d \in Conns : /\ th'[d] = "free" <=> th[d] = "free"
                               /\ th'[d] = "none" <=> th[d] = "none"
           /\ wire' \in [Conns -> Wires]
           /\ \A d \in Conns : wire'[d].shown = wire[d].shown
           /\ alive' \in [Conns -> BOOLEAN]
           /\ fd' \in [Conns -> {"none", "open", "stale", "closed"}]
           /\ experimentAnchorSet' \in BOOLEAN /\ reqs' \in 0..MaxReqs
<1> USE DEF listVars, recVars, cutVars, accVars, bcVars, stopVars, outVars
<1>0. /\ th \in [Conns -> Steps] /\ wire \in [Conns -> Wires] /\ msg \in 0..MaxMsgs
      /\ alive \in [Conns -> BOOLEAN] /\ fd \in [Conns -> {"none", "open", "stale", "closed"}]
      /\ experimentAnchorSet \in BOOLEAN /\ reqs \in 0..MaxReqs
  BY DEF TypeOK, Steps, Wires
<1>1. \E q \in Steps \ {"none", "free"} :
         th[c] \notin {"none", "free"} /\ th' = [th EXCEPT ![c] = q]
  <2>1. CASE Handshake(c) \/ SetAnchor(c)
    BY <2>1 DEF Handshake, SetAnchor, At, Goto, Steps
  <2>2. CASE SendStatus(c)
    BY <2>2 DEF SendStatus, SendHead, SendBody, At, Goto, Steps
  <2>3. CASE SendReply(c)
    BY <2>3 DEF SendReply, SendHead, SendBody, At, Goto, Steps
  <2>4. CASE ClientLoop(c)
    BY <2>4 DEF ClientLoop, At, Goto, Steps
  <2>5. CASE ReceiveFails(c) \/ ReceiveRequest(c) \/ ReceiveIgnored(c) \/ ReceiveClose(c)
    BY <2>5 DEF ReceiveFails, ReceiveRequest, ReceiveIgnored, ReceiveClose, At, Goto, Steps
  <2>6. CASE AnswerClose(c) \/ ClientExit(c) \/ ClientShut(c)
    BY <2>6 DEF AnswerClose, ClientExit, ClientShut, AfterShut, At, Goto, Steps
  <2>7. QED
    BY <2>1, <2>2, <2>3, <2>4, <2>5, <2>6 DEF Talks
<1>2. \/ wire' = wire
      \/ \E frame, part : /\ <<frame, part>> \in Pieces /\ Sends(c, frame, part)
                          /\ frame # "telemetry"
  <2>1. CASE Handshake(c)
    BY <2>1 DEF Handshake, Pieces
  <2>2. CASE SendStatus(c)
    BY <2>2 DEF SendStatus, SendHead, SendBody, Pieces
  <2>3. CASE SendReply(c)
    BY <2>3 DEF SendReply, SendHead, SendBody, Pieces
  <2>4. CASE AnswerClose(c)
    BY <2>4 DEF AnswerClose, Pieces
  <2>5. CASE \/ SetAnchor(c) \/ ClientLoop(c) \/ ReceiveFails(c) \/ ReceiveRequest(c)
             \/ ReceiveIgnored(c) \/ ReceiveClose(c) \/ ClientExit(c) \/ ClientShut(c)
    BY <2>5 DEF SetAnchor, ClientLoop, ReceiveFails, ReceiveRequest, ReceiveIgnored,
       ReceiveClose, ClientExit, ClientShut
  <2>6. QED
    BY <2>1, <2>2, <2>3, <2>4, <2>5 DEF Talks
<1>3. wire' \in [Conns -> Wires] /\ \A d \in Conns : wire'[d].shown = wire[d].shown
  <2>1. CASE wire' = wire
    BY <1>0, <2>1
  <2>2. CASE wire' # wire
    <3>1. PICK frame, part : /\ <<frame, part>> \in Pieces /\ Sends(c, frame, part)
                             /\ frame # "telemetry"
      BY <1>2, <2>2
    <3>2. QED
      BY <1>0, <3>1, SendsKeep
  <2>3. QED
    BY <2>1, <2>2
<1>4. /\ UNCHANGED <<listVars, mem, cutCloseFired, clock, accVars, bcVars, stopVars, undef>>
      /\ experimentAnchorSet' = experimentAnchorSet \/ experimentAnchorSet' = TRUE
      /\ reqs' = reqs \/ (reqs < MaxReqs /\ reqs' = reqs + 1)
  <2>1. CASE Handshake(c) \/ SetAnchor(c) \/ AnswerClose(c) \/ ClientExit(c) \/ ClientShut(c)
    BY <2>1 DEF Handshake, SetAnchor, AnswerClose, ClientExit, ClientShut
  <2>2. CASE SendStatus(c) \/ SendReply(c)
    BY <2>2 DEF SendStatus, SendReply, SendHead, SendBody
  <2>3. CASE \/ ClientLoop(c) \/ ReceiveFails(c) \/ ReceiveRequest(c)
             \/ ReceiveIgnored(c) \/ ReceiveClose(c)
    BY <2>3 DEF ClientLoop, ReceiveFails, ReceiveRequest, ReceiveIgnored, ReceiveClose
  <2>4. QED
    BY <2>1, <2>2, <2>3 DEF Talks
<1>5. /\ alive' = alive \/ alive' = [alive EXCEPT ![c] = FALSE]
      /\ fd' = fd \/ fd' = [fd EXCEPT ![c] = "closed"]
  BY DEF Talks, Handshake, SetAnchor, SendStatus, SendReply, SendHead, SendBody,
     ClientLoop, ReceiveFails, ReceiveRequest, ReceiveIgnored, ReceiveClose, AnswerClose,
     ClientExit, ClientShut
<1>6. reqs' \in 0..MaxReqs
  <2>1. MaxReqs \in Nat
    BY MaxAssumption
  <2>2. QED
    BY <1>0, <1>4, <2>1
<1>7. QED
  BY <1>0, <1>1, <1>3, <1>4, <1>5, <1>6

(* A step that leaves the list and the records alone leaves them owned.     *)
LEMMA RecordsKept ==
    ASSUME IInv, UNCHANGED <<clients, mem>>,
           \/ UNCHANGED <<acc, newc>>
           \/ acc # "link" /\ acc' \in {"loop", "accept", "done"},
           \A d \in Conns : /\ th'[d] = "free" <=> th[d] = "free"
                            /\ th'[d] = "none" <=> th[d] = "none"
    PROVE  RecordInv' /\ Owned'
<1>1. RecordInv /\ Owned
  BY DEF IInv
<1>2. RecordInv'
  BY <1>1 DEF RecordInv
<1>3. Owned'
  BY <1>1 DEF Owned
<1>4. QED
  BY <1>2, <1>3

(* What a broadcast does to the list: nothing, or the record at its cursor  *)
(* is taken out and freed.                                                  *)
LEMMA BroadcastShape ==
    ASSUME TypeOK, Broadcasts
    PROVE  /\ UNCHANGED <<th, accVars>>
           /\ \/ UNCHANGED <<clients, mem>>
              \/ /\ bc \in {"next", "head", "body"}
                 /\ bc = "next" => cur <= Len(clients)
                 /\ FreeAtCursor /\ UNCHANGED <<msg, lost, wire>>
<1> USE DEF listVars, recVars, cutVars, accVars, bcVars, stopVars, outVars
<1>1. CASE BroadcastCut \/ BroadcastStart \/ BroadcastWakes \/ BroadcastEnds
  BY <1>1 DEF BroadcastCut, BroadcastStart, BroadcastWakes, BroadcastEnds
<1>2. CASE BroadcastNext
  BY <1>2 DEF BroadcastNext
<1>3. CASE BroadcastHead
  BY <1>3 DEF BroadcastHead
<1>4. CASE BroadcastBody
  BY <1>4 DEF BroadcastBody
<1>5. QED
  BY <1>1, <1>2, <1>3, <1>4 DEF Broadcasts

(* The record at the cursor of a broadcast, and the list without it.        *)
LEMMA FreedAtCursor ==
    ASSUME IInv, Broadcasts, ~UNCHANGED <<clients, mem>>
    PROVE  /\ cur \in 1..Len(clients) /\ clients[cur] \in Range(clients)
           /\ clients' \in Seq(Conns) /\ IsInjective(clients')
           /\ Range(clients') = Range(clients) \ {clients[cur]}
           /\ Len(clients') = Len(clients) - 1
           /\ \A j \in 1..Len(clients') :
                 clients'[j] = IF j < cur THEN clients[j] ELSE clients[j + 1]
           /\ Sending /\ FreeAtCursor /\ UNCHANGED <<msg, lost, wire>>
<1>1. /\ clients \in Seq(Conns) /\ cur \in Nat \ {0} /\ IsInjective(clients)
      /\ bc \in {"head", "body"} => cur <= Len(clients)
  BY DEF IInv, TypeOK, Owned, TurnInv
<1>2. /\ bc \in {"next", "head", "body"}
      /\ bc = "next" => cur <= Len(clients)
      /\ FreeAtCursor /\ UNCHANGED <<msg, lost, wire>>
  BY BroadcastShape DEF IInv
<1>3. Len(clients) \in Nat /\ DOMAIN clients = 1..Len(clients)
  BY <1>1, LenProperties
<1>4. cur \in 1..Len(clients)
  <2>1. cur <= Len(clients)
    BY <1>1, <1>2
  <2>2. cur \in Nat \ {0} /\ Len(clients) \in Nat
    BY <1>1, <1>3
  <2>3. QED
    BY <2>1, <2>2
<1>5. clients' = RemoveAt(clients, cur)
  BY <1>2 DEF FreeAtCursor
<1>6. /\ clients' \in Seq(Conns) /\ Len(clients') = Len(clients) - 1
      /\ \A j \in 1..(Len(clients) - 1) :
            clients'[j] = IF j < cur THEN clients[j] ELSE clients[j + 1]
  BY <1>1, <1>4, <1>5, RemoveAtElements
<1>7. IsInjective(clients') /\ Range(clients') = Range(clients) \ {clients[cur]}
  BY <1>1, <1>4, <1>5, RemoveAtOnce
<1>8. clients[cur] \in Range(clients)
  BY <1>3, <1>4 DEF Range
<1>9. Sending
  BY <1>2 DEF Sending
<1>10. \A j \in 1..Len(clients') :
         clients'[j] = IF j < cur THEN clients[j] ELSE clients[j + 1]
  BY <1>6
<1>11. QED
  BY <1>2, <1>4, <1>6, <1>7, <1>8, <1>9, <1>10

(* Every step keeps the list without repetition, and each record with its   *)
(* owner: none of the places that free one leaves it in the list.           *)
LEMMA RecordStep ==
    ASSUME IInv, [Next]_vars
    PROVE  RecordInv' /\ Owned' /\ clients' \in Seq(Conns)
<1> USE DEF listVars, recVars, cutVars, accVars, bcVars, stopVars, outVars
<1>0. /\ clients \in Seq(Conns) /\ IsInjective(clients)
      /\ mem \in [Conns -> {"none", "live", "freed"}] /\ th \in [Conns -> Steps]
      /\ RecordInv /\ Owned /\ TypeOK
      /\ \A c \in Conns : c \in Range(clients) => mem[c] = "live"
  BY DEF IInv, TypeOK, Owned, Steps
<1>1. CASE \E c \in Conns : Talks(c)
  <2>1. UNCHANGED <<clients, mem, acc, newc>>
        /\ \A d \in Conns : /\ th'[d] = "free" <=> th[d] = "free"
                            /\ th'[d] = "none" <=> th[d] = "none"
    BY <1>0, <1>1, TalkStep
  <2>2. QED
    BY <1>0, <2>1, RecordsKept
<1>2. CASE Waits
  <2>1. UNCHANGED <<clients, mem, th>> /\ acc # "link" /\ acc' \in {"loop", "accept", "done"}
    BY <1>2 DEF Waits, AcceptLoop, AcceptFails, DetachThread
  <2>2. QED
    BY <1>0, <2>1, RecordsKept
<1>3. CASE Elsewhere
  <2>1. UNCHANGED <<clients, mem, th, acc, newc>>
    BY <1>3 DEF Elsewhere, StopServer, JoinAccept, FreeServer, Tick, UseFreed, vars
  <2>2. QED
    BY <1>0, <2>1, RecordsKept
<1>4. ASSUME NEW c \in Conns, Accept(c)
      PROVE  RecordInv' /\ Owned' /\ clients' \in Seq(Conns)
  <2>1. /\ acc = "accept" /\ mem[c] = "none" /\ mem' = [mem EXCEPT ![c] = "live"]
        /\ newc' = c /\ acc' = "link" /\ UNCHANGED <<clients, th>>
    BY <1>4 DEF Accept
  <2>2. RecordInv'
    BY <1>0, <2>1 DEF RecordInv
  <2>3. Owned'
    BY <1>0, <2>1 DEF Owned, RecordInv
  <2>4. QED
    BY <1>0, <2>1, <2>2, <2>3
<1>5. CASE LinkClient
  <2>1. /\ acc = "link" /\ clients' = <<newc>> \o clients /\ acc' = "spawn"
        /\ UNCHANGED <<newc, mem, th>>
    BY <1>5 DEF LinkClient
  <2>2. newc \in Conns /\ newc \notin Range(clients) /\ th[newc] = "none"
    BY <1>0, <2>1 DEF RecordInv
  <2>3. /\ clients' \in Seq(Conns) /\ IsInjective(clients')
        /\ Range(clients') = Range(clients) \cup {newc}
    BY <1>0, <2>1, <2>2, PushedOnce
  <2>4. RecordInv'
    BY <1>0, <2>1, <2>2, <2>3 DEF RecordInv
  <2>5. Owned'
    BY <1>0, <2>1, <2>2, <2>3 DEF Owned
  <2>6. QED
    BY <2>3, <2>4, <2>5
<1>6. CASE SpawnThread
  <2>1. /\ acc = "spawn" /\ mem[newc] = "live" /\ UNCHANGED <<clients, mem, newc>>
        /\ \/ th' = [th EXCEPT ![newc] = "shake"] /\ acc' = "detach"
           \/ th' = th /\ acc' = "unspawn"
    BY <1>6 DEF SpawnThread
  <2>2. newc \in Conns /\ th[newc] = "none"
    BY <1>0, <2>1 DEF RecordInv
  <2>3. RecordInv'
    BY <1>0, <2>1, <2>2 DEF RecordInv
  <2>4. Owned'
    BY <1>0, <2>1, <2>2 DEF Owned
  <2>5. QED
    BY <1>0, <2>1, <2>3, <2>4
<1>7. CASE UnspawnClient
  <2>1. /\ acc = "remove" /\ clients' = RemoveFirst(clients, newc)
        /\ mem' = [mem EXCEPT ![newc] = "freed"] /\ acc' = "loop" /\ UNCHANGED th
    BY <1>7 DEF UnspawnClient, Without
  <2>2. newc \in Conns /\ th[newc] = "none"
    BY <1>0, <2>1 DEF RecordInv
  <2>3. /\ clients' \in Seq(Conns) /\ IsInjective(clients')
        /\ Range(clients') = Range(clients) \ {newc}
    BY <1>0, <2>1, RemoveFirstOnce
  <2>4. RecordInv'
    BY <1>0, <2>1, <2>2, <2>3 DEF RecordInv
  <2>5. Owned'
    BY <1>0, <2>1, <2>2, <2>3 DEF Owned
  <2>6. QED
    BY <2>3, <2>4, <2>5
<1>8. ASSUME NEW c \in Conns, ClientRemove(c)
      PROVE  RecordInv' /\ Owned' /\ clients' \in Seq(Conns)
  <2>1. /\ th[c] = "remove" /\ mem[c] = "live" /\ clients' = RemoveFirst(clients, c)
        /\ th' = [th EXCEPT ![c] = "free"] /\ UNCHANGED <<mem, acc, newc>>
    BY <1>8 DEF ClientRemove, At, Goto, Without
  <2>2. /\ clients' \in Seq(Conns) /\ IsInjective(clients')
        /\ Range(clients') = Range(clients) \ {c}
    BY <1>0, <2>1, RemoveFirstOnce
  <2>3. RecordInv'
    BY <1>0, <2>1, <2>2 DEF RecordInv
  <2>4. Owned'
    BY <1>0, <2>1, <2>2 DEF Owned, RecordInv
  <2>5. QED
    BY <2>2, <2>3, <2>4
<1>9. ASSUME NEW c \in Conns, ClientFree(c)
      PROVE  RecordInv' /\ Owned' /\ clients' \in Seq(Conns)
  <2>1. /\ th[c] = "free" /\ mem' = [mem EXCEPT ![c] = "freed"]
        /\ th' = [th EXCEPT ![c] = "done"] /\ UNCHANGED <<clients, acc, newc>>
    BY <1>9 DEF ClientFree, At, Goto
  <2>2. RecordInv'
    BY <1>0, <2>1 DEF RecordInv
  <2>3. Owned'
    BY <1>0, <2>1 DEF Owned, RecordInv
  <2>4. QED
    BY <1>0, <2>1, <2>2, <2>3
<1>10. CASE FreeClients
  <2>1. /\ clients' = <<>> /\ UNCHANGED <<th, acc, newc>>
        /\ mem' = [c \in Conns |-> IF c \in Range(clients) THEN "freed" ELSE mem[c]]
    BY <1>10 DEF FreeClients
  <2>2. clients' \in Seq(Conns) /\ Range(clients') = {} /\ IsInjective(clients')
    BY <2>1 DEF Range, IsInjective
  <2>3. RecordInv'
    BY <1>0, <2>1, <2>2 DEF RecordInv
  <2>4. Owned'
    BY <1>0, <2>1, <2>2 DEF Owned, RecordInv
  <2>5. QED
    BY <2>2, <2>3, <2>4
<1>11. CASE Broadcasts
  <2>1. UNCHANGED <<th, acc, newc>>
    BY <1>0, <1>11, BroadcastShape
  <2>2. CASE UNCHANGED <<clients, mem>>
    BY <1>0, <2>1, <2>2, RecordsKept
  <2>3. CASE ~UNCHANGED <<clients, mem>>
    <3>1. PICK c \in Conns : c = clients[cur] /\ c \in Range(clients)
      <4>1. cur \in 1..Len(clients) /\ clients[cur] \in Range(clients)
        BY <1>11, <2>3, FreedAtCursor
      <4>2. QED
        BY <1>0, <4>1, ElementOfSeq
    <3>2. /\ clients' \in Seq(Conns) /\ IsInjective(clients')
          /\ Range(clients') = Range(clients) \ {c}
      BY <1>11, <2>3, <3>1, FreedAtCursor
    <3>3. mem' = [mem EXCEPT ![c] = "freed"]
      BY <1>11, <2>3, <3>1, FreedAtCursor DEF FreeAtCursor
    <3>4. RecordInv'
      BY <1>0, <2>1, <3>1, <3>2, <3>3 DEF RecordInv
    <3>5. Owned'
      BY <1>0, <2>1, <3>1, <3>2, <3>3 DEF Owned, RecordInv
    <3>6. QED
      BY <3>2, <3>4, <3>5
  <2>4. QED
    BY <2>2, <2>3
<1>12. CASE UnspawnClose
  <2>1. acc = "unspawn" /\ acc' = "remove" /\ UNCHANGED <<clients, mem, newc, th>>
    BY <1>12 DEF UnspawnClose
  <2>2. RecordInv'
    BY <1>0, <2>1 DEF RecordInv
  <2>3. Owned'
    BY <1>0, <2>1 DEF Owned
  <2>4. QED
    BY <1>0, <2>1, <2>2, <2>3
<1>13. CASE Records
  BY <1>4, <1>5, <1>6, <1>7, <1>8, <1>9, <1>10, <1>12, <1>13 DEF Records
<1>14. QED
  BY <1>1, <1>2, <1>3, <1>11, <1>13, NextActions

(* What leaves the broadcast and the messages alone keeps the turn; mu, and *)
(* with it the list while a broadcast sends, belongs to the broadcast.      *)
LEMMA TurnKept ==
    ASSUME IInv, UNCHANGED <<mu, bc, cur, msg, lost>>, clients' = clients \/ mu = "free",
           clients' \in Seq(Conns), \A c \in Conns : wire'[c].shown = wire[c].shown
    PROVE  TurnInv' /\ LostInv'
<1>1. TurnInv /\ LostInv /\ clients \in Seq(Conns)
  BY DEF IInv, TypeOK
<1>2. LostInv'
  BY <1>1 DEF LostInv, LostReachNoOne
<1>3. CASE clients' = clients
  <2>1. \A i \in 1..Len(clients) : clients[i] \in Conns
    BY <1>1, ElementOfSeq
  <2>2. TurnInv'
    BY <1>1, <1>3, <2>1 DEF TurnInv, Sending
  <2>3. QED
    BY <1>2, <2>2
<1>4. CASE mu = "free"
  <2>1. TurnInv'
    BY <1>1, <1>4 DEF TurnInv, Sending
  <2>2. QED
    BY <1>2, <2>1
<1>5. QED
  BY <1>3, <1>4

(* A broadcast that takes a client out of the list goes on with the next.   *)
LEMMA FreedTurn ==
    ASSUME IInv, Broadcasts, ~UNCHANGED <<clients, mem>>
    PROVE  TurnInv' /\ LostInv'
<1>1. /\ cur \in 1..Len(clients) /\ Len(clients') = Len(clients) - 1
      /\ \A j \in 1..Len(clients') :
            clients'[j] = IF j < cur THEN clients[j] ELSE clients[j + 1]
      /\ Sending /\ UNCHANGED <<mu, msg, lost, wire, cur>> /\ bc' = "next"
  BY FreedAtCursor DEF FreeAtCursor, CursorAfterRemoval
<1>2. /\ TurnInv /\ LostInv /\ clients \in Seq(Conns) /\ cur \in Nat /\ Len(clients) \in Nat
  <2>1. TurnInv /\ LostInv /\ clients \in Seq(Conns) /\ cur \in Nat
    BY DEF IInv, TypeOK
  <2>2. QED
    BY <2>1, LenProperties
<1>3. LostInv'
  BY <1>1, <1>2 DEF LostInv, LostReachNoOne, Sending
<1>4. cur' <= Len(clients') + 1
  BY <1>1, <1>2
<1>5. ASSUME NEW i \in 1..Len(clients')
      PROVE  /\ i < cur' => wire'[clients'[i]].shown = msg'
             /\ cur' <= i => wire'[clients'[i]].shown < msg'
  <2>1. i \in 1..Len(clients) /\ i + 1 \in 1..Len(clients) /\ (cur <= i => cur <= i + 1)
    BY <1>1, <1>2
  <2>2. /\ i < cur => wire[clients[i]].shown = msg
        /\ cur <= i => wire[clients[i + 1]].shown < msg
    BY <1>1, <1>2, <2>1 DEF TurnInv
  <2>3. /\ i < cur => clients'[i] = clients[i]
        /\ cur <= i => clients'[i] = clients[i + 1]
    BY <1>1, <1>2
  <2>4. QED
    BY <1>1, <2>2, <2>3
<1>6. TurnInv'
  BY <1>1, <1>2, <1>4, <1>5 DEF TurnInv, Sending
<1>7. QED
  BY <1>3, <1>6

(* A broadcast that leaves the list alone sends its message to the client   *)
(* at the cursor and moves on, or has yet to begin, or ends.                *)
LEMMA BroadcastTurn ==
    ASSUME IInv, Broadcasts, UNCHANGED <<clients, mem>>
    PROVE  TurnInv' /\ LostInv'
<1> USE DEF listVars, recVars, cutVars, accVars, bcVars, stopVars, outVars
<1>0. /\ TurnInv /\ LostInv /\ clients \in Seq(Conns) /\ cur \in Nat \ {0}
      /\ msg \in 0..MaxMsgs /\ wire \in [Conns -> Wires] /\ Len(clients) \in Nat
      /\ msg \in Nat /\ \A c \in Conns : wire[c].shown \in Nat
      /\ \A i \in 1..Len(clients) : clients[i] \in Conns
  <2>1. /\ TurnInv /\ LostInv /\ clients \in Seq(Conns) /\ cur \in Nat \ {0}
        /\ msg \in 0..MaxMsgs /\ wire \in [Conns -> Wires]
    BY DEF IInv, TypeOK, Wires
  <2>2. \A c \in Conns : wire[c].shown \in 0..MaxMsgs
    BY <2>1 DEF Wires
  <2>3. QED
    BY <2>1, <2>2, MaxAssumption, LenProperties, ElementOfSeq
<1>1. CASE BroadcastCut
  <2>1. /\ bc = "idle" /\ msg' = msg + 1 /\ lost' = lost \cup {msg + 1}
        /\ UNCHANGED <<bc, cur, clients, mu, wire>>
    BY <1>1 DEF BroadcastCut
  <2>2. \A c \in Conns : wire[c].shown <= msg /\ wire[c].shown <= msg + 1
                         /\ wire[c].shown # msg + 1
    BY <1>0 DEF TurnInv
  <2>3. TurnInv'
    BY <1>0, <2>1, <2>2 DEF TurnInv, Sending
  <2>4. lost' \subseteq 1..(msg + 1)
    BY <1>0, <2>1 DEF LostInv
  <2>5. LostInv'
    BY <1>0, <2>1, <2>2, <2>4 DEF LostInv, LostReachNoOne
  <2>6. QED
    BY <2>3, <2>5
<1>2. CASE BroadcastStart
  <2>1. /\ bc = "idle" /\ mu = "free" /\ msg' = msg + 1 /\ cur' = 1
        /\ UNCHANGED <<clients, wire>>
        /\ \/ bc' = "idle" /\ mu' = "free" /\ lost' = lost \cup {msg + 1}
           \/ bc' = "sleep" /\ mu' = "free" /\ lost' = lost
           \/ bc' = "next" /\ mu' = "bcast" /\ lost' = lost
    BY <1>2 DEF BroadcastStart, AfterDrop
  <2>2. \A c \in Conns : wire[c].shown < msg + 1 /\ wire[c].shown <= msg + 1
                         /\ wire[c].shown # msg + 1
    BY <1>0 DEF TurnInv
  <2>3. /\ lost \subseteq 1..(msg + 1) /\ msg + 1 \in 1..(msg + 1)
        /\ msg + 1 \notin lost
    BY <1>0 DEF LostInv
  <2>4. LostInv'
    BY <1>0, <2>1, <2>2, <2>3 DEF LostInv, LostReachNoOne
  <2>5. 1 <= Len(clients) + 1 /\ \A i \in 1..Len(clients) : ~(i < 1)
    BY <1>0
  <2>6. TurnInv'
    BY <1>0, <2>1, <2>2, <2>5 DEF TurnInv, Sending
  <2>7. QED
    BY <2>4, <2>6
<1>3. CASE BroadcastWakes
  <2>1. /\ bc = "sleep" /\ bc' = "next" /\ mu' = "bcast"
        /\ UNCHANGED <<cur, msg, lost, clients, wire>>
    BY <1>3 DEF BroadcastWakes
  <2>2. /\ cur = 1 /\ \A c \in Conns : wire[c].shown < msg
        /\ 1 <= Len(clients) + 1 /\ \A i \in 1..Len(clients) : ~(i < 1)
    BY <1>0, <2>1 DEF TurnInv
  <2>3. TurnInv'
    BY <1>0, <2>1, <2>2 DEF TurnInv, Sending
  <2>4. LostInv'
    BY <1>0, <2>1 DEF LostInv, LostReachNoOne
  <2>5. QED
    BY <2>3, <2>4
<1>4. CASE BroadcastEnds
  <2>1. /\ bc = "next" /\ bc' = "idle" /\ mu' = "free"
        /\ UNCHANGED <<msg, lost, clients, wire>>
    BY <1>4 DEF BroadcastEnds
  <2>2. TurnInv'
    BY <1>0, <2>1 DEF TurnInv, Sending
  <2>3. LostInv'
    BY <1>0, <2>1 DEF LostInv, LostReachNoOne
  <2>4. QED
    BY <2>2, <2>3
<1>5. CASE BroadcastNext
  <2>1. cur \in 1..Len(clients)
    BY <1>0, <1>5 DEF BroadcastNext
  <2>2. alive[clients[cur]]
    <3>1. SUFFICES ASSUME FreeAtCursor
                   PROVE  FALSE
      BY <1>5 DEF BroadcastNext
    <3>2. clients' = RemoveAt(clients, cur) /\ clients' = clients
      BY <3>1 DEF FreeAtCursor
    <3>3. Len(clients) = Len(clients) - 1
      BY <1>0, <2>1, <3>2, RemoveAtElements
    <3>4. QED
      BY <1>0, <3>3
  <2>3. bc = "next" /\ bc' = "head" /\ UNCHANGED <<cur, mu, msg, lost, wire>>
    BY <1>5, <2>2 DEF BroadcastNext
  <2>4. TurnInv'
    BY <1>0, <2>1, <2>3 DEF TurnInv, Sending
  <2>5. LostInv'
    BY <1>0, <2>3 DEF LostInv, LostReachNoOne
  <2>6. QED
    BY <2>4, <2>5
<1>6. CASE BroadcastHead \/ BroadcastBody
  <2>1. bc \in {"head", "body"} /\ cur \in 1..Len(clients) /\ clients[cur] \in Conns
    <3>1. bc \in {"head", "body"}
      BY <1>6 DEF BroadcastHead, BroadcastBody
    <3>2. cur <= Len(clients)
      BY <1>0, <3>1 DEF TurnInv
    <3>3. QED
      BY <1>0, <3>1, <3>2
  <2>2. ~FreeAtCursor
    <3>1. SUFFICES ASSUME FreeAtCursor
                   PROVE  FALSE
      OBVIOUS
    <3>2. clients' = RemoveAt(clients, cur) /\ clients' = clients
      BY <3>1 DEF FreeAtCursor
    <3>3. Len(clients) = Len(clients) - 1
      BY <1>0, <2>1, <3>2, RemoveAtElements
    <3>4. QED
      BY <1>0, <3>3
  <2>3. CASE BroadcastHead
    <3>1. /\ Sends(clients[cur], "telemetry", "head") /\ bc' = "body"
          /\ UNCHANGED <<cur, mu, msg, lost>>
      BY <2>2, <2>3 DEF BroadcastHead
    <3>2. \A c \in Conns : wire'[c].shown = wire[c].shown
      <4>1. PICK d \in Conns : d = clients[cur]
        BY <2>1
      <4>2. Sends(d, "telemetry", "head") /\ <<"telemetry", "head">> \in Pieces
        BY <3>1, <4>1 DEF Pieces
      <4>3. /\ \A c \in Conns \ {d} : wire'[c] = wire[c]
            /\ wire'[d].shown = IF "telemetry" = "telemetry" /\ "head" = "body" THEN msg
                               ELSE wire[d].shown
        BY <1>0, <4>2, SendsKeep
      <4>4. QED
        BY <4>3
    <3>3. TurnInv'
      BY <1>0, <2>1, <3>1, <3>2 DEF TurnInv, Sending
    <3>4. LostInv'
      BY <1>0, <2>1, <3>1, <3>2 DEF LostInv, LostReachNoOne
    <3>5. QED
      BY <3>3, <3>4
  <2>4. CASE BroadcastBody
    <3>1. /\ Sends(clients[cur], "telemetry", "body") /\ bc' = "next" /\ cur' = cur + 1
          /\ UNCHANGED <<mu, msg, lost>> /\ bc = "body"
      BY <2>2, <2>4 DEF BroadcastBody, CursorAfterSend
    <3>2. /\ \A c \in Conns \ {clients[cur]} : wire'[c].shown = wire[c].shown
          /\ wire'[clients[cur]].shown = msg
      BY <1>0, <2>1, <3>1, SendsKeep DEF Pieces
    <3>3. \A i \in 1..Len(clients) : i # cur => clients[i] # clients[cur]
      <4>1. IsInjective(clients) /\ DOMAIN clients = 1..Len(clients)
        BY <1>0, LenProperties DEF IInv, Owned
      <4>2. QED
        BY <2>1, <4>1 DEF IsInjective
    <3>4. ASSUME NEW i \in 1..Len(clients)
          PROVE  /\ i < cur + 1 => wire'[clients[i]].shown = msg
                 /\ cur + 1 <= i => wire'[clients[i]].shown < msg
      <4>1. /\ i < cur + 1 => i < cur \/ i = cur
            /\ cur + 1 <= i => cur <= i /\ i # cur
            /\ i < cur => i # cur
        BY <1>0
      <4>2. /\ i < cur => wire[clients[i]].shown = msg
            /\ cur <= i => wire[clients[i]].shown < msg
        BY <1>0, <2>1 DEF TurnInv, Sending
      <4>3. QED
        BY <1>0, <3>2, <3>3, <4>1, <4>2
    <3>5. /\ cur + 1 <= Len(clients) + 1
          /\ \A c \in Conns : wire'[c].shown <= msg
      BY <1>0, <2>1, <3>2 DEF TurnInv
    <3>6. TurnInv'
      BY <1>0, <2>1, <3>1, <3>4, <3>5 DEF TurnInv, Sending
    <3>7. LostInv'
      BY <1>0, <2>1, <3>1, <3>2 DEF LostInv, LostReachNoOne
    <3>8. QED
      BY <3>6, <3>7
  <2>5. QED
    BY <1>6, <2>3, <2>4
<1>7. QED
  BY <1>1, <1>2, <1>3, <1>4, <1>5, <1>6 DEF Broadcasts

(* Every step keeps the turn of the broadcast.                              *)
LEMMA TurnStep ==
    ASSUME IInv, [Next]_vars
    PROVE  TurnInv' /\ LostInv'
<1> USE DEF listVars, recVars, cutVars, accVars, bcVars, stopVars, outVars
<1>1. TypeOK /\ clients' \in Seq(Conns)
  BY RecordStep DEF IInv
<1>2. ASSUME NEW c \in Conns, Talks(c)
      PROVE  TurnInv' /\ LostInv'
  <2>1. /\ UNCHANGED <<clients, mu, bc, cur, msg, lost>>
        /\ \A d \in Conns : wire'[d].shown = wire[d].shown
    BY <1>1, <1>2, TalkStep
  <2>2. QED
    BY <1>1, <2>1, TurnKept
<1>3. CASE Waits
  <2>1. UNCHANGED <<clients, mu, bc, cur, msg, lost, wire>>
    BY <1>3 DEF Waits, AcceptLoop, AcceptFails, DetachThread
  <2>2. QED
    BY <1>1, <2>1, TurnKept
<1>4. CASE Elsewhere
  <2>1. UNCHANGED <<clients, mu, bc, cur, msg, lost, wire>>
    BY <1>4 DEF Elsewhere, StopServer, JoinAccept, FreeServer, Tick, UseFreed, vars
  <2>2. QED
    BY <1>1, <2>1, TurnKept
<1>5. CASE Records
  <2>1. UNCHANGED <<mu, bc, cur, msg, lost, wire>> /\ (clients' = clients \/ mu = "free")
    BY <1>5 DEF Records, LinkClient, SpawnThread, UnspawnClose, UnspawnClient, FreeClients, Accept,
       ClientRemove, ClientFree
  <2>2. QED
    BY <1>1, <2>1, TurnKept
<1>6. CASE Broadcasts
  BY <1>6, FreedTurn, BroadcastTurn
<1>7. QED
  BY <1>2, <1>3, <1>4, <1>5, <1>6, NextActions

(* Every step keeps the types. *)
LEMMA TypeStep ==
    ASSUME IInv, [Next]_vars
    PROVE  TypeOK'
<1> USE DEF listVars, recVars, cutVars, accVars, bcVars, stopVars, outVars
<1>0. /\ TypeOK /\ clients' \in Seq(Conns) /\ RecordInv
      /\ th \in [Conns -> Steps] /\ wire \in [Conns -> Wires]
      /\ MaxMsgs \in Nat
  BY RecordStep, MaxAssumption DEF IInv, TypeOK, Steps, Wires
<1>1. ASSUME NEW c \in Conns, Talks(c)
      PROVE  TypeOK'
  BY <1>0, <1>1, TalkStep DEF TypeOK, Steps, Wires
<1>2. CASE Waits
  BY <1>0, <1>2 DEF Waits, AcceptLoop, AcceptFails, DetachThread, TypeOK
<1>3. CASE Elsewhere
  <2>1. CASE StopServer \/ JoinAccept \/ FreeServer
    <3>1. running' = running \/ running' = FALSE
      BY <2>1 DEF StopServer, JoinAccept, FreeServer
    <3>2. stop' \in {"join", "clients", "down"}
      BY <2>1 DEF StopServer, JoinAccept, FreeServer
    <3>3. UNCHANGED <<clients, mu, mem, alive, fd, experimentAnchorSet, cutCloseFired, clock,
                      acc, newc, th, bc, cur, msg, lost, wire, reqs, undef>>
      BY <2>1 DEF StopServer, JoinAccept, FreeServer
    <3>4. running' \in BOOLEAN
      BY <1>0, <3>1 DEF TypeOK
    <3>5. QED
      BY <1>0, <3>2, <3>3, <3>4 DEF TypeOK
  <2>2. CASE Tick
    BY <1>0, <2>2 DEF Tick, TypeOK
  <2>3. CASE UseFreed
    <3>1. /\ undef' = TRUE
          /\ UNCHANGED <<listVars, recVars, cutVars, accVars, th, bcVars, stopVars, wire,
                         reqs>>
      BY <2>3 DEF UseFreed
    <3>2. undef' \in BOOLEAN
      BY <3>1
    <3>3. UNCHANGED <<clients, mu, mem, alive, fd, experimentAnchorSet, cutCloseFired, clock,
                      acc, newc, th, bc, cur, msg, lost, running, stop, wire, reqs>>
      BY <3>1
    <3>4. QED
      BY <1>0, <3>2, <3>3 DEF TypeOK
  <2>4. CASE UNCHANGED vars
    BY <1>0, <2>4 DEF vars, TypeOK
  <2>5. QED
    BY <1>3, <2>1, <2>2, <2>3, <2>4 DEF Elsewhere
<1>4. ASSUME NEW c \in Conns, Accept(c) \/ ClientRemove(c) \/ ClientFree(c)
      PROVE  TypeOK'
  <2>1. CASE Accept(c)
    BY <1>0, <2>1 DEF Accept, TypeOK
  <2>2. CASE ClientRemove(c)
    BY <1>0, <2>2 DEF ClientRemove, Goto, TypeOK
  <2>3. CASE ClientFree(c)
    BY <1>0, <2>3 DEF ClientFree, Goto, TypeOK
  <2>4. QED
    BY <1>4, <2>1, <2>2, <2>3
<1>5. CASE LinkClient \/ SpawnThread \/ UnspawnClose \/ UnspawnClient
  <2>1. CASE LinkClient
    BY <1>0, <2>1 DEF LinkClient, TypeOK
  <2>2. CASE SpawnThread
    <3>1. /\ th' = th \/ th' = [th EXCEPT ![newc] = "shake"]
          /\ alive' = alive \/ alive' = [alive EXCEPT ![newc] = FALSE]
          /\ acc' \in {"detach", "unspawn"}
          /\ UNCHANGED <<newc, mem, fd, listVars, cutVars, bcVars, stopVars, outVars>>
      BY <2>2 DEF SpawnThread
    <3>2. th' \in [Conns -> Steps] /\ alive' \in [Conns -> BOOLEAN]
      BY <1>0, <3>1 DEF TypeOK, Steps
    <3>3. QED
      BY <1>0, <3>1, <3>2 DEF TypeOK, Steps
  <2>3. CASE UnspawnClient
    BY <1>0, <2>3 DEF UnspawnClient, TypeOK
  <2>4. CASE UnspawnClose
    <3>1. /\ fd' = fd \/ fd' = [fd EXCEPT ![newc] = "stale"] \/ fd' = [fd EXCEPT ![newc] = @]
          /\ acc' = "remove"
          /\ UNCHANGED <<newc, mem, alive, listVars, cutVars, th, bcVars, stopVars, outVars>>
      BY <2>4 DEF UnspawnClose
    <3>2. fd' \in [Conns -> {"none", "open", "stale", "closed"}]
      BY <1>0, <3>1 DEF TypeOK
    <3>3. QED
      BY <1>0, <3>1, <3>2 DEF TypeOK, Steps
  <2>5. QED
    BY <1>5, <2>1, <2>2, <2>3, <2>4
<1>6. /\ AliveUnlisted \in [Conns -> BOOLEAN]
      /\ FdUnlisted \in [Conns -> {"none", "open", "stale", "closed"}]
  BY <1>0 DEF AliveUnlisted, FdUnlisted, TypeOK
<1>7. CASE FreeClients
  BY <1>0, <1>6, <1>7 DEF FreeClients, TypeOK
<1>8. CASE BroadcastCut \/ BroadcastStart
  <2>1. msg < MaxMsgs /\ msg' = msg + 1
    BY <1>8 DEF BroadcastCut, BroadcastStart
  <2>2. msg' \in 0..MaxMsgs /\ msg' \in Msgs
    BY <1>0, <2>1 DEF TypeOK, Msgs
  <2>3. lost' \subseteq Msgs
    BY <1>0, <1>8, <2>2 DEF BroadcastCut, BroadcastStart, TypeOK
  <2>4. CASE BroadcastCut
    BY <1>0, <1>6, <2>2, <2>3, <2>4 DEF BroadcastCut, TypeOK
  <2>5. CASE BroadcastStart
    <3>1. cutCloseFired' \in BOOLEAN /\ cur' = 1
      BY <2>5 DEF BroadcastStart
    <3>2. bc' \in {"idle", "sleep", "next"} /\ mu' \in {"free", "bcast"}
      BY <2>5 DEF BroadcastStart, AfterDrop
    <3>3. UNCHANGED <<clients, mem, alive, fd, experimentAnchorSet, clock, acc, newc, th,
                      running, stop, wire, reqs, undef>>
      BY <2>5 DEF BroadcastStart
    <3>4. QED
      BY <1>0, <2>2, <2>3, <3>1, <3>2, <3>3 DEF TypeOK
  <2>6. QED
    BY <1>8, <2>4, <2>5
<1>9. CASE BroadcastWakes \/ BroadcastEnds
  BY <1>0, <1>9 DEF BroadcastWakes, BroadcastEnds, TypeOK
<1>10. ASSUME FreeAtCursor, UNCHANGED wire,
              UNCHANGED <<msg, lost, cutVars, accVars, th, stopVars, reqs, undef>>
       PROVE  TypeOK'
  <2>1. /\ mem' \in [Conns -> {"none", "live", "freed"}] /\ alive' \in [Conns -> BOOLEAN]
        /\ fd' \in [Conns -> {"none", "open", "stale", "closed"}]
    BY <1>0, <1>10 DEF FreeAtCursor, TypeOK
  <2>2. bc' = "next" /\ UNCHANGED <<cur, mu>>
    BY <1>10 DEF FreeAtCursor, CursorAfterRemoval
  <2>3. UNCHANGED <<experimentAnchorSet, cutCloseFired, clock, acc, newc, th, running, stop,
                    msg, lost, wire, reqs, undef>>
    BY <1>10
  <2>4. QED
    BY <1>0, <2>1, <2>2, <2>3 DEF TypeOK
<1>11. CASE BroadcastNext
  <2>1. CASE alive[clients[cur]]
    BY <1>0, <1>11, <2>1 DEF BroadcastNext, TypeOK
  <2>2. CASE ~alive[clients[cur]]
    BY <1>10, <1>11, <2>2 DEF BroadcastNext
  <2>3. QED
    BY <2>1, <2>2
<1>12. CASE BroadcastHead \/ BroadcastBody
  <2>1. CASE FreeAtCursor /\ UNCHANGED wire
    BY <1>10, <1>12, <2>1 DEF BroadcastHead, BroadcastBody
  <2>2. CASE ~(FreeAtCursor /\ UNCHANGED wire)
    <3>1. \E part \in {"head", "body"} :
             /\ Sends(clients[cur], "telemetry", part) /\ <<"telemetry", part>> \in Pieces
             /\ bc' \in {"body", "next"} /\ cur' \in {cur, cur + 1}
             /\ UNCHANGED <<listVars, recVars, msg, lost, cutVars, accVars, th, stopVars,
                            reqs, undef>>
      BY <1>12, <2>2 DEF BroadcastHead, BroadcastBody, CursorAfterSend, Pieces
    <3>2. clients[cur] \in Conns
      <4>1. bc \in {"head", "body"} /\ cur \in Nat \ {0} /\ clients \in Seq(Conns)
        BY <1>0, <1>12 DEF BroadcastHead, BroadcastBody, TypeOK
      <4>2. cur <= Len(clients) /\ Len(clients) \in Nat
        BY <4>1, LenProperties DEF IInv, TurnInv
      <4>3. cur \in 1..Len(clients)
        BY <4>1, <4>2
      <4>4. QED
        BY <4>1, <4>3, ElementOfSeq
    <3>3. msg \in 0..MaxMsgs
      BY <1>0 DEF TypeOK
    <3>4. wire' \in [Conns -> Wires]
      BY <1>0, <3>1, <3>2, <3>3, SendsKeep
    <3>5. cur' \in Nat \ {0}
      BY <1>0, <3>1 DEF TypeOK
    <3>6. QED
      BY <1>0, <3>1, <3>4, <3>5 DEF TypeOK, Wires
  <2>3. QED
    BY <2>1, <2>2
<1>13. QED
  BY <1>1, <1>2, <1>3, <1>4, <1>5, <1>7, <1>8, <1>9, <1>11, <1>12, NextActions
     DEF Records, Broadcasts

-----------------------------------------------------------------------------
(* Theorems *)

(* The inductive invariant holds in every reachable state.                  *)
THEOREM ServerInvariant == Spec => []IInv
<1>1. Init => IInv
  <2>1. SUFFICES ASSUME Init
                 PROVE  IInv
    OBVIOUS
  <2>2. clients \in Seq(Conns) /\ Range(clients) = {} /\ IsInjective(clients)
    BY <2>1 DEF Init, Range, IsInjective
  <2>3. MaxMsgs \in Nat /\ MaxReqs \in Nat
    BY MaxAssumption
  <2>4. wire \in [Conns -> [last : Pieces, status : BOOLEAN, shown : 0..MaxMsgs]]
    BY <2>1, <2>3 DEF Init, Pieces
  <2>5. TypeOK
    <3>1. /\ mem \in [Conns -> {"none", "live", "freed"}] /\ alive \in [Conns -> BOOLEAN]
          /\ fd \in [Conns -> {"none", "open", "stale", "closed"}]
          /\ th \in [Conns -> Steps]
      BY <2>1 DEF Init, Steps
    <3>2. 0 \in 0..MaxMsgs /\ 0 \in 0..MaxReqs /\ 1 \in Nat \ {0} /\ {} \subseteq Msgs
      BY <2>3
    <3>3. /\ running \in BOOLEAN /\ experimentAnchorSet \in BOOLEAN
          /\ cutCloseFired \in BOOLEAN /\ undef \in BOOLEAN
      BY <2>1 DEF Init
    <3>4. /\ mu = "free" /\ acc = "loop" /\ newc = NoConn /\ bc = "idle" /\ cur = 1
          /\ msg = 0 /\ stop = "up" /\ lost = {} /\ reqs = 0 /\ clock = "before"
      BY <2>1 DEF Init
    <3>5. QED
      BY <2>2, <2>4, <3>1, <3>2, <3>3, <3>4 DEF TypeOK, Steps
  <2>6. RecordInv
    BY <2>1, <2>2 DEF Init, RecordInv
  <2>7. Owned
    BY <2>1, <2>2 DEF Init, Owned
  <2>8. TurnInv
    BY <2>1 DEF Init, TurnInv, Sending
  <2>9. LostInv
    BY <2>1 DEF Init, LostInv, LostReachNoOne
  <2>10. QED
    BY <2>5, <2>6, <2>7, <2>8, <2>9 DEF IInv
<1>2. IInv /\ [Next]_vars => IInv'
  BY RecordStep, TurnStep, TypeStep DEF IInv
<1>3. QED
  BY <1>1, <1>2, PTL DEF Spec

(* Every variable keeps its type: in particular the cursor of a broadcast   *)
(* stays in the list, or just past its end, whatever is removed.            *)
THEOREM ServerTypeCorrect == Spec => []TypeOK
<1>1. IInv => TypeOK
  BY DEF IInv
<1>2. QED
  BY <1>1, ServerInvariant, PTL

(* Until a freed record is used, every record of the list is live and is in *)
(* it once, and every live record has someone who will free it: the accept  *)
(* thread, the broadcast, the client's own thread and ws_server_stop, which *)
(* all free records, neither leak one nor leave one in the list.            *)
THEOREM RecordsOwned == Spec => []Owned
<1>1. IInv => Owned
  BY DEF IInv
<1>2. QED
  BY <1>1, ServerInvariant, PTL

(* A broadcast that ends has reached every client that is still listed.     *)
THEOREM BroadcastReachesAll == Spec => []EveryClientServed
<1>1. IInv => EveryClientServed
  <2>1. SUFFICES ASSUME IInv, bc = "next", cur > Len(clients), NEW c \in Range(clients)
                 PROVE  wire[c].shown = msg
    BY DEF EveryClientServed
  <2>2. clients \in Seq(Conns) /\ cur \in Nat /\ TurnInv
    BY <2>1 DEF IInv, TypeOK
  <2>3. Len(clients) \in Nat /\ DOMAIN clients = 1..Len(clients)
    BY <2>2, LenProperties
  <2>4. PICK i \in 1..Len(clients) : c = clients[i]
    BY <2>1, <2>3 DEF Range
  <2>5. i < cur
    BY <2>1, <2>2, <2>3
  <2>6. QED
    BY <2>1, <2>2, <2>4, <2>5 DEF TurnInv, Sending
<1>2. QED
  BY <1>1, ServerInvariant, PTL

(* No client is sent a message twice, or an older one after a newer one,    *)
(* although records leave the list under the cursor.                        *)
THEOREM NoMessageTwice == Spec => []NoDuplicate
<1>1. IInv => NoDuplicate
  <2>1. SUFFICES ASSUME IInv, bc = "head"
                 PROVE  wire[clients[cur]].shown < msg
    BY DEF NoDuplicate
  <2>2. clients \in Seq(Conns) /\ cur \in Nat \ {0} /\ TurnInv
    BY <2>1 DEF IInv, TypeOK
  <2>3. Len(clients) \in Nat /\ cur <= Len(clients)
    BY <2>1, <2>2, LenProperties DEF TurnInv
  <2>4. cur \in 1..Len(clients) /\ cur <= cur
    BY <2>2, <2>3
  <2>5. QED
    BY <2>1, <2>2, <2>4 DEF TurnInv, Sending
<1>2. QED
  BY <1>1, ServerInvariant, PTL

(* What is counted as cut or dropped is shown to no client.                 *)
THEOREM LostStaysLost == Spec => []LostReachNoOne
<1>1. IInv => LostReachNoOne
  BY DEF IInv, LostInv
<1>2. QED
  BY <1>1, ServerInvariant, PTL

=============================================================================
