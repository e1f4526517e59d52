------------------------------ MODULE UiProofs ------------------------------
(***************************************************************************)
(* Proofs about Ui for every number of samples, sockets and clicks, and    *)
(* every "Last N".                                                         *)
(***************************************************************************)
EXTENDS Ui, SequenceTheorems, FiniteSetTheorems, TLAPS

Active(k) == ready[k] \in {"connecting", "open"}

(* While the buttons are those of a connection, a socket is open or will     *)
(* report its end.                                                          *)
Going == online => \E k \in Sockets : ready[k] \in {"open", "closing"}

(* A socket that has not been made is nothing yet; one that the gateway has *)
(* not answered has received nothing, and has not opened.                   *)
SocketInv ==
    /\ OneSocket /\ NeverStuck /\ Going
    /\ \A k \in Sockets : k > made =>
         /\ ready[k] = "none" /\ link[k] = "none"
         /\ reqs[k] = 0 /\ loaded[k] = 0 /\ answered[k] = 0
    /\ \A k \in Sockets : link[k] = "none" => inbox[k] = <<>> /\ ready[k] # "open"

(* A socket that is opening has asked for nothing, and will ask if it is a  *)
(* reconnection; one that is open has asked as AskedOnce says.              *)
AskInv ==
    \A k \in Sockets :
      /\ ready[k] = "connecting" => /\ reqs[k] = 0 /\ clicks = 0
                                    /\ pendingRecovery <=> k \in again
      /\ ready[k] = "open" =>
           reqs[k] = IF LastN > 0 THEN clicks + (IF k \in again THEN 1 ELSE 0) ELSE 0

Lives(q) == {i \in 1..Len(q) : q[i].type = "telemetry"}
Batches(q) == {i \in 1..Len(q) : q[i].type = "history"}

(* No batch is loaded without a request that has been answered.             *)
CountInv == \A k \in Sockets :
    /\ loaded[k] + Cardinality(Batches(inbox[k])) <= answered[k]
    /\ answered[k] <= reqs[k]

(* The rows of a queue q, when snt samples have been sent, the history was   *)
(* last read up to per, and its last LastN samples begin at first.          *)
Bounded(q, snt, per, first) ==
    /\ \A i \in Lives(q) : q[i].to = q[i].from /\ q[i].from \in 1..snt
    /\ \A i \in Batches(q) : /\ q[i].to <= per
                             /\ q[i].from <= q[i].to + 1 /\ q[i].from <= first

(* Live samples come in order, and so do batches; a batch may come behind   *)
(* live samples that are newer than its last.                               *)
Ordered(q) ==
    /\ \A i, j \in Lives(q) : i < j => q[i].from < q[j].from
    /\ \A i, j \in Batches(q) : i < j => q[i].from <= q[j].from /\ q[i].to <= q[j].to

QueueInv == \A k \in Sockets : /\ Bounded(inbox[k], sent, fetched[k], FirstRow(fetched[k]))
                               /\ Ordered(inbox[k])

(* What the queue of the page's socket holds is newer than what it has.     *)
Ahead(q, last, win) ==
    /\ \A i \in Lives(q) : last < q[i].from
    /\ \A i \in Batches(q) : win <= q[i].from

(* From the first row of the last batch on, a replay that reaches a sample  *)
(* reaches all before it.                                                   *)
Gapless(rows, win) == \A b \in rows, s \in Samples : win <= s /\ s <= b => s \in rows

LogInv ==
    /\ live \subseteq 1..lastLiveSeq /\ lastLiveSeq <= sent
    /\ window <= FirstRow(persisted) /\ replay \subseteq 1..persisted
    /\ Gapless(replay, window)
    /\ \A k \in Sockets : Active(k) => Ahead(inbox[k], lastLiveSeq, window)

Coming(q) == {q[i].from : i \in Lives(q)}

(* The samples that the page has, has no claim to, or will be delivered.    *)
Covered(q, seen, exc) == seen \cup exc \cup Coming(q)

(* While the gateway's end is up, only samples before all that the page has *)
(* are not covered (once the replay is in, and from win on), and a batch    *)
(* that is coming closes the gap to the live samples behind it.             *)
HoleUp(q, seen, exc, win, in, snt) ==
    /\ in => \A s \in 1..snt : s \notin Covered(q, seen, exc) /\ win <= s
               => \A a \in seen \cup Coming(q) : s < a
    /\ \A i \in Batches(q) : \A s \in 1..snt : q[i].to < s => s \in Covered(q, seen, exc)

(* When it has gone, nothing that is still delivered lies behind a hole.    *)
HoleGone(q, seen, exc, win, in) ==
    /\ in => \A s \in Samples : s \notin Covered(q, seen, exc) /\ win <= s
               => \A a, b \in seen \cup Coming(q) : ~(a < s /\ s < b)
    /\ \A i \in Batches(q) : \A s \in Samples :
         q[i].to < s /\ s \notin Covered(q, seen, exc)
           => \A b \in seen \cup Coming(q) : b < s

(* The replay that a reconnection asks for is in. *)
Replayed(k) == k \in again => loaded[k] > 0

HoleInv == LastN > 0 => \A k \in Sockets : Active(k) =>
    /\ link[k] = "none" /\ Replayed(k) => Seen = {}
    /\ link[k] = "up" => HoleUp(inbox[k], Seen, excused, window, Replayed(k), sent)
    /\ link[k] = "gone" => HoleGone(inbox[k], Seen, excused, window, Replayed(k))

(* A history that has been read and not yet sent was read no later than the *)
(* window began, on request, and no batch has come without one.             *)
ReadInv == \A k \in Sockets :
    /\ fetched[k] <= persisted
    /\ k > made => fetched[k] = -1
    /\ fetched[k] = -1 => ~busy[k] /\ loaded[k] = 0 /\ Batches(inbox[k]) = {}
    /\ busy[k] => answered[k] < reqs[k]
    /\ Active(k) /\ fetched[k] # -1 => window <= FirstRow(fetched[k])

(* What has been sent since a history was read up to n is covered.          *)
Since(n, q, seen, exc, snt) == \A s \in 1..snt : n < s => s \in Covered(q, seen, exc)

(* So a reply that is still to be sent leaves no hole behind it, whatever   *)
(* was broadcast after its read.                                            *)
GapInv == \A k \in Sockets : Active(k) /\ link[k] = "up" /\ busy[k]
    => Since(fetched[k], inbox[k], Seen, excused, sent)

IInv == /\ TypeOK /\ SocketInv /\ AskInv /\ CountInv /\ QueueInv /\ LogInv
        /\ HoleInv /\ ReadInv /\ GapInv

-----------------------------------------------------------------------------
(* Queues *)

(* t is what is left of the queue q after d rows, or its beginning.         *)
PartOf(t, q, d) ==
    /\ t \in Seq(Rows) /\ q \in Seq(Rows) /\ d \in Nat
    /\ \A i \in 1..Len(t) : i + d \in 1..Len(q) /\ t[i] = q[i + d]

(* The rows of a queue, and their fields. *)
LEMMA RowFields ==
    ASSUME NEW q \in Seq(Rows)
    PROVE  /\ Len(q) \in Nat
           /\ Lives(q) \subseteq 1..Len(q) /\ Batches(q) \subseteq 1..Len(q)
           /\ Lives(q) \cap Batches(q) = {}
           /\ \A i \in Lives(q) \cup Batches(q) :
                q[i].from \in 1..(MaxSeq + 1) /\ q[i].to \in 0..MaxSeq
           /\ \A i \in Lives(q) \cup Batches(q) : q[i].from \in Int /\ q[i].to \in Int
<1>1. Len(q) \in Nat /\ \A i \in 1..Len(q) : q[i] \in Rows
  BY LenProperties, ElementOfSeq
<1>2. MaxSeq \in Nat
  BY UiBoundsAssumption
<1>3. \A r \in Rows : r.type = "telemetry" \/ r.type = "history" =>
         r.from \in 1..(MaxSeq + 1) /\ r.to \in 0..MaxSeq
  BY DEF Rows
<1>4. \A i \in Lives(q) \cup Batches(q) : q[i].from \in 1..(MaxSeq + 1) /\ q[i].to \in 0..MaxSeq
  BY <1>1, <1>3 DEF Lives, Batches
<1>5. \A i \in Lives(q) \cup Batches(q) : q[i].from \in Int /\ q[i].to \in Int
  BY <1>2, <1>4
<1>6. QED
  BY <1>1, <1>4, <1>5 DEF Lives, Batches

(* A row that is left is a row of the queue.                                *)
LEMMA PartRows ==
    ASSUME NEW t, NEW q, NEW d, PartOf(t, q, d)
    PROVE  /\ \A i \in Lives(t) : i + d \in Lives(q) /\ t[i] = q[i + d]
           /\ \A i \in Batches(t) : i + d \in Batches(q) /\ t[i] = q[i + d]
           /\ \A i, j \in 1..Len(t) : i < j => i + d < j + d
           /\ Coming(t) \subseteq Coming(q)
<1>1. /\ \A i \in Lives(t) : i + d \in Lives(q) /\ t[i] = q[i + d]
      /\ \A i \in Batches(t) : i + d \in Batches(q) /\ t[i] = q[i + d]
  BY DEF PartOf, Lives, Batches
<1>2. \A i, j \in 1..Len(t) : i < j => i + d < j + d
  <2>1. Len(t) \in Nat /\ d \in Nat
    BY LenProperties DEF PartOf
  <2>2. QED
    BY <2>1
<1>3. Coming(t) \subseteq Coming(q)
  BY <1>1 DEF Coming
<1>4. QED
  BY <1>1, <1>2, <1>3

(* What is left of a queue keeps its bounds, its order and its distance.    *)
LEMMA PartKeeps ==
    ASSUME NEW t, NEW q, NEW d, PartOf(t, q, d), Ordered(q)
    PROVE  /\ Ordered(t)
           /\ \A snt, per, first : Bounded(q, snt, per, first) => Bounded(t, snt, per, first)
           /\ \A last, win : Ahead(q, last, win) => Ahead(t, last, win)
<1>1. /\ \A i \in Lives(t) : i + d \in Lives(q) /\ t[i] = q[i + d]
      /\ \A i \in Batches(t) : i + d \in Batches(q) /\ t[i] = q[i + d]
      /\ \A i, j \in 1..Len(t) : i < j => i + d < j + d
  BY PartRows
<1>2. Lives(t) \subseteq 1..Len(t) /\ Batches(t) \subseteq 1..Len(t)
  BY DEF Lives, Batches
<1>3. Ordered(t)
  BY <1>1, <1>2 DEF Ordered
<1>4. ASSUME NEW snt, NEW per, NEW first, Bounded(q, snt, per, first)
      PROVE  Bounded(t, snt, per, first)
  BY <1>1, <1>4 DEF Bounded
<1>5. ASSUME NEW last, NEW win, Ahead(q, last, win)
      PROVE  Ahead(t, last, win)
  BY <1>1, <1>5 DEF Ahead
<1>6. QED
  BY <1>3, <1>4, <1>5

(* Batches can be counted. *)
LEMMA BatchCount ==
    ASSUME NEW q \in Seq(Rows)
    PROVE  IsFiniteSet(Batches(q)) /\ Cardinality(Batches(q)) \in Nat
<1>1. Len(q) \in Nat /\ Batches(q) \in SUBSET (1..Len(q))
  BY RowFields
<1>2. IsFiniteSet(1..Len(q))
  BY <1>1, FS_Interval
<1>3. IsFiniteSet(Batches(q))
  BY <1>1, <1>2, FS_Subset
<1>4. QED
  BY <1>3, FS_CardinalityType

(* What is left of a queue has no more batches than the places it has them  *)
(* from.                                                                    *)
LEMMA PartCount ==
    ASSUME NEW t, NEW q, NEW d, PartOf(t, q, d), NEW X \in SUBSET Batches(q),
           \A i \in Batches(t) : i + d \in X
    PROVE  Cardinality(Batches(t)) <= Cardinality(X)
<1>1. IsFiniteSet(X)
  <2>1. IsFiniteSet(Batches(q))
    BY BatchCount DEF PartOf
  <2>2. QED
    BY <2>1, FS_Subset
<1> DEFINE f == [i \in Batches(t) |-> i + d]
<1>2. f \in Injection(Batches(t), X)
  <2>1. Batches(t) \subseteq Int /\ d \in Int
    <3>1. t \in Seq(Rows) /\ d \in Nat
      BY DEF PartOf
    <3>2. Batches(t) \subseteq 1..Len(t) /\ Len(t) \in Nat
      BY <3>1, RowFields
    <3>3. QED
      BY <3>1, <3>2
  <2>2. f \in [Batches(t) -> X]
    OBVIOUS
  <2>3. \A i, j \in Batches(t) : f[i] = f[j] => i = j
    <3>1. ASSUME NEW i \in Batches(t), NEW j \in Batches(t), f[i] = f[j]
          PROVE  i = j
      <4>1. i + d = j + d
        BY <3>1
      <4>2. i \in Int /\ j \in Int /\ d \in Int
        BY <2>1
      <4>3. QED
        BY <4>1, <4>2
    <3>2. QED
      BY <3>1
  <2>4. QED
    BY <2>2, <2>3 DEF Injection, IsInjective
<1> HIDE DEF f
<1>3. QED
  BY <1>1, <1>2, FS_Injection

(* Taking the first row from a queue, and losing its last ones.             *)
LEMMA TailPart ==
    ASSUME NEW q \in Seq(Rows), q # <<>>
    PROVE  /\ PartOf(Tail(q), q, 1) /\ Head(q) = q[1] /\ 1 \in 1..Len(q) /\ q[1] \in Rows
           /\ \A i \in 1..Len(q) : i = 1 \/ (i - 1 \in 1..Len(Tail(q)) /\ Tail(q)[i - 1] = q[i])
<1>1. /\ Tail(q) \in Seq(Rows) /\ Len(Tail(q)) = Len(q) - 1 /\ Head(q) \in Rows
      /\ \A i \in 1..Len(Tail(q)) : Tail(q)[i] = q[i + 1]
  BY HeadTailProperties
<1>2. Len(q) \in Nat /\ Len(q) # 0
  BY LenProperties, EmptySeq
<1>3. Head(q) = q[1]
  OBVIOUS
<1>4. PartOf(Tail(q), q, 1)
  BY <1>1, <1>2 DEF PartOf
<1>5. ASSUME NEW i \in 1..Len(q), i # 1
      PROVE  i - 1 \in 1..Len(Tail(q)) /\ Tail(q)[i - 1] = q[i]
  <2>1. i - 1 \in 1..Len(Tail(q)) /\ (i - 1) + 1 = i
    BY <1>1, <1>2, <1>5
  <2>2. QED
    BY <1>1, <2>1
<1>6. 1 \in 1..Len(q)
  BY <1>2
<1>7. q[1] \in Rows
  BY <1>1, <1>3
<1>8. \A i \in 1..Len(q) : i = 1 \/ (i - 1 \in 1..Len(Tail(q)) /\ Tail(q)[i - 1] = q[i])
  BY <1>5
<1>9. QED
  BY <1>3, <1>4, <1>6, <1>7, <1>8

(* The beginning of a queue.                                                *)
LEMMA PrefixPart ==
    ASSUME NEW q \in Seq(Rows), NEW n \in 0..Len(q)
    PROVE  /\ PartOf(SubSeq(q, 1, n), q, 0) /\ Len(SubSeq(q, 1, n)) = n
           /\ \A i \in 1..n : SubSeq(q, 1, n)[i] = q[i]
<1>1. Len(q) \in Nat /\ \A i \in 1..n : q[i] \in Rows
  BY LenProperties, ElementOfSeq
<1>2. /\ SubSeq(q, 1, n) \in Seq(Rows)
      /\ Len(SubSeq(q, 1, n)) = IF 1 <= n THEN n - 1 + 1 ELSE 0
      /\ \A i \in 1..(n - 1 + 1) : SubSeq(q, 1, n)[i] = q[1 + i - 1]
  BY <1>1, SubSeqProperties
<1>3. Len(SubSeq(q, 1, n)) = n /\ \A i \in 1..n : SubSeq(q, 1, n)[i] = q[i]
  BY <1>1, <1>2
<1>4. QED
  BY <1>1, <1>2, <1>3 DEF PartOf

(* t is the queue q with the row r at its end, at n.                        *)
Added(t, n, q, r) ==
    /\ t = Append(q, r) /\ n = Len(q) + 1 /\ t[n] = r /\ Len(t) = n
    /\ Lives(t) = Lives(q) \cup (IF r.type = "telemetry" THEN {n} ELSE {})
    /\ Batches(t) = Batches(q) \cup (IF r.type = "history" THEN {n} ELSE {})
    /\ \A i \in 1..Len(q) : t[i] = q[i] /\ i < n /\ ~(n < i)
    /\ ~(n < n)
    /\ Coming(t) = Coming(q) \cup (IF r.type = "telemetry" THEN {r.from} ELSE {})

(* A row at the end of a queue: the others stay where they are.             *)
LEMMA AppendRow ==
    ASSUME NEW q \in Seq(Rows), NEW r \in Rows
    PROVE  \E t \in Seq(Rows), n \in Nat : Added(t, n, q, r)
<1>0. PICK t, n : t = Append(q, r) /\ n = Len(q) + 1
  OBVIOUS
<1>1. /\ t \in Seq(Rows) /\ Len(t) = n /\ \A i \in 1..Len(q) : t[i] = q[i]
      /\ t[n] = r
  BY <1>0, AppendProperties
<1>2. Len(q) \in Nat
  BY LenProperties
<1>3. \A i \in 1..Len(t) : i \in 1..Len(q) \/ i = n
  BY <1>0, <1>1, <1>2
<1>4. \A i \in 1..Len(q) : i \in 1..Len(t) /\ i < n /\ ~(n < i)
  BY <1>0, <1>1, <1>2
<1>5. n \in 1..Len(t) /\ n \in Nat /\ ~(n < n)
  BY <1>0, <1>1, <1>2
<1>6. /\ Lives(t) = Lives(q) \cup (IF r.type = "telemetry" THEN {n} ELSE {})
      /\ Batches(t) = Batches(q) \cup (IF r.type = "history" THEN {n} ELSE {})
  BY <1>1, <1>3, <1>4, <1>5 DEF Lives, Batches
<1>7. Coming(t) = Coming(q) \cup (IF r.type = "telemetry" THEN {r.from} ELSE {})
  BY <1>1, <1>3, <1>4, <1>5 DEF Coming, Lives
<1>8. QED
  BY <1>0, <1>1, <1>4, <1>5, <1>6, <1>7 DEF Added

-----------------------------------------------------------------------------
(* Holes *)

(* A queue is a part of itself. *)
LEMMA SamePart ==
    ASSUME NEW q \in Seq(Rows)
    PROVE  PartOf(q, q, 0)
<1>1. Len(q) \in Nat
  BY LenProperties
<1>2. \A i \in 1..Len(q) : i + 0 = i
  BY <1>1
<1>3. QED
  BY <1>2 DEF PartOf

(* As long as nothing that was covered is uncovered and nothing new is seen *)
(* or coming, no hole appears.                                              *)
LEMMA HoleKept ==
    ASSUME NEW t, NEW q, NEW d, PartOf(t, q, d), NEW seen, NEW exc, NEW seen2, NEW exc2,
           Covered(q, seen, exc) \subseteq Covered(t, seen2, exc2),
           seen2 \cup Coming(t) \subseteq seen \cup Coming(q)
    PROVE  \A win, in : /\ \A snt : HoleUp(q, seen, exc, win, in, snt)
                                      => HoleUp(t, seen2, exc2, win, in, snt)
                        /\ HoleGone(q, seen, exc, win, in) => HoleGone(t, seen2, exc2, win, in)
<1>1. \A i \in Batches(t) : i + d \in Batches(q) /\ t[i] = q[i + d]
  BY PartRows
<1>2. ASSUME NEW win, NEW in, NEW snt, HoleUp(q, seen, exc, win, in, snt)
      PROVE  HoleUp(t, seen2, exc2, win, in, snt)
  <2>1. ASSUME in, NEW s \in 1..snt, s \notin Covered(t, seen2, exc2), win <= s,
               NEW a \in seen2 \cup Coming(t)
        PROVE  s < a
    BY <1>2, <2>1 DEF HoleUp
  <2>2. ASSUME NEW i \in Batches(t), NEW s \in 1..snt, t[i].to < s
        PROVE  s \in Covered(t, seen2, exc2)
    BY <1>1, <1>2, <2>2 DEF HoleUp
  <2>3. QED
    BY <2>1, <2>2 DEF HoleUp
<1>3. ASSUME NEW win, NEW in, HoleGone(q, seen, exc, win, in)
      PROVE  HoleGone(t, seen2, exc2, win, in)
  <2>1. ASSUME in, NEW s \in Samples, s \notin Covered(t, seen2, exc2), win <= s,
               NEW a \in seen2 \cup Coming(t), NEW b \in seen2 \cup Coming(t)
        PROVE  ~(a < s /\ s < b)
    BY <1>3, <2>1 DEF HoleGone
  <2>2. ASSUME NEW i \in Batches(t), NEW s \in Samples, t[i].to < s,
               s \notin Covered(t, seen2, exc2), NEW b \in seen2 \cup Coming(t)
        PROVE  b < s
    BY <1>1, <1>3, <2>2 DEF HoleGone
  <2>3. QED
    BY <2>1, <2>2 DEF HoleGone
<1>4. QED
  BY <1>2, <1>3

(* A sample that is sent joins the queue, behind all that was covered.      *)
LEMMA HoleSent ==
    ASSUME NEW q \in Seq(Rows), NEW r \in Rows, r.type = "telemetry", NEW snt \in Nat,
           r.from = snt + 1, NEW seen, NEW exc, NEW win, NEW in,
           HoleUp(q, seen, exc, win, in, snt)
    PROVE  HoleUp(Append(q, r), seen, exc, win, in, snt + 1)
<1>0. PICK t \in Seq(Rows), n \in Nat : Added(t, n, q, r)
  BY AppendRow
<1>1. /\ t \in Seq(Rows) /\ Coming(t) = Coming(q) \cup {snt + 1}
      /\ Batches(t) = Batches(q)
      /\ \A i \in 1..Len(q) : t[i] = q[i]
  BY <1>0 DEF Added
<1>2. \A s \in 1..(snt + 1) : s \in 1..snt \/ s = snt + 1
  OBVIOUS
<1>3. \A s \in 1..snt : s < snt + 1
  OBVIOUS
<1>4. Covered(t, seen, exc) = Covered(q, seen, exc) \cup {snt + 1}
  BY <1>1 DEF Covered
<1>5. Batches(q) \subseteq 1..Len(q)
  BY RowFields
<1>6. ASSUME in, NEW s \in 1..(snt + 1), s \notin Covered(t, seen, exc), win <= s,
             NEW a \in seen \cup Coming(t)
      PROVE  s < a
  <2>1. s \in 1..snt /\ s \notin Covered(q, seen, exc)
    BY <1>2, <1>4, <1>6
  <2>2. CASE a = snt + 1
    BY <1>3, <2>1, <2>2
  <2>3. CASE a \in seen \cup Coming(q)
    BY <1>6, <2>1, <2>3 DEF HoleUp
  <2>4. QED
    BY <1>1, <2>2, <2>3
<1>7. ASSUME NEW i \in Batches(t), NEW s \in 1..(snt + 1), t[i].to < s
      PROVE  s \in Covered(t, seen, exc)
  <2>1. i \in Batches(q) /\ t[i] = q[i]
    BY <1>1, <1>5
  <2>2. QED
    BY <1>2, <1>4, <1>7, <2>1 DEF HoleUp
<1>8. QED
  BY <1>0, <1>6, <1>7 DEF HoleUp, Added

(* Since keeps as long as nothing that was covered is uncovered.            *)
LEMMA SinceKept ==
    ASSUME NEW t, NEW q, NEW n, NEW seen, NEW exc, NEW seen2, NEW exc2, NEW snt,
           Covered(q, seen, exc) \subseteq Covered(t, seen2, exc2),
           Since(n, q, seen, exc, snt)
    PROVE  Since(n, t, seen2, exc2, snt)
  BY DEF Since

(* A batch that is sent leaves no hole behind it, as what has been sent     *)
(* since it was read is covered.                                            *)
LEMMA HoleAnswered ==
    ASSUME NEW q \in Seq(Rows), NEW r \in Rows, r.type = "history", NEW snt,
           NEW seen, NEW exc, NEW win, NEW in,
           Since(r.to, q, seen, exc, snt), HoleUp(q, seen, exc, win, in, snt)
    PROVE  HoleUp(Append(q, r), seen, exc, win, in, snt)
<1>0. PICK t \in Seq(Rows), n \in Nat : Added(t, n, q, r)
  BY AppendRow
<1>1. /\ t \in Seq(Rows) /\ n \in Nat /\ Coming(t) = Coming(q)
      /\ Batches(t) = Batches(q) \cup {n} /\ t[n] = r
      /\ \A i \in 1..Len(q) : t[i] = q[i]
  BY <1>0 DEF Added
<1>2. Covered(t, seen, exc) = Covered(q, seen, exc)
  BY <1>1 DEF Covered
<1>3. Batches(q) \subseteq 1..Len(q)
  BY RowFields
<1>4. ASSUME NEW i \in Batches(t), NEW s \in 1..snt, t[i].to < s
      PROVE  s \in Covered(t, seen, exc)
  <2>1. CASE i = n
    BY <1>1, <1>2, <1>4, <2>1 DEF Since
  <2>2. CASE i \in Batches(q)
    BY <1>1, <1>2, <1>3, <1>4, <2>2 DEF HoleUp
  <2>3. QED
    BY <1>1, <2>1, <2>2
<1>5. QED
  BY <1>0, <1>1, <1>2, <1>4 DEF HoleUp, Added

(* A sample that a cut takes from a page that is back is excused.           *)
LEMMA HoleExcused ==
    ASSUME NEW q, NEW snt \in Nat, NEW seen, NEW exc, NEW win, NEW in,
           HoleUp(q, seen, exc, win, in, snt)
    PROVE  HoleUp(q, seen, exc \cup {snt + 1}, win, in, snt + 1)
<1>1. \A s \in 1..(snt + 1) : s \in 1..snt \/ s = snt + 1
  OBVIOUS
<1>2. Covered(q, seen, exc \cup {snt + 1}) = Covered(q, seen, exc) \cup {snt + 1}
  BY DEF Covered
<1>3. QED
  BY <1>1, <1>2 DEF HoleUp

(* A batch that is delivered closes every hole from its first row on.       *)
LEMMA HoleClosed ==
    ASSUME NEW q \in Seq(Rows), q # <<>>, q[1].type = "history", Ordered(q),
           NEW seen \in SUBSET Int, NEW exc, NEW win, NEW in
    PROVE  LET seen2 == seen \cup (q[1].from..q[1].to) IN
           /\ \A snt \in Nat : HoleUp(q, seen, exc, win, in, snt)
                => HoleUp(Tail(q), seen2, exc, q[1].from, TRUE, snt)
           /\ HoleGone(q, seen, exc, win, in)
                => HoleGone(Tail(q), seen2, exc, q[1].from, TRUE)
<1> DEFINE seen2 == seen \cup (q[1].from..q[1].to)
<1>1. PICK t \in Seq(Rows) : t = Tail(q) /\ PartOf(t, q, 1)
  BY TailPart DEF PartOf
<1>2. 1 \in Batches(q) /\ \A i \in 1..Len(q) : i = 1 \/ (i - 1 \in 1..Len(t) /\ t[i - 1] = q[i])
  BY <1>1, TailPart DEF Batches
<1>3. PICK f \in Int, l \in Int : f = q[1].from /\ l = q[1].to
  BY <1>2, RowFields
<1>4. Coming(t) = Coming(q)
  <2>1. Coming(t) \subseteq Coming(q)
    BY <1>1, PartRows
  <2>2. ASSUME NEW i \in Lives(q)
        PROVE  q[i].from \in Coming(t)
    <3>1. i \in 1..Len(q) /\ i # 1
      BY DEF Lives
    <3>2. i - 1 \in Lives(t) /\ t[i - 1] = q[i]
      BY <1>2, <3>1 DEF Lives
    <3>3. QED
      BY <3>2 DEF Coming
  <2>3. QED
    BY <2>1, <2>2 DEF Coming
<1>5. Covered(t, seen2, exc) = Covered(q, seen, exc) \cup (f..l)
  BY <1>3, <1>4 DEF Covered
<1>6. \A s \in Int : f <= s /\ s \notin f..l => l < s
  OBVIOUS
<1>7. \A i \in Batches(t) : i + 1 \in Batches(q) /\ t[i] = q[i + 1] /\ l <= t[i].to
                            /\ t[i].to \in Int
  <2>1. \A i \in Batches(t) : i + 1 \in Batches(q) /\ t[i] = q[i + 1]
    <3>1. PICK d \in Nat : d = 1 /\ PartOf(t, q, d)
      BY <1>1
    <3>2. \A i \in Batches(t) : i + d \in Batches(q) /\ t[i] = q[i + d]
      BY <3>1, PartRows
    <3>3. QED
      BY <3>1, <3>2
  <2>2. \A i \in Batches(t) : 1 < i + 1
    <3>1. Batches(t) \subseteq 1..Len(t) /\ Len(t) \in Nat
      BY RowFields
    <3>2. QED
      BY <3>1
  <2>3. QED
    BY <1>2, <1>3, <2>1, <2>2, RowFields DEF Ordered
<1>8. ASSUME NEW snt \in Nat, HoleUp(q, seen, exc, win, in, snt)
      PROVE  HoleUp(t, seen2, exc, f, TRUE, snt)
  <2>1. ASSUME NEW s \in 1..snt, l < s
        PROVE  s \in Covered(t, seen2, exc)
    BY <1>2, <1>3, <1>5, <1>8, <2>1 DEF HoleUp
  <2>2. ASSUME NEW s \in 1..snt, s \notin Covered(t, seen2, exc), f <= s
        PROVE  FALSE
    <3>1. s \in Int
      OBVIOUS
    <3>2. l < s
      BY <1>5, <1>6, <2>2, <3>1
    <3>3. QED
      BY <2>1, <2>2, <3>2
  <2>3. ASSUME NEW i \in Batches(t), NEW s \in 1..snt, t[i].to < s
        PROVE  s \in Covered(t, seen2, exc)
    <3>1. l < s
      BY <1>7, <2>3
    <3>2. QED
      BY <2>1, <3>1
  <2>4. QED
    BY <2>2, <2>3 DEF HoleUp
<1>9. ASSUME HoleGone(q, seen, exc, win, in)
      PROVE  HoleGone(t, seen2, exc, f, TRUE)
  <2>0. Samples \subseteq Int
    BY DEF Samples
  <2>1. \A b \in seen2 \cup Coming(t) : b \in seen \cup Coming(q) \/ b \in f..l
    BY <1>3, <1>4
  <2>2. ASSUME NEW s \in Samples, s \notin Covered(t, seen2, exc), l < s,
               NEW b \in seen2 \cup Coming(t)
        PROVE  b < s
    <3>1. CASE b \in seen \cup Coming(q)
      BY <1>2, <1>3, <1>5, <1>9, <2>2, <3>1 DEF HoleGone
    <3>2. CASE b \in f..l
      BY <2>0, <2>2, <3>2
    <3>3. QED
      BY <2>1, <3>1, <3>2
  <2>3. ASSUME NEW s \in Samples, s \notin Covered(t, seen2, exc), f <= s,
               NEW a \in seen2 \cup Coming(t), NEW b \in seen2 \cup Coming(t)
        PROVE  ~(a < s /\ s < b)
    <3>1. l < s
      BY <1>5, <1>6, <2>0, <2>3
    <3>2. b < s
      BY <2>2, <2>3, <3>1
    <3>3. b \in Int /\ s \in Int
      <4>1. Coming(q) \subseteq Int
        BY RowFields DEF Coming
      <4>2. b \in Int
        BY <2>1, <2>3, <4>1
      <4>3. QED
        BY <2>0, <4>2
    <3>4. QED
      BY <3>2, <3>3
  <2>4. ASSUME NEW i \in Batches(t), NEW s \in Samples, t[i].to < s,
               s \notin Covered(t, seen2, exc), NEW b \in seen2 \cup Coming(t)
        PROVE  b < s
    <3>1. l < s
      BY <1>7, <2>0, <2>4
    <3>2. QED
      BY <2>2, <2>4, <3>1
  <2>5. QED
    BY <2>3, <2>4 DEF HoleGone
<1>10. QED
  BY <1>1, <1>3, <1>8, <1>9

(* When the gateway's end goes, and the last rows of the queue with it, no  *)
(* sample that is lost lies before one that the page has or will still get: *)
(* the live samples that are lost are later than those that are delivered,  *)
(* and a replay that reaches behind one of them has it.                     *)
LEMMA LoseHole ==
    ASSUME NEW t, NEW q, PartOf(t, q, 0), Ordered(q),
           NEW snt \in Nat, NEW per, NEW first, Bounded(q, snt, per, first),
           NEW last \in 0..snt, NEW win \in Int, Ahead(q, last, win),
           NEW lv \in SUBSET (1..last), NEW rp \in SUBSET Samples, Gapless(rp, win),
           NEW exc, NEW in, HoleUp(q, lv \cup rp, exc, win, in, snt)
    PROVE  HoleGone(t, lv \cup rp, exc, win, in)
<1> DEFINE seen == lv \cup rp
<1>1. /\ q \in Seq(Rows) /\ t \in Seq(Rows) /\ Len(q) \in Nat /\ Len(t) \in Nat
      /\ \A i \in 1..Len(t) : i \in 1..Len(q) /\ t[i] = q[i]
  <2>1. q \in Seq(Rows) /\ t \in Seq(Rows)
    BY DEF PartOf
  <2>2. Len(q) \in Nat /\ Len(t) \in Nat
    BY <2>1, LenProperties
  <2>3. \A i \in 1..Len(t) : i + 0 = i
    BY <2>2
  <2>4. QED
    BY <2>1, <2>2, <2>3 DEF PartOf
<1>2. Lives(q) \subseteq 1..Len(q) /\ \A i \in Lives(q) : q[i].from \in 1..snt
  BY DEF Lives, Bounded
<1>3. /\ \A i \in Lives(t) : i \in 1..Len(t) /\ i \in Lives(q) /\ t[i] = q[i]
      /\ \A i \in Batches(t) : i \in Batches(q) /\ t[i] = q[i]
      /\ \A i \in Lives(q) : i \in 1..Len(t) => i \in Lives(t) /\ t[i] = q[i]
  BY <1>1 DEF Lives, Batches
<1>4. Samples \subseteq Int /\ seen \subseteq Int /\ Coming(t) \subseteq 1..snt /\ lv \subseteq 1..snt
  BY <1>2, <1>3 DEF Samples, Coming
<1>5. ASSUME NEW i \in Lives(q), q[i].from \notin Coming(t), NEW b \in lv \cup Coming(t)
      PROVE  b < q[i].from
  <2>1. i \in 1..Len(q) /\ i \notin 1..Len(t)
    BY <1>2, <1>3, <1>5 DEF Coming
  <2>2. \A j \in 1..Len(t) : j < i
    BY <1>1, <2>1
  <2>3. CASE b \in lv
    <3>1. last < q[i].from /\ q[i].from \in 1..snt
      BY <1>2 DEF Ahead
    <3>2. QED
      BY <2>3, <3>1
  <2>4. CASE b \in Coming(t)
    BY <1>3, <2>2, <2>4 DEF Ordered, Coming
  <2>5. QED
    BY <1>5, <2>3, <2>4
<1>6. ASSUME NEW s \in Samples, NEW b \in seen \cup Coming(t),
             s \notin Covered(t, seen, exc), win <= s, s <= b
      PROVE  s \in 1..snt /\ s \notin Covered(q, seen, exc)
  <2>1. b \notin rp
    BY <1>6 DEF Gapless, Covered
  <2>2. b \in lv \cup Coming(t) /\ b \in 1..snt
    BY <1>4, <1>6, <2>1
  <2>3. s \in 1..snt
    BY <1>6, <2>2 DEF Samples
  <2>4. ASSUME s \in Coming(q)
        PROVE  FALSE
    <3>1. PICK i \in Lives(q) : s = q[i].from
      BY <2>4 DEF Coming
    <3>2. b < s
      BY <1>5, <1>6, <2>2, <3>1 DEF Covered
    <3>3. QED
      BY <1>6, <2>2, <2>3, <3>2
  <2>5. QED
    BY <1>6, <2>3, <2>4 DEF Covered
<1>7. ASSUME in, NEW s \in Samples, s \notin Covered(t, seen, exc), win <= s,
             NEW a \in seen \cup Coming(t), NEW b \in seen \cup Coming(t), a < s, s < b
      PROVE  FALSE
  <2>1. a \in Int /\ b \in Int /\ s \in Int
    BY <1>4
  <2>2. s <= b /\ ~(s < a)
    BY <1>7, <2>1
  <2>3. s \in 1..snt /\ s \notin Covered(q, seen, exc)
    BY <1>6, <1>7, <2>2
  <2>4. a \in seen \cup Coming(q)
    BY <1>3 DEF Coming
  <2>5. QED
    BY <1>7, <2>2, <2>3, <2>4 DEF HoleUp
<1>8. ASSUME NEW i \in Batches(t), NEW s \in Samples, t[i].to < s,
             s \notin Covered(t, seen, exc), NEW b \in seen \cup Coming(t)
      PROVE  b < s
  <2>1. i \in Batches(q) /\ t[i] = q[i] /\ q[i].from \in Int /\ q[i].to \in Int
    BY <1>1, <1>3, RowFields
  <2>2. win <= q[i].from /\ q[i].from <= q[i].to + 1
    BY <2>1 DEF Ahead, Bounded
  <2>3. b \in Int /\ s \in Int
    BY <1>4
  <2>4. win <= s
    BY <1>8, <2>1, <2>2, <2>3
  <2>5. CASE s <= b
    BY <1>6, <1>8, <2>1, <2>4, <2>5 DEF HoleUp
  <2>6. QED
    BY <2>3, <2>5
<1>9. QED
  BY <1>7, <1>8 DEF HoleGone

-----------------------------------------------------------------------------
(* Rows that are sent, and the window of the history *)

(* The last LastN samples begin at a sample, or just behind the last one.   *)
LEMMA WindowBegins ==
    ASSUME NEW n \in 0..MaxSeq
    PROVE  FirstRow(n) \in 1..(MaxSeq + 1) /\ FirstRow(n) \in 1..(n + 1)
  BY UiBoundsAssumption DEF FirstRow

(* They never begin earlier than they did. *)
LEMMA WindowGrows ==
    ASSUME NEW m \in -1..MaxSeq, NEW n \in -1..MaxSeq, m <= n
    PROVE  FirstRow(m) \in Int /\ FirstRow(n) \in Int /\ FirstRow(m) <= FirstRow(n)
  BY UiBoundsAssumption DEF FirstRow

(* A queue stays within bounds that grow. *)
LEMMA BoundsGrow ==
    ASSUME NEW q \in Seq(Rows), NEW s1 \in Int, NEW s2 \in Int, s1 <= s2,
           NEW p1 \in Int, NEW p2 \in Int, p1 <= p2,
           NEW f1 \in Int, NEW f2 \in Int, f1 <= f2, Bounded(q, s1, p1, f1)
    PROVE  Bounded(q, s2, p2, f2)
<1>1. \A i \in Lives(q) \cup Batches(q) : q[i].from \in Int /\ q[i].to \in Int
  BY RowFields
<1>2. QED
  BY <1>1 DEF Bounded

(* The empty queue has no row. *)
LEMMA EmptyQueue ==
    ASSUME NEW q, q = <<>>
    PROVE  /\ q \in Seq(Rows) /\ Lives(q) = {} /\ Batches(q) = {} /\ Coming(q) = {}
           /\ \A snt, per, first : Bounded(q, snt, per, first)
           /\ \A last, win : Ahead(q, last, win)
           /\ Ordered(q)
<1>1. q \in Seq(Rows) /\ Len(q) = 0
  BY EmptySeq
<1>2. Lives(q) = {} /\ Batches(q) = {}
  BY <1>1 DEF Lives, Batches
<1>3. Coming(q) = {}
  BY <1>2 DEF Coming
<1>4. QED
  BY <1>1, <1>2, <1>3 DEF Bounded, Ahead, Ordered

(* The row that tells of the handshake is neither a sample nor a batch.     *)
LEMMA AppendOpen ==
    ASSUME NEW q \in Seq(Rows), NEW r \in Rows, r.type = "open"
    PROVE  /\ Append(q, r) \in Seq(Rows)
           /\ Lives(Append(q, r)) = Lives(q) /\ Batches(Append(q, r)) = Batches(q)
           /\ Coming(Append(q, r)) = Coming(q)
<1>0. PICK t \in Seq(Rows), n \in Nat : Added(t, n, q, r)
  BY AppendRow
<1>1. r.type # "telemetry" /\ r.type # "history"
  OBVIOUS
<1>2. QED
  BY <1>0, <1>1 DEF Added

(* The next sample comes behind what was sent before it.                    *)
LEMMA AppendLive ==
    ASSUME NEW q \in Seq(Rows), NEW r \in Rows, r.type = "telemetry",
           NEW snt \in Nat, NEW per, NEW first, r.from = snt + 1, r.to = r.from,
           Bounded(q, snt, per, first), Ordered(q)
    PROVE  /\ Append(q, r) \in Seq(Rows)
           /\ Bounded(Append(q, r), snt + 1, per, first) /\ Ordered(Append(q, r))
           /\ \A last \in 0..snt : \A win :
                Ahead(q, last, win) => Ahead(Append(q, r), last, win)
           /\ Batches(Append(q, r)) = Batches(q)
<1>0. PICK t \in Seq(Rows), n \in Nat : Added(t, n, q, r)
  BY AppendRow
<1>1. /\ Lives(t) = Lives(q) \cup {n} /\ Batches(t) = Batches(q) /\ t[n] = r
      /\ \A i \in 1..Len(q) : t[i] = q[i] /\ i < n /\ ~(n < i)
      /\ ~(n < n)
  BY <1>0 DEF Added
<1>2. Lives(q) \subseteq 1..Len(q) /\ Batches(q) \subseteq 1..Len(q)
  BY RowFields
<1>3. \A i \in Lives(q) : q[i].to = q[i].from /\ q[i].from \in 1..snt /\ q[i].from < snt + 1
                          /\ q[i].from \in 1..(snt + 1)
  BY DEF Bounded
<1>4. \A last \in 0..snt : last < snt + 1
  OBVIOUS
<1>5. snt + 1 \in 1..(snt + 1)
  OBVIOUS
<1>6. Bounded(t, snt + 1, per, first)
  <2>1. \A i \in Lives(t) : t[i].to = t[i].from /\ t[i].from \in 1..(snt + 1)
    BY <1>1, <1>2, <1>3, <1>5
  <2>2. \A i \in Batches(t) : t[i] = q[i]
    BY <1>1, <1>2
  <2>3. QED
    BY <1>1, <2>1, <2>2 DEF Bounded
<1>7. Ordered(t)
  <2>1. ASSUME NEW i \in Lives(t), NEW j \in Lives(t), i < j
        PROVE  t[i].from < t[j].from
    BY <1>1, <1>2, <1>3, <2>1 DEF Ordered
  <2>2. ASSUME NEW i \in Batches(t), NEW j \in Batches(t), i < j
        PROVE  t[i].from <= t[j].from /\ t[i].to <= t[j].to
    BY <1>1, <1>2, <2>2 DEF Ordered
  <2>3. QED
    BY <2>1, <2>2 DEF Ordered
<1>8. ASSUME NEW last \in 0..snt, NEW win, Ahead(q, last, win)
      PROVE  Ahead(t, last, win)
  <2>1. \A i \in Lives(t) : last < t[i].from
    BY <1>1, <1>2, <1>4, <1>8 DEF Ahead
  <2>2. \A i \in Batches(t) : t[i] = q[i]
    BY <1>1, <1>2
  <2>3. QED
    BY <1>1, <1>8, <2>1, <2>2 DEF Ahead
<1>9. QED
  BY <1>0, <1>1, <1>6, <1>7, <1>8 DEF Added

(* A batch comes behind the batches that were read before it.               *)
LEMMA AppendBatch ==
    ASSUME NEW q \in Seq(Rows), NEW r \in Rows, r.type = "history",
           NEW snt, NEW per \in Nat, NEW first \in 1..(per + 1),
           r.from = first, r.to = per, Bounded(q, snt, per, first), Ordered(q)
    PROVE  /\ Append(q, r) \in Seq(Rows)
           /\ Bounded(Append(q, r), snt, per, first) /\ Ordered(Append(q, r))
           /\ \A last : \A win \in Int : win <= first =>
                (Ahead(q, last, win) => Ahead(Append(q, r), last, win))
           /\ Cardinality(Batches(Append(q, r))) = Cardinality(Batches(q)) + 1
           /\ Coming(Append(q, r)) = Coming(q)
<1>0. PICK t \in Seq(Rows), n \in Nat : Added(t, n, q, r)
  BY AppendRow
<1>1. /\ Lives(t) = Lives(q) /\ Batches(t) = Batches(q) \cup {n} /\ t[n] = r
      /\ \A i \in 1..Len(q) : t[i] = q[i] /\ i < n /\ ~(n < i)
      /\ ~(n < n) /\ Coming(t) = Coming(q)
  BY <1>0 DEF Added
<1>2. /\ Lives(q) \subseteq 1..Len(q) /\ Batches(q) \subseteq 1..Len(q)
      /\ \A i \in Lives(q) \cup Batches(q) : q[i].from \in Int /\ q[i].to \in Int
  BY RowFields
<1>4. \A i \in Batches(q) : q[i].to <= per /\ q[i].from <= first
  BY DEF Bounded
<1>5. per <= per /\ first <= per + 1 /\ first <= first
  OBVIOUS
<1>6. Bounded(t, snt, per, first)
  <2>1. \A i \in Lives(t) : t[i] = q[i]
    BY <1>1, <1>2
  <2>2. \A i \in Batches(t) : /\ t[i].to <= per
                              /\ t[i].from <= t[i].to + 1 /\ t[i].from <= first
    BY <1>1, <1>2, <1>5 DEF Bounded
  <2>3. QED
    BY <1>1, <2>1, <2>2 DEF Bounded
<1>7. Ordered(t)
  <2>1. ASSUME NEW i \in Lives(t), NEW j \in Lives(t), i < j
        PROVE  t[i].from < t[j].from
    BY <1>1, <1>2, <2>1 DEF Ordered
  <2>2. ASSUME NEW i \in Batches(t), NEW j \in Batches(t), i < j
        PROVE  t[i].from <= t[j].from /\ t[i].to <= t[j].to
    BY <1>1, <1>2, <1>4, <2>2 DEF Ordered
  <2>3. QED
    BY <2>1, <2>2 DEF Ordered
<1>8. ASSUME NEW last, NEW win \in Int, win <= first, Ahead(q, last, win)
      PROVE  Ahead(t, last, win)
  <2>1. \A i \in Lives(t) : t[i] = q[i]
    BY <1>1, <1>2
  <2>2. \A i \in Batches(t) : win <= t[i].from
    BY <1>1, <1>2, <1>8 DEF Ahead
  <2>3. QED
    BY <1>1, <1>8, <2>1, <2>2 DEF Ahead
<1>9. Cardinality(Batches(t)) = Cardinality(Batches(q)) + 1
  <2>1. IsFiniteSet(Batches(q)) /\ n \notin Batches(q)
    BY <1>1, <1>2, BatchCount
  <2>2. QED
    BY <1>1, <2>1, FS_AddElement
<1>10. QED
  BY <1>0, <1>1, <1>6, <1>7, <1>8, <1>9 DEF Added

-----------------------------------------------------------------------------
(* Connecting and disconnecting *)

(* disconnect leaves no socket that is connecting or open. *)
LEMMA DisconnectCloses ==
    ASSUME TypeOK, OneSocket
    PROVE  /\ AfterDisconnect \in [Sockets -> {"none", "connecting", "open", "closing", "closed"}]
           /\ \A k \in Sockets : /\ AfterDisconnect[k] \notin {"connecting", "open"}
                                 /\ ready[k] = "none" <=> AfterDisconnect[k] = "none"
                                 /\ ready[k] \in {"connecting", "open", "closing"}
                                      => AfterDisconnect[k] = "closing"
<1>1. /\ ready \in [Sockets -> {"none", "connecting", "open", "closing", "closed"}]
      /\ \A k \in Sockets : ready[k] \in {"connecting", "open"} => ws = k
  BY DEF TypeOK, OneSocket
<1>2. CASE ws = 0
  <2>1. \A k \in Sockets : k # 0
    BY DEF Sockets
  <2>2. QED
    BY <1>1, <1>2, <2>1 DEF AfterDisconnect
<1>3. CASE ws # 0
  BY <1>1, <1>3 DEF AfterDisconnect, Closing
<1>4. QED
  BY <1>2, <1>3

(* After connect, the new socket, if there is one, is the only active one,  *)
(* and nothing has happened to it.                                          *)
LEMMA ConnectStep ==
    ASSUME IInv, NEW r \in BOOLEAN, Connect(r)
    PROVE  /\ ws' \in 0..made' /\ made' \in 0..MaxSockets /\ again' \subseteq 1..made'
           /\ ready' \in [Sockets -> {"none", "connecting", "open", "closing", "closed"}]
           /\ failed' \in BOOLEAN
           /\ SocketInv' /\ CountInv' /\ QueueInv' /\ ReadInv' /\ GapInv'
           /\ \A k \in Sockets : Active(k)' =>
                /\ ready'[k] = "connecting" /\ (k \in again' <=> r)
                /\ link'[k] = "none" /\ inbox'[k] = <<>>
                /\ reqs'[k] = 0 /\ loaded'[k] = 0 /\ clicks' = 0
<1>1. /\ AfterDisconnect \in [Sockets -> {"none", "connecting", "open", "closing", "closed"}]
      /\ \A k \in Sockets : /\ AfterDisconnect[k] \notin {"connecting", "open"}
                            /\ ready[k] = "none" <=> AfterDisconnect[k] = "none"
                            /\ ready[k] \in {"connecting", "open", "closing"}
                                 => AfterDisconnect[k] = "closing"
  BY DisconnectCloses DEF IInv, SocketInv
<1>2. /\ made \in Int /\ made + 1 \in Sockets /\ made \in 0..MaxSockets
      /\ made + 1 \in 1..MaxSockets /\ MaxSockets \in Nat
      /\ again \subseteq 1..made /\ made + 1 \notin again
      /\ \A k \in Sockets : k > made + 1 => k > made /\ k # made + 1
      /\ made + 1 > made /\ ~(made + 1 > made + 1) /\ again \subseteq 1..(made + 1)
  BY UiBoundsAssumption DEF Connect, IInv, TypeOK, Sockets
<1>3. UNCHANGED <<inbox, reqs, loaded, link, answered, fetched, busy, persisted, sent, cut>>
  BY DEF Connect, gwVars, askedVars
<1>4. CountInv' /\ QueueInv'
  <2>1. CountInv /\ QueueInv
    BY DEF IInv
  <2>2. QED
    BY <1>3, <2>1 DEF CountInv, QueueInv
<1>5. /\ \A k \in Sockets : k > made =>
           /\ ready[k] = "none" /\ link[k] = "none"
           /\ reqs[k] = 0 /\ loaded[k] = 0 /\ answered[k] = 0 /\ fetched[k] = -1
      /\ \A k \in Sockets : link[k] = "none" => inbox[k] = <<>> /\ ready[k] # "open"
      /\ Going /\ ReadInv
  BY DEF IInv, SocketInv, ReadInv
<1>6. CASE /\ made' = made + 1 /\ ws' = made'
           /\ ready' = [AfterDisconnect EXCEPT ![made'] = "connecting"]
           /\ again' = IF r THEN again \cup {made'} ELSE again
           /\ failed' = FALSE
  <2>1. /\ ready' \in [Sockets -> {"none", "connecting", "open", "closing", "closed"}]
        /\ ready'[made + 1] = "connecting"
        /\ \A k \in Sockets : k # made + 1 => ready'[k] = AfterDisconnect[k]
    BY <1>1, <1>2, <1>6
  <2>2. ws' \in 0..made' /\ made' \in 0..MaxSockets /\ again' \subseteq 1..made'
    BY <1>2, <1>6
  <2>3. \A k \in Sockets : Active(k)' => k = made + 1
    BY <1>1, <2>1 DEF Active
  <2>4. OneSocket'
    BY <1>1, <1>6, <2>1 DEF OneSocket
  <2>5. NeverStuck' /\ Going'
    <3>1. online' = online
      BY DEF Connect
    <3>2. \A k \in Sockets : ready[k] \in {"open", "closing"} => ready'[k] = "closing"
      BY <1>1, <1>2, <1>5, <2>1
    <3>3. QED
      BY <1>2, <1>5, <2>1, <3>1, <3>2 DEF NeverStuck, Going
  <2>6. \A k \in Sockets : k > made' =>
           /\ ready'[k] = "none" /\ link'[k] = "none"
           /\ reqs'[k] = 0 /\ loaded'[k] = 0 /\ answered'[k] = 0
    BY <1>1, <1>2, <1>3, <1>5, <1>6, <2>1
  <2>7. \A k \in Sockets : link'[k] = "none" => inbox'[k] = <<>> /\ ready'[k] # "open"
    BY <1>1, <1>3, <1>5, <2>1
  <2>8. SocketInv'
    BY <2>4, <2>5, <2>6, <2>7 DEF SocketInv
  <2>9. made + 1 \in again' <=> r
    BY <1>2, <1>6
  <2>10. clicks' = 0
    BY DEF Connect
  <2>11. ASSUME NEW k \in Sockets, Active(k)'
         PROVE  /\ ready'[k] = "connecting" /\ (k \in again' <=> r)
                /\ link'[k] = "none" /\ inbox'[k] = <<>>
                /\ reqs'[k] = 0 /\ loaded'[k] = 0 /\ clicks' = 0
    <3>1. k = made + 1 /\ k > made
      BY <1>2, <2>3, <2>11
    <3>2. QED
      BY <1>3, <1>5, <2>1, <2>9, <2>10, <3>1
  <2>12. ReadInv' /\ GapInv'
    <3>1. \A k \in Sockets : Active(k)' => fetched'[k] = -1 /\ link'[k] = "none"
      BY <1>2, <1>3, <1>5, <2>3
    <3>2. \A k \in Sockets : k > made' => fetched'[k] = -1
      BY <1>2, <1>3, <1>5, <1>6
    <3>3. QED
      BY <1>3, <1>5, <3>1, <3>2 DEF ReadInv, GapInv
  <2>13. QED
    BY <1>4, <1>6, <2>1, <2>2, <2>8, <2>11, <2>12
<1>7. CASE ws' = 0 /\ ready' = AfterDisconnect /\ failed' = TRUE /\ UNCHANGED <<made, again>>
  <2>1. \A k \in Sockets : ~Active(k)'
    BY <1>1, <1>7 DEF Active
  <2>2. OneSocket' /\ NeverStuck' /\ Going'
    <3>1. online' = online
      BY DEF Connect
    <3>2. Going'
      BY <1>1, <1>5, <1>7, <3>1 DEF Going
    <3>3. QED
      BY <1>1, <1>7, <3>2 DEF OneSocket, NeverStuck, Going
  <2>3. SocketInv' /\ ReadInv' /\ GapInv'
    BY <1>1, <1>3, <1>5, <1>7, <2>1, <2>2 DEF SocketInv, ReadInv, GapInv
  <2>4. ws' \in 0..made' /\ made' \in 0..MaxSockets /\ again' \subseteq 1..made'
    BY <1>2, <1>7
  <2>5. ready' \in [Sockets -> {"none", "connecting", "open", "closing", "closed"}]
    BY <1>1, <1>7
  <2>6. QED
    BY <1>4, <1>7, <2>1, <2>3, <2>4, <2>5
<1>8. QED
  BY <1>6, <1>7 DEF Connect

(* A run started by hand. *)
LEMMA ClickConnectStep ==
    ASSUME IInv, ClickConnect
    PROVE  IInv'
<1>0. Connect(FALSE) /\ ResetRunState /\ FALSE \in BOOLEAN
  BY DEF ClickConnect
<1>1. /\ ws' \in 0..made' /\ made' \in 0..MaxSockets /\ again' \subseteq 1..made'
      /\ ready' \in [Sockets -> {"none", "connecting", "open", "closing", "closed"}]
      /\ failed' \in BOOLEAN
      /\ SocketInv' /\ CountInv' /\ QueueInv' /\ ReadInv' /\ GapInv'
      /\ \A k \in Sockets : Active(k)' =>
           /\ ready'[k] = "connecting" /\ (k \in again' <=> FALSE)
           /\ link'[k] = "none" /\ inbox'[k] = <<>>
           /\ reqs'[k] = 0 /\ loaded'[k] = 0 /\ clicks' = 0
  BY <1>0, ConnectStep
<1>2. /\ live' = {} /\ replay' = {} /\ lastLiveSeq' = 0 /\ window' = 0
      /\ pendingRecovery' = FALSE /\ manualDisconnect' = FALSE /\ reconnectTimer' = FALSE
      /\ clicks' = 0
      /\ UNCHANGED <<paused, online, latest, excused, reqs, loaded, inbox>>
      /\ UNCHANGED <<link, answered, fetched, busy, persisted, sent, cut>>
  BY <1>0 DEF Connect, ResetRunState, gwVars, askedVars
<1>3. TypeOK /\ LogInv
  BY DEF IInv
<1>4. /\ MaxSeq \in Nat /\ MaxReqs \in Nat /\ persisted \in 0..MaxSeq /\ sent \in 0..MaxSeq
  BY <1>3, UiBoundsAssumption DEF TypeOK
<1>5. TypeOK'
  <2>1. /\ lastLiveSeq' \in 0..MaxSeq /\ window' \in 0..(MaxSeq + 1) /\ clicks' \in 0..MaxReqs
        /\ live' \subseteq Samples /\ replay' \subseteq Samples
    BY <1>2, <1>4
  <2>2. QED
    BY <1>1, <1>2, <1>3, <2>1 DEF TypeOK
<1>6. AskInv'
  BY <1>1, <1>2 DEF AskInv, Active
<1>7. LogInv'
  <2>1. /\ live' \subseteq 1..lastLiveSeq' /\ lastLiveSeq' <= sent' /\ replay' \subseteq 1..persisted'
    BY <1>2, <1>3, <1>4 DEF LogInv
  <2>2. window' <= FirstRow(persisted')
    BY <1>2, <1>4, WindowBegins
  <2>3. Gapless(replay', window')
    BY <1>2 DEF Gapless
  <2>4. \A k \in Sockets : Active(k)' => Ahead(inbox'[k], lastLiveSeq', window')
    BY <1>1, EmptyQueue
  <2>5. QED
    BY <2>1, <2>2, <2>3, <2>4 DEF LogInv
<1>8. HoleInv'
  BY <1>1, <1>2 DEF HoleInv, Seen
<1>9. QED
  BY <1>1, <1>5, <1>6, <1>7, <1>8 DEF IInv

(* A reconnection keeps the log. *)
LEMMA TimerFiresStep ==
    ASSUME IInv, TimerFires
    PROVE  IInv'
<1>0. Connect(TRUE) /\ TRUE \in BOOLEAN
  BY DEF TimerFires
<1>1. /\ ws' \in 0..made' /\ made' \in 0..MaxSockets /\ again' \subseteq 1..made'
      /\ ready' \in [Sockets -> {"none", "connecting", "open", "closing", "closed"}]
      /\ failed' \in BOOLEAN
      /\ SocketInv' /\ CountInv' /\ QueueInv' /\ ReadInv' /\ GapInv'
      /\ \A k \in Sockets : Active(k)' =>
           /\ ready'[k] = "connecting" /\ (k \in again' <=> TRUE)
           /\ link'[k] = "none" /\ inbox'[k] = <<>>
           /\ reqs'[k] = 0 /\ loaded'[k] = 0 /\ clicks' = 0
  BY <1>0, ConnectStep
<1>2. /\ pendingRecovery' = TRUE /\ manualDisconnect' = FALSE /\ reconnectTimer' = FALSE
      /\ clicks' = 0
      /\ UNCHANGED <<paused, online, latest, excused, reqs, loaded, inbox>>
      /\ UNCHANGED <<link, answered, fetched, busy, persisted, sent, cut>>
      /\ UNCHANGED <<lastLiveSeq, live, replay, window>>
  BY <1>0 DEF Connect, TimerFires, gwVars, askedVars, liveVars
<1>3. TypeOK /\ LogInv
  BY DEF IInv
<1>4. clicks' \in 0..MaxReqs
  BY <1>2, UiBoundsAssumption
<1>5. TypeOK'
  BY <1>1, <1>2, <1>3, <1>4 DEF TypeOK
<1>6. AskInv'
  BY <1>1, <1>2 DEF AskInv, Active
<1>7. LogInv'
  <2>1. \A k \in Sockets : Active(k)' => Ahead(inbox'[k], lastLiveSeq', window')
    BY <1>1, EmptyQueue
  <2>2. QED
    BY <1>2, <1>3, <2>1 DEF LogInv
<1>8. HoleInv'
  <2>1. \A k \in Sockets : Active(k)' => ~Replayed(k)' /\ link'[k] = "none"
    BY <1>1 DEF Replayed
  <2>2. QED
    BY <2>1 DEF HoleInv
<1>9. QED
  BY <1>1, <1>5, <1>6, <1>7, <1>8 DEF IInv

(* After a disconnection by hand, no socket is active. *)
LEMMA ClickDisconnectStep ==
    ASSUME IInv, ClickDisconnect
    PROVE  IInv'
<1>1. /\ AfterDisconnect \in [Sockets -> {"none", "connecting", "open", "closing", "closed"}]
      /\ \A k \in Sockets : /\ AfterDisconnect[k] \notin {"connecting", "open"}
                            /\ ready[k] = "none" <=> AfterDisconnect[k] = "none"
                            /\ ready[k] \in {"connecting", "open", "closing"}
                                 => AfterDisconnect[k] = "closing"
  BY DisconnectCloses DEF IInv, SocketInv
<1>2. /\ manualDisconnect' = TRUE /\ reconnectTimer' = FALSE
      /\ ready' = AfterDisconnect /\ ws' = 0
      /\ UNCHANGED <<pendingRecovery, paused, online, failed, made, again>>
      /\ UNCHANGED <<lastLiveSeq, live, replay, latest, window, excused>>
      /\ UNCHANGED <<reqs, loaded, clicks, inbox>>
      /\ UNCHANGED <<link, answered, fetched, busy, persisted, sent, cut>>
  BY DEF ClickDisconnect, logVars, liveVars, askVars, gwVars, askedVars
<1>3. TypeOK /\ SocketInv /\ AskInv /\ CountInv /\ QueueInv /\ LogInv /\ ReadInv
  BY DEF IInv
<1>4. \A k \in Sockets : ready'[k] \notin {"connecting", "open"}
  BY <1>1, <1>2
<1>5. TypeOK'
  <2>1. 0 \in 0..made
    BY <1>3 DEF TypeOK
  <2>2. QED
    BY <1>1, <1>2, <1>3, <2>1 DEF TypeOK
<1>6. SocketInv'
  <2>1. OneSocket' /\ NeverStuck' /\ Going'
    <3>1. PICK k \in Sockets : ready'[k] = "closing"
      BY <1>1, <1>2, <1>3 DEF ClickDisconnect, SocketInv, Going
    <3>2. QED
      BY <1>4, <3>1 DEF OneSocket, NeverStuck, Going
  <2>2. QED
    BY <1>1, <1>2, <1>3, <1>4, <2>1 DEF SocketInv
<1>7. AskInv'
  BY <1>4 DEF AskInv
<1>8. CountInv' /\ QueueInv' /\ ReadInv'
  BY <1>2, <1>3, <1>4 DEF CountInv, QueueInv, ReadInv, Active
<1>9. LogInv'
  BY <1>2, <1>3, <1>4 DEF LogInv, Active
<1>10. HoleInv' /\ GapInv'
  BY <1>4 DEF HoleInv, GapInv, Active
<1>11. QED
  BY <1>5, <1>6, <1>7, <1>8, <1>9, <1>10 DEF IInv

(* When one socket asks again, no socket has asked for less, and one that   *)
(* still waited for an answer still does.                                   *)
LEMMA AskedMore ==
    ASSUME TypeOK, NEW w \in Sockets, NEW more \in [Sockets -> 0..(MaxReqs + 1)],
           reqs[w] <= more[w], \A k \in Sockets : k # w => more[k] = reqs[k]
    PROVE  \A k \in Sockets :
             /\ reqs[k] <= more[k] /\ reqs[k] \in Int /\ more[k] \in Int
             /\ answered[k] \in Int /\ (answered[k] < reqs[k] => answered[k] < more[k])
<1>1. /\ reqs \in [Sockets -> 0..(MaxReqs + 1)]
      /\ answered \in [Sockets -> 0..(MaxReqs + 1)]
      /\ MaxReqs \in Nat
  BY UiBoundsAssumption DEF TypeOK
<1>2. \A k \in Sockets : reqs[k] \in Int /\ answered[k] \in Int /\ more[k] \in Int
  BY <1>1
<1>3. ASSUME NEW k \in Sockets
      PROVE  reqs[k] <= more[k]
  BY <1>2
<1>4. QED
  BY <1>2, <1>3

(* A click on Load history asks once more. *)
LEMMA ClickHistoryStep ==
    ASSUME IInv, ClickHistory
    PROVE  IInv'
<1>1. /\ clicks < MaxReqs /\ ws # 0 /\ ready[ws] = "open"
      /\ reqs' = RequestHistory(ws) /\ clicks' = clicks + 1
      /\ UNCHANGED <<ws, failed, made, again, manualDisconnect, reconnectTimer, online>>
      /\ UNCHANGED <<pendingRecovery, paused>>
      /\ UNCHANGED <<lastLiveSeq, live, replay, latest, window, excused>>
      /\ UNCHANGED <<loaded, ready, inbox>>
      /\ UNCHANGED <<link, answered, fetched, busy, persisted, sent, cut>>
  BY DEF ClickHistory, pageVars, sockVars, modeVars, logVars, liveVars, gwVars, askedVars
<1>2. /\ TypeOK /\ SocketInv /\ AskInv /\ CountInv /\ QueueInv /\ LogInv /\ HoleInv
      /\ ReadInv /\ GapInv
  BY DEF IInv
<1>3. /\ ws \in Sockets /\ clicks \in 0..MaxReqs /\ clicks + 1 \in 0..MaxReqs
      /\ reqs \in [Sockets -> 0..(MaxReqs + 1)] /\ LastN \in Nat /\ MaxReqs \in Nat
  BY <1>1, <1>2, UiBoundsAssumption DEF TypeOK, Sockets
<1>4. /\ \A k \in Sockets : k # ws => reqs'[k] = reqs[k]
      /\ reqs'[ws] = reqs[ws] + (IF LastN > 0 THEN 1 ELSE 0)
      /\ reqs' = [reqs EXCEPT ![ws] = reqs'[ws]]
  BY <1>1, <1>3 DEF RequestHistory
<1>5. reqs[ws] = IF LastN > 0 THEN clicks + (IF ws \in again THEN 1 ELSE 0) ELSE 0
  BY <1>1, <1>2, <1>3 DEF AskInv
<1>6. /\ reqs'[ws] = (IF LastN > 0 THEN clicks' + (IF ws \in again THEN 1 ELSE 0) ELSE 0)
      /\ reqs'[ws] \in 0..(MaxReqs + 1) /\ reqs[ws] <= reqs'[ws]
  BY <1>1, <1>3, <1>4, <1>5
<1>7. reqs' \in [Sockets -> 0..(MaxReqs + 1)]
  BY <1>3, <1>4, <1>6
<1>8. TypeOK'
  BY <1>1, <1>2, <1>3, <1>7 DEF TypeOK
<1>9. \A k \in Sockets : ready[k] \in {"connecting", "open"} => k = ws
  BY <1>2 DEF SocketInv, OneSocket
<1>10. SocketInv'
  <2>1. OneSocket' /\ NeverStuck' /\ Going'
    BY <1>1, <1>2 DEF SocketInv, OneSocket, NeverStuck, Going
  <2>2. \A k \in Sockets : k > made => k # ws
    BY <1>1, <1>2, <1>3 DEF TypeOK
  <2>3. QED
    BY <1>1, <1>2, <1>4, <2>1, <2>2 DEF SocketInv
<1>11. AskInv'
  BY <1>1, <1>6, <1>9 DEF AskInv
<1>12. \A k \in Sockets :
         /\ reqs[k] <= reqs'[k] /\ reqs[k] \in Int /\ reqs'[k] \in Int
         /\ answered[k] \in Int /\ (answered[k] < reqs[k] => answered[k] < reqs'[k])
  BY <1>2, <1>3, <1>4, <1>6, <1>7, AskedMore
<1>13. CountInv'
  <2>1. ASSUME NEW k \in Sockets
        PROVE  /\ loaded'[k] + Cardinality(Batches(inbox'[k])) <= answered'[k]
               /\ answered'[k] <= reqs'[k]
    <3>1. answered[k] <= reqs[k] /\ loaded[k] + Cardinality(Batches(inbox[k])) <= answered[k]
      BY <1>2 DEF CountInv
    <3>2. answered[k] <= reqs'[k]
      BY <1>12, <3>1
    <3>3. QED
      BY <1>1, <3>1, <3>2
  <2>2. QED
    BY <2>1 DEF CountInv
<1>14. QueueInv' /\ LogInv'
  BY <1>1, <1>2 DEF QueueInv, LogInv, Active
<1>15. HoleInv' /\ GapInv'
  BY <1>1, <1>2 DEF HoleInv, GapInv, Active, Replayed, Seen
<1>16. ReadInv'
  BY <1>1, <1>2, <1>12 DEF ReadInv, Active
<1>17. QED
  BY <1>8, <1>10, <1>11, <1>13, <1>14, <1>15, <1>16 DEF IInv

(* Pausing changes nothing that is logged. *)
LEMMA ClickPauseStep ==
    ASSUME IInv, ClickPause
    PROVE  IInv'
<1>1. /\ paused' = ~paused
      /\ UNCHANGED <<ws, failed, made, again, manualDisconnect, reconnectTimer, online>>
      /\ UNCHANGED <<pendingRecovery, reqs, loaded, clicks, ready, inbox>>
      /\ UNCHANGED <<lastLiveSeq, live, replay, latest, window, excused>>
      /\ UNCHANGED <<link, answered, fetched, busy, persisted, sent, cut>>
  BY DEF ClickPause, sockVars, modeVars, logVars, liveVars, askVars, gwVars, askedVars
<1>2. /\ TypeOK /\ SocketInv /\ AskInv /\ CountInv /\ QueueInv /\ LogInv /\ HoleInv
      /\ ReadInv /\ GapInv
  BY DEF IInv
<1>3. TypeOK'
  <2>1. paused' \in BOOLEAN
    BY <1>1
  <2>2. QED
    BY <1>1, <1>2, <2>1 DEF TypeOK
<1>4. SocketInv' /\ AskInv'
  BY <1>1, <1>2 DEF SocketInv, OneSocket, NeverStuck, Going, AskInv
<1>5. CountInv' /\ QueueInv' /\ LogInv' /\ ReadInv'
  BY <1>1, <1>2 DEF CountInv, QueueInv, LogInv, ReadInv, Active
<1>6. HoleInv' /\ GapInv'
  BY <1>1, <1>2 DEF HoleInv, GapInv, Active, Replayed, Seen
<1>7. QED
  BY <1>3, <1>4, <1>5, <1>6 DEF IInv

(* What is cleared is excused. *)
LEMMA ClearAllStep ==
    ASSUME IInv, ClearAll
    PROVE  IInv'
<1>1. /\ excused' = excused \cup live \cup replay
      /\ live' = {} /\ replay' = {} /\ lastLiveSeq' = 0 /\ latest' = 0
      /\ UNCHANGED <<ws, failed, made, again, manualDisconnect, reconnectTimer, online>>
      /\ UNCHANGED <<pendingRecovery, paused, window, reqs, loaded, clicks, ready, inbox>>
      /\ UNCHANGED <<link, answered, fetched, busy, persisted, sent, cut>>
  BY DEF ClearAll, pageVars, sockVars, modeVars, askVars, gwVars, askedVars
<1>2. /\ TypeOK /\ SocketInv /\ AskInv /\ CountInv /\ QueueInv /\ LogInv /\ HoleInv
      /\ ReadInv /\ GapInv
  BY DEF IInv
<1>3. MaxSeq \in Nat /\ persisted \in 0..MaxSeq /\ sent \in 0..MaxSeq
  BY <1>2, UiBoundsAssumption DEF TypeOK
<1>4. TypeOK'
  <2>1. /\ lastLiveSeq' \in 0..MaxSeq /\ latest' \in 0..MaxSeq
        /\ live' \subseteq Samples /\ replay' \subseteq Samples /\ excused' \subseteq Samples
    BY <1>1, <1>2, <1>3 DEF TypeOK
  <2>2. QED
    BY <1>1, <1>2, <2>1 DEF TypeOK
<1>5. SocketInv' /\ AskInv'
  BY <1>1, <1>2 DEF SocketInv, OneSocket, NeverStuck, Going, AskInv
<1>6. CountInv' /\ QueueInv' /\ ReadInv'
  BY <1>1, <1>2 DEF CountInv, QueueInv, ReadInv, Active
<1>7. LogInv'
  <2>1. /\ live' \subseteq 1..lastLiveSeq' /\ lastLiveSeq' <= sent' /\ replay' \subseteq 1..persisted'
        /\ window' <= FirstRow(persisted') /\ Gapless(replay', window')
    BY <1>1, <1>2, <1>3 DEF LogInv, Gapless
  <2>2. ASSUME NEW k \in Sockets, Active(k)'
        PROVE  Ahead(inbox'[k], lastLiveSeq', window')
    <3>1. PICK q \in Seq(Rows) : q = inbox[k]
      BY <1>2 DEF TypeOK
    <3>2. \A i \in Lives(q) : q[i].from \in 1..(MaxSeq + 1)
      BY <3>1, RowFields
    <3>3. Ahead(q, lastLiveSeq, window)
      BY <1>1, <1>2, <2>2, <3>1 DEF LogInv, Active
    <3>4. \A i \in Lives(q) : 0 < q[i].from
      BY <3>2
    <3>5. Ahead(q, 0, window)
      BY <3>3, <3>4 DEF Ahead
    <3>6. QED
      BY <1>1, <3>1, <3>5
  <2>3. QED
    BY <2>1, <2>2 DEF LogInv
<1>8. HoleInv'
  <2>1. ASSUME LastN > 0, NEW k \in Sockets, Active(k)'
        PROVE  /\ link'[k] = "none" /\ Replayed(k)' => Seen' = {}
               /\ link'[k] = "up" => HoleUp(inbox'[k], Seen', excused', window', Replayed(k)', sent')
               /\ link'[k] = "gone" => HoleGone(inbox'[k], Seen', excused', window', Replayed(k)')
    <3>1. PICK q \in Seq(Rows) : q = inbox[k]
      BY <1>2 DEF TypeOK
    <3>2. PartOf(q, q, 0)
      BY SamePart
    <3>3. Seen' = {} /\ excused' = excused \cup Seen /\ Replayed(k)' = Replayed(k)
      BY <1>1 DEF Seen, Replayed
    <3>4. /\ link[k] = "up" => HoleUp(q, Seen, excused, window, Replayed(k), sent)
          /\ link[k] = "gone" => HoleGone(q, Seen, excused, window, Replayed(k))
      BY <1>1, <1>2, <2>1, <3>1 DEF HoleInv, Active
    <3>5. /\ Covered(q, Seen, excused) \subseteq Covered(q, Seen', excused')
          /\ Seen' \cup Coming(q) \subseteq Seen \cup Coming(q)
      BY <3>3 DEF Covered
    <3>6. \A win, in : /\ \A snt : HoleUp(q, Seen, excused, win, in, snt)
                                      => HoleUp(q, Seen', excused', win, in, snt)
                       /\ HoleGone(q, Seen, excused, win, in)
                            => HoleGone(q, Seen', excused', win, in)
      BY <3>2, <3>5, HoleKept
    <3>7. QED
      BY <1>1, <3>1, <3>3, <3>4, <3>6
  <2>2. QED
    BY <2>1 DEF HoleInv
<1>9. GapInv'
  <2>1. Seen' = {} /\ excused' = excused \cup Seen
    BY <1>1 DEF Seen
  <2>2. ASSUME NEW k \in Sockets
        PROVE  Covered(inbox[k], Seen, excused) \subseteq Covered(inbox[k], Seen', excused')
    BY <2>1 DEF Covered
  <2>3. QED
    BY <1>1, <1>2, <2>2, SinceKept DEF GapInv, Active
<1>10. QED
  BY <1>4, <1>5, <1>6, <1>7, <1>8, <1>9 DEF IInv

(* A socket that closes was closing, or active and lost. *)
LEMMA OnCloseStep ==
    ASSUME IInv, NEW k \in Sockets, OnClose(k)
    PROVE  IInv'
<1>1. /\ ready[k] \in {"closing", "connecting", "open"}
      /\ ready' = [ready EXCEPT ![k] = "closed"] /\ online' = FALSE
      /\ reconnectTimer' = (reconnectTimer \/ TriesAgain)
      /\ UNCHANGED <<ws, failed, made, again, manualDisconnect>>
      /\ UNCHANGED <<pendingRecovery, paused, reqs, loaded, clicks, inbox>>
      /\ UNCHANGED <<lastLiveSeq, live, replay, latest, window, excused>>
      /\ UNCHANGED <<link, answered, fetched, busy, persisted, sent, cut>>
  BY DEF OnClose, sockVars, logVars, liveVars, askVars, gwVars, askedVars
<1>2. /\ TypeOK /\ SocketInv /\ AskInv /\ CountInv /\ QueueInv /\ LogInv /\ HoleInv
      /\ ReadInv /\ GapInv
  BY DEF IInv
<1>3. /\ ready' \in [Sockets -> {"none", "connecting", "open", "closing", "closed"}]
      /\ ready'[k] = "closed" /\ \A j \in Sockets : j # k => ready'[j] = ready[j]
  BY <1>1, <1>2 DEF TypeOK
<1>4. TypeOK'
  <2>1. reconnectTimer' \in BOOLEAN /\ online' \in BOOLEAN
    BY <1>1
  <2>2. QED
    BY <1>1, <1>2, <1>3, <2>1 DEF TypeOK
<1>5. \A j \in Sockets : ready'[j] \in {"connecting", "open"} => ready'[j] = ready[j]
  BY <1>3
<1>6. SocketInv'
  <2>1. OneSocket'
    BY <1>1, <1>2, <1>5 DEF SocketInv, OneSocket
  <2>2. NeverStuck' /\ Going'
    BY <1>1, <1>2 DEF NeverStuck, Going, TriesAgain
  <2>3. QED
    BY <1>1, <1>2, <1>3, <2>1, <2>2 DEF SocketInv
<1>7. AskInv'
  BY <1>1, <1>2, <1>3 DEF AskInv
<1>8. CountInv' /\ QueueInv' /\ ReadInv'
  BY <1>1, <1>2, <1>5 DEF CountInv, QueueInv, ReadInv, Active
<1>9. LogInv'
  BY <1>1, <1>2, <1>5 DEF LogInv, Active
<1>10. HoleInv' /\ GapInv'
  BY <1>1, <1>2, <1>5 DEF HoleInv, GapInv, Active, Replayed, Seen
<1>11. QED
  BY <1>4, <1>6, <1>7, <1>8, <1>9, <1>10 DEF IInv

-----------------------------------------------------------------------------
(* What is delivered *)

(* t is the queue of socket k, the page's, without its first row.           *)
Taken(k, type, q, t) ==
    /\ q = inbox[k] /\ q # <<>> /\ t = Tail(q)
    /\ Head(q) = q[1] /\ q[1] \in Rows /\ q[1].type = type /\ 1 \in 1..Len(q)
    /\ PartOf(t, q, 1) /\ Ordered(q) /\ Ordered(t)
    /\ Bounded(q, sent, fetched[k], FirstRow(fetched[k])) /\ Bounded(t, sent, fetched[k], FirstRow(fetched[k]))
    /\ Ahead(q, lastLiveSeq, window) /\ Ahead(t, lastLiveSeq, window)
    /\ Coming(q) = Coming(t) \cup (IF type = "telemetry" THEN {q[1].from} ELSE {})
    /\ Cardinality(Batches(t)) + (IF type = "history" THEN 1 ELSE 0)
         <= Cardinality(Batches(q))
    /\ inbox'[k] = t /\ \A j \in Sockets : j # k => inbox'[j] = inbox[j]
    /\ inbox' \in [Sockets -> Seq(Rows)]
    /\ link[k] # "none" /\ ws = k /\ \A j \in Sockets : Active(j) => j = k

(* The queue that a row is taken from is that of the page's socket.         *)
LEMMA Delivery ==
    ASSUME IInv, NEW k \in Sockets, NEW type \in {"open", "telemetry", "history"},
           Active(k), Delivers(k, type)
    PROVE  \E q \in Seq(Rows), t \in Seq(Rows) : Taken(k, type, q, t)
<1>1. TypeOK /\ SocketInv /\ QueueInv /\ LogInv
  BY DEF IInv
<1>2. PICK q \in Seq(Rows) : q = inbox[k]
  BY <1>1 DEF TypeOK
<1>3. q # <<>> /\ Head(q).type = type /\ inbox' = [inbox EXCEPT ![k] = Tail(q)]
  BY <1>2 DEF Delivers
<1>4. PICK t \in Seq(Rows) : t = Tail(q) /\ PartOf(t, q, 1)
  BY <1>3, TailPart DEF PartOf
<1>5. /\ Head(q) = q[1] /\ 1 \in 1..Len(q) /\ q[1] \in Rows /\ q[1].type = type
      /\ \A i \in 1..Len(q) : i = 1 \/ (i - 1 \in 1..Len(t) /\ t[i - 1] = q[i])
  BY <1>3, <1>4, TailPart
<1>6. Ordered(q) /\ Bounded(q, sent, fetched[k], FirstRow(fetched[k]))
  BY <1>1, <1>2 DEF QueueInv
<1>7. Ahead(q, lastLiveSeq, window)
  BY <1>1, <1>2 DEF LogInv
<1>8. /\ Ordered(t) /\ Bounded(t, sent, fetched[k], FirstRow(fetched[k]))
      /\ Ahead(t, lastLiveSeq, window)
  <2>1. PICK d : d = 1
    OBVIOUS
  <2>2. PartOf(t, q, d)
    BY <1>4, <2>1
  <2>3. QED
    BY <1>6, <1>7, <2>2, PartKeeps
<1>9. Coming(q) = Coming(t) \cup (IF type = "telemetry" THEN {q[1].from} ELSE {})
  <2>1. Coming(t) \subseteq Coming(q)
    BY <1>4, PartRows
  <2>2. type = "telemetry" => q[1].from \in Coming(q)
    BY <1>5 DEF Coming, Lives
  <2>3. ASSUME NEW i \in Lives(q)
        PROVE  q[i].from \in Coming(t) \/ (type = "telemetry" /\ i = 1)
    <3>1. i \in 1..Len(q) /\ q[i].type = "telemetry"
      BY DEF Lives
    <3>2. CASE i = 1
      BY <1>5, <3>1, <3>2
    <3>3. CASE i # 1
      <4>1. i - 1 \in Lives(t) /\ t[i - 1] = q[i]
        BY <1>5, <3>1, <3>3 DEF Lives
      <4>2. QED
        BY <4>1 DEF Coming
    <3>4. QED
      BY <3>2, <3>3
  <2>4. Coming(q) \subseteq Coming(t) \cup (IF type = "telemetry" THEN {q[1].from} ELSE {})
    BY <2>3 DEF Coming
  <2>5. QED
    BY <2>1, <2>2, <2>4
<1>10. Cardinality(Batches(t)) + (IF type = "history" THEN 1 ELSE 0)
         <= Cardinality(Batches(q))
  <2>1. PICK d : d = 1
    OBVIOUS
  <2>2. PartOf(t, q, d) /\ d \in Nat
    BY <1>4, <2>1
  <2>3. \A i \in Batches(t) : i + d \in Batches(q) /\ i + d # 1
    <3>1. Batches(t) \subseteq 1..Len(t) /\ Len(t) \in Nat
      BY RowFields
    <3>2. \A i \in Batches(t) : i + d # 1
      BY <2>1, <3>1
    <3>3. QED
      BY <2>2, <3>2, PartRows
  <2>4. /\ IsFiniteSet(Batches(q)) /\ Cardinality(Batches(q)) \in Nat
        /\ Cardinality(Batches(t)) \in Nat
    BY BatchCount
  <2>5. CASE type = "history"
    <3>1. 1 \in Batches(q)
      BY <1>5, <2>5 DEF Batches
    <3>2. PICK X \in SUBSET Batches(q) : X = Batches(q) \ {1}
      OBVIOUS
    <3>3. Cardinality(X) = Cardinality(Batches(q)) - 1
      BY <2>4, <3>1, <3>2, FS_RemoveElement
    <3>4. Cardinality(Batches(t)) <= Cardinality(X)
      BY <2>2, <2>3, <3>2, PartCount
    <3>5. QED
      BY <2>4, <2>5, <3>3, <3>4
  <2>6. CASE type # "history"
    <3>1. PICK X \in SUBSET Batches(q) : X = Batches(q)
      OBVIOUS
    <3>2. Cardinality(Batches(t)) <= Cardinality(X)
      BY <2>2, <2>3, <3>1, PartCount
    <3>3. QED
      BY <2>4, <2>6, <3>1, <3>2
  <2>7. QED
    BY <2>5, <2>6
<1>11. /\ inbox'[k] = t /\ \A j \in Sockets : j # k => inbox'[j] = inbox[j]
       /\ inbox' \in [Sockets -> Seq(Rows)]
  BY <1>1, <1>3, <1>4 DEF TypeOK
<1>12. link[k] # "none" /\ ws = k /\ \A j \in Sockets : Active(j) => j = k
  BY <1>1, <1>2, <1>3 DEF SocketInv, OneSocket, Active
<1>13. QED
  BY <1>2, <1>3, <1>4, <1>5, <1>6, <1>7, <1>8, <1>9, <1>10, <1>11, <1>12 DEF Taken

(* No row is taken that was not there.                                      *)
LEMMA TakenBatches ==
    ASSUME NEW k \in Sockets, NEW type, NEW q \in Seq(Rows), NEW t \in Seq(Rows),
           Taken(k, type, q, t)
    PROVE  Batches(inbox[k]) = {} => Batches(inbox'[k]) = {}
<1>1. PICK d : d = 1 /\ PartOf(t, q, d)
  BY DEF Taken
<1>2. Batches(q) = {} => Batches(t) = {}
  BY <1>1, PartRows
<1>3. QED
  BY <1>2 DEF Taken

(* What is delivered disturbs neither the other queues nor, as long as what *)
(* was covered stays covered, what was sent since the history was read.     *)
LEMMA DeliveryKeeps ==
    ASSUME IInv, NEW k \in Sockets, NEW t \in Seq(Rows), inbox'[k] = t,
           \A j \in Sockets : j # k => inbox'[j] = inbox[j],
           Ordered(t), Bounded(t, sent, fetched[k], FirstRow(fetched[k])),
           UNCHANGED <<sent, fetched, busy, link>>,
           ready[k] \in {"connecting", "open"},
           \A j \in Sockets : ready'[j] \in {"connecting", "open"} => j = k,
           Covered(inbox[k], Seen, excused) \subseteq Covered(t, Seen', excused')
    PROVE  QueueInv' /\ GapInv'
<1>1. QueueInv /\ GapInv
  BY DEF IInv
<1>2. \A j \in Sockets : /\ Bounded(inbox'[j], sent, fetched[j], FirstRow(fetched[j]))
                         /\ Ordered(inbox'[j])
  BY <1>1 DEF QueueInv
<1>3. QueueInv'
  BY <1>2 DEF QueueInv
<1>4. ASSUME NEW j \in Sockets, Active(j)', link'[j] = "up", busy'[j]
      PROVE  Since(fetched'[j], inbox'[j], Seen', excused', sent')
  <2>1. j = k /\ Active(k)
    BY <1>4 DEF Active
  <2>2. Since(fetched[k], inbox[k], Seen, excused, sent)
    BY <1>1, <1>4, <2>1 DEF GapInv
  <2>3. Since(fetched[k], t, Seen', excused', sent)
    BY <2>2, SinceKept
  <2>4. QED
    BY <2>1, <2>3
<1>5. QED
  BY <1>3, <1>4 DEF GapInv

(* A batch that has come was read.                                          *)
LEMMA BatchRead ==
    ASSUME IInv, NEW k \in Sockets, NEW q, q = inbox[k], NEW i \in Batches(q)
    PROVE  fetched[k] # -1 /\ fetched[k] \in 0..MaxSeq
<1>1. ReadInv /\ TypeOK
  BY DEF IInv
<1>2. fetched[k] # -1 /\ fetched[k] \in -1..MaxSeq
  BY <1>1 DEF ReadInv, TypeOK
<1>3. QED
  BY <1>2, UiBoundsAssumption

(* A socket opens, and asks for the history if it is a reconnection.        *)
LEMMA OnOpenStep ==
    ASSUME IInv, NEW k \in Sockets, OnOpen(k)
    PROVE  IInv'
<1>1. /\ ready[k] = "connecting" /\ Delivers(k, "open")
      /\ ready' = [ready EXCEPT ![k] = "open"]
      /\ online' = TRUE /\ reconnectTimer' = FALSE
      /\ reqs' = IF Asks(k) THEN RequestHistory(k) ELSE reqs
      /\ UNCHANGED <<ws, failed, made, again, manualDisconnect, pendingRecovery, paused>>
      /\ UNCHANGED <<lastLiveSeq, live, replay, latest, window, excused, loaded, clicks>>
      /\ UNCHANGED <<link, answered, fetched, busy, persisted, sent, cut>>
  BY DEF OnOpen, sockVars, logVars, liveVars, gwVars, askedVars
<1>2. /\ TypeOK /\ SocketInv /\ AskInv /\ CountInv /\ QueueInv /\ LogInv /\ HoleInv
      /\ ReadInv /\ GapInv
  BY DEF IInv
<1>3. PICK q \in Seq(Rows), t \in Seq(Rows) : Taken(k, "open", q, t)
  BY <1>1, Delivery DEF Active
<1>4. /\ ready' \in [Sockets -> {"none", "connecting", "open", "closing", "closed"}]
      /\ ready'[k] = "open" /\ \A j \in Sockets : j # k => ready'[j] = ready[j]
  BY <1>1, <1>2 DEF TypeOK
<1>5. \A j \in Sockets : ready'[j] \in {"connecting", "open"} => j = k
  BY <1>3, <1>4 DEF Active, Taken
<1>6. /\ reqs[k] = 0 /\ clicks = 0 /\ (pendingRecovery <=> k \in again)
      /\ reqs \in [Sockets -> 0..(MaxReqs + 1)] /\ LastN \in Nat /\ MaxReqs \in Nat
  BY <1>1, <1>2, UiBoundsAssumption DEF TypeOK, AskInv
<1>7. /\ reqs'[k] = (IF LastN > 0 THEN clicks + (IF k \in again THEN 1 ELSE 0) ELSE 0)
      /\ \A j \in Sockets : j # k => reqs'[j] = reqs[j]
      /\ reqs' \in [Sockets -> 0..(MaxReqs + 1)] /\ reqs[k] <= reqs'[k]
  <2>1. CASE Asks(k)
    <3>1. pendingRecovery /\ reqs' = RequestHistory(k)
      BY <1>1, <2>1 DEF Asks
    <3>2. /\ reqs'[k] = 0 + (IF LastN > 0 THEN 1 ELSE 0)
          /\ \A j \in Sockets : j # k => reqs'[j] = reqs[j]
          /\ reqs' = [reqs EXCEPT ![k] = reqs'[k]]
      BY <1>6, <3>1 DEF RequestHistory
    <3>3. /\ reqs'[k] = (IF LastN > 0 THEN clicks + (IF k \in again THEN 1 ELSE 0) ELSE 0)
          /\ reqs'[k] \in 0..(MaxReqs + 1) /\ reqs[k] <= reqs'[k]
      BY <1>6, <3>1, <3>2
    <3>4. QED
      BY <1>6, <3>2, <3>3
  <2>2. CASE ~Asks(k)
    <3>1. ~pendingRecovery /\ reqs' = reqs
      BY <1>1, <1>3, <2>2 DEF Asks, Taken
    <3>2. QED
      BY <1>6, <3>1
  <2>3. QED
    BY <2>1, <2>2
<1>8. TypeOK'
  <2>1. online' \in BOOLEAN /\ reconnectTimer' \in BOOLEAN
    BY <1>1
  <2>2. QED
    BY <1>1, <1>2, <1>3, <1>4, <1>7, <2>1 DEF TypeOK, Taken
<1>9. SocketInv'
  <2>1. OneSocket'
    BY <1>1, <1>3, <1>5 DEF OneSocket, Taken
  <2>2. NeverStuck' /\ Going'
    BY <1>4 DEF NeverStuck, Going
  <2>3. \A j \in Sockets : j > made => j # k
    BY <1>1, <1>2 DEF SocketInv
  <2>4. \A j \in Sockets : j > made' =>
         /\ ready'[j] = "none" /\ link'[j] = "none"
         /\ reqs'[j] = 0 /\ loaded'[j] = 0 /\ answered'[j] = 0
    BY <1>1, <1>2, <1>4, <1>7, <2>3 DEF SocketInv
  <2>5. \A j \in Sockets : link'[j] = "none" => inbox'[j] = <<>> /\ ready'[j] # "open"
    BY <1>1, <1>2, <1>3, <1>4 DEF SocketInv, Taken
  <2>6. QED
    BY <2>1, <2>2, <2>4, <2>5 DEF SocketInv
<1>10. AskInv'
  BY <1>1, <1>4, <1>5, <1>7 DEF AskInv
<1>11. CountInv'
  <2>1. loaded[k] + Cardinality(Batches(q)) <= answered[k] /\ answered[k] <= reqs[k]
    BY <1>2, <1>3 DEF CountInv, Taken
  <2>2. Cardinality(Batches(q)) \in Nat /\ Cardinality(Batches(t)) \in Nat
    BY BatchCount
  <2>3. /\ loaded[k] \in Int /\ answered[k] \in Int /\ reqs[k] \in Int /\ reqs'[k] \in Int
    BY <1>2, <1>6, <1>7 DEF TypeOK
  <2>4. loaded[k] + Cardinality(Batches(t)) <= answered[k] /\ answered[k] <= reqs'[k]
    BY <1>3, <1>7, <2>1, <2>2, <2>3 DEF Taken
  <2>5. QED
    BY <1>1, <1>2, <1>3, <1>7, <2>4 DEF CountInv, Taken
<1>12. QueueInv' /\ GapInv'
  <2>1. Seen' = Seen /\ Coming(t) = Coming(q)
    BY <1>1, <1>3 DEF Seen, Taken
  <2>2. Covered(inbox[k], Seen, excused) \subseteq Covered(t, Seen', excused')
    BY <1>1, <1>3, <2>1 DEF Covered, Taken
  <2>3. QED
    BY <1>1, <1>3, <1>5, <2>2, DeliveryKeeps DEF Taken
<1>13. LogInv' /\ ReadInv'
  <2>1. \A j \in Sockets : Active(j)' => Ahead(inbox'[j], lastLiveSeq', window')
    BY <1>1, <1>3, <1>5 DEF Active, Taken
  <2>2. LogInv'
    BY <1>1, <1>2, <2>1 DEF LogInv
  <2>3. \A j \in Sockets : Batches(inbox[j]) = {} => Batches(inbox'[j]) = {}
    BY <1>3, TakenBatches DEF Taken
  <2>4. \A j \in Sockets : answered[j] < reqs[j] => answered[j] < reqs'[j]
    <3>1. TypeOK /\ k \in Sockets
      BY <1>2, <1>3 DEF Taken
    <3>2. QED
      BY ONLY <1>7, <3>1, AskedMore
  <2>5. \A j \in Sockets : Active(j)' => Active(j)
    BY <1>1, <1>5 DEF Active
  <2>6. QED
    BY <1>1, <1>2, <2>2, <2>3, <2>4, <2>5 DEF ReadInv
<1>14. HoleInv'
  <2>1. Coming(t) = Coming(q)
    BY <1>3 DEF Taken
  <2>2. Covered(q, Seen, excused) \subseteq Covered(t, Seen, excused)
    BY <2>1 DEF Covered
  <2>3. PICK d : d = 1 /\ PartOf(t, q, d)
    BY <1>3 DEF Taken
  <2>4. \A win, in : /\ \A snt : HoleUp(q, Seen, excused, win, in, snt)
                                      => HoleUp(t, Seen, excused, win, in, snt)
                     /\ HoleGone(q, Seen, excused, win, in)
                          => HoleGone(t, Seen, excused, win, in)
    BY <2>1, <2>2, <2>3, HoleKept
  <2>5. Seen' = Seen /\ Replayed(k)' = Replayed(k)
    BY <1>1 DEF Seen, Replayed
  <2>6. LastN > 0 =>
          /\ link[k] = "up" => HoleUp(q, Seen, excused, window, Replayed(k), sent)
          /\ link[k] = "gone" => HoleGone(q, Seen, excused, window, Replayed(k))
    BY <1>1, <1>2, <1>3 DEF HoleInv, Active, Taken
  <2>7. LastN > 0 =>
          /\ link'[k] = "up" => HoleUp(t, Seen', excused', window', Replayed(k)', sent')
          /\ link'[k] = "gone" => HoleGone(t, Seen', excused', window', Replayed(k)')
    BY <1>1, <2>4, <2>5, <2>6
  <2>8. \A j \in Sockets : Active(j)' => j = k
    BY <1>5 DEF Active
  <2>9. QED
    BY <1>1, <1>3, <2>7, <2>8 DEF HoleInv, Taken
<1>15. QED
  BY <1>8, <1>9, <1>10, <1>11, <1>12, <1>13, <1>14 DEF IInv

(* A live sample is newer than what the page shows, and older than what is  *)
(* still coming.                                                            *)
LEMMA OnTelemetryStep ==
    ASSUME IInv, NEW k \in Sockets, OnTelemetry(k)
    PROVE  IInv'
<1>1. /\ ready[k] = "open" /\ Delivers(k, "telemetry")
      /\ UNCHANGED <<ws, failed, made, again, manualDisconnect, reconnectTimer, online>>
      /\ UNCHANGED <<paused, replay, window, reqs, loaded, clicks, ready>>
      /\ UNCHANGED <<link, answered, fetched, busy, persisted, sent, cut>>
  BY DEF OnTelemetry, sockVars, modeVars, askVars, gwVars, askedVars
<1>2. /\ TypeOK /\ SocketInv /\ AskInv /\ CountInv /\ QueueInv /\ LogInv /\ HoleInv
      /\ ReadInv /\ GapInv
  BY DEF IInv
<1>3. PICK q \in Seq(Rows), t \in Seq(Rows) : Taken(k, "telemetry", q, t)
  BY <1>1, Delivery DEF Active
<1>4. PICK s : s = q[1].from
  OBVIOUS
<1>5. \/ /\ paused /\ excused' = excused \cup {s}
         /\ UNCHANGED <<pendingRecovery, lastLiveSeq, live, latest>>
      \/ /\ ~paused /\ pendingRecovery' = FALSE
         /\ lastLiveSeq' = s /\ live' = live \cup {s} /\ latest' = s
         /\ UNCHANGED excused
  BY <1>3, <1>4 DEF OnTelemetry, liveVars, Taken
<1>6. \A j \in Sockets : ready[j] \in {"connecting", "open"} => j = k
  BY <1>3 DEF Active, Taken
<1>7. /\ MaxSeq \in Nat /\ sent \in 0..MaxSeq /\ persisted \in sent..MaxSeq
      /\ lastLiveSeq \in 0..MaxSeq /\ latest \in 0..MaxSeq
  BY <1>2, UiBoundsAssumption DEF TypeOK
<1>8. /\ s \in 1..sent /\ lastLiveSeq < s /\ q[1].to = s /\ s \in Samples
      /\ s <= persisted /\ s \in 0..MaxSeq /\ s \in Int
  <2>1. 1 \in Lives(q)
    BY <1>3 DEF Taken, Lives
  <2>2. s \in 1..sent /\ lastLiveSeq < s /\ q[1].to = s
    BY <1>3, <1>4, <2>1 DEF Taken, Bounded, Ahead
  <2>3. QED
    BY <1>7, <2>2 DEF Samples
<1>9. TypeOK'
  <2>1. /\ pendingRecovery' \in BOOLEAN /\ lastLiveSeq' \in 0..MaxSeq
        /\ latest' \in 0..MaxSeq
        /\ live' \subseteq Samples /\ excused' \subseteq Samples
    BY <1>2, <1>5, <1>8 DEF TypeOK
  <2>2. QED
    BY <1>1, <1>2, <1>3, <2>1 DEF TypeOK, Taken
<1>10. SocketInv'
  <2>1. OneSocket' /\ NeverStuck' /\ Going'
    BY <1>1, <1>2 DEF SocketInv, OneSocket, NeverStuck, Going
  <2>2. \A j \in Sockets : link'[j] = "none" => inbox'[j] = <<>> /\ ready'[j] # "open"
    BY <1>1, <1>2, <1>3 DEF SocketInv, Taken
  <2>3. QED
    BY <1>1, <1>2, <2>1, <2>2 DEF SocketInv
<1>11. AskInv'
  <2>1. \A j \in Sockets : ready[j] # "connecting"
    BY <1>1, <1>6
  <2>2. QED
    BY <1>1, <1>2, <2>1 DEF AskInv
<1>12. CountInv'
  <2>1. loaded[k] + Cardinality(Batches(q)) <= answered[k]
    BY <1>2, <1>3 DEF CountInv, Taken
  <2>2. /\ Cardinality(Batches(q)) \in Nat /\ Cardinality(Batches(t)) \in Nat
        /\ loaded[k] \in Int /\ answered[k] \in Int
    BY <1>2, BatchCount DEF TypeOK
  <2>3. loaded[k] + Cardinality(Batches(t)) <= answered[k]
    BY <1>3, <2>1, <2>2 DEF Taken
  <2>4. QED
    BY <1>1, <1>2, <1>3, <2>3 DEF CountInv, Taken
<1>13. QueueInv' /\ GapInv'
  <2>1. Coming(q) = Coming(t) \cup {s}
    BY <1>3, <1>4 DEF Taken
  <2>2. Covered(inbox[k], Seen, excused) \subseteq Covered(t, Seen', excused')
    BY <1>1, <1>3, <1>5, <2>1 DEF Covered, Seen, Taken
  <2>3. QED
    BY <1>1, <1>3, <1>6, <2>2, DeliveryKeeps DEF Taken
<1>14. LogInv' /\ ReadInv'
  <2>1. Ahead(t, s, window)
    <3>1. PICK d : d = 1
      OBVIOUS
    <3>2. PartOf(t, q, d) /\ d \in Nat
      BY <1>3, <3>1 DEF Taken
    <3>3. /\ \A i \in Lives(t) : i + d \in Lives(q) /\ t[i] = q[i + d] /\ 1 < i + d
          /\ \A i \in Batches(t) : i + d \in Batches(q) /\ t[i] = q[i + d] /\ 1 < i + d
      <4>1. Lives(t) \subseteq 1..Len(t) /\ Batches(t) \subseteq 1..Len(t) /\ Len(t) \in Nat
        BY RowFields
      <4>2. \A i \in 1..Len(t) : 1 < i + d
        BY <3>1, <4>1
      <4>3. QED
        BY <3>2, <4>1, <4>2, PartRows
    <3>4. 1 \in Lives(q)
      BY <1>3 DEF Taken, Lives
    <3>5. \A i \in Lives(t) : s < t[i].from
      BY <1>3, <1>4, <3>3, <3>4 DEF Taken, Ordered
    <3>6. QED
      BY <1>3, <3>5 DEF Taken, Ahead
  <2>2. Ahead(t, lastLiveSeq', window')
    BY <1>1, <1>3, <1>5, <2>1 DEF Taken
  <2>3. \A j \in Sockets : Active(j)' => Ahead(inbox'[j], lastLiveSeq', window')
    BY <1>1, <1>3, <1>6, <2>2 DEF Active, Taken
  <2>4. live' \subseteq 1..lastLiveSeq' /\ lastLiveSeq' <= sent'
    <3>1. live \subseteq 1..lastLiveSeq /\ lastLiveSeq <= sent
      BY <1>2 DEF LogInv
    <3>2. 1..lastLiveSeq \subseteq 1..s /\ s \in 1..s /\ s <= sent
      BY <1>7, <1>8
    <3>3. QED
      BY <1>1, <1>5, <1>8, <3>1, <3>2
  <2>5. LogInv'
    BY <1>1, <1>2, <2>3, <2>4 DEF LogInv
  <2>6. \A j \in Sockets : Batches(inbox[j]) = {} => Batches(inbox'[j]) = {}
    BY <1>3, TakenBatches DEF Taken
  <2>7. QED
    BY <1>1, <1>2, <2>5, <2>6 DEF ReadInv, Active
<1>15. HoleInv'
  <2>1. Coming(q) = Coming(t) \cup {s}
    BY <1>3, <1>4 DEF Taken
  <2>2. /\ Covered(q, Seen, excused) \subseteq Covered(t, Seen', excused')
        /\ Seen' \cup Coming(t) \subseteq Seen \cup Coming(q)
    BY <1>1, <1>5, <2>1 DEF Covered, Seen
  <2>3. PICK d : d = 1 /\ PartOf(t, q, d)
    BY <1>3 DEF Taken
  <2>4. \A win, in : /\ \A snt : HoleUp(q, Seen, excused, win, in, snt)
                                      => HoleUp(t, Seen', excused', win, in, snt)
                     /\ HoleGone(q, Seen, excused, win, in)
                          => HoleGone(t, Seen', excused', win, in)
    BY <2>2, <2>3, HoleKept
  <2>5. Replayed(k)' = Replayed(k)
    BY <1>1 DEF Replayed
  <2>6. LastN > 0 =>
          /\ link[k] = "up" => HoleUp(q, Seen, excused, window, Replayed(k), sent)
          /\ link[k] = "gone" => HoleGone(q, Seen, excused, window, Replayed(k))
    BY <1>1, <1>2, <1>3 DEF HoleInv, Active, Taken
  <2>7. LastN > 0 =>
          /\ link'[k] = "up" => HoleUp(t, Seen', excused', window', Replayed(k)', sent')
          /\ link'[k] = "gone" => HoleGone(t, Seen', excused', window', Replayed(k)')
    BY <1>1, <2>4, <2>5, <2>6
  <2>8. \A j \in Sockets : Active(j)' => j = k
    BY <1>1, <1>6 DEF Active
  <2>9. link'[k] # "none" /\ inbox'[k] = t
    BY <1>1, <1>3 DEF Taken
  <2>10. QED
    BY <2>7, <2>8, <2>9 DEF HoleInv
<1>16. QED
  BY <1>9, <1>10, <1>11, <1>12, <1>13, <1>14, <1>15 DEF IInv

(* The samples of a batch come behind those of the batches before it.       *)
LEMMA OnHistoryStep ==
    ASSUME IInv, NEW k \in Sockets, OnHistory(k)
    PROVE  IInv'
<1>1. /\ ready[k] = "open" /\ Delivers(k, "history") /\ pendingRecovery' = FALSE
      /\ loaded' = [loaded EXCEPT ![k] = @ + 1]
      /\ UNCHANGED <<ws, failed, made, again, manualDisconnect, reconnectTimer, online>>
      /\ UNCHANGED <<paused, lastLiveSeq, live, excused, reqs, clicks, ready>>
      /\ UNCHANGED <<link, answered, fetched, busy, persisted, sent, cut>>
  BY DEF OnHistory, sockVars, modeVars, liveVars, gwVars, askedVars
<1>2. /\ TypeOK /\ SocketInv /\ AskInv /\ CountInv /\ QueueInv /\ LogInv /\ HoleInv
      /\ ReadInv /\ GapInv
  BY DEF IInv
<1>3. PICK q \in Seq(Rows), t \in Seq(Rows) : Taken(k, "history", q, t)
  BY <1>1, Delivery DEF Active
<1>4. PICK f, l : f = q[1].from /\ l = q[1].to
  OBVIOUS
<1>5. /\ replay' = replay \cup (f..l) /\ window' = f
      /\ latest' = latest \/ latest' = l
  BY <1>3, <1>4 DEF OnHistory, Taken
<1>6. \A j \in Sockets : ready[j] \in {"connecting", "open"} => j = k
  BY <1>3 DEF Active, Taken
<1>7. /\ MaxSeq \in Nat /\ sent \in 0..MaxSeq /\ persisted \in sent..MaxSeq
      /\ latest \in 0..MaxSeq /\ window \in Int /\ persisted \in 0..MaxSeq
  <2>1. /\ MaxSeq \in Nat /\ sent \in 0..MaxSeq /\ persisted \in sent..MaxSeq
        /\ latest \in 0..MaxSeq /\ window \in Int
    BY <1>2, UiBoundsAssumption DEF TypeOK
  <2>2. persisted \in 0..MaxSeq
    BY <2>1
  <2>3. QED
    BY <2>1, <2>2
<1>8. /\ f \in 1..(MaxSeq + 1) /\ l \in 0..MaxSeq
      /\ l <= persisted /\ f <= FirstRow(persisted) /\ f <= FirstRow(fetched[k])
      /\ window <= f /\ 1 \in Batches(q)
  <2>1. 1 \in Batches(q)
    BY <1>3 DEF Taken, Batches
  <2>2. l <= fetched[k] /\ f <= FirstRow(fetched[k]) /\ window <= f
    BY <1>3, <1>4, <2>1 DEF Taken, Bounded, Ahead
  <2>3. f \in 1..(MaxSeq + 1) /\ l \in 0..MaxSeq
    BY <1>4, <2>1, RowFields
  <2>4. fetched[k] \in 0..MaxSeq /\ fetched[k] <= persisted
    BY <1>2, <1>3, <2>1, BatchRead DEF Taken, ReadInv
  <2>5. FirstRow(fetched[k]) <= FirstRow(persisted) /\ FirstRow(fetched[k]) \in Int
        /\ FirstRow(persisted) \in Int
    BY <1>7, <2>4, WindowGrows
  <2>6. QED
    BY <1>7, <2>1, <2>2, <2>3, <2>4, <2>5
<1>9. /\ loaded[k] + 1 + Cardinality(Batches(t)) <= answered[k] /\ answered[k] <= reqs[k]
      /\ loaded[k] + 1 \in 0..(MaxReqs + 1)
  <2>1. loaded[k] + Cardinality(Batches(q)) <= answered[k] /\ answered[k] <= reqs[k]
    BY <1>2, <1>3 DEF CountInv, Taken
  <2>2. /\ Cardinality(Batches(q)) \in Nat /\ Cardinality(Batches(t)) \in Nat
        /\ loaded[k] \in 0..(MaxReqs + 1) /\ answered[k] \in 0..(MaxReqs + 1)
        /\ MaxReqs \in Nat
    BY <1>2, BatchCount, UiBoundsAssumption DEF TypeOK
  <2>3. Cardinality(Batches(t)) + 1 <= Cardinality(Batches(q))
    BY <1>3 DEF Taken
  <2>4. QED
    BY <2>1, <2>2, <2>3
<1>10. /\ loaded' \in [Sockets -> 0..(MaxReqs + 1)]
       /\ loaded'[k] = loaded[k] + 1 /\ \A j \in Sockets : j # k => loaded'[j] = loaded[j]
  BY <1>1, <1>2, <1>9 DEF TypeOK
<1>11. f..l \subseteq Samples /\ f..l \subseteq 1..persisted
  BY <1>7, <1>8 DEF Samples
<1>12. TypeOK'
  <2>1. replay' \subseteq Samples
    BY <1>2, <1>5, <1>11 DEF TypeOK
  <2>2. window' \in 0..(MaxSeq + 1) /\ latest' \in 0..MaxSeq
    BY <1>5, <1>7, <1>8
  <2>3. pendingRecovery' \in BOOLEAN
    BY <1>1
  <2>4. QED
    BY <1>1, <1>2, <1>3, <1>10, <2>1, <2>2, <2>3 DEF TypeOK, Taken
<1>13. SocketInv'
  <2>1. OneSocket' /\ NeverStuck' /\ Going'
    BY <1>1, <1>2 DEF SocketInv, OneSocket, NeverStuck, Going
  <2>2. \A j \in Sockets : link'[j] = "none" => inbox'[j] = <<>> /\ ready'[j] # "open"
    BY <1>1, <1>2, <1>3 DEF SocketInv, Taken
  <2>3. \A j \in Sockets : j > made => j # k
    BY <1>1, <1>2 DEF SocketInv
  <2>4. QED
    BY <1>1, <1>2, <1>10, <2>1, <2>2, <2>3 DEF SocketInv
<1>14. AskInv'
  <2>1. \A j \in Sockets : ready[j] # "connecting"
    BY <1>1, <1>6
  <2>2. QED
    BY <1>1, <1>2, <2>1 DEF AskInv
<1>15. CountInv'
  BY <1>1, <1>2, <1>3, <1>9, <1>10 DEF CountInv, Taken
<1>16. QueueInv' /\ GapInv'
  <2>1. Coming(q) = Coming(t) /\ Seen \subseteq Seen'
    BY <1>1, <1>3, <1>5 DEF Taken, Seen
  <2>2. Covered(inbox[k], Seen, excused) \subseteq Covered(t, Seen', excused')
    BY <1>1, <1>3, <2>1 DEF Covered, Taken
  <2>3. QED
    BY <1>1, <1>3, <1>6, <2>2, DeliveryKeeps DEF Taken
<1>17. LogInv' /\ ReadInv'
  <2>1. \A i \in Batches(t) : l <= t[i].to /\ f <= t[i].from
    <3>1. PICK d : d = 1
      OBVIOUS
    <3>2. PartOf(t, q, d) /\ d \in Nat
      BY <1>3, <3>1 DEF Taken
    <3>3. \A i \in Batches(t) : i + d \in Batches(q) /\ t[i] = q[i + d] /\ 1 < i + d
      <4>1. Batches(t) \subseteq 1..Len(t) /\ Len(t) \in Nat
        BY RowFields
      <4>2. \A i \in 1..Len(t) : 1 < i + d
        BY <3>1, <4>1
      <4>3. QED
        BY <3>2, <4>1, <4>2, PartRows
    <3>4. QED
      BY <1>3, <1>4, <1>8, <3>3 DEF Taken, Ordered
  <2>2. Ahead(t, lastLiveSeq', window')
    BY <1>1, <1>3, <1>5, <2>1 DEF Taken, Ahead
  <2>3. \A j \in Sockets : Active(j)' => Ahead(inbox'[j], lastLiveSeq', window')
    BY <1>1, <1>3, <1>6, <2>2 DEF Active, Taken
  <2>4. Gapless(replay', window')
    <3>1. ASSUME NEW b \in replay', NEW s \in Samples, f <= s, s <= b
          PROVE  s \in replay'
      <4>1. CASE b \in f..l
        BY <1>5, <1>8, <3>1, <4>1 DEF Samples
      <4>2. CASE b \in replay
        <5>1. window <= s
          BY <1>7, <1>8, <3>1 DEF Samples
        <5>2. QED
          BY <1>2, <1>5, <3>1, <4>2, <5>1 DEF LogInv, Gapless
      <4>3. QED
        BY <1>5, <3>1, <4>1, <4>2
    <3>2. QED
      BY <1>5, <3>1 DEF Gapless
  <2>5. /\ window' <= FirstRow(persisted')
        /\ replay' \subseteq 1..persisted'
    <3>1. replay \subseteq 1..persisted
      BY <1>2 DEF LogInv
    <3>2. QED
      BY <1>1, <1>5, <1>8, <1>11, <3>1
  <2>6. LogInv'
    BY <1>1, <1>2, <2>3, <2>4, <2>5 DEF LogInv
  <2>7. \A j \in Sockets : Batches(inbox[j]) = {} => Batches(inbox'[j]) = {}
    BY <1>3, TakenBatches DEF Taken
  <2>8. fetched[k] # -1
    BY <1>3, <1>8, BatchRead DEF Taken
  <2>9. \A j \in Sockets : Active(j)' => window' <= FirstRow(fetched'[j])
    BY <1>1, <1>5, <1>6, <1>8 DEF Active
  <2>10. ASSUME NEW j \in Sockets, fetched[j] = -1
         PROVE  ~busy[j] /\ loaded'[j] = 0 /\ Batches(inbox'[j]) = {}
    <3>1. ~busy[j] /\ loaded[j] = 0 /\ Batches(inbox[j]) = {}
      BY <1>2, <2>10 DEF ReadInv
    <3>2. j # k
      BY <2>8, <2>10
    <3>3. QED
      BY <1>10, <2>7, <2>10, <3>1, <3>2
  <2>11. \A j \in Sockets : /\ fetched[j] <= persisted
                            /\ j > made => fetched[j] = -1
                            /\ busy[j] => answered[j] < reqs[j]
    BY <1>2 DEF ReadInv
  <2>12. ReadInv'
    BY <1>1, <2>9, <2>10, <2>11 DEF ReadInv
  <2>13. QED
    BY <2>6, <2>12
<1>18. HoleInv'
  <2>1. Seen \in SUBSET Int
    BY <1>2 DEF TypeOK, Samples, Seen
  <2>2. /\ HoleUp(q, Seen, excused, window, Replayed(k), sent)
             => HoleUp(t, Seen', excused, f, TRUE, sent)
        /\ HoleGone(q, Seen, excused, window, Replayed(k))
             => HoleGone(t, Seen', excused, f, TRUE)
    <3>1. PICK seen2 : seen2 = Seen \cup (q[1].from..q[1].to)
      OBVIOUS
    <3>2. seen2 = Seen'
      BY <1>1, <1>4, <1>5, <3>1 DEF Seen
    <3>3. sent \in Nat
      BY <1>7
    <3>4. /\ HoleUp(q, Seen, excused, window, Replayed(k), sent)
             => HoleUp(Tail(q), seen2, excused, q[1].from, TRUE, sent)
          /\ HoleGone(q, Seen, excused, window, Replayed(k))
             => HoleGone(Tail(q), seen2, excused, q[1].from, TRUE)
      BY <1>3, <2>1, <3>1, <3>3, HoleClosed DEF Taken
    <3>5. QED
      BY <1>3, <1>4, <3>2, <3>4 DEF Taken
  <2>3. LastN > 0 =>
          /\ link[k] = "up" => HoleUp(q, Seen, excused, window, Replayed(k), sent)
          /\ link[k] = "gone" => HoleGone(q, Seen, excused, window, Replayed(k))
    BY <1>1, <1>2, <1>3 DEF HoleInv, Active, Taken
  <2>4. LastN > 0 =>
          /\ link'[k] = "up" => HoleUp(t, Seen', excused', window', Replayed(k)', sent')
          /\ link'[k] = "gone" => HoleGone(t, Seen', excused', window', Replayed(k)')
    BY <1>1, <1>5, <2>2, <2>3 DEF HoleUp, HoleGone
  <2>5. \A j \in Sockets : Active(j)' => j = k
    BY <1>1, <1>6 DEF Active
  <2>6. link'[k] # "none" /\ inbox'[k] = t
    BY <1>1, <1>3 DEF Taken
  <2>7. QED
    BY <2>4, <2>5, <2>6 DEF HoleInv
<1>19. QED
  BY <1>12, <1>13, <1>14, <1>15, <1>16, <1>17, <1>18 DEF IInv

-----------------------------------------------------------------------------
(* The gateway *)

(* A handshake is answered: the socket's queue was empty. *)
LEMMA AcceptStep ==
    ASSUME IInv, NEW k \in Sockets, Accept(k)
    PROVE  IInv'
<1>1. /\ ready[k] = "connecting" /\ link[k] = "none"
      /\ link' = [link EXCEPT ![k] = "up"] /\ Sends(k, [type |-> "open"])
      /\ UNCHANGED <<ws, failed, made, again, manualDisconnect, reconnectTimer, online>>
      /\ UNCHANGED <<pendingRecovery, paused, reqs, loaded, clicks, ready>>
      /\ UNCHANGED <<lastLiveSeq, live, replay, latest, window, excused>>
      /\ UNCHANGED <<answered, fetched, busy, persisted, sent, cut>>
  BY DEF Accept, pageVars, sockVars, modeVars, logVars, liveVars, askVars, askedVars
<1>2. /\ TypeOK /\ SocketInv /\ AskInv /\ CountInv /\ QueueInv /\ LogInv /\ HoleInv
      /\ ReadInv /\ GapInv
  BY DEF IInv
<1>3. PICK q \in Seq(Rows) : q = inbox[k] /\ q = <<>>
  BY <1>1, <1>2 DEF TypeOK, SocketInv
<1>4. PICK r \in Rows : r = [type |-> "open"] /\ r.type = "open"
  <2>1. [type |-> "open"] \in Rows
    BY DEF Rows
  <2>2. [type |-> "open"].type = "open"
    OBVIOUS
  <2>3. QED
    BY <2>1, <2>2
<1>5. PICK t \in Seq(Rows) : /\ t = Append(q, r)
                             /\ Lives(t) = {} /\ Batches(t) = {} /\ Coming(t) = {}
  BY <1>3, <1>4, AppendOpen, EmptyQueue
<1>6. /\ inbox'[k] = t /\ \A j \in Sockets : j # k => inbox'[j] = inbox[j]
      /\ inbox' \in [Sockets -> Seq(Rows)]
  BY <1>1, <1>2, <1>3, <1>4, <1>5 DEF Sends, TypeOK
<1>7. /\ link'[k] = "up" /\ \A j \in Sockets : j # k => link'[j] = link[j]
      /\ link' \in [Sockets -> {"none", "up", "gone"}]
  BY <1>1, <1>2 DEF TypeOK
<1>8. TypeOK'
  BY <1>1, <1>2, <1>6, <1>7 DEF TypeOK
<1>9. SocketInv'
  <2>1. OneSocket' /\ NeverStuck' /\ Going'
    BY <1>1, <1>2 DEF SocketInv, OneSocket, NeverStuck, Going
  <2>2. \A j \in Sockets : j > made => j # k
    BY <1>1, <1>2 DEF SocketInv
  <2>3. \A j \in Sockets : j > made' =>
         /\ ready'[j] = "none" /\ link'[j] = "none"
         /\ reqs'[j] = 0 /\ loaded'[j] = 0 /\ answered'[j] = 0
    BY <1>1, <1>2, <1>7, <2>2 DEF SocketInv
  <2>4. \A j \in Sockets : link'[j] = "none" => inbox'[j] = <<>> /\ ready'[j] # "open"
    BY <1>1, <1>2, <1>6, <1>7 DEF SocketInv
  <2>5. QED
    BY <2>1, <2>3, <2>4 DEF SocketInv
<1>10. AskInv'
  BY <1>1, <1>2 DEF AskInv
<1>11. CountInv'
  <2>1. Batches(q) = {}
    BY <1>3, EmptyQueue
  <2>2. \A j \in Sockets : Batches(inbox'[j]) = Batches(inbox[j])
    BY <1>3, <1>5, <1>6, <2>1
  <2>3. QED
    BY <1>1, <1>2, <2>2 DEF CountInv
<1>12. QueueInv'
  <2>1. Bounded(t, sent, fetched[k], FirstRow(fetched[k])) /\ Ordered(t)
    BY <1>5 DEF Bounded, Ordered
  <2>2. QED
    BY <1>1, <1>2, <1>6, <2>1 DEF QueueInv
<1>13. LogInv' /\ ReadInv' /\ GapInv'
  <2>1. Ahead(t, lastLiveSeq, window)
    BY <1>5 DEF Ahead
  <2>2. \A j \in Sockets : Active(j)' => Ahead(inbox'[j], lastLiveSeq', window')
    BY <1>1, <1>2, <1>6, <2>1 DEF LogInv, Active
  <2>3. LogInv'
    BY <1>1, <1>2, <2>2 DEF LogInv
  <2>4. reqs[k] = 0
    BY <1>1, <1>2 DEF AskInv
  <2>5. ~busy[k]
    BY <1>2, <2>4 DEF ReadInv, CountInv, TypeOK
  <2>6. \A j \in Sockets : Batches(inbox'[j]) = {} \/ Batches(inbox'[j]) = Batches(inbox[j])
    BY <1>5, <1>6
  <2>7. ReadInv'
    BY <1>1, <1>2, <2>6 DEF ReadInv, Active
  <2>8. \A j \in Sockets : Active(j)' => j = k
    BY <1>1, <1>2 DEF SocketInv, OneSocket, Active
  <2>9. GapInv'
    BY <1>1, <2>5, <2>8 DEF GapInv
  <2>10. QED
    BY <2>3, <2>7, <2>9
<1>14. HoleInv'
  <2>1. ASSUME LastN > 0
        PROVE  HoleUp(t, Seen', excused', window', Replayed(k)', sent')
    <3>1. Replayed(k)' => Seen' = {}
      BY <1>1, <1>2, <2>1 DEF HoleInv, Active, Replayed, Seen
    <3>2. QED
      BY <1>5, <3>1 DEF HoleUp
  <2>2. \A j \in Sockets : Active(j)' => j = k
    BY <1>1, <1>2 DEF SocketInv, OneSocket, Active
  <2>3. QED
    BY <1>6, <1>7, <2>1, <2>2 DEF HoleInv
<1>15. QED
  BY <1>8, <1>9, <1>10, <1>11, <1>12, <1>13, <1>14 DEF IInv

(* A connection ends, and with it what was under way. *)
LEMMA LoseStep ==
    ASSUME IInv, NEW k \in Sockets, Lose(k)
    PROVE  IInv'
<1>1. /\ ready[k] # "none" /\ link[k] # "gone"
      /\ link' = [link EXCEPT ![k] = "gone"]
      /\ UNCHANGED <<ws, failed, made, again, manualDisconnect, reconnectTimer, online>>
      /\ UNCHANGED <<pendingRecovery, paused, reqs, loaded, clicks, ready>>
      /\ UNCHANGED <<lastLiveSeq, live, replay, latest, window, excused>>
      /\ UNCHANGED <<answered, fetched, busy, persisted, sent, cut>>
  BY DEF Lose, pageVars, sockVars, modeVars, logVars, liveVars, askVars, askedVars
<1>2. /\ TypeOK /\ SocketInv /\ AskInv /\ CountInv /\ QueueInv /\ LogInv /\ HoleInv
      /\ ReadInv /\ GapInv
  BY DEF IInv
<1>3. PICK n \in 0..Len(inbox[k]) : inbox' = [inbox EXCEPT ![k] = SubSeq(@, 1, n)]
  BY DEF Lose
<1>4. PICK q \in Seq(Rows) : q = inbox[k]
  BY <1>2 DEF TypeOK
<1>5. PICK t \in Seq(Rows), d \in Nat : t = SubSeq(q, 1, n) /\ d = 0 /\ PartOf(t, q, d)
  BY <1>3, <1>4, PrefixPart DEF PartOf
<1>6. /\ inbox'[k] = t /\ \A j \in Sockets : j # k => inbox'[j] = inbox[j]
      /\ inbox' \in [Sockets -> Seq(Rows)]
  BY <1>2, <1>3, <1>4, <1>5 DEF TypeOK
<1>7. /\ link'[k] = "gone" /\ \A j \in Sockets : j # k => link'[j] = link[j]
      /\ link' \in [Sockets -> {"none", "up", "gone"}]
  BY <1>1, <1>2 DEF TypeOK
<1>8. Ordered(q) /\ Bounded(q, sent, fetched[k], FirstRow(fetched[k]))
  BY <1>2, <1>4 DEF QueueInv
<1>9. TypeOK'
  BY <1>1, <1>2, <1>6, <1>7 DEF TypeOK
<1>10. SocketInv'
  <2>1. OneSocket' /\ NeverStuck' /\ Going'
    BY <1>1, <1>2 DEF SocketInv, OneSocket, NeverStuck, Going
  <2>2. \A j \in Sockets : j > made => j # k
    BY <1>1, <1>2 DEF SocketInv
  <2>3. \A j \in Sockets : j > made' =>
         /\ ready'[j] = "none" /\ link'[j] = "none"
         /\ reqs'[j] = 0 /\ loaded'[j] = 0 /\ answered'[j] = 0
    BY <1>1, <1>2, <1>7, <2>2 DEF SocketInv
  <2>4. \A j \in Sockets : link'[j] = "none" => inbox'[j] = <<>> /\ ready'[j] # "open"
    BY <1>1, <1>2, <1>6, <1>7 DEF SocketInv
  <2>5. QED
    BY <2>1, <2>3, <2>4 DEF SocketInv
<1>11. AskInv'
  BY <1>1, <1>2 DEF AskInv
<1>12. CountInv'
  <2>1. loaded[k] + Cardinality(Batches(q)) <= answered[k]
    BY <1>2, <1>4 DEF CountInv
  <2>2. Cardinality(Batches(t)) <= Cardinality(Batches(q))
    <3>1. PICK X \in SUBSET Batches(q) : X = Batches(q)
      OBVIOUS
    <3>2. \A i \in Batches(t) : i + d \in X
      BY <1>5, <3>1, PartRows
    <3>3. QED
      BY <1>5, <3>1, <3>2, PartCount
  <2>3. /\ Cardinality(Batches(q)) \in Nat /\ Cardinality(Batches(t)) \in Nat
        /\ loaded[k] \in Int /\ answered[k] \in Int
    BY <1>2, BatchCount DEF TypeOK
  <2>4. loaded[k] + Cardinality(Batches(t)) <= answered[k]
    BY <2>1, <2>2, <2>3
  <2>5. QED
    BY <1>1, <1>2, <1>6, <2>4 DEF CountInv
<1>13. QueueInv'
  <2>1. Bounded(t, sent, fetched[k], FirstRow(fetched[k])) /\ Ordered(t)
    BY <1>5, <1>8, PartKeeps
  <2>2. QED
    BY <1>1, <1>2, <1>6, <2>1 DEF QueueInv
<1>14. LogInv' /\ ReadInv' /\ GapInv'
  <2>1. Active(k) => Ahead(t, lastLiveSeq, window)
    BY <1>2, <1>4, <1>5, <1>8, PartKeeps DEF LogInv
  <2>2. \A j \in Sockets : Active(j)' => Ahead(inbox'[j], lastLiveSeq', window')
    BY <1>1, <1>2, <1>6, <2>1 DEF LogInv, Active
  <2>3. LogInv'
    BY <1>1, <1>2, <2>2 DEF LogInv
  <2>4. Batches(q) = {} => Batches(t) = {}
    BY <1>5, PartRows
  <2>5. ReadInv'
    BY <1>1, <1>2, <1>4, <1>6, <2>4 DEF ReadInv, Active
  <2>6. GapInv'
    BY <1>1, <1>2, <1>6, <1>7 DEF GapInv, Active, Seen
  <2>7. QED
    BY <2>3, <2>5, <2>6
<1>15. HoleInv'
  <2>1. ASSUME LastN > 0, Active(k)
        PROVE  HoleGone(t, Seen', excused', window', Replayed(k)')
    <3>1. Seen' = Seen /\ Replayed(k)' = Replayed(k)
      BY <1>1 DEF Seen, Replayed
    <3>2. CASE link[k] = "none"
      <4>1. q = <<>> /\ (Replayed(k) => Seen = {})
        BY <1>2, <1>4, <2>1, <3>2 DEF SocketInv, HoleInv
      <4>2. Batches(q) = {} /\ Coming(q) = {}
        BY <4>1, EmptyQueue
      <4>3. Batches(t) = {} /\ Coming(t) = {}
        BY <1>5, <4>2, PartRows
      <4>4. QED
        BY <3>1, <4>1, <4>3 DEF HoleGone
    <3>3. CASE link[k] = "up"
      <4>1. /\ HoleUp(q, live \cup replay, excused, window, Replayed(k), sent)
            /\ Ahead(q, lastLiveSeq, window)
        BY <1>2, <1>4, <2>1, <3>3 DEF HoleInv, Seen, LogInv
      <4>2. /\ sent \in Nat /\ lastLiveSeq \in 0..sent /\ window \in Int
            /\ live \in SUBSET (1..lastLiveSeq) /\ replay \in SUBSET Samples
            /\ Gapless(replay, window)
        BY <1>2 DEF TypeOK, LogInv
      <4>3. PartOf(t, q, 0)
        BY <1>5
      <4>4. HoleGone(t, live \cup replay, excused, window, Replayed(k))
        BY <1>8, <4>1, <4>2, <4>3, LoseHole
      <4>5. QED
        BY <1>1, <3>1, <4>4 DEF Seen
    <3>4. QED
      BY <1>1, <1>2, <3>2, <3>3 DEF TypeOK
  <2>2. ASSUME LastN > 0, NEW j \in Sockets, j # k, Active(j)
        PROVE  /\ link'[j] = "none" /\ Replayed(j)' => Seen' = {}
               /\ link'[j] = "up" => HoleUp(inbox'[j], Seen', excused', window', Replayed(j)', sent')
               /\ link'[j] = "gone" => HoleGone(inbox'[j], Seen', excused', window', Replayed(j)')
    BY <1>1, <1>2, <1>6, <1>7, <2>2 DEF HoleInv, Seen, Replayed
  <2>3. \A j \in Sockets : Active(j)' => Active(j)
    BY <1>1 DEF Active
  <2>4. QED
    BY <1>6, <1>7, <2>1, <2>2, <2>3 DEF HoleInv
<1>16. QED
  BY <1>9, <1>10, <1>11, <1>12, <1>13, <1>14, <1>15 DEF IInv

(* A history is read: what it goes up to is persisted, and nothing has been *)
(* sent since.                                                              *)
LEMMA ReadHistoryStep ==
    ASSUME IInv, NEW k \in Sockets, ReadHistory(k)
    PROVE  IInv'
<1>1. /\ link[k] = "up" /\ ~busy[k] /\ answered[k] < reqs[k]
      /\ fetched' = [fetched EXCEPT ![k] = persisted] /\ busy' = [busy EXCEPT ![k] = TRUE]
      /\ UNCHANGED <<ws, failed, made, again, manualDisconnect, reconnectTimer, online>>
      /\ UNCHANGED <<pendingRecovery, paused, reqs, loaded, clicks, ready>>
      /\ UNCHANGED <<lastLiveSeq, live, replay, latest, window, excused>>
      /\ UNCHANGED <<inbox, link, answered, persisted, sent, cut>>
  BY DEF ReadHistory, pageVars, sockVars, modeVars, logVars, liveVars, askVars
<1>2. /\ TypeOK /\ SocketInv /\ AskInv /\ CountInv /\ QueueInv /\ LogInv /\ HoleInv
      /\ ReadInv /\ GapInv
  BY DEF IInv
<1>3. /\ MaxSeq \in Nat /\ sent \in Nat /\ persisted \in 0..MaxSeq /\ sent <= persisted
      /\ fetched[k] \in -1..MaxSeq /\ fetched[k] <= persisted /\ persisted \in -1..MaxSeq
  <2>1. /\ MaxSeq \in Nat /\ sent \in 0..MaxSeq /\ persisted \in sent..MaxSeq
        /\ fetched[k] \in -1..MaxSeq
    BY <1>2, UiBoundsAssumption DEF TypeOK
  <2>2. fetched[k] <= persisted
    BY <1>2 DEF ReadInv
  <2>3. QED
    BY <2>1, <2>2
<1>4. /\ fetched' \in [Sockets -> -1..MaxSeq] /\ fetched'[k] = persisted
      /\ busy' \in [Sockets -> BOOLEAN]
      /\ \A j \in Sockets : j # k => fetched'[j] = fetched[j] /\ busy'[j] = busy[j]
  BY <1>1, <1>2, <1>3 DEF TypeOK
<1>5. TypeOK'
  BY <1>1, <1>2, <1>4 DEF TypeOK
<1>6. SocketInv' /\ AskInv'
  BY <1>1, <1>2 DEF SocketInv, OneSocket, NeverStuck, Going, AskInv
<1>7. CountInv' /\ LogInv'
  BY <1>1, <1>2 DEF CountInv, LogInv, Active
<1>8. QueueInv'
  <2>1. PICK q \in Seq(Rows) : q = inbox[k]
    BY <1>2 DEF TypeOK
  <2>2. PICK m \in -1..MaxSeq, n \in -1..MaxSeq : m = fetched[k] /\ n = persisted /\ m <= n
    BY <1>3
  <2>3. PICK f1 \in Int, f2 \in Int : f1 = FirstRow(m) /\ f2 = FirstRow(n) /\ f1 <= f2
    BY <2>2, WindowGrows
  <2>4. Bounded(q, sent, m, f1)
    BY <1>2, <2>1, <2>2, <2>3 DEF QueueInv
  <2>5. sent \in Int /\ sent <= sent /\ m \in Int /\ n \in Int
    BY <1>3
  <2>6. Bounded(q, sent, n, f2)
    BY <2>2, <2>3, <2>4, <2>5, BoundsGrow
  <2>7. QED
    BY <1>1, <1>2, <1>4, <2>1, <2>2, <2>3, <2>6 DEF QueueInv
<1>9. HoleInv'
  BY <1>1, <1>2 DEF HoleInv, Active, Replayed, Seen
<1>10. ReadInv'
  <2>1. k <= made
    BY <1>1, <1>2 DEF SocketInv, TypeOK, Sockets
  <2>2. persisted # -1 /\ persisted <= persisted /\ ~(k > made)
    BY <1>2, <1>3, <2>1 DEF TypeOK, Sockets
  <2>3. window <= FirstRow(persisted)
    BY <1>2 DEF LogInv
  <2>4. QED
    BY <1>1, <1>2, <1>4, <2>2, <2>3 DEF ReadInv, Active
<1>11. GapInv'
  <2>1. Since(persisted, inbox[k], Seen', excused', sent)
    BY <1>3 DEF Since
  <2>2. QED
    BY <1>1, <1>2, <1>4, <2>1 DEF GapInv, Active, Seen
<1>12. QED
  BY <1>5, <1>6, <1>7, <1>8, <1>9, <1>10, <1>11 DEF IInv

(* A history that cannot be read is answered by no batch.                   *)
LEMMA HistoryFailsStep ==
    ASSUME IInv, NEW k \in Sockets, HistoryFails(k)
    PROVE  IInv'
<1>1. /\ link[k] = "up" /\ ~busy[k] /\ answered[k] < reqs[k]
      /\ answered' = [answered EXCEPT ![k] = @ + 1]
      /\ UNCHANGED <<ws, failed, made, again, manualDisconnect, reconnectTimer, online>>
      /\ UNCHANGED <<pendingRecovery, paused, reqs, loaded, clicks, ready>>
      /\ UNCHANGED <<lastLiveSeq, live, replay, latest, window, excused>>
      /\ UNCHANGED <<inbox, link, fetched, busy, persisted, sent, cut>>
  BY DEF HistoryFails, pageVars, sockVars, modeVars, logVars, liveVars, askVars
<1>2. /\ TypeOK /\ SocketInv /\ AskInv /\ CountInv /\ QueueInv /\ LogInv /\ HoleInv
      /\ ReadInv /\ GapInv
  BY DEF IInv
<1>3. /\ answered' \in [Sockets -> 0..(MaxReqs + 1)] /\ answered'[k] = answered[k] + 1
      /\ \A j \in Sockets : j # k => answered'[j] = answered[j]
      /\ answered[k] + 1 <= reqs[k] /\ answered[k] \in Int
  <2>1. /\ answered[k] \in 0..(MaxReqs + 1) /\ reqs[k] \in 0..(MaxReqs + 1) /\ MaxReqs \in Nat
    BY <1>2, UiBoundsAssumption DEF TypeOK
  <2>2. answered[k] + 1 \in 0..(MaxReqs + 1) /\ answered[k] + 1 <= reqs[k]
    BY <1>1, <2>1
  <2>3. QED
    BY <1>1, <1>2, <2>1, <2>2 DEF TypeOK
<1>4. TypeOK'
  BY <1>1, <1>2, <1>3 DEF TypeOK
<1>5. SocketInv'
  <2>1. OneSocket' /\ NeverStuck' /\ Going'
    BY <1>1, <1>2 DEF SocketInv, OneSocket, NeverStuck, Going
  <2>2. \A j \in Sockets : j > made => j # k
    BY <1>1, <1>2 DEF SocketInv
  <2>3. QED
    BY <1>1, <1>2, <1>3, <2>1, <2>2 DEF SocketInv
<1>6. AskInv'
  BY <1>1, <1>2 DEF AskInv
<1>7. CountInv'
  <2>1. loaded[k] + Cardinality(Batches(inbox[k])) <= answered[k]
    BY <1>2 DEF CountInv
  <2>2. Cardinality(Batches(inbox[k])) \in Nat /\ loaded[k] \in Int
    BY <1>2, BatchCount DEF TypeOK
  <2>3. loaded[k] + Cardinality(Batches(inbox[k])) <= answered[k] + 1
    BY <1>3, <2>1, <2>2
  <2>4. QED
    BY <1>1, <1>2, <1>3, <2>3 DEF CountInv
<1>8. QueueInv' /\ LogInv' /\ ReadInv'
  BY <1>1, <1>2, <1>3 DEF QueueInv, LogInv, ReadInv, Active
<1>9. HoleInv' /\ GapInv'
  BY <1>1, <1>2 DEF HoleInv, GapInv, Active, Replayed, Seen
<1>10. QED
  BY <1>4, <1>5, <1>6, <1>7, <1>8, <1>9 DEF IInv

(* A reply carries the last samples of its read; what was sent since is     *)
(* covered.                                                                 *)
LEMMA SendReplyStep ==
    ASSUME IInv, NEW k \in Sockets, SendReply(k)
    PROVE  IInv'
<1>1. /\ link[k] = "up" /\ busy[k] /\ busy' = [busy EXCEPT ![k] = FALSE]
      /\ answered' = [answered EXCEPT ![k] = @ + 1]
      /\ Sends(k, [type |-> "history", from |-> FirstRow(fetched[k]), to |-> fetched[k]])
      /\ UNCHANGED <<ws, failed, made, again, manualDisconnect, reconnectTimer, online>>
      /\ UNCHANGED <<pendingRecovery, paused, reqs, loaded, clicks, ready>>
      /\ UNCHANGED <<lastLiveSeq, live, replay, latest, window, excused>>
      /\ UNCHANGED <<link, fetched, persisted, sent, cut>>
  BY DEF SendReply, pageVars, sockVars, modeVars, logVars, liveVars, askVars
<1>2. /\ TypeOK /\ SocketInv /\ AskInv /\ CountInv /\ QueueInv /\ LogInv /\ HoleInv
      /\ ReadInv /\ GapInv
  BY DEF IInv
<1>3. PICK q \in Seq(Rows) : q = inbox[k]
  BY <1>2 DEF TypeOK
<1>4. PICK n \in Nat : /\ n = fetched[k] /\ n \in 0..MaxSeq /\ MaxSeq \in Nat
                       /\ FirstRow(n) \in 1..(MaxSeq + 1) /\ FirstRow(n) \in 1..(n + 1)
  <2>1. fetched[k] \in -1..MaxSeq /\ MaxSeq \in Nat /\ fetched[k] # -1
    BY <1>1, <1>2, UiBoundsAssumption DEF TypeOK, ReadInv
  <2>2. fetched[k] \in 0..MaxSeq /\ fetched[k] \in Nat
    BY <2>1
  <2>3. QED
    BY <2>1, <2>2, WindowBegins
<1>5. PICK r \in Rows : /\ r = [type |-> "history", from |-> FirstRow(n), to |-> n]
                        /\ r.type = "history" /\ r.from = FirstRow(n) /\ r.to = n
  <2>1. PICK f \in 1..(MaxSeq + 1), l \in 0..MaxSeq : f = FirstRow(n) /\ l = n
    BY <1>4
  <2>2. PICK r : r = [type |-> "history", from |-> f, to |-> l]
    OBVIOUS
  <2>3. r \in Rows
    BY <2>2 DEF Rows
  <2>4. r.type = "history" /\ r.from = f /\ r.to = l
    BY <2>2
  <2>5. QED
    BY <2>1, <2>2, <2>3, <2>4
<1>6. Bounded(q, sent, n, FirstRow(n)) /\ Ordered(q)
  BY <1>2, <1>3, <1>4 DEF QueueInv
<1>7. PICK t : t = Append(q, r)
  OBVIOUS
<1>8. /\ t \in Seq(Rows) /\ Bounded(t, sent, n, FirstRow(n)) /\ Ordered(t)
      /\ \A last : \A win \in Int : win <= FirstRow(n) =>
           (Ahead(q, last, win) => Ahead(t, last, win))
      /\ Cardinality(Batches(t)) = Cardinality(Batches(q)) + 1
      /\ Coming(t) = Coming(q)
  BY <1>4, <1>5, <1>6, <1>7, AppendBatch
<1>9. /\ inbox'[k] = t /\ \A j \in Sockets : j # k => inbox'[j] = inbox[j]
      /\ inbox' \in [Sockets -> Seq(Rows)]
  BY <1>1, <1>2, <1>3, <1>4, <1>5, <1>7, <1>8 DEF Sends, TypeOK
<1>10. /\ answered' \in [Sockets -> 0..(MaxReqs + 1)] /\ answered'[k] = answered[k] + 1
       /\ \A j \in Sockets : j # k => answered'[j] = answered[j]
       /\ answered[k] + 1 <= reqs[k] /\ answered[k] \in Int
       /\ busy' \in [Sockets -> BOOLEAN] /\ ~busy'[k]
       /\ \A j \in Sockets : j # k => busy'[j] = busy[j]
  <2>1. /\ answered[k] \in 0..(MaxReqs + 1) /\ reqs[k] \in 0..(MaxReqs + 1) /\ MaxReqs \in Nat
    BY <1>2, UiBoundsAssumption DEF TypeOK
  <2>2. answered[k] + 1 \in 0..(MaxReqs + 1) /\ answered[k] + 1 <= reqs[k]
    BY <1>1, <1>2, <2>1 DEF ReadInv
  <2>3. QED
    BY <1>1, <1>2, <2>1, <2>2 DEF TypeOK
<1>11. TypeOK'
  BY <1>1, <1>2, <1>9, <1>10 DEF TypeOK
<1>12. SocketInv'
  <2>1. OneSocket' /\ NeverStuck' /\ Going'
    BY <1>1, <1>2 DEF SocketInv, OneSocket, NeverStuck, Going
  <2>2. \A j \in Sockets : j > made => j # k
    BY <1>1, <1>2 DEF SocketInv
  <2>3. \A j \in Sockets : j > made' =>
         /\ ready'[j] = "none" /\ link'[j] = "none"
         /\ reqs'[j] = 0 /\ loaded'[j] = 0 /\ answered'[j] = 0
    BY <1>1, <1>2, <1>10, <2>2 DEF SocketInv
  <2>4. \A j \in Sockets : link'[j] = "none" => inbox'[j] = <<>> /\ ready'[j] # "open"
    BY <1>1, <1>2, <1>9 DEF SocketInv
  <2>5. QED
    BY <2>1, <2>3, <2>4 DEF SocketInv
<1>13. AskInv'
  BY <1>1, <1>2 DEF AskInv
<1>14. CountInv'
  <2>1. loaded[k] + Cardinality(Batches(q)) <= answered[k]
    BY <1>2, <1>3 DEF CountInv
  <2>2. Cardinality(Batches(q)) \in Nat /\ loaded[k] \in Int
    BY <1>2, BatchCount DEF TypeOK
  <2>3. loaded[k] + Cardinality(Batches(t)) <= answered[k] + 1
    BY <1>8, <1>10, <2>1, <2>2
  <2>4. QED
    BY <1>1, <1>2, <1>9, <1>10, <2>3 DEF CountInv
<1>15. QueueInv' /\ ReadInv' /\ GapInv'
  <2>1. QueueInv'
    BY <1>1, <1>2, <1>4, <1>8, <1>9 DEF QueueInv
  <2>2. ReadInv'
    BY <1>1, <1>2, <1>4, <1>9, <1>10 DEF ReadInv, Active
  <2>3. GapInv'
    BY <1>1, <1>2, <1>9, <1>10 DEF GapInv, Active, Seen
  <2>4. QED
    BY <2>1, <2>2, <2>3
<1>16. LogInv'
  <2>1. window \in Int /\ (Active(k) => window <= FirstRow(n))
    BY <1>2, <1>4 DEF TypeOK, ReadInv
  <2>2. Active(k) => Ahead(t, lastLiveSeq, window)
    BY <1>2, <1>3, <1>8, <2>1 DEF LogInv
  <2>3. \A j \in Sockets : Active(j)' => Ahead(inbox'[j], lastLiveSeq', window')
    BY <1>1, <1>2, <1>9, <2>2 DEF LogInv, Active
  <2>4. QED
    BY <1>1, <1>2, <2>3 DEF LogInv
<1>17. HoleInv'
  <2>1. ASSUME LastN > 0, Active(k)
        PROVE  HoleUp(t, Seen', excused', window', Replayed(k)', sent')
    <3>1. Seen' = Seen /\ Replayed(k)' = Replayed(k)
      BY <1>1 DEF Seen, Replayed
    <3>2. HoleUp(q, Seen, excused, window, Replayed(k), sent)
      BY <1>1, <1>2, <1>3, <2>1 DEF HoleInv
    <3>3. Since(r.to, q, Seen, excused, sent)
      BY <1>1, <1>2, <1>3, <1>4, <1>5, <2>1 DEF GapInv
    <3>4. HoleUp(t, Seen, excused, window, Replayed(k), sent)
      BY <1>5, <1>7, <3>2, <3>3, HoleAnswered
    <3>5. QED
      BY <1>1, <3>1, <3>4
  <2>2. ASSUME LastN > 0, NEW j \in Sockets, j # k, Active(j)
        PROVE  /\ link'[j] = "none" /\ Replayed(j)' => Seen' = {}
               /\ link'[j] = "up" => HoleUp(inbox'[j], Seen', excused', window', Replayed(j)', sent')
               /\ link'[j] = "gone" => HoleGone(inbox'[j], Seen', excused', window', Replayed(j)')
    BY <1>1, <1>2, <1>9, <2>2 DEF HoleInv, Seen, Replayed
  <2>3. \A j \in Sockets : Active(j)' => Active(j)
    BY <1>1 DEF Active
  <2>4. link'[k] = "up"
    BY <1>1
  <2>5. QED
    BY <1>9, <2>1, <2>2, <2>3, <2>4 DEF HoleInv
<1>18. QED
  BY <1>11, <1>12, <1>13, <1>14, <1>15, <1>16, <1>17 DEF IInv

(* A sample that is persisted moves the window of the history forward.      *)
LEMMA PersistStep ==
    ASSUME IInv, Persist
    PROVE  IInv'
<1>1. /\ persisted < MaxSeq /\ persisted' = persisted + 1
      /\ UNCHANGED <<ws, failed, made, again, manualDisconnect, reconnectTimer, online>>
      /\ UNCHANGED <<pendingRecovery, paused, reqs, loaded, clicks, ready, inbox>>
      /\ UNCHANGED <<lastLiveSeq, live, replay, latest, window, excused>>
      /\ UNCHANGED <<link, answered, fetched, busy, sent, cut>>
  BY DEF Persist, pageVars, sockVars, modeVars, logVars, liveVars, askVars, askedVars
<1>2. /\ TypeOK /\ SocketInv /\ AskInv /\ CountInv /\ QueueInv /\ LogInv /\ HoleInv
      /\ ReadInv /\ GapInv
  BY DEF IInv
<1>3. /\ MaxSeq \in Nat /\ LastN \in Nat /\ sent \in 0..MaxSeq /\ persisted \in sent..MaxSeq
      /\ persisted \in Int /\ persisted' \in sent..MaxSeq /\ persisted <= persisted'
      /\ latest \in 0..MaxSeq /\ window \in 0..(MaxSeq + 1)
      /\ persisted \in 0..MaxSeq /\ persisted' \in Int
  <2>1. /\ MaxSeq \in Nat /\ LastN \in Nat /\ sent \in 0..MaxSeq /\ persisted \in sent..MaxSeq
        /\ latest \in 0..MaxSeq /\ window \in 0..(MaxSeq + 1)
    BY <1>2, UiBoundsAssumption DEF TypeOK
  <2>2. QED
    BY <1>1, <2>1
<1>4. FirstRow(persisted) <= FirstRow(persisted') /\ FirstRow(persisted) \in Int
      /\ FirstRow(persisted') \in Int
  <2>1. persisted \in -1..MaxSeq /\ persisted' \in -1..MaxSeq
    BY <1>3
  <2>2. QED
    BY <1>3, <2>1, WindowGrows
<1>5. TypeOK'
  BY <1>1, <1>2, <1>3 DEF TypeOK
<1>6. SocketInv' /\ AskInv'
  BY <1>1, <1>2 DEF SocketInv, OneSocket, NeverStuck, Going, AskInv
<1>7. CountInv'
  BY <1>1, <1>2 DEF CountInv
<1>8. QueueInv' /\ ReadInv'
  <2>1. \A k \in Sockets : fetched[k] <= persisted'
    BY <1>2, <1>3 DEF TypeOK, ReadInv
  <2>2. QED
    BY <1>1, <1>2, <2>1 DEF QueueInv, ReadInv, Active
<1>9. LogInv'
  <2>1. window <= FirstRow(persisted) /\ replay \subseteq 1..persisted
    BY <1>2 DEF LogInv
  <2>2. window <= FirstRow(persisted')
    BY <1>3, <1>4, <2>1
  <2>3. 1..persisted \subseteq 1..persisted'
    BY <1>3
  <2>4. QED
    BY <1>1, <1>2, <2>1, <2>2, <2>3 DEF LogInv, Active
<1>10. HoleInv' /\ GapInv'
  BY <1>1, <1>2 DEF HoleInv, GapInv, Active, Replayed, Seen
<1>11. QED
  BY <1>5, <1>6, <1>7, <1>8, <1>9, <1>10 DEF IInv

(* The cut begins and ends. *)
LEMMA TickStep ==
    ASSUME IInv, Tick
    PROVE  IInv'
<1>1. /\ cut' \in {"on", "after"}
      /\ UNCHANGED <<ws, failed, made, again, manualDisconnect, reconnectTimer, online>>
      /\ UNCHANGED <<pendingRecovery, paused, reqs, loaded, clicks, ready, inbox>>
      /\ UNCHANGED <<lastLiveSeq, live, replay, latest, window, excused>>
      /\ UNCHANGED <<link, answered, fetched, busy, persisted, sent>>
  BY DEF Tick, pageVars, sockVars, modeVars, logVars, liveVars, askVars, askedVars
<1>2. /\ TypeOK /\ SocketInv /\ AskInv /\ CountInv /\ QueueInv /\ LogInv /\ HoleInv
      /\ ReadInv /\ GapInv
  BY DEF IInv
<1>3. TypeOK'
  BY <1>1, <1>2 DEF TypeOK
<1>4. SocketInv' /\ AskInv'
  BY <1>1, <1>2 DEF SocketInv, OneSocket, NeverStuck, Going, AskInv
<1>5. CountInv' /\ QueueInv' /\ LogInv' /\ ReadInv'
  BY <1>1, <1>2 DEF CountInv, QueueInv, LogInv, ReadInv, Active
<1>6. HoleInv' /\ GapInv'
  BY <1>1, <1>2 DEF HoleInv, GapInv, Active, Replayed, Seen
<1>7. QED
  BY <1>3, <1>4, <1>5, <1>6 DEF IInv

(* A step that changes nothing. *)
LEMMA StutterStep ==
    ASSUME IInv, UNCHANGED vars
    PROVE  IInv'
<1>1. /\ UNCHANGED <<ws, failed, made, again, manualDisconnect, reconnectTimer, online>>
      /\ UNCHANGED <<pendingRecovery, paused, reqs, loaded, clicks, ready, inbox>>
      /\ UNCHANGED <<lastLiveSeq, live, replay, latest, window, excused>>
      /\ UNCHANGED <<link, answered, fetched, busy, persisted, sent, cut>>
  BY DEF vars, pageVars, sockVars, modeVars, logVars, liveVars, askVars, gwVars, askedVars
<1>2. /\ TypeOK /\ SocketInv /\ AskInv /\ CountInv /\ QueueInv /\ LogInv /\ HoleInv
      /\ ReadInv /\ GapInv
  BY DEF IInv
<1>3. TypeOK'
  BY <1>1, <1>2 DEF TypeOK
<1>4. SocketInv' /\ AskInv'
  BY <1>1, <1>2 DEF SocketInv, OneSocket, NeverStuck, Going, AskInv
<1>5. CountInv' /\ QueueInv' /\ LogInv' /\ ReadInv'
  BY <1>1, <1>2 DEF CountInv, QueueInv, LogInv, ReadInv, Active
<1>6. HoleInv' /\ GapInv'
  BY <1>1, <1>2 DEF HoleInv, GapInv, Active, Replayed, Seen
<1>7. QED
  BY <1>3, <1>4, <1>5, <1>6 DEF IInv

(* A broadcast reaches every connection whose gateway's end is up.          *)
LEMMA BroadcastStep ==
    ASSUME IInv, Broadcast
    PROVE  IInv'
<1>1. /\ sent < persisted /\ sent' = sent + 1
      /\ UNCHANGED <<ws, failed, made, again, manualDisconnect, reconnectTimer, online>>
      /\ UNCHANGED <<pendingRecovery, paused, reqs, loaded, clicks, ready>>
      /\ UNCHANGED <<lastLiveSeq, live, replay, latest, window, excused>>
      /\ UNCHANGED <<link, answered, fetched, busy, persisted, cut>>
  BY DEF Broadcast, ReadyToSend, pageVars, sockVars, modeVars, logVars, liveVars, askVars, askedVars
<1>2. /\ TypeOK /\ SocketInv /\ AskInv /\ CountInv /\ QueueInv /\ LogInv /\ HoleInv
      /\ ReadInv /\ GapInv
  BY DEF IInv
<1>3. /\ MaxSeq \in Nat /\ sent \in 0..MaxSeq /\ persisted \in sent..MaxSeq
      /\ sent \in Nat /\ sent + 1 \in 0..MaxSeq /\ persisted \in (sent + 1)..MaxSeq
      /\ sent + 1 \in 1..(MaxSeq + 1) /\ lastLiveSeq \in 0..MaxSeq
      /\ persisted \in 0..MaxSeq /\ persisted \in Int
  <2>1. /\ MaxSeq \in Nat /\ sent \in 0..MaxSeq /\ persisted \in sent..MaxSeq
        /\ lastLiveSeq \in 0..MaxSeq
    BY <1>2, UiBoundsAssumption DEF TypeOK
  <2>2. QED
    BY <1>1, <2>1
<1>4. PICK r \in Rows : /\ r = [type |-> "telemetry", from |-> sent', to |-> sent']
                        /\ r.type = "telemetry" /\ r.from = sent + 1 /\ r.to = r.from
  <2>1. PICK f \in 1..(MaxSeq + 1), l \in 0..MaxSeq : f = sent' /\ l = sent' /\ f = sent + 1
    BY <1>1, <1>3
  <2>2. PICK r : r = [type |-> "telemetry", from |-> f, to |-> l]
    OBVIOUS
  <2>3. r \in Rows
    BY <2>2 DEF Rows
  <2>4. r.type = "telemetry" /\ r.from = f /\ r.to = l
    BY <2>2
  <2>5. QED
    BY <2>1, <2>2, <2>3, <2>4
<1>5. inbox' = [k \in Sockets |-> IF link[k] = "up" THEN Append(inbox[k], r) ELSE inbox[k]]
  BY <1>4 DEF Broadcast
<1>6. \A k \in Sockets : fetched[k] \in -1..MaxSeq /\ FirstRow(fetched[k]) \in Int
  BY <1>2, <1>3, WindowGrows DEF TypeOK
<1>7. ASSUME NEW k \in Sockets
      PROVE  /\ inbox'[k] \in Seq(Rows) /\ Batches(inbox'[k]) = Batches(inbox[k])
             /\ Bounded(inbox'[k], sent + 1, fetched[k], FirstRow(fetched[k]))
             /\ Ordered(inbox'[k])
             /\ \A last \in 0..sent : \A win :
                  Ahead(inbox[k], last, win) => Ahead(inbox'[k], last, win)
  <2>1. PICK q \in Seq(Rows) : q = inbox[k]
    BY <1>2 DEF TypeOK
  <2>2. Bounded(q, sent, fetched[k], FirstRow(fetched[k])) /\ Ordered(q)
    BY <1>2, <2>1 DEF QueueInv
  <2>3. CASE link[k] = "up"
    <3>1. inbox'[k] = Append(q, r)
      BY <1>5, <2>1, <2>3
    <3>2. /\ Append(q, r) \in Seq(Rows)
          /\ Bounded(Append(q, r), sent + 1, fetched[k], FirstRow(fetched[k]))
          /\ Ordered(Append(q, r))
          /\ \A last \in 0..sent : \A win :
               Ahead(q, last, win) => Ahead(Append(q, r), last, win)
          /\ Batches(Append(q, r)) = Batches(q)
      BY <1>3, <1>4, <2>2, AppendLive
    <3>3. QED
      BY <2>1, <3>1, <3>2
  <2>4. CASE link[k] # "up"
    <3>1. inbox'[k] = q
      BY <1>5, <2>1, <2>4
    <3>2. PICK p \in Int, f \in Int, s \in Int : p = fetched[k] /\ f = FirstRow(fetched[k]) /\ s = sent + 1
      BY <1>3, <1>6
    <3>3. sent \in Int /\ sent <= s /\ p <= p /\ f <= f
      BY <1>3, <3>2
    <3>4. Bounded(q, s, p, f)
      BY <2>2, <3>2, <3>3, BoundsGrow
    <3>5. QED
      BY <2>1, <2>2, <3>1, <3>2, <3>4
  <2>5. QED
    BY <2>3, <2>4
<1>8. TypeOK'
  <2>1. inbox' \in [Sockets -> Seq(Rows)]
    <3>1. \A k \in Sockets : inbox'[k] \in Seq(Rows)
      BY <1>7
    <3>2. DOMAIN inbox' = Sockets /\ inbox' = [k \in Sockets |-> inbox'[k]]
      BY <1>5
    <3>3. QED
      BY <3>1, <3>2
  <2>2. sent' \in 0..MaxSeq /\ persisted' \in sent'..MaxSeq
    BY <1>1, <1>3
  <2>3. QED
    BY <1>1, <1>2, <2>1, <2>2 DEF TypeOK
<1>9. SocketInv'
  <2>1. OneSocket' /\ NeverStuck' /\ Going'
    BY <1>1, <1>2 DEF SocketInv, OneSocket, NeverStuck, Going
  <2>2. \A k \in Sockets : link'[k] = "none" => inbox'[k] = <<>> /\ ready'[k] # "open"
    BY <1>1, <1>2, <1>5 DEF SocketInv
  <2>3. QED
    BY <1>1, <1>2, <2>1, <2>2 DEF SocketInv
<1>10. AskInv'
  BY <1>1, <1>2 DEF AskInv
<1>11. CountInv'
  BY <1>1, <1>2, <1>7 DEF CountInv
<1>12. QueueInv'
  BY <1>1, <1>7 DEF QueueInv
<1>13. LogInv'
  <2>1. lastLiveSeq \in 0..sent /\ lastLiveSeq <= sent + 1
    BY <1>2, <1>3 DEF LogInv
  <2>2. \A k \in Sockets : Active(k)' => Ahead(inbox'[k], lastLiveSeq', window')
    BY <1>1, <1>2, <1>7, <2>1 DEF LogInv, Active
  <2>3. QED
    BY <1>1, <1>2, <2>1, <2>2 DEF LogInv
<1>14. HoleInv'
  <2>1. ASSUME LastN > 0, NEW k \in Sockets, Active(k)'
        PROVE  /\ link'[k] = "none" /\ Replayed(k)' => Seen' = {}
               /\ link'[k] = "up" => HoleUp(inbox'[k], Seen', excused', window', Replayed(k)', sent')
               /\ link'[k] = "gone" => HoleGone(inbox'[k], Seen', excused', window', Replayed(k)')
    <3>1. Active(k) /\ Seen' = Seen /\ Replayed(k)' = Replayed(k)
      BY <1>1, <2>1 DEF Active, Seen, Replayed
    <3>2. PICK q \in Seq(Rows) : q = inbox[k]
      BY <1>2 DEF TypeOK
    <3>3. CASE link[k] = "up"
      <4>1. HoleUp(q, Seen, excused, window, Replayed(k), sent)
        BY <1>2, <2>1, <3>1, <3>2, <3>3 DEF HoleInv
      <4>2. HoleUp(Append(q, r), Seen, excused, window, Replayed(k), sent + 1)
        BY <1>3, <1>4, <4>1, HoleSent
      <4>3. inbox'[k] = Append(q, r)
        BY <1>5, <3>2, <3>3
      <4>4. QED
        BY <1>1, <3>1, <3>3, <4>2, <4>3
    <3>4. CASE link[k] # "up"
      <4>1. inbox'[k] = inbox[k]
        BY <1>5, <3>4
      <4>2. QED
        BY <1>1, <1>2, <2>1, <3>1, <3>4, <4>1 DEF HoleInv
    <3>5. QED
      BY <3>3, <3>4
  <2>2. QED
    BY <2>1 DEF HoleInv
<1>15. ReadInv'
  BY <1>1, <1>2, <1>7 DEF ReadInv, Active
<1>16. GapInv'
  <2>1. ASSUME NEW k \in Sockets, Active(k)', link'[k] = "up", busy'[k]
        PROVE  Since(fetched'[k], inbox'[k], Seen', excused', sent')
    <3>1. /\ Active(k) /\ Seen' = Seen /\ excused' = excused /\ fetched' = fetched
          /\ sent' = sent + 1 /\ link[k] = "up" /\ busy[k]
      BY <1>1, <2>1 DEF Active, Seen
    <3>2. PICK q \in Seq(Rows) : q = inbox[k]
      BY <1>2 DEF TypeOK
    <3>3. Since(fetched[k], q, Seen, excused, sent)
      BY <1>2, <3>1, <3>2 DEF GapInv
    <3>4. PICK t \in Seq(Rows), n \in Nat : Added(t, n, q, r)
      BY AppendRow
    <3>5. inbox'[k] = t /\ Coming(t) = Coming(q) \cup {sent + 1}
      BY <1>4, <1>5, <3>1, <3>2, <3>4 DEF Added
    <3>6. \A s \in 1..(sent + 1) : s \in 1..sent \/ s = sent + 1
      BY <1>3
    <3>7. QED
      BY <3>1, <3>3, <3>5, <3>6 DEF Since, Covered
  <2>2. QED
    BY <2>1 DEF GapInv
<1>17. QED
  BY <1>8, <1>9, <1>10, <1>11, <1>12, <1>13, <1>14, <1>15, <1>16 DEF IInv

(* A sample that a cut holds back closes the connections, or is excused.    *)
LEMMA BroadcastCutStep ==
    ASSUME IInv, BroadcastCut
    PROVE  IInv'
<1>1. /\ sent < persisted /\ sent' = sent + 1 /\ cut \in {"on", "fired"} /\ cut' = "fired"
      /\ UNCHANGED <<ws, failed, made, again, manualDisconnect, reconnectTimer, online>>
      /\ UNCHANGED <<pendingRecovery, paused, reqs, loaded, clicks, ready, inbox>>
      /\ UNCHANGED <<lastLiveSeq, live, replay, latest, window>>
      /\ UNCHANGED <<answered, fetched, busy, persisted>>
  BY DEF BroadcastCut, ReadyToSend, pageVars, sockVars, modeVars, liveVars, askVars, askedVars
<1>2. \/ /\ cut = "on" /\ UNCHANGED excused
         /\ link' = [k \in Sockets |-> IF link[k] = "up" THEN "gone" ELSE link[k]]
      \/ /\ cut = "fired" /\ UNCHANGED link
         /\ excused' = IF \E k \in Sockets : Listening(k)
                         THEN excused \cup {sent'} ELSE excused
  BY DEF BroadcastCut
<1>3. /\ TypeOK /\ SocketInv /\ AskInv /\ CountInv /\ QueueInv /\ LogInv /\ HoleInv
      /\ ReadInv /\ GapInv
  BY DEF IInv
<1>4. /\ MaxSeq \in Nat /\ sent \in 0..MaxSeq /\ persisted \in sent..MaxSeq
      /\ sent \in Nat /\ sent + 1 \in 0..MaxSeq /\ persisted \in (sent + 1)..MaxSeq
      /\ sent + 1 \in Samples /\ persisted \in 0..MaxSeq /\ persisted \in Int
      /\ lastLiveSeq \in 0..MaxSeq
  <2>1. /\ MaxSeq \in Nat /\ sent \in 0..MaxSeq /\ persisted \in sent..MaxSeq
        /\ lastLiveSeq \in 0..MaxSeq
    BY <1>3, UiBoundsAssumption DEF TypeOK
  <2>2. QED
    BY <1>1, <2>1 DEF Samples
<1>5. \A k \in Sockets : fetched[k] \in -1..MaxSeq /\ FirstRow(fetched[k]) \in Int
  BY <1>3, <1>4, WindowGrows DEF TypeOK
<1>6. /\ link' \in [Sockets -> {"none", "up", "gone"}] /\ excused' \subseteq Samples
      /\ excused \subseteq excused'
      /\ \A k \in Sockets : link'[k] = link[k] \/ (link[k] = "up" /\ link'[k] = "gone")
  BY <1>1, <1>2, <1>3, <1>4 DEF TypeOK
<1>7. TypeOK'
  <2>1. sent' \in 0..MaxSeq /\ persisted' \in sent'..MaxSeq
    BY <1>1, <1>4
  <2>2. QED
    BY <1>1, <1>3, <1>6, <2>1 DEF TypeOK
<1>8. SocketInv'
  <2>1. OneSocket' /\ NeverStuck' /\ Going'
    BY <1>1, <1>3 DEF SocketInv, OneSocket, NeverStuck, Going
  <2>2. \A k \in Sockets : k > made' =>
         /\ ready'[k] = "none" /\ link'[k] = "none"
         /\ reqs'[k] = 0 /\ loaded'[k] = 0 /\ answered'[k] = 0
    BY <1>1, <1>3, <1>6 DEF SocketInv
  <2>3. \A k \in Sockets : link'[k] = "none" => inbox'[k] = <<>> /\ ready'[k] # "open"
    BY <1>1, <1>3, <1>6 DEF SocketInv
  <2>4. QED
    BY <2>1, <2>2, <2>3 DEF SocketInv
<1>9. AskInv' /\ CountInv'
  BY <1>1, <1>3 DEF AskInv, CountInv
<1>10. QueueInv'
  <2>1. ASSUME NEW k \in Sockets
        PROVE  Bounded(inbox[k], sent + 1, fetched[k], FirstRow(fetched[k]))
    <3>1. PICK q \in Seq(Rows) : q = inbox[k]
      BY <1>3 DEF TypeOK
    <3>2. Bounded(q, sent, fetched[k], FirstRow(fetched[k]))
      BY <1>3, <3>1 DEF QueueInv
    <3>3. PICK p \in Int, f \in Int, s \in Int : p = fetched[k] /\ f = FirstRow(fetched[k]) /\ s = sent + 1
      BY <1>4, <1>5
    <3>4. sent \in Int /\ sent <= s /\ p <= p /\ f <= f
      BY <1>4, <3>3
    <3>5. Bounded(q, s, p, f)
      BY <3>2, <3>3, <3>4, BoundsGrow
    <3>6. QED
      BY <3>1, <3>3, <3>5
  <2>2. QED
    BY <1>1, <1>3, <2>1 DEF QueueInv
<1>11. LogInv'
  <2>1. lastLiveSeq <= sent'
    BY <1>1, <1>3, <1>4 DEF LogInv
  <2>2. QED
    BY <1>1, <1>3, <2>1 DEF LogInv, Active
<1>12. HoleInv'
  <2>1. ASSUME LastN > 0, NEW k \in Sockets, Active(k)'
        PROVE  /\ link'[k] = "none" /\ Replayed(k)' => Seen' = {}
               /\ link'[k] = "up" => HoleUp(inbox'[k], Seen', excused', window', Replayed(k)', sent')
               /\ link'[k] = "gone" => HoleGone(inbox'[k], Seen', excused', window', Replayed(k)')
    <3>1. Active(k) /\ Seen' = Seen /\ Replayed(k)' = Replayed(k)
      BY <1>1, <2>1 DEF Active, Seen, Replayed
    <3>2. PICK q \in Seq(Rows) : q = inbox[k]
      BY <1>3 DEF TypeOK
    <3>3. PICK d \in Nat : d = 0 /\ PartOf(q, q, d)
      BY SamePart
    <3>4. inbox'[k] = q /\ window' = window /\ sent' = sent + 1
      BY <1>1, <3>2
    <3>5. CASE link[k] = "none"
      BY <1>3, <1>6, <2>1, <3>1, <3>5 DEF HoleInv
    <3>6. CASE link[k] = "gone"
      <4>1. HoleGone(q, Seen, excused, window, Replayed(k))
        BY <1>3, <2>1, <3>1, <3>2, <3>6 DEF HoleInv
      <4>2. /\ Covered(q, Seen, excused) \subseteq Covered(q, Seen, excused')
            /\ Seen \cup Coming(q) \subseteq Seen \cup Coming(q)
        BY <1>6 DEF Covered
      <4>3. HoleGone(q, Seen, excused', window, Replayed(k))
        BY <3>3, <4>1, <4>2, HoleKept
      <4>4. link'[k] = "gone"
        BY <1>6, <3>6
      <4>5. QED
        BY <3>1, <3>4, <4>3, <4>4
    <3>7. CASE link[k] = "up"
      <4>1. HoleUp(q, Seen, excused, window, Replayed(k), sent)
        BY <1>3, <2>1, <3>1, <3>2, <3>7 DEF HoleInv
      <4>2. CASE cut = "on"
        <5>1. link'[k] = "gone" /\ excused' = excused
          BY <1>2, <3>7, <4>2
        <5>2. /\ HoleUp(q, live \cup replay, excused, window, Replayed(k), sent)
              /\ Ahead(q, lastLiveSeq, window)
          BY <1>3, <3>1, <3>2, <4>1 DEF Seen, LogInv
        <5>3. /\ sent \in Nat /\ lastLiveSeq \in 0..sent /\ window \in Int
              /\ live \in SUBSET (1..lastLiveSeq) /\ replay \in SUBSET Samples
              /\ Gapless(replay, window)
          BY <1>3 DEF TypeOK, LogInv
        <5>4. Ordered(q) /\ Bounded(q, sent, fetched[k], FirstRow(fetched[k])) /\ PartOf(q, q, 0)
          BY <1>3, <3>2, <3>3 DEF QueueInv
        <5>5. HoleGone(q, live \cup replay, excused, window, Replayed(k))
          BY <5>2, <5>3, <5>4, LoseHole
        <5>6. QED
          BY <3>1, <3>4, <5>1, <5>5 DEF Seen
      <4>3. CASE cut = "fired" /\ (\E j \in Sockets : Listening(j))
        <5>1. link'[k] = "up" /\ excused' = excused \cup {sent + 1}
          BY <1>1, <1>2, <3>7, <4>3
        <5>2. HoleUp(q, Seen, excused \cup {sent + 1}, window, Replayed(k), sent + 1)
          BY <1>4, <4>1, HoleExcused
        <5>3. QED
          BY <3>1, <3>4, <5>1, <5>2
      <4>4. CASE cut = "fired" /\ ~(\E j \in Sockets : Listening(j))
        <5>1. k \in again /\ ~(fetched[k] >= 0) /\ link'[k] = "up"
          BY <1>2, <3>7, <4>4 DEF Listening
        <5>2. fetched[k] = -1
          BY <1>5, <5>1
        <5>3. loaded[k] = 0 /\ Batches(q) = {}
          BY <1>3, <3>2, <5>2 DEF ReadInv
        <5>5. ~Replayed(k)
          BY <5>1, <5>3 DEF Replayed
        <5>6. HoleUp(q, Seen', excused', window, Replayed(k), sent')
          BY <5>3, <5>5 DEF HoleUp
        <5>7. QED
          BY <3>1, <3>4, <5>1, <5>6
      <4>5. QED
        BY <1>1, <4>2, <4>3, <4>4
    <3>8. QED
      BY <1>3, <3>5, <3>6, <3>7 DEF TypeOK
  <2>2. QED
    BY <2>1 DEF HoleInv
<1>13. ReadInv'
  BY <1>1, <1>3 DEF ReadInv, Active
<1>14. GapInv'
  <2>1. ASSUME NEW k \in Sockets, Active(k)', link'[k] = "up", busy'[k]
        PROVE  Since(fetched'[k], inbox'[k], Seen', excused', sent')
    <3>1. /\ Active(k) /\ Seen' = Seen /\ inbox' = inbox /\ fetched' = fetched
          /\ sent' = sent + 1 /\ link[k] = "up" /\ busy[k]
      BY <1>1, <1>6, <2>1 DEF Active, Seen
    <3>2. Since(fetched[k], inbox[k], Seen, excused, sent)
      BY <1>3, <3>1 DEF GapInv
    <3>3. fetched[k] >= 0
      BY <1>3, <1>5, <3>1 DEF ReadInv
    <3>4. Listening(k)
      BY <3>1, <3>3 DEF Listening
    <3>5. excused' = excused \cup {sent + 1}
      BY <1>1, <1>2, <2>1, <3>1, <3>4
    <3>6. \A s \in 1..(sent + 1) : s \in 1..sent \/ s = sent + 1
      BY <1>4
    <3>7. QED
      BY <3>1, <3>2, <3>5, <3>6 DEF Since, Covered
  <2>2. QED
    BY <2>1 DEF GapInv
<1>15. QED
  BY <1>7, <1>8, <1>9, <1>10, <1>11, <1>12, <1>13, <1>14 DEF IInv

-----------------------------------------------------------------------------
(* Theorems *)

(* Every step keeps the inductive invariant. *)
LEMMA StepKeeps ==
    ASSUME IInv, [Next]_vars
    PROVE  IInv'
<1>1. CASE ClickConnect
  BY <1>1, ClickConnectStep
<1>2. CASE ClickDisconnect
  BY <1>2, ClickDisconnectStep
<1>3. CASE TimerFires
  BY <1>3, TimerFiresStep
<1>4. CASE ClickHistory
  BY <1>4, ClickHistoryStep
<1>5. CASE ClickPause
  BY <1>5, ClickPauseStep
<1>6. CASE ClearAll
  BY <1>6, ClearAllStep
<1>7. ASSUME NEW k \in Sockets, OnOpen(k) \/ OnClose(k) \/ OnTelemetry(k) \/ OnHistory(k)
      PROVE  IInv'
  BY <1>7, OnOpenStep, OnCloseStep, OnTelemetryStep, OnHistoryStep
<1>8. ASSUME NEW k \in Sockets, \/ Accept(k) \/ Lose(k) \/ ReadHistory(k)
                                \/ SendReply(k) \/ HistoryFails(k)
      PROVE  IInv'
  BY <1>8, AcceptStep, LoseStep, ReadHistoryStep, SendReplyStep, HistoryFailsStep
<1>9. CASE Persist
  BY <1>9, PersistStep
<1>10. CASE Broadcast
  BY <1>10, BroadcastStep
<1>11. CASE BroadcastCut
  BY <1>11, BroadcastCutStep
<1>12. CASE Tick
  BY <1>12, TickStep
<1>13. CASE UNCHANGED vars
  BY <1>13, StutterStep
<1>14. QED
  BY <1>1, <1>2, <1>3, <1>4, <1>5, <1>6, <1>7, <1>8, <1>9, <1>10, <1>11, <1>12, <1>13
     DEF Next, PageNext, GatewayNext

(* The inductive invariant holds in every reachable state. *)
THEOREM UiInvariant == Spec => []IInv
<1>1. Init => IInv
  <2>1. SUFFICES ASSUME Init
                 PROVE  IInv
    OBVIOUS
  <2>2. /\ MaxSeq \in Nat /\ MaxReqs \in Nat /\ MaxSockets \in Nat
    BY UiBoundsAssumption
  <2>3. /\ \A k \in Sockets : /\ ready[k] = "none" /\ link[k] = "none" /\ inbox[k] = <<>>
                              /\ reqs[k] = 0 /\ loaded[k] = 0 /\ answered[k] = 0
                              /\ fetched[k] = -1 /\ ~busy[k]
        /\ made = 0 /\ ~online
    BY <2>1 DEF Init
  <2>4. TypeOK
    <3>1. <<>> \in Seq(Rows)
      BY EmptySeq
    <3>2. /\ inbox \in [Sockets -> Seq(Rows)]
          /\ ready \in [Sockets -> {"none", "connecting", "open", "closing", "closed"}]
          /\ link \in [Sockets -> {"none", "up", "gone"}]
      BY <2>1, <3>1 DEF Init
    <3>3. /\ reqs \in [Sockets -> 0..(MaxReqs + 1)] /\ loaded \in [Sockets -> 0..(MaxReqs + 1)]
          /\ answered \in [Sockets -> 0..(MaxReqs + 1)]
          /\ fetched \in [Sockets -> -1..MaxSeq] /\ busy \in [Sockets -> BOOLEAN]
      BY <2>1, <2>2 DEF Init
    <3>4. /\ ws \in 0..made /\ made \in 0..MaxSockets /\ again \subseteq 1..made
          /\ lastLiveSeq \in 0..MaxSeq /\ latest \in 0..MaxSeq /\ window \in 0..(MaxSeq + 1)
          /\ clicks \in 0..MaxReqs /\ sent \in 0..MaxSeq /\ persisted \in sent..MaxSeq
      BY <2>1, <2>2 DEF Init
    <3>5. QED
      BY <2>1, <3>2, <3>3, <3>4 DEF Init, TypeOK
  <2>5. SocketInv
    BY <2>3 DEF SocketInv, OneSocket, NeverStuck, Going
  <2>6. AskInv
    BY <2>3 DEF AskInv
  <2>7. CountInv
    <3>1. \A k \in Sockets : Cardinality(Batches(inbox[k])) = 0
      BY <2>3, EmptyQueue, FS_EmptySet
    <3>2. QED
      BY <2>3, <3>1 DEF CountInv
  <2>8. QueueInv
    BY <2>3, EmptyQueue DEF QueueInv
  <2>9. LogInv
    <3>1. window <= FirstRow(persisted)
      BY <2>1, <2>2, WindowBegins DEF Init
    <3>2. \A k \in Sockets : ~Active(k)
      BY <2>3 DEF Active
    <3>3. QED
      BY <2>1, <3>1, <3>2 DEF Init, LogInv, Gapless
  <2>10. HoleInv
    BY <2>3 DEF HoleInv, Active
  <2>11. ReadInv /\ GapInv
    <3>1. persisted = 0 /\ \A k \in Sockets : Batches(inbox[k]) = {}
      BY <2>1, <2>3, EmptyQueue DEF Init
    <3>2. QED
      BY <2>3, <3>1 DEF ReadInv, GapInv, Active
  <2>12. QED
    BY <2>4, <2>5, <2>6, <2>7, <2>8, <2>9, <2>10, <2>11 DEF IInv
<1>2. IInv /\ [Next]_vars => IInv'
  BY StepKeeps
<1>3. QED
  BY <1>1, <1>2, PTL DEF Spec

(* Every variable keeps its type: in particular no sample is broadcast that *)
(* is not persisted, and no request is answered that was not made.          *)
THEOREM UiTypeCorrect == Spec => []TypeOK
<1>1. IInv => TypeOK
  BY DEF IInv
<1>2. QED
  BY <1>1, UiInvariant, PTL

(* Whatever clicks, timers and late events come, at most one socket is      *)
(* connecting or open, and it is the page's (connect, disconnect).          *)
THEOREM OnlyOneSocket == Spec => []OneSocket
<1>1. IInv => OneSocket
  BY DEF IInv, SocketInv
<1>2. QED
  BY <1>1, UiInvariant, PTL

(* The page is connected or has a try under way, unless it was disconnected *)
(* by hand or the constructor threw; then Connect is enabled (connect,      *)
(* onclose, scheduleReconnect).                                             *)
THEOREM NeverLeftBehind == Spec => []NeverStuck
<1>1. IInv => NeverStuck
  BY DEF IInv, SocketInv
<1>2. QED
  BY <1>1, UiInvariant, PTL

(* A reconnection asks for the history once, a first connection never, and  *)
(* every click once more (onopen, requestHistory).                          *)
THEOREM HistoryAskedOnce == Spec => []AskedOnce
<1>1. IInv => AskedOnce
  BY DEF IInv, AskInv, AskedOnce
<1>2. QED
  BY <1>1, UiInvariant, PTL

(* Once the replay is in, all that the page has missed is older than the    *)
(* window of the last batch it loaded: the live stream and the replay leave *)
(* no hole between them, although samples are persisted, broadcast and cut  *)
(* between the read of the history and the send of its reply.               *)
THEOREM ReplayRecovers == Spec => []Recovered
<1>1. ASSUME IInv, ws # 0, ready[ws] = "open", LastN > 0, ws \in again => loaded[ws] > 0,
             NEW s \in Missed
      PROVE  s < window
  <2>1. TypeOK /\ SocketInv /\ LogInv /\ HoleInv
    BY <1>1 DEF IInv
  <2>2. /\ MaxSeq \in Nat /\ MaxSockets \in Nat
        /\ sent \in 0..MaxSeq /\ persisted \in sent..MaxSeq
        /\ window \in Int /\ lastLiveSeq \in 0..MaxSeq /\ made \in 0..MaxSockets /\ ws \in 0..made
        /\ live \subseteq Samples /\ replay \subseteq Samples /\ Samples \subseteq Int
    BY <2>1, UiBoundsAssumption DEF TypeOK, Samples
  <2>3. ws \in Sockets /\ Active(ws) /\ Replayed(ws)
    <3>1. ws \in Sockets
      BY <1>1, <2>2 DEF Sockets
    <3>2. QED
      BY <1>1, <3>1 DEF Active, Replayed
  <2>4. PICK q \in Seq(Rows) : q = inbox[ws]
    BY <2>1, <2>3 DEF TypeOK
  <2>5. PICK a \in Seen, b \in Seen : a < s /\ s < b
    BY DEF Missed
  <2>6. s \in Samples /\ s \notin Seen \cup excused
    BY DEF Missed
  <2>7. SUFFICES ASSUME window <= s
                 PROVE  FALSE
    BY <2>2, <2>6
  <2>8. b \notin replay
    <3>1. b \in replay => s \in replay
      BY <2>1, <2>2, <2>5, <2>6, <2>7 DEF LogInv, Gapless
    <3>2. QED
      BY <2>6, <3>1 DEF Seen
  <2>9. b \in 1..lastLiveSeq /\ s < lastLiveSeq /\ s \in 1..sent
    <3>1. b \in 1..lastLiveSeq /\ lastLiveSeq <= sent
      BY <2>1, <2>5, <2>8 DEF LogInv, Seen
    <3>2. s \in Int /\ 1 <= s
      BY <2>6 DEF Samples
    <3>3. QED
      BY <2>2, <2>5, <3>1, <3>2
  <2>10. s \notin Coming(q)
    <3>1. Ahead(q, lastLiveSeq, window)
      BY <2>1, <2>3, <2>4 DEF LogInv
    <3>2. \A i \in Lives(q) : lastLiveSeq < q[i].from /\ q[i].from \in Int
      BY <3>1, RowFields DEF Ahead
    <3>3. \A i \in Lives(q) : q[i].from # s
      BY <2>2, <2>9, <3>2
    <3>4. QED
      BY <3>3 DEF Coming
  <2>11. s \notin Covered(q, Seen, excused)
    BY <2>6, <2>10 DEF Covered
  <2>12. CASE link[ws] = "up"
    <3>1. HoleUp(q, Seen, excused, window, Replayed(ws), sent)
      BY <1>1, <2>1, <2>3, <2>4, <2>12 DEF HoleInv
    <3>2. s < a
      BY <2>3, <2>5, <2>7, <2>9, <2>11, <3>1 DEF HoleUp
    <3>3. a \in Int /\ s \in Int
      BY <2>2, <2>6 DEF Seen
    <3>4. QED
      BY <2>5, <3>2, <3>3
  <2>13. CASE link[ws] = "gone"
    <3>1. HoleGone(q, Seen, excused, window, Replayed(ws))
      BY <1>1, <2>1, <2>3, <2>4, <2>13 DEF HoleInv
    <3>2. QED
      BY <2>3, <2>5, <2>6, <2>7, <2>11, <3>1 DEF HoleGone
  <2>14. link[ws] \in {"up", "gone"}
    BY <1>1, <2>1, <2>3 DEF TypeOK, SocketInv
  <2>15. QED
    BY <2>12, <2>13, <2>14
<1>2. IInv => Recovered
  BY <1>1 DEF Recovered
<1>3. QED
  BY <1>2, UiInvariant, PTL

(* A live sample that reaches the page is newer than all live samples it    *)
(* has logged, also over reconnections (handleTelemetry).                   *)
THEOREM LiveStaysInOrder == Spec => []LiveInOrder
<1>1. ASSUME IInv, NEW k \in Sockets, ready[k] = "open", inbox[k] # <<>>,
             Head(inbox[k]).type = "telemetry", NEW s \in live
      PROVE  s < Head(inbox[k]).from
  <2>1. TypeOK /\ LogInv
    BY <1>1 DEF IInv
  <2>2. PICK q \in Seq(Rows) : q = inbox[k]
    BY <2>1 DEF TypeOK
  <2>3. Head(q) = q[1] /\ 1 \in Lives(q)
    BY <1>1, <2>2, TailPart DEF Lives
  <2>4. Ahead(q, lastLiveSeq, window)
    BY <1>1, <2>1, <2>2 DEF LogInv, Active
  <2>5. lastLiveSeq < q[1].from /\ q[1].from \in Int
    BY <2>3, <2>4, RowFields DEF Ahead
  <2>6. s \in 1..lastLiveSeq /\ lastLiveSeq \in Int
    BY <2>1 DEF LogInv, TypeOK
  <2>7. QED
    BY <2>2, <2>3, <2>5, <2>6
<1>2. IInv => LiveInOrder
  BY <1>1 DEF LiveInOrder
<1>3. QED
  BY <1>2, UiInvariant, PTL

=============================================================================
