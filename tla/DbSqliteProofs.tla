---------------------------- MODULE DbSqliteProofs ----------------------------
(***************************************************************************)
(* Proofs about DbSqlite for every number of clients, columns, rows, times *)
(* and limits, and every number of faults and crashes.                     *)
(***************************************************************************)
EXTENDS DbSqlite, SequenceTheorems, WellFoundedInduction, TLAPS

(* How far a migration has come: the columns before col are there while it  *)
(* goes on, and all of them when the version is about to be written.        *)
MigrateInv ==
    /\ opener \in {"version", "pragmas0", "pragmas1", "create"} => col = 1
    /\ opener = "ensure" => \A m \in Motors : m < col => m \in cols
    /\ opener = "stamp" => Motors \subseteq cols
    /\ VersionHonest

(* No two rows have the same time.                                          *)
RowsInv == /\ Len(times) <= MaxRows
           /\ \A r, s \in 1..Len(times) : times[r] = times[s] => r = s

Lacks(q) == 1..q.seen \ Range(q.picked)

(* The rows a query q has picked are the newest of its snapshot, where tm   *)
(* is the time of each row, from the newest to the oldest.                  *)
Window(q, tm) ==
    /\ q.at \in {"idle", "asked"} => q.picked = <<>>
    /\ \A i \in 1..Len(q.picked) : q.picked[i] \in 1..q.seen
    /\ \A r \in Lacks(q), p \in Range(q.picked) : tm[r] < tm[p]
    /\ \A i, j \in 1..Len(q.picked) : i < j => tm[q.picked[j]] < tm[q.picked[i]]
    /\ q.at \in {"writing", "replied"} =>
         (Lacks(q) # {} => Len(q.picked) = q.limit \/ q.short)

(* A text, when the first left of the rows picked are still to be written:  *)
(* it has rows of the others, in the order of their time.                   *)
InTime(text, tm) == \A i, j \in 1..Len(text) :
    i < j /\ text[i] # Comma /\ text[j] # Comma => tm[text[i]] < tm[text[j]]
FromPicked(text, left, picked) == \A i \in 1..Len(text) :
    text[i] # Comma => \E j \in 1..Len(picked) : j > left /\ text[i] = picked[j]

(* Such a text when nothing of it is lost: it has all of the others, a      *)
(* comma between two, and one at the end as long as another will follow.    *)
Whole(text, left, picked) ==
    /\ \A j \in 1..Len(picked) : j > left => \E i \in 1..Len(text) : text[i] = picked[j]
    /\ \A i \in 1..(Len(text) - 1) : (text[i] = Comma) # (text[i + 1] = Comma)
    /\ text # <<>> => text[1] # Comma /\ (text[Len(text)] = Comma <=> left > 0)

Written(text, left, picked, lossy, tm) ==
    /\ InTime(text, tm) /\ FromPicked(text, left, picked)
    /\ ~lossy => Whole(text, left, picked)

Text(q, tm) ==
    /\ q.at \in {"idle", "asked", "reading"} => q.text = <<>> /\ q.lossy = FALSE
    /\ q.at = "replied" => q.left = 0
    /\ q.at \in {"writing", "replied"} =>
         Written(q.text, q.left, q.picked, q.lossy, tm)

(* A query q of a connection whose last snapshot has n rows: it has seen no *)
(* more than those, its rows are a window and its text is made of them.     *)
Sound(q, n, tm) ==
    /\ q \in Queries /\ Len(q.picked) <= q.limit /\ q.left <= Len(q.picked)
    /\ q.seen <= n
    /\ Window(q, tm) /\ Text(q, tm)

QueryInv == \A c \in Clients : Sound(query[c], snap, times)

IInv == TypeOK /\ MigrateInv /\ RowsInv /\ QueryInv

-----------------------------------------------------------------------------
(* Helpers *)

(* A set that is not empty has a largest element, where f bounds it.        *)
LEMMA Largest ==
    ASSUME NEW S, NEW f \in [S -> Int], NEW top \in Int, \A r \in S : f[r] <= top,
           NEW T \in SUBSET S, T # {}
    PROVE  \E r \in T : \A s \in T : f[s] <= f[r]
<1> DEFINE Depth == {top - f[r] : r \in T}
<1>1. Depth \subseteq Nat /\ Depth # {}
  OBVIOUS
<1>2. PICK d \in Depth : \A e \in Depth : ~(<<e, d>> \in OpToRel(<, Nat))
  BY <1>1, NatLessThanWellFounded, WFMin
<1>3. ASSUME NEW e \in Nat, NEW n \in Nat, e < n
      PROVE  <<e, n>> \in OpToRel(<, Nat)
  BY <1>3 DEF OpToRel
<1>4. \A e \in Depth : ~(e < d)
  BY <1>1, <1>2, <1>3
<1>5. PICK r \in T : d = top - f[r]
  OBVIOUS
<1>6. ASSUME NEW s \in T
      PROVE  f[s] <= f[r]
  <2>1. top - f[s] \in Depth
    OBVIOUS
  <2>2. ~(top - f[s] < top - f[r])
    BY <1>4, <1>5, <2>1
  <2>3. f[s] \in Int /\ f[r] \in Int
    OBVIOUS
  <2>4. QED
    BY <2>2, <2>3
<1>7. QED
  BY <1>6

(* The fields of a query, and the rows it has picked. *)
LEMMA QueryFields ==
    ASSUME NEW q \in Queries
    PROVE  /\ q.at \in {"idle", "asked", "reading", "writing", "replied", "failed"}
           /\ q.limit \in 1..LimitMax /\ q.asked \in 0..MaxRows /\ q.seen \in 0..MaxRows
           /\ q.limit \in Nat /\ q.asked \in Nat /\ q.seen \in Nat
           /\ q.short \in BOOLEAN /\ q.lossy \in BOOLEAN /\ q.left \in Nat
           /\ q.text \in Seq(0..MaxRows) /\ Len(q.text) \in Nat
           /\ q.picked \in Seq(1..MaxRows) /\ Len(q.picked) \in Nat
           /\ Range(q.picked) = {q.picked[i] : i \in 1..Len(q.picked)}
<1>1. q.picked \in Seq(1..MaxRows) /\ q.text \in Seq(0..MaxRows)
  BY DEF Queries
<1>2. MaxRows \in Nat /\ LimitMax \in Nat
  BY DbBoundsAssumption, LimitAssumption
<1>3. QED
  BY <1>1, <1>2, LenProperties, RangeEquality DEF Queries

(* A query that has picked no row and written nothing is sound.             *)
LEMMA EmptySound ==
    ASSUME NEW q \in Queries, NEW n \in Nat, NEW tm,
           q.at \notin {"writing", "replied"}, q.picked = <<>>, q.left = 0,
           q.text = <<>>, q.lossy = FALSE, q.seen <= n
    PROVE  Sound(q, n, tm)
<1>1. Len(q.picked) = 0 /\ Range(q.picked) = {} /\ 0 <= q.limit
  BY EmptySeq, QueryFields DEF Range
<1>2. Window(q, tm)
  BY <1>1 DEF Window
<1>3. Text(q, tm)
  BY DEF Text
<1>4. QED
  BY <1>1, <1>2, <1>3 DEF Sound

(* New rows, and a later snapshot, leave a query sound. *)
LEMMA SoundKept ==
    ASSUME NEW q, NEW n \in Nat, NEW m \in Nat, n <= m,
           NEW tm \in Seq(1..MaxTime), NEW tn \in Seq(1..MaxTime),
           n <= Len(tm), Len(tm) <= Len(tn), \A r \in 1..Len(tm) : tn[r] = tm[r],
           Sound(q, n, tm)
    PROVE  Sound(q, m, tn)
<1>1. /\ q \in Queries /\ Len(q.picked) \in Nat /\ q.seen \in Nat
      /\ Range(q.picked) = {q.picked[i] : i \in 1..Len(q.picked)}
      /\ Len(tm) \in Nat /\ Len(tn) \in Nat /\ Window(q, tm) /\ q.seen <= n
      /\ Text(q, tm)
  <2>1. q \in Queries /\ Window(q, tm) /\ Text(q, tm) /\ q.seen <= n
    BY DEF Sound
  <2>2. QED
    BY <2>1, QueryFields, LenProperties
<1>2. \A r \in 1..q.seen : r \in 1..Len(tm) /\ tn[r] = tm[r]
  BY <1>1
<1>3. /\ \A r \in Lacks(q) : tn[r] = tm[r]
      /\ \A i \in 1..Len(q.picked) : tn[q.picked[i]] = tm[q.picked[i]]
      /\ \A p \in Range(q.picked) : tn[p] = tm[p]
  BY <1>1, <1>2 DEF Lacks, Window
<1>4. Window(q, tn)
  BY <1>1, <1>3 DEF Window
<1>5. ASSUME Written(q.text, q.left, q.picked, q.lossy, tm)
      PROVE  Written(q.text, q.left, q.picked, q.lossy, tn)
  <2>1. \A i \in 1..Len(q.text) : q.text[i] # Comma => tn[q.text[i]] = tm[q.text[i]]
    BY <1>3, <1>5 DEF Written, FromPicked
  <2>2. InTime(q.text, tn)
    BY <1>5, <2>1 DEF Written, InTime
  <2>3. QED
    BY <1>5, <2>2 DEF Written
<1>6. Text(q, tn)
  BY <1>1, <1>5 DEF Text
<1>7. q.seen <= m
  BY <1>1
<1>8. QED
  BY <1>4, <1>6, <1>7 DEF Sound

-----------------------------------------------------------------------------
(* The steps of a query *)

(* What the next row of a query is: the newest of those it lacks. *)
LEMMA NextRowNewest ==
    ASSUME IInv, NEW c \in Clients, Left(c) # {}
    PROVE  /\ NextRow(c) \in Left(c) /\ Left(c) = Lacks(query[c])
           /\ Len(query[c].picked) < query[c].limit
           /\ \A r \in Left(c) \ {NextRow(c)} : times[r] < times[NextRow(c)]
<1>1. /\ Left(c) = Lacks(query[c]) /\ Len(query[c].picked) # query[c].limit
  BY DEF Left, Lacks
<1>2. /\ query[c] \in Queries /\ Len(query[c].picked) <= query[c].limit
      /\ query[c].seen <= snap /\ snap \in 0..Len(times)
      /\ times \in Seq(1..MaxTime)
  BY DEF IInv, TypeOK, QueryInv, Sound
<1>3. /\ Len(query[c].picked) \in Nat /\ query[c].limit \in Nat /\ query[c].seen \in Nat
      /\ Len(times) \in Nat /\ DOMAIN times = 1..Len(times)
      /\ times \in [1..Len(times) -> 1..MaxTime]
  BY <1>2, QueryFields, LenProperties
<1>4. Left(c) \in SUBSET (1..Len(times))
  BY <1>1, <1>2, <1>3 DEF Lacks
<1>5. /\ MaxTime \in Int /\ times \in [1..Len(times) -> Int]
      /\ \A r \in 1..Len(times) : times[r] \in Int /\ times[r] <= MaxTime
  BY <1>3, DbBoundsAssumption
<1>6. \E r \in Left(c) : \A s \in Left(c) : times[s] <= times[r]
  BY <1>4, <1>5, Largest
<1>7. NextRow(c) \in Left(c) /\ \A s \in Left(c) : times[s] <= times[NextRow(c)]
  BY <1>6 DEF NextRow
<1>8. \A r \in Left(c) : times[r] = times[NextRow(c)] => r = NextRow(c)
  BY <1>4, <1>7 DEF IInv, RowsInv
<1>9. \A r \in Left(c) \ {NextRow(c)} : times[r] < times[NextRow(c)]
  BY <1>4, <1>5, <1>7, <1>8
<1>10. QED
  BY <1>1, <1>2, <1>3, <1>7, <1>9

(* The row that is picked next is older than all that were, and newer than  *)
(* all that are left.                                                       *)
LEMMA PickSound ==
    ASSUME IInv, NEW c \in Clients, PickRow(c)
    PROVE  Sound(query'[c], snap, times)
<1> DEFINE q == query[c]
           n == NextRow(c)
           new == Append(q.picked, n)
<1>1. /\ q \in Queries /\ Sound(q, snap, times) /\ q.at = "reading"
      /\ Len(q.picked) \in Nat /\ q.limit \in Nat /\ q.seen \in 0..MaxRows
      /\ q.picked \in Seq(1..MaxRows) /\ q.seen \in Nat
      /\ Range(q.picked) = {q.picked[i] : i \in 1..Len(q.picked)}
  <2>1. q \in Queries /\ Sound(q, snap, times) /\ q.at = "reading"
    BY DEF IInv, QueryInv, Sound, PickRow
  <2> HIDE DEF q
  <2>2. QED
    BY <2>1, QueryFields
<1>2. /\ n \in Lacks(q) /\ Len(q.picked) < q.limit
      /\ \A r \in Lacks(q) \ {n} : times[r] < times[n]
  BY NextRowNewest DEF PickRow
<1>3. n \in 1..q.seen /\ n \in 1..MaxRows
  <2>1. MaxRows \in Nat
    BY DbBoundsAssumption
  <2> HIDE DEF q, n
  <2>2. QED
    BY <1>1, <1>2, <2>1 DEF Lacks
<1>4. /\ new \in Seq(1..MaxRows) /\ Len(new) = Len(q.picked) + 1
      /\ \A i \in 1..Len(q.picked) : new[i] = q.picked[i]
      /\ new[Len(q.picked) + 1] = n
  BY <1>1, <1>3, AppendProperties
<1>5. \A i \in 1..Len(new) : i \in 1..Len(q.picked) \/ i = Len(q.picked) + 1
  BY <1>1, <1>4
<1>6. Range(new) = Range(q.picked) \cup {n}
  <2>1. Range(new) = {new[i] : i \in 1..Len(new)}
    BY <1>4, RangeEquality
  <2>2. \A i \in 1..Len(q.picked) : i \in 1..Len(new)
    BY <1>1, <1>4
  <2>3. Len(q.picked) + 1 \in 1..Len(new)
    BY <1>1, <1>4
  <2>4. QED
    BY <1>1, <1>4, <1>5, <2>1, <2>2, <2>3
<1>7. query'[c] = [q EXCEPT !.picked = new]
  BY DEF PickRow, IInv, TypeOK
<1> HIDE DEF q, n, new
<1>8. /\ query'[c].at = q.at /\ query'[c].limit = q.limit /\ query'[c].left = q.left
      /\ query'[c].seen = q.seen /\ query'[c].short = q.short
      /\ query'[c].text = q.text /\ query'[c].lossy = q.lossy
      /\ query'[c].picked = new
      /\ query'[c] \in Queries
  BY <1>1, <1>4, <1>7 DEF Queries
<1>9. Lacks(query'[c]) = Lacks(q) \ {n}
  BY <1>6, <1>8 DEF Lacks
<1>10. Window(query'[c], times)
  <2>1. Window(q, times)
    BY <1>1 DEF Sound
  <2>2. \A i \in 1..Len(new) : new[i] \in 1..q.seen
    BY <1>3, <1>4, <1>5, <2>1 DEF Window
  <2>3. \A r \in Lacks(q) \ {n}, p \in Range(new) : times[r] < times[p]
    BY <1>2, <1>6, <2>1 DEF Window
  <2>4. \A i, j \in 1..Len(new) : i < j => times[new[j]] < times[new[i]]
    <3>1. ASSUME NEW i \in 1..Len(new), NEW j \in 1..Len(new), i < j
          PROVE  times[new[j]] < times[new[i]]
      <4>1. i \in 1..Len(q.picked)
        BY <1>1, <1>4, <3>1
      <4>2. CASE j \in 1..Len(q.picked)
        BY <1>1, <1>4, <2>1, <3>1, <4>1, <4>2 DEF Window
      <4>3. CASE j = Len(q.picked) + 1
        <5>1. new[j] = n /\ new[i] = q.picked[i] /\ q.picked[i] \in Range(q.picked)
          BY <1>1, <1>4, <4>1, <4>3
        <5>2. QED
          BY <1>2, <2>1, <5>1 DEF Window
      <4>4. QED
        BY <1>5, <4>2, <4>3
    <3>2. QED
      BY <3>1
  <2>5. QED
    BY <1>1, <1>8, <1>9, <2>2, <2>3, <2>4 DEF Window
<1>11. Len(new) <= q.limit /\ q.left <= Len(new)
  <2>1. q.left \in Nat /\ q.left <= Len(q.picked)
    BY <1>1, QueryFields DEF Sound
  <2>2. QED
    BY <1>1, <1>2, <1>4, <2>1
<1>12. Text(query'[c], times)
  BY <1>1, <1>8 DEF Sound, Text
<1>13. QED
  BY <1>1, <1>8, <1>10, <1>11, <1>12 DEF Sound

(* What a query's first step reads is no older than what was read before.  *)
LEMMA FirstStepSound ==
    ASSUME IInv, NEW c \in Clients, FirstStep(c)
    PROVE  /\ Sound(query'[c], snap', times) /\ snap' \in 0..Len(times) /\ snap <= snap'
           /\ query'[c].seen = snap'
<1> DEFINE q == query[c]
<1>1. /\ Sound(q, snap, times) /\ q.at = "asked" /\ times \in Seq(1..MaxTime)
      /\ snap \in 0..Len(times) /\ Len(times) <= MaxRows
      /\ query' = [query EXCEPT ![c].at = "reading", ![c].seen = snap']
      /\ snap' = IF Reading = {} THEN Len(times) ELSE snap
      /\ c \in DOMAIN query
  BY DEF IInv, TypeOK, RowsInv, QueryInv, FirstStep
<1>2. /\ Len(times) \in Nat /\ MaxRows \in Nat
      /\ snap \in 0..Len(times) /\ Len(times) <= MaxRows
  BY <1>1, LenProperties, DbBoundsAssumption
<1>3. snap' \in 0..Len(times) /\ snap <= snap' /\ snap' \in 0..MaxRows
  <2>1. CASE Reading = {}
    <3>1. snap' = Len(times)
      BY <1>1, <2>1
    <3>2. QED
      BY <1>2, <3>1
  <2>2. CASE Reading # {}
    <3>1. snap' = snap
      BY <1>1, <2>2
    <3>2. QED
      BY <1>2, <2>2, <3>1
  <2>3. QED
    BY <2>1, <2>2
<1>4. /\ q \in Queries /\ q.picked = <<>> /\ q.left \in Nat /\ q.left <= Len(q.picked)
      /\ q.text = <<>> /\ q.lossy = FALSE
  <2>1. /\ q \in Queries /\ q.picked = <<>> /\ q.left <= Len(q.picked)
        /\ q.text = <<>> /\ q.lossy = FALSE
    BY <1>1 DEF Sound, Window, Text
  <2>2. QED
    BY <2>1, QueryFields
<1>5. query'[c] = [q EXCEPT !.at = "reading", !.seen = snap']
  BY <1>1
<1> HIDE DEF q
<1>6. /\ query'[c].at = "reading" /\ query'[c].seen = snap'
      /\ query'[c].left = 0 /\ query'[c].text = <<>> /\ query'[c].lossy = FALSE
      /\ query'[c].picked = <<>> /\ query'[c] \in Queries
  <2>1. q.left = 0
    BY <1>4, EmptySeq
  <2>2. QED
    BY <1>3, <1>4, <1>5, <2>1 DEF Queries
<1>7. snap' \in Nat /\ query'[c].seen <= snap' /\ query'[c].at \notin {"writing", "replied"}
  BY <1>2, <1>3, <1>6
<1>8. Sound(query'[c], snap', times)
  BY <1>6, <1>7, EmptySound
<1>9. QED
  BY <1>3, <1>6, <1>8

(* A new request forgets the last reply.                                    *)
LEMMA RequestSound ==
    ASSUME IInv, NEW c \in Clients, Request(c)
    PROVE  Sound(query'[c], snap, times)
<1> DEFINE q == query[c]
<1>1. /\ Sound(q, snap, times) /\ times \in Seq(1..MaxTime)
      /\ snap \in 0..Len(times) /\ Len(times) <= MaxRows
      /\ c \in DOMAIN query
  BY DEF IInv, TypeOK, RowsInv, QueryInv
<1>2. Len(times) \in Nat /\ MaxRows \in Nat /\ snap \in Nat
  BY <1>1, LenProperties, DbBoundsAssumption
<1>3. q \in Queries /\ q.seen \in 0..MaxRows /\ q.seen <= snap
  BY <1>1, QueryFields DEF Sound
<1>4. PICK n \in 0..(LimitMax + 1) :
        query'[c] = [Idle EXCEPT !.at = "asked", !.limit = Clamp(n),
                                 !.asked = Len(times), !.seen = q.seen]
  BY <1>1 DEF Request
<1>5. Clamp(n) \in 1..LimitMax
  BY LimitAssumption DEF Clamp
<1> HIDE DEF q
<1>6. query'[c] = [at |-> "asked", limit |-> Clamp(n), asked |-> Len(times),
                   seen |-> q.seen, short |-> FALSE, picked |-> <<>>,
                   left |-> 0, text |-> <<>>, lossy |-> FALSE]
  BY <1>4 DEF Idle
<1>7. /\ <<>> \in Seq(1..MaxRows) /\ <<>> \in Seq(0..MaxRows)
      /\ Len(times) \in 0..MaxRows
  BY <1>1, <1>2, EmptySeq
<1>8. query'[c] \in Queries
  BY <1>3, <1>5, <1>6, <1>7 DEF Queries
<1>9. QED
  BY <1>1, <1>2, <1>3, <1>6, <1>8, EmptySound

(* A query that is marked as short, as replied when all is written or as    *)
(* failed, and has changed in nothing else, is still sound.                 *)
LEMMA MarkSound ==
    ASSUME IInv, NEW c \in Clients,
           RowFails(c) \/ QueryFails(c) \/ Reply(c) \/ ReplyFails(c)
    PROVE  Sound(query'[c], snap, times)
<1> DEFINE q == query[c]
           p == query'[c]
<1>1. Sound(q, snap, times) /\ q \in Queries /\ c \in DOMAIN query
  BY DEF IInv, TypeOK, QueryInv, Sound
<1>2. \/ q.at = "reading" /\ p = [q EXCEPT !.short = TRUE]
      \/ q.at = "asked" /\ p = [q EXCEPT !.at = "failed"]
      \/ q.at = "writing" /\ q.left = 0 /\ p = [q EXCEPT !.at = "replied"]
      \/ q.at = "writing" /\ q.left = 0 /\ p = [q EXCEPT !.at = "failed"]
  BY <1>1 DEF RowFails, QueryFails, Reply, ReplyFails
<1> HIDE DEF q, p
<1>3. /\ p.limit = q.limit /\ p.seen = q.seen /\ p.left = q.left
      /\ p.text = q.text /\ p.lossy = q.lossy /\ p.picked = q.picked
      /\ p \in Queries
      /\ \/ p.at = q.at /\ q.at = "reading"
         \/ p.at = "failed"
         \/ p.at = "replied" /\ q.at = "writing" /\ q.left = 0 /\ p.short = q.short
  BY <1>1, <1>2 DEF Queries
<1>4. Lacks(p) = Lacks(q)
  BY <1>3 DEF Lacks
<1>5. Window(p, times)
  BY <1>1, <1>3, <1>4 DEF Sound, Window
<1>6. Text(p, times)
  BY <1>1, <1>3 DEF Sound, Text
<1>7. Sound(p, snap, times)
  BY <1>1, <1>3, <1>5, <1>6 DEF Sound
<1>8. QED
  BY <1>7 DEF p

(* The rows picked are a window when reading ends, and none is written yet. *)
LEMMA FinalizeSound ==
    ASSUME IInv, NEW c \in Clients, Finalize(c)
    PROVE  Sound(query'[c], snap, times)
<1> DEFINE q == query[c]
           p == query'[c]
<1>1. /\ Sound(q, snap, times) /\ q.at = "reading" /\ q \in Queries
      /\ p = [q EXCEPT !.at = "writing", !.left = Len(q.picked)]
      /\ Left(c) = {} \/ q.short
  BY DEF IInv, TypeOK, QueryInv, Sound, Finalize
<1>2. Left(c) = {} => Lacks(q) = {} \/ Len(q.picked) = q.limit
  BY DEF Left, Lacks
<1> HIDE DEF q, p
<1>3. Len(q.picked) \in Nat
  BY <1>1, QueryFields
<1>4. /\ p.at = "writing" /\ p.limit = q.limit /\ p.seen = q.seen /\ p.short = q.short
      /\ p.text = q.text /\ p.lossy = q.lossy /\ p.picked = q.picked
      /\ p.left = Len(p.picked) /\ p \in Queries
  BY <1>1, <1>3 DEF Queries
<1>5. Lacks(p) = Lacks(q)
  BY <1>4 DEF Lacks
<1>6. Window(p, times)
  BY <1>1, <1>2, <1>4, <1>5 DEF Sound, Window
<1>7. p.text = <<>> /\ Len(p.text) = 0 /\ p.lossy = FALSE
  BY <1>1, <1>4, EmptySeq DEF Sound, Text
<1>8. Written(p.text, p.left, p.picked, p.lossy, times)
  BY <1>3, <1>4, <1>7 DEF Written, InTime, FromPicked, Whole
<1>9. Text(p, times)
  BY <1>4, <1>8 DEF Text
<1>10. Sound(p, snap, times)
  BY <1>1, <1>3, <1>4, <1>6, <1>9 DEF Sound
<1>11. QED
  BY <1>10 DEF p

(* What a turn of the writing loop adds: a row that is newer than those of  *)
(* the text, a comma after it unless it is the last, or less if an append   *)
(* fails.                                                                   *)
LEMMA PieceAdded ==
    ASSUME NEW picked \in Seq(1..MaxRows), NEW text \in Seq(0..MaxRows), NEW tm,
           NEW left \in 1..Len(picked), NEW lossy \in BOOLEAN, NEW worse \in BOOLEAN,
           \A i, j \in 1..Len(picked) : i < j => tm[picked[j]] < tm[picked[i]],
           Written(text, left, picked, lossy, tm),
           NEW part \in Seq(0..MaxRows),
           part \in {<<>>, <<picked[left]>>, <<Comma>>, <<picked[left], Comma>>},
           ~worse => /\ lossy = FALSE
                     /\ part = IF left = 1 THEN <<picked[left]>> ELSE <<picked[left], Comma>>
    PROVE  Written(text \o part, left - 1, picked, worse, tm)
<1> DEFINE new == text \o part
           n == Len(text)
           row == picked[left]
<1>0. /\ MaxRows \in Nat /\ Len(picked) \in Nat /\ n \in Nat /\ left \in Nat
      /\ row \in 1..MaxRows /\ row # Comma
  <2>1. MaxRows \in Nat /\ Len(picked) \in Nat /\ n \in Nat
    BY DbBoundsAssumption, LenProperties
  <2>2. row \in 1..MaxRows
    BY ElementOfSeq
  <2>3. QED
    BY <2>1, <2>2 DEF Comma
<1>1. /\ Len(part) \in 0..2
      /\ Len(part) = 2 => part[1] = row /\ part[2] = Comma
      /\ Len(part) = 1 => part[1] \in {row, Comma}
      /\ part = <<row>> => Len(part) = 1 /\ part[1] = row
      /\ part = <<row, Comma>> => Len(part) = 2
  <2>1. CASE part = <<>>
    <3>1. Len(part) = 0 /\ part # <<row>> /\ part # <<row, Comma>>
      BY <2>1
    <3>2. QED
      BY <3>1
  <2>2. CASE part = <<row>> \/ part = <<Comma>>
    <3> HIDE DEF row
    <3>1. \A x : Len(<<x>>) = 1 /\ <<x>>[1] = x
      OBVIOUS
    <3>2. Len(part) = 1 /\ part[1] \in {row, Comma}
      BY <2>2, <3>1
    <3>3. part # <<row, Comma>>
      <4>1. Len(<<row, Comma>>) = 2
        OBVIOUS
      <4>2. QED
        BY <3>2, <4>1
    <3>4. part = <<row>> => part[1] = row
      BY <3>1
    <3>5. QED
      BY <3>2, <3>3, <3>4
  <2>3. CASE part = <<row, Comma>>
    <3>1. Len(part) = 2 /\ part[1] = row /\ part[2] = Comma /\ part # <<row>>
      BY <2>3
    <3>2. QED
      BY <3>1
  <2>4. QED
    BY <2>1, <2>2, <2>3
<1>2. /\ new \in Seq(0..MaxRows) /\ Len(new) = n + Len(part)
      /\ \A i \in 1..n : new[i] = text[i]
      /\ Len(part) > 0 => new[n + 1] = part[1]
      /\ Len(part) = 2 => new[n + 2] = part[2]
  <2>1. /\ new \in Seq(0..MaxRows) /\ Len(new) = n + Len(part)
        /\ \A i \in 1..Len(new) : new[i] = IF i <= n THEN text[i] ELSE part[i - n]
    BY ConcatProperties
  <2> HIDE DEF new, n, row
  <2>2. \A i \in 1..n : new[i] = text[i]
    <3>1. \A i \in 1..n : i \in 1..Len(new) /\ i <= n
      BY <1>0, <1>1, <2>1
    <3>2. QED
      BY <2>1, <3>1
  <2>3. Len(part) > 0 => new[n + 1] = part[1]
    <3>1. Len(part) > 0 => n + 1 \in 1..Len(new) /\ ~(n + 1 <= n) /\ (n + 1) - n = 1
      BY <1>0, <1>1, <2>1
    <3>2. QED
      BY <2>1, <3>1
  <2>4. Len(part) = 2 => new[n + 2] = part[2]
    <3>1. Len(part) = 2 => n + 2 \in 1..Len(new) /\ ~(n + 2 <= n) /\ (n + 2) - n = 2
      BY <1>0, <1>1, <2>1
    <3>2. QED
      BY <2>1, <3>1
  <2>5. QED
    BY <2>1, <2>2, <2>3, <2>4
<1> HIDE DEF new, n, row
<1>3. \A i \in 1..Len(new) : \/ i \in 1..n
                             \/ i = n + 1 /\ new[i] = row
                             \/ i \in {n + 1, n + 2} /\ new[i] = Comma
  <2>1. \A i \in 1..Len(new) : \/ i \in 1..n
                               \/ i = n + 1 /\ Len(part) > 0
                               \/ i = n + 2 /\ Len(part) = 2
    <3>1. /\ Len(part) = 0 \/ Len(part) = 1 \/ Len(part) = 2
          /\ Len(new) = n + Len(part) /\ n \in Nat
      BY <1>0, <1>1, <1>2
    <3>2. CASE Len(part) = 0
      BY <3>1, <3>2
    <3>3. CASE Len(part) = 1
      BY <3>1, <3>3
    <3>4. CASE Len(part) = 2
      BY <3>1, <3>4
    <3>5. QED
      BY <3>1, <3>2, <3>3, <3>4
  <2>2. Len(part) > 0 => Len(part) = 1 \/ Len(part) = 2
    BY <1>1
  <2>3. QED
    BY <1>1, <1>2, <2>1, <2>2
<1>4. /\ InTime(text, tm) /\ FromPicked(text, left, picked)
      /\ ~lossy => Whole(text, left, picked)
      /\ n = Len(text) /\ row = picked[left]
  BY DEF Written, n, row
<1>5. \A i \in 1..n : text[i] # Comma => tm[text[i]] < tm[row]
  BY <1>0, <1>4 DEF FromPicked
<1>6. InTime(new, tm)
  <2>1. SUFFICES ASSUME NEW i \in 1..Len(new), NEW j \in 1..Len(new), i < j,
                        new[i] # Comma, new[j] # Comma
                 PROVE  tm[new[i]] < tm[new[j]]
    BY DEF InTime
  <2>2. CASE j \in 1..n
    <3>1. i \in 1..n
      BY <1>0, <2>1, <2>2
    <3>2. QED
      BY <1>2, <1>4, <2>1, <2>2, <3>1 DEF InTime
  <2>3. CASE j = n + 1 /\ new[j] = row
    <3>1. i \in 1..n
      BY <1>0, <2>1, <2>3
    <3>2. QED
      BY <1>2, <1>5, <2>1, <2>3, <3>1
  <2>4. QED
    BY <1>3, <2>1, <2>2, <2>3
<1>7. FromPicked(new, left - 1, picked)
  <2>1. SUFFICES ASSUME NEW i \in 1..Len(new), new[i] # Comma
                 PROVE  \E j \in 1..Len(picked) : j > left - 1 /\ new[i] = picked[j]
    BY DEF FromPicked
  <2>2. CASE i \in 1..n
    <3>1. PICK j \in 1..Len(picked) : j > left /\ text[i] = picked[j]
      BY <1>2, <1>4, <2>1, <2>2 DEF FromPicked
    <3>2. j > left - 1
      BY <1>0, <3>1
    <3>3. QED
      BY <1>2, <2>2, <3>1, <3>2
  <2>3. CASE new[i] = row
    <3>1. left > left - 1
      BY <1>0
    <3>2. QED
      BY <1>4, <2>3, <3>1
  <2>4. QED
    BY <1>3, <2>1, <2>2, <2>3
<1>8. ASSUME ~worse
      PROVE  Whole(new, left - 1, picked)
  <2>1. /\ Whole(text, left, picked)
        /\ Len(part) = IF left = 1 THEN 1 ELSE 2
        /\ part[1] = row /\ (left # 1 => part[2] = Comma)
    BY <1>1, <1>4, <1>8
  <2>2. /\ Len(new) = IF left = 1 THEN n + 1 ELSE n + 2
        /\ new[n + 1] = row /\ (left # 1 => new[n + 2] = Comma)
    BY <1>0, <1>1, <1>2, <2>1
  <2>3. \A j \in 1..Len(picked) : j > left - 1 => \E i \in 1..Len(new) : new[i] = picked[j]
    <3>1. SUFFICES ASSUME NEW j \in 1..Len(picked), j > left - 1
                   PROVE  \E i \in 1..Len(new) : new[i] = picked[j]
      OBVIOUS
    <3>2. CASE j = left
      <4>1. n + 1 \in 1..Len(new)
        BY <1>0, <2>2
      <4>2. QED
        BY <1>4, <2>2, <3>2, <4>1
    <3>3. CASE j > left
      <4>1. PICK i \in 1..n : text[i] = picked[j]
        BY <1>4, <2>1, <3>3 DEF Whole
      <4>2. i \in 1..Len(new)
        BY <1>0, <2>2
      <4>3. QED
        BY <1>2, <4>1, <4>2
    <3>4. QED
      BY <1>0, <3>1, <3>2, <3>3
  <2>4. n > 0 => text[n] = Comma /\ text[1] # Comma
    BY <1>0, <1>4, <2>1, EmptySeq DEF Whole
  <2>5. \A i \in 1..(Len(new) - 1) : (new[i] = Comma) # (new[i + 1] = Comma)
    <3>1. SUFFICES ASSUME NEW i \in 1..(Len(new) - 1)
                   PROVE  (new[i] = Comma) # (new[i + 1] = Comma)
      OBVIOUS
    <3>2. CASE i + 1 <= n
      <4>1. i \in 1..(n - 1) /\ i \in 1..n /\ i + 1 \in 1..n
        BY <1>0, <3>2
      <4>2. (text[i] = Comma) # (text[i + 1] = Comma)
        BY <1>4, <2>1, <4>1 DEF Whole
      <4>3. QED
        BY <1>2, <4>1, <4>2
    <3>3. CASE i = n
      <4>1. i \in 1..n /\ n > 0
        BY <1>0, <3>3
      <4>2. new[i] = Comma /\ new[i + 1] = row
        BY <1>2, <2>2, <2>4, <3>3, <4>1
      <4>3. QED
        BY <1>0, <4>2
    <3>4. CASE i = n + 1
      <4>1. left # 1 /\ i + 1 = n + 2
        BY <1>0, <2>2, <3>4
      <4>2. QED
        BY <1>0, <2>2, <3>4, <4>1
    <3>5. QED
      BY <1>0, <2>2, <3>2, <3>3, <3>4
  <2>6. new[1] # Comma
    <3>1. CASE n = 0
      BY <1>0, <2>2, <3>1
    <3>2. CASE n > 0
      <4>1. 1 \in 1..n
        BY <1>0, <3>2
      <4>2. QED
        BY <1>2, <2>4, <3>2, <4>1
    <3>3. QED
      BY <1>0, <3>1, <3>2
  <2>7. new[Len(new)] = Comma <=> left - 1 > 0
    <3>1. CASE left = 1
      BY <1>0, <2>2, <3>1
    <3>2. CASE left # 1
      <4>1. left - 1 > 0 /\ new[Len(new)] = Comma
        BY <1>0, <2>2, <3>2
      <4>2. QED
        BY <4>1
    <3>3. QED
      BY <3>1, <3>2
  <2>8. QED
    BY <2>3, <2>5, <2>6, <2>7 DEF Whole
<1>9. Written(new, left - 1, picked, worse, tm)
  BY <1>6, <1>7, <1>8 DEF Written
<1>10. QED
  BY <1>9 DEF new

(* A turn of the writing loop leaves the text sound, whether its appends    *)
(* succeed or not.                                                          *)
LEMMA WriteSound ==
    ASSUME IInv, NEW c \in Clients, WriteRow(c) \/ WriteFails(c)
    PROVE  Sound(query'[c], snap, times)
<1> DEFINE q == query[c]
           p == query'[c]
<1>1. /\ Sound(q, snap, times) /\ q \in Queries /\ c \in DOMAIN query
      /\ q.at = "writing" /\ q.left > 0
  BY DEF IInv, TypeOK, QueryInv, Sound, WriteRow, WriteFails
<1>2. \E part : \/ /\ part = Piece(q)
                   /\ p = [q EXCEPT !.left = @ - 1, !.text = @ \o part]
                \/ /\ part \in Pieces(q)
                   /\ p = [q EXCEPT !.left = @ - 1, !.text = @ \o part, !.lossy = TRUE]
  BY <1>1 DEF WriteRow, WriteFails
<1> HIDE DEF q, p
<1>3. /\ q.left \in 1..Len(q.picked) /\ q.picked \in Seq(1..MaxRows)
      /\ q.text \in Seq(0..MaxRows) /\ q.lossy \in BOOLEAN
      /\ q.left \in Nat /\ Len(q.picked) \in Nat
  <2>1. q.left <= Len(q.picked)
    BY <1>1 DEF Sound
  <2>2. QED
    BY <1>1, <2>1, QueryFields
<1>4. PICK part : \/ /\ part = Piece(q)
                     /\ p = [q EXCEPT !.left = @ - 1, !.text = @ \o part]
                  \/ /\ part \in Pieces(q)
                     /\ p = [q EXCEPT !.left = @ - 1, !.text = @ \o part, !.lossy = TRUE]
  BY <1>2
<1>5. /\ part \in {<<>>, <<q.picked[q.left]>>, <<Comma>>, <<q.picked[q.left], Comma>>}
      /\ part = Piece(q) =>
           part = IF q.left = 1 THEN <<q.picked[q.left]>> ELSE <<q.picked[q.left], Comma>>
  BY <1>3, <1>4 DEF Piece, Pieces
<1>6. part \in Seq(0..MaxRows)
  <2>1. q.picked[q.left] \in 0..MaxRows /\ Comma \in 0..MaxRows
    <3>1. q.picked[q.left] \in 1..MaxRows
      BY <1>3, ElementOfSeq
    <3>2. QED
      BY <3>1, DbBoundsAssumption DEF Comma
  <2>2. <<>> \in Seq(0..MaxRows)
    BY EmptySeq
  <2>3. \A x, y \in 0..MaxRows : <<x>> \in Seq(0..MaxRows) /\ <<x, y>> \in Seq(0..MaxRows)
    OBVIOUS
  <2>4. QED
    BY <1>5, <2>1, <2>2, <2>3
<1>7. /\ p.at = "writing" /\ p.limit = q.limit /\ p.seen = q.seen /\ p.short = q.short
      /\ p.picked = q.picked /\ p.left = q.left - 1 /\ p.text = q.text \o part
      /\ p.lossy \in BOOLEAN
      /\ ~p.lossy => q.lossy = FALSE /\ part = Piece(q)
      /\ p \in Queries
  <2>1. q.text \o part \in Seq(0..MaxRows) /\ q.left - 1 \in Nat
    BY <1>3, <1>6, ConcatProperties
  <2>2. QED
    BY <1>1, <1>3, <1>4, <2>1 DEF Queries
<1>8. Lacks(p) = Lacks(q)
  BY <1>7 DEF Lacks
<1>9. Window(q, times) /\ Written(q.text, q.left, q.picked, q.lossy, times)
  BY <1>1 DEF Sound, Text
<1>10. Window(p, times)
  BY <1>1, <1>7, <1>8, <1>9 DEF Window
<1>11. \A i, j \in 1..Len(q.picked) : i < j => times[q.picked[j]] < times[q.picked[i]]
  BY <1>9 DEF Window
<1>12. Written(q.text \o part, q.left - 1, q.picked, p.lossy, times)
  BY <1>3, <1>5, <1>6, <1>7, <1>9, <1>11, PieceAdded
<1>13. Text(p, times)
  BY <1>7, <1>12 DEF Text
<1>14. p.left <= Len(p.picked)
  BY <1>3, <1>7
<1>15. Sound(p, snap, times)
  BY <1>1, <1>7, <1>10, <1>13, <1>14 DEF Sound
<1>16. QED
  BY <1>15 DEF p

-----------------------------------------------------------------------------
(* Every step *)

QueryAction(c) ==
    \/ Request(c) \/ FirstStep(c) \/ PickRow(c) \/ Finalize(c) \/ WriteRow(c) \/ Reply(c)
    \/ QueryFails(c) \/ RowFails(c) \/ WriteFails(c) \/ ReplyFails(c)

OpenAction == \/ Start \/ ReadVersion \/ Pragmas \/ CreateTable \/ EnsureColumn
              \/ ColumnsEnsured \/ Stamp \/ Prepare \/ OpenFails \/ MisreadVersion

(* The actions by what they change. *)
LEMMA NextActions ==
    [Next]_vars => \/ OpenAction \/ Crash \/ Insert \/ UNCHANGED vars
                   \/ \E c \in Clients : QueryAction(c)
BY DEF Next, OpenNext, QueryNext, QueryFault, OpenAction, QueryAction

(* Every step keeps the migration's promise: the version is written after   *)
(* the last column.                                                         *)
LEMMA MigrateStep ==
    ASSUME IInv, [Next]_vars
    PROVE  /\ MigrateInv' /\ version' \in 0..3 /\ cols' \subseteq AllCols
           /\ opener' \in {"off", "version", "pragmas0", "pragmas1", "create", "ensure",
                           "stamp", "prepare", "ready"}
           /\ col' \in 1..(MotorCols + 1)
<1> USE DEF fileVars, openVars, readVars
<1>0. /\ version \in 0..3 /\ cols \subseteq AllCols
      /\ opener \in {"off", "version", "pragmas0", "pragmas1", "create", "ensure",
                     "stamp", "prepare", "ready"}
      /\ col \in 1..(MotorCols + 1) /\ MotorCols \in Nat
      /\ MigrateInv /\ Motors \subseteq AllCols /\ Motors = 1..MotorCols
  BY DbBoundsAssumption DEF IInv, TypeOK, Motors, AllCols
<1> USE DEF MigrateInv, VersionHonest
<1>1. CASE Start
  BY <1>0, <1>1 DEF Start
<1>2. CASE ReadVersion
  BY <1>0, <1>2 DEF ReadVersion
<1>3. CASE Pragmas
  BY <1>0, <1>3 DEF Pragmas
<1>4. CASE CreateTable
  <2>1. /\ opener = "create" /\ opener' \in {"ensure", "off"} /\ col' = 1 /\ col = 1
        /\ version' = version /\ cols' \in {AllCols, cols} /\ cols \subseteq cols'
    BY <1>0, <1>4 DEF CreateTable
  <2>2. \A m \in Motors : ~(m < 1)
    BY <1>0
  <2>3. QED
    BY <1>0, <2>1, <2>2
<1>5. CASE EnsureColumn
  <2>1. /\ opener = "ensure" /\ opener' = "ensure" /\ col \in Motors
        /\ cols' = cols \cup {col} /\ col' = col + 1 /\ version' = version
    BY <1>5 DEF EnsureColumn
  <2>2. \A m \in Motors : m < col' => m \in cols'
    <3>1. \A m \in Motors : m < col + 1 => m < col \/ m = col
      BY <1>0
    <3>2. QED
      BY <1>0, <2>1, <3>1
  <2>3. col' \in 1..(MotorCols + 1)
    BY <1>0, <2>1
  <2>4. QED
    BY <1>0, <2>1, <2>2, <2>3
<1>6. CASE ColumnsEnsured
  <2>1. /\ opener = "ensure" /\ opener' = "stamp" /\ col \notin Motors
        /\ UNCHANGED <<version, cols, col>>
    BY <1>6 DEF ColumnsEnsured
  <2>2. \A m \in Motors : m < col
    BY <1>0, <2>1
  <2>3. QED
    BY <1>0, <2>1, <2>2
<1>7. CASE Stamp
  BY <1>0, <1>7 DEF Stamp
<1>8. CASE Prepare
  BY <1>0, <1>8 DEF Prepare
<1>9. CASE OpenFails \/ MisreadVersion
  BY <1>0, <1>9 DEF OpenFails, MisreadVersion
<1>10. CASE Crash
  BY <1>0, <1>10 DEF Crash
<1>11. CASE Insert
  BY <1>0, <1>11 DEF Insert
<1>12. ASSUME NEW c \in Clients, QueryAction(c)
       PROVE  UNCHANGED <<version, cols, opener, col>>
  BY <1>12 DEF QueryAction, Request, FirstStep, PickRow, Finalize, WriteRow, Reply,
     QueryFails, RowFails, WriteFails, ReplyFails
<1>13. CASE UNCHANGED <<version, cols, opener, col>>
  BY <1>0, <1>13
<1>14. CASE UNCHANGED vars
  BY <1>13, <1>14 DEF vars
<1>15. QED
  BY <1>1, <1>2, <1>3, <1>4, <1>5, <1>6, <1>7, <1>8, <1>9, <1>10, <1>11, <1>12, <1>13,
     <1>14, NextActions DEF OpenAction

(* Every step keeps the rows there are, and adds at most one, with a time   *)
(* of its own.                                                              *)
LEMMA RowsStep ==
    ASSUME IInv, [Next]_vars
    PROVE  /\ RowsInv' /\ times' \in Seq(1..MaxTime)
           /\ Len(times) \in Nat /\ Len(times) <= Len(times')
           /\ \A r \in 1..Len(times) : times'[r] = times[r]
<1> USE DEF fileVars, openVars, readVars
<1>0. /\ times \in Seq(1..MaxTime) /\ RowsInv /\ Len(times) \in Nat
      /\ Range(times) = {times[r] : r \in 1..Len(times)} /\ MaxRows \in Nat
  <2>1. times \in Seq(1..MaxTime) /\ RowsInv
    BY DEF IInv, TypeOK
  <2>2. QED
    BY <2>1, LenProperties, RangeEquality, DbBoundsAssumption
<1>1. CASE Insert
  <2>1. PICK t \in 1..MaxTime \ Range(times) : times' = Append(times, t)
    BY <1>1 DEF Insert
  <2>2. Len(times) < MaxRows
    BY <1>1 DEF Insert
  <2>3. /\ times' \in Seq(1..MaxTime) /\ Len(times') = Len(times) + 1
        /\ \A r \in 1..Len(times) : times'[r] = times[r]
        /\ times'[Len(times) + 1] = t
    BY <1>0, <2>1, AppendProperties
  <2>4. \A r \in 1..(Len(times) + 1) : r \in 1..Len(times) \/ r = Len(times) + 1
    BY <1>0
  <2>5. \A r \in 1..Len(times) : times[r] # t
    BY <1>0, <2>1
  <2>6. \A r, s \in 1..Len(times') : times'[r] = times'[s] => r = s
    BY <1>0, <2>3, <2>4, <2>5 DEF RowsInv
  <2>7. Len(times') <= MaxRows /\ Len(times) <= Len(times')
    BY <1>0, <2>2, <2>3
  <2>8. QED
    BY <1>0, <2>3, <2>6, <2>7 DEF RowsInv
<1>2. CASE UNCHANGED times
  BY <1>0, <1>2 DEF RowsInv
<1>3. ASSUME NEW c \in Clients, QueryAction(c)
      PROVE  UNCHANGED times
  BY <1>3 DEF QueryAction, Request, FirstStep, PickRow, Finalize, WriteRow, Reply,
     QueryFails, RowFails, WriteFails, ReplyFails
<1>4. CASE OpenAction \/ Crash \/ UNCHANGED vars
  BY <1>2, <1>4 DEF OpenAction, Start, ReadVersion, Pragmas, CreateTable, EnsureColumn,
     ColumnsEnsured, Stamp, Prepare, OpenFails, MisreadVersion, Crash, vars
<1>5. QED
  BY <1>1, <1>2, <1>3, <1>4, NextActions

(* A step of one client's query leaves the other queries, and makes it      *)
(* sound.                                                                   *)
LEMMA OneQuery ==
    ASSUME IInv, NEW c \in Clients, QueryAction(c)
    PROVE  /\ \A d \in Clients \ {c} : query'[d] = query[d]
           /\ DOMAIN query' = Clients /\ query' = [d \in Clients |-> query'[d]]
           /\ Sound(query'[c], snap', times)
           /\ snap' \in 0..Len(times) /\ snap <= snap'
<1> USE DEF fileVars, openVars, readVars
<1>0. query \in [Clients -> Queries] /\ snap \in 0..Len(times) /\ Len(times) \in Nat
  <2>1. query \in [Clients -> Queries] /\ snap \in 0..Len(times)
        /\ times \in Seq(1..MaxTime)
    BY DEF IInv, TypeOK
  <2>2. QED
    BY <2>1, LenProperties
<1>1. \E q : query' = [query EXCEPT ![c] = q]
  <2>1. CASE Request(c)
    BY <2>1 DEF Request
  <2>2. CASE FirstStep(c)
    <3>1. query' = [query EXCEPT ![c] = [query[c] EXCEPT !.at = "reading", !.seen = snap']]
      BY <1>0, <2>2 DEF FirstStep
    <3>2. QED
      BY <3>1
  <2>3. CASE PickRow(c) \/ RowFails(c) \/ QueryFails(c) \/ Reply(c) \/ ReplyFails(c)
    BY <2>3 DEF PickRow, RowFails, QueryFails, Reply, ReplyFails
  <2>4. CASE Finalize(c)
    <3>1. query' = [query EXCEPT ![c] = [query[c] EXCEPT !.at = "writing",
                                                         !.left = Len(query[c].picked)]]
      BY <1>0, <2>4 DEF Finalize
    <3>2. QED
      BY <3>1
  <2>5. CASE WriteRow(c)
    <3>1. query' = [query EXCEPT ![c] = [query[c] EXCEPT !.left = @ - 1,
                                                         !.text = @ \o Piece(query[c])]]
      BY <1>0, <2>5 DEF WriteRow
    <3>2. QED
      BY <3>1
  <2>6. CASE WriteFails(c)
    <3>1. PICK part \in Pieces(query[c]) :
            query' = [query EXCEPT ![c] = [query[c] EXCEPT !.left = @ - 1,
                                                           !.text = @ \o part,
                                                           !.lossy = TRUE]]
      BY <1>0, <2>6 DEF WriteFails
    <3>2. QED
      BY <3>1
  <2>7. QED
    BY <2>1, <2>2, <2>3, <2>4, <2>5, <2>6 DEF QueryAction
<1>2. /\ \A d \in Clients \ {c} : query'[d] = query[d]
      /\ DOMAIN query' = Clients /\ query' = [d \in Clients |-> query'[d]]
  BY <1>0, <1>1
<1>3. CASE FirstStep(c)
  BY <1>2, <1>3, FirstStepSound
<1>4. CASE ~FirstStep(c)
  <2>1. snap' = snap
    BY <1>4 DEF QueryAction, Request, PickRow, Finalize, WriteRow, Reply,
       QueryFails, RowFails, WriteFails, ReplyFails
  <2>2. Sound(query'[c], snap, times)
    BY <1>4, RequestSound, PickSound, MarkSound, FinalizeSound, WriteSound
       DEF QueryAction
  <2>3. QED
    BY <1>0, <1>2, <2>1, <2>2
<1>5. QED
  BY <1>3, <1>4

(* Every step keeps every query sound.                                      *)
LEMMA QueryStep ==
    ASSUME IInv, [Next]_vars
    PROVE  QueryInv' /\ query' \in [Clients -> Queries] /\ snap' \in 0..Len(times')
<1> USE DEF fileVars, openVars, readVars
<1>0. /\ query \in [Clients -> Queries] /\ snap \in 0..Len(times)
      /\ times \in Seq(1..MaxTime) /\ QueryInv
  BY DEF IInv, TypeOK
<1>00. /\ times' \in Seq(1..MaxTime) /\ Len(times) \in Nat /\ Len(times') \in Nat
       /\ Len(times) <= Len(times') /\ \A r \in 1..Len(times) : times'[r] = times[r]
  BY RowsStep, LenProperties
<1>1. ASSUME NEW c \in Clients, NEW m \in 0..Len(times), snap <= m
      PROVE  Sound(query[c], m, times')
  <2>1. Sound(query[c], snap, times) /\ snap \in Nat /\ m \in Nat /\ snap <= Len(times)
    BY <1>0, <1>00 DEF QueryInv
  <2>2. QED
    BY <1>0, <1>00, <1>1, <2>1, SoundKept
<1>2. CASE UNCHANGED <<snap, query>>
  <2>1. snap' \in 0..Len(times')
    BY <1>0, <1>00, <1>2
  <2>2. \A c \in Clients : Sound(query[c], snap, times')
    BY <1>0, <1>00, <1>1
  <2>3. QED
    BY <1>0, <1>2, <2>1, <2>2 DEF QueryInv
<1>3. CASE OpenAction \/ Insert \/ UNCHANGED vars
  BY <1>2, <1>3 DEF OpenAction, Start, ReadVersion, Pragmas, CreateTable, EnsureColumn,
     ColumnsEnsured, Stamp, Prepare, OpenFails, MisreadVersion, Insert, vars
<1>4. CASE Crash
  <2>1. snap' = 0 /\ query' = [c \in Clients |-> Idle] /\ times' = times
    BY <1>4 DEF Crash
  <2>2. /\ Idle \in Queries /\ Idle.at = "idle" /\ Idle.picked = <<>> /\ Idle.seen = 0
        /\ Idle.left = 0 /\ Idle.text = <<>> /\ Idle.lossy = FALSE
    BY EmptySeq, LimitAssumption, DbBoundsAssumption DEF Idle, Queries
  <2>3. Idle.at \notin {"writing", "replied"} /\ Idle.seen <= 0
    BY <2>2
  <2>4. Sound(Idle, 0, times)
    BY <2>2, <2>3, EmptySound, ZenonT(30)
  <2>5. QED
    BY <1>00, <2>1, <2>2, <2>4 DEF QueryInv
<1>5. ASSUME NEW c \in Clients, QueryAction(c)
      PROVE  QueryInv' /\ query' \in [Clients -> Queries] /\ snap' \in 0..Len(times')
  <2>1. UNCHANGED times
    BY <1>5 DEF QueryAction, Request, FirstStep, PickRow, Finalize, WriteRow, Reply,
     QueryFails, RowFails, WriteFails, ReplyFails
  <2>2. /\ \A d \in Clients \ {c} : query'[d] = query[d]
        /\ query' = [d \in Clients |-> query'[d]]
        /\ Sound(query'[c], snap', times)
        /\ snap' \in 0..Len(times) /\ snap <= snap'
    BY <1>5, OneQuery
  <2>3. \A d \in Clients \ {c} : Sound(query[d], snap', times')
    BY <1>1, <2>2
  <2>4. \A d \in Clients : Sound(query'[d], snap', times')
    BY <2>1, <2>2, <2>3
  <2>5. \A d \in Clients : query'[d] \in Queries
    BY <2>4 DEF Sound
  <2>6. query' \in [Clients -> Queries]
    BY <2>2, <2>5
  <2>7. QED
    BY <2>1, <2>2, <2>4, <2>6 DEF QueryInv
<1>6. QED
  BY <1>2, <1>3, <1>4, <1>5, NextActions

(* Every step keeps the types. *)
LEMMA TypeStep ==
    ASSUME IInv, [Next]_vars
    PROVE  TypeOK'
<1>1. faults' \in 0..MaxFaults /\ crashes' \in 0..MaxCrashes
  <2>1. /\ faults' = faults \/ Fault
        /\ crashes' = crashes \/ (crashes < MaxCrashes /\ crashes' = crashes + 1)
    <3>1. ASSUME NEW c \in Clients, QueryAction(c)
          PROVE  (faults' = faults \/ Fault) /\ crashes' = crashes
      BY <3>1 DEF QueryAction, Request, FirstStep, PickRow, Finalize, WriteRow, Reply,
     QueryFails, RowFails, WriteFails, ReplyFails
    <3>2. CASE OpenAction \/ Crash \/ Insert \/ UNCHANGED vars
      BY <3>2 DEF OpenAction, Start, ReadVersion, Pragmas, CreateTable, EnsureColumn,
         ColumnsEnsured, Stamp, Prepare, OpenFails, MisreadVersion, Insert, Crash, vars
    <3>3. QED
      BY <3>1, <3>2, NextActions
  <2>2. QED
    BY <2>1, DbBoundsAssumption DEF IInv, TypeOK, Fault
<1>2. \A c \in Clients : /\ Len(query'[c].picked) <= query'[c].limit
                         /\ query'[c].left <= Len(query'[c].picked)
  BY QueryStep DEF QueryInv, Sound
<1>3. QED
  BY <1>1, <1>2, MigrateStep, RowsStep, QueryStep DEF TypeOK

(* A file of any kind that a gateway may find, before the first open.       *)
LEMMA IInvInit ==
    ASSUME Init
    PROVE  IInv
<1>1. /\ Idle \in Queries /\ Idle.at = "idle" /\ Idle.picked = <<>> /\ Idle.seen = 0
      /\ Idle.left = 0 /\ Idle.text = <<>> /\ Idle.lossy = FALSE
      /\ Idle.limit \in Nat /\ Len(Idle.picked) = 0
  BY EmptySeq, LimitAssumption, DbBoundsAssumption DEF Idle, Queries
<1>2. /\ <<>> \in Seq(1..MaxTime) /\ Len(<<>>) = 0
  BY EmptySeq
<1>3. Sound(Idle, 0, times)
  <2>1. times = <<>>
    BY DEF Init
  <2>2. times \in Seq(1..MaxTime) /\ Len(times) = 0
    BY <1>2, <2>1
  <2>3. Idle.at \notin {"writing", "replied"}
    BY <1>1
  <2>4. Idle.seen <= 0
    BY <1>1
  <2>5. QED
    BY <1>1, <2>2, <2>3, <2>4, EmptySound, ZenonT(30)
<1>4. QueryInv
  BY <1>3 DEF Init, QueryInv
<1>5. TypeOK
  <2>1. /\ query \in [Clients -> Queries]
        /\ \A c \in Clients : /\ Len(query[c].picked) <= query[c].limit
                              /\ query[c].left <= Len(query[c].picked)
    BY <1>1 DEF Init
  <2>2. times \in Seq(1..MaxTime) /\ snap \in 0..Len(times)
    BY <1>2 DEF Init
  <2>3. QED
    BY <2>1, <2>2, DbBoundsAssumption DEF Init, TypeOK
<1>6. RowsInv
  BY <1>2, DbBoundsAssumption DEF Init, RowsInv
<1>7. MigrateInv
  BY DEF Init, FoundFile, MigrateInv, VersionHonest, AllCols
<1>8. QED
  BY <1>4, <1>5, <1>6, <1>7 DEF IInv

-----------------------------------------------------------------------------
(* Theorems *)

(* The inductive invariant holds in every reachable state.                  *)
THEOREM DbInvariant == Spec => []IInv
<1>1. Init => IInv
  BY IInvInit
<1>2. IInv /\ [Next]_vars => IInv'
  BY MigrateStep, RowsStep, QueryStep, TypeStep DEF IInv
<1>3. QED
  BY <1>1, <1>2, PTL DEF Spec

(* Every variable keeps its type; in particular no query writes a row past  *)
(* what calloc gave it (db_reader_history_last_json's rows).                *)
THEOREM DbTypeCorrect == Spec => []TypeOK
<1>1. IInv => TypeOK
  BY DEF IInv
<1>2. QED
  BY <1>1, DbInvariant, PTL

(* A file of version 2 has the columns of the migration, wherever a crash   *)
(* or a failed statement has stopped an earlier one.                        *)
THEOREM VersionIsHonest == Spec => []VersionHonest
<1>1. IInv => VersionHonest
  BY DEF IInv, MigrateInv
<1>2. QED
  BY <1>1, DbInvariant, PTL

(* A reply has its rows in the order of their time, each once; and unless   *)
(* memory was short while it was written it is a proper list of the newest  *)
(* rows of its snapshot, without a hole.                                    *)
THEOREM RepliesAreWindows == Spec => []ReplyIsWindow
<1>1. ASSUME IInv, NEW c \in Clients, query[c].at = "replied"
      PROVE  LET q == query[c]
                 rows == Range(q.text) \ {Comma}
                 lacks == 1..q.seen \ rows
             IN /\ \A i, j \in DOMAIN q.text :
                     i < j /\ q.text[i] # Comma /\ q.text[j] # Comma
                         => times[q.text[i]] < times[q.text[j]]
                /\ ~q.lossy =>
                     /\ Separated(q.text)
                     /\ \A r \in lacks, s \in rows : times[r] < times[s]
                     /\ lacks # {} => Len(q.picked) = q.limit \/ q.short
  <2> DEFINE q == query[c]
             rows == Range(q.text) \ {Comma}
  <2>1. /\ q \in Queries /\ Window(q, times) /\ q.at = "replied" /\ q.left = 0
        /\ Written(q.text, q.left, q.picked, q.lossy, times)
    BY <1>1 DEF IInv, QueryInv, Sound, Text
  <2> HIDE DEF q
  <2>2. /\ DOMAIN q.text = 1..Len(q.text) /\ Len(q.text) \in Nat /\ Len(q.picked) \in Nat
        /\ Range(q.text) = {q.text[i] : i \in 1..Len(q.text)}
        /\ Range(q.picked) = {q.picked[i] : i \in 1..Len(q.picked)}
        /\ \A i \in 1..Len(q.picked) : q.picked[i] \in 1..MaxRows
    <3>1. q.picked \in Seq(1..MaxRows) /\ q.text \in Seq(0..MaxRows)
      BY <2>1, QueryFields
    <3>2. \A i \in 1..Len(q.picked) : q.picked[i] \in 1..MaxRows
      BY <3>1, ElementOfSeq
    <3>3. /\ Range(q.text) = {q.text[i] : i \in 1..Len(q.text)}
          /\ Range(q.picked) = {q.picked[i] : i \in 1..Len(q.picked)}
      BY <3>1, RangeEquality
    <3>4. QED
      BY <3>1, <3>2, <3>3, LenProperties
  <2>3. InTime(q.text, times) /\ FromPicked(q.text, 0, q.picked)
        /\ (~q.lossy => Whole(q.text, 0, q.picked))
    BY <2>1 DEF Written
  <2>4. ASSUME ~q.lossy
        PROVE  rows = Range(q.picked) /\ Separated(q.text)
    <3>1. Range(q.picked) \subseteq rows
      <4>1. \A j \in 1..Len(q.picked) : j > 0 /\ q.picked[j] # Comma
        BY <2>2, DbBoundsAssumption DEF Comma
      <4>2. QED
        BY <2>2, <2>3, <2>4, <4>1 DEF Whole
    <3>2. rows \subseteq Range(q.picked)
      BY <2>2, <2>3 DEF FromPicked
    <3>3. Separated(q.text)
      <4>1. ~(0 > 0)
        OBVIOUS
      <4>2. QED
        BY <2>3, <2>4, <4>1 DEF Whole, Separated
    <3>4. QED
      BY <3>1, <3>2, <3>3
  <2>5. ~q.lossy => /\ Separated(q.text)
                    /\ \A r \in 1..q.seen \ rows, s \in rows : times[r] < times[s]
                    /\ 1..q.seen \ rows # {} => Len(q.picked) = q.limit \/ q.short
    BY <2>1, <2>4 DEF Window, Lacks
  <2>6. \A i, j \in DOMAIN q.text : i < j /\ q.text[i] # Comma /\ q.text[j] # Comma
                                     => times[q.text[i]] < times[q.text[j]]
    BY <2>2, <2>3 DEF InTime
  <2>7. QED
    BY <2>5, <2>6 DEF q
<1>2. IInv => ReplyIsWindow
  BY <1>1 DEF ReplyIsWindow
<1>3. QED
  BY <1>2, DbInvariant, PTL

(* No client is answered from an older state of the database than it was    *)
(* before: a snapshot that is shared is never older than the last one.      *)
THEOREM NeverAnOlderReply == Spec => NoOlderReply
<1>1. ASSUME IInv, [Next]_vars, NEW c \in Clients,
             query[c].at = "asked", query'[c].at = "reading"
      PROVE  query'[c].seen >= query[c].seen
  <2>1. CASE query'[c] = query[c]
    BY <1>1, <2>1
  <2>2. CASE query'[c] # query[c]
    <3>1. FirstStep(c)
      <4>1. CASE OpenAction \/ Insert \/ UNCHANGED vars
        BY <2>2, <4>1 DEF OpenAction, Start, ReadVersion, Pragmas, CreateTable,
           EnsureColumn, ColumnsEnsured, Stamp, Prepare, OpenFails, MisreadVersion, Insert, vars, readVars
      <4>2. CASE Crash
        BY <1>1, <4>2 DEF Crash, Idle
      <4>3. ASSUME NEW d \in Clients, QueryAction(d)
            PROVE  FirstStep(c)
        <5>1. d = c
          BY <1>1, <2>2, <4>3, OneQuery
        <5>2. CASE Request(c)
          <6>1. query'[c].at = "asked"
            BY <1>1, <5>2 DEF Request, IInv, TypeOK, Idle
          <6>2. QED
            BY <1>1, <6>1
        <5>3. CASE QueryFails(c)
          <6>1. query'[c].at = "failed"
            BY <1>1, <5>3 DEF QueryFails, IInv, TypeOK
          <6>2. QED
            BY <1>1, <6>1
        <5>4. ~(PickRow(c) \/ Finalize(c) \/ WriteRow(c) \/ Reply(c)
                 \/ RowFails(c) \/ WriteFails(c) \/ ReplyFails(c))
          BY <1>1 DEF PickRow, Finalize, WriteRow, Reply, RowFails, WriteFails, ReplyFails
        <5>5. QED
          BY <4>3, <5>1, <5>2, <5>3, <5>4 DEF QueryAction
      <4>4. QED
        BY <1>1, <4>1, <4>2, <4>3, NextActions
    <3>2. query'[c].seen = snap' /\ snap <= snap' /\ snap' \in 0..Len(times)
      BY <1>1, <3>1, FirstStepSound
    <3>3. query[c].seen <= snap /\ query[c] \in Queries
      BY <1>1 DEF IInv, QueryInv, Sound
    <3>4. query[c].seen \in Nat /\ snap \in Nat /\ snap' \in Nat
      BY <1>1, <3>2, <3>3, QueryFields, LenProperties DEF IInv, TypeOK
    <3>5. QED
      BY <3>2, <3>3, <3>4
  <2>3. QED
    BY <2>1, <2>2
<1>2. IInv /\ [Next]_vars => [\A c \in Clients :
         query[c].at = "asked" /\ query'[c].at = "reading"
             => query'[c].seen >= query[c].seen]_vars
  BY <1>1
<1>3. QED
  BY <1>2, DbInvariant, PTL DEF Spec, NoOlderReply

=============================================================================
