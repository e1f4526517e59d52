------------------------------- MODULE DbSqlite -------------------------------
(***************************************************************************)
(* The storage of the gateway (src/src/core/db_sqlite.c): opening a file   *)
(* creates or migrates its schema, statement by statement; the writer adds *)
(* rows; and the client threads of the WebSocket server query the history  *)
(* over the one connection they share.  A crash may come between any two   *)
(* statements, each of which SQLite makes durable by itself.               *)
(*                                                                         *)
(* A row is the number of its insertion, and times[r] its received_at_ns.  *)
(* Gateway has the transactions of the writer: a step adds what a COMMIT   *)
(* makes visible, one row at a time.                                       *)
(***************************************************************************)
EXTENDS Integers, SequencesExt

CONSTANTS Clients,        \* client threads that ask for history
          MotorCols,      \* number of columns that the migration ensures
          MaxRows,        \* bound: rows inserted
          MaxTime,        \* bound: times of the clock
          ClockBack,      \* the realtime clock may be set back
          DefaultLimit,   \* 300
          LimitMax,       \* 5000
          MaxFaults,      \* bound: statements and allocations that fail
          MaxCrashes      \* bound: crashes

ASSUME DbBoundsAssumption ==
    {MotorCols, MaxRows, MaxTime, MaxFaults, MaxCrashes} \subseteq Nat
ASSUME LimitAssumption == /\ {DefaultLimit, LimitMax} \subseteq Nat \ {0}
                          /\ DefaultLimit <= LimitMax
ASSUME ClockAssumption == ClockBack \in BOOLEAN

VARIABLES
    \* the file
    version,              \* PRAGMA user_version
    cols,                 \* columns of telemetry_state; {} when there is no table
    times,
    \* the thread in db_writer_open, then the writer
    opener,
    col,                  \* the loop's index into the columns to ensure
    \* the reader's connection and the queries of the client threads
    snap,                 \* rows visible in its read transaction, if it has one
    query,
    \* the environment
    faults, crashes

fileVars == <<version, cols, times>>
openVars == <<opener, col>>
readVars == <<snap, query>>
vars == <<fileVars, openVars, readVars, faults, crashes>>

(* Columns: Id stands for the table as such, Core for those that only       *)
(* CREATE TABLE makes, the others may be added by ensure_column.            *)
Id == -1
Core == 0
Motors == 1..MotorCols
AllCols == {Id, Core} \cup Motors

(* A query: the rows it has picked, newest first (rows[]); how many of them *)
(* are still to be written (i + 1); and the text of its reply, in which a   *)
(* row stands for its object and Comma for what separates two.              *)
Comma == 0

Idle == [at |-> "idle", limit |-> DefaultLimit, asked |-> 0, seen |-> 0,
         short |-> FALSE, picked |-> <<>>,
         left |-> 0, text |-> <<>>, lossy |-> FALSE]

Queries == [at : {"idle", "asked", "reading", "writing", "replied", "failed"},
            limit : 1..LimitMax, asked : 0..MaxRows, seen : 0..MaxRows,
            short : BOOLEAN, picked : Seq(1..MaxRows),
            left : Nat, text : Seq(0..MaxRows), lossy : BOOLEAN]

TypeOK ==
    /\ version \in 0..3
    /\ cols \subseteq AllCols
    /\ times \in Seq(1..MaxTime)
    /\ opener \in {"off", "version", "pragmas0", "pragmas1", "create", "ensure",
                   "stamp", "prepare", "ready"}
    /\ col \in 1..(MotorCols + 1)
    /\ snap \in 0..Len(times)
    /\ query \in [Clients -> Queries]
    \* rows[n] stays inside what calloc gave it
    /\ \A c \in Clients : /\ Len(query[c].picked) <= query[c].limit
                          /\ query[c].left <= Len(query[c].picked)
    /\ faults \in 0..MaxFaults /\ crashes \in 0..MaxCrashes

(* The files a gateway may find: none; one without a version, made by hand  *)
(* or by a version that did not write one, with part of the columns; one of *)
(* version 1; a current one; one of a later version.                        *)
FoundFile ==
    \/ version = 0 /\ cols = {}
    \/ version = 0 /\ \E S \in SUBSET (AllCols \ {Id}) : cols = {Id} \cup S
    \/ version = 1 /\ cols = {Id, Core}
    \/ version \in {2, 3} /\ cols = AllCols

Init ==
    /\ version \in 0..3 /\ cols \in SUBSET AllCols /\ FoundFile
    /\ times = <<>>
    /\ opener = "off" /\ col = 1
    /\ snap = 0 /\ query = [c \in Clients |-> Idle]
    /\ faults = 0 /\ crashes = 0

Fault == faults < MaxFaults /\ faults' = faults + 1

-----------------------------------------------------------------------------
(* db_writer_open *)

Start ==
    /\ opener = "off"
    /\ opener' = "version" /\ col' = 1
    /\ UNCHANGED <<fileVars, readVars, faults, crashes>>

(* Any statement of the open may fail; the start then fails and the process *)
(* ends, with what was done before left in the file.                        *)
OpenFails ==
    /\ opener \notin {"off", "ready"}
    /\ Fault
    /\ opener' = "off"
    /\ UNCHANGED <<col, fileVars, readVars, crashes>>

(* db_ensure_schema: a version that is not known is an error. *)
ReadVersion ==
    /\ opener = "version"
    /\ opener' = CASE version = 0 -> "pragmas0"
                   [] version = 1 -> "pragmas1"
                   [] version = 2 -> "prepare"
                   [] OTHER -> "off"
    /\ UNCHANGED <<col, fileVars, readVars, faults, crashes>>

(* The step of PRAGMA user_version fails: the version is taken for 0, and   *)
(* the open goes on with the migration of a file that has none.             *)
MisreadVersion ==
    /\ opener = "version"
    /\ Fault
    /\ opener' = "pragmas0"
    /\ UNCHANGED <<col, fileVars, readVars, crashes>>

Pragmas ==
    /\ opener \in {"pragmas0", "pragmas1"}
    /\ opener' = IF opener = "pragmas0" THEN "create" ELSE "ensure"
    /\ UNCHANGED <<col, fileVars, readVars, faults, crashes>>

(* mutant: the version is written along with the table *)
CreateTableMut ==
    /\ opener = "create"
    /\ cols' = IF cols = {} THEN AllCols ELSE cols
    /\ version' = 2
    /\ opener' = "ensure"
    /\ UNCHANGED <<col, times, readVars, faults, crashes>>

(* CREATE TABLE IF NOT EXISTS leaves a table alone that is there; the index *)
(* fails if one of its columns is missing.                                  *)
CreateTable ==
    /\ opener = "create"
    /\ cols' = IF cols = {} THEN AllCols ELSE cols
    /\ \/ opener' = "ensure"
       \/ opener' = "off" /\ Core \notin cols'
    /\ UNCHANGED <<col, version, times, readVars, faults, crashes>>

(* mutant: the column is added without asking whether it exists *)
EnsureColumnMut ==
    /\ opener = "ensure" /\ col \in Motors
    /\ cols' = cols \cup {col}
    /\ opener' = IF col \in cols THEN "off" ELSE "ensure"
    /\ col' = col + 1
    /\ UNCHANGED <<version, times, readVars, faults, crashes>>

(* ensure_column: ALTER TABLE ADD COLUMN, if the column does not exist. *)
EnsureColumn ==
    /\ opener = "ensure" /\ col \in Motors
    /\ cols' = cols \cup {col}
    /\ col' = col + 1
    /\ UNCHANGED <<opener, version, times, readVars, faults, crashes>>

ColumnsEnsured ==
    /\ opener = "ensure" /\ col \notin Motors
    /\ opener' = "stamp"
    /\ UNCHANGED <<col, fileVars, readVars, faults, crashes>>

Stamp ==
    /\ opener = "stamp"
    /\ version' = 2
    /\ opener' = "prepare"
    /\ UNCHANGED <<col, cols, times, readVars, faults, crashes>>

(* The INSERT can be prepared only if the table has every column of it. *)
Prepare ==
    /\ opener = "prepare"
    /\ opener' = IF cols = AllCols THEN "ready" ELSE "off"
    /\ UNCHANGED <<col, fileVars, readVars, faults, crashes>>

Crash ==
    /\ opener # "off" /\ crashes < MaxCrashes
    /\ crashes' = crashes + 1
    /\ opener' = "off" /\ col' = 1
    /\ snap' = 0 /\ query' = [c \in Clients |-> Idle]
    /\ UNCHANGED <<fileVars, faults>>

-----------------------------------------------------------------------------
(* The writer *)

(* The clock has nanoseconds: no two rows have the same time. *)
Insert ==
    /\ opener = "ready" /\ Len(times) < MaxRows
    /\ \E t \in 1..MaxTime \ Range(times) :
         /\ ClockBack \/ \A u \in Range(times) : u < t
         /\ times' = Append(times, t)
    /\ UNCHANGED <<version, cols, openVars, readVars, faults, crashes>>

-----------------------------------------------------------------------------
(* db_reader_history_last_json, in the threads of the clients *)

(* mutant: a limit that is too large is taken as it is *)
ClampMut(n) == IF n <= 0 THEN DefaultLimit ELSE n

Clamp(n) == IF n <= 0 THEN DefaultLimit ELSE IF n > LimitMax THEN LimitMax ELSE n

Request(c) ==
    /\ opener = "ready" /\ query[c].at \in {"idle", "replied", "failed"}
    /\ \E n \in 0..(LimitMax + 1) :
         query' = [query EXCEPT ![c] = [Idle EXCEPT !.at = "asked",
                                                    !.limit = Clamp(n),
                                                    !.asked = Len(times),
                                                    !.seen = query[c].seen]]
    /\ UNCHANGED <<fileVars, openVars, snap, faults, crashes>>

Reading == {c \in Clients : query[c].at = "reading"}

(* The statement cannot be prepared, or there is no memory for the head of  *)
(* the reply or for rows: an error is returned.                             *)
QueryFails(c) ==
    /\ query[c].at = "asked"
    /\ Fault
    /\ query' = [query EXCEPT ![c].at = "failed"]
    /\ UNCHANGED <<fileVars, openVars, snap, crashes>>

(* The first sqlite3_step of a query begins the read transaction of the     *)
(* connection, unless a query of another thread has it open: then this one  *)
(* reads the snapshot of that one.                                          *)
FirstStep(c) ==
    /\ query[c].at = "asked"
    /\ snap' = IF Reading = {} THEN Len(times) ELSE snap
    /\ query' = [query EXCEPT ![c].at = "reading", ![c].seen = snap']
    /\ UNCHANGED <<fileVars, openVars, faults, crashes>>

(* What ORDER BY received_at_ns DESC LIMIT has left to give. *)
Left(c) == IF Len(query[c].picked) = query[c].limit THEN {}
           ELSE 1..query[c].seen \ Range(query[c].picked)

(* mutant: rows come in the order of their insertion *)
NextRowMut(c) == CHOOSE r \in Left(c) : \A s \in Left(c) : s <= r

NextRow(c) == CHOOSE r \in Left(c) : \A s \in Left(c) : times[s] <= times[r]

PickRow(c) ==
    /\ query[c].at = "reading" /\ Left(c) # {} /\ ~query[c].short
    /\ query' = [query EXCEPT ![c].picked = Append(@, NextRow(c))]
    /\ UNCHANGED <<fileVars, openVars, snap, faults, crashes>>

(* sqlite3_step fails, or there is no memory for the row's text: the loop   *)
(* ends and the rows picked so far are what is written.                     *)
RowFails(c) ==
    /\ query[c].at = "reading" /\ Left(c) # {} /\ ~query[c].short
    /\ Fault
    /\ query' = [query EXCEPT ![c].short = TRUE]
    /\ UNCHANGED <<fileVars, openVars, snap, crashes>>

Finalize(c) ==
    /\ query[c].at = "reading" /\ (Left(c) = {} \/ query[c].short)
    /\ query' = [query EXCEPT ![c].at = "writing", ![c].left = Len(query[c].picked)]
    /\ UNCHANGED <<fileVars, openVars, snap, faults, crashes>>

(* What one turn of the loop adds to the text, and what is left of it when  *)
(* sb_append has no memory for the row, the comma or both.                  *)
Piece(q) == IF q.left = 1 THEN <<q.picked[1]>> ELSE <<q.picked[q.left], Comma>>
Pieces(q) == {<<>>} \cup (IF q.left = 1 THEN {} ELSE {<<q.picked[q.left]>>, <<Comma>>})

(* The rows are written in reverse.  What sb_append returns is not looked   *)
(* at: a failed one loses its part of the text, and the loop goes on.       *)
WriteRow(c) ==
    /\ query[c].at = "writing" /\ query[c].left > 0
    /\ query' = [query EXCEPT ![c].left = @ - 1, ![c].text = @ \o Piece(query[c])]
    /\ UNCHANGED <<fileVars, openVars, snap, faults, crashes>>

WriteFails(c) ==
    /\ query[c].at = "writing" /\ query[c].left > 0
    /\ Fault
    /\ \E part \in Pieces(query[c]) :
         query' = [query EXCEPT ![c].left = @ - 1, ![c].text = @ \o part,
                                ![c].lossy = TRUE]
    /\ UNCHANGED <<fileVars, openVars, snap, crashes>>

Reply(c) ==
    /\ query[c].at = "writing" /\ query[c].left = 0
    /\ query' = [query EXCEPT ![c].at = "replied"]
    /\ UNCHANGED <<fileVars, openVars, snap, faults, crashes>>

(* There is no memory for the end of the reply. *)
ReplyFails(c) ==
    /\ query[c].at = "writing" /\ query[c].left = 0
    /\ Fault
    /\ query' = [query EXCEPT ![c].at = "failed"]
    /\ UNCHANGED <<fileVars, openVars, snap, crashes>>

(* db_writer_open, the writer and a client thread go on by themselves. *)
OpenNext == \/ ReadVersion \/ Pragmas \/ CreateTable \/ EnsureColumn
            \/ ColumnsEnsured \/ Stamp \/ Prepare
QueryNext(c) == FirstStep(c) \/ PickRow(c) \/ Finalize(c) \/ WriteRow(c) \/ Reply(c)
QueryFault(c) == QueryFails(c) \/ RowFails(c) \/ WriteFails(c) \/ ReplyFails(c)

Next == \/ Start \/ OpenNext \/ OpenFails \/ MisreadVersion \/ Crash
        \/ Insert
        \/ \E c \in Clients : Request(c) \/ QueryNext(c) \/ QueryFault(c)

(* Only the thread that opens the file is owed its steps here: starts,      *)
(* samples, requests, faults and crashes come or do not.                    *)
Spec == Init /\ [][Next]_vars /\ WF_vars(OpenNext)

-----------------------------------------------------------------------------
(* Properties *)

(* A file that says it is of version 2 has the columns that the migration   *)
(* adds, wherever a crash or a failed statement has stopped it              *)
(* (user_version is written last).                                          *)
VersionHonest == version = 2 => Motors \subseteq cols

(* Whatever earlier attempts have left behind, an open that meets no more   *)
(* trouble succeeds, on any file that has the columns of CREATE TABLE or no *)
(* table (db_migrate_v2 and db_upgrade_v1_to_v2 can be run again).          *)
OpenSucceeds ==
    (/\ opener = "version" /\ version < 3 /\ (cols = {} \/ Core \in cols)
     /\ faults = MaxFaults /\ crashes = MaxCrashes)
        ~> opener = "ready"

(* A file of a later version, which an open refuses, keeps its version.     *)
(* This fails: when the step that reads the version fails, the file is      *)
(* migrated and stamped as one of version 2 (db_sqlite.c:221-233).          *)
LaterVersionKept == [][version = 3 => version' = 3]_vars

(* The reply is a list of objects: a comma between every two neighbours and *)
(* no other.                                                                *)
Separated(text) ==
    /\ \A i \in 1..(Len(text) - 1) : (text[i] = Comma) # (text[i + 1] = Comma)
    /\ text # <<>> => text[1] # Comma /\ text[Len(text)] # Comma

(* A reply has its rows in the order of their time, each once.  Unless      *)
(* memory was short while it was written, it is a proper list and leaves no *)
(* hole: a row of the snapshot that it lacks is older than all it has, and  *)
(* there is one only if the limit is reached or the reading was cut short.  *)
(* (If memory was short, it may lack rows anywhere, the newest ones too, or *)
(* a comma, and it is sent as a good one all the same.)                     *)
ReplyIsWindow == \A c \in Clients : query[c].at = "replied" =>
    LET q == query[c]
        rows == Range(q.text) \ {Comma}
        lacks == 1..q.seen \ rows
    IN /\ \A i, j \in DOMAIN q.text :
            i < j /\ q.text[i] # Comma /\ q.text[j] # Comma
                => times[q.text[i]] < times[q.text[j]]
       /\ ~q.lossy =>
            /\ Separated(q.text)
            /\ \A r \in lacks, s \in rows : times[r] < times[s]
            /\ lacks # {} => Len(q.picked) = q.limit \/ q.short

(* A history query reads all that was committed when it was asked for.      *)
(* This fails: while the queries of other client threads overlap, the one   *)
(* connection they share keeps the snapshot of the first of them.           *)
FreshReply == \A c \in Clients :
    query[c].at \in {"reading", "writing", "replied"} => query[c].asked <= query[c].seen

(* No client is ever answered from an older state of the database than it   *)
(* was before, although it may be older than its request.                   *)
NoOlderReply == [][\A c \in Clients :
    query[c].at = "asked" /\ query'[c].at = "reading"
        => query'[c].seen >= query[c].seen]_vars

=============================================================================
