------------------------------ MODULE AuditTrail ------------------------------
(***************************************************************************)
(* The two audit trails and the calls that write them: AuditService        *)
(* (src/src/dfat/services/audit_service.py), ForensicAuditLogger           *)
(* (infrastructure/logging/audit_logger.py), SQLAlchemyAuditRepository and *)
(* the services that write one trail only.                                 *)
(*                                                                         *)
(* The database trail is the table audit_logs, numbered by "largest number *)
(* plus one" read in a session of its own before the insert. The file      *)
(* trail is a text file of JSON lines, each with the hash of the one       *)
(* before; a writer holds a lock while it reads the whole file and appends *)
(* to it. Calls overlap at every await; the process may die, and a line it *)
(* was writing may then be cut short or lack its newline; the machine may  *)
(* fail, and lines after the last flush may then be lost.                  *)
(***************************************************************************)
EXTENDS Naturals, Sequences, FiniteSets, TLC

CONSTANTS
  Calls,        \* the log_action calls that are made
  Writes,       \* for each call: "both", "table" or "file"
  Genesis,      \* _GENESIS_HASH
  Digest(_, _), \* _compute_entry_hash(entry, previous_hash)
  MaxCrashes    \* bound on deaths of the process or machine

ASSUME AuditAssumption ==
  /\ Writes \in [Calls -> {"both", "table", "file"}]
  /\ MaxCrashes \in Nat

VARIABLES
  table,    \* audit_logs, in the order of insertion: call and entry number
  file,     \* the lines of the log file: call, number, previous and own hash
  tail,     \* how the file ends: "newline", "open" (a line without newline),
            \* or "torn" (a line that is not one JSON object)
  lost,     \* history: the calls whose lines went with a failed machine
  synced,   \* lines known to be on disk: the last flush
  call,     \* per call: where it is, its number, rows it saw when it read it
  crashes

vars == <<table, file, tail, lost, synced, call, crashes>>

Row  == [who : Calls, n : Nat]
Idle == [pc |-> "idle", n |-> 0, seen |-> 0]
PCs  == {"idle", "numbered", "inserted", "done", "failed", "dead"}

At(k, where)   == call[k].pc = where
Goto(k, where) == call' = [call EXCEPT ![k].pc = where]
Running(k)     == call[k].pc \in {"numbered", "inserted"}

NumbersIn(rows)  == {rows[i].n : i \in DOMAIN rows}
Latest(rows, n)  == n \in NumbersIn(rows) /\ \A m \in NumbersIn(rows) : m <= n

\* get_latest_entry_number() + 1.
BadNextEntryCounted(rows) == Len(rows) + 1
BadNextEntryFirst(rows) == IF rows = <<>> THEN 1 ELSE rows[1].n + 1
NextEntry(rows) ==
  IF rows = <<>> THEN 1 ELSE (CHOOSE n \in NumbersIn(rows) : Latest(rows, n)) + 1

\* _iter_records reads every line or raises.
Readable == tail # "torn"

\* _read_tail_state: number and hash of the last line.
BadTailNumber(lines) == Len(table) + 1
TailNumber(lines) == IF lines = <<>> THEN 1 ELSE lines[Len(lines)].n + 1
TailHash(lines)   == IF lines = <<>> THEN Genesis ELSE lines[Len(lines)].hash

NewLine(k) ==
  [who |-> k, n |-> TailNumber(file), prev |-> TailHash(file),
   hash |-> Digest(<<k, TailNumber(file)>>, TailHash(file))]

Init ==
  /\ table = <<>> /\ file = <<>> /\ tail = "newline" /\ lost = {} /\ synced = 0
  /\ call = [k \in Calls |-> Idle]
  /\ crashes = 0

-----------------------------------------------------------------------------
\* The call reads the largest number; the row is inserted after another await.
ReadNumber(k) ==
  /\ At(k, "idle") /\ Writes[k] # "file"
  /\ call' = [call EXCEPT ![k] = [pc |-> "numbered", n |-> NextEntry(table),
                                  seen |-> Len(table)]]
  /\ UNCHANGED <<table, file, tail, lost, synced, crashes>>

\* log_entry commits the row; its session is closed at one more await.
InsertRow(k) ==
  /\ At(k, "numbered")
  /\ table' = Append(table, [who |-> k, n |-> call[k].n])
  /\ Goto(k, IF Writes[k] = "both" THEN "inserted" ELSE "done")
  /\ UNCHANGED <<file, tail, lost, synced, crashes>>

AtFile(k) == At(k, "inserted") \/ (At(k, "idle") /\ Writes[k] = "file")

\* log_action of the file logger, under its lock. A line appended to one that
\* lacks its newline makes a text that is no longer one JSON object.
AppendLine(k) ==
  /\ AtFile(k) /\ Readable
  /\ file' = Append(file, NewLine(k))
  /\ tail' = IF tail = "open" THEN "torn" ELSE "newline"
  /\ Goto(k, "done")
  /\ UNCHANGED <<table, lost, synced, crashes>>

\* json.loads raises on a torn line: the line is not written, the row stays.
BadAppendRaises(k) ==
  /\ AtFile(k) /\ ~Readable
  /\ Goto(k, "done")
  /\ UNCHANGED <<table, file, tail, lost, synced, crashes>>
AppendRaises(k) ==
  /\ AtFile(k) /\ ~Readable
  /\ Goto(k, "failed")
  /\ UNCHANGED <<table, file, tail, lost, synced, crashes>>

\* A DatabaseError of the read or the insert, or an OSError of the file.
StoreFails(k) ==
  /\ Running(k) \/ At(k, "idle")
  /\ Goto(k, "failed")
  /\ UNCHANGED <<table, file, tail, lost, synced, crashes>>

\* AuditService.flush, at shutdown: fsync of the file.
BadFlush ==
  /\ synced' = Len(file) + 1
  /\ UNCHANGED <<table, file, tail, lost, call, crashes>>
Flush ==
  /\ synced' = Len(file)
  /\ UNCHANGED <<table, file, tail, lost, call, crashes>>

KillRunning == [k \in Calls |-> IF Running(k) THEN [call[k] EXCEPT !.pc = "dead"]
                                ELSE call[k]]

\* The process dies. A call at the file may have written part of its line, or
\* the line without its newline.
ProcessDies ==
  /\ crashes < MaxCrashes /\ crashes' = crashes + 1
  /\ \/ call' = KillRunning /\ UNCHANGED <<file, tail>>
     \/ \E k \in Calls :
          /\ AtFile(k) /\ Readable
          /\ call' = [KillRunning EXCEPT ![k].pc = "dead"]
          /\ \/ file' = file /\ tail' = "torn"
             \/ file' = Append(file, NewLine(k))
                /\ tail' = IF tail = "open" THEN "torn" ELSE "open"
  /\ UNCHANGED <<table, lost, synced>>

\* The machine fails: lines that were not flushed may be gone. What is left
\* is what is on disk.
BadSurvivors == 0..Len(file)
Survivors == synced..Len(file)
MachineFails ==
  /\ crashes < MaxCrashes /\ crashes' = crashes + 1
  /\ \E l \in Survivors :
       /\ file' = SubSeq(file, 1, l) /\ synced' = l
       /\ lost' = lost \cup {file[i].who : i \in (l + 1)..Len(file)}
       /\ tail' = IF l < Len(file) THEN "newline" ELSE tail
  /\ call' = KillRunning
  /\ UNCHANGED table

Next ==
  \/ \E k \in Calls :
       \/ ReadNumber(k) \/ InsertRow(k) \/ AppendLine(k)
       \/ AppendRaises(k) \/ StoreFails(k)
  \/ Flush \/ ProcessDies \/ MachineFails

Spec == Init /\ [][Next]_vars

-----------------------------------------------------------------------------
RowOf(k)  == {i \in DOMAIN table : table[i].who = k}
LineOf(k) == {i \in DOMAIN file : file[i].who = k}

\* Every variable has its type.
TypeOK ==
  /\ table \in Seq(Row)
  /\ \A i \in DOMAIN file : file[i].who \in Calls /\ file[i].n \in Nat
  /\ tail \in {"newline", "open", "torn"}
  /\ lost \subseteq Calls
  /\ synced \in 0..Len(file)
  /\ call \in [Calls -> [pc : PCs, n : Nat, seen : Nat]]
  /\ crashes \in 0..MaxCrashes

\* verify_audit_integrity, on a file whose lines can be read: numbers count
\* from one and every hash is that of the line and the hash before it.
VerifyFile(lines) ==
  \A i \in DOMAIN lines :
    LET before == IF i = 1 THEN Genesis ELSE lines[i - 1].hash IN
    /\ lines[i].n = i /\ lines[i].prev = before
    /\ lines[i].hash = Digest(<<lines[i].who, i>>, before)

-----------------------------------------------------------------------------
\* The file verifies after every interleaving, crash and lost suffix: the lines
\* that are there are numbered from one and chained (verify_audit_integrity
\* never rejects what log_action wrote; on a torn line it raises instead).
FileChained == VerifyFile(file)

\* The numbers of the table have no gap, whatever calls failed or died between
\* reading a number and using it.
NoGaps == \A n \in NumbersIn(table) : n > 0 /\ (n > 1 => n - 1 \in NumbersIn(table))

\* Two rows share a number only when their calls overlapped: the later one had
\* read its number before the earlier row was there.
RepeatsOverlap ==
  \A i, j \in DOMAIN table :
    i < j /\ table[i].n = table[j].n => call[table[j].who].seen < i

\* A dual write puts its row first, so no line of one is without its row; a call
\* that returned has both, unless the machine failed and took the line.
LinesHaveRows ==
  \A k \in Calls :
    /\ Cardinality(RowOf(k)) <= 1 /\ Cardinality(LineOf(k)) <= 1
    /\ Writes[k] = "both" /\ LineOf(k) # {} => RowOf(k) # {}
    /\ At(k, "done") =>
         /\ Writes[k] # "file" => RowOf(k) # {}
         /\ Writes[k] # "table" => (LineOf(k) # {} \/ k \in lost)

\* Lines that were flushed stay, in their order, through every crash.
FlushedStays ==
  [][\A i \in 1..synced : i \in DOMAIN file' /\ file'[i] = file[i]]_vars
==============================================================================
