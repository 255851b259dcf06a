--------------------------- MODULE AuditTrailProofs ---------------------------
(***************************************************************************)
(* What AuditTrail promises for any number of calls, items and crashes and *)
(* for any hash function; in the second half, about Reporting, what may be *)
(* said of reports and of the trail their stages leave.                    *)
(***************************************************************************)
EXTENDS AuditTrail, Integers, FiniteSetTheorems, TLAPS

\* The file is a sequence; of what, depends on the hash function.
FileIsSeq == \E S : file \in Seq(S)

\* The rows have a largest number, which a CHOOSE looks for.
HasLatest == table # <<>> => \E n \in NumbersIn(table) : Latest(table, n)

Typed ==
  /\ TypeOK
  /\ FileIsSeq
  /\ HasLatest

\* A new line has the type that every line has.
LEMMA NewLineTyped ==
  ASSUME NEW k \in Calls, Typed
  PROVE  /\ NewLine(k).who = k /\ NewLine(k).n \in Nat
         /\ NewLine(k).n = TailNumber(file) /\ NewLine(k).prev = TailHash(file)
         /\ NewLine(k).hash = Digest(<<k, TailNumber(file)>>, TailHash(file))
BY DEF NewLine, TailNumber, Typed, TypeOK, FileIsSeq

\* What is known of the file with one more line.
LEMMA AppendedLine ==
  ASSUME NEW k \in Calls, Typed, NEW f, f = Append(file, NewLine(k))
  PROVE  /\ \E S : f \in Seq(S)
         /\ Len(f) = Len(file) + 1 /\ DOMAIN f = 1..(Len(file) + 1)
         /\ \A i \in 1..Len(file) : f[i] = file[i]
         /\ f[Len(file) + 1] = NewLine(k)
<1>1. PICK S : file \in Seq(S)
  BY DEF Typed, FileIsSeq
<1>2. file \in Seq(S \cup {NewLine(k)}) /\ NewLine(k) \in S \cup {NewLine(k)}
  BY <1>1
<1>3. f \in Seq(S \cup {NewLine(k)})
  BY <1>2
<1> QED
  BY <1>2, <1>3

\* A prefix of the file.
LEMMA KeptLines ==
  ASSUME Typed, NEW l \in 0..Len(file), NEW f, f = SubSeq(file, 1, l)
  PROVE  /\ \E S : f \in Seq(S)
         /\ Len(f) = l /\ DOMAIN f = 1..l
         /\ \A i \in 1..l : f[i] = file[i]
<1>1. PICK S : file \in Seq(S)
  BY DEF Typed, FileIsSeq
<1>2. Len(file) \in Nat /\ f \in Seq(S) /\ Len(f) = l
  BY <1>1
<1> QED
  BY <1>1, <1>2

\* Rows have a caller and a number.
LEMMA RowTyped ==
  ASSUME Typed
  PROVE  /\ DOMAIN table = 1..Len(table) /\ Len(table) \in Nat
         /\ \A i \in DOMAIN table : table[i] \in Row /\ table[i].n \in Nat /\ table[i].who \in Calls
<1>1. table \in Seq(Row)
  BY DEF Typed, TypeOK
<1>2. DOMAIN table = 1..Len(table) /\ \A i \in 1..Len(table) : table[i] \in Row
  BY <1>1
<1>3. \A r \in Row : r.n \in Nat /\ r.who \in Calls
  BY DEF Row
<1> QED
  BY <1>1, <1>2, <1>3

\* The number a call gets is one more than a number that is there, and is
\* above every number that is there.
LEMMA NextEntryAbove ==
  ASSUME Typed
  PROVE  /\ NextEntry(table) \in Nat /\ NextEntry(table) > 0
         /\ \A i \in DOMAIN table : table[i].n < NextEntry(table)
         /\ NextEntry(table) > 1 => NextEntry(table) - 1 \in NumbersIn(table)
<1>0. table \in Seq(Row) /\ \A i \in DOMAIN table : table[i].n \in Nat
  BY RowTyped DEF Typed, TypeOK
<1>1. CASE table = <<>>
  BY <1>1 DEF NextEntry
<1>2. CASE table # <<>>
  <2> DEFINE top == CHOOSE n \in NumbersIn(table) : Latest(table, n)
  <2>1. top \in NumbersIn(table) /\ Latest(table, top)
    BY <1>2 DEF Typed, HasLatest
  <2>2. top \in Nat /\ NextEntry(table) = top + 1
    BY <1>0, <1>2, <2>1 DEF NextEntry, NumbersIn
  <2>3. \A i \in DOMAIN table : table[i].n <= top
    BY <2>1 DEF Latest, NumbersIn
  <2> HIDE DEF top
  <2>4. \A i \in DOMAIN table : table[i].n < NextEntry(table)
    BY <1>0, <2>2, <2>3
  <2>5. NextEntry(table) - 1 = top
    BY <2>2
  <2> QED
    BY <2>1, <2>2, <2>4, <2>5
<1> QED
  BY <1>1, <1>2

\* The table with one more row.
LEMMA AppendedRow ==
  ASSUME Typed, NEW k \in Calls, NEW t, t = Append(table, [who |-> k, n |-> call[k].n])
  PROVE  /\ t \in Seq(Row) /\ Len(table) \in Nat
         /\ Len(t) = Len(table) + 1
         /\ DOMAIN table = 1..Len(table) /\ DOMAIN t = 1..(Len(table) + 1)
         /\ \A i \in 1..Len(table) : t[i] = table[i] /\ t[i].n \in Nat
         /\ t[Len(table) + 1] = [who |-> k, n |-> call[k].n]
         /\ call[k].n \in Nat
         /\ NumbersIn(t) = NumbersIn(table) \cup {call[k].n}
<1>1. table \in Seq(Row) /\ call[k].n \in Nat /\ [who |-> k, n |-> call[k].n] \in Row
  BY DEF Typed, TypeOK, Row
<1>2. /\ t \in Seq(Row) /\ Len(t) = Len(table) + 1 /\ Len(table) \in Nat
      /\ \A i \in 1..Len(table) : t[i] = table[i]
      /\ t[Len(table) + 1] = [who |-> k, n |-> call[k].n]
  BY <1>1
<1>3. \A i \in 1..Len(table) : t[i].n \in Nat
  BY <1>2, RowTyped
<1>4. DOMAIN table = 1..Len(table) /\ DOMAIN t = 1..(Len(table) + 1)
  BY <1>1, <1>2
<1>5. NumbersIn(t) = NumbersIn(table) \cup {call[k].n}
  BY <1>2, <1>4 DEF NumbersIn
<1> QED
  BY <1>1, <1>2, <1>3, <1>4, <1>5

\* A new row keeps a largest number.
LEMMA LatestKept ==
  ASSUME Typed, NEW k \in Calls, table' = Append(table, [who |-> k, n |-> call[k].n])
  PROVE  HasLatest'
<1>0. /\ NumbersIn(table)' = NumbersIn(table) \cup {call[k].n}
      /\ call[k].n \in Nat /\ NumbersIn(table) \subseteq Nat
  <2>1. NumbersIn(table)' = NumbersIn(table')
    BY DEF NumbersIn
  <2> QED
    BY <2>1, AppendedRow, RowTyped DEF NumbersIn
<1>1. CASE table = <<>>
  <2>1. NumbersIn(table) = {}
    BY <1>1 DEF NumbersIn
  <2> QED
    BY <1>0, <2>1 DEF HasLatest, Latest
<1>2. CASE table # <<>>
  <2>1. PICK t \in NumbersIn(table) : \A m \in NumbersIn(table) : m <= t
    BY <1>2 DEF Typed, HasLatest, Latest
  <2>2. CASE call[k].n <= t
    BY <1>0, <2>1, <2>2 DEF HasLatest, Latest
  <2>3. CASE ~(call[k].n <= t)
    BY <1>0, <2>1, <2>3 DEF HasLatest, Latest
  <2> QED
    BY <2>2, <2>3
<1> QED
  BY <1>1, <1>2

\* A file with one more line, and a file cut short, are typed.
LEMMA GrownFileTyped ==
  ASSUME Typed, NEW k \in Calls, file' = Append(file, NewLine(k))
  PROVE  /\ FileIsSeq' /\ synced \in 0..Len(file')
         /\ \A i \in DOMAIN file' : file'[i].who \in Calls /\ file'[i].n \in Nat
<1>1. /\ \E S : file' \in Seq(S)
      /\ Len(file') = Len(file) + 1 /\ DOMAIN file' = 1..(Len(file) + 1)
      /\ \A i \in 1..Len(file) : file'[i] = file[i]
      /\ file'[Len(file) + 1] = NewLine(k)
  BY AppendedLine
<1>2. Len(file) \in Nat /\ DOMAIN file = 1..Len(file)
  BY DEF Typed, FileIsSeq
<1>3. NewLine(k).who \in Calls /\ NewLine(k).n \in Nat
  BY NewLineTyped
<1>4. \A i \in DOMAIN file : file[i].who \in Calls /\ file[i].n \in Nat
  BY DEF Typed, TypeOK
<1>5. synced \in 0..Len(file)
  BY DEF Typed, TypeOK
<1>6. FileIsSeq'
  BY <1>1 DEF FileIsSeq
<1> QED
  BY <1>1, <1>2, <1>3, <1>4, <1>5, <1>6

LEMMA CutFileTyped ==
  ASSUME Typed, NEW l \in 0..Len(file), file' = SubSeq(file, 1, l)
  PROVE  /\ FileIsSeq' /\ Len(file') = l
         /\ \A i \in DOMAIN file' : file'[i].who \in Calls /\ file'[i].n \in Nat
<1>1. /\ \E S : file' \in Seq(S)
      /\ Len(file') = l /\ DOMAIN file' = 1..l
      /\ \A i \in 1..l : file'[i] = file[i]
  BY KeptLines
<1>2. Len(file) \in Nat /\ DOMAIN file = 1..Len(file)
  BY DEF Typed, FileIsSeq
<1>3. \A i \in DOMAIN file : file[i].who \in Calls /\ file[i].n \in Nat
  BY DEF Typed, TypeOK
<1>4. FileIsSeq'
  BY <1>1 DEF FileIsSeq
<1> QED
  BY <1>1, <1>2, <1>3, <1>4

\* A step that leaves the table alone leaves its largest number.
LEMMA SameTable ==
  ASSUME Typed, table' = table
  PROVE  HasLatest' /\ table' \in Seq(Row)
BY DEF Typed, TypeOK, HasLatest, NumbersIn, Latest

-----------------------------------------------------------------------------
(* Types *)

\* Every variable has its type in every reachable state.
LEMMA TypedStep == Typed /\ [Next]_vars => Typed'
<1> SUFFICES ASSUME Typed, [Next]_vars PROVE Typed'
  OBVIOUS
<1> USE AuditAssumption DEF AuditAssumption
<1>0. table \in Seq(Row) /\ call \in [Calls -> [pc : PCs, n : Nat, seen : Nat]]
  BY DEF Typed, TypeOK
<1>1. ASSUME NEW k \in Calls, ReadNumber(k) PROVE Typed'
  <2>1. NextEntry(table) \in Nat /\ Len(table) \in Nat
    BY <1>0, NextEntryAbove
  <2> QED
    BY <1>1, <2>1 DEF ReadNumber, Typed, TypeOK, FileIsSeq, HasLatest, NumbersIn, Latest, PCs
<1>2. ASSUME NEW k \in Calls, InsertRow(k) PROVE Typed'
  <2>1. HasLatest' /\ table' \in Seq(Row)
    BY <1>2, LatestKept, AppendedRow DEF InsertRow
  <2> QED
    BY <1>2, <2>1 DEF InsertRow, Goto, Typed, TypeOK, FileIsSeq, PCs
<1>3. ASSUME NEW k \in Calls, AppendLine(k) PROVE Typed'
  <2>1. HasLatest' /\ table' \in Seq(Row)
    BY <1>3, SameTable DEF AppendLine
  <2>2. /\ FileIsSeq' /\ synced \in 0..Len(file')
        /\ \A i \in DOMAIN file' : file'[i].who \in Calls /\ file'[i].n \in Nat
    BY <1>3, GrownFileTyped DEF AppendLine
  <2>3. tail' \in {"newline", "open", "torn"}
    BY <1>3 DEF AppendLine
  <2>4. call' \in [Calls -> [pc : PCs, n : Nat, seen : Nat]]
    BY <1>0, <1>3 DEF AppendLine, Goto, PCs
  <2> QED
    BY <1>3, <2>1, <2>2, <2>3, <2>4 DEF AppendLine, Typed, TypeOK
<1>4. ASSUME NEW k \in Calls, AppendRaises(k) \/ StoreFails(k) PROVE Typed'
  <2>1. UNCHANGED <<table, file, tail, lost, synced, crashes>> /\ Goto(k, "failed")
    BY <1>4 DEF AppendRaises, StoreFails
  <2>2. HasLatest'
    BY <2>1, SameTable
  <2>3. call' \in [Calls -> [pc : PCs, n : Nat, seen : Nat]]
    BY <1>0, <2>1 DEF Goto, PCs
  <2> QED
    BY <2>1, <2>2, <2>3 DEF Typed, TypeOK, FileIsSeq
<1>5. CASE Flush
  <2>1. Len(file) \in Nat
    BY DEF Typed, FileIsSeq
  <2>2. HasLatest'
    BY <1>5, SameTable DEF Flush
  <2> QED
    BY <1>5, <2>1, <2>2 DEF Flush, Typed, TypeOK, FileIsSeq
<1>k. KillRunning \in [Calls -> [pc : PCs, n : Nat, seen : Nat]]
  BY <1>0 DEF KillRunning, PCs
<1>6. CASE ProcessDies
  <2>1. /\ UNCHANGED <<table, lost, synced>> /\ crashes' \in 0..MaxCrashes
        /\ HasLatest'
    BY <1>6, SameTable DEF ProcessDies, Typed, TypeOK
  <2>2. CASE call' = KillRunning /\ UNCHANGED <<file, tail>>
    BY <2>1, <2>2, <1>k DEF Typed, TypeOK, FileIsSeq
  <2>3. ASSUME NEW k \in Calls, call' = [KillRunning EXCEPT ![k].pc = "dead"],
               \/ file' = file /\ tail' = "torn"
               \/ /\ file' = Append(file, NewLine(k))
                  /\ tail' = IF tail = "open" THEN "torn" ELSE "open"
        PROVE  Typed'
    <3>1. call' \in [Calls -> [pc : PCs, n : Nat, seen : Nat]]
      BY <1>k, <2>3 DEF PCs
    <3>2. CASE file' = file
      BY <2>1, <2>3, <3>1, <3>2 DEF Typed, TypeOK, FileIsSeq
    <3>3. CASE file' = Append(file, NewLine(k))
      <4>1. /\ FileIsSeq' /\ synced \in 0..Len(file')
            /\ \A i \in DOMAIN file' : file'[i].who \in Calls /\ file'[i].n \in Nat
        BY <3>3, GrownFileTyped
      <4> QED
        BY <2>1, <2>3, <3>1, <4>1 DEF Typed, TypeOK
    <3> QED
      BY <2>3, <3>2, <3>3
  <2> QED
    BY <1>6, <2>2, <2>3 DEF ProcessDies
<1>7. CASE MachineFails
  <2>1. PICK l \in Survivors : /\ file' = SubSeq(file, 1, l) /\ synced' = l
                               /\ lost' = lost \cup {file[i].who : i \in (l + 1)..Len(file)}
                               /\ tail' = IF l < Len(file) THEN "newline" ELSE tail
    BY <1>7 DEF MachineFails
  <2>0. Len(file) \in Nat /\ DOMAIN file = 1..Len(file)
    BY DEF Typed, FileIsSeq
  <2>2. l \in 0..Len(file)
    BY <2>0, <2>1 DEF Survivors, Typed, TypeOK
  <2>3. /\ FileIsSeq' /\ Len(file') = l
        /\ \A i \in DOMAIN file' : file'[i].who \in Calls /\ file'[i].n \in Nat
    BY <2>1, <2>2, CutFileTyped
  <2>4. lost' \subseteq Calls
    <3>1. lost \subseteq Calls /\ \A i \in DOMAIN file : file[i].who \in Calls
      BY DEF Typed, TypeOK
    <3>2. \A i \in (l + 1)..Len(file) : i \in DOMAIN file
      BY <2>0, <2>2
    <3> QED
      BY <2>1, <3>1, <3>2
  <2>5. HasLatest'
    BY <1>7, SameTable DEF MachineFails
  <2> QED
    BY <1>7, <1>k, <2>1, <2>2, <2>3, <2>4, <2>5 DEF MachineFails, Typed, TypeOK
<1>8. CASE UNCHANGED vars
  BY <1>8 DEF vars, Typed, TypeOK, FileIsSeq, HasLatest, NumbersIn, Latest
<1> QED
  BY <1>1, <1>2, <1>3, <1>4, <1>5, <1>6, <1>7, <1>8 DEF Next

\* The initial state is typed.
LEMMA TypedInit == Init => Typed
BY AuditAssumption
DEF Init, Typed, TypeOK, FileIsSeq, HasLatest, Idle, PCs, AuditAssumption

\* TypeOK, with the file a sequence and a largest number in the table, is an
\* invariant of the specification (the state of audit_service.py and
\* audit_logger.py).
THEOREM TypedHolds == Spec => []Typed
BY TypedInit, TypedStep, PTL DEF Spec

\* Both trails and all calls keep their types, whatever overlaps, fails or dies.
THEOREM TypeCorrect == Spec => []TypeOK
<1>1. Typed => TypeOK
  BY DEF Typed
<1> QED
  BY <1>1, TypedHolds, PTL

-----------------------------------------------------------------------------
(* The file verifies *)

\* A line that is written links to the one before it.
LEMMA ChainGrows ==
  ASSUME Typed, FileChained, NEW k \in Calls, NEW f, f = Append(file, NewLine(k))
  PROVE  VerifyFile(f)
<1> DEFINE len == Len(file)
<1>1. /\ len \in Nat /\ DOMAIN f = 1..(len + 1)
      /\ \A i \in 1..len : f[i] = file[i]
      /\ f[len + 1] = NewLine(k)
      /\ DOMAIN file = 1..len
  BY AppendedLine DEF Typed, FileIsSeq
<1>2. /\ NewLine(k).who = k /\ NewLine(k).n = TailNumber(file)
      /\ NewLine(k).prev = TailHash(file)
      /\ NewLine(k).hash = Digest(<<k, TailNumber(file)>>, TailHash(file))
  BY NewLineTyped
<1>3. TailNumber(file) = len + 1
  <2>1. CASE file = <<>>
    BY <2>1 DEF TailNumber
  <2>2. CASE file # <<>>
    <3>1. len \in DOMAIN file
      BY <2>2 DEF Typed, FileIsSeq
    <3> QED
      BY <2>2, <3>1 DEF TailNumber, FileChained, VerifyFile
  <2> QED
    BY <2>1, <2>2
<1>4. TailHash(file) = IF len + 1 = 1 THEN Genesis ELSE f[len + 1 - 1].hash
  <2>1. CASE file = <<>>
    BY <2>1 DEF TailHash
  <2>2. CASE file # <<>>
    <3>1. len \in 1..len /\ len + 1 - 1 = len /\ len + 1 # 1
      BY <2>2 DEF Typed, FileIsSeq
    <3> QED
      BY <1>1, <2>2, <3>1 DEF TailHash
  <2> QED
    BY <2>1, <2>2
<1> SUFFICES ASSUME NEW i \in 1..(len + 1)
    PROVE  LET before == IF i = 1 THEN Genesis ELSE f[i - 1].hash IN
           /\ f[i].n = i /\ f[i].prev = before
           /\ f[i].hash = Digest(<<f[i].who, i>>, before)
  BY <1>1 DEF VerifyFile
<1>5. CASE i = len + 1
  <2>1. f[i] = NewLine(k) /\ TailNumber(file) = i /\ f[i].who = k
    BY <1>1, <1>2, <1>3, <1>5
  <2>2. TailHash(file) = IF i = 1 THEN Genesis ELSE f[i - 1].hash
    BY <1>4, <1>5
  <2>3. f[i].n = i /\ f[i].prev = TailHash(file)
        /\ f[i].hash = Digest(<<f[i].who, i>>, TailHash(file))
    BY <1>2, <2>1
  <2> QED
    BY <2>2, <2>3
<1>6. CASE i \in 1..len
  <2>1. f[i] = file[i] /\ (i # 1 => i - 1 \in 1..len)
    BY <1>1, <1>6
  <2>2. i # 1 => f[i - 1] = file[i - 1]
    BY <1>1, <2>1
  <2> QED
    BY <1>1, <1>6, <2>1, <2>2 DEF FileChained, VerifyFile
<1> QED
  BY <1>1, <1>5, <1>6

\* A prefix of a chain is a chain.
LEMMA ChainCut ==
  ASSUME Typed, FileChained, NEW l \in 0..Len(file), NEW f, f = SubSeq(file, 1, l)
  PROVE  VerifyFile(f)
<1>1. /\ DOMAIN f = 1..l /\ \A i \in 1..l : f[i] = file[i]
      /\ Len(file) \in Nat /\ DOMAIN file = 1..Len(file)
  BY KeptLines DEF Typed, FileIsSeq
<1> SUFFICES ASSUME NEW i \in 1..l
    PROVE  LET before == IF i = 1 THEN Genesis ELSE f[i - 1].hash IN
           /\ f[i].n = i /\ f[i].prev = before
           /\ f[i].hash = Digest(<<f[i].who, i>>, before)
  BY <1>1 DEF VerifyFile
<1>2. i \in DOMAIN file /\ (i # 1 => i - 1 \in 1..l)
  BY <1>1
<1>3. f[i] = file[i] /\ (i # 1 => f[i - 1] = file[i - 1])
  BY <1>1, <1>2
<1> QED
  BY <1>2, <1>3 DEF FileChained, VerifyFile

\* For every hash function, the file that log_action writes passes
\* verify_audit_integrity after every interleaving, crash and lost suffix.
THEOREM ChainHolds == Spec => []FileChained
<1>1. Init => FileChained
  BY DEF Init, FileChained, VerifyFile
<1>2. Typed /\ FileChained /\ [Next]_vars => FileChained'
  <2> SUFFICES ASSUME Typed, FileChained, [Next]_vars PROVE FileChained'
    OBVIOUS
  <2>0. CASE file' = file
    BY <2>0 DEF FileChained, VerifyFile
  <2>1. ASSUME NEW k \in Calls, file' = Append(file, NewLine(k)) PROVE FileChained'
    BY <2>1, ChainGrows DEF FileChained, VerifyFile
  <2>2. ASSUME NEW l \in Survivors, file' = SubSeq(file, 1, l) PROVE FileChained'
    <3>1. l \in 0..Len(file)
      BY DEF Survivors, Typed, TypeOK, FileIsSeq
    <3>2. VerifyFile(SubSeq(file, 1, l))
      BY <3>1, ChainCut
    <3>3. VerifyFile(file')
      BY <2>2, <3>2
    <3> QED
      BY <3>3 DEF FileChained, VerifyFile
  <2> QED
    BY <2>0, <2>1, <2>2
    DEF Next, vars, ReadNumber, InsertRow, AppendLine, AppendRaises, StoreFails, Flush,
        ProcessDies, MachineFails
<1> QED
  BY <1>1, <1>2, TypedHolds, PTL DEF Spec

\* Lines that were flushed stay where they are.
THEOREM FlushedLinesStay == Spec => FlushedStays
<1>1. Typed /\ [Next]_vars =>
        [\A i \in 1..synced : i \in DOMAIN file' /\ file'[i] = file[i]]_vars
  <2> SUFFICES ASSUME Typed, Next
      PROVE  \A i \in 1..synced : i \in DOMAIN file' /\ file'[i] = file[i]
    OBVIOUS
  <2>0. Len(file) \in Nat /\ DOMAIN file = 1..Len(file) /\ synced \in 0..Len(file)
    BY DEF Typed, TypeOK, FileIsSeq
  <2>1. CASE file' = file
    BY <2>0, <2>1
  <2>2. ASSUME NEW k \in Calls, file' = Append(file, NewLine(k))
        PROVE  \A i \in 1..synced : i \in DOMAIN file' /\ file'[i] = file[i]
    BY <2>0, <2>2, AppendedLine
  <2>3. ASSUME NEW l \in Survivors, file' = SubSeq(file, 1, l)
        PROVE  \A i \in 1..synced : i \in DOMAIN file' /\ file'[i] = file[i]
    <3>1. l \in synced..Len(file) /\ l \in 0..Len(file)
      BY <2>0 DEF Survivors
    <3> QED
      BY <2>0, <2>3, <3>1, KeptLines
  <2> QED
    BY <2>1, <2>2, <2>3
    DEF Next, vars, ReadNumber, InsertRow, AppendLine, AppendRaises, StoreFails, Flush,
        ProcessDies, MachineFails
<1> QED
  BY <1>1, TypedHolds, PTL DEF Spec, FlushedStays

-----------------------------------------------------------------------------
(* The numbers of the table *)

\* Every number but 1 has its predecessor, and a call's number was above every
\* row that the call had seen.
Positive == \A i \in DOMAIN table : table[i].n > 0

NumberedRight(k) ==
  /\ call[k].n > 0
  /\ call[k].n > 1 => call[k].n - 1 \in NumbersIn(table)
  /\ call[k].seen <= Len(table)
  /\ \A i \in 1..call[k].seen : table[i].n < call[k].n

RowRight(j) ==
  LET c == call[table[j].who] IN
  /\ c.pc \notin {"idle", "numbered"}
  /\ c.n = table[j].n /\ c.seen < j
  /\ \A i \in 1..c.seen : table[i].n < table[j].n

NumberInv ==
  /\ Positive /\ NoGaps
  /\ \A k \in Calls : At(k, "numbered") => NumberedRight(k)
  /\ \A j \in DOMAIN table : RowRight(j)

\* A step that only moves calls on keeps the numbers.
LEMMA NumbersKept ==
  ASSUME Typed, NumberInv, table' = table,
         \A k \in Calls : At(k, "numbered")' => At(k, "numbered") /\ call'[k] = call[k],
         \A k \in Calls : /\ call'[k].n = call[k].n /\ call'[k].seen = call[k].seen
                          /\ call[k].pc \notin {"idle", "numbered"} =>
                               call'[k].pc \notin {"idle", "numbered"}
  PROVE  NumberInv'
<1>1. Positive' /\ NoGaps'
  BY DEF NumberInv, Positive, NoGaps, NumbersIn
<1>2. ASSUME NEW k \in Calls, At(k, "numbered")' PROVE NumberedRight(k)'
  BY <1>2 DEF NumberInv, NumberedRight, NumbersIn
<1>3. ASSUME NEW j \in DOMAIN table PROVE RowRight(j)'
  <2>1. table[j].who \in Calls
    BY RowTyped
  <2> QED
    BY <2>1 DEF NumberInv, RowRight
<1> QED
  BY <1>1, <1>2, <1>3 DEF NumberInv

LEMMA NumberStep == Typed /\ NumberInv /\ [Next]_vars => NumberInv'
<1> SUFFICES ASSUME Typed, NumberInv, [Next]_vars PROVE NumberInv'
  OBVIOUS
<1>0. call \in [Calls -> [pc : PCs, n : Nat, seen : Nat]]
  BY DEF Typed, TypeOK
<1>1. ASSUME NEW k \in Calls, ReadNumber(k) PROVE NumberInv'
  <2>1. table' = table /\ call' = [call EXCEPT ![k] =
          [pc |-> "numbered", n |-> NextEntry(table), seen |-> Len(table)]]
        /\ call[k].pc = "idle"
    BY <1>1 DEF ReadNumber, At
  <2>2. NumberedRight(k)'
    BY <1>0, <2>1, NextEntryAbove, RowTyped DEF NumberedRight, NumbersIn
  <2>3. ASSUME NEW x \in Calls, x # k, At(x, "numbered")' PROVE NumberedRight(x)'
    <3>1. call'[x] = call[x] /\ At(x, "numbered")
      BY <1>0, <2>1, <2>3 DEF At
    <3> QED
      BY <2>1, <3>1 DEF NumberInv, NumberedRight, NumbersIn
  <2>4. ASSUME NEW j \in DOMAIN table PROVE RowRight(j)'
    <3>1. table[j].who \in Calls /\ table[j].who # k
      BY <2>1, RowTyped DEF NumberInv, RowRight
    <3>2. call'[table[j].who] = call[table[j].who]
      BY <1>0, <2>1, <3>1
    <3> QED
      BY <2>1, <3>2 DEF NumberInv, RowRight
  <2>5. Positive' /\ NoGaps'
    BY <2>1 DEF NumberInv, Positive, NoGaps, NumbersIn
  <2> QED
    BY <2>1, <2>2, <2>3, <2>4, <2>5 DEF NumberInv
<1>2. ASSUME NEW k \in Calls, InsertRow(k) PROVE NumberInv'
  <2> DEFINE len == Len(table)
             row == [who |-> k, n |-> call[k].n]
  <2>1. table' = Append(table, row) /\ call[k].pc = "numbered" /\ NumberedRight(k)
    BY <1>2 DEF InsertRow, At, NumberInv
  <2>2. /\ len \in Nat /\ DOMAIN table = 1..len /\ DOMAIN table' = 1..(len + 1)
        /\ Len(table') = len + 1
        /\ \A i \in 1..len : table'[i] = table[i]
        /\ table'[len + 1] = row
        /\ NumbersIn(table') = NumbersIn(table) \cup {call[k].n}
    BY <2>1, AppendedRow
  <2>3. /\ call'[k].n = call[k].n /\ call'[k].seen = call[k].seen
        /\ call'[k].pc \in {"inserted", "done"}
        /\ \A x \in Calls : x # k => call'[x] = call[x]
    BY <1>0, <1>2 DEF InsertRow, Goto
  <2>4. Positive'
    BY <2>1, <2>2 DEF NumberInv, Positive, NumberedRight
  <2>5. NoGaps'
    <3>1. NumbersIn(table)' = NumbersIn(table')
      BY DEF NumbersIn
    <3> QED
      BY <2>1, <2>2, <3>1 DEF NumberInv, NoGaps, NumberedRight
  <2>6. ASSUME NEW x \in Calls, At(x, "numbered")' PROVE NumberedRight(x)'
    <3>1. x # k /\ call'[x] = call[x] /\ NumberedRight(x)
      BY <2>3, <2>6 DEF At, NumberInv
    <3>2. call[x].seen \in Nat /\ \A i \in 1..call[x].seen : i \in 1..len
      BY <1>0, <2>2, <3>1 DEF NumberedRight
    <3>3. NumbersIn(table)' = NumbersIn(table')
      BY DEF NumbersIn
    <3> QED
      BY <2>2, <3>1, <3>2, <3>3 DEF NumberedRight
  <2>7. ASSUME NEW j \in 1..len PROVE RowRight(j)'
    <3>1. RowRight(j) /\ table[j].who \in Calls /\ table[j].who # k /\ table'[j] = table[j]
      BY <2>1, <2>2, RowTyped DEF NumberInv, RowRight
    <3>2. call'[table[j].who] = call[table[j].who] /\ call[table[j].who].seen \in Nat
      BY <1>0, <2>3, <3>1
    <3>3. \A i \in 1..call[table[j].who].seen : i \in 1..len
      BY <2>2, <3>1, <3>2 DEF RowRight
    <3> QED
      BY <2>2, <3>1, <3>2, <3>3 DEF RowRight
  <2>8. ASSUME NEW j \in Nat, j = len + 1 PROVE RowRight(j)'
    <3>0. table'[j].who = k /\ table'[j].n = call[k].n
      BY <2>2, <2>8
    <3>1. call[k].seen \in Nat /\ call[k].seen < len + 1
      BY <1>0, <2>1, <2>2 DEF NumberedRight
    <3>2. \A i \in 1..call[k].seen : i \in 1..len /\ table[i].n < call[k].n
      BY <2>1, <2>2, <3>1 DEF NumberedRight
    <3> QED
      BY <2>2, <2>3, <2>8, <3>0, <3>1, <3>2 DEF RowRight
  <2>9. ASSUME NEW j \in DOMAIN table' PROVE RowRight(j)'
    <3>1. j \in Nat /\ (j \in 1..len \/ j = len + 1)
      BY <2>2
    <3> QED
      BY <2>7, <2>8, <3>1
  <2> QED
    BY <2>4, <2>5, <2>6, <2>9 DEF NumberInv
<1>3. ASSUME NEW k \in Calls, NEW where \in {"done", "failed"}, Goto(k, where), table' = table
      PROVE  NumberInv'
  BY <1>0, <1>3, NumbersKept DEF Goto, At
<1>4. CASE call' = KillRunning /\ table' = table
  BY <1>0, <1>4, NumbersKept DEF KillRunning, At, Running
<1>5. ASSUME NEW k \in Calls, call' = [KillRunning EXCEPT ![k].pc = "dead"], table' = table
      PROVE  NumberInv'
  BY <1>0, <1>5, NumbersKept DEF KillRunning, At, Running
<1>6. CASE UNCHANGED <<table, call>>
  BY <1>6, NumbersKept DEF At
<1> QED
  BY <1>1, <1>2, <1>3, <1>4, <1>5, <1>6
  DEF Next, vars, AppendLine, AppendRaises, StoreFails, Flush, ProcessDies, MachineFails

\* The table's numbers have no gap, however calls overlap, fail or die.
THEOREM GapFree == Spec => []NoGaps
<1>1. Init => NumberInv
  BY DEF Init, NumberInv, Positive, NoGaps, NumbersIn, At, Idle
<1>2. NumberInv => NoGaps
  BY DEF NumberInv
<1> QED
  BY <1>1, <1>2, NumberStep, TypedHolds, PTL DEF Spec

\* A number is given twice only to calls that overlapped.
THEOREM RepeatedNumbersOverlap == Spec => []RepeatsOverlap
<1>1. Init => NumberInv
  BY DEF Init, NumberInv, Positive, NoGaps, NumbersIn, At, Idle
<1>2. Typed /\ NumberInv => RepeatsOverlap
  <2> SUFFICES ASSUME Typed, NumberInv, NEW i \in DOMAIN table, NEW j \in DOMAIN table,
                      i < j, table[i].n = table[j].n
               PROVE  call[table[j].who].seen < i
    BY DEF RepeatsOverlap
  <2>1. RowRight(j) /\ table[j].who \in Calls /\ i \in Nat /\ i > 0 /\ table[j].n \in Nat
    BY RowTyped DEF NumberInv
  <2>2. call[table[j].who].seen \in Nat
    BY <2>1 DEF Typed, TypeOK
  <2>3. ~(i \in 1..call[table[j].who].seen)
    BY <2>1 DEF RowRight
  <2> QED
    BY <2>1, <2>2, <2>3
<1> QED
  BY <1>1, <1>2, NumberStep, TypedHolds, PTL DEF Spec

-----------------------------------------------------------------------------
(* Rows and lines of one call *)

\* What the row and the line of a call say of where the call is: a row comes
\* with the step to the file, a line with the end of the call.
AtMostOne(S) == \A i, j \in S : i = j

DualRight(k) ==
  /\ AtMostOne(RowOf(k)) /\ AtMostOne(LineOf(k))
  /\ RowOf(k) # {} => ~At(k, "idle") /\ ~At(k, "numbered")
  /\ LineOf(k) # {} => At(k, "done") \/ At(k, "dead")
  /\ At(k, "numbered") => Writes[k] # "file"
  /\ At(k, "inserted") => Writes[k] = "both" /\ RowOf(k) # {}
  /\ Writes[k] = "both" /\ LineOf(k) # {} => RowOf(k) # {}
  /\ At(k, "done") =>
       /\ Writes[k] # "file" => RowOf(k) # {}
       /\ Writes[k] # "table" => (LineOf(k) # {} \/ k \in lost)

DualInv == \A k \in Calls : DualRight(k)

\* A set of at most one position has at most one element.
LEMMA OneIsOne ==
  ASSUME NEW S, AtMostOne(S)
  PROVE  Cardinality(S) <= 1
<1>1. CASE S = {}
  BY <1>1, FS_EmptySet
<1>2. CASE S # {}
  <2>1. PICK x : x \in S
    BY <1>2
  <2>2. S = {x}
    BY <2>1 DEF AtMostOne
  <2>3. Cardinality({x}) = 1
    BY FS_Singleton
  <2>4. Cardinality(S) = 1
    BY <2>2, <2>3
  <2> QED
    BY <2>4
<1> QED
  BY <1>1, <1>2

\* The rows and lines of each call after one is added or a suffix is lost.
LEMMA RowsGrown ==
  ASSUME Typed, NEW k \in Calls, table' = Append(table, [who |-> k, n |-> call[k].n])
  PROVE  /\ RowOf(k)' = RowOf(k) \cup {Len(table) + 1}
         /\ \A x \in Calls : x # k => RowOf(x)' = RowOf(x)
<1> DEFINE len == Len(table)
<1>1. /\ len \in Nat /\ DOMAIN table = 1..len /\ DOMAIN table' = 1..(len + 1)
      /\ \A i \in 1..len : table'[i] = table[i]
      /\ table'[len + 1] = [who |-> k, n |-> call[k].n]
  BY AppendedRow
<1>2. table'[len + 1].who = k
  BY <1>1
<1>3. 1..(len + 1) = (1..len) \cup {len + 1}
  BY <1>1
<1> HIDE DEF len
<1> QED
  BY <1>1, <1>2, <1>3 DEF RowOf, len

LEMMA LinesGrown ==
  ASSUME Typed, NEW k \in Calls, file' = Append(file, NewLine(k))
  PROVE  /\ LineOf(k)' = LineOf(k) \cup {Len(file) + 1}
         /\ \A x \in Calls : x # k => LineOf(x)' = LineOf(x)
<1> DEFINE len == Len(file)
<1>1. /\ DOMAIN file' = 1..(len + 1)
      /\ \A i \in 1..len : file'[i] = file[i]
      /\ file'[len + 1] = NewLine(k)
  BY AppendedLine
<1>2. len \in Nat /\ DOMAIN file = 1..len
  BY DEF Typed, FileIsSeq
<1>3. file'[len + 1].who = k
  BY <1>1, NewLineTyped
<1>4. 1..(len + 1) = (1..len) \cup {len + 1}
  BY <1>2
<1> HIDE DEF len
<1> QED
  BY <1>1, <1>2, <1>3, <1>4 DEF LineOf, len

LEMMA LinesCut ==
  ASSUME Typed, NEW l \in 0..Len(file), file' = SubSeq(file, 1, l)
  PROVE  \A x \in Calls :
           /\ LineOf(x)' \subseteq LineOf(x)
           /\ \A i \in LineOf(x) : i \in LineOf(x)' \/ i \in (l + 1)..Len(file)
<1>1. DOMAIN file' = 1..l /\ \A i \in 1..l : file'[i] = file[i]
  BY KeptLines
<1>2. Len(file) \in Nat /\ DOMAIN file = 1..Len(file)
  BY DEF Typed, FileIsSeq
<1> QED
  BY <1>1, <1>2 DEF LineOf

\* A call whose rows and lines stay keeps its part if it stays or stops.
LEMMA DualKept ==
  ASSUME Typed, NEW x \in Calls, DualRight(x),
         RowOf(x)' = RowOf(x), LineOf(x)' = LineOf(x), lost \subseteq lost',
         call'[x].pc = call[x].pc \/ (call'[x].pc = "dead" /\ call[x].pc # "done")
           \/ (call'[x].pc = "failed" /\ call[x].pc \notin {"done", "dead"})
  PROVE  DualRight(x)'
BY DEF DualRight, At, AtMostOne

LEMMA DualStep == Typed /\ DualInv /\ [Next]_vars => DualInv'
<1> SUFFICES ASSUME Typed, DualInv, [Next]_vars PROVE DualInv'
  OBVIOUS
<1>0. call \in [Calls -> [pc : PCs, n : Nat, seen : Nat]] /\ Writes \in [Calls -> {"both", "table", "file"}]
  BY AuditAssumption DEF Typed, TypeOK, AuditAssumption
<1>r. ASSUME table' = table, NEW x \in Calls PROVE RowOf(x)' = RowOf(x)
  BY <1>r DEF RowOf
<1>l. ASSUME file' = file, NEW x \in Calls PROVE LineOf(x)' = LineOf(x)
  BY <1>l DEF LineOf
<1>1. ASSUME NEW k \in Calls, ReadNumber(k) PROVE DualInv'
  <2>1. /\ table' = table /\ file' = file /\ lost' = lost
        /\ call[k].pc = "idle" /\ call'[k].pc = "numbered" /\ Writes[k] # "file"
        /\ \A x \in Calls : x # k => call'[x] = call[x]
    BY <1>0, <1>1 DEF ReadNumber, At
  <2>2. DualRight(k)'
    BY <1>r, <1>l, <2>1 DEF DualInv, DualRight, At, AtMostOne
  <2>3. ASSUME NEW x \in Calls, x # k PROVE DualRight(x)'
    BY <1>r, <1>l, <2>1, <2>3, DualKept DEF DualInv
  <2> QED
    BY <2>2, <2>3 DEF DualInv
<1>2. ASSUME NEW k \in Calls, InsertRow(k) PROVE DualInv'
  <2>1. /\ table' = Append(table, [who |-> k, n |-> call[k].n])
        /\ file' = file /\ lost' = lost /\ call[k].pc = "numbered"
        /\ call'[k].pc = IF Writes[k] = "both" THEN "inserted" ELSE "done"
        /\ \A x \in Calls : x # k => call'[x] = call[x]
    BY <1>0, <1>2 DEF InsertRow, At, Goto
  <2>2. /\ RowOf(k)' = RowOf(k) \cup {Len(table) + 1}
        /\ \A x \in Calls : x # k => RowOf(x)' = RowOf(x)
    BY <2>1, RowsGrown
  <2>3. DualRight(k)'
    <3>1. RowOf(k) = {} /\ LineOf(k) = {} /\ Writes[k] \in {"both", "table"}
      BY <1>0, <2>1 DEF DualInv, DualRight, At
    <3>2. RowOf(k)' = {Len(table) + 1} /\ LineOf(k)' = {}
      BY <1>l, <2>1, <2>2, <3>1
    <3> QED
      BY <2>1, <3>1, <3>2 DEF DualRight, At, AtMostOne
  <2>4. ASSUME NEW x \in Calls, x # k PROVE DualRight(x)'
    BY <1>l, <2>1, <2>2, <2>4, DualKept DEF DualInv
  <2> QED
    BY <2>3, <2>4 DEF DualInv
<1>3. ASSUME NEW k \in Calls, AtFile(k), table' = table, lost' = lost,
             file' = Append(file, NewLine(k)), call'[k].pc \in {"done", "dead"},
             \A x \in Calls : x # k => call'[x] = call[x] \/ call'[x] = KillRunning[x]
      PROVE  DualInv'
  <2>1. /\ LineOf(k)' = LineOf(k) \cup {Len(file) + 1}
        /\ \A x \in Calls : x # k => LineOf(x)' = LineOf(x)
    BY <1>3, LinesGrown
  <2>2. DualRight(k)'
    <3>1. /\ LineOf(k) = {} /\ AtMostOne(RowOf(k))
          /\ Writes[k] = "file" \/ (Writes[k] = "both" /\ RowOf(k) # {})
      BY <1>3 DEF DualInv, DualRight, At, AtFile
    <3>2. LineOf(k)' = {Len(file) + 1} /\ RowOf(k)' = RowOf(k)
      BY <1>3, <1>r, <2>1, <3>1
    <3> QED
      BY <1>3, <3>1, <3>2 DEF DualRight, At, AtMostOne
  <2>3. ASSUME NEW x \in Calls, x # k PROVE DualRight(x)'
    <3>1. call'[x].pc = call[x].pc \/ (call'[x].pc = "dead" /\ call[x].pc # "done")
      BY <1>0, <1>3, <2>3 DEF KillRunning, Running
    <3> QED
      BY <1>3, <1>r, <2>1, <2>3, <3>1, DualKept DEF DualInv
  <2> QED
    BY <2>2, <2>3 DEF DualInv
<1>4. ASSUME table' = table, file' = file, lost' = lost,
             \A x \in Calls :
               \/ call'[x] = call[x] \/ call'[x] = KillRunning[x]
               \/ call'[x].pc = "failed" /\ call[x].pc \notin {"done", "dead"}
               \/ call'[x].pc = "dead" /\ call[x].pc # "done"
      PROVE  DualInv'
  <2> SUFFICES ASSUME NEW x \in Calls PROVE DualRight(x)'
    BY DEF DualInv
  <2>1. \/ call'[x].pc = call[x].pc
        \/ call'[x].pc = "dead" /\ call[x].pc # "done"
        \/ call'[x].pc = "failed" /\ call[x].pc \notin {"done", "dead"}
    BY <1>0, <1>4 DEF KillRunning, Running
  <2> QED
    BY <1>4, <1>r, <1>l, <2>1, DualKept DEF DualInv
<1>5. CASE MachineFails
  <2>1. PICK l \in Survivors : /\ file' = SubSeq(file, 1, l)
                               /\ lost' = lost \cup {file[i].who : i \in (l + 1)..Len(file)}
    BY <1>5 DEF MachineFails
  <2>2. l \in 0..Len(file)
    BY DEF Survivors, Typed, TypeOK, FileIsSeq
  <2> SUFFICES ASSUME NEW x \in Calls PROVE DualRight(x)'
    BY DEF DualInv
  <2>3. /\ LineOf(x)' \subseteq LineOf(x)
        /\ \A i \in LineOf(x) : i \in LineOf(x)' \/ i \in (l + 1)..Len(file)
    BY <2>1, <2>2, LinesCut
  <2>4. LineOf(x) # {} => LineOf(x)' # {} \/ x \in lost'
    BY <2>1, <2>3 DEF LineOf
  <2>5. table' = table /\ lost \subseteq lost' /\ call' = KillRunning
    BY <1>5, <2>1 DEF MachineFails
  <2>6. call'[x].pc = call[x].pc \/ (call'[x].pc = "dead" /\ Running(x))
    BY <1>0, <2>5 DEF KillRunning
  <2>7. RowOf(x)' = RowOf(x) /\ DualRight(x)
    BY <1>r, <2>5 DEF DualInv
  <2>8. AtMostOne(LineOf(x))'
    BY <2>3, <2>7 DEF DualRight, AtMostOne
  <2> QED
    BY <2>3, <2>4, <2>5, <2>6, <2>7, <2>8 DEF DualRight, At, AtMostOne, Running
<1>6. ASSUME NEW k \in Calls, AppendLine(k) PROVE DualInv'
  <2>1. call'[k].pc = "done" /\ \A x \in Calls : x # k => call'[x] = call[x]
    BY <1>0, <1>6 DEF AppendLine, Goto
  <2> QED
    BY <1>3, <1>6, <2>1 DEF AppendLine
<1>7. ASSUME NEW k \in Calls, AppendRaises(k) \/ StoreFails(k) PROVE DualInv'
  <2>1. /\ table' = table /\ file' = file /\ lost' = lost
        /\ call'[k].pc = "failed" /\ call[k].pc \notin {"done", "dead"}
        /\ \A x \in Calls : x # k => call'[x] = call[x]
    BY <1>0, <1>7 DEF AppendRaises, StoreFails, Goto, Running, At, AtFile
  <2> QED
    BY <1>4, <2>1
<1>8. CASE ProcessDies
  <2>1. CASE call' = KillRunning /\ UNCHANGED <<file, tail>>
    BY <1>4, <1>8, <2>1 DEF ProcessDies
  <2>2. ASSUME NEW k \in Calls, AtFile(k), call' = [KillRunning EXCEPT ![k].pc = "dead"],
               file' = file \/ file' = Append(file, NewLine(k))
        PROVE  DualInv'
    <3>1. /\ table' = table /\ lost' = lost
          /\ call'[k].pc = "dead" /\ call[k].pc # "done"
          /\ \A x \in Calls : x # k => call'[x] = KillRunning[x]
      <4>1. KillRunning \in [Calls -> [pc : PCs, n : Nat, seen : Nat]]
        BY <1>0 DEF KillRunning, PCs
      <4> QED
        BY <1>0, <1>8, <2>2, <4>1 DEF ProcessDies, AtFile, At
    <3> QED
      BY <1>3, <1>4, <2>2, <3>1
  <2> QED
    BY <1>8, <2>1, <2>2 DEF ProcessDies
<1>9. CASE UNCHANGED <<table, file, lost, call>>
  BY <1>4, <1>9
<1> QED
  BY <1>1, <1>2, <1>5, <1>6, <1>7, <1>8, <1>9 DEF Next, vars, Flush

\* A call writes its row before its line and each once, so no line of a dual
\* write is without its row; a call that returned has both, unless the machine
\* failed and took the line.
THEOREM DualWrites == Spec => []LinesHaveRows
<1>1. Init => DualInv
  BY DEF Init, DualInv, DualRight, AtMostOne, RowOf, LineOf, At, Idle
<1>2. Typed /\ DualInv => LinesHaveRows
  BY OneIsOne DEF DualInv, DualRight, LinesHaveRows
<1> QED
  BY <1>1, <1>2, DualStep, TypedHolds, PTL DEF Spec

-----------------------------------------------------------------------------
(* Reports: any jobs and artefacts, any chain and any number of faults.    *)
(*                                                                         *)
(* A job's rows are whatever sequence is in order: that there is one is    *)
(* shown by counting the rows before each. Of a stored report the          *)
(* invariant says what an edit leaves alone.                               *)
CONSTANTS Jobs, Recovered, Draws, MaxChain, MaxFaults
VARIABLES pc, ids, repo, tasks, audit, files, chain, custody, faults
R == INSTANCE Reporting

(* Rows in order                                                             *)

N == Len(Recovered)
Unsorted(j) == {R!Row(j, n) : n \in DOMAIN Recovered}
InOrder(s) == \A m, n \in DOMAIN Recovered : m < n => R!Before(s[m], s[n])

\* What a job recovered, each artefact with an identifier of its own.
Identified(j) ==
  \A m, n \in 1..N : ids[j][n] \in Int /\ Recovered[n].category \in Int /\ (m # n => ids[j][m] # ids[j][n])

\* The order of rows is strict and total.
LEMMA RowsOrdered ==
  ASSUME NEW j, Identified(j)
  PROVE  /\ \A m, n \in 1..N : m # n => R!Before(R!Row(j, m), R!Row(j, n)) \/ R!Before(R!Row(j, n), R!Row(j, m))
         /\ \A m, n \in 1..N : ~ (R!Before(R!Row(j, m), R!Row(j, n)) /\ R!Before(R!Row(j, n), R!Row(j, m)))
         /\ \A m, n, k \in 1..N :
              R!Before(R!Row(j, m), R!Row(j, n)) /\ R!Before(R!Row(j, n), R!Row(j, k)) => R!Before(R!Row(j, m), R!Row(j, k))
BY DEF Identified, R!Before, R!Row

\* A row's place is the number of rows up to it; places differ and are 1 to N, so every
\* place is taken.
LEMMA SortedExists ==
  ASSUME R!Sensible, NEW j, Identified(j)
  PROVE  \E s \in [DOMAIN Recovered -> Unsorted(j)] : InOrder(s)
<1> DEFINE Upto(n) == {m \in 1..N : m = n \/ R!Before(R!Row(j, m), R!Row(j, n))}
           place == [n \in 1..N |-> Cardinality(Upto(n))]
<1>0. N \in Nat /\ DOMAIN Recovered = 1..N /\ IsFiniteSet(1..N) /\ Cardinality(1..N) = N
  <2>1. N \in Nat /\ DOMAIN Recovered = 1..N
    BY DEF R!Sensible, N
  <2>2. IsFiniteSet(1..N) /\ Cardinality(1..N) = IF 1 > N THEN 0 ELSE N - 1 + 1
    BY <2>1, FS_Interval
  <2> QED
    BY <2>1, <2>2
<1>1. ASSUME NEW n \in 1..N
      PROVE  IsFiniteSet(Upto(n)) /\ Cardinality(Upto(n)) \in 1..N
  <2>1. Upto(n) \in SUBSET (1..N) /\ n \in Upto(n)
    OBVIOUS
  <2> HIDE DEF Upto
  <2>2. IsFiniteSet(Upto(n)) /\ Cardinality(Upto(n)) <= N
    BY <1>0, <2>1, FS_Subset
  <2>3. Cardinality(Upto(n)) \in Nat /\ Cardinality(Upto(n)) # 0
    BY <2>1, <2>2, FS_CardinalityType, FS_EmptySet
  <2> QED
    BY <1>0, <2>2, <2>3
<1>2. ASSUME NEW m \in 1..N, NEW n \in 1..N, R!Before(R!Row(j, m), R!Row(j, n))
      PROVE  Cardinality(Upto(m)) < Cardinality(Upto(n))
  <2>1. Upto(m) \in SUBSET Upto(n)
    BY <1>2, RowsOrdered
  <2>2. n \in Upto(n) /\ n \notin Upto(m)
    BY <1>2, RowsOrdered
  <2> HIDE DEF Upto
  <2>3. Cardinality(Upto(m)) <= Cardinality(Upto(n)) /\ Cardinality(Upto(m)) # Cardinality(Upto(n))
    BY <1>1, <2>1, <2>2, FS_Subset
  <2> QED
    BY <1>1, <2>3
<1>3. place \in Injection(1..N, 1..N)
  <2>1. place \in [1..N -> 1..N]
    BY <1>1
  <2>2. ASSUME NEW m \in 1..N, NEW n \in 1..N, m # n PROVE place[m] # place[n]
    <3>1. Cardinality(Upto(m)) \in Nat /\ Cardinality(Upto(n)) \in Nat
      <4> HIDE DEF Upto
      <4>1. Cardinality(Upto(m)) \in 1..N /\ Cardinality(Upto(n)) \in 1..N
        BY <1>1
      <4> QED
        BY <1>0, <4>1
    <3>2. Cardinality(Upto(m)) < Cardinality(Upto(n)) \/ Cardinality(Upto(n)) < Cardinality(Upto(m))
      <4> HIDE DEF Upto
      <4> QED
        BY <1>2, <2>2, RowsOrdered
    <3> HIDE DEF Upto
    <3> QED
      BY <3>1, <3>2
  <2> HIDE DEF place
  <2> QED
    BY <2>1, <2>2 DEF Injection, IsInjective
<1>4. place \in Surjection(1..N, 1..N)
  <2> HIDE DEF place
  <2> QED
    BY <1>0, <1>3, FS_Injection
<1>5. \A k \in 1..N : \E n \in 1..N : place[n] = k
  <2> HIDE DEF place
  <2> QED
    BY <1>4 DEF Surjection
<1> DEFINE at == [k \in 1..N |-> CHOOSE n \in 1..N : place[n] = k]
           s == [k \in 1..N |-> R!Row(j, at[k])]
<1>6. \A k \in 1..N : at[k] \in 1..N /\ place[at[k]] = k
  <2> HIDE DEF place
  <2> QED
    BY <1>5
<1>7. s \in [DOMAIN Recovered -> Unsorted(j)]
  <2> HIDE DEF at
  <2> QED
    BY <1>0, <1>6 DEF Unsorted
<1>8. InOrder(s)
  <2> SUFFICES ASSUME NEW m \in 1..N, NEW n \in 1..N, m < n
               PROVE  R!Before(s[m], s[n])
    BY <1>0 DEF InOrder
  <2>1. at[m] \in 1..N /\ at[n] \in 1..N /\ Cardinality(Upto(at[m])) = m /\ Cardinality(Upto(at[n])) = n
    <3> HIDE DEF at, Upto
    <3> QED
      BY <1>6
  <2>2. at[m] # at[n]
    <3> HIDE DEF at, Upto
    <3> QED
      BY <2>1
  <2>3. ~ R!Before(R!Row(j, at[n]), R!Row(j, at[m]))
    <3> HIDE DEF at, Upto
    <3> QED
      BY <1>2, <2>1
  <2>4. R!Before(R!Row(j, at[m]), R!Row(j, at[n]))
    <3> HIDE DEF at, Upto
    <3> QED
      BY <2>1, <2>2, <2>3, RowsOrdered
  <2>5. s[m] = R!Row(j, at[m]) /\ s[n] = R!Row(j, at[n])
    <3> HIDE DEF at
    <3> QED
      OBVIOUS
  <2> QED
    BY <2>4, <2>5
<1> HIDE DEF s
<1> QED
  BY <1>7, <1>8

\* Rows in order are all different, and so all there are.
LEMMA SortedHasAll ==
  ASSUME R!Sensible, NEW j, Identified(j), NEW s \in [DOMAIN Recovered -> Unsorted(j)], InOrder(s)
  PROVE  \A n \in 1..N : \E m \in 1..N : s[m] = R!Row(j, n)
<1>0. N \in Nat /\ DOMAIN Recovered = 1..N /\ IsFiniteSet(1..N)
  <2>1. N \in Nat /\ DOMAIN Recovered = 1..N
    BY DEF R!Sensible, N
  <2> QED
    BY <2>1, FS_Interval
<1> DEFINE from == [m \in 1..N |-> CHOOSE n \in 1..N : s[m] = R!Row(j, n)]
<1>1. \A m \in 1..N : from[m] \in 1..N /\ s[m] = R!Row(j, from[m])
  BY <1>0 DEF Unsorted
<1> HIDE DEF from
<1>2. ASSUME NEW m \in 1..N, NEW n \in 1..N, m # n PROVE from[m] # from[n]
  <2>1. m < n \/ n < m
    BY <1>0, <1>2
  <2>2. R!Before(s[m], s[n]) \/ R!Before(s[n], s[m])
    BY <1>0, <2>1 DEF InOrder
  <2>3. ~ R!Before(R!Row(j, from[m]), R!Row(j, from[m]))
    BY <1>1, RowsOrdered
  <2> QED
    BY <1>1, <2>2, <2>3
<1>3. from \in Injection(1..N, 1..N)
  <2>1. from \in [1..N -> 1..N]
    BY <1>1 DEF from
  <2> QED
    BY <1>2, <2>1 DEF Injection, IsInjective
<1>4. from \in Surjection(1..N, 1..N)
  BY <1>0, <1>3, FS_Injection
<1> QED
  BY <1>1, <1>4 DEF Surjection

\* The document of a job: its rows, each once, and their hash.
LEMMA RowsHold ==
  ASSUME R!Sensible, NEW j, Identified(j)
  PROVE  /\ DOMAIN R!Rows(j) = DOMAIN Recovered
         /\ \A m \in DOMAIN Recovered : R!Rows(j)[m] \in Unsorted(j)
         /\ \A n \in DOMAIN Recovered : \E m \in DOMAIN Recovered : R!Rows(j)[m] = R!Row(j, n)
<1>1. R!Rows(j) \in [DOMAIN Recovered -> Unsorted(j)] /\ InOrder(R!Rows(j))
  BY SortedExists DEF R!Rows, Unsorted, InOrder
<1>2. DOMAIN Recovered = 1..N
  BY DEF R!Sensible, N
<1> QED
  BY <1>1, <1>2, SortedHasAll
-----------------------------------------------------------------------------
(* Stages, stored reports and the trail                                      *)

Steps == {"wait", "built", "stored", "done", "failing", "failed", "escaped"}
Fields == {"stored", "rows", "hash", "edited"}

\* A stored report has the hash of what its job found; its rows are those, save for data
\* that somebody edited.
Holds(j, r) ==
  /\ DOMAIN r = Fields /\ r.edited \in BOOLEAN /\ r.stored \in BOOLEAN
  /\ r.stored =>
       /\ r.hash = R!Rows(j) /\ DOMAIN r.rows = DOMAIN Recovered
       /\ ~r.edited => r.rows = R!Rows(j)
       /\ \A n \in DOMAIN Recovered : DOMAIN r.rows[n] = {"category", "id", "level", "data"} /\ r.rows[n].id = R!Rows(j)[n].id
       /\ r.edited => \E n \in DOMAIN Recovered : r.rows[n].data = "edited"

\* The trail says of a stage how it ended, and a report is there once it is persisted.
Earned(j) ==
  /\ pc[j] \in {"stored", "done"} => R!Stored(j)
  /\ pc[j] \in {"wait", "built"} => ~R!Stored(j)
  /\ <<j, "REPORTING_STAGE_COMPLETED">> \in audit <=> pc[j] = "done"
  /\ <<j, "REPORTING_STAGE_FAILED">> \in audit => pc[j] = "failed"
  /\ files[j] = "wrong" => R!Stored(j) /\ repo[j].edited

Counted ==
  /\ chain \in Nat /\ DOMAIN custody = {"pc", "length", "total"}
  /\ custody.pc \in {"verify", "made"} => custody.length \in Nat /\ custody.length <= chain
  /\ custody.pc = "made" => custody.total \in Nat /\ custody.length <= custody.total /\ custody.total <= chain

Kept ==
  /\ R!Sensible /\ ids \in Draws
  /\ pc \in [Jobs -> Steps] /\ DOMAIN repo = Jobs /\ DOMAIN files = Jobs
  /\ \A j \in Jobs : Holds(j, repo[j]) /\ Earned(j)
  /\ Counted

LEMMA DrawsIdentify ==
  ASSUME R!Sensible, ids \in Draws, NEW j \in Jobs
  PROVE  Identified(j)
BY DEF R!Sensible, Identified, N

LEMMA ReportsBegin ==
  ASSUME R!Sensible, R!Init
  PROVE  Kept
<1>1. ASSUME NEW j \in Jobs PROVE Holds(j, repo[j]) /\ Earned(j)
  BY DEF R!Init, R!NoReport, Holds, Fields, Earned, R!Stored
<1>2. Counted
  BY DEF R!Init, Counted, R!NoCustody
<1>3. ids \in Draws /\ pc \in [Jobs -> Steps] /\ DOMAIN repo = Jobs /\ DOMAIN files = Jobs
  BY DEF R!Init, Steps
<1> QED
  BY <1>1, <1>2, <1>3 DEF Kept

LEMMA DocumentHolds ==
  ASSUME Kept, NEW j \in Jobs
  PROVE  Holds(j, R!Document(j)) /\ R!Document(j).stored /\ ~R!Document(j).edited
<1>1. DOMAIN R!Rows(j) = DOMAIN Recovered /\ \A m \in DOMAIN Recovered : R!Rows(j)[m] \in Unsorted(j)
  BY RowsHold, DrawsIdentify DEF Kept
<1>2. \A m \in DOMAIN Recovered : DOMAIN R!Rows(j)[m] = {"category", "id", "level", "data"}
  BY <1>1 DEF Unsorted, R!Row
<1> QED
  BY <1>1, <1>2 DEF R!Document, R!Hash, Holds, Fields

\* An edit leaves every row its identifier.
LEMMA EditHolds ==
  ASSUME Kept, NEW j \in Jobs, R!Stored(j), NEW n \in DOMAIN repo[j].rows,
         repo' = [repo EXCEPT ![j].rows[n].data = "edited", ![j].edited = TRUE]
  PROVE  Holds(j, repo'[j]) /\ repo'[j].stored /\ repo'[j].edited /\ DOMAIN repo' = Jobs /\ \A k \in Jobs : k # j => repo'[k] = repo[k]
<1> DEFINE r == repo[j]
           row == [r.rows[n] EXCEPT !.data = "edited"]
           t == [r EXCEPT !.rows = [r.rows EXCEPT ![n] = row], !.edited = TRUE]
<1>1. repo' = [repo EXCEPT ![j] = t]
  OBVIOUS
<1>2. Holds(j, r) /\ r.stored /\ DOMAIN repo = Jobs
  BY DEF Kept, R!Stored
<1>3. DOMAIN r = Fields /\ DOMAIN r.rows = DOMAIN Recovered /\ r.hash = R!Rows(j) /\ n \in DOMAIN Recovered
      /\ \A m \in DOMAIN Recovered : DOMAIN r.rows[m] = {"category", "id", "level", "data"} /\ r.rows[m].id = R!Rows(j)[m].id
  BY <1>2 DEF Holds
<1>4. DOMAIN row = {"category", "id", "level", "data"} /\ row.data = "edited" /\ row.id = r.rows[n].id
  BY <1>3
<1> DEFINE rows == [r.rows EXCEPT ![n] = row]
<1>5. DOMAIN rows = DOMAIN Recovered /\ rows[n] = row /\ \A m \in DOMAIN Recovered : m # n => rows[m] = r.rows[m]
  BY <1>3
<1>6. DOMAIN t = Fields /\ t.rows = rows /\ t.edited = TRUE /\ t.stored = TRUE /\ t.hash = R!Rows(j)
  <2> HIDE DEF rows, r, row
  <2>1. t = [r EXCEPT !.rows = rows, !.edited = TRUE]
    BY DEF rows
  <2> HIDE DEF t
  <2> QED
    BY <1>2, <1>3, <2>1 DEF Fields
<1> HIDE DEF t, rows, row, r
<1>7. Holds(j, t)
  BY <1>3, <1>4, <1>5, <1>6 DEF Holds
<1> QED
  BY <1>1, <1>2, <1>6, <1>7

\* What a step of one job's stage does to it.
LEMMA StageKeeps ==
  ASSUME Kept, NEW j \in Jobs, R!Stage(j)
  PROVE  Kept'
<1>0. /\ ids' = ids /\ chain' = chain /\ custody' = custody /\ files' = files
      /\ pc' \in [Jobs -> Steps] /\ (\A k \in Jobs : k # j => pc'[k] = pc[k])
      /\ \/ repo' = repo
         \/ repo' = [repo EXCEPT ![j] = R!Document(j)]
      /\ \A k \in Jobs : k # j => \A a : <<k, a>> \in audit' <=> <<k, a>> \in audit
  BY DEF Kept, R!Stage, R!Build, R!BuildFails, R!Persist, R!PersistFails, R!Complete, R!CompleteFails, R!Fail, R!Escape, R!Enter, R!Log, Steps
<1>1. DOMAIN repo' = Jobs /\ \A k \in Jobs : k # j => repo'[k] = repo[k]
  BY <1>0 DEF Kept
<1>2. Holds(j, repo'[j])
  BY <1>0, DocumentHolds DEF Kept
<1>3. Earned(j)'
  <2>1. Earned(j) /\ pc \in [Jobs -> Steps] /\ DOMAIN repo = Jobs
    BY DEF Kept
  <2>2. CASE R!Build(j)
    BY <2>1, <2>2 DEF R!Build, R!Enter, Earned, R!Stored, Steps
  <2>3. CASE R!BuildFails(j)
    BY <2>1, <2>3 DEF R!BuildFails, R!Enter, Earned, R!Stored, Steps
  <2>4. CASE R!Persist(j)
    BY <2>1, <2>4, DocumentHolds DEF R!Persist, R!Enter, Earned, R!Stored, Steps
  <2>5. CASE R!PersistFails(j)
    BY <2>1, <2>5 DEF R!PersistFails, R!Enter, Earned, R!Stored, Steps
  <2>6. CASE R!Complete(j)
    BY <2>1, <2>6 DEF R!Complete, R!Enter, R!Log, Earned, R!Stored, Steps
  <2>7. CASE R!CompleteFails(j)
    BY <2>1, <2>7 DEF R!CompleteFails, R!Enter, Earned, R!Stored, Steps
  <2>8. CASE R!Fail(j)
    BY <2>1, <2>8 DEF R!Fail, R!Enter, R!Log, Earned, R!Stored, Steps
  <2>9. CASE R!Escape(j)
    BY <2>1, <2>9 DEF R!Escape, R!Enter, Earned, R!Stored, Steps
  <2> QED
    BY <2>2, <2>3, <2>4, <2>5, <2>6, <2>7, <2>8, <2>9 DEF R!Stage
<1>4. ASSUME NEW k \in Jobs PROVE Holds(k, repo[k])' /\ Earned(k)'
  <2>1. \A l : R!Rows(l)' = R!Rows(l)
    BY <1>0 DEF R!Rows, R!Row, R!Before
  <2>2. CASE k = j
    BY <1>2, <1>3, <2>1, <2>2 DEF Holds
  <2>3. CASE k # j
    <3>1. Holds(k, repo[k]) /\ Earned(k)
      BY DEF Kept
    <3> QED
      BY <1>0, <1>1, <2>1, <2>3, <3>1 DEF Holds, Earned, R!Stored
  <2> QED
    BY <2>2, <2>3
<1>5. Counted'
  BY <1>0 DEF Kept, Counted
<1> QED
  BY <1>0, <1>1, <1>4, <1>5 DEF Kept, R!Sensible

\* Exports and edits are of stored reports; a file fails verification when its report
\* differs from what was hashed.
LEMMA ReportKeeps ==
  ASSUME Kept, NEW j \in Jobs, R!EditRow(j) \/ R!Export(j) \/ R!ExportFails(j)
  PROVE  Kept'
<1>0. /\ ids' = ids /\ chain' = chain /\ custody' = custody /\ pc' = pc /\ audit' = audit
      /\ DOMAIN files' = Jobs /\ R!Stored(j)
  BY DEF Kept, R!EditRow, R!Export, R!ExportFails
<1>1. \A l : R!Rows(l)' = R!Rows(l)
  BY <1>0 DEF R!Rows, R!Row, R!Before
<1>2. DOMAIN repo' = Jobs /\ \A k \in Jobs : Holds(k, repo'[k]) /\ Earned(k)'
  <2>1. CASE R!EditRow(j)
    <3>1. PICK n \in DOMAIN repo[j].rows : repo' = [repo EXCEPT ![j].rows[n].data = "edited", ![j].edited = TRUE]
      BY <2>1 DEF R!EditRow
    <3>2. Holds(j, repo'[j]) /\ repo'[j].stored /\ repo'[j].edited /\ DOMAIN repo' = Jobs /\ \A k \in Jobs : k # j => repo'[k] = repo[k]
      BY <1>0, <3>1, EditHolds
    <3>3. files' = files
      BY <2>1 DEF R!EditRow
    <3> QED
      BY <1>0, <3>2, <3>3 DEF Kept, Earned, R!Stored
  <2>2. CASE R!Export(j) \/ R!ExportFails(j)
    <3>1. repo' = repo /\ (\A k \in Jobs : k # j => files'[k] = files[k])
          /\ (files'[j] = "wrong" => ~R!Verifies(repo[j]))
      BY <2>2 DEF Kept, R!Export, R!ExportFails
    <3>2. ~R!Verifies(repo[j]) => repo[j].edited
      <4>1. Holds(j, repo[j]) /\ repo[j].stored
        BY <1>0 DEF Kept, R!Stored
      <4> QED
        BY <4>1 DEF Holds, R!Verifies, R!Hash
    <3> QED
      BY <1>0, <3>1, <3>2 DEF Kept, Earned, R!Stored
  <2> QED
    BY <2>1, <2>2
<1>3. ASSUME NEW k \in Jobs PROVE Holds(k, repo[k])'
  BY <1>1, <1>2 DEF Holds
<1> QED
  BY <1>0, <1>2, <1>3 DEF Kept, R!Sensible, Counted

\* What the builder's tasks write is not what the stages do.
LEMMA OthersKeep ==
  ASSUME Kept,
         \/ \E t \in Jobs \X R!Builder : R!AuditTask(t) \/ R!AuditTaskFails(t)
         \/ R!ReadChain \/ R!VerifyChain \/ R!Deliver \/ R!ChainGrows \/ R!Crash
  PROVE  Kept'
<1>0. /\ ids' = ids /\ repo' = repo /\ files' = files
      /\ \A j \in Jobs : \A a \in {"REPORTING_STAGE_COMPLETED", "REPORTING_STAGE_FAILED"} : <<j, a>> \in audit' <=> <<j, a>> \in audit
      /\ pc' \in [Jobs -> Steps]
      /\ \A j \in Jobs : pc'[j] = pc[j] \/ (pc[j] \in {"built", "stored", "failing"} /\ pc'[j] = "escaped")
  <2>1. CASE \E t \in Jobs \X R!Builder : R!AuditTask(t) \/ R!AuditTaskFails(t)
    BY <2>1 DEF Kept, R!AuditTask, R!AuditTaskFails, R!Log, R!Builder
  <2>2. CASE R!ReadChain \/ R!VerifyChain \/ R!Deliver \/ R!ChainGrows \/ R!Crash
    BY <2>2 DEF Kept, R!ReadChain, R!VerifyChain, R!Deliver, R!ChainGrows, R!Crash, Steps
  <2> QED
    BY <2>1, <2>2
<1>1. \A l : R!Rows(l)' = R!Rows(l)
  BY <1>0 DEF R!Rows, R!Row, R!Before
<1>2. ASSUME NEW j \in Jobs PROVE Holds(j, repo[j])' /\ Earned(j)'
  <2>1. Holds(j, repo[j]) /\ Earned(j) /\ pc[j] \in Steps
    BY DEF Kept
  <2>2. Earned(j)'
    BY <1>0, <2>1 DEF Earned, R!Stored
  <2> QED
    BY <1>0, <1>1, <2>1, <2>2 DEF Holds
<1>3. Counted'
  <2>1. CASE \E t \in Jobs \X R!Builder : R!AuditTask(t) \/ R!AuditTaskFails(t)
    BY <2>1 DEF Kept, Counted, R!AuditTask, R!AuditTaskFails
  <2>2. CASE R!ReadChain
    BY <2>2 DEF Kept, Counted, R!ReadChain
  <2>3. CASE R!VerifyChain
    <3>1. custody' = [custody EXCEPT !.pc = "made", !.total = chain] /\ custody.pc = "verify" /\ chain' = chain
      BY <2>3 DEF R!VerifyChain
    <3>2. Counted
      BY DEF Kept
    <3>3. DOMAIN custody' = {"pc", "length", "total"} /\ custody'.pc = "made" /\ custody'.length = custody.length /\ custody'.total = chain
      BY <3>1, <3>2 DEF Counted
    <3> QED
      BY <3>1, <3>2, <3>3 DEF Counted
  <2>4. CASE R!Deliver \/ R!Crash
    BY <2>4 DEF Kept, Counted, R!Deliver, R!Crash, R!NoCustody
  <2>5. CASE R!ChainGrows
    BY <2>5 DEF Kept, Counted, R!ChainGrows
  <2> QED
    BY <2>1, <2>2, <2>3, <2>4, <2>5
<1> QED
  BY <1>0, <1>2, <1>3 DEF Kept, R!Sensible

LEMMA ReportsNext ==
  ASSUME Kept, [R!Next]_R!vars
  PROVE  Kept'
<1>1. CASE UNCHANGED R!vars
  <2>1. \A l : R!Rows(l)' = R!Rows(l)
    BY <1>1 DEF R!vars, R!Rows, R!Row, R!Before
  <2>2. \A j \in Jobs : Holds(j, repo[j])' /\ Earned(j)'
    BY <1>1, <2>1 DEF R!vars, Kept, Holds, Earned, R!Stored
  <2> QED
    BY <1>1, <2>2 DEF R!vars, Kept, R!Sensible, Counted
<1> QED
  BY <1>1, StageKeeps, ReportKeeps, OthersKeep DEF R!Next

\* Reports of the same rows compare alike in every respect.
LEMMA KeptIsSafe ==
  ASSUME Kept
  PROVE  R!ReportingSafe
<1>1. ASSUME NEW j \in Jobs, R!Stored(j)
      PROVE  {repo[j].rows[n].id : n \in DOMAIN repo[j].rows} = {ids[j][n] : n \in DOMAIN Recovered}
  <2>1. DOMAIN repo[j].rows = DOMAIN Recovered /\ \A n \in DOMAIN Recovered : repo[j].rows[n].id = R!Rows(j)[n].id
    BY <1>1 DEF Kept, Holds, R!Stored
  <2>2. /\ \A m \in DOMAIN Recovered : R!Rows(j)[m] \in Unsorted(j)
        /\ \A n \in DOMAIN Recovered : \E m \in DOMAIN Recovered : R!Rows(j)[m] = R!Row(j, n)
    BY RowsHold, DrawsIdentify DEF Kept
  <2>3. \A n : R!Row(j, n).id = ids[j][n]
    BY DEF R!Row
  <2>4. ASSUME NEW m \in DOMAIN Recovered PROVE \E n \in DOMAIN Recovered : repo[j].rows[m].id = ids[j][n]
    BY <2>1, <2>2, <2>3 DEF Unsorted
  <2>5. ASSUME NEW n \in DOMAIN Recovered PROVE \E m \in DOMAIN Recovered : repo[j].rows[m].id = ids[j][n]
    BY <2>1, <2>2, <2>3
  <2>6. \A x : (\E m \in DOMAIN Recovered : x = repo[j].rows[m].id) <=> \E n \in DOMAIN Recovered : x = ids[j][n]
    BY <2>4, <2>5, Zenon
  <2> QED
    BY <2>1, <2>6, Zenon
<1>2. R!SuccessIsStored
  BY <1>1 DEF Kept, Earned, R!Wrote, R!SuccessIsStored
<1>3. ASSUME NEW j \in Jobs, R!Stored(j)
      PROVE  R!Verifies(repo[j]) <=> ~repo[j].edited
  <2>1. Holds(j, repo[j]) /\ repo[j].stored
    BY <1>3 DEF Kept, R!Stored
  <2>2. \A m \in DOMAIN Recovered : R!Rows(j)[m] \in Unsorted(j)
    BY RowsHold, DrawsIdentify DEF Kept
  <2>3. \A m \in DOMAIN Recovered : R!Rows(j)[m].data # "edited"
    BY <2>2 DEF Unsorted, R!Row, Kept, R!Sensible
  <2> QED
    BY <2>1, <2>3 DEF Holds, R!Verifies, R!Hash
<1>4. R!VerifiedIsUntouched
  BY <1>3 DEF Kept, Earned, R!VerifiedIsUntouched
<1>5. R!CustodyIsCounted
  BY DEF Kept, Counted, R!CustodyIsCounted
<1>6. R!CompareTellsRows
  BY DEF R!CompareTellsRows, R!Reproducible, R!SameDistribution, R!CountOf, R!Hash
<1> QED
  BY <1>2, <1>4, <1>5, <1>6 DEF R!ReportingSafe

\* Whatever jobs, faults, edits and crashes: what a stage says it completed is stored with
\* every artefact, verification tells edited reports from others, a custody report has no
\* more records than were counted, and reports compare equal just when their rows are.
THEOREM ReportingIsSafe == R!Sensible /\ R!Spec => []R!ReportingSafe
<1>1. R!Sensible /\ R!Init => Kept
  BY ReportsBegin
<1>2. Kept /\ [R!Next]_R!vars => Kept'
  BY ReportsNext
<1>3. Kept => R!ReportingSafe
  BY KeptIsSafe
<1> QED
  BY <1>1, <1>2, <1>3, PTL DEF R!Spec
================================================================================
