-------------------------- MODULE AcquisitionProofs --------------------------
(***************************************************************************)
(* Proofs about Acquisition for any jobs, contents of the file and bounds  *)
(* on what others do to the file and to the status of the evidence; and in *)
(* the second part about Knowledge, what the analysis leaves of a file, and *)
(* in the third about LlmGateway, the client that the analysis asks, and in *)
(* the fourth about Parsing, the parsers that read the loaded image.        *)
(*                                                                         *)
(* The stage reads the file five times without holding it, so what can be  *)
(* said of it at an await is what the last reading saw, and what an edit   *)
(* since then must have cost.                                              *)
(***************************************************************************)
EXTENDS Acquisition, FiniteSetTheorems, SequenceTheorems, WellFoundedInduction, TLAPS

Early  == {"idle", "computed", "verified", "access", "recording"}
Late   == {"open", "mount"} \cup HandedOver
Places == Early \cup Late \cup {"recorded", "failed"}
Read   == Contents \cup {Gone, Original}
JobType ==
  [pc : Places, read : Read, hash : Read, handle : {"none", "open", "closed"}]

Typed ==
  /\ status \in EvidenceStatuses /\ file \in Contents \cup {Gone} /\ edits \in Nat
  /\ records \in Seq([job : Jobs, hash : Read])
  /\ job \in [Jobs -> JobType]

RecordsOf(j) == {n \in DOMAIN records : records[n].job = j}

\* A content that is not the acquired one was read after an edit, and takes a
\* second edit to be the acquired one again.
Doubt(h) == h = Original \/ (edits >= 1 /\ file # Original) \/ edits >= 2

\* What a job has read, recorded and opened at each await.
JobInv(j) ==
  /\ job[j].pc \in Early => RecordsOf(j) = {}
  /\ job[j].pc \in Early \cup {"recorded", "open"} => job[j].handle = "none"
  /\ At(j, "mount") => job[j].handle = "open"
  /\ job[j].pc \in {"open", "mount"} => ~soft
  /\ job[j].pc \in {"verified", "access", "recording", "recorded"} =>
       job[j].hash = Original
  /\ job[j].pc \in Late => job[j].read = Original
  /\ job[j].pc \in Late \cup {"recorded"} => RecordsOf(j) # {}
  /\ job[j].handle = "open" =>
       job[j].read = Original /\ kind = "disk" /\ ~soft /\ RecordsOf(j) # {}
  /\ \A m, n \in RecordsOf(j) : m = n
TrailInv(j) ==
  /\ At(j, "access") => file = Original \/ edits >= 1
  /\ At(j, "recording") => Doubt(job[j].read)
  /\ At(j, "recorded") => \A n \in RecordsOf(j) : Doubt(records[n].hash)
  /\ job[j].pc \in Late =>
       \A n \in RecordsOf(j) : records[n].hash = Original \/ edits >= 2

IInv == Typed /\ \A j \in Jobs : JobInv(j) /\ TrailInv(j)

-----------------------------------------------------------------------------
(* Jobs that do not act *)

\* Records that are left alone are those of the same jobs.
LEMMA SameRecords ==
  ASSUME UNCHANGED records, NEW x \in Jobs
  PROVE  /\ RecordsOf(x)' = RecordsOf(x)
         /\ \A n \in RecordsOf(x) : records'[n] = records[n]
  BY DEF RecordsOf

\* A job that a step of another leaves alone keeps its part, and so it does when
\* the file is edited, since the edit is counted.
LEMMA OthersKeep ==
  ASSUME Typed, NEW x \in Jobs, JobInv(x), TrailInv(x), job'[x] = job[x],
         UNCHANGED <<kind, soft>>,
         \/ UNCHANGED <<file, edits>>
         \/ edits' = edits + 1,
         RecordsOf(x)' = RecordsOf(x),
         \A n \in RecordsOf(x) : records'[n] = records[n]
  PROVE  JobInv(x)' /\ TrailInv(x)'
<1>1. JobInv(x)'
  BY DEF JobInv, At
<1>2. edits \in Nat /\ (edits' = edits + 1 \/ UNCHANGED <<file, edits>>)
  BY DEF Typed
<1>3. At(x, "access")' => file' = Original \/ edits' >= 1
  BY <1>2 DEF TrailInv, At
<1>4. At(x, "recording")' => Doubt(job[x].read)'
  BY <1>2 DEF TrailInv, At, Doubt
<1>5. ASSUME At(x, "recorded")', NEW n \in RecordsOf(x)'
      PROVE  Doubt(records[n].hash)'
  <2>1. n \in RecordsOf(x) /\ records'[n] = records[n] /\ At(x, "recorded")
    BY <1>5 DEF At
  <2>2. Doubt(records[n].hash)
    BY <2>1 DEF TrailInv
  <2> QED
    BY <1>2, <2>1, <2>2 DEF Doubt
<1>6. job'[x].pc \in Late =>
        \A n \in RecordsOf(x)' : records'[n].hash = Original \/ edits' >= 2
  BY <1>2 DEF TrailInv
<1> QED
  BY <1>1, <1>3, <1>4, <1>5, <1>6 DEF TrailInv

\* A step of one job that adds no record has only that job to look at.
LEMMA OneActs ==
  ASSUME IInv, NEW j \in Jobs, NEW r, job' = [job EXCEPT ![j] = r],
         UNCHANGED <<kind, soft, file, edits, records>>,
         r \in JobType, status' \in EvidenceStatuses,
         JobInv(j)', TrailInv(j)'
  PROVE  IInv'
<1>1. Typed'
  BY DEF IInv, Typed
<1>2. ASSUME NEW x \in Jobs PROVE JobInv(x)' /\ TrailInv(x)'
  <2>1. CASE x = j
    BY <2>1
  <2>2. CASE x # j
    <3>1. job'[x] = job[x]
      BY <2>2 DEF IInv, Typed
    <3> QED
      BY <3>1, SameRecords, OthersKeep DEF IInv
  <2> QED
    BY <2>1, <2>2
<1> QED
  BY <1>1, <1>2 DEF IInv

\* The state in which every job is idle.
LEMMA InitIInv == Init => IInv
<1> SUFFICES ASSUME Init PROVE IInv
  OBVIOUS
<1>1. Typed
  BY DEF Init, Typed, EvidenceStatuses, JobType, Places, Early, Read
<1>2. ASSUME NEW j \in Jobs PROVE JobInv(j) /\ TrailInv(j)
  <2>1. job[j] = [pc |-> "idle", read |-> Gone, hash |-> Gone, handle |-> "none"]
        /\ RecordsOf(j) = {}
    BY DEF Init, RecordsOf
  <2> QED
    BY <2>1 DEF JobInv, TrailInv, At, Early, Late, HandedOver
<1> QED
  BY <1>1, <1>2 DEF IInv

-----------------------------------------------------------------------------
(* Readings of the file *)

\* verify_evidence and the readings of record_access and load_evidence.
LEMMA ReadingSteps ==
  ASSUME IInv, NEW j \in Jobs,
         \/ Compute(j) \/ Compare(j) \/ CheckBaseline(j) \/ RecordAccess(j)
         \/ Verify(j)
  PROVE  IInv'
<1> DEFINE old == job[j]
<1>0. /\ Typed /\ JobInv(j) /\ TrailInv(j) /\ job \in [Jobs -> JobType]
      /\ old \in JobType /\ edits \in Nat /\ status \in EvidenceStatuses
      /\ file \in Read /\ Original \in Read
  BY DEF IInv, Typed, Read
<1>1. UNCHANGED <<kind, soft, file, edits, records, status>>
  BY DEF Compute, Compare, CheckBaseline, RecordAccess, Verify, others, setting
<1>2. RecordsOf(j)' = RecordsOf(j) /\ \A n \in RecordsOf(j) : records'[n] = records[n]
  BY <1>1, SameRecords
\* What the step makes of the job.
<1>3. ASSUME NEW w \in Places, NEW h \in Read, NEW d \in Read,
             job' = [job EXCEPT ![j] = [old EXCEPT !.pc = w, !.read = h, !.hash = d]]
      PROVE  /\ job'[j].pc = w /\ job'[j].read = h /\ job'[j].hash = d
             /\ job'[j].handle = old.handle
             /\ JobInv(j)' /\ TrailInv(j)' => IInv'
  <2> DEFINE r == [old EXCEPT !.pc = w, !.read = h, !.hash = d]
  <2>1. r \in JobType
    BY <1>0 DEF JobType
  <2>2. r.pc = w /\ r.read = h /\ r.hash = d /\ r.handle = old.handle
    BY <1>0 DEF JobType
  <2> HIDE DEF r
  <2>3. job' = [job EXCEPT ![j] = r]
    BY <1>3 DEF r
  <2>4. job'[j] = r
    BY <1>0, <2>3
  <2>5. JobInv(j)' /\ TrailInv(j)' => IInv'
    BY <1>0, <1>1, <2>1, <2>3, OneActs
  <2> QED
    BY <2>2, <2>4, <2>5
<1>4. ASSUME NEW accept, NEW next \in Places, Reads(j, accept, next),
             old.pc \in {"verified", "access", "recorded"},
             next \in {"access", "recording", "loaded", "open"},
             next = "access" => At(j, "verified") /\ accept = {Original},
             next = "recording" => At(j, "access"),
             next \in {"loaded", "open"} => /\ At(j, "recorded")
                                            /\ accept = {Original},
             next = "open" => ~soft
      PROVE  IInv'
  <2>1. PICK w : w = IF file # Gone /\ file \in accept THEN next ELSE "failed"
    OBVIOUS
  <2>2. w \in Places /\ old.hash \in Read /\ (w = "failed" \/ (w = next /\ file \in accept))
    BY <1>0, <1>4, <2>1 DEF Places, JobType
  <2>3. job' = [job EXCEPT ![j] = [old EXCEPT !.pc = w, !.read = file,
                                              !.hash = old.hash]]
    <3>1. job' = [job EXCEPT ![j] = [old EXCEPT !.pc = w, !.read = file]]
      BY <1>4, <2>1 DEF Reads
    <3>2. [old EXCEPT !.pc = w, !.read = file]
            = [old EXCEPT !.pc = w, !.read = file, !.hash = old.hash]
      BY <1>0 DEF JobType
    <3> QED
      BY <3>1, <3>2
  <2>4. /\ job'[j].pc = w /\ job'[j].read = file /\ job'[j].hash = old.hash
        /\ job'[j].handle = old.handle
        /\ JobInv(j)' /\ TrailInv(j)' => IInv'
    BY <1>0, <1>3, <2>2, <2>3
  <2>5. JobInv(j)'
    BY <1>0, <1>1, <1>2, <1>4, <2>2, <2>4
       DEF JobInv, At, Early, Late, HandedOver
  <2>6. TrailInv(j)'
    <3>1. w = "access" => file = Original
      BY <1>4, <2>2
    <3>2. w = "recording" => file = Original \/ edits >= 1
      BY <1>0, <1>4, <2>2 DEF TrailInv, At
    <3>3. w \in {"loaded", "open"} =>
            \A n \in RecordsOf(j) : records[n].hash = Original \/ edits >= 2
      BY <1>0, <1>4, <2>2 DEF TrailInv, At, Doubt
    <3>4. w \in {"access", "recording", "loaded", "open", "failed"}
      BY <1>4, <2>2
    <3> QED
      BY <1>1, <1>2, <2>4, <3>1, <3>2, <3>3, <3>4
         DEF TrailInv, At, Late, HandedOver, Doubt
  <2> QED
    BY <2>4, <2>5, <2>6
<1>5. CASE Compute(j)
  <2>1. PICK w : w = IF file = Gone THEN "failed" ELSE "computed"
    OBVIOUS
  <2>2. /\ job' = [job EXCEPT ![j] = [old EXCEPT !.pc = w, !.read = file,
                                                 !.hash = file]]
        /\ old.pc = "idle" /\ w \in {"failed", "computed"}
    BY <1>5, <2>1 DEF Compute, At
  <2>3. /\ job'[j].pc = w /\ job'[j].handle = old.handle
        /\ JobInv(j)' /\ TrailInv(j)' => IInv'
    BY <1>0, <1>3, <2>2 DEF Places, Early
  <2>4. JobInv(j)' /\ TrailInv(j)'
    BY <1>0, <1>1, <1>2, <2>2, <2>3
       DEF JobInv, TrailInv, At, Early, Late, HandedOver
  <2> QED
    BY <2>3, <2>4
<1>6. CASE Compare(j)
  <2>1. \E w \in {"verified", "failed"}, h \in Read, d \in Read :
          /\ job' = [job EXCEPT ![j] = [old EXCEPT !.pc = w, !.read = h, !.hash = d]]
          /\ w = "verified" => d = Original
    <3>1. CASE stored
      <4>1. PICK w : w = IF file = Original THEN "verified" ELSE "failed"
        OBVIOUS
      <4>2. job' = [job EXCEPT ![j] = [old EXCEPT !.pc = w, !.read = file,
                                                  !.hash = Original]]
        BY <1>6, <3>1, <4>1 DEF Compare
      <4> QED
        BY <1>0, <4>1, <4>2
    <3>2. CASE ~stored
      <4>1. PICK w : w = IF old.hash = Original THEN "verified" ELSE "failed"
        OBVIOUS
      <4>2. job' = [job EXCEPT ![j] = [old EXCEPT !.pc = w]]
        BY <1>6, <3>2, <4>1 DEF Compare, Goto
      <4>3. [old EXCEPT !.pc = w]
              = [old EXCEPT !.pc = w, !.read = old.read, !.hash = old.hash]
        BY <1>0 DEF JobType
      <4>4. old.read \in Read /\ old.hash \in Read
        BY <1>0 DEF JobType
      <4> QED
        BY <4>1, <4>2, <4>3, <4>4
    <3> QED
      BY <3>1, <3>2
  <2>2. PICK w \in {"verified", "failed"}, h \in Read, d \in Read :
          /\ job' = [job EXCEPT ![j] = [old EXCEPT !.pc = w, !.read = h, !.hash = d]]
          /\ w = "verified" => d = Original
    BY <2>1
  <2>3. /\ job'[j].pc = w /\ job'[j].hash = d /\ job'[j].handle = old.handle
        /\ JobInv(j)' /\ TrailInv(j)' => IInv'
    BY <1>0, <1>3, <2>2 DEF Places, Early
  <2>4. old.pc = "computed"
    BY <1>6 DEF Compare, At
  <2>5. JobInv(j)' /\ TrailInv(j)'
    BY <1>0, <1>1, <1>2, <2>2, <2>3, <2>4
       DEF JobInv, TrailInv, At, Early, Late, HandedOver
  <2> QED
    BY <2>3, <2>5
<1>7. CASE CheckBaseline(j)
  BY <1>4, <1>7 DEF CheckBaseline, At, Places, Early
<1>8. CASE RecordAccess(j)
  BY <1>4, <1>8 DEF RecordAccess, At, Places, Early
<1>9. CASE Verify(j)
  <2>1. old.hash = Original /\ old.pc = "recorded"
    BY <1>0, <1>9 DEF Verify, JobInv, At
  <2> DEFINE next == IF soft THEN "loaded" ELSE "open"
  <2>2. Reads(j, {Original}, next)
    BY <1>9, <2>1 DEF Verify
  <2>3. next \in Places /\ next \in {"loaded", "open"} /\ (next = "open" => ~soft)
    BY DEF Places, Late, HandedOver
  <2> HIDE DEF next
  <2> QED
    BY <1>4, <2>1, <2>2, <2>3 DEF At
<1> QED
  BY <1>5, <1>6, <1>7, <1>8, <1>9

-----------------------------------------------------------------------------
(* The other steps *)

\* A record is added to those of its job and of no other.
LEMMA RecordsGrown ==
  ASSUME Typed, NEW j \in Jobs, NEW h, records' = Append(records, [job |-> j, hash |-> h])
  PROVE  /\ RecordsOf(j)' = RecordsOf(j) \cup {Len(records) + 1}
         /\ records'[Len(records) + 1].hash = h
         /\ \A n \in DOMAIN records : records'[n] = records[n]
         /\ \A x \in Jobs : x # j => RecordsOf(x)' = RecordsOf(x)
<1> DEFINE len == Len(records)
           new == [job |-> j, hash |-> h]
<1>1. /\ len \in Nat /\ DOMAIN records = 1..len
      /\ DOMAIN records' = 1..(len + 1)
      /\ \A n \in 1..len : records'[n] = records[n]
      /\ records'[len + 1] = new
  <2>1. records \in Seq([job : Jobs, hash : Read])
    BY DEF Typed
  <2> HIDE DEF new
  <2>2. records' = Append(records, new)
    BY DEF new
  <2> QED
    BY <2>1, <2>2
<1>2. new.job = j /\ new.hash = h
  OBVIOUS
<1> HIDE DEF new
<1>3. \A x : RecordsOf(x)' = {n \in 1..(len + 1) : records'[n].job = x}
  BY <1>1 DEF RecordsOf
<1>4. \A x : RecordsOf(x) = {n \in 1..len : records[n].job = x}
  BY <1>1 DEF RecordsOf
<1>5. \A n : n \in 1..(len + 1) <=> n \in 1..len \/ n = len + 1
  BY <1>1
<1> HIDE DEF len
<1>6. \A x : RecordsOf(x)' = RecordsOf(x) \cup (IF x = j THEN {len + 1} ELSE {})
  BY <1>1, <1>2, <1>3, <1>4, <1>5
<1> QED
  BY <1>1, <1>2, <1>6 DEF len

\* KeepRecord: the record has the hash that was read last.
LEMMA KeepStep ==
  ASSUME IInv, NEW j \in Jobs, KeepRecord(j)
  PROVE  IInv'
<1>0. /\ Typed /\ JobInv(j) /\ TrailInv(j) /\ job \in [Jobs -> JobType]
      /\ job[j] \in JobType /\ job[j].pc = "recording" /\ job[j].read \in Read
      /\ UNCHANGED <<kind, soft, file, edits, status>>
  BY DEF IInv, Typed, JobType, KeepRecord, At, others, setting
<1>1. ASSUME NEW w \in Places, Goto(j, w)
      PROVE  /\ job'[j].pc = w /\ job'[j].read = job[j].read
             /\ job'[j].hash = job[j].hash /\ job'[j].handle = job[j].handle
             /\ job' \in [Jobs -> JobType]
             /\ \A x \in Jobs : x # j => job'[x] = job[x]
  BY <1>0, <1>1 DEF Goto, JobType
<1>2. CASE Goto(j, "failed") /\ UNCHANGED records
  <2>1. PICK r : r = [job[j] EXCEPT !.pc = "failed"]
    OBVIOUS
  <2>2. r \in JobType /\ job' = [job EXCEPT ![j] = r]
    BY <1>0, <1>2, <2>1 DEF JobType, Places, Goto
  <2>3. job'[j].pc = "failed" /\ job'[j].handle = job[j].handle
    BY <1>1, <1>2 DEF Places
  <2>4. RecordsOf(j)' = {}
    BY <1>0, <1>2, SameRecords DEF JobInv, Early
  <2>5. JobInv(j)' /\ TrailInv(j)'
    BY <1>0, <2>3, <2>4 DEF JobInv, TrailInv, At, Early, Late, HandedOver
  <2> QED
    BY <1>0, <1>2, <2>2, <2>5, OneActs DEF Typed
<1>3. CASE /\ Goto(j, "recorded")
           /\ records' = Append(records, [job |-> j, hash |-> job[j].read])
  <2>1. PICK h \in Read : h = job[j].read
    BY <1>0
  <2>2. /\ RecordsOf(j)' = RecordsOf(j) \cup {Len(records) + 1}
        /\ records'[Len(records) + 1].hash = h
        /\ \A n \in DOMAIN records : records'[n] = records[n]
        /\ \A x \in Jobs : x # j => RecordsOf(x)' = RecordsOf(x)
    BY <1>0, <1>3, <2>1, RecordsGrown
  <2>3. RecordsOf(j) = {} /\ RecordsOf(j)' = {Len(records) + 1}
    BY <1>0, <2>2 DEF JobInv, Early
  <2>4. /\ job'[j].pc = "recorded" /\ job'[j].hash = job[j].hash
        /\ job'[j].handle = job[j].handle /\ job' \in [Jobs -> JobType]
        /\ \A x \in Jobs : x # j => job'[x] = job[x]
    BY <1>1, <1>3 DEF Places
  <2>5. records' \in Seq([job : Jobs, hash : Read])
    <3>1. [job |-> j, hash |-> h] \in [job : Jobs, hash : Read]
      OBVIOUS
    <3> QED
      BY <1>0, <1>3, <2>1, <3>1 DEF Typed
  <2>6. Typed'
    BY <1>0, <2>4, <2>5 DEF Typed
  <2>7. JobInv(j)'
    BY <1>0, <2>3, <2>4 DEF JobInv, At, Early, Late, HandedOver
  <2>8. TrailInv(j)'
    <3>1. Doubt(h)
      BY <1>0, <2>1 DEF TrailInv, At
    <3> QED
      BY <1>0, <2>2, <2>3, <2>4, <3>1 DEF TrailInv, At, Late, HandedOver, Doubt
  <2>9. ASSUME NEW x \in Jobs, x # j PROVE JobInv(x)' /\ TrailInv(x)'
    <3>1. RecordsOf(x) \subseteq DOMAIN records
      BY DEF RecordsOf
    <3> QED
      BY <1>0, <2>2, <2>4, <2>9, <3>1, OthersKeep DEF IInv
  <2> QED
    BY <2>6, <2>7, <2>8, <2>9 DEF IInv
<1> QED
  BY <1>2, <1>3 DEF KeepRecord

\* The steps that leave the content that was read as it is, or read the acquired
\* one: opening an image and all that comes after it.
LEMMA LateSteps ==
  ASSUME IInv, NEW j \in Jobs,
         \/ OpenImage(j) \/ Mount(j) \/ ValidateDump(j) \/ Loaded(j)
         \/ Decide(j) \/ Write(j) \/ LookAgain(j)
  PROVE  IInv'
<1> DEFINE old == job[j]
<1>0. /\ Typed /\ JobInv(j) /\ TrailInv(j) /\ job \in [Jobs -> JobType]
      /\ old \in JobType /\ edits \in Nat /\ status \in EvidenceStatuses
      /\ Original \in Read /\ old.read \in Read
  BY DEF IInv, Typed, Read, JobType
<1>1. /\ UNCHANGED <<kind, soft, file, edits, records>> /\ old.pc \in Late
      /\ status' \in EvidenceStatuses
  <2>1. CASE Write(j)
    BY <1>0, <2>1 DEF Write, setting, At, Late, HandedOver, EvidenceStatuses
  <2>2. CASE ~Write(j)
    BY <1>0, <2>2 DEF OpenImage, Mount, ValidateDump, Loaded, Decide, LookAgain,
       others, setting, At, Late, HandedOver
  <2> QED
    BY <2>1, <2>2
<1>2. RecordsOf(j)' = RecordsOf(j) /\ \A n \in RecordsOf(j) : records'[n] = records[n]
  BY <1>1, SameRecords
<1>3. old.read = Original /\ RecordsOf(j) # {}
  BY <1>0, <1>1 DEF JobInv
\* What the step makes of the job.
<1>4. ASSUME NEW w \in (Late \cup {"failed"}) \ {"open"},
             NEW h \in {"none", "open", "closed"},
             job' = [job EXCEPT ![j] = [old EXCEPT !.pc = w, !.read = Original,
                                                   !.handle = h]],
             w = "mount" => h = "open",
             h = "open" => kind = "disk" /\ ~soft
      PROVE  IInv'
  <2>1. PICK r : r = [old EXCEPT !.pc = w, !.read = Original, !.handle = h]
    OBVIOUS
  <2>2. w \in Places
    BY DEF Places, Late
  <2>3. r \in JobType
    BY <1>0, <2>1, <2>2 DEF JobType
  <2>4. r.pc = w /\ r.read = Original /\ r.handle = h
    BY <1>0, <2>1 DEF JobType
  <2>5. job' = [job EXCEPT ![j] = r]
    BY <1>4, <2>1
  <2>6. job'[j] = r
    BY <1>0, <2>5
  <2>7. JobInv(j)'
    BY <1>0, <1>1, <1>2, <1>3, <1>4, <2>4, <2>6
       DEF JobInv, At, Early, Late, HandedOver
  <2>8. TrailInv(j)'
    BY <1>0, <1>1, <1>2, <1>4, <2>4, <2>6 DEF TrailInv, At, Late, HandedOver
  <2> QED
    BY <1>1, <2>3, <2>5, <2>7, <2>8, OneActs
<1>5. ASSUME NEW w \in (Late \cup {"failed"}) \ {"open", "mount"}, Goto(j, w)
      PROVE  IInv'
  <2>1. job' = [job EXCEPT ![j] = [old EXCEPT !.pc = w]]
    BY <1>5 DEF Goto
  <2>2. [old EXCEPT !.pc = w]
          = [old EXCEPT !.pc = w, !.read = Original, !.handle = old.handle]
    BY <1>0, <1>3 DEF JobType
  <2>3. /\ old.handle \in {"none", "open", "closed"}
        /\ old.handle = "open" => kind = "disk" /\ ~soft
    BY <1>0 DEF JobType, JobInv
  <2> QED
    BY <1>4, <1>5, <2>1, <2>2, <2>3
<1>6. CASE OpenImage(j)
  <2>1. CASE Goto(j, "failed")
    BY <1>5, <2>1
  <2>2. CASE ~Goto(j, "failed")
    <3>1. /\ file = Original /\ kind = "disk" /\ At(j, "open")
          /\ job' = [job EXCEPT ![j].pc = "mount", ![j].read = file,
                                ![j].handle = "open"]
      BY <1>6, <2>2 DEF OpenImage
    <3>2. job' = [job EXCEPT ![j] = [old EXCEPT !.pc = "mount", !.read = Original,
                                                !.handle = "open"]]
      BY <3>1
    <3>3. ~soft /\ "mount" \in Late
      BY <1>0, <3>1 DEF JobInv, At, Late
    <3> QED
      BY <1>4, <3>1, <3>2, <3>3
  <2> QED
    BY <2>1, <2>2
<1>7. CASE Mount(j)
  <2>1. CASE Goto(j, "loaded")
    BY <1>5, <2>1 DEF Late, HandedOver
  <2>2. CASE ~Goto(j, "loaded")
    <3>1. job' = [job EXCEPT ![j] = [old EXCEPT !.pc = "failed", !.handle = "closed"]]
      BY <1>7, <2>2 DEF Mount
    <3>2. [old EXCEPT !.pc = "failed", !.handle = "closed"]
            = [old EXCEPT !.pc = "failed", !.read = Original, !.handle = "closed"]
      BY <1>0, <1>3 DEF JobType
    <3>3. job' = [job EXCEPT ![j] = [old EXCEPT !.pc = "failed", !.read = Original,
                                                !.handle = "closed"]]
      BY <3>1, <3>2
    <3>4. PICK w \in (Late \cup {"failed"}) \ {"open"}, h \in {"none", "open", "closed"} :
            w = "failed" /\ h = "closed"
      OBVIOUS
    <3>5. job' = [job EXCEPT ![j] = [old EXCEPT !.pc = w, !.read = Original,
                                                !.handle = h]]
      BY <3>3, <3>4
    <3> QED
      BY <1>4, <3>4, <3>5
  <2> QED
    BY <2>1, <2>2
<1>8. CASE ValidateDump(j) \/ Loaded(j) \/ Decide(j) \/ Write(j) \/ LookAgain(j)
  <2>1. \E w \in {"failed", "loaded", "move", "writing", "done", "refused"} : Goto(j, w)
    BY <1>8 DEF ValidateDump, Loaded, Decide, Write, LookAgain
  <2> QED
    BY <1>5, <2>1 DEF Late, HandedOver
<1> QED
  BY <1>6, <1>7, <1>8

\* Every step keeps the inductive invariant.
LEMMA NextIInv == IInv /\ [Next]_vars => IInv'
<1> SUFFICES ASSUME IInv, [Next]_vars PROVE IInv'
  OBVIOUS
<1>1. ASSUME NEW j \in Jobs, Stage(j) PROVE IInv'
  BY <1>1, ReadingSteps, KeepStep, LateSteps DEF Stage
<1>2. ASSUME UNCHANGED <<kind, soft, records, job>>, Typed',
             UNCHANGED <<file, edits>> \/ edits' = edits + 1
      PROVE  IInv'
  <2>1. ASSUME NEW x \in Jobs PROVE JobInv(x)' /\ TrailInv(x)'
    BY <1>2, SameRecords, OthersKeep DEF IInv
  <2> QED
    BY <1>2, <2>1 DEF IInv
<1>3. CASE Edit
  <2>1. Typed'
    BY <1>3 DEF Edit, IInv, Typed, setting
  <2> QED
    BY <1>2, <1>3, <2>1 DEF Edit, setting
<1>4. CASE MovedElsewhere
  <2>1. status' \in EvidenceStatuses
    BY <1>4 DEF MovedElsewhere, IInv, Typed, EvidenceStatuses, EvidenceNext
  <2> QED
    BY <1>2, <1>4, <2>1 DEF MovedElsewhere, setting, IInv, Typed
<1>5. CASE UNCHANGED vars
  BY <1>2, <1>5 DEF vars, IInv, Typed
<1> QED
  BY <1>1, <1>3, <1>4, <1>5 DEF Next

-----------------------------------------------------------------------------
\* The inductive invariant holds in every reachable state.
THEOREM Invariance == Spec => []IInv
  BY InitIInv, NextIInv, PTL DEF Spec

\* The acquisition stage hands over, and open_image opens, only what was the
\* acquired content when it was read last, however the file is edited.
THEOREM HandsOver == Spec => []HandsOverOriginal
<1>1. IInv => HandsOverOriginal
  BY DEF IInv, JobInv, HandsOverOriginal, At, Late, HandedOver
<1> QED
  BY <1>1, Invariance, PTL

\* A stage that hands over has exactly one ACCESSED record, and that holds the
\* acquired hash unless the file was edited and put back.
THEOREM AccessRecorded == Spec => []AccessOnRecord
<1>1. IInv => AccessOnRecord
  <2> SUFFICES ASSUME IInv, NEW j \in Jobs
               PROVE  /\ Cardinality(RecordsOf(j)) <= 1
                      /\ At(j, "done") =>
                           /\ RecordsOf(j) # {}
                           /\ edits < 2 => \A n \in RecordsOf(j) :
                                             records[n].hash = Original
    BY DEF AccessOnRecord, RecordsOf
  <2>1. JobInv(j) /\ TrailInv(j) /\ edits \in Nat
    BY DEF IInv, Typed
  <2>2. Cardinality(RecordsOf(j)) <= 1
    <3>1. CASE RecordsOf(j) = {}
      BY <3>1, FS_EmptySet
    <3>2. CASE RecordsOf(j) # {}
      <4>1. PICK n : n \in RecordsOf(j)
        BY <3>2
      <4>2. RecordsOf(j) = {n}
        BY <2>1, <4>1 DEF JobInv
      <4>3. Cardinality({n}) = 1
        BY FS_Singleton
      <4> QED
        BY <4>2, <4>3
    <3> QED
      BY <3>1, <3>2
  <2>3. At(j, "done") => /\ RecordsOf(j) # {}
                         /\ edits < 2 => \A n \in RecordsOf(j) :
                                           records[n].hash = Original
    BY <2>1 DEF JobInv, TrailInv, At, Late, HandedOver
  <2> QED
    BY <2>2, <2>3
<1> QED
  BY <1>1, Invariance, PTL

\* A stage that fails leaves a handle open only after evidence on record was
\* loaded from a disk image.
THEOREM HandlesExplained == Spec => []NoHandleForNothing
<1>1. IInv => NoHandleForNothing
  BY DEF IInv, JobInv, NoHandleForNothing, RecordsOf
<1> QED
  BY <1>1, Invariance, PTL

\* The acquisition stage, as a run checks it on a small instance: what it reads,
\* records, opens and hands over, and the types.
THEOREM AcquisitionIsSafe == Spec => []AcquisitionSafe
<1>1. IInv => TypeOK
  BY DEF IInv, Typed, TypeOK, JobType, Places, Early, Late
<1> QED
  BY <1>1, Invariance, HandsOver, AccessRecorded, HandlesExplained, PTL DEF AcquisitionSafe

-----------------------------------------------------------------------------
(* The stores of the analysis: any number of overlapping jobs, findings,   *)
(* versions of the file and lengths of a chunk.                            *)
(*                                                                         *)
(* One job at a time has its own templates bound, the one with the lock,   *)
(* and what it puts back are the bare ones. The graph in memory is ahead   *)
(* of its file only while a job is between the two.                        *)
CONSTANTS Analysed, Earlier, FindingsOf, Lines, Lengths, Size, Overlap
VARIABLES pc, call, lock, templates, orig, sources, vectors, iocs, graph, graphFile, version, row, docs, indexing
K == INSTANCE Knowledge WITH Jobs <- Analysed, file <- graphFile

Bare == {"bare", "found", "waiting", "bound"}
Past == {"indexed", "grown", "over"}
Asking == {"idle", "next", "raised", "completed"}
KnowTypes ==
  /\ pc \in [Analysed -> Asking \cup Bare \cup Past] /\ call \in [Analysed -> {"analyze", "summarize"}]
  /\ lock \in Analysed \cup {0} /\ DOMAIN orig = Analysed /\ sources \in [Analysed -> SUBSET Analysed]
  /\ row \in {"pending", "complete"} /\ version \in 1..Len(Lines)

\* The one job that is bound holds the lock, and its context is bound.
LockInv == \A j \in Analysed : pc[j] = "bound" => lock = j /\ templates = sources[j]

\* Only jobs past their analysis have stored anything, a job that is not in a call has
\* no context.
EchoInv ==
  /\ \A v \in vectors : v.job \in Analysed /\ pc[v.job] \in Past
  /\ \A r \in iocs : r.source \in Analysed /\ pc[r.source] \in Past
  /\ \A j \in Analysed : \A k \in sources[j] : pc[k] \in Past
  /\ \A j \in Analysed : pc[j] \in Past \cup {"idle", "completed"} => sources[j] = {}

\* Indicators of a job are stored together.
StoreInv == K!FileIsGraph /\ \A r \in iocs : K!Entries(r.source) \subseteq iocs

\* What a reindex holds are the lines of some version.
LinesOf(v) == {[id |-> n, text |-> Lines[v][n]] : n \in DOMAIN Lines[v]}
DocsInv == K!CompleteIsThere /\ (indexing # {} => \E v \in 1..version : indexing = LinesOf(v))

KnowIInv == K!Sensible /\ KnowTypes /\ LockInv /\ EchoInv /\ StoreInv /\ DocsInv

LEMMA KnowInitHolds == K!Sensible /\ K!Init => KnowIInv
<1> SUFFICES ASSUME K!Sensible, K!Init PROVE KnowIInv
  OBVIOUS
<1>1. KnowTypes
  <2>1. 1 \in 1..Len(Lines)
    BY DEF K!Sensible
  <2>2. {} \in SUBSET Analysed
    OBVIOUS
  <2> QED
    BY <2>1, <2>2 DEF K!Init, KnowTypes, Asking, Bare, Past
<1>2. LockInv
  BY DEF K!Init, LockInv
<1>3. EchoInv
  <2>1. \A v \in vectors : v.job \in Earlier
    BY DEF K!Init, K!Vectors
  <2>2. \A r \in iocs : r.source \in Earlier
    BY DEF K!Init, K!Entries
  <2> QED
    BY <2>1, <2>2 DEF K!Init, EchoInv, K!Sensible, Past
<1>4. StoreInv
  <2>1. K!FileIsGraph
    BY DEF K!Init, K!FileIsGraph
  <2>2. \A r \in iocs : K!Entries(r.source) \subseteq iocs
    BY DEF K!Init, K!Entries
  <2> QED
    BY <2>1, <2>2 DEF StoreInv
<1>5. DocsInv
  BY DEF K!Init, DocsInv, K!CompleteIsThere
<1> QED
  BY <1>1, <1>2, <1>3, <1>4, <1>5 DEF KnowIInv

-----------------------------------------------------------------------------
(* An analysis touches no store                                            *)

\* What a job may be shown is of jobs that are past their analysis.
LEMMA KnownPast == ASSUME KnowIInv, NEW j \in Analysed PROVE K!Known(j) \in SUBSET Analysed /\ \A k \in K!Known(j) : pc[k] \in Past
BY DEF KnowIInv, EchoInv, K!Known, K!Lookup

LEMMA StoresKeep ==
  ASSUME KnowIInv, UNCHANGED <<K!stores, K!dataset>>, KnowTypes', \A j \in Analysed : pc[j] \in Past => pc'[j] \in Past
  PROVE  /\ StoreInv' /\ DocsInv'
         /\ \A v \in vectors' : v.job \in Analysed /\ pc'[v.job] \in Past
         /\ \A r \in iocs' : r.source \in Analysed /\ pc'[r.source] \in Past
<1>1. /\ vectors' = vectors /\ iocs' = iocs /\ graph' = graph /\ graphFile' = graphFile
      /\ version' = version /\ row' = row /\ docs' = docs /\ indexing' = indexing
  BY DEF K!stores, K!dataset
<1>2. StoreInv'
  BY <1>1 DEF KnowIInv, StoreInv, K!FileIsGraph, K!Entries
<1>3. DocsInv'
  BY <1>1 DEF KnowIInv, DocsInv, K!CompleteIsThere, K!Ids, LinesOf
<1> QED
  BY <1>1, <1>2, <1>3 DEF KnowIInv, EchoInv

LEMMA AnalyseStep == ASSUME KnowIInv, NEW j \in Analysed, K!Analyse(j) PROVE KnowIInv'
<1>0. K!Sensible /\ KnowTypes /\ LockInv /\ EchoInv /\ j # 0
  BY DEF KnowIInv, K!Sensible
<1> DEFINE Other == \A k \in Analysed \ {j} : pc'[k] = pc[k] /\ sources'[k] = sources[k]
<1>1. /\ UNCHANGED <<K!stores, K!dataset>> /\ Other /\ pc[j] \notin Past /\ pc'[j] \in Asking \cup Bare
      /\ DOMAIN pc' = Analysed /\ DOMAIN sources' = Analysed
  <2>1. CASE K!NoModel(j) \/ K!AskBare(j) \/ K!ReadTemplates(j) \/ K!Bind(j) \/ K!Release(j)
    BY <1>0, <2>1 DEF K!NoModel, K!AskBare, K!ReadTemplates, K!Bind, K!Release, K!Goto, KnowTypes, Asking, Bare, Past
  <2>2. CASE K!BuildContext(j)
    BY <1>0, <2>2 DEF K!BuildContext, KnowTypes, Asking, Bare, Past
  <2>3. CASE K!Continue(j)
    BY <1>0, <2>3 DEF K!Continue, KnowTypes, Asking, Bare, Past
  <2> QED
    BY <2>1, <2>2, <2>3 DEF K!Analyse
<1>2. sources'[j] \in SUBSET Analysed /\ (\A k \in sources'[j] : pc[k] \in Past) /\ (pc'[j] \in {"idle", "completed"} => sources'[j] = {})
  <2>1. CASE K!BuildContext(j)
    <3>1. PICK found \in {K!Known(j), {}} : sources' = [sources EXCEPT ![j] = found] /\ pc' = [pc EXCEPT ![j] = IF found = {} THEN "bare" ELSE "found"]
      BY <2>1 DEF K!BuildContext
    <3>2. sources'[j] = found /\ pc'[j] \in {"bare", "found"}
      BY <1>0, <3>1 DEF KnowTypes
    <3> QED
      BY <3>2, KnownPast
  <2>2. CASE K!Continue(j)
    BY <1>0, <2>2 DEF K!Continue, KnowTypes
  <2>3. CASE K!NoModel(j) \/ K!AskBare(j) \/ K!ReadTemplates(j) \/ K!Bind(j) \/ K!Release(j)
    <3>1. sources' = sources /\ pc'[j] \notin {"idle", "completed"}
      BY <1>0, <2>3 DEF K!NoModel, K!AskBare, K!ReadTemplates, K!Bind, K!Release, K!Goto, KnowTypes
    <3> QED
      BY <1>0, <3>1 DEF KnowTypes, EchoInv
  <2> QED
    BY <2>1, <2>2, <2>3 DEF K!Analyse
<1>3. LockInv' /\ lock' \in Analysed \cup {0}
  <2>1. CASE K!Bind(j)
    <3>1. lock = 0 /\ lock' = j /\ templates' = sources[j] /\ sources' = sources
      BY <2>1 DEF K!Bind
    <3>2. \A k \in Analysed \ {j} : pc'[k] # "bound"
      BY <1>0, <1>1, <3>1 DEF LockInv, K!Sensible
    <3> QED
      BY <3>1, <3>2 DEF LockInv
  <2>2. CASE K!Release(j)
    <3>1. pc[j] = "bound" /\ pc'[j] # "bound" /\ lock' = 0
      BY <1>0, <2>2 DEF K!Release, K!Goto, KnowTypes
    <3>2. \A k \in Analysed \ {j} : pc'[k] # "bound"
      BY <1>0, <1>1, <3>1 DEF LockInv
    <3> QED
      BY <3>1, <3>2 DEF LockInv
  <2>3. CASE K!NoModel(j) \/ K!AskBare(j) \/ K!ReadTemplates(j) \/ K!BuildContext(j) \/ K!Continue(j)
    <3>1. lock' = lock /\ templates' = templates /\ pc'[j] # "bound"
      BY <1>0, <2>3 DEF K!NoModel, K!AskBare, K!ReadTemplates, K!BuildContext, K!Continue, K!Goto, KnowTypes
    <3> QED
      BY <1>0, <1>1, <3>1 DEF LockInv, KnowTypes
  <2> QED
    BY <2>1, <2>2, <2>3 DEF K!Analyse
<1>4. KnowTypes'
  <2>1. call' \in [Analysed -> {"analyze", "summarize"}] /\ DOMAIN orig' = Analysed
    BY <1>0 DEF K!Analyse, K!NoModel, K!AskBare, K!ReadTemplates, K!BuildContext, K!Continue, K!Bind, K!Release, KnowTypes
  <2>2. pc' \in [Analysed -> Asking \cup Bare \cup Past] /\ sources' \in [Analysed -> SUBSET Analysed]
    <3>1. pc' = [k \in Analysed |-> pc'[k]] /\ sources' = [k \in Analysed |-> sources'[k]]
      BY <1>0, <1>1 DEF K!Analyse, K!NoModel, K!AskBare, K!ReadTemplates, K!BuildContext, K!Continue, K!Bind, K!Release, K!Goto, KnowTypes
    <3>2. \A k \in Analysed : pc'[k] \in Asking \cup Bare \cup Past /\ sources'[k] \in SUBSET Analysed
      BY <1>0, <1>1, <1>2 DEF KnowTypes
    <3> QED
      BY <3>1, <3>2
  <2> QED
    BY <1>0, <1>1, <1>3, <2>1, <2>2 DEF KnowTypes, K!dataset
<1>5. \A k \in Analysed : pc[k] \in Past => pc'[k] \in Past
  BY <1>1
<1>6. EchoInv'
  <2>1. \A k \in Analysed : \A l \in sources'[k] : l \in Analysed /\ pc[l] \in Past
    BY <1>0, <1>1, <1>2 DEF EchoInv, KnowTypes
  <2>2. \A k \in Analysed : \A l \in sources'[k] : pc'[l] \in Past
    BY <1>5, <2>1
  <2>3. \A k \in Analysed : pc'[k] \in Past \cup {"idle", "completed"} => sources'[k] = {}
    BY <1>0, <1>1, <1>2 DEF EchoInv, Asking, Bare, Past
  <2> QED
    BY <1>1, <1>4, <1>5, <2>2, <2>3, StoresKeep DEF EchoInv
<1> QED
  BY <1>0, <1>1, <1>3, <1>4, <1>5, <1>6, StoresKeep DEF KnowIInv

-----------------------------------------------------------------------------
(* The hooks of a completed job, and the death of the process              *)

LEMMA HookStep == ASSUME KnowIInv, NEW j \in Analysed, K!Hook(j) PROVE KnowIInv'
<1>0. K!Sensible /\ KnowTypes /\ LockInv /\ EchoInv /\ StoreInv /\ DocsInv
  BY DEF KnowIInv
<1>1. /\ pc[j] \in {"completed", "indexed", "grown"} /\ pc'[j] \in Past /\ (\A k \in Analysed \ {j} : pc'[k] = pc[k])
      /\ pc' \in [Analysed -> Asking \cup Bare \cup Past]
  BY <1>0 DEF K!Hook, K!IndexArtefacts, K!GrowGraph, K!StoreIocs, K!Goto, KnowTypes, Past
<1>2. call' = call /\ lock' = lock /\ templates' = templates /\ orig' = orig /\ sources' = sources /\ UNCHANGED K!dataset
  BY DEF K!Hook, K!IndexArtefacts, K!GrowGraph, K!StoreIocs
<1>3. KnowTypes'
  BY <1>0, <1>1, <1>2 DEF KnowTypes, K!dataset
<1>4. LockInv'
  BY <1>0, <1>1, <1>2 DEF LockInv, Past
<1>5. EchoInv'
  <2>1. \A v \in vectors' : v \in vectors \/ v.job = j
    BY DEF K!Hook, K!IndexArtefacts, K!GrowGraph, K!StoreIocs, K!Vectors
  <2>2. \A r \in iocs' : r \in iocs \/ r.source = j
    BY DEF K!Hook, K!IndexArtefacts, K!GrowGraph, K!StoreIocs, K!Entries
  <2>3. \A k \in Analysed : pc[k] \in Past => pc'[k] \in Past
    BY <1>1
  <2>4. \A v \in vectors' : v.job \in Analysed /\ pc'[v.job] \in Past
    BY <1>0, <1>1, <2>1, <2>3 DEF EchoInv
  <2>5. \A r \in iocs' : r.source \in Analysed /\ pc'[r.source] \in Past
    BY <1>0, <1>1, <2>2, <2>3 DEF EchoInv
  <2>6. \A k \in Analysed : \A l \in sources[k] : l \in Analysed /\ pc'[l] \in Past
    BY <1>0, <2>3 DEF EchoInv, KnowTypes
  <2>7. \A k \in Analysed : pc'[k] \in Past \cup {"idle", "completed"} => sources[k] = {}
    BY <1>0, <1>1 DEF EchoInv, Past
  <2> QED
    BY <1>2, <2>4, <2>5, <2>6, <2>7 DEF EchoInv
<1>6. StoreInv'
  <2>1. K!FileIsGraph'
    BY <1>0 DEF K!Hook, K!IndexArtefacts, K!GrowGraph, K!StoreIocs, StoreInv, K!FileIsGraph
  <2>2. iocs' = iocs \/ iocs' = iocs \cup K!Entries(j)
    BY DEF K!Hook, K!IndexArtefacts, K!GrowGraph, K!StoreIocs
  <2>3. \A r \in K!Entries(j) : r.source = j
    BY DEF K!Entries
  <2> QED
    BY <1>0, <2>1, <2>2, <2>3 DEF StoreInv, K!Entries
<1>7. DocsInv'
  BY <1>0, <1>2 DEF DocsInv, K!CompleteIsThere, K!Ids, LinesOf, K!dataset
<1> QED
  BY <1>0, <1>3, <1>4, <1>5, <1>6, <1>7 DEF KnowIInv

LEMMA RestartStep == ASSUME KnowIInv, K!Restart PROVE KnowIInv'
<1>0. K!Sensible /\ KnowTypes /\ EchoInv /\ StoreInv /\ DocsInv
  BY DEF KnowIInv
<1>1. /\ graph' = graphFile /\ graphFile' = graphFile /\ vectors' = vectors /\ iocs' = iocs /\ call' = call /\ lock' = 0
      /\ version' = version /\ row' = row /\ docs' = docs /\ indexing' = {} /\ sources' = [k \in Analysed |-> {}]
      /\ orig' = [k \in Analysed |-> K!Plain] /\ pc' = [k \in Analysed |-> IF pc[k] = "idle" /\ call[k] = "analyze" THEN "idle" ELSE "over"]
  BY DEF K!Restart
<1>2. KnowTypes'
  <2>1. sources' \in [Analysed -> SUBSET Analysed] /\ pc' \in [Analysed -> Asking \cup Bare \cup Past] /\ DOMAIN orig' = Analysed
    BY <1>1 DEF Asking, Past
  <2> QED
    BY <1>0, <1>1, <2>1 DEF KnowTypes
<1>3. LockInv'
  BY <1>1 DEF LockInv
<1>4. EchoInv'
  BY <1>0, <1>1 DEF EchoInv, Past
<1>5. StoreInv'
  BY <1>0, <1>1 DEF StoreInv, K!FileIsGraph, K!Entries
<1>6. DocsInv'
  BY <1>0, <1>1 DEF DocsInv, K!CompleteIsThere, K!Ids
<1> QED
  BY <1>0, <1>2, <1>3, <1>4, <1>5, <1>6 DEF KnowIInv

-----------------------------------------------------------------------------
(* The dataset                                                             *)

LEMMA DatasetStep ==
  ASSUME KnowIInv, K!EditFile \/ K!ReadDataset \/ K!IndexingFails \/ K!AddDocuments
  PROVE  KnowIInv'
<1>0. K!Sensible /\ KnowTypes /\ LockInv /\ EchoInv /\ StoreInv /\ DocsInv
  BY DEF KnowIInv
<1>1. UNCHANGED <<K!analysis, K!stores>>
  BY DEF K!EditFile, K!ReadDataset, K!IndexingFails, K!AddDocuments
<1>2. LockInv' /\ EchoInv' /\ StoreInv'
  BY <1>0, <1>1 DEF LockInv, EchoInv, StoreInv, K!FileIsGraph, K!Entries, K!analysis, K!stores
<1>3. version' \in 1..Len(Lines) /\ version <= version' /\ row' \in {"pending", "complete"} /\ version \in Nat
  BY <1>0 DEF K!EditFile, K!ReadDataset, K!IndexingFails, K!AddDocuments, KnowTypes, K!Sensible
<1>4. KnowTypes'
  BY <1>0, <1>1, <1>3 DEF KnowTypes, K!analysis
<1>5. 1..version \subseteq 1..version'
  BY <1>3, <1>4 DEF KnowTypes, K!Sensible
<1>6. DocsInv'
  <2>1. CASE K!EditFile
    BY <1>0, <1>5, <2>1 DEF K!EditFile, DocsInv, K!CompleteIsThere, K!Ids, LinesOf
  <2>2. CASE K!ReadDataset
    <3>1. indexing' = LinesOf(version) /\ version' = version /\ row' = row /\ docs' = docs
      BY <2>2 DEF K!ReadDataset, K!ReadLines, K!ToSet, LinesOf
    <3>2. version \in 1..version'
      BY <1>0, <3>1 DEF KnowTypes, K!Sensible
    <3> QED
      BY <1>0, <3>1, <3>2 DEF DocsInv, K!CompleteIsThere, K!Ids, LinesOf
  <2>3. CASE K!IndexingFails
    BY <1>0, <2>3 DEF K!IndexingFails, DocsInv, K!CompleteIsThere, K!Ids
  <2>4. CASE K!AddDocuments
    <3>1. /\ indexing # {} /\ docs' = docs \cup {d \in indexing : d.id \notin K!Ids(docs)}
          /\ indexing' = {} /\ version' = version /\ row' \in {row, "complete"}
      BY <2>4 DEF K!AddDocuments
    <3>2. PICK v \in 1..version : indexing = LinesOf(v)
      BY <1>0, <3>1 DEF DocsInv
    <3>3. \A n \in DOMAIN Lines[v] : n \in K!Ids(docs')
      <4> SUFFICES ASSUME NEW n \in DOMAIN Lines[v], n \notin K!Ids(docs) PROVE n \in K!Ids(docs')
        BY <3>1 DEF K!Ids
      <4>1. [id |-> n, text |-> Lines[v][n]] \in indexing
        BY <3>2 DEF LinesOf
      <4>2. [id |-> n, text |-> Lines[v][n]] \in docs'
        BY <3>1, <4>1
      <4> QED
        BY <4>2 DEF K!Ids
    <3> QED
      BY <3>1, <3>3 DEF DocsInv, K!CompleteIsThere
  <2> QED
    BY <2>1, <2>2, <2>3, <2>4
<1> QED
  BY <1>0, <1>2, <1>4, <1>6 DEF KnowIInv

-----------------------------------------------------------------------------
LEMMA KnowNextHolds == KnowIInv /\ [K!Next]_K!vars => KnowIInv'
<1>1. ASSUME KnowIInv, UNCHANGED K!vars PROVE KnowIInv'
  <2>1. UNCHANGED <<K!analysis, K!stores, K!dataset>>
    BY <1>1 DEF K!vars
  <2> QED
    BY <1>1, <2>1 DEF K!analysis, K!stores, K!dataset, KnowIInv, KnowTypes, LockInv, EchoInv, StoreInv, K!FileIsGraph, K!Entries,
      DocsInv, K!CompleteIsThere, K!Ids, LinesOf
<1> QED
  BY <1>1, AnalyseStep, HookStep, RestartStep, DatasetStep DEF K!Next

LEMMA KnowInductive == K!Sensible /\ K!Spec => []KnowIInv
<1> QED
  BY KnowInitHolds, KnowNextHolds, PTL DEF K!Spec

\* A lookup accepts the type under which a field that it asks for is stored.
LEMMA AcceptsStored == ASSUME NEW f \in K!Fields, f \notin {"url", "listed"} PROVE K!StoredType(f) \in K!Accepted(K!StoredType(f))
BY DEF K!Fields, K!StoredType, K!Accepted

LEMMA FoundAgainHere == KnowIInv => K!FoundAgain
<1> SUFFICES ASSUME KnowIInv, NEW j \in Analysed, NEW k \in Analysed, iocs \cap K!Entries(j) # {}, NEW a \in K!Asked(FindingsOf[j]) \cap FindingsOf[k]
             PROVE  \E r \in K!Lookup(FindingsOf[k]) : r.value = a.value /\ r.source = j
  BY DEF K!FoundAgain
<1>1. PICK q \in iocs : q \in K!Entries(j)
  OBVIOUS
<1>2. K!Entries(j) \subseteq iocs
  BY <1>1 DEF KnowIInv, StoreInv, K!Entries
<1> DEFINE r == [type |-> K!StoredType(a.field), value |-> a.value, source |-> j]
<1>3. a \in FindingsOf[j] /\ a.field \in K!Fields /\ a.field \notin {"url", "listed"} /\ a \in K!Asked(FindingsOf[k])
  BY DEF K!Asked, KnowIInv, K!Sensible
<1>4. r \in iocs
  BY <1>2, <1>3 DEF K!Entries
<1>5. r.type \in K!Accepted(K!StoredType(a.field))
  BY <1>3, AcceptsStored
<1>6. r \in K!Lookup(FindingsOf[k])
  BY <1>3, <1>4, <1>5 DEF K!Lookup
<1> QED
  BY <1>6

LEMMA NoEchoHere == KnowIInv => K!NoEcho
<1> SUFFICES ASSUME KnowIInv, NEW j \in Analysed PROVE j \notin sources[j] /\ \A k \in sources[j] : pc[k] \notin Bare
  BY DEF K!NoEcho, Bare
<1> QED
  BY DEF KnowIInv, EchoInv, Bare, Past

\* Numbers have a least one.
LEMMA Least ==
  ASSUME NEW S \in SUBSET Nat, S # {}
  PROVE  \E t \in S : \A u \in S : ~ (u < t)
<1> DEFINE R == OpToRel(<, Nat)
<1>1. IsWellFoundedOn(R, Nat)
  BY NatLessThanWellFounded
<1>2. PICK t \in S : \A n \in S : ~ (<<n, t>> \in R)
  <2> HIDE DEF R
  <2> QED
    BY <1>1, WFMin
<1>3. \A n \in S : n < t => <<n, t>> \in R
  BY DEF OpToRel
<1> HIDE DEF R
<1> QED
  BY <1>2, <1>3

\* What holds of 1 and passes from each number to the next holds up to a bound.
LEMMA OneByOne ==
  ASSUME NEW max \in Nat, NEW S, 1 \in S, \A n \in 1..(max - 1) : n \in S => n + 1 \in S
  PROVE  1..max \subseteq S
<1> DEFINE B == (1..max) \ S
<1>1. SUFFICES ASSUME B # {} PROVE FALSE
  OBVIOUS
<1>2. PICK t \in B : \A u \in B : ~ (u < t)
  <2>1. B \in SUBSET Nat
    OBVIOUS
  <2> HIDE DEF B
  <2> QED
    BY <1>1, <2>1, Least
<1>3. t \in 2..max /\ t \notin S
  <2>1. t \in 1..max /\ t \notin S /\ t # 1
    OBVIOUS
  <2> QED
    BY <2>1
<1>4. t - 1 \in 1..(max - 1) /\ t - 1 \notin B
  BY <1>2, <1>3
<1> QED
  BY <1>3, <1>4

\* What holds of 0 and passes from each number to the next holds up to a bound.
LEMMA StepByStep ==
  ASSUME NEW max \in Nat, NEW S, 0 \in S, \A n \in 0..(max - 1) : n \in S => n + 1 \in S
  PROVE  0..max \subseteq S
<1> DEFINE R == OpToRel(<, Nat)
           B == (0..max) \ S
<1>1. SUFFICES ASSUME B # {} PROVE FALSE
  OBVIOUS
<1>2. IsWellFoundedOn(R, Nat)
  BY NatLessThanWellFounded
<1>3. PICK t \in B : \A n \in B : ~ (<<n, t>> \in R)
  <2>1. B \subseteq Nat
    OBVIOUS
  <2> HIDE DEF R, B
  <2> QED
    BY <1>1, <1>2, <2>1, WFMin
<1>4. \A n \in B : ~ (n < t)
  <2>1. t \in Nat /\ \A n \in B : n \in Nat
    OBVIOUS
  <2>2. \A n \in Nat : n < t => <<n, t>> \in R
    BY <2>1 DEF OpToRel
  <2> HIDE DEF R, B
  <2> QED
    BY <1>3, <2>1, <2>2
<1>5. t \in 1..max /\ t \notin S
  <2>1. t \in 0..max /\ t \notin S /\ t # 0
    OBVIOUS
  <2> QED
    BY <2>1
<1>6. t - 1 \in 0..(max - 1) /\ t - 1 \notin B
  BY <1>4, <1>5
<1> QED
  BY <1>5, <1>6

\* Anything may be done as often as one likes, h saying what is done the n-th time.
Repeats(g, v, h, max) == g[0] = v /\ \A n \in 1..max : g[n] = h[<<n, g[n - 1]>>]
LEMMA Repeated ==
  ASSUME NEW V, NEW v \in V, NEW max \in Nat, NEW h \in [(1..max) \X V -> V]
  PROVE  \E g \in [0..max -> V] : Repeats(g, v, h, max)
<1> DEFINE Run(g, n) == g \in [0..n -> V] /\ g[0] = v /\ \A i \in 1..n : g[i] = h[<<i, g[i - 1]>>]
           S == {n \in 0..max : \E g : Run(g, n)}
<1>1. 0 \in S
  <2> DEFINE g == [i \in 0..0 |-> v]
  <2>1. g \in [0..0 -> V] /\ g[0] = v /\ 0 \in 0..max
    OBVIOUS
  <2>2. \A i \in 1..0 : FALSE
    OBVIOUS
  <2> HIDE DEF g
  <2>3. Run(g, 0)
    BY <2>1, <2>2
  <2> QED
    BY <2>1, <2>3
<1>2. ASSUME NEW n \in 0..(max - 1), n \in S PROVE n + 1 \in S
  <2>1. PICK g : Run(g, n)
    BY <1>2
  <2> DEFINE e == [i \in 0..(n + 1) |-> IF i = n + 1 THEN h[<<n + 1, g[n]>>] ELSE g[i]]
  <2>2. \A i \in 0..n : i \in 0..(n + 1) /\ i # n + 1 /\ g[i] \in V
    BY <2>1
  <2>3. n \in 0..n /\ n + 1 \in 0..(n + 1) /\ n + 1 \in 0..max /\ n + 1 \in 1..max /\ 0 \in 0..n
    OBVIOUS
  <2>4. \A i \in 0..(n + 1) : i = n + 1 \/ i \in 0..n
    OBVIOUS
  <2>5. e \in [0..(n + 1) -> V]
    <3>1. h[<<n + 1, g[n]>>] \in V
      BY <2>2, <2>3
    <3> QED
      BY <2>2, <2>4, <3>1
  <2>6. (\A i \in 0..n : e[i] = g[i]) /\ e[n + 1] = h[<<n + 1, g[n]>>]
    BY <2>2, <2>3
  <2>7. \A i \in 1..(n + 1) : i - 1 \in 0..n /\ (i = n + 1 \/ i \in 1..n) /\ (i \in 1..n => i \in 0..n)
    OBVIOUS
  <2> HIDE DEF e
  <2>8. \A i \in 1..(n + 1) : e[i] = h[<<i, e[i - 1]>>]
    <3> SUFFICES ASSUME NEW i \in 1..(n + 1) PROVE e[i] = h[<<i, e[i - 1]>>]
      OBVIOUS
    <3>1. CASE i = n + 1
      <4>1. i - 1 = n
        BY <3>1
      <4> QED
        BY <2>3, <2>6, <3>1, <4>1
    <3>2. CASE i \in 1..n
      BY <2>1, <2>6, <2>7, <3>2
    <3> QED
      BY <2>7, <3>1, <3>2
  <2>9. Run(e, n + 1)
    BY <2>1, <2>3, <2>5, <2>6, <2>8
  <2> QED
    BY <2>3, <2>9
<1>3. 0..max \subseteq S
  <2> HIDE DEF S
  <2> QED
    BY <1>1, <1>2, StepByStep
<1>4. max \in S
  BY <1>3
<1> QED
  BY <1>4 DEF Repeats

\* The chunks there may be of a paragraph, one after another: each is as long as it may
\* be and begins after the last.
IsCut(g, length) ==
  /\ g[1] = K!From(0, length)
  /\ \A n \in 2..(length + 1) : g[n] = K!From(K!After(g[n - 1]), length)

LEMMA CutExists ==
  ASSUME NEW length \in Nat, Size \in Nat \ {0}, Overlap \in Nat
  PROVE  \E g \in [1..(length + 1) -> [first : Nat, last : Nat]] : IsCut(g, length)
<1> DEFINE V == [first : Nat, last : Nat]
           h == [p \in (1..length) \X V |-> K!From(K!After(p[2]), length)]
           v == K!From(0, length)
<1>1. \A s \in Nat : K!From(s, length) \in V
  BY DEF K!From
<1>2. \A c \in V : K!After(c) \in Nat
  BY DEF K!After
<1>3. v \in V /\ h \in [(1..length) \X V -> V]
  BY <1>1, <1>2
<1>4. \A n \in 1..length, c \in V : h[<<n, c>>] = K!From(K!After(c), length)
  OBVIOUS
<1> HIDE DEF V, h, v
<1>5. PICK f \in [0..length -> V] : Repeats(f, v, h, length)
  BY <1>3, Repeated
<1> DEFINE g == [n \in 1..(length + 1) |-> f[n - 1]]
<1>6. 0 \in 0..length /\ 1 \in 1..(length + 1) /\ \A n \in 1..(length + 1) : n - 1 \in 0..length
  OBVIOUS
<1>7. g \in [1..(length + 1) -> V] /\ g[1] = v
  BY <1>5, <1>6 DEF Repeats
<1>8. \A n \in 2..(length + 1) : n - 1 \in 1..length /\ n - 1 \in 1..(length + 1) /\ n \in 1..(length + 1)
  OBVIOUS
<1>9. \A n \in 2..(length + 1) : g[n] = K!From(K!After(g[n - 1]), length)
  BY <1>4, <1>5, <1>7, <1>8 DEF Repeats
<1> HIDE DEF g
<1> QED
  BY <1>7, <1>9 DEF IsCut, V, v

\* Of a paragraph's length: chunk by chunk, as far as its end and beyond.
Cut(length) ==
  CHOOSE g : g = [n \in 1..(length + 1) |-> IF n = 1 THEN K!From(0, length) ELSE K!From(K!After(g[n - 1]), length)]

LEMMA CutSteps ==
  ASSUME NEW length \in Nat, Size \in Nat \ {0}, Overlap \in Nat
  PROVE  IsCut(Cut(length), length)
<1> DEFINE Next1(g) == [n \in 1..(length + 1) |-> IF n = 1 THEN K!From(0, length) ELSE K!From(K!After(g[n - 1]), length)]
           c == Cut(length)
<1>1. PICK g \in [1..(length + 1) -> [first : Nat, last : Nat]] : IsCut(g, length)
  BY CutExists
<1>2. \A n \in 1..(length + 1) : n = 1 \/ n \in 2..(length + 1)
  OBVIOUS
<1>3. \A n \in 1..(length + 1) : g[n] = IF n = 1 THEN K!From(0, length) ELSE K!From(K!After(g[n - 1]), length)
  BY <1>1, <1>2 DEF IsCut
<1>4. g = Next1(g)
  BY <1>3
<1>5. c = Next1(c)
  BY <1>4 DEF Cut
<1>6. 1 \in 1..(length + 1) /\ \A n \in 2..(length + 1) : n \in 1..(length + 1) /\ n # 1
  OBVIOUS
<1> HIDE DEF c
<1>7. c[1] = K!From(0, length) /\ \A n \in 2..(length + 1) : c[n] = K!From(K!After(c[n - 1]), length)
  BY <1>5, <1>6
<1> QED
  BY <1>7 DEF IsCut, c

\* Each chunk begins as far on as its number says, at least, and ends where it may.
LEMMA CutAdvances ==
  ASSUME NEW length \in Nat, Size \in Nat \ {0}, Overlap \in Nat, NEW g, IsCut(g, length)
  PROVE  \A n \in 1..(length + 1) :
           /\ g[n].first \in Nat /\ n - 1 <= g[n].first
           /\ g[n].last = IF g[n].first + Size < length THEN g[n].first + Size ELSE length
<1> DEFINE Fine(n) == /\ g[n].first \in Nat /\ n - 1 <= g[n].first
                      /\ g[n].last = IF g[n].first + Size < length THEN g[n].first + Size ELSE length
           S == {n \in 1..(length + 1) : Fine(n)}
           max == length + 1
<1>1. 1 \in S
  <2>1. g[1].first = 0 /\ g[1].last = IF 0 + Size < length THEN 0 + Size ELSE length
    BY DEF IsCut, K!From
  <2> QED
    BY <2>1
<1>2. ASSUME NEW n \in 1..(max - 1), n \in S PROVE n + 1 \in S
  <2>1. n + 1 \in 2..(length + 1) /\ n + 1 \in 1..(length + 1) /\ (n + 1) - 1 = n
    OBVIOUS
  <2>2. g[n + 1] = K!From(K!After(g[n]), length)
    BY <2>1 DEF IsCut
  <2>3. g[n + 1].first = K!After(g[n])
        /\ g[n + 1].last = IF K!After(g[n]) + Size < length THEN K!After(g[n]) + Size ELSE length
    BY <2>2 DEF K!From
  <2>4. Fine(n)
    BY <1>2
  <2>5. g[n].last \in Nat
    BY <2>4
  <2>6. K!After(g[n]) \in Nat /\ n <= K!After(g[n])
    BY <2>4, <2>5 DEF K!After
  <2>7. Fine(n + 1)
    BY <2>1, <2>3, <2>6
  <2> QED
    BY <2>1, <2>7
<1>3. 1..max \subseteq S
  <2>1. max \in Nat
    OBVIOUS
  <2> HIDE DEF S, max
  <2> QED
    BY <1>1, <1>2, <2>1, OneByOne
<1> QED
  BY <1>3

\* The first chunk that reaches the end: there is one, and one only.
Reaching(g, length) ==
  CHOOSE n \in 1..(length + 1) : g[n].last >= length /\ \A m \in 1..(n - 1) : g[m].last < length

LEMMA LastReaches ==
  ASSUME NEW length \in Nat, Size \in Nat \ {0}, Overlap \in Nat, NEW g, IsCut(g, length)
  PROVE  /\ Reaching(g, length) \in 1..(length + 1) /\ g[Reaching(g, length)].last >= length
         /\ \A m \in 1..(Reaching(g, length) - 1) : g[m].last < length
<1> DEFINE S == {n \in 1..(length + 1) : g[n].last >= length}
<1>1. \A n \in 1..(length + 1) :
           /\ g[n].first \in Nat /\ n - 1 <= g[n].first
           /\ g[n].last = IF g[n].first + Size < length THEN g[n].first + Size ELSE length
  BY CutAdvances
<1>2. length + 1 \in S
  <2>1. length + 1 \in 1..(length + 1)
    OBVIOUS
  <2>2. g[length + 1].first \in Nat /\ length <= g[length + 1].first
        /\ g[length + 1].last = IF g[length + 1].first + Size < length THEN g[length + 1].first + Size ELSE length
    BY <1>1, <2>1
  <2> QED
    BY <2>1, <2>2
<1>3. PICK n \in S : \A u \in S : ~ (u < n)
  <2>1. S \in SUBSET Nat /\ S # {}
    BY <1>2
  <2> HIDE DEF S
  <2> QED
    BY <2>1, Least
<1>4. n \in 1..(length + 1) /\ g[n].last >= length
  BY <1>3
<1>5. ASSUME NEW m \in 1..(n - 1) PROVE g[m].last < length
  <2>1. m \in 1..(length + 1) /\ m < n
    BY <1>4
  <2>2. ~ (g[m].last >= length)
    BY <1>3, <2>1
  <2>3. g[m].last \in Nat
    BY <1>1, <2>1
  <2> QED
    BY <2>2, <2>3
<1> QED
  BY <1>4, <1>5 DEF Reaching

LEMMA ChunksAreCut ==
  ASSUME NEW length
  PROVE  K!Chunks(length) = [n \in 1..Reaching(Cut(length), length) |-> Cut(length)[n]]
BY DEF K!Chunks, Cut, Reaching

\* A paragraph of any length is covered by its chunks, for any size and overlap.
LEMMA ChunksHere == K!Sensible => K!ChunksCover
<1> SUFFICES ASSUME K!Sensible, NEW length \in Lengths
             PROVE  LET cs == K!Chunks(length) IN
                    /\ cs[1].first = 0 /\ cs[Len(cs)].last = length
                    /\ \A n \in DOMAIN cs : cs[n].last - cs[n].first <= Size
                    /\ \A n \in 2..Len(cs) : cs[n - 1].first < cs[n].first /\ cs[n].first <= cs[n - 1].last
  BY DEF K!ChunksCover
<1> DEFINE g == Cut(length)
           count == Reaching(g, length)
           cs == K!Chunks(length)
<1>0. length \in Nat /\ Size \in Nat \ {0} /\ Overlap \in Nat
  BY DEF K!Sensible
<1>1. IsCut(g, length)
  BY <1>0, CutSteps
<1>2. \A n \in 1..(length + 1) :
           /\ g[n].first \in Nat /\ n - 1 <= g[n].first
           /\ g[n].last = IF g[n].first + Size < length THEN g[n].first + Size ELSE length
  <2> HIDE DEF g
  <2> QED
    BY <1>0, <1>1, CutAdvances
<1>3. count \in 1..(length + 1) /\ g[count].last >= length /\ \A m \in 1..(count - 1) : g[m].last < length
  <2> HIDE DEF g
  <2> QED
    BY <1>0, <1>1, LastReaches
<1>4. cs = [n \in 1..count |-> g[n]]
  BY ChunksAreCut
<1> HIDE DEF g, count, cs
<1>5. count \in Nat
  BY <1>0, <1>3
<1>6. Len(cs) = count /\ DOMAIN cs = 1..count /\ \A n \in 1..count : cs[n] = g[n] /\ n \in 1..(length + 1)
  BY <1>0, <1>3, <1>4, <1>5
<1>7. cs[1].first = 0
  <2>1. 1 \in 1..count
    BY <1>3, <1>5
  <2> QED
    BY <1>1, <1>6, <2>1 DEF IsCut, K!From
<1>8. cs[Len(cs)].last = length
  <2>1. count \in 1..count
    BY <1>3, <1>5
  <2>2. cs[Len(cs)] = g[count] /\ count \in 1..(length + 1)
    BY <1>6, <2>1
  <2>3. g[count].first \in Nat /\ g[count].last = IF g[count].first + Size < length THEN g[count].first + Size ELSE length
    BY <1>2, <2>2
  <2> QED
    BY <1>0, <1>3, <2>2, <2>3
<1>9. ASSUME NEW n \in DOMAIN cs PROVE cs[n].last - cs[n].first <= Size
  <2>1. cs[n] = g[n] /\ n \in 1..(length + 1)
    BY <1>6
  <2>2. g[n].first \in Nat /\ g[n].last = IF g[n].first + Size < length THEN g[n].first + Size ELSE length
    BY <1>2, <2>1
  <2> QED
    BY <1>0, <2>1, <2>2
<1>10. ASSUME NEW n \in 2..Len(cs) PROVE cs[n - 1].first < cs[n].first /\ cs[n].first <= cs[n - 1].last
  <2>1. n \in 2..count /\ n \in 1..count /\ n - 1 \in 1..count /\ n - 1 \in 1..(count - 1)
    BY <1>5, <1>6
  <2>2. cs[n] = g[n] /\ cs[n - 1] = g[n - 1] /\ n \in 2..(length + 1) /\ n - 1 \in 1..(length + 1)
    BY <1>0, <1>3, <1>5, <1>6, <2>1
  <2>3. g[n] = K!From(K!After(g[n - 1]), length)
    BY <1>1, <2>2 DEF IsCut
  <2>4. g[n].first = K!After(g[n - 1])
    BY <2>3 DEF K!From
  <2>5. g[n - 1].last < length /\ g[n - 1].first \in Nat
        /\ g[n - 1].last = IF g[n - 1].first + Size < length THEN g[n - 1].first + Size ELSE length
    BY <1>2, <1>3, <2>1, <2>2
  <2>6. g[n - 1].last = g[n - 1].first + Size
    BY <1>0, <2>5
  <2>7. g[n - 1].first < K!After(g[n - 1]) /\ K!After(g[n - 1]) <= g[n - 1].last
    BY <1>0, <2>5, <2>6 DEF K!After
  <2> QED
    BY <2>2, <2>4, <2>7
<1> QED
  BY <1>7, <1>8, <1>9, <1>10 DEF cs

\* Whatever jobs ask the model at once, templates are bound for the caller that holds the
\* lock; no job is shown findings of its own or of a job still under way; what one job
\* stored is found by another; file, graph and documents agree; and chunks
\* cover their paragraph (knowledge/).
THEOREM KnowledgeKept == K!Sensible /\ K!Spec => []K!KnowledgeSafe
<1>1. KnowIInv => K!TypeOK /\ K!BoundIsOwn
  BY DEF KnowIInv, KnowTypes, EchoInv, LockInv, K!TypeOK, K!BoundIsOwn, K!Sensible
<1>2. KnowIInv => K!FileIsGraph /\ K!CompleteIsThere
  BY DEF KnowIInv, StoreInv, DocsInv
<1>3. KnowIInv => K!KnowledgeSafe
  BY <1>1, <1>2, NoEchoHere, FoundAgainHere, ChunksHere DEF KnowIInv, K!KnowledgeSafe
<1> QED
  BY <1>3, KnowInductive, PTL

-----------------------------------------------------------------------------
(* The client of the model: any calls, prompts, sizes of the cache, times  *)
(* to live and attempts.                                                   *)
(*                                                                         *)
(* What the cache promises is said of any sequence of entries, so each     *)
(* step is a change of sequences that keeps it: one entry removed, one     *)
(* appended, the oldest dropped, or some chosen that keep their order.     *)
CONSTANTS Calls, Kinds, Prompts, MaxSize, Ttl, Attempts, Pieces, MaxTime
VARIABLES store, memo, now, stats, asking
G == INSTANCE LlmGateway WITH call <- asking

Answers == [prompt : Prompts \cup {"none"}, real : BOOLEAN]
EntryType == [prompt : Prompts, answer : Answers, at : Nat]
MemoType == [kind : G!Memoised, prompt : Prompts, answer : Answers]
CallType ==
  [kind : G!Requests, prompt : Prompts, pc : G!Steps, tries : Nat, logged : BOOLEAN, error : G!Errors \cup {"none"},
   answer : Answers, from : {"none", "memo", "cache", "model"}, told : Seq(Nat \X Nat)]

\* What CacheSound says of a sequence of entries at a time.
Soundly(s, t) ==
  /\ s \in Seq(EntryType) /\ Len(s) <= MaxSize
  /\ \A i, j \in DOMAIN s : s[i].prompt = s[j].prompt => i = j
  /\ \A i \in DOMAIN s : s[i].answer = G!ModelAnswer(s[i].prompt) /\ s[i].at <= t

\* What a call has done when it is at an await, whatever the others do.
InOrder(told, tries) ==
  /\ \A i \in DOMAIN told : told[i][1] <= tries
  /\ \A i, j \in DOMAIN told : i < j =>
       told[i][1] < told[j][1] \/ (told[i][1] = told[j][1] /\ told[i][2] < told[j][2])
RunOK(r) ==
  /\ r.pc \in {"idle", "lookup"} => r.tries = 0 /\ r.from = "none"
  /\ r.pc \in {"lookup", "put"} => r.kind \in G!Cached
  /\ r.pc = "trying" => r.tries < Attempts /\ (r.kind # "probe" => r.logged)
  /\ r.pc = "put" => r.answer = G!ModelAnswer(r.prompt)
  /\ r.pc = "keep" => r.kind \in G!Memoised /\ r.answer.prompt = r.prompt
  /\ r.pc = "answered" => r.answer.prompt = r.prompt /\ (r.kind \notin G!Memoised => r.answer.real)
  /\ r.pc = "raised" => r.tries = Attempts /\ r.error \in G!Errors
  /\ r.tries > 0 /\ r.kind # "probe" => r.logged
  /\ r.tries <= Attempts /\ InOrder(r.told, r.tries)

StatsType == [hits : Nat, misses : Nat, evictions : Nat]
CallsOK == asking \in [Calls -> CallType] /\ \A c \in Calls : RunOK(asking[c])
MemoOK == memo \subseteq MemoType /\ \A e \in memo : e.answer.prompt = e.prompt
LlmIInv == G!Sensible /\ now \in 0..MaxTime /\ stats \in StatsType /\ MemoOK /\ CallsOK /\ Soundly(store, now)

LEMMA LlmInitHolds == G!Sensible /\ G!Init => LlmIInv
<1> SUFFICES ASSUME G!Sensible, G!Init PROVE LlmIInv
  OBVIOUS
<1>1. Soundly(store, now)
  BY DEF G!Init, Soundly, G!Sensible
<1>2. MemoOK /\ stats \in StatsType /\ now \in 0..MaxTime
  BY DEF G!Init, MemoOK, StatsType, G!Sensible
<1>3. PICK kinds \in Kinds, prompts \in [Calls -> Prompts] :
        asking = [c \in Calls |-> [kind |-> kinds[c], prompt |-> prompts[c], pc |-> "idle", tries |-> 0, logged |-> FALSE,
                                 error |-> "none", answer |-> G!NoAnswer, from |-> "none", told |-> <<>>]]
  BY DEF G!Init
<1>4. ASSUME NEW c \in Calls PROVE asking[c] \in CallType /\ RunOK(asking[c])
  <2>1. kinds[c] \in G!Requests /\ prompts[c] \in Prompts /\ "idle" \in G!Steps /\ G!NoAnswer \in Answers /\ <<>> \in Seq(Nat \X Nat)
    BY DEF G!Sensible, G!Steps, G!NoAnswer, Answers
  <2>2. asking[c] = [kind |-> kinds[c], prompt |-> prompts[c], pc |-> "idle", tries |-> 0, logged |-> FALSE,
                   error |-> "none", answer |-> G!NoAnswer, from |-> "none", told |-> <<>>]
    BY <1>3
  <2>3. asking[c] \in CallType
    BY <2>1, <2>2 DEF CallType
  <2>4. InOrder(<<>>, 0)
    BY DEF InOrder
  <2> QED
    BY <2>2, <2>3, <2>4 DEF RunOK, G!Sensible
<1>5. CallsOK
  BY <1>3, <1>4 DEF CallsOK
<1> QED
  BY <1>1, <1>2, <1>5 DEF LlmIInv

-----------------------------------------------------------------------------
(* Sequences of entries                                                    *)

LEMMA RemoveAtIs ==
  ASSUME NEW S, NEW s \in Seq(S), NEW i \in 1..Len(s)
  PROVE  /\ G!RemoveAt(s, i) \in Seq(S) /\ Len(G!RemoveAt(s, i)) = Len(s) - 1
         /\ \A k \in 1..(Len(s) - 1) : G!RemoveAt(s, i)[k] = IF k < i THEN s[k] ELSE s[k + 1]
<1> DEFINE left == SubSeq(s, 1, i - 1)
           right == SubSeq(s, i + 1, Len(s))
<1>0. Len(s) \in Nat /\ i \in 1..Len(s)
  OBVIOUS
<1>1. left \in Seq(S) /\ Len(left) = i - 1 /\ \A k \in 1..(i - 1) : left[k] = s[k]
  BY <1>0
<1>2. right \in Seq(S) /\ Len(right) = Len(s) - i /\ \A k \in 1..(Len(s) - i) : right[k] = s[i + k]
  BY <1>0
<1>3. G!RemoveAt(s, i) = left \o right
  BY DEF G!RemoveAt
<1> HIDE DEF left, right
<1>4. /\ left \o right \in Seq(S) /\ Len(left \o right) = Len(left) + Len(right)
      /\ \A k \in 1..(Len(left) + Len(right)) : (left \o right)[k] = IF k <= Len(left) THEN left[k] ELSE right[k - Len(left)]
  BY <1>1, <1>2, ConcatProperties
<1>5. ASSUME NEW k \in 1..(Len(s) - 1) PROVE (left \o right)[k] = IF k < i THEN s[k] ELSE s[k + 1]
  BY <1>0, <1>1, <1>2, <1>4
<1> QED
  BY <1>0, <1>1, <1>2, <1>3, <1>4, <1>5

\* Without one entry the others stay.
LEMMA RemoveKeeps ==
  ASSUME NEW t \in Nat, NEW s, Soundly(s, t), NEW i \in DOMAIN s, MaxSize \in Nat
  PROVE  /\ Soundly(G!RemoveAt(s, i), t) /\ Len(G!RemoveAt(s, i)) < MaxSize
         /\ \A k \in DOMAIN G!RemoveAt(s, i) : G!RemoveAt(s, i)[k].prompt # s[i].prompt
         /\ \A k \in DOMAIN s : k # i => \E m \in DOMAIN G!RemoveAt(s, i) : G!RemoveAt(s, i)[m] = s[k]
<1> DEFINE r == G!RemoveAt(s, i)
<1>1. s \in Seq(EntryType) /\ Len(s) \in Nat /\ DOMAIN s = 1..Len(s) /\ i \in 1..Len(s)
  BY DEF Soundly
<1>2. r \in Seq(EntryType) /\ Len(r) = Len(s) - 1 /\ \A k \in 1..(Len(s) - 1) : r[k] = IF k < i THEN s[k] ELSE s[k + 1]
  BY <1>1, RemoveAtIs
<1> HIDE DEF r
<1>3. DOMAIN r = 1..(Len(s) - 1)
  BY <1>2
<1>4. ASSUME NEW k \in DOMAIN r PROVE \E m \in DOMAIN s : m # i /\ r[k] = s[m] /\ m = IF k < i THEN k ELSE k + 1
  BY <1>1, <1>2, <1>3
<1>5. ASSUME NEW k \in DOMAIN s, k # i PROVE \E m \in DOMAIN r : r[m] = s[k]
  <2>1. CASE k < i
    BY <1>1, <1>2, <1>3, <2>1
  <2>2. CASE k > i
    <3>1. k - 1 \in DOMAIN r /\ ~(k - 1 < i) /\ (k - 1) + 1 = k
      BY <1>1, <1>3, <2>2
    <3>2. r[k - 1] = s[(k - 1) + 1]
      BY <1>2, <1>3, <3>1
    <3> QED
      BY <3>1, <3>2
  <2> QED
    BY <1>1, <1>5, <2>1, <2>2
<1>6. \A k \in DOMAIN r : r[k].prompt # s[i].prompt
  BY <1>4 DEF Soundly
<1>7. \A k, m \in DOMAIN r : r[k].prompt = r[m].prompt => k = m
  BY <1>1, <1>3, <1>4 DEF Soundly
<1>8. \A k \in DOMAIN r : r[k].answer = G!ModelAnswer(r[k].prompt) /\ r[k].at <= t
  BY <1>4 DEF Soundly
<1>9. Len(r) < MaxSize
  BY <1>1, <1>2 DEF Soundly
<1>10. Soundly(r, t)
  BY <1>2, <1>7, <1>8, <1>9 DEF Soundly
<1> QED
  BY <1>5, <1>6, <1>9, <1>10 DEF r

LEMMA AppendKeeps ==
  ASSUME NEW t \in Nat, NEW s, Soundly(s, t), MaxSize \in Nat, Len(s) < MaxSize, NEW e \in EntryType,
         e.answer = G!ModelAnswer(e.prompt), e.at <= t, \A k \in DOMAIN s : s[k].prompt # e.prompt
  PROVE  /\ Soundly(Append(s, e), t)
         /\ \A k \in DOMAIN s : \E m \in DOMAIN Append(s, e) : Append(s, e)[m] = s[k]
<1> DEFINE r == Append(s, e)
<1>1. s \in Seq(EntryType) /\ Len(s) \in Nat /\ DOMAIN s = 1..Len(s)
  BY DEF Soundly
<1>2. r \in Seq(EntryType) /\ Len(r) = Len(s) + 1 /\ DOMAIN r = 1..(Len(s) + 1) /\ \A k \in DOMAIN s : r[k] = s[k]
  BY <1>1
<1>3. r[Len(s) + 1] = e
  BY <1>1
<1> HIDE DEF r
<1>4. \A k \in DOMAIN r : (k \in DOMAIN s /\ r[k] = s[k]) \/ (k = Len(s) + 1 /\ r[k] = e)
  BY <1>1, <1>2, <1>3
<1>5. \A k, m \in DOMAIN r : r[k].prompt = r[m].prompt => k = m
  BY <1>4 DEF Soundly
<1>6. \A k \in DOMAIN r : r[k].answer = G!ModelAnswer(r[k].prompt) /\ r[k].at <= t
  BY <1>4 DEF Soundly
<1>7. Len(r) <= MaxSize
  BY <1>1, <1>2
<1>8. \A k \in DOMAIN s : k \in DOMAIN r
  BY <1>1, <1>2
<1> QED
  BY <1>2, <1>5, <1>6, <1>7, <1>8 DEF Soundly, r

\* What stays of a sequence in its order is sound.
LEMMA ChosenKeeps ==
  ASSUME NEW t \in Nat, NEW s, Soundly(s, t), MaxSize \in Nat, NEW n \in 0..Len(s), NEW from \in [1..n -> DOMAIN s],
         \A i, j \in 1..n : i < j => from[i] < from[j], NEW r, r = [i \in 1..n |-> s[from[i]]]
  PROVE  Soundly(r, t)
<1>1. s \in Seq(EntryType) /\ Len(s) \in Nat /\ DOMAIN s = 1..Len(s) /\ n \in Nat
  BY DEF Soundly
<1>2. \A i \in 1..n : from[i] \in DOMAIN s /\ s[from[i]] \in EntryType
  BY <1>1
<1>3. r \in Seq(EntryType) /\ Len(r) = n /\ DOMAIN r = 1..n /\ \A i \in 1..n : r[i] = s[from[i]]
  BY <1>1, <1>2
<1>4. ASSUME NEW i \in 1..n, NEW j \in 1..n, r[i].prompt = r[j].prompt PROVE i = j
  <2>1. from[i] = from[j]
    BY <1>2, <1>3, <1>4 DEF Soundly
  <2>2. from[i] \in Nat /\ from[j] \in Nat
    BY <1>1, <1>2
  <2> QED
    BY <1>1, <2>1, <2>2
<1>5. \A i \in DOMAIN r : r[i].answer = G!ModelAnswer(r[i].prompt) /\ r[i].at <= t
  BY <1>2, <1>3 DEF Soundly
<1>6. Len(r) <= MaxSize
  BY <1>1, <1>3 DEF Soundly
<1> QED
  BY <1>3, <1>4, <1>5, <1>6 DEF Soundly

\* Room drops the entries that were used least recently.
LEMMA RoomKeeps ==
  ASSUME NEW t \in Nat, Soundly(store, t), MaxSize \in Nat \ {0}
  PROVE  /\ Soundly(G!Room, t) /\ Len(G!Room) < MaxSize /\ Len(G!Room) <= Len(store)
         /\ \E d \in Nat : /\ \A k \in DOMAIN G!Room : k + d \in DOMAIN store /\ G!Room[k] = store[k + d]
                          /\ \A k \in DOMAIN store : k > d => \E m \in DOMAIN G!Room : G!Room[m] = store[k]
<1>1. store \in Seq(EntryType) /\ Len(store) \in Nat /\ DOMAIN store = 1..Len(store) /\ Len(store) <= MaxSize
  BY DEF Soundly
<1>2. CASE Len(store) < MaxSize
  <2>1. G!Room = store
    BY <1>1, <1>2 DEF G!Room
  <2>2. \A k \in DOMAIN store : k + 0 = k
    BY <1>1
  <2> QED
    BY <1>1, <1>2, <2>1, <2>2
<1>3. CASE Len(store) = MaxSize
  <2>1. G!Room = SubSeq(store, 2, Len(store))
    BY <1>1, <1>3 DEF G!Room
  <2>2. G!Room \in Seq(EntryType) /\ Len(G!Room) = Len(store) - 1 /\ \A k \in 1..(Len(store) - 1) : G!Room[k] = store[k + 1]
    BY <1>1, <1>3, <2>1
  <2>3. DOMAIN G!Room = 1..(Len(store) - 1)
    BY <1>1, <1>3, <2>2
  <2>4. \A k \in DOMAIN G!Room : k + 1 \in DOMAIN store /\ G!Room[k] = store[k + 1]
    BY <1>1, <2>2, <2>3
  <2>5. ASSUME NEW k \in DOMAIN store, k > 1 PROVE \E m \in DOMAIN G!Room : G!Room[m] = store[k]
    <3>1. k - 1 \in DOMAIN G!Room /\ (k - 1) + 1 = k
      BY <1>1, <2>3, <2>5
    <3> QED
      BY <2>4, <3>1
  <2>6. \A i, j \in DOMAIN G!Room : G!Room[i].prompt = G!Room[j].prompt => i = j
    <3> SUFFICES ASSUME NEW i \in DOMAIN G!Room, NEW j \in DOMAIN G!Room, G!Room[i].prompt = G!Room[j].prompt PROVE i = j
      OBVIOUS
    <3>1. i + 1 = j + 1
      BY <2>4 DEF Soundly
    <3> QED
      BY <1>1, <2>3, <3>1
  <2>7. \A i \in DOMAIN G!Room : G!Room[i].answer = G!ModelAnswer(G!Room[i].prompt) /\ G!Room[i].at <= t
    BY <2>4 DEF Soundly
  <2>8. Soundly(G!Room, t) /\ Len(G!Room) < MaxSize /\ Len(G!Room) <= Len(store)
    BY <1>1, <1>3, <2>2, <2>6, <2>7 DEF Soundly
  <2> QED
    BY <2>4, <2>5, <2>8
<1>4. Len(store) < MaxSize \/ Len(store) = MaxSize
  <2> DEFINE n == Len(store)
  <2>1. n \in Nat /\ n <= MaxSize /\ MaxSize \in Nat
    BY <1>1
  <2> HIDE DEF n
  <2>2. n < MaxSize \/ n = MaxSize
    BY <2>1
  <2> QED
    BY <2>2 DEF n
<1> QED
  BY <1>2, <1>3, <1>4

-----------------------------------------------------------------------------
(* Calls                                                                   *)

LEMMA CallMoves ==
  ASSUME CallsOK, NEW c \in Calls, NEW new \in CallType, RunOK(new), asking' = [asking EXCEPT ![c] = new]
  PROVE  CallsOK'
BY DEF CallsOK

\* What the steps of a call make of its record.
Answered(r, answer, from) == [r EXCEPT !.pc = "answered", !.answer = answer, !.from = from]

LEMMA AnsweredIs ==
  ASSUME NEW r \in CallType, NEW answer \in Answers, NEW from \in {"memo", "cache", "model"}, r.pc \in G!Steps, RunOK(r),
         answer.prompt = r.prompt, r.kind \notin G!Memoised => answer.real
  PROVE  /\ Answered(r, answer, from) \in CallType /\ RunOK(Answered(r, answer, from))
<1> DEFINE new == Answered(r, answer, from)
<1>1. /\ new.kind = r.kind /\ new.prompt = r.prompt /\ new.pc = "answered" /\ new.tries = r.tries /\ new.logged = r.logged
      /\ new.error = r.error /\ new.answer = answer /\ new.from = from /\ new.told = r.told
  BY DEF Answered, CallType
<1>2. "answered" \in G!Steps
  BY DEF G!Steps, G!Ended
<1>3. new \in CallType
  BY <1>2 DEF Answered, CallType
<1> HIDE DEF new
<1>4. RunOK(new)
  BY <1>1 DEF RunOK
<1> QED
  BY <1>3, <1>4 DEF new

LEMMA AnswerKeeps ==
  ASSUME CallsOK, NEW c \in Calls, NEW answer \in Answers, NEW from \in {"memo", "cache", "model"}, G!Answer(c, answer, from),
         answer.prompt = G!Prompt(c), asking[c].kind \notin G!Memoised => answer.real
  PROVE  CallsOK'
<1>1. asking[c] \in CallType /\ RunOK(asking[c]) /\ asking[c].pc \in G!Steps
  BY DEF CallsOK, CallType
<1>2. Answered(asking[c], answer, from) \in CallType /\ RunOK(Answered(asking[c], answer, from))
  BY <1>1, AnsweredIs DEF G!Prompt
<1>3. asking' = [asking EXCEPT ![c] = Answered(asking[c], answer, from)]
  BY DEF G!Answer, Answered, CallsOK
<1> QED
  BY <1>2, <1>3, CallMoves

LEMMA RecallKeeps == ASSUME LlmIInv, NEW c \in Calls, G!Recall(c) PROVE LlmIInv'
<1>1. PICK e \in memo : e.kind = asking[c].kind /\ e.prompt = G!Prompt(c) /\ G!Answer(c, e.answer, "memo")
  BY DEF G!Recall, G!Remembered
<1>2. e.answer \in Answers /\ e.answer.prompt = G!Prompt(c) /\ asking[c].kind \in G!Memoised
  BY <1>1 DEF LlmIInv, MemoOK, MemoType
<1>3. CallsOK'
  BY <1>1, <1>2, AnswerKeeps DEF LlmIInv
<1> QED
  BY <1>3 DEF LlmIInv, MemoOK, G!Recall

LEMMA BeginKeeps == ASSUME LlmIInv, NEW c \in Calls, G!Begin(c) PROVE LlmIInv'
<1> DEFINE r == asking[c]
           to == IF r.kind \in G!Cached THEN "lookup" ELSE "trying"
           logged == r.kind \in {"chat", "stream"}
           new == [r EXCEPT !.pc = to, !.logged = logged]
<1>1. r \in CallType /\ RunOK(r) /\ r.pc = "idle"
  BY DEF LlmIInv, CallsOK, G!Begin, G!At
<1>2. asking' = [asking EXCEPT ![c] = new]
  BY DEF G!Begin, LlmIInv, CallsOK
<1>3. to \in G!Steps /\ logged \in BOOLEAN /\ (to = "lookup" => r.kind \in G!Cached) /\ to \in {"lookup", "trying"}
      /\ (to = "trying" => r.kind = "probe" \/ logged = TRUE)
  <2>1. r.kind \in G!Requests
    BY <1>1 DEF CallType
  <2> QED
    BY <2>1 DEF G!Steps, G!Cached, G!Memoised, G!Requests
<1> HIDE DEF r, to, logged
<1>4. /\ new.kind = r.kind /\ new.prompt = r.prompt /\ new.pc = to /\ new.tries = r.tries /\ new.logged = logged
      /\ new.error = r.error /\ new.answer = r.answer /\ new.from = r.from /\ new.told = r.told
  BY <1>1 DEF CallType
<1>5. new \in CallType
  BY <1>1, <1>3 DEF CallType
<1> HIDE DEF new
<1>6. RunOK(new)
  BY <1>1, <1>3, <1>4 DEF RunOK, LlmIInv, G!Sensible
<1>7. CallsOK'
  BY <1>2, <1>5, <1>6, CallMoves DEF LlmIInv
<1> QED
  BY <1>7 DEF LlmIInv, MemoOK, G!Begin

LEMMA LookupKeeps == ASSUME LlmIInv, NEW c \in Calls, G!Lookup(c) PROVE LlmIInv'
<1> DEFINE r == asking[c]
<1>1. r \in CallType /\ RunOK(r) /\ r.pc = "lookup" /\ r.kind \in G!Cached /\ CallsOK /\ MaxSize \in Nat /\ now \in Nat /\ Soundly(store, now)
  <2>1. r.pc = "lookup"
    BY DEF G!Lookup, G!At
  <2> QED
    BY <2>1 DEF LlmIInv, CallsOK, RunOK, G!Sensible
<1>2. UNCHANGED <<memo, now>>
  BY DEF G!Lookup
<1>3. ASSUME NEW i \in G!Entry(G!Prompt(c)), store' = Append(G!Without(i), store[i]), stats' = [stats EXCEPT !.hits = @ + 1],
             IF r.kind = "generate" THEN G!Answer(c, store[i].answer, "cache")
             ELSE asking' = [asking EXCEPT ![c].pc = "keep", ![c].answer = store[i].answer, ![c].from = "cache"]
      PROVE  LlmIInv'
  <2>1. i \in DOMAIN store /\ store[i].prompt = r.prompt /\ store[i] \in EntryType /\ store[i].at <= now
        /\ store[i].answer = G!ModelAnswer(store[i].prompt) /\ store[i].answer \in Answers
    <3>1. i \in DOMAIN store /\ store[i].prompt = r.prompt
      BY DEF G!Entry, G!Prompt
    <3>2. store[i] \in EntryType
      BY <1>1, <3>1 DEF Soundly
    <3> QED
      BY <1>1, <3>1, <3>2 DEF Soundly, EntryType
  <2>2. Soundly(store', now)
    BY <1>1, <1>3, <2>1, RemoveKeeps, AppendKeeps DEF G!Without
  <2>3. stats' \in StatsType
    BY <1>3 DEF LlmIInv, StatsType
  <2>4. CASE r.kind = "generate"
    <3>1. G!Answer(c, store[i].answer, "cache") /\ store[i].answer.prompt = G!Prompt(c) /\ store[i].answer.real
      BY <1>3, <2>1, <2>4 DEF G!ModelAnswer, G!Prompt
    <3>2. CallsOK'
      BY <1>1, <2>1, <3>1, AnswerKeeps
    <3> QED
      BY <1>2, <2>2, <2>3, <3>2 DEF LlmIInv, MemoOK
  <2>5. CASE r.kind # "generate"
    <3> DEFINE answer == store[i].answer
               new == [r EXCEPT !.pc = "keep", !.answer = answer, !.from = "cache"]
    <3>1. asking' = [asking EXCEPT ![c] = new]
      BY <1>1, <1>3, <2>5 DEF CallsOK
    <3>2. r.kind \in G!Memoised /\ answer.prompt = r.prompt /\ answer \in Answers /\ "keep" \in G!Steps
      BY <1>1, <2>1, <2>5 DEF G!Cached, G!ModelAnswer, G!Steps
    <3> HIDE DEF answer, r
    <3>3. /\ new.kind = r.kind /\ new.prompt = r.prompt /\ new.pc = "keep" /\ new.tries = r.tries /\ new.logged = r.logged
          /\ new.error = r.error /\ new.answer = answer /\ new.from = "cache" /\ new.told = r.told
      BY <1>1 DEF CallType
    <3>4. new \in CallType
      BY <1>1, <3>2 DEF CallType
    <3> HIDE DEF new
    <3>5. RunOK(new)
      BY <1>1, <3>2, <3>3 DEF RunOK
    <3>6. CallsOK'
      BY <1>1, <3>1, <3>4, <3>5, CallMoves
    <3> QED
      BY <1>2, <2>2, <2>3, <3>6 DEF LlmIInv, MemoOK
  <2> QED
    BY <2>4, <2>5
<1>4. ASSUME (G!Entry(G!Prompt(c)) = {} /\ store' = store) \/ \E i \in G!Entry(G!Prompt(c)) : G!Expired(store[i]) /\ store' = G!Without(i),
             stats' = [stats EXCEPT !.misses = @ + 1], asking' = [asking EXCEPT ![c].pc = "trying", ![c].logged = TRUE]
      PROVE  LlmIInv'
  <2>1. Soundly(store', now)
    <3>1. CASE store' = store
      BY <1>1, <3>1
    <3>2. ASSUME NEW i \in G!Entry(G!Prompt(c)), store' = G!Without(i) PROVE Soundly(store', now)
      BY <1>1, <3>2, RemoveKeeps DEF G!Without, G!Entry
    <3> QED
      BY <1>4, <3>1, <3>2
  <2>2. stats' \in StatsType
    BY <1>4 DEF LlmIInv, StatsType
  <2> DEFINE new == [r EXCEPT !.pc = "trying", !.logged = TRUE]
  <2>3. asking' = [asking EXCEPT ![c] = new] /\ "trying" \in G!Steps
    BY <1>1, <1>4 DEF CallsOK, G!Steps
  <2>4. r.tries = 0 /\ 0 < Attempts
    BY <1>1 DEF RunOK, LlmIInv, G!Sensible
  <2> HIDE DEF r
  <2>5. /\ new.kind = r.kind /\ new.prompt = r.prompt /\ new.pc = "trying" /\ new.tries = r.tries /\ new.logged = TRUE
        /\ new.error = r.error /\ new.answer = r.answer /\ new.from = r.from /\ new.told = r.told
    BY <1>1 DEF CallType
  <2>6. new \in CallType
    BY <1>1, <2>3 DEF CallType
  <2> HIDE DEF new
  <2>7. RunOK(new)
    BY <1>1, <2>4, <2>5 DEF RunOK
  <2>8. CallsOK'
    BY <1>1, <2>3, <2>6, <2>7, CallMoves
  <2> QED
    BY <1>2, <2>1, <2>2, <2>8 DEF LlmIInv, MemoOK
<1> QED
  BY <1>3, <1>4 DEF G!Lookup

\* What one more attempt tells comes after what those before it told.
LEMMA MoreTold ==
  ASSUME NEW told \in Seq(Nat \X Nat), NEW tries \in Nat, InOrder(told, tries), NEW n \in Nat
  PROVE  /\ told \o [i \in 1..n |-> <<tries + 1, i>>] \in Seq(Nat \X Nat)
         /\ InOrder(told \o [i \in 1..n |-> <<tries + 1, i>>], tries + 1)
<1> DEFINE more == [i \in 1..n |-> <<tries + 1, i>>]
           all == told \o more
<1>1. more \in Seq(Nat \X Nat) /\ Len(more) = n /\ \A i \in 1..n : more[i] = <<tries + 1, i>>
  OBVIOUS
<1>2. \A i \in 1..n : more[i][1] = tries + 1 /\ more[i][2] = i
  BY <1>1
<1> HIDE DEF more
<1>3. /\ all \in Seq(Nat \X Nat) /\ Len(all) = Len(told) + n
      /\ \A i \in 1..(Len(told) + n) : all[i] = IF i <= Len(told) THEN told[i] ELSE more[i - Len(told)]
  BY <1>1, ConcatProperties
<1> HIDE DEF all
<1>4. Len(told) \in Nat /\ DOMAIN told = 1..Len(told) /\ DOMAIN all = 1..(Len(told) + n)
  BY <1>3
<1>5. ASSUME NEW i \in DOMAIN all
      PROVE  \/ i \in DOMAIN told /\ all[i] = told[i]
             \/ i > Len(told) /\ all[i][1] = tries + 1 /\ all[i][2] = i - Len(told)
  <2>1. CASE i <= Len(told)
    BY <1>3, <1>4, <2>1
  <2>2. CASE i > Len(told)
    <3>1. i - Len(told) \in 1..n /\ ~(i <= Len(told))
      BY <1>4, <2>2
    <3>2. all[i] = more[i - Len(told)]
      BY <1>3, <1>4, <3>1
    <3> QED
      BY <1>2, <2>2, <3>1, <3>2
  <2> QED
    BY <1>4, <2>1, <2>2
<1>6. \A i \in DOMAIN told : told[i][1] \in Nat /\ told[i][1] <= tries
  BY <1>4 DEF InOrder
<1>7. ASSUME NEW i \in DOMAIN all PROVE all[i][1] <= tries + 1
  BY <1>5, <1>6
<1>8. ASSUME NEW i \in DOMAIN all, NEW j \in DOMAIN all, i < j
      PROVE  all[i][1] < all[j][1] \/ (all[i][1] = all[j][1] /\ all[i][2] < all[j][2])
  <2>0. i \in Nat /\ j \in Nat
    BY <1>4
  <2>1. CASE j \in DOMAIN told /\ all[j] = told[j]
    <3>1. i \in DOMAIN told /\ all[i] = told[i]
      BY <1>3, <1>4, <1>8, <2>0, <2>1
    <3> QED
      BY <1>8, <2>1, <3>1 DEF InOrder
  <2>2. CASE j > Len(told) /\ all[j][1] = tries + 1 /\ all[j][2] = j - Len(told)
    <3>1. CASE i \in DOMAIN told /\ all[i] = told[i]
      BY <1>6, <2>2, <3>1
    <3>2. CASE i > Len(told) /\ all[i][1] = tries + 1 /\ all[i][2] = i - Len(told)
      BY <1>4, <1>8, <2>0, <2>2, <3>2
    <3> QED
      BY <1>5, <3>1, <3>2
  <2> QED
    BY <1>5, <2>1, <2>2
<1>9. InOrder(all, tries + 1)
  BY <1>7, <1>8 DEF InOrder
<1> QED
  BY <1>3, <1>9 DEF all, more

LEMMA ToldIs ==
  ASSUME CallsOK, NEW c \in Calls, NEW n \in Nat
  PROVE  G!Told(c, n) \in Seq(Nat \X Nat) /\ InOrder(G!Told(c, n), asking[c].tries + 1)
<1>1. asking[c].told \in Seq(Nat \X Nat) /\ asking[c].tries \in Nat /\ InOrder(asking[c].told, asking[c].tries)
  BY DEF CallsOK, CallType, RunOK
<1>2. CASE asking[c].kind = "stream"
  BY <1>1, <1>2, MoreTold DEF G!Told
<1>3. CASE asking[c].kind # "stream"
  <2>1. G!Told(c, n) = asking[c].told
    BY <1>3 DEF G!Told
  <2>2. \A i \in DOMAIN asking[c].told : asking[c].told[i][1] \in Nat
    BY <1>1
  <2>3. InOrder(asking[c].told, asking[c].tries + 1)
    BY <1>1, <2>2 DEF InOrder
  <2> QED
    BY <1>1, <2>1, <2>3
<1> QED
  BY <1>2, <1>3

LEMMA ReplyKeeps == ASSUME LlmIInv, NEW c \in Calls, G!Reply(c) PROVE LlmIInv'
<1> DEFINE r == asking[c]
<1>1. r \in CallType /\ RunOK(r) /\ r.pc = "trying" /\ CallsOK /\ Attempts \in Nat
  BY DEF LlmIInv, CallsOK, G!Reply, G!At, G!Sensible
<1>2. UNCHANGED <<store, memo, now, stats>>
  BY DEF G!Reply
<1>3. PICK n \in 0..Pieces :
        asking' = [asking EXCEPT ![c].tries = @ + 1, ![c].told = G!Told(c, n), ![c].answer = G!ModelAnswer(G!Prompt(c)),
                   ![c].from = IF asking[c].kind = "probe" THEN "none" ELSE "model",
                   ![c].pc = CASE asking[c].kind \in G!Cached -> "put"
                               [] asking[c].kind = "probe"  -> "reported"
                               [] OTHER                   -> "answered"]
  BY DEF G!Reply
<1> DEFINE tries == r.tries + 1
           told == G!Told(c, n)
           answer == G!ModelAnswer(r.prompt)
           from == IF r.kind = "probe" THEN "none" ELSE "model"
           to == CASE r.kind \in G!Cached -> "put" [] r.kind = "probe" -> "reported" [] OTHER -> "answered"
           new == [r EXCEPT !.tries = tries, !.told = told, !.answer = answer, !.from = from, !.pc = to]
<1>4. asking' = [asking EXCEPT ![c] = new]
  <2>1. asking' = [asking EXCEPT ![c].tries = tries, ![c].told = told, ![c].answer = answer, ![c].from = from, ![c].pc = to]
    BY <1>3 DEF G!Prompt
  <2> HIDE DEF tries, told, answer, from, to
  <2> QED
    BY <1>1, <2>1 DEF CallsOK
<1>5. told \in Seq(Nat \X Nat) /\ InOrder(told, tries)
  BY <1>1, ToldIs DEF LlmIInv, G!Sensible
<1>6. /\ tries \in Nat /\ tries <= Attempts /\ from \in {"none", "model"}
      /\ answer \in Answers /\ answer = G!ModelAnswer(r.prompt) /\ answer.prompt = r.prompt /\ answer.real
  BY <1>1 DEF CallType, RunOK, G!ModelAnswer, Answers
<1>7. to \in {"put", "reported", "answered"} /\ to \in G!Steps /\ (to = "put" => r.kind \in G!Cached)
  BY DEF G!Steps, G!Ended
<1> HIDE DEF r, tries, told, answer, from, to
<1>8. /\ new.kind = r.kind /\ new.prompt = r.prompt /\ new.pc = to /\ new.tries = tries /\ new.logged = r.logged
      /\ new.error = r.error /\ new.answer = answer /\ new.from = from /\ new.told = told
  BY <1>1 DEF CallType
<1>9. new \in CallType
  BY <1>1, <1>5, <1>6, <1>7 DEF CallType
<1> HIDE DEF new
<1>10. RunOK(new)
  BY <1>1, <1>5, <1>6, <1>7, <1>8 DEF RunOK
<1>11. CallsOK'
  BY <1>1, <1>4, <1>9, <1>10, CallMoves
<1> QED
  BY <1>2, <1>11 DEF LlmIInv, MemoOK

LEMMA FailKeeps == ASSUME LlmIInv, NEW c \in Calls, G!Fail(c) PROVE LlmIInv'
<1> DEFINE r == asking[c]
<1>1. r \in CallType /\ RunOK(r) /\ r.pc = "trying" /\ CallsOK /\ Attempts \in Nat
  BY DEF LlmIInv, CallsOK, G!Fail, G!At, G!Sensible
<1>2. UNCHANGED <<store, memo, now, stats>>
  BY DEF G!Fail
<1>3. PICK error \in G!Errors, n \in 0..Pieces :
        asking' = [asking EXCEPT ![c].tries = @ + 1, ![c].error = error, ![c].told = G!Told(c, n),
                     ![c].pc = IF ~G!FinalTry(c) THEN "trying"
                               ELSE IF asking[c].kind = "probe" THEN "reported"
                               ELSE IF asking[c].kind \in G!Memoised THEN "keep" ELSE "raised",
                     ![c].answer = IF G!FinalTry(c) /\ asking[c].kind \in G!Memoised
                                   THEN G!Placeholder(G!Prompt(c)) ELSE @]
  BY DEF G!Fail
<1> DEFINE tries == r.tries + 1
           told == G!Told(c, n)
           answer == IF G!FinalTry(c) /\ r.kind \in G!Memoised THEN G!Placeholder(r.prompt) ELSE r.answer
           to == IF ~G!FinalTry(c) THEN "trying" ELSE IF r.kind = "probe" THEN "reported"
                 ELSE IF r.kind \in G!Memoised THEN "keep" ELSE "raised"
           new == [r EXCEPT !.tries = tries, !.error = error, !.told = told, !.pc = to, !.answer = answer]
<1>4. asking' = [asking EXCEPT ![c] = new]
  <2>1. CASE G!FinalTry(c) /\ r.kind \in G!Memoised
    <3>1. asking' = [asking EXCEPT ![c].tries = tries, ![c].error = error, ![c].told = told, ![c].pc = to, ![c].answer = answer]
      BY <1>3, <2>1 DEF G!Prompt
    <3> HIDE DEF tries, told, answer, to
    <3> QED
      BY <1>1, <3>1 DEF CallsOK
  <2>2. CASE ~(G!FinalTry(c) /\ r.kind \in G!Memoised)
    <3>1. asking' = [asking EXCEPT ![c].tries = tries, ![c].error = error, ![c].told = told, ![c].pc = to, ![c].answer = @]
      BY <1>3, <2>2
    <3>2. answer = r.answer
      BY <2>2
    <3> HIDE DEF tries, told, to
    <3> QED
      BY <1>1, <3>1, <3>2 DEF CallsOK
  <2> QED
    BY <2>1, <2>2
<1>5. told \in Seq(Nat \X Nat) /\ InOrder(told, tries)
  BY <1>1, ToldIs DEF LlmIInv, G!Sensible
<1>6. /\ tries \in Nat /\ tries <= Attempts /\ (to = "trying" => tries < Attempts) /\ (to = "raised" => tries = Attempts)
  BY <1>1 DEF CallType, RunOK, G!FinalTry
<1>7. /\ answer \in Answers /\ (to = "keep" => r.kind \in G!Memoised /\ answer.prompt = r.prompt)
      /\ to \in {"trying", "reported", "keep", "raised"} /\ to \in G!Steps
  BY <1>1 DEF CallType, G!Placeholder, Answers, G!Steps, G!Ended
<1> HIDE DEF r, tries, told, answer, to
<1>8. /\ new.kind = r.kind /\ new.prompt = r.prompt /\ new.pc = to /\ new.tries = tries /\ new.logged = r.logged
      /\ new.error = error /\ new.answer = answer /\ new.from = r.from /\ new.told = told
  BY <1>1 DEF CallType
<1>9. new \in CallType
  BY <1>1, <1>5, <1>6, <1>7 DEF CallType
<1> HIDE DEF new
<1>10. RunOK(new)
  BY <1>1, <1>5, <1>6, <1>7, <1>8 DEF RunOK
<1>11. CallsOK'
  BY <1>1, <1>4, <1>9, <1>10, CallMoves
<1> QED
  BY <1>2, <1>11 DEF LlmIInv, MemoOK

LEMMA PutKeeps == ASSUME LlmIInv, NEW c \in Calls, G!Put(c) PROVE LlmIInv'
<1> DEFINE r == asking[c]
           e == [prompt |-> r.prompt, answer |-> r.answer, at |-> now]
<1>1. /\ r \in CallType /\ RunOK(r) /\ r.pc = "put" /\ CallsOK /\ MaxSize \in Nat \ {0} /\ now \in Nat /\ Soundly(store, now)
      /\ stats \in StatsType
  BY DEF LlmIInv, CallsOK, G!Put, G!At, G!Sensible
<1>2. UNCHANGED <<memo, now>>
  BY DEF G!Put
<1>3. r.kind \in G!Cached /\ r.answer = G!ModelAnswer(r.prompt) /\ r.answer.prompt = r.prompt /\ r.answer.real /\ r.answer \in Answers
  BY <1>1 DEF RunOK, G!ModelAnswer, CallType
<1>4. e \in EntryType /\ e.answer = G!ModelAnswer(e.prompt) /\ e.at <= now /\ e.prompt = r.prompt
  BY <1>1, <1>3 DEF EntryType, CallType
<1>5. \/ \E i \in G!Entry(r.prompt) : store' = Append(G!Without(i), e) /\ stats' = stats
      \/ /\ G!Entry(r.prompt) = {} /\ store' = Append(G!Room, e)
         /\ stats' = [stats EXCEPT !.evictions = @ + Len(store) - Len(G!Room)]
  BY DEF G!Put, G!Prompt
<1> HIDE DEF e
<1>6. Soundly(store', now) /\ stats' \in StatsType
  <2>1. ASSUME NEW i \in G!Entry(r.prompt), store' = Append(G!Without(i), e), stats' = stats PROVE Soundly(store', now) /\ stats' \in StatsType
    <3>1. i \in DOMAIN store /\ store[i].prompt = e.prompt
      BY <1>4 DEF G!Entry
    <3> QED
      <4>1. /\ Soundly(G!Without(i), now) /\ Len(G!Without(i)) < MaxSize
            /\ \A k \in DOMAIN G!Without(i) : G!Without(i)[k].prompt # e.prompt
        BY <1>1, <3>1, RemoveKeeps DEF G!Without
      <4>2. Soundly(Append(G!Without(i), e), now)
        BY <1>1, <1>4, <4>1, AppendKeeps
      <4> QED
        BY <1>1, <2>1, <4>2
  <2>2. CASE G!Entry(r.prompt) = {} /\ store' = Append(G!Room, e) /\ stats' = [stats EXCEPT !.evictions = @ + Len(store) - Len(G!Room)]
    <3>1. Soundly(G!Room, now) /\ Len(G!Room) < MaxSize /\ Len(G!Room) <= Len(store)
      BY <1>1, RoomKeeps
    <3>2. \A k \in DOMAIN G!Room : G!Room[k].prompt # e.prompt
      BY <1>1, <1>4, <2>2, RoomKeeps DEF G!Entry
    <3>3. Soundly(store', now)
      BY <1>1, <1>4, <2>2, <3>1, <3>2, AppendKeeps
    <3>4. Len(G!Room) \in Nat /\ Len(store) \in Nat
      BY <1>1, <3>1 DEF Soundly
    <3>5. stats' \in StatsType
      BY <1>1, <2>2, <3>1, <3>4 DEF StatsType
    <3> QED
      BY <3>3, <3>5
  <2> QED
    BY <1>5, <2>1, <2>2
<1>7. CASE r.kind = "generate"
  <2>1. G!Answer(c, r.answer, "model") /\ r.answer.prompt = G!Prompt(c)
    BY <1>3, <1>7 DEF G!Put, G!Prompt
  <2>2. CallsOK'
    BY <1>1, <1>3, <2>1, AnswerKeeps
  <2> QED
    BY <1>2, <1>6, <2>2 DEF LlmIInv, MemoOK
<1>8. CASE r.kind # "generate"
  <2> DEFINE new == [r EXCEPT !.pc = "keep"]
  <2>1. asking' = [asking EXCEPT ![c] = new] /\ "keep" \in G!Steps /\ r.kind \in G!Memoised
    BY <1>1, <1>3, <1>8 DEF G!Put, CallsOK, G!Steps, G!Cached
  <2> HIDE DEF r
  <2>2. /\ new.kind = r.kind /\ new.prompt = r.prompt /\ new.pc = "keep" /\ new.tries = r.tries /\ new.logged = r.logged
        /\ new.error = r.error /\ new.answer = r.answer /\ new.from = r.from /\ new.told = r.told
    BY <1>1 DEF CallType
  <2>3. new \in CallType
    BY <1>1, <2>1 DEF CallType
  <2> HIDE DEF new
  <2>4. RunOK(new)
    BY <1>1, <1>3, <2>1, <2>2 DEF RunOK
  <2>5. CallsOK'
    BY <1>1, <2>1, <2>3, <2>4, CallMoves
  <2> QED
    BY <1>2, <1>6, <2>5 DEF LlmIInv, MemoOK
<1> QED
  BY <1>7, <1>8

LEMMA KeepKeeps == ASSUME LlmIInv, NEW c \in Calls, G!Keep(c) PROVE LlmIInv'
<1> DEFINE r == asking[c]
           e == [kind |-> r.kind, prompt |-> r.prompt, answer |-> r.answer]
<1>1. r \in CallType /\ RunOK(r) /\ r.pc = "keep" /\ CallsOK /\ MemoOK
  BY DEF LlmIInv, CallsOK, G!Keep, G!At
<1>2. r.kind \in G!Memoised /\ r.answer.prompt = r.prompt /\ r.answer \in Answers /\ r.prompt \in Prompts
  BY <1>1 DEF RunOK, CallType
<1>3. e \in MemoType /\ e.answer.prompt = e.prompt /\ memo' \subseteq memo \cup {e}
  BY <1>2 DEF MemoType, G!Keep, G!Prompt
<1>4. MemoOK'
  <2> HIDE DEF e
  <2> QED
    BY <1>1, <1>3 DEF MemoOK
<1>5. CallsOK'
  <2>1. G!Answer(c, r.answer, r.from) /\ UNCHANGED <<store, now, stats>>
    BY DEF G!Keep
  <2>2. CASE r.from \in {"memo", "cache", "model"}
    BY <1>1, <1>2, <2>1, <2>2, AnswerKeeps DEF G!Prompt
  <2>3. CASE r.from = "none"
    <3> DEFINE new == Answered(r, r.answer, r.from)
    <3>1. /\ new.kind = r.kind /\ new.prompt = r.prompt /\ new.pc = "answered" /\ new.tries = r.tries /\ new.logged = r.logged
          /\ new.error = r.error /\ new.answer = r.answer /\ new.from = r.from /\ new.told = r.told
      BY <1>1 DEF Answered, CallType
    <3>2. new \in CallType
      BY <1>1 DEF Answered, CallType, G!Steps, G!Ended
    <3>3. asking' = [asking EXCEPT ![c] = new]
      BY <1>1, <2>1 DEF G!Answer, Answered, CallsOK
    <3> HIDE DEF new, r
    <3>4. RunOK(new)
      BY <1>1, <1>2, <3>1 DEF RunOK
    <3> QED
      BY <1>1, <3>2, <3>3, <3>4, CallMoves
  <2> QED
    BY <1>1, <2>2, <2>3 DEF CallType
<1> QED
  BY <1>4, <1>5 DEF LlmIInv, G!Keep

LEMMA CacheKeeps == ASSUME LlmIInv, G!ClearCache \/ G!EvictExpired \/ G!Tick PROVE LlmIInv'
<1>1. CallsOK' /\ MemoOK' /\ stats' \in StatsType
  BY DEF G!ClearCache, G!EvictExpired, G!Tick, LlmIInv, CallsOK, MemoOK
<1>2. now \in Nat /\ MaxSize \in Nat \ {0} /\ Soundly(store, now) /\ MaxTime \in Nat /\ now \in 0..MaxTime
  BY DEF LlmIInv, G!Sensible
<1>3. CASE G!ClearCache
  BY <1>1, <1>2, <1>3 DEF G!ClearCache, LlmIInv, Soundly
<1>4. CASE G!EvictExpired
  <2>0. PICK n \in 0..Len(store) : \E from \in [1..n -> G!Fresh] :
          (\A i, j \in 1..n : i < j => from[i] < from[j]) /\ store' = [i \in 1..n |-> store[from[i]]]
    BY <1>4 DEF G!EvictExpired
  <2>1. PICK from \in [1..n -> G!Fresh] :
          (\A i, j \in 1..n : i < j => from[i] < from[j]) /\ store' = [i \in 1..n |-> store[from[i]]]
    BY <2>0
  <2>2. from \in [1..n -> DOMAIN store]
    BY DEF G!Fresh
  <2>3. Soundly(store', now)
    <3> DEFINE s == store'
    <3>1. s = [i \in 1..n |-> store[from[i]]]
      BY <2>1
    <3> HIDE DEF s
    <3>2. Soundly(s, now)
      BY <1>2, <2>1, <2>2, <3>1, ChosenKeeps
    <3> QED
      BY <3>2 DEF s
  <2> QED
    BY <1>1, <1>4, <2>3 DEF G!EvictExpired, LlmIInv
<1>5. CASE G!Tick
  <2>1. store' = store /\ now' = now + 1 /\ now' \in 0..MaxTime
    BY <1>2, <1>5 DEF G!Tick
  <2>2. \A i \in DOMAIN store : store[i].at \in Nat /\ store[i].at <= now
    <3>1. \A i \in DOMAIN store : store[i] \in EntryType /\ store[i].at <= now
      BY <1>2 DEF Soundly
    <3> QED
      BY <3>1 DEF EntryType
  <2>3. Soundly(store', now')
    BY <1>2, <2>1, <2>2 DEF Soundly
  <2> QED
    BY <1>1, <2>1, <2>3 DEF LlmIInv
<1> QED
  BY <1>3, <1>4, <1>5

LEMMA LlmNextHolds == LlmIInv /\ [G!Next]_G!vars => LlmIInv'
<1> SUFFICES ASSUME LlmIInv, [G!Next]_G!vars PROVE LlmIInv'
  OBVIOUS
<1>1. CASE UNCHANGED G!vars
  BY <1>1 DEF LlmIInv, CallsOK, MemoOK, G!vars
<1> QED
  BY <1>1, RecallKeeps, BeginKeeps, LookupKeeps, ReplyKeeps, FailKeeps, PutKeeps, KeepKeeps, CacheKeeps DEF G!Next

-----------------------------------------------------------------------------
(* What the gateway promises                                               *)

LEMMA Promised == LlmIInv => G!GatewayInv
<1> SUFFICES ASSUME LlmIInv PROVE G!GatewayInv
  OBVIOUS
<1>1. ASSUME NEW e \in G!ToSet(store) PROVE e \in EntryType /\ e.at \in 0..now /\ e.answer = G!ModelAnswer(e.prompt)
  <2>1. PICK i \in DOMAIN store : store[i] = e
    BY DEF G!ToSet
  <2>2. e \in EntryType
    BY <2>1 DEF LlmIInv, Soundly
  <2>3. e.at <= now /\ e.answer = G!ModelAnswer(e.prompt)
    BY <2>1 DEF LlmIInv, Soundly
  <2> QED
    BY <2>2, <2>3 DEF EntryType, LlmIInv
<1>2. ASSUME NEW c \in Calls PROVE asking[c] \in CallType /\ RunOK(asking[c])
  BY DEF LlmIInv, CallsOK
<1>3. G!TypeOK
  <2>1. \A f \in DOMAIN stats : stats[f] \in Nat
    BY DEF LlmIInv, StatsType
  <2>2. \A e \in G!ToSet(store) : e.prompt \in Prompts /\ e.at \in 0..now
    BY <1>1 DEF EntryType
  <2>3. \A c \in Calls : asking[c].pc \in G!Steps /\ asking[c].tries \in 0..Attempts
    BY <1>2 DEF CallType, RunOK, LlmIInv, G!Sensible
  <2> QED
    BY <2>1, <2>2, <2>3 DEF G!TypeOK, LlmIInv
<1>4. G!CacheSound
  BY <1>1 DEF G!CacheSound, LlmIInv, Soundly
<1>5. G!AnswersOwn
  <2> SUFFICES ASSUME NEW c \in Calls
               PROVE  /\ G!At(c, "answered") =>
                           /\ asking[c].answer.prompt = G!Prompt(c)
                           /\ asking[c].kind \notin G!Memoised => asking[c].answer.real
                      /\ G!At(c, "raised") => asking[c].tries = Attempts /\ asking[c].error \in G!Errors
                      /\ asking[c].tries > 0 /\ asking[c].kind # "probe" => asking[c].logged
    BY DEF G!AnswersOwn
  <2> QED
    BY <1>2 DEF RunOK, G!At, G!Prompt
<1>6. G!StreamsInOrder
  BY <1>2 DEF G!StreamsInOrder, RunOK, InOrder
<1> QED
  BY <1>3, <1>4, <1>5, <1>6 DEF G!GatewayInv

\* Whatever calls, clean-ups and expiries overlap: the cache keeps its bound, holds no prompt
\* twice and only what the model said, an answer is for the prompt of its call, nothing is
\* raised before the last attempt, and a callback is told pieces in their order
\* (ai_engine/llm/client.py, caching/response_cache.py).
THEOREM GatewaySound == G!Sensible /\ G!Spec => []G!GatewayInv
<1>1. G!Sensible /\ G!Spec => []LlmIInv
  BY LlmInitHolds, LlmNextHolds, PTL DEF G!Spec
<1> QED
  BY <1>1, Promised, PTL

\* An entry in a step keeps its place among those that stay, but for the ones of a call that moved.
LEMMA StaysIn ==
  ASSUME NEW s, NEW k \in DOMAIN s
  PROVE  s[k] \in G!ToSet(s)
BY DEF G!ToSet

Dropped(j) == store[j] \notin G!ToSet(store')
Excused(j) == (\E c \in Calls : G!Prompt(c) = store[j].prompt /\ asking'[c].pc # asking[c].pc) \/ G!Expired(store[j])

LEMMA LookupDrops ==
  ASSUME LlmIInv, NEW c \in Calls, G!Lookup(c), NEW j \in DOMAIN store, Dropped(j)
  PROVE  Excused(j)
<1>0. now \in Nat /\ MaxSize \in Nat /\ Soundly(store, now)
  BY DEF LlmIInv, G!Sensible
<1>1. ASSUME NEW i \in G!Entry(G!Prompt(c)), store' = Append(G!Without(i), store[i]) PROVE FALSE
  <2>1. i \in DOMAIN store
    BY DEF G!Entry
  <2>2. /\ Soundly(G!Without(i), now) /\ Len(G!Without(i)) < MaxSize /\ store[i] \in EntryType
        /\ \A k \in DOMAIN store : k # i => \E m \in DOMAIN G!Without(i) : G!Without(i)[m] = store[k]
    <3>1. store[i] \in EntryType
      BY <1>0, <2>1 DEF Soundly
    <3> QED
      BY <1>0, <2>1, <3>1, RemoveKeeps DEF G!Without
  <2>3. /\ G!Without(i) \in Seq(EntryType) /\ DOMAIN store' = 1..(Len(G!Without(i)) + 1)
        /\ store'[Len(G!Without(i)) + 1] = store[i] /\ \A m \in DOMAIN G!Without(i) : m \in DOMAIN store' /\ store'[m] = G!Without(i)[m]
    BY <1>1, <2>2 DEF Soundly
  <2>4. \E m \in DOMAIN store' : store'[m] = store[j]
    <3>1. CASE j = i
      BY <2>2, <2>3, <3>1
    <3>2. CASE j # i
      BY <2>2, <2>3, <3>2
    <3> QED
      BY <3>1, <3>2
  <2> QED
    BY <2>4, StaysIn DEF Dropped
<1>2. ASSUME NEW i \in G!Entry(G!Prompt(c)), G!Expired(store[i]), store' = G!Without(i) PROVE Excused(j)
  <2>1. i \in DOMAIN store
    BY DEF G!Entry
  <2>2. \A k \in DOMAIN store : k # i => \E m \in DOMAIN store' : store'[m] = store[k]
    BY <1>0, <1>2, <2>1, RemoveKeeps DEF G!Without
  <2>3. j = i
    BY <2>2, StaysIn DEF Dropped
  <2> QED
    BY <1>2, <2>3 DEF Excused
<1>3. CASE store' = store
  BY <1>3, StaysIn DEF Dropped
<1> QED
  BY <1>1, <1>2, <1>3 DEF G!Lookup

LEMMA PutDrops ==
  ASSUME LlmIInv, NEW c \in Calls, G!Put(c), NEW i \in DOMAIN store, NEW j \in DOMAIN store, i < j, ~Dropped(i), Dropped(j)
  PROVE  Excused(j)
<1> DEFINE e == [prompt |-> asking[c].prompt, answer |-> asking[c].answer, at |-> now]
<1>0. /\ now \in Nat /\ MaxSize \in Nat \ {0} /\ Soundly(store, now) /\ asking[c] \in CallType
      /\ store \in Seq(EntryType) /\ DOMAIN store = 1..Len(store) /\ Len(store) \in Nat
  BY DEF LlmIInv, G!Sensible, Soundly, CallsOK
<1>1. e \in EntryType /\ e.prompt = G!Prompt(c)
  BY <1>0 DEF EntryType, CallType, G!Prompt
<1>2. \/ \E k \in G!Entry(G!Prompt(c)) : store' = Append(G!Without(k), e)
      \/ G!Entry(G!Prompt(c)) = {} /\ store' = Append(G!Room, e)
  BY DEF G!Put, G!Prompt
<1> HIDE DEF e
<1>3. ASSUME NEW k \in G!Entry(G!Prompt(c)), store' = Append(G!Without(k), e) PROVE Excused(j)
  <2>1. k \in DOMAIN store /\ store[k].prompt = G!Prompt(c)
    BY DEF G!Entry
  <2>2. /\ Soundly(G!Without(k), now)
        /\ \A m \in DOMAIN store : m # k => \E n \in DOMAIN G!Without(k) : G!Without(k)[n] = store[m]
    BY <1>0, <2>1, RemoveKeeps DEF G!Without
  <2>3. G!Without(k) \in Seq(EntryType) /\ \A m \in DOMAIN G!Without(k) : m \in DOMAIN store' /\ store'[m] = G!Without(k)[m]
    BY <1>1, <1>3, <2>2 DEF Soundly
  <2>4. j = k
    BY <2>2, <2>3, StaysIn DEF Dropped
  <2>5. asking'[c].pc # asking[c].pc
    <3>1. asking[c].pc = "put" /\ asking \in [Calls -> CallType]
      BY DEF G!Put, G!At, LlmIInv, CallsOK
    <3>2. CASE asking[c].kind = "generate"
      <4>1. asking' = [asking EXCEPT ![c].pc = "answered", ![c].answer = asking[c].answer, ![c].from = "model"]
        BY <3>2 DEF G!Put, G!Answer
      <4>2. asking'[c].pc = "answered"
        BY <3>1, <4>1 DEF CallType
      <4> QED
        BY <3>1, <4>2
    <3>3. CASE asking[c].kind # "generate"
      <4>1. asking' = [asking EXCEPT ![c].pc = "keep"]
        BY <3>3 DEF G!Put
      <4>2. asking'[c].pc = "keep"
        BY <3>1, <4>1 DEF CallType
      <4> QED
        BY <3>1, <4>2
    <3> QED
      BY <3>2, <3>3
  <2> QED
    BY <2>1, <2>4, <2>5 DEF Excused
<1>4. CASE G!Entry(G!Prompt(c)) = {} /\ store' = Append(G!Room, e)
  <2>1. PICK d \in Nat : /\ \A k \in DOMAIN G!Room : k + d \in DOMAIN store /\ G!Room[k] = store[k + d]
                        /\ \A k \in DOMAIN store : k > d => \E m \in DOMAIN G!Room : G!Room[m] = store[k]
    BY <1>0, RoomKeeps
  <2>2. G!Room \in Seq(EntryType) /\ Len(G!Room) \in Nat /\ DOMAIN G!Room = 1..Len(G!Room)
    <3>1. Soundly(G!Room, now)
      BY <1>0, RoomKeeps
    <3>2. G!Room \in Seq(EntryType)
      BY <3>1 DEF Soundly
    <3> QED
      BY <3>2
  <2>3. /\ \A m \in DOMAIN G!Room : m \in DOMAIN store' /\ store'[m] = G!Room[m]
        /\ \A m \in DOMAIN store' : store'[m] = e \/ (m \in DOMAIN G!Room /\ store'[m] = G!Room[m])
    BY <1>1, <1>4, <2>2
  <2>4. ~(j > d)
    BY <2>1, <2>3, StaysIn DEF Dropped
  <2>5. PICK m \in DOMAIN store' : store'[m] = store[i]
    BY DEF Dropped, G!ToSet
  <2>6. store[i].prompt # e.prompt
    BY <1>1, <1>4 DEF G!Entry
  <2>7. m \in DOMAIN G!Room /\ G!Room[m] = store[i]
    BY <2>3, <2>5, <2>6
  <2>8. m + d \in DOMAIN store /\ store[m + d] = store[i]
    BY <2>1, <2>7
  <2>9. m + d = i
    BY <1>0, <2>8 DEF Soundly
  <2> QED
    BY <1>0, <2>2, <2>4, <2>7, <2>9
<1> QED
  BY <1>2, <1>3, <1>4

LEMMA CacheDrops ==
  ASSUME LlmIInv, [G!Next]_G!vars, NEW i \in DOMAIN store, NEW j \in DOMAIN store, i < j, ~Dropped(i), Dropped(j)
  PROVE  Excused(j)
<1>1. ASSUME store' = store PROVE FALSE
  BY <1>1, StaysIn DEF Dropped
<1>2. CASE G!ClearCache
  BY <1>2 DEF G!ClearCache, Dropped, G!ToSet
<1>3. CASE G!EvictExpired
  <2>1. PICK n \in 0..Len(store) : \E from \in [1..n -> G!Fresh] :
          (\A k \in G!Fresh : \E m \in 1..n : from[m] = k) /\ store' = [m \in 1..n |-> store[from[m]]]
    BY <1>3 DEF G!EvictExpired
  <2>2. PICK from \in [1..n -> G!Fresh] :
          (\A k \in G!Fresh : \E m \in 1..n : from[m] = k) /\ store' = [m \in 1..n |-> store[from[m]]]
    BY <2>1
  <2>3. ASSUME ~G!Expired(store[j]) PROVE FALSE
    <3>1. PICK m \in 1..n : from[m] = j
      BY <2>2, <2>3 DEF G!Fresh
    <3>2. m \in DOMAIN store' /\ store'[m] = store[j]
      BY <2>2, <3>1
    <3> QED
      BY <3>2, StaysIn DEF Dropped
  <2> QED
    BY <2>3 DEF Excused
<1>4. ASSUME NEW c \in Calls, G!Recall(c) \/ G!Begin(c) \/ G!Reply(c) \/ G!Fail(c) \/ G!Keep(c) PROVE FALSE
  BY <1>1, <1>4 DEF G!Recall, G!Begin, G!Reply, G!Fail, G!Keep
<1>5. CASE G!Tick \/ UNCHANGED G!vars
  BY <1>1, <1>5 DEF G!Tick, G!vars
<1> QED
  BY <1>2, <1>3, <1>4, <1>5, LookupDrops, PutDrops DEF G!Next

\* What a call at its lookup is answered from.
LEMMA AnsweredFresh ==
  ASSUME LlmIInv, [G!Next]_G!vars, NEW c \in Calls, G!At(c, "lookup"), asking'[c].from = "cache"
  PROVE  \E e \in G!ToSet(store) : e.prompt = G!Prompt(c) /\ (Ttl = 0 \/ now - e.at <= Ttl)
<1>1. asking[c].from = "none" /\ asking \in [Calls -> CallType]
  BY DEF LlmIInv, CallsOK, RunOK, G!At
<1>2. G!Lookup(c)
  <2>1. asking'[c] # asking[c]
    BY <1>1
  <2>2. ASSUME NEW d \in Calls, d # c, G!Recall(d) \/ G!Begin(d) \/ G!Lookup(d) \/ G!Reply(d) \/ G!Fail(d) \/ G!Put(d) \/ G!Keep(d) PROVE FALSE
    BY <1>1, <2>1, <2>2 DEF G!Recall, G!Begin, G!Lookup, G!Reply, G!Fail, G!Put, G!Keep, G!Answer
  <2>3. ~(G!Recall(c) \/ G!Begin(c) \/ G!Reply(c) \/ G!Fail(c) \/ G!Put(c) \/ G!Keep(c))
    BY DEF G!At, G!Recall, G!Begin, G!Reply, G!Fail, G!Put, G!Keep
  <2> QED
    BY <2>1, <2>2, <2>3 DEF G!Next, G!vars, G!ClearCache, G!EvictExpired, G!Tick
<1>3. PICK i \in G!Entry(G!Prompt(c)) : ~G!Expired(store[i])
  <2>1. CASE asking' = [asking EXCEPT ![c].pc = "trying", ![c].logged = TRUE]
    <3>1. asking'[c].from = asking[c].from
      BY <1>1, <2>1 DEF CallType
    <3> QED
      BY <1>1, <3>1
  <2> QED
    BY <1>2, <2>1 DEF G!Lookup
<1>4. i \in DOMAIN store /\ store[i].prompt = G!Prompt(c) /\ store[i].at \in Nat
  <2>1. i \in DOMAIN store /\ store[i].prompt = G!Prompt(c)
    BY DEF G!Entry
  <2>2. store[i] \in EntryType
    BY <2>1 DEF LlmIInv, Soundly
  <2> QED
    BY <2>1, <2>2 DEF EntryType
<1>5. Ttl = 0 \/ now - store[i].at <= Ttl
  BY <1>3, <1>4 DEF G!Expired, LlmIInv, G!Sensible
<1> QED
  BY <1>4, <1>5, StaysIn

\* A step answers from no entry that has outlived its time, and room is made only at the
\* cost of entries used less recently than all that stay (AIResponseCache.get and put).
THEOREM CacheFair == G!Sensible /\ G!Spec => [][G!CacheStep]_G!vars
<1>1. G!Sensible /\ G!Spec => []LlmIInv
  BY LlmInitHolds, LlmNextHolds, PTL DEF G!Spec
<1>2. LlmIInv /\ [G!Next]_G!vars => G!CacheStep
  BY AnsweredFresh, CacheDrops DEF G!CacheStep, Dropped, Excused
<1> QED
  BY <1>1, <1>2, PTL DEF G!Spec

-----------------------------------------------------------------------------
(* The parsing stage: any jobs, plans, images and bounds, whatever times    *)
(* out and fails.                                                           *)
(*                                                                          *)
(* A walk is a repetition of steps, at each level of directories. The rest  *)
(* is about threads that go on after they were given up: what was recorded  *)
(* of a thread agrees with where it is from then on.                        *)
CONSTANTS Parsed, Plans, Images, Workers, MaxArtefacts, MaxDepth, MaxParsers, Plugins
VARIABLES stage, plan, image, thread, queue, progress
PS == INSTANCE Parsing WITH Jobs <- Parsed

\* The instance has its own names for what FiniteSets defines.
LEMMA ParseSizes == \A S : (PS!IsFiniteSet(S) <=> IsFiniteSet(S)) /\ PS!Cardinality(S) = Cardinality(S)
BY DEF PS!IsFiniteSet, IsFiniteSet, PS!Cardinality, Cardinality

\* What is listed stays in a set that each step of the walk stays in.
LEMMA ThroughStays ==
  ASSUME NEW X, NEW entries \in Seq(PS!Entry), NEW below, NEW listed \in X,
         \A s \in X, e \in PS!Entry : PS!Enter(below, s, e) \in X
  PROVE  PS!Through(entries, below, listed) \in X
<1> DEFINE N == Len(entries)
           Filled(p) == [n \in 0..N |-> IF n = 0 THEN listed ELSE PS!Enter(below, p[n - 1], entries[n])]
           past == CHOOSE p : p = Filled(p)
           h == [u \in (1..N) \X X |-> PS!Enter(below, u[2], entries[u[1]])]
<1>1. N \in Nat /\ \A n \in 1..N : entries[n] \in PS!Entry
  OBVIOUS
<1>2. PS!Through(entries, below, listed) = past[N]
  BY DEF PS!Through
<1> HIDE DEF N
<1>3. h \in [(1..N) \X X -> X] /\ \A n \in 1..N : \A s \in X : h[<<n, s>>] = PS!Enter(below, s, entries[n])
  <2>1. \A u \in (1..N) \X X : PS!Enter(below, u[2], entries[u[1]]) \in X
    BY <1>1
  <2> QED
    BY <2>1
<1> HIDE DEF h
<1>4. PICK g \in [0..N -> X] : Repeats(g, listed, h, N)
  BY <1>1, <1>3, Repeated
<1>5. \A n \in 0..N : n = 0 \/ (n \in 1..N /\ n - 1 \in 0..N)
  BY <1>1
<1>6. \A n \in 0..N : g[n] = IF n = 0 THEN listed ELSE PS!Enter(below, g[n - 1], entries[n])
  BY <1>3, <1>4, <1>5 DEF Repeats
<1>7. g = Filled(g)
  <2>1. g = [n \in 0..N |-> g[n]]
    OBVIOUS
  <2>2. Filled(g) = [n \in 0..N |-> g[n]]
    BY <1>6
  <2> HIDE DEF Filled
  <2> QED
    BY <2>1, <2>2
<1>8. past = Filled(past)
  <2> HIDE DEF Filled
  <2> QED
    BY <1>7
<1> HIDE DEF past
<1>9. \A n \in 0..N : past[n] = IF n = 0 THEN listed ELSE PS!Enter(below, past[n - 1], entries[n])
  BY <1>8
<1> HIDE DEF Filled
<1> DEFINE S == {n \in 0..N : past[n] \in X}
<1>10. 0 \in S
  BY <1>1, <1>9
<1>11. ASSUME NEW n \in 0..(N - 1), n \in S PROVE n + 1 \in S
  <2>1. n \in 0..N /\ n + 1 \in 0..N /\ n + 1 \in 1..N /\ n + 1 # 0 /\ (n + 1) - 1 = n
    BY <1>1
  <2>2. past[n + 1] = PS!Enter(below, past[n], entries[n + 1]) /\ past[n] \in X
    BY <1>9, <1>11, <2>1
  <2> QED
    BY <1>1, <2>1, <2>2
<1>12. 0..N \subseteq S
  <2> HIDE DEF S
  <2> QED
    BY <1>1, <1>10, <1>11, StepByStep
<1> QED
  BY <1>1, <1>2, <1>12

\* Sequences that list no inode twice.
Once(s) == \A m, n \in DOMAIN s : m # n => s[m].inode # s[n].inode \/ s[m].inode = 0
Listings == {s \in Seq(PS!Entry) : Once(s)}

LEMMA AppendOnce ==
  ASSUME NEW s \in Listings, NEW e \in PS!Entry, ~PS!Known(s, e)
  PROVE  Append(s, e) \in Listings
<1> DEFINE a == Append(s, e)
<1>1. s \in Seq(PS!Entry) /\ a \in Seq(PS!Entry) /\ Len(s) \in Nat /\ DOMAIN s = 1..Len(s) /\ DOMAIN a = 1..(Len(s) + 1)
  BY DEF Listings
<1>2. (\A n \in 1..Len(s) : a[n] = s[n]) /\ a[Len(s) + 1] = e
  BY <1>1
<1>3. \A n \in 1..(Len(s) + 1) : n = Len(s) + 1 \/ n \in 1..Len(s)
  BY <1>1
<1>4. \A m \in 1..Len(s) : s[m].inode # e.inode \/ (s[m].inode = 0 /\ e.inode = 0)
  BY <1>1 DEF PS!Known
<1> HIDE DEF a
<1>5. Once(a)
  <2> SUFFICES ASSUME NEW m \in DOMAIN a, NEW n \in DOMAIN a, m # n PROVE a[m].inode # a[n].inode \/ a[m].inode = 0
    BY DEF Once
  <2>1. CASE m = Len(s) + 1
    BY <1>1, <1>2, <1>3, <1>4, <2>1
  <2>2. CASE n = Len(s) + 1
    BY <1>1, <1>2, <1>3, <1>4, <2>2
  <2>3. CASE m \in 1..Len(s) /\ n \in 1..Len(s)
    BY <1>1, <1>2, <2>3 DEF Once, Listings
  <2> QED
    BY <1>1, <1>3, <2>1, <2>2, <2>3
<1> QED
  BY <1>1, <1>5 DEF Listings, a

\* The walks of the directories of an image, from what was listed before.
Walks(fs, b) ==
  /\ DOMAIN b = DOMAIN fs
  /\ \A dir \in DOMAIN fs : b[dir] \in [Seq(PS!Entry) -> Seq(PS!Entry)]
  /\ \A dir \in DOMAIN fs : \A s \in Listings : b[dir][s] \in Listings

LEMMA WalksGoOn ==
  ASSUME NEW fs, fs \in [DOMAIN fs -> Seq(PS!Entry)], NEW b, b = <<>> \/ Walks(fs, b)
  PROVE  Walks(fs, [dir \in DOMAIN fs |-> [listed \in Seq(PS!Entry) |-> PS!Through(fs[dir], b, listed)]])
<1>0. DOMAIN <<>> = {}
  OBVIOUS
<1>1. \A s \in Seq(PS!Entry), e \in PS!Entry : PS!Enter(b, s, e) \in Seq(PS!Entry)
  <2> SUFFICES ASSUME NEW s \in Seq(PS!Entry), NEW e \in PS!Entry PROVE PS!Enter(b, s, e) \in Seq(PS!Entry)
    OBVIOUS
  <2>1. Append(s, e) \in Seq(PS!Entry)
    OBVIOUS
  <2>2. e.inode \in DOMAIN b => b[e.inode][Append(s, e)] \in Seq(PS!Entry)
    BY <1>0, <2>1 DEF Walks
  <2> QED
    BY <2>1, <2>2 DEF PS!Enter
<1>2. \A s \in Listings, e \in PS!Entry : PS!Enter(b, s, e) \in Listings
  <2> SUFFICES ASSUME NEW s \in Listings, NEW e \in PS!Entry PROVE PS!Enter(b, s, e) \in Listings
    OBVIOUS
  <2>1. CASE PS!Known(s, e)
    BY <2>1 DEF PS!Enter
  <2>2. CASE ~PS!Known(s, e)
    <3>1. Append(s, e) \in Listings
      BY <2>2, AppendOnce
    <3>2. e.inode \in DOMAIN b => b[e.inode][Append(s, e)] \in Listings
      BY <1>0, <3>1 DEF Walks
    <3> QED
      BY <2>2, <3>1, <3>2 DEF PS!Enter
  <2> QED
    BY <2>1, <2>2
<1>3. \A dir \in DOMAIN fs : \A s \in Seq(PS!Entry) : PS!Through(fs[dir], b, s) \in Seq(PS!Entry)
  <2> SUFFICES ASSUME NEW dir \in DOMAIN fs, NEW s \in Seq(PS!Entry) PROVE PS!Through(fs[dir], b, s) \in Seq(PS!Entry)
    OBVIOUS
  <2> DEFINE X == Seq(PS!Entry)
             es == fs[dir]
  <2>1. es \in Seq(PS!Entry) /\ s \in X /\ \A x \in X, e \in PS!Entry : PS!Enter(b, x, e) \in X
    BY <1>1
  <2> HIDE DEF X, es
  <2>2. PS!Through(es, b, s) \in X
    BY <2>1, ThroughStays
  <2> QED
    BY <2>2 DEF X, es
<1>4. \A dir \in DOMAIN fs : \A s \in Listings : s \in Seq(PS!Entry) /\ PS!Through(fs[dir], b, s) \in Listings
  <2> SUFFICES ASSUME NEW dir \in DOMAIN fs, NEW s \in Listings PROVE s \in Seq(PS!Entry) /\ PS!Through(fs[dir], b, s) \in Listings
    OBVIOUS
  <2> DEFINE es == fs[dir]
  <2>1. es \in Seq(PS!Entry)
    OBVIOUS
  <2> HIDE DEF es
  <2>2. PS!Through(es, b, s) \in Listings
    BY <1>2, <2>1, ThroughStays
  <2> QED
    BY <2>2 DEF es, Listings
<1> QED
  BY <1>3, <1>4 DEF Walks

\* A walk ends however its directories point at one another, and lists an inode once.
LEMMA WalksAreListings ==
  ASSUME MaxDepth \in Nat, NEW fs, fs \in [DOMAIN fs -> Seq(PS!Entry)], 0 \in DOMAIN fs
  PROVE  PS!Walk(fs) \in Listings
<1> DEFINE M == MaxDepth
           Deeper(b) == [dir \in DOMAIN fs |-> [listed \in Seq(PS!Entry) |-> PS!Through(fs[dir], b, listed)]]
           Filled(p) == [room \in 0..M |-> [dir \in DOMAIN fs |-> [listed \in Seq(PS!Entry) |->
                           PS!Through(fs[dir], IF room = 0 THEN <<>> ELSE p[room - 1], listed)]]]
           from == CHOOSE p : p = Filled(p)
           V == {b \in [DOMAIN fs -> [Seq(PS!Entry) -> Seq(PS!Entry)]] : Walks(fs, b)}
           h == [u \in (1..M) \X V |-> Deeper(u[2])]
<1>1. PS!Walk(fs) = from[M][0][<<>>]
  BY DEF PS!Walk
<1>2. \A b : b = <<>> \/ Walks(fs, b) => Deeper(b) \in V
  <2> SUFFICES ASSUME NEW b, b = <<>> \/ Walks(fs, b) PROVE Deeper(b) \in V
    OBVIOUS
  <2>1. Walks(fs, Deeper(b))
    BY WalksGoOn
  <2> DEFINE d == Deeper(b)
  <2>2. d = [dir \in DOMAIN fs |-> d[dir]]
    OBVIOUS
  <2> HIDE DEF d
  <2>3. d \in [DOMAIN fs -> [Seq(PS!Entry) -> Seq(PS!Entry)]]
    BY <2>1, <2>2 DEF Walks, d
  <2> QED
    BY <2>1, <2>3 DEF d
<1>3. Deeper(<<>>) \in V /\ h \in [(1..M) \X V -> V] /\ \A n \in 1..M : \A b \in V : h[<<n, b>>] = Deeper(b)
  <2> HIDE DEF Deeper
  <2>1. \A u \in (1..M) \X V : Deeper(u[2]) \in V
    BY <1>2
  <2>2. Deeper(<<>>) \in V
    BY <1>2
  <2> HIDE DEF V
  <2> QED
    BY <2>1, <2>2
<1>4. M \in Nat
  OBVIOUS
<1> HIDE DEF h, V, M
<1>5. PICK g \in [0..M -> V] : Repeats(g, Deeper(<<>>), h, M)
  <2> DEFINE v == Deeper(<<>>)
  <2>1. v \in V
    BY <1>3
  <2> HIDE DEF v
  <2>2. \E g \in [0..M -> V] : Repeats(g, v, h, M)
    BY <1>3, <1>4, <2>1, Repeated
  <2> QED
    BY <2>2 DEF v
<1>6. \A n \in 0..M : n = 0 \/ (n \in 1..M /\ n - 1 \in 0..M)
  BY <1>4
<1>7. \A n \in 0..M : g[n] = IF n = 0 THEN Deeper(<<>>) ELSE Deeper(g[n - 1])
  <2> HIDE DEF Deeper
  <2> QED
    BY <1>3, <1>5, <1>6 DEF Repeats
<1>8. \A p : Filled(p) = [n \in 0..M |-> IF n = 0 THEN Deeper(<<>>) ELSE Deeper(p[n - 1])]
  <2> SUFFICES ASSUME NEW p PROVE Filled(p) = [n \in 0..M |-> IF n = 0 THEN Deeper(<<>>) ELSE Deeper(p[n - 1])]
    OBVIOUS
  <2>1. \A n \in 0..M : Filled(p)[n] = IF n = 0 THEN Deeper(<<>>) ELSE Deeper(p[n - 1])
    <3> SUFFICES ASSUME NEW n \in 0..M PROVE Filled(p)[n] = IF n = 0 THEN Deeper(<<>>) ELSE Deeper(p[n - 1])
      OBVIOUS
    <3> DEFINE b == IF n = 0 THEN <<>> ELSE p[n - 1]
    <3>1. Filled(p)[n] = Deeper(b)
      OBVIOUS
    <3>2. b = IF n = 0 THEN <<>> ELSE p[n - 1]
      OBVIOUS
    <3> HIDE DEF b, Filled, Deeper
    <3> QED
      BY <3>1, <3>2
  <2>2. Filled(p) = [n \in 0..M |-> Filled(p)[n]]
    OBVIOUS
  <2> HIDE DEF Filled, Deeper
  <2> QED
    BY <2>1, <2>2
<1>9. g = Filled(g)
  <2>1. g = [n \in 0..M |-> g[n]]
    OBVIOUS
  <2> HIDE DEF Filled, Deeper
  <2>2. Filled(g) = [n \in 0..M |-> g[n]]
    BY <1>7, <1>8
  <2> QED
    BY <2>1, <2>2
<1>10. from = Filled(from)
  <2> HIDE DEF Filled
  <2> QED
    BY <1>9
<1> HIDE DEF from, Filled, Deeper
<1>11. \A n \in 0..M : from[n] = IF n = 0 THEN Deeper(<<>>) ELSE Deeper(from[n - 1])
  <2>1. from = [n \in 0..M |-> IF n = 0 THEN Deeper(<<>>) ELSE Deeper(from[n - 1])]
    BY <1>8, <1>10
  <2> QED
    BY <2>1
<1> DEFINE S == {n \in 0..M : from[n] \in V}
<1>12. 0 \in S
  BY <1>3, <1>4, <1>11
<1>13. ASSUME NEW n \in 0..(M - 1), n \in S PROVE n + 1 \in S
  <2>1. n + 1 \in 0..M /\ n + 1 # 0 /\ (n + 1) - 1 = n
    BY <1>4
  <2>2. from[n + 1] = Deeper(from[n])
    BY <1>11, <2>1
  <2>3. Walks(fs, from[n])
    BY <1>13 DEF V
  <2> QED
    BY <1>2, <2>1, <2>2, <2>3
<1>14. 0..M \subseteq S
  <2> HIDE DEF S
  <2> QED
    BY <1>4, <1>12, <1>13, StepByStep
<1>15. Walks(fs, from[M])
  <2>1. M \in S
    BY <1>4, <1>14
  <2> QED
    BY <2>1 DEF V
<1>16. <<>> \in Listings
  BY DEF Listings, Once
<1> QED
  BY <1>1, <1>15, <1>16 DEF Walks

\* What is located are entries.
LEMMA LocatedEntries ==
  ASSUME NEW fs, PS!Walk(fs) \in Seq(PS!Entry), NEW parser
  PROVE  PS!Located(fs, parser) \in Seq(PS!Entry)
<1> DEFINE all == PS!Walk(fs)
           N == Len(all)
           X == Seq(PS!Entry)
           Filled(p) == [n \in 0..N |-> IF n = 0 THEN <<>> ELSE PS!Wanted(p[n - 1], all[n], parser)]
           found == CHOOSE p : p = Filled(p)
           h == [u \in (1..N) \X X |-> PS!Wanted(u[2], all[u[1]], parser)]
<1>1. PS!Located(fs, parser) = found[N]
  BY DEF PS!Located
<1>2. N \in Nat /\ \A n \in 1..N : all[n] \in PS!Entry
  OBVIOUS
<1> HIDE DEF N, all
<1>3. \A n \in 1..N : \A s \in X : PS!Wanted(s, all[n], parser) \in X
  BY <1>2 DEF PS!Wanted
<1>4. <<>> \in X
  OBVIOUS
<1> HIDE DEF X
<1>5. h \in [(1..N) \X X -> X] /\ \A n \in 1..N : \A s \in X : h[<<n, s>>] = PS!Wanted(s, all[n], parser)
  <2>1. \A u \in (1..N) \X X : PS!Wanted(u[2], all[u[1]], parser) \in X
    BY <1>3
  <2> QED
    BY <2>1
<1> HIDE DEF h
<1>6. PICK g \in [0..N -> X] : Repeats(g, <<>>, h, N)
  BY <1>2, <1>4, <1>5, Repeated
<1>7. \A n \in 0..N : n = 0 \/ (n \in 1..N /\ n - 1 \in 0..N)
  BY <1>2
<1>8. \A n \in 0..N : g[n] = IF n = 0 THEN <<>> ELSE PS!Wanted(g[n - 1], all[n], parser)
  BY <1>5, <1>6, <1>7 DEF Repeats
<1>9. g = Filled(g)
  <2>1. g = [n \in 0..N |-> g[n]]
    OBVIOUS
  <2>2. Filled(g) = [n \in 0..N |-> g[n]]
    BY <1>8
  <2> HIDE DEF Filled
  <2> QED
    BY <2>1, <2>2
<1>10. found = Filled(found)
  <2> HIDE DEF Filled
  <2> QED
    BY <1>9
<1> HIDE DEF found
<1>11. \A n \in 0..N : found[n] = IF n = 0 THEN <<>> ELSE PS!Wanted(found[n - 1], all[n], parser)
  BY <1>10
<1> HIDE DEF Filled
<1> DEFINE S == {n \in 0..N : found[n] \in X}
<1>12. 0 \in S
  <2>1. 0 \in 0..N
    BY <1>2
  <2>2. found[0] = <<>>
    BY <1>11, <2>1
  <2> QED
    BY <1>4, <2>1, <2>2
<1>13. ASSUME NEW n \in 0..(N - 1), n \in S PROVE n + 1 \in S
  <2>1. n + 1 \in 0..N /\ n + 1 \in 1..N /\ n + 1 # 0 /\ (n + 1) - 1 = n
    BY <1>2
  <2>2. found[n + 1] = PS!Wanted(found[n], all[n + 1], parser)
    BY <1>11, <2>1
  <2> QED
    BY <1>3, <1>13, <2>1, <2>2
<1>14. 0..N \subseteq S
  <2> HIDE DEF S
  <2> QED
    BY <1>2, <1>12, <1>13, StepByStep
<1> QED
  BY <1>1, <1>2, <1>14 DEF X

\* What the threads are and what the stages have recorded of them.
ThreadPcs ==
  {"none", "queued", "open", "walk", "extract", "read", "close", "close_raise", "plugin", "returned", "raised"}
ThreadType ==
  [pc : ThreadPcs, handle : {"none", "open", "closed"}, dir : BOOLEAN, files : SUBSET Nat, listed : SUBSET Nat,
   todo : Seq(PS!Entry), got : 0..MaxArtefacts, plugin : Nat, late : BOOLEAN, given : BOOLEAN]
StageType ==
  [pc : {"ready", "waiting", "completed", "failed"}, results : Seq({"completed", "failed"}),
   artefacts : SUBSET (PS!Threads \X Nat)]
ProgressType == [current : Nat, done : Nat, count : Nat, found : Nat]
ParseTypes ==
  /\ plan \in Plans /\ image \in [Parsed -> Images]
  /\ stage \in [Parsed -> StageType] /\ thread \in [PS!Threads -> ThreadType]
  /\ queue \in Seq(PS!Threads) /\ progress \in [Parsed -> ProgressType]

\* A call waits for a thread once.
QueueInv ==
  /\ \A n \in DOMAIN queue : thread[queue[n]].pc = "queued"
  /\ \A m, n \in DOMAIN queue : queue[m] = queue[n] => m = n

\* A thread that has opened nothing or has ended leaves nothing.
Clean(th, t) ==
  /\ th.pc \in {"none", "queued", "open", "plugin"} => th.files = {} /\ ~th.dir /\ th.handle = "none"
  /\ th.pc \in {"returned", "raised"} =>
       /\ th.files = {} /\ ~th.dir
       /\ th.handle = "open" => PS!Parser(t) \in PS!FileParsers /\ th.pc = "raised"
  /\ th.pc = "read" => th.todo # <<>>

\* The parsers that completed, and what their threads found.
Recordings(j) == 1..Len(stage[j].results)
Done(j) == {n \in Recordings(j) : stage[j].results[n] = "completed"}
Found(j) == UNION {PS!Artefacts(<<j, n>>) : n \in Done(j)}

\* What was recorded of a thread agrees with where it is now; the thread of the
\* parser that runs was not given up, those of later ones were never asked for.
ResultInv(j, n) ==
  LET th == thread[<<j, n>>] IN
  /\ n \in Recordings(j) => IF stage[j].results[n] = "completed" THEN th.pc = "returned" /\ ~th.given
                            ELSE th.given \/ th.pc = "raised"
  /\ n \notin Recordings(j) => ~th.given /\ (th.pc # "none" <=> stage[j].pc = "waiting" /\ n = Len(stage[j].results) + 1)

StageInv(j) ==
  /\ Len(stage[j].results) <= Len(plan[j])
  /\ stage[j].pc = "waiting" => Len(stage[j].results) < Len(plan[j])
  /\ PS!Ended(j) => /\ Len(stage[j].results) = Len(plan[j]) /\ progress[j].current = 0
                 /\ stage[j].artefacts = Found(j) /\ (stage[j].pc = "failed" <=> Done(j) = {})
  /\ progress[j].count = Len(plan[j]) /\ progress[j].done = Len(stage[j].results)
  /\ progress[j].current \in 0..Len(plan[j])
  /\ IsFiniteSet(Found(j)) /\ progress[j].found = Cardinality(Found(j))
  /\ \A n \in 1..MaxParsers : ResultInv(j, n)

ParseInv ==
  /\ ParseTypes /\ QueueInv
  /\ \A t \in PS!Threads : Clean(thread[t], t)
  /\ \A j \in Parsed : StageInv(j)

LEMMA PlansFit ==
  ASSUME PS!Sensible, ParseTypes, NEW j \in Parsed
  PROVE  /\ plan[j] \in Seq(PS!FileParsers \cup {"filesystem", "memory"}) /\ Len(plan[j]) \in Nat /\ Len(plan[j]) <= MaxParsers
         /\ MaxParsers \in Nat /\ MaxArtefacts \in Nat
         /\ stage[j] \in StageType /\ Len(stage[j].results) \in Nat /\ Recordings(j) = DOMAIN stage[j].results
         /\ progress[j] \in ProgressType
         /\ \A n \in 1..MaxParsers : <<j, n>> \in PS!Threads /\ thread[<<j, n>>] \in ThreadType
<1>1. plan[j] \in Seq(PS!FileParsers \cup {"filesystem", "memory"}) /\ Len(plan[j]) <= MaxParsers
  BY DEF PS!Sensible, ParseTypes
<1>2. stage[j] \in StageType /\ progress[j] \in ProgressType
  BY DEF ParseTypes
<1>3. stage[j].results \in Seq({"completed", "failed"})
  BY <1>2 DEF StageType
<1>4. \A n \in 1..MaxParsers : <<j, n>> \in PS!Threads
  BY DEF PS!Threads
<1> QED
  BY <1>1, <1>2, <1>3, <1>4 DEF PS!Sensible, ParseTypes, Recordings

\* What a stage relies on of a thread lasts while the thread goes on.
Goes(a, b) == b = a \/ (a.pc \notin {"none", "returned", "raised"} /\ b.pc # "none" /\ b.given = a.given)
LEMMA StageKept ==
  ASSUME PS!Sensible, ParseTypes, NEW j \in Parsed, StageInv(j), stage'[j] = stage[j], progress'[j] = progress[j], plan' = plan,
         \A n \in 1..MaxParsers : Goes(thread[<<j, n>>], thread'[<<j, n>>])
  PROVE  StageInv(j)'
<1>1. /\ MaxParsers \in Nat /\ Len(plan[j]) <= MaxParsers /\ Len(plan[j]) \in Nat /\ Len(stage[j].results) \in Nat
      /\ Recordings(j)' = Recordings(j) /\ Done(j)' = Done(j) /\ (PS!Ended(j)' <=> PS!Ended(j))
  BY PlansFit DEF Recordings, Done, PS!Ended
<1>2. Recordings(j) \subseteq 1..MaxParsers /\ Done(j) \subseteq Recordings(j)
  BY <1>1 DEF StageInv, Recordings, Done
<1>3. \A n \in Done(j) : thread'[<<j, n>>] = thread[<<j, n>>]
  <2> SUFFICES ASSUME NEW n \in Done(j) PROVE thread'[<<j, n>>] = thread[<<j, n>>]
    OBVIOUS
  <2>1. n \in Recordings(j) /\ n \in 1..MaxParsers /\ stage[j].results[n] = "completed"
    BY <1>2 DEF Done
  <2>2. thread[<<j, n>>].pc = "returned"
    BY <2>1 DEF StageInv, ResultInv
  <2> QED
    BY <2>1, <2>2 DEF Goes
<1>4. Found(j)' = Found(j)
  <2>1. \A n \in Done(j) : PS!Artefacts(<<j, n>>)' = PS!Artefacts(<<j, n>>)
    BY <1>3 DEF PS!Artefacts
  <2> QED
    BY <1>1, <2>1 DEF Found
<1>5. ASSUME NEW n \in 1..MaxParsers PROVE ResultInv(j, n)'
  <2>1. ResultInv(j, n) /\ Goes(thread[<<j, n>>], thread'[<<j, n>>])
    BY DEF StageInv
  <2>2. (n \in Recordings(j))' <=> n \in Recordings(j)
    BY <1>1
  <2>3. CASE thread'[<<j, n>>] = thread[<<j, n>>]
    BY <2>1, <2>2, <2>3 DEF ResultInv
  <2>4. CASE /\ thread[<<j, n>>].pc \notin {"none", "returned", "raised"} /\ thread'[<<j, n>>].pc # "none"
             /\ thread'[<<j, n>>].given = thread[<<j, n>>].given
    BY <2>1, <2>2, <2>4 DEF ResultInv
  <2> QED
    BY <2>1, <2>3, <2>4 DEF Goes
<1>6. /\ Len(stage[j].results) <= Len(plan[j])
      /\ stage[j].pc = "waiting" => Len(stage[j].results) < Len(plan[j])
      /\ PS!Ended(j) => /\ Len(stage[j].results) = Len(plan[j]) /\ progress[j].current = 0
                     /\ stage[j].artefacts = Found(j) /\ (stage[j].pc = "failed" <=> Done(j) = {})
      /\ progress[j].count = Len(plan[j]) /\ progress[j].done = Len(stage[j].results)
      /\ progress[j].current \in 0..Len(plan[j])
      /\ IsFiniteSet(Found(j)) /\ progress[j].found = Cardinality(Found(j))
  BY DEF StageInv
<1> QED
  BY <1>1, <1>4, <1>5, <1>6 DEF StageInv

\* A thread that goes on keeps everything, if what it becomes is as it should be.
LEMMA ThreadGoes ==
  ASSUME PS!Sensible, ParseInv, NEW t \in PS!Threads, NEW c \in ThreadType, PS!Set(t, c), Clean(c, t), UNCHANGED <<stage, plan, image, progress>>,
         thread[t].pc \notin {"none", "returned", "raised"}, c.pc # "none", c.given = thread[t].given,
         queue' \in Seq(PS!Threads), QueueInv'
  PROVE  ParseInv'
<1>1. /\ thread' = [thread EXCEPT ![t] = c] /\ thread \in [PS!Threads -> ThreadType] /\ ParseTypes
      /\ stage' = stage /\ plan' = plan /\ image' = image /\ progress' = progress
  BY DEF PS!Set, ParseInv, ParseTypes
<1>2. \A u \in PS!Threads : thread'[u] = IF u = t THEN c ELSE thread[u]
  BY <1>1
<1>3. ParseTypes'
  <2>1. thread' \in [PS!Threads -> ThreadType]
    BY <1>1
  <2> QED
    BY <1>1, <2>1 DEF ParseTypes, ThreadType, StageType, ProgressType, PS!Threads
<1>4. ASSUME NEW u \in PS!Threads PROVE Clean(thread[u], u)'
  <2>1. PS!Parser(u)' = PS!Parser(u) /\ Clean(thread[u], u)
    BY <1>1 DEF PS!Parser, ParseInv
  <2>2. Clean(thread'[u], u)
    BY <1>2, <2>1
  <2> QED
    BY <2>1, <2>2 DEF Clean
<1>5. ASSUME NEW j \in Parsed PROVE StageInv(j)'
  <2>1. \A n \in 1..MaxParsers : <<j, n>> \in PS!Threads
    BY DEF PS!Threads
  <2>2. \A n \in 1..MaxParsers : Goes(thread[<<j, n>>], thread'[<<j, n>>])
    BY <1>2, <2>1 DEF Goes
  <2> QED
    BY <1>1, <2>2, StageKept DEF ParseInv
<1> QED
  BY <1>3, <1>4, <1>5 DEF ParseInv

\* The same when the queue stays as it is.
LEMMA ThreadStays ==
  ASSUME PS!Sensible, ParseInv, NEW t \in PS!Threads, NEW c \in ThreadType, PS!Set(t, c), Clean(c, t), PS!Kept,
         thread[t].pc \notin {"none", "queued", "returned", "raised"}, c.pc # "none", c.given = thread[t].given
  PROVE  ParseInv'
<1>1. /\ stage' = stage /\ plan' = plan /\ image' = image /\ progress' = progress /\ queue' = queue
      /\ thread' = [thread EXCEPT ![t] = c] /\ thread \in [PS!Threads -> ThreadType] /\ queue \in Seq(PS!Threads)
  BY DEF PS!Kept, PS!Set, ParseInv, ParseTypes
<1>2. QueueInv'
  <2>1. \A n \in DOMAIN queue : queue[n] \in PS!Threads /\ thread[queue[n]].pc = "queued"
    BY <1>1 DEF ParseInv, QueueInv
  <2>2. \A n \in DOMAIN queue : thread'[queue[n]] = thread[queue[n]]
    BY <1>1, <2>1
  <2> QED
    BY <1>1, <2>1, <2>2 DEF ParseInv, QueueInv
<1> QED
  BY <1>1, <1>2, ThreadGoes

\* A thread's record, part by part.
LEMMA ThreadParts ==
  ASSUME ParseTypes, NEW t \in PS!Threads
  PROVE  /\ thread[t] \in ThreadType
         /\ thread[t].todo \in Seq(PS!Entry) /\ thread[t].got \in 0..MaxArtefacts /\ thread[t].files \subseteq Nat
         /\ image[t[1]] \in Images
<1>1. thread[t] \in ThreadType /\ t[1] \in Parsed
  BY DEF ParseTypes, PS!Threads
<1> QED
  BY <1>1 DEF ParseTypes, ThreadType

LEMMA ImageWalks ==
  ASSUME PS!Sensible, NEW fs \in Images
  PROVE  PS!Walk(fs) \in Listings /\ Len(PS!Walk(fs)) \in Nat /\ \A parser : PS!Located(fs, parser) \in Seq(PS!Entry)
<1>1. MaxDepth \in Nat /\ 0 \in DOMAIN fs /\ fs \in [DOMAIN fs -> Seq(PS!Entry)]
  BY DEF PS!Sensible
<1>2. PS!Walk(fs) \in Listings
  BY <1>1, WalksAreListings
<1>3. PS!Walk(fs) \in Seq(PS!Entry)
  BY <1>2 DEF Listings
<1> QED
  BY <1>2, <1>3, LocatedEntries

(* The threads                                                               *)

LEMMA StartsClean ==
  ASSUME PS!Sensible, ParseInv, NEW t \in PS!Threads, PS!StartThread(t)
  PROVE  ParseInv'
<1> DEFINE c == [thread[t] EXCEPT !.pc = IF PS!Parser(t) = "memory" THEN "plugin" ELSE "open"]
<1>1. /\ queue # <<>> /\ t = Head(queue) /\ queue' = Tail(queue) /\ queue \in Seq(PS!Threads)
      /\ PS!Set(t, c) /\ UNCHANGED <<stage, plan, image, progress>>
      /\ thread' = [thread EXCEPT ![t] = c] /\ thread \in [PS!Threads -> ThreadType]
  BY DEF PS!StartThread, PS!Set, ParseInv, ParseTypes
<1>2. /\ Len(queue) \in Nat /\ 1 \in DOMAIN queue /\ queue[1] = t /\ queue' \in Seq(PS!Threads) /\ DOMAIN queue = 1..Len(queue)
      /\ \A n \in DOMAIN queue' : n + 1 \in DOMAIN queue /\ n + 1 # 1 /\ n \in Nat /\ queue'[n] = queue[n + 1]
  BY <1>1
<1>3. thread[t].pc = "queued" /\ thread[t] \in ThreadType /\ Clean(thread[t], t)
  BY <1>1, <1>2 DEF ParseInv, QueueInv
<1>4. c \in ThreadType /\ c.pc \in {"plugin", "open"} /\ c.given = thread[t].given
  BY <1>3 DEF ThreadType, ThreadPcs
<1>5. Clean(c, t)
  BY <1>3, <1>4 DEF Clean, ThreadType
<1>6. QueueInv'
  <2>1. \A n \in DOMAIN queue' : queue'[n] # t /\ queue'[n] \in PS!Threads /\ thread[queue'[n]].pc = "queued"
    BY <1>1, <1>2 DEF ParseInv, QueueInv
  <2>2. \A n \in DOMAIN queue' : thread'[queue'[n]] = thread[queue'[n]]
    BY <1>1, <2>1
  <2>3. \A m, n \in DOMAIN queue' : queue'[m] = queue'[n] => m = n
    <3> SUFFICES ASSUME NEW m \in DOMAIN queue', NEW n \in DOMAIN queue', queue'[m] = queue'[n] PROVE m = n
      OBVIOUS
    <3>1. m + 1 = n + 1
      BY <1>2 DEF ParseInv, QueueInv
    <3> QED
      BY <1>2, <3>1
  <2> QED
    BY <2>1, <2>2, <2>3 DEF QueueInv
<1> HIDE DEF c
<1> QED
  BY <1>1, <1>2, <1>3, <1>4, <1>5, <1>6, ThreadGoes

LEMMA OpensClean ==
  ASSUME PS!Sensible, ParseInv, NEW t \in PS!Threads, PS!Open(t)
  PROVE  ParseInv'
<1> DEFINE th == thread[t]
           f == [th EXCEPT !.pc = "raised"]
           o == [th EXCEPT !.pc = "walk", !.handle = "open", !.dir = PS!Parser(t) \in PS!FileParsers]
           d == [th EXCEPT !.pc = "raised", !.handle = "open"]
<1>1. th.pc = "open" /\ PS!Kept /\ (PS!Set(t, f) \/ PS!Set(t, o) \/ (PS!Parser(t) \in PS!FileParsers /\ PS!Set(t, d)))
  BY DEF PS!Open
<1>2. th \in ThreadType /\ Clean(th, t)
  BY ThreadParts DEF ParseInv
<1>3. f \in ThreadType /\ f.pc = "raised" /\ f.given = th.given /\ Clean(f, t)
  BY <1>1, <1>2 DEF ThreadType, ThreadPcs, Clean
<1>4. o \in ThreadType /\ o.pc = "walk" /\ o.given = th.given /\ Clean(o, t)
  <2>1. (PS!Parser(t) \in PS!FileParsers) \in BOOLEAN
    OBVIOUS
  <2> QED
    BY <1>1, <1>2, <2>1 DEF ThreadType, ThreadPcs, Clean
<1>5. PS!Parser(t) \in PS!FileParsers => d \in ThreadType /\ d.pc = "raised" /\ d.given = th.given /\ Clean(d, t)
  BY <1>1, <1>2 DEF ThreadType, ThreadPcs, Clean
<1> HIDE DEF f, o, d
<1> QED
  BY <1>1, <1>3, <1>4, <1>5, ThreadStays

LEMMA WalksClean ==
  ASSUME PS!Sensible, ParseInv, NEW t \in PS!Threads, PS!WalkImage(t)
  PROVE  ParseInv'
<1> DEFINE th == thread[t]
           fs == image[t[1]]
           f == [th EXCEPT !.pc = "close_raise"]
           a == [th EXCEPT !.pc = "close", !.got = PS!Least(Len(PS!Walk(fs)), MaxArtefacts)]
           e == [th EXCEPT !.pc = "extract", !.todo = PS!Located(fs, PS!Parser(t))]
<1>1. th.pc = "walk" /\ PS!Kept /\ (PS!Set(t, f) \/ PS!Set(t, a) \/ PS!Set(t, e))
  BY DEF PS!WalkImage
<1>2. th \in ThreadType /\ Clean(th, t) /\ fs \in Images
  BY ThreadParts DEF ParseInv
<1>3. PS!Located(fs, PS!Parser(t)) \in Seq(PS!Entry) /\ PS!Least(Len(PS!Walk(fs)), MaxArtefacts) \in 0..MaxArtefacts
  <2>1. PS!Located(fs, PS!Parser(t)) \in Seq(PS!Entry) /\ Len(PS!Walk(fs)) \in Nat /\ MaxArtefacts \in Nat
    BY <1>2, ImageWalks DEF PS!Sensible
  <2> QED
    BY <2>1 DEF PS!Least
<1>4. f \in ThreadType /\ f.pc = "close_raise" /\ f.given = th.given /\ Clean(f, t)
  BY <1>1, <1>2 DEF ThreadType, ThreadPcs, Clean
<1>5. a \in ThreadType /\ a.pc = "close" /\ a.given = th.given /\ Clean(a, t)
  BY <1>1, <1>2, <1>3 DEF ThreadType, ThreadPcs, Clean
<1>6. e \in ThreadType /\ e.pc = "extract" /\ e.given = th.given /\ Clean(e, t)
  BY <1>1, <1>2, <1>3 DEF ThreadType, ThreadPcs, Clean
<1> HIDE DEF f, a, e
<1> QED
  BY <1>1, <1>4, <1>5, <1>6, ThreadStays

LEMMA ExtractsClean ==
  ASSUME PS!Sensible, ParseInv, NEW t \in PS!Threads, PS!Extract(t)
  PROVE  ParseInv'
<1> DEFINE th == thread[t]
           e == Head(th.todo)
           o == [th EXCEPT !.pc = "close"]
           n == [th EXCEPT !.todo = Tail(@)]
           b == [th EXCEPT !.todo = Tail(@), !.files = @ \cup {e.inode}]
           r == [th EXCEPT !.pc = "read", !.files = @ \cup {e.inode}, !.listed = @ \cup {e.inode}]
<1>1. th.pc = "extract" /\ PS!Kept /\ (PS!Set(t, o) \/ (th.todo # <<>> /\ (PS!Set(t, n) \/ PS!Set(t, b) \/ PS!Set(t, r))))
  BY DEF PS!Extract
<1>2. th \in ThreadType /\ Clean(th, t) /\ th.todo \in Seq(PS!Entry)
  BY ThreadParts DEF ParseInv
<1>3. th.todo # <<>> => Tail(th.todo) \in Seq(PS!Entry) /\ e.inode \in Nat
  <2>1. th.todo # <<>> => Tail(th.todo) \in Seq(PS!Entry) /\ e \in PS!Entry
    BY <1>2
  <2> QED
    BY <2>1 DEF PS!Entry
<1>4. o \in ThreadType /\ o.pc = "close" /\ o.given = th.given /\ Clean(o, t)
  BY <1>1, <1>2 DEF ThreadType, ThreadPcs, Clean
<1>5. th.todo # <<>> => n \in ThreadType /\ n.pc = "extract" /\ n.given = th.given /\ Clean(n, t)
  BY <1>1, <1>2, <1>3 DEF ThreadType, ThreadPcs, Clean
<1>6. th.todo # <<>> => b \in ThreadType /\ b.pc = "extract" /\ b.given = th.given /\ Clean(b, t)
  BY <1>1, <1>2, <1>3 DEF ThreadType, ThreadPcs, Clean
<1>7. th.todo # <<>> => r \in ThreadType /\ r.pc = "read" /\ r.given = th.given /\ Clean(r, t)
  BY <1>1, <1>2, <1>3 DEF ThreadType, ThreadPcs, Clean
<1> HIDE DEF o, n, b, r
<1> QED
  BY <1>1, <1>4, <1>5, <1>6, <1>7, ThreadStays

LEMMA ReadsClean ==
  ASSUME PS!Sensible, ParseInv, NEW t \in PS!Threads, NEW parser, NEW yields, PS!Reads(t, parser, yields),
         \A most \in 0..MaxArtefacts : yields[most] \subseteq 0..most
  PROVE  ParseInv'
<1> DEFINE th == thread[t]
<1>1. th.pc = "read" /\ PS!Kept
  BY DEF PS!Reads
<1>2. th \in ThreadType /\ Clean(th, t) /\ th.todo \in Seq(PS!Entry) /\ th.got \in 0..MaxArtefacts /\ MaxArtefacts \in Nat
  BY ThreadParts DEF ParseInv, PS!Sensible
<1>3. th.todo # <<>> /\ Tail(th.todo) \in Seq(PS!Entry) /\ Head(th.todo) \in PS!Entry
  BY <1>1, <1>2 DEF Clean
<1>4. PICK n \in yields[PS!Least(Head(th.todo).records, PS!Remaining(t))] :
        PS!Set(t, [th EXCEPT !.pc = "extract", !.todo = Tail(@), !.got = @ + n])
  BY DEF PS!Reads
<1> DEFINE c == [th EXCEPT !.pc = "extract", !.todo = Tail(@), !.got = @ + n]
           most == PS!Least(Head(th.todo).records, PS!Remaining(t))
<1>5. most \in 0..MaxArtefacts /\ most <= MaxArtefacts - th.got
  <2>1. Head(th.todo).records \in Nat /\ PS!Remaining(t) \in 0..MaxArtefacts /\ PS!Remaining(t) = MaxArtefacts - th.got
    BY <1>2, <1>3 DEF PS!Entry, PS!Remaining
  <2> QED
    BY <1>2, <2>1 DEF PS!Least
<1>6. n \in 0..most
  BY <1>4, <1>5
<1> HIDE DEF most
<1>7. th.got + n \in 0..MaxArtefacts
  BY <1>2, <1>5, <1>6
<1>8. c \in ThreadType /\ c.pc = "extract" /\ c.given = th.given /\ Clean(c, t)
  BY <1>1, <1>2, <1>3, <1>7 DEF ThreadType, ThreadPcs, Clean
<1>9. PS!Set(t, c)
  BY <1>4
<1> HIDE DEF c
<1> QED
  BY <1>1, <1>8, <1>9, ThreadStays

LEMMA FilesReadClean ==
  ASSUME PS!Sensible, ParseInv, NEW t \in PS!Threads, PS!ReadHive(t) \/ PS!ReadDatabase(t) \/ PS!ReadLog(t)
  PROVE  ParseInv'
<1>1. MaxArtefacts \in Nat
  BY DEF PS!Sensible
<1>2. \A most \in 0..MaxArtefacts : PS!UpTo[most] \subseteq 0..most /\ PS!AllOrNone[most] \subseteq 0..most
  BY <1>1 DEF PS!UpTo, PS!AllOrNone
<1> QED
  BY <1>2, ReadsClean DEF PS!ReadHive, PS!ReadDatabase, PS!ReadLog

LEMMA ClosesClean ==
  ASSUME PS!Sensible, ParseInv, NEW t \in PS!Threads, PS!Close(t)
  PROVE  ParseInv'
<1> DEFINE th == thread[t]
           c == [th EXCEPT !.pc = IF th.pc = "close" THEN "returned" ELSE "raised", !.handle = "closed",
                           !.files = PS!Left(th), !.dir = PS!Left(th) # {}]
<1>1. th.pc \in {"close", "close_raise"} /\ PS!Kept /\ PS!Set(t, c) /\ PS!Left(th) = {}
  BY DEF PS!Close, PS!Left
<1>2. th \in ThreadType /\ Clean(th, t)
  BY ThreadParts DEF ParseInv
<1>3. c \in ThreadType /\ c.pc \in {"returned", "raised"} /\ c.given = th.given /\ Clean(c, t)
  <2>1. c = [th EXCEPT !.pc = IF th.pc = "close" THEN "returned" ELSE "raised", !.handle = "closed", !.files = {}, !.dir = FALSE]
    BY <1>1
  <2> HIDE DEF c
  <2> QED
    BY <1>1, <1>2, <2>1 DEF ThreadType, ThreadPcs, Clean
<1> HIDE DEF c
<1> QED
  BY <1>1, <1>3, ThreadStays

LEMMA PluginsClean ==
  ASSUME PS!Sensible, ParseInv, NEW t \in PS!Threads, PS!PluginTimesOut(t) \/ PS!PluginEnds(t)
  PROVE  ParseInv'
<1> DEFINE th == thread[t]
           l == [th EXCEPT !.late = TRUE]
<1>1. th.pc = "plugin" /\ PS!Kept /\ (PS!Set(t, l) \/ \E outcome \in PS!PluginOutcomes : PS!Set(t, PS!AfterPlugin(th, outcome)))
  BY DEF PS!PluginTimesOut, PS!PluginEnds
<1>2. th \in ThreadType /\ Clean(th, t) /\ MaxArtefacts \in Nat
  BY ThreadParts DEF ParseInv, PS!Sensible
<1>3. l \in ThreadType /\ l.pc = "plugin" /\ l.given = th.given /\ Clean(l, t)
  BY <1>1, <1>2 DEF ThreadType, ThreadPcs, Clean
<1>4. ASSUME NEW outcome \in PS!PluginOutcomes
      PROVE  LET c == PS!AfterPlugin(th, outcome) IN
             c \in ThreadType /\ c.pc \in {"plugin", "returned", "raised"} /\ c.given = th.given /\ Clean(c, t)
  <2> DEFINE ok == outcome.ok /\ ~th.late
             got == IF th.plugin = 1 /\ ok THEN PS!Least(outcome.rows, MaxArtefacts) ELSE th.got
             next == [th EXCEPT !.late = FALSE, !.plugin = @ + 1, !.got = got]
             r == [th EXCEPT !.pc = "raised"]
             e == [next EXCEPT !.pc = "returned"]
  <2>1. outcome.rows \in Nat
    BY <1>2 DEF PS!PluginOutcomes
  <2>2. got \in 0..MaxArtefacts
    <3>1. th.got \in 0..MaxArtefacts
      BY <1>2 DEF ThreadType
    <3>2. PS!Least(outcome.rows, MaxArtefacts) \in 0..MaxArtefacts
      BY <1>2, <2>1 DEF PS!Least
    <3> QED
      BY <3>1, <3>2
  <2>3. PS!AfterPlugin(th, outcome) \in {r, e, next}
    BY DEF PS!AfterPlugin
  <2> HIDE DEF ok, got
  <2>4. next \in ThreadType /\ next.pc = "plugin" /\ next.given = th.given /\ Clean(next, t)
    <3>1. th.plugin + 1 \in Nat /\ th.files = {} /\ ~th.dir /\ th.handle = "none"
      BY <1>1, <1>2 DEF ThreadType, Clean
    <3>2. next = [th EXCEPT !.late = FALSE, !.plugin = th.plugin + 1, !.got = got]
      BY DEF ThreadType
    <3> HIDE DEF next
    <3>3. next \in ThreadType
      BY <1>2, <2>2, <3>1, <3>2 DEF ThreadType
    <3>4. next.pc = "plugin" /\ next.given = th.given /\ next.files = {} /\ ~next.dir /\ next.handle = "none"
      BY <1>1, <1>2, <3>1, <3>2 DEF ThreadType
    <3> QED
      BY <3>3, <3>4 DEF Clean
  <2>5. r \in ThreadType /\ r.pc = "raised" /\ r.given = th.given /\ Clean(r, t)
    BY <1>1, <1>2 DEF ThreadType, ThreadPcs, Clean
  <2>6. next.files = {} /\ ~next.dir /\ next.handle = "none"
    BY <1>1, <1>2 DEF ThreadType, Clean
  <2> HIDE DEF next
  <2>7. e \in ThreadType /\ e.pc = "returned" /\ e.given = th.given /\ Clean(e, t)
    BY <2>4, <2>6 DEF ThreadType, ThreadPcs, Clean
  <2> HIDE DEF r, e
  <2> QED
    BY <2>3, <2>4, <2>5, <2>7
<1> HIDE DEF l
<1>5. CASE PS!Set(t, l)
  BY <1>1, <1>3, <1>5, ThreadStays
<1>6. CASE \E outcome \in PS!PluginOutcomes : PS!Set(t, PS!AfterPlugin(th, outcome))
  <2> PICK outcome \in PS!PluginOutcomes : PS!Set(t, PS!AfterPlugin(th, outcome))
    BY <1>6
  <2> DEFINE c == PS!AfterPlugin(th, outcome)
  <2>1. PS!Set(t, c) /\ c \in ThreadType /\ c.pc \in {"plugin", "returned", "raised"} /\ c.given = th.given /\ Clean(c, t)
    BY <1>4
  <2> HIDE DEF c
  <2> QED
    BY <1>1, <2>1, ThreadStays
<1> QED
  BY <1>1, <1>5, <1>6

(* The stages                                                                *)

LEMMA OthersKept ==
  ASSUME PS!Sensible, ParseInv, NEW j \in Parsed, plan' = plan, \A k \in Parsed : k # j => stage'[k] = stage[k] /\ progress'[k] = progress[k],
         \A u \in PS!Threads : u[1] # j => thread'[u] = thread[u]
  PROVE  \A k \in Parsed : k # j => StageInv(k)'
<1> SUFFICES ASSUME NEW k \in Parsed, k # j PROVE StageInv(k)'
  OBVIOUS
<1>1. \A n \in 1..MaxParsers : <<k, n>> \in PS!Threads /\ <<k, n>>[1] = k
  BY DEF PS!Threads
<1>2. \A n \in 1..MaxParsers : Goes(thread[<<k, n>>], thread'[<<k, n>>])
  BY <1>1 DEF Goes
<1> QED
  BY <1>2, StageKept DEF ParseInv

\* A parser is started in a thread nobody asked for.
LEMMA StartsInvariant ==
  ASSUME PS!Sensible, ParseInv, NEW j \in Parsed, PS!StartParser(j)
  PROVE  ParseInv'
<1> DEFINE t == PS!Current(j)
           r == Len(stage[j].results)
           c == [thread[t] EXCEPT !.pc = "queued"]
<1>1. /\ t = <<j, r + 1>> /\ t[1] = j /\ t[2] = r + 1 /\ stage[j].pc = "ready" /\ r + 1 <= Len(plan[j])
      /\ stage' = [stage EXCEPT ![j].pc = "waiting"] /\ queue' = Append(queue, t) /\ thread' = [thread EXCEPT ![t] = c]
      /\ progress' = [progress EXCEPT ![j].current = r + 1] /\ plan' = plan /\ image' = image
  BY DEF PS!StartParser, PS!Current, PS!Set
<1>2. /\ Len(plan[j]) \in Nat /\ Len(plan[j]) <= MaxParsers /\ MaxParsers \in Nat /\ r \in Nat
      /\ Recordings(j) = 1..r /\ stage[j] \in StageType /\ progress[j] \in ProgressType
  BY PlansFit DEF ParseInv, Recordings
<1>3. StageInv(j) /\ ParseTypes /\ QueueInv
  BY DEF ParseInv
<1> HIDE DEF t, r
<1>4. r + 1 \in 1..MaxParsers /\ r + 1 \notin 1..r /\ t \in PS!Threads
  BY <1>1, <1>2 DEF PS!Threads
<1>5. thread[t].pc = "none" /\ ~thread[t].given /\ thread[t] \in ThreadType /\ Clean(thread[t], t)
  <2>1. ResultInv(j, r + 1)
    BY <1>3, <1>4 DEF StageInv
  <2>2. r + 1 \notin Recordings(j)
    BY <1>2, <1>4
  <2>3. thread[t].pc = "none" /\ ~thread[t].given
    BY <1>1, <2>1, <2>2 DEF ResultInv, r
  <2> QED
    BY <1>4, <2>3, ThreadParts DEF ParseInv
<1>6. c \in ThreadType /\ c.pc = "queued" /\ c.given = thread[t].given /\ Clean(c, t) /\ c.got = thread[t].got
  BY <1>5 DEF ThreadType, ThreadPcs, Clean
<1> HIDE DEF c
<1>7. \A u \in PS!Threads : thread'[u] = IF u = t THEN c ELSE thread[u]
  BY <1>1, <1>3, <1>4 DEF ParseTypes
<1>8. stage'[j] = [stage[j] EXCEPT !.pc = "waiting"] /\ progress'[j] = [progress[j] EXCEPT !.current = r + 1]
      /\ \A k \in Parsed : k # j => stage'[k] = stage[k] /\ progress'[k] = progress[k]
  BY <1>1, <1>3 DEF ParseTypes
<1>9. stage'[j] \in StageType /\ stage'[j].pc = "waiting" /\ stage'[j].results = stage[j].results
      /\ progress'[j] \in ProgressType /\ progress'[j].current = r + 1 /\ progress'[j].done = progress[j].done
      /\ progress'[j].count = progress[j].count /\ progress'[j].found = progress[j].found
  <2>1. stage'[j] \in StageType /\ stage'[j].pc = "waiting" /\ stage'[j].results = stage[j].results
    BY <1>2, <1>8 DEF StageType
  <2>2. r + 1 \in Nat
    BY <1>2
  <2> QED
    BY <1>2, <1>8, <2>1, <2>2 DEF ProgressType
<1>10. ParseTypes'
  <2>1. stage' \in [Parsed -> StageType] /\ progress' \in [Parsed -> ProgressType]
    BY <1>1, <1>3, <1>8, <1>9 DEF ParseTypes
  <2>2. thread' \in [PS!Threads -> ThreadType] /\ queue' \in Seq(PS!Threads)
    BY <1>1, <1>3, <1>4, <1>6 DEF ParseTypes
  <2> QED
    BY <1>1, <1>3, <2>1, <2>2 DEF ParseTypes, StageType, ProgressType, ThreadType, PS!Threads
<1>11. QueueInv'
  <2>1. queue \in Seq(PS!Threads) /\ Len(queue) \in Nat /\ DOMAIN queue = 1..Len(queue) /\ DOMAIN queue' = 1..(Len(queue) + 1)
        /\ (\A n \in 1..Len(queue) : queue'[n] = queue[n] /\ queue[n] \in PS!Threads) /\ queue'[Len(queue) + 1] = t
    BY <1>1, <1>3, <1>4 DEF ParseTypes
  <2>2. \A n \in 1..Len(queue) : thread[queue[n]].pc = "queued" /\ queue[n] # t
    BY <1>3, <1>5, <2>1 DEF QueueInv
  <2>3. \A n \in 1..(Len(queue) + 1) : n = Len(queue) + 1 \/ n \in 1..Len(queue)
    BY <2>1
  <2>4. \A n \in DOMAIN queue' : thread'[queue'[n]].pc = "queued"
    BY <1>4, <1>6, <1>7, <2>1, <2>2, <2>3
  <2>5. \A m, n \in DOMAIN queue' : queue'[m] = queue'[n] => m = n
    <3> SUFFICES ASSUME NEW m \in DOMAIN queue', NEW n \in DOMAIN queue', queue'[m] = queue'[n] PROVE m = n
      OBVIOUS
    <3>1. CASE m = Len(queue) + 1 /\ n = Len(queue) + 1
      BY <3>1
    <3>2. CASE m \in 1..Len(queue) /\ n \in 1..Len(queue)
      BY <1>3, <2>1, <3>2 DEF QueueInv
    <3>3. m = Len(queue) + 1 => n = Len(queue) + 1
      BY <2>1, <2>2, <2>3
    <3>4. n = Len(queue) + 1 => m = Len(queue) + 1
      BY <2>1, <2>2, <2>3
    <3> QED
      BY <2>1, <2>3, <3>1, <3>2, <3>3, <3>4
  <2> QED
    BY <2>4, <2>5 DEF QueueInv
<1>12. \A u \in PS!Threads : Clean(thread[u], u)'
  <2> SUFFICES ASSUME NEW u \in PS!Threads PROVE Clean(thread[u], u)'
    OBVIOUS
  <2>1. PS!Parser(u)' = PS!Parser(u) /\ Clean(thread[u], u)
    BY <1>1 DEF PS!Parser, ParseInv
  <2>2. Clean(thread'[u], u)
    BY <1>6, <1>7, <2>1
  <2> QED
    BY <2>1, <2>2 DEF Clean
<1>13. StageInv(j)'
  <2>1. Recordings(j)' = Recordings(j) /\ Done(j)' = Done(j) /\ ~PS!Ended(j)'
    BY <1>9 DEF Recordings, Done, PS!Ended
  <2>2. \A n \in Done(j) : n \in 1..r /\ n \in 1..MaxParsers /\ <<j, n>> # t /\ <<j, n>> \in PS!Threads
    <3>1. \A n \in 1..r : n \in 1..MaxParsers /\ n # r + 1
      BY <1>1, <1>2
    <3> QED
      BY <1>1, <1>2, <3>1 DEF Done, PS!Threads
  <2>3. Found(j)' = Found(j)
    <3>1. \A n \in Done(j) : PS!Artefacts(<<j, n>>)' = PS!Artefacts(<<j, n>>)
      BY <1>7, <2>2 DEF PS!Artefacts
    <3> QED
      BY <2>1, <3>1 DEF Found
  <2>4. ASSUME NEW n \in 1..MaxParsers PROVE ResultInv(j, n)'
    <3>1. ResultInv(j, n) /\ <<j, n>> \in PS!Threads /\ (<<j, n>> = t <=> n = r + 1)
      BY <1>1, <1>3 DEF StageInv, PS!Threads
    <3>2. CASE n = r + 1
      <4>1. thread'[<<j, n>>] = c /\ n \notin Recordings(j)'
        BY <1>2, <1>4, <1>7, <2>1, <3>1, <3>2
      <4>2. c.pc # "none" /\ ~c.given
        BY <1>5, <1>6
      <4>3. stage'[j].pc = "waiting" /\ n = Len(stage'[j].results) + 1
        BY <1>9, <3>2 DEF r
      <4> QED
        BY <4>1, <4>2, <4>3 DEF ResultInv
    <3>3. CASE n # r + 1
      <4>1. thread'[<<j, n>>] = thread[<<j, n>>]
        BY <1>7, <3>1, <3>3
      <4>2. n # Len(stage[j].results) + 1
        BY <3>3 DEF r
      <4> QED
        BY <1>1, <1>9, <2>1, <3>1, <4>1, <4>2 DEF ResultInv
    <3> QED
      BY <3>2, <3>3
  <2>5. r < Len(plan[j]) /\ r <= Len(plan[j]) /\ r + 1 \in 0..Len(plan[j])
    BY <1>1, <1>2
  <2>6. Len(stage'[j].results) = r /\ plan'[j] = plan[j]
    BY <1>1, <1>9 DEF r
  <2>7. progress[j].count = Len(plan[j]) /\ progress[j].done = r /\ IsFiniteSet(Found(j)) /\ progress[j].found = Cardinality(Found(j))
    BY <1>3 DEF StageInv, r
  <2> QED
    BY <1>9, <2>1, <2>3, <2>4, <2>5, <2>6, <2>7 DEF StageInv
<1>14. \A k \in Parsed : k # j => StageInv(k)'
  <2>1. \A u \in PS!Threads : u[1] # j => thread'[u] = thread[u]
    BY <1>1, <1>7
  <2> QED
    BY <1>1, <1>8, <2>1, OthersKept
<1> QED
  BY <1>10, <1>11, <1>12, <1>13, <1>14 DEF ParseInv

LEMMA ArtefactsCount ==
  ASSUME NEW t, NEW N \in Nat
  PROVE  LET A == {<<t, n>> : n \in 1..N} IN IsFiniteSet(A) /\ Cardinality(A) = N
<1> DEFINE A == {<<t, n>> : n \in 1..N}
           g == [n \in 1..N |-> <<t, n>>]
<1>1. g \in Surjection(1..N, A)
  BY DEF Surjection
<1>2. g \in Injection(1..N, A)
  BY DEF Injection, IsInjective
<1>3. IsFiniteSet(1..N) /\ Cardinality(1..N) = N
  BY FS_Interval
<1> HIDE DEF g, A
<1>4. IsFiniteSet(A) /\ Cardinality(A) = N
  BY <1>1, <1>2, <1>3, FS_Surjection
<1> QED
  BY <1>4 DEF A

\* A result is recorded that tells how the thread is.
Tells(result, found, d) ==
  \/ result = "completed" /\ d.pc = "returned" /\ ~d.given /\ found = d.got
  \/ result = "failed" /\ (d.given \/ d.pc = "raised") /\ found = 0

LEMMA RecordsInvariant ==
  ASSUME PS!Sensible, ParseInv, NEW j \in Parsed, stage[j].pc = "waiting", NEW result, NEW found, PS!Recorded(j, result, found),
         NEW d \in ThreadType, Tells(result, found, d), Clean(d, PS!Current(j)),
         thread' = [thread EXCEPT ![PS!Current(j)] = d], queue' \in Seq(PS!Threads), QueueInv'
  PROVE  ParseInv'
<1> DEFINE t == PS!Current(j)
           r == Len(stage[j].results)
<1>1. /\ t = <<j, r + 1>> /\ t[1] = j
      /\ stage' = [stage EXCEPT ![j].pc = "ready", ![j].results = Append(@, result)]
      /\ progress' = [progress EXCEPT ![j].done = @ + 1, ![j].found = @ + found, ![j].current = 0]
      /\ plan' = plan /\ image' = image /\ thread' = [thread EXCEPT ![t] = d]
  BY DEF PS!Recorded, PS!Current
<1>2. /\ Len(plan[j]) \in Nat /\ Len(plan[j]) <= MaxParsers /\ MaxParsers \in Nat /\ r \in Nat /\ MaxArtefacts \in Nat
      /\ Recordings(j) = 1..r /\ stage[j] \in StageType /\ progress[j] \in ProgressType
      /\ stage[j].results \in Seq({"completed", "failed"})
  BY PlansFit DEF ParseInv, Recordings, StageType
<1>3. StageInv(j) /\ ParseTypes /\ r < Len(plan[j])
  BY DEF ParseInv, StageInv
<1>4. r + 1 \in 1..MaxParsers /\ r + 1 \notin 1..r /\ t \in PS!Threads
  BY <1>1, <1>2, <1>3 DEF PS!Threads
<1>5. result \in {"completed", "failed"} /\ found \in Nat
  BY <1>2 DEF Tells, ThreadType
<1>6. \A u \in PS!Threads : thread'[u] = IF u = t THEN d ELSE thread[u]
  BY <1>1, <1>3, <1>4 DEF ParseTypes
<1>7. /\ stage'[j] = [stage[j] EXCEPT !.pc = "ready", !.results = Append(stage[j].results, result)]
      /\ progress'[j] = [progress[j] EXCEPT !.done = progress[j].done + 1, !.found = progress[j].found + found, !.current = 0]
      /\ \A k \in Parsed : k # j => stage'[k] = stage[k] /\ progress'[k] = progress[k]
  BY <1>1, <1>3 DEF ParseTypes
<1> DEFINE rs == Append(stage[j].results, result)
<1>8. rs \in Seq({"completed", "failed"}) /\ Len(rs) = r + 1 /\ rs[r + 1] = result /\ \A n \in 1..r : rs[n] = stage[j].results[n]
  BY <1>2, <1>5
<1> HIDE DEF t, rs, r
<1>9. stage'[j] \in StageType /\ stage'[j].pc = "ready" /\ stage'[j].results = rs
  BY <1>2, <1>7, <1>8 DEF StageType, rs
<1>10. progress'[j] \in ProgressType /\ progress'[j].current = 0 /\ progress'[j].done = progress[j].done + 1
       /\ progress'[j].count = progress[j].count /\ progress'[j].found = progress[j].found + found
  <2>1. progress[j].done + 1 \in Nat /\ progress[j].found + found \in Nat
    BY <1>2, <1>5 DEF ProgressType
  <2> DEFINE a == progress[j].done + 1
             b == progress[j].found + found
  <2>2. a \in Nat /\ b \in Nat /\ progress'[j] = [progress[j] EXCEPT !.done = a, !.found = b, !.current = 0]
    BY <1>7, <2>1
  <2> HIDE DEF a, b
  <2>3. progress'[j] \in ProgressType /\ progress'[j].current = 0 /\ progress'[j].done = a
        /\ progress'[j].count = progress[j].count /\ progress'[j].found = b
    <3> DEFINE p == progress[j]
    <3>2. p \in [current : Nat, done : Nat, count : Nat, found : Nat]
      BY <1>2 DEF ProgressType
    <3> HIDE DEF p
    <3>3. [p EXCEPT !.done = a, !.found = b, !.current = 0] \in [current : Nat, done : Nat, count : Nat, found : Nat]
      BY <2>2, <3>2
    <3>1. progress'[j] \in ProgressType
      BY <2>2, <3>3 DEF ProgressType, p
    <3> USE DEF p
    <3> QED
      BY <2>2, <3>1, <3>2
  <2> QED
    BY <2>3 DEF a, b
<1>11. ParseTypes'
  <2>1. stage' \in [Parsed -> StageType] /\ progress' \in [Parsed -> ProgressType]
    BY <1>1, <1>3, <1>7, <1>9, <1>10 DEF ParseTypes
  <2>2. thread' \in [PS!Threads -> ThreadType]
    BY <1>1, <1>3, <1>4 DEF ParseTypes
  <2> QED
    BY <1>1, <1>3, <2>1, <2>2 DEF ParseTypes, StageType, ProgressType, ThreadType, PS!Threads
<1>12. \A u \in PS!Threads : Clean(thread[u], u)'
  <2> SUFFICES ASSUME NEW u \in PS!Threads PROVE Clean(thread[u], u)'
    OBVIOUS
  <2>1. PS!Parser(u)' = PS!Parser(u) /\ Clean(thread[u], u)
    BY <1>1 DEF PS!Parser, ParseInv
  <2>2. Clean(thread'[u], u)
    BY <1>6, <2>1 DEF t
  <2> QED
    BY <2>1, <2>2 DEF Clean
<1>13. Recordings(j)' = 1..(r + 1) /\ ~PS!Ended(j)' /\ Len(stage'[j].results) = r + 1
  BY <1>8, <1>9 DEF Recordings, PS!Ended
<1>14. Done(j)' = Done(j) \cup (IF result = "completed" THEN {r + 1} ELSE {}) /\ Done(j) \subseteq 1..r
  <2>1. Done(j)' = {n \in 1..(r + 1) : rs[n] = "completed"}
    BY <1>9, <1>13 DEF Done
  <2>2. Done(j) = {n \in 1..r : rs[n] = "completed"}
    BY <1>2, <1>8 DEF Done
  <2>3. 1..(r + 1) = (1..r) \cup {r + 1}
    BY <1>2
  <2> QED
    BY <1>8, <2>1, <2>2, <2>3
<1>15. \A n \in 1..r : n # r + 1 /\ n \in 1..MaxParsers /\ <<j, n>> \in PS!Threads /\ <<j, n>> # t /\ thread'[<<j, n>>] = thread[<<j, n>>]
  <2>1. \A n \in 1..r : n # r + 1 /\ n \in 1..MaxParsers
    BY <1>2, <1>3
  <2> QED
    BY <1>1, <1>6, <2>1 DEF PS!Threads
<1>16. Found(j)' = Found(j) \cup (IF result = "completed" THEN {<<t, n>> : n \in 1..d.got} ELSE {})
  <2> DEFINE Of(n) == {<<<<j, n>>, k>> : k \in 1..thread'[<<j, n>>].got}
             Was(n) == PS!Artefacts(<<j, n>>)
  <2>3. Found(j)' = UNION {Of(n) : n \in Done(j)'}
    BY DEF Found, PS!Artefacts
  <2>4. Found(j) = UNION {Was(n) : n \in Done(j)}
    BY DEF Found
  <2>5. \A n \in Done(j) : Of(n) = Was(n)
    BY <1>14, <1>15 DEF PS!Artefacts
  <2>6. Of(r + 1) = {<<t, n>> : n \in 1..d.got}
    <3> DEFINE u == <<j, r + 1>>
    <3>1. u = t /\ thread'[u] = d
      BY <1>1, <1>4, <1>6
    <3>2. Of(r + 1) = {<<u, n>> : n \in 1..thread'[u].got}
      OBVIOUS
    <3> HIDE DEF u, Of
    <3> QED
      BY <3>1, <3>2
  <2> HIDE DEF Of, Was
  <2>7. CASE result = "completed"
    <3>1. Done(j)' = Done(j) \cup {r + 1}
      BY <1>14, <2>7
    <3>2. \A a : a \in Found(j)' <=> \E n \in Done(j)' : a \in Of(n)
      BY <2>3
    <3>3. \A a : a \in Found(j) <=> \E n \in Done(j) : a \in Of(n)
      BY <2>4, <2>5
    <3>4. \A a : a \in Found(j)' <=> a \in Found(j) \/ a \in Of(r + 1)
      BY <3>1, <3>2, <3>3
    <3>5. Found(j)' = Found(j) \cup Of(r + 1)
      BY <3>4
    <3> QED
      BY <2>6, <2>7, <3>5
  <2>8. CASE result # "completed"
    <3>1. Done(j)' = Done(j)
      BY <1>14, <2>8
    <3>2. UNION {Of(n) : n \in Done(j)} = UNION {Was(n) : n \in Done(j)}
      BY <2>5
    <3> QED
      BY <2>3, <2>4, <2>8, <3>1, <3>2
  <2> QED
    BY <2>7, <2>8
<1>17. IsFiniteSet(Found(j)') /\ progress'[j].found = Cardinality(Found(j)')
  <2>1. IsFiniteSet(Found(j)) /\ progress[j].found = Cardinality(Found(j)) /\ progress[j].found \in Nat
    BY <1>2, <1>3 DEF StageInv, ProgressType
  <2>2. CASE result = "completed"
    <3> DEFINE A == {<<t, n>> : n \in 1..d.got}
    <3>1. d.got \in Nat /\ found = d.got
      BY <1>2, <2>2 DEF Tells, ThreadType
    <3>2. IsFiniteSet(A) /\ Cardinality(A) = d.got
      BY <3>1, ArtefactsCount
    <3>3. \A a \in Found(j) : a[1] # t
      <4> SUFFICES ASSUME NEW a \in Found(j) PROVE a[1] # t
        OBVIOUS
      <4>1. PICK n \in Done(j) : a \in PS!Artefacts(<<j, n>>)
        BY DEF Found
      <4>2. a[1] = <<j, n>>
        BY <4>1 DEF PS!Artefacts
      <4> QED
        BY <1>14, <1>15, <4>2
    <3>4. Found(j) \cap A = {}
      BY <3>3
    <3> HIDE DEF A
    <3>5. IsFiniteSet(Found(j) \cup A) /\ Cardinality(Found(j) \cup A) = Cardinality(Found(j)) + Cardinality(A) - Cardinality(Found(j) \cap A)
      BY <2>1, <3>2, FS_Union
    <3>6. Cardinality(Found(j) \cap A) = 0
      BY <3>4, FS_EmptySet
    <3>7. Found(j)' = Found(j) \cup A
      BY <1>16, <2>2 DEF A
    <3> QED
      BY <1>10, <2>1, <3>1, <3>2, <3>5, <3>6, <3>7
  <2>3. CASE result # "completed"
    <3>1. found = 0
      BY <2>3 DEF Tells
    <3>2. Found(j)' = Found(j)
      BY <1>16, <2>3
    <3> QED
      BY <1>10, <2>1, <3>1, <3>2
  <2> QED
    BY <2>2, <2>3
<1>18. ASSUME NEW n \in 1..MaxParsers PROVE ResultInv(j, n)'
  <2>1. ResultInv(j, n) /\ <<j, n>> \in PS!Threads
    BY <1>3 DEF StageInv, PS!Threads
  <2>2. (n \in Recordings(j)' <=> n \in 1..(r + 1)) /\ stage'[j].pc # "waiting"
    BY <1>9, <1>13
  <2>3. CASE n \in 1..r
    <3>1. n \in 1..(r + 1) /\ rs[n] = stage[j].results[n] /\ thread'[<<j, n>>] = thread[<<j, n>>]
      BY <1>2, <1>8, <1>15, <2>3
    <3> QED
      BY <1>2, <1>9, <2>1, <2>2, <2>3, <3>1 DEF ResultInv
  <2>4. CASE n = r + 1
    <3>1. n \in 1..(r + 1) /\ stage'[j].results[n] = result /\ thread'[<<j, n>>] = d
      BY <1>1, <1>2, <1>4, <1>6, <1>8, <1>9, <2>4
    <3> QED
      BY <2>2, <3>1 DEF ResultInv, Tells
  <2>5. CASE n \notin 1..r /\ n # r + 1
    <3>1. n \notin 1..(r + 1) /\ <<j, n>> # t
      BY <1>1, <1>2, <2>5
    <3>2. thread'[<<j, n>>] = thread[<<j, n>>] /\ thread[<<j, n>>].pc = "none" /\ ~thread[<<j, n>>].given
      BY <1>2, <1>6, <2>1, <2>5, <3>1 DEF ResultInv, r
    <3> QED
      BY <2>2, <3>1, <3>2 DEF ResultInv
  <2> QED
    BY <2>3, <2>4, <2>5
<1>19. StageInv(j)'
  <2>1. r + 1 <= Len(plan[j]) /\ 0 \in 0..Len(plan[j]) /\ plan' = plan
    BY <1>1, <1>2, <1>3
  <2>2. progress[j].count = Len(plan[j]) /\ progress[j].done = r
    BY <1>3 DEF StageInv, r
  <2> QED
    BY <1>9, <1>10, <1>13, <1>17, <1>18, <2>1, <2>2 DEF StageInv
<1>20. \A k \in Parsed : k # j => StageInv(k)'
  <2>1. \A u \in PS!Threads : u[1] # j => thread'[u] = thread[u]
    BY <1>1, <1>6
  <2> QED
    BY <1>1, <1>7, <2>1, OthersKept
<1> QED
  BY <1>11, <1>12, <1>19, <1>20 DEF ParseInv

LEMMA ReturnsInvariant ==
  ASSUME PS!Sensible, ParseInv, NEW j \in Parsed, PS!ParserReturns(j)
  PROVE  ParseInv'
<1> DEFINE t == PS!Current(j)
           th == thread[t]
<1>1. /\ stage[j].pc = "waiting" /\ thread' = thread /\ queue' = queue
      /\ \/ th.pc = "returned" /\ PS!Recorded(j, "completed", th.got)
         \/ th.pc = "raised" /\ PS!Recorded(j, "failed", 0)
  BY DEF PS!ParserReturns
<1>2. /\ MaxParsers \in Nat /\ Len(plan[j]) \in Nat /\ Len(plan[j]) <= MaxParsers /\ Len(stage[j].results) \in Nat
      /\ StageInv(j) /\ Recordings(j) = 1..Len(stage[j].results)
  BY PlansFit DEF ParseInv, Recordings
<1>3. Len(stage[j].results) + 1 \in 1..MaxParsers /\ Len(stage[j].results) + 1 \notin Recordings(j)
  BY <1>1, <1>2 DEF StageInv
<1>4. t \in PS!Threads /\ th \in ThreadType /\ Clean(th, t) /\ ~th.given
  <2>1. t \in PS!Threads
    BY <1>3 DEF PS!Current, PS!Threads
  <2>2. ResultInv(j, Len(stage[j].results) + 1)
    BY <1>2, <1>3 DEF StageInv
  <2>3. ~th.given
    BY <1>3, <2>2 DEF ResultInv, PS!Current
  <2> QED
    BY <2>1, <2>3, ThreadParts DEF ParseInv
<1>5. thread' = [thread EXCEPT ![t] = th] /\ queue' \in Seq(PS!Threads) /\ QueueInv'
  BY <1>1 DEF ParseInv, ParseTypes, QueueInv
<1> HIDE DEF th
<1>6. CASE th.pc = "returned" /\ PS!Recorded(j, "completed", th.got)
  <2>1. Tells("completed", th.got, th)
    BY <1>4, <1>6 DEF Tells
  <2> QED
    BY <1>1, <1>4, <1>5, <1>6, <2>1, RecordsInvariant
<1>7. CASE th.pc = "raised" /\ PS!Recorded(j, "failed", 0)
  <2>1. Tells("failed", 0, th)
    BY <1>7 DEF Tells
  <2> QED
    BY <1>1, <1>4, <1>5, <1>7, <2>1, RecordsInvariant
<1> QED
  BY <1>1, <1>6, <1>7

\* A cancelled call leaves the queue, in which it was once.
LEMMA WithoutIt ==
  ASSUME NEW X, NEW q \in Seq(X), \A m, n \in DOMAIN q : q[m] = q[n] => m = n, NEW t
  PROVE  LET w == PS!Without(q, t) IN
         /\ w \in Seq(X)
         /\ \A n \in DOMAIN w : w[n] # t /\ \E k \in DOMAIN q : w[n] = q[k]
         /\ \A m, n \in DOMAIN w : w[m] = w[n] => m = n
<1> DEFINE w == PS!Without(q, t)
<1>0. Len(q) \in Nat /\ DOMAIN q = 1..Len(q) /\ PS!Range(q) = {q[n] : n \in 1..Len(q)} /\ \A n \in 1..Len(q) : q[n] \in X
  BY DEF PS!Range
<1>1. CASE t \notin PS!Range(q)
  <2>1. w = q
    BY <1>1 DEF PS!Without
  <2> HIDE DEF w
  <2> QED
    BY <1>0, <1>1, <2>1 DEF w
<1>2. CASE t \in PS!Range(q)
  <2> DEFINE at == CHOOSE n \in DOMAIN q : q[n] = t
             L == Len(q) - 1
             From(n) == IF n < at THEN n ELSE n + 1
  <2>1. at \in 1..Len(q) /\ q[at] = t
    BY <1>0, <1>2
  <2>2. w = [n \in 1..L |-> IF n < at THEN q[n] ELSE q[n + 1]]
    BY <1>2 DEF PS!Without
  <2> HIDE DEF at, w
  <2>3. L \in Nat /\ \A n \in 1..L : From(n) \in 1..Len(q) /\ From(n) # at
    BY <1>0, <2>1
  <2>4. \A m, n \in 1..L : From(m) = From(n) => m = n
    BY <1>0, <2>1
  <2>5. \A n \in 1..L : w[n] = q[From(n)]
    BY <2>2
  <2>6. DOMAIN w = 1..L
    BY <2>2
  <2> HIDE DEF From
  <2>7. \A n \in 1..L : w[n] \in X /\ w[n] # t
    BY <1>0, <2>1, <2>3, <2>5
  <2>8. w \in Seq(X)
    <3>1. w \in [1..L -> X]
      BY <2>2, <2>7
    <3> QED
      BY <2>3, <3>1
  <2>9. \A m, n \in 1..L : w[m] = w[n] => m = n
    BY <1>0, <2>3, <2>4, <2>5
  <2>10. \A n \in 1..L : \E k \in DOMAIN q : w[n] = q[k]
    BY <1>0, <2>3, <2>5
  <2> HIDE DEF L
  <2> QED
    BY <2>6, <2>7, <2>8, <2>9, <2>10 DEF w
<1> QED
  BY <1>1, <1>2

LEMMA TimesOutInvariant ==
  ASSUME PS!Sensible, ParseInv, NEW j \in Parsed, PS!ParserTimesOut(j)
  PROVE  ParseInv'
<1> DEFINE t == PS!Current(j)
           th == thread[t]
           d == [th EXCEPT !.given = TRUE, !.pc = IF @ = "queued" THEN "none" ELSE @]
<1>1. /\ stage[j].pc = "waiting" /\ th.pc \notin {"returned", "raised"} /\ PS!Recorded(j, "failed", 0)
      /\ queue' = PS!Without(queue, t) /\ thread' = [thread EXCEPT ![t] = d]
  BY DEF PS!ParserTimesOut, PS!Set
<1>2. /\ MaxParsers \in Nat /\ Len(plan[j]) \in Nat /\ Len(plan[j]) <= MaxParsers /\ Len(stage[j].results) \in Nat /\ StageInv(j)
  BY PlansFit DEF ParseInv
<1>3. Len(stage[j].results) + 1 \in 1..MaxParsers
  BY <1>1, <1>2 DEF StageInv
<1>4. t \in PS!Threads /\ th \in ThreadType /\ Clean(th, t)
  <2>1. t \in PS!Threads
    BY <1>3 DEF PS!Current, PS!Threads
  <2> QED
    BY <2>1, ThreadParts DEF ParseInv
<1>5. d \in ThreadType /\ Clean(d, t) /\ d.given
  BY <1>1, <1>4 DEF ThreadType, ThreadPcs, Clean
<1>6. Tells("failed", 0, d)
  BY <1>5 DEF Tells
<1> HIDE DEF d
<1>7. queue' \in Seq(PS!Threads) /\ QueueInv'
  <2>1. /\ queue \in Seq(PS!Threads) /\ \A m, n \in DOMAIN queue : queue[m] = queue[n] => m = n
        /\ \A n \in DOMAIN queue : thread[queue[n]].pc = "queued" /\ queue[n] \in PS!Threads
    BY DEF ParseInv, ParseTypes, QueueInv
  <2>2. /\ queue' \in Seq(PS!Threads)
        /\ \A n \in DOMAIN queue' : queue'[n] # t /\ \E k \in DOMAIN queue : queue'[n] = queue[k]
        /\ \A m, n \in DOMAIN queue' : queue'[m] = queue'[n] => m = n
    <3> HIDE DEF t
    <3> QED
      BY <1>1, <2>1, WithoutIt
  <2>3. \A u \in PS!Threads : u # t => thread'[u] = thread[u]
    BY <1>1 DEF ParseInv, ParseTypes
  <2>4. \A n \in DOMAIN queue' : thread'[queue'[n]].pc = "queued"
    BY <2>1, <2>2, <2>3
  <2> QED
    BY <2>2, <2>4 DEF QueueInv
<1> QED
  BY <1>1, <1>4, <1>5, <1>6, <1>7, RecordsInvariant

LEMMA EndsInvariant ==
  ASSUME PS!Sensible, ParseInv, NEW j \in Parsed, PS!EndStage(j)
  PROVE  ParseInv'
<1> DEFINE end == IF PS!Successful(j) = {} THEN "failed" ELSE "completed"
<1>1. /\ stage[j].pc = "ready" /\ Len(stage[j].results) = Len(plan[j])
      /\ stage' = [stage EXCEPT ![j].pc = end, ![j].artefacts = UNION {PS!Artefacts(<<j, n>>) : n \in PS!Successful(j)}]
      /\ progress' = [progress EXCEPT ![j].done = progress[j].count, ![j].current = 0]
      /\ plan' = plan /\ image' = image /\ thread' = thread /\ queue' = queue
  BY DEF PS!EndStage
<1>2. /\ Len(plan[j]) \in Nat /\ Len(plan[j]) <= MaxParsers /\ MaxParsers \in Nat
      /\ Recordings(j) = 1..Len(plan[j]) /\ stage[j] \in StageType /\ progress[j] \in ProgressType
      /\ StageInv(j) /\ ParseTypes /\ plan[j] \in Seq(PS!FileParsers \cup {"filesystem", "memory"})
  BY <1>1, PlansFit DEF ParseInv, Recordings
<1>3. PS!Successful(j) = Done(j)
  BY <1>2 DEF PS!Successful, Done
<1>4. UNION {PS!Artefacts(<<j, n>>) : n \in PS!Successful(j)} = Found(j)
  BY <1>3 DEF Found
<1>5. end \in {"completed", "failed"} /\ (end = "failed" <=> Done(j) = {})
  BY <1>3
<1>6. Found(j) \in SUBSET (PS!Threads \X Nat)
  <2>1. \A n \in Done(j) : <<j, n>> \in PS!Threads
    <3>1. \A n \in 1..Len(plan[j]) : n \in 1..MaxParsers
      BY <1>2
    <3> QED
      BY <1>2, <3>1 DEF Done, PS!Threads
  <2>2. \A n \in Done(j) : PS!Artefacts(<<j, n>>) \subseteq PS!Threads \X Nat
    <3> SUFFICES ASSUME NEW n \in Done(j) PROVE PS!Artefacts(<<j, n>>) \subseteq PS!Threads \X Nat
      OBVIOUS
    <3> DEFINE u == <<j, n>>
    <3>1. u \in PS!Threads
      BY <2>1
    <3> HIDE DEF u
    <3>2. PS!Artefacts(u) \subseteq PS!Threads \X Nat
      BY <3>1 DEF PS!Artefacts
    <3> QED
      BY <3>2 DEF u
  <2> QED
    BY <2>2 DEF Found
<1> HIDE DEF end
<1>7. /\ stage'[j] = [stage[j] EXCEPT !.pc = end, !.artefacts = Found(j)]
      /\ progress'[j] = [progress[j] EXCEPT !.done = progress[j].count, !.current = 0]
      /\ \A k \in Parsed : k # j => stage'[k] = stage[k] /\ progress'[k] = progress[k]
  BY <1>1, <1>2, <1>4 DEF ParseTypes
<1>8. stage'[j] \in StageType /\ stage'[j].pc = end /\ stage'[j].results = stage[j].results /\ stage'[j].artefacts = Found(j)
  BY <1>2, <1>5, <1>6, <1>7 DEF StageType
<1>9. /\ progress'[j] \in ProgressType /\ progress'[j].current = 0 /\ progress'[j].done = progress[j].count
      /\ progress'[j].count = progress[j].count /\ progress'[j].found = progress[j].found
  <2> DEFINE p == progress[j]
  <2>1. p \in [current : Nat, done : Nat, count : Nat, found : Nat]
    BY <1>2 DEF ProgressType
  <2>2. progress'[j] = [p EXCEPT !.done = p.count, !.current = 0]
    BY <1>7
  <2> HIDE DEF p
  <2>3. [p EXCEPT !.done = p.count, !.current = 0] \in [current : Nat, done : Nat, count : Nat, found : Nat]
    BY <2>1
  <2>4. progress'[j].current = 0 /\ progress'[j].done = p.count /\ progress'[j].count = p.count /\ progress'[j].found = p.found
    BY <2>1, <2>2
  <2> QED
    BY <2>2, <2>3, <2>4 DEF ProgressType, p
<1>10. ParseTypes'
  <2>1. stage' \in [Parsed -> StageType] /\ progress' \in [Parsed -> ProgressType]
    BY <1>1, <1>2, <1>7, <1>8, <1>9 DEF ParseTypes
  <2> QED
    BY <1>1, <1>2, <2>1 DEF ParseTypes, StageType, ProgressType, ThreadType, PS!Threads
<1>11. QueueInv' /\ \A u \in PS!Threads : Clean(thread[u], u)'
  <2>1. QueueInv'
    BY <1>1 DEF ParseInv, QueueInv
  <2>2. ASSUME NEW u \in PS!Threads PROVE Clean(thread[u], u)'
    <3>1. Clean(thread[u], u) /\ PS!Parser(u)' = PS!Parser(u) /\ thread'[u] = thread[u]
      BY <1>1 DEF ParseInv, PS!Parser
    <3> QED
      BY <3>1 DEF Clean
  <2> QED
    BY <2>1, <2>2
<1>12. StageInv(j)'
  <2>1. Recordings(j)' = Recordings(j) /\ Done(j)' = Done(j)
    BY <1>8 DEF Recordings, Done
  <2>2. Found(j)' = Found(j)
    BY <1>1, <2>1 DEF Found, PS!Artefacts
  <2>3. ASSUME NEW n \in 1..MaxParsers PROVE ResultInv(j, n)'
    <3>1. ResultInv(j, n)
      BY <1>2 DEF StageInv
    <3> QED
      BY <1>1, <1>5, <1>8, <2>1, <3>1 DEF ResultInv
  <2>4. /\ IsFiniteSet(Found(j)) /\ progress[j].found = Cardinality(Found(j)) /\ progress[j].count = Len(plan[j])
    BY <1>2 DEF StageInv
  <2>5. Len(plan[j]) <= Len(plan[j]) /\ 0 \in 0..Len(plan[j])
    BY <1>2
  <2> QED
    BY <1>1, <1>5, <1>8, <1>9, <2>1, <2>2, <2>3, <2>4, <2>5 DEF StageInv
<1>13. \A k \in Parsed : k # j => StageInv(k)'
  BY <1>1, <1>7, OthersKept
<1> QED
  BY <1>10, <1>11, <1>12, <1>13 DEF ParseInv

LEMMA ParseInitHolds ==
  ASSUME PS!Sensible, PS!Init
  PROVE  ParseInv
<1>1. /\ plan \in Plans /\ image \in [Parsed -> Images] /\ queue = <<>> /\ thread = [t \in PS!Threads |-> PS!Idle]
      /\ stage = [j \in Parsed |-> [pc |-> "ready", results |-> <<>>, artefacts |-> {}]]
      /\ progress = [j \in Parsed |-> [current |-> 0, done |-> 0, count |-> Len(plan[j]), found |-> 0]]
  BY DEF PS!Init
<1>2. \A j \in Parsed : Len(plan[j]) \in Nat
  BY <1>1 DEF PS!Sensible
<1>3. PS!Idle \in ThreadType
  <2>1. <<>> \in Seq(PS!Entry) /\ 0 \in 0..MaxArtefacts
    BY DEF PS!Sensible
  <2> QED
    BY <2>1 DEF PS!Idle, ThreadType, ThreadPcs
<1>4. \A j \in Parsed : stage[j] \in StageType /\ progress[j] \in ProgressType
  BY <1>1, <1>2 DEF StageType, ProgressType
<1>5. ParseTypes
  BY <1>1, <1>3, <1>4 DEF ParseTypes
<1>6. QueueInv
  BY <1>1 DEF QueueInv
<1>7. \A t \in PS!Threads : Clean(thread[t], t)
  BY <1>1 DEF Clean, PS!Idle
<1>8. ASSUME NEW j \in Parsed PROVE StageInv(j)
  <2>1. stage[j].pc = "ready" /\ stage[j].results = <<>> /\ Len(stage[j].results) = 0 /\ 1..0 = {}
    BY <1>1
  <2>2. Recordings(j) = {} /\ Done(j) = {} /\ Found(j) = {}
    BY <2>1 DEF Recordings, Done, Found
  <2>3. IsFiniteSet(Found(j)) /\ Cardinality(Found(j)) = 0
    BY <2>2, FS_EmptySet
  <2>4. ASSUME NEW n \in 1..MaxParsers PROVE ResultInv(j, n)
    <3>1. <<j, n>> \in PS!Threads
      BY DEF PS!Threads
    <3>2. thread[<<j, n>>].pc = "none" /\ ~thread[<<j, n>>].given
      BY <1>1, <3>1 DEF PS!Idle
    <3> QED
      BY <2>1, <2>2, <3>2 DEF ResultInv
  <2>5. progress[j].count = Len(plan[j]) /\ progress[j].done = 0 /\ progress[j].current = 0 /\ progress[j].found = 0
    BY <1>1
  <2>6. 0 <= Len(plan[j]) /\ 0 \in 0..Len(plan[j])
    BY <1>2
  <2>7. ~PS!Ended(j)
    BY <2>1 DEF PS!Ended
  <2> QED
    BY <2>1, <2>3, <2>4, <2>5, <2>6, <2>7 DEF StageInv
<1> QED
  BY <1>5, <1>6, <1>7, <1>8 DEF ParseInv

LEMMA ParseStepHolds ==
  ASSUME PS!Sensible, ParseInv, [PS!Next]_PS!vars
  PROVE  ParseInv'
<1>1. CASE UNCHANGED PS!vars
  <2>1. stage' = stage /\ plan' = plan /\ image' = image /\ thread' = thread /\ queue' = queue /\ progress' = progress
    BY <1>1 DEF PS!vars
  <2>2. ParseTypes' /\ QueueInv'
    BY <2>1 DEF ParseInv, ParseTypes, QueueInv, StageType, ProgressType, ThreadType, PS!Threads
  <2>3. \A t \in PS!Threads : Clean(thread[t], t)'
    <3> SUFFICES ASSUME NEW t \in PS!Threads PROVE Clean(thread[t], t)'
      OBVIOUS
    <3>1. Clean(thread[t], t) /\ PS!Parser(t)' = PS!Parser(t)
      BY <2>1 DEF ParseInv, PS!Parser
    <3> QED
      BY <2>1, <3>1 DEF Clean
  <2>4. \A j \in Parsed : StageInv(j)'
    <3> SUFFICES ASSUME NEW j \in Parsed PROVE StageInv(j)'
      OBVIOUS
    <3>1. \A n \in 1..MaxParsers : Goes(thread[<<j, n>>], thread'[<<j, n>>])
      BY <2>1 DEF Goes
    <3> QED
      BY <2>1, <3>1, StageKept DEF ParseInv
  <2> QED
    BY <2>2, <2>3, <2>4 DEF ParseInv
<1>2. ASSUME NEW j \in Parsed, PS!StageSteps(j) PROVE ParseInv'
  BY <1>2, StartsInvariant, ReturnsInvariant, TimesOutInvariant, EndsInvariant DEF PS!StageSteps
<1>3. ASSUME NEW t \in PS!Threads, PS!ThreadSteps(t) PROVE ParseInv'
  BY <1>3, StartsClean, OpensClean, WalksClean, ExtractsClean, FilesReadClean, ClosesClean, PluginsClean DEF PS!ThreadSteps
<1> QED
  BY <1>1, <1>2, <1>3 DEF PS!Next

LEMMA ParseIsSafe ==
  ASSUME PS!Sensible, ParseInv
  PROVE  PS!ParsingSafe
<1>1. PS!TypeOK
  <2>1. \A j \in Parsed : stage[j].pc \in {"ready", "waiting", "completed", "failed"} /\ progress[j].current \in 0..Len(plan[j])
    BY DEF ParseInv, ParseTypes, StageType, StageInv
  <2>2. \A t \in PS!Threads : thread[t].got \in 0..MaxArtefacts
    BY ThreadParts DEF ParseInv
  <2> QED
    BY <2>1, <2>2 DEF PS!TypeOK
<1>2. PS!OnlyInTime
  <2> SUFFICES ASSUME NEW j \in Parsed, PS!Ended(j)
               PROVE  /\ stage[j].artefacts = {a \in UNION {PS!Artefacts(t) : t \in PS!Threads} :
                                                 a[1][1] = j /\ ~thread[a[1]].given /\ thread[a[1]].pc = "returned"}
                      /\ stage[j].pc = "failed" <=> \A n \in 1..Len(plan[j]) : thread[<<j, n>>].given \/ thread[<<j, n>>].pc = "raised"
    BY DEF PS!OnlyInTime
  <2>1. /\ StageInv(j) /\ MaxParsers \in Nat /\ Len(plan[j]) \in Nat /\ Len(plan[j]) <= MaxParsers
        /\ Len(stage[j].results) = Len(plan[j]) /\ Recordings(j) = 1..Len(plan[j]) /\ stage[j].pc # "waiting"
        /\ stage[j].artefacts = Found(j) /\ (stage[j].pc = "failed" <=> Done(j) = {})
    BY PlansFit DEF ParseInv, StageInv, Recordings, PS!Ended
  <2>2. \A n \in 1..Len(plan[j]) : n \in 1..MaxParsers /\ <<j, n>> \in PS!Threads
    BY <2>1 DEF PS!Threads
  <2>3. \A n \in 1..Len(plan[j]) : n \in Done(j) <=> thread[<<j, n>>].pc = "returned" /\ ~thread[<<j, n>>].given
    <3> SUFFICES ASSUME NEW n \in 1..Len(plan[j])
                 PROVE  n \in Done(j) <=> thread[<<j, n>>].pc = "returned" /\ ~thread[<<j, n>>].given
      OBVIOUS
    <3>1. ResultInv(j, n) /\ n \in Recordings(j)
      BY <2>1, <2>2 DEF StageInv
    <3> QED
      BY <3>1 DEF ResultInv, Done
  <2>4. \A n \in 1..Len(plan[j]) : n \notin Done(j) <=> thread[<<j, n>>].given \/ thread[<<j, n>>].pc = "raised"
    <3> SUFFICES ASSUME NEW n \in 1..Len(plan[j])
                 PROVE  n \notin Done(j) <=> thread[<<j, n>>].given \/ thread[<<j, n>>].pc = "raised"
      OBVIOUS
    <3>1. ResultInv(j, n) /\ n \in Recordings(j)
      BY <2>1, <2>2 DEF StageInv
    <3> QED
      BY <3>1 DEF ResultInv, Done
  <2>5. \A n \in 1..MaxParsers : n \notin 1..Len(plan[j]) => thread[<<j, n>>].pc = "none"
    BY <2>1 DEF StageInv, ResultInv
  <2>6. Done(j) \subseteq 1..Len(plan[j])
    BY <2>1 DEF Done
  <2>7. ASSUME NEW a PROVE a \in Found(j) <=> /\ a \in UNION {PS!Artefacts(t) : t \in PS!Threads}
                                              /\ a[1][1] = j /\ ~thread[a[1]].given /\ thread[a[1]].pc = "returned"
    <3>1. ASSUME a \in Found(j)
          PROVE  a \in UNION {PS!Artefacts(t) : t \in PS!Threads} /\ a[1][1] = j /\ ~thread[a[1]].given /\ thread[a[1]].pc = "returned"
      <4>1. PICK n \in Done(j) : a \in PS!Artefacts(<<j, n>>)
        BY <3>1 DEF Found
      <4>2. a[1] = <<j, n>>
        BY <4>1 DEF PS!Artefacts
      <4>3. <<j, n>> \in PS!Threads /\ thread[<<j, n>>].pc = "returned" /\ ~thread[<<j, n>>].given
        BY <2>2, <2>3, <2>6
      <4> QED
        BY <4>1, <4>2, <4>3
    <3>2. ASSUME a \in UNION {PS!Artefacts(t) : t \in PS!Threads}, a[1][1] = j, ~thread[a[1]].given, thread[a[1]].pc = "returned"
          PROVE  a \in Found(j)
      <4>1. PICK t \in PS!Threads : a \in PS!Artefacts(t)
        BY <3>2
      <4>2. a[1] = t
        BY <4>1 DEF PS!Artefacts
      <4>3. PICK n \in 1..MaxParsers : t = <<j, n>>
        BY <3>2, <4>2 DEF PS!Threads
      <4>4. n \in 1..Len(plan[j])
        BY <2>5, <3>2, <4>2, <4>3
      <4>5. n \in Done(j)
        BY <2>3, <3>2, <4>2, <4>3, <4>4
      <4> QED
        BY <4>1, <4>3, <4>5 DEF Found
    <3> QED
      BY <3>1, <3>2
  <2>8. Found(j) = {a \in UNION {PS!Artefacts(t) : t \in PS!Threads} :
                      a[1][1] = j /\ ~thread[a[1]].given /\ thread[a[1]].pc = "returned"}
    BY <2>7
  <2>9. stage[j].pc = "failed" <=> \A n \in 1..Len(plan[j]) : thread[<<j, n>>].given \/ thread[<<j, n>>].pc = "raised"
    <3>1. Done(j) = {} <=> \A n \in 1..Len(plan[j]) : n \notin Done(j)
      BY <2>6
    <3> QED
      BY <2>1, <2>4, <3>1
  <2> QED
    BY <2>1, <2>8, <2>9
<1>3. PS!ProgressAgrees
  <2> SUFFICES ASSUME NEW j \in Parsed
               PROVE  /\ progress[j].done <= progress[j].count
                      /\ PS!Ended(j) => progress[j].done = progress[j].count /\ progress[j].current = 0
                                     /\ progress[j].found = Cardinality(stage[j].artefacts)
    BY ParseSizes DEF PS!ProgressAgrees
  <2> QED
    BY DEF ParseInv, StageInv
<1>4. PS!NothingLeft
  BY DEF PS!NothingLeft, ParseInv, Clean
<1>5. PS!WalkListsOnce
  <2> SUFFICES ASSUME NEW fs \in Images
               PROVE  \A m, n \in DOMAIN PS!Walk(fs) :
                        m # n => PS!Walk(fs)[m].inode # PS!Walk(fs)[n].inode \/ PS!Walk(fs)[m].inode = 0
    BY DEF PS!WalkListsOnce
  <2>1. Once(PS!Walk(fs))
    BY ImageWalks DEF Listings
  <2> QED
    BY <2>1 DEF Once
<1> QED
  BY <1>1, <1>2, <1>3, <1>4, <1>5 DEF PS!ParsingSafe

\* Whatever plans, images, timeouts and failures there are: a stage hands on what
\* answered in time and nothing else, its numbers are those of the parsers that
\* completed, threads that ended leave nothing behind, and a walk lists an inode once
\* (parsing_stage.py and the parsers, see Parsing).
THEOREM ParsingIsSafe == PS!Sensible /\ PS!Spec => []PS!ParsingSafe
<1> DEFINE Inv == PS!Sensible /\ ParseInv
<1>1. PS!Sensible /\ PS!Init => Inv
  BY ParseInitHolds
<1>2. Inv /\ [PS!Next]_PS!vars => Inv'
  BY ParseStepHolds DEF PS!Sensible
<1>3. Inv => PS!ParsingSafe
  BY ParseIsSafe
<1> HIDE DEF Inv
<1> QED
  BY <1>1, <1>2, <1>3, PTL DEF PS!Spec

-----------------------------------------------------------------------------
(* What the stage promises: each parser is decided once                    *)

\* A decision stands while its thread does.
LEMMA DecidedStands ==
  ASSUME PS!Sensible, ParseInv, NEW j \in Parsed, stage'[j].results = stage[j].results,
         \A u \in PS!Threads : thread[u].pc = "returned" => thread'[u] = thread[u]
  PROVE  PS!Decided(j)' = PS!Decided(j)
<1>1. /\ StageInv(j) /\ MaxParsers \in Nat /\ Len(plan[j]) \in Nat /\ Len(plan[j]) <= MaxParsers
      /\ Len(stage[j].results) \in Nat /\ Recordings(j) = DOMAIN stage[j].results
  BY PlansFit DEF ParseInv
<1>2. \A n \in DOMAIN stage[j].results : n \in Recordings(j) /\ n \in 1..MaxParsers /\ <<j, n>> \in PS!Threads
  BY <1>1 DEF StageInv, Recordings, PS!Threads
<1>3. ASSUME NEW n \in DOMAIN stage[j].results, stage[j].results[n] = "completed"
      PROVE  thread'[<<j, n>>] = thread[<<j, n>>]
  <2>1. ResultInv(j, n) /\ n \in Recordings(j) /\ <<j, n>> \in PS!Threads
    BY <1>1, <1>2 DEF StageInv
  <2> QED
    BY <1>3, <2>1 DEF ResultInv
<1> QED
  BY <1>3 DEF PS!Decided

\* What does not touch the results, the verdict and the numbers of a stage is none of the
\* outcome's steps.
LEMMA OutcomeStands ==
  ASSUME PS!Sensible, ParseInv, plan' = plan,
         \A k \in Parsed : /\ stage'[k].results = stage[k].results /\ stage'[k].artefacts = stage[k].artefacts
                           /\ (IF PS!Ended(k) THEN stage[k].pc ELSE "running")' = IF PS!Ended(k) THEN stage[k].pc ELSE "running"
                           /\ progress'[k].done = progress[k].done /\ progress'[k].found = progress[k].found,
         \A u \in PS!Threads : thread[u].pc = "returned" => thread'[u] = thread[u]
  PROVE  UNCHANGED PS!Outcome!vars
<1>1. \A k \in Parsed : PS!Decided(k)' = PS!Decided(k)
  BY DecidedStands
<1>2. \A k \in Parsed : PS!Handed(k)' = PS!Handed(k)
  BY DEF PS!Handed
<1> QED
  BY <1>1, <1>2 DEF PS!Outcome!vars

\* No thread that has returned takes a step.
LEMMA ThreadsPass ==
  ASSUME PS!Sensible, ParseInv, NEW t \in PS!Threads, PS!ThreadSteps(t)
  PROVE  /\ stage' = stage /\ plan' = plan /\ progress' = progress
         /\ \A u \in PS!Threads : thread[u].pc = "returned" => thread'[u] = thread[u]
<1>1. thread[t].pc # "returned"
  <2>1. ASSUME PS!StartThread(t) PROVE thread[t].pc = "queued"
    <3>1. queue # <<>> /\ t = Head(queue) /\ queue \in Seq(PS!Threads)
      BY <2>1 DEF PS!StartThread, ParseInv, ParseTypes
    <3>2. 1 \in DOMAIN queue /\ queue[1] = t
      BY <3>1
    <3> QED
      BY <3>2 DEF ParseInv, QueueInv
  <2> QED
    BY <2>1 DEF PS!ThreadSteps, PS!Open, PS!WalkImage, PS!Extract, PS!ReadHive, PS!ReadDatabase, PS!ReadLog, PS!Reads,
                PS!Close, PS!PluginTimesOut, PS!PluginEnds
<1>2. \A c, u : u \in PS!Threads /\ u # t /\ PS!Set(t, c) => thread'[u] = thread[u]
  BY DEF PS!Set, ParseInv, ParseTypes
<1>3. /\ stage' = stage /\ plan' = plan /\ progress' = progress /\ \E c : PS!Set(t, c)
  <2>1. ASSUME PS!StartThread(t) PROVE stage' = stage /\ plan' = plan /\ progress' = progress /\ \E c : PS!Set(t, c)
    BY <2>1 DEF PS!StartThread
  <2>2. ASSUME PS!Open(t) PROVE PS!Kept /\ \E c : PS!Set(t, c)
    BY <2>2 DEF PS!Open
  <2>3. ASSUME PS!WalkImage(t) PROVE PS!Kept /\ \E c : PS!Set(t, c)
    BY <2>3 DEF PS!WalkImage
  <2>4. ASSUME PS!Extract(t) PROVE PS!Kept /\ \E c : PS!Set(t, c)
    BY <2>4 DEF PS!Extract
  <2>5. ASSUME PS!ReadHive(t) \/ PS!ReadDatabase(t) \/ PS!ReadLog(t) PROVE PS!Kept /\ \E c : PS!Set(t, c)
    BY <2>5 DEF PS!ReadHive, PS!ReadDatabase, PS!ReadLog, PS!Reads
  <2>6. ASSUME PS!Close(t) PROVE PS!Kept /\ \E c : PS!Set(t, c)
    BY <2>6 DEF PS!Close
  <2>7. ASSUME PS!PluginTimesOut(t) \/ PS!PluginEnds(t) PROVE PS!Kept /\ \E c : PS!Set(t, c)
    BY <2>7 DEF PS!PluginTimesOut, PS!PluginEnds
  <2>8. PS!Kept => stage' = stage /\ plan' = plan /\ progress' = progress
    BY DEF PS!Kept
  <2> QED
    BY <2>1, <2>2, <2>3, <2>4, <2>5, <2>6, <2>7, <2>8 DEF PS!ThreadSteps
<1> QED
  BY <1>1, <1>2, <1>3


LEMMA OutcomeStarts == ASSUME PS!Sensible, PS!Init PROVE PS!Outcome!Init
<1>1. /\ plan \in Plans
      /\ stage = [j \in Parsed |-> [pc |-> "ready", results |-> <<>>, artefacts |-> {}]]
      /\ progress = [j \in Parsed |-> [current |-> 0, done |-> 0, count |-> Len(plan[j]), found |-> 0]]
  BY DEF PS!Init
<1>2. \A j \in Parsed : Len(plan[j]) \in 0..MaxParsers
  <2> SUFFICES ASSUME NEW j \in Parsed PROVE Len(plan[j]) \in 0..MaxParsers
    OBVIOUS
  <2>1. plan[j] \in Seq(PS!FileParsers \cup {"filesystem", "memory"}) /\ Len(plan[j]) <= MaxParsers /\ MaxParsers \in Nat
    BY <1>1 DEF PS!Sensible
  <2> QED
    BY <2>1
<1>3. \A j \in Parsed : PS!Decided(j) = <<>>
  <2> SUFFICES ASSUME NEW j \in Parsed PROVE PS!Decided(j) = <<>>
    OBVIOUS
  <2>1. stage[j].results = <<>>
    BY <1>1
  <2> QED
    BY <2>1 DEF PS!Decided
<1>4. \A j \in Parsed : ~PS!Ended(j) /\ PS!Handed(j) = {} /\ progress[j].done = 0 /\ progress[j].found = 0
  BY <1>1 DEF PS!Ended, PS!Handed
<1> QED
  BY <1>2, <1>3, <1>4 DEF PS!Outcome!Init

\* A result that is recorded is a decision; it adds to what the client sees.
LEMMA RecordsDecide ==
  ASSUME PS!Sensible, ParseInv, NEW j \in Parsed, stage[j].pc = "waiting", NEW result, NEW found, PS!Recorded(j, result, found),
         NEW d \in ThreadType, Tells(result, found, d), thread' = [thread EXCEPT ![PS!Current(j)] = d]
  PROVE  PS!Outcome!Decide(j)
<1> DEFINE t == PS!Current(j)
           r == Len(stage[j].results)
           answer == IF result = "completed" THEN [ok |-> TRUE, found |-> d.got] ELSE [ok |-> FALSE, found |-> 0]
<1>1. /\ t = <<j, r + 1>>
      /\ stage' = [stage EXCEPT ![j].pc = "ready", ![j].results = Append(@, result)]
      /\ progress' = [progress EXCEPT ![j].done = @ + 1, ![j].found = @ + found, ![j].current = 0]
      /\ plan' = plan /\ thread' = [thread EXCEPT ![t] = d]
  BY DEF PS!Recorded, PS!Current
<1>2. /\ Len(plan[j]) \in Nat /\ Len(plan[j]) <= MaxParsers /\ MaxParsers \in Nat /\ r \in Nat /\ MaxArtefacts \in Nat
      /\ stage[j] \in StageType /\ progress[j] \in ProgressType /\ StageInv(j) /\ ParseTypes
      /\ stage[j].results \in Seq({"completed", "failed"}) /\ DOMAIN stage[j].results = 1..r
  BY PlansFit DEF ParseInv, StageType
<1>3. r < Len(plan[j]) /\ r + 1 \in 1..MaxParsers /\ t \in PS!Threads
  BY <1>1, <1>2 DEF StageInv, PS!Threads
<1>4. answer \in PS!Outcome!Answers /\ answer.found = found
  BY DEF Tells, ThreadType, PS!Outcome!Answers
<1>5. \A u \in PS!Threads : thread'[u] = IF u = t THEN d ELSE thread[u]
  BY <1>1, <1>2, <1>3 DEF ParseTypes
<1>6. /\ stage'[j] = [stage[j] EXCEPT !.pc = "ready", !.results = Append(stage[j].results, result)]
      /\ progress'[j] = [progress[j] EXCEPT !.done = progress[j].done + 1, !.found = progress[j].found + found, !.current = 0]
      /\ \A k \in Parsed : k # j => stage'[k] = stage[k] /\ progress'[k] = progress[k]
  BY <1>1, <1>2 DEF ParseTypes
<1> DEFINE rs == Append(stage[j].results, result)
<1>7. rs \in Seq({"completed", "failed"}) /\ Len(rs) = r + 1 /\ DOMAIN rs = 1..(r + 1) /\ rs[r + 1] = result
      /\ \A n \in 1..r : rs[n] = stage[j].results[n]
  BY <1>2 DEF Tells
<1> HIDE DEF t, r, rs
<1>8. stage'[j].results = rs /\ stage'[j].pc = "ready" /\ stage'[j].artefacts = stage[j].artefacts
  BY <1>2, <1>6 DEF StageType, rs
<1>9. progress'[j].done = progress[j].done + 1 /\ progress'[j].found = progress[j].found + found
  <2> DEFINE p == progress[j]
             a == progress[j].done + 1
             b == progress[j].found + found
  <2>1. p \in [current : Nat, done : Nat, count : Nat, found : Nat]
    BY <1>2 DEF ProgressType
  <2>2. progress'[j] = [p EXCEPT !.done = a, !.found = b, !.current = 0]
    BY <1>6
  <2> HIDE DEF p, a, b
  <2>3. progress'[j].done = a /\ progress'[j].found = b
    BY <2>1, <2>2
  <2> QED
    BY <2>3 DEF a, b
<1>10. PS!Decided(j)' = Append(PS!Decided(j), answer)
  <2> DEFINE D == PS!Decided(j)
             New == [n \in 1..(r + 1) |-> IF rs[n] = "completed" THEN [ok |-> TRUE, found |-> thread'[<<j, n>>].got]
                                          ELSE [ok |-> FALSE, found |-> 0]]
  <2>1. PS!Decided(j)' = New
    BY <1>7, <1>8 DEF PS!Decided
  <2>2. D = [n \in 1..r |-> IF stage[j].results[n] = "completed" THEN [ok |-> TRUE, found |-> thread[<<j, n>>].got]
                            ELSE [ok |-> FALSE, found |-> 0]]
    BY <1>2 DEF PS!Decided, r
  <2>3. \A n \in 1..r : n \in 1..MaxParsers /\ <<j, n>> \in PS!Threads /\ <<j, n>> # t /\ thread'[<<j, n>>] = thread[<<j, n>>]
    <3>1. \A n \in 1..r : n \in 1..MaxParsers /\ n # r + 1
      BY <1>2, <1>3 DEF r
    <3> QED
      BY <1>1, <1>5, <3>1 DEF PS!Threads, r
  <2>4. thread'[<<j, r + 1>>] = d
    BY <1>1, <1>3, <1>5 DEF r
  <2>5. New[r + 1] = answer
    <3>1. r + 1 \in 1..(r + 1)
      BY <1>2 DEF r
    <3> QED
      BY <1>7, <2>4, <3>1
  <2>6. r \in Nat /\ \A n \in 1..(r + 1) : n = r + 1 \/ n \in 1..r
    BY <1>2 DEF r
  <2>7. \A n \in 1..r : n \in 1..(r + 1) /\ New[n] = D[n]
    <3> SUFFICES ASSUME NEW n \in 1..r PROVE n \in 1..(r + 1) /\ New[n] = D[n]
      OBVIOUS
    <3>1. n \in 1..(r + 1) /\ rs[n] = stage[j].results[n] /\ thread'[<<j, n>>] = thread[<<j, n>>]
      BY <1>7, <2>3, <2>6
    <3>2. New[n] = IF rs[n] = "completed" THEN [ok |-> TRUE, found |-> thread'[<<j, n>>].got] ELSE [ok |-> FALSE, found |-> 0]
      BY <3>1
    <3>3. D[n] = IF stage[j].results[n] = "completed" THEN [ok |-> TRUE, found |-> thread[<<j, n>>].got]
                 ELSE [ok |-> FALSE, found |-> 0]
      BY <2>2
    <3> HIDE DEF New, D
    <3> QED
      BY <3>1, <3>2, <3>3
  <2> HIDE DEF answer
  <2>8. D = [n \in 1..r |-> D[n]]
    BY <2>2
  <2>9. New = [n \in 1..(r + 1) |-> New[n]]
    OBVIOUS
  <2> HIDE DEF New, D
  <2> DEFINE T == {answer} \cup {D[n] : n \in 1..r}
             A == Append(D, answer)
  <2>10. D \in Seq(T) /\ Len(D) = r /\ answer \in T
    <3>1. \A n \in 1..r : D[n] \in T
      OBVIOUS
    <3>2. answer \in T
      OBVIOUS
    <3> HIDE DEF T
    <3>3. D \in [1..r -> T]
      BY <2>8, <3>1
    <3> QED
      BY <2>6, <3>2, <3>3
  <2>11. New = A
    <3> HIDE DEF T
    <3>1. A \in Seq(T) /\ Len(A) = r + 1 /\ A[r + 1] = answer /\ \A n \in 1..r : A[n] = D[n]
      BY <2>6, <2>10
    <3> HIDE DEF A
    <3>2. A = [n \in 1..(r + 1) |-> A[n]]
      BY <3>1
    <3>3. \A n \in 1..(r + 1) : New[n] = A[n]
      BY <2>5, <2>6, <2>7, <3>1
    <3> QED
      BY <2>9, <3>2, <3>3
  <2> QED
    BY <2>1, <2>11 DEF D
<1>11. \A k \in Parsed : k # j => PS!Decided(k)' = PS!Decided(k)
  <2> SUFFICES ASSUME NEW k \in Parsed, k # j PROVE PS!Decided(k)' = PS!Decided(k)
    OBVIOUS
  <2>1. stage'[k] = stage[k] /\ StageInv(k) /\ Recordings(k) = DOMAIN stage[k].results /\ Len(plan[k]) <= MaxParsers
        /\ Len(plan[k]) \in Nat /\ Len(stage[k].results) \in Nat /\ MaxParsers \in Nat
    BY <1>6, PlansFit DEF ParseInv
  <2>2. \A n \in DOMAIN stage[k].results : n \in 1..MaxParsers
    BY <2>1 DEF StageInv, Recordings
  <2>3. \A n \in DOMAIN stage[k].results : <<k, n>> \in PS!Threads /\ <<k, n>> # t
    BY <1>1, <2>2 DEF PS!Threads
  <2>4. \A n \in DOMAIN stage[k].results : thread'[<<k, n>>] = thread[<<k, n>>]
    BY <1>5, <2>3
  <2> QED
    BY <2>1, <2>4 DEF PS!Decided
<1>12. \A k \in Parsed : PS!Handed(k)' = PS!Handed(k) /\ (PS!Ended(k)' <=> PS!Ended(k)) /\ (PS!Ended(k) => stage'[k].pc = stage[k].pc)
  BY <1>6, <1>8 DEF PS!Handed, PS!Ended
<1>13. ~PS!Ended(j) /\ Len(PS!Decided(j)) = r
  <2>1. PS!Decided(j) = [n \in 1..r |-> PS!Decided(j)[n]] /\ r \in Nat
    BY <1>2 DEF PS!Decided, r
  <2> QED
    BY <2>1 DEF PS!Ended
<1> HIDE DEF answer
<1> DEFINE Ds == [k \in Parsed |-> PS!Decided(k)]
           Vs == [k \in Parsed |-> IF PS!Ended(k) THEN stage[k].pc ELSE "running"]
           Hs == [k \in Parsed |-> PS!Handed(k)]
           Ss == [k \in Parsed |-> [done |-> progress[k].done, found |-> progress[k].found]]
<1>14. Ds' = [Ds EXCEPT ![j] = Append(Ds[j], answer)]
  BY <1>10, <1>11
<1>15. Ss' = [Ss EXCEPT ![j] = [done |-> Ss[j].done + 1, found |-> Ss[j].found + answer.found]]
  BY <1>4, <1>6, <1>9
<1>16. Vs' = Vs /\ Hs' = Hs /\ [k \in Parsed |-> Len(plan[k])]' = [k \in Parsed |-> Len(plan[k])]
  BY <1>1, <1>12
<1>17. Vs[j] = "running" /\ Len(Ds[j]) < Len(plan[j])
  BY <1>3, <1>13 DEF r
<1> QED
  BY <1>4, <1>14, <1>15, <1>16, <1>17 DEF PS!Outcome!Decide

LEMMA ReturnsDecide ==
  ASSUME PS!Sensible, ParseInv, NEW j \in Parsed, PS!ParserReturns(j) \/ PS!ParserTimesOut(j)
  PROVE  PS!Outcome!Decide(j)
<1> DEFINE t == PS!Current(j)
           th == thread[t]
           d == [th EXCEPT !.given = TRUE, !.pc = IF @ = "queued" THEN "none" ELSE @]
<1>1. /\ MaxParsers \in Nat /\ Len(plan[j]) \in Nat /\ Len(plan[j]) <= MaxParsers /\ Len(stage[j].results) \in Nat
      /\ StageInv(j) /\ Recordings(j) = 1..Len(stage[j].results) /\ stage[j].pc = "waiting"
  BY PlansFit DEF ParseInv, Recordings, PS!ParserReturns, PS!ParserTimesOut
<1>2. Len(stage[j].results) + 1 \in 1..MaxParsers /\ Len(stage[j].results) + 1 \notin Recordings(j)
  BY <1>1 DEF StageInv
<1>3. t \in PS!Threads /\ th \in ThreadType /\ ~th.given /\ thread' \in {thread, [thread EXCEPT ![t] = d]}
      /\ thread = [thread EXCEPT ![t] = th]
  <2>1. t \in PS!Threads
    BY <1>2 DEF PS!Current, PS!Threads
  <2>2. ResultInv(j, Len(stage[j].results) + 1)
    BY <1>1, <1>2 DEF StageInv
  <2>3. ~th.given
    BY <1>2, <2>2 DEF ResultInv, PS!Current
  <2> QED
    BY <2>1, <2>3, ThreadParts DEF ParseInv, ParseTypes, PS!ParserReturns, PS!ParserTimesOut, PS!Set
<1>4. d \in ThreadType /\ d.given
  BY <1>3 DEF ThreadType, ThreadPcs
<1>5. CASE PS!ParserReturns(j)
  <2>1. /\ thread' = thread
        /\ \/ th.pc = "returned" /\ PS!Recorded(j, "completed", th.got)
           \/ th.pc = "raised" /\ PS!Recorded(j, "failed", 0)
    BY <1>5 DEF PS!ParserReturns
  <2> HIDE DEF th
  <2>2. CASE th.pc = "returned" /\ PS!Recorded(j, "completed", th.got)
    <3>1. Tells("completed", th.got, th)
      BY <1>3, <2>2 DEF Tells
    <3> QED
      BY <1>1, <1>3, <2>1, <2>2, <3>1, RecordsDecide
  <2>3. CASE th.pc = "raised" /\ PS!Recorded(j, "failed", 0)
    <3>1. Tells("failed", 0, th)
      BY <2>3 DEF Tells
    <3> QED
      BY <1>1, <1>3, <2>1, <2>3, <3>1, RecordsDecide
  <2> QED
    BY <2>1, <2>2, <2>3
<1>6. CASE PS!ParserTimesOut(j)
  <2>1. PS!Recorded(j, "failed", 0) /\ thread' = [thread EXCEPT ![t] = d]
    BY <1>6 DEF PS!ParserTimesOut, PS!Set
  <2>2. Tells("failed", 0, d)
    BY <1>4 DEF Tells
  <2> HIDE DEF d
  <2> QED
    BY <1>1, <1>4, <2>1, <2>2, RecordsDecide
<1> QED
  BY <1>5, <1>6

LEMMA EndsConclude ==
  ASSUME PS!Sensible, ParseInv, NEW j \in Parsed, PS!EndStage(j)
  PROVE  PS!Outcome!Conclude(j)
<1> DEFINE end == IF PS!Successful(j) = {} THEN "failed" ELSE "completed"
           arts == UNION {PS!Artefacts(<<j, n>>) : n \in PS!Successful(j)}
           D == PS!Decided(j)
<1>1. /\ stage[j].pc = "ready" /\ Len(stage[j].results) = Len(plan[j])
      /\ stage' = [stage EXCEPT ![j].pc = end, ![j].artefacts = arts]
      /\ progress' = [progress EXCEPT ![j].done = progress[j].count, ![j].current = 0]
      /\ plan' = plan /\ thread' = thread
  BY DEF PS!EndStage
<1>2. /\ Len(plan[j]) \in Nat /\ DOMAIN stage[j].results = 1..Len(plan[j]) /\ stage[j] \in StageType
      /\ progress[j] \in ProgressType /\ StageInv(j) /\ ParseTypes
  BY <1>1, PlansFit DEF ParseInv, Recordings
<1>3. D = [n \in 1..Len(plan[j]) |-> IF stage[j].results[n] = "completed" THEN [ok |-> TRUE, found |-> thread[<<j, n>>].got]
                                     ELSE [ok |-> FALSE, found |-> 0]]
  BY <1>2 DEF PS!Decided
<1>4. PS!Successful(j) = {n \in DOMAIN D : D[n].ok}
  <2>1. DOMAIN D = 1..Len(plan[j])
    BY <1>3
  <2>2. \A n \in 1..Len(plan[j]) : D[n].ok <=> stage[j].results[n] = "completed"
    BY <1>3
  <2> HIDE DEF D
  <2> QED
    BY <2>1, <2>2 DEF PS!Successful
<1>5. end = IF \E n \in DOMAIN D : D[n].ok THEN "completed" ELSE "failed"
  <2> HIDE DEF D
  <2> QED
    BY <1>4
<1>6. {[parser |-> a[1][2], number |-> a[2]] : a \in arts} = UNION {PS!Outcome!FoundBy(n, D[n]) : n \in DOMAIN D}
  <2> DEFINE Name(a) == [parser |-> a[1][2], number |-> a[2]]
             Of(n) == PS!Outcome!FoundBy(n, D[n])
  <2>1. \A n \in PS!Successful(j) : D[n].found = thread[<<j, n>>].got
    BY <1>3 DEF PS!Successful
  <2>2. \A n \in DOMAIN D : n \notin PS!Successful(j) => D[n].found = 0
    BY <1>3 DEF PS!Successful
  <2>3. \A n \in DOMAIN D : n \notin PS!Successful(j) => Of(n) = {}
    <3> SUFFICES ASSUME NEW n \in DOMAIN D, n \notin PS!Successful(j) PROVE Of(n) = {}
      OBVIOUS
    <3>1. D[n].found = 0 /\ 1..0 = {}
      BY <2>2
    <3> QED
      BY <3>1 DEF PS!Outcome!FoundBy
  <2>4. ASSUME NEW n \in PS!Successful(j) PROVE Of(n) = {Name(a) : a \in PS!Artefacts(<<j, n>>)}
    <3>1. Of(n) = {[parser |-> n, number |-> k] : k \in 1..thread[<<j, n>>].got}
      BY <2>1 DEF PS!Outcome!FoundBy
    <3> DEFINE u == <<j, n>>
    <3>2. u[2] = n
      OBVIOUS
    <3> HIDE DEF u, Of
    <3>3. {Name(a) : a \in PS!Artefacts(u)} = {[parser |-> u[2], number |-> k] : k \in 1..thread[u].got}
      <4>1. PS!Artefacts(u) = {<<u, k>> : k \in 1..thread[u].got}
        BY DEF PS!Artefacts
      <4>2. \A k : Name(<<u, k>>) = [parser |-> u[2], number |-> k]
        OBVIOUS
      <4> DEFINE Ks == 1..thread[u].got
                 Own(k) == [parser |-> u[2], number |-> k]
      <4>3. \A a : a \in PS!Artefacts(u) <=> \E k \in Ks : a = <<u, k>>
        BY <4>1
      <4>4. \A k : Name(<<u, k>>) = Own(k)
        BY <4>2
      <4> HIDE DEF Name, Ks, Own
      <4> DEFINE A == PS!Artefacts(u)
      <4>5. \A a : a \in A <=> \E k \in Ks : a = <<u, k>>
        BY <4>3
      <4> HIDE DEF A
      <4>6. ASSUME NEW x PROVE x \in {Name(a) : a \in A} => x \in {Own(k) : k \in Ks}
        <5> SUFFICES ASSUME x \in {Name(a) : a \in A} PROVE x \in {Own(k) : k \in Ks}
          OBVIOUS
        <5>1. PICK a \in A : x = Name(a)
          OBVIOUS
        <5>2. PICK k \in Ks : a = <<u, k>>
          BY <4>5
        <5>3. x = Own(k)
          BY <4>4, <5>1, <5>2
        <5> QED
          BY <5>3
      <4>7. ASSUME NEW x PROVE x \in {Own(k) : k \in Ks} => x \in {Name(a) : a \in A}
        <5> SUFFICES ASSUME x \in {Own(k) : k \in Ks} PROVE x \in {Name(a) : a \in A}
          OBVIOUS
        <5>1. PICK k \in Ks : x = Own(k)
          OBVIOUS
        <5>2. <<u, k>> \in A /\ x = Name(<<u, k>>)
          BY <4>4, <4>5, <5>1
        <5> QED
          BY <5>2
      <4>8. {Name(a) : a \in A} = {Own(k) : k \in Ks}
        BY <4>6, <4>7
      <4> QED
        BY <4>8 DEF A, Ks, Own
    <3> QED
      BY <3>1, <3>2, <3>3 DEF u
  <2>5. PS!Successful(j) \subseteq DOMAIN D
    BY <1>4
  <2> HIDE DEF Of, D, Name
  <2>6. ASSUME NEW x PROVE x \in {Name(a) : a \in arts} <=> x \in UNION {Of(n) : n \in DOMAIN D}
    <3>1. x \in {Name(a) : a \in arts} <=> \E n \in PS!Successful(j) : \E a \in PS!Artefacts(<<j, n>>) : x = Name(a)
      OBVIOUS
    <3>2. \A n \in PS!Successful(j) : x \in Of(n) <=> \E a \in PS!Artefacts(<<j, n>>) : x = Name(a)
      BY <2>4
    <3> QED
      BY <2>3, <2>5, <3>1, <3>2
  <2>7. {Name(a) : a \in arts} = UNION {Of(n) : n \in DOMAIN D}
    BY <2>6
  <2> QED
    BY <2>7 DEF Of, Name
<1> HIDE DEF end, arts
<1>7. /\ stage'[j] = [stage[j] EXCEPT !.pc = end, !.artefacts = arts]
      /\ progress'[j] = [progress[j] EXCEPT !.done = progress[j].count, !.current = 0]
      /\ \A k \in Parsed : k # j => stage'[k] = stage[k] /\ progress'[k] = progress[k]
  BY <1>1, <1>2 DEF ParseTypes
<1>8. stage'[j].pc = end /\ stage'[j].results = stage[j].results /\ stage'[j].artefacts = arts
  BY <1>2, <1>7 DEF StageType
<1>9. progress'[j].done = progress[j].done /\ progress'[j].found = progress[j].found
  <2>1. progress[j].count = progress[j].done
    BY <1>1, <1>2 DEF StageInv
  <2> QED
    BY <1>2, <1>7, <2>1 DEF ProgressType
<1>10. \A k \in Parsed : PS!Decided(k)' = PS!Decided(k)
  <2> SUFFICES ASSUME NEW k \in Parsed PROVE PS!Decided(k)' = PS!Decided(k)
    OBVIOUS
  <2>1. stage'[k].results = stage[k].results
    BY <1>7, <1>8
  <2> QED
    BY <1>1, <2>1 DEF PS!Decided
<1>11. ~PS!Ended(j) /\ PS!Ended(j)' /\ Len(D) = Len(plan[j])
  <2>1. end \in {"completed", "failed"}
    BY DEF end
  <2>2. Len(D) = Len(plan[j])
    BY <1>2, <1>3
  <2> QED
    BY <1>1, <1>8, <2>1, <2>2 DEF PS!Ended
<1>12. \A k \in Parsed : k # j => PS!Handed(k)' = PS!Handed(k) /\ (PS!Ended(k)' <=> PS!Ended(k)) /\ stage'[k].pc = stage[k].pc
  BY <1>7 DEF PS!Handed, PS!Ended
<1>13. PS!Handed(j)' = UNION {PS!Outcome!FoundBy(n, D[n]) : n \in DOMAIN D}
  BY <1>6, <1>8 DEF PS!Handed
<1> HIDE DEF D
<1> DEFINE Ds == [k \in Parsed |-> PS!Decided(k)]
           Vs == [k \in Parsed |-> IF PS!Ended(k) THEN stage[k].pc ELSE "running"]
           Hs == [k \in Parsed |-> PS!Handed(k)]
           Ss == [k \in Parsed |-> [done |-> progress[k].done, found |-> progress[k].found]]
<1>14. Ds[j] = D
  BY DEF D
<1>15. Vs[j] = "running" /\ Vs' = [Vs EXCEPT ![j] = IF \E n \in DOMAIN Ds[j] : Ds[j][n].ok THEN "completed" ELSE "failed"]
  <2>1. Vs'[j] = end
    BY <1>8, <1>11
  <2>2. end = IF \E n \in DOMAIN Ds[j] : Ds[j][n].ok THEN "completed" ELSE "failed"
    BY <1>5, <1>14
  <2>3. \A k \in Parsed : k # j => Vs'[k] = Vs[k]
    BY <1>12
  <2>4. Vs[j] = "running"
    BY <1>11
  <2>5. Vs' = [k \in Parsed |-> Vs'[k]] /\ Vs = [k \in Parsed |-> Vs[k]]
    OBVIOUS
  <2> HIDE DEF Vs, Ds
  <2> QED
    BY <2>1, <2>2, <2>3, <2>4, <2>5
<1>16. Hs' = [Hs EXCEPT ![j] = UNION {PS!Outcome!FoundBy(n, Ds[j][n]) : n \in DOMAIN Ds[j]}]
  <2>1. Hs'[j] = UNION {PS!Outcome!FoundBy(n, Ds[j][n]) : n \in DOMAIN Ds[j]}
    BY <1>13, <1>14
  <2>2. \A k \in Parsed : k # j => Hs'[k] = Hs[k]
    BY <1>12
  <2>3. Hs' = [k \in Parsed |-> Hs'[k]] /\ Hs = [k \in Parsed |-> Hs[k]]
    OBVIOUS
  <2> HIDE DEF Hs, Ds
  <2> QED
    BY <2>1, <2>2, <2>3
<1>17. Ds' = Ds /\ Ss' = Ss /\ [k \in Parsed |-> Len(plan[k])]' = [k \in Parsed |-> Len(plan[k])]
  BY <1>1, <1>7, <1>9, <1>10
<1> QED
  BY <1>11, <1>14, <1>15, <1>16, <1>17 DEF PS!Outcome!Conclude

LEMMA OutcomeSteps ==
  ASSUME PS!Sensible, ParseInv, [PS!Next]_PS!vars
  PROVE  [PS!Outcome!Next]_PS!Outcome!vars
<1>1. CASE UNCHANGED PS!vars
  <2>1. stage' = stage /\ plan' = plan /\ thread' = thread /\ progress' = progress
    BY <1>1 DEF PS!vars
  <2>2. \A k \in Parsed : PS!Ended(k)' <=> PS!Ended(k)
    BY <2>1 DEF PS!Ended
  <2> QED
    BY <2>1, <2>2, OutcomeStands
<1>2. ASSUME NEW t \in PS!Threads, PS!ThreadSteps(t) PROVE UNCHANGED PS!Outcome!vars
  <2>1. /\ stage' = stage /\ plan' = plan /\ progress' = progress
        /\ \A u \in PS!Threads : thread[u].pc = "returned" => thread'[u] = thread[u]
    BY <1>2, ThreadsPass
  <2>2. \A k \in Parsed : PS!Ended(k)' <=> PS!Ended(k)
    BY <2>1 DEF PS!Ended
  <2> QED
    BY <2>1, <2>2, OutcomeStands
<1>3. ASSUME NEW j \in Parsed, PS!StartParser(j) PROVE UNCHANGED PS!Outcome!vars
  <2>1. /\ stage[j].pc = "ready" /\ plan' = plan /\ stage' = [stage EXCEPT ![j].pc = "waiting"]
        /\ thread' = [thread EXCEPT ![PS!Current(j)] = [thread[PS!Current(j)] EXCEPT !.pc = "queued"]]
        /\ progress' = [progress EXCEPT ![j].current = PS!Current(j)[2]]
        /\ Len(stage[j].results) + 1 <= Len(plan[j])
    BY <1>3 DEF PS!StartParser, PS!Set, PS!Current
  <2>2. /\ StageInv(j) /\ ParseTypes /\ stage[j] \in StageType /\ progress[j] \in ProgressType /\ MaxParsers \in Nat
        /\ Len(plan[j]) \in Nat /\ Len(plan[j]) <= MaxParsers /\ Len(stage[j].results) \in Nat
        /\ Recordings(j) = 1..Len(stage[j].results)
    BY PlansFit DEF ParseInv, Recordings
  <2>3. thread[PS!Current(j)].pc = "none"
    <3>1. Len(stage[j].results) + 1 \in 1..MaxParsers /\ Len(stage[j].results) + 1 \notin Recordings(j)
      BY <2>1, <2>2
    <3>2. ResultInv(j, Len(stage[j].results) + 1)
      BY <2>2, <3>1 DEF StageInv
    <3> QED
      BY <2>1, <3>1, <3>2 DEF ResultInv, PS!Current
  <2>4. \A u \in PS!Threads : thread[u].pc = "returned" => thread'[u] = thread[u]
    BY <2>1, <2>2, <2>3 DEF ParseTypes
  <2>5. /\ stage'[j].pc = "waiting" /\ stage'[j].results = stage[j].results /\ stage'[j].artefacts = stage[j].artefacts
        /\ \A k \in Parsed : k # j => stage'[k] = stage[k]
    BY <2>1, <2>2 DEF ParseTypes, StageType
  <2>6. \A k \in Parsed : progress'[k].done = progress[k].done /\ progress'[k].found = progress[k].found
    BY <2>1, <2>2 DEF ParseTypes, ProgressType
  <2>7. \A k \in Parsed : (PS!Ended(k)' <=> PS!Ended(k)) /\ (PS!Ended(k) => stage'[k].pc = stage[k].pc)
    BY <2>1, <2>5 DEF PS!Ended
  <2> QED
    BY <2>1, <2>4, <2>5, <2>6, <2>7, OutcomeStands
<1>4. ASSUME NEW j \in Parsed, PS!StageSteps(j), ~PS!StartParser(j) PROVE PS!Outcome!Next
  BY <1>4, ReturnsDecide, EndsConclude DEF PS!StageSteps, PS!Outcome!Next
<1> QED
  BY <1>1, <1>2, <1>3, <1>4 DEF PS!Next

\* Whatever threads that were given up do later, the stage decides each parser once and
\* for all, shows the client each decision as it falls, and hands on what those that
\* answered had found (parsing_stage.py, see ParsingOutcome).
THEOREM ParsingKeepsItsWord == PS!Sensible /\ PS!Spec => PS!ImplementsOutcome
<1> DEFINE Inv == PS!Sensible /\ ParseInv
<1>1. PS!Sensible /\ PS!Init => Inv /\ PS!Outcome!Init
  BY ParseInitHolds, OutcomeStarts
<1>2. Inv /\ [PS!Next]_PS!vars => Inv'
  BY ParseStepHolds DEF PS!Sensible
<1>3. Inv /\ [PS!Next]_PS!vars => [PS!Outcome!Next]_PS!Outcome!vars
  BY OutcomeSteps
<1> HIDE DEF Inv
<1> QED
  BY <1>1, <1>2, <1>3, PTL DEF PS!Spec, PS!ImplementsOutcome, PS!Outcome!Spec

====
