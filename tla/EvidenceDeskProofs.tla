-------------------------- MODULE EvidenceDeskProofs --------------------------
(***************************************************************************)
(* Proofs about EvidenceDesk for any number of overlapping calls, any      *)
(* contents of the file and any number of changes to it.                   *)
(*                                                                         *)
(* Times are what a status rests on, so the invariant first says that no   *)
(* two changes have one time. Of a call it says at every await what the    *)
(* status it once read still justifies, and what it may vouch for.         *)
(*                                                                         *)
(* The second part is about EvidenceGraph, what the evidence says together, *)
(* the third about Evaluation, how it compares with ground truth, the       *)
(* fourth about AiAnalysis, what the AI engine makes of the artefacts, the *)
(* fifth about Triage, what the rules make of them.                        *)
(***************************************************************************)
EXTENDS EvidenceDesk, Integers, FiniteSetTheorems, WellFoundedInduction, TLAPS

Content == Contents \cup {None}
Status  == EvidenceStatuses \cup {None}
ChangeType == [prev : Status, new : Status, at : Nat]
RowType    == [prev : Status, new : EvidenceStatuses, at : Nat, began : Nat]
CallType   == [pc : Steps, change : ChangeType, next : Steps, hash : Content, began : Nat]

Types ==
  /\ kind \in Kinds /\ file \in Content /\ edits \in 0..MaxEdits
  /\ record \in [known : BOOLEAN, status : EvidenceStatuses, original : Content]
  /\ meta \in Content /\ acquired \in Content
  /\ history \in Seq(RowType) /\ call \in [Calls -> CallType]

Rows  == 1..Len(history)
Open(k) == At(k, "writing")

\* No two changes, committed or still to be, have the same time, and no time is
\* without a later one.
TimesInv ==
  /\ \E b \in Nat : \A t \in Times : t <= b
  /\ \A i, j \in Rows : i # j => history[i].at # history[j].at
  /\ \A k \in Calls : Open(k) => \A i \in Rows : history[i].at # call[k].change.at
  /\ \A k, l \in Calls : Open(k) /\ Open(l) /\ k # l => call[k].change.at # call[l].change.at

\* Where a call has committed a change of its own, or begun without one.
Ahead == {"acquire", "enter", "check", "hashed", "kept", "audit", "again", "failing"}

\* A change that would leave a quarantine says so, or was decided before some
\* other change, or the quarantine has never been the current status.
Justified(c) ==
  \/ c.began < Len(history)
  \/ c.change.new = "quarantined"
  \/ c.change.prev = "quarantined" /\ c.change.new = "registered"
  \/ Len(history) = 0
  \/ history[Len(history)].new # "quarantined"
  \/ Overtaken(Len(history))

StatusOf(c) ==
  /\ c.began <= Len(history)
  /\ c.pc \in {"idle", "loaded", "saved"} => c.began = 0
  /\ c.pc \in Ahead => c.began < Len(history)
  /\ c.pc = "writing" =>
       /\ c.next = "audit" => c.began < Len(history)
       /\ c.next \in {"acquire", "enter", "check", "audit", "rejected", "done"}
       /\ c.change.new \in EvidenceStatuses
       /\ Justified(c)

\* What a call has hashed and kept, and the one that registers has still to do.
VouchOf(k, c) ==
  /\ c.pc \in {"hashed", "kept", "audit", "again"} \/ (c.pc = "writing" /\ c.next = "audit")
       => c.hash \in Valid
  /\ c.pc \in {"kept", "audit", "again"}
       \/ (c.pc = "writing" /\ (c.next = "audit" \/ c.change.new = "validated"))
       => meta \in Valid
  /\ c.pc \in {"loaded", "saved", "acquire"} \/ (c.pc = "writing" /\ c.next = "acquire")
       => kind[k] = "register" /\ acquired = None
  /\ c.pc = "loaded" => ~record.known
  /\ c.pc \in {"saved", "acquire", "access", "verified"} \/ (c.pc = "writing" /\ c.next = "acquire")
       => record.known
  /\ c.pc = "verified" => c.hash # None /\ c.hash \in {acquired, record.original}

IInv ==
  /\ Types /\ TimesInv
  /\ \A k \in Calls : StatusOf(call[k]) /\ VouchOf(k, call[k])
  /\ Len(history) > 0 => record.status = history[Len(history)].new
  /\ ~record.known => acquired = None
  /\ QuarantineHolds /\ ValidatedIsKept

-----------------------------------------------------------------------------
(* Times                                                                   *)

\* A bounded set of numbers has a greatest one: there is a least bound.
LEMMA Greatest ==
  ASSUME NEW S \in SUBSET Nat, S # {}, NEW b \in Nat, \A u \in S : u <= b
  PROVE  \E t \in S : \A u \in S : u <= t
<1> DEFINE R == OpToRel(<, Nat)
           B == {n \in Nat : \A u \in S : u <= n}
<1>1. B \subseteq Nat /\ B # {}
  OBVIOUS
<1>2. IsWellFoundedOn(R, Nat)
  BY NatLessThanWellFounded
<1>3. PICK t \in B : \A n \in B : ~ (<<n, t>> \in R)
  <2> HIDE DEF R, B
  <2> QED
    BY <1>1, <1>2, WFMin
<1>4. \A n \in B : ~ (n < t)
  BY <1>1, <1>3 DEF OpToRel
<1>5. CASE t \in S
  BY <1>5, <1>3
<1>6. CASE t \notin S
  <2>1. t \in Nat /\ \A u \in S : u <= t /\ u # t /\ u \in Nat
    BY <1>6, <1>3
  <2>2. PICK u \in S : TRUE
    OBVIOUS
  <2>3. t > 0
    BY <2>1, <2>2
  <2>4. t - 1 \in B
    BY <2>1, <2>3
  <2> QED
    BY <1>4, <2>1, <2>4
<1> QED
  BY <1>5, <1>6

\* What the types say of single rows and calls.
LEMMA Shapes ==
  ASSUME Types
  PROVE  /\ Len(history) \in Nat /\ DOMAIN history = Rows
         /\ \A i \in Rows : history[i] \in RowType
         /\ \A i \in Rows : history[i].at \in Nat /\ history[i].new \in EvidenceStatuses
         /\ \A k \in Calls : call[k] \in CallType
         /\ \A k \in Calls : call[k].change.at \in Nat /\ call[k].began \in Nat
<1>1. Len(history) \in Nat /\ DOMAIN history = Rows /\ \A i \in Rows : history[i] \in RowType
  BY DEF Types, Rows
<1>2. \A k \in Calls : call[k] \in CallType
  BY DEF Types
<1>3. \A r \in RowType : r.at \in Nat /\ r.new \in EvidenceStatuses
  BY DEF RowType
<1>4. \A c \in CallType : c.change.at \in Nat /\ c.began \in Nat
  BY DEF CallType, ChangeType
<1> QED
  BY <1>1, <1>2, <1>3, <1>4

\* The time of a new change is later than all that are known.
LEMMA NowIsLatest ==
  ASSUME Types, TimesInv, NEW c \in Calls
  PROVE  /\ Now \in Nat
         /\ \A i \in Rows : history[i].at < Now
         /\ \A k \in Calls : call[k].change.at < Now
<1>1. Times \in SUBSET Nat
  BY Shapes DEF Times
<1>2. PICK b \in Nat : \A u \in Times : u <= b
  BY DEF TimesInv
<1>3. Times # {}
  BY DEF Times
<1>4. \E t \in Times : \A u \in Times : u <= t
  BY <1>1, <1>2, <1>3, Greatest
<1>5. PICK t \in Times : Now = 1 + t /\ \A u \in Times : u <= t
  BY <1>4 DEF Now
<1>6. Now \in Nat /\ \A u \in Times : u < Now
  BY <1>1, <1>5
<1> QED
  BY <1>6, Shapes DEF Times

\* The current status is that of the row with the greatest time.
LEMMA CurrentRow ==
  ASSUME Types, TimesInv
  PROVE  /\ Len(history) = 0 => Current = record.status
         /\ Len(history) > 0 =>
              \E m \in Rows : /\ Current = history[m].new
                             /\ \A j \in Rows : history[j].at <= history[m].at
         /\ Current \in EvidenceStatuses
<1>1. CASE Len(history) = 0
  BY <1>1 DEF Types, Current
<1>2. CASE Len(history) > 0
  <2> DEFINE ats == {history[i].at : i \in Rows}
  <2>0. DOMAIN history = Rows /\ history # <<>> /\ Len(history) \in Nat
    BY <1>2 DEF Types, Rows
  <2>1. ats \in SUBSET Nat /\ ats # {}
    BY <1>2, <2>0, Shapes DEF Rows
  <2>2. PICK b \in Nat : \A u \in ats : u <= b
    BY <2>0 DEF TimesInv, Times
  <2>3. PICK t \in ats : \A u \in ats : u <= t
    <3> HIDE DEF ats
    <3> QED
      BY <2>1, <2>2, Greatest
  <2>4. \E i \in Rows : \A j \in Rows : history[j].at <= history[i].at
    BY <2>3
  <2>5. PICK m \in Rows : /\ m = CHOOSE i \in Rows : \A j \in Rows : history[j].at <= history[i].at
                          /\ \A j \in Rows : history[j].at <= history[m].at
    BY <2>4
  <2>6. m \in Rows /\ Current = history[m].new /\ \A j \in Rows : history[j].at <= history[m].at
    BY <2>0, <2>5 DEF Current
  <2> QED
    BY <1>2, <2>6, Shapes
<1> QED
  BY <1>1, <1>2 DEF Types

\* Whoever reads another status while the last change was a quarantine reads the
\* status of an overtaking row.
LEMMA OtherStatus ==
  ASSUME Types, TimesInv, Len(history) > 0, history[Len(history)].new = "quarantined",
         Current # "quarantined"
  PROVE  Overtaken(Len(history))
<1>1. PICK m \in Rows : /\ Current = history[m].new
                        /\ \A j \in Rows : history[j].at <= history[m].at
  BY CurrentRow
<1>2. Len(history) \in Rows /\ m # Len(history)
  BY <1>1 DEF Rows, Types
<1>3. history[m].at # history[Len(history)].at
  BY <1>1, <1>2 DEF TimesInv
<1>4. history[m].at > history[Len(history)].at
  BY <1>1, <1>2, <1>3, Shapes
<1> QED
  BY <1>2, <1>4 DEF Overtaken, Rows

-----------------------------------------------------------------------------
(* What a call becomes                                                     *)

\* A call that goes on, or ends, leaves its change behind.
LEMMA GotoCall ==
  ASSUME Types, NEW k \in Calls, NEW w \in Steps, Goto(k, w)
  PROVE  \E c \in CallType :
           /\ call' = [call EXCEPT ![k] = c] /\ c.pc = w /\ c.change.at = 0
           /\ w \in Final => c.began = 0
           /\ w \notin Final => c.began = call[k].began /\ c.hash = call[k].hash
<1> DEFINE d == [call[k] EXCEPT !.pc = w, !.change = NoChange]
           e == [Idle EXCEPT !.pc = w]
<1>1. call[k] \in CallType /\ NoChange \in ChangeType /\ NoChange.at = 0
  BY DEF Types, NoChange, ChangeType, Status
<1>2. d \in CallType /\ d.pc = w /\ d.change = NoChange /\ d.began = call[k].began /\ d.hash = call[k].hash
  BY <1>1 DEF CallType
<1>3. e \in CallType /\ e.pc = w /\ e.change = NoChange /\ e.began = 0
  BY <1>1 DEF CallType, Idle, Steps, Final, Content
<1>4. CASE w \in Final
  <2>1. call' = [call EXCEPT ![k] = e]
    BY <1>4 DEF Goto
  <2> HIDE DEF e
  <2> QED
    BY <1>1, <1>3, <1>4, <2>1
<1>5. CASE w \notin Final
  <2>1. call' = [call EXCEPT ![k] = d]
    BY <1>5, <1>1 DEF Goto, Types, CallType
  <2> HIDE DEF d
  <2> QED
    BY <1>1, <1>2, <1>5, <2>1
<1> QED
  BY <1>4, <1>5

\* A call that decides on a change has still to commit it.
LEMMA ChangeCall ==
  ASSUME Types, TimesInv, NEW k \in Calls, NEW prev \in Status, NEW new \in EvidenceStatuses,
         NEW next \in Steps, NEW began \in Nat, Change(k, prev, new, next, began)
  PROVE  \E c \in CallType :
           /\ call' = [call EXCEPT ![k] = c] /\ c.pc = "writing" /\ c.change.at = Now
           /\ c.change.prev = prev /\ c.change.new = new /\ c.next = next
           /\ c.began = began /\ c.hash = call[k].hash
<1> DEFINE h == [prev |-> prev, new |-> new, at |-> Now]
           c == [call[k] EXCEPT !.pc = "writing", !.next = next, !.began = began, !.change = h]
<1>1. call[k] \in CallType /\ Now \in Nat
  BY NowIsLatest DEF Types
<1>2. h \in ChangeType /\ h.prev = prev /\ h.new = new /\ h.at = Now
  BY <1>1 DEF ChangeType, Status
<1>3. call' = [call EXCEPT ![k] = c]
  BY <1>1 DEF Change, Types, CallType
<1> HIDE DEF h
<1>4. /\ c \in CallType /\ c.pc = "writing" /\ c.change = h
      /\ c.next = next /\ c.began = began /\ c.hash = call[k].hash
  BY <1>1, <1>2 DEF CallType, Steps
<1> HIDE DEF c
<1> QED
  BY <1>2, <1>3, <1>4

-----------------------------------------------------------------------------
(* Steps that commit nothing                                               *)

\* A step of one call that commits no change keeps the invariant if what it
\* leaves behind is grounded.
LEMMA Keeps ==
  ASSUME IInv, NEW k \in Calls, NEW c \in CallType, call' = [call EXCEPT ![k] = c],
         UNCHANGED <<kind, history>>, file' \in Content, edits' \in 0..MaxEdits,
         record' \in [known : BOOLEAN, status : EvidenceStatuses, original : Content],
         record'.status = record.status, meta' \in Content, acquired' \in Content,
         ~record'.known => acquired' = None, meta \in Valid => meta' \in Valid,
         c.change.at \in {0, call[k].change.at, Now}, c.pc = "writing" => c.change.at = Now,
         StatusOf(c), \A x \in Calls : VouchOf(x, call[x])'
  PROVE  IInv'
<1> USE DEF IInv
<1>1. Types'
  BY DEF Types
<1>2. Rows' = Rows /\ call'[k] = c /\ \A x \in Calls : x # k => call'[x] = call[x]
  BY DEF Types, Rows
<1>3. TimesInv'
  <2>1. PICK b \in Nat : \A t \in Times : t <= b
    BY DEF TimesInv
  <2>2. /\ Now \in Nat /\ \A i \in Rows : history[i].at < Now
        /\ \A x \in Calls : call[x].change.at < Now
    BY NowIsLatest
  <2>3. \A t \in Times' : t <= Now
    <3>1. \A i \in Rows : history[i].at <= Now
      BY <2>2, Shapes
    <3>2. \A x \in Calls : call'[x].change.at <= Now
      BY <1>2, <2>2, Shapes
    <3> QED
      BY <1>2, <3>1, <3>2, Shapes DEF Times
  <2>4. \A i, j \in Rows : i # j => history[i].at # history[j].at
    BY DEF TimesInv
  <2>5. ASSUME NEW x \in Calls, call'[x].pc = "writing", NEW i \in Rows
        PROVE  history[i].at # call'[x].change.at
    <3>1. CASE x = k
      BY <1>2, <2>2, <2>5, <3>1, Shapes
    <3>2. CASE x # k
      BY <1>2, <2>5, <3>2 DEF TimesInv, Open, At
    <3> QED
      BY <3>1, <3>2
  <2>6. ASSUME NEW x \in Calls, NEW y \in Calls, call'[x].pc = "writing", call'[y].pc = "writing", x # y
        PROVE  call'[x].change.at # call'[y].change.at
    <3>1. CASE x = k
      BY <1>2, <2>2, <2>6, <3>1, Shapes
    <3>2. CASE y = k
      BY <1>2, <2>2, <2>6, <3>2, Shapes
    <3>3. CASE x # k /\ y # k
      BY <1>2, <2>6, <3>3 DEF TimesInv, Open, At
    <3> QED
      BY <3>1, <3>2, <3>3
  <2> QED
    BY <1>2, <2>2, <2>3, <2>4, <2>5, <2>6 DEF TimesInv, Open, At
<1>4. \A x \in Calls : StatusOf(call[x])'
  <2>1. \A x \in Calls : StatusOf(call'[x])
    BY <1>2
  <2> QED
    BY <2>1 DEF StatusOf, Justified, Overtaken
<1>5. QuarantineHolds' /\ ValidatedIsKept'
  BY DEF QuarantineHolds, ValidatedIsKept, Overtaken, Overlapped
<1> QED
  BY <1>1, <1>3, <1>4, <1>5

\* In particular if nothing that is stored changes.
LEMMA Quiet ==
  ASSUME IInv, NEW k \in Calls, NEW c \in CallType, call' = [call EXCEPT ![k] = c],
         UNCHANGED <<file, edits, stored>>,
         c.change.at \in {0, call[k].change.at, Now}, c.pc = "writing" => c.change.at = Now,
         StatusOf(c), VouchOf(k, c)
  PROVE  IInv'
<1>1. Types /\ \A x \in Calls : VouchOf(x, call[x])
  BY DEF IInv
<1>2. call'[k] = c /\ \A x \in Calls : x # k => call'[x] = call[x]
  BY <1>1 DEF Types
<1>3. \A x \in Calls : VouchOf(x, call'[x])
  BY <1>1, <1>2
<1>4. \A x \in Calls : VouchOf(x, call[x])'
  BY <1>3 DEF VouchOf, stored
<1>5. /\ file' \in Content /\ edits' \in 0..MaxEdits /\ meta' \in Content /\ acquired' \in Content
      /\ record' \in [known : BOOLEAN, status : EvidenceStatuses, original : Content]
  BY <1>1 DEF Types, stored
<1> QED
  BY <1>4, <1>5, Keeps DEF stored, IInv

\* A call that goes on without a change.
LEMMA GoesOn ==
  ASSUME IInv, NEW k \in Calls, NEW w \in Steps, Goto(k, w), UNCHANGED <<file, edits, stored>>,
         w \in Final \ {"verified"}
           \/ (w = "access" /\ record.known)
           \/ (w = "failing" /\ call[k].began < Len(history))
           \/ (w = "again" /\ At(k, "audit"))
  PROVE  IInv'
<1>1. PICK c \in CallType :
        /\ call' = [call EXCEPT ![k] = c] /\ c.pc = w /\ c.change.at = 0
        /\ w \in Final => c.began = 0
        /\ w \notin Final => c.began = call[k].began /\ c.hash = call[k].hash
  BY GotoCall DEF IInv
<1>2. StatusOf(call[k]) /\ VouchOf(k, call[k]) /\ Len(history) \in Nat
  BY Shapes DEF IInv
<1>3. StatusOf(c)
  BY <1>1, <1>2 DEF StatusOf, Ahead, Final, At
<1>4. VouchOf(k, c)
  BY <1>1, <1>2 DEF VouchOf, Final, At
<1>5. c.pc # "writing"
  BY <1>1 DEF Final
<1> QED
  BY <1>1, <1>3, <1>4, <1>5, Quiet

\* A call that decides on a change.
LEMMA Decides ==
  ASSUME IInv, NEW k \in Calls, NEW prev \in Status, NEW new \in EvidenceStatuses,
         NEW next \in {"acquire", "enter", "check", "audit", "rejected", "done"}, NEW began \in Nat,
         Change(k, prev, new, next, began), UNCHANGED <<file, edits, stored>>, began <= Len(history),
         began < Len(history) \/ new = "quarantined" \/ (prev = "quarantined" /\ new = "registered")
           \/ Len(history) = 0 \/ history[Len(history)].new # "quarantined" \/ Overtaken(Len(history)),
         next = "audit" => At(k, "kept") /\ began < Len(history), new = "validated" => At(k, "kept"),
         next = "acquire" => At(k, "saved")
  PROVE  IInv'
<1>1. next \in Steps
  BY DEF Steps, Final
<1>2. PICK c \in CallType :
        /\ call' = [call EXCEPT ![k] = c] /\ c.pc = "writing" /\ c.change.at = Now
        /\ c.change.prev = prev /\ c.change.new = new /\ c.next = next
        /\ c.began = began /\ c.hash = call[k].hash
  BY <1>1, ChangeCall DEF IInv
<1>3. StatusOf(call[k]) /\ VouchOf(k, call[k]) /\ Len(history) \in Nat
  BY Shapes DEF IInv
<1>4. StatusOf(c)
  BY <1>2, <1>3 DEF StatusOf, Justified, Ahead
<1>5. VouchOf(k, c)
  <2>1. c.pc = "writing"
    BY <1>2
  <2>5. At(k, "kept") => call[k].hash \in Valid /\ meta \in Valid
    <3>1. call[k].pc = "kept" => call[k].pc \in {"kept", "audit", "again"}
      OBVIOUS
    <3>2. call[k].pc = "kept" => call[k].hash \in Valid
      BY <1>3 DEF VouchOf
    <3>3. call[k].pc = "kept" => meta \in Valid
      BY <1>3, <3>1 DEF VouchOf
    <3> QED
      BY <3>2, <3>3 DEF At
  <2>2. next = "audit" => call[k].hash \in Valid /\ meta \in Valid
    BY <2>5
  <2>3. new = "validated" => meta \in Valid
    BY <2>5
  <2>4. next = "acquire" => kind[k] = "register" /\ acquired = None /\ record.known
    BY <1>3 DEF VouchOf, At
  <2> QED
    BY <1>2, <2>1, <2>2, <2>3, <2>4 DEF VouchOf
<1> QED
  BY <1>2, <1>4, <1>5, Quiet

\* Whoever looks at the current status before it decides may leave a quarantine
\* only if it is not that.
LEMMA Looked ==
  ASSUME IInv, Current # "quarantined"
  PROVE  Len(history) = 0 \/ history[Len(history)].new # "quarantined" \/ Overtaken(Len(history))
  BY OtherStatus, Shapes DEF IInv

-----------------------------------------------------------------------------
(* The steps that commit nothing, one by one                               *)

\* What the invariant says of the place a call is at.
LEMMA Facts ==
  ASSUME IInv, NEW k \in Calls
  PROVE  /\ call[k].began \in Nat /\ Len(history) \in Nat /\ call[k].began <= Len(history)
         /\ call[k].pc \in {"idle", "loaded", "saved"} => call[k].began = 0
         /\ call[k].pc \in Ahead => call[k].began < Len(history)
         /\ call[k].pc \in {"hashed", "kept", "audit", "again"} => call[k].hash \in Valid
         /\ call[k].pc \in {"kept", "audit", "again"} => meta \in Valid
         /\ call[k].pc \in {"loaded", "saved", "acquire"} => kind[k] = "register" /\ acquired = None
         /\ call[k].pc = "loaded" => ~record.known
         /\ call[k].pc \in {"saved", "acquire", "access"} => record.known
         /\ call[k] \in CallType
<1>1. StatusOf(call[k]) /\ VouchOf(k, call[k])
  BY DEF IInv
<1>2. call[k].began \in Nat /\ Len(history) \in Nat /\ call[k] \in CallType
  BY Shapes DEF IInv
<1>3. /\ call[k].began <= Len(history)
      /\ call[k].pc \in {"idle", "loaded", "saved"} => call[k].began = 0
      /\ call[k].pc \in Ahead => call[k].began < Len(history)
  BY <1>1 DEF StatusOf
<1>4. /\ call[k].pc \in {"hashed", "kept", "audit", "again"} => call[k].hash \in Valid
      /\ call[k].pc \in {"kept", "audit", "again"} => meta \in Valid
      /\ call[k].pc \in {"loaded", "saved", "acquire"} => kind[k] = "register" /\ acquired = None
      /\ call[k].pc = "loaded" => ~record.known
      /\ call[k].pc \in {"saved", "acquire", "access"} => record.known
  BY <1>1 DEF VouchOf
<1> QED
  BY <1>2, <1>3, <1>4

LEMMA FailedKeeps ==
  ASSUME IInv, NEW k \in Calls, CommitFails(k)
  PROVE  IInv'
<1>1. StatusOf(call[k]) /\ call[k].pc = "writing"
  BY DEF IInv, CommitFails, At
<1>2. CASE call[k].next = "audit"
  BY <1>1, <1>2, GoesOn DEF CommitFails, StatusOf, Steps
<1>3. CASE call[k].next # "audit"
  BY <1>3, GoesOn DEF CommitFails, Steps, Final
<1> QED
  BY <1>2, <1>3

LEMMA LoadKeeps ==
  ASSUME IInv, NEW k \in Calls, Load(k)
  PROVE  IInv'
<1> DEFINE w == IF file = None THEN "failed" ELSE "loaded"
           c == [call[k] EXCEPT !.pc = w, !.hash = file]
<1>1. /\ call[k].pc = "idle" /\ kind[k] = "register" /\ ~record.known /\ acquired = None
      /\ call[k] \in CallType /\ call[k].began = 0 /\ file \in Content /\ Len(history) \in Nat
  BY Facts DEF IInv, Load, At, Types
<1>2. call' = [call EXCEPT ![k] = c]
  BY <1>1 DEF Load, IInv, Types, CallType
<1>3. /\ c \in CallType /\ c.pc \in {"failed", "loaded"} /\ c.change = call[k].change
      /\ c.began = 0
  BY <1>1 DEF CallType, Steps, Final
<1> HIDE DEF c, w
<1>4. StatusOf(c)
  BY <1>1, <1>3 DEF StatusOf, Ahead
<1>5. VouchOf(k, c)
  BY <1>1, <1>3 DEF VouchOf
<1> QED
  BY <1>2, <1>3, <1>4, <1>5, Quiet DEF Load

LEMMA RegisteredKeeps ==
  ASSUME IInv, NEW k \in Calls, Registered(k)
  PROVE  IInv'
<1>1. call[k].began = 0 /\ call[k].pc = "saved" /\ Len(history) \in Nat
  BY Facts DEF Registered, At
<1>2. Change(k, None, "registered", "acquire", 0)
  BY <1>1 DEF Registered, Propose
<1>3. 0 < Len(history) \/ Len(history) = 0
  BY <1>1
<1> QED
  BY <1>1, <1>2, <1>3, Decides DEF Registered, At, Status, EvidenceStatuses

LEMMA RevalidateKeeps ==
  ASSUME IInv, NEW k \in Calls, Revalidate(k)
  PROVE  IInv'
<1>1. Len(history) \in Nat
  BY Facts
<1>2. CASE Current = "quarantined"
  <2>1. Change(k, "quarantined", "registered", "enter", Len(history))
    BY <1>2 DEF Revalidate, Releases, Decide
  <2> QED
    BY <1>1, <2>1, Decides DEF Revalidate, Status, EvidenceStatuses
<1>3. CASE Current # "quarantined"
  <2>1. Change(k, "registered", "validating", "check", Len(history))
    BY <1>3 DEF Revalidate, Releases, Decide
  <2> QED
    BY <1>1, <1>3, <2>1, Looked, Decides DEF Revalidate, Status, EvidenceStatuses
<1> QED
  BY <1>2, <1>3

LEMMA EnterKeeps ==
  ASSUME IInv, NEW k \in Calls, Enter(k)
  PROVE  IInv'
<1>1. call[k].began \in Nat /\ Len(history) \in Nat /\ call[k].began < Len(history)
  BY Facts DEF Enter, At, Ahead
<1>2. Change(k, "registered", "validating", "check", call[k].began)
  BY DEF Enter, Propose
<1> QED
  BY <1>1, <1>2, Decides DEF Enter, Status, EvidenceStatuses

LEMMA CheckKeeps ==
  ASSUME IInv, NEW k \in Calls, Check(k)
  PROVE  IInv'
<1> DEFINE w == IF file \in Valid THEN "hashed" ELSE "failing"
           c == [call[k] EXCEPT !.pc = w, !.hash = file]
<1>1. /\ call[k] \in CallType /\ call[k].began < Len(history) /\ call[k].began \in Nat
      /\ Len(history) \in Nat /\ file \in Content
  BY Facts DEF IInv, Check, At, Types, Ahead
<1>2. call' = [call EXCEPT ![k] = c]
  BY <1>1 DEF Check, IInv, Types, CallType
<1>3. /\ c \in CallType /\ c.pc = w /\ c.change = call[k].change
      /\ c.began = call[k].began /\ c.hash = file
  BY <1>1 DEF CallType, Steps
<1>4. w \in {"hashed", "failing"} /\ (w = "hashed" => file \in Valid)
  OBVIOUS
<1> HIDE DEF c, w
<1>5. StatusOf(c)
  BY <1>1, <1>3, <1>4 DEF StatusOf, Ahead
<1>6. VouchOf(k, c)
  BY <1>1, <1>3, <1>4 DEF VouchOf
<1> QED
  BY <1>2, <1>3, <1>4, <1>5, <1>6, Quiet DEF Check

LEMMA ValidatedKeeps ==
  ASSUME IInv, NEW k \in Calls, Validated(k)
  PROVE  IInv'
<1>1. call[k].began \in Nat /\ Len(history) \in Nat /\ call[k].began < Len(history)
  BY Facts DEF Validated, At, Ahead
<1>2. Change(k, "validating", "validated", "audit", call[k].began)
  BY DEF Validated, Propose
<1> QED
  BY <1>1, <1>2, Decides DEF Validated, Status, EvidenceStatuses

LEMMA RejectKeeps ==
  ASSUME IInv, NEW k \in Calls, Reject(k)
  PROVE  IInv'
<1>1. /\ call[k].began \in Nat /\ Len(history) \in Nat /\ call[k].began < Len(history)
      /\ Current \in Status
  BY Facts, CurrentRow DEF Reject, At, Ahead, IInv, Status
<1>2. CASE Current = "quarantined"
  BY <1>2, GoesOn DEF Reject, Steps, Final
<1>3. CASE Current # "quarantined"
  <2>1. Change(k, Current, "quarantined", "rejected", call[k].began)
    BY <1>3 DEF Reject, Propose
  <2> QED
    BY <1>1, <2>1, Decides DEF Reject, EvidenceStatuses
<1> QED
  BY <1>2, <1>3

\* A quarantined item is not moved by the pipeline.
LEMMA MoveKeeps ==
  ASSUME IInv, NEW k \in Calls, Move(k)
  PROVE  IInv'
<1>1. Len(history) \in Nat /\ Current \in EvidenceStatuses /\ kind[k] \in {"processing", "processed"}
  BY Facts, CurrentRow DEF IInv, Move, Starts
<1>2. CASE EvidenceMayMove(Current, kind[k])
  <2>1. Current # "quarantined"
    BY <1>1, <1>2 DEF EvidenceMayMove, EvidenceNext
  <2>2. Change(k, Current, kind[k], "done", Len(history))
    BY <1>2 DEF Move, Decide
  <2>3. UNCHANGED <<file, edits, stored>>
    BY DEF Move
  <2>4. kind[k] \in EvidenceStatuses /\ kind[k] # "validated" /\ Current \in Status
    BY <1>1 DEF EvidenceStatuses, Status
  <2> QED
    BY <1>1, <2>1, <2>2, <2>3, <2>4, Looked, Decides
<1>3. CASE ~EvidenceMayMove(Current, kind[k])
  BY <1>3, GoesOn DEF Move, Steps, Final
<1> QED
  BY <1>2, <1>3

LEMMA QuarantineKeeps ==
  ASSUME IInv, NEW k \in Calls, Quarantine(k)
  PROVE  IInv'
<1>1. Len(history) \in Nat /\ Current \in Status
  BY Facts, CurrentRow DEF IInv, Status
<1>2. CASE Current = "quarantined"
  BY <1>2, GoesOn DEF Quarantine, Steps, Final
<1>3. CASE Current # "quarantined"
  <2>1. Change(k, Current, "quarantined", "done", Len(history))
    BY <1>3 DEF Quarantine, Decide
  <2> QED
    BY <1>1, <2>1, Decides DEF Quarantine, EvidenceStatuses
<1> QED
  BY <1>2, <1>3

LEMMA AuditKeeps ==
  ASSUME IInv, NEW k \in Calls, Audit(k)
  PROVE  IInv'
<1>1. At(k, "audit") /\ call[k].began < Len(history)
  BY Facts DEF Audit, At, Ahead
<1> QED
  BY <1>1, GoesOn DEF Audit, Steps

LEMMA CompareKeeps ==
  ASSUME IInv, NEW k \in Calls, Compare(k)
  PROVE  IInv'
  BY GoesOn DEF Compare, Starts, Steps, Final

LEMMA AccessKeeps ==
  ASSUME IInv, NEW k \in Calls, Access(k)
  PROVE  IInv'
<1> DEFINE v == [Idle EXCEPT !.pc = "verified", !.hash = file]
           f == [Idle EXCEPT !.pc = "failed"]
<1>1. record.known /\ file \in Content /\ NoChange \in ChangeType /\ NoChange.at = 0 /\ Len(history) \in Nat
  BY Facts DEF IInv, Access, At, Types, NoChange, ChangeType, Status
<1>2. v \in CallType /\ v.pc = "verified" /\ v.change = NoChange /\ v.began = 0 /\ v.hash = file
  BY <1>1 DEF CallType, Idle, Steps, Final, Content
<1>3. f \in CallType /\ f.pc = "failed" /\ f.change = NoChange /\ f.began = 0
  BY <1>1 DEF CallType, Idle, Steps, Final, Content
<1>4. Accepts => file # None /\ file \in {acquired, record.original}
  BY DEF Accepts, Baseline
<1>5. PICK c : call' = [call EXCEPT ![k] = c] /\ ((c = v /\ Accepts) \/ c = f)
  <2> HIDE DEF Accepts
  <2>1. CASE Accepts
    BY <2>1 DEF Access
  <2>2. CASE ~Accepts
    BY <2>2 DEF Access
  <2> QED
    BY <2>1, <2>2
<1> HIDE DEF v, f
<1>6. c \in CallType /\ c.change.at = 0 /\ c.began = 0 /\ c.pc \in {"verified", "failed"}
  BY <1>1, <1>2, <1>3, <1>5
<1>7. c.pc = "verified" => c.hash # None /\ c.hash \in {acquired, record.original}
  BY <1>2, <1>3, <1>4, <1>5
<1>8. StatusOf(c)
  BY <1>1, <1>6 DEF StatusOf, Ahead
<1>9. VouchOf(k, c)
  BY <1>1, <1>6, <1>7 DEF VouchOf
<1> QED
  BY <1>5, <1>6, <1>8, <1>9, Quiet DEF Access

-----------------------------------------------------------------------------
(* The steps that store something                                          *)

\* Only one call registers.
LEMMA OneRegisters ==
  ASSUME IInv, NEW k \in Calls, NEW l \in Calls, kind[k] = "register", kind[l] = "register"
  PROVE  k = l
  BY DeskAssumption DEF IInv, Types

LEMMA SaveRecordKeeps ==
  ASSUME IInv, NEW k \in Calls, SaveRecord(k)
  PROVE  IInv'
<1>1. PICK c \in CallType :
        /\ call' = [call EXCEPT ![k] = c] /\ c.pc = "saved" /\ c.change.at = 0
        /\ c.began = call[k].began /\ c.hash = call[k].hash
  BY GotoCall DEF IInv, SaveRecord, Steps, Final
<1>2. /\ call[k].pc = "loaded" /\ kind[k] = "register" /\ acquired = None /\ ~record.known
      /\ call[k].began = 0 /\ Len(history) \in Nat /\ call[k].hash \in Content
  BY Facts DEF SaveRecord, At, CallType
<1>3. /\ record' \in [known : BOOLEAN, status : EvidenceStatuses, original : Content]
      /\ record'.known = TRUE /\ record'.status = record.status
  BY <1>2 DEF IInv, Types, SaveRecord
<1>4. StatusOf(c)
  BY <1>1, <1>2 DEF StatusOf, Ahead
<1>5. \A x \in Calls : VouchOf(x, call[x])'
  <2>1. call'[k] = c /\ \A x \in Calls : x # k => call'[x] = call[x]
    BY <1>1 DEF IInv, Types
  <2>2. VouchOf(k, c)'
    BY <1>1, <1>2, <1>3 DEF VouchOf, SaveRecord
  <2>3. ASSUME NEW x \in Calls, x # k
        PROVE  VouchOf(x, call[x])'
    <3>1. VouchOf(x, call[x]) /\ kind[x] # "register"
      BY <1>2, <2>3, OneRegisters DEF IInv
    <3>2. call'[x].pc \notin {"loaded", "saved", "acquire", "access", "verified"}
          /\ ~(call'[x].pc = "writing" /\ call'[x].next = "acquire")
      BY <1>2, <2>1, <2>3, <3>1 DEF VouchOf
    <3>3. VouchOf(x, call'[x])
      BY <2>1, <2>3, <3>1
    <3> QED
      BY <3>2, <3>3 DEF VouchOf, SaveRecord
  <2> QED
    BY <2>1, <2>2, <2>3 DEF VouchOf
<1> QED
  BY <1>1, <1>3, <1>4, <1>5, Keeps DEF IInv, Types, SaveRecord

LEMMA AcquireKeeps ==
  ASSUME IInv, NEW k \in Calls, Acquire(k)
  PROVE  IInv'
<1>1. CASE file = None
  BY <1>1, GoesOn DEF Acquire, Steps, Final, stored
<1>2. CASE file # None
  <2>1. PICK c \in CallType :
          /\ call' = [call EXCEPT ![k] = c] /\ c.pc = "enter" /\ c.change.at = 0
          /\ c.began = call[k].began /\ c.hash = call[k].hash
    BY <1>2, GotoCall DEF IInv, Acquire, Steps, Final
  <2>2. /\ call[k].pc = "acquire" /\ kind[k] = "register" /\ acquired = None /\ record.known
        /\ call[k].began < Len(history) /\ call[k].began \in Nat /\ Len(history) \in Nat
    BY Facts DEF Acquire, At, Ahead
  <2>3. acquired' = file /\ file \in Content
    BY <1>2 DEF Acquire, IInv, Types
  <2>4. StatusOf(c)
    BY <2>1, <2>2 DEF StatusOf, Ahead
  <2>5. \A x \in Calls : VouchOf(x, call[x])'
    <3>1. call'[k] = c /\ \A x \in Calls : x # k => call'[x] = call[x]
      BY <2>1 DEF IInv, Types
    <3>2. VouchOf(k, c)'
      BY <2>1, <2>2 DEF VouchOf, Acquire
    <3>3. ASSUME NEW x \in Calls, x # k
          PROVE  VouchOf(x, call[x])'
      <4>1. VouchOf(x, call[x]) /\ kind[x] # "register"
        BY <2>2, <3>3, OneRegisters DEF IInv
      <4>2. call'[x].pc \notin {"loaded", "saved", "acquire"}
            /\ ~(call'[x].pc = "writing" /\ call'[x].next = "acquire")
        BY <2>2, <3>1, <3>3, <4>1 DEF VouchOf
      <4>3. VouchOf(x, call'[x])
        BY <3>1, <3>3, <4>1
      <4>4. call'[x].pc = "verified" => call'[x].hash # None /\ call'[x].hash = record.original
        BY <2>2, <4>3 DEF VouchOf
      <4> QED
        BY <4>2, <4>3, <4>4 DEF VouchOf, Acquire
    <3> QED
      BY <3>1, <3>2, <3>3 DEF VouchOf
  <2> QED
    BY <2>1, <2>2, <2>3, <2>4, <2>5, Keeps DEF IInv, Types, Acquire
<1> QED
  BY <1>1, <1>2

\* Metadata is only ever replaced by that of an acceptable file.
LEMMA MetaKeeps ==
  ASSUME IInv, NEW k \in Calls, NEW w \in {"kept", "done"}, call[k].pc \in {"hashed", "again"},
         meta' = call[k].hash, Goto(k, w), UNCHANGED <<kind, file, edits, record, acquired, history>>
  PROVE  IInv'
<1>1. PICK c \in CallType :
        /\ call' = [call EXCEPT ![k] = c] /\ c.pc = w /\ c.change.at = 0
        /\ w = "done" => c.began = 0
        /\ w = "kept" => c.began = call[k].began /\ c.hash = call[k].hash
  BY GotoCall DEF IInv, Steps, Final
<1>2. /\ call[k].began < Len(history) /\ call[k].began \in Nat /\ Len(history) \in Nat
      /\ call[k].hash \in Valid
  BY Facts DEF Ahead
<1>3. meta' \in Valid /\ meta' \in Content
  BY <1>2, DeskAssumption DEF Content
<1>4. StatusOf(c)
  BY <1>1, <1>2 DEF StatusOf, Ahead
<1>5. \A x \in Calls : VouchOf(x, call[x])'
  <2>1. call'[k] = c /\ \A x \in Calls : x # k => call'[x] = call[x]
    BY <1>1 DEF IInv, Types
  <2>2. VouchOf(k, c)'
    BY <1>1, <1>2, <1>3 DEF VouchOf
  <2>3. ASSUME NEW x \in Calls, x # k
        PROVE  VouchOf(x, call[x])'
    <3>1. VouchOf(x, call'[x])
      BY <2>1, <2>3 DEF IInv
    <3> QED
      BY <1>3, <3>1 DEF VouchOf
  <2> QED
    BY <2>1, <2>2, <2>3 DEF VouchOf
<1> QED
  BY <1>1, <1>2, <1>3, <1>4, <1>5, Keeps DEF IInv, Types

LEMMA KeepMetadataKeeps ==
  ASSUME IInv, NEW k \in Calls, KeepMetadata(k)
  PROVE  IInv'
<1>1. call[k].pc = "hashed" /\ call[k].began < Len(history)
  BY Facts DEF KeepMetadata, At, Ahead
<1>2. CASE meta' = call[k].hash /\ Goto(k, "kept")
  BY <1>1, <1>2, MetaKeeps DEF KeepMetadata
<1>3. CASE meta' = meta /\ Goto(k, "failing")
  BY <1>1, <1>3, GoesOn DEF KeepMetadata, stored, Steps
<1> QED
  BY <1>2, <1>3 DEF KeepMetadata

LEMMA KeepAgainKeeps ==
  ASSUME IInv, NEW k \in Calls, KeepAgain(k)
  PROVE  IInv'
<1>1. call[k].pc = "again"
  BY DEF KeepAgain, At
<1>2. CASE meta' = call[k].hash /\ Goto(k, "done")
  BY <1>1, <1>2, MetaKeeps DEF KeepAgain
<1>3. CASE meta' = meta /\ Goto(k, "failed")
  BY <1>1, <1>3, GoesOn DEF KeepAgain, stored, Steps, Final
<1> QED
  BY <1>2, <1>3 DEF KeepAgain

\* The file may change at any moment: no call looks back at it.
LEMMA EditKeeps ==
  ASSUME IInv, Edit \/ UNCHANGED vars
  PROVE  IInv'
<1>1. UNCHANGED <<kind, record, meta, acquired, history, call>>
  BY DEF Edit, stored, vars
<1>2. file' \in Content /\ edits' \in 0..MaxEdits
  BY DeskAssumption DEF IInv, Types, Edit, vars, Content
<1>3. Types'
  BY <1>1, <1>2 DEF IInv, Types
<1>4. TimesInv'
  BY <1>1 DEF IInv, TimesInv, Times, Rows, Open, At
<1>5. \A x \in Calls : StatusOf(call[x])' /\ VouchOf(x, call[x])'
  BY <1>1 DEF IInv, StatusOf, VouchOf, Justified, Overtaken
<1>6. QuarantineHolds' /\ ValidatedIsKept'
  BY <1>1 DEF IInv, QuarantineHolds, ValidatedIsKept, Overtaken, Overlapped
<1> QED
  BY <1>1, <1>3, <1>4, <1>5, <1>6 DEF IInv

-----------------------------------------------------------------------------
(* The commit of a change                                                  *)

LEMMA CommitKeeps ==
  ASSUME IInv, NEW k \in Calls, Commit(k)
  PROVE  IInv'
<1> DEFINE n == Len(history)
           r == [prev |-> call[k].change.prev, new |-> call[k].change.new,
                 at |-> call[k].change.at, began |-> call[k].began]
<1>1. /\ call[k].pc = "writing" /\ call[k] \in CallType /\ StatusOf(call[k]) /\ VouchOf(k, call[k])
      /\ n \in Nat /\ call[k].began \in Nat /\ call[k].began <= n /\ call[k].change.at \in Nat
  BY Facts, Shapes DEF IInv, Commit, At
<1>2. /\ call[k].next \in {"acquire", "enter", "check", "audit", "rejected", "done"}
      /\ call[k].change.new \in EvidenceStatuses /\ Justified(call[k])
  BY <1>1 DEF StatusOf
<1>3. PICK c \in CallType :
        /\ call' = [call EXCEPT ![k] = c] /\ c.pc = call[k].next /\ c.change.at = 0
        /\ c.pc \in {"rejected", "done"} => c.began = 0
        /\ c.pc \in {"acquire", "enter", "check", "audit"} => c.began = call[k].began /\ c.hash = call[k].hash
  BY <1>2, GotoCall DEF IInv, Commit, Steps, Final
<1>4. call[k].change \in ChangeType /\ call[k].change.prev \in Status
  BY <1>1 DEF CallType, ChangeType
<1>5. r \in RowType
  BY <1>1, <1>2, <1>4 DEF RowType
<1>6. PICK row \in RowType :
        /\ history' = Append(history, row) /\ row.new = call[k].change.new
        /\ row.prev = call[k].change.prev /\ row.at = call[k].change.at /\ row.began = call[k].began
  BY <1>5 DEF Commit
<1> HIDE DEF r
<1>7. /\ history' \in Seq(RowType) /\ Len(history') = n + 1 /\ history'[n + 1] = row
      /\ \A i \in 1..n : history'[i] = history[i]
  BY <1>6 DEF IInv, Types
<1>8. PICK m \in Nat : m = n
  BY <1>1
<1> HIDE DEF n
<1>9. /\ Len(history) = m /\ Len(history') = m + 1 /\ history'[m + 1] = row
      /\ Rows = 1..m /\ Rows' = 1..(m + 1) /\ \A i \in 1..m : history'[i] = history[i]
  BY <1>7, <1>8 DEF Rows, n
<1>10. call'[k] = c /\ \A x \in Calls : x # k => call'[x] = call[x]
  BY <1>3 DEF IInv, Types
<1>11. /\ record' \in [known : BOOLEAN, status : EvidenceStatuses, original : Content]
       /\ record'.known = record.known /\ record'.status = row.new /\ record'.original = record.original
  BY <1>2, <1>6 DEF IInv, Types, Commit
<1>12. UNCHANGED <<kind, file, edits, meta, acquired>>
  BY DEF Commit
<1>13. Types'
  BY <1>3, <1>7, <1>11, <1>12 DEF IInv, Types
<1>14. TimesInv'
  <2>1. PICK b \in Nat : \A t \in Times : t <= b
    BY DEF IInv, TimesInv
  <2>2. /\ DOMAIN history = 1..m /\ DOMAIN history' = 1..(m + 1)
        /\ \A i \in 1..m : history[i].at <= b /\ history[i].at \in Nat
        /\ \A x \in Calls : call[x].change.at <= b /\ call[x].change.at \in Nat
    BY <1>7, <1>9, <2>1, Shapes DEF IInv, Times
  <2>3. \A i \in 1..(m + 1) : history'[i].at <= b
    BY <1>6, <1>9, <2>2
  <2>4. \A x \in Calls : call'[x].change.at <= b
    BY <1>3, <1>10, <2>2
  <2>5. \A t \in Times' : t <= b
    BY <2>2, <2>3, <2>4 DEF Times
  <2>6. \A i \in 1..m : history[i].at # row.at
    BY <1>1, <1>6, <1>9 DEF IInv, TimesInv, Open, At
  <2>7. \A i, j \in 1..(m + 1) : i # j => history'[i].at # history'[j].at
    <3>1. \A i, j \in 1..m : i # j => history[i].at # history[j].at
      BY <1>9 DEF IInv, TimesInv
    <3>2. ASSUME NEW i \in 1..(m + 1), NEW j \in 1..(m + 1), i # j
          PROVE  history'[i].at # history'[j].at
      <4>1. CASE i \in 1..m /\ j \in 1..m
        BY <1>9, <3>1, <3>2, <4>1
      <4>2. CASE i = m + 1
        BY <1>9, <2>6, <3>2, <4>2
      <4>3. CASE j = m + 1
        BY <1>9, <2>6, <3>2, <4>3
      <4> QED
        BY <4>1, <4>2, <4>3
    <3> QED
      BY <3>2
  <2>8. ASSUME NEW x \in Calls, call'[x].pc = "writing"
        PROVE  x # k /\ call'[x] = call[x]
    BY <1>2, <1>3, <1>10, <2>8
  <2>9. ASSUME NEW x \in Calls, call'[x].pc = "writing", NEW i \in 1..(m + 1)
        PROVE  history'[i].at # call'[x].change.at
    <3>1. x # k /\ call'[x] = call[x]
      BY <2>8, <2>9
    <3>2. CASE i \in 1..m
      BY <1>9, <2>9, <3>1, <3>2 DEF IInv, TimesInv, Open, At
    <3>3. CASE i = m + 1
      BY <1>1, <1>6, <1>9, <2>9, <3>1, <3>3 DEF IInv, TimesInv, Open, At
    <3> QED
      BY <3>2, <3>3
  <2>10. ASSUME NEW x \in Calls, NEW y \in Calls, call'[x].pc = "writing", call'[y].pc = "writing", x # y
         PROVE  call'[x].change.at # call'[y].change.at
    <3>1. call'[x] = call[x] /\ call'[y] = call[y]
      BY <2>8, <2>10
    <3> QED
      BY <2>10, <3>1 DEF IInv, TimesInv, Open, At
  <2> QED
    BY <1>9, <2>5, <2>7, <2>9, <2>10 DEF TimesInv, Open, At
<1>15. \A x \in Calls : StatusOf(call[x])'
  <2>1. StatusOf(c)'
    BY <1>1, <1>2, <1>3, <1>8, <1>9 DEF StatusOf, Ahead, n
  <2>2. ASSUME NEW x \in Calls, x # k
        PROVE  StatusOf(call[x])'
    <3>1. call'[x] = call[x] /\ StatusOf(call[x]) /\ call[x].began \in Nat
      BY <1>10, <2>2, Facts DEF IInv
    <3>2. call[x].began < m + 1
      BY <1>9, <3>1 DEF StatusOf
    <3> QED
      BY <1>9, <3>1, <3>2 DEF StatusOf, Justified
  <2> QED
    BY <1>10, <2>1, <2>2 DEF StatusOf, Justified, Overtaken
<1>16. \A x \in Calls : VouchOf(x, call[x])'
  <2>1. VouchOf(k, c)
    BY <1>1, <1>2, <1>3 DEF VouchOf
  <2>2. \A x \in Calls : VouchOf(x, call'[x])
    BY <1>10, <2>1 DEF IInv
  <2> QED
    BY <1>11, <1>12, <2>2 DEF VouchOf
<1>17. QuarantineHolds'
  <2>1. ASSUME NEW j \in 1..m, j > 1, history[j - 1].new = "quarantined", history[j].new # "quarantined"
        PROVE  \/ history'[j].prev = "quarantined" /\ history'[j].new = "registered"
               \/ \E i \in 1..(j - 1) : history'[i].new = "quarantined" /\ history'[j].began < i
               \/ \E i \in 1..(j - 2) : history'[i].at > history'[j - 1].at
    <3>1. /\ history'[j] = history[j] /\ history'[j - 1] = history[j - 1]
          /\ \A i \in 1..(j - 1) : i \in 1..m /\ history'[i] = history[i]
      BY <1>9, <2>1
    <3>2. j \in DOMAIN history
      BY <1>9, Shapes DEF IInv
    <3>3. \/ history[j].prev = "quarantined" /\ history[j].new = "registered"
          \/ \E i \in 1..(j - 1) : history[i].new = "quarantined" /\ history[j].began < i
          \/ \E i \in 1..((j - 1) - 1) : history[i].at > history[j - 1].at
      BY <2>1, <3>2 DEF IInv, QuarantineHolds, Overlapped, Overtaken
    <3>4. CASE \E i \in 1..((j - 1) - 1) : history[i].at > history[j - 1].at
      BY <2>1, <3>1, <3>4
    <3> QED
      BY <3>1, <3>3, <3>4
  <2>2. ASSUME m > 0, history[m].new = "quarantined", row.new # "quarantined"
        PROVE  \/ row.prev = "quarantined" /\ row.new = "registered"
               \/ \E i \in 1..m : history'[i].new = "quarantined" /\ row.began < i
               \/ \E i \in 1..(m - 1) : history'[i].at > history'[m].at
    <3>1. m \in 1..m /\ \A i \in 1..(m - 1) : i \in 1..m
      BY <1>8, <2>2
    <3>2. CASE call[k].began < m
      BY <1>6, <1>9, <2>2, <3>1, <3>2
    <3>3. CASE Overtaken(m)
      BY <1>9, <3>1, <3>3 DEF Overtaken
    <3> QED
      BY <1>2, <1>6, <1>9, <2>2, <3>2, <3>3 DEF Justified
  <2>3. ASSUME NEW j \in 1..(m + 1), j > 1, history'[j - 1].new = "quarantined",
               history'[j].new # "quarantined"
        PROVE  \/ history'[j].prev = "quarantined" /\ history'[j].new = "registered"
               \/ \E i \in 1..(j - 1) : history'[i].new = "quarantined" /\ history'[j].began < i
               \/ \E i \in 1..((j - 1) - 1) : history'[i].at > history'[j - 1].at
    <3>1. CASE j \in 1..m
      <4>1. history[j - 1].new = "quarantined" /\ history[j].new # "quarantined"
        BY <1>9, <2>3, <3>1
      <4>2. (j - 1) - 1 = j - 2
        BY <3>1
      <4> QED
        BY <2>1, <2>3, <3>1, <4>1, <4>2
    <3>2. CASE j = m + 1
      <4>1. m > 0 /\ m \in 1..m /\ j - 1 = m
        BY <1>8, <2>3, <3>2
      <4>2. history[m].new = "quarantined" /\ history'[j] = row /\ row.new # "quarantined"
        BY <1>9, <2>3, <3>2, <4>1
      <4> QED
        BY <2>2, <4>1, <4>2
    <3> QED
      BY <1>8, <3>1, <3>2
  <2>4. DOMAIN history' = 1..(m + 1)
    BY <1>7, <1>9
  <2> QED
    BY <2>3, <2>4 DEF QuarantineHolds, Overlapped, Overtaken
<1>18. ValidatedIsKept'
  <2>1. row.new = "validated" => meta \in Valid
    BY <1>1, <1>6 DEF VouchOf
  <2>2. DOMAIN history' = 1..(m + 1) /\ DOMAIN history = 1..m
    BY <1>7, <1>9, Shapes DEF IInv
  <2>3. ASSUME NEW i \in 1..(m + 1), history'[i].new = "validated"
        PROVE  meta \in Valid
    <3>1. CASE i \in 1..m
      BY <1>9, <2>2, <2>3, <3>1 DEF IInv, ValidatedIsKept
    <3>2. CASE i = m + 1
      BY <1>9, <2>1, <2>3, <3>2
    <3> QED
      BY <1>8, <3>1, <3>2
  <2> QED
    BY <1>12, <2>2, <2>3 DEF ValidatedIsKept
<1>19. record'.status = history'[Len(history')].new
  BY <1>9, <1>11
<1>20. ~record'.known => acquired' = None
  BY <1>11, <1>12 DEF IInv
<1> QED
  BY <1>13, <1>14, <1>15, <1>16, <1>17, <1>18, <1>19, <1>20 DEF IInv

-----------------------------------------------------------------------------
(* The theorems                                                            *)

LEMMA InitHolds ==
  ASSUME Init
  PROVE  IInv
<1>1. NoChange \in ChangeType /\ NoChange.at = 0
  BY DEF NoChange, ChangeType, Status
<1>2. Idle \in CallType /\ Idle.pc = "idle" /\ Idle.began = 0 /\ Idle.change = NoChange
  BY <1>1 DEF Idle, CallType, Steps, Final, Content
<1>3. call = [k \in Calls |-> Idle] /\ kind \in Kinds /\ file \in Valid /\ edits = 0
  BY DEF Init
<1>4. file \in Content /\ edits \in 0..MaxEdits /\ None \in Content
  BY <1>3, DeskAssumption DEF Content
<1>5. call \in [Calls -> CallType] /\ \A k \in Calls : call[k].pc = "idle" /\ call[k].began = 0 /\ call[k].change.at = 0
  BY <1>1, <1>2, <1>3
<1>6. CASE \E k \in Calls : kind[k] = "register"
  <2>1. /\ record = [known |-> FALSE, status |-> "registered", original |-> None]
        /\ meta = None /\ acquired = None /\ history = <<>>
    BY <1>6 DEF Init
  <2>2. Types
    BY <1>3, <1>4, <1>5, <2>1 DEF Types, EvidenceStatuses
  <2>3. \A t \in Times : t <= 0
    BY <1>5, <2>1 DEF Times
  <2>4. TimesInv
    BY <1>5, <2>1, <2>3 DEF TimesInv, Rows, Open, At
  <2>5. \A k \in Calls : StatusOf(call[k]) /\ VouchOf(k, call[k])
    BY <1>5, <2>1 DEF StatusOf, VouchOf, Ahead
  <2>6. QuarantineHolds /\ ValidatedIsKept
    BY <2>1 DEF QuarantineHolds, ValidatedIsKept
  <2> QED
    BY <2>1, <2>2, <2>4, <2>5, <2>6 DEF IInv
<1>7. CASE ~ \E k \in Calls : kind[k] = "register"
  <2>1. /\ record = [known |-> TRUE, status |-> "validated", original |-> file]
        /\ meta = file /\ acquired = file /\ history = Peaceful
    BY <1>7 DEF Init
  <2>2. /\ Len(Peaceful) = 3 /\ Peaceful \in Seq(RowType) /\ DOMAIN Peaceful = 1..3
        /\ Peaceful[1].at = 1 /\ Peaceful[2].at = 2 /\ Peaceful[3].at = 3
        /\ Peaceful[1].new = "registered" /\ Peaceful[2].new = "validating" /\ Peaceful[3].new = "validated"
    BY DEF Peaceful, Row, RowType, EvidenceStatuses, Status
  <2>3. Types
    BY <1>3, <1>4, <1>5, <2>1, <2>2 DEF Types, EvidenceStatuses
  <2>4. \A t \in Times : t <= 3
    BY <1>5, <2>1, <2>2 DEF Times
  <2>5. TimesInv
    BY <1>5, <2>1, <2>2, <2>4 DEF TimesInv, Rows, Open, At
  <2>6. \A k \in Calls : StatusOf(call[k]) /\ VouchOf(k, call[k])
    BY <1>5, <2>1, <2>2 DEF StatusOf, VouchOf, Ahead
  <2>7. QuarantineHolds /\ ValidatedIsKept
    BY <1>3, <2>1, <2>2 DEF QuarantineHolds, ValidatedIsKept
  <2> QED
    BY <2>1, <2>2, <2>3, <2>5, <2>6, <2>7 DEF IInv
<1> QED
  BY <1>6, <1>7

\* The invariant is inductive: every step of every call, and every change of
\* the file, keeps it.
THEOREM Inductive == Spec => []IInv
<1>1. Init => IInv
  BY InitHolds
<1>2. IInv /\ [Next]_vars => IInv'
  <2> SUFFICES ASSUME IInv, [Next]_vars
               PROVE  IInv'
    OBVIOUS
  <2>1. ASSUME NEW k \in Calls, Commit(k)
        PROVE  IInv'
    BY <2>1, CommitKeeps
  <2>2. ASSUME NEW k \in Calls, CommitFails(k)
        PROVE  IInv'
    BY <2>2, FailedKeeps
  <2>3. ASSUME NEW k \in Calls, Load(k) \/ SaveRecord(k) \/ Registered(k) \/ Acquire(k)
        PROVE  IInv'
    BY <2>3, LoadKeeps, SaveRecordKeeps, RegisteredKeeps, AcquireKeeps
  <2>4. ASSUME NEW k \in Calls, Revalidate(k) \/ Enter(k) \/ Check(k) \/ KeepMetadata(k)
        PROVE  IInv'
    BY <2>4, RevalidateKeeps, EnterKeeps, CheckKeeps, KeepMetadataKeeps
  <2>5. ASSUME NEW k \in Calls, Validated(k) \/ Audit(k) \/ KeepAgain(k) \/ Reject(k)
        PROVE  IInv'
    BY <2>5, ValidatedKeeps, AuditKeeps, KeepAgainKeeps, RejectKeeps
  <2>6. ASSUME NEW k \in Calls, Move(k) \/ Quarantine(k) \/ Compare(k) \/ Access(k)
        PROVE  IInv'
    BY <2>6, MoveKeeps, QuarantineKeeps, CompareKeeps, AccessKeeps
  <2>7. CASE Edit \/ UNCHANGED vars
    BY <2>7, EditKeeps
  <2> QED
    BY <2>1, <2>2, <2>3, <2>4, <2>5, <2>6, <2>7 DEF Next
<1> QED
  BY <1>1, <1>2, PTL DEF Spec

\* Without an overtaking row the last change is the latest: the record and the
\* history agree.
LEMMA Agrees ==
  ASSUME IInv
  PROVE  StatusAgrees
<1>1. CASE Len(history) = 0
  BY <1>1, CurrentRow DEF IInv, StatusAgrees
<1>2. CASE Len(history) > 0
  <2> SUFFICES ASSUME record.status # Current
               PROVE  \E j \in DOMAIN history : Overtaken(j)
    BY DEF StatusAgrees
  <2>1. PICK m \in Rows : /\ Current = history[m].new
                          /\ \A j \in Rows : history[j].at <= history[m].at
    BY <1>2, CurrentRow DEF IInv
  <2>2. /\ Len(history) \in Rows /\ Len(history) \in Nat /\ DOMAIN history = Rows
        /\ history[m].at \in Nat /\ history[Len(history)].at \in Nat
    BY <1>2, Shapes DEF IInv, Rows
  <2>3. m # Len(history)
    BY <1>2, <2>1 DEF IInv
  <2>4. history[m].at > history[Len(history)].at
    BY <2>1, <2>2, <2>3 DEF IInv, TimesInv
  <2>5. m \in 1..(Len(history) - 1)
    <3>1. m \in 1..Len(history) /\ Len(history) \in Nat
      BY <2>2 DEF Rows
    <3> QED
      BY <2>3, <3>1
  <2>6. Overtaken(Len(history))
    BY <2>4, <2>5 DEF Overtaken
  <2> QED
    BY <2>2, <2>6
<1> QED
  BY <1>1, <1>2, Shapes DEF IInv

\* StatusInv, for any number of calls: a quarantine ends only by a change that
\* names it or one decided before it, and the two places that hold the status
\* differ only after commits in the order opposite to their times
\* (EvidenceValidationService, EvidenceManagementService, evidence_status_repo).
THEOREM StatusTrusted == Spec => []StatusInv
<1>1. IInv => StatusInv
  <2> SUFFICES ASSUME IInv
               PROVE  StatusInv
    OBVIOUS
  <2>1. /\ file \in Content /\ edits \in 0..MaxEdits /\ {meta, acquired, record.original} \subseteq Content
        /\ record.status \in EvidenceStatuses /\ record.known \in BOOLEAN
    BY DEF IInv, Types
  <2>2. \A i \in DOMAIN history : history[i].new \in EvidenceStatuses /\ history[i].prev \in Status
    <3>1. \A i \in DOMAIN history : history[i] \in RowType
      BY Shapes DEF IInv
    <3> QED
      BY <3>1 DEF RowType
  <2>3. \A k \in Calls : call[k].pc \in Steps /\ call[k].hash \in Content
    BY DEF IInv, Types, CallType
  <2>4. TypeOK
    BY <2>1, <2>2, <2>3 DEF TypeOK, Content, Status
  <2> QED
    BY <2>4, Agrees DEF StatusInv, IInv
<1> QED
  BY <1>1, Inductive, PTL

\* EvidenceVouched, for any number of calls and of changes of the file: an item
\* that was ever validated has metadata hashed from an acceptable file, and a
\* verification that succeeds saw the content that was acquired.
THEOREM Vouched == Spec => []EvidenceVouched
<1>1. IInv => EvidenceVouched
  BY DEF IInv, EvidenceVouched, VerifiedIsAcquired, VouchOf, At
<1> QED
  BY <1>1, Inductive, PTL

-----------------------------------------------------------------------------
(* The knowledge graph: any jobs, calls, readers and depth.                *)
(*                                                                         *)
(* Balls and a job's list of calls are defined by recursion: that such a   *)
(* function exists is shown once (Repeated), and what balls have in common *)
(* by induction. A walk then keeps two bounds, the old graph's ball below  *)
(* and the present graph's above; every edge is counted once, because all  *)
(* calls for one edge give it one type.                                    *)
CONSTANTS Jobs, Readers, Found, Listed, Asks, Depth
VARIABLES pc, todo, types, added, query
G == INSTANCE EvidenceGraph

\* The instance has its own names for what FiniteSets defines.
LEMMA GraphSizes == \A S : (G!IsFiniteSet(S) <=> IsFiniteSet(S)) /\ G!Cardinality(S) = Cardinality(S)
BY DEF G!IsFiniteSet, IsFiniteSet, G!Cardinality, Cardinality

(* Balls                                                                     *)

\* What holds of 0 and passes from each number to the next holds up to a bound.
LEMMA StepByStep ==
  ASSUME NEW max \in Nat, NEW S, 0 \in S, \A n \in 0..(max - 1) : n \in S => n + 1 \in S
  PROVE  0..max \subseteq S
<1> DEFINE R == OpToRel(<, Nat)
           B == (0..max) \ S
<1>1. SUFFICES ASSUME B # {} PROVE FALSE
  OBVIOUS
<1>2. IsWellFoundedOn(R, Nat)
  BY NatLessThanWellFounded
<1>3. PICK t \in B : \A n \in B : ~ (<<n, t>> \in R)
  <2>1. B \subseteq Nat
    OBVIOUS
  <2> HIDE DEF R, B
  <2> QED
    BY <1>1, <1>2, <2>1, WFMin
<1>4. \A n \in B : ~ (n < t)
  <2>1. t \in Nat /\ \A n \in B : n \in Nat
    OBVIOUS
  <2>2. \A n \in Nat : n < t => <<n, t>> \in R
    BY <2>1 DEF OpToRel
  <2> HIDE DEF R, B
  <2> QED
    BY <1>3, <2>1, <2>2
<1>5. t \in 1..max /\ t \notin S
  <2>1. t \in 0..max /\ t \notin S /\ t # 0
    OBVIOUS
  <2> QED
    BY <2>1
<1>6. t - 1 \in 0..(max - 1) /\ t - 1 \notin B
  BY <1>4, <1>5
<1> QED
  BY <1>5, <1>6

\* Anything may be done as often as one likes, h saying what is done the n-th time.
Repeats(g, v, h, max) == g[0] = v /\ \A n \in 1..max : g[n] = h[<<n, g[n - 1]>>]
LEMMA Repeated ==
  ASSUME NEW V, NEW v \in V, NEW max \in Nat, NEW h \in [(1..max) \X V -> V]
  PROVE  \E g \in [0..max -> V] : Repeats(g, v, h, max)
<1> DEFINE Run(g, n) == g \in [0..n -> V] /\ g[0] = v /\ \A i \in 1..n : g[i] = h[<<i, g[i - 1]>>]
           S == {n \in 0..max : \E g : Run(g, n)}
<1>1. 0 \in S
  <2> DEFINE g == [i \in 0..0 |-> v]
  <2>1. g \in [0..0 -> V] /\ g[0] = v /\ 0 \in 0..max
    OBVIOUS
  <2>2. \A i \in 1..0 : FALSE
    OBVIOUS
  <2> HIDE DEF g
  <2>3. Run(g, 0)
    BY <2>1, <2>2
  <2> QED
    BY <2>1, <2>3
<1>2. ASSUME NEW n \in 0..(max - 1), n \in S PROVE n + 1 \in S
  <2>1. PICK g : Run(g, n)
    BY <1>2
  <2> DEFINE e == [i \in 0..(n + 1) |-> IF i = n + 1 THEN h[<<n + 1, g[n]>>] ELSE g[i]]
  <2>2. \A i \in 0..n : i \in 0..(n + 1) /\ i # n + 1 /\ g[i] \in V
    BY <2>1
  <2>3. n \in 0..n /\ n + 1 \in 0..(n + 1) /\ n + 1 \in 0..max /\ n + 1 \in 1..max /\ 0 \in 0..n
    OBVIOUS
  <2>4. \A i \in 0..(n + 1) : i = n + 1 \/ i \in 0..n
    OBVIOUS
  <2>5. e \in [0..(n + 1) -> V]
    <3>1. h[<<n + 1, g[n]>>] \in V
      BY <2>2, <2>3
    <3> QED
      BY <2>2, <2>4, <3>1
  <2>6. (\A i \in 0..n : e[i] = g[i]) /\ e[n + 1] = h[<<n + 1, g[n]>>]
    BY <2>2, <2>3
  <2>7. \A i \in 1..(n + 1) : i - 1 \in 0..n /\ (i = n + 1 \/ i \in 1..n) /\ (i \in 1..n => i \in 0..n)
    OBVIOUS
  <2> HIDE DEF e
  <2>8. \A i \in 1..(n + 1) : e[i] = h[<<i, e[i - 1]>>]
    <3> SUFFICES ASSUME NEW i \in 1..(n + 1) PROVE e[i] = h[<<i, e[i - 1]>>]
      OBVIOUS
    <3>1. CASE i = n + 1
      <4>1. i - 1 = n
        BY <3>1
      <4> QED
        BY <2>3, <2>6, <3>1, <4>1
    <3>2. CASE i \in 1..n
      BY <2>1, <2>6, <2>7, <3>2
    <3> QED
      BY <2>7, <3>1, <3>2
  <2>9. Run(e, n + 1)
    BY <2>1, <2>3, <2>5, <2>6, <2>8
  <2> QED
    BY <2>3, <2>9
<1>3. 0..max \subseteq S
  <2> HIDE DEF S
  <2> QED
    BY <1>1, <1>2, StepByStep
<1>4. max \in S
  BY <1>3
<1> QED
  BY <1>4 DEF Repeats

\* A ball is what it is said to be: there is such a function.
LEMMA BallSteps ==
  ASSUME G!Sensible, NEW edges, NEW from
  PROVE  /\ G!Ball(edges, from)[0] = {from}
         /\ \A n \in 1..Depth : G!Ball(edges, from)[n] =
              G!Ball(edges, from)[n - 1] \cup UNION {G!Near(edges, m) : m \in G!Ball(edges, from)[n - 1]}
<1> DEFINE Bigger(X) == X \cup UNION {G!Near(edges, m) : m \in X}
           Grown1(b) == [n \in 0..Depth |-> IF n = 0 THEN {from} ELSE b[n - 1] \cup UNION {G!Near(edges, m) : m \in b[n - 1]}]
           V == SUBSET ((UNION edges) \cup {from})
           h == [p \in (1..Depth) \X V |-> Bigger(p[2])]
           C == G!Ball(edges, from)
<1>0. Depth \in Nat /\ 0 \in 0..Depth
  BY DEF G!Sensible
<1>1. \A X \in V : Bigger(X) \in V
  BY DEF G!Near
<1>2. h \in [(1..Depth) \X V -> V] /\ {from} \in V
  <2> HIDE DEF Bigger, V
  <2>1. \A p \in (1..Depth) \X V : Bigger(p[2]) \in V
    BY <1>1
  <2>2. {from} \in V
    BY DEF V
  <2> QED
    BY <2>1, <2>2
<1>3. PICK g \in [0..Depth -> V] : Repeats(g, {from}, h, Depth)
  <2> DEFINE v == {from}
  <2>1. v \in V
    BY <1>2
  <2> HIDE DEF h, V, v
  <2>2. \E g \in [0..Depth -> V] : Repeats(g, v, h, Depth)
    BY <1>0, <1>2, <2>1, Repeated
  <2> QED
    BY <2>2 DEF v
<1>4. g[0] = {from} /\ \A n \in 1..Depth : g[n] = Bigger(g[n - 1])
  <2>1. g[0] = {from} /\ \A n \in 1..Depth : g[n] = h[<<n, g[n - 1]>>]
    BY <1>3 DEF Repeats
  <2>2. \A n \in 1..Depth : n - 1 \in 0..Depth
    BY <1>0
  <2> HIDE DEF V, Bigger
  <2>3. \A n \in 1..Depth : g[n - 1] \in V
    BY <1>3, <2>2
  <2>4. \A n \in 1..Depth : h[<<n, g[n - 1]>>] = Bigger(g[n - 1])
    BY <2>3
  <2> QED
    BY <2>1, <2>4
<1>5. \A n \in 0..Depth : n = 0 \/ (n # 0 /\ n \in 1..Depth)
  BY <1>0
<1>6. g = Grown1(g)
  <2> HIDE DEF V, h
  <2>1. g = [n \in 0..Depth |-> g[n]]
    BY <1>3
  <2>2. \A n \in 0..Depth : g[n] = IF n = 0 THEN {from} ELSE g[n - 1] \cup UNION {G!Near(edges, m) : m \in g[n - 1]}
    BY <1>4, <1>5
  <2> QED
    BY <2>1, <2>2
<1>7. C = CHOOSE b : b = Grown1(b)
  BY DEF G!Ball
<1>8. C = Grown1(C)
  <2> HIDE DEF C
  <2> QED
    BY <1>6, <1>7
<1>9. C[0] = {from}
  <2> HIDE DEF C
  <2> QED
    BY <1>0, <1>8
<1>10. ASSUME NEW n \in 1..Depth PROVE C[n] = C[n - 1] \cup UNION {G!Near(edges, m) : m \in C[n - 1]}
  <2> HIDE DEF C
  <2>1. n \in 0..Depth /\ n # 0
    BY <1>0
  <2> QED
    BY <1>8, <2>1
<1> QED
  BY <1>9, <1>10

\* A ball lies in every larger one,
LEMMA BallsNest ==
  ASSUME G!Sensible, NEW edges, NEW from, NEW a \in 0..Depth
  PROVE  G!Ball(edges, from)[a] \subseteq G!Ball(edges, from)[Depth]
<1> DEFINE C == G!Ball(edges, from)
           S == {n \in 0..Depth : n < a \/ C[a] \subseteq C[n]}
<1>0. Depth \in Nat
  BY DEF G!Sensible
<1>1. \A n \in 1..Depth : C[n - 1] \subseteq C[n]
  BY BallSteps
<1>2. 0 \in S
  <2>1. 0 < a \/ a = 0
    BY <1>0
  <2> QED
    BY <1>0, <2>1
<1>3. ASSUME NEW n \in 0..(Depth - 1), n \in S PROVE n + 1 \in S
  <2>0. n + 1 \in 1..Depth /\ n + 1 \in 0..Depth /\ (n + 1) - 1 = n
    BY <1>0
  <2>1. C[n] \subseteq C[n + 1]
    BY <1>1, <2>0
  <2>2. n + 1 < a \/ n + 1 = a \/ ~ (n < a)
    BY <1>0
  <2> HIDE DEF C
  <2> QED
    BY <1>3, <2>0, <2>1, <2>2
<1>4. 0..Depth \subseteq S
  <2> HIDE DEF S
  <2> QED
    BY <1>0, <1>2, <1>3, StepByStep
<1>5. C[a] \subseteq C[Depth]
  <2>1. Depth \in S /\ ~ (Depth < a)
    BY <1>0, <1>4
  <2> HIDE DEF C
  <2> QED
    BY <2>1
<1> QED
  BY <1>5

\* and in the ball of the same size of every larger graph.
LEMMA BallsGrow ==
  ASSUME G!Sensible, NEW edges, NEW more, edges \subseteq more, NEW from, NEW a \in 0..Depth
  PROVE  G!Ball(edges, from)[a] \subseteq G!Ball(more, from)[a]
<1> DEFINE C == G!Ball(edges, from)
           D == G!Ball(more, from)
           S == {n \in 0..Depth : C[n] \subseteq D[n]}
<1>0. Depth \in Nat
  BY DEF G!Sensible
<1>1. \A m : G!Near(edges, m) \subseteq G!Near(more, m)
  BY DEF G!Near
<1>2. C[0] = {from} /\ \A n \in 1..Depth : C[n] = C[n - 1] \cup UNION {G!Near(edges, m) : m \in C[n - 1]}
  BY BallSteps
<1>3. D[0] = {from} /\ \A n \in 1..Depth : D[n] = D[n - 1] \cup UNION {G!Near(more, m) : m \in D[n - 1]}
  BY BallSteps
<1>4. 0 \in S
  BY <1>0, <1>2, <1>3
<1>5. ASSUME NEW n \in 0..(Depth - 1), n \in S PROVE n + 1 \in S
  <2>0. n + 1 \in 1..Depth /\ n + 1 \in 0..Depth /\ (n + 1) - 1 = n
    BY <1>0
  <2> HIDE DEF C, D
  <2>1. C[n + 1] = C[n] \cup UNION {G!Near(edges, m) : m \in C[n]}
    BY <1>2, <2>0
  <2>2. D[n + 1] = D[n] \cup UNION {G!Near(more, m) : m \in D[n]}
    BY <1>3, <2>0
  <2>3. C[n] \subseteq D[n]
    BY <1>5
  <2>4. C[n + 1] \subseteq D[n + 1]
    BY <1>1, <2>1, <2>2, <2>3
  <2> QED
    BY <2>0, <2>4
<1>6. 0..Depth \subseteq S
  <2> HIDE DEF S
  <2> QED
    BY <1>0, <1>4, <1>5, StepByStep
<1> QED
  BY <1>6

\* No ball leaves a set that has its centre and the neighbours of all its nodes.
LEMMA ClosedKeepsBalls ==
  ASSUME G!Sensible, NEW edges, NEW from, NEW T, from \in T, \A n \in T : G!Near(edges, n) \subseteq T
  PROVE  G!Ball(edges, from)[Depth] \subseteq T
<1> DEFINE C == G!Ball(edges, from)
           S == {n \in 0..Depth : C[n] \subseteq T}
<1>0. Depth \in Nat
  BY DEF G!Sensible
<1>1. C[0] = {from} /\ \A n \in 1..Depth : C[n] = C[n - 1] \cup UNION {G!Near(edges, m) : m \in C[n - 1]}
  BY BallSteps
<1>2. 0 \in S
  BY <1>0, <1>1
<1>3. ASSUME NEW n \in 0..(Depth - 1), n \in S PROVE n + 1 \in S
  <2>0. n + 1 \in 1..Depth /\ n + 1 \in 0..Depth /\ (n + 1) - 1 = n
    BY <1>0
  <2> HIDE DEF C
  <2>1. C[n + 1] = C[n] \cup UNION {G!Near(edges, m) : m \in C[n]}
    BY <1>1, <2>0
  <2>2. C[n] \subseteq T
    BY <1>3
  <2>3. C[n + 1] \subseteq T
    BY <2>1, <2>2
  <2> QED
    BY <2>0, <2>3
<1>4. 0..Depth \subseteq S
  <2> HIDE DEF S
  <2> QED
    BY <1>0, <1>2, <1>3, StepByStep
<1> QED
  BY <1>0, <1>4
-----------------------------------------------------------------------------
(* The walk                                                                  *)

Fields == {"at", "depth", "frontier", "next", "seen", "current", "near", "before", "jobs"}

\* A walk that is under way has all of the old graph up to its depth, and of what it
\* saw earlier all old neighbours; and what it has is as near as that in the graph.
Surveys(q, edges, from) ==
  /\ q.depth \in 0..(Depth - 1)
  /\ q.frontier \subseteq q.seen \ q.next /\ q.next \subseteq q.seen /\ from \in q.seen
  /\ q.current # G!Nobody => q.current \in q.frontier /\ q.near \subseteq G!Near(edges, q.current)
  /\ G!Ball(q.before, from)[q.depth] \subseteq q.seen \ q.next
  /\ \A n \in q.seen \ (q.next \cup q.frontier) : G!Near(q.before, n) \subseteq q.seen
  /\ q.seen \ q.next \subseteq G!Ball(edges, from)[q.depth]
  /\ q.next \subseteq G!Ball(edges, from)[q.depth + 1]

\* One that has ended has the ball of the old graph, within that of the new one.
Surveyed(q, edges, from) ==
  G!Ball(q.before, from)[Depth] \subseteq q.seen /\ q.seen \subseteq G!Ball(edges, from)[Depth]

Holds(q, edges, from) ==
  /\ q.at \in {"idle", "walking", "empty", "found", "raised"} /\ q.depth \in 0..Depth
  /\ DOMAIN q = Fields /\ q.before \subseteq edges
  /\ q.at = "idle" => q = G!Idle
  /\ q.at = "walking" => Surveys(q, edges, from)
  /\ q.at = "found" => Surveyed(q, edges, from)

\* The graph grows under a walk and takes nothing from it.
LEMMA HoldsAsGrown ==
  ASSUME G!Sensible, NEW q, NEW from, NEW edges, NEW more, edges \subseteq more, Holds(q, edges, from)
  PROVE  Holds(q, more, from)
<1>0. Depth \in Nat \ {0}
  BY DEF G!Sensible
<1>1. \A m : G!Near(edges, m) \subseteq G!Near(more, m)
  BY DEF G!Near
<1>2. \A n \in 0..Depth : G!Ball(edges, from)[n] \subseteq G!Ball(more, from)[n]
  BY BallsGrow
<1>3. q.before \subseteq more /\ DOMAIN q = Fields /\ (q.at = "idle" => q = G!Idle)
      /\ q.at \in {"idle", "walking", "empty", "found", "raised"} /\ q.depth \in 0..Depth
  BY DEF Holds
<1>4. ASSUME q.at = "walking" PROVE Surveys(q, more, from)
  <2>1. Surveys(q, edges, from)
    BY <1>4 DEF Holds
  <2>2. q.depth \in 0..Depth /\ q.depth + 1 \in 0..Depth
    BY <1>0, <2>1 DEF Surveys
  <2>3. G!Ball(edges, from)[q.depth] \subseteq G!Ball(more, from)[q.depth]
        /\ G!Ball(edges, from)[q.depth + 1] \subseteq G!Ball(more, from)[q.depth + 1]
    BY <1>2, <2>2
  <2>4. G!Near(edges, q.current) \subseteq G!Near(more, q.current)
    BY <1>1
  <2> QED
    BY <2>1, <2>3, <2>4 DEF Surveys
<1>5. ASSUME q.at = "found" PROVE Surveyed(q, more, from)
  <2>1. G!Ball(edges, from)[Depth] \subseteq G!Ball(more, from)[Depth]
    BY <1>0, <1>2
  <2> QED
    BY <1>5, <2>1 DEF Holds, Surveyed
<1> QED
  BY <1>3, <1>4, <1>5 DEF Holds

\* A walk begins at its centre.
LEMMA Begun ==
  ASSUME G!Sensible, NEW q, NEW from, NEW edges, DOMAIN q = Fields, q.before = edges, q.at \in {"walking", "empty"},
         q.depth = 0, q.frontier = {from}, q.seen = {from}, q.next = {}, q.current = G!Nobody
  PROVE  Holds(q, edges, from)
<1>0. 0 \in 0..(Depth - 1)
  BY DEF G!Sensible
<1>1. G!Ball(edges, from)[0] = {from}
  BY BallSteps
<1>2. ASSUME q.at = "walking" PROVE Surveys(q, edges, from)
  BY <1>0, <1>1 DEF Surveys
<1>3. q.depth \in 0..Depth
  <2>1. Depth \in Nat
    BY DEF G!Sensible
  <2> QED
    BY <2>1
<1> QED
  BY <1>2, <1>3 DEF Holds

\* It takes up a node of its frontier,
LEMMA Visited ==
  ASSUME NEW q, NEW from, NEW edges, Holds(q, edges, from), q.at = "walking",
         NEW t, NEW n \in q.frontier, DOMAIN t = Fields, t.at = q.at, t.depth = q.depth, t.frontier = q.frontier,
         t.next = q.next, t.seen = q.seen, t.before = q.before, t.current = n, t.near = G!Near(edges, n)
  PROVE  Holds(t, edges, from)
<1>1. Surveys(q, edges, from) /\ q.before \subseteq edges
  BY DEF Holds
<1>2. Surveys(t, edges, from)
  BY <1>1 DEF Surveys
<1> QED
  BY <1>1, <1>2 DEF Holds

\* and leaves it with all its neighbours, old ones among them.
LEMMA Walked ==
  ASSUME G!Sensible, NEW q, NEW from, NEW edges, Holds(q, edges, from), q.at = "walking", q.current # G!Nobody,
         G!Near(edges, q.current) = q.near,
         NEW t, DOMAIN t = Fields, t.at = q.at, t.depth = q.depth, t.before = q.before,
         t.frontier = q.frontier \ {q.current}, t.seen = q.seen \cup (q.near \ q.seen),
         t.next = q.next \cup (q.near \ q.seen), t.current = G!Nobody
  PROVE  Holds(t, edges, from)
<1>0. Depth \in Nat \ {0}
  BY DEF G!Sensible
<1>1. Surveys(q, edges, from) /\ q.before \subseteq edges
  BY DEF Holds
<1>2. q.depth \in 0..(Depth - 1) /\ q.frontier \subseteq q.seen \ q.next /\ q.next \subseteq q.seen /\ from \in q.seen
      /\ q.current \in q.frontier
  BY <1>1 DEF Surveys
<1>3. t.frontier \subseteq t.seen \ t.next /\ t.next \subseteq t.seen /\ from \in t.seen
      /\ t.seen \ t.next = q.seen \ q.next
  BY <1>2
<1>4. G!Ball(t.before, from)[t.depth] \subseteq t.seen \ t.next /\ t.seen \ t.next \subseteq G!Ball(edges, from)[t.depth]
  BY <1>1, <1>3 DEF Surveys
<1>5. t.next \subseteq G!Ball(edges, from)[t.depth + 1]
  <2>1. q.current \in G!Ball(edges, from)[q.depth] /\ q.next \subseteq G!Ball(edges, from)[q.depth + 1]
    BY <1>1, <1>2 DEF Surveys
  <2>2. q.depth + 1 \in 1..Depth /\ (q.depth + 1) - 1 = q.depth
    BY <1>0, <1>2
  <2>3. G!Ball(edges, from)[q.depth + 1] =
          G!Ball(edges, from)[q.depth] \cup UNION {G!Near(edges, m) : m \in G!Ball(edges, from)[q.depth]}
    BY <2>2, BallSteps
  <2>4. G!Near(edges, q.current) \subseteq G!Ball(edges, from)[q.depth + 1]
    BY <2>1, <2>3
  <2> QED
    BY <2>1, <2>4
<1>6. ASSUME NEW n \in t.seen \ (t.next \cup t.frontier) PROVE G!Near(t.before, n) \subseteq t.seen
  <2>1. CASE n = q.current
    <3>1. G!Near(q.before, n) \subseteq G!Near(edges, n)
      BY <1>1 DEF G!Near
    <3> QED
      BY <2>1, <3>1
  <2>2. CASE n # q.current
    <3>1. n \in q.seen \ (q.next \cup q.frontier)
      BY <1>2, <2>2
    <3> QED
      BY <1>1, <3>1 DEF Surveys
  <2> QED
    BY <2>1, <2>2
<1>7. Surveys(t, edges, from)
  BY <1>2, <1>3, <1>4, <1>5, <1>6 DEF Surveys
<1> QED
  BY <1>1, <1>7 DEF Holds

\* With its frontier behind it, it is one step further: or at the end, by its depth
\* or because nothing new was near.
LEMMA Descended ==
  ASSUME G!Sensible, NEW q, NEW from, NEW edges, Holds(q, edges, from), q.at = "walking", q.current = G!Nobody,
         q.frontier = {},
         NEW t, DOMAIN t = Fields, t.depth = q.depth + 1, t.before = q.before, t.frontier = q.next, t.next = {},
         t.seen = q.seen, t.current = q.current,
         t.at = IF q.depth + 1 = Depth \/ q.next = {} THEN "found" ELSE q.at
  PROVE  Holds(t, edges, from)
<1>0. Depth \in Nat \ {0}
  BY DEF G!Sensible
<1>1. Surveys(q, edges, from) /\ q.before \subseteq edges
  BY DEF Holds
<1>2. q.depth \in 0..(Depth - 1) /\ q.next \subseteq q.seen /\ from \in q.seen
      /\ \A n \in q.seen \ q.next : G!Near(q.before, n) \subseteq q.seen
  BY <1>1 DEF Surveys
<1>3. q.depth + 1 \in 1..Depth /\ (q.depth + 1) - 1 = q.depth /\ q.depth + 1 \in 0..Depth
  BY <1>0, <1>2
<1>4. G!Ball(q.before, from)[q.depth + 1] =
        G!Ball(q.before, from)[q.depth] \cup UNION {G!Near(q.before, m) : m \in G!Ball(q.before, from)[q.depth]}
  BY <1>3, BallSteps
<1>5. G!Ball(q.before, from)[q.depth] \subseteq q.seen \ q.next
  BY <1>1 DEF Surveys
<1>6. G!Ball(q.before, from)[q.depth + 1] \subseteq q.seen
  BY <1>2, <1>4, <1>5
<1>7. G!Ball(edges, from)[q.depth] \subseteq G!Ball(edges, from)[q.depth + 1]
  BY <1>3, BallSteps
<1>8. q.seen \subseteq G!Ball(edges, from)[q.depth + 1]
  BY <1>1, <1>7 DEF Surveys
<1>9. CASE q.depth + 1 = Depth \/ q.next = {}
  <2>1. t.at = "found"
    BY <1>9
  <2>2. q.seen \subseteq G!Ball(edges, from)[Depth]
    <3>1. G!Ball(edges, from)[q.depth + 1] \subseteq G!Ball(edges, from)[Depth]
      BY <1>3, BallsNest
    <3> QED
      BY <1>8, <3>1
  <2>3. G!Ball(q.before, from)[Depth] \subseteq q.seen
    <3>1. CASE q.depth + 1 = Depth
      BY <1>6, <3>1
    <3>2. CASE q.next = {}
      <4>1. \A n \in q.seen : G!Near(q.before, n) \subseteq q.seen
        BY <1>2, <3>2
      <4> QED
        BY <1>2, <4>1, ClosedKeepsBalls
    <3> QED
      BY <1>9, <3>1, <3>2
  <2>4. Surveyed(t, edges, from)
    BY <2>2, <2>3 DEF Surveyed
  <2> QED
    BY <1>1, <1>3, <2>1, <2>4 DEF Holds
<1>10. CASE ~ (q.depth + 1 = Depth \/ q.next = {})
  <2>1. t.at = "walking"
    BY <1>10
  <2>2. t.depth \in 0..(Depth - 1)
    BY <1>0, <1>2, <1>10
  <2>3. Surveys(t, edges, from)
    BY <1>2, <1>6, <1>8, <2>2 DEF Surveys
  <2> QED
    BY <1>1, <1>3, <2>1, <2>3 DEF Holds
<1> QED
  BY <1>9, <1>10

WalksKept ==
  /\ DOMAIN query = Readers
  /\ \A r \in Readers : Holds(query[r], G!Edges, G!Node("ARTEFACT", Asks[r]))

LEMMA WalksBegin ==
  ASSUME G!Sensible, G!Init
  PROVE  WalksKept
<1>0. 0 \in 0..Depth
  BY DEF G!Sensible
<1>1. DOMAIN query = Readers /\ \A r \in Readers : query[r] = G!Idle
  BY DEF G!Init
<1>2. DOMAIN G!Idle = Fields /\ G!Idle.at = "idle" /\ G!Idle.before = {} /\ G!Idle.depth = 0
  BY DEF G!Idle, Fields
<1>3. \A r \in Readers : Holds(query[r], G!Edges, G!Node("ARTEFACT", Asks[r]))
  BY <1>0, <1>1, <1>2 DEF Holds
<1> QED
  BY <1>1, <1>3 DEF WalksKept

\* What jobs do leaves every edge there is.
LEMMA EdgesStay ==
  ASSUME [G!Next]_G!vars
  PROVE  G!Edges \subseteq G!Edges'
<1>1. ASSUME NEW j \in Jobs, G!AddEdge(j) PROVE G!Edges \subseteq G!Edges'
  BY <1>1 DEF G!AddEdge, G!Edges
<1>2. ASSUME types' = types PROVE G!Edges \subseteq G!Edges'
  BY <1>2 DEF G!Edges
<1> QED
  BY <1>1, <1>2 DEF G!Next, G!vars, G!BeginGrowth, G!EndGrowth, G!Ask, G!Visit, G!Walk, G!Descend

\* A reader's step keeps what its own walk holds; the graph stays as it is.
LEMMA ReaderStep ==
  ASSUME G!Sensible, WalksKept, NEW r \in Readers, G!Ask(r) \/ G!Visit(r) \/ G!Walk(r) \/ G!Descend(r)
  PROVE  /\ DOMAIN query' = Readers /\ types' = types
         /\ \A s \in Readers : s # r => query'[s] = query[s]
         /\ Holds(query'[r], G!Edges, G!Node("ARTEFACT", Asks[r]))
         /\ \/ query'[r].jobs = query[r].jobs /\ query'[r].before = query[r].before
            \/ query'[r].jobs = G!Grown /\ query'[r].before = G!Edges
<1> DEFINE q == query[r]
           t == query'[r]
           from == G!Node("ARTEFACT", Asks[r])
<1>0. DOMAIN query = Readers /\ Holds(q, G!Edges, from) /\ DOMAIN q = Fields
  BY DEF WalksKept, Holds
<1>1. CASE G!Ask(r)
  <2>1. q = G!Idle /\ q.at = "idle"
    BY <1>0, <1>1 DEF G!Ask, Holds
  <2>2. query' = [query EXCEPT ![r] =
          [@ EXCEPT !.at = IF from \in G!Nodes THEN "walking" ELSE "empty", !.before = G!Edges, !.jobs = G!Grown,
                    !.frontier = {from}, !.seen = {from}]] /\ types' = types
    BY <1>1 DEF G!Ask
  <2>3. DOMAIN query' = Readers /\ \A s \in Readers : s # r => query'[s] = query[s]
    BY <1>0, <2>2
  <2>4. t = [q EXCEPT !.at = IF from \in G!Nodes THEN "walking" ELSE "empty", !.before = G!Edges, !.jobs = G!Grown,
                    !.frontier = {from}, !.seen = {from}]
    BY <1>0, <2>2
  <2>5. q.depth = 0 /\ q.next = {} /\ q.current = G!Nobody
    BY <2>1 DEF G!Idle
  <2>6. DOMAIN t = Fields /\ t.before = G!Edges /\ t.jobs = G!Grown /\ t.at \in {"walking", "empty"} /\ t.frontier = {from} /\ t.seen = {from}
        /\ t.depth = q.depth /\ t.next = q.next /\ t.current = q.current
    <3> HIDE DEF q, t, from
    <3> QED
      BY <1>0, <2>4 DEF Fields
  <2>7. Holds(t, G!Edges, from)
    <3> HIDE DEF q, t, from
    <3> QED
      BY <2>5, <2>6, Begun
  <2> QED
    BY <2>2, <2>3, <2>6, <2>7
<1>2. CASE G!Visit(r)
  <2>1. PICK n \in q.frontier : query' = [query EXCEPT ![r].current = n, ![r].near = G!Near(G!Edges, n)]
    BY <1>2 DEF G!Visit
  <2>2. q.at = "walking" /\ types' = types
    BY <1>2 DEF G!Visit
  <2>3. DOMAIN query' = Readers /\ \A s \in Readers : s # r => query'[s] = query[s]
    BY <1>0, <2>1
  <2>4. t = [q EXCEPT !.current = n, !.near = G!Near(G!Edges, n)]
    BY <1>0, <2>1
  <2>5. DOMAIN t = Fields /\ t.at = q.at /\ t.depth = q.depth /\ t.frontier = q.frontier /\ t.next = q.next
        /\ t.seen = q.seen /\ t.before = q.before /\ t.jobs = q.jobs /\ t.current = n /\ t.near = G!Near(G!Edges, n)
    <3> HIDE DEF q, t
    <3> QED
      BY <1>0, <2>4 DEF Fields
  <2>6. Holds(t, G!Edges, from)
    <3> HIDE DEF q, t, from
    <3> QED
      BY <1>0, <2>2, <2>5, Visited
  <2> QED
    BY <2>2, <2>3, <2>5, <2>6
<1>3. CASE G!Walk(r)
  <2> DEFINE new == q.near \ q.seen
             kept == [q EXCEPT !.seen = @ \cup new, !.next = @ \cup new, !.frontier = @ \ {q.current}, !.current = G!Nobody]
             lost == [q EXCEPT !.at = "raised"]
  <2>1. /\ q.at = "walking" /\ q.current # G!Nobody /\ types' = types
        /\ query' = [query EXCEPT ![r] = IF G!Near(G!Edges, q.current) # q.near THEN lost ELSE kept]
    BY <1>3 DEF G!Walk
  <2>2. DOMAIN query' = Readers /\ \A s \in Readers : s # r => query'[s] = query[s]
    BY <1>0, <2>1
  <2>3. t = IF G!Near(G!Edges, q.current) # q.near THEN lost ELSE kept
    BY <1>0, <2>1
  <2>4. CASE G!Near(G!Edges, q.current) # q.near
    <3>1. t = lost
      BY <2>3, <2>4
    <3>2. DOMAIN t = Fields /\ t.at = "raised" /\ t.before = q.before /\ t.jobs = q.jobs /\ t.depth = q.depth
      <4> HIDE DEF q, t
      <4> QED
        BY <1>0, <3>1 DEF Fields
    <3>3. Holds(t, G!Edges, from)
      <4> HIDE DEF q, t, from
      <4> QED
        BY <1>0, <3>2 DEF Holds
    <3> QED
      BY <2>1, <2>2, <3>2, <3>3
  <2>5. CASE G!Near(G!Edges, q.current) = q.near
    <3>1. t = kept
      BY <2>3, <2>5
    <3>2. DOMAIN t = Fields /\ t.at = q.at /\ t.depth = q.depth /\ t.before = q.before /\ t.jobs = q.jobs
          /\ t.frontier = q.frontier \ {q.current} /\ t.seen = q.seen \cup (q.near \ q.seen)
          /\ t.next = q.next \cup (q.near \ q.seen) /\ t.current = G!Nobody
      <4> HIDE DEF q, t
      <4> QED
        BY <1>0, <3>1 DEF Fields
    <3>3. Holds(t, G!Edges, from)
      <4> HIDE DEF q, t, from
      <4> QED
        BY <1>0, <2>1, <2>5, <3>2, Walked
    <3> QED
      BY <2>1, <2>2, <3>2, <3>3
  <2> QED
    BY <2>4, <2>5
<1>4. CASE G!Descend(r)
  <2> DEFINE last == q.depth + 1 = Depth \/ q.next = {}
  <2>1. /\ q.at = "walking" /\ q.current = G!Nobody /\ q.frontier = {} /\ types' = types
        /\ query' = [query EXCEPT ![r].depth = @ + 1, ![r].frontier = q.next, ![r].next = {},
                            ![r].at = IF last THEN "found" ELSE @]
    BY <1>4 DEF G!Descend
  <2>2. DOMAIN query' = Readers /\ \A s \in Readers : s # r => query'[s] = query[s]
    BY <1>0, <2>1
  <2>3. t = [q EXCEPT !.depth = @ + 1, !.frontier = q.next, !.next = {}, !.at = IF last THEN "found" ELSE @]
    BY <1>0, <2>1
  <2>4. DOMAIN t = Fields /\ t.depth = q.depth + 1 /\ t.before = q.before /\ t.jobs = q.jobs /\ t.frontier = q.next /\ t.next = {}
        /\ t.seen = q.seen /\ t.current = q.current /\ t.at = (IF last THEN "found" ELSE q.at)
    <3> HIDE DEF q, t, last
    <3> QED
      BY <1>0, <2>3 DEF Fields
  <2>5. Holds(t, G!Edges, from)
    <3> HIDE DEF q, t, from
    <3> QED
      BY <1>0, <2>1, <2>4, Descended
  <2> QED
    BY <2>1, <2>2, <2>4, <2>5
<1> QED
  BY <1>1, <1>2, <1>3, <1>4

LEMMA WalksNext ==
  ASSUME G!Sensible, WalksKept, [G!Next]_G!vars
  PROVE  WalksKept'
<1>1. G!Edges \subseteq G!Edges'
  BY EdgesStay
<1>2. CASE query' = query
  <2>1. DOMAIN query' = Readers
    BY <1>2 DEF WalksKept
  <2>2. ASSUME NEW r \in Readers PROVE Holds(query'[r], G!Edges', G!Node("ARTEFACT", Asks[r]))
    <3>1. Holds(query[r], G!Edges, G!Node("ARTEFACT", Asks[r]))
      BY DEF WalksKept
    <3> QED
      BY <1>1, <1>2, <3>1, HoldsAsGrown
  <2> QED
    BY <2>1, <2>2 DEF WalksKept
<1>3. ASSUME NEW r \in Readers, G!Ask(r) \/ G!Visit(r) \/ G!Walk(r) \/ G!Descend(r)
      PROVE  WalksKept'
  <2>1. DOMAIN query' = Readers /\ types' = types /\ (\A s \in Readers : s # r => query'[s] = query[s])
        /\ Holds(query'[r], G!Edges, G!Node("ARTEFACT", Asks[r]))
    BY <1>3, ReaderStep
  <2>2. G!Edges' = G!Edges
    BY <2>1 DEF G!Edges
  <2>3. ASSUME NEW s \in Readers PROVE Holds(query'[s], G!Edges', G!Node("ARTEFACT", Asks[s]))
    BY <2>1, <2>2 DEF WalksKept
  <2> QED
    BY <2>1, <2>3 DEF WalksKept
<1> QED
  BY <1>2, <1>3 DEF G!Next, G!vars, G!BeginGrowth, G!AddEdge, G!EndGrowth

-----------------------------------------------------------------------------
(* What a job adds                                                           *)

IsList(s) == s \in Seq(G!Range(s))

LEMMA ShortLists ==
  ASSUME NEW x
  PROVE  IsList(<<x>>) /\ G!Range(<<x>>) = {x} /\ IsList(<<>>) /\ G!Range(<<>>) = {}
<1>1. G!Range(<<x>>) = {x}
  BY DEF G!Range
<1>2. G!Range(<<>>) = {}
  BY DEF G!Range
<1> QED
  BY <1>1, <1>2 DEF IsList

LEMMA ListsJoined ==
  ASSUME NEW s, NEW t, IsList(s), IsList(t)
  PROVE  IsList(s \o t) /\ G!Range(s \o t) = G!Range(s) \cup G!Range(t)
<1> DEFINE X == G!Range(s) \cup G!Range(t)
<1>1. s \in Seq(X) /\ t \in Seq(X)
  <2>1. s \in Seq(G!Range(s)) /\ t \in Seq(G!Range(t)) /\ G!Range(s) \subseteq X /\ G!Range(t) \subseteq X
    BY DEF IsList
  <2> HIDE DEF X
  <2> QED
    BY <2>1
<1>2. G!Range(s) = {s[i] : i \in 1..Len(s)} /\ G!Range(t) = {t[i] : i \in 1..Len(t)}
  <2>1. DOMAIN s = 1..Len(s) /\ DOMAIN t = 1..Len(t)
    <3> HIDE DEF X
    <3> QED
      BY <1>1
  <2> QED
    BY <2>1 DEF G!Range
<1> HIDE DEF X
<1>3. s \o t \in Seq(X) /\ Len(s \o t) = Len(s) + Len(t) /\ DOMAIN (s \o t) = 1..(Len(s) + Len(t))
      /\ Len(s) \in Nat /\ Len(t) \in Nat
  BY <1>1
<1>4. \A i \in 1..Len(s) : (s \o t)[i] = s[i] /\ i \in 1..(Len(s) + Len(t))
  BY <1>1, <1>3
<1>5. \A i \in 1..Len(t) : (s \o t)[Len(s) + i] = t[i] /\ Len(s) + i \in 1..(Len(s) + Len(t))
  BY <1>1, <1>3
<1>6. X \subseteq G!Range(s \o t)
  <2>1. \A i \in 1..Len(s) : s[i] \in G!Range(s \o t)
    BY <1>3, <1>4 DEF G!Range
  <2>2. \A i \in 1..Len(t) : t[i] \in G!Range(s \o t)
    BY <1>3, <1>5 DEF G!Range
  <2> QED
    BY <1>2, <2>1, <2>2 DEF X
<1>7. G!Range(s \o t) \subseteq X
  <2>1. \A i \in DOMAIN (s \o t) : (s \o t)[i] \in X
    BY <1>3
  <2> QED
    BY <2>1 DEF G!Range
<1>8. G!Range(s \o t) = X
  BY <1>6, <1>7
<1> QED
  BY <1>3, <1>8 DEF IsList, X

\* Lists in a row are one list of what they hold: FlattenSeq joins them one by one.
LEMMA Flattened ==
  ASSUME NEW n \in Nat, NEW ss, ss = [i \in 1..n |-> ss[i]], \A i \in 1..n : IsList(ss[i])
  PROVE  IsList(G!FlattenSeq(ss)) /\ G!Range(G!FlattenSeq(ss)) = UNION {G!Range(ss[i]) : i \in 1..n}
<1> DEFINE Held(m) == UNION {G!Range(ss[i]) : i \in 1..m}
           Joined(f) == [i \in 1..n |-> IF i = 1 THEN ss[i] ELSE f[i - 1] \o ss[i]]
           C == CHOOSE f : f = Joined(f)
           X == Held(n)
           h == [p \in (1..n) \X Seq(X) |-> p[2] \o ss[p[1]]]
<1>0. Len(ss) = n
  OBVIOUS
<1>1. \A i \in 1..n : ss[i] \in Seq(X)
  <2> SUFFICES ASSUME NEW i \in 1..n PROVE ss[i] \in Seq(X)
    OBVIOUS
  <2>1. ss[i] \in Seq(G!Range(ss[i])) /\ G!Range(ss[i]) \subseteq X
    BY DEF IsList
  <2> HIDE DEF X
  <2> QED
    BY <2>1
<1>2. <<>> \in Seq(X) /\ h \in [(1..n) \X Seq(X) -> Seq(X)]
  <2> HIDE DEF X
  <2>1. \A p \in (1..n) \X Seq(X) : p[2] \o ss[p[1]] \in Seq(X)
    BY <1>1
  <2> QED
    BY <2>1
<1>3. PICK g \in [0..n -> Seq(X)] : Repeats(g, <<>>, h, n)
  <2> DEFINE v == <<>>
             V == Seq(X)
  <2>1. v \in V /\ h \in [(1..n) \X V -> V]
    BY <1>2
  <2> HIDE DEF h, V, v
  <2>2. \E g \in [0..n -> V] : Repeats(g, v, h, n)
    BY <2>1, Repeated
  <2> QED
    BY <2>2 DEF v, V
<1>4. g[0] = <<>> /\ \A i \in 1..n : g[i] = g[i - 1] \o ss[i] /\ g[i] \in Seq(X)
  <2>1. g[0] = <<>> /\ \A i \in 1..n : g[i] = h[<<i, g[i - 1]>>]
    BY <1>3 DEF Repeats
  <2>2. \A i \in 1..n : i - 1 \in 0..n /\ i \in 0..n
    OBVIOUS
  <2> HIDE DEF X
  <2>3. \A i \in 1..n : g[i - 1] \in Seq(X) /\ g[i] \in Seq(X)
    BY <1>3, <2>2
  <2>4. \A i \in 1..n : h[<<i, g[i - 1]>>] = g[i - 1] \o ss[i]
    BY <2>3
  <2> QED
    BY <2>1, <2>3, <2>4
<1> DEFINE d == [i \in 1..n |-> g[i]]
<1>5. d = Joined(d)
  <2> HIDE DEF X, h
  <2>1. \A i \in 1..n : i # 1 => i - 1 \in 1..n
    OBVIOUS
  <2>2. \A i \in 1..n : i = 1 => g[i] = ss[i]
    <3> SUFFICES ASSUME 1 \in 1..n PROVE g[1] = ss[1]
      OBVIOUS
    <3>1. g[1] = g[1 - 1] \o ss[1] /\ ss[1] \in Seq(X)
      BY <1>1, <1>4
    <3>2. 1 - 1 = 0
      OBVIOUS
    <3>3. g[1] = <<>> \o ss[1]
      BY <1>4, <3>1, <3>2
    <3> QED
      BY <3>1, <3>3
  <2>3. \A i \in 1..n : g[i] = IF i = 1 THEN ss[i] ELSE d[i - 1] \o ss[i]
    BY <1>4, <2>1, <2>2
  <2> QED
    BY <2>3
<1>6. C = Joined(C)
  <2> HIDE DEF d
  <2> QED
    BY <1>5
<1>7. \A i \in 1..n : C[i] = IF i = 1 THEN ss[i] ELSE C[i - 1] \o ss[i]
  <2> HIDE DEF C
  <2> QED
    BY <1>6
<1> HIDE DEF C, X, h, d
<1> DEFINE S == {m \in 0..n : m = 0 \/ (IsList(C[m]) /\ G!Range(C[m]) = Held(m))}
<1>8. ASSUME NEW m \in 0..(n - 1), m \in S PROVE m + 1 \in S
  <2>1. m + 1 \in 1..n /\ m + 1 \in 0..n /\ (m + 1) - 1 = m
    OBVIOUS
  <2>2. Held(m + 1) = Held(m) \cup G!Range(ss[m + 1])
    <3>1. \A i \in 1..(m + 1) : i \in 1..m \/ i = m + 1
      OBVIOUS
    <3>2. m + 1 \in 1..(m + 1) /\ \A i \in 1..m : i \in 1..(m + 1)
      OBVIOUS
    <3> QED
      BY <3>1, <3>2
  <2>3. IsList(ss[m + 1])
    BY <2>1
  <2>4. CASE m = 0
    <3>1. m + 1 = 1
      BY <2>4
    <3>2. C[m + 1] = ss[m + 1]
      BY <1>7, <2>1, <3>1
    <3>3. Held(m) = {}
      BY <2>4
    <3> HIDE DEF Held
    <3>4. G!Range(C[m + 1]) = Held(m + 1)
      BY <2>2, <3>2, <3>3
    <3> QED
      BY <2>1, <2>3, <3>2, <3>4
  <2>5. CASE m # 0
    <3>1. IsList(C[m]) /\ G!Range(C[m]) = Held(m)
      BY <1>8, <2>5
    <3>0. m + 1 # 1
      BY <2>5
    <3>2. C[m + 1] = C[m] \o ss[m + 1]
      <4>1. C[m + 1] = C[(m + 1) - 1] \o ss[m + 1]
        BY <1>7, <2>1, <3>0
      <4> QED
        BY <2>1, <4>1
    <3> HIDE DEF Held
    <3>3. IsList(C[m + 1]) /\ G!Range(C[m + 1]) = Held(m + 1)
      BY <2>2, <2>3, <3>1, <3>2, ListsJoined
    <3> QED
      BY <2>1, <3>3
  <2> QED
    BY <2>4, <2>5
<1>9. 0..n \subseteq S
  <2>1. 0 \in S
    OBVIOUS
  <2> HIDE DEF S
  <2> QED
    BY <1>8, <2>1, StepByStep
<1>10. CASE n = 0
  <2>1. G!FlattenSeq(ss) = <<>>
    <3>1. ss = <<>>
      BY <1>10
    <3> QED
      BY <1>0, <1>10, <3>1 DEF G!FlattenSeq
  <2>2. Held(0) = {}
    OBVIOUS
  <2> QED
    BY <1>10, <2>1, <2>2, ShortLists
<1>11. CASE n # 0
  <2>1. G!FlattenSeq(ss) = C[n]
    BY <1>0, <1>11 DEF G!FlattenSeq, C
  <2>2. n \in 0..n
    OBVIOUS
  <2>3. n \in S
    BY <1>9, <2>2
  <2> QED
    BY <1>11, <2>1, <2>3
<1> QED
  BY <1>10, <1>11

\* The forms of a call: a thing an artefact is about, a user, another artefact, or an
\* indicator and its dataset.
AboutThing(c, a) == a.category \in DOMAIN G!EntityOf /\ c = G!Call(G!Self(a), G!Node(G!EntityOf[a.category], a.about), "FOUND_IN")
AboutUser(c, a) == a.user # G!None /\ c = G!Call(G!Self(a), G!Node("USER_ACCOUNT", a.user), "FOUND_IN")
Relating(c, a, b) == b.id # a.id /\ c = G!Call(G!Self(a), G!Self(b), G!EdgeType(a, b))
Indicating(c, j, v) == c = G!Call(G!Node("IOC", j \o v), G!Node("DATASET", j), "FOUND_IN")

LEMMA EntityForms ==
  ASSUME NEW a
  PROVE  IsList(G!EntityCalls(a)) /\ \A c : c \in G!Range(G!EntityCalls(a)) <=> AboutThing(c, a) \/ AboutUser(c, a)
<1> DEFINE s == IF a.category \in DOMAIN G!EntityOf
                THEN <<G!Call(G!Self(a), G!Node(G!EntityOf[a.category], a.about), "FOUND_IN")>> ELSE <<>>
           t == IF a.user # G!None THEN <<G!Call(G!Self(a), G!Node("USER_ACCOUNT", a.user), "FOUND_IN")>> ELSE <<>>
<1>1. IsList(s) /\ \A c : c \in G!Range(s) <=> AboutThing(c, a)
  BY ShortLists DEF AboutThing
<1>2. IsList(t) /\ \A c : c \in G!Range(t) <=> AboutUser(c, a)
  BY ShortLists DEF AboutUser
<1>3. G!EntityCalls(a) = s \o t
  BY DEF G!EntityCalls
<1> HIDE DEF s, t
<1>4. IsList(s \o t) /\ G!Range(s \o t) = G!Range(s) \cup G!Range(t)
  BY <1>1, <1>2, ListsJoined
<1> QED
  BY <1>1, <1>2, <1>3, <1>4

LEMMA RelatedForms ==
  ASSUME G!Sensible, NEW j \in Jobs, NEW a
  PROVE  /\ IsList(G!RelatedCalls(j, a))
         /\ \A c \in G!Range(G!RelatedCalls(j, a)) : \E n \in DOMAIN Found[j] : Relating(c, a, Found[j][n])
<1> DEFINE one(n) == LET b == Found[j][n] IN
                 IF b.id \in a.near /\ b.id # a.id THEN <<G!Call(G!Self(a), G!Self(b), G!EdgeType(a, b))>> ELSE <<>>
           ss == [n \in DOMAIN Found[j] |-> one(n)]
           max == Len(Found[j])
<1>1. max \in Nat /\ DOMAIN Found[j] = 1..max
  BY DEF G!Sensible, G!Ordered
<1>2. G!RelatedCalls(j, a) = G!FlattenSeq(ss)
  BY DEF G!RelatedCalls
<1>3. ASSUME NEW n \in 1..max
      PROVE  IsList(one(n)) /\ \A c \in G!Range(one(n)) : Relating(c, a, Found[j][n])
  <2> DEFINE x == G!Call(G!Self(a), G!Self(Found[j][n]), G!EdgeType(a, Found[j][n]))
  <2>1. IsList(<<x>>) /\ G!Range(<<x>>) = {x} /\ IsList(<<>>) /\ G!Range(<<>>) = {}
    BY ShortLists
  <2>2. CASE Found[j][n].id \in a.near /\ Found[j][n].id # a.id
    BY <2>1, <2>2 DEF Relating
  <2>3. CASE ~ (Found[j][n].id \in a.near /\ Found[j][n].id # a.id)
    BY <2>1, <2>3
  <2> QED
    BY <2>2, <2>3
<1> HIDE DEF one, max
<1>4. ss = [n \in 1..max |-> ss[n]] /\ \A n \in 1..max : ss[n] = one(n)
  BY <1>1
<1> HIDE DEF ss
<1>5. \A n \in 1..max : IsList(ss[n])
  BY <1>3, <1>4
<1>6. IsList(G!FlattenSeq(ss)) /\ G!Range(G!FlattenSeq(ss)) = UNION {G!Range(ss[i]) : i \in 1..max}
  BY <1>1, <1>4, <1>5, Flattened
<1>7. ASSUME NEW c \in G!Range(G!RelatedCalls(j, a)) PROVE \E n \in DOMAIN Found[j] : Relating(c, a, Found[j][n])
  <2>1. PICK i \in 1..max : c \in G!Range(ss[i])
    BY <1>2, <1>6
  <2> QED
    BY <1>1, <1>3, <1>4, <2>1
<1> QED
  BY <1>2, <1>6, <1>7

LEMMA ArtefactForms ==
  ASSUME G!Sensible, NEW j \in Jobs
  PROVE  /\ IsList(G!ArtefactCalls(j))
         /\ \A c \in G!Range(G!ArtefactCalls(j)) : \E m \in DOMAIN Found[j] : LET a == Found[j][m] IN
              AboutThing(c, a) \/ AboutUser(c, a) \/ \E n \in DOMAIN Found[j] : Relating(c, a, Found[j][n])
         /\ \A m \in DOMAIN Found[j] : \A c :
              AboutThing(c, Found[j][m]) \/ AboutUser(c, Found[j][m]) => c \in G!Range(G!ArtefactCalls(j))
<1> DEFINE one(n) == G!EntityCalls(Found[j][n]) \o G!RelatedCalls(j, Found[j][n])
           ss == [n \in DOMAIN Found[j] |-> one(n)]
           max == Len(Found[j])
<1>1. max \in Nat /\ DOMAIN Found[j] = 1..max
  BY DEF G!Sensible, G!Ordered
<1>2. G!ArtefactCalls(j) = G!FlattenSeq(ss)
  BY DEF G!ArtefactCalls
<1>3. ASSUME NEW n \in 1..max
      PROVE  IsList(one(n)) /\ G!Range(one(n)) = G!Range(G!EntityCalls(Found[j][n])) \cup G!Range(G!RelatedCalls(j, Found[j][n]))
  BY EntityForms, RelatedForms, ListsJoined
<1> HIDE DEF one, max
<1>4. ss = [n \in 1..max |-> ss[n]] /\ \A n \in 1..max : ss[n] = one(n)
  BY <1>1
<1> HIDE DEF ss
<1>5. \A n \in 1..max : IsList(ss[n])
  BY <1>3, <1>4
<1>6. IsList(G!FlattenSeq(ss)) /\ G!Range(G!FlattenSeq(ss)) = UNION {G!Range(ss[i]) : i \in 1..max}
  BY <1>1, <1>4, <1>5, Flattened
<1>7. ASSUME NEW c \in G!Range(G!ArtefactCalls(j))
      PROVE  \E m \in DOMAIN Found[j] : LET a == Found[j][m] IN
               AboutThing(c, a) \/ AboutUser(c, a) \/ \E n \in DOMAIN Found[j] : Relating(c, a, Found[j][n])
  <2>1. PICK i \in 1..max : c \in G!Range(ss[i])
    BY <1>2, <1>6
  <2>2. c \in G!Range(G!EntityCalls(Found[j][i])) \/ c \in G!Range(G!RelatedCalls(j, Found[j][i]))
    BY <1>3, <1>4, <2>1
  <2>3. CASE c \in G!Range(G!EntityCalls(Found[j][i]))
    BY <1>1, <2>3, EntityForms
  <2>4. CASE c \in G!Range(G!RelatedCalls(j, Found[j][i]))
    BY <1>1, <2>4, RelatedForms
  <2> QED
    BY <2>2, <2>3, <2>4
<1>8. ASSUME NEW m \in DOMAIN Found[j], NEW c, AboutThing(c, Found[j][m]) \/ AboutUser(c, Found[j][m])
      PROVE  c \in G!Range(G!ArtefactCalls(j))
  <2>1. c \in G!Range(G!EntityCalls(Found[j][m]))
    BY <1>8, EntityForms
  <2> QED
    BY <1>1, <1>2, <1>3, <1>4, <1>6, <2>1
<1> QED
  BY <1>2, <1>6, <1>7, <1>8

\* All calls of a job: a list, each of one of the forms, and of two of them at least all.
LEMMA CallForms ==
  ASSUME G!Sensible, NEW j \in Jobs
  PROVE  /\ G!CallsOf(j) \in Seq(G!Wanted(j)) /\ G!Wanted(j) = G!Range(G!CallsOf(j))
         /\ \A c \in G!Wanted(j) :
              \/ \E a \in G!ArtefactsOf(Jobs) : AboutThing(c, a) \/ AboutUser(c, a)
              \/ \E a, b \in G!ArtefactsOf(Jobs) : Relating(c, a, b)
              \/ \E v : Indicating(c, j, v)
         /\ \A a \in G!ArtefactsOf({j}) : \A c : AboutThing(c, a) \/ AboutUser(c, a) => c \in G!Wanted(j)
<1>1. IsList(G!IocCalls(j)) /\ \A c \in G!Range(G!IocCalls(j)) : \E v : Indicating(c, j, v)
  <2> DEFINE one(n) == G!Call(G!Node("IOC", j \o Listed[j][n]), G!Node("DATASET", j), "FOUND_IN")
             max == Len(Listed[j])
             s == [n \in 1..max |-> one(n)]
  <2>1. max \in Nat /\ DOMAIN Listed[j] = 1..max
    BY DEF G!Sensible, G!Ordered
  <2>2. G!IocCalls(j) = s
    BY <2>1 DEF G!IocCalls
  <2>3. \A n : \E v : Indicating(one(n), j, v)
    BY DEF Indicating
  <2> HIDE DEF one, max
  <2>4. DOMAIN s = 1..max /\ \A n \in 1..max : s[n] = one(n) /\ s[n] \in G!Range(s)
    BY DEF G!Range
  <2>5. s \in Seq(G!Range(s))
    BY <2>1, <2>4
  <2>6. \A c \in G!Range(s) : \E n \in 1..max : c = one(n)
    BY <2>4 DEF G!Range
  <2> QED
    BY <2>2, <2>3, <2>5, <2>6 DEF IsList
<1>2. IsList(G!ArtefactCalls(j))
  BY ArtefactForms
<1>3. IsList(G!CallsOf(j)) /\ G!Range(G!CallsOf(j)) = G!Range(G!ArtefactCalls(j)) \cup G!Range(G!IocCalls(j))
  BY <1>1, <1>2, ListsJoined DEF G!CallsOf
<1>4. \A n \in DOMAIN Found[j] : Found[j][n] \in G!ArtefactsOf(Jobs)
  BY DEF G!ArtefactsOf
<1>5. \A a \in G!ArtefactsOf({j}) : \E n \in DOMAIN Found[j] : a = Found[j][n]
  BY DEF G!ArtefactsOf
<1>6. G!Wanted(j) = G!Range(G!CallsOf(j))
  BY DEF G!Wanted
<1>7. ASSUME NEW c \in G!Wanted(j)
      PROVE  \/ \E a \in G!ArtefactsOf(Jobs) : AboutThing(c, a) \/ AboutUser(c, a)
             \/ \E a, b \in G!ArtefactsOf(Jobs) : Relating(c, a, b)
             \/ \E v : Indicating(c, j, v)
  <2>1. CASE c \in G!Range(G!IocCalls(j))
    BY <1>1, <2>1
  <2>2. CASE c \in G!Range(G!ArtefactCalls(j))
    <3>1. PICK m \in DOMAIN Found[j] : AboutThing(c, Found[j][m]) \/ AboutUser(c, Found[j][m])
            \/ \E n \in DOMAIN Found[j] : Relating(c, Found[j][m], Found[j][n])
      BY <2>2, ArtefactForms
    <3> QED
      BY <1>4, <3>1
  <2> QED
    BY <1>3, <1>6, <2>1, <2>2
<1>8. ASSUME NEW a \in G!ArtefactsOf({j}), NEW c, AboutThing(c, a) \/ AboutUser(c, a) PROVE c \in G!Wanted(j)
  <2>1. c \in G!Range(G!ArtefactCalls(j))
    BY <1>5, <1>8, ArtefactForms
  <2> QED
    BY <1>3, <1>6, <2>1
<1> QED
  BY <1>3, <1>6, <1>7, <1>8 DEF IsList

LEMMA EntityKinds ==
  ASSUME NEW x \in DOMAIN G!EntityOf
  PROVE  G!EntityOf[x] \in {"PROCESS", "FILE", "REGISTRY_KEY", "NETWORK_ENDPOINT"}
BY DEF G!EntityOf

\* A call has two ends, and an indicator's never leads to what artefacts are about; only
\* two artefacts are joined by another type than FOUND_IN.
Hung == {"IOC", "DATASET"}
LEMMA CallEnds ==
  ASSUME G!Sensible, NEW j \in Jobs, NEW c \in G!Wanted(j)
  PROVE  /\ c.left # c.right /\ (c.left[1] \in Hung <=> c.right[1] \in Hung)
         /\ \/ c.type = "FOUND_IN" /\ c.right[1] # "ARTEFACT"
            \/ \E a, b \in G!ArtefactsOf(Jobs) : Relating(c, a, b)
<1>1. ASSUME NEW a \in G!ArtefactsOf(Jobs), AboutThing(c, a)
      PROVE  /\ c.left = <<"ARTEFACT", a.id>> /\ c.type = "FOUND_IN"
             /\ c.right[1] \in {"PROCESS", "FILE", "REGISTRY_KEY", "NETWORK_ENDPOINT"}
  BY <1>1, EntityKinds DEF AboutThing, G!Call, G!Node, G!Self
<1>2. ASSUME NEW a \in G!ArtefactsOf(Jobs), AboutUser(c, a)
      PROVE  c.left = <<"ARTEFACT", a.id>> /\ c.type = "FOUND_IN" /\ c.right = <<"USER_ACCOUNT", a.user>>
  BY <1>2 DEF AboutUser, G!Call, G!Node, G!Self
<1>3. ASSUME NEW a \in G!ArtefactsOf(Jobs), NEW b \in G!ArtefactsOf(Jobs), Relating(c, a, b)
      PROVE  c.left = <<"ARTEFACT", a.id>> /\ c.right = <<"ARTEFACT", b.id>> /\ a.id # b.id
  BY <1>3 DEF Relating, G!Call, G!Node, G!Self
<1>4. ASSUME NEW v, Indicating(c, j, v)
      PROVE  c.left = <<"IOC", j \o v>> /\ c.right = <<"DATASET", j>> /\ c.type = "FOUND_IN"
  BY <1>4 DEF Indicating, G!Call, G!Node
<1>5. CASE \E a \in G!ArtefactsOf(Jobs) : AboutThing(c, a)
  <2>1. PICK a \in G!ArtefactsOf(Jobs) : AboutThing(c, a)
    BY <1>5
  <2>2. c.left = <<"ARTEFACT", a.id>> /\ c.type = "FOUND_IN"
        /\ c.right[1] \in {"PROCESS", "FILE", "REGISTRY_KEY", "NETWORK_ENDPOINT"}
    BY <1>1, <2>1
  <2>3. c.left[1] = "ARTEFACT"
    BY <2>2
  <2>4. c.left[1] # c.right[1]
    BY <2>2, <2>3
  <2> QED
    BY <2>2, <2>3, <2>4 DEF Hung
<1>6. CASE \E a \in G!ArtefactsOf(Jobs) : AboutUser(c, a)
  <2>1. PICK a \in G!ArtefactsOf(Jobs) : AboutUser(c, a)
    BY <1>6
  <2> QED
    BY <1>2, <2>1 DEF Hung
<1>7. CASE \E a, b \in G!ArtefactsOf(Jobs) : Relating(c, a, b)
  <2>1. PICK a \in G!ArtefactsOf(Jobs), b \in G!ArtefactsOf(Jobs) : Relating(c, a, b)
    BY <1>7
  <2> QED
    BY <1>3, <1>7, <2>1 DEF Hung
<1>8. CASE \E v : Indicating(c, j, v)
  BY <1>4, <1>8 DEF Hung
<1> QED
  BY <1>5, <1>6, <1>7, <1>8, CallForms

\* Calls for one edge agree: a type hangs on two categories, in either order.
LEMMA CallsAgree ==
  ASSUME G!Sensible, NEW j \in Jobs, NEW k \in Jobs, NEW c \in G!Wanted(j), NEW d \in G!Wanted(k),
         {c.left, c.right} = {d.left, d.right}
  PROVE  c.type = d.type
<1>1. (c.left = d.left /\ c.right = d.right) \/ (c.left = d.right /\ c.right = d.left)
  OBVIOUS
<1>2. ASSUME NEW e, NEW a \in G!ArtefactsOf(Jobs), NEW b \in G!ArtefactsOf(Jobs), Relating(e, a, b)
      PROVE  e.left = <<"ARTEFACT", a.id>> /\ e.right = <<"ARTEFACT", b.id>> /\ e.type = G!EdgeType(a, b)
  BY <1>2 DEF Relating, G!Call, G!Node, G!Self
<1>3. CASE \E a, b \in G!ArtefactsOf(Jobs) : Relating(c, a, b)
  <2>1. PICK a \in G!ArtefactsOf(Jobs), b \in G!ArtefactsOf(Jobs) : Relating(c, a, b)
    BY <1>3
  <2>2. c.left = <<"ARTEFACT", a.id>> /\ c.right = <<"ARTEFACT", b.id>> /\ c.type = G!EdgeType(a, b)
    BY <1>2, <2>1
  <2>3. d.right[1] = "ARTEFACT"
    BY <1>1, <2>2
  <2>4. PICK x \in G!ArtefactsOf(Jobs), y \in G!ArtefactsOf(Jobs) : Relating(d, x, y)
    BY <2>3, CallEnds
  <2>5. d.left = <<"ARTEFACT", x.id>> /\ d.right = <<"ARTEFACT", y.id>> /\ d.type = G!EdgeType(x, y)
    BY <1>2, <2>4
  <2>6. (a.id = x.id /\ b.id = y.id) \/ (a.id = y.id /\ b.id = x.id)
    BY <1>1, <2>2, <2>5
  <2>7. (a.category = x.category /\ b.category = y.category) \/ (a.category = y.category /\ b.category = x.category)
    BY <2>6 DEF G!Sensible
  <2>8. {a.category, b.category} = {x.category, y.category}
    BY <2>7
  <2>9. G!EdgeType(a, b) = G!EdgeType(x, y)
    BY <2>8 DEF G!EdgeType
  <2> QED
    BY <2>2, <2>5, <2>9
<1>4. CASE ~ \E a, b \in G!ArtefactsOf(Jobs) : Relating(c, a, b)
  <2>1. c.type = "FOUND_IN" /\ c.right[1] # "ARTEFACT"
    BY <1>4, CallEnds
  <2>2. CASE \E x, y \in G!ArtefactsOf(Jobs) : Relating(d, x, y)
    <3>1. PICK x \in G!ArtefactsOf(Jobs), y \in G!ArtefactsOf(Jobs) : Relating(d, x, y)
      BY <2>2
    <3>2. d.left = <<"ARTEFACT", x.id>> /\ d.right = <<"ARTEFACT", y.id>>
      BY <1>2, <3>1
    <3>3. d.left[1] = "ARTEFACT" /\ d.right[1] = "ARTEFACT"
      BY <3>2
    <3> QED
      BY <1>1, <2>1, <3>3
  <2>3. CASE ~ \E x, y \in G!ArtefactsOf(Jobs) : Relating(d, x, y)
    BY <2>1, <2>3, CallEnds
  <2> QED
    BY <2>2, <2>3
<1> QED
  BY <1>3, <1>4

-----------------------------------------------------------------------------
(* What the hooks count                                                      *)

Done(c) == {c.left, c.right} \in G!Edges /\ types[{c.left, c.right}] = c.type

\* Every edge is some job's, with its type, and counted once; a job that is growing
\* has for each of its calls the call ahead or the edge behind it.
Counted ==
  /\ IsFiniteSet(G!Edges) /\ added = Cardinality(G!Edges)
  /\ \A e \in G!Edges : \E j \in Jobs : \E c \in G!Wanted(j) : e = {c.left, c.right} /\ types[e] = c.type
  /\ pc \in [Jobs -> {"running", "growing", "over"}] /\ DOMAIN todo = Jobs
  /\ \A j \in Jobs : pc[j] = "growing" => todo[j] \in Seq(G!Wanted(j)) /\ \A c \in G!Wanted(j) : c \in G!Range(todo[j]) \/ Done(c)
  /\ \A j \in Jobs : pc[j] = "over" => \A c \in G!Wanted(j) : Done(c)

LEMMA CountedFirst ==
  ASSUME G!Init
  PROVE  Counted
<1>1. types = <<>> /\ added = 0 /\ pc = [j \in Jobs |-> "running"] /\ DOMAIN todo = Jobs
  BY DEF G!Init
<1>2. G!Edges = {}
  BY <1>1 DEF G!Edges
<1>3. IsFiniteSet(G!Edges) /\ added = Cardinality(G!Edges)
  BY <1>1, <1>2, FS_EmptySet
<1>4. pc \in [Jobs -> {"running", "growing", "over"}] /\ \A j \in Jobs : pc[j] = "running"
  BY <1>1
<1> QED
  BY <1>1, <1>2, <1>3, <1>4 DEF Counted

\* A call that counts is for an edge that is not there: no edge changes its type.
LEMMA NewEdge ==
  ASSUME G!Sensible, Counted, NEW j \in Jobs, NEW c \in G!Wanted(j), G!Counts(c)
  PROVE  {c.left, c.right} \notin G!Edges
<1>1. SUFFICES ASSUME {c.left, c.right} \in G!Edges PROVE FALSE
  OBVIOUS
<1>2. PICK k \in Jobs : \E d \in G!Wanted(k) : {c.left, c.right} = {d.left, d.right} /\ types[{c.left, c.right}] = d.type
  BY <1>1 DEF Counted
<1>3. PICK d \in G!Wanted(k) : {c.left, c.right} = {d.left, d.right} /\ types[{c.left, c.right}] = d.type
  BY <1>2
<1>4. d.type = c.type
  BY <1>3, CallsAgree
<1> QED
  BY <1>1, <1>3, <1>4 DEF G!Counts

LEMMA AddCounts ==
  ASSUME G!Sensible, Counted, NEW j \in Jobs, G!AddEdge(j)
  PROVE  Counted'
<1>1. pc[j] = "growing" /\ todo[j] # <<>> /\ pc' = pc /\ todo' = [todo EXCEPT ![j] = Tail(@)]
  BY DEF G!AddEdge
<1>2. todo[j] \in Seq(G!Wanted(j)) /\ DOMAIN todo = Jobs /\ pc \in [Jobs -> {"running", "growing", "over"}]
      /\ \A k \in Jobs : pc[k] = "growing" => todo[k] \in Seq(G!Wanted(k))
  BY <1>1 DEF Counted
<1>3. PICK c \in G!Wanted(j) : c = Head(todo[j]) /\ Tail(todo[j]) \in Seq(G!Wanted(j))
  BY <1>1, <1>2
<1> DEFINE edge == {c.left, c.right}
<1>4. \A d \in G!Range(todo[j]) : d = c \/ d \in G!Range(Tail(todo[j]))
  <2> DEFINE s == todo[j]
  <2> SUFFICES ASSUME NEW d \in G!Range(s) PROVE d = Head(s) \/ d \in G!Range(Tail(s))
    BY <1>3
  <2>1. s \in Seq(G!Wanted(j)) /\ s # <<>>
    BY <1>1, <1>2
  <2> HIDE DEF s
  <2>2. PICK i \in 1..Len(s) : d = s[i]
    BY <2>1 DEF G!Range
  <2>3. CASE i = 1
    BY <2>1, <2>2, <2>3
  <2>4. CASE i # 1
    <3>1. i - 1 \in 1..Len(Tail(s)) /\ Tail(s)[i - 1] = s[i]
      BY <2>1, <2>2, <2>4
    <3>2. i - 1 \in DOMAIN Tail(s)
      BY <2>1, <3>1
    <3> QED
      BY <2>2, <3>1, <3>2 DEF G!Range
  <2> QED
    BY <2>3, <2>4
<1>5. /\ Done(c)' /\ \A d : Done(d) => Done(d)'
      /\ IsFiniteSet(G!Edges') /\ added' = Cardinality(G!Edges')
      /\ \A e \in G!Edges' : \E k \in Jobs : \E d \in G!Wanted(k) : e = {d.left, d.right} /\ types'[e] = d.type
  <2>0. IsFiniteSet(G!Edges) /\ added = Cardinality(G!Edges)
        /\ \A e \in G!Edges : \E k \in Jobs : \E d \in G!Wanted(k) : e = {d.left, d.right} /\ types[e] = d.type
    BY DEF Counted
  <2>1. CASE G!Counts(c)
    <3>1. types' = [e \in G!Edges \cup {edge} |-> IF e = edge THEN c.type ELSE types[e]] /\ added' = added + 1
      BY <1>3, <2>1 DEF G!AddEdge
    <3>2. edge \notin G!Edges
      BY <1>3, <2>1, NewEdge
    <3> HIDE DEF edge
    <3>3. G!Edges' = G!Edges \cup {edge}
      BY <3>1 DEF G!Edges
    <3>4. types'[edge] = c.type /\ \A e \in G!Edges : types'[e] = types[e]
      BY <3>1, <3>2
    <3>5. IsFiniteSet(G!Edges') /\ Cardinality(G!Edges') = Cardinality(G!Edges) + 1
      BY <2>0, <3>2, <3>3, FS_AddElement
    <3>6. Done(c)'
      BY <3>3, <3>4 DEF Done, edge
    <3>7. \A d : Done(d) => Done(d)'
      BY <3>3, <3>4 DEF Done
    <3>8. ASSUME NEW e \in G!Edges'
          PROVE  \E k \in Jobs : \E d \in G!Wanted(k) : e = {d.left, d.right} /\ types'[e] = d.type
      <4>1. CASE e = edge
        BY <1>3, <3>4, <4>1 DEF edge
      <4>2. CASE e # edge
        BY <2>0, <3>3, <3>4, <4>2
      <4> QED
        BY <4>1, <4>2
    <3> QED
      BY <2>0, <3>1, <3>5, <3>6, <3>7, <3>8
  <2>2. CASE ~ G!Counts(c)
    <3>1. types' = types /\ added' = added
      BY <1>3, <2>2 DEF G!AddEdge
    <3>2. G!Edges' = G!Edges
      BY <3>1 DEF G!Edges
    <3>3. Done(c)
      BY <2>2 DEF G!Counts, Done
    <3>4. \A d : Done(d) => Done(d)'
      BY <3>1, <3>2 DEF Done
    <3> QED
      BY <2>0, <3>1, <3>2, <3>3, <3>4
  <2> QED
    BY <2>1, <2>2
<1>6. DOMAIN todo' = Jobs /\ todo'[j] = Tail(todo[j]) /\ \A k \in Jobs : k # j => todo'[k] = todo[k]
  BY <1>1, <1>2
<1>7. ASSUME NEW k \in Jobs, pc'[k] = "growing"
      PROVE  todo'[k] \in Seq(G!Wanted(k)) /\ \A d \in G!Wanted(k) : d \in G!Range(todo'[k]) \/ Done(d)'
  <2>1. \A d \in G!Wanted(k) : d \in G!Range(todo[k]) \/ Done(d)
    BY <1>1, <1>7 DEF Counted
  <2>2. CASE k = j
    BY <1>3, <1>4, <1>5, <1>6, <2>1, <2>2
  <2>3. CASE k # j
    BY <1>1, <1>2, <1>5, <1>6, <1>7, <2>1, <2>3
  <2> QED
    BY <2>2, <2>3
<1>8. ASSUME NEW k \in Jobs, pc'[k] = "over"
      PROVE  \A d \in G!Wanted(k) : Done(d)'
  BY <1>1, <1>5, <1>8 DEF Counted
<1> QED
  BY <1>1, <1>2, <1>5, <1>6, <1>7, <1>8 DEF Counted

LEMMA CountedNext ==
  ASSUME G!Sensible, Counted, [G!Next]_G!vars
  PROVE  Counted'
<1>0. /\ pc \in [Jobs -> {"running", "growing", "over"}] /\ DOMAIN todo = Jobs
      /\ IsFiniteSet(G!Edges) /\ added = Cardinality(G!Edges)
      /\ \A e \in G!Edges : \E j \in Jobs : \E c \in G!Wanted(j) : e = {c.left, c.right} /\ types[e] = c.type
      /\ \A j \in Jobs : pc[j] = "growing" => todo[j] \in Seq(G!Wanted(j)) /\ \A c \in G!Wanted(j) : c \in G!Range(todo[j]) \/ Done(c)
      /\ \A j \in Jobs : pc[j] = "over" => \A c \in G!Wanted(j) : Done(c)
  BY DEF Counted
<1>1. ASSUME types' = types, added' = added
      PROVE  /\ IsFiniteSet(G!Edges') /\ added' = Cardinality(G!Edges')
             /\ \A e \in G!Edges' : \E j \in Jobs : \E c \in G!Wanted(j) : e = {c.left, c.right} /\ types'[e] = c.type
             /\ \A c : Done(c) => Done(c)'
  <2>1. G!Edges' = G!Edges
    BY <1>1 DEF G!Edges
  <2> QED
    BY <1>0, <1>1, <2>1 DEF Done
<1>2. ASSUME NEW j \in Jobs, G!BeginGrowth(j) PROVE Counted'
  <2>1. types' = types /\ added' = added /\ pc' = [pc EXCEPT ![j] = "growing"] /\ todo' = [todo EXCEPT ![j] = G!CallsOf(j)]
    BY <1>2 DEF G!BeginGrowth
  <2>2. G!CallsOf(j) \in Seq(G!Wanted(j)) /\ G!Wanted(j) = G!Range(G!CallsOf(j))
    BY CallForms
  <2>3. ASSUME NEW k \in Jobs, pc'[k] = "growing"
        PROVE  todo'[k] \in Seq(G!Wanted(k)) /\ \A c \in G!Wanted(k) : c \in G!Range(todo'[k]) \/ Done(c)'
    <3>1. CASE k = j
      BY <1>0, <2>1, <2>2, <3>1
    <3>2. CASE k # j
      BY <1>0, <1>1, <2>1, <2>3, <3>2
    <3> QED
      BY <3>1, <3>2
  <2>4. ASSUME NEW k \in Jobs, pc'[k] = "over" PROVE \A c \in G!Wanted(k) : Done(c)'
    <3>1. pc[k] = "over"
      BY <1>0, <2>1, <2>4
    <3> QED
      BY <1>0, <1>1, <2>1, <3>1
  <2>5. pc' \in [Jobs -> {"running", "growing", "over"}] /\ DOMAIN todo' = Jobs
    BY <1>0, <2>1
  <2> QED
    BY <1>1, <2>1, <2>3, <2>4, <2>5 DEF Counted
<1>3. ASSUME NEW j \in Jobs, G!AddEdge(j) PROVE Counted'
  BY <1>3, AddCounts
<1>4. ASSUME NEW j \in Jobs, G!EndGrowth(j) PROVE Counted'
  <2>1. types' = types /\ added' = added /\ todo' = todo /\ pc[j] = "growing" /\ todo[j] = <<>>
        /\ pc' = [pc EXCEPT ![j] = "over"]
    BY <1>4 DEF G!EndGrowth
  <2>2. \A c \in G!Wanted(j) : Done(c)
    <3>1. G!Range(todo[j]) = {}
      BY <2>1 DEF G!Range
    <3> QED
      BY <1>0, <2>1, <3>1
  <2>3. ASSUME NEW k \in Jobs, pc'[k] = "growing"
        PROVE  todo'[k] \in Seq(G!Wanted(k)) /\ \A c \in G!Wanted(k) : c \in G!Range(todo'[k]) \/ Done(c)'
    <3>1. pc[k] = "growing"
      BY <1>0, <2>1, <2>3
    <3> QED
      BY <1>0, <1>1, <2>1, <3>1
  <2>4. ASSUME NEW k \in Jobs, pc'[k] = "over" PROVE \A c \in G!Wanted(k) : Done(c)'
    <3>1. k = j \/ pc[k] = "over"
      BY <1>0, <2>1, <2>4
    <3> QED
      BY <1>0, <1>1, <2>1, <2>2, <3>1
  <2>5. pc' \in [Jobs -> {"running", "growing", "over"}] /\ DOMAIN todo' = Jobs
    BY <1>0, <2>1
  <2> QED
    BY <1>1, <2>1, <2>3, <2>4, <2>5 DEF Counted
<1>5. ASSUME UNCHANGED <<pc, todo, types, added>> PROVE Counted'
  BY <1>0, <1>1, <1>5 DEF Counted
<1> QED
  BY <1>2, <1>3, <1>4, <1>5 DEF G!Next, G!vars, G!Ask, G!Visit, G!Walk, G!Descend
-----------------------------------------------------------------------------
(* The theorems                                                              *)

\* A walk that has ended has, however jobs grew the graph under it, every node within
\* its depth of the graph it began on, and none that is not within it in the graph of
\* today: query_related against add_artefact_relationships.
THEOREM WalksStayCurrent == G!Sensible /\ G!Spec => []G!WalksAreCurrent
<1> DEFINE Kept == G!Sensible /\ WalksKept
<1>1. G!Sensible /\ G!Init => Kept
  BY WalksBegin
<1>2. Kept /\ [G!Next]_G!vars => Kept'
  <2>1. G!Sensible => G!Sensible'
    OBVIOUS
  <2> QED
    BY <2>1, WalksNext
<1>3. Kept => G!WalksAreCurrent
  BY DEF WalksKept, Holds, Surveyed, G!WalksAreCurrent, G!Within
<1> QED
  BY <1>1, <1>2, <1>3, PTL DEF G!Spec

\* What a walk remembers of the jobs that were over when it began: all their edges.
Remembered ==
  \A r \in Readers : \A j \in query[r].jobs : j \in Jobs /\ \A c \in G!Wanted(j) : {c.left, c.right} \in query[r].before

LEMMA RememberedNext ==
  ASSUME G!Sensible, WalksKept, Counted, Remembered, [G!Next]_G!vars
  PROVE  Remembered'
<1>1. CASE query' = query
  BY <1>1 DEF Remembered
<1>2. ASSUME NEW r \in Readers, G!Ask(r) \/ G!Visit(r) \/ G!Walk(r) \/ G!Descend(r)
      PROVE  Remembered'
  <2>1. /\ \A s \in Readers : s # r => query'[s] = query[s]
        /\ \/ query'[r].jobs = query[r].jobs /\ query'[r].before = query[r].before
           \/ query'[r].jobs = G!Grown /\ query'[r].before = G!Edges
    BY <1>2, ReaderStep
  <2>2. \A j \in G!Grown : j \in Jobs /\ \A c \in G!Wanted(j) : {c.left, c.right} \in G!Edges
    BY DEF G!Grown, Counted, Done
  <2>3. ASSUME NEW s \in Readers, NEW j \in query'[s].jobs
        PROVE  j \in Jobs /\ \A c \in G!Wanted(j) : {c.left, c.right} \in query'[s].before
    <3>1. CASE s # r
      BY <2>1, <2>3, <3>1 DEF Remembered
    <3>2. CASE s = r
      BY <2>1, <2>2, <2>3, <3>2 DEF Remembered
    <3> QED
      BY <3>1, <3>2
  <2> QED
    BY <2>3 DEF Remembered
<1> QED
  BY <1>1, <1>2 DEF G!Next, G!vars, G!BeginGrowth, G!AddEdge, G!EndGrowth

\* Two artefacts about one thing are two edges apart, and no edge leads to a dataset.
LEMMA SharedIsNear ==
  ASSUME G!Sensible, WalksKept, Counted, Remembered
  PROVE  G!SharedIsFound
<1> SUFFICES ASSUME NEW r \in Readers, query[r].at = "found"
             PROVE  /\ \A a, b \in G!ArtefactsOf(query[r].jobs) :
                         a.id = Asks[r] /\ G!SameThing(a, b) => G!Self(b) \in query[r].seen
                    /\ \A n \in query[r].seen : n[1] \notin {"IOC", "DATASET"}
  BY DEF G!SharedIsFound
<1> DEFINE q == query[r]
           from == G!Node("ARTEFACT", Asks[r])
<1>0. G!Ball(q.before, from)[Depth] \subseteq q.seen /\ q.seen \subseteq G!Ball(G!Edges, from)[Depth]
  BY DEF WalksKept, Holds, Surveyed
<1>1. ASSUME NEW a \in G!ArtefactsOf(q.jobs), NEW b \in G!ArtefactsOf(q.jobs), a.id = Asks[r], G!SameThing(a, b)
      PROVE  G!Self(b) \in q.seen
  <2>1. PICK j \in q.jobs, k \in q.jobs : a \in G!ArtefactsOf({j}) /\ b \in G!ArtefactsOf({k})
    BY DEF G!ArtefactsOf
  <2>2. j \in Jobs /\ k \in Jobs /\ (\A c \in G!Wanted(j) : {c.left, c.right} \in q.before)
        /\ \A c \in G!Wanted(k) : {c.left, c.right} \in q.before
    BY DEF Remembered
  <2>3. \E x : x[1] # "ARTEFACT" /\ {G!Self(a), x} \in q.before /\ {G!Self(b), x} \in q.before
    <3>1. CASE a.category = b.category /\ a.category \in DOMAIN G!EntityOf /\ a.about = b.about
      <4> DEFINE x == G!Node(G!EntityOf[a.category], a.about)
                 c == G!Call(G!Self(a), x, "FOUND_IN")
                 d == G!Call(G!Self(b), x, "FOUND_IN")
      <4>1. AboutThing(c, a) /\ AboutThing(d, b)
        BY <3>1 DEF AboutThing
      <4>2. c \in G!Wanted(j) /\ d \in G!Wanted(k)
        <5> HIDE DEF c, d
        <5> QED
          BY <2>1, <2>2, <4>1, CallForms
      <4>3. {c.left, c.right} \in q.before /\ {d.left, d.right} \in q.before
        <5> HIDE DEF c, d
        <5> QED
          BY <2>2, <4>2
      <4>4. c.left = G!Self(a) /\ c.right = x /\ d.left = G!Self(b) /\ d.right = x
        BY DEF G!Call
      <4>5. x[1] # "ARTEFACT"
        BY <3>1, EntityKinds DEF G!Node
      <4> HIDE DEF c, d, x
      <4> QED
        BY <4>3, <4>4, <4>5
    <3>2. CASE a.user = b.user /\ a.user # G!None
      <4> DEFINE x == G!Node("USER_ACCOUNT", a.user)
                 c == G!Call(G!Self(a), x, "FOUND_IN")
                 d == G!Call(G!Self(b), x, "FOUND_IN")
      <4>1. AboutUser(c, a) /\ AboutUser(d, b)
        BY <3>2 DEF AboutUser
      <4>2. c \in G!Wanted(j) /\ d \in G!Wanted(k)
        <5> HIDE DEF c, d
        <5> QED
          BY <2>1, <2>2, <4>1, CallForms
      <4>3. {c.left, c.right} \in q.before /\ {d.left, d.right} \in q.before
        <5> HIDE DEF c, d
        <5> QED
          BY <2>2, <4>2
      <4>4. c.left = G!Self(a) /\ c.right = x /\ d.left = G!Self(b) /\ d.right = x
        BY DEF G!Call
      <4>5. x[1] # "ARTEFACT"
        BY DEF G!Node
      <4> HIDE DEF c, d, x
      <4> QED
        BY <4>3, <4>4, <4>5
    <3> QED
      BY <1>1, <3>1, <3>2 DEF G!SameThing
  <2>4. PICK x : x[1] # "ARTEFACT" /\ {G!Self(a), x} \in q.before /\ {G!Self(b), x} \in q.before
    BY <2>3
  <2>5. G!Self(a) = from /\ G!Self(a)[1] = "ARTEFACT" /\ G!Self(b)[1] = "ARTEFACT"
    BY <1>1 DEF G!Self, G!Node
  <2> DEFINE y == G!Self(b)
             E == q.before
  <2>6. x \in G!Near(E, from) /\ y \in G!Near(E, x)
    <3>1. x # from /\ y # x /\ {from, x} \in E /\ {y, x} \in E
      BY <2>4, <2>5
    <3>2. {x, y} \in E
      <4>1. {x, y} = {y, x}
        OBVIOUS
      <4> QED
        BY <3>1, <4>1
    <3> HIDE DEF y, E, from
    <3>3. x \in UNION E /\ y \in UNION E
      BY <3>1
    <3> QED
      BY <3>1, <3>2, <3>3 DEF G!Near
  <2> HIDE DEF y, E, from
  <2>7. 1 \in 1..Depth /\ 2 \in 1..Depth /\ 2 \in 0..Depth /\ 1 - 1 = 0 /\ 2 - 1 = 1
    BY DEF G!Sensible
  <2>8. /\ G!Ball(E, from)[0] = {from}
        /\ G!Ball(E, from)[1] = G!Ball(E, from)[0] \cup UNION {G!Near(E, m) : m \in G!Ball(E, from)[0]}
        /\ G!Ball(E, from)[2] = G!Ball(E, from)[1] \cup UNION {G!Near(E, m) : m \in G!Ball(E, from)[1]}
    BY <2>7, BallSteps
  <2>9. x \in G!Ball(E, from)[1]
    BY <2>6, <2>8
  <2>10. y \in G!Ball(E, from)[2]
    BY <2>6, <2>8, <2>9
  <2>11. y \in G!Ball(E, from)[Depth]
    BY <2>7, <2>10, BallsNest
  <2> QED
    BY <1>0, <2>11 DEF y, E
<1>2. ASSUME NEW n \in q.seen PROVE n[1] \notin {"IOC", "DATASET"}
  <2> DEFINE T == {m \in (UNION G!Edges) \cup {from} : m[1] \notin Hung}
  <2>1. from \in T
    BY DEF Hung, G!Node
  <2>2. ASSUME NEW m \in T, NEW o \in G!Near(G!Edges, m) PROVE o \in T
    <3>1. {m, o} \in G!Edges /\ o \in UNION G!Edges
      BY DEF G!Near
    <3>0. \A e \in G!Edges : \E j \in Jobs : \E c \in G!Wanted(j) : e = {c.left, c.right}
      BY DEF Counted
    <3>2. PICK j \in Jobs : \E c \in G!Wanted(j) : {m, o} = {c.left, c.right}
      <4> HIDE DEF T
      <4> QED
        BY <3>0, <3>1
    <3>3. PICK c \in G!Wanted(j) : {m, o} = {c.left, c.right}
      BY <3>2
    <3>4. c.left[1] \in Hung <=> c.right[1] \in Hung
      BY CallEnds
    <3>5. (m = c.left /\ o = c.right) \/ (m = c.right /\ o = c.left) \/ m = o
      BY <3>3
    <3>6. m[1] \notin Hung
      OBVIOUS
    <3>7. o[1] \notin Hung
      BY <3>4, <3>5, <3>6
    <3> QED
      BY <3>1, <3>7
  <2>3. G!Ball(G!Edges, from)[Depth] \subseteq T
    <3> HIDE DEF T, from
    <3> QED
      BY <2>1, <2>2, ClosedKeepsBalls
  <2>4. n \in T
    BY <1>0, <2>3
  <2> QED
    BY <2>4 DEF Hung
<1> QED
  BY <1>1, <1>2

\* However jobs and readers overlap: a walk is current, artefacts about one thing that
\* were there when it began find each other, no indicator or dataset is among them; and
\* what the hooks reported as added is the number of edges there are, with every edge that
\* a job over and done asked for, in the type it gave (knowledge_graph.py).
THEOREM GraphIsSound == G!Sensible /\ G!Spec => []G!GraphSafe
<1> DEFINE Kept == G!Sensible /\ WalksKept /\ Counted /\ Remembered
<1>1. G!Sensible /\ G!Init => Kept
  <2>1. G!Sensible /\ G!Init => Remembered
    <3> SUFFICES ASSUME G!Init PROVE Remembered
      OBVIOUS
    <3>1. \A r \in Readers : query[r].jobs = {}
      BY DEF G!Init, G!Idle
    <3> QED
      BY <3>1 DEF Remembered
  <2> QED
    BY <2>1, WalksBegin, CountedFirst
<1>2. Kept /\ [G!Next]_G!vars => Kept'
  <2>1. G!Sensible => G!Sensible'
    OBVIOUS
  <2> QED
    BY <2>1, WalksNext, CountedNext, RememberedNext
<1>3. Kept => G!TypeOK /\ G!CountsAgree
  <2> SUFFICES ASSUME Kept PROVE G!TypeOK /\ G!CountsAgree
    OBVIOUS
  <2>1. IsFiniteSet(G!Edges) /\ added = Cardinality(G!Edges) /\ pc \in [Jobs -> {"running", "growing", "over"}]
    BY DEF Counted
  <2>2. added \in Nat
    BY <2>1, FS_CardinalityType
  <2>3. ASSUME NEW e \in G!Edges PROVE Cardinality(e) = 2
    <3>0. PICK j \in Jobs : \E c \in G!Wanted(j) : e = {c.left, c.right}
      BY DEF Counted
    <3>1. PICK c \in G!Wanted(j) : e = {c.left, c.right}
      BY <3>0
    <3>2. c.left # c.right
      BY CallEnds
    <3> DEFINE one == {c.left}
    <3>3. e = one \cup {c.right} /\ c.right \notin one
      BY <3>1, <3>2
    <3>4. IsFiniteSet(one) /\ Cardinality(one) = 1
      BY FS_Singleton
    <3> HIDE DEF one
    <3>5. Cardinality(one \cup {c.right}) = Cardinality(one) + 1
      BY <3>3, <3>4, FS_AddElement
    <3> QED
      BY <3>3, <3>4, <3>5
  <2>4. \A r \in Readers : query[r].at \in {"idle", "walking", "empty", "found", "raised"} /\ query[r].depth \in 0..Depth
    BY DEF WalksKept, Holds
  <2>5. \A j \in G!Grown : \A c \in G!Wanted(j) : {c.left, c.right} \in G!Edges /\ types[{c.left, c.right}] = c.type
    BY DEF Counted, G!Grown, Done
  <2> QED
    BY <2>1, <2>2, <2>3, <2>4, <2>5, GraphSizes DEF G!TypeOK, G!CountsAgree
<1>4. Kept => G!WalksAreCurrent
  BY DEF WalksKept, Holds, Surveyed, G!WalksAreCurrent, G!Within
<1>5. Kept => G!GraphSafe
  BY <1>3, <1>4, SharedIsNear DEF G!GraphSafe
<1> QED
  BY <1>1, <1>2, <1>5, PTL DEF G!Spec

-----------------------------------------------------------------------------
(* Evaluation: any datasets, artefacts, answers and callers, any number of *)
(* responses, destructions and failing writes.                             *)
(*                                                                         *)
(* A sum is a fold that takes elements in an order of its own: that it     *)
(* takes any element at any time is shown first, by induction over sets.   *)
(* From that follow the trail's account of the responses and that the      *)
(* categories of a comparison add up. Metrics are fractions of naturals,   *)
(* statistics are places in an ordered list.                               *)
CONSTANTS Callers, Staged, Truths, Recovered, Answers, MaxSent, MaxFaults
VARIABLES bench, rows, ratings, pending, audit, sent, wiped, faults
E == INSTANCE Evaluation

\* The instance has its own names for what FiniteSets and SequencesExt define.
LEMMA EvalSizes == \A S : (E!IsFiniteSet(S) <=> IsFiniteSet(S)) /\ E!Cardinality(S) = Cardinality(S)
BY DEF E!IsFiniteSet, IsFiniteSet, E!Cardinality, Cardinality

LEMMA EvalFlattens == \A s : E!FlattenSeq(s) = G!FlattenSeq(s)
BY DEF E!FlattenSeq, G!FlattenSeq

One(s) == CHOOSE x \in s : TRUE
Adding(f, t) == [s \in SUBSET DOMAIN f |-> IF s = {} THEN 0 ELSE f[One(s)] + t[s \ {One(s)}]]
Sums(f) == CHOOSE t : t = Adding(f, t)
Summable(f) == IsFiniteSet(DOMAIN f) /\ \A x \in DOMAIN f : f[x] \in Int

LEMMA SumIsLast ==
  ASSUME NEW f
  PROVE  E!SumFunction(f) = Sums(f)[DOMAIN f]
BY DEF E!SumFunction, E!SumFunctionOnSet, E!FoldFunctionOnSet, E!MapThenFoldSet, Sums, Adding, One

\* Taking an element from a finite set leaves a set with one less.
LEMMA OneLess ==
  ASSUME NEW D, IsFiniteSet(D), NEW s \in SUBSET D, NEW x \in s
  PROVE  /\ IsFiniteSet(s) /\ Cardinality(s) \in Nat /\ Cardinality(s) > 0
         /\ s \ {x} \in SUBSET D /\ Cardinality(s \ {x}) = Cardinality(s) - 1
<1>1. IsFiniteSet(s)
  BY FS_Subset
<1>2. Cardinality(s) \in Nat /\ Cardinality(s) # 0
  BY <1>1, FS_CardinalityType, FS_EmptySet
<1>3. Cardinality(s \ {x}) = Cardinality(s) - 1
  BY <1>1, FS_RemoveElement
<1> QED
  BY <1>1, <1>2, <1>3

LEMMA OneIsIn ==
  ASSUME NEW s, s # {}
  PROVE  One(s) \in s
BY DEF One

\* There is such a function: for small sets first.
LEMMA SumsExist ==
  ASSUME NEW f, Summable(f)
  PROVE  Sums(f) = Adding(f, Sums(f))
<1> DEFINE D == DOMAIN f
           max == Cardinality(D)
           Small(n) == {s \in SUBSET D : Cardinality(s) <= n}
           Next1(t, s) == IF s = {} THEN 0 ELSE f[One(s)] + t[s \ {One(s)}]
           Fits(t, n) == t \in [Small(n) -> Int] /\ \A s \in Small(n) : t[s] = Next1(t, s)
           S == {n \in 0..max : \E t : Fits(t, n)}
<1>0. IsFiniteSet(D) /\ max \in Nat /\ \A s \in SUBSET D : IsFiniteSet(s) /\ Cardinality(s) \in 0..max
  <2>1. IsFiniteSet(D) /\ max \in Nat
    BY FS_CardinalityType DEF Summable
  <2> HIDE DEF D
  <2>2. \A s \in SUBSET D : IsFiniteSet(s) /\ Cardinality(s) <= max
    BY <2>1, FS_Subset
  <2>3. \A s \in SUBSET D : Cardinality(s) \in Nat
    BY <2>2, FS_CardinalityType
  <2> HIDE DEF max
  <2> QED
    BY <2>1, <2>2, <2>3
<1>1. 0 \in S
  <2> DEFINE t == [s \in Small(0) |-> 0]
  <2>1. \A s \in Small(0) : s = {}
    BY <1>0, FS_EmptySet
  <2>2. t \in [Small(0) -> Int] /\ \A s \in Small(0) : t[s] = 0
    OBVIOUS
  <2>3. Fits(t, 0)
    <3> HIDE DEF t, Small
    <3> QED
      BY <2>1, <2>2
  <2> HIDE DEF t, Fits
  <2> QED
    BY <1>0, <2>3
<1>2. ASSUME NEW n \in 0..(max - 1), n \in S PROVE n + 1 \in S
  <2>1. PICK t : Fits(t, n)
    BY <1>2
  <2> DEFINE u == [s \in Small(n + 1) |-> Next1(t, s)]
  <2>2. ASSUME NEW s \in Small(n + 1), s # {}
        PROVE  One(s) \in D /\ s \ {One(s)} \in Small(n)
    <3>1. One(s) \in s /\ s \in SUBSET D /\ Cardinality(s) <= n + 1
      BY <2>2, OneIsIn
    <3>2. s \ {One(s)} \in SUBSET D /\ Cardinality(s \ {One(s)}) = Cardinality(s) - 1 /\ Cardinality(s) \in Nat
      <4> HIDE DEF D
      <4> QED
        BY <1>0, <3>1, OneLess
    <3> HIDE DEF D
    <3> QED
      BY <1>0, <3>1, <3>2
  <2>3. Small(n) \subseteq Small(n + 1)
    <3> HIDE DEF D, max
    <3> QED
      BY <1>0
  <2>4. u \in [Small(n + 1) -> Int]
    <3>1. \A s \in Small(n + 1) : Next1(t, s) \in Int
      <4> HIDE DEF Small, max
      <4> QED
        BY <2>1, <2>2 DEF Summable
    <3> HIDE DEF Small, Next1
    <3> QED
      BY <3>1
  <2>5. \A s \in Small(n) : u[s] = t[s]
    <3> HIDE DEF Small, Next1
    <3> QED
      BY <2>1, <2>3
  <2>6. \A s \in Small(n + 1) : u[s] = Next1(u, s)
    <3>1. \A s \in Small(n + 1) : u[s] = Next1(t, s)
      <4> HIDE DEF Small, Next1
      <4> QED
        OBVIOUS
    <3> HIDE DEF u, Small
    <3> QED
      BY <2>2, <2>5, <3>1
  <2>7. Fits(u, n + 1)
    <3> HIDE DEF u, Small, Next1
    <3> QED
      BY <2>4, <2>6
  <2>8. n + 1 \in 0..max
    <3> HIDE DEF max
    <3> QED
      BY <1>0
  <2> HIDE DEF u, Fits, max
  <2> QED
    BY <2>7, <2>8
<1>3. max \in S
  <2> HIDE DEF S, max
  <2>1. 0..max \subseteq S
    BY <1>0, <1>1, <1>2, StepByStep
  <2> QED
    BY <1>0, <2>1
<1>4. PICK t : Fits(t, max)
  BY <1>3
<1>5. Small(max) = SUBSET D
  <2> HIDE DEF D, max
  <2> QED
    BY <1>0
<1>6. t \in [SUBSET D -> Int] /\ t = Adding(f, t)
  <2>1. t \in [SUBSET D -> Int] /\ \A s \in SUBSET D : t[s] = Next1(t, s)
    <3> HIDE DEF Small, Next1, D, max
    <3> QED
      BY <1>4, <1>5
  <2>2. t = [s \in SUBSET D |-> Next1(t, s)]
    <3> HIDE DEF Next1
    <3> QED
      BY <2>1
  <2> QED
    BY <2>1, <2>2 DEF Adding
<1>7. Sums(f) = Adding(f, Sums(f))
  BY <1>6 DEF Sums
<1> QED
  BY <1>7

LEMMA SumsAt ==
  ASSUME NEW f, Summable(f), NEW s \in SUBSET DOMAIN f
  PROVE  Sums(f)[s] = IF s = {} THEN 0 ELSE f[One(s)] + Sums(f)[s \ {One(s)}]
<1>1. Adding(f, Sums(f))[s] = IF s = {} THEN 0 ELSE f[One(s)] + Sums(f)[s \ {One(s)}]
  BY DEF Adding
<1> QED
  BY <1>1, SumsExist

\* Whatever holds of the empty set, and of every set when it holds of those that have an
\* element less, holds of all finite sets.
LEMMA SetBySet ==
  ASSUME NEW D, IsFiniteSet(D), NEW P, {} \in P,
         \A s \in SUBSET D : s # {} /\ (\A x \in s : s \ {x} \in P) => s \in P
  PROVE  SUBSET D \subseteq P
<1> DEFINE max == Cardinality(D)
           S == {n \in 0..max : \A s \in SUBSET D : Cardinality(s) = n => s \in P}
<1>0. max \in Nat /\ \A s \in SUBSET D : IsFiniteSet(s) /\ Cardinality(s) \in 0..max /\ (Cardinality(s) = 0 => s = {})
  <2>1. max \in Nat
    BY FS_CardinalityType
  <2>2. \A s \in SUBSET D : IsFiniteSet(s) /\ Cardinality(s) <= max
    BY FS_Subset
  <2>3. \A s \in SUBSET D : Cardinality(s) \in Nat /\ (Cardinality(s) = 0 => s = {})
    BY <2>2, FS_CardinalityType, FS_EmptySet
  <2> HIDE DEF max
  <2> QED
    BY <2>1, <2>2, <2>3
<1> HIDE DEF max
<1>1. 0 \in S
  <2>1. \A s \in SUBSET D : Cardinality(s) = 0 => s \in P
    BY <1>0
  <2> QED
    BY <1>0, <2>1
<1>2. ASSUME NEW n \in 0..(max - 1), n \in S PROVE n + 1 \in S
  <2>1. ASSUME NEW s \in SUBSET D, Cardinality(s) = n + 1
        PROVE  s \in P
    <3>1. s # {}
      BY <1>0, <2>1, FS_EmptySet
    <3>2. ASSUME NEW x \in s PROVE s \ {x} \in P
      <4>1. s \ {x} \in SUBSET D /\ Cardinality(s \ {x}) = n
        BY <2>1, OneLess
      <4> QED
        BY <1>2, <4>1
    <3> QED
      BY <3>1, <3>2
  <2>2. n + 1 \in 0..max
    BY <1>0
  <2> QED
    BY <2>1, <2>2
<1>3. 0..max \subseteq S
  <2> HIDE DEF S
  <2> QED
    BY <1>0, <1>1, <1>2, StepByStep
<1> QED
  BY <1>0, <1>3

LEMMA SumsAreIntegers ==
  ASSUME NEW f, Summable(f)
  PROVE  \A s \in SUBSET DOMAIN f : Sums(f)[s] \in Int
<1> DEFINE D == DOMAIN f
           P == {s \in SUBSET D : Sums(f)[s] \in Int}
<1>1. {} \in P
  BY SumsAt
<1>2. ASSUME NEW s \in SUBSET D, s # {}, \A x \in s : s \ {x} \in P
      PROVE  s \in P
  <2>1. One(s) \in s /\ Sums(f)[s] = f[One(s)] + Sums(f)[s \ {One(s)}]
    BY <1>2, OneIsIn, SumsAt
  <2>2. f[One(s)] \in Int /\ Sums(f)[s \ {One(s)}] \in Int
    BY <1>2, <2>1 DEF Summable
  <2> QED
    BY <2>1, <2>2
<1>3. SUBSET D \subseteq P
  <2>1. IsFiniteSet(D)
    BY DEF Summable
  <2> HIDE DEF P, D
  <2> QED
    BY <1>1, <1>2, <2>1, SetBySet
<1> QED
  BY <1>3

\* A sum is the same whichever element is taken first.
LEMMA SumsTake ==
  ASSUME NEW f, Summable(f)
  PROVE  \A s \in SUBSET DOMAIN f : Sums(f)[s] \in Int /\ \A x \in s : Sums(f)[s] = f[x] + Sums(f)[s \ {x}]
<1> DEFINE D == DOMAIN f
           P == {s \in SUBSET D : Sums(f)[s] \in Int /\ \A x \in s : Sums(f)[s] = f[x] + Sums(f)[s \ {x}]}
<1>1. {} \in P
  BY SumsAt
<1>2. ASSUME NEW s \in SUBSET D, s # {}, \A x \in s : s \ {x} \in P
      PROVE  s \in P
  <2> DEFINE c == One(s)
  <2>1. c \in s /\ Sums(f)[s] = f[c] + Sums(f)[s \ {c}]
    BY <1>2, OneIsIn, SumsAt
  <2> HIDE DEF c
  <2>2. f[c] \in Int /\ Sums(f)[s \ {c}] \in Int
    BY <1>2, <2>1 DEF Summable
  <2>3. ASSUME NEW x \in s PROVE Sums(f)[s] = f[x] + Sums(f)[s \ {x}]
    <3>1. CASE x = c
      BY <2>1, <3>1
    <3>2. CASE x # c
      <4>1. x \in s \ {c} /\ c \in s \ {x} /\ (s \ {c}) \ {x} = (s \ {x}) \ {c}
        BY <2>1, <3>2
      <4>2. Sums(f)[s \ {c}] = f[x] + Sums(f)[(s \ {c}) \ {x}]
        BY <1>2, <2>1, <4>1
      <4>3. Sums(f)[s \ {x}] = f[c] + Sums(f)[(s \ {x}) \ {c}]
        BY <1>2, <4>1
      <4>4. f[x] \in Int /\ Sums(f)[s \ {x}] \in Int
        BY <1>2 DEF Summable
      <4> DEFINE m == Sums(f)[(s \ {c}) \ {x}]
      <4>5. m \in Int
        BY SumsAreIntegers
      <4>6. Sums(f)[(s \ {x}) \ {c}] = m
        BY <4>1
      <4>7. Sums(f)[s \ {c}] = f[x] + m /\ Sums(f)[s \ {x}] = f[c] + m
        BY <4>2, <4>3, <4>6
      <4> HIDE DEF m
      <4> QED
        BY <2>1, <2>2, <4>4, <4>5, <4>7
    <3> QED
      BY <3>1, <3>2
  <2> QED
    BY <2>1, <2>2, <2>3
<1>3. SUBSET D \subseteq P
  <2>1. IsFiniteSet(D)
    BY DEF Summable
  <2> HIDE DEF P, D
  <2> QED
    BY <1>1, <1>2, <2>1, SetBySet
<1> QED
  BY <1>3

\* Only the values of what is added up count.
LEMMA SumsAlike ==
  ASSUME NEW f, NEW g, Summable(f), Summable(g), NEW D, D \subseteq DOMAIN f, D \subseteq DOMAIN g, \A x \in D : f[x] = g[x]
  PROVE  Sums(f)[D] = Sums(g)[D]
<1> DEFINE P == {s \in SUBSET D : Sums(f)[s] = Sums(g)[s]}
<1>1. {} \in P
  BY SumsAt
<1>2. ASSUME NEW s \in SUBSET D, s # {}, \A x \in s : s \ {x} \in P
      PROVE  s \in P
  <2>1. One(s) \in s /\ s \in SUBSET DOMAIN f /\ s \in SUBSET DOMAIN g
    BY <1>2, OneIsIn
  <2>2. Sums(f)[s] = f[One(s)] + Sums(f)[s \ {One(s)}] /\ Sums(g)[s] = g[One(s)] + Sums(g)[s \ {One(s)}]
    BY <1>2, <2>1, SumsAt
  <2> QED
    BY <1>2, <2>1, <2>2
<1>3. IsFiniteSet(D)
  BY FS_Subset DEF Summable
<1>4. SUBSET D \subseteq P
  <2> HIDE DEF P
  <2> QED
    BY <1>1, <1>2, <1>3, SetBySet
<1> QED
  BY <1>4

\* One more element adds its value.
LEMMA SumAdded ==
  ASSUME NEW f, NEW g, Summable(f), NEW x, x \notin DOMAIN f,
         DOMAIN g = DOMAIN f \cup {x}, g[x] \in Int, \A y \in DOMAIN f : g[y] = f[y]
  PROVE  E!SumFunction(f) \in Int /\ E!SumFunction(g) = g[x] + E!SumFunction(f)
<1>1. Summable(g)
  BY FS_AddElement DEF Summable
<1>2. Sums(g)[DOMAIN g] = g[x] + Sums(g)[(DOMAIN g) \ {x}]
  <2>1. DOMAIN g \in SUBSET DOMAIN g /\ x \in DOMAIN g
    OBVIOUS
  <2>2. \A s \in SUBSET DOMAIN g : \A y \in s : Sums(g)[s] = g[y] + Sums(g)[s \ {y}]
    BY <1>1, SumsTake
  <2> QED
    BY <2>1, <2>2
<1>3. (DOMAIN g) \ {x} = DOMAIN f
  OBVIOUS
<1>4. Sums(g)[DOMAIN f] = Sums(f)[DOMAIN f]
  BY <1>1, SumsAlike
<1>5. Sums(f)[DOMAIN f] \in Int
  BY SumsAreIntegers
<1> QED
  BY <1>2, <1>3, <1>4, <1>5, SumIsLast

LEMMA SumNone ==
  ASSUME NEW f, DOMAIN f = {}
  PROVE  Summable(f) /\ E!SumFunction(f) = 0
<1>1. Summable(f)
  BY FS_EmptySet DEF Summable
<1>2. Sums(f)[{}] = 0
  BY <1>1, SumsAt
<1> QED
  BY <1>1, <1>2, SumIsLast

\* A set is as large as its parts together, when each element is of one part.
LEMMA PartsAddUp ==
  ASSUME NEW A, IsFiniteSet(A), NEW K, IsFiniteSet(K), NEW part, \A a \in A : part[a] \in K,
         NEW f, f = [k \in K |-> Cardinality({a \in A : part[a] = k})]
  PROVE  E!SumFunction(f) = Cardinality(A)
<1> DEFINE In(s) == {a \in A : part[a] \in s}
           P == {s \in SUBSET K : Sums(f)[s] = Cardinality(In(s))}
<1>0. \A s : IsFiniteSet(In(s)) /\ Cardinality(In(s)) \in Nat
  BY FS_Subset, FS_CardinalityType
<1>1. DOMAIN f = K /\ Summable(f)
  <2>1. ASSUME NEW k \in K PROVE f[k] \in Int
    <3>1. f[k] = Cardinality({a \in A : part[a] = k})
      OBVIOUS
    <3>2. IsFiniteSet({a \in A : part[a] = k})
      BY FS_Subset
    <3> QED
      BY <3>1, <3>2, FS_CardinalityType
  <2> QED
    BY <2>1 DEF Summable
<1>2. {} \in P
  <2>1. In({}) = {}
    OBVIOUS
  <2> QED
    BY <1>1, <2>1, SumsAt, FS_EmptySet
<1>3. ASSUME NEW s \in SUBSET K, s # {}, \A x \in s : s \ {x} \in P
      PROVE  s \in P
  <2>1. PICK k \in s : TRUE
    BY <1>3
  <2>2. Sums(f)[s] = f[k] + Sums(f)[s \ {k}]
    BY <1>1, SumsTake
  <2> DEFINE B == {a \in A : part[a] = k}
             C == In(s \ {k})
  <2>3. In(s) = B \cup C /\ B \cap C = {}
    OBVIOUS
  <2>4. IsFiniteSet(B) /\ IsFiniteSet(C)
    BY <1>0, FS_Subset
  <2>5. f[k] = Cardinality(B) /\ Sums(f)[s \ {k}] = Cardinality(C)
    BY <1>3
  <2> HIDE DEF B, C
  <2>6. Cardinality(B) \in Nat /\ Cardinality(C) \in Nat /\ Cardinality(B \cap C) = 0
    BY <2>3, <2>4, FS_CardinalityType, FS_EmptySet
  <2>7. Cardinality(B \cup C) = Cardinality(B) + Cardinality(C) - Cardinality(B \cap C)
    BY <2>4, FS_Union
  <2>8. Sums(f)[s] = Cardinality(In(s))
    <3>1. Sums(f)[s] = Cardinality(B) + Cardinality(C)
      BY <2>2, <2>5
    <3>2. Cardinality(B \cup C) = Cardinality(B) + Cardinality(C)
      BY <2>6, <2>7
    <3> HIDE DEF In
    <3> QED
      BY <2>3, <3>1, <3>2
  <2> QED
    BY <2>8
<1>4. SUBSET K \subseteq P
  <2> HIDE DEF P
  <2> QED
    BY <1>2, <1>3, SetBySet
<1>5. In(K) = A
  OBVIOUS
<1> QED
  BY <1>1, <1>4, <1>5, SumIsLast
-----------------------------------------------------------------------------
(* Statistics                                                                *)

\* Values can be put in order: the place of one is the number of those up to it, where
\* of equal ones those count that an enumeration names first.
LEMMA AscendingExists ==
  ASSUME NEW value, Summable(value), NEW n, n = Cardinality(DOMAIN value)
  PROVE  /\ n \in Nat
         /\ \E s \in [1..n -> DOMAIN value] : \A m, k \in 1..n : m < k => s[m] # s[k] /\ value[s[m]] <= value[s[k]]
<1>0. n \in Nat /\ IsFiniteSet(1..n) /\ Cardinality(1..n) = n
  <2>1. n \in Nat
    BY FS_CardinalityType DEF Summable
  <2> QED
    BY <2>1, FS_Interval
<1>a. PICK b \in [1..n -> DOMAIN value] : \A i, j \in 1..n : b[i] = b[j] => i = j
  <2>1. ExistsBijection(1..n, DOMAIN value)
    BY FS_CardinalityType DEF Summable
  <2> QED
    BY <2>1 DEF ExistsBijection, Bijection, Injection, IsInjective
<1> DEFINE v(i) == value[b[i]]
           Lower(i, j) == v(i) < v(j) \/ (v(i) = v(j) /\ i < j)
           Upto(i) == {k \in 1..n : k = i \/ Lower(k, i)}
           place == [i \in 1..n |-> Cardinality(Upto(i))]
<1>b. \A i \in 1..n : v(i) \in Int
  BY DEF Summable
<1>c. /\ \A i, j \in 1..n : i # j => Lower(i, j) \/ Lower(j, i)
      /\ \A i, j \in 1..n : ~ (Lower(i, j) /\ Lower(j, i))
      /\ \A i, j, k \in 1..n : Lower(i, j) /\ Lower(j, k) => Lower(i, k)
  <2> HIDE DEF v
  <2>1. \A i \in 1..n : i \in Int
    OBVIOUS
  <2> QED
    BY <1>b, <2>1
<1>d. \A i, j \in 1..n : Lower(i, j) => v(i) <= v(j)
  <2> HIDE DEF v
  <2> QED
    BY <1>b
<1> HIDE DEF Lower
<1>1. ASSUME NEW i \in 1..n
      PROVE  IsFiniteSet(Upto(i)) /\ Cardinality(Upto(i)) \in 1..n
  <2>1. Upto(i) \in SUBSET (1..n) /\ i \in Upto(i)
    OBVIOUS
  <2> HIDE DEF Upto
  <2>2. IsFiniteSet(Upto(i)) /\ Cardinality(Upto(i)) <= n
    BY <1>0, <2>1, FS_Subset
  <2>3. Cardinality(Upto(i)) \in Nat /\ Cardinality(Upto(i)) # 0
    BY <2>1, <2>2, FS_CardinalityType, FS_EmptySet
  <2> QED
    BY <1>0, <2>2, <2>3
<1>2. ASSUME NEW i \in 1..n, NEW j \in 1..n, Lower(i, j)
      PROVE  Cardinality(Upto(i)) < Cardinality(Upto(j))
  <2>1. Upto(i) \in SUBSET Upto(j)
    BY <1>2, <1>c
  <2>2. j \in Upto(j) /\ j \notin Upto(i)
    BY <1>2, <1>c
  <2> HIDE DEF Upto
  <2>3. Cardinality(Upto(i)) <= Cardinality(Upto(j)) /\ Cardinality(Upto(i)) # Cardinality(Upto(j))
    BY <1>1, <2>1, <2>2, FS_Subset
  <2> QED
    BY <1>1, <2>3
<1>3. place \in Surjection(1..n, 1..n)
  <2>1. place \in [1..n -> 1..n]
    BY <1>1
  <2>2. ASSUME NEW i \in 1..n, NEW j \in 1..n, i # j PROVE place[i] # place[j]
    <3>1. Cardinality(Upto(i)) \in 1..n /\ Cardinality(Upto(j)) \in 1..n
      <4> HIDE DEF Upto
      <4> QED
        BY <1>1
    <3>2. Cardinality(Upto(i)) < Cardinality(Upto(j)) \/ Cardinality(Upto(j)) < Cardinality(Upto(i))
      <4> HIDE DEF Upto
      <4> QED
        BY <1>2, <1>c, <2>2
    <3> HIDE DEF Upto
    <3> QED
      BY <3>1, <3>2
  <2> HIDE DEF place
  <2>3. place \in Injection(1..n, 1..n)
    BY <2>1, <2>2 DEF Injection, IsInjective
  <2> QED
    BY <1>0, <2>3, FS_Injection
<1>4. \A k \in 1..n : \E i \in 1..n : place[i] = k
  <2> HIDE DEF place
  <2> QED
    BY <1>3 DEF Surjection
<1> DEFINE at == [k \in 1..n |-> CHOOSE i \in 1..n : place[i] = k]
           s == [k \in 1..n |-> b[at[k]]]
<1>5. \A k \in 1..n : at[k] \in 1..n /\ Cardinality(Upto(at[k])) = k
  <2>1. \A k \in 1..n : at[k] \in 1..n /\ place[at[k]] = k
    <3> HIDE DEF place
    <3> QED
      BY <1>4
  <2> HIDE DEF at, Upto
  <2> QED
    BY <2>1
<1> HIDE DEF at
<1>6. s \in [1..n -> DOMAIN value]
  BY <1>5
<1>7. ASSUME NEW m \in 1..n, NEW k \in 1..n, m < k
      PROVE  s[m] # s[k] /\ value[s[m]] <= value[s[k]]
  <2>1. at[m] \in 1..n /\ at[k] \in 1..n /\ at[m] # at[k] /\ ~Lower(at[k], at[m])
    <3> HIDE DEF Upto
    <3> QED
      BY <1>2, <1>5, <1>7
  <2>2. Lower(at[m], at[k])
    BY <1>c, <2>1
  <2>3. s[m] = b[at[m]] /\ s[k] = b[at[k]]
    OBVIOUS
  <2> HIDE DEF s
  <2> QED
    BY <1>a, <1>d, <2>1, <2>2, <2>3
<1> HIDE DEF s
<1> QED
  BY <1>0, <1>6, <1>7

Rising(o, n) ==
  /\ n \in Nat \ {0} /\ o \in [1..n -> Int] /\ Len(o) = n
  /\ \A m, k \in 1..n : m <= k => o[m] <= o[k]

LEMMA InOrderRises ==
  ASSUME NEW value, Summable(value), DOMAIN value # {}
  PROVE  Rising(E!InOrder(value), Cardinality(DOMAIN value))
<1> DEFINE n == Cardinality(DOMAIN value)
           s == E!Ascending(value, 1..n)
           o == E!InOrder(value)
<1>0. n \in Nat /\ n # 0
  BY FS_CardinalityType, FS_EmptySet DEF Summable
<1>1. s \in [1..n -> DOMAIN value] /\ \A m, k \in 1..n : m < k => s[m] # s[k] /\ value[s[m]] <= value[s[k]]
  <2> DEFINE Fits(t) == \A m, k \in 1..n : m < k => t[m] # t[k] /\ value[t[m]] <= value[t[k]]
  <2>1. \E t \in [1..n -> DOMAIN value] : Fits(t)
    BY AscendingExists
  <2>2. s = CHOOSE t \in [1..n -> DOMAIN value] : Fits(t)
    BY DEF E!Ascending
  <2> HIDE DEF Fits, s, n
  <2>3. s \in [1..n -> DOMAIN value] /\ Fits(s)
    BY <2>1, <2>2
  <2> QED
    BY <2>3 DEF Fits
<1>2. o = [k \in 1..n |-> value[s[k]]]
  BY EvalSizes DEF E!InOrder
<1> HIDE DEF o, s, n
<1>3. o \in [1..n -> Int] /\ Len(o) = n
  <2>1. o \in [1..n -> Int]
    BY <1>1, <1>2 DEF Summable
  <2> QED
    BY <1>0, <2>1
<1>4. ASSUME NEW m \in 1..n, NEW k \in 1..n, m <= k PROVE o[m] <= o[k]
  <2>1. o[m] = value[s[m]] /\ o[k] = value[s[k]] /\ o[m] \in Int
    BY <1>2, <1>3
  <2>2. CASE m = k
    BY <2>1, <2>2
  <2>3. CASE m < k
    BY <1>1, <2>1, <2>3
  <2> QED
    BY <1>0, <1>4, <2>2, <2>3
<1> QED
  BY <1>0, <1>3, <1>4 DEF Rising, o, n

\* Where a percentile lies: between two neighbours, nearer the upper one the higher it is.
LEMMA Places ==
  ASSUME NEW n \in Nat \ {0}, NEW p \in 0..100
  PROVE  LET rank == p * (n - 1)
             at == rank \div 100 + 1
             weight == rank % 100
         IN /\ rank \in Nat /\ at \in 1..n /\ weight \in 0..99 /\ rank = 100 * (at - 1) + weight
            /\ weight # 0 => at + 1 \in 1..n
<1> DEFINE rank == p * (n - 1)
<1>1. rank \in Nat /\ rank <= 100 * (n - 1)
  <2>1. n - 1 \in Nat
    OBVIOUS
  <2>2. \A m \in Nat : p * m \in Nat /\ p * m <= 100 * m
    <3> SUFFICES ASSUME NEW m \in Nat PROVE p * m \in Nat /\ p * m <= 100 * m
      OBVIOUS
    <3>1. (100 - p) * m >= 0 /\ 100 - p \in Nat
      OBVIOUS
    <3>2. (100 - p) * m = 100 * m - p * m
      OBVIOUS
    <3> QED
      BY <3>1, <3>2
  <2> QED
    BY <2>1, <2>2
<1> HIDE DEF rank
<1>2. rank % 100 \in 0..99 /\ rank \div 100 \in Nat /\ rank = 100 * (rank \div 100) + (rank % 100)
  BY <1>1
<1>3. rank \div 100 + 1 \in 1..n /\ (rank % 100 # 0 => rank \div 100 + 2 \in 1..n)
  BY <1>1, <1>2
<1> QED
  BY <1>1, <1>2, <1>3 DEF rank

LEMMA PercentileLies ==
  ASSUME NEW o, NEW n, Rising(o, n), NEW p \in 0..100
  PROVE  LET at == (p * (n - 1)) \div 100 + 1
             weight == (p * (n - 1)) % 100
         IN /\ E!Percentile(o, p) \in Int /\ 100 * o[at] <= E!Percentile(o, p)
            /\ weight = 0 => E!Percentile(o, p) = 100 * o[at]
            /\ weight # 0 => /\ o[at] \in Int /\ o[at + 1] \in Int /\ o[at] <= o[at + 1]
                             /\ E!Percentile(o, p) = o[at] * (100 - weight) + o[at + 1] * weight
                             /\ E!Percentile(o, p) <= 100 * o[at + 1]
<1> DEFINE at == (p * (n - 1)) \div 100 + 1
           w == (p * (n - 1)) % 100
<1>1. n \in Nat \ {0} /\ Len(o) = n
  BY DEF Rising
<1>2. at \in 1..n /\ w \in 0..99 /\ (w # 0 => at + 1 \in 1..n)
  BY <1>1, Places
<1>3. E!Percentile(o, p) = IF w = 0 THEN 100 * o[at] ELSE o[at] * (100 - w) + o[at + 1] * w
  BY <1>1 DEF E!Percentile
<1> HIDE DEF at, w
<1>4. o[at] \in Int /\ (w # 0 => o[at + 1] \in Int /\ o[at] <= o[at + 1])
  BY <1>2 DEF Rising
<1>5. CASE w = 0
  BY <1>3, <1>4, <1>5 DEF at, w
<1>6. CASE w # 0
  <2>1. PICK x \in Int, y \in Int : x = o[at] /\ y = o[at + 1] /\ x <= y
    BY <1>4, <1>6
  <2>2. x * (100 - w) + y * w = 100 * x + (y - x) * w /\ x * (100 - w) + y * w = 100 * y - (y - x) * (100 - w)
    BY <1>2, <2>1
  <2>3. (y - x) * w >= 0 /\ (y - x) * (100 - w) >= 0 /\ (y - x) * w \in Int /\ (y - x) * (100 - w) \in Int
    BY <1>2, <2>1
  <2>4. x * (100 - w) + y * w \in Int /\ 100 * x <= x * (100 - w) + y * w /\ x * (100 - w) + y * w <= 100 * y
    BY <2>1, <2>2, <2>3
  <2> QED
    BY <1>3, <1>4, <1>6, <2>1, <2>4 DEF at, w
<1> QED
  BY <1>5, <1>6

\* Rank and weight of the 95th and the 99th percentile, in numbers.
LEMMA MedianLies ==
  ASSUME NEW o, NEW n, Rising(o, n)
  PROVE  /\ E!Median(o) \in Int /\ 100 * o[1] <= E!Median(o)
         /\ n # 2 => /\ (n \div 2) + 1 \in 1..n /\ o[(n \div 2) + 1] \in Int /\ E!Median(o) <= 100 * o[(n \div 2) + 1]
         /\ n = 2 => E!Median(o) = 50 * (o[1] + o[2])
<1>1. n \in Nat \ {0} /\ Len(o) = n /\ o \in [1..n -> Int] /\ \A m, k \in 1..n : m <= k => o[m] <= o[k]
  BY DEF Rising
<1> DEFINE half == (n + 1) \div 2
<1>2. E!Median(o) = IF n % 2 = 1 THEN 100 * o[half] ELSE 50 * (o[half] + o[half + 1])
  BY <1>1 DEF E!Median
<1>3. CASE n % 2 = 1
  <2>1. half \in 1..n /\ half = (n \div 2) + 1 /\ n # 2
    BY <1>1, <1>3
  <2> HIDE DEF half
  <2>2. o[half] \in Int /\ o[1] \in Int /\ o[1] <= o[half]
    BY <1>1, <2>1
  <2> QED
    BY <1>2, <1>3, <2>1, <2>2
<1>4. CASE n % 2 # 1
  <2>1. half \in 1..n /\ half + 1 \in 1..n /\ half + 1 = (n \div 2) + 1 /\ (n = 2 => half = 1)
    BY <1>1, <1>4
  <2> HIDE DEF half
  <2>2. o[half] \in Int /\ o[half + 1] \in Int /\ o[1] \in Int /\ o[1] <= o[half] /\ o[half] <= o[half + 1]
    BY <1>1, <2>1
  <2>3. E!Median(o) = 50 * (o[half] + o[half + 1])
    BY <1>2, <1>4
  <2>4. o[(n \div 2) + 1] = o[half + 1]
    BY <2>1
  <2>5. n = 2 => o[half] = o[1] /\ o[half + 1] = o[2]
    BY <2>1
  <2> QED
    BY <2>1, <2>2, <2>3, <2>4, <2>5
<1> QED
  BY <1>3, <1>4

LEMMA RisingIsInOrder ==
  ASSUME NEW o, NEW n, Rising(o, n)
  PROVE  /\ 100 * o[1] <= E!Median(o) /\ E!Median(o) <= E!Percentile(o, 95)
         /\ E!Percentile(o, 95) <= E!Percentile(o, 99) /\ E!Percentile(o, 99) <= 100 * o[Len(o)]
<1>1. n \in Nat \ {0} /\ Len(o) = n /\ o \in [1..n -> Int] /\ \A m, k \in 1..n : m <= k => o[m] <= o[k]
  BY DEF Rising
<1> DEFINE rank(p) == p * (n - 1)
           at(p) == (rank(p) \div 100) + 1
           w(p) == rank(p) % 100
<1>2. \A p \in 0..100 : /\ rank(p) \in Nat /\ at(p) \in 1..n /\ w(p) \in 0..99 /\ rank(p) = 100 * (at(p) - 1) + w(p)
                        /\ w(p) # 0 => at(p) + 1 \in 1..n
  BY <1>1, Places
<1>3. \A p \in 0..100 :
        /\ E!Percentile(o, p) \in Int /\ 100 * o[at(p)] <= E!Percentile(o, p)
        /\ w(p) = 0 => E!Percentile(o, p) = 100 * o[at(p)]
        /\ w(p) # 0 => /\ o[at(p)] \in Int /\ o[at(p) + 1] \in Int /\ o[at(p)] <= o[at(p) + 1]
                       /\ E!Percentile(o, p) = o[at(p)] * (100 - w(p)) + o[at(p) + 1] * w(p)
                       /\ E!Percentile(o, p) <= 100 * o[at(p) + 1]
  BY PercentileLies
<1>4. 95 \in 0..100 /\ 99 \in 0..100
  OBVIOUS
<1>5. rank(95) = 95 * (n - 1) /\ rank(99) = 99 * (n - 1)
  OBVIOUS
<1> HIDE DEF rank, at, w
<1>6. E!Median(o) <= E!Percentile(o, 95)
  <2>1. CASE n = 2
    <3>1. at(95) = 1 /\ w(95) = 95
      BY <2>1, <1>2, <1>4, <1>5
    <3>2. E!Percentile(o, 95) = o[1] * 5 + o[2] * 95 /\ o[1] \in Int /\ o[2] \in Int /\ o[1] <= o[2]
      BY <3>1, <1>3, <1>4
    <3>3. E!Median(o) = 50 * (o[1] + o[2])
      BY <2>1, MedianLies
    <3> QED
      BY <3>2, <3>3
  <2>2. CASE n # 2
    <3>1. (n \div 2) + 1 \in 1..n /\ o[(n \div 2) + 1] \in Int /\ E!Median(o) \in Int /\ E!Median(o) <= 100 * o[(n \div 2) + 1]
      BY <2>2, MedianLies
    <3>2. at(95) \in 1..n /\ rank(95) = 100 * (at(95) - 1) + w(95) /\ w(95) \in 0..99
      BY <1>2, <1>4
    <3>3. (n \div 2) + 1 <= at(95)
      <4>1. 95 * (n - 1) >= 100 * (n \div 2)
        BY <1>1, <2>2
      <4>6. n \div 2 \in Int
        BY <1>1
      <4>2. n \div 2 \in Int /\ at(95) \in Int /\ w(95) \in Int /\ w(95) <= 99
        BY <3>2, <4>6
      <4>3. 100 * (at(95) - 1) + w(95) >= 100 * (n \div 2)
        BY <1>5, <3>2, <4>1
      <4> DEFINE h == n \div 2
      <4> HIDE DEF h
      <4>4. h \in Int /\ 100 * (at(95) - 1) + w(95) >= 100 * h
        BY <4>2, <4>3 DEF h
      <4>5. h + 1 <= at(95)
        BY <4>2, <4>4
      <4> QED
        BY <4>5 DEF h
    <3> DEFINE k == (n \div 2) + 1
    <3> HIDE DEF k
    <3>4. k \in 1..n /\ k <= at(95) /\ E!Median(o) <= 100 * o[k]
      BY <3>1, <3>3 DEF k
    <3>5. o[k] <= o[at(95)] /\ o[k] \in Int /\ o[at(95)] \in Int
      BY <1>1, <3>2, <3>4
    <3>6. 100 * o[at(95)] <= E!Percentile(o, 95) /\ E!Percentile(o, 95) \in Int
      BY <1>3, <1>4
    <3> QED
      BY <3>1, <3>4, <3>5, <3>6
  <2> QED
    BY <2>1, <2>2
<1>7. E!Percentile(o, 95) <= E!Percentile(o, 99)
  <2>1. /\ at(95) \in 1..n /\ w(95) \in 0..99 /\ rank(95) = 100 * (at(95) - 1) + w(95)
        /\ at(99) \in 1..n /\ w(99) \in 0..99 /\ rank(99) = 100 * (at(99) - 1) + w(99)
    BY <1>2, <1>4
  <2>2. rank(95) <= rank(99)
    BY <1>1, <1>5
  <2>3. at(95) <= at(99)
    <3>1. at(95) \in Int /\ at(99) \in Int
      BY <2>1
    <3> QED
      BY <2>1, <2>2, <3>1
  <2>4. /\ 100 * o[at(95)] <= E!Percentile(o, 95) /\ E!Percentile(o, 95) \in Int
        /\ 100 * o[at(99)] <= E!Percentile(o, 99) /\ E!Percentile(o, 99) \in Int
        /\ o[at(95)] \in Int /\ o[at(99)] \in Int
    BY <1>1, <1>3, <1>4, <2>1
  <2>5. CASE w(95) = 0
    <3>1. o[at(95)] <= o[at(99)] /\ E!Percentile(o, 95) = 100 * o[at(95)]
      BY <1>1, <1>3, <1>4, <2>1, <2>3, <2>5
    <3> QED
      BY <2>4, <3>1
  <2>6. CASE w(95) # 0 /\ at(95) < at(99)
    <3>1. at(95) + 1 \in 1..n /\ E!Percentile(o, 95) <= 100 * o[at(95) + 1] /\ o[at(95) + 1] \in Int
      BY <1>2, <1>3, <1>4, <2>6
    <3>2. at(95) + 1 <= at(99)
      BY <2>1, <2>6
    <3>3. o[at(95) + 1] <= o[at(99)]
      BY <1>1, <2>1, <3>1, <3>2
    <3> QED
      BY <2>4, <3>1, <3>3
  <2>7. CASE w(95) # 0 /\ at(95) = at(99)
    <3>1. w(95) <= w(99) /\ w(99) # 0
      BY <2>1, <2>2, <2>7
    <3>2. PICK x \in Int, y \in Int : x = o[at(99)] /\ y = o[at(99) + 1]
      BY <1>3, <1>4, <3>1
    <3>3. x <= y /\ E!Percentile(o, 99) = x * (100 - w(99)) + y * w(99)
      BY <1>3, <1>4, <3>1, <3>2
    <3>4. E!Percentile(o, 95) = x * (100 - w(95)) + y * w(95)
      BY <1>3, <1>4, <2>7, <3>2
    <3> DEFINE d == w(99) - w(95)
    <3>5. d \in Nat /\ y - x \in Nat
      BY <2>1, <3>1, <3>2, <3>3
    <3>6. (y - x) * d >= 0
      <4> HIDE DEF d
      <4> QED
        BY <3>5
    <3>7. x * (100 - w(99)) + y * w(99) = (x * (100 - w(95)) + y * w(95)) + (y - x) * d
      <4>1. w(95) \in Int /\ w(99) \in Int
        BY <2>1
      <4> QED
        BY <3>2, <4>1
    <3> HIDE DEF d
    <3>8. x * (100 - w(95)) + y * w(95) \in Int /\ (y - x) * d \in Int
      BY <2>4, <3>2, <3>4, <3>5
    <3> QED
      BY <3>3, <3>4, <3>6, <3>7, <3>8
  <2> QED
    BY <2>1, <2>3, <2>5, <2>6, <2>7
<1>8. E!Percentile(o, 99) <= 100 * o[n]
  <2>1. at(99) \in 1..n /\ o[n] \in Int
    BY <1>1, <1>2, <1>4
  <2>2. CASE w(99) = 0
    <3>1. E!Percentile(o, 99) = 100 * o[at(99)]
      BY <1>3, <1>4, <2>2
    <3>2. at(99) <= n /\ n \in 1..n
      BY <1>1, <2>1
    <3>3. o[at(99)] <= o[n] /\ o[at(99)] \in Int
      BY <1>1, <2>1, <3>2
    <3> QED
      BY <2>1, <3>1, <3>3
  <2>3. CASE w(99) # 0
    <3>1. at(99) + 1 \in 1..n /\ E!Percentile(o, 99) <= 100 * o[at(99) + 1] /\ E!Percentile(o, 99) \in Int
      BY <1>2, <1>3, <1>4, <2>3
    <3>2. o[at(99) + 1] <= o[n] /\ o[at(99) + 1] \in Int
      BY <1>1, <3>1
    <3> QED
      BY <2>1, <3>1, <3>2
  <2> QED
    BY <2>2, <2>3
<1> QED
  BY <1>1, <1>6, <1>7, <1>8, MedianLies

-----------------------------------------------------------------------------
(* Ratings                                                                   *)

Sound(r) == r.usefulness \in 1..5 /\ 2 * r.usefulness - E!UsefulnessAverage(r) \in -1..1 /\ (E!UsefulnessAverage(r) >= 8 => r.usefulness >= 4)

\* What is made of accepted answers is sound: the mean is rounded by at most a half.
LEMMA ResponsesAreSound ==
  ASSUME NEW a, E!Accepted(a)
  PROVE  Sound(E!CreateResponse(a))
<1>1. CASE "Q1" \in DOMAIN a
  <2>1. a["Q1"] \in 1..5 /\ a["Q4"] \in 1..5
    BY <1>1 DEF E!Accepted
  <2> DEFINE x == a["Q1"]
             y == a["Q4"]
             t == x + y
  <2>2. E!CreateResponse(a) = [usefulness |-> E!RoundHalf(t), q1 |-> x, q4 |-> y] /\ x \in 1..5 /\ y \in 1..5
    BY <1>1, <2>1 DEF E!CreateResponse
  <2>3. E!UsefulnessAverage(E!CreateResponse(a)) = x + y
    <3> HIDE DEF x, y, t
    <3> QED
      BY <2>2 DEF E!UsefulnessAverage
  <2>4. t \in 2..10
    <3> HIDE DEF x, y
    <3> QED
      BY <2>2
  <2>5. E!RoundHalf(t) \in 1..5 /\ 2 * E!RoundHalf(t) - t \in -1..1 /\ (t >= 8 => E!RoundHalf(t) >= 4)
    <3> HIDE DEF t
    <3> QED
      BY <2>4 DEF E!RoundHalf
  <2>6. E!CreateResponse(a).usefulness = E!RoundHalf(t)
    BY <2>2
  <2> HIDE DEF x, y
  <2> QED
    BY <2>3, <2>5, <2>6 DEF Sound
<1>2. CASE "Q1" \notin DOMAIN a
  <2>1. a["usefulness"] \in 1..5
    BY <1>2 DEF E!Accepted
  <2>2. E!CreateResponse(a) = [usefulness |-> a["usefulness"], q1 |-> 0, q4 |-> 0]
    BY <1>2 DEF E!CreateResponse
  <2>3. E!CreateResponse(a).usefulness = a["usefulness"] /\ E!UsefulnessAverage(E!CreateResponse(a)) = 2 * a["usefulness"]
    BY <2>2 DEF E!UsefulnessAverage
  <2> QED
    BY <2>1, <2>3 DEF Sound
<1> QED
  BY <1>1, <1>2

RatingsSound == \A k \in DOMAIN ratings : Sound(ratings[k])

LEMMA RatingsSoundIsEnough ==
  ASSUME RatingsSound PROVE E!RatingsAgree
BY DEF RatingsSound, E!RatingsAgree, Sound, E!Useful

-----------------------------------------------------------------------------
(* Benchmarks                                                                *)

\* Where the callers are, what rows and entries there are for it.
Has(c) == <<c, E!Counts(E!Found, E!Expected(E!Truth(c)))>> \in rows
Says(action, c) == <<action, c>> \in audit
Earned ==
  /\ DOMAIN bench = Callers
  /\ \A c \in Callers :
       /\ DOMAIN bench[c] = {"pc", "dataset"} /\ bench[c].dataset \in DOMAIN Truths
       /\ bench[c].pc \in {"idle", "started", "compared", "saved", "audited", "done", "failing", "failed", "escaped"}
       /\ bench[c].pc \in {"compared", "saved", "audited", "done"} => E!Loads(E!Truth(c))
       /\ bench[c].pc \in {"saved", "audited", "done"} => Has(c)
       /\ bench[c].pc \in {"audited", "done"} => Says("BENCHMARK_EVALUATION_COMPLETED", c)
       /\ Says("EVALUATION_STAGE_COMPLETED", c) => bench[c].pc = "done"
       /\ Says("EVALUATION_STAGE_FAILED", c) => bench[c].pc = "failed"
  /\ IsFiniteSet(rows)
  /\ \A r \in rows : \E c \in Callers : r = <<c, E!Counts(E!Found, E!Expected(E!Truth(c)))>> /\ E!Loads(E!Truth(c))

LEMMA EarnedIsEnough ==
  ASSUME Earned PROVE E!RowsAreEarned
<1> SUFFICES ASSUME NEW c \in Callers
             PROVE  /\ <<"EVALUATION_STAGE_COMPLETED", c>> \in audit =>
                         /\ <<"BENCHMARK_EVALUATION_COMPLETED", c>> \in audit /\ \E r \in rows : r[1] = c
                         /\ <<"EVALUATION_STAGE_FAILED", c>> \notin audit
                    /\ \A r \in rows : r[1] = c => E!Loads(E!Truth(c))
                    /\ bench[c].pc = "done" => \E r \in rows : r[1] = c
  BY DEF E!RowsAreEarned
<1>1. \A r \in rows : r[1] = c => E!Loads(E!Truth(c))
  <2> SUFFICES ASSUME NEW r \in rows, r[1] = c PROVE E!Loads(E!Truth(c))
    OBVIOUS
  <2>1. PICK d \in Callers : r = <<d, E!Counts(E!Found, E!Expected(E!Truth(d)))>> /\ E!Loads(E!Truth(d))
    BY DEF Earned
  <2> QED
    BY <2>1
<1>2. bench[c].pc = "done" => \E r \in rows : r[1] = c
  <2> SUFFICES ASSUME bench[c].pc = "done" PROVE \E r \in rows : r[1] = c
    OBVIOUS
  <2>1. <<c, E!Counts(E!Found, E!Expected(E!Truth(c)))>> \in rows
    BY DEF Earned, Has
  <2> QED
    BY <2>1
<1>3. Says("EVALUATION_STAGE_COMPLETED", c) => bench[c].pc = "done" /\ Says("BENCHMARK_EVALUATION_COMPLETED", c) /\ ~Says("EVALUATION_STAGE_FAILED", c)
  BY DEF Earned
<1> QED
  BY <1>1, <1>2, <1>3 DEF Says

LEMMA EarnedInit ==
  ASSUME E!Init PROVE Earned
BY FS_EmptySet DEF E!Init, Earned, Has, Says

\* A step of one caller moves it alone, adds at most its own row, when it has compared,
\* and at most an entry of its own, that its new place allows.
Moves(c, to, says) ==
  /\ bench' = [bench EXCEPT ![c].pc = to] /\ bench[c].pc \notin {"done", "failed"}
  /\ to \in {"started", "compared", "saved", "audited", "done", "failing", "failed", "escaped"}
  /\ to \in {"compared", "saved", "audited", "done"} => E!Loads(E!Truth(c))
  /\ rows' = rows \/ rows' = rows \cup {<<c, E!Counts(E!Found, E!Expected(E!Truth(c)))>>}
  /\ to \in {"saved", "audited", "done"} => <<c, E!Counts(E!Found, E!Expected(E!Truth(c)))>> \in rows'
  /\ rows' # rows => E!Loads(E!Truth(c))
  /\ audit' = audit \/ audit' = audit \cup {<<says, c>>}
  /\ to \in {"audited", "done"} => <<"BENCHMARK_EVALUATION_COMPLETED", c>> \in audit'
  /\ audit' # audit /\ says = "EVALUATION_STAGE_COMPLETED" => to = "done"
  /\ audit' # audit /\ says = "EVALUATION_STAGE_FAILED" => to = "failed"

LEMMA CallerSteps ==
  ASSUME Earned, NEW c \in Callers, NEW to, NEW says, Moves(c, to, says)
  PROVE  Earned'
<1>1. /\ DOMAIN bench' = Callers /\ bench'[c].pc = to /\ bench'[c].dataset = bench[c].dataset /\ DOMAIN bench'[c] = {"pc", "dataset"}
      /\ \A d \in Callers \ {c} : bench'[d] = bench[d]
  BY DEF Earned, Moves
<1>2. \A d \in Callers : E!Truth(d)' = E!Truth(d)
  BY <1>1 DEF E!Truth
<1>3. IsFiniteSet(rows')
  <2>1. IsFiniteSet(rows)
    BY DEF Earned
  <2> QED
    BY <2>1, FS_AddElement DEF Moves
<1>4. \A r \in rows' : \E d \in Callers : r = <<d, E!Counts(E!Found, E!Expected(E!Truth(d)'))>> /\ E!Loads(E!Truth(d)')
  <2> SUFFICES ASSUME NEW r \in rows' PROVE \E d \in Callers : r = <<d, E!Counts(E!Found, E!Expected(E!Truth(d)'))>> /\ E!Loads(E!Truth(d)')
    OBVIOUS
  <2>1. CASE r \in rows
    <3>1. PICK d \in Callers : r = <<d, E!Counts(E!Found, E!Expected(E!Truth(d)))>> /\ E!Loads(E!Truth(d))
      BY <2>1 DEF Earned
    <3> QED
      BY <1>2, <3>1
  <2>2. CASE r \notin rows
    BY <1>2, <2>2 DEF Moves
  <2> QED
    BY <2>1, <2>2
<1>5. rows \subseteq rows' /\ audit \subseteq audit'
  BY DEF Moves
<1>6. \A d \in Callers \ {c} :
        /\ DOMAIN bench'[d] = {"pc", "dataset"} /\ bench'[d].dataset \in DOMAIN Truths
        /\ bench'[d].pc \in {"idle", "started", "compared", "saved", "audited", "done", "failing", "failed", "escaped"}
        /\ bench'[d].pc \in {"compared", "saved", "audited", "done"} => E!Loads(E!Truth(d)')
        /\ bench'[d].pc \in {"saved", "audited", "done"} => Has(d)'
        /\ bench'[d].pc \in {"audited", "done"} => Says("BENCHMARK_EVALUATION_COMPLETED", d)'
        /\ Says("EVALUATION_STAGE_COMPLETED", d)' => bench'[d].pc = "done"
        /\ Says("EVALUATION_STAGE_FAILED", d)' => bench'[d].pc = "failed"
  <2> SUFFICES ASSUME NEW d \in Callers \ {c}
               PROVE
        /\ DOMAIN bench'[d] = {"pc", "dataset"} /\ bench'[d].dataset \in DOMAIN Truths
        /\ bench'[d].pc \in {"idle", "started", "compared", "saved", "audited", "done", "failing", "failed", "escaped"}
        /\ bench'[d].pc \in {"compared", "saved", "audited", "done"} => E!Loads(E!Truth(d)')
        /\ bench'[d].pc \in {"saved", "audited", "done"} => Has(d)'
        /\ bench'[d].pc \in {"audited", "done"} => Says("BENCHMARK_EVALUATION_COMPLETED", d)'
        /\ Says("EVALUATION_STAGE_COMPLETED", d)' => bench'[d].pc = "done"
        /\ Says("EVALUATION_STAGE_FAILED", d)' => bench'[d].pc = "failed"
    OBVIOUS
  <2>1. bench'[d] = bench[d] /\ E!Truth(d)' = E!Truth(d)
    BY <1>1, <1>2
  <2>2. Has(d) => Has(d)'
    BY <1>5, <2>1 DEF Has
  <2>3. \A action : (Says(action, d) => Says(action, d)') /\ (Says(action, d)' => Says(action, d))
    BY <1>5 DEF Says, Moves
  <2> QED
    BY <2>1, <2>2, <2>3 DEF Earned
<1>7. /\ bench[c].dataset \in DOMAIN Truths
      /\ to \in {"compared", "saved", "audited", "done"} => E!Loads(E!Truth(c)')
      /\ to \in {"saved", "audited", "done"} => Has(c)'
      /\ to \in {"audited", "done"} => Says("BENCHMARK_EVALUATION_COMPLETED", c)'
      /\ Says("EVALUATION_STAGE_COMPLETED", c)' => to = "done"
      /\ Says("EVALUATION_STAGE_FAILED", c)' => to = "failed"
  BY <1>2 DEF Earned, Has, Says, Moves
<1> QED
  BY <1>1, <1>3, <1>4, <1>6, <1>7 DEF Earned, Moves

\* Every step of the benchmarks is one of those, and the questionnaires touch none.
LEMMA EarnedStep ==
  ASSUME Earned, [E!Next]_E!vars PROVE Earned'
<1>0. ASSUME UNCHANGED <<bench, rows>>, \A action, c : Says(action, c)' => Says(action, c), \A action, c : Says(action, c) => Says(action, c)'
      PROVE Earned'
  <2>1. \A c \in Callers : E!Truth(c)' = E!Truth(c) /\ Has(c)' = Has(c)
    BY <1>0 DEF E!Truth, Has
  <2> QED
    BY <1>0, <2>1 DEF Earned
<1>1. CASE UNCHANGED E!vars
  BY <1>0, <1>1 DEF E!vars, Says
<1>2. ASSUME NEW c \in Callers,
             \/ E!Start(c) \/ E!StartFails(c) \/ E!Compare(c) \/ E!LoadFails(c) \/ E!Save(c)
             \/ E!Audited(c) \/ E!Complete(c) \/ E!StepFails(c) \/ E!StageFailed(c)
      PROVE  Earned'
  <2>0. Earned
    OBVIOUS
  <2>1. CASE E!Start(c)
    <3>1. audit' = audit \/ audit' = audit \cup {<<"EVALUATION_STAGE_STARTED", c>>}
      BY <2>1 DEF E!Start, E!Log
    <3>2. bench' = [bench EXCEPT ![c].pc = "started"] /\ bench[c].pc = "idle" /\ rows' = rows
      BY <2>1 DEF E!Start, E!Enter
    <3>9. Moves(c, "started", "EVALUATION_STAGE_STARTED")
      BY <3>1, <3>2 DEF Moves
    <3> QED
      BY <3>9, CallerSteps
  <2>2. CASE E!StartFails(c)
    <3>1. bench' = [bench EXCEPT ![c].pc = "escaped"] /\ bench[c].pc = "idle" /\ rows' = rows /\ audit' = audit
      BY <2>2 DEF E!StartFails, E!Enter
    <3>9. Moves(c, "escaped", "")
      BY <3>1 DEF Moves
    <3> QED
      BY <3>9, CallerSteps
  <2>3. CASE E!Compare(c)
    <3>1. bench' = [bench EXCEPT ![c].pc = "compared"] /\ bench[c].pc = "started" /\ rows' = rows /\ audit' = audit /\ E!Loads(E!Truth(c))
      BY <2>3 DEF E!Compare, E!Enter
    <3>9. Moves(c, "compared", "")
      BY <3>1 DEF Moves
    <3> QED
      BY <3>9, CallerSteps
  <2>4. CASE E!LoadFails(c)
    <3>1. bench' = [bench EXCEPT ![c].pc = E!Fails(c)] /\ bench[c].pc = "started" /\ rows' = rows /\ audit' = audit
      BY <2>4 DEF E!LoadFails, E!Enter
    <3>2. E!Fails(c) \in {"failing", "failed"}
      BY DEF E!Fails
    <3>9. Moves(c, E!Fails(c), "")
      BY <3>1, <3>2 DEF Moves
    <3> QED
      BY <3>9, CallerSteps
  <2>5. CASE E!Save(c)
    <3>1. /\ bench' = [bench EXCEPT ![c].pc = "saved"] /\ bench[c].pc = "compared" /\ audit' = audit
          /\ rows' = rows \cup {<<c, E!Counts(E!Found, E!Expected(E!Truth(c)))>>}
      BY <2>5 DEF E!Save, E!Enter
    <3>2. E!Loads(E!Truth(c))
      BY <3>1 DEF Earned
    <3>9. Moves(c, "saved", "")
      BY <3>1, <3>2 DEF Moves
    <3> QED
      BY <3>9, CallerSteps
  <2>6. CASE E!Audited(c)
    <3>1. /\ bench[c].pc = "saved" /\ rows' = rows /\ audit' = audit \cup {<<"BENCHMARK_EVALUATION_COMPLETED", c>>}
          /\ bench' = [bench EXCEPT ![c].pc = IF c \in Staged THEN "audited" ELSE "done"]
      BY <2>6 DEF E!Audited, E!Enter, E!Log
    <3>2. PICK to \in {"audited", "done"} : to = IF c \in Staged THEN "audited" ELSE "done"
      OBVIOUS
    <3>3. E!Loads(E!Truth(c)) /\ <<c, E!Counts(E!Found, E!Expected(E!Truth(c)))>> \in rows
      BY <3>1 DEF Earned, Has
    <3>9. Moves(c, to, "BENCHMARK_EVALUATION_COMPLETED")
      BY <3>1, <3>2, <3>3 DEF Moves
    <3> QED
      BY <3>9, CallerSteps
  <2>7. CASE E!Complete(c)
    <3>1. /\ bench[c].pc = "audited" /\ rows' = rows /\ audit' = audit \cup {<<"EVALUATION_STAGE_COMPLETED", c>>}
          /\ bench' = [bench EXCEPT ![c].pc = "done"]
      BY <2>7 DEF E!Complete, E!Enter, E!Log
    <3>2. E!Loads(E!Truth(c)) /\ <<c, E!Counts(E!Found, E!Expected(E!Truth(c)))>> \in rows /\ <<"BENCHMARK_EVALUATION_COMPLETED", c>> \in audit
      BY <3>1 DEF Earned, Has, Says
    <3>9. Moves(c, "done", "EVALUATION_STAGE_COMPLETED")
      BY <3>1, <3>2 DEF Moves
    <3> QED
      BY <3>9, CallerSteps
  <2>8. CASE E!StepFails(c)
    <3>1. bench' = [bench EXCEPT ![c].pc = E!Fails(c)] /\ bench[c].pc \in {"compared", "saved", "audited"} /\ rows' = rows /\ audit' = audit
      BY <2>8 DEF E!StepFails, E!Enter
    <3>2. E!Fails(c) \in {"failing", "failed"}
      BY DEF E!Fails
    <3>9. Moves(c, E!Fails(c), "")
      BY <3>1, <3>2 DEF Moves
    <3> QED
      BY <3>9, CallerSteps
  <2>9. CASE E!StageFailed(c)
    <3>1. /\ bench[c].pc = "failing" /\ rows' = rows /\ audit' = audit \cup {<<"EVALUATION_STAGE_FAILED", c>>}
          /\ bench' = [bench EXCEPT ![c].pc = "failed"]
      BY <2>9 DEF E!StageFailed, E!Enter, E!Log
    <3>9. Moves(c, "failed", "EVALUATION_STAGE_FAILED")
      BY <3>1 DEF Moves
    <3> QED
      BY <3>9, CallerSteps
  <2> QED
    BY <1>2, <2>1, <2>2, <2>3, <2>4, <2>5, <2>6, <2>7, <2>8, <2>9
<1>3. ASSUME NEW a \in Answers, E!Collect(a) PROVE Earned'
  BY <1>0, <1>3 DEF E!Collect, Says
<1>4. CASE E!DeleteAll
  BY <1>0, <1>4 DEF E!DeleteAll, Says
<1>5. ASSUME NEW p, E!LogPending(p) \/ E!LogFails(p) PROVE Earned'
  <2>1. UNCHANGED <<bench, rows>> /\ (audit' = audit \/ audit' = audit \cup {<<p.kind, p.of, p.amount>>})
    BY <1>5 DEF E!LogPending, E!LogFails, E!Log
  <2>2. \A action, c : <<action, c>> # <<p.kind, p.of, p.amount>>
    OBVIOUS
  <2> QED
    BY <1>0, <2>1, <2>2 DEF Says
<1> QED
  BY <1>1, <1>2, <1>3, <1>4, <1>5 DEF E!Next

LEMMA RatingsSoundStep ==
  ASSUME RatingsSound, [E!Next]_E!vars PROVE RatingsSound'
<1>1. CASE UNCHANGED ratings
  BY <1>1 DEF RatingsSound, Sound, E!UsefulnessAverage
<1>2. ASSUME NEW a \in Answers, E!Collect(a) PROVE RatingsSound'
  <2>1. ratings' = [k \in DOMAIN ratings \cup {sent'} |-> IF k = sent' THEN E!CreateResponse(a) ELSE ratings[k]] /\ E!Accepted(a)
    BY <1>2 DEF E!Collect
  <2>2. Sound(E!CreateResponse(a))
    BY <2>1, ResponsesAreSound
  <2> HIDE DEF E!CreateResponse
  <2>3. \A k \in DOMAIN ratings' : Sound(ratings'[k])
    BY <2>1, <2>2 DEF RatingsSound
  <2> QED
    BY <2>3 DEF RatingsSound
<1>3. CASE E!DeleteAll
  <2>1. ratings' = <<>>
    BY <1>3 DEF E!DeleteAll
  <2>2. DOMAIN ratings' = {}
    BY <2>1
  <2> QED
    BY <2>2 DEF RatingsSound
<1>4. ASSUME NEW p, E!LogPending(p) \/ E!LogFails(p) PROVE UNCHANGED ratings
  BY <1>4 DEF E!LogPending, E!LogFails
<1>5. ASSUME NEW c \in Callers,
             \/ E!Start(c) \/ E!StartFails(c) \/ E!Compare(c) \/ E!LoadFails(c) \/ E!Save(c)
             \/ E!Audited(c) \/ E!Complete(c) \/ E!StepFails(c) \/ E!StageFailed(c)
      PROVE  UNCHANGED ratings
  BY <1>5 DEF E!Start, E!StartFails, E!Compare, E!LoadFails, E!Save, E!Audited, E!Complete, E!StepFails, E!StageFailed
<1> QED
  BY <1>1, <1>2, <1>3, <1>4, <1>5 DEF E!Next, E!vars

-----------------------------------------------------------------------------
(* The trail of the responses                                                *)

LoggedIn(A, sort) == E!SumFunction([e \in {e \in A : e[1] = sort} |-> e[3]])
WaitingIn(P, sort) == E!SumFunction([p \in {p \in P : p.kind = sort} |-> p.amount])

\* An entry of a kind adds its amount to that kind and nothing to another.
LEMMA EntryAdds ==
  ASSUME NEW A, IsFiniteSet(A), NEW sort, \A e \in A : e[1] = sort => e[3] \in Int, NEW x, x \notin A, x[1] = sort => x[3] \in Int
  PROVE  /\ LoggedIn(A, sort) \in Int
         /\ x[1] = sort => LoggedIn(A \cup {x}, sort) = x[3] + LoggedIn(A, sort)
         /\ x[1] # sort => LoggedIn(A \cup {x}, sort) = LoggedIn(A, sort)
<1> DEFINE of == {e \in A : e[1] = sort}
           f == [e \in of |-> e[3]]
           more == {e \in A \cup {x} : e[1] = sort}
           g == [e \in more |-> e[3]]
<1>1. LoggedIn(A, sort) = E!SumFunction(f) /\ LoggedIn(A \cup {x}, sort) = E!SumFunction(g)
  BY DEF LoggedIn
<1>2. Summable(f)
  <2>1. IsFiniteSet(of)
    BY FS_Subset
  <2> QED
    BY <2>1 DEF Summable
<1>3. CASE x[1] = sort
  <2>1. more = of \cup {x} /\ x \notin of
    BY <1>3
  <2> HIDE DEF of, more
  <2>2. DOMAIN f = of /\ DOMAIN g = more /\ g[x] = x[3] /\ \A y \in of : g[y] = f[y]
    BY <2>1
  <2> HIDE DEF f, g
  <2>3. E!SumFunction(f) \in Int /\ E!SumFunction(g) = g[x] + E!SumFunction(f)
    BY <1>2, <1>3, <2>1, <2>2, SumAdded
  <2> QED
    BY <1>1, <1>3, <2>2, <2>3
<1>4. CASE x[1] # sort
  <2>1. more = of
    BY <1>4
  <2> HIDE DEF of, more
  <2>2. g = f
    BY <2>1
  <2> HIDE DEF f, g
  <2>3. E!SumFunction(f) \in Int
    BY <1>2, SumsAreIntegers, SumIsLast
  <2> QED
    BY <1>1, <1>4, <2>2, <2>3
<1> QED
  BY <1>3, <1>4

LEMMA WaitAdds ==
  ASSUME NEW A, IsFiniteSet(A), NEW sort, \A e \in A : e.kind = sort => e.amount \in Int, NEW x, x \notin A, x.kind = sort => x.amount \in Int
  PROVE  /\ WaitingIn(A, sort) \in Int
         /\ x.kind = sort => WaitingIn(A \cup {x}, sort) = x.amount + WaitingIn(A, sort)
         /\ x.kind # sort => WaitingIn(A \cup {x}, sort) = WaitingIn(A, sort)
<1> DEFINE of == {p \in A : p.kind = sort}
           f == [p \in of |-> p.amount]
           more == {p \in A \cup {x} : p.kind = sort}
           g == [p \in more |-> p.amount]
<1>1. WaitingIn(A, sort) = E!SumFunction(f) /\ WaitingIn(A \cup {x}, sort) = E!SumFunction(g)
  BY DEF WaitingIn
<1>2. Summable(f)
  <2>1. IsFiniteSet(of)
    BY FS_Subset
  <2> QED
    BY <2>1 DEF Summable
<1>3. CASE x.kind = sort
  <2>1. more = of \cup {x} /\ x \notin of
    BY <1>3
  <2> HIDE DEF of, more
  <2>2. DOMAIN f = of /\ DOMAIN g = more /\ g[x] = x.amount /\ \A y \in of : g[y] = f[y]
    BY <2>1
  <2> HIDE DEF f, g
  <2>3. E!SumFunction(f) \in Int /\ E!SumFunction(g) = g[x] + E!SumFunction(f)
    BY <1>2, <1>3, <2>1, <2>2, SumAdded
  <2> QED
    BY <1>1, <1>3, <2>2, <2>3
<1>4. CASE x.kind # sort
  <2>1. more = of
    BY <1>4
  <2> HIDE DEF of, more
  <2>2. g = f
    BY <2>1
  <2> HIDE DEF f, g
  <2>3. E!SumFunction(f) \in Int
    BY <1>2, SumsAreIntegers, SumIsLast
  <2> QED
    BY <1>1, <1>4, <2>2, <2>3
<1> QED
  BY <1>3, <1>4

\* Every call that stored or destroyed has its number; what waits is not yet an entry.
EntryKinds == {"COLLECTED", "DESTROYED"}
Upto(sort) == IF sort = "COLLECTED" THEN sent ELSE wiped
Accounted ==
  /\ sent \in Nat /\ wiped \in Nat /\ faults \in Nat
  /\ IsFiniteSet(pending) /\ IsFiniteSet(audit) /\ IsFiniteSet(DOMAIN ratings)
  /\ \A k \in DOMAIN ratings : k \in Nat /\ k <= sent
  /\ \A p \in pending :
       /\ p = [kind |-> p.kind, of |-> p.of, amount |-> p.amount]
       /\ p.kind \in EntryKinds /\ p.of \in Nat /\ p.of <= Upto(p.kind) /\ p.amount \in Int
       /\ <<p.kind, p.of, p.amount>> \notin audit
  /\ \A e \in audit : e[1] \in EntryKinds => e[2] \in Nat /\ e[2] <= Upto(e[1]) /\ e[3] \in Int
  /\ faults = 0 =>
       (LoggedIn(audit, "COLLECTED") + WaitingIn(pending, "COLLECTED")) - LoggedIn(audit, "DESTROYED") - WaitingIn(pending, "DESTROYED")
         = Cardinality(DOMAIN ratings)

LEMMA AccountedInit ==
  ASSUME E!Init PROVE Accounted
<1>1. audit = {} /\ pending = {} /\ DOMAIN ratings = {} /\ sent = 0 /\ wiped = 0 /\ faults = 0
  BY DEF E!Init
<1>2. \A sort : LoggedIn({}, sort) = 0 /\ WaitingIn({}, sort) = 0
  <2> SUFFICES ASSUME NEW sort PROVE LoggedIn({}, sort) = 0 /\ WaitingIn({}, sort) = 0
    OBVIOUS
  <2>1. \A f : DOMAIN f = {} => E!SumFunction(f) = 0
    BY SumNone
  <2> DEFINE f == [e \in {e \in {} : e[1] = sort} |-> e[3]]
             g == [p \in {p \in {} : p.kind = sort} |-> p.amount]
  <2>2. DOMAIN f = {} /\ DOMAIN g = {} /\ LoggedIn({}, sort) = E!SumFunction(f) /\ WaitingIn({}, sort) = E!SumFunction(g)
    BY DEF LoggedIn, WaitingIn
  <2> HIDE DEF f, g
  <2> QED
    BY <2>1, <2>2
<1>3. IsFiniteSet({}) /\ Cardinality({}) = 0
  BY FS_EmptySet
<1> QED
  BY <1>1, <1>2, <1>3 DEF Accounted

\* The sums are integers.
LEMMA TrailSums ==
  ASSUME NEW A, IsFiniteSet(A), NEW sort, \A e \in A : e[1] = sort => e[3] \in Int
  PROVE  LoggedIn(A, sort) \in Int
<1> DEFINE of == {e \in A : e[1] = sort}
           f == [e \in of |-> e[3]]
<1>1. IsFiniteSet(of)
  BY FS_Subset
<1>2. Summable(f) /\ LoggedIn(A, sort) = E!SumFunction(f)
  BY <1>1 DEF Summable, LoggedIn
<1> HIDE DEF f
<1> QED
  BY <1>2, SumsAreIntegers, SumIsLast

LEMMA WaitSums ==
  ASSUME NEW A, IsFiniteSet(A), NEW sort, \A e \in A : e.kind = sort => e.amount \in Int
  PROVE  WaitingIn(A, sort) \in Int
<1> DEFINE of == {e \in A : e.kind = sort}
           f == [e \in of |-> e.amount]
<1>1. IsFiniteSet(of)
  BY FS_Subset
<1>2. Summable(f) /\ WaitingIn(A, sort) = E!SumFunction(f)
  BY <1>1 DEF Summable, WaitingIn
<1> HIDE DEF f
<1> QED
  BY <1>2, SumsAreIntegers, SumIsLast

LEMMA SumsOfTheTrail ==
  ASSUME Accounted, NEW sort \in EntryKinds
  PROVE  LoggedIn(audit, sort) \in Int /\ WaitingIn(pending, sort) \in Int
<1>1. IsFiniteSet(audit) /\ IsFiniteSet(pending)
  BY DEF Accounted
<1>2. \A e \in audit : e[1] = sort => e[3] \in Int
  BY DEF Accounted
<1>3. \A p \in pending : p.kind = sort => p.amount \in Int
  BY DEF Accounted
<1> QED
  BY <1>1, <1>2, <1>3, TrailSums, WaitSums

\* Nothing of the trail of responses changes with an entry of the benchmarks.
LEMMA OtherEntry ==
  ASSUME Accounted, UNCHANGED <<ratings, pending, sent, wiped>>, faults' \in Nat, faults' = 0 => faults = 0,
         NEW x, x[1] \notin EntryKinds, audit' = audit \/ audit' = audit \cup {x},
         \A sort \in EntryKinds : \A of, amount : <<sort, of, amount>> # x
  PROVE  Accounted'
<1>1. \A sort \in EntryKinds : LoggedIn(audit', sort) = LoggedIn(audit, sort)
  <2> SUFFICES ASSUME NEW sort \in EntryKinds PROVE LoggedIn(audit', sort) = LoggedIn(audit, sort)
    OBVIOUS
  <2>1. {e \in audit' : e[1] = sort} = {e \in audit : e[1] = sort}
    OBVIOUS
  <2> QED
    BY <2>1 DEF LoggedIn
<1>2. IsFiniteSet(audit')
  <2>1. IsFiniteSet(audit)
    BY DEF Accounted
  <2> QED
    BY <2>1, FS_AddElement
<1>3. \A e \in audit' : e[1] \in EntryKinds => e \in audit
  OBVIOUS
<1>4. \A p \in pending : <<p.kind, p.of, p.amount>> \notin audit'
  <2> SUFFICES ASSUME NEW p \in pending PROVE <<p.kind, p.of, p.amount>> \notin audit'
    OBVIOUS
  <2>1. p.kind \in EntryKinds /\ <<p.kind, p.of, p.amount>> \notin audit
    BY DEF Accounted
  <2>2. <<p.kind, p.of, p.amount>> # x
    BY <2>1
  <2> QED
    BY <2>1, <2>2
<1>5. "COLLECTED" \in EntryKinds /\ "DESTROYED" \in EntryKinds /\ WaitingIn(pending', "COLLECTED") = WaitingIn(pending, "COLLECTED")
      /\ WaitingIn(pending', "DESTROYED") = WaitingIn(pending, "DESTROYED")
  BY DEF EntryKinds
<1>6. LoggedIn(audit', "COLLECTED") = LoggedIn(audit, "COLLECTED") /\ LoggedIn(audit', "DESTROYED") = LoggedIn(audit, "DESTROYED")
  BY <1>1, <1>5
<1>7. \A sort : Upto(sort)' = Upto(sort)
  BY DEF Upto
<1> HIDE DEF EntryKinds
<1> QED
  BY <1>2, <1>3, <1>4, <1>5, <1>6, <1>7 DEF Accounted

LEMMA Recorded ==
  ASSUME Accounted, NEW p \in pending, E!LogPending(p)
  PROVE  Accounted'
<1> DEFINE e == <<p.kind, p.of, p.amount>>
<1>0. /\ pending' = pending \ {p} /\ audit' = audit \cup {e}
      /\ UNCHANGED <<ratings, sent, wiped, faults>>
  BY DEF E!LogPending, E!Log
<1>1. /\ p = [kind |-> p.kind, of |-> p.of, amount |-> p.amount]
      /\ p.kind \in EntryKinds /\ p.of \in Nat /\ p.of <= Upto(p.kind) /\ p.amount \in Int /\ e \notin audit
  BY DEF Accounted
<1>2. IsFiniteSet(audit) /\ IsFiniteSet(pending) /\ IsFiniteSet(audit') /\ IsFiniteSet(pending')
  <2>1. IsFiniteSet(audit) /\ IsFiniteSet(pending)
    BY DEF Accounted
  <2>2. pending' \subseteq pending
    BY <1>0
  <2> QED
    BY <1>0, <2>1, <2>2, FS_AddElement, FS_Subset
<1>3. e[1] = p.kind /\ e[2] = p.of /\ e[3] = p.amount
  OBVIOUS
<1> HIDE DEF e
<1>4. ASSUME NEW sort \in EntryKinds
      PROVE  /\ LoggedIn(audit, sort) \in Int /\ WaitingIn(pending', sort) \in Int
             /\ p.kind = sort => /\ LoggedIn(audit', sort) = p.amount + LoggedIn(audit, sort)
                                 /\ WaitingIn(pending, sort) = p.amount + WaitingIn(pending', sort)
             /\ p.kind # sort => /\ LoggedIn(audit', sort) = LoggedIn(audit, sort)
                                 /\ WaitingIn(pending, sort) = WaitingIn(pending', sort)
  <2>1. \A x \in audit : x[1] = sort => x[3] \in Int
    BY DEF Accounted
  <2>2. \A x \in pending' : x.kind = sort => x.amount \in Int
    BY <1>0 DEF Accounted
  <2>3. pending = pending' \cup {p} /\ p \notin pending'
    BY <1>0
  <2>4. /\ LoggedIn(audit, sort) \in Int
        /\ p.kind = sort => LoggedIn(audit', sort) = p.amount + LoggedIn(audit, sort)
        /\ p.kind # sort => LoggedIn(audit', sort) = LoggedIn(audit, sort)
    <3>1. e \notin audit /\ (e[1] = sort => e[3] \in Int) /\ e[1] = p.kind /\ e[3] = p.amount
      BY <1>1, <1>3
    <3>2. /\ LoggedIn(audit, sort) \in Int
          /\ e[1] = sort => LoggedIn(audit \cup {e}, sort) = e[3] + LoggedIn(audit, sort)
          /\ e[1] # sort => LoggedIn(audit \cup {e}, sort) = LoggedIn(audit, sort)
      BY <1>2, <2>1, <3>1, EntryAdds
    <3> QED
      BY <1>0, <3>1, <3>2
  <2>5. /\ WaitingIn(pending', sort) \in Int
        /\ p.kind = sort => WaitingIn(pending, sort) = p.amount + WaitingIn(pending', sort)
        /\ p.kind # sort => WaitingIn(pending, sort) = WaitingIn(pending', sort)
    BY <1>1, <1>2, <2>2, <2>3, WaitAdds
  <2> QED
    BY <2>4, <2>5
<1>5. \A k \in pending' : <<k.kind, k.of, k.amount>> \notin audit'
  <2> SUFFICES ASSUME NEW k \in pending', <<k.kind, k.of, k.amount>> \in audit' PROVE FALSE
    OBVIOUS
  <2>1. k \in pending /\ k # p
    BY <1>0
  <2>2. <<k.kind, k.of, k.amount>> \notin audit /\ k = [kind |-> k.kind, of |-> k.of, amount |-> k.amount]
    BY <2>1 DEF Accounted
  <2>3. <<k.kind, k.of, k.amount>> = <<p.kind, p.of, p.amount>>
    BY <1>0, <2>2 DEF e
  <2>4. k.kind = p.kind /\ k.of = p.of /\ k.amount = p.amount
    BY <2>3
  <2> QED
    BY <1>1, <2>1, <2>2, <2>4
<1>6. "COLLECTED" \in EntryKinds /\ "DESTROYED" \in EntryKinds /\ (p.kind = "COLLECTED" \/ p.kind = "DESTROYED")
  BY <1>1 DEF EntryKinds
<1>7. faults' = 0 =>
        (LoggedIn(audit', "COLLECTED") + WaitingIn(pending', "COLLECTED")) - LoggedIn(audit', "DESTROYED") - WaitingIn(pending', "DESTROYED")
          = Cardinality(DOMAIN ratings')
  <2>1. faults' = 0 =>
        (LoggedIn(audit, "COLLECTED") + WaitingIn(pending, "COLLECTED")) - LoggedIn(audit, "DESTROYED") - WaitingIn(pending, "DESTROYED")
          = Cardinality(DOMAIN ratings')
    BY <1>0 DEF Accounted
  <2>2. CASE p.kind = "COLLECTED"
    BY <1>1, <1>4, <1>6, <2>1, <2>2
  <2>3. CASE p.kind = "DESTROYED"
    BY <1>1, <1>4, <1>6, <2>1, <2>3
  <2> QED
    BY <1>6, <2>2, <2>3
<1>8. \A x \in audit' : x[1] \in EntryKinds => x[2] \in Nat /\ x[2] <= Upto(x[1]) /\ x[3] \in Int
  BY <1>0, <1>1, <1>3 DEF Accounted
<1>9. \A sort : Upto(sort)' = Upto(sort)
  BY <1>0 DEF Upto
<1> HIDE DEF EntryKinds
<1> QED
  BY <1>0, <1>2, <1>5, <1>7, <1>8, <1>9 DEF Accounted

LEMMA AccountedIsEnough ==
  ASSUME Accounted PROVE E!TrailAccounts
<1>1. \A sort \in EntryKinds : LoggedIn(audit, sort) \in Int /\ WaitingIn(pending, sort) \in Int
  BY SumsOfTheTrail
<1>2. \A sort : E!Logged(sort) = LoggedIn(audit, sort) /\ E!Waiting(sort) = WaitingIn(pending, sort)
  BY DEF E!Logged, E!Waiting, LoggedIn, WaitingIn
<1>3. "COLLECTED" \in EntryKinds /\ "DESTROYED" \in EntryKinds
  BY DEF EntryKinds
<1> QED
  BY <1>1, <1>2, <1>3, EvalSizes DEF Accounted, E!TrailAccounts


\* A call that stored or destroyed waits with a number of its own.
LEMMA Waits ==
  ASSUME Accounted, UNCHANGED <<audit, faults>>, NEW p,
         p = [kind |-> p.kind, of |-> p.of, amount |-> p.amount], p.kind \in EntryKinds, p.of = Upto(p.kind) + 1, p.amount \in Int,
         sent' \in Nat, wiped' \in Nat, Upto(p.kind)' = p.of, \A sort \in EntryKinds : Upto(sort) <= Upto(sort)',
         pending' = pending \cup {p}, IsFiniteSet(DOMAIN ratings'), \A k \in DOMAIN ratings' : k \in Nat /\ k <= sent',
         IF p.kind = "COLLECTED" THEN Cardinality(DOMAIN ratings') = Cardinality(DOMAIN ratings) + p.amount
         ELSE p.amount = Cardinality(DOMAIN ratings) /\ Cardinality(DOMAIN ratings') = 0
  PROVE  Accounted'
<1>0. Upto(p.kind) \in Nat /\ \A sort : Upto(sort) \in Nat /\ Upto(sort)' \in Nat
  BY DEF Upto, Accounted
<1>1. p \notin pending /\ <<p.kind, p.of, p.amount>> \notin audit
  <2>1. p \in pending => p.of <= Upto(p.kind)
    BY DEF Accounted
  <2>2. <<p.kind, p.of, p.amount>> \in audit => p.of <= Upto(p.kind)
    <3>1. \A e \in audit : e[1] \in EntryKinds => e[2] \in Nat /\ e[2] <= Upto(e[1])
      BY DEF Accounted
    <3> DEFINE e == <<p.kind, p.of, p.amount>>
    <3>2. e[1] = p.kind /\ e[2] = p.of
      OBVIOUS
    <3> HIDE DEF e
    <3>3. e \in audit => p.of <= Upto(p.kind)
      BY <3>1, <3>2
    <3> QED
      BY <3>3 DEF e
  <2> QED
    BY <1>0, <2>1, <2>2
<1>2. IsFiniteSet(pending) /\ IsFiniteSet(pending') /\ IsFiniteSet(audit)
  <2>1. IsFiniteSet(pending) /\ IsFiniteSet(audit)
    BY DEF Accounted
  <2> QED
    BY <2>1, FS_AddElement
<1>3. \A sort \in EntryKinds :
        /\ WaitingIn(pending, sort) \in Int
        /\ p.kind = sort => WaitingIn(pending', sort) = p.amount + WaitingIn(pending, sort)
        /\ p.kind # sort => WaitingIn(pending', sort) = WaitingIn(pending, sort)
  <2> SUFFICES ASSUME NEW sort \in EntryKinds
               PROVE  /\ WaitingIn(pending, sort) \in Int
                      /\ p.kind = sort => WaitingIn(pending', sort) = p.amount + WaitingIn(pending, sort)
                      /\ p.kind # sort => WaitingIn(pending', sort) = WaitingIn(pending, sort)
    OBVIOUS
  <2>1. \A x \in pending : x.kind = sort => x.amount \in Int
    BY DEF Accounted
  <2>2. /\ WaitingIn(pending, sort) \in Int
        /\ p.kind = sort => WaitingIn(pending \cup {p}, sort) = p.amount + WaitingIn(pending, sort)
        /\ p.kind # sort => WaitingIn(pending \cup {p}, sort) = WaitingIn(pending, sort)
    BY <1>1, <1>2, <2>1, WaitAdds
  <2> QED
    BY <2>2
<1>4. \A sort \in EntryKinds : LoggedIn(audit, sort) \in Int
  BY SumsOfTheTrail
<1>5. "COLLECTED" \in EntryKinds /\ "DESTROYED" \in EntryKinds /\ (p.kind = "COLLECTED" \/ p.kind = "DESTROYED")
  BY DEF EntryKinds
<1>6. faults' = 0 =>
        (LoggedIn(audit', "COLLECTED") + WaitingIn(pending', "COLLECTED")) - LoggedIn(audit', "DESTROYED") - WaitingIn(pending', "DESTROYED")
          = Cardinality(DOMAIN ratings')
  <2>1. faults' = 0 =>
        (LoggedIn(audit, "COLLECTED") + WaitingIn(pending, "COLLECTED")) - LoggedIn(audit, "DESTROYED") - WaitingIn(pending, "DESTROYED")
          = Cardinality(DOMAIN ratings)
    BY DEF Accounted
  <2>2. LoggedIn(audit', "COLLECTED") = LoggedIn(audit, "COLLECTED") /\ LoggedIn(audit', "DESTROYED") = LoggedIn(audit, "DESTROYED")
    OBVIOUS
  <2>3. Cardinality(DOMAIN ratings) \in Nat
    BY FS_CardinalityType DEF Accounted
  <2>a. /\ WaitingIn(pending, "COLLECTED") \in Int /\ WaitingIn(pending, "DESTROYED") \in Int
        /\ LoggedIn(audit, "COLLECTED") \in Int /\ LoggedIn(audit, "DESTROYED") \in Int
    BY <1>3, <1>4, <1>5
  <2>4. CASE p.kind = "COLLECTED"
    <3>1. WaitingIn(pending', "COLLECTED") = p.amount + WaitingIn(pending, "COLLECTED") /\ WaitingIn(pending', "DESTROYED") = WaitingIn(pending, "DESTROYED")
      BY <1>3, <1>5, <2>4
    <3> QED
      BY <2>1, <2>2, <2>3, <2>4, <2>a, <3>1
  <2>5. CASE p.kind = "DESTROYED"
    <3>1. WaitingIn(pending', "DESTROYED") = p.amount + WaitingIn(pending, "DESTROYED") /\ WaitingIn(pending', "COLLECTED") = WaitingIn(pending, "COLLECTED")
      BY <1>3, <1>5, <2>5
    <3> QED
      BY <2>1, <2>2, <2>3, <2>5, <2>a, <3>1
  <2> QED
    BY <1>5, <2>4, <2>5
<1>7. \A q \in pending' :
        /\ q = [kind |-> q.kind, of |-> q.of, amount |-> q.amount]
        /\ q.kind \in EntryKinds /\ q.of \in Nat /\ q.of <= Upto(q.kind)' /\ q.amount \in Int
        /\ <<q.kind, q.of, q.amount>> \notin audit'
  <2> SUFFICES ASSUME NEW q \in pending'
               PROVE  /\ q = [kind |-> q.kind, of |-> q.of, amount |-> q.amount]
                      /\ q.kind \in EntryKinds /\ q.of \in Nat /\ q.of <= Upto(q.kind)' /\ q.amount \in Int
                      /\ <<q.kind, q.of, q.amount>> \notin audit'
    OBVIOUS
  <2>1. CASE q \in pending
    <3>1. /\ q = [kind |-> q.kind, of |-> q.of, amount |-> q.amount]
          /\ q.kind \in EntryKinds /\ q.of \in Nat /\ q.of <= Upto(q.kind) /\ q.amount \in Int
          /\ <<q.kind, q.of, q.amount>> \notin audit
      BY <2>1 DEF Accounted
    <3>2. Upto(q.kind) <= Upto(q.kind)' /\ Upto(q.kind) \in Nat /\ Upto(q.kind)' \in Nat
      BY <1>0, <3>1
    <3> QED
      BY <3>1, <3>2
  <2>2. CASE q = p
    BY <1>0, <1>1, <2>2
  <2> QED
    BY <2>1, <2>2
<1>8. \A e \in audit' : e[1] \in EntryKinds => e[2] \in Nat /\ e[2] <= Upto(e[1])' /\ e[3] \in Int
  <2> SUFFICES ASSUME NEW e \in audit, e[1] \in EntryKinds PROVE e[2] \in Nat /\ e[2] <= Upto(e[1])' /\ e[3] \in Int
    OBVIOUS
  <2>1. e[2] \in Nat /\ e[2] <= Upto(e[1]) /\ e[3] \in Int
    BY DEF Accounted
  <2>2. Upto(e[1]) <= Upto(e[1])' /\ Upto(e[1]) \in Nat /\ Upto(e[1])' \in Nat
    BY <1>0
  <2> QED
    BY <2>1, <2>2
<1>9. faults' \in Nat
  BY DEF Accounted
<1> HIDE DEF EntryKinds
<1> QED
  BY <1>2, <1>6, <1>7, <1>8, <1>9 DEF Accounted

LEMMA AccountedStep ==
  ASSUME Accounted, [E!Next]_E!vars PROVE Accounted'
<1>f. faults \in Nat /\ sent \in Nat /\ wiped \in Nat
  BY DEF Accounted
<1>1. CASE UNCHANGED E!vars
  BY <1>1 DEF E!vars, Accounted, Upto
<1>2. ASSUME NEW c \in Callers,
             \/ E!Start(c) \/ E!StartFails(c) \/ E!Compare(c) \/ E!LoadFails(c) \/ E!Save(c)
             \/ E!Audited(c) \/ E!Complete(c) \/ E!StepFails(c) \/ E!StageFailed(c)
      PROVE  Accounted'
  <2>1. UNCHANGED <<ratings, pending, sent, wiped>> /\ (faults' = faults \/ faults' = faults + 1)
    BY <1>2 DEF E!Start, E!StartFails, E!Compare, E!LoadFails, E!Save, E!Audited, E!Complete, E!StepFails, E!StageFailed, E!Fault
  <2>2. \/ audit' = audit
        \/ \E says \in {"EVALUATION_STAGE_STARTED", "BENCHMARK_EVALUATION_COMPLETED", "EVALUATION_STAGE_COMPLETED", "EVALUATION_STAGE_FAILED"} :
             audit' = audit \cup {<<says, c>>}
    BY <1>2 DEF E!Start, E!StartFails, E!Compare, E!LoadFails, E!Save, E!Audited, E!Complete, E!StepFails, E!StageFailed, E!Log
  <2>3. PICK says \in {"EVALUATION_STAGE_STARTED", "BENCHMARK_EVALUATION_COMPLETED", "EVALUATION_STAGE_COMPLETED", "EVALUATION_STAGE_FAILED"} :
             audit' = audit \/ audit' = audit \cup {<<says, c>>}
    BY <2>2
  <2> DEFINE x == <<says, c>>
  <2>4. x[1] \notin EntryKinds /\ \A sort \in EntryKinds : \A of, amount : <<sort, of, amount>> # x
    BY DEF EntryKinds
  <2>5. faults' \in Nat /\ (faults' = 0 => faults = 0)
    BY <1>f, <2>1
  <2> HIDE DEF x
  <2>6. audit' = audit \/ audit' = audit \cup {x}
    BY <2>3 DEF x
  <2> QED
    BY <2>1, <2>4, <2>5, <2>6, OtherEntry
<1>3. ASSUME NEW a \in Answers, E!Collect(a) PROVE Accounted'
  <2>0. PICK p : p = [kind |-> "COLLECTED", of |-> sent', amount |-> 1]
    OBVIOUS
  <2>1. /\ sent' = sent + 1 /\ pending' = pending \cup {p} /\ UNCHANGED <<audit, wiped, faults>>
        /\ DOMAIN ratings' = DOMAIN ratings \cup {sent + 1}
    BY <1>3, <2>0 DEF E!Collect
  <2>2. p.kind = "COLLECTED" /\ p.of = sent + 1 /\ p.amount = 1 /\ p = [kind |-> p.kind, of |-> p.of, amount |-> p.amount]
    BY <2>0, <2>1
  <2>3. Upto("COLLECTED") = sent /\ Upto("COLLECTED")' = sent + 1 /\ Upto("DESTROYED") = wiped /\ Upto("DESTROYED")' = wiped
    BY <2>1 DEF Upto
  <2>4. \A sort \in EntryKinds : Upto(sort) <= Upto(sort)'
    BY <1>f, <2>1 DEF Upto
  <2>5. IsFiniteSet(DOMAIN ratings) /\ \A k \in DOMAIN ratings : k \in Nat /\ k <= sent
    BY DEF Accounted
  <2>6. sent + 1 \notin DOMAIN ratings
    BY <1>f, <2>5
  <2>7. IsFiniteSet(DOMAIN ratings') /\ Cardinality(DOMAIN ratings') = Cardinality(DOMAIN ratings) + 1
    BY <2>1, <2>5, <2>6, FS_AddElement
  <2>8. \A k \in DOMAIN ratings' : k \in Nat /\ k <= sent'
    BY <1>f, <2>1, <2>5
  <2>9. p.kind \in EntryKinds /\ sent' \in Nat /\ wiped' \in Nat /\ p.amount \in Int
    BY <1>f, <2>1, <2>2 DEF EntryKinds
  <2>10. p.of = Upto(p.kind) + 1 /\ Upto(p.kind)' = p.of
    BY <2>1, <2>2 DEF Upto
  <2> QED
    BY <2>1, <2>2, <2>4, <2>7, <2>8, <2>9, <2>10, Waits
<1>4. CASE E!DeleteAll
  <2>0. PICK p : p = [kind |-> "DESTROYED", of |-> wiped', amount |-> Cardinality(DOMAIN ratings)]
    OBVIOUS
  <2>1. wiped' = wiped + 1 /\ pending' = pending \cup {p} /\ UNCHANGED <<audit, sent, faults>> /\ ratings' = <<>>
    BY <1>4, <2>0, EvalSizes DEF E!DeleteAll
  <2>2. p.kind = "DESTROYED" /\ p.of = wiped + 1 /\ p.amount = Cardinality(DOMAIN ratings) /\ p = [kind |-> p.kind, of |-> p.of, amount |-> p.amount]
    BY <2>0, <2>1
  <2>3. \A sort \in EntryKinds : Upto(sort) <= Upto(sort)'
    BY <1>f, <2>1 DEF Upto
  <2>4. DOMAIN ratings' = {} /\ IsFiniteSet(DOMAIN ratings)
    BY <2>1 DEF Accounted
  <2>5. IsFiniteSet(DOMAIN ratings') /\ Cardinality(DOMAIN ratings') = 0 /\ Cardinality(DOMAIN ratings) \in Nat
    BY <2>4, FS_EmptySet, FS_CardinalityType
  <2>6. p.kind \in EntryKinds /\ sent' \in Nat /\ wiped' \in Nat /\ p.amount \in Int
    BY <1>f, <2>1, <2>2, <2>5 DEF EntryKinds
  <2>7. p.of = Upto(p.kind) + 1 /\ Upto(p.kind)' = p.of
    BY <2>1, <2>2 DEF Upto
  <2> QED
    BY <2>1, <2>2, <2>3, <2>4, <2>5, <2>6, <2>7, Waits
<1>5. ASSUME NEW p, E!LogPending(p) PROVE Accounted'
  BY <1>5, Recorded DEF E!LogPending
<1>6. ASSUME NEW p, E!LogFails(p) PROVE Accounted'
  <2>1. pending' = pending \ {p} /\ faults' = faults + 1 /\ UNCHANGED <<ratings, audit, sent, wiped>>
    BY <1>6 DEF E!LogFails, E!Fault
  <2>2. faults' \in Nat /\ faults' # 0
    BY <1>f, <2>1
  <2>3. IsFiniteSet(pending')
    <3>1. IsFiniteSet(pending) /\ pending' \subseteq pending
      BY <2>1 DEF Accounted
    <3> QED
      BY <3>1, FS_Subset
  <2>4. \A sort : Upto(sort)' = Upto(sort)
    BY <2>1 DEF Upto
  <2> QED
    BY <2>1, <2>2, <2>3, <2>4 DEF Accounted
<1> QED
  BY <1>1, <1>2, <1>3, <1>4, <1>5, <1>6 DEF E!Next

-----------------------------------------------------------------------------
(* Metrics                                                                   *)

\* F1 of the counts a, b and d: with a hit it is 2a over 2a + b + d, both a times as
\* large; without one it is 0, and so are precision and recall.
LEMMA FractionsAre ==
  ASSUME NEW c, NEW a \in Nat, NEW b \in Nat, NEW d \in Nat, c.tp = a, c.fp = b, c.fn = d
  PROVE  /\ a = 0 => /\ E!Precision(c)[1] = 0 /\ E!Recall(c)[1] = 0 /\ E!F1(c) = <<0, 1>>
                     /\ E!Precision(c)[2] \in Nat /\ E!Recall(c)[2] \in Nat
         /\ a # 0 => /\ E!Precision(c) = <<a, a + b>> /\ E!Recall(c) = <<a, a + d>>
                     /\ E!F1(c) = <<2 * (a * a), 2 * (a * a) + a * (b + d)>>
<1>1. CASE a = 0
  <2>1. E!Precision(c) = IF b = 0 THEN <<0, 1>> ELSE <<0, b>>
    BY <1>1 DEF E!Precision, E!Ratio
  <2>2. E!Recall(c) = IF d = 0 THEN <<0, 1>> ELSE <<0, d>>
    BY <1>1 DEF E!Recall, E!Ratio
  <2>3. E!Precision(c)[1] = 0 /\ E!Recall(c)[1] = 0 /\ E!Precision(c)[2] \in Nat /\ E!Recall(c)[2] \in Nat
    BY <2>1, <2>2
  <2> DEFINE x == E!Precision(c)[2]
             y == E!Recall(c)[2]
  <2>4. E!F1(c) = E!Ratio(2 * 0 * 0, 0 * y + 0 * x)
    BY <2>3 DEF E!F1
  <2> HIDE DEF x, y
  <2>5. x \in Nat /\ y \in Nat
    BY <2>3 DEF x, y
  <2>6. 2 * 0 * 0 = 0 /\ 0 * y + 0 * x = 0
    BY <2>5
  <2>7. E!F1(c) = <<0, 1>>
    BY <2>4, <2>6 DEF E!Ratio
  <2> QED
    BY <1>1, <2>3, <2>7
<1>2. CASE a # 0
  <2>1. E!Precision(c) = <<a, a + b>>
    BY <1>2 DEF E!Precision, E!Ratio
  <2>2. E!Recall(c) = <<a, a + d>>
    BY <1>2 DEF E!Recall, E!Ratio
  <2>3. E!F1(c) = E!Ratio(2 * a * a, a * (a + d) + a * (a + b))
    BY <2>1, <2>2 DEF E!F1
  <2>4. 2 * a * a = 2 * (a * a) /\ a * (a + d) + a * (a + b) = 2 * (a * a) + a * (b + d)
    OBVIOUS
  <2>5. a * a > 0 /\ a * (b + d) >= 0 /\ a * a \in Nat /\ a * (b + d) \in Nat
    BY <1>2
  <2>6. 2 * (a * a) + a * (b + d) # 0
    BY <2>5
  <2>7. E!F1(c) = <<2 * (a * a), 2 * (a * a) + a * (b + d)>>
    BY <2>3, <2>4, <2>6 DEF E!Ratio
  <2> QED
    BY <1>2, <2>1, <2>2, <2>7
<1> QED
  BY <1>1, <1>2

LEMMA F1Between ==
  ASSUME NEW c, NEW a \in Nat, NEW b \in Nat, NEW d \in Nat, c.tp = a, c.fp = b, c.fn = d
  PROVE  /\ E!Leq(E!Precision(c), E!F1(c)) \/ E!Leq(E!Recall(c), E!F1(c))
         /\ E!Leq(E!F1(c), E!Precision(c)) \/ E!Leq(E!F1(c), E!Recall(c))
         /\ (E!F1(c)[1] = E!F1(c)[2] /\ a > 0) <=> (a > 0 /\ b = 0 /\ d = 0)
<1>1. CASE a = 0
  <2>1. /\ E!Precision(c)[1] = 0 /\ E!Recall(c)[1] = 0 /\ E!F1(c)[1] = 0 /\ E!F1(c)[2] = 1
        /\ E!Precision(c)[2] \in Nat /\ E!Recall(c)[2] \in Nat
    BY <1>1, FractionsAre
  <2>2. E!Leq(E!Precision(c), E!F1(c)) /\ E!Leq(E!F1(c), E!Precision(c))
    <3> DEFINE x == E!Precision(c)[2]
    <3>1. x \in Nat
      BY <2>1
    <3>2. (E!Leq(E!Precision(c), E!F1(c)) <=> 0 * 1 <= 0 * x) /\ (E!Leq(E!F1(c), E!Precision(c)) <=> 0 * x <= 0 * 1)
      BY <2>1 DEF E!Leq
    <3> HIDE DEF x
    <3> QED
      BY <3>1, <3>2
  <2> QED
    BY <1>1, <2>1, <2>2
<1>2. CASE a # 0
  <2>1. /\ E!Precision(c)[1] = a /\ E!Precision(c)[2] = a + b /\ E!Recall(c)[1] = a /\ E!Recall(c)[2] = a + d
        /\ E!F1(c)[1] = 2 * (a * a) /\ E!F1(c)[2] = 2 * (a * a) + a * (b + d)
    <3>1. E!Precision(c) = <<a, a + b>> /\ E!Recall(c) = <<a, a + d>> /\ E!F1(c) = <<2 * (a * a), 2 * (a * a) + a * (b + d)>>
      BY <1>2, FractionsAre
    <3> QED
      BY <3>1
  <2> DEFINE q == a * a
             den == 2 * q + a * (b + d)
  <2>2. /\ E!Leq(E!Precision(c), E!F1(c)) <=> a * den <= (2 * q) * (a + b)
        /\ E!Leq(E!F1(c), E!Precision(c)) <=> (2 * q) * (a + b) <= a * den
        /\ E!Leq(E!Recall(c), E!F1(c)) <=> a * den <= (2 * q) * (a + d)
        /\ E!Leq(E!F1(c), E!Recall(c)) <=> (2 * q) * (a + d) <= a * den
    BY <2>1 DEF E!Leq
  <2>3. q \in Nat /\ q > 0 /\ a * (b + d) \in Nat /\ (a * (b + d) = 0 <=> b + d = 0)
    BY <1>2
  <2>4. (2 * q) * (a + b) = a * den + q * (b - d) /\ (2 * q) * (a + d) = a * den + q * (d - b)
    OBVIOUS
  <2>5. a * den \in Int
    OBVIOUS
  <2>6. (E!F1(c)[1] = E!F1(c)[2]) <=> a * (b + d) = 0
    <3> HIDE DEF q
    <3> QED
      BY <2>1, <2>3 DEF q
  <2> HIDE DEF den, q
  <2>7. CASE b >= d
    <3>1. q * (b - d) \in Nat /\ q * (d - b) \in Int /\ q * (d - b) = -(q * (b - d))
      BY <2>3, <2>7
    <3> QED
      BY <1>2, <2>2, <2>3, <2>4, <2>5, <2>6, <3>1
  <2>8. CASE d >= b
    <3>1. q * (d - b) \in Nat /\ q * (b - d) \in Int /\ q * (b - d) = -(q * (d - b))
      BY <2>3, <2>8
    <3> QED
      BY <1>2, <2>2, <2>3, <2>4, <2>5, <2>6, <3>1
  <2> QED
    BY <2>7, <2>8
<1> QED
  BY <1>1, <1>2

LEMMA CountsAre ==
  ASSUME NEW F, NEW Wanted, IsFiniteSet(F), IsFiniteSet(Wanted)
  PROVE  /\ E!Counts(F, Wanted).tp \in Nat /\ E!Counts(F, Wanted).fp \in Nat /\ E!Counts(F, Wanted).fn \in Nat
         /\ IsFiniteSet(F \cap Wanted) /\ IsFiniteSet(F \ Wanted) /\ IsFiniteSet(Wanted \ F)
         /\ E!Counts(F, Wanted).recovered \in Nat /\ E!Counts(F, Wanted).expected \in Nat
         /\ (E!Counts(F, Wanted).tp > 0 /\ E!Counts(F, Wanted).fp = 0 /\ E!Counts(F, Wanted).fn = 0) <=> (F = Wanted /\ F # {})
<1>1. IsFiniteSet(F \cap Wanted) /\ IsFiniteSet(F \ Wanted) /\ IsFiniteSet(Wanted \ F)
  BY FS_Subset
<1>2. \A S : IsFiniteSet(S) => Cardinality(S) \in Nat /\ (Cardinality(S) = 0 <=> S = {})
  BY FS_CardinalityType, FS_EmptySet
<1>3. /\ E!Counts(F, Wanted).tp = Cardinality(F \cap Wanted) /\ E!Counts(F, Wanted).fp = Cardinality(F \ Wanted) /\ E!Counts(F, Wanted).fn = Cardinality(Wanted \ F)
      /\ E!Counts(F, Wanted).recovered = Cardinality(F) /\ E!Counts(F, Wanted).expected = Cardinality(Wanted)
  BY EvalSizes DEF E!Counts
<1>4. (F \cap Wanted # {} /\ F \ Wanted = {} /\ Wanted \ F = {}) <=> (F = Wanted /\ F # {})
  OBVIOUS
<1>5. /\ Cardinality(F \cap Wanted) \in Nat /\ (Cardinality(F \cap Wanted) = 0 <=> F \cap Wanted = {})
      /\ Cardinality(F \ Wanted) \in Nat /\ (Cardinality(F \ Wanted) = 0 <=> F \ Wanted = {})
      /\ Cardinality(Wanted \ F) \in Nat /\ (Cardinality(Wanted \ F) = 0 <=> Wanted \ F = {})
      /\ Cardinality(F) \in Nat /\ Cardinality(Wanted) \in Nat
  BY <1>1, <1>2
<1> QED
  BY <1>1, <1>3, <1>4, <1>5

\* An identifier is a list that starts with its category.
EvalStarts(s, x) == IsList(s) /\ Len(s) \in Nat /\ Len(s) >= 1 /\ s[1] = x

LEMMA JoinStarts ==
  ASSUME NEW category, NEW tokens, E!Listed(tokens)
  PROVE  EvalStarts(E!Join(category, tokens), category)
<1> DEFINE n == Len(tokens)
           ss == [i \in DOMAIN tokens |-> IF tokens[i] # "" THEN <<tokens[i]>> ELSE <<>>]
<1>1. n \in Nat /\ DOMAIN tokens = 1..n
  BY DEF E!Listed
<1>2. ss = [i \in 1..n |-> ss[i]] /\ \A i \in 1..n : IsList(ss[i])
  <2>1. \A x : IsList(<<x>>) /\ IsList(<<>>)
    BY ShortLists
  <2> HIDE DEF n
  <2> QED
    BY <1>1, <2>1
<1> HIDE DEF ss, n
<1>3. IsList(G!FlattenSeq(ss))
  BY <1>1, <1>2, Flattened
<1> DEFINE rest == G!FlattenSeq(ss)
<1>4. E!Join(category, tokens) = <<category>> \o rest
  BY EvalFlattens DEF E!Join, ss
<1> HIDE DEF rest
<1>5. rest \in Seq(G!Range(rest)) /\ IsList(<<category>>)
  BY <1>3, ShortLists DEF IsList, rest
<1>6. IsList(<<category>> \o rest)
  BY <1>3, <1>5, ListsJoined DEF rest
<1>7. Len(<<category>> \o rest) \in Nat /\ Len(<<category>> \o rest) >= 1 /\ (<<category>> \o rest)[1] = category
  <2> DEFINE X == G!Range(rest) \cup {category}
  <2>1. rest \in Seq(X) /\ <<category>> \in Seq(X)
    <3>1. G!Range(rest) \subseteq X /\ category \in X
      OBVIOUS
    <3> HIDE DEF X
    <3> QED
      BY <1>5, <3>1
  <2> HIDE DEF X
  <2> QED
    BY <2>1
<1> QED
  BY <1>4, <1>6, <1>7 DEF EvalStarts

LEMMA IdentifierStarts ==
  ASSUME NEW category, NEW parts, E!Listed(parts)
  PROVE  EvalStarts(E!NormaliseIdentifier(category, parts), category)
<1> DEFINE tokens == [n \in DOMAIN parts |-> E!NormaliseToken(parts[n])]
           used == IF category = "file" /\ tokens[2] = "" THEN <<tokens[1], tokens[1]>> ELSE tokens
<1>1. E!Listed(tokens)
  <2>1. DOMAIN tokens = DOMAIN parts /\ Len(parts) \in Nat /\ DOMAIN parts = 1..Len(parts)
    BY DEF E!Listed
  <2> HIDE DEF tokens
  <2>2. Len(tokens) = Len(parts)
    BY <2>1
  <2> QED
    BY <2>1, <2>2 DEF E!Listed
<1> DEFINE x == tokens[1]
<1>2. E!Listed(<<x, x>>)
  <2> HIDE DEF x
  <2> QED
    BY DEF E!Listed
<1>3. used = tokens \/ used = <<x, x>>
  OBVIOUS
<1>4. E!NormaliseIdentifier(category, parts) = E!Join(category, used)
  BY DEF E!NormaliseIdentifier
<1> HIDE DEF used, tokens, x
<1>5. E!Listed(used)
  BY <1>1, <1>2, <1>3
<1> QED
  BY <1>4, <1>5, JoinStarts

LEMMA KeysStart ==
  ASSUME NEW a, E!Listed(a.parts)
  PROVE  E!ArtefactKey(a)[1] = a.category /\ E!TruthKey(a)[1] = a.category
<1>1. E!ArtefactKey(a)[1] = a.category
  <2> DEFINE with == [a.parts EXCEPT ![1] = a.path]
             used == IF a.category = "file" /\ a.parts[1].token = "" THEN with ELSE a.parts
  <2>1. E!Listed(with)
    <3>1. DOMAIN with = DOMAIN a.parts /\ Len(a.parts) \in Nat /\ DOMAIN a.parts = 1..Len(a.parts)
      BY DEF E!Listed
    <3> HIDE DEF with
    <3>2. Len(with) = Len(a.parts)
      BY <3>1
    <3> QED
      BY <3>1, <3>2 DEF E!Listed
  <2>2. used = with \/ used = a.parts
    OBVIOUS
  <2>3. E!ArtefactKey(a) = E!NormaliseIdentifier(a.category, used)
    BY DEF E!ArtefactKey
  <2> HIDE DEF with, used
  <2> QED
    BY <2>1, <2>2, <2>3, IdentifierStarts DEF EvalStarts
<1>2. E!TruthKey(a)[1] = a.category
  <2> DEFINE key == E!NormaliseIdentifier(a.category, a.parts)
  <2>1. EvalStarts(key, a.category)
    BY IdentifierStarts
  <2>2. E!TruthKey(a) = IF Len(key) = 1 THEN key \o key ELSE key
    BY DEF E!TruthKey
  <2> HIDE DEF key
  <2>3. key \in Seq(G!Range(key)) /\ Len(key) \in Nat /\ Len(key) >= 1 /\ key[1] = a.category
    BY <2>1 DEF EvalStarts, IsList
  <2> DEFINE X == G!Range(key)
  <2>4. (key \o key)[1] = a.category
    <3> HIDE DEF X
    <3>1. key \in Seq(X)
      BY <2>3 DEF X
    <3> QED
      BY <2>3, <3>1
  <2> QED
    BY <2>2, <2>3, <2>4
<1> QED
  BY <1>1, <1>2

\* What is found and what is expected of a category is what starts with it.
Of(S, k) == {x \in S : x[1] = k}
CategoriesOf(t) == {a.category : a \in Recovered} \cup {t.entries[n].category : n \in DOMAIN t.entries}
ListedTruth(t) == E!Listed(t.entries) /\ \A n \in DOMAIN t.entries : E!Listed(t.entries[n].parts)

LEMMA ValuesFinite ==
  ASSUME NEW f, IsFiniteSet(DOMAIN f)
  PROVE  IsFiniteSet({f[x] : x \in DOMAIN f})
<1> DEFINE S == DOMAIN f
           T == {f[x] : x \in S}
           g == [x \in S |-> f[x]]
<1>1. g \in Surjection(S, T)
  BY DEF Surjection
<1> HIDE DEF g, S, T
<1>2. IsFiniteSet(T)
  BY <1>1, FS_Surjection DEF S
<1> QED
  BY <1>2 DEF S, T

LEMMA SidesSplit ==
  ASSUME E!Sensible, NEW t, ListedTruth(t)
  PROVE  /\ IsFiniteSet(E!Found) /\ IsFiniteSet(E!Expected(t)) /\ IsFiniteSet(CategoriesOf(t))
         /\ \A x \in E!Found \cup E!Expected(t) : x[1] \in CategoriesOf(t)
         /\ \A k : E!CategoryCounts(t, k) = E!Counts(Of(E!Found, k), Of(E!Expected(t), k))
<1> DEFINE dom == DOMAIN t.entries
<1>0. IsFiniteSet(Recovered) /\ (\A a \in Recovered : E!Listed(a.parts)) /\ \A n \in dom : E!Listed(t.entries[n].parts)
  BY EvalSizes DEF E!Sensible, ListedTruth
<1>1. IsFiniteSet(dom)
  <2>1. Len(t.entries) \in Nat /\ dom = 1..Len(t.entries)
    BY DEF ListedTruth, E!Listed
  <2> HIDE DEF dom
  <2> QED
    BY <2>1, FS_Interval
<1>2. IsFiniteSet(E!Found)
  <2> DEFINE f == [a \in Recovered |-> E!ArtefactKey(a)]
  <2>1. E!Found = {f[a] : a \in DOMAIN f} /\ DOMAIN f = Recovered
    BY DEF E!Found
  <2> HIDE DEF f
  <2> QED
    BY <1>0, <2>1, ValuesFinite
<1>3. IsFiniteSet(E!Expected(t))
  <2> DEFINE f == [n \in dom |-> E!TruthKey(t.entries[n])]
  <2>1. E!Expected(t) = {f[n] : n \in DOMAIN f} /\ DOMAIN f = dom
    BY DEF E!Expected
  <2> HIDE DEF dom, f
  <2> QED
    BY <1>1, <2>1, ValuesFinite
<1>4. IsFiniteSet(CategoriesOf(t))
  <2>1. IsFiniteSet({a.category : a \in Recovered})
    <3> DEFINE f == [a \in Recovered |-> a.category]
    <3>1. {a.category : a \in Recovered} = {f[a] : a \in DOMAIN f} /\ DOMAIN f = Recovered
      OBVIOUS
    <3> HIDE DEF f
    <3> QED
      BY <1>0, <3>1, ValuesFinite
  <2>2. IsFiniteSet({t.entries[n].category : n \in dom})
    <3> DEFINE f == [n \in dom |-> t.entries[n].category]
    <3>1. {t.entries[n].category : n \in dom} = {f[n] : n \in DOMAIN f} /\ DOMAIN f = dom
      OBVIOUS
    <3> HIDE DEF dom, f
    <3> QED
      BY <1>1, <3>1, ValuesFinite
  <2> QED
    BY <2>1, <2>2, FS_Union DEF CategoriesOf
<1>5. \A a \in Recovered : E!ArtefactKey(a)[1] = a.category
  BY <1>0, KeysStart
<1>6. \A n \in dom : E!TruthKey(t.entries[n])[1] = t.entries[n].category
  <2> HIDE DEF dom
  <2> QED
    BY <1>0, KeysStart
<1>7. ASSUME NEW x \in E!Found \cup E!Expected(t) PROVE x[1] \in CategoriesOf(t)
  <2>1. CASE x \in E!Found
    <3>1. PICK a \in Recovered : x = E!ArtefactKey(a)
      BY <2>1 DEF E!Found
    <3> QED
      BY <1>5, <3>1 DEF CategoriesOf
  <2>2. CASE x \in E!Expected(t)
    <3>1. PICK n \in dom : x = E!TruthKey(t.entries[n])
      BY <2>2 DEF E!Expected
    <3> QED
      BY <1>6, <3>1 DEF CategoriesOf
  <2> QED
    BY <2>1, <2>2
<1>8. ASSUME NEW k PROVE E!CategoryCounts(t, k) = E!Counts(Of(E!Found, k), Of(E!Expected(t), k))
  <2>1. {E!ArtefactKey(a) : a \in {b \in Recovered : b.category = k}} = Of(E!Found, k)
    BY <1>5 DEF Of, E!Found
  <2>2. {E!TruthKey(t.entries[n]) : n \in {m \in dom : t.entries[m].category = k}} = Of(E!Expected(t), k)
    BY <1>6 DEF Of, E!Expected
  <2> QED
    BY <2>1, <2>2 DEF E!CategoryCounts
<1> QED
  BY <1>2, <1>3, <1>4, <1>7, <1>8

\* So each count of the whole is the sum of that count over the categories.
LEMMA CategoriesAddUp ==
  ASSUME E!Sensible, NEW t, ListedTruth(t), NEW f \in {"tp", "fp", "fn", "recovered", "expected"}
  PROVE  E!SumFunction([k \in CategoriesOf(t) |-> E!CategoryCounts(t, k)[f]]) = E!Counts(E!Found, E!Expected(t))[f]
<1> DEFINE F == E!Found
           Wanted == E!Expected(t)
           K == CategoriesOf(t)
           g == [k \in K |-> E!CategoryCounts(t, k)[f]]
<1>1. /\ IsFiniteSet(F) /\ IsFiniteSet(Wanted) /\ IsFiniteSet(K)
      /\ \A x \in F \cup Wanted : x[1] \in K
      /\ \A k : E!CategoryCounts(t, k) = E!Counts(Of(F, k), Of(Wanted, k))
  BY SidesSplit
<1> HIDE DEF F, Wanted, K
<1>2. g = [k \in K |-> E!Counts(Of(F, k), Of(Wanted, k))[f]]
  BY <1>1
<1> HIDE DEF g
<1>3. ASSUME NEW A, IsFiniteSet(A), A \subseteq F \cup Wanted, g = [k \in K |-> Cardinality(Of(A, k))]
      PROVE  E!SumFunction(g) = Cardinality(A)
  <2> DEFINE part == [x \in A |-> x[1]]
  <2>1. \A x \in A : part[x] \in K
    BY <1>1, <1>3
  <2>2. \A k : Of(A, k) = {x \in A : part[x] = k}
    BY DEF Of
  <2>3. g = [k \in K |-> Cardinality({x \in A : part[x] = k})]
    BY <1>3, <2>2
  <2> HIDE DEF part
  <2> QED
    BY <1>1, <1>3, <2>1, <2>3, PartsAddUp
<1>4. \A k : Of(F, k) \cap Of(Wanted, k) = Of(F \cap Wanted, k) /\ Of(F, k) \ Of(Wanted, k) = Of(F \ Wanted, k) /\ Of(Wanted, k) \ Of(F, k) = Of(Wanted \ F, k)
  BY DEF Of
<1>5. \A k : /\ E!Counts(Of(F, k), Of(Wanted, k))["tp"] = Cardinality(Of(F \cap Wanted, k))
             /\ E!Counts(Of(F, k), Of(Wanted, k))["fp"] = Cardinality(Of(F \ Wanted, k))
             /\ E!Counts(Of(F, k), Of(Wanted, k))["fn"] = Cardinality(Of(Wanted \ F, k))
             /\ E!Counts(Of(F, k), Of(Wanted, k))["recovered"] = Cardinality(Of(F, k))
             /\ E!Counts(Of(F, k), Of(Wanted, k))["expected"] = Cardinality(Of(Wanted, k))
  BY <1>4, EvalSizes DEF E!Counts
<1>6. /\ E!Counts(F, Wanted)["tp"] = Cardinality(F \cap Wanted) /\ E!Counts(F, Wanted)["fp"] = Cardinality(F \ Wanted) /\ E!Counts(F, Wanted)["fn"] = Cardinality(Wanted \ F)
      /\ E!Counts(F, Wanted)["recovered"] = Cardinality(F) /\ E!Counts(F, Wanted)["expected"] = Cardinality(Wanted)
  BY EvalSizes DEF E!Counts
<1>7. IsFiniteSet(F \cap Wanted) /\ IsFiniteSet(F \ Wanted) /\ IsFiniteSet(Wanted \ F)
  BY <1>1, FS_Subset
<1>8. CASE f = "tp"
  <2>1. g = [k \in K |-> Cardinality(Of(F \cap Wanted, k))]
    BY <1>2, <1>5, <1>8
  <2>2. F \cap Wanted \subseteq F \cup Wanted
    OBVIOUS
  <2> QED
    BY <1>3, <1>6, <1>7, <1>8, <2>1, <2>2 DEF g, F, Wanted, K
<1>9. CASE f = "fp"
  <2>1. g = [k \in K |-> Cardinality(Of(F \ Wanted, k))]
    BY <1>2, <1>5, <1>9
  <2>2. F \ Wanted \subseteq F \cup Wanted
    OBVIOUS
  <2> QED
    BY <1>3, <1>6, <1>7, <1>9, <2>1, <2>2 DEF g, F, Wanted, K
<1>10. CASE f = "fn"
  <2>1. g = [k \in K |-> Cardinality(Of(Wanted \ F, k))]
    BY <1>2, <1>5, <1>10
  <2>2. Wanted \ F \subseteq F \cup Wanted
    OBVIOUS
  <2> QED
    BY <1>3, <1>6, <1>7, <1>10, <2>1, <2>2 DEF g, F, Wanted, K
<1>11. CASE f = "recovered"
  <2>1. g = [k \in K |-> Cardinality(Of(F, k))]
    BY <1>2, <1>5, <1>11
  <2> QED
    BY <1>1, <1>3, <1>6, <1>11, <2>1 DEF g, F, Wanted, K
<1>12. CASE f = "expected"
  <2>1. g = [k \in K |-> Cardinality(Of(Wanted, k))]
    BY <1>2, <1>5, <1>12
  <2> QED
    BY <1>1, <1>3, <1>6, <1>12, <2>1 DEF g, F, Wanted, K
<1> QED
  BY <1>8, <1>9, <1>10, <1>11, <1>12

LEMMA MetricsOfRows ==
  ASSUME E!Sensible, Earned
  PROVE  E!MetricsAgree
<1> SUFFICES ASSUME NEW r \in rows
             PROVE  LET c == r[2]
                        t == E!Truth(r[1])
                        cats == {a.category : a \in Recovered} \cup {t.entries[n].category : n \in DOMAIN t.entries}
                        Total(f) == E!SumFunction([k \in cats |-> E!CategoryCounts(t, k)[f]])
                    IN /\ (E!F1(c)[1] = E!F1(c)[2] /\ c.tp > 0) <=> (E!Found = E!Expected(t) /\ E!Found # {})
                       /\ E!Leq(E!Precision(c), E!F1(c)) \/ E!Leq(E!Recall(c), E!F1(c))
                       /\ E!Leq(E!F1(c), E!Precision(c)) \/ E!Leq(E!F1(c), E!Recall(c))
                       /\ \A f \in DOMAIN c : Total(f) = c[f]
  BY DEF E!MetricsAgree
<1>1. PICK d \in Callers : r = <<d, E!Counts(E!Found, E!Expected(E!Truth(d)))>>
  BY DEF Earned
<1> DEFINE t == E!Truth(d)
           Wanted == E!Expected(t)
           c == E!Counts(E!Found, Wanted)
<1>2. r[1] = d /\ r[2] = c
  BY <1>1
<1>3. ListedTruth(t)
  BY DEF Earned, E!Truth, E!Sensible, ListedTruth
<1> HIDE DEF t
<1>4. IsFiniteSet(E!Found) /\ IsFiniteSet(Wanted)
  BY <1>3, SidesSplit
<1>5. /\ c.tp \in Nat /\ c.fp \in Nat /\ c.fn \in Nat
      /\ (c.tp > 0 /\ c.fp = 0 /\ c.fn = 0) <=> (E!Found = Wanted /\ E!Found # {})
  <2> HIDE DEF Wanted
  <2> QED
    BY <1>4, CountsAre
<1>6. DOMAIN c = {"tp", "fp", "fn", "recovered", "expected"}
  BY EvalSizes DEF E!Counts
<1>7. \A f \in DOMAIN c : E!SumFunction([k \in CategoriesOf(t) |-> E!CategoryCounts(t, k)[f]]) = c[f]
  BY <1>3, <1>6, CategoriesAddUp
<1> HIDE DEF c, Wanted
<1>8. /\ E!Leq(E!Precision(c), E!F1(c)) \/ E!Leq(E!Recall(c), E!F1(c))
      /\ E!Leq(E!F1(c), E!Precision(c)) \/ E!Leq(E!F1(c), E!Recall(c))
      /\ (E!F1(c)[1] = E!F1(c)[2] /\ c.tp > 0) <=> (c.tp > 0 /\ c.fp = 0 /\ c.fn = 0)
  BY <1>5, F1Between
<1>9. (E!F1(c)[1] = E!F1(c)[2] /\ c.tp > 0) <=> (E!Found = E!Expected(t) /\ E!Found # {})
  BY <1>5, <1>8 DEF Wanted
<1>10. \A f \in DOMAIN c : E!SumFunction([k \in {a.category : a \in Recovered} \cup {t.entries[n].category : n \in DOMAIN t.entries} |-> E!CategoryCounts(t, k)[f]]) = c[f]
  BY <1>7 DEF CategoriesOf
<1>11. E!Truth(r[1]) = t
  BY <1>2 DEF t
<1> QED
  BY <1>2, <1>8, <1>9, <1>10, <1>11

LEMMA StatsOfRows ==
  ASSUME E!Sensible, Earned
  PROVE  E!StatsInOrder
<1> DEFINE value == [r \in rows |-> r[2].expected]
           ordered == E!InOrder(value)
<1> SUFFICES ASSUME rows # {}
             PROVE  /\ 100 * ordered[1] <= E!Median(ordered) /\ E!Median(ordered) <= E!Percentile(ordered, 95)
                    /\ E!Percentile(ordered, 95) <= E!Percentile(ordered, 99) /\ E!Percentile(ordered, 99) <= 100 * ordered[Len(ordered)]
  BY DEF E!StatsInOrder
<1>1. ASSUME NEW r \in rows PROVE r[2].expected \in Int
  <2>1. PICK d \in Callers : r = <<d, E!Counts(E!Found, E!Expected(E!Truth(d)))>>
    BY DEF Earned
  <2> DEFINE t == E!Truth(d)
  <2>2. ListedTruth(t)
    BY DEF Earned, E!Truth, E!Sensible, ListedTruth
  <2>3. r[2] = E!Counts(E!Found, E!Expected(t))
    BY <2>1
  <2> HIDE DEF t
  <2>4. IsFiniteSet(E!Found) /\ IsFiniteSet(E!Expected(t))
    BY <2>2, SidesSplit
  <2>5. E!Counts(E!Found, E!Expected(t)).expected \in Nat
    BY <2>4, CountsAre
  <2> QED
    BY <2>3, <2>5
<1>2. Summable(value) /\ DOMAIN value # {}
  BY <1>1 DEF Summable, Earned
<1> HIDE DEF value
<1>3. Rising(ordered, Cardinality(DOMAIN value))
  BY <1>2, InOrderRises
<1> HIDE DEF ordered
<1> QED
  BY <1>3, RisingIsInOrder

-----------------------------------------------------------------------------
\* Whatever the datasets, the artefacts and the answers are: the trail accounts for the
\* responses while nothing fails, rows and entries are earned, the metrics of every row
\* agree with each other and with the categories', ratings stand for their answers, and
\* the statistics of the rows are in order.
THEOREM EvaluationIsSafe == E!Sensible /\ E!Spec => []E!EvaluationSafe
<1> DEFINE Inv == E!Sensible /\ Accounted /\ Earned /\ RatingsSound
<1>1. E!Sensible /\ E!Init => Inv
  <2> SUFFICES ASSUME E!Sensible, E!Init PROVE Inv
    OBVIOUS
  <2>1. RatingsSound
    BY DEF E!Init, RatingsSound
  <2> QED
    BY <2>1, AccountedInit, EarnedInit
<1>2. Inv /\ [E!Next]_E!vars => Inv'
  <2>1. E!Sensible => E!Sensible'
    OBVIOUS
  <2> QED
    BY <2>1, AccountedStep, EarnedStep, RatingsSoundStep
<1>3. Inv => E!EvaluationSafe
  BY AccountedIsEnough, EarnedIsEnough, MetricsOfRows, RatingsSoundIsEnough, StatsOfRows DEF E!EvaluationSafe
<1> HIDE DEF Inv
<1> QED
  BY <1>1, <1>2, <1>3, PTL DEF E!Spec

-----------------------------------------------------------------------------
(* AiAnalysis: any artefacts, prompts and answers, whatever the model      *)
(* says, whatever the limit of a batch and the budget of a prompt.         *)
(*                                                                         *)
(* The batches and the ranking go through an order of the artefacts, which *)
(* is shown to be there and to have each once; packing and cutting repeat  *)
(* one step, and what a step keeps holds of all by induction.              *)
CONSTANTS Sets, Replies, Scores, NoScore, BatchTokens, Prompts, Replied
VARIABLES task, state
AI == INSTANCE AiAnalysis WITH Answers <- Replied

LEMMA AiSizes == \A S : AI!Cardinality(S) = Cardinality(S)
BY DEF AI!Cardinality, Cardinality

LEMMA AiSums == \A f : AI!SumFunction(f) = E!SumFunction(f)
BY DEF AI!SumFunction, AI!SumFunctionOnSet, AI!FoldFunctionOnSet, AI!MapThenFoldSet,
       E!SumFunction, E!SumFunctionOnSet, E!FoldFunctionOnSet, E!MapThenFoldSet

LEMMA SumIsInteger ==
  ASSUME NEW f, Summable(f)
  PROVE  E!SumFunction(f) \in Int
<1>1. Sums(f)[DOMAIN f] \in Int
  BY SumsAreIntegers
<1> QED
  BY <1>1, SumIsLast

\* There is an order of any keys, and an order of keys has every place once.
LEMMA OrderExists ==
  ASSUME NEW key, Summable(key)
  PROVE  \E order : order \in AI!Orders(key)
<1> DEFINE n == Cardinality(DOMAIN key)
<1>1. \E s \in [1..n -> DOMAIN key] : \A i, j \in 1..n : i < j => s[i] # s[j] /\ key[s[i]] <= key[s[j]]
  BY AscendingExists
<1>2. AI!Orders(key) = {s \in [1..n -> DOMAIN key] : \A i, j \in 1..n : i < j => s[i] # s[j] /\ key[s[i]] <= key[s[j]]}
  BY AiSizes DEF AI!Orders
<1> HIDE DEF n
<1> QED
  BY <1>1, <1>2

Ordering(order, key, n) ==
  /\ n \in Nat /\ order \in [1..n -> DOMAIN key] /\ DOMAIN order = 1..n
  /\ \A i, j \in 1..n : i < j => key[order[i]] <= key[order[j]]
  /\ \A x \in DOMAIN key : \E i \in 1..n : order[i] = x

LEMMA OrdersOrder ==
  ASSUME NEW key, Summable(key), NEW order \in AI!Orders(key)
  PROVE  Ordering(order, key, Cardinality(DOMAIN key))
<1> DEFINE n == Cardinality(DOMAIN key)
<1>0. n \in Nat /\ IsFiniteSet(1..n) /\ Cardinality(1..n) = n
  <2>1. n \in Nat
    BY FS_CardinalityType DEF Summable
  <2> QED
    BY <2>1, FS_Interval
<1>1. order \in [1..n -> DOMAIN key] /\ \A i, j \in 1..n : i < j => order[i] # order[j] /\ key[order[i]] <= key[order[j]]
  BY AiSizes DEF AI!Orders
<1>2. order \in Surjection(1..n, DOMAIN key)
  <2>1. ASSUME NEW i \in 1..n, NEW j \in 1..n, order[i] = order[j] PROVE i = j
    <3> HIDE DEF n
    <3> QED
      BY <1>0, <1>1, <2>1
  <2>2. order \in Injection(1..n, DOMAIN key)
    <3> HIDE DEF n
    <3> QED
      BY <1>1, <2>1 DEF Injection, IsInjective
  <2>3. IsFiniteSet(DOMAIN key) /\ Cardinality(1..n) = Cardinality(DOMAIN key)
    BY <1>0 DEF Summable
  <2> HIDE DEF n
  <2> QED
    BY <2>2, <2>3, FS_Injection
<1>3. \A x \in DOMAIN key : \E i \in 1..n : order[i] = x
  <2> HIDE DEF n
  <2> QED
    BY <1>2 DEF Surjection
<1> HIDE DEF n
<1>4. DOMAIN order = 1..n
  BY <1>1
<1>5. Ordering(order, key, n)
  BY <1>0, <1>1, <1>3, <1>4 DEF Ordering
<1> QED
  BY <1>5 DEF n

\* What Sensible says of a set of artefacts.
LEMMA SetsAreLists ==
  ASSUME AI!Sensible, NEW s \in Sets
  PROVE  /\ Len(s) \in Nat /\ DOMAIN s = 1..Len(s) /\ IsFiniteSet(DOMAIN s) /\ Cardinality(DOMAIN s) = Len(s)
         /\ \A i \in DOMAIN s : s[i].category \in Nat /\ s[i].size \in Nat /\ s[i].rule \in Int
<1>1. /\ Len(s) \in Nat /\ DOMAIN s = 1..Len(s)
      /\ \A i \in DOMAIN s : s[i].category \in Nat /\ s[i].size \in Nat /\ s[i].rule \in Int
  BY DEF AI!Sensible
<1> DEFINE n == Len(s)
<1>2. IsFiniteSet(1..n) /\ Cardinality(1..n) = n
  <2>1. n \in Nat
    BY <1>1
  <2> HIDE DEF n
  <2> QED
    BY <2>1, FS_Interval
<1> QED
  BY <1>1, <1>2

\* A merged score is a percentage whatever the model and the rules gave.
LEMMA ScoresAreShares ==
  ASSUME AI!Sensible, NEW llm \in (0..10) \cup {NoScore}, NEW rule \in Int
  PROVE  AI!MergeScores(llm, rule) \in 0..100
BY DEF AI!Sensible, AI!MergeScores, AI!Clamp, AI!LowerOf

Whole(r, s, c) ==
  /\ Len(r) = Len(s) /\ DOMAIN r = 1..Len(s) /\ AI!IdsOf(r) = AI!IdsOf(s)
  /\ \A i, j \in DOMAIN r : i < j => r[i].level < r[j].level \/ (r[i].level = r[j].level /\ r[i].score >= r[j].score)
  /\ \A i \in DOMAIN r : r[i].score \in 0..100 /\ r[i].id \in DOMAIN c /\ r[i].level = c[r[i].id].level

\* A ranking of artefacts that are all classified has them all, in order.
LEMMA RankingsAreWhole ==
  ASSUME AI!Sensible, NEW s \in Sets, NEW c, AI!IdsOf(s) \subseteq DOMAIN c, \A id \in AI!IdsOf(s) : c[id].level \in AI!Levels,
         NEW scores, \A id \in DOMAIN scores : scores[id] \in Int,
         NEW r \in AI!Rankings(s, c, scores)
  PROVE  Whole(r, s, c)
<1> DEFINE llm(id) == IF id \in DOMAIN scores THEN AI!Clamp(scores[id], 0, 10) ELSE NoScore
           kept == {i \in DOMAIN s : s[i].id \in DOMAIN c}
           item == [i \in kept |-> [id |-> s[i].id, level |-> c[s[i].id].level,
                                    score |-> AI!MergeScores(llm(s[i].id), s[i].rule)]]
           key == [i \in kept |-> 1000 * item[i].level - item[i].score]
           n == Len(s)
<1>0. n \in Nat /\ DOMAIN s = 1..n /\ IsFiniteSet(1..n) /\ Cardinality(1..n) = n /\ \A i \in 1..n : s[i].rule \in Int
  BY SetsAreLists
<1>1. kept = 1..n /\ \A i \in 1..n : s[i].id \in AI!IdsOf(s) /\ s[i].id \in DOMAIN c /\ c[s[i].id].level \in AI!Levels
  BY <1>0 DEF AI!IdsOf
<1>2. PICK order \in AI!Orders(key) : r = [k \in DOMAIN order |-> item[order[k]]]
  BY DEF AI!Rankings
<1>3. \A i \in 1..n : llm(s[i].id) \in (0..10) \cup {NoScore}
  BY DEF AI!Clamp, AI!LowerOf
<1> HIDE DEF llm
<1>4. \A i \in 1..n : item[i].id = s[i].id /\ item[i].level = c[s[i].id].level
                     /\ item[i].level \in AI!Levels /\ item[i].score \in 0..100
  <2> SUFFICES ASSUME NEW i \in 1..n
               PROVE  item[i].id = s[i].id /\ item[i].level = c[s[i].id].level
                     /\ item[i].level \in AI!Levels /\ item[i].score \in 0..100
    OBVIOUS
  <2>1. item[i] = [id |-> s[i].id, level |-> c[s[i].id].level, score |-> AI!MergeScores(llm(s[i].id), s[i].rule)]
    BY <1>1
  <2>2. AI!MergeScores(llm(s[i].id), s[i].rule) \in 0..100
    BY <1>0, <1>3, ScoresAreShares
  <2> HIDE DEF item
  <2> QED
    BY <1>1, <2>1, <2>2
<1> HIDE DEF item
<1>5. DOMAIN key = 1..n /\ \A i \in 1..n : key[i] = 1000 * item[i].level - item[i].score /\ key[i] \in Int
  <2>1. DOMAIN key = 1..n /\ \A i \in 1..n : key[i] = 1000 * item[i].level - item[i].score
    BY <1>1
  <2> HIDE DEF key, n
  <2>2. ASSUME NEW i \in 1..n PROVE key[i] \in Int
    <3>1. item[i].level \in AI!Levels /\ item[i].score \in 0..100
      BY <1>4
    <3>2. PICK a \in AI!Levels, x \in 0..100 : a = item[i].level /\ x = item[i].score
      BY <3>1
    <3>3. key[i] = 1000 * a - x
      BY <2>1, <3>2
    <3> QED
      BY <3>3 DEF AI!Levels
  <2> QED
    BY <2>1, <2>2
<1> HIDE DEF key, kept, n
<1>6. Ordering(order, key, n)
  <2>1. Summable(key) /\ Cardinality(DOMAIN key) = n
    BY <1>0, <1>5 DEF Summable
  <2> QED
    BY <2>1, OrdersOrder
<1>7. /\ DOMAIN order = 1..n /\ \A k \in 1..n : order[k] \in 1..n
      /\ \A i, j \in 1..n : i < j => key[order[i]] <= key[order[j]]
      /\ \A i \in 1..n : \E k \in 1..n : order[k] = i
  <2>1. /\ order \in [1..n -> DOMAIN key] /\ DOMAIN order = 1..n
        /\ \A i, j \in 1..n : i < j => key[order[i]] <= key[order[j]]
        /\ \A x \in DOMAIN key : \E k \in 1..n : order[k] = x
    BY <1>6 DEF Ordering
  <2> QED
    BY <1>5, <2>1
<1>8. DOMAIN r = 1..n /\ Len(r) = n /\ \A k \in 1..n : r[k] = item[order[k]]
  BY <1>0, <1>2, <1>7
<1>9. AI!IdsOf(r) = AI!IdsOf(s)
  <2>1. AI!IdsOf(r) = {r[k].id : k \in 1..n} /\ AI!IdsOf(s) = {s[i].id : i \in 1..n}
    BY <1>0, <1>8 DEF AI!IdsOf
  <2>2. \A k \in 1..n : r[k].id = s[order[k]].id
    BY <1>4, <1>7, <1>8
  <2>3. \A x : x \in AI!IdsOf(s) <=> \E i \in 1..n : s[i].id = x
    BY <2>1
  <2>4. \A x : x \in AI!IdsOf(r) <=> \E k \in 1..n : s[order[k]].id = x
    BY <2>1, <2>2
  <2>5. \A x : x \in AI!IdsOf(s) <=> x \in AI!IdsOf(r)
    BY <1>7, <2>3, <2>4
  <2> QED
    BY <2>5
<1>10. ASSUME NEW i \in DOMAIN r, NEW j \in DOMAIN r, i < j
       PROVE  r[i].level < r[j].level \/ (r[i].level = r[j].level /\ r[i].score >= r[j].score)
  <2>1. i \in 1..n /\ j \in 1..n /\ order[i] \in 1..n /\ order[j] \in 1..n /\ r[i] = item[order[i]] /\ r[j] = item[order[j]]
    BY <1>7, <1>8
  <2>2. key[order[i]] <= key[order[j]]
    BY <1>7, <1>10, <2>1
  <2>3. 1000 * r[i].level - r[i].score <= 1000 * r[j].level - r[j].score
    BY <1>5, <2>1, <2>2
  <2>4. r[i].level \in AI!Levels /\ r[i].score \in 0..100 /\ r[j].level \in AI!Levels /\ r[j].score \in 0..100
    BY <1>4, <2>1
  <2>5. PICK a \in AI!Levels, b \in AI!Levels, x \in 0..100, y \in 0..100 :
          a = r[i].level /\ x = r[i].score /\ b = r[j].level /\ y = r[j].score
    BY <2>4
  <2>6. 1000 * a - x <= 1000 * b - y
    BY <2>3, <2>5
  <2>7. a < b \/ (a = b /\ x >= y)
    BY <2>6 DEF AI!Levels
  <2> QED
    BY <2>5, <2>7
<1>11. \A i \in DOMAIN r : r[i].score \in 0..100 /\ r[i].id \in DOMAIN c /\ r[i].level = c[r[i].id].level
  <2> SUFFICES ASSUME NEW i \in DOMAIN r PROVE r[i].score \in 0..100 /\ r[i].id \in DOMAIN c /\ r[i].level = c[r[i].id].level
    OBVIOUS
  <2>1. order[i] \in 1..n /\ r[i] = item[order[i]]
    BY <1>7, <1>8
  <2>2. r[i].id = s[order[i]].id /\ r[i].level = c[s[order[i]].id].level /\ r[i].score \in 0..100
    BY <1>4, <2>1
  <2> QED
    BY <1>1, <2>1, <2>2
<1> QED
  BY <1>8, <1>9, <1>10, <1>11 DEF Whole, n

-----------------------------------------------------------------------------
\* Batches: each is within its limit or a single artefact, and together they hold
\* as many artefacts, and those, that were packed.
Fitting(b) == AI!SizeOf(b) <= BatchTokens \/ Len(b) = 1
Lens(bs) == [i \in DOMAIN bs |-> Len(bs[i])]
AllIds(bs) == UNION {AI!IdsOf(bs[i]) : i \in DOMAIN bs}

LEMMA IdsAdded ==
  ASSUME NEW A, NEW b \in Seq(A), NEW a \in A
  PROVE  AI!IdsOf(Append(b, a)) = AI!IdsOf(b) \cup {a.id} /\ AI!IdsOf(<<a>>) = {a.id} /\ AI!IdsOf(<<>>) = {}
<1> DEFINE c == Append(b, a)
           n == Len(b)
<1>1. n \in Nat /\ DOMAIN b = 1..n /\ DOMAIN c = 1..(n + 1) /\ c[n + 1] = a /\ \A i \in 1..n : c[i] = b[i]
  OBVIOUS
<1>2. AI!IdsOf(c) = {c[i].id : i \in 1..(n + 1)} /\ AI!IdsOf(b) = {b[i].id : i \in 1..n}
  BY <1>1 DEF AI!IdsOf
<1> HIDE DEF c, n
<1>3. \A i \in 1..(n + 1) : i \in 1..n \/ i = n + 1
  BY <1>1
<1>4. \A i \in 1..n : i \in 1..(n + 1)
  BY <1>1
<1>5. n + 1 \in 1..(n + 1)
  BY <1>1
<1>6. \A x : x \in AI!IdsOf(c) <=> x \in AI!IdsOf(b) \cup {a.id}
  BY <1>1, <1>2, <1>3, <1>4, <1>5
<1>7. AI!IdsOf(<<a>>) = {a.id} /\ AI!IdsOf(<<>>) = {}
  BY DEF AI!IdsOf
<1> QED
  BY <1>6, <1>7 DEF c

LEMMA SizesAreNumbers ==
  ASSUME NEW A, \A a \in A : a.size \in Nat, NEW b \in Seq(A)
  PROVE  AI!SizeOf(b) \in Int
<1> DEFINE f == [i \in DOMAIN b |-> b[i].size]
           n == Len(b)
<1>1. n \in Nat /\ DOMAIN b = 1..n /\ \A i \in 1..n : b[i] \in A
  OBVIOUS
<1>2. IsFiniteSet(1..n)
  <2> HIDE DEF n
  <2> QED
    BY <1>1, FS_Interval
<1>3. Summable(f)
  <2>1. DOMAIN f = 1..n /\ \A i \in 1..n : f[i] = b[i].size
    BY <1>1
  <2> HIDE DEF f, n
  <2> QED
    BY <1>1, <1>2, <2>1 DEF Summable
<1>4. E!SumFunction(f) \in Int
  <2> HIDE DEF f
  <2> QED
    BY <1>3, SumIsInteger
<1> QED
  BY <1>4, AiSums DEF AI!SizeOf

LEMMA LensSummable ==
  ASSUME NEW A, NEW bs \in Seq(Seq(A))
  PROVE  Summable(Lens(bs))
<1> DEFINE n == Len(bs)
<1>1. n \in Nat /\ DOMAIN bs = 1..n /\ \A i \in 1..n : bs[i] \in Seq(A)
  OBVIOUS
<1>2. DOMAIN Lens(bs) = 1..n /\ \A i \in 1..n : Lens(bs)[i] = Len(bs[i])
  BY <1>1 DEF Lens
<1>3. \A i \in 1..n : Len(bs[i]) \in Int
  BY <1>1
<1> HIDE DEF n
<1>4. IsFiniteSet(1..n)
  BY <1>1, FS_Interval
<1> QED
  BY <1>2, <1>3, <1>4 DEF Summable

LEMMA BatchAdded ==
  ASSUME NEW A, NEW bs \in Seq(Seq(A)), NEW b \in Seq(A), Fitting(b), \A i \in DOMAIN bs : Fitting(bs[i])
  PROVE  /\ Append(bs, b) \in Seq(Seq(A)) /\ \A i \in DOMAIN Append(bs, b) : Fitting(Append(bs, b)[i])
         /\ E!SumFunction(Lens(bs)) \in Int /\ E!SumFunction(Lens(Append(bs, b))) = E!SumFunction(Lens(bs)) + Len(b)
         /\ AllIds(Append(bs, b)) = AllIds(bs) \cup AI!IdsOf(b)
<1> DEFINE c == Append(bs, b)
           n == Len(bs)
<1>1. /\ n \in Nat /\ DOMAIN bs = 1..n /\ DOMAIN c = 1..(n + 1) /\ c \in Seq(Seq(A))
      /\ c[n + 1] = b /\ \A i \in 1..n : c[i] = bs[i]
  OBVIOUS
<1>2. AllIds(c) = UNION {AI!IdsOf(c[i]) : i \in 1..(n + 1)} /\ AllIds(bs) = UNION {AI!IdsOf(bs[i]) : i \in 1..n}
  BY <1>1 DEF AllIds
<1>3. /\ DOMAIN Lens(bs) = 1..n /\ DOMAIN Lens(c) = 1..(n + 1)
      /\ \A i \in 1..n : Lens(bs)[i] = Len(bs[i])
      /\ \A i \in 1..(n + 1) : Lens(c)[i] = Len(c[i])
  BY <1>1 DEF Lens
<1>4. Summable(Lens(bs))
  BY LensSummable
<1>5. Len(b) \in Int
  OBVIOUS
<1> HIDE DEF c, n
<1>6. \A i \in 1..(n + 1) : i \in 1..n \/ i = n + 1
  BY <1>1
<1>7. \A i \in 1..n : i \in 1..(n + 1)
  BY <1>1
<1>8. n + 1 \in 1..(n + 1) /\ n + 1 \notin 1..n /\ 1..(n + 1) = (1..n) \cup {n + 1}
  BY <1>1
<1>9. \A i \in DOMAIN c : Fitting(c[i])
  BY <1>1, <1>6
<1>10. AllIds(c) = AllIds(bs) \cup AI!IdsOf(b)
  <2>1. \A x : x \in AllIds(c) <=> \E i \in 1..(n + 1) : x \in AI!IdsOf(c[i])
    BY <1>2
  <2>2. \A x : x \in AllIds(bs) <=> \E i \in 1..n : x \in AI!IdsOf(bs[i])
    BY <1>2
  <2>3. \A x : x \in AllIds(c) <=> x \in AllIds(bs) \/ x \in AI!IdsOf(b)
    BY <1>1, <1>6, <1>7, <1>8, <2>1, <2>2
  <2> QED
    BY <2>3
<1>11. E!SumFunction(Lens(bs)) \in Int /\ E!SumFunction(Lens(c)) = Len(b) + E!SumFunction(Lens(bs))
  <2>1. Lens(c)[n + 1] = Len(b)
    BY <1>1, <1>3, <1>8
  <2>2. \A i \in DOMAIN Lens(bs) : Lens(c)[i] = Lens(bs)[i]
    BY <1>1, <1>3, <1>7
  <2>3. n + 1 \notin DOMAIN Lens(bs) /\ DOMAIN Lens(c) = DOMAIN Lens(bs) \cup {n + 1} /\ Lens(c)[n + 1] \in Int
    BY <1>3, <1>5, <1>8, <2>1
  <2> QED
    BY <1>4, <2>1, <2>2, <2>3, SumAdded
<1>12. E!SumFunction(Lens(c)) = E!SumFunction(Lens(bs)) + Len(b)
  BY <1>5, <1>11
<1> QED
  BY <1>1, <1>9, <1>10, <1>11, <1>12 DEF c

Packing(acc, A, ids, n) ==
  /\ acc \in [done : Seq(Seq(A)), current : Seq(A)]
  /\ \A i \in DOMAIN acc.done : Fitting(acc.done[i])
  /\ acc.current # <<>> => Fitting(acc.current)
  /\ E!SumFunction(Lens(acc.done)) + Len(acc.current) = n
  /\ AllIds(acc.done) \cup AI!IdsOf(acc.current) = ids

LEMMA PackAdds ==
  ASSUME NEW A, \A a \in A : a.size \in Nat, BatchTokens \in Nat,
         NEW a \in A, NEW ids, NEW n \in Nat, NEW acc, Packing(acc, A, ids, n)
  PROVE  Packing(AI!Pack(acc, a), A, ids \cup {a.id}, n + 1)
<1> DEFINE done == acc.done
           current == acc.current
           candidate == Append(current, a)
           next == AI!Pack(acc, a)
           Kept(d, c) == next = [done |-> d, current |-> c]
<1>1. /\ done \in Seq(Seq(A)) /\ current \in Seq(A) /\ \A i \in DOMAIN done : Fitting(done[i])
      /\ current # <<>> => Fitting(current)
      /\ E!SumFunction(Lens(done)) + Len(current) = n /\ AllIds(done) \cup AI!IdsOf(current) = ids
  BY DEF Packing
<1>2. /\ candidate \in Seq(A) /\ Len(candidate) = Len(current) + 1 /\ Len(current) \in Nat
      /\ <<a>> \in Seq(A) /\ Len(<<a>>) = 1 /\ <<>> \in Seq(A) /\ Len(<<>>) = 0
      /\ (current = <<>> => Len(current) = 0)
  <2> HIDE DEF next
  <2> QED
    BY <1>1
<1>3. AI!IdsOf(candidate) = AI!IdsOf(current) \cup {a.id} /\ AI!IdsOf(<<a>>) = {a.id} /\ AI!IdsOf(<<>>) = {}
  BY <1>1, IdsAdded
<1>4. AI!SizeOf(candidate) \in Int
  <2> HIDE DEF candidate
  <2> QED
    BY <1>2, SizesAreNumbers
<1>5. E!SumFunction(Lens(done)) \in Int
  BY <1>1, LensSummable, SumIsInteger
<1>6. \/ (current = <<>> \/ ~(AI!SizeOf(candidate) > BatchTokens)) /\ Kept(done, candidate)
      \/ current # <<>> /\ a.size > BatchTokens /\ Kept(Append(Append(done, current), <<a>>), <<>>)
      \/ current # <<>> /\ Kept(Append(done, current), <<a>>)
  BY DEF AI!Pack
<1> HIDE DEF done, current, candidate, next
<1>7. Fitting(<<a>>)
  BY <1>2 DEF Fitting
<1>8. CASE (current = <<>> \/ ~(AI!SizeOf(candidate) > BatchTokens)) /\ Kept(done, candidate)
  <2>1. Fitting(candidate)
    BY <1>2, <1>4, <1>8 DEF Fitting
  <2>2. next.done = done /\ next.current = candidate /\ next \in [done : Seq(Seq(A)), current : Seq(A)]
    BY <1>1, <1>2, <1>8
  <2>3. E!SumFunction(Lens(done)) + Len(candidate) = n + 1
    BY <1>1, <1>2, <1>5
  <2>4. AllIds(done) \cup AI!IdsOf(candidate) = ids \cup {a.id}
    BY <1>1, <1>3
  <2>5. Packing(next, A, ids \cup {a.id}, n + 1)
    BY <1>1, <2>1, <2>2, <2>3, <2>4 DEF Packing
  <2> QED
    BY <2>5 DEF next
<1>9. ASSUME current # <<>>
      PROVE  /\ Append(done, current) \in Seq(Seq(A)) /\ \A i \in DOMAIN Append(done, current) : Fitting(Append(done, current)[i])
             /\ E!SumFunction(Lens(Append(done, current))) = E!SumFunction(Lens(done)) + Len(current)
             /\ AllIds(Append(done, current)) = AllIds(done) \cup AI!IdsOf(current)
  BY <1>1, <1>9, BatchAdded
<1> DEFINE more == Append(done, current)
           full == Append(more, <<a>>)
<1>10. CASE current # <<>> /\ a.size > BatchTokens /\ Kept(full, <<>>)
  <2>1. /\ more \in Seq(Seq(A)) /\ \A i \in DOMAIN more : Fitting(more[i])
        /\ E!SumFunction(Lens(more)) = n /\ AllIds(more) = ids
    BY <1>1, <1>9, <1>10
  <2> HIDE DEF more
  <2>2. /\ full \in Seq(Seq(A)) /\ \A i \in DOMAIN full : Fitting(full[i])
        /\ E!SumFunction(Lens(full)) = E!SumFunction(Lens(more)) + Len(<<a>>) /\ AllIds(full) = AllIds(more) \cup AI!IdsOf(<<a>>)
    BY <1>2, <1>7, <2>1, BatchAdded
  <2> HIDE DEF full
  <2>3. next.done = full /\ next.current = <<>> /\ next \in [done : Seq(Seq(A)), current : Seq(A)]
    BY <1>2, <1>10, <2>2
  <2>4. E!SumFunction(Lens(full)) + Len(<<>>) = n + 1 /\ AllIds(full) \cup AI!IdsOf(<<>>) = ids \cup {a.id}
    <3>1. E!SumFunction(Lens(full)) = n + 1
      BY <1>2, <2>1, <2>2
    <3>2. AllIds(full) = ids \cup {a.id}
      BY <1>3, <2>1, <2>2
    <3> QED
      BY <1>2, <1>3, <3>1, <3>2
  <2>5. Packing(next, A, ids \cup {a.id}, n + 1)
    BY <2>2, <2>3, <2>4 DEF Packing
  <2> QED
    BY <2>5 DEF next
<1>11. CASE current # <<>> /\ Kept(more, <<a>>)
  <2>1. /\ more \in Seq(Seq(A)) /\ \A i \in DOMAIN more : Fitting(more[i])
        /\ E!SumFunction(Lens(more)) = n /\ AllIds(more) = ids
    BY <1>1, <1>9, <1>11
  <2> HIDE DEF more
  <2>2. next.done = more /\ next.current = <<a>> /\ next \in [done : Seq(Seq(A)), current : Seq(A)]
    BY <1>2, <1>11, <2>1
  <2>3. E!SumFunction(Lens(more)) + Len(<<a>>) = n + 1 /\ AllIds(more) \cup AI!IdsOf(<<a>>) = ids \cup {a.id}
    BY <1>2, <1>3, <2>1
  <2>4. Packing(next, A, ids \cup {a.id}, n + 1)
    BY <1>7, <2>1, <2>2, <2>3 DEF Packing
  <2> QED
    BY <2>4 DEF next
<1> QED
  BY <1>6, <1>8, <1>10, <1>11

PartsOf(s) == {s[i] : i \in DOMAIN s}

\* The function that packs artefacts one by one is there, and packs them all.
LEMMA BatchesAreSound ==
  ASSUME AI!Sensible, NEW s \in Sets
  PROVE  LET all == AI!CreateBatches(s) IN
         /\ all \in Seq(Seq(PartsOf(s))) /\ \A i \in DOMAIN all : Fitting(all[i])
         /\ E!SumFunction(Lens(all)) = Len(s) /\ AllIds(all) = AI!IdsOf(s)
<1> DEFINE A == PartsOf(s)
           N == Len(s)
           key == [i \in DOMAIN s |-> Len(s) * s[i].category + i]
           order == CHOOSE o \in AI!Orders(key) : TRUE
           none == [done |-> <<>>, current |-> <<>>]
           Filled(p) == [n \in 0..N |-> IF n = 0 THEN none ELSE AI!Pack(p[n - 1], s[order[n]])]
           packed == CHOOSE p : p = Filled(p)
           V == [done : Seq(Seq(A)), current : Seq(A)]
           IdsUpto(n) == {s[order[k]].id : k \in 1..n}
<1>1. /\ N \in Nat /\ DOMAIN s = 1..N /\ IsFiniteSet(DOMAIN s) /\ Cardinality(DOMAIN s) = N
      /\ \A i \in 1..N : s[i].category \in Nat /\ s[i].size \in Nat /\ s[i] \in A
  BY SetsAreLists DEF PartsOf
<1>2. \A a \in A : a.size \in Nat
  BY <1>1 DEF PartsOf
<1>3. BatchTokens \in Nat
  BY DEF AI!Sensible
<1>4. AI!CreateBatches(s) = IF packed[N].current = <<>> THEN packed[N].done ELSE Append(packed[N].done, packed[N].current)
  BY DEF AI!CreateBatches
<1>5. Ordering(order, key, N)
  <2>1. \A c \in Nat : N * c \in Nat
    BY <1>1
  <2>2. \A i \in 1..N : key[i] = N * s[i].category + i
    BY <1>1
  <2>3. DOMAIN key = 1..N
    BY <1>1
  <2> HIDE DEF key, N
  <2>4. ASSUME NEW i \in 1..N PROVE key[i] \in Int
    <3>1. PICK c \in Nat : c = s[i].category
      BY <1>1
    <3>2. N * c \in Nat /\ key[i] = N * c + i
      BY <2>1, <2>2, <3>1
    <3> QED
      BY <3>2
  <2>5. Summable(key) /\ Cardinality(DOMAIN key) = N
    BY <1>1, <2>3, <2>4 DEF Summable
  <2>6. order \in AI!Orders(key)
    BY <2>5, OrderExists
  <2> HIDE DEF order
  <2> QED
    BY <2>5, <2>6, OrdersOrder
<1>6. (\A n \in 1..N : order[n] \in 1..N) /\ \A i \in 1..N : \E n \in 1..N : order[n] = i
  <2>1. DOMAIN key = 1..N
    BY <1>1
  <2> HIDE DEF key, order, N
  <2> QED
    BY <1>5, <2>1 DEF Ordering
<1> HIDE DEF A, N, key, order
<1>7. none \in V /\ Packing(none, A, IdsUpto(0), 0)
  <2>1. <<>> \in Seq(Seq(A)) /\ <<>> \in Seq(A) /\ Len(<<>>) = 0 /\ DOMAIN <<>> = {}
    OBVIOUS
  <2>2. none \in V /\ none.done = <<>> /\ none.current = <<>>
    BY <2>1
  <2>3. E!SumFunction(Lens(<<>>)) = 0
    <3>1. DOMAIN Lens(<<>>) = {}
      BY <2>1 DEF Lens
    <3> QED
      BY <3>1, SumNone
  <2>4. AllIds(<<>>) = {} /\ AI!IdsOf(<<>>) = {} /\ IdsUpto(0) = {}
    <3>1. AllIds(<<>>) = {} /\ AI!IdsOf(<<>>) = {}
      BY <2>1 DEF AllIds, AI!IdsOf
    <3>2. 1..0 = {}
      OBVIOUS
    <3> QED
      BY <3>1, <3>2
  <2> HIDE DEF none
  <2>5. E!SumFunction(Lens(none.done)) + Len(none.current) = 0
    BY <2>1, <2>2, <2>3
  <2> HIDE DEF IdsUpto
  <2> QED
    BY <2>1, <2>2, <2>4, <2>5 DEF Packing
<1>8. \A t \in V : \A a \in A : AI!Pack(t, a) \in V
  <2> SUFFICES ASSUME NEW t \in V, NEW a \in A PROVE AI!Pack(t, a) \in V
    OBVIOUS
  <2>1. Append(t.current, a) \in Seq(A) /\ <<a>> \in Seq(A) /\ <<>> \in Seq(A)
    OBVIOUS
  <2>2. Append(t.done, t.current) \in Seq(Seq(A))
    OBVIOUS
  <2>3. Append(Append(t.done, t.current), <<a>>) \in Seq(Seq(A))
    BY <2>1, <2>2
  <2> QED
    BY <2>1, <2>2, <2>3 DEF AI!Pack
<1> HIDE DEF V, none
<1>9. packed = Filled(packed)
  <2> DEFINE h == [u \in (1..N) \X V |-> AI!Pack(u[2], s[order[u[1]]])]
  <2>1. h \in [(1..N) \X V -> V]
    BY <1>1, <1>6, <1>8
  <2>2. \A n \in 1..N : \A t \in V : h[<<n, t>>] = AI!Pack(t, s[order[n]])
    OBVIOUS
  <2> HIDE DEF h
  <2>3. PICK g \in [0..N -> V] : Repeats(g, none, h, N)
    BY <1>1, <1>7, <2>1, Repeated
  <2>4. \A n \in 0..N : n = 0 \/ (n \in 1..N /\ n - 1 \in 0..N)
    BY <1>1
  <2>5. \A n \in 0..N : g[n] = IF n = 0 THEN none ELSE AI!Pack(g[n - 1], s[order[n]])
    BY <2>2, <2>3, <2>4 DEF Repeats
  <2>6. g = Filled(g)
    <3>1. g = [n \in 0..N |-> g[n]]
      OBVIOUS
    <3>2. Filled(g) = [n \in 0..N |-> g[n]]
      BY <2>5
    <3> HIDE DEF Filled
    <3> QED
      BY <3>1, <3>2
  <2> HIDE DEF Filled
  <2> QED
    BY <2>6
<1> HIDE DEF packed
<1>10. packed[0] = none /\ \A n \in 0..(N - 1) : packed[n + 1] = AI!Pack(packed[n], s[order[n + 1]])
  <2>1. \A n \in 0..N : packed[n] = IF n = 0 THEN none ELSE AI!Pack(packed[n - 1], s[order[n]])
    BY <1>9
  <2>2. 0 \in 0..N /\ \A n \in 0..(N - 1) : n + 1 \in 0..N /\ n + 1 # 0 /\ (n + 1) - 1 = n
    BY <1>1
  <2> QED
    BY <2>1, <2>2
<1> DEFINE S == {n \in 0..N : Packing(packed[n], A, IdsUpto(n), n)}
<1>11. 0 \in S
  BY <1>1, <1>7, <1>10
<1>12. ASSUME NEW n \in 0..(N - 1), n \in S PROVE n + 1 \in S
  <2>1. n \in Nat /\ n + 1 \in 0..N /\ n + 1 \in 1..N
    BY <1>1
  <2>2. s[order[n + 1]] \in A /\ Packing(packed[n], A, IdsUpto(n), n) /\ packed[n + 1] = AI!Pack(packed[n], s[order[n + 1]])
    BY <1>1, <1>6, <1>10, <1>12, <2>1
  <2>3. Packing(packed[n + 1], A, IdsUpto(n) \cup {s[order[n + 1]].id}, n + 1)
    <3> HIDE DEF IdsUpto
    <3> QED
      BY <1>2, <1>3, <2>1, <2>2, PackAdds
  <2>4. IdsUpto(n + 1) = IdsUpto(n) \cup {s[order[n + 1]].id}
    <3>1. \A k \in 1..(n + 1) : k \in 1..n \/ k = n + 1
      BY <2>1
    <3>2. n + 1 \in 1..(n + 1) /\ \A k \in 1..n : k \in 1..(n + 1)
      BY <2>1
    <3> QED
      BY <3>1, <3>2
  <2> HIDE DEF IdsUpto
  <2> QED
    BY <2>1, <2>3, <2>4
<1>13. Packing(packed[N], A, IdsUpto(N), N)
  <2>1. 0..N \subseteq S
    <3> HIDE DEF S
    <3> QED
      BY <1>1, <1>11, <1>12, StepByStep
  <2>2. N \in 0..N
    BY <1>1
  <2> QED
    BY <2>1, <2>2
<1>14. IdsUpto(N) = AI!IdsOf(s)
  <2>1. AI!IdsOf(s) = {s[i].id : i \in 1..N}
    BY <1>1 DEF AI!IdsOf
  <2>2. \A x : x \in AI!IdsOf(s) <=> x \in IdsUpto(N)
    BY <1>6, <2>1
  <2> QED
    BY <2>2
<1> HIDE DEF IdsUpto, S
<1> DEFINE done == packed[N].done
           current == packed[N].current
           all == AI!CreateBatches(s)
<1>15. /\ done \in Seq(Seq(A)) /\ current \in Seq(A) /\ \A i \in DOMAIN done : Fitting(done[i])
       /\ current # <<>> => Fitting(current)
       /\ E!SumFunction(Lens(done)) + Len(current) = N /\ AllIds(done) \cup AI!IdsOf(current) = AI!IdsOf(s)
  BY <1>13, <1>14 DEF Packing
<1>16. all = IF current = <<>> THEN done ELSE Append(done, current)
  BY <1>4
<1> HIDE DEF done, current, all
<1>17. all \in Seq(Seq(A)) /\ (\A i \in DOMAIN all : Fitting(all[i])) /\ E!SumFunction(Lens(all)) = N /\ AllIds(all) = AI!IdsOf(s)
  <2>1. CASE current = <<>>
    <3>1. Len(current) = 0 /\ AI!IdsOf(current) = {} /\ E!SumFunction(Lens(done)) \in Int
      BY <1>15, <2>1, LensSummable, SumIsInteger DEF AI!IdsOf
    <3>2. E!SumFunction(Lens(done)) = N
      BY <1>15, <3>1
    <3>3. AllIds(done) = AI!IdsOf(s)
      BY <1>15, <3>1
    <3>4. all = done
      BY <1>16, <2>1
    <3> QED
      BY <1>15, <3>2, <3>3, <3>4
  <2>2. CASE current # <<>>
    <3>1. all = Append(done, current)
      BY <1>16, <2>2
    <3>2. /\ Append(done, current) \in Seq(Seq(A)) /\ \A i \in DOMAIN Append(done, current) : Fitting(Append(done, current)[i])
          /\ E!SumFunction(Lens(Append(done, current))) = E!SumFunction(Lens(done)) + Len(current)
          /\ AllIds(Append(done, current)) = AllIds(done) \cup AI!IdsOf(current)
      BY <1>15, <2>2, BatchAdded
    <3> QED
      BY <1>15, <3>1, <3>2
  <2> QED
    BY <2>1, <2>2
<1> QED
  BY <1>17 DEF all, A, N

-----------------------------------------------------------------------------
\* The cut takes blocks of the worst rank that is left, one at a time.
Count(t, r) == Cardinality({i \in DOMAIN t : t[i].rank = r})
WorstGone(t, all) == \A r \in AI!Levels : Count(t, r) < Count(all, r) => \A i \in DOMAIN t : t[i].rank <= r

LEMMA CountsFinite ==
  ASSUME NEW t \in Seq(AI!Block), NEW r
  PROVE  IsFiniteSet({i \in DOMAIN t : t[i].rank = r}) /\ Count(t, r) \in Nat
<1> DEFINE n == Len(t)
           P == {i \in DOMAIN t : t[i].rank = r}
<1>1. n \in Nat /\ DOMAIN t = 1..n
  OBVIOUS
<1>2. P \subseteq 1..n
  BY <1>1
<1> HIDE DEF n, P
<1>3. IsFiniteSet(P) /\ Cardinality(P) \in Nat
  <2>1. IsFiniteSet(1..n)
    BY <1>1, FS_Interval
  <2>2. IsFiniteSet(P)
    BY <1>2, <2>1, FS_Subset
  <2> QED
    BY <2>2, FS_CardinalityType
<1> QED
  BY <1>3 DEF P, Count

LEMMA WorstIsThere ==
  ASSUME NEW t \in Seq(AI!Block), t # <<>>
  PROVE  AI!DropIndex(t) \in DOMAIN t /\ \A j \in DOMAIN t : t[j].rank <= t[AI!DropIndex(t)].rank
<1> DEFINE n == Len(t)
           Worst(i, j) == t[j].rank < t[i].rank \/ (t[j].rank = t[i].rank /\ j <= i)
           S == {m \in 0..n : m = 0 \/ \E i \in 1..m : \A j \in 1..m : Worst(i, j)}
<1>1. n \in Nat /\ n # 0 /\ DOMAIN t = 1..n /\ \A i \in 1..n : t[i].rank \in Int
  <2>1. n \in Nat /\ n # 0 /\ DOMAIN t = 1..n /\ \A i \in 1..n : t[i] \in AI!Block
    OBVIOUS
  <2>2. \A b \in AI!Block : b.rank \in Int
    BY DEF AI!Block, AI!Levels
  <2> QED
    BY <2>1, <2>2
<1> HIDE DEF n
<1>2. 0 \in S
  BY <1>1
<1>3. ASSUME NEW m \in 0..(n - 1), m \in S PROVE m + 1 \in S
  <2>1. m + 1 \in 0..n /\ m + 1 \in 1..n /\ m + 1 \in 1..(m + 1) /\ \A j \in 1..(m + 1) : j \in 1..n /\ (j = m + 1 \/ j \in 1..m)
    BY <1>1
  <2>2. \E i \in 1..(m + 1) : \A j \in 1..(m + 1) : Worst(i, j)
    <3>1. CASE m = 0
      <4>1. \A j \in 1..(m + 1) : Worst(m + 1, j)
        BY <3>1, <2>1
      <4> HIDE DEF Worst
      <4> QED
        BY <2>1, <4>1
    <3>2. CASE m # 0
      <4>1. PICK i \in 1..m : \A j \in 1..m : Worst(i, j)
        BY <1>3, <3>2
      <4>2. i \in 1..(m + 1) /\ i \in 1..n
        BY <1>1
      <4>3. CASE t[m + 1].rank < t[i].rank
        <5>1. Worst(i, m + 1)
          BY <4>3
        <5>2. \A j \in 1..(m + 1) : Worst(i, j)
          <6> HIDE DEF Worst
          <6> QED
            BY <2>1, <4>1, <5>1
        <5> HIDE DEF Worst
        <5> QED
          BY <4>2, <5>2
      <4>4. CASE ~(t[m + 1].rank < t[i].rank)
        <5>1. ASSUME NEW j \in 1..(m + 1) PROVE Worst(m + 1, j)
          <6>1. CASE j = m + 1
            BY <6>1
          <6>2. CASE j \in 1..m
            <7>1. t[i].rank \in Int /\ t[j].rank \in Int /\ t[m + 1].rank \in Int /\ t[j].rank <= t[i].rank /\ j <= m + 1
              BY <1>1, <2>1, <4>1, <4>2, <6>2
            <7> QED
              BY <4>4, <7>1
          <6> QED
            BY <2>1, <6>1, <6>2
        <5> HIDE DEF Worst
        <5> QED
          BY <2>1, <5>1
      <4> QED
        BY <4>3, <4>4
    <3> QED
      BY <3>1, <3>2
  <2> HIDE DEF Worst
  <2> QED
    BY <2>1, <2>2
<1>4. n \in S
  <2>1. 0..n \subseteq S
    <3> HIDE DEF S
    <3> QED
      BY <1>1, <1>2, <1>3, StepByStep
  <2>2. n \in 0..n
    BY <1>1
  <2> QED
    BY <2>1, <2>2
<1>5. \E i \in DOMAIN t : \A j \in DOMAIN t : Worst(i, j)
  <2> HIDE DEF Worst
  <2> QED
    BY <1>1, <1>4
<1>6. AI!DropIndex(t) = CHOOSE i \in DOMAIN t : \A j \in DOMAIN t : Worst(i, j)
  BY DEF AI!DropIndex
<1>7. AI!DropIndex(t) \in DOMAIN t /\ \A j \in DOMAIN t : Worst(AI!DropIndex(t), j)
  <2> HIDE DEF Worst
  <2> QED
    BY <1>5, <1>6
<1> QED
  BY <1>1, <1>7

LEMMA Removed ==
  ASSUME NEW B, NEW t \in Seq(B), NEW d \in DOMAIN t
  PROVE  /\ AI!RemoveAt(t, d) \in Seq(B) /\ Len(AI!RemoveAt(t, d)) = Len(t) - 1
         /\ \A j \in 1..(Len(t) - 1) : AI!RemoveAt(t, d)[j] = IF j < d THEN t[j] ELSE t[j + 1]
<1> DEFINE n == Len(t)
           a == SubSeq(t, 1, d - 1)
           b == SubSeq(t, d + 1, n)
<1>1. n \in Nat /\ DOMAIN t = 1..n /\ d \in 1..n
  OBVIOUS
<1>2. a \in Seq(B) /\ Len(a) = d - 1 /\ \A j \in 1..(d - 1) : a[j] = t[j]
  BY <1>1
<1>3. b \in Seq(B) /\ Len(b) = n - d /\ \A j \in 1..(n - d) : b[j] = t[d + j]
  BY <1>1
<1>4. AI!RemoveAt(t, d) = a \o b
  BY DEF AI!RemoveAt
<1> HIDE DEF a, b, n
<1>5. a \o b \in Seq(B) /\ Len(a \o b) = n - 1
  <2>1. a \in Seq(B) /\ b \in Seq(B) /\ Len(a) + Len(b) = n - 1
    BY <1>1, <1>2, <1>3
  <2>2. a \o b \in Seq(B)
    BY <2>1
  <2>3. Len(a \o b) = Len(a) + Len(b)
    BY <2>1
  <2> QED
    BY <2>1, <2>2, <2>3
<1>6. ASSUME NEW j \in 1..(n - 1) PROVE (a \o b)[j] = IF j < d THEN t[j] ELSE t[j + 1]
  <2>1. (a \o b)[j] = IF j <= Len(a) THEN a[j] ELSE b[j - Len(a)]
    BY <1>1, <1>2, <1>3
  <2>2. CASE j < d
    BY <1>1, <1>2, <2>1, <2>2
  <2>3. CASE ~(j < d)
    <3>1. j - (d - 1) \in 1..(n - d) /\ d + (j - (d - 1)) = j + 1
      BY <1>1, <2>3
    <3> QED
      BY <1>1, <1>2, <1>3, <2>1, <2>3, <3>1
  <2> QED
    BY <2>2, <2>3
<1> QED
  BY <1>4, <1>5, <1>6 DEF n

\* Taking out a block changes the count of its own rank only.
LEMMA OthersStay ==
  ASSUME NEW t \in Seq(AI!Block), NEW d \in DOMAIN t, NEW u, u = AI!RemoveAt(t, d)
  PROVE  /\ u \in Seq(AI!Block) /\ Len(u) = Len(t) - 1
         /\ \A i \in DOMAIN u : \E j \in DOMAIN t : u[i].rank = t[j].rank
         /\ \A r : r # t[d].rank => Count(u, r) = Count(t, r)
<1> DEFINE n == Len(t)
<1>1. /\ n \in Nat /\ DOMAIN t = 1..n /\ d \in 1..n /\ u \in Seq(AI!Block) /\ Len(u) = n - 1
      /\ \A j \in 1..(n - 1) : u[j] = IF j < d THEN t[j] ELSE t[j + 1]
  BY Removed
<1>2. DOMAIN u = 1..(n - 1)
  BY <1>1
<1> HIDE DEF n
<1> DEFINE was(i) == IF i < d THEN i ELSE i + 1
<1>3. \A i \in 1..(n - 1) : was(i) \in 1..n /\ was(i) # d /\ u[i] = t[was(i)]
  BY <1>1
<1>4. \A i, j \in 1..(n - 1) : was(i) = was(j) => i = j
  BY <1>1
<1>5. \A j \in 1..n : j # d => \E i \in 1..(n - 1) : was(i) = j
  <2> SUFFICES ASSUME NEW j \in 1..n, j # d PROVE \E i \in 1..(n - 1) : was(i) = j
    OBVIOUS
  <2>1. CASE j < d
    <3>1. j \in 1..(n - 1) /\ was(j) = j
      BY <1>1, <2>1
    <3> QED
      BY <3>1
  <2>2. CASE ~(j < d)
    <3>1. j - 1 \in 1..(n - 1) /\ was(j - 1) = j
      BY <1>1, <2>2
    <3> QED
      BY <3>1
  <2> QED
    BY <2>1, <2>2
<1> HIDE DEF was
<1>6. ASSUME NEW r, r # t[d].rank PROVE Count(u, r) = Count(t, r)
  <2> DEFINE P == {i \in DOMAIN u : u[i].rank = r}
             Q == {i \in DOMAIN t : t[i].rank = r}
             f == [i \in P |-> was(i)]
  <2>1. f \in [P -> Q]
    BY <1>1, <1>2, <1>3
  <2>2. \A i, j \in P : f[i] = f[j] => i = j
    BY <1>2, <1>4
  <2>3. \A j \in Q : \E i \in P : f[i] = j
    <3> SUFFICES ASSUME NEW j \in Q PROVE \E i \in P : f[i] = j
      OBVIOUS
    <3>1. j \in 1..n /\ j # d /\ t[j].rank = r
      BY <1>1, <1>6
    <3>2. PICK i \in 1..(n - 1) : was(i) = j
      BY <1>5, <3>1
    <3>3. i \in P
      BY <1>2, <1>3, <3>1, <3>2
    <3> QED
      BY <3>2, <3>3
  <2>4. IsFiniteSet(P) /\ IsFiniteSet(Q) /\ Cardinality(P) = Count(u, r) /\ Cardinality(Q) = Count(t, r)
    BY <1>1, CountsFinite DEF Count
  <2> HIDE DEF P, Q, f
  <2>5. f \in Bijection(P, Q)
    BY <2>1, <2>2, <2>3 DEF Bijection, Injection, Surjection, IsInjective
  <2> QED
    BY <2>4, <2>5, FS_Bijection DEF ExistsBijection
<1>7. \A i \in DOMAIN u : \E j \in DOMAIN t : u[i].rank = t[j].rank
  BY <1>1, <1>2, <1>3
<1> QED
  BY <1>1, <1>6, <1>7 DEF n

LEMMA WorstGoes ==
  ASSUME NEW all \in Seq(AI!Block), NEW t \in Seq(AI!Block), t # <<>>, WorstGone(t, all)
  PROVE  LET u == AI!RemoveAt(t, AI!DropIndex(t)) IN u \in Seq(AI!Block) /\ Len(u) = Len(t) - 1 /\ WorstGone(u, all)
<1> DEFINE d == AI!DropIndex(t)
           u == AI!RemoveAt(t, d)
<1>1. d \in DOMAIN t /\ \A j \in DOMAIN t : t[j].rank <= t[d].rank
  BY WorstIsThere
<1> HIDE DEF d
<1>2. /\ u \in Seq(AI!Block) /\ Len(u) = Len(t) - 1
      /\ \A i \in DOMAIN u : \E j \in DOMAIN t : u[i].rank = t[j].rank
      /\ \A r : r # t[d].rank => Count(u, r) = Count(t, r)
  BY <1>1, OthersStay
<1> HIDE DEF u
<1>3. ASSUME NEW r \in AI!Levels, Count(u, r) < Count(all, r) PROVE \A i \in DOMAIN u : u[i].rank <= r
  <2>1. CASE r = t[d].rank
    BY <1>1, <1>2, <2>1
  <2>2. CASE r # t[d].rank
    <3>1. Count(t, r) < Count(all, r)
      BY <1>2, <1>3, <2>2
    <3>2. \A j \in DOMAIN t : t[j].rank <= r
      BY <3>1 DEF WorstGone
    <3> QED
      BY <1>2, <3>2
  <2> QED
    BY <2>1, <2>2
<1>4. WorstGone(u, all)
  BY <1>3 DEF WorstGone
<1> QED
  BY <1>2, <1>4 DEF u, d

LEMMA SizeOfNothing == AI!SizeOf(<<>>) = 0
<1> DEFINE f == [i \in DOMAIN <<>> |-> <<>>[i].size]
<1>1. DOMAIN f = {}
  OBVIOUS
<1> HIDE DEF f
<1>2. E!SumFunction(f) = 0
  BY <1>1, SumNone
<1> QED
  BY <1>2, AiSums DEF AI!SizeOf, f

\* What a cut keeps, when there are enough blocks or none would help.
LEMMA CutsAreSound ==
  ASSUME AI!Sensible, NEW p \in Prompts
  PROVE  LET k == AI!Optimized(p) IN
         k \in Seq(AI!Block) /\ (p.prefix + p.suffix + AI!SizeOf(k) <= p.budget \/ k = <<>>) /\ WorstGone(k, p.blocks)
<1> DEFINE all == p.blocks
           N == Len(all)
           fixed == p.prefix + p.suffix
           budget == p.budget
           V == Seq(AI!Block)
           Shrunk(l) == [k \in 0..N |-> IF k = 0 THEN all ELSE AI!RemoveAt(l[k - 1], AI!DropIndex(l[k - 1]))]
           left == CHOOSE l : l = Shrunk(l)
           fits(k) == fixed + AI!SizeOf(left[k]) <= budget
           K == CHOOSE k \in DOMAIN left : fits(k) /\ \A j \in DOMAIN left : fits(j) => k <= j
           kept == AI!Optimized(p)
<1>1. all \in V /\ N \in Nat /\ fixed \in Nat /\ budget \in Int
  <2>1. p \in [prefix : Nat, suffix : Nat, budget : Int, blocks : V]
    BY DEF AI!Sensible
  <2> HIDE DEF V
  <2>2. p.prefix \in Nat /\ p.suffix \in Nat /\ budget \in Int /\ all \in V
    BY <2>1
  <2>3. fixed \in Nat
    BY <2>2
  <2>4. N \in Nat
    BY <2>2 DEF V
  <2> QED
    BY <2>2, <2>3, <2>4
<1>2. kept = IF fits(0) THEN all ELSE IF fixed >= budget THEN <<>> ELSE left[K]
  BY DEF AI!Optimized
<1>3. WorstGone(all, all) /\ WorstGone(<<>>, all) /\ <<>> \in V
  <2>1. all \in Seq(AI!Block)
    BY <1>1
  <2> HIDE DEF all
  <2>2. \A r : Count(all, r) \in Nat
    BY <2>1, CountsFinite
  <2> QED
    BY <2>2 DEF WorstGone
<1> HIDE DEF all, N, fixed, budget, kept
<1> DEFINE Cut(t) == IF t = <<>> THEN <<>> ELSE AI!RemoveAt(t, AI!DropIndex(t))
<1>4. \A t \in V : Cut(t) \in V /\ (t # <<>> => Len(Cut(t)) = Len(t) - 1)
  <2> SUFFICES ASSUME NEW t \in V PROVE Cut(t) \in V /\ (t # <<>> => Len(Cut(t)) = Len(t) - 1)
    OBVIOUS
  <2>1. CASE t = <<>>
    BY <1>3, <2>1
  <2>2. CASE t # <<>>
    <3>1. AI!DropIndex(t) \in DOMAIN t
      BY <2>2, WorstIsThere
    <3>2. AI!RemoveAt(t, AI!DropIndex(t)) \in Seq(AI!Block) /\ Len(AI!RemoveAt(t, AI!DropIndex(t))) = Len(t) - 1
      BY <3>1, Removed
    <3> QED
      BY <2>2, <3>2
  <2> QED
    BY <2>1, <2>2
<1>5. left = Shrunk(left)
  <2> DEFINE h == [u \in (1..N) \X V |-> Cut(u[2])]
  <2>1. h \in [(1..N) \X V -> V]
    <3> HIDE DEF Cut, V
    <3> QED
      BY <1>4
  <2>2. \A n \in 1..N : \A t \in V : h[<<n, t>>] = Cut(t)
    <3> HIDE DEF Cut, V
    <3> QED
      OBVIOUS
  <2> HIDE DEF h
  <2>3. PICK g \in [0..N -> V] : Repeats(g, all, h, N)
    <3> HIDE DEF Cut, V
    <3> QED
      BY <1>1, <2>1, Repeated
  <2>4. g[0] = all /\ \A n \in 1..N : g[n] = Cut(g[n - 1]) /\ n - 1 \in 0..N /\ g[n - 1] \in V
    <3>1. \A n \in 1..N : n - 1 \in 0..N
      BY <1>1
    <3> HIDE DEF Cut, V
    <3> QED
      BY <2>2, <2>3, <3>1 DEF Repeats
  <2> DEFINE S == {n \in 0..N : Len(g[n]) = N - n}
  <2>5. 0 \in S
    BY <1>1, <2>4 DEF N
  <2>6. ASSUME NEW n \in 0..(N - 1), n \in S PROVE n + 1 \in S
    <3>1. n + 1 \in 1..N /\ n + 1 \in 0..N /\ (n + 1) - 1 = n /\ N - n # 0
      BY <1>1
    <3>2. g[n + 1] = Cut(g[n]) /\ g[n] \in V /\ Len(g[n]) = N - n
      <4> HIDE DEF Cut, V
      <4> QED
        BY <2>4, <2>6, <3>1
    <3>3. g[n] # <<>>
      BY <3>1, <3>2
    <3>4. Len(g[n + 1]) = (N - n) - 1
      <4> HIDE DEF Cut, V
      <4> QED
        BY <1>4, <3>2, <3>3
    <3>5. (N - n) - 1 = N - (n + 1)
      BY <1>1
    <3> QED
      BY <3>1, <3>4, <3>5
  <2>7. 0..N \subseteq S
    <3> HIDE DEF S
    <3> QED
      BY <1>1, <2>5, <2>6, StepByStep
  <2>8. ASSUME NEW n \in 0..N PROVE g[n] = IF n = 0 THEN all ELSE AI!RemoveAt(g[n - 1], AI!DropIndex(g[n - 1]))
    <3>1. CASE n = 0
      BY <2>4, <3>1
    <3>2. CASE n # 0
      <4>1. n \in 1..N /\ n - 1 \in 0..N /\ N - (n - 1) # 0
        BY <1>1, <3>2
      <4>2. g[n] = Cut(g[n - 1]) /\ Len(g[n - 1]) = N - (n - 1)
        <5> HIDE DEF Cut, V
        <5> QED
          BY <2>4, <2>7, <4>1
      <4>3. g[n - 1] # <<>>
        BY <4>1, <4>2
      <4> QED
        BY <3>2, <4>2, <4>3
    <3> QED
      BY <3>1, <3>2
  <2>9. g = Shrunk(g)
    <3> HIDE DEF V
    <3>1. g = [n \in 0..N |-> g[n]]
      OBVIOUS
    <3>2. Shrunk(g) = [n \in 0..N |-> g[n]]
      BY <2>8
    <3> HIDE DEF Shrunk
    <3> QED
      BY <3>1, <3>2
  <2> HIDE DEF Shrunk
  <2> QED
    BY <2>9
<1> HIDE DEF left
<1>6. /\ DOMAIN left = 0..N /\ left[0] = all
      /\ \A n \in 0..(N - 1) : left[n + 1] = AI!RemoveAt(left[n], AI!DropIndex(left[n]))
  <2>1. DOMAIN left = 0..N /\ \A n \in 0..N : left[n] = IF n = 0 THEN all ELSE AI!RemoveAt(left[n - 1], AI!DropIndex(left[n - 1]))
    BY <1>5
  <2>2. 0 \in 0..N /\ \A n \in 0..(N - 1) : n + 1 \in 0..N /\ n + 1 # 0 /\ (n + 1) - 1 = n
    BY <1>1
  <2> HIDE DEF Shrunk
  <2> QED
    BY <2>1, <2>2
<1> DEFINE S == {n \in 0..N : left[n] \in V /\ Len(left[n]) = N - n /\ WorstGone(left[n], all)}
<1>7. 0 \in S
  BY <1>1, <1>3, <1>6 DEF N
<1>8. ASSUME NEW n \in 0..(N - 1), n \in S PROVE n + 1 \in S
  <2>1. n + 1 \in 0..N /\ N - n # 0 /\ (N - n) - 1 = N - (n + 1)
    BY <1>1
  <2>2. left[n] \in Seq(AI!Block) /\ Len(left[n]) = N - n /\ WorstGone(left[n], all)
    BY <1>8
  <2>3. left[n] # <<>>
    BY <2>1, <2>2
  <2>4. left[n + 1] \in Seq(AI!Block) /\ Len(left[n + 1]) = Len(left[n]) - 1 /\ WorstGone(left[n + 1], all)
    BY <1>1, <1>6, <2>2, <2>3, WorstGoes
  <2> QED
    BY <2>1, <2>2, <2>4
<1>9. 0..N \subseteq S
  <2> HIDE DEF S
  <2> QED
    BY <1>1, <1>7, <1>8, StepByStep
<1>10. CASE fits(0)
  BY <1>1, <1>2, <1>3, <1>6, <1>10 DEF all, fixed, budget, kept
<1>11. CASE ~fits(0) /\ fixed >= budget
  BY <1>2, <1>3, <1>11 DEF all, kept
<1>12. CASE ~fits(0) /\ ~(fixed >= budget)
  <2>1. fits(N)
    <3>1. N \in 0..N
      BY <1>1
    <3>2. left[N] \in Seq(AI!Block) /\ Len(left[N]) = 0
      BY <1>1, <1>9, <3>1
    <3>3. left[N] = <<>>
      BY <3>2
    <3> QED
      BY <1>1, <1>12, <3>3, SizeOfNothing
  <2> DEFINE Least(k) == fits(k) /\ \A j \in 0..N : fits(j) => k <= j
  <2> HIDE DEF fits
  <2>2. \E k \in 0..N : Least(k)
    <3> SUFFICES ASSUME \A k \in 0..N : ~Least(k) PROVE FALSE
      OBVIOUS
    <3> DEFINE T == {n \in 0..N : \A j \in 0..n : ~fits(j)}
    <3>1. 0 \in T
      <4>1. \A j \in 0..0 : j = 0
        OBVIOUS
      <4>2. 0 \in 0..N
        BY <1>1
      <4> QED
        BY <1>12, <4>1, <4>2
    <3>2. ASSUME NEW n \in 0..(N - 1), n \in T PROVE n + 1 \in T
      <4>1. n + 1 \in 0..N
        BY <1>1
      <4>2. \A j \in 0..N : j \in 0..n \/ n + 1 <= j
        BY <1>1
      <4>3. ~fits(n + 1)
        <5>1. fits(n + 1) => Least(n + 1)
          BY <3>2, <4>2
        <5> HIDE DEF Least
        <5> QED
          BY <4>1, <5>1
      <4>4. \A j \in 0..(n + 1) : j \in 0..n \/ j = n + 1
        BY <1>1
      <4> QED
        BY <3>2, <4>1, <4>3, <4>4
    <3>3. 0..N \subseteq T
      <4> HIDE DEF T
      <4> QED
        BY <1>1, <3>1, <3>2, StepByStep
    <3>4. N \in 0..N
      BY <1>1
    <3> QED
      BY <2>1, <3>3, <3>4
  <2>3. K = CHOOSE k \in 0..N : Least(k)
    BY <1>6
  <2> HIDE DEF K
  <2>4. K \in 0..N /\ fits(K)
    <3>1. K \in 0..N /\ Least(K)
      <4> HIDE DEF Least
      <4> QED
        BY <2>2, <2>3
    <3> QED
      BY <3>1
  <2>5. left[K] \in Seq(AI!Block) /\ WorstGone(left[K], all) /\ kept = left[K]
    BY <1>2, <1>9, <1>12, <2>4
  <2> QED
    BY <2>4, <2>5 DEF fits, all, fixed, budget, kept
<1> QED
  BY <1>10, <1>11, <1>12

-----------------------------------------------------------------------------
\* One more invented id never earns an answer more trust.
BaseOf(a) == 40 + AI!LowerOf(30, 10 * a.refs) - (IF a.unsure THEN 10 ELSE 0)
CapOf(risk) == CASE risk = "high" -> 30 [] risk = "medium" -> 55 [] OTHER -> 85
CappedOf(a) == CASE AI!Risk(a) = "high"   -> AI!LowerOf(BaseOf(a), 30)
                 [] AI!Risk(a) = "medium" -> AI!LowerOf(BaseOf(a), 55)
                 [] OTHER              -> BaseOf(a) + 15

LEMMA AnswersAreHonest ==
  ASSUME AI!Sensible, NEW a \in Replied
  PROVE  AI!AnswerScore(a) \in 0..CapOf(AI!Risk(a)) /\ AI!AnswerScore([a EXCEPT !.ids = @ + 1]) <= AI!AnswerScore(a)
<1> DEFINE b == [a EXCEPT !.ids = @ + 1]
<1>1. /\ a.refs \in Nat /\ a.unsure \in BOOLEAN /\ a.ids \in Nat /\ a.terms \in Nat /\ a.claims \in Nat
      /\ b.refs = a.refs /\ b.unsure = a.unsure /\ b.ids = a.ids + 1 /\ b.terms = a.terms /\ b.claims = a.claims
  <2>1. a \in [refs : Nat, unsure : BOOLEAN, ids : Nat, terms : Nat, claims : Nat]
    BY DEF AI!Sensible
  <2> QED
    BY <2>1
<1> HIDE DEF b
<1>2. BaseOf(a) \in 30..70 /\ BaseOf(b) = BaseOf(a)
  <2>1. AI!LowerOf(30, 10 * a.refs) \in 0..30 /\ AI!LowerOf(30, 10 * b.refs) = AI!LowerOf(30, 10 * a.refs)
    BY <1>1 DEF AI!LowerOf
  <2>2. (IF a.unsure THEN 10 ELSE 0) \in 0..10 /\ (IF b.unsure THEN 10 ELSE 0) = (IF a.unsure THEN 10 ELSE 0)
    BY <1>1
  <2> QED
    BY <2>1, <2>2 DEF BaseOf
<1>3. /\ AI!AnswerScore(a) = AI!Clamp(CappedOf(a) - 15 * a.ids, 0, 100)
      /\ AI!AnswerScore(b) = AI!Clamp(CappedOf(b) - 15 * b.ids, 0, 100)
  BY DEF AI!AnswerScore, CappedOf, BaseOf
<1>4. /\ AI!Risk(a) \in {"low", "medium", "high"} /\ AI!Risk(b) \in {"medium", "high"}
      /\ (AI!Risk(a) = "high" => AI!Risk(b) = "high")
  BY <1>1 DEF AI!Risk
<1>5. CappedOf(a) \in 0..CapOf(AI!Risk(a)) /\ CappedOf(b) \in 0..CappedOf(a)
  <2>1. CASE AI!Risk(a) = "high"
    BY <1>2, <1>4, <2>1 DEF CappedOf, CapOf, AI!LowerOf
  <2>2. CASE AI!Risk(a) = "medium"
    BY <1>2, <1>4, <2>2 DEF CappedOf, CapOf, AI!LowerOf
  <2>3. CASE AI!Risk(a) = "low"
    BY <1>2, <1>4, <2>3 DEF CappedOf, CapOf, AI!LowerOf
  <2> QED
    BY <1>4, <2>1, <2>2, <2>3
<1>6. CapOf(AI!Risk(a)) \in {30, 55, 85}
  BY DEF CapOf
<1>7. 15 * b.ids = 15 * a.ids + 15 /\ 15 * a.ids \in Nat
  BY <1>1
<1>8. AI!AnswerScore(a) \in 0..CapOf(AI!Risk(a)) /\ AI!AnswerScore(b) <= AI!AnswerScore(a)
  BY <1>3, <1>5, <1>6, <1>7 DEF AI!Clamp, AI!LowerOf
<1> QED
  BY <1>8 DEF b

-----------------------------------------------------------------------------
\* An analysis has what is classified so far and what is yet in the batches: together
\* they are the artefacts. What the model did not name stays INFORMATIONAL.
Judged(c) ==
  \A id \in DOMAIN c : c[id].level \in AI!Levels /\ c[id].said \in BOOLEAN /\ (~c[id].said => c[id].level = AI!Informational)
Ended(s) ==
  /\ Len(s.ranked) = Len(s.artefacts) /\ AI!IdsOf(s.ranked) = AI!IdsOf(s.artefacts)
  /\ \A i, j \in DOMAIN s.ranked : i < j =>
       \/ s.ranked[i].level < s.ranked[j].level
       \/ s.ranked[i].level = s.ranked[j].level /\ s.ranked[i].score >= s.ranked[j].score
  /\ \A i \in DOMAIN s.ranked :
       /\ s.ranked[i].score \in 0..100
       /\ s.ranked[i].id \in DOMAIN s.collected /\ ~s.collected[s.ranked[i].id].said
          => s.ranked[i].level = AI!Informational

Analysed(s) ==
  /\ s = [phase |-> s.phase, artefacts |-> s.artefacts, batches |-> s.batches, collected |-> s.collected,
          named |-> s.named, ranked |-> s.ranked, flagged |-> s.flagged]
  /\ s.artefacts \in Sets
  /\ s.phase \in {"select", "rules", "unavailable", "classify", "rank", "done"}
  /\ s.phase \in {"select", "rules"} => s.collected = <<>>
  /\ s.phase \in {"classify", "rank"} => Judged(s.collected)
  /\ s.phase = "classify" =>
       /\ s.batches \in Seq(Seq(PartsOf(s.artefacts)))
       /\ DOMAIN s.collected \cup AllIds(s.batches) = AI!IdsOf(s.artefacts)
  /\ s.phase = "rank" => DOMAIN s.collected = AI!IdsOf(s.artefacts)
  /\ s.phase = "done" => Ended(s)

Prompted(s) ==
  /\ s = [phase |-> s.phase, in |-> s.in, kept |-> s.kept] /\ s.in \in Prompts
  /\ s.phase = "done" => s.kept = AI!Optimized(s.in)

Answered(s) ==
  /\ s = [phase |-> s.phase, in |-> s.in, risk |-> s.risk, score |-> s.score] /\ s.in \in Replied
  /\ s.phase = "done" => s.risk = AI!Risk(s.in) /\ s.score = AI!AnswerScore(s.in)

AiIInv ==
  /\ AI!Sensible
  /\ task = "analyse" => Analysed(state)
  /\ task = "prompt" => Prompted(state)
  /\ task = "answer" => Answered(state)

LEMMA AiInitHolds ==
  ASSUME AI!Sensible, AI!Init
  PROVE  AiIInv
<1>1. CASE task = "analyse" /\ \E s \in Sets :
       state = [phase |-> "select", artefacts |-> s, batches |-> <<>>, collected |-> <<>>,
                named |-> {}, ranked |-> <<>>, flagged |-> FALSE]
  <2>1. Analysed(state)
    BY <1>1 DEF Analysed
  <2> QED
    BY <1>1, <2>1 DEF AiIInv
<1>2. CASE task = "prompt" /\ \E p \in Prompts : state = [phase |-> "select", in |-> p, kept |-> <<>>]
  <2>1. Prompted(state)
    BY <1>2 DEF Prompted
  <2> QED
    BY <1>2, <2>1 DEF AiIInv
<1>3. CASE task = "answer" /\ \E a \in Replied : state = [phase |-> "select", in |-> a, risk |-> "low", score |-> 0]
  <2>1. Answered(state)
    BY <1>3 DEF Answered
  <2> QED
    BY <1>3, <2>1 DEF AiIInv
<1> QED
  BY <1>1, <1>2, <1>3 DEF AI!Init

\* A batch is judged whole whatever the model said of it.
LEMMA BatchJudged ==
  ASSUME NEW items, NEW batch
  PROVE  DOMAIN AI!ParseBatch(items, batch) = AI!IdsOf(batch) /\ Judged(AI!ParseBatch(items, batch))
<1> DEFINE places == AI!KnownItems(items, batch)
           known == {items[i].id : i \in places}
           last(id) == CHOOSE i \in places : items[i].id = id /\ \A j \in places : items[j].id = id => j <= i
           result == [id \in AI!Missing(known, batch) \cup known |->
                        IF id \in known THEN [level |-> AI!LevelOf(items[last(id)]), said |-> TRUE] ELSE AI!Unclassified]
<1>1. AI!ParseBatch(items, batch) = result
  BY DEF AI!ParseBatch
<1>2. known \subseteq AI!IdsOf(batch)
  BY DEF AI!KnownItems
<1>3. \A x : AI!LevelOf(x) \in AI!Levels
  BY DEF AI!LevelOf, AI!Informational, AI!Levels
<1>4. AI!Unclassified.level = AI!Informational /\ AI!Unclassified.said = FALSE /\ AI!Informational \in AI!Levels
  BY DEF AI!Unclassified, AI!Informational, AI!Levels
<1> HIDE DEF known, last
<1>5. DOMAIN result = AI!IdsOf(batch)
  BY <1>2 DEF AI!Missing
<1>6. ASSUME NEW id \in DOMAIN result
      PROVE  /\ result[id].level \in AI!Levels /\ result[id].said \in BOOLEAN
             /\ (~result[id].said => result[id].level = AI!Informational)
  <2>1. CASE id \in known
    <3>1. result[id] = [level |-> AI!LevelOf(items[last(id)]), said |-> TRUE]
      BY <2>1
    <3>2. result[id].level \in AI!Levels /\ result[id].said = TRUE
      BY <1>3, <3>1
    <3> QED
      BY <3>2
  <2>2. CASE id \notin known
    <3>1. result[id] = AI!Unclassified
      BY <2>2
    <3> QED
      BY <1>4, <3>1
  <2> QED
    BY <2>1, <2>2
<1>7. Judged(result)
  BY <1>6 DEF Judged
<1> HIDE DEF result
<1> QED
  BY <1>1, <1>5, <1>7

LEMMA SelectKeeps ==
  ASSUME AiIInv, AI!Select
  PROVE  AiIInv'
<1>1. /\ Analysed(state) /\ state.phase = "select" /\ task' = task /\ task = "analyse"
      /\ state.artefacts \in Sets /\ state.collected = <<>>
  BY DEF AiIInv, AI!Select, AI!In, Analysed
<1>2. Analysed(state')
  <2>1. CASE state' = [state EXCEPT !.phase = "classify", !.batches = AI!CreateBatches(state.artefacts)]
    <3> DEFINE all == AI!CreateBatches(state.artefacts)
    <3>1. all \in Seq(Seq(PartsOf(state.artefacts))) /\ AllIds(all) = AI!IdsOf(state.artefacts)
      BY <1>1, BatchesAreSound DEF AiIInv
    <3> HIDE DEF all
    <3>2. state' = [phase |-> "classify", artefacts |-> state.artefacts, batches |-> all, collected |-> <<>>,
                    named |-> state.named, ranked |-> state.ranked, flagged |-> state.flagged]
      BY <1>1, <2>1 DEF Analysed, all
    <3>3. Judged(<<>>) /\ DOMAIN <<>> = {}
      BY DEF Judged
    <3> QED
      BY <1>1, <3>1, <3>2, <3>3 DEF Analysed
  <2>2. CASE state' = [state EXCEPT !.phase = "rules"]
    BY <1>1, <2>2 DEF Analysed
  <2>3. CASE state' = [state EXCEPT !.phase = "unavailable"]
    BY <1>1, <2>3 DEF Analysed
  <2> QED
    BY <2>1, <2>2, <2>3 DEF AI!Select
<1> QED
  BY <1>1, <1>2 DEF AiIInv, AI!Sensible

LEMMA ClassifyBatchKeeps ==
  ASSUME AiIInv, AI!ClassifyBatch
  PROVE  AiIInv'
<1>1. /\ Analysed(state) /\ state.phase = "classify" /\ task' = task /\ task = "analyse" /\ state.artefacts \in Sets
      /\ state.batches # <<>> /\ Judged(state.collected) /\ state.batches \in Seq(Seq(PartsOf(state.artefacts)))
      /\ DOMAIN state.collected \cup AllIds(state.batches) = AI!IdsOf(state.artefacts)
  BY DEF AiIInv, AI!ClassifyBatch, AI!In, Analysed
<1> DEFINE bs == state.batches
           c == state.collected
           s == state.artefacts
<1>2. PICK reply \in Replies \cup {AI!NoReply} :
        LET items  == AI!Extracted(reply)
            result == AI!ParseBatch(items, Head(state.batches))
        IN state' = [state EXCEPT
             !.batches = Tail(@),
             !.named = @ \cup AI!IdsOf(reply.items),
             !.collected = [id \in DOMAIN @ \cup DOMAIN result |-> IF id \in DOMAIN result THEN result[id] ELSE @[id]]]
  BY DEF AI!ClassifyBatch
<1> DEFINE result == AI!ParseBatch(AI!Extracted(reply), Head(bs))
           more == [id \in DOMAIN c \cup DOMAIN result |-> IF id \in DOMAIN result THEN result[id] ELSE c[id]]
<1>3. DOMAIN result = AI!IdsOf(Head(bs)) /\ Judged(result)
  BY BatchJudged
<1>4. state' = [phase |-> "classify", artefacts |-> s, batches |-> Tail(bs), collected |-> more,
                named |-> state.named \cup AI!IdsOf(reply.items), ranked |-> state.ranked, flagged |-> state.flagged]
  BY <1>1, <1>2 DEF Analysed
<1> HIDE DEF bs, c, s, result
<1>5. Tail(bs) \in Seq(Seq(PartsOf(s))) /\ AllIds(bs) = AI!IdsOf(Head(bs)) \cup AllIds(Tail(bs))
  <2> DEFINE n == Len(bs)
             t == Tail(bs)
  <2>1. bs \in Seq(Seq(PartsOf(s))) /\ bs # <<>>
    BY <1>1 DEF bs, s
  <2>2. /\ n \in Nat /\ n # 0 /\ DOMAIN bs = 1..n /\ t \in Seq(Seq(PartsOf(s))) /\ DOMAIN t = 1..(n - 1)
        /\ Head(bs) = bs[1] /\ \A i \in 1..(n - 1) : t[i] = bs[i + 1]
    BY <2>1
  <2>3. AllIds(bs) = UNION {AI!IdsOf(bs[i]) : i \in 1..n} /\ AllIds(t) = UNION {AI!IdsOf(t[i]) : i \in 1..(n - 1)}
    BY <2>2 DEF AllIds
  <2> HIDE DEF n, t
  <2>4. /\ 1 \in 1..n /\ \A i \in 1..n : i = 1 \/ (i - 1 \in 1..(n - 1) /\ (i - 1) + 1 = i)
        /\ \A i \in 1..(n - 1) : i + 1 \in 1..n
    BY <2>2
  <2>5. \A i \in 1..n : i = 1 \/ (i - 1 \in 1..(n - 1) /\ bs[i] = t[i - 1])
    BY <2>2, <2>4
  <2>6. \A x : x \in AllIds(bs) <=> \E i \in 1..n : x \in AI!IdsOf(bs[i])
    BY <2>3
  <2>7. \A x : x \in AllIds(t) <=> \E i \in 1..(n - 1) : x \in AI!IdsOf(t[i])
    BY <2>3
  <2>8. \A x : x \in AllIds(bs) <=> x \in AI!IdsOf(Head(bs)) \/ x \in AllIds(t)
    BY <2>2, <2>4, <2>5, <2>6, <2>7
  <2>9. AllIds(bs) = AI!IdsOf(Head(bs)) \cup AllIds(t)
    BY <2>8
  <2> QED
    BY <2>2, <2>9 DEF t
<1>6. DOMAIN more \cup AllIds(Tail(bs)) = AI!IdsOf(s)
  <2>1. DOMAIN more = DOMAIN c \cup AI!IdsOf(Head(bs))
    BY <1>3
  <2>2. DOMAIN c \cup AllIds(bs) = AI!IdsOf(s)
    BY <1>1 DEF bs, c, s
  <2> HIDE DEF more
  <2> QED
    BY <1>5, <2>1, <2>2
<1>7. Judged(more)
  <2>1. Judged(c)
    BY <1>1 DEF c
  <2>2. \A id \in DOMAIN more : (id \in DOMAIN result /\ more[id] = result[id]) \/ (id \in DOMAIN c /\ more[id] = c[id])
    OBVIOUS
  <2> HIDE DEF more
  <2> QED
    BY <1>3, <2>1, <2>2 DEF Judged
<1> HIDE DEF more
<1>8. s \in Sets
  BY <1>1 DEF s
<1>9. Analysed(state')
  BY <1>4, <1>5, <1>6, <1>7, <1>8 DEF Analysed
<1> QED
  BY <1>1, <1>9 DEF AiIInv, AI!Sensible

LEMMA ValidateKeeps ==
  ASSUME AiIInv, AI!Validate
  PROVE  AiIInv'
<1>1. /\ Analysed(state) /\ state.phase = "classify" /\ task' = task /\ task = "analyse" /\ state.artefacts \in Sets
      /\ Judged(state.collected) /\ DOMAIN state.collected \cup AllIds(<<>>) = AI!IdsOf(state.artefacts)
  BY DEF AiIInv, AI!Validate, AI!In, Analysed
<1>2. DOMAIN state.collected = AI!IdsOf(state.artefacts)
  BY <1>1 DEF AllIds
<1>3. state' = [phase |-> "rank", artefacts |-> state.artefacts, batches |-> state.batches, collected |-> state.collected,
                named |-> state.named, ranked |-> state.ranked, flagged |-> state.named \ AI!GuardKnows # {}]
  BY <1>1 DEF AI!Validate, Analysed
<1>4. Analysed(state')
  BY <1>1, <1>2, <1>3 DEF Analysed
<1> QED
  BY <1>1, <1>4 DEF AiIInv, AI!Sensible

LEMMA RankKeeps ==
  ASSUME AiIInv, AI!Rank
  PROVE  AiIInv'
<1>1. /\ Analysed(state) /\ state.phase = "rank" /\ task' = task /\ task = "analyse" /\ state.artefacts \in Sets
      /\ Judged(state.collected) /\ DOMAIN state.collected = AI!IdsOf(state.artefacts) /\ AI!Sensible
  BY DEF AiIInv, AI!Rank, AI!In, Analysed
<1>2. PICK scores \in Scores : \E r \in AI!Rankings(state.artefacts, state.collected, scores) :
        state' = [state EXCEPT !.phase = "done", !.ranked = r]
  BY DEF AI!Rank
<1>a. PICK r \in AI!Rankings(state.artefacts, state.collected, scores) : state' = [state EXCEPT !.phase = "done", !.ranked = r]
  BY <1>2
<1>3. Whole(r, state.artefacts, state.collected)
  <2>1. \A id \in DOMAIN scores : scores[id] \in Int
    BY <1>1 DEF AI!Sensible
  <2>2. \A id \in AI!IdsOf(state.artefacts) : state.collected[id].level \in AI!Levels
    BY <1>1 DEF Judged
  <2> QED
    BY <1>1, <2>1, <2>2, RankingsAreWhole
<1>4. state' = [phase |-> "done", artefacts |-> state.artefacts, batches |-> state.batches, collected |-> state.collected,
                named |-> state.named, ranked |-> r, flagged |-> state.flagged]
  BY <1>1, <1>a DEF Analysed
<1>5. Ended(state')
  BY <1>1, <1>3, <1>4 DEF Ended, Whole, Judged
<1>6. Analysed(state')
  BY <1>1, <1>4, <1>5 DEF Analysed
<1> QED
  BY <1>1, <1>6 DEF AiIInv, AI!Sensible

LEMMA RankByRulesKeeps ==
  ASSUME AiIInv, AI!RankByRules
  PROVE  AiIInv'
<1>1. /\ Analysed(state) /\ state.phase = "rules" /\ task' = task /\ task = "analyse" /\ state.artefacts \in Sets
      /\ state.collected = <<>> /\ AI!Sensible
  BY DEF AiIInv, AI!RankByRules, AI!In, Analysed
<1>2. PICK level \in [AI!IdsOf(state.artefacts) -> {0, AI!Informational}] :
        \E r \in AI!Rankings(state.artefacts, [id \in DOMAIN level |-> [level |-> level[id], said |-> FALSE]], <<>>) :
          state' = [state EXCEPT !.phase = "done", !.ranked = r]
  BY DEF AI!RankByRules
<1> DEFINE c == [id \in DOMAIN level |-> [level |-> level[id], said |-> FALSE]]
<1>3. PICK r \in AI!Rankings(state.artefacts, c, <<>>) : state' = [state EXCEPT !.phase = "done", !.ranked = r]
  BY <1>2
<1>4. DOMAIN c = AI!IdsOf(state.artefacts) /\ \A id \in AI!IdsOf(state.artefacts) : c[id].level \in AI!Levels
  BY DEF AI!Informational, AI!Levels
<1> HIDE DEF c
<1>5. \A id \in DOMAIN <<>> : <<>>[id] \in Int
  OBVIOUS
<1>6. Whole(r, state.artefacts, c)
  BY <1>1, <1>4, <1>5, RankingsAreWhole
<1>7. state' = [phase |-> "done", artefacts |-> state.artefacts, batches |-> state.batches, collected |-> <<>>,
                named |-> state.named, ranked |-> r, flagged |-> state.flagged]
  BY <1>1, <1>3 DEF Analysed
<1>8. Ended(state')
  BY <1>6, <1>7 DEF Ended, Whole
<1>9. Analysed(state')
  BY <1>1, <1>7, <1>8 DEF Analysed
<1> QED
  BY <1>1, <1>9 DEF AiIInv, AI!Sensible

LEMMA OptimizeKeeps ==
  ASSUME AiIInv, AI!Optimize
  PROVE  AiIInv'
<1>1. Prompted(state) /\ task' = task /\ task = "prompt"
  BY DEF AiIInv, AI!Optimize, AI!In
<1>2. state' = [phase |-> "done", in |-> state.in, kept |-> AI!Optimized(state.in)]
  BY <1>1 DEF AI!Optimize, Prompted
<1>3. Prompted(state')
  BY <1>1, <1>2 DEF Prompted
<1> QED
  BY <1>1, <1>3 DEF AiIInv, AI!Sensible

LEMMA CheckKeepsAnswer ==
  ASSUME AiIInv, AI!Check
  PROVE  AiIInv'
<1>1. Answered(state) /\ task' = task /\ task = "answer"
  BY DEF AiIInv, AI!Check, AI!In
<1>2. state' = [phase |-> "done", in |-> state.in, risk |-> AI!Risk(state.in), score |-> AI!AnswerScore(state.in)]
  BY <1>1 DEF AI!Check, Answered
<1>3. Answered(state')
  BY <1>1, <1>2 DEF Answered
<1> QED
  BY <1>1, <1>3 DEF AiIInv, AI!Sensible

LEMMA HoldsOfAll ==
  ASSUME AiIInv
  PROVE  AI!AnalysisInv
<1>1. AI!NothingLost
  <2> SUFFICES ASSUME task = "analyse", state.phase = "done" PROVE AI!NothingLost
    BY DEF AI!NothingLost, AI!In
  <2>1. Ended(state)
    BY DEF AiIInv, Analysed
  <2> QED
    BY <2>1 DEF AI!NothingLost, Ended
<1>2. AI!BatchesSound
  <2> SUFFICES ASSUME task = "analyse", state.phase = "select" PROVE AI!BatchesSound
    BY DEF AI!BatchesSound, AI!In
  <2> DEFINE all == AI!CreateBatches(state.artefacts)
  <2>1. state.artefacts \in Sets /\ AI!Sensible
    BY DEF AiIInv, Analysed
  <2>2. /\ \A i \in DOMAIN all : Fitting(all[i])
        /\ E!SumFunction(Lens(all)) = Len(state.artefacts) /\ AllIds(all) = AI!IdsOf(state.artefacts)
    BY <2>1, BatchesAreSound
  <2>3. AI!BatchesSound <=> /\ \A i \in DOMAIN all : Fitting(all[i])
                         /\ AI!SumFunction(Lens(all)) = Len(state.artefacts) /\ AllIds(all) = AI!IdsOf(state.artefacts)
    BY DEF AI!BatchesSound, AI!In, Fitting, Lens, AllIds
  <2>4. AI!SumFunction(Lens(all)) = E!SumFunction(Lens(all))
    BY AiSums
  <2> HIDE DEF all
  <2> QED
    BY <2>2, <2>3, <2>4
<1>3. AI!CutKeepsSuspicious
  <2> SUFFICES ASSUME task = "prompt", state.phase = "done" PROVE AI!CutKeepsSuspicious
    BY DEF AI!CutKeepsSuspicious, AI!In
  <2> DEFINE p == state.in
             k == state.kept
  <2>1. p \in Prompts /\ AI!Sensible /\ k = AI!Optimized(p)
    BY DEF AiIInv, Prompted
  <2>2. k \in Seq(AI!Block) /\ (p.prefix + p.suffix + AI!SizeOf(k) <= p.budget \/ k = <<>>) /\ WorstGone(k, p.blocks)
    BY <2>1, CutsAreSound
  <2>3. AI!CutKeepsSuspicious <=> /\ p.prefix + p.suffix + AI!SizeOf(k) <= p.budget \/ k = <<>>
                               /\ \A r, q \in AI!Levels : Count(k, r) < Count(p.blocks, r) /\ q > r => Count(k, q) = 0
    BY AiSizes DEF AI!CutKeepsSuspicious, AI!In, Count
  <2> HIDE DEF p, k
  <2>4. ASSUME NEW r \in AI!Levels, NEW q \in AI!Levels, Count(k, r) < Count(p.blocks, r), q > r PROVE Count(k, q) = 0
    <3>1. \A i \in DOMAIN k : k[i].rank <= r
      BY <2>2, <2>4 DEF WorstGone
    <3>2. \A i \in DOMAIN k : k[i].rank \in AI!Levels
      <4>1. \A i \in DOMAIN k : k[i] \in AI!Block
        BY <2>2
      <4> QED
        BY <4>1 DEF AI!Block
    <3>3. {i \in DOMAIN k : k[i].rank = q} = {}
      BY <2>4, <3>1, <3>2 DEF AI!Levels
    <3> QED
      BY <3>3, FS_EmptySet DEF Count
  <2> QED
    BY <2>2, <2>3, <2>4
<1>4. AI!ConfidenceHonest
  <2> SUFFICES ASSUME task = "answer", state.phase = "done" PROVE AI!ConfidenceHonest
    BY DEF AI!ConfidenceHonest, AI!In
  <2>1. state.in \in Replied /\ AI!Sensible /\ state.risk = AI!Risk(state.in) /\ state.score = AI!AnswerScore(state.in)
    BY DEF AiIInv, Answered
  <2>2. /\ AI!AnswerScore(state.in) \in 0..CapOf(AI!Risk(state.in))
        /\ AI!AnswerScore([state.in EXCEPT !.ids = @ + 1]) <= AI!AnswerScore(state.in)
    BY <2>1, AnswersAreHonest
  <2>3. CapOf(AI!Risk(state.in)) = (CASE state.risk = "high" -> 30 [] state.risk = "medium" -> 55 [] OTHER -> 85)
    BY <2>1 DEF CapOf
  <2>4. CapOf(AI!Risk(state.in)) \in Int
    BY DEF CapOf
  <2> QED
    BY <2>1, <2>2, <2>3, <2>4 DEF AI!ConfidenceHonest
<1> QED
  BY <1>1, <1>2, <1>3, <1>4 DEF AI!AnalysisInv

\* Whatever artefacts, replies, scores, prompts and answers there are: no artefact is
\* lost or invented between the batches and the ranking, every batch is within its
\* limit or a single artefact, a cut leaves out the least suspicious first, and an
\* answer is trusted less the more it invents (ai_engine/, see AiAnalysis).
THEOREM AnalysisIsSound == AI!Sensible /\ AI!Spec => []AI!AnalysisInv
<1>1. AI!Sensible /\ AI!Init => AiIInv
  BY AiInitHolds
<1>2. AiIInv /\ [AI!Next]_AI!vars => AiIInv'
  <2> SUFFICES ASSUME AiIInv, [AI!Next]_AI!vars PROVE AiIInv'
    OBVIOUS
  <2>1. CASE UNCHANGED AI!vars
    BY <2>1 DEF AI!vars, AiIInv, AI!Sensible
  <2>2. CASE AI!Next
    BY <2>2, SelectKeeps, ClassifyBatchKeeps, ValidateKeeps, RankKeeps, RankByRulesKeeps,
       OptimizeKeeps, CheckKeepsAnswer DEF AI!Next
  <2> QED
    BY <2>1, <2>2
<1>3. AiIInv => AI!AnalysisInv
  BY HoldsOfAll
<1> QED
  BY <1>1, <1>2, <1>3, PTL DEF AI!Spec

-----------------------------------------------------------------------------
(* Triage: any artefacts, whatever the switches, the model and the         *)
(* fallback do.                                                            *)
(*                                                                         *)
(* A strict order puts each thing at a place of its own, which is what     *)
(* timelines, rankings and summaries are made of; deduplication and the    *)
(* windows repeat one step; a search for clusters ends at what is linked.  *)
CONSTANTS Inputs, Settings, Window, Proximity, TopLimit, FindingsLimit
VARIABLES stage, settings, input, current, links, iocs, ranked, final, source
TR == INSTANCE Triage WITH pc <- stage

LEMMA TriageSizes == \A S : (TR!IsFiniteSet(S) <=> IsFiniteSet(S)) /\ TR!Cardinality(S) = Cardinality(S)
BY DEF TR!IsFiniteSet, IsFiniteSet, TR!Cardinality, Cardinality

LEMMA TriageSums == \A f : TR!SumFunction(f) = E!SumFunction(f)
BY DEF TR!SumFunction, TR!SumFunctionOnSet, TR!FoldFunctionOnSet, TR!MapThenFoldSet,
       E!SumFunction, E!SumFunctionOnSet, E!FoldFunctionOnSet, E!MapThenFoldSet

\* A strict order of finitely many things puts each at a place of its own.
Strict(S, before) ==
  /\ \A x \in S : <<x, x>> \notin before
  /\ \A x, y \in S : x # y => <<x, y>> \in before \/ <<y, x>> \in before
  /\ \A x, y, z \in S : <<x, y>> \in before /\ <<y, z>> \in before => <<x, z>> \in before
Lined(s, S, before) ==
  /\ Cardinality(S) \in Nat /\ s \in [1..Cardinality(S) -> S] /\ DOMAIN s = 1..Cardinality(S)
  /\ \A m, n \in DOMAIN s : m < n => <<s[m], s[n]>> \in before
  /\ \A m, n \in DOMAIN s : s[m] = s[n] => m = n
  /\ \A x \in S : \E n \in DOMAIN s : s[n] = x

LEMMA LinedUp ==
  ASSUME NEW S, IsFiniteSet(S), NEW before, Strict(S, before)
  PROVE  Lined(TR!InLine(S, before), S, before)
<1> DEFINE N == Cardinality(S)
           InFront(x) == {y \in S : <<y, x>> \in before}
           place == [x \in S |-> Cardinality(InFront(x)) + 1]
           s == TR!InLine(S, before)
<1>0. N \in Nat
  BY FS_CardinalityType
<1>1. \A x \in S : InFront(x) \subseteq S /\ IsFiniteSet(InFront(x)) /\ Cardinality(InFront(x)) \in 0..(N - 1)
  <2> SUFFICES ASSUME NEW x \in S PROVE IsFiniteSet(InFront(x)) /\ Cardinality(InFront(x)) \in 0..(N - 1)
    OBVIOUS
  <2>1. InFront(x) \in SUBSET S /\ x \notin InFront(x)
    BY DEF Strict
  <2> HIDE DEF InFront
  <2>2. IsFiniteSet(InFront(x)) /\ Cardinality(InFront(x)) <= N /\ (N = Cardinality(InFront(x)) => S = InFront(x))
    BY <2>1, FS_Subset
  <2>3. Cardinality(InFront(x)) \in Nat
    BY <2>2, FS_CardinalityType
  <2>4. N # Cardinality(InFront(x))
    BY <2>1, <2>2
  <2> HIDE DEF N
  <2> QED
    BY <1>0, <2>2, <2>3, <2>4
<1>2. \A x, y \in S : <<x, y>> \in before => Cardinality(InFront(x)) < Cardinality(InFront(y))
  <2> SUFFICES ASSUME NEW x \in S, NEW y \in S, <<x, y>> \in before PROVE Cardinality(InFront(x)) < Cardinality(InFront(y))
    OBVIOUS
  <2>1. InFront(x) \in SUBSET InFront(y) /\ x \in InFront(y) /\ x \notin InFront(x)
    BY DEF Strict
  <2> HIDE DEF InFront
  <2>2. Cardinality(InFront(x)) <= Cardinality(InFront(y)) /\ (Cardinality(InFront(y)) = Cardinality(InFront(x)) => InFront(y) = InFront(x))
    BY <2>1, <1>1, FS_Subset
  <2>3. Cardinality(InFront(x)) \in Int /\ Cardinality(InFront(y)) \in Int
    BY <1>1
  <2> QED
    BY <2>1, <2>2, <2>3
<1>3. \A n \in 1..N : \E x \in S : Cardinality(InFront(x)) = n - 1
  <2>1. place \in [S -> 1..N]
    <3>1. ASSUME NEW x \in S PROVE Cardinality(InFront(x)) + 1 \in 1..N
      <4>1. Cardinality(InFront(x)) \in 0..(N - 1)
        BY <1>1
      <4> HIDE DEF N, InFront
      <4> QED
        BY <4>1, <1>0
    <3> HIDE DEF N, InFront
    <3> QED
      BY <3>1
  <2>2. ASSUME NEW x \in S, NEW y \in S, place[x] = place[y] PROVE x = y
    <3>1. Cardinality(InFront(x)) + 1 = Cardinality(InFront(y)) + 1
      BY <2>2
    <3>2. Cardinality(InFront(x)) \in Int /\ Cardinality(InFront(y)) \in Int
      BY <1>1
    <3> HIDE DEF InFront
    <3>3. Cardinality(InFront(x)) = Cardinality(InFront(y))
      BY <3>1, <3>2
    <3>4. <<x, y>> \notin before /\ <<y, x>> \notin before
      BY <3>2, <3>3, <1>2
    <3> QED
      BY <3>4 DEF Strict
  <2>3. IsFiniteSet(1..N) /\ Cardinality(1..N) = N
    BY <1>0, FS_Interval
  <2>4. place \in Injection(S, 1..N)
    <3> HIDE DEF place, N
    <3> QED
      BY <2>1, <2>2 DEF Injection, IsInjective
  <2>5. place \in Surjection(S, 1..N)
    <3> HIDE DEF place
    <3> QED
      BY <2>3, <2>4, FS_Injection
  <2>6. ASSUME NEW n \in 1..N PROVE \E x \in S : place[x] = n
    <3> HIDE DEF place, N
    <3> QED
      BY <2>5 DEF Surjection
  <2> SUFFICES ASSUME NEW n \in 1..N PROVE \E x \in S : Cardinality(InFront(x)) = n - 1
    OBVIOUS
  <2>7. PICK x \in S : place[x] = n
    BY <2>6
  <2>8. Cardinality(InFront(x)) + 1 = n /\ Cardinality(InFront(x)) \in Int
    BY <2>7, <1>1
  <2>9. Cardinality(InFront(x)) = n - 1
    <3> HIDE DEF InFront
    <3> QED
      BY <2>8
  <2> QED
    BY <2>9
<1> DEFINE Size(x) == TR!Cardinality(InFront(x))
<1>4. s = [n \in 1..N |-> CHOOSE x \in S : Size(x) = n - 1] /\ \A x \in S : Size(x) = Cardinality(InFront(x))
  <2>1. N = TR!Cardinality(S)
    BY TriageSizes
  <2>2. s = [n \in 1..TR!Cardinality(S) |-> CHOOSE x \in S : Size(x) = n - 1]
    BY DEF TR!InLine
  <2>3. \A x \in S : Size(x) = Cardinality(InFront(x))
    BY TriageSizes
  <2> HIDE DEF N, Size, s
  <2> QED
    BY <2>1, <2>2, <2>3
<1> HIDE DEF Size
<1>5. \A n \in 1..N : s[n] \in S /\ Cardinality(InFront(s[n])) = n - 1
  <2> SUFFICES ASSUME NEW n \in 1..N PROVE s[n] \in S /\ Cardinality(InFront(s[n])) = n - 1
    OBVIOUS
  <2>1. \E x \in S : Cardinality(InFront(x)) = n - 1
    BY <1>3
  <2>2. s[n] = CHOOSE x \in S : Size(x) = n - 1
    BY <1>4
  <2>3. \E x \in S : Size(x) = n - 1
    BY <1>4, <2>1
  <2> HIDE DEF s, InFront
  <2>4. s[n] \in S /\ Size(s[n]) = n - 1
    BY <2>2, <2>3
  <2> QED
    BY <1>4, <2>4
<1>6. s \in [1..N -> S] /\ DOMAIN s = 1..N
  <2>1. DOMAIN s = 1..N /\ s = [n \in DOMAIN s |-> s[n]]
    <3> HIDE DEF InFront, N
    <3> QED
      BY <1>4
  <2> HIDE DEF s, InFront, N
  <2> QED
    BY <2>1, <1>5
<1> HIDE DEF s, InFront
<1>7. \A m, n \in 1..N : m < n => <<s[m], s[n]>> \in before
  <2> SUFFICES ASSUME NEW m \in 1..N, NEW n \in 1..N, m < n PROVE <<s[m], s[n]>> \in before
    OBVIOUS
  <2>0. m \in Int /\ n \in Int
    BY <1>0
  <2>1. Cardinality(InFront(s[m])) = m - 1 /\ Cardinality(InFront(s[n])) = n - 1 /\ s[m] \in S /\ s[n] \in S
    BY <1>5
  <2>2. s[m] # s[n]
    BY <2>0, <2>1
  <2>3. <<s[n], s[m]>> \notin before
    BY <2>0, <2>1, <1>2
  <2> QED
    BY <2>1, <2>2, <2>3 DEF Strict
<1>8. \A m, n \in 1..N : s[m] = s[n] => m = n
  <2> SUFFICES ASSUME NEW m \in 1..N, NEW n \in 1..N, s[m] = s[n] PROVE m = n
    OBVIOUS
  <2>1. m - 1 = n - 1 /\ m \in Int /\ n \in Int
    BY <1>5
  <2> QED
    BY <2>1
<1>9. \A x \in S : \E n \in 1..N : s[n] = x
  <2>1. s \in Injection(1..N, S)
    BY <1>6, <1>8 DEF Injection, IsInjective
  <2>2. s \in Surjection(1..N, S)
    BY <2>1, <1>0, FS_Interval, FS_Injection
  <2> HIDE DEF N
  <2> QED
    BY <2>2 DEF Surjection
<1> HIDE DEF N
<1>10. Lined(s, S, before)
  <2>1. N = Cardinality(S)
    BY DEF N
  <2> QED
    BY <2>1, <1>0, <1>6, <1>7, <1>8, <1>9 DEF Lined
<1> QED
  BY <1>10 DEF s

-----------------------------------------------------------------------------
\* Artefacts, each with an id of its own.
Own(s) ==
  /\ s \in Seq(TR!Artefact) /\ \A n \in DOMAIN s : IsFiniteSet(s[n].times)
  /\ \A m, n \in DOMAIN s : m # n => s[m].id # s[n].id

LEMMA StandardIsOwn ==
  ASSUME NEW s, Own(s)
  PROVE  Own(TR!Standardise(s)) /\ TR!Ids(TR!Standardise(s)) = TR!Ids(s)
<1> DEFINE t == TR!Standardise(s)
           N == Len(s)
<1>1. N \in Nat /\ DOMAIN s = 1..N /\ \A n \in 1..N : s[n] \in TR!Artefact
  BY DEF Own
<1>2. DOMAIN t = 1..N
  BY <1>1 DEF TR!Standardise
<1>3. \A n \in 1..N : t[n] \in TR!Artefact /\ t[n].id = s[n].id /\ t[n].times = s[n].times
  <2> SUFFICES ASSUME NEW n \in 1..N PROVE t[n] \in TR!Artefact /\ t[n].id = s[n].id /\ t[n].times = s[n].times
    OBVIOUS
  <2>1. t[n] = s[n] \/ t[n] = [s[n] EXCEPT !.slash = "/"]
    BY <1>1 DEF TR!Standardise
  <2>2. s[n] \in TR!Artefact
    BY <1>1
  <2>3. ASSUME NEW a \in TR!Artefact
        PROVE  LET b == [a EXCEPT !.slash = "/"] IN b \in TR!Artefact /\ b.id = a.id /\ b.times = a.times
    BY DEF TR!Artefact
  <2> HIDE DEF t
  <2> QED
    BY <2>1, <2>2, <2>3
<1>4. t = [n \in 1..N |-> t[n]]
  BY <1>1 DEF TR!Standardise
<1> HIDE DEF t, N
<1>5. t \in Seq(TR!Artefact)
  <2>1. t \in [1..N -> TR!Artefact]
    BY <1>3, <1>4
  <2> QED
    BY <2>1, <1>1
<1>6. Own(t)
  BY <1>1, <1>2, <1>3, <1>5 DEF Own
<1>7. TR!Ids(t) = TR!Ids(s)
  BY <1>1, <1>2, <1>3 DEF TR!Ids
<1> QED
  BY <1>6, <1>7 DEF t

\* What is kept of A until n: no content twice, and every content.
Keeping(c, A, n) ==
  /\ c \in Seq(TR!ToSet(A))
  /\ \A i \in 1..n : \E m \in DOMAIN c : TR!Content(c[m]) = TR!Content(A[i])
  /\ \A k, m \in DOMAIN c : TR!Content(c[k]) = TR!Content(c[m]) => k = m

LEMMA KeepsOne ==
  ASSUME NEW A, NEW n \in Nat, n + 1 \in DOMAIN A, NEW c, Keeping(c, A, n)
  PROVE  Keeping(TR!Keep(c, A[n + 1]), A, n + 1)
<1> DEFINE a == A[n + 1]
           d == TR!Keep(c, a)
<1>0. a \in TR!ToSet(A) /\ c \in Seq(TR!ToSet(A)) /\ Len(c) \in Nat /\ DOMAIN c = 1..Len(c)
  BY DEF TR!ToSet, Keeping
<1>1. CASE \E m \in DOMAIN c : TR!Content(c[m]) = TR!Content(a)
  <2>1. d = c
    BY <1>1 DEF TR!Keep
  <2>2. \A i \in 1..(n + 1) : i \in 1..n \/ i = n + 1
    OBVIOUS
  <2> HIDE DEF d
  <2>3. Keeping(d, A, n + 1)
    BY <1>1, <2>1, <2>2 DEF Keeping
  <2> QED
    BY <2>3 DEF d
<1>2. CASE ~\E m \in DOMAIN c : TR!Content(c[m]) = TR!Content(a)
  <2>1. d = Append(c, a)
    BY <1>2 DEF TR!Keep
  <2>2. d \in Seq(TR!ToSet(A)) /\ Len(d) = Len(c) + 1 /\ DOMAIN d = 1..(Len(c) + 1)
    BY <1>0, <2>1
  <2>3. d[Len(c) + 1] = a /\ \A m \in DOMAIN c : m \in DOMAIN d /\ d[m] = c[m]
    BY <1>0, <2>1
  <2>4. \A m \in DOMAIN d : m \in DOMAIN c \/ m = Len(c) + 1
    BY <1>0, <2>2
  <2>5. Len(c) + 1 \in DOMAIN d
    BY <1>0, <2>2
  <2>6. \A i \in 1..(n + 1) : i \in 1..n \/ i = n + 1
    OBVIOUS
  <2> HIDE DEF d
  <2>7. \A i \in 1..(n + 1) : \E m \in DOMAIN d : TR!Content(d[m]) = TR!Content(A[i])
    BY <2>3, <2>5, <2>6 DEF Keeping
  <2>8. \A k, m \in DOMAIN d : TR!Content(d[k]) = TR!Content(d[m]) => k = m
    BY <1>2, <2>3, <2>4 DEF Keeping
  <2>9. Keeping(d, A, n + 1)
    BY <2>2, <2>7, <2>8 DEF Keeping
  <2> QED
    BY <2>9 DEF d
<1> QED
  BY <1>1, <1>2

LEMMA KeptOfAll ==
  ASSUME NEW A, NEW X, A \in Seq(X)
  PROVE  Keeping(TR!Deduplicate(A), A, Len(A))
<1> DEFINE N == Len(A)
           Filled(p) == [n \in 0..N |-> IF n = 0 THEN <<>> ELSE TR!Keep(p[n - 1], A[n])]
           kept == CHOOSE p : p = Filled(p)
           V == Seq(TR!ToSet(A))
<1>1. N \in Nat /\ DOMAIN A = 1..N
  OBVIOUS
<1>2. TR!Deduplicate(A) = kept[N]
  BY DEF TR!Deduplicate
<1>3. <<>> \in V /\ Keeping(<<>>, A, 0)
  <2>1. DOMAIN <<>> = {} /\ 1..0 = {} /\ <<>> \in V
    OBVIOUS
  <2> QED
    BY <2>1 DEF Keeping
<1>4. \A t \in V : \A n \in 1..N : TR!Keep(t, A[n]) \in V
  <2> SUFFICES ASSUME NEW t \in V, NEW n \in 1..N PROVE TR!Keep(t, A[n]) \in V
    OBVIOUS
  <2>1. A[n] \in TR!ToSet(A)
    BY <1>1 DEF TR!ToSet
  <2>2. Append(t, A[n]) \in V
    BY <2>1
  <2> QED
    BY <2>2 DEF TR!Keep
<1> HIDE DEF N, V
<1>5. kept = Filled(kept)
  <2> DEFINE h == [u \in (1..N) \X V |-> TR!Keep(u[2], A[u[1]])]
  <2>1. h \in [(1..N) \X V -> V]
    BY <1>4
  <2>2. \A n \in 1..N : \A t \in V : h[<<n, t>>] = TR!Keep(t, A[n])
    OBVIOUS
  <2> HIDE DEF h
  <2>3. PICK g \in [0..N -> V] : Repeats(g, <<>>, h, N)
    BY <1>1, <1>3, <2>1, Repeated
  <2>4. \A n \in 0..N : n = 0 \/ (n \in 1..N /\ n - 1 \in 0..N)
    BY <1>1
  <2>5. \A n \in 0..N : g[n] = IF n = 0 THEN <<>> ELSE TR!Keep(g[n - 1], A[n])
    BY <2>2, <2>3, <2>4 DEF Repeats
  <2>6. g = Filled(g)
    <3>1. g = [n \in 0..N |-> g[n]]
      OBVIOUS
    <3>2. Filled(g) = [n \in 0..N |-> g[n]]
      BY <2>5
    <3> HIDE DEF Filled
    <3> QED
      BY <3>1, <3>2
  <2> HIDE DEF Filled
  <2> QED
    BY <2>6
<1> HIDE DEF kept
<1>6. kept[0] = <<>> /\ \A n \in 0..(N - 1) : kept[n + 1] = TR!Keep(kept[n], A[n + 1]) /\ n \in Nat /\ n + 1 \in DOMAIN A
  <2>1. \A n \in 0..N : kept[n] = IF n = 0 THEN <<>> ELSE TR!Keep(kept[n - 1], A[n])
    BY <1>5
  <2>2. 0 \in 0..N /\ \A n \in 0..(N - 1) : n \in Nat /\ n + 1 \in 1..N /\ n + 1 \in 0..N /\ n + 1 # 0 /\ (n + 1) - 1 = n
    BY <1>1
  <2> QED
    BY <1>1, <2>1, <2>2
<1> DEFINE S == {n \in 0..N : Keeping(kept[n], A, n)}
<1>7. 0 \in S
  BY <1>1, <1>3, <1>6
<1>8. ASSUME NEW n \in 0..(N - 1), n \in S PROVE n + 1 \in S
  <2>1. Keeping(kept[n + 1], A, n + 1)
    BY <1>6, <1>8, KeepsOne
  <2>2. n + 1 \in 0..N
    BY <1>1
  <2> QED
    BY <2>1, <2>2
<1>9. 0..N \subseteq S
  <2> HIDE DEF S
  <2> QED
    BY <1>1, <1>7, <1>8, StepByStep
<1>10. N \in S
  BY <1>1, <1>9
<1> QED
  BY <1>2, <1>10 DEF N

\* Duplicates go, and nothing else: every content stays, under an id it came with.
LEMMA DeduplicatedIsOwn ==
  ASSUME NEW A, Own(A)
  PROVE  LET D == TR!Deduplicate(A) IN
         /\ Own(D) /\ TR!ToSet(D) \subseteq TR!ToSet(A)
         /\ {TR!Content(a) : a \in TR!ToSet(D)} = {TR!Content(a) : a \in TR!ToSet(A)}
         /\ \A m, n \in DOMAIN D : TR!Content(D[m]) = TR!Content(D[n]) => m = n
<1> DEFINE D == TR!Deduplicate(A)
<1>1. A \in Seq(TR!Artefact) /\ DOMAIN A = 1..Len(A)
  BY DEF Own
<1>2. Keeping(D, A, Len(A))
  BY <1>1, KeptOfAll
<1> HIDE DEF D
<1>3. D \in Seq(TR!ToSet(A)) /\ DOMAIN D = 1..Len(D) /\ Len(D) \in Nat /\ (\A m \in DOMAIN D : D[m] \in TR!ToSet(A))
  BY <1>2 DEF Keeping
<1>4. TR!ToSet(A) \subseteq TR!Artefact
  BY <1>1 DEF TR!ToSet
<1>5. D \in Seq(TR!Artefact)
  BY <1>3, <1>4
<1>6. TR!ToSet(D) \subseteq TR!ToSet(A)
  BY <1>3 DEF TR!ToSet
<1>7. \A m, n \in DOMAIN D : TR!Content(D[m]) = TR!Content(D[n]) => m = n
  BY <1>2 DEF Keeping
<1>8. \A a, b \in TR!ToSet(A) : a.id = b.id => a = b
  BY DEF Own, TR!ToSet
<1>9. ASSUME NEW m \in DOMAIN D, NEW n \in DOMAIN D, m # n PROVE D[m].id # D[n].id
  BY <1>3, <1>7, <1>8, <1>9
<1>10. ASSUME NEW n \in DOMAIN D PROVE IsFiniteSet(D[n].times)
  <2>1. PICK i \in DOMAIN A : D[n] = A[i]
    BY <1>3 DEF TR!ToSet
  <2> QED
    BY <2>1 DEF Own
<1>11. Own(D)
  BY <1>5, <1>9, <1>10 DEF Own
<1>12. \A a \in TR!ToSet(A) : \E d \in TR!ToSet(D) : TR!Content(d) = TR!Content(a)
  BY <1>1, <1>2 DEF Keeping, TR!ToSet
<1>13. {TR!Content(a) : a \in TR!ToSet(D)} = {TR!Content(a) : a \in TR!ToSet(A)}
  BY <1>6, <1>12
<1> QED
  BY <1>6, <1>7, <1>11, <1>13 DEF D

-----------------------------------------------------------------------------
\* Edges join two artefacts that are there.
Joins(L, C) == \A e \in L : e \subseteq TR!Ids(C) /\ Cardinality(e) = 2

LEMMA OwnIds ==
  ASSUME NEW C, Own(C)
  PROVE  /\ Len(C) \in Nat /\ DOMAIN C = 1..Len(C) /\ IsFiniteSet(TR!Ids(C)) /\ IsFiniteSet(DOMAIN C)
         /\ \A n \in DOMAIN C : C[n] \in TR!Artefact /\ C[n].id \in TR!Ids(C)
         /\ \A a, b \in TR!ToSet(C) : a.id = b.id => a = b
<1> DEFINE id == [n \in DOMAIN C |-> C[n].id]
<1>1. C \in Seq(TR!Artefact) /\ Len(C) \in Nat /\ DOMAIN C = 1..Len(C)
  BY DEF Own
<1>2. IsFiniteSet(DOMAIN C)
  BY <1>1, FS_Interval
<1>3. IsFiniteSet({id[n] : n \in DOMAIN id})
  <2>1. IsFiniteSet(DOMAIN id)
    BY <1>2
  <2> HIDE DEF id
  <2> QED
    BY <2>1, ValuesFinite
<1>4. TR!Ids(C) = {id[n] : n \in DOMAIN id}
  BY DEF TR!Ids
<1>5. \A n \in DOMAIN C : C[n] \in TR!Artefact /\ C[n].id \in TR!Ids(C)
  BY <1>1 DEF TR!Ids
<1>6. \A a, b \in TR!ToSet(C) : a.id = b.id => a = b
  BY DEF Own, TR!ToSet
<1> QED
  BY <1>1, <1>2, <1>3, <1>4, <1>5, <1>6

LEMMA TwoOfThem ==
  ASSUME NEW x, NEW y, x # y
  PROVE  Cardinality({x, y}) = 2
<1>1. IsFiniteSet({x}) /\ Cardinality({x}) = 1
  BY FS_Singleton
<1>2. Cardinality({x} \cup {y}) = 2
  BY <1>1, FS_AddElement
<1>3. {x, y} = {x} \cup {y}
  OBVIOUS
<1> QED
  BY <1>2, <1>3

LEMMA CorrelatedJoins ==
  ASSUME NEW C, Own(C)
  PROVE  Joins(TR!Correlate(C), C)
<1> SUFFICES ASSUME NEW e \in TR!Correlate(C) PROVE e \subseteq TR!Ids(C) /\ Cardinality(e) = 2
  BY DEF Joins
<1>1. PICK p \in TR!ToSet(C) \X TR!ToSet(C) : TR!LinkedBy(p[1], p[2]) /\ e = {p[1].id, p[2].id}
  BY DEF TR!Correlate
<1>2. p[1] \in TR!ToSet(C) /\ p[2] \in TR!ToSet(C)
  OBVIOUS
<1>3. p[1] # p[2]
  BY <1>1 DEF TR!LinkedBy
<1>4. p[1].id # p[2].id
  BY <1>2, <1>3, OwnIds
<1>5. p[1].id \in TR!Ids(C) /\ p[2].id \in TR!Ids(C)
  BY <1>2 DEF TR!Ids, TR!ToSet
<1> QED
  BY <1>1, <1>4, <1>5, TwoOfThem

LEMMA JoinsFinite ==
  ASSUME NEW C, Own(C), NEW L, Joins(L, C)
  PROVE  IsFiniteSet(L) /\ IsFiniteSet(UNION L) /\ UNION L \subseteq TR!Ids(C)
<1>1. IsFiniteSet(TR!Ids(C))
  BY OwnIds
<1>2. L \in SUBSET SUBSET TR!Ids(C) /\ UNION L \in SUBSET TR!Ids(C)
  BY DEF Joins
<1>3. IsFiniteSet(SUBSET TR!Ids(C))
  BY <1>1, FS_SUBSET
<1> QED
  BY <1>1, <1>2, <1>3, FS_Subset

LEMMA DegreesAreNumbers ==
  ASSUME NEW C, Own(C), Joins(links, C), NEW id
  PROVE  TR!Degree(id) \in Nat
<1>1. IsFiniteSet(links)
  BY JoinsFinite
<1>2. IsFiniteSet({e \in links : id \in e})
  BY <1>1, FS_Subset
<1>3. Cardinality({e \in links : id \in e}) \in Nat
  BY <1>2, FS_CardinalityType
<1> QED
  BY <1>3, TriageSizes DEF TR!Degree

-----------------------------------------------------------------------------
LEMMA NaturalSum ==
  ASSUME NEW f, IsFiniteSet(DOMAIN f), \A x \in DOMAIN f : f[x] \in Nat
  PROVE  TR!SumFunction(f) \in Nat
<1> DEFINE D == DOMAIN f
           Part(s) == [x \in s |-> f[x]]
           P == {s \in SUBSET D : E!SumFunction(Part(s)) \in Nat}
<1>1. {} \in P
  <2>1. DOMAIN Part({}) = {}
    OBVIOUS
  <2> HIDE DEF Part
  <2>2. E!SumFunction(Part({})) = 0
    BY <2>1, SumNone
  <2> QED
    BY <2>2
<1>2. ASSUME NEW s \in SUBSET D, s # {}, \A x \in s : s \ {x} \in P
      PROVE  s \in P
  <2>1. PICK x \in s : TRUE
    BY <1>2
  <2>2. E!SumFunction(Part(s \ {x})) \in Nat
    BY <1>2
  <2>3. Summable(Part(s \ {x}))
    <3>1. IsFiniteSet(s \ {x})
      BY FS_Subset
    <3>2. DOMAIN Part(s \ {x}) = s \ {x} /\ \A y \in s \ {x} : Part(s \ {x})[y] \in Int
      OBVIOUS
    <3> HIDE DEF Part
    <3> QED
      BY <3>1, <3>2 DEF Summable
  <2>4. /\ DOMAIN Part(s \ {x}) = s \ {x} /\ DOMAIN Part(s) = s /\ Part(s)[x] = f[x]
        /\ \A y \in s \ {x} : Part(s \ {x})[y] = Part(s)[y]
    OBVIOUS
  <2>5. (s \ {x}) \cup {x} = s /\ f[x] \in Nat
    BY <2>1
  <2> HIDE DEF Part
  <2>6. E!SumFunction(Part(s)) = f[x] + E!SumFunction(Part(s \ {x}))
    <3> DEFINE f1 == Part(s \ {x})
               g1 == Part(s)
    <3>1. /\ Summable(f1) /\ x \notin DOMAIN f1 /\ DOMAIN g1 = DOMAIN f1 \cup {x} /\ g1[x] = f[x] /\ g1[x] \in Int
          /\ \A y \in DOMAIN f1 : g1[y] = f1[y]
      BY <2>3, <2>4, <2>5
    <3> HIDE DEF f1, g1
    <3>2. E!SumFunction(g1) = g1[x] + E!SumFunction(f1)
      BY <3>1, SumAdded
    <3> QED
      BY <3>1, <3>2 DEF f1, g1
  <2> QED
    BY <2>2, <2>5, <2>6
<1>3. SUBSET D \subseteq P
  <2> HIDE DEF P
  <2> QED
    BY <1>1, <1>2, SetBySet
<1>4. CASE D = {}
  BY <1>4, SumNone, TriageSums
<1>5. CASE D # {}
  <2>1. PICK x \in D : TRUE
    BY <1>5
  <2>2. D \ {x} \in P
    BY <1>3
  <2>3. DOMAIN Part(D \ {x}) = D \ {x} /\ (\A y \in D \ {x} : Part(D \ {x})[y] = f[y]) /\ E!SumFunction(Part(D \ {x})) \in Nat
    BY <2>2
  <2> HIDE DEF Part
  <2>4. Summable(Part(D \ {x}))
    <3>1. IsFiniteSet(D \ {x})
      BY FS_Subset
    <3> QED
      BY <2>3, <3>1 DEF Summable
  <2>5. (D \ {x}) \cup {x} = D /\ f[x] \in Nat
    BY <2>1
  <2>6. E!SumFunction(f) = f[x] + E!SumFunction(Part(D \ {x}))
    <3> DEFINE f1 == Part(D \ {x})
    <3>1. /\ Summable(f1) /\ x \notin DOMAIN f1 /\ D = DOMAIN f1 \cup {x} /\ f[x] \in Int
          /\ \A y \in DOMAIN f1 : f[y] = f1[y]
      BY <2>3, <2>4, <2>5
    <3> HIDE DEF f1
    <3>2. E!SumFunction(f) = f[x] + E!SumFunction(f1)
      BY <3>1, SumAdded
    <3> QED
      BY <3>2 DEF f1
  <2> QED
    BY <2>3, <2>5, <2>6, TriageSums
<1> QED
  BY <1>4, <1>5, TriageSums

\* One term is there for each index.
Confidences == {"high", "medium", "low"}

LEMMA ScansEnd ==
  ASSUME NEW a
  PROVE  IsFiniteSet(DOMAIN TR!Scan(a))
<1>1. \A flag : \A c \in Confidences : TR!Matched(a, flag, c) \in Seq(Confidences)
  <2> SUFFICES ASSUME NEW flag, NEW c \in Confidences PROVE TR!Matched(a, flag, c) \in Seq(Confidences)
    OBVIOUS
  <2>1. <<c>> \in Seq(Confidences) /\ <<>> \in Seq(Confidences)
    OBVIOUS
  <2> QED
    BY <2>1 DEF TR!Matched
<1>2. "high" \in Confidences /\ "medium" \in Confidences /\ "low" \in Confidences
  BY DEF Confidences
<1>3. <<IF "mz" \in a.flags THEN "high" ELSE "medium">> \in Seq(Confidences) /\ <<>> \in Seq(Confidences)
  BY DEF Confidences
<1>4. \A s, t \in Seq(Confidences) : s \o t \in Seq(Confidences)
  OBVIOUS
<1>5. TR!Scan(a) \in Seq(Confidences)
  BY <1>1, <1>2, <1>3, <1>4 DEF TR!Scan
<1>6. DOMAIN TR!Scan(a) = 1..Len(TR!Scan(a)) /\ Len(TR!Scan(a)) \in Nat
  BY <1>5
<1> QED
  BY <1>6, FS_Interval

-----------------------------------------------------------------------------
\* Every artefact has finitely many matches.
Matching(m, C) == \A id \in TR!Ids(C) : IsFiniteSet(DOMAIN m[id])

WeightsOf(s) == TR!SumFunction([n \in DOMAIN s |-> TR!Weight(s[n])])

LEMMA WeightsAdd ==
  ASSUME NEW s, IsFiniteSet(DOMAIN s)
  PROVE  WeightsOf(s) \in Nat
<1> DEFINE f == [n \in DOMAIN s |-> TR!Weight(s[n])]
<1>1. DOMAIN f = DOMAIN s /\ \A n \in DOMAIN f : f[n] \in Nat
  BY DEF TR!Weight
<1> HIDE DEF f
<1>2. TR!SumFunction(f) \in Nat
  BY <1>1, NaturalSum
<1> QED
  BY <1>2 DEF f, WeightsOf

LEMMA ScoreRange ==
  ASSUME NEW a, NEW A, NEW m, IsFiniteSet(DOMAIN m[a.id]), NEW d \in Nat
  PROVE  TR!Score(a, A, m, d) \in 0..100
<1> DEFINE w == WeightsOf(m[a.id])
           b == TR!Bonus(d)
           c == TR!Base(a.cat)
           near == IF TR!Near(a, A, m) THEN 10 ELSE 0
<1>1. w \in Nat
  BY WeightsAdd
<1>2. b \in Nat
  BY DEF TR!Bonus, TR!Least
<1>3. c \in Nat
  BY DEF TR!Base
<1>4. near \in Nat
  OBVIOUS
<1>5. TR!Score(a, A, m, d) = TR!Least(100, w + b + c + near)
  BY DEF TR!Score, WeightsOf
<1> HIDE DEF w, b, c, near
<1> QED
  BY <1>1, <1>2, <1>3, <1>4, <1>5 DEF TR!Least

\* With no matches at all nothing is near a match.
Unmatched(m, A) == \A a \in TR!ToSet(A) : m[a.id] = <<>>

LEMMA ScoreAlone ==
  ASSUME NEW A, NEW m, Unmatched(m, A), NEW a \in TR!ToSet(A)
  PROVE  \A d \in Nat : TR!Score(a, A, m, d) = TR!Least(100, TR!Bonus(d) + TR!Base(a.cat))
<1> SUFFICES ASSUME NEW d \in Nat PROVE TR!Score(a, A, m, d) = TR!Least(100, TR!Bonus(d) + TR!Base(a.cat))
  OBVIOUS
<1>1. m[a.id] = <<>> /\ ~TR!Near(a, A, m)
  BY DEF Unmatched, TR!Near
<1>2. WeightsOf(m[a.id]) = 0
  <2> DEFINE f == [n \in DOMAIN m[a.id] |-> TR!Weight(m[a.id][n])]
  <2>1. DOMAIN f = {}
    BY <1>1
  <2> HIDE DEF f
  <2>2. TR!SumFunction(f) = 0
    BY <2>1, SumNone, TriageSums
  <2> QED
    BY <2>2 DEF f, WeightsOf
<1> DEFINE b == TR!Bonus(d)
           c == TR!Base(a.cat)
           near == IF TR!Near(a, A, m) THEN 10 ELSE 0
<1>3. b \in Nat /\ c \in Nat
  BY DEF TR!Bonus, TR!Least, TR!Base
<1>4. near = 0
  BY <1>1
<1>5. TR!Score(a, A, m, d) = TR!Least(100, WeightsOf(m[a.id]) + b + c + near)
  BY DEF TR!Score, WeightsOf
<1> HIDE DEF b, c, near
<1>6. TR!Score(a, A, m, d) = TR!Least(100, b + c)
  BY <1>2, <1>3, <1>4, <1>5
<1> QED
  BY <1>6 DEF b, c

\* A match and a link add, and links alone add 30 at most.
LEMMA ScoreRises ==
  ASSUME NEW A, NEW a \in TR!ToSet(A), NEW m, IsFiniteSet(DOMAIN m[a.id]), NEW d \in Nat, NEW none, Unmatched(none, A)
  PROVE  /\ TR!Score(a, A, none, 0) <= TR!Score(a, A, m, d)
         /\ Unmatched(m, A) => TR!Score(a, A, m, d) <= TR!Score(a, A, none, 0) + 30
<1> DEFINE w == WeightsOf(m[a.id])
           b == TR!Bonus(d)
           c == TR!Base(a.cat)
           near == IF TR!Near(a, A, m) THEN 10 ELSE 0
<1>1. w \in Nat
  BY WeightsAdd
<1>2. b \in 0..30 /\ TR!Bonus(0) = 0
  BY DEF TR!Bonus, TR!Least
<1>3. c \in Nat
  BY DEF TR!Base
<1>4. near \in Nat
  OBVIOUS
<1>5. TR!Score(a, A, m, d) = TR!Least(100, w + b + c + near)
  BY DEF TR!Score, WeightsOf
<1>6. TR!Score(a, A, none, 0) = TR!Least(100, TR!Bonus(0) + c)
  BY ScoreAlone
<1>7. Unmatched(m, A) => TR!Score(a, A, m, d) = TR!Least(100, b + c)
  BY ScoreAlone
<1> HIDE DEF w, b, c, near
<1>8. TR!Score(a, A, none, 0) = TR!Least(100, c)
  BY <1>2, <1>3, <1>6
<1>9. TR!Score(a, A, none, 0) <= TR!Score(a, A, m, d)
  BY <1>1, <1>2, <1>3, <1>4, <1>5, <1>8 DEF TR!Least
<1>10. Unmatched(m, A) => TR!Score(a, A, m, d) <= TR!Score(a, A, none, 0) + 30
  BY <1>2, <1>3, <1>7, <1>8 DEF TR!Least
<1> QED
  BY <1>9, <1>10

-----------------------------------------------------------------------------
\* What the rules add depends on the artefact alone.
BoostOf(a) == TR!SumFunction([n \in {k \in DOMAIN TR!Rules : TR!RuleMatches(TR!Rules[k], a)} |-> TR!Rules[n].boost])

LEMMA RulesBoost ==
  /\ IsFiniteSet(DOMAIN TR!Rules)
  /\ \A n \in DOMAIN TR!Rules : TR!Rules[n].boost \in Nat
<1> DEFINE From(s) == TR!ToSet(s)
           X == From(TR!DiskRules) \cup From(TR!HistoryRules) \cup From(TR!MemoryRules)
<1>1. TR!DiskRules \in Seq(X) /\ TR!HistoryRules \in Seq(X) /\ TR!MemoryRules \in Seq(X)
  <2>1. TR!DiskRules \in Seq(From(TR!DiskRules))
    BY DEF TR!DiskRules, TR!ToSet
  <2>2. TR!HistoryRules \in Seq(From(TR!HistoryRules))
    BY DEF TR!HistoryRules, TR!ToSet
  <2>3. TR!MemoryRules \in Seq(From(TR!MemoryRules))
    BY DEF TR!MemoryRules, TR!ToSet
  <2>4. \A S, T : S \subseteq T => Seq(S) \subseteq Seq(T)
    OBVIOUS
  <2>5. From(TR!DiskRules) \subseteq X /\ From(TR!HistoryRules) \subseteq X /\ From(TR!MemoryRules) \subseteq X
    OBVIOUS
  <2> HIDE DEF X, From
  <2> QED
    BY <2>1, <2>2, <2>3, <2>4, <2>5
<1>2. \A r \in X : r.boost \in Nat
  <2>1. \A c, f, s : \A b \in Nat : TR!Rule(c, f, s, b).boost \in Nat
    BY DEF TR!Rule
  <2>2. \A r \in From(TR!DiskRules) : r.boost \in Nat
    BY DEF TR!DiskRules, TR!ToSet, TR!Rule
  <2>3. \A r \in From(TR!HistoryRules) : r.boost \in Nat
    BY DEF TR!HistoryRules, TR!ToSet, TR!Rule
  <2>4. \A r \in From(TR!MemoryRules) : r.boost \in Nat
    BY DEF TR!MemoryRules, TR!ToSet, TR!Rule
  <2> QED
    BY <2>2, <2>3, <2>4
<1> HIDE DEF X, From
<1>3. TR!Rules \in Seq(X)
  BY <1>1 DEF TR!Rules
<1>4. DOMAIN TR!Rules = 1..Len(TR!Rules) /\ Len(TR!Rules) \in Nat /\ \A n \in DOMAIN TR!Rules : TR!Rules[n] \in X
  BY <1>3
<1> QED
  BY <1>2, <1>4, FS_Interval

LEMMA BoostIsNatural ==
  ASSUME NEW a
  PROVE  BoostOf(a) \in Nat
<1> DEFINE S == {k \in DOMAIN TR!Rules : TR!RuleMatches(TR!Rules[k], a)}
           f == [n \in S |-> TR!Rules[n].boost]
<1>1. IsFiniteSet(S)
  BY RulesBoost, FS_Subset
<1>2. DOMAIN f = S /\ \A n \in DOMAIN f : f[n] \in Nat
  BY RulesBoost
<1> HIDE DEF f, S
<1>3. TR!SumFunction(f) \in Nat
  BY <1>1, <1>2, NaturalSum
<1> QED
  BY <1>3 DEF f, S, BoostOf

LEMMA LevelIsOne ==
  ASSUME NEW score \in 0..100
  PROVE  TR!Level(score) \in TR!ToSet(TR!Levels)
<1> DEFINE q == score \div 20
<1>1. q \in 0..5
  OBVIOUS
<1> HIDE DEF q
<1>2. 1 + TR!Least(4, q) \in 1..5
  BY <1>1 DEF TR!Least
<1>3. DOMAIN TR!Levels = 1..5
  BY DEF TR!Levels
<1>4. \A i \in 1..5 : TR!Levels[i] \in TR!ToSet(TR!Levels)
  BY <1>3 DEF TR!ToSet
<1> QED
  BY <1>2, <1>4 DEF TR!Level, q

LEMMA EvaluatedIs ==
  ASSUME NEW a, NEW A, NEW m, IsFiniteSet(DOMAIN m[a.id]), NEW d \in Nat
  PROVE  LET e == TR!Evaluated(a, A, m, d) IN
         /\ e.id = a.id /\ e.score = TR!Least(100, TR!Score(a, A, m, d) + BoostOf(a))
         /\ e.score \in 0..100 /\ e.level \in TR!ToSet(TR!Levels)
<1> DEFINE e == TR!Evaluated(a, A, m, d)
           s == TR!Least(100, TR!Score(a, A, m, d) + BoostOf(a))
<1>1. e.id = a.id /\ e.score = s /\ e.level = TR!Level(s)
  BY DEF TR!Evaluated, BoostOf
<1>2. s \in 0..100
  <2> DEFINE x == TR!Score(a, A, m, d)
             y == BoostOf(a)
  <2>1. x \in 0..100 /\ y \in Nat
    BY ScoreRange, BoostIsNatural
  <2> HIDE DEF x, y
  <2>2. TR!Least(100, x + y) \in 0..100
    BY <2>1 DEF TR!Least
  <2> QED
    BY <2>2 DEF x, y
<1> HIDE DEF s, e
<1>3. e.id = a.id /\ e.score = s /\ e.score \in 0..100 /\ e.level \in TR!ToSet(TR!Levels)
  BY <1>1, <1>2, LevelIsOne
<1> QED
  BY <1>3 DEF s, e

-----------------------------------------------------------------------------
\* By score, every item at one place.
Sorted(o, items, N) ==
  /\ o \in [1..N -> 1..N] /\ DOMAIN o = 1..N
  /\ \A m, n \in 1..N : m < n => items[o[m]].score >= items[o[n]].score
  /\ \A m, n \in 1..N : o[m] = o[n] => m = n
  /\ \A k \in 1..N : \E n \in 1..N : o[n] = k

LEMMA ByScoreSorts ==
  ASSUME NEW items, NEW N \in Nat, DOMAIN items = 1..N, \A n \in 1..N : items[n].score \in Int
  PROVE  Sorted(TR!ByScore(items), items, N)
<1> DEFINE places == 1..N
           B(m, n) == items[m].score > items[n].score \/ (items[m].score = items[n].score /\ m < n)
           better == {p \in places \X places : B(p[1], p[2])}
           o == TR!InLine(places, better)
<1>1. TR!ByScore(items) = o
  BY DEF TR!ByScore
<1>2. \A m, n \in places : <<m, n>> \in better <=> B(m, n)
  <2> SUFFICES ASSUME NEW m \in places, NEW n \in places PROVE <<m, n>> \in better <=> B(m, n)
    OBVIOUS
  <2>1. <<m, n>> \in places \X places /\ <<m, n>>[1] = m /\ <<m, n>>[2] = n
    OBVIOUS
  <2> HIDE DEF places
  <2> QED
    BY <2>1
<1>3. Strict(places, better)
  <2>1. \A m, n, k \in places : ~B(m, m) /\ (m # n => B(m, n) \/ B(n, m)) /\ (B(m, n) /\ B(n, k) => B(m, k))
    <3> SUFFICES ASSUME NEW m \in places, NEW n \in places, NEW k \in places
                 PROVE  ~B(m, m) /\ (m # n => B(m, n) \/ B(n, m)) /\ (B(m, n) /\ B(n, k) => B(m, k))
      OBVIOUS
    <3>1. PICK x \in Int : x = items[m].score
      OBVIOUS
    <3>2. PICK y \in Int : y = items[n].score
      OBVIOUS
    <3>3. PICK z \in Int : z = items[k].score
      OBVIOUS
    <3>4. m \in Int /\ n \in Int /\ k \in Int
      OBVIOUS
    <3> QED
      BY <3>1, <3>2, <3>3, <3>4
  <2> HIDE DEF better, places, B
  <2> QED
    BY <1>2, <2>1 DEF Strict
<1>4. IsFiniteSet(places) /\ Cardinality(places) = N
  BY FS_Interval
<1>5. Lined(o, places, better)
  <2> HIDE DEF better, places
  <2> QED
    BY <1>3, <1>4, LinedUp
<1>6. o \in [1..N -> places] /\ DOMAIN o = 1..N /\ (\A m, n \in 1..N : m < n => <<o[m], o[n]>> \in better)
      /\ (\A m, n \in 1..N : o[m] = o[n] => m = n) /\ \A k \in places : \E n \in 1..N : o[n] = k
  <2> HIDE DEF better, places, o
  <2> QED
    BY <1>4, <1>5 DEF Lined
<1> HIDE DEF o
<1>7. ASSUME NEW m \in 1..N, NEW n \in 1..N, m < n PROVE items[o[m]].score >= items[o[n]].score
  <2>1. o[m] \in places /\ o[n] \in places /\ <<o[m], o[n]>> \in better
    BY <1>6, <1>7
  <2>2. B(o[m], o[n])
    BY <1>2, <2>1
  <2>3. items[o[m]].score \in Int /\ items[o[n]].score \in Int
    BY <2>1
  <2> QED
    BY <2>2, <2>3
<1>8. Sorted(o, items, N)
  BY <1>6, <1>7 DEF Sorted
<1> QED
  BY <1>1, <1>8

\* A ranking has each artefact of C once, with a score and a level.
Ranks(r, C) ==
  /\ DOMAIN r = 1..Len(C) /\ Len(r) = Len(C)
  /\ \A n \in DOMAIN r : r[n].score \in 0..100 /\ r[n].level \in TR!ToSet(TR!Levels)
  /\ \A m, n \in DOMAIN r : r[m].id = r[n].id => m = n
  /\ TR!Ids(r) = TR!Ids(C)

\* Scores are those of the artefacts.
ScoredBy(r, C, m, d) ==
  \A n \in DOMAIN r : \E a \in TR!ToSet(C) : r[n].id = a.id /\ r[n].score = TR!Least(100, TR!Score(a, C, m, d[a.id]) + BoostOf(a))

LEMMA EvaluateRanks ==
  ASSUME NEW C, Own(C), NEW m, Matching(m, C), NEW d, \A id \in TR!Ids(C) : d[id] \in Nat
  PROVE  Ranks(TR!Evaluate(C, m, d), C) /\ ScoredBy(TR!Evaluate(C, m, d), C, m, d)
<1> DEFINE N == Len(C)
           items == [n \in DOMAIN C |-> TR!Evaluated(C[n], C, m, d[C[n].id])]
           o == TR!ByScore(items)
           r == TR!Evaluate(C, m, d)
<1>1. /\ N \in Nat /\ DOMAIN C = 1..N
      /\ \A n \in 1..N : C[n] \in TR!Artefact /\ C[n].id \in TR!Ids(C) /\ C[n] \in TR!ToSet(C)
      /\ \A a, b \in TR!ToSet(C) : a.id = b.id => a = b
  BY OwnIds DEF TR!ToSet
<1>2. \A k, n \in 1..N : C[k].id = C[n].id => k = n
  BY <1>1 DEF Own
<1>3. DOMAIN items = 1..N /\ \A n \in 1..N : items[n] = TR!Evaluated(C[n], C, m, d[C[n].id])
  BY <1>1
<1>4. r = [n \in DOMAIN o |-> items[o[n]]]
  BY DEF TR!Evaluate
<1> HIDE DEF items
<1>5. \A n \in 1..N : /\ items[n].id = C[n].id /\ items[n].score = TR!Least(100, TR!Score(C[n], C, m, d[C[n].id]) + BoostOf(C[n]))
                      /\ items[n].score \in 0..100 /\ items[n].level \in TR!ToSet(TR!Levels)
  <2> SUFFICES ASSUME NEW n \in 1..N
               PROVE  /\ items[n].id = C[n].id /\ items[n].score = TR!Least(100, TR!Score(C[n], C, m, d[C[n].id]) + BoostOf(C[n]))
                      /\ items[n].score \in 0..100 /\ items[n].level \in TR!ToSet(TR!Levels)
    OBVIOUS
  <2>1. d[C[n].id] \in Nat /\ IsFiniteSet(DOMAIN m[C[n].id])
    BY <1>1 DEF Matching
  <2>2. PICK a : a = C[n]
    OBVIOUS
  <2>3. PICK e \in Nat : e = d[a.id]
    BY <2>1, <2>2
  <2>4. items[n] = TR!Evaluated(a, C, m, e)
    BY <1>3, <2>2, <2>3
  <2>5. LET i == TR!Evaluated(a, C, m, e) IN
        /\ i.id = a.id /\ i.score = TR!Least(100, TR!Score(a, C, m, e) + BoostOf(a))
        /\ i.score \in 0..100 /\ i.level \in TR!ToSet(TR!Levels)
    <3>1. IsFiniteSet(DOMAIN m[a.id])
      BY <2>1, <2>2
    <3> QED
      BY <3>1, EvaluatedIs
  <2> QED
    BY <2>2, <2>3, <2>4, <2>5
<1> HIDE DEF N
<1>6. Sorted(o, items, N)
  <2>1. \A n \in 1..N : items[n].score \in Int
    BY <1>5
  <2> QED
    BY <1>1, <1>3, <2>1, ByScoreSorts
<1> HIDE DEF o, r
<1>7. DOMAIN r = 1..N /\ \A n \in 1..N : r[n] = items[o[n]] /\ o[n] \in 1..N
  BY <1>4, <1>6 DEF Sorted
<1>8. Len(r) = N
  <2> DEFINE X == {r[n] : n \in 1..N}
  <2>1. r = [n \in 1..N |-> r[n]]
    BY <1>4, <1>7
  <2>2. r \in Seq(X)
    BY <1>1, <2>1
  <2> QED
    BY <1>1, <1>7, <2>2
<1>9. \A n \in DOMAIN r : r[n].score \in 0..100 /\ r[n].level \in TR!ToSet(TR!Levels)
  BY <1>5, <1>7
<1>10. \A k, n \in DOMAIN r : r[k].id = r[n].id => k = n
  <2> SUFFICES ASSUME NEW k \in 1..N, NEW n \in 1..N, r[k].id = r[n].id PROVE k = n
    BY <1>7
  <2>1. C[o[k]].id = C[o[n]].id /\ o[k] \in 1..N /\ o[n] \in 1..N
    BY <1>5, <1>7
  <2>2. o[k] = o[n]
    BY <1>2, <2>1
  <2> QED
    BY <1>6, <2>2 DEF Sorted
<1>11. TR!Ids(r) = TR!Ids(C)
  <2>1. ASSUME NEW n \in 1..N PROVE r[n].id \in TR!Ids(C)
    <3>1. o[n] \in 1..N /\ r[n] = items[o[n]]
      BY <1>7
    <3>2. r[n].id = C[o[n]].id /\ C[o[n]].id \in TR!Ids(C)
      BY <1>1, <1>5, <3>1
    <3> QED
      BY <3>2
  <2>2. ASSUME NEW k \in 1..N PROVE \E n \in 1..N : r[n].id = C[k].id
    <3>1. PICK n \in 1..N : o[n] = k
      BY <1>6 DEF Sorted
    <3> QED
      BY <1>5, <1>7, <3>1
  <2>3. TR!Ids(C) = {C[k].id : k \in 1..N}
    BY <1>1 DEF TR!Ids
  <2>4. TR!Ids(r) = {r[n].id : n \in 1..N}
    BY <1>7 DEF TR!Ids
  <2> QED
    BY <2>1, <2>2, <2>3, <2>4
<1>12. Ranks(r, C)
  BY <1>7, <1>8, <1>9, <1>10, <1>11 DEF Ranks, N
<1>13. ScoredBy(r, C, m, d)
  <2> SUFFICES ASSUME NEW n \in 1..N
               PROVE  \E a \in TR!ToSet(C) : r[n].id = a.id /\ r[n].score = TR!Least(100, TR!Score(a, C, m, d[a.id]) + BoostOf(a))
    BY <1>7 DEF ScoredBy
  <2>1. o[n] \in 1..N /\ r[n] = items[o[n]]
    BY <1>7
  <2>2. C[o[n]] \in TR!ToSet(C)
    BY <1>1, <2>1
  <2> QED
    BY <1>5, <2>1, <2>2
<1> QED
  BY <1>12, <1>13 DEF r

\* More evidence, no lower score.
LEMMA ScoresCompare ==
  ASSUME NEW C, Own(C), NEW m, Matching(m, C), NEW d, \A id \in TR!Ids(C) : d[id] \in Nat,
         NEW none, Unmatched(none, C), NEW zero, \A id \in TR!Ids(C) : zero[id] = 0,
         NEW r, ScoredBy(r, C, m, d), NEW s, ScoredBy(s, C, none, zero),
         NEW k \in DOMAIN r, NEW n \in DOMAIN s, r[k].id = s[n].id
  PROVE  /\ r[k].score >= s[n].score
         /\ Unmatched(m, C) => r[k].score <= s[n].score + 30
<1>1. PICK a \in TR!ToSet(C) : r[k].id = a.id /\ r[k].score = TR!Least(100, TR!Score(a, C, m, d[a.id]) + BoostOf(a))
  BY DEF ScoredBy
<1>2. PICK b \in TR!ToSet(C) : s[n].id = b.id /\ s[n].score = TR!Least(100, TR!Score(b, C, none, zero[b.id]) + BoostOf(b))
  BY DEF ScoredBy
<1>3. a = b /\ a.id \in TR!Ids(C)
  <2>1. a.id = b.id
    BY <1>1, <1>2
  <2> QED
    BY <2>1, OwnIds DEF TR!Ids, TR!ToSet
<1>4. d[a.id] \in Nat /\ zero[a.id] = 0 /\ IsFiniteSet(DOMAIN m[a.id]) /\ none[a.id] = <<>>
  BY <1>3 DEF Matching, Unmatched
<1> DEFINE x == TR!Score(a, C, m, d[a.id])
           y == TR!Score(a, C, none, 0)
           z == BoostOf(a)
<1>5. y <= x /\ (Unmatched(m, C) => x <= y + 30)
  BY <1>4, ScoreRises
<1>6. x \in Int /\ y \in Int /\ z \in Int
  <2>1. IsFiniteSet(DOMAIN none[a.id])
    <3>1. DOMAIN none[a.id] = {}
      BY <1>4
    <3> QED
      BY <3>1, FS_EmptySet
  <2>2. x \in 0..100 /\ y \in 0..100
    <3>1. x \in 0..100
      BY <1>4, ScoreRange
    <3>2. 0 \in Nat
      OBVIOUS
    <3>3. y \in 0..100
      BY <2>1, <3>2, ScoreRange
    <3> QED
      BY <3>1, <3>3
  <2>3. z \in Nat
    BY BoostIsNatural
  <2> HIDE DEF x, y, z
  <2> QED
    BY <2>2, <2>3
<1>7. r[k].score = TR!Least(100, x + z) /\ s[n].score = TR!Least(100, y + z)
  BY <1>1, <1>2, <1>3, <1>4
<1> HIDE DEF x, y, z
<1> QED
  BY <1>5, <1>6, <1>7 DEF TR!Least

-----------------------------------------------------------------------------
\* What is linked with S, directly or not: the least set that has S and no edge half.
Uncut(s, L) == \A e \in L : e \cap s # {} => e \subseteq s
Linked(s, L) == {x \in UNION L : \A t \in SUBSET UNION L : s \subseteq t /\ Uncut(t, L) => x \in t}

LEMMA ReachedUncut ==
  ASSUME NEW L, NEW s \in SUBSET UNION L
  PROVE  /\ TR!Reached(s, L) \in SUBSET UNION L /\ s \subseteq TR!Reached(s, L)
         /\ TR!Reached(s, L) = s <=> Uncut(s, L)
         /\ \A t : s \subseteq t /\ Uncut(t, L) => TR!Reached(s, L) \subseteq t
<1>1. TR!Reached(s, L) \in SUBSET UNION L /\ s \subseteq TR!Reached(s, L)
  BY DEF TR!Reached
<1>2. TR!Reached(s, L) = s <=> Uncut(s, L)
  BY DEF TR!Reached, Uncut
<1>3. ASSUME NEW t, s \subseteq t, Uncut(t, L) PROVE TR!Reached(s, L) \subseteq t
  BY <1>3 DEF TR!Reached, Uncut
<1> QED
  BY <1>1, <1>2, <1>3

LEMMA LinkedIsLeast ==
  ASSUME NEW L, NEW s \in SUBSET UNION L
  PROVE  /\ Linked(s, L) \in SUBSET UNION L /\ s \subseteq Linked(s, L) /\ Uncut(Linked(s, L), L)
         /\ \A t \in SUBSET UNION L : s \subseteq t /\ Uncut(t, L) => Linked(s, L) \subseteq t
         /\ Linked(s, L) = IF TR!Reached(s, L) = s THEN s ELSE Linked(TR!Reached(s, L), L)
<1>1. Linked(s, L) \in SUBSET UNION L /\ s \subseteq Linked(s, L)
  BY DEF Linked
<1>2. \A t \in SUBSET UNION L : s \subseteq t /\ Uncut(t, L) => Linked(s, L) \subseteq t
  BY DEF Linked
<1>3. Uncut(Linked(s, L), L)
  <2> SUFFICES ASSUME NEW e \in L, e \cap Linked(s, L) # {}, NEW x \in e PROVE x \in Linked(s, L)
    BY DEF Uncut
  <2>1. ASSUME NEW t \in SUBSET UNION L, s \subseteq t, Uncut(t, L) PROVE x \in t
    BY <1>2, <2>1 DEF Uncut
  <2>2. x \in UNION L
    OBVIOUS
  <2> QED
    BY <2>1, <2>2 DEF Linked
<1>4. CASE TR!Reached(s, L) = s
  <2>1. Linked(s, L) \subseteq s
    BY <1>2, <1>4, ReachedUncut
  <2> QED
    BY <1>1, <1>2, <1>3, <1>4, <2>1
<1>5. CASE TR!Reached(s, L) # s
  <2>1. \A t \in SUBSET UNION L : Uncut(t, L) => (s \subseteq t <=> TR!Reached(s, L) \subseteq t)
    BY ReachedUncut
  <2>2. Linked(s, L) = Linked(TR!Reached(s, L), L)
    BY <2>1 DEF Linked
  <2> QED
    BY <1>1, <1>2, <1>3, <1>5, <2>2
<1> QED
  BY <1>4, <1>5

\* So the search ends, whatever it begins with, at what is linked with it.
LEMMA ClustersAreLinked ==
  ASSUME NEW L, IsFiniteSet(UNION L)
  PROVE  TR!Clusters(L) = {Linked({id}, L) : id \in UNION L}
<1> DEFINE U == UNION L
           Filled(p) == [seen \in SUBSET UNION L |-> IF TR!Reached(seen, L) = seen THEN seen ELSE p[TR!Reached(seen, L)]]
           spread == CHOOSE p : p = Filled(p)
<1>1. TR!Clusters(L) = {spread[{id}] : id \in U}
  BY DEF TR!Clusters
<1>2. spread = Filled(spread)
  <2> DEFINE g == [seen \in SUBSET U |-> Linked(seen, L)]
  <2>1. \A seen \in SUBSET U : g[seen] = IF TR!Reached(seen, L) = seen THEN seen ELSE g[TR!Reached(seen, L)]
    <3> SUFFICES ASSUME NEW seen \in SUBSET U
                 PROVE  g[seen] = IF TR!Reached(seen, L) = seen THEN seen ELSE g[TR!Reached(seen, L)]
      OBVIOUS
    <3>1. TR!Reached(seen, L) \in SUBSET U
      BY ReachedUncut
    <3>2. Linked(seen, L) = IF TR!Reached(seen, L) = seen THEN seen ELSE Linked(TR!Reached(seen, L), L)
      BY LinkedIsLeast
    <3> HIDE DEF U
    <3> QED
      BY <3>1, <3>2
  <2>2. g = [seen \in SUBSET U |-> g[seen]]
    OBVIOUS
  <2> HIDE DEF g
  <2>3. Filled(g) = [seen \in SUBSET U |-> g[seen]]
    BY <2>1
  <2>4. g = Filled(g)
    <3> HIDE DEF Filled
    <3> QED
      BY <2>2, <2>3
  <2> HIDE DEF Filled
  <2> QED
    BY <2>4
<1> HIDE DEF spread
<1>3. \A seen \in SUBSET U : spread[seen] = IF TR!Reached(seen, L) = seen THEN seen ELSE spread[TR!Reached(seen, L)]
  BY <1>2
<1> HIDE DEF Filled
<1> DEFINE Right(s) == spread[U \ s] = Linked(U \ s, L)
           P == {s \in SUBSET U : \A t \in SUBSET s : Right(t)}
<1>4. ASSUME NEW s \in SUBSET U, \A t \in SUBSET s : t # s => Right(t) PROVE Right(s)
  <2> DEFINE seen == U \ s
             more == TR!Reached(seen, L)
  <2>0. seen \in SUBSET UNION L
    OBVIOUS
  <2>1. seen \in SUBSET U /\ more \in SUBSET U /\ seen \subseteq more
    BY <2>0, ReachedUncut
  <2>2. Linked(seen, L) = IF more = seen THEN seen ELSE Linked(more, L)
    BY <2>0, LinkedIsLeast
  <2>3. spread[seen] = IF more = seen THEN seen ELSE spread[more]
    BY <1>3, <2>1
  <2>4. more # seen => spread[more] = Linked(more, L)
    <3> HIDE DEF more
    <3> SUFFICES ASSUME more # seen PROVE spread[more] = Linked(more, L)
      OBVIOUS
    <3>1. s \ more \in SUBSET s /\ s \ more # s /\ U \ (s \ more) = more
      BY <2>1
    <3>2. Right(s \ more)
      BY <1>4, <3>1
    <3> QED
      BY <3>1, <3>2
  <2> HIDE DEF more, seen
  <2>5. spread[seen] = Linked(seen, L)
    BY <2>2, <2>3, <2>4
  <2> QED
    BY <2>5 DEF seen
<1>5. {} \in P
  <2>1. Right({})
    <3>1. {} \in SUBSET U /\ \A t \in SUBSET {} : t = {}
      OBVIOUS
    <3> HIDE DEF Right, U
    <3> QED
      BY <1>4, <3>1
  <2> HIDE DEF Right
  <2> QED
    BY <2>1
<1>6. ASSUME NEW s \in SUBSET U, s # {}, \A x \in s : s \ {x} \in P
      PROVE  s \in P
  <2>1. ASSUME NEW t \in SUBSET s, t # s PROVE Right(t)
    <3>1. PICK x \in s : x \notin t
      BY <2>1
    <3>2. t \in SUBSET (s \ {x}) /\ s \ {x} \in P
      BY <1>6, <3>1
    <3> HIDE DEF Right
    <3> QED
      BY <3>2
  <2>2. Right(s)
    <3> HIDE DEF Right
    <3> QED
      BY <1>4, <2>1
  <2> HIDE DEF Right
  <2> QED
    BY <2>1, <2>2
<1>7. SUBSET U \subseteq P
  <2> HIDE DEF P, U
  <2>1. IsFiniteSet(U)
    BY DEF U
  <2> QED
    BY <1>5, <1>6, <2>1, SetBySet
<1>8. \A id \in U : spread[{id}] = Linked({id}, L)
  <2> SUFFICES ASSUME NEW id \in U PROVE spread[{id}] = Linked({id}, L)
    OBVIOUS
  <2>1. U \ {id} \in P
    BY <1>7
  <2>2. Right(U \ {id})
    <3> HIDE DEF Right
    <3> QED
      BY <2>1
  <2>3. U \ (U \ {id}) = {id}
    OBVIOUS
  <2> QED
    BY <2>2, <2>3
<1> QED
  BY <1>1, <1>8

\* Clusters cut no edge and share no artefact.
LEMMA ClustersPart ==
  ASSUME NEW L, IsFiniteSet(UNION L)
  PROVE  /\ \A c, d \in TR!Clusters(L) : c # d => c \cap d = {}
         /\ \A c \in TR!Clusters(L) : \A e \in L : e \subseteq c \/ e \cap c = {}
<1> DEFINE U == UNION L
           From(id) == Linked({id}, L)
<1>1. TR!Clusters(L) = {From(id) : id \in U}
  BY ClustersAreLinked
<1>2. \A id \in U : From(id) \in SUBSET U /\ id \in From(id) /\ Uncut(From(id), L)
                    /\ \A t \in SUBSET U : id \in t /\ Uncut(t, L) => From(id) \subseteq t
  <2> SUFFICES ASSUME NEW id \in U
               PROVE  From(id) \in SUBSET U /\ id \in From(id) /\ Uncut(From(id), L)
                      /\ \A t \in SUBSET U : id \in t /\ Uncut(t, L) => From(id) \subseteq t
    OBVIOUS
  <2>1. {id} \in SUBSET UNION L
    OBVIOUS
  <2>2. /\ Linked({id}, L) \in SUBSET UNION L /\ {id} \subseteq Linked({id}, L) /\ Uncut(Linked({id}, L), L)
        /\ \A t \in SUBSET UNION L : {id} \subseteq t /\ Uncut(t, L) => Linked({id}, L) \subseteq t
    BY <2>1, LinkedIsLeast
  <2> QED
    BY <2>2
<1>3. \A s \in SUBSET U : Uncut(s, L) => Uncut(U \ s, L) /\ U \ s \in SUBSET U
  BY DEF Uncut
<1> HIDE DEF From, U
<1>4. \A x, z \in U : z \in From(x) => x \in From(z)
  <2> SUFFICES ASSUME NEW x \in U, NEW z \in U, z \in From(x), x \notin From(z) PROVE FALSE
    OBVIOUS
  <2>1. x \in U \ From(z) /\ U \ From(z) \in SUBSET U /\ Uncut(U \ From(z), L)
    BY <1>2, <1>3
  <2>2. From(x) \subseteq U \ From(z)
    BY <1>2, <2>1
  <2> QED
    BY <1>2, <2>2
<1>5. \A x, z \in U : z \in From(x) => From(x) = From(z)
  <2> SUFFICES ASSUME NEW x \in U, NEW z \in U, z \in From(x) PROVE From(x) = From(z)
    OBVIOUS
  <2>1. x \in From(z)
    BY <1>4
  <2>2. From(z) \subseteq From(x) /\ From(x) \subseteq From(z)
    BY <1>2, <2>1
  <2> QED
    BY <2>2
<1>6. ASSUME NEW c \in TR!Clusters(L), NEW d \in TR!Clusters(L), c # d PROVE c \cap d = {}
  <2>1. PICK x \in U : c = From(x)
    BY <1>1
  <2>2. PICK y \in U : d = From(y)
    BY <1>1
  <2>3. ASSUME NEW z, z \in c \cap d PROVE FALSE
    <3>1. z \in U
      BY <1>2, <2>1, <2>3
    <3> QED
      BY <1>5, <1>6, <2>1, <2>2, <2>3, <3>1
  <2> QED
    BY <2>3
<1>7. ASSUME NEW c \in TR!Clusters(L), NEW e \in L PROVE e \subseteq c \/ e \cap c = {}
  <2>1. PICK x \in U : c = From(x)
    BY <1>1
  <2>2. Uncut(c, L)
    BY <1>2, <2>1
  <2> QED
    BY <2>2 DEF Uncut
<1> QED
  BY <1>6, <1>7

-----------------------------------------------------------------------------
EntryType == [at : Nat, id : Nat]

LEMMA EntriesAre ==
  ASSUME NEW C, Own(C)
  PROVE  TR!EntrySet(C) \subseteq EntryType /\ IsFiniteSet(TR!EntrySet(C))
<1> DEFINE From(a) == {[at |-> t, id |-> a.id] : t \in a.times}
           of == [n \in DOMAIN C |-> From(C[n])]
<1>1. \A n \in DOMAIN C : C[n] \in TR!Artefact /\ IsFiniteSet(C[n].times)
  BY OwnIds DEF Own
<1>2. TR!EntrySet(C) = UNION {of[n] : n \in DOMAIN of}
  BY DEF TR!EntrySet, TR!ToSet
<1>3. ASSUME NEW n \in DOMAIN C PROVE IsFiniteSet(of[n]) /\ of[n] \subseteq EntryType
  <2>1. PICK a \in TR!Artefact : a = C[n] /\ IsFiniteSet(a.times)
    BY <1>1
  <2> DEFINE entry == [t \in a.times |-> [at |-> t, id |-> a.id]]
  <2>2. IsFiniteSet({entry[t] : t \in DOMAIN entry})
    <3>1. IsFiniteSet(DOMAIN entry)
      BY <2>1
    <3> HIDE DEF entry
    <3> QED
      BY <3>1, ValuesFinite
  <2>3. of[n] = {entry[t] : t \in DOMAIN entry}
    BY <2>1
  <2>4. a.times \subseteq Nat /\ a.id \in Nat
    BY DEF TR!Artefact
  <2>5. of[n] \subseteq EntryType
    BY <2>1, <2>4 DEF EntryType
  <2> QED
    BY <2>2, <2>3, <2>5
<1>4. IsFiniteSet(DOMAIN of)
  BY OwnIds
<1>5. DOMAIN of = DOMAIN C
  OBVIOUS
<1> HIDE DEF of
<1>6. IsFiniteSet({of[n] : n \in DOMAIN of})
  BY <1>4, ValuesFinite
<1>7. IsFiniteSet(UNION {of[n] : n \in DOMAIN of})
  BY <1>3, <1>5, <1>6, FS_UNION
<1> QED
  BY <1>2, <1>3, <1>5, <1>7

LEMMA EntriesInTime ==
  ASSUME NEW C, Own(C)
  PROVE  LET es == TR!Entries(C)  K == Cardinality(TR!EntrySet(C)) IN
         /\ K \in Nat /\ es \in [1..K -> TR!EntrySet(C)] /\ DOMAIN es = 1..K
         /\ \A n \in 1..K : es[n].at \in Nat
         /\ \A n \in 1..K : n + 1 \in 1..K => es[n].at <= es[n + 1].at
         /\ \A m, n \in 1..K : es[m] = es[n] => m = n
         /\ \A x \in TR!EntrySet(C) : \E n \in 1..K : es[n] = x
<1> DEFINE all == TR!EntrySet(C)
           K == Cardinality(all)
           before == {p \in all \X all : TR!Earlier(p[1], p[2])}
           es == TR!InLine(all, before)
<1>1. TR!Entries(C) = es
  BY DEF TR!Entries
<1>2. all \subseteq EntryType /\ IsFiniteSet(all)
  BY EntriesAre
<1>3. \A x, y \in all : <<x, y>> \in before <=> TR!Earlier(x, y)
  <2> SUFFICES ASSUME NEW x \in all, NEW y \in all PROVE <<x, y>> \in before <=> TR!Earlier(x, y)
    OBVIOUS
  <2>1. <<x, y>> \in all \X all /\ <<x, y>>[1] = x /\ <<x, y>>[2] = y
    OBVIOUS
  <2> HIDE DEF all
  <2> QED
    BY <2>1
<1>4. Strict(all, before)
  <2>1. \A x, y, z \in EntryType : ~TR!Earlier(x, x) /\ (x # y => TR!Earlier(x, y) \/ TR!Earlier(y, x))
                                   /\ (TR!Earlier(x, y) /\ TR!Earlier(y, z) => TR!Earlier(x, z))
    BY DEF TR!Earlier, EntryType
  <2> HIDE DEF all, before
  <2> QED
    BY <1>2, <1>3, <2>1 DEF Strict
<1>5. Lined(es, all, before)
  <2> HIDE DEF all, before
  <2> QED
    BY <1>2, <1>4, LinedUp
<1> HIDE DEF es, before, all
<1>6. K \in Nat /\ es \in [1..K -> all] /\ DOMAIN es = 1..K
  BY <1>5 DEF Lined
<1>7. \A m, n \in 1..K : m < n => <<es[m], es[n]>> \in before
  BY <1>5 DEF Lined
<1>8. (\A m, n \in 1..K : es[m] = es[n] => m = n) /\ \A x \in all : \E n \in 1..K : es[n] = x
  BY <1>5 DEF Lined
<1> HIDE DEF K
<1>9. \A n \in 1..K : es[n] \in all /\ es[n] \in EntryType
  BY <1>2, <1>6
<1>10. \A n \in 1..K : es[n].at \in Nat
  BY <1>9 DEF EntryType
<1>11. ASSUME NEW n \in 1..K, n + 1 \in 1..K PROVE es[n].at <= es[n + 1].at
  <2>1. <<es[n], es[n + 1]>> \in before /\ es[n] \in all /\ es[n + 1] \in all
    BY <1>6, <1>7, <1>9, <1>11
  <2>2. TR!Earlier(es[n], es[n + 1])
    BY <1>3, <2>1
  <2> QED
    BY <1>10, <1>11, <2>2 DEF TR!Earlier
<1> QED
  BY <1>1, <1>6, <1>8, <1>10, <1>11 DEF K, all

\* A window that moves on by its width covers what is at or after its start.
LEMMA WindowCovers ==
  ASSUME Window \in Nat \ {0}, NEW start \in Nat, NEW at \in Nat, start <= at
  PROVE  LET s == TR!MovedOn(start, at) IN s \in Nat /\ start <= s /\ s <= at /\ at < s + Window
<1> DEFINE d == at - start
           q == d \div Window
<1>1. d \in Nat
  OBVIOUS
<1>2. q \in Nat /\ q * Window <= d /\ d < q * Window + Window /\ q * Window \in Nat
  <2> HIDE DEF d
  <2>1. q \in Nat /\ d % Window \in 0..(Window - 1)
    BY <1>1
  <2>2. d = (Window * q) + (d % Window)
    BY <1>1
  <2>3. Window * q = q * Window /\ q * Window \in Nat
    <3> HIDE DEF q
    <3> QED
      BY <2>1
  <2> HIDE DEF q
  <2> QED
    BY <1>1, <2>1, <2>2, <2>3
<1>3. TR!MovedOn(start, at) = start + q * Window
  BY DEF TR!MovedOn
<1> DEFINE r == q * Window
<1>4. r \in Nat /\ r <= at - start /\ at - start < r + Window
  BY <1>2
<1> HIDE DEF r
<1>5. start + r \in Nat /\ start <= start + r /\ start + r <= at /\ at < (start + r) + Window
  BY <1>4
<1> QED
  BY <1>3, <1>5 DEF r

\* Windows hold every entry once, none outside its window.
LEMMA WindowsPart ==
  ASSUME NEW C, Own(C), Window \in Nat \ {0}
  PROVE  LET windows == TR!Windows(C) IN
         /\ UNION {w.entries : w \in windows} = TR!EntrySet(C)
         /\ \A v, w \in windows : v # w => v.entries \cap w.entries = {}
         /\ \A w \in windows : \A x \in w.entries : w.start <= x.at /\ x.at < w.start + Window
<1> DEFINE es == TR!Entries(C)
           K == Cardinality(TR!EntrySet(C))
           Filled(p) == [n \in DOMAIN es |-> IF n = 1 THEN es[1].at ELSE TR!MovedOn(p[n - 1], es[n].at)]
           start == CHOOSE p : p = Filled(p)
           From(n) == [start |-> start[n], entries |-> {es[m] : m \in {k \in DOMAIN es : start[k] = start[n]}}]
<1>1. TR!Windows(C) = {From(n) : n \in DOMAIN es}
  BY DEF TR!Windows
<1>2. /\ K \in Nat /\ es \in [1..K -> TR!EntrySet(C)] /\ DOMAIN es = 1..K
      /\ \A n \in 1..K : es[n].at \in Nat
      /\ \A n \in 1..K : n + 1 \in 1..K => es[n].at <= es[n + 1].at
      /\ \A m, n \in 1..K : es[m] = es[n] => m = n
      /\ \A x \in TR!EntrySet(C) : \E n \in 1..K : es[n] = x
  BY EntriesInTime
<1> HIDE DEF es, K
<1>3. start = Filled(start)
  <2>1. CASE K = 0
    <3>1. DOMAIN es = {}
      BY <1>2, <2>1
    <3> DEFINE none == [n \in {} |-> 0]
    <3>2. none = Filled(none)
      BY <3>1
    <3> HIDE DEF Filled
    <3> QED
      BY <3>2
  <2>2. CASE K # 0
    <3> DEFINE h == [u \in (1..(K - 1)) \X Int |-> TR!MovedOn(u[2], es[u[1] + 1].at)]
               first == es[1].at
    <3>1. K - 1 \in Nat /\ 1 \in 1..K /\ first \in Int
      BY <1>2, <2>2
    <3>2. ASSUME NEW n \in 1..(K - 1), NEW t \in Int PROVE TR!MovedOn(t, es[n + 1].at) \in Int
      <4>1. PICK at \in Nat : at = es[n + 1].at
        BY <1>2
      <4>2. (at - t) \div Window \in Int
        OBVIOUS
      <4>3. ((at - t) \div Window) * Window \in Int
        BY <4>2
      <4> QED
        BY <4>1, <4>3 DEF TR!MovedOn
    <3>3. h \in [(1..(K - 1)) \X Int -> Int]
      BY <3>2
    <3>4. \A n \in 1..(K - 1) : \A t \in Int : h[<<n, t>>] = TR!MovedOn(t, es[n + 1].at)
      OBVIOUS
    <3> HIDE DEF h, first
    <3>5. PICK g \in [0..(K - 1) -> Int] : Repeats(g, first, h, K - 1)
      BY <3>1, <3>3, Repeated
    <3> DEFINE f == [n \in 1..K |-> g[n - 1]]
    <3>6. \A n \in 1..K : f[n] = IF n = 1 THEN es[1].at ELSE TR!MovedOn(f[n - 1], es[n].at)
      <4> SUFFICES ASSUME NEW n \in 1..K PROVE f[n] = IF n = 1 THEN es[1].at ELSE TR!MovedOn(f[n - 1], es[n].at)
        OBVIOUS
      <4>1. CASE n = 1
        BY <3>5, <4>1 DEF Repeats, first
      <4>2. CASE n # 1
        <5>1. n - 1 \in 1..(K - 1) /\ n - 1 \in 1..K /\ (n - 1) + 1 = n /\ (n - 1) - 1 \in 0..(K - 1)
          BY <1>2, <4>2
        <5>2. g[n - 1] = h[<<n - 1, g[(n - 1) - 1]>>] /\ g[(n - 1) - 1] \in Int
          BY <3>5, <5>1 DEF Repeats
        <5>3. g[n - 1] = TR!MovedOn(g[(n - 1) - 1], es[n].at)
          BY <3>4, <5>1, <5>2
        <5>4. f[n] = g[n - 1] /\ f[n - 1] = g[(n - 1) - 1]
          BY <5>1
        <5> QED
          BY <4>2, <5>3, <5>4
      <4> QED
        BY <4>1, <4>2
    <3>7. f = [n \in 1..K |-> f[n]]
      OBVIOUS
    <3> HIDE DEF f
    <3>8. Filled(f) = [n \in 1..K |-> f[n]]
      BY <1>2, <3>6
    <3>9. f = Filled(f)
      <4> HIDE DEF Filled
      <4> QED
        BY <3>7, <3>8
    <3> HIDE DEF Filled
    <3> QED
      BY <3>9
  <2> HIDE DEF Filled
  <2> QED
    BY <2>1, <2>2
<1> HIDE DEF start
<1>4. \A n \in 1..K : start[n] = IF n = 1 THEN es[1].at ELSE TR!MovedOn(start[n - 1], es[n].at)
  BY <1>2, <1>3
<1> HIDE DEF Filled
<1> DEFINE Covers(n) == start[n] \in Nat /\ start[n] <= es[n].at /\ es[n].at < start[n] + Window
           S == {n \in 0..K : n = 0 \/ Covers(n)}
<1>5. \A n \in 1..K : Covers(n)
  <2>1. 0 \in S
    BY <1>2
  <2>2. ASSUME NEW n \in 0..(K - 1), n \in S PROVE n + 1 \in S
    <3>1. n + 1 \in 1..K /\ n + 1 \in 0..K /\ (n + 1) - 1 = n
      BY <1>2
    <3>2. CASE n = 0
      <4>1. start[1] = es[1].at /\ es[1].at \in Nat
        BY <1>2, <1>4, <3>1, <3>2
      <4>2. Covers(1)
        BY <4>1
      <4> HIDE DEF Covers
      <4> QED
        BY <3>1, <3>2, <4>2
    <3>3. CASE n # 0
      <4>1. n \in 1..K /\ Covers(n)
        <5> HIDE DEF Covers
        <5> QED
          BY <1>2, <2>2, <3>3
      <4>2. es[n].at <= es[n + 1].at /\ es[n].at \in Nat /\ es[n + 1].at \in Nat
        BY <1>2, <3>1, <4>1
      <4>3. start[n] \in Nat /\ start[n] <= es[n + 1].at
        BY <4>1, <4>2
      <4>4. start[n + 1] = TR!MovedOn(start[n], es[n + 1].at)
        BY <1>4, <3>1, <3>3
      <4>5. LET s == TR!MovedOn(start[n], es[n + 1].at) IN s \in Nat /\ start[n] <= s /\ s <= es[n + 1].at /\ es[n + 1].at < s + Window
        BY <4>2, <4>3, WindowCovers
      <4>6. Covers(n + 1)
        BY <4>4, <4>5
      <4> HIDE DEF Covers
      <4> QED
        BY <3>1, <4>6
    <3> QED
      BY <3>2, <3>3
  <2> HIDE DEF Covers
  <2>3. 0..K \subseteq S
    <3> HIDE DEF S
    <3> QED
      BY <1>2, <2>1, <2>2, StepByStep
  <2>4. \A n \in 1..K : n \in 0..K /\ n # 0
    BY <1>2
  <2> QED
    BY <2>3, <2>4
<1>6. \A n \in 1..K : From(n).start = start[n] /\ From(n).entries = {es[m] : m \in {k \in 1..K : start[k] = start[n]}}
  BY <1>2
<1> HIDE DEF From
<1>7. UNION {w.entries : w \in TR!Windows(C)} = TR!EntrySet(C)
  <2>1. ASSUME NEW x \in TR!EntrySet(C) PROVE \E w \in TR!Windows(C) : x \in w.entries
    <3>1. PICK n \in 1..K : es[n] = x
      BY <1>2
    <3>2. From(n) \in TR!Windows(C) /\ x \in From(n).entries
      BY <1>1, <1>2, <1>6, <3>1
    <3> QED
      BY <3>2
  <2>2. ASSUME NEW w \in TR!Windows(C), NEW x \in w.entries PROVE x \in TR!EntrySet(C)
    <3>1. PICK n \in 1..K : w = From(n)
      BY <1>1, <1>2
    <3>2. PICK m \in 1..K : x = es[m]
      BY <1>6, <3>1
    <3> QED
      BY <1>2, <3>2
  <2> QED
    BY <2>1, <2>2
<1>8. ASSUME NEW v \in TR!Windows(C), NEW w \in TR!Windows(C), v # w PROVE v.entries \cap w.entries = {}
  <2>1. PICK m \in 1..K : v = From(m)
    BY <1>1, <1>2
  <2>2. PICK n \in 1..K : w = From(n)
    BY <1>1, <1>2
  <2>3. start[m] # start[n]
    BY <1>8, <2>1, <2>2 DEF From
  <2>4. ASSUME NEW x, x \in v.entries, x \in w.entries PROVE FALSE
    <3>1. PICK i \in 1..K : x = es[i] /\ start[i] = start[m]
      BY <1>6, <2>1, <2>4
    <3>2. PICK j \in 1..K : x = es[j] /\ start[j] = start[n]
      BY <1>6, <2>2, <2>4
    <3>3. i = j
      BY <1>2, <3>1, <3>2
    <3> QED
      BY <2>3, <3>1, <3>2, <3>3
  <2> QED
    BY <2>4
<1>9. ASSUME NEW w \in TR!Windows(C), NEW x \in w.entries PROVE w.start <= x.at /\ x.at < w.start + Window
  <2>1. PICK n \in 1..K : w = From(n)
    BY <1>1, <1>2
  <2>2. PICK i \in 1..K : x = es[i] /\ start[i] = start[n]
    BY <1>6, <2>1
  <2> QED
    BY <1>5, <1>6, <2>1, <2>2
<1> QED
  BY <1>7, <1>8, <1>9

-----------------------------------------------------------------------------
\* The levels are five, and every item is counted at its own.
LEMMA LevelsAreFive ==
  /\ DOMAIN TR!Levels = 1..5
  /\ \A k, n \in 1..5 : TR!Levels[k] = TR!Levels[n] => k = n
  /\ \A x \in TR!ToSet(TR!Levels) : \E k \in 1..5 : x = TR!Levels[k]
<1>1. DOMAIN TR!Levels = 1..5
  BY DEF TR!Levels
<1>2. \A x \in TR!ToSet(TR!Levels) : \E k \in 1..5 : x = TR!Levels[k]
  BY <1>1 DEF TR!ToSet
<1>3. /\ TR!Levels[1] = "informational" /\ TR!Levels[2] = "low" /\ TR!Levels[3] = "medium"
      /\ TR!Levels[4] = "high" /\ TR!Levels[5] = "critical"
  BY DEF TR!Levels
<1>4. \A k \in 1..5 : k = 1 \/ k = 2 \/ k = 3 \/ k = 4 \/ k = 5
  OBVIOUS
<1>5. \A k, n \in 1..5 : TR!Levels[k] = TR!Levels[n] => k = n
  BY <1>3, <1>4
<1> QED
  BY <1>1, <1>2, <1>5

LEMMA LevelsCountAll ==
  ASSUME NEW N \in Nat, DOMAIN final = 1..N, \A n \in 1..N : final[n].level \in TR!ToSet(TR!Levels)
  PROVE  TR!SumFunction([n \in DOMAIN TR!Levels |-> TR!Count(TR!Levels[n])]) = N
<1> DEFINE A == 1..N
           part == [n \in A |-> CHOOSE k \in 1..5 : final[n].level = TR!Levels[k]]
           f == [k \in 1..5 |-> Cardinality({n \in A : part[n] = k})]
           g == [n \in DOMAIN TR!Levels |-> TR!Count(TR!Levels[n])]
<1>1. \A n \in A : part[n] \in 1..5 /\ final[n].level = TR!Levels[part[n]]
  <2> SUFFICES ASSUME NEW n \in A PROVE part[n] \in 1..5 /\ final[n].level = TR!Levels[part[n]]
    OBVIOUS
  <2>1. \E k \in 1..5 : final[n].level = TR!Levels[k]
    BY LevelsAreFive
  <2>2. part[n] = CHOOSE k \in 1..5 : final[n].level = TR!Levels[k]
    OBVIOUS
  <2> HIDE DEF part
  <2> QED
    BY <2>1, <2>2
<1> HIDE DEF part
<1>2. \A k \in 1..5 : {n \in A : part[n] = k} = {n \in A : final[n].level = TR!Levels[k]}
  BY <1>1, LevelsAreFive
<1>3. IsFiniteSet(A) /\ Cardinality(A) = N /\ IsFiniteSet(1..5)
  <2>1. IsFiniteSet(1..N) /\ Cardinality(1..N) = N
    BY FS_Interval
  <2>2. IsFiniteSet(1..5)
    <3>1. PICK k \in Int : k = 5
      OBVIOUS
    <3>2. IsFiniteSet(1..k)
      BY FS_Interval
    <3> QED
      BY <3>1, <3>2
  <2> QED
    BY <2>1, <2>2
<1>4. \A k \in 1..5 : TR!Count(TR!Levels[k]) = Cardinality({n \in A : part[n] = k})
  <2>1. \A k \in 1..5 : TR!Count(TR!Levels[k]) = Cardinality({n \in A : final[n].level = TR!Levels[k]})
    BY TriageSizes DEF TR!Count
  <2> QED
    BY <1>2, <2>1
<1>5. g = f
  BY <1>4, LevelsAreFive
<1>6. E!SumFunction(f) = Cardinality(A)
  <2>1. f = [k \in 1..5 |-> Cardinality({n \in A : part[n] = k})]
    OBVIOUS
  <2> HIDE DEF f, A
  <2> DEFINE K == 1..5
  <2>2. IsFiniteSet(K) /\ (\A n \in A : part[n] \in K) /\ f = [k \in K |-> Cardinality({n \in A : part[n] = k})]
    BY <1>1, <1>3, <2>1
  <2> HIDE DEF K
  <2> QED
    BY <1>3, <2>2, PartsAddUp
<1>7. TR!SumFunction(g) = N
  <2> HIDE DEF f, g, A
  <2> QED
    BY <1>3, <1>5, <1>6, TriageSums
<1> QED
  BY <1>7

LEMMA TopIsTop ==
  ASSUME NEW N \in Nat, DOMAIN final = 1..N, TopLimit \in Nat, \A n \in 1..N : final[n].score \in Int
  PROVE  LET top == TR!TopCritical IN
         /\ Len(top) = TR!Least(TopLimit, TR!Count("critical") + TR!Count("high"))
         /\ \A m, n \in DOMAIN top : m < n => TR!Grade(final[top[m]]) <= TR!Grade(final[top[n]])
<1> DEFINE bad == {n \in DOMAIN final : TR!Grade(final[n]) < 2}
           before == {p \in bad \X bad : TR!Listed(p[1], p[2])}
           all == TR!InLine(bad, before)
           B == Cardinality(bad)
           top == TR!TopCritical
<1>1. top = SubSeq(all, 1, TR!Least(TopLimit, Len(all)))
  BY DEF TR!TopCritical
<1>2. \A n \in 1..N : TR!Grade(final[n]) \in 0..2
  BY DEF TR!Grade
<1>3. bad \in SUBSET (1..N) /\ IsFiniteSet(bad)
  <2>1. bad \in SUBSET (1..N) /\ IsFiniteSet(1..N)
    BY FS_Interval
  <2> HIDE DEF bad
  <2> QED
    BY <2>1, FS_Subset
<1>4. B = TR!Count("critical") + TR!Count("high")
  <2> DEFINE c == {n \in 1..N : final[n].level = "critical"}
             h == {n \in 1..N : final[n].level = "high"}
  <2>1. bad = c \cup h /\ c \cap h = {}
    BY DEF TR!Grade
  <2>2. IsFiniteSet(c) /\ IsFiniteSet(h)
    BY FS_Interval, FS_Subset
  <2>3. TR!Count("critical") = Cardinality(c) /\ TR!Count("high") = Cardinality(h)
    BY TriageSizes DEF TR!Count
  <2> HIDE DEF c, h, bad
  <2>4. Cardinality(c) \in Nat /\ Cardinality(h) \in Nat /\ Cardinality(c \cap h) = 0
    BY <2>1, <2>2, FS_CardinalityType, FS_EmptySet
  <2>5. Cardinality(c \cup h) = Cardinality(c) + Cardinality(h) - Cardinality(c \cap h)
    BY <2>2, FS_Union
  <2> QED
    BY <2>1, <2>3, <2>4, <2>5
<1>5. \A m, n \in bad : <<m, n>> \in before <=> TR!Listed(m, n)
  <2> SUFFICES ASSUME NEW m \in bad, NEW n \in bad PROVE <<m, n>> \in before <=> TR!Listed(m, n)
    OBVIOUS
  <2>1. <<m, n>> \in bad \X bad /\ <<m, n>>[1] = m /\ <<m, n>>[2] = n
    OBVIOUS
  <2> HIDE DEF bad
  <2> QED
    BY <2>1
<1>6. \A m, n, k \in 1..N : /\ ~TR!Listed(m, m) /\ (m # n => TR!Listed(m, n) \/ TR!Listed(n, m))
                            /\ (TR!Listed(m, n) /\ TR!Listed(n, k) => TR!Listed(m, k))
                            /\ (TR!Listed(m, n) => TR!Grade(final[m]) <= TR!Grade(final[n]))
  <2> SUFFICES ASSUME NEW m \in 1..N, NEW n \in 1..N, NEW k \in 1..N
               PROVE  /\ ~TR!Listed(m, m) /\ (m # n => TR!Listed(m, n) \/ TR!Listed(n, m))
                      /\ (TR!Listed(m, n) /\ TR!Listed(n, k) => TR!Listed(m, k))
                      /\ (TR!Listed(m, n) => TR!Grade(final[m]) <= TR!Grade(final[n]))
    OBVIOUS
  <2>1. m \in Int /\ n \in Int /\ k \in Int
    OBVIOUS
  <2>2. TR!Grade(final[m]) \in Int /\ TR!Grade(final[n]) \in Int /\ TR!Grade(final[k]) \in Int
    BY <1>2
  <2>3. final[m].score \in Int /\ final[n].score \in Int /\ final[k].score \in Int
    OBVIOUS
  <2> QED
    BY <2>1, <2>2, <2>3 DEF TR!Listed, TR!Urgent
<1>7. Strict(bad, before)
  <2> HIDE DEF bad, before
  <2> QED
    BY <1>3, <1>5, <1>6 DEF Strict
<1>8. Lined(all, bad, before)
  <2> HIDE DEF bad, before
  <2> QED
    BY <1>3, <1>7, LinedUp
<1> HIDE DEF bad, before, all
<1>9. B \in Nat /\ all \in [1..B -> bad] /\ DOMAIN all = 1..B
      /\ \A m, n \in 1..B : m < n => <<all[m], all[n]>> \in before
  BY <1>8 DEF Lined
<1> HIDE DEF B
<1>10. all \in Seq(bad) /\ Len(all) = B
  BY <1>9
<1> DEFINE t == TR!Least(TopLimit, B)
<1>11. t \in 0..B
  BY <1>9 DEF TR!Least
<1>12. Len(top) = t /\ DOMAIN top = 1..t /\ \A n \in 1..t : top[n] = all[n]
  <2> HIDE DEF t
  <2>1. top = SubSeq(all, 1, t)
    BY <1>1, <1>10 DEF t
  <2> HIDE DEF top
  <2> QED
    BY <1>9, <1>10, <1>11, <2>1
<1> HIDE DEF top
<1>13. ASSUME NEW m \in DOMAIN top, NEW n \in DOMAIN top, m < n PROVE TR!Grade(final[top[m]]) <= TR!Grade(final[top[n]])
  <2>1. m \in 1..B /\ n \in 1..B /\ top[m] = all[m] /\ top[n] = all[n]
    BY <1>9, <1>11, <1>12
  <2>2. <<all[m], all[n]>> \in before /\ all[m] \in bad /\ all[n] \in bad
    BY <1>9, <1>13, <2>1
  <2>3. TR!Listed(all[m], all[n]) /\ all[m] \in 1..N /\ all[n] \in 1..N
    BY <1>3, <1>5, <2>2
  <2> QED
    BY <1>6, <2>1, <2>3
<1>14. Len(top) = TR!Least(TopLimit, TR!Count("critical") + TR!Count("high"))
  BY <1>4, <1>12
<1> QED
  BY <1>13, <1>14 DEF top

LEMMA FirstIsBest ==
  ASSUME NEW N \in Nat, DOMAIN final = 1..N, Len(final) = N, FindingsLimit \in Nat \ {0}, \A n \in 1..N : final[n].score \in Int,
         NEW n \in 1..N
  PROVE  final[TR!KeyFindings[1]].score >= final[n].score
<1> DEFINE o == TR!ByScore(final)
           t == TR!Least(FindingsLimit, N)
<1>1. TR!KeyFindings = SubSeq(o, 1, t)
  BY DEF TR!KeyFindings
<1>2. Sorted(o, final, N)
  BY ByScoreSorts
<1> HIDE DEF o
<1>3. o \in Seq(1..N) /\ Len(o) = N
  BY <1>2 DEF Sorted
<1>4. t \in 1..N
  BY DEF TR!Least
<1> HIDE DEF t
<1>5. TR!KeyFindings[1] = o[1]
  BY <1>1, <1>3, <1>4
<1>6. PICK k \in 1..N : o[k] = n
  BY <1>2 DEF Sorted
<1>7. CASE k = 1
  BY <1>5, <1>6, <1>7
<1>8. CASE k # 1
  <2>1. 1 \in 1..N /\ 1 < k
    BY <1>8
  <2>2. final[o[1]].score >= final[o[k]].score
    BY <1>2, <2>1 DEF Sorted
  <2> QED
    BY <1>5, <1>6, <2>2
<1> QED
  BY <1>7, <1>8

-----------------------------------------------------------------------------
\* What the input becomes, what was found about it, and what may be handed on.
Worked == {"processed", "evaluated", "done"}
Degrees == [id \in TR!Ids(current) |-> TR!Degree(id)]
NoMatches == [id \in TR!Ids(current) |-> <<>>]
NoLinks == [id \in TR!Ids(current) |-> 0]
Processed ==
  /\ current = TR!Deduplicate(TR!Standardise(TR!Categorise(input)))
  /\ links = IF settings.correlation THEN TR!Correlate(current) ELSE {}
  /\ iocs = IF settings.iocs THEN TR!Detect(current) ELSE NoMatches

TriageIInv ==
  /\ input \in Inputs /\ settings \in Settings /\ stage \in Worked \cup {"ready", "failed"}
  /\ TR!TypeOK
  /\ stage \in Worked => Processed
  /\ stage \in {"evaluated", "done"} => ranked = TR!Evaluate(current, iocs, Degrees)
  /\ stage = "done" => final \in {TR!OfModel, ranked, TR!FallbackRanking}

LEMMA DistinctCount ==
  ASSUME NEW f, NEW N \in Nat, DOMAIN f = 1..N, \A m, n \in 1..N : f[m] = f[n] => m = n
  PROVE  Cardinality({f[n] : n \in 1..N}) = N
<1> DEFINE T == {f[n] : n \in 1..N}
           g == [n \in 1..N |-> f[n]]
<1>1. g \in Surjection(1..N, T)
  BY DEF Surjection
<1>2. g \in Injection(1..N, T)
  BY DEF Injection, IsInjective
<1>3. IsFiniteSet(1..N) /\ Cardinality(1..N) = N
  BY FS_Interval
<1> HIDE DEF g, T
<1>4. Cardinality(T) = N
  BY <1>1, <1>2, <1>3, FS_Surjection
<1> QED
  BY <1>4 DEF T

LEMMA SetsAreTuples ==
  ASSUME NEW s, NEW X, s \in Seq(X)
  PROVE  DOMAIN s = 1..Len(s) /\ Len(s) \in Nat /\ TR!ToSet(s) = {s[n] : n \in 1..Len(s)} /\ TR!Ids(s) = {s[n].id : n \in 1..Len(s)}
BY DEF TR!ToSet, TR!Ids

\* The artefacts after processing.
LEMMA ProcessedIs ==
  ASSUME TR!Sensible, input \in Inputs, NEW D, D = TR!Deduplicate(TR!Standardise(TR!Categorise(input)))
  PROVE  /\ Own(D) /\ TR!Ids(D) \subseteq TR!Ids(input)
         /\ {TR!Content(a) : a \in TR!ToSet(D)} = {TR!Content(a) : a \in TR!ToSet(TR!Standardise(input))}
         /\ \A m, n \in DOMAIN D : TR!Content(D[m]) = TR!Content(D[n]) => m = n
<1> DEFINE S == TR!Standardise(input)
<1>1. Own(input)
  BY TriageSizes DEF Own, TR!Sensible
<1>2. Own(S) /\ TR!Ids(S) = TR!Ids(input)
  BY <1>1, StandardIsOwn
<1>3. D = TR!Deduplicate(S)
  BY DEF TR!Categorise
<1> HIDE DEF S
<1>4. /\ Own(D) /\ TR!ToSet(D) \subseteq TR!ToSet(S) /\ {TR!Content(a) : a \in TR!ToSet(D)} = {TR!Content(a) : a \in TR!ToSet(S)}
      /\ \A m, n \in DOMAIN D : TR!Content(D[m]) = TR!Content(D[n]) => m = n
  BY <1>2, <1>3, DeduplicatedIsOwn
<1>5. TR!Ids(D) \subseteq TR!Ids(S)
  BY <1>4 DEF TR!Ids, TR!ToSet
<1> QED
  BY <1>2, <1>4, <1>5 DEF S

LEMMA LinksJoin ==
  ASSUME TR!Sensible, input \in Inputs, settings \in Settings, Processed
  PROVE  /\ Own(current) /\ Joins(links, current) /\ Matching(iocs, current)
         /\ \A id \in TR!Ids(current) : Degrees[id] \in Nat
         /\ ~settings.iocs => Unmatched(iocs, current)
<1>1. Own(current)
  BY ProcessedIs DEF Processed
<1>2. Joins(links, current)
  BY <1>1, CorrelatedJoins DEF Processed, Joins
<1>3. \A id \in TR!Ids(current) : Degrees[id] \in Nat
  BY <1>1, <1>2, DegreesAreNumbers DEF Degrees
<1>4. settings.iocs \in BOOLEAN
  BY DEF TR!Sensible
<1>5. TR!Ids(current) = {a.id : a \in TR!ToSet(current)}
  BY DEF TR!Ids, TR!ToSet
<1>6. ASSUME NEW id \in TR!Ids(current) PROVE IsFiniteSet(DOMAIN iocs[id])
  <2>1. CASE settings.iocs
    <3>1. iocs[id] = TR!Scan(CHOOSE a \in TR!ToSet(current) : a.id = id)
      BY <1>5, <2>1 DEF Processed, TR!Detect
    <3> QED
      BY <3>1, ScansEnd
  <2>2. CASE ~settings.iocs
    <3>1. iocs[id] = <<>>
      BY <2>2 DEF Processed, NoMatches
    <3>2. DOMAIN iocs[id] = {}
      BY <3>1
    <3> QED
      BY <3>2, FS_EmptySet
  <2> QED
    BY <2>1, <2>2
<1>7. ~settings.iocs => Unmatched(iocs, current)
  BY <1>5 DEF Processed, NoMatches, Unmatched
<1> QED
  BY <1>1, <1>2, <1>3, <1>6, <1>7 DEF Matching

LEMMA NothingFound ==
  Matching(NoMatches, current) /\ Unmatched(NoMatches, current) /\ \A id \in TR!Ids(current) : NoLinks[id] = 0 /\ NoLinks[id] \in Nat
<1>1. \A id \in TR!Ids(current) : NoMatches[id] = <<>>
  BY DEF NoMatches
<1>2. \A id \in TR!Ids(current) : IsFiniteSet(DOMAIN NoMatches[id])
  <2> SUFFICES ASSUME NEW id \in TR!Ids(current) PROVE IsFiniteSet(DOMAIN NoMatches[id])
    OBVIOUS
  <2>1. DOMAIN NoMatches[id] = {}
    BY <1>1
  <2> QED
    BY <2>1, FS_EmptySet
<1>3. \A a \in TR!ToSet(current) : a.id \in TR!Ids(current)
  BY DEF TR!Ids, TR!ToSet
<1> QED
  BY <1>1, <1>2, <1>3 DEF Matching, Unmatched, NoLinks

LEMMA FallbackRanks ==
  ASSUME Own(current)
  PROVE  Ranks(TR!FallbackRanking, current) /\ ScoredBy(TR!FallbackRanking, current, NoMatches, NoLinks)
<1>1. TR!FallbackRanking = TR!Evaluate(current, NoMatches, NoLinks)
  BY DEF TR!FallbackRanking, NoMatches, NoLinks
<1> QED
  BY <1>1, NothingFound, EvaluateRanks

LEMMA ModelRanks ==
  ASSUME Own(current)
  PROVE  Ranks(TR!OfModel, current)
<1> DEFINE N == Len(current)
<1>1. N \in Nat /\ DOMAIN current = 1..N /\ \A m, n \in 1..N : current[m].id = current[n].id => m = n
  BY OwnIds DEF Own
<1>2. TR!OfModel = [n \in 1..N |-> [id |-> current[n].id, level |-> "medium", score |-> 50]]
  BY <1>1 DEF TR!OfModel
<1>3. DOMAIN TR!OfModel = 1..N /\ \A n \in 1..N : TR!OfModel[n].id = current[n].id /\ TR!OfModel[n].level = "medium" /\ TR!OfModel[n].score = 50
  BY <1>2
<1>4. Len(TR!OfModel) = N
  <2> DEFINE X == {TR!OfModel[n] : n \in 1..N}
  <2>1. TR!OfModel = [n \in 1..N |-> TR!OfModel[n]]
    BY <1>2
  <2>2. TR!OfModel \in Seq(X)
    BY <1>1, <2>1
  <2> QED
    BY <1>1, <1>3, <2>2
<1>5. "medium" \in TR!ToSet(TR!Levels)
  BY DEF TR!Levels, TR!ToSet
<1>6. TR!Ids(TR!OfModel) = TR!Ids(current)
  BY <1>1, <1>3 DEF TR!Ids
<1> HIDE DEF N
<1>7. Ranks(TR!OfModel, current)
  BY <1>1, <1>3, <1>4, <1>5, <1>6 DEF Ranks, N
<1> QED
  BY <1>7

-----------------------------------------------------------------------------
LEMMA TriageInitHolds == TR!Init /\ TR!Sensible => TriageIInv
<1> SUFFICES ASSUME TR!Init PROVE TriageIInv
  OBVIOUS
<1>1. DOMAIN ranked = {} /\ links = {} /\ stage = "ready" /\ input \in Inputs /\ settings \in Settings
  BY DEF TR!Init
<1>2. TR!TypeOK
  BY <1>1 DEF TR!TypeOK
<1> QED
  BY <1>1, <1>2 DEF TriageIInv, Worked

LEMMA ProcessKeeps == TR!Sensible /\ TriageIInv /\ TR!Process => TriageIInv'
<1> SUFFICES ASSUME TR!Sensible, TriageIInv, TR!Process PROVE TriageIInv'
  OBVIOUS
<1> DEFINE D == TR!Deduplicate(TR!Standardise(TR!Categorise(input)))
<1>1. /\ stage' = "processed" /\ current' = D
      /\ links' = IF settings.correlation THEN TR!Correlate(D) ELSE {}
      /\ iocs' = IF settings.iocs THEN TR!Detect(D) ELSE [id \in {a.id : a \in TR!ToSet(D)} |-> <<>>]
      /\ UNCHANGED <<settings, input, ranked, final, source>>
  BY DEF TR!Process
<1>2. Own(D)
  BY ProcessedIs DEF TriageIInv
<1>3. \A e \in links' : Cardinality(e) = 2
  BY <1>1, <1>2, CorrelatedJoins DEF Joins
<1>4. TR!TypeOK'
  BY <1>1, <1>3, TriageSizes DEF TriageIInv, TR!TypeOK
<1>5. TR!Ids(D) = {a.id : a \in TR!ToSet(D)}
  BY DEF TR!Ids, TR!ToSet
<1>6. NoMatches' = [id \in TR!Ids(D) |-> <<>>]
  BY <1>1 DEF NoMatches
<1>7. Processed'
  BY <1>1, <1>5, <1>6 DEF Processed
<1> QED
  BY <1>1, <1>4, <1>7 DEF TriageIInv, Worked

LEMMA EvaluateRulesKeeps == TR!Sensible /\ TriageIInv /\ TR!EvaluateRules => TriageIInv'
<1> SUFFICES ASSUME TR!Sensible, TriageIInv, TR!EvaluateRules PROVE TriageIInv'
  OBVIOUS
<1>1. /\ stage = "processed" /\ stage' = "evaluated" /\ ranked' = TR!Evaluate(current, iocs, Degrees)
      /\ UNCHANGED <<settings, input, current, links, iocs, final, source>>
  BY DEF TR!EvaluateRules, Degrees
<1>2. Processed /\ input \in Inputs /\ settings \in Settings
  BY <1>1 DEF TriageIInv, Worked
<1>3. Ranks(ranked', current)
  BY <1>1, <1>2, LinksJoin, EvaluateRanks
<1>4. TR!TypeOK'
  BY <1>1, <1>3 DEF TriageIInv, TR!TypeOK, Ranks
<1>5. Degrees' = Degrees
  BY <1>1 DEF Degrees, TR!Degree
<1>6. Processed'
  BY <1>1, <1>2 DEF Processed, NoMatches
<1> QED
  BY <1>1, <1>2, <1>4, <1>5, <1>6 DEF TriageIInv, Worked

LEMMA HandOnKeeps ==
  ASSUME TR!Sensible, TriageIInv, stage = "evaluated", NEW ranking \in {TR!OfModel, ranked, TR!FallbackRanking}, NEW from, TR!HandOn(ranking, from)
  PROVE  TriageIInv'
<1>1. stage' = "done" /\ final' = ranking /\ UNCHANGED <<settings, input, current, links, iocs, ranked>>
  BY DEF TR!HandOn
<1>2. Degrees' = Degrees /\ TR!OfModel' = TR!OfModel /\ TR!FallbackRanking' = TR!FallbackRanking /\ NoMatches' = NoMatches
  BY <1>1 DEF Degrees, TR!Degree, TR!OfModel, TR!FallbackRanking, NoMatches
<1>3. TR!TypeOK'
  BY <1>1 DEF TriageIInv, TR!TypeOK
<1>4. Processed'
  BY <1>1, <1>2 DEF TriageIInv, Processed, Worked
<1>5. ranked = TR!Evaluate(current, iocs, Degrees) /\ input \in Inputs /\ settings \in Settings
  BY DEF TriageIInv
<1> QED
  BY <1>1, <1>2, <1>3, <1>4, <1>5 DEF TriageIInv, Worked

LEMMA FailsKeeps == TriageIInv /\ TR!Fails => TriageIInv'
<1> SUFFICES ASSUME TriageIInv, TR!Fails PROVE TriageIInv'
  OBVIOUS
<1>1. stage' = "failed" /\ UNCHANGED <<settings, input, current, links, iocs, ranked, final, source>>
  BY DEF TR!Fails
<1>2. TR!TypeOK'
  BY <1>1 DEF TriageIInv, TR!TypeOK
<1> QED
  BY <1>1, <1>2 DEF TriageIInv, Worked

LEMMA TriageNextHolds == TR!Sensible /\ TriageIInv /\ [TR!Next]_TR!vars => TriageIInv'
<1> SUFFICES ASSUME TR!Sensible, TriageIInv, [TR!Next]_TR!vars PROVE TriageIInv'
  OBVIOUS
<1>1. CASE UNCHANGED TR!vars
  <2>1. UNCHANGED <<stage, settings, input, current, links, iocs, ranked, final, source>>
    BY <1>1 DEF TR!vars
  <2>2. Degrees' = Degrees /\ TR!OfModel' = TR!OfModel /\ TR!FallbackRanking' = TR!FallbackRanking /\ NoMatches' = NoMatches
    BY <2>1 DEF Degrees, TR!Degree, TR!OfModel, TR!FallbackRanking, NoMatches
  <2>3. TR!TypeOK' <=> TR!TypeOK
    BY <2>1 DEF TR!TypeOK
  <2>4. Processed' <=> Processed
    BY <2>1, <2>2 DEF Processed
  <2> QED
    BY <2>1, <2>2, <2>3, <2>4 DEF TriageIInv
<1>2. CASE TR!AskModel
  <2>1. stage = "evaluated" /\ (TR!HandOn(TR!OfModel, "llm") \/ TR!HandOn(ranked, "llm"))
    BY <1>2 DEF TR!AskModel
  <2> QED
    BY <2>1, HandOnKeeps
<1>3. CASE TR!UseRules
  <2>1. /\ stage = "evaluated"
        /\ \/ \E from : TR!HandOn(ranked, from)
           \/ \E from : TR!HandOn(TR!FallbackRanking, from)
    BY <1>3 DEF TR!UseRules
  <2> QED
    BY <2>1, HandOnKeeps
<1> QED
  BY <1>1, <1>2, <1>3, FailsKeeps, ProcessKeeps, EvaluateRulesKeeps DEF TR!Next

-----------------------------------------------------------------------------
LEMMA HandedOnRanks ==
  ASSUME TR!Sensible, TriageIInv, stage = "done"
  PROVE  Own(current) /\ Ranks(final, current)
<1>1. Processed /\ input \in Inputs /\ settings \in Settings /\ ranked = TR!Evaluate(current, iocs, Degrees)
      /\ final \in {TR!OfModel, ranked, TR!FallbackRanking}
  BY DEF TriageIInv, Worked
<1>2. Own(current) /\ Ranks(ranked, current)
  BY <1>1, LinksJoin, EvaluateRanks
<1> QED
  BY <1>1, <1>2, FallbackRanks, ModelRanks

LEMMA NothingIsLost == TR!Sensible /\ TriageIInv => TR!NothingLost
<1> SUFFICES ASSUME TR!Sensible, TriageIInv, stage = "done"
             PROVE  /\ Cardinality(TR!Ids(final)) = Len(final)
                    /\ TR!Ids(final) \subseteq TR!Ids(input)
                    /\ {TR!Content(a) : a \in TR!ToSet(TR!Standardise(input))} = {TR!Content(a) : a \in {b \in TR!ToSet(current) : b.id \in TR!Ids(final)}}
                    /\ Cardinality({TR!Content(a) : a \in TR!ToSet(TR!Standardise(input))}) = Len(final)
  BY TriageSizes DEF TR!NothingLost
<1> DEFINE N == Len(current)
<1>1. Own(current) /\ Ranks(final, current)
  BY HandedOnRanks
<1>2. /\ TR!Ids(current) \subseteq TR!Ids(input)
      /\ {TR!Content(a) : a \in TR!ToSet(current)} = {TR!Content(a) : a \in TR!ToSet(TR!Standardise(input))}
      /\ \A m, n \in DOMAIN current : TR!Content(current[m]) = TR!Content(current[n]) => m = n
  BY ProcessedIs DEF TriageIInv, Processed, Worked
<1>3. /\ DOMAIN current = 1..N /\ N \in Nat /\ TR!ToSet(current) = {current[n] : n \in 1..N}
      /\ TR!Ids(current) = {current[n].id : n \in 1..N}
  BY <1>1, SetsAreTuples DEF Own
<1>4. Len(final) = N /\ TR!Ids(final) = TR!Ids(current)
  BY <1>1 DEF Ranks
<1> HIDE DEF N
<1>5. Cardinality(TR!Ids(final)) = N
  <2> DEFINE f == [n \in 1..N |-> current[n].id]
  <2>1. DOMAIN f = 1..N /\ (\A m, n \in 1..N : f[m] = f[n] => m = n) /\ TR!Ids(current) = {f[n] : n \in 1..N}
    BY <1>1, <1>3 DEF Own
  <2> HIDE DEF f
  <2> QED
    BY <1>3, <1>4, <2>1, DistinctCount
<1>6. Cardinality({TR!Content(a) : a \in TR!ToSet(current)}) = N
  <2> DEFINE f == [n \in 1..N |-> TR!Content(current[n])]
  <2>1. DOMAIN f = 1..N /\ (\A m, n \in 1..N : f[m] = f[n] => m = n) /\ {TR!Content(a) : a \in TR!ToSet(current)} = {f[n] : n \in 1..N}
    BY <1>2, <1>3
  <2> HIDE DEF f
  <2> QED
    BY <1>3, <2>1, DistinctCount
<1>7. {b \in TR!ToSet(current) : b.id \in TR!Ids(final)} = TR!ToSet(current)
  BY <1>3, <1>4
<1> QED
  BY <1>2, <1>4, <1>5, <1>6, <1>7

LEMMA PartsArePartitions == TR!Sensible /\ TriageIInv => TR!Partitions
<1> SUFFICES ASSUME TR!Sensible, TriageIInv, stage = "processed" PROVE TR!Partitions
  BY DEF TR!Partitions
<1>1. Own(current) /\ Joins(links, current)
  BY LinksJoin DEF TriageIInv, Worked
<1>2. IsFiniteSet(UNION links) /\ Window \in Nat \ {0}
  BY <1>1, JoinsFinite DEF TR!Sensible
<1>3. /\ \A c, d \in TR!Clusters(links) : c # d => c \cap d = {}
      /\ \A c \in TR!Clusters(links) : \A e \in links : e \subseteq c \/ e \cap c = {}
  BY <1>2, ClustersPart
<1>4. LET windows == TR!Windows(current) IN
      /\ UNION {w.entries : w \in windows} = TR!EntrySet(current)
      /\ \A v, w \in windows : v # w => v.entries \cap w.entries = {}
      /\ \A w \in windows : \A x \in w.entries : w.start <= x.at /\ x.at < w.start + Window
  BY <1>1, <1>2, WindowsPart
<1> QED
  BY <1>3, <1>4 DEF TR!Partitions

LEMMA EvidenceRaises == TR!Sensible /\ TriageIInv => TR!MoreIsMore /\ TR!LinksCountLittle
<1> SUFFICES ASSUME TR!Sensible, TriageIInv, stage = "evaluated" PROVE TR!MoreIsMore /\ TR!LinksCountLittle
  BY DEF TR!MoreIsMore, TR!LinksCountLittle
<1>1. Processed /\ input \in Inputs /\ settings \in Settings /\ ranked = TR!Evaluate(current, iocs, Degrees)
  BY DEF TriageIInv, Worked
<1>2. /\ Own(current) /\ Matching(iocs, current) /\ (\A id \in TR!Ids(current) : Degrees[id] \in Nat)
      /\ ~settings.iocs => Unmatched(iocs, current)
  BY <1>1, LinksJoin
<1>3. ScoredBy(ranked, current, iocs, Degrees)
  BY <1>1, <1>2, EvaluateRanks
<1>4. ScoredBy(TR!FallbackRanking, current, NoMatches, NoLinks)
  BY <1>2, FallbackRanks
<1> DEFINE alone == TR!FallbackRanking
<1>5. ASSUME NEW n \in DOMAIN ranked, NEW m \in DOMAIN alone, ranked[n].id = alone[m].id
      PROVE  ranked[n].score >= alone[m].score /\ (~settings.iocs => ranked[n].score <= alone[m].score + 30)
  BY <1>2, <1>3, <1>4, <1>5, NothingFound, ScoresCompare
<1> HIDE DEF alone
<1>6. TR!MoreIsMore
  BY <1>5 DEF TR!MoreIsMore, alone
<1>7. TR!LinksCountLittle
  BY <1>5 DEF TR!LinksCountLittle, alone
<1> QED
  BY <1>6, <1>7

LEMMA SummaryIsFaithful == TR!Sensible /\ TriageIInv => TR!SummaryFaithful
<1> SUFFICES ASSUME TR!Sensible, TriageIInv, stage = "done" PROVE TR!SummaryFaithful
  BY DEF TR!SummaryFaithful
<1> DEFINE N == Len(current)
<1>1. Own(current) /\ Ranks(final, current) /\ N \in Nat
  BY HandedOnRanks, OwnIds
<1>2. DOMAIN final = 1..N /\ Len(final) = N /\ \A n \in 1..N : final[n].score \in Int /\ final[n].level \in TR!ToSet(TR!Levels)
  <2>1. DOMAIN final = 1..N /\ Len(final) = N
    BY <1>1 DEF Ranks
  <2>2. \A n \in DOMAIN final : final[n].score \in 0..100 /\ final[n].level \in TR!ToSet(TR!Levels)
    BY <1>1 DEF Ranks
  <2> HIDE DEF N
  <2>3. \A n \in 1..N : final[n].score \in Int
    <3>1. \A x \in 0..100 : x \in Int
      OBVIOUS
    <3> QED
      BY <2>1, <2>2, <3>1
  <2> QED
    BY <2>1, <2>2, <2>3
<1>3. TopLimit \in Nat /\ FindingsLimit \in Nat \ {0}
  BY DEF TR!Sensible
<1> HIDE DEF N
<1>4. TR!SumFunction([n \in DOMAIN TR!Levels |-> TR!Count(TR!Levels[n])]) = Len(final)
  BY <1>1, <1>2, LevelsCountAll
<1>5. LET top == TR!TopCritical IN
      /\ Len(top) = TR!Least(TopLimit, TR!Count("critical") + TR!Count("high"))
      /\ \A m, n \in DOMAIN top : m < n => TR!Grade(final[top[m]]) <= TR!Grade(final[top[n]])
  BY <1>1, <1>2, <1>3, TopIsTop
<1>6. \A n \in DOMAIN final : final[TR!KeyFindings[1]].score >= final[n].score
  BY <1>1, <1>2, <1>3, FirstIsBest
<1> QED
  BY <1>4, <1>5, <1>6 DEF TR!SummaryFaithful

-----------------------------------------------------------------------------
\* Whatever the artefacts and the switches are: what is handed on ranks every content
\* once; clusters cut no edge and windows share no entry; evidence never lowers a
\* score; and the summary counts every artefact and lists the worst first.
THEOREM TriageIsSafe == TR!Sensible /\ TR!Spec => []TR!TriageSafe
<1>1. TR!Sensible /\ TriageIInv => TR!TriageSafe
  BY NothingIsLost, PartsArePartitions, EvidenceRaises, SummaryIsFaithful DEF TR!TriageSafe, TriageIInv
<1>2. TR!Sensible /\ TR!Init => TriageIInv
  BY TriageInitHolds
<1>3. TR!Sensible /\ TriageIInv /\ [TR!Next]_TR!vars => TriageIInv'
  BY TriageNextHolds
<1> DEFINE Inv == TR!Sensible /\ TriageIInv
<1>4. TR!Sensible /\ TR!Init => Inv
  BY <1>2
<1>5. Inv /\ [TR!Next]_TR!vars => Inv'
  BY <1>3 DEF TR!Sensible
<1>6. Inv => TR!TriageSafe
  BY <1>1
<1> HIDE DEF Inv
<1> QED
  BY <1>4, <1>5, <1>6, PTL DEF TR!Spec
================================================================================
