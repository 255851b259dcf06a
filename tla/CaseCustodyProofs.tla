-------------------------- MODULE CaseCustodyProofs --------------------------
(***************************************************************************)
(* Proofs about CaseCustody for every set of cases, evidence and requests. *)
(* TypeOK is not inductive alone: that the next number is a number rests   *)
(* on the chain having a largest one, which is what NoGaps says of it.     *)
(***************************************************************************)
EXTENDS CaseCustody, TLAPS

IInv == TypeOK /\ CustodyInv

\* An element of a sequence over S is in S.
LEMMA Elements ==
  ASSUME NEW S, NEW s \in Seq(S)
  PROVE  \A i \in 1..Len(s) : s[i] \in S
  OBVIOUS

\* The call slots start with values of the right kinds.
LEMMA NoCallType == NoCall \in CallType
<1>1. /\ (CHOOSE c \in Cases : TRUE) \in Cases
      /\ (CHOOSE e \in Evidence : TRUE) \in Evidence
      /\ FirstLead \in Leads
  BY CaseAssumption DEF FirstLead
<1> QED
  BY <1>1 DEF NoCall, NoView, CallType, PCs, RowType, CaseStatuses

\* The initial states satisfy the inductive invariant.
LEMMA InitIInv == Init => IInv
<1> SUFFICES ASSUME Init PROVE IInv
  OBVIOUS
<1>1. TypeOK
  <2>1. row \in [Cases -> RowType]
    <3>1. FirstLead \in Leads
      BY CaseAssumption DEF FirstLead
    <3>2. NoView \in RowType
      BY DEF NoView, RowType, CaseStatuses
    <3>3. [NoView EXCEPT !.status = FirstStatus, !.lead = FirstLead,
                         !.leads = {FirstLead}] \in RowType
      BY <3>1, <3>2, CaseAssumption DEF RowType
    <3> QED
      BY <3>2, <3>3 DEF Init
  <2> QED
    BY <2>1, NoCallType DEF Init, TypeOK
<1>2. ASSUME NEW e \in Evidence
      PROVE  chain[e] = <<>> /\ Entries(e) = {} /\ Numbers(e) = {}
  BY <1>2 DEF Init, Entries, Numbers
<1>3. NoGaps
  <2> SUFFICES ASSUME NEW e \in Evidence
               PROVE  \E m \in 0..Len(chain[e]) : Numbers(e) = 1..m
    BY DEF NoGaps
  <2>1. 0 \in 0..Len(chain[e]) /\ Numbers(e) = 1..0
    BY <1>2
  <2> QED
    BY <2>1
<1>4. SealRestsOnAcquisition
  BY <1>2 DEF SealRestsOnAcquisition, HasRecord
<1>5. \A k \in Calls : OpInv(k) /\ NumberInv(k) /\ SealInv(k) /\ ListInv(k)
  BY DEF Init, NoCall, OpInv, NumberInv, SealInv, ListInv, Sealing, At
<1> QED
  BY <1>1, <1>3, <1>4, <1>5 DEF IInv, CustodyInv

-----------------------------------------------------------------------------
(* Chains *)

\* Numbers and entries are the record sets of a chain of the right type.
LEMMA ChainFacts ==
  ASSUME TypeOK, NEW e \in Evidence
  PROVE  /\ chain[e] \in Seq([n : Nat, action : Actions])
         /\ Len(chain[e]) \in Nat
         /\ Entries(e) \subseteq [n : Nat, action : Actions]
         /\ Numbers(e) = {r.n : r \in Entries(e)}
         /\ Numbers(e) = {} <=> chain[e] = <<>>
         /\ Entries(e) = {} <=> chain[e] = <<>>
<1>1. chain[e] \in Seq([n : Nat, action : Actions])
  BY DEF TypeOK
<1>2. DOMAIN chain[e] = 1..Len(chain[e]) /\ Len(chain[e]) \in Nat
  BY <1>1
<1>3. \A i \in 1..Len(chain[e]) : chain[e][i] \in [n : Nat, action : Actions]
  BY <1>1, Elements
<1>4. chain[e] # <<>> => 1 \in 1..Len(chain[e])
  BY <1>1, <1>2
<1>5. Entries(e) \subseteq [n : Nat, action : Actions]
  BY <1>2, <1>3 DEF Entries
<1>6. Numbers(e) = {r.n : r \in Entries(e)}
  BY DEF Numbers, Entries
<1>7. chain[e] = <<>> => Entries(e) = {}
  BY DEF Entries
<1>8. chain[e] # <<>> => Entries(e) # {}
  BY <1>2, <1>4 DEF Entries
<1>9. Entries(e) = {} <=> Numbers(e) = {}
  BY <1>6
<1> QED
  BY <1>1, <1>2, <1>5, <1>6, <1>7, <1>8, <1>9

\* The next number is one more than the numbers in use, which it extends.
LEMMA NextNumberFacts ==
  ASSUME TypeOK, NoGaps, NEW e \in Evidence
  PROVE  /\ NextNumber(e) \in Nat
         /\ NextNumber(e) >= 1
         /\ 1..(NextNumber(e) - 1) \subseteq Numbers(e)
<1>1. CASE chain[e] = <<>>
  BY <1>1 DEF NextNumber
<1>2. CASE chain[e] # <<>>
  <2>1. PICK m \in Nat : Numbers(e) = 1..m
    BY ChainFacts DEF NoGaps
  <2>2. m >= 1
    BY <1>2, <2>1, ChainFacts
  <2>3. IsTop(e, m) /\ \A x \in Numbers(e) : IsTop(e, x) => x = m
    <3>1. m \in Numbers(e) /\ \A x \in Numbers(e) : x \in Nat /\ x <= m
      BY <2>1, <2>2
    <3>2. ASSUME NEW x \in Numbers(e), IsTop(e, x) PROVE x = m
      <4>1. m <= x /\ x <= m /\ x \in Nat
        BY <3>1, <3>2 DEF IsTop
      <4> QED
        BY <4>1
    <3> QED
      BY <3>1, <3>2 DEF IsTop
  <2>4. m \in Numbers(e) /\ (CHOOSE n \in Numbers(e) : IsTop(e, n)) = m
    <3>1. m \in Numbers(e)
      BY <2>3 DEF IsTop
    <3> QED
      BY <2>3, <3>1
  <2>5. NextNumber(e) = m + 1
    BY <1>2, <2>4 DEF NextNumber
  <2> QED
    BY <2>1, <2>5
<1> QED
  BY <1>1, <1>2

\* An ACQUIRED record that a chain begins with has number 1.
LEMMA FirstIsOne ==
  ASSUME TypeOK, NoGaps, NEW e \in Evidence, "acquired" \in FirstActions(e)
  PROVE  Acquired(e)
<1>1. PICK r \in Entries(e) : IsBottom(e, r.n) /\ r.action = "acquired"
  BY DEF FirstActions
<1>2. PICK m \in Nat : Numbers(e) = 1..m
  BY ChainFacts DEF NoGaps
<1>3. r \in [n : Nat, action : Actions] /\ r.n \in 1..m
  BY <1>1, <1>2, ChainFacts DEF IsBottom
<1>4. r.n <= 1
  <2>1. 1 \in Numbers(e)
    BY <1>2, <1>3
  <2> QED
    BY <1>1, <2>1 DEF IsBottom
<1>5. r.n = 1
  BY <1>3, <1>4
<1>6. r = [n |-> 1, action |-> "acquired"]
  BY <1>1, <1>3, <1>5
<1> QED
  BY <1>1, <1>6 DEF Acquired

\* An insert adds its record, and its number, to the chain of its item.
LEMMA InsertFacts ==
  ASSUME TypeOK, NEW k \in Calls, InsertRecord(k), NEW e \in Evidence
  PROVE  LET r == [n |-> call[k].num, action |-> call[k].act]
         IN  /\ e # call[k].item => chain'[e] = chain[e]
             /\ e = call[k].item =>
                  /\ chain'[e] = Append(chain[e], r)
                  /\ Len(chain'[e]) = Len(chain[e]) + 1
                  /\ Entries(e)' = Entries(e) \cup {r}
                  /\ Numbers(e)' = Numbers(e) \cup {call[k].num}
<1> DEFINE r == [n |-> call[k].num, action |-> call[k].act]
<1>1. chain' = [chain EXCEPT ![call[k].item] = Append(@, r)]
  BY DEF InsertRecord
<1>2. e \in DOMAIN chain /\ chain[e] \in Seq([n : Nat, action : Actions])
  BY DEF TypeOK
<1>3. e # call[k].item => chain'[e] = chain[e]
  BY <1>1, <1>2
<1>4. ASSUME e = call[k].item
      PROVE  /\ chain'[e] = Append(chain[e], r)
             /\ Len(chain'[e]) = Len(chain[e]) + 1
             /\ Entries(e)' = Entries(e) \cup {r}
             /\ Numbers(e)' = Numbers(e) \cup {call[k].num}
  <2> DEFINE s == chain[e]
             t == Append(s, r)
  <2>1. chain'[e] = t
    BY <1>1, <1>2, <1>4
  <2> HIDE DEF r
  <2>2. /\ Len(t) = Len(s) + 1 /\ Len(s) \in Nat
        /\ DOMAIN s = 1..Len(s) /\ DOMAIN t = 1..(Len(s) + 1)
        /\ \A i \in 1..Len(s) : t[i] = s[i]
        /\ t[Len(s) + 1] = r
    BY <1>2
  <2>3. \A x : x \in {t[i] : i \in DOMAIN t}
              <=> x \in {s[i] : i \in DOMAIN s} \cup {r}
    <3>1. \A i \in DOMAIN t : i \in DOMAIN s \/ i = Len(s) + 1
      BY <2>2
    <3>2. \A i \in DOMAIN s : i \in DOMAIN t
      BY <2>2
    <3>3. Len(s) + 1 \in DOMAIN t
      BY <2>2
    <3> HIDE DEF s, t
    <3> QED
      BY <2>2, <3>1, <3>2, <3>3
  <2>4. Entries(e)' = Entries(e) \cup {r}
    BY <2>1, <2>3 DEF Entries
  <2>5. Numbers(e)' = {x.n : x \in Entries(e)'}
    BY DEF Numbers, Entries
  <2>6. Numbers(e) = {x.n : x \in Entries(e)}
    BY DEF Numbers, Entries
  <2>7. r.n = call[k].num
    BY DEF r
  <2>8. Numbers(e)' = Numbers(e) \cup {call[k].num}
    BY <2>4, <2>5, <2>6, <2>7
  <2> QED
    BY <2>1, <2>2, <2>4, <2>8
<1> QED
  BY <1>3, <1>4

-----------------------------------------------------------------------------
(* Types *)

\* Replacing one call's record by one of the right type keeps the type.
LEMMA CallTyped ==
  ASSUME TypeOK, NEW k \in Calls, NEW r \in CallType,
         call' = [call EXCEPT ![k] = r]
  PROVE  call' \in [Calls -> CallType]
  BY DEF TypeOK

\* A request that arrives fills its slot with typed values.
LEMMA BeginTypeOK ==
  ASSUME TypeOK, NEW k \in Calls, Begin(k)
  PROVE  TypeOK'
<1>1. UNCHANGED <<row, link, chain>>
  BY DEF Begin, BeginChange, BeginAssign, BeginAdd, BeginRegister, BeginAccess,
     BeginAnalyse, BeginRecord
<1>2. \E r \in CallType : call' = [call EXCEPT ![k] = r]
  <2>1. ASSUME NEW o \in Ops, NEW c \in Cases, BeginChange(k, o, c)
        PROVE  \E r \in CallType : call' = [call EXCEPT ![k] = r]
    <3>1. row[c] \in RowType /\ Linked(c) \in SUBSET Evidence
      BY DEF TypeOK, RowType, Linked
    <3>2. o \in AllOps /\ FirstStep[o] \in PCs
      BY <2>1, CaseAssumption DEF BeginChange, Target, FirstStep, PCs
    <3>3. [NoCall EXCEPT !.pc = FirstStep[o], !.op = o, !.case = c,
                         !.view = row[c], !.plan = Linked(c), !.todo = Linked(c)]
            \in CallType
      BY <3>1, <3>2, NoCallType DEF CallType
    <3> QED
      BY <2>1, <3>3 DEF BeginChange
  <2>2. ASSUME NEW c \in Cases, NEW u \in Leads, BeginAssign(k, c, u)
        PROVE  \E r \in CallType : call' = [call EXCEPT ![k] = r]
    <3>1. [NoCall EXCEPT !.pc = "assign", !.op = "assign", !.case = c, !.who = u]
            \in CallType
      BY NoCallType DEF CallType, PCs, AllOps
    <3> QED
      BY <2>2, <3>1 DEF BeginAssign
  <2>3. ASSUME NEW c \in Cases, NEW e \in Evidence, BeginAdd(k, c, e)
        PROVE  \E r \in CallType : call' = [call EXCEPT ![k] = r]
    <3>1. [NoCall EXCEPT !.pc = "link", !.op = "add", !.case = c, !.item = e]
            \in CallType
      BY NoCallType DEF CallType, PCs, AllOps
    <3> QED
      BY <2>3, <3>1 DEF BeginAdd
  <2>4. ASSUME NEW c \in Cases, BeginRegister(k, c)
        PROVE  \E r \in CallType : call' = [call EXCEPT ![k] = r]
    <3>1. [NoCall EXCEPT !.pc = "newRow", !.op = "register", !.case = c] \in CallType
      BY NoCallType DEF CallType, PCs, AllOps
    <3> QED
      BY <2>4, <3>1 DEF BeginRegister
  <2>5. ASSUME NEW e \in Evidence, BeginAccess(k, e) \/ BeginAnalyse(k, e)
        PROVE  \E r \in CallType : call' = [call EXCEPT ![k] = r]
    <3>1. /\ [NoCall EXCEPT !.pc = "base", !.op = "access", !.item = e,
                            !.act = "accessed"] \in CallType
          /\ [NoCall EXCEPT !.pc = "number", !.op = "analyse", !.item = e,
                            !.act = "analysed"] \in CallType
      BY NoCallType DEF CallType, PCs, AllOps, Actions
    <3> QED
      BY <2>5, <3>1 DEF BeginAccess, BeginAnalyse, BeginRecord
  <2> QED
    BY <2>1, <2>2, <2>3, <2>4, <2>5 DEF Begin
<1> QED
  BY <1>1, <1>2, CallTyped DEF TypeOK

\* A call's move to another await keeps the type of the calls.
LEMMA GotoTyped ==
  ASSUME TypeOK, NEW k \in Calls, NEW where \in PCs, Goto(k, where)
  PROVE  call' \in [Calls -> CallType]
<1>1. call[k] \in CallType
  BY DEF TypeOK
<1>2. [call[k] EXCEPT !.pc = where] \in CallType
  BY <1>1 DEF CallType
<1>3. call' = [call EXCEPT ![k] = [call[k] EXCEPT !.pc = where]]
  BY DEF Goto
<1> QED
  BY <1>2, <1>3, CallTyped

\* Each step of a call keeps the types.
LEMMA StepTypeOK ==
  ASSUME TypeOK, NoGaps, NEW k \in Calls, OpInv(k), CallStep(k)
  PROVE  TypeOK'
<1>1. /\ call[k] \in CallType
      /\ call[k].case \in Cases /\ call[k].item \in Evidence
      /\ call[k].view \in RowType
      /\ call[k].todo \in SUBSET Evidence /\ call[k].num \in Nat
      /\ call[k].act \in Actions \cup {"none"}
      /\ row[call[k].case] \in RowType /\ call[k].who \in Leads
  BY DEF TypeOK, CallType
<1>2. CASE Update(k)
  <2> DEFINE c == call[k].case
             now == [row[c] EXCEPT !.status = Target[call[k].op]]
  <2>1. Target[call[k].op] \in CaseStatuses
    BY <1>2 DEF Update, OpInv, Target, CaseStatuses
  <2>2. now \in RowType /\ [now EXCEPT !.reason = k] \in RowType
    BY <1>1, <2>1 DEF RowType
  <2>3. row' \in [Cases -> RowType]
    BY <1>1, <1>2, <2>2 DEF Update, TypeOK
  <2>4. call' \in [Calls -> CallType]
    <3>1. [call[k] EXCEPT !.pc = "resave", !.view = [now EXCEPT !.reason = k]]
            \in CallType
      BY <1>1, <2>2 DEF CallType, PCs
    <3>2. "done" \in PCs
      BY DEF PCs
    <3>3. CASE Goto(k, "done")
      BY <3>2, <3>3, GotoTyped
    <3>4. CASE call' = [call EXCEPT ![k] =
                  [call[k] EXCEPT !.pc = "resave", !.view = [now EXCEPT !.reason = k]]]
      BY <3>1, <3>4, CallTyped
    <3> QED
      BY <1>2, <3>3, <3>4 DEF Update
  <2> QED
    BY <1>2, <2>3, <2>4 DEF Update, TypeOK
<1>3. CASE Save(k) \/ Resave(k)
  <2>1. row' \in [Cases -> RowType]
    <3> DEFINE saved == [call[k].view EXCEPT
                           !.leads = call[k].view.leads \cup row[call[k].case].leads]
    <3>1. saved \in RowType
      BY <1>1 DEF RowType
    <3>2. row' = [row EXCEPT ![call[k].case] = saved]
      BY <1>3 DEF Save, Resave, SaveView
    <3> QED
      BY <3>1, <3>2 DEF TypeOK
  <2>2. call' \in [Calls -> CallType]
    <3>1. \E w \in {"done", "update"} : Goto(k, w)
      BY <1>3 DEF Save, Resave, SaveView
    <3> QED
      BY <3>1, GotoTyped DEF PCs
  <2> QED
    BY <1>3, <2>1, <2>2 DEF Save, Resave, SaveView, TypeOK
<1>4. CASE AddLead(k)
  <2>1. row' \in [Cases -> RowType]
    <3> DEFINE led == [row[call[k].case] EXCEPT
                         !.lead = call[k].who,
                         !.leads = row[call[k].case].leads \cup {call[k].who}]
    <3>1. led \in RowType
      BY <1>1 DEF RowType
    <3>2. UNCHANGED row \/ row' = [row EXCEPT ![call[k].case] = led]
      BY <1>4 DEF AddLead
    <3> QED
      BY <3>1, <3>2 DEF TypeOK
  <2>2. call' \in [Calls -> CallType]
    <3>1. \E w \in {"failed", "refresh"} : Goto(k, w)
      BY <1>4 DEF AddLead
    <3> QED
      BY <3>1, GotoTyped DEF PCs
  <2> QED
    BY <1>4, <2>1, <2>2 DEF AddLead, TypeOK
<1>5. CASE RefreshLead(k)
  <2> DEFINE r == [call[k] EXCEPT !.pc = "save",
                    !.view = [row[call[k].case] EXCEPT !.lead = call[k].who]]
  <2>1. r \in CallType
    BY <1>1 DEF CallType, RowType, PCs
  <2>2. Goto(k, "done") \/ call' = [call EXCEPT ![k] = r]
    BY <1>5 DEF RefreshLead
  <2>3. call' \in [Calls -> CallType]
    BY <2>1, <2>2, GotoTyped, CallTyped DEF PCs
  <2> QED
    BY <1>5, <2>3 DEF RefreshLead, TypeOK
<1>6. ASSUME NEW e \in Evidence, NewRow(k, e) PROVE TypeOK'
  <2> DEFINE r == [call[k] EXCEPT !.pc = "count", !.act = "acquired", !.item = e]
  <2>1. r \in CallType
    BY <1>1 DEF CallType, PCs, Actions
  <2>2. call' = [call EXCEPT ![k] = r]
    BY <1>6 DEF NewRow
  <2>3. call' \in [Calls -> CallType]
    BY <2>1, <2>2, CallTyped
  <2> QED
    BY <1>6, <2>3 DEF NewRow, Register, TypeOK
<1>7. CASE Link(k)
  <2>1. call' \in [Calls -> CallType]
    <3>1. \E w \in {"look", "done", "failed"} : Goto(k, w)
      BY <1>7 DEF Link
    <3> QED
      BY <3>1, GotoTyped DEF PCs
  <2> QED
    BY <1>1, <1>7, <2>1 DEF Link, TypeOK
<1>8. CASE LookAtAdded(k)
  <2> DEFINE r == [call[k] EXCEPT !.pc = "count", !.act = "acquired"]
  <2>1. r \in CallType
    BY <1>1 DEF CallType, PCs, Actions
  <2>2. Goto(k, "done") \/ call' = [call EXCEPT ![k] = r]
    BY <1>8 DEF LookAtAdded
  <2>3. call' \in [Calls -> CallType]
    BY <2>1, <2>2, GotoTyped, CallTyped DEF PCs
  <2> QED
    BY <1>8, <2>3 DEF LookAtAdded, TypeOK
<1>9. ASSUME NEW e \in Evidence, SkipSealed(k, e) \/ TakeOpen(k, e)
      PROVE  TypeOK'
  <2>1. \E r \in CallType : call' = [call EXCEPT ![k] = r]
    <3>1. CASE SkipSealed(k, e)
      <4>1. [call[k] EXCEPT !.todo = @ \ {e}] \in CallType
        BY <1>1 DEF CallType
      <4> QED
        BY <3>1, <4>1 DEF SkipSealed
    <3>2. CASE TakeOpen(k, e)
      <4>1. \A w \in {"count", "base"}, a \in {"acquired", "sealed"} :
              [call[k] EXCEPT !.item = e, !.pc = w, !.act = a] \in CallType
        BY <1>1 DEF CallType, PCs, Actions
      <4>2. \E w \in {"count", "base"}, a \in {"acquired", "sealed"} :
              call' = [call EXCEPT ![k] =
                         [call[k] EXCEPT !.item = e, !.pc = w, !.act = a]]
        BY <3>2 DEF TakeOpen
      <4> QED
        BY <4>1, <4>2
    <3> QED
      BY <1>9, <3>1, <3>2
  <2>2. call' \in [Calls -> CallType]
    BY <2>1, CallTyped
  <2> QED
    BY <1>9, <2>2 DEF SkipSealed, TakeOpen, TypeOK
<1>10. CASE AllSealed(k)
  <2> DEFINE r == [call[k] EXCEPT !.pc = "save", !.view.status = "closed",
                                  !.view.reason = k]
  <2>1. r \in CallType
    BY <1>1 DEF CallType, PCs, RowType, CaseStatuses
  <2>2. Goto(k, "update") \/ call' = [call EXCEPT ![k] = r]
    BY <1>10 DEF AllSealed
  <2>3. call' \in [Calls -> CallType]
    BY <2>1, <2>2, GotoTyped, CallTyped DEF PCs
  <2> QED
    BY <1>10, <2>3 DEF AllSealed, TypeOK
<1>11. CASE CountRecords(k) \/ CheckBaseline(k) \/ Abort(k)
  <2>1. \E w \in {"number", "failed"} : Goto(k, w)
    BY <1>11 DEF CountRecords, CheckBaseline, Abort
  <2>2. call' \in [Calls -> CallType]
    BY <2>1, GotoTyped DEF PCs
  <2> QED
    BY <1>11, <2>2 DEF CountRecords, CheckBaseline, Abort, TypeOK
<1>12. CASE ReadNumber(k)
  <2> DEFINE r == [call[k] EXCEPT !.num = NextNumber(call[k].item), !.pc = "insert"]
  <2>1. NextNumber(call[k].item) \in Nat
    BY <1>1, NextNumberFacts
  <2>2. r \in CallType
    BY <1>1, <2>1 DEF CallType, PCs
  <2>3. call' \in [Calls -> CallType]
    BY <1>12, <2>2, CallTyped DEF ReadNumber
  <2> QED
    BY <1>12, <2>3 DEF ReadNumber, TypeOK
<1>13. CASE InsertRecord(k)
  <2> DEFINE x == [n |-> call[k].num, action |-> call[k].act]
  <2>1. x \in [n : Nat, action : Actions]
    BY <1>1, <1>13 DEF InsertRecord, OpInv, At
  <2>2. chain' \in [Evidence -> Seq([n : Nat, action : Actions])]
    <3>1. chain[call[k].item] \in Seq([n : Nat, action : Actions])
      BY <1>1 DEF TypeOK
    <3>2. Append(chain[call[k].item], x) \in Seq([n : Nat, action : Actions])
      <4> HIDE DEF x
      <4> QED
        BY <2>1, <3>1
    <3>3. chain' = [chain EXCEPT ![call[k].item] = Append(chain[call[k].item], x)]
      BY <1>13 DEF InsertRecord
    <3> QED
      BY <3>2, <3>3 DEF TypeOK
  <2>3. AfterRecord(k) \in CallType
    <3>1. /\ [call[k] EXCEPT !.pc = "sealing", !.todo = @ \ {call[k].item}] \in CallType
          /\ [call[k] EXCEPT !.pc = "base", !.act = "sealed"] \in CallType
          /\ [call[k] EXCEPT !.pc = "link"] \in CallType
          /\ [call[k] EXCEPT !.pc = "done"] \in CallType
      BY <1>1 DEF CallType, PCs, Actions
    <3> QED
      BY <3>1 DEF AfterRecord
  <2>4. call' \in [Calls -> CallType]
    BY <1>13, <2>3, CallTyped DEF InsertRecord
  <2> QED
    BY <1>13, <2>2, <2>4 DEF InsertRecord, TypeOK
<1> QED
  BY <1>2, <1>3, <1>4, <1>5, <1>6, <1>7, <1>8, <1>9, <1>10, <1>11, <1>12, <1>13
     DEF CallStep

-----------------------------------------------------------------------------
(* The invariant *)

CallInv(k) == OpInv(k) /\ NumberInv(k) /\ SealInv(k) /\ ListInv(k)

\* An item that was deleted does not come back.
GoneStays == \A e \in Evidence : link[e] = "deleted" => link'[e] = "deleted"

\* A step that inserts no record.
Quiet == UNCHANGED chain /\ GoneStays

\* Chains only grow.
Grows ==
  /\ GoneStays
  /\ \A e \in Evidence : /\ Entries(e) \subseteq Entries(e)'
                         /\ Numbers(e) \subseteq Numbers(e)'
                         /\ chain[e] # <<>> => chain'[e] # <<>>

\* A call that a step leaves alone keeps its part of the invariant.
LEMMA OthersKeep ==
  ASSUME TypeOK, Grows, NEW x \in Calls, CallInv(x), call'[x] = call[x]
  PROVE  CallInv(x)'
<1>1. call[x].item \in Evidence /\ call[x].plan \in SUBSET Evidence
  BY DEF TypeOK, CallType
<1>2. OpInv(x)'
  BY DEF CallInv, OpInv, At, Sealing
<1>3. NumberInv(x)'
  BY <1>1 DEF CallInv, NumberInv, At, Grows
<1>4. SealInv(x)'
  BY <1>1 DEF CallInv, SealInv, At, Grows, Acquired
<1>5. ListInv(x)'
  BY <1>1 DEF CallInv, ListInv, Sealing, Grows, GoneStays, SealedOrGone, HasRecord
<1> QED
  BY <1>2, <1>3, <1>4, <1>5 DEF CallInv

\* A step that inserts no record leaves the chains, and what is said of them.
LEMMA ChainsKeep ==
  ASSUME NoGaps, SealRestsOnAcquisition, Quiet
  PROVE  /\ Grows /\ NoGaps' /\ SealRestsOnAcquisition'
         /\ \A e : Entries(e)' = Entries(e) /\ Numbers(e)' = Numbers(e)
<1>1. \A e : Entries(e)' = Entries(e) /\ Numbers(e)' = Numbers(e)
  BY DEF Entries, Numbers, Quiet
<1> QED
  BY <1>1 DEF Quiet, Grows, NoGaps, SealRestsOnAcquisition, HasRecord, Acquired

\* Requests that arrive.
LEMMA BeginInv ==
  ASSUME IInv, NEW k \in Calls, Begin(k)
  PROVE  CallInv(k)' /\ Quiet /\ \A x \in Calls \ {k} : call'[x] = call[x]
<1>0. call \in [Calls -> CallType]
  BY DEF IInv, TypeOK
<1>1. ASSUME NEW o \in Ops, NEW c \in Cases, BeginChange(k, o, c)
      PROVE  /\ CallInv(k)' /\ Quiet
             /\ \A x \in Calls \ {k} : call'[x] = call[x]
  <2>1. /\ call'[k].pc = FirstStep[o] /\ call'[k].op = o /\ call'[k].act = "none"
        /\ call'[k].plan = call'[k].todo /\ o \in DOMAIN Target
    BY <1>0, <1>1 DEF BeginChange, NoCall
  <2>2. CallInv(k)'
    BY <2>1 DEF CallInv, OpInv, NumberInv, SealInv, ListInv, Sealing, At, Target,
       FirstStep
  <2> QED
    BY <1>0, <1>1, <2>2 DEF BeginChange, Quiet, GoneStays
<1>2. ASSUME NEW c \in Cases, NEW e \in Evidence,
             \/ \E u \in Leads : BeginAssign(k, c, u)
             \/ BeginAdd(k, c, e) \/ BeginRegister(k, c)
      PROVE  /\ CallInv(k)' /\ Quiet
             /\ \A x \in Calls \ {k} : call'[x] = call[x]
  <2>1. /\ \/ call'[k].pc = "assign" /\ call'[k].op = "assign"
           \/ call'[k].pc = "link" /\ call'[k].op = "add"
           \/ call'[k].pc = "newRow" /\ call'[k].op = "register"
        /\ call'[k].act = "none"
    <3>1. CASE \E u \in Leads : BeginAssign(k, c, u)
      BY <1>0, <3>1 DEF BeginAssign, NoCall
    <3>2. CASE BeginAdd(k, c, e)
      BY <1>0, <3>2 DEF BeginAdd, NoCall
    <3>3. CASE BeginRegister(k, c)
      BY <1>0, <3>3 DEF BeginRegister, NoCall
    <3> QED
      BY <1>2, <3>1, <3>2, <3>3
  <2>2. CallInv(k)'
    BY <2>1 DEF CallInv, OpInv, NumberInv, SealInv, ListInv, Sealing, At
  <2> QED
    BY <1>0, <1>2, <2>2
       DEF BeginAssign, BeginAdd, BeginRegister, Quiet, GoneStays
<1>3. ASSUME NEW e \in Evidence, BeginAccess(k, e) \/ BeginAnalyse(k, e)
      PROVE  /\ CallInv(k)' /\ Quiet
             /\ \A x \in Calls \ {k} : call'[x] = call[x]
  <2>1. \/ call'[k].pc = "base" /\ call'[k].op = "access" /\ call'[k].act = "accessed"
        \/ call'[k].pc = "number" /\ call'[k].op = "analyse"
             /\ call'[k].act = "analysed"
    <3>1. CASE BeginAccess(k, e)
      BY <1>0, <3>1 DEF BeginAccess, BeginRecord, NoCall
    <3>2. CASE BeginAnalyse(k, e)
      BY <1>0, <3>2 DEF BeginAnalyse, BeginRecord, NoCall
    <3> QED
      BY <1>3, <3>1, <3>2
  <2>2. CallInv(k)'
    BY <2>1 DEF CallInv, OpInv, NumberInv, SealInv, ListInv, Sealing, At
  <2> QED
    BY <1>0, <1>3, <2>2
       DEF BeginAccess, BeginAnalyse, BeginRecord, Quiet, GoneStays
<1>4. \E e \in Evidence : TRUE
  BY CaseAssumption
<1> QED
  BY <1>1, <1>2, <1>3, <1>4 DEF Begin

\* Steps of a call that insert no record.
LEMMA QuietSteps ==
  ASSUME IInv, NEW k \in Calls, CallStep(k), ~InsertRecord(k)
  PROVE  CallInv(k)' /\ Quiet /\ \A x \in Calls \ {k} : call'[x] = call[x]
<1>0. /\ call \in [Calls -> CallType] /\ CallInv(k)
      /\ call[k].item \in Evidence /\ call[k].plan \in SUBSET Evidence
  BY DEF IInv, TypeOK, CustodyInv, CallInv, CallType
<1> DEFINE Good == /\ CallInv(k)' /\ Quiet
                   /\ \A x \in Calls \ {k} : call'[x] = call[x]
\* A move that only changes the await, with the chains as they are.
<1>1. ASSUME NEW w, Goto(k, w), Quiet,
             w \in {"number", "insert"} /\ call[k].act = "sealed"
               => Acquired(call[k].item),
             w \notin {"insert", "sealing", "count", "base", "save", "assign", "refresh"},
             w = "number" => call[k].pc \in {"count", "base"},
             w = "update" => call[k].op \in DOMAIN Target,
             Sealing(k) => w \in {"number", "failed", "update", "done"},
             Sealing(k) /\ w \in {"update", "done"} => call[k].todo = {}
      PROVE  Good
  <2>1. /\ call'[k] = [call[k] EXCEPT !.pc = w]
        /\ \A x \in Calls \ {k} : call'[x] = call[x]
    BY <1>0, <1>1 DEF Goto
  <2>2. /\ call'[k].pc = w /\ call'[k].op = call[k].op /\ call'[k].act = call[k].act
        /\ call'[k].item = call[k].item /\ call'[k].plan = call[k].plan
        /\ call'[k].todo = call[k].todo
    BY <1>0, <2>1 DEF CallType
  <2>3. \A e : Entries(e)' = Entries(e)
    BY <1>1 DEF Entries, Quiet
  <2>4. OpInv(k)'
    BY <1>0, <1>1, <2>2 DEF CallInv, OpInv, At, Sealing
  <2>5. NumberInv(k)'
    BY <1>1, <2>2 DEF NumberInv, At
  <2>6. SealInv(k)'
    BY <1>1, <2>2, <2>3 DEF SealInv, At, Acquired
  <2>7. ListInv(k)'
    <3>1. \A e \in Evidence : SealedOrGone(e) => SealedOrGone(e)'
      BY <1>1, <2>3 DEF SealedOrGone, HasRecord, Quiet, GoneStays
    <3> QED
      BY <1>0, <1>1, <2>2, <3>1 DEF CallInv, OpInv, ListInv, Sealing
  <2> QED
    BY <1>1, <2>1, <2>4, <2>5, <2>6, <2>7 DEF CallInv
<1>2. Quiet /\ \A x \in Calls \ {k} : call'[x] = call[x]
  <2>1. UNCHANGED chain /\ \A x \in Calls \ {k} : call'[x] = call[x]
    BY <1>0 DEF CallStep, Update, Save, Resave, SaveView, AddLead, RefreshLead, NewRow,
       Link, LookAtAdded, SkipSealed, TakeOpen, AllSealed, CountRecords, CheckBaseline,
       ReadNumber, Abort, Goto
  <2>2. CASE \E e \in Evidence : NewRow(k, e)
    BY <1>0, <2>1, <2>2 DEF NewRow, Register, Quiet, GoneStays, IInv, TypeOK
  <2>3. CASE Link(k)
    BY <1>0, <2>1, <2>3 DEF Link, Present, Quiet, GoneStays, IInv, TypeOK
  <2>4. CASE UNCHANGED link
    BY <2>1, <2>4 DEF Quiet, GoneStays
  <2>5. UNCHANGED link \/ Link(k) \/ \E e \in Evidence : NewRow(k, e)
    BY DEF CallStep, Update, Save, Resave, SaveView, AddLead, RefreshLead,
       LookAtAdded, SkipSealed, TakeOpen, AllSealed, CountRecords, CheckBaseline,
       ReadNumber, Abort
  <2> QED
    BY <2>1, <2>2, <2>3, <2>4, <2>5
<1>3. \A e : Entries(e)' = Entries(e) /\ Numbers(e)' = Numbers(e)
  BY <1>2 DEF Entries, Numbers, Quiet
<1>4. ASSUME NEW e \in Evidence PROVE SealedOrGone(e) => SealedOrGone(e)'
  BY <1>2, <1>3 DEF SealedOrGone, HasRecord, Quiet, GoneStays
<1>5. CASE Update(k)
  <2>1. CASE Goto(k, "done")
    BY <1>0, <1>1, <1>2, <1>5, <2>1 DEF Update, CallInv, ListInv, At
  <2>2. CASE ~Goto(k, "done")
    <3>1. /\ call'[k].pc = "resave" /\ call'[k].op = call[k].op
          /\ call'[k].act = call[k].act /\ call'[k].plan = call[k].plan
          /\ call'[k].todo = call[k].todo
      BY <1>0, <1>5, <2>2 DEF Update, CallType
    <3> QED
      BY <1>0, <1>2, <1>4, <1>5, <3>1
         DEF Update, CallInv, OpInv, NumberInv, SealInv, ListInv, Sealing, At
  <2> QED
    BY <2>1, <2>2
<1>6. CASE Save(k) \/ Resave(k)
  BY <1>0, <1>1, <1>2, <1>6
     DEF Save, Resave, SaveView, CallInv, OpInv, ListInv, Sealing, At
<1>7. CASE AddLead(k)
  <2>1. CASE Goto(k, "failed")
    BY <1>1, <1>2, <2>1
  <2>2. CASE Goto(k, "refresh")
    <3>1. /\ call'[k].pc = "refresh" /\ call'[k].op = call[k].op
          /\ call'[k].act = call[k].act
      BY <1>0, <2>2 DEF Goto, CallType
    <3> QED
      BY <1>0, <1>2, <1>7, <3>1
         DEF AddLead, CallInv, OpInv, NumberInv, SealInv, ListInv, Sealing, At
  <2> QED
    BY <1>7, <2>1, <2>2 DEF AddLead
<1>8. CASE RefreshLead(k)
  <2>1. CASE Goto(k, "done")
    BY <1>0, <1>1, <1>2, <1>8, <2>1 DEF RefreshLead, CallInv, ListInv, At
  <2>2. CASE ~Goto(k, "done")
    <3>1. /\ call'[k].pc = "save" /\ call'[k].op = call[k].op
          /\ call'[k].act = call[k].act
      BY <1>0, <1>8, <2>2 DEF RefreshLead, CallType
    <3> QED
      BY <1>0, <1>2, <1>8, <3>1
         DEF RefreshLead, CallInv, OpInv, NumberInv, SealInv, ListInv, Sealing, At
  <2> QED
    BY <2>1, <2>2
<1>9. ASSUME NEW e \in Evidence, NewRow(k, e) PROVE Good
  <2>1. call'[k].pc = "count" /\ call'[k].op = call[k].op /\ call'[k].act = "acquired"
    BY <1>0, <1>9 DEF NewRow, CallType
  <2> QED
    BY <1>0, <1>2, <1>9, <2>1
       DEF NewRow, CallInv, OpInv, NumberInv, SealInv, ListInv, Sealing, At
<1>10. CASE Link(k)
  BY <1>0, <1>1, <1>2, <1>10 DEF Link, CallInv, ListInv, Sealing, At
<1>11. CASE LookAtAdded(k)
  <2>1. CASE Goto(k, "done")
    BY <1>0, <1>1, <1>2, <1>11, <2>1 DEF LookAtAdded, CallInv, ListInv, Sealing, At
  <2>2. CASE ~Goto(k, "done")
    <3>1. /\ call'[k].pc = "count" /\ call'[k].op = call[k].op
          /\ call'[k].act = "acquired"
      BY <1>0, <1>11, <2>2 DEF LookAtAdded, CallType
    <3> QED
      BY <1>0, <1>2, <1>11, <3>1
         DEF LookAtAdded, CallInv, OpInv, NumberInv, SealInv, ListInv, Sealing, At
  <2> QED
    BY <2>1, <2>2
<1>12. ASSUME NEW e \in Evidence, SkipSealed(k, e) PROVE Good
  <2>1. /\ call'[k].pc = "sealing" /\ call'[k].op = call[k].op
        /\ call'[k].act = call[k].act /\ call'[k].plan = call[k].plan
        /\ call'[k].todo = call[k].todo \ {e}
    BY <1>0, <1>12 DEF SkipSealed, CallType, At
  <2>2. SealedOrGone(e)
    BY <1>12 DEF SkipSealed, EndsSealed, LastActions, HasRecord, SealedOrGone
  <2> QED
    BY <1>0, <1>2, <1>4, <1>12, <2>1, <2>2
       DEF SkipSealed, CallInv, OpInv, NumberInv, SealInv, ListInv, Sealing, At
<1>13. ASSUME NEW e \in Evidence, TakeOpen(k, e) PROVE Good
  <2>1. /\ call'[k].op = call[k].op /\ call'[k].plan = call[k].plan
        /\ call'[k].todo = call[k].todo /\ call'[k].item = e
        /\ \/ call'[k].pc = "count" /\ call'[k].act = "acquired"
           \/ call'[k].pc = "base" /\ call'[k].act = "sealed" /\ chain[e] # <<>>
    BY <1>0, <1>13 DEF TakeOpen, CallType
  <2> QED
    BY <1>0, <1>2, <1>4, <1>13, <2>1
       DEF TakeOpen, CallInv, OpInv, NumberInv, SealInv, ListInv, Sealing, At
<1>14. CASE AllSealed(k)
  <2>1. CASE call[k].op = "close"
    <3>1. /\ call'[k].pc = "save" /\ call'[k].op = call[k].op
          /\ call'[k].act = call[k].act /\ call'[k].plan = call[k].plan
          /\ call'[k].todo = call[k].todo
      BY <1>0, <1>14, <2>1 DEF AllSealed, CallType
    <3> QED
      BY <1>0, <1>2, <1>4, <1>14, <2>1, <3>1
         DEF AllSealed, CallInv, OpInv, NumberInv, SealInv, ListInv, Sealing, At, Target
  <2>2. CASE call[k].op # "close"
    BY <1>0, <1>1, <1>2, <1>14, <2>2
       DEF AllSealed, CallInv, OpInv, Sealing, At, Target
  <2> QED
    BY <2>1, <2>2
<1>15. CASE CountRecords(k)
  <2>1. call[k].act = "acquired"
    BY <1>0, <1>15 DEF CountRecords, CallInv, OpInv
  <2> QED
    BY <1>0, <1>1, <1>2, <1>15, <2>1 DEF CountRecords, CallInv, At
<1>16. CASE CheckBaseline(k)
  <2>1. CASE Goto(k, "failed")
    BY <1>1, <1>2, <2>1
  <2>2. CASE Goto(k, "number") /\ Baseline(call[k].item, TRUE)
    <3>1. call[k].act = "sealed" => Acquired(call[k].item)
      BY <1>0, <1>16, <2>2, FirstIsOne
         DEF Baseline, CheckBaseline, CallInv, SealInv, At, IInv, CustodyInv
    <3> QED
      BY <1>1, <1>2, <1>16, <2>2, <3>1 DEF CheckBaseline, At
  <2> QED
    BY <1>16, <2>1, <2>2 DEF CheckBaseline
<1>17. CASE ReadNumber(k)
  <2>1. /\ call'[k].pc = "insert" /\ call'[k].op = call[k].op
        /\ call'[k].act = call[k].act /\ call'[k].plan = call[k].plan
        /\ call'[k].todo = call[k].todo /\ call'[k].item = call[k].item
        /\ call'[k].num = NextNumber(call[k].item)
    BY <1>0, <1>17 DEF ReadNumber, CallType
  <2>2. NumberInv(k)'
    BY <1>0, <1>3, <2>1, NextNumberFacts DEF NumberInv, IInv, CustodyInv
  <2>3. SealInv(k)'
    BY <1>0, <1>3, <1>17, <2>1 DEF ReadNumber, CallInv, SealInv, Acquired, At
  <2> QED
    BY <1>0, <1>2, <1>4, <1>17, <2>1, <2>2, <2>3
       DEF ReadNumber, CallInv, OpInv, ListInv, Sealing, At
<1>18. CASE Abort(k)
  BY <1>1, <1>2, <1>18 DEF Abort
<1> QED
  BY <1>5, <1>6, <1>7, <1>8, <1>9, <1>10, <1>11, <1>12, <1>13, <1>14, <1>15, <1>16,
     <1>17, <1>18 DEF CallStep

\* The step that inserts a record.
LEMMA InsertInv ==
  ASSUME IInv, NEW k \in Calls, InsertRecord(k)
  PROVE  /\ Grows /\ NoGaps' /\ SealRestsOnAcquisition' /\ CallInv(k)'
         /\ \A x \in Calls \ {k} : call'[x] = call[x]
<1>e. PICK e \in Evidence : e = call[k].item
  BY DEF IInv, TypeOK, CallType
<1>r. PICK r : r = [n |-> call[k].num, action |-> call[k].act]
  OBVIOUS
<1>0. /\ TypeOK /\ NoGaps /\ SealRestsOnAcquisition /\ CallInv(k)
      /\ call \in [Calls -> CallType] /\ call[k] \in CallType
      /\ call[k].num \in Nat /\ call[k].num >= 1
      /\ 1..(call[k].num - 1) \subseteq Numbers(e)
  BY <1>e DEF IInv, TypeOK, CustodyInv, CallInv, CallType, NumberInv, InsertRecord, At
<1>1. /\ \A x \in Calls \ {k} : call'[x] = call[x]
      /\ call'[k] = AfterRecord(k)
  BY <1>0 DEF InsertRecord
<1>2. /\ Len(chain'[e]) = Len(chain[e]) + 1 /\ chain'[e] = Append(chain[e], r)
      /\ Entries(e)' = Entries(e) \cup {r}
      /\ Numbers(e)' = Numbers(e) \cup {call[k].num}
  BY <1>e, <1>r, <1>0, InsertFacts
<1>3. ASSUME NEW x \in Evidence, x # e
      PROVE  /\ chain'[x] = chain[x] /\ Entries(x)' = Entries(x)
             /\ Numbers(x)' = Numbers(x)
  <2>1. chain'[x] = chain[x]
    BY <1>e, <1>0, <1>3, InsertFacts
  <2> QED
    BY <2>1 DEF Entries, Numbers
<1>4. Grows
  <2>1. chain'[e] # <<>>
    <3>1. Len(chain'[e]) # 0
      BY <1>0, <1>e, <1>r, <1>2, ChainFacts
    <3> QED
      BY <3>1
  <2> QED
    BY <1>0, <1>e, <1>2, <1>3, <2>1 DEF Grows, GoneStays, InsertRecord
<1>5. NoGaps'
  <2> SUFFICES ASSUME NEW x \in Evidence
               PROVE  \E m \in 0..Len(chain'[x]) : Numbers(x)' = 1..m
    BY DEF NoGaps
  <2>1. CASE x # e
    BY <1>0, <1>3, <2>1 DEF NoGaps
  <2>2. CASE x = e
    <3>1. PICK m \in 0..Len(chain[e]) : Numbers(e) = 1..m
      BY <1>0 DEF NoGaps
    <3>2. Len(chain[e]) \in Nat
      BY <1>0, ChainFacts
    <3>3. call[k].num - 1 <= m
      BY <1>0, <3>1, <3>2
    <3>4. Numbers(x)' = 1..m \cup {call[k].num}
      <4>1. Numbers(x)' = Numbers(e)'
        BY <2>2 DEF Numbers
      <4> QED
        BY <1>2, <3>1, <4>1
    <3>5. m \in 0..Len(chain'[x]) /\ m + 1 \in 0..Len(chain'[x])
      BY <1>2, <2>2, <3>1, <3>2
    <3>6. CASE call[k].num <= m
      <4>1. 1..m \cup {call[k].num} = 1..m
        BY <1>0, <3>1, <3>2, <3>6
      <4> QED
        BY <3>4, <3>5, <4>1
    <3>7. CASE call[k].num = m + 1
      <4>1. 1..m \cup {m + 1} = 1..(m + 1)
        BY <3>1, <3>2
      <4> QED
        BY <3>4, <3>7, <3>5, <4>1
    <3> QED
      BY <1>0, <3>1, <3>2, <3>3, <3>6, <3>7
  <2> QED
    BY <2>1, <2>2
<1>6. SealRestsOnAcquisition'
  <2> SUFFICES ASSUME NEW x \in Evidence, HasRecord(x, "sealed")'
               PROVE  Acquired(x)'
    BY DEF SealRestsOnAcquisition
  <2>1. CASE HasRecord(x, "sealed")
    BY <1>0, <1>4, <2>1 DEF SealRestsOnAcquisition, Grows, Acquired
  <2>2. CASE ~HasRecord(x, "sealed")
    <3>1. x = e /\ call[k].act = "sealed"
      BY <1>e, <1>r, <1>2, <1>3, <2>2 DEF HasRecord
    <3>2. Acquired(e)
      BY <1>0, <1>e, <3>1 DEF CallInv, SealInv, InsertRecord, At
    <3> QED
      BY <1>e, <1>2, <3>1, <3>2 DEF Acquired
  <2> QED
    BY <2>1, <2>2
<1>7. CallInv(k)'
  <2>0. /\ At(k, "insert") /\ call[k].act # "none"
        /\ chain'[e] # <<>>
        /\ \A x \in Evidence : SealedOrGone(x) => SealedOrGone(x)'
    <3>1. chain'[e] # <<>>
      <4>1. Len(chain'[e]) # 0
        BY <1>0, <1>e, <1>r, <1>2, ChainFacts
      <4> QED
        BY <4>1
    <3> QED
      BY <1>0, <1>4, <3>1 
         DEF InsertRecord, CallInv, OpInv, At, Grows, GoneStays, SealedOrGone, HasRecord
  <2>1. CASE call[k].act = "sealed"
    <3>1. /\ call'[k].pc = "sealing" /\ call'[k].op = call[k].op
          /\ call'[k].act = "sealed" /\ call'[k].plan = call[k].plan
          /\ call'[k].todo = call[k].todo \ {e}
      BY <1>0, <1>e, <1>1, <2>1 DEF AfterRecord, CallType
    <3>2. SealedOrGone(e)'
      BY <1>e, <1>r, <1>2, <2>1 DEF HasRecord, SealedOrGone
    <3>3. call[k].plan \in SUBSET Evidence
      BY <1>0 DEF CallType
    <3> QED
      BY <1>0, <1>e, <2>0, <2>1, <3>1, <3>2, <3>3
         DEF CallInv, OpInv, NumberInv, SealInv, ListInv, Sealing, At
  <2>2. CASE call[k].act = "acquired" /\ Sealing(k)
    <3>1. /\ call'[k].pc = "base" /\ call'[k].op = call[k].op
          /\ call'[k].act = "sealed" /\ call'[k].plan = call[k].plan
          /\ call'[k].todo = call[k].todo /\ call'[k].item = e
      BY <1>0, <1>e, <1>1, <2>2 DEF AfterRecord, CallType, Sealing
    <3>3. call[k].plan \in SUBSET Evidence
      BY <1>0 DEF CallType
    <3> QED
      BY <1>0, <1>e, <2>0, <2>2, <3>1, <3>3
         DEF CallInv, OpInv, NumberInv, SealInv, ListInv, Sealing, At
  <2>3. CASE call[k].act # "sealed" /\ ~Sealing(k)
    <3>1. /\ call'[k].pc \in {"link", "done"} /\ call'[k].op = call[k].op
          /\ call'[k].act = call[k].act
      BY <1>0, <1>1, <2>3 DEF AfterRecord, CallType, Sealing
    <3> QED
      BY <1>0, <2>3, <3>1
         DEF CallInv, OpInv, NumberInv, SealInv, ListInv, Sealing, At
  <2> QED
    BY <1>0, <1>e, <2>0, <2>1, <2>2, <2>3 DEF CallInv, ListInv, At
<1> QED
  BY <1>1, <1>4, <1>5, <1>6, <1>7

\* Every step keeps the inductive invariant.
LEMMA NextIInv == IInv /\ [Next]_vars => IInv'
<1> SUFFICES ASSUME IInv, [Next]_vars PROVE IInv'
  OBVIOUS
<1>0. /\ TypeOK /\ NoGaps /\ SealRestsOnAcquisition
      /\ \A x \in Calls : CallInv(x)
  BY DEF IInv, CustodyInv, CallInv
<1>1. ASSUME TypeOK', Grows, NoGaps', SealRestsOnAcquisition', NEW k \in Calls,
             CallInv(k)', \A x \in Calls \ {k} : call'[x] = call[x]
      PROVE  IInv'
  <2>1. \A x \in Calls : CallInv(x)'
    BY <1>0, <1>1, OthersKeep
  <2> QED
    BY <1>1, <2>1 DEF IInv, CustodyInv, CallInv
<1>2. ASSUME NEW k \in Calls, Begin(k) PROVE IInv'
  <2>1. TypeOK'
    BY <1>0, <1>2, BeginTypeOK
  <2>2. CallInv(k)' /\ Quiet /\ \A x \in Calls \ {k} : call'[x] = call[x]
    BY <1>2, BeginInv
  <2> QED
    BY <1>0, <1>1, <2>1, <2>2, ChainsKeep
<1>3. ASSUME NEW k \in Calls, CallStep(k) PROVE IInv'
  <2>1. TypeOK'
    BY <1>0, <1>3, StepTypeOK DEF CallInv
  <2>2. CASE InsertRecord(k)
    BY <1>1, <2>1, <2>2, InsertInv
  <2>3. CASE ~InsertRecord(k)
    <3>1. CallInv(k)' /\ Quiet /\ \A x \in Calls \ {k} : call'[x] = call[x]
      BY <1>3, <2>3, QuietSteps
    <3> QED
      BY <1>0, <1>1, <2>1, <3>1, ChainsKeep
  <2> QED
    BY <2>2, <2>3
<1>4. ASSUME Quiet, UNCHANGED call, TypeOK' PROVE IInv'
  <2>1. Grows /\ NoGaps' /\ SealRestsOnAcquisition'
    BY <1>0, <1>4, ChainsKeep
  <2>2. \A x \in Calls : CallInv(x)'
    BY <1>0, <1>4, <2>1, OthersKeep
  <2> QED
    BY <1>4, <2>1, <2>2 DEF IInv, CustodyInv, CallInv
<1>5. ASSUME NEW c \in Cases, NEW u \in Leads, RemoveLead(c, u) PROVE IInv'
  <2>1. row' \in [Cases -> RowType]
    <3> DEFINE left == [row[c] EXCEPT
                          !.leads = row[c].leads \ {u},
                          !.lead = IF row[c].lead = u THEN "none" ELSE row[c].lead]
    <3>1. left \in RowType
      BY <1>0 DEF TypeOK, RowType
    <3>2. row' = [row EXCEPT ![c] = left]
      BY <1>5 DEF RemoveLead
    <3> QED
      BY <1>0, <3>1, <3>2 DEF TypeOK
  <2>2. TypeOK' /\ Quiet /\ UNCHANGED call
    BY <1>0, <1>5, <2>1 DEF RemoveLead, TypeOK, Quiet, GoneStays
  <2> QED
    BY <1>4, <2>2
<1>6. ASSUME NEW e \in Evidence, PlainRegister(e) \/ DeleteEvidence(e) PROVE IInv'
  <2>1. TypeOK' /\ Quiet /\ UNCHANGED call
    BY <1>0, <1>6 DEF PlainRegister, DeleteEvidence, Register, TypeOK, Quiet,
       GoneStays
  <2> QED
    BY <1>4, <2>1
<1>7. CASE UNCHANGED vars
  <2>1. TypeOK' /\ Quiet /\ UNCHANGED call
    BY <1>0, <1>7 DEF vars, TypeOK, Quiet, GoneStays
  <2> QED
    BY <1>4, <2>1
<1> QED
  BY <1>2, <1>3, <1>5, <1>6, <1>7 DEF Next

-----------------------------------------------------------------------------
\* The inductive invariant holds in every reachable state.
THEOREM Invariance == Spec => []IInv
  BY InitIInv, NextIInv, PTL DEF Spec

\* Every variable of the case and custody services keeps its type.
THEOREM TypeCorrect == Spec => []TypeOK
<1>1. IInv => TypeOK
  BY DEF IInv
<1> QED
  BY <1>1, Invariance, PTL

\* However add_record's reads and inserts interleave, the numbers in use on a
\* chain run from 1 without a gap.
THEOREM NumbersDense == Spec => []NoGaps
<1>1. IInv => NoGaps
  BY DEF IInv, CustodyInv
<1> QED
  BY <1>1, Invariance, PTL

\* record_seal's baseline check works under every interleaving: a chain with a
\* SEALED record has an ACQUIRED record of number 1.
THEOREM SealAcquired == Spec => []SealRestsOnAcquisition
<1>1. IInv => SealRestsOnAcquisition
  BY DEF IInv, CustodyInv
<1> QED
  BY <1>1, Invariance, PTL

\* close_case and archive_case write the new status only after every item that
\* was linked when they read the case has a SEALED record.
THEOREM CloseSeals == Spec => []SealsWhatItRead
<1>1. IInv => SealsWhatItRead
  BY DEF IInv, CustodyInv, SealsWhatItRead, ListInv, Sealing
<1> QED
  BY <1>1, Invariance, PTL

-----------------------------------------------------------------------------
(* Requests served one at a time: what the program's documents promise of    *)
(* chains and cases, for every set of cases, evidence and requests and with  *)
(* calls that fail anywhere. A call that is over holds nothing that matters, *)
(* so each step has one call to look at: the one that takes it.              *)

\* At most one call is under way.
Alone == \A k, l \in Calls : ~Over(k) /\ ~Over(l) => k = l

Owner(k) == row[call[k].case]
Final    == {"closed", "archived"}

\* A status is left alone or changed along CASE_STATUS_TRANSITIONS.
Follows(s, t) == s = t \/ Permitted(s, t)

\* A number that was read is still the next one, and an acquisition that passed
\* its count still finds no record; what passes the baseline check is none.
RecordSlot(k) ==
  /\ At(k, "insert") => call[k].num = Len(chain[call[k].item]) + 1
  /\ call[k].pc \in {"number", "insert"} /\ call[k].act = "acquired" =>
       chain[call[k].item] = <<>>
  /\ At(k, "base") => call[k].act # "acquired"

\* The status a call is about to write follows from the one the case has.
StatusSlot(k) ==
  /\ /\ call[k].op \in DOMAIN Target
     /\ call[k].pc \in {"sealing", "count", "base", "number", "insert", "update"}
     => Follows(Owner(k).status, Target[call[k].op])
  /\ At(k, "save") =>
       /\ Follows(Owner(k).status, call[k].view.status)
       /\ call[k].op \in DOMAIN Target =>
            Follows(call[k].view.status, Target[call[k].op])
       /\ call[k].view.status \in Final => Sealing(k) \/ Owner(k).status \in Final
  /\ At(k, "resave") =>
       call[k].op = "close" /\ call[k].view.status = Owner(k).status

\* The lead a call holds is assigned, and so is the one it has just added.
LeadSlot(k) ==
  /\ ~Over(k) /\ call[k].view.lead # "none" =>
       call[k].view.lead \in Owner(k).leads
  /\ At(k, "refresh") => call[k].who \in Owner(k).leads

\* The case a call adds an item to is not closed by now, and the one it closes
\* has no item that the call did not read.
CaseSlot(k) ==
  /\ call[k].op \in {"add", "register"} /\ ~Over(k) => Owner(k).status \notin Final
  /\ call[k].pc \in {"newRow", "link", "look"} => call[k].op \in {"add", "register"}
  /\ Sealing(k) /\ ~Over(k) => Linked(call[k].case) \subseteq call[k].plan

Slot(k) == RecordSlot(k) /\ StatusSlot(k) /\ LeadSlot(k) /\ CaseSlot(k)

SerialInv == ChainWellFormed /\ CaseTruthful /\ Alone /\ \A k \in Calls : Slot(k)

StatusesFollow == \A c \in Cases : Follows(row[c].status, row'[c].status)

-----------------------------------------------------------------------------
(* Calls that do not act *)

\* Nothing is asked of a call that is over.
LEMMA OverSlot ==
  ASSUME NEW k \in Calls, Over(k)
  PROVE  Slot(k)
  BY DEF Over, Slot, RecordSlot, StatusSlot, LeadSlot, CaseSlot, At

\* The same of the state a step ends in.
LEMMA OverSlotNext ==
  ASSUME NEW k \in Calls, Over(k)'
  PROVE  Slot(k)'
  BY DEF Over, Slot, RecordSlot, StatusSlot, LeadSlot, CaseSlot, At

\* When the others are over and stay as they are, the one that acts decides.
LEMMA OneActs ==
  ASSUME NEW k \in Calls, Slot(k)',
         \A x \in Calls \ {k} : Over(x) /\ call'[x] = call[x]
  PROVE  Alone' /\ \A x \in Calls : Slot(x)'
<1>1. \A x \in Calls \ {k} : Over(x)'
  BY DEF Over
<1> QED
  BY <1>1, OverSlotNext DEF Alone

\* A move to another await changes nothing else of the call.
LEMMA GotoFields ==
  ASSUME TypeOK, NEW k \in Calls, NEW w, Goto(k, w)
  PROVE  /\ call'[k].pc = w
         /\ call'[k].op = call[k].op /\ call'[k].case = call[k].case
         /\ call'[k].item = call[k].item /\ call'[k].view = call[k].view
         /\ call'[k].plan = call[k].plan /\ call'[k].todo = call[k].todo
         /\ call'[k].act = call[k].act /\ call'[k].num = call[k].num
         /\ call'[k].who = call[k].who
         /\ \A x \in Calls \ {k} : call'[x] = call[x]
  BY DEF TypeOK, CallType, Goto

-----------------------------------------------------------------------------
(* What a step leaves of the chains and of the cases *)

\* Chains that are left alone stay well formed.
LEMMA ChainsAlike ==
  ASSUME ChainWellFormed, UNCHANGED chain
  PROVE  ChainWellFormed'
  BY DEF ChainWellFormed, NumbersSequential, AcquiredFirst, Entries

\* Cases and items that are left alone say of each other what they said.
LEMMA CasesAlike ==
  ASSUME CaseTruthful, UNCHANGED <<row, link, chain>>
  PROVE  CaseTruthful' /\ StatusesFollow
  BY DEF CaseTruthful, ClosedIsSealed, LeadIsAssigned, Closed, Linked, HasRecord,
     Entries, StatusesFollow, Follows

\* A case is written with a lead that is assigned and with a status that follows
\* from the one it has; when that closes it, its items are sealed.
LEMMA CaseWritten ==
  ASSUME TypeOK, CaseTruthful, NEW c \in Cases, NEW r,
         row' = [row EXCEPT ![c] = r], UNCHANGED <<link, chain>>,
         r.lead # "none" => r.lead \in r.leads,
         Follows(row[c].status, r.status),
         r.status \in Final =>
           \/ row[c].status \in Final
           \/ \A e \in Linked(c) : HasRecord(e, "sealed")
  PROVE  CaseTruthful' /\ StatusesFollow
<1>1. row'[c] = r /\ \A d \in Cases \ {c} : row'[d] = row[d]
  BY DEF TypeOK
<1>2. /\ \A d : Linked(d)' = Linked(d)
      /\ \A e : HasRecord(e, "sealed")' = HasRecord(e, "sealed")
  BY DEF Linked, HasRecord, Entries
<1>3. ClosedIsSealed'
  BY <1>1, <1>2 DEF CaseTruthful, ClosedIsSealed, Closed, Final
<1>4. LeadIsAssigned'
  BY <1>1 DEF CaseTruthful, LeadIsAssigned
<1>5. StatusesFollow
  BY <1>1 DEF StatusesFollow, Follows
<1> QED
  BY <1>3, <1>4, <1>5 DEF CaseTruthful

\* The items a call read, once it is through with its list, are sealed.
LEMMA ThroughMeansSealed ==
  ASSUME TypeOK, NEW k \in Calls, ListInv(k), CaseSlot(k), Sealing(k),
         call[k].pc \in {"save", "update", "resave"}
  PROVE  \A e \in Linked(call[k].case) : HasRecord(e, "sealed")
<1>1. Linked(call[k].case) \subseteq call[k].plan /\ call[k].todo = {}
  BY DEF CaseSlot, Over, ListInv
<1>2. \A e \in Linked(call[k].case) : SealedOrGone(e)
  BY <1>1 DEF ListInv
<1>3. \A e \in Linked(call[k].case) : link[e] # "deleted"
  BY CaseAssumption DEF Linked, TypeOK, CallType
<1> QED
  BY <1>2, <1>3 DEF SealedOrGone

-----------------------------------------------------------------------------
(* Steps *)

\* What a step of a call has to show.
Kept(k) == Slot(k)' /\ ChainWellFormed' /\ CaseTruthful' /\ StatusesFollow

\* A step that writes nothing has only its own call to look at.
LEMMA QuietKept ==
  ASSUME SerialInv, NEW k \in Calls, UNCHANGED <<row, link, chain>>, Slot(k)'
  PROVE  Kept(k)
  BY ChainsAlike, CasesAlike DEF SerialInv, Kept

\* Requests that arrive.
LEMMA BeginSlot ==
  ASSUME TypeOK, SerialInv, NEW k \in Calls, Begin(k)
  PROVE  Kept(k)
<1>0. /\ call \in [Calls -> CallType] /\ row \in [Cases -> RowType]
      /\ LeadIsAssigned
  BY DEF TypeOK, SerialInv, CaseTruthful
<1>1. UNCHANGED <<row, link, chain>>
  BY DEF Begin, BeginChange, BeginAssign, BeginAdd, BeginRegister, BeginAccess,
     BeginAnalyse, BeginRecord
<1>2. ASSUME NEW o \in Ops, NEW c \in Cases, BeginChange(k, o, c) PROVE Slot(k)'
  <2>1. /\ call'[k].pc = FirstStep[o] /\ call'[k].op = o /\ call'[k].case = c
        /\ call'[k].act = "none" /\ call'[k].plan = Linked(c)
        /\ call'[k].view = row[c] /\ o \in DOMAIN Target
        /\ Permitted(row[c].status, Target[o])
    BY <1>0, <1>2 DEF BeginChange, NoCall
  <2>2. RecordSlot(k)'
    BY <2>1 DEF RecordSlot, At, FirstStep, Target
  <2>3. StatusSlot(k)'
    <3>1. Owner(k)' = row[c] /\ At(k, "save")' => o = "reopen"
      BY <1>1, <2>1 DEF Owner, At, FirstStep, Target
    <3>2. Follows(row[c].status, row[c].status)
          /\ Follows(row[c].status, Target[o])
      BY <2>1 DEF Follows
    <3> QED
      BY <1>1, <2>1, <3>1, <3>2
         DEF StatusSlot, Owner, At, FirstStep, Target
  <2>4. LeadSlot(k)'
    BY <1>0, <1>1, <2>1 DEF LeadSlot, Owner, At, FirstStep, Target, LeadIsAssigned
  <2>5. CaseSlot(k)'
    BY <1>1, <2>1 DEF CaseSlot, Linked, Target, FirstStep
  <2> QED
    BY <2>2, <2>3, <2>4, <2>5 DEF Slot
<1>3. ASSUME NEW c \in Cases, NEW u \in Leads, BeginAssign(k, c, u) PROVE Slot(k)'
  <2>1. /\ call'[k].pc = "assign" /\ call'[k].op = "assign"
        /\ call'[k].view.lead = "none"
    BY <1>0, <1>3 DEF BeginAssign, NoCall, NoView
  <2> QED
    BY <2>1 DEF Slot, RecordSlot, StatusSlot, LeadSlot, CaseSlot, At, Sealing
<1>4. ASSUME NEW c \in Cases, NEW e \in Evidence,
             BeginAdd(k, c, e) \/ BeginRegister(k, c)
      PROVE  Slot(k)'
  <2>1. /\ \/ call'[k].pc = "link" /\ call'[k].op = "add"
           \/ call'[k].pc = "newRow" /\ call'[k].op = "register"
        /\ call'[k].view.lead = "none" /\ call'[k].case = c
        /\ row[c].status \notin Final
    <3>1. CASE BeginAdd(k, c, e)
      BY <1>0, <3>1 DEF BeginAdd, NoCall, NoView, Closed, Final
    <3>2. CASE BeginRegister(k, c)
      BY <1>0, <3>2 DEF BeginRegister, NoCall, NoView, Final
    <3> QED
      BY <1>4, <3>1, <3>2
  <2> QED
    BY <1>1, <2>1 DEF Slot, RecordSlot, StatusSlot, LeadSlot, CaseSlot, At, Sealing,
       Owner, Target
<1>5. ASSUME NEW e \in Evidence, BeginAccess(k, e) \/ BeginAnalyse(k, e)
      PROVE  Slot(k)'
  <2>1. /\ \/ /\ call'[k].pc = "base" /\ call'[k].op = "access"
              /\ call'[k].act = "accessed"
           \/ /\ call'[k].pc = "number" /\ call'[k].op = "analyse"
              /\ call'[k].act = "analysed"
        /\ call'[k].view.lead = "none"
    <3>1. CASE BeginAccess(k, e)
      BY <1>0, <3>1 DEF BeginAccess, BeginRecord, NoCall, NoView
    <3>2. CASE BeginAnalyse(k, e)
      BY <1>0, <3>2 DEF BeginAnalyse, BeginRecord, NoCall, NoView
    <3> QED
      BY <1>5, <3>1, <3>2
  <2> QED
    BY <2>1 DEF Slot, RecordSlot, StatusSlot, LeadSlot, CaseSlot, At, Sealing, Target
<1>6. \E e \in Evidence : TRUE
  BY CaseAssumption
<1>7. Slot(k)'
  BY <1>2, <1>3, <1>4, <1>5, <1>6 DEF Begin
<1> QED
  BY <1>1, <1>7, QuietKept

\* The steps that write a case.
LEMMA RowSlot ==
  ASSUME IInv, SerialInv, NEW k \in Calls,
         Update(k) \/ Save(k) \/ Resave(k) \/ AddLead(k)
  PROVE  Kept(k)
<1> DEFINE c == call[k].case
           op == call[k].op
           v == call[k].view
<1>0. /\ TypeOK /\ OpInv(k) /\ ListInv(k) /\ Slot(k) /\ CaseTruthful
      /\ c \in Cases /\ row[c] \in RowType /\ v \in RowType /\ call[k] \in CallType
      /\ call \in [Calls -> CallType] /\ ChainWellFormed
  BY DEF IInv, CustodyInv, SerialInv, TypeOK, CallType
<1>1. row[c].lead # "none" => row[c].lead \in row[c].leads
  BY <1>0 DEF CaseTruthful, LeadIsAssigned
<1>2. ASSUME UNCHANGED <<link, chain>>, CaseTruthful', StatusesFollow,
             StatusSlot(k)', LeadSlot(k)',
             call'[k].op = op, call'[k].case = c, call'[k].plan = call[k].plan,
             call'[k].pc \notin {"base", "number", "insert", "newRow", "link", "look"},
             op \notin {"add", "register"}, ~Over(k)
      PROVE  Kept(k)
  <2>1. RecordSlot(k)'
    BY <1>2 DEF RecordSlot, At
  <2>2. CaseSlot(k)'
    BY <1>0, <1>2 DEF CaseSlot, Slot, Sealing, Linked
  <2> QED
    BY <1>0, <1>2, <2>1, <2>2, ChainsAlike DEF Kept, Slot
<1>3. CASE Update(k)
  <2> DEFINE now == [row[c] EXCEPT !.status = Target[op]]
  <2>1. /\ At(k, "update") /\ row' = [row EXCEPT ![c] = now]
        /\ UNCHANGED <<link, chain>> /\ op \in DOMAIN Target
        /\ call[k].pc = "update"
    BY <1>0, <1>3 DEF Update, OpInv, At
  <2>2. /\ now.status = Target[op] /\ now.lead = row[c].lead
        /\ now.leads = row[c].leads
    BY <1>0 DEF RowType
  <2>3. Follows(row[c].status, Target[op])
    BY <1>0, <2>1 DEF Slot, StatusSlot, Owner
  <2>4. Target[op] \in Final => Sealing(k)
    BY <2>1 DEF Target, Final, Sealing
  <2>5. CaseTruthful' /\ StatusesFollow
    BY <1>0, <1>1, <2>1, <2>2, <2>3, <2>4, CaseWritten, ThroughMeansSealed DEF Slot
  <2>6. row'[c] = now
    BY <1>0, <2>1 DEF TypeOK
  <2>7. /\ call'[k].op = op /\ call'[k].case = c /\ call'[k].plan = call[k].plan
        /\ call'[k].pc \in {"resave", "done"}
        /\ call'[k].pc = "resave" => /\ call'[k].view.status = now.status
                                     /\ call'[k].view.lead = now.lead
                                     /\ op = "close"
    <3>1. CASE op = "close" /\ now.reason # k
      <4>1. call' = [call EXCEPT ![k].pc = "resave",
                                 ![k].view = [now EXCEPT !.reason = k]]
        BY <1>3, <3>1 DEF Update
      <4>2. /\ [now EXCEPT !.reason = k].status = now.status
            /\ [now EXCEPT !.reason = k].lead = now.lead
        BY <1>0 DEF RowType
      <4>3. /\ call'[k].view = [now EXCEPT !.reason = k] /\ call'[k].pc = "resave"
            /\ call'[k].op = op /\ call'[k].case = c
            /\ call'[k].plan = call[k].plan
        <5> HIDE DEF now
        <5> QED
          BY <1>0, <4>1 DEF CallType
      <4> QED
        BY <3>1, <4>2, <4>3
    <3>2. CASE ~(op = "close" /\ now.reason # k)
      <4>1. Goto(k, "done")
        BY <1>3, <3>2 DEF Update
      <4> QED
        BY <1>0, <4>1, GotoFields
    <3> QED
      BY <3>1, <3>2
  <2>8. StatusSlot(k)'
    BY <2>6, <2>7 DEF StatusSlot, At, Owner
  <2>9. LeadSlot(k)'
    BY <1>1, <2>2, <2>6, <2>7 DEF LeadSlot, At, Owner, Over
  <2>10. op \notin {"add", "register"} /\ ~Over(k)
    BY <2>1 DEF Target, Over
  <2> QED
    BY <1>2, <2>1, <2>5, <2>7, <2>8, <2>9, <2>10
<1>4. CASE Save(k) \/ Resave(k)
  <2> DEFINE r == [v EXCEPT !.leads = v.leads \cup row[c].leads]
  <2>1. /\ call[k].pc \in {"save", "resave"} /\ row' = [row EXCEPT ![c] = r]
        /\ UNCHANGED <<link, chain>> /\ ~Over(k)
    BY <1>4 DEF Save, Resave, SaveView, At, Over
  <2>2. r.status = v.status /\ r.lead = v.lead /\ r.leads = v.leads \cup row[c].leads
    BY <1>0 DEF RowType
  <2>3. v.lead # "none" => v.lead \in row[c].leads
    BY <1>0, <2>1 DEF Slot, LeadSlot, Owner
  <2>4. /\ Follows(row[c].status, v.status)
        /\ v.status \in Final => Sealing(k) \/ row[c].status \in Final
    BY <1>0, <2>1 DEF Slot, StatusSlot, Owner, At, Follows
  <2>5. CaseTruthful' /\ StatusesFollow
    <3>1. Sealing(k) => \A e \in Linked(c) : HasRecord(e, "sealed")
      BY <1>0, <2>1, ThroughMeansSealed DEF Slot
    <3> HIDE DEF r
    <3> QED
      BY <1>0, <2>1, <2>2, <2>3, <2>4, <3>1, CaseWritten
  <2>6. row'[c] = r
    BY <1>0, <2>1 DEF TypeOK
  <2>7. /\ call'[k].op = op /\ call'[k].case = c /\ call'[k].plan = call[k].plan
        /\ call'[k].view = v
        /\ \/ call'[k].pc = "done"
           \/ call'[k].pc = "update" /\ At(k, "save") /\ op # "assign"
    <3>1. \/ Goto(k, "done")
          \/ Goto(k, "update") /\ At(k, "save") /\ op # "assign"
      BY <1>4 DEF Save, Resave, SaveView
    <3> QED
      BY <1>0, <3>1, GotoFields
  <2>8. StatusSlot(k)'
    <3>1. At(k, "save") /\ op # "assign" => Follows(v.status, Target[op])
      BY <1>0 DEF OpInv, Slot, StatusSlot
    <3> QED
      BY <2>2, <2>6, <2>7, <3>1 DEF StatusSlot, At, Owner
  <2>9. LeadSlot(k)'
    BY <2>2, <2>3, <2>6, <2>7 DEF LeadSlot, At, Owner, Over
  <2>10. op \notin {"add", "register"}
    BY <1>0, <2>1 DEF OpInv, Slot, StatusSlot, At, Target
  <2> QED
    BY <1>2, <2>1, <2>5, <2>7, <2>8, <2>9, <2>10
<1>5. CASE AddLead(k)
  <2> DEFINE u == call[k].who
  <2>1. /\ call[k].pc = "assign" /\ op = "assign" /\ UNCHANGED <<link, chain>>
        /\ ~Over(k)
    BY <1>0, <1>5 DEF AddLead, At, OpInv, Over
  <2>2. CASE u \in row[c].leads
    <3>1. Goto(k, "failed") /\ UNCHANGED row
      BY <1>5, <2>2 DEF AddLead
    <3>2. Over(k)'
      BY <1>0, <3>1, GotoFields DEF Over
    <3> QED
      BY <2>1, <3>1, <3>2, OverSlotNext, QuietKept
  <2>3. CASE u \notin row[c].leads
    <3> DEFINE r == [row[c] EXCEPT !.lead = u, !.leads = row[c].leads \cup {u}]
    <3>1. row' = [row EXCEPT ![c] = r] /\ Goto(k, "refresh")
      <4>1. row' = [row EXCEPT ![c].lead = u, ![c].leads = @ \cup {u}]
            /\ Goto(k, "refresh")
        BY <1>5, <2>3 DEF AddLead
      <4> QED
        BY <1>0, <4>1 DEF TypeOK, RowType
    <3>2. r.lead = u /\ r.leads = row[c].leads \cup {u} /\ r.status = row[c].status
      BY <1>0 DEF RowType
    <3>3. CaseTruthful' /\ StatusesFollow
      <4> HIDE DEF r
      <4> QED
        BY <1>0, <2>1, <3>1, <3>2, CaseWritten DEF Follows
    <3>4. row'[c] = r
      BY <1>0, <3>1 DEF TypeOK
    <3>5. /\ call'[k].op = op /\ call'[k].case = c /\ call'[k].plan = call[k].plan
          /\ call'[k].view = v /\ call'[k].pc = "refresh" /\ call'[k].who = u
      BY <1>0, <3>1, GotoFields
    <3>6. StatusSlot(k)'
      BY <2>1, <3>5 DEF StatusSlot, At
    <3>7. LeadSlot(k)'
      BY <1>0, <2>1, <3>2, <3>4, <3>5 DEF LeadSlot, At, Owner, Slot
    <3> QED
      BY <1>2, <2>1, <3>3, <3>5, <3>6, <3>7
  <2> QED
    BY <2>2, <2>3
<1> QED
  BY <1>3, <1>4, <1>5

\* The steps that write an evidence row.
LEMMA LinkSlot ==
  ASSUME IInv, SerialInv, NEW k \in Calls,
         Link(k) \/ \E e \in Evidence : NewRow(k, e)
  PROVE  Kept(k)
<1> DEFINE c == call[k].case
           op == call[k].op
<1>0. /\ TypeOK /\ Slot(k) /\ CaseTruthful /\ ChainWellFormed
      /\ c \in Cases /\ call[k].item \in Evidence /\ call \in [Calls -> CallType]
      /\ call[k] \in CallType
      /\ link \in [Evidence -> Cases \cup {"none", "unused", "deleted"}]
  BY DEF IInv, SerialInv, TypeOK, CallType
<1>1. /\ call[k].pc \in {"link", "newRow"} /\ op \in {"add", "register"}
      /\ row[c].status \notin Final /\ UNCHANGED <<row, chain>>
    BY <1>0 DEF Link, NewRow, At, Slot, CaseSlot, Over, Owner
<1>2. ASSUME call'[k].op = op, call'[k].case = c, call'[k].view = call[k].view,
             call'[k].pc \in {"look", "done", "failed", "count"},
             \A d \in Cases : Linked(d)' \subseteq Linked(d) \/ d = c
      PROVE  Kept(k)
  <2>1. Slot(k)'
    BY <1>0, <1>1, <1>2
       DEF Slot, RecordSlot, StatusSlot, LeadSlot, CaseSlot, At, Sealing, Owner, Over,
           Target
  <2>2. ClosedIsSealed'
    <3>1. \A d \in Cases : Closed(d)' => Closed(d) /\ d # c
      BY <1>1 DEF Closed, Final
    <3>2. \A e : HasRecord(e, "sealed")' = HasRecord(e, "sealed")
      BY <1>1 DEF HasRecord, Entries
    <3> QED
      BY <1>0, <1>2, <3>1, <3>2 DEF CaseTruthful, ClosedIsSealed
  <2>3. LeadIsAssigned' /\ StatusesFollow
    BY <1>0, <1>1 DEF CaseTruthful, LeadIsAssigned, StatusesFollow, Follows
  <2> QED
    BY <1>0, <1>1, <2>1, <2>2, <2>3, ChainsAlike DEF Kept, CaseTruthful
<1>3. CASE Link(k)
  <2>1. CASE Present(call[k].item)
    <3>1. link' = [link EXCEPT ![call[k].item] = c]
          /\ Goto(k, IF op = "add" THEN "look" ELSE "done")
      BY <1>3, <2>1 DEF Link
    <3>2. \A d \in Cases : Linked(d)' \subseteq Linked(d) \/ d = c
      BY <1>0, <3>1 DEF Linked
    <3> QED
      BY <1>0, <1>2, <3>1, <3>2, GotoFields
  <2>2. CASE ~Present(call[k].item)
    <3>1. UNCHANGED link /\ Goto(k, "failed")
      BY <1>3, <2>2 DEF Link
    <3>2. \A d \in Cases : Linked(d)' \subseteq Linked(d)
      BY <3>1 DEF Linked
    <3> QED
      BY <1>0, <1>2, <3>1, <3>2, GotoFields
  <2> QED
    BY <2>1, <2>2
<1>4. ASSUME NEW e \in Evidence, NewRow(k, e) PROVE Kept(k)
  <2>1. link' = [link EXCEPT ![e] = "none"]
    BY <1>4 DEF NewRow, Register
  <2>2. \A d \in Cases : Linked(d)' \subseteq Linked(d)
    BY <1>0, <2>1, CaseAssumption DEF Linked
  <2>3. /\ call'[k].op = op /\ call'[k].case = c /\ call'[k].view = call[k].view
        /\ call'[k].pc = "count"
    BY <1>0, <1>4 DEF NewRow, CallType
  <2> QED
    BY <1>2, <2>2, <2>3
<1> QED
  BY <1>3, <1>4

\* When numbers run from 1, the next one is the length plus one.
LEMMA NextIsLength ==
  ASSUME TypeOK, NumbersSequential, NEW e \in Evidence
  PROVE  NextNumber(e) = Len(chain[e]) + 1
<1> DEFINE len == Len(chain[e])
<1>1. /\ len \in Nat /\ DOMAIN chain[e] = 1..len
      /\ chain[e] # <<>> => len >= 1
  <2>1. chain[e] \in Seq([n : Nat, action : Actions])
    BY DEF TypeOK
  <2> QED
    BY <2>1
<1>2. Numbers(e) = 1..len
  BY <1>1 DEF Numbers, NumbersSequential
<1>3. CASE chain[e] = <<>>
  BY <1>1, <1>3 DEF NextNumber
<1>4. CASE chain[e] # <<>>
  <2>1. len \in 1..len
    BY <1>1, <1>4
  <2>2. IsTop(e, len) /\ \A x \in Numbers(e) : IsTop(e, x) => x = len
    <3> HIDE DEF len
    <3>1. len \in Numbers(e) /\ \A x \in Numbers(e) : x \in Nat /\ x <= len
      BY <1>1, <1>2, <2>1
    <3>2. ASSUME NEW x \in Numbers(e), IsTop(e, x) PROVE x = len
      <4>1. len <= x /\ x <= len /\ x \in Nat
        BY <3>1, <3>2 DEF IsTop
      <4> QED
        BY <1>1, <4>1
    <3> QED
      BY <3>1, <3>2 DEF IsTop
  <2>3. (CHOOSE x \in Numbers(e) : IsTop(e, x)) = len
    BY <1>2, <2>1, <2>2
  <2> QED
    BY <1>4, <2>3 DEF NextNumber
<1> QED
  BY <1>3, <1>4

\* The steps that only change what the call holds.
LEMMA QuietSlot ==
  ASSUME IInv, SerialInv, NEW k \in Calls,
         \/ RefreshLead(k) \/ LookAtAdded(k) \/ AllSealed(k) \/ CountRecords(k)
         \/ CheckBaseline(k) \/ ReadNumber(k) \/ Abort(k)
         \/ \E e \in Evidence : SkipSealed(k, e) \/ TakeOpen(k, e)
  PROVE  Kept(k)
<1> DEFINE c == call[k].case
           op == call[k].op
           v == call[k].view
<1>0. /\ TypeOK /\ OpInv(k) /\ Slot(k) /\ CaseTruthful /\ NumbersSequential
      /\ c \in Cases /\ row[c] \in RowType /\ v \in RowType
      /\ call[k] \in CallType /\ call[k].item \in Evidence
      /\ call \in [Calls -> CallType]
  BY DEF IInv, CustodyInv, SerialInv, TypeOK, CallType, ChainWellFormed
<1>1. UNCHANGED <<row, link, chain>>
  BY DEF RefreshLead, LookAtAdded, AllSealed, CountRecords, CheckBaseline,
     ReadNumber, Abort, SkipSealed, TakeOpen
\* A move that keeps what the call says of its case.
<1>2. ASSUME RecordSlot(k)', StatusSlot(k)', call'[k].op = op, call'[k].case = c,
             call'[k].view.lead = v.lead, call'[k].plan = call[k].plan, ~Over(k),
             call'[k].pc \notin {"refresh", "newRow", "link", "look"}
      PROVE  Slot(k)'
  <2>1. LeadSlot(k)'
    BY <1>0, <1>1, <1>2 DEF LeadSlot, Slot, Owner, At
  <2>2. CaseSlot(k)'
    BY <1>0, <1>1, <1>2 DEF CaseSlot, Slot, Owner, Sealing, Linked
  <2> QED
    BY <1>2, <2>1, <2>2 DEF Slot
\* Among them those that stay within the records of a call.
<1>3. ASSUME RecordSlot(k)', call'[k].op = op, call'[k].case = c,
             call'[k].view = v, call'[k].plan = call[k].plan,
             call[k].pc \in {"sealing", "look", "count", "base", "number"},
             op \in DOMAIN Target => call[k].pc # "look",
             call'[k].pc \in {"sealing", "count", "base", "number", "insert", "update"}
      PROVE  Slot(k)'
  <2>1. StatusSlot(k)'
    BY <1>0, <1>1, <1>3 DEF StatusSlot, Slot, Owner, At
  <2>2. ~Over(k)
    BY <1>3 DEF Over
  <2> QED
    BY <1>2, <1>3, <2>1, <2>2
<1>4. CASE RefreshLead(k)
  <2>1. At(k, "refresh") /\ op = "assign"
    BY <1>0, <1>4 DEF RefreshLead, OpInv, At
  <2>2. CASE row[c].lead = call[k].who
    <3>1. Over(k)'
      BY <1>0, <1>4, <2>2, GotoFields DEF RefreshLead, Over
    <3> QED
      BY <1>1, <3>1, OverSlotNext, QuietKept
  <2>3. CASE row[c].lead # call[k].who
    <3> DEFINE held == [row[c] EXCEPT !.lead = call[k].who]
    <3>1. call' = [call EXCEPT ![k].pc = "save", ![k].view = held]
      BY <1>4, <2>3 DEF RefreshLead
    <3>2. held.lead = call[k].who /\ held.status = row[c].status
      BY <1>0 DEF RowType
    <3>3. /\ call'[k].pc = "save" /\ call'[k].view = held /\ call'[k].op = op
          /\ call'[k].case = c
      <4> HIDE DEF held
      <4> QED
        BY <1>0, <3>1 DEF CallType
    <3>4. StatusSlot(k)'
      BY <1>1, <2>1, <3>2, <3>3 DEF StatusSlot, Owner, At, Follows, Target
    <3>5. LeadSlot(k)'
      BY <1>0, <1>1, <2>1, <3>2, <3>3 DEF LeadSlot, Owner, At, Slot
    <3>6. RecordSlot(k)' /\ CaseSlot(k)'
      BY <2>1, <3>3 DEF RecordSlot, CaseSlot, At, Sealing
    <3> QED
      BY <1>1, <3>4, <3>5, <3>6, QuietKept DEF Slot
  <2> QED
    BY <2>2, <2>3
<1>5. CASE LookAtAdded(k)
  <2>1. At(k, "look") /\ op \in {"add", "register"}
    BY <1>0, <1>5 DEF LookAtAdded, At, Slot, CaseSlot
  <2>2. CASE chain[call[k].item] = <<>>
    <3>1. /\ call'[k].pc = "count" /\ call'[k].op = op /\ call'[k].case = c
          /\ call'[k].view = v /\ call'[k].plan = call[k].plan
      BY <1>0, <1>5, <2>2 DEF LookAtAdded, CallType
    <3>2. RecordSlot(k)'
      BY <3>1 DEF RecordSlot, At
    <3>3. StatusSlot(k)' /\ ~Over(k)
      BY <2>1, <3>1 DEF StatusSlot, At, Over, Target
    <3> QED
      BY <1>1, <1>2, <3>1, <3>2, <3>3, QuietKept
  <2>3. CASE chain[call[k].item] # <<>>
    <3>1. Over(k)'
      BY <1>0, <1>5, <2>3, GotoFields DEF LookAtAdded, Over
    <3> QED
      BY <1>1, <3>1, OverSlotNext, QuietKept
  <2> QED
    BY <2>2, <2>3
<1>6. CASE AllSealed(k)
  <2>1. At(k, "sealing") /\ Sealing(k) /\ op \in DOMAIN Target
    BY <1>0, <1>6 DEF AllSealed, OpInv, Sealing, At, Target
  <2>2. CASE op = "close"
    <3>1. /\ call'[k].pc = "save" /\ call'[k].op = op /\ call'[k].case = c
          /\ call'[k].view.status = "closed" /\ call'[k].view.lead = v.lead
          /\ call'[k].plan = call[k].plan
      BY <1>0, <1>6, <2>2 DEF AllSealed, CallType, RowType
    <3>2. Follows(row[c].status, "closed")
      BY <1>0, <2>1, <2>2 DEF Slot, StatusSlot, Owner, At, Target
    <3>3. StatusSlot(k)'
      BY <1>1, <2>2, <3>1, <3>2 DEF StatusSlot, Owner, At, Follows, Target, Sealing
    <3>4. RecordSlot(k)' /\ ~Over(k)
      BY <2>1, <3>1 DEF RecordSlot, At, Over
    <3> QED
      BY <1>1, <1>2, <3>1, <3>3, <3>4, QuietKept
  <2>3. CASE op # "close"
    <3>1. Goto(k, "update")
      BY <1>6, <2>3 DEF AllSealed
    <3>2. /\ call'[k].pc = "update" /\ call'[k].op = op /\ call'[k].case = c
          /\ call'[k].view = v /\ call'[k].plan = call[k].plan
      BY <1>0, <3>1, GotoFields
    <3>3. RecordSlot(k)'
      BY <3>2 DEF RecordSlot, At
    <3> QED
      BY <1>1, <1>3, <2>1, <3>2, <3>3, QuietKept DEF At
  <2> QED
    BY <2>2, <2>3
<1>7. CASE CountRecords(k)
  <2>1. call[k].pc = "count" /\ call[k].act = "acquired"
    BY <1>0, <1>7 DEF CountRecords, OpInv, At
  <2>2. CASE chain[call[k].item] = <<>>
    <3>1. Goto(k, "number")
      BY <1>7, <2>2 DEF CountRecords
    <3>2. /\ call'[k].pc = "number" /\ call'[k].item = call[k].item
          /\ call'[k].op = op /\ call'[k].case = c
          /\ call'[k].view = v /\ call'[k].plan = call[k].plan
      BY <1>0, <3>1, GotoFields
    <3>3. RecordSlot(k)'
      BY <1>1, <2>2, <3>2 DEF RecordSlot, At
    <3> QED
      BY <1>1, <1>3, <2>1, <3>2, <3>3, QuietKept
  <2>3. CASE chain[call[k].item] # <<>>
    <3>1. Over(k)'
      BY <1>0, <1>7, <2>3, GotoFields DEF CountRecords, Over
    <3> QED
      BY <1>1, <3>1, OverSlotNext, QuietKept
  <2> QED
    BY <2>2, <2>3
<1>8. CASE CheckBaseline(k)
  <2>1. call[k].pc = "base" /\ call[k].act # "acquired"
    BY <1>0, <1>8 DEF CheckBaseline, Slot, RecordSlot, At
  <2>2. Goto(k, "number") \/ Goto(k, "failed")
    BY <1>8 DEF CheckBaseline
  <2>3. CASE Goto(k, "number")
    <3>1. /\ call'[k].pc = "number" /\ call'[k].act = call[k].act
          /\ call'[k].op = op /\ call'[k].case = c
          /\ call'[k].view = v /\ call'[k].plan = call[k].plan
      BY <1>0, <2>3, GotoFields
    <3>2. RecordSlot(k)'
      BY <2>1, <3>1 DEF RecordSlot, At
    <3> QED
      BY <1>1, <1>3, <2>1, <3>1, <3>2, QuietKept
  <2>4. CASE Goto(k, "failed")
    <3>1. Over(k)'
      BY <1>0, <2>4, GotoFields DEF Over
    <3> QED
      BY <1>1, <3>1, OverSlotNext, QuietKept
  <2> QED
    BY <2>2, <2>3, <2>4
<1>9. CASE ReadNumber(k)
  <2> DEFINE n == NextNumber(call[k].item)
  <2>1. call[k].pc = "number" /\ n = Len(chain[call[k].item]) + 1
    BY <1>0, <1>9, NextIsLength DEF ReadNumber, At
  <2>2. call' = [call EXCEPT ![k].num = n, ![k].pc = "insert"]
    BY <1>9 DEF ReadNumber
  <2>3. /\ call'[k].pc = "insert" /\ call'[k].num = n
        /\ call'[k].item = call[k].item /\ call'[k].act = call[k].act
        /\ call'[k].op = op /\ call'[k].case = c
        /\ call'[k].view = v /\ call'[k].plan = call[k].plan
    <3> HIDE DEF n
    <3> QED
      BY <1>0, <2>2 DEF CallType
  <2>4. RecordSlot(k)'
    BY <1>0, <1>1, <2>1, <2>3 DEF RecordSlot, At, Slot
  <2> QED
    BY <1>1, <1>3, <2>1, <2>3, <2>4, QuietKept
<1>10. CASE Abort(k)
  <2>1. Over(k)'
    BY <1>0, <1>10, GotoFields DEF Abort, Over
  <2> QED
    BY <1>1, <2>1, OverSlotNext, QuietKept
<1>11. ASSUME NEW e \in Evidence, SkipSealed(k, e) PROVE Kept(k)
  <2>1. /\ call[k].pc = "sealing" /\ call'[k].pc = "sealing"
        /\ call'[k].op = op /\ call'[k].case = c
        /\ call'[k].view = v /\ call'[k].plan = call[k].plan
    BY <1>0, <1>11 DEF SkipSealed, At, CallType
  <2>2. RecordSlot(k)'
    BY <2>1 DEF RecordSlot, At
  <2> QED
    BY <1>1, <1>3, <2>1, <2>2, QuietKept
<1>12. ASSUME NEW e \in Evidence, TakeOpen(k, e) PROVE Kept(k)
  <2>1. /\ call[k].pc = "sealing"
        /\ \/ call'[k].pc = "count"
           \/ call'[k].pc = "base" /\ call'[k].act = "sealed"
        /\ call'[k].op = op /\ call'[k].case = c
        /\ call'[k].view = v /\ call'[k].plan = call[k].plan
    BY <1>0, <1>12 DEF TakeOpen, At, CallType
  <2>2. RecordSlot(k)'
    BY <2>1 DEF RecordSlot, At
  <2> QED
    BY <1>1, <1>3, <2>1, <2>2, QuietKept
<1> QED
  BY <1>4, <1>5, <1>6, <1>7, <1>8, <1>9, <1>10, <1>11, <1>12

\* The record that is inserted has the next number, and is an acquisition only
\* when it is the first.
LEMMA InsertSlot ==
  ASSUME IInv, SerialInv, NEW k \in Calls, InsertRecord(k)
  PROVE  Kept(k)
<1>i. PICK i \in Evidence : i = call[k].item
  BY DEF IInv, TypeOK, CallType
<1>r. PICK r : r = [n |-> call[k].num, action |-> call[k].act]
  OBVIOUS
<1>0. /\ TypeOK /\ OpInv(k) /\ Slot(k) /\ CaseTruthful /\ ChainWellFormed
      /\ call[k] \in CallType /\ call \in [Calls -> CallType]
  BY DEF IInv, CustodyInv, SerialInv, TypeOK, CallType
<1>1. /\ call[k].pc = "insert" /\ UNCHANGED <<row, link>>
      /\ call' = [call EXCEPT ![k] = AfterRecord(k)]
  BY DEF InsertRecord, At
<1>2. /\ call[k].num = Len(chain[i]) + 1
      /\ call[k].act = "acquired" => chain[i] = <<>>
  BY <1>i, <1>0, <1>1 DEF Slot, RecordSlot, At
<1>3. /\ \A e \in Evidence \ {i} : chain'[e] = chain[e]
      /\ chain'[i] = Append(chain[i], r)
      /\ Entries(i)' = Entries(i) \cup {r}
  <2>1. ASSUME NEW e \in Evidence \ {i} PROVE chain'[e] = chain[e]
    BY <1>i, <1>r, <1>0, InsertFacts
  <2>2. chain'[i] = Append(chain[i], r) /\ Entries(i)' = Entries(i) \cup {r}
    BY <1>i, <1>r, <1>0, InsertFacts
  <2> QED
    BY <2>1, <2>2
<1>4. NumbersSequential'
  <2>1. ASSUME NEW e \in Evidence \ {i}, NEW x \in DOMAIN chain'[e]
        PROVE  chain'[e][x].n = x
    BY <1>0, <1>3 DEF ChainWellFormed, NumbersSequential
  <2>2. ASSUME NEW x \in DOMAIN chain'[i] PROVE chain'[i][x].n = x
    <3> DEFINE s == chain[i]
    <3>1. s \in Seq([n : Nat, action : Actions]) /\ \A y \in DOMAIN s : s[y].n = y
      BY <1>0 DEF TypeOK, ChainWellFormed, NumbersSequential
    <3>2. r.n = Len(s) + 1
      BY <1>r, <1>2
    <3> HIDE DEF s
    <3>3. /\ \A y \in DOMAIN s : Append(s, r)[y] = s[y]
          /\ Append(s, r)[Len(s) + 1] = r
          /\ DOMAIN Append(s, r) = DOMAIN s \cup {Len(s) + 1}
      BY <3>1
    <3>4. x \in DOMAIN Append(s, r)
      BY <1>3, <2>2 DEF s
    <3>5. Append(s, r)[x].n = x
      BY <3>1, <3>2, <3>3, <3>4
    <3> QED
      BY <1>3, <3>5 DEF s
  <2> QED
    BY <2>1, <2>2 DEF NumbersSequential
<1>5. AcquiredFirst'
  <2> SUFFICES ASSUME NEW e \in Evidence, NEW x \in Entries(e)',
                      x.action = "acquired"
               PROVE  x.n = 1
    BY DEF AcquiredFirst
  <2>1. x \in Entries(e) \/ (e = i /\ x = r)
    <3>1. e # i => Entries(e)' = Entries(e)
      BY <1>3 DEF Entries
    <3> QED
      BY <1>3, <3>1
  <2>2. x \in Entries(e) => x.n = 1
    BY <1>0 DEF ChainWellFormed, AcquiredFirst
  <2>3. x = r => x.n = 1
    <3>1. chain[i] = <<>> => Len(chain[i]) = 0
      OBVIOUS
    <3> QED
      BY <1>r, <1>2, <3>1
  <2> QED
    BY <2>1, <2>2, <2>3
<1>6. CaseTruthful' /\ StatusesFollow
  <2>1. \A e \in Evidence : HasRecord(e, "sealed") => HasRecord(e, "sealed")'
    <3>1. \A e \in Evidence : Entries(e) \subseteq Entries(e)'
      BY <1>3 DEF Entries
    <3> QED
      BY <3>1 DEF HasRecord
  <2>2. /\ \A c : Linked(c)' = Linked(c) /\ Closed(c)' = Closed(c)
        /\ \A c : Linked(c) \subseteq Evidence
    BY <1>1 DEF Linked, Closed
  <2> QED
    BY <1>0, <1>1, <2>1, <2>2
       DEF CaseTruthful, ClosedIsSealed, LeadIsAssigned, StatusesFollow, Follows
<1>7. Slot(k)'
  <2> DEFINE then == AfterRecord(k)
  <2>1. call'[k] = then
    BY <1>0, <1>1
  <2>2. /\ then.op = call[k].op /\ then.case = call[k].case
        /\ then.view = call[k].view /\ then.plan = call[k].plan
        /\ \/ then.pc = "sealing"
           \/ then.pc = "base" /\ then.act = "sealed"
           \/ then.pc = "link" /\ then.op = "register"
           \/ then.pc = "done"
    BY <1>0 DEF AfterRecord, CallType
  <2> HIDE DEF then
  <2>3. RecordSlot(k)'
    BY <2>1, <2>2 DEF RecordSlot, At
  <2>4. StatusSlot(k)'
    BY <1>0, <1>1, <2>1, <2>2 DEF StatusSlot, Slot, Owner, At
  <2>5. LeadSlot(k)'
    BY <1>0, <1>1, <2>1, <2>2 DEF LeadSlot, Slot, Owner, At, Over
  <2>6. CaseSlot(k)'
    BY <1>0, <1>1, <2>1, <2>2 DEF CaseSlot, Slot, Owner, Over, Sealing, Linked
  <2> QED
    BY <2>3, <2>4, <2>5, <2>6 DEF Slot
<1> QED
  BY <1>4, <1>5, <1>6, <1>7 DEF Kept, ChainWellFormed

-----------------------------------------------------------------------------
(* The theorems *)

\* What the steps outside of calls, each of which waits for the calls, leave.
LEMMA OutsideSteps ==
  ASSUME IInv, SerialInv, ~Overlap,
         \/ \E c \in Cases, u \in Leads : RemoveLead(c, u)
         \/ \E e \in Evidence : PlainRegister(e) \/ DeleteEvidence(e)
  PROVE  SerialInv' /\ StatusesFollow
<1>0. TypeOK /\ CaseTruthful /\ ChainWellFormed
  BY DEF IInv, SerialInv
<1>1. UNCHANGED <<chain, call>> /\ \A x \in Calls : Over(x)
  BY DEF RemoveLead, PlainRegister, DeleteEvidence
<1>2. Alone' /\ \A x \in Calls : Slot(x)'
  BY <1>1, OverSlotNext DEF Over, Alone
<1>3. ASSUME CaseTruthful', StatusesFollow PROVE SerialInv' /\ StatusesFollow
  BY <1>0, <1>1, <1>2, <1>3, ChainsAlike DEF SerialInv
<1>4. ASSUME NEW c \in Cases, NEW u \in Leads, RemoveLead(c, u)
      PROVE  SerialInv' /\ StatusesFollow
  <2> DEFINE left == [row[c] EXCEPT
                        !.leads = row[c].leads \ {u},
                        !.lead = IF row[c].lead = u THEN "none" ELSE row[c].lead]
  <2>1. row' = [row EXCEPT ![c] = left] /\ UNCHANGED <<link, chain>>
    BY <1>0, <1>4 DEF RemoveLead
  <2>2. /\ left.leads = row[c].leads \ {u} /\ left.status = row[c].status
        /\ left.lead = IF row[c].lead = u THEN "none" ELSE row[c].lead
    BY <1>0 DEF TypeOK, RowType
  <2>3. row[c].lead # "none" => row[c].lead \in row[c].leads
    BY <1>0 DEF CaseTruthful, LeadIsAssigned
  <2> HIDE DEF left
  <2>4. CaseTruthful' /\ StatusesFollow
    BY <1>0, <2>1, <2>2, <2>3, CaseWritten DEF Follows
  <2> QED
    BY <1>3, <2>4
<1>5. ASSUME NEW e \in Evidence, PlainRegister(e) \/ DeleteEvidence(e)
      PROVE  SerialInv' /\ StatusesFollow
  <2>1. UNCHANGED <<row, chain>>
    BY <1>5 DEF PlainRegister, DeleteEvidence
  <2>2. \A c \in Cases : Linked(c)' \subseteq Linked(c)
    BY <1>0, <1>5, CaseAssumption
       DEF TypeOK, PlainRegister, DeleteEvidence, Register, Linked
  <2>3. CaseTruthful' /\ StatusesFollow
    BY <1>0, <2>1, <2>2
       DEF CaseTruthful, ClosedIsSealed, LeadIsAssigned, Closed, HasRecord, Entries,
           StatusesFollow, Follows
  <2> QED
    BY <1>3, <2>3
<1> QED
  BY <1>4, <1>5

\* With one request at a time every step keeps the invariant.
LEMMA SerialStep ==
  ASSUME ~Overlap, IInv, SerialInv, [Next]_vars
  PROVE  SerialInv' /\ StatusesFollow
<1>0. TypeOK /\ Alone
  BY DEF IInv, SerialInv
<1>1. ASSUME NEW k \in Calls, Kept(k),
             \A x \in Calls \ {k} : Over(x) /\ call'[x] = call[x]
      PROVE  SerialInv' /\ StatusesFollow
  BY <1>1, OneActs DEF Kept, SerialInv
<1>2. ASSUME NEW k \in Calls, Begin(k) PROVE SerialInv' /\ StatusesFollow
  <2>1. \A x \in Calls : Over(x)
    BY <1>2, CaseAssumption
       DEF Begin, BeginChange, BeginAssign, BeginAdd, BeginRegister, BeginAccess,
           BeginAnalyse, BeginRecord, Arrives
  <2>2. \A x \in Calls \ {k} : call'[x] = call[x]
    BY <1>2, BeginInv
  <2> QED
    BY <1>0, <1>1, <1>2, <2>1, <2>2, BeginSlot
<1>3. ASSUME NEW k \in Calls, CallStep(k) PROVE SerialInv' /\ StatusesFollow
  <2>1. ~Over(k)
    BY <1>3 DEF CallStep, Update, Save, Resave, SaveView, AddLead, RefreshLead, Link,
       LookAtAdded, NewRow, SkipSealed, TakeOpen, AllSealed, CountRecords,
       CheckBaseline, ReadNumber, InsertRecord, Abort, At, Over
  <2>2. \A x \in Calls \ {k} : Over(x)
    BY <1>0, <2>1 DEF Alone
  <2>3. \A x \in Calls \ {k} : call'[x] = call[x]
    <3>1. CASE InsertRecord(k)
      BY <1>0, <3>1 DEF InsertRecord, TypeOK
    <3>2. CASE ~InsertRecord(k)
      BY <1>3, <3>2, QuietSteps
    <3> QED
      BY <3>1, <3>2
  <2>4. Kept(k)
    BY <1>3, RowSlot, LinkSlot, QuietSlot, InsertSlot DEF CallStep
  <2> QED
    BY <1>1, <2>2, <2>3, <2>4
<1>4. CASE UNCHANGED vars
  <2>1. ChainWellFormed' /\ CaseTruthful' /\ StatusesFollow
    BY <1>4, ChainsAlike, CasesAlike DEF vars, SerialInv
  <2>2. Alone' /\ \A x \in Calls : Slot(x)'
    BY <1>4 DEF vars, SerialInv, Alone, Over, Slot, RecordSlot, StatusSlot, LeadSlot,
       CaseSlot, At, Owner, Sealing, Linked
  <2> QED
    BY <2>1, <2>2 DEF SerialInv
<1> QED
  BY <1>2, <1>3, <1>4, OutsideSteps DEF Next

\* No case is closed yet, no chain begun and no call under way.
LEMMA InitSerial == Init => SerialInv
<1> SUFFICES ASSUME Init PROVE SerialInv
  OBVIOUS
<1>1. \A e \in Evidence : chain[e] = <<>> /\ Entries(e) = {}
  BY DEF Init, Entries
<1>2. ChainWellFormed
  BY <1>1 DEF ChainWellFormed, NumbersSequential, AcquiredFirst
<1>3. \A c \in Cases :
        /\ row[c].status \notin Final
        /\ row[c].lead # "none" => row[c].lead \in row[c].leads
  BY CaseAssumption DEF Init, NoView, Final
<1>4. CaseTruthful
  BY <1>3 DEF CaseTruthful, ClosedIsSealed, LeadIsAssigned, Closed, Final
<1>5. \A k \in Calls : Over(k)
  BY DEF Init, NoCall, Over
<1> QED
  BY <1>2, <1>4, <1>5, OverSlot DEF SerialInv, Alone

\* With requests served one at a time the inductive invariant holds.
THEOREM SerialHolds == ~Overlap => (Spec => [](IInv /\ SerialInv))
<1> SUFFICES ASSUME ~Overlap PROVE Spec => [](IInv /\ SerialInv)
  OBVIOUS
<1>1. Init => IInv /\ SerialInv
  BY InitIInv, InitSerial
<1>2. IInv /\ SerialInv /\ [Next]_vars => (IInv /\ SerialInv)'
  BY NextIInv, SerialStep
<1> QED
  BY <1>1, <1>2, PTL DEF Spec

\* custody_repo.add_record and custody_service.record_acquisition keep their word
\* when requests are served one at a time: a chain's numbers are 1, 2, 3 and its
\* only acquisition is number 1, whatever calls fail on their way.
THEOREM SerialChains == ~Overlap => (Spec => []ChainWellFormed)
<1>1. IInv /\ SerialInv => ChainWellFormed
  BY DEF SerialInv
<1> QED
  BY <1>1, SerialHolds, PTL

\* So does close_case: the items of a closed case are sealed, and the lead a case
\* names is assigned to it.
THEOREM SerialCases == ~Overlap => (Spec => []CaseTruthful)
<1>1. IInv /\ SerialInv => CaseTruthful
  BY DEF SerialInv
<1> QED
  BY <1>1, SerialHolds, PTL

\* And so does _validate_transition: a case's status only moves along
\* CASE_STATUS_TRANSITIONS.
THEOREM SerialTransitions == ~Overlap => (Spec => TransitionsEnforced)
<1> SUFFICES ASSUME ~Overlap PROVE Spec => TransitionsEnforced
  OBVIOUS
<1> DEFINE Moves == \A c \in Cases : row'[c].status # row[c].status
                      => row'[c].status \in CaseNext[row[c].status]
<1>1. IInv /\ SerialInv /\ [Next]_vars => [Moves]_vars
  BY SerialStep DEF StatusesFollow, Follows, Permitted
<1>2. Spec => [][Moves]_vars
  BY <1>1, SerialHolds, PTL DEF Spec
<1> QED
  BY <1>2 DEF TransitionsEnforced
==============================================================================
