----------------------------- MODULE CaseCustody -----------------------------
(***************************************************************************)
(* Cases, their evidence and the chain of custody: CaseService, the        *)
(* registration and verification paths of EvidenceManagementService,       *)
(* ChainOfCustodyService and their repositories (src/src/dfat/services,    *)
(* evidence_management, database/repositories).                            *)
(*                                                                         *)
(* Every operation is a request that reads, awaits and writes, so a call k *)
(* holds what it has read: call[k].pc names the await before its next      *)
(* database access. A read of a case, a commit and a read of a chain are   *)
(* atomic. What ends a call early (a database error, a hash that differs,  *)
(* the death of the process) leaves behind what it has committed.          *)
(***************************************************************************)
EXTENDS Naturals, Sequences

CONSTANTS
  Cases, Evidence,
  Leads,        \* users who may be made lead investigator
  Calls,        \* the requests that are made
  Ops,          \* the operations they may ask for
  FirstStatus,  \* status of the cases when the first request arrives
  Overlap,      \* may requests be served at the same time?
  MayFail       \* may a call end at any of its awaits?

CaseStatuses ==
  {"created", "open", "active", "under_review", "closed", "archived"}
AllOps == {"open", "activate", "review", "reopen", "close", "archive", "assign",
           "add", "register", "access", "analyse", "remove"}

ASSUME CaseAssumption ==
  /\ Cases # {} /\ Evidence # {} /\ Leads # {}
  /\ "none" \notin Cases \cup Leads \cup Calls
  /\ Cases \cap {"unused", "deleted"} = {}
  /\ Ops \subseteq AllOps
  /\ FirstStatus \in CaseStatuses \ {"closed", "archived"}
  /\ Overlap \in BOOLEAN /\ MayFail \in BOOLEAN

VARIABLES
  row,    \* the cases table: status, lead_investigator_id, the users actively
          \* assigned with role lead (case_investigators), closure reason
  link,   \* evidence_records: the case_id of each item ("none" while it is null),
          \* "unused" before the item has a row and "deleted" when that is gone
  chain,  \* chain_of_custody: records of each item in the order of insertion
  call    \* what each request is doing

vars == <<row, link, chain, call>>

-----------------------------------------------------------------------------
\* CASE_STATUS_TRANSITIONS.
CaseNext ==
  [created      |-> {"open"},
   open         |-> {"active", "closed"},
   active       |-> {"under_review", "closed"},
   under_review |-> {"active", "closed"},
   closed       |-> {"archived"},
   archived     |-> {}]

\* _validate_transition.
BadPermitted(from, to) == to \in CaseNext[from] \cup {"active"}
Permitted(from, to)    == to \in CaseNext[from]

\* The status each lifecycle operation leads to.
Target == [open |-> "open", activate |-> "active", review |-> "under_review",
           reopen |-> "active", close |-> "closed", archive |-> "archived"]

\* reopen saves the case first, close and archive seal the evidence first.
FirstStep == [open |-> "update", activate |-> "update", review |-> "update",
              reopen |-> "save", close |-> "sealing", archive |-> "sealing"]

Closed(c) == row[c].status \in {"closed", "archived"}
HasLead(c) == row[c].lead # "none" \/ row[c].leads # {}
Present(e) == link[e] \notin {"unused", "deleted"}
Linked(c) == {e \in Evidence : link[e] = c}

Numbers(e) == {chain[e][i].n : i \in DOMAIN chain[e]}
Entries(e) == {chain[e][i] : i \in DOMAIN chain[e]}
IsTop(e, n)    == n \in Numbers(e) /\ \A x \in Numbers(e) : x <= n
IsBottom(e, n) == n \in Numbers(e) /\ \A x \in Numbers(e) : n <= x

\* chain[0] and chain[-1]: chains are read ORDER BY entry_number, and entries
\* of equal number come in any order.
FirstActions(e) == {r.action : r \in {x \in Entries(e) : IsBottom(e, x.n)}}
LastActions(e)  == {r.action : r \in {x \in Entries(e) : IsTop(e, x.n)}}

\* _next_entry_number: the largest number, or 0, plus one.
BadNextNumber(e) ==
  IF chain[e] = <<>> THEN 2 ELSE (CHOOSE n \in Numbers(e) : IsTop(e, n)) + 1
NextNumber(e) ==
  IF chain[e] = <<>> THEN 1 ELSE (CHOOSE n \in Numbers(e) : IsTop(e, n)) + 1

NoView == [status |-> "created", lead |-> "none", leads |-> {}, reason |-> "none"]
FirstLead == CHOOSE u \in Leads : TRUE
NoCall == [pc |-> "idle", op |-> "none", case |-> CHOOSE c \in Cases : TRUE,
           item |-> CHOOSE e \in Evidence : TRUE, view |-> NoView, plan |-> {},
           todo |-> {}, act |-> "none", num |-> 0, who |-> FirstLead]

Init ==
  /\ row = [c \in Cases |->
       IF FirstStatus = "created" THEN NoView
       ELSE [NoView EXCEPT !.status = FirstStatus, !.lead = FirstLead,
                           !.leads = {FirstLead}]]
  /\ link = [e \in Evidence |-> "unused"]
  /\ chain = [e \in Evidence |-> <<>>]
  /\ call = [k \in Calls |-> NoCall]

-----------------------------------------------------------------------------
(* Requests arrive; one that is refused at once leaves no trace *)

At(k, where) == call[k].pc = where
Over(k)      == call[k].pc \in {"idle", "done", "failed"}

\* A request is taken up when its slot is free.
Arrives(k, o) ==
  /\ At(k, "idle") /\ o \in Ops
  /\ Overlap \/ \A x \in Calls : Over(x)

Goto(k, where) == call' = [call EXCEPT ![k].pc = where]

\* open_case, activate_case, submit_for_review, reopen_case, close_case,
\* archive_case: the case is read and the transition is validated.
BeginChange(k, o, c) ==
  /\ Arrives(k, o) /\ o \in DOMAIN Target
  /\ Permitted(row[c].status, Target[o])
  /\ o = "open" => HasLead(c)
  /\ call' = [call EXCEPT ![k] =
       [NoCall EXCEPT !.pc = FirstStep[o], !.op = o, !.case = c,
                      !.view = row[c], !.plan = Linked(c), !.todo = Linked(c)]]
  /\ UNCHANGED <<row, link, chain>>

\* assign_investigator with role lead.
BeginAssign(k, c, u) ==
  /\ Arrives(k, "assign") /\ ~Closed(c)
  /\ call' = [call EXCEPT ![k] =
       [NoCall EXCEPT !.pc = "assign", !.op = "assign", !.case = c, !.who = u]]
  /\ UNCHANGED <<row, link, chain>>

\* add_evidence_to_case, for evidence that is registered.
BeginAdd(k, c, e) ==
  /\ Arrives(k, "add") /\ ~Closed(c) /\ Present(e)
  /\ call' = [call EXCEPT ![k] =
       [NoCall EXCEPT !.pc = "link", !.op = "add", !.case = c, !.item = e]]
  /\ UNCHANGED <<row, link, chain>>

\* register_and_validate into an OPEN or ACTIVE case.
BeginRegister(k, c) ==
  /\ Arrives(k, "register")
  /\ row[c].status \in {"open", "active"}
  /\ call' = [call EXCEPT ![k] =
       [NoCall EXCEPT !.pc = "newRow", !.op = "register", !.case = c]]
  /\ UNCHANGED <<row, link, chain>>

\* verify_evidence (also called by the acquisition stage), and record_analysis
\* at the end of a pipeline job.
BeginRecord(k, o, a, where, e) ==
  /\ Arrives(k, o) /\ Present(e)
  /\ call' = [call EXCEPT ![k] =
       [NoCall EXCEPT !.pc = where, !.op = o, !.item = e, !.act = a]]
  /\ UNCHANGED <<row, link, chain>>
BeginAccess(k, e)  == BeginRecord(k, "access", "accessed", "base", e)
BeginAnalyse(k, e) == BeginRecord(k, "analyse", "analysed", "number", e)

-----------------------------------------------------------------------------
(* The cases table *)

\* update_status: the status is written whatever it is by now. close_case then
\* looks whether the reason is its own.
Update(k) ==
  LET c == call[k].case
      now == [row[c] EXCEPT !.status = Target[call[k].op]]
  IN  /\ At(k, "update")
      /\ row' = [row EXCEPT ![c] = now]
      /\ IF call[k].op = "close" /\ now.reason # k
           THEN call' = [call EXCEPT ![k].pc = "resave",
                                     ![k].view = [now EXCEPT !.reason = k]]
           ELSE Goto(k, "done")
      /\ UNCHANGED <<link, chain>>

\* case_repo.save writes the whole case as the call holds it, and reactivates
\* the investigators it holds without removing any.
SaveView(k, from, next) ==
  /\ At(k, from)
  /\ row' = [row EXCEPT ![call[k].case] =
                [call[k].view EXCEPT !.leads = @ \cup row[call[k].case].leads]]
  /\ Goto(k, next)
  /\ UNCHANGED <<link, chain>>
Save(k)   == SaveView(k, "save", IF call[k].op = "assign" THEN "done" ELSE "update")
Resave(k) == SaveView(k, "resave", "done")

\* add_investigator; then the case is read again, and saved when its lead is
\* another by then.
AddLead(k) ==
  LET c == call[k].case
      u == call[k].who
  IN  /\ At(k, "assign")
      /\ IF u \in row[c].leads
           THEN Goto(k, "failed") /\ UNCHANGED row
           ELSE /\ row' = [row EXCEPT ![c].lead = u, ![c].leads = @ \cup {u}]
                /\ Goto(k, "refresh")
      /\ UNCHANGED <<link, chain>>
RefreshLead(k) ==
  LET now == row[call[k].case]
  IN  /\ At(k, "refresh")
      /\ IF now.lead = call[k].who THEN Goto(k, "done")
         ELSE call' = [call EXCEPT ![k].pc = "save",
                                   ![k].view = [now EXCEPT !.lead = call[k].who]]
      /\ UNCHANGED <<row, link, chain>>

\* remove_investigator, of a lead.
RemoveLead(c, u) ==
  /\ "remove" \in Ops /\ u \in row[c].leads
  /\ Overlap \/ \A x \in Calls : Over(x)
  /\ row' = [row EXCEPT ![c].leads = @ \ {u},
                        ![c].lead = IF @ = u THEN "none" ELSE @]
  /\ UNCHANGED <<link, chain, call>>

-----------------------------------------------------------------------------
(* Evidence rows *)

\* EvidenceService.register_evidence gives the item a new id.
Register(e) ==
  /\ link[e] = "unused"
  /\ link' = [link EXCEPT ![e] = "none"]

\* Behind POST /evidence it is all there is: no case, no custody record.
PlainRegister(e) ==
  /\ Overlap \/ \A x \in Calls : Over(x)
  /\ Register(e)
  /\ UNCHANGED <<row, chain, call>>

\* register_and_validate goes on with record_acquisition.
NewRow(k, e) ==
  /\ At(k, "newRow")
  /\ Register(e)
  /\ call' = [call EXCEPT ![k].pc = "count", ![k].act = "acquired", ![k].item = e]
  /\ UNCHANGED <<row, chain>>

\* delete_evidence, whatever the state of its case: the row goes, the custody
\* records stay (SQLite is used without foreign keys).
DeleteEvidence(e) ==
  /\ Overlap \/ \A x \in Calls : Over(x)
  /\ Present(e)
  /\ link' = [link EXCEPT ![e] = "deleted"]
  /\ UNCHANGED <<row, chain, call>>

\* add_evidence_id, whatever the case's status is by now; the item leaves the
\* case it was linked to.
BadLink(k) ==
  /\ At(k, "link")
  /\ link' = [link EXCEPT ![call[k].item] = call[k].item]
  /\ Goto(k, "look")
  /\ UNCHANGED <<row, chain>>
Link(k) ==
  /\ At(k, "link")
  /\ IF Present(call[k].item)
       THEN /\ link' = [link EXCEPT ![call[k].item] = call[k].case]
            /\ Goto(k, IF call[k].op = "add" THEN "look" ELSE "done")
       ELSE UNCHANGED link /\ Goto(k, "failed")
  /\ UNCHANGED <<row, chain>>

\* add_evidence_to_case acquires the item if its chain is empty.
LookAtAdded(k) ==
  /\ At(k, "look")
  /\ IF chain[call[k].item] = <<>>
       THEN call' = [call EXCEPT ![k].pc = "count", ![k].act = "acquired"]
       ELSE Goto(k, "done")
  /\ UNCHANGED <<row, link, chain>>

-----------------------------------------------------------------------------
(* Sealing: _seal_all_evidence and _archive_all_evidence *)

\* The next item is gone, or its chain ends with SEALED: nothing to do for it.
BadEndsSealed(e) == LastActions(e) # {}
EndsSealed(e)    == "sealed" \in LastActions(e)
SkipSealed(k, e) ==
  /\ At(k, "sealing") /\ e \in call[k].todo
  /\ link[e] = "deleted" \/ EndsSealed(e)
  /\ call' = [call EXCEPT ![k].todo = @ \ {e}]
  /\ UNCHANGED <<row, link, chain>>

\* Otherwise it is sealed, after an acquisition when the chain is empty.
TakeOpen(k, e) ==
  /\ At(k, "sealing") /\ e \in call[k].todo
  /\ link[e] # "deleted" /\ LastActions(e) # {"sealed"}
  /\ call' = [call EXCEPT ![k].item = e,
                          ![k].pc = IF chain[e] = <<>> THEN "count" ELSE "base",
                          ![k].act = IF chain[e] = <<>> THEN "acquired"
                                                        ELSE "sealed"]
  /\ UNCHANGED <<row, link, chain>>

\* All items are done. close_case puts the new status and its reason into the
\* case it read and saves that; archive_case only updates the status.
AllSealed(k) ==
  /\ At(k, "sealing") /\ call[k].todo = {}
  /\ IF call[k].op = "close"
       THEN call' = [call EXCEPT ![k].pc = "save",
                                 ![k].view.status = "closed",
                                 ![k].view.reason = k]
       ELSE Goto(k, "update")
  /\ UNCHANGED <<row, link, chain>>

-----------------------------------------------------------------------------
(* Custody records *)

\* record_acquisition: refused when the item has records.
CountRecords(k) ==
  /\ At(k, "count")
  /\ Goto(k, IF chain[call[k].item] = <<>> THEN "number" ELSE "failed")
  /\ UNCHANGED <<row, link, chain>>

\* _baseline_hash: the first record must be ACQUIRED; an empty chain falls back
\* to the hash in the evidence row, if there is one.
BadBaseline(e, ok) == TRUE
Baseline(e, ok) ==
  IF ok THEN (chain[e] = <<>> /\ Present(e)) \/ "acquired" \in FirstActions(e)
        ELSE (chain[e] = <<>> /\ ~Present(e)) \/ FirstActions(e) \ {"acquired"} # {}
CheckBaseline(k) ==
  /\ At(k, "base")
  /\ \E ok \in BOOLEAN : /\ Baseline(call[k].item, ok)
                         /\ Goto(k, IF ok THEN "number" ELSE "failed")
  /\ UNCHANGED <<row, link, chain>>

\* add_record reads the largest number, then inserts and commits.
ReadNumber(k) ==
  /\ At(k, "number")
  /\ call' = [call EXCEPT ![k].num = NextNumber(call[k].item), ![k].pc = "insert"]
  /\ UNCHANGED <<row, link, chain>>

\* What a call does after its record: an acquisition is followed by the seal,
\* the link or nothing, a seal by the next item.
BadAfterRecord(k) ==
  IF call[k].op \in {"close", "archive"}
    THEN [call[k] EXCEPT !.pc = "sealing", !.todo = @ \ {call[k].item}]
    ELSE [call[k] EXCEPT !.pc = IF call[k].op = "register" THEN "link" ELSE "done"]
AfterRecord(k) ==
  CASE call[k].act = "sealed" ->
         [call[k] EXCEPT !.pc = "sealing", !.todo = @ \ {call[k].item}]
    [] call[k].act = "acquired" /\ call[k].op \in {"close", "archive"} ->
         [call[k] EXCEPT !.pc = "base", !.act = "sealed"]
    [] call[k].act = "acquired" /\ call[k].op = "register" ->
         [call[k] EXCEPT !.pc = "link"]
    [] OTHER -> [call[k] EXCEPT !.pc = "done"]

InsertRecord(k) ==
  /\ At(k, "insert")
  /\ chain' = [chain EXCEPT ![call[k].item] =
                 Append(@, [n |-> call[k].num, action |-> call[k].act])]
  /\ call' = [call EXCEPT ![k] = AfterRecord(k)]
  /\ UNCHANGED <<row, link>>

-----------------------------------------------------------------------------
\* An error, or the death of the process, ends the call where it is.
Abort(k) ==
  /\ MayFail /\ ~Over(k)
  /\ Goto(k, "failed")
  /\ UNCHANGED <<row, link, chain>>

Begin(k) ==
  \/ \E o \in Ops, c \in Cases : BeginChange(k, o, c)
  \/ \E c \in Cases, u \in Leads : BeginAssign(k, c, u)
  \/ \E c \in Cases, e \in Evidence : BeginAdd(k, c, e)
  \/ \E c \in Cases : BeginRegister(k, c)
  \/ \E e \in Evidence : BeginAccess(k, e) \/ BeginAnalyse(k, e)

CallStep(k) ==
  \/ Update(k) \/ Save(k) \/ Resave(k) \/ AddLead(k) \/ RefreshLead(k)
  \/ Link(k) \/ LookAtAdded(k)
  \/ \E e \in Evidence : NewRow(k, e) \/ SkipSealed(k, e) \/ TakeOpen(k, e)
  \/ AllSealed(k) \/ CountRecords(k) \/ CheckBaseline(k) \/ ReadNumber(k)
  \/ InsertRecord(k) \/ Abort(k)

Next ==
  \/ \E k \in Calls : Begin(k) \/ CallStep(k)
  \/ \E c \in Cases, u \in Leads : RemoveLead(c, u)
  \/ \E e \in Evidence : PlainRegister(e) \/ DeleteEvidence(e)

Spec == Init /\ [][Next]_vars

-----------------------------------------------------------------------------
(* Properties *)

Actions == {"acquired", "accessed", "analysed", "sealed"}
PCs == {"idle", "done", "failed", "update", "save", "resave", "assign", "refresh",
        "newRow", "link", "look", "sealing", "count", "base", "number", "insert"}
RowType ==
  [status : CaseStatuses, lead : Leads \cup {"none"}, leads : SUBSET Leads,
   reason : Calls \cup {"none"}]
CallType ==
  [pc : PCs, op : AllOps \cup {"none"}, case : Cases, item : Evidence,
   view : RowType, plan : SUBSET Evidence,
   todo : SUBSET Evidence, act : Actions \cup {"none"}, num : Nat,
   who : Leads]

\* Every variable holds a value of its kind.
TypeOK ==
  /\ row \in [Cases -> RowType]
  /\ link \in [Evidence -> Cases \cup {"none", "unused", "deleted"}]
  /\ chain \in [Evidence -> Seq([n : Nat, action : Actions])]
  /\ call \in [Calls -> CallType]

\* However inserts interleave, the numbers in use on a chain run from 1 without
\* a gap; only duplicates can make verify_custody_chain miss a number.
NoGaps == \A e \in Evidence : \E m \in 0..Len(chain[e]) : Numbers(e) = 1..m

HasRecord(e, a) == \E r \in Entries(e) : r.action = a

SealedOrGone(e) == HasRecord(e, "sealed") \/ link[e] = "deleted"

\* A close or archive that has left its sealing loop has a SEALED record on
\* every item that was linked when it read the case and still exists.
SealsWhatItRead ==
  \A k \in Calls :
    (/\ call[k].op \in {"close", "archive"}
     /\ call[k].pc \in {"save", "update", "resave", "done"}) =>
      \A e \in call[k].plan : SealedOrGone(e)

Acquired(e) == [n |-> 1, action |-> "acquired"] \in Entries(e)

\* No chain is sealed unless it begins with an acquisition.
SealRestsOnAcquisition ==
  \A e \in Evidence :
    HasRecord(e, "sealed") => Acquired(e)

\* The inductive strengthening of the three: each await belongs to certain
\* operations, a number that was read and not yet inserted leaves no gap below
\* it, a seal on its way to a chain has passed the baseline check, and a sealing
\* call has sealed what it took off its list.
Sealing(k)  == call[k].op \in {"close", "archive"}
OpInv(k) ==
  /\ At(k, "update") => call[k].op \in DOMAIN Target
  /\ At(k, "save") => call[k].op \in DOMAIN Target \cup {"assign"}
  /\ call[k].pc \in {"assign", "refresh"} => call[k].op = "assign"
  /\ At(k, "sealing") \/ call[k].act = "sealed" => Sealing(k)
  /\ At(k, "count") => call[k].act = "acquired"
  /\ call[k].pc \in {"base", "number", "insert"} => call[k].act # "none"
NumberInv(k) ==
  At(k, "insert") =>
    call[k].num >= 1 /\ 1..(call[k].num - 1) \subseteq Numbers(call[k].item)
SealInv(k) ==
  call[k].act = "sealed" =>
    /\ At(k, "base") => chain[call[k].item] # <<>>
    /\ call[k].pc \in {"number", "insert"} => Acquired(call[k].item)
ListInv(k) ==
  Sealing(k) =>
    /\ \A e \in call[k].plan \ call[k].todo : SealedOrGone(e)
    /\ call[k].pc \in {"save", "update", "resave", "done"} => call[k].todo = {}
    /\ call[k].pc \in {"count", "base", "number", "insert"} =>
         call[k].act \in {"acquired", "sealed"}
    /\ call[k].pc \notin {"idle", "assign", "refresh", "newRow", "link", "look"}
CustodyInv ==
  /\ NoGaps /\ SealRestsOnAcquisition
  /\ \A k \in Calls : OpInv(k) /\ NumberInv(k) /\ SealInv(k) /\ ListInv(k)

-----------------------------------------------------------------------------
(* What holds when requests are served one at a time, and not otherwise *)

\* custody_repo.py add_record: "Insert a custody record with a sequential
\* per-evidence entry number".
NumbersSequential ==
  \A e \in Evidence : \A i \in DOMAIN chain[e] : chain[e][i].n = i

\* custody_service.py record_acquisition: "Record the first custody entry
\* (ACQUIRED, entry_number=1)".
AcquiredFirst ==
  \A e \in Evidence : \A r \in Entries(e) : r.action = "acquired" => r.n = 1

\* Both: the chain begins with its acquisition and counts on from there.
ChainWellFormed == NumbersSequential /\ AcquiredFirst

\* ADR-010: "Closing a case seals custody chains for all linked evidence."
ClosedIsSealed ==
  \A c \in Cases : Closed(c) => \A e \in Linked(c) : HasRecord(e, "sealed")

\* The lead a case names is assigned to it: lead_investigator_id never outlives
\* the lead's row in case_investigators.
LeadIsAssigned ==
  \A c \in Cases : row[c].lead # "none" => row[c].lead \in row[c].leads

\* Both: what a case says of its items and of its lead is so.
CaseTruthful == ClosedIsSealed /\ LeadIsAssigned

\* ADR-010: "explicit CaseStatus transitions enforced by
\* CASE_STATUS_TRANSITIONS".
TransitionsEnforced ==
  [][\A c \in Cases : row'[c].status # row[c].status
       => row'[c].status \in CaseNext[row[c].status]]_vars
==============================================================================
