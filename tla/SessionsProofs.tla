---------------------------- MODULE SessionsProofs -----------------------------
(***************************************************************************)
(* Proofs about Sessions for any number of overlapping calls of any kinds, *)
(* any limit of wrong logins and any number of sessions; in the second     *)
(* part, about AiRequests, the requests that users make of the model, and  *)
(* in the third about ApiEdge, what every request passes before its route. *)
(*                                                                         *)
(* A wrong login that reached the limit locks the account itself, or saw   *)
(* the counter go down again: until then it is on its way to the lock. A   *)
(* row that was removed had run out, so what a removed row no longer says  *)
(* nobody can ask: its tokens are refused as expired.                      *)
(***************************************************************************)
EXTENDS Sessions, FiniteSetTheorems, TLAPS

PCs == Ended \cup {"idle", "count", "reload", "lock", "reset", "create", "rotate", "user", "revoke",
                   "revoke_all", "load", "save", "check_user"}
AccountType == [active : BOOLEAN, locked : {"no", "until", "past"}, fails : Nat, password : Nat]
SessionType == [revoked : BOOLEAN, gone : BOOLEAN, born : Nat]
CallType == [kind : CallKinds, of : Requests, pc : PCs, user : AccountType, session : Nat]

Types ==
  /\ account \in AccountType /\ sessions \in Seq(SessionType) /\ expired \subseteq 1..Len(sessions)
  /\ call \in [Calls -> CallType] /\ epoch \in Nat /\ stale \in BOOLEAN

\* A session is of its time; one that is not revoked, of the present; and one
\* whose row was removed had run out.
SessionInv ==
  \A s \in 1..Len(sessions) :
    /\ sessions[s].born <= epoch
    /\ ~sessions[s].revoked => sessions[s].born = epoch
    /\ sessions[s].gone => s \in expired

\* Calls that may have counted a wrong login.
Tried == {c \in Calls : call[c].pc \notin {"idle", "count"}}
CountInv ==
  /\ account.fails <= Cardinality(Tried)
  /\ \A c \in Calls : call[c].user.fails <= Cardinality(Tried)

\* Who reached the limit locks, or will.
LimitInv ==
  ~stale /\ account.fails >= MaxAttempts =>
    account.locked # "no" \/ \E c \in Calls : call[c].pc \in {"reload", "lock"}

IInv == Sensible /\ Types /\ SessionInv /\ CountInv /\ LimitInv

-----------------------------------------------------------------------------
(* Types                                                                   *)

\* A call goes on: its place changes, and what it holds.
LEMMA CallMoves ==
  ASSUME call \in [Calls -> CallType], NEW c \in Calls, NEW p \in PCs, NEW u \in AccountType, NEW n \in Nat
  PROVE  /\ [call EXCEPT ![c].pc = p] \in [Calls -> CallType]
         /\ [call EXCEPT ![c].pc = p, ![c].user = u] \in [Calls -> CallType]
         /\ [call EXCEPT ![c].pc = p, ![c].session = n] \in [Calls -> CallType]
<1>1. call[c] \in CallType
  OBVIOUS
<1>2. /\ [call[c] EXCEPT !.pc = p] \in CallType
      /\ [call[c] EXCEPT !.pc = p, !.user = u] \in CallType
      /\ [call[c] EXCEPT !.pc = p, !.session = n] \in CallType
  BY <1>1 DEF CallType
<1> QED
  BY <1>2

LEMMA RevokeKeeps ==
  ASSUME Types, NEW which, Revoke(which)
  PROVE  /\ sessions' \in Seq(SessionType) /\ Len(sessions') = Len(sessions)
         /\ \A s \in 1..Len(sessions) :
              /\ sessions'[s].born = sessions[s].born /\ sessions'[s].gone = sessions[s].gone
              /\ sessions'[s].revoked = (sessions[s].revoked \/ s \in which)
<1> DEFINE new(s) == IF s \in which THEN [sessions[s] EXCEPT !.revoked = TRUE] ELSE sessions[s]
<1>1. DOMAIN sessions = 1..Len(sessions) /\ Len(sessions) \in Nat
  BY DEF Types
<1>2. \A s \in 1..Len(sessions) : sessions[s] \in SessionType
  BY DEF Types
<1>3. \A s \in 1..Len(sessions) :
        /\ new(s) \in SessionType /\ new(s).born = sessions[s].born /\ new(s).gone = sessions[s].gone
        /\ new(s).revoked = (sessions[s].revoked \/ s \in which)
  BY <1>2 DEF SessionType
<1>4. sessions' = [s \in 1..Len(sessions) |-> new(s)]
  BY <1>1 DEF Revoke
<1>5. sessions' \in Seq(SessionType) /\ Len(sessions') = Len(sessions)
  <2> HIDE DEF new
  <2> QED
    BY <1>1, <1>3, <1>4
<1>6. \A s \in 1..Len(sessions) : sessions'[s] = new(s)
  <2> HIDE DEF new
  <2> QED
    BY <1>4
<1> QED
  BY <1>3, <1>5, <1>6

LEMMA Written0 ==
  ASSUME Types, NEW c \in Calls
  PROVE  /\ Written(c) \in AccountType
         /\ Written(c).fails = call[c].user.fails /\ Written(c).locked = call[c].user.locked
         /\ Written(c).active => call[c].user.active
<1>1. call[c] \in CallType
  BY DEF Types
<1>2. call[c].user \in AccountType
  BY <1>1 DEF CallType
<1>3. call[c].user.password + 1 \in Nat
  BY <1>2 DEF AccountType
<1>4. /\ [call[c].user EXCEPT !.password = call[c].user.password + 1] \in AccountType
      /\ [call[c].user EXCEPT !.active = FALSE] \in AccountType
  BY <1>2, <1>3 DEF AccountType
<1> QED
  BY <1>2, <1>4 DEF Written, AccountType

-----------------------------------------------------------------------------
(* Steps of one call                                                       *)

\* Where calls go, and what of the account they change; sessions are looked at
\* after this.
CallStep(c) ==
  \/ Login(c) \/ CountFailure(c) \/ Reload(c) \/ Lock(c) \/ ResetFailures(c) \/ Create(c)
  \/ Refresh(c) \/ Rotate(c) \/ UserOfRefresh(c) \/ RevokeOne(c) \/ RevokeAll(c)
  \/ LoadRow(c) \/ SaveRow(c) \/ CheckToken(c) \/ CheckUser(c)

\* The new state of a call: another place, and the account as it is read or a
\* session that is looked at.
Moves(c, p) ==
  /\ p \in PCs /\ p # "idle"
  /\ p = "count" => At(c, "idle")
  /\ \/ call' = [call EXCEPT ![c].pc = p]
     \/ call' = [call EXCEPT ![c].pc = p, ![c].user = account]
     \/ \E s \in 1..Len(sessions) : call' = [call EXCEPT ![c].pc = p, ![c].session = s]

\* What a step does to the account.
Accounts(c, p) ==
  \/ At(c, "count") /\ p = "reload" /\ account' = [account EXCEPT !.fails = @ + 1] /\ stale' = stale
  \/ At(c, "lock") /\ account' = [account EXCEPT !.locked = "until"] /\ stale' = stale
  \/ At(c, "reset") /\ account' = [account EXCEPT !.fails = 0] /\ stale' = stale
  \/ At(c, "save") /\ account' = Written(c) /\ stale' = (stale \/ account # call[c].user)
  \/ /\ UNCHANGED <<account, stale>> /\ ~At(c, "lock")
     /\ At(c, "reload") => p = "lock" \/ ~(account.fails >= MaxAttempts)

LEMMA CallShape ==
  ASSUME Types, NEW c \in Calls, CallStep(c)
  PROVE  \E p \in PCs : Moves(c, p) /\ Accounts(c, p)
<1>1. DOMAIN sessions = 1..Len(sessions)
  BY DEF Types
<1>2. CASE Login(c)
  <2>1. CASE call' = [call EXCEPT ![c].pc = "refused"]
    BY <1>2, <2>1 DEF Login, Starts, At, Moves, Accounts, PCs, Ended
  <2>2. PICK p \in {"reset", "count"} : ~(call' = [call EXCEPT ![c].pc = "refused"]) => LoadUser(c, p)
    BY <1>2 DEF Login, Goto
  <2>3. CASE ~(call' = [call EXCEPT ![c].pc = "refused"])
    BY <1>2, <2>2, <2>3 DEF Login, Starts, At, LoadUser, Moves, Accounts, PCs, Ended
  <2> QED
    BY <2>1, <2>3
<1>3. CASE CountFailure(c)
  BY <1>3 DEF CountFailure, Goto, At, Moves, Accounts, PCs, Ended
<1>4. CASE Reload(c)
  <2>1. PICK p \in {"lock", "refused"} : Goto(c, p) /\ (p = "lock" \/ ~(account.fails >= MaxAttempts))
    BY <1>4 DEF Reload, Seen
  <2> QED
    BY <1>4, <2>1 DEF Reload, Goto, At, Moves, Accounts, PCs, Ended
<1>5. CASE Lock(c)
  BY <1>5 DEF Lock, Goto, At, Moves, Accounts, PCs, Ended
<1>6. CASE ResetFailures(c)
  BY <1>6 DEF ResetFailures, Goto, At, Moves, Accounts, PCs, Ended
<1>7. CASE Create(c)
  BY <1>7 DEF Create, Goto, At, Moves, Accounts, PCs, Ended
<1>8. CASE Refresh(c) \/ CheckToken(c)
  <2>1. PICK s \in 1..Len(sessions), p \in {"refused", "rotate", "check_user"} :
          call' = [call EXCEPT ![c].pc = p, ![c].session = s]
    BY <1>1, <1>8 DEF Refresh, CheckToken
  <2>2. At(c, "idle") /\ UNCHANGED <<account, stale>>
    BY <1>8 DEF Refresh, CheckToken, Starts
  <2> QED
    BY <2>1, <2>2 DEF At, Moves, Accounts, PCs, Ended
<1>9. CASE Rotate(c) \/ RevokeOne(c) \/ RevokeAll(c)
  BY <1>9 DEF Rotate, RevokeOne, RevokeAll, Goto, At, Moves, Accounts, PCs, Ended
<1>10. CASE UserOfRefresh(c)
  BY <1>10 DEF UserOfRefresh, Goto, LoadUser, At, Moves, Accounts, PCs, Ended
<1>11. CASE LoadRow(c)
  BY <1>11 DEF LoadRow, LoadUser, Starts, At, Moves, Accounts, PCs, Ended
<1>12. CASE SaveRow(c)
  BY <1>12 DEF SaveRow, Goto, At, Moves, Accounts, PCs, Ended
<1>13. CASE CheckUser(c)
  <2>1. PICK p \in {"refused", "revoke", "revoke_all", "load", "accepted"} : Goto(c, p) \/ LoadUser(c, p)
    BY <1>13 DEF CheckUser
  <2> QED
    BY <1>13, <2>1 DEF CheckUser, Goto, LoadUser, At, Moves, Accounts, PCs, Ended
<1> QED
  BY <1>2, <1>3, <1>4, <1>5, <1>6, <1>7, <1>8, <1>9, <1>10, <1>11, <1>12, <1>13 DEF CallStep

LEMMA CallTypes ==
  ASSUME Types, NEW c \in Calls, NEW p \in PCs, Moves(c, p), Accounts(c, p)
  PROVE  call' \in [Calls -> CallType] /\ account' \in AccountType /\ stale' \in BOOLEAN
<1>1. call' \in [Calls -> CallType]
  <2>1. account \in AccountType /\ call \in [Calls -> CallType]
    BY DEF Types
  <2>2. \A s \in 1..Len(sessions) : s \in Nat
    BY DEF Types
  <2>3. CASE call' = [call EXCEPT ![c].pc = p]
    BY <2>1, <2>3, CallMoves DEF Types
  <2>4. CASE call' = [call EXCEPT ![c].pc = p, ![c].user = account]
    BY <2>1, <2>4, CallMoves DEF Types
  <2>5. ASSUME NEW s \in 1..Len(sessions), call' = [call EXCEPT ![c].pc = p, ![c].session = s]
        PROVE  call' \in [Calls -> CallType]
    BY <2>1, <2>2, <2>5, CallMoves DEF Types
  <2> QED
    BY <2>3, <2>4, <2>5 DEF Moves
<1>2. account' \in AccountType
  <2>1. account \in AccountType /\ account.fails + 1 \in Nat
    BY DEF Types, AccountType
  <2>2. /\ [account EXCEPT !.fails = account.fails + 1] \in AccountType
        /\ [account EXCEPT !.fails = 0] \in AccountType
        /\ [account EXCEPT !.locked = "until"] \in AccountType
    BY <2>1 DEF AccountType
  <2> QED
    BY <2>1, <2>2, Written0 DEF Accounts
<1>3. stale' \in BOOLEAN
  BY DEF Types, Accounts
<1> QED
  BY <1>1, <1>2, <1>3

\* Every call but the one that acts is where it was.
LEMMA OthersWait ==
  ASSUME Types, NEW c \in Calls, NEW p \in PCs, Moves(c, p)
  PROVE  /\ call'[c].pc = p
         /\ call'[c].user = call[c].user \/ call'[c].user = account
         /\ \A d \in Calls : d # c => call'[d] = call[d]
<1>1. call \in [Calls -> CallType] /\ call[c] \in CallType
  BY DEF Types
<1>2. DOMAIN call = Calls /\ DOMAIN call[c] = {"kind", "of", "pc", "user", "session"}
  BY <1>1 DEF CallType
<1> QED
  BY <1>1, <1>2 DEF Moves, CallType

\* A call that has tried stays so, and one that counts is one more.
LEMMA TriedGrows ==
  ASSUME IInv, NEW c \in Calls, NEW p \in PCs, Moves(c, p)
  PROVE  /\ Cardinality(Tried) \in Nat /\ Cardinality(Tried') \in Nat
         /\ Cardinality(Tried) <= Cardinality(Tried')
         /\ At(c, "count") /\ p = "reload" => Cardinality(Tried') = Cardinality(Tried) + 1
<1>1. IsFiniteSet(Calls) /\ Types
  BY DEF IInv, Sensible
<1>2. Tried \subseteq Calls /\ Tried' \subseteq Calls
  BY DEF Tried
<1>3. IsFiniteSet(Tried) /\ IsFiniteSet(Tried')
  BY <1>1, <1>2, FS_Subset
<1>4. Tried \subseteq Tried'
  BY <1>1, OthersWait DEF Tried, Moves, At
<1>5. ASSUME At(c, "count"), p = "reload"
      PROVE  Tried' = Tried \cup {c} /\ c \notin Tried
  BY <1>1, <1>5, OthersWait DEF Tried, At
<1> QED
  BY <1>3, <1>4, <1>5, FS_Subset, FS_AddElement, FS_CardinalityType

LEMMA CountStep ==
  ASSUME IInv, NEW c \in Calls, NEW p \in PCs, Moves(c, p), Accounts(c, p)
  PROVE  CountInv'
<1> DEFINE n == Cardinality(Tried)
           m == Cardinality(Tried')
<1>1. n \in Nat /\ m \in Nat /\ n <= m /\ (At(c, "count") /\ p = "reload" => m = n + 1)
  BY TriedGrows
<1>2. Types /\ account.fails <= n /\ \A d \in Calls : call[d].user.fails <= n
  BY DEF IInv, CountInv
<1>3. account.fails \in Nat /\ \A d \in Calls : call[d].user.fails \in Nat
  BY <1>2 DEF Types, AccountType, CallType
<1>4. account'.fails <= m
  <2>1. account \in AccountType
    BY <1>2 DEF Types
  <2>2. /\ [account EXCEPT !.fails = @ + 1].fails = account.fails + 1
        /\ [account EXCEPT !.fails = 0].fails = 0 /\ [account EXCEPT !.locked = "until"].fails = account.fails
        /\ Written(c).fails = call[c].user.fails
    BY <1>2, <2>1, Written0 DEF AccountType
  <2>3. \/ At(c, "count") /\ p = "reload" /\ account'.fails = account.fails + 1
        \/ account'.fails \in {0, account.fails, call[c].user.fails}
    BY <2>2 DEF Accounts
  <2> HIDE DEF n, m
  <2> QED
    BY <1>1, <1>2, <1>3, <2>3
<1>5. ASSUME NEW d \in Calls PROVE call'[d].user.fails <= m
  <2>1. call'[d].user \in {call[d].user, account}
    BY <1>2, OthersWait
  <2>2. call'[d].user.fails \in {call[d].user.fails, account.fails}
    BY <2>1
  <2> HIDE DEF n, m
  <2> QED
    BY <1>1, <1>2, <1>3, <2>2
<1> QED
  BY <1>4, <1>5 DEF CountInv

LEMMA LimitStep ==
  ASSUME IInv, NEW c \in Calls, NEW p \in PCs, Moves(c, p), Accounts(c, p)
  PROVE  LimitInv'
<1>1. Types /\ LimitInv /\ MaxAttempts \in Nat \ {0}
  BY DEF IInv, Sensible
<1>2. call'[c].pc = p /\ (\A d \in Calls : d # c => call'[d] = call[d]) /\ account \in AccountType
  BY <1>1, OthersWait DEF Types
<1> SUFFICES ASSUME ~stale', account'.fails >= MaxAttempts, account'.locked = "no"
             PROVE  \E d \in Calls : call'[d].pc \in {"reload", "lock"}
  BY DEF LimitInv
<1>3. CASE At(c, "count") /\ p = "reload"
  BY <1>2, <1>3
<1>4. CASE At(c, "lock") /\ account' = [account EXCEPT !.locked = "until"]
  BY <1>2, <1>4 DEF AccountType
<1>5. CASE At(c, "reset") /\ account' = [account EXCEPT !.fails = 0]
  BY <1>1, <1>2, <1>5 DEF AccountType
<1>6. CASE UNCHANGED <<account, stale>> /\ ~At(c, "lock")
             /\ (At(c, "reload") => p = "lock" \/ ~(account.fails >= MaxAttempts))
  <2>1. PICK d \in Calls : call[d].pc \in {"reload", "lock"}
    BY <1>1, <1>6 DEF LimitInv
  <2>2. CASE d = c
    BY <1>2, <1>6, <2>1, <2>2 DEF At
  <2> QED
    BY <1>2, <2>1, <2>2
<1>7. CASE At(c, "save") /\ account' = Written(c) /\ stale' = (stale \/ account # call[c].user)
  <2>1. account = call[c].user /\ ~stale
    BY <1>7
  <2>2. account'.fails = account.fails /\ account'.locked = account.locked
    BY <1>1, <1>7, <2>1, Written0
  <2>3. PICK d \in Calls : call[d].pc \in {"reload", "lock"}
    BY <1>1, <2>1, <2>2 DEF LimitInv
  <2>4. d # c
    BY <1>7, <2>3 DEF At
  <2> QED
    BY <1>2, <2>3, <2>4
<1> QED
  BY <1>3, <1>4, <1>5, <1>6, <1>7 DEF Accounts

-----------------------------------------------------------------------------
(* Sessions                                                                *)

\* What a step of a call does to sessions.
LEMMA SessionShape ==
  ASSUME NEW c \in Calls, CallStep(c)
  PROVE  /\ expired' = expired
         /\ \/ sessions' = sessions /\ epoch' = epoch
            \/ sessions' = Append(sessions, NewSession) /\ epoch' = epoch
            \/ (\E s \in {call[c].session} : Revoke({s})) /\ epoch' = epoch
            \/ Revoke(DOMAIN sessions) /\ epoch' = epoch + 1
BY DEF CallStep, Login, CountFailure, Reload, Lock, ResetFailures, Create, Refresh, Rotate, UserOfRefresh,
       RevokeOne, RevokeAll, LoadRow, SaveRow, CheckToken, CheckUser

LEMMA SessionStep ==
  ASSUME IInv, NEW c \in Calls, CallStep(c)
  PROVE  /\ sessions' \in Seq(SessionType) /\ epoch' \in Nat /\ expired' \subseteq 1..Len(sessions')
         /\ SessionInv'
<1> DEFINE Goal == /\ sessions' \in Seq(SessionType) /\ epoch' \in Nat /\ expired' \subseteq 1..Len(sessions')
                   /\ SessionInv'
<1>1. Types /\ SessionInv /\ DOMAIN sessions = 1..Len(sessions) /\ expired' = expired
  <2>1. Types /\ SessionInv
    BY DEF IInv
  <2>2. expired' = expired
    BY SessionShape
  <2> QED
    BY <2>1, <2>2 DEF Types
<1>2. sessions \in Seq(SessionType) /\ epoch \in Nat /\ expired \subseteq 1..Len(sessions) /\ Len(sessions) \in Nat
  BY <1>1 DEF Types
<1>3. \A s \in 1..Len(sessions) : sessions[s].born \in Nat
  <2>1. \A s \in 1..Len(sessions) : sessions[s] \in SessionType
    BY <1>2
  <2> QED
    BY <2>1 DEF SessionType
<1>4. CASE sessions' = sessions /\ epoch' = epoch
  BY <1>1, <1>2, <1>4 DEF SessionInv
<1>5. CASE sessions' = Append(sessions, NewSession) /\ epoch' = epoch
  <2>1. NewSession \in SessionType /\ NewSession.born = epoch /\ ~NewSession.gone
    BY <1>2 DEF NewSession, SessionType
  <2>2. /\ sessions' \in Seq(SessionType) /\ Len(sessions') = Len(sessions) + 1
        /\ \A s \in 1..Len(sessions) : sessions'[s] = sessions[s]
        /\ sessions'[Len(sessions) + 1] = NewSession
    BY <1>2, <1>5, <2>1
  <2>3. \A s \in 1..Len(sessions') : s \in 1..Len(sessions) \/ s = Len(sessions) + 1
    BY <1>2, <2>2
  <2>4. expired' \subseteq 1..Len(sessions')
    BY <1>1, <1>2, <2>2
  <2> QED
    BY <1>1, <1>2, <1>5, <2>1, <2>2, <2>3, <2>4 DEF SessionInv
<1>6. CASE (\E s \in {call[c].session} : Revoke({s})) /\ epoch' = epoch
  <2>1. PICK s \in {call[c].session} : Revoke({s})
    BY <1>6
  <2>2. /\ sessions' \in Seq(SessionType) /\ Len(sessions') = Len(sessions)
        /\ \A t \in 1..Len(sessions) :
             /\ sessions'[t].born = sessions[t].born /\ sessions'[t].gone = sessions[t].gone
             /\ sessions'[t].revoked = (sessions[t].revoked \/ t \in {s})
    BY <1>1, <2>1, RevokeKeeps
  <2> QED
    BY <1>1, <1>2, <1>6, <2>2 DEF SessionInv
<1>7. CASE Revoke(DOMAIN sessions) /\ epoch' = epoch + 1
  <2>1. /\ sessions' \in Seq(SessionType) /\ Len(sessions') = Len(sessions)
        /\ \A t \in 1..Len(sessions) :
             /\ sessions'[t].born = sessions[t].born /\ sessions'[t].gone = sessions[t].gone
             /\ sessions'[t].revoked = (sessions[t].revoked \/ t \in DOMAIN sessions)
    BY <1>1, <1>7, RevokeKeeps
  <2>2. ASSUME NEW t \in 1..Len(sessions')
        PROVE  /\ sessions'[t].born <= epoch' /\ sessions'[t].revoked
               /\ sessions'[t].gone => t \in expired'
    <3>1. t \in 1..Len(sessions) /\ sessions[t].born <= epoch /\ (sessions[t].gone => t \in expired)
      BY <1>1, <2>1, <2>2 DEF SessionInv
    <3>2. sessions'[t].born = sessions[t].born /\ sessions'[t].gone = sessions[t].gone /\ sessions'[t].revoked
      BY <1>1, <2>1, <3>1
    <3>3. sessions[t].born \in Nat
      BY <1>3, <3>1
    <3> QED
      BY <1>1, <1>2, <1>7, <3>1, <3>2, <3>3
  <2> QED
    BY <1>1, <1>2, <1>7, <2>1, <2>2 DEF SessionInv
<1> QED
  BY <1>4, <1>5, <1>6, <1>7, SessionShape

-----------------------------------------------------------------------------
(* The invariant                                                           *)

LEMMA CallKeeps ==
  ASSUME IInv, NEW c \in Calls, CallStep(c)
  PROVE  IInv'
<1>1. Types
  BY DEF IInv
<1>2. PICK p \in PCs : Moves(c, p) /\ Accounts(c, p)
  BY <1>1, CallShape
<1>3. Types'
  BY <1>1, <1>2, CallTypes, SessionStep DEF Types
<1>4. SessionInv' /\ CountInv' /\ LimitInv'
  BY <1>2, SessionStep, CountStep, LimitStep
<1> QED
  BY <1>3, <1>4 DEF IInv, Sensible

\* Time: a lock runs out, a session does, its row is removed.
LEMMA TimeKeeps ==
  ASSUME IInv, LockEnds \/ Cleanup \/ \E s \in DOMAIN sessions : Expire(s)
  PROVE  IInv'
<1>1. /\ Types /\ SessionInv /\ CountInv /\ LimitInv /\ Sensible
      /\ DOMAIN sessions = 1..Len(sessions) /\ UNCHANGED <<call, epoch, stale>>
  BY DEF IInv, Types, LockEnds, Cleanup, Expire
<1>2. Tried' = Tried
  BY <1>1 DEF Tried
<1>3. CASE LockEnds
  <2>1. account' = [account EXCEPT !.locked = "past"] /\ account \in AccountType
    BY <1>1, <1>3 DEF LockEnds, Types
  <2>2. account' \in AccountType /\ account'.fails = account.fails /\ account'.locked = "past"
    BY <2>1 DEF AccountType
  <2>3. UNCHANGED <<sessions, expired>>
    BY <1>3 DEF LockEnds
  <2> QED
    BY <1>1, <1>2, <2>2, <2>3 DEF IInv, Types, SessionInv, CountInv, LimitInv, Sensible
<1>4. CASE Cleanup
  <2> DEFINE new(s) == [sessions[s] EXCEPT !.gone = @ \/ Removable(s)]
  <2>1. UNCHANGED <<account, expired>> /\ sessions' = [s \in 1..Len(sessions) |-> new(s)]
    BY <1>1, <1>4 DEF Cleanup
  <2>2. \A s \in 1..Len(sessions) : sessions[s] \in SessionType
    BY <1>1 DEF Types
  <2>3. \A s \in 1..Len(sessions) :
          /\ new(s) \in SessionType /\ new(s).born = sessions[s].born
          /\ new(s).revoked = sessions[s].revoked /\ new(s).gone = (sessions[s].gone \/ Removable(s))
    BY <2>2 DEF SessionType
  <2>4. /\ sessions' \in Seq(SessionType) /\ Len(sessions') = Len(sessions)
        /\ \A s \in 1..Len(sessions) : sessions'[s] = new(s)
    <3>1. Len(sessions) \in Nat
      BY <1>1 DEF Types
    <3> HIDE DEF new
    <3> QED
      BY <2>1, <2>3, <3>1
  <2>5. SessionInv'
    <3> HIDE DEF new
    <3> QED
      BY <1>1, <2>1, <2>3, <2>4 DEF SessionInv, Removable
  <2> QED
    BY <1>1, <1>2, <2>1, <2>4, <2>5 DEF IInv, Types, CountInv, LimitInv, Sensible
<1>5. CASE \E s \in DOMAIN sessions : Expire(s)
  BY <1>1, <1>2, <1>5 DEF Expire, IInv, Types, SessionInv, CountInv, LimitInv, Sensible
<1> QED
  BY <1>3, <1>4, <1>5

LEMMA InitHolds == Sensible /\ Init => IInv
<1> SUFFICES ASSUME Sensible, Init
             PROVE  IInv
  OBVIOUS
<1>1. Fresh \in AccountType /\ Fresh.fails = 0
  BY DEF Fresh, AccountType
<1>2. NewSession \in SessionType /\ epoch = 0 /\ NewSession.born = 0 /\ ~NewSession.gone
  BY DEF Init, NewSession, SessionType
<1>3. /\ sessions = <<NewSession>> /\ Len(sessions) = 1 /\ sessions[1] = NewSession
      /\ sessions \in Seq(SessionType)
  BY <1>2 DEF Init
<1>4. PICK kinds \in Kinds, of \in [Calls -> Requests] :
        call = [c \in Calls |-> [kind |-> kinds[c], of |-> of[c], pc |-> "idle", user |-> Fresh, session |-> 0]]
  BY DEF Init
<1>5. kinds \in [Calls -> CallKinds]
  BY DEF Sensible
<1>6. call \in [Calls -> CallType]
  BY <1>1, <1>4, <1>5 DEF CallType, PCs
<1>7. \A c \in Calls : call[c].user = Fresh
  BY <1>4
<1>8. Types
  <2>1. account \in AccountType /\ expired = {} /\ epoch \in Nat /\ stale \in BOOLEAN
    <3>1. account = Fresh /\ expired = {} /\ epoch = 0 /\ stale = FALSE
      BY DEF Init
    <3> QED
      BY <1>1, <3>1
  <2> QED
    BY <1>3, <1>6, <2>1 DEF Types
<1>9. SessionInv
  BY <1>2, <1>3 DEF SessionInv
<1>10. Cardinality(Tried) \in Nat
  <2>1. IsFiniteSet(Calls) /\ Tried \subseteq Calls
    BY DEF Sensible, Tried
  <2> QED
    BY <2>1, FS_Subset, FS_CardinalityType
<1>11. CountInv
  BY <1>1, <1>7, <1>10 DEF Init, CountInv
<1>12. LimitInv
  BY <1>1 DEF Init, LimitInv, Sensible
<1> QED
  BY <1>8, <1>9, <1>11, <1>12 DEF IInv

LEMMA NextHolds == IInv /\ [Next]_vars => IInv'
<1> SUFFICES ASSUME IInv, [Next]_vars
             PROVE  IInv'
  OBVIOUS
<1>1. CASE UNCHANGED vars
  BY <1>1 DEF vars, IInv, Sensible, Types, SessionInv, CountInv, LimitInv, Tried
<1>2. ASSUME NEW c \in Calls, CallStep(c) PROVE IInv'
  BY <1>2, CallKeeps
<1>3. CASE LockEnds \/ Cleanup \/ \E s \in DOMAIN sessions : Expire(s)
  BY <1>3, TimeKeeps
<1> QED
  BY <1>1, <1>2, <1>3 DEF Next, CallStep

\* The invariant is inductive, however the calls overlap.
THEOREM Inductive == Sensible /\ Spec => []IInv
<1>1. Sensible /\ Init => IInv
  BY InitHolds
<1> QED
  BY <1>1, NextHolds, PTL DEF Spec

-----------------------------------------------------------------------------
(* What it implies                                                         *)

\* ROLE_PERMISSIONS gives each role what the one below it has.
LEMMA Nested == RolesNested
<1>1. ASSUME NEW p \in Permissions("viewer") PROVE HasPermission("analyst", p[1], p[2])
  BY <1>1 DEF Permissions, HasPermission, Common
<1>2. ASSUME NEW p \in Permissions("analyst") PROVE HasPermission("investigator", p[1], p[2])
  BY <1>2 DEF Permissions, HasPermission, Common
<1>3. ASSUME NEW p \in Permissions("investigator") PROVE HasPermission("admin", p[1], p[2])
  <2>1. p[2] \in {"create", "read", "update", "delete"}
    BY <1>3 DEF Permissions, Common
  <2>2. <<"all", p[2]>> \in Permissions("admin")
    BY <2>1 DEF Permissions
  <2> QED
    BY <2>2 DEF HasPermission
<1> QED
  BY <1>1, <1>2, <1>3 DEF RolesNested

\* No session survives the call that ended all of them, an account whose wrong
\* logins reached the limit is or was locked when all is quiet, however they
\* overlapped (UserService, SessionRepository), and roles are nested (rbac.py).
THEOREM SafeSessions == Sensible /\ Spec => []SessionsSafe
<1>1. IInv => TypeOK
  <2> SUFFICES ASSUME IInv PROVE TypeOK
    OBVIOUS
  <2>1. Types /\ CountInv /\ SessionInv /\ IsFiniteSet(Calls) /\ DOMAIN sessions = 1..Len(sessions)
    BY DEF IInv, Sensible, Types
  <2>2. Tried \subseteq Calls
    BY DEF Tried
  <2>3. Cardinality(Tried) <= Cardinality(Calls) /\ Cardinality(Tried) \in Nat /\ Cardinality(Calls) \in Nat
    BY <2>1, <2>2, FS_Subset, FS_CardinalityType
  <2>4. account.fails \in Nat /\ account.fails <= Cardinality(Tried)
    BY <2>1 DEF Types, AccountType, CountInv
  <2>5. account.fails \in 0..Cardinality(Calls)
    BY <2>3, <2>4
  <2> QED
    BY <2>1, <2>5 DEF TypeOK, Types, AccountType, SessionInv
<1>2. IInv => NoneSurvives
  BY DEF IInv, Types, SessionInv, NoneSurvives
<1>3. IInv => ThresholdLocks
  BY DEF IInv, LimitInv, ThresholdLocks, Busy, Ended
<1> QED
  BY <1>1, <1>2, <1>3, Nested, Inductive, PTL DEF SessionsSafe

\* The token of a revoked session is never accepted, its row removed or not, and a
\* deactivated account is active again only when a stale row was written back
\* (is_token_revoked, cleanup_expired, change_password).
THEOREM RevokedStay == Sensible /\ Spec => [][SessionsStep]_vars
<1>1. IInv /\ [Next]_vars => [SessionsStep]_vars
  <2> SUFFICES ASSUME IInv, Next PROVE SessionsStep
    BY DEF vars
  <2>1. Types /\ SessionInv /\ DOMAIN sessions = 1..Len(sessions)
    BY DEF IInv, Types
  <2>2. ASSUME NEW c \in Calls, At(c, "idle"), call'[c].pc \in {"rotate", "check_user"}
        PROVE  ~sessions[call'[c].session].revoked
    <3>1. call'[c] # call[c] /\ call \in [Calls -> CallType]
      BY <2>1, <2>2 DEF At, Types
    <3>2. PICK d \in Calls : CallStep(d)
      BY <3>1 DEF Next, CallStep, LockEnds, Cleanup, Expire
    <3>3. d = c
      BY <2>1, <3>1, <3>2, CallShape, OthersWait
    <3>4. PICK s \in 1..Len(sessions) \ expired : ~Revoked(s) /\ call'[c].session = s
      <4>1. CASE Refresh(c) \/ CheckToken(c)
        <5>1. PICK s \in 1..Len(sessions) \ expired :
                call' = [call EXCEPT ![c].pc = IF Revoked(s) THEN "refused"
                                               ELSE IF Refresh(c) THEN "rotate" ELSE "check_user",
                                     ![c].session = s]
          BY <2>1, <4>1 DEF Refresh, CheckToken
        <5>2. call[c] \in CallType
          BY <3>1
        <5>3. call'[c].session = s /\ (Revoked(s) => call'[c].pc = "refused")
          BY <3>1, <5>1, <5>2 DEF CallType
        <5> QED
          BY <2>2, <5>3
      <4>2. CASE ~Refresh(c) /\ ~CheckToken(c)
        BY <2>1, <2>2, <3>1, <3>2, <3>3, <4>2
           DEF CallStep, At, Starts, Goto, LoadUser, Login, CountFailure, Reload, Lock, ResetFailures, Create,
               Rotate, UserOfRefresh, RevokeOne, RevokeAll, LoadRow, SaveRow, CheckUser, CallType
      <4> QED
        BY <4>1, <4>2
    <3> QED
      BY <2>1, <3>4 DEF SessionInv, Revoked
  <2>3. ASSUME ~account.active, account'.active
        PROVE  stale'
    <3>1. CASE \E c \in Calls : CallStep(c)
      <4>1. PICK c \in Calls, p \in PCs : Accounts(c, p)
        BY <2>1, <3>1, CallShape
      <4>2. account \in AccountType /\ (Written(c).active => call[c].user.active)
        BY <2>1, Written0 DEF Types
      <4> QED
        BY <2>3, <4>1, <4>2 DEF Accounts, AccountType
    <3>2. CASE LockEnds \/ Cleanup \/ \E s \in DOMAIN sessions : Expire(s)
      BY <2>1, <2>3, <3>2 DEF LockEnds, Cleanup, Expire, Types, AccountType
    <3> QED
      BY <3>1, <3>2 DEF Next, CallStep
  <2> QED
    BY <2>2, <2>3 DEF SessionsStep
<1> QED
  BY <1>1, Inductive, PTL DEF Spec

-----------------------------------------------------------------------------
(* The requests of /ai: any number of them on any evidence, any levels, an *)
(* answer kept for any time, any outages and parses.                       *)
(*                                                                         *)
(* A request moves alone, so of each its own state says what rows and what *)
(* open request it has. A kept answer that the server is down is no        *)
(* younger than the outage it saw.                                         *)
CONSTANTS Evidence, Asked, Work, Levels, Unranked, FreshFor, MaxFlips, MaxParses, MaxFaults
VARIABLES up, sinceDown, flips, faults, health, stored, parses, answers, usage, rows, asked
R == INSTANCE AiRequests WITH Calls <- Asked, call <- asked

\* The instance has its own names for what FiniteSets defines.
LEMMA AiSizes == \A S : (R!IsFiniteSet(S) <=> IsFiniteSet(S)) /\ R!Cardinality(S) = Cardinality(S)
BY DEF R!IsFiniteSet, IsFiniteSet, R!Cardinality, Cardinality

Places == {"idle", "unknown", "loaded", "refused", "asked", "answered", "recorded", "done", "failed"}
ReadType == [parse : Nat, level : Levels]
AiCallType == [pc : Places, read : ReadType, level : Levels, said : BOOLEAN, told : ReadType, since : Nat]
AnswerType == [kind : R!AskKinds, evidence : Evidence, read : ReadType, said : BOOLEAN]
RowType == [call : Asked, kind : R!AskKinds, sure : BOOLEAN]
SavedType == [parse : Nat, level : Levels, by : SUBSET Asked]
UsageType == [requests : SUBSET Asked, open : SUBSET Asked, flagged : Nat, scored : Nat]

AiTypes ==
  /\ up \in BOOLEAN /\ sinceDown \in 0..FreshFor /\ health \in [known : BOOLEAN, ok : BOOLEAN, age : 0..FreshFor]
  /\ stored \in [Evidence -> SavedType] /\ parses \in [Evidence -> Nat] /\ answers \subseteq AnswerType
  /\ usage \in UsageType /\ rows \subseteq RowType /\ asked \in [Asked -> AiCallType]

\* A kept answer that the server is down is no younger than the outage.
HealthInv ==
  /\ ~up => sinceDown = 0
  /\ health.known /\ ~health.ok => sinceDown <= health.age

\* The rows of a request, by where it is.
Mine(c) == {r \in rows : r.call = c}
RowInv(c) ==
  /\ asked[c].pc \notin {"recorded", "done", "failed"} => Mine(c) = {}
  /\ asked[c].pc \in {"recorded", "done"} => \E r \in RowType : Mine(c) = {r}
  /\ asked[c].pc = "recorded" => R!Kind(c) = "classify"
  /\ asked[c].pc = "failed" /\ Mine(c) # {} => R!Kind(c) = "classify"
ByInv == \A e \in Evidence : \A c \in stored[e].by : asked[c].pc = "done"

\* The monitor hears of classifications and summaries, from the moment they ask.
Silent(c) == R!Kind(c) \in {"explain", "ask"}
UsageInv ==
  /\ \A c \in usage.requests : ~Silent(c) /\ asked[c].pc \notin {"idle", "loaded"}
  /\ \A c \in Asked : asked[c].pc = "asked" /\ ~Silent(c) => c \in usage.requests

AiIInv ==
  /\ R!Sensible /\ AiTypes /\ HealthInv /\ (\A c \in Asked : RowInv(c)) /\ ByInv /\ UsageInv
  /\ R!RefusalsAreRecent /\ R!ToldOfTheSame /\ R!UsageAgrees /\ R!OnlyLateRankingsReplace

-----------------------------------------------------------------------------
(* A step of a request changes the request alone                           *)

\* What a request that moves on may change of itself.
Moved(c, q) == q \in AiCallType /\ asked' = [asked EXCEPT ![c] = q]
LEMMA MovedIs ==
  ASSUME AiTypes, NEW c \in Asked, NEW q, Moved(c, q)
  PROVE  asked' \in [Asked -> AiCallType] /\ asked'[c] = q /\ \A d \in Asked : d # c => asked'[d] = asked[d]
BY DEF AiTypes, Moved

\* The rows of the others.
LEMMA OthersRows ==
  ASSUME AiIInv, NEW c \in Asked, \A d \in Asked : d # c => asked'[d] = asked[d],
         rows' = rows \/ \E r \in RowType : r.call = c /\ rows' = rows \cup {r}, RowInv(c)'
  PROVE  \A d \in Asked : RowInv(d)'
<1> SUFFICES ASSUME NEW d \in Asked, d # c PROVE RowInv(d)'
  OBVIOUS
<1>1. RowInv(d) /\ asked'[d] = asked[d]
  BY DEF AiIInv
<1>2. Mine(d)' = Mine(d)
  BY DEF Mine
<1> QED
  BY <1>1, <1>2 DEF RowInv

\* What was saved before stays as it was: a call that is done moves no more.
LEMMA SavedStays ==
  ASSUME AiIInv, NEW c \in Asked, NEW q, Moved(c, q), asked[c].pc # "done",
         stored' = stored, parses' = parses
  PROVE  ByInv' /\ R!OnlyLateRankingsReplace'
<1>1. AiTypes /\ ByInv /\ R!OnlyLateRankingsReplace
  BY DEF AiIInv
<1>2. \A d \in Asked : d # c => asked'[d] = asked[d]
  BY <1>1, MovedIs
<1>3. \A e \in Evidence : stored[e].by \subseteq Asked
  BY <1>1 DEF AiTypes, SavedType
<1>4. \A e \in Evidence : \A d \in stored[e].by : asked[d].pc = "done" /\ asked'[d] = asked[d]
  BY <1>1, <1>2, <1>3 DEF ByInv
<1>5. ByInv'
  BY <1>4 DEF ByInv
<1>6. R!OnlyLateRankingsReplace'
  BY <1>1, <1>4 DEF R!OnlyLateRankingsReplace
<1> QED
  BY <1>5, <1>6

\* A step of which the monitor does not hear, and need not.
LEMMA UsageStays ==
  ASSUME AiIInv, NEW c \in Asked, NEW q, Moved(c, q), usage' = usage,
         asked[c].pc = "asked" \/ q.pc = "asked" => Silent(c), q.pc \notin {"idle", "loaded"} \/ asked[c].pc = "idle"
  PROVE  UsageInv' /\ R!UsageAgrees'
<1>1. AiTypes /\ UsageInv /\ R!UsageAgrees
  BY DEF AiIInv
<1>2. asked'[c] = q /\ \A d \in Asked : d # c => asked'[d] = asked[d]
  BY <1>1, MovedIs
<1>3. usage.requests \subseteq Asked
  BY <1>1 DEF AiTypes, UsageType
<1>4. \A d \in Asked : Silent(d)' <=> Silent(d)
  BY DEF Silent, R!Kind
<1>5. UsageInv'
  BY <1>1, <1>2, <1>3, <1>4 DEF UsageInv
<1>6. \A d \in usage.requests : asked'[d].pc = "asked" <=> asked[d].pc = "asked"
  BY <1>1, <1>2, <1>3 DEF UsageInv
<1>7. R!UsageAgrees'
  BY <1>1, <1>6 DEF R!UsageAgrees
<1> QED
  BY <1>5, <1>7

\* What of a request depends on itself alone.
Told(c) ==
  /\ asked[c].pc = "refused" => asked[c].since < FreshFor
  /\ asked[c].pc \in {"answered", "recorded", "done"} => asked[c].told = asked[c].read
LEMMA ToldIs == (R!RefusalsAreRecent /\ R!ToldOfTheSame) <=> \A c \in Asked : Told(c)
BY DEF R!RefusalsAreRecent, R!ToldOfTheSame, Told
LEMMA OthersTold ==
  ASSUME AiIInv, NEW c \in Asked, NEW q, Moved(c, q), Told(c)'
  PROVE  (R!RefusalsAreRecent /\ R!ToldOfTheSame)'
<1>1. \A d \in Asked : Told(d)
  BY ToldIs DEF AiIInv
<1>2. \A d \in Asked : d # c => asked'[d] = asked[d]
  BY MovedIs DEF AiIInv
<1>3. \A d \in Asked : Told(d)'
  BY <1>1, <1>2 DEF Told
<1> QED
  BY <1>3, ToldIs DEF R!RefusalsAreRecent, R!ToldOfTheSame, Told

LEMMA HealthStays ==
  ASSUME HealthInv, up' = up, sinceDown' = sinceDown, health' = health
  PROVE  HealthInv'
BY DEF HealthInv

-----------------------------------------------------------------------------
(* The steps of a request                                                  *)

LEMMA LoadStep == ASSUME AiIInv, NEW c \in Asked, R!Load(c) PROVE AiIInv'
<1>1. R!Sensible /\ AiTypes /\ HealthInv /\ RowInv(c)
  BY DEF AiIInv
<1>2. PICK q \in AiCallType : Moved(c, q) /\ q.pc \in {"unknown", "loaded"}
  <2>1. asked[c] \in AiCallType /\ stored[R!Item(c)] \in SavedType
    BY <1>1 DEF AiTypes, R!Sensible, R!Item
  <2> DEFINE s == stored[R!Item(c)]
             new == IF s.parse = 0 THEN [asked[c] EXCEPT !.pc = "unknown"]
                    ELSE [asked[c] EXCEPT !.pc = "loaded", !.read = [parse |-> s.parse, level |-> s.level]]
  <2>2. asked' = [asked EXCEPT ![c] = new]
    BY <1>1 DEF R!Load, R!To, AiTypes
  <2>3. [parse |-> s.parse, level |-> s.level] \in ReadType
    BY <2>1 DEF SavedType, ReadType
  <2>4. new \in AiCallType /\ new.pc \in {"unknown", "loaded"}
    BY <2>1, <2>3 DEF AiCallType, Places
  <2> QED
    BY <2>2, <2>4 DEF Moved
<1>3. asked'[c] = q /\ asked' \in [Asked -> AiCallType] /\ \A d \in Asked : d # c => asked'[d] = asked[d]
  BY <1>1, <1>2, MovedIs
<1>4. asked[c].pc = "idle" /\ rows' = rows /\ usage' = usage /\ stored' = stored /\ parses' = parses
  BY DEF R!Load
<1>5. AiTypes'
  BY <1>1, <1>3 DEF R!Load, R!env, AiTypes
<1>6. HealthInv'
  BY <1>1, HealthStays DEF R!Load, R!env
<1>7. RowInv(c)'
  BY <1>1, <1>2, <1>3, <1>4 DEF RowInv, Mine
<1>8. \A d \in Asked : RowInv(d)'
  BY <1>3, <1>4, <1>7, OthersRows
<1>9. ByInv' /\ R!OnlyLateRankingsReplace'
  BY <1>2, <1>4, SavedStays
<1>10. UsageInv' /\ R!UsageAgrees'
  BY <1>2, <1>4, UsageStays
<1>11. Told(c)'
  BY <1>2, <1>3 DEF Told
<1>12. (R!RefusalsAreRecent /\ R!ToldOfTheSame)'
  BY <1>2, <1>11, OthersTold
<1> QED
  BY <1>1, <1>5, <1>6, <1>8, <1>9, <1>10, <1>12 DEF AiIInv, R!Sensible

LEMMA ByRulesStep == ASSUME AiIInv, NEW c \in Asked, R!ByRules(c) PROVE AiIInv'
<1>1. R!Sensible /\ AiTypes /\ HealthInv /\ RowInv(c)
  BY DEF AiIInv
<1>2. PICK q \in AiCallType : Moved(c, q) /\ q.pc = "answered" /\ q.told = q.read
  <2>1. asked[c] \in AiCallType
    BY <1>1 DEF AiTypes
  <2>2. PICK l \in Levels :
          asked' = [R!To(c, "answered") EXCEPT ![c].level = l, ![c].said = TRUE, ![c].told = asked[c].read]
    BY DEF R!ByRules
  <2> DEFINE new == [asked[c] EXCEPT !.pc = "answered", !.level = l, !.said = TRUE, !.told = asked[c].read]
  <2>3. asked' = [asked EXCEPT ![c] = new]
    BY <1>1, <2>2 DEF R!To, AiTypes
  <2>4. new \in AiCallType /\ new.pc = "answered" /\ new.told = new.read
    BY <2>1 DEF AiCallType, Places
  <2> QED
    BY <2>3, <2>4 DEF Moved
<1>3. asked'[c] = q /\ asked' \in [Asked -> AiCallType] /\ \A d \in Asked : d # c => asked'[d] = asked[d]
  BY <1>1, <1>2, MovedIs
<1>4. asked[c].pc = "loaded" /\ rows' = rows /\ usage' = usage /\ stored' = stored /\ parses' = parses
  BY DEF R!ByRules
<1>5. AiTypes'
  BY <1>1, <1>3 DEF R!ByRules, R!env, AiTypes
<1>6. HealthInv'
  BY <1>1, HealthStays DEF R!ByRules, R!env
<1>7. RowInv(c)'
  BY <1>1, <1>2, <1>3, <1>4 DEF RowInv, Mine
<1>8. \A d \in Asked : RowInv(d)'
  BY <1>3, <1>4, <1>7, OthersRows
<1>9. ByInv' /\ R!OnlyLateRankingsReplace'
  BY <1>2, <1>4, SavedStays
<1>10. UsageInv' /\ R!UsageAgrees'
  BY <1>2, <1>4, UsageStays
<1>11. Told(c)'
  BY <1>2, <1>3 DEF Told
<1>12. (R!RefusalsAreRecent /\ R!ToldOfTheSame)'
  BY <1>2, <1>11, OthersTold
<1> QED
  BY <1>1, <1>5, <1>6, <1>8, <1>9, <1>10, <1>12 DEF AiIInv, R!Sensible

LEMMA ProbedIs ==
  ASSUME AiIInv
  PROVE  /\ R!Probed \in [known : BOOLEAN, ok : BOOLEAN, age : 0..FreshFor]
         /\ ~up => sinceDown = 0
         /\ R!Probed.known /\ ~R!Probed.ok => sinceDown <= R!Probed.age
         /\ ~R!Available => sinceDown < FreshFor
<1>1. AiTypes /\ HealthInv /\ FreshFor \in Nat \ {0}
  BY DEF AiIInv, R!Sensible
<1>2. sinceDown \in 0..FreshFor /\ health \in [known : BOOLEAN, ok : BOOLEAN, age : 0..FreshFor] /\ up \in BOOLEAN
  BY <1>1 DEF AiTypes
<1>3. CASE R!Fresh
  BY <1>1, <1>2, <1>3 DEF R!Probed, R!Available, R!Fresh, HealthInv
<1>4. CASE ~R!Fresh
  BY <1>1, <1>2, <1>4 DEF R!Probed, R!Available, HealthInv
<1> QED
  BY <1>3, <1>4

\* What is remembered is found again only by those who read the same.
LEMMA CachedSame == \A c \in Asked : \A a \in R!Cached(c) : a \in answers /\ a.read = asked[c].read
BY DEF R!Cached, R!KeyOf

LEMMA AskStep == ASSUME AiIInv, NEW c \in Asked, R!Ask(c) PROVE AiIInv'
<1>1. R!Sensible /\ AiTypes /\ UsageInv /\ R!UsageAgrees /\ RowInv(c)
  BY DEF AiIInv
<1> DEFINE refused == R!Kind(c) # "ask" /\ ~R!Available
           again == ~refused /\ Silent(c) /\ R!Cached(c) # {}
           asks == ~refused /\ ~again
<1>2. PICK q \in AiCallType :
        /\ Moved(c, q) /\ Told(c)' /\ q.pc \in {"refused", "answered", "asked"}
        /\ refused => q.pc = "refused"
        /\ again => q.pc = "answered"
        /\ asks => q.pc = "asked"
  <2>1. asked[c] \in AiCallType /\ sinceDown \in Nat
    BY <1>1 DEF AiTypes, R!Sensible
  <2>2. CASE refused
    <3> DEFINE new == [asked[c] EXCEPT !.pc = "refused", !.since = sinceDown]
    <3>1. asked' = [asked EXCEPT ![c] = new]
      BY <1>1, <2>2 DEF R!Ask, R!To, AiTypes
    <3>2. new \in AiCallType /\ new.pc = "refused" /\ new.since < FreshFor
      BY <2>1, <2>2, ProbedIs DEF AiCallType, Places
    <3>3. Moved(c, new) /\ asked'[c] = new
      BY <1>1, <3>1, <3>2 DEF Moved, AiTypes
    <3>4. Told(c)'
      BY <3>2, <3>3, <1>1 DEF Told, R!Sensible
    <3> QED
      BY <2>2, <3>2, <3>3, <3>4
  <2>3. CASE again
    <3>1. PICK a \in R!Cached(c) : asked' = [R!To(c, "answered") EXCEPT ![c].said = a.said, ![c].told = a.read]
      BY <2>3 DEF R!Ask, Silent
    <3>2. a.said \in BOOLEAN /\ a.read = asked[c].read
      BY <1>1, CachedSame DEF AiTypes, AnswerType
    <3> DEFINE new == [asked[c] EXCEPT !.pc = "answered", !.said = a.said, !.told = a.read]
    <3>3. asked' = [asked EXCEPT ![c] = new]
      BY <1>1, <3>1 DEF R!To, AiTypes
    <3>4. new \in AiCallType /\ new.pc = "answered" /\ new.told = new.read
      BY <2>1, <3>2 DEF AiCallType, Places
    <3>5. Moved(c, new) /\ asked'[c] = new
      BY <1>1, <3>3, <3>4 DEF Moved, AiTypes
    <3>6. Told(c)'
      BY <3>4, <3>5 DEF Told
    <3> QED
      BY <2>3, <3>4, <3>5, <3>6
  <2>4. CASE asks
    <3> DEFINE new == [asked[c] EXCEPT !.pc = "asked"]
    <3>1. asked' = [asked EXCEPT ![c] = new]
      BY <1>1, <2>4 DEF R!Ask, R!To, AiTypes, Silent
    <3>2. new \in AiCallType /\ new.pc = "asked"
      BY <2>1 DEF AiCallType, Places
    <3>3. Moved(c, new) /\ asked'[c] = new
      BY <1>1, <3>1, <3>2 DEF Moved, AiTypes
    <3>4. Told(c)'
      BY <3>2, <3>3 DEF Told
    <3> QED
      BY <2>4, <3>2, <3>3, <3>4
  <2> QED
    BY <2>2, <2>3, <2>4
<1>3. asked'[c] = q /\ asked' \in [Asked -> AiCallType] /\ \A d \in Asked : d # c => asked'[d] = asked[d]
  BY <1>1, <1>2, MovedIs
<1>4. /\ asked[c].pc = "loaded" /\ rows' = rows /\ stored' = stored /\ parses' = parses /\ answers' = answers
      /\ up' = up /\ sinceDown' = sinceDown /\ (health' = health \/ health' = R!Probed)
  BY DEF R!Ask, R!env
<1>5. AiTypes' /\ UsageInv' /\ R!UsageAgrees'
  <2>1. CASE asks /\ ~Silent(c)
    <3>1. usage' = R!Opened(c)
      BY <2>1 DEF R!Ask, Silent
    <3>2. /\ usage' \in UsageType /\ usage'.requests = usage.requests \cup {c} /\ usage'.open = usage.open \cup {c}
          /\ usage'.flagged = usage.flagged /\ usage'.scored = usage.scored
      BY <1>1, <3>1 DEF R!Opened, AiTypes, UsageType
    <3>3. c \notin usage.requests
      BY <1>1, <1>4 DEF UsageInv
    <3>4. usage.requests \subseteq Asked
      BY <1>1 DEF AiTypes, UsageType
    <3>5. q.pc = "asked"
      BY <1>2, <2>1
    <3>6. AiTypes'
      BY <1>1, <1>3, <1>4, <3>2, ProbedIs DEF AiTypes
    <3>7. \A d \in Asked : Silent(d)' <=> Silent(d)
      BY DEF Silent, R!Kind
    <3>8. UsageInv'
      BY <1>1, <1>3, <2>1, <3>2, <3>4, <3>5, <3>7 DEF UsageInv
    <3>9. usage'.open = {d \in usage'.requests : asked'[d].pc = "asked"}
      BY <1>1, <1>3, <3>2, <3>4, <3>5 DEF R!UsageAgrees
    <3>10. usage'.requests \ usage'.open = usage.requests \ usage.open
      BY <3>2, <3>3
    <3>11. R!UsageAgrees'
      BY <1>1, <3>2, <3>9, <3>10 DEF R!UsageAgrees
    <3> QED
      BY <3>6, <3>8, <3>11
  <2>2. CASE ~(asks /\ ~Silent(c))
    <3>1. usage' = usage
      BY <2>2 DEF R!Ask, Silent
    <3>2. q.pc = "asked" => Silent(c)
      BY <1>2, <2>2
    <3>3. UsageInv' /\ R!UsageAgrees'
      BY <1>2, <1>4, <3>1, <3>2, UsageStays
    <3>4. AiTypes'
      BY <1>1, <1>3, <1>4, <3>1, ProbedIs DEF AiTypes
    <3> QED
      BY <3>3, <3>4
  <2> QED
    BY <2>1, <2>2
<1>6. HealthInv'
  <2>1. HealthInv
    BY DEF AiIInv
  <2> QED
    BY <1>4, <2>1, ProbedIs DEF HealthInv
<1>7. RowInv(c)'
  BY <1>1, <1>2, <1>3, <1>4 DEF RowInv, Mine
<1>8. \A d \in Asked : RowInv(d)'
  BY <1>3, <1>4, <1>7, OthersRows
<1>9. ByInv' /\ R!OnlyLateRankingsReplace'
  BY <1>2, <1>4, SavedStays
<1>12. (R!RefusalsAreRecent /\ R!ToldOfTheSame)'
  BY <1>2, OthersTold
<1> QED
  BY <1>1, <1>5, <1>6, <1>8, <1>9, <1>12 DEF AiIInv, R!Sensible

LEMMA AnswerStep == ASSUME AiIInv, NEW c \in Asked, R!Answer(c) PROVE AiIInv'
<1>1. R!Sensible /\ AiTypes /\ HealthInv /\ UsageInv /\ R!UsageAgrees /\ RowInv(c)
  BY DEF AiIInv
<1>2. PICK q \in AiCallType : Moved(c, q) /\ q.pc = "answered" /\ q.told = q.read
  <2>1. asked[c] \in AiCallType /\ R!Said \in BOOLEAN /\ Unranked \in Levels
    BY <1>1 DEF AiTypes, R!Said, R!Sensible
  <2>2. PICK l \in Levels :
          asked' = [R!To(c, "answered") EXCEPT ![c].level = l, ![c].said = R!Said, ![c].told = asked[c].read]
    BY <2>1 DEF R!Answer
  <2> DEFINE new == [asked[c] EXCEPT !.pc = "answered", !.level = l, !.said = R!Said, !.told = asked[c].read]
  <2>3. asked' = [asked EXCEPT ![c] = new]
    BY <1>1, <2>2 DEF R!To, AiTypes
  <2>4. new \in AiCallType /\ new.pc = "answered" /\ new.told = new.read
    BY <2>1 DEF AiCallType, Places
  <2> QED
    BY <2>3, <2>4 DEF Moved
<1>3. asked'[c] = q /\ asked' \in [Asked -> AiCallType] /\ \A d \in Asked : d # c => asked'[d] = asked[d]
  BY <1>1, <1>2, MovedIs
<1>4. /\ asked[c].pc = "asked" /\ rows' = rows /\ stored' = stored /\ parses' = parses
      /\ up' = up /\ sinceDown' = sinceDown /\ health' = health
  BY DEF R!Answer, R!env
<1>5. AiTypes' /\ UsageInv' /\ R!UsageAgrees'
  <2>1. CASE Silent(c)
    <3>1. usage' = usage /\ answers' = R!Remembered(c)
      BY <2>1 DEF R!Answer, Silent
    <3>2. UsageInv' /\ R!UsageAgrees'
      BY <1>2, <2>1, <3>1, UsageStays
    <3>3. [kind |-> R!Kind(c), evidence |-> R!Item(c), read |-> asked[c].read, said |-> R!Said] \in AnswerType
      BY <1>1 DEF AnswerType, AiTypes, R!Sensible, AiCallType, R!Kind, R!Item, R!Said
    <3>4. answers' \subseteq AnswerType
      BY <1>1, <3>1, <3>3 DEF AiTypes, R!Remembered
    <3>5. AiTypes'
      BY <1>1, <1>3, <1>4, <3>1, <3>4 DEF AiTypes
    <3> QED
      BY <3>2, <3>5
  <2>2. CASE ~Silent(c)
    <3>1. answers' = answers
      BY <2>2 DEF R!Answer, Silent
    <3>2. PICK flagged \in {0, 1} : usage' = R!Closed(c, flagged)
      BY <2>2 DEF R!Answer, Silent
    <3>3. usage \in UsageType
      BY <1>1 DEF AiTypes
    <3>4. /\ usage' \in UsageType /\ usage'.requests = usage.requests /\ usage'.open = usage.open \ {c}
          /\ usage'.flagged = usage.flagged + flagged /\ usage'.scored = usage.scored + 1
      <4>1. /\ usage.requests \in SUBSET Asked /\ usage.open \in SUBSET Asked
            /\ usage.flagged \in Nat /\ usage.scored \in Nat
        BY <3>3 DEF UsageType
      <4>2. usage.flagged + flagged \in Nat /\ usage.scored + 1 \in Nat
        BY <4>1
      <4>3. usage' = [usage EXCEPT !.open = usage.open \ {c}, !.flagged = usage.flagged + flagged,
                                   !.scored = usage.scored + 1]
        BY <3>2 DEF R!Closed
      <4>4. usage.open \ {c} \in SUBSET Asked
        BY <4>1
      <4>5. usage' \in UsageType
        BY <3>3, <4>2, <4>3, <4>4 DEF UsageType
      <4> QED
        BY <3>3, <4>3, <4>5 DEF UsageType
    <3>5. c \in usage.requests /\ c \in usage.open
      BY <1>1, <1>4, <2>2 DEF UsageInv, R!UsageAgrees
    <3>6. usage.requests \subseteq Asked
      BY <3>3 DEF UsageType
    <3>7. AiTypes'
      BY <1>1, <1>3, <1>4, <3>1, <3>4 DEF AiTypes
    <3>8. \A d \in Asked : Silent(d)' <=> Silent(d)
      BY DEF Silent, R!Kind
    <3>9. UsageInv'
      BY <1>1, <1>2, <1>3, <3>4, <3>6, <3>8 DEF UsageInv
    <3>10. usage'.open = {d \in usage'.requests : asked'[d].pc = "asked"}
      BY <1>1, <1>2, <1>3, <3>4, <3>6 DEF R!UsageAgrees
    <3>11. usage'.requests \ usage'.open = (usage.requests \ usage.open) \cup {c}
      BY <3>4, <3>5
    <3>12. IsFiniteSet(usage.requests \ usage.open) /\ c \notin usage.requests \ usage.open
      BY <1>1, <3>5, <3>6, FS_Subset, AiSizes DEF R!Sensible
    <3>13. Cardinality(usage'.requests \ usage'.open) = Cardinality(usage.requests \ usage.open) + 1
      BY <3>11, <3>12, FS_AddElement
    <3>14. usage'.scored = Cardinality(usage'.requests \ usage'.open)
      BY <1>1, <3>4, <3>13, AiSizes DEF R!UsageAgrees
    <3>15. usage'.flagged <= usage'.scored
      <4>1. usage.flagged \in Nat /\ usage.scored \in Nat /\ usage.flagged <= usage.scored
        BY <1>1, <3>3 DEF UsageType, R!UsageAgrees
      <4> QED
        BY <3>4, <4>1
    <3> QED
      BY <3>7, <3>9, <3>10, <3>14, <3>15, AiSizes DEF R!UsageAgrees
  <2> QED
    BY <2>1, <2>2
<1>6. HealthInv'
  BY <1>1, <1>4, HealthStays
<1>7. RowInv(c)'
  BY <1>1, <1>2, <1>3, <1>4 DEF RowInv, Mine
<1>8. \A d \in Asked : RowInv(d)'
  BY <1>3, <1>4, <1>7, OthersRows
<1>9. ByInv' /\ R!OnlyLateRankingsReplace'
  BY <1>2, <1>4, SavedStays
<1>11. Told(c)'
  BY <1>2, <1>3 DEF Told
<1>12. (R!RefusalsAreRecent /\ R!ToldOfTheSame)'
  BY <1>2, <1>11, OthersTold
<1> QED
  BY <1>1, <1>5, <1>6, <1>8, <1>9, <1>12 DEF AiIInv, R!Sensible

LEMMA PersistStep == ASSUME AiIInv, NEW c \in Asked, R!Persist(c) PROVE AiIInv'
<1>1. R!Sensible /\ AiTypes /\ HealthInv /\ RowInv(c) /\ Told(c)
  BY ToldIs DEF AiIInv
<1> DEFINE row == [call |-> c, kind |-> R!Kind(c), sure |-> R!Sure(c)]
<1>2. row \in RowType
  BY <1>1 DEF RowType, R!Sensible, R!Kind, R!Sure, AiTypes, AiCallType
<1>3. PICK q \in AiCallType :
        /\ Moved(c, q) /\ q.told = asked[c].told /\ q.read = asked[c].read
        /\ \/ rows' = rows \cup {row} /\ q.pc = IF R!Kind(c) = "classify" THEN "recorded" ELSE "done"
           \/ rows' = rows /\ q.pc = "failed"
  <2>1. asked[c] \in AiCallType
    BY <1>1 DEF AiTypes
  <2>2. PICK pc \in {"recorded", "done", "failed"} :
          /\ asked' = R!To(c, pc)
          /\ \/ rows' = rows \cup {row} /\ pc = IF R!Kind(c) = "classify" THEN "recorded" ELSE "done"
             \/ rows' = rows /\ pc = "failed"
    BY DEF R!Persist, R!Raises
  <2> DEFINE new == [asked[c] EXCEPT !.pc = pc]
  <2>3. asked' = [asked EXCEPT ![c] = new]
    BY <1>1, <2>2 DEF R!To, AiTypes
  <2>4. new \in AiCallType /\ new.pc = pc /\ new.told = asked[c].told /\ new.read = asked[c].read
    BY <2>1 DEF AiCallType, Places
  <2> QED
    BY <2>2, <2>3, <2>4 DEF Moved
<1>4. asked'[c] = q /\ asked' \in [Asked -> AiCallType] /\ \A d \in Asked : d # c => asked'[d] = asked[d]
  BY <1>1, <1>3, MovedIs
<1>5. asked[c].pc = "answered" /\ usage' = usage /\ stored' = stored /\ parses' = parses
  BY DEF R!Persist
<1>6. AiTypes'
  BY <1>1, <1>2, <1>3, <1>4 DEF R!Persist, R!env, AiTypes
<1>7. HealthInv'
  BY <1>1, HealthStays DEF R!Persist, R!env
<1>8. RowInv(c)'
  <2>1. Mine(c) = {} /\ (rows' = rows => Mine(c)' = {})
    BY <1>1, <1>5 DEF RowInv, Mine
  <2>2. rows' = rows \cup {row} => Mine(c)' = {row}
    BY <2>1 DEF Mine
  <2>3. R!Kind(c)' = R!Kind(c)
    BY DEF R!Kind
  <2>4. CASE rows' = rows /\ q.pc = "failed"
    BY <1>4, <2>1, <2>4 DEF RowInv
  <2>5. CASE rows' = rows \cup {row} /\ q.pc = IF R!Kind(c) = "classify" THEN "recorded" ELSE "done"
    BY <1>2, <1>4, <2>2, <2>3, <2>5 DEF RowInv
  <2> QED
    BY <1>3, <2>4, <2>5
<1>9. \A d \in Asked : RowInv(d)'
  <2>1. row.call = c
    OBVIOUS
  <2> QED
    BY <1>2, <1>3, <1>4, <1>8, <2>1, OthersRows
<1>10. ByInv' /\ R!OnlyLateRankingsReplace'
  BY <1>3, <1>5, SavedStays
<1>11. UsageInv' /\ R!UsageAgrees'
  BY <1>3, <1>5, UsageStays
<1>12. Told(c)'
  BY <1>1, <1>3, <1>4, <1>5 DEF Told
<1>13. (R!RefusalsAreRecent /\ R!ToldOfTheSame)'
  BY <1>3, <1>12, OthersTold
<1> QED
  BY <1>1, <1>6, <1>7, <1>9, <1>10, <1>11, <1>13 DEF AiIInv, R!Sensible

LEMMA SaveStep == ASSUME AiIInv, NEW c \in Asked, R!SaveRanked(c) PROVE AiIInv'
<1>1. R!Sensible /\ AiTypes /\ HealthInv /\ RowInv(c) /\ Told(c)
  BY ToldIs DEF AiIInv
<1> DEFINE saved == [parse |-> asked[c].read.parse, level |-> asked[c].level, by |-> {c}]
<1>2. PICK q \in AiCallType :
        /\ Moved(c, q) /\ q.told = asked[c].told /\ q.read = asked[c].read
        /\ \/ stored' = [stored EXCEPT ![R!Item(c)] = saved] /\ q.pc = "done"
           \/ stored' = stored /\ q.pc = "failed"
  <2>1. asked[c] \in AiCallType
    BY <1>1 DEF AiTypes
  <2>2. PICK pc \in {"done", "failed"} :
          /\ asked' = R!To(c, pc)
          /\ \/ stored' = [stored EXCEPT ![R!Item(c)] = saved] /\ pc = "done"
             \/ stored' = stored /\ pc = "failed"
    BY DEF R!SaveRanked, R!Raises
  <2> DEFINE new == [asked[c] EXCEPT !.pc = pc]
  <2>3. asked' = [asked EXCEPT ![c] = new]
    BY <1>1, <2>2 DEF R!To, AiTypes
  <2>4. new \in AiCallType /\ new.pc = pc /\ new.told = asked[c].told /\ new.read = asked[c].read
    BY <2>1 DEF AiCallType, Places
  <2> QED
    BY <2>2, <2>3, <2>4 DEF Moved
<1>3. asked'[c] = q /\ asked' \in [Asked -> AiCallType] /\ \A d \in Asked : d # c => asked'[d] = asked[d]
  BY <1>1, <1>2, MovedIs
<1>4. asked[c].pc = "recorded" /\ usage' = usage /\ rows' = rows /\ parses' = parses
  BY DEF R!SaveRanked
<1>5. saved \in SavedType
  BY <1>1 DEF AiTypes, AiCallType, ReadType, SavedType
<1>6. AiTypes'
  <2>1. stored' \in [Evidence -> SavedType]
    BY <1>1, <1>2, <1>5 DEF AiTypes
  <2> QED
    BY <1>1, <1>3, <2>1 DEF R!SaveRanked, R!env, AiTypes
<1>7. HealthInv'
  BY <1>1, HealthStays DEF R!SaveRanked, R!env
<1>8. RowInv(c)'
  <2>1. Mine(c)' = Mine(c) /\ R!Kind(c)' = R!Kind(c)
    BY <1>4 DEF Mine, R!Kind
  <2> QED
    BY <1>1, <1>2, <1>3, <1>4, <2>1 DEF RowInv
<1>9. \A d \in Asked : RowInv(d)'
  BY <1>3, <1>4, <1>8, OthersRows
<1>10. ByInv' /\ R!OnlyLateRankingsReplace'
  <2>1. CASE stored' = stored
    BY <1>2, <1>4, <2>1, SavedStays
  <2>2. CASE stored' = [stored EXCEPT ![R!Item(c)] = saved] /\ q.pc = "done"
    <3>1. ByInv /\ R!OnlyLateRankingsReplace /\ R!Item(c) \in Evidence
      BY <1>1 DEF AiIInv, R!Sensible, R!Item
    <3>2. stored'[R!Item(c)] = saved /\ \A e \in Evidence : e # R!Item(c) => stored'[e] = stored[e]
      BY <1>1, <2>2, <3>1 DEF AiTypes
    <3>3. \A e \in Evidence : \A d \in stored[e].by : d \in Asked /\ asked[d].pc = "done" /\ asked'[d] = asked[d]
      BY <1>1, <1>3, <1>4, <3>1 DEF ByInv, AiTypes, SavedType
    <3>4. ByInv'
      BY <1>3, <2>2, <3>1, <3>2, <3>3 DEF ByInv
    <3>5. asked'[c].read.parse = saved.parse /\ c \in saved.by
      BY <1>2, <1>3
    <3>6. R!OnlyLateRankingsReplace'
      BY <1>4, <3>1, <3>2, <3>3, <3>5 DEF R!OnlyLateRankingsReplace
    <3> QED
      BY <3>4, <3>6
  <2> QED
    BY <1>2, <2>1, <2>2
<1>11. UsageInv' /\ R!UsageAgrees'
  BY <1>2, <1>4, UsageStays
<1>12. Told(c)'
  BY <1>1, <1>2, <1>3, <1>4 DEF Told
<1>13. (R!RefusalsAreRecent /\ R!ToldOfTheSame)'
  BY <1>2, <1>12, OthersTold
<1> QED
  BY <1>1, <1>6, <1>7, <1>9, <1>10, <1>11, <1>13 DEF AiIInv, R!Sensible

-----------------------------------------------------------------------------
(* The others                                                              *)

\* What only requests change.
LEMMA RequestsStay ==
  ASSUME AiIInv, asked' = asked, rows' = rows, usage' = usage
  PROVE  (\A c \in Asked : RowInv(c)') /\ UsageInv' /\ R!UsageAgrees' /\ (R!RefusalsAreRecent /\ R!ToldOfTheSame)'
<1>1. \A c \in Asked : RowInv(c)'
  BY DEF AiIInv, RowInv, Mine, R!Kind
<1>2. \A c \in Asked : Silent(c)' <=> Silent(c)
  BY DEF Silent, R!Kind
<1>3. UsageInv' /\ R!UsageAgrees'
  <2>1. UsageInv /\ R!UsageAgrees /\ usage.requests \subseteq Asked
    BY DEF AiIInv, AiTypes, UsageType
  <2> QED
    BY <1>2, <2>1 DEF UsageInv, R!UsageAgrees
<1>4. (R!RefusalsAreRecent /\ R!ToldOfTheSame)'
  BY DEF AiIInv, R!RefusalsAreRecent, R!ToldOfTheSame
<1> QED
  BY <1>1, <1>3, <1>4

LEMMA ParseStep == ASSUME AiIInv, NEW e \in Evidence, R!Parse(e) PROVE AiIInv'
<1>1. R!Sensible /\ AiTypes /\ HealthInv /\ ByInv /\ R!OnlyLateRankingsReplace
  BY DEF AiIInv
<1>2. asked' = asked /\ rows' = rows /\ usage' = usage
  BY DEF R!Parse
<1>3. parses[e] \in Nat /\ parses' = [parses EXCEPT ![e] = parses[e] + 1]
  BY <1>1 DEF R!Parse, AiTypes
<1>4. parses' \in [Evidence -> Nat] /\ parses'[e] \in Nat /\ \A f \in Evidence : f # e => parses'[f] = parses[f]
  BY <1>1, <1>3 DEF AiTypes
<1> DEFINE new == [parse |-> parses'[e], level |-> Unranked, by |-> {}]
<1>5. new \in SavedType
  BY <1>1, <1>4 DEF SavedType, R!Sensible
<1>6. stored' \in [Evidence -> SavedType] /\ stored'[e] = new /\ \A f \in Evidence : f # e => stored'[f] = stored[f]
  BY <1>1, <1>5 DEF R!Parse, AiTypes
<1>7. AiTypes'
  BY <1>1, <1>4, <1>6 DEF R!Parse, R!env, AiTypes
<1>8. HealthInv'
  BY <1>1, HealthStays DEF R!Parse, R!env
<1>9. ByInv'
  BY <1>1, <1>2, <1>6 DEF ByInv
<1>10. R!OnlyLateRankingsReplace'
  <2>1. stored'[e].parse = parses'[e] /\ ~(parses'[e] < parses'[e])
    BY <1>4, <1>6
  <2> QED
    BY <1>1, <1>2, <1>4, <1>6, <2>1 DEF R!OnlyLateRankingsReplace
<1> QED
  BY <1>1, <1>2, <1>7, <1>8, <1>9, <1>10, RequestsStay DEF AiIInv, R!Sensible

LEMMA OlderIs ==
  ASSUME FreshFor \in Nat, NEW m \in 0..FreshFor, NEW n \in 0..FreshFor, m <= n
  PROVE  R!Older(m) \in 0..FreshFor /\ R!Older(n) \in 0..FreshFor /\ R!Older(m) <= R!Older(n)
BY DEF R!Older

LEMMA SavedKept ==
  ASSUME AiIInv, asked' = asked, stored' = stored, parses' = parses
  PROVE  ByInv' /\ R!OnlyLateRankingsReplace'
BY DEF AiIInv, ByInv, R!OnlyLateRankingsReplace

LEMMA TickStep == ASSUME AiIInv, R!Tick PROVE AiIInv'
<1>1. R!Sensible /\ AiTypes /\ HealthInv
  BY DEF AiIInv
<1>2. asked' = asked /\ rows' = rows /\ usage' = usage /\ stored' = stored /\ parses' = parses /\ up' = up
  BY DEF R!Tick
<1>3. FreshFor \in Nat /\ sinceDown \in 0..FreshFor /\ health.age \in 0..FreshFor /\ up \in BOOLEAN
  BY <1>1 DEF R!Sensible, AiTypes
<1>4. R!Older(sinceDown) \in 0..FreshFor /\ R!Older(health.age) \in 0..FreshFor
  BY <1>3, OlderIs
<1>5. health' = [health EXCEPT !.age = IF health.known THEN R!Older(health.age) ELSE health.age]
  BY <1>1 DEF R!Tick, AiTypes
<1>6. /\ health' \in [known : BOOLEAN, ok : BOOLEAN, age : 0..FreshFor] /\ health'.known = health.known
      /\ health'.ok = health.ok /\ health'.age = IF health.known THEN R!Older(health.age) ELSE health.age
  BY <1>1, <1>3, <1>4, <1>5 DEF AiTypes
<1>7. sinceDown' = IF up THEN R!Older(sinceDown) ELSE 0
  BY DEF R!Tick
<1>8. AiTypes'
  <2>1. sinceDown' \in 0..FreshFor
    BY <1>3, <1>4, <1>7
  <2> QED
    BY <1>1, <1>2, <1>6, <2>1 DEF R!Tick, AiTypes
<1>9. HealthInv'
  <2>1. ~up' => sinceDown' = 0
    BY <1>2, <1>7
  <2>2. ASSUME health'.known, ~health'.ok PROVE sinceDown' <= health'.age
    <3>1. sinceDown <= health.age
      BY <1>1, <1>6, <2>2 DEF HealthInv
    <3>2. R!Older(sinceDown) <= R!Older(health.age)
      BY <1>3, <3>1, OlderIs
    <3> QED
      BY <1>3, <1>4, <1>6, <1>7, <2>2, <3>2
  <2> QED
    BY <2>1, <2>2 DEF HealthInv
<1> QED
  BY <1>1, <1>2, <1>8, <1>9, RequestsStay, SavedKept DEF AiIInv, R!Sensible

LEMMA FlipStep == ASSUME AiIInv, R!Flip PROVE AiIInv'
<1>1. R!Sensible /\ AiTypes /\ HealthInv
  BY DEF AiIInv
<1>2. asked' = asked /\ rows' = rows /\ usage' = usage /\ stored' = stored /\ parses' = parses
  BY DEF R!Flip
<1>3. sinceDown' = 0 /\ up' \in BOOLEAN /\ health' = health /\ 0 \in 0..FreshFor
  BY <1>1 DEF R!Flip, R!Sensible
<1>4. AiTypes'
  BY <1>1, <1>2, <1>3 DEF R!Flip, AiTypes
<1>5. HealthInv'
  BY <1>1, <1>3 DEF HealthInv, AiTypes
<1> QED
  BY <1>1, <1>2, <1>4, <1>5, RequestsStay, SavedKept DEF AiIInv, R!Sensible

LEMMA AiInitHolds == ASSUME R!Sensible, R!Init PROVE AiIInv
<1>1. [parse |-> 0, level |-> Unranked] \in ReadType /\ R!Waiting \in AiCallType
  BY DEF R!Sensible, ReadType, R!Waiting, AiCallType, Places
<1>2. [parse |-> 0, level |-> Unranked, by |-> {}] \in SavedType
  BY DEF R!Sensible, SavedType
<1>3. usage \in UsageType
  BY DEF R!Init, UsageType
<1>4. sinceDown \in 0..FreshFor /\ 0 \in 0..FreshFor
  BY DEF R!Init, R!Sensible
<1>5. AiTypes
  BY <1>1, <1>2, <1>3, <1>4 DEF R!Init, AiTypes
<1>6. \A c \in Asked : asked[c].pc = "idle"
  BY DEF R!Init, R!Waiting
<1>7. HealthInv
  BY DEF R!Init, HealthInv
<1>8. (\A c \in Asked : RowInv(c)) /\ ByInv /\ UsageInv
  BY <1>6 DEF RowInv, Mine, R!Init, ByInv, UsageInv
<1>9. R!RefusalsAreRecent /\ R!ToldOfTheSame
  BY <1>6 DEF R!RefusalsAreRecent, R!ToldOfTheSame
<1>10. R!UsageAgrees
  <2>1. {} \ {} = {} /\ Cardinality({}) = 0
    BY FS_EmptySet
  <2> QED
    BY <2>1, AiSizes DEF R!Init, R!UsageAgrees
<1>11. R!OnlyLateRankingsReplace
  BY DEF R!Init, R!OnlyLateRankingsReplace
<1> QED
  BY <1>5, <1>7, <1>8, <1>9, <1>10, <1>11 DEF AiIInv

LEMMA AiNextHolds == ASSUME AiIInv, [R!Next]_R!vars PROVE AiIInv'
<1>1. CASE R!Next
  BY <1>1, TickStep, FlipStep, ParseStep, LoadStep, ByRulesStep, AskStep, AnswerStep, PersistStep, SaveStep DEF R!Next
<1>2. CASE UNCHANGED R!vars
  <2>1. R!Sensible /\ AiTypes /\ HealthInv
    BY DEF AiIInv
  <2>2. asked' = asked /\ rows' = rows /\ usage' = usage /\ stored' = stored /\ parses' = parses
    BY <1>2 DEF R!vars
  <2>3. AiTypes' /\ HealthInv'
    BY <1>2, <2>1 DEF R!vars, AiTypes, HealthInv
  <2> QED
    BY <2>1, <2>2, <2>3, RequestsStay, SavedKept DEF AiIInv, R!Sensible
<1> QED
  BY <1>1, <1>2

-----------------------------------------------------------------------------
(* The theorems                                                            *)

LEMMA AiInductive == R!Sensible /\ R!Spec => []AiIInv
<1>1. R!Sensible /\ R!Init => AiIInv
  BY AiInitHolds
<1>2. AiIInv /\ [R!Next]_R!vars => AiIInv'
  BY AiNextHolds
<1> QED
  BY <1>1, <1>2, PTL DEF R!Spec

\* A request is turned away only for an outage of a moment ago, and told of what
\* it read; each answer has its one row and each stored ranking is on record; the
\* monitor's open requests are those under way; and a newer parse gives way only
\* to a ranking of an older one (api/routes/ai.py, LocalLLMClient, AIMonitor).
THEOREM RequestsSafe == R!Sensible /\ R!Spec => []R!AiRequestsSafe
<1>1. AiIInv => R!RowsMatchAnswers
  <2> SUFFICES ASSUME AiIInv PROVE R!RowsMatchAnswers
    OBVIOUS
  <2>1. AiTypes /\ ByInv /\ (\A c \in Asked : RowInv(c))
    BY DEF AiIInv
  <2>2. ASSUME NEW e \in Evidence, NEW c \in stored[e].by PROVE \E r \in rows : r.call = c
    <3>1. c \in Asked /\ asked[c].pc = "done"
      BY <2>1, <2>2 DEF ByInv, AiTypes, SavedType
    <3> QED
      BY <2>1, <3>1 DEF RowInv, Mine
  <2>3. ASSUME NEW c \in Asked, asked[c].pc = "done" PROVE Cardinality(Mine(c)) = 1
    BY <2>1, <2>3, FS_Singleton DEF RowInv
  <2>4. ASSUME NEW c \in Asked, asked[c].pc \in {"idle", "loaded", "asked", "answered", "refused", "unknown"}
        PROVE  Mine(c) = {}
    BY <2>1, <2>4 DEF RowInv
  <2>5. ASSUME NEW c \in Asked, asked[c].pc = "failed", Mine(c) # {} PROVE R!Kind(c) = "classify"
    BY <2>1, <2>5 DEF RowInv
  <2> QED
    BY <2>2, <2>3, <2>4, <2>5, AiSizes DEF R!RowsMatchAnswers, Mine
<1>2. AiIInv => R!AiRequestsSafe
  BY <1>1 DEF AiIInv, R!AiRequestsSafe
<1> QED
  BY <1>2, AiInductive, PTL

-----------------------------------------------------------------------------
(* The edge of the API: any requests of any clients and areas, any rates,  *)
(* capacities and times to live.                                           *)
(*                                                                         *)
(* A bucket that is there says itself how much it may still grant since    *)
(* any time; one that was removed had been full again by then. A cached    *)
(* entry is of the contents that hold, or something overlapped it.         *)
CONSTANTS Sent, About, Areas, Rate, Capacity, Cost, IdleTicks, MaxTime
VARIABLES now, buckets, store, contents, stage, answered, overlap, granted, audit
A == INSTANCE ApiEdge WITH Requests <- Sent, answer <- answered, version <- contents

Groups == DOMAIN Rate
BucketType == [tokens : Nat, updated : Nat, seen : Nat]
BucketInv ==
  /\ now \in Nat
  /\ \A k \in DOMAIN buckets :
       /\ k[2] \in Groups /\ buckets[k] \in BucketType /\ buckets[k].tokens <= Capacity[k[2]]
       /\ buckets[k].updated <= now /\ buckets[k].seen = buckets[k].updated

\* What a bucket would hold now; one that is not there would be full.
Holds(k) ==
  IF k \in DOMAIN buckets
  THEN A!Lower(Capacity[k[2]], buckets[k].tokens + (now - buckets[k].updated) * Rate[k[2]]) ELSE Capacity[k[2]]
Room(x, t) == Capacity[x[2]] + Rate[x[2]] * (t - x[3])
GrantInv ==
  \A x \in DOMAIN granted :
    /\ x[2] \in Groups /\ x[3] \in Nat /\ x[3] <= now /\ granted[x] \in Nat
    /\ Cost * granted[x] + Holds(<<x[1], x[2]>>) <= Room(x, now)

EdgeLimitInv == A!Sensible /\ BucketInv /\ GrantInv

\* Products of naturals.
LEMMA TimesIsNat == ASSUME NEW a \in Nat, NEW b \in Nat PROVE a * b \in Nat
OBVIOUS
LEMMA TimesOne == ASSUME NEW a \in Nat, NEW b \in Nat PROVE a * (b + 1) = a * b + a
OBVIOUS
LEMMA TimesMore == ASSUME NEW a \in Nat, NEW b \in Nat, NEW c \in Nat, b <= c PROVE b * a <= c * a /\ a * b <= a * c
<1>1. PICK d \in Nat : c = b + d
  <2>1. c - b \in Nat /\ c = b + (c - b)
    OBVIOUS
  <2> QED
    BY <2>1
<1>2. a * c = a * b + a * d
  BY <1>1
<1>3. a * d \in Nat
  BY TimesIsNat
<1> QED
  BY <1>1, <1>2, <1>3
LEMMA TimesSum == ASSUME NEW a \in Nat, NEW b \in Nat, NEW c \in Nat PROVE a * (b + c) = a * b + a * c /\ (b + c) * a = b * a + c * a
OBVIOUS
LEMMA CeilDiv == ASSUME NEW a \in Nat, NEW r \in Nat \ {0} PROVE r * ((a + r - 1) \div r) >= a /\ (a + r - 1) \div r \in Nat
OBVIOUS

LEMMA LowerIs == ASSUME NEW a \in Nat, NEW b \in Nat PROVE A!Lower(a, b) \in Nat /\ A!Lower(a, b) <= a /\ A!Lower(a, b) <= b /\ (b >= a => A!Lower(a, b) = a)
BY DEF A!Lower

LEMMA HoldsIs ==
  ASSUME A!Sensible, BucketInv, NEW k, k[2] \in Groups
  PROVE  Holds(k) \in Nat /\ Holds(k) <= Capacity[k[2]]
<1>1. Capacity[k[2]] \in Nat /\ Rate[k[2]] \in Nat
  BY DEF A!Sensible, Groups
<1>2. CASE k \in DOMAIN buckets
  <2>1. now - buckets[k].updated \in Nat /\ buckets[k].tokens \in Nat
    BY <1>2 DEF BucketInv, BucketType
  <2>2. (now - buckets[k].updated) * Rate[k[2]] \in Nat
    BY <1>1, <2>1, TimesIsNat
  <2>3. buckets[k].tokens + (now - buckets[k].updated) * Rate[k[2]] \in Nat
    BY <2>1, <2>2
  <2> QED
    BY <1>1, <1>2, <2>3, LowerIs DEF Holds
<1>3. CASE k \notin DOMAIN buckets
  BY <1>1, <1>3 DEF Holds
<1> QED
  BY <1>2, <1>3

\* An idle bucket would be full.
LEMMA IdleIsFull ==
  ASSUME A!Sensible, BucketInv, NEW k \in DOMAIN buckets, A!Idle(buckets[k])
  PROVE  Holds(k) = Capacity[k[2]]
<1> DEFINE passed == now - buckets[k].updated
           tokens == buckets[k].tokens
           cap    == Capacity[k[2]]
           rate   == Rate[k[2]]
<1>1. /\ tokens \in Nat /\ passed \in Nat /\ passed > IdleTicks /\ cap \in Nat /\ rate \in Nat
      /\ cap <= rate * (IdleTicks + 1) /\ IdleTicks + 1 \in Nat
  BY DEF BucketInv, BucketType, A!Idle, A!Sensible, Groups
<1>2. IdleTicks + 1 <= passed
  <2>1. IdleTicks \in Nat
    BY DEF A!Sensible
  <2> HIDE DEF passed
  <2> QED
    BY <1>1, <2>1
<1>3. Holds(k) = A!Lower(cap, tokens + passed * rate)
  BY DEF Holds
<1> HIDE DEF passed, tokens, cap, rate
<1>4. rate * (IdleTicks + 1) <= rate * passed /\ rate * passed = passed * rate /\ passed * rate \in Nat /\ rate * (IdleTicks + 1) \in Nat
  BY <1>1, <1>2, TimesMore, TimesIsNat
<1>5. tokens + passed * rate \in Nat /\ tokens + passed * rate >= cap
  BY <1>1, <1>4
<1>6. A!Lower(cap, tokens + passed * rate) = cap
  BY <1>1, <1>5, LowerIs
<1> QED
  BY <1>3, <1>6 DEF cap

LEMMA TickKeepsLimit == ASSUME EdgeLimitInv, A!Tick PROVE EdgeLimitInv'
<1>1. A!Sensible /\ BucketInv /\ GrantInv /\ now \in Nat /\ now' = now + 1 /\ buckets' = buckets /\ granted' = granted
  BY DEF EdgeLimitInv, BucketInv, A!Tick
<1>2. BucketInv'
  <2>1. \A k \in DOMAIN buckets : buckets[k].updated \in Nat /\ buckets[k].updated <= now + 1
    BY <1>1 DEF BucketInv, BucketType
  <2> QED
    BY <1>1, <2>1 DEF BucketInv
<1>3. ASSUME NEW k, k[2] \in Groups PROVE Holds(k)' <= Holds(k) + Rate[k[2]] /\ Holds(k)' \in Nat
  <2> DEFINE cap == Capacity[k[2]]
             rate == Rate[k[2]]
  <2>1. cap \in Nat /\ rate \in Nat
    BY <1>1, <1>3 DEF A!Sensible, Groups
  <2>2. CASE k \in DOMAIN buckets
    <3> DEFINE passed == now - buckets[k].updated
               tokens == buckets[k].tokens
    <3>1. passed \in Nat /\ tokens \in Nat /\ now' - buckets[k].updated = passed + 1
      BY <1>1, <2>2 DEF BucketInv, BucketType
    <3>2. Holds(k) = A!Lower(cap, tokens + passed * rate)
      BY <2>2 DEF Holds
    <3>3. Holds(k)' = A!Lower(cap, tokens + (passed + 1) * rate)
      BY <1>1, <2>2, <3>1 DEF Holds
    <3> HIDE DEF passed, tokens, cap, rate
    <3>4. (passed + 1) * rate = passed * rate + rate /\ passed * rate \in Nat
      BY <2>1, <3>1, TimesSum, TimesIsNat
    <3>5. ASSUME NEW y \in Nat PROVE A!Lower(cap, y + rate) <= A!Lower(cap, y) + rate /\ A!Lower(cap, y + rate) \in Nat
      BY <2>1 DEF A!Lower
    <3>6. tokens + passed * rate \in Nat /\ tokens + (passed + 1) * rate = (tokens + passed * rate) + rate
      BY <2>1, <3>1, <3>4
    <3>7. A!Lower(cap, tokens + (passed + 1) * rate) <= A!Lower(cap, tokens + passed * rate) + rate /\ A!Lower(cap, tokens + (passed + 1) * rate) \in Nat
      BY <3>5, <3>6
    <3> QED
      BY <3>2, <3>3, <3>7 DEF rate
  <2>3. CASE k \notin DOMAIN buckets
    BY <1>1, <2>1, <2>3 DEF Holds
  <2> QED
    BY <2>2, <2>3
<1>4. ASSUME NEW x \in DOMAIN granted PROVE x[3] <= now' /\ Cost * granted[x] + Holds(<<x[1], x[2]>>)' <= Room(x, now')
  <2> DEFINE k == <<x[1], x[2]>>
             rate == Rate[x[2]]
             n == now - x[3]
  <2>1. /\ k[2] \in Groups /\ x[2] \in Groups /\ x[3] \in Nat /\ n \in Nat /\ granted[x] \in Nat /\ x[3] <= now /\ rate \in Nat /\ Capacity[x[2]] \in Nat
        /\ Cost * granted[x] + Holds(k) <= Capacity[x[2]] + rate * n /\ Cost \in Nat
    BY <1>1 DEF GrantInv, Room, A!Sensible, Groups
  <2>2. Holds(k)' <= Holds(k) + rate /\ Holds(k)' \in Nat /\ Holds(k) \in Nat
    BY <1>1, <1>3, <2>1, HoldsIs
  <2>3. now' - x[3] = n + 1
    <3>1. now \in Nat /\ now' = now + 1 /\ x[3] \in Nat
      BY <1>1, <2>1
    <3>2. ASSUME NEW a \in Nat, NEW b \in Nat PROVE (a + 1) - b = (a - b) + 1
      OBVIOUS
    <3> QED
      BY <3>1, <3>2
  <2> HIDE DEF k, n, rate
  <2>4. rate * (n + 1) = rate * n + rate /\ rate * n \in Nat /\ Cost * granted[x] \in Nat
    BY <2>1, TimesOne, TimesIsNat
  <2>5. Cost * granted[x] + Holds(k)' <= Capacity[x[2]] + rate * (n + 1)
    BY <2>1, <2>2, <2>4
  <2> QED
    BY <1>1, <2>1, <2>3, <2>5 DEF Room, k, rate
<1>5. GrantInv'
  BY <1>1, <1>4 DEF GrantInv
<1> QED
  BY <1>1, <1>2, <1>5 DEF EdgeLimitInv

\* A request that the limiter looks at finds in its bucket what the bucket holds.
LEMMA BucketHolds ==
  ASSUME A!Sensible, BucketInv, NEW k, k[2] \in Groups
  PROVE  A!Bucket(k) \in BucketType /\ A!Bucket(k).tokens = Holds(k) /\ A!Bucket(k).updated = now
<1>1. now \in Nat /\ Capacity[k[2]] \in Nat /\ Rate[k[2]] \in Nat
  BY DEF BucketInv, A!Sensible, Groups
<1>2. CASE k \in A!Kept
  <2>1. k \in DOMAIN buckets /\ A!Bucket(k) = A!Refilled(buckets[k], k[2]) /\ buckets[k] \in BucketType
    BY <1>2 DEF A!Kept, A!Bucket, BucketInv
  <2>2. Holds(k) = A!Lower(Capacity[k[2]], buckets[k].tokens + (now - buckets[k].updated) * Rate[k[2]]) /\ Holds(k) \in Nat
    BY <2>1, HoldsIs DEF Holds
  <2> QED
    BY <1>1, <2>1, <2>2 DEF A!Refilled, BucketType
<1>3. CASE k \notin A!Kept
  <2>1. A!Bucket(k) = A!Refilled(A!Fresh(k[2]), k[2])
    BY <1>3 DEF A!Bucket
  <2>2. A!Fresh(k[2]) \in BucketType /\ A!Fresh(k[2]).tokens = Capacity[k[2]] /\ A!Fresh(k[2]).updated = now
    BY <1>1 DEF A!Fresh, BucketType
  <2>3. Capacity[k[2]] + (now - now) * Rate[k[2]] = Capacity[k[2]]
    BY <1>1
  <2>4. A!Bucket(k) \in BucketType /\ A!Bucket(k).tokens = Capacity[k[2]] /\ A!Bucket(k).updated = now
    BY <1>1, <2>1, <2>2, <2>3 DEF A!Refilled, BucketType, A!Lower
  <2>5. Holds(k) = Capacity[k[2]]
    <3>1. CASE k \in DOMAIN buckets
      BY <1>3, <3>1, IdleIsFull DEF A!Kept
    <3>2. CASE k \notin DOMAIN buckets
      BY <3>2 DEF Holds
    <3> QED
      BY <3>1, <3>2
  <2> QED
    BY <2>4, <2>5
<1> QED
  BY <1>2, <1>3

\* Where time stands and no bucket is touched nothing happens to the limiter.
LEMMA QuietKeepsLimit ==
  ASSUME EdgeLimitInv, now' = now, buckets' = buckets, granted' = granted
  PROVE  EdgeLimitInv'
BY DEF EdgeLimitInv, BucketInv, GrantInv, Holds, Room

LEMMA AdmitKeepsLimit == ASSUME EdgeLimitInv, NEW r \in Sent, A!Admit(r) PROVE EdgeLimitInv'
<1> DEFINE k == A!Key(r)
           b == [A!Bucket(k) EXCEPT !.seen = now]
           lets == b.tokens >= Cost
           left == IF lets THEN Holds(k) - Cost ELSE Holds(k)
           slots == {<<k[1], k[2], since>> : since \in 0..now}
<1>1. /\ A!Sensible /\ BucketInv /\ GrantInv /\ now \in Nat /\ Cost \in Nat /\ k[2] \in Groups
      /\ \A g \in Groups : Rate[g] \in Nat /\ Capacity[g] \in Nat
  <2>1. Areas[About[r].area].group \in Groups
    BY DEF EdgeLimitInv, A!Sensible, A!Admit, A!Exempt, Groups
  <2> QED
    BY <2>1 DEF EdgeLimitInv, A!Sensible, BucketInv, Groups, A!Key
<1>2. b \in BucketType /\ b.tokens = Holds(k) /\ b.updated = now /\ b.seen = now /\ Holds(k) \in Nat /\ Holds(k) <= Capacity[k[2]]
  <2>1. A!Bucket(k) \in BucketType /\ A!Bucket(k).tokens = Holds(k) /\ A!Bucket(k).updated = now /\ Holds(k) \in Nat /\ Holds(k) <= Capacity[k[2]]
    BY <1>1, BucketHolds, HoldsIs
  <2> HIDE DEF k
  <2> QED
    BY <1>1, <2>1 DEF BucketType
<1>3. now' = now /\ DOMAIN buckets' = A!Kept \cup {k} /\ \A x \in A!Kept \ {k} : buckets'[x] = buckets[x]
  BY DEF A!Admit
<1>4. buckets'[k] = (IF lets THEN [b EXCEPT !.tokens = b.tokens - Cost] ELSE b)
  BY DEF A!Admit
<1>5. IF lets THEN granted' = [x \in DOMAIN granted \cup slots |-> (IF x \in DOMAIN granted THEN granted[x] ELSE 0) + (IF x \in slots THEN 1 ELSE 0)]
      ELSE granted' = granted
  BY DEF A!Admit
<1>6. left \in Nat /\ left <= Capacity[k[2]] /\ left <= Holds(k) /\ (lets => left + Cost = Holds(k)) /\ buckets'[k] = [tokens |-> left, updated |-> now, seen |-> now]
  <2>1. lets => Holds(k) >= Cost
    BY <1>2
  <2>2. left \in Nat /\ left <= Capacity[k[2]] /\ left <= Holds(k) /\ (lets => left + Cost = Holds(k))
    <3>1. Capacity[k[2]] \in Nat
      BY <1>1
    <3> HIDE DEF b, k
    <3> QED
      BY <1>1, <1>2, <2>1, <3>1
  <2>3. b = [tokens |-> Holds(k), updated |-> now, seen |-> now]
    <3> HIDE DEF b, k
    <3> QED
      BY <1>2 DEF BucketType
  <2> HIDE DEF b, k
  <2> QED
    BY <1>4, <2>2, <2>3
<1> HIDE DEF k, b, lets, left, slots
<1>7. BucketInv'
  <2>1. ASSUME NEW x \in DOMAIN buckets'
        PROVE  x[2] \in Groups /\ buckets'[x] \in BucketType /\ buckets'[x].tokens <= Capacity[x[2]] /\ buckets'[x].updated <= now
               /\ buckets'[x].seen = buckets'[x].updated
    <3>1. CASE x = k
      BY <1>1, <1>6, <3>1 DEF BucketType
    <3>2. CASE x # k
      <4>1. x \in DOMAIN buckets /\ buckets'[x] = buckets[x]
        BY <1>3, <2>1, <3>2 DEF A!Kept
      <4> QED
        BY <1>1, <4>1 DEF BucketInv
    <3> QED
      BY <3>1, <3>2
  <2> QED
    BY <1>1, <1>3, <2>1 DEF BucketInv
\* Nobody else's bucket holds less or more.
<1>8. ASSUME NEW x, x[2] \in Groups, x # k PROVE Holds(x)' = Holds(x)
  <2>1. CASE x \in A!Kept
    BY <1>3, <1>8, <2>1 DEF Holds, A!Kept
  <2>2. CASE x \in DOMAIN buckets \ A!Kept
    BY <1>1, <1>3, <1>8, <2>2, IdleIsFull DEF Holds, A!Kept
  <2>3. CASE x \notin DOMAIN buckets
    BY <1>3, <1>8, <2>3 DEF Holds, A!Kept
  <2> QED
    BY <2>1, <2>2, <2>3
<1>9. ASSUME NEW x, x = k PROVE Holds(x)' = left /\ Holds(x) = Holds(k)
  <2>1. left + (now - now) * Rate[k[2]] = left
    BY <1>1, <1>6
  <2>2. k \in DOMAIN buckets' /\ buckets'[k].tokens = left /\ buckets'[k].updated = now
    BY <1>3, <1>6
  <2>3. Holds(x)' = left
    BY <1>1, <1>3, <1>6, <1>9, <2>1, <2>2 DEF Holds, A!Lower
  <2> QED
    BY <1>9, <2>3
<1>10. ASSUME NEW x \in DOMAIN granted'
       PROVE  x[2] \in Groups /\ x[3] \in Nat /\ x[3] <= now /\ granted'[x] \in Nat /\ Cost * granted'[x] + Holds(<<x[1], x[2]>>)' <= Room(x, now)
  <2>1. CASE x \in slots /\ lets
    <3>1. PICK since \in 0..now : x = <<k[1], k[2], since>>
      BY <2>1 DEF slots
    <3>2. x[1] = k[1] /\ x[2] = k[2] /\ x[3] = since /\ <<x[1], x[2]>> = k /\ Holds(<<x[1], x[2]>>)' = left /\ Holds(<<x[1], x[2]>>) = Holds(k)
      BY <1>9, <3>1 DEF k, A!Key
    <3>3. x[2] \in Groups /\ x[3] \in Nat /\ x[3] <= now /\ now - x[3] \in Nat
      BY <1>1, <3>2
    <3> DEFINE before == IF x \in DOMAIN granted THEN granted[x] ELSE 0
    <3>4. granted'[x] = before + 1
      BY <1>5, <1>10, <2>1
    <3>5. before \in Nat /\ Cost * before + Holds(k) <= Room(x, now)
      <4>1. CASE x \in DOMAIN granted
        BY <1>1, <3>2, <4>1 DEF GrantInv
      <4>2. CASE x \notin DOMAIN granted
        <5>1. Rate[x[2]] * (now - x[3]) \in Nat
          BY <1>1, <3>3, TimesIsNat
        <5>2. Cost * 0 = 0
          BY <1>1
        <5> QED
          BY <1>1, <1>2, <3>2, <4>2, <5>1, <5>2 DEF Room
      <4> QED
        BY <4>1, <4>2
    <3> HIDE DEF before
    <3>6. Cost * (before + 1) = Cost * before + Cost /\ Cost * before \in Nat
      BY <1>1, <3>5, TimesOne, TimesIsNat
    <3>7. Cost * before + Cost + left = Cost * before + Holds(k)
      BY <1>1, <1>2, <1>6, <2>1, <3>6
    <3> QED
      BY <1>9, <3>2, <3>3, <3>4, <3>5, <3>6, <3>7
  <2>2. CASE ~(x \in slots /\ lets)
    <3>1. x \in DOMAIN granted /\ granted'[x] = granted[x]
      <4>1. CASE lets
        <5>1. x \in DOMAIN granted /\ x \notin slots
          BY <1>5, <1>10, <2>2, <4>1
        <5>2. granted[x] \in Nat
          BY <1>1, <5>1 DEF GrantInv
        <5> QED
          BY <1>5, <4>1, <5>1, <5>2
      <4>2. CASE ~lets
        BY <1>5, <1>10, <4>2
      <4> QED
        BY <4>1, <4>2
    <3>2. /\ x[2] \in Groups /\ x[3] \in Nat /\ x[3] <= now /\ granted[x] \in Nat
          /\ Cost * granted[x] + Holds(<<x[1], x[2]>>) <= Room(x, now)
      BY <1>1, <3>1 DEF GrantInv
    <3>3. Holds(<<x[1], x[2]>>)' <= Holds(<<x[1], x[2]>>) /\ Holds(<<x[1], x[2]>>) \in Nat /\ Holds(<<x[1], x[2]>>)' \in Nat
      <4>1. CASE <<x[1], x[2]>> = k
        BY <1>1, <1>2, <1>6, <1>9, <4>1
      <4>2. CASE <<x[1], x[2]>> # k
        <5>1. <<x[1], x[2]>>[2] \in Groups
          BY <3>2
        <5>2. Holds(<<x[1], x[2]>>)' = Holds(<<x[1], x[2]>>) /\ Holds(<<x[1], x[2]>>) \in Nat
          BY <1>1, <1>8, <4>2, <5>1, HoldsIs
        <5> QED
          BY <5>2
      <4> QED
        BY <4>1, <4>2
    <3>4. Cost * granted[x] \in Nat /\ Room(x, now) \in Nat
      <4>1. now - x[3] \in Nat
        BY <1>1, <3>2
      <4>2. Rate[x[2]] * (now - x[3]) \in Nat /\ Cost * granted[x] \in Nat
        BY <1>1, <3>2, <4>1, TimesIsNat
      <4> QED
        BY <1>1, <3>2, <4>2 DEF Room
    <3> QED
      BY <3>1, <3>2, <3>3, <3>4
  <2> QED
    BY <2>1, <2>2
<1>11. GrantInv'
  BY <1>3, <1>10 DEF GrantInv, Room
<1> QED
  BY <1>1, <1>7, <1>11 DEF EdgeLimitInv

LEMMA LimitInductive == A!Sensible /\ A!Spec => []EdgeLimitInv
<1>1. A!Sensible /\ A!Init => EdgeLimitInv
  BY DEF A!Init, EdgeLimitInv, BucketInv, GrantInv
<1>2. EdgeLimitInv /\ [A!Next]_A!vars => EdgeLimitInv'
  <2> SUFFICES ASSUME EdgeLimitInv, [A!Next]_A!vars PROVE EdgeLimitInv'
    OBVIOUS
  <2>1. ASSUME NEW r \in Sent, A!Pass(r) \/ A!Lookup(r) \/ A!Handle(r) \/ A!Trail(r) \/ A!Fill(r) PROVE EdgeLimitInv'
    BY <2>1, QuietKeepsLimit DEF A!Pass, A!Lookup, A!Handle, A!Trail, A!Fill
  <2>2. CASE UNCHANGED A!vars
    BY <2>2, QuietKeepsLimit DEF A!vars
  <2> QED
    BY <2>1, <2>2, TickKeepsLimit, AdmitKeepsLimit DEF A!Next
<1> QED
  BY <1>1, <1>2, PTL DEF A!Spec

\* After the wait that it is told a client finds its tokens, unless others took them.
LEMMA WaitIsEnough ==
  ASSUME A!Sensible, BucketInv, NEW k \in DOMAIN buckets, buckets[k].tokens < Cost
  PROVE  A!Lower(Capacity[k[2]], buckets[k].tokens + A!RetryAfter(buckets[k], k[2]) * Rate[k[2]]) >= Cost
<1> DEFINE tokens == buckets[k].tokens
           rate == Rate[k[2]]
           cap == Capacity[k[2]]
           missing == Cost - tokens
           ticks == (missing + rate - 1) \div rate
<1>1. tokens \in Nat /\ Cost \in Nat /\ rate \in Nat \ {0} /\ cap \in Nat /\ Cost <= cap /\ tokens < Cost
  BY DEF BucketInv, BucketType, A!Sensible, Groups
<1>2. missing \in Nat /\ missing > 0 /\ tokens + missing = Cost
  <2> HIDE DEF tokens
  <2> QED
    BY <1>1
<1>3. A!RetryAfter(buckets[k], k[2]) = IF ticks < 1 THEN 1 ELSE ticks
  BY DEF A!RetryAfter
<1> HIDE DEF tokens, rate, cap, missing
<1>4. rate * ticks >= missing /\ ticks \in Nat
  BY <1>1, <1>2, CeilDiv
<1> DEFINE waits == IF ticks < 1 THEN 1 ELSE ticks
<1>5. waits \in Nat /\ ticks <= waits
  <2> HIDE DEF ticks
  <2> QED
    BY <1>4
<1> HIDE DEF ticks, waits
<1>6. rate * ticks <= rate * waits /\ rate * waits = waits * rate /\ waits * rate \in Nat /\ rate * ticks \in Nat
  BY <1>1, <1>4, <1>5, TimesMore, TimesIsNat
<1>7. tokens + waits * rate >= Cost /\ tokens + waits * rate \in Nat
  BY <1>1, <1>2, <1>4, <1>6
<1>8. A!Lower(cap, tokens + waits * rate) >= Cost
  BY <1>1, <1>7 DEF A!Lower
<1> QED
  BY <1>3, <1>8 DEF tokens, rate, cap, waits

-----------------------------------------------------------------------------
(* The cache                                                               *)

AreaOf(r) == About[r].area
Routed == {"route", "handler"}
PlaceInv ==
  /\ now \in Nat /\ DOMAIN contents = DOMAIN Areas /\ \A a \in DOMAIN Areas : contents[a] \in Nat
  /\ stage \in [Sent -> {"new", "admitted", "route", "handled", "fill", "answered"}]
  /\ DOMAIN answered = Sent /\ audit \subseteq Sent

\* Who was answered by whom, and what the trail knows of it.
FromInv(r) ==
  /\ stage[r] \in {"new", "admitted", "route"} => r \notin audit /\ answered[r].from = "none"
  /\ stage[r] = "handled" => r \notin audit /\ answered[r].from \in Routed
  /\ stage[r] = "fill" => r \in audit /\ answered[r].from \in Routed /\ A!Cacheable(r)
  /\ stage[r] = "answered" => answered[r].from \in Routed \cup {"cache", "limiter", "outside"} /\ (r \in audit <=> answered[r].from \in Routed)
  /\ answered[r].from = "cache" => answered[r].status = 200

\* A GET that is under way beside a change of its area is known to be.
BesideInv ==
  \A r \in A!InFlight, m \in Sent :
    ~A!Mutating(r) /\ A!Mutating(m) /\ stage[m] = "route" /\ AreaOf(m) = AreaOf(r) => r \in overlap
AnswerInv(r) ==
  stage[r] \in {"handled", "fill"} /\ A!Cacheable(r) /\ answered[r].status = 200 =>
    answered[r].version \in Nat /\ (answered[r].version < contents[AreaOf(r)] => r \in overlap)
StoreInv ==
  /\ \A k \in DOMAIN store :
       /\ k[1] \in DOMAIN Areas /\ store[k].version \in Nat /\ store[k].expires \in Nat
       /\ store[k].expires <= now + Areas[k[1]].ttl
       /\ store[k].version < contents[k[1]] => store[k].overlap
  /\ \A m \in Sent, k \in DOMAIN store : A!Mutating(m) /\ stage[m] = "route" /\ AreaOf(m) = k[1] => store[k].overlap
CacheInv == A!Sensible /\ PlaceInv /\ (\A r \in Sent : FromInv(r) /\ AnswerInv(r)) /\ BesideInv /\ StoreInv

\* No handler answers an exception with 200.
LEMMA NeverFine == ASSUME NEW e PROVE A!StatusOf(e) # 200
<1>1. \A c : A!Registered(c) # 200
  BY DEF A!Registered
<1> QED
  BY <1>1 DEF A!StatusOf

LEMMA TickKeepsCache == ASSUME CacheInv, A!Tick PROVE CacheInv'
<1>1. /\ now \in Nat /\ now' = now + 1 /\ store' = store /\ contents' = contents /\ stage' = stage /\ answered' = answered
      /\ overlap' = overlap /\ audit' = audit
  BY DEF CacheInv, PlaceInv, A!Tick
<1>2. PlaceInv' /\ BesideInv' /\ \A r \in Sent : FromInv(r)' /\ AnswerInv(r)'
  BY <1>1 DEF CacheInv, PlaceInv, BesideInv, A!InFlight, FromInv, AnswerInv
<1>3. StoreInv'
  <2>1. \A k \in DOMAIN store : store[k].expires <= now' + Areas[k[1]].ttl
    BY <1>1 DEF CacheInv, StoreInv, A!Sensible
  <2> QED
    BY <1>1, <2>1 DEF CacheInv, StoreInv
<1> QED
  BY <1>2, <1>3 DEF CacheInv

\* Where only the answer and the place of one request changes.
LEMMA OneMoves ==
  ASSUME CacheInv, NEW r \in Sent, now' = now, store' = store, contents' = contents, overlap' = overlap,
         stage' \in [Sent -> {"new", "admitted", "route", "handled", "fill", "answered"}],
         \A q \in Sent \ {r} : stage'[q] = stage[q] /\ answered'[q] = answered[q] /\ (q \in audit' <=> q \in audit),
         DOMAIN answered' = Sent, audit' \subseteq Sent,
         stage'[r] # "route", stage'[r] \in {"handled", "fill"} => stage[r] \in {"route", "handled", "fill"},
         FromInv(r)', AnswerInv(r)'
  PROVE  CacheInv'
<1>1. PlaceInv'
  BY DEF CacheInv, PlaceInv
<1>2. ASSUME NEW q \in Sent, q # r PROVE FromInv(q)' /\ AnswerInv(q)'
  BY <1>2 DEF CacheInv, FromInv, AnswerInv
<1>3. BesideInv'
  BY DEF CacheInv, BesideInv, A!InFlight
<1>4. StoreInv'
  BY DEF CacheInv, StoreInv
<1> QED
  BY <1>1, <1>2, <1>3, <1>4 DEF CacheInv

LEMMA OutsideKeeps == ASSUME CacheInv, NEW r \in Sent, A!Pass(r) \/ A!Admit(r) PROVE CacheInv'
<1>1. /\ now' = now /\ store' = store /\ contents' = contents /\ overlap' = overlap /\ audit' = audit
      /\ stage[r] = "new" /\ PlaceInv /\ FromInv(r)
  BY DEF CacheInv, A!Pass, A!Admit, A!Enter
<1>2. /\ stage'[r] \in {"admitted", "answered"} /\ (\A q \in Sent \ {r} : stage'[q] = stage[q] /\ answered'[q] = answered[q])
      /\ stage' \in [Sent -> {"new", "admitted", "route", "handled", "fill", "answered"}] /\ DOMAIN answered' = Sent
      /\ (stage'[r] = "admitted" => answered'[r] = answered[r]) /\ (stage'[r] = "answered" => answered'[r].from = "limiter")
  BY <1>1 DEF A!Pass, A!Admit, A!Enter, A!Answered, PlaceInv
<1>3. FromInv(r)' /\ AnswerInv(r)'
  BY <1>1, <1>2 DEF FromInv, AnswerInv, Routed
<1> QED
  BY <1>1, <1>2, <1>3, OneMoves DEF PlaceInv

LEMMA TrailKeeps == ASSUME CacheInv, NEW r \in Sent, A!Trail(r) PROVE CacheInv'
<1>1. /\ now' = now /\ store' = store /\ contents' = contents /\ overlap' = overlap /\ audit' = audit \cup {r} /\ answered' = answered
      /\ stage[r] = "handled" /\ PlaceInv /\ FromInv(r) /\ AnswerInv(r)
  BY DEF CacheInv, A!Trail, A!Enter
<1>2. /\ stage'[r] = (IF A!Cacheable(r) THEN "fill" ELSE "answered") /\ (\A q \in Sent \ {r} : stage'[q] = stage[q])
      /\ stage' \in [Sent -> {"new", "admitted", "route", "handled", "fill", "answered"}]
  BY <1>1 DEF A!Trail, A!Enter, PlaceInv
<1>3. FromInv(r)' /\ AnswerInv(r)'
  BY <1>1, <1>2 DEF FromInv, AnswerInv, Routed
<1> QED
  BY <1>1, <1>2, <1>3, OneMoves DEF PlaceInv

LEMMA FillKeeps == ASSUME CacheInv, NEW r \in Sent, A!Fill(r) PROVE CacheInv'
<1> DEFINE k == <<AreaOf(r), About[r].role>>
<1>1. /\ A!Sensible /\ PlaceInv /\ StoreInv /\ BesideInv /\ FromInv(r) /\ AnswerInv(r) /\ stage[r] = "fill" /\ A!Cacheable(r)
      /\ now' = now /\ contents' = contents /\ overlap' = overlap /\ audit' = audit /\ answered' = answered
  BY DEF CacheInv, A!Fill, A!Enter, FromInv
<1>2. /\ stage'[r] = "answered" /\ (\A q \in Sent \ {r} : stage'[q] = stage[q])
      /\ stage' \in [Sent -> {"new", "admitted", "route", "handled", "fill", "answered"}]
  BY <1>1 DEF A!Fill, A!Enter, PlaceInv
<1>3. PlaceInv'
  BY <1>1, <1>2 DEF PlaceInv
<1>4. ASSUME NEW q \in Sent PROVE FromInv(q)' /\ AnswerInv(q)'
  <2>1. CASE q = r
    BY <1>1, <1>2, <2>1 DEF FromInv, AnswerInv, Routed
  <2>2. CASE q # r
    BY <1>1, <1>2, <2>2 DEF CacheInv, FromInv, AnswerInv
  <2> QED
    BY <2>1, <2>2
<1>5. BesideInv'
  BY <1>1, <1>2 DEF BesideInv, A!InFlight
<1>6. StoreInv'
  <2>1. CASE answered[r].status # 200
    BY <1>1, <1>2, <2>1 DEF A!Fill, StoreInv
  <2>2. CASE answered[r].status = 200
    <3>1. /\ DOMAIN store' = DOMAIN store \cup {k} /\ \A x \in DOMAIN store \ {k} : store'[x] = store[x]
          /\ store'[k] = [version |-> answered[r].version, expires |-> now + Areas[AreaOf(r)].ttl, overlap |-> r \in overlap]
      BY <2>2 DEF A!Fill, AreaOf
    <3>2. /\ k[1] \in DOMAIN Areas /\ k[1] = AreaOf(r) /\ store'[k].version \in Nat /\ store'[k].expires \in Nat
          /\ store'[k].expires <= now + Areas[k[1]].ttl
      BY <1>1, <2>2, <3>1 DEF A!Sensible, AreaOf, AnswerInv, PlaceInv
    <3>3. store'[k].version < contents[k[1]] => r \in overlap
      BY <1>1, <2>2, <3>1, <3>2 DEF AnswerInv
    <3>4. ASSUME r \in overlap PROVE store'[k].overlap
      <4>1. (r \in overlap) = TRUE
        BY <3>4
      <4>2. store'[k] = [version |-> answered[r].version, expires |-> now + Areas[AreaOf(r)].ttl, overlap |-> TRUE]
        BY <3>1, <4>1, Zenon
      <4> QED
        BY <4>2
    <3>5. \A m \in Sent : A!Mutating(m) /\ stage[m] = "route" /\ AreaOf(m) = AreaOf(r) => r \in overlap
      BY <1>1 DEF BesideInv, A!InFlight, A!Cacheable
    <3> HIDE DEF k
    <3>6. ASSUME NEW x \in DOMAIN store'
          PROVE  /\ x[1] \in DOMAIN Areas /\ store'[x].version \in Nat /\ store'[x].expires \in Nat
                 /\ store'[x].expires <= now + Areas[x[1]].ttl
                 /\ store'[x].version < contents[x[1]] => store'[x].overlap
                 /\ \A m \in Sent : A!Mutating(m) /\ stage[m] = "route" /\ AreaOf(m) = x[1] => store'[x].overlap
      <4>1. CASE x = k
        BY <3>2, <3>3, <3>4, <3>5, <4>1
      <4>2. CASE x # k
        <5>1. x \in DOMAIN store /\ store'[x] = store[x]
          BY <3>1, <3>6, <4>2
        <5> QED
          BY <1>1, <5>1 DEF StoreInv
      <4> QED
        BY <4>1, <4>2
    <3> QED
      BY <1>1, <1>2, <3>6 DEF StoreInv
  <2> QED
    BY <2>1, <2>2
<1> QED
  BY <1>1, <1>3, <1>4, <1>5, <1>6 DEF CacheInv

LEMMA HandleKeeps == ASSUME CacheInv, NEW r \in Sent, A!Handle(r) PROVE CacheInv'
<1>1. /\ A!Sensible /\ PlaceInv /\ StoreInv /\ BesideInv /\ FromInv(r) /\ stage[r] = "route" /\ AreaOf(r) \in DOMAIN Areas
      /\ now' = now /\ store' = store /\ overlap' = overlap /\ audit' = audit
  BY DEF CacheInv, A!Handle, A!Enter, A!Sensible, AreaOf
<1>2. /\ stage'[r] \in {"handled", "answered"} /\ (\A q \in Sent \ {r} : stage'[q] = stage[q] /\ answered'[q] = answered[q])
      /\ stage' \in [Sent -> {"new", "admitted", "route", "handled", "fill", "answered"}] /\ DOMAIN answered' = Sent
  BY <1>1 DEF A!Handle, A!Enter, A!Answered, PlaceInv
<1>3. /\ answered'[r].from \in {"route", "handler", "outside"} /\ (stage'[r] = "answered" <=> answered'[r].from = "outside")
      /\ (answered'[r].status = 200 => answered'[r].version = contents'[AreaOf(r)])
  <2>1. CASE About[r].raises = "none"
    BY <1>1, <2>1 DEF A!Handle, A!Enter, A!Answered, PlaceInv, AreaOf
  <2>2. CASE About[r].raises # "none"
    <3>1. answered'[r].status = A!StatusOf(About[r].raises)
      BY <1>1, <2>2 DEF A!Handle, A!Answered, PlaceInv
    <3>2. answered'[r].from = (IF A!Escapes(About[r].raises) THEN "outside" ELSE "handler") /\ stage'[r] = IF A!Escapes(About[r].raises) THEN "answered" ELSE "handled"
      BY <1>1, <2>2 DEF A!Handle, A!Enter, A!Answered, PlaceInv
    <3> QED
      BY <3>1, <3>2, NeverFine
  <2> QED
    BY <2>1, <2>2
\* Only a change counts up, and only its own area.
<1>4. /\ DOMAIN contents' = DOMAIN Areas /\ \A a \in DOMAIN Areas : contents'[a] \in Nat /\ contents[a] <= contents'[a]
      /\ \A a \in DOMAIN Areas : contents'[a] # contents[a] => A!Mutating(r) /\ a = AreaOf(r)
  BY <1>1 DEF A!Handle, PlaceInv, AreaOf
<1>5. PlaceInv'
  BY <1>1, <1>2, <1>4 DEF PlaceInv
<1>6. ASSUME NEW q \in Sent PROVE FromInv(q)' /\ AnswerInv(q)'
  <2>1. CASE q = r
    <3>1. FromInv(r)'
      BY <1>1, <1>2, <1>3 DEF FromInv, Routed
    <3>2. AnswerInv(r)'
      <4>1. answered'[r].status = 200 => answered'[r].version \in Nat /\ ~(answered'[r].version < contents'[AreaOf(r)])
        BY <1>1, <1>3, <1>4
      <4> QED
        BY <4>1 DEF AnswerInv
    <3> QED
      BY <2>1, <3>1, <3>2
  <2>2. CASE q # r
    <3>1. FromInv(q) /\ AnswerInv(q) /\ stage'[q] = stage[q] /\ answered'[q] = answered[q] /\ AreaOf(q) \in DOMAIN Areas
      BY <1>2, <2>2 DEF CacheInv, A!Sensible, AreaOf
    <3>2. FromInv(q)'
      BY <1>1, <3>1 DEF FromInv
    <3>3. ASSUME stage[q] \in {"handled", "fill"}, A!Cacheable(q), contents'[AreaOf(q)] # contents[AreaOf(q)] PROVE q \in overlap
      BY <1>1, <1>4, <3>1, <3>3 DEF BesideInv, A!InFlight, A!Cacheable
    <3>4. AnswerInv(q)'
      BY <1>1, <3>1, <3>3 DEF AnswerInv
    <3> QED
      BY <3>2, <3>4
  <2> QED
    BY <2>1, <2>2
<1>7. BesideInv'
  BY <1>1, <1>2 DEF BesideInv, A!InFlight
<1>8. StoreInv'
  <2>1. ASSUME NEW k \in DOMAIN store, contents'[k[1]] # contents[k[1]] PROVE store[k].overlap
    BY <1>1, <1>4, <2>1 DEF StoreInv
  <2> QED
    BY <1>1, <1>2, <2>1 DEF StoreInv
<1> QED
  BY <1>1, <1>5, <1>6, <1>7, <1>8 DEF CacheInv

LEMMA LookupKeeps == ASSUME CacheInv, NEW r \in Sent, A!Lookup(r) PROVE CacheInv'
<1> DEFINE k == <<AreaOf(r), About[r].role>>
           valid == k \in DOMAIN store /\ store[k].expires > now
           told == A!Cacheable(r) /\ valid
<1>1. /\ A!Sensible /\ PlaceInv /\ StoreInv /\ BesideInv /\ FromInv(r) /\ stage[r] = "admitted"
      /\ now' = now /\ contents' = contents /\ audit' = audit
  BY DEF CacheInv, A!Lookup, A!Enter
<1>2. /\ DOMAIN store' \subseteq DOMAIN store /\ (\A x \in DOMAIN store' : store'[x] = store[x])
      /\ (A!Mutating(r) => \A x \in DOMAIN store' : x[1] # AreaOf(r))
  BY DEF A!Lookup, AreaOf
<1>3. /\ stage'[r] = (IF told THEN "answered" ELSE "route") /\ \A q \in Sent \ {r} : stage'[q] = stage[q] /\ answered'[q] = answered[q]
      /\ stage' \in [Sent -> {"new", "admitted", "route", "handled", "fill", "answered"}] /\ DOMAIN answered' = Sent
      /\ (told => answered'[r].from = "cache" /\ answered'[r].status = 200) /\ (~told => answered'[r] = answered[r])
  BY <1>1 DEF A!Lookup, A!Enter, A!Answered, PlaceInv, AreaOf
<1>4. /\ overlap \subseteq overlap'
      /\ (~told /\ A!Mutating(r) => \A q \in A!InFlight : AreaOf(q) = AreaOf(r) => q \in overlap')
      /\ (~told /\ ~A!Mutating(r) /\ (\E q \in A!InFlight : A!Mutating(q) /\ stage[q] = "route" /\ AreaOf(q) = AreaOf(r)) => r \in overlap')
  BY DEF A!Lookup, AreaOf
<1> HIDE DEF told
<1>5. PlaceInv'
  BY <1>1, <1>3 DEF PlaceInv
<1>6. ASSUME NEW q \in Sent PROVE FromInv(q)' /\ AnswerInv(q)'
  <2>1. CASE q = r
    BY <1>1, <1>3, <2>1 DEF FromInv, AnswerInv, Routed
  <2>2. CASE q # r
    BY <1>1, <1>3, <1>4, <2>2 DEF CacheInv, FromInv, AnswerInv
  <2> QED
    BY <2>1, <2>2
<1>7. BesideInv'
  <2> SUFFICES ASSUME NEW q \in A!InFlight', NEW m \in Sent, ~A!Mutating(q), A!Mutating(m), stage'[m] = "route", AreaOf(m) = AreaOf(q)
               PROVE  q \in overlap'
    BY DEF BesideInv
  <2>1. q \in Sent /\ stage'[q] \in {"route", "handled", "fill"} /\ q # m
    BY DEF A!InFlight
  <2>2. CASE q = r
    <3>1. ~told /\ stage[m] = "route" /\ m \in A!InFlight
      BY <1>3, <2>1, <2>2 DEF A!InFlight
    <3> QED
      BY <1>4, <2>2, <3>1
  <2>3. CASE m = r
    <3>1. ~told /\ q \in A!InFlight
      BY <1>3, <2>1, <2>3 DEF A!InFlight
    <3> QED
      BY <1>4, <2>3, <3>1
  <2>4. CASE q # r /\ m # r
    <3>1. q \in A!InFlight /\ stage[m] = "route"
      BY <1>3, <2>1, <2>4 DEF A!InFlight
    <3> QED
      BY <1>1, <1>4, <3>1 DEF BesideInv
  <2> QED
    BY <2>2, <2>3, <2>4
<1>8. StoreInv'
  <2>1. ASSUME NEW m \in Sent, NEW x \in DOMAIN store', A!Mutating(m), stage'[m] = "route", AreaOf(m) = x[1] PROVE store'[x].overlap
    <3>1. m # r
      BY <1>2, <2>1
    <3> QED
      BY <1>1, <1>2, <1>3, <2>1, <3>1 DEF StoreInv
  <2> QED
    BY <1>1, <1>2, <2>1 DEF StoreInv
<1> QED
  BY <1>1, <1>5, <1>6, <1>7, <1>8 DEF CacheInv

LEMMA CacheInductive == A!Sensible /\ A!Spec => []CacheInv
<1>1. A!Sensible /\ A!Init => CacheInv
  <2> SUFFICES ASSUME A!Sensible, A!Init PROVE CacheInv
    OBVIOUS
  <2>1. PlaceInv /\ BesideInv /\ StoreInv
    BY DEF A!Init, PlaceInv, BesideInv, A!InFlight, StoreInv
  <2>2. \A r \in Sent : FromInv(r) /\ AnswerInv(r)
    BY DEF A!Init, FromInv, AnswerInv, A!NoAnswer
  <2> QED
    BY <2>1, <2>2 DEF CacheInv
<1>2. CacheInv /\ [A!Next]_A!vars => CacheInv'
  <2> SUFFICES ASSUME CacheInv, [A!Next]_A!vars PROVE CacheInv'
    OBVIOUS
  <2>1. CASE UNCHANGED A!vars
    BY <2>1 DEF A!vars, CacheInv, PlaceInv, BesideInv, A!InFlight, StoreInv, FromInv, AnswerInv
  <2> QED
    BY <2>1, TickKeepsCache, OutsideKeeps, TrailKeeps, FillKeeps, HandleKeeps, LookupKeeps DEF A!Next
<1> QED
  BY <1>1, <1>2, PTL DEF A!Spec

\* No client gets more through in any stretch of time than a full bucket and what it gains
\* meanwhile, and the wait it is told is enough; a cached answer is a 200 that goes in time
\* and is old only when the GET that filled it ran beside a change, for any requests, groups
\* and areas (api/middleware/rate_limiter.py, cache.py).
THEOREM EdgeIsSafe == A!Sensible /\ A!Spec => []A!ApiEdgeSafe
<1>1. EdgeLimitInv => A!LimiterHolds
  <2> SUFFICES ASSUME EdgeLimitInv PROVE A!LimiterHolds
    OBVIOUS
  <2>1. A!Sensible /\ BucketInv /\ GrantInv
    BY DEF EdgeLimitInv
  <2>2. ASSUME NEW x \in DOMAIN granted PROVE Cost * granted[x] <= Capacity[x[2]] + Rate[x[2]] * (now - x[3])
    <3>1. /\ x[2] \in Groups /\ now - x[3] \in Nat /\ granted[x] \in Nat /\ Cost \in Nat /\ Rate[x[2]] \in Nat /\ Capacity[x[2]] \in Nat
          /\ Cost * granted[x] + Holds(<<x[1], x[2]>>) <= Room(x, now)
      BY <2>1 DEF GrantInv, BucketInv, A!Sensible, Groups
    <3>2. Holds(<<x[1], x[2]>>) \in Nat
      BY <2>1, <3>1, HoldsIs
    <3>3. Cost * granted[x] \in Nat /\ Rate[x[2]] * (now - x[3]) \in Nat
      BY <3>1, TimesIsNat
    <3> QED
      BY <3>1, <3>2, <3>3 DEF Room
  <2> QED
    BY <2>1, <2>2, WaitIsEnough DEF A!LimiterHolds
<1>2. CacheInv => A!CacheIsHonest
  <2> SUFFICES ASSUME CacheInv PROVE A!CacheIsHonest
    OBVIOUS
  <2>1. \A r \in Sent : answered[r].from \in {"cache", "limiter", "outside"} <=> stage[r] = "answered" /\ r \notin audit
    BY DEF CacheInv, FromInv, PlaceInv, Routed
  <2> QED
    BY <2>1 DEF CacheInv, FromInv, StoreInv, A!CacheIsHonest
<1> QED
  BY <1>1, <1>2, LimitInductive, CacheInductive, PTL DEF A!ApiEdgeSafe
================================================================================
