-------------------------------- MODULE Sessions --------------------------------
(***************************************************************************)
(* One account and its sessions: UserService (services/user_service.py),   *)
(* the user and session repositories, the token pair of JWTHandler and the *)
(* checks of every authenticated request (auth/dependencies.py, rbac.py).  *)
(*                                                                         *)
(* Calls overlap at every await. Counters and locks are changed by UPDATE  *)
(* statements of their own; change_password and deactivate_user write back *)
(* the whole row they loaded before (session.merge of a detached object).  *)
(* Both tokens of a pair carry the id of their session.                    *)
(***************************************************************************)
EXTENDS Naturals, Sequences, FiniteSets

CONSTANTS
  Calls,
  Kinds,        \* functions from Calls to "login", "wrong" (a login with a wrong
                \* password), "refresh", "logout", "logout_all", "change",
                \* "deactivate" or "request"
  MaxAttempts,  \* max_login_attempts
  MaxSessions,  \* bound on sessions ever created
  Requests      \* what may be asked for: [role, resource, action]

\* What a call may ask for; a login may fail before an account is locked.
CallKinds == {"login", "wrong", "refresh", "logout", "logout_all", "change", "deactivate", "request"}
Sensible == IsFiniteSet(Calls) /\ MaxAttempts \in Nat \ {0} /\ Kinds \subseteq [Calls -> CallKinds]

VARIABLES
  account,   \* the row of the user
  sessions,  \* the rows of the sessions, by number
  expired,   \* sessions whose tokens and row have run out
  call,
  epoch,     \* times all sessions were revoked
  stale      \* whether a row was written back over a change made since its load

vars == <<account, sessions, expired, call, epoch, stale>>

Ended == {"done", "refused", "accepted"}
Fresh == [active |-> TRUE, locked |-> "no", fails |-> 0, password |-> 0]
NewSession == [revoked |-> FALSE, gone |-> FALSE, born |-> epoch]

Init ==
  /\ account = Fresh /\ expired = {} /\ epoch = 0 /\ stale = FALSE
  /\ sessions = <<NewSession>>
  /\ \E kinds \in Kinds, of \in [Calls -> Requests] :
       call = [c \in Calls |-> [kind |-> kinds[c], of |-> of[c], pc |-> "idle", user |-> Fresh,
                                session |-> 0]]

At(c, where) == call[c].pc = where
Starts(c, kinds) == At(c, "idle") /\ call[c].kind \in kinds
Goto(c, where) == call' = [call EXCEPT ![c].pc = where]
LoadUser(c, where) == call' = [call EXCEPT ![c].pc = where, ![c].user = account]

\* is_token_revoked: a session that is not there is not revoked.
Revoked(s) == ~sessions[s].gone /\ (sessions[s].revoked \/ s \in expired)
Revoke(which) ==
  sessions' = [s \in DOMAIN sessions |->
                 IF s \in which THEN [sessions[s] EXCEPT !.revoked = TRUE] ELSE sessions[s]]

-----------------------------------------------------------------------------
(* authenticate                                                            *)

\* The user is loaded and its state looked at; the password is right or wrong.
Login(c) ==
  /\ Starts(c, {"login", "wrong"})
  /\ IF ~account.active \/ account.locked = "until"
     THEN Goto(c, "refused")
     ELSE LoadUser(c, IF call[c].kind = "login" THEN "reset" ELSE "count")
  /\ UNCHANGED <<account, sessions, expired, epoch, stale>>

CountFailure(c) ==
  /\ At(c, "count")
  /\ account' = [account EXCEPT !.fails = @ + 1]
  /\ Goto(c, "reload")
  /\ UNCHANGED <<sessions, expired, epoch, stale>>

Seen(c) == account.fails
Reload(c) ==
  /\ At(c, "reload")
  /\ Goto(c, IF Seen(c) >= MaxAttempts THEN "lock" ELSE "refused")
  /\ UNCHANGED <<account, sessions, expired, epoch, stale>>

Lock(c) ==
  /\ At(c, "lock")
  /\ account' = [account EXCEPT !.locked = "until"]
  /\ Goto(c, "refused")
  /\ UNCHANGED <<sessions, expired, epoch, stale>>

ResetFailures(c) ==
  /\ At(c, "reset")
  /\ account' = [account EXCEPT !.fails = 0]
  /\ Goto(c, "create")
  /\ UNCHANGED <<sessions, expired, epoch, stale>>

\* create_session, of a login or of a refresh.
Create(c) ==
  /\ At(c, "create") /\ Len(sessions) < MaxSessions
  /\ sessions' = Append(sessions, NewSession)
  /\ Goto(c, "done")
  /\ UNCHANGED <<account, expired, epoch, stale>>

-----------------------------------------------------------------------------
(* refresh_token, logout                                                   *)

\* decode_token refuses an expired token; then the session is looked up.
Refresh(c) ==
  /\ Starts(c, {"refresh"})
  /\ \E s \in DOMAIN sessions \ expired :
       call' = [call EXCEPT ![c].pc = IF Revoked(s) THEN "refused" ELSE "rotate",
                            ![c].session = s]
  /\ UNCHANGED <<account, sessions, expired, epoch, stale>>

\* The old session is revoked before the user is looked at.
Rotate(c) ==
  /\ At(c, "rotate")
  /\ Revoke({call[c].session})
  /\ Goto(c, "user")
  /\ UNCHANGED <<account, expired, epoch, stale>>

\* Only is_active is checked here.
UserOfRefresh(c) ==
  /\ At(c, "user")
  /\ IF account.active THEN LoadUser(c, "create") ELSE Goto(c, "refused")
  /\ UNCHANGED <<account, sessions, expired, epoch, stale>>

\* logout, and the revocation of all sessions that ends the other calls.
RevokeOne(c) ==
  /\ At(c, "revoke") /\ Revoke({call[c].session})
  /\ Goto(c, "done")
  /\ UNCHANGED <<account, expired, epoch, stale>>

RevokeAll(c) ==
  /\ At(c, "revoke_all")
  /\ Revoke(DOMAIN sessions) /\ epoch' = epoch + 1
  /\ Goto(c, "done")
  /\ UNCHANGED <<account, expired, stale>>

-----------------------------------------------------------------------------
(* change_password, deactivate_user                                        *)

\* The row as it will be written back.
Written(c) ==
  IF call[c].kind = "change" THEN [call[c].user EXCEPT !.password = @ + 1]
                             ELSE [call[c].user EXCEPT !.active = FALSE]

LoadRow(c) ==
  /\ At(c, "load") \/ Starts(c, {"deactivate"})
  /\ LoadUser(c, "save")
  /\ UNCHANGED <<account, sessions, expired, epoch, stale>>

\* session.merge copies every column of the loaded object.
SaveRow(c) ==
  /\ At(c, "save")
  /\ account' = Written(c)
  /\ stale' = (stale \/ account # call[c].user)
  /\ Goto(c, "revoke_all")
  /\ UNCHANGED <<sessions, expired, epoch>>

-----------------------------------------------------------------------------
(* Authenticated requests                                                  *)

\* ROLE_PERMISSIONS and has_permission.
Common == {"datasets", "knowledge", "ml", "threat_intel"}
Permissions(role) ==
  CASE role = "admin" -> {"all"} \X {"create", "read", "update", "delete"}
    [] role = "investigator" ->
         ({"evidence"} \X {"create", "read", "update", "delete"})
           \cup ({"analysis", "reports", "evaluation"} \X {"create", "read"})
           \cup ({"cases"} \X {"create", "read", "update"}) \cup (Common \X {"read"})
    [] role = "analyst" ->
         ({"analysis", "evaluation"} \X {"create", "read"})
           \cup ({"evidence", "reports", "cases"} \cup Common) \X {"read"}
    [] role = "viewer" -> {"reports", "evaluation"} \X {"read"}
    [] OTHER -> {}
HasPermission(role, resource, action) ==
  {<<"all", action>>, <<resource, action>>} \cap Permissions(role) # {}

\* get_current_user: the token, then its session; the user comes after an await.
CheckToken(c) ==
  /\ Starts(c, {"request", "logout", "logout_all", "change"})
  /\ \E s \in DOMAIN sessions \ expired :
       call' = [call EXCEPT ![c].pc = IF Revoked(s) THEN "refused" ELSE "check_user",
                            ![c].session = s]
  /\ UNCHANGED <<account, sessions, expired, epoch, stale>>

CheckUser(c) ==
  /\ At(c, "check_user")
  /\ IF ~account.active \/ account.locked = "until"
     THEN Goto(c, "refused")
     ELSE LoadUser(c, CASE call[c].kind = "logout"     -> "revoke"
                        [] call[c].kind = "logout_all" -> "revoke_all"
                        [] call[c].kind = "change"     -> "load"
                        [] OTHER ->
                             IF HasPermission(call[c].of.role, call[c].of.resource, call[c].of.action)
                             THEN "accepted" ELSE "refused")
  /\ UNCHANGED <<account, sessions, expired, epoch, stale>>

-----------------------------------------------------------------------------
(* Time                                                                    *)

LockEnds ==
  /\ account.locked = "until" /\ account' = [account EXCEPT !.locked = "past"]
  /\ UNCHANGED <<sessions, expired, call, epoch, stale>>

Expire(s) ==
  /\ s \in DOMAIN sessions \ expired /\ expired' = expired \cup {s}
  /\ UNCHANGED <<account, sessions, call, epoch, stale>>

\* cleanup_expired, at start and by a worker: rows revoked and run out.
Removable(s) == sessions[s].revoked /\ s \in expired
Cleanup ==
  /\ \E s \in DOMAIN sessions : Removable(s) /\ ~sessions[s].gone
  /\ sessions' = [s \in DOMAIN sessions |->
                    [sessions[s] EXCEPT !.gone = @ \/ Removable(s)]]
  /\ UNCHANGED <<account, expired, call, epoch, stale>>

Next ==
  \/ \E c \in Calls :
       \/ Login(c) \/ CountFailure(c) \/ Reload(c) \/ Lock(c) \/ ResetFailures(c) \/ Create(c)
       \/ Refresh(c) \/ Rotate(c) \/ UserOfRefresh(c) \/ RevokeOne(c) \/ RevokeAll(c)
       \/ LoadRow(c) \/ SaveRow(c) \/ CheckToken(c) \/ CheckUser(c)
  \/ LockEnds \/ Cleanup \/ \E s \in DOMAIN sessions : Expire(s)

Spec == Init /\ [][Next]_vars

-----------------------------------------------------------------------------
Busy == \E c \in Calls : call[c].pc \notin Ended \cup {"idle"}

\* Every variable has its type.
TypeOK ==
  /\ account.active \in BOOLEAN /\ account.locked \in {"no", "until", "past"}
  /\ account.fails \in 0..Cardinality(Calls) /\ expired \subseteq DOMAIN sessions
  /\ \A s \in DOMAIN sessions : sessions[s].born <= epoch

\* A session that is not revoked was created after all were revoked last: none
\* survives a change of the password or the end of the account.
NoneSurvives == \A s \in DOMAIN sessions : ~sessions[s].revoked => sessions[s].born = epoch

\* When nothing is running, an account whose failures reached the limit is or was
\* locked, however the wrong logins overlapped; unless a row written back over
\* another change put the lock out of force.
ThresholdLocks ==
  ~Busy /\ ~stale /\ account.fails >= MaxAttempts => account.locked # "no"

\* Every role may do what the role below it may.
RolesNested ==
  \A r \in {<<"admin", "investigator">>, <<"investigator", "analyst">>, <<"analyst", "viewer">>} :
    \A p \in Permissions(r[2]) : HasPermission(r[1], p[1], p[2])

SessionsSafe == TypeOK /\ NoneSurvives /\ ThresholdLocks /\ RolesNested

\* A step passes the token of no session that was ever revoked, its row removed
\* or not; and an account that was deactivated is active again only because a
\* stale row was written back.
SessionsStep ==
  /\ \A c \in Calls :
       At(c, "idle") /\ call'[c].pc \in {"rotate", "check_user"}
       => ~sessions[call'[c].session].revoked
  /\ ~account.active /\ account'.active => stale'
=============================================================================
