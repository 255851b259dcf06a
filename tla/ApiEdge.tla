-------------------------------- MODULE ApiEdge --------------------------------
(***************************************************************************)
(* What a request passes on its way to a route: the rate limiter, the      *)
(* response cache and the audit trail, and on its way back the exception   *)
(* handlers. Requests are under way together; the cache is asked before    *)
(* the route and filled after it.                                          *)
(***************************************************************************)
EXTENDS Integers, Sequences, FiniteSets

CONSTANTS
  Requests,  \* requests under way: every one is sent once
  About,     \* request |-> [client, method, area, role, raises]
  Areas,     \* area |-> [group, ttl]: group of the limiter, and how long a GET is cached (0: never)
  Rate,      \* group |-> what a bucket gains in a tick
  Capacity,  \* group |-> what a bucket holds
  Cost,      \* what a request takes from its bucket
  IdleTicks, \* a bucket nobody asked for that long is removed
  MaxTime    \* bound on time

VARIABLES
  now,
  buckets,  \* <<client, group>> |-> [tokens, updated, seen], for those that exist
  store,    \* <<area, role>> |-> [version, expires, overlap], for what is cached
  version,  \* area |-> number of changes its routes made
  stage,    \* request |-> "new" | "admitted" | "route" | "handled" | "fill" | "answered"
  answer,   \* request |-> [status, version, from, retry]
  overlap,  \* history: GETs that had a change of their area invalidated or waiting while they ran
  granted,  \* history: <<client, group, time>> |-> requests let through since then
  audit     \* requests with an entry in the trail

vars == <<now, buckets, store, version, stage, answer, overlap, granted, audit>>

\* A removed bucket would have been full, and a full bucket lets a request through.
Sensible ==
  /\ \A r \in Requests : About[r].area \in DOMAIN Areas
  /\ \A a \in DOMAIN Areas : Areas[a].group \in DOMAIN Rate \cup {"health"} /\ Areas[a].ttl \in Nat
  /\ \A g \in DOMAIN Rate :
       Rate[g] \in Nat \ {0} /\ Capacity[g] \in Nat /\ Cost <= Capacity[g] /\ Capacity[g] <= Rate[g] * (IdleTicks + 1)
  /\ Cost \in Nat \ {0} /\ IdleTicks \in Nat /\ MaxTime \in Nat

NoAnswer == [status |-> 0, version |-> 0, from |-> "none", retry |-> 0]
-----------------------------------------------------------------------------
(* GlobalExceptionHandler: the nearest class with a handler answers.       *)

Parent(e) ==
  CASE e \in {"EvidenceNotFound", "IntegrityVerification", "UnsupportedFormat"} -> "Evidence"
    [] e \in {"CaseNotFound", "InvalidCaseTransition", "NoLeadInvestigator", "CaseAlreadyClosed", "InvestigatorAlreadyAssigned"} -> "Case"
    [] e \in {"EvidenceValidation", "InvalidEvidenceTransition", "MIMETypeMismatch", "EvidenceQuarantined", "CustodyChain"} -> "EvidenceManagement"
    [] e = "CustodyRecordNotFound" -> "CustodyChain"
    [] e \in {"PipelineJobNotFound", "PipelineTimeout", "PipelineCancelled", "PipelineStage", "ParserUnavailable", "AllParsersFailed"} -> "Pipeline"
    [] e \in {"DiskParsing", "MemoryParsing", "ArtefactExtraction"} -> "Parsing"
    [] e \in {"LLMConnection", "LLMTimeout", "LLMResponse"} -> "AIEngine"
    [] e \in {"Template", "JSONSchemaValidation"} -> "Reporting"
    [] e \in {"GroundTruthNotFound", "MetricsCalculation"} -> "Evaluation"
    [] e \in {"InvalidCredentials", "TokenExpired", "TokenRevoked", "TokenInvalid", "AccountLocked", "AccountDisabled"} -> "Authentication"
    [] e \in {"InsufficientPermissions", "RoleNotFound"} -> "Authorisation"
    [] e \in {"DFAT", "RequestValidation", "Validation", "Value"} -> "Exception"
    [] OTHER -> "DFAT"

Registered(e) ==
  CASE e \in {"EvidenceNotFound", "CaseNotFound", "PipelineJobNotFound", "JobNotFound", "GroundTruthNotFound"} -> 404
    [] e \in {"InvalidCaseTransition", "InvalidEvidenceTransition", "JobCancellation", "PipelineCancelled", "IntegrityVerification"} -> 409
    [] e \in {"EvidenceValidation", "MIMETypeMismatch", "AllParsersFailed", "Parsing", "MetricsCalculation", "RequestValidation", "Validation"} -> 422
    [] e \in {"NoLeadInvestigator", "UnsupportedFormat", "DFAT"} -> 400
    [] e \in {"InvalidCredentials", "TokenExpired", "TokenRevoked", "AccountDisabled", "Authentication"} -> 401
    [] e \in {"EvidenceQuarantined", "InsufficientPermissions", "Authorisation"} -> 403
    [] e = "AccountLocked" -> 423
    [] e \in {"PipelineStage", "Reporting", "Evaluation", "Exception"} -> 500
    [] e \in {"ParserUnavailable", "AIEngine"} -> 503
    [] e = "PipelineTimeout" -> 504
    [] OTHER -> 0

StatusOf(e) ==
  LET Up(c) == IF Registered(c) # 0 THEN c ELSE Parent(c)
  IN Registered(Up(Up(Up(Up(e)))))
\* Handlers of Exception itself sit outside of every middleware.
Escapes(e) == e # "none" /\ Registered(e) = 0 /\ Parent(e) = "Exception"

-----------------------------------------------------------------------------
(* TokenBucket, with time in ticks                                         *)

Key(r) == <<About[r].client, Areas[About[r].area].group>>
Lower(a, b) == IF a < b THEN a ELSE b
Refilled(b, group) == [b EXCEPT !.tokens = Lower(Capacity[group], b.tokens + (now - b.updated) * Rate[group]), !.updated = now]
Fresh(group) == [tokens |-> Capacity[group], updated |-> now, seen |-> now]
Idle(b) == now - b.seen > IdleTicks
\* At least one tick, and as many as the missing tokens take.
RetryAfter(b, group) ==
  LET ticks == (Cost - b.tokens + Rate[group] - 1) \div Rate[group] IN IF ticks < 1 THEN 1 ELSE ticks

\* Expired buckets of anybody go first.
Kept == {k \in DOMAIN buckets : ~Idle(buckets[k])}
Bucket(k) == Refilled(IF k \in Kept THEN buckets[k] ELSE Fresh(k[2]), k[2])

-----------------------------------------------------------------------------
Init ==
  /\ now = 0 /\ buckets = <<>> /\ store = <<>> /\ version = [a \in DOMAIN Areas |-> 0]
  /\ stage = [r \in Requests |-> "new"] /\ answer = [r \in Requests |-> NoAnswer]
  /\ overlap = {} /\ granted = <<>> /\ audit = {}

Tick == now < MaxTime /\ now' = now + 1 /\ UNCHANGED <<buckets, store, version, stage, answer, overlap, granted, audit>>

Enter(r, from, to) == stage[r] = from /\ stage' = [stage EXCEPT ![r] = to]
Answered(r, status, v, from, retry) == answer' = [answer EXCEPT ![r] = [status |-> status, version |-> v, from |-> from, retry |-> retry]]
Mutating(r) == About[r].method # "GET"
InFlight == {r \in Requests : stage[r] \in {"route", "handled", "fill"}}
Cacheable(r) == ~Mutating(r) /\ Areas[About[r].area].ttl > 0

\* Health checks have no bucket.
Exempt(r) == Areas[About[r].area].group = "health"
Pass(r) ==
  /\ Exempt(r) /\ Enter(r, "new", "admitted")
  /\ UNCHANGED <<now, buckets, store, version, answer, overlap, granted, audit>>

\* RateLimiterMiddleware.dispatch
Admit(r) ==
  LET k == Key(r)
      b == [Bucket(k) EXCEPT !.seen = now]
      slots == {<<k[1], k[2], since>> : since \in 0..now}
  IN /\ ~Exempt(r)
     /\ IF b.tokens >= Cost
        THEN /\ Enter(r, "new", "admitted") /\ UNCHANGED answer
             /\ buckets' = [x \in Kept \cup {k} |-> IF x = k THEN [b EXCEPT !.tokens = b.tokens - Cost] ELSE buckets[x]]
             /\ granted' = [x \in DOMAIN granted \cup slots |-> (IF x \in DOMAIN granted THEN granted[x] ELSE 0) + (IF x \in slots THEN 1 ELSE 0)]
        ELSE /\ Enter(r, "new", "answered") /\ Answered(r, 429, 0, "limiter", RetryAfter(b, k[2]))
             /\ buckets' = [x \in Kept \cup {k} |-> IF x = k THEN b ELSE buckets[x]] /\ UNCHANGED granted
     /\ UNCHANGED <<now, store, version, overlap, audit>>

\* ResponseCacheMiddleware.dispatch up to the route: a change drops what its area has
\* cached, before it is made; a GET is answered from the cache or goes on.
Lookup(r) ==
  LET k == <<About[r].area, About[r].role>>
      valid == k \in DOMAIN store /\ store[k].expires > now
      dropped == IF Mutating(r) THEN {x \in DOMAIN store : x[1] = About[r].area}
                 ELSE IF Cacheable(r) /\ ~valid THEN {k} ELSE {}
  IN /\ store' = [x \in DOMAIN store \ dropped |-> store[x]]
     /\ IF Cacheable(r) /\ valid
        THEN Enter(r, "admitted", "answered") /\ Answered(r, 200, store[k].version, "cache", 0) /\ UNCHANGED overlap
        ELSE /\ Enter(r, "admitted", "route") /\ UNCHANGED answer
             /\ overlap' = IF Mutating(r) THEN overlap \cup {q \in InFlight : About[q].area = About[r].area}
                           ELSE IF \E q \in InFlight : Mutating(q) /\ stage[q] = "route" /\ About[q].area = About[r].area
                                THEN overlap \cup {r} ELSE overlap
     /\ UNCHANGED <<now, buckets, version, granted, audit>>

\* The route and the exception handlers around it.
Handle(r) ==
  LET a == About[r]
  IN /\ IF a.raises = "none"
        THEN /\ version' = IF Mutating(r) THEN [version EXCEPT ![a.area] = @ + 1] ELSE version
             /\ Enter(r, "route", "handled") /\ Answered(r, 200, version'[a.area], "route", 0)
        ELSE /\ UNCHANGED version
             /\ Enter(r, "route", IF Escapes(a.raises) THEN "answered" ELSE "handled")
             /\ Answered(r, StatusOf(a.raises), 0, IF Escapes(a.raises) THEN "outside" ELSE "handler", 0)
     /\ UNCHANGED <<now, buckets, store, overlap, granted, audit>>

\* AuditTrailMiddleware.dispatch
Trail(r) ==
  /\ Enter(r, "handled", IF Cacheable(r) THEN "fill" ELSE "answered") /\ audit' = audit \cup {r}
  /\ UNCHANGED <<now, buckets, store, version, answer, overlap, granted>>

\* The body is read to its end, then stored when the answer is a 200.
Fill(r) ==
  LET k == <<About[r].area, About[r].role>>
  IN /\ Enter(r, "fill", "answered")
     /\ store' = IF answer[r].status # 200 THEN store
                 ELSE [x \in DOMAIN store \cup {k} |->
                        IF x = k THEN [version |-> answer[r].version, expires |-> now + Areas[k[1]].ttl, overlap |-> r \in overlap]
                        ELSE store[x]]
     /\ UNCHANGED <<now, buckets, version, answer, overlap, granted, audit>>

Next ==
  \/ Tick
  \/ \E r \in Requests : Pass(r) \/ Admit(r) \/ Lookup(r) \/ Handle(r) \/ Trail(r) \/ Fill(r)
Spec == Init /\ [][Next]_vars

-----------------------------------------------------------------------------
\* No client gets more through in any stretch of time than a full bucket and what it
\* gains meanwhile, removed and recreated buckets included; who is told to wait gets
\* through after it unless others took the tokens.
LimiterHolds ==
  /\ \A x \in DOMAIN granted : Cost * granted[x] <= Capacity[x[2]] + Rate[x[2]] * (now - x[3])
  /\ \A k \in DOMAIN buckets :
       LET b == buckets[k] IN b.tokens < Cost => Lower(Capacity[k[2]], b.tokens + RetryAfter(b, k[2]) * Rate[k[2]]) >= Cost

\* What is cached was a 200 and goes in time; it is older than its area only when the
\* GET that filled it ran beside a change.
CacheIsHonest ==
  /\ \A k \in DOMAIN store : store[k].expires <= now + Areas[k[1]].ttl /\ (store[k].version < version[k[1]] => store[k].overlap)
  /\ \A r \in Requests : answer[r].from \in {"cache", "limiter", "outside"} <=> stage[r] = "answered" /\ r \notin audit
  /\ \A r \in Requests : answer[r].from = "cache" => answer[r].status = 200

ApiEdgeSafe == LimiterHolds /\ CacheIsHonest
=============================================================================
