------------------------------ MODULE LlmGateway ------------------------------
(***************************************************************************)
(* The way to the local model: OllamaClient (ai_engine/llm/client.py), the *)
(* health probe of LLMConnectionManager (llm/connection.py), the response  *)
(* cache (caching/response_cache.py) and the answers that                  *)
(* InvestigatorQAAssistant and ArtefactExplainer remember (memo).          *)
(*                                                                         *)
(* A call is cut at its awaits: between the miss of the cache and the put  *)
(* of the answer other calls run. Model and temperature are those of the   *)
(* configuration, so a cache key is a prompt. An answer is the prompt it   *)
(* was given for and whether it is the model's or the text the code puts   *)
(* in its place when every attempt failed.                                 *)
(***************************************************************************)
EXTENDS Naturals, Sequences, SequencesExt

CONSTANTS
  Calls,       \* the calls that are made
  Kinds,       \* functions from Calls to "generate", "chat", "stream", "ask",
               \* "explain" or "probe"
  Prompts,
  MaxSize,     \* entries the cache holds (at least 1)
  Ttl,         \* time to live of an entry; 0: for ever
  Attempts,    \* max(1, max_retries)
  Pieces,      \* pieces of a streamed reply
  MaxTime      \* bound of the clock

Requests == {"generate", "chat", "stream", "ask", "explain", "probe"}
\* Every call is one of these, and there are an attempt and an entry at least.
Sensible ==
  /\ Kinds \subseteq [Calls -> Requests] /\ MaxSize \in Nat \ {0} /\ Ttl \in Nat
  /\ Attempts \in Nat \ {0} /\ Pieces \in Nat /\ MaxTime \in Nat

VARIABLES
  store,     \* the cache, least recently used first
  memo,      \* the answers that ask and explain remember
  now,
  stats,     \* hits, misses and evictions of the cache
  call       \* per call

vars == <<store, memo, now, stats, call>>

Errors == {"timeout", "connection", "response"}
Ended == {"answered", "raised", "reported"}
Steps == {"idle", "lookup", "trying", "put", "keep"} \cup Ended
Memoised == {"ask", "explain"}
Cached == {"generate"} \cup Memoised      \* what goes through generate()

ModelAnswer(p) == [prompt |-> p, real |-> TRUE]
Placeholder(p) == [prompt |-> p, real |-> FALSE]
NoAnswer == [prompt |-> "none", real |-> FALSE]

Init ==
  /\ store = <<>> /\ memo = {} /\ now = 0
  /\ stats = [hits |-> 0, misses |-> 0, evictions |-> 0]
  /\ \E kinds \in Kinds, prompts \in [Calls -> Prompts] :
       call = [c \in Calls |->
                 [kind |-> kinds[c], prompt |-> prompts[c], pc |-> "idle", tries |-> 0,
                  logged |-> FALSE, error |-> "none", answer |-> NoAnswer,
                  from |-> "none", told |-> <<>>]]

At(c, where) == call[c].pc = where
Prompt(c) == call[c].prompt

\* Questions and explanations have a memory each, InMemoryResponseCache.
Remembered(c) == {e \in memo : e.kind = call[c].kind /\ e.prompt = Prompt(c)}

\* _compute_cache_key, _is_expired.
Entry(p) == {i \in DOMAIN store : store[i].prompt = p}
Expired(e) == Ttl > 0 /\ now - e.at > Ttl
Without(i) == RemoveAt(store, i)

-----------------------------------------------------------------------------
(* A call begins: remembered answers first, then the cache, then the model. *)

Answer(c, answer, from) ==
  call' = [call EXCEPT ![c].pc = "answered", ![c].answer = answer, ![c].from = from]

\* ask() and explain_artefact(): the memory is read before anything else.
Recall(c) ==
  /\ At(c, "idle")
  /\ \E e \in Remembered(c) : Answer(c, e.answer, "memo")
  /\ UNCHANGED <<store, memo, now, stats>>

\* Nothing remembered; and the calls that have no cache log their request. The
\* probe logs nothing.
Begin(c) ==
  /\ At(c, "idle")
  /\ Remembered(c) = {}
  /\ call' = [call EXCEPT ![c].pc = IF call[c].kind \in Cached THEN "lookup" ELSE "trying",
                          ![c].logged = call[c].kind \in {"chat", "stream"}]
  /\ UNCHANGED <<store, memo, now, stats>>

\* AIResponseCache.get: a hit becomes the most recently used entry, an expired
\* entry is deleted. generate() then logs the request.
Lookup(c) ==
  /\ At(c, "lookup")
  /\ \/ \E i \in Entry(Prompt(c)) :
          /\ ~Expired(store[i])
          /\ store' = Append(Without(i), store[i])
          /\ stats' = [stats EXCEPT !.hits = @ + 1]
          /\ IF call[c].kind = "generate"
             THEN Answer(c, store[i].answer, "cache")
             ELSE call' = [call EXCEPT ![c].pc = "keep", ![c].answer = store[i].answer,
                                       ![c].from = "cache"]
     \/ /\ \/ Entry(Prompt(c)) = {} /\ store' = store
           \/ \E i \in Entry(Prompt(c)) : Expired(store[i]) /\ store' = Without(i)
        /\ stats' = [stats EXCEPT !.misses = @ + 1]
        /\ call' = [call EXCEPT ![c].pc = "trying", ![c].logged = TRUE]
  /\ UNCHANGED <<memo, now>>

-----------------------------------------------------------------------------
(* _post_with_retries, _stream_with_retries, _request_with_retry           *)

\* What a streaming attempt hands to the callback before it ends.
Told(c, n) ==
  IF call[c].kind = "stream"
  THEN call[c].told \o [i \in 1..n |-> <<call[c].tries + 1, i>>]
  ELSE call[c].told

\* A reply; a stream may also end early without an error or a "done" chunk, and
\* is then taken for complete.
Reply(c) ==
  /\ At(c, "trying")
  /\ \E n \in 0..Pieces :
       /\ call[c].kind = "stream" \/ n = Pieces
       /\ call' = [call EXCEPT ![c].tries = @ + 1, ![c].told = Told(c, n),
                     ![c].answer = ModelAnswer(Prompt(c)),
                     ![c].from = IF call[c].kind = "probe" THEN "none" ELSE "model",
                     ![c].pc = CASE call[c].kind \in Cached -> "put"
                                 [] call[c].kind = "probe"  -> "reported"
                                 [] OTHER                   -> "answered"]
  /\ UNCHANGED <<store, memo, now, stats>>

\* Any exception is retried, a failed audit line of the reply among them. After
\* the last attempt _handle_error raises; the probe reports "unhealthy"; ask and
\* explain put a text of their own in place of the answer.
FinalTry(c) == call[c].tries + 1 >= Attempts
Fail(c) ==
  /\ At(c, "trying")
  /\ \E error \in Errors, n \in 0..Pieces :
       /\ call[c].kind # "stream" => n = 0
       /\ call' = [call EXCEPT ![c].tries = @ + 1, ![c].error = error, ![c].told = Told(c, n),
                     ![c].pc = IF ~FinalTry(c) THEN "trying"
                               ELSE IF call[c].kind = "probe" THEN "reported"
                               ELSE IF call[c].kind \in Memoised THEN "keep" ELSE "raised",
                     ![c].answer = IF FinalTry(c) /\ call[c].kind \in Memoised
                                   THEN Placeholder(Prompt(c)) ELSE @]
  /\ UNCHANGED <<store, memo, now, stats>>

-----------------------------------------------------------------------------
(* The answer is stored                                                    *)

\* AIResponseCache.put: an entry of the same key is replaced, else the least
\* recently used ones make room.
BadRoom == store
Room == IF Len(store) >= MaxSize THEN SubSeq(store, Len(store) - MaxSize + 2, Len(store)) ELSE store
Put(c) ==
  /\ At(c, "put")
  /\ LET entry == [prompt |-> Prompt(c), answer |-> call[c].answer, at |-> now] IN
       \/ \E i \in Entry(Prompt(c)) : store' = Append(Without(i), entry) /\ stats' = stats
       \/ /\ Entry(Prompt(c)) = {} /\ store' = Append(Room, entry)
          /\ stats' = [stats EXCEPT !.evictions = @ + Len(store) - Len(Room)]
  /\ IF call[c].kind = "generate"
     THEN Answer(c, call[c].answer, "model")
     ELSE call' = [call EXCEPT ![c].pc = "keep"]
  /\ UNCHANGED <<memo, now>>

\* The answer is remembered for good, whoever gave it.
Keep(c) ==
  /\ At(c, "keep")
  /\ memo' = (memo \ Remembered(c))
              \cup {[kind |-> call[c].kind, prompt |-> Prompt(c), answer |-> call[c].answer]}
  /\ Answer(c, call[c].answer, call[c].from)
  /\ UNCHANGED <<store, now, stats>>

\* DELETE /ai/cache, and the cleanup worker.
ClearCache ==
  /\ store # <<>> /\ store' = <<>>
  /\ UNCHANGED <<memo, now, stats, call>>

\* The entries that stay keep their order.
Fresh == {i \in DOMAIN store : ~Expired(store[i])}
EvictExpired ==
  /\ Fresh # DOMAIN store
  /\ \E n \in 0..Len(store) : \E from \in [1..n -> Fresh] :
       /\ \A i, j \in 1..n : i < j => from[i] < from[j]
       /\ \A k \in Fresh : \E i \in 1..n : from[i] = k
       /\ store' = [i \in 1..n |-> store[from[i]]]
  /\ UNCHANGED <<memo, now, stats, call>>

Tick == now < MaxTime /\ now' = now + 1 /\ UNCHANGED <<store, memo, stats, call>>

Next ==
  \/ \E c \in Calls : Recall(c) \/ Begin(c) \/ Lookup(c) \/ Reply(c) \/ Fail(c) \/ Put(c) \/ Keep(c)
  \/ ClearCache \/ EvictExpired \/ Tick

Spec == Init /\ [][Next]_vars

-----------------------------------------------------------------------------
\* Every variable has its type.
TypeOK ==
  /\ now \in 0..MaxTime /\ \A f \in DOMAIN stats : stats[f] \in Nat
  /\ \A e \in ToSet(store) : e.prompt \in Prompts /\ e.at \in 0..now
  /\ \A c \in Calls : call[c].pc \in Steps /\ call[c].tries \in 0..Attempts

\* The cache never holds more than its size, nor a prompt twice, and only what
\* the model said: no text of the code stands in for an answer there.
CacheSound ==
  /\ Len(store) <= MaxSize
  /\ \A i, j \in DOMAIN store : store[i].prompt = store[j].prompt => i = j
  /\ \A e \in ToSet(store) : e.answer = ModelAnswer(e.prompt)

\* An answer is for the prompt of its call. generate and chat never answer with
\* a placeholder; they raise only after the last attempt has failed, and the
\* request is logged before it is tried.
AnswersOwn ==
  \A c \in Calls :
    /\ At(c, "answered") =>
         /\ call[c].answer.prompt = Prompt(c)
         /\ call[c].kind \notin Memoised => call[c].answer.real
    /\ At(c, "raised") => call[c].tries = Attempts /\ call[c].error \in Errors
    /\ call[c].tries > 0 /\ call[c].kind # "probe" => call[c].logged

\* What a callback was told ends with the pieces of the attempt that succeeded,
\* in order; pieces of failed attempts come before them.
StreamsInOrder ==
  \A c \in Calls : call[c].kind = "stream" =>
    \A i, j \in DOMAIN call[c].told : i < j =>
      LET a == call[c].told[i]  b == call[c].told[j]
      IN a[1] < b[1] \/ (a[1] = b[1] /\ a[2] < b[2])

\* The promises of the gateway together.
GatewayInv == TypeOK /\ CacheSound /\ AnswersOwn /\ StreamsInOrder

\* A step never answers from an entry that has outlived its time, and makes room
\* only by dropping entries used less recently than all that stay.
CacheStep ==
  /\ \A c \in Calls : At(c, "lookup") /\ call'[c].from = "cache" =>
       \E e \in ToSet(store) : e.prompt = Prompt(c) /\ (Ttl = 0 \/ now - e.at <= Ttl)
  /\ \A i, j \in DOMAIN store :
       i < j /\ store[i] \in ToSet(store') /\ store[j] \notin ToSet(store')
       => \/ \E c \in Calls : Prompt(c) = store[j].prompt /\ call'[c].pc # call[c].pc
          \/ Expired(store[j])
===============================================================================
