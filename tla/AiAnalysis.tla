------------------------------ MODULE AiAnalysis ------------------------------
(***************************************************************************)
(* What the AI engine makes of the artefacts of one evidence item and of   *)
(* the words of the model (src/src/dfat/ai_engine/): the choice of the     *)
(* analyser (selector.py), LocalLLMClient.analyze_async (analyzer.py) with *)
(* its batches, classification parser, validator and ranker, the cut of a  *)
(* prompt to the context window (optimization.py), and the confidence in   *)
(* an answer (investigator_qa.py, hallucination_guard.py).                 *)
(*                                                                         *)
(* The model may say anything: items about artefacts of another batch or   *)
(* about none, twice, with levels and scores it made up, or nothing. Sizes *)
(* are in tokens, scores in tenths, confidences in hundredths.             *)
(***************************************************************************)
EXTENDS Integers, Sequences, FiniteSets, SequencesExt

CONSTANTS
  Sets,        \* artefact sets: sequences of [id, category, size, rule]; rule is a
               \* score in tenths or NoScore
  Replies,     \* [form, items]: items are [id, level, reason]
  Scores,      \* partial functions from ids to the ranking scores it may give
  NoScore,
  BatchTokens, \* max_tokens_per_batch
  Prompts,     \* [prefix, blocks, suffix, budget]; a block is [rank, size]
  Answers      \* [refs, unsure, ids, terms, claims]: counts of an answer's text

VARIABLES task, state
vars == <<task, state>>

Levels == 0..4                       \* critical .. informational
Informational == 4
Unclassified == [level |-> Informational, said |-> FALSE]

IdsOf(s) == {s[i].id : i \in DOMAIN s}
SizeOf(s) == SumFunction([i \in DOMAIN s |-> s[i].size])
LowerOf(x, y) == IF x < y THEN x ELSE y
Clamp(x, low, high) == IF x < low THEN low ELSE LowerOf(x, high)

\* The ways to put the places of key in the order of their keys.
Orders(key) ==
  LET n == 1..Cardinality(DOMAIN key)
  IN {order \in [n -> DOMAIN key] : \A i, j \in n : i < j => order[i] # order[j] /\ key[order[i]] <= key[order[j]]}

Init ==
  \/ task = "analyse" /\ \E s \in Sets :
       state = [phase |-> "select", artefacts |-> s, batches |-> <<>>, collected |-> <<>>,
                named |-> {}, ranked |-> <<>>, flagged |-> FALSE]
  \/ task = "prompt" /\ \E p \in Prompts : state = [phase |-> "select", in |-> p, kept |-> <<>>]
  \/ task = "answer" /\ \E a \in Answers :
       state = [phase |-> "select", in |-> a, risk |-> "low", score |-> 0]

In(what, phase) == task = what /\ state.phase = phase

-----------------------------------------------------------------------------
(* analyze_async                                                           *)

\* create_batches: by category, those of a category in the order they came, then
\* greedily; an artefact too large for a batch is one of its own.
Pack(acc, a) ==
  LET candidate == Append(acc.current, a)
  IN IF acc.current # <<>> /\ SizeOf(candidate) > BatchTokens
     THEN LET done == Append(acc.done, acc.current)
          IN IF a.size > BatchTokens THEN [done |-> Append(done, <<a>>), current |-> <<>>]
                                     ELSE [done |-> done, current |-> <<a>>]
     ELSE [done |-> acc.done, current |-> candidate]
CreateBatches(s) ==
  LET order == CHOOSE o \in Orders([i \in DOMAIN s |-> Len(s) * s[i].category + i]) : TRUE
      packed[n \in 0..Len(s)] ==
        IF n = 0 THEN [done |-> <<>>, current |-> <<>>] ELSE Pack(packed[n - 1], s[order[n]])
      last == packed[Len(s)]
  IN IF last.current = <<>> THEN last.done ELSE Append(last.done, last.current)

\* select_analyzer, then is_available() again at the head of analyze_async: the
\* model is healthy, down with the fallback enabled, or down without it (or from
\* one look to the next: LLMConnectionError).
Select ==
  /\ In("analyse", "select")
  /\ \/ state' = [state EXCEPT !.phase = "classify", !.batches = CreateBatches(state.artefacts)]
     \/ state' = [state EXCEPT !.phase = "rules"]
     \/ state' = [state EXCEPT !.phase = "unavailable"]
  /\ UNCHANGED task

\* _extract_json and the strategies of LLMResponseParser: a whole array, fenced,
\* nested or with its bracket missing, is read; so are objects on lines of their
\* own; an array cut inside an item is not mended (the bracket is added before the
\* brace), nor is prose.
Readable == {"array", "fenced", "nested", "unclosed", "lines"}
Extracted(reply) == IF reply.form \in Readable THEN reply.items ELSE <<>>

\* ClassificationResponseParser.parse: an item counts when it names an artefact
\* of the batch, the last one of an artefact wins; without a reason, or with an
\* unknown level, it is INFORMATIONAL.
KnownItems(items, batch) == {i \in DOMAIN items : items[i].id \in IdsOf(batch)}
LevelOf(item) == IF item.reason /\ item.level \in Levels THEN item.level ELSE Informational
\* Every other artefact of the batch is "Not classified by AI".
Missing(known, batch) == IdsOf(batch) \ known
ParseBatch(items, batch) ==
  LET places == KnownItems(items, batch)
      known  == {items[i].id : i \in places}
      last(id) == CHOOSE i \in places : items[i].id = id /\ \A j \in places : items[j].id = id => j <= i
  IN [id \in Missing(known, batch) \cup known |->
        IF id \in known THEN [level |-> LevelOf(items[last(id)]), said |-> TRUE] ELSE Unclassified]

NoReply == [form |-> "prose", items |-> <<>>]

\* A batch whose call fails is parsed as an empty text.
ClassifyBatch ==
  /\ In("analyse", "classify") /\ state.batches # <<>>
  /\ \E reply \in Replies \cup {NoReply} :
       LET items  == Extracted(reply)
           result == ParseBatch(items, Head(state.batches))
       IN state' = [state EXCEPT
            !.batches = Tail(@),
            !.named = @ \cup IdsOf(reply.items),
            !.collected = [id \in DOMAIN @ \cup DOMAIN result |->
                             IF id \in DOMAIN result THEN result[id] ELSE @[id]]]
  /\ UNCHANGED task

\* validate_classification with the guard of the container, which knows no
\* artefact: whatever id the text of a reply names counts as hallucinated.
GuardKnows == {}
Validate ==
  /\ In("analyse", "classify") /\ state.batches = <<>>
  /\ state' = [state EXCEPT !.phase = "rank", !.flagged = state.named \ GuardKnows # {}]
  /\ UNCHANGED task

\* _merge_scores: 0.4 of the model's score, 0.6 of the rule's, in hundredths.
MergeScores(llm, rule) ==
  IF rule = NoScore
  THEN IF llm = NoScore THEN 0 ELSE 10 * llm
  ELSE Clamp(IF llm = NoScore THEN 10 * rule ELSE 4 * llm + 6 * rule, 0, 100)

\* RankingResponseParser.parse clamps and keeps only classified ids; rank()
\* leaves out a classification without its artefact, and ties come in the order
\* of the answers, which is left open here.
Rankings(artefacts, collected, scores) ==
  LET kept == {i \in DOMAIN artefacts : artefacts[i].id \in DOMAIN collected}
      llm(id) == IF id \in DOMAIN scores THEN Clamp(scores[id], 0, 10) ELSE NoScore
      item == [i \in kept |-> [id |-> artefacts[i].id, level |-> collected[artefacts[i].id].level,
                               score |-> MergeScores(llm(artefacts[i].id), artefacts[i].rule)]]
  IN {[n \in DOMAIN order |-> item[order[n]]] :
        order \in Orders([i \in kept |-> 1000 * item[i].level - item[i].score])}

Rank ==
  /\ In("analyse", "rank")
  /\ \E scores \in Scores : \E r \in Rankings(state.artefacts, state.collected, scores) :
       state' = [state EXCEPT !.phase = "done", !.ranked = r]
  /\ UNCHANGED task

\* RuleBasedAnalyzer: every artefact by its rule score alone.
RankByRules ==
  /\ In("analyse", "rules")
  /\ \E level \in [IdsOf(state.artefacts) -> {0, Informational}] :
     \E r \in Rankings(state.artefacts, [id \in DOMAIN level |-> [level |-> level[id], said |-> FALSE]], <<>>) :
       state' = [state EXCEPT !.phase = "done", !.ranked = r]
  /\ UNCHANGED task

-----------------------------------------------------------------------------
(* optimize_for_context_window                                             *)

\* _least_suspicious_bottom_index: the last block of the worst rank.
DropIndex(blocks) ==
  CHOOSE i \in DOMAIN blocks : \A j \in DOMAIN blocks :
    blocks[j].rank < blocks[i].rank \/ (blocks[j].rank = blocks[i].rank /\ j <= i)

Optimized(p) ==
  LET fixed  == p.prefix + p.suffix
      left[k \in 0..Len(p.blocks)] ==
        IF k = 0 THEN p.blocks ELSE RemoveAt(left[k - 1], DropIndex(left[k - 1]))
      fits(k) == fixed + SizeOf(left[k]) <= p.budget
  IN IF fits(0) THEN p.blocks
     ELSE IF fixed >= p.budget THEN <<>>
     ELSE left[CHOOSE k \in DOMAIN left : fits(k) /\ \A j \in DOMAIN left : fits(j) => k <= j]

Optimize ==
  /\ In("prompt", "select")
  /\ state' = [state EXCEPT !.phase = "done", !.kept = Optimized(state.in)]
  /\ UNCHANGED task

-----------------------------------------------------------------------------
(* check_response, _score_answer                                           *)

\* _assess_risk.
Risk(a) ==
  LET score == 2 * a.ids + a.terms + a.claims
  IN IF score >= 4 \/ a.ids >= 2 THEN "high"
     ELSE IF score >= 2 \/ a.ids > 0 \/ a.claims > 0 \/ a.terms > 0 THEN "medium"
     ELSE "low"

AnswerScore(a) ==
  LET base   == 40 + LowerOf(30, 10 * a.refs) - (IF a.unsure THEN 10 ELSE 0)
      capped == CASE Risk(a) = "high"   -> LowerOf(base, 30)
                  [] Risk(a) = "medium" -> LowerOf(base, 55)
                  [] OTHER              -> base + 15
  IN Clamp(capped - 15 * a.ids, 0, 100)

Check ==
  /\ In("answer", "select")
  /\ state' = [state EXCEPT !.phase = "done", !.risk = Risk(state.in), !.score = AnswerScore(state.in)]
  /\ UNCHANGED task

Next == Select \/ ClassifyBatch \/ Validate \/ Rank \/ RankByRules \/ Optimize \/ Check
Spec == Init /\ [][Next]_vars

-----------------------------------------------------------------------------
\* No artefact is lost between the batches and the ranking, none is invented, and
\* none comes twice, whatever the model said; the list is in order of suspicion
\* and then of the score; an artefact the model did not name is INFORMATIONAL.
NothingLost ==
  In("analyse", "done") =>
    LET r == state.ranked IN
    /\ Len(r) = Len(state.artefacts) /\ IdsOf(r) = IdsOf(state.artefacts)
    /\ \A i, j \in DOMAIN r : i < j =>
         r[i].level < r[j].level \/ (r[i].level = r[j].level /\ r[i].score >= r[j].score)
    /\ \A i \in DOMAIN r :
         /\ r[i].score \in 0..100
         /\ r[i].id \in DOMAIN state.collected /\ ~state.collected[r[i].id].said
            => r[i].level = Informational

\* The batches hold every artefact once, and only a single artefact exceeds the
\* limit of a batch.
BatchesSound ==
  In("analyse", "select") =>
    LET all == CreateBatches(state.artefacts) IN
    /\ \A i \in DOMAIN all : SizeOf(all[i]) <= BatchTokens \/ Len(all[i]) = 1
    /\ SumFunction([i \in DOMAIN all |-> Len(all[i])]) = Len(state.artefacts)
    /\ UNION {IdsOf(all[i]) : i \in DOMAIN all} = IdsOf(state.artefacts)

\* A prompt that was cut fits its window unless its fixed parts do not, and what
\* was left out is never more suspicious than what was kept.
CutKeepsSuspicious ==
  In("prompt", "done") =>
    LET p == state.in  k == state.kept
        count(s, r) == Cardinality({i \in DOMAIN s : s[i].rank = r})
    IN /\ p.prefix + p.suffix + SizeOf(k) <= p.budget \/ k = <<>>
       /\ \A r, q \in Levels :
            count(k, r) < count(p.blocks, r) /\ q > r => count(k, q) = 0

\* An answer is trusted less the more ids it invents, and never beyond the cap of
\* its risk.
ConfidenceHonest ==
  In("answer", "done") =>
    /\ state.score <= (CASE state.risk = "high" -> 30 [] state.risk = "medium" -> 55 [] OTHER -> 85)
    /\ state.score >= 0
    /\ AnswerScore([state.in EXCEPT !.ids = @ + 1]) <= state.score

\* Sizes, budgets and counts are numbers, and a missing score is none a model gives.
Block == [rank : Levels, size : Nat]
Sensible ==
  /\ BatchTokens \in Nat /\ NoScore \in Int \ (0..10)
  /\ \A s \in Sets :
       /\ Len(s) \in Nat /\ DOMAIN s = 1..Len(s)
       /\ \A i \in DOMAIN s : s[i].category \in Nat /\ s[i].size \in Nat /\ s[i].rule \in Int
  /\ \A scores \in Scores : \A id \in DOMAIN scores : scores[id] \in Int
  /\ Prompts \subseteq [prefix : Nat, suffix : Nat, budget : Int, blocks : Seq(Block)]
  /\ Answers \subseteq [refs : Nat, unsure : BOOLEAN, ids : Nat, terms : Nat, claims : Nat]

AnalysisInv == NothingLost /\ BatchesSound /\ CutKeepsSuspicious /\ ConfidenceHonest
===============================================================================
