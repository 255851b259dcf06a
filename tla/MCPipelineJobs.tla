--------------------------- MODULE MCPipelineJobs ----------------------------
(* Small instances of PipelineJobs. *)
EXTENDS PipelineJobs

CONSTANTS j1, j2, e1, e2

\* _MODE_STAGES of stage_registry.py.
MCStagesOf ==
  [m \in {"full", "parse-only", "triage-only"} |->
     CASE m = "full" -> <<"acquisition", "parsing", "ai_triage", "reporting",
                          "evaluation">>
       [] m = "parse-only" -> <<"acquisition", "parsing">>
       [] m = "triage-only" -> <<"ai_triage">>]

AllModes  == DOMAIN MCStagesOf
TwoModes  == {"parse-only", "triage-only"}
ParseOnly == {"parse-only"}
StagesFor(ms) == [m \in ms |-> MCStagesOf[m]]
StagesTwo   == StagesFor(TwoModes)
StagesParse == StagesFor(ParseOnly)
==============================================================================
