------------------------------- MODULE Parsing -------------------------------
(***************************************************************************)
(* The parsing stage of a pipeline job (pipeline/stages/parsing_stage.py): *)
(* parsers run one after the other, each in a thread of the shared pool    *)
(* and under a timeout that gives the thread up but cannot stop it. Disk   *)
(* parsers walk a file system, copy files into a temporary directory and   *)
(* read them; memory parsers run plugins with a timeout of their own,      *)
(* which reports only when the plugin's thread has ended (asyncio.run      *)
(* joins it). Artefacts are known by their thread and their number.        *)
(***************************************************************************)
EXTENDS Naturals, Sequences, FiniteSets, Functions

CONSTANTS
  Jobs,
  Plans,         \* what the jobs run: functions from Jobs to sequences of
                 \* parsers: "filesystem", "registry", "browser", "eventlog", "memory"
  Images,        \* file systems: functions from directories to sequences of entries
                 \* [inode, kind, wanted, records], "wanted" the parser that
                 \* looks for its path; 0 is the root
  Workers,       \* threads of the pool
  MaxArtefacts,  \* max_artefacts of a parser
  MaxDepth,      \* depth of a walk
  MaxParsers,    \* parsers in a plan
  Plugins        \* of a memory parser, in order: [optional]

VARIABLES stage, plan, image, thread, queue, progress

vars == <<stage, plan, image, thread, queue, progress>>

FileParsers == {"registry", "browser", "eventlog"}
Least(a, b) == IF a < b THEN a ELSE b
Idle == [pc |-> "none", handle |-> "none", dir |-> FALSE, files |-> {}, listed |-> {},
         todo |-> <<>>, got |-> 0, plugin |-> 1, late |-> FALSE, given |-> FALSE]
Threads == Jobs \X (1..MaxParsers)

\* Only evidence that some parser can read reaches the stage.
Init ==
  /\ plan \in Plans /\ image \in [Jobs -> Images]
  /\ stage = [j \in Jobs |-> [pc |-> "ready", results |-> <<>>, artefacts |-> {}]]
  /\ thread = [t \in Threads |-> Idle] /\ queue = <<>>
  /\ progress = [j \in Jobs |-> [current |-> 0, done |-> 0, count |-> Len(plan[j]), found |-> 0]]

-----------------------------------------------------------------------------
(* Reading a file system                                                   *)

\* _to_file_entry; "wanted" is the parser that looks for the path.
Entry ==
  [inode : Nat, kind : {"file", "directory", "deleted", "unknown"}, wanted : FileParsers \cup {"none"}, records : Nat]

\* An inode is listed once, an entry without one every time.
Known(listed, e) == e.inode # 0 /\ \E m \in DOMAIN listed : listed[m].inode = e.inode

\* One more entry; "below" are the walks of the directories one level further down.
Enter(below, listed, e) ==
  CASE Known(listed, e) -> listed
    [] ~Known(listed, e) /\ e.kind = "directory" /\ e.inode \in DOMAIN below -> below[e.inode][Append(listed, e)]
    [] OTHER -> Append(listed, e)

\* The entries of a directory after what is listed already.
Through(entries, below, listed) ==
  LET past[n \in 0..Len(entries)] == IF n = 0 THEN listed ELSE Enter(below, past[n - 1], entries[n])
  IN past[Len(entries)]

\* Entries in the order of the walk; at the last level no directory is entered.
Walk(fs) ==
  LET from[room \in 0..MaxDepth] ==
        [dir \in DOMAIN fs |-> [listed \in Seq(Entry) |->
           Through(fs[dir], IF room = 0 THEN <<>> ELSE from[room - 1], listed)]]
  IN from[MaxDepth][0][<<>>]

\* The entries whose path the file parser looks for.
Wanted(found, e, parser) ==
  IF e.kind \in {"file", "deleted"} /\ e.wanted = parser THEN Append(found, e) ELSE found
Located(fs, parser) ==
  LET found[n \in 0..Len(Walk(fs))] == IF n = 0 THEN <<>> ELSE Wanted(found[n - 1], Walk(fs)[n], parser)
  IN found[Len(Walk(fs))]

\* Room left under the limit of the parser.
Remaining(t) == MaxArtefacts - thread[t].got

-----------------------------------------------------------------------------
(* A parser in its thread                                                  *)

Parser(t) == plan[t[1]][t[2]]
Set(t, change) == thread' = [thread EXCEPT ![t] = change]
Kept == UNCHANGED <<stage, plan, image, queue, progress>>

Running == {t \in Threads : thread[t].pc \notin {"none", "queued", "returned", "raised"}}

\* The pool takes the oldest call that still waits.
StartThread(t) ==
  /\ queue # <<>> /\ t = Head(queue) /\ Cardinality(Running) < Workers
  /\ queue' = Tail(queue)
  /\ Set(t, [thread[t] EXCEPT !.pc = IF Parser(t) = "memory" THEN "plugin" ELSE "open"])
  /\ UNCHANGED <<stage, plan, image, progress>>

\* open_image, after the libraries were imported. A file parser makes its temporary
\* directory next; when that fails the image is left open.
Open(t) ==
  /\ thread[t].pc = "open"
  /\ \/ Set(t, [thread[t] EXCEPT !.pc = "raised"])
     \/ Set(t, [thread[t] EXCEPT !.pc = "walk", !.handle = "open", !.dir = Parser(t) \in FileParsers])
     \/ Parser(t) \in FileParsers /\ Set(t, [thread[t] EXCEPT !.pc = "raised", !.handle = "open"])
  /\ Kept

\* get_filesystem and the walk; the file system parser keeps what it walks.
WalkImage(t) ==
  LET fs == image[t[1]] IN
  /\ thread[t].pc = "walk"
  /\ \/ Set(t, [thread[t] EXCEPT !.pc = "close_raise"])
     \/ /\ Parser(t) = "filesystem"
        /\ Set(t, [thread[t] EXCEPT !.pc = "close", !.got = Least(Len(Walk(fs)), MaxArtefacts)])
     \/ /\ Parser(t) \in FileParsers
        /\ Set(t, [thread[t] EXCEPT !.pc = "extract", !.todo = Located(fs, Parser(t))])
  /\ Kept

\* extract_file_to_temp: copied, not readable, or broken off with the copy left
\* behind, of which the parser then knows nothing.
Extract(t) ==
  LET th == thread[t]  e == Head(th.todo) IN
  /\ th.pc = "extract"
  /\ IF th.todo = <<>> \/ Remaining(t) = 0
     THEN Set(t, [th EXCEPT !.pc = "close"])
     ELSE \/ Set(t, [th EXCEPT !.todo = Tail(@)])
          \/ Set(t, [th EXCEPT !.todo = Tail(@), !.files = @ \cup {e.inode}])
          \/ Set(t, [th EXCEPT !.pc = "read", !.files = @ \cup {e.inode}, !.listed = @ \cup {e.inode}])
  /\ Kept

\* The parser reads the copy of the next file and adds what it yields: by the
\* largest number it may add, the numbers it may.
Reads(t, parser, yields) ==
  LET th == thread[t] IN
  /\ th.pc = "read" /\ Parser(t) = parser
  /\ \E n \in yields[Least(Head(th.todo).records, Remaining(t))] :
       Set(t, [th EXCEPT !.pc = "extract", !.todo = Tail(@), !.got = @ + n])
  /\ Kept

\* What a hive yielded before an error is kept; of a database the rows are kept
\* together or not at all; records of a log that cannot be read are left out.
UpTo == [most \in 0..MaxArtefacts |-> 0..most]
AllOrNone == [most \in 0..MaxArtefacts |-> {0, most}]
ReadHive(t) == Reads(t, "registry", UpTo)
ReadDatabase(t) == Reads(t, "browser", AllOrNone)
ReadLog(t) == Reads(t, "eventlog", UpTo)

\* _cleanup_temps: the files that are listed, then whatever keeps the directory
\* from being removed.
Left(th) == {}
Close(t) ==
  LET th == thread[t] IN
  /\ th.pc \in {"close", "close_raise"}
  /\ Set(t, [th EXCEPT !.pc = IF th.pc = "close" THEN "returned" ELSE "raised", !.handle = "closed",
                       !.files = Left(th), !.dir = Left(th) # {}])
  /\ Kept

\* The plugin's timeout cancels the wait, not the plugin.
PluginTimesOut(t) ==
  /\ thread[t].pc = "plugin" /\ ~thread[t].late
  /\ Set(t, [thread[t] EXCEPT !.late = TRUE])
  /\ Kept

\* run_plugin gives rows or fails.
PluginOutcomes == {[ok |-> TRUE, rows |-> n] : n \in 0..MaxArtefacts + 1} \cup {[ok |-> FALSE, rows |-> 0]}

\* The rows of the first plugin become artefacts; the second only adds names, and
\* may fail.
AfterPlugin(th, outcome) ==
  LET ok == outcome.ok /\ ~th.late
      next == [th EXCEPT !.late = FALSE, !.plugin = @ + 1,
                         !.got = IF th.plugin = 1 /\ ok THEN Least(outcome.rows, MaxArtefacts) ELSE @]
  IN IF ~ok /\ ~Plugins[th.plugin].optional THEN [th EXCEPT !.pc = "raised"]
     ELSE IF next.plugin > Len(Plugins) THEN [next EXCEPT !.pc = "returned"]
     ELSE next

PluginEnds(t) ==
  /\ thread[t].pc = "plugin"
  /\ \E outcome \in PluginOutcomes : Set(t, AfterPlugin(thread[t], outcome))
  /\ Kept

-----------------------------------------------------------------------------
(* The stage                                                               *)

Current(j) == <<j, Len(stage[j].results) + 1>>

\* start_parser and the call in a thread.
StartParser(j) ==
  LET t == Current(j) IN
  /\ stage[j].pc = "ready" /\ t[2] <= Len(plan[j])
  /\ stage' = [stage EXCEPT ![j].pc = "waiting"]
  /\ queue' = Append(queue, t)
  /\ Set(t, [thread[t] EXCEPT !.pc = "queued"])
  /\ progress' = [progress EXCEPT ![j].current = t[2]]
  /\ UNCHANGED <<plan, image>>

Recorded(j, result, found) ==
  /\ stage' = [stage EXCEPT ![j].pc = "ready", ![j].results = Append(@, result)]
  /\ progress' = [progress EXCEPT ![j].done = @ + 1, ![j].found = @ + found,
                                  ![j].current = 0]
  /\ UNCHANGED <<plan, image>>

\* complete_parser or fail_parser when the thread answers.
ParserReturns(j) ==
  LET th == thread[Current(j)] IN
  /\ stage[j].pc = "waiting"
  /\ \/ th.pc = "returned" /\ Recorded(j, "completed", th.got)
     \/ th.pc = "raised" /\ Recorded(j, "failed", 0)
  /\ UNCHANGED <<thread, queue>>

\* The queue after a call in it was cancelled; it holds a call once.
Without(calls, t) ==
  IF t \notin Range(calls) THEN calls
  ELSE LET at == CHOOSE n \in DOMAIN calls : calls[n] = t
       IN [n \in 1..(Len(calls) - 1) |-> IF n < at THEN calls[n] ELSE calls[n + 1]]

\* wait_for gives up: a call not yet started is cancelled, a thread goes on.
ParserTimesOut(j) ==
  LET t == Current(j) IN
  /\ stage[j].pc = "waiting" /\ thread[t].pc \notin {"returned", "raised"}
  /\ Recorded(j, "failed", 0)
  /\ queue' = Without(queue, t)
  /\ Set(t, [thread[t] EXCEPT !.given = TRUE, !.pc = IF @ = "queued" THEN "none" ELSE @])

\* normalize merges the sets of the parsers that completed. The progress of the
\* stage is complete either way.
Artefacts(t) == {<<t, n>> : n \in 1..thread[t].got}
Successful(j) == {n \in 1..Len(plan[j]) : stage[j].results[n] = "completed"}
EndStage(j) ==
  /\ stage[j].pc = "ready" /\ Len(stage[j].results) = Len(plan[j])
  /\ stage' = [stage EXCEPT ![j].pc = IF Successful(j) = {} THEN "failed" ELSE "completed",
                            ![j].artefacts = UNION {Artefacts(<<j, n>>) : n \in Successful(j)}]
  /\ progress' = [progress EXCEPT ![j].done = progress[j].count, ![j].current = 0]
  /\ UNCHANGED <<plan, image, thread, queue>>

StageSteps(j) == StartParser(j) \/ ParserReturns(j) \/ ParserTimesOut(j) \/ EndStage(j)
ThreadSteps(t) ==
  \/ StartThread(t) \/ Open(t) \/ WalkImage(t) \/ Extract(t) \/ ReadHive(t)
  \/ ReadDatabase(t) \/ ReadLog(t) \/ Close(t) \/ PluginTimesOut(t) \/ PluginEnds(t)
Next == (\E j \in Jobs : StageSteps(j)) \/ (\E t \in Threads : ThreadSteps(t))

\* The event loop takes every step of a stage, timeouts among them; a parser may
\* hang for ever.
Spec == Init /\ [][Next]_vars /\ \A j \in Jobs : WF_vars(StageSteps(j))

-----------------------------------------------------------------------------
Ended(j) == stage[j].pc \in {"completed", "failed"}

TypeOK ==
  /\ \A j \in Jobs : stage[j].pc \in {"ready", "waiting", "completed", "failed"}
                     /\ progress[j].current \in 0..Len(plan[j])
  /\ \A t \in Threads : thread[t].got \in 0..MaxArtefacts

\* What a stage hands on was found by parsers that answered in time, and by no
\* other thread, however late it returns; a stage fails only when none answered.
OnlyInTime ==
  \A j \in Jobs : Ended(j) =>
    /\ stage[j].artefacts = {a \in UNION {Artefacts(t) : t \in Threads} :
                               a[1][1] = j /\ ~thread[a[1]].given /\ thread[a[1]].pc = "returned"}
    /\ stage[j].pc = "failed" <=> \A n \in 1..Len(plan[j]) :
                                    thread[<<j, n>>].given \/ thread[<<j, n>>].pc = "raised"

\* The numbers the client sees are those of the parsers that completed.
ProgressAgrees ==
  \A j \in Jobs :
    /\ progress[j].done <= progress[j].count
    /\ Ended(j) => progress[j].done = progress[j].count /\ progress[j].current = 0
                   /\ progress[j].found = Cardinality(stage[j].artefacts)

\* A thread that has ended, given up or not, leaves no file and no directory
\* behind, and leaves the image open only if it could not make its directory.
NothingLeft ==
  \A t \in Threads : thread[t].pc \in {"returned", "raised"} =>
    /\ thread[t].files = {} /\ ~thread[t].dir
    /\ thread[t].handle = "open" => Parser(t) \in FileParsers /\ thread[t].pc = "raised"

\* A walk ends on every image, cycles included, and lists no inode twice.
WalkListsOnce ==
  \A fs \in Images : \A m, n \in DOMAIN Walk(fs) :
    m # n => Walk(fs)[m].inode # Walk(fs)[n].inode \/ Walk(fs)[m].inode = 0

\* Every image has a root, every plan fits, and a memory parser runs some plugin.
Sensible ==
  /\ MaxArtefacts \in Nat /\ MaxDepth \in Nat /\ MaxParsers \in Nat
  /\ Plans \subseteq [Jobs -> Seq(FileParsers \cup {"filesystem", "memory"})]
  /\ \A p \in Plans, j \in Jobs : Len(p[j]) <= MaxParsers
  /\ \A fs \in Images : 0 \in DOMAIN fs /\ fs \in [DOMAIN fs -> Seq(Entry)]
  /\ Plugins \in Seq([optional : BOOLEAN]) /\ Plugins # <<>>

ParsingSafe == TypeOK /\ OnlyInTime /\ ProgressAgrees /\ NothingLeft /\ WalkListsOnce

\* What the stage decided of each parser; of one that answered, what its thread found.
Decided(j) ==
  [n \in DOMAIN stage[j].results |->
     IF stage[j].results[n] = "completed" THEN [ok |-> TRUE, found |-> thread[<<j, n>>].got] ELSE [ok |-> FALSE, found |-> 0]]
Handed(j) == {[parser |-> a[1][2], number |-> a[2]] : a \in stage[j].artefacts}
Outcome == INSTANCE ParsingOutcome WITH
  planned <- [j \in Jobs |-> Len(plan[j])],
  decided <- [j \in Jobs |-> Decided(j)],
  verdict <- [j \in Jobs |-> IF Ended(j) THEN stage[j].pc ELSE "running"],
  handed <- [j \in Jobs |-> Handed(j)],
  shown <- [j \in Jobs |-> [done |-> progress[j].done, found |-> progress[j].found]]

\* Each parser is decided once and for all, whatever threads that were given up do
\* later, and the client's numbers follow the decisions one by one.
ImplementsOutcome == Outcome!Spec

\* Every stage ends, even when every thread of the pool is held by parsers that
\* were given up.
AllEnded == \A j \in Jobs : Ended(j)
StagesEnd == <>[]AllEnded
=============================================================================
