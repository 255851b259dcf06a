------------------------------- MODULE Wiring --------------------------------
(***************************************************************************)
(* How the objects of the program come into being: the dependency          *)
(* container of src/src/dfat/container.py, built by                        *)
(* build_application_container, filled while the application starts        *)
(* (app.py) and asked for objects by every request                         *)
(* (api/dependencies.py). The graph of providers is a parameter; that of   *)
(* the repository is in Containers.                                        *)
(*                                                                         *)
(* A Singleton provider makes its object at the first request for it and   *)
(* keeps it; a Factory makes a new one every time. To make an object the   *)
(* provider first asks for everything the object needs, so a thread is in  *)
(* the middle of a stack of objects under construction. providers.         *)
(* Singleton takes no lock: between its look at its storage and its store  *)
(* another thread may look too. The dependencies of FastAPI routes are     *)
(* plain functions, which it runs in worker threads.                       *)
(***************************************************************************)
EXTENDS Naturals, Sequences

CONSTANTS
  Providers, \* the providers, by name
  Shared,    \* those that are Singletons
  Needs,     \* what the constructor of each takes: providers and ports
  Ports,     \* dependencies that are plugged after the containers are built
  Default,   \* what a port stands for before, and after if it is left alone
  Late,      \* what it is overridden with
  Optional,  \* ports that are overridden only if the settings say so
  Script,    \* what the main thread does until the application serves
  Main,      \* the thread of the event loop
  Workers,   \* the threads that run the dependencies of routes
  Routes,    \* what requests ask for
  Rank,      \* a numbering in which every provider comes after what it needs
  MaxAsks    \* bound on the requests of each thread

Threads == Workers \cup {Main}
Names   == Providers \cup Ports

VARIABLES
  wanted,  \* the optional ports that the settings want overridden
  pos,     \* how far the main thread is in the script
  slot,    \* what each Singleton keeps: an object, or Nothing
  objects, \* per thread, the objects it has made: their provider and what they hold
  stack,   \* per thread: the objects under construction
  handed,  \* what the requests of each thread were given
  booted,  \* history: how many objects the main thread made before serving
  raced    \* history: Singletons that two threads were constructing at once

vars == <<wanted, pos, slot, objects, stack, handed, booted, raced>>

\* An object is the n-th that its thread has made.
Nothing == <<Main, 0>>
Made    == UNION {{<<t, n>> : n \in DOMAIN objects[t]} : t \in Threads}
Of(o)   == objects[o[1]][o[2]].of
Has(o)  == objects[o[1]][o[2]].has
Booted(o) == o[1] = Main /\ o[2] \in 1..booted

\* The script is over when the last object it asks for is made.
Serving == pos > Len(Script) + 1

\* What a name stands for: a port, what it is plugged with by now.
BadPlugged(d) == \E i \in DOMAIN Script : i < pos /\ Script[i] = [do |-> "plug", what |-> d]
Plugged(d) ==
  /\ \E i \in DOMAIN Script : i < pos /\ Script[i] = [do |-> "plug", what |-> d]
  /\ d \in Optional => d \in wanted
Target(d) == IF d \notin Ports THEN d ELSE IF Plugged(d) THEN Late[d] ELSE Default[d]

\* And what it should stand for in everything that is ever made.
Final(d) ==
  IF d \notin Ports THEN d
  ELSE IF d \in Optional \ wanted THEN Default[d] ELSE Late[d]

\* The graph has no cycle, and until the last port is plugged the script asks
\* only for what needs nothing.
ASSUME WiringAssumption ==
  /\ Shared \subseteq Providers /\ Routes \subseteq Providers
  /\ Providers \cap Ports = {} /\ Optional \subseteq Ports
  /\ Needs \in [Providers -> SUBSET Names]
  /\ Default \in [Ports -> Providers] /\ Late \in [Ports -> Providers]
  /\ Script \in Seq([do : {"plug"}, what : Ports] \cup [do : {"get"}, what : Providers])
  /\ Rank \in [Providers -> Nat]
  /\ \A p \in Providers : \A d \in Needs[p] :
       /\ d \notin Ports => Rank[d] < Rank[p]
       /\ d \in Ports => Rank[Default[d]] < Rank[p] /\ Rank[Late[d]] < Rank[p]
  /\ \A d \in Ports : \E i \in DOMAIN Script : Script[i] = [do |-> "plug", what |-> d]
  /\ \A i, j \in DOMAIN Script :
       i < j /\ Script[i].do = "get" /\ Script[j].do = "plug" => Needs[Script[i].what] = {}
  /\ Main \notin Workers /\ MaxAsks \in Nat

Init ==
  /\ wanted \in SUBSET Optional /\ pos = 1
  /\ slot = [p \in Shared |-> Nothing]
  /\ objects = [t \in Threads |-> <<>>]
  /\ booted = 0 /\ raced = {}
  /\ stack = [t \in Threads |-> <<>>]
  /\ handed = [t \in Threads |-> <<>>]

Idle(t)    == stack[t] = <<>>
Top(t)     == stack[t][Len(stack[t])]
Below(t)   == SubSeq(stack[t], 1, Len(stack[t]) - 1)
Missing(t) == Needs[Top(t).of] \ DOMAIN Top(t).has
BadKept(p) == p \in Shared /\ slot[p] # Nothing /\ ~Serving
Kept(p)    == p \in Shared /\ slot[p] # Nothing
Answer(t, p, o) == handed' = [handed EXCEPT ![t] = Append(@, [of |-> p, is |-> o])]

\* A thread begins to make an object, as the part d of the one below it, if any.
Open(p, t) == \E i \in DOMAIN stack[t] : stack[t][i].of = p
Begin(t, p, d) ==
  /\ stack' = [stack EXCEPT ![t] = Append(@, [of |-> p, as |-> d, has |-> <<>>])]
  /\ raced' = raced \cup {q \in Shared \cap {p} : \E u \in Threads \ {t} : Open(p, u)}

\* The object under construction on top of a stack is given one more part.
Give(s, d, o) ==
  [s EXCEPT ![Len(s)].has = [e \in DOMAIN @ \cup {d} |-> IF e = d THEN o ELSE @[e]]]

-----------------------------------------------------------------------------
(* The main thread until the application serves                            *)

\* build_application_container: provider.override, if the settings want it.
Plug ==
  /\ pos <= Len(Script) /\ Script[pos].do = "plug" /\ Idle(Main)
  /\ pos' = pos + 1
  /\ UNCHANGED <<wanted, slot, objects, stack, handed, booted, raced>>

\* container.<provider>(): unless it is kept already, it has to be made.
Construct ==
  /\ pos <= Len(Script) /\ Script[pos].do = "get" /\ Idle(Main)
  /\ pos' = pos + 1
  /\ IF Kept(Script[pos].what) THEN UNCHANGED <<stack, raced>>
                               ELSE Begin(Main, Script[pos].what, Script[pos].what)
  /\ UNCHANGED <<wanted, slot, objects, handed, booted>>

\* The lifespan yields.
Serve ==
  /\ pos = Len(Script) + 1 /\ Idle(Main)
  /\ pos' = pos + 1 /\ booted' = Len(objects[Main])
  /\ UNCHANGED <<wanted, slot, objects, stack, handed, raced>>

-----------------------------------------------------------------------------
(* Requests, on every thread, and the making of objects                    *)

Ask(t, p) ==
  /\ Serving /\ Idle(t) /\ Len(handed[t]) < MaxAsks
  /\ IF Kept(p) THEN Answer(t, p, slot[p]) /\ UNCHANGED <<stack, raced>>
                ELSE Begin(t, p, p) /\ UNCHANGED handed
  /\ UNCHANGED <<wanted, pos, slot, objects, booted>>

\* The next part is kept by its provider, or has to be made first. The parts are
\* taken in the order in which the provider lists them: some fixed order.
Take(t) ==
  /\ ~Idle(t) /\ Missing(t) # {}
  /\ LET d == CHOOSE e \in Missing(t) : TRUE
         q == Target(d)
     IN IF Kept(q) THEN stack' = [stack EXCEPT ![t] = Give(@, d, slot[q])] /\ UNCHANGED raced
                   ELSE Begin(t, q, d)
  /\ UNCHANGED <<wanted, pos, slot, objects, handed, booted>>

\* The constructor returns; a Singleton stores what it has made, whatever another
\* thread may have stored since it looked.
BadMake(t) ==
  /\ ~Idle(t) /\ Missing(t) = {}
  /\ LET f == Top(t)
         o == <<t, Len(objects[t]) + 1>>
     IN /\ objects' = [objects EXCEPT ![t] = Append(@, [of |-> f.of, has |-> f.has])]
        /\ slot' = [p \in Shared |-> IF p = f.of /\ Len(stack[t]) = 1 THEN o ELSE slot[p]]
        /\ IF Len(stack[t]) = 1
           THEN /\ stack' = [stack EXCEPT ![t] = <<>>]
                /\ IF Serving THEN Answer(t, f.of, o) ELSE UNCHANGED handed
           ELSE /\ stack' = [stack EXCEPT ![t] = Give(Below(t), f.as, o)]
                /\ UNCHANGED handed
  /\ UNCHANGED <<wanted, pos, booted, raced>>
Make(t) ==
  /\ ~Idle(t) /\ Missing(t) = {}
  /\ LET f == Top(t)
         o == <<t, Len(objects[t]) + 1>>
     IN /\ objects' = [objects EXCEPT ![t] = Append(@, [of |-> f.of, has |-> f.has])]
        /\ slot' = [p \in Shared |-> IF p = f.of THEN o ELSE slot[p]]
        /\ IF Len(stack[t]) = 1
           THEN /\ stack' = [stack EXCEPT ![t] = <<>>]
                /\ IF Serving THEN Answer(t, f.of, o) ELSE UNCHANGED handed
           ELSE /\ stack' = [stack EXCEPT ![t] = Give(Below(t), f.as, o)]
                /\ UNCHANGED handed
  /\ UNCHANGED <<wanted, pos, booted, raced>>

\* A constructor raises: the request fails, what it had made is kept.
BadRaise(t) ==
  /\ Serving /\ ~Idle(t) /\ Missing(t) = {}
  /\ stack' = [stack EXCEPT ![t] = <<>>]
  /\ Answer(t, Top(t).of, Nothing)
  /\ UNCHANGED <<wanted, pos, slot, objects, booted, raced>>
Raise(t) ==
  /\ Serving /\ ~Idle(t) /\ Missing(t) = {}
  /\ stack' = [stack EXCEPT ![t] = <<>>]
  /\ Answer(t, stack[t][1].of, Nothing)
  /\ UNCHANGED <<wanted, pos, slot, objects, booted, raced>>

Boots == Plug \/ Construct \/ Serve
Works(t) == Take(t) \/ Make(t)
Next ==
  \/ Boots
  \/ \E t \in Threads : Works(t) \/ Raise(t) \/ \E p \in Routes : Ask(t, p)

Spec == Init /\ [][Next]_vars

-----------------------------------------------------------------------------
\* Every variable has its type.
TypeOK ==
  /\ wanted \in SUBSET Optional /\ pos \in 1..(Len(Script) + 2)
  /\ slot \in [Shared -> Made \cup {Nothing}] /\ raced \subseteq Shared
  /\ booted \in 0..Len(objects[Main])
  /\ \A o \in Made : Of(o) \in Providers
  /\ \A t \in Threads : \A i \in DOMAIN stack[t] :
       stack[t][i].of \in Providers /\ DOMAIN stack[t][i].has \subseteq Needs[stack[t][i].of]
  /\ \A t \in Threads : \A i \in DOMAIN handed[t] :
       handed[t][i].of \in Routes /\ handed[t][i].is \in Made \cup {Nothing}

\* Every object holds, for each thing its constructor takes, an object of the
\* provider that the fully plugged container names: none was made before the
\* overrides with a placeholder, the wrong analyser or no predictor.
WiredAsPlugged ==
  \A o \in Made : \A d \in Needs[Of(o)] :
    d \in DOMAIN Has(o) /\ Has(o)[d] \in Made /\ Of(Has(o)[d]) = Final(d)

\* What was made before serving began stays the one object of its Singleton, and
\* every request that asks for it is given that one, whatever the threads do.
BootedIsShared ==
  /\ \A o \in Made : Of(o) \in Shared /\ Booted(slot[Of(o)]) => o = slot[Of(o)]
  /\ \A o \in Made : Booted(o) /\ Of(o) \in Shared => slot[Of(o)] = o
  /\ \A t \in Threads : \A i \in DOMAIN handed[t] :
       LET p == handed[t][i].of
       IN p \in Shared /\ Booted(slot[p]) => handed[t][i].is \in {slot[p], Nothing}

\* Any other Singleton has a second object only if two threads were constructing
\* it at the same time; without that, what it keeps is all there is of it.
SecondOnlyIfRaced ==
  \A o \in Made : Of(o) \in Shared /\ Of(o) \notin raced => slot[Of(o)] = o

\* Once serving has begun, no Singleton made by then is ever stored anew.
BootedStays ==
  [][\A p \in Shared : Serving /\ Booted(slot[p]) => slot'[p] = slot[p]]_vars
=============================================================================
