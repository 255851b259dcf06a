---------------------------- MODULE WiringProofs ------------------------------
(***************************************************************************)
(* What the dependency container promises, for every graph of providers    *)
(* without a cycle, every number of threads and every set of routes; and   *)
(* in the second part, about Datasets, what the registry keeps.            *)
(***************************************************************************)
EXTENDS Wiring, TLAPS, SequenceTheorems, FiniteSetTheorems

-----------------------------------------------------------------------------
(* The inductive invariant                                                 *)

Ids     == Threads \X Nat
Partial == UNION {[D -> Ids] : D \in SUBSET Names}
Frame   == [of : Providers, as : Names, has : Partial]
Object  == [of : Providers, has : Partial]
Reply   == [of : Routes, is : Ids]

Types ==
  /\ wanted \in SUBSET Optional /\ pos \in 1..(Len(Script) + 2)
  /\ slot \in [Shared -> Ids] /\ raced \in SUBSET Shared
  /\ objects \in [Threads -> Seq(Object)] /\ stack \in [Threads -> Seq(Frame)]
  /\ handed \in [Threads -> Seq(Reply)]
  /\ booted \in Nat /\ booted <= Len(objects[Main])

\* Nothing that needs anything is under construction before the last override.
AllPlugged == \A i \in DOMAIN Script : Script[i].do = "plug" => i < pos

\* An object under construction holds parts of the final container only.
Fits(f) ==
  /\ \A d \in DOMAIN f.has : d \in Needs[f.of] /\ f.has[d] \in Made /\ Of(f.has[d]) = Final(d)
  /\ Needs[f.of] # {} => AllPlugged

\* On a stack, each object is a missing part of the one below, and comes before it
\* in the numbering: no provider is on a stack twice.
Sound(s) ==
  /\ \A i \in 1..Len(s) : Fits(s[i])
  /\ \A i \in 1..Len(s) : i + 1 <= Len(s) =>
       s[i + 1].as \in Needs[s[i].of] \ DOMAIN s[i].has /\ s[i + 1].of = Final(s[i + 1].as)
  /\ \A i, j \in 1..Len(s) : i < j => Rank[s[j].of] < Rank[s[i].of]

\* Before serving there is one thread only, and nobody is given anything.
Alone ==
  ~Serving =>
    /\ \A t \in Workers : stack[t] = <<>> /\ objects[t] = <<>>
    /\ \A t \in Threads : handed[t] = <<>>
    /\ raced = {} /\ booted = 0
AskedFor == Serving => \A t \in Threads : Len(stack[t]) > 0 => stack[t][1].of \in Routes

\* A Singleton keeps an object of its own, and something as soon as there is one.
KeepsItsOwn == \A p \in Shared : slot[p] = Nothing \/ (slot[p] \in Made /\ Of(slot[p]) = p)
KeepsOne    == \A o \in Made : Of(o) \in Shared => slot[Of(o)] # Nothing
AnswersFit  ==
  \A t \in Threads : \A i \in 1..Len(handed[t]) :
    handed[t][i].is = Nothing \/ (handed[t][i].is \in Made /\ Of(handed[t][i].is) = handed[t][i].of)

\* A Singleton under construction twice, or while it keeps something, is raced.
RacesSeen ==
  /\ \A t \in Threads : \A i \in 1..Len(stack[t]) :
       stack[t][i].of \in Shared /\ slot[stack[t][i].of] # Nothing => stack[t][i].of \in raced
  /\ \A t, u \in Threads : \A i \in 1..Len(stack[t]) : \A j \in 1..Len(stack[u]) :
       t # u /\ stack[t][i].of = stack[u][j].of /\ stack[t][i].of \in Shared
         => stack[t][i].of \in raced

\* While the application serves, what was booted is never under construction or
\* raced, and is what its Singleton keeps.
BootedAtRest ==
  Serving =>
    /\ \A t \in Threads : \A i \in 1..Len(stack[t]) :
         stack[t][i].of \in Shared => ~Booted(slot[stack[t][i].of])
    /\ \A p \in Shared : Booted(slot[p]) => p \notin raced
    /\ \A o \in Made : Booted(o) /\ Of(o) \in Shared => slot[Of(o)] = o

IInv ==
  /\ Types /\ Alone /\ AskedFor
  /\ \A t \in Threads : Sound(stack[t])
  /\ KeepsItsOwn /\ KeepsOne /\ AnswersFit
  /\ WiredAsPlugged /\ RacesSeen /\ SecondOnlyIfRaced /\ BootedAtRest

-----------------------------------------------------------------------------
(* Lemmas about the operators                                              *)

LEMMA MadeIs ==
  \A o : o \in Made <=> \E t \in Threads : \E n \in DOMAIN objects[t] : o = <<t, n>>
  BY DEF Made

\* Making an object leaves all others as they are.
LEMMA Grows ==
  ASSUME Types, NEW t \in Threads, NEW x \in Object, NEW n, n = <<t, Len(objects[t]) + 1>>,
         objects' = [objects EXCEPT ![t] = Append(@, x)]
  PROVE  /\ objects' \in [Threads -> Seq(Object)]
         /\ \A o \in Made : o \in Made' /\ Of(o)' = Of(o) /\ Has(o)' = Has(o)
         /\ \A o \in Made' : o \in Made \/ o = n
         /\ n \in Made' /\ n \notin Made /\ n \in Ids /\ n # Nothing
         /\ Of(n)' = x.of /\ Has(n)' = x.has
  <1>1. objects \in [Threads -> Seq(Object)]
    BY DEF Types
  <1>2. objects' \in [Threads -> Seq(Object)]
    BY <1>1
  <1>3. \A u \in Threads : u # t => objects'[u] = objects[u]
    BY <1>1
  <1>4. /\ Len(objects'[t]) = Len(objects[t]) + 1
        /\ \A k \in 1..Len(objects[t]) : objects'[t][k] = objects[t][k]
        /\ objects'[t][Len(objects[t]) + 1] = x
    BY <1>1
  <1>5. \A u \in Threads : DOMAIN objects[u] = 1..Len(objects[u]) /\ DOMAIN objects'[u] = 1..Len(objects'[u])
    BY <1>1, <1>2
  <1>6. Len(objects[t]) \in Nat
    BY <1>1
  <1>7. \A u \in Threads : DOMAIN objects[u] \subseteq DOMAIN objects'[u]
    BY <1>3, <1>4, <1>5, <1>6
  <1>8. \A u \in Threads : \A k \in DOMAIN objects[u] : objects'[u][k] = objects[u][k]
    BY <1>3, <1>4, <1>5
  <1>9. \A o \in Made : o \in Made' /\ Of(o)' = Of(o) /\ Has(o)' = Has(o)
    BY <1>7, <1>8 DEF Made, Of, Has
  <1>10. \A u \in Threads : \A k \in DOMAIN objects'[u] :
           k \in DOMAIN objects[u] \/ (u = t /\ k = Len(objects[t]) + 1)
    BY <1>3, <1>4, <1>5, <1>6
  <1>11. \A o \in Made' : o \in Made \/ o = n
    BY <1>10 DEF Made
  <1>12. Len(objects[t]) + 1 \in DOMAIN objects'[t] /\ Len(objects[t]) + 1 \notin DOMAIN objects[t]
    BY <1>4, <1>5, <1>6
  <1>13. n \in Made' /\ n \notin Made
    BY <1>12 DEF Made
  <1>14. Of(n)' = x.of /\ Has(n)' = x.has
    BY <1>4 DEF Of, Has
  <1> QED
    BY <1>2, <1>6, <1>9, <1>11, <1>13, <1>14 DEF Ids, Nothing

LEMMA MadeTyped ==
  ASSUME Types, NEW o \in Made
  PROVE  o \in Ids /\ Of(o) \in Providers /\ Has(o) \in Partial
  <1>1. PICK t \in Threads : \E n \in DOMAIN objects[t] : o = <<t, n>>
    BY MadeIs
  <1> PICK n \in DOMAIN objects[t] : o = <<t, n>>
    BY <1>1
  <1>2. objects[t] \in Seq(Object)
    BY DEF Types
  <1>3. n \in Nat /\ objects[t][n] \in Object
    BY <1>2
  <1> QED
    BY <1>3 DEF Ids, Of, Has, Object

\* What names stand for.
LEMMA FinalIs ==
  ASSUME NEW p \in Providers, NEW d \in Needs[p]
  PROVE  d \in Names /\ Final(d) \in Providers /\ Rank[Final(d)] < Rank[p]
  <1>1. d \in Names
    BY WiringAssumption
  <1>2. CASE d \in Ports
    BY <1>2, WiringAssumption DEF Final
  <1>3. CASE d \notin Ports
    BY <1>1, <1>3, WiringAssumption DEF Final, Names
  <1> QED
    BY <1>1, <1>2, <1>3

LEMMA TargetIsFinal ==
  ASSUME AllPlugged, NEW d \in Names
  PROVE  Target(d) = Final(d)
  <1>1. d \in Ports => \E i \in DOMAIN Script : i < pos /\ Script[i] = [do |-> "plug", what |-> d]
    BY WiringAssumption DEF AllPlugged
  <1> QED
    BY <1>1 DEF Target, Final, Plugged

\* The object on top is given one more part.
LEMMA GiveIs ==
  ASSUME NEW s \in Seq(Frame), Len(s) > 0, NEW d \in Names, NEW o \in Ids
  PROVE  /\ Give(s, d, o) \in Seq(Frame) /\ Len(Give(s, d, o)) = Len(s)
         /\ \A i \in 1..Len(s) : i # Len(s) => Give(s, d, o)[i] = s[i]
         /\ \A i \in 1..Len(s) : Give(s, d, o)[i].of = s[i].of /\ Give(s, d, o)[i].as = s[i].as
         /\ DOMAIN Give(s, d, o)[Len(s)].has = DOMAIN s[Len(s)].has \cup {d}
         /\ Give(s, d, o)[Len(s)].has[d] = o
         /\ \A e \in DOMAIN s[Len(s)].has : e # d => Give(s, d, o)[Len(s)].has[e] = s[Len(s)].has[e]
  <1> DEFINE n == Len(s)
             h == [e \in DOMAIN s[n].has \cup {d} |-> IF e = d THEN o ELSE s[n].has[e]]
             f == [s[n] EXCEPT !.has = h]
  <1>1. n \in 1..Len(s) /\ s[n] \in Frame
    BY ElementOfSeq
  <1>2. h \in Partial
    <2>1. PICK D \in SUBSET Names : s[n].has \in [D -> Ids]
      BY <1>1 DEF Frame, Partial
    <2>2. h \in [D \cup {d} -> Ids]
      BY <2>1
    <2> QED
      BY <2>2 DEF Partial
  <1>3. f \in Frame /\ f.of = s[n].of /\ f.as = s[n].as /\ f.has = h
    <2> HIDE DEF h
    <2> QED
      BY <1>1, <1>2 DEF Frame
  <1>4. Give(s, d, o) = [s EXCEPT ![n] = f]
    BY <1>1 DEF Give
  <1>5. DOMAIN h = DOMAIN s[n].has \cup {d} /\ h[d] = o /\ \A e \in DOMAIN s[n].has : e # d => h[e] = s[n].has[e]
    OBVIOUS
  <1> HIDE DEF f
  <1>6. [s EXCEPT ![n] = f] \in Seq(Frame) /\ Len([s EXCEPT ![n] = f]) = Len(s)
    BY <1>1, <1>3
  <1>7. \A i \in 1..Len(s) : [s EXCEPT ![n] = f][i] = IF i = n THEN f ELSE s[i]
    BY <1>1
  <1> QED
    BY <1>1, <1>3, <1>4, <1>5, <1>6, <1>7

\* A sound stack is sound without its top, and with the missing part given to it.
LEMMA Lower ==
  ASSUME NEW s \in Seq(Frame), Len(s) > 1, Sound(s)
  PROVE  /\ SubSeq(s, 1, Len(s) - 1) \in Seq(Frame) /\ Len(SubSeq(s, 1, Len(s) - 1)) = Len(s) - 1
         /\ \A i \in 1..(Len(s) - 1) : SubSeq(s, 1, Len(s) - 1)[i] = s[i]
         /\ Sound(SubSeq(s, 1, Len(s) - 1))
  <1>1. PICK r : r = SubSeq(s, 1, Len(s) - 1)
    OBVIOUS
  <1>2. r \in Seq(Frame) /\ Len(r) = Len(s) - 1 /\ \A i \in 1..(Len(s) - 1) : r[i] = s[i]
    BY <1>1
  <1>3. Sound(r)
    <2>1. \A i \in 1..Len(r) : i \in 1..Len(s) /\ r[i] = s[i]
      BY <1>2
    <2>2. \A i \in 1..Len(r) : Fits(r[i])
      BY <2>1 DEF Sound
    <2>3. \A i \in 1..Len(r) : i + 1 <= Len(r) => i + 1 \in 1..Len(r) /\ i + 1 <= Len(s)
      BY <1>2
    <2>4. \A i \in 1..Len(r) : i + 1 <= Len(r) =>
            r[i + 1].as \in Needs[r[i].of] \ DOMAIN r[i].has /\ r[i + 1].of = Final(r[i + 1].as)
      BY <2>1, <2>3 DEF Sound
    <2>5. \A i, j \in 1..Len(r) : i < j => Rank[r[j].of] < Rank[r[i].of]
      BY <2>1 DEF Sound
    <2> QED
      BY <2>2, <2>4, <2>5 DEF Sound
  <1> QED
    BY <1>1, <1>2, <1>3

LEMMA SoundWith ==
  ASSUME NEW s \in Seq(Frame), Len(s) > 0, Sound(s)',
         NEW d \in Needs[s[Len(s)].of], NEW o \in Ids, o \in Made', Of(o)' = Final(d)'
  PROVE  Sound(Give(s, d, o))'
  <1>1. Len(s) \in 1..Len(s) /\ s[Len(s)] \in Frame
    BY ElementOfSeq
  <1>2. d \in Names
    BY <1>1, FinalIs DEF Frame
  <1>3. PICK r : r = Give(s, d, o)
    OBVIOUS
  <1>4. /\ Len(r) = Len(s)
        /\ \A i \in 1..Len(s) : i # Len(s) => r[i] = s[i]
        /\ \A i \in 1..Len(s) : r[i].of = s[i].of /\ r[i].as = s[i].as
        /\ DOMAIN r[Len(s)].has = DOMAIN s[Len(s)].has \cup {d}
        /\ r[Len(s)].has[d] = o
        /\ \A e \in DOMAIN s[Len(s)].has : e # d => r[Len(s)].has[e] = s[Len(s)].has[e]
    BY <1>2, <1>3, GiveIs
  <1>5. \A i \in 1..Len(s) : Fits(s[i])'
    BY DEF Sound
  <1>6. Fits(r[Len(s)])'
    BY <1>1, <1>4, <1>5 DEF Fits
  <1>7. \A i \in 1..Len(r) : Fits(r[i])'
    <2> SUFFICES ASSUME NEW i \in 1..Len(r) PROVE Fits(r[i])'
      OBVIOUS
    <2>1. CASE i = Len(s)
      BY <1>6, <2>1
    <2>2. CASE i # Len(s)
      <3>1. r[i] = s[i]
        BY <1>4, <2>2
      <3> QED
        BY <1>4, <1>5, <3>1
    <2> QED
      BY <2>1, <2>2
  <1>8. \A i \in 1..Len(r) : i + 1 <= Len(r) =>
          r[i + 1].as \in Needs[r[i].of] \ DOMAIN r[i].has /\ r[i + 1].of = Final(r[i + 1].as)'
    <2>1. \A i \in 1..Len(s) : i + 1 <= Len(s) => i + 1 \in 1..Len(s) /\ i # Len(s)
      OBVIOUS
    <2>2. \A i \in 1..Len(s) : i + 1 <= Len(s) =>
            s[i + 1].as \in Needs[s[i].of] \ DOMAIN s[i].has /\ s[i + 1].of = Final(s[i + 1].as)'
      BY DEF Sound
    <2> QED
      BY <1>4, <2>1, <2>2
  <1>9. \A i, j \in 1..Len(r) : i < j => Rank[r[j].of] < Rank[r[i].of]
    BY <1>4 DEF Sound
  <1>10. Sound(r)'
    BY <1>7, <1>8, <1>9 DEF Sound
  <1> QED
    BY <1>3, <1>10

LEMMA SoundStays ==
  ASSUME Types, wanted' = wanted, pos' \in Nat, pos <= pos',
         \A o \in Made : o \in Made' /\ Of(o)' = Of(o),
         NEW s, Sound(s)
  PROVE  Sound(s)'
  <1>1. \A d : Final(d)' = Final(d)
    BY DEF Final
  <1>2. AllPlugged => AllPlugged'
    <2>1. pos \in Nat /\ \A i \in DOMAIN Script : i \in Nat
      BY WiringAssumption DEF Types
    <2> QED
      BY <2>1 DEF AllPlugged
  <1>3. \A f : Fits(f) => Fits(f)'
    BY <1>1, <1>2 DEF Fits
  <1> QED
    BY <1>1, <1>3 DEF Sound

\* What is sound after a step does not depend on how it is written.
LEMMA SoundNow ==
  ASSUME NEW t, NEW s, stack'[t] = s, Sound(s)'
  PROVE  Sound(stack[t])'
  <1>1. /\ \A i \in 1..Len(s) : Fits(s[i])'
        /\ \A i \in 1..Len(s) : i + 1 <= Len(s) =>
             s[i + 1].as \in Needs[s[i].of] \ DOMAIN s[i].has /\ s[i + 1].of = Final(s[i + 1].as)'
        /\ \A i, j \in 1..Len(s) : i < j => Rank[s[j].of] < Rank[s[i].of]
    BY DEF Sound
  <1>2. \A i \in 1..Len(s) :
          /\ \A d \in DOMAIN s[i].has :
               /\ d \in Needs[s[i].of] /\ s[i].has[d] \in Made'
               /\ Of(s[i].has[d])' = Final(d)'
          /\ Needs[s[i].of] # {} => AllPlugged'
    BY <1>1 DEF Fits
  <1> QED
    BY <1>1, <1>2 DEF Sound, Fits, Final, Of

LEMMA InitHolds == Init => IInv
  <1> SUFFICES ASSUME Init PROVE IInv
    OBVIOUS
  <1>1. Threads # {} /\ Main \in Threads /\ Len(Script) \in Nat
    BY WiringAssumption DEF Threads
  <1>2. \A t \in Threads : objects[t] = <<>> /\ stack[t] = <<>> /\ handed[t] = <<>>
    BY DEF Init
  <1>3. Made = {}
    BY <1>2 DEF Made
  <1>4. Types
    BY <1>1, <1>2 DEF Init, Types, Ids, Nothing
  <1>5. ~Serving
    BY <1>1 DEF Init, Serving
  <1>6. \A t \in Threads : Sound(stack[t])
    BY <1>2 DEF Sound
  <1>7. KeepsItsOwn /\ KeepsOne /\ AnswersFit /\ WiredAsPlugged /\ SecondOnlyIfRaced
    BY <1>2, <1>3 DEF Init, KeepsItsOwn, KeepsOne, AnswersFit, WiredAsPlugged, SecondOnlyIfRaced
  <1>8. RacesSeen
    BY <1>2 DEF RacesSeen
  <1> QED
    BY <1>2, <1>4, <1>5, <1>6, <1>7, <1>8 DEF IInv, Alone, AskedFor, BootedAtRest, Init, Threads

-----------------------------------------------------------------------------
(* Steps that make nothing                                                 *)

\* What a step that makes and stores nothing leaves as it was.
LEMMA NothingMade ==
  ASSUME IInv, UNCHANGED <<wanted, slot, objects>>, pos' \in Nat, pos <= pos'
  PROVE  /\ Made' = Made /\ \A o : Of(o)' = Of(o) /\ Has(o)' = Has(o)
         /\ \A s : Sound(s) => Sound(s)'
         /\ KeepsItsOwn' /\ KeepsOne' /\ WiredAsPlugged'
  <1>1. Made' = Made /\ \A o : Of(o)' = Of(o) /\ Has(o)' = Has(o)
    BY DEF Made, Of, Has
  <1>2. \A d : Final(d)' = Final(d)
    BY DEF Final
  <1>3. \A s : Sound(s) => Sound(s)'
    BY <1>1, SoundStays DEF IInv
  <1>4. KeepsItsOwn' /\ KeepsOne'
    BY <1>1 DEF IInv, KeepsItsOwn, KeepsOne
  <1>5. WiredAsPlugged'
    BY <1>1, <1>2 DEF IInv, WiredAsPlugged
  <1> QED
    BY <1>1, <1>3, <1>4, <1>5

\* A thread begins to make an object that no Singleton keeps.
LEMMA BeginKeeps ==
  ASSUME IInv, NEW t \in Threads, NEW p \in Providers, NEW d \in Names,
         Begin(t, p, d), ~Kept(p), UNCHANGED <<wanted, slot, objects, handed, booted>>,
         pos' \in 1..(Len(Script) + 2), pos <= pos', Serving' <=> Serving,
         Serving \/ t = Main,
         Needs[p] # {} => AllPlugged,
         Len(stack[t]) > 0 =>
           d \in Needs[stack[t][Len(stack[t])].of] \ DOMAIN stack[t][Len(stack[t])].has /\ p = Final(d),
         Len(stack[t]) = 0 /\ Serving => p \in Routes
  PROVE  IInv'
  <1> DEFINE new == {q \in Shared \cap {p} : \E u \in Threads \ {t} : Open(p, u)}
  <1>1. Types
    BY DEF IInv
  <1>2. PICK s \in Seq(Frame) : s = stack[t]
    BY <1>1 DEF Types
  <1>3. PICK f \in Frame : f = [of |-> p, as |-> d, has |-> <<>>]
    <2>1. <<>> \in [{} -> Ids]
      OBVIOUS
    <2>2. <<>> \in Partial
      BY <2>1 DEF Partial
    <2> QED
      BY <2>2 DEF Frame
  <1>4. f.of = p /\ f.as = d /\ DOMAIN f.has = {}
    BY <1>3
  <1>5. stack' = [stack EXCEPT ![t] = Append(s, f)] /\ raced' = raced \cup new
    BY <1>2, <1>3 DEF Begin
  <1>6. /\ Append(s, f) \in Seq(Frame) /\ Len(Append(s, f)) = Len(s) + 1 /\ Len(s) \in Nat
        /\ Append(s, f)[Len(s) + 1] = f /\ \A i \in 1..Len(s) : Append(s, f)[i] = s[i]
    BY <1>2
  <1>7. /\ stack'[t] = Append(s, f)
        /\ \A u \in Threads : u # t => stack'[u] = stack[u]
    BY <1>1, <1>5 DEF Types
  <1>8. \A u \in Threads : \A i \in 1..Len(stack'[u]) :
          \/ i \in 1..Len(stack[u]) /\ stack'[u][i] = stack[u][i]
          \/ u = t /\ i = Len(s) + 1 /\ stack'[u][i] = f
    BY <1>2, <1>6, <1>7
  <1>9. Types'
    <2>1. new \in SUBSET Shared
      OBVIOUS
    <2>2. stack' \in [Threads -> Seq(Frame)]
      BY <1>1, <1>5, <1>6 DEF Types
    <2> QED
      BY <1>1, <1>5, <2>1, <2>2 DEF Types
  <1>10. pos' \in Nat
    BY WiringAssumption
  <1>11. /\ Made' = Made /\ \A o : Of(o)' = Of(o)
         /\ \A r : Sound(r) => Sound(r)'
         /\ KeepsItsOwn' /\ KeepsOne' /\ WiredAsPlugged'
    BY <1>10, NothingMade
  <1>12. p \in Shared => slot[p] = Nothing
    BY DEF Kept
  <1>13. Alone'
    <2> SUFFICES ASSUME ~Serving' PROVE Alone'
      BY DEF Alone
    <2>1. t = Main /\ \A u \in Workers : u # t /\ u \in Threads
      BY WiringAssumption DEF Threads
    <2>2. /\ \A u \in Workers : stack[u] = <<>> /\ objects[u] = <<>>
          /\ \A u \in Threads : handed[u] = <<>>
          /\ raced = {} /\ booted = 0
      BY DEF IInv, Alone
    <2>3. \A u \in Workers : stack'[u] = <<>>
      BY <1>7, <2>1, <2>2
    <2>4. new = {}
      BY <2>1, <2>2 DEF Open, Threads
    <2> QED
      BY <1>5, <2>2, <2>3, <2>4 DEF Alone
  <1>14. AskedFor'
    <2> SUFFICES ASSUME Serving', NEW u \in Threads, Len(stack'[u]) > 0 PROVE stack'[u][1].of \in Routes
      BY DEF AskedFor
    <2>1. Len(stack[u]) > 0 => stack[u][1].of \in Routes
      BY DEF IInv, AskedFor
    <2>2. CASE u # t
      BY <1>7, <2>1, <2>2
    <2>3. CASE u = t /\ Len(s) = 0
      BY <1>2, <1>4, <1>6, <1>7, <2>3
    <2>4. CASE u = t /\ Len(s) > 0
      <3>1. 1 \in 1..Len(s)
        BY <1>6, <2>4
      <3> QED
        BY <1>2, <1>6, <1>7, <2>1, <2>4, <3>1
    <2> QED
      BY <1>6, <2>2, <2>3, <2>4
  <1>15. \A u \in Threads : Sound(stack[u])'
    <2> SUFFICES ASSUME NEW u \in Threads PROVE Sound(stack[u])'
      OBVIOUS
    <2>1. CASE u # t
      <3>1. Sound(stack[u])
        BY DEF IInv
      <3>2. PICK r : r = stack[u]
        OBVIOUS
      <3>3. Sound(r)'
        BY <1>11, <3>1, <3>2
      <3>4. stack'[u] = r
        BY <1>7, <2>1, <3>2
      <3> QED
        BY <3>3, <3>4, SoundNow
    <2>2. CASE u = t
      <3>0. \A k \in 1..Len(s) : s[k] \in Frame
        OBVIOUS
      <3>1. PICK r \in Seq(Frame) : r = Append(s, f)
        BY <1>6
      <3>2. Sound(s)
        BY <1>2 DEF IInv
      <3>3. Fits(f)
        BY <1>4 DEF Fits
      <3>4. \A i \in 1..Len(r) : (i \in 1..Len(s) /\ r[i] = s[i]) \/ (i = Len(s) + 1 /\ r[i] = f)
        <4> SUFFICES ASSUME NEW i \in 1..Len(r)
                     PROVE  (i \in 1..Len(s) /\ r[i] = s[i]) \/ (i = Len(s) + 1 /\ r[i] = f)
          OBVIOUS
        <4>1. Len(r) = Len(s) + 1
          BY <1>6, <3>1
        <4>2. i \in 1..Len(s) \/ i = Len(s) + 1
          BY <1>6, <4>1
        <4>3. CASE i \in 1..Len(s)
          BY <1>6, <3>1, <4>3
        <4>4. CASE i = Len(s) + 1
          BY <1>6, <3>1, <4>4
        <4> QED
          BY <4>2, <4>3, <4>4
      <3>5. \A i \in 1..Len(r) : Fits(r[i])
        BY <3>2, <3>3, <3>4 DEF Sound
      <3>6. Len(s) > 0 => /\ f.as \in Needs[s[Len(s)].of] \ DOMAIN s[Len(s)].has
                          /\ f.of = Final(f.as) /\ Rank[f.of] < Rank[s[Len(s)].of]
        <4> SUFFICES ASSUME Len(s) > 0
                     PROVE  /\ f.as \in Needs[s[Len(s)].of] \ DOMAIN s[Len(s)].has
                            /\ f.of = Final(f.as) /\ Rank[f.of] < Rank[s[Len(s)].of]
          OBVIOUS
        <4>1. s[Len(s)].of \in Providers
          BY <1>6, <3>0 DEF Frame
        <4> QED
          BY <1>2, <1>4, <4>1, FinalIs
      <3>7. \A i \in 1..Len(r) : i + 1 <= Len(r) =>
              r[i + 1].as \in Needs[r[i].of] \ DOMAIN r[i].has /\ r[i + 1].of = Final(r[i + 1].as)
        <4> SUFFICES ASSUME NEW i \in 1..Len(r), i + 1 <= Len(r)
                     PROVE  r[i + 1].as \in Needs[r[i].of] \ DOMAIN r[i].has /\ r[i + 1].of = Final(r[i + 1].as)
          OBVIOUS
        <4>1. i \in 1..Len(s) /\ r[i] = s[i] /\ Len(r) = Len(s) + 1
          BY <1>6, <3>1
        <4>2. CASE i = Len(s)
          BY <1>6, <3>1, <3>6, <4>1, <4>2
        <4>3. CASE i # Len(s)
          <5>1. i + 1 \in 1..Len(s) /\ i + 1 <= Len(s)
            BY <1>6, <4>1, <4>3
          <5>2. r[i + 1] = s[i + 1]
            BY <1>6, <3>1, <5>1
          <5> QED
            BY <3>2, <4>1, <5>1, <5>2 DEF Sound
        <4> QED
          BY <4>2, <4>3
      <3>8. \A i, j \in 1..Len(r) : i < j => Rank[r[j].of] < Rank[r[i].of]
        <4> SUFFICES ASSUME NEW i \in 1..Len(r), NEW j \in 1..Len(r), i < j
                     PROVE  Rank[r[j].of] < Rank[r[i].of]
          OBVIOUS
        <4>1. i \in 1..Len(s) /\ r[i] = s[i]
          BY <1>6, <3>1
        <4>2. \A k \in 1..Len(s) : Rank[s[k].of] \in Nat
          BY <3>0, WiringAssumption DEF Frame
        <4>3. CASE j \in 1..Len(s)
          BY <1>6, <3>1, <3>2, <4>1, <4>3 DEF Sound
        <4>4. CASE j = Len(s) + 1
          <5>1. Len(s) \in 1..Len(s) /\ Len(s) > 0
            BY <1>6, <4>1
          <5>2. i = Len(s) \/ Rank[s[Len(s)].of] < Rank[s[i].of]
            BY <3>2, <4>1, <5>1 DEF Sound
          <5>3. Rank[f.of] \in Nat
            BY <1>3, WiringAssumption DEF Frame
          <5> QED
            BY <1>6, <3>1, <3>6, <4>1, <4>2, <4>4, <5>1, <5>2, <5>3
        <4> QED
          BY <1>6, <3>1, <4>3, <4>4
      <3>9. Sound(r)'
        BY <1>11, <3>5, <3>7, <3>8 DEF Sound
      <3>10. stack'[u] = r
        BY <1>7, <2>2, <3>1
      <3> QED
        BY <2>2, <3>9, <3>10, SoundNow
    <2> QED
      BY <2>1, <2>2
  <1>16. AnswersFit'
    BY <1>11 DEF IInv, AnswersFit
  <1>17. RacesSeen'
    <2>1. \A u \in Threads : \A i \in 1..Len(stack'[u]) :
            stack'[u][i].of \in Shared /\ slot[stack'[u][i].of] # Nothing => stack'[u][i].of \in raced'
      BY <1>4, <1>5, <1>8, <1>12 DEF IInv, RacesSeen
    <2>2. ASSUME NEW u \in Threads, NEW v \in Threads, NEW i \in 1..Len(stack'[u]), NEW j \in 1..Len(stack'[v]),
                 u # v, stack'[u][i].of = stack'[v][j].of, stack'[u][i].of \in Shared
          PROVE  stack'[u][i].of \in raced'
      <3>1. CASE i \in 1..Len(stack[u]) /\ stack'[u][i] = stack[u][i]
                 /\ j \in 1..Len(stack[v]) /\ stack'[v][j] = stack[v][j]
        BY <1>5, <2>2, <3>1 DEF IInv, RacesSeen
      <3>2. CASE u = t /\ stack'[u][i] = f
        <4>1. stack'[v][j] = stack[v][j] /\ j \in DOMAIN stack[v]
          BY <1>1, <1>7, <2>2, <3>2 DEF Types
        <4>2. Open(p, v)
          BY <1>4, <2>2, <3>2, <4>1 DEF Open
        <4> QED
          BY <1>4, <1>5, <2>2, <3>2, <4>2
      <3>3. CASE v = t /\ stack'[v][j] = f
        <4>1. stack'[u][i] = stack[u][i] /\ i \in DOMAIN stack[u]
          BY <1>1, <1>7, <2>2, <3>3 DEF Types
        <4>2. Open(p, u)
          BY <1>4, <2>2, <3>3, <4>1 DEF Open
        <4> QED
          BY <1>4, <1>5, <2>2, <3>3, <4>2
      <3> QED
        BY <1>8, <3>1, <3>2, <3>3
    <2> QED
      BY <2>1, <2>2 DEF RacesSeen
  <1>18. SecondOnlyIfRaced'
    BY <1>5, <1>11 DEF IInv, SecondOnlyIfRaced
  <1>19. BootedAtRest'
    <2> SUFFICES ASSUME Serving' PROVE BootedAtRest'
      BY DEF BootedAtRest
    <2>1. \A o : Booted(o)' <=> Booted(o)
      BY DEF Booted
    <2>2. ~Booted(Nothing)
      BY <1>1 DEF Booted, Nothing, Types
    <2>3. /\ \A u \in Threads : \A i \in 1..Len(stack[u]) :
               stack[u][i].of \in Shared => ~Booted(slot[stack[u][i].of])
          /\ \A q \in Shared : Booted(slot[q]) => q \notin raced
          /\ \A o \in Made : Booted(o) /\ Of(o) \in Shared => slot[Of(o)] = o
      BY DEF IInv, BootedAtRest
    <2>4. \A u \in Threads : \A i \in 1..Len(stack'[u]) :
            stack'[u][i].of \in Shared => ~Booted(slot[stack'[u][i].of])
      BY <1>4, <1>8, <1>12, <2>2, <2>3
    <2>5. \A q \in Shared : Booted(slot[q]) => q \notin raced'
      BY <1>5, <1>12, <2>2, <2>3
    <2> QED
      BY <1>11, <2>1, <2>3, <2>4, <2>5 DEF BootedAtRest, Booted
  <1> QED
    BY <1>9, <1>11, <1>13, <1>14, <1>15, <1>16, <1>17, <1>18, <1>19 DEF IInv

\* A step after which no stack holds more than before, and that makes, stores and
\* marks nothing, keeps what the invariant says of stacks and Singletons.
LEMMA ShrinkKeeps ==
  ASSUME IInv, UNCHANGED <<wanted, slot, objects, booted, raced>>,
         pos' \in 1..(Len(Script) + 2), pos <= pos', Serving' <=> Serving,
         stack' \in [Threads -> Seq(Frame)], handed' \in [Threads -> Seq(Reply)],
         ~Serving => handed' = handed /\ \A t \in Workers : stack'[t] = stack[t],
         \A t \in Threads : Sound(stack[t])',
         \A t \in Threads : \A i \in 1..Len(stack'[t]) :
           i \in 1..Len(stack[t]) /\ stack'[t][i].of = stack[t][i].of,
         AnswersFit'
  PROVE  IInv'
  <1>1. Types'
    BY DEF IInv, Types
  <1>2. /\ Made' = Made /\ \A o : Of(o)' = Of(o)
        /\ KeepsItsOwn' /\ KeepsOne' /\ WiredAsPlugged'
    BY NothingMade, WiringAssumption
  <1>3. Alone'
    BY DEF IInv, Alone
  <1>4. AskedFor'
    <2> SUFFICES ASSUME Serving', NEW t \in Threads, Len(stack'[t]) > 0 PROVE stack'[t][1].of \in Routes
      BY DEF AskedFor
    <2>1. 1 \in 1..Len(stack'[t])
      BY <1>1 DEF Types
    <2>2. Len(stack[t]) > 0 /\ stack'[t][1].of = stack[t][1].of
      BY <2>1
    <2> QED
      BY <2>2 DEF IInv, AskedFor
  <1>5. RacesSeen'
    <2>1. \A t \in Threads : \A i \in 1..Len(stack'[t]) :
            stack'[t][i].of \in Shared /\ slot[stack'[t][i].of] # Nothing => stack'[t][i].of \in raced
      BY DEF IInv, RacesSeen
    <2>2. \A t, u \in Threads : \A i \in 1..Len(stack'[t]) : \A j \in 1..Len(stack'[u]) :
            t # u /\ stack'[t][i].of = stack'[u][j].of /\ stack'[t][i].of \in Shared
              => stack'[t][i].of \in raced
      BY DEF IInv, RacesSeen
    <2> QED
      BY <2>1, <2>2 DEF RacesSeen
  <1>6. SecondOnlyIfRaced'
    BY <1>2 DEF IInv, SecondOnlyIfRaced
  <1>7. BootedAtRest'
    BY <1>2 DEF IInv, BootedAtRest, Booted
  <1> QED
    BY <1>1, <1>2, <1>3, <1>4, <1>5, <1>6, <1>7 DEF IInv

\* A thread is given what its provider keeps, as the next part of the object on top.
LEMMA TakeKept ==
  ASSUME IInv, NEW t \in Threads, ~Idle(t), NEW d \in Missing(t), NEW q, q = Target(d), Kept(q),
         stack' = [stack EXCEPT ![t] = Give(stack[t], d, slot[q])],
         UNCHANGED <<wanted, pos, slot, objects, handed, booted, raced>>
  PROVE  IInv'
  <1>1. Types
    BY DEF IInv
  <1>2. PICK s \in Seq(Frame) : s = stack[t]
    BY <1>1 DEF Types
  <1>3. Len(s) > 0 /\ Len(s) \in 1..Len(s) /\ s[Len(s)] \in Frame /\ d \in Needs[s[Len(s)].of]
    BY <1>2 DEF Idle, Missing, Top
  <1>4. d \in Names /\ Final(d) \in Providers
    BY <1>3, FinalIs DEF Frame
  <1>5. Sound(s)
    BY <1>2 DEF IInv
  <1>6. AllPlugged
    BY <1>3, <1>5 DEF Sound, Fits
  <1>7. PICK o \in Ids : o = slot[q]
    BY <1>1 DEF Types, Kept
  <1>8. q = Final(d) /\ o \in Made /\ Of(o) = q
    <2>1. q = Final(d)
      BY <1>4, <1>6, TargetIsFinal
    <2>2. o \in Made /\ Of(o) = q
      BY <1>7 DEF IInv, KeepsItsOwn, Kept
    <2> QED
      BY <2>1, <2>2
  <1>9. pos' \in Nat /\ pos <= pos' /\ pos \in 1..(Len(Script) + 2)
    BY <1>1, WiringAssumption DEF Types
  <1>10. /\ Made' = Made /\ \A x : Of(x)' = Of(x)
         /\ \A r : Sound(r) => Sound(r)'
    BY <1>9, NothingMade
  <1>11. Sound(s)' /\ o \in Made' /\ Of(o)' = Final(d)'
    BY <1>5, <1>8, <1>10 DEF Final
  <1>12. PICK r : r = Give(s, d, o)
    OBVIOUS
  <1>13. Sound(r)'
    BY <1>3, <1>11, <1>12, SoundWith
  <1>14. r \in Seq(Frame) /\ Len(r) = Len(s) /\ \A i \in 1..Len(s) : r[i].of = s[i].of
    BY <1>3, <1>4, <1>12, GiveIs
  <1>15. stack'[t] = r /\ stack' \in [Threads -> Seq(Frame)]
         /\ \A u \in Threads : u # t => stack'[u] = stack[u]
    BY <1>1, <1>2, <1>7, <1>12, <1>14 DEF Types
  <1>16. \A u \in Threads : Sound(stack[u])'
    <2> SUFFICES ASSUME NEW u \in Threads PROVE Sound(stack[u])'
      OBVIOUS
    <2>1. CASE u = t
      BY <1>13, <1>15, <2>1, SoundNow
    <2>2. CASE u # t
      <3>1. PICK x : x = stack[u]
        OBVIOUS
      <3>2. Sound(x)'
        BY <1>10, <3>1 DEF IInv
      <3>3. stack'[u] = x
        BY <1>15, <2>2, <3>1
      <3> QED
        BY <3>2, <3>3, SoundNow
    <2> QED
      BY <2>1, <2>2
  <1>17. \A u \in Threads : \A i \in 1..Len(stack'[u]) :
           i \in 1..Len(stack[u]) /\ stack'[u][i].of = stack[u][i].of
    BY <1>2, <1>14, <1>15
  <1>18. Serving' <=> Serving
    BY DEF Serving
  <1>19. ~Serving => \A u \in Workers : stack'[u] = stack[u]
    <2> SUFFICES ASSUME ~Serving, NEW u \in Workers PROVE stack'[u] = stack[u]
      OBVIOUS
    <2>1. stack[u] = <<>> /\ u \in Threads
      BY DEF IInv, Alone, Threads
    <2> QED
      BY <1>15, <2>1 DEF Idle
  <1>20. AnswersFit'
    BY <1>10 DEF IInv, AnswersFit
  <1>21. handed' \in [Threads -> Seq(Reply)]
    BY <1>1 DEF Types
  <1> QED
    BY <1>9, <1>15, <1>16, <1>17, <1>18, <1>19, <1>20, <1>21, ShrinkKeeps

\* A reply with nothing, or with an object of the provider that was asked.
LEMMA Answered ==
  ASSUME Types, NEW t \in Threads, NEW p \in Routes, NEW o \in Ids, Answer(t, p, o),
         AnswersFit, \A x \in Made : x \in Made' /\ Of(x)' = Of(x),
         o = Nothing \/ (o \in Made' /\ Of(o)' = p)
  PROVE  handed' \in [Threads -> Seq(Reply)] /\ AnswersFit'
  <1>1. PICK a \in Reply : a = [of |-> p, is |-> o]
    BY DEF Reply
  <1>2. PICK h \in Seq(Reply) : h = handed[t]
    BY DEF Types
  <1>3. handed' = [handed EXCEPT ![t] = Append(h, a)]
    BY <1>1, <1>2 DEF Answer
  <1>4. handed' \in [Threads -> Seq(Reply)]
    BY <1>3 DEF Types
  <1>5. AnswersFit'
    <2> SUFFICES ASSUME NEW u \in Threads, NEW i \in 1..Len(handed'[u])
                 PROVE  \/ handed'[u][i].is = Nothing
                        \/ /\ handed'[u][i].is \in Made'
                           /\ Of(handed[u][i].is)' = handed'[u][i].of
      BY DEF AnswersFit, Nothing
    <2>1. CASE i \in 1..Len(handed[u]) /\ handed'[u][i] = handed[u][i]
      <3>1. PICK x : x = handed[u][i].is
        OBVIOUS
      <3>2. x = Nothing \/ (x \in Made' /\ Of(x)' = handed[u][i].of)
        BY <2>1, <3>1 DEF AnswersFit
      <3>3. handed'[u][i].is = x
        BY <2>1, <3>1
      <3> QED
        BY <2>1, <3>2, <3>3 DEF Of
    <2>2. CASE u = t /\ i = Len(h) + 1 /\ handed'[u][i] = a
      <3>1. handed'[u][i].is = o /\ handed'[u][i].of = p
        BY <1>1, <2>2
      <3> QED
        BY <3>1 DEF Of
    <2>3. u # t => handed'[u] = handed[u]
      BY <1>3 DEF Types
    <2>4. u = t => /\ Len(handed'[u]) = Len(h) + 1 /\ handed'[u][Len(h) + 1] = a
                   /\ \A k \in 1..Len(h) : handed'[u][k] = h[k]
      BY <1>2, <1>3 DEF Types
    <2> QED
      BY <1>2, <2>1, <2>2, <2>3, <2>4
  <1> QED
    BY <1>4, <1>5

-----------------------------------------------------------------------------
(* An object is made                                                       *)

\* The stack that is left, and who has answered.
LEMMA MakeStep ==
  ASSUME IInv, NEW t \in Threads, Make(t), NEW s \in Seq(Frame), s = stack[t],
         NEW o \in Ids, o = <<t, Len(objects[t]) + 1>>, NEW f \in Frame, f = s[Len(s)]
  PROVE  /\ Needs[f.of] \subseteq DOMAIN f.has
         /\ objects' = [objects EXCEPT ![t] = Append(@, [of |-> f.of, has |-> f.has])]
         /\ [of |-> f.of, has |-> f.has] \in Object
         /\ \A u \in Threads : u # t => stack'[u] = stack[u]
         /\ stack' \in [Threads -> Seq(Frame)]
         /\ \A i \in 1..Len(stack'[t]) : i \in 1..Len(s) /\ i < Len(s) /\ stack'[t][i].of = s[i].of
         /\ Sound(stack[t])'
         /\ (Serving /\ Len(s) = 1 /\ Answer(t, f.of, o)) \/ handed' = handed
         /\ ~Serving => handed' = handed
         /\ UNCHANGED <<wanted, pos, booted, raced>>
  <1>1. Types
    BY DEF IInv
  <1>2. Len(s) > 0 /\ Len(s) \in 1..Len(s)
    BY DEF Make, Idle
  <1>3. f = Top(t)
    BY DEF Top
  <1>4. Needs[f.of] \subseteq DOMAIN f.has
    BY <1>3 DEF Make, Missing
  <1>5. /\ objects' = [objects EXCEPT ![t] = Append(@, [of |-> f.of, has |-> f.has])]
        /\ Len(s) = 1 => /\ stack' = [stack EXCEPT ![t] = <<>>]
                         /\ IF Serving THEN Answer(t, f.of, o) ELSE UNCHANGED handed
        /\ Len(s) # 1 => /\ stack' = [stack EXCEPT ![t] = Give(SubSeq(s, 1, Len(s) - 1), f.as, o)]
                         /\ UNCHANGED handed
        /\ UNCHANGED <<wanted, pos, booted, raced>>
    BY <1>3 DEF Make, Below
  <1>6. [of |-> f.of, has |-> f.has] \in Object
    BY DEF Frame, Object
  <1>7. /\ o \in Made' /\ Of(o)' = f.of
        /\ \A x \in Made : x \in Made' /\ Of(x)' = Of(x)
    <2>1. PICK x \in Object : x = [of |-> f.of, has |-> f.has]
      BY <1>6
    <2>2. objects' = [objects EXCEPT ![t] = Append(@, x)] /\ x.of = f.of
      BY <1>5, <2>1
    <2> QED
      BY <1>1, <2>2, Grows
  <1>8. pos' \in Nat /\ pos <= pos'
    BY <1>1, <1>5, WiringAssumption DEF Types
  <1>9. \A x : Sound(x) => Sound(x)'
    BY <1>1, <1>5, <1>7, <1>8, SoundStays
  <1>10. Sound(s)
    BY DEF IInv
  <1>11. CASE Len(s) = 1
    <2>1. PICK r : r = <<>>
      OBVIOUS
    <2>2. stack' = [stack EXCEPT ![t] = r] /\ r \in Seq(Frame) /\ Len(r) = 0
      BY <1>5, <1>11, <2>1
    <2>3. stack' \in [Threads -> Seq(Frame)] /\ stack'[t] = r /\ \A u \in Threads : u # t => stack'[u] = stack[u]
      BY <1>1, <2>2 DEF Types
    <2>4. Sound(r)'
      BY <2>2 DEF Sound
    <2>5. Sound(stack[t])'
      BY <2>3, <2>4, SoundNow
    <2>6. (Serving /\ Len(s) = 1 /\ Answer(t, f.of, o)) \/ handed' = handed
      BY <1>5, <1>11
    <2> QED
      BY <1>2, <1>4, <1>5, <1>6, <1>11, <2>2, <2>3, <2>5, <2>6
  <1>12. CASE Len(s) # 1
    <2>1. Len(s) > 1
      <3>1. \A n \in Nat : n > 0 /\ n # 1 => n > 1
        OBVIOUS
      <3>2. Len(s) \in Nat
        OBVIOUS
      <3>3. Len(s) # 1
        BY <1>12
      <3> QED
        BY <1>2, <3>1, <3>2, <3>3, Zenon
    <2>2. PICK b \in Seq(Frame) : b = SubSeq(s, 1, Len(s) - 1)
      BY <1>2, <1>10, <2>1, Lower
    <2>3. Len(b) = Len(s) - 1 /\ (\A i \in 1..(Len(s) - 1) : b[i] = s[i]) /\ Sound(b)
      BY <1>2, <1>10, <2>1, <2>2, Lower
    <2>4. Len(b) \in 1..Len(b) /\ Len(b) > 0 /\ Len(b) \in 1..Len(s) /\ Len(b) + 1 = Len(s)
      BY <1>2, <2>1, <2>3
    <2>5. f.as \in Needs[b[Len(b)].of] /\ f.of = Final(f.as)
      <3>1. b[Len(b)] = s[Len(b)]
        BY <2>3, <2>4
      <3> QED
        BY <1>10, <2>4, <3>1 DEF Sound
    <2>6. Sound(b)' /\ Of(o)' = Final(f.as)'
      BY <1>5, <1>7, <1>9, <2>3, <2>5 DEF Final
    <2>7. PICK r : r = Give(b, f.as, o)
      OBVIOUS
    <2>8. Sound(r)'
      BY <1>7, <2>4, <2>5, <2>6, <2>7, SoundWith
    <2>9. b[Len(b)].of \in Providers
      <3>1. b[Len(b)] \in Frame
        BY <2>4
      <3> QED
        BY <3>1 DEF Frame
    <2>10. f.as \in Names
      BY <2>5, <2>9, FinalIs
    <2>11. r \in Seq(Frame) /\ Len(r) = Len(b) /\ \A i \in 1..Len(b) : r[i].of = b[i].of
      <3>1. Give(b, f.as, o) \in Seq(Frame)
        BY <2>4, <2>10, GiveIs
      <3>2. Len(Give(b, f.as, o)) = Len(b)
        BY <2>4, <2>10, GiveIs
      <3>3. \A i \in 1..Len(b) : Give(b, f.as, o)[i].of = b[i].of
        BY <2>4, <2>10, GiveIs
      <3> QED
        BY <2>7, <3>1, <3>2, <3>3
    <2>12. stack' \in [Threads -> Seq(Frame)] /\ stack'[t] = r /\ \A u \in Threads : u # t => stack'[u] = stack[u]
      <3>1. stack' = [stack EXCEPT ![t] = r]
        BY <1>5, <1>12, <2>2, <2>7
      <3> QED
        BY <1>1, <2>11, <3>1 DEF Types
    <2>13. Sound(stack[t])'
      BY <2>8, <2>12, SoundNow
    <2>14. \A i \in 1..Len(stack'[t]) : i \in 1..Len(s) /\ i < Len(s) /\ stack'[t][i].of = s[i].of
      <3> SUFFICES ASSUME NEW i \in 1..Len(r)
                   PROVE  i \in 1..Len(s) /\ i < Len(s) /\ r[i].of = s[i].of
        BY <2>12
      <3>1. i \in 1..Len(b) /\ i \in 1..(Len(s) - 1) /\ i \in 1..Len(s) /\ i < Len(s)
        BY <1>2, <2>3, <2>11
      <3> QED
        BY <2>3, <2>11, <3>1
    <2>15. handed' = handed
      BY <1>5, <1>12
    <2> QED
      BY <1>2, <1>4, <1>5, <1>6, <2>12, <2>13, <2>14, <2>15
  <1> QED
    BY <1>11, <1>12

LEMMA MakeKeeps ==
  ASSUME IInv, NEW t \in Threads, Make(t)
  PROVE  /\ IInv'
         /\ \A p \in Shared : Serving /\ Booted(slot[p]) => slot'[p] = slot[p]
  <1>1. Types
    BY DEF IInv
  <1>2. PICK s \in Seq(Frame) : s = stack[t]
    BY <1>1 DEF Types
  <1>3. PICK o \in Ids : o = <<t, Len(objects[t]) + 1>>
    <2>1. Len(objects[t]) + 1 \in Nat
      BY <1>1 DEF Types
    <2> QED
      BY <2>1 DEF Ids
  <1>4. PICK f \in Frame : f = s[Len(s)]
    BY <1>2 DEF Make, Idle
  <1>5. PICK x : x = [of |-> f.of, has |-> f.has]
    OBVIOUS
  <1>6. /\ Len(s) > 0 /\ Needs[f.of] \subseteq DOMAIN f.has
        /\ objects' = [objects EXCEPT ![t] = Append(@, x)] /\ x \in Object
        /\ \A u \in Threads : u # t => stack'[u] = stack[u]
        /\ stack' \in [Threads -> Seq(Frame)]
        /\ \A i \in 1..Len(stack'[t]) : i \in 1..Len(s) /\ i < Len(s) /\ stack'[t][i].of = s[i].of
        /\ Sound(stack[t])'
        /\ (Serving /\ Len(s) = 1 /\ Answer(t, f.of, o)) \/ handed' = handed
        /\ ~Serving => handed' = handed
        /\ UNCHANGED <<wanted, pos, booted, raced>>
    <2>0. Len(s) > 0
      BY <1>2 DEF Make, Idle
    <2>1. Needs[f.of] \subseteq DOMAIN f.has
      BY <1>2, <1>3, <1>4, MakeStep
    <2>2. [of |-> f.of, has |-> f.has] \in Object
      BY <1>2, <1>3, <1>4, MakeStep
    <2>8. objects' = [objects EXCEPT ![t] = Append(@, [of |-> f.of, has |-> f.has])]
      BY <1>2, <1>3, <1>4, MakeStep
    <2>3. stack' \in [Threads -> Seq(Frame)] /\ \A u \in Threads : u # t => stack'[u] = stack[u]
      BY <1>2, <1>3, <1>4, MakeStep
    <2>4. \A i \in 1..Len(stack'[t]) : i \in 1..Len(s) /\ i < Len(s) /\ stack'[t][i].of = s[i].of
      BY <1>2, <1>3, <1>4, MakeStep
    <2>5. Sound(stack[t])'
      BY <1>2, <1>3, <1>4, MakeStep
    <2>6. (Serving /\ Len(s) = 1 /\ Answer(t, f.of, o)) \/ handed' = handed
      BY <1>2, <1>3, <1>4, MakeStep
    <2>7. (~Serving => handed' = handed) /\ UNCHANGED <<wanted, pos, booted, raced>>
      BY <1>2, <1>3, <1>4, MakeStep
    <2> QED
      BY <1>5, <2>0, <2>1, <2>2, <2>3, <2>4, <2>5, <2>6, <2>7, <2>8
  <1>7. /\ objects' \in [Threads -> Seq(Object)]
        /\ \A y \in Made : y \in Made' /\ Of(y)' = Of(y) /\ Has(y)' = Has(y)
        /\ \A y \in Made' : y \in Made \/ y = o
        /\ o \in Made' /\ o \notin Made /\ o \in Ids /\ o # Nothing
        /\ Of(o)' = f.of /\ Has(o)' = f.has
    <2>1. x.of = f.of /\ x.has = f.has
      BY <1>5
    <2> QED
      BY <1>1, <1>3, <1>6, <2>1, Grows
  <1>8. Len(s) \in 1..Len(s) /\ f.of \in Providers
    BY <1>6 DEF Frame
  <1>9. pos' \in Nat /\ pos <= pos' /\ (Serving' <=> Serving)
    BY <1>1, <1>6, WiringAssumption DEF Types, Serving
  \* Whoever else is under construction at this provider makes it raced.
  <1>10. /\ f.of \in Shared /\ slot[f.of] # Nothing => f.of \in raced
         /\ \A u \in Threads : \A i \in 1..Len(stack'[u]) :
              stack'[u][i].of = f.of /\ f.of \in Shared => f.of \in raced
    <2>1. f.of \in Shared /\ slot[f.of] # Nothing => f.of \in raced
      BY <1>2, <1>4, <1>8 DEF IInv, RacesSeen
    <2>2. ASSUME NEW u \in Threads, NEW i \in 1..Len(stack'[u]), stack'[u][i].of = f.of, f.of \in Shared
          PROVE  f.of \in raced
      <3>1. CASE u = t
        <4>1. i \in 1..Len(s) /\ i < Len(s) /\ s[i].of = f.of
          BY <1>6, <2>2, <3>1
        <4>2. Rank[f.of] < Rank[s[i].of]
          BY <1>2, <1>4, <1>8, <4>1 DEF IInv, Sound
        <4>3. Rank[f.of] \in Nat
          BY <1>8, WiringAssumption
        <4> QED
          BY <4>1, <4>2, <4>3
      <3>2. CASE u # t
        BY <1>2, <1>4, <1>6, <1>8, <2>2, <3>2 DEF IInv, RacesSeen
      <3> QED
        BY <3>1, <3>2
    <2> QED
      BY <2>1, <2>2
  <1>11. \A u \in Threads : \A i \in 1..Len(stack'[u]) :
           i \in 1..Len(stack[u]) /\ stack'[u][i].of = stack[u][i].of
    BY <1>2, <1>6
  <1>12. \A p \in Shared : slot'[p] = IF p = f.of THEN o ELSE slot[p]
    <2>1. f = Top(t)
      BY <1>2, <1>4 DEF Top
    <2> QED
      BY <1>3, <2>1 DEF Make
  <1>13. KeepsItsOwn' /\ KeepsOne'
    <2>1. KeepsItsOwn'
      <3> SUFFICES ASSUME NEW p \in Shared
                   PROVE  slot'[p] = Nothing \/ (slot'[p] \in Made' /\ Of(slot[p])' = p)
        BY DEF KeepsItsOwn, Nothing
      <3>1. PICK y : y = slot'[p]
        OBVIOUS
      <3>2. y = Nothing \/ (y \in Made' /\ Of(y)' = p)
        BY <1>7, <1>12, <3>1 DEF IInv, KeepsItsOwn
      <3> QED
        BY <3>1, <3>2 DEF Of
    <2>2. KeepsOne'
      <3> SUFFICES ASSUME NEW y \in Made', Of(y)' \in Shared PROVE slot'[Of(y)'] # Nothing
        BY DEF KeepsOne, Nothing
      <3> QED
        BY <1>7, <1>12 DEF IInv, KeepsOne
    <2> QED
      BY <2>1, <2>2
  <1>14. handed' \in [Threads -> Seq(Reply)] /\ AnswersFit'
    <2>1. CASE Serving /\ Len(s) = 1 /\ Answer(t, f.of, o)
      <3>1. f.of \in Routes
        BY <1>2, <1>4, <1>6, <2>1 DEF IInv, AskedFor
      <3> QED
        BY <1>1, <1>7, <2>1, <3>1, Answered DEF IInv
    <2>2. CASE handed' = handed
      <3>1. \A u \in Threads : \A i \in 1..Len(handed[u]) :
              \/ handed[u][i].is = Nothing
              \/ handed[u][i].is \in Made' /\ Of(handed[u][i].is)' = handed[u][i].of
        <4> SUFFICES ASSUME NEW u \in Threads, NEW i \in 1..Len(handed[u]), handed[u][i].is # Nothing
                     PROVE  handed[u][i].is \in Made' /\ Of(handed[u][i].is)' = handed[u][i].of
          OBVIOUS
        <4>1. PICK y : y = handed[u][i].is
          OBVIOUS
        <4>2. y \in Made /\ Of(y) = handed[u][i].of
          BY <4>1 DEF IInv, AnswersFit
        <4>3. y \in Made' /\ Of(y)' = handed[u][i].of
          BY <1>7, <4>2
        <4> QED
          BY <2>2, <4>1, <4>3 DEF Of
      <3> QED
        BY <1>1, <2>2, <3>1 DEF AnswersFit, Types, Nothing, Of
    <2> QED
      BY <1>6, <2>1, <2>2
  <1>15. Types'
    <2>1. slot' \in [Shared -> Ids]
      <3>1. f = Top(t)
        BY <1>2, <1>4 DEF Top
      <3>2. slot' = [p \in Shared |-> IF p = f.of THEN o ELSE slot[p]]
        BY <1>3, <3>1 DEF Make
      <3> QED
        BY <1>1, <3>2 DEF Types
    <2>2. Len(objects[Main]) <= Len(objects'[Main])
      BY <1>1, <1>6 DEF Types, Threads
    <2>3. Len(objects'[Main]) \in Nat /\ Len(objects[Main]) \in Nat
      BY <1>1, <1>7 DEF Types, Threads
    <2> QED
      BY <1>1, <1>6, <1>7, <1>14, <2>1, <2>2, <2>3 DEF Types
  <1>16. Alone'
    <2> SUFFICES ASSUME ~Serving' PROVE Alone'
      BY DEF Alone
    <2>1. /\ \A u \in Workers : stack[u] = <<>> /\ objects[u] = <<>>
          /\ \A u \in Threads : handed[u] = <<>>
          /\ raced = {} /\ booted = 0
      BY <1>9 DEF IInv, Alone
    <2>2. \A u \in Workers : u # t /\ u \in Threads
      BY <1>2, <1>6, <2>1 DEF Threads
    <2>3. \A u \in Workers : stack'[u] = <<>> /\ objects'[u] = <<>>
      BY <1>1, <1>6, <2>1, <2>2 DEF Types
    <2> QED
      BY <1>6, <1>9, <2>1, <2>3 DEF Alone
  <1>17. AskedFor'
    <2> SUFFICES ASSUME Serving', NEW u \in Threads, Len(stack'[u]) > 0 PROVE stack'[u][1].of \in Routes
      BY DEF AskedFor
    <2>1. 1 \in 1..Len(stack'[u])
      BY <1>6
    <2>2. Len(stack[u]) > 0 /\ stack'[u][1].of = stack[u][1].of
      BY <1>11, <2>1
    <2> QED
      BY <1>9, <2>2 DEF IInv, AskedFor
  <1>18. \A u \in Threads : Sound(stack[u])'
    <2> SUFFICES ASSUME NEW u \in Threads, u # t PROVE Sound(stack[u])'
      BY <1>6
    <2>1. PICK y : y = stack[u]
      OBVIOUS
    <2>2. Sound(y)'
      BY <1>1, <1>6, <1>7, <1>9, <2>1, SoundStays DEF IInv
    <2> QED
      BY <1>6, <2>1, <2>2, SoundNow
  <1>19. WiredAsPlugged'
    <2>0. \A d : Final(d)' = Final(d)
      BY <1>6 DEF Final
    <2> SUFFICES ASSUME NEW y \in Made', NEW d \in Needs[Of(y)']
                 PROVE  d \in DOMAIN Has(y)' /\ Has(y)'[d] \in Made' /\ Of(Has(y)[d])' = Final(d)
      BY <2>0 DEF WiredAsPlugged
    <2>1. CASE y \in Made
      <3>1. PICK z : z = Has(y)[d]
        OBVIOUS
      <3>2. d \in DOMAIN Has(y) /\ z \in Made /\ Of(z) = Final(d)
        BY <1>7, <2>1, <3>1 DEF IInv, WiredAsPlugged
      <3>3. Has(y)' = Has(y)
        BY <1>7, <2>1
      <3>4. z \in Made' /\ Of(z)' = Final(d)
        BY <1>7, <3>2
      <3> QED
        BY <3>1, <3>2, <3>3, <3>4 DEF Of
    <2>2. CASE y = o
      <3>1. d \in Needs[f.of] /\ d \in DOMAIN f.has
        BY <1>6, <1>7, <2>2
      <3>2. PICK z : z = f.has[d]
        OBVIOUS
      <3>3. Fits(f)
        BY <1>2, <1>4, <1>8 DEF IInv, Sound
      <3>4. z \in Made /\ Of(z) = Final(d)
        BY <3>1, <3>2, <3>3 DEF Fits
      <3>5. z \in Made' /\ Of(z)' = Final(d) /\ Has(y)' = f.has
        BY <1>7, <2>2, <3>4
      <3> QED
        BY <3>1, <3>2, <3>5 DEF Of
    <2> QED
      BY <1>7, <2>1, <2>2
  <1>20. RacesSeen'
    <2>1. \A u \in Threads : \A i \in 1..Len(stack'[u]) :
            stack'[u][i].of \in Shared /\ slot'[stack'[u][i].of] # Nothing => stack'[u][i].of \in raced
      <3> SUFFICES ASSUME NEW u \in Threads, NEW i \in 1..Len(stack'[u]),
                          stack'[u][i].of \in Shared, slot'[stack'[u][i].of] # Nothing
                   PROVE  stack'[u][i].of \in raced
        OBVIOUS
      <3>1. CASE stack'[u][i].of = f.of
        BY <1>10, <3>1
      <3>2. CASE stack'[u][i].of # f.of
        BY <1>11, <1>12, <3>2 DEF IInv, RacesSeen
      <3> QED
        BY <3>1, <3>2
    <2>2. \A u, v \in Threads : \A i \in 1..Len(stack'[u]) : \A j \in 1..Len(stack'[v]) :
            u # v /\ stack'[u][i].of = stack'[v][j].of /\ stack'[u][i].of \in Shared
              => stack'[u][i].of \in raced
      BY <1>11 DEF IInv, RacesSeen
    <2> QED
      BY <1>6, <2>1, <2>2 DEF RacesSeen, Nothing
  <1>21. SecondOnlyIfRaced'
    <2> SUFFICES ASSUME NEW y \in Made', Of(y)' \in Shared, Of(y)' \notin raced PROVE slot'[Of(y)'] = y
      BY <1>6 DEF SecondOnlyIfRaced
    <2>1. CASE y = o
      BY <1>7, <1>12, <2>1
    <2>2. CASE y \in Made
      <3>1. slot[Of(y)] = y /\ Of(y)' = Of(y) /\ slot[Of(y)] # Nothing
        BY <1>7, <2>2 DEF IInv, SecondOnlyIfRaced, KeepsOne
      <3>2. Of(y) # f.of
        BY <1>7, <1>10, <2>2, <3>1
      <3> QED
        BY <1>12, <3>1, <3>2
    <2> QED
      BY <1>7, <2>1, <2>2
  <1>22. Serving /\ f.of \in Shared => ~Booted(slot[f.of])
    BY <1>2, <1>4, <1>8 DEF IInv, BootedAtRest
  <1>23. ~Booted(o)
    BY <1>1, <1>3 DEF Booted, Types, Threads
  <1>24. \A y : Booted(y)' <=> Booted(y)
    BY <1>6 DEF Booted
  <1>25. BootedAtRest'
    <2> SUFFICES ASSUME Serving' PROVE BootedAtRest'
      BY DEF BootedAtRest
    <2>1. /\ \A u \in Threads : \A i \in 1..Len(stack[u]) :
               stack[u][i].of \in Shared => ~Booted(slot[stack[u][i].of])
          /\ \A p \in Shared : Booted(slot[p]) => p \notin raced
          /\ \A y \in Made : Booted(y) /\ Of(y) \in Shared => slot[Of(y)] = y
      BY <1>9 DEF IInv, BootedAtRest
    <2>2. \A u \in Threads : \A i \in 1..Len(stack'[u]) :
            stack'[u][i].of \in Shared => ~Booted(slot'[stack'[u][i].of])
      BY <1>11, <1>12, <1>23, <2>1
    <2>3. \A p \in Shared : Booted(slot'[p]) => p \notin raced
      BY <1>12, <1>23, <2>1
    <2>4. \A y \in Made' : Booted(y) /\ Of(y)' \in Shared => slot'[Of(y)'] = y
      BY <1>7, <1>9, <1>12, <1>22, <1>23, <2>1
    <2> QED
      BY <1>6, <2>2, <2>3, <2>4 DEF BootedAtRest, Booted
  <1>26. \A p \in Shared : Serving /\ Booted(slot[p]) => slot'[p] = slot[p]
    BY <1>12, <1>22
  <1> QED
    BY <1>13, <1>14, <1>15, <1>16, <1>17, <1>18, <1>19, <1>20, <1>21, <1>25, <1>26 DEF IInv

-----------------------------------------------------------------------------
(* The invariant                                                           *)

\* The script is walked without making anything (an override, or a Singleton that
\* is there already), or nothing happens.
LEMMA WalkKeeps ==
  ASSUME IInv, (pos <= Len(Script) /\ pos' = pos + 1) \/ pos' = pos,
         UNCHANGED <<wanted, slot, objects, stack, handed, booted, raced>>
  PROVE  IInv'
  <1>1. Len(Script) \in Nat /\ pos \in Nat /\ pos \in 1..(Len(Script) + 2)
    BY WiringAssumption DEF IInv, Types
  <1>2. pos' \in 1..(Len(Script) + 2) /\ pos' \in Nat /\ pos <= pos' /\ (Serving' <=> Serving)
    BY <1>1 DEF Serving
  <1>3. Made' = Made /\ (\A o : Of(o)' = Of(o)) /\ \A r : Sound(r) => Sound(r)'
    BY <1>2, NothingMade
  <1>4. \A t \in Threads : Sound(stack[t])'
    <2> SUFFICES ASSUME NEW t \in Threads PROVE Sound(stack[t])'
      OBVIOUS
    <2>1. PICK r : r = stack[t]
      OBVIOUS
    <2>2. Sound(r)' /\ stack'[t] = r
      BY <1>3, <2>1 DEF IInv
    <2> QED
      BY <2>2, SoundNow
  <1>5. AnswersFit'
    BY <1>3 DEF IInv, AnswersFit
  <1>6. stack' \in [Threads -> Seq(Frame)] /\ handed' \in [Threads -> Seq(Reply)]
    BY DEF IInv, Types
  <1>7. \A t \in Threads : \A i \in 1..Len(stack'[t]) :
          i \in 1..Len(stack[t]) /\ stack'[t][i].of = stack[t][i].of
    OBVIOUS
  <1> QED
    BY <1>2, <1>4, <1>5, <1>6, <1>7, ShrinkKeeps

LEMMA ConstructKeeps == IInv /\ Construct => IInv'
  <1> SUFFICES ASSUME IInv, Construct PROVE IInv'
    OBVIOUS
  <1>1. Types
    BY DEF IInv
  <1>2. PICK p : p = Script[pos].what
    OBVIOUS
  <1>3. /\ pos <= Len(Script) /\ Script[pos].do = "get" /\ Idle(Main) /\ pos' = pos + 1
        /\ Kept(p) => UNCHANGED <<stack, raced>>
        /\ ~Kept(p) => Begin(Main, p, p)
        /\ UNCHANGED <<wanted, slot, objects, handed, booted>>
    BY <1>2 DEF Construct
  <1>4. CASE Kept(p)
    BY <1>3, <1>4, WalkKeeps
  <1>5. CASE ~Kept(p)
    <2>1. Len(Script) \in Nat /\ pos \in 1..Len(Script) /\ pos \in Nat
      BY <1>1, <1>3, WiringAssumption DEF Types
    <2>2. p \in Providers
      <3>1. Script[pos] \in [do : {"plug"}, what : Ports] \cup [do : {"get"}, what : Providers]
        BY <2>1, WiringAssumption
      <3> QED
        BY <1>2, <1>3, <3>1
    <2>3. Needs[p] # {} => AllPlugged
      <3> SUFFICES ASSUME Needs[p] # {}, NEW i \in DOMAIN Script, Script[i].do = "plug" PROVE i < pos
        BY DEF AllPlugged
      <3>1. pos \in DOMAIN Script /\ i \in Nat
        BY <2>1, WiringAssumption
      <3>2. ~(pos < i)
        BY <1>2, <1>3, <3>1, WiringAssumption
      <3>3. pos # i
        BY <1>3
      <3> QED
        BY <2>1, <3>1, <3>2, <3>3
    <2>4. pos' \in 1..(Len(Script) + 2) /\ pos <= pos' /\ ~Serving' /\ ~Serving
      BY <1>3, <2>1 DEF Serving
    <2>5. Len(stack[Main]) = 0 /\ Main \in Threads /\ p \in Names
      BY <1>3, <2>2 DEF Idle, Threads, Names
    <2> QED
      BY <1>3, <1>5, <2>2, <2>3, <2>4, <2>5, BeginKeeps
  <1> QED
    BY <1>4, <1>5

LEMMA ServeKeeps == IInv /\ Serve => IInv'
  <1> SUFFICES ASSUME IInv, Serve PROVE IInv'
    OBVIOUS
  <1>1. Types
    BY DEF IInv
  <1>2. /\ pos = Len(Script) + 1 /\ stack[Main] = <<>> /\ pos' = pos + 1 /\ booted' = Len(objects[Main])
        /\ UNCHANGED <<wanted, slot, objects, stack, handed, raced>>
    BY DEF Serve, Idle
  <1>3. Len(Script) \in Nat
    BY WiringAssumption
  <1>4. ~Serving /\ Serving' /\ pos' \in 1..(Len(Script) + 2) /\ pos' \in Nat /\ pos <= pos'
    BY <1>2, <1>3 DEF Serving
  <1>5. (\A t \in Threads : stack[t] = <<>>) /\ raced = {}
    BY <1>2, <1>4 DEF IInv, Alone, Threads
  <1>6. /\ Made' = Made /\ \A o : Of(o)' = Of(o)
        /\ KeepsItsOwn' /\ KeepsOne' /\ WiredAsPlugged'
    BY <1>2, <1>4, NothingMade
  <1>7. Types'
    <2>1. Len(objects[Main]) \in Nat
      BY <1>1 DEF Types, Threads
    <2> QED
      BY <1>1, <1>2, <1>4, <2>1 DEF Types
  <1>8. Alone' /\ AskedFor'
    <2>1. \A t \in Threads : ~(Len(stack'[t]) > 0)
      BY <1>2, <1>5
    <2> QED
      BY <1>4, <2>1 DEF Alone, AskedFor
  <1>9. \A t \in Threads : Sound(stack[t])'
    <2> SUFFICES ASSUME NEW t \in Threads PROVE Sound(stack[t])'
      OBVIOUS
    <2>1. PICK r : r = <<>>
      OBVIOUS
    <2>2. Sound(r)'
      BY <2>1 DEF Sound
    <2>3. stack'[t] = r
      BY <1>2, <1>5, <2>1
    <2> QED
      BY <2>2, <2>3, SoundNow
  <1>10. AnswersFit' /\ SecondOnlyIfRaced'
    BY <1>2, <1>6 DEF IInv, AnswersFit, SecondOnlyIfRaced
  <1>11. RacesSeen'
    BY <1>2, <1>5 DEF RacesSeen
  <1>12. BootedAtRest'
    <2>1. \A t \in Threads : Len(stack'[t]) = 0
      BY <1>2, <1>5
    <2>2. raced' = {}
      BY <1>2, <1>5
    <2>3. \A o \in Made' : Of(o)' \in Shared => slot'[Of(o)'] = o
      BY <1>2, <1>5, <1>6 DEF IInv, SecondOnlyIfRaced
    <2> QED
      BY <2>1, <2>2, <2>3 DEF BootedAtRest
  <1> QED
    BY <1>6, <1>7, <1>8, <1>9, <1>10, <1>11, <1>12 DEF IInv

LEMMA AskKeeps ==
  ASSUME IInv, NEW t \in Threads, NEW p \in Routes, Ask(t, p)
  PROVE  IInv'
  <1>1. Types
    BY DEF IInv
  <1>2. /\ Serving /\ Idle(t)
        /\ Kept(p) => Answer(t, p, slot[p]) /\ UNCHANGED <<stack, raced>>
        /\ ~Kept(p) => Begin(t, p, p) /\ UNCHANGED handed
        /\ UNCHANGED <<wanted, pos, slot, objects, booted>>
    BY DEF Ask
  <1>3. pos' \in 1..(Len(Script) + 2) /\ pos' \in Nat /\ pos <= pos' /\ Serving'
    BY <1>1, <1>2, WiringAssumption DEF Types, Serving
  <1>4. p \in Providers /\ p \in Names
    BY WiringAssumption DEF Names
  <1>5. CASE Kept(p)
    <2>1. Made' = Made /\ (\A o : Of(o)' = Of(o)) /\ \A r : Sound(r) => Sound(r)'
      BY <1>2, <1>3, NothingMade
    <2>2. PICK o \in Ids : o = slot[p]
      BY <1>1, <1>5 DEF Types, Kept
    <2>3. o \in Made' /\ Of(o)' = p
      BY <1>5, <2>1, <2>2 DEF IInv, KeepsItsOwn, Kept
    <2>4. handed' \in [Threads -> Seq(Reply)] /\ AnswersFit'
      <3>1. AnswersFit /\ Answer(t, p, o)
        BY <1>2, <1>5, <2>2 DEF IInv
      <3> QED
        BY <1>1, <2>1, <2>3, <3>1, Answered
    <2>5. \A u \in Threads : Sound(stack[u])'
      <3> SUFFICES ASSUME NEW u \in Threads PROVE Sound(stack[u])'
        OBVIOUS
      <3>1. PICK r : r = stack[u]
        OBVIOUS
      <3>2. Sound(r)' /\ stack'[u] = r
        BY <1>2, <1>5, <2>1, <3>1 DEF IInv
      <3> QED
        BY <3>2, SoundNow
    <2>6. stack' = stack /\ stack' \in [Threads -> Seq(Frame)]
      BY <1>1, <1>2, <1>5 DEF Types
    <2>7. \A u \in Threads : \A i \in 1..Len(stack'[u]) :
            i \in 1..Len(stack[u]) /\ stack'[u][i].of = stack[u][i].of
      BY <2>6
    <2> QED
      BY <1>2, <1>3, <1>5, <2>4, <2>5, <2>6, <2>7, ShrinkKeeps
  <1>6. CASE ~Kept(p)
    <2>1. AllPlugged
      BY <1>1, <1>2, WiringAssumption DEF AllPlugged, Serving, Types
    <2>2. Len(stack[t]) = 0
      BY <1>2 DEF Idle
    <2> QED
      BY <1>2, <1>3, <1>4, <1>6, <2>1, <2>2, BeginKeeps
  <1> QED
    BY <1>5, <1>6

LEMMA TakeKeeps ==
  ASSUME IInv, NEW t \in Threads, Take(t)
  PROVE  IInv'
  <1>1. Types
    BY DEF IInv
  <1>2. ~Idle(t) /\ Missing(t) # {}
    BY DEF Take
  <1>3. PICK d \in Missing(t) : d = CHOOSE e \in Missing(t) : TRUE
    BY <1>2
  <1>4. PICK q : q = Target(d)
    OBVIOUS
  <1>5. /\ Kept(q) => stack' = [stack EXCEPT ![t] = Give(@, d, slot[q])] /\ UNCHANGED raced
        /\ ~Kept(q) => Begin(t, q, d)
        /\ UNCHANGED <<wanted, pos, slot, objects, handed, booted>>
    BY <1>3, <1>4 DEF Take
  <1>6. CASE Kept(q)
    <2>1. stack' = [stack EXCEPT ![t] = Give(stack[t], d, slot[q])]
      BY <1>1, <1>5, <1>6 DEF Types
    <2> QED
      BY <1>2, <1>4, <1>5, <1>6, <2>1, TakeKept
  <1>7. CASE ~Kept(q)
    <2>1. PICK s \in Seq(Frame) : s = stack[t]
      BY <1>1 DEF Types
    <2>2. Len(s) > 0 /\ Len(s) \in 1..Len(s)
      BY <1>2, <2>1 DEF Idle
    <2>3. s[Len(s)].of \in Providers
      <3>1. s[Len(s)] \in Frame
        BY <2>2
      <3> QED
        BY <3>1 DEF Frame
    <2>4. d \in Needs[s[Len(s)].of] \ DOMAIN s[Len(s)].has
      BY <2>1 DEF Missing, Top
    <2>5. d \in Names /\ Final(d) \in Providers
      BY <2>3, <2>4, FinalIs
    <2>6. AllPlugged
      BY <2>1, <2>2, <2>4 DEF IInv, Sound, Fits
    <2>7. q = Final(d) /\ q \in Providers
      BY <1>4, <2>5, <2>6, TargetIsFinal
    <2>8. Serving \/ t = Main
      BY <2>1, <2>2 DEF IInv, Alone, Threads
    <2>9. pos' \in 1..(Len(Script) + 2) /\ pos <= pos' /\ (Serving' <=> Serving)
      BY <1>1, <1>5, WiringAssumption DEF Types, Serving
    <2> QED
      BY <1>5, <1>7, <2>1, <2>2, <2>4, <2>5, <2>6, <2>7, <2>8, <2>9, BeginKeeps
  <1> QED
    BY <1>6, <1>7

LEMMA RaiseKeeps ==
  ASSUME IInv, NEW t \in Threads, Raise(t)
  PROVE  IInv'
  <1>1. Types
    BY DEF IInv
  <1>2. PICK s \in Seq(Frame) : s = stack[t]
    BY <1>1 DEF Types
  <1>3. /\ Serving /\ Len(s) > 0 /\ stack' = [stack EXCEPT ![t] = <<>>] /\ Answer(t, s[1].of, Nothing)
        /\ UNCHANGED <<wanted, pos, slot, objects, booted, raced>>
    BY <1>2 DEF Raise, Idle
  <1>4. pos' \in 1..(Len(Script) + 2) /\ pos' \in Nat /\ pos <= pos' /\ Serving'
    BY <1>1, <1>3, WiringAssumption DEF Types, Serving
  <1>5. Made' = Made /\ (\A o : Of(o)' = Of(o)) /\ \A r : Sound(r) => Sound(r)'
    BY <1>3, <1>4, NothingMade
  <1>6. s[1].of \in Routes
    BY <1>2, <1>3 DEF IInv, AskedFor
  <1>7. handed' \in [Threads -> Seq(Reply)] /\ AnswersFit'
    <2>1. AnswersFit /\ Nothing \in Ids
      BY DEF IInv, Nothing, Ids, Threads
    <2> QED
      BY <1>1, <1>3, <1>5, <1>6, <2>1, Answered
  <1>8. PICK r : r = <<>>
    OBVIOUS
  <1>9. /\ stack' \in [Threads -> Seq(Frame)] /\ stack'[t] = r
        /\ \A u \in Threads : u # t => stack'[u] = stack[u]
    BY <1>1, <1>3, <1>8 DEF Types
  <1>10. \A u \in Threads : Sound(stack[u])'
    <2> SUFFICES ASSUME NEW u \in Threads PROVE Sound(stack[u])'
      OBVIOUS
    <2>1. CASE u = t
      <3>1. Sound(r)'
        BY <1>8 DEF Sound
      <3> QED
        BY <1>9, <2>1, <3>1, SoundNow
    <2>2. CASE u # t
      <3>1. PICK x : x = stack[u]
        OBVIOUS
      <3>2. Sound(x)' /\ stack'[u] = x
        BY <1>5, <1>9, <2>2, <3>1 DEF IInv
      <3> QED
        BY <3>2, SoundNow
    <2> QED
      BY <2>1, <2>2
  <1>11. \A u \in Threads : \A i \in 1..Len(stack'[u]) :
           i \in 1..Len(stack[u]) /\ stack'[u][i].of = stack[u][i].of
    BY <1>8, <1>9
  <1> QED
    BY <1>3, <1>4, <1>7, <1>9, <1>10, <1>11, ShrinkKeeps

LEMMA NextKeeps == IInv /\ [Next]_vars => IInv'
  <1> SUFFICES ASSUME IInv, [Next]_vars PROVE IInv'
    OBVIOUS
  <1>1. CASE Plug
    BY <1>1, WalkKeeps DEF Plug
  <1>2. CASE Construct
    BY <1>2, ConstructKeeps
  <1>3. CASE Serve
    BY <1>3, ServeKeeps
  <1>4. ASSUME NEW t \in Threads, Take(t) PROVE IInv'
    BY <1>4, TakeKeeps
  <1>5. ASSUME NEW t \in Threads, Make(t) PROVE IInv'
    BY <1>5, MakeKeeps
  <1>6. ASSUME NEW t \in Threads, Raise(t) PROVE IInv'
    BY <1>6, RaiseKeeps
  <1>7. ASSUME NEW t \in Threads, NEW p \in Routes, Ask(t, p) PROVE IInv'
    BY <1>7, AskKeeps
  <1>8. CASE UNCHANGED vars
    BY <1>8, WalkKeeps DEF vars
  <1> QED
    BY <1>1, <1>2, <1>3, <1>4, <1>5, <1>6, <1>7, <1>8 DEF Next, Boots, Works

\* The strengthening: what is true of every stack and every Singleton at every step.
THEOREM Inductive == Spec => []IInv
  <1> QED
    BY InitHolds, NextKeeps, PTL DEF Spec

-----------------------------------------------------------------------------
(* What it implies                                                         *)

\* TypeOK: every Singleton keeps an object, every object under construction holds
\* only what its constructor takes, every request is answered for what it asked.
THEOREM TypeCorrect == Spec => []TypeOK
  <1>1. IInv => TypeOK
    <2> SUFFICES ASSUME IInv PROVE TypeOK
      OBVIOUS
    <2>1. Types
      BY DEF IInv
    <2>2. slot \in [Shared -> Made \cup {Nothing}]
      BY <2>1 DEF IInv, KeepsItsOwn, Types
    <2>3. \A o \in Made : Of(o) \in Providers
      BY <2>1, MadeTyped
    <2>4. \A t \in Threads : \A i \in DOMAIN stack[t] :
            stack[t][i].of \in Providers /\ DOMAIN stack[t][i].has \subseteq Needs[stack[t][i].of]
      <3> SUFFICES ASSUME NEW t \in Threads, NEW i \in DOMAIN stack[t]
                   PROVE  stack[t][i].of \in Providers /\ DOMAIN stack[t][i].has \subseteq Needs[stack[t][i].of]
        OBVIOUS
      <3>1. stack[t] \in Seq(Frame) /\ i \in 1..Len(stack[t])
        BY <2>1 DEF Types
      <3>2. stack[t][i] \in Frame /\ Fits(stack[t][i])
        BY <3>1 DEF IInv, Sound
      <3> QED
        BY <3>2 DEF Frame, Fits
    <2>5. \A t \in Threads : \A i \in DOMAIN handed[t] :
            handed[t][i].of \in Routes /\ handed[t][i].is \in Made \cup {Nothing}
      <3> SUFFICES ASSUME NEW t \in Threads, NEW i \in DOMAIN handed[t]
                   PROVE  handed[t][i].of \in Routes /\ handed[t][i].is \in Made \cup {Nothing}
        OBVIOUS
      <3>1. handed[t] \in Seq(Reply) /\ i \in 1..Len(handed[t])
        BY <2>1 DEF Types
      <3>2. handed[t][i].of \in Routes
        <4>1. handed[t][i] \in Reply
          BY <3>1
        <4> QED
          BY <4>1 DEF Reply
      <3>3. handed[t][i].is \in Made \cup {Nothing}
        BY <3>1 DEF IInv, AnswersFit
      <3> QED
        BY <3>2, <3>3
    <2>6. booted \in 0..Len(objects[Main])
      <3>1. Len(objects[Main]) \in Nat
        BY <2>1 DEF Types, Threads
      <3> QED
        BY <2>1, <3>1 DEF Types
    <2> QED
      BY <2>1, <2>2, <2>3, <2>4, <2>5, <2>6 DEF TypeOK, Types
  <1> QED
    BY <1>1, Inductive, PTL

\* WiredAsPlugged: whatever the graph and the order of the requests, every object
\* holds for each thing it takes an object of the provider that the fully plugged
\* container names.
THEOREM PluggedEverywhere == Spec => []WiredAsPlugged
  <1>1. IInv => WiredAsPlugged
    BY DEF IInv
  <1> QED
    BY <1>1, Inductive, PTL

\* SecondOnlyIfRaced: on any number of threads, a Singleton has a second object only
\* if two of them were constructing it at once.
THEOREM SecondNeedsRace == Spec => []SecondOnlyIfRaced
  <1>1. IInv => SecondOnlyIfRaced
    BY DEF IInv
  <1> QED
    BY <1>1, Inductive, PTL

\* BootedIsShared: what was made before serving began is the one object of its
\* Singleton for every thread and every request.
THEOREM BootedForAll == Spec => []BootedIsShared
  <1>1. IInv => BootedIsShared
    <2> SUFFICES ASSUME IInv PROVE BootedIsShared
      OBVIOUS
    <2>1. \A o : Booted(o) => Serving
      <3> SUFFICES ASSUME NEW o, Booted(o), ~Serving PROVE FALSE
        OBVIOUS
      <3>1. booted = 0 /\ o[2] \in 1..booted
        BY DEF IInv, Alone, Booted
      <3> QED
        BY <3>1
    <2>2. \A o \in Made : Of(o) \in Shared /\ Booted(slot[Of(o)]) => o = slot[Of(o)]
      BY <2>1 DEF IInv, BootedAtRest, SecondOnlyIfRaced
    <2>3. \A o \in Made : Booted(o) /\ Of(o) \in Shared => slot[Of(o)] = o
      BY <2>1 DEF IInv, BootedAtRest
    <2>4. \A t \in Threads : \A i \in DOMAIN handed[t] :
            handed[t][i].of \in Shared /\ Booted(slot[handed[t][i].of])
              => handed[t][i].is \in {slot[handed[t][i].of], Nothing}
      <3> SUFFICES ASSUME NEW t \in Threads, NEW i \in DOMAIN handed[t],
                          handed[t][i].of \in Shared, Booted(slot[handed[t][i].of]),
                          handed[t][i].is # Nothing
                   PROVE  handed[t][i].is = slot[handed[t][i].of]
        OBVIOUS
      <3>1. handed[t] \in Seq(Reply)
        BY DEF IInv, Types
      <3>2. i \in 1..Len(handed[t])
        BY <3>1
      <3>3. handed[t][i].is \in Made /\ Of(handed[t][i].is) = handed[t][i].of
        BY <3>2 DEF IInv, AnswersFit
      <3> QED
        BY <2>2, <3>3
    <2> QED
      BY <2>2, <2>3, <2>4 DEF BootedIsShared
  <1> QED
    BY <1>1, Inductive, PTL

\* BootedStays: once serving has begun, no step of any thread stores a Singleton
\* made by then anew.
THEOREM BootedKept == Spec => BootedStays
  <1>1. IInv /\ [Next]_vars => [\A p \in Shared : Serving /\ Booted(slot[p]) => slot'[p] = slot[p]]_vars
    <2> SUFFICES ASSUME IInv, [Next]_vars
                 PROVE  [\A p \in Shared : Serving /\ Booted(slot[p]) => slot'[p] = slot[p]]_vars
      OBVIOUS
    <2>1. ASSUME NEW t \in Threads, Make(t)
          PROVE  \A p \in Shared : Serving /\ Booted(slot[p]) => slot'[p] = slot[p]
      BY <2>1, MakeKeeps
    <2>2. (\E t \in Threads : Make(t)) \/ UNCHANGED slot
      BY DEF Next, Boots, Works, Plug, Construct, Serve, Take, Raise, Ask, vars
    <2> QED
      BY <2>1, <2>2
  <1> QED
    BY <1>1, Inductive, PTL DEF Spec, BootedStays

-----------------------------------------------------------------------------
(* The dataset registry: any paths, contents, changes and calls.           *)
(*                                                                         *)
(* A record that is in a caller's hands counts as much as a row: an id is  *)
(* used for one path only, and a new one is used for none.                 *)
CONSTANTS Order, Contents, Watcher, Scanner, Admin, Budget, DatasetIds
VARIABLES disk, rows, pc, at, found, held, exists, calls
D == INSTANCE Datasets WITH Ids <- DatasetIds

\* The instance has its own names for what FiniteSets defines.
LEMMA DataSizes == \A S : (D!IsFiniteSet(S) <=> IsFiniteSet(S)) /\ D!Cardinality(S) = Cardinality(S)
BY DEF D!IsFiniteSet, IsFiniteSet, D!Cardinality, Cardinality

Saving == {"process", "load", "commit"}
Places == {"idle", "scan", "check", "process", "load", "commit"}
Finds == [path : D!Paths, hash : Nat]
DataTypes ==
  /\ calls \in 0..Budget /\ disk \in [D!Paths -> Nat] /\ DOMAIN rows = D!Paths
  /\ pc \in [D!Callers -> Places] /\ at \in [D!Callers -> Nat \ {0}]
  /\ found \in [D!Callers -> Seq(Finds)] /\ DOMAIN held = D!Callers /\ DOMAIN exists = D!Callers

\* A record has an id and the category of its content.
RowOK(r) ==
  /\ r.id \in DatasetIds /\ r.category = D!Classify(Contents[r.hash])
  /\ {"id", "hash", "category", "status", "indexing", "deleted"} = DOMAIN r
HeldOK(h) == h.path \in D!Paths /\ RowOK(h.row) /\ DOMAIN h = {"path", "row"}
PlaceInv ==
  /\ \A p \in D!Paths : rows[p] # D!NoRow => RowOK(rows[p])
  /\ \A c \in D!Callers :
       /\ pc[c] = "idle" => at[c] = 1
       /\ pc[c] = "scan" => at[c] <= Len(Order)
       /\ IF pc[c] \in Saving THEN HeldOK(held[c]) ELSE held[c] = D!Nothing

\* An id belongs to one path, in the rows and in the records that are being saved.
Uses(i, p) == rows[p].id = i \/ \E c \in D!Callers : held[c].path = p /\ held[c].row.id = i
ApartInv == \A i \in DatasetIds : \A p, q \in D!Paths : Uses(i, p) /\ Uses(i, q) => p = q

DataIInv == D!Sensible /\ DataTypes /\ PlaceInv /\ ApartInv

LEMMA DataInitHolds == D!Sensible /\ D!Init => DataIInv
<1> SUFFICES ASSUME D!Sensible, D!Init PROVE DataIInv
  OBVIOUS
<1>1. DataTypes /\ PlaceInv
  BY DEF D!Init, DataTypes, PlaceInv, Saving, Places, D!Sensible
<1>2. ApartInv
  BY DEF D!Init, ApartInv, Uses, D!NoRow, D!Nothing, D!Sensible
<1> QED
  BY <1>1, <1>2 DEF DataIInv

\* Where no id comes to a path it was not used for.
LEMMA ApartKept ==
  ASSUME ApartInv, \A i \in DatasetIds : \A p \in D!Paths : Uses(i, p)' => Uses(i, p)
  PROVE  ApartInv'
BY DEF ApartInv

LEMMA OrderIs == ASSUME D!Sensible, NEW n \in 1..Len(Order) PROVE Order[n] \in D!Paths
BY DEF D!Sensible, D!Paths, D!ToSet

\* What the values of a function on a finite set are.
LEMMA FiniteValues ==
  ASSUME NEW S, IsFiniteSet(S), NEW f, DOMAIN f = S
  PROVE  IsFiniteSet({f[x] : x \in S}) /\ Cardinality({f[x] : x \in S}) <= Cardinality(S)
<1> DEFINE T == {f[x] : x \in S}
           g == [x \in S |-> f[x]]
<1>1. g \in Surjection(S, T)
  BY DEF Surjection
<1> HIDE DEF T, g
<1>2. IsFiniteSet(T) /\ Cardinality(T) <= Cardinality(S)
  BY <1>1, FS_Surjection
<1> QED
  BY <1>2 DEF T

\* There are enough ids.
LEMMA FreshIdIs ==
  ASSUME DataIInv, NEW c \in D!Callers, pc[c] \notin Saving
  PROVE  D!FreshId \in DatasetIds /\ \A p \in D!Paths : ~Uses(D!FreshId, p)
<1> DEFINE inRows == {rows[p].id : p \in D!Paths}
           inHand == {held[d].row.id : d \in D!Callers \ {c}}
<1>1. IsFiniteSet(D!Paths) /\ IsFiniteSet(D!Callers) /\ IsFiniteSet(D!Callers \ {c})
  <2>1. IsFiniteSet(1..Len(Order)) /\ D!Paths = {Order[n] : n \in 1..Len(Order)}
    <3>1. Len(Order) \in Int /\ DOMAIN Order = 1..Len(Order)
      BY DEF DataIInv, D!Sensible
    <3>2. IsFiniteSet(1..Len(Order))
      BY <3>1, FS_Interval
    <3>3. D!Paths = {Order[n] : n \in DOMAIN Order}
      BY DEF D!Paths, D!ToSet
    <3> QED
      BY <3>1, <3>2, <3>3
  <2>2. IsFiniteSet(D!Paths)
    BY <2>1, FiniteValues DEF DataIInv, D!Sensible
  <2>3. IsFiniteSet({Watcher}) /\ IsFiniteSet({Scanner}) /\ IsFiniteSet({Admin})
    BY FS_Singleton
  <2>4. IsFiniteSet(D!Callers)
    <3>1. IsFiniteSet({Watcher} \cup {Scanner})
      BY <2>3, FS_Union
    <3>2. IsFiniteSet(({Watcher} \cup {Scanner}) \cup {Admin})
      BY <2>3, <3>1, FS_Union
    <3>3. D!Callers = ({Watcher} \cup {Scanner}) \cup {Admin}
      BY DEF D!Callers, D!Scanners
    <3> QED
      BY <3>2, <3>3
  <2> QED
    BY <2>2, <2>4, FS_Subset
<1>2. IsFiniteSet(inRows) /\ Cardinality(inRows) <= Cardinality(D!Paths)
  <2> DEFINE f == [p \in D!Paths |-> rows[p].id]
  <2>1. DOMAIN f = D!Paths /\ inRows = {f[p] : p \in D!Paths}
    OBVIOUS
  <2> HIDE DEF f, inRows
  <2> QED
    BY <1>1, <2>1, FiniteValues
<1>3. IsFiniteSet(inHand) /\ Cardinality(inHand) <= Cardinality(D!Callers \ {c})
  <2> DEFINE S == D!Callers \ {c}
             f == [d \in S |-> held[d].row.id]
  <2>1. DOMAIN f = S /\ inHand = {f[d] : d \in S}
    OBVIOUS
  <2>2. IsFiniteSet(S)
    BY <1>1
  <2> HIDE DEF f, inHand, S
  <2>3. IsFiniteSet(inHand) /\ Cardinality(inHand) <= Cardinality(S)
    BY <2>1, <2>2, FiniteValues
  <2> QED
    BY <2>3 DEF S
<1>4. Cardinality(D!Callers \ {c}) = Cardinality(D!Callers) - 1 /\ Cardinality(D!Callers) \in Nat /\ Cardinality(D!Paths) \in Nat
  BY <1>1, FS_RemoveElement, FS_CardinalityType
<1> HIDE DEF inRows, inHand
<1>5. IsFiniteSet(inRows \cup inHand) /\ Cardinality(inRows \cup inHand) < Cardinality(DatasetIds)
  <2>1. Cardinality(inRows \cup inHand) <= Cardinality(inRows) + Cardinality(inHand) /\ IsFiniteSet(inRows \cup inHand)
    <3>1. Cardinality(inRows \cup inHand) = Cardinality(inRows) + Cardinality(inHand) - Cardinality(inRows \cap inHand)
          /\ IsFiniteSet(inRows \cup inHand)
      BY <1>2, <1>3, FS_Union
    <3>2. IsFiniteSet(inRows \cap inHand)
      BY <1>2, FS_Subset
    <3>3. Cardinality(inRows \cap inHand) \in Nat
      BY <3>2, FS_CardinalityType
    <3>4. Cardinality(inRows) \in Nat /\ Cardinality(inHand) \in Nat
      BY <1>2, <1>3, FS_CardinalityType
    <3> QED
      BY <3>1, <3>3, <3>4
  <2>2. Cardinality(inRows) \in Nat /\ Cardinality(inHand) \in Nat /\ Cardinality(DatasetIds) \in Nat /\ Cardinality(inRows \cup inHand) \in Nat
    BY <1>2, <1>3, <2>1, FS_CardinalityType, DataSizes DEF DataIInv, D!Sensible
  <2>3. Cardinality(DatasetIds) >= Cardinality(D!Paths) + Cardinality(D!Callers)
    BY DataSizes DEF DataIInv, D!Sensible
  <2> QED
    BY <1>2, <1>3, <1>4, <2>1, <2>2, <2>3
<1>6. \E i \in DatasetIds : i \notin inRows /\ i \notin inHand
  <2> SUFFICES ASSUME DatasetIds \subseteq inRows \cup inHand PROVE FALSE
    OBVIOUS
  <2>1. Cardinality(DatasetIds) <= Cardinality(inRows \cup inHand)
    BY <1>5, FS_Subset
  <2>2. Cardinality(DatasetIds) \in Nat /\ Cardinality(inRows \cup inHand) \in Nat
    BY <1>5, FS_CardinalityType, DataSizes DEF DataIInv, D!Sensible
  <2> QED
    BY <1>5, <2>1, <2>2
<1>7. held[c].row.id = 0
  BY DEF DataIInv, PlaceInv, D!Nothing, D!NoRow
<1>8. \E i \in DatasetIds : \A p \in D!Paths : rows[p].id # i /\ \A d \in D!Callers : held[d].row.id # i
  BY <1>6, <1>7 DEF inRows, inHand, DataIInv, D!Sensible
<1>9. D!FreshId \in DatasetIds /\ \A p \in D!Paths : rows[p].id # D!FreshId /\ \A d \in D!Callers : held[d].row.id # D!FreshId
  BY <1>8 DEF D!FreshId
<1> QED
  BY <1>9 DEF Uses

-----------------------------------------------------------------------------
(* Steps of a scan                                                         *)

LEMMA RowIsOK == ASSUME NEW i \in DatasetIds, NEW n PROVE RowOK(D!Row(i, n)) /\ D!Row(i, n).id = i
BY DEF RowOK, D!Row

\* Where a caller is that holds nothing, and what it found.
Resting(c) ==
  /\ pc \in [D!Callers -> Places] /\ at \in [D!Callers -> Nat \ {0}] /\ found \in [D!Callers -> Seq(Finds)]
  /\ pc[c] \notin Saving /\ (pc[c] = "idle" => at[c] = 1) /\ (pc[c] = "scan" => at[c] <= Len(Order))
Others(c) == \A d \in D!Callers \ {c} : pc'[d] = pc[d] /\ at'[d] = at[d]

LEMMA Moves ==
  ASSUME DataIInv, NEW c \in D!Callers, NEW place \in {"idle", "scan", "check"}, NEW k \in Nat \ {0}, NEW s \in Seq(Finds),
         pc' = [pc EXCEPT ![c] = place], at' = [at EXCEPT ![c] = k], found' = [found EXCEPT ![c] = s],
         place = "idle" => k = 1, place = "scan" => k <= Len(Order)
  PROVE  Resting(c)' /\ Others(c)
<1>1. pc \in [D!Callers -> Places] /\ at \in [D!Callers -> Nat \ {0}] /\ found \in [D!Callers -> Seq(Finds)]
  BY DEF DataIInv, DataTypes
<1>2. place \in Places /\ place \notin Saving
  BY DEF Places, Saving
<1>3. pc' \in [D!Callers -> Places] /\ pc'[c] = place /\ \A d \in D!Callers \ {c} : pc'[d] = pc[d]
  BY <1>1, <1>2
<1>4. at' \in [D!Callers -> Nat \ {0}] /\ at'[c] = k /\ \A d \in D!Callers \ {c} : at'[d] = at[d]
  BY <1>1
<1>5. found' \in [D!Callers -> Seq(Finds)]
  BY <1>1
<1> QED
  BY <1>2, <1>3, <1>4, <1>5 DEF Resting, Others

LEMMA MovesToIdle ==
  ASSUME DataIInv, NEW c \in D!Callers, pc' = [pc EXCEPT ![c] = "idle"], at' = [at EXCEPT ![c] = 1], found' = [found EXCEPT ![c] = <<>>]
  PROVE  Resting(c)' /\ Others(c)
<1> DEFINE place == "idle"
           k == 1
           s == <<>>
<1>1. place \in {"idle", "scan", "check"} /\ place # "scan" /\ k = 1 /\ k \in Nat \ {0} /\ s \in Seq(Finds)
  OBVIOUS
<1>2. pc' = [pc EXCEPT ![c] = place] /\ at' = [at EXCEPT ![c] = k] /\ found' = [found EXCEPT ![c] = s]
  OBVIOUS
<1> HIDE DEF place, k, s
<1> QED
  BY <1>1, <1>2, Moves

LEMMA StartScanMoves == ASSUME DataIInv, NEW c \in D!Callers, D!StartScan(c) PROVE Resting(c)' /\ Others(c)
<1>1. pc' = [pc EXCEPT ![c] = "scan"] /\ at[c] = 1 /\ at' = at /\ found' = found
  BY DEF D!StartScan, D!Goto, DataIInv, PlaceInv
<1>2. at \in [D!Callers -> Nat \ {0}] /\ found \in [D!Callers -> Seq(Finds)] /\ Len(Order) \in Nat \ {0}
  BY DEF DataIInv, DataTypes, D!Sensible
<1> DEFINE place == "scan"
           k == 1
<1>3. pc' = [pc EXCEPT ![c] = place] /\ at' = [at EXCEPT ![c] = k] /\ found' = [found EXCEPT ![c] = found[c]] /\ found[c] \in Seq(Finds)
  BY <1>1, <1>2
<1>4. place \in {"idle", "scan", "check"} /\ place # "idle" /\ k \in Nat \ {0} /\ k <= Len(Order)
  BY <1>2
<1> HIDE DEF place, k
<1> QED
  BY <1>3, <1>4, Moves

LEMMA ScanFileMoves == ASSUME DataIInv, NEW c \in D!Callers, D!ScanFile(c) PROVE Resting(c)' /\ Others(c)
<1> DEFINE p == Order[at[c]]
           e == [path |-> p, hash |-> disk[p]]
           more == Append(found[c], e)
           k == IF at[c] < Len(Order) THEN at[c] + 1 ELSE 1
           place == IF at[c] < Len(Order) THEN "scan" ELSE "check"
<1>1. at \in [D!Callers -> Nat \ {0}] /\ found \in [D!Callers -> Seq(Finds)] /\ disk \in [D!Paths -> Nat] /\ Len(Order) \in Nat \ {0}
  BY DEF DataIInv, DataTypes, D!Sensible
<1>2. at[c] \in 1..Len(Order) /\ p \in D!Paths
  BY <1>1, OrderIs DEF D!ScanFile, D!Goto, DataIInv, PlaceInv
<1>3. e \in Finds /\ found[c] \in Seq(Finds)
  BY <1>1, <1>2 DEF Finds
<1>4. more \in Seq(Finds)
  <2> HIDE DEF e
  <2> QED
    BY <1>3
<1>5. found' = [found EXCEPT ![c] = found[c]] \/ found' = [found EXCEPT ![c] = more]
  BY <1>1 DEF D!ScanFile
<1>6. pc' = [pc EXCEPT ![c] = place] /\ at' = [at EXCEPT ![c] = k]
  BY DEF D!ScanFile, D!Goto
<1>7. place \in {"idle", "scan", "check"} /\ place # "idle" /\ k \in Nat \ {0} /\ k <= Len(Order)
  BY <1>1, <1>2
<1> HIDE DEF more, k, place
<1> QED
  BY <1>3, <1>4, <1>5, <1>6, <1>7, Moves

LEMMA TouchMoves == ASSUME DataIInv, NEW c \in D!Callers, D!Touch(c) PROVE Resting(c)' /\ Others(c)
<1>1. pc[c] = "check" /\ pc' = pc /\ at' = [at EXCEPT ![c] = at[c] + 1] /\ found' = found
  BY DEF D!Touch
<1>2. pc \in [D!Callers -> Places] /\ at \in [D!Callers -> Nat \ {0}] /\ found \in [D!Callers -> Seq(Finds)]
  BY DEF DataIInv, DataTypes
<1>3. pc' = [pc EXCEPT ![c] = "check"] /\ found' = [found EXCEPT ![c] = found[c]] /\ found[c] \in Seq(Finds) /\ at[c] + 1 \in Nat \ {0}
  BY <1>1, <1>2
<1> QED
  BY <1>1, <1>3, Moves

LEMMA ScanKeeps ==
  ASSUME DataIInv, NEW c \in D!Scanners, D!StartScan(c) \/ D!ScanFile(c) \/ D!Touch(c) \/ D!ScanOver(c)
  PROVE  DataIInv'
<1>1. /\ c \in D!Callers /\ rows' = rows /\ held' = held /\ exists' = exists /\ disk' = disk
      /\ pc[c] \notin Saving
  BY DEF D!Callers, D!StartScan, D!ScanFile, D!Touch, D!ScanOver, D!Goto, Saving
<1>2. calls' \in 0..Budget
  BY DEF DataIInv, DataTypes, D!Sensible, D!StartScan, D!ScanFile, D!Touch, D!ScanOver
<1>3. Resting(c)' /\ Others(c)
  <2>1. CASE D!ScanOver(c)
    <3>1. pc' = [pc EXCEPT ![c] = "idle"] /\ at' = [at EXCEPT ![c] = 1] /\ found' = [found EXCEPT ![c] = <<>>]
      BY <2>1 DEF D!ScanOver, D!Goto
    <3> QED
      BY <1>1, <3>1, MovesToIdle
  <2> QED
    BY <1>1, <2>1, StartScanMoves, ScanFileMoves, TouchMoves
<1>4. DataTypes'
  BY <1>1, <1>2, <1>3 DEF DataIInv, DataTypes, Resting
<1>5. PlaceInv'
  <2>1. ASSUME NEW d \in D!Callers
        PROVE  /\ pc'[d] = "idle" => at'[d] = 1
               /\ pc'[d] = "scan" => at'[d] <= Len(Order)
               /\ IF pc'[d] \in Saving THEN HeldOK(held'[d]) ELSE held'[d] = D!Nothing
    <3>1. CASE d = c
      BY <1>1, <1>3, <3>1 DEF DataIInv, PlaceInv, Resting
    <3>2. CASE d # c
      BY <1>1, <1>3, <3>2 DEF DataIInv, PlaceInv, Others
    <3> QED
      BY <3>1, <3>2
  <2> QED
    BY <1>1, <2>1 DEF DataIInv, PlaceInv
<1>6. ApartInv'
  BY <1>1, ApartKept DEF DataIInv, Uses
<1> QED
  BY <1>4, <1>5, <1>6 DEF DataIInv, D!Sensible

\* A caller takes a record into its hands; of its id nobody else knows another path.
LEMMA TakesUp ==
  ASSUME DataIInv, NEW c \in D!Callers, pc[c] \notin Saving, NEW h, HeldOK(h), held' = [held EXCEPT ![c] = h],
         NEW to \in Saving, pc' = [pc EXCEPT ![c] = to], UNCHANGED <<disk, rows, at, found, exists>>, calls' \in 0..Budget,
         \A p \in D!Paths : Uses(h.row.id, p) => p = h.path
  PROVE  DataIInv'
<1>1. /\ pc \in [D!Callers -> Places] /\ DOMAIN held = D!Callers
  BY DEF DataIInv, DataTypes
<1>2. /\ pc' \in [D!Callers -> Places] /\ pc'[c] = to /\ held'[c] = h /\ DOMAIN held' = D!Callers
      /\ \A d \in D!Callers \ {c} : pc'[d] = pc[d] /\ held'[d] = held[d]
  BY <1>1 DEF Places, Saving
<1>3. DataTypes'
  BY <1>2 DEF DataIInv, DataTypes
<1>4. PlaceInv'
  BY <1>2 DEF DataIInv, PlaceInv, Saving
<1>5. ApartInv'
  <2>1. ASSUME NEW i \in DatasetIds, NEW p \in D!Paths, Uses(i, p)' PROVE Uses(i, p) \/ (i = h.row.id /\ p = h.path)
    BY <1>2, <2>1 DEF Uses
  <2> QED
    BY <2>1 DEF DataIInv, ApartInv, HeldOK, RowOK
<1> QED
  BY <1>3, <1>4, <1>5 DEF DataIInv, D!Sensible

LEMMA NewContentKeeps ==
  ASSUME DataIInv, NEW c \in D!Scanners, D!NewContent(c)
  PROVE  DataIInv'
<1> DEFINE f == found[c][at[c]]
           h == [path |-> f.path, row |-> D!Row(D!FreshId, f.hash)]
<1>1. c \in D!Callers /\ pc[c] = "check" /\ pc[c] \notin Saving
  BY DEF D!Callers, D!NewContent, D!Goto, Saving
<1>2. f \in Finds
  <2> DEFINE s == found[c]
             k == at[c]
  <2>1. s \in Seq(Finds) /\ k \in Nat \ {0} /\ k <= Len(s)
    BY <1>1 DEF DataIInv, DataTypes, D!NewContent
  <2> HIDE DEF s, k
  <2>2. k \in 1..Len(s)
    BY <2>1
  <2>3. s[k] \in Finds
    BY <2>1, <2>2
  <2> QED
    BY <2>3 DEF s, k
<1>3. D!FreshId \in DatasetIds /\ \A p \in D!Paths : ~Uses(D!FreshId, p)
  BY <1>1, FreshIdIs
<1>4. RowOK(D!Row(D!FreshId, f.hash)) /\ D!Row(D!FreshId, f.hash).id = D!FreshId
  BY <1>3, RowIsOK
<1>5. HeldOK(h) /\ h.row.id = D!FreshId
  BY <1>2, <1>4 DEF HeldOK, Finds
<1>6. /\ held' = [held EXCEPT ![c] = h] /\ pc' = [pc EXCEPT ![c] = "process"] /\ "process" \in Saving
      /\ UNCHANGED <<disk, rows, at, found, exists>> /\ calls' \in 0..Budget
  BY DEF D!NewContent, D!Goto, Saving, DataIInv, DataTypes
<1> HIDE DEF h
<1> QED
  BY <1>1, <1>3, <1>5, <1>6, TakesUp

-----------------------------------------------------------------------------
(* Steps of a save                                                         *)

LEMMA ProcessKeeps ==
  ASSUME DataIInv, NEW c \in D!Callers, D!Process(c)
  PROVE  DataIInv'
<1> DEFINE h == held[c]
           status == D!Outcome(disk[h.path])
           new == [h EXCEPT !.row.status = status]
<1>1. /\ pc[c] = "process" /\ pc' = [pc EXCEPT ![c] = "load"] /\ held' = [held EXCEPT ![c] = new]
      /\ UNCHANGED <<disk, rows, at, found, exists, calls>>
  BY DEF D!Process, D!Goto
<1>2. HeldOK(h) /\ pc \in [D!Callers -> Places] /\ DOMAIN held = D!Callers
  BY <1>1 DEF DataIInv, PlaceInv, DataTypes, Saving
<1> HIDE DEF h, status
<1>3. HeldOK(new) /\ new.path = h.path /\ new.row.id = h.row.id
  <2> DEFINE r == h.row
             s == [r EXCEPT !.status = status]
  <2>1. RowOK(r) /\ DOMAIN h = {"path", "row"} /\ h.path \in D!Paths
    BY <1>2 DEF HeldOK
  <2>2. DOMAIN new = {"path", "row"} /\ new.path = h.path /\ new.row = s
    BY <2>1
  <2> HIDE DEF r
  <2>3. DOMAIN s = DOMAIN r /\ s.id = r.id /\ s.hash = r.hash /\ s.category = r.category
    BY <2>1 DEF RowOK
  <2> HIDE DEF s, new
  <2>4. RowOK(s)
    BY <2>1, <2>3 DEF RowOK
  <2> QED
    BY <2>1, <2>2, <2>3, <2>4 DEF HeldOK, r
<1> HIDE DEF new
<1>4. /\ pc' \in [D!Callers -> Places] /\ pc'[c] = "load" /\ held'[c] = new /\ DOMAIN held' = D!Callers
      /\ \A d \in D!Callers \ {c} : pc'[d] = pc[d] /\ held'[d] = held[d]
  BY <1>1, <1>2 DEF Places
<1>5. DataTypes'
  BY <1>1, <1>4 DEF DataIInv, DataTypes
<1>6. PlaceInv'
  BY <1>1, <1>3, <1>4 DEF DataIInv, PlaceInv, Saving
<1>7. ApartInv'
  <2>1. ASSUME NEW i \in DatasetIds, NEW p \in D!Paths, Uses(i, p)' PROVE Uses(i, p)
    BY <1>1, <1>3, <1>4, <2>1 DEF Uses, h
  <2> QED
    BY <2>1, ApartKept DEF DataIInv
<1> QED
  BY <1>5, <1>6, <1>7 DEF DataIInv, D!Sensible

LEMMA LoadExistingKeeps ==
  ASSUME DataIInv, NEW c \in D!Callers, D!LoadExisting(c)
  PROVE  DataIInv'
<1>1. /\ pc[c] = "load" /\ pc' = [pc EXCEPT ![c] = "commit"] /\ DOMAIN exists' = D!Callers
      /\ UNCHANGED <<disk, rows, at, found, held, calls>> /\ pc \in [D!Callers -> Places]
  BY DEF D!LoadExisting, D!Goto, DataIInv, DataTypes
<1>2. DataTypes'
  BY <1>1 DEF DataIInv, DataTypes, Places
<1>3. PlaceInv'
  BY <1>1 DEF DataIInv, PlaceInv, Saving
<1>4. ApartInv'
  BY <1>1, ApartKept DEF DataIInv, Uses
<1> QED
  BY <1>2, <1>3, <1>4 DEF DataIInv, D!Sensible

LEMMA CommitKeeps ==
  ASSUME DataIInv, NEW c \in D!Callers, D!Commit(c) \/ D!CommitFails(c)
  PROVE  DataIInv'
<1> DEFINE h == held[c]
<1>1. /\ pc[c] = "commit" /\ held' = [held EXCEPT ![c] = D!Nothing] /\ exists' = [exists EXCEPT ![c] = FALSE]
      /\ UNCHANGED <<disk, calls>>
  BY DEF D!Commit, D!CommitFails, D!Leave, D!Goto
<1>2. /\ pc \in [D!Callers -> Places] /\ at \in [D!Callers -> Nat \ {0}] /\ DOMAIN rows = D!Paths
      /\ found \in [D!Callers -> Seq(Finds)] /\ DOMAIN held = D!Callers /\ DOMAIN exists = D!Callers
  BY DEF DataIInv, DataTypes
<1>3. HeldOK(h)
  BY <1>1 DEF DataIInv, PlaceInv, Saving
<1>4. Resting(c)' /\ Others(c)
  <2>1. CASE D!Commit(c)
    <3> DEFINE place == IF c = Admin THEN "idle" ELSE "check"
               k == IF c = Admin THEN 1 ELSE at[c] + 1
    <3>1. pc' = [pc EXCEPT ![c] = place] /\ at' = [at EXCEPT ![c] = k] /\ found' = [found EXCEPT ![c] = found[c]]
      BY <1>2, <2>1 DEF D!Commit, D!Goto
    <3>2. place \in {"idle", "scan", "check"} /\ place # "scan" /\ k \in Nat \ {0} /\ (place = "idle" => k = 1) /\ found[c] \in Seq(Finds)
      BY <1>2
    <3> HIDE DEF place, k
    <3> QED
      BY <3>1, <3>2, Moves
  <2>2. CASE D!CommitFails(c)
    <3>1. pc' = [pc EXCEPT ![c] = "idle"] /\ at' = [at EXCEPT ![c] = 1] /\ found' = [found EXCEPT ![c] = <<>>]
      BY <2>2 DEF D!CommitFails, D!Goto
    <3> QED
      BY <3>1, MovesToIdle
  <2> QED
    BY <2>1, <2>2
<1>5. rows' = rows \/ rows' = [rows EXCEPT ![h.path] = h.row]
  BY DEF D!Commit, D!CommitFails
<1>6. held'[c] = D!Nothing /\ DOMAIN held' = D!Callers /\ \A d \in D!Callers \ {c} : held'[d] = held[d]
  BY <1>1, <1>2
<1>7. DOMAIN rows' = D!Paths /\ \A p \in D!Paths : rows'[p] = rows[p] \/ (p = h.path /\ rows'[p] = h.row)
  BY <1>2, <1>3, <1>5 DEF HeldOK
<1>8. DataTypes'
  BY <1>1, <1>2, <1>4, <1>6, <1>7 DEF DataIInv, DataTypes, Resting
<1>9. PlaceInv'
  <2>1. RowOK(h.row)
    BY <1>3 DEF HeldOK
  <2>2. \A p \in D!Paths : rows'[p] # D!NoRow => RowOK(rows'[p])
    BY <1>7, <2>1 DEF DataIInv, PlaceInv
  <2>3. ASSUME NEW d \in D!Callers
        PROVE  /\ pc'[d] = "idle" => at'[d] = 1
               /\ pc'[d] = "scan" => at'[d] <= Len(Order)
               /\ IF pc'[d] \in Saving THEN HeldOK(held'[d]) ELSE held'[d] = D!Nothing
    <3>1. CASE d = c
      BY <1>4, <1>6, <3>1 DEF Resting
    <3>2. CASE d # c
      BY <1>4, <1>6, <3>2 DEF DataIInv, PlaceInv, Others
    <3> QED
      BY <3>1, <3>2
  <2> QED
    BY <2>2, <2>3 DEF PlaceInv
<1>10. ApartInv'
  <2>1. ASSUME NEW i \in DatasetIds, NEW p \in D!Paths, Uses(i, p)' PROVE Uses(i, p)
    <3>1. D!Nothing.row.id # i
      BY DEF D!Nothing, D!NoRow, DataIInv, D!Sensible
    <3> QED
      BY <1>6, <1>7, <2>1, <3>1 DEF Uses
  <2> QED
    BY <2>1, ApartKept DEF DataIInv
<1> QED
  BY <1>8, <1>9, <1>10 DEF DataIInv, D!Sensible

-----------------------------------------------------------------------------
(* The administrator and the files                                         *)

LEMMA RefreshKeeps ==
  ASSUME DataIInv, NEW p \in D!Paths, D!Refresh(p)
  PROVE  DataIInv'
<1> DEFINE h == [path |-> p, row |-> D!Row(rows[p].id, disk[p])]
<1>1. /\ held' = [held EXCEPT ![Admin] = h] /\ pc' = [pc EXCEPT ![Admin] = "process"] /\ "process" \in Saving /\ rows[p] # D!NoRow
      /\ UNCHANGED <<disk, rows, at, found, exists>> /\ pc[Admin] = "idle" /\ pc[Admin] \notin Saving /\ Admin \in D!Callers
  BY DEF D!Refresh, D!Goto, Saving, D!Callers
<1>2. calls' \in 0..Budget
  BY DEF D!Refresh, DataIInv, DataTypes, D!Sensible
<1>3. RowOK(rows[p])
  BY <1>1 DEF DataIInv, PlaceInv
<1>4. RowOK(D!Row(rows[p].id, disk[p])) /\ D!Row(rows[p].id, disk[p]).id = rows[p].id
  BY <1>3, RowIsOK DEF RowOK
<1>5. HeldOK(h) /\ h.row.id = rows[p].id /\ h.path = p
  BY <1>4 DEF HeldOK
<1> HIDE DEF h
<1>6. \A q \in D!Paths : Uses(h.row.id, q) => q = h.path
  BY <1>3, <1>5 DEF DataIInv, ApartInv, Uses, RowOK
<1> QED
  BY <1>1, <1>2, <1>5, <1>6, TakesUp

LEMMA ReindexKeeps ==
  ASSUME DataIInv, NEW p \in D!Paths, D!Reindex(p)
  PROVE  DataIInv'
<1> DEFINE r == rows[p]
           new == [r EXCEPT !.indexing = "complete", !.deleted = FALSE]
           h == [path |-> p, row |-> new]
<1>1. /\ held' = [held EXCEPT ![Admin] = h] /\ pc' = [pc EXCEPT ![Admin] = "load"] /\ "load" \in Saving /\ r # D!NoRow
      /\ UNCHANGED <<disk, rows, at, found, exists>> /\ pc[Admin] = "idle" /\ pc[Admin] \notin Saving /\ Admin \in D!Callers
  BY DEF D!Reindex, D!Goto, Saving, D!Callers
<1>2. calls' \in 0..Budget
  BY DEF D!Reindex, DataIInv, DataTypes, D!Sensible
<1>3. RowOK(r)
  BY <1>1 DEF DataIInv, PlaceInv
<1> HIDE DEF r
<1>4. RowOK(new) /\ new.id = r.id
  <2>1. DOMAIN new = DOMAIN r /\ new.id = r.id /\ new.hash = r.hash /\ new.category = r.category
    BY <1>3 DEF RowOK
  <2> HIDE DEF new
  <2> QED
    BY <1>3, <2>1 DEF RowOK
<1> HIDE DEF new
<1>5. HeldOK(h) /\ h.row.id = r.id /\ h.path = p
  BY <1>4 DEF HeldOK
<1> HIDE DEF h
<1>6. \A q \in D!Paths : Uses(h.row.id, q) => q = h.path
  BY <1>3, <1>5 DEF DataIInv, ApartInv, Uses, RowOK, r
<1> QED
  BY <1>1, <1>2, <1>5, <1>6, TakesUp

LEMMA RemoveDatasetKeeps ==
  ASSUME DataIInv, NEW p \in D!Paths, D!RemoveDataset(p)
  PROVE  DataIInv'
<1> DEFINE r == rows[p]
           new == [[r EXCEPT !.deleted = TRUE] EXCEPT !.status = "archived"]
<1>1. r # D!NoRow /\ UNCHANGED <<disk, pc, at, found, held, exists>> /\ DOMAIN rows = D!Paths
  BY DEF D!RemoveDataset, DataIInv, DataTypes
<1>2. rows' = [rows EXCEPT ![p] = new]
  <2>1. rows' = [[rows EXCEPT ![p].deleted = TRUE] EXCEPT ![p].status = "archived"]
    BY DEF D!RemoveDataset
  <2> QED
    BY <1>1, <2>1
<1>3. calls' \in 0..Budget
  BY DEF D!RemoveDataset, DataIInv, DataTypes, D!Sensible
<1>4. RowOK(r)
  BY <1>1 DEF DataIInv, PlaceInv
<1> HIDE DEF r
<1>5. RowOK(new) /\ new.id = r.id
  <2>1. DOMAIN new = DOMAIN r /\ new.id = r.id /\ new.hash = r.hash /\ new.category = r.category
    BY <1>4 DEF RowOK
  <2> HIDE DEF new
  <2> QED
    BY <1>4, <2>1 DEF RowOK
<1> HIDE DEF new
<1>6. rows'[p] = new /\ DOMAIN rows' = D!Paths /\ \A q \in D!Paths \ {p} : rows'[q] = rows[q]
  BY <1>1, <1>2
<1>7. DataTypes'
  BY <1>1, <1>3, <1>6 DEF DataIInv, DataTypes
<1>8. PlaceInv'
  BY <1>1, <1>5, <1>6 DEF DataIInv, PlaceInv
<1>9. ApartInv'
  <2>1. ASSUME NEW i \in DatasetIds, NEW q \in D!Paths, Uses(i, q)' PROVE Uses(i, q)
    BY <1>1, <1>5, <1>6, <2>1 DEF Uses, r
  <2> QED
    BY <2>1, ApartKept DEF DataIInv
<1> QED
  BY <1>7, <1>8, <1>9 DEF DataIInv, D!Sensible

LEMMA ChangeFileKeeps ==
  ASSUME DataIInv, NEW p \in D!Paths, D!ChangeFile(p)
  PROVE  DataIInv'
<1>1. UNCHANGED <<rows, pc, at, found, held, exists>>
  BY DEF D!ChangeFile
<1>2. disk' \in [D!Paths -> Nat] /\ calls' \in 0..Budget
  BY DEF D!ChangeFile, DataIInv, DataTypes, D!Sensible
<1>3. DataTypes'
  BY <1>1, <1>2 DEF DataIInv, DataTypes
<1>4. PlaceInv' /\ ApartInv'
  BY <1>1 DEF DataIInv, PlaceInv, ApartInv, Uses
<1> QED
  BY <1>3, <1>4 DEF DataIInv, D!Sensible

LEMMA DataNextHolds == DataIInv /\ [D!Next]_D!vars => DataIInv'
<1> SUFFICES ASSUME DataIInv, [D!Next]_D!vars PROVE DataIInv'
  OBVIOUS
<1>1. ASSUME NEW c \in D!Scanners, D!Scan(c) PROVE DataIInv'
  BY <1>1, ScanKeeps, NewContentKeeps DEF D!Scan
<1>2. ASSUME NEW c \in D!Callers, D!Save(c) PROVE DataIInv'
  BY <1>2, ProcessKeeps, LoadExistingKeeps, CommitKeeps DEF D!Save
<1>3. ASSUME NEW p \in D!Paths, D!Refresh(p) \/ D!Reindex(p) \/ D!RemoveDataset(p) \/ D!ChangeFile(p) PROVE DataIInv'
  BY <1>3, RefreshKeeps, ReindexKeeps, RemoveDatasetKeeps, ChangeFileKeeps
<1>4. CASE UNCHANGED D!vars
  <2>1. DataTypes' /\ PlaceInv'
    BY <1>4 DEF DataIInv, DataTypes, PlaceInv, D!vars
  <2>2. ApartInv'
    BY <1>4 DEF DataIInv, ApartInv, Uses, D!vars
  <2> QED
    BY <2>1, <2>2 DEF DataIInv, D!Sensible
<1> QED
  BY <1>1, <1>2, <1>3, <1>4 DEF D!Next

\* Only the last two rules apply to a file whose path has none of their words.
LEMMA LateRules ==
  ASSUME NEW f, f.words \subseteq D!LearningWords, NEW n \in DOMAIN D!ClassificationRules,
         D!Applies(D!ClassificationRules[n], f)
  PROVE  n \in {11, 12}
<1> DEFINE rule == D!ClassificationRules[n]
<1>1. n \in 1..12
  BY DEF D!ClassificationRules
<1>2. rule.words = {} \/ rule.words \cap f.words # {}
  BY DEF D!Applies
<1>3. ASSUME n \in 1..10 PROVE rule.words # {} /\ rule.words \cap D!LearningWords = {}
  <2>1. rule.words \in {{"dfrws"}, {"cfreds", "nist"}, {"digital-corpora"}, {"malware", "samples"}, {"yara"},
                        {"sigma"}, {"stix", "taxii"}, {"mitre"}, {"ioc", "indicators"}, {"phishing", "ransomware"}}
    <3>1. \A words, formats, category : D!Rule(words, formats, category).words = words
      BY DEF D!Rule
    <3>2. n \in {1, 2, 3, 4, 5, 6, 7, 8, 9, 10}
      BY <1>3
    <3> QED
      BY <3>1, <3>2 DEF D!ClassificationRules
  <2> QED
    BY <2>1 DEF D!LearningWords
<1> QED
  BY <1>1, <1>2, <1>3

\* Training data is never taken for a benchmark or for intelligence by its words.
LEMMA PathsName == D!NamedByPath
<1> SUFFICES ASSUME NEW n \in DOMAIN Contents, Contents[n].words \subseteq D!LearningWords
             PROVE  D!Classify(Contents[n]) \in {"machine_learning", "forensic_operational", "user_uploaded"}
  BY DEF D!NamedByPath
<1> DEFINE f == Contents[n]
           hits == {m \in DOMAIN D!ClassificationRules : D!Applies(D!ClassificationRules[m], f)}
<1>1. hits \subseteq {11, 12}
  BY LateRules
<1>2. D!Classify(f) = IF hits = {} THEN "user_uploaded" ELSE D!ClassificationRules[D!Min(hits)].category
  BY DEF D!Classify
<1>3. ASSUME hits # {} PROVE D!Min(hits) \in {11, 12}
  <2>1. \E x \in hits : \A y \in hits : x =< y
    BY <1>1, <1>3
  <2> QED
    BY <1>1, <2>1 DEF D!Min
<1>4. ASSUME NEW m \in {11, 12} PROVE D!ClassificationRules[m].category \in {"machine_learning", "forensic_operational"}
  BY DEF D!ClassificationRules, D!Rule
<1> QED
  BY <1>2, <1>3, <1>4
\* Ticks, scans, refreshes, reindexing and removals may save stale records over each other:
\* an id stays with one path, a row has the category its content gives it, and training data
\* is no benchmark and no intelligence unless its path says so (dataset_intelligence/registry.py).
THEOREM DatasetsKept == D!Sensible /\ D!Spec => []D!DatasetsSafe
<1>1. D!Sensible /\ D!Spec => []DataIInv
  BY DataInitHolds, DataNextHolds, PTL DEF D!Spec
<1>2. DataIInv => D!DatasetsSafe
  <2> SUFFICES ASSUME DataIInv PROVE D!DatasetsSafe
    OBVIOUS
  <2>1. D!TypeOK
    BY DEF DataIInv, DataTypes, PlaceInv, RowOK, D!TypeOK
  <2>2. ASSUME NEW p \in D!Paths, NEW q \in D!Paths, p # q, rows[p] # D!NoRow PROVE rows[p].id # rows[q].id
    BY <2>2 DEF DataIInv, PlaceInv, RowOK, ApartInv, Uses
  <2>3. ASSUME NEW p \in D!Paths, rows[p] # D!NoRow PROVE rows[p].category = D!Classify(Contents[rows[p].hash])
    BY <2>3 DEF DataIInv, PlaceInv, RowOK
  <2> QED
    BY <2>1, <2>2, <2>3, PathsName DEF D!RowsApart, D!DatasetsSafe
<1> QED
  BY <1>1, <1>2, PTL
================================================================================
