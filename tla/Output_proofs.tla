---------------------------- MODULE Output_proofs ----------------------------
(* Proofs about the two models of what the solver writes: OutputCache (which  *)
(* state is in a file, for every program of calls and every number of ranks   *)
(* and planes) and GatherScatter (where the cells of a plane end up, for      *)
(* every grid and every number of ranks that write and that read).            *)
EXTENDS OutputCache, GatherScatter, SlabDecomposition_proofs,
        FiniteSetTheorems, SequenceTheorems, TLAPS

Slabs == [field : {"cv", "dv"}, plane : Nat, ver : Nat]
PlaneOrNone == [Ranks -> Slabs] \cup {None}
Messages == [slab : Slabs, sync : BOOLEAN]
FileRecords ==
    [at : Nat, planes : [0 .. NCv - 1 -> PlaneOrNone] \cup [Planes -> PlaneOrNone]]

TypeOK ==
    /\ program \in Seq(Calls)
    /\ at \in [Ranks -> Nat \ {0}] /\ ver \in [Ranks -> Nat] /\ k \in [Ranks -> Nat]
    /\ src \in 1 .. NRanks
    /\ part \in [Ranks -> Slabs \cup {None}]
    /\ framed \in [Planes -> PlaneOrNone] /\ cached \in [Planes -> PlaneOrNone]
    /\ mail \in [Ranks -> [Planes -> Seq(Messages)]]
    /\ files \in Seq(FileRecords)

\* Calls before call i that change the state.
Marches(i) == Cardinality({c \in 1 .. i - 1 : program[c] = "march"})

\* A rank has made as many changes as its calls so far ask for, and is at a
\* plane only within a gather.
Counted ==
    \A r \in Ranks :
        /\ ver[r] = Marches(at[r])
        /\ k[r] > 0 => Gathering(r) /\ k[r] <= NPlanes(Call(r))

\* Call i is the first that gathers plane p; rank r is through with plane p of
\* call c, or of any call.
First(i, p) == i \in Gatherers(p) /\ \A c \in Gatherers(p) : i <= c
Through(r, c, p) == c < at[r] \/ (c = at[r] /\ p < k[r])
Passed(r, p) == \E c \in Gatherers(p) : Through(r, c, p)

FirstPlane(x, p) == \E i \in Gatherers(p) : First(i, p) /\ x = State(i, p)

\* Root keeps what it gathers first.
Caching ==
    \A p \in Planes :
        /\ cached[p] # None <=> Passed(root, p)
        /\ cached[p] # None => FirstPlane(cached[p], p)
        /\ p < k[root] => framed[p] = cached[p]

\* What it receives while the plane is not complete is of the call it is in.
Receiving ==
    /\ src > 1 => InGather(root) /\ ~ Hit(k[root])
    /\ \A s \in Ranks \ {root} : s < src => part[s] = State(at[root], k[root])[s]

\* Plane p of rank s has been received: what is still to come is of no use.
Taken(s, p) == cached[p] # None \/ (s < src /\ p = k[root])

\* Otherwise the oldest message is of the first call that gathers the plane.
Sending ==
    \A s \in Ranks \ {root}, p \in Planes : ~ Taken(s, p) =>
        /\ mail[s][p] = << >> => ~ Passed(s, p)
        /\ mail[s][p] # << >> => \A i : First(i, p) => Head(mail[s][p]).slab = State(i, p)[s]

Filed ==
    \A f \in ToSet(files), p \in Planes : p \in DOMAIN f.planes => FirstPlane(f.planes[p], p)

IInv == TypeOK /\ Counted /\ Caching /\ Receiving /\ Sending /\ Filed

------------------------------------------------------------------------------
LEMMA Basics ==
    /\ root \in Ranks /\ NRanks \in Nat \ {0} /\ \A s \in Ranks \ {root} : s >= 1 /\ s \in Nat
    /\ NCv \in Nat \ {0} /\ NDv \in Nat /\ NCv <= NDv
    /\ \A c : Field(c) \in {"cv", "dv"} /\ NPlanes(c) \in {NCv, NDv} /\ NPlanes(c) \in Nat
    /\ \A c : NCv <= NPlanes(c) /\ NPlanes(c) <= NDv
BY WorldAssumption, OutputAssumption DEF root, Ranks, Field, NPlanes

LEMMA MarchesFacts ==
    ASSUME NEW i \in Nat \ {0}
    PROVE  /\ Marches(i) \in Nat
           /\ Marches(i + 1) = IF program[i] = "march" THEN Marches(i) + 1 ELSE Marches(i)
           /\ Marches(1) = 0
<1> DEFINE S(b) == {c \in 1 .. b - 1 : program[c] = "march"}
<1>1. IsFiniteSet(S(i))
  <2>1. IsFiniteSet(1 .. i - 1) BY FS_Interval
  <2> QED BY <2>1, FS_Subset
<1>2. S(i + 1) = IF program[i] = "march" THEN S(i) \cup {i} ELSE S(i)
  OBVIOUS
<1>3. i \notin S(i) OBVIOUS
<1>4. S(1) = {} OBVIOUS
<1>5. Cardinality(S(i) \cup {i}) = Cardinality(S(i)) + 1
  <2> HIDE DEF S
  <2> QED BY <1>1, <1>3, FS_AddElement
<1>6. Cardinality(S(i)) \in Nat
  <2> HIDE DEF S
  <2> QED BY <1>1, FS_CardinalityType
<1>7. Marches(i) = Cardinality(S(i)) /\ Marches(i + 1) = Cardinality(S(i + 1))
      /\ Marches(1) = Cardinality(S(1))
  BY DEF Marches
<1> HIDE DEF S
<1> QED BY <1>2, <1>4, <1>5, <1>6, <1>7, FS_EmptySet

LEMMA StateIs ==
    ASSUME NEW i \in Nat \ {0}, NEW p \in Nat
    PROVE  /\ State(i, p) \in [Ranks -> Slabs] /\ State(i, p) # None
           /\ \A r \in Ranks : State(i, p)[r] = [field |-> Field(program[i]), plane |-> p,
                                                 ver |-> Marches(i)]
<1>1. State(i, p) = [r \in Ranks |-> [field |-> Field(program[i]), plane |-> p,
                                      ver |-> Marches(i)]]
  BY DEF State, Marches
<1>2. [field |-> Field(program[i]), plane |-> p, ver |-> Marches(i)] \in Slabs
  BY Basics, MarchesFacts DEF Slabs
<1>3. State(i, p) \in [Ranks -> Slabs] BY <1>1, <1>2
<1>4. DOMAIN State(i, p) # {} BY <1>1, Basics
<1>5. DOMAIN None = {} BY DEF None
<1> QED BY <1>1, <1>3, <1>4, <1>5

\* What rank r has at hand is its part of the state at its call.
LEMMA OwnIs ==
    ASSUME TypeOK, Counted, NEW r \in Ranks, InGather(r)
    PROVE  /\ Own(r) = State(at[r], k[r])[r] /\ Own(r) \in Slabs
           /\ k[r] \in Planes /\ at[r] \in Gatherers(k[r]) /\ at[r] \in Nat \ {0}
<1>1. at[r] \in Nat \ {0} /\ k[r] \in Nat /\ program \in Seq(Calls) BY DEF TypeOK
<1>2. State(at[r], k[r])[r] = [field |-> Field(program[at[r]]), plane |-> k[r],
                               ver |-> Marches(at[r])]
      /\ State(at[r], k[r])[r] \in Slabs
  BY <1>1, StateIs
<1>3. Own(r) = State(at[r], k[r])[r] BY <1>2 DEF Own, Call, Counted
<1>4. k[r] \in Planes BY <1>1, Basics DEF InGather, Planes
<1>5. at[r] \in DOMAIN program
  <2>1. at[r] <= Len(program) BY DEF InGather, Gathering, Running
  <2> QED BY <1>1, <2>1, LenProperties
<1>6. at[r] \in Gatherers(k[r])
  BY <1>5 DEF Gatherers, InGather, Gathering, Call
<1> QED BY <1>1, <1>2, <1>3, <1>4, <1>6

LEMMA GathererIs ==
    ASSUME TypeOK, NEW p, NEW c \in Gatherers(p)
    PROVE  c \in Nat \ {0} /\ c <= Len(program) /\ Gathers(program[c]) /\ p < NPlanes(program[c])
BY LenProperties DEF Gatherers, TypeOK

\* A rank that is not yet through with a plane is at the first call that gathers it.
LEMMA NotPassed ==
    ASSUME TypeOK, Counted, NEW r \in Ranks, InGather(r), ~ Passed(r, k[r])
    PROVE  First(at[r], k[r]) /\ \A i : First(i, k[r]) => i = at[r]
<1>1. at[r] \in Gatherers(k[r]) /\ at[r] \in Nat BY OwnIs
<1>2. ASSUME NEW c \in Gatherers(k[r]) PROVE at[r] <= c
  <2>1. c \in Nat BY GathererIs
  <2>2. ~ c < at[r] BY DEF Passed, Through
  <2> QED BY <1>1, <2>1, <2>2
<1>3. First(at[r], k[r]) BY <1>1, <1>2 DEF First
<1>4. ASSUME NEW i, First(i, k[r]) PROVE i = at[r]
  <2>1. i \in Gatherers(k[r]) /\ i <= at[r] BY <1>1, <1>4 DEF First
  <2>2. i \in Nat /\ at[r] <= i BY <1>2, <2>1, GathererIs
  <2> QED BY <1>1, <2>1, <2>2
<1> QED BY <1>3, <1>4

\* The program is given: so are its gathers and the states at its calls.
LEMMA SameProgram ==
    ASSUME program' = program
    PROVE  /\ \A p : Gatherers(p)' = Gatherers(p)
           /\ \A i, p : First(i, p)' <=> First(i, p)
           /\ \A i, p : State(i, p)' = State(i, p)
           /\ \A i : Marches(i)' = Marches(i)
BY DEF Gatherers, First, State, Marches

\* A call that is not a gather, or has gathered its planes, makes way for the next.
EndsCall(r) ==
    /\ Running(r) /\ (Gathering(r) => k[r] = NPlanes(Call(r)))
    /\ at' = [at EXCEPT ![r] = @ + 1] /\ k' = [k EXCEPT ![r] = 0]

\* The plane of a gather makes way for the next one.
EndsPlane(r) ==
    /\ InGather(r)
    /\ k' = [k EXCEPT ![r] = @ + 1] /\ UNCHANGED <<program, at, ver>>

LEMMA PassedByCall ==
    ASSUME TypeOK, Counted, NEW r \in Ranks, EndsCall(r), program' = program, NEW p \in Planes
    PROVE  \A s \in Ranks : Passed(s, p)' <=> Passed(s, p)
<1>1. Gatherers(p)' = Gatherers(p) BY SameProgram
<1>2. \A s \in Ranks \ {r} : at'[s] = at[s] /\ k'[s] = k[s] BY DEF EndsCall, TypeOK
<1>3. at'[r] = at[r] + 1 /\ k'[r] = 0 /\ at[r] \in Nat /\ p \in Nat /\ k[r] \in Nat
  BY Basics DEF EndsCall, TypeOK, Planes
<1>4. ASSUME NEW c \in Gatherers(p) PROVE Through(r, c, p)' <=> Through(r, c, p)
  <2>1. c \in Nat /\ Gathers(program[c]) /\ p < NPlanes(program[c]) /\ NPlanes(program[c]) \in Nat
    BY GathererIs, Basics
  <2>2. Through(r, c, p)' <=> c < at[r] + 1 BY <1>3, <2>1 DEF Through
  <2>3. c = at[r] => p < k[r]
    BY <1>3, <2>1 DEF EndsCall, Gathering, Call
  <2>4. Through(r, c, p) <=> c <= at[r] BY <1>3, <2>1, <2>3 DEF Through
  <2> QED BY <1>3, <2>1, <2>2, <2>4
<1>5. \A s \in Ranks \ {r} : \A c : Through(s, c, p)' <=> Through(s, c, p) BY <1>2 DEF Through
<1> QED BY <1>1, <1>4, <1>5 DEF Passed

LEMMA PassedByPlane ==
    ASSUME TypeOK, Counted, NEW r \in Ranks, EndsPlane(r), NEW p \in Planes
    PROVE  /\ \A s \in Ranks \ {r} : Passed(s, p)' <=> Passed(s, p)
           /\ Passed(r, p)' <=> Passed(r, p) \/ p = k[r]
<1>1. Gatherers(p)' = Gatherers(p) BY SameProgram DEF EndsPlane
<1>2. \A s \in Ranks \ {r} : at'[s] = at[s] /\ k'[s] = k[s] BY DEF EndsPlane, TypeOK
<1>3. at'[r] = at[r] /\ k'[r] = k[r] + 1 /\ at[r] \in Nat /\ p \in Nat /\ k[r] \in Nat
  BY Basics DEF EndsPlane, TypeOK, Planes
<1>4. at[r] \in Gatherers(k[r]) BY OwnIs DEF EndsPlane
<1>5. ASSUME NEW c \in Gatherers(p)
      PROVE  Through(r, c, p)' <=> Through(r, c, p) \/ (c = at[r] /\ p = k[r])
  BY <1>3 DEF Through
<1>6. \A s \in Ranks \ {r} : \A c : Through(s, c, p)' <=> Through(s, c, p) BY <1>2 DEF Through
<1>7. \A s \in Ranks \ {r} : Passed(s, p)' <=> Passed(s, p) BY <1>1, <1>6 DEF Passed
<1> QED BY <1>1, <1>4, <1>5, <1>7 DEF Passed

LEMMA CountedByPlane ==
    ASSUME TypeOK, Counted, NEW r \in Ranks, EndsPlane(r)
    PROVE  Counted'
<1>1. /\ \A s \in Ranks : at'[s] = at[s] /\ ver'[s] = ver[s]
      /\ \A s \in Ranks \ {r} : k'[s] = k[s]
      /\ k'[r] = k[r] + 1 /\ program' = program
  BY DEF EndsPlane, TypeOK
<1>2. k[r] < NPlanes(Call(r)) /\ Gathering(r) /\ k[r] \in Nat /\ NPlanes(Call(r)) \in Nat
  BY Basics DEF EndsPlane, InGather, TypeOK
<1>3. ASSUME NEW s \in Ranks PROVE ver'[s] = Marches(at[s])'
  BY <1>1, SameProgram DEF Counted, Marches
<1>4. ASSUME NEW s \in Ranks PROVE k'[s] > 0 => Gathering(s)' /\ k'[s] <= NPlanes(Call(s)')
  <2>1. Gathering(s)' = Gathering(s) /\ Call(s)' = Call(s)
    BY <1>1 DEF Gathering, Running, Call
  <2>2. CASE s # r BY <1>1, <2>1, <2>2 DEF Counted
  <2>3. CASE s = r
    <3>1. k[r] + 1 <= NPlanes(Call(r)) BY <1>2
    <3> QED BY <1>1, <1>2, <2>1, <2>3, <3>1
  <2> QED BY <2>2, <2>3
<1> QED BY <1>3, <1>4 DEF Counted, NPlanes

LEMMA CountedByCall ==
    ASSUME TypeOK, Counted, NEW r \in Ranks, EndsCall(r), program' = program,
           ver' = IF Call(r) = "march" THEN [ver EXCEPT ![r] = @ + 1] ELSE ver
    PROVE  Counted'
<1>1. /\ \A s \in Ranks \ {r} : at'[s] = at[s] /\ ver'[s] = ver[s] /\ k'[s] = k[s]
      /\ at'[r] = at[r] + 1 /\ k'[r] = 0 /\ at[r] \in Nat \ {0}
      /\ ver'[r] = IF Call(r) = "march" THEN ver[r] + 1 ELSE ver[r]
  BY DEF EndsCall, TypeOK
<1>2. ver'[r] = Marches(at[r] + 1) BY <1>1, MarchesFacts DEF Counted, Call
<1>3. ASSUME NEW s \in Ranks PROVE ver'[s] = Marches(at[s])'
  <2>1. ver'[s] = Marches(at'[s]) BY <1>1, <1>2 DEF Counted
  <2>2. Marches(at[s])' = Marches(at'[s]) BY DEF Marches
  <2> QED BY <2>1, <2>2
<1>4. ASSUME NEW s \in Ranks PROVE k'[s] > 0 => Gathering(s)' /\ k'[s] <= NPlanes(Call(s)')
  <2>1. CASE s # r BY <1>1, <2>1 DEF Counted, Gathering, Running, Call
  <2>2. CASE s = r BY <1>1, <2>2
  <2> QED BY <2>1, <2>2
<1> QED BY <1>3, <1>4 DEF Counted, NPlanes

LEMMA FirstPlaneKept ==
    ASSUME program' = program, NEW p
    PROVE  \A x : FirstPlane(x, p)' <=> FirstPlane(x, p)
BY SameProgram DEF FirstPlane

------------------------------------------------------------------------------
\* A rank that goes on to its next call leaves the planes and the messages alone.
LEMMA CallKeeps ==
    ASSUME IInv, NEW r \in Ranks, EndsCall(r), r # root => framed' = framed,
           UNCHANGED <<program, src, part, cached, mail>>
    PROVE  Caching' /\ Receiving' /\ Sending'
<1> USE DEF IInv
<1>1. \A s \in Ranks \ {r} : at'[s] = at[s] /\ k'[s] = k[s] BY DEF EndsCall, TypeOK
<1>2. k'[r] = 0 BY DEF EndsCall, TypeOK
<1>3. r = root => src = 1
  BY Basics DEF Receiving, EndsCall, InGather, TypeOK
<1>4. Caching'
  <2> SUFFICES ASSUME NEW p \in Planes
               PROVE  /\ cached'[p] # None <=> Passed(root, p)'
                      /\ cached'[p] # None => FirstPlane(cached[p], p)'
                      /\ p < k'[root] => framed'[p] = cached'[p]
    BY DEF Caching, Planes
  <2>1. Passed(root, p)' <=> Passed(root, p) BY PassedByCall, Basics
  <2>2. FirstPlane(cached[p], p)' <=> FirstPlane(cached[p], p)
    BY FirstPlaneKept DEF FirstPlane, First, Gatherers, State
  <2>3. p < k'[root] => framed'[p] = cached'[p]
    <3>1. CASE r = root BY <1>2, <3>1 DEF Planes
    <3>2. CASE r # root BY <1>1, <3>2, Basics DEF Caching
    <3> QED BY <3>1, <3>2
  <2> QED BY <2>1, <2>2, <2>3 DEF Caching
<1>5. Receiving'
  <2>1. CASE r = root
    BY <1>3, <2>1, Basics DEF Receiving
  <2>2. CASE r # root
    BY <1>1, <2>2, Basics DEF Receiving, InGather, Gathering, Running, Call, Hit, State, NPlanes
  <2> QED BY <2>1, <2>2
<1>6. Sending'
  <2> SUFFICES ASSUME NEW s \in Ranks \ {root}, NEW p \in Planes, ~ Taken(s, p)'
               PROVE  /\ mail'[s][p] = << >> => ~ Passed(s, p)'
                      /\ mail'[s][p] # << >> =>
                            \A i : First(i, p)' => Head(mail'[s][p]).slab = State(i, p)'[s]
    BY DEF Sending, Planes
  <2>1. ~ Taken(s, p)
    <3>1. CASE r = root BY <1>3, <3>1, Basics DEF Taken
    <3>2. CASE r # root BY <1>1, <3>2, Basics DEF Taken
    <3> QED BY <3>1, <3>2
  <2>2. Passed(s, p)' <=> Passed(s, p) BY PassedByCall
  <2> QED BY <2>1, <2>2, SameProgram DEF Sending
<1> QED BY <1>4, <1>5, <1>6

\* Root has the plane already: the rows the others send are of no use.
LEMMA FromCacheKeeps ==
    ASSUME IInv, FromCache(root)
    PROVE  Caching' /\ Receiving' /\ Sending'
<1> USE DEF IInv
<1>1. root \in Ranks /\ EndsPlane(root) BY Basics DEF FromCache, EndsPlane
<1>2. src = 1 BY DEF FromCache, Receiving, TypeOK
<1>3. k[root] \in Planes /\ k[root] \in Nat BY <1>1, OwnIs DEF EndsPlane, TypeOK
<1>4. Caching'
  <2> SUFFICES ASSUME NEW p \in Planes
               PROVE  /\ cached'[p] # None <=> Passed(root, p)'
                      /\ cached'[p] # None => FirstPlane(cached[p], p)'
                      /\ p < k'[root] => framed'[p] = cached'[p]
    BY DEF Caching, Planes
  <2>1. Passed(root, p)' <=> Passed(root, p) \/ p = k[root] BY <1>1, PassedByPlane
  <2>2. cached'[p] = cached[p] /\ (p = k[root] => cached[p] # None)
    BY DEF FromCache, Hit
  <2>3. FirstPlane(cached[p], p)' <=> FirstPlane(cached[p], p)
    BY FirstPlaneKept DEF FirstPlane, First, Gatherers, State, FromCache
  <2>4. p < k'[root] => p < k[root] \/ p = k[root]
    BY <1>1, <1>3 DEF FromCache, Planes, TypeOK
  <2>5. framed' = [framed EXCEPT ![k[root]] = cached[k[root]]] BY DEF FromCache
  <2>6. p < k'[root] => framed'[p] = cached'[p]
    BY <1>3, <2>2, <2>4, <2>5 DEF Caching, TypeOK
  <2> QED BY <2>1, <2>2, <2>3, <2>6 DEF Caching
<1>5. Receiving'
  <2>1. src' = 1 BY <1>2 DEF FromCache
  <2> QED BY <2>1, Basics DEF Receiving
<1>6. Sending'
  <2> SUFFICES ASSUME NEW s \in Ranks \ {root}, NEW p \in Planes, ~ Taken(s, p)'
               PROVE  /\ mail'[s][p] = << >> => ~ Passed(s, p)'
                      /\ mail'[s][p] # << >> =>
                            \A i : First(i, p)' => Head(mail'[s][p]).slab = State(i, p)'[s]
    BY DEF Sending, Planes
  <2>1. ~ Taken(s, p) BY <1>2, Basics DEF Taken, FromCache
  <2>2. Passed(s, p)' <=> Passed(s, p) BY <1>1, PassedByPlane
  <2>3. mail' = mail /\ program' = program BY DEF FromCache
  <2> QED BY <2>1, <2>2, <2>3, SameProgram DEF Sending
<1> QED BY <1>4, <1>5, <1>6

\* A rank that sends a plane for the first time sends it from the first gather.
LEMMA SendPlaneKeeps ==
    ASSUME IInv, NEW r \in Ranks, SendPlane(r)
    PROVE  Caching' /\ Receiving' /\ Sending'
<1> USE DEF IInv
<1>1. r # root /\ root \in Ranks /\ EndsPlane(r) BY Basics DEF SendPlane, EndsPlane
<1>2. k[r] \in Planes /\ InGather(r) BY OwnIs DEF SendPlane
<1>3. at' = at /\ k'[root] = k[root] /\ program' = program /\ ver' = ver /\ src' = src
      /\ part' = part /\ framed' = framed /\ cached' = cached
  BY <1>1 DEF SendPlane, TypeOK
<1>4. Caching'
  <2> SUFFICES ASSUME NEW p \in Planes
               PROVE  /\ cached'[p] # None <=> Passed(root, p)'
                      /\ cached'[p] # None => FirstPlane(cached[p], p)'
                      /\ p < k'[root] => framed'[p] = cached'[p]
    BY DEF Caching, Planes
  <2>1. Passed(root, p)' <=> Passed(root, p) BY <1>1, PassedByPlane
  <2>2. FirstPlane(cached[p], p)' <=> FirstPlane(cached[p], p)
    BY <1>3, FirstPlaneKept DEF FirstPlane, First, Gatherers, State
  <2> QED BY <1>3, <2>1, <2>2 DEF Caching
<1>5. Receiving'
  BY <1>3, Basics DEF Receiving, InGather, Gathering, Running, Call, Hit, State, NPlanes
<1>6. Sending'
  <2> SUFFICES ASSUME NEW s \in Ranks \ {root}, NEW p \in Planes, ~ Taken(s, p)'
               PROVE  /\ mail'[s][p] = << >> => ~ Passed(s, p)'
                      /\ mail'[s][p] # << >> =>
                            \A i : First(i, p)' => Head(mail'[s][p]).slab = State(i, p)'[s]
    BY DEF Sending, Planes
  <2>1. ~ Taken(s, p) BY <1>3 DEF Taken
  <2>2. PICK sync \in BOOLEAN :
            mail' = [mail EXCEPT ![r][k[r]] = Append(@, [slab |-> Own(r), sync |-> sync])]
    BY DEF SendPlane
  <2>3. CASE s = r /\ p = k[r]
    <3> DEFINE msg == [slab |-> Own(r), sync |-> sync]
               q == mail[r][k[r]]
    <3>1. q \in Seq(Messages) /\ msg \in Messages
      BY <1>2, <2>2, OwnIs DEF TypeOK, Messages
    <3>2. mail'[s][p] = Append(q, msg) BY <1>2, <2>2, <2>3 DEF TypeOK
    <3>3. Append(q, msg) # << >> /\ Head(Append(q, msg)) = IF q = << >> THEN msg ELSE Head(q)
      <4> HIDE DEF q, msg
      <4> QED BY <3>1, HeadTailAppend, AppendProperties
    <3>4. ASSUME q = << >>, NEW i, First(i, p) PROVE Own(r) = State(i, p)[s]
      <4>1. ~ Passed(r, k[r]) BY <2>1, <2>3, <3>4 DEF Sending
      <4>2. i = at[r] BY <1>2, <2>3, <3>4, <4>1, NotPassed
      <4> QED BY <1>2, <2>3, <4>2, OwnIs
    <3>5. ASSUME q # << >>, NEW i, First(i, p) PROVE Head(q).slab = State(i, p)[s]
      BY <2>1, <2>3, <3>5 DEF Sending
    <3>6. msg.slab = Own(r) OBVIOUS
    <3> HIDE DEF msg, q
    <3> QED BY <1>3, <3>2, <3>3, <3>4, <3>5, <3>6, SameProgram
  <2>4. CASE ~ (s = r /\ p = k[r])
    <3>1. mail'[s][p] = mail[s][p] BY <1>2, <2>2, <2>4 DEF TypeOK
    <3>2. Passed(s, p)' <=> Passed(s, p) BY <1>1, <2>4, PassedByPlane
    <3> QED BY <1>3, <2>1, <3>1, <3>2, SameProgram DEF Sending
  <2> QED BY <2>3, <2>4
<1> QED BY <1>4, <1>5, <1>6

\* What root receives is the oldest message of a plane it does not have.
LEMMA RecvPlaneKeeps ==
    ASSUME IInv, RecvPlane(root)
    PROVE  Caching' /\ Receiving' /\ Sending'
<1> USE DEF IInv
<1>0. src \in Nat /\ k[root] \in Nat BY Basics DEF TypeOK
<1>1. PICK from \in Nat, q \in Nat : from = src /\ q = k[root] BY <1>0
<1>2. /\ InGather(root) /\ cached[q] = None /\ mail[from][q] # << >> /\ from \in Ranks \ {root}
      /\ part' = [part EXCEPT ![from] = Head(mail[from][q]).slab]
      /\ mail' = [mail EXCEPT ![from][q] = Tail(@)] /\ src' = from + 1
      /\ program' = program /\ at' = at /\ ver' = ver /\ k' = k
      /\ framed' = framed /\ cached' = cached
  BY <1>1 DEF RecvPlane, Hit, Ranks, root, TypeOK
<1>3. q \in Planes /\ root \in Ranks BY <1>1, <1>2, OwnIs, Basics
<1>4. ~ Passed(root, q) BY <1>2, <1>3 DEF Caching
<1>5. First(at[root], q) BY <1>1, <1>2, <1>3, <1>4, NotPassed
<1>6. ~ Taken(from, q) BY <1>1, <1>2 DEF Taken
<1>7. Head(mail[from][q]).slab = State(at[root], q)[from] BY <1>2, <1>3, <1>5, <1>6 DEF Sending
<1>8. \A s, p : Passed(s, p)' <=> Passed(s, p)
  BY <1>2 DEF Passed, Through, Gatherers
<1>9. Caching'
  BY <1>2, <1>8, FirstPlaneKept DEF Caching, FirstPlane, First, Gatherers, State
<1>10. Receiving'
  <2>1. InGather(root)' /\ ~ Hit(k[root])'
    BY <1>1, <1>2 DEF InGather, Gathering, Running, Call, Hit, NPlanes
  <2>2. ASSUME NEW s \in Ranks \ {root}, s < from + 1 PROVE part'[s] = State(at[root], q)[s]
    <3>1. CASE s = from BY <1>2, <1>7, <3>1 DEF TypeOK
    <3>2. CASE s # from
      <4>1. s < from BY <2>2, <3>2, <1>1, Basics
      <4>2. part'[s] = part[s] BY <1>2, <3>2 DEF TypeOK
      <4> QED BY <1>1, <4>1, <4>2 DEF Receiving
    <3> QED BY <3>1, <3>2
  <2>3. State(at[root], k[root])' = State(at[root], q) BY <1>1, <1>2 DEF State
  <2> QED BY <1>2, <2>1, <2>2, <2>3 DEF Receiving
<1>11. Sending'
  <2> SUFFICES ASSUME NEW s \in Ranks \ {root}, NEW p \in Planes, ~ Taken(s, p)'
               PROVE  /\ mail'[s][p] = << >> => ~ Passed(s, p)'
                      /\ mail'[s][p] # << >> =>
                            \A i : First(i, p)' => Head(mail'[s][p]).slab = State(i, p)'[s]
    BY DEF Sending, Planes
  <2>1. ~ Taken(s, p) /\ ~ (s = from /\ p = q) BY <1>1, <1>2, Basics DEF Taken
  <2>2. mail'[s][p] = mail[s][p] BY <1>2, <1>3, <2>1 DEF TypeOK
  <2> QED BY <1>2, <1>8, <2>1, <2>2, SameProgram DEF Sending
<1> QED BY <1>9, <1>10, <1>11

\* The plane is that of the call root is in, and no earlier call gathered one.
LEMMA EndPlaneKeeps ==
    ASSUME IInv, EndPlane(root)
    PROVE  Caching' /\ Receiving' /\ Sending'
<1> USE DEF IInv
<1>1. root \in Ranks /\ EndsPlane(root) /\ InGather(root) BY Basics DEF EndPlane, EndsPlane
<1>2. PICK q \in Planes : q = k[root] BY <1>1, OwnIs
<1> DEFINE plane == [part EXCEPT ![root] = Own(root)]
<1>3. /\ src = NRanks /\ cached[q] = None /\ src' = 1 /\ mail' = mail
      /\ framed' = [framed EXCEPT ![q] = plane] /\ cached' = [cached EXCEPT ![q] = plane]
      /\ program' = program /\ at' = at /\ ver' = ver /\ k' = [k EXCEPT ![root] = @ + 1]
  BY <1>2 DEF EndPlane, Hit
<1>4. at[root] \in Nat \ {0} /\ q \in Nat /\ k[root] \in Nat BY <1>1 DEF TypeOK, Planes
<1>5. First(at[root], q) BY <1>1, <1>2, <1>3, NotPassed DEF Caching
<1>6. plane = State(at[root], q)
  <2>1. plane \in [Ranks -> Slabs \cup {None}] BY <1>1, OwnIs DEF TypeOK
  <2>2. State(at[root], q) \in [Ranks -> Slabs] BY <1>4, StateIs
  <2>3. ASSUME NEW s \in Ranks PROVE plane[s] = State(at[root], q)[s]
    <3>1. CASE s = root BY <1>1, <1>2, <3>1, OwnIs DEF TypeOK
    <3>2. CASE s # root
      <4>1. s < src
        <5>1. src = NRanks BY <1>3
        <5> QED BY <5>1, Basics DEF Ranks
      <4>2. plane[s] = part[s] BY <3>2 DEF TypeOK
      <4> QED BY <1>2, <3>2, <4>1, <4>2 DEF Receiving
    <3> QED BY <3>1, <3>2
  <2> HIDE DEF plane
  <2> QED BY <2>1, <2>2, <2>3
<1> HIDE DEF plane
<1>7. plane # None BY <1>4, <1>6, StateIs
<1>8. Caching'
  <2> SUFFICES ASSUME NEW p \in Planes
               PROVE  /\ cached'[p] # None <=> Passed(root, p)'
                      /\ cached'[p] # None => FirstPlane(cached[p], p)'
                      /\ p < k'[root] => framed'[p] = cached'[p]
    BY DEF Caching, Planes
  <2>1. Passed(root, p)' <=> Passed(root, p) \/ p = k[root] BY <1>1, PassedByPlane
  <2>2. CASE p = q
    <3>1. cached'[p] = plane /\ framed'[p] = plane BY <1>3, <2>2 DEF TypeOK
    <3>2. PICK i \in Gatherers(p) : First(i, p) /\ plane = State(i, p)
      BY <1>5, <1>6, <2>2 DEF First
    <3>3. i \in Gatherers(p)' /\ First(i, p)' /\ cached'[p] = State(i, p)'
      BY <1>3, <3>1, <3>2, SameProgram
    <3>4. FirstPlane(cached[p], p)' BY <3>3 DEF FirstPlane
    <3> QED BY <1>2, <1>7, <2>1, <2>2, <3>1, <3>4
  <2>3. CASE p # q
    <3>1. cached'[p] = cached[p] /\ framed'[p] = framed[p] BY <1>3, <2>3 DEF TypeOK
    <3>2. ASSUME cached'[p] # None PROVE FirstPlane(cached[p], p)'
      <4>1. FirstPlane(cached[p], p) BY <3>1, <3>2 DEF Caching
      <4>2. PICK i \in Gatherers(p) : First(i, p) /\ cached[p] = State(i, p)
        BY <4>1 DEF FirstPlane
      <4>3. i \in Gatherers(p)' /\ First(i, p)' /\ cached'[p] = State(i, p)'
        BY <1>3, <3>1, <4>2, SameProgram
      <4> QED BY <4>3 DEF FirstPlane
    <3>3. p < k'[root] => p < k[root] BY <1>1, <1>2, <1>3, <1>4, <2>3 DEF Planes, TypeOK
    <3> QED BY <1>2, <2>1, <2>3, <3>1, <3>2, <3>3 DEF Caching
  <2> QED BY <2>2, <2>3
<1>9. Receiving' BY <1>3, Basics DEF Receiving
<1>10. Sending'
  <2> SUFFICES ASSUME NEW s \in Ranks \ {root}, NEW p \in Planes, ~ Taken(s, p)'
               PROVE  /\ mail'[s][p] = << >> => ~ Passed(s, p)'
                      /\ mail'[s][p] # << >> =>
                            \A i : First(i, p)' => Head(mail'[s][p]).slab = State(i, p)'[s]
    BY DEF Sending, Planes
  <2>1. p # q
    <3>1. p = q => cached'[p] = plane BY <1>3 DEF TypeOK
    <3> QED BY <1>7, <3>1 DEF Taken
  <2>2. ~ Taken(s, p) BY <1>2, <1>3, <2>1 DEF Taken, TypeOK
  <2>3. Passed(s, p)' <=> Passed(s, p) BY <1>1, PassedByPlane
  <2> QED BY <1>3, <2>2, <2>3, SameProgram DEF Sending
<1> QED BY <1>8, <1>9, <1>10

------------------------------------------------------------------------------
LEMMA InvInit == Init => IInv
<1> SUFFICES ASSUME Init PROVE IInv OBVIOUS
<1> USE DEF Init
<1>1. TypeOK
  <2>1. program \in Seq(Calls) BY DEF SeqOf
  <2>2. \A r \in Ranks : [p \in Planes |-> << >>] \in [Planes -> Seq(Messages)] OBVIOUS
  <2> QED BY <2>1, <2>2, Basics DEF TypeOK, PlaneOrNone
<1>2. Counted BY MarchesFacts DEF Counted
<1>3. \A r \in Ranks, p \in Planes : ~ Passed(r, p)
  <2> SUFFICES ASSUME NEW r \in Ranks, NEW p \in Planes, NEW c \in Gatherers(p)
               PROVE  ~ Through(r, c, p)
    BY DEF Passed
  <2>1. c \in Nat \ {0} BY <1>1, GathererIs
  <2> QED BY <2>1 DEF Through, Planes
<1>4. Caching
  <2> SUFFICES ASSUME NEW p \in Planes
               PROVE cached[p] = None /\ ~ Passed(root, p) /\ ~ (p < k[root])
    BY DEF Caching
  <2> QED BY <1>3, Basics DEF Planes
<1>5. Receiving BY Basics DEF Receiving
<1>6. Sending BY <1>3 DEF Sending
<1>7. Filed BY DEF Filed, ToSet
<1> QED BY <1>1, <1>2, <1>4, <1>5, <1>6, <1>7 DEF IInv

LEMMA TypeStep == IInv /\ [Next]_vars => TypeOK'
<1> SUFFICES ASSUME IInv, [Next]_vars PROVE TypeOK' OBVIOUS
<1> USE DEF TypeOK
<1>0. TypeOK /\ Caching /\ Counted BY DEF IInv
<1>1. ASSUME NEW r \in Ranks, March(r) PROVE TypeOK'
  BY <1>0, <1>1 DEF March, gatherVars
<1>2. ASSUME NEW r \in Ranks, FromCache(r) PROVE TypeOK'
  BY <1>0, <1>2, OwnIs DEF FromCache
<1>3. ASSUME NEW r \in Ranks, SendPlane(r) PROVE TypeOK'
  <2>1. PICK sync \in BOOLEAN :
            mail' = [mail EXCEPT ![r][k[r]] = Append(@, [slab |-> Own(r), sync |-> sync])]
    BY <1>3 DEF SendPlane
  <2>2. Own(r) \in Slabs /\ k[r] \in Planes BY <1>0, <1>3, OwnIs DEF SendPlane
  <2>3. Append(mail[r][k[r]], [slab |-> Own(r), sync |-> sync]) \in Seq(Messages)
    <3>1. mail[r][k[r]] \in Seq(Messages) BY <1>0, <2>2
    <3>2. [slab |-> Own(r), sync |-> sync] \in Messages BY <2>2 DEF Messages
    <3> QED BY <3>1, <3>2, AppendProperties
  <2>4. mail' \in [Ranks -> [Planes -> Seq(Messages)]] BY <1>0, <2>1, <2>2, <2>3
  <2>5. k' \in [Ranks -> Nat] BY <1>0, <1>3 DEF SendPlane
  <2> QED BY <1>0, <1>3, <2>4, <2>5 DEF SendPlane
<1>4. ASSUME NEW r \in Ranks, RecvPlane(r) PROVE TypeOK'
  <2>1. r = root /\ src \in Ranks /\ k[root] \in Planes /\ mail[src][k[root]] # << >>
    BY <1>0, <1>4, OwnIs DEF RecvPlane
  <2>2. mail[src][k[root]] \in Seq(Messages) BY <1>0, <2>1
  <2>3. Head(mail[src][k[root]]) \in Messages /\ Tail(mail[src][k[root]]) \in Seq(Messages)
    BY <2>1, <2>2, HeadTailProperties
  <2>4. Head(mail[src][k[root]]).slab \in Slabs BY <2>3 DEF Messages
  <2>5. part' \in [Ranks -> Slabs \cup {None}] BY <1>0, <1>4, <2>1, <2>4 DEF RecvPlane
  <2>6. mail' \in [Ranks -> [Planes -> Seq(Messages)]] BY <1>0, <1>4, <2>1, <2>3 DEF RecvPlane
  <2>7. src' \in 1 .. NRanks BY <1>0, <1>4, <2>1, Basics DEF RecvPlane, Ranks
  <2> QED BY <1>0, <1>4, <2>5, <2>6, <2>7 DEF RecvPlane
<1>5. ASSUME NEW r \in Ranks, EndPlane(r) PROVE TypeOK'
  <2> DEFINE plane == [part EXCEPT ![root] = Own(root)]
  <2>1. r = root /\ InGather(root) /\ k[root] \in Planes /\ Own(root) \in Slabs
    BY <1>0, <1>5, OwnIs DEF EndPlane
  <2>2. plane \in [Ranks -> Slabs]
    <3>1. \A s \in Ranks \ {root} : s < src
      <4>1. src = NRanks BY <1>5 DEF EndPlane
      <4> QED BY <4>1, Basics DEF Ranks
    <3>2. ASSUME NEW s \in Ranks \ {root} PROVE part[s] \in Slabs
      <4>1. part[s] = State(at[root], k[root])[s] BY <3>1 DEF IInv, Receiving
      <4>2. at[root] \in Nat \ {0} /\ k[root] \in Nat BY <1>0, <2>1 DEF Planes
      <4>3. State(at[root], k[root]) \in [Ranks -> Slabs] BY <4>2, StateIs
      <4> QED BY <4>1, <4>3
    <3> QED BY <1>0, <2>1, <3>2
  <2>3. framed' = [framed EXCEPT ![k[root]] = plane] /\ cached' = [cached EXCEPT ![k[root]] = plane]
    BY <1>5, <2>1 DEF EndPlane
  <2> HIDE DEF plane
  <2>4. framed' \in [Planes -> PlaneOrNone] /\ cached' \in [Planes -> PlaneOrNone]
    BY <1>0, <2>1, <2>2, <2>3 DEF PlaneOrNone
  <2>5. src' \in 1 .. NRanks /\ part' \in [Ranks -> Slabs \cup {None}] /\ k' \in [Ranks -> Nat]
    BY <1>0, <1>5, Basics DEF EndPlane
  <2> QED BY <1>0, <1>5, <2>4, <2>5 DEF EndPlane
<1>6. ASSUME NEW r \in Ranks, EndWrite(r) PROVE TypeOK'
  <2>1. files' \in Seq(FileRecords)
    <3>1. CASE r = root
      <4> DEFINE f == [at |-> at[r],
                       planes |-> [p \in 0 .. NPlanes(Call(r)) - 1 |-> framed[p]]]
      <4>1. [p \in 0 .. NPlanes(Call(r)) - 1 |-> framed[p]]
              \in [0 .. NCv - 1 -> PlaneOrNone] \cup [Planes -> PlaneOrNone]
        <5>1. framed \in [Planes -> PlaneOrNone] BY <1>0
        <5>2. 0 .. NCv - 1 \subseteq Planes BY Basics DEF Planes
        <5>3. NPlanes(Call(r)) = NCv \/ NPlanes(Call(r)) = NDv BY Basics
        <5> QED BY <5>1, <5>2, <5>3 DEF Planes
      <4>2. f \in FileRecords BY <1>0, <4>1 DEF FileRecords
      <4>3. files' = Append(files, f) BY <1>6, <3>1 DEF EndWrite
      <4> QED BY <1>0, <4>2, <4>3
    <3>2. CASE r # root BY <1>0, <1>6, <3>2 DEF EndWrite
    <3> QED BY <3>1, <3>2
  <2>2. framed' \in [Planes -> PlaneOrNone] BY <1>0, <1>6 DEF EndWrite, PlaneOrNone
  <2>3. at' \in [Ranks -> Nat \ {0}] /\ k' \in [Ranks -> Nat] BY <1>0, <1>6 DEF EndWrite
  <2> QED BY <1>0, <1>6, <2>1, <2>2, <2>3 DEF EndWrite
<1>7. ASSUME NEW r \in Ranks, WriteVtk(r) PROVE TypeOK'
  <2>1. files' \in Seq(FileRecords)
    <3> DEFINE f == [at |-> at[r], planes |-> [p \in 0 .. NCv - 1 |-> cached[p]]]
    <3>1. [p \in 0 .. NCv - 1 |-> cached[p]] \in [0 .. NCv - 1 -> PlaneOrNone]
      BY <1>0, Basics DEF Planes
    <3>2. f \in FileRecords BY <1>0, <3>1 DEF FileRecords
    <3>3. files' = Append(files, f) \/ files' = files BY <1>7 DEF WriteVtk
    <3>4. files \in Seq(FileRecords) BY <1>0
    <3> HIDE DEF f
    <3> QED BY <3>2, <3>3, <3>4, AppendProperties
  <2>2. at' \in [Ranks -> Nat \ {0}] BY <1>0, <1>7 DEF WriteVtk
  <2> QED BY <1>0, <1>7, <2>1, <2>2 DEF WriteVtk, gatherVars
<1>8. CASE UNCHANGED vars BY <1>0, <1>8 DEF vars, gatherVars
<1> QED BY <1>1, <1>2, <1>3, <1>4, <1>5, <1>6, <1>7, <1>8 DEF Next, Rank

\* What a call and a plane are ended by.
LEMMA StepShape ==
    ASSUME IInv, NEW r \in Ranks
    PROVE  /\ March(r) \/ EndWrite(r) \/ WriteVtk(r) =>
                /\ EndsCall(r) /\ (r # root => framed' = framed)
                /\ UNCHANGED <<program, src, part, cached, mail>>
                /\ ver' = IF Call(r) = "march" THEN [ver EXCEPT ![r] = @ + 1] ELSE ver
           /\ FromCache(r) \/ SendPlane(r) \/ EndPlane(r) => EndsPlane(r)
<1>1. TypeOK /\ Counted BY DEF IInv
<1>2. ASSUME Running(r), ~ Gathering(r) PROVE k = [k EXCEPT ![r] = 0]
  <2>1. k[r] = 0 /\ k \in [Ranks -> Nat] BY <1>1, <1>2 DEF Counted, TypeOK
  <2> QED BY <2>1
<1>3. March(r) => EndsCall(r) BY <1>2 DEF March, EndsCall, gatherVars, Gathering, Gathers
<1>4. WriteVtk(r) => EndsCall(r) BY <1>2 DEF WriteVtk, EndsCall, gatherVars, Gathering, Gathers
<1>5. EndWrite(r) => EndsCall(r) BY DEF EndWrite, EndsCall, Gathering
<1>6. March(r) \/ EndWrite(r) \/ WriteVtk(r) =>
        /\ r # root => framed' = framed
        /\ UNCHANGED <<program, src, part, cached, mail>>
        /\ ver' = IF Call(r) = "march" THEN [ver EXCEPT ![r] = @ + 1] ELSE ver
  BY DEF March, EndWrite, WriteVtk, gatherVars, Gathering, Gathers
<1>7. FromCache(r) \/ SendPlane(r) \/ EndPlane(r) => EndsPlane(r)
  BY DEF FromCache, SendPlane, EndPlane, EndsPlane
<1> QED BY <1>3, <1>4, <1>5, <1>6, <1>7

LEMMA ProgramKept == IInv /\ [Next]_vars => program' = program
BY DEF Next, Rank, March, FromCache, SendPlane, RecvPlane, EndPlane, EndWrite, WriteVtk, vars

LEMMA CountedStep == IInv /\ [Next]_vars => Counted'
<1> SUFFICES ASSUME IInv, [Next]_vars PROVE Counted' OBVIOUS
<1>1. TypeOK /\ Counted BY DEF IInv
<1>2. ASSUME NEW r \in Ranks, March(r) \/ EndWrite(r) \/ WriteVtk(r) PROVE Counted'
  BY <1>1, <1>2, StepShape, CountedByCall
<1>3. ASSUME NEW r \in Ranks, FromCache(r) \/ SendPlane(r) \/ EndPlane(r) PROVE Counted'
  BY <1>1, <1>3, StepShape, CountedByPlane
<1>4. ASSUME UNCHANGED <<program, at, ver, k>> PROVE Counted'
  BY <1>1, <1>4 DEF Counted, Gathering, Running, Call, Marches, NPlanes
<1>5. ASSUME NEW r \in Ranks, RecvPlane(r) PROVE Counted' BY <1>4, <1>5 DEF RecvPlane
<1>6. CASE UNCHANGED vars BY <1>4, <1>6 DEF vars, gatherVars
<1> QED BY <1>2, <1>3, <1>5, <1>6 DEF Next, Rank

LEMMA PlanesStep == IInv /\ [Next]_vars => Caching' /\ Receiving' /\ Sending'
<1> SUFFICES ASSUME IInv, [Next]_vars PROVE Caching' /\ Receiving' /\ Sending' OBVIOUS
<1>1. ASSUME NEW r \in Ranks, March(r) \/ EndWrite(r) \/ WriteVtk(r)
      PROVE  Caching' /\ Receiving' /\ Sending'
  BY <1>1, StepShape, CallKeeps
<1>2. ASSUME NEW r \in Ranks, FromCache(r) PROVE Caching' /\ Receiving' /\ Sending'
  <2>1. r = root BY <1>2 DEF FromCache
  <2> QED BY <1>2, <2>1, FromCacheKeeps
<1>3. ASSUME NEW r \in Ranks, SendPlane(r) PROVE Caching' /\ Receiving' /\ Sending'
  BY <1>3, SendPlaneKeeps
<1>4. ASSUME NEW r \in Ranks, RecvPlane(r) PROVE Caching' /\ Receiving' /\ Sending'
  <2>1. r = root BY <1>4 DEF RecvPlane
  <2> QED BY <1>4, <2>1, RecvPlaneKeeps
<1>5. ASSUME NEW r \in Ranks, EndPlane(r) PROVE Caching' /\ Receiving' /\ Sending'
  <2>1. r = root BY <1>5 DEF EndPlane
  <2> QED BY <1>5, <2>1, EndPlaneKeeps
<1>6. CASE UNCHANGED vars
  <2>1. /\ Caching' <=> Caching
        /\ Receiving' <=> Receiving
        /\ Sending' <=> Sending
    BY <1>6 DEF vars, gatherVars, Caching, Receiving, Sending, FirstPlane, First, Gatherers,
                State, Passed, Through, Taken, InGather, Gathering, Running, Call, Hit, NPlanes
  <2> QED BY <2>1 DEF IInv
<1> QED BY <1>1, <1>2, <1>3, <1>4, <1>5, <1>6 DEF Next, Rank

\* A file of a gather holds what the gather put together, or found in the cache.
LEMMA GatheredWhole ==
    ASSUME IInv, EndWrite(root), NEW p \in 0 .. NPlanes(Call(root)) - 1
    PROVE  p \in Planes /\ FirstPlane(framed[p], p)
<1>1. k[root] = NPlanes(Call(root)) /\ Gathering(root) /\ program \in Seq(Calls)
      /\ at[root] \in Nat \ {0} /\ root \in Ranks
  BY Basics DEF EndWrite, IInv, TypeOK
<1>2. p \in Planes /\ p \in Nat /\ p < k[root] BY <1>1, Basics DEF Planes
<1>3. at[root] \in Gatherers(p)
  <2>1. at[root] \in DOMAIN program BY <1>1, LenProperties DEF Gathering, Running
  <2> QED BY <1>1, <1>2, <2>1 DEF Gatherers, Gathering, Call
<1>4. Passed(root, p) BY <1>2, <1>3 DEF Passed, Through
<1> QED BY <1>2, <1>4 DEF IInv, Caching

\* What write_vtk finds in the cache comes from an earlier gather, which has the
\* planes of cv_ at least.
LEMMA CachedWhole ==
    ASSUME IInv, WriteVtk(root), NEW q \in Planes, cached[q] # None, NEW p \in 0 .. NCv - 1
    PROVE  p \in Planes /\ FirstPlane(cached[p], p)
<1>1. PICK c \in Gatherers(q) : Through(root, c, q) BY DEF IInv, Caching, Passed
<1>2. Gathers(program[c]) /\ c \in DOMAIN program BY <1>1 DEF Gatherers
<1>3. c < at[root] BY <1>1, <1>2 DEF Through, WriteVtk, Call, Gathers
<1>4. p \in Planes BY Basics DEF Planes
<1>5. c \in Gatherers(p)
  <2>1. p < NPlanes(program[c]) BY Basics
  <2> QED BY <1>2, <2>1 DEF Gatherers
<1>6. Passed(root, p) BY <1>3, <1>5 DEF Passed, Through
<1> QED BY <1>4, <1>6 DEF IInv, Caching

LEMMA FiledStep == IInv /\ [Next]_vars => Filed'
<1> SUFFICES ASSUME IInv, [Next]_vars PROVE Filed' OBVIOUS
<1>1. program' = program BY ProgramKept
<1>2. \A x, p : FirstPlane(x, p)' <=> FirstPlane(x, p) BY <1>1, FirstPlaneKept
<1>3. files \in Seq(FileRecords) /\ Filed BY DEF IInv, TypeOK
<1>4. ASSUME files' = files PROVE Filed'
  <2> SUFFICES ASSUME NEW f \in ToSet(files), NEW p \in Planes, p \in DOMAIN f.planes
               PROVE  FirstPlane(f.planes[p], p)'
    BY <1>4 DEF Filed, ToSet, Planes
  <2> QED BY <1>2, <1>3 DEF Filed
<1>5. ASSUME NEW h, files' = Append(files, h),
             \A p \in Planes : p \in DOMAIN h.planes => FirstPlane(h.planes[p], p)
      PROVE  Filed'
  <2>1. ToSet(files)' \subseteq ToSet(files) \cup {h}
    BY <1>3, <1>5, AppendProperties, LenProperties DEF ToSet
  <2> SUFFICES ASSUME NEW f \in ToSet(files) \cup {h}, NEW p \in Planes, p \in DOMAIN f.planes
               PROVE  FirstPlane(f.planes[p], p)'
    BY <2>1 DEF Filed, Planes
  <2> QED BY <1>2, <1>3, <1>5 DEF Filed
<1>6. ASSUME NEW r \in Ranks, EndWrite(r) PROVE Filed'
  <2>1. CASE r = root
    <3> DEFINE h == [at |-> at[root],
                     planes |-> [p \in 0 .. NPlanes(Call(root)) - 1 |-> framed[p]]]
    <3>1. files' = Append(files, h) BY <1>6, <2>1 DEF EndWrite
    <3>2. \A p \in Planes : p \in DOMAIN h.planes => FirstPlane(h.planes[p], p)
      BY <1>6, <2>1, GatheredWhole
    <3> HIDE DEF h
    <3> QED BY <1>5, <3>1, <3>2
  <2>2. CASE r # root BY <1>4, <1>6, <2>2 DEF EndWrite
  <2> QED BY <2>1, <2>2
<1>7. ASSUME NEW r \in Ranks, WriteVtk(r) PROVE Filed'
  <2>1. CASE r = root /\ \E p \in Planes : cached[p] # None
    <3> DEFINE h == [at |-> at[root], planes |-> [p \in 0 .. NCv - 1 |-> cached[p]]]
    <3>1. files' = Append(files, h) BY <1>7, <2>1 DEF WriteVtk
    <3>2. \A p \in Planes : p \in DOMAIN h.planes => FirstPlane(h.planes[p], p)
      BY <1>7, <2>1, CachedWhole
    <3> HIDE DEF h
    <3> QED BY <1>5, <3>1, <3>2
  <2>2. CASE ~ (r = root /\ \E p \in Planes : cached[p] # None)
    BY <1>4, <1>7, <2>2 DEF WriteVtk
  <2> QED BY <2>1, <2>2
<1>8. ASSUME NEW r \in Ranks,
             March(r) \/ FromCache(r) \/ SendPlane(r) \/ RecvPlane(r) \/ EndPlane(r)
      PROVE  Filed'
  BY <1>4, <1>8 DEF March, FromCache, SendPlane, RecvPlane, EndPlane
<1>9. CASE UNCHANGED vars BY <1>4, <1>9 DEF vars
<1> QED BY <1>6, <1>7, <1>8, <1>9 DEF Next, Rank

LEMMA CacheInvariance == Spec => []IInv
<1>1. IInv /\ [Next]_vars => IInv'
  BY TypeStep, CountedStep, PlanesStep, FiledStep DEF IInv
<1> QED BY InvInit, <1>1, PTL DEF Spec

\* A plane in a checkpoint, a solution or a vtk file is that of the state at the
\* first call that gathered a plane with this index, on every rank, whatever calls
\* a program makes and however many planes nobody receives are under way.
THEOREM FirstGatherWinsAlways == Spec => []FirstGatherWins
<1>1. IInv => FirstGatherWins
  BY DEF IInv, Filed, FirstPlane, First, FirstGatherWins
<1> QED BY <1>1, CacheInvariance, PTL

------------------------------------------------------------------------------
(* The layout of a plane, in GatherScatter.                                   *)

(* Row-major places: quotient and remainder take them apart again.            *)
LEMMA Divide ==
    ASSUME NEW h \in Nat, h >= 1, NEW a \in Int, NEW b \in 0 .. h - 1
    PROVE  (a * h + b) \div h = a /\ (a * h + b) % h = b
<1> DEFINE x == a * h + b
           q == x \div h
           t == x % h
<1>1. x \in Int /\ a * h \in Int
  OBVIOUS
<1>2. q \in Int /\ t \in 0 .. h - 1 /\ x = h * q + t
  BY <1>1
<1> HIDE DEF q, t
<1>3. q * h \in Int /\ h * q = q * h
  BY <1>2
<1>4. ~ (q < a)
  <2> SUFFICES ASSUME q < a PROVE FALSE
    OBVIOUS
  <2>1. (a - q - 1) * h >= 0
    BY <1>2, SMTT(30)
  <2>2. (a - q - 1) * h = a * h - q * h - h
    BY <1>2, SMTT(30)
  <2> QED BY <1>1, <1>2, <1>3, <2>1, <2>2
<1>5. ~ (q > a)
  <2> SUFFICES ASSUME q > a PROVE FALSE
    OBVIOUS
  <2>1. (q - a - 1) * h >= 0
    BY <1>2, SMTT(30)
  <2>2. (q - a - 1) * h = q * h - a * h - h
    BY <1>2, SMTT(30)
  <2> QED BY <1>1, <1>2, <1>3, <2>1, <2>2
<1>6. q = a
  BY <1>2, <1>4, <1>5
<1>7. t = b
  BY <1>1, <1>2, <1>3, <1>6
<1> QED BY <1>6, <1>7 DEF q, t

LEMMA PlaceInside ==
    ASSUME NEW w \in Nat, NEW h \in Nat, NEW a \in 0 .. w - 1, NEW b \in 0 .. h - 1
    PROVE  a * h + b \in 0 .. w * h - 1
<1>1. a * h \in Nat /\ w * h \in Nat /\ (w - 1 - a) * h \in Nat
  BY SMTT(30)
<1>2. (w - 1 - a) * h = w * h - h - a * h
  BY SMTT(30)
<1> QED BY <1>1, <1>2

LEMMA PlaceOf ==
    ASSUME NEW w \in Nat, NEW h \in Nat, h >= 1, NEW x \in 0 .. w * h - 1
    PROVE  /\ x \div h \in 0 .. w - 1 /\ x % h \in 0 .. h - 1
           /\ x = (x \div h) * h + (x % h)
<1> DEFINE q == x \div h
           t == x % h
<1>1. w * h \in Int /\ x \in Nat /\ x < w * h
  <2>1. w * h \in Int
    OBVIOUS
  <2> QED BY <2>1
<1>2. q \in Int /\ t \in 0 .. h - 1 /\ x = h * q + t
  BY <1>1
<1> HIDE DEF q, t
<1>3. q * h \in Int /\ h * q = q * h
  BY <1>2
<1>4. q >= 0
  <2> SUFFICES ASSUME q <= -1 PROVE FALSE
    BY <1>2
  <2>1. (-1 - q) * h >= 0
    BY <1>2, SMTT(30)
  <2>2. (-1 - q) * h = - h - q * h
    BY <1>2, SMTT(30)
  <2> QED BY <1>1, <1>2, <1>3, <2>1, <2>2
<1>5. q < w
  <2> SUFFICES ASSUME q >= w PROVE FALSE
    BY <1>2
  <2>1. (q - w) * h >= 0
    BY <1>2, SMTT(30)
  <2>2. (q - w) * h = q * h - w * h
    BY <1>2, SMTT(30)
  <2> QED BY <1>1, <1>2, <1>3, <2>1, <2>2
<1> QED BY <1>2, <1>3, <1>4, <1>5 DEF q, t

(* The slab of a single process is the grid.                                  *)
LEMMA OneSlab ==
    ASSUME NEW h \in Nat, h >= 1
    PROVE  Slab(h, 1, 0).j0 = 0 /\ Rows(Slab(h, 1, 0)) = h
<1>1. 1 \in Nat /\ 1 >= 1 /\ 1 <= h /\ 0 \in 0 .. 1 - 1 /\ 0 + 1 = 1
  OBVIOUS
<1>2. make(h, 1, 0).j0 = first(h, 1, 0) /\ make(h, 1, 0).j1 = first(h, 1, 0 + 1)
  BY <1>1, MakeIs
<1>3. first(h, 1, 0) = 0 /\ first(h, 1, 1) = h
  BY <1>1, FirstRowBounds
<1> QED BY <1>1, <1>2, <1>3 DEF Slab, Rows

(* A place of the frame, and the cell at it.                                  *)
LEMMA FramePlace ==
    ASSUME NEW w \in Nat, NEW h \in Nat, NEW i \in -1 .. w, NEW j \in -1 .. h
    PROVE  /\ At(w, h, i, j) \in 0 .. FrameSize(w, h) - 1
           /\ (At(w, h, i, j) \div (h + 2)) - 1 = i
           /\ (At(w, h, i, j) % (h + 2)) - 1 = j
<1> DEFINE a == i + 1
           b == j + 1
           u == w + 2
           v == h + 2
<1>1. u \in Nat /\ v \in Nat /\ v >= 1 /\ a \in 0 .. u - 1 /\ b \in 0 .. v - 1
  OBVIOUS
<1>2. At(w, h, i, j) = a * v + b /\ FrameSize(w, h) = u * v
  BY DEF At, FrameSize
<1>3. a - 1 = i /\ b - 1 = j
  OBVIOUS
<1> HIDE DEF a, b, u
<1>4. a * v + b \in 0 .. u * v - 1
  BY <1>1, PlaceInside
<1>5. (a * v + b) \div v = a /\ (a * v + b) % v = b
  BY <1>1, Divide
<1> QED BY <1>2, <1>3, <1>4, <1>5

(* The frame of one process.                                                  *)
LEMMA SerialAt ==
    ASSUME NEW f, NEW w \in Nat, NEW h \in Nat, NEW i \in -1 .. w, NEW j \in -1 .. h
    PROVE  cell_at(w, h, SerialFrame(f, w, h), i, j) = Canvas(f, w, h, 1, 0, i, j)
<1> DEFINE x == At(w, h, i, j)
<1>1. x \in 0 .. FrameSize(w, h) - 1 /\ (x \div (h + 2)) - 1 = i /\ (x % (h + 2)) - 1 = j
  BY FramePlace
<1> HIDE DEF x
<1>2. SerialFrame(f, w, h)[x] = Canvas(f, w, h, 1, 0, (x \div (h + 2)) - 1, (x % (h + 2)) - 1)
  BY <1>1 DEF SerialFrame, Frame
<1> QED BY <1>1, <1>2 DEF cell_at, x

(* What rank p's canvas does to the frame.                                    *)
Overlay(f, w, h, c, p, old) ==
    LET d == Slab(h, c, p) IN place(w, h, old, d.j0, Rows(d), pack(f, w, h, c, p))

Seen(f, w, h, c, p, old, i, j) ==
    LET d == Slab(h, c, p)
    IN  IF j - d.j0 \in -2 .. Rows(d) + 1
          THEN Canvas(f, w, h, c, p, i, j - d.j0)
          ELSE cell_at(w, h, old, i, j)

LEMMA PlacedAt ==
    ASSUME NEW f, NEW old, NEW w \in Nat, NEW h \in Nat, NEW i \in -1 .. w, NEW j \in -1 .. h,
           NEW c \in Nat, c >= 1, c <= h, NEW p \in 0 .. c - 1
    PROVE  cell_at(w, h, Overlay(f, w, h, c, p, old), i, j) = Seen(f, w, h, c, p, old, i, j)
<1> DEFINE d == Slab(h, c, p)
           x == At(w, h, i, j)
           buf == pack(f, w, h, c, p)
           y == (i + 2) * (Rows(d) + 4) + (j - d.j0 + 2)
<1>1. x \in 0 .. FrameSize(w, h) - 1 /\ (x \div (h + 2)) - 1 = i /\ (x % (h + 2)) - 1 = j
  BY FramePlace
<1>2. Rows(d) \in Nat /\ d.j0 \in Nat
  BY SlabRows DEF Slab, Rows
<1> HIDE DEF x, d
<1>3. place(w, h, old, d.j0, Rows(d), buf)[x]
        = IF j - d.j0 \in -2 .. Rows(d) + 1 THEN buf[y] ELSE cell_at(w, h, old, i, j)
  <2> HIDE DEF buf
  <2> QED BY <1>1 DEF place, Frame
<1>4. ASSUME j - d.j0 \in -2 .. Rows(d) + 1
      PROVE  buf[y] = Canvas(f, w, h, c, p, i, j - d.j0)
  <2> DEFINE a == i + 2
             b == j - d.j0 + 2
             u == w + 4
             v == Rows(d) + 4
  <2>1. u \in Nat /\ v \in Nat /\ v >= 1 /\ a \in 0 .. u - 1 /\ b \in 0 .. v - 1
    BY <1>2, <1>4
  <2>2. a - 2 = i /\ b - 2 = j - d.j0
    BY <1>2
  <2> HIDE DEF a, b, u, v
  <2>3. a * v + b \in 0 .. u * v - 1 /\ (a * v + b) \div v = a /\ (a * v + b) % v = b
    BY <2>1, PlaceInside, Divide
  <2>4. y = a * v + b
    BY DEF a, b, v
  <2> HIDE DEF y
  <2>5. buf[y] = Canvas(f, w, h, c, p, (y \div v) - 2, (y % v) - 2)
    <3>1. buf = [z \in 0 .. u * v - 1 |-> Canvas(f, w, h, c, p, (z \div v) - 2, (z % v) - 2)]
      BY DEF pack, u, v, d
    <3> HIDE DEF buf
    <3> QED BY <2>3, <2>4, <3>1
  <2> HIDE DEF buf
  <2> QED BY <2>2, <2>3, <2>4, <2>5
<1> HIDE DEF buf, y
<1>5. cell_at(w, h, place(w, h, old, d.j0, Rows(d), buf), i, j)
        = IF j - d.j0 \in -2 .. Rows(d) + 1 THEN Canvas(f, w, h, c, p, i, j - d.j0)
          ELSE cell_at(w, h, old, i, j)
  BY <1>3, <1>4 DEF cell_at, x
<1> QED BY <1>5 DEF buf, d, Overlay, Seen

------------------------------------------------------------------------------
(* The gather.  At a place of the frame is what the last of the canvases      *)
(* placed so far that reach it has there.                                     *)
Low(p)      == Slab(ny, n, p).j0
Reaches(p, j) == j - Low(p) \in -2 .. Rows(Slab(ny, n, p)) + 1

Shapes ==
    /\ nx \in Nat /\ nx >= 1 /\ ny \in Nat /\ ny >= 1
    /\ n \in Nat /\ n >= 1 /\ n <= ny /\ (n = 1 \/ ny >= 2 * n)
    /\ rx \in Nat /\ rx >= 1 /\ ry \in Nat /\ ry >= 1
    /\ m \in Nat /\ m >= 1 /\ m <= ry
    /\ field \in {"dv", "cv"}

LastPlaced ==
    \A p \in 0 .. placed - 1 : \A i \in -1 .. nx, j \in -1 .. ny :
        Reaches(p, j) /\ (\A q \in p + 1 .. placed - 1 : ~ Reaches(q, j))
            => framed_at(i, j) = Canvas(field, nx, ny, n, p, i, j - Low(p))

GatherInv ==
    /\ Shapes
    /\ placed \in 0 .. n
    /\ n > 1 => LastPlaced
    /\ n = 1 /\ placed = 1 => frame = SerialFrame(field, nx, ny)

LEMMA PlaceStep ==
    ASSUME GatherInv, Place
    PROVE  LastPlaced'
<1>1. /\ n > 1 /\ placed < n /\ placed' = placed + 1
      /\ UNCHANGED <<nx, ny, n, field>>
      /\ placed \in Nat /\ n \in Nat /\ n <= ny /\ ny \in Nat /\ nx \in Nat
  BY DEF Place, GatherInv, Shapes, case
<1>2. frame' = Overlay(field, nx, ny, n, placed, frame)
  BY DEF Place, Overlay
<1>3. \A p, j : Reaches(p, j)' <=> Reaches(p, j)
  BY <1>1 DEF Reaches, Low
<1>4. ASSUME NEW i \in -1 .. nx, NEW j \in -1 .. ny
      PROVE  framed_at(i, j)' = IF Reaches(placed, j)
                                  THEN Canvas(field, nx, ny, n, placed, i, j - Low(placed))
                                  ELSE framed_at(i, j)
  <2>1. placed \in 0 .. n - 1 /\ n >= 1
    BY <1>1
  <2>2. cell_at(nx, ny, frame', i, j) = Seen(field, nx, ny, n, placed, frame, i, j)
    <3>1. nx \in Nat /\ ny \in Nat /\ n \in Nat /\ n >= 1 /\ n <= ny
      BY <1>1, <2>1
    <3>2. cell_at(nx, ny, Overlay(field, nx, ny, n, placed, frame), i, j)
            = Seen(field, nx, ny, n, placed, frame, i, j)
      BY <2>1, <3>1, PlacedAt
    <3> QED BY <1>2, <3>2
  <2>3. framed_at(i, j)' = cell_at(nx, ny, frame', i, j)
    BY <1>1 DEF framed_at, cell_at, At
  <2> QED BY <2>2, <2>3 DEF Seen, framed_at, Reaches, Low
<1> SUFFICES ASSUME NEW p \in 0 .. placed, NEW i \in -1 .. nx, NEW j \in -1 .. ny,
                    Reaches(p, j), \A q \in p + 1 .. placed : ~ Reaches(q, j)
             PROVE  framed_at(i, j)' = Canvas(field, nx, ny, n, p, i, j - Low(p))
  <2>1. placed' - 1 = placed
    BY <1>1
  <2>2. \A p : Low(p)' = Low(p)
    BY <1>1 DEF Low
  <2>3. \A p, i, j : Canvas(field, nx, ny, n, p, i, j - Low(p))'
                        = Canvas(field, nx, ny, n, p, i, j - Low(p))
    BY <1>1, <2>2 DEF Canvas, Cv, Dv
  <2> QED BY <1>1, <1>3, <2>1, <2>2, <2>3 DEF LastPlaced
<1>5. CASE p = placed
  BY <1>4, <1>5
<1>6. CASE p # placed
  <2>1. p \in 0 .. placed - 1 /\ placed \in p + 1 .. placed
    BY <1>1, <1>6
  <2>2. ~ Reaches(placed, j) /\ \A q \in p + 1 .. placed - 1 : ~ Reaches(q, j)
    BY <1>1, <2>1
  <2>3. framed_at(i, j) = Canvas(field, nx, ny, n, p, i, j - Low(p))
    BY <1>1, <2>1, <2>2 DEF GatherInv, LastPlaced
  <2> QED BY <1>4, <2>2, <2>3
<1> QED BY <1>5, <1>6

LEMMA GatherAlways == LayoutSpec => []GatherInv
<1>1. LayoutInit => GatherInv
  <2> SUFFICES ASSUME LayoutInit PROVE GatherInv
    OBVIOUS
  <2>1. Shapes
    <3>1. /\ MaxNX \in Nat /\ MaxNY \in Nat /\ MaxRanks \in Nat
      BY LayoutAssumption
    <3>2. /\ nx \in 1 .. MaxNX /\ ny \in 1 .. MaxNY
          /\ n \in 1 .. MaxRanks /\ (n = 1 \/ ny >= 2 * n) /\ m <= ry
      BY DEF LayoutInit
    <3>3. \/ field = "dv" /\ rx = nx /\ ry = ny /\ m = 1
          \/ field = "cv" /\ rx = nx /\ ry = ny /\ m \in 1 .. MaxRanks
          \/ field = "cv" /\ rx = ny /\ ry = nx /\ m = 1
      BY DEF LayoutInit
    <3> QED BY <3>1, <3>2, <3>3 DEF Shapes
  <2>2. placed = 0
    BY DEF LayoutInit
  <2>3. LastPlaced
    BY <2>2 DEF LastPlaced
  <2> QED BY <2>1, <2>2, <2>3 DEF GatherInv, Shapes
<1>2. GatherInv /\ [LayoutNext]_lvars => GatherInv'
  <2> SUFFICES ASSUME GatherInv, [LayoutNext]_lvars PROVE GatherInv'
    OBVIOUS
  <2>1. UNCHANGED case
    BY DEF LayoutNext, GatherSerial, Place, Reject, Strip, Scatterv, lvars
  <2>2. Shapes'
    BY <2>1 DEF GatherInv, Shapes, case
  <2>3. CASE GatherSerial
    <3>1. n = 1 /\ placed' = 1 /\ frame' = SerialFrame(field, nx, ny) /\ n' = n
      BY <2>1, <2>3 DEF GatherSerial, case
    <3>2. SerialFrame(field, nx, ny)' = SerialFrame(field, nx, ny)
      BY <2>1 DEF case, SerialFrame, Frame, FrameSize, Canvas, Cv, Dv
    <3> QED BY <2>2, <3>1, <3>2 DEF GatherInv
  <2>4. CASE Place
    <3>1. n > 1 /\ n' = n /\ placed < n /\ placed' = placed + 1
      BY <2>1, <2>4 DEF Place, case
    <3>2. placed' \in 0 .. n'
      BY <3>1 DEF GatherInv, Shapes
    <3>3. LastPlaced'
      BY <2>4, PlaceStep
    <3> QED BY <2>2, <3>1, <3>2, <3>3 DEF GatherInv
  <2>5. CASE UNCHANGED gathering
    <3>1. UNCHANGED <<nx, ny, n, field, frame, placed>>
      BY <2>1, <2>5 DEF case, gathering
    <3>2. SerialFrame(field, nx, ny)' = SerialFrame(field, nx, ny)
      BY <3>1 DEF SerialFrame, Frame, FrameSize, Canvas, Cv, Dv
    <3>3. \A p, j : Reaches(p, j)' <=> Reaches(p, j)
      BY <3>1 DEF Reaches, Low
    <3>4. \A i, j : framed_at(i, j)' = framed_at(i, j)
      BY <3>1 DEF framed_at, cell_at, At
    <3>5. \A p, i, j : Canvas(field, nx, ny, n, p, i, j - Low(p))'
                          = Canvas(field, nx, ny, n, p, i, j - Low(p))
      BY <3>1 DEF Canvas, Cv, Dv, Low
    <3>6. LastPlaced => LastPlaced'
      BY <3>1, <3>3, <3>4, <3>5 DEF LastPlaced
    <3> QED BY <2>2, <3>1, <3>2, <3>6 DEF GatherInv
  <2>6. GatherSerial \/ Place \/ UNCHANGED gathering
    BY DEF LayoutNext, Reject, Strip, Scatterv, lvars
  <2> QED BY <2>3, <2>4, <2>5, <2>6
<1> QED BY <1>1, <1>2, PTL DEF LayoutSpec

------------------------------------------------------------------------------
(* Slabs of the ghost depth: the ghost rows of a slab stay in its neighbours. *)
LEMMA ThickSlabs ==
    ASSUME NEW h \in Nat, NEW c \in Nat, c >= 1, h >= 2 * c, NEW p \in 0 .. c - 1
    PROVE  first(h, c, p + 1) >= first(h, c, p) + 2
<1> DEFINE q == base(h, c)
           t == rem(h, c)
<1>1. c <= h
  OBVIOUS
<1>2. q \in Nat /\ t \in 0 .. c - 1 /\ h = c * q + t
  BY <1>1, DivMod
<1>3. first(h, c, p) \in Nat /\ first(h, c, p + 1) = first(h, c, p) + q + extra(h, c, p)
  BY <1>1, FirstRow
<1> HIDE DEF q, t
<1>4. q >= 2
  <2> SUFFICES ASSUME q <= 1 PROVE FALSE
    BY <1>2
  <2>1. q = 0 \/ q = 1
    BY <1>2
  <2>2. c * q = 0 \/ c * q = c
    BY <2>1
  <2> QED BY <1>2, <2>2
<1>5. extra(h, c, p) \in {0, 1}
  BY DEF extra
<1> QED BY <1>2, <1>3, <1>4, <1>5

(* A rank's rows in terms of first.                                           *)
LEMMA LowIs ==
    ASSUME Shapes, NEW p \in 0 .. n - 1
    PROVE  /\ Low(p) = first(ny, n, p) /\ Low(p) \in Nat
           /\ Rows(Slab(ny, n, p)) = first(ny, n, p + 1) - first(ny, n, p)
           /\ first(ny, n, p + 1) \in Nat
           /\ p + 1 < n => Low(p + 1) = first(ny, n, p + 1)
<1>1. ny \in Nat /\ n \in Nat /\ n >= 1 /\ n <= ny
  BY DEF Shapes
<1>2. p \in 0 .. n /\ p + 1 \in 0 .. n
  BY <1>1
<1>3. first(ny, n, p) \in Nat /\ first(ny, n, p + 1) \in Nat
  BY <1>1, <1>2, FirstRow
<1>4. make(ny, n, p).j0 = first(ny, n, p) /\ make(ny, n, p).j1 = first(ny, n, p + 1)
  BY <1>1, MakeIs
<1>5. p + 1 < n => make(ny, n, p + 1).j0 = first(ny, n, p + 1)
  <2> SUFFICES ASSUME p + 1 < n PROVE make(ny, n, p + 1).j0 = first(ny, n, p + 1)
    OBVIOUS
  <2>1. p + 1 \in 0 .. n - 1
    BY <1>1
  <2> QED BY <1>1, <2>1, MakeIs
<1> QED BY <1>3, <1>4, <1>5 DEF Low, Rows, Slab

(* The rank whose canvas is seen in row j: the one that owns it, or, in the   *)
(* two rows below a slab, the rank of that slab.                              *)
Shows(p, j) ==
    /\ Reaches(p, j) /\ \A q \in p + 1 .. n - 1 : ~ Reaches(q, j)
    /\ Overlaid(j) => j \in 0 .. ny - 1
    /\ j - Low(p) \in 0 .. Rows(Slab(ny, n, p)) - 1 <=> j \in 0 .. ny - 1 /\ ~ Overlaid(j)

LEMMA OneShows ==
    ASSUME Shapes, NEW j \in -1 .. ny
    PROVE  \E p \in 0 .. n - 1 : Shows(p, j)
<1> DEFINE F(p) == first(ny, n, p)
<1>1. ny \in Nat /\ n \in Nat /\ n >= 1 /\ n <= ny /\ ny >= 1
  BY DEF Shapes
<1>2. \A p \in 0 .. n : F(p) \in Nat
  BY <1>1, FirstRow
<1>3. F(0) = 0 /\ F(n) = ny
  BY <1>1, FirstRowBounds
<1>4. \A a \in 0 .. n, b \in 0 .. n : a <= b => F(a) <= F(b)
  BY <1>1, FirstRowMonotone
<1>5. n > 1 => \A p \in 0 .. n - 1 : F(p + 1) >= F(p) + 2
  <2> SUFFICES ASSUME n > 1, NEW p \in 0 .. n - 1 PROVE F(p + 1) >= F(p) + 2
    OBVIOUS
  <2>1. ny >= 2 * n
    BY DEF Shapes
  <2> QED BY <1>1, <2>1, ThickSlabs
<1>6. \A p \in 0 .. n - 1 : Reaches(p, j) <=> F(p) - 2 <= j /\ j <= F(p + 1) + 1
  <2> SUFFICES ASSUME NEW p \in 0 .. n - 1
               PROVE  Reaches(p, j) <=> F(p) - 2 <= j /\ j <= F(p + 1) + 1
    OBVIOUS
  <2>1. /\ Low(p) = F(p) /\ Low(p) \in Nat
        /\ Rows(Slab(ny, n, p)) = F(p + 1) - F(p) /\ F(p + 1) \in Nat
    BY LowIs
  <2> HIDE DEF F
  <2> QED BY <1>1, <2>1 DEF Reaches
<1>7. \A p \in 0 .. n - 1 :
         j - Low(p) \in 0 .. Rows(Slab(ny, n, p)) - 1 <=> F(p) <= j /\ j < F(p + 1)
  <2> SUFFICES ASSUME NEW p \in 0 .. n - 1
               PROVE  j - Low(p) \in 0 .. Rows(Slab(ny, n, p)) - 1 <=> F(p) <= j /\ j < F(p + 1)
    OBVIOUS
  <2>1. /\ Low(p) = F(p) /\ Low(p) \in Nat
        /\ Rows(Slab(ny, n, p)) = F(p + 1) - F(p) /\ F(p + 1) \in Nat
    BY LowIs
  <2> HIDE DEF F
  <2> QED BY <1>1, <2>1
<1>8. Overlaid(j) <=> \E r \in 1 .. n - 1 : F(r) - 2 <= j /\ j <= F(r) - 1
  <2>1. \A r \in 1 .. n - 1 : Slab(ny, n, r).j0 = F(r) /\ F(r) \in Nat
    <3> SUFFICES ASSUME NEW r \in 1 .. n - 1 PROVE Slab(ny, n, r).j0 = F(r) /\ F(r) \in Nat
      OBVIOUS
    <3>1. r \in 0 .. n - 1
      BY <1>1
    <3> QED BY <3>1, LowIs DEF Low
  <2> HIDE DEF F
  <2> QED BY <1>1, <2>1 DEF Overlaid
<1> HIDE DEF F
<1>9. \A r \in 1 .. n - 1 : 2 <= F(r) /\ F(r) <= ny - 2
  <2> SUFFICES ASSUME NEW r \in 1 .. n - 1 PROVE 2 <= F(r) /\ F(r) <= ny - 2
    OBVIOUS
  <2>1. n > 1 /\ r - 1 \in 0 .. n - 1 /\ r \in 0 .. n - 1 /\ r + 1 \in 0 .. n /\ n \in 0 .. n
        /\ (r - 1) + 1 = r /\ r + 1 <= n /\ r - 1 \in 0 .. n
    BY <1>1
  <2>2. F(r) >= F(r - 1) + 2 /\ F(r + 1) >= F(r) + 2 /\ F(r + 1) <= F(n)
    BY <1>4, <1>5, <2>1
  <2> QED BY <1>1, <1>2, <1>3, <2>1, <2>2
<1>10. Overlaid(j) => j \in 0 .. ny - 1
  <2> SUFFICES ASSUME NEW r \in 1 .. n - 1, F(r) - 2 <= j, j <= F(r) - 1
               PROVE  j \in 0 .. ny - 1
    BY <1>8
  <2>1. 2 <= F(r) /\ F(r) <= ny - 2 /\ r \in 0 .. n
    BY <1>1, <1>9
  <2> QED BY <1>1, <1>2, <2>1
<1>11. SUFFICES \E p \in 0 .. n - 1 :
          /\ F(p) - 2 <= j /\ j <= F(p + 1) + 1
          /\ \A q \in p + 1 .. n - 1 : j < F(q) - 2
          /\ F(p) <= j /\ j < F(p + 1) <=> j \in 0 .. ny - 1 /\ ~ Overlaid(j)
  <2> SUFFICES ASSUME NEW p \in 0 .. n - 1,
                      F(p) - 2 <= j /\ j <= F(p + 1) + 1,
                      \A q \in p + 1 .. n - 1 : j < F(q) - 2,
                      F(p) <= j /\ j < F(p + 1) <=> j \in 0 .. ny - 1 /\ ~ Overlaid(j)
               PROVE  Shows(p, j)
    OBVIOUS
  <2>1. \A q \in p + 1 .. n - 1 : q \in 0 .. n - 1 /\ F(q) \in Nat
    BY <1>1, <1>2
  <2>2. \A q \in p + 1 .. n - 1 : ~ Reaches(q, j)
    BY <1>6, <2>1
  <2> QED BY <1>6, <1>7, <1>10, <2>2 DEF Shows
<1>12. CASE j = -1
  <2>1. 0 \in 0 .. n - 1 /\ 0 + 1 \in 0 .. n
    BY <1>1
  <2>2. \A q \in 0 + 1 .. n - 1 : j < F(q) - 2
    BY <1>1, <1>2, <1>9, <1>12
  <2>3. F(0) - 2 <= j /\ j <= F(0 + 1) + 1 /\ ~ (F(0) <= j)
    BY <1>2, <1>3, <1>12, <2>1
  <2> QED BY <1>12, <2>1, <2>2, <2>3
<1>13. CASE j = ny
  <2>1. n - 1 \in 0 .. n - 1 /\ (n - 1) + 1 = n /\ (n - 1) + 1 .. n - 1 = {} /\ n - 1 \in 0 .. n
    BY <1>1
  <2>2. F(n - 1) - 2 <= j
    BY <1>1, <1>2, <1>3, <1>4, <1>13, <2>1
  <2>3. j <= F((n - 1) + 1) + 1 /\ ~ (j < F((n - 1) + 1))
    BY <1>1, <1>3, <1>13, <2>1
  <2> QED BY <1>1, <1>13, <2>1, <2>2, <2>3
<1>14. CASE j \in 0 .. ny - 1
  <2>1. PICK o \in 0 .. n - 1 : F(o) <= j /\ j < F(o + 1)
    BY <1>1, <1>14, EveryRowOwned DEF F
  <2>2. o + 1 \in 0 .. n /\ o \in 0 .. n /\ F(o) \in Nat /\ F(o + 1) \in Nat
    BY <1>1, <1>2
  <2>3. CASE o + 1 < n /\ F(o + 1) - 2 <= j
    <3>1. o + 1 \in 0 .. n - 1 /\ o + 1 \in 1 .. n - 1 /\ o + 2 \in 0 .. n /\ (o + 1) + 1 = o + 2
      BY <1>1, <2>3
    <3>2. Overlaid(j) /\ ~ (F(o + 1) <= j)
      BY <1>8, <2>1, <2>2, <2>3, <3>1
    <3>3. F(o + 2) \in Nat /\ F(o + 2) >= F(o + 1) + 2
      BY <1>1, <1>2, <1>5, <3>1
    <3>4. \A q \in (o + 1) + 1 .. n - 1 : j < F(q) - 2
      <4> SUFFICES ASSUME NEW q \in (o + 1) + 1 .. n - 1 PROVE j < F(q) - 2
        OBVIOUS
      <4>1. q \in 0 .. n /\ o + 2 <= q
        BY <1>1
      <4>2. F(o + 2) <= F(q) /\ F(q) \in Nat
        BY <1>2, <1>4, <3>1, <4>1
      <4> QED BY <2>1, <2>2, <3>3, <4>2
    <3> QED BY <2>1, <2>2, <2>3, <3>1, <3>2, <3>3, <3>4
  <2>4. CASE ~ (o + 1 < n /\ F(o + 1) - 2 <= j)
    <3>1. \A q \in o + 1 .. n - 1 : j < F(q) - 2 /\ F(q) \in Nat
      <4> SUFFICES ASSUME NEW q \in o + 1 .. n - 1 PROVE j < F(q) - 2 /\ F(q) \in Nat
        OBVIOUS
      <4>1. q \in 0 .. n /\ o + 1 <= q /\ o + 1 < n
        BY <1>1
      <4>2. F(o + 1) <= F(q) /\ F(q) \in Nat
        BY <1>2, <1>4, <2>2, <4>1
      <4> QED BY <2>2, <2>4, <4>1, <4>2
    <3>2. ~ Overlaid(j)
      <4> SUFFICES ASSUME NEW r \in 1 .. n - 1, F(r) - 2 <= j, j <= F(r) - 1 PROVE FALSE
        BY <1>8
      <4>1. r \in 0 .. n /\ F(r) \in Nat
        BY <1>1, <1>2
      <4>2. CASE r >= o + 1
        BY <1>1, <3>1, <4>1, <4>2
      <4>3. CASE r <= o
        BY <1>4, <2>1, <2>2, <4>1, <4>3
      <4> QED BY <4>1, <4>2, <4>3
    <3> QED BY <1>14, <2>1, <2>2, <3>1, <3>2
  <2> QED BY <2>3, <2>4
<1> QED BY <1>1, <1>12, <1>13, <1>14

(* What a complete frame shows: the canvas of one rank in each row.           *)
LEMMA FrameShows ==
    ASSUME GatherInv, placed = n, NEW j \in -1 .. ny
    PROVE  \E p \in 0 .. n - 1 :
              /\ Shows(p, j)
              /\ \A i \in -1 .. nx : framed_at(i, j) = Canvas(field, nx, ny, n, p, i, j - Low(p))
<1>1. Shapes /\ n \in Nat /\ n >= 1 /\ nx \in Nat /\ ny \in Nat
  BY DEF GatherInv, Shapes
<1>2. PICK p \in 0 .. n - 1 : Shows(p, j)
  BY <1>1, OneShows
<1>3. CASE n > 1
  BY <1>2, <1>3 DEF GatherInv, LastPlaced, Shows
<1>4. CASE n = 1
  <2>1. p = 0 /\ Low(p) = 0
    <3>1. p = 0
      BY <1>2, <1>4
    <3>2. first(ny, n, 0) = 0
      BY <1>1, FirstRowBounds DEF Shapes
    <3> QED BY <1>1, <1>2, <3>1, <3>2, LowIs
  <2>2. frame = SerialFrame(field, nx, ny)
    BY <1>4 DEF GatherInv
  <2>3. ASSUME NEW i \in -1 .. nx
        PROVE  framed_at(i, j) = Canvas(field, nx, ny, 1, 0, i, j)
    BY <1>1, <2>2, SerialAt DEF framed_at
  <2>4. j - 0 = j
    OBVIOUS
  <2> QED BY <1>2, <1>4, <2>1, <2>3, <2>4
<1> QED BY <1>1, <1>3, <1>4

(* The values of dv_ and cv_ in the row that rank p shows.                    *)
LEMMA ShownDv ==
    ASSUME Shapes, NEW j \in -1 .. ny, NEW p \in 0 .. n - 1, Shows(p, j), NEW i \in -1 .. nx
    PROVE  Dv(nx, ny, n, p, i, j - Low(p))
             = IF i \in 0 .. nx - 1
                 THEN IF j \in 0 .. ny - 1 THEN Cell(i, j) ELSE Bc(i, j)
                 ELSE IF j \in 0 .. ny - 1 /\ ~ Overlaid(j) THEN Bc(i, j) ELSE Free
<1>1. Low(p) \in Nat /\ Slab(ny, n, p).j0 = Low(p)
  BY LowIs DEF Low
<1>2. Low(p) + (j - Low(p)) = j
  BY <1>1
<1>3. j - Low(p) \in 0 .. Rows(Slab(ny, n, p)) - 1 <=> j \in 0 .. ny - 1 /\ ~ Overlaid(j)
  BY DEF Shows
<1> QED BY <1>1, <1>2, <1>3 DEF Dv

LEMMA ShownCv ==
    ASSUME Shapes, NEW j \in -1 .. ny, NEW p \in 0 .. n - 1, Shows(p, j), NEW i \in -1 .. nx
    PROVE  Cv(nx, ny, n, p, i, j - Low(p))
             = IF i \in 0 .. nx - 1 /\ j \in 0 .. ny - 1 /\ ~ Overlaid(j) THEN Cell(i, j) ELSE Free
<1>1. Low(p) \in Nat /\ Slab(ny, n, p).j0 = Low(p)
  BY LowIs DEF Low
<1>2. Low(p) + (j - Low(p)) = j
  BY <1>1
<1>3. j - Low(p) \in 0 .. Rows(Slab(ny, n, p)) - 1 <=> j \in 0 .. ny - 1 /\ ~ Overlaid(j)
  BY DEF Shows
<1> QED BY <1>1, <1>2, <1>3 DEF Cv

(* Kinds of cell are told apart.                                              *)
LEMMA Kinds ==
    ASSUME NEW i, NEW j
    PROVE  Cell(i, j) # Free /\ Bc(i, j) # Free
<1>1. Len(Cell(i, j)) = 3 /\ Len(Bc(i, j)) = 3 /\ Len(Free) = 1
  BY DEF Cell, Bc, Free
<1> QED BY <1>1

(* A gathered plane of dv_ has every cell at its place, for every grid and    *)
(* every number of ranks whose slabs have the ghost depth.                    *)
THEOREM SolutionRightAlways == LayoutSpec => []SolutionRight
<1>1. GatherInv => SolutionRight
  <2> SUFFICES ASSUME GatherInv, placed = n, field = "dv", NEW i \in 0 .. nx - 1, NEW j \in -1 .. ny
               PROVE  framed_at(i, j) = IF j \in 0 .. ny - 1 THEN Cell(i, j) ELSE Bc(i, j)
    BY DEF SolutionRight, Gathered
  <2>1. Shapes /\ i \in -1 .. nx
    BY DEF GatherInv, Shapes
  <2>2. PICK p \in 0 .. n - 1 :
           /\ Shows(p, j)
           /\ \A x \in -1 .. nx : framed_at(x, j) = Canvas(field, nx, ny, n, p, x, j - Low(p))
    BY FrameShows
  <2>3. framed_at(i, j) = Dv(nx, ny, n, p, i, j - Low(p))
    BY <2>1, <2>2 DEF Canvas
  <2> QED BY <2>1, <2>2, <2>3, ShownDv
<1> QED BY <1>1, GatherAlways, PTL

(* The parity with one process is lost in the ghost columns of the rows that  *)
(* a later rank's ghosts lie over, and nowhere else.                          *)
THEOREM ParityLossBoundedAlways == LayoutSpec => []ParityLossBounded
<1>1. GatherInv => ParityLossBounded
  <2> SUFFICES ASSUME GatherInv, placed = n, field = "dv", NEW i \in -1 .. nx, NEW j \in -1 .. ny
               PROVE  framed_at(i, j) = cell_at(nx, ny, SerialFrame("dv", nx, ny), i, j)
                        <=> ~ (i \in {-1, nx} /\ Overlaid(j))
    BY DEF ParityLossBounded, Gathered
  <2>1. Shapes /\ nx \in Nat /\ ny \in Nat /\ ny >= 1
    BY DEF GatherInv, Shapes
  <2>2. PICK p \in 0 .. n - 1 :
           /\ Shows(p, j)
           /\ \A x \in -1 .. nx : framed_at(x, j) = Canvas(field, nx, ny, n, p, x, j - Low(p))
    BY FrameShows
  <2>3. framed_at(i, j) = Dv(nx, ny, n, p, i, j - Low(p))
    BY <2>2 DEF Canvas
  <2>4. framed_at(i, j)
          = IF i \in 0 .. nx - 1
              THEN IF j \in 0 .. ny - 1 THEN Cell(i, j) ELSE Bc(i, j)
              ELSE IF j \in 0 .. ny - 1 /\ ~ Overlaid(j) THEN Bc(i, j) ELSE Free
    BY <2>1, <2>2, <2>3, ShownDv
  <2>5. cell_at(nx, ny, SerialFrame("dv", nx, ny), i, j) = Dv(nx, ny, 1, 0, i, j)
    BY <2>1, SerialAt DEF Canvas
  <2>6. Slab(ny, 1, 0).j0 = 0 /\ Rows(Slab(ny, 1, 0)) = ny
    BY <2>1, OneSlab
  <2>7. Dv(nx, ny, 1, 0, i, j)
          = IF i \in 0 .. nx - 1
              THEN IF j \in 0 .. ny - 1 THEN Cell(i, j) ELSE Bc(i, j)
              ELSE IF j \in 0 .. ny - 1 THEN Bc(i, j) ELSE Free
    BY <2>1, <2>6 DEF Dv
  <2>8. i \in {-1, nx} <=> ~ (i \in 0 .. nx - 1)
    BY <2>1
  <2>9. Overlaid(j) => j \in 0 .. ny - 1
    BY <2>2 DEF Shows
  <2>10. Bc(i, j) # Free
    BY Kinds
  <2> QED BY <2>4, <2>5, <2>7, <2>8, <2>9, <2>10
<1> QED BY <1>1, GatherAlways, PTL

(* Of a gathered plane of cv_, exactly the cells of those rows are lost.      *)
THEOREM RestartLossBoundedAlways == LayoutSpec => []RestartLossBounded
<1>1. GatherInv => RestartLossBounded
  <2> SUFFICES ASSUME GatherInv, placed = n, field = "cv",
                      NEW i \in 0 .. nx - 1, NEW j \in 0 .. ny - 1
               PROVE  framed_at(i, j) = Cell(i, j) <=> ~ Overlaid(j)
    BY DEF RestartLossBounded, Gathered
  <2>1. Shapes /\ i \in -1 .. nx /\ j \in -1 .. ny
    BY DEF GatherInv, Shapes
  <2>2. PICK p \in 0 .. n - 1 :
           /\ Shows(p, j)
           /\ \A x \in -1 .. nx : framed_at(x, j) = Canvas(field, nx, ny, n, p, x, j - Low(p))
    BY <2>1, FrameShows
  <2>3. framed_at(i, j) = Cv(nx, ny, n, p, i, j - Low(p))
    BY <2>1, <2>2 DEF Canvas
  <2>4. framed_at(i, j) = IF ~ Overlaid(j) THEN Cell(i, j) ELSE Free
    BY <2>1, <2>2, <2>3, ShownCv
  <2> QED BY <2>4, Kinds
<1> QED BY <1>1, GatherAlways, PTL

------------------------------------------------------------------------------
(* The load.  The place of a plane of the file, stripped of its ghost frame,  *)
(* that a reader puts into one of its cells.                                  *)
Src(r, c) == displs(r) + (c[1] * mesh_ny(r) + c[2])

(* The chunks of the readers lie one behind the other in the plane.           *)
LEMMA Chunks ==
    ASSUME Shapes, NEW r \in Readers
    PROVE  /\ mesh_ny(r) \in Nat /\ mesh_ny(r) >= 1
           /\ counts(r) \in Nat /\ displs(r) \in Nat
           /\ displs(r) = rx * first(ry, m, r)
           /\ displs(r) + counts(r) = rx * first(ry, m, r + 1)
           /\ displs(r) + counts(r) <= rx * ry
<1>1. ry \in Nat /\ m \in Nat /\ m >= 1 /\ m <= ry /\ r \in 0 .. m - 1 /\ rx \in Nat
  BY DEF Shapes, Readers
<1>2. make(ry, m, r).j0 = first(ry, m, r) /\ make(ry, m, r).j1 = first(ry, m, r + 1)
  BY <1>1, MakeIs
<1>3. /\ make(ry, m, r).j0 \in Nat /\ make(ry, m, r).j1 \in Nat
      /\ make(ry, m, r).j0 < make(ry, m, r).j1 /\ make(ry, m, r).j1 <= ry
  BY <1>1, SlabRows
<1> DEFINE a == first(ry, m, r)
           b == first(ry, m, r + 1)
<1>4. a \in Nat /\ b \in Nat /\ a < b /\ b <= ry
  BY <1>2, <1>3
<1>5. mesh_ny(r) = b - a /\ displs(r) = rx * a
  BY <1>2 DEF mesh_ny, displs, Slab, Rows
<1> HIDE DEF a, b
<1>6. /\ rx * a \in Nat /\ rx * (b - a) \in Nat /\ rx * b \in Nat
      /\ rx * ry \in Nat /\ rx * (ry - b) \in Nat
  BY <1>1, <1>4, SMTT(30)
<1>7. rx * (b - a) = rx * b - rx * a /\ rx * (ry - b) = rx * ry - rx * b
  BY <1>1, <1>4, SMTT(30)
<1>8. counts(r) = rx * (b - a)
  BY <1>5 DEF counts
<1>9. mesh_ny(r) \in Nat /\ mesh_ny(r) >= 1
  BY <1>4, <1>5
<1>10. displs(r) + counts(r) = rx * b /\ rx * b <= rx * ry
  BY <1>5, <1>6, <1>7, <1>8
<1> QED BY <1>5, <1>6, <1>8, <1>9, <1>10 DEF a, b

(* The places of a chunk are inside the plane.                                *)
LEMMA SrcInside ==
    ASSUME Shapes, NEW r \in Readers, NEW c \in Cells(r)
    PROVE  /\ c[1] * mesh_ny(r) + c[2] \in 0 .. counts(r) - 1
           /\ Src(r, c) \in displs(r) .. displs(r) + counts(r) - 1
           /\ Src(r, c) \in 0 .. rx * ry - 1
<1>1. /\ mesh_ny(r) \in Nat /\ counts(r) \in Nat /\ displs(r) \in Nat
      /\ displs(r) + counts(r) <= rx * ry /\ rx \in Nat /\ ry \in Nat
  BY Chunks DEF Shapes
<1>2. c[1] \in 0 .. rx - 1 /\ c[2] \in 0 .. mesh_ny(r) - 1
  BY DEF Cells
<1>3. c[1] * mesh_ny(r) + c[2] \in 0 .. rx * mesh_ny(r) - 1
  BY <1>1, <1>2, PlaceInside
<1>4. c[1] * mesh_ny(r) + c[2] \in 0 .. counts(r) - 1
  BY <1>3 DEF counts
<1> DEFINE z == c[1] * mesh_ny(r) + c[2]
<1>5. z \in 0 .. counts(r) - 1 /\ Src(r, c) = displs(r) + z
  BY <1>4 DEF Src
<1>6. rx * ry \in Nat
  BY <1>1, SMTT(30)
<1> HIDE DEF z
<1>7. /\ Src(r, c) \in displs(r) .. displs(r) + counts(r) - 1
      /\ Src(r, c) \in 0 .. rx * ry - 1
  BY <1>1, <1>5, <1>6
<1> QED BY <1>4, <1>7

(* No two cells of the readers are filled from the same place.                *)
LEMMA SrcUnique ==
    ASSUME Shapes, NEW r \in Readers, NEW c \in Cells(r),
           NEW s \in Readers, NEW d \in Cells(s), Src(r, c) = Src(s, d)
    PROVE  r = s /\ c = d
<1>1. ry \in Nat /\ m \in Nat /\ m >= 1 /\ m <= ry /\ rx \in Nat /\ r \in 0 .. m - 1 /\ s \in 0 .. m - 1
  BY DEF Shapes, Readers
<1>2. ASSUME NEW a \in Readers, NEW e \in Cells(a), NEW b \in Readers, NEW f \in Cells(b), a < b
      PROVE  Src(a, e) < Src(b, f)
  <2>1. a \in 0 .. m - 1 /\ b \in 0 .. m - 1
    BY DEF Readers
  <2>2. a + 1 \in 0 .. m /\ b \in 0 .. m /\ a + 1 <= b
    BY <1>1, <1>2, <2>1
  <2>3. first(ry, m, a + 1) <= first(ry, m, b)
    BY <1>1, <2>2, FirstRowMonotone
  <2>4. first(ry, m, a + 1) \in Nat /\ first(ry, m, b) \in Nat
    BY <1>1, <2>2, FirstRow
  <2> DEFINE u == first(ry, m, a + 1)
             v == first(ry, m, b)
  <2>5. displs(a) + counts(a) = rx * u /\ displs(b) = rx * v
    BY Chunks
  <2>6. u \in Nat /\ v \in Nat /\ u <= v
    BY <2>3, <2>4
  <2> HIDE DEF u, v
  <2>7. rx * u \in Nat /\ rx * v \in Nat /\ rx * (v - u) \in Nat
    BY <1>1, <2>6, SMTT(30)
  <2>8. rx * (v - u) = rx * v - rx * u
    BY <1>1, <2>6, SMTT(30)
  <2>9. /\ Src(a, e) \in displs(a) .. displs(a) + counts(a) - 1
        /\ Src(b, f) \in displs(b) .. displs(b) + counts(b) - 1
    BY SrcInside
  <2>10. displs(a) \in Nat /\ displs(b) \in Nat /\ counts(a) \in Nat /\ counts(b) \in Nat
    BY Chunks
  <2> QED BY <2>5, <2>7, <2>8, <2>9, <2>10
<1>3. Src(r, c) \in Int
  BY SrcInside, Chunks
<1>4. r = s
  <2>1. ~ (r < s) /\ ~ (s < r)
    BY <1>2, <1>3
  <2> QED BY <1>1, <2>1
<1>5. c[1] * mesh_ny(r) + c[2] = d[1] * mesh_ny(r) + d[2]
  <2>1. /\ c[1] * mesh_ny(r) + c[2] \in 0 .. counts(r) - 1
        /\ d[1] * mesh_ny(r) + d[2] \in 0 .. counts(r) - 1
        /\ counts(r) \in Nat /\ displs(r) \in Nat
    BY <1>4, SrcInside, Chunks
  <2> DEFINE x == c[1] * mesh_ny(r) + c[2]
             y == d[1] * mesh_ny(r) + d[2]
  <2>2. displs(r) + x = displs(r) + y /\ x \in 0 .. counts(r) - 1 /\ y \in 0 .. counts(r) - 1
    BY <1>4, <2>1 DEF Src
  <2> HIDE DEF x, y
  <2>3. x = y
    BY <2>1, <2>2
  <2> QED BY <2>3 DEF x, y
<1>6. c \in (0 .. rx - 1) \X (0 .. mesh_ny(r) - 1) /\ d \in (0 .. rx - 1) \X (0 .. mesh_ny(r) - 1)
  BY <1>4 DEF Cells
<1>7. c[1] = d[1] /\ c[2] = d[2]
  <2>1. mesh_ny(r) \in Nat /\ mesh_ny(r) >= 1
    BY Chunks
  <2>2. c[1] \in Int /\ c[2] \in 0 .. mesh_ny(r) - 1 /\ d[1] \in Int /\ d[2] \in 0 .. mesh_ny(r) - 1
    BY <1>1, <1>6
  <2>3. /\ (c[1] * mesh_ny(r) + c[2]) \div mesh_ny(r) = c[1]
        /\ (c[1] * mesh_ny(r) + c[2]) % mesh_ny(r) = c[2]
    BY <2>1, <2>2, Divide
  <2>4. /\ (d[1] * mesh_ny(r) + d[2]) \div mesh_ny(r) = d[1]
        /\ (d[1] * mesh_ny(r) + d[2]) % mesh_ny(r) = d[2]
    BY <2>1, <2>2, Divide
  <2> QED BY <1>5, <2>3, <2>4
<1>8. c = <<c[1], c[2]>> /\ d = <<d[1], d[2]>>
  BY <1>6
<1> QED BY <1>4, <1>7, <1>8

(* Every place of the plane fills some cell.                                  *)
LEMMA SrcCovers ==
    ASSUME Shapes, NEW x \in 0 .. rx * ry - 1
    PROVE  \E r \in Readers : \E c \in Cells(r) : Src(r, c) = x
<1>1. ry \in Nat /\ m \in Nat /\ m >= 1 /\ m <= ry /\ rx \in Nat /\ rx >= 1
  BY DEF Shapes
<1>2. rx * ry = ry * rx /\ rx * ry \in Nat /\ x \in Nat
  BY <1>1, SMTT(30)
<1> DEFINE y == x \div rx
           t == x % rx
<1>3. y \in 0 .. ry - 1 /\ t \in 0 .. rx - 1 /\ x = y * rx + t
  BY <1>1, <1>2, PlaceOf
<1> HIDE DEF y, t
<1>4. PICK r \in 0 .. m - 1 : first(ry, m, r) <= y /\ y < first(ry, m, r + 1)
  BY <1>1, <1>3, EveryRowOwned
<1>5. r \in Readers
  BY DEF Readers
<1> DEFINE a == first(ry, m, r)
           b == first(ry, m, r + 1)
           h == mesh_ny(r)
<1>6. a \in Nat /\ b \in Nat
  <2>1. r \in 0 .. m /\ r + 1 \in 0 .. m
    BY <1>1
  <2> QED BY <1>1, <2>1, FirstRow
<1>7. /\ h \in Nat /\ h >= 1 /\ counts(r) = rx * h /\ displs(r) = rx * a
      /\ displs(r) + counts(r) = rx * b /\ displs(r) \in Nat /\ counts(r) \in Nat
  BY <1>5, Chunks DEF counts
<1>8. a <= y /\ y < b
  BY <1>4
<1> HIDE DEF a, b, h
<1>9. x >= rx * a /\ x < rx * b
  <2>1. (y - a) * rx >= 0 /\ (b - y - 1) * rx >= 0
    BY <1>1, <1>3, <1>6, <1>8, SMTT(30)
  <2>2. (y - a) * rx = y * rx - rx * a /\ (b - y - 1) * rx = rx * b - y * rx - rx
    BY <1>1, <1>3, <1>6, SMTT(30)
  <2>3. y * rx \in Int /\ rx * a \in Int /\ rx * b \in Int
    BY <1>1, <1>3, <1>6, SMTT(30)
  <2> QED BY <1>1, <1>3, <2>1, <2>2, <2>3
<1> DEFINE z == x - displs(r)
<1>10. z \in 0 .. counts(r) - 1 /\ displs(r) + z = x
  BY <1>2, <1>7, <1>9
<1> HIDE DEF z
<1>11. z \in 0 .. rx * h - 1
  BY <1>7, <1>10
<1>12. z \div h \in 0 .. rx - 1 /\ z % h \in 0 .. h - 1 /\ z = (z \div h) * h + (z % h)
  BY <1>1, <1>7, <1>11, PlaceOf
<1> DEFINE c == <<z \div h, z % h>>
<1>13. c \in Cells(r) /\ c[1] = z \div h /\ c[2] = z % h
  BY <1>12 DEF Cells, h
<1>14. Src(r, c) = x
  <2> HIDE DEF c
  <2>1. Src(r, c) = displs(r) + ((z \div h) * h + (z % h))
    BY <1>13 DEF Src, h
  <2> QED BY <1>10, <1>12, <2>1
<1> QED BY <1>5, <1>13, <1>14

------------------------------------------------------------------------------
(* What is in root's buffer, and what the readers have received, of a file    *)
(* that one process has written.                                              *)
Restored(kp, x) == <<kp, Cell(x \div ry, x % ry)>>

Buffered ==
    phase = "loading" /\ n = 1 =>
        \A kp \in 0 .. CvPlanes - 1, x \in 0 .. rx * ry - 1 :
            sendbuf[plane_off(kp) + x] = Restored(kp, x)

Received ==
    n = 1 =>
        \A r \in Readers : \A kp \in 0 .. CvPlanes - 1, c \in Cells(r) :
            kp < got[r] => cv[r][kp][c] = Restored(kp, Src(r, c))

Loading ==
    /\ got \in [Readers -> 0 .. CvPlanes]
    /\ phase = "loading" => placed = n /\ field = "cv" /\ nx = rx /\ ny = ry
    /\ phase # "loading" => \A r \in Readers : got[r] = 0
    /\ \A r \in Readers : r \in DOMAIN cv /\ DOMAIN cv[r] = 0 .. CvPlanes - 1

LoadInv == GatherInv /\ Loading /\ Buffered /\ Received

(* A real cell of plane kp of the file that one process has written.           *)
LEMMA FileValue ==
    ASSUME GatherInv, placed = n, n = 1, field = "cv", nx = rx, ny = ry,
           NEW kp, NEW i \in 0 .. rx - 1, NEW j \in 0 .. ry - 1
    PROVE  values(kp)[(i + 1) * (ry + 2) + (j + 1)] = <<kp, Cell(i, j)>>
<1>1. nx \in Nat /\ ny \in Nat /\ ny >= 1
  BY DEF GatherInv, Shapes
<1>2. i \in -1 .. nx /\ j \in -1 .. ny
  BY <1>1
<1> DEFINE x == At(nx, ny, i, j)
<1>3. x = (i + 1) * (ry + 2) + (j + 1)
  BY DEF At
<1>4. x \in 0 .. FrameSize(nx, ny) - 1
  BY <1>1, <1>2, FramePlace
<1>5. frame = SerialFrame(field, nx, ny)
  BY DEF GatherInv
<1>6. x \in DOMAIN frame
  BY <1>4, <1>5 DEF SerialFrame, Frame
<1>7. cell_at(nx, ny, SerialFrame(field, nx, ny), i, j) = Canvas(field, nx, ny, 1, 0, i, j)
  BY <1>1, <1>2, SerialAt
<1>8. frame[x] = Cv(nx, ny, 1, 0, i, j)
  BY <1>5, <1>7 DEF cell_at, Canvas
<1>9. Slab(ny, 1, 0).j0 = 0 /\ Rows(Slab(ny, 1, 0)) = ny
  BY <1>1, OneSlab
<1>10. Cv(nx, ny, 1, 0, i, j) = Cell(i, j)
  BY <1>1, <1>2, <1>9 DEF Cv
<1> HIDE DEF x
<1>11. values(kp)[x] = <<kp, frame[x]>>
  BY <1>6 DEF values
<1> QED BY <1>3, <1>8, <1>10, <1>11

(* Plane kp of the buffer, place x.                                            *)
LEMMA BufferPlace ==
    ASSUME Shapes, NEW kp \in 0 .. CvPlanes - 1, NEW x \in 0 .. rx * ry - 1
    PROVE  LET p == plane_off(kp) + x
           IN  /\ p \in 0 .. CvPlanes * rx * ry - 1
               /\ p \div (rx * ry) = kp
               /\ p % (rx * ry) = x
               /\ p % ry = x % ry
<1>1. /\ rx \in Nat /\ rx >= 1 /\ ry \in Nat /\ ry >= 1 /\ CvPlanes \in Nat
  BY LayoutAssumption DEF Shapes
<1> DEFINE A == rx * ry
           u == x \div ry
           t == x % ry
<1>2. A \in Nat /\ A >= 1
  BY <1>1, SMTT(30)
<1>3. plane_off(kp) = kp * A /\ CvPlanes * rx * ry = CvPlanes * A
  BY <1>1, SMTT(30) DEF plane_off
<1>4. u \in 0 .. rx - 1 /\ t \in 0 .. ry - 1 /\ x = u * ry + t
  BY <1>1, PlaceOf
<1>5. x \in 0 .. A - 1
  OBVIOUS
<1>6. kp * A = (kp * rx) * ry
  BY <1>1, SMTT(30)
<1> HIDE DEF A, u, t
<1>7. kp * A + x \in 0 .. CvPlanes * A - 1
  BY <1>1, <1>2, <1>5, PlaceInside
<1>8. (kp * A + x) \div A = kp /\ (kp * A + x) % A = x
  BY <1>2, <1>5, Divide
<1>9. kp * A + x = (kp * rx + u) * ry + t
  <2>1. (kp * rx + u) * ry = (kp * rx) * ry + u * ry
    BY <1>1, <1>4, SMTT(30)
  <2>2. (kp * rx) * ry \in Int /\ u * ry \in Int
    BY <1>1, <1>4, SMTT(30)
  <2> QED BY <1>4, <1>6, <2>1, <2>2
<1>10. (kp * A + x) % ry = t
  <2>1. kp * rx + u \in Int
    BY <1>1, <1>4, SMTT(30)
  <2>2. ((kp * rx + u) * ry + t) % ry = t
    BY <1>1, <1>4, <2>1, Divide
  <2> QED BY <1>9, <2>2
<1> QED BY <1>3, <1>7, <1>8, <1>10 DEF A, t

(* Strip makes the buffer.                                                    *)
LEMMA StripStep ==
    ASSUME LoadInv, Strip
    PROVE  Buffered'
<1>1. /\ UNCHANGED <<nx, ny, n, field, rx, ry, m, frame, placed>>
      /\ placed = n /\ field = "cv" /\ nx + 2 = rx + 2 /\ ny + 2 = ry + 2
  BY DEF Strip, case, gathering, Gathered, matches
<1>2. nx = rx /\ ny = ry
  BY <1>1 DEF LoadInv, GatherInv, Shapes
<1>3. Shapes
  BY DEF LoadInv, GatherInv
<1> SUFFICES ASSUME n = 1, NEW kp \in 0 .. CvPlanes - 1, NEW x \in 0 .. rx * ry - 1
             PROVE  sendbuf'[plane_off(kp) + x] = Restored(kp, x)
  BY <1>1 DEF Buffered, plane_off, Restored
<1> DEFINE p == plane_off(kp) + x
<1>4. /\ p \in 0 .. CvPlanes * rx * ry - 1
      /\ p \div (rx * ry) = kp /\ p % (rx * ry) = x /\ p % ry = x % ry
  BY <1>3, BufferPlace
<1>5. x \div ry \in 0 .. rx - 1 /\ x % ry \in 0 .. ry - 1
  BY <1>3, PlaceOf DEF Shapes
<1>6. values(kp)[((x \div ry) + 1) * (ry + 2) + ((x % ry) + 1)] = <<kp, Cell(x \div ry, x % ry)>>
  BY <1>1, <1>2, <1>5, FileValue DEF LoadInv
<1> HIDE DEF p
<1>7. sendbuf'[p] = values(p \div (rx * ry))[(((p % (rx * ry)) \div ry) + 1) * (ry + 2) + ((p % ry) + 1)]
  BY <1>4 DEF Strip
<1> QED BY <1>4, <1>6, <1>7 DEF p, Restored

(* A scatter gives a rank the next plane of its chunk.                        *)
LEMMA ScatterStep ==
    ASSUME LoadInv, NEW r \in Readers, Scatterv(r), n = 1, NEW c \in Cells(r)
    PROVE  cv'[r][got[r]][c] = Restored(got[r], Src(r, c))
<1> DEFINE kp == got[r]
           z == c[1] * mesh_ny(r) + c[2]
           local == IF m = 1
                      THEN [x \in 0 .. rx * ry - 1 |->
                               values(kp)[((x \div ry) + 1) * (ry + 2) + ((x % ry) + 1)]]
                      ELSE [x \in 0 .. counts(r) - 1 |-> sendbuf[plane_off(kp) + displs(r) + x]]
<1>1. /\ phase = "loading" /\ kp \in 0 .. CvPlanes - 1 /\ got[r] < CvPlanes
      /\ placed = n /\ field = "cv" /\ nx = rx /\ ny = ry
      /\ r \in DOMAIN cv /\ DOMAIN cv[r] = 0 .. CvPlanes - 1
  <2>1. got[r] \in 0 .. CvPlanes
    BY DEF LoadInv, Loading
  <2> QED BY <2>1, LayoutAssumption DEF LoadInv, Loading, Scatterv
<1>2. cv' = [cv EXCEPT ![r][kp] = unpack(r, local)]
  BY DEF Scatterv
<1>3. Shapes
  BY DEF LoadInv, GatherInv
<1>4. /\ z \in 0 .. counts(r) - 1 /\ Src(r, c) = displs(r) + z
      /\ Src(r, c) \in 0 .. rx * ry - 1
  BY <1>3, SrcInside DEF Src
<1>5. displs(r) \in Nat /\ counts(r) \in Nat
  BY <1>3, Chunks
<1> HIDE DEF z
<1>6. local[z] = Restored(kp, Src(r, c))
  <2> HIDE DEF kp
  <2>1. CASE m = 1
    <3>1. r = 0
      BY <2>1 DEF Readers
    <3>2. displs(r) = 0
      <4>1. first(ry, 1, 0) = 0 /\ displs(r) = rx * first(ry, m, r)
        BY <1>3, Chunks, FirstRowBounds DEF Shapes
      <4> QED BY <1>3, <2>1, <3>1, <4>1 DEF Shapes
    <3>3. z = Src(r, c)
      BY <1>4, <3>2
    <3>4. z \in 0 .. rx * ry - 1
      BY <1>4, <3>3
    <3>5. z \div ry \in 0 .. rx - 1 /\ z % ry \in 0 .. ry - 1
      BY <1>3, <3>4, PlaceOf DEF Shapes
    <3>6. values(kp)[((z \div ry) + 1) * (ry + 2) + ((z % ry) + 1)] = <<kp, Cell(z \div ry, z % ry)>>
      BY <1>1, <3>5, FileValue DEF LoadInv
    <3>7. local[z] = values(kp)[((z \div ry) + 1) * (ry + 2) + ((z % ry) + 1)]
      BY <2>1, <3>4
    <3> QED BY <3>3, <3>6, <3>7 DEF Restored
  <2>2. CASE m # 1
    <3>1. local[z] = sendbuf[plane_off(kp) + displs(r) + z]
      BY <1>4, <2>2
    <3>2. plane_off(kp) \in Int
      BY <1>1, <1>3 DEF plane_off, Shapes, kp
    <3>3. plane_off(kp) + displs(r) + z = plane_off(kp) + Src(r, c)
      BY <1>4, <1>5, <3>2
    <3>4. sendbuf[plane_off(kp) + Src(r, c)] = Restored(kp, Src(r, c))
      BY <1>1, <1>4 DEF LoadInv, Buffered, kp
    <3> QED BY <3>1, <3>3, <3>4
  <2> QED BY <2>1, <2>2
<1>7. unpack(r, local)[c] = local[z]
  <2> HIDE DEF local, kp
  <2> QED BY DEF unpack, z
<1>8. cv'[r][kp] = unpack(r, local)
  <2> DEFINE w == unpack(r, local)
  <2>1. cv' = [cv EXCEPT ![r][kp] = w]
    BY <1>2
  <2> HIDE DEF w, kp
  <2>2. cv'[r] = [cv[r] EXCEPT ![kp] = w]
    BY <1>1, <2>1
  <2>3. kp \in DOMAIN cv[r]
    BY <1>1 DEF kp
  <2>4. cv'[r][kp] = w
    BY <2>2, <2>3
  <2> QED BY <2>4 DEF w
<1> HIDE DEF local
<1> QED BY <1>6, <1>7, <1>8

LEMMA LoadAlways == LayoutSpec => []LoadInv
<1>1. LayoutInit /\ GatherInv => LoadInv
  <2> SUFFICES ASSUME LayoutInit, GatherInv PROVE LoadInv
    OBVIOUS
  <2>1. /\ phase = "gather" /\ got = [r \in Readers |-> 0]
        /\ cv = [r \in Readers |-> [kp \in 0 .. CvPlanes - 1 |-> [c \in Cells(r) |-> Free]]]
    BY DEF LayoutInit
  <2>2. 0 \in 0 .. CvPlanes /\ CvPlanes \in Nat
    BY LayoutAssumption
  <2>3. got \in [Readers -> 0 .. CvPlanes] /\ \A r \in Readers : got[r] = 0
    BY <2>1, <2>2
  <2>4. \A r \in Readers : r \in DOMAIN cv /\ DOMAIN cv[r] = 0 .. CvPlanes - 1
    BY <2>1
  <2>5. Loading
    BY <2>1, <2>3, <2>4 DEF Loading
  <2>6. Buffered
    BY <2>1 DEF Buffered
  <2>7. Received
    BY <2>2, <2>3 DEF Received
  <2> QED BY <2>5, <2>6, <2>7 DEF LoadInv
<1>2. LoadInv /\ GatherInv' /\ [LayoutNext]_lvars => LoadInv'
  <2> SUFFICES ASSUME LoadInv, GatherInv', [LayoutNext]_lvars PROVE LoadInv'
    OBVIOUS
  <2>1. UNCHANGED <<nx, ny, n, field, rx, ry, m>>
    BY DEF LayoutNext, GatherSerial, Place, Reject, Strip, Scatterv, lvars, case
  <2>2. /\ Readers' = Readers /\ \A r : Cells(r)' = Cells(r)
        /\ \A r, c : Src(r, c)' = Src(r, c)
        /\ \A kp, x : Restored(kp, x)' = Restored(kp, x)
        /\ \A kp : plane_off(kp)' = plane_off(kp)
    BY <2>1 DEF Readers, Cells, mesh_ny, Src, displs, Restored, plane_off
  <2>3. ASSUME UNCHANGED loading PROVE Received'
    <3>1. UNCHANGED <<got, cv>>
      BY <2>3 DEF loading
    <3> QED BY <2>1, <2>2, <3>1 DEF LoadInv, Received
  <2>4. CASE GatherSerial \/ Place
    <3>1. /\ UNCHANGED <<phase, sendbuf, got, cv>> /\ placed # n /\ UNCHANGED loading
      BY <2>4 DEF GatherSerial, Place, loading, LoadInv, GatherInv, Shapes
    <3>2. phase # "loading"
      BY <3>1 DEF LoadInv, Loading
    <3>3. Loading'
      BY <2>1, <2>2, <3>1, <3>2 DEF LoadInv, Loading
    <3>4. Buffered'
      BY <3>1, <3>2 DEF Buffered
    <3> QED BY <2>3, <3>1, <3>3, <3>4 DEF LoadInv
  <2>5. CASE Reject
    <3>1. /\ UNCHANGED loading /\ UNCHANGED <<sendbuf, got, cv>>
          /\ phase = "gather" /\ phase' = "threw"
      BY <2>5 DEF Reject, loading
    <3>2. Loading'
      BY <2>1, <2>2, <3>1 DEF LoadInv, Loading
    <3>3. Buffered'
      BY <3>1 DEF Buffered
    <3> QED BY <2>3, <3>1, <3>2, <3>3 DEF LoadInv
  <2>6. CASE Strip
    <3>1. /\ UNCHANGED <<got, cv, placed>> /\ phase = "gather" /\ phase' = "loading"
          /\ placed = n /\ field = "cv" /\ nx + 2 = rx + 2 /\ ny + 2 = ry + 2
      BY <2>6 DEF Strip, gathering, Gathered, matches
    <3>2. nx = rx /\ ny = ry
      BY <3>1 DEF LoadInv, GatherInv, Shapes
    <3>3. Loading'
      BY <2>1, <2>2, <3>1, <3>2 DEF LoadInv, Loading
    <3>4. Received'
      BY <2>1, <2>2, <3>1 DEF LoadInv, Received
    <3> QED BY <2>6, <3>3, <3>4, StripStep DEF LoadInv
  <2>7. ASSUME NEW r \in Readers, Scatterv(r) PROVE LoadInv'
    <3>1. /\ UNCHANGED <<phase, placed, sendbuf>> /\ phase = "loading"
          /\ got[r] < CvPlanes /\ got' = [got EXCEPT ![r] = @ + 1]
      BY <2>7 DEF Scatterv, gathering
    <3>2. CvPlanes \in Nat
      BY LayoutAssumption
    <3>3. /\ got \in [Readers -> 0 .. CvPlanes]
          /\ \A s \in Readers : s \in DOMAIN cv /\ DOMAIN cv[s] = 0 .. CvPlanes - 1
      BY DEF LoadInv, Loading
    <3> DEFINE kp == got[r]
    <3>4. PICK w : cv' = [cv EXCEPT ![r][kp] = w]
      BY <2>7 DEF Scatterv
    <3>5. kp \in 0 .. CvPlanes - 1 /\ r \in DOMAIN cv /\ kp \in DOMAIN cv[r]
      BY <3>1, <3>2, <3>3
    <3>6. /\ DOMAIN cv' = DOMAIN cv
          /\ \A s \in DOMAIN cv : DOMAIN cv'[s] = DOMAIN cv[s]
      <4> HIDE DEF kp
      <4> QED BY <3>4
    <3>7. \A s \in Readers : \A l \in 0 .. CvPlanes - 1 :
             s # r \/ l # kp => cv'[s][l] = cv[s][l]
      <4> HIDE DEF kp
      <4> QED BY <3>3, <3>4
    <3>8. got' \in [Readers -> 0 .. CvPlanes]
          /\ got'[r] = kp + 1 /\ \A s \in Readers : s # r => got'[s] = got[s]
      BY <3>1, <3>2, <3>3
    <3>9. Loading'
      BY <2>1, <2>2, <3>1, <3>3, <3>6, <3>8 DEF LoadInv, Loading
    <3>10. Buffered'
      BY <2>1, <2>2, <3>1 DEF LoadInv, Buffered
    <3>11. Received'
      <4> SUFFICES ASSUME n = 1, NEW s \in Readers, NEW l \in 0 .. CvPlanes - 1, NEW c \in Cells(s),
                          l < got'[s]
                   PROVE  cv'[s][l][c] = Restored(l, Src(s, c))
        BY <2>1, <2>2 DEF Received
      <4>1. CASE s = r /\ l = kp
        BY <2>7, <4>1, ScatterStep
      <4>2. CASE ~ (s = r /\ l = kp)
        <5>1. l < got[s]
          <6> HIDE DEF kp
          <6>1. got[s] \in 0 .. CvPlanes
            BY <3>3
          <6>2. s = r => got[s] = kp
            BY DEF kp
          <6> QED BY <3>2, <3>8, <4>2, <6>1, <6>2
        <5>2. cv'[s][l] = cv[s][l]
          BY <3>7, <4>2
        <5> QED BY <5>1, <5>2 DEF LoadInv, Received
      <4> QED BY <4>1, <4>2
    <3> QED BY <3>9, <3>10, <3>11 DEF LoadInv
  <2>8. CASE UNCHANGED lvars
    <3>1. UNCHANGED loading /\ UNCHANGED <<phase, placed, sendbuf, got, cv>>
      BY <2>8 DEF lvars, loading, gathering
    <3>2. Loading'
      BY <2>1, <2>2, <3>1 DEF LoadInv, Loading
    <3>3. Buffered'
      BY <2>1, <2>2, <3>1 DEF LoadInv, Buffered
    <3> QED BY <2>3, <3>1, <3>2, <3>3 DEF LoadInv
  <2> QED BY <2>4, <2>5, <2>6, <2>7, <2>8 DEF LayoutNext
<1> QED BY <1>1, <1>2, GatherAlways, PTL DEF LayoutSpec

(* A cell of a row-major plane has one place.                                 *)
LEMMA RestoredOnce ==
    ASSUME NEW kp, NEW x \in 0 .. rx * ry - 1, Shapes,
           NEW i \in 0 .. rx - 1, NEW j \in 0 .. ry - 1
    PROVE  Restored(kp, x) = <<kp, Cell(i, j)>> <=> x = i * ry + j
<1>1. rx \in Nat /\ ry \in Nat /\ ry >= 1
  BY DEF Shapes
<1>2. (i * ry + j) \div ry = i /\ (i * ry + j) % ry = j
  BY <1>1, Divide
<1>3. x = (x \div ry) * ry + (x % ry)
  BY <1>1, PlaceOf
<1> DEFINE u == x \div ry
           t == x % ry
<1> HIDE DEF u, t
<1>4. <<kp, Cell(u, t)>> = <<kp, Cell(i, j)>> <=> u = i /\ t = j
  BY DEF Cell
<1>5. Restored(kp, x) = <<kp, Cell(u, t)>> /\ x = u * ry + t
  BY <1>3 DEF Restored, u, t
<1>6. u = i /\ t = j => x = i * ry + j
  BY <1>5
<1>7. x = i * ry + j => u = i /\ t = j
  BY <1>2 DEF u, t
<1> QED BY <1>4, <1>5, <1>6, <1>7

(* One process that loads the file of one process gets back each cell it      *)
(* wrote, for every grid and any number of planes.                            *)
THEOREM SerialRestoredAlways == LayoutSpec => []SerialRestored
<1>1. LoadInv => SerialRestored
  <2> SUFFICES ASSUME LoadInv, n = 1, m = 1, NEW r \in Readers, got[r] = CvPlanes,
                      NEW kp \in 0 .. CvPlanes - 1, NEW c \in Cells(r)
               PROVE  cv[r][kp][c] = <<kp, Cell(c[1], Slab(ry, m, r).j0 + c[2])>>
    BY DEF SerialRestored, CellsRestored
  <2>1. Shapes /\ r = 0 /\ ry \in Nat /\ ry >= 1 /\ rx \in Nat
    BY DEF LoadInv, GatherInv, Shapes, Readers
  <2>2. kp < got[r]
    BY LayoutAssumption
  <2>3. cv[r][kp][c] = Restored(kp, Src(r, c))
    BY <2>2 DEF LoadInv, Received
  <2>4. Slab(ry, 1, 0).j0 = 0 /\ Rows(Slab(ry, 1, 0)) = ry
    BY <2>1, OneSlab
  <2>5. Slab(ry, m, r).j0 = 0 /\ mesh_ny(r) = ry
    BY <2>1, <2>4 DEF mesh_ny
  <2>6. c[1] \in 0 .. rx - 1 /\ c[2] \in 0 .. ry - 1
    BY <2>5 DEF Cells
  <2>7. Src(r, c) = c[1] * ry + c[2]
    <3>1. displs(r) = 0
      BY <2>1, <2>5 DEF displs
    <3>2. c[1] * ry + c[2] \in Int
      BY <2>1, <2>6
    <3> QED BY <2>5, <3>1, <3>2 DEF Src
  <2>8. Src(r, c) \in 0 .. rx * ry - 1
    BY <2>1, SrcInside
  <2>9. Restored(kp, Src(r, c)) = <<kp, Cell(c[1], c[2])>>
    BY <2>1, <2>6, <2>7, <2>8, RestoredOnce
  <2>10. 0 + c[2] = c[2]
    BY <2>6
  <2> QED BY <2>3, <2>5, <2>9, <2>10
<1> QED BY <1>1, LoadAlways, PTL

(* The readers, however many, take each cell of the file of one process       *)
(* exactly once between them.                                                 *)
THEOREM DealtOutAlways == LayoutSpec => []DealtOut
<1>1. LoadInv => DealtOut
  <2> DEFINE All == UNION {{r} \X Cells(r) : r \in Readers}
  <2> SUFFICES ASSUME LoadInv, Loaded, n = 1, NEW kp \in 0 .. CvPlanes - 1,
                      NEW i \in 0 .. nx - 1, NEW j \in 0 .. ny - 1
               PROVE  Cardinality({rc \in All : cv[rc[1]][kp][rc[2]] = <<kp, Cell(i, j)>>}) = 1
    BY DEF DealtOut, Real
  <2>1. Shapes /\ CvPlanes \in Nat \ {0} /\ 0 \in Readers
    BY LayoutAssumption DEF LoadInv, GatherInv, Shapes, Readers
  <2>2. nx = rx /\ ny = ry
    BY <2>1 DEF LoadInv, Loading, Loaded
  <2>3. \A r \in Readers : \A c \in Cells(r) : cv[r][kp][c] = Restored(kp, Src(r, c))
    BY <2>1 DEF Loaded, LoadInv, Received
  <2> DEFINE x == i * ry + j
  <2>4. x \in 0 .. rx * ry - 1
    BY <2>1, <2>2, PlaceInside DEF Shapes
  <2>5. PICK r \in Readers : \E c \in Cells(r) : Src(r, c) = x
    BY <2>1, <2>4, SrcCovers
  <2>6. PICK c \in Cells(r) : Src(r, c) = x
    BY <2>5
  <2>7. \A s \in Readers : \A d \in Cells(s) :
           cv[s][kp][d] = <<kp, Cell(i, j)>> <=> s = r /\ d = c
    <3> SUFFICES ASSUME NEW s \in Readers, NEW d \in Cells(s)
                 PROVE  cv[s][kp][d] = <<kp, Cell(i, j)>> <=> s = r /\ d = c
      OBVIOUS
    <3>1. Src(s, d) \in 0 .. rx * ry - 1
      BY <2>1, SrcInside
    <3>2. cv[s][kp][d] = <<kp, Cell(i, j)>> <=> Src(s, d) = x
      <4>1. cv[s][kp][d] = Restored(kp, Src(s, d))
        BY <2>3
      <4>2. Restored(kp, Src(s, d)) = <<kp, Cell(i, j)>> <=> Src(s, d) = x
        <5>1. i \in 0 .. rx - 1 /\ j \in 0 .. ry - 1
          BY <2>2
        <5> QED BY <2>1, <3>1, <5>1, RestoredOnce
      <4> QED BY <4>1, <4>2
    <3>3. Src(s, d) = x => s = r /\ d = c
      BY <2>1, <2>6, SrcUnique
    <3> QED BY <2>6, <3>2, <3>3
  <2>8. {rc \in All : cv[rc[1]][kp][rc[2]] = <<kp, Cell(i, j)>>} = {<<r, c>>}
    <3>1. \A rc \in All : \E s \in Readers : \E d \in Cells(s) : rc = <<s, d>>
      OBVIOUS
    <3>2. <<r, c>> \in All
      OBVIOUS
    <3> HIDE DEF All
    <3>3. \A rc \in All : cv[rc[1]][kp][rc[2]] = <<kp, Cell(i, j)>> <=> rc = <<r, c>>
      <4> SUFFICES ASSUME NEW rc \in All
                   PROVE  cv[rc[1]][kp][rc[2]] = <<kp, Cell(i, j)>> <=> rc = <<r, c>>
        OBVIOUS
      <4>1. PICK s \in Readers : \E d \in Cells(s) : rc = <<s, d>>
        BY <3>1
      <4>2. PICK d \in Cells(s) : rc = <<s, d>>
        BY <4>1
      <4>3. rc[1] = s /\ rc[2] = d
        BY <4>2
      <4> QED BY <2>7, <4>2, <4>3
    <3> QED BY <3>2, <3>3
  <2>9. Cardinality({<<r, c>>}) = 1
    BY FS_Singleton
  <2> QED BY <2>8, <2>9
<1> QED BY <1>1, LoadAlways, PTL
=============================================================================
