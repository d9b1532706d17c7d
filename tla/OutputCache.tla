----------------------------- MODULE OutputCache -----------------------------
(* The public operations of EulerSolver that write files, in any order and as *)
(* often as a program likes: a checkpoint is written "by adding               *)
(* solver.write_restart(path) calls" (README.md:59).  All of them draw on one *)
(* cache of planes that root fills and nobody empties; the other ranks have   *)
(* no cache and always send.                                                  *)
EXTENDS MpiWorld, FiniteSets, Sequences, SequencesExt

CONSTANTS
    MaxCalls,      \* calls a program makes
    NCv, NDv       \* planes of cv_ and dv_ (4 and 8 in the code)

ASSUME OutputAssumption ==
    /\ MaxCalls \in Nat \ {0} /\ NCv \in Nat \ {0} /\ NDv \in Nat /\ NCv <= NDv

root == 0      \* is_root()
None == << >>

\* "march" stands for run and load_restart: they change the state on all ranks.
Calls == {"march", "restart", "solution", "vtk"}

VARIABLES
    program,     \* the calls every rank makes
    at,          \* at[r]: the call rank r is in
    ver,         \* ver[r]: how often rank r's state has changed
    k,           \* k[r]: the plane of the gather it is in
    src,         \* the rank whose plane root waits for
    part,        \* part[r]: what root has received of the plane
    framed,      \* framed[k]: the planes write_restart or write_solution has
    cached,      \* cached_planes_ of root, None where empty
    mail,        \* mail[r][k]: planes sent to root with tag 900 + k
    waits,       \* waits[r]: rank r is in a synchronous MPI_Send
    files        \* what root has written: the call and its planes

gatherVars == <<k, src, part, framed, cached, mail, waits>>
vars == <<program, at, ver, gatherVars, files>>

Planes == 0 .. NDv - 1

Init ==
    /\ program \in SeqOf(Calls, MaxCalls)
    /\ at = [r \in Ranks |-> 1]
    /\ ver = [r \in Ranks |-> 0]
    /\ k = [r \in Ranks |-> 0]
    /\ src = 1
    /\ part = [r \in Ranks |-> None]
    /\ framed = [p \in Planes |-> None]
    /\ cached = [p \in Planes |-> None]
    /\ mail = [r \in Ranks |-> [p \in Planes |-> << >>]]
    /\ waits = [r \in Ranks |-> FALSE]
    /\ files = << >>

------------------------------------------------------------------------------
Running(r) == at[r] <= Len(program)
Call(r)    == program[at[r]]

Gathers(call)   == call \in {"restart", "solution"}
Gathering(r)    == Running(r) /\ Gathers(Call(r))
Field(call)     == IF call = "restart" THEN "cv" ELSE "dv"
NPlanes(call)   == IF call = "restart" THEN NCv ELSE NDv
InGather(r)     == Gathering(r) /\ k[r] < NPlanes(Call(r))
Own(r)          == [field |-> Field(Call(r)), plane |-> k[r], ver |-> ver[r]]

MarchInvalidates(r) ==     \* mutant: run empties the cache
    /\ Running(r) /\ Call(r) = "march"
    /\ \A s \in Ranks : at[s] >= at[r]
    /\ ver' = [ver EXCEPT ![r] = @ + 1]
    /\ at' = [at EXCEPT ![r] = @ + 1]
    /\ cached' = IF r = root THEN [p \in Planes |-> None] ELSE cached
    /\ UNCHANGED <<program, k, src, part, framed, mail, waits, files>>

\* Full of collectives: nobody is through before everybody has begun.
March(r) ==
    /\ Running(r) /\ Call(r) = "march"
    /\ \A s \in Ranks : at[s] >= at[r]
    /\ ver' = [ver EXCEPT ![r] = @ + 1]
    /\ at' = [at EXCEPT ![r] = @ + 1]
    /\ UNCHANGED <<program, gatherVars, files>>

\* mutant: cached_valid_ alone decides
HitAny(p) == \E q \in Planes : cached[q] # None

\* cached_valid_ && !cached_planes_[k].empty(); cached_valid_ is set with the
\* first plane.
Hit(p) == cached[p] # None

FromCache(r) ==
    /\ r = root /\ InGather(r) /\ Hit(k[r])
    /\ framed' = [framed EXCEPT ![k[r]] = cached[k[r]]]
    /\ k' = [k EXCEPT ![r] = @ + 1]
    /\ UNCHANGED <<program, at, ver, src, part, cached, mail, waits, files>>

\* Every other rank sends its slab, cache or not.
SendPlane(r) ==
    /\ r # root /\ InGather(r) /\ ~ waits[r]
    /\ \E sync \in BOOLEAN :
        /\ waits' = [waits EXCEPT ![r] = sync]
        /\ mail' = [mail EXCEPT ![r][k[r]] = Append(@, [slab |-> Own(r), sync |-> sync])]
    /\ k' = [k EXCEPT ![r] = @ + 1]
    /\ UNCHANGED <<program, at, ver, src, part, framed, cached, files>>

\* Root receives in rank order; its own slab is in place before.
RecvPlane(r) ==
    /\ r = root /\ InGather(r) /\ ~ Hit(k[r])
    /\ src \in Ranks /\ mail[src][k[r]] # << >>
    /\ part' = [part EXCEPT ![src] = Head(mail[src][k[r]]).slab]
    /\ waits' = IF Head(mail[src][k[r]]).sync THEN [waits EXCEPT ![src] = FALSE] ELSE waits
    /\ mail' = [mail EXCEPT ![src][k[r]] = Tail(@)]
    /\ src' = src + 1
    /\ UNCHANGED <<program, at, ver, k, framed, cached, files>>

\* The plane is complete and goes into the cache.
EndPlane(r) ==
    /\ r = root /\ InGather(r) /\ ~ Hit(k[r])
    /\ src = NRanks
    /\ LET plane == [part EXCEPT ![root] = Own(r)]
       IN  /\ framed' = [framed EXCEPT ![k[r]] = plane]
           /\ cached' = [cached EXCEPT ![k[r]] = plane]
    /\ part' = [s \in Ranks |-> None]
    /\ src' = 1
    /\ k' = [k EXCEPT ![r] = @ + 1]
    /\ UNCHANGED <<program, at, ver, mail, waits, files>>

\* All planes are there: root writes the file, the others return.
EndWrite(r) ==
    /\ Gathering(r) /\ k[r] = NPlanes(Call(r)) /\ ~ waits[r]
    /\ files' = IF r = root
                  THEN Append(files, [at |-> at[r],
                                      planes |-> [p \in 0 .. NPlanes(Call(r)) - 1 |-> framed[p]]])
                  ELSE files
    /\ framed' = IF r = root THEN [p \in Planes |-> None] ELSE framed
    /\ at' = [at EXCEPT ![r] = @ + 1]
    /\ k' = [k EXCEPT ![r] = 0]
    /\ UNCHANGED <<program, ver, src, part, cached, mail, waits>>

\* write_vtk: rho, u, v and p, the first four planes, from the cache or not at all.
WriteVtk(r) ==
    /\ Running(r) /\ Call(r) = "vtk"
    /\ files' = IF r = root /\ \E p \in Planes : cached[p] # None
                  THEN Append(files, [at |-> at[r], planes |-> [p \in 0 .. NCv - 1 |-> cached[p]]])
                  ELSE files
    /\ at' = [at EXCEPT ![r] = @ + 1]
    /\ UNCHANGED <<program, ver, gatherVars>>

Rank(r) ==
    \/ March(r) \/ FromCache(r) \/ SendPlane(r) \/ RecvPlane(r)
    \/ EndPlane(r) \/ EndWrite(r) \/ WriteVtk(r)

Next == \E r \in Ranks : Rank(r)

Spec == Init /\ [][Next]_vars /\ \A r \in Ranks : WF_vars(Rank(r))
------------------------------------------------------------------------------
\* Plane p of the state at call i, from all ranks.
State(i, p) ==
    LET marches == Cardinality({c \in 1 .. i - 1 : program[c] = "march"})
    IN  [r \in Ranks |-> [field |-> Field(program[i]), plane |-> p, ver |-> marches]]

Gatherers(p) == {i \in DOMAIN program : Gathers(program[i]) /\ p < NPlanes(program[i])}

(* What a plane in a file is: that of the state at the first call that        *)
(* gathered a plane with this index, of cv_ or of dv_, on every rank.  However *)
(* old it is, and however many planes nobody receives are under way, it is    *)
(* never put together from different calls.                                   *)
FirstGatherWins ==
    \A f \in ToSet(files), p \in Planes :
        p \in DOMAIN f.planes =>
            \E i \in Gatherers(p) :
                /\ \A c \in Gatherers(p) : i <= c
                /\ f.planes[p] = State(i, p)

(* A program that gathers at most once, as main does, ends on every rank, and *)
(* every plane that was sent has been received, however MPI sends it.         *)
GathersOnce == Cardinality({i \in DOMAIN program : Gathers(program[i])}) <= 1

SingleGatherEnds ==
    <>(GathersOnce => /\ \A r \in Ranks : ~ Running(r)
                      /\ \A r \in Ranks, p \in Planes : mail[r][p] = << >>)

(* A checkpoint or a solution holds the state at the time of the call, what   *)
(* "Checkpoints are written by adding solver.write_restart(path) calls"       *)
(* (README.md:59) promises.                                                   *)
FileIsState ==
    \A f \in ToSet(files) : Gathers(program[f.at]) =>
        \A p \in DOMAIN f.planes : f.planes[p] = State(f.at, p)
=============================================================================
