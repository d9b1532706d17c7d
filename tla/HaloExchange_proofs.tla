-------------------------- MODULE HaloExchange_proofs --------------------------
(* Proofs about HaloExchange, for every grid, every number of ranks, planes   *)
(* and stages.                                                                *)
EXTENDS HaloExchange, SlabDecomposition_proofs, FiniteSetTheorems, SequenceTheorems, TLAPS

\* The dv_ that exchange e carries has been recomputed so many times.
VersionAt(e) == IF e <= 4 THEN 0 ELSE (e - 3) \div 2

Kinds == {"dv", "face", "area", "update"}
Rows == [plane : Int, row : Int, ver : Int]
Payloads == [0 .. ng - 1 -> Rows] \cup [{0} -> Rows]
Messages == [step : Nat, rows : Payloads, sync : BOOLEAN]

TypeOK ==
    /\ step \in [Ranks -> 1 .. Len(Program) + 1]
    /\ plane \in [Ranks -> 0 .. NV - 1]
    /\ op \in [Ranks -> {1, 2}]
    /\ posted \in [Ranks -> BOOLEAN]
    /\ got \in [Ranks -> SUBSET Dirs]
    /\ buf \in [Ranks -> [Dirs -> Payloads]]
    /\ chan \in [Ranks -> [Dirs -> [0 .. NV - 1 -> Seq(Messages)]]]
    /\ ver \in [Ranks -> Nat]
    /\ DOMAIN dv = Ranks /\ DOMAIN face = Ranks /\ DOMAIN area = Ranks
    /\ \A r \in Ranks :
        /\ DOMAIN dv[r] = 0 .. NV - 1
        /\ \A v \in 0 .. NV - 1 : dv[r][v] \in [Canvas(r) -> Rows]
        /\ face[r] \in [Canvas(r) -> Rows] /\ area[r] \in [Canvas(r) -> Rows]

Exchanging(r) == Running(r) /\ Kind(r) # "update"

\* Where a rank can be in its program.
Placed ==
    \A r \in Ranks :
        /\ Exchanging(r) => plane[r] < Planes(r) /\ op[r] <= Len(Calls(r))
        /\ ~ Exchanging(r) => plane[r] = 0 /\ op[r] = 1 /\ ~ posted[r]
        /\ got[r] # {} => posted[r] /\ got[r] \subseteq Current(r).recvs

\* A plane of an exchange.
IsSlot(e, p) ==
    /\ e \in 1 .. Len(Program) /\ Program[e] # "update"
    /\ p \in 0 .. NV - 1 /\ (Program[e] # "dv" => p = 0)

\* Rank r is through with plane p of exchange e; in the plane it is in, it has
\* sent and received in some directions.
Behind(r, e, p) == e < step[r] \/ (e = step[r] /\ p < plane[r])

SentNow(r) == (IF op[r] = 2 THEN {"up"} ELSE {}) \cup (IF posted[r] THEN Current(r).sends ELSE {})
GotNow(r) == (IF op[r] = 2 THEN {"up"} ELSE {}) \cup got[r]

Sent(r, d, e, p) == Behind(r, e, p) \/ (e = step[r] /\ p = plane[r] /\ d \in SentNow(r))
Got(r, d, e, p) == Behind(r, e, p) \/ (e = step[r] /\ p = plane[r] /\ d \in GotNow(r))

\* What travels in direction d for plane p of exchange e, when it leaves rank r.
RowsFor(r, d, e, p) ==
    LET from == IF d = "up" THEN ny_local(r) - ng ELSE 0
    IN  CASE Program[e] = "dv" ->
                 [g \in 0 .. ng - 1 |-> Row(p, j0(r) + from + g, VersionAt(e))]
          [] Program[e] = "area" -> [g \in 0 .. ng - 1 |-> Metric(j0(r) + from + g)]
          [] OTHER -> [g \in {0} |-> Metric(j0(r) + IF d = "up" THEN ny_local(r) - 1 ELSE 1)]

\* The messages from s to r in direction d are those of the exchanges that s has
\* sent for and r has not received for, in the order of the program.
Ordered(q) == \A a, b \in DOMAIN q : a < b => q[a].step < q[b].step

Due(s, r, d, e, p) == IsSlot(e, p) /\ Sent(s, d, e, p) /\ ~ Got(r, d, e, p)

InFlight(s, r, d, p) ==
    LET q == chan[s][d][p]
    IN  /\ Ordered(q)
        /\ \A a \in DOMAIN q : Due(s, r, d, q[a].step, p)
        /\ \A e \in 1 .. Len(Program) : Due(s, r, d, e, p) => \E a \in DOMAIN q : q[a].step = e

Queues ==
    \A r \in Ranks, d \in Dirs : Receiving(r, d) =>
        \A p \in 0 .. NV - 1 : InFlight(Source(r, d), r, d, p)

\* Nothing is received that was not sent.
Causal ==
    \A r \in Ranks, d \in Dirs : Receiving(r, d) =>
        \A e \in 1 .. Len(Program), p \in 0 .. NV - 1 :
            IsSlot(e, p) /\ Got(r, d, e, p) => Sent(Source(r, d), d, e, p)

\* The rows of a rank's own slab.
OwnRows ==
    \A r \in Ranks :
        /\ ver[r] = VersionAt(step[r])
        /\ \A j \in Own(r) :
            /\ \A v \in 0 .. NV - 1 : dv[r][v][j] = Row(v, j0(r) + j, ver[r])
            /\ area[r][j] = Metric(j0(r) + j) /\ face[r][j] = Metric(j0(r) + j)

\* The interface is as wide as the ghosts: every row that is packed is a rank's own.
Thick == \A r \in Ranks : ny_local(r) >= ng

PayloadOf(e) == IF Program[e] = "face" THEN [{0} -> Rows] ELSE [0 .. ng - 1 -> Rows]

Right(s, d, e, p, x) == x \in PayloadOf(e) /\ (Thick => x = RowsFor(s, d, e, p))

\* The rows in flight and in the buffers.
Carried ==
    \A r \in Ranks, d \in Dirs : Receiving(r, d) =>
        /\ \A p \in 0 .. NV - 1 : \A a \in DOMAIN chan[Source(r, d)][d][p] :
               LET m == chan[Source(r, d)][d][p][a]
               IN  Right(Source(r, d), d, m.step, p, m.rows)
        /\ d \in GotNow(r) => Right(Source(r, d), d, step[r], plane[r], buf[r][d])

\* The ghosts of plane v are the neighbours' rows.
Fresh(r, v) ==
    \A j \in Canvas(r) \ Own(r) :
        j0(r) + j \in 0 .. NY - 1 => dv[r][v][j] = Row(v, j0(r) + j, ver[r])

Unpacked ==
    Thick => \A r \in Ranks, v \in 0 .. NV - 1 :
        \/ Running(r) /\ Kind(r) = "dv" /\ v < plane[r]
        \/ step[r] > 1 /\ Program[step[r] - 1] = "dv"
        => Fresh(r, v)

AreaTrue(r) ==
    \A j \in Canvas(r) \ Own(r) : j0(r) + j \in 0 .. NY - 1 => area[r][j] = Metric(j0(r) + j)

FaceTrue(r) ==
    \A j \in {-1, ny_local(r) + 1} : j0(r) + j \in 1 .. NY - 1 => face[r][j] = Metric(j0(r) + j)

Tables ==
    Thick => \A r \in Ranks : (step[r] > 3 => AreaTrue(r)) /\ (step[r] > 2 => FaceTrue(r))

IInv == TypeOK /\ Placed /\ Queues /\ Causal /\ OwnRows /\ Carried /\ Unpacked /\ Tables

------------------------------------------------------------------------------
LEMMA World ==
    /\ NRanks \in Nat /\ NRanks >= 2 /\ NY \in Nat /\ NV \in Nat \ {0} /\ Stages \in Nat
    /\ Ranks = 0 .. NRanks - 1
    /\ \A r \in Ranks : /\ r \in Nat /\ j0(r) \in Nat /\ j1(r) \in Nat /\ ny_local(r) \in Nat
                        /\ ny_local(r) >= 1 /\ j1(r) = j0(r) + ny_local(r) /\ j1(r) <= NY
    /\ \A r \in Ranks : r + 1 \in Ranks => j0(r + 1) = j1(r)
    /\ j0(0) = 0 /\ j1(NRanks - 1) = NY
<1>1. NRanks \in Nat /\ NRanks >= 2 /\ NRanks <= NY /\ NY \in Nat /\ NV \in Nat \ {0}
      /\ Stages \in Nat /\ Ranks = 0 .. NRanks - 1
  BY WorldAssumption, HaloAssumption DEF Ranks
<1>2. ASSUME NEW r \in Ranks
      PROVE  /\ r \in Nat /\ j0(r) \in Nat /\ j1(r) \in Nat /\ j0(r) < j1(r) /\ j1(r) <= NY
             /\ r = 0 => j0(r) = 0
             /\ r = NRanks - 1 => j1(r) = NY
             /\ r + 1 \in Ranks => j0(r + 1) = j1(r)
  <2>1. r \in 0 .. NRanks - 1 /\ r \in 0 .. NRanks BY <1>1
  <2>2. j0(r) = make(NY, NRanks, r).j0 /\ j1(r) = make(NY, NRanks, r).j1
    BY DEF j0, j1, decomp
  <2>3. first(NY, NRanks, r + 1) = make(NY, NRanks, r).j1
    BY <1>1, <2>1, FirstRow DEF make
  <2>4. r + 1 \in Ranks => j0(r + 1) = first(NY, NRanks, r + 1)
    BY DEF j0, decomp, make
  <2>5. LET d == make(NY, NRanks, r)
        IN  /\ d.j0 \in Nat /\ d.j1 \in Nat /\ d.j0 < d.j1 /\ d.j1 <= NY
            /\ r = 0 => d.j0 = 0
            /\ r = NRanks - 1 => d.j1 = NY
    BY <1>1, <2>1, SlabRows
  <2> QED BY <2>1, <2>2, <2>3, <2>4, <2>5
<1>3. 0 \in Ranks /\ NRanks - 1 \in Ranks BY <1>1
<1> QED BY <1>1, <1>2, <1>3 DEF ny_local

LEMMA Sizes ==
    /\ NRanks \in Nat /\ NRanks >= 2 /\ NY \in Nat /\ NV \in Nat \ {0} /\ Stages \in Nat
    /\ 2 * Stages \in Nat /\ \A r \in Ranks : r \in Nat /\ r <= NRanks - 1
BY WorldAssumption, HaloAssumption DEF Ranks

LEMMA ProgramIs ==
    /\ Len(Program) = 3 + 2 * Stages /\ Len(Program) \in Nat
    /\ Program[1] = "dv" /\ Program[2] = "face" /\ Program[3] = "area"
    /\ \A e \in 4 .. Len(Program) : Program[e] = IF e % 2 = 0 THEN "update" ELSE "dv"
    /\ \A e \in 1 .. Len(Program) : Program[e] \in Kinds
<1> DEFINE a == <<"dv", "face", "area">>
           b == [s \in 1 .. 2 * Stages |-> IF s % 2 = 1 THEN "update" ELSE "dv"]
<1>1. a \in Seq(Kinds) /\ Len(a) = 3 /\ a[1] = "dv" /\ a[2] = "face" /\ a[3] = "area"
  BY DEF Kinds
<1>2. b \in Seq(Kinds) /\ Len(b) = 2 * Stages
  BY World DEF Kinds
<1>3. \A s \in 1 .. 2 * Stages : b[s] = IF s % 2 = 1 THEN "update" ELSE "dv"
  OBVIOUS
<1>4. Program = a \o b BY DEF Program
<1> HIDE DEF a, b
<1>5. /\ Len(Program) = 3 + 2 * Stages /\ Program \in Seq(Kinds)
      /\ \A e \in 1 .. 3 + 2 * Stages : Program[e] = IF e <= 3 THEN a[e] ELSE b[e - 3]
  <2>1. /\ a \o b \in Seq(Kinds) /\ Len(a \o b) = Len(a) + Len(b)
        /\ \A i \in 1 .. Len(a) + Len(b) :
              (a \o b)[i] = IF i <= Len(a) THEN a[i] ELSE b[i - Len(a)]
    BY <1>1, <1>2, ConcatProperties
  <2>2. Len(a) = 3 /\ Len(b) = 2 * Stages BY <1>1, <1>2
  <2> QED BY <1>4, <2>1, <2>2
<1>6. ASSUME NEW e \in 4 .. Len(Program)
      PROVE  Program[e] = IF e % 2 = 0 THEN "update" ELSE "dv"
  <2>0. e \in 4 .. 3 + 2 * Stages BY <1>5
  <2>1. e - 3 \in 1 .. 2 * Stages BY <2>0, Sizes
  <2>2. e \in Nat /\ ((e - 3) % 2 = 1 <=> e % 2 = 0) BY <1>5, Sizes
  <2>3. b[e - 3] = IF (e - 3) % 2 = 1 THEN "update" ELSE "dv" BY <1>3, <2>1
  <2>4. e \in 1 .. 3 + 2 * Stages /\ ~ e <= 3 BY <1>5, Sizes
  <2>5. Program[e] = b[e - 3] BY <1>5, <2>4
  <2> QED BY <2>2, <2>3, <2>5
<1>7. \A e \in 1 .. Len(Program) : Program[e] \in Kinds BY <1>5, World, ElementOfSeq
<1>8. Program[1] = "dv" /\ Program[2] = "face" /\ Program[3] = "area" BY <1>1, <1>5, World
<1> QED BY <1>5, <1>6, <1>7, <1>8, World

LEMMA VersionOfNext ==
    ASSUME NEW e \in 1 .. Len(Program)
    PROVE  /\ VersionAt(e) \in Nat
           /\ VersionAt(e + 1) = IF Program[e] = "update" THEN VersionAt(e) + 1 ELSE VersionAt(e)
<1>1. e \in Nat /\ e >= 1 BY ProgramIs
<1>2. CASE e <= 3
  <2>1. e = 1 \/ e = 2 \/ e = 3 BY <1>1, <1>2
  <2> QED BY <2>1, ProgramIs DEF VersionAt
<1>3. CASE e > 3
  <2>1. e \in 4 .. Len(Program) BY <1>1, <1>3, ProgramIs
  <2>2. Program[e] = IF e % 2 = 0 THEN "update" ELSE "dv" BY <2>1, ProgramIs
  <2>3. e = 4 \/ e >= 5 BY <2>1
  <2> QED BY <1>1, <2>2, <2>3 DEF VersionAt
<1> QED BY <1>1, <1>2, <1>3

\* Who sends to whom.
LEMMA Partners ==
    ASSUME NEW r \in Ranks
    PROVE  /\ Sending(r, "up") <=> r < NRanks - 1
           /\ Sending(r, "down") <=> r > 0
           /\ Receiving(r, "up") <=> r > 0
           /\ Receiving(r, "down") <=> r < NRanks - 1
           /\ \A d \in Dirs : Receiving(r, d) =>
                /\ Source(r, d) \in Ranks /\ Source(r, d) # r /\ Sending(Source(r, d), d)
                /\ \A x \in Ranks : Source(x, d) = Source(r, d) => x = r
BY World DEF Sending, Receiving, Source, Dirs, owns_upper_neighbor, owns_lower_neighbor

\* A plane is sent and received in one call, or up before down.
LEMMA CallsAre ==
    ASSUME NEW r \in Ranks
    PROVE  /\ Len(Calls(r)) \in {1, 2}
           /\ Len(Calls(r)) = 1 =>
                 /\ Calls(r)[1].sends = {d \in Dirs : Sending(r, d)}
                 /\ Calls(r)[1].recvs = {d \in Dirs : Receiving(r, d)}
           /\ Len(Calls(r)) = 2 =>
                 /\ Calls(r)[1].sends = {"up"} /\ Calls(r)[1].recvs = {"up"}
                 /\ Calls(r)[2].sends = {"down"} /\ Calls(r)[2].recvs = {"down"}
                 /\ \A d \in Dirs : Sending(r, d) /\ Receiving(r, d)
<1>1. CASE Kind(r) = "face" BY <1>1 DEF Calls, FaceCalls, Call
<1>2. CASE Kind(r) # "face" /\ r > 0 /\ r < NRanks - 1
  <2>1. owns_lower_neighbor(r) /\ owns_upper_neighbor(r)
    BY <1>2 DEF owns_lower_neighbor, owns_upper_neighbor
  <2>2. Calls(r) = <<Call({"up"}, {"up"}), Call({"down"}, {"down"})>>
    BY <1>2, <2>1 DEF Calls, PlaneCalls
  <2> QED BY <1>2, <2>2, Partners DEF Call, Dirs
<1>3. CASE Kind(r) # "face" /\ r = 0
  <2>1. ~ owns_lower_neighbor(r) /\ owns_upper_neighbor(r)
    BY <1>3, World DEF owns_lower_neighbor, owns_upper_neighbor
  <2>2. Calls(r) = <<Call({"up"}, {"down"})>> BY <1>3, <2>1 DEF Calls, PlaneCalls
  <2>3. r < NRanks - 1 /\ ~ r > 0 BY <1>3, Sizes
  <2>4. {d \in Dirs : Sending(r, d)} = {"up"} /\ {d \in Dirs : Receiving(r, d)} = {"down"}
    BY <2>3, Partners DEF Dirs
  <2> QED BY <2>2, <2>4 DEF Call
<1>4. CASE Kind(r) # "face" /\ r = NRanks - 1 /\ r # 0
  <2>1. owns_lower_neighbor(r) /\ ~ owns_upper_neighbor(r)
    BY <1>4, World DEF owns_lower_neighbor, owns_upper_neighbor
  <2>2. Calls(r) = <<Call({"down"}, {"up"})>> BY <1>4, <2>1 DEF Calls, PlaneCalls
  <2>3. ~ r < NRanks - 1 /\ r > 0 BY <1>4, Sizes
  <2>4. {d \in Dirs : Sending(r, d)} = {"down"} /\ {d \in Dirs : Receiving(r, d)} = {"up"}
    BY <2>3, Partners DEF Dirs
  <2> QED BY <2>2, <2>4 DEF Call
<1>5. r = 0 \/ (r > 0 /\ r < NRanks - 1) \/ (r = NRanks - 1 /\ r # 0) BY Sizes
<1> QED BY <1>1, <1>2, <1>3, <1>4, <1>5

LEMMA SomeCall == ASSUME NEW r \in Ranks PROVE Len(Calls(r)') \in {1, 2}
<1>1. Len(FaceCalls(r)) = 1 BY DEF FaceCalls
<1>2. Len(PlaneCalls(r)) \in {1, 2}
  <2>1. r = 0 \/ r > 0 BY Sizes
  <2>2. owns_lower_neighbor(r) \/ owns_upper_neighbor(r)
    BY <2>1, Sizes DEF owns_lower_neighbor, owns_upper_neighbor
  <2>3. CASE owns_lower_neighbor(r) /\ owns_upper_neighbor(r) BY <2>3 DEF PlaneCalls
  <2>4. CASE owns_lower_neighbor(r) /\ ~ owns_upper_neighbor(r) BY <2>4 DEF PlaneCalls
  <2>5. CASE ~ owns_lower_neighbor(r) /\ owns_upper_neighbor(r) BY <2>5 DEF PlaneCalls
  <2> QED BY <2>2, <2>3, <2>4, <2>5
<1>3. Calls(r)' = FaceCalls(r) \/ Calls(r)' = PlaneCalls(r) BY DEF Calls
<1> QED BY <1>1, <1>2, <1>3

\* What a rank has at hand in the plane it is in.
LEMMA Hands ==
    ASSUME TypeOK, Placed, NEW r \in Ranks, Exchanging(r)
    PROVE  /\ Current(r).sends \subseteq Dirs /\ Current(r).recvs \subseteq Dirs
           /\ \A d \in Current(r).sends : Sending(r, d)
           /\ \A d \in Current(r).recvs : Receiving(r, d)
           /\ ~ posted[r] => \A d \in Current(r).sends : d \notin SentNow(r)
           /\ \A d \in Current(r).recvs \ got[r] : d \notin GotNow(r)
           /\ op[r] = Len(Calls(r)) /\ posted[r] =>
                 \A d \in Dirs : Sending(r, d) => d \in SentNow(r)
           /\ op[r] = Len(Calls(r)) /\ got[r] = Current(r).recvs =>
                 \A d \in Dirs : Receiving(r, d) => d \in GotNow(r)
           /\ op[r] < Len(Calls(r)) =>
                 op[r] = 1 /\ Len(Calls(r)) = 2
                 /\ Current(r).sends = {"up"} /\ Current(r).recvs = {"up"}
<1>1. op[r] \in {1, 2} /\ op[r] <= Len(Calls(r)) /\ got[r] \subseteq Dirs
  BY DEF TypeOK, Placed
<1>2. Current(r) = Calls(r)[op[r]] BY DEF Current
<1>3. CASE Len(Calls(r)) = 1
  <2>1. op[r] = 1 BY <1>1, <1>3
  <2>2. /\ Current(r).sends = {d \in Dirs : Sending(r, d)}
        /\ Current(r).recvs = {d \in Dirs : Receiving(r, d)}
    BY <1>2, <1>3, <2>1, CallsAre
  <2>3. /\ SentNow(r) = IF posted[r] THEN Current(r).sends ELSE {}
        /\ GotNow(r) = got[r]
    BY <2>1 DEF SentNow, GotNow
  <2> QED BY <1>3, <2>1, <2>2, <2>3
<1>4. CASE Len(Calls(r)) = 2 /\ op[r] = 1
  <2>1. /\ Current(r).sends = {"up"} /\ Current(r).recvs = {"up"}
        /\ \A d \in Dirs : Sending(r, d) /\ Receiving(r, d)
    BY <1>2, <1>4, CallsAre
  <2>2. /\ SentNow(r) = IF posted[r] THEN Current(r).sends ELSE {}
        /\ GotNow(r) = got[r]
    BY <1>4 DEF SentNow, GotNow
  <2> QED BY <1>4, <2>1, <2>2 DEF Dirs
<1>5. CASE Len(Calls(r)) = 2 /\ op[r] = 2
  <2>1. /\ Current(r).sends = {"down"} /\ Current(r).recvs = {"down"}
        /\ \A d \in Dirs : Sending(r, d) /\ Receiving(r, d)
    BY <1>2, <1>5, CallsAre
  <2>2. /\ SentNow(r) = {"up"} \cup IF posted[r] THEN Current(r).sends ELSE {}
        /\ GotNow(r) = {"up"} \cup got[r]
    BY <1>5 DEF SentNow, GotNow
  <2> QED BY <1>5, <2>1, <2>2 DEF Dirs
<1> QED BY <1>1, <1>3, <1>4, <1>5, CallsAre

\* The plane a rank is in is one of the exchange.
LEMMA OwnSlot ==
    ASSUME TypeOK, Placed, NEW r \in Ranks, Exchanging(r)
    PROVE  /\ IsSlot(step[r], plane[r]) /\ step[r] \in 1 .. Len(Program)
           /\ plane[r] \in 0 .. NV - 1
           /\ plane[r] + 1 < Planes(r) <=> Kind(r) = "dv" /\ plane[r] + 1 < NV
<1>1. step[r] \in 1 .. Len(Program) /\ plane[r] \in 0 .. NV - 1 /\ NV \in Nat
  BY ProgramIs, Sizes DEF Exchanging, Running, TypeOK
<1>2. Program[step[r]] # "update" /\ plane[r] < Planes(r)
  BY DEF Exchanging, Kind, Placed
<1> QED BY <1>1, <1>2 DEF IsSlot, Planes, Kind

\* The steps that neither send nor receive leave behind what was sent and received.
SlotsKept ==
    \A x \in Ranks, d \in Dirs, e \in 1 .. Len(Program), p \in 0 .. NV - 1 : IsSlot(e, p) =>
        /\ Sending(x, d) => (Sent(x, d, e, p)' <=> Sent(x, d, e, p))
        /\ Receiving(x, d) => (Got(x, d, e, p)' <=> Got(x, d, e, p))

Others(r) ==
    \A x \in Ranks \ {r} : /\ step'[x] = step[x] /\ plane'[x] = plane[x] /\ op'[x] = op[x]
                           /\ posted'[x] = posted[x] /\ got'[x] = got[x]

LEMMA OthersKeep ==
    ASSUME NEW r \in Ranks, Others(r), NEW x \in Ranks \ {r}
    PROVE  \A d, e, p : /\ Sent(x, d, e, p)' <=> Sent(x, d, e, p)
                        /\ Got(x, d, e, p)' <=> Got(x, d, e, p)
<1>1. SentNow(x)' = SentNow(x) /\ GotNow(x)' = GotNow(x)
  BY DEF Others, SentNow, GotNow, Current, Calls, Kind
<1>2. \A e, p : Behind(x, e, p)' <=> Behind(x, e, p) BY DEF Others, Behind
<1> QED BY <1>1, <1>2 DEF Others, Sent, Got

LEMMA NextCallKeeps ==
    ASSUME TypeOK, Placed, NEW r \in Ranks, NextCall(r)
    PROVE  SlotsKept
<1>1. Others(r) BY DEF NextCall, Others, TypeOK
<1>2. Exchanging(r) BY DEF NextCall, Finished, Placed
<1>3. op[r] = 1 /\ posted[r] /\ got[r] = {"up"} /\ Current(r).sends = {"up"}
  BY <1>2, Hands DEF NextCall, Finished
<1>4. op'[r] = 2 /\ ~ posted'[r] /\ got'[r] = {} /\ step' = step /\ plane' = plane
  BY <1>3 DEF NextCall, TypeOK
<1>5. SentNow(r)' = SentNow(r) /\ GotNow(r)' = GotNow(r)
  BY <1>3, <1>4 DEF SentNow, GotNow
<1>6. \A d, e, p : /\ Sent(r, d, e, p)' <=> Sent(r, d, e, p)
                   /\ Got(r, d, e, p)' <=> Got(r, d, e, p)
  BY <1>4, <1>5 DEF Sent, Got, Behind
<1> QED BY <1>1, <1>6, OthersKeep DEF SlotsKept

\* The plane of a rank, or the exchange, makes way for the next.
Advances(r) ==
    IF plane[r] + 1 < Planes(r)
      THEN plane' = [plane EXCEPT ![r] = @ + 1] /\ UNCHANGED step
      ELSE plane' = [plane EXCEPT ![r] = 0] /\ step' = [step EXCEPT ![r] = @ + 1]

LEMMA Advanced ==
    ASSUME TypeOK, Placed, NEW r \in Ranks, Exchanging(r), Advances(r), NEW e, NEW p, IsSlot(e, p)
    PROVE  Behind(r, e, p)' <=> Behind(r, e, p) \/ (e = step[r] /\ p = plane[r])
<1>1. /\ step[r] \in Nat /\ plane[r] \in Nat /\ e \in Nat /\ p \in Nat /\ NV \in Nat
      /\ p <= NV - 1 /\ plane[r] <= NV - 1 /\ e \in 1 .. Len(Program)
  BY OwnSlot, ProgramIs, Sizes DEF IsSlot
<1>2. CASE plane[r] + 1 < Planes(r)
  <2>1. plane'[r] = plane[r] + 1 /\ step'[r] = step[r] BY <1>2 DEF Advances, TypeOK
  <2> QED BY <1>1, <2>1 DEF Behind
<1>3. CASE ~ (plane[r] + 1 < Planes(r))
  <2>1. plane'[r] = 0 /\ step'[r] = step[r] + 1 BY <1>3 DEF Advances, TypeOK
  <2>2. e = step[r] => p <= plane[r]
    <3>1. Program[e] # "dv" => p = 0 BY DEF IsSlot
    <3>2. ~ (Kind(r) = "dv" /\ plane[r] + 1 < NV) BY <1>3, OwnSlot
    <3> QED BY <1>1, <3>1, <3>2 DEF Kind
  <2> QED BY <1>1, <2>1, <2>2 DEF Behind
<1> QED BY <1>2, <1>3

LEMMA EndPlaneIs ==
    ASSUME TypeOK, Placed, NEW r \in Ranks, EndPlane(r)
    PROVE  /\ Exchanging(r) /\ Advances(r) /\ Others(r)
           /\ op'[r] = 1 /\ ~ posted'[r] /\ got'[r] = {}
           /\ \A d \in Dirs : Sending(r, d) => d \in SentNow(r)
           /\ \A d \in Dirs : Receiving(r, d) => d \in GotNow(r)
<1>1. Exchanging(r) BY DEF EndPlane, Finished, Placed
<1>2. Advances(r) BY DEF EndPlane, Advances
<1>3. \A x \in Ranks \ {r} : step'[x] = step[x] /\ plane'[x] = plane[x]
  BY <1>2 DEF Advances, TypeOK
<1>4. Others(r) /\ op'[r] = 1 /\ ~ posted'[r] /\ got'[r] = {}
  BY <1>3 DEF EndPlane, Others, TypeOK
<1>5. op[r] = Len(Calls(r)) /\ posted[r] /\ got[r] = Current(r).recvs
  BY DEF EndPlane, Finished
<1> QED BY <1>1, <1>2, <1>4, <1>5, Hands

LEMMA EndPlaneKeeps ==
    ASSUME TypeOK, Placed, NEW r \in Ranks, EndPlane(r)
    PROVE  SlotsKept
<1>1. SentNow(r)' = {} /\ GotNow(r)' = {} BY EndPlaneIs DEF SentNow, GotNow
<1>2. ASSUME NEW d \in Dirs, NEW e \in 1 .. Len(Program), NEW p \in 0 .. NV - 1, IsSlot(e, p)
      PROVE  /\ Sending(r, d) => (Sent(r, d, e, p)' <=> Sent(r, d, e, p))
             /\ Receiving(r, d) => (Got(r, d, e, p)' <=> Got(r, d, e, p))
  <2>1. Behind(r, e, p)' <=> Behind(r, e, p) \/ (e = step[r] /\ p = plane[r])
    BY <1>2, EndPlaneIs, Advanced
  <2>2. Sending(r, d) => d \in SentNow(r) BY EndPlaneIs
  <2>3. Receiving(r, d) => d \in GotNow(r) BY EndPlaneIs
  <2> QED BY <1>1, <2>1, <2>2, <2>3 DEF Sent, Got
<1>3. Others(r) BY EndPlaneIs
<1> QED BY <1>2, <1>3, OthersKeep DEF SlotsKept

LEMMA UpdateKeeps ==
    ASSUME TypeOK, Placed, NEW r \in Ranks, Update(r)
    PROVE  SlotsKept
<1>1. Others(r) BY DEF Update, Others, TypeOK
<1>2. ~ Exchanging(r) BY DEF Update, Exchanging
<1>3. plane[r] = 0 /\ op[r] = 1 /\ ~ posted[r] /\ got[r] = {} BY <1>2 DEF Placed
<1>4. step'[r] = step[r] + 1 /\ plane' = plane /\ op' = op /\ posted' = posted /\ got' = got
  BY DEF Update, TypeOK
<1>5. SentNow(r) = {} /\ SentNow(r)' = {} /\ GotNow(r) = {} /\ GotNow(r)' = {}
  BY <1>3, <1>4 DEF SentNow, GotNow
<1>6. ASSUME NEW e \in 1 .. Len(Program), NEW p \in 0 .. NV - 1, IsSlot(e, p)
      PROVE  Behind(r, e, p)' <=> Behind(r, e, p)
  <2>1. e # step[r] BY <1>6 DEF IsSlot, Update, Kind
  <2>2. e \in Nat /\ step[r] \in Nat BY ProgramIs DEF TypeOK
  <2> QED BY <1>3, <1>4, <2>1, <2>2, Sizes DEF Behind
<1>7. ASSUME NEW d \in Dirs, NEW e \in 1 .. Len(Program), NEW p \in 0 .. NV - 1, IsSlot(e, p)
      PROVE  (Sent(r, d, e, p)' <=> Sent(r, d, e, p)) /\ (Got(r, d, e, p)' <=> Got(r, d, e, p))
  BY <1>5, <1>6, <1>7 DEF Sent, Got
<1> QED BY <1>1, <1>7, OthersKeep DEF SlotsKept

------------------------------------------------------------------------------
\* The messages wait while no slot of theirs is sent or received for.
LEMMA QueuesKept ==
    ASSUME Queues, Causal, SlotsKept, chan' = chan
    PROVE  Queues' /\ Causal'
<1>1. ASSUME NEW r \in Ranks, NEW d \in Dirs, Receiving(r, d)
      PROVE  \A e, p : Due(Source(r, d), r, d, e, p)' <=> Due(Source(r, d), r, d, e, p)
  <2> SUFFICES ASSUME NEW e, NEW p, IsSlot(e, p)
               PROVE  /\ Sent(Source(r, d), d, e, p)' <=> Sent(Source(r, d), d, e, p)
                      /\ Got(r, d, e, p)' <=> Got(r, d, e, p)
    BY DEF Due
  <2>1. e \in 1 .. Len(Program) /\ p \in 0 .. NV - 1 BY DEF IsSlot
  <2>2. Source(r, d) \in Ranks /\ Sending(Source(r, d), d) BY <1>1, Partners
  <2> QED BY <1>1, <2>1, <2>2 DEF SlotsKept
<1>2. Queues'
  <2> SUFFICES ASSUME NEW r \in Ranks, NEW d \in Dirs, Receiving(r, d), NEW p \in 0 .. NV - 1
               PROVE  InFlight(Source(r, d), r, d, p)'
    BY DEF Queues, Receiving, Source
  <2>1. InFlight(Source(r, d), r, d, p) BY DEF Queues
  <2>2. PICK s : s = Source(r, d) OBVIOUS
  <2>3. \A e : Due(s, r, d, e, p)' <=> Due(s, r, d, e, p) BY <1>1, <2>2
  <2>4. InFlight(s, r, d, p)' BY <2>1, <2>2, <2>3 DEF InFlight, Ordered
  <2> QED BY <2>2, <2>4
<1>3. Causal'
  <2> SUFFICES ASSUME NEW r \in Ranks, NEW d \in Dirs, Receiving(r, d),
                      NEW e \in 1 .. Len(Program), NEW p \in 0 .. NV - 1,
                      IsSlot(e, p), Got(r, d, e, p)'
               PROVE  Sent(Source(r, d), d, e, p)'
    BY DEF Causal, Receiving, Source
  <2>1. Source(r, d) \in Ranks /\ Sending(Source(r, d), d) BY Partners
  <2> QED BY <2>1 DEF Causal, SlotsKept
<1> QED BY <1>2, <1>3

\* What Post adds to the channels, and what it makes sent.
Posting(r, s, d, p) == s = r /\ p = plane[r] /\ d \in Current(r).sends

LEMMA PostIs ==
    ASSUME TypeOK, Placed, NEW r \in Ranks, Post(r)
    PROVE  /\ Exchanging(r) /\ ~ posted[r] /\ Others(r) /\ step' = step /\ plane' = plane
           /\ \A s \in Ranks, d \in Dirs, p \in 0 .. NV - 1 :
                 chan'[s][d][p] =
                    IF Posting(r, s, d, p)
                      THEN Append(chan[s][d][p], [step |-> step[r], rows |-> Payload(r, d), sync |-> d \in pend'[r]])
                      ELSE chan[s][d][p]
           /\ \A s \in Ranks, d \in Dirs : \A e, p :
                 Sent(s, d, e, p)' <=> Sent(s, d, e, p) \/ (Posting(r, s, d, p) /\ e = step[r])
           /\ \A s \in Ranks : \A d, e, p : Got(s, d, e, p)' <=> Got(s, d, e, p)
<1>1. Exchanging(r) /\ ~ posted[r] BY DEF Post, Exchanging
<1>2. /\ step' = step /\ plane' = plane /\ op' = op /\ got' = got
      /\ posted' = [posted EXCEPT ![r] = TRUE] /\ Others(r)
  BY DEF Post, Others, TypeOK
<1>3. \A s \in Ranks, d \in Dirs, p \in 0 .. NV - 1 :
           chan'[s][d][p] =
              IF Posting(r, s, d, p)
                THEN Append(chan[s][d][p], [step |-> step[r], rows |-> Payload(r, d), sync |-> d \in pend'[r]])
                ELSE chan[s][d][p]
  <2>1. chan \in [Ranks -> [Dirs -> [0 .. NV - 1 -> Seq(Messages)]]] BY DEF TypeOK
  <2>2. \A s \in Ranks \ {r} : chan'[s] = chan[s] BY <2>1 DEF Post
  <2>3. \A d \in Dirs, p \in 0 .. NV - 1 : chan'[r][d][p] =
           IF d \in Current(r).sends /\ p = plane[r]
             THEN Append(chan[r][d][p], [step |-> step[r], rows |-> Payload(r, d), sync |-> d \in pend'[r]])
             ELSE chan[r][d][p]
    BY <2>1 DEF Post
  <2> QED BY <2>2, <2>3 DEF Posting
<1>4. SentNow(r)' = SentNow(r) \cup Current(r).sends /\ GotNow(r)' = GotNow(r)
  <2>1. posted'[r] BY <1>2 DEF TypeOK
  <2>2. Current(r)' = Current(r) BY <1>2 DEF Current, Calls, Kind
  <2> QED BY <1>1, <1>2, <2>1, <2>2 DEF SentNow, GotNow
<1>5. \A x, e, p : Behind(x, e, p)' <=> Behind(x, e, p) BY <1>2 DEF Behind
<1>6. \A d, e, p : /\ Sent(r, d, e, p)' <=> Sent(r, d, e, p) \/ (Posting(r, r, d, p) /\ e = step[r])
                   /\ Got(r, d, e, p)' <=> Got(r, d, e, p)
  BY <1>2, <1>4, <1>5 DEF Sent, Got, Posting
<1>7. \A s \in Ranks, d \in Dirs : \A e, p :
         Sent(s, d, e, p)' <=> Sent(s, d, e, p) \/ (Posting(r, s, d, p) /\ e = step[r])
  BY <1>2, <1>6, OthersKeep DEF Posting
<1>8. \A s \in Ranks : \A d, e, p : Got(s, d, e, p)' <=> Got(s, d, e, p)
  <2> SUFFICES ASSUME NEW s \in Ranks PROVE \A d, e, p : Got(s, d, e, p)' <=> Got(s, d, e, p)
    OBVIOUS
  <2>1. CASE s = r BY <1>6, <2>1
  <2>2. CASE s # r BY <1>2, <2>2, OthersKeep
  <2> QED BY <2>1, <2>2
<1> QED BY <1>1, <1>2, <1>3, <1>7, <1>8

LEMMA ChanType ==
    ASSUME TypeOK, NEW s \in Ranks, NEW d \in Dirs, NEW p \in 0 .. NV - 1
    PROVE  chan[s][d][p] \in Seq(Messages)
<1>1. chan \in [Ranks -> [Dirs -> [0 .. NV - 1 -> Seq(Messages)]]] BY DEF TypeOK
<1> QED BY <1>1

\* What is posted is due: the receiver cannot be ahead of it.
LEMMA PostQueues ==
    ASSUME TypeOK, Placed, Queues, Causal, NEW r \in Ranks, Post(r)
    PROVE  Queues' /\ Causal'
<1>1. /\ Exchanging(r) /\ ~ posted[r] /\ IsSlot(step[r], plane[r])
      /\ \A d \in Current(r).sends : d \notin SentNow(r)
      /\ step[r] \in 1 .. Len(Program) /\ plane[r] \in 0 .. NV - 1
  BY PostIs, Hands, OwnSlot
<1>2. \A s \in Ranks, d \in Dirs : \A e, p :
         Sent(s, d, e, p)' <=> Sent(s, d, e, p) \/ (Posting(r, s, d, p) /\ e = step[r])
  BY PostIs
<1>3. \A s \in Ranks : \A d, e, p : Got(s, d, e, p)' <=> Got(s, d, e, p) BY PostIs
<1>4. \A s \in Ranks, d \in Dirs, p \in 0 .. NV - 1 :
         chan'[s][d][p] =
            IF Posting(r, s, d, p)
              THEN Append(chan[s][d][p], [step |-> step[r], rows |-> Payload(r, d), sync |-> d \in pend'[r]])
              ELSE chan[s][d][p]
  BY PostIs
<1>5. Causal'
  <2> SUFFICES ASSUME NEW x \in Ranks, NEW d \in Dirs, Receiving(x, d),
                      NEW e \in 1 .. Len(Program), NEW p \in 0 .. NV - 1,
                      IsSlot(e, p), Got(x, d, e, p)'
               PROVE  Sent(Source(x, d), d, e, p)'
    BY DEF Causal, Receiving, Source
  <2>1. Source(x, d) \in Ranks BY Partners
  <2> QED BY <1>2, <1>3, <2>1 DEF Causal
<1>6. Queues'
  <2> SUFFICES ASSUME NEW x \in Ranks, NEW d \in Dirs, Receiving(x, d), NEW p \in 0 .. NV - 1
               PROVE  InFlight(Source(x, d), x, d, p)'
    BY DEF Queues, Receiving, Source
  <2>1. PICK s \in Ranks : s = Source(x, d) BY Partners
  <2> DEFINE q == chan[s][d][p]
  <2>2. InFlight(s, x, d, p) BY <2>1 DEF Queues
  <2>3. Ordered(q) /\ (\A a \in DOMAIN q : Due(s, x, d, q[a].step, p))
        /\ \A e \in 1 .. Len(Program) : Due(s, x, d, e, p) => \E a \in DOMAIN q : q[a].step = e
    BY <2>2 DEF InFlight
  <2>4. CASE ~ Posting(r, s, d, p)
    <3>1. chan'[s][d][p] = chan[s][d][p] BY <1>4, <2>4
    <3>2. \A e : Due(s, x, d, e, p)' <=> Due(s, x, d, e, p) BY <1>2, <1>3, <2>4 DEF Due
    <3>3. InFlight(s, x, d, p)' BY <2>2, <3>1, <3>2 DEF InFlight, Ordered
    <3> QED BY <2>1, <3>3
  <2>5. CASE Posting(r, s, d, p)
    <3> DEFINE m == [step |-> step[r], rows |-> Payload(r, d), sync |-> d \in pend'[r]]
    <3>0. s = r /\ p = plane[r] /\ d \in Current(r).sends BY <2>5 DEF Posting
    <3>1. chan'[s][d][p] = Append(q, m) BY <1>4, <2>5
    <3>2. ~ Sent(s, d, step[r], p) BY <1>1, <3>0, ProgramIs DEF Sent, Behind
    <3>3. ~ Got(x, d, step[r], p)
      BY <1>1, <2>1, <3>0, <3>2 DEF Causal
    <3>4. \A e : Due(s, x, d, e, p)' <=> Due(s, x, d, e, p) \/ e = step[r]
      BY <1>1, <1>2, <1>3, <2>5, <3>0, <3>2, <3>3 DEF Due
    <3>5. \A a \in DOMAIN q : q[a].step < step[r]
      <4> SUFFICES ASSUME NEW a \in DOMAIN q PROVE q[a].step < step[r] OBVIOUS
      <4>1. Due(s, x, d, q[a].step, p) BY <2>3
      <4>2. Sent(s, d, q[a].step, p) /\ q[a].step \in 1 .. Len(Program)
        BY <4>1 DEF Due, IsSlot
      <4> HIDE DEF q
      <4>3. q[a].step # step[r] BY <3>2, <4>2
      <4> QED BY <1>1, <3>0, <4>2, <4>3, ProgramIs DEF Sent, Behind
    <3>6. q \in Seq(Messages) BY ChanType
    <3>7. m.step = step[r] OBVIOUS
    <3> HIDE DEF q, m
    <3>8. PICK longer : longer = Append(q, m) OBVIOUS
    <3>9. /\ Len(q) \in Nat /\ DOMAIN q = 1 .. Len(q) /\ DOMAIN longer = 1 .. Len(q) + 1
          /\ \A a \in 1 .. Len(q) : longer[a] = q[a]
          /\ longer[Len(q) + 1].step = step[r]
      BY <3>6, <3>7, <3>8
    <3>10. Ordered(longer) BY <2>3, <3>5, <3>9 DEF Ordered
    <3>11. \A a \in DOMAIN longer : Due(s, x, d, longer[a].step, p)'
      <4> SUFFICES ASSUME NEW a \in 1 .. Len(q) + 1 PROVE Due(s, x, d, longer[a].step, p)'
        BY <3>9
      <4>1. CASE a \in 1 .. Len(q)
        <5>1. Due(s, x, d, longer[a].step, p) BY <2>3, <3>9, <4>1
        <5> QED BY <3>4, <5>1
      <4>2. CASE a = Len(q) + 1
        <5>1. longer[a].step = step[r] BY <3>9, <4>2
        <5> QED BY <3>4, <5>1
      <4> QED BY <3>9, <4>1, <4>2
    <3>12. ASSUME NEW e \in 1 .. Len(Program), Due(s, x, d, e, p)'
           PROVE  \E a \in DOMAIN longer : longer[a].step = e
      <4>1. CASE e = step[r]
        <5>1. Len(q) + 1 \in DOMAIN longer BY <3>9
        <5> QED BY <3>9, <4>1, <5>1
      <4>2. CASE e # step[r]
        <5>1. PICK a \in DOMAIN q : q[a].step = e BY <2>3, <3>4, <3>12, <4>2
        <5>2. a \in DOMAIN longer /\ longer[a] = q[a] BY <3>9
        <5> QED BY <5>1, <5>2
      <4> QED BY <4>1, <4>2
    <3>13. chan'[s][d][p] = longer BY <3>1, <3>8
    <3>14. InFlight(s, x, d, p)' BY <3>10, <3>11, <3>12, <3>13 DEF InFlight, Ordered
    <3> QED BY <2>1, <3>14
  <2> QED BY <2>4, <2>5
<1> QED BY <1>5, <1>6

\* A waiting receive gets the message of its own exchange, which has been sent.
LEMMA Matches ==
    ASSUME TypeOK, Placed, Queues, NEW r \in Ranks, NEW d \in Dirs,
           posted[r], d \in Current(r).recvs \ got[r],
           chan[Source(r, d)][d][plane[r]] # << >>
    PROVE  /\ Head(chan[Source(r, d)][d][plane[r]]).step = step[r]
           /\ Sent(Source(r, d), d, step[r], plane[r])
           /\ ~ Got(r, d, step[r], plane[r])
<1>1. Exchanging(r) /\ Receiving(r, d) /\ d \notin GotNow(r)
  <2>1. Exchanging(r) BY DEF Placed
  <2> QED BY <2>1, Hands
<1>2. PICK s \in Ranks : s = Source(r, d) BY <1>1, Partners
<1>3. PICK p \in 0 .. NV - 1, e \in 1 .. Len(Program) : p = plane[r] /\ e = step[r] /\ IsSlot(e, p)
  BY <1>1, OwnSlot
<1>4. PICK q : q = chan[s][d][p] OBVIOUS
<1>5. /\ Ordered(q) /\ \A a \in DOMAIN q : Due(s, r, d, q[a].step, p)
      /\ \A f \in 1 .. Len(Program) : Due(s, r, d, f, p) => \E a \in DOMAIN q : q[a].step = f
  <2>1. InFlight(s, r, d, p) BY <1>1, <1>2 DEF Queues
  <2> QED BY <1>4, <2>1 DEF InFlight
<1>6. q \in Seq(Messages) /\ q # << >> BY <1>2, <1>3, <1>4, ChanType
<1>7. Len(q) \in Nat /\ DOMAIN q = 1 .. Len(q) /\ 1 \in DOMAIN q /\ Head(q) = q[1]
  BY <1>6
<1>8. ~ Got(r, d, e, p) BY <1>1, <1>3, ProgramIs DEF Got, Behind
<1>9. Due(s, r, d, q[1].step, p) BY <1>5, <1>7
<1>10. q[1].step \in 1 .. Len(Program) /\ Sent(s, d, q[1].step, p) /\ ~ Got(r, d, q[1].step, p)
  BY <1>9 DEF Due, IsSlot
<1>11. q[1].step >= e BY <1>3, <1>10, ProgramIs DEF Got, Behind
<1>12. ASSUME q[1].step > e PROVE FALSE
  <2>1. step[s] \in Nat BY <1>2, ProgramIs DEF TypeOK
  <2>2. q[1].step <= step[s] BY <1>10, <2>1, ProgramIs DEF Sent, Behind
  <2>3. Sent(s, d, e, p) BY <1>3, <1>10, <1>12, <2>1, <2>2, ProgramIs DEF Sent, Behind
  <2>4. Due(s, r, d, e, p) BY <1>3, <1>8, <2>3 DEF Due
  <2>5. PICK a \in DOMAIN q : q[a].step = e BY <1>5, <2>4
  <2>6. a # 1 BY <1>3, <1>10, <1>12, <2>5, ProgramIs
  <2>7. 1 < a BY <1>7, <2>6
  <2>8. q[1].step < q[a].step BY <1>5, <1>7, <2>7 DEF Ordered
  <2> QED BY <1>3, <1>10, <1>12, <2>5, <2>8, ProgramIs
<1>13. q[1].step = e BY <1>3, <1>10, <1>11, <1>12, ProgramIs
<1> QED BY <1>2, <1>3, <1>4, <1>7, <1>8, <1>10, <1>13

Taking(r, d, s, f, p) == s = Source(r, d) /\ f = d /\ p = plane[r]

LEMMA ReceiveIs ==
    ASSUME TypeOK, Placed, NEW r \in Ranks, NEW d \in Dirs, Receive(r, d)
    PROVE  /\ Exchanging(r) /\ posted[r] /\ d \in Current(r).recvs \ got[r] /\ Others(r)
           /\ Receiving(r, d)
           /\ chan[Source(r, d)][d][plane[r]] # << >>
           /\ buf' = [buf EXCEPT ![r][d] = Head(chan[Source(r, d)][d][plane[r]]).rows]
           /\ got' = [got EXCEPT ![r] = @ \cup {d}]
           /\ UNCHANGED <<step, plane, op, posted>>
           /\ \A s \in Ranks, f \in Dirs, p \in 0 .. NV - 1 :
                 chan'[s][f][p] = IF Taking(r, d, s, f, p) THEN Tail(chan[s][f][p]) ELSE chan[s][f][p]
           /\ GotNow(r)' = GotNow(r) \cup {d}
           /\ \A s \in Ranks : \A f, e, p : Sent(s, f, e, p)' <=> Sent(s, f, e, p)
           /\ \A x \in Ranks : \A f, e, p :
                 Got(x, f, e, p)' <=> Got(x, f, e, p) \/ (x = r /\ f = d /\ e = step[r] /\ p = plane[r])
<1>1. posted[r] /\ d \in Current(r).recvs \ got[r] BY DEF Receive
<1>2. Exchanging(r) BY <1>1 DEF Placed
<1>3. Receiving(r, d) BY <1>1, <1>2, Hands
<1>4. PICK s \in Ranks : s = Source(r, d) BY <1>3, Partners
<1>5. PICK q \in 0 .. NV - 1 : q = plane[r] BY DEF TypeOK
<1>6. /\ chan[s][d][q] # << >>
      /\ buf' = [buf EXCEPT ![r][d] = Head(chan[s][d][q]).rows]
      /\ chan' = [chan EXCEPT ![s][d][q] = Tail(chan[s][d][q])]
      /\ got' = [got EXCEPT ![r] = @ \cup {d}]
      /\ UNCHANGED <<step, plane, op, posted>>
  BY <1>4, <1>5 DEF Receive
<1>7. chan \in [Ranks -> [Dirs -> [0 .. NV - 1 -> Seq(Messages)]]] /\ got \in [Ranks -> SUBSET Dirs]
  BY DEF TypeOK
<1>8. \A x \in Ranks, f \in Dirs, p \in 0 .. NV - 1 :
          chan'[x][f][p] = IF Taking(r, d, x, f, p) THEN Tail(chan[x][f][p]) ELSE chan[x][f][p]
  <2>1. \A x \in Ranks \ {s} : chan'[x] = chan[x] BY <1>6, <1>7
  <2>2. \A f \in Dirs \ {d} : chan'[s][f] = chan[s][f] BY <1>6, <1>7
  <2>3. \A p \in 0 .. NV - 1 : chan'[s][d][p] = IF p = q THEN Tail(chan[s][d][p]) ELSE chan[s][d][p]
    BY <1>6, <1>7
  <2> QED BY <1>4, <1>5, <2>1, <2>2, <2>3 DEF Taking
<1>9. Others(r) BY <1>6, <1>7 DEF Others
<1>10. got'[r] = got[r] \cup {d} BY <1>6, <1>7
<1>11. SentNow(r)' = SentNow(r) /\ GotNow(r)' = GotNow(r) \cup {d}
  BY <1>6, <1>10 DEF SentNow, GotNow, Current, Calls, Kind
<1>12. \A x, e, p : Behind(x, e, p)' <=> Behind(x, e, p) BY <1>6 DEF Behind
<1>13. \A f, e, p : /\ Sent(r, f, e, p)' <=> Sent(r, f, e, p)
                    /\ Got(r, f, e, p)' <=> Got(r, f, e, p) \/ (f = d /\ e = step[r] /\ p = plane[r])
  BY <1>6, <1>11, <1>12 DEF Sent, Got
<1>14. \A x \in Ranks : \A f, e, p :
          /\ Sent(x, f, e, p)' <=> Sent(x, f, e, p)
          /\ Got(x, f, e, p)' <=> Got(x, f, e, p) \/ (x = r /\ f = d /\ e = step[r] /\ p = plane[r])
  <2> SUFFICES ASSUME NEW x \in Ranks
               PROVE  \A f, e, p :
                        /\ Sent(x, f, e, p)' <=> Sent(x, f, e, p)
                        /\ Got(x, f, e, p)' <=>
                              Got(x, f, e, p) \/ (x = r /\ f = d /\ e = step[r] /\ p = plane[r])
    OBVIOUS
  <2>1. CASE x = r BY <1>13, <2>1
  <2>2. CASE x # r BY <1>9, <2>2, OthersKeep
  <2> QED BY <2>1, <2>2
<1> QED BY <1>1, <1>2, <1>3, <1>4, <1>5, <1>6, <1>8, <1>9, <1>11, <1>14

LEMMA ReceiveQueues ==
    ASSUME TypeOK, Placed, Queues, Causal, NEW r \in Ranks, NEW d \in Dirs, Receive(r, d)
    PROVE  Queues' /\ Causal'
<1>1. /\ Exchanging(r) /\ Receiving(r, d)
      /\ Head(chan[Source(r, d)][d][plane[r]]).step = step[r]
      /\ Sent(Source(r, d), d, step[r], plane[r])
      /\ chan[Source(r, d)][d][plane[r]] # << >>
  BY ReceiveIs, Matches
<1>2. /\ \A s \in Ranks : \A f, e, p : Sent(s, f, e, p)' <=> Sent(s, f, e, p)
      /\ \A x \in Ranks : \A f, e, p :
            Got(x, f, e, p)' <=> Got(x, f, e, p) \/ (x = r /\ f = d /\ e = step[r] /\ p = plane[r])
      /\ \A s \in Ranks, f \in Dirs, p \in 0 .. NV - 1 :
            chan'[s][f][p] = IF Taking(r, d, s, f, p) THEN Tail(chan[s][f][p]) ELSE chan[s][f][p]
  BY ReceiveIs
<1>3. Causal'
  <2> SUFFICES ASSUME NEW x \in Ranks, NEW f \in Dirs, Receiving(x, f),
                      NEW e \in 1 .. Len(Program), NEW p \in 0 .. NV - 1,
                      IsSlot(e, p), Got(x, f, e, p)'
               PROVE  Sent(Source(x, f), f, e, p)'
    BY DEF Causal, Receiving, Source
  <2>1. Source(x, f) \in Ranks BY Partners
  <2>2. Sent(Source(x, f), f, e, p) BY <1>1, <1>2 DEF Causal
  <2> QED BY <1>2, <2>1, <2>2
<1>4. Queues'
  <2> SUFFICES ASSUME NEW x \in Ranks, NEW f \in Dirs, Receiving(x, f), NEW p \in 0 .. NV - 1
               PROVE  InFlight(Source(x, f), x, f, p)'
    BY DEF Queues, Receiving, Source
  <2>1. PICK s \in Ranks : s = Source(x, f) BY Partners
  <2>2. InFlight(s, x, f, p) BY <2>1 DEF Queues
  <2>3. CASE ~ Taking(r, d, s, f, p)
    <3>1. chan'[s][f][p] = chan[s][f][p] BY <1>2, <2>3
    <3>2. ~ (x = r /\ f = d /\ p = plane[r]) BY <2>1, <2>3 DEF Taking
    <3>3. \A e : Due(s, x, f, e, p)' <=> Due(s, x, f, e, p) BY <1>2, <3>2 DEF Due
    <3>4. InFlight(s, x, f, p)' BY <2>2, <3>1, <3>3 DEF InFlight, Ordered
    <3> QED BY <2>1, <3>4
  <2>4. CASE Taking(r, d, s, f, p)
    <3>1. f = d /\ p = plane[r] /\ s = Source(r, d) BY <2>4 DEF Taking
    <3>2. x = r BY <1>1, <2>1, <3>1, Partners
    <3>3. PICK q : q = chan[s][f][p] OBVIOUS
    <3>4. PICK n : n = step[r] OBVIOUS
    <3>5. /\ Ordered(q) /\ \A a \in DOMAIN q : Due(s, x, f, q[a].step, p)
          /\ \A e \in 1 .. Len(Program) : Due(s, x, f, e, p) => \E a \in DOMAIN q : q[a].step = e
      BY <2>2, <3>3 DEF InFlight
    <3>6. q \in Seq(Messages) /\ q # << >> /\ q[1].step = n
      BY <1>1, <3>1, <3>3, <3>4, ChanType
    <3>7. PICK rest : rest = Tail(q) OBVIOUS
    <3>8. /\ Len(q) \in Nat \ {0} /\ DOMAIN q = 1 .. Len(q) /\ DOMAIN rest = 1 .. Len(q) - 1
          /\ \A a \in 1 .. Len(q) - 1 : rest[a] = q[a + 1] /\ a + 1 \in DOMAIN q
      BY <3>6, <3>7
    <3>9. chan'[s][f][p] = rest BY <1>2, <2>4, <3>3, <3>7
    <3>10. \A e : Due(s, x, f, e, p)' <=> Due(s, x, f, e, p) /\ e # n
      BY <1>2, <3>1, <3>2, <3>4 DEF Due
    <3>11. Ordered(rest)
      <4> SUFFICES ASSUME NEW a \in 1 .. Len(q) - 1, NEW b \in 1 .. Len(q) - 1, a < b
                   PROVE  rest[a].step < rest[b].step
        BY <3>8 DEF Ordered
      <4>1. a + 1 < b + 1 BY <3>8
      <4> QED BY <3>5, <3>8, <4>1 DEF Ordered
    <3>12. ASSUME NEW a \in DOMAIN rest PROVE Due(s, x, f, rest[a].step, p)'
      <4>1. Due(s, x, f, rest[a].step, p) BY <3>5, <3>8
      <4>2. q[1].step < q[a + 1].step
        <5>1. 1 \in DOMAIN q /\ 1 < a + 1 /\ a + 1 \in DOMAIN q BY <3>8
        <5> QED BY <3>5, <5>1 DEF Ordered
      <4>3. rest[a].step \in Nat BY <4>1, ProgramIs DEF Due, IsSlot
      <4>4. rest[a].step # n BY <3>6, <3>8, <4>2, <4>3
      <4> QED BY <3>10, <4>1, <4>4
    <3>13. ASSUME NEW e \in 1 .. Len(Program), Due(s, x, f, e, p)'
           PROVE  \E a \in DOMAIN rest : rest[a].step = e
      <4>1. Due(s, x, f, e, p) /\ e # n BY <3>10, <3>13
      <4>2. PICK a \in DOMAIN q : q[a].step = e BY <3>5, <4>1
      <4>3. a # 1 BY <3>6, <4>1, <4>2
      <4>4. a - 1 \in DOMAIN rest /\ (a - 1) + 1 = a BY <3>8, <4>3
      <4>5. rest[a - 1] = q[a] BY <3>8, <4>4
      <4> QED BY <4>2, <4>4, <4>5
    <3>14. InFlight(s, x, f, p)' BY <3>9, <3>11, <3>12, <3>13 DEF InFlight, Ordered
    <3> QED BY <2>1, <3>14
  <2> QED BY <2>3, <2>4
<1> QED BY <1>3, <1>4

------------------------------------------------------------------------------
LEMMA RowTypes ==
    /\ \A v \in Int, g \in Int, n \in Int : Row(v, g, n) \in Rows
    /\ \A g \in Int : Metric(g) \in Rows
    /\ NoRow \in Rows
BY DEF Row, Metric, NoRow, Rows

LEMMA Canvases ==
    ASSUME NEW r \in Ranks
    PROVE  /\ ng = 2 /\ Canvas(r) = -2 .. ny_local(r) + 1 /\ Own(r) = 0 .. ny_local(r) - 1
           /\ Own(r) \subseteq Canvas(r) /\ ny_local(r) \in Nat /\ ny_local(r) >= 1
           /\ j0(r) \in Nat
<1>1. ny_local(r) \in Nat /\ ny_local(r) >= 1 /\ j0(r) \in Nat BY World
<1> QED BY <1>1 DEF Canvas, Own, ng

\* What is posted is the rank's own rows.
LEMMA PayloadRight ==
    ASSUME TypeOK, Placed, OwnRows, NEW r \in Ranks, NEW d \in Dirs, Exchanging(r)
    PROVE  Right(r, d, step[r], plane[r], Payload(r, d))
<1>1. PICK e \in 1 .. Len(Program), p \in 0 .. NV - 1 : e = step[r] /\ p = plane[r]
  BY OwnSlot
<1>2. Program[e] \in {"dv", "face", "area"}
  BY <1>1, ProgramIs DEF Exchanging, Kind, Kinds
<1> DEFINE from == IF d = "up" THEN ny_local(r) - ng ELSE 0
<1>3. /\ from \in Int /\ \A g \in 0 .. ng - 1 : from + g \in Canvas(r)
      /\ Thick => \A g \in 0 .. ng - 1 : from + g \in Own(r)
  BY Canvases DEF Thick
<1>4. Kind(r) = Program[e] BY <1>1 DEF Kind
<1>5. CASE Program[e] = "dv"
  <2>1. PICK c : c = dv[r][p] OBVIOUS
  <2>2. c \in [Canvas(r) -> Rows] BY <2>1 DEF TypeOK
  <2>3. Payload(r, d) = [g \in 0 .. ng - 1 |-> c[from + g]]
    BY <1>1, <1>4, <1>5, <2>1 DEF Payload, PackRows
  <2>4. Payload(r, d) \in PayloadOf(e) BY <1>3, <1>5, <2>2, <2>3 DEF PayloadOf
  <2>5. ASSUME Thick PROVE Payload(r, d) = RowsFor(r, d, e, p)
    <3>1. ASSUME NEW g \in 0 .. ng - 1 PROVE c[from + g] = Row(p, j0(r) + from + g, VersionAt(e))
      <4>1. from + g \in Own(r) BY <1>3, <2>5
      <4>2. c[from + g] = Row(p, j0(r) + (from + g), VersionAt(e))
        BY <1>1, <2>1, <4>1 DEF OwnRows
      <4>3. j0(r) + (from + g) = j0(r) + from + g BY <1>3, Canvases
      <4> QED BY <4>2, <4>3
    <3>2. RowsFor(r, d, e, p) = [g \in 0 .. ng - 1 |-> Row(p, j0(r) + from + g, VersionAt(e))]
      BY <1>5 DEF RowsFor
    <3> QED BY <2>3, <3>1, <3>2
  <2> QED BY <1>1, <2>4, <2>5 DEF Right
<1>6. CASE Program[e] = "area"
  <2>1. PICK c : c = area[r] OBVIOUS
  <2>2. c \in [Canvas(r) -> Rows] BY <2>1 DEF TypeOK
  <2>3. Payload(r, d) = [g \in 0 .. ng - 1 |-> c[from + g]]
    BY <1>1, <1>4, <1>6, <2>1 DEF Payload, PackRows
  <2>4. Payload(r, d) \in PayloadOf(e) BY <1>3, <1>6, <2>2, <2>3 DEF PayloadOf
  <2>5. ASSUME Thick PROVE Payload(r, d) = RowsFor(r, d, e, p)
    <3>1. ASSUME NEW g \in 0 .. ng - 1 PROVE c[from + g] = Metric(j0(r) + from + g)
      <4>1. from + g \in Own(r) BY <1>3, <2>5
      <4>2. c[from + g] = Metric(j0(r) + (from + g)) BY <2>1, <4>1 DEF OwnRows
      <4>3. j0(r) + (from + g) = j0(r) + from + g BY <1>3, Canvases
      <4> QED BY <4>2, <4>3
    <3>2. RowsFor(r, d, e, p) = [g \in 0 .. ng - 1 |-> Metric(j0(r) + from + g)]
      BY <1>6 DEF RowsFor
    <3> QED BY <2>3, <3>1, <3>2
  <2> QED BY <1>1, <2>4, <2>5 DEF Right
<1>7. CASE Program[e] = "face"
  <2>1. PICK c : c = face[r] OBVIOUS
  <2>2. c \in [Canvas(r) -> Rows] BY <2>1 DEF TypeOK
  <2> DEFINE i == IF d = "up" THEN ny_local(r) - 1 ELSE 1
  <2>3. Payload(r, d) = [g \in {0} |-> c[i]]
    BY <1>1, <1>4, <1>7, <2>1 DEF Payload, PackFace
  <2>4. i \in Canvas(r) BY Canvases
  <2>5. Payload(r, d) \in PayloadOf(e) BY <1>7, <2>2, <2>3, <2>4 DEF PayloadOf
  <2>6. ASSUME Thick PROVE Payload(r, d) = RowsFor(r, d, e, p)
    <3>1. i \in Own(r) BY <2>6, Canvases DEF Thick
    <3>2. c[i] = Metric(j0(r) + i) BY <2>1, <3>1 DEF OwnRows
    <3>3. RowsFor(r, d, e, p) = [g \in {0} |-> Metric(j0(r) + i)] BY <1>7 DEF RowsFor
    <3> QED BY <2>3, <3>2, <3>3
  <2> QED BY <1>1, <2>5, <2>6 DEF Right
<1> QED BY <1>2, <1>5, <1>6, <1>7

LEMMA RightShape ==
    ASSUME NEW s, NEW d, NEW e, NEW p, NEW x, Right(s, d, e, p, x), Program[e] # "face"
    PROVE  x \in [0 .. ng - 1 -> Rows]
BY DEF Right, PayloadOf

\* Whose row a ghost next to another slab is.
LEMMA GhostOwner ==
    ASSUME NEW r \in Ranks, NEW j \in Int, j0(r) + j \in 0 .. NY - 1, ~ j \in 0 .. ny_local(r) - 1
    PROVE  \/ /\ j < 0 /\ r > 0 /\ r - 1 \in Ranks
              /\ j0(r - 1) + ny_local(r - 1) = j0(r) /\ Source(r, "up") = r - 1
           \/ /\ j >= ny_local(r) /\ r < NRanks - 1 /\ r + 1 \in Ranks
              /\ j0(r + 1) = j0(r) + ny_local(r) /\ Source(r, "down") = r + 1
<1>1. j0(r) \in Nat /\ ny_local(r) \in Nat /\ r \in Nat BY World
<1>2. CASE j < 0
  <2>1. r # 0 BY <1>1, <1>2, World
  <2>2. r - 1 \in Ranks /\ r > 0 BY <1>1, <2>1, World
  <2>3. j0((r - 1) + 1) = j1(r - 1) BY <1>1, <2>2, World
  <2>4. (r - 1) + 1 = r BY <1>1
  <2>5. j1(r - 1) = j0(r - 1) + ny_local(r - 1) BY <2>2, World
  <2> QED BY <1>2, <2>2, <2>3, <2>4, <2>5 DEF Source
<1>3. CASE j >= ny_local(r)
  <2>1. j1(r) = j0(r) + ny_local(r) BY World
  <2>2. NY \in Nat /\ j1(NRanks - 1) = NY /\ NRanks \in Nat /\ r <= NRanks - 1
    BY World, Sizes
  <2>3. r # NRanks - 1
    <3>1. j0(r) + j >= j0(r) + ny_local(r) BY <1>1, <1>3
    <3>2. j1(r) < NY BY <1>1, <2>1, <2>2, <3>1
    <3>3. r = NRanks - 1 => j1(r) = NY BY <2>2
    <3> QED BY <2>2, <3>2, <3>3
  <2>4. r < NRanks - 1 BY <1>1, <2>2, <2>3
  <2>5. r + 1 \in Ranks BY <1>1, <2>2, <2>4 DEF Ranks
  <2>6. j0(r + 1) = j1(r) BY <2>5, World
  <2> QED BY <1>3, <2>1, <2>4, <2>5, <2>6 DEF Source
<1> QED BY <1>1, <1>2, <1>3

\* The buffers hold what the neighbours sent for the plane.
Delivered(r, e, p, b) == \A d \in Dirs : Receiving(r, d) => Right(Source(r, d), d, e, p, b[d])

\* What unpacking makes of a canvas when the right rows have come.
LEMMA UnpackRight ==
    ASSUME NEW r \in Ranks, NEW e, NEW p, NEW b, NEW c \in [Canvas(r) -> Rows],
           Program[e] \in {"dv", "area"},
           Delivered(r, e, p, b)
    PROVE  /\ UnpackRows(c, r, b) \in [Canvas(r) -> Rows]
           /\ \A j \in Own(r) : UnpackRows(c, r, b)[j] = c[j]
           /\ Thick => \A j \in Canvas(r) \ Own(r) : j0(r) + j \in 0 .. NY - 1 =>
                 UnpackRows(c, r, b)[j] =
                    IF Program[e] = "dv" THEN Row(p, j0(r) + j, VersionAt(e)) ELSE Metric(j0(r) + j)
<1>1. ng = 2 /\ Canvas(r) = -2 .. ny_local(r) + 1 /\ Own(r) = 0 .. ny_local(r) - 1
      /\ Own(r) \subseteq Canvas(r) /\ ny_local(r) \in Nat /\ ny_local(r) >= 1 /\ j0(r) \in Nat
  BY Canvases
<1> DEFINE U == UnpackRows(c, r, b)
<1>2. U = [j \in Canvas(r) |->
             IF j >= ny_local(r) /\ r < NRanks - 1 THEN b["down"][j - ny_local(r)]
             ELSE IF j < 0 /\ r > 0 THEN b["up"][2 + j] ELSE c[j]]
  BY <1>1 DEF UnpackRows, owns_upper_neighbor, owns_lower_neighbor
<1>3. /\ r > 0 => Right(Source(r, "up"), "up", e, p, b["up"])
      /\ r < NRanks - 1 => Right(Source(r, "down"), "down", e, p, b["down"])
  BY Partners DEF Dirs, Delivered
<1>4. /\ r > 0 => b["up"] \in [0 .. 1 -> Rows]
      /\ r < NRanks - 1 => b["down"] \in [0 .. 1 -> Rows]
  BY <1>1, <1>3, RightShape
<1> HIDE DEF U
<1>5. U \in [Canvas(r) -> Rows]
  <2> SUFFICES ASSUME NEW j \in Canvas(r)
               PROVE  (IF j >= ny_local(r) /\ r < NRanks - 1 THEN b["down"][j - ny_local(r)]
                       ELSE IF j < 0 /\ r > 0 THEN b["up"][2 + j] ELSE c[j]) \in Rows
    BY <1>2
  <2>1. j >= ny_local(r) => j - ny_local(r) \in 0 .. 1 BY <1>1
  <2>2. j < 0 => 2 + j \in 0 .. 1 BY <1>1
  <2> QED BY <1>4, <2>1, <2>2
<1>6. \A j \in Own(r) : U[j] = c[j] BY <1>1, <1>2
<1>7. ASSUME Thick, NEW j \in Canvas(r) \ Own(r), j0(r) + j \in 0 .. NY - 1
      PROVE  U[j] = IF Program[e] = "dv" THEN Row(p, j0(r) + j, VersionAt(e)) ELSE Metric(j0(r) + j)
  <2>1. CASE j < 0 /\ r > 0 /\ r - 1 \in Ranks
             /\ j0(r - 1) + ny_local(r - 1) = j0(r) /\ Source(r, "up") = r - 1
    <3>1. U[j] = b["up"][2 + j] /\ 2 + j \in 0 .. 1 BY <1>1, <1>2, <2>1
    <3>2. b["up"] = RowsFor(r - 1, "up", e, p) BY <1>3, <1>7, <2>1 DEF Right
    <3>3. PICK i \in 0 .. 1 : i = 2 + j BY <3>1
    <3>4. RowsFor(r - 1, "up", e, p)[i] =
             IF Program[e] = "dv" THEN Row(p, j0(r - 1) + (ny_local(r - 1) - 2) + i, VersionAt(e))
             ELSE Metric(j0(r - 1) + (ny_local(r - 1) - 2) + i)
      BY <1>1 DEF RowsFor
    <3>5. j0(r - 1) + (ny_local(r - 1) - 2) + i = j0(r) + j
      <4>1. j0(r - 1) \in Nat /\ ny_local(r - 1) \in Nat BY <2>1, World
      <4> QED BY <1>1, <2>1, <3>3, <4>1
    <3> QED BY <3>1, <3>2, <3>3, <3>4, <3>5
  <2>2. CASE j >= ny_local(r) /\ r < NRanks - 1 /\ r + 1 \in Ranks
             /\ j0(r + 1) = j0(r) + ny_local(r) /\ Source(r, "down") = r + 1
    <3>1. U[j] = b["down"][j - ny_local(r)] /\ j - ny_local(r) \in 0 .. 1 BY <1>1, <1>2, <2>2
    <3>2. b["down"] = RowsFor(r + 1, "down", e, p) BY <1>3, <1>7, <2>2 DEF Right
    <3>3. PICK i \in 0 .. 1 : i = j - ny_local(r) BY <3>1
    <3>4. RowsFor(r + 1, "down", e, p)[i] =
             IF Program[e] = "dv" THEN Row(p, j0(r + 1) + 0 + i, VersionAt(e))
             ELSE Metric(j0(r + 1) + 0 + i)
      BY <1>1 DEF RowsFor
    <3>5. j0(r + 1) + 0 + i = j0(r) + j BY <1>1, <2>2, <3>3
    <3> QED BY <3>1, <3>2, <3>3, <3>4, <3>5
  <2>3. j \in Int /\ ~ j \in 0 .. ny_local(r) - 1 BY <1>1
  <2> QED BY <1>7, <2>1, <2>2, <2>3, GhostOwner
<1> QED BY <1>5, <1>6, <1>7 DEF U

LEMMA UnpackFaceRight ==
    ASSUME NEW r \in Ranks, NEW e, NEW p, NEW b, face[r] \in [Canvas(r) -> Rows],
           Program[e] = "face",
           Delivered(r, e, p, b)
    PROVE  /\ UnpackFace(r, b) \in [Canvas(r) -> Rows]
           /\ \A j \in Own(r) : UnpackFace(r, b)[j] = face[r][j]
           /\ Thick => \A j \in {-1, ny_local(r) + 1} : j0(r) + j \in 1 .. NY - 1 =>
                 UnpackFace(r, b)[j] = Metric(j0(r) + j)
<1>1. ng = 2 /\ Canvas(r) = -2 .. ny_local(r) + 1 /\ Own(r) = 0 .. ny_local(r) - 1
      /\ Own(r) \subseteq Canvas(r) /\ ny_local(r) \in Nat /\ ny_local(r) >= 1 /\ j0(r) \in Nat
  BY Canvases
<1> DEFINE U == UnpackFace(r, b)
<1>2. U = [j \in Canvas(r) |->
             IF j = ny_local(r) + 1 /\ r < NRanks - 1 THEN b["down"][0]
             ELSE IF j = -1 /\ r > 0 THEN b["up"][0] ELSE face[r][j]]
  BY <1>1 DEF UnpackFace, owns_upper_neighbor, owns_lower_neighbor
<1>3. /\ r > 0 => Right(Source(r, "up"), "up", e, p, b["up"])
      /\ r < NRanks - 1 => Right(Source(r, "down"), "down", e, p, b["down"])
  BY Partners DEF Dirs, Delivered
<1>4. /\ r > 0 => b["up"] \in [{0} -> Rows]
      /\ r < NRanks - 1 => b["down"] \in [{0} -> Rows]
  BY <1>3 DEF Right, PayloadOf
<1> HIDE DEF U
<1>5. U \in [Canvas(r) -> Rows] BY <1>2, <1>4
<1>6. \A j \in Own(r) : U[j] = face[r][j] BY <1>1, <1>2
<1>7. ASSUME Thick, NEW j \in {-1, ny_local(r) + 1}, j0(r) + j \in 1 .. NY - 1
      PROVE  U[j] = Metric(j0(r) + j)
  <2>0. j \in Int /\ j \in Canvas(r) /\ j0(r) + j \in 0 .. NY - 1 /\ ~ j \in 0 .. ny_local(r) - 1
    <3>1. j = -1 \/ j = ny_local(r) + 1 OBVIOUS
    <3>2. j \in Int /\ j \in Canvas(r) /\ ~ j \in 0 .. ny_local(r) - 1 BY <1>1, <3>1
    <3> QED BY <1>1, <1>7, <3>2, Sizes
  <2>1. CASE j < 0 /\ r > 0 /\ r - 1 \in Ranks
             /\ j0(r - 1) + ny_local(r - 1) = j0(r) /\ Source(r, "up") = r - 1
    <3>1. j = -1 /\ U[j] = b["up"][0] BY <1>1, <1>2, <2>0, <2>1
    <3>2. b["up"] = RowsFor(r - 1, "up", e, p) BY <1>3, <1>7, <2>1 DEF Right
    <3>3. RowsFor(r - 1, "up", e, p)[0] = Metric(j0(r - 1) + (ny_local(r - 1) - 1)) BY DEF RowsFor
    <3>4. j0(r - 1) + (ny_local(r - 1) - 1) = j0(r) + j
      <4>1. j0(r - 1) \in Nat /\ ny_local(r - 1) \in Nat BY <2>1, World
      <4> QED BY <1>1, <2>1, <3>1, <4>1
    <3> QED BY <3>1, <3>2, <3>3, <3>4
  <2>2. CASE j >= ny_local(r) /\ r < NRanks - 1 /\ r + 1 \in Ranks
             /\ j0(r + 1) = j0(r) + ny_local(r) /\ Source(r, "down") = r + 1
    <3>1. j = ny_local(r) + 1 /\ U[j] = b["down"][0] BY <1>1, <1>2, <2>0, <2>2
    <3>2. b["down"] = RowsFor(r + 1, "down", e, p) BY <1>3, <1>7, <2>2 DEF Right
    <3>3. RowsFor(r + 1, "down", e, p)[0] = Metric(j0(r + 1) + 1) BY DEF RowsFor
    <3>4. j0(r + 1) + 1 = j0(r) + j BY <1>1, <2>2, <3>1
    <3> QED BY <3>1, <3>2, <3>3, <3>4
  <2> QED BY <2>0, <2>1, <2>2, GhostOwner
<1> QED BY <1>5, <1>6, <1>7 DEF U

LEMMA EndPlaneRows ==
    ASSUME IInv, NEW r \in Ranks, EndPlane(r)
    PROVE  /\ DOMAIN dv' = Ranks /\ DOMAIN area' = Ranks /\ DOMAIN face' = Ranks
           /\ \A x \in Ranks \ {r} : dv'[x] = dv[x] /\ area'[x] = area[x] /\ face'[x] = face[x]
           /\ DOMAIN dv'[r] = 0 .. NV - 1
           /\ \A v \in 0 .. NV - 1 :
                 /\ dv'[r][v] \in [Canvas(r) -> Rows]
                 /\ \A j \in Own(r) : dv'[r][v][j] = dv[r][v][j]
                 /\ ~ (Kind(r) = "dv" /\ v = plane[r]) => dv'[r][v] = dv[r][v]
                 /\ Thick /\ Kind(r) = "dv" /\ v = plane[r] =>
                       \A j \in Canvas(r) \ Own(r) : j0(r) + j \in 0 .. NY - 1 =>
                           dv'[r][v][j] = Row(v, j0(r) + j, ver[r])
           /\ area'[r] \in [Canvas(r) -> Rows] /\ \A j \in Own(r) : area'[r][j] = area[r][j]
           /\ Kind(r) # "area" => area' = area
           /\ Thick /\ Kind(r) = "area" => AreaTrue(r)'
           /\ face'[r] \in [Canvas(r) -> Rows] /\ \A j \in Own(r) : face'[r][j] = face[r][j]
           /\ Kind(r) # "face" => face' = face
           /\ Thick /\ Kind(r) = "face" => FaceTrue(r)'
<1>1. TypeOK /\ Placed /\ Carried /\ OwnRows BY DEF IInv
<1>2. Exchanging(r) /\ \A d \in Dirs : Receiving(r, d) => d \in GotNow(r) BY <1>1, EndPlaneIs
<1>3. PICK e \in 1 .. Len(Program), p \in 0 .. NV - 1 : e = step[r] /\ p = plane[r]
  BY <1>1, <1>2, OwnSlot
<1>4. PICK b : b = buf[r] OBVIOUS
<1>5. Delivered(r, e, p, b) BY <1>1, <1>2, <1>3, <1>4 DEF Carried, Delivered
<1>6. Kind(r) = Program[e] /\ Program[e] \in {"dv", "face", "area"} /\ ver[r] = VersionAt(e)
  BY <1>1, <1>2, <1>3, ProgramIs DEF Exchanging, Kind, Kinds, OwnRows
<1>7. /\ DOMAIN dv = Ranks /\ DOMAIN face = Ranks /\ DOMAIN area = Ranks
      /\ DOMAIN dv[r] = 0 .. NV - 1
      /\ \A v \in 0 .. NV - 1 : dv[r][v] \in [Canvas(r) -> Rows]
      /\ face[r] \in [Canvas(r) -> Rows] /\ area[r] \in [Canvas(r) -> Rows]
  BY <1>1 DEF TypeOK
<1>8. /\ dv' = IF Program[e] = "dv"
                 THEN [dv EXCEPT ![r][p] = UnpackRows(dv[r][p], r, b)] ELSE dv
      /\ area' = IF Program[e] = "area"
                   THEN [area EXCEPT ![r] = UnpackRows(area[r], r, b)] ELSE area
      /\ face' = IF Program[e] = "face" THEN [face EXCEPT ![r] = UnpackFace(r, b)] ELSE face
  BY <1>3, <1>4, <1>6 DEF EndPlane
<1>9. CASE Program[e] = "dv"
  <2>1. PICK c \in [Canvas(r) -> Rows] : c = dv[r][p] BY <1>7
  <2>2. PICK u : u = UnpackRows(c, r, b) OBVIOUS
  <2>3. /\ u \in [Canvas(r) -> Rows] /\ \A j \in Own(r) : u[j] = c[j]
        /\ Thick => \A j \in Canvas(r) \ Own(r) : j0(r) + j \in 0 .. NY - 1 =>
                        u[j] = Row(p, j0(r) + j, VersionAt(e))
    <3>1. Program[e] \in {"dv", "area"} BY <1>9
    <3>2. /\ UnpackRows(c, r, b) \in [Canvas(r) -> Rows]
          /\ \A j \in Own(r) : UnpackRows(c, r, b)[j] = c[j]
          /\ Thick => \A j \in Canvas(r) \ Own(r) : j0(r) + j \in 0 .. NY - 1 =>
                UnpackRows(c, r, b)[j] =
                   IF Program[e] = "dv" THEN Row(p, j0(r) + j, VersionAt(e)) ELSE Metric(j0(r) + j)
      BY <1>5, <2>1, <3>1, UnpackRight
    <3> QED BY <1>9, <2>2, <3>2
  <2>4. dv' = [dv EXCEPT ![r][p] = u] /\ area' = area /\ face' = face
    BY <1>8, <1>9, <2>1, <2>2
  <2>5. /\ DOMAIN dv' = Ranks /\ \A x \in Ranks \ {r} : dv'[x] = dv[x]
        /\ DOMAIN dv'[r] = 0 .. NV - 1
        /\ dv'[r][p] = u /\ \A v \in 0 .. NV - 1 : v # p => dv'[r][v] = dv[r][v]
    BY <1>7, <2>4
  <2> QED BY <1>3, <1>6, <1>7, <1>9, <2>1, <2>3, <2>4, <2>5
<1>10. CASE Program[e] = "area"
  <2>1. PICK c \in [Canvas(r) -> Rows] : c = area[r] BY <1>7
  <2>2. PICK u : u = UnpackRows(c, r, b) OBVIOUS
  <2>3. /\ u \in [Canvas(r) -> Rows] /\ \A j \in Own(r) : u[j] = c[j]
        /\ Thick => \A j \in Canvas(r) \ Own(r) : j0(r) + j \in 0 .. NY - 1 =>
                        u[j] = Metric(j0(r) + j)
    <3>1. Program[e] \in {"dv", "area"} BY <1>10
    <3>2. /\ UnpackRows(c, r, b) \in [Canvas(r) -> Rows]
          /\ \A j \in Own(r) : UnpackRows(c, r, b)[j] = c[j]
          /\ Thick => \A j \in Canvas(r) \ Own(r) : j0(r) + j \in 0 .. NY - 1 =>
                UnpackRows(c, r, b)[j] =
                   IF Program[e] = "dv" THEN Row(p, j0(r) + j, VersionAt(e)) ELSE Metric(j0(r) + j)
      BY <1>5, <2>1, <3>1, UnpackRight
    <3> QED BY <1>10, <2>2, <3>2
  <2>4. area' = [area EXCEPT ![r] = u] /\ dv' = dv /\ face' = face
    BY <1>8, <1>10, <2>1, <2>2
  <2>5. area'[r] = u /\ DOMAIN area' = Ranks /\ \A x \in Ranks \ {r} : area'[x] = area[x]
    BY <1>7, <2>4
  <2>6. Thick => AreaTrue(r)' BY <2>3, <2>5 DEF AreaTrue
  <2> QED BY <1>6, <1>7, <1>10, <2>1, <2>3, <2>4, <2>5, <2>6
<1>11. CASE Program[e] = "face"
  <2>1. PICK u : u = UnpackFace(r, b) OBVIOUS
  <2>2. /\ u \in [Canvas(r) -> Rows] /\ \A j \in Own(r) : u[j] = face[r][j]
        /\ Thick => \A j \in {-1, ny_local(r) + 1} : j0(r) + j \in 1 .. NY - 1 =>
                        u[j] = Metric(j0(r) + j)
    <3>1. face[r] \in [Canvas(r) -> Rows] BY <1>7
    <3>2. /\ UnpackFace(r, b) \in [Canvas(r) -> Rows]
          /\ \A j \in Own(r) : UnpackFace(r, b)[j] = face[r][j]
          /\ Thick => \A j \in {-1, ny_local(r) + 1} : j0(r) + j \in 1 .. NY - 1 =>
                UnpackFace(r, b)[j] = Metric(j0(r) + j)
      BY <1>5, <1>11, <3>1, UnpackFaceRight
    <3> QED BY <2>1, <3>2
  <2>3. face' = [face EXCEPT ![r] = u] /\ dv' = dv /\ area' = area
    BY <1>8, <1>11, <2>1
  <2>4. face'[r] = u /\ DOMAIN face' = Ranks /\ \A x \in Ranks \ {r} : face'[x] = face[x]
    BY <1>7, <2>3
  <2>5. Thick => FaceTrue(r)' BY <2>2, <2>4 DEF FaceTrue
  <2> QED BY <1>6, <1>7, <1>11, <2>2, <2>3, <2>4, <2>5
<1> QED BY <1>6, <1>9, <1>10, <1>11

\* The canvas after a recomputation.
LEMMA UpdateRows ==
    ASSUME IInv, NEW r \in Ranks, Update(r)
    PROVE  /\ Placed /\ ~ Exchanging(r) /\ plane[r] = 0 /\ Program[step[r]] = "update"
           /\ step[r] \in 1 .. Len(Program) /\ step[r] >= 4
           /\ ver' = [ver EXCEPT ![r] = @ + 1] /\ step' = [step EXCEPT ![r] = @ + 1]
           /\ ver'[r] = VersionAt(step[r] + 1) /\ ver'[r] \in Nat
           /\ DOMAIN dv' = Ranks /\ \A x \in Ranks \ {r} : dv'[x] = dv[x]
           /\ DOMAIN dv'[r] = 0 .. NV - 1
           /\ \A v \in 0 .. NV - 1 :
                 /\ dv'[r][v] \in [Canvas(r) -> Rows]
                 /\ \A j \in Own(r) : dv'[r][v][j] = Row(v, j0(r) + j, ver'[r])
<1>1. TypeOK /\ Placed /\ OwnRows BY DEF IInv
<1>2. ~ Exchanging(r) /\ Running(r) /\ Program[step[r]] = "update"
  BY DEF Update, Exchanging, Kind
<1>3. plane[r] = 0 BY <1>1, <1>2 DEF Placed
<1>4. step[r] \in 1 .. Len(Program) BY <1>1, <1>2, ProgramIs DEF Running, TypeOK
<1>5. ~ step[r] \in {1, 2, 3} BY <1>2, ProgramIs
<1>6. step[r] >= 4 BY <1>4, <1>5, ProgramIs
<1>7. ver' = [ver EXCEPT ![r] = @ + 1] /\ step' = [step EXCEPT ![r] = @ + 1]
      /\ dv' = [dv EXCEPT ![r] = Recomputed(r, ver'[r])]
  BY DEF Update
<1>8. ver'[r] = ver[r] + 1 /\ ver[r] \in Nat BY <1>1, <1>7 DEF TypeOK
<1>9. ver'[r] = VersionAt(step[r] + 1) BY <1>1, <1>2, <1>4, <1>8, VersionOfNext DEF OwnRows
<1>10. PICK n \in Nat : n = ver'[r] BY <1>8
<1>11. DOMAIN dv' = Ranks /\ (\A x \in Ranks \ {r} : dv'[x] = dv[x]) /\ dv'[r] = Recomputed(r, n)
  BY <1>1, <1>7, <1>10 DEF TypeOK
<1>12. ASSUME NEW v \in 0 .. NV - 1
       PROVE  /\ Recomputed(r, n)[v] \in [Canvas(r) -> Rows]
              /\ \A j \in Own(r) : Recomputed(r, n)[v][j] = Row(v, j0(r) + j, n)
  <2>1. Recomputed(r, n)[v] = [j \in Canvas(r) |-> IF j \in Own(r) THEN Row(v, j0(r) + j, n) ELSE NoRow]
    BY DEF Recomputed
  <2>2. \A j \in Own(r) : Row(v, j0(r) + j, n) \in Rows BY RowTypes, Canvases
  <2> QED BY <2>1, <2>2, RowTypes, Canvases
<1>13. DOMAIN Recomputed(r, n) = 0 .. NV - 1 BY DEF Recomputed
<1> QED BY <1>1, <1>2, <1>3, <1>4, <1>6, <1>7, <1>9, <1>10, <1>11, <1>12, <1>13

\* What a step leaves alone.
RowsKept == UNCHANGED <<step, plane, dv, ver, face, area>>

LEMMA KeepRows ==
    ASSUME NEW r \in Ranks,
           Post(r) \/ NextCall(r) \/ \E d \in Dirs : Receive(r, d)
    PROVE  RowsKept
BY DEF Post, NextCall, Receive, RowsKept

LEMMA OwnRowsStep == IInv /\ [Next]_vars => OwnRows'
<1> SUFFICES ASSUME IInv, [Next]_vars PROVE OwnRows' OBVIOUS
<1>1. OwnRows /\ TypeOK /\ Placed BY DEF IInv
<1>2. ASSUME RowsKept PROVE OwnRows' BY <1>1, <1>2 DEF RowsKept, OwnRows
<1>3. ASSUME NEW r \in Ranks, EndPlane(r) PROVE OwnRows'
  <2>1. ver' = ver /\ Advances(r) /\ Others(r) /\ Exchanging(r)
    BY <1>1, <1>3, EndPlaneIs DEF EndPlane
  <2>2. ver[r] = VersionAt(step'[r])
    <3>1. step'[r] = step[r] \/ step'[r] = step[r] + 1 BY <1>1, <2>1 DEF Advances, TypeOK
    <3>2. step[r] \in 1 .. Len(Program) /\ Program[step[r]] # "update"
      BY <1>1, <2>1, OwnSlot DEF Exchanging, Kind
    <3>3. VersionAt(step[r] + 1) = VersionAt(step[r]) BY <3>2, VersionOfNext
    <3> QED BY <1>1, <3>1, <3>3 DEF OwnRows
  <2>3. ASSUME NEW x \in Ranks
        PROVE  /\ ver'[x] = VersionAt(step'[x])
               /\ \A j \in Own(x) :
                   /\ \A v \in 0 .. NV - 1 : dv'[x][v][j] = Row(v, j0(x) + j, ver'[x])
                   /\ area'[x][j] = Metric(j0(x) + j) /\ face'[x][j] = Metric(j0(x) + j)
    <3>1. CASE x = r BY <1>1, <1>3, <2>1, <2>2, <3>1, EndPlaneRows DEF OwnRows
    <3>2. CASE x # r BY <1>1, <1>3, <2>1, <3>2, EndPlaneRows DEF OwnRows, Others
    <3> QED BY <3>1, <3>2
  <2> QED BY <2>3 DEF OwnRows
<1>4. ASSUME NEW r \in Ranks, Update(r) PROVE OwnRows'
  <2>1. area' = area /\ face' = face BY <1>4 DEF Update
  <2>2. ASSUME NEW x \in Ranks
        PROVE  /\ ver'[x] = VersionAt(step'[x])
               /\ \A j \in Own(x) :
                   /\ \A v \in 0 .. NV - 1 : dv'[x][v][j] = Row(v, j0(x) + j, ver'[x])
                   /\ area'[x][j] = Metric(j0(x) + j) /\ face'[x][j] = Metric(j0(x) + j)
    <3>1. step'[r] = step[r] + 1 /\ \A y \in Ranks \ {r} : step'[y] = step[y] /\ ver'[y] = ver[y]
      BY <1>1, <1>4, UpdateRows DEF TypeOK
    <3>2. CASE x = r BY <1>1, <1>4, <2>1, <3>1, <3>2, UpdateRows DEF OwnRows
    <3>3. CASE x # r BY <1>1, <1>4, <2>1, <3>1, <3>3, UpdateRows DEF OwnRows
    <3> QED BY <3>2, <3>3
  <2> QED BY <2>2 DEF OwnRows
<1>5. CASE UNCHANGED vars BY <1>2, <1>5 DEF vars, RowsKept
<1>6. ASSUME NEW r \in Ranks, Post(r) \/ NextCall(r) \/ \E d \in Dirs : Receive(r, d) PROVE OwnRows'
  BY <1>2, <1>6, KeepRows
<1> QED BY <1>3, <1>4, <1>5, <1>6 DEF Next, Rank

\* The ghosts of the planes that are through stay those of the neighbours.
LEMMA UnpackedStep == IInv /\ [Next]_vars => Unpacked'
<1> SUFFICES ASSUME IInv, [Next]_vars, Thick, NEW x \in Ranks, NEW v \in 0 .. NV - 1,
                    \/ Running(x)' /\ Kind(x)' = "dv" /\ v < plane'[x]
                    \/ step'[x] > 1 /\ Program[step'[x] - 1] = "dv"
             PROVE  Fresh(x, v)'
  BY DEF Unpacked, Thick
<1>1. TypeOK /\ Placed /\ Unpacked BY DEF IInv
<1>2. ASSUME step'[x] = step[x], plane'[x] = plane[x], dv'[x] = dv[x], ver'[x] = ver[x]
      PROVE  Fresh(x, v)'
  BY <1>1, <1>2 DEF Unpacked, Fresh, Running, Kind
<1>3. ASSUME RowsKept PROVE Fresh(x, v)' BY <1>2, <1>3 DEF RowsKept
<1>4. ASSUME NEW r \in Ranks, EndPlane(r) PROVE Fresh(x, v)'
  <2>1. ver' = ver /\ Advances(r) /\ Others(r) /\ Exchanging(r)
    BY <1>1, <1>4, EndPlaneIs DEF EndPlane
  <2>2. CASE x # r
    <3>1. dv'[x] = dv[x] BY <1>4, <2>2, EndPlaneRows
    <3> QED BY <1>2, <2>1, <2>2, <3>1 DEF Others
  <2>3. CASE x = r /\ Kind(r) = "dv" /\ v = plane[r]
    <3>1. \A j \in Canvas(r) \ Own(r) : j0(r) + j \in 0 .. NY - 1 =>
             dv'[r][v][j] = Row(v, j0(r) + j, ver[r])
      BY <1>4, <2>3, EndPlaneRows
    <3> QED BY <2>1, <2>3, <3>1 DEF Fresh
  <2>4. CASE x = r /\ ~ (Kind(r) = "dv" /\ v = plane[r])
    <3>1. dv'[r][v] = dv[r][v] BY <1>4, <2>4, EndPlaneRows
    <3>2. step[r] \in Nat /\ plane[r] \in Nat /\ NV \in Nat /\ plane[r] <= NV - 1 /\ v \in Nat
      BY <1>1, Sizes, ProgramIs DEF TypeOK
    <3>3. Fresh(r, v)
      <4>1. CASE plane[r] + 1 < Planes(r)
        <5>1. step'[r] = step[r] /\ plane'[r] = plane[r] + 1 BY <1>1, <2>1, <4>1 DEF Advances, TypeOK
        <5>2. Kind(r) = "dv" BY <1>1, <2>1, <4>1, OwnSlot
        <5>3. v < plane[r] \/ (step[r] > 1 /\ Program[step[r] - 1] = "dv")
          BY <2>4, <3>2, <5>1, <5>2
        <5> QED BY <1>1, <2>1, <5>2, <5>3 DEF Unpacked, Exchanging
      <4>2. CASE ~ (plane[r] + 1 < Planes(r))
        <5>1. step'[r] = step[r] + 1 /\ plane'[r] = 0 BY <1>1, <2>1, <4>2 DEF Advances, TypeOK
        <5>2. Program[step[r]] = "dv" BY <2>4, <3>2, <5>1
        <5>3. Kind(r) = "dv" BY <5>2 DEF Kind
        <5>4. ~ plane[r] + 1 < NV BY <1>1, <2>1, <4>2, <5>3, OwnSlot
        <5>5. v < plane[r] BY <2>4, <3>2, <5>3, <5>4
        <5> QED BY <1>1, <2>1, <5>3, <5>5 DEF Unpacked, Exchanging
      <4> QED BY <4>1, <4>2
    <3> QED BY <2>1, <2>4, <3>1, <3>3 DEF Fresh
  <2> QED BY <2>2, <2>3, <2>4
<1>5. ASSUME NEW r \in Ranks, Update(r) PROVE Fresh(x, v)'
  <2>1. plane' = plane BY <1>5 DEF Update
  <2>2. CASE x = r
    <3>1. step'[r] = step[r] + 1 /\ plane[r] = 0 /\ Program[step[r]] = "update" /\ step[r] \in Nat
      BY <1>1, <1>5, UpdateRows, ProgramIs DEF TypeOK
    <3> QED BY <2>1, <2>2, <3>1
  <2>3. CASE x # r
    <3>1. dv'[x] = dv[x] /\ ver'[x] = ver[x] /\ step'[x] = step[x]
      BY <1>1, <1>5, <2>3, UpdateRows DEF TypeOK
    <3> QED BY <1>2, <2>1, <3>1
  <2> QED BY <2>2, <2>3
<1>6. CASE UNCHANGED vars BY <1>3, <1>6 DEF vars, RowsKept
<1>7. ASSUME NEW r \in Ranks, Post(r) \/ NextCall(r) \/ \E d \in Dirs : Receive(r, d)
      PROVE  Fresh(x, v)'
  BY <1>3, <1>7, KeepRows
<1> QED BY <1>4, <1>5, <1>6, <1>7 DEF Next, Rank

LEMMA TablesStep == IInv /\ [Next]_vars => Tables'
<1> SUFFICES ASSUME IInv, [Next]_vars, Thick, NEW x \in Ranks
             PROVE  (step'[x] > 3 => AreaTrue(x)') /\ (step'[x] > 2 => FaceTrue(x)')
  BY DEF Tables, Thick
<1>1. TypeOK /\ Placed /\ Tables BY DEF IInv
<1>2. step[x] \in Nat BY <1>1, ProgramIs DEF TypeOK
<1> DEFINE Goal == (step'[x] > 3 => AreaTrue(x)') /\ (step'[x] > 2 => FaceTrue(x)')
<1>3. ASSUME step'[x] = step[x], area'[x] = area[x], face'[x] = face[x] PROVE Goal
  BY <1>1, <1>3 DEF Tables, AreaTrue, FaceTrue
<1>4. ASSUME RowsKept PROVE Goal BY <1>3, <1>4 DEF RowsKept
<1>5. ASSUME NEW r \in Ranks, EndPlane(r) PROVE Goal
  <2>1. Advances(r) /\ Others(r) BY <1>1, <1>5, EndPlaneIs
  <2>2. CASE x # r
    <3>1. area'[x] = area[x] /\ face'[x] = face[x] BY <1>5, <2>2, EndPlaneRows
    <3> QED BY <1>3, <2>1, <2>2, <3>1 DEF Others
  <2>3. CASE x = r
    <3>1. step'[x] = step[x] \/ step'[x] = step[x] + 1
      BY <1>1, <2>1, <2>3 DEF Advances, TypeOK
    <3>2. step'[x] > 3 => AreaTrue(x)'
      <4>1. CASE Kind(r) = "area" BY <1>5, <2>3, <4>1, EndPlaneRows
      <4>2. CASE Kind(r) # "area"
        <5>1. area' = area BY <1>5, <4>2, EndPlaneRows
        <5>2. step[x] # 3 BY <2>3, <4>2, ProgramIs DEF Kind
        <5>3. step'[x] > 3 => step[x] > 3 BY <1>2, <3>1, <5>2
        <5> QED BY <1>1, <5>1, <5>3 DEF Tables, AreaTrue
      <4> QED BY <4>1, <4>2
    <3>3. step'[x] > 2 => FaceTrue(x)'
      <4>1. CASE Kind(r) = "face" BY <1>5, <2>3, <4>1, EndPlaneRows
      <4>2. CASE Kind(r) # "face"
        <5>1. face' = face BY <1>5, <4>2, EndPlaneRows
        <5>2. step[x] # 2 BY <2>3, <4>2, ProgramIs DEF Kind
        <5>3. step'[x] > 2 => step[x] > 2 BY <1>2, <3>1, <5>2
        <5> QED BY <1>1, <5>1, <5>3 DEF Tables, FaceTrue
      <4> QED BY <4>1, <4>2
    <3> QED BY <3>2, <3>3
  <2> QED BY <2>2, <2>3
<1>6. ASSUME NEW r \in Ranks, Update(r) PROVE Goal
  <2>1. area' = area /\ face' = face BY <1>6 DEF Update
  <2>2. CASE x = r
    <3>1. step[x] > 3 /\ step[x] > 2
      <4>1. step[x] >= 4 BY <1>6, <2>2, UpdateRows
      <4> QED BY <1>2, <4>1
    <3> QED BY <1>1, <2>1, <3>1 DEF Tables, AreaTrue, FaceTrue
  <2>3. CASE x # r
    <3>1. step'[x] = step[x] BY <1>1, <1>6, <2>3, UpdateRows DEF TypeOK
    <3> QED BY <1>3, <2>1, <3>1
  <2> QED BY <2>2, <2>3
<1>7. CASE UNCHANGED vars BY <1>4, <1>7 DEF vars, RowsKept
<1>8. ASSUME NEW r \in Ranks, Post(r) \/ NextCall(r) \/ \E d \in Dirs : Receive(r, d) PROVE Goal
  BY <1>4, <1>8, KeepRows
<1> QED BY <1>5, <1>6, <1>7, <1>8 DEF Next, Rank

LEMMA CarriedStep == IInv /\ [Next]_vars => Carried'
<1> SUFFICES ASSUME IInv, [Next]_vars, NEW x \in Ranks, NEW f \in Dirs, Receiving(x, f)
             PROVE  /\ \A p \in 0 .. NV - 1 : \A a \in DOMAIN chan'[Source(x, f)][f][p] :
                          LET m == chan'[Source(x, f)][f][p][a]
                          IN  Right(Source(x, f), f, m.step, p, m.rows)
                    /\ f \in GotNow(x)' =>
                          Right(Source(x, f), f, step'[x], plane'[x], buf'[x][f])
  BY DEF Carried, Receiving, Source
<1>1. TypeOK /\ Placed /\ OwnRows /\ Carried /\ Queues BY DEF IInv
<1>2. PICK s \in Ranks : s = Source(x, f) BY Partners
<1> DEFINE Load(q, p) == \A a \in DOMAIN q : Right(s, f, q[a].step, p, q[a].rows)
           Channel == \A p \in 0 .. NV - 1 : Load(chan'[s][f][p], p)
           Buffer == f \in GotNow(x)' => Right(s, f, step'[x], plane'[x], buf'[x][f])
<1>3. SUFFICES Channel /\ Buffer BY <1>2
<1>4. \A p \in 0 .. NV - 1 : Load(chan[s][f][p], p) BY <1>1, <1>2 DEF Carried
<1>5. f \in GotNow(x) => Right(s, f, step[x], plane[x], buf[x][f]) BY <1>1, <1>2 DEF Carried
<1>6. ASSUME GotNow(x)' = GotNow(x), step'[x] = step[x], plane'[x] = plane[x], buf'[x] = buf[x]
      PROVE  Buffer
  BY <1>5, <1>6
<1>7. ASSUME chan' = chan PROVE Channel BY <1>4, <1>7
<1>8. ASSUME NEW r \in Ranks, Post(r) PROVE Channel /\ Buffer
  <2>1. Buffer
    <3>1. op' = op /\ got' = got /\ step' = step /\ plane' = plane /\ buf' = buf
      BY <1>8 DEF Post
    <3> QED BY <1>6, <3>1 DEF GotNow
  <2>2. ASSUME NEW p \in 0 .. NV - 1 PROVE Load(chan'[s][f][p], p)
    <3>1. chan'[s][f][p] =
             IF Posting(r, s, f, p)
               THEN Append(chan[s][f][p], [step |-> step[r], rows |-> Payload(r, f), sync |-> f \in pend'[r]])
               ELSE chan[s][f][p]
      BY <1>1, <1>8, PostIs
    <3>2. CASE ~ Posting(r, s, f, p) BY <1>4, <3>1, <3>2
    <3>3. CASE Posting(r, s, f, p)
      <4>1. PICK q \in Seq(Messages) : q = chan[s][f][p] BY <1>1, ChanType
      <4>2. PICK m : m = [step |-> step[r], rows |-> Payload(r, f), sync |-> f \in pend'[r]]
        OBVIOUS
      <4>0. /\ Len(q) \in Nat /\ DOMAIN q = 1 .. Len(q) /\ DOMAIN Append(q, m) = 1 .. Len(q) + 1
            /\ \A a \in 1 .. Len(q) : Append(q, m)[a] = q[a]
            /\ Append(q, m)[Len(q) + 1] = m
        <5>1. q \in Seq(Messages) BY <4>1
        <5>2. Append(q, m)[Len(q) + 1] = m BY <5>1
        <5> QED BY <5>1, <5>2
      <4>3. PICK longer :
                /\ longer = Append(q, m)
                /\ DOMAIN longer = 1 .. Len(q) + 1 /\ \A a \in 1 .. Len(q) : longer[a] = q[a]
                /\ longer[Len(q) + 1] = m
        BY <4>0
      <4>4. /\ Len(q) \in Nat /\ DOMAIN q = 1 .. Len(q) /\ DOMAIN longer = 1 .. Len(q) + 1
            /\ \A a \in 1 .. Len(q) : longer[a] = q[a]
            /\ longer[Len(q) + 1] = m
        BY <4>0, <4>3
      <4>5. s = r /\ p = plane[r] BY <3>3 DEF Posting
      <4>6. Right(s, f, m.step, p, m.rows)
        <5>1. Exchanging(r) BY <1>1, <1>8, PostIs
        <5>2. Right(r, f, step[r], plane[r], Payload(r, f)) BY <1>1, <5>1, PayloadRight
        <5> QED BY <4>2, <4>5, <5>2
      <4>7. Load(q, p) BY <1>4, <4>1
      <4>8. Load(longer, p)
        <5> SUFFICES ASSUME NEW a \in 1 .. Len(q) + 1
                     PROVE  Right(s, f, longer[a].step, p, longer[a].rows)
          BY <4>4
        <5>1. CASE a \in 1 .. Len(q) BY <4>4, <4>7, <5>1
        <5>2. CASE a = Len(q) + 1 BY <4>4, <4>6, <5>2
        <5> QED BY <4>4, <5>1, <5>2
      <4>9. chan'[s][f][p] = longer BY <3>1, <3>3, <4>1, <4>2, <4>3
      <4> HIDE DEF Load
      <4> QED BY <4>8, <4>9
    <3> QED BY <3>2, <3>3
  <2> QED BY <2>1, <2>2
<1>9. ASSUME NEW r \in Ranks, NEW d \in Dirs, Receive(r, d) PROVE Channel /\ Buffer
  <2>1. /\ Exchanging(r) /\ posted[r] /\ d \in Current(r).recvs \ got[r] /\ Others(r)
        /\ Receiving(r, d)
        /\ chan[Source(r, d)][d][plane[r]] # << >>
        /\ buf' = [buf EXCEPT ![r][d] = Head(chan[Source(r, d)][d][plane[r]]).rows]
        /\ UNCHANGED <<step, plane, op, posted>>
        /\ GotNow(r)' = GotNow(r) \cup {d}
    BY <1>1, <1>9, ReceiveIs
  <2>2. \A p \in 0 .. NV - 1 :
           chan'[s][f][p] = IF Taking(r, d, s, f, p) THEN Tail(chan[s][f][p]) ELSE chan[s][f][p]
    BY <1>1, <1>9, ReceiveIs
  <2>3. ASSUME NEW p \in 0 .. NV - 1 PROVE Load(chan'[s][f][p], p)
    <3>1. CASE ~ Taking(r, d, s, f, p) BY <1>4, <2>2, <3>1
    <3>2. CASE Taking(r, d, s, f, p)
      <4>1. PICK q \in Seq(Messages) : q = chan[s][f][p] BY <1>1, ChanType
      <4>2. PICK rest : rest = Tail(q) OBVIOUS
      <4>3. q # << >> BY <2>1, <3>2, <4>1 DEF Taking
      <4>4. /\ Len(q) \in Nat \ {0} /\ DOMAIN q = 1 .. Len(q) /\ DOMAIN rest = 1 .. Len(q) - 1
            /\ \A a \in 1 .. Len(q) - 1 : rest[a] = q[a + 1] /\ a + 1 \in DOMAIN q
        BY <4>1, <4>2, <4>3
      <4>5. Load(q, p) BY <1>4, <4>1
      <4>6. Load(rest, p) BY <4>4, <4>5
      <4>7. chan'[s][f][p] = rest BY <2>2, <3>2, <4>1, <4>2
      <4> HIDE DEF Load
      <4> QED BY <4>6, <4>7
    <3> QED BY <3>1, <3>2
  <2>4. Buffer
    <3>1. CASE x # r
      <4>1. buf'[x] = buf[x] BY <1>1, <2>1, <3>1 DEF TypeOK
      <4>2. GotNow(x)' = GotNow(x) BY <2>1, <3>1 DEF Others, GotNow
      <4> QED BY <1>6, <2>1, <4>1, <4>2
    <3>2. CASE x = r /\ f # d
      <4>1. buf'[x][f] = buf[x][f] BY <1>1, <2>1, <3>2 DEF TypeOK
      <4>2. f \in GotNow(x)' => f \in GotNow(x) BY <2>1, <3>2
      <4> QED BY <1>5, <2>1, <4>1, <4>2
    <3>3. CASE x = r /\ f = d
      <4>1. PICK p \in 0 .. NV - 1 : p = plane[r] BY <1>1 DEF TypeOK
      <4>2. PICK q \in Seq(Messages) : q = chan[s][f][p] BY <1>1, ChanType
      <4>3. q # << >> /\ Head(q).step = step[r]
        BY <1>1, <1>2, <2>1, <3>3, <4>1, <4>2, Matches
      <4>4. 1 \in DOMAIN q /\ Head(q) = q[1] BY <4>2, <4>3
      <4>5. Load(q, p) BY <1>4, <4>2
      <4>6. Right(s, f, step[r], p, Head(q).rows) BY <4>3, <4>4, <4>5
      <4>7. buf'[x][f] = Head(q).rows
        <5>1. buf' = [buf EXCEPT ![r][d] = Head(q).rows]
          BY <1>2, <2>1, <3>3, <4>1, <4>2
        <5>2. buf \in [Ranks -> [Dirs -> Payloads]] BY <1>1 DEF TypeOK
        <5> QED BY <3>3, <5>1, <5>2
      <4> QED BY <2>1, <3>3, <4>1, <4>6, <4>7
    <3> QED BY <3>1, <3>2, <3>3
  <2> QED BY <2>3, <2>4
<1>10. ASSUME NEW r \in Ranks, NextCall(r) PROVE Channel /\ Buffer
  <2>1. chan' = chan /\ buf' = buf /\ step' = step /\ plane' = plane
    BY <1>10 DEF NextCall
  <2>2. CASE x = r
    <3>1. Exchanging(r) BY <1>1, <1>10 DEF NextCall, Finished, Placed
    <3>2. op[r] = 1 /\ got[r] = {"up"}
      BY <1>1, <1>10, <3>1, Hands DEF NextCall, Finished
    <3>3. op'[r] = 2 /\ got'[r] = {} BY <1>1, <1>10, <3>2 DEF NextCall, TypeOK
    <3>4. GotNow(x)' = GotNow(x) BY <2>2, <3>2, <3>3 DEF GotNow
    <3> QED BY <1>6, <1>7, <2>1, <3>4
  <2>3. CASE x # r
    <3>1. op'[x] = op[x] /\ got'[x] = got[x] BY <1>1, <1>10, <2>3 DEF NextCall, TypeOK
    <3> QED BY <1>6, <1>7, <2>1, <3>1 DEF GotNow
  <2> QED BY <2>2, <2>3
<1>11. ASSUME NEW r \in Ranks, EndPlane(r) PROVE Channel /\ Buffer
  <2>1. Others(r) /\ op'[r] = 1 /\ got'[r] = {} BY <1>1, <1>11, EndPlaneIs
  <2>2. chan' = chan /\ buf' = buf BY <1>11 DEF EndPlane
  <2>3. CASE x = r
    <3>1. GotNow(x)' = {} BY <2>1, <2>3 DEF GotNow
    <3> QED BY <1>7, <2>2, <3>1
  <2>4. CASE x # r BY <1>6, <1>7, <2>1, <2>2, <2>4 DEF Others, GotNow
  <2> QED BY <2>3, <2>4
<1>12. ASSUME NEW r \in Ranks, Update(r) PROVE Channel /\ Buffer
  <2>1. chan' = chan /\ buf' = buf /\ op' = op /\ got' = got /\ plane' = plane
    BY <1>12 DEF Update
  <2>2. CASE x = r
    <3>1. ~ Exchanging(r) BY <1>12, UpdateRows
    <3>2. op[r] = 1 /\ got[r] = {} BY <1>1, <3>1 DEF Placed
    <3>3. GotNow(x)' = {} BY <2>1, <2>2, <3>2 DEF GotNow
    <3> QED BY <1>7, <2>1, <3>3
  <2>3. CASE x # r
    <3>1. step'[x] = step[x] BY <1>1, <1>12, <2>3 DEF Update, TypeOK
    <3> QED BY <1>6, <1>7, <2>1, <3>1 DEF GotNow
  <2> QED BY <2>2, <2>3
<1>13. CASE UNCHANGED vars
  <2>1. GotNow(x)' = GotNow(x) BY <1>13 DEF vars, GotNow
  <2> QED BY <1>6, <1>7, <1>13, <2>1 DEF vars
<1> QED BY <1>8, <1>9, <1>10, <1>11, <1>12, <1>13 DEF Next, Rank

LEMMA PlacedStep == IInv /\ [Next]_vars => Placed'
<1> SUFFICES ASSUME IInv, [Next]_vars, NEW x \in Ranks
             PROVE  /\ Exchanging(x)' => plane'[x] < Planes(x)' /\ op'[x] <= Len(Calls(x)')
                    /\ ~ Exchanging(x)' => plane'[x] = 0 /\ op'[x] = 1 /\ ~ posted'[x]
                    /\ got'[x] # {} => posted'[x] /\ got'[x] \subseteq Current(x).recvs'
  BY DEF Placed
<1>1. TypeOK /\ Placed BY DEF IInv
<1> DEFINE Goal == /\ Exchanging(x)' => plane'[x] < Planes(x)' /\ op'[x] <= Len(Calls(x)')
                   /\ ~ Exchanging(x)' => plane'[x] = 0 /\ op'[x] = 1 /\ ~ posted'[x]
                   /\ got'[x] # {} => posted'[x] /\ got'[x] \subseteq Current(x).recvs'
<1>2. ASSUME step'[x] = step[x]
      PROVE  Exchanging(x)' = Exchanging(x) /\ Planes(x)' = Planes(x) /\ Calls(x)' = Calls(x)
  BY <1>2 DEF Exchanging, Running, Kind, Planes, Calls
<1>3. ASSUME step'[x] = step[x], op'[x] = op[x] PROVE Current(x)' = Current(x)
  BY <1>2, <1>3 DEF Current
<1>4. ASSUME step'[x] = step[x], plane'[x] = plane[x], op'[x] = op[x],
             posted'[x] = posted[x], got'[x] = got[x]
      PROVE  Goal
  BY <1>1, <1>2, <1>3, <1>4 DEF Placed
<1>5. ASSUME NEW r \in Ranks, Others(r), x # r PROVE Goal BY <1>4, <1>5 DEF Others
<1>6. ASSUME NEW r \in Ranks, Post(r) PROVE Goal
  <2>1. Exchanging(r) /\ Others(r) BY <1>1, <1>6, PostIs
  <2>2. CASE x = r
    <3>1. step' = step /\ plane' = plane /\ op' = op /\ got' = got /\ posted'[r]
      BY <1>1, <1>6 DEF Post, TypeOK
    <3> QED BY <1>1, <1>2, <1>3, <2>1, <2>2, <3>1 DEF Placed
  <2> QED BY <1>5, <2>1, <2>2
<1>7. ASSUME NEW r \in Ranks, NEW d \in Dirs, Receive(r, d) PROVE Goal
  <2>1. Exchanging(r) /\ Others(r) /\ posted[r] /\ d \in Current(r).recvs BY <1>1, <1>7, ReceiveIs
  <2>2. CASE x = r
    <3>1. step' = step /\ plane' = plane /\ op' = op /\ posted' = posted /\ got'[r] = got[r] \cup {d}
      BY <1>1, <1>7 DEF Receive, TypeOK
    <3>2. got[r] \subseteq Current(r).recvs BY <1>1 DEF Placed
    <3>3. got'[x] \subseteq Current(x).recvs' BY <1>3, <2>1, <2>2, <3>1, <3>2
    <3>4. Exchanging(x)' /\ plane'[x] < Planes(x)' /\ op'[x] <= Len(Calls(x)')
      BY <1>1, <1>2, <2>1, <2>2, <3>1 DEF Placed
    <3> QED BY <2>1, <2>2, <3>1, <3>3, <3>4
  <2> QED BY <1>5, <2>1, <2>2
<1>8. ASSUME NEW r \in Ranks, NextCall(r) PROVE Goal
  <2>1. Exchanging(r) BY <1>1, <1>8 DEF NextCall, Finished, Placed
  <2>2. op[r] = 1 /\ Len(Calls(r)) = 2 BY <1>1, <1>8, <2>1, Hands DEF NextCall
  <2>3. Others(r) BY <1>1, <1>8 DEF NextCall, Others, TypeOK
  <2>4. CASE x = r
    <3>1. step' = step /\ plane' = plane /\ op'[r] = 2 /\ got'[r] = {}
      BY <1>1, <1>8, <2>2 DEF NextCall, TypeOK
    <3>2. Exchanging(x)' /\ Planes(x)' = Planes(x) /\ Calls(x)' = Calls(x)
      BY <1>2, <2>1, <2>4, <3>1
    <3>3. plane'[x] < Planes(x)'
      <4>1. plane[r] < Planes(r) BY <1>1, <2>1 DEF Placed
      <4> QED BY <2>4, <3>1, <3>2, <4>1
    <3>4. op'[x] <= Len(Calls(x)')
      <4>1. PICK n : n = Len(Calls(r)) OBVIOUS
      <4>2. Len(Calls(x)') = n BY <2>4, <3>2, <4>1
      <4> QED BY <2>2, <2>4, <3>1, <4>1, <4>2
    <3> QED BY <2>4, <3>1, <3>2, <3>3, <3>4
  <2> QED BY <1>5, <2>3, <2>4
<1>9. ASSUME NEW r \in Ranks, EndPlane(r) PROVE Goal
  <2>1. Exchanging(r) /\ Advances(r) /\ Others(r) /\ op'[r] = 1 /\ ~ posted'[r] /\ got'[r] = {}
    BY <1>1, <1>9, EndPlaneIs
  <2>2. CASE x = r
    <3>1. op'[x] <= Len(Calls(x)')
      <4>1. PICK n : n = Len(Calls(x)') OBVIOUS
      <4>2. n = 1 \/ n = 2 BY <4>1, SomeCall
      <4> QED BY <2>1, <2>2, <4>1, <4>2
    <3>2. plane'[x] < Planes(x)' /\ (~ Exchanging(x)' => plane'[x] = 0)
      <4>1. CASE plane[r] + 1 < Planes(r)
        <5>1. plane'[r] = plane[r] + 1 /\ step'[r] = step[r] BY <1>1, <2>1, <4>1 DEF Advances, TypeOK
        <5> QED BY <1>2, <2>1, <2>2, <4>1, <5>1
      <4>2. CASE ~ (plane[r] + 1 < Planes(r))
        <5>1. plane'[r] = 0 BY <1>1, <2>1, <4>2 DEF Advances, TypeOK
        <5> QED BY <2>2, <5>1, Sizes DEF Planes
      <4> QED BY <4>1, <4>2
    <3> QED BY <2>1, <2>2, <3>1, <3>2
  <2> QED BY <1>5, <2>1, <2>2
<1>10. ASSUME NEW r \in Ranks, Update(r) PROVE Goal
  <2>1. Others(r) BY <1>1, <1>10 DEF Update, Others, TypeOK
  <2>2. CASE x = r
    <3>1. ~ Exchanging(r) BY <1>10, UpdateRows
    <3>2. plane[r] = 0 /\ op[r] = 1 /\ ~ posted[r] /\ got[r] = {} BY <1>1, <3>1 DEF Placed
    <3>3. plane' = plane /\ op' = op /\ posted' = posted /\ got' = got BY <1>10 DEF Update
    <3>4. Len(Calls(x)') \in {1, 2} BY SomeCall
    <3>5. 0 < Planes(x)' BY Sizes DEF Planes
    <3> QED BY <2>2, <3>2, <3>3, <3>4, <3>5
  <2> QED BY <1>5, <2>1, <2>2
<1>11. CASE UNCHANGED vars BY <1>4, <1>11 DEF vars
<1> QED BY <1>6, <1>7, <1>8, <1>9, <1>10, <1>11 DEF Next, Rank

LEMMA QueuesStep == IInv /\ [Next]_vars => Queues' /\ Causal'
<1> SUFFICES ASSUME IInv, [Next]_vars PROVE Queues' /\ Causal' OBVIOUS
<1>1. TypeOK /\ Placed /\ Queues /\ Causal BY DEF IInv
<1>2. ASSUME NEW r \in Ranks, Post(r) PROVE Queues' /\ Causal' BY <1>1, <1>2, PostQueues
<1>3. ASSUME NEW r \in Ranks, NEW d \in Dirs, Receive(r, d) PROVE Queues' /\ Causal'
  BY <1>1, <1>3, ReceiveQueues
<1>4. ASSUME NEW r \in Ranks, NextCall(r) PROVE Queues' /\ Causal'
  <2>1. chan' = chan BY <1>4 DEF NextCall
  <2> QED BY <1>1, <1>4, <2>1, NextCallKeeps, QueuesKept
<1>5. ASSUME NEW r \in Ranks, EndPlane(r) PROVE Queues' /\ Causal'
  <2>1. chan' = chan BY <1>5 DEF EndPlane
  <2> QED BY <1>1, <1>5, <2>1, EndPlaneKeeps, QueuesKept
<1>6. ASSUME NEW r \in Ranks, Update(r) PROVE Queues' /\ Causal'
  <2>1. chan' = chan BY <1>6 DEF Update
  <2> QED BY <1>1, <1>6, <2>1, UpdateKeeps, QueuesKept
<1>7. CASE UNCHANGED vars
  <2>1. chan' = chan BY <1>7 DEF vars
  <2>2. SlotsKept
    BY <1>7 DEF SlotsKept, vars, Sent, Got, Behind, SentNow, GotNow, Current, Calls, Kind
  <2> QED BY <1>1, <2>1, <2>2, QueuesKept
<1> QED BY <1>2, <1>3, <1>4, <1>5, <1>6, <1>7 DEF Next, Rank

\* The canvases keep their shape.
Shapes ==
    /\ DOMAIN dv = Ranks /\ DOMAIN face = Ranks /\ DOMAIN area = Ranks
    /\ \A r \in Ranks :
        /\ DOMAIN dv[r] = 0 .. NV - 1
        /\ \A v \in 0 .. NV - 1 : dv[r][v] \in [Canvas(r) -> Rows]
        /\ face[r] \in [Canvas(r) -> Rows] /\ area[r] \in [Canvas(r) -> Rows]

LEMMA ShapesStep == IInv /\ [Next]_vars => Shapes'
<1> SUFFICES ASSUME IInv, [Next]_vars PROVE Shapes' OBVIOUS
<1>1. TypeOK /\ Shapes BY DEF IInv, TypeOK, Shapes
<1>2. ASSUME RowsKept PROVE Shapes' BY <1>1, <1>2 DEF RowsKept, Shapes
<1>3. ASSUME NEW r \in Ranks, EndPlane(r) PROVE Shapes'
  <2>1. ASSUME NEW x \in Ranks
        PROVE  /\ DOMAIN dv'[x] = 0 .. NV - 1
               /\ \A v \in 0 .. NV - 1 : dv'[x][v] \in [Canvas(x) -> Rows]
               /\ face'[x] \in [Canvas(x) -> Rows] /\ area'[x] \in [Canvas(x) -> Rows]
    <3>1. CASE x = r BY <1>3, <3>1, EndPlaneRows
    <3>2. CASE x # r BY <1>1, <1>3, <3>2, EndPlaneRows DEF Shapes
    <3> QED BY <3>1, <3>2
  <2>2. DOMAIN dv' = Ranks /\ DOMAIN face' = Ranks /\ DOMAIN area' = Ranks
    BY <1>3, EndPlaneRows
  <2> QED BY <2>1, <2>2 DEF Shapes
<1>4. ASSUME NEW r \in Ranks, Update(r) PROVE Shapes'
  <2>1. area' = area /\ face' = face BY <1>4 DEF Update
  <2>2. ASSUME NEW x \in Ranks
        PROVE  /\ DOMAIN dv'[x] = 0 .. NV - 1
               /\ \A v \in 0 .. NV - 1 : dv'[x][v] \in [Canvas(x) -> Rows]
    <3>1. CASE x = r BY <1>4, <3>1, UpdateRows
    <3>2. CASE x # r BY <1>1, <1>4, <3>2, UpdateRows DEF Shapes
    <3> QED BY <3>1, <3>2
  <2>3. DOMAIN dv' = Ranks BY <1>4, UpdateRows
  <2> QED BY <1>1, <2>1, <2>2, <2>3 DEF Shapes
<1>5. CASE UNCHANGED vars BY <1>2, <1>5 DEF vars, RowsKept
<1>6. ASSUME NEW r \in Ranks, Post(r) \/ NextCall(r) \/ \E d \in Dirs : Receive(r, d) PROVE Shapes'
  BY <1>2, <1>6, KeepRows
<1> QED BY <1>3, <1>4, <1>5, <1>6 DEF Next, Rank

LEMMA PayloadKinds == \A e : PayloadOf(e) \subseteq Payloads
BY DEF PayloadOf, Payloads

\* The types that do not depend on the rank.
Cells ==
    /\ step \in [Ranks -> 1 .. Len(Program) + 1]
    /\ plane \in [Ranks -> 0 .. NV - 1]
    /\ op \in [Ranks -> {1, 2}]
    /\ posted \in [Ranks -> BOOLEAN]
    /\ got \in [Ranks -> SUBSET Dirs]
    /\ buf \in [Ranks -> [Dirs -> Payloads]]
    /\ chan \in [Ranks -> [Dirs -> [0 .. NV - 1 -> Seq(Messages)]]]
    /\ ver \in [Ranks -> Nat]

LEMMA CellsStep == IInv /\ [Next]_vars => Cells'
<1> SUFFICES ASSUME IInv, [Next]_vars PROVE Cells' OBVIOUS
<1>1. TypeOK /\ Placed /\ Cells /\ OwnRows BY DEF IInv, TypeOK, Cells
<1>2. ASSUME NEW r \in Ranks, Post(r) PROVE Cells'
  <2>1. UNCHANGED <<step, plane, op, got, buf, ver>> /\ posted' = [posted EXCEPT ![r] = TRUE]
    BY <1>2 DEF Post
  <2>2. chan' \in [Ranks -> [Dirs -> [0 .. NV - 1 -> Seq(Messages)]]]
    <3>1. PICK at \in [Dirs -> [0 .. NV - 1 -> Seq(Messages)]] : at = chan[r]
      BY <1>1 DEF Cells
    <3>2. Exchanging(r) BY <1>1, <1>2, PostIs
    <3>3. step[r] \in Nat BY <1>1, ProgramIs DEF Cells
    <3> DEFINE m(d) == [step |-> step[r], rows |-> Payload(r, d), sync |-> d \in pend'[r]]
    <3>4. ASSUME NEW d \in Dirs PROVE m(d) \in Messages
      <4>1. Right(r, d, step[r], plane[r], Payload(r, d)) BY <1>1, <3>2, PayloadRight
      <4>2. Payload(r, d) \in Payloads BY <4>1, PayloadKinds DEF Right
      <4> QED BY <3>3, <4>2 DEF Messages
    <3>5. chan' = [chan EXCEPT ![r] = [d \in Dirs |-> [p \in 0 .. NV - 1 |->
             IF d \in Current(r).sends /\ p = plane[r]
               THEN Append(at[d][p], m(d)) ELSE at[d][p]]]]
      BY <1>2, <3>1 DEF Post
    <3> HIDE DEF m
    <3>6. [d \in Dirs |-> [p \in 0 .. NV - 1 |->
             IF d \in Current(r).sends /\ p = plane[r]
               THEN Append(at[d][p], m(d)) ELSE at[d][p]]]
          \in [Dirs -> [0 .. NV - 1 -> Seq(Messages)]]
      <4> SUFFICES ASSUME NEW d \in Dirs, NEW p \in 0 .. NV - 1
                   PROVE  /\ at[d][p] \in Seq(Messages)
                          /\ Append(at[d][p], m(d)) \in Seq(Messages)
        OBVIOUS
      <4>1. at[d][p] \in Seq(Messages) BY <3>1
      <4> QED BY <3>4, <4>1
    <3> QED BY <1>1, <3>5, <3>6 DEF Cells
  <2> QED BY <1>1, <2>1, <2>2 DEF Cells
<1>3. ASSUME NEW r \in Ranks, NEW d \in Dirs, Receive(r, d) PROVE Cells'
  <2>1. /\ Receiving(r, d) /\ chan[Source(r, d)][d][plane[r]] # << >>
        /\ buf' = [buf EXCEPT ![r][d] = Head(chan[Source(r, d)][d][plane[r]]).rows]
        /\ got' = [got EXCEPT ![r] = @ \cup {d}]
        /\ UNCHANGED <<step, plane, op, posted>>
    BY <1>1, <1>3, ReceiveIs
  <2>2. ver' = ver BY <1>3 DEF Receive
  <2>3. PICK s \in Ranks, p \in 0 .. NV - 1 : s = Source(r, d) /\ p = plane[r]
    BY <1>1, <2>1, Partners DEF Cells
  <2>4. PICK q \in Seq(Messages) : q = chan[s][d][p] BY <1>1, ChanType
  <2>5. q # << >> BY <2>1, <2>3, <2>4
  <2>6. Head(q) \in Messages /\ Tail(q) \in Seq(Messages) BY <2>4, <2>5
  <2>7. Head(q).rows \in Payloads BY <2>6 DEF Messages
  <2>8. chan' = [chan EXCEPT ![s][d][p] = Tail(q)] BY <1>3, <2>3, <2>4 DEF Receive
  <2>9. buf' = [buf EXCEPT ![r][d] = Head(q).rows] BY <2>1, <2>3, <2>4
  <2>10. chan' \in [Ranks -> [Dirs -> [0 .. NV - 1 -> Seq(Messages)]]]
    BY <1>1, <2>6, <2>8 DEF Cells
  <2>11. buf' \in [Ranks -> [Dirs -> Payloads]] BY <1>1, <2>7, <2>9 DEF Cells
  <2>12. got' \in [Ranks -> SUBSET Dirs] BY <1>1, <2>1 DEF Cells
  <2> QED BY <1>1, <2>1, <2>2, <2>10, <2>11, <2>12 DEF Cells
<1>4. ASSUME NEW r \in Ranks, NextCall(r) PROVE Cells'
  <2>1. Exchanging(r) BY <1>1, <1>4 DEF NextCall, Finished, Placed
  <2>2. op[r] = 1 BY <1>1, <1>4, <2>1, Hands DEF NextCall
  <2> QED BY <1>1, <1>4, <2>2 DEF NextCall, Cells
<1>5. ASSUME NEW r \in Ranks, EndPlane(r) PROVE Cells'
  <2>1. Exchanging(r) /\ Advances(r) BY <1>1, <1>5, EndPlaneIs
  <2>2. step[r] \in 1 .. Len(Program) /\ plane[r] \in 0 .. NV - 1 /\ NV \in Nat \ {0}
        /\ Len(Program) \in Nat
    BY <1>1, <2>1, OwnSlot, Sizes, ProgramIs
  <2>3. step' \in [Ranks -> 1 .. Len(Program) + 1] /\ plane' \in [Ranks -> 0 .. NV - 1]
    <3>1. CASE plane[r] + 1 < Planes(r)
      <4>1. plane[r] + 1 < NV BY <1>1, <2>1, <3>1, OwnSlot
      <4>2. plane[r] + 1 \in 0 .. NV - 1 BY <2>2, <4>1
      <4> QED BY <1>1, <2>1, <3>1, <4>2 DEF Advances, Cells
    <3>2. CASE ~ (plane[r] + 1 < Planes(r))
      <4>1. step[r] + 1 \in 1 .. Len(Program) + 1 /\ 0 \in 0 .. NV - 1 BY <2>2
      <4> QED BY <1>1, <2>1, <3>2, <4>1 DEF Advances, Cells
    <3> QED BY <3>1, <3>2
  <2> QED BY <1>1, <1>5, <2>3 DEF EndPlane, Cells
<1>6. ASSUME NEW r \in Ranks, Update(r) PROVE Cells'
  <2>1. step[r] \in 1 .. Len(Program) /\ ver' = [ver EXCEPT ![r] = @ + 1]
        /\ step' = [step EXCEPT ![r] = @ + 1] /\ Len(Program) \in Nat
    BY <1>6, UpdateRows, ProgramIs
  <2>2. step[r] + 1 \in 1 .. Len(Program) + 1 BY <2>1
  <2>3. step' \in [Ranks -> 1 .. Len(Program) + 1] BY <1>1, <2>1, <2>2 DEF Cells
  <2>4. ver' \in [Ranks -> Nat] BY <1>1, <2>1 DEF Cells
  <2>5. UNCHANGED <<plane, op, posted, got, buf, chan>> BY <1>6 DEF Update
  <2> QED BY <1>1, <2>3, <2>4, <2>5 DEF Cells
<1>7. CASE UNCHANGED vars BY <1>1, <1>7 DEF vars, Cells
<1> QED BY <1>2, <1>3, <1>4, <1>5, <1>6, <1>7 DEF Next, Rank

LEMMA InvInit == Init => IInv
<1> SUFFICES ASSUME Init PROVE IInv OBVIOUS
<1>1. /\ step = [r \in Ranks |-> 1] /\ plane = [r \in Ranks |-> 0] /\ op = [r \in Ranks |-> 1]
      /\ posted = [r \in Ranks |-> FALSE] /\ got = [r \in Ranks |-> {}]
      /\ buf = [r \in Ranks |-> [d \in Dirs |-> [g \in 0 .. ng - 1 |-> NoRow]]]
      /\ chan = [r \in Ranks |-> [d \in Dirs |-> [t \in 0 .. NV - 1 |-> << >>]]]
      /\ dv = [r \in Ranks |-> Recomputed(r, 0)] /\ ver = [r \in Ranks |-> 0]
      /\ face = [r \in Ranks |-> LocalMetrics(r)] /\ area = [r \in Ranks |-> LocalMetrics(r)]
  BY DEF Init
<1>2. Len(Program) \in Nat /\ Len(Program) >= 3 /\ NV \in Nat \ {0} BY ProgramIs, Sizes
<1>3. VersionAt(1) = 0 BY DEF VersionAt
<1>4. ASSUME NEW r \in Ranks
      PROVE  /\ DOMAIN dv[r] = 0 .. NV - 1
             /\ \A v \in 0 .. NV - 1 :
                   dv[r][v] \in [Canvas(r) -> Rows] /\ \A j \in Own(r) : dv[r][v][j] = Row(v, j0(r) + j, 0)
  <2>1. dv[r] = Recomputed(r, 0) BY <1>1
  <2> SUFFICES ASSUME NEW v \in 0 .. NV - 1
               PROVE  /\ Recomputed(r, 0)[v] \in [Canvas(r) -> Rows]
                      /\ \A j \in Own(r) : Recomputed(r, 0)[v][j] = Row(v, j0(r) + j, 0)
    BY <2>1 DEF Recomputed
  <2>2. Recomputed(r, 0)[v] = [j \in Canvas(r) |-> IF j \in Own(r) THEN Row(v, j0(r) + j, 0) ELSE NoRow]
    BY DEF Recomputed
  <2>3. \A j \in Own(r) : Row(v, j0(r) + j, 0) \in Rows BY RowTypes, Canvases
  <2> QED BY <2>2, <2>3, RowTypes, Canvases
<1>5. ASSUME NEW r \in Ranks
      PROVE  /\ face[r] = LocalMetrics(r) /\ area[r] = LocalMetrics(r)
             /\ LocalMetrics(r) \in [Canvas(r) -> Rows]
             /\ \A j \in Own(r) : LocalMetrics(r)[j] = Metric(j0(r) + j)
  <2>1. LocalMetrics(r) = [j \in Canvas(r) |-> Metric(j0(r) + Clamped(j, r))] BY DEF LocalMetrics
  <2>2. \A j \in Canvas(r) : Clamped(j, r) \in Int BY Canvases DEF Clamped
  <2>3. \A j \in Own(r) : Clamped(j, r) = j /\ j \in Canvas(r) BY Canvases DEF Clamped
  <2>4. \A j \in Canvas(r) : Metric(j0(r) + Clamped(j, r)) \in Rows BY <2>2, RowTypes, Canvases
  <2> QED BY <1>1, <2>1, <2>3, <2>4
<1>6. TypeOK
  <2>1. buf \in [Ranks -> [Dirs -> Payloads]] BY <1>1, RowTypes DEF Payloads
  <2>2. chan \in [Ranks -> [Dirs -> [0 .. NV - 1 -> Seq(Messages)]]] BY <1>1
  <2>3. /\ step \in [Ranks -> 1 .. Len(Program) + 1] /\ plane \in [Ranks -> 0 .. NV - 1]
        /\ op \in [Ranks -> {1, 2}] /\ posted \in [Ranks -> BOOLEAN]
        /\ got \in [Ranks -> SUBSET Dirs] /\ ver \in [Ranks -> Nat]
    BY <1>1, <1>2
  <2>4. DOMAIN dv = Ranks /\ DOMAIN face = Ranks /\ DOMAIN area = Ranks BY <1>1
  <2> QED BY <1>4, <1>5, <2>1, <2>2, <2>3, <2>4 DEF TypeOK
<1>7. ASSUME NEW r \in Ranks
      PROVE  /\ Exchanging(r) /\ step[r] = 1 /\ plane[r] = 0 /\ op[r] = 1
             /\ ~ posted[r] /\ got[r] = {} /\ SentNow(r) = {} /\ GotNow(r) = {}
  BY <1>1, <1>2, ProgramIs DEF Exchanging, Running, Kind, SentNow, GotNow
<1>8. Placed
  <2> SUFFICES ASSUME NEW r \in Ranks PROVE 0 < Planes(r) /\ 1 <= Len(Calls(r))
    BY <1>7 DEF Placed
  <2>1. PICK n : n = Len(Calls(r)) OBVIOUS
  <2>2. n = 1 \/ n = 2 BY <2>1, CallsAre
  <2>3. 1 <= Len(Calls(r)) BY <2>1, <2>2
  <2> QED BY <2>3, Sizes DEF Planes
<1>9. ASSUME NEW r \in Ranks, NEW d, NEW e, NEW p, IsSlot(e, p)
      PROVE  ~ Sent(r, d, e, p) /\ ~ Got(r, d, e, p)
  <2>1. ~ Behind(r, e, p) BY <1>7, <1>9, ProgramIs, Sizes DEF Behind, IsSlot
  <2> QED BY <1>7, <2>1 DEF Sent, Got
<1>10. Queues /\ Causal
  <2>1. Causal BY <1>9 DEF Causal
  <2>2. ASSUME NEW r \in Ranks, NEW d \in Dirs, Receiving(r, d), NEW p \in 0 .. NV - 1
        PROVE  InFlight(Source(r, d), r, d, p)
    <3>1. PICK s \in Ranks : s = Source(r, d) BY <2>2, Partners
    <3>2. chan[s][d][p] = << >> BY <1>1
    <3>3. DOMAIN chan[s][d][p] = {}
      <4>1. DOMAIN << >> = {} OBVIOUS
      <4> QED BY <3>2, <4>1
    <3>4. \A e : ~ Due(s, r, d, e, p) BY <1>9 DEF Due
    <3> QED BY <3>1, <3>3, <3>4 DEF InFlight, Ordered
  <2> QED BY <2>1, <2>2 DEF Queues
<1>11. OwnRows BY <1>1, <1>3, <1>4, <1>5 DEF OwnRows
<1>12. Carried
  <2> SUFFICES ASSUME NEW r \in Ranks, NEW d \in Dirs, Receiving(r, d)
               PROVE  /\ \A p \in 0 .. NV - 1 : DOMAIN chan[Source(r, d)][d][p] = {}
                      /\ d \notin GotNow(r)
    BY DEF Carried
  <2>1. PICK s \in Ranks : s = Source(r, d) BY Partners
  <2>2. \A p \in 0 .. NV - 1 : chan[s][d][p] = << >> BY <1>1
  <2>3. DOMAIN << >> = {} OBVIOUS
  <2> QED BY <1>7, <2>1, <2>2, <2>3
<1>13. Unpacked
  <2> SUFFICES ASSUME NEW r \in Ranks, NEW v \in 0 .. NV - 1
               PROVE  ~ v < plane[r] /\ ~ step[r] > 1
    BY DEF Unpacked
  <2> QED BY <1>7, Sizes
<1>14. Tables BY <1>7 DEF Tables
<1> QED BY <1>6, <1>8, <1>10, <1>11, <1>12, <1>13, <1>14 DEF IInv

(* The inductive invariant of the exchanges.                                  *)
LEMMA InvariantAlways == Spec => []IInv
<1>1. IInv /\ [Next]_vars => IInv'
  <2> SUFFICES ASSUME IInv, [Next]_vars PROVE IInv' OBVIOUS
  <2>1. TypeOK'
    <3>1. Shapes' /\ Cells' BY ShapesStep, CellsStep
    <3> QED BY <3>1 DEF TypeOK, Shapes, Cells
  <2> QED BY <2>1, PlacedStep, QueuesStep, OwnRowsStep, CarriedStep, UnpackedStep, TablesStep DEF IInv
<1> QED BY <1>1, InvInit, PTL DEF Spec

(* Every receive is handed the message its source sent in the same exchange,  *)
(* whatever the number of ranks, planes and stages and however far a          *)
(* neighbour is ahead: the tags repeat, the order of the calls does not.      *)
THEOREM MatchesOwnExchangeAlways == Spec => []MatchesOwnExchange
<1>1. IInv => MatchesOwnExchange
  <2> SUFFICES ASSUME IInv, NEW r \in Ranks, NEW d \in Dirs,
                      posted[r], d \in Current(r).recvs \ got[r],
                      chan[Source(r, d)][d][plane[r]] # << >>
               PROVE  Head(chan[Source(r, d)][d][plane[r]]).step = step[r]
    BY DEF MatchesOwnExchange
  <2>1. TypeOK /\ Placed /\ Queues BY DEF IInv
  <2> QED BY <2>1, Matches
<1> QED BY <1>1, InvariantAlways, PTL

(* When exchange(dv_) returns, the ghost rows are the neighbours' own rows,   *)
(* of the same plane and version, on every grid whose slabs are as thick as   *)
(* the ghosts.                                                                *)
THEOREM GhostsFreshAlways ==
    ASSUME \A r \in Ranks : ny_local(r) >= ng
    PROVE  Spec => []GhostsFresh
<1>1. Thick BY DEF Thick
<1>2. IInv => GhostsFresh BY <1>1 DEF IInv, Unpacked, Fresh, GhostsFresh, Returned
<1> QED BY <1>2, InvariantAlways, PTL

(* Once their exchanges have returned, the areas of the ghosts and the face   *)
(* slots beside the slab are the neighbours', on the same grids.              *)
THEOREM TablesTrueAlways ==
    ASSUME \A r \in Ranks : ny_local(r) >= ng
    PROVE  Spec => []TablesTrue
<1>1. Thick BY DEF Thick
<1>2. IInv => TablesTrue
  <2> SUFFICES ASSUME IInv, NEW r \in Ranks
               PROVE  /\ step[r] > 3 => \A j \in Canvas(r) :
                            j0(r) + j \in 0 .. NY - 1 => area[r][j] = Metric(j0(r) + j)
                      /\ step[r] > 2 => \A j \in {-1, ny_local(r) + 1} :
                            j0(r) + j \in 1 .. NY - 1 => face[r][j] = Metric(j0(r) + j)
    BY DEF TablesTrue
  <2>1. (step[r] > 3 => AreaTrue(r)) /\ (step[r] > 2 => FaceTrue(r)) BY <1>1 DEF IInv, Tables
  <2>2. \A j \in Own(r) : area[r][j] = Metric(j0(r) + j) BY DEF IInv, OwnRows
  <2> QED BY <2>1, <2>2 DEF AreaTrue, FaceTrue
<1> QED BY <1>2, InvariantAlways, PTL

------------------------------------------------------------------------------
\* The exchanges of dv_ before a position of the program, in closed form.
ExchangesBefore(n) == IF n = 1 THEN 0 ELSE IF n <= 4 THEN 1 ELSE (n - 2) \div 2

LEMMA DvStarts == DvBefore[1] = 0
<1>1. 1 \in 1 .. Len(Program) + 1 BY ProgramIs
<1>2. DvBefore[1] = Cardinality({s \in 1 .. 1 - 1 : Program[s] = "dv"}) BY <1>1 DEF DvBefore
<1>3. {s \in 1 .. 1 - 1 : Program[s] = "dv"} = {} OBVIOUS
<1> QED BY <1>2, <1>3, FS_EmptySet

LEMMA DvGoesOn ==
    ASSUME NEW n \in 1 .. Len(Program)
    PROVE  /\ DvBefore[n] \in Nat
           /\ DvBefore[n + 1] = DvBefore[n] + (IF Program[n] = "dv" THEN 1 ELSE 0)
<1> DEFINE S(k) == {s \in 1 .. k - 1 : Program[s] = "dv"}
<1>1. n \in Nat /\ n >= 1 /\ n \in 1 .. Len(Program) + 1 /\ n + 1 \in 1 .. Len(Program) + 1
  BY ProgramIs
<1>2. DvBefore[n] = Cardinality(S(n)) /\ DvBefore[n + 1] = Cardinality(S(n + 1))
  BY <1>1 DEF DvBefore
<1>3. IsFiniteSet(S(n))
  <2>1. IsFiniteSet(1 .. n - 1) BY <1>1, FS_Interval
  <2>2. S(n) \subseteq 1 .. n - 1 OBVIOUS
  <2> QED BY <2>1, <2>2, FS_Subset
<1>4. S(n + 1) = IF Program[n] = "dv" THEN S(n) \cup {n} ELSE S(n) BY <1>1
<1>5. n \notin S(n) BY <1>1
<1> HIDE DEF S
<1>6. Cardinality(S(n)) \in Nat BY <1>3, FS_CardinalityType
<1>7. Cardinality(S(n) \cup {n}) = Cardinality(S(n)) + 1 BY <1>3, <1>5, FS_AddElement
<1> QED BY <1>2, <1>4, <1>6, <1>7

LEMMA BeforeNext ==
    ASSUME NEW n \in 1 .. Len(Program)
    PROVE  /\ ExchangesBefore(n) \in Nat
           /\ ExchangesBefore(n + 1) = ExchangesBefore(n) + (IF Program[n] = "dv" THEN 1 ELSE 0)
           /\ Program[n] = "dv" => ExchangesBefore(n) = VersionAt(n) /\ ExchangesBefore(n) <= Stages
<1>1. n \in Nat /\ n >= 1 /\ n <= 3 + 2 * Stages /\ Stages \in Nat BY ProgramIs, Sizes
<1>2. CASE n <= 3
  <2>1. n = 1 \/ n = 2 \/ n = 3 BY <1>1, <1>2
  <2> QED BY <1>1, <2>1, ProgramIs DEF ExchangesBefore, VersionAt
<1>3. CASE n > 3
  <2>1. n \in 4 .. Len(Program) BY <1>1, <1>3, ProgramIs
  <2>2. Program[n] = IF n % 2 = 0 THEN "update" ELSE "dv" BY <2>1, ProgramIs
  <2>3. CASE n = 4 BY <1>1, <2>2, <2>3 DEF ExchangesBefore
  <2>4. CASE n # 4
    <3>1. ExchangesBefore(n) = (n - 2) \div 2 /\ ExchangesBefore(n + 1) = (n - 1) \div 2
          /\ VersionAt(n) = (n - 3) \div 2
      BY <1>1, <1>3, <2>4 DEF ExchangesBefore, VersionAt
    <3>2. CASE n % 2 = 0
      <4>1. (n - 2) \div 2 \in Nat /\ (n - 1) \div 2 = (n - 2) \div 2 BY <1>1, <1>3, <3>2
      <4> QED BY <2>2, <3>1, <3>2, <4>1
    <3>3. CASE n % 2 # 0
      <4>1. (n - 2) \div 2 \in Nat /\ (n - 1) \div 2 = (n - 2) \div 2 + 1
            /\ (n - 3) \div 2 = (n - 2) \div 2
        BY <1>1, <1>3, <3>3
      <4>2. (n - 2) \div 2 <= Stages BY <1>1, <1>3
      <4> QED BY <2>2, <3>1, <3>3, <4>1, <4>2
    <3> QED BY <3>2, <3>3
  <2> QED BY <2>3, <2>4
<1> QED BY <1>1, <1>2, <1>3

\* The exchanges a rank has come back from; an invariant by induction over the run.
Counted == \A r \in Ranks : DvBefore[step[r]] = ExchangesBefore(step[r])

LEMMA CountedAlways == Spec => []Counted
<1>1. Init => Counted BY DvStarts DEF Init, Counted, ExchangesBefore
<1>2. IInv /\ Counted /\ [Next]_vars => Counted'
  <2> SUFFICES ASSUME IInv, Counted, [Next]_vars, NEW x \in Ranks
               PROVE  DvBefore[step'[x]] = ExchangesBefore(step'[x])
    BY DEF Counted
  <2>1. TypeOK /\ Placed BY DEF IInv
  <2>2. ASSUME step'[x] = step[x] PROVE DvBefore[step'[x]] = ExchangesBefore(step'[x])
    BY <2>2 DEF Counted
  <2>3. ASSUME step[x] \in 1 .. Len(Program), step'[x] = step[x] + 1
        PROVE  DvBefore[step'[x]] = ExchangesBefore(step'[x])
    BY <2>3, DvGoesOn, BeforeNext DEF Counted
  <2>4. ASSUME RowsKept PROVE step'[x] = step[x] BY <2>4 DEF RowsKept
  <2>5. ASSUME NEW r \in Ranks, EndPlane(r)
        PROVE  step'[x] = step[x] \/ (step[x] \in 1 .. Len(Program) /\ step'[x] = step[x] + 1)
    <3>1. Exchanging(r) /\ Advances(r) BY <2>1, <2>5, EndPlaneIs
    <3>2. step[r] \in 1 .. Len(Program) BY <2>1, <3>1, OwnSlot
    <3> QED BY <2>1, <3>1, <3>2 DEF Advances, TypeOK
  <2>6. ASSUME NEW r \in Ranks, Update(r)
        PROVE  step'[x] = step[x] \/ (step[x] \in 1 .. Len(Program) /\ step'[x] = step[x] + 1)
    BY <2>1, <2>6, UpdateRows DEF TypeOK
  <2>7. step'[x] = step[x] \/ (step[x] \in 1 .. Len(Program) /\ step'[x] = step[x] + 1)
    <3>1. CASE UNCHANGED vars BY <3>1 DEF vars
    <3>2. ASSUME NEW r \in Ranks, Post(r) \/ NextCall(r) \/ \E d \in Dirs : Receive(r, d)
          PROVE  step'[x] = step[x]
      BY <2>4, <3>2, KeepRows
    <3> QED BY <2>5, <2>6, <3>1, <3>2 DEF Next, Rank
  <2> QED BY <2>2, <2>3, <2>7
<1> QED BY <1>1, <1>2, InvariantAlways, PTL DEF Spec

------------------------------------------------------------------------------
\* What the exchange looks like from outside.
Begun(r) == DvBefore[step[r]] + (IF InDvExchange(r) THEN 1 ELSE 0)
Done(r)  == DvBefore[step[r]]
Ghost(r) == [g \in GhostRows(r) |-> GhostVersion(r, g)]
Held(r, n) == [g \in GhostRows(r) |-> n]

LEMMA SameWorld ==
    /\ GS!Ranks = Ranks
    /\ \A r \in Ranks : /\ GS!HaloRows(r) = GhostRows(r)
                        /\ GS!Neighbours(r) = Neighbours(r)
                        /\ \A n : GS!Holds(r, n) = Held(r, n)
<1>1. GS!Ranks = Ranks BY DEF GS!Ranks, Ranks
<1>2. GS!decomp = decomp
  BY <1>1 DEF GS!decomp, decomp, GS!make, make, GS!first, first, GS!before, before,
            GS!extra, extra, GS!base, base, GS!rem, rem
<1>3. ASSUME NEW r \in Ranks PROVE GS!HaloRows(r) = GhostRows(r)
  <2>1. GS!j0(r) = j0(r) /\ GS!j1(r) = j1(r) BY <1>2 DEF GS!j0, j0, GS!j1, j1
  <2>2. GS!HaloRows(r) = {g \in 0 .. NY - 1 : g \in j0(r) - 2 .. j0(r) - 1 \/ g \in j1(r) .. j1(r) + 1}
    BY <2>1 DEF GS!HaloRows
  <2>3. j0(r) \in Nat /\ j1(r) = j0(r) + ny_local(r) /\ ny_local(r) \in Nat BY World
  <2>4. Canvas(r) = -2 .. ny_local(r) + 1 /\ Own(r) = 0 .. ny_local(r) - 1 BY Canvases
  <2>5. GhostRows(r) = {g \in 0 .. NY - 1 : \E j \in Canvas(r) \ Own(r) : g = j0(r) + j}
    BY DEF GhostRows
  <2>6. ASSUME NEW g \in 0 .. NY - 1
        PROVE  (\E j \in Canvas(r) \ Own(r) : g = j0(r) + j)
                  <=> (g \in j0(r) - 2 .. j0(r) - 1 \/ g \in j1(r) .. j1(r) + 1)
    <3>1. g \in Int BY Sizes
    <3>2. (g \in j0(r) - 2 .. j0(r) - 1 \/ g \in j1(r) .. j1(r) + 1)
             => g - j0(r) \in Canvas(r) \ Own(r) /\ g = j0(r) + (g - j0(r))
      BY <2>3, <2>4, <3>1
    <3>3. ASSUME NEW j \in Canvas(r) \ Own(r), g = j0(r) + j
          PROVE  g \in j0(r) - 2 .. j0(r) - 1 \/ g \in j1(r) .. j1(r) + 1
      BY <2>3, <2>4, <3>1, <3>3
    <3> QED BY <3>2, <3>3
  <2> QED BY <2>2, <2>5, <2>6
<1>4. \A r \in Ranks : GS!Neighbours(r) = Neighbours(r) BY <1>1 DEF GS!Neighbours, Neighbours
<1> QED BY <1>1, <1>3, <1>4 DEF GS!Holds, Held


LEMMA AbstractInit ==
    ASSUME Init
    PROVE  GS!Init
<1>1. ASSUME NEW r \in Ranks
      PROVE  Begun(r) = 0 /\ Done(r) = 0 /\ Ghost(r) = Held(r, -1)
  <2>1. step[r] = 1 /\ plane[r] = 0 /\ op[r] = 1 /\ ~ posted[r] BY DEF Init
  <2>2. ~ InDvExchange(r) /\ ~ Returned(r, "dv") BY <2>1 DEF InDvExchange, Returned
  <2>3. DvBefore[step[r]] = 0 BY <2>1, DvStarts
  <2>4. \A g : GhostVersion(r, g) = -1 BY <2>2 DEF GhostVersion
  <2> QED BY <2>2, <2>3, <2>4 DEF Begun, Done, Ghost, Held
<1>2. [r \in Ranks |-> Begun(r)] = [r \in Ranks |-> 0] BY <1>1
<1>3. [r \in Ranks |-> Done(r)] = [r \in Ranks |-> 0] BY <1>1
<1>4. [r \in Ranks |-> Ghost(r)] = [r \in Ranks |-> Held(r, -1)] BY <1>1
<1>5. [r \in Ranks |-> Held(r, -1)] = [r \in GS!Ranks |-> GS!Holds(r, GS!Invalid)]
  BY SameWorld DEF GS!Invalid
<1> QED BY <1>2, <1>3, <1>4, <1>5, SameWorld DEF GS!Init, Begun, Done, Ghost

LEMMA AbstractStutter ==
    ASSUME \A x \in Ranks : Begun(x)' = Begun(x) /\ Done(x)' = Done(x) /\ Ghost(x)' = Ghost(x)
    PROVE  UNCHANGED GS!vars
<1>1. [r \in Ranks |-> Begun(r)'] = [r \in Ranks |-> Begun(r)] OBVIOUS
<1>2. [r \in Ranks |-> Done(r)'] = [r \in Ranks |-> Done(r)] OBVIOUS
<1>3. [r \in Ranks |-> Ghost(r)'] = [r \in Ranks |-> Ghost(r)] OBVIOUS
<1> QED BY <1>1, <1>2, <1>3 DEF GS!vars, Begun, Done, Ghost

LEMMA AbstractBegin ==
    ASSUME NEW r \in Ranks, Begun(r) = Done(r), Done(r) < Stages + 1,
           Begun(r)' = Begun(r) + 1, Ghost(r)' = Held(r, -1),
           \A x \in Ranks : Done(x)' = Done(x),
           \A x \in Ranks \ {r} : Begun(x)' = Begun(x) /\ Ghost(x)' = Ghost(x)
    PROVE  GS!Begin(r)
<1>1. [x \in Ranks |-> Begun(x)'] = [[x \in Ranks |-> Begun(x)] EXCEPT ![r] = @ + 1] OBVIOUS
<1>2. [x \in Ranks |-> Done(x)'] = [x \in Ranks |-> Done(x)] OBVIOUS
<1>3. [x \in Ranks |-> Ghost(x)'] = [[x \in Ranks |-> Ghost(x)] EXCEPT ![r] = Held(r, -1)] OBVIOUS
<1>4. GS!Holds(r, GS!Invalid) = Held(r, -1) BY SameWorld DEF GS!Invalid
<1> QED BY <1>1, <1>2, <1>3, <1>4 DEF GS!Begin, Begun, Done, Ghost

LEMMA AbstractComplete ==
    ASSUME NEW r \in Ranks, Begun(r) = Done(r) + 1,
           \A n \in Neighbours(r) : Begun(n) >= Begun(r),
           Done(r)' = Done(r) + 1, Ghost(r)' = Held(r, Done(r)),
           \A x \in Ranks : Begun(x)' = Begun(x),
           \A x \in Ranks \ {r} : Done(x)' = Done(x) /\ Ghost(x)' = Ghost(x)
    PROVE  GS!Complete(r)
<1>1. [x \in Ranks |-> Done(x)'] = [[x \in Ranks |-> Done(x)] EXCEPT ![r] = @ + 1] OBVIOUS
<1>2. [x \in Ranks |-> Begun(x)'] = [x \in Ranks |-> Begun(x)] OBVIOUS
<1>3. [x \in Ranks |-> Ghost(x)'] = [[x \in Ranks |-> Ghost(x)] EXCEPT ![r] = Held(r, Done(r))]
  OBVIOUS
<1>4. GS!Holds(r, Done(r)) = Held(r, Done(r)) BY SameWorld
<1>5. \A n \in GS!Neighbours(r) : [x \in Ranks |-> Begun(x)][n] >= [x \in Ranks |-> Begun(x)][r]
  BY SameWorld DEF Neighbours
<1> QED BY <1>1, <1>2, <1>3, <1>4, <1>5 DEF GS!Complete, Begun, Done, Ghost

LEMMA AbstractRecompute ==
    ASSUME NEW r \in Ranks, Begun(r) = Done(r), Ghost(r)' = Held(r, -1),
           \A x \in Ranks : Begun(x)' = Begun(x) /\ Done(x)' = Done(x),
           \A x \in Ranks \ {r} : Ghost(x)' = Ghost(x)
    PROVE  GS!Recompute(r)
<1>1. [x \in Ranks |-> Begun(x)'] = [x \in Ranks |-> Begun(x)] OBVIOUS
<1>2. [x \in Ranks |-> Done(x)'] = [x \in Ranks |-> Done(x)] OBVIOUS
<1>3. [x \in Ranks |-> Ghost(x)'] = [[x \in Ranks |-> Ghost(x)] EXCEPT ![r] = Held(r, -1)] OBVIOUS
<1>4. GS!Holds(r, GS!Invalid) = Held(r, -1) BY SameWorld DEF GS!Invalid
<1> QED BY <1>1, <1>2, <1>3, <1>4 DEF GS!Recompute, Begun, Done, Ghost

LEMMA ViewKept ==
    ASSUME NEW x \in Ranks, step'[x] = step[x], plane'[x] = plane[x], op'[x] = op[x],
           posted'[x] = posted[x], dv'[x] = dv[x]
    PROVE  Begun(x)' = Begun(x) /\ Done(x)' = Done(x) /\ Ghost(x)' = Ghost(x)
<1>1. InDvExchange(x)' = InDvExchange(x) /\ Returned(x, "dv")' = Returned(x, "dv")
  BY DEF InDvExchange, Returned, Running, Kind
<1>2. \A g : GhostVersion(x, g)' = GhostVersion(x, g) BY <1>1 DEF GhostVersion
<1>3. DvBefore' = DvBefore BY DEF DvBefore
<1> QED BY <1>1, <1>2, <1>3 DEF Begun, Done, Ghost

LEMMA NothingHeld ==
    ASSUME NEW x \in Ranks
    PROVE  /\ ~ Returned(x, "dv") => Ghost(x) = Held(x, -1)
           /\ ~ Returned(x, "dv")' => Ghost(x)' = Held(x, -1)
BY DEF Ghost, GhostVersion, Held

LEMMA PostImplements ==
    ASSUME IInv, Counted, NEW r \in Ranks, Post(r)
    PROVE  GS!Begin(r) \/ GS!Recompute(r) \/ UNCHANGED GS!vars
<1>1. TypeOK /\ Placed BY DEF IInv
<1>2. Exchanging(r) /\ ~ posted[r] /\ Others(r) BY <1>1, PostIs
<1>3. step' = step /\ plane' = plane /\ op' = op /\ dv' = dv /\ posted'[r]
  BY <1>1 DEF Post, TypeOK
<1>4. \A x \in Ranks \ {r} : Begun(x)' = Begun(x) /\ Done(x)' = Done(x) /\ Ghost(x)' = Ghost(x)
  BY <1>2, <1>3, ViewKept DEF Others
<1>5. DvBefore' = DvBefore BY DEF DvBefore
<1>6. Done(r)' = Done(r) BY <1>3, <1>5 DEF Done
<1>7. Ghost(r)' = Held(r, -1)
  <2>1. ~ Returned(r, "dv")' BY <1>3 DEF Returned
  <2> QED BY <2>1, NothingHeld
<1>8. step[r] \in 1 .. Len(Program) /\ Done(r) = ExchangesBefore(step[r]) /\ Done(r) \in Nat
  BY <1>1, <1>2, OwnSlot, BeforeNext DEF Done, Counted
<1>9. CASE Kind(r) = "dv" /\ ~ InDvExchange(r)
  <2>1. InDvExchange(r)' BY <1>2, <1>3, <1>9 DEF InDvExchange, Exchanging, Running, Kind
  <2>2. Begun(r) = Done(r) /\ Begun(r)' = Begun(r) + 1
    BY <1>3, <1>5, <1>8, <1>9, <2>1 DEF Begun, Done
  <2>3. Done(r) < Stages + 1 BY <1>8, <1>9, BeforeNext, Sizes DEF Kind
  <2> QED BY <1>4, <1>6, <1>7, <2>2, <2>3, AbstractBegin
<1>10. CASE Kind(r) = "dv" /\ InDvExchange(r)
  <2>1. InDvExchange(r)' BY <1>2, <1>3, <1>10 DEF InDvExchange, Exchanging, Running, Kind
  <2>2. Begun(r)' = Begun(r) BY <1>3, <1>5, <1>10, <2>1 DEF Begun
  <2>3. ~ Returned(r, "dv")
    <3>1. plane[r] > 0 \/ op[r] > 1 BY <1>2, <1>10 DEF InDvExchange
    <3> QED BY <1>1, <3>1 DEF Returned
  <2>4. Ghost(r)' = Ghost(r) BY <1>7, <2>3, NothingHeld
  <2> QED BY <1>4, <1>6, <2>2, <2>4, AbstractStutter
<1>11. CASE Kind(r) # "dv"
  <2>1. ~ InDvExchange(r) /\ ~ InDvExchange(r)' BY <1>3, <1>11 DEF InDvExchange, Kind
  <2>2. Begun(r) = Done(r) /\ Begun(r)' = Begun(r) BY <1>3, <1>5, <1>8, <2>1 DEF Begun, Done
  <2> QED BY <1>4, <1>6, <1>7, <2>2, AbstractRecompute
<1> QED BY <1>9, <1>10, <1>11

LEMMA ReceiveImplements ==
    ASSUME IInv, NEW r \in Ranks, NEW d \in Dirs, Receive(r, d)
    PROVE  UNCHANGED GS!vars
<1>1. \A x \in Ranks : Begun(x)' = Begun(x) /\ Done(x)' = Done(x) /\ Ghost(x)' = Ghost(x)
  BY ViewKept DEF Receive
<1> QED BY <1>1, AbstractStutter

LEMMA NextCallImplements ==
    ASSUME IInv, NEW r \in Ranks, NextCall(r)
    PROVE  UNCHANGED GS!vars
<1>1. TypeOK /\ Placed BY DEF IInv
<1>2. Exchanging(r) /\ posted[r] BY <1>1 DEF NextCall, Finished, Placed
<1>3. op[r] = 1 BY <1>1, <1>2, Hands DEF NextCall
<1>4. step' = step /\ plane' = plane /\ op'[r] = 2 /\ dv' = dv
      /\ \A x \in Ranks \ {r} : op'[x] = op[x] /\ posted'[x] = posted[x]
  BY <1>1, <1>3 DEF NextCall, TypeOK
<1>5. \A x \in Ranks \ {r} : Begun(x)' = Begun(x) /\ Done(x)' = Done(x) /\ Ghost(x)' = Ghost(x)
  BY <1>4, ViewKept
<1>6. DvBefore' = DvBefore BY DEF DvBefore
<1>7. InDvExchange(r)' = InDvExchange(r) BY <1>2, <1>4 DEF InDvExchange, Running, Kind
<1>8. ~ Returned(r, "dv") /\ ~ Returned(r, "dv")' BY <1>2, <1>4 DEF Returned
<1>9. Begun(r)' = Begun(r) /\ Done(r)' = Done(r) BY <1>4, <1>6, <1>7 DEF Begun, Done
<1>10. Ghost(r)' = Ghost(r) BY <1>8, NothingHeld
<1> QED BY <1>5, <1>9, <1>10, AbstractStutter

LEMMA UpdateImplements ==
    ASSUME IInv, NEW r \in Ranks, Update(r)
    PROVE  GS!Recompute(r)
<1>1. TypeOK /\ Placed BY DEF IInv
<1>2. /\ ~ Exchanging(r) /\ plane[r] = 0 /\ Program[step[r]] = "update"
      /\ step[r] \in 1 .. Len(Program) /\ step' = [step EXCEPT ![r] = @ + 1]
      /\ \A x \in Ranks \ {r} : dv'[x] = dv[x]
  BY UpdateRows
<1>3. op[r] = 1 /\ ~ posted[r] BY <1>1, <1>2 DEF Placed
<1>4. plane' = plane /\ op' = op /\ posted' = posted BY DEF Update
<1>5. step'[r] = step[r] + 1 /\ \A x \in Ranks \ {r} : step'[x] = step[x]
  BY <1>1, <1>2 DEF TypeOK
<1>6. \A x \in Ranks \ {r} : Begun(x)' = Begun(x) /\ Done(x)' = Done(x) /\ Ghost(x)' = Ghost(x)
  BY <1>2, <1>4, <1>5, ViewKept
<1>7. ~ InDvExchange(r) /\ ~ InDvExchange(r)'
  BY <1>2, <1>3, <1>4 DEF InDvExchange
<1>8. DvBefore[step[r]] \in Nat /\ DvBefore[step[r] + 1] = DvBefore[step[r]]
  <2>1. DvBefore[step[r]] \in Nat
        /\ DvBefore[step[r] + 1] = DvBefore[step[r]] + (IF Program[step[r]] = "dv" THEN 1 ELSE 0)
    BY <1>2, DvGoesOn
  <2>2. Program[step[r]] # "dv" BY <1>2
  <2> QED BY <2>1, <2>2
<1>9. DvBefore' = DvBefore BY DEF DvBefore
<1>10. Done(r)' = Done(r) /\ Begun(r) = Done(r) /\ Begun(r)' = Begun(r)
  BY <1>5, <1>7, <1>8, <1>9 DEF Begun, Done
<1>11. Ghost(r)' = Held(r, -1)
  <2>1. step'[r] - 1 = step[r] BY <1>2, <1>5, ProgramIs
  <2>2. ~ Returned(r, "dv")' BY <1>2, <2>1 DEF Returned
  <2> QED BY <2>2, NothingHeld
<1> QED BY <1>6, <1>10, <1>11, AbstractRecompute

\* A neighbour that has sent for the last plane of an exchange has entered it.
LEMMA NeighbourEntered ==
    ASSUME IInv, Counted, NEW r \in Ranks, Exchanging(r), Kind(r) = "dv", ~ plane[r] + 1 < NV,
           NEW n \in Ranks, NEW d \in Dirs, Sent(n, d, step[r], plane[r])
    PROVE  Begun(n) >= Done(r) + 1
<1>1. TypeOK /\ Placed BY DEF IInv
<1>2. PICK e \in 1 .. Len(Program) : e = step[r] BY <1>1, OwnSlot
<1>3. Program[e] = "dv" BY <1>2 DEF Kind
<1>4. Done(r) = ExchangesBefore(e) /\ Done(r) \in Nat BY <1>2, BeforeNext DEF Done, Counted
<1>5. step[n] \in 1 .. Len(Program) + 1 /\ e \in Nat /\ step[n] \in Nat
  BY <1>1, ProgramIs DEF TypeOK
<1>6. Done(n) = ExchangesBefore(step[n]) BY DEF Done, Counted
<1>7. CASE e < step[n]
  <2>1. ExchangesBefore(e + 1) = Done(r) + 1 BY <1>3, <1>4, BeforeNext
  <2>2. ExchangesBefore(step[n]) >= ExchangesBefore(e + 1)
    BY <1>5, <1>7 DEF ExchangesBefore
  <2>3. Done(n) >= Done(r) + 1 BY <1>6, <2>1, <2>2
  <2>4. Begun(n) = Done(n) \/ Begun(n) = Done(n) + 1
    <3>1. Done(n) \in Int BY <1>5, <1>6 DEF ExchangesBefore
    <3> QED BY <3>1 DEF Begun, Done
  <2>5. Done(n) \in Int BY <1>5, <1>6 DEF ExchangesBefore
  <2> QED BY <1>4, <2>3, <2>4, <2>5
<1>8. CASE e = step[n]
  <2>1. Done(n) = Done(r) BY <1>2, <1>8 DEF Done
  <2>2. Running(n) /\ Kind(n) = "dv" BY <1>3, <1>5, <1>8, ProgramIs DEF Running, Kind
  <2>3. plane[r] < plane[n] \/ (plane[r] = plane[n] /\ d \in SentNow(n))
    BY <1>2, <1>5, <1>8 DEF Sent, Behind
  <2>4. plane[n] > 0 \/ op[n] > 1 \/ posted[n]
    <3>1. plane[n] \in Nat /\ plane[r] \in Nat BY <1>1, Sizes DEF TypeOK
    <3> QED BY <2>3, <3>1 DEF SentNow
  <2>5. InDvExchange(n) BY <2>2, <2>4 DEF InDvExchange
  <2>6. Begun(n) = Done(n) + 1 BY <2>5 DEF Begun, Done
  <2> QED BY <1>4, <2>1, <2>6
<1>9. e = step[n] \/ e < step[n] BY <1>2 DEF Sent, Behind
<1> QED BY <1>7, <1>8, <1>9

LEMMA EndPlaneImplements ==
    ASSUME Thick, IInv, IInv', Counted, NEW r \in Ranks, EndPlane(r)
    PROVE  GS!Complete(r) \/ UNCHANGED GS!vars
<1>1. TypeOK /\ Placed /\ Causal BY DEF IInv
<1>2. /\ Exchanging(r) /\ Advances(r) /\ Others(r)
      /\ op'[r] = 1 /\ ~ posted'[r]
      /\ \A d \in Dirs : Receiving(r, d) => d \in GotNow(r)
  BY <1>1, EndPlaneIs
<1>3. posted[r] /\ Running(r) BY <1>2 DEF EndPlane, Finished, Exchanging
<1>4. \A x \in Ranks \ {r} : dv'[x] = dv[x] BY EndPlaneRows
<1>5. \A x \in Ranks \ {r} : Begun(x)' = Begun(x) /\ Done(x)' = Done(x) /\ Ghost(x)' = Ghost(x)
  BY <1>2, <1>4, ViewKept DEF Others
<1>6. ~ Returned(r, "dv") BY <1>3 DEF Returned
<1>7. step[r] \in 1 .. Len(Program) /\ plane[r] \in Nat /\ step[r] \in Nat
  BY <1>1, <1>2, OwnSlot, ProgramIs, Sizes
<1>8. DvBefore[step[r]] \in Nat
      /\ DvBefore[step[r] + 1] = DvBefore[step[r]] + (IF Kind(r) = "dv" THEN 1 ELSE 0)
  BY <1>7, DvGoesOn DEF Kind
<1>9. DvBefore' = DvBefore BY DEF DvBefore
<1>10. CASE plane[r] + 1 < Planes(r)
  <2>1. step'[r] = step[r] /\ plane'[r] = plane[r] + 1 /\ Kind(r) = "dv"
    BY <1>1, <1>2, <1>10, OwnSlot DEF Advances, TypeOK
  <2>2. plane'[r] > 0 /\ plane'[r] # 0 BY <1>7, <2>1
  <2>3. InDvExchange(r) /\ InDvExchange(r)' /\ ~ Returned(r, "dv")'
    BY <1>3, <2>1, <2>2 DEF InDvExchange, Running, Kind, Returned
  <2>4. Begun(r)' = Begun(r) /\ Done(r)' = Done(r) BY <1>9, <2>1, <2>3 DEF Begun, Done
  <2>5. Ghost(r)' = Ghost(r) BY <1>6, <2>3, NothingHeld
  <2> QED BY <1>5, <2>4, <2>5, AbstractStutter
<1>11. CASE ~ (plane[r] + 1 < Planes(r))
  <2>1. step'[r] = step[r] + 1 /\ plane'[r] = 0 /\ step'[r] - 1 = step[r] /\ step'[r] > 1
    BY <1>1, <1>2, <1>7, <1>11 DEF Advances, TypeOK
  <2>2. ~ InDvExchange(r)' BY <1>2, <2>1 DEF InDvExchange
  <2>3. Done(r)' = DvBefore[step[r] + 1] /\ Begun(r)' = DvBefore[step[r] + 1]
    BY <1>8, <1>9, <2>1, <2>2 DEF Begun, Done
  <2>4. CASE Kind(r) # "dv"
    <3>1. ~ InDvExchange(r) BY <2>4 DEF InDvExchange
    <3>2. ~ Returned(r, "dv")' BY <2>1, <2>4 DEF Returned, Kind
    <3>3. Begun(r)' = Begun(r) /\ Done(r)' = Done(r) BY <1>8, <2>3, <2>4, <3>1 DEF Begun, Done
    <3>4. Ghost(r)' = Ghost(r) BY <1>6, <3>2, NothingHeld
    <3> QED BY <1>5, <3>3, <3>4, AbstractStutter
  <2>5. CASE Kind(r) = "dv"
    <3>1. InDvExchange(r) BY <1>3, <2>5 DEF InDvExchange
    <3>2. Begun(r) = Done(r) + 1 /\ Done(r) \in Nat BY <1>8, <3>1 DEF Begun, Done
    <3>3. Begun(r)' = Begun(r) /\ Done(r)' = Done(r) + 1
      BY <1>8, <2>3, <2>5, <3>2 DEF Done
    <3>4. \A n \in Neighbours(r) : Begun(n) >= Begun(r)
      <4> SUFFICES ASSUME NEW n \in Neighbours(r) PROVE Begun(n) >= Done(r) + 1 BY <3>2
      <4>1. PICK d \in Dirs : Receiving(r, d) /\ n = Source(r, d)
        BY DEF Neighbours, Dirs, Receiving, Source
      <4>2. Got(r, d, step[r], plane[r]) BY <1>2, <4>1 DEF Got
      <4>3. IsSlot(step[r], plane[r]) /\ plane[r] \in 0 .. NV - 1 BY <1>1, <1>2, OwnSlot
      <4>4. Sent(n, d, step[r], plane[r]) BY <1>1, <1>7, <4>1, <4>2, <4>3 DEF Causal
      <4>5. ~ plane[r] + 1 < NV BY <1>1, <1>2, <1>11, <2>5, OwnSlot
      <4>6. n \in Ranks BY DEF Neighbours
      <4> QED BY <1>2, <2>5, <4>4, <4>5, <4>6, NeighbourEntered
    <3>5. Ghost(r)' = Held(r, Done(r))
      <4>1. Returned(r, "dv")' BY <1>2, <2>1, <2>5 DEF Returned, Kind
      <4>2. \A v \in 0 .. NV - 1 : Fresh(r, v)'
        <5>1. step'[r] > 1 /\ Program[step'[r] - 1] = "dv" BY <2>1, <2>5 DEF Kind
        <5>2. Unpacked' BY DEF IInv
        <5> QED BY <5>1, <5>2 DEF Unpacked, Thick
      <4>3. ver'[r] = Done(r)
        <5>1. ver' = ver BY DEF EndPlane
        <5>2. ver[r] = VersionAt(step[r]) BY DEF IInv, OwnRows
        <5>3. Done(r) = ExchangesBefore(step[r]) BY DEF Done, Counted
        <5>4. ExchangesBefore(step[r]) = VersionAt(step[r]) BY <1>7, <2>5, BeforeNext DEF Kind
        <5> QED BY <5>1, <5>2, <5>3, <5>4
      <4>4. ASSUME NEW g \in GhostRows(r) PROVE GhostVersion(r, g)' = Done(r)
        <5>1. PICK j \in Canvas(r) \ Own(r) : g = j0(r) + j /\ g \in 0 .. NY - 1
          BY DEF GhostRows
        <5>2. g - j0(r) = j BY <5>1, Canvases
        <5>3. \A v \in 0 .. NV - 1 : dv'[r][v][j].ver = Done(r)
          <6>1. \A v \in 0 .. NV - 1 : dv'[r][v][j] = Row(v, j0(r) + j, ver'[r])
            BY <4>2, <5>1 DEF Fresh
          <6>2. \A v, i, n : Row(v, i, n).ver = n BY DEF Row
          <6> QED BY <4>3, <6>1, <6>2
        <5>4. 0 \in 0 .. NV - 1 BY Sizes
        <5>5. {dv'[r][v][g - j0(r)].ver : v \in 0 .. NV - 1} = {Done(r)}
          BY <5>2, <5>3, <5>4
        <5>6. Cardinality({Done(r)}) = 1 BY FS_Singleton
        <5>7. (CHOOSE n \in {Done(r)} : TRUE) = Done(r) OBVIOUS
        <5> QED BY <4>1, <5>5, <5>6, <5>7 DEF GhostVersion
      <4> QED BY <4>4 DEF Ghost, Held
    <3> QED BY <1>5, <3>2, <3>3, <3>4, <3>5, AbstractComplete
  <2> QED BY <2>4, <2>5
<1> QED BY <1>10, <1>11

(* The calls, planes, tags and buffers implement GhostSync: an exchange of    *)
(* dv_ begins at its first call, completes when its last plane is unpacked    *)
(* and never before the neighbours have begun theirs, and the ghosts then     *)
(* hold the version that the neighbours had.  Safety part of                  *)
(* ImplementsGhostSync; on slabs as thick as the ghosts.                      *)
THEOREM ImplementsGhostSyncSteps ==
    ASSUME \A r \in Ranks : ny_local(r) >= ng
    PROVE  Spec => GS!Init /\ [][GS!Next]_(GS!vars)
<1>1. Thick BY DEF Thick
<1>2. Init => GS!Init BY AbstractInit
<1>3. ASSUME IInv, IInv', Counted, [Next]_vars PROVE [GS!Next]_(GS!vars)
  <2>1. ASSUME NEW r \in Ranks,
               GS!Begin(r) \/ GS!Complete(r) \/ GS!Recompute(r) \/ UNCHANGED GS!vars
        PROVE  [GS!Next]_(GS!vars)
    BY <2>1, SameWorld DEF GS!Next
  <2>2. ASSUME NEW r \in Ranks, Post(r) PROVE [GS!Next]_(GS!vars)
    BY <1>3, <2>1, <2>2, PostImplements
  <2>3. ASSUME NEW r \in Ranks, NEW d \in Dirs, Receive(r, d) PROVE [GS!Next]_(GS!vars)
    BY <1>3, <2>1, <2>3, ReceiveImplements
  <2>4. ASSUME NEW r \in Ranks, NextCall(r) PROVE [GS!Next]_(GS!vars)
    BY <1>3, <2>1, <2>4, NextCallImplements
  <2>5. ASSUME NEW r \in Ranks, EndPlane(r) PROVE [GS!Next]_(GS!vars)
    BY <1>1, <1>3, <2>1, <2>5, EndPlaneImplements
  <2>6. ASSUME NEW r \in Ranks, Update(r) PROVE [GS!Next]_(GS!vars)
    BY <1>3, <2>1, <2>6, UpdateImplements
  <2>7. CASE UNCHANGED vars
    <3>1. \A x \in Ranks : Begun(x)' = Begun(x) /\ Done(x)' = Done(x) /\ Ghost(x)' = Ghost(x)
      BY <2>7, ViewKept DEF vars
    <3>2. UNCHANGED GS!vars BY <3>1, AbstractStutter
    <3> QED BY <3>2
  <2> QED BY <1>3, <2>2, <2>3, <2>4, <2>5, <2>6, <2>7 DEF Next, Rank
<1>4. IInv /\ IInv' /\ Counted /\ [Next]_vars => [GS!Next]_(GS!vars) BY <1>3
<1> QED BY <1>2, <1>4, InvariantAlways, CountedAlways, PTL DEF Spec
=============================================================================
