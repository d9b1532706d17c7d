---------------------------- MODULE HaloExchange ----------------------------
(* src/parallel/halo.cpp as the solver uses it: every rank runs the same      *)
(* program of exchanges, plane by plane, each plane by one or two             *)
(* MPI_Sendrecv, the face metrics by Isend/Irecv/Waitall.  All of them use    *)
(* the same communicator and overlapping tags, so which message a receive     *)
(* gets depends on the order of the calls alone.                              *)
(*                                                                            *)
(* A canvas is one column of rows: the columns 0 .. nx-1 of a row travel      *)
(* together.  A row's value says where the data comes from: the plane, the    *)
(* global row and the version (the number of recomputations of dv behind it). *)
EXTENDS MpiWorld, FiniteSets, Sequences

CONSTANTS
    NV,        \* planes of dv_ (8 in the solver)
    Stages     \* recomputations of dv_ in the run: one after the tables are
               \* set up, then one per Runge-Kutta stage

\* Without mpi_mode_ (one rank) the solver makes no exchange at all.
ASSUME HaloAssumption == NRanks >= 2 /\ NV \in Nat \ {0} /\ Stages \in Nat

ng == 2       \* ghost depth the solver constructs every field and halo_ with

VARIABLES
    step,     \* step[r]: position of rank r in Program
    plane,    \* plane[r]: the plane of the exchange it is working on
    op,       \* op[r]: the call within the plane, an index into Ops
    posted,   \* posted[r]: the sends and receives of that call are posted
    pend,     \* pend[r]: directions of its sends that still need a receiver
    got,      \* got[r]: directions it has received in this call
    buf,      \* buf[r][d]: recv_lo_ (d = "up") and recv_hi_ (d = "down"), members
              \* that keep the rows of the exchange before
    chan,     \* chan[r][d][t]: messages in flight from r, travelling in
              \* direction d with the tag of plane t
    dv,       \* dv[r][v]: the rows of plane v of rank r, with their ghosts
    ver,      \* ver[r]: the version of rank r's own rows
    face,     \* face[r]: sj_corrected_, the global face each slot describes
    area      \* area[r]: area_x, the global row each slot describes

vars == <<step, plane, op, posted, pend, got, buf, chan, dv, ver, face, area>>

Dirs == {"up", "down"}   \* "up" goes to rank r + 1 (tag t1), "down" to r - 1 (t2)

------------------------------------------------------------------------------
\* The exchanges of finish_init and of every stage of run, in program order.
Program ==
    <<"dv", "face", "area">> \o [s \in 1 .. 2 * Stages |-> IF s % 2 = 1 THEN "update" ELSE "dv"]

Sending(r, d)   == IF d = "up" THEN owns_upper_neighbor(r) ELSE owns_lower_neighbor(r)
Source(r, d)    == IF d = "up" THEN r - 1 ELSE r + 1
Receiving(r, d) == Source(r, d) \in Ranks

Call(s, q) == [sends |-> s, recvs |-> q]

\* mutant: the middle ranks are fine, the first receives before it sends
PlaneCallsOneByOne(r) ==
    CASE owns_lower_neighbor(r) /\ owns_upper_neighbor(r) ->
             <<Call({"up"}, {"up"}), Call({"down"}, {"down"})>>
      [] owns_upper_neighbor(r) /\ ~ owns_lower_neighbor(r) ->
             <<Call({}, {"down"}), Call({"up"}, {})>>
      [] owns_lower_neighbor(r) /\ ~ owns_upper_neighbor(r) -> <<Call({"down"}, {"up"})>>

\* mutant: the first rank sends only
PlaneCallsOneWay(r) ==
    CASE owns_lower_neighbor(r) /\ owns_upper_neighbor(r) ->
             <<Call({"up"}, {"up"}), Call({"down"}, {"down"})>>
      [] owns_upper_neighbor(r) /\ ~ owns_lower_neighbor(r) -> <<Call({"up"}, {})>>
      [] owns_lower_neighbor(r) /\ ~ owns_upper_neighbor(r) -> <<Call({"down"}, {"up"})>>

\* exchange_plane: a rank between two others makes two MPI_Sendrecv, tops
\* upward first; the first and the last rank make a single one.
PlaneCalls(r) ==
    CASE owns_lower_neighbor(r) /\ owns_upper_neighbor(r) ->
             <<Call({"up"}, {"up"}), Call({"down"}, {"down"})>>
      [] owns_upper_neighbor(r) /\ ~ owns_lower_neighbor(r) -> <<Call({"up"}, {"down"})>>
      [] owns_lower_neighbor(r) /\ ~ owns_upper_neighbor(r) -> <<Call({"down"}, {"up"})>>

\* mutant: the receive from above is missing
FaceCallsHalf(r) ==
    <<Call({d \in Dirs : Sending(r, d)}, {d \in {"up"} : Receiving(r, d)})>>

\* exchange_face_metric_rows: all messages at once, completed together.
FaceCalls(r) ==
    <<Call({d \in Dirs : Sending(r, d)}, {d \in Dirs : Receiving(r, d)})>>

Running(r)  == step[r] <= Len(Program)
Kind(r)     == Program[step[r]]
Calls(r)    == IF Kind(r) = "face" THEN FaceCalls(r) ELSE PlaneCalls(r)
Planes(r)   == IF Kind(r) = "dv" THEN NV ELSE 1
Current(r)  == Calls(r)[op[r]]

\* pack_rows: ng rows from row 0 (bottom) or from row ny - ng (top).
PackRows(canvas, r, d) ==
    LET from == IF d = "up" THEN ny_local(r) - ng ELSE 0
    IN  [g \in 0 .. ng - 1 |-> canvas[from + g]]

\* mutant: the face of the interface is packed, not the one a row beyond it
PackFaceOfInterface(r, d) ==
    [g \in {0} |-> face[r][IF d = "up" THEN ny_local(r) ELSE 0]]

\* The face rows that are packed: nf - 2 upward, 1 downward (nf = ny + 1).
PackFace(r, d) ==
    [g \in {0} |-> face[r][IF d = "up" THEN ny_local(r) - 1 ELSE 1]]

Payload(r, d) ==
    CASE Kind(r) = "dv"   -> PackRows(dv[r][plane[r]], r, d)
      [] Kind(r) = "area" -> PackRows(area[r], r, d)
      [] Kind(r) = "face" -> PackFace(r, d)

\* mutant: unpack_lower with the order of the rings reversed
UnpackRowsReversed(canvas, r, b) ==
    [j \in DOMAIN canvas |->
        IF j >= ny_local(r) /\ owns_upper_neighbor(r) THEN b["down"][j - ny_local(r)]
        ELSE IF j < 0 /\ owns_lower_neighbor(r) THEN b["up"][-j - 1]
        ELSE canvas[j]]

\* unpack_upper: ring k (row ny-1+k) <- slot k-1; unpack_lower: ring k
\* (row -k) <- slot ng-k.
UnpackRows(canvas, r, b) ==
    [j \in DOMAIN canvas |->
        IF j >= ny_local(r) /\ owns_upper_neighbor(r) THEN b["down"][j - ny_local(r)]
        ELSE IF j < 0 /\ owns_lower_neighbor(r) THEN b["up"][ng + j]
        ELSE canvas[j]]

\* Slots -1 and nf of the face table.
UnpackFace(r, b) ==
    [j \in DOMAIN face[r] |->
        IF j = ny_local(r) + 1 /\ owns_upper_neighbor(r) THEN b["down"][0]
        ELSE IF j = -1 /\ owns_lower_neighbor(r) THEN b["up"][0]
        ELSE face[r][j]]

------------------------------------------------------------------------------
Canvas(r) == -ng .. ny_local(r) + ng - 1
Own(r)    == 0 .. ny_local(r) - 1

\* A row no rank has computed: ghost cells recomputed from the ghosts of cv_,
\* which no code updates after init_freestream, and the zeros of a new buffer.
NoRow == [plane |-> -1, row |-> -1, ver |-> -1]

Row(v, g, n) == [plane |-> v, row |-> g, ver |-> n]

\* The metrics of global row or face g: computed once, from the grid.
Metric(g) == [plane |-> -1, row |-> g, ver |-> 0]

\* dependent_variables_all covers the whole canvas, ghosts included.
Recomputed(r, n) ==
    [v \in 0 .. NV - 1 |->
        [j \in Canvas(r) |-> IF j \in Own(r) THEN Row(v, j0(r) + j, n) ELSE NoRow]]

\* compute_metrics computes rows 0 .. ny-1 of sj and area; fill_ghosts_copy
\* copies the first and the last of them into the ghosts.
Clamped(j, r) == IF j < 0 THEN 0 ELSE IF j >= ny_local(r) THEN ny_local(r) - 1 ELSE j

LocalMetrics(r) == [j \in Canvas(r) |-> Metric(j0(r) + Clamped(j, r))]

Init ==
    /\ step = [r \in Ranks |-> 1]
    /\ plane = [r \in Ranks |-> 0]
    /\ op = [r \in Ranks |-> 1]
    /\ posted = [r \in Ranks |-> FALSE]
    /\ pend = [r \in Ranks |-> {}]
    /\ got = [r \in Ranks |-> {}]
    /\ buf = [r \in Ranks |-> [d \in Dirs |-> [g \in 0 .. ng - 1 |-> NoRow]]]
    /\ chan = [r \in Ranks |-> [d \in Dirs |-> [t \in 0 .. NV - 1 |-> << >>]]]
    /\ dv = [r \in Ranks |-> Recomputed(r, 0)]
    /\ ver = [r \in Ranks |-> 0]
    /\ face = [r \in Ranks |-> LocalMetrics(r)]
    /\ area = [r \in Ranks |-> LocalMetrics(r)]

\* The call posts its sends and its receives.  MPI may buffer a message or make
\* the sender wait for the receiver, message by message.
Post(r) ==
    /\ Running(r) /\ Kind(r) # "update" /\ ~ posted[r]
    /\ \E waiting \in SUBSET Current(r).sends : pend' = [pend EXCEPT ![r] = waiting]
    /\ chan' = [chan EXCEPT ![r] = [d \in Dirs |-> [p \in 0 .. NV - 1 |->
           IF d \in Current(r).sends /\ p = plane[r]
             THEN Append(chan[r][d][p], [step |-> step[r], rows |-> Payload(r, d),
                                         sync |-> d \in pend'[r]])
             ELSE chan[r][d][p]]]]
    /\ posted' = [posted EXCEPT ![r] = TRUE]
    /\ UNCHANGED <<step, plane, op, got, buf, dv, ver, face, area>>

\* A posted receive takes the oldest message of its source with its tag.
Receive(r, d) ==
    /\ posted[r]
    /\ d \in Current(r).recvs \ got[r]
    /\ LET s == Source(r, d)
           q == chan[s][d][plane[r]]
       IN  /\ q # << >>
           /\ buf' = [buf EXCEPT ![r][d] = Head(q).rows]
           /\ chan' = [chan EXCEPT ![s][d][plane[r]] = Tail(q)]
           /\ pend' = IF Head(q).sync THEN [pend EXCEPT ![s] = @ \ {d}] ELSE pend
    /\ got' = [got EXCEPT ![r] = @ \cup {d}]
    /\ UNCHANGED <<step, plane, op, posted, dv, ver, face, area>>

Finished(r) == posted[r] /\ got[r] = Current(r).recvs /\ pend[r] = {}

\* The first of two MPI_Sendrecv returns.
NextCall(r) ==
    /\ Finished(r) /\ op[r] < Len(Calls(r))
    /\ op' = [op EXCEPT ![r] = @ + 1]
    /\ posted' = [posted EXCEPT ![r] = FALSE]
    /\ got' = [got EXCEPT ![r] = {}]
    /\ UNCHANGED <<step, plane, pend, buf, chan, dv, ver, face, area>>

\* The last call of a plane returns: the ghosts are unpacked, and exchange goes
\* on to the next plane or returns.
EndPlane(r) ==
    /\ Finished(r) /\ op[r] = Len(Calls(r))
    /\ dv' = IF Kind(r) = "dv"
               THEN [dv EXCEPT ![r][plane[r]] = UnpackRows(@, r, buf[r])] ELSE dv
    /\ area' = IF Kind(r) = "area"
               THEN [area EXCEPT ![r] = UnpackRows(@, r, buf[r])] ELSE area
    /\ face' = IF Kind(r) = "face" THEN [face EXCEPT ![r] = UnpackFace(r, buf[r])] ELSE face
    /\ IF plane[r] + 1 < Planes(r)
         THEN plane' = [plane EXCEPT ![r] = @ + 1] /\ UNCHANGED step
         ELSE plane' = [plane EXCEPT ![r] = 0] /\ step' = [step EXCEPT ![r] = @ + 1]
    /\ op' = [op EXCEPT ![r] = 1]
    /\ posted' = [posted EXCEPT ![r] = FALSE]
    /\ got' = [got EXCEPT ![r] = {}]
    /\ UNCHANGED <<pend, buf, chan, ver>>

\* A stage recomputes dv_ from cv_ (ssprk_blend, dependent_variables_all).
Update(r) ==
    /\ Running(r) /\ Kind(r) = "update"
    /\ ver' = [ver EXCEPT ![r] = @ + 1]
    /\ dv' = [dv EXCEPT ![r] = Recomputed(r, ver'[r])]
    /\ step' = [step EXCEPT ![r] = @ + 1]
    /\ UNCHANGED <<plane, op, posted, pend, got, buf, chan, face, area>>

Rank(r) ==
    \/ Post(r) \/ NextCall(r) \/ EndPlane(r) \/ Update(r)
    \/ \E d \in Dirs : Receive(r, d)

AllDone == \A r \in Ranks : ~ Running(r)

Next == \E r \in Ranks : Rank(r)

\* MPI progress: a call whose partners have posted theirs completes.
Spec == Init /\ [][Next]_vars /\ \A r \in Ranks : WF_vars(Rank(r))
------------------------------------------------------------------------------
\* Rank r has returned from an exchange of the given kind and has not yet
\* started the next step of its program.
Returned(r, kind) ==
    /\ step[r] > 1 /\ Program[step[r] - 1] = kind
    /\ plane[r] = 0 /\ op[r] = 1 /\ ~ posted[r]

(* When exchange(dv_) returns, every ghost row next to a neighbouring slab    *)
(* holds that neighbour's own row, of the same plane and of the same version  *)
(* as the rank's own rows: "Ghost ring k is filled from the neighbour's REAL  *)
(* rows (exact copies)" (halo.hpp:4).  Neighbours may be an exchange ahead or *)
(* behind when it returns, and no message carries the exchange it belongs to. *)
GhostsFresh ==
    \A r \in Ranks : Returned(r, "dv") =>
        \A v \in 0 .. NV - 1, j \in Canvas(r) \ Own(r) :
            j0(r) + j \in 0 .. NY - 1 => dv[r][v][j] = Row(v, j0(r) + j, ver[r])

(* The tables of setup_mpi_gradient_tables: the ghost areas are those of the  *)
(* neighbours' rows, and the face slots -1 and nf are the neighbours' faces,  *)
(* once their exchanges have returned.                                        *)
TablesTrue ==
    \A r \in Ranks :
        /\ step[r] > 3 => \A j \in Canvas(r) :
               j0(r) + j \in 0 .. NY - 1 => area[r][j] = Metric(j0(r) + j)
        /\ step[r] > 2 => \A j \in {-1, ny_local(r) + 1} :
               j0(r) + j \in 1 .. NY - 1 => face[r][j] = Metric(j0(r) + j)

(* A receive can only be handed a message that its source sent in the same    *)
(* exchange, although dv plane 0, the face rows and the areas share tags and  *)
(* message sizes and a fast neighbour may already have sent the next one.     *)
MatchesOwnExchange ==
    \A r \in Ranks, d \in Dirs :
        (posted[r] /\ d \in Current(r).recvs \ got[r]) =>
            LET q == chan[Source(r, d)][d][plane[r]]
            IN  q # << >> => Head(q).step = step[r]

(* No rank waits forever in an exchange, whatever mixture of buffered and     *)
(* synchronous sends MPI chooses: the program of every rank ends.             *)
Termination == <>AllDone

(* Seen from outside, an exchange is one synchronisation with the neighbours: *)
(* the calls, planes, tags and buffers above implement GhostSync.             *)
DvBefore ==
    [n \in 1 .. Len(Program) + 1 |-> Cardinality({s \in 1 .. n - 1 : Program[s] = "dv"})]

InDvExchange(r) ==
    Running(r) /\ Kind(r) = "dv" /\ (posted[r] \/ plane[r] > 0 \/ op[r] > 1)

\* The version in a ghost row, when all planes agree on it.
GhostVersion(r, g) ==
    LET versions == {dv[r][v][g - j0(r)].ver : v \in 0 .. NV - 1}
    IN  IF Returned(r, "dv") /\ Cardinality(versions) = 1
          THEN CHOOSE n \in versions : TRUE ELSE -1

GhostRows(r) == {j0(r) + j : j \in Canvas(r) \ Own(r)} \cap 0 .. NY - 1

GS == INSTANCE GhostSync WITH
        Exchanges <- Stages + 1,
        begun <- [r \in Ranks |-> DvBefore[step[r]] + (IF InDvExchange(r) THEN 1 ELSE 0)],
        done  <- [r \in Ranks |-> DvBefore[step[r]]],
        ghost <- [r \in Ranks |-> [g \in GhostRows(r) |-> GhostVersion(r, g)]]

ImplementsGhostSync == GS!Spec
=============================================================================
