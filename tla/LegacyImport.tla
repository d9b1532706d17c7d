---------------------------- MODULE LegacyImport ----------------------------
(* import_legacy and cfg2toml: the two files of the old solver, of which each *)
(* value has its place and no name, become a configuration, which is written  *)
(* as TOML for ConfigFile to load.                                            *)
(*                                                                            *)
(* A file is the sequence of its tokens, comments removed.  A token is a      *)
(* word, or can be read as a double, or as an int as well; its value is that  *)
(* of ConfigFile for the place it stands in, and its number elsewhere.        *)
EXTENDS ConfigFile, FiniteSets

CONSTANT Imports       \* pairs of files, [main, topology]

Tokens == [kind : {"int", "float", "word"}, val : Int]

ASSUME ImportsAssumption == Imports \subseteq [main : Seq(Tokens), topology : Seq(Tokens)]

VARIABLE legacy        \* the pair that is imported, or NoImport

lvars == <<vars, legacy>>

------------------------------------------------------------------------------
(* TokenStream.  A token that cannot be read is consumed all the same.        *)

Token(t, p) == IF p \in DOMAIN t THEN t[p] ELSE [kind |-> "end", val |-> 0]

\* from_chars refuses what does not fit.
ReadsInt(t, p) == Token(t, p).kind = "int" /\ Narrow(Token(t, p).val) = Token(t, p).val

ReadsDouble(t, p) == Token(t, p).kind \in {"int", "float"}

\* value_or
IntOr(t, p, default) == IF ReadsInt(t, p) THEN t[p].val ELSE default

------------------------------------------------------------------------------
(* The main file.                                                             *)

Positional ==
    <<"name", "equations", "formulation", "flow", "time_method", "inviscid_scheme", "order",
      "viscous_method", "cfl", "scaling", "restart", "file", "nx", "ny", "topology",
      "restart_file", "display_frequency", "write_frequency", "max_iterations", "total_time",
      "Re_inf", "Mach_inf", "reference_length", "alpha_deg", "p_inf", "T_inf",
      "pressure", "temperature", "density", "velocity">>

Place(k) == CHOOSE p \in DOMAIN Positional : Positional[p] = k

Codes == {"equations", "formulation", "flow", "time_method", "order", "viscous_method"}

IfUnreadableUnits(k) == 10       \* mutant

\* What an unreadable value is taken for.
IfUnreadable(k) ==
    CASE k \in (Codes \ {"viscous_method"}) \cup {"inviscid_scheme"} -> -1
      [] k \in {"scaling", "reference_length"} -> 10
      [] OTHER -> 0

Readable(t, k) ==
    CASE k \in Strings \cup {"topology"} -> Place(k) \in DOMAIN t
      [] k \in Ints \cup Codes \cup {"inviscid_scheme", "restart"} -> ReadsInt(t, Place(k))
      [] OTHER -> ReadsDouble(t, Place(k))

Positioned(t, k) == IF Readable(t, k) THEN t[Place(k)].val ELSE IfUnreadable(k)

Nondimensional(t) == Positioned(t, "formulation") = 0

\* Without these the import ends; the reference state is asked for, and read,
\* only where dimen is 0.
Needed(t) ==
    {"name", "cfl", "display_frequency", "write_frequency"}
    \cup (IF Nondimensional(t) THEN States ELSE {})

\* The enumerator of a code, by the order of the scheme; 28 is MOVERS, too.
Scheme(order, code) ==
    IF order = 0
      THEN CASE code \in 0 .. 3 -> code [] code \in 5 .. 7 -> code - 1 [] OTHER -> -1
      ELSE CASE code = 20 -> 7 [] code \in 22 .. 27 -> code - 14
             [] code = 28 -> 1 [] code \in 29 .. 30 -> code - 15 [] OTHER -> -1

SchemeOf(t) == Scheme(Positioned(t, "order"), Positioned(t, "inviscid_scheme"))

MainRefused(t) ==
    \/ \E k \in Needed(t) : ~ Readable(t, k)
    \/ \E k \in Codes : Positioned(t, k) \notin 0 .. Names[k] - 1
    \/ SchemeOf(t) = -1

\* What the old files do not have, apart from residual smoothing and formats,
\* which keep their defaults.
ImportedKey(t, k) ==
    CASE k = "inviscid_scheme" -> SchemeOf(t)
      [] k \in States -> IF Nondimensional(t) THEN Positioned(t, k) ELSE Default[k]
      [] k = "reference_state" -> IF Nondimensional(t) THEN 1 ELSE 0
      [] k = "restart" -> IF Positioned(t, k) = 1 THEN 1 ELSE 0
      [] k = "restart_file" -> IF Positioned(t, "restart") = 1 THEN Positioned(t, k) ELSE Default[k]
      [] k \in {"gamma", "prandtl", "gas_constant", "directory", "formats",
                "residual_smoothing_eps"} -> Default[k]
      [] OTHER -> Positioned(t, k)

------------------------------------------------------------------------------
(* The topology, read_topology: two counts, then the segments one after the   *)
(* other, of which each decides how many tokens it has.                       *)

TypeOf(flag) == IF flag \in {10 * n : n \in 1 .. Names["type"]} THEN flag \div 10 - 1 ELSE -1

\* 1 to 4 are the lower, right, upper and left edge.
EdgeOf(ind) == IF ind \in 1 .. 4 THEN <<2, 1, 3, 0>>[ind] ELSE -1

\* A segment from its first token on: its keys, whether it is refused, whether
\* it has a prescribed state, and where the next one starts.
SegmentAt(t, p) ==
    LET flag       == IntOr(t, p, -1)
        bc         == IntOr(t, p + 1, -1)
        prescribed == flag = 1
        isothermal == ~ prescribed /\ bc = 50
    IN  [keys |-> [edge |-> EdgeOf(IntOr(t, p + 2, -1)), type |-> TypeOf(bc),
                   start |-> IntOr(t, p + 4, -1), end |-> IntOr(t, p + 5, -1),
                   state |-> IF prescribed THEN Good ELSE Unset,
                   wall_temperature |->
                       IF isothermal /\ ReadsDouble(t, p + 6) THEN t[p + 6].val ELSE Unset],
         refused |-> \/ ~ ReadsInt(t, p + 3)     \* bound_cell, not used otherwise
                     \/ TypeOf(bc) = -1 \/ EdgeOf(IntOr(t, p + 2, -1)) = -1
                     \/ prescribed /\ \E q \in p + 6 .. p + 9 : ~ ReadsDouble(t, q)
                     \/ isothermal /\ ~ ReadsDouble(t, p + 6),
         prescribed |-> IF prescribed THEN 1 ELSE 0,
         next |-> p + 6 + (IF prescribed THEN 4 ELSE IF isothermal THEN 1 ELSE 0)]

n_seg(t)   == IntOr(t, 1, -1)
n_presc(t) == IntOr(t, 2, 0)

\* Where the segments begin.
starts(t) ==
    LET start[i \in 1 .. Len(t) + 1] == IF i = 1 THEN 3 ELSE SegmentAt(t, start[i - 1]).next
    IN  start

\* Reading stops at the first segment that is refused; no file has more
\* segments than tokens without being refused.
SegmentsAt(t) ==
    LET start == starts(t)
    IN  [i \in 1 .. (IF n_seg(t) <= Len(t) THEN n_seg(t) ELSE Len(t) + 1) |-> SegmentAt(t, start[i])]

TopologyRefused(t) ==
    \/ n_seg(t) < 0
    \/ LET s == SegmentsAt(t)
       IN  \/ \E i \in DOMAIN s : s[i].refused
           \/ n_presc(t) # Cardinality({i \in DOMAIN s : s[i].prescribed = 1})

SegmentsOf(t) == LET s == SegmentsAt(t) IN [i \in DOMAIN s |-> s[i].keys]

------------------------------------------------------------------------------
Imported(pair) ==
    [keys |-> [k \in FileKeys |-> ImportedKey(pair.main, k)],
     segments |-> SegmentsOf(pair.topology)]

NoImport == [main |-> << >>, topology |-> << >>]

NoFile == [keys |-> [k \in FileKeys |-> Absent], unknown |-> {}, stray |-> {}, segments |-> << >>]

\* A file for load, or a pair for cfg2toml.
ImportInit ==
    \/ Init /\ legacy = NoImport
    \/ /\ legacy \in Imports
       /\ phase = "import" /\ round = 0
       /\ file = NoFile /\ at = 0 /\ cfg = Fresh /\ errors = {} /\ kept = Fresh

RefuseImport ==
    /\ phase = "import"
    /\ MainRefused(legacy.main) \/ TopologyRefused(legacy.topology)
    /\ Reject({"legacy import"})
    /\ UNCHANGED legacy

\* "if (auto v = validate(c); !v)"
Import ==
    /\ phase = "import"
    /\ ~ MainRefused(legacy.main) /\ ~ TopologyRefused(legacy.topology)
    /\ LET c == Imported(legacy)
       IN  IF Problems(c) # {} THEN Reject(Problems(c))
           ELSE /\ phase' = "accepted" /\ cfg' = c
                /\ UNCHANGED <<file, at, errors, round, kept>>
    /\ UNCHANGED legacy

ImportNext == RefuseImport \/ Import \/ (Next /\ UNCHANGED legacy)

ImportSpec == ImportInit /\ [][ImportNext]_lvars
------------------------------------------------------------------------------
(* A pair of files that is accepted is complete: no token is missing, and     *)
(* none that could not be read has been taken for a default, apart from the   *)
(* ones listed, of which the run goes on with something else than the file    *)
(* says: a restart of "1.0" or "yes" is none, and a scaling that is no number *)
(* is 1.  The segments are as many as declared, with and without a state, and *)
(* lie one after the other, so no token of one has been read as another's.    *)
ImportComplete ==
    Accepted /\ round = 0 =>
        LET t     == legacy.main
            s     == SegmentsAt(legacy.topology)
            lax   == {"viscous_method", "scaling", "restart", "reference_length", "alpha_deg"}
                     \cup (IF cfg.keys["flow"] = 1 THEN {"max_iterations"} ELSE {"total_time"})
                     \cup (IF cfg.keys["formulation"] = 0 THEN {"p_inf", "T_inf"} ELSE {})
            asked == {Positional[p] : p \in 1 .. IF cfg.keys["formulation"] = 0 THEN 30 ELSE 26}
        IN  /\ \A k \in asked : Place(k) \in DOMAIN t /\ (k \in lax \/ Readable(t, k))
            /\ \A k \in (asked \cap FileKeys) \ {"inviscid_scheme", "restart_file", "restart"} :
                   cfg.keys[k] = IF Readable(t, k) THEN t[Place(k)].val ELSE Default[k]
            /\ cfg.keys["restart"] = 1 =>
                   t[Place("restart")].val = 1 /\ cfg.keys["restart_file"] = t[Place("restart_file")].val
            /\ Len(cfg.segments) = n_seg(legacy.topology)
            /\ 2 + 6 * Len(s) + 4 * n_presc(legacy.topology)
                 + Cardinality({i \in DOMAIN s : s[i].keys["type"] = 4}) <= Len(legacy.topology)
=============================================================================
