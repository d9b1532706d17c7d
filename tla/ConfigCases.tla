----------------------------- MODULE ConfigCases -----------------------------
(* Files for ConfigFile: two that are accepted, and all that differ from one  *)
(* of them in one value, in what is beside the keys, or in two values of      *)
(* which the second decides what validate asks for.                           *)
EXTENDS Integers, Sequences, FiniteSets, TLC

CONSTANT Word

Val(kind, n) == [kind |-> kind, val |-> n]
None         == Val("absent", 0)

Segment(edge, start, end, type, state, wall) ==
    [keys |-> [edge |-> Val("string", edge), start |-> Val("int", start), end |-> Val("int", end),
               type |-> Val("string", type), state |-> state, wall_temperature |-> wall],
     unknown |-> FALSE]

\* A steady run in the reference state, some doubles of it given as integers.
Steady ==
    [keys |->
        [name |-> Val("string", 1), equations |-> Val("string", 1), formulation |-> Val("string", 0),
         flow |-> Val("string", 0), file |-> Val("string", 1), nx |-> Val("int", 5),
         ny |-> Val("int", 3), scaling |-> Val("int", 1), inviscid_scheme |-> Val("string", 15),
         order |-> Val("string", 1), time_method |-> Val("string", 2), cfl |-> Val("float", 5),
         viscous_method |-> Val("string", 1), residual_smoothing_eps |-> Val("float", 2),
         reference_state |-> Val("table", 0), pressure |-> Val("float", 7),
         temperature |-> Val("int", 1), density |-> Val("int", 1), velocity |-> Val("bool", 1),
         gamma |-> None, prandtl |-> None, gas_constant |-> None, Re_inf |-> Val("float", 400),
         Mach_inf |-> Val("int", 2), alpha_deg |-> Val("int", 0), p_inf |-> None, T_inf |-> None,
         reference_length |-> None, max_iterations |-> Val("float", 90), total_time |-> None,
         restart |-> None, restart_file |-> None, directory |-> None,
         display_frequency |-> None, write_frequency |-> Val("int", 10), formats |-> None],
     unknown |-> {}, stray |-> {},
     segments |-> <<Segment(0, 2, 4, 0, Val("array", 1), None), Segment(3, 2, 6, 2, None, None)>>]

\* A dimensional unsteady run from a restart file, with an isothermal wall.
Unsteady ==
    [keys |->
        [name |-> Val("string", 1), equations |-> Val("string", 1), formulation |-> Val("string", 1),
         flow |-> Val("string", 1), file |-> Val("string", 1), nx |-> Val("int", 4),
         ny |-> Val("int", 6), scaling |-> Val("float", 1), inviscid_scheme |-> Val("string", 3),
         order |-> Val("string", 0), time_method |-> Val("string", 0), cfl |-> Val("int", 1),
         viscous_method |-> None, residual_smoothing_eps |-> None,
         reference_state |-> None, pressure |-> None, temperature |-> None, density |-> None,
         velocity |-> None,
         gamma |-> Val("float", 16), prandtl |-> Val("int", 1), gas_constant |-> Val("int", 287),
         Re_inf |-> Val("int", 10), Mach_inf |-> Val("float", 8), alpha_deg |-> Val("float", -12),
         p_inf |-> Val("int", 90), T_inf |-> Val("int", 30), reference_length |-> Val("float", 25),
         max_iterations |-> Val("int", 0), total_time |-> Val("float", 15),
         restart |-> Val("bool", 1), restart_file |-> Val("string", 1), directory |-> Val("string", 1),
         display_frequency |-> Val("int", 1), write_frequency |-> Val("int", 1),
         formats |-> Val("array", 1)],
     unknown |-> {}, stray |-> {},
     segments |-> <<Segment(1, 3, 7, 4, None, Val("int", 30))>>]

------------------------------------------------------------------------------
Type(k) ==
    CASE k \in {"nx", "ny", "max_iterations", "display_frequency", "write_frequency", "start", "end"} ->
           "int"
      [] k = "restart" -> "bool"
      [] k \in {"formats", "state"} -> "array"
      [] k \in {"name", "file", "restart_file", "directory", "equations", "formulation", "flow",
                "inviscid_scheme", "order", "time_method", "viscous_method", "edge", "type"} -> "string"
      [] OTHER -> "float"

\* In any key: nothing, a table, a value that stands for none of its kind.
Wrong(k) == {None, Val("table", 0), Val(IF Type(k) = "string" THEN "int" ELSE "string", 1)}

\* In a key of its kind: the least values, one beyond the tables and the
\* ranges, what wraps, the doubles that are no numbers; in one of another, the
\* wholes, fractions and others that may or may not stand for it.
Right(k) ==
    LET kind == Type(k)
        own  == CASE kind = "int"    -> {-1, 0, 1, 2, 6, 8, Word + 3, Word - 1}
                  [] kind = "bool"   -> {0, 1}
                  [] kind = "string" -> {0, 1, 2, 4, 7, 16}
                  [] kind = "array"  -> {0, 1, 2, 3}
                  [] OTHER           -> {-3, 0, 1, 10, 101, 1001, 1003}
        foreign ==
            CASE kind = "int"   -> {Val("float", n) : n \in {15, 20, -10, 10 * Word + 30, 1001}}
                                   \cup {Val("bool", 0), Val("bool", 1)}
              [] kind = "float" -> {Val("int", -1), Val("int", 0), Val("int", 2), Val("bool", 0), Val("bool", 1)}
              [] kind = "bool"  -> {Val("int", 0), Val("int", 2), Val("float", 10)}
              [] OTHER          -> {}
    IN  {Val(kind, n) : n \in own} \cup foreign

\* Strings that are no names are empty, plain or quoted.
Possible(k) ==
    Wrong(k) \cup IF k \in {"name", "file", "restart_file", "directory"}
                    THEN {Val("string", n) : n \in 0 .. 2}
                    ELSE IF k = "reference_state" THEN {Val("array", 0), Val("table", 0)} ELSE Right(k)

Put(f, k, v) == [f EXCEPT !.keys[k] = v]

InSegment(f, k, v) == [f EXCEPT !.segments[1].keys[k] = v]

\* All the files that differ from f in one of these keys; segment keys of the
\* first segment.
Changed(f, keys) ==
    UNION {{IF k \in DOMAIN f.keys THEN Put(f, k, v) ELSE InSegment(f, k, v) : v \in Possible(k)} :
           k \in keys}

States == {"pressure", "temperature", "density", "velocity"}

\* f with something else in the place of section s.
Instead(f, s) ==
    LET keys == CASE s = "case" -> {"name", "equations", "formulation", "flow"}
                  [] s = "grid" -> {"file", "nx", "ny", "scaling"}
                  [] s = "numerics" -> {"inviscid_scheme", "order", "time_method", "cfl",
                                        "viscous_method", "residual_smoothing_eps"}
                  [] s = "physics" -> States \cup {"gamma", "prandtl", "gas_constant", "Re_inf",
                                        "Mach_inf", "alpha_deg", "p_inf", "T_inf",
                                        "reference_length", "reference_state"}
                  [] s = "run" -> {"max_iterations", "total_time", "restart", "restart_file"}
                  [] s = "output" -> {"directory", "display_frequency", "write_frequency", "formats"}
    IN  [f EXCEPT !.stray = {s}, !.keys = [k \in keys |-> None] @@ @]

\* What is in no table is not there.
Possibly(f) == f.keys["reference_state"].kind = "table"
               \/ /\ \A k \in States : f.keys[k].kind = "absent"
                  /\ "reference_state" \notin f.unknown

Strange(f) ==
    {[f EXCEPT !.unknown = {s}] :
         s \in {"case", "grid", "numerics", "reference_state", "physics", "run", "output"}}
    \cup {[f EXCEPT !.segments[1].unknown = TRUE], [f EXCEPT !.segments = <<>>],
          [f EXCEPT !.stray = {"boundary"}, !.segments = <<>>], [f EXCEPT !.stray = {"unknown"}]}
    \cup {Instead(f, s) : s \in {"case", "grid", "numerics", "physics", "run", "output"}}

\* What decides which of the conditions of validate apply, and the keys they
\* are about.
Decided(f) ==
    UNION {Changed(Put(f, "flow", Val("string", n)), {"max_iterations", "total_time"}) : n \in {0, 1}}
    \cup UNION {Changed(Put(f, "formulation", Val("string", n)), {"p_inf", "T_inf", "reference_state"}) :
                n \in {0, 1}}
    \cup UNION {Changed(Put(f, "restart", Val("bool", n)), {"restart_file", "name"}) : n \in {0, 1}}
    \cup UNION {Changed(InSegment(f, "type", Val("string", n)), {"state", "wall_temperature"}) :
                n \in {0, 4, 7}}
    \cup UNION {Changed(InSegment(g, "edge", Val("string", n)), {"start", "end", "nx", "ny"}) :
                n \in {1, 2}, g \in {f, InSegment(f, "start", Val("int", Word + 3))}}

\* The unsteady file, given a reference state or less than one.
Referred == Put(Put(Unsteady, "reference_state", Val("table", 0)), "density", Val("int", 12))

Whole == [Referred EXCEPT !.keys = [k \in States |-> Val("float", 9)] @@ @]

AllFiles ==
    {f \in UNION {Changed(g, DOMAIN g.keys \cup DOMAIN g.segments[1].keys) \cup Strange(g) \cup Decided(g) :
                  g \in {Steady, Unsteady}}
           \cup {Referred, Whole} \cup Changed(Whole, States) : Possibly(f)}
=============================================================================
