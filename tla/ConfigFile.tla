----------------------------- MODULE ConfigFile -----------------------------
(* config::load and config::to_toml: a TOML file is read section by section   *)
(* and validated, and the configuration it gives is written as TOML and read  *)
(* again, as cfg2toml does for the next run.  A name is a number, its place   *)
(* in the table of names; a string is empty, plain or one with a quote, a     *)
(* backslash or a control character, such as a newline; a double is in        *)
(* tenths, apart from infinity and NaN.                                       *)
(*                                                                            *)
(* A file has the values of the keys that parse asks for, the tables of it    *)
(* with a key that it does not ask for (unknown), and what is at the top and  *)
(* parse does not ask for (stray): "unknown" for names it does not know, the  *)
(* name of a section that is no table, "boundary" where that is no array.     *)
EXTENDS Integers, Sequences

CONSTANTS
    Files,         \* the files read
    Word           \* the values of an int: 2^32

ASSUME WordAssumption == Word \in Nat /\ Word > 200     \* the defaults fit in an int

VARIABLES
    phase,         \* "read", "accepted" or "rejected"
    file,          \* the file being read
    at,            \* the part of it that is read next, or was read last
    cfg,           \* the configuration read so far
    errors,        \* the problems reported
    round,         \* 1 for the file, 2 for the one written by to_toml; 0 for none
    kept           \* the configuration to_toml wrote

vars == <<phase, file, at, cfg, errors, round, kept>>

------------------------------------------------------------------------------
(* The schema.                                                                *)

Sections == <<"case", "grid", "numerics", "reference_state", "physics", "run", "output">>

States == {"pressure", "temperature", "density", "velocity"}

Keys == [case |-> {"name", "equations", "formulation", "flow"},
         grid |-> {"file", "nx", "ny", "scaling"},
         numerics |-> {"inviscid_scheme", "order", "time_method", "cfl", "viscous_method",
                       "residual_smoothing_eps"},
         reference_state |-> States,
         physics |-> {"gamma", "prandtl", "gas_constant", "Re_inf", "Mach_inf", "alpha_deg",
                      "p_inf", "T_inf", "reference_length", "reference_state"},
         run |-> {"max_iterations", "total_time", "restart", "restart_file"},
         output |-> {"directory", "display_frequency", "write_frequency", "formats"}]

SegmentKeys == {"edge", "start", "end", "type", "state", "wall_temperature"}

FileKeys == UNION {Keys[s] : s \in DOMAIN Keys}

Strings == {"name", "file", "restart_file", "directory"}
Ints    == {"nx", "ny", "max_iterations", "display_frequency", "write_frequency", "start", "end"}

\* The tables of names, by their lengths.
Names == [equations |-> 2, formulation |-> 2, flow |-> 2, inviscid_scheme |-> 16, order |-> 2,
          time_method |-> 3, viscous_method |-> 2, edge |-> 4, type |-> 8]

Required == {"name", "file", "nx", "ny", "cfl", "max_iterations", "start", "end"}

\* What a key is read as; the kind of a value in the file may be another.
Type == [k \in FileKeys \cup SegmentKeys |->
    IF k \in Ints THEN "int"
    ELSE IF k \in Strings \cup DOMAIN Names THEN "string"
    ELSE CASE k = "restart"              -> "bool"
           [] k \in {"formats", "state"} -> "array"
           [] k = "reference_state"      -> "table"
           [] OTHER                      -> "float"]

\* Doubles beyond the others, which are not whole; strings; and what an
\* optional has that is unset.
Inf == 1001
NaN == 1003
Empty  == 0
Plain  == 1
Quoted == 2
Other  == 3     \* what a quoted string may be read as
Unset == -1001

\* Arrays: four numbers, or all the formats, or 0 for none and 2 for others.
Good    == 1
Foreign == 3     \* with an entry that is not a string

Default == [k \in FileKeys \cup SegmentKeys |->
    CASE k = "gamma" -> 14 [] k = "prandtl" -> 7 [] k = "gas_constant" -> 2869
      [] k \in {"scaling", "reference_length"} -> 10
      [] k \in {"display_frequency", "write_frequency"} -> 100
      [] k = "directory" -> Plain [] k = "formats" -> Good
      [] k \in {"state", "wall_temperature"} -> Unset
      [] OTHER -> 0]

------------------------------------------------------------------------------
(* TableReader.                                                               *)

\* A table in the place of a value is consumed, and is no value.
Found(v) == v.kind \notin {"absent", "table"}

\* static_cast<int> of an int64_t
Narrow(n) == ((n + Word \div 2) % Word) - Word \div 2

ConvertsFractions(type, v) ==     \* mutant: static_cast of any double
    \/ v.kind = type
    \/ type = "float" /\ v.kind \in {"int", "bool"}
    \/ type = "int" /\ v.kind \in {"bool", "float"}
    \/ type = "bool" /\ v.kind = "int"

\* toml::node::value<T>, of a bool, an int or a double: each of the others
\* stands for it, but a fraction for no int and a double for no bool.
Converts(type, v) ==
    \/ v.kind = type
    \/ type = "float" /\ v.kind \in {"int", "bool"}
    \/ type = "int" /\ (v.kind = "bool" \/ (v.kind = "float" /\ v.val % 10 = 0))
    \/ type = "bool" /\ v.kind = "int"

Converted(type, v) ==
    CASE type = "float" /\ v.kind # "float" -> 10 * v.val
      [] type = "int" /\ v.kind = "float"   -> v.val \div 10
      [] type = "bool" /\ v.kind = "int"    -> IF v.val = 0 THEN 0 ELSE 1
      [] OTHER                              -> v.val

Coerced(k, v) ==
    LET x == Converted(Type[k], v) IN IF Type[k] = "int" THEN Narrow(x) ELSE x

Reads(t, k) == Found(t[k]) /\ Converts(Type[k], t[k])

Read(t, k) == IF Reads(t, k) THEN Coerced(k, t[k]) ELSE Default[k]

TableErrors(t, keys) ==
    {<<k, "missing">> : k \in {r \in keys \cap Required : ~Found(t[r])}}
    \cup {<<k, "type">> : k \in {r \in keys : Found(t[r]) /\ ~Converts(Type[r], t[r])}}
    \cup {<<k, "name">> : k \in {r \in keys \cap DOMAIN Names : Reads(t, r) /\ t[r].val >= Names[r]}}

\* check_unknown_keys, of a table; root itself is not asked.
UnknownKeys(s, unknown) == IF unknown THEN {<<s, "unknown">>} ELSE {}

\* Whether there is a [physics.reference_state]; another value in its place
\* is an error, and not consumed.
HasTable(f) == f.keys["reference_state"].kind = "table"

SectionErrors(f, s) ==
    CASE s = "reference_state" ->
           IF HasTable(f) THEN TableErrors(f.keys, States) \cup UnknownKeys(s, s \in f.unknown) ELSE {}
      [] s = "physics" ->
           LET v == f.keys["reference_state"]
           IN  TableErrors(f.keys, Keys.physics \ {"reference_state"})
               \cup (IF v.kind \notin {"absent", "table", "array"}
                       THEN {<<"reference_state", "type">>} ELSE {})
               \cup UnknownKeys(s, s \in f.unknown \/ v.kind \notin {"absent", "table"})
      [] s = "output" ->
           TableErrors(f.keys, Keys.output \ {"formats"})
           \cup LET v == f.keys["formats"]
                IN  (IF v.kind = "absent" \/ (v.kind = "array" /\ v.val # Foreign)
                       THEN {} ELSE {<<"formats", "type">>})
           \cup UnknownKeys(s, s \in f.unknown)
      [] OTHER -> TableErrors(f.keys, Keys[s]) \cup UnknownKeys(s, s \in f.unknown)

\* What a key of a section without errors is set to.
SectionValue(f, k) ==
    IF k \in States THEN IF HasTable(f) THEN Read(f.keys, k) ELSE Default[k]
    ELSE IF k = "reference_state"
      THEN IF HasTable(f) /\ \E r \in States : Reads(f.keys, r) THEN 1 ELSE 0
      ELSE Read(f.keys, k)

\* An array of other than four numbers is an error; a table is not looked at.
\* A segment that is no table is refused as one with an unknown key is.
SegmentErrors(g) ==
    LET v == g.keys["state"]
    IN  TableErrors(g.keys, SegmentKeys \ {"state"})
        \cup (IF Found(v) /\ (v.kind # "array" \/ v.val # Good) THEN {<<"state", "type">>} ELSE {})
        \cup UnknownKeys("boundary", g.unknown \/ v.kind = "table")

SegmentValues(g) == [k \in SegmentKeys |-> Read(g.keys, k)]

------------------------------------------------------------------------------
(* validate.                                                                  *)

Above(x, bound) == x # NaN /\ x > bound

KeyProblems(c) ==
    {k \in {"name", "file", "directory"} : c[k] = Empty}
    \cup {k \in {"nx", "ny", "display_frequency", "write_frequency"} : c[k] < 1}
    \cup {k \in {"scaling", "cfl", "prandtl", "gas_constant", "Mach_inf", "Re_inf",
                 "reference_length"} : ~Above(c[k], 0)}
    \cup {k \in {"p_inf", "T_inf"} : c["formulation"] = 1 /\ ~Above(c[k], 0)}
    \cup {k \in {"gamma"} : ~Above(c[k], 10)}
    \cup {k \in {"cfl"} : Above(c[k], 100)}
    \cup {k \in {"max_iterations"} : c["flow"] = 0 /\ c[k] < 1}
    \cup {k \in {"total_time"} : c["flow"] = 1 /\ c[k] <= 0}
    \cup {k \in {"restart_file"} : c["restart"] = 1 /\ c[k] = Empty}
    \cup {k \in {"reference_state"} :
              IF c[k] = 0 THEN c["formulation"] = 0 ELSE \E r \in States : ~Above(c[r], 0)}
    \cup {k \in {"formats"} : c[k] # Good}

LastNodeSwapped(c, edge) == IF edge \in {0, 1} THEN c["nx"] + 1 ELSE c["ny"] + 1     \* mutant

LastNode(c, edge) == IF edge \in {0, 1} THEN c["ny"] + 1 ELSE c["nx"] + 1

SegmentProblems(c, b) ==
    {k \in {"start"} : b[k] < 2}
    \cup {k \in {"end"} : b[k] < b["start"] \/ b[k] > LastNode(c, b["edge"])}
    \cup {k \in {"wall_temperature"} :
              CASE b["type"] = 0 -> FALSE
                [] b["type"] = 4 -> ~Above(b[k], 0)
                [] OTHER         -> b[k] # Unset}
    \cup {k \in {"state"} : b["type"] \notin {0, 4} /\ b[k] # Unset}

\* Where: 0 for the keys of the sections, i for the i-th segment.
Problems(c) ==
    {<<0, k>> : k \in KeyProblems(c.keys)}
    \cup (IF c.segments = <<>> THEN {<<0, "boundary">>} ELSE {})
    \cup UNION {{<<i, k>> : k \in SegmentProblems(c.keys, c.segments[i])} : i \in DOMAIN c.segments}

------------------------------------------------------------------------------
(* to_toml.                                                                   *)

Absent == [kind |-> "absent", val |-> 0]

\* put_d: an infinity is written as nan.
Put(x) == IF x = Inf THEN NaN ELSE x

LeavesZero(k, c) ==     \* mutant: max_iterations as total_time is
    \/ k = "residual_smoothing_eps" /\ c[k] = 0
    \/ k \in {"gamma", "prandtl", "gas_constant", "reference_length"} /\ c[k] = Default[k]
    \/ k \in {"reference_state"} \cup States /\ c["reference_state"] = 0
    \/ k \in {"total_time", "max_iterations"} /\ ~Above(c[k], 0)
    \/ k \in {"restart", "restart_file"} /\ c["restart"] = 0

Left(k, c) ==      \* what to_toml leaves out
    \/ k = "residual_smoothing_eps" /\ c[k] = 0
    \/ k \in {"gamma", "prandtl", "gas_constant", "reference_length"} /\ c[k] = Default[k]
    \/ k \in {"reference_state"} \cup States /\ c["reference_state"] = 0
    \/ k = "total_time" /\ ~Above(c[k], 0)
    \/ k \in {"restart", "restart_file"} /\ c["restart"] = 0

Written(k, x) == [kind |-> Type[k], val |-> IF Type[k] = "float" THEN Put(x) ELSE x]

to_toml(c) ==
    [keys |-> [k \in FileKeys |-> IF Left(k, c.keys) THEN Absent ELSE Written(k, c.keys[k])],
     unknown |-> {}, stray |-> {},
     segments |-> [i \in DOMAIN c.segments |->
         [keys |-> [k \in SegmentKeys |->
              IF c.segments[i][k] = Unset THEN Absent ELSE Written(k, c.segments[i][k])],
          unknown |-> FALSE]]]

------------------------------------------------------------------------------
Values == [kind : STRING, val : Int]

\* A bool is 0 or 1, and a name has a place in its table or after it.
TypedTable(t, keys) ==
    /\ t \in [keys -> Values]
    /\ \A k \in keys : /\ t[k].kind = "bool" => t[k].val \in {0, 1}
                       /\ t[k].kind = "string" => t[k].val \in Nat

\* What is in no table is not there.
Typed(f) ==
    /\ TypedTable(f.keys, FileKeys)
    /\ f.stray \subseteq {"unknown", "boundary"} \cup (DOMAIN Keys \ {"reference_state"})
    /\ \A s \in f.stray \cap DOMAIN Keys : \A k \in Keys[s] : f.keys[k] = Absent
    /\ f.unknown \subseteq DOMAIN Keys \ f.stray
    /\ "reference_state" \in f.unknown => HasTable(f)
    /\ f.segments \in Seq([keys : [SegmentKeys -> Values], unknown : BOOLEAN])
    /\ "boundary" \in f.stray => f.segments = <<>>
    /\ \A i \in DOMAIN f.segments : TypedTable(f.segments[i].keys, SegmentKeys)

ASSUME FilesAssumption == \A f \in Files : Typed(f)

Fresh == [keys |-> [k \in FileKeys |-> Default[k]], segments |-> <<>>]

Init ==
    /\ file \in Files
    /\ phase = "read" /\ at = 1 /\ cfg = Fresh /\ errors = {}
    /\ round = 1 /\ kept = Fresh

\* Where reading stops at once, with all the problems of the part it is at.
Reject(problems) ==
    /\ phase' = "rejected" /\ errors' = problems
    /\ UNCHANGED <<file, at, cfg, round, kept>>

\* parse, one section.
ReadSection ==
    /\ phase = "read" /\ at <= Len(Sections)
    /\ LET s == Sections[at]
           e == SectionErrors(file, s)
       IN  IF e # {} THEN Reject(e)
           ELSE /\ cfg' = [cfg EXCEPT !.keys = [k \in FileKeys |->
                               IF k \in Keys[s] THEN SectionValue(file, k) ELSE @[k]]]
                /\ at' = at + 1
                /\ UNCHANGED <<phase, file, errors, round, kept>>

\* parse, one [[boundary]].
ReadSegment ==
    /\ phase = "read" /\ at - Len(Sections) \in DOMAIN file.segments
    /\ LET g == file.segments[at - Len(Sections)]
           e == SegmentErrors(g)
       IN  IF e # {} THEN Reject(e)
           ELSE /\ cfg' = [cfg EXCEPT !.segments = Append(@, SegmentValues(g))]
                /\ at' = at + 1
                /\ UNCHANGED <<phase, file, errors, round, kept>>

Validate ==
    /\ phase = "read" /\ at = Len(Sections) + Len(file.segments) + 1
    /\ LET e == Problems(cfg)
       IN  IF e # {} THEN Reject(e)
           ELSE phase' = "accepted" /\ UNCHANGED <<file, at, cfg, errors, round, kept>>

\* Strings are put between quotes as they are: a quote ends the string early, a
\* backslash is an escape, and then the string another; a control character
\* cannot stand there.
Text(f) ==
    [f EXCEPT !.keys = [k \in FileKeys |->
        IF k \in Strings /\ @[k].val = Quoted THEN [kind |-> "string", val |-> Other] ELSE @[k]]]

Broken(f) == \E k \in Strings : f.keys[k].val = Quoted

\* cfg2toml, and load of what it wrote.
WriteAndLoad ==
    /\ phase = "accepted" /\ round < 2
    /\ kept' = cfg /\ round' = 2
    /\ file' = Text(to_toml(cfg))
    /\ \/ phase' = "read" /\ at' = 1 /\ cfg' = Fresh /\ UNCHANGED errors
       \/ /\ Broken(to_toml(cfg))
          /\ phase' = "rejected" /\ errors' = {"TOML parse error"}
          /\ UNCHANGED <<at, cfg>>

Next == ReadSection \/ ReadSegment \/ Validate \/ WriteAndLoad

Spec == Init /\ [][Next]_vars
------------------------------------------------------------------------------
Accepted == phase = "accepted"
Ended    == phase \in {"accepted", "rejected"}

(* What is accepted is what the file says.  A key that is not in the file, or *)
(* is a table there, has its default, and only keys with one may be left out. *)
(* The names have one, although they are read with required_enum: a file      *)
(* without "type" has a prescribed inflow there.  A number is that of the     *)
(* file, of whatever kind: an int modulo the width of int, so a fraction is   *)
(* never cut off; a bool is whether it is not 0.  No key of a table is passed *)
(* over.  At the top of the file it is otherwise, although unknown keys "must *)
(* not be silently ignored" (tests/test_config.cpp:134): what has another     *)
(* name is passed over, and so is an "output" that is no table; any other     *)
(* section, or "boundary", that is something else is noticed for what is then *)
(* missing, by parse or by validate.                                          *)
TakenAsWritten ==
    Accepted /\ round = 1 =>
        LET Numbers   == {"int", "float", "bool"}
            Tenths(v) == IF v.kind = "float" THEN v.val ELSE 10 * v.val
            Says(t, k, x) ==
                \/ /\ Found(t[k])
                   /\ CASE Type[k] = "int"   -> /\ t[k].kind \in Numbers
                                                /\ (10 * x - Tenths(t[k])) % (10 * Word) = 0
                        [] Type[k] = "float" -> t[k].kind \in Numbers /\ x = Tenths(t[k])
                        [] Type[k] = "bool"  -> /\ t[k].kind \in {"bool", "int"}
                                                /\ x = IF t[k].val = 0 THEN 0 ELSE 1
                        [] OTHER             -> t[k].kind = Type[k] /\ x = t[k].val
                \/ t[k].kind \in {"absent", "table"} /\ k \notin Required /\ x = Default[k]
            stated == IF file.keys["reference_state"].kind = "table" THEN States ELSE {}
        IN  /\ file.unknown = {} /\ file.stray \subseteq {"unknown", "output"}
            /\ \A k \in FileKeys \ (States \cup {"reference_state"}) : Says(file.keys, k, cfg.keys[k])
            /\ \A k \in States : IF cfg.keys["reference_state"] = 1
                                  THEN Found(file.keys[k]) /\ Says(file.keys, k, cfg.keys[k])
                                  ELSE ~Found(file.keys[k]) \/ k \notin stated
            /\ Len(cfg.segments) = Len(file.segments)
            /\ \A i \in DOMAIN file.segments :
                   /\ ~file.segments[i].unknown
                   /\ \A k \in SegmentKeys : Says(file.segments[i].keys, k, cfg.segments[i][k])

(* What the solver relies on.  Whatever the integers wrapped to and the names *)
(* defaulted to, the cells of every segment, which start two below its nodes, *)
(* are cells of its edge; the loop ends, for iterations or for time; and it   *)
(* makes an iteration, except an unsteady run with no iterations at all.      *)
AcceptedIsRunnable ==
    Accepted =>
        /\ \A i \in DOMAIN cfg.segments :
               LET b     == cfg.segments[i]
                   along == IF b["edge"] \in {0, 1} THEN cfg.keys["ny"] ELSE cfg.keys["nx"]
               IN  /\ b["start"] .. b["end"] # {}
                   /\ {n - 2 : n \in b["start"] .. b["end"]} \subseteq 0 .. along - 1
        /\ cfg.segments # <<>>
        /\ cfg.keys["flow"] = 0 => cfg.keys["max_iterations"] >= 1
        /\ cfg.keys["formulation"] = 0 => cfg.keys["reference_state"] # 0
        /\ cfg.keys["reference_state"] # 0 =>
               \A r \in States : cfg.keys[r] > 0 /\ cfg.keys[r] # NaN
        /\ cfg.keys["restart"] = 1 => cfg.keys["restart_file"] # Empty

(* "Serialize -> parse round-trip preserves all fields" (docs/Testcases.md:   *)
(* 154), of a configuration that was accepted: so it does apart from the file *)
(* of a restart that is not asked for and a total_time that is not positive,  *)
(* which are left out; from infinities, which become NaN; and from strings    *)
(* with a quote, a backslash or a control character.  It is refused where     *)
(* validate refuses a NaN, and where a NaN in total_time, which validate      *)
(* accepts, has been left out.                                                *)
RoundTrip ==
    Ended /\ round = 2 =>
        LET k      == kept.keys
            quoted == {s \in Strings : k[s] = Quoted} \ (IF k["restart"] = 1 THEN {} ELSE {"restart_file"})
            checked == {"scaling", "gamma", "prandtl", "gas_constant", "Mach_inf", "Re_inf",
                        "reference_length"}
                       \cup (IF k["formulation"] = 1 THEN {"p_inf", "T_inf"} ELSE {})
                       \cup (IF k["reference_state"] = 1 THEN States ELSE {})
            refused == \/ \E x \in checked : k[x] = Inf
                       \/ k["flow"] = 1 /\ k["total_time"] = NaN
                       \/ \E i \in DOMAIN kept.segments : /\ kept.segments[i]["type"] = 4
                                                          /\ kept.segments[i]["wall_temperature"] = Inf
            numbers == {x \in FileKeys : Type[x] = "float"}
            expected ==
                [x \in FileKeys |->
                    CASE x \in quoted -> Other
                      [] x = "restart_file" /\ k["restart"] = 0 -> Empty
                      [] x = "total_time" /\ ~Above(k[x], 0) -> 0
                      [] x \in numbers /\ k[x] = Inf -> NaN
                      [] OTHER -> k[x]]
        IN  IF Accepted
              THEN /\ ~refused
                   /\ cfg.keys = expected
                   /\ DOMAIN cfg.segments = DOMAIN kept.segments
                   /\ \A i \in DOMAIN cfg.segments, x \in SegmentKeys :
                          cfg.segments[i][x] = IF x = "wall_temperature" THEN Put(kept.segments[i][x])
                                               ELSE kept.segments[i][x]
              ELSE refused \/ quoted # {}
=============================================================================
