-------------------------- MODULE LegacyImport_proofs --------------------------
(* What is accepted can be run, wherever it comes from: a file, a pair of     *)
(* legacy files, or the file written of either.  It is what the file says,    *)
(* comes back from the file written of it, and of a pair nothing is missing.  *)
EXTENDS LegacyImport, SequenceTheorems, FiniteSetTheorems, WellFoundedInduction, TLAPS

SegmentConfigs == [SegmentKeys -> Int]

Configs == [keys : [FileKeys -> Int], segments : Seq(SegmentConfigs)]

\* Integers stand in the place of values.
Valued(f) ==
    /\ \A k \in FileKeys : f.keys[k].val \in Int
    /\ \A i \in DOMAIN f.segments : \A k \in SegmentKeys : f.segments[i].keys[k].val \in Int

(* A configuration is made of integers, and accepted only without problems.   *)
IInv ==
    /\ Valued(file)
    /\ cfg \in Configs
    /\ phase = "accepted" => Problems(cfg) = {}

LEMMA NarrowInt == ASSUME NEW n \in Int PROVE Narrow(n) \in Int
BY WordAssumption DEF Narrow

LEMMA DefaultInt == \A k \in FileKeys \cup SegmentKeys : Default[k] \in Int
BY DEF Default, Plain, Good, Unset

(* What the keys are read as.                                                 *)
LEMMA TypeIs ==
    ASSUME NEW k \in FileKeys \cup SegmentKeys
    PROVE  /\ Type[k] \in {"int", "float", "bool", "string", "array", "table"}
           /\ Type[k] = "table" <=> k = "reference_state"
           /\ Type[k] = "int" <=> k \in Ints
           /\ Type[k] = "string" <=> k \in Strings \cup DOMAIN Names
           /\ Type[k] = "bool" <=> k = "restart"
           /\ Type[k] = "array" <=> k \in {"formats", "state"}
<1>1. /\ "restart" \notin Ints \cup Strings \cup DOMAIN Names
      /\ "formats" \notin Ints \cup Strings \cup DOMAIN Names
      /\ "state" \notin Ints \cup Strings \cup DOMAIN Names
      /\ "reference_state" \notin Ints \cup Strings \cup DOMAIN Names
      /\ Ints \cap (Strings \cup DOMAIN Names) = {}
  BY DEF Ints, Strings, Names
<1> HIDE DEF Ints, Strings, Names
<1>2. Type[k] = IF k \in Ints THEN "int"
                ELSE IF k \in Strings \cup DOMAIN Names THEN "string"
                ELSE CASE k = "restart"              -> "bool"
                       [] k \in {"formats", "state"} -> "array"
                       [] k = "reference_state"      -> "table"
                       [] OTHER                      -> "float"
  BY DEF Type
<1> QED BY <1>1, <1>2

(* What a value that can be converted is read as.                             *)
LEMMA ReadAs ==
    ASSUME NEW t, NEW k \in FileKeys \cup SegmentKeys, t[k].val \in Int, Reads(t, k)
    PROVE  /\ Converted(Type[k], t[k]) \in Int
           /\ Read(t, k) = IF k \in Ints THEN Narrow(Converted(Type[k], t[k]))
                           ELSE Converted(Type[k], t[k])
           /\ t[k].kind = Type[k] => Converted(Type[k], t[k]) = t[k].val
           /\ Type[k] \notin {"int", "float", "bool"} => t[k].kind = Type[k]
<1>1. Converted(Type[k], t[k]) \in Int
  BY DEF Converted
<1>2. t[k].kind = Type[k] => Converted(Type[k], t[k]) = t[k].val
  BY DEF Converted
<1>3. Type[k] \notin {"int", "float", "bool"} => t[k].kind = Type[k]
  BY DEF Reads, Converts
<1>4. Read(t, k) = IF k \in Ints THEN Narrow(Converted(Type[k], t[k])) ELSE Converted(Type[k], t[k])
  BY TypeIs DEF Read, Coerced
<1> QED BY <1>1, <1>2, <1>3, <1>4

LEMMA ReadInt ==
    ASSUME NEW t, NEW k \in FileKeys \cup SegmentKeys, t[k].val \in Int
    PROVE  Read(t, k) \in Int
<1>1. CASE Reads(t, k)
  BY <1>1, ReadAs, NarrowInt
<1>2. CASE ~ Reads(t, k)
  BY <1>2, DefaultInt DEF Read
<1> QED BY <1>1, <1>2

LEMMA KeysAreKeys == \A i \in 1 .. 7 : Keys[Sections[i]] \subseteq FileKeys
BY DEF Keys, Sections, FileKeys

LEMMA FreshConfig == Fresh \in Configs
<1>1. [k \in FileKeys |-> Default[k]] \in [FileKeys -> Int]
  BY DefaultInt
<1>2. << >> \in Seq(SegmentConfigs)
  OBVIOUS
<1> QED BY <1>1, <1>2 DEF Fresh, Configs

LEMMA WrittenValued == ASSUME NEW c \in Configs PROVE Valued(Text(to_toml(c)))
<1> DEFINE f == to_toml(c)
<1>1. ASSUME NEW k, NEW x \in Int PROVE Written(k, x).val \in Int
  BY DEF Written, Put, NaN
<1>2. Absent.val \in Int /\ Other \in Int
  BY DEF Absent, Other
<1>3. \A k \in FileKeys : c.keys[k] \in Int
  BY DEF Configs
<1>4. \A k \in FileKeys : f.keys[k].val \in Int
  BY <1>1, <1>2, <1>3 DEF to_toml
<1>5. /\ DOMAIN f.segments = DOMAIN c.segments
      /\ \A i \in DOMAIN f.segments : \A k \in SegmentKeys : f.segments[i].keys[k].val \in Int
  <2>1. \A i \in DOMAIN c.segments : \A k \in SegmentKeys : c.segments[i][k] \in Int
    BY DEF Configs, SegmentConfigs
  <2> QED BY <1>1, <1>2, <2>1 DEF to_toml
<1>6. f = [keys |-> f.keys, unknown |-> f.unknown, stray |-> f.stray, segments |-> f.segments]
  BY DEF to_toml
<1> HIDE DEF f
<1>7. /\ \A k \in FileKeys : Text(f).keys[k].val \in Int
      /\ Text(f).segments = f.segments
  <2>1. \A k \in FileKeys : Text(f).keys[k] = IF k \in Strings /\ f.keys[k].val = Quoted
                                               THEN [kind |-> "string", val |-> Other] ELSE f.keys[k]
    BY <1>6 DEF Text
  <2>2. Text(f).segments = f.segments
    BY <1>6 DEF Text
  <2> QED BY <1>2, <1>4, <2>1, <2>2
<1>8. Valued(Text(f))
  BY <1>5, <1>7 DEF Valued
<1> QED BY <1>8 DEF f

LEMMA TypedValued ==
    ASSUME NEW f, Typed(f)
    PROVE  /\ Valued(f)
           /\ \A k \in FileKeys : f.keys[k].kind = "bool" => f.keys[k].val \in {0, 1}
           /\ \A i \in DOMAIN f.segments : \A k \in SegmentKeys :
                  f.segments[i].keys[k].kind = "bool" => f.segments[i].keys[k].val \in {0, 1}
           /\ Len(f.segments) \in Nat /\ DOMAIN f.segments = 1 .. Len(f.segments)
           /\ \A i \in DOMAIN f.segments : f.segments[i].unknown \in BOOLEAN
<1> DEFINE Tables == [keys : [SegmentKeys -> Values], unknown : BOOLEAN]
<1>1. f.segments \in Seq(Tables)
  BY DEF Typed
<1> HIDE DEF Tables
<1>2. Len(f.segments) \in Nat /\ DOMAIN f.segments = 1 .. Len(f.segments)
  BY <1>1
<1>3. \A i \in DOMAIN f.segments : f.segments[i] \in Tables
  BY <1>1, <1>2, ElementOfSeq
<1>4. \A k \in FileKeys : f.keys[k] \in Values
  BY DEF Typed, TypedTable
<1>5. /\ \A k \in FileKeys : f.keys[k].kind = "bool" => f.keys[k].val \in {0, 1}
      /\ \A i \in DOMAIN f.segments : \A k \in SegmentKeys :
             f.segments[i].keys[k].kind = "bool" => f.segments[i].keys[k].val \in {0, 1}
  BY DEF Typed, TypedTable
<1> QED BY <1>2, <1>3, <1>4, <1>5 DEF Valued, Values, Tables

LEMMA InitIInv == Init => IInv
<1> SUFFICES ASSUME Init PROVE IInv
  OBVIOUS
<1>1. Typed(file)
  BY FilesAssumption DEF Init
<1>2. Valued(file)
  BY <1>1, TypedValued
<1> QED BY <1>2, FreshConfig DEF Init, IInv

LEMMA NextIInv == IInv /\ [Next]_vars => IInv'
<1> SUFFICES ASSUME IInv, [Next]_vars PROVE IInv'
  OBVIOUS
<1>0. cfg = [keys |-> cfg.keys, segments |-> cfg.segments]
      /\ cfg.keys \in [FileKeys -> Int] /\ cfg.segments \in Seq(SegmentConfigs)
  BY DEF IInv, Configs
<1>1. ASSUME NEW e, Reject(e) PROVE IInv'
  BY <1>1 DEF Reject, IInv
<1>2. CASE ReadSection
  <2> DEFINE s == Sections[at]
             new == [k \in FileKeys |-> IF k \in Keys[s] THEN SectionValue(file, k) ELSE cfg.keys[k]]
  <2>1. CASE Reject(SectionErrors(file, s))
    BY <1>1, <2>1
  <2>2. CASE cfg' = [cfg EXCEPT !.keys = new] /\ UNCHANGED <<phase, file>> /\ phase = "read"
    <3>1. \A k \in FileKeys : SectionValue(file, k) \in Int
      <4>1. \A k \in FileKeys : Read(file.keys, k) \in Int /\ Default[k] \in Int
        BY ReadInt, DefaultInt DEF IInv, Valued
      <4> QED BY <4>1 DEF SectionValue
    <3>2. new \in [FileKeys -> Int]
      BY <1>0, <3>1
    <3> HIDE DEF new
    <3>3. cfg' \in Configs
      BY <1>0, <2>2, <3>2 DEF Configs
    <3> QED BY <2>2, <3>3 DEF IInv, Valued
  <2> QED BY <1>2, <2>1, <2>2 DEF ReadSection
<1>3. CASE ReadSegment
  <2> DEFINE i == at - Len(Sections)
             g == file.segments[i]
  <2>1. CASE Reject(SegmentErrors(g))
    BY <1>1, <2>1
  <2>2. CASE /\ cfg' = [cfg EXCEPT !.segments = Append(@, SegmentValues(g))]
             /\ UNCHANGED <<phase, file>> /\ phase = "read" /\ i \in DOMAIN file.segments
    <3>1. SegmentValues(g) \in SegmentConfigs
      <4>1. \A k \in SegmentKeys : g.keys[k].val \in Int
        BY <2>2 DEF IInv, Valued
      <4>2. \A k \in SegmentKeys : Read(g.keys, k) \in Int
        BY <4>1, ReadInt
      <4> QED BY <4>2 DEF SegmentValues, SegmentConfigs
    <3>2. Append(cfg.segments, SegmentValues(g)) \in Seq(SegmentConfigs)
      BY <1>0, <3>1
    <3>3. cfg' \in Configs
      BY <1>0, <2>2, <3>2 DEF Configs
    <3> QED BY <2>2, <3>3 DEF IInv, Valued
  <2> QED BY <1>3, <2>1, <2>2 DEF ReadSegment
<1>4. CASE Validate
  <2>1. CASE Reject(Problems(cfg))
    BY <1>1, <2>1
  <2>2. CASE Problems(cfg) = {} /\ UNCHANGED <<file, cfg>>
    BY <2>2 DEF IInv, Valued
  <2> QED BY <1>4, <2>1, <2>2 DEF Validate
<1>5. CASE WriteAndLoad
  <2>1. Valued(file')
    BY <1>5, WrittenValued DEF WriteAndLoad, IInv
  <2>2. cfg' \in Configs /\ phase' # "accepted"
    BY <1>5, FreshConfig DEF WriteAndLoad, IInv
  <2>3. Valued(file)' <=> Valued(file')
    BY DEF Valued
  <2> QED BY <2>1, <2>2, <2>3 DEF IInv
<1>6. CASE UNCHANGED vars
  BY <1>6 DEF vars, IInv, Valued
<1> QED BY <1>2, <1>3, <1>4, <1>5, <1>6 DEF Next

(* What validate finds no problem with can be run.                            *)
LEMMA RunnableWithoutProblems ==
    ASSUME cfg \in Configs, Problems(cfg) = {}
    PROVE  AcceptedIsRunnable
<1>1. /\ KeyProblems(cfg.keys) = {} /\ cfg.segments # << >>
      /\ \A i \in DOMAIN cfg.segments : SegmentProblems(cfg.keys, cfg.segments[i]) = {}
  <2>1. {<<0, k>> : k \in KeyProblems(cfg.keys)} = {}
    BY DEF Problems
  <2>2. cfg.segments # << >>
    BY DEF Problems
  <2>3. ASSUME NEW i \in DOMAIN cfg.segments, NEW k \in SegmentProblems(cfg.keys, cfg.segments[i])
        PROVE  FALSE
    <3>1. <<i, k>> \in {<<i, x>> : x \in SegmentProblems(cfg.keys, cfg.segments[i])}
      BY <2>3
    <3>2. <<i, k>> \in Problems(cfg)
      BY <3>1 DEF Problems
    <3> QED BY <3>2
  <2>4. ASSUME NEW k \in KeyProblems(cfg.keys) PROVE FALSE
    <3>1. <<0, k>> \in {<<0, x>> : x \in KeyProblems(cfg.keys)}
      BY <2>4
    <3> QED BY <2>1, <3>1
  <2> QED BY <2>2, <2>3, <2>4
<1>2. /\ \A k \in FileKeys : cfg.keys[k] \in Int
      /\ \A i \in DOMAIN cfg.segments : \A k \in SegmentKeys : cfg.segments[i][k] \in Int
  BY DEF Configs, SegmentConfigs
<1>3. ASSUME NEW i \in DOMAIN cfg.segments
      PROVE  LET b     == cfg.segments[i]
                 along == IF b["edge"] \in {0, 1} THEN cfg.keys["ny"] ELSE cfg.keys["nx"]
             IN  /\ b["start"] .. b["end"] # {}
                 /\ {n - 2 : n \in b["start"] .. b["end"]} \subseteq 0 .. along - 1
  <2> DEFINE b == cfg.segments[i]
             along == IF b["edge"] \in {0, 1} THEN cfg.keys["ny"] ELSE cfg.keys["nx"]
  <2>1. "start" \notin SegmentProblems(cfg.keys, b) /\ "end" \notin SegmentProblems(cfg.keys, b)
    BY <1>1
  <2>2. ~ (b["start"] < 2) /\ ~ (b["end"] < b["start"]) /\ ~ (b["end"] > LastNode(cfg.keys, b["edge"]))
    BY <2>1 DEF SegmentProblems
  <2>3. b["start"] \in Int /\ b["end"] \in Int /\ along \in Int
    BY <1>2 DEF SegmentKeys, FileKeys, Keys
  <2>4. LastNode(cfg.keys, b["edge"]) = along + 1
    BY DEF LastNode
  <2> HIDE DEF b, along
  <2>5. b["start"] \in b["start"] .. b["end"]
    BY <2>2, <2>3
  <2>6. \A n \in b["start"] .. b["end"] : n - 2 \in 0 .. along - 1
    BY <2>2, <2>3, <2>4
  <2>7. b["start"] .. b["end"] # {} /\ {n - 2 : n \in b["start"] .. b["end"]} \subseteq 0 .. along - 1
    BY <2>5, <2>6
  <2> QED BY <2>7 DEF b, along
<1>4. /\ cfg.keys["flow"] = 0 => cfg.keys["max_iterations"] >= 1
      /\ cfg.keys["restart"] = 1 => cfg.keys["restart_file"] # Empty
  <2>1. "max_iterations" \notin KeyProblems(cfg.keys) /\ "restart_file" \notin KeyProblems(cfg.keys)
    BY <1>1
  <2>2. cfg.keys["max_iterations"] \in Int
    BY <1>2 DEF FileKeys, Keys
  <2> QED BY <2>1, <2>2 DEF KeyProblems
<1>5. /\ cfg.keys["formulation"] = 0 => cfg.keys["reference_state"] # 0
      /\ cfg.keys["reference_state"] # 0 =>
             \A r \in States : cfg.keys[r] > 0 /\ cfg.keys[r] # NaN
  <2>1. "reference_state" \notin KeyProblems(cfg.keys)
    BY <1>1
  <2> QED BY <2>1 DEF KeyProblems, Above
<1> QED BY <1>1, <1>3, <1>4, <1>5 DEF AcceptedIsRunnable

(* Whatever the file says, and however wide an int is: what load accepts has  *)
(* its segments inside their edges and is complete for the run it asks for,   *)
(* and so has what to_toml writes of it, if load accepts that.                *)
THEOREM AcceptedIsRunnableAlways == Spec => []AcceptedIsRunnable
<1>1. IInv => AcceptedIsRunnable
  BY RunnableWithoutProblems DEF IInv, Accepted, AcceptedIsRunnable
<1> QED BY <1>1, InitIInv, NextIInv, PTL DEF Spec

------------------------------------------------------------------------------
TokenFiles == Seq(Tokens)

LEMMA ReadableToken ==
    ASSUME NEW t \in TokenFiles, NEW p, ReadsInt(t, p) \/ ReadsDouble(t, p)
    PROVE  p \in DOMAIN t /\ t[p].val \in Int
<1>1. p \in DOMAIN t
  BY DEF ReadsInt, ReadsDouble, Token
<1>2. t[p] \in Tokens
  BY <1>1 DEF TokenFiles
<1> QED BY <1>1, <1>2 DEF Tokens

LEMMA IntOrInt ==
    ASSUME NEW t \in TokenFiles, NEW p, NEW d \in Int
    PROVE  IntOr(t, p, d) \in Int
BY ReadableToken DEF IntOr

LEMMA PositionedInt ==
    ASSUME NEW t \in TokenFiles, NEW k
    PROVE  Positioned(t, k) \in Int
<1>1. ASSUME Readable(t, k) PROVE t[Place(k)].val \in Int
  <2>1. CASE Place(k) \in DOMAIN t
    <3>1. t[Place(k)] \in Tokens
      BY <2>1 DEF TokenFiles
    <3> QED BY <3>1 DEF Tokens
  <2>2. CASE ReadsInt(t, Place(k)) \/ ReadsDouble(t, Place(k))
    BY <2>2, ReadableToken
  <2> QED BY <1>1, <2>1, <2>2 DEF Readable
<1>2. IfUnreadable(k) \in Int
  BY DEF IfUnreadable
<1> QED BY <1>1, <1>2 DEF Positioned

LEMMA ImportedKeyInt ==
    ASSUME NEW t \in TokenFiles, NEW k \in FileKeys
    PROVE  ImportedKey(t, k) \in Int
<1>1. SchemeOf(t) \in Int
  <2>1. Positioned(t, "order") \in Int /\ Positioned(t, "inviscid_scheme") \in Int
    BY PositionedInt
  <2>2. ASSUME NEW o \in Int, NEW c \in Int PROVE Scheme(o, c) \in Int
    BY DEF Scheme
  <2> QED BY <2>1, <2>2 DEF SchemeOf
<1>2. Positioned(t, k) \in Int /\ Default[k] \in Int
  BY PositionedInt, DefaultInt
<1> QED BY <1>1, <1>2 DEF ImportedKey

LEMMA SegmentKeysInt ==
    ASSUME NEW t \in TokenFiles, NEW p
    PROVE  SegmentAt(t, p).keys \in SegmentConfigs
<1> DEFINE flag == IntOr(t, p, -1)
           bc   == IntOr(t, p + 1, -1)
           isothermal == ~ (flag = 1) /\ bc = 50
           wall == IF isothermal /\ ReadsDouble(t, p + 6) THEN t[p + 6].val ELSE Unset
<1>1. /\ flag \in Int /\ bc \in Int /\ IntOr(t, p + 2, -1) \in Int
      /\ IntOr(t, p + 4, -1) \in Int /\ IntOr(t, p + 5, -1) \in Int
  BY IntOrInt
<1>2. ASSUME NEW n \in Int PROVE TypeOf(n) \in Int /\ EdgeOf(n) \in Int
  <2>1. TypeOf(n) \in Int
    BY DEF TypeOf
  <2>2. EdgeOf(n) \in Int
    BY DEF EdgeOf
  <2> QED BY <2>1, <2>2
<1>3. wall \in Int
  BY ReadableToken DEF Unset
<1>4. Good \in Int /\ Unset \in Int
  BY DEF Good, Unset
<1>5. SegmentAt(t, p).keys =
        [edge |-> EdgeOf(IntOr(t, p + 2, -1)), type |-> TypeOf(bc),
         start |-> IntOr(t, p + 4, -1), end |-> IntOr(t, p + 5, -1),
         state |-> IF flag = 1 THEN Good ELSE Unset, wall_temperature |-> wall]
  BY DEF SegmentAt
<1>6. TypeOf(bc) \in Int /\ EdgeOf(IntOr(t, p + 2, -1)) \in Int
  BY <1>1, <1>2
<1> DEFINE edge == EdgeOf(IntOr(t, p + 2, -1))
           type == TypeOf(bc)
           first == IntOr(t, p + 4, -1)
           last == IntOr(t, p + 5, -1)
           state == IF flag = 1 THEN Good ELSE Unset
<1>8. edge \in Int /\ type \in Int /\ first \in Int /\ last \in Int /\ state \in Int
  BY <1>1, <1>4, <1>6
<1>9. SegmentAt(t, p).keys = [edge |-> edge, type |-> type, start |-> first, end |-> last,
                              state |-> state, wall_temperature |-> wall]
  BY <1>5
<1> HIDE DEF edge, type, first, last, state, wall, bc, flag
<1>7. ASSUME NEW a \in Int, NEW b \in Int, NEW c \in Int, NEW d \in Int, NEW e \in Int, NEW f \in Int
      PROVE  [edge |-> a, type |-> b, start |-> c, end |-> d, state |-> e,
              wall_temperature |-> f] \in [SegmentKeys -> Int]
  BY DEF SegmentKeys
<1> QED BY <1>3, <1>7, <1>8, <1>9 DEF SegmentConfigs

LEMMA SegmentsTyped ==
    ASSUME NEW t \in TokenFiles, ~ TopologyRefused(t)
    PROVE  SegmentsOf(t) \in Seq(SegmentConfigs)
<1> DEFINE n == IF n_seg(t) <= Len(t) THEN n_seg(t) ELSE Len(t) + 1
<1>1. n_seg(t) \in Int
  BY IntOrInt DEF n_seg
<1>2. n \in Nat
  BY <1>1 DEF TopologyRefused, TokenFiles
<1> HIDE DEF n
<1>3. PICK start : SegmentsAt(t) = [i \in 1 .. n |-> SegmentAt(t, start[i])]
  BY DEF SegmentsAt, n
<1>4. SegmentsOf(t) = [i \in 1 .. n |-> SegmentAt(t, start[i]).keys]
  BY <1>2, <1>3 DEF SegmentsOf
<1>5. \A i \in 1 .. n : SegmentAt(t, start[i]).keys \in SegmentConfigs
  BY SegmentKeysInt
<1> HIDE DEF SegmentsOf
<1> QED BY <1>2, <1>4, <1>5

LEMMA ImportedConfig ==
    ASSUME NEW pair \in Imports, ~ TopologyRefused(pair.topology)
    PROVE  Imported(pair) \in Configs
<1>1. pair.main \in TokenFiles /\ pair.topology \in TokenFiles
  BY ImportsAssumption DEF TokenFiles
<1>2. [k \in FileKeys |-> ImportedKey(pair.main, k)] \in [FileKeys -> Int]
  BY <1>1, ImportedKeyInt
<1>3. SegmentsOf(pair.topology) \in Seq(SegmentConfigs)
  BY <1>1, SegmentsTyped
<1> QED BY <1>2, <1>3 DEF Imported, Configs

(* The invariant of ConfigFile, and what is imported is one of the pairs.     *)
ImportInv == IInv /\ (phase = "import" => legacy \in Imports)

LEMMA NextLeavesImport == ASSUME Next PROVE phase' # "import"
<1>1. ASSUME NEW e, Reject(e) PROVE phase' # "import"
  BY <1>1 DEF Reject
<1>2. CASE ReadSection
  BY <1>1, <1>2 DEF ReadSection
<1>3. CASE ReadSegment
  BY <1>1, <1>3 DEF ReadSegment
<1>4. CASE Validate
  BY <1>1, <1>4 DEF Validate
<1>5. CASE WriteAndLoad
  BY <1>5 DEF WriteAndLoad
<1> QED BY <1>2, <1>3, <1>4, <1>5 DEF Next

LEMMA ImportInductive ==
    /\ ImportInit => ImportInv
    /\ ImportInv /\ [ImportNext]_lvars => ImportInv'
<1>1. ImportInit => ImportInv
  <2>1. CASE Init
    BY <2>1, InitIInv DEF ImportInv, Init
  <2>2. CASE /\ legacy \in Imports /\ phase = "import" /\ file = NoFile /\ cfg = Fresh
    BY <2>2, FreshConfig DEF ImportInv, IInv, Valued, NoFile, Absent
  <2> QED BY <2>1, <2>2 DEF ImportInit
<1>2. ASSUME ImportInv, [ImportNext]_lvars PROVE ImportInv'
  <2>1. ASSUME NEW e, Reject(e) PROVE IInv' /\ phase' # "import"
    BY <1>2, <2>1 DEF ImportInv, Reject, IInv, Valued
  <2>2. CASE RefuseImport
    BY <2>1, <2>2 DEF RefuseImport, ImportInv
  <2>3. CASE Import
    <3>1. CASE Reject(Problems(Imported(legacy)))
      BY <2>1, <3>1 DEF ImportInv
    <3>2. CASE /\ Problems(Imported(legacy)) = {} /\ phase' = "accepted"
               /\ cfg' = Imported(legacy) /\ file' = file
      <4>1. legacy \in Imports /\ ~ TopologyRefused(legacy.topology)
        BY <1>2, <2>3 DEF Import, ImportInv
      <4>2. cfg' \in Configs
        BY <3>2, <4>1, ImportedConfig
      <4>3. Problems(cfg') = {}
        BY <3>2
      <4> QED BY <1>2, <3>2, <4>2, <4>3 DEF ImportInv, IInv, Valued
    <3> QED BY <2>3, <3>1, <3>2 DEF Import
  <2>4. CASE Next
    BY <1>2, <2>4, NextIInv, NextLeavesImport DEF ImportInv
  <2>5. CASE UNCHANGED lvars
    <3>1. UNCHANGED vars /\ UNCHANGED legacy /\ UNCHANGED phase
      BY <2>5 DEF lvars, vars
    <3>2. IInv'
      BY <1>2, <3>1, NextIInv DEF ImportInv
    <3> QED BY <1>2, <3>1, <3>2 DEF ImportInv
  <2> QED BY <1>2, <2>2, <2>3, <2>4, <2>5 DEF ImportNext
<1> QED BY <1>1, <1>2

(* Whatever the legacy files hold, in tokens shifted, missing or unreadable:  *)
(* a configuration that the import accepts can be run, and so can the one     *)
(* that is loaded of what cfg2toml has written.                               *)
THEOREM ImportedIsRunnable == ImportSpec => []AcceptedIsRunnable
<1>1. ImportInv => AcceptedIsRunnable
  BY RunnableWithoutProblems DEF ImportInv, IInv, AcceptedIsRunnable, Accepted
<1> QED BY <1>1, ImportInductive, PTL DEF ImportSpec
------------------------------------------------------------------------------
(* Reading.  What is in a key that has been read.                             *)

Figures == {"int", "float", "bool"}

Figure(v) == IF v.kind = "float" THEN v.val ELSE 10 * v.val

Stands(t, k, x) ==
    \/ /\ Found(t[k])
       /\ CASE Type[k] = "int"   -> /\ t[k].kind \in Figures
                                    /\ (10 * x - Figure(t[k])) % (10 * Word) = 0
            [] Type[k] = "float" -> t[k].kind \in Figures /\ x = Figure(t[k])
            [] Type[k] = "bool"  -> t[k].kind \in {"bool", "int"} /\ x = IF t[k].val = 0 THEN 0 ELSE 1
            [] OTHER             -> t[k].kind = Type[k] /\ x = t[k].val
    \/ t[k].kind \in {"absent", "table"} /\ k \notin Required /\ x = Default[k]

LEMMA NarrowModulo == ASSUME NEW n \in Int PROVE (10 * Narrow(n) - 10 * n) % (10 * Word) = 0
<1> DEFINE h == Word \div 2
           q == (n + h) \div Word
<1>1. Word \in Int /\ Word > 0
  BY WordAssumption
<1>2. h \in Int
  BY <1>1
<1> HIDE DEF h
<1>3. q \in Int /\ (n + h) % Word = (n + h) - Word * q
  BY <1>1, <1>2
<1>4. ASSUME NEW w \in Int, w > 0, NEW a \in Int PROVE (w * a) % w = 0
  BY <1>4
<1> HIDE DEF q
<1>5. Narrow(n) - n = Word * (- q)
  BY <1>1, <1>2, <1>3 DEF Narrow, h
<1>6. 10 * Narrow(n) - 10 * n = (10 * Word) * (- q)
  BY <1>1, <1>3, <1>5, NarrowInt
<1>7. 10 * Word \in Int /\ 10 * Word > 0 /\ - q \in Int
  BY <1>1, <1>3
<1> QED BY <1>4, <1>6, <1>7

(* A key that is read without an error stands in the file, or has its default. *)
LEMMA ReadStands ==
    ASSUME NEW t, NEW keys, NEW k \in keys, k \in FileKeys \cup SegmentKeys,
           t[k].val \in Int, t[k].kind = "bool" => t[k].val \in {0, 1}, TableErrors(t, keys) = {}
    PROVE  /\ Stands(t, k, Read(t, k))
           /\ Found(t[k]) => Converts(Type[k], t[k])
<1>1. ASSUME k \in Required, ~ Found(t[k]) PROVE FALSE
  <2>1. <<k, "missing">> \in {<<x, "missing">> : x \in {r \in keys \cap Required : ~ Found(t[r])}}
    BY <1>1
  <2> QED BY <2>1 DEF TableErrors
<1>2. ASSUME Found(t[k]), ~ Converts(Type[k], t[k]) PROVE FALSE
  <2>1. <<k, "type">> \in {<<x, "type">> : x \in {r \in keys : Found(t[r]) /\ ~ Converts(Type[r], t[r])}}
    BY <1>2
  <2> QED BY <2>1 DEF TableErrors
<1>3. CASE Found(t[k])
  <2> DEFINE x == Converted(Type[k], t[k])
  <2>1. Converts(Type[k], t[k]) /\ Reads(t, k)
    BY <1>2, <1>3 DEF Reads
  <2>2. /\ x \in Int /\ Read(t, k) = IF Type[k] = "int" THEN Narrow(x) ELSE x
        /\ t[k].kind = Type[k] => x = t[k].val
        /\ Type[k] \notin {"int", "float", "bool"} => t[k].kind = Type[k]
    BY <2>1, ReadAs, TypeIs
  <2>3. CASE Type[k] = "int"
    <3>1. t[k].kind \in Figures /\ 10 * x = Figure(t[k])
      BY <2>1, <2>3 DEF Converts, Converted, Figures, Figure
    <3> HIDE DEF x
    <3> QED BY <1>3, <2>1, <2>2, <2>3, <3>1, NarrowModulo DEF Stands
  <2>4. CASE Type[k] = "float"
    <3>1. t[k].kind \in Figures /\ x = Figure(t[k])
      BY <2>1, <2>4 DEF Converts, Converted, Figures, Figure
    <3> QED BY <1>3, <2>1, <2>2, <2>4, <3>1 DEF Stands
  <2>5. CASE Type[k] = "bool"
    <3>1. t[k].kind \in {"bool", "int"} /\ x = IF t[k].val = 0 THEN 0 ELSE 1
      BY <2>1, <2>5 DEF Converts, Converted
    <3> QED BY <1>3, <2>1, <2>2, <2>5, <3>1 DEF Stands
  <2>6. CASE Type[k] \notin {"int", "float", "bool"}
    BY <1>3, <2>1, <2>2, <2>6 DEF Stands
  <2> QED BY <2>1, <2>3, <2>4, <2>5, <2>6
<1>4. CASE ~ Found(t[k])
  BY <1>1, <1>4 DEF Found, Read, Reads, Stands
<1> QED BY <1>2, <1>3, <1>4

(* What has been read before the n-th part of the file.                       *)
SoFar(f, c, n) ==
    /\ \A i \in 1 .. 7 : i < n =>
           /\ SectionErrors(f, Sections[i]) = {}
           /\ \A k \in Keys[Sections[i]] : c.keys[k] = SectionValue(f, k)
    /\ Len(c.segments) = IF n <= 8 THEN 0 ELSE n - 8
    /\ \A i \in 1 .. Len(c.segments) :
           /\ SegmentErrors(f.segments[i]) = {}
           /\ c.segments[i] = SegmentValues(f.segments[i])

LEMMA SectionsSoFar ==
    ASSUME NEW f, NEW c, NEW n, SoFar(f, c, n), NEW i \in 1 .. 7, i < n
    PROVE  /\ SectionErrors(f, Sections[i]) = {}
           /\ \A k \in Keys[Sections[i]] : c.keys[k] = SectionValue(f, k)
BY DEF SoFar

Parts(f) == 7 + Len(f.segments)

Loaded(f, c) == SoFar(f, c, Parts(f) + 1)

(* What has been read is in the configuration as it is in the file, whether   *)
(* somebody or to_toml has written it.                                        *)
LoadInv ==
    /\ IInv
    /\ phase \in {"import", "read", "accepted", "rejected"}
    /\ round \in {0, 1, 2} /\ (phase = "import" => round = 0)
    /\ Len(file.segments) \in Nat /\ DOMAIN file.segments = 1 .. Len(file.segments)
    /\ phase = "read" => round # 0 /\ at \in 1 .. Parts(file) + 1 /\ SoFar(file, cfg, at)
    /\ phase = "accepted" /\ round # 0 => Loaded(file, cfg)
    /\ round = 1 => Typed(file)

LEMMA SevenSections == Len(Sections) = 7
BY DEF Sections

LEMMA WrittenSegments ==
    ASSUME NEW c \in Configs
    PROVE  LET s == Text(to_toml(c)).segments
           IN  Len(s) = Len(c.segments) /\ DOMAIN s = 1 .. Len(s) /\ Len(s) \in Nat
<1> DEFINE table(i) == [keys |-> [k \in SegmentKeys |->
                            IF c.segments[i][k] = Unset THEN Absent ELSE Written(k, c.segments[i][k])],
                        unknown |-> FALSE]
           n == Len(c.segments)
           s == [i \in 1 .. n |-> table(i)]
<1>1. n \in Nat /\ DOMAIN c.segments = 1 .. n
  BY DEF Configs
<1>2. to_toml(c).segments = s
  BY <1>1 DEF to_toml
<1>3. Text(to_toml(c)).segments = to_toml(c).segments
  BY DEF Text, to_toml
<1> HIDE DEF table, n
<1>4. s \in Seq({table(i) : i \in 1 .. n}) /\ Len(s) = n
  BY <1>1
<1> QED BY <1>1, <1>2, <1>3, <1>4 DEF n

LEMMA FreshSoFar == ASSUME NEW f PROVE SoFar(f, Fresh, 1)
<1>1. Fresh.segments = << >>
  BY DEF Fresh
<1> QED BY <1>1 DEF SoFar

LEMMA InitLoadInv == Init => LoadInv
<1> SUFFICES ASSUME Init PROVE LoadInv
  OBVIOUS
<1>1. Typed(file) /\ IInv
  BY FilesAssumption, InitIInv DEF Init
<1>2. Len(file.segments) \in Nat /\ DOMAIN file.segments = 1 .. Len(file.segments)
  BY <1>1, TypedValued
<1>3. SoFar(file, cfg, 1)
  BY FreshSoFar DEF Init
<1> QED BY <1>1, <1>2, <1>3 DEF Init, LoadInv, Parts

LEMMA NextLoadInv == LoadInv /\ [Next]_vars => LoadInv'
<1> SUFFICES ASSUME LoadInv, [Next]_vars PROVE LoadInv'
  OBVIOUS
<1>0. IInv'
  BY NextIInv DEF LoadInv
<1>c. cfg = [keys |-> cfg.keys, segments |-> cfg.segments]
      /\ cfg.keys \in [FileKeys -> Int] /\ cfg.segments \in Seq(SegmentConfigs)
  BY DEF LoadInv, IInv, Configs
<1>1. ASSUME NEW e, Reject(e) PROVE LoadInv'
  BY <1>0, <1>1 DEF Reject, LoadInv
<1>2. CASE ReadSection
  <2> DEFINE s == Sections[at]
             new == [k \in FileKeys |-> IF k \in Keys[s] THEN SectionValue(file, k) ELSE cfg.keys[k]]
  <2>1. CASE Reject(SectionErrors(file, s))
    BY <1>1, <2>1
  <2>2. CASE /\ SectionErrors(file, s) = {}
             /\ cfg' = [cfg EXCEPT !.keys = new] /\ at' = at + 1
             /\ UNCHANGED <<phase, file, errors, round, kept>>
    <3>1. phase = "read" /\ at \in 1 .. 7 /\ SoFar(file, cfg, at) /\ at + 1 \in 1 .. Parts(file) + 1
      BY <1>2, SevenSections DEF ReadSection, LoadInv, Parts
    <3>2. cfg'.keys = new /\ cfg'.segments = cfg.segments
      BY <1>c, <2>2
    <3>3. ASSUME NEW i \in 1 .. 7, i < at + 1
          PROVE  /\ SectionErrors(file, Sections[i]) = {}
                 /\ \A k \in Keys[Sections[i]] : new[k] = SectionValue(file, k)
      <4>1. \A k \in Keys[Sections[i]] : k \in FileKeys
        BY KeysAreKeys
      <4>2. CASE i = at
        BY <2>2, <4>1, <4>2
      <4>3. CASE i < at
        BY <3>1, <4>1, <4>3 DEF SoFar
      <4> QED BY <3>1, <3>3, <4>2, <4>3
    <3> HIDE DEF new
    <3>4. SoFar(file, cfg', at + 1)
      BY <2>2, <3>1, <3>2, <3>3 DEF SoFar
    <3> QED BY <1>0, <2>2, <3>1, <3>4 DEF LoadInv
  <2> QED BY <1>2, <2>1, <2>2 DEF ReadSection
<1>3. CASE ReadSegment
  <2> DEFINE i == at - Len(Sections)
             g == file.segments[i]
  <2>1. CASE Reject(SegmentErrors(g))
    BY <1>1, <2>1
  <2>2. CASE /\ SegmentErrors(g) = {}
             /\ cfg' = [cfg EXCEPT !.segments = Append(@, SegmentValues(g))] /\ at' = at + 1
             /\ UNCHANGED <<phase, file, errors, round, kept>>
    <3>1. /\ phase = "read" /\ at \in Nat /\ at >= 8 /\ SoFar(file, cfg, at) /\ i = at - 7
          /\ at + 1 \in 1 .. Parts(file) + 1
      BY <1>3, SevenSections DEF ReadSegment, LoadInv, Parts
    <3>2. cfg'.keys = cfg.keys /\ cfg'.segments = Append(cfg.segments, SegmentValues(g))
      BY <1>c, <2>2
    <3>3. Len(cfg.segments) = at - 8
      BY <3>1 DEF SoFar
    <3>4. /\ Len(cfg'.segments) = at - 7
          /\ \A m \in 1 .. at - 8 : cfg'.segments[m] = cfg.segments[m]
          /\ cfg'.segments[at - 7] = SegmentValues(g)
      BY <1>c, <3>1, <3>2, <3>3
    <3>5. ASSUME NEW m \in 1 .. at - 7
          PROVE  /\ SegmentErrors(file.segments[m]) = {}
                 /\ cfg'.segments[m] = SegmentValues(file.segments[m])
      <4>1. CASE m = at - 7
        BY <2>2, <3>1, <3>4, <4>1
      <4>2. CASE m \in 1 .. at - 8
        BY <3>1, <3>3, <3>4, <4>2 DEF SoFar
      <4> QED BY <3>1, <4>1, <4>2
    <3>6. ASSUME NEW m \in 1 .. 7
          PROVE  /\ SectionErrors(file, Sections[m]) = {}
                 /\ \A k \in Keys[Sections[m]] : cfg'.keys[k] = SectionValue(file, k)
      <4>1. /\ SectionErrors(file, Sections[m]) = {}
            /\ \A k \in Keys[Sections[m]] : cfg.keys[k] = SectionValue(file, k)
        BY <3>1, SectionsSoFar
      <4> QED BY <3>2, <4>1
    <3>8. Len(cfg'.segments) = IF at + 1 <= 8 THEN 0 ELSE (at + 1) - 8
      BY <3>1, <3>4
    <3>9. \A m \in 1 .. Len(cfg'.segments) :
             /\ SegmentErrors(file.segments[m]) = {}
             /\ cfg'.segments[m] = SegmentValues(file.segments[m])
      BY <3>4, <3>5
    <3>7. SoFar(file, cfg', at + 1)
      BY <3>6, <3>8, <3>9 DEF SoFar
    <3> QED BY <1>0, <2>2, <3>1, <3>7 DEF LoadInv
  <2> QED BY <1>3, <2>1, <2>2 DEF ReadSegment
<1>4. CASE Validate
  <2>1. CASE Reject(Problems(cfg))
    BY <1>1, <2>1
  <2>2. CASE phase' = "accepted" /\ UNCHANGED <<file, at, cfg, errors, round, kept>>
    <3>1. Loaded(file, cfg)
      BY <1>4, SevenSections DEF Validate, LoadInv, Parts, Loaded
    <3> QED BY <1>0, <2>2, <3>1 DEF LoadInv
  <2> QED BY <1>4, <2>1, <2>2 DEF Validate
<1>5. CASE WriteAndLoad
  <2>1. cfg \in Configs
    BY DEF LoadInv, IInv
  <2>2. Len(file'.segments) \in Nat /\ DOMAIN file'.segments = 1 .. Len(file'.segments)
    BY <1>5, <2>1, WrittenSegments DEF WriteAndLoad
  <2>3. SoFar(file', Fresh, 1)
    BY FreshSoFar
  <2>4. 1 \in 1 .. Parts(file') + 1
    BY <2>2 DEF Parts
  <2>7. round' = 2
    BY <1>5 DEF WriteAndLoad
  <2>5. CASE phase' = "read" /\ at' = 1 /\ cfg' = Fresh
    BY <1>0, <2>2, <2>3, <2>4, <2>5, <2>7 DEF LoadInv
  <2>6. CASE phase' = "rejected"
    BY <1>0, <2>2, <2>6, <2>7 DEF LoadInv
  <2> QED BY <1>5, <2>5, <2>6 DEF WriteAndLoad
<1>6. CASE UNCHANGED vars
  BY <1>0, <1>6 DEF vars, LoadInv
<1> QED BY <1>2, <1>3, <1>4, <1>5, <1>6 DEF Next

LEMMA SectionNames == \A s \in DOMAIN Keys : \E i \in 1 .. 7 : Sections[i] = s
<1>1. DOMAIN Keys = {"case", "grid", "numerics", "reference_state", "physics", "run", "output"}
  BY DEF Keys
<1>2. /\ Sections[1] = "case" /\ Sections[2] = "grid" /\ Sections[3] = "numerics"
      /\ Sections[4] = "reference_state" /\ Sections[5] = "physics" /\ Sections[6] = "run"
      /\ Sections[7] = "output"
  BY DEF Sections
<1> QED BY <1>1, <1>2

LEMMA AllLoaded ==
    ASSUME NEW f, NEW c, Len(f.segments) \in Nat, Loaded(f, c)
    PROVE  /\ \A s \in DOMAIN Keys : SectionErrors(f, s) = {}
           /\ \A k \in FileKeys : c.keys[k] = SectionValue(f, k)
           /\ Len(c.segments) = Len(f.segments)
           /\ \A i \in 1 .. Len(f.segments) : /\ SegmentErrors(f.segments[i]) = {}
                                              /\ c.segments[i] = SegmentValues(f.segments[i])
<1>1. ASSUME NEW i \in 1 .. 7
      PROVE  /\ SectionErrors(f, Sections[i]) = {}
             /\ \A k \in Keys[Sections[i]] : c.keys[k] = SectionValue(f, k)
  <2>1. i < Parts(f) + 1
    BY DEF Parts
  <2> QED BY <2>1 DEF Loaded, SoFar
<1>2. \A s \in DOMAIN Keys : /\ SectionErrors(f, s) = {}
                             /\ \A k \in Keys[s] : c.keys[k] = SectionValue(f, k)
  BY <1>1, SectionNames
<1>3. \A k \in FileKeys : \E s \in DOMAIN Keys : k \in Keys[s]
  BY DEF FileKeys
<1>4. Len(c.segments) = Len(f.segments)
  BY DEF Loaded, SoFar, Parts
<1>5. \A i \in 1 .. Len(c.segments) : /\ SegmentErrors(f.segments[i]) = {}
                                      /\ c.segments[i] = SegmentValues(f.segments[i])
  BY DEF Loaded, SoFar
<1> QED BY <1>2, <1>3, <1>4, <1>5

(* Nothing unknown is in a file, or a table of it, that is read.              *)
LEMMA NothingUnknown ==
    ASSUME NEW f, Typed(f), \A s \in DOMAIN Keys : SectionErrors(f, s) = {}
    PROVE  f.unknown = {}
<1>1. f.unknown \subseteq DOMAIN Keys
  BY DEF Typed, Sections, Keys
<1>2. ASSUME NEW s, UnknownKeys(s, TRUE) = {} PROVE FALSE
  BY <1>2 DEF UnknownKeys
<1>3. ASSUME NEW s \in f.unknown PROVE FALSE
  <2>1. SectionErrors(f, s) = {} /\ s \in DOMAIN Keys
    BY <1>1, <1>3
  <2>2. s = "reference_state" => HasTable(f)
    BY <1>3 DEF Typed
  <2>3. UnknownKeys(s, TRUE) \subseteq SectionErrors(f, s)
    <3>1. CASE s = "reference_state"
      BY <1>3, <2>2, <3>1 DEF SectionErrors
    <3>2. CASE s = "physics"
      BY <1>3, <3>2 DEF SectionErrors, UnknownKeys
    <3>3. CASE s = "output"
      BY <1>3, <3>3 DEF SectionErrors
    <3>4. CASE s \notin {"reference_state", "physics", "output"}
      BY <1>3, <3>4 DEF SectionErrors
    <3> QED BY <3>1, <3>2, <3>3, <3>4
  <2> QED BY <1>2, <2>1, <2>3
<1> QED BY <1>3

(* The keys read by the tables they are in.                                   *)
LEMMA TableKeys ==
    ASSUME NEW f, \A s \in DOMAIN Keys : SectionErrors(f, s) = {}
    PROVE  /\ \A k \in FileKeys \ (States \cup {"reference_state", "formats"}) :
                  \E keys \in SUBSET FileKeys : k \in keys /\ TableErrors(f.keys, keys) = {}
           /\ HasTable(f) => TableErrors(f.keys, States) = {}
<1>1. ASSUME NEW k \in FileKeys \ (States \cup {"reference_state", "formats"})
      PROVE  \E keys \in SUBSET FileKeys : k \in keys /\ TableErrors(f.keys, keys) = {}
  <2>1. PICK s \in DOMAIN Keys : k \in Keys[s]
    BY DEF FileKeys
  <2>2. SectionErrors(f, s) = {} /\ Keys[s] \subseteq FileKeys
    BY DEF FileKeys
  <2>3. s # "reference_state"
    BY <1>1, <2>1 DEF Keys
  <2>4. CASE s = "physics"
    <3>1. TableErrors(f.keys, Keys[s] \ {"reference_state"}) = {}
      BY <2>2, <2>4 DEF SectionErrors
    <3> QED BY <1>1, <2>1, <2>2, <3>1
  <2>5. CASE s = "output"
    <3>1. TableErrors(f.keys, Keys[s] \ {"formats"}) = {}
      BY <2>2, <2>5 DEF SectionErrors
    <3> QED BY <1>1, <2>1, <2>2, <3>1
  <2>6. CASE s \notin {"physics", "output"}
    <3>1. TableErrors(f.keys, Keys[s]) = {}
      BY <2>2, <2>3, <2>6 DEF SectionErrors
    <3> QED BY <2>1, <2>2, <3>1
  <2> QED BY <2>4, <2>5, <2>6
<1>2. ASSUME HasTable(f) PROVE TableErrors(f.keys, States) = {}
  <2>1. SectionErrors(f, "reference_state") = {}
    BY DEF Keys
  <2> QED BY <1>2, <2>1 DEF SectionErrors
<1> QED BY <1>1, <1>2

(* A section that is no table, or no "boundary", is missed, but for output.   *)
LEMMA StrayMissed ==
    ASSUME NEW f, Typed(f), NEW c \in Configs, Loaded(f, c), Problems(c) = {}
    PROVE  f.stray \subseteq {"unknown", "output"}
<1>1. Valued(f) /\ Len(f.segments) \in Nat
  BY TypedValued
<1>2. /\ \A s \in DOMAIN Keys : SectionErrors(f, s) = {}
      /\ \A k \in FileKeys : c.keys[k] = SectionValue(f, k)
      /\ Len(c.segments) = Len(f.segments)
  BY <1>1, AllLoaded
<1>3. /\ f.stray \subseteq {"unknown", "boundary"} \cup (DOMAIN Keys \ {"reference_state"})
      /\ \A s \in f.stray \cap DOMAIN Keys : \A k \in Keys[s] : ~ Found(f.keys[k])
      /\ "boundary" \in f.stray => f.segments = << >>
  BY DEF Typed, Absent, Found
<1>4. DOMAIN Keys = {"case", "grid", "numerics", "reference_state", "physics", "run", "output"}
  BY DEF Keys
<1>5. "boundary" \notin f.stray
  <2>1. c.segments # << >> /\ c.segments \in Seq(SegmentConfigs)
    BY DEF Problems, Configs
  <2>2. Len(c.segments) # 0
    BY <2>1
  <2> QED BY <1>2, <1>3, <2>2
<1>6. ASSUME NEW s \in {"case", "grid", "numerics", "run"}, s \in f.stray PROVE FALSE
  <2> DEFINE k == CASE s = "case" -> "name" [] s = "grid" -> "file" [] s = "numerics" -> "cfl"
                    [] OTHER -> "max_iterations"
  <2>1. k \in Keys[s] /\ k \in Required /\ s \in DOMAIN Keys /\ SectionErrors(f, s) = TableErrors(f.keys, Keys[s])
                                                                 \cup UnknownKeys(s, s \in f.unknown)
    BY DEF Keys, Required, SectionErrors
  <2> HIDE DEF k
  <2>2. ~ Found(f.keys[k])
    BY <1>3, <1>6, <2>1
  <2>3. <<k, "missing">> \in {<<x, "missing">> : x \in {r \in Keys[s] \cap Required : ~ Found(f.keys[r])}}
    BY <2>1, <2>2
  <2>4. <<k, "missing">> \in SectionErrors(f, s)
    BY <2>1, <2>3 DEF TableErrors
  <2> QED BY <1>2, <2>1, <2>4
<1>7. ASSUME "physics" \in f.stray PROVE FALSE
  <2>1. "Re_inf" \in Keys["physics"] /\ "Re_inf" \in FileKeys /\ "Re_inf" \notin States \cup {"reference_state"}
        /\ Default["Re_inf"] = 0
    BY DEF Keys, FileKeys, States, Default
  <2>2. c.keys["Re_inf"] = 0
    BY <1>2, <1>3, <1>4, <1>7, <2>1 DEF SectionValue, Read, Reads
  <2>3. "Re_inf" \in KeyProblems(c.keys)
    BY <2>2 DEF KeyProblems, Above
  <2>4. <<0, "Re_inf">> \in {<<0, k>> : k \in KeyProblems(c.keys)}
    BY <2>3
  <2> QED BY <2>4 DEF Problems
<1> QED BY <1>3, <1>4, <1>5, <1>6, <1>7

(* What the configuration has when nothing in the file was an error.          *)
LEMMA TakenWhenLoaded ==
    ASSUME Typed(file), cfg \in Configs, Loaded(file, cfg), Problems(cfg) = {}
    PROVE  TakenAsWritten
<1>1. /\ Valued(file) /\ Len(file.segments) \in Nat /\ DOMAIN file.segments = 1 .. Len(file.segments)
      /\ \A i \in DOMAIN file.segments : file.segments[i].unknown \in BOOLEAN
      /\ \A k \in FileKeys : file.keys[k].kind = "bool" => file.keys[k].val \in {0, 1}
      /\ \A i \in DOMAIN file.segments : \A k \in SegmentKeys :
             file.segments[i].keys[k].kind = "bool" => file.segments[i].keys[k].val \in {0, 1}
  BY TypedValued
<1>2. /\ \A s \in DOMAIN Keys : SectionErrors(file, s) = {}
      /\ \A k \in FileKeys : cfg.keys[k] = SectionValue(file, k)
      /\ Len(cfg.segments) = Len(file.segments)
      /\ \A i \in 1 .. Len(file.segments) : /\ SegmentErrors(file.segments[i]) = {}
                                            /\ cfg.segments[i] = SegmentValues(file.segments[i])
  BY <1>1, AllLoaded
<1>3. file.unknown = {} /\ file.stray \subseteq {"unknown", "output"}
  BY <1>2, NothingUnknown, StrayMissed
<1>4. ASSUME NEW k \in FileKeys \ (States \cup {"reference_state"})
      PROVE  Stands(file.keys, k, cfg.keys[k])
  <2>1. file.keys[k].val \in Int
    BY <1>1 DEF Valued
  <2>2. cfg.keys[k] = Read(file.keys, k)
    BY <1>2 DEF SectionValue
  <2>3. CASE k # "formats"
    <3>1. PICK keys \in SUBSET FileKeys : k \in keys /\ TableErrors(file.keys, keys) = {}
      BY <1>2, <2>3, TableKeys
    <3> QED BY <1>1, <2>1, <2>2, <3>1, ReadStands
  <2>4. CASE k = "formats"
    <3> DEFINE v == file.keys["formats"]
    <3>1. SectionErrors(file, "output") = {}
      BY <1>2 DEF Keys
    <3>2. v.kind = "absent" \/ (v.kind = "array" /\ v.val # Foreign)
      BY <3>1 DEF SectionErrors
    <3>3. "formats" \notin Required /\ Type["formats"] = "array" /\ "formats" \in FileKeys
      BY TypeIs DEF Required, FileKeys, Keys
    <3>4. CASE v.kind = "array"
      <4>1. Reads(file.keys, "formats") /\ Found(v)
        BY <3>3, <3>4 DEF Reads, Found, Converts
      <4>2. Read(file.keys, "formats") = v.val
        BY <2>1, <2>4, <3>3, <3>4, <4>1, ReadAs, TypeIs
      <4> QED BY <2>2, <2>4, <3>3, <3>4, <4>1, <4>2 DEF Stands
    <3>5. CASE v.kind = "absent"
      BY <2>2, <2>4, <3>3, <3>5 DEF Stands, Read, Reads, Found
    <3> QED BY <3>2, <3>4, <3>5
  <2> QED BY <2>3, <2>4
<1>5. ASSUME NEW k \in States
      PROVE  IF cfg.keys["reference_state"] = 1
               THEN Found(file.keys[k]) /\ Stands(file.keys, k, cfg.keys[k])
               ELSE ~ Found(file.keys[k]) \/ ~ HasTable(file)
  <2>1. k \in FileKeys /\ "reference_state" \in FileKeys /\ "reference_state" \notin States
    BY DEF FileKeys, Keys, States
  <2>2. cfg.keys["reference_state"] =
            IF HasTable(file) /\ \E r \in States : Reads(file.keys, r) THEN 1 ELSE 0
    BY <1>2, <2>1 DEF SectionValue
  <2>3. CASE ~ HasTable(file)
    BY <2>2, <2>3
  <2>4. CASE HasTable(file)
    <3>1. TableErrors(file.keys, States) = {}
      BY <1>2, <2>4, TableKeys
    <3>2. file.keys[k].val \in Int
      BY <1>1, <2>1 DEF Valued
    <3>3. Stands(file.keys, k, Read(file.keys, k)) /\ (Found(file.keys[k]) => Converts(Type[k], file.keys[k]))
      BY <1>1, <2>1, <3>1, <3>2, ReadStands
    <3>4. cfg.keys[k] = Read(file.keys, k)
      BY <1>2, <2>1, <2>4 DEF SectionValue
    <3>5. CASE cfg.keys["reference_state"] = 1
      <4>1. "reference_state" \notin KeyProblems(cfg.keys)
        <5>1. ASSUME NEW x \in KeyProblems(cfg.keys) PROVE FALSE
          <6>1. <<0, x>> \in {<<0, y>> : y \in KeyProblems(cfg.keys)}
            BY <5>1
          <6> QED BY <6>1 DEF Problems
        <5> QED BY <5>1
      <4>2. Above(cfg.keys[k], 0)
        BY <3>5, <4>1 DEF KeyProblems
      <4>3. Default[k] = 0
        BY <2>1 DEF Default, States
      <4>4. Reads(file.keys, k)
        BY <3>4, <4>2, <4>3 DEF Read, Above
      <4> QED BY <3>3, <3>4, <3>5, <4>4 DEF Reads
    <3>6. CASE cfg.keys["reference_state"] # 1
      <4>1. ~ Reads(file.keys, k)
        BY <2>2, <2>4, <3>6
      <4> QED BY <3>3, <3>6, <4>1 DEF Reads
    <3> QED BY <3>5, <3>6
  <2> QED BY <2>3, <2>4
<1>6. ASSUME NEW i \in DOMAIN file.segments
      PROVE  /\ ~ file.segments[i].unknown
             /\ \A k \in SegmentKeys : Stands(file.segments[i].keys, k, cfg.segments[i][k])
  <2> DEFINE g == file.segments[i]
             v == g.keys["state"]
  <2>1. SegmentErrors(g) = {} /\ cfg.segments[i] = [k \in SegmentKeys |-> Read(g.keys, k)]
    BY <1>1, <1>2 DEF SegmentValues
  <2>2. /\ TableErrors(g.keys, SegmentKeys \ {"state"}) = {}
        /\ Found(v) => v.kind = "array" /\ v.val = Good
        /\ UnknownKeys("boundary", g.unknown \/ v.kind = "table") = {}
    BY <2>1 DEF SegmentErrors
  <2>3. ~ g.unknown /\ v.kind # "table"
    BY <1>1, <2>2 DEF UnknownKeys
  <2>4. ASSUME NEW k \in SegmentKeys PROVE Stands(g.keys, k, Read(g.keys, k))
    <3>1. g.keys[k].val \in Int
      BY <1>1 DEF Valued
    <3>2. CASE k # "state"
      BY <1>1, <2>2, <3>1, <3>2, ReadStands
    <3>3. CASE k = "state"
      <4>1. "state" \notin Required /\ Type["state"] = "array" /\ "state" \in SegmentKeys
        BY TypeIs DEF Required, SegmentKeys
      <4>2. CASE Found(v)
        <5>1. Reads(g.keys, "state") /\ v.kind = "array"
          BY <2>2, <4>1, <4>2 DEF Reads, Converts
        <5>2. Read(g.keys, "state") = v.val
          BY <3>1, <3>3, <4>1, <5>1, ReadAs, TypeIs
        <5> QED BY <3>3, <4>1, <4>2, <5>1, <5>2 DEF Stands
      <4>3. CASE ~ Found(v)
        BY <3>3, <4>1, <4>3 DEF Stands, Read, Reads, Found
      <4> QED BY <4>2, <4>3
    <3> QED BY <3>2, <3>3
  <2> QED BY <2>1, <2>3, <2>4
<1> QED BY <1>2, <1>3, <1>4, <1>5, <1>6 DEF TakenAsWritten, Stands, Figures, Figure, HasTable

------------------------------------------------------------------------------
(* Writing and reading again.                                                 *)

(* What can be written and read again: ints that fit, names of the tables.    *)
SoundTable(t, keys) ==
    \A k \in keys : /\ k \in Ints => Narrow(t[k]) = t[k]
                    /\ k \in DOMAIN Names => t[k] \in 0 .. Names[k] - 1

Sound(c) ==
    /\ c \in Configs
    /\ Problems(c) = {}
    /\ SoundTable(c.keys, FileKeys)
    /\ c.keys["restart"] \in {0, 1} /\ c.keys["reference_state"] \in {0, 1}
    /\ c.keys["reference_state"] = 0 => \A k \in States : c.keys[k] = Default[k]
    /\ \A i \in 1 .. Len(c.segments) : /\ SoundTable(c.segments[i], SegmentKeys)
                                       /\ c.segments[i]["state"] \in {Good, Unset}

Refused(f, c) ==
    \/ \E s \in DOMAIN Keys : SectionErrors(f, s) # {}
    \/ \E i \in 1 .. Len(f.segments) : SegmentErrors(f.segments[i]) # {}
    \/ Loaded(f, c) /\ Problems(c) # {}

(* What is accepted can be written, and what is rejected the second time is   *)
(* rejected for what has been written.                                        *)
RoundInv ==
    /\ phase = "accepted" /\ round < 2 => Sound(cfg)
    /\ round = 2 => Sound(kept) /\ file = Text(to_toml(kept))
    /\ phase = "rejected" /\ round = 2 => Refused(file, cfg) \/ Broken(to_toml(kept))

LEMMA NarrowFits ==
    ASSUME NEW n \in Int, -(Word \div 2) <= n, n < Word - Word \div 2
    PROVE  Narrow(n) = n
<1> DEFINE m == n + Word \div 2
<1>1. Word \in Int /\ Word > 0 /\ m \in Int /\ 0 <= m /\ m < Word
  BY WordAssumption
<1> HIDE DEF m
<1>2. m % Word = m
  BY <1>1
<1> QED BY <1>1, <1>2, WordAssumption DEF Narrow, m

LEMMA NarrowTwice == ASSUME NEW n \in Int PROVE Narrow(Narrow(n)) = Narrow(n)
<1> DEFINE r == (n + Word \div 2) % Word
<1>1. r \in Int /\ 0 <= r /\ r < Word
  BY WordAssumption
<1> HIDE DEF r
<1>2. Narrow(n) = r - Word \div 2
  BY DEF Narrow, r
<1> QED BY <1>1, <1>2, NarrowFits, WordAssumption

LEMMA SmallFits == \A n \in -1 .. 100 : Narrow(n) = n
BY NarrowFits, WordAssumption

LEMMA DefaultFits ==
    \A k \in FileKeys \cup SegmentKeys : /\ k \in Ints => Narrow(Default[k]) = Default[k]
                                         /\ k \in DOMAIN Names => Default[k] \in 0 .. Names[k] - 1
<1>1. ASSUME NEW k \in FileKeys \cup SegmentKeys, k \in Ints
      PROVE  Default[k] \in -1 .. 100
  BY <1>1 DEF Default, Ints
<1>2. ASSUME NEW k \in FileKeys \cup SegmentKeys, k \in DOMAIN Names
      PROVE  Default[k] = 0 /\ Names[k] \in Int /\ Names[k] > 0
  BY <1>2 DEF Default, Names
<1> QED BY <1>1, <1>2, SmallFits

(* A value as to_toml writes it, and as it is read.                           *)
LEMMA ReadWritten ==
    ASSUME NEW t, NEW k \in (FileKeys \cup SegmentKeys) \ {"reference_state"}, NEW x \in Int,
           t[k] = Written(k, x), k \in Ints => Narrow(x) = x
    PROVE  /\ Found(t[k]) /\ t[k].kind # "table" /\ Reads(t, k)
           /\ Read(t, k) = IF Type[k] = "float" THEN Put(x) ELSE x
           /\ t[k].val = Read(t, k)
<1>1. /\ t[k].kind = Type[k]
      /\ t[k].val = IF Type[k] = "float" THEN Put(x) ELSE x
  BY DEF Written
<1>2. Found(t[k]) /\ t[k].kind # "table"
  BY <1>1, TypeIs DEF Found
<1>3. Reads(t, k) /\ t[k].val \in Int
  BY <1>1, <1>2 DEF Reads, Converts, Put, NaN
<1>4. k \in Ints => Type[k] # "float"
  BY TypeIs
<1> QED BY <1>1, <1>2, <1>3, <1>4, ReadAs

(* No key of a table is in error that is there, of its kind and in its range. *)
LEMMA NoTableErrors ==
    ASSUME NEW t, NEW keys,
           \A k \in keys : /\ k \in Required => Found(t[k])
                           /\ Found(t[k]) => Converts(Type[k], t[k])
                           /\ k \in DOMAIN Names => ~ (t[k].val >= Names[k])
    PROVE  TableErrors(t, keys) = {}
BY DEF TableErrors

(* The keys of what to_toml writes.                                           *)
LEMMA WrittenKeys ==
    ASSUME NEW c \in Configs, NEW k \in FileKeys
    PROVE  LET x == c.keys[k]
               t == Text(to_toml(c)).keys
           IN  t[k] = IF Left(k, c.keys) THEN Absent
                      ELSE IF k \in Strings /\ x = Quoted THEN Written(k, Other) ELSE Written(k, x)
<1> DEFINE x == c.keys[k]
           f == to_toml(c)
           t == Text(f).keys
<1>1. f.keys[k] = IF Left(k, c.keys) THEN Absent ELSE Written(k, x)
  BY DEF to_toml
<1>2. t[k] = IF k \in Strings /\ f.keys[k].val = Quoted
               THEN [kind |-> "string", val |-> Other] ELSE f.keys[k]
  BY DEF Text, to_toml
<1>3. Absent.val # Quoted
  BY DEF Absent, Quoted
<1>4. ASSUME NEW y, k \in Strings PROVE Written(k, y) = [kind |-> "string", val |-> y]
  BY <1>4, TypeIs DEF Written
<1> HIDE DEF f, x, t
<1>5. t[k] = IF Left(k, c.keys) THEN Absent
             ELSE IF k \in Strings /\ x = Quoted THEN Written(k, Other) ELSE Written(k, x)
  <2>1. CASE Left(k, c.keys)
    BY <1>1, <1>2, <1>3, <2>1
  <2>2. CASE ~ Left(k, c.keys) /\ k \in Strings
    BY <1>1, <1>2, <1>4, <2>2
  <2>3. CASE ~ Left(k, c.keys) /\ k \notin Strings
    BY <1>1, <1>2, <2>3
  <2> QED BY <2>1, <2>2, <2>3
<1> QED BY <1>5 DEF f, x, t

(* What is left out.                                                          *)
LEMMA LeftOut ==
    ASSUME NEW c, NEW k \in FileKeys
    PROVE  /\ k \in Required \cup DOMAIN Names \cup {"formats"} => ~ Left(k, c)
           /\ k \in {"reference_state"} \cup States => (Left(k, c) <=> c["reference_state"] = 0)
           /\ k = "restart" => (Left(k, c) <=> c["restart"] = 0)
           /\ k \in Strings /\ Left(k, c) => k = "restart_file" /\ c["restart"] = 0
           /\ Left(k, c) => \/ k \in {"total_time", "restart_file", "restart", "reference_state"} \cup States
                            \/ c[k] = Default[k]
<1>1. "residual_smoothing_eps" \in FileKeys /\ Default["residual_smoothing_eps"] = 0
  BY DEF Default, FileKeys, Keys
<1> QED BY <1>1 DEF Left, Required, Names, States, Strings

(* What a key that is written is read as.                                     *)
LEMMA ReadBack ==
    ASSUME NEW c, Sound(c), NEW k \in FileKeys \ {"reference_state"}
    PROVE  LET x == c.keys[k]
               t == Text(to_toml(c)).keys
           IN  /\ Left(k, c.keys) => ~ Found(t[k]) /\ Read(t, k) = Default[k] /\ t[k].kind = "absent"
               /\ ~ Left(k, c.keys) =>
                      /\ Reads(t, k) /\ t[k].val = Read(t, k)
                      /\ Read(t, k) = IF k \in Strings /\ x = Quoted THEN Other
                                      ELSE IF Type[k] = "float" THEN Put(x) ELSE x
<1> DEFINE x == c.keys[k]
           t == Text(to_toml(c)).keys
<1>1. c \in Configs /\ x \in Int
  BY DEF Sound, Configs
<1>2. t[k] = IF Left(k, c.keys) THEN Absent
             ELSE IF k \in Strings /\ x = Quoted THEN Written(k, Other) ELSE Written(k, x)
  BY <1>1, WrittenKeys
<1>3. k \in Ints => Narrow(x) = x
  BY DEF Sound, SoundTable
<1>4. /\ Other \in Int
      /\ k \in Strings => k \notin Ints /\ Type[k] # "float"
  BY TypeIs DEF Other, Strings, Ints
<1> HIDE DEF x, t
<1>5. ASSUME Left(k, c.keys)
      PROVE  ~ Found(t[k]) /\ Read(t, k) = Default[k] /\ t[k].kind = "absent"
  BY <1>2, <1>5 DEF Absent, Found, Reads, Read
<1> DEFINE back == /\ Reads(t, k) /\ t[k].val = Read(t, k)
                   /\ Read(t, k) = IF k \in Strings /\ x = Quoted THEN Other
                                   ELSE IF Type[k] = "float" THEN Put(x) ELSE x
<1>6. ASSUME ~ Left(k, c.keys), k \in Strings /\ x = Quoted
      PROVE  back
  <2>1. t[k] = Written(k, Other)
    BY <1>2, <1>6
  <2>2. /\ Reads(t, k) /\ Read(t, k) = IF Type[k] = "float" THEN Put(Other) ELSE Other
        /\ t[k].val = Read(t, k)
    BY <1>4, <1>6, <2>1, ReadWritten
  <2> QED BY <1>4, <1>6, <2>2
<1>7. ASSUME ~ Left(k, c.keys), ~ (k \in Strings /\ x = Quoted)
      PROVE  back
  <2>1. t[k] = Written(k, x)
    BY <1>2, <1>7
  <2>2. /\ Reads(t, k) /\ Read(t, k) = IF Type[k] = "float" THEN Put(x) ELSE x
        /\ t[k].val = Read(t, k)
    BY <1>1, <1>3, <2>1, ReadWritten
  <2> QED BY <1>7, <2>2
<1> QED BY <1>5, <1>6, <1>7 DEF x, t

LEMMA ReferenceWritten ==
    ASSUME NEW c, Sound(c)
    PROVE  LET f == Text(to_toml(c))
           IN  /\ HasTable(f) <=> c.keys["reference_state"] = 1
               /\ f.keys["reference_state"].kind \in {"absent", "table"}
<1>1. "reference_state" \in FileKeys /\ "reference_state" \notin Strings
  BY DEF FileKeys, Keys, Strings
<1>2. \A x : Written("reference_state", x).kind = "table"
  BY <1>1, TypeIs DEF Written
<1>3. Absent.kind = "absent"
  BY DEF Absent
<1> QED BY <1>1, <1>2, <1>3, WrittenKeys, LeftOut DEF HasTable, Sound

(* What to_toml writes is read without an error.                              *)
LEMMA WrittenSectionsClean ==
    ASSUME NEW c, Sound(c), NEW s \in DOMAIN Keys
    PROVE  SectionErrors(Text(to_toml(c)), s) = {}
<1> DEFINE f == Text(to_toml(c))
<1>1. ASSUME NEW keys \in SUBSET (FileKeys \ {"reference_state"})
      PROVE  TableErrors(f.keys, keys) = {}
  <2>1. ASSUME NEW k \in keys
        PROVE  /\ k \in Required => Found(f.keys[k])
               /\ Found(f.keys[k]) => Converts(Type[k], f.keys[k])
               /\ k \in DOMAIN Names => ~ (f.keys[k].val >= Names[k])
    <3>1. CASE Left(k, c.keys)
      <4>1. ~ Found(f.keys[k])
        BY <3>1, ReadBack
      <4> QED BY <3>1, <4>1, LeftOut
    <3>2. CASE ~ Left(k, c.keys)
      <4>1. Reads(f.keys, k) /\ f.keys[k].val = Read(f.keys, k)
        BY <3>2, ReadBack
      <4>2. ASSUME k \in DOMAIN Names
            PROVE  Read(f.keys, k) = c.keys[k] /\ c.keys[k] \in 0 .. Names[k] - 1 /\ Names[k] \in Int
        <5>1. Type[k] # "float" /\ k \notin Strings
          BY <4>2, TypeIs DEF Strings, Names
        <5>2. Read(f.keys, k) = c.keys[k]
          BY <3>2, <5>1, ReadBack
        <5> QED BY <4>2, <5>2 DEF Sound, SoundTable, Names
      <4> QED BY <4>1, <4>2 DEF Reads
    <3> QED BY <3>1, <3>2
  <2> QED BY <2>1, NoTableErrors
<1>2. f.unknown = {}
  BY DEF Text, to_toml
<1>3. \A z \in DOMAIN Keys : Keys[z] \subseteq FileKeys
  BY DEF FileKeys
<1>4. f.keys["reference_state"].kind \in {"absent", "table"}
  BY ReferenceWritten
<1>5. f.keys["formats"].kind = "array" /\ f.keys["formats"].val # Foreign
  <2>1. "formats" \in FileKeys \ {"reference_state"} /\ "formats" \notin Strings
        /\ Type["formats"] = "array" /\ ~ Left("formats", c.keys)
    BY TypeIs, LeftOut DEF FileKeys, Keys, Strings
  <2>2. c.keys["formats"] = Good
    <3>1. "formats" \notin KeyProblems(c.keys)
      <4>1. ASSUME NEW x \in KeyProblems(c.keys) PROVE FALSE
        <5>1. <<0, x>> \in {<<0, y>> : y \in KeyProblems(c.keys)}
          BY <4>1
        <5> QED BY <5>1 DEF Sound, Problems
      <4> QED BY <4>1
    <3> QED BY <3>1 DEF KeyProblems
  <2>3. Reads(f.keys, "formats") /\ f.keys["formats"].val = c.keys["formats"]
    BY <2>1, ReadBack
  <2> QED BY <2>1, <2>2, <2>3 DEF Reads, Converts, Good, Foreign
<1>6. "reference_state" \notin States /\ States \subseteq FileKeys
  BY DEF States, FileKeys, Keys
<1>7. \A z \in DOMAIN Keys : z # "physics" => "reference_state" \notin Keys[z]
  BY DEF Keys, States
<1> HIDE DEF f
<1>9. SectionErrors(f, s) = {}
  <2>1. CASE s = "reference_state"
    BY <1>1, <1>2, <1>6, <2>1 DEF SectionErrors, UnknownKeys
  <2>2. CASE s = "physics"
    <3>1. TableErrors(f.keys, Keys.physics \ {"reference_state"}) = {}
      BY <1>1, <1>3, <2>2
    <3> QED BY <1>2, <1>4, <2>2, <3>1 DEF SectionErrors, UnknownKeys
  <2>3. CASE s = "output"
    <3>1. TableErrors(f.keys, Keys.output \ {"formats"}) = {}
      BY <1>1, <1>3, <1>7, <2>3
    <3> QED BY <1>2, <1>5, <2>3, <3>1 DEF SectionErrors, UnknownKeys
  <2>4. CASE s \notin {"reference_state", "physics", "output"}
    <3>1. TableErrors(f.keys, Keys[s]) = {}
      BY <1>1, <1>3, <1>7, <2>4
    <3> QED BY <1>2, <2>4, <3>1 DEF SectionErrors, UnknownKeys
  <2> QED BY <2>1, <2>2, <2>3, <2>4
<1> QED BY <1>9 DEF f

(* The problems of a configuration, one by one.                               *)
LEMMA NoProblems ==
    ASSUME NEW c, NEW n \in Nat, DOMAIN c.segments = 1 .. n
    PROVE  Problems(c) = {} <=> /\ KeyProblems(c.keys) = {}
                                /\ c.segments # << >>
                                /\ \A i \in 1 .. n : SegmentProblems(c.keys, c.segments[i]) = {}
<1>1. ASSUME Problems(c) = {}
      PROVE  /\ KeyProblems(c.keys) = {} /\ c.segments # << >>
             /\ \A i \in 1 .. n : SegmentProblems(c.keys, c.segments[i]) = {}
  <2>1. {<<0, k>> : k \in KeyProblems(c.keys)} = {}
    BY <1>1 DEF Problems
  <2>2. c.segments # << >>
    BY <1>1 DEF Problems
  <2>3. ASSUME NEW i \in 1 .. n, NEW k \in SegmentProblems(c.keys, c.segments[i])
        PROVE  FALSE
    <3>1. <<i, k>> \in {<<i, x>> : x \in SegmentProblems(c.keys, c.segments[i])}
      BY <2>3
    <3>2. <<i, k>> \in Problems(c)
      BY <3>1 DEF Problems
    <3> QED BY <1>1, <3>2
  <2>4. ASSUME NEW k \in KeyProblems(c.keys) PROVE FALSE
    <3>1. <<0, k>> \in {<<0, x>> : x \in KeyProblems(c.keys)}
      BY <2>4
    <3> QED BY <2>1, <3>1
  <2> QED BY <2>2, <2>3, <2>4
<1>2. ASSUME KeyProblems(c.keys) = {}, c.segments # << >>,
             \A i \in 1 .. n : SegmentProblems(c.keys, c.segments[i]) = {}
      PROVE  Problems(c) = {}
  BY <1>2 DEF Problems
<1> QED BY <1>1, <1>2

LEMMA SoundSegment ==
    ASSUME NEW c, Sound(c), NEW i \in 1 .. Len(c.segments)
    PROVE  LET b == c.segments[i]
           IN  /\ \A k \in SegmentKeys : b[k] \in Int
               /\ SoundTable(b, SegmentKeys) /\ b["state"] \in {Good, Unset}
               /\ SegmentProblems(c.keys, b) = {}
               /\ \A k \in SegmentKeys \ {"state", "wall_temperature"} : b[k] # Unset
<1> DEFINE b == c.segments[i]
<1>1. Len(c.segments) \in Nat /\ DOMAIN c.segments = 1 .. Len(c.segments)
      /\ b \in SegmentConfigs
  BY DEF Sound, Configs
<1>2. SegmentProblems(c.keys, b) = {}
  BY <1>1, NoProblems DEF Sound
<1>3. \A k \in SegmentKeys : b[k] \in Int
  BY <1>1 DEF SegmentConfigs
<1>4. SoundTable(b, SegmentKeys) /\ b["state"] \in {Good, Unset}
  BY DEF Sound
<1> HIDE DEF b
<1>5. ~ (b["start"] < 2) /\ ~ (b["end"] < b["start"])
  BY <1>2 DEF SegmentProblems
<1>6. b["edge"] >= 0 /\ b["type"] >= 0
  BY <1>4 DEF SoundTable, SegmentKeys, Names
<1>7. \A k \in SegmentKeys \ {"state", "wall_temperature"} : b[k] # Unset
  BY <1>3, <1>5, <1>6 DEF SegmentKeys, Unset
<1> QED BY <1>2, <1>3, <1>4, <1>7 DEF b

(* The segments of what to_toml writes, and what they are read as.            *)
LEMMA WrittenSegmentsRead ==
    ASSUME NEW c, Sound(c), NEW i \in 1 .. Len(c.segments)
    PROVE  LET g == Text(to_toml(c)).segments[i]
           IN  /\ SegmentErrors(g) = {}
               /\ SegmentValues(g) = [k \in SegmentKeys |->
                      IF k = "wall_temperature" THEN Put(c.segments[i][k]) ELSE c.segments[i][k]]
<1> DEFINE g == Text(to_toml(c)).segments[i]
           b == c.segments[i]
<1>1. DOMAIN c.segments = 1 .. Len(c.segments)
  BY DEF Sound, Configs
<1>2. Text(to_toml(c)).segments = to_toml(c).segments
  BY DEF Text, to_toml
<1>3. g = [keys |-> [k \in SegmentKeys |-> IF b[k] = Unset THEN Absent ELSE Written(k, b[k])],
           unknown |-> FALSE]
  BY <1>1, <1>2 DEF to_toml
<1>4. /\ \A k \in SegmentKeys : b[k] \in Int
      /\ SoundTable(b, SegmentKeys) /\ b["state"] \in {Good, Unset}
      /\ \A k \in SegmentKeys \ {"state", "wall_temperature"} : b[k] # Unset
  BY SoundSegment
<1>5. "reference_state" \notin SegmentKeys
  BY DEF SegmentKeys
<1>6. \A k \in SegmentKeys : g.keys[k] = IF b[k] = Unset THEN Absent ELSE Written(k, b[k])
  BY <1>3
<1>7. g.unknown = FALSE
  BY <1>3
<1> HIDE DEF g, b
<1>8. ASSUME NEW k \in SegmentKeys, b[k] # Unset
      PROVE  /\ Reads(g.keys, k) /\ g.keys[k].val = Read(g.keys, k) /\ g.keys[k].kind # "table"
             /\ Read(g.keys, k) = IF Type[k] = "float" THEN Put(b[k]) ELSE b[k]
  <2>1. g.keys[k] = Written(k, b[k])
    BY <1>6, <1>8
  <2>2. k \in Ints => Narrow(b[k]) = b[k]
    BY <1>4 DEF SoundTable
  <2> QED BY <1>4, <1>5, <2>1, <2>2, ReadWritten
<1>9. ASSUME NEW k \in SegmentKeys, b[k] = Unset
      PROVE  /\ ~ Found(g.keys[k]) /\ g.keys[k].kind = "absent" /\ Read(g.keys, k) = Default[k]
             /\ k \in {"state", "wall_temperature"} /\ Default[k] = Unset
  <2>1. g.keys[k] = Absent
    BY <1>6, <1>9
  <2>2. ~ Found(g.keys[k]) /\ g.keys[k].kind = "absent"
    BY <2>1 DEF Absent, Found
  <2>3. k \in {"state", "wall_temperature"}
    BY <1>4, <1>9
  <2>4. Default[k] = Unset
    BY <2>3 DEF Default, SegmentKeys
  <2> QED BY <2>2, <2>3, <2>4 DEF Read, Reads
<1>10. TableErrors(g.keys, SegmentKeys \ {"state"}) = {}
  <2>1. ASSUME NEW k \in SegmentKeys \ {"state"}
        PROVE  /\ k \in Required => Found(g.keys[k])
               /\ Found(g.keys[k]) => Converts(Type[k], g.keys[k])
               /\ k \in DOMAIN Names => ~ (g.keys[k].val >= Names[k])
    <3>1. CASE b[k] = Unset
      <4>1. k = "wall_temperature" /\ ~ Found(g.keys[k])
        BY <1>9, <3>1
      <4> QED BY <4>1 DEF Required, Names
    <3>2. CASE b[k] # Unset
      <4>1. Reads(g.keys, k) /\ g.keys[k].val = Read(g.keys, k)
        BY <1>8, <3>2
      <4>2. ASSUME k \in DOMAIN Names
            PROVE  Read(g.keys, k) = b[k] /\ b[k] \in 0 .. Names[k] - 1 /\ Names[k] \in Int
        <5>1. Type[k] # "float"
          BY <4>2, TypeIs
        <5>2. Read(g.keys, k) = b[k]
          BY <1>8, <3>2, <5>1
        <5> QED BY <1>4, <4>2, <5>2 DEF SoundTable, Names
      <4> QED BY <4>1, <4>2 DEF Reads
    <3> QED BY <3>1, <3>2
  <2> QED BY <2>1, NoTableErrors
<1>11. LET v == g.keys["state"]
       IN  /\ Found(v) => v.kind = "array" /\ v.val = Good
           /\ v.kind # "table"
  <2>1. "state" \in SegmentKeys /\ Type["state"] = "array"
    BY TypeIs DEF SegmentKeys
  <2>2. CASE b["state"] = Unset
    BY <1>9, <2>1, <2>2
  <2>3. CASE b["state"] # Unset
    <3>1. /\ Reads(g.keys, "state") /\ g.keys["state"].val = b["state"]
          /\ g.keys["state"].kind # "table"
      BY <1>8, <2>1, <2>3
    <3> QED BY <1>4, <2>1, <2>3, <3>1 DEF Reads, Converts
  <2> QED BY <2>2, <2>3
<1>12. SegmentErrors(g) = {}
  BY <1>7, <1>10, <1>11 DEF SegmentErrors, UnknownKeys
<1>13. ASSUME NEW k \in SegmentKeys
       PROVE  Read(g.keys, k) = IF k = "wall_temperature" THEN Put(b[k]) ELSE b[k]
  <2>1. Type[k] = "float" <=> k = "wall_temperature"
    BY DEF Type, SegmentKeys, Ints, Strings, Names
  <2>2. CASE b[k] = Unset
    BY <1>9, <2>2 DEF Put, Unset, Inf
  <2>3. CASE b[k] # Unset
    BY <1>8, <2>1, <2>3
  <2> QED BY <2>2, <2>3
<1>14. SegmentValues(g) = [k \in SegmentKeys |-> IF k = "wall_temperature" THEN Put(b[k]) ELSE b[k]]
  BY <1>13 DEF SegmentValues
<1> QED BY <1>12, <1>14 DEF g, b

(* RoundTrip, of what becomes of a key and of what is refused the second time. *)
InQuotes(k) == {s \in Strings : k[s] = Quoted} \ (IF k["restart"] = 1 THEN {} ELSE {"restart_file"})

Checked(k) ==
    {"scaling", "gamma", "prandtl", "gas_constant", "Mach_inf", "Re_inf", "reference_length"}
    \cup (IF k["formulation"] = 1 THEN {"p_inf", "T_inf"} ELSE {})
    \cup (IF k["reference_state"] = 1 THEN States ELSE {})

Lost(c) ==
    \/ \E x \in Checked(c.keys) : c.keys[x] = Inf
    \/ c.keys["flow"] = 1 /\ c.keys["total_time"] = NaN
    \/ \E i \in DOMAIN c.segments : /\ c.segments[i]["type"] = 4
                                    /\ c.segments[i]["wall_temperature"] = Inf

Expected(k) ==
    [x \in FileKeys |->
        CASE x \in InQuotes(k) -> Other
          [] x = "restart_file" /\ k["restart"] = 0 -> Empty
          [] x = "total_time" /\ ~Above(k[x], 0) -> 0
          [] x \in {y \in FileKeys : Type[y] = "float"} /\ k[x] = Inf -> NaN
          [] OTHER -> k[x]]

(* The keys, as they are loaded of what has been written.                     *)
LEMMA KeysBack ==
    ASSUME NEW c, Sound(c), NEW k \in FileKeys
    PROVE  SectionValue(Text(to_toml(c)), k) = Expected(c.keys)[k]
<1> DEFINE f == Text(to_toml(c))
           x == c.keys[k]
           e == Expected(c.keys)[k]
<1>1. c.keys["restart"] \in {0, 1} /\ c.keys["reference_state"] \in {0, 1}
  BY DEF Sound
<1>2. e = CASE k \in InQuotes(c.keys) -> Other
            [] k = "restart_file" /\ c.keys["restart"] = 0 -> Empty
            [] k = "total_time" /\ ~Above(x, 0) -> 0
            [] Type[k] = "float" /\ x = Inf -> NaN
            [] OTHER -> x
  BY DEF Expected
<1>3. k \in InQuotes(c.keys) <=> k \in Strings /\ x = Quoted /\ (k = "restart_file" => c.keys["restart"] = 1)
  BY DEF InQuotes
<1>4. k \in Strings \cup {"reference_state"} => Type[k] # "float"
  BY TypeIs DEF Strings
<1>5. "total_time" \notin Strings \cup {"reference_state"} /\ "reference_state" \notin Strings
  BY DEF Strings
<1>6. HasTable(f) <=> c.keys["reference_state"] = 1
  BY ReferenceWritten
<1>7. ASSUME k # "reference_state"
      PROVE  /\ Left(k, c.keys) => Read(f.keys, k) = Default[k]
             /\ ~ Left(k, c.keys) =>
                    Read(f.keys, k) = IF k \in Strings /\ x = Quoted THEN Other
                                      ELSE IF Type[k] = "float" THEN Put(x) ELSE x
  BY <1>7, ReadBack
<1>8. ASSUME k # "reference_state", ~ Left(k, c.keys) PROVE Read(f.keys, k) = e
  <2>1. k = "restart_file" => c.keys["restart"] = 1
    BY <1>1, <1>8 DEF Left
  <2>2. k = "total_time" => Above(x, 0)
    BY <1>8 DEF Left
  <2> HIDE DEF f, x, e
  <2>3. Read(f.keys, k) = IF k \in Strings /\ x = Quoted THEN Other
                          ELSE IF Type[k] = "float" THEN Put(x) ELSE x
    BY <1>7, <1>8
  <2>4. CASE k \in Strings /\ x = Quoted
    BY <1>2, <1>3, <1>4, <1>5, <2>1, <2>3, <2>4
  <2>5. CASE ~ (k \in Strings /\ x = Quoted)
    BY <1>1, <1>2, <1>3, <2>1, <2>2, <2>3, <2>5 DEF Put
  <2> QED BY <2>4, <2>5
<1>9. ASSUME k # "reference_state", Left(k, c.keys), k \notin States PROVE Default[k] = e
  <2>1. CASE k = "total_time"
    <3>1. ~ Above(x, 0) /\ Default[k] = 0
      BY <1>9, <2>1 DEF Left, States, Default, Strings
    <3>2. x # Inf
      BY <3>1 DEF Above, Inf, NaN
    <3> QED BY <1>2, <1>3, <1>5, <2>1, <3>1, <3>2
  <2>2. CASE k = "restart_file"
    <3>1. c.keys["restart"] = 0 /\ Default[k] = 0
      BY <1>9, <2>2 DEF Left, States, Default
    <3>2. k \in Strings
      BY <2>2 DEF Strings
    <3> QED BY <1>2, <1>3, <1>4, <2>2, <3>1, <3>2 DEF Empty
  <2>3. CASE k = "restart"
    <3>1. x = 0 /\ Default[k] = 0 /\ k \notin Strings
      BY <1>9, <2>3 DEF Left, States, Default, Strings
    <3> QED BY <1>2, <1>3, <2>3, <3>1 DEF Inf
  <2>4. CASE k \notin {"total_time", "restart_file", "restart"}
    <3>1. x = Default[k] /\ k \notin Strings
      BY <1>9, <2>4, LeftOut
    <3>2. x # Inf
      BY <3>1 DEF Default, Inf, Plain, Good, Unset
    <3> QED BY <1>2, <1>3, <2>4, <3>1, <3>2
  <2> QED BY <2>1, <2>2, <2>3, <2>4
<1>10. CASE k = "reference_state"
  <2>1. "reference_state" \notin States /\ "density" \in States /\ States \subseteq FileKeys
    BY DEF States, FileKeys, Keys
  <2>2. HasTable(f) => Reads(f.keys, "density")
    <3>1. HasTable(f) => ~ Left("density", c.keys)
      BY <1>6, <2>1, LeftOut
    <3> QED BY <2>1, <3>1, ReadBack
  <2>3. SectionValue(f, k) = IF HasTable(f) THEN 1 ELSE 0
    BY <1>10, <2>1, <2>2 DEF SectionValue
  <2>4. e = x
    BY <1>2, <1>3, <1>4, <1>5, <1>10
  <2> QED BY <1>1, <1>6, <1>10, <2>3, <2>4
<1>11. CASE k \in States
  <2>1. k # "reference_state" /\ k \notin Strings /\ k # "total_time"
    BY <1>11 DEF States, Strings
  <2>2. Left(k, c.keys) <=> ~ HasTable(f)
    BY <1>1, <1>6, <1>11, LeftOut
  <2>3. CASE HasTable(f)
    BY <1>8, <1>11, <2>1, <2>2, <2>3 DEF SectionValue
  <2>4. CASE ~ HasTable(f)
    <3>1. x = Default[k]
      BY <1>1, <1>6, <1>11, <2>4 DEF Sound
    <3>2. x = 0
      BY <1>11, <3>1 DEF Default, States
    <3>3. e = x
      BY <1>2, <1>3, <2>1, <3>2 DEF Inf, Empty, Strings
    <3> QED BY <1>11, <2>4, <3>1, <3>3 DEF SectionValue
  <2> QED BY <2>3, <2>4
<1>12. CASE k \notin States \cup {"reference_state"}
  <2>1. SectionValue(f, k) = Read(f.keys, k)
    BY <1>12 DEF SectionValue
  <2> QED BY <1>7, <1>8, <1>9, <1>12, <2>1
<1> QED BY <1>10, <1>11, <1>12

(* KeyProblems, one after the other.                                          *)
LEMMA NoKeyProblems ==
    ASSUME NEW c
    PROVE  KeyProblems(c) = {} <=>
             /\ \A k \in {"name", "file", "directory"} : c[k] # Empty
             /\ \A k \in {"nx", "ny", "display_frequency", "write_frequency"} : ~ (c[k] < 1)
             /\ \A k \in {"scaling", "cfl", "prandtl", "gas_constant", "Mach_inf", "Re_inf",
                          "reference_length"} : Above(c[k], 0)
             /\ c["formulation"] = 1 => Above(c["p_inf"], 0) /\ Above(c["T_inf"], 0)
             /\ Above(c["gamma"], 10) /\ ~ Above(c["cfl"], 100)
             /\ c["flow"] = 0 => ~ (c["max_iterations"] < 1)
             /\ c["flow"] = 1 => ~ (c["total_time"] <= 0)
             /\ c["restart"] = 1 => c["restart_file"] # Empty
             /\ IF c["reference_state"] = 0 THEN c["formulation"] # 0
                                            ELSE \A r \in States : Above(c[r], 0)
             /\ c["formats"] = Good
<1> DEFINE p == KeyProblems(c)
           all == {"name", "file", "directory", "nx", "ny", "display_frequency", "write_frequency",
                   "scaling", "cfl", "prandtl", "gas_constant", "Mach_inf", "Re_inf",
                   "reference_length", "p_inf", "T_inf", "gamma", "max_iterations", "total_time",
                   "restart_file", "reference_state", "formats"}
<1>1. p \subseteq all
  BY DEF KeyProblems
<1>2. \A k \in {"name", "file", "directory"} : k \in p <=> c[k] = Empty
  BY DEF KeyProblems
<1>3. \A k \in {"nx", "ny", "display_frequency", "write_frequency"} : k \in p <=> c[k] < 1
  BY DEF KeyProblems
<1>4. \A k \in {"scaling", "prandtl", "gas_constant", "Mach_inf", "Re_inf", "reference_length"} :
         k \in p <=> ~ Above(c[k], 0)
  BY DEF KeyProblems
<1>5. /\ "cfl" \in p <=> ~ Above(c["cfl"], 0) \/ Above(c["cfl"], 100)
      /\ \A k \in {"p_inf", "T_inf"} : k \in p <=> c["formulation"] = 1 /\ ~ Above(c[k], 0)
      /\ "gamma" \in p <=> ~ Above(c["gamma"], 10)
  BY DEF KeyProblems
<1>6. /\ "max_iterations" \in p <=> c["flow"] = 0 /\ c["max_iterations"] < 1
      /\ "total_time" \in p <=> c["flow"] = 1 /\ c["total_time"] <= 0
      /\ "restart_file" \in p <=> c["restart"] = 1 /\ c["restart_file"] = Empty
      /\ "formats" \in p <=> c["formats"] # Good
  BY DEF KeyProblems
<1>7. "reference_state" \in p <=>
         IF c["reference_state"] = 0 THEN c["formulation"] = 0 ELSE \E r \in States : ~ Above(c[r], 0)
  BY DEF KeyProblems
<1>8. p = {} <=> \A k \in all : k \notin p
  BY <1>1
<1> HIDE DEF p
<1> DEFINE none == /\ \A k \in {"name", "file", "directory"} : k \notin p
                   /\ \A k \in {"nx", "ny", "display_frequency", "write_frequency"} : k \notin p
                   /\ \A k \in {"scaling", "prandtl", "gas_constant", "Mach_inf", "Re_inf",
                                "reference_length"} : k \notin p
                   /\ "cfl" \notin p /\ "p_inf" \notin p /\ "T_inf" \notin p /\ "gamma" \notin p
                   /\ "max_iterations" \notin p /\ "total_time" \notin p /\ "restart_file" \notin p
                   /\ "reference_state" \notin p /\ "formats" \notin p
<1>9. p = {} <=> none
  BY <1>8
<1> QED BY <1>2, <1>3, <1>4, <1>5, <1>6, <1>7, <1>9 DEF p

(* What the keys validate looks at have become.                               *)
LEMMA ExpectedKeys ==
    ASSUME NEW c, Sound(c)
    PROVE  LET k == c.keys
               e == Expected(c.keys)
           IN  /\ \A x \in {"name", "file", "directory"} : e[x] = Empty <=> k[x] = Empty
               /\ k["restart"] = 1 => (e["restart_file"] = Empty <=> k["restart_file"] = Empty)
               /\ \A x \in {"nx", "ny", "display_frequency", "write_frequency", "max_iterations",
                            "formulation", "flow", "restart", "reference_state", "formats"} :
                      e[x] = k[x]
               /\ \A x \in {"scaling", "cfl", "prandtl", "gas_constant", "Mach_inf", "Re_inf",
                            "reference_length", "p_inf", "T_inf", "gamma"} \cup States :
                      e[x] = Put(k[x])
               /\ e["total_time"] = IF ~ Above(k["total_time"], 0) THEN 0 ELSE Put(k["total_time"])
<1> DEFINE k == c.keys
           e == Expected(c.keys)
<1>1. ASSUME NEW x \in FileKeys
      PROVE  e[x] = CASE x \in InQuotes(k) -> Other
                      [] x = "restart_file" /\ k["restart"] = 0 -> Empty
                      [] x = "total_time" /\ ~Above(k[x], 0) -> 0
                      [] Type[x] = "float" /\ k[x] = Inf -> NaN
                      [] OTHER -> k[x]
  BY DEF Expected
<1>2. \A x : x \in InQuotes(k) => x \in Strings /\ k[x] = Quoted
  BY DEF InQuotes
<1> HIDE DEF k, e
<1>3. ASSUME NEW x \in {"name", "file", "directory", "restart_file"}, x = "restart_file" => k["restart"] = 1
      PROVE  e[x] = Empty <=> k[x] = Empty
  <2>1. x \in FileKeys /\ x \in Strings
    BY DEF FileKeys, Keys, Strings
  <2>2. Type[x] # "float"
    BY <2>1, TypeIs
  <2>3. e[x] = IF x \in InQuotes(k) THEN Other ELSE k[x]
    BY <1>1, <1>3, <2>1, <2>2
  <2> QED BY <1>2, <2>3 DEF Other, Empty, Quoted
<1>4. ASSUME NEW x \in {"nx", "ny", "display_frequency", "write_frequency", "max_iterations",
                        "formulation", "flow", "restart", "reference_state", "formats"}
      PROVE  e[x] = k[x]
  <2>1. x \in FileKeys /\ x \notin Strings
    BY DEF FileKeys, Keys, Strings
  <2>2. Type[x] # "float"
    BY <2>1 DEF Type, Ints, Strings, Names
  <2> QED BY <1>1, <1>2, <2>1, <2>2
<1>5. ASSUME NEW x \in {"scaling", "cfl", "prandtl", "gas_constant", "Mach_inf", "Re_inf",
                        "reference_length", "p_inf", "T_inf", "gamma"} \cup States
      PROVE  e[x] = Put(k[x])
  <2>1. x \in FileKeys /\ x \notin Strings
    BY DEF FileKeys, Keys, Strings, States
  <2>2. Type[x] = "float"
    BY <2>1 DEF Type, Ints, Strings, Names, States
  <2>3. x # "restart_file" /\ x # "total_time"
    BY DEF States
  <2> QED BY <1>1, <1>2, <2>1, <2>2, <2>3 DEF Put
<1>6. e["total_time"] = IF ~ Above(k["total_time"], 0) THEN 0 ELSE Put(k["total_time"])
  <2>1. "total_time" \in FileKeys /\ "total_time" \notin Strings
    BY DEF FileKeys, Keys, Strings
  <2>2. Type["total_time"] = "float"
    BY <2>1 DEF Type, Ints, Strings, Names
  <2> QED BY <1>1, <1>2, <2>1, <2>2 DEF Put, Above, Inf, NaN
<1> QED BY <1>3, <1>4, <1>5, <1>6 DEF k, e

(* A configuration is refused after it has been written exactly if it has a   *)
(* value that validate refuses and that was accepted before it was written.   *)
LEMMA ProblemsBack ==
    ASSUME NEW c, Sound(c), NEW d,
           \A k \in FileKeys : d.keys[k] = Expected(c.keys)[k],
           DOMAIN d.segments = 1 .. Len(c.segments),
           \A i \in 1 .. Len(c.segments) :
               d.segments[i] = [k \in SegmentKeys |->
                   IF k = "wall_temperature" THEN Put(c.segments[i][k]) ELSE c.segments[i][k]]
    PROVE  Problems(d) = {} <=> ~ Lost(c)
<1> DEFINE k == c.keys
           e == d.keys
           n == Len(c.segments)
<1>1. n \in Nat /\ DOMAIN c.segments = 1 .. n
  BY DEF Sound, Configs
<1>2. KeyProblems(k) = {} /\ c.segments # << >>
  BY <1>1, NoProblems DEF Sound
<1>3. \A x \in FileKeys : k[x] \in Int
  BY DEF Sound, Configs
<1>4. d.segments # << >>
  <2>1. n # 0
    BY <1>1, <1>2 DEF Sound, Configs
  <2> QED BY <1>1, <2>1
<1>5. KeyProblems(e) = {} <=> /\ \A x \in Checked(k) : k[x] # Inf
                              /\ ~ (k["flow"] = 1 /\ k["total_time"] = NaN)
  <2> DEFINE ex == Expected(c.keys)
  <2>1. /\ \A x \in {"name", "file", "directory"} : ex[x] = Empty <=> k[x] = Empty
        /\ k["restart"] = 1 => (ex["restart_file"] = Empty <=> k["restart_file"] = Empty)
        /\ \A x \in {"nx", "ny", "display_frequency", "write_frequency", "max_iterations",
                     "formulation", "flow", "restart", "reference_state", "formats"} : ex[x] = k[x]
        /\ \A x \in {"scaling", "cfl", "prandtl", "gas_constant", "Mach_inf", "Re_inf",
                     "reference_length", "p_inf", "T_inf", "gamma"} \cup States : ex[x] = Put(k[x])
        /\ ex["total_time"] = IF ~ Above(k["total_time"], 0) THEN 0 ELSE Put(k["total_time"])
    BY ExpectedKeys
  <2>2. {"name", "file", "directory", "restart_file", "nx", "ny", "display_frequency",
         "write_frequency", "max_iterations", "formulation", "flow", "restart", "reference_state",
         "formats", "scaling", "cfl", "prandtl", "gas_constant", "Mach_inf", "Re_inf",
         "reference_length", "p_inf", "T_inf", "gamma", "total_time"} \cup States \subseteq FileKeys
    BY DEF FileKeys, Keys, States
  <2> HIDE DEF k, e, ex
  <2>3. \A x \in FileKeys : e[x] = ex[x]
    BY DEF e, ex
  <2>4. k["reference_state"] \in {0, 1}
    BY DEF Sound, k
  <2>5. ASSUME NEW x \in FileKeys, NEW bound \in {0, 10}
        PROVE  Above(Put(k[x]), bound) <=> Above(k[x], bound) /\ k[x] # Inf
    BY <1>3 DEF Above, Put, Inf, NaN, k
  <2>6. Above(k["cfl"], 0) /\ ~ Above(k["cfl"], 100) => k["cfl"] # Inf
    BY DEF Above, Inf, NaN
  <2>7. (ex["total_time"] <= 0) <=> ~ Above(k["total_time"], 0)
    <3>1. k["total_time"] \in Int
      BY <1>3, <2>2 DEF k
    <3>2. ex["total_time"] = IF ~ Above(k["total_time"], 0) THEN 0 ELSE Put(k["total_time"])
      BY <2>1
    <3> QED BY <3>1, <3>2 DEF Above, Put, Inf, NaN
  <2>8. k["flow"] = 1 => (k["total_time"] = NaN <=> ~ Above(k["total_time"], 0))
    BY <1>2, <1>3, <2>2, NoKeyProblems DEF Above, NaN, k
  <2>9. /\ \A x \in {"name", "file", "directory"} : e[x] # Empty
        /\ \A x \in {"nx", "ny", "display_frequency", "write_frequency"} : ~ (e[x] < 1)
        /\ ~ Above(e["cfl"], 100) /\ Above(e["cfl"], 0)
        /\ e["flow"] = 0 => ~ (e["max_iterations"] < 1)
        /\ e["restart"] = 1 => e["restart_file"] # Empty
        /\ e["reference_state"] = 0 => e["formulation"] # 0
        /\ e["formats"] = Good
    <3>1. KeyProblems(k) = {}
      BY <1>2 DEF k
    <3>2. /\ \A x \in {"name", "file", "directory"} : k[x] # Empty
          /\ \A x \in {"nx", "ny", "display_frequency", "write_frequency"} : ~ (k[x] < 1)
          /\ Above(k["cfl"], 0) /\ ~ Above(k["cfl"], 100)
          /\ k["flow"] = 0 => ~ (k["max_iterations"] < 1)
          /\ k["restart"] = 1 => k["restart_file"] # Empty
          /\ k["reference_state"] = 0 => k["formulation"] # 0
          /\ k["formats"] = Good
      BY <3>1, NoKeyProblems
    <3>3. ex["cfl"] = k["cfl"]
      BY <2>1, <2>6, <3>2 DEF Put
    <3> QED BY <2>1, <2>2, <2>3, <3>2, <3>3
  <2>10. /\ \A x \in {"scaling", "prandtl", "gas_constant", "Mach_inf", "Re_inf", "reference_length"} :
                Above(k[x], 0)
         /\ k["formulation"] = 1 => Above(k["p_inf"], 0) /\ Above(k["T_inf"], 0)
         /\ Above(k["gamma"], 10)
         /\ k["reference_state"] = 1 => \A r \in States : Above(k[r], 0)
    <3>1. KeyProblems(k) = {}
      BY <1>2 DEF k
    <3> QED BY <3>1, NoKeyProblems
  <2>11. KeyProblems(e) = {} <=>
           /\ \A x \in {"scaling", "prandtl", "gas_constant", "Mach_inf", "Re_inf", "reference_length"} :
                  Above(e[x], 0)
           /\ e["formulation"] = 1 => Above(e["p_inf"], 0) /\ Above(e["T_inf"], 0)
           /\ Above(e["gamma"], 10)
           /\ e["flow"] = 1 => ~ (e["total_time"] <= 0)
           /\ e["reference_state"] # 0 => \A r \in States : Above(e[r], 0)
    <3>1. KeyProblems(e) = {} <=>
             /\ \A x \in {"name", "file", "directory"} : e[x] # Empty
             /\ \A x \in {"nx", "ny", "display_frequency", "write_frequency"} : ~ (e[x] < 1)
             /\ \A x \in {"scaling", "cfl", "prandtl", "gas_constant", "Mach_inf", "Re_inf",
                          "reference_length"} : Above(e[x], 0)
             /\ e["formulation"] = 1 => Above(e["p_inf"], 0) /\ Above(e["T_inf"], 0)
             /\ Above(e["gamma"], 10) /\ ~ Above(e["cfl"], 100)
             /\ e["flow"] = 0 => ~ (e["max_iterations"] < 1)
             /\ e["flow"] = 1 => ~ (e["total_time"] <= 0)
             /\ e["restart"] = 1 => e["restart_file"] # Empty
             /\ IF e["reference_state"] = 0 THEN e["formulation"] # 0
                                            ELSE \A r \in States : Above(e[r], 0)
             /\ e["formats"] = Good
      BY NoKeyProblems
    <3> QED BY <2>9, <3>1
  <2>12. /\ \A x \in {"scaling", "prandtl", "gas_constant", "Mach_inf", "Re_inf", "reference_length",
                        "p_inf", "T_inf"} \cup States :
                Above(e[x], 0) <=> Above(k[x], 0) /\ k[x] # Inf
         /\ Above(e["gamma"], 10) <=> Above(k["gamma"], 10) /\ k["gamma"] # Inf
         /\ e["formulation"] = k["formulation"] /\ e["flow"] = k["flow"]
         /\ e["reference_state"] = k["reference_state"] /\ e["total_time"] = ex["total_time"]
    BY <2>1, <2>2, <2>3, <2>5
  <2>13. KeyProblems(e) = {} <=>
           /\ \A x \in {"scaling", "prandtl", "gas_constant", "Mach_inf", "Re_inf", "reference_length",
                         "gamma"} : k[x] # Inf
           /\ k["formulation"] = 1 => k["p_inf"] # Inf /\ k["T_inf"] # Inf
           /\ ~ (k["flow"] = 1 /\ k["total_time"] = NaN)
           /\ k["reference_state"] = 1 => \A r \in States : k[r] # Inf
    <3>1. (\A x \in {"scaling", "prandtl", "gas_constant", "Mach_inf", "Re_inf", "reference_length"} :
              Above(e[x], 0))
          <=> (\A x \in {"scaling", "prandtl", "gas_constant", "Mach_inf", "Re_inf",
                         "reference_length"} : k[x] # Inf)
      BY <2>10, <2>12
    <3>2. Above(e["gamma"], 10) <=> k["gamma"] # Inf
      BY <2>10, <2>12
    <3>3. (e["formulation"] = 1 => Above(e["p_inf"], 0) /\ Above(e["T_inf"], 0))
          <=> (k["formulation"] = 1 => k["p_inf"] # Inf /\ k["T_inf"] # Inf)
      BY <2>10, <2>12
    <3>4. (e["flow"] = 1 => ~ (e["total_time"] <= 0))
          <=> ~ (k["flow"] = 1 /\ k["total_time"] = NaN)
      BY <2>7, <2>8, <2>12
    <3>5. (e["reference_state"] # 0 => \A r \in States : Above(e[r], 0))
          <=> (k["reference_state"] = 1 => \A r \in States : k[r] # Inf)
      <4>1. \A r \in States : Above(e[r], 0) <=> Above(k[r], 0) /\ k[r] # Inf
        BY <2>12
      <4>2. CASE k["reference_state"] = 0
        BY <2>12, <4>2
      <4>3. CASE k["reference_state"] = 1
        BY <2>10, <2>12, <4>1, <4>3
      <4> QED BY <2>4, <4>2, <4>3
    <3> QED BY <2>11, <3>1, <3>2, <3>3, <3>4, <3>5
  <2> QED BY <2>13 DEF Checked
<1>6. ASSUME NEW i \in 1 .. n
      PROVE  SegmentProblems(e, d.segments[i]) = {} <=>
                 ~ (c.segments[i]["type"] = 4 /\ c.segments[i]["wall_temperature"] = Inf)
  <2> DEFINE a == c.segments[i]
             b == d.segments[i]
  <2>1. /\ \A x \in SegmentKeys : a[x] \in Int
        /\ SegmentProblems(k, a) = {}
    BY SoundSegment
  <2>2. \A x \in SegmentKeys : b[x] = IF x = "wall_temperature" THEN Put(a[x]) ELSE a[x]
    <3>1. b = [x \in SegmentKeys |-> IF x = "wall_temperature" THEN Put(a[x]) ELSE a[x]]
      BY <1>6
    <3> HIDE DEF a, b
    <3> QED BY <3>1
  <2>3. e["nx"] = k["nx"] /\ e["ny"] = k["ny"]
    BY ExpectedKeys DEF FileKeys, Keys
  <2> HIDE DEF a, b, e, k
  <2>4. /\ b["start"] = a["start"] /\ b["end"] = a["end"] /\ b["edge"] = a["edge"]
        /\ b["type"] = a["type"] /\ b["state"] = a["state"]
        /\ b["wall_temperature"] = Put(a["wall_temperature"])
    BY <2>2 DEF SegmentKeys
  <2>5. \A t \in {e, k}, s \in {a, b} :
          SegmentProblems(t, s) = {} <=>
             /\ ~ (s["start"] < 2)
             /\ ~ (s["end"] < s["start"] \/ s["end"] > LastNode(t, s["edge"]))
             /\ ~ (CASE s["type"] = 0 -> FALSE
                     [] s["type"] = 4 -> ~ Above(s["wall_temperature"], 0)
                     [] OTHER -> s["wall_temperature"] # Unset)
             /\ ~ (s["type"] \notin {0, 4} /\ s["state"] # Unset)
    BY DEF SegmentProblems
  <2>6. LastNode(e, b["edge"]) = LastNode(k, a["edge"])
    BY <2>3, <2>4 DEF LastNode
  <2>7. a["wall_temperature"] \in Int
    BY <2>1 DEF SegmentKeys
  <2>8. /\ Above(Put(a["wall_temperature"]), 0) <=> Above(a["wall_temperature"], 0)
                                                    /\ a["wall_temperature"] # Inf
        /\ Put(a["wall_temperature"]) = Unset <=> a["wall_temperature"] = Unset
    BY <2>7 DEF Above, Put, Inf, NaN, Unset
  <2>9. SegmentProblems(e, b) = {} <=> ~ (a["type"] = 4 /\ a["wall_temperature"] = Inf)
    BY <2>1, <2>4, <2>5, <2>6, <2>8
  <2> QED BY <2>9 DEF a, b
<1>7. Problems(d) = {} <=> /\ KeyProblems(e) = {}
                           /\ \A i \in 1 .. n : SegmentProblems(e, d.segments[i]) = {}
  BY <1>1, <1>4, NoProblems
<1> HIDE DEF k, e, n
<1> QED BY <1>1, <1>5, <1>6, <1>7 DEF Lost, k, n

(* What has been loaded without an error can be written.                      *)
LEMMA ReadSound ==
    ASSUME NEW t, NEW all, NEW keys, NEW k \in keys \cap all, k \in FileKeys \cup SegmentKeys,
           TypedTable(t, all), TableErrors(t, keys) = {}
    PROVE  /\ k \in Ints => Narrow(Read(t, k)) = Read(t, k)
           /\ k \in DOMAIN Names => Read(t, k) \in 0 .. Names[k] - 1
<1>1. t[k] \in Values /\ (t[k].kind = "string" => t[k].val \in Nat)
  BY DEF TypedTable
<1>2. t[k].val \in Int
  BY <1>1 DEF Values
<1>3. /\ k \in Ints => Narrow(Default[k]) = Default[k]
      /\ k \in DOMAIN Names => Default[k] \in 0 .. Names[k] - 1
  BY DefaultFits
<1>4. CASE ~ Reads(t, k)
  BY <1>3, <1>4 DEF Read
<1>5. CASE Reads(t, k)
  <2>1. ASSUME k \in DOMAIN Names PROVE ~ (t[k].val >= Names[k])
    <3>1. ASSUME t[k].val >= Names[k] PROVE FALSE
      <4>1. <<k, "name">> \in {<<x, "name">> :
                x \in {r \in keys \cap DOMAIN Names : Reads(t, r) /\ t[r].val >= Names[r]}}
        BY <1>5, <2>1, <3>1
      <4> QED BY <4>1 DEF TableErrors
    <3> QED BY <3>1
  <2>2. k \in DOMAIN Names => Names[k] \in Int
    BY DEF Names
  <2>3. k \in DOMAIN Names => Type[k] = "string" /\ k \notin Ints
    BY TypeIs
  <2>4. k \in Ints => Narrow(Read(t, k)) = Read(t, k)
    BY <1>2, <1>5, ReadAs, NarrowTwice
  <2>5. k \in DOMAIN Names => Read(t, k) \in 0 .. Names[k] - 1
    <3> SUFFICES ASSUME k \in DOMAIN Names PROVE Read(t, k) \in 0 .. Names[k] - 1
      OBVIOUS
    <3>1. t[k].kind = "string" /\ Read(t, k) = t[k].val
      BY <1>2, <1>5, <2>3, ReadAs
    <3> QED BY <1>1, <2>1, <2>2, <3>1
  <2> QED BY <2>4, <2>5
<1> QED BY <1>4, <1>5

LEMMA LoadedSound ==
    ASSUME NEW f, Typed(f), NEW c \in Configs, Loaded(f, c), Problems(c) = {}
    PROVE  Sound(c)
<1>1. /\ Len(f.segments) \in Nat /\ DOMAIN f.segments = 1 .. Len(f.segments)
      /\ TypedTable(f.keys, FileKeys)
      /\ \A i \in DOMAIN f.segments : TypedTable(f.segments[i].keys, SegmentKeys)
  BY TypedValued DEF Typed
<1>2. /\ \A s \in DOMAIN Keys : SectionErrors(f, s) = {}
      /\ \A k \in FileKeys : c.keys[k] = SectionValue(f, k)
      /\ Len(c.segments) = Len(f.segments)
      /\ \A i \in 1 .. Len(f.segments) : /\ SegmentErrors(f.segments[i]) = {}
                                         /\ c.segments[i] = SegmentValues(f.segments[i])
  BY <1>1, AllLoaded
<1>3. SoundTable(c.keys, FileKeys)
  <2> SUFFICES ASSUME NEW k \in FileKeys, k \in Ints \cup DOMAIN Names
               PROVE  /\ k \in Ints => Narrow(c.keys[k]) = c.keys[k]
                      /\ k \in DOMAIN Names => c.keys[k] \in 0 .. Names[k] - 1
    BY DEF SoundTable
  <2>1. k \notin States \cup {"reference_state", "formats"}
    BY DEF Ints, Names, States
  <2>2. PICK keys \in SUBSET FileKeys : k \in keys /\ TableErrors(f.keys, keys) = {}
    BY <1>2, <2>1, TableKeys
  <2>3. c.keys[k] = Read(f.keys, k)
    BY <1>2, <2>1 DEF SectionValue
  <2> QED BY <1>1, <2>2, <2>3, ReadSound
<1>4. c.keys["restart"] \in {0, 1}
  <2>1. /\ "restart" \in FileKeys /\ "restart" \notin States \cup {"reference_state"} \cup Ints
        /\ Default["restart"] = 0
    BY DEF FileKeys, Keys, States, Ints, Default
  <2>2. c.keys["restart"] = Read(f.keys, "restart")
    BY <1>2, <2>1 DEF SectionValue
  <2>3. ASSUME Reads(f.keys, "restart") PROVE Read(f.keys, "restart") \in {0, 1}
    <3> DEFINE v == f.keys["restart"]
    <3>1. /\ Type["restart"] = "bool"
          /\ v.val \in Int /\ (v.kind = "bool" => v.val \in {0, 1})
      BY <1>1, <2>1, TypeIs DEF TypedTable, Values
    <3>2. Converted("bool", v) \in {0, 1}
      BY <2>3, <3>1 DEF Reads, Converts, Converted
    <3> QED BY <2>1, <2>3, <3>1, <3>2, ReadAs
  <2> QED BY <2>1, <2>2, <2>3 DEF Read
<1>5. /\ c.keys["reference_state"] \in {0, 1}
      /\ c.keys["reference_state"] = 0 => \A k \in States : c.keys[k] = Default[k]
  <2>1. "reference_state" \in FileKeys \ States /\ States \subseteq FileKeys
    BY DEF FileKeys, Keys, States
  <2>2. c.keys["reference_state"] = IF HasTable(f) /\ \E r \in States : Reads(f.keys, r) THEN 1 ELSE 0
    BY <1>2, <2>1 DEF SectionValue
  <2>3. \A k \in States : c.keys[k] = IF HasTable(f) THEN Read(f.keys, k) ELSE Default[k]
    BY <1>2, <2>1 DEF SectionValue
  <2> QED BY <2>2, <2>3 DEF Read
<1>6. ASSUME NEW i \in 1 .. Len(c.segments)
      PROVE  /\ SoundTable(c.segments[i], SegmentKeys)
             /\ c.segments[i]["state"] \in {Good, Unset}
  <2> DEFINE g == f.segments[i]
  <2>1. /\ SegmentErrors(g) = {} /\ c.segments[i] = SegmentValues(g)
        /\ TypedTable(g.keys, SegmentKeys)
    BY <1>1, <1>2
  <2> HIDE DEF g
  <2>2. /\ TableErrors(g.keys, SegmentKeys \ {"state"}) = {}
        /\ Found(g.keys["state"]) => g.keys["state"].val = Good
    BY <2>1 DEF SegmentErrors
  <2>3. \A k \in SegmentKeys : c.segments[i][k] = Read(g.keys, k)
    BY <2>1 DEF SegmentValues
  <2>4. SoundTable(c.segments[i], SegmentKeys)
    <3> SUFFICES ASSUME NEW k \in SegmentKeys, k \in Ints \cup DOMAIN Names
                 PROVE  /\ k \in Ints => Narrow(Read(g.keys, k)) = Read(g.keys, k)
                        /\ k \in DOMAIN Names => Read(g.keys, k) \in 0 .. Names[k] - 1
      BY <2>3 DEF SoundTable
    <3>1. k # "state"
      BY DEF Ints, Names
    <3>2. k \in (SegmentKeys \ {"state"}) \cap SegmentKeys
      BY <3>1
    <3> DEFINE table == g.keys
               keys == SegmentKeys \ {"state"}
    <3>3. TypedTable(table, SegmentKeys) /\ TableErrors(table, keys) = {}
      BY <2>1, <2>2
    <3> HIDE DEF table, keys
    <3>4. /\ k \in Ints => Narrow(Read(table, k)) = Read(table, k)
          /\ k \in DOMAIN Names => Read(table, k) \in 0 .. Names[k] - 1
      BY <3>2, <3>3, ReadSound DEF keys
    <3> QED BY <3>4 DEF table
  <2>5. c.segments[i]["state"] \in {Good, Unset}
    <3>1. "state" \in SegmentKeys /\ "state" \notin Ints /\ Default["state"] = Unset
      BY DEF SegmentKeys, Ints, Default
    <3>2. g.keys["state"].val \in Int
      BY <2>1, <3>1 DEF TypedTable, Values
    <3>3. Reads(g.keys, "state") => Read(g.keys, "state") = g.keys["state"].val
      BY <3>1, <3>2, ReadAs, TypeIs
    <3> QED BY <2>2, <2>3, <3>1, <3>3 DEF Read, Reads
  <2> QED BY <2>4, <2>5
<1> QED BY <1>3, <1>4, <1>5, <1>6 DEF Sound

LEMMA ImportedSound ==
    ASSUME NEW pair \in Imports, ~ MainRefused(pair.main), ~ TopologyRefused(pair.topology),
           Problems(Imported(pair)) = {}
    PROVE  Sound(Imported(pair))
<1> DEFINE c == Imported(pair)
           t == pair.main
           u == pair.topology
<1>1. c \in Configs
  BY ImportedConfig
<1>2. t \in TokenFiles /\ u \in TokenFiles
  BY ImportsAssumption DEF TokenFiles
<1>3. /\ \A k \in FileKeys : c.keys[k] = ImportedKey(t, k)
      /\ c.segments = SegmentsOf(u)
  BY DEF Imported
<1> HIDE DEF c, t, u
<1>4. ASSUME NEW v, NEW p, ReadsInt(v, p) PROVE Narrow(v[p].val) = v[p].val
  BY <1>4 DEF ReadsInt, Token
<1>5. SoundTable(c.keys, FileKeys)
  <2>1. ASSUME NEW k \in FileKeys, k \in Ints PROVE Narrow(c.keys[k]) = c.keys[k]
    <3>1. ImportedKey(t, k) = Positioned(t, k)
      BY <2>1 DEF ImportedKey, Ints, States
    <3>2. Readable(t, k) => ReadsInt(t, Place(k))
      BY <2>1 DEF Readable, Ints, Strings, Codes
    <3>3. IfUnreadable(k) = 0
      BY <2>1 DEF IfUnreadable, Ints, Codes
    <3> QED BY <1>3, <1>4, <3>1, <3>2, <3>3, SmallFits DEF Positioned
  <2>2. ASSUME NEW k \in FileKeys, k \in DOMAIN Names PROVE c.keys[k] \in 0 .. Names[k] - 1
    <3>1. CASE k = "inviscid_scheme"
      <4>1. SchemeOf(t) # -1
        BY DEF MainRefused, t
      <4>2. ASSUME NEW o \in Int, NEW n \in Int PROVE Scheme(o, n) \in -1 .. 15
        BY DEF Scheme
      <4>3. SchemeOf(t) \in -1 .. 15
        BY <1>2, <4>2, PositionedInt DEF SchemeOf
      <4>4. c.keys[k] = SchemeOf(t)
        BY <1>3, <3>1 DEF ImportedKey, States
      <4> QED BY <3>1, <4>1, <4>3, <4>4 DEF Names
    <3>2. CASE k # "inviscid_scheme"
      <4>1. k \in Codes
        BY <2>2, <3>2 DEF Names, Codes, FileKeys, Keys, States
      <4>2. Positioned(t, k) \in 0 .. Names[k] - 1
        BY <4>1 DEF MainRefused, t
      <4>3. ImportedKey(t, k) = Positioned(t, k)
        BY <4>1 DEF ImportedKey, States, Codes
      <4> QED BY <1>3, <4>2, <4>3
    <3> QED BY <3>1, <3>2
  <2> QED BY <2>1, <2>2 DEF SoundTable
<1>6. /\ c.keys["restart"] \in {0, 1} /\ c.keys["reference_state"] \in {0, 1}
      /\ c.keys["reference_state"] = 0 => \A k \in States : c.keys[k] = Default[k]
  <2>1. {"restart", "reference_state"} \cup States \subseteq FileKeys
    BY DEF FileKeys, Keys, States
  <2>2. /\ ImportedKey(t, "restart") \in {0, 1}
        /\ ImportedKey(t, "reference_state") = IF Nondimensional(t) THEN 1 ELSE 0
    BY DEF ImportedKey, States
  <2>3. \A k \in States : ImportedKey(t, k) = IF Nondimensional(t) THEN Positioned(t, k) ELSE Default[k]
    BY DEF ImportedKey, States
  <2> QED BY <1>3, <2>1, <2>2, <2>3
<1>7. ASSUME NEW i \in 1 .. Len(c.segments)
      PROVE  /\ SoundTable(c.segments[i], SegmentKeys)
             /\ c.segments[i]["state"] \in {Good, Unset}
  <2>1. DOMAIN c.segments = 1 .. Len(c.segments)
    BY <1>1 DEF Configs
  <2>2. PICK q : SegmentsAt(u)[i] = SegmentAt(u, q)
    BY <1>3, <2>1 DEF SegmentsAt, SegmentsOf
  <2>3. c.segments[i] = SegmentAt(u, q).keys /\ ~ SegmentAt(u, q).refused
    BY <1>3, <2>1, <2>2 DEF SegmentsOf, TopologyRefused, u
  <2> DEFINE b == c.segments[i]
  <2>4. /\ b["edge"] = EdgeOf(IntOr(u, q + 2, -1)) /\ b["type"] = TypeOf(IntOr(u, q + 1, -1))
        /\ b["start"] = IntOr(u, q + 4, -1) /\ b["end"] = IntOr(u, q + 5, -1)
        /\ b["state"] \in {Good, Unset}
    BY <2>3 DEF SegmentAt
  <2>5. TypeOf(IntOr(u, q + 1, -1)) # -1 /\ EdgeOf(IntOr(u, q + 2, -1)) # -1
    BY <2>3 DEF SegmentAt
  <2> HIDE DEF b
  <2>6. ASSUME NEW n \in Int PROVE TypeOf(n) \in -1 .. 7 /\ EdgeOf(n) \in -1 .. 3
    <3>1. EdgeOf(n) \in -1 .. 3
      BY DEF EdgeOf
    <3>2. TypeOf(n) \in -1 .. 7
      BY DEF TypeOf, Names
    <3> QED BY <3>1, <3>2
  <2>7. b["edge"] \in 0 .. 3 /\ b["type"] \in 0 .. 7
    <3>1. b["type"] \in -1 .. 7 /\ b["edge"] \in -1 .. 3
      BY <1>2, <2>4, <2>6, IntOrInt
    <3> QED BY <2>4, <2>5, <3>1
  <2>8. \A p : Narrow(IntOr(u, p, -1)) = IntOr(u, p, -1)
    <3>1. Narrow(-1) = -1
      BY SmallFits
    <3> QED BY <1>4, <3>1 DEF IntOr
  <2>9. SoundTable(b, SegmentKeys)
    BY <2>4, <2>7, <2>8 DEF SoundTable, SegmentKeys, Ints, Names
  <2> QED BY <2>4, <2>9 DEF b
<1>8. Sound(c)
  BY <1>1, <1>5, <1>6, <1>7 DEF Sound, c
<1> QED BY <1>8 DEF c

LEMMA NextRoundInv ==
    ASSUME LoadInv, RoundInv, [Next]_vars
    PROVE  RoundInv'
<1>1. ASSUME NEW e, Reject(e), round = 2 => Refused(file, cfg) PROVE RoundInv'
  BY <1>1 DEF Reject, RoundInv
<1>2. CASE ReadSection
  <2>1. at \in 1 .. 7 /\ phase = "read"
    BY <1>2, SevenSections DEF ReadSection, LoadInv
  <2>2. \A i \in 1 .. 7 : Sections[i] \in DOMAIN Keys
    BY DEF Sections, Keys
  <2>3. CASE SectionErrors(file, Sections[at]) # {} /\ Reject(SectionErrors(file, Sections[at]))
    BY <1>1, <2>1, <2>2, <2>3 DEF Refused
  <2>4. CASE UNCHANGED <<phase, file, errors, round, kept>>
    BY <2>1, <2>4 DEF RoundInv
  <2> QED BY <1>2, <2>3, <2>4 DEF ReadSection
<1>3. CASE ReadSegment
  <2> DEFINE i == at - Len(Sections)
  <2>1. i \in 1 .. Len(file.segments) /\ phase = "read"
    BY <1>3 DEF ReadSegment, LoadInv
  <2>2. CASE SegmentErrors(file.segments[i]) # {} /\ Reject(SegmentErrors(file.segments[i]))
    BY <1>1, <2>1, <2>2 DEF Refused
  <2>3. CASE UNCHANGED <<phase, file, errors, round, kept>>
    BY <2>1, <2>3 DEF RoundInv
  <2> QED BY <1>3, <2>2, <2>3 DEF ReadSegment
<1>4. CASE Validate
  <2>1. Loaded(file, cfg) /\ round # 0
    BY <1>4, SevenSections DEF Validate, LoadInv, Parts, Loaded
  <2>2. CASE Problems(cfg) # {} /\ Reject(Problems(cfg))
    BY <1>1, <2>1, <2>2 DEF Refused
  <2>3. CASE /\ Problems(cfg) = {} /\ phase' = "accepted"
             /\ UNCHANGED <<file, at, cfg, errors, round, kept>>
    <3>1. round < 2 => Sound(cfg)
      BY <2>1, <2>3, LoadedSound DEF LoadInv, IInv
    <3> QED BY <2>3, <3>1 DEF RoundInv
  <2> QED BY <1>4, <2>2, <2>3 DEF Validate
<1>5. CASE WriteAndLoad
  <2>1. Sound(cfg) /\ kept' = cfg /\ round' = 2 /\ file' = Text(to_toml(cfg))
    BY <1>5 DEF WriteAndLoad, RoundInv
  <2>2. phase' = "read" \/ (phase' = "rejected" /\ Broken(to_toml(cfg)))
    BY <1>5 DEF WriteAndLoad
  <2> QED BY <2>1, <2>2 DEF RoundInv
<1>6. CASE UNCHANGED vars
  BY <1>6 DEF vars, RoundInv
<1> QED BY <1>2, <1>3, <1>4, <1>5, <1>6 DEF Next

(* The same of what comes from legacy files.                                  *)
AllInv == LoadInv /\ RoundInv /\ (phase = "import" => legacy \in Imports)

LEMMA AllInductive ==
    /\ ImportInit => AllInv
    /\ AllInv /\ [ImportNext]_lvars => AllInv'
<1>1. ImportInit => AllInv
  <2>1. CASE Init
    BY <2>1, InitLoadInv DEF AllInv, Init, RoundInv
  <2>2. CASE /\ legacy \in Imports /\ phase = "import" /\ round = 0 /\ file = NoFile /\ cfg = Fresh
    <3>1. IInv
      BY <2>2, FreshConfig DEF IInv, Valued, NoFile, Absent
    <3>2. Len(file.segments) = 0 /\ DOMAIN file.segments = {} /\ 1 .. 0 = {}
      BY <2>2 DEF NoFile
    <3> QED BY <2>2, <3>1, <3>2 DEF AllInv, LoadInv, RoundInv
  <2> QED BY <2>1, <2>2 DEF ImportInit
<1>2. ASSUME AllInv, [ImportNext]_lvars PROVE AllInv'
  <2>0. IInv' /\ (phase' = "import" => legacy' \in Imports)
    BY <1>2, ImportInductive DEF AllInv, LoadInv, ImportInv
  <2>1. ASSUME NEW e, Reject(e), phase = "import" PROVE AllInv'
    <3>1. round # 2
      BY <1>2, <2>1 DEF AllInv, LoadInv
    <3>2. LoadInv'
      BY <1>2, <2>0, <2>1 DEF AllInv, Reject, LoadInv
    <3>3. RoundInv'
      BY <1>2, <2>1, <3>1 DEF AllInv, Reject, RoundInv
    <3> QED BY <2>0, <3>2, <3>3 DEF AllInv
  <2>2. CASE RefuseImport
    BY <2>1, <2>2 DEF RefuseImport
  <2>3. CASE Import
    <3>1. CASE Reject(Problems(Imported(legacy)))
      BY <2>1, <2>3, <3>1 DEF Import
    <3>2. CASE /\ Problems(Imported(legacy)) = {} /\ phase' = "accepted" /\ cfg' = Imported(legacy)
               /\ UNCHANGED <<file, at, errors, round, kept>>
      <4>1. Sound(Imported(legacy)) /\ phase = "import" /\ round = 0
        BY <1>2, <2>3, <3>2, ImportedSound DEF Import, AllInv, LoadInv
      <4>2. LoadInv'
        BY <1>2, <2>0, <3>2, <4>1 DEF AllInv, LoadInv
      <4>3. RoundInv'
        BY <3>2, <4>1 DEF RoundInv
      <4> QED BY <2>0, <4>2, <4>3 DEF AllInv
    <3> QED BY <2>3, <3>1, <3>2 DEF Import
  <2>4. CASE [Next]_vars
    <3>1. LoadInv' /\ RoundInv'
      BY <1>2, <2>4, NextLoadInv, NextRoundInv DEF AllInv
    <3> QED BY <2>0, <3>1 DEF AllInv
  <2>5. CASE UNCHANGED lvars
    BY <2>4, <2>5 DEF lvars
  <2> QED BY <1>2, <2>2, <2>3, <2>4, <2>5 DEF ImportNext
<1> QED BY <1>1, <1>2

(* What has been written is loaded without an error, up to validate.          *)
LEMMA OnlyProblems ==
    ASSUME NEW c, Sound(c), NEW f, f = Text(to_toml(c))
    PROVE  /\ \A s \in DOMAIN Keys : SectionErrors(f, s) = {}
           /\ \A i \in 1 .. Len(f.segments) : SegmentErrors(f.segments[i]) = {}
<1>1. Len(f.segments) = Len(c.segments)
  BY WrittenSegments DEF Sound
<1> QED BY <1>1, WrittenSectionsClean, WrittenSegmentsRead

LEMMA LoadedBack ==
    ASSUME NEW c, Sound(c), NEW d \in Configs, Loaded(Text(to_toml(c)), d)
    PROVE  /\ d.keys = Expected(c.keys)
           /\ DOMAIN d.segments = 1 .. Len(c.segments)
           /\ \A i \in 1 .. Len(c.segments) :
                  d.segments[i] = [k \in SegmentKeys |->
                      IF k = "wall_temperature" THEN Put(c.segments[i][k]) ELSE c.segments[i][k]]
<1> DEFINE f == Text(to_toml(c))
<1>1. Len(f.segments) = Len(c.segments) /\ Len(f.segments) \in Nat
  BY WrittenSegments DEF Sound
<1>2. /\ \A k \in FileKeys : d.keys[k] = SectionValue(f, k)
      /\ Len(d.segments) = Len(f.segments)
      /\ \A i \in 1 .. Len(f.segments) : d.segments[i] = SegmentValues(f.segments[i])
  BY <1>1, AllLoaded
<1>3. d.keys \in [FileKeys -> Int] /\ DOMAIN d.segments = 1 .. Len(d.segments)
  BY DEF Configs
<1>4. \A k \in FileKeys : d.keys[k] = Expected(c.keys)[k]
  BY <1>2, KeysBack
<1>5. d.keys = Expected(c.keys)
  BY <1>3, <1>4 DEF Expected
<1>6. ASSUME NEW i \in 1 .. Len(c.segments)
      PROVE  d.segments[i] = [k \in SegmentKeys |->
                 IF k = "wall_temperature" THEN Put(c.segments[i][k]) ELSE c.segments[i][k]]
  BY <1>1, <1>2, WrittenSegmentsRead
<1> QED BY <1>1, <1>2, <1>3, <1>5, <1>6

LEMMA RoundTripParts ==
    RoundTrip <=>
        (Ended /\ round = 2 =>
            IF Accepted
              THEN /\ ~ Lost(kept)
                   /\ cfg.keys = Expected(kept.keys)
                   /\ DOMAIN cfg.segments = DOMAIN kept.segments
                   /\ \A i \in DOMAIN cfg.segments, x \in SegmentKeys :
                          cfg.segments[i][x] = IF x = "wall_temperature" THEN Put(kept.segments[i][x])
                                               ELSE kept.segments[i][x]
              ELSE Lost(kept) \/ InQuotes(kept.keys) # {})
BY DEF RoundTrip, Lost, Checked, Expected, InQuotes

LEMMA BackAgain == ASSUME AllInv PROVE RoundTrip
<1> SUFFICES ASSUME phase \in {"accepted", "rejected"}, round = 2
             PROVE  RoundTrip
  BY DEF RoundTrip, Ended
<1> DEFINE k == kept.keys
<1>1. Sound(kept) /\ file = Text(to_toml(kept)) /\ cfg \in Configs
  BY DEF AllInv, RoundInv, LoadInv, IInv
<1>2. ASSUME Loaded(file, cfg)
      PROVE  /\ cfg.keys = Expected(k)
             /\ DOMAIN cfg.segments = 1 .. Len(kept.segments)
             /\ \A i \in 1 .. Len(kept.segments) :
                    cfg.segments[i] = [x \in SegmentKeys |->
                        IF x = "wall_temperature" THEN Put(kept.segments[i][x]) ELSE kept.segments[i][x]]
             /\ Problems(cfg) = {} <=> ~ Lost(kept)
  <2>1. /\ cfg.keys = Expected(k)
        /\ DOMAIN cfg.segments = 1 .. Len(kept.segments)
        /\ \A i \in 1 .. Len(kept.segments) :
               cfg.segments[i] = [x \in SegmentKeys |->
                   IF x = "wall_temperature" THEN Put(kept.segments[i][x]) ELSE kept.segments[i][x]]
    BY <1>1, <1>2, LoadedBack
  <2>2. Problems(cfg) = {} <=> ~ Lost(kept)
    BY <1>1, <2>1, ProblemsBack
  <2> QED BY <2>1, <2>2
<1>3. DOMAIN kept.segments = 1 .. Len(kept.segments)
  BY <1>1 DEF Sound, Configs
<1>4. CASE phase = "accepted"
  <2>1. Loaded(file, cfg) /\ Problems(cfg) = {}
    BY <1>4 DEF AllInv, LoadInv, IInv
  <2>2. ~ Lost(kept) /\ cfg.keys = Expected(k) /\ DOMAIN cfg.segments = DOMAIN kept.segments
    BY <1>2, <1>3, <2>1
  <2>3. \A i \in DOMAIN cfg.segments, x \in SegmentKeys :
           cfg.segments[i][x] = IF x = "wall_temperature" THEN Put(kept.segments[i][x])
                                ELSE kept.segments[i][x]
    <3> SUFFICES ASSUME NEW i \in DOMAIN cfg.segments, NEW x \in SegmentKeys
                 PROVE  cfg.segments[i][x] = IF x = "wall_temperature" THEN Put(kept.segments[i][x])
                                             ELSE kept.segments[i][x]
      OBVIOUS
    <3>1. cfg.segments[i] = [y \in SegmentKeys |->
              IF y = "wall_temperature" THEN Put(kept.segments[i][y]) ELSE kept.segments[i][y]]
      BY <1>2, <2>1
    <3> QED BY <3>1
  <2> QED BY <1>4, <2>2, <2>3, RoundTripParts DEF Accepted
<1>5. CASE phase = "rejected"
  <2>1. Refused(file, cfg) \/ Broken(to_toml(kept))
    BY <1>5 DEF AllInv, RoundInv
  <2>2. Refused(file, cfg) => Lost(kept)
    BY <1>1, <1>2, OnlyProblems DEF Refused
  <2>3. Broken(to_toml(kept)) => InQuotes(k) # {}
    <3> SUFFICES ASSUME NEW s \in Strings, to_toml(kept).keys[s].val = Quoted
                 PROVE  s \in InQuotes(k)
      BY DEF Broken
    <3>1. s \in FileKeys
      BY DEF Strings, FileKeys, Keys
    <3>2. to_toml(kept).keys[s] = IF Left(s, k) THEN Absent ELSE Written(s, k[s])
      BY <3>1 DEF to_toml
    <3>3. Absent.val # Quoted
      BY DEF Absent, Quoted
    <3>4. ~ Left(s, k) /\ Written(s, k[s]).val = Quoted
      BY <3>2, <3>3
    <3>5. Type[s] # "float"
      BY <3>1, TypeIs
    <3>6. k[s] = Quoted
      BY <3>4, <3>5 DEF Written
    <3>7. s = "restart_file" => k["restart"] = 1
      BY <1>1, <3>4 DEF Left, Sound
    <3> QED BY <3>6, <3>7 DEF InQuotes
  <2> QED BY <1>5, <2>1, <2>2, <2>3, RoundTripParts DEF Accepted
<1> QED BY <1>4, <1>5

(* What load accepts is what the file says, also beside the import.           *)
THEOREM TakenAsWrittenAlways == ImportSpec => []TakenAsWritten
<1>1. AllInv => TakenAsWritten
  <2>1. CASE phase = "accepted" /\ round = 1
    BY <2>1, TakenWhenLoaded DEF AllInv, LoadInv, IInv
  <2>2. CASE ~ (phase = "accepted" /\ round = 1)
    BY <2>2 DEF TakenAsWritten, Accepted
  <2> QED BY <2>1, <2>2
<1> QED BY <1>1, AllInductive, PTL DEF ImportSpec

(* Whatever is accepted, from a file or a pair of legacy files: what to_toml  *)
(* writes of it is loaded as the same configuration, with the exceptions that *)
(* RoundTrip lists, and refused only for an infinity, a NaN that is left out  *)
(* or a quote in a string (docs/Testcases.md:154).                            *)
THEOREM RoundTripAlways == ImportSpec => []RoundTrip
BY BackAgain, AllInductive, PTL DEF ImportSpec
------------------------------------------------------------------------------
(* The import of a pair is complete.  Where the segments lie is a recursion   *)
(* over the tokens, so it takes an induction: over sets of numbers, from the  *)
(* well-foundedness of their order.                                           *)
LEMMA FromZero ==
    ASSUME NEW S \in SUBSET Nat, 0 \in S, \A n \in S : n + 1 \in S
    PROVE  S = Nat
<1> DEFINE R == {ss \in Nat \X Nat : ss[1] < ss[2]}
           T == Nat \ S
<1>1. IsWellFoundedOn(R, Nat)
  BY NatLessThanWellFounded DEF OpToRel
<1>2. SUFFICES ASSUME T # {} PROVE FALSE
  OBVIOUS
<1>3. PICK x \in T : \A y \in T : ~ (<<y, x>> \in R)
  <2> HIDE DEF R, T
  <2>1. T \subseteq Nat
    BY DEF T
  <2> QED BY <1>1, <1>2, <2>1, WFMin
<1>4. x \in Nat /\ x # 0 /\ x - 1 \in Nat
  OBVIOUS
<1>5. <<x - 1, x>> \in R
  BY <1>4
<1>6. x - 1 \in S
  BY <1>3, <1>4, <1>5
<1> QED BY <1>4, <1>6

\* What starts(t) is on the first n of its places.
StartsTo(t, n, f) == f = [i \in 1 .. n |-> IF i = 1 THEN 3 ELSE SegmentAt(t, f[i - 1]).next]

LEMMA StartsExist == ASSUME NEW t, NEW n \in Nat PROVE \E f : StartsTo(t, n, f)
<1> DEFINE S == {m \in Nat : \E f : StartsTo(t, m, f)}
<1>1. 0 \in S
  <2>1. StartsTo(t, 0, [i \in 1 .. 0 |-> 0])
    BY DEF StartsTo
  <2> QED BY <2>1
<1>2. ASSUME NEW m \in S PROVE m + 1 \in S
  <2>1. PICK f : StartsTo(t, m, f)
    OBVIOUS
  <2> DEFINE new == IF m + 1 = 1 THEN 3 ELSE SegmentAt(t, f[m]).next
             g == [i \in 1 .. m + 1 |-> IF i = m + 1 THEN new ELSE f[i]]
  <2>2. ASSUME NEW i \in 1 .. m + 1
        PROVE  g[i] = IF i = 1 THEN 3 ELSE SegmentAt(t, g[i - 1]).next
    <3>1. CASE i = m + 1
      <4>1. i # 1 => m \in 1 .. m + 1 /\ m # m + 1 /\ i - 1 = m
        BY <3>1
      <4>2. g[i] = new /\ (i # 1 => g[i - 1] = f[m])
        BY <3>1, <4>1
      <4> QED BY <3>1, <4>1, <4>2
    <3>2. CASE i # m + 1
      <4>1. i \in 1 .. m /\ (i # 1 => i - 1 \in 1 .. m /\ i - 1 \in 1 .. m + 1 /\ i - 1 # m + 1)
        BY <3>2
      <4> HIDE DEF new
      <4>2. g[i] = f[i] /\ (i # 1 => g[i - 1] = f[i - 1])
        BY <4>1
      <4>3. f[i] = IF i = 1 THEN 3 ELSE SegmentAt(t, f[i - 1]).next
        BY <2>1, <4>1 DEF StartsTo
      <4> QED BY <4>2, <4>3
    <3> QED BY <3>1, <3>2
  <2> DEFINE h == [i \in 1 .. m + 1 |-> IF i = 1 THEN 3 ELSE SegmentAt(t, g[i - 1]).next]
  <2>3. g = h
    <3>1. DOMAIN g = 1 .. m + 1 /\ DOMAIN h = 1 .. m + 1
      OBVIOUS
    <3>2. \A i \in 1 .. m + 1 : g[i] = h[i]
      BY <2>2
    <3>3. g = [i \in 1 .. m + 1 |-> g[i]]
      OBVIOUS
    <3> QED BY <3>2, <3>3
  <2>4. StartsTo(t, m + 1, g)
    BY <2>3 DEF StartsTo
  <2> QED BY <2>4
<1> HIDE DEF S
<1>3. S = Nat
  <2>1. S \in SUBSET Nat
    BY DEF S
  <2> QED BY <1>1, <1>2, <2>1, FromZero
<1> QED BY <1>3 DEF S

LEMMA StartsAre ==
    ASSUME NEW t, Len(t) \in Nat
    PROVE  StartsTo(t, Len(t) + 1, starts(t))
<1>1. starts(t) = CHOOSE f : StartsTo(t, Len(t) + 1, f)
  BY DEF starts, StartsTo
<1>2. \E f : StartsTo(t, Len(t) + 1, f)
  BY StartsExist
<1> QED BY <1>1, <1>2

\* Tokens beyond the six every segment has.
Extra(g) == 4 * g.prescribed + (IF g.keys["type"] = 4 /\ g.prescribed = 0 THEN 1 ELSE 0)

LEMMA SegmentLength ==
    ASSUME NEW t \in TokenFiles, NEW p \in Nat
    PROVE  /\ SegmentAt(t, p).prescribed \in {0, 1}
           /\ SegmentAt(t, p).next = p + 6 + Extra(SegmentAt(t, p))
           /\ Extra(SegmentAt(t, p)) \in Nat
<1> DEFINE g    == SegmentAt(t, p)
           flag == IntOr(t, p, -1)
           bc   == IntOr(t, p + 1, -1)
<1>1. bc \in Int
  BY IntOrInt
<1>2. /\ g.prescribed = IF flag = 1 THEN 1 ELSE 0
      /\ g.keys["type"] = TypeOf(bc)
      /\ g.next = p + 6 + (IF flag = 1 THEN 4 ELSE IF ~ (flag = 1) /\ bc = 50 THEN 1 ELSE 0)
  BY DEF SegmentAt
<1> HIDE DEF g, flag, bc
<1>3. TypeOf(bc) = 4 <=> bc = 50
  BY <1>1 DEF TypeOf, Names
<1>4. CASE flag = 1
  <2>1. g.prescribed = 1 /\ g.next = p + 6 + 4
    BY <1>2, <1>4
  <2>2. Extra(g) = 4
    BY <2>1 DEF Extra
  <2> QED BY <2>1, <2>2 DEF g
<1>5. CASE flag # 1
  <2>1. g.prescribed = 0 /\ g.next = p + 6 + (IF bc = 50 THEN 1 ELSE 0)
    BY <1>2, <1>5
  <2>2. Extra(g) = IF bc = 50 THEN 1 ELSE 0
    BY <1>2, <1>3, <2>1 DEF Extra
  <2> QED BY <2>1, <2>2 DEF g
<1> QED BY <1>4, <1>5

\* The first token of the i-th segment.
LEMMA StartsStep ==
    ASSUME NEW t \in TokenFiles
    PROVE  /\ Len(t) \in Nat /\ starts(t)[1] = 3
           /\ \A i \in 1 .. Len(t) : starts(t)[i + 1] = SegmentAt(t, starts(t)[i]).next
<1> DEFINE f == starts(t)
<1>1. Len(t) \in Nat
  BY DEF TokenFiles
<1>2. StartsTo(t, Len(t) + 1, f)
  BY <1>1, StartsAre
<1> HIDE DEF f
<1>3. \A i \in 1 .. Len(t) + 1 : f[i] = IF i = 1 THEN 3 ELSE SegmentAt(t, f[i - 1]).next
  BY <1>2 DEF StartsTo
<1>4. f[1] = 3
  BY <1>1, <1>3
<1>5. ASSUME NEW i \in 1 .. Len(t) PROVE f[i + 1] = SegmentAt(t, f[i]).next
  <2>1. i + 1 \in 1 .. Len(t) + 1 /\ i + 1 # 1 /\ (i + 1) - 1 = i
    BY <1>1
  <2>2. f[i + 1] = SegmentAt(t, f[(i + 1) - 1]).next
    BY <1>3, <2>1
  <2> QED BY <2>1, <2>2
<1> QED BY <1>1, <1>4, <1>5 DEF f

LEMMA StartsRise ==
    ASSUME NEW t \in TokenFiles, NEW i \in 0 .. Len(t)
    PROVE  starts(t)[i + 1] \in Nat /\ starts(t)[i + 1] >= 3 + 6 * i
<1> DEFINE f == starts(t)
           S == {m \in Nat : m \in 0 .. Len(t) => f[m + 1] \in Nat /\ f[m + 1] >= 3 + 6 * m}
<1>1. Len(t) \in Nat /\ f[1] = 3 /\ \A j \in 1 .. Len(t) : f[j + 1] = SegmentAt(t, f[j]).next
  BY StartsStep
<1> HIDE DEF f
<1>2. 0 \in S
  BY <1>1
<1>3. ASSUME NEW m \in S PROVE m + 1 \in S
  <2> SUFFICES ASSUME m + 1 \in 0 .. Len(t)
               PROVE  f[(m + 1) + 1] \in Nat /\ f[(m + 1) + 1] >= 3 + 6 * (m + 1)
    OBVIOUS
  <2> DEFINE p == f[m + 1]
             e == Extra(SegmentAt(t, p))
             q == f[(m + 1) + 1]
  <2>1. p \in Nat /\ p >= 3 + 6 * m
    BY <1>1
  <2>2. q = SegmentAt(t, p).next
    BY <1>1
  <2>3. q = p + 6 + e /\ e \in Nat
    BY <2>1, <2>2, SegmentLength
  <2> HIDE DEF p, e, q
  <2>4. q \in Nat /\ q >= 3 + 6 * (m + 1)
    BY <2>1, <2>3
  <2> QED BY <2>4 DEF q
<1> HIDE DEF S
<1>4. S = Nat
  <2>1. S \in SUBSET Nat
    BY DEF S
  <2> QED BY <1>2, <1>3, <2>1, FromZero
<1>5. i \in S
  BY <1>1, <1>4
<1> QED BY <1>5 DEF S, f

\* How many of the first m segments of s have a state or are isothermal walls.
Stateful(s, m)   == {i \in 1 .. m : s[i].prescribed = 1}
Isothermal(s, m) == {i \in 1 .. m : s[i].keys["type"] = 4}

LEMMA OneMore ==
    ASSUME NEW m \in Nat, NEW A \in SUBSET (1 .. m), NEW B, B = A \/ B = A \cup {m + 1}
    PROVE  /\ IsFiniteSet(A) /\ Cardinality(A) \in Nat
           /\ Cardinality(B) = Cardinality(A) + (IF m + 1 \in B THEN 1 ELSE 0)
<1>1. IsFiniteSet(A)
  <2>1. IsFiniteSet(1 .. m)
    BY FS_Interval
  <2> QED BY <2>1, FS_Subset
<1>2. Cardinality(A) \in Nat
  BY <1>1, FS_CardinalityType
<1>3. m + 1 \notin A
  OBVIOUS
<1>4. Cardinality(A \cup {m + 1}) = Cardinality(A) + 1
  BY <1>1, <1>3, FS_AddElement
<1>5. CASE B = A
  BY <1>1, <1>2, <1>3, <1>5
<1>6. CASE B = A \cup {m + 1}
  BY <1>1, <1>2, <1>4, <1>6
<1> QED BY <1>5, <1>6

LEMMA Sums ==
    ASSUME NEW m \in Nat, NEW a \in Nat, NEW b \in Nat, NEW x \in {0, 1}, NEW y \in {0, 1},
           NEW f, f = 3 + 6 * m + 4 * a + b, NEW e, e = 4 * x + y
    PROVE  a + x \in Nat /\ b + y \in Nat /\ f + 6 + e = 3 + 6 * (m + 1) + 4 * (a + x) + (b + y)
<1>1. x \in Nat /\ y \in Nat
  OBVIOUS
<1> QED BY <1>1

(* The segments lie one after the other.                                      *)
LEMMA TokensSum ==
    ASSUME NEW t \in TokenFiles, NEW n \in 0 .. Len(t), NEW s,
           \A i \in 1 .. n : s[i] = SegmentAt(t, starts(t)[i]),
           \A i \in 1 .. n : s[i].keys["type"] = 4 => s[i].prescribed = 0
    PROVE  /\ Cardinality(Stateful(s, n)) \in Nat /\ Cardinality(Isothermal(s, n)) \in Nat
           /\ starts(t)[n + 1] = 3 + 6 * n + 4 * Cardinality(Stateful(s, n)) + Cardinality(Isothermal(s, n))
<1> DEFINE f == starts(t)
           a(m) == Cardinality(Stateful(s, m))
           b(m) == Cardinality(Isothermal(s, m))
           P(m) == a(m) \in Nat /\ b(m) \in Nat /\ f[m + 1] = 3 + 6 * m + 4 * a(m) + b(m)
           S == {m \in Nat : m \in 0 .. n => P(m)}
<1>1. /\ Len(t) \in Nat /\ n \in Nat /\ n <= Len(t)
      /\ f[1] = 3 /\ \A j \in 1 .. Len(t) : f[j + 1] = SegmentAt(t, f[j]).next
  BY StartsStep
<1>2. ASSUME NEW j \in 0 .. n PROVE f[j + 1] \in Nat
  <2>1. j \in 0 .. Len(t)
    BY <1>1
  <2> QED BY <2>1, StartsRise
<1> HIDE DEF f
<1>3. 0 \in S
  <2>1. Stateful(s, 0) = {} /\ Isothermal(s, 0) = {}
    BY DEF Stateful, Isothermal
  <2>2. a(0) = 0 /\ b(0) = 0
    BY <2>1, FS_EmptySet
  <2> HIDE DEF a, b
  <2>3. P(0)
    BY <1>1, <2>2
  <2> QED BY <2>3
<1>4. ASSUME NEW m \in S PROVE m + 1 \in S
  <2> SUFFICES ASSUME m + 1 \in 0 .. n PROVE P(m + 1)
    OBVIOUS
  <2> DEFINE k == m + 1
             g == s[k]
  <2>1. P(m) /\ m \in Nat /\ k \in 1 .. n /\ k \in 1 .. Len(t) /\ k \in Nat
    BY <1>1
  <2>0. 1 .. k = (1 .. m) \cup {m + 1}
    BY <2>1
  <2>2. g = SegmentAt(t, f[k]) /\ f[k + 1] = g.next /\ f[k] \in Nat
    <3>1. m \in 0 .. n /\ m + 1 = k
      BY <1>1, <2>1
    <3>2. f[m + 1] \in Nat
      BY <1>2, <3>1
    <3>3. g = SegmentAt(t, f[k])
      BY <2>1 DEF f
    <3>4. f[k + 1] = SegmentAt(t, f[k]).next
      BY <1>1, <2>1
    <3> QED BY <3>1, <3>2, <3>3, <3>4
  <2>3. g.prescribed \in {0, 1} /\ f[k + 1] = f[k] + 6 + Extra(g) /\ Extra(g) \in Nat
    <3> HIDE DEF g, k
    <3>1. g.prescribed \in {0, 1} /\ g.next = f[k] + 6 + Extra(g) /\ Extra(g) \in Nat
      BY <2>2, SegmentLength
    <3> QED BY <2>2, <3>1
  <2>4. a(k) = a(m) + (IF g.prescribed = 1 THEN 1 ELSE 0)
    <3>1. Stateful(s, m) \in SUBSET (1 .. m) /\ (k \in Stateful(s, k) <=> g.prescribed = 1)
      BY <2>1 DEF Stateful
    <3>2. Stateful(s, k) = Stateful(s, m) \/ Stateful(s, k) = Stateful(s, m) \cup {m + 1}
      BY <2>0 DEF Stateful
    <3> QED BY <2>1, <3>1, <3>2, OneMore
  <2>5. b(k) = b(m) + (IF g.keys["type"] = 4 THEN 1 ELSE 0)
    <3>1. Isothermal(s, m) \in SUBSET (1 .. m) /\ (k \in Isothermal(s, k) <=> g.keys["type"] = 4)
      BY <2>1 DEF Isothermal
    <3>2. Isothermal(s, k) = Isothermal(s, m) \/ Isothermal(s, k) = Isothermal(s, m) \cup {m + 1}
      BY <2>0 DEF Isothermal
    <3> QED BY <2>1, <3>1, <3>2, OneMore
  <2>6. g.keys["type"] = 4 => g.prescribed = 0
    BY <2>1
  <2>7. Extra(g) = 4 * (IF g.prescribed = 1 THEN 1 ELSE 0) + (IF g.keys["type"] = 4 THEN 1 ELSE 0)
    BY <2>3, <2>6 DEF Extra
  <2>8. f[k] = 3 + 6 * m + 4 * a(m) + b(m) /\ a(m) \in Nat /\ b(m) \in Nat
    BY <2>1
  <2> DEFINE x == IF g.prescribed = 1 THEN 1 ELSE 0
             y == IF g.keys["type"] = 4 THEN 1 ELSE 0
  <2>9. x \in {0, 1} /\ y \in {0, 1}
    OBVIOUS
  <2> HIDE DEF a, b, g, k, x, y
  <2>10. a(k) = a(m) + x /\ b(k) = b(m) + y /\ Extra(g) = 4 * x + y
    BY <2>4, <2>5, <2>7 DEF x, y
  <2>11. k = m + 1 /\ m \in Nat
    BY <2>1 DEF k
  <2> DEFINE am == a(m)
             bm == b(m)
             fk == f[k]
             e  == Extra(g)
  <2>12. am + x \in Nat /\ bm + y \in Nat /\ fk + 6 + e = 3 + 6 * (m + 1) + 4 * (am + x) + (bm + y)
    <3>1. am \in Nat /\ bm \in Nat /\ fk = 3 + 6 * m + 4 * am + bm /\ e = 4 * x + y /\ m \in Nat
      BY <2>8, <2>10, <2>11
    <3> HIDE DEF am, bm, fk, e
    <3> QED BY <3>1, <2>9, Sums
  <2>13. a(k) \in Nat /\ b(k) \in Nat /\ f[k + 1] = 3 + 6 * k + 4 * a(k) + b(k)
    BY <2>3, <2>10, <2>11, <2>12
  <2> QED BY <2>13 DEF k
<1> HIDE DEF S
<1>5. S = Nat
  <2>1. S \in SUBSET Nat
    BY DEF S
  <2> QED BY <1>3, <1>4, <2>1, FromZero
<1>6. n \in S
  BY <1>1, <1>5
<1> QED BY <1>1, <1>6 DEF S, f

(* What validate leaves through: the last token of the segment is there.      *)
LEMMA WholeSegment ==
    ASSUME NEW t \in TokenFiles, NEW p \in Nat, NEW c, NEW g, g = SegmentAt(t, p),
           ~ g.refused, SegmentProblems(c, g.keys) = {}
    PROVE  /\ g.keys["type"] = 4 => g.prescribed = 0
           /\ g.next - 1 \in DOMAIN t
<1> DEFINE flag == IntOr(t, p, -1)
           bc   == IntOr(t, p + 1, -1)
           b    == g.keys
<1>1. bc \in Int /\ IntOr(t, p + 4, -1) \in Int /\ IntOr(t, p + 5, -1) \in Int
  BY IntOrInt
<1>2. /\ g.prescribed = IF flag = 1 THEN 1 ELSE 0
      /\ b["type"] = TypeOf(bc)
      /\ b["start"] = IntOr(t, p + 4, -1) /\ b["end"] = IntOr(t, p + 5, -1)
      /\ flag = 1 => b["wall_temperature"] = Unset
      /\ g.next = p + 6 + (IF flag = 1 THEN 4 ELSE IF ~ (flag = 1) /\ bc = 50 THEN 1 ELSE 0)
      /\ flag = 1 => \A q \in p + 6 .. p + 9 : ReadsDouble(t, q)
      /\ flag # 1 /\ bc = 50 => ReadsDouble(t, p + 6)
  BY DEF SegmentAt
<1>3. /\ ~ (b["start"] < 2) /\ ~ (b["end"] < b["start"])
      /\ b["type"] = 4 => Above(b["wall_temperature"], 0)
  <2>1. /\ {k \in {"start"} : b[k] < 2} = {}
        /\ {k \in {"end"} : b[k] < b["start"] \/ b[k] > LastNode(c, b["edge"])} = {}
        /\ {k \in {"wall_temperature"} : CASE b["type"] = 0 -> FALSE
                                           [] b["type"] = 4 -> ~Above(b[k], 0)
                                           [] OTHER         -> b[k] # Unset} = {}
    BY DEF SegmentProblems
  <2>2. ~ (b["start"] < 2)
    BY <2>1
  <2>3. ~ (b["end"] < b["start"])
    BY <2>1
  <2>4. b["type"] = 4 => Above(b["wall_temperature"], 0)
    BY <2>1
  <2> QED BY <2>2, <2>3, <2>4
<1> HIDE DEF flag, bc, b
<1>4. b["type"] = 4 => g.prescribed = 0
  <2>1. ~ Above(Unset, 0)
    BY DEF Above, Unset
  <2> QED BY <1>2, <1>3, <2>1
<1>5. g.next - 1 \in DOMAIN t
  <2>1. CASE flag = 1
    <3>1. g.next = p + 6 + 4 /\ p + 9 \in p + 6 .. p + 9
      BY <1>2, <2>1
    <3>2. p + 9 \in DOMAIN t
      BY <1>2, <2>1, <3>1, ReadableToken
    <3>3. (p + 6 + 4) - 1 = p + 9
      OBVIOUS
    <3> QED BY <3>1, <3>2, <3>3
  <2>2. CASE flag # 1 /\ bc = 50
    <3>1. g.next = p + 6 + 1 /\ p + 6 \in DOMAIN t
      BY <1>2, <2>2, ReadableToken
    <3>2. (p + 6 + 1) - 1 = p + 6
      OBVIOUS
    <3> QED BY <3>1, <3>2
  <2>3. CASE flag # 1 /\ bc # 50
    <3>1. g.next = p + 6 + 0
      BY <1>2, <2>3
    <3>2. IntOr(t, p + 5, -1) # -1
      BY <1>1, <1>2, <1>3
    <3>3. ReadsInt(t, p + 5)
      BY <3>2 DEF IntOr
    <3>4. p + 5 \in DOMAIN t
      BY <3>3, ReadableToken
    <3>5. (p + 6 + 0) - 1 = p + 5
      OBVIOUS
    <3> QED BY <3>1, <3>4, <3>5
  <2> QED BY <2>1, <2>2, <2>3
<1> QED BY <1>4, <1>5 DEF b

\* The second half of ImportComplete.
TopologyTaken(t, segments) ==
    LET s == SegmentsAt(t)
    IN  /\ Len(segments) = n_seg(t)
        /\ 2 + 6 * Len(s) + 4 * n_presc(t)
             + Cardinality({i \in DOMAIN s : s[i].keys["type"] = 4}) <= Len(t)

LEMMA TopologyComplete ==
    ASSUME NEW t \in TokenFiles, ~ TopologyRefused(t), NEW c,
           SegmentsOf(t) # << >>,
           \A i \in DOMAIN SegmentsOf(t) : SegmentProblems(c, SegmentsOf(t)[i]) = {}
    PROVE  TopologyTaken(t, SegmentsOf(t))
<1> DEFINE s == SegmentsAt(t)
           f == starts(t)
           n == IF n_seg(t) <= Len(t) THEN n_seg(t) ELSE Len(t) + 1
<1>1. n_seg(t) \in Int /\ n_seg(t) >= 0 /\ Len(t) \in Nat /\ DOMAIN t = 1 .. Len(t)
  BY IntOrInt DEF n_seg, TopologyRefused, TokenFiles
<1>2. n \in Nat /\ n <= Len(t) + 1
  BY <1>1
<1>3. s = [i \in 1 .. n |-> SegmentAt(t, f[i])]
  BY DEF SegmentsAt
<1> HIDE DEF f, n
<1>4. /\ DOMAIN s = 1 .. n /\ Len(s) = n
      /\ \A i \in 1 .. n : s[i] = SegmentAt(t, f[i])
  BY <1>2, <1>3
<1>5. SegmentsOf(t) = [i \in 1 .. n |-> s[i].keys]
  BY <1>4 DEF SegmentsOf
<1>6. /\ \A i \in 1 .. n : ~ s[i].refused
      /\ n_presc(t) = Cardinality({i \in 1 .. n : s[i].prescribed = 1})
  BY <1>4 DEF TopologyRefused
<1> HIDE DEF s
<1>7. /\ DOMAIN SegmentsOf(t) = 1 .. n /\ Len(SegmentsOf(t)) = n
      /\ \A i \in 1 .. n : SegmentsOf(t)[i] = s[i].keys
  BY <1>2, <1>5
<1>8. n # 0
  <2> SUFFICES ASSUME n = 0 PROVE FALSE
    OBVIOUS
  <2>1. SegmentsOf(t) = << >>
    BY <1>5
  <2> QED BY <2>1
<1>9. ASSUME NEW i \in 1 .. n
      PROVE  /\ f[i] \in Nat /\ f[i] >= 3 + 6 * (i - 1)
             /\ s[i].keys["type"] = 4 => s[i].prescribed = 0
             /\ s[i].next - 1 \in DOMAIN t
  <2>1. i - 1 \in 0 .. Len(t) /\ (i - 1) + 1 = i
    BY <1>1, <1>2
  <2>2. f[i] \in Nat /\ f[i] >= 3 + 6 * (i - 1)
    BY <2>1, StartsRise DEF f
  <2>3. s[i] = SegmentAt(t, f[i]) /\ ~ s[i].refused /\ SegmentProblems(c, s[i].keys) = {}
    BY <1>4, <1>6, <1>7
  <2> QED BY <2>2, <2>3, WholeSegment
<1>10. n <= Len(t)
  <2> SUFFICES ASSUME n = Len(t) + 1 PROVE FALSE
    BY <1>1, <1>2
  <2>1. n \in 1 .. n /\ f[n] \in Nat /\ f[n] >= 3 + 6 * (n - 1)
    BY <1>2, <1>8, <1>9
  <2>2. s[n].next = f[n] + 6 + Extra(s[n]) /\ Extra(s[n]) \in Nat
    BY <1>4, <2>1, SegmentLength
  <2>3. s[n].next - 1 \in 1 .. Len(t)
    BY <1>1, <1>9, <2>1
  <2> QED BY <1>1, <2>1, <2>2, <2>3
<1>11. n = n_seg(t)
  BY <1>1, <1>10 DEF n
<1> DEFINE a == Cardinality(Stateful(s, n))
           b == Cardinality(Isothermal(s, n))
<1>12. a \in Nat /\ b \in Nat /\ f[n + 1] = 3 + 6 * n + 4 * a + b
  <2>1. n \in 0 .. Len(t)
    BY <1>1, <1>2, <1>10
  <2>2. \A i \in 1 .. n : s[i] = SegmentAt(t, starts(t)[i])
    BY <1>4 DEF f
  <2>3. \A i \in 1 .. n : s[i].keys["type"] = 4 => s[i].prescribed = 0
    BY <1>9
  <2> QED BY <2>1, <2>2, <2>3, TokensSum DEF f
<1>13. f[n + 1] - 1 \in 1 .. Len(t)
  <2>1. n \in 1 .. Len(t) /\ n \in 1 .. n
    BY <1>1, <1>2, <1>8, <1>10
  <2>2. f[n + 1] = s[n].next
    BY <1>4, <2>1, StartsStep DEF f
  <2> QED BY <1>1, <1>9, <2>1, <2>2
<1>14. n_presc(t) = a /\ Cardinality({i \in DOMAIN s : s[i].keys["type"] = 4}) = b
  BY <1>4, <1>6 DEF Stateful, Isothermal
<1> HIDE DEF a, b
<1>15. 2 + 6 * n + 4 * a + b <= Len(t)
  BY <1>1, <1>2, <1>12, <1>13
<1> QED BY <1>4, <1>7, <1>11, <1>14, <1>15 DEF TopologyTaken, s

\* The places of the keys, looked up by key.
PlaceOf ==
    [name |-> 1, equations |-> 2, formulation |-> 3, flow |-> 4, time_method |-> 5,
     inviscid_scheme |-> 6, order |-> 7, viscous_method |-> 8, cfl |-> 9, scaling |-> 10,
     restart |-> 11, file |-> 12, nx |-> 13, ny |-> 14, topology |-> 15, restart_file |-> 16,
     display_frequency |-> 17, write_frequency |-> 18, max_iterations |-> 19, total_time |-> 20,
     Re_inf |-> 21, Mach_inf |-> 22, reference_length |-> 23, alpha_deg |-> 24, p_inf |-> 25,
     T_inf |-> 26, pressure |-> 27, temperature |-> 28, density |-> 29, velocity |-> 30]

LEMMA Places ==
    /\ DOMAIN Positional = 1 .. 30
    /\ \A p \in 1 .. 30 : Place(Positional[p]) = p
<1>1. DOMAIN Positional = 1 .. 30
  BY DEF Positional
<1>2. ASSUME NEW p \in 1 .. 30 PROVE PlaceOf[Positional[p]] = p
  <2>1. CASE p \in 1 .. 10
    BY <2>1 DEF Positional, PlaceOf
  <2>2. CASE p \in 11 .. 20
    BY <2>2 DEF Positional, PlaceOf
  <2>3. CASE p \in 21 .. 30
    BY <2>3 DEF Positional, PlaceOf
  <2> QED BY <2>1, <2>2, <2>3
<1>3. ASSUME NEW p \in 1 .. 30 PROVE Place(Positional[p]) = p
  <2>1. \A q \in DOMAIN Positional : Positional[q] = Positional[p] => q = p
    BY <1>1, <1>2
  <2> QED BY <1>1, <2>1 DEF Place
<1> QED BY <1>1, <1>3

\* The first half of ImportComplete.
MainTaken(t, c) ==
    LET lax   == {"viscous_method", "scaling", "restart", "reference_length", "alpha_deg"}
                 \cup (IF c.keys["flow"] = 1 THEN {"max_iterations"} ELSE {"total_time"})
                 \cup (IF c.keys["formulation"] = 0 THEN {"p_inf", "T_inf"} ELSE {})
        asked == {Positional[p] : p \in 1 .. IF c.keys["formulation"] = 0 THEN 30 ELSE 26}
    IN  /\ \A k \in asked : Place(k) \in DOMAIN t /\ (k \in lax \/ Readable(t, k))
        /\ \A k \in (asked \cap FileKeys) \ {"inviscid_scheme", "restart_file", "restart"} :
               c.keys[k] = IF Readable(t, k) THEN t[Place(k)].val ELSE Default[k]
        /\ c.keys["restart"] = 1 =>
               t[Place("restart")].val = 1 /\ c.keys["restart_file"] = t[Place("restart_file")].val

LEMMA MainComplete ==
    ASSUME NEW pair \in Imports, ~ MainRefused(pair.main),
           NEW c, c = Imported(pair), KeyProblems(c.keys) = {}
    PROVE  MainTaken(pair.main, c)
<1> DEFINE t    == pair.main
           form == c.keys["formulation"]
           last == IF form = 0 THEN 30 ELSE 26
           lax  == {"viscous_method", "scaling", "restart", "reference_length", "alpha_deg"}
                        \cup (IF c.keys["flow"] = 1 THEN {"max_iterations"} ELSE {"total_time"})
                        \cup (IF form = 0 THEN {"p_inf", "T_inf"} ELSE {})
           asked == {Positional[p] : p \in 1 .. last}
<1>1. t \in TokenFiles /\ Len(t) \in Nat /\ DOMAIN t = 1 .. Len(t)
  BY ImportsAssumption DEF TokenFiles
<1>2. \A k \in FileKeys : c.keys[k] = ImportedKey(t, k)
  BY DEF Imported
<1>3. /\ \A k \in Needed(t) : Readable(t, k)
      /\ \A k \in Codes : Positioned(t, k) \in 0 .. Names[k] - 1
      /\ Scheme(Positioned(t, "order"), Positioned(t, "inviscid_scheme")) # -1
  BY DEF MainRefused, SchemeOf
<1> HIDE DEF t
\* The keys that are what is at their place.
<1>4. ASSUME NEW k \in FileKeys, k \notin {"inviscid_scheme", "reference_state", "restart",
                                           "restart_file", "gamma", "prandtl", "gas_constant",
                                           "directory", "formats", "residual_smoothing_eps"},
             k \in States => Nondimensional(t)
      PROVE  c.keys[k] = Positioned(t, k)
  BY <1>2, <1>4 DEF ImportedKey
<1>5. {"formulation", "flow", "nx", "ny", "max_iterations", "total_time", "Re_inf", "Mach_inf",
       "p_inf", "T_inf", "restart", "restart_file"} \subseteq FileKeys
  BY DEF FileKeys, Keys
<1>6. form = Positioned(t, "formulation") /\ form \in {0, 1} /\ (Nondimensional(t) <=> form = 0)
  <2>1. form = Positioned(t, "formulation")
    BY <1>4, <1>5 DEF States
  <2>2. Positioned(t, "formulation") \in 0 .. 1
    BY <1>3 DEF Codes, Names
  <2> QED BY <2>1, <2>2 DEF Nondimensional
<1> HIDE DEF form
\* What validate asks for cannot be what is taken for an unreadable value.
<1>7. /\ \A k \in {"nx", "ny"} : ~ (Positioned(t, k) < 1)
      /\ \A k \in {"Re_inf", "Mach_inf"} : Above(Positioned(t, k), 0)
      /\ form = 1 => \A k \in {"p_inf", "T_inf"} : Above(Positioned(t, k), 0)
      /\ c.keys["flow"] = 0 => ~ (Positioned(t, "max_iterations") < 1)
      /\ c.keys["flow"] = 1 => ~ (Positioned(t, "total_time") <= 0)
  <2> DEFINE d == c.keys
  <2>1. /\ {k \in {"nx", "ny", "display_frequency", "write_frequency"} : d[k] < 1} = {}
        /\ {k \in {"scaling", "cfl", "prandtl", "gas_constant", "Mach_inf", "Re_inf",
                   "reference_length"} : ~Above(d[k], 0)} = {}
        /\ {k \in {"p_inf", "T_inf"} : d["formulation"] = 1 /\ ~Above(d[k], 0)} = {}
        /\ {k \in {"max_iterations"} : d["flow"] = 0 /\ d[k] < 1} = {}
        /\ {k \in {"total_time"} : d["flow"] = 1 /\ d[k] <= 0} = {}
    BY DEF KeyProblems
  <2>2. \A k \in {"nx", "ny", "max_iterations", "total_time", "Re_inf", "Mach_inf", "p_inf", "T_inf"} :
            d[k] = Positioned(t, k)
    BY <1>4, <1>5 DEF States
  <2> HIDE DEF d
  <2>3. \A k \in {"nx", "ny"} : ~ (Positioned(t, k) < 1)
    BY <2>1, <2>2
  <2>4. \A k \in {"Re_inf", "Mach_inf"} : Above(Positioned(t, k), 0)
    BY <2>1, <2>2
  <2>5. d["formulation"] = 1 => \A k \in {"p_inf", "T_inf"} : Above(Positioned(t, k), 0)
    BY <2>1, <2>2
  <2>6. d["flow"] = 0 => ~ (Positioned(t, "max_iterations") < 1)
    BY <2>1, <2>2
  <2>7. d["flow"] = 1 => ~ (Positioned(t, "total_time") <= 0)
    BY <2>1, <2>2
  <2> QED BY <2>3, <2>4, <2>5, <2>6, <2>7 DEF d, form
<1>8. \A k : ~ Readable(t, k) => Positioned(t, k) = IfUnreadable(k)
  BY DEF Positioned
<1>9. ~ Above(0, 0)
  BY DEF Above
<1>10. /\ Readable(t, "nx") /\ Readable(t, "ny") /\ Readable(t, "Re_inf") /\ Readable(t, "Mach_inf")
       /\ form = 1 => Readable(t, "p_inf") /\ Readable(t, "T_inf")
       /\ c.keys["flow"] = 0 => Readable(t, "max_iterations")
       /\ c.keys["flow"] = 1 => Readable(t, "total_time")
  <2>1. \A k \in {"nx", "ny", "max_iterations", "total_time", "Re_inf", "Mach_inf", "p_inf", "T_inf"} :
            IfUnreadable(k) = 0
    BY DEF IfUnreadable, Codes
  <2> QED BY <1>7, <1>8, <1>9, <2>1
<1>11. \A k \in (Codes \ {"viscous_method"}) \cup {"inviscid_scheme"} : Readable(t, k)
  <2>1. \A k \in (Codes \ {"viscous_method"}) \cup {"inviscid_scheme"} : IfUnreadable(k) = -1
    BY DEF IfUnreadable, Codes
  <2>2. \A k \in Codes \ {"viscous_method"} : Readable(t, k)
    BY <1>3, <1>8, <2>1
  <2>3. Positioned(t, "inviscid_scheme") # -1
    <3>1. \A o : Scheme(o, -1) = -1
      BY DEF Scheme
    <3> QED BY <1>3, <3>1
  <2> QED BY <1>8, <2>1, <2>2, <2>3
\* The last key asked for has been read, so none before it is missing.
<1>12. \A p \in 1 .. last : p \in DOMAIN t
  <2>1. CASE form = 0
    <3>1. Readable(t, "velocity")
      BY <1>3, <1>6, <2>1 DEF Needed, States
    <3>2. Positional[30] = "velocity" /\ Place(Positional[30]) = 30
      BY Places DEF Positional
    <3>3. ReadsDouble(t, 30)
      BY <3>1, <3>2 DEF Readable, Strings, Ints, Codes
    <3>4. 30 \in DOMAIN t
      BY <1>1, <3>3, ReadableToken
    <3> QED BY <1>1, <2>1, <3>4
  <2>2. CASE form = 1
    <3>1. Readable(t, "T_inf")
      BY <1>10, <2>2
    <3>2. Positional[26] = "T_inf" /\ Place(Positional[26]) = 26
      BY Places DEF Positional
    <3>3. ReadsDouble(t, 26)
      BY <3>1, <3>2 DEF Readable, Strings, Ints, Codes
    <3>4. 26 \in DOMAIN t
      BY <1>1, <3>3, ReadableToken
    <3> QED BY <1>1, <2>2, <3>4
  <2> QED BY <1>6, <2>1, <2>2
<1>13. ASSUME NEW k \in asked
       PROVE  /\ Place(k) \in DOMAIN t
              /\ k \in States => form = 0
  <2>1. PICK p \in 1 .. last : k = Positional[p]
    OBVIOUS
  <2>2. p \in 1 .. 30 /\ Place(k) = p
    BY <2>1, Places
  <2>3. Place(k) \in DOMAIN t
    BY <1>12, <2>2
  <2>4. k \in States => p \in 27 .. 30
    BY <2>1, <2>2 DEF States, Positional
  <2>5. k \in States => form = 0
    BY <2>1, <2>4
  <2> QED BY <2>3, <2>5
<1>14. \A k \in asked : k \in DOMAIN PlaceOf
  <2>1. ASSUME NEW p \in 1 .. 30 PROVE Positional[p] \in DOMAIN PlaceOf
    BY DEF Positional, PlaceOf
  <2> QED BY <2>1
<1> HIDE DEF asked, last
<1>15. ASSUME NEW k \in asked PROVE k \in lax \/ Readable(t, k)
  <2>1. k \in Strings \cup {"topology"} => Readable(t, k)
    <3>1. \A x \in Strings \cup {"topology"} : Readable(t, x) <=> Place(x) \in DOMAIN t
      BY DEF Readable, Strings, Ints, Codes
    <3> QED BY <1>13, <3>1
  <2>2. k \in {"cfl", "display_frequency", "write_frequency"} \cup States => Readable(t, k)
    BY <1>3, <1>6, <1>13 DEF Needed
  <2>3. k \in {"nx", "ny", "Re_inf", "Mach_inf"} => Readable(t, k)
    BY <1>10
  <2>4. k \in {"p_inf", "T_inf", "max_iterations", "total_time"} => k \in lax \/ Readable(t, k)
    <3>1. c.keys["flow"] \in {0, 1}
      <4>1. c.keys["flow"] = Positioned(t, "flow")
        BY <1>4, <1>5 DEF States
      <4>2. Positioned(t, "flow") \in 0 .. 1
        BY <1>3 DEF Codes, Names
      <4> QED BY <4>1, <4>2
    <3>2. k \in {"p_inf", "T_inf"} => k \in lax \/ Readable(t, k)
      BY <1>6, <1>10
    <3>3. k \in {"max_iterations"} => k \in lax \/ Readable(t, k)
      BY <1>10, <3>1
    <3>4. k \in {"total_time"} => k \in lax \/ Readable(t, k)
      BY <1>10, <3>1
    <3> QED BY <3>2, <3>3, <3>4
  <2>5. k \in (Codes \ {"viscous_method"}) \cup {"inviscid_scheme"} => Readable(t, k)
    BY <1>11
  <2>6. k \in {"viscous_method", "scaling", "restart", "reference_length", "alpha_deg"} => k \in lax
    OBVIOUS
  <2> HIDE DEF lax
  <2>7. k \in DOMAIN PlaceOf
    BY <1>14
  <2>8. \/ k \in Strings \cup {"topology"}
        \/ k \in {"cfl", "display_frequency", "write_frequency"} \cup States
        \/ k \in {"nx", "ny", "Re_inf", "Mach_inf"}
        \/ k \in {"p_inf", "T_inf", "max_iterations", "total_time"}
        \/ k \in (Codes \ {"viscous_method"}) \cup {"inviscid_scheme"}
        \/ k \in {"viscous_method", "scaling", "restart", "reference_length", "alpha_deg"}
    BY <2>7 DEF PlaceOf, Strings, States, Codes
  <2> QED BY <2>1, <2>2, <2>3, <2>4, <2>5, <2>6, <2>8
<1>16. ASSUME NEW k \in (asked \cap FileKeys) \ {"inviscid_scheme", "restart_file", "restart"}
       PROVE  c.keys[k] = IF Readable(t, k) THEN t[Place(k)].val ELSE Default[k]
  <2>1. k \in DOMAIN PlaceOf /\ (k \in States => Nondimensional(t))
    BY <1>6, <1>13, <1>14
  <2>2. k \notin {"inviscid_scheme", "reference_state", "restart", "restart_file", "gamma", "prandtl",
                  "gas_constant", "directory", "formats", "residual_smoothing_eps"}
    BY <2>1 DEF PlaceOf
  <2>3. c.keys[k] = Positioned(t, k)
    BY <1>4, <2>1, <2>2
  <2>4. k \in lax => IfUnreadable(k) = Default[k]
    BY <2>2 DEF IfUnreadable, Default, Codes
  <2> QED BY <1>15, <2>3, <2>4 DEF Positioned
<1>17. ASSUME c.keys["restart"] = 1
       PROVE  t[Place("restart")].val = 1 /\ c.keys["restart_file"] = t[Place("restart_file")].val
  <2>1. Positioned(t, "restart") = 1
    <3>1. ImportedKey(t, "restart") = IF Positioned(t, "restart") = 1 THEN 1 ELSE 0
      BY DEF ImportedKey, States
    <3> QED BY <1>2, <1>5, <1>17, <3>1
  <2>2. IfUnreadable("restart") = 0
    BY DEF IfUnreadable, Codes
  <2>3. t[Place("restart")].val = 1
    BY <2>1, <2>2 DEF Positioned
  <2>4. ImportedKey(t, "restart_file") = Positioned(t, "restart_file")
    BY <2>1 DEF ImportedKey, States
  <2>5. Readable(t, "restart_file")
    <3>1. Positional[16] = "restart_file" /\ 16 \in 1 .. last
      BY <1>6 DEF Positional, last
    <3>2. "restart_file" \in asked
      BY <3>1 DEF asked
    <3>3. Readable(t, "restart_file") <=> Place("restart_file") \in DOMAIN t
      BY DEF Readable, Strings, Ints, Codes
    <3> QED BY <1>13, <3>2, <3>3
  <2> QED BY <1>2, <1>5, <2>3, <2>4, <2>5 DEF Positioned
<1> QED BY <1>13, <1>15, <1>16, <1>17 DEF MainTaken, t, asked, last, form

(* What has been imported and neither written nor rejected is the import of   *)
(* its pair, and nothing in it was refused.                                   *)
PairInv ==
    /\ phase = "import" => legacy \in Imports
    /\ phase = "read" => round # 0
    /\ phase = "accepted" /\ round = 0 =>
           /\ legacy \in Imports /\ cfg = Imported(legacy) /\ Problems(cfg) = {}
           /\ ~ MainRefused(legacy.main) /\ ~ TopologyRefused(legacy.topology)

LEMMA PairInductive ==
    /\ ImportInit => PairInv
    /\ PairInv /\ [ImportNext]_lvars => PairInv'
<1>1. ImportInit => PairInv
  BY DEF ImportInit, Init, PairInv
<1>2. ASSUME PairInv, [ImportNext]_lvars PROVE PairInv'
  <2>1. ASSUME NEW e, Reject(e) PROVE PairInv'
    BY <2>1 DEF Reject, PairInv
  <2>2. CASE RefuseImport
    BY <2>1, <2>2 DEF RefuseImport
  <2>3. CASE Import
    <3>1. CASE Reject(Problems(Imported(legacy)))
      BY <2>1, <3>1
    <3>2. CASE /\ Problems(Imported(legacy)) = {} /\ phase' = "accepted" /\ cfg' = Imported(legacy)
      BY <1>2, <2>3, <3>2 DEF Import, PairInv
    <3> QED BY <2>3, <3>1, <3>2 DEF Import
  <2>4. CASE ReadSection /\ UNCHANGED legacy
    <3>1. phase = "read" /\ ((\E e : Reject(e)) \/ UNCHANGED <<phase, round>>)
      BY <2>4 DEF ReadSection
    <3> QED BY <1>2, <2>1, <3>1 DEF PairInv
  <2>5. CASE ReadSegment /\ UNCHANGED legacy
    <3>1. phase = "read" /\ ((\E e : Reject(e)) \/ UNCHANGED <<phase, round>>)
      BY <2>5 DEF ReadSegment
    <3> QED BY <1>2, <2>1, <3>1 DEF PairInv
  <2>6. CASE Validate /\ UNCHANGED legacy
    <3>1. phase = "read" /\ ((\E e : Reject(e)) \/ (phase' = "accepted" /\ round' = round))
      BY <2>6 DEF Validate
    <3> QED BY <1>2, <2>1, <3>1 DEF PairInv
  <2>7. CASE WriteAndLoad /\ UNCHANGED legacy
    <3>1. phase' \in {"read", "rejected"} /\ round' = 2
      BY <2>7 DEF WriteAndLoad
    <3> QED BY <3>1 DEF PairInv
  <2>8. CASE UNCHANGED lvars
    BY <1>2, <2>8 DEF lvars, vars, PairInv
  <2> QED BY <1>2, <2>2, <2>3, <2>4, <2>5, <2>6, <2>7, <2>8 DEF ImportNext, Next
<1> QED BY <1>1, <1>2

LEMMA PairComplete == ASSUME PairInv PROVE ImportComplete
<1> SUFFICES ASSUME phase = "accepted", round = 0 PROVE ImportComplete
  BY DEF ImportComplete, Accepted
<1> DEFINE t == legacy.topology
<1>1. /\ legacy \in Imports /\ cfg = Imported(legacy) /\ Problems(cfg) = {}
      /\ ~ MainRefused(legacy.main) /\ ~ TopologyRefused(t)
  BY DEF PairInv
<1>2. t \in TokenFiles /\ cfg.segments = SegmentsOf(t)
  BY <1>1, ImportsAssumption DEF TokenFiles, Imported
<1>3. /\ KeyProblems(cfg.keys) = {}
      /\ cfg.segments # << >>
      /\ \A i \in DOMAIN cfg.segments : SegmentProblems(cfg.keys, cfg.segments[i]) = {}
  <2>1. KeyProblems(cfg.keys) = {}
    <3> SUFFICES ASSUME NEW k \in KeyProblems(cfg.keys) PROVE FALSE
      OBVIOUS
    <3>1. <<0, k>> \in Problems(cfg)
      BY DEF Problems
    <3> QED BY <1>1, <3>1
  <2>2. cfg.segments # << >>
    BY <1>1 DEF Problems
  <2>3. ASSUME NEW i \in DOMAIN cfg.segments PROVE SegmentProblems(cfg.keys, cfg.segments[i]) = {}
    <3> SUFFICES ASSUME NEW k \in SegmentProblems(cfg.keys, cfg.segments[i]) PROVE FALSE
      OBVIOUS
    <3>1. <<i, k>> \in Problems(cfg)
      BY DEF Problems
    <3> QED BY <1>1, <3>1
  <2> QED BY <2>1, <2>2, <2>3
<1>4. TopologyTaken(t, cfg.segments)
  BY <1>1, <1>2, <1>3, TopologyComplete
<1>5. MainTaken(legacy.main, cfg)
  BY <1>1, <1>3, MainComplete
<1> QED BY <1>4, <1>5 DEF ImportComplete, MainTaken, TopologyTaken

(* A pair of files that import_legacy accepts is complete, whatever its       *)
(* tokens are and however many: every value asked for is at its place, and    *)
(* none that could not be read has become a default but for those             *)
(* ImportComplete lists; the segments lie one after the other.                *)
THEOREM ImportCompleteAlways == ImportSpec => []ImportComplete
BY PairInductive, PairComplete, PTL DEF ImportSpec
===============================================================================
