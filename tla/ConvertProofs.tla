---------------------------- MODULE ConvertProofs ----------------------------
(***************************************************************************)
(* Proofs about modules Config and Convert: the conversions, for every     *)
(* width of an int and every unit; the parser, for every tree of files;    *)
(* the order in which Parse() visits what the parser has found; the        *)
(* warnings of the converter's own reader; and the tree that is written,   *)
(* which reads as what it was written for.                                 *)
(***************************************************************************)
EXTENDS Convert, SequenceTheorems, FiniteSetTheorems, Induction, TLAPS

Int64 == (-MaxInt - 1)..MaxInt

(* The units by which a size is divided, with names of their own so that   *)
(* the provers need not multiply.                                          *)
LEMMA UnitsArePositive ==
  \A u \in {"KB", "MB", "GB"} : Multiplier(u) \in Nat \ {0}
<1> DEFINE MB == Kilo * Kilo
<1>1. Kilo \in Nat \ {0}
  BY ConfigAssumption
<1>2. MB \in Nat \ {0}
  BY <1>1
<1>3. Kilo * Kilo * Kilo = MB * Kilo
  OBVIOUS
<1> HIDE DEF MB
<1>4. MB * Kilo \in Nat \ {0}
  BY <1>1, <1>2
<1> QED
  BY <1>1, <1>2, <1>3, <1>4 DEF Multiplier, MB

LEMMA WholeDivision ==
  ASSUME NEW v \in Int64, NEW m \in Nat \ {0}, v % m = 0
  PROVE  /\ v \div m \in Int64 /\ (v \div m) * m = v
<1>1. MaxInt \in Nat
  BY ConfigAssumption
<1>2. v \in Int /\ v \div m \in Int
  BY <1>1 DEF Int64
<1>3. v = m * (v \div m)
  BY <1>2
<1> QED
  BY <1>1, <1>2, <1>3 DEF Int64

LEMMA WrapKeeps ==
  ASSUME NEW v \in Int64
  PROVE  Wrap(v) = v /\ Clamp(v) = v
<1>1. MaxInt \in Nat
  BY ConfigAssumption
<1> DEFINE w == v + MaxInt + 1
<1>2. w \in 0..(2 * MaxInt + 1)
  BY <1>1 DEF Int64
<1>3. w % (2 * MaxInt + 2) = w
  BY <1>1, <1>2
<1> QED
  BY <1>1, <1>3 DEF Wrap, Clamp, Int64

(* A size that was read, an overflow included, is written in a unit that   *)
(* divides it and read back as what it was (main.go:631-649, config.go:    *)
(* 452-469).                                                               *)
THEOREM SizesRoundTrip == \A v \in Int64 : ParseBytes(formatBytes(v)) = v
<1> SUFFICES ASSUME NEW v \in Int64 PROVE ParseBytes(formatBytes(v)) = v
  OBVIOUS
<1>1. ASSUME NEW n, NEW u
      PROVE  ParseBytes(Text(Number(n, u))) = Wrap(Clamp(n) * Multiplier(u))
  BY DEF ParseBytes, Text, Number
<1>2. ASSUME NEW u \in {"KB", "MB", "GB"}, v % Multiplier(u) = 0
      PROVE  Wrap(Clamp(v \div Multiplier(u)) * Multiplier(u)) = v
  BY <1>2, UnitsArePositive, WholeDivision, WrapKeeps
<1>3. ASSUME NEW n \in Int64
      PROVE  ParseBytes(formatInt(n)) = n
  <2>1. Multiplier("") = 1
    BY DEF Multiplier
  <2>2. Clamp(n) * 1 = n
    BY WrapKeeps, ConfigAssumption DEF Int64
  <2>3. ParseBytes(formatInt(n)) = Wrap(Clamp(n) * Multiplier(""))
    BY <1>1 DEF formatInt
  <2> QED
    BY <2>1, <2>2, <2>3, WrapKeeps
<1>4. 0 \in Int64
  BY ConfigAssumption DEF Int64
<1> QED
  BY <1>1, <1>2, <1>3, <1>4 DEF formatBytes

-----------------------------------------------------------------------------
(* Values as Parse() makes them, by the kind of their key.                 *)
Values(kind) ==
  CASE kind = "bool"   -> BOOLEAN
    [] kind = "int"    -> Int64
    [] kind = "bytes"  -> Int64
    [] kind = "policy" -> {"always", "never", "on-failure"}

(* A small letter stays one.                                               *)
LEMMA SmallStaysSmall ==
  ASSUME NEW s, s \in {"true", "false", "yes"}
  PROVE  ToLower(Text(Name(s))) = Text(Name(s))
<1> DEFINE t == Text(Name(s))
           p == [key |-> "", word |-> Name(s)]
<1>0. t = <<p>> /\ p.word.name = s
  BY DEF Text, Name
<1> HIDE DEF t, p
<1>one. DOMAIN t = {1} /\ t[1] = p /\ t \in Seq({p})
  BY <1>0
<1>1. DOMAIN t = {1} /\ t[1].word.name = s /\ t = [i \in {1} |-> t[1]]
  BY <1>0, <1>one
<1>2. s \notin DOMAIN Lower
  BY RoomAssumption
<1>3. ToLower(t) = [i \in {1} |-> t[1]]
  BY <1>1, <1>2 DEF ToLower, InCase
<1> QED
  BY <1>1, <1>3 DEF t

(* What the converter writes for a field is read back as that field,       *)
(* whatever the field was before.                                          *)
THEOREM ScalarsRoundTrip ==
  \A kind \in {"bool", "int", "bytes", "policy"} : \A v \in Values(kind) :
    \A old : Converted(kind, Rendered(kind, v), old) = v
<1> SUFFICES ASSUME NEW kind \in {"bool", "int", "bytes", "policy"},
                    NEW v \in Values(kind), NEW old
             PROVE  Converted(kind, Rendered(kind, v), old) = v
  OBVIOUS
<1>1. CASE kind = "bool"
  <2>1. v \in BOOLEAN
    BY <1>1 DEF Values
  <2>2. ParseBool(Text(Name("true"))) /\ ~ParseBool(Text(Name("false")))
    <3>1. \A w, x : Text(w) = Text(x) => w = x
      BY DEF Text
    <3>2. Name("false") # Name("true") /\ Name("false") # Name("yes")
      BY DEF Name
    <3>3. Name("false") # Number(1, "")
      BY DEF Name, Number
    <3> QED
      BY <3>1, <3>2, <3>3, SmallStaysSmall DEF ParseBool
  <2>3. Converted(kind, Rendered(kind, v), old) = ParseBool(formatBool(v))
    BY <1>1 DEF Converted, Rendered
  <2>4. ParseBool(formatBool(v)) \in BOOLEAN
    BY DEF ParseBool
  <2>5. ParseBool(formatBool(v)) <=> v
    <3>1. CASE v
      BY <2>2, <3>1 DEF formatBool
    <3>2. CASE ~v
      BY <2>2, <3>2 DEF formatBool
    <3> QED
      BY <3>1, <3>2
  <2> QED
    BY <2>1, <2>3, <2>4, <2>5
<1>2. CASE kind = "int"
  <2>1. v \in Int64
    BY <1>2 DEF Values
  <2>2. Atoi(formatInt(v)) = Clamp(v)
    BY DEF Atoi, formatInt, Text, Number, IsInt
  <2> QED
    BY <1>2, <2>1, <2>2, WrapKeeps DEF Converted, Rendered
<1>3. CASE kind = "bytes"
  BY <1>3, SizesRoundTrip DEF Values, Converted, Rendered
<1>4. CASE kind = "policy"
  <2>1. v \in {"always", "never", "on-failure"}
    BY <1>4 DEF Values
  <2>2. ParsePolicy(Text(Name(v)), old) = Policies[v]
    <3>1. /\ Len(Text(Name(v))) = 1 /\ Text(Name(v))[1].word = Name(v)
          /\ Name(v).kind = "name" /\ Name(v).name = v
      BY DEF Text, Name
    <3>2. v \in DOMAIN Policies
      BY <2>1 DEF Policies
    <3> QED
      BY <3>1, <3>2 DEF ParsePolicy
  <2>3. Policies[v] = v
    BY <2>1 DEF Policies
  <2> QED
    BY <1>4, <2>2, <2>3 DEF Converted, Rendered
<1> QED
  BY <1>1, <1>2, <1>3, <1>4

-----------------------------------------------------------------------------
(* The order in which Parse() visits the sections.                         *)

Struct(a, b, p, g) ==
  [supervisor |-> a, email |-> b, programs |-> p, groups |-> g]

LEMMA PutsCommute ==
  ASSUME NEW f, NEW m, NEW n, m # n, NEW x, NEW y
  PROVE  Put(Put(f, m, x), n, y) = Put(Put(f, n, y), m, x)
BY DEF Put

(* What one turn of the loop does, by the kind of the section.             *)
LEMMA DispatchCases ==
  ASSUME NEW a, NEW b, NEW p, NEW g, NEW s, NEW kvs
  PROVE
    /\ s \in Globals => Dispatch(Struct(a, b, p, g), s, kvs)
                         = Struct(Overlay(SupervisorKeys, a, kvs), b, p, g)
    /\ s \in Mails => Dispatch(Struct(a, b, p, g), s, kvs)
                       = Struct(a, Overlay(EmailKeys, b, kvs), p, g)
    /\ Named(s, "program") =>
         Dispatch(Struct(a, b, p, g), s, kvs)
         = Struct(a, b, Put(p, s.name, Overlay(ProgramKeys, defaultProcessConfig, kvs)), g)
    /\ Named(s, "group") =>
         Dispatch(Struct(a, b, p, g), s, kvs)
         = Struct(a, b, p, Put(g, s.name, Overlay(GroupKeys, noGroupConfig, kvs)))
    /\ ~(s \in Globals \cup Mails \/ Named(s, "program") \/ Named(s, "group")) =>
         Dispatch(Struct(a, b, p, g), s, kvs) = Struct(a, b, p, g)
<1>1. /\ s \in Globals => s \notin Mails /\ ~Named(s, "program") /\ ~Named(s, "group")
      /\ s \in Mails => ~Named(s, "program") /\ ~Named(s, "group")
      /\ ~(Named(s, "program") /\ Named(s, "group"))
  <2>0. \A type, name : Section(type, name).type = type
    BY DEF Section
  <2>1. s \in Globals => s.type \in {"supervisord", "direktord"}
    BY <2>0 DEF Globals
  <2>2. s \in Mails => s.type \in {"email", "notify"}
    BY <2>0 DEF Mails
  <2> QED
    BY <2>1, <2>2 DEF Named
<1> DEFINE O1 == Overlay(SupervisorKeys, a, kvs)
           O2 == Overlay(EmailKeys, b, kvs)
           O3 == Put(p, s.name, Overlay(ProgramKeys, defaultProcessConfig, kvs))
           O4 == Put(g, s.name, Overlay(GroupKeys, noGroupConfig, kvs))
<1>2. Dispatch(Struct(a, b, p, g), s, kvs)
        = CASE s \in Globals       -> Struct(O1, b, p, g)
            [] s \in Mails         -> Struct(a, O2, p, g)
            [] Named(s, "program") -> Struct(a, b, O3, g)
            [] Named(s, "group")   -> Struct(a, b, p, O4)
            [] OTHER               -> Struct(a, b, p, g)
  BY DEF Dispatch, Struct
<1> HIDE DEF O1, O2, O3, O4
<1> QED
  BY <1>1, <1>2 DEF O1, O2, O3, O4

(* Sections that do not write to one struct may be visited in either order,*)
(* which is why Configs() permutes only those that do (config.go:60-61).   *)
THEOREM SectionsCommute ==
  ASSUME NEW Types, NEW Labels, NEW s \in [type : Types, name : Labels, spaced : BOOLEAN],
         NEW t \in [type : Types, name : Labels, spaced : BOOLEAN], s # t,
         ~({s, t} \subseteq Globals), ~({s, t} \subseteq Mails),
         NEW a, NEW b, NEW p, NEW g, NEW kvs, NEW kws
  PROVE  Dispatch(Dispatch(Struct(a, b, p, g), s, kvs), t, kws)
           = Dispatch(Dispatch(Struct(a, b, p, g), t, kws), s, kvs)
<1>1. ASSUME Named(s, "program"), Named(t, "program")
      PROVE  s.name # t.name
  BY <1>1 DEF Named
<1>2. ASSUME Named(s, "group"), Named(t, "group")
      PROVE  s.name # t.name
  BY <1>2 DEF Named
<1>3. CASE s \in Globals
  BY <1>3, DispatchCases
<1>4. CASE s \in Mails
  BY <1>4, DispatchCases
<1>5. CASE Named(s, "program")
  BY <1>1, <1>5, DispatchCases, PutsCommute
<1>6. CASE Named(s, "group")
  BY <1>2, <1>6, DispatchCases, PutsCommute
<1>7. CASE ~(s \in Globals \cup Mails \/ Named(s, "program") \/ Named(s, "group"))
  BY <1>7, DispatchCases
<1> QED
  BY <1>3, <1>4, <1>5, <1>6, <1>7

-----------------------------------------------------------------------------
(* A program added over HTTP is the program of a section that gives the    *)
(* same keys words that convert to the same values (server.go:292-346).    *)
THEOREM AddedLikeParsed ==
  ASSUME NEW req, NEW kvs, DOMAIN kvs = DOMAIN req,
         DOMAIN req \subseteq AddProcessRequest,
         \A k \in DOMAIN req :
           Converted(ProgramKeys[k], kvs[k], defaultProcessConfig[k]) = req[k],
         "autorestart" \in DOMAIN req =>
           req["autorestart"] \in {"always", "on-failure", "never"}
  PROVE  handleAddProcess(req) = Overlay(ProgramKeys, defaultProcessConfig, kvs)
<1>1. webDefaults = defaultProcessConfig
  BY DEF webDefaults, defaultProcessConfig
<1> QED
  BY <1>1 DEF handleAddProcess, Overlay

-----------------------------------------------------------------------------
(* The parser reads a tree from top to bottom.                             *)

(* What a map of sections says of the sequence of entries it came from.    *)
Is(e, s, k) == e.section = s /\ e.key = k

LastIs(seq, i, s, k) ==
  Is(seq[i], s, k) /\ \A j \in 1..Len(seq) : j > i => ~Is(seq[j], s, k)

Agrees(sections, seq) ==
  /\ \A s : s \in DOMAIN sections
               <=> s # NoSection /\ \E i \in 1..Len(seq) : seq[i].section = s
  /\ \A s \in DOMAIN sections : \A k :
       k \in DOMAIN sections[s] <=> k # "" /\ \E i \in 1..Len(seq) : Is(seq[i], s, k)
  /\ \A s \in DOMAIN sections : \A k \in DOMAIN sections[s] :
       \E i \in 1..Len(seq) : LastIs(seq, i, s, k) /\ sections[s][k] = seq[i].value

LEMMA NothingAgrees == Agrees(NoSections, <<>>)
BY DEF Agrees, NoSections

LEMMA Singleton ==
  ASSUME NEW e
  PROVE  1..Len(<<e>>) = {1} /\ <<e>>[1] = e /\ ~(1 > 1)
OBVIOUS

LEMMA EmptyDomain == DOMAIN <<>> = {}
OBVIOUS

LEMMA HeaderAgrees ==
  ASSUME NEW h, h # NoSection, NEW e, e.section = h, e.key = ""
  PROVE  Agrees([s \in {h} |-> <<>>], <<e>>)
<1> DEFINE seq == <<e>>
<1>1. 1..Len(seq) = {1} /\ seq[1] = e
  BY Singleton
<1> HIDE DEF seq
<1>3. Agrees([s \in {h} |-> <<>>], seq)
  BY <1>1, EmptyDomain DEF Agrees, Is
<1> QED
  BY <1>3 DEF seq

Assigned(h, key, v) == [s \in {h} |-> [k \in {key} |-> v]]

LEMMA AssignmentAgrees ==
  ASSUME NEW h, h # NoSection, NEW key, NEW v, key # "",
         NEW e, e.section = h, e.key = key, e.value = v
  PROVE  Agrees(Assigned(h, key, v), <<e>>)
<1> DEFINE seq == <<e>>
           one == Assigned(h, key, v)
<1>1. 1..Len(seq) = {1} /\ seq[1] = e /\ ~(1 > 1)
  BY Singleton
<1>2. /\ DOMAIN one = {h} /\ DOMAIN one[h] = {key} /\ one[h][key] = v
      /\ \A s, k : Is(e, s, k) <=> s = h /\ k = key
  BY DEF Is, Assigned
<1> HIDE DEF seq, one
<1>3. LastIs(seq, 1, h, key)
  BY <1>1, <1>2 DEF LastIs
<1>4. Agrees(one, seq)
  BY <1>1, <1>2, <1>3 DEF Agrees
<1> QED
  BY <1>4 DEF seq, one

(* What belongs to no section says nothing of any.                         *)
LEMMA StrayAgrees ==
  ASSUME NEW e, e.section = NoSection
  PROVE  Agrees(NoSections, <<e>>)
<1> DEFINE seq == <<e>>
<1>1. 1..Len(seq) = {1} /\ seq[1] = e
  BY Singleton
<1> HIDE DEF seq
<1>2. Agrees(NoSections, seq)
  BY <1>1 DEF Agrees, NoSections
<1> QED
  BY <1>2 DEF seq

(* A map laid over another one is one entry sequence behind the other.     *)
LEMMA MergeAgrees ==
  ASSUME NEW E, NEW x \in Seq(E), NEW y \in Seq(E), NEW a, NEW b,
         Agrees(a, x), Agrees(b, y)
  PROVE  Agrees(Merge(a, b), x \o y)
<1> DEFINE z == x \o y
           m == Merge(a, b)
           n == Len(x)
<1>1. /\ n \in Nat /\ Len(y) \in Nat /\ Len(z) = n + Len(y)
      /\ \A i \in 1..n : i \in 1..Len(z) /\ z[i] = x[i]
      /\ \A j \in 1..Len(y) : n + j \in 1..Len(z) /\ z[n + j] = y[j]
      /\ \A i \in 1..Len(z) : i \in 1..n \/ i - n \in 1..Len(y)
  BY ConcatProperties
<1>2. /\ DOMAIN m = DOMAIN a \cup DOMAIN b
      /\ \A s \in DOMAIN a : s \notin DOMAIN b => m[s] = a[s]
      /\ \A s \in DOMAIN b : s \notin DOMAIN a => m[s] = b[s]
      /\ \A s \in DOMAIN a \cap DOMAIN b :
           /\ DOMAIN m[s] = DOMAIN a[s] \cup DOMAIN b[s]
           /\ \A k \in DOMAIN b[s] : m[s][k] = b[s][k]
           /\ \A k \in DOMAIN a[s] : k \notin DOMAIN b[s] => m[s][k] = a[s][k]
  BY DEF Merge, Over
<1> HIDE DEF m, z, n
<1>3. ASSUME NEW i \in 1..Len(z)
      PROVE  \/ i \in 1..n /\ z[i] = x[i]
             \/ i - n \in 1..Len(y) /\ z[i] = y[i - n]
  <2>1. i - n \in 1..Len(y) => n + (i - n) = i
    BY <1>1
  <2> QED
    BY <1>1, <2>1
<1>4. ASSUME NEW s
      PROVE  /\ (\E i \in 1..Len(z) : z[i].section = s)
                  <=> \/ \E i \in 1..n : x[i].section = s
                      \/ \E j \in 1..Len(y) : y[j].section = s
             /\ \A k : (\E i \in 1..Len(z) : Is(z[i], s, k))
                  <=> \/ \E i \in 1..n : Is(x[i], s, k)
                      \/ \E j \in 1..Len(y) : Is(y[j], s, k)
  BY <1>1, <1>3
<1>5. \A s : s \in DOMAIN m <=> s # NoSection /\ \E i \in 1..Len(z) : z[i].section = s
  BY <1>2, <1>4 DEF Agrees, n
<1>6. \A s \in DOMAIN m : \A k :
        k \in DOMAIN m[s] <=> k # "" /\ \E i \in 1..Len(z) : Is(z[i], s, k)
  <2> SUFFICES ASSUME NEW s \in DOMAIN m, NEW k
               PROVE  k \in DOMAIN m[s] <=> k # "" /\ \E i \in 1..Len(z) : Is(z[i], s, k)
    OBVIOUS
  <2>1. s \in DOMAIN a =>
          (k \in DOMAIN a[s] <=> k # "" /\ \E i \in 1..n : Is(x[i], s, k))
    BY DEF Agrees, n
  <2>2. s \in DOMAIN b =>
          (k \in DOMAIN b[s] <=> k # "" /\ \E j \in 1..Len(y) : Is(y[j], s, k))
    BY DEF Agrees
  <2>s. s # NoSection
    BY <1>5
  <2>3. s \notin DOMAIN a => ~ \E i \in 1..n : Is(x[i], s, k)
    BY <2>s DEF Agrees, Is, n
  <2>4. s \notin DOMAIN b => ~ \E j \in 1..Len(y) : Is(y[j], s, k)
    BY <2>s DEF Agrees, Is
  <2> QED
    BY <1>2, <1>4, <2>1, <2>2, <2>3, <2>4
<1>7. ASSUME NEW s \in DOMAIN m, NEW k \in DOMAIN m[s]
      PROVE  \E i \in 1..Len(z) : LastIs(z, i, s, k) /\ m[s][k] = z[i].value
  <2>1. CASE s \in DOMAIN b /\ k \in DOMAIN b[s]
    <3>1. PICK j \in 1..Len(y) : LastIs(y, j, s, k) /\ b[s][k] = y[j].value
      BY <2>1 DEF Agrees
    <3>2. n + j \in 1..Len(z) /\ z[n + j] = y[j]
      BY <1>1
    <3>3. ASSUME NEW i \in 1..Len(z), i > n + j
          PROVE  ~Is(z[i], s, k)
      <4>1. i - n \in 1..Len(y) /\ z[i] = y[i - n] /\ i - n > j
        BY <1>1, <1>3, <3>3
      <4> QED
        BY <3>1, <4>1 DEF LastIs
    <3>4. m[s][k] = b[s][k]
      BY <1>2, <2>1
    <3> QED
      BY <3>1, <3>2, <3>3, <3>4 DEF LastIs
  <2>2. CASE ~(s \in DOMAIN b /\ k \in DOMAIN b[s])
    <3>1. s \in DOMAIN a /\ k \in DOMAIN a[s] /\ m[s][k] = a[s][k]
      BY <1>2, <2>2
    <3>2. PICK i \in 1..n : LastIs(x, i, s, k) /\ a[s][k] = x[i].value
      BY <3>1 DEF Agrees, n
    <3>3. k # ""
      BY <3>1 DEF Agrees
    <3>4. \A j \in 1..Len(y) : ~Is(y[j], s, k)
      <4>1. CASE s \in DOMAIN b
        BY <2>2, <3>3, <4>1 DEF Agrees
      <4>2. CASE s \notin DOMAIN b
        BY <1>5, <4>2 DEF Agrees, Is
      <4> QED
        BY <4>1, <4>2
    <3>5. ASSUME NEW j \in 1..Len(z), j > i
          PROVE  ~Is(z[j], s, k)
      BY <1>3, <3>2, <3>4, <3>5 DEF LastIs, n
    <3> QED
      BY <1>1, <3>1, <3>2, <3>5 DEF LastIs
  <2> QED
    BY <2>1, <2>2
<1> QED
  BY <1>5, <1>6, <1>7 DEF Agrees, m, z

(* A map with the empty map laid over it holds what it held.               *)
LEMMA LaidUnderNothing ==
  ASSUME NEW a, NEW seq, Agrees(Merge(a, NoSections), seq)
  PROVE  Agrees(a, seq)
<1> DEFINE m == Merge(a, NoSections)
<1>1. DOMAIN m = DOMAIN a /\ \A s \in DOMAIN a : m[s] = a[s]
  BY EmptyDomain DEF Merge, NoSections
<1>2. Agrees(m, seq)
  OBVIOUS
<1> HIDE DEF m
<1>3. ASSUME NEW s \in DOMAIN a
      PROVE  /\ \A k : k \in DOMAIN a[s] <=> k # "" /\ \E i \in 1..Len(seq) : Is(seq[i], s, k)
             /\ \A k \in DOMAIN a[s] :
                  \E i \in 1..Len(seq) : LastIs(seq, i, s, k) /\ a[s][k] = seq[i].value
  <2>1. s \in DOMAIN m /\ m[s] = a[s]
    BY <1>1
  <2>2. /\ \A k : k \in DOMAIN m[s] <=> k # "" /\ \E i \in 1..Len(seq) : Is(seq[i], s, k)
        /\ \A k \in DOMAIN m[s] :
             \E i \in 1..Len(seq) : LastIs(seq, i, s, k) /\ m[s][k] = seq[i].value
    BY <1>2, <2>1, Zenon DEF Agrees
  <2> QED
    BY <2>1, <2>2
<1> QED
  BY <1>1, <1>2, <1>3, Zenon DEF Agrees

(* The loops of the parser, one turn after the other.                      *)
IncludeUpTo(d, pattern, left, parsed, n, f) ==
  f = [i \in 0..n |->
         IF i = 0 THEN Begins
         ELSE Matched(d, pattern, left, f[i - 1], pattern.names[i], parsed[pattern.names[i]])]

LEMMA IncludeLoop ==
  ASSUME NEW d, NEW pattern, NEW left, NEW parsed, Len(pattern.names) \in Nat
  PROVE  \E f : /\ IncludeUpTo(d, pattern, left, parsed, Len(pattern.names), f)
                /\ handleInclude(d, pattern, left, parsed) = f[Len(pattern.names)]
<1> DEFINE P(n, f) == IncludeUpTo(d, pattern, left, parsed, n, f)
           Turn(i, acc) ==
             Matched(d, pattern, left, acc, pattern.names[i], parsed[pattern.names[i]])
           size == Len(pattern.names)
           S == {n \in 0..size : \E f : P(n, f)}
<1>1. 0 \in S
  <2>1. P(0, [i \in 0..0 |-> Begins])
    BY DEF IncludeUpTo
  <2> QED
    BY <2>1
<1>2. ASSUME NEW n \in 0..(size - 1), n \in S
      PROVE  n + 1 \in S
  <2>1. PICK f : P(n, f)
    BY <1>2
  <2> DEFINE g == [i \in 0..(n + 1) |-> IF i = n + 1 THEN Turn(n + 1, f[n]) ELSE f[i]]
  <2>2. ASSUME NEW i \in 0..(n + 1)
        PROVE  g[i] = IF i = 0 THEN Begins ELSE Turn(i, g[i - 1])
    <3>1. CASE i = n + 1
      <4>1. i # 0 /\ i - 1 = n /\ n \in 0..(n + 1) /\ n # n + 1
        BY <3>1
      <4> HIDE DEF Turn
      <4> QED
        BY <3>1, <4>1
    <3>2. CASE i # n + 1
      <4>1. i \in 0..n /\ (i # 0 => i - 1 \in 0..(n + 1) /\ i - 1 # n + 1)
        BY <3>2
      <4>2. f[i] = IF i = 0 THEN Begins ELSE Turn(i, f[i - 1])
        BY <2>1, <4>1 DEF IncludeUpTo
      <4> HIDE DEF Turn
      <4> QED
        BY <3>2, <4>1, <4>2
    <3> QED
      BY <3>1, <3>2
  <2>3. P(n + 1, g)
    <3> HIDE DEF g
    <3>1. g = [i \in 0..(n + 1) |-> g[i]]
      BY DEF g
    <3> QED
      BY <2>2, <3>1 DEF IncludeUpTo
  <2> HIDE DEF g, P
  <2> QED
    BY <2>3
<1>3. size \in S
  <2> HIDE DEF S
  <2>1. 0..size \subseteq S
    BY <1>1, <1>2, UpTo
  <2> QED
    BY <2>1
<1> DEFINE F == CHOOSE f : P(size, f)
<1>4. P(size, F)
  BY <1>3
<1>5. handleInclude(d, pattern, left, parsed) = F[size]
  BY DEF handleInclude, IncludeUpTo
<1> QED
  BY <1>4, <1>5

ScanUpTo(d, left, parsed, lines, n, f) ==
  f = [i \in 0..n |-> IF i = 0 THEN Begins ELSE Scan(d, left, parsed, f[i - 1], lines[i])]

LEMMA ScanLoop ==
  ASSUME NEW d, NEW left, NEW parsed, NEW lines, Len(lines) \in Nat
  PROVE  \E f : /\ ScanUpTo(d, left, parsed, lines, Len(lines), f)
                /\ Scanned(d, left, parsed, lines) = f[Len(lines)]
<1> DEFINE P(n, f) == ScanUpTo(d, left, parsed, lines, n, f)
           Turn(i, acc) == Scan(d, left, parsed, acc, lines[i])
           size == Len(lines)
           S == {n \in 0..size : \E f : P(n, f)}
<1>0. size \in Nat
  BY ConfigAssumption
<1>1. 0 \in S
  <2>1. P(0, [i \in 0..0 |-> Begins])
    BY DEF ScanUpTo
  <2> QED
    BY <1>0, <2>1
<1>2. ASSUME NEW n \in 0..(size - 1), n \in S
      PROVE  n + 1 \in S
  <2>1. PICK f : P(n, f)
    BY <1>2
  <2> DEFINE g == [i \in 0..(n + 1) |-> IF i = n + 1 THEN Turn(n + 1, f[n]) ELSE f[i]]
  <2>2. ASSUME NEW i \in 0..(n + 1)
        PROVE  g[i] = IF i = 0 THEN Begins ELSE Turn(i, g[i - 1])
    <3>1. CASE i = n + 1
      <4>1. i # 0 /\ i - 1 = n /\ n \in 0..(n + 1) /\ n # n + 1
        BY <3>1
      <4> HIDE DEF Turn
      <4> QED
        BY <3>1, <4>1
    <3>2. CASE i # n + 1
      <4>1. i \in 0..n /\ (i # 0 => i - 1 \in 0..(n + 1) /\ i - 1 # n + 1)
        BY <3>2
      <4>2. f[i] = IF i = 0 THEN Begins ELSE Turn(i, f[i - 1])
        BY <2>1, <4>1 DEF ScanUpTo
      <4> HIDE DEF Turn
      <4> QED
        BY <3>2, <4>1, <4>2
    <3> QED
      BY <3>1, <3>2
  <2>3. P(n + 1, g)
    <3> HIDE DEF g
    <3>1. g = [i \in 0..(n + 1) |-> g[i]]
      BY DEF g
    <3> QED
      BY <2>2, <3>1 DEF ScanUpTo
  <2> HIDE DEF g, P
  <2> QED
    BY <1>0, <2>3
<1>3. size \in S
  <2> HIDE DEF S, size
  <2>1. 0..size \subseteq S
    BY <1>0, <1>1, <1>2, UpTo
  <2> QED
    BY <1>0, <2>1
<1> DEFINE F == CHOOSE f : P(size, f)
<1>4. P(size, F)
  BY <1>3
<1>5. Scanned(d, left, parsed, lines) = F[size]
  BY DEF Scanned, ScanUpTo
<1> QED
  BY <1>4, <1>5

(* The levels of parseINI(), by how many files may still be opened.        *)
ParseUpTo(d, n, f) ==
  f = [left \in 0..n |->
         [path \in Paths |->
            IF left = 0 \/ d[path].state # "file" THEN Fails
            ELSE Scanned(d, left - 1, f[left - 1], d[path].lines)]]

LEMMA ParseLoop ==
  ASSUME NEW d
  PROVE  \E f : ParseUpTo(d, MaxOpen, f) /\ ParseINI(d) = f[MaxOpen]
<1> DEFINE P(n, f) == ParseUpTo(d, n, f)
           Turn(i, acc) ==
             [path \in Paths |->
                IF i = 0 \/ d[path].state # "file" THEN Fails
                ELSE Scanned(d, i - 1, acc, d[path].lines)]
           size == MaxOpen
           S == {n \in 0..size : \E f : P(n, f)}
<1>0. size \in Nat
  BY ConfigAssumption
<1>1. 0 \in S
  <2>1. P(0, [i \in 0..0 |-> [path \in Paths |-> Fails]])
    BY DEF ParseUpTo
  <2> QED
    BY <1>0, <2>1
<1>2. ASSUME NEW n \in 0..(size - 1), n \in S
      PROVE  n + 1 \in S
  <2>1. PICK f : P(n, f)
    BY <1>2
  <2> DEFINE g == [i \in 0..(n + 1) |-> IF i = n + 1 THEN Turn(n + 1, f[n]) ELSE f[i]]
  <2>2. ASSUME NEW i \in 0..(n + 1)
        PROVE  g[i] = Turn(i, g[i - 1])
    <3>1. CASE i = n + 1
      <4>1. i # 0 /\ i - 1 = n /\ n \in 0..(n + 1) /\ n # n + 1
        BY <3>1
      <4> HIDE DEF Turn
      <4> QED
        BY <3>1, <4>1
    <3>2. CASE i # n + 1
      <4>1. i \in 0..n /\ (i # 0 => i - 1 \in 0..(n + 1) /\ i - 1 # n + 1)
        BY <3>2
      <4>2. f[i] = Turn(i, f[i - 1])
        BY <2>1, <4>1 DEF ParseUpTo
      <4>3. Turn(0, f[0 - 1]) = Turn(0, g[0 - 1])
        OBVIOUS
      <4> HIDE DEF Turn
      <4> QED
        BY <3>2, <4>1, <4>2, <4>3
    <3> QED
      BY <3>1, <3>2
  <2>3. P(n + 1, g)
    <3> HIDE DEF g
    <3>1. g = [i \in 0..(n + 1) |-> g[i]]
      BY DEF g
    <3> QED
      BY <2>2, <3>1 DEF ParseUpTo
  <2> HIDE DEF g, P
  <2> QED
    BY <1>0, <2>3
<1>3. size \in S
  <2> HIDE DEF S, size
  <2>1. 0..size \subseteq S
    BY <1>0, <1>1, <1>2, UpTo
  <2> QED
    BY <1>0, <2>1
<1> DEFINE F == CHOOSE f : P(size, f)
<1>4. P(size, F)
  BY <1>3
<1>5. ParseINI(d) = F[size]
  BY DEF ParseINI, ParseUpTo
<1> QED
  BY <1>4, <1>5

(* And those of the reading.                                               *)
ReadUpTo(d, n, f) ==
  f = [left \in 0..n |->
         [p \in Paths |->
            IF left = 0 THEN <<>>
            ELSE FlattenSeq([i \in DOMAIN d[p].lines |-> Part(d, p, left - 1, f[left - 1], i)])]]

LEMMA ReadLoop ==
  ASSUME NEW d
  PROVE  \E f : ReadUpTo(d, MaxOpen, f) /\ Reading(d) = f[MaxOpen]
<1> DEFINE P(n, f) == ReadUpTo(d, n, f)
           Turn(i, acc) ==
             [p \in Paths |->
                IF i = 0 THEN <<>>
                ELSE FlattenSeq([j \in DOMAIN d[p].lines |-> Part(d, p, i - 1, acc, j)])]
           size == MaxOpen
           S == {n \in 0..size : \E f : P(n, f)}
<1>0. size \in Nat
  BY ConfigAssumption
<1>1. 0 \in S
  <2>1. P(0, [i \in 0..0 |-> [p \in Paths |-> <<>>]])
    BY DEF ReadUpTo
  <2> QED
    BY <1>0, <2>1
<1>2. ASSUME NEW n \in 0..(size - 1), n \in S
      PROVE  n + 1 \in S
  <2>1. PICK f : P(n, f)
    BY <1>2
  <2> DEFINE g == [i \in 0..(n + 1) |-> IF i = n + 1 THEN Turn(n + 1, f[n]) ELSE f[i]]
  <2>2. ASSUME NEW i \in 0..(n + 1)
        PROVE  g[i] = Turn(i, g[i - 1])
    <3>1. CASE i = n + 1
      <4>1. i # 0 /\ i - 1 = n /\ n \in 0..(n + 1) /\ n # n + 1
        BY <3>1
      <4> HIDE DEF Turn
      <4> QED
        BY <3>1, <4>1
    <3>2. CASE i # n + 1
      <4>1. i \in 0..n /\ (i # 0 => i - 1 \in 0..(n + 1) /\ i - 1 # n + 1)
        BY <3>2
      <4>2. f[i] = Turn(i, f[i - 1])
        BY <2>1, <4>1 DEF ReadUpTo
      <4>3. Turn(0, f[0 - 1]) = Turn(0, g[0 - 1])
        OBVIOUS
      <4> HIDE DEF Turn
      <4> QED
        BY <3>2, <4>1, <4>2, <4>3
    <3> QED
      BY <3>1, <3>2
  <2>3. P(n + 1, g)
    <3> HIDE DEF g
    <3>1. g = [i \in 0..(n + 1) |-> g[i]]
      BY DEF g
    <3> QED
      BY <2>2, <3>1 DEF ReadUpTo
  <2> HIDE DEF g, P
  <2> QED
    BY <1>0, <2>3
<1>3. size \in S
  <2> HIDE DEF S, size
  <2>1. 0..size \subseteq S
    BY <1>0, <1>1, <1>2, UpTo
  <2> QED
    BY <1>0, <2>1
<1> DEFINE F == CHOOSE f : P(size, f)
<1>4. P(size, F)
  BY <1>3
<1>5. Reading(d) = F[size]
  BY DEF Reading, ReadUpTo
<1> QED
  BY <1>4, <1>5
(* FlattenSeq(), one sequence after the other.                             *)
FlatUpTo(ss, n, f) == f = [i \in 1..n |-> IF i = 1 THEN ss[i] ELSE f[i - 1] \o ss[i]]

LEMMA FlattenLoop ==
  ASSUME NEW E, NEW ss \in Seq(E)
  PROVE  \E f : /\ FlatUpTo(ss, Len(ss), f)
                /\ FlattenSeq(ss) = IF Len(ss) = 0 THEN ss ELSE f[Len(ss)]
<1> DEFINE P(n, f) == FlatUpTo(ss, n, f)
           Turn(i, acc) == acc \o ss[i]
           size == Len(ss)
           S == {n \in 0..size : \E f : P(n, f)}
<1>0. size \in Nat
  OBVIOUS
<1>1. 0 \in S
  <2>1. P(0, [i \in 1..0 |-> ss[i]])
    BY DEF FlatUpTo
  <2> QED
    BY <1>0, <2>1
<1>2. ASSUME NEW n \in 0..(size - 1), n \in S
      PROVE  n + 1 \in S
  <2>1. PICK f : P(n, f)
    BY <1>2
  <2> DEFINE g == [i \in 1..(n + 1) |->
                     IF i = n + 1 THEN (IF i = 1 THEN ss[i] ELSE Turn(n + 1, f[n])) ELSE f[i]]
  <2>2. ASSUME NEW i \in 1..(n + 1)
        PROVE  g[i] = IF i = 1 THEN ss[i] ELSE Turn(i, g[i - 1])
    <3>1. CASE i = n + 1
      <4>1. i - 1 = n /\ n # n + 1 /\ (i # 1 => n \in 1..(n + 1))
        BY <3>1
      <4> HIDE DEF Turn
      <4> QED
        BY <3>1, <4>1
    <3>2. CASE i # n + 1
      <4>1. i \in 1..n /\ (i # 1 => i - 1 \in 1..(n + 1) /\ i - 1 # n + 1)
        BY <3>2
      <4>2. f[i] = IF i = 1 THEN ss[i] ELSE Turn(i, f[i - 1])
        BY <2>1, <4>1 DEF FlatUpTo
      <4> HIDE DEF Turn
      <4> QED
        BY <3>2, <4>1, <4>2
    <3> QED
      BY <3>1, <3>2
  <2>3. P(n + 1, g)
    <3> HIDE DEF g
    <3>1. g = [i \in 1..(n + 1) |-> g[i]]
      BY DEF g
    <3> QED
      BY <2>2, <3>1 DEF FlatUpTo
  <2> HIDE DEF g, P
  <2> QED
    BY <1>0, <2>3
<1>3. size \in S
  <2> HIDE DEF S, size
  <2>1. 0..size \subseteq S
    BY <1>0, <1>1, <1>2, UpTo
  <2> QED
    BY <1>0, <2>1
<1> DEFINE F == CHOOSE f : P(size, f)
<1>4. P(size, F)
  BY <1>3
<1>5. FlattenSeq(ss) = IF size = 0 THEN ss ELSE F[size]
  BY DEF FlattenSeq, FlatUpTo
<1> QED
  BY <1>4, <1>5

LEMMA FlattenSteps ==
  ASSUME NEW E, NEW ss \in Seq(Seq(E))
  PROVE  \E g \in [0..Len(ss) -> Seq(E)] :
           /\ g[0] = <<>>
           /\ \A i \in 1..Len(ss) : g[i] = g[i - 1] \o ss[i]
           /\ FlattenSeq(ss) = g[Len(ss)]
<1> DEFINE size == Len(ss)
<1>0. size \in Nat /\ \A i \in 1..size : ss[i] \in Seq(E)
  OBVIOUS
<1>1. PICK f : FlatUpTo(ss, size, f) /\ FlattenSeq(ss) = IF size = 0 THEN ss ELSE f[size]
  BY FlattenLoop
<1>2. \A i \in 1..size : f[i] = IF i = 1 THEN ss[i] ELSE f[i - 1] \o ss[i]
  BY <1>1 DEF FlatUpTo
<1>3. size = 0 => ss = <<>>
  BY EmptySeq
<1> DEFINE g == [i \in 0..size |-> IF i = 0 THEN <<>> ELSE f[i]]
           Q == Seq(E)
           S == {n \in 0..size : g[n] \in Q}
<1> HIDE DEF size
<1>4. ASSUME NEW i \in 1..size
      PROVE  g[i] = f[i] /\ i - 1 \in 0..size /\ g[i - 1] = (IF i = 1 THEN <<>> ELSE f[i - 1])
  BY <1>0
<1>5. g[0] = <<>>
  BY <1>0
<1> HIDE DEF g
<1>6. \A i \in 1..size : g[i] = g[i - 1] \o ss[i]
  BY <1>0, <1>2, <1>4, ConcatEmptySeq
<1>7. <<>> \in Q /\ \A x, y \in Q : x \o y \in Q
  BY ConcatProperties
<1>parts. \A i \in 1..size : ss[i] \in Q
  BY <1>0
<1> HIDE DEF Q
<1>8. \A n \in 0..(size - 1) : n \in S => n + 1 \in S
  <2> SUFFICES ASSUME NEW n \in 0..(size - 1), n \in S PROVE n + 1 \in S
    OBVIOUS
  <2>1. n + 1 \in 1..size /\ (n + 1) - 1 = n /\ g[n] \in Q
    BY <1>0
  <2>2. g[n + 1] = g[n] \o ss[n + 1]
    BY <1>6, <2>1
  <2>3. g[n + 1] \in Q
    BY <1>7, <1>parts, <2>1, <2>2
  <2> QED
    BY <1>0, <2>1, <2>3
<1>9. \A n \in 0..size : g[n] \in Q
  <2>1. 0 \in S
    BY <1>0, <1>5, <1>7
  <2> HIDE DEF S
  <2>2. 0..size \subseteq S
    BY <1>0, <1>8, <2>1, UpTo
  <2> QED
    BY <2>2 DEF S
<1>10. g \in [0..size -> Seq(E)]
  BY <1>9 DEF g, Q
<1>11. FlattenSeq(ss) = g[size]
  BY <1>0, <1>1, <1>3, <1>4, <1>5
<1> QED
  BY <1>5, <1>6, <1>10, <1>11 DEF size
-----------------------------------------------------------------------------
(* What a file contributes is a sequence of entries of the tree.           *)
WellFormed(d) == \A p \in Paths : IsFile(d[p])

Entries(d) == {Entry(p, SectionAt(d[p].lines, i), d[p].lines[i]) : p \in Paths, i \in Nat}

(* The parts that an include stands for.                                   *)
Below(d, pattern, left, below) ==
  [j \in DOMAIN pattern.names |->
     IF Globbed(d, pattern, left, pattern.names[j]) THEN below[pattern.names[j]] ELSE <<>>]

LEMMA FunctionIsSeq ==
  ASSUME NEW Q, NEW n \in Nat, NEW b \in [1..n -> Q]
  PROVE  b \in Seq(Q) /\ Len(b) = n
OBVIOUS

LEMMA BelowIsRead ==
  ASSUME NEW d, NEW E, NEW below \in [Paths -> Seq(E)], NEW left,
         NEW pattern, pattern.names \in Seq(Paths)
  PROVE  /\ Below(d, pattern, left, below) \in Seq(Seq(E))
         /\ Len(Below(d, pattern, left, below)) = Len(pattern.names)
<1> DEFINE names == pattern.names
           Q == Seq(E)
<1>1. /\ Len(names) \in Nat /\ DOMAIN names = 1..Len(names)
      /\ \A j \in 1..Len(names) : names[j] \in Paths
  OBVIOUS
<1>2. <<>> \in Q /\ \A q \in Paths : below[q] \in Q
  OBVIOUS
<1> HIDE DEF Q
<1>3. Below(d, pattern, left, below) \in [1..Len(names) -> Q]
  BY <1>1, <1>2 DEF Below
<1>4. /\ Below(d, pattern, left, below) \in Seq(Q)
      /\ Len(Below(d, pattern, left, below)) = Len(names)
  BY <1>1, <1>3, FunctionIsSeq
<1> QED
  BY <1>4 DEF Q

(* The section a line is in is that of the last header up to it.           *)
LEMMA SectionSteps ==
  ASSUME NEW lines
  PROVE  /\ SectionAt(lines, 0) = NoSection
         /\ \A i \in Nat \ {0} :
              SectionAt(lines, i) = IF lines[i].line = "section" THEN lines[i].section
                                    ELSE SectionAt(lines, i - 1)
<1> DEFINE H(i) == {j \in 1..i : lines[j].line = "section"}
<1>1. SectionAt(lines, 0) = NoSection
  BY DEF SectionAt
<1>2. ASSUME NEW i \in Nat \ {0}, lines[i].line = "section"
      PROVE  SectionAt(lines, i) = lines[i].section
  <2>1. i \in H(i) /\ \A j \in H(i) : j \in Int /\ i >= j
    BY <1>2
  <2>2. \A x \in H(i) : (\A j \in H(i) : x >= j) => x = i
    BY <2>1
  <2> HIDE DEF H
  <2>3. Max(H(i)) = i
    BY <2>1, <2>2 DEF Max
  <2> QED
    BY <2>1, <2>3 DEF SectionAt, H
<1>3. ASSUME NEW i \in Nat \ {0}, lines[i].line # "section"
      PROVE  SectionAt(lines, i) = SectionAt(lines, i - 1)
  <2>1. H(i) = H(i - 1)
    BY <1>3
  <2> QED
    BY <2>1 DEF SectionAt
<1> QED
  BY <1>1, <1>2, <1>3

(* What a loop keeps in hand.                                              *)
IsResult(r) == r = [ok |-> r.ok, at |-> r.at, sections |-> r.sections]

LEMMA ResultChanges ==
  ASSUME NEW r, IsResult(r), NEW x, NEW y
  PROVE  /\ [r EXCEPT !.sections = x] = [ok |-> r.ok, at |-> r.at, sections |-> x]
         /\ [r EXCEPT !.at = y, !.sections = x] = [ok |-> r.ok, at |-> y, sections |-> x]
<1> DEFINE o == r.ok
           a == r.at
           s == r.sections
<1>1. r = [ok |-> o, at |-> a, sections |-> s]
  BY DEF IsResult
<1> HIDE DEF o, a, s
<1>2. [[ok |-> o, at |-> a, sections |-> s] EXCEPT !.sections = x]
        = [ok |-> o, at |-> a, sections |-> x]
  OBVIOUS
<1>3. [[ok |-> o, at |-> a, sections |-> s] EXCEPT !.at = y]
        = [ok |-> o, at |-> y, sections |-> s]
  OBVIOUS
<1>4. [[ok |-> o, at |-> y, sections |-> s] EXCEPT !.sections = x]
        = [ok |-> o, at |-> y, sections |-> x]
  OBVIOUS
<1>5. [r EXCEPT !.at = y, !.sections = x] = [[r EXCEPT !.at = y] EXCEPT !.sections = x]
  OBVIOUS
<1> QED
  BY <1>1, <1>2, <1>3, <1>4, <1>5 DEF o, a

LEMMA ResultsAre ==
  /\ \A o, a, s : IsResult([ok |-> o, at |-> a, sections |-> s])
  /\ IsResult(Begins) /\ IsResult(Fails) /\ Begins.ok /\ ~Fails.ok
  /\ Begins.at = NoSection /\ Begins.sections = NoSections
BY DEF IsResult, Begins, Fails

(* The files that an include matches, one behind the other.                *)
LEMMA IncludeAgrees ==
  ASSUME NEW d, NEW E, NEW below \in [Paths -> Seq(E)], NEW left,
         NEW pattern, pattern.names \in Seq(Paths), NEW parsed,
         \A q \in Paths : parsed[q].ok => Agrees(parsed[q].sections, below[q]),
         handleInclude(d, pattern, left, parsed).ok
  PROVE  Agrees(handleInclude(d, pattern, left, parsed).sections,
                FlattenSeq(Below(d, pattern, left, below)))
<1> DEFINE names == pattern.names
           size == Len(names)
           ss == Below(d, pattern, left, below)
<1>1. size \in Nat /\ \A i \in 1..size : names[i] \in Paths
  OBVIOUS
<1>2. ss \in Seq(Seq(E)) /\ Len(ss) = size
  BY BelowIsRead
<1>3. \A i \in 1..size : ss[i] = IF Globbed(d, pattern, left, names[i])
                                 THEN below[names[i]] ELSE <<>>
  BY DEF Below
<1>4. PICK f : /\ IncludeUpTo(d, pattern, left, parsed, size, f)
               /\ handleInclude(d, pattern, left, parsed) = f[size]
  BY <1>1, IncludeLoop
<1>5. \A i \in 0..size : f[i] =
         IF i = 0 THEN Begins
         ELSE Matched(d, pattern, left, f[i - 1], names[i], parsed[names[i]])
  BY <1>4 DEF IncludeUpTo
<1> HIDE DEF ss
<1>pick. PICK g \in [0..Len(ss) -> Seq(E)] :
         /\ g[0] = <<>>
         /\ \A i \in 1..Len(ss) : g[i] = g[i - 1] \o ss[i]
         /\ FlattenSeq(ss) = g[Len(ss)]
  BY <1>2, FlattenSteps
<1>6. /\ g \in [0..size -> Seq(E)] /\ g[0] = <<>>
      /\ \A i \in 1..size : g[i] = g[i - 1] \o ss[i]
      /\ FlattenSeq(ss) = g[size]
  BY <1>2, <1>pick
<1> DEFINE T(n) == IsResult(f[n]) /\ (f[n].ok => Agrees(f[n].sections, g[n]))
           S == {n \in 0..size : T(n)}
<1> HIDE DEF size
<1>7. T(0)
  BY <1>1, <1>5, <1>6, ResultsAre, NothingAgrees
<1>8. ASSUME NEW n \in 0..(size - 1), T(n)
      PROVE  T(n + 1)
  <2> DEFINE i == n + 1
             q == names[i]
  <2>1. i \in 1..size /\ i \in 0..size /\ i - 1 = n /\ i # 0 /\ n \in 0..size
    BY <1>1
  <2>2. f[i] = Matched(d, pattern, left, f[n], q, parsed[q])
    BY <1>5, <2>1
  <2>3. g[i] = g[n] \o ss[i] /\ g[n] \in Seq(E) /\ q \in Paths /\ below[q] \in Seq(E)
    BY <1>1, <1>6, <2>1
  <2>4. ss[i] = IF Globbed(d, pattern, left, q) THEN below[q] ELSE <<>>
    BY <1>3, <2>1
  <2> HIDE DEF i, q
  <2>5. CASE ~Globbed(d, pattern, left, q)
    <3>1. f[i] = f[n]
      BY <2>2, <2>5 DEF Matched
    <3>2. g[i] = g[n]
      BY <2>3, <2>4, <2>5, ConcatEmptySeq
    <3> QED
      BY <1>8, <3>1, <3>2 DEF i
  <2>6. CASE Globbed(d, pattern, left, q) /\ f[n].ok /\ parsed[q].ok
    <3>1. f[i] = [f[n] EXCEPT !.sections = Merge(f[n].sections, parsed[q].sections)]
      BY <2>2, <2>6 DEF Matched
    <3>2. f[i] = [ok |-> f[n].ok, at |-> f[n].at,
                  sections |-> Merge(f[n].sections, parsed[q].sections)]
      BY <1>8, <3>1, ResultChanges
    <3>3. IsResult(f[i]) /\ f[i].sections = Merge(f[n].sections, parsed[q].sections)
      BY <3>2, ResultsAre
    <3>4. Agrees(f[n].sections, g[n]) /\ Agrees(parsed[q].sections, below[q])
      BY <1>8, <2>3, <2>6
    <3>5. Agrees(Merge(f[n].sections, parsed[q].sections), g[n] \o below[q])
      BY <2>3, <3>4, MergeAgrees
    <3> QED
      BY <2>3, <2>4, <2>6, <3>3, <3>5 DEF i
  <2>7. CASE Globbed(d, pattern, left, q) /\ ~(f[n].ok /\ parsed[q].ok)
    <3>1. f[i] = Fails
      BY <2>2, <2>7 DEF Matched
    <3> QED
      BY <3>1, ResultsAre DEF i
  <2> QED
    BY <2>5, <2>6, <2>7
<1>9. size \in S
  <2>1. 0 \in S
    BY <1>1, <1>7
  <2>2. \A n \in 0..(size - 1) : n \in S => n + 1 \in S
    <3> HIDE DEF T
    <3> QED
      BY <1>1, <1>8
  <2> HIDE DEF S
  <2>3. 0..size \subseteq S
    BY <1>1, <2>1, <2>2, UpTo
  <2> QED
    BY <1>1, <2>3
<1> QED
  BY <1>4, <1>6, <1>9 DEF ss
Parts(d, p, left, below) == [i \in DOMAIN d[p].lines |-> Part(d, p, left, below, i)]

LEMMA PartsAreRead ==
  ASSUME NEW d, WellFormed(d), NEW p \in Paths, NEW left,
         NEW below \in [Paths -> Seq(Entries(d))]
  PROVE  /\ Len(d[p].lines) \in Nat /\ DOMAIN d[p].lines = 1..Len(d[p].lines)
         /\ \A i \in 1..Len(d[p].lines) : IsLine(d[p].lines[i])
         /\ Parts(d, p, left, below) \in Seq(Seq(Entries(d)))
         /\ Len(Parts(d, p, left, below)) = Len(d[p].lines)
<1> DEFINE lines == d[p].lines
           E == Entries(d)
           Q == Seq(E)
<1>1. lines \in Seq(Range(lines)) /\ \A l \in Range(lines) : IsLine(l)
  BY DEF WellFormed, IsFile
<1>2. Len(lines) \in Nat /\ DOMAIN lines = 1..Len(lines)
  <2> HIDE DEF lines
  <2> QED
    BY <1>1
<1>3. \A i \in 1..Len(lines) : IsLine(lines[i])
  BY <1>1, <1>2 DEF Range
<1>4. ASSUME NEW i \in 1..Len(lines)
      PROVE  Part(d, p, left, below, i) \in Q
  <2> DEFINE l == lines[i]
             at == SectionAt(lines, i)
  <2>1. Entry(p, at, l) \in E
    BY <1>2 DEF Entries
  <2>2. <<Entry(p, at, l)>> \in Q /\ <<>> \in Q
    <3> HIDE DEF E, at, l
    <3> QED
      BY <2>1
  <2>3. CASE l.line = "files"
    <3>1. l.value.names \in Seq(Paths)
      BY <1>3, <2>3 DEF IsLine
    <3>2. FlattenSeq(Below(d, l.value, left, below)) \in Q
      <4>1. Below(d, l.value, left, below) \in Seq(Seq(E))
        BY <3>1, BelowIsRead
      <4> HIDE DEF E
      <4>2. PICK g \in [0..Len(Below(d, l.value, left, below)) -> Seq(E)] :
              FlattenSeq(Below(d, l.value, left, below))
                = g[Len(Below(d, l.value, left, below))]
        BY <4>1, FlattenSteps
      <4>3. Len(Below(d, l.value, left, below)) \in Nat
        BY <4>1
      <4> QED
        BY <4>2, <4>3
    <3> HIDE DEF E, Q
    <3> QED
      BY <2>2, <3>2 DEF Part, Below
  <2>4. CASE l.line # "files"
    <3> HIDE DEF E, Q
    <3> QED
      BY <2>2, <2>4 DEF Part
  <2> QED
    BY <2>3, <2>4
<1> HIDE DEF Q
<1>5. Parts(d, p, left, below) \in [1..Len(lines) -> Q]
  BY <1>2, <1>4 DEF Parts
<1>6. Parts(d, p, left, below) \in Seq(Q) /\ Len(Parts(d, p, left, below)) = Len(lines)
  BY <1>2, <1>5, FunctionIsSeq
<1> QED
  BY <1>2, <1>3, <1>6 DEF Q

(* One line: what it adds to the sections agrees with what it contributes. *)
LEMMA LineAgrees ==
  ASSUME NEW d, WellFormed(d), NEW p \in Paths, NEW left, NEW E,
         NEW below \in [Paths -> Seq(E)], NEW parsed,
         \A q \in Paths : parsed[q].ok => Agrees(parsed[q].sections, below[q]),
         NEW i \in Nat \ {0}, IsLine(d[p].lines[i]),
         NEW acc, IsResult(acc), NEW x \in Seq(E),
         acc.ok => acc.at = SectionAt(d[p].lines, i - 1) /\ Agrees(acc.sections, x),
         Part(d, p, left, below, i) \in Seq(E)
  PROVE  LET r == Scan(d, left, parsed, acc, d[p].lines[i])
         IN  /\ IsResult(r)
             /\ r.ok => /\ r.at = SectionAt(d[p].lines, i)
                        /\ Agrees(r.sections, x \o Part(d, p, left, below, i))
<1> DEFINE lines == d[p].lines
           l == lines[i]
           at == SectionAt(lines, i)
           y == Part(d, p, left, below, i)
           e == Entry(p, at, l)
           r == Scan(d, left, parsed, acc, l)
           sub == handleInclude(d, l.value, left, parsed)
<1>1. at = IF l.line = "section" THEN l.section ELSE SectionAt(lines, i - 1)
  BY SectionSteps
<1>2. /\ e.section = at /\ e.key = (IF l.line = "section" THEN "" ELSE l.key)
      /\ l.line # "section" => e.value = l.value
  BY DEF Entry
<1>3. /\ l.line \in {"section", "key", "files"}
      /\ l.line = "section" => l.section # NoSection
      /\ l.line # "section" => l.key # ""
      /\ l.line = "files" => l.value.names \in Seq(Paths)
  BY DEF IsLine
<1>4. y = IF l.line = "files" /\ at = Include THEN FlattenSeq(Below(d, l.value, left, below))
          ELSE <<e>>
  BY DEF Part, Below
<1>5. Include # NoSection
  BY DEF Include, NoSection, Section
<1> HIDE DEF l, at, y, e
<1>6. \A s, z : Agrees(s, z) /\ z \in Seq(E) /\ acc.ok => Agrees(Merge(acc.sections, s), x \o z)
  BY MergeAgrees
<1>7. CASE ~acc.ok
  <2>1. r = acc
    BY <1>7 DEF Scan
  <2> QED
    BY <1>7, <2>1 DEF l
<1>8. CASE acc.ok /\ l.line = "section"
  <2> DEFINE new == [s \in {l.section} |-> <<>>]
  <2>1. r = [acc EXCEPT !.at = l.section, !.sections = Merge(@, new)]
    BY <1>8 DEF Scan
  <2>2. r = [ok |-> acc.ok, at |-> l.section, sections |-> Merge(acc.sections, new)]
    BY <2>1, ResultChanges
  <2>3. y = <<e>> /\ Agrees(new, <<e>>)
    BY <1>1, <1>2, <1>3, <1>4, <1>8, HeaderAgrees
  <2> HIDE DEF new
  <2>4. Agrees(Merge(acc.sections, new), x \o y)
    BY <1>6, <1>8, <2>3 DEF y
  <2> QED
    BY <1>1, <1>8, <2>2, <2>4, ResultsAre DEF l, at, y
<1>9. CASE acc.ok /\ l.line = "files" /\ at = Include
  <2>1. acc.at = at
    BY <1>1, <1>9 DEF at
  <2>2. r = IF sub.ok THEN [acc EXCEPT !.sections = Merge(@, sub.sections)] ELSE Fails
    BY <1>5, <1>9, <2>1 DEF Scan
  <2>3. CASE ~sub.ok
    BY <2>2, <2>3, ResultsAre DEF l
  <2>4. CASE sub.ok
    <3>1. r = [ok |-> acc.ok, at |-> acc.at, sections |-> Merge(acc.sections, sub.sections)]
      BY <2>2, <2>4, ResultChanges
    <3>2. y = FlattenSeq(Below(d, l.value, left, below))
      BY <1>4, <1>5, <1>9
    <3>3. Agrees(sub.sections, y)
      BY <1>3, <1>9, <2>4, <3>2, IncludeAgrees
    <3>4. Agrees(Merge(acc.sections, sub.sections), x \o y)
      BY <1>6, <1>9, <3>3 DEF y
    <3> QED
      BY <2>1, <3>1, <3>4, ResultsAre DEF l, at, y
  <2> QED
    BY <2>3, <2>4
<1>10. CASE acc.ok /\ l.line # "section" /\ at = NoSection
  <2>1. acc.at = at /\ y = <<e>>
    BY <1>1, <1>4, <1>5, <1>10 DEF at
  <2>2. r = acc
    BY <1>5, <1>10, <2>1 DEF Scan
  <2>3. Agrees(NoSections, y)
    BY <1>2, <1>10, <2>1, StrayAgrees
  <2>4. Agrees(Merge(acc.sections, NoSections), x \o y)
    BY <1>6, <1>10, <2>3 DEF y
  <2>5. Agrees(acc.sections, x \o y)
    BY <1>10, <2>3, <2>4, LaidUnderNothing DEF y
  <2> QED
    BY <1>10, <2>1, <2>2, <2>5 DEF l, at, y
<1>11. CASE acc.ok /\ l.line # "section" /\ at # NoSection /\ ~(l.line = "files" /\ at = Include)
  <2> DEFINE new == Assigned(at, l.key, l.value)
  <2>1. acc.at = at /\ y = <<e>>
    BY <1>1, <1>4, <1>11 DEF at
  <2>2. r = [acc EXCEPT !.sections = Merge(@, new)]
    BY <1>11, <2>1 DEF Scan, Assigned
  <2>3. r = [ok |-> acc.ok, at |-> acc.at, sections |-> Merge(acc.sections, new)]
    BY <2>2, ResultChanges
  <2>4. Agrees(new, y)
    <3>1. e.section = at /\ e.key = l.key /\ e.value = l.value /\ l.key # ""
      BY <1>2, <1>3, <1>11
    <3>2. Agrees(new, <<e>>)
      BY <1>11, <3>1, AssignmentAgrees
    <3> QED
      BY <2>1, <3>2
  <2> HIDE DEF new
  <2>5. Agrees(Merge(acc.sections, new), x \o y)
    BY <1>6, <1>11, <2>4 DEF y
  <2> QED
    BY <1>11, <2>1, <2>3, <2>5, ResultsAre DEF l, at, y
<1> QED
  BY <1>7, <1>8, <1>9, <1>10, <1>11
LEMMA FileAgrees ==
  ASSUME NEW d, WellFormed(d), NEW p \in Paths, NEW left,
         NEW below \in [Paths -> Seq(Entries(d))], NEW parsed,
         \A q \in Paths : parsed[q].ok => Agrees(parsed[q].sections, below[q])
  PROVE  /\ FlattenSeq(Parts(d, p, left, below)) \in Seq(Entries(d))
         /\ Scanned(d, left, parsed, d[p].lines).ok =>
              Agrees(Scanned(d, left, parsed, d[p].lines).sections,
                     FlattenSeq(Parts(d, p, left, below)))
<1> DEFINE lines == d[p].lines
           size == Len(lines)
           E == Entries(d)
           ss == Parts(d, p, left, below)
<1>1. /\ size \in Nat /\ DOMAIN lines = 1..size
      /\ \A i \in 1..size : IsLine(lines[i])
      /\ ss \in Seq(Seq(E)) /\ Len(ss) = size
  BY PartsAreRead
<1>2. \A i \in 1..size : ss[i] = Part(d, p, left, below, i)
  BY <1>1 DEF Parts
<1>3. PICK f : /\ ScanUpTo(d, left, parsed, lines, size, f)
               /\ Scanned(d, left, parsed, lines) = f[size]
  BY <1>1, ScanLoop
<1>4. \A i \in 0..size : f[i] =
         IF i = 0 THEN Begins ELSE Scan(d, left, parsed, f[i - 1], lines[i])
  BY <1>3 DEF ScanUpTo
<1> HIDE DEF ss, E
<1>5. PICK g \in [0..Len(ss) -> Seq(E)] :
         /\ g[0] = <<>>
         /\ \A i \in 1..Len(ss) : g[i] = g[i - 1] \o ss[i]
         /\ FlattenSeq(ss) = g[Len(ss)]
  BY <1>1, FlattenSteps
<1>6. /\ g \in [0..size -> Seq(E)] /\ g[0] = <<>>
      /\ \A i \in 1..size : g[i] = g[i - 1] \o ss[i]
      /\ FlattenSeq(ss) = g[size]
  BY <1>1, <1>5
<1>7. \A i \in 1..size : ss[i] \in Seq(E)
  BY <1>1
<1> DEFINE T(n) == /\ IsResult(f[n])
                   /\ f[n].ok => f[n].at = SectionAt(lines, n) /\ Agrees(f[n].sections, g[n])
           S == {n \in 0..size : T(n)}
<1> HIDE DEF size
<1>8. T(0)
  BY <1>1, <1>4, <1>6, ResultsAre, NothingAgrees, SectionSteps
<1>9. ASSUME NEW n \in 0..(size - 1), T(n)
      PROVE  T(n + 1)
  <2> DEFINE i == n + 1
  <2>1. /\ i \in 1..size /\ i \in 0..size /\ i - 1 = n /\ i # 0 /\ n \in 0..size
        /\ i \in Nat \ {0}
    BY <1>1
  <2>2. f[i] = Scan(d, left, parsed, f[n], lines[i])
    BY <1>4, <2>1
  <2>3. g[i] = g[n] \o Part(d, p, left, below, i) /\ g[n] \in Seq(E)
    BY <1>2, <1>6, <2>1
  <2>4. IsLine(lines[i]) /\ Part(d, p, left, below, i) \in Seq(E)
    BY <1>1, <1>2, <1>7, <2>1
  <2>5. f[n].ok => f[n].at = SectionAt(lines, i - 1) /\ Agrees(f[n].sections, g[n])
    BY <1>9, <2>1
  <2>6. below \in [Paths -> Seq(E)]
    BY DEF E
  <2> HIDE DEF i
  <2> DEFINE r == Scan(d, left, parsed, f[n], lines[i])
             y == g[n] \o Part(d, p, left, below, i)
             at == SectionAt(lines, i)
  <2>line. /\ IsResult(r)
           /\ r.ok => r.at = at /\ Agrees(r.sections, y)
    BY <1>9, <2>1, <2>3, <2>4, <2>5, <2>6, LineAgrees
  <2>turn. f[i] = r /\ g[i] = y
    BY <2>2, <2>3
  <2> HIDE DEF r, y, at
  <2>7. IsResult(f[i]) /\ (f[i].ok => f[i].at = at /\ Agrees(f[i].sections, g[i]))
    BY <2>line, <2>turn
  <2> QED
    BY <2>7 DEF i, at
<1>10. T(size)
  <2>1. 0 \in S
    BY <1>1, <1>8
  <2>2. \A n \in 0..(size - 1) : n \in S => n + 1 \in S
    <3> HIDE DEF T
    <3> QED
      BY <1>1, <1>9
  <2> HIDE DEF S
  <2>3. 0..size \subseteq S
    BY <1>1, <2>1, <2>2, UpTo
  <2>4. size \in S
    BY <1>1, <2>3
  <2> QED
    BY <2>4 DEF S
<1>11. g[size] \in Seq(E)
  BY <1>1, <1>6
<1> QED
  BY <1>3, <1>6, <1>10, <1>11 DEF ss, E

(* Every file, includes within includes down to the last file that may be  *)
(* opened.                                                                 *)
LEMMA TreeAgrees ==
  ASSUME NEW d, WellFormed(d), NEW p \in Paths, ParseINI(d)[p].ok
  PROVE  /\ Reading(d)[p] \in Seq(Entries(d))
         /\ Agrees(ParseINI(d)[p].sections, Reading(d)[p])
<1> DEFINE E == Entries(d)
<1>1. PICK f : ParseUpTo(d, MaxOpen, f) /\ ParseINI(d) = f[MaxOpen]
  BY ParseLoop
<1>2. PICK g : ReadUpTo(d, MaxOpen, g) /\ Reading(d) = g[MaxOpen]
  BY ReadLoop
<1>3. MaxOpen \in Nat
  BY ConfigAssumption
<1>4. \A n \in 0..MaxOpen :
        f[n] = [q \in Paths |-> IF n = 0 \/ d[q].state # "file" THEN Fails
                                ELSE Scanned(d, n - 1, f[n - 1], d[q].lines)]
  BY <1>1 DEF ParseUpTo
<1>5. \A n \in 0..MaxOpen :
        g[n] = [q \in Paths |-> IF n = 0 THEN <<>>
                                ELSE FlattenSeq(Parts(d, q, n - 1, g[n - 1]))]
  BY <1>2 DEF ReadUpTo, Parts
<1> HIDE DEF E
<1> DEFINE T(n) == /\ g[n] \in [Paths -> Seq(E)]
                   /\ \A q \in Paths : f[n][q].ok => Agrees(f[n][q].sections, g[n][q])
           S == {n \in 0..MaxOpen : T(n)}
<1>6. T(0)
  <2>1. f[0] = [q \in Paths |-> Fails]
    BY <1>3, <1>4
  <2>2. g[0] = [q \in Paths |-> <<>>]
    BY <1>3, <1>5
  <2>3. <<>> \in Seq(E)
    OBVIOUS
  <2> QED
    BY <2>1, <2>2, <2>3, ResultsAre
<1>7. ASSUME NEW n \in 0..(MaxOpen - 1), T(n)
      PROVE  T(n + 1)
  <2> DEFINE i == n + 1
  <2>1. i \in 0..MaxOpen /\ i - 1 = n /\ i # 0
    BY <1>3
  <2>2. g[i] = [q \in Paths |-> FlattenSeq(Parts(d, q, n, g[n]))]
    BY <1>5, <2>1
  <2>3. f[i] = [q \in Paths |-> IF d[q].state # "file" THEN Fails
                                ELSE Scanned(d, n, f[n], d[q].lines)]
    BY <1>4, <2>1
  <2> HIDE DEF i
  <2>4. ASSUME NEW q \in Paths
        PROVE  /\ FlattenSeq(Parts(d, q, n, g[n])) \in Seq(E)
               /\ Scanned(d, n, f[n], d[q].lines).ok =>
                    Agrees(Scanned(d, n, f[n], d[q].lines).sections,
                           FlattenSeq(Parts(d, q, n, g[n])))
    BY <1>7, FileAgrees DEF E
  <2>5. g[i] \in [Paths -> Seq(E)]
    BY <2>2, <2>4
  <2>6. \A q \in Paths : f[i][q].ok => Agrees(f[i][q].sections, g[i][q])
    BY <2>2, <2>3, <2>4, ResultsAre
  <2> QED
    BY <2>5, <2>6 DEF i
<1>8. T(MaxOpen)
  <2>1. 0 \in S
    BY <1>3, <1>6
  <2>2. \A n \in 0..(MaxOpen - 1) : n \in S => n + 1 \in S
    <3> HIDE DEF T
    <3> QED
      BY <1>3, <1>7
  <2> HIDE DEF S
  <2>3. 0..MaxOpen \subseteq S
    BY <1>3, <2>1, <2>2, UpTo
  <2>4. MaxOpen \in S
    BY <1>3, <2>3
  <2> QED
    BY <2>4 DEF S
<1> QED
  BY <1>1, <1>2, <1>8 DEF E
-----------------------------------------------------------------------------
(* Until the first run the disk holds the administrator's files.           *)
SourceInv ==
  /\ runs \in Nat
  /\ runs = 0 => pc = "over" /\ DOMAIN disk = Paths /\ WellFormed(disk)

LEMMA AbsentIsFile == IsFile(Absent)
<1>1. Absent.lines = <<>> /\ Range(<<>>) = {}
  BY EmptyDomain DEF Absent, Range
<1>2. <<>> \in Seq({})
  OBVIOUS
<1> QED
  BY <1>1, <1>2 DEF IsFile

LEMMA SourceInvariant == Spec => []SourceInv
<1>1. Init => SourceInv
  <2> SUFFICES ASSUME Init PROVE SourceInv
    OBVIOUS
  <2>1. PICK t \in Sources : disk = Over([p \in Paths |-> Absent], t)
    BY DEF Init
  <2>2. DOMAIN t \subseteq Paths /\ \A p \in DOMAIN t : IsFile(t[p])
    BY ConvertAssumption
  <2>3. DOMAIN disk = Paths /\ \A p \in Paths : IsFile(disk[p])
    BY <2>1, <2>2, AbsentIsFile DEF Over
  <2> QED
    BY <2>3 DEF Init, SourceInv, WellFormed
<1>2. SourceInv /\ [Next]_vars => SourceInv'
  <2> SUFFICES ASSUME SourceInv, [Next]_vars PROVE SourceInv'
    OBVIOUS
  <2>1. CASE Start
    BY <2>1 DEF SourceInv, Start
  <2>2. CASE Inspect
    BY <2>2 DEF SourceInv, Inspect
  <2>3. CASE WriteFile
    BY <2>3 DEF SourceInv, WriteFile
  <2>4. CASE WriteFails
    BY <2>4 DEF SourceInv, WriteFails
  <2>5. CASE Finish
    BY <2>5 DEF SourceInv, Finish
  <2>6. CASE Edit
    <3>1. PICK t \in Edits : disk' = Over(disk, t)
      BY <2>6 DEF Edit
    <3>2. DOMAIN t \subseteq Paths /\ \A p \in DOMAIN t : IsFile(t[p])
      BY ConvertAssumption
    <3>3. DOMAIN disk = Paths /\ WellFormed(disk) =>
            DOMAIN disk' = Paths /\ \A p \in Paths : IsFile(disk'[p])
      BY <3>1, <3>2 DEF Over, WellFormed
    <3> QED
      BY <2>6, <3>3 DEF SourceInv, Edit, WellFormed
  <2>7. CASE UNCHANGED vars
    BY <2>7 DEF SourceInv, vars, WellFormed
  <2> QED
    BY <2>1, <2>2, <2>3, <2>4, <2>5, <2>6, <2>7 DEF Next
<1> QED
  BY <1>1, <1>2, PTL DEF Spec

(* What the parser returns is what reading the tree from top to bottom     *)
(* says, for every tree, includes that include each other among them: a    *)
(* section is there if it has a header, and a key has the value it was     *)
(* given last (config.go:358-362 and 394).                                 *)
THEOREM ParserReadsInOrder == Spec => []MergeIsReadingOrder
<1>1. SourceInv => MergeIsReadingOrder
  <2> DEFINE sections == ParseINI(disk)[Main].sections
             reading == Reading(disk)[Main]
  <2> SUFFICES ASSUME SourceInv, runs = 0, ParseINI(disk)[Main].ok
               PROVE  AsRead(sections, reading)
    BY DEF MergeIsReadingOrder
  <2>1. Main \in Paths /\ WellFormed(disk)
    BY ConvertAssumption DEF SourceInv
  <2>2. reading \in Seq(Entries(disk)) /\ Agrees(sections, reading)
    BY <2>1, TreeAgrees
  <2> HIDE DEF reading, sections
  <2>3. DOMAIN reading = 1..Len(reading)
    BY <2>2
  <2>4. Range(reading) = {reading[i] : i \in 1..Len(reading)}
    BY <2>3 DEF Range
  <2>6. DOMAIN sections = {e.section : e \in Range(reading)} \ {NoSection}
    <3>1. \A s : s \in DOMAIN sections
                   <=> s # NoSection /\ \E e \in Range(reading) : e.section = s
      BY <2>2, <2>4 DEF Agrees
    <3> QED
      BY <3>1
  <2>7. ASSUME NEW s \in DOMAIN sections
        PROVE  DOMAIN sections[s]
                 = {e.key : e \in {f \in Range(reading) : f.section = s}} \ {""}
    <3>1. \A k : k \in DOMAIN sections[s]
                    <=> k # "" /\ \E e \in Range(reading) : e.section = s /\ e.key = k
      <4> TAKE k
      <4>1. k \in DOMAIN sections[s]
              <=> k # "" /\ \E i \in 1..Len(reading) : Is(reading[i], s, k)
        BY <2>2, <2>7 DEF Agrees
      <4>2. (\E i \in 1..Len(reading) : Is(reading[i], s, k))
              <=> \E e \in Range(reading) : e.section = s /\ e.key = k
        BY <2>4 DEF Is
      <4> QED
        BY <4>1, <4>2
    <3> QED
      BY <3>1
  <2>8. ASSUME NEW s \in DOMAIN sections, NEW k \in DOMAIN sections[s]
        PROVE  \E i \in DOMAIN reading :
                 /\ reading[i].section = s /\ reading[i].key = k
                 /\ reading[i].value = sections[s][k]
                 /\ \A j \in DOMAIN reading :
                      j > i => reading[j].section # s \/ reading[j].key # k
    <3>1. PICK i \in 1..Len(reading) :
            LastIs(reading, i, s, k) /\ sections[s][k] = reading[i].value
      BY <2>2, <2>8 DEF Agrees
    <3> QED
      BY <2>3, <3>1 DEF LastIs, Is
  <2> QED
    BY <2>6, <2>7, <2>8 DEF AsRead
<1> QED
  BY <1>1, SourceInvariant, PTL
-----------------------------------------------------------------------------
(* The loop of Parse(), one section after the other.                       *)
VisitUpTo(start, sections, order, n, f) ==
  f = [i \in 0..n |->
         IF i = 0 THEN start ELSE Dispatch(f[i - 1], order[i], sections[order[i]])]

LEMMA VisitLoop ==
  ASSUME NEW start, NEW sections, NEW order, Len(order) \in Nat
  PROVE  \E f : /\ VisitUpTo(start, sections, order, Len(order), f)
                /\ Visited(start, sections, order) = f[Len(order)]
<1> DEFINE P(n, f) == VisitUpTo(start, sections, order, n, f)
           Turn(i, a) == Dispatch(a, order[i], sections[order[i]])
           size == Len(order)
           S == {n \in 0..size : \E f : P(n, f)}
<1>1. 0 \in S
  <2>1. P(0, [i \in 0..0 |-> start])
    BY DEF VisitUpTo
  <2> QED
    BY <2>1
<1>2. ASSUME NEW n \in 0..(size - 1), n \in S
      PROVE  n + 1 \in S
  <2>1. PICK f : P(n, f)
    BY <1>2
  <2> DEFINE g == [i \in 0..(n + 1) |-> IF i = n + 1 THEN Turn(n + 1, f[n]) ELSE f[i]]
  <2>2. ASSUME NEW i \in 0..(n + 1)
        PROVE  g[i] = IF i = 0 THEN start ELSE Turn(i, g[i - 1])
    <3>1. CASE i = n + 1
      <4>1. i # 0 /\ i - 1 = n /\ n \in 0..(n + 1) /\ n # n + 1
        BY <3>1
      <4> HIDE DEF Turn
      <4> QED
        BY <3>1, <4>1
    <3>2. CASE i # n + 1
      <4>1. i \in 0..n /\ (i # 0 => i - 1 \in 0..(n + 1) /\ i - 1 # n + 1)
        BY <3>2
      <4>2. f[i] = IF i = 0 THEN start ELSE Turn(i, f[i - 1])
        BY <2>1, <4>1 DEF VisitUpTo
      <4> HIDE DEF Turn
      <4> QED
        BY <3>2, <4>1, <4>2
    <3> QED
      BY <3>1, <3>2
  <2>3. P(n + 1, g)
    <3> HIDE DEF g
    <3>1. g = [i \in 0..(n + 1) |-> g[i]]
      BY DEF g
    <3> QED
      BY <2>2, <3>1 DEF VisitUpTo
  <2> HIDE DEF g, P
  <2> QED
    BY <2>3
<1>3. size \in S
  <2> HIDE DEF S
  <2>1. 0..size \subseteq S
    BY <1>1, <1>2, UpTo
  <2> QED
    BY <2>1
<1> DEFINE F == CHOOSE f : P(size, f)
<1>4. P(size, F)
  BY <1>3
<1>5. Visited(start, sections, order) = F[size]
  BY DEF Visited, VisitUpTo
<1> QED
  BY <1>4, <1>5

(* The orders in which Parse() may visit the sections that share a struct, *)
(* when no struct has two of them: at most one of the two comes first.     *)
LEMMA TwoVisits ==
  ASSUME NEW sections, NEW order, Len(order) = 2
  PROVE  Visited(NoConfig, sections, order)
           = Dispatch(Dispatch(NoConfig, order[1], sections[order[1]]),
                      order[2], sections[order[2]])
<1>1. PICK f : /\ VisitUpTo(NoConfig, sections, order, 2, f)
               /\ Visited(NoConfig, sections, order) = f[2]
  <2>1. Len(order) \in Nat
    OBVIOUS
  <2>2. \E f : /\ VisitUpTo(NoConfig, sections, order, Len(order), f)
               /\ Visited(NoConfig, sections, order) = f[Len(order)]
    BY <2>1, VisitLoop
  <2> QED
    BY <2>2
<1>2. /\ f[0] = NoConfig /\ f[1] = Dispatch(f[0], order[1], sections[order[1]])
      /\ f[2] = Dispatch(f[1], order[2], sections[order[2]])
  <2>1. \A i \in 0..2 :
          f[i] = IF i = 0 THEN NoConfig ELSE Dispatch(f[i - 1], order[i], sections[order[i]])
    BY <1>1 DEF VisitUpTo
  <2>2. 1 - 1 = 0 /\ 2 - 1 = 1
    OBVIOUS
  <2> QED
    BY <2>1, <2>2
<1> QED
  BY <1>1, <1>2

LEMMA MailAndGlobal ==
  ASSUME NEW g \in Globals, NEW m \in Mails, NEW x, NEW y
  PROVE  Dispatch(Dispatch(NoConfig, g, x), m, y) = Dispatch(Dispatch(NoConfig, m, y), g, x)
<1>1. NoConfig = Struct(defaultSupervisorConfig, noEmailConfig, <<>>, <<>>)
  BY DEF NoConfig, Struct
<1> QED
  BY <1>1, DispatchCases

LEMMA GlobalsAndMails == Globals \cap Mails = {}
BY DEF Globals, Mails, Section

LEMMA VisitsAgree ==
  ASSUME NEW sections, ~(Globals \subseteq DOMAIN sections), ~(Mails \subseteq DOMAIN sections),
         NEW o1 \in SetToSeqs(DOMAIN sections \cap (Globals \cup Mails)),
         NEW o2 \in SetToSeqs(DOMAIN sections \cap (Globals \cup Mails))
  PROVE  Visited(NoConfig, sections, o1) = Visited(NoConfig, sections, o2)
<1> DEFINE shared == DOMAIN sections \cap (Globals \cup Mails)
           n == Cardinality(shared)
<1>1. /\ o1 \in [1..n -> shared] /\ \A i, j \in 1..n : i # j => o1[i] # o1[j]
      /\ o2 \in [1..n -> shared] /\ \A i, j \in 1..n : i # j => o2[i] # o2[j]
  BY DEF SetToSeqs
<1>2. \E g, m : g \in Globals /\ m \in Mails /\ shared \subseteq {g, m}
  <2>1. PICK g \in Globals : DOMAIN sections \cap Globals \subseteq {g}
    BY DEF Globals
  <2>2. PICK m \in Mails : DOMAIN sections \cap Mails \subseteq {m}
    BY DEF Mails
  <2> QED
    BY <2>1, <2>2
<1>3. PICK g, m : g \in Globals /\ m \in Mails /\ shared \subseteq {g, m}
  BY <1>2
<1>4. g # m
  BY <1>3, GlobalsAndMails
<1> HIDE DEF shared
<1>5. \/ shared = {} /\ n = 0
      \/ \E x : shared = {x} /\ n = 1
      \/ shared = {g, m} /\ n = 2
  <2>1. Cardinality({}) = 0 /\ \A x : Cardinality({x}) = 1
    BY FS_EmptySet, FS_Singleton
  <2>2. Cardinality({g, m}) = 2
    <3>1. {g, m} = {g} \cup {m} /\ m \notin {g} /\ IsFiniteSet({g}) /\ Cardinality({g}) = 1
      BY <1>4, FS_Singleton
    <3>2. Cardinality({g} \cup {m}) = 1 + 1
      BY <3>1, FS_AddElement
    <3> QED
      BY <3>1, <3>2
  <2>3. shared = {} \/ shared = {g} \/ shared = {m} \/ shared = {g, m}
    BY <1>3
  <2> QED
    BY <2>1, <2>2, <2>3
<1> HIDE DEF n
<1>6. CASE n = 0
  <2>1. o1 = o2
    BY <1>1, <1>6
  <2> QED
    BY <2>1
<1>7. CASE n = 1 /\ \E x : shared = {x}
  <2>1. o1 = o2
    BY <1>1, <1>7
  <2> QED
    BY <2>1
<1>8. CASE n = 2 /\ shared = {g, m}
  <2>1. Len(o1) = 2 /\ Len(o2) = 2 /\ 1 \in 1..2 /\ 2 \in 1..2
    BY <1>1, <1>8, FunctionIsSeq
  <2>2. /\ o1[1] \in {g, m} /\ o1[2] \in {g, m} /\ o1[1] # o1[2]
        /\ o2[1] \in {g, m} /\ o2[2] \in {g, m} /\ o2[1] # o2[2]
    BY <1>1, <1>8
  <2>3. /\ (o1[1] = g /\ o1[2] = m) \/ (o1[1] = m /\ o1[2] = g)
        /\ (o2[1] = g /\ o2[2] = m) \/ (o2[1] = m /\ o2[2] = g)
    BY <2>2
  <2>4. Dispatch(Dispatch(NoConfig, g, sections[g]), m, sections[m])
          = Dispatch(Dispatch(NoConfig, m, sections[m]), g, sections[g])
    BY <1>3, MailAndGlobal
  <2> QED
    BY <2>1, <2>3, <2>4, TwoVisits
<1> QED
  BY <1>5, <1>6, <1>7, <1>8

(* Unless two sections write to one struct, Parse() returns one            *)
(* configuration, in whichever order Go visits the map (config.go:60).     *)
THEOREM OrderNeverShows == Spec => []OrderIsIrrelevant
<1>1. OrderIsIrrelevant
  <2> DEFINE sections == ParseINI(disk)[Main].sections
             shared == DOMAIN sections \cap (Globals \cup Mails)
             others == InSomeOrder(DOMAIN sections \ shared)
             Rest(base) == Visited(base, sections, others)
  <2> SUFFICES ASSUME ParseINI(disk)[Main].ok, ~(Globals \subseteq DOMAIN sections),
                      ~(Mails \subseteq DOMAIN sections), NEW c \in Configs(sections),
                      NEW e \in Configs(sections)
               PROVE  c = e
    BY DEF OrderIsIrrelevant, Parse
  <2>1. Configs(sections) = {Rest(Visited(NoConfig, sections, order)) : order \in SetToSeqs(shared)}
    BY DEF Configs
  <2> HIDE DEF Rest, sections
  <2>2. \A o1, o2 \in SetToSeqs(shared) :
          Visited(NoConfig, sections, o1) = Visited(NoConfig, sections, o2)
    BY VisitsAgree
  <2> HIDE DEF shared
  <2> QED
    BY <2>1, <2>2
<1> QED
  BY <1>1, PTL
-----------------------------------------------------------------------------
(* The converter's own reader, one turn after the other.                   *)
FollowUpTo(d, pattern, read, acc, n, f) ==
  f = [i \in 0..n |->
         IF i = 0 THEN acc ELSE Follows(d, pattern, read, f[i - 1], pattern.names[i])]

LEMMA FollowLoop ==
  ASSUME NEW d, NEW pattern, NEW read, NEW acc, Len(pattern.names) \in Nat
  PROVE  \E f : /\ FollowUpTo(d, pattern, read, acc, Len(pattern.names), f)
                /\ Followed(d, pattern, read, acc) = f[Len(pattern.names)]
<1> DEFINE P(n, f) == FollowUpTo(d, pattern, read, acc, n, f)
           Turn(i, a) == Follows(d, pattern, read, a, pattern.names[i])
           size == Len(pattern.names)
           S == {n \in 0..size : \E f : P(n, f)}
<1>1. 0 \in S
  <2>1. P(0, [i \in 0..0 |-> acc])
    BY DEF FollowUpTo
  <2> QED
    BY <2>1
<1>2. ASSUME NEW n \in 0..(size - 1), n \in S
      PROVE  n + 1 \in S
  <2>1. PICK f : P(n, f)
    BY <1>2
  <2> DEFINE g == [i \in 0..(n + 1) |-> IF i = n + 1 THEN Turn(n + 1, f[n]) ELSE f[i]]
  <2>2. ASSUME NEW i \in 0..(n + 1)
        PROVE  g[i] = IF i = 0 THEN acc ELSE Turn(i, g[i - 1])
    <3>1. CASE i = n + 1
      <4>1. i # 0 /\ i - 1 = n /\ n \in 0..(n + 1) /\ n # n + 1
        BY <3>1
      <4> HIDE DEF Turn
      <4> QED
        BY <3>1, <4>1
    <3>2. CASE i # n + 1
      <4>1. i \in 0..n /\ (i # 0 => i - 1 \in 0..(n + 1) /\ i - 1 # n + 1)
        BY <3>2
      <4>2. f[i] = IF i = 0 THEN acc ELSE Turn(i, f[i - 1])
        BY <2>1, <4>1 DEF FollowUpTo
      <4> HIDE DEF Turn
      <4> QED
        BY <3>2, <4>1, <4>2
    <3> QED
      BY <3>1, <3>2
  <2>3. P(n + 1, g)
    <3> HIDE DEF g
    <3>1. g = [i \in 0..(n + 1) |-> g[i]]
      BY DEF g
    <3> QED
      BY <2>2, <3>1 DEF FollowUpTo
  <2> HIDE DEF g, P
  <2> QED
    BY <2>3
<1>3. size \in S
  <2> HIDE DEF S
  <2>1. 0..size \subseteq S
    BY <1>1, <1>2, UpTo
  <2> QED
    BY <2>1
<1> DEFINE F == CHOOSE f : P(size, f)
<1>4. P(size, F)
  BY <1>3
<1>5. Followed(d, pattern, read, acc) = F[size]
  BY DEF Followed, FollowUpTo
<1> QED
  BY <1>4, <1>5

ThroughUpTo(d, path, read, visited, n, f) ==
  f = [i \in 0..n |-> IF i = 0 THEN Starts(visited \cup {path})
                      ELSE Reads(d, path, read, f[i - 1], d[path].lines[i])]

LEMMA ThroughLoop ==
  ASSUME NEW d, NEW path, NEW read, NEW visited, Len(d[path].lines) \in Nat
  PROVE  \E f : /\ ThroughUpTo(d, path, read, visited, Len(d[path].lines), f)
                /\ ReadThrough(d, path, read, visited) = f[Len(d[path].lines)]
<1> DEFINE P(n, f) == ThroughUpTo(d, path, read, visited, n, f)
           Turn(i, a) == Reads(d, path, read, a, d[path].lines[i])
           start == Starts(visited \cup {path})
           size == Len(d[path].lines)
           S == {n \in 0..size : \E f : P(n, f)}
<1>1. 0 \in S
  <2>1. P(0, [i \in 0..0 |-> start])
    BY DEF ThroughUpTo
  <2> QED
    BY <2>1
<1>2. ASSUME NEW n \in 0..(size - 1), n \in S
      PROVE  n + 1 \in S
  <2>1. PICK f : P(n, f)
    BY <1>2
  <2> DEFINE g == [i \in 0..(n + 1) |-> IF i = n + 1 THEN Turn(n + 1, f[n]) ELSE f[i]]
  <2>2. ASSUME NEW i \in 0..(n + 1)
        PROVE  g[i] = IF i = 0 THEN start ELSE Turn(i, g[i - 1])
    <3>1. CASE i = n + 1
      <4>1. i # 0 /\ i - 1 = n /\ n \in 0..(n + 1) /\ n # n + 1
        BY <3>1
      <4> HIDE DEF Turn, start
      <4> QED
        BY <3>1, <4>1
    <3>2. CASE i # n + 1
      <4>1. i \in 0..n /\ (i # 0 => i - 1 \in 0..(n + 1) /\ i - 1 # n + 1)
        BY <3>2
      <4>2. f[i] = IF i = 0 THEN start ELSE Turn(i, f[i - 1])
        BY <2>1, <4>1 DEF ThroughUpTo
      <4> HIDE DEF Turn, start
      <4> QED
        BY <3>2, <4>1, <4>2
    <3> QED
      BY <3>1, <3>2
  <2>3. P(n + 1, g)
    <3> HIDE DEF g
    <3>1. g = [i \in 0..(n + 1) |-> g[i]]
      BY DEF g
    <3> QED
      BY <2>2, <3>1 DEF ThroughUpTo
  <2> HIDE DEF g, P
  <2> QED
    BY <2>3
<1>3. size \in S
  <2> HIDE DEF S
  <2>1. 0..size \subseteq S
    BY <1>1, <1>2, UpTo
  <2> QED
    BY <2>1
<1> DEFINE F == CHOOSE f : P(size, f)
<1>4. P(size, F)
  BY <1>3
<1>5. ReadThrough(d, path, read, visited) = F[size]
  BY DEF ReadThrough, ThroughUpTo
<1> QED
  BY <1>4, <1>5

(* The calls of parseINIRecursive(), by how deep they may still go.        *)
Calls == Paths \X SUBSET Paths

CallsUpTo(d, n, f) ==
  f = [left \in 0..n |->
         [a \in Calls |->
            IF a[1] \in a[2] THEN Starts(a[2])
            ELSE IF left = 0 \/ d[a[1]].state # "file" THEN [Starts(a[2]) EXCEPT !.ok = FALSE]
            ELSE ReadThrough(d, a[1], f[left - 1], a[2])]]

LEMMA CallLoop ==
  ASSUME NEW d, Cardinality(Paths) \in Nat
  PROVE  \E f : /\ CallsUpTo(d, Cardinality(Paths), f)
                /\ parseINIRecursive(d) = f[Cardinality(Paths)][<<Main, {}>>]
<1> DEFINE P(n, f) == CallsUpTo(d, n, f)
           Turn(i, acc) ==
             [a \in Calls |->
                IF a[1] \in a[2] THEN Starts(a[2])
                ELSE IF i = 0 \/ d[a[1]].state # "file" THEN [Starts(a[2]) EXCEPT !.ok = FALSE]
                ELSE ReadThrough(d, a[1], acc, a[2])]
           size == Cardinality(Paths)
           S == {n \in 0..size : \E f : P(n, f)}
<1>1. 0 \in S
  <2>1. P(0, [i \in 0..0 |->
               [a \in Calls |-> IF a[1] \in a[2] THEN Starts(a[2])
                                ELSE [Starts(a[2]) EXCEPT !.ok = FALSE]]])
    BY DEF CallsUpTo
  <2> QED
    BY <2>1
<1>2. ASSUME NEW n \in 0..(size - 1), n \in S
      PROVE  n + 1 \in S
  <2>1. PICK f : P(n, f)
    BY <1>2
  <2> DEFINE g == [i \in 0..(n + 1) |-> IF i = n + 1 THEN Turn(n + 1, f[n]) ELSE f[i]]
  <2>2. ASSUME NEW i \in 0..(n + 1)
        PROVE  g[i] = Turn(i, g[i - 1])
    <3>1. CASE i = n + 1
      <4>1. i # 0 /\ i - 1 = n /\ n \in 0..(n + 1) /\ n # n + 1
        BY <3>1
      <4> HIDE DEF Turn
      <4> QED
        BY <3>1, <4>1
    <3>2. CASE i # n + 1
      <4>1. i \in 0..n /\ (i # 0 => i - 1 \in 0..(n + 1) /\ i - 1 # n + 1)
        BY <3>2
      <4>2. f[i] = Turn(i, f[i - 1])
        BY <2>1, <4>1 DEF CallsUpTo
      <4>3. Turn(0, f[0 - 1]) = Turn(0, g[0 - 1])
        OBVIOUS
      <4> HIDE DEF Turn
      <4> QED
        BY <3>2, <4>1, <4>2, <4>3
    <3> QED
      BY <3>1, <3>2
  <2>3. P(n + 1, g)
    <3> HIDE DEF g
    <3>1. g = [i \in 0..(n + 1) |-> g[i]]
      BY DEF g
    <3> QED
      BY <2>2, <3>1 DEF CallsUpTo
  <2> HIDE DEF g, P
  <2> QED
    BY <2>3
<1>3. size \in S
  <2> HIDE DEF S, size
  <2>0. size \in Nat
    BY DEF size
  <2>1. 0..size \subseteq S
    BY <1>1, <1>2, <2>0, UpTo
  <2> QED
    BY <2>0, <2>1
<1> DEFINE F == CHOOSE f : P(size, f)
<1>4. P(size, F)
  BY <1>3
<1>5. parseINIRecursive(d) = F[size][<<Main, {}>>]
  BY DEF parseINIRecursive, CallsUpTo, Calls
<1> QED
  BY <1>4, <1>5
-----------------------------------------------------------------------------
(* What a reader has in hand.                                              *)
IsReport(r) == r = [ok |-> r.ok, at |-> r.at, sections |-> r.sections,
                    warnings |-> r.warnings, visited |-> r.visited]

Reports(r, ok, at, sections, warnings, visited) ==
  /\ IsReport(r) /\ r.ok = ok /\ r.at = at /\ r.sections = sections
  /\ r.warnings = warnings /\ r.visited = visited

LEMMA ReportSteps ==
  ASSUME NEW acc, IsReport(acc), NEW ws, NEW sub, NEW s, NEW x
  PROVE  /\ Reports(Warns(acc, ws),
                    acc.ok, acc.at, acc.sections, acc.warnings \cup ws, acc.visited)
         /\ Reports(mergeINI(acc, sub), sub.ok, acc.at, acc.sections \cup sub.sections,
                    acc.warnings \cup sub.warnings, sub.visited)
         /\ Reports([acc EXCEPT !.at = s, !.sections = x],
                    acc.ok, s, x, acc.warnings, acc.visited)
<1> DEFINE o == acc.ok
           a == acc.at
           c == acc.sections
           w == acc.warnings
           v == acc.visited
           R(p, q, y, z, u) == [ok |-> p, at |-> q, sections |-> y, warnings |-> z, visited |-> u]
<1>1. acc = R(o, a, c, w, v)
  BY DEF IsReport
<1> HIDE DEF o, a, c, w, v
<1>2. Warns(acc, ws) = R(o, a, c, w \cup ws, v)
  BY <1>1 DEF Warns
<1>all. \A p, q, y, z, u, n :
          /\ [R(p, q, y, z, u) EXCEPT !.ok = n] = R(n, q, y, z, u)
          /\ [R(p, q, y, z, u) EXCEPT !.at = n] = R(p, n, y, z, u)
          /\ [R(p, q, y, z, u) EXCEPT !.sections = n] = R(p, q, n, z, u)
          /\ [R(p, q, y, z, u) EXCEPT !.warnings = n] = R(p, q, y, n, u)
          /\ [R(p, q, y, z, u) EXCEPT !.visited = n] = R(p, q, y, z, n)
  OBVIOUS
<1>3. mergeINI(acc, sub) = R(sub.ok, a, c \cup sub.sections, w \cup sub.warnings, sub.visited)
  <2> DEFINE cc == c \cup sub.sections
             ww == w \cup sub.warnings
             r1 == [acc EXCEPT !.ok = sub.ok]
             r2 == [r1 EXCEPT !.visited = sub.visited]
             r3 == [r2 EXCEPT !.sections = cc]
             r4 == [r3 EXCEPT !.warnings = ww]
  <2>0. mergeINI(acc, sub) = r4
    BY DEF mergeINI, c, w
  <2> HIDE DEF cc, ww
  <2>1. /\ r2 = [r1 EXCEPT !.visited = sub.visited]
        /\ r3 = [r2 EXCEPT !.sections = cc]
        /\ r4 = [r3 EXCEPT !.warnings = ww]
    OBVIOUS
  <2>2. r1 = R(sub.ok, a, c, w, v)
    BY <1>1, <1>all
  <2> HIDE DEF r1, r2, r3, r4
  <2>3. r2 = R(sub.ok, a, c, w, sub.visited)
    BY <2>1, <2>2, <1>all
  <2>4. r3 = R(sub.ok, a, cc, w, sub.visited)
    <3>1. [R(sub.ok, a, c, w, sub.visited) EXCEPT !.sections = cc]
            = R(sub.ok, a, cc, w, sub.visited)
      OBVIOUS
    <3> QED
      BY <2>1, <2>3, <3>1
  <2>5. r4 = R(sub.ok, a, cc, ww, sub.visited)
    <3>1. [R(sub.ok, a, cc, w, sub.visited) EXCEPT !.warnings = ww]
            = R(sub.ok, a, cc, ww, sub.visited)
      OBVIOUS
    <3> QED
      BY <2>1, <2>4, <3>1
  <2> QED
    BY <2>0, <2>5 DEF cc, ww
<1>4. [acc EXCEPT !.at = s, !.sections = x] = R(o, s, x, w, v)
  <2> DEFINE r1 == [acc EXCEPT !.at = s]
  <2>1. r1 = R(o, s, c, w, v)
    BY <1>1, <1>all
  <2>3. [acc EXCEPT !.at = s, !.sections = x] = [r1 EXCEPT !.sections = x]
    OBVIOUS
  <2> HIDE DEF r1
  <2>2. [r1 EXCEPT !.sections = x] = R(o, s, x, w, v)
    BY <2>1, <1>all
  <2> QED
    BY <2>2, <2>3
<1>5. \A p, q, y, z, u :
        Reports(R(p, q, y, z, u), p, q, y, z, u)
  BY DEF IsReport, Reports
<1>6. o = acc.ok /\ a = acc.at /\ c = acc.sections /\ w = acc.warnings /\ v = acc.visited
  BY DEF o, a, c, w, v
<1> HIDE DEF R
<1> QED
  BY <1>2, <1>3, <1>4, <1>5, <1>6

LEMMA StartsAre ==
  ASSUME NEW V
  PROVE  LET r == Starts(V)
         IN /\ IsReport(r) /\ r.ok /\ r.at = NoSection /\ r.visited = V
            /\ ~[r EXCEPT !.ok = FALSE].ok /\ IsReport([r EXCEPT !.ok = FALSE])
<1> DEFINE e == {}
           no == FALSE
           yes == TRUE
           R(o) == [ok |-> o, at |-> NoSection, sections |-> e, warnings |-> e, visited |-> V]
<1>0. Starts(V) = R(yes) /\ e = {} /\ yes /\ ~no /\ no = FALSE
  BY DEF Starts
<1> HIDE DEF e, no, yes
<1>1. [R(yes) EXCEPT !.ok = no] = R(no)
  OBVIOUS
<1>2. \A o : /\ IsReport(R(o)) /\ R(o).ok = o /\ R(o).at = NoSection
             /\ R(o).warnings = {} /\ R(o).visited = V
  BY <1>0 DEF IsReport
<1> HIDE DEF R
<1>3. [Starts(V) EXCEPT !.ok = FALSE] = R(no)
  <2>1. [Starts(V) EXCEPT !.ok = FALSE] = [R(yes) EXCEPT !.ok = no]
    BY <1>0, Zenon
  <2> QED
    BY <1>1, <2>1
<1> QED
  BY <1>0, <1>2, <1>3

-----------------------------------------------------------------------------
(* The files of a source tree that is apart from the generated one.        *)
Own == {p \in Paths : ~Generated(p)}

SourceOK(d) ==
  \A p \in Own : /\ IsFile(d[p])
                 /\ \A l \in Range(d[p].lines) :
                      l.line = "files" => \A n \in Range(l.value.names) : n \in Own

(* Line i of file q has its section and, if it needs one, its warning in   *)
(* the report W; what it includes has been visited.                        *)
Included(d, q, i) ==
  d[q].lines[i].line = "files" /\ Trim(SectionAt(d[q].lines, i)) = Include

LineTold(d, q, i, W, X) ==
  LET l  == d[q].lines[i]
      at == Trim(SectionAt(d[q].lines, i))
  IN /\ at # NoSection => at \in W.sections
     /\ l.line = "section" /\ isUnsupportedSection(Trim(l.section)) =>
          Warning(q, Trim(l.section), "") \in W.warnings
     /\ Included(d, q, i) =>
          \A j \in 1..Len(l.value.names) :
            Globbed(d, l.value, MaxOpen, l.value.names[j]) => l.value.names[j] \in X
     /\ l.line # "section" /\ at # NoSection /\ ~Included(d, q, i) =>
          isSupportedKey(at, l.key) \/ Warning(q, at, l.key) \in W.warnings

FileTold(d, q, W, X) == \A i \in 1..Len(d[q].lines) : LineTold(d, q, i, W, X)

Within(V, W) == V.sections \subseteq W.sections /\ V.warnings \subseteq W.warnings

LEMMA ToldGrows ==
  ASSUME NEW d, NEW q, NEW W1, NEW W2, Within(W1, W2), NEW X1, NEW X2, X1 \subseteq X2
  PROVE  /\ \A i : LineTold(d, q, i, W1, X1) => LineTold(d, q, i, W2, X2)
         /\ FileTold(d, q, W1, X1) => FileTold(d, q, W2, X2)
<1>1. \A i : LineTold(d, q, i, W1, X1) => LineTold(d, q, i, W2, X2)
  BY DEF LineTold, Within
<1> QED
  BY <1>1 DEF FileTold

(* What is true of every call that succeeds: it has visited its file, and  *)
(* told of what it visited and had not been visited before.                *)
CallTold(d, q, V, r) ==
  /\ IsReport(r)
  /\ r.ok => /\ V \cup {q} \subseteq r.visited /\ r.visited \subseteq Own
             /\ \A x \in r.visited \ V : FileTold(d, x, r, r.visited)

(* From b, the reader has come to a, and has told of what it included.     *)
Grown(d, a, b) ==
  /\ Within(b, a)
  /\ b.visited \subseteq a.visited /\ a.visited \subseteq Own
  /\ \A x \in a.visited \ b.visited : FileTold(d, x, a, a.visited)

LEMMA IncludeTold ==
  ASSUME NEW d, NEW pattern, pattern.names \in Seq(Own), NEW read,
         \A q \in Own : \A V \in SUBSET Own : CallTold(d, q, V, read[<<q, V>>]),
         NEW acc, IsReport(acc), acc.ok, acc.visited \subseteq Own
  PROVE  LET r == Followed(d, pattern, read, acc)
         IN  /\ IsReport(r)
             /\ r.ok => /\ r.at = acc.at /\ Grown(d, r, acc)
                        /\ \A j \in 1..Len(pattern.names) :
                             Globbed(d, pattern, MaxOpen, pattern.names[j])
                               => pattern.names[j] \in r.visited
<1> DEFINE names == pattern.names
           size == Len(names)
<1>1. size \in Nat /\ \A i \in 1..size : names[i] \in Own
  OBVIOUS
<1>2. PICK f : /\ FollowUpTo(d, pattern, read, acc, size, f)
               /\ Followed(d, pattern, read, acc) = f[size]
  BY <1>1, FollowLoop
<1>3. \A i \in 0..size :
        f[i] = IF i = 0 THEN acc ELSE Follows(d, pattern, read, f[i - 1], names[i])
  BY <1>2 DEF FollowUpTo
<1> DEFINE Hit(j) == Globbed(d, pattern, MaxOpen, names[j])
           T(n) == /\ IsReport(f[n])
                   /\ f[n].ok => /\ f[n].at = acc.at /\ Grown(d, f[n], acc)
                                 /\ \A j \in 1..n : Hit(j) => names[j] \in f[n].visited
           S == {n \in 0..size : T(n)}
<1> HIDE DEF size, names
<1>4. T(0)
  <2>1. f[0] = acc
    BY <1>1, <1>3
  <2> QED
    BY <2>1 DEF Grown, Within
<1>5. ASSUME NEW n \in 0..(size - 1), T(n)
      PROVE  T(n + 1)
  <2> DEFINE i == n + 1
             b == f[n]
             q == names[i]
             sub == read[<<q, b.visited>>]
  <2>1. /\ i \in 1..size /\ i \in 0..size /\ i - 1 = n /\ i # 0
        /\ \A j \in 1..i : j = i \/ j \in 1..n
    BY <1>1
  <2>2. f[i] = IF b.ok /\ Hit(i) THEN mergeINI(b, sub) ELSE b
    BY <1>3, <2>1 DEF Follows
  <2>3. q \in Own
    BY <1>1, <2>1
  <2>4. /\ IsReport(b) /\ (b.ok => b.at = acc.at /\ Grown(d, b, acc))
        /\ (b.ok => \A j \in 1..n : Hit(j) => names[j] \in b.visited)
    BY <1>5
  <2> HIDE DEF i, b, Hit
  <2>5. CASE ~(b.ok /\ Hit(i))
    <3>1. f[i] = b
      BY <2>2, <2>5
    <3>2. T(i)
      BY <2>1, <2>4, <2>5, <3>1
    <3> QED
      BY <3>2 DEF i
  <2>6. CASE b.ok /\ Hit(i)
    <3>1. Grown(d, b, acc) /\ b.visited \in SUBSET Own
      BY <2>4, <2>6 DEF Grown
    <3>2. CallTold(d, q, b.visited, sub)
      BY <2>3, <3>1
    <3> HIDE DEF sub
    <3> DEFINE r == mergeINI(b, sub)
    <3>rep. Reports(r, sub.ok, b.at, b.sections \cup sub.sections,
                    b.warnings \cup sub.warnings, sub.visited)
      BY <2>4, ReportSteps
    <3>3. /\ IsReport(r) /\ r.ok = sub.ok /\ r.at = b.at
          /\ r.sections = b.sections \cup sub.sections
          /\ r.warnings = b.warnings \cup sub.warnings /\ r.visited = sub.visited
      BY <3>rep DEF Reports
    <3> HIDE DEF r
    <3>4. f[i] = r
      BY <2>2, <2>6 DEF r
    <3>5. ASSUME r.ok
          PROVE  Grown(d, r, acc) /\ b.visited \subseteq r.visited /\ q \in r.visited
      <4>1. /\ b.visited \cup {q} \subseteq sub.visited /\ sub.visited \subseteq Own
            /\ \A x \in sub.visited \ b.visited : FileTold(d, x, sub, sub.visited)
        BY <3>2, <3>3, <3>5 DEF CallTold
      <4>2. \A x \in r.visited \ b.visited : FileTold(d, x, r, r.visited)
        <5>1. Within(sub, r) /\ sub.visited \subseteq r.visited
          BY <3>3 DEF Within
        <5> QED
          BY <3>3, <4>1, <5>1, ToldGrows
      <4>3. \A x \in b.visited \ acc.visited : FileTold(d, x, r, r.visited)
        <5>1. Within(b, r) /\ b.visited \subseteq r.visited
          BY <3>3, <4>1 DEF Within
        <5> QED
          BY <3>1, <5>1, ToldGrows DEF Grown
      <4> QED
        BY <3>1, <3>3, <4>1, <4>2, <4>3 DEF Grown, Within
    <3>6. \A j \in 1..i : r.ok /\ Hit(j) => names[j] \in r.visited
      BY <2>1, <2>4, <2>6, <3>5
    <3>7. T(i)
      BY <2>4, <2>6, <3>3, <3>4, <3>5, <3>6
    <3> QED
      BY <3>7 DEF i
  <2> QED
    BY <2>5, <2>6
<1>6. T(size)
  <2>1. 0 \in S
    BY <1>1, <1>4
  <2>2. \A n \in 0..(size - 1) : n \in S => n + 1 \in S
    <3> HIDE DEF T
    <3> QED
      BY <1>1, <1>5
  <2> HIDE DEF S
  <2>3. 0..size \subseteq S
    BY <1>1, <2>1, <2>2, UpTo
  <2>4. size \in S
    BY <1>1, <2>3
  <2> QED
    BY <2>4 DEF S
<1> QED
  BY <1>2, <1>6 DEF size, names

(* One line: it is told of, and so is what it includes.                    *)
LEMMA LineIsTold ==
  ASSUME NEW d, NEW p, NEW i \in Nat \ {0}, IsLine(d[p].lines[i]),
         d[p].lines[i].line = "files" => d[p].lines[i].value.names \in Seq(Own), NEW read,
         \A q \in Own : \A V \in SUBSET Own : CallTold(d, q, V, read[<<q, V>>]),
         NEW acc, IsReport(acc),
         acc.ok => /\ acc.at = Trim(SectionAt(d[p].lines, i - 1))
                   /\ acc.at # NoSection => acc.at \in acc.sections
                   /\ acc.visited \subseteq Own
  PROVE  LET r == Reads(d, p, read, acc, d[p].lines[i])
         IN  /\ IsReport(r)
             /\ r.ok => /\ acc.ok /\ r.at = Trim(SectionAt(d[p].lines, i))
                        /\ Grown(d, r, acc) /\ LineTold(d, p, i, r, r.visited)
<1> DEFINE l == d[p].lines[i]
           at == SectionAt(d[p].lines, i)
           before == SectionAt(d[p].lines, i - 1)
           r == Reads(d, p, read, acc, l)
           s == Trim(l.section)
           ws == IF isUnsupportedSection(s) THEN {Warning(p, s, "")} ELSE {}
           us == IF isSupportedKey(acc.at, l.key) THEN {} ELSE {Warning(p, acc.at, l.key)}
           sections == acc.sections \cup {s}
           a == [acc EXCEPT !.at = s, !.sections = sections]
<1>1. at = IF l.line = "section" THEN l.section ELSE before
  BY SectionSteps
<1>2. l.line \in {"section", "key", "files"}
  BY DEF IsLine
<1>3. ~acc.ok => r = acc
  BY DEF Reads
<1>4. acc.ok /\ l.line = "section" => r = Warns(a, ws)
  BY DEF Reads
<1>5. Include # NoSection
  BY DEF Include, NoSection, Section
<1>6. acc.ok /\ l.line = "files" /\ acc.at = Include => r = Followed(d, l.value, read, acc)
  BY <1>5 DEF Reads
<1>7. acc.ok /\ l.line # "section" /\ acc.at = NoSection => r = acc
  BY <1>5 DEF Reads
<1>8. /\ acc.ok /\ l.line # "section" /\ acc.at # NoSection
      /\ ~(l.line = "files" /\ acc.at = Include)
      => r = Warns(acc, us)
  BY DEF Reads
<1>9. Included(d, p, i) <=> l.line = "files" /\ Trim(at) = Include
  BY DEF Included
<1>10. \A W, X : LineTold(d, p, i, W, X) <=>
         /\ Trim(at) # NoSection => Trim(at) \in W.sections
         /\ l.line = "section" /\ isUnsupportedSection(s) => Warning(p, s, "") \in W.warnings
         /\ Included(d, p, i) =>
              \A j \in 1..Len(l.value.names) :
                Globbed(d, l.value, MaxOpen, l.value.names[j]) => l.value.names[j] \in X
         /\ l.line # "section" /\ Trim(at) # NoSection /\ ~Included(d, p, i) =>
              isSupportedKey(Trim(at), l.key) \/ Warning(p, Trim(at), l.key) \in W.warnings
  BY DEF LineTold
<1>11. Reports(a, acc.ok, s, sections, acc.warnings, acc.visited)
  BY ReportSteps
<1>12. Reports(Warns(acc, us), acc.ok, acc.at, acc.sections, acc.warnings \cup us, acc.visited)
  BY ReportSteps
<1>13. acc.ok => /\ acc.at = Trim(before) /\ acc.visited \subseteq Own
                 /\ acc.at # NoSection => acc.at \in acc.sections
  OBVIOUS
<1>14. l.line = "files" => l.value.names \in Seq(Own)
  OBVIOUS
<1> HIDE DEF l, at, before, r, us, a
<1> SUFFICES /\ IsReport(r)
             /\ r.ok => /\ acc.ok /\ r.at = Trim(at)
                        /\ Grown(d, r, acc) /\ LineTold(d, p, i, r, r.visited)
  BY DEF r, l, at
<1>15. CASE ~acc.ok
  BY <1>3, <1>15
<1>16. CASE acc.ok /\ l.line = "section"
  <2>1. IsReport(a)
    BY <1>11 DEF Reports
  <2>2. Reports(Warns(a, ws), a.ok, a.at, a.sections, a.warnings \cup ws, a.visited)
    BY <2>1, ReportSteps
  <2>3. Reports(r, acc.ok, s, sections, acc.warnings \cup ws, acc.visited)
    BY <1>4, <1>11, <1>16, <2>2 DEF Reports
  <2>4. Grown(d, r, acc)
    BY <1>13, <1>16, <2>3 DEF Reports, Grown, Within
  <2>5. LineTold(d, p, i, r, r.visited)
    BY <1>1, <1>9, <1>10, <1>16, <2>3 DEF Reports
  <2> QED
    BY <1>1, <1>16, <2>3, <2>4, <2>5 DEF Reports
<1>17. CASE acc.ok /\ l.line # "section"
  <2>1. acc.at = Trim(at)
    BY <1>1, <1>13, <1>17
  <2>2. CASE l.line = "files" /\ acc.at = Include
    <3> DEFINE pattern == l.value
    <3>p. /\ pattern.names \in Seq(Own) /\ r = Followed(d, pattern, read, acc)
          /\ acc.visited \subseteq Own
      BY <1>6, <1>13, <1>14, <1>17, <2>2
    <3> HIDE DEF pattern
    <3>q. LET z == Followed(d, pattern, read, acc)
          IN  /\ IsReport(z)
              /\ z.ok => /\ z.at = acc.at /\ Grown(d, z, acc)
                         /\ \A j \in 1..Len(pattern.names) :
                              Globbed(d, pattern, MaxOpen, pattern.names[j])
                                => pattern.names[j] \in z.visited
      BY <1>17, <3>p, IncludeTold
    <3>1. /\ IsReport(r)
          /\ r.ok => /\ r.at = acc.at /\ Grown(d, r, acc)
                     /\ \A j \in 1..Len(l.value.names) :
                          Globbed(d, l.value, MaxOpen, l.value.names[j])
                            => l.value.names[j] \in r.visited
      BY <3>p, <3>q DEF pattern
    <3>2. Included(d, p, i)
      BY <1>9, <2>1, <2>2
    <3>3. r.ok => (Trim(at) # NoSection => Trim(at) \in r.sections)
      BY <1>13, <1>17, <2>1, <3>1 DEF Grown, Within
    <3> QED
      BY <1>10, <1>17, <2>1, <3>1, <3>2, <3>3
  <2>3. CASE acc.at = NoSection
    <3>1. r = acc /\ ~Included(d, p, i)
      BY <1>5, <1>7, <1>9, <1>17, <2>1, <2>3
    <3> QED
      BY <1>10, <1>13, <1>17, <2>1, <2>3, <3>1 DEF Grown, Within
  <2>4. CASE acc.at # NoSection /\ ~(l.line = "files" /\ acc.at = Include)
    <3>1. Reports(r, acc.ok, acc.at, acc.sections, acc.warnings \cup us, acc.visited)
      BY <1>8, <1>12, <1>17, <2>4
    <3>2. isSupportedKey(acc.at, l.key) \/ Warning(p, acc.at, l.key) \in us
      BY DEF us
    <3>3. LineTold(d, p, i, r, r.visited)
      BY <1>9, <1>10, <1>13, <1>17, <2>1, <2>4, <3>1, <3>2 DEF Reports
    <3> QED
      BY <1>13, <1>17, <2>1, <3>1, <3>3 DEF Reports, Grown, Within
  <2> QED
    BY <2>2, <2>3, <2>4
<1> QED
  BY <1>15, <1>16, <1>17

LEMMA GrownOn ==
  ASSUME NEW d, NEW a, NEW b, NEW c, Grown(d, b, a), Grown(d, c, b)
  PROVE  Grown(d, c, a)
<1>1. \A x \in b.visited \ a.visited : FileTold(d, x, c, c.visited)
  BY ToldGrows DEF Grown
<1> QED
  BY <1>1 DEF Grown, Within

LEMMA OwnLines ==
  ASSUME NEW d, SourceOK(d), NEW p \in Own
  PROVE  /\ Len(d[p].lines) \in Nat /\ DOMAIN d[p].lines = 1..Len(d[p].lines)
         /\ \A i \in 1..Len(d[p].lines) :
              /\ IsLine(d[p].lines[i])
              /\ d[p].lines[i].line = "files" => d[p].lines[i].value.names \in Seq(Own)
<1> DEFINE lines == d[p].lines
<1>1. /\ lines \in Seq(Range(lines)) /\ \A l \in Range(lines) : IsLine(l)
      /\ \A l \in Range(lines) :
           l.line = "files" => \A n \in Range(l.value.names) : n \in Own
  BY DEF SourceOK, IsFile
<1> HIDE DEF lines
<1>2. Len(lines) \in Nat /\ DOMAIN lines = 1..Len(lines)
  BY <1>1
<1>3. \A i \in 1..Len(lines) : lines[i] \in Range(lines)
  BY <1>2 DEF Range
<1>4. ASSUME NEW i \in 1..Len(lines), lines[i].line = "files"
      PROVE  lines[i].value.names \in Seq(Own)
  <2> DEFINE names == lines[i].value.names
  <2>1. names \in Seq(Paths) /\ \A n \in Range(names) : n \in Own
    BY <1>1, <1>3, <1>4 DEF IsLine
  <2> HIDE DEF names
  <2>2. Len(names) \in Nat /\ names \in [1..Len(names) -> Paths]
    BY <2>1
  <2>3. \A j \in 1..Len(names) : names[j] \in Own
    BY <2>1, <2>2 DEF Range
  <2>4. names \in [1..Len(names) -> Own]
    BY <2>2, <2>3
  <2>5. names \in Seq(Own)
    BY <2>2, <2>4, FunctionIsSeq
  <2> QED
    BY <2>5 DEF names
<1> QED
  BY <1>1, <1>2, <1>3, <1>4 DEF lines

LEMMA NoLabel == IsLabel(NoSection) /\ ~NoSection.spaced
<1> DEFINE R(t, b) == [type |-> t, name |-> t, spaced |-> b]
<1>1. \A t : R(t, FALSE).type = t /\ R(t, FALSE).name = t
  OBVIOUS
<1>2. ~R("", FALSE).spaced
  BY Zenon
<1>3. NoSection = R("", FALSE)
  BY DEF NoSection, Section
<1> HIDE DEF R
<1>4. NoSection = [type |-> NoSection.type, name |-> NoSection.name, spaced |-> FALSE]
  BY <1>1, <1>3 DEF R
<1> QED
  BY <1>2, <1>3, <1>4 DEF IsLabel

LEMMA TrimKeeps ==
  ASSUME NEW s, IsLabel(s), ~s.spaced
  PROVE  Trim(s) = s
<1> DEFINE t == s.type
           n == s.name
           no == FALSE
           S == [type |-> t, name |-> n, spaced |-> no]
<1>1. PICK b \in BOOLEAN : s = [type |-> s.type, name |-> s.name, spaced |-> b]
  BY DEF IsLabel
<1>2. s = S /\ no = FALSE
  BY <1>1
<1> HIDE DEF t, n, no
<1>3. [S EXCEPT !.spaced = no] = S
  OBVIOUS
<1> HIDE DEF S
<1> QED
  BY <1>2, <1>3, Zenon DEF Trim

(* A file, all its lines.                                                  *)
LEMMA FileIsTold ==
  ASSUME NEW d, SourceOK(d), NEW p \in Own, NEW read, NEW V \in SUBSET Own,
         \A q \in Own : \A U \in SUBSET Own : CallTold(d, q, U, read[<<q, U>>])
  PROVE  CallTold(d, p, V, ReadThrough(d, p, read, V))
<1> DEFINE lines == d[p].lines
           size == Len(lines)
           start == Starts(V \cup {p})
<1>1. /\ size \in Nat
      /\ \A i \in 1..size : /\ IsLine(lines[i])
                            /\ lines[i].line = "files" => lines[i].value.names \in Seq(Own)
  BY OwnLines
<1>2. PICK f : /\ ThroughUpTo(d, p, read, V, size, f)
               /\ ReadThrough(d, p, read, V) = f[size]
  BY <1>1, ThroughLoop
<1>3. \A i \in 0..size : f[i] = IF i = 0 THEN start ELSE Reads(d, p, read, f[i - 1], lines[i])
  BY <1>2 DEF ThroughUpTo
<1>4. IsReport(start) /\ start.ok /\ start.at = NoSection /\ start.visited = V \cup {p}
  BY StartsAre
<1> DEFINE T(n) ==
             /\ IsReport(f[n])
             /\ f[n].ok => /\ f[n].at = Trim(SectionAt(lines, n)) /\ Grown(d, f[n], start)
                           /\ f[n].at # NoSection => f[n].at \in f[n].sections
                           /\ \A j \in 1..n : LineTold(d, p, j, f[n], f[n].visited)
           S == {n \in 0..size : T(n)}
<1> HIDE DEF size, start
<1>5. T(0)
  <2>0. 0 \in 0..size
    BY <1>1
  <2>1. f[0] = start
    <3> HIDE DEF lines
    <3> QED
      BY <1>3, <2>0
  <2>2. Trim(SectionAt(lines, 0)) = NoSection
    <3>2. Trim(NoSection) = NoSection
      BY NoLabel, TrimKeeps
    <3> QED
      BY <3>2, SectionSteps
  <2> QED
    BY <1>4, <2>1, <2>2 DEF Grown, Within
<1>6. ASSUME NEW n \in 0..(size - 1), T(n)
      PROVE  T(n + 1)
  <2> DEFINE i == n + 1
             b == f[n]
             r == Reads(d, p, read, b, lines[i])
  <2>1. /\ i \in 1..size /\ i \in 0..size /\ i - 1 = n /\ i \in Nat \ {0}
        /\ \A j \in 1..i : j = i \/ j \in 1..n
    BY <1>1
  <2>2. f[i] = r
    BY <1>3, <2>1
  <2>3. /\ IsReport(b)
        /\ b.ok => /\ b.at = Trim(SectionAt(lines, i - 1)) /\ b.visited \subseteq Own
                   /\ b.at # NoSection => b.at \in b.sections
                   /\ Grown(d, b, start)
                   /\ \A j \in 1..n : LineTold(d, p, j, b, b.visited)
    BY <1>6, <2>1 DEF Grown
  <2> HIDE DEF i, b
  <2>4. /\ IsReport(r)
        /\ r.ok => /\ b.ok /\ r.at = Trim(SectionAt(lines, i))
                   /\ Grown(d, r, b) /\ LineTold(d, p, i, r, r.visited)
    BY <1>1, <2>1, <2>3, LineIsTold
  <2> HIDE DEF r
  <2>5. r.ok => Grown(d, r, start)
    BY <2>3, <2>4, GrownOn
  <2>6. r.ok => \A j \in 1..n : LineTold(d, p, j, r, r.visited)
    <3>1. r.ok => Within(b, r) /\ b.visited \subseteq r.visited
      BY <2>4 DEF Grown
    <3> QED
      BY <2>3, <2>4, <3>1, ToldGrows
  <2>7. r.ok => (r.at # NoSection => r.at \in r.sections)
    BY <2>4 DEF LineTold
  <2>8. T(i)
    BY <2>1, <2>2, <2>4, <2>5, <2>6, <2>7
  <2> QED
    BY <2>8 DEF i
<1>7. T(size)
  <2>1. 0 \in S
    BY <1>1, <1>5
  <2>2. \A n \in 0..(size - 1) : n \in S => n + 1 \in S
    <3> HIDE DEF T
    <3> QED
      BY <1>1, <1>6
  <2> HIDE DEF S
  <2>3. 0..size \subseteq S
    BY <1>1, <2>1, <2>2, UpTo
  <2>4. size \in S
    BY <1>1, <2>3
  <2> QED
    BY <2>4 DEF S
<1> DEFINE r == f[size]
<1>8. ASSUME r.ok
      PROVE  /\ V \cup {p} \subseteq r.visited /\ r.visited \subseteq Own
             /\ \A x \in r.visited \ V : FileTold(d, x, r, r.visited)
  <2>1. Grown(d, r, start) /\ \A j \in 1..size : LineTold(d, p, j, r, r.visited)
    BY <1>7, <1>8
  <2> HIDE DEF r
  <2>2. FileTold(d, p, r, r.visited)
    BY <2>1 DEF FileTold, size
  <2> QED
    BY <1>4, <2>1, <2>2 DEF Grown, Within
<1> QED
  BY <1>2, <1>7, <1>8 DEF CallTold, size

(* What the converter reports when it has read the whole tree.             *)
Told(d, W) ==
  \E X \in SUBSET Own : Main \in X /\ \A x \in X : FileTold(d, x, W, X)

LEMMA TreeIsTold ==
  ASSUME NEW d, SourceOK(d), Main \in Own, parseINIRecursive(d).ok
  PROVE  Told(d, parseINIRecursive(d))
<1> DEFINE size == Cardinality(Paths)
<1>1. size \in Nat
  BY ConvertAssumption, FS_CardinalityType
<1>2. PICK f : CallsUpTo(d, size, f) /\ parseINIRecursive(d) = f[size][<<Main, {}>>]
  BY <1>1, CallLoop
<1>3. \A n \in 0..size :
        f[n] = [a \in Calls |->
                  IF a[1] \in a[2] THEN Starts(a[2])
                  ELSE IF n = 0 \/ d[a[1]].state # "file" THEN [Starts(a[2]) EXCEPT !.ok = FALSE]
                  ELSE ReadThrough(d, a[1], f[n - 1], a[2])]
  BY <1>2 DEF CallsUpTo
<1> HIDE DEF size
<1>4. ASSUME NEW n \in 0..size, NEW q \in Own, NEW V \in SUBSET Own
      PROVE  f[n][<<q, V>>]
               = IF q \in V THEN Starts(V)
                 ELSE IF n = 0 \/ d[q].state # "file" THEN [Starts(V) EXCEPT !.ok = FALSE]
                 ELSE ReadThrough(d, q, f[n - 1], V)
  <2>1. <<q, V>> \in Calls
    BY DEF Calls, Own
  <2> DEFINE a == <<q, V>>
  <2>2. a[1] = q /\ a[2] = V /\ a \in Calls
    BY <2>1
  <2> HIDE DEF a
  <2>3. f[n][a] = IF a[1] \in a[2] THEN Starts(a[2])
                  ELSE IF n = 0 \/ d[a[1]].state # "file" THEN [Starts(a[2]) EXCEPT !.ok = FALSE]
                  ELSE ReadThrough(d, a[1], f[n - 1], a[2])
    BY <1>3, <2>2
  <2>4. f[n][a] = IF q \in V THEN Starts(V)
                  ELSE IF n = 0 \/ d[q].state # "file" THEN [Starts(V) EXCEPT !.ok = FALSE]
                  ELSE ReadThrough(d, q, f[n - 1], V)
    BY <2>2, <2>3
  <2> QED
    BY <2>4 DEF a
<1>5. ASSUME NEW q, NEW V \in SUBSET Own
      PROVE  /\ q \in V => CallTold(d, q, V, Starts(V))
             /\ CallTold(d, q, V, [Starts(V) EXCEPT !.ok = FALSE])
  BY StartsAre DEF CallTold
<1> DEFINE T(n) == \A q \in Own : \A V \in SUBSET Own : CallTold(d, q, V, f[n][<<q, V>>])
           S == {n \in 0..size : T(n)}
<1>6. T(0)
  <2> SUFFICES ASSUME NEW q \in Own, NEW V \in SUBSET Own
               PROVE  CallTold(d, q, V, f[0][<<q, V>>])
    OBVIOUS
  <2>1. f[0][<<q, V>>] = IF q \in V THEN Starts(V) ELSE [Starts(V) EXCEPT !.ok = FALSE]
    BY <1>1, <1>4
  <2> QED
    BY <1>5, <2>1
<1>7. ASSUME NEW n \in 0..(size - 1), T(n)
      PROVE  T(n + 1)
  <2> SUFFICES ASSUME NEW q \in Own, NEW V \in SUBSET Own
               PROVE  CallTold(d, q, V, f[n + 1][<<q, V>>])
    OBVIOUS
  <2>1. n + 1 \in 0..size /\ (n + 1) - 1 = n /\ n + 1 # 0
    BY <1>1
  <2>2. CallTold(d, q, V, ReadThrough(d, q, f[n], V))
    BY <1>7, FileIsTold
  <2>3. f[n + 1][<<q, V>>]
          = IF q \in V THEN Starts(V)
            ELSE IF d[q].state # "file" THEN [Starts(V) EXCEPT !.ok = FALSE]
            ELSE ReadThrough(d, q, f[n], V)
    BY <1>4, <2>1
  <2> QED
    BY <1>5, <2>2, <2>3
<1>8. T(size)
  <2>1. 0 \in S
    BY <1>1, <1>6
  <2>2. \A n \in 0..(size - 1) : n \in S => n + 1 \in S
    <3> HIDE DEF T
    <3> QED
      BY <1>1, <1>7
  <2> HIDE DEF S
  <2>3. 0..size \subseteq S
    BY <1>1, <2>1, <2>2, UpTo
  <2>4. size \in S
    BY <1>1, <2>3
  <2> QED
    BY <2>4 DEF S
<1> DEFINE r == parseINIRecursive(d)
<1>9. CallTold(d, Main, {}, r)
  BY <1>2, <1>8
<1> HIDE DEF r
<1>10. /\ Main \in r.visited /\ r.visited \subseteq Own
       /\ \A x \in r.visited : FileTold(d, x, r, r.visited)
  BY <1>9 DEF CallTold, r
<1> QED
  BY <1>10 DEF Told, r

-----------------------------------------------------------------------------
(* What is read is what stands in the files.                               *)
LEMMA FileLines ==
  ASSUME NEW f, IsFile(f)
  PROVE  /\ Len(f.lines) \in Nat /\ DOMAIN f.lines = 1..Len(f.lines)
         /\ \A i \in 1..Len(f.lines) : f.lines[i] \in Range(f.lines) /\ IsLine(f.lines[i])
<1> DEFINE lines == f.lines
<1>1. lines \in Seq(Range(lines)) /\ \A l \in Range(lines) : IsLine(l)
  BY DEF IsFile
<1> HIDE DEF lines
<1>2. Len(lines) \in Nat /\ DOMAIN lines = 1..Len(lines)
  BY <1>1
<1>3. \A i \in 1..Len(lines) : lines[i] \in Range(lines)
  BY <1>2 DEF Range
<1> QED
  BY <1>1, <1>2, <1>3 DEF lines

LEMMA SectionIsLabel ==
  ASSUME NEW lines, Len(lines) \in Nat, \A i \in 1..Len(lines) : IsLine(lines[i])
  PROVE  \A i \in 0..Len(lines) : IsLabel(SectionAt(lines, i))
<1> DEFINE size == Len(lines)
           S == {n \in 0..size : IsLabel(SectionAt(lines, n))}
<1>1. 0 \in S
  BY SectionSteps, NoLabel
<1>2. ASSUME NEW n \in 0..(size - 1), n \in S
      PROVE  n + 1 \in S
  <2>1. n + 1 \in 1..size /\ n + 1 \in 0..size /\ n + 1 \in Nat \ {0} /\ (n + 1) - 1 = n
    OBVIOUS
  <2>2. lines[n + 1].line = "section" => IsLabel(lines[n + 1].section)
    BY <2>1 DEF IsLine
  <2>3. SectionAt(lines, n + 1)
          = IF lines[n + 1].line = "section" THEN lines[n + 1].section ELSE SectionAt(lines, n)
    BY <2>1, SectionSteps
  <2> QED
    BY <1>2, <2>1, <2>2, <2>3
<1> HIDE DEF S
<1>3. 0..size \subseteq S
  BY <1>1, <1>2, UpTo
<1> QED
  BY <1>3 DEF S

(* Line i names no files to include.                                       *)
Shows(lines, i) == ~(lines[i].line = "files" /\ SectionAt(lines, i) = Include)

(* Files that include none but one another.                                *)
Includes(d, q, i, n) ==
  /\ d[q].lines[i].line = "files" /\ SectionAt(d[q].lines, i) = Include
  /\ n \in Range(d[q].lines[i].value.names)
  /\ Globbed(d, d[q].lines[i].value, MaxOpen, n)

Closed(d, X) ==
  \A q \in X : /\ q \in Paths /\ IsFile(d[q])
              /\ \A i \in 1..Len(d[q].lines) : \A n : Includes(d, q, i, n) => n \in X

Standing(d, X) ==
  {e \in Entries(d) : \E q \in X : \E i \in 1..Len(d[q].lines) :
     Shows(d[q].lines, i) /\ e = Entry(q, SectionAt(d[q].lines, i), d[q].lines[i])}

LEMMA PartStands ==
  ASSUME NEW d, NEW X, Closed(d, X), NEW q \in X, NEW left \in 0..(MaxOpen - 1), NEW below,
         \A x \in X : below[x] \in Seq(Standing(d, X)), NEW i \in 1..Len(d[q].lines)
  PROVE  Part(d, q, left, below, i) \in Seq(Standing(d, X))
<1> DEFINE lines == d[q].lines
           l == lines[i]
           at == SectionAt(lines, i)
           G == Standing(d, X)
           e == Entry(q, at, l)
<1>1. /\ Len(lines) \in Nat /\ IsLine(l) /\ i \in Nat /\ q \in Paths
      /\ \A n : Includes(d, q, i, n) => n \in X
  BY FileLines DEF Closed
<1>2. e \in Entries(d)
  BY <1>1 DEF Entries
<1>4. CASE l.line = "files" /\ at = Include
  <2> DEFINE names == l.value.names
             ss == [j \in DOMAIN names |->
                      IF Globbed(d, l.value, left, names[j]) THEN below[names[j]] ELSE <<>>]
  <2>1. Part(d, q, left, below, i) = FlattenSeq(ss)
    <3>1. Include # NoSection
      BY DEF Include, NoSection, Section
    <3> QED
      BY <1>4, <3>1 DEF Part
  <2>2. Len(names) \in Nat /\ DOMAIN names = 1..Len(names)
    <3>1. names \in Seq(Paths)
      BY <1>1, <1>4 DEF IsLine
    <3> HIDE DEF names
    <3> QED
      BY <3>1
  <2>3. \A j \in 1..Len(names) : Globbed(d, l.value, left, names[j]) => names[j] \in X
    <3>1. \A n : Globbed(d, l.value, left, n) => Globbed(d, l.value, MaxOpen, n)
      BY ConfigAssumption DEF Globbed
    <3>2. \A j \in 1..Len(names) : names[j] \in Range(names)
      BY <2>2 DEF Range
    <3> QED
      BY <1>1, <1>4, <3>1, <3>2 DEF Includes
  <2> DEFINE Q == Seq(G)
  <2>4. \A x \in X : below[x] \in Q
    OBVIOUS
  <2>5. <<>> \in Q
    OBVIOUS
  <2> HIDE DEF names, Q, G
  <2>6. ss \in [1..Len(names) -> Q]
    BY <2>2, <2>3, <2>4, <2>5
  <2>7. ss \in Seq(Q) /\ Len(ss) = Len(names)
    BY <2>2, <2>6, FunctionIsSeq
  <2> HIDE DEF ss
  <2>8. PICK g \in [0..Len(ss) -> Seq(G)] : FlattenSeq(ss) = g[Len(ss)]
    BY <2>7, FlattenSteps DEF Q
  <2>9. FlattenSeq(ss) \in Seq(G)
    BY <2>2, <2>7, <2>8
  <2> QED
    BY <2>1, <2>9 DEF G
<1>5. CASE Shows(lines, i)
  <2>1. Part(d, q, left, below, i) = <<e>>
    BY <1>5 DEF Part, Shows
  <2> HIDE DEF e
  <2>2. e \in G
    BY <1>2, <1>5 DEF Standing, e
  <2> HIDE DEF G
  <2> QED
    BY <2>1, <2>2 DEF G
<1> QED
  BY <1>4, <1>5 DEF Shows

LEMMA LevelsStand ==
  ASSUME NEW d, NEW X, Closed(d, X), NEW g, ReadUpTo(d, MaxOpen, g)
  PROVE  \A n \in 0..MaxOpen : \A q \in X : g[n][q] \in Seq(Standing(d, X))
<1> DEFINE G == Standing(d, X)
           Q == Seq(G)
<1>3. MaxOpen \in Nat
  BY ConfigAssumption
<1>4. \A n \in 0..MaxOpen :
        g[n] = [q \in Paths |-> IF n = 0 THEN <<>>
                                ELSE FlattenSeq(Parts(d, q, n - 1, g[n - 1]))]
  BY DEF ReadUpTo, Parts
<1>5. <<>> \in Q
  OBVIOUS
<1>6. X \subseteq Paths
  BY DEF Closed
<1> DEFINE T(n) == \A q \in X : g[n][q] \in Q
           S == {n \in 0..MaxOpen : T(n)}
<1> HIDE DEF Q, G
<1>7. T(0)
  <2>1. g[0] = [q \in Paths |-> <<>>]
    BY <1>3, <1>4
  <2> QED
    BY <1>5, <1>6, <2>1
<1>8. ASSUME NEW n \in 0..(MaxOpen - 1), T(n)
      PROVE  T(n + 1)
  <2> SUFFICES ASSUME NEW q \in X PROVE g[n + 1][q] \in Q
    OBVIOUS
  <2> DEFINE ss == Parts(d, q, n, g[n])
             lines == d[q].lines
             m == n + 1
  <2>1. m \in 0..MaxOpen /\ m - 1 = n /\ m # 0
    BY <1>3
  <2> HIDE DEF m, ss
  <2>level. g[m] = [r \in Paths |-> FlattenSeq(Parts(d, r, n, g[n]))]
    BY <1>4, <2>1
  <2>2. g[m][q] = FlattenSeq(ss)
    BY <1>6, <2>level DEF ss
  <2>3. Len(lines) \in Nat /\ DOMAIN lines = 1..Len(lines)
    BY FileLines DEF Closed
  <2>4. \A i \in 1..Len(lines) : Part(d, q, n, g[n], i) \in Q
    BY <1>8, PartStands DEF Q, G
  <2>5. ss \in [1..Len(lines) -> Q]
    BY <2>3, <2>4 DEF Parts, ss
  <2> HIDE DEF lines
  <2>6. ss \in Seq(Q) /\ Len(ss) = Len(lines)
    BY <2>3, <2>5, FunctionIsSeq
  <2>7. PICK f \in [0..Len(ss) -> Seq(G)] : FlattenSeq(ss) = f[Len(ss)]
    BY <2>6, FlattenSteps DEF Q
  <2>8. FlattenSeq(ss) \in Q
    BY <2>3, <2>6, <2>7 DEF Q
  <2> QED
    BY <2>2, <2>8 DEF m
<1>9. \A n \in 0..MaxOpen : T(n)
  <2>1. 0 \in S
    BY <1>3, <1>7
  <2>2. \A n \in 0..(MaxOpen - 1) : n \in S => n + 1 \in S
    <3> HIDE DEF T
    <3> QED
      BY <1>3, <1>8
  <2> HIDE DEF S
  <2>3. 0..MaxOpen \subseteq S
    BY <1>3, <2>1, <2>2, UpTo
  <2> QED
    BY <2>3 DEF S
<1> QED
  BY <1>9 DEF Q, G

LEMMA ReadingStands ==
  ASSUME NEW d, NEW X, Closed(d, X), NEW p \in X
  PROVE  Reading(d)[p] \in Seq(Standing(d, X))
<1>1. PICK g : ReadUpTo(d, MaxOpen, g) /\ Reading(d) = g[MaxOpen]
  BY ReadLoop
<1>2. MaxOpen \in 0..MaxOpen
  BY ConfigAssumption
<1> QED
  BY <1>1, <1>2, LevelsStand

-----------------------------------------------------------------------------
(* An entry of the tree that Parse() heeds, or that was told of.           *)
Good(e, W) ==
  \/ Heeded(e.section, e.key)
  \/ e.section = NoSection \/ e.section.spaced \/ e.key = "socket_owner"
  \/ Warning(e.file, e.section, e.key) \in W.warnings
  \/ Warning(e.file, e.section, "") \in W.warnings

LEMMA KeysAreHeeded ==
  /\ supervisorKeys \subseteq DOMAIN SupervisorKeys \cup {"socket_owner"}
  /\ emailKeys \subseteq DOMAIN EmailKeys
  /\ programKeys \subseteq DOMAIN ProgramKeys
  /\ groupKeys \subseteq DOMAIN GroupKeys
<1>1. supervisorKeys \subseteq DOMAIN SupervisorKeys \cup {"socket_owner"}
  BY DEF supervisorKeys, SupervisorKeys
<1>2. emailKeys \subseteq DOMAIN EmailKeys
  BY DEF emailKeys, EmailKeys
<1>3. programKeys \subseteq DOMAIN ProgramKeys
  BY DEF programKeys, ProgramKeys
<1>4. groupKeys \subseteq DOMAIN GroupKeys
  BY DEF groupKeys, GroupKeys
<1> QED
  BY <1>1, <1>2, <1>3, <1>4

(* What the two tables of keys agree on: what the converter supports is    *)
(* what the parser heeds, but for socket_owner (main.go:44-97).            *)
LEMMA SupportedIsHeeded ==
  ASSUME NEW s, ~s.spaced
  PROVE  /\ ~isUnsupportedSection(s) => Heeded(s, "")
         /\ \A key : isSupportedKey(s, key) => Heeded(s, key) \/ key = "socket_owner"
<1>1. ~isUnsupportedSection(s) => Heeded(s, "")
  BY DEF isUnsupportedSection, Heeded, Named
<1>2. ASSUME NEW key, isSupportedKey(s, key)
      PROVE  Heeded(s, key) \/ key = "socket_owner"
  BY <1>2, KeysAreHeeded DEF isSupportedKey, Heeded, Named
<1> QED
  BY <1>1, <1>2

(* What was told of is closed, and its entries are good.                   *)
LEMMA ToldIsClosed ==
  ASSUME NEW d, SourceOK(d), NEW W, NEW X \in SUBSET Own, \A x \in X : FileTold(d, x, W, X)
  PROVE  Closed(d, X)
<1> SUFFICES ASSUME NEW q \in X, NEW i \in 1..Len(d[q].lines), NEW n, Includes(d, q, i, n)
             PROVE  n \in X
  BY DEF Closed, SourceOK, Own
<1> DEFINE l == d[q].lines[i]
           names == l.value.names
<1>1. Include.spaced = FALSE /\ IsLabel(SectionAt(d[q].lines, i))
  <2>1. i \in 0..Len(d[q].lines)
    BY OwnLines
  <2> QED
    BY <2>1, OwnLines, SectionIsLabel DEF Include, Section
<1>2. Included(d, q, i)
  BY <1>1, TrimKeeps DEF Includes, Included
<1>3. LineTold(d, q, i, W, X)
  BY DEF FileTold
<1>4. names \in Seq(Own)
  BY <1>2, OwnLines DEF Included
<1>5. n \in Range(names) /\ Globbed(d, l.value, MaxOpen, n)
  BY DEF Includes
<1>6. PICK j \in 1..Len(names) : n = names[j]
  <2> HIDE DEF names
  <2> QED
    BY <1>4, <1>5 DEF Range
<1> QED
  BY <1>2, <1>3, <1>5, <1>6 DEF LineTold

LEMMA StandingIsGood ==
  ASSUME NEW d, SourceOK(d), NEW W, NEW X \in SUBSET Own, \A x \in X : FileTold(d, x, W, X),
         NEW e \in Standing(d, X)
  PROVE  /\ Good(e, W)
         /\ e.section # NoSection /\ ~e.section.spaced => e.section \in W.sections
<1>0. PICK q \in X : \E i \in 1..Len(d[q].lines) :
        Shows(d[q].lines, i) /\ e = Entry(q, SectionAt(d[q].lines, i), d[q].lines[i])
  BY DEF Standing
<1>1. PICK i \in 1..Len(d[q].lines) :
        Shows(d[q].lines, i) /\ e = Entry(q, SectionAt(d[q].lines, i), d[q].lines[i])
  BY <1>0
<1> DEFINE lines == d[q].lines
           l == lines[i]
           at == SectionAt(lines, i)
<1>2. i \in Nat \ {0} /\ i \in 0..Len(lines) /\ IsLine(l) /\ IsLabel(at)
  BY OwnLines, SectionIsLabel
<1>3. LineTold(d, q, i, W, X)
  BY DEF FileTold
<1>4. l.line = "section" => at = l.section
  BY <1>2, SectionSteps
<1>5. ~at.spaced => Trim(at) = at
  BY <1>2, TrimKeeps
<1>6. e.file = q /\ e.section = at /\ e.key = (IF l.line = "section" THEN "" ELSE l.key)
  BY <1>1 DEF Entry
<1>7. CASE l.line = "section"
  <2>1. ~at.spaced /\ isUnsupportedSection(at) => Warning(q, at, "") \in W.warnings
    BY <1>3, <1>4, <1>5, <1>7 DEF LineTold
  <2> QED
    BY <1>3, <1>5, <1>6, <1>7, <2>1, SupportedIsHeeded DEF Good, LineTold
<1>8. CASE l.line # "section" /\ at # NoSection /\ ~(l.line = "files" /\ at = Include)
  <2>1. ~at.spaced => isSupportedKey(at, l.key) \/ Warning(q, at, l.key) \in W.warnings
    BY <1>3, <1>5, <1>8 DEF LineTold, Included
  <2> QED
    BY <1>3, <1>5, <1>6, <1>8, <2>1, SupportedIsHeeded DEF Good, LineTold
<1>9. CASE l.line # "section" /\ at = NoSection
  BY <1>6, <1>9 DEF Good
<1> QED
  BY <1>1, <1>7, <1>8, <1>9 DEF Shows

(* So everything that is read from the top is good.                        *)
LEMMA ReadingIsGood ==
  ASSUME NEW d, SourceOK(d), NEW W, Told(d, W)
  PROVE  \A e \in Range(Reading(d)[Main]) :
           /\ Good(e, W)
           /\ e.section # NoSection /\ ~e.section.spaced => e.section \in W.sections
<1>1. PICK X \in SUBSET Own : Main \in X /\ \A x \in X : FileTold(d, x, W, X)
  BY DEF Told
<1> DEFINE reading == Reading(d)[Main]
           G == Standing(d, X)
<1>2. reading \in Seq(G)
  BY <1>1, ToldIsClosed, ReadingStands
<1> HIDE DEF reading, G
<1>3. \A e \in Range(reading) : e \in G
  BY <1>2 DEF Range
<1> QED
  BY <1>1, <1>3, StandingIsGood DEF G, reading

-----------------------------------------------------------------------------
(* What is written is a generated file: the source stays as it was read.   *)
AreGenerated(files) == \E F : files \in Seq(F) /\ \A f \in F : Generated(f.path)

LEMMA SortedIsSeq ==
  ASSUME NEW S
  PROVE  \E n \in Nat : DOMAIN Sorted(S) = 1..n
<1> DEFINE kept == {i \in DOMAIN Names : Names[i] \in S}
<1>1. DOMAIN Names = 1..Len(Names) /\ Len(Names) \in Nat
  BY ConvertAssumption
<1>2. IsFiniteSet(kept)
  <2>1. IsFiniteSet(1..Len(Names))
    BY <1>1, FS_Interval
  <2>2. kept \subseteq 1..Len(Names)
    BY <1>1
  <2> HIDE DEF kept
  <2> QED
    BY <2>1, <2>2, FS_Subset
<1>3. Cardinality(kept) \in Nat
  BY <1>2, FS_CardinalityType
<1>4. DOMAIN Sorted(S) = 1..Cardinality(kept)
  BY DEF Sorted, Picked
<1> QED
  BY <1>3, <1>4

LEMMA OutputIsGenerated ==
  ASSUME NEW c, NEW r
  PROVE  AreGenerated(Output(c, r))
<1> DEFINE ps == Sorted(DOMAIN c.programs)
           gs == Sorted(DOMAIN c.groups)
           a == [path |-> OutMain, lines |-> renderMainConfig(c, r)]
           A == [i \in DOMAIN ps |-> [path |-> programFile(ps[i]),
                   lines |-> renderSection(Section("program", ps[i]), ProgramKeys, c.programs[ps[i]])]]
           B == [i \in DOMAIN gs |-> [path |-> groupFile(gs[i]),
                   lines |-> renderSection(Section("group", gs[i]), GroupKeys, c.groups[gs[i]])]]
           F == {a} \cup {A[i] : i \in DOMAIN ps} \cup {B[i] : i \in DOMAIN gs}
<1>1. Output(c, r) = <<a>> \o A \o B
  BY DEF Output
<1>2. \A stem : Generated(Confd(stem))
  BY DEF Generated, Confd
<1>3. Generated(a.path)
  BY DEF Generated
<1>4. /\ \A i \in DOMAIN ps : Generated(A[i].path)
      /\ \A i \in DOMAIN gs : Generated(B[i].path)
  BY <1>2 DEF programFile, groupFile
<1>5. DOMAIN A = DOMAIN ps /\ DOMAIN B = DOMAIN gs
  OBVIOUS
<1>6. A = [i \in DOMAIN A |-> A[i]] /\ B = [i \in DOMAIN B |-> B[i]]
  OBVIOUS
<1>7. PICK m \in Nat : DOMAIN ps = 1..m
  BY SortedIsSeq
<1>8. PICK n \in Nat : DOMAIN gs = 1..n
  BY SortedIsSeq
<1> HIDE DEF a, A, B, ps, gs
<1>9. A \in [1..m -> F] /\ B \in [1..n -> F] /\ a \in F
  BY <1>5, <1>6, <1>7, <1>8
<1>10. \A f \in F : Generated(f.path)
  BY <1>3, <1>4
<1> HIDE DEF F
<1>11. A \in Seq(F) /\ B \in Seq(F) /\ <<a>> \in Seq(F)
  BY <1>9, FunctionIsSeq
<1>12. <<a>> \o A \o B \in Seq(F)
  BY <1>11, ConcatProperties
<1> QED
  BY <1>1, <1>10, <1>12 DEF AreGenerated

LEMMA NextIsGenerated ==
  ASSUME NEW files, AreGenerated(files), files # <<>>
  PROVE  Generated(files[1].path) /\ AreGenerated(Tail(files))
<1>1. PICK F : files \in Seq(F) /\ \A f \in F : Generated(f.path)
  BY DEF AreGenerated
<1>2. files[1] \in F /\ Tail(files) \in Seq(F)
  BY <1>1
<1> QED
  BY <1>1, <1>2 DEF AreGenerated

LEMMA WritingKeepsTold ==
  ASSUME NEW d, SourceOK(d), NEW e, \A p \in Own : e[p] = d[p]
  PROVE  SourceOK(e) /\ \A W : Told(d, W) => Told(e, W)
<1>1. SourceOK(e)
  BY DEF SourceOK
<1>2. ASSUME NEW W, NEW X \in SUBSET Own, NEW x \in X, FileTold(d, x, W, X)
      PROVE  FileTold(e, x, W, X)
  <2> SUFFICES ASSUME NEW i \in 1..Len(d[x].lines) PROVE LineTold(e, x, i, W, X)
    BY DEF FileTold
  <2> DEFINE l == d[x].lines[i]
  <2>1. e[x] = d[x] /\ LineTold(d, x, i, W, X)
    BY <1>2 DEF FileTold
  <2>2. Included(d, x, i) = Included(e, x, i)
    BY <2>1 DEF Included
  <2>3. ASSUME Included(d, x, i), NEW j \in 1..Len(l.value.names),
               Globbed(e, l.value, MaxOpen, l.value.names[j])
        PROVE  Globbed(d, l.value, MaxOpen, l.value.names[j])
    <3>1. l.value.names \in Seq(Own)
      BY <2>3, OwnLines DEF Included
    <3>2. l.value.names[j] \in Own
      BY <3>1
    <3> QED
      BY <2>3, <3>2 DEF Globbed
  <2> QED
    BY <2>1, <2>2, <2>3 DEF LineTold
<1>3. \A W : Told(d, W) => Told(e, W)
  BY <1>2 DEF Told
<1> QED
  BY <1>1, <1>3

ToldInv ==
  /\ DOMAIN disk = Paths /\ SourceOK(disk)
  /\ pc = "write" => AreGenerated(todo)
  /\ pc \in {"write", "done"} /\ steady => Told(disk, raw)

LEMMA ApartTrees ==
  ASSUME Apart, NEW t \in Sources \cup Edits
  PROVE  \A p \in DOMAIN t \cap Own :
           /\ IsFile(t[p])
           /\ \A l \in Range(t[p].lines) :
                l.line = "files" => \A n \in Range(l.value.names) : n \in Own
<1> SUFFICES ASSUME NEW p \in DOMAIN t, p \in Own
             PROVE  /\ IsFile(t[p])
                    /\ \A l \in Range(t[p].lines) :
                         l.line = "files" => \A n \in Range(l.value.names) : n \in Own
  OBVIOUS
<1>1. IsFile(t[p])
  BY ConvertAssumption
<1>2. ASSUME NEW l \in Range(t[p].lines), l.line = "files", NEW n \in Range(l.value.names)
      PROVE  n \in Own
  <2>1. ~Generated(n)
    BY <1>2 DEF Apart, Own
  <2>2. l.value.names \in Seq(Paths)
    BY <1>1, <1>2 DEF IsFile, IsLine
  <2>3. n \in Paths
    BY <1>2, <2>2 DEF Range
  <2> QED
    BY <2>1, <2>3 DEF Own
<1> QED
  BY <1>1, <1>2

LEMMA OverKeepsSource ==
  ASSUME Apart, NEW t \in Sources \cup Edits, NEW d, DOMAIN d = Paths, SourceOK(d)
  PROVE  DOMAIN Over(d, t) = Paths /\ SourceOK(Over(d, t))
<1>1. DOMAIN t \subseteq Paths
  BY ConvertAssumption
<1>2. DOMAIN Over(d, t) = Paths
  BY <1>1 DEF Over
<1>3. \A p \in Own : Over(d, t)[p] = IF p \in DOMAIN t THEN t[p] ELSE d[p]
  BY DEF Over, Own
<1> QED
  BY <1>2, <1>3, ApartTrees DEF SourceOK

LEMMA ToldInvariant ==
  ASSUME Apart
  PROVE  Spec => []ToldInv
<1>0. Main \in Own
  BY ConvertAssumption DEF Apart, Own
<1>1. Init => ToldInv
  <2> SUFFICES ASSUME Init PROVE ToldInv
    OBVIOUS
  <2> DEFINE none == [p \in Paths |-> Absent]
  <2>1. PICK t \in Sources : disk = Over(none, t)
    BY DEF Init
  <2>2. DOMAIN none = Paths /\ SourceOK(none)
    <3>1. Range(Absent.lines) = {}
      BY EmptyDomain DEF Absent, Range
    <3> QED
      BY <3>1, AbsentIsFile DEF SourceOK, Own
  <2> HIDE DEF none
  <2>3. DOMAIN disk = Paths /\ SourceOK(disk)
    BY <2>1, <2>2, OverKeepsSource
  <2> QED
    BY <2>3 DEF Init, ToldInv
<1>2. ToldInv /\ [Next]_vars => ToldInv'
  <2> SUFFICES ASSUME ToldInv, [Next]_vars PROVE ToldInv'
    OBVIOUS
  <2>0. /\ DOMAIN disk = Paths /\ SourceOK(disk)
        /\ pc = "write" => AreGenerated(todo)
        /\ pc \in {"write", "done"} /\ steady => Told(disk, raw)
    BY DEF ToldInv
  <2>same. ASSUME disk' = disk
           PROVE  DOMAIN disk' = Paths /\ SourceOK(disk')
    BY <2>0, <2>same
  <2>write. ASSUME NEW path, Generated(path), NEW f, disk' = [disk EXCEPT ![path] = f]
            PROVE  /\ DOMAIN disk' = Paths /\ SourceOK(disk')
                   /\ \A W : Told(disk, W) => Told(disk', W)
    <3>1. DOMAIN disk' = Paths /\ \A p \in Own : disk'[p] = disk[p]
      BY <2>0, <2>write DEF Own
    <3> QED
      BY <2>0, <3>1, WritingKeepsTold
  <2>1. CASE Start
    BY <2>1, <2>same DEF Start, Ends, ToldInv
  <2>2. CASE Inspect
    <3> DEFINE r == parseINIRecursive(disk)
    <3>1. CASE r.ok
      <4>1. /\ pc' = "write" /\ raw' = [sections |-> r.sections, warnings |-> r.warnings]
            /\ todo' = Output(cfg, raw') /\ disk' = disk
        BY <2>2, <3>1 DEF Inspect
      <4>2. Told(disk, r)
        BY <1>0, <2>0, <3>1, TreeIsTold
      <4>3. AreGenerated(todo')
        BY <4>1, OutputIsGenerated
      <4> HIDE DEF r
      <4>4. Within(r, raw')
        BY <4>1 DEF Within
      <4>5. Told(disk', raw')
        BY <4>1, <4>2, <4>4, ToldGrows DEF Told
      <4> QED
        BY <2>same, <4>1, <4>3, <4>5 DEF ToldInv
    <3>2. CASE ~r.ok
      <4>1. pc' = "over" /\ disk' = disk
        BY <2>2, <3>2 DEF Inspect, Ends
      <4> QED
        BY <2>same, <4>1 DEF ToldInv
    <3> QED
      BY <3>1, <3>2
  <2>3. CASE WriteFile
    <3>1. /\ pc = "write" /\ todo # <<>> /\ todo' = Tail(todo)
          /\ disk' = [disk EXCEPT ![todo[1].path] = File(todo[1].lines)]
          /\ pc' = pc /\ raw' = raw /\ steady' = steady
      BY <2>3 DEF WriteFile
    <3>2. Generated(todo[1].path) /\ AreGenerated(todo')
      BY <2>0, <3>1, NextIsGenerated
    <3>3. /\ DOMAIN disk' = Paths /\ SourceOK(disk')
          /\ \A W : Told(disk, W) => Told(disk', W)
      BY <2>write, <3>1, <3>2
    <3> QED
      BY <2>0, <3>1, <3>2, <3>3 DEF ToldInv
  <2>4. CASE WriteFails
    <3>1. pc = "write" /\ todo # <<>> /\ pc' = "over"
      BY <2>4 DEF WriteFails, Ends
    <3>2. Generated(todo[1].path)
      BY <2>0, <3>1, NextIsGenerated
    <3>3. DOMAIN disk' = Paths /\ SourceOK(disk')
      <4>1. \/ disk' = disk
            \/ \E f : disk' = [disk EXCEPT ![todo[1].path] = f]
        BY <2>4 DEF WriteFails
      <4> QED
        BY <2>same, <2>write, <3>2, <4>1
    <3> QED
      BY <3>1, <3>3 DEF ToldInv
  <2>5. CASE Finish
    <3>1. disk' = disk /\ raw' = raw /\ steady' = steady /\ pc = "write" /\ pc' = "done"
      BY <2>5 DEF Finish
    <3> QED
      BY <2>0, <3>1 DEF ToldInv
  <2>6. CASE Edit
    <3>1. PICK t \in Edits : disk' = Over(disk, t)
      BY <2>6 DEF Edit
    <3>2. DOMAIN disk' = Paths /\ SourceOK(disk')
      BY <2>0, <3>1, OverKeepsSource
    <3>3. steady' = FALSE /\ pc' = pc /\ todo' = todo
      BY <2>6 DEF Edit
    <3> QED
      BY <2>0, <3>2, <3>3 DEF ToldInv
  <2>7. CASE UNCHANGED vars
    BY <2>0, <2>7 DEF vars, ToldInv
  <2> QED
    BY <2>1, <2>2, <2>3, <2>4, <2>5, <2>6, <2>7 DEF Next
<1> QED
  BY <1>1, <1>2, PTL DEF Spec

(* Whatever the tree, as long as what is written is not a part of it: a    *)
(* run that succeeds, and during which nobody edits the source, has warned *)
(* of every section and key that has no effect, in every file that was     *)
(* included, loops of includes or not.  Three kinds slip through: keys     *)
(* before the first header of their file, sections with spaces inside the  *)
(* brackets, and socket_owner (main.go:14-19, 417-419, 53).                *)
THEOREM EverythingIsTold ==
  ASSUME Apart
  PROVE  Spec => []NothingDroppedSilently
<1>1. ToldInv => NothingDroppedSilently
  BY ReadingIsGood DEF ToldInv, NothingDroppedSilently, Good
<1> QED
  BY <1>1, ToldInvariant, PTL
-----------------------------------------------------------------------------
(* Sets in some order, and sequences picked by their indices.              *)
OrderUpTo(S, n, f) ==
  f = [i \in 0..n |->
         IF i = 0 THEN <<>> ELSE Append(f[i - 1], CHOOSE x \in S \ Range(f[i - 1]) : TRUE)]

LEMMA OrderLoop ==
  ASSUME NEW S, Cardinality(S) \in Nat
  PROVE  \E f : OrderUpTo(S, Cardinality(S), f) /\ InSomeOrder(S) = f[Cardinality(S)]
<1> DEFINE P(n, f) == OrderUpTo(S, n, f)
           Turn(i, a) == Append(a, CHOOSE x \in S \ Range(a) : TRUE)
           size == Cardinality(S)
           T == {n \in 0..size : \E f : P(n, f)}
<1>1. 0 \in T
  <2>1. P(0, [i \in 0..0 |-> <<>>])
    BY DEF OrderUpTo
  <2> QED
    BY <2>1
<1>2. ASSUME NEW n \in 0..(size - 1), n \in T
      PROVE  n + 1 \in T
  <2>1. PICK f : P(n, f)
    BY <1>2
  <2> DEFINE g == [i \in 0..(n + 1) |-> IF i = n + 1 THEN Turn(n + 1, f[n]) ELSE f[i]]
  <2>2. ASSUME NEW i \in 0..(n + 1)
        PROVE  g[i] = IF i = 0 THEN <<>> ELSE Turn(i, g[i - 1])
    <3>1. CASE i = n + 1
      <4>1. i # 0 /\ i - 1 = n /\ n \in 0..(n + 1) /\ n # n + 1
        BY <3>1
      <4> HIDE DEF Turn
      <4> QED
        BY <3>1, <4>1
    <3>2. CASE i # n + 1
      <4>1. i \in 0..n /\ (i # 0 => i - 1 \in 0..(n + 1) /\ i - 1 # n + 1)
        BY <3>2
      <4>2. f[i] = IF i = 0 THEN <<>> ELSE Turn(i, f[i - 1])
        BY <2>1, <4>1 DEF OrderUpTo
      <4> HIDE DEF Turn
      <4> QED
        BY <3>2, <4>1, <4>2
    <3> QED
      BY <3>1, <3>2
  <2>3. P(n + 1, g)
    <3> HIDE DEF g
    <3>1. g = [i \in 0..(n + 1) |-> g[i]]
      BY DEF g
    <3> QED
      BY <2>2, <3>1 DEF OrderUpTo
  <2> HIDE DEF g, P
  <2> QED
    BY <2>3
<1>3. size \in T
  <2> HIDE DEF T
  <2>1. 0..size \subseteq T
    BY <1>1, <1>2, UpTo
  <2> QED
    BY <2>1
<1> DEFINE F == CHOOSE f : P(size, f)
<1>4. P(size, F)
  BY <1>3
<1>5. InSomeOrder(S) = F[size]
  BY DEF InSomeOrder, OrderUpTo
<1> QED
  BY <1>4, <1>5

(* A finite set in some order: all its members, and nothing else.          *)
LEMMA InSomeOrderIs ==
  ASSUME NEW S, IsFiniteSet(S)
  PROVE  InSomeOrder(S) \in Seq(S) /\ Range(InSomeOrder(S)) = S
<1> DEFINE size == Cardinality(S)
<1>1. size \in Nat
  BY FS_CardinalityType
<1>2. PICK f : OrderUpTo(S, size, f) /\ InSomeOrder(S) = f[size]
  BY <1>1, OrderLoop
<1>3. \A i \in 0..size :
        f[i] = IF i = 0 THEN <<>> ELSE Append(f[i - 1], CHOOSE x \in S \ Range(f[i - 1]) : TRUE)
  BY <1>2 DEF OrderUpTo
<1> DEFINE T(n) == f[n] \in Seq(S) /\ IsFiniteSet(Range(f[n])) /\ Cardinality(Range(f[n])) = n
           U == {n \in 0..size : T(n)}
<1> HIDE DEF size
<1>4. T(0)
  <2>1. f[0] = <<>>
    BY <1>1, <1>3
  <2>2. Range(<<>>) = {}
    BY EmptyDomain DEF Range
  <2>3. <<>> \in Seq(S)
    OBVIOUS
  <2> QED
    BY <2>1, <2>2, <2>3, FS_EmptySet
<1>5. ASSUME NEW n \in 0..(size - 1), T(n)
      PROVE  T(n + 1)
  <2> DEFINE o == f[n]
             R == Range(o)
             x == CHOOSE y \in S \ R : TRUE
  <2>1. n + 1 \in 0..size /\ (n + 1) - 1 = n /\ n + 1 # 0 /\ n < size /\ n \in Nat
    BY <1>1
  <2>2. f[n + 1] = Append(o, x)
    BY <1>3, <2>1
  <2>3. o \in Seq(S) /\ IsFiniteSet(R) /\ Cardinality(R) = n
    BY <1>5
  <2>4. R \subseteq S
    BY <2>3 DEF Range
  <2>5. R # S
    BY <2>1, <2>3 DEF size
  <2> HIDE DEF o, R
  <2>6. x \in S \ R
    BY <2>4, <2>5
  <2> HIDE DEF x
  <2>7. Append(o, x) \in Seq(S) /\ Range(Append(o, x)) = Range(o) \cup {x}
    <3>1. Append(o, x) \in Seq(S) /\ Len(Append(o, x)) = Len(o) + 1 /\ Len(o) \in Nat
      BY <2>3, <2>6
    <3>2. \A i \in 1..(Len(o) + 1) : Append(o, x)[i] = IF i = Len(o) + 1 THEN x ELSE o[i]
      BY <2>3, <2>6
    <3>3. DOMAIN Append(o, x) = 1..(Len(o) + 1) /\ DOMAIN o = 1..Len(o)
      BY <2>3, <3>1
    <3>4. Len(o) + 1 \in 1..(Len(o) + 1)
      BY <3>1
    <3>5. \A y : y \in Range(Append(o, x)) <=> y = x \/ y \in Range(o)
      BY <3>1, <3>2, <3>3, <3>4 DEF Range
    <3> QED
      BY <3>1, <3>5
  <2>8. IsFiniteSet(R \cup {x}) /\ Cardinality(R \cup {x}) = n + 1
    BY <2>3, <2>6, FS_AddElement
  <2> QED
    BY <2>2, <2>7, <2>8 DEF R
<1>6. T(size)
  <2>1. 0 \in U
    BY <1>1, <1>4
  <2>2. \A n \in 0..(size - 1) : n \in U => n + 1 \in U
    <3> HIDE DEF T
    <3> QED
      BY <1>1, <1>5
  <2> HIDE DEF U
  <2>3. 0..size \subseteq U
    BY <1>1, <2>1, <2>2, UpTo
  <2>4. size \in U
    BY <1>1, <2>3
  <2> QED
    BY <2>4 DEF U
<1> DEFINE o == InSomeOrder(S)
<1>7. o \in Seq(S) /\ Cardinality(Range(o)) = size
  BY <1>2, <1>6
<1> HIDE DEF o
<1>8. Range(o) \in SUBSET S
  BY <1>7 DEF Range
<1>9. Range(o) = S
  BY <1>7, <1>8, FS_Subset DEF size
<1> QED
  BY <1>7, <1>9 DEF o

(* How many members of a set of indices come up to one of them: their      *)
(* ranks are the numbers from 1 on.                                        *)
Rank(I, i) == Cardinality({h \in I : h <= i})

LEMMA Ranks ==
  ASSUME NEW n \in Nat, NEW I \in SUBSET (1..n)
  PROVE  /\ IsFiniteSet(I) /\ Cardinality(I) \in Nat
         /\ \A i \in I : Rank(I, i) \in 1..Cardinality(I)
         /\ \A i, j \in I : Rank(I, i) = Rank(I, j) => i = j
         /\ \A m \in 1..Cardinality(I) : \E i \in I : Rank(I, i) = m
<1>1. IsFiniteSet(I) /\ Cardinality(I) \in Nat
  <2>1. IsFiniteSet(1..n)
    BY FS_Interval
  <2> QED
    BY <2>1, FS_Subset, FS_CardinalityType
<1> DEFINE U(i) == {h \in I : h <= i}
<1>2. \A i : U(i) \in SUBSET I /\ IsFiniteSet(U(i)) /\ Cardinality(U(i)) \in Nat
  <2> TAKE i
  <2>1. U(i) \in SUBSET I
    OBVIOUS
  <2> HIDE DEF U
  <2> QED
    BY <1>1, <2>1, FS_Subset, FS_CardinalityType
<1>3. ASSUME NEW i \in I
      PROVE  Rank(I, i) \in 1..Cardinality(I)
  <2>1. i \in U(i)
    OBVIOUS
  <2> HIDE DEF U
  <2>2. Cardinality(U(i)) <= Cardinality(I)
    BY <1>1, <1>2, FS_Subset
  <2>3. Cardinality(U(i)) # 0
    BY <1>2, <2>1, FS_EmptySet
  <2>4. Cardinality(U(i)) \in 1..Cardinality(I)
    BY <1>1, <1>2, <2>2, <2>3
  <2> QED
    BY <2>4 DEF Rank, U
<1>4. ASSUME NEW i \in I, NEW j \in I, i < j
      PROVE  Rank(I, i) < Rank(I, j)
  <2>1. i \in Nat /\ j \in Nat /\ \A h \in I : h \in Nat
    OBVIOUS
  <2>2. \A h \in I : h <= i => h <= j
    BY <1>4, <2>1
  <2>3. j \in U(j) /\ j \notin U(i)
    BY <1>4, <2>1
  <2>4. U(i) \in SUBSET U(j)
    BY <2>2
  <2> HIDE DEF U
  <2>5. Cardinality(U(i)) <= Cardinality(U(j)) /\ Cardinality(U(i)) # Cardinality(U(j))
    BY <1>2, <2>3, <2>4, FS_Subset
  <2>6. Cardinality(U(i)) < Cardinality(U(j))
    BY <1>2, <2>5
  <2> QED
    BY <2>6 DEF Rank, U
<1>5. ASSUME NEW i \in I, NEW j \in I, Rank(I, i) = Rank(I, j)
      PROVE  i = j
  <2>1. i < j \/ j < i \/ i = j
    OBVIOUS
  <2>2. Rank(I, i) \in Nat /\ Rank(I, j) \in Nat
    BY <1>3
  <2> QED
    BY <1>4, <1>5, <2>1, <2>2
<1> DEFINE N == 1..Cardinality(I)
           f == [i \in I |-> Rank(I, i)]
<1>6. f \in Injection(I, N)
  BY <1>3, <1>5 DEF Injection, IsInjective
<1>7. IsFiniteSet(N) /\ Cardinality(N) = Cardinality(I)
  BY <1>1, FS_Interval
<1>8. f \in Surjection(I, N)
  <2> HIDE DEF f, N
  <2> QED
    BY <1>6, <1>7, FS_Injection
<1>9. \A m \in N : \E i \in I : f[i] = m
  BY <1>8 DEF Surjection
<1> QED
  BY <1>1, <1>3, <1>5, <1>9

LEMMA PickedIs ==
  ASSUME NEW seq, NEW n \in Nat, NEW I \in SUBSET (1..n)
  PROVE  /\ Cardinality(I) \in Nat /\ DOMAIN Picked(seq, I) = 1..Cardinality(I)
         /\ \A m \in 1..Cardinality(I) : \E i \in I : Picked(seq, I)[m] = seq[i]
         /\ \A i \in I : \E m \in 1..Cardinality(I) : Picked(seq, I)[m] = seq[i]
<1> DEFINE At(m) == CHOOSE i \in I : Rank(I, i) = m
<1>1. /\ Cardinality(I) \in Nat
      /\ \A i \in I : Rank(I, i) \in 1..Cardinality(I)
      /\ \A i, j \in I : Rank(I, i) = Rank(I, j) => i = j
      /\ \A m \in 1..Cardinality(I) : \E i \in I : Rank(I, i) = m
  BY Ranks
<1>2. Picked(seq, I) = [m \in 1..Cardinality(I) |-> seq[At(m)]]
  BY DEF Picked, Rank
<1>3. \A m \in 1..Cardinality(I) : At(m) \in I /\ Rank(I, At(m)) = m
  BY <1>1
<1> HIDE DEF At
<1>4. \A i \in I : At(Rank(I, i)) = i
  BY <1>1, <1>3
<1> QED
  BY <1>1, <1>2, <1>3, <1>4

(* All of a sequence is the sequence.                                      *)
LEMMA PickedAll ==
  ASSUME NEW seq, NEW n \in Nat
  PROVE  Picked(seq, 1..n) = [m \in 1..n |-> seq[m]]
<1> DEFINE I == 1..n
           At(m) == CHOOSE i \in I : Rank(I, i) = m
<1>1. Cardinality(I) = n
  BY FS_Interval
<1>2. \A i \in I : Rank(I, i) = i
  <2> TAKE i \in I
  <2>1. {h \in I : h <= i} = 1..i /\ i \in Nat /\ i > 0
    OBVIOUS
  <2>2. Cardinality(1..i) = i
    BY <2>1, FS_Interval
  <2> HIDE DEF I
  <2> QED
    BY <2>1, <2>2 DEF Rank
<1>3. Picked(seq, I) = [m \in 1..Cardinality(I) |-> seq[At(m)]]
  BY DEF Picked, Rank
<1>4. \A m \in I : At(m) = m
  BY <1>2
<1> HIDE DEF At
<1> QED
  BY <1>1, <1>3, <1>4

(* The names of a set, in their order.                                     *)
LEMMA SortedIs ==
  ASSUME NEW S, S \subseteq Range(Names)
  PROVE  /\ Sorted(S) \in Seq(S) /\ Range(Sorted(S)) = S
<1> DEFINE I == {i \in DOMAIN Names : Names[i] \in S}
           p == Sorted(S)
           n == Cardinality(I)
<1>1. DOMAIN Names = 1..Len(Names) /\ Len(Names) \in Nat
  BY ConvertAssumption
<1>2. I \in SUBSET (1..Len(Names)) /\ p = Picked(Names, I)
  BY <1>1 DEF Sorted
<1>3. \A x \in S : \E i \in I : Names[i] = x
  BY DEF Range
<1>4. \A i \in I : Names[i] \in S
  OBVIOUS
<1> HIDE DEF I, p
<1>5. /\ n \in Nat /\ DOMAIN p = 1..n
      /\ \A m \in 1..n : \E i \in I : p[m] = Names[i]
      /\ \A i \in I : \E m \in 1..n : p[m] = Names[i]
  BY <1>1, <1>2, PickedIs
<1>6. p = [m \in 1..n |-> p[m]]
  BY <1>2, <1>5 DEF Picked
<1> HIDE DEF n
<1>7. p \in [1..n -> S]
  BY <1>4, <1>5, <1>6
<1>8. p \in Seq(S)
  BY <1>5, <1>7, FunctionIsSeq
<1>9. Range(p) = S
  BY <1>3, <1>4, <1>5, <1>7 DEF Range
<1> QED
  BY <1>8, <1>9 DEF p
-----------------------------------------------------------------------------
(* The fields of a configuration, by the kinds of their keys.              *)
Kinds == {"text", "bool", "int", "policy", "upper", "ints", "bytes", "env", "list", "LIST"}

IsField(kind, v) ==
  CASE kind = "text"  -> TRUE
    [] kind = "upper" -> ToUpper(v) = v
    [] kind = "ints"  -> v \in Seq(Int64)
    [] kind = "list"  -> v \in Seq(Range(v))
    [] kind = "LIST"  -> v \in Seq(Range(v)) /\ ToUpper(v) = v
    [] kind = "env"   -> v = [k \in DOMAIN v |-> v[k]] /\ DOMAIN v \subseteq Range(Names) \ {""}
    [] OTHER          -> v \in Values(kind)

AreFields(keys, f) ==
  f = [k \in DOMAIN keys |-> f[k]] /\ \A k \in DOMAIN keys : IsField(keys[k], f[k])

(* A value that may stand in a file.                                       *)
MayStand(t) == IsValue(t) /\ {p.key : p \in Range(t)} \subseteq Range(Names) \cup {""}

LEMMA ValuesAre ==
  ASSUME NEW t, IsValue(t)
  PROVE  /\ Len(t) \in Nat /\ DOMAIN t = 1..Len(t) /\ t \in Seq(Range(t))
         /\ \A i \in 1..Len(t) : t[i] \in Range(t) /\ IsPart(t[i])
<1>1. t \in Seq(Range(t)) /\ \A p \in Range(t) : IsPart(p)
  BY DEF IsValue
<1>2. Len(t) \in Nat /\ DOMAIN t = 1..Len(t)
  BY <1>1
<1>3. \A i \in 1..Len(t) : t[i] \in Range(t)
  BY <1>2 DEF Range
<1> QED
  BY <1>1, <1>2, <1>3

(* A capital letter stays one.                                             *)
Upper(p) ==
  IF p.word.kind = "name" /\ p.word.name \in DOMAIN Capital
  THEN [p EXCEPT !.word.name = Capital[@]] ELSE p

LEMMA UpperIs ==
  ASSUME NEW p, IsPart(p)
  PROVE  Upper(Upper(p)) = Upper(p)
<1>1. CASE p.word.kind = "name" /\ p.word.name \in DOMAIN Capital
  <2> DEFINE q == Upper(p)
  <2>1. p.word = [kind |-> "name", name |-> p.word.name, escapes |-> p.word.escapes]
    <3>1. IsWord(p.word)
      BY DEF IsPart
    <3>2. "name" # "number"
      OBVIOUS
    <3> QED
      BY <1>1, <3>1, <3>2 DEF IsWord
  <2>2. p = [key |-> p.key, word |-> p.word]
    BY DEF IsPart
  <2>3. q = [p EXCEPT !.word.name = Capital[@]]
    BY <1>1 DEF Upper
  <2>4. q.word.name = Capital[p.word.name]
    BY <2>1, <2>2, <2>3
  <2>5. Capital[p.word.name] \in Range(Capital)
    BY <1>1 DEF Range
  <2>6. q.word.name \notin DOMAIN Capital
    BY <2>4, <2>5, RoomAssumption
  <2> HIDE DEF q
  <2>7. Upper(q) = q
    BY <2>6 DEF Upper
  <2> QED
    BY <2>7 DEF q
<1>2. CASE ~(p.word.kind = "name" /\ p.word.name \in DOMAIN Capital)
  BY <1>2 DEF Upper
<1> QED
  BY <1>1, <1>2

LEMMA ToUpperIs ==
  ASSUME NEW t, IsValue(t)
  PROVE  /\ ToUpper(ToUpper(t)) = ToUpper(t) /\ ToUpper(t) \in Seq(Range(ToUpper(t)))
         /\ Len(ToUpper(t)) = Len(t)
<1> DEFINE u == ToUpper(t)
<1>1. \A x : ToUpper(x) = [i \in DOMAIN x |-> Upper(x[i])]
  BY DEF ToUpper, InCase, Upper
<1>2. u = [i \in 1..Len(t) |-> Upper(t[i])]
  BY <1>1, ValuesAre
<1> HIDE DEF u
<1>3. DOMAIN u = 1..Len(t)
  BY <1>2
<1>4. ToUpper(u) = [i \in 1..Len(t) |-> Upper(u[i])]
  BY <1>1, <1>3
<1>5. \A i \in 1..Len(t) : Upper(u[i]) = Upper(t[i])
  BY <1>2, UpperIs, ValuesAre
<1>6. ToUpper(u) = u
  BY <1>2, <1>4, <1>5
<1>7. u \in [1..Len(t) -> Range(u)]
  BY <1>2, <1>3 DEF Range
<1>8. u \in Seq(Range(u)) /\ Len(u) = Len(t)
  BY <1>7, FunctionIsSeq, ValuesAre
<1> QED
  BY <1>6, <1>8 DEF u

(* One list behind another.                                                *)
LEMMA ListsJoin ==
  ASSUME NEW x, NEW y, x \in Seq(Range(x)), y \in Seq(Range(y))
  PROVE  /\ x \o y \in Seq(Range(x \o y))
         /\ ToUpper(x) = x /\ ToUpper(y) = y => ToUpper(x \o y) = x \o y
<1> DEFINE z == x \o y
           m == Len(x)
           n == Len(y)
<1>1. /\ m \in Nat /\ n \in Nat /\ Len(z) = m + n /\ DOMAIN x = 1..m /\ DOMAIN y = 1..n
      /\ \A i \in 1..(m + n) : z[i] = IF i <= m THEN x[i] ELSE y[i - m]
      /\ DOMAIN z = 1..(m + n)
  OBVIOUS
<1>2. z = [i \in 1..(m + n) |-> z[i]]
  <2> DEFINE S == Range(x) \cup Range(y)
  <2>1. x \in Seq(S) /\ y \in Seq(S)
    OBVIOUS
  <2> HIDE DEF S
  <2>2. z \in Seq(S)
    BY <2>1
  <2> HIDE DEF z
  <2> QED
    BY <1>1, <2>2
<1> HIDE DEF z, m, n
<1>3. z \in [1..(m + n) -> Range(z)]
  BY <1>1, <1>2 DEF Range
<1>4. z \in Seq(Range(z))
  BY <1>1, <1>3, FunctionIsSeq
<1>5. ASSUME ToUpper(x) = x, ToUpper(y) = y
      PROVE  ToUpper(z) = z
  <2>1. \A v : ToUpper(v) = [i \in DOMAIN v |-> Upper(v[i])]
    BY DEF ToUpper, InCase, Upper
  <2>2. \A i \in 1..m : Upper(x[i]) = x[i]
    BY <1>1, <1>5, <2>1
  <2>3. \A i \in 1..n : Upper(y[i]) = y[i]
    BY <1>1, <1>5, <2>1
  <2>4. \A i \in 1..(m + n) : Upper(z[i]) = z[i]
    <3> TAKE i \in 1..(m + n)
    <3>1. CASE i <= m
      BY <1>1, <2>2, <3>1
    <3>2. CASE ~(i <= m)
      <4>1. i - m \in 1..n
        BY <1>1, <3>2
      <4> QED
        BY <1>1, <2>3, <3>2, <4>1
    <3> QED
      BY <3>1, <3>2
  <2>5. ToUpper(z) = [i \in 1..(m + n) |-> Upper(z[i])]
    BY <1>1, <2>1
  <2> QED
    BY <1>2, <2>4, <2>5
<1> QED
  BY <1>4, <1>5 DEF z

LEMMA NumbersAreInt64 ==
  /\ 0 \in Int64 /\ \A n \in Int : Clamp(n) \in Int64 /\ Wrap(n) \in Int64
  /\ \A u : Multiplier(u) \in Int
<1>1. MaxInt \in Nat /\ Kilo \in Nat
  BY ConfigAssumption
<1>2. \A n \in Int : Clamp(n) \in Int64
  BY <1>1 DEF Clamp, Int64
<1>3. ASSUME NEW n \in Int
      PROVE  Wrap(n) \in Int64
  <2>1. (n + MaxInt + 1) % (2 * MaxInt + 2) \in 0..(2 * MaxInt + 1)
    BY <1>1
  <2> QED
    BY <1>1, <2>1 DEF Wrap, Int64
<1>4. \A u : Multiplier(u) \in Int
  <2>1. Kilo \in Int /\ Kilo * Kilo \in Int /\ Kilo * Kilo * Kilo \in Int
    BY <1>1
  <2> QED
    BY <2>1 DEF Multiplier
<1> QED
  BY <1>1, <1>2, <1>3, <1>4 DEF Int64

(* What Parse() makes of a value is a field.                               *)
LEMMA ConvertedIsField ==
  ASSUME NEW kind \in Kinds, NEW t, MayStand(t), NEW old, IsField(kind, old)
  PROVE  IsField(kind, Converted(kind, t, old))
<1>0. IsValue(t)
  BY DEF MayStand
<1>word. ASSUME NEW i \in 1..Len(t), t[i].word.kind = "number"
         PROVE  t[i].word.n \in Int
  <2>1. IsWord(t[i].word)
    BY <1>0, ValuesAre DEF IsPart
  <2>2. "name" # "number"
    OBVIOUS
  <2> QED
    BY <1>word, <2>1, <2>2 DEF IsWord
<1>1. CASE kind = "text"
  BY <1>1 DEF IsField
<1>2. CASE kind = "bool"
  <2>1. ParseBool(t) \in BOOLEAN
    BY DEF ParseBool
  <2>2. Converted(kind, t, old) = ParseBool(t)
    BY <1>2 DEF Converted
  <2>3. \A v : IsField(kind, v) <=> v \in BOOLEAN
    BY <1>2 DEF IsField, Values
  <2> QED
    BY <2>1, <2>2, <2>3
<1>3. CASE kind = "int"
  <2>1. Atoi(t) \in Int64
    <3>1. CASE Len(t) = 1 /\ IsInt(t[1].word)
      <4>0. t[1].word.kind = "number"
        BY <3>1 DEF IsInt
      <4>1. t[1].word.n \in Int
        BY <1>word, <3>1, <4>0
      <4> QED
        BY <3>1, <4>1, NumbersAreInt64 DEF Atoi
    <3>2. CASE ~(Len(t) = 1 /\ IsInt(t[1].word))
      BY <3>2, NumbersAreInt64 DEF Atoi
    <3> QED
      BY <3>1, <3>2
  <2> QED
    BY <1>3, <2>1 DEF Converted, IsField, Values
<1>4. CASE kind = "bytes"
  <2>1. ParseBytes(t) \in Int64
    <3>1. CASE Len(t) = 1 /\ t[1].word.kind = "number"
      <4> DEFINE m == Clamp(t[1].word.n) * Multiplier(t[1].word.unit)
      <4>1. t[1].word.n \in Int
        BY <1>word, <3>1
      <4>2. m \in Int
        BY <4>1, NumbersAreInt64 DEF Int64
      <4>3. ParseBytes(t) = Wrap(m)
        BY <3>1 DEF ParseBytes
      <4> HIDE DEF m
      <4> QED
        BY <4>2, <4>3, NumbersAreInt64
    <3>2. CASE ~(Len(t) = 1 /\ t[1].word.kind = "number")
      BY <3>2, NumbersAreInt64 DEF ParseBytes
    <3> QED
      BY <3>1, <3>2
  <2> QED
    BY <1>4, <2>1 DEF Converted, IsField, Values
<1>5. CASE kind = "policy"
  <2>1. old \in {"always", "never", "on-failure"}
    BY <1>5 DEF IsField, Values
  <2>2. \A w \in DOMAIN Policies : Policies[w] \in {"always", "never", "on-failure"}
    BY DEF Policies
  <2>3. ParsePolicy(t, old) \in {"always", "never", "on-failure"}
    BY <2>1, <2>2 DEF ParsePolicy
  <2> QED
    BY <1>5, <2>3 DEF Converted, IsField, Values
<1>6. CASE kind = "upper"
  BY <1>0, <1>6, ToUpperIs DEF Converted, IsField
<1>7. CASE kind = "list"
  BY <1>0, <1>7, ListsJoin, ValuesAre DEF Converted, IsField
<1>8. CASE kind = "LIST"
  BY <1>0, <1>8, ListsJoin, ToUpperIs DEF Converted, IsField
<1>9. CASE kind = "ints"
  <2> DEFINE I == {i \in DOMAIN t :
                     t[i].key = "" /\ IsInt(t[i].word) /\ t[i].word.n = Clamp(t[i].word.n)}
             ints == Picked(t, I)
             n == Cardinality(I)
  <2>1. I \in SUBSET (1..Len(t)) /\ Len(t) \in Nat
    BY <1>0, ValuesAre
  <2>2. \A i \in I : t[i].word.n \in Int64
    <3> TAKE i \in I
    <3>1. i \in 1..Len(t) /\ t[i].word.kind = "number" /\ t[i].word.n = Clamp(t[i].word.n)
      BY <2>1 DEF IsInt
    <3>2. t[i].word.n \in Int
      BY <1>word, <3>1
    <3>3. Clamp(t[i].word.n) \in Int64
      BY <3>2, NumbersAreInt64
    <3> QED
      BY <3>1, <3>3
  <2>3. ParseIntList(t) = [i \in DOMAIN ints |-> ints[i].word.n]
    BY DEF ParseIntList
  <2> HIDE DEF I, ints
  <2>4. n \in Nat /\ DOMAIN ints = 1..n /\ \A m \in 1..n : \E i \in I : ints[m] = t[i]
    BY <2>1, PickedIs DEF ints
  <2> HIDE DEF n
  <2>5. ParseIntList(t) \in [1..n -> Int64]
    BY <2>2, <2>3, <2>4
  <2>6. ParseIntList(t) \in Seq(Int64)
    BY <2>4, <2>5, FunctionIsSeq
  <2> QED
    BY <1>9, <2>6 DEF Converted, IsField
<1>10. CASE kind = "env"
  <2> DEFINE e == ParseEnvironment(t)
             D == {t[i].key : i \in DOMAIN t} \ {""}
  <2>1. e = [k \in D |-> t[SelectLastInSeq(t, LAMBDA p : p.key = k)].word]
    BY DEF ParseEnvironment
  <2> HIDE DEF e
  <2>2. DOMAIN e = D /\ e = [k \in DOMAIN e |-> e[k]]
    BY <2>1
  <2>3. D \subseteq Range(Names) \ {""}
    <3>1. \A i \in DOMAIN t : t[i] \in Range(t)
      BY <1>0, ValuesAre
    <3>2. {t[i].key : i \in DOMAIN t} \subseteq {p.key : p \in Range(t)}
      BY <3>1
    <3> QED
      BY <3>2 DEF MayStand
  <2> QED
    BY <1>10, <2>2, <2>3 DEF Converted, IsField, e
<1> QED
  BY <1>1, <1>2, <1>3, <1>4, <1>5, <1>6, <1>7, <1>8, <1>9, <1>10 DEF Kinds

(* The environment: every variable is written once, in the order of names. *)
LEMMA EnvironmentRoundTrip ==
  ASSUME NEW e, IsField("env", e),
         \A k \in DOMAIN e : e[k] = escapeEnvValue(e[k])
  PROVE  ParseEnvironment(formatEnvironment(e)) = e
<1> DEFINE D == DOMAIN e
           keys == Sorted(D)
           t == formatEnvironment(e)
           n == Len(keys)
<1>1. n \in Nat /\ DOMAIN keys = 1..n /\ Range(keys) = D
  <2>1. D \subseteq Range(Names)
    BY DEF IsField
  <2> HIDE DEF D
  <2>2. keys \in Seq(D) /\ Range(keys) = D
    BY <2>1, SortedIs
  <2> HIDE DEF keys
  <2> QED
    BY <2>2
<1>2. t = [i \in 1..n |-> [key |-> keys[i], word |-> escapeEnvValue(e[keys[i]])]]
  BY <1>1 DEF formatEnvironment
<1>name. D \subseteq Range(Names) \ {""}
  BY DEF IsField
<1>self. e = [k \in D |-> e[k]]
  BY DEF IsField
<1>same. \A k \in D : e[k] = escapeEnvValue(e[k])
  OBVIOUS
<1> HIDE DEF D, keys, t, n
<1>3. /\ t \in Seq(Range(t)) /\ Len(t) = n /\ DOMAIN t = 1..n
      /\ \A i \in 1..n : /\ keys[i] \in D /\ t[i].key = keys[i]
                         /\ t[i].word = e[keys[i]]
  <2>1. t \in [1..n -> Range(t)] /\ DOMAIN t = 1..n
    BY <1>2 DEF Range
  <2>2. \A i \in 1..n : keys[i] \in D
    BY <1>1 DEF Range
  <2>3. \A i \in 1..n : t[i].key = keys[i] /\ t[i].word = escapeEnvValue(e[keys[i]])
    BY <1>2
  <2> QED
    BY <1>1, <1>same, <2>1, <2>2, <2>3, FunctionIsSeq
<1>4. {t[i].key : i \in DOMAIN t} = D
  <2>1. \A k \in D : \E i \in 1..n : keys[i] = k
    BY <1>1 DEF Range
  <2> QED
    BY <1>3, <2>1
<1>5. ASSUME NEW k \in D
      PROVE  t[SelectLastInSeq(t, LAMBDA p : p.key = k)].word = e[k]
  <2> DEFINE I == {i \in 1..Len(t) : t[i].key = k}
  <2>1. I # {} /\ I \subseteq 1..n
    <3>1. \E i \in 1..n : t[i].key = k
      BY <1>3, <1>4
    <3> QED
      BY <1>3, <3>1
  <2>2. SelectLastInSeq(t, LAMBDA p : p.key = k) = Max(I)
    BY <2>1 DEF SelectLastInSeq
  <2>3. Max(I) \in I
    <3> HIDE DEF I
    <3> DEFINE up == {j \in 0..n : \E i \in I : i >= n - j}
    <3>1. PICK j \in up : \A h \in up : j <= h
      <4>1. up \subseteq Nat
        BY <1>1
      <4>2. PICK i \in I : i \in 1..n
        BY <2>1
      <4>3. n \in 0..n /\ i >= n - n
        BY <1>1, <4>2
      <4>4. n \in up
        BY <4>3
      <4> HIDE DEF up
      <4> QED
        BY <4>1, <4>4, Least
    <3>2. PICK i \in I : i >= n - j
      OBVIOUS
    <3>3. ASSUME NEW x \in I
          PROVE  i >= x
      <4>1. x \in 1..n /\ i \in 1..n /\ j \in 0..n
        BY <2>1
      <4>2. n - x \in 0..n /\ x >= n - (n - x)
        BY <1>1, <4>1
      <4>3. n - x \in up
        BY <4>2
      <4> HIDE DEF up
      <4>4. j <= n - x
        BY <3>1, <4>3
      <4> QED
        BY <1>1, <3>2, <4>1, <4>4
    <3> QED
      BY <3>3 DEF Max
  <2> QED
    BY <1>3, <2>2, <2>3
<1>6. D \ {""} = D
  BY <1>name
<1>7. ParseEnvironment(t) = [k \in D |-> e[k]]
  BY <1>4, <1>5, <1>6 DEF ParseEnvironment
<1> QED
  BY <1>7, <1>self DEF t

(* What the converter writes for a field, of whatever kind, Parse() reads  *)
(* back as that field: variables if they hold no quote, and lists, which   *)
(* are appended to, when nothing was there (main.go:609-681 and            *)
(* config.go:426-492).                                                     *)
THEOREM FieldRoundTrip ==
  ASSUME NEW kind \in Kinds, NEW v, IsField(kind, v), NEW old,
         kind \in {"list", "LIST"} => old = <<>>,
         kind = "env" => \A k \in DOMAIN v : v[k] = escapeEnvValue(v[k])
  PROVE  Converted(kind, Rendered(kind, v), old) = v
<1>1. CASE kind \in {"bool", "int", "bytes", "policy"}
  <2>1. v \in Values(kind)
    BY <1>1 DEF IsField
  <2> QED
    BY <1>1, <2>1, ScalarsRoundTrip
<1>2. CASE kind = "text"
  BY <1>2 DEF Converted, Rendered
<1>3. CASE kind = "upper"
  BY <1>3 DEF Converted, Rendered, IsField
<1>4. CASE kind = "list"
  <2>1. v \in Seq(Range(v)) /\ old = <<>>
    BY <1>4 DEF IsField
  <2>2. <<>> \o v = v
    BY <2>1, ConcatEmptySeq
  <2> QED
    BY <1>4, <2>1, <2>2 DEF Converted, Rendered
<1>5. CASE kind = "LIST"
  <2>1. v \in Seq(Range(v)) /\ old = <<>> /\ ToUpper(v) = v
    BY <1>5 DEF IsField
  <2>2. <<>> \o v = v
    BY <2>1, ConcatEmptySeq
  <2> QED
    BY <1>5, <2>1, <2>2 DEF Converted, Rendered
<1>6. CASE kind = "ints"
  <2> DEFINE t == joinInts(v)
             n == Len(v)
             I == {i \in DOMAIN t :
                     t[i].key = "" /\ IsInt(t[i].word) /\ t[i].word.n = Clamp(t[i].word.n)}
  <2>1. v \in Seq(Int64)
    BY <1>6 DEF IsField
  <2>2. /\ n \in Nat /\ DOMAIN v = 1..n /\ \A i \in 1..n : v[i] \in Int64
        /\ v = [i \in 1..n |-> v[i]]
    BY <2>1
  <2>3. /\ t = [i \in 1..n |-> [key |-> "", word |-> Number(v[i], "")]]
        /\ DOMAIN t = 1..n /\ \A i \in 1..n : t[i].key = "" /\ t[i].word = Number(v[i], "")
    BY <2>2 DEF joinInts
  <2> HIDE DEF t, n
  <2>4. \A i \in 1..n : /\ IsInt(t[i].word) /\ t[i].word.n = v[i]
                        /\ Clamp(v[i]) = v[i]
    BY <2>2, <2>3, WrapKeeps DEF IsInt, Number
  <2>5. I = 1..n
    BY <2>3, <2>4
  <2>6. Picked(t, I) = [m \in 1..n |-> t[m]]
    BY <2>2, <2>5, PickedAll
  <2>7. ParseIntList(t) = [i \in DOMAIN Picked(t, I) |-> Picked(t, I)[i].word.n]
    BY DEF ParseIntList
  <2> HIDE DEF I
  <2>8. ParseIntList(t) = [i \in 1..n |-> v[i]]
    BY <2>4, <2>6, <2>7
  <2> QED
    BY <1>6, <2>2, <2>8 DEF Converted, Rendered, t
<1>7. CASE kind = "env"
  BY <1>7, EnvironmentRoundTrip DEF Converted, Rendered
<1> QED
  BY <1>1, <1>2, <1>3, <1>4, <1>5, <1>6, <1>7 DEF Kinds
-----------------------------------------------------------------------------
(* The tables: what a key is converted to, what it is when it is missing.  *)
Table(keys, none) ==
  /\ IsFiniteSet(DOMAIN keys) /\ "" \notin DOMAIN keys /\ AreFields(keys, none)
  /\ \A k \in DOMAIN keys :
       /\ keys[k] \in Kinds
       /\ keys[k] \in {"list", "LIST"} => none[k] = <<>>
       /\ keys[k] = "env" => k = "environment"
       /\ k \in Optional => \A v : Unset(keys[k], v) => v = none[k]

LEMMA SevenAreFinite ==
  ASSUME NEW a, NEW b, NEW c, NEW d, NEW e, NEW f, NEW g
  PROVE  IsFiniteSet({a, b, c, d, e, f, g})
<1>1. ASSUME NEW S, IsFiniteSet(S), NEW x, NEW y, NEW z
      PROVE  IsFiniteSet(S \cup {x, y, z})
  <2>1. IsFiniteSet({x}) /\ IsFiniteSet({y}) /\ IsFiniteSet({z})
    BY FS_Singleton
  <2>2. IsFiniteSet(S \cup {x})
    BY <1>1, <2>1, FS_Union
  <2>3. IsFiniteSet((S \cup {x}) \cup {y})
    BY <2>1, <2>2, FS_Union
  <2>4. IsFiniteSet(((S \cup {x}) \cup {y}) \cup {z})
    BY <2>1, <2>3, FS_Union
  <2>5. ((S \cup {x}) \cup {y}) \cup {z} = S \cup {x, y, z}
    OBVIOUS
  <2> QED
    BY <2>4, <2>5
<1>2. IsFiniteSet({a})
  BY FS_Singleton
<1>3. IsFiniteSet({a} \cup {b, c, d})
  BY <1>1, <1>2
<1>4. IsFiniteSet(({a} \cup {b, c, d}) \cup {e, f, g})
  BY <1>1, <1>3
<1>5. ({a} \cup {b, c, d}) \cup {e, f, g} = {a, b, c, d, e, f, g}
  OBVIOUS
<1> QED
  BY <1>4, <1>5

LEMMA UnionOfThree ==
  ASSUME NEW S, NEW T, NEW U, IsFiniteSet(S), IsFiniteSet(T), IsFiniteSet(U)
  PROVE  IsFiniteSet((S \cup T) \cup U)
<1>1. IsFiniteSet(S \cup T)
  BY FS_Union
<1> QED
  BY <1>1, FS_Union

LEMMA FieldKinds ==
  /\ \A v : IsField("text", v)
  /\ \A v : IsField("bool", v) <=> v \in BOOLEAN
  /\ \A v : IsField("int", v) <=> v \in Int64
  /\ \A v : IsField("bytes", v) <=> v \in Int64
  /\ \A v : IsField("policy", v) <=> v \in {"always", "never", "on-failure"}
BY DEF IsField, Values

LEMMA SmallNumbers == {0, 1, 3, 10, 200, 999, 1024, 9876} \subseteq Int64
BY ConfigAssumption, RoomAssumption DEF Int64

LEMMA SizeDefault == IsField("bytes", 50 * Kilo * Kilo)
<1> DEFINE m == 50 * Kilo * Kilo
<1>1. MaxInt \in Nat /\ Kilo \in Nat
  BY ConfigAssumption
<1>2. m \in Nat /\ m <= MaxInt
  BY <1>1, RoomAssumption
<1> HIDE DEF m
<1>3. m \in Int64
  BY <1>1, <1>2 DEF Int64
<1> QED
  BY <1>3, FieldKinds DEF m

LEMMA SignalDefault == IsField("upper", Text(Name("TERM")))
<1> DEFINE p == [key |-> "", word |-> Name("TERM")]
           t == <<p>>
<1>1. t = Text(Name("TERM"))
  BY DEF Text
<1>2. p.word.name = "TERM"
  BY DEF Name
<1> HIDE DEF p
<1>3. Upper(p) = p
  BY <1>2, RoomAssumption DEF Upper
<1>4. DOMAIN t = {1} /\ t[1] = p /\ t \in Seq({p})
  OBVIOUS
<1> HIDE DEF t
<1>5. t = [i \in {1} |-> t[i]]
  BY <1>4
<1>6. ToUpper(t) = [i \in {1} |-> Upper(t[i])]
  BY <1>4 DEF ToUpper, InCase, Upper
<1>7. ToUpper(t) = t
  BY <1>3, <1>4, <1>5, <1>6
<1> QED
  BY <1>1, <1>7 DEF IsField

LEMMA ListDefaults ==
  /\ IsField("ints", <<0>>) /\ IsField("list", <<>>)
  /\ IsField("LIST", <<>>) /\ IsField("env", <<>>)
<1>1. IsField("ints", <<0>>)
  <2>1. <<0>> \in Seq(Int64)
    BY NumbersAreInt64
  <2> QED
    BY <2>1 DEF IsField
<1> DEFINE none == <<>>
<1>2. DOMAIN none = {} /\ none = [k \in {} |-> none[k]] /\ none \in Seq({})
  BY EmptyDomain
<1>3. Range(none) = {} /\ ToUpper(none) = [i \in {} |-> Upper(none[i])]
  BY <1>2 DEF Range, ToUpper, InCase, Upper
<1> HIDE DEF none
<1>4. ToUpper(none) = none
  BY <1>2, <1>3
<1>5. IsField("list", none) /\ IsField("LIST", none)
  BY <1>2, <1>3, <1>4 DEF IsField
<1>6. IsField("env", none)
  BY <1>2 DEF IsField
<1> QED
  BY <1>1, <1>5, <1>6 DEF none

LEMMA UnsetIs ==
  /\ \A v : Unset("int", v) <=> v = 0
  /\ \A kind \in Kinds \ {"int"} : \A v : Unset(kind, v) <=> v = <<>>
BY DEF Unset, Kinds

LEMMA SupervisorTable == Table(SupervisorKeys, defaultSupervisorConfig)
<1> DEFINE keys == SupervisorKeys
           none == defaultSupervisorConfig
           A == {"logfile", "loglevel", "pidfile", "nodaemon",
                 "minfds", "minprocs", "identifier"}
           B == {"socket_path", "socket_mode", "http_port", "http_host",
                 "http_auth", "http_auth_token", "logfile"}
           C == {"logfile", "logfile", "logfile", "logfile",
                 "logfile", "logfile", "logfile"}
<1>1. DOMAIN keys = A \cup B \cup C /\ "" \notin DOMAIN keys
  BY DEF SupervisorKeys
<1>2. IsFiniteSet(DOMAIN keys)
  <2>1. IsFiniteSet(A) /\ IsFiniteSet(B) /\ IsFiniteSet(C)
    BY SevenAreFinite
  <2> HIDE DEF A, B, C, keys
  <2>2. IsFiniteSet((A \cup B) \cup C)
    BY <2>1, UnionOfThree
  <2> QED
    BY <1>1, <2>2
<1>3. none = [k \in DOMAIN keys |-> none[k]]
  <2> DEFINE D == DOMAIN none
             R == Range(none)
  <2>1. none \in [D -> R]
    BY DEF defaultSupervisorConfig, Range
  <2>2. D = DOMAIN keys
    BY DEF defaultSupervisorConfig, SupervisorKeys
  <2> HIDE DEF none, keys, D, R
  <2>3. none = [k \in D |-> none[k]]
    BY <2>1
  <2> QED
    BY <2>2, <2>3
<1>4. \A k \in DOMAIN keys :
        \/ keys[k] = "text"
        \/ keys[k] = "bool" /\ k = "nodaemon"
        \/ keys[k] = "int" /\ k \in {"minfds", "minprocs", "http_port"}
  BY DEF SupervisorKeys
<1>5. /\ none.nodaemon \in BOOLEAN
      /\ none.minfds = 1024 /\ none.minprocs = 200 /\ none.http_port = 9876
  BY DEF defaultSupervisorConfig, Empty
<1>6. \A k \in DOMAIN keys \cap Optional : keys[k] = "text" /\ none[k] = <<>>
  <2>1. \A k \in DOMAIN keys \cap Optional : k \in {"http_auth", "http_auth_token"}
    BY DEF SupervisorKeys, Optional
  <2>2. keys.http_auth = "text" /\ keys.http_auth_token = "text"
    BY DEF SupervisorKeys
  <2>3. none.http_auth = <<>> /\ none.http_auth_token = <<>>
    BY DEF defaultSupervisorConfig, Empty
  <2> HIDE DEF keys, none
  <2> QED
    BY <2>1, <2>2, <2>3
<1> HIDE DEF keys, none, A, B, C
<1>7. ASSUME NEW k \in DOMAIN keys
      PROVE  IsField(keys[k], none[k])
  <2>1. CASE keys[k] = "text"
    BY <2>1, FieldKinds
  <2>2. CASE keys[k] = "bool"
    BY <1>4, <1>5, <2>2, FieldKinds
  <2>3. CASE keys[k] = "int"
    <3>1. none[k] \in {1024, 200, 9876}
      BY <1>4, <1>5, <2>3
    <3>2. none[k] \in Int64
      BY <3>1, SmallNumbers
    <3> QED
      BY <2>3, <3>2, FieldKinds
  <2> QED
    BY <1>4, <2>1, <2>2, <2>3
<1>8. \A k \in DOMAIN keys :
        /\ keys[k] \in Kinds /\ keys[k] \notin {"list", "LIST"} /\ keys[k] # "env"
        /\ k \in Optional => \A v : Unset(keys[k], v) => v = none[k]
  BY <1>4, <1>6, UnsetIs DEF Kinds
<1>9. Table(keys, none)
  BY <1>1, <1>2, <1>3, <1>7, <1>8 DEF Table, AreFields
<1> QED
  BY <1>9 DEF keys, none

LEMMA EmailTable == Table(EmailKeys, noEmailConfig)
<1> DEFINE keys == EmailKeys
           none == noEmailConfig
           A == {"enabled", "smtp_host", "smtp_port", "username",
                 "password", "from", "recipients"}
           B == {"use_tls", "notify_on", "enabled", "enabled",
                 "enabled", "enabled", "enabled"}
           C == {"enabled", "enabled", "enabled", "enabled",
                 "enabled", "enabled", "enabled"}
<1>1. DOMAIN keys = A \cup B \cup C /\ "" \notin DOMAIN keys
  BY DEF EmailKeys
<1>2. IsFiniteSet(DOMAIN keys)
  <2>1. IsFiniteSet(A) /\ IsFiniteSet(B) /\ IsFiniteSet(C)
    BY SevenAreFinite
  <2> HIDE DEF A, B, C, keys
  <2>2. IsFiniteSet((A \cup B) \cup C)
    BY <2>1, UnionOfThree
  <2> QED
    BY <1>1, <2>2
<1>3. none = [k \in DOMAIN keys |-> none[k]]
  <2> DEFINE D == DOMAIN none
             R == Range(none)
  <2>1. none \in [D -> R]
    BY DEF noEmailConfig, Range
  <2>2. D = DOMAIN keys
    BY DEF noEmailConfig, EmailKeys
  <2> HIDE DEF none, keys, D, R
  <2>3. none = [k \in D |-> none[k]]
    BY <2>1
  <2> QED
    BY <2>2, <2>3
<1>4. \A k \in DOMAIN keys :
        \/ keys[k] = "text" /\ k \in {"smtp_host", "username", "password", "from"}
        \/ keys[k] = "bool" /\ k \in {"enabled", "use_tls"}
        \/ keys[k] = "int" /\ k = "smtp_port"
        \/ keys[k] = "list" /\ k = "recipients"
        \/ keys[k] = "LIST" /\ k = "notify_on"
  BY DEF EmailKeys
<1>5. /\ none.enabled \in BOOLEAN /\ none.use_tls \in BOOLEAN
      /\ none.smtp_port = 0 /\ none.recipients = <<>> /\ none.notify_on = <<>>
  BY DEF noEmailConfig, Empty
<1>6. \A k \in DOMAIN keys \cap Optional :
        k # "enabled" /\ k # "use_tls" /\ (k # "smtp_port" => none[k] = <<>>)
  BY DEF EmailKeys, noEmailConfig, Optional, Empty
<1> HIDE DEF keys, none, A, B, C
<1>7. ASSUME NEW k \in DOMAIN keys
      PROVE  IsField(keys[k], none[k])
  <2>1. CASE keys[k] = "text"
    BY <2>1, FieldKinds
  <2>2. CASE keys[k] = "bool"
    BY <1>4, <1>5, <2>2, FieldKinds
  <2>3. CASE keys[k] = "int"
    <3>1. none[k] \in {0}
      BY <1>4, <1>5, <2>3
    <3>2. none[k] \in Int64
      BY <3>1, SmallNumbers
    <3> QED
      BY <2>3, <3>2, FieldKinds
  <2>4. CASE keys[k] = "list"
    <3>1. none[k] = <<>>
      BY <1>4, <1>5, <2>4
    <3> QED
      BY <2>4, <3>1, ListDefaults
  <2>5. CASE keys[k] = "LIST"
    <3>1. none[k] = <<>>
      BY <1>4, <1>5, <2>5
    <3> QED
      BY <2>5, <3>1, ListDefaults
  <2> QED
    BY <1>4, <2>1, <2>2, <2>3, <2>4, <2>5
<1>8. \A k \in DOMAIN keys :
        /\ keys[k] \in Kinds /\ keys[k] # "env"
        /\ keys[k] \in {"list", "LIST"} => none[k] = <<>>
        /\ k \in Optional => \A v : Unset(keys[k], v) => v = none[k]
  <2> SUFFICES ASSUME NEW k \in DOMAIN keys
               PROVE  /\ keys[k] \in Kinds /\ keys[k] # "env"
                      /\ keys[k] \in {"list", "LIST"} => none[k] = <<>>
                      /\ k \in Optional => \A v : Unset(keys[k], v) => v = none[k]
    OBVIOUS
  <2>1. keys[k] \in Kinds /\ keys[k] # "env"
    BY <1>4 DEF Kinds
  <2>2. keys[k] \in {"list", "LIST"} => none[k] = <<>>
    BY <1>4, <1>5
  <2>3. ASSUME k \in Optional, NEW v, Unset(keys[k], v)
        PROVE  v = none[k]
    <3>1. CASE k = "smtp_port"
      <4>1. keys[k] = "int" /\ none[k] = 0
        BY <1>4, <1>5, <3>1
      <4> QED
        BY <2>3, <4>1, UnsetIs
    <3>2. CASE k # "smtp_port"
      <4>1. keys[k] # "int" /\ none[k] = <<>>
        BY <1>4, <1>6, <2>3, <3>2
      <4> QED
        BY <2>1, <2>3, <4>1, UnsetIs
    <3> QED
      BY <3>1, <3>2
  <2> QED
    BY <2>1, <2>2, <2>3
<1>9. Table(keys, none)
  BY <1>1, <1>2, <1>3, <1>7, <1>8 DEF Table, AreFields
<1> QED
  BY <1>9 DEF keys, none

LEMMA GroupTable == Table(GroupKeys, noGroupConfig)
<1> DEFINE keys == GroupKeys
           none == noGroupConfig
           A == {"programs", "priority", "programs", "programs",
                 "programs", "programs", "programs"}
           B == {"programs", "programs", "programs", "programs",
                 "programs", "programs", "programs"}
           C == {"programs", "programs", "programs", "programs",
                 "programs", "programs", "programs"}
<1>1. DOMAIN keys = A \cup B \cup C /\ "" \notin DOMAIN keys
  BY DEF GroupKeys
<1>2. IsFiniteSet(DOMAIN keys)
  <2>1. IsFiniteSet(A) /\ IsFiniteSet(B) /\ IsFiniteSet(C)
    BY SevenAreFinite
  <2> HIDE DEF A, B, C, keys
  <2>2. IsFiniteSet((A \cup B) \cup C)
    BY <2>1, UnionOfThree
  <2> QED
    BY <1>1, <2>2
<1>3. none = [k \in DOMAIN keys |-> none[k]]
  <2> DEFINE D == DOMAIN none
             R == Range(none)
  <2>1. none \in [D -> R]
    BY DEF noGroupConfig, Range
  <2>2. D = DOMAIN keys
    BY DEF noGroupConfig, GroupKeys
  <2> HIDE DEF none, keys, D, R
  <2>3. none = [k \in D |-> none[k]]
    BY <2>1
  <2> QED
    BY <2>2, <2>3
<1>4. \A k \in DOMAIN keys :
        \/ keys[k] = "list" /\ k = "programs"
        \/ keys[k] = "int" /\ k = "priority"
  BY DEF GroupKeys
<1>5. /\ none.programs = <<>>
      /\ none.priority = 0
  BY DEF noGroupConfig, Empty
<1>6. DOMAIN keys \cap Optional = {}
  BY DEF GroupKeys, Optional
<1> HIDE DEF keys, none, A, B, C
<1>7. ASSUME NEW k \in DOMAIN keys
      PROVE  IsField(keys[k], none[k])
  <2>1. CASE keys[k] = "list"
    <3>1. none[k] = <<>>
      BY <1>4, <1>5, <2>1
    <3> QED
      BY <2>1, <3>1, ListDefaults
  <2>2. CASE keys[k] = "int"
    <3>1. none[k] \in {0}
      BY <1>4, <1>5, <2>2
    <3>2. none[k] \in Int64
      BY <3>1, SmallNumbers
    <3> QED
      BY <2>2, <3>2, FieldKinds
  <2> QED
    BY <1>4, <2>1, <2>2
<1>8. \A k \in DOMAIN keys :
        /\ keys[k] \in Kinds /\ keys[k] # "env" /\ k \notin Optional
        /\ keys[k] \in {"list", "LIST"} => none[k] = <<>>
  BY <1>4, <1>5, <1>6 DEF Kinds
<1>9. Table(keys, none)
  BY <1>1, <1>2, <1>3, <1>7, <1>8 DEF Table, AreFields
<1> QED
  BY <1>9 DEF keys, none

LEMMA ProgramTable == Table(ProgramKeys, defaultProcessConfig)
<1> DEFINE keys == ProgramKeys
           none == defaultProcessConfig
           A == {"command", "directory", "user", "autostart",
                 "autorestart", "startsecs", "startretries"}
           B == {"stopsignal", "stopwaitsecs", "exitcodes", "priority",
                 "numprocs", "numprocs_start", "stdout_logfile"}
           C == {"stderr_logfile", "stdout_logfile_maxbytes", "stderr_logfile_maxbytes", "stdout_logfile_backups",
                 "stderr_logfile_backups", "redirect_stderr", "environment"}
<1>1. DOMAIN keys = A \cup B \cup C /\ "" \notin DOMAIN keys
  BY DEF ProgramKeys
<1>2. IsFiniteSet(DOMAIN keys)
  <2>1. IsFiniteSet(A) /\ IsFiniteSet(B) /\ IsFiniteSet(C)
    BY SevenAreFinite
  <2> HIDE DEF A, B, C, keys
  <2>2. IsFiniteSet((A \cup B) \cup C)
    BY <2>1, UnionOfThree
  <2> QED
    BY <1>1, <2>2
<1>3. none = [k \in DOMAIN keys |-> none[k]]
  <2> DEFINE D == DOMAIN none
             R == Range(none)
  <2>1. none \in [D -> R]
    BY DEF defaultProcessConfig, Range
  <2>2. D = DOMAIN keys
    BY DEF defaultProcessConfig, ProgramKeys
  <2> HIDE DEF none, keys, D, R
  <2>3. none = [k \in D |-> none[k]]
    BY <2>1
  <2> QED
    BY <2>2, <2>3
<1>4. \A k \in DOMAIN keys :
        \/ keys[k] = "text"
        \/ keys[k] = "bool" /\ k \in {"autostart", "redirect_stderr"}
        \/ keys[k] = "int" /\ k \in {"startsecs", "startretries",
             "stopwaitsecs", "priority", "numprocs", "numprocs_start",
             "stdout_logfile_backups", "stderr_logfile_backups"}
        \/ keys[k] = "policy" /\ k = "autorestart"
        \/ keys[k] = "upper" /\ k = "stopsignal"
        \/ keys[k] = "ints" /\ k = "exitcodes"
        \/ keys[k] = "env" /\ k = "environment"
        \/ keys[k] = "bytes" /\ k \in {"stdout_logfile_maxbytes",
             "stderr_logfile_maxbytes"}
  BY DEF ProgramKeys
<1>5. /\ none.autostart \in BOOLEAN /\ none.redirect_stderr \in BOOLEAN
      /\ none.autorestart = "always" /\ none.stopsignal = Text(Name("TERM"))
      /\ none.startsecs = 1 /\ none.startretries = 3 /\ none.stopwaitsecs = 10
      /\ none.priority = 999 /\ none.numprocs = 1 /\ none.numprocs_start = 0
      /\ none.stdout_logfile_backups = 10 /\ none.stderr_logfile_backups = 10
      /\ none.exitcodes = <<0>> /\ none.environment = <<>>
      /\ none.stdout_logfile_maxbytes = 50 * Kilo * Kilo
      /\ none.stderr_logfile_maxbytes = 50 * Kilo * Kilo
  BY DEF defaultProcessConfig, Empty
<1>6. \A k \in DOMAIN keys \cap Optional : none[k] = <<>> /\ keys[k] \in {"text", "env"}
  BY DEF ProgramKeys, defaultProcessConfig, Optional, Empty
<1> HIDE DEF keys, none, A, B, C
<1>7. ASSUME NEW k \in DOMAIN keys
      PROVE  IsField(keys[k], none[k])
  <2>1. CASE keys[k] = "text"
    BY <2>1, FieldKinds
  <2>2. CASE keys[k] = "bool"
    BY <1>4, <1>5, <2>2, FieldKinds
  <2>3. CASE keys[k] = "int"
    <3>1. none[k] \in {0, 1, 3, 10, 999}
      BY <1>4, <1>5, <2>3
    <3>2. none[k] \in Int64
      BY <3>1, SmallNumbers
    <3> QED
      BY <2>3, <3>2, FieldKinds
  <2>4. CASE keys[k] = "policy"
    BY <1>4, <1>5, <2>4, FieldKinds
  <2>5. CASE keys[k] = "upper"
    <3>1. none[k] = Text(Name("TERM"))
      BY <1>4, <1>5, <2>5
    <3> QED
      BY <2>5, <3>1, SignalDefault
  <2>6. CASE keys[k] = "ints"
    <3>1. none[k] = <<0>>
      BY <1>4, <1>5, <2>6
    <3> QED
      BY <2>6, <3>1, ListDefaults
  <2>7. CASE keys[k] = "env"
    <3>1. none[k] = <<>>
      BY <1>4, <1>5, <2>7
    <3> QED
      BY <2>7, <3>1, ListDefaults
  <2>8. CASE keys[k] = "bytes"
    <3> DEFINE big == 50 * Kilo * Kilo
    <3>1. none[k] = big
      BY <1>4, <1>5, <2>8
    <3>2. IsField("bytes", big)
      BY SizeDefault
    <3> HIDE DEF big
    <3> QED
      BY <2>8, <3>1, <3>2
  <2> QED
    BY <1>4, <2>1, <2>2, <2>3, <2>4, <2>5, <2>6, <2>7, <2>8
<1>8. \A k \in DOMAIN keys :
        /\ keys[k] \in Kinds
        /\ keys[k] = "env" => k = "environment"
        /\ keys[k] \notin {"list", "LIST"}
        /\ k \in Optional => \A v : Unset(keys[k], v) => v = none[k]
  BY <1>4, <1>6, UnsetIs DEF Kinds
<1>9. Table(keys, none)
  BY <1>1, <1>2, <1>3, <1>7, <1>8 DEF Table, AreFields
<1> QED
  BY <1>9 DEF keys, none
-----------------------------------------------------------------------------
(* A section that was written, and what Parse() makes of it.               *)
Shown(keys, fields) ==
  {k \in DOMAIN keys : ~(k \in Optional /\ Unset(keys[k], fields[k]))}

(* No variable holds a quote.                                              *)
Plain(e) == \A v \in DOMAIN e : e[v] = escapeEnvValue(e[v])

LEMMA OverlayReadsBack ==
  ASSUME NEW keys, NEW none, Table(keys, none), NEW fields, AreFields(keys, fields),
         "environment" \in DOMAIN keys => Plain(fields["environment"]),
         NEW kvs, DOMAIN kvs = Shown(keys, fields),
         \A k \in Shown(keys, fields) : kvs[k] = Rendered(keys[k], fields[k])
  PROVE  Overlay(keys, none, kvs) = fields
<1>1. ASSUME NEW k \in DOMAIN keys, k \in DOMAIN kvs
      PROVE  Converted(keys[k], kvs[k], none[k]) = fields[k]
  <2>1. /\ keys[k] \in Kinds /\ IsField(keys[k], fields[k])
        /\ keys[k] \in {"list", "LIST"} => none[k] = <<>>
    BY DEF Table, AreFields
  <2>2. keys[k] = "env" => Plain(fields[k])
    BY DEF Table
  <2>3. kvs[k] = Rendered(keys[k], fields[k])
    BY <1>1
  <2> QED
    BY <2>1, <2>2, <2>3, FieldRoundTrip DEF Plain
<1>2. ASSUME NEW k \in DOMAIN keys, k \notin DOMAIN kvs
      PROVE  none[k] = fields[k]
  <2>1. k \in Optional /\ Unset(keys[k], fields[k])
    BY <1>2 DEF Shown
  <2> QED
    BY <2>1 DEF Table
<1>3. Overlay(keys, none, kvs)
        = [k \in DOMAIN keys |-> IF k \in DOMAIN kvs
                                 THEN Converted(keys[k], kvs[k], none[k]) ELSE none[k]]
  BY DEF Overlay
<1>4. Overlay(keys, none, kvs) = [k \in DOMAIN keys |-> fields[k]]
  BY <1>1, <1>2, <1>3
<1>5. fields = [k \in DOMAIN keys |-> fields[k]]
  BY DEF AreFields
<1> QED
  BY <1>4, <1>5

(* Whatever was assigned to the keys of a table, its fields keep their     *)
(* types.                                                                  *)
LEMMA OverlayIsFields ==
  ASSUME NEW keys, NEW none, Table(keys, none), NEW old, AreFields(keys, old),
         NEW kvs, \A k \in DOMAIN kvs : k \in DOMAIN keys => MayStand(kvs[k])
  PROVE  AreFields(keys, Overlay(keys, old, kvs))
<1> DEFINE f == Overlay(keys, old, kvs)
<1>1. f = [k \in DOMAIN keys |-> IF k \in DOMAIN kvs
                                 THEN Converted(keys[k], kvs[k], old[k]) ELSE old[k]]
  BY DEF Overlay
<1> HIDE DEF f
<1>2. DOMAIN f = DOMAIN keys /\ f = [k \in DOMAIN f |-> f[k]]
  BY <1>1
<1>3. ASSUME NEW k \in DOMAIN keys
      PROVE  IsField(keys[k], f[k])
  <2>1. keys[k] \in Kinds /\ IsField(keys[k], old[k])
    BY DEF Table, AreFields
  <2>2. CASE k \in DOMAIN kvs
    <3>1. f[k] = Converted(keys[k], kvs[k], old[k]) /\ MayStand(kvs[k])
      BY <1>1, <2>2
    <3> QED
      BY <2>1, <3>1, ConvertedIsField
  <2>3. CASE k \notin DOMAIN kvs
    BY <1>1, <2>1, <2>3
  <2> QED
    BY <2>2, <2>3
<1> QED
  BY <1>2, <1>3 DEF AreFields, f

-----------------------------------------------------------------------------
(* The lines of a file, each with the section that it is in.               *)
Stood(lines) == {<<SectionAt(lines, i), lines[i]>> : i \in 1..Len(lines)}

AreLines(lines) == lines \in Seq(Range(lines)) /\ \A l \in Range(lines) : IsLine(l)

(* Lines that begin with a header, or none.                                *)
Begun(lines) == 1 \in 1..Len(lines) => lines[1].line = "section"

LEMMA LinesAre ==
  ASSUME NEW lines, AreLines(lines)
  PROVE  /\ Len(lines) \in Nat /\ DOMAIN lines = 1..Len(lines)
         /\ \A i \in 1..Len(lines) : lines[i] \in Range(lines) /\ IsLine(lines[i])
<1>1. lines \in Seq(Range(lines)) /\ \A l \in Range(lines) : IsLine(l)
  BY DEF AreLines
<1>2. Len(lines) \in Nat /\ DOMAIN lines = 1..Len(lines)
  BY <1>1
<1>3. \A i \in 1..Len(lines) : lines[i] \in Range(lines)
  BY <1>2 DEF Range
<1> QED
  BY <1>1, <1>2, <1>3

LEMMA FilesAreLines == \A lines : AreLines(lines) <=> IsFile(File(lines))
BY DEF AreLines, IsFile, File

(* One part of a file behind another: the sections begin with their        *)
(* headers.                                                                *)
LEMMA StoodJoins ==
  ASSUME NEW x, AreLines(x), NEW y, AreLines(y), Begun(y)
  PROVE  /\ AreLines(x \o y) /\ Len(x \o y) = Len(x) + Len(y)
         /\ Stood(x \o y) = Stood(x) \cup Stood(y)
         /\ Begun(x) => Begun(x \o y)
<1> DEFINE z == x \o y
           m == Len(x)
           n == Len(y)
<1>1. /\ m \in Nat /\ n \in Nat /\ DOMAIN x = 1..m /\ DOMAIN y = 1..n
      /\ x \in Seq(Range(x)) /\ y \in Seq(Range(y))
  BY LinesAre DEF AreLines
<1>2. /\ Len(z) = m + n /\ DOMAIN z = 1..(m + n) /\ z \in Seq(Range(x) \cup Range(y))
      /\ \A i \in 1..m : z[i] = x[i]
      /\ \A j \in 1..n : z[m + j] = y[j]
  <2> DEFINE S == Range(x) \cup Range(y)
  <2>1. x \in Seq(S) /\ y \in Seq(S)
    BY <1>1
  <2> HIDE DEF S
  <2>2. z \in Seq(S)
    BY <2>1
  <2>3. /\ Len(z) = m + n /\ \A i \in 1..m : z[i] = x[i] /\ \A j \in 1..n : z[m + j] = y[j]
    BY <1>1, <2>1, ConcatProperties
  <2>4. DOMAIN z = 1..(m + n)
    BY <2>2, <2>3
  <2> QED
    BY <2>2, <2>3, <2>4 DEF S
<1> HIDE DEF z, m, n
<1>3. AreLines(z)
  <2>1. z \in Seq(Range(z))
    <3> DEFINE S == Range(x) \cup Range(y)
    <3>1. z \in Seq(S)
      BY <1>2
    <3> HIDE DEF S
    <3>2. z \in [1..(m + n) -> Range(z)]
      BY <1>2, <3>1 DEF Range
    <3> QED
      BY <1>1, <3>2, FunctionIsSeq
  <2>2. \A l \in Range(z) : l \in Range(x) \cup Range(y)
    BY <1>2 DEF Range
  <2> QED
    BY <2>1, <2>2 DEF AreLines
<1>4. \A i \in 0..m : SectionAt(z, i) = SectionAt(x, i)
  <2> DEFINE S == {i \in 0..m : SectionAt(z, i) = SectionAt(x, i)}
  <2>1. 0 \in S
    BY <1>1, SectionSteps
  <2>2. ASSUME NEW i \in 0..(m - 1), i \in S
        PROVE  i + 1 \in S
    <3>1. i + 1 \in 0..m /\ i + 1 \in 1..m /\ i + 1 \in Nat \ {0} /\ (i + 1) - 1 = i
      BY <1>1
    <3>2. z[i + 1] = x[i + 1]
      BY <1>2, <3>1
    <3> QED
      BY <2>2, <3>1, <3>2, SectionSteps
  <2> HIDE DEF S
  <2>3. 0..m \subseteq S
    BY <1>1, <2>1, <2>2, UpTo
  <2> QED
    BY <2>3 DEF S
<1>5. \A j \in 1..n : SectionAt(z, m + j) = SectionAt(y, j)
  <2> DEFINE S == {j \in 0..n : j # 0 => SectionAt(z, m + j) = SectionAt(y, j)}
  <2>1. 0 \in S
    BY <1>1
  <2>2. ASSUME NEW j \in 0..(n - 1), j \in S
        PROVE  j + 1 \in S
    <3>1. /\ j + 1 \in 0..n /\ j + 1 \in 1..n /\ j + 1 \in Nat \ {0} /\ (j + 1) - 1 = j
          /\ m + (j + 1) \in Nat \ {0} /\ (m + (j + 1)) - 1 = m + j
      BY <1>1
    <3>2. z[m + (j + 1)] = y[j + 1]
      BY <1>2, <3>1
    <3>3. j = 0 => y[j + 1].line = "section"
      BY <3>1 DEF Begun, n
    <3>4. SectionAt(z, m + (j + 1)) = SectionAt(y, j + 1)
      BY <2>2, <3>1, <3>2, <3>3, SectionSteps
    <3> QED
      BY <3>1, <3>4
  <2> HIDE DEF S
  <2>3. 0..n \subseteq S
    BY <1>1, <2>1, <2>2, UpTo
  <2> QED
    BY <1>1, <2>3 DEF S
<1>6. Stood(z) = Stood(x) \cup Stood(y)
  <2>1. ASSUME NEW i \in 1..(m + n)
        PROVE  <<SectionAt(z, i), z[i]>> \in Stood(x) \cup Stood(y)
    <3>1. CASE i \in 1..m
      <4>1. i \in 0..m
        BY <3>1
      <4> QED
        BY <1>2, <1>4, <3>1, <4>1 DEF Stood, m
    <3>2. CASE i \notin 1..m
      <4>1. PICK j \in 1..n : i = m + j
        <5>1. i - m \in 1..n /\ i = m + (i - m)
          BY <1>1, <3>2
        <5> QED
          BY <5>1
      <4> QED
        BY <1>2, <1>5, <4>1 DEF Stood, n
    <3> QED
      BY <3>1, <3>2
  <2>2. ASSUME NEW i \in 1..m
        PROVE  <<SectionAt(x, i), x[i]>> \in Stood(z)
    <3>1. i \in 0..m /\ i \in 1..(m + n)
      BY <1>1
    <3> QED
      BY <1>2, <1>4, <3>1 DEF Stood
  <2>3. ASSUME NEW j \in 1..n
        PROVE  <<SectionAt(y, j), y[j]>> \in Stood(z)
    <3>1. m + j \in 1..(m + n)
      BY <1>1
    <3> QED
      BY <1>2, <1>5, <3>1 DEF Stood
  <2>4. Stood(z) \subseteq Stood(x) \cup Stood(y)
    BY <1>2, <2>1 DEF Stood
  <2>5. Stood(x) \subseteq Stood(z) /\ Stood(y) \subseteq Stood(z)
    BY <2>2, <2>3 DEF Stood, m, n
  <2> QED
    BY <2>4, <2>5
<1>7. Begun(x) => Begun(z)
  <2> SUFFICES ASSUME Begun(x), 1 \in 1..(m + n)
               PROVE  z[1].line = "section"
    BY <1>2 DEF Begun
  <2>1. CASE 1 \in 1..m
    BY <1>2, <2>1 DEF Begun, m
  <2>2. CASE 1 \notin 1..m
    <3>1. m = 0 /\ 1 \in 1..n /\ m + 1 = 1
      BY <1>1, <2>2
    <3>2. z[1] = y[1]
      BY <1>2, <3>1
    <3> QED
      BY <3>1, <3>2 DEF Begun, n
  <2> QED
    BY <2>1, <2>2
<1> QED
  BY <1>2, <1>3, <1>6, <1>7 DEF z, m, n
-----------------------------------------------------------------------------
(* The lines of a section that was written.                                *)
LEMMA Prefixed ==
  ASSUME NEW S, NEW h \in S, NEW y \in Seq(S)
  PROVE  /\ <<h>> \o y \in Seq(S) /\ Len(<<h>> \o y) = Len(y) + 1
         /\ (<<h>> \o y)[1] = h
         /\ \A i \in 1..Len(y) : (<<h>> \o y)[i + 1] = y[i]
<1> DEFINE x == <<h>>
           z == x \o y
<1>1. x \in Seq(S) /\ Len(x) = 1 /\ x[1] = h /\ Len(y) \in Nat
  OBVIOUS
<1> HIDE DEF x
<1>2. /\ z \in Seq(S) /\ Len(z) = 1 + Len(y)
      /\ \A i \in 1..(1 + Len(y)) : z[i] = IF i <= 1 THEN x[i] ELSE y[i - 1]
  <2>1. /\ x \o y \in Seq(S) /\ Len(x \o y) = Len(x) + Len(y)
        /\ \A i \in 1..Len(x) + Len(y) :
             (x \o y)[i] = IF i <= Len(x) THEN x[i] ELSE y[i - Len(x)]
    BY <1>1, ConcatProperties, Zenon
  <2> QED
    BY <1>1, <2>1
<1> HIDE DEF z
<1>3. z[1] = h /\ \A i \in 1..Len(y) : z[i + 1] = y[i]
  BY <1>1, <1>2
<1> QED
  BY <1>1, <1>2, <1>3 DEF z, x

(* The lines of a section that was written.                                *)
Spoken(s, keys, fields) ==
  {<<s, Header(s)>>}
  \cup {<<s, Assign(k, Rendered(keys[k], fields[k]))>> : k \in Shown(keys, fields)}

LEMMA RenderedStands ==
  ASSUME NEW s, IsLabel(s), s # NoSection, NEW keys, NEW none, Table(keys, none), NEW fields
  PROVE  LET lines == renderSection(s, keys, fields)
         IN /\ AreLines(lines) /\ Begun(lines) /\ Stood(lines) = Spoken(s, keys, fields)
<1> DEFINE K == Shown(keys, fields)
           shown == InSomeOrder(K)
           n == Len(shown)
           line(k) == Assign(k, Rendered(keys[k], fields[k]))
           rest == [i \in DOMAIN shown |-> line(shown[i])]
           lines == renderSection(s, keys, fields)
<1>1. lines = <<Header(s)>> \o rest
  BY DEF renderSection, Shown
<1>2. n \in Nat /\ DOMAIN shown = 1..n /\ Range(shown) = K
  <2>1. IsFiniteSet(K)
    <3>1. K \subseteq DOMAIN keys /\ IsFiniteSet(DOMAIN keys)
      BY DEF Shown, Table
    <3> HIDE DEF K
    <3> QED
      BY <3>1, FS_Subset
  <2> HIDE DEF K
  <2>2. shown \in Seq(K) /\ Range(shown) = K
    BY <2>1, InSomeOrderIs
  <2> HIDE DEF shown
  <2> QED
    BY <2>2
<1>3. \A k \in K : k \in DOMAIN keys /\ k # ""
  BY DEF Shown, Table
<1>4. \A k : line(k).line = "key" /\ line(k).key = k
  BY DEF Assign
<1>5. Header(s).line = "section" /\ Header(s).section = s
  BY DEF Header
<1> DEFINE L == {Header(s)} \cup {line(k) : k \in K}
<1>6. rest \in [1..n -> L]
  <2> HIDE DEF line, shown, n, K
  <2> QED
    BY <1>2 DEF Range
<1>7. Header(s) \in L /\ \A l \in L : IsLine(l)
  <2> HIDE DEF line, K
  <2> QED
    BY <1>3, <1>4, <1>5 DEF IsLine
<1>8. /\ \A k \in K : \E i \in 1..n : rest[i] = line(k)
      /\ \A i \in 1..n : shown[i] \in K /\ rest[i] = line(shown[i])
  <2> HIDE DEF line, shown, n, K
  <2> QED
    BY <1>2 DEF Range
<1> HIDE DEF L, rest, lines, line, shown, n, K
<1>9. rest \in Seq(L) /\ Len(rest) = n
  BY <1>2, <1>6, FunctionIsSeq
<1>10. /\ lines \in Seq(L) /\ Len(lines) = n + 1 /\ lines[1] = Header(s)
       /\ \A i \in 1..n : lines[i + 1] = rest[i]
  BY <1>1, <1>2, <1>7, <1>9, Prefixed
<1>11. AreLines(lines)
  <2>1. DOMAIN lines = 1..(n + 1) /\ lines \in [1..(n + 1) -> L]
    BY <1>10
  <2>2. lines \in [1..(n + 1) -> Range(lines)]
    BY <2>1 DEF Range
  <2>3. lines \in Seq(Range(lines))
    BY <1>2, <2>2, FunctionIsSeq
  <2>4. \A l \in Range(lines) : IsLine(l)
    BY <1>7, <2>1 DEF Range
  <2> QED
    BY <2>3, <2>4 DEF AreLines
<1>12. Begun(lines)
  BY <1>5, <1>10 DEF Begun
<1>13. \A i \in 1..(n + 1) : SectionAt(lines, i) = s
  <2> DEFINE S == {i \in 0..n : SectionAt(lines, i + 1) = s}
  <2>1. 0 \in S
    <3>1. 0 + 1 = 1 /\ 1 \in Nat \ {0} /\ 0 \in 0..n
      BY <1>2
    <3> QED
      BY <1>5, <1>10, <3>1, SectionSteps
  <2>2. ASSUME NEW i \in 0..(n - 1), i \in S
        PROVE  i + 1 \in S
    <3>1. /\ i + 1 \in 0..n /\ i + 1 \in 1..n /\ (i + 1) + 1 \in Nat \ {0}
          /\ ((i + 1) + 1) - 1 = i + 1
      BY <1>2
    <3>2. lines[(i + 1) + 1].line = "key"
      BY <1>4, <1>8, <1>10, <3>1
    <3>3. lines[(i + 1) + 1].line # "section"
      BY <3>2
    <3> QED
      BY <2>2, <3>1, <3>3, SectionSteps
  <2> HIDE DEF S
  <2>3. 0..n \subseteq S
    BY <1>2, <2>1, <2>2, UpTo
  <2>4. ASSUME NEW i \in 1..(n + 1)
        PROVE  SectionAt(lines, i) = s
    <3>1. i - 1 \in 0..n /\ (i - 1) + 1 = i
      BY <1>2
    <3>2. i - 1 \in S
      BY <2>3, <3>1
    <3> QED
      BY <3>1, <3>2 DEF S
  <2> QED
    BY <2>4
<1>14. Stood(lines) = {<<s, lines[i]>> : i \in 1..(n + 1)}
  BY <1>10, <1>13 DEF Stood
<1>15. {lines[i] : i \in 1..(n + 1)} = L
  <2>1. \A i \in 1..(n + 1) : lines[i] \in L
    BY <1>10
  <2>2. ASSUME NEW l \in L
        PROVE  \E i \in 1..(n + 1) : lines[i] = l
    <3>1. CASE l = Header(s)
      <4>1. 1 \in 1..(n + 1)
        BY <1>2
      <4> QED
        BY <1>10, <3>1, <4>1
    <3>2. CASE \E k \in K : l = line(k)
      <4>1. PICK i \in 1..n : rest[i] = l
        BY <1>8, <3>2
      <4>2. i + 1 \in 1..(n + 1)
        BY <1>2
      <4> QED
        BY <1>10, <4>1, <4>2
    <3> QED
      BY <3>1, <3>2 DEF L
  <2> QED
    BY <2>1, <2>2
<1>16. Stood(lines) = {<<s, l>> : l \in L}
  BY <1>14, <1>15
<1>17. Stood(lines) = Spoken(s, keys, fields)
  BY <1>16 DEF L, line, Spoken, K
<1> QED
  BY <1>11, <1>12, <1>17 DEF lines

(* The include, and the whole main file.                                   *)
StemPaths == [i \in DOMAIN Stems |-> Confd(Stems[i])]
StemsLine == Files(StemPaths, TRUE)
Including == <<Header(Include), StemsLine>>

LEMMA IncludingStands ==
  /\ AreLines(Including) /\ Begun(Including)
  /\ Stood(Including) = {<<Include, Header(Include)>>, <<Include, StemsLine>>}
  /\ StemPaths \in Seq(Paths) /\ Range(StemPaths) = StemFiles
<1> DEFINE h == Header(Include)
           f == StemsLine
           lines == Including
<1>1. /\ h.line = "section" /\ h.section = Include
      /\ f.line = "files" /\ f.key = "files" /\ f.value.names = StemPaths
  BY DEF Header, Files, StemsLine
<1>2. StemPaths \in Seq(Paths) /\ Range(StemPaths) = StemFiles
  <2>1. Len(Stems) \in Nat /\ DOMAIN Stems = 1..Len(Stems)
    BY ConvertAssumption
  <2>2. StemFiles \subseteq Paths
    BY ConvertAssumption DEF StemFiles
  <2>3. \A i \in DOMAIN Stems : Confd(Stems[i]) \in Paths
    BY <2>2 DEF StemFiles
  <2>4. StemPaths \in [1..Len(Stems) -> Paths]
    BY <2>1, <2>3 DEF StemPaths
  <2>5. StemPaths \in Seq(Paths)
    BY <2>1, <2>4, FunctionIsSeq
  <2>6. Range(StemPaths) = StemFiles
    BY DEF Range, StemPaths, StemFiles
  <2> QED
    BY <2>5, <2>6
<1>3. IsLine(h) /\ IsLine(f)
  <2>1. IsLabel(Include) /\ Include # NoSection
    BY DEF IsLabel, Include, NoSection, Section
  <2> QED
    BY <1>1, <1>2, <2>1 DEF IsLine
<1>4. lines = <<h, f>>
  BY DEF Including
<1> HIDE DEF h, f, lines
<1>5. Len(lines) = 2 /\ DOMAIN lines = {1, 2} /\ lines[1] = h /\ lines[2] = f /\ lines \in Seq({h, f})
  BY <1>4
<1>6. Range(lines) = {h, f}
  BY <1>5 DEF Range
<1>7. AreLines(lines)
  BY <1>3, <1>5, <1>6 DEF AreLines
<1>8. Begun(lines)
  BY <1>1, <1>5 DEF Begun
<1>9. SectionAt(lines, 1) = Include /\ SectionAt(lines, 2) = Include
  <2>1. 1 \in Nat \ {0} /\ 2 \in Nat \ {0} /\ 2 - 1 = 1
    OBVIOUS
  <2>2. SectionAt(lines, 1) = Include
    BY <1>1, <1>5, <2>1, SectionSteps
  <2>3. "files" # "section"
    OBVIOUS
  <2>4. SectionAt(lines, 2) = SectionAt(lines, 2 - 1)
    BY <1>1, <1>5, <2>1, <2>3, SectionSteps
  <2> QED
    BY <2>1, <2>2, <2>4
<1>10. Stood(lines) = {<<Include, h>>, <<Include, f>>}
  <2>1. 1..Len(lines) = {1, 2}
    BY <1>5
  <2> QED
    BY <1>5, <1>9, <2>1 DEF Stood
<1> QED
  BY <1>2, <1>7, <1>8, <1>10 DEF h, f, lines
-----------------------------------------------------------------------------
(* What stands in a file, or in one that it includes, is read.             *)
LEMMA ConcatRange ==
  ASSUME NEW E, NEW x \in Seq(E), NEW y \in Seq(E)
  PROVE  Range(x \o y) = Range(x) \cup Range(y)
<1> DEFINE z == x \o y
           m == Len(x)
           n == Len(y)
<1>1. /\ m \in Nat /\ n \in Nat /\ DOMAIN x = 1..m /\ DOMAIN y = 1..n
      /\ z \in Seq(E) /\ Len(z) = m + n
      /\ \A i \in 1..(m + n) : z[i] = IF i <= m THEN x[i] ELSE y[i - m]
  BY ConcatProperties
<1>2. DOMAIN z = 1..(m + n)
  BY <1>1
<1> HIDE DEF z, m, n
<1>3. ASSUME NEW i \in 1..(m + n)
      PROVE  z[i] \in Range(x) \cup Range(y)
  <2>1. CASE i <= m
    <3>1. i \in 1..m
      BY <1>1, <2>1
    <3> QED
      BY <1>1, <2>1, <3>1 DEF Range
  <2>2. CASE ~(i <= m)
    <3>1. i - m \in 1..n
      BY <1>1, <2>2
    <3> QED
      BY <1>1, <2>2, <3>1 DEF Range
  <2> QED
    BY <2>1, <2>2
<1>4. ASSUME NEW i \in 1..m
      PROVE  x[i] \in Range(z)
  <2>1. i \in 1..(m + n) /\ i <= m
    BY <1>1
  <2> QED
    BY <1>1, <1>2, <2>1 DEF Range
<1>5. ASSUME NEW i \in 1..n
      PROVE  y[i] \in Range(z)
  <2>1. m + i \in 1..(m + n) /\ ~(m + i <= m) /\ (m + i) - m = i
    BY <1>1
  <2> QED
    BY <1>1, <1>2, <2>1 DEF Range
<1>6. Range(z) \subseteq Range(x) \cup Range(y)
  BY <1>2, <1>3 DEF Range
<1>7. Range(x) \subseteq Range(z) /\ Range(y) \subseteq Range(z)
  BY <1>1, <1>4, <1>5 DEF Range
<1> QED
  BY <1>6, <1>7 DEF z

LEMMA FlattenHas ==
  ASSUME NEW E, NEW ss \in Seq(Seq(E)), NEW i \in 1..Len(ss)
  PROVE  Range(ss[i]) \subseteq Range(FlattenSeq(ss))
<1> DEFINE size == Len(ss)
           Q == Seq(E)
<1>1. size \in Nat /\ \A j \in 1..size : ss[j] \in Q
  OBVIOUS
<1>2. PICK g \in [0..size -> Q] :
        /\ g[0] = <<>>
        /\ \A j \in 1..size : g[j] = g[j - 1] \o ss[j]
        /\ FlattenSeq(ss) = g[size]
  BY FlattenSteps
<1> DEFINE S == {n \in 0..size : n >= i => Range(ss[i]) \subseteq Range(g[n])}
<1>i. i \in 1..size
  OBVIOUS
<1> HIDE DEF size, Q
<1>3. 0 \in S
  BY <1>1, <1>i
<1>4. ASSUME NEW n \in 0..(size - 1), n \in S
      PROVE  n + 1 \in S
  <2>1. /\ n + 1 \in 0..size /\ n + 1 \in 1..size /\ (n + 1) - 1 = n /\ n \in 0..size
        /\ n + 1 >= i => n >= i \/ n + 1 = i
    BY <1>1, <1>i
  <2>2. g[n] \in Q /\ ss[n + 1] \in Q /\ g[n + 1] = g[n] \o ss[n + 1]
    BY <1>1, <1>2, <2>1
  <2>3. Range(g[n + 1]) = Range(g[n]) \cup Range(ss[n + 1])
    BY <2>2, ConcatRange DEF Q
  <2> QED
    BY <1>4, <2>1, <2>3
<1> HIDE DEF S
<1>5. 0..size \subseteq S
  BY <1>1, <1>3, <1>4, UpTo
<1>6. size \in S /\ size >= i
  BY <1>1, <1>5, <1>i
<1> QED
  BY <1>2, <1>6 DEF S

(* One level of the reading: the entries of the file's own lines, and what *)
(* the level below has of the files it includes.                           *)
LEMMA LevelHas ==
  ASSUME NEW d, NEW X, Closed(d, X), NEW g, ReadUpTo(d, MaxOpen, g),
         NEW n \in 0..(MaxOpen - 1), NEW q \in X, NEW i \in 1..Len(d[q].lines)
  PROVE  LET l == d[q].lines[i]
             at == SectionAt(d[q].lines, i)
         IN /\ Shows(d[q].lines, i) => Entry(q, at, l) \in Range(g[n + 1][q])
            /\ l.line = "files" /\ at = Include =>
                 \A x \in X : x \in Range(l.value.names) /\ Globbed(d, l.value, n, x) =>
                   Range(g[n][x]) \subseteq Range(g[n + 1][q])
<1> DEFINE lines == d[q].lines
           l == lines[i]
           at == SectionAt(lines, i)
           G == Standing(d, X)
           Q == Seq(G)
           ss == Parts(d, q, n, g[n])
           all == g[n + 1][q]
<1>1. /\ Len(lines) \in Nat /\ DOMAIN lines = 1..Len(lines) /\ IsLine(l) /\ q \in Paths
  BY FileLines DEF Closed
<1>2. all = FlattenSeq(ss)
  <2>1. n + 1 \in 0..MaxOpen /\ n + 1 # 0 /\ (n + 1) - 1 = n
    BY ConfigAssumption
  <2> DEFINE m == n + 1
  <2> HIDE DEF m
  <2>2. \A k \in 0..MaxOpen :
          g[k] = [r \in Paths |-> IF k = 0 THEN <<>> ELSE FlattenSeq(Parts(d, r, k - 1, g[k - 1]))]
    BY DEF ReadUpTo, Parts
  <2>3. g[m] = [r \in Paths |-> FlattenSeq(Parts(d, r, n, g[n]))]
    BY <2>1, <2>2 DEF m
  <2> QED
    BY <1>1, <2>3 DEF m
<1>3. \A x \in X : g[n][x] \in Q
  BY LevelsStand, ConfigAssumption
<1>4. \A j \in 1..Len(lines) : Part(d, q, n, g[n], j) \in Q
  BY <1>3, PartStands
<1>i. i \in 1..Len(lines)
  OBVIOUS
<1> HIDE DEF Q, all
<1>5. ss \in [1..Len(lines) -> Q] /\ ss[i] = Part(d, q, n, g[n], i)
  BY <1>1, <1>4 DEF Parts
<1> HIDE DEF ss, lines
<1>6. ss \in Seq(Q) /\ Len(ss) = Len(lines)
  BY <1>1, <1>5, FunctionIsSeq
<1>7. Range(ss[i]) \subseteq Range(all)
  BY <1>2, <1>6, <1>i, FlattenHas DEF Q
<1>8. ASSUME Shows(lines, i)
      PROVE  Entry(q, at, l) \in Range(all)
  <2> DEFINE e == Entry(q, at, l)
  <2>1. ss[i] = <<e>>
    BY <1>5, <1>8 DEF Part, Shows, lines
  <2> HIDE DEF e
  <2>2. e \in Range(ss[i])
    BY <2>1 DEF Range
  <2> QED
    BY <1>7, <2>2 DEF e
<1>9. ASSUME l.line = "files", at = Include, NEW x \in X, x \in Range(l.value.names),
             Globbed(d, l.value, n, x)
      PROVE  Range(g[n][x]) \subseteq Range(all)
  <2> DEFINE names == l.value.names
             tt == [j \in DOMAIN names |->
                      IF Globbed(d, l.value, n, names[j]) THEN g[n][names[j]] ELSE <<>>]
  <2>1. ss[i] = FlattenSeq(tt)
    <3>1. Include # NoSection /\ "files" # "section"
      BY DEF Include, NoSection, Section
    <3> QED
      BY <1>5, <1>9, <3>1 DEF Part, lines
  <2>2. Len(names) \in Nat /\ DOMAIN names = 1..Len(names)
    <3>1. names \in Seq(Paths)
      BY <1>1, <1>9 DEF IsLine, lines
    <3> HIDE DEF names
    <3> QED
      BY <3>1
  <2>3. \A j \in 1..Len(names) : Globbed(d, l.value, n, names[j]) => names[j] \in X
    <3>1. \A y : Globbed(d, l.value, n, y) => Globbed(d, l.value, MaxOpen, y)
      BY ConfigAssumption DEF Globbed
    <3>2. \A j \in 1..Len(names) : names[j] \in Range(names)
      BY <2>2 DEF Range
    <3>3. \A y : Includes(d, q, i, y) => y \in X
      BY <1>i DEF Closed, lines
    <3> QED
      BY <1>9, <3>1, <3>2, <3>3 DEF Includes, lines
  <2>4. <<>> \in Q
    BY DEF Q
  <2>5. PICK j \in 1..Len(names) : names[j] = x
    BY <1>9, <2>2 DEF Range
  <2> HIDE DEF names
  <2>6. tt \in [1..Len(names) -> Q] /\ tt[j] = g[n][x]
    BY <1>3, <1>9, <2>2, <2>3, <2>4, <2>5 DEF names
  <2> HIDE DEF tt
  <2>7. tt \in Seq(Q) /\ Len(tt) = Len(names)
    BY <2>2, <2>6, FunctionIsSeq
  <2>8. Range(tt[j]) \subseteq Range(FlattenSeq(tt))
    BY <2>5, <2>7, FlattenHas DEF Q
  <2> QED
    BY <1>7, <2>1, <2>6, <2>8
<1> QED
  BY <1>8, <1>9 DEF all, lines

(* A file with the files it includes, which include none: all of it is     *)
(* read.                                                                   *)
LEMMA ReadingHas ==
  ASSUME NEW d, NEW X, Closed(d, X), NEW p \in X,
         \A x \in X \ {p} : \E i \in 1..Len(d[p].lines) :
           /\ d[p].lines[i].line = "files" /\ SectionAt(d[p].lines, i) = Include
           /\ x \in Range(d[p].lines[i].value.names)
           /\ Globbed(d, d[p].lines[i].value, MaxOpen, x)
  PROVE  Standing(d, X) = Range(Reading(d)[p])
<1>1. PICK g : ReadUpTo(d, MaxOpen, g) /\ Reading(d) = g[MaxOpen]
  BY ReadLoop
<1> DEFINE n == MaxOpen - 1
           m == MaxOpen - 2
<1>2. n \in 0..(MaxOpen - 1) /\ m \in 0..(MaxOpen - 1) /\ n + 1 = MaxOpen /\ m + 1 = n /\ n > 0
  BY ConfigAssumption, RoomAssumption
<1> HIDE DEF n, m
<1>3. ASSUME NEW q \in X, NEW i \in 1..Len(d[q].lines), Shows(d[q].lines, i)
      PROVE  Entry(q, SectionAt(d[q].lines, i), d[q].lines[i]) \in Range(Reading(d)[p])
  <2> DEFINE e == Entry(q, SectionAt(d[q].lines, i), d[q].lines[i])
  <2>1. e \in Range(g[n + 1][q])
    BY <1>1, <1>2, <1>3, LevelHas
  <2>2. e \in Range(g[m + 1][q])
    BY <1>1, <1>2, <1>3, LevelHas
  <2>3. CASE q = p
    BY <1>1, <1>2, <2>1, <2>3
  <2>4. CASE q # p
    <3>1. PICK h \in 1..Len(d[p].lines) :
            /\ d[p].lines[h].line = "files" /\ SectionAt(d[p].lines, h) = Include
            /\ q \in Range(d[p].lines[h].value.names)
            /\ Globbed(d, d[p].lines[h].value, MaxOpen, q)
      BY <2>4
    <3>2. Globbed(d, d[p].lines[h].value, n, q)
      BY <1>2, <3>1 DEF Globbed
    <3>3. Range(g[n][q]) \subseteq Range(g[n + 1][p])
      BY <1>1, <1>2, <3>1, <3>2, LevelHas
    <3> QED
      BY <1>1, <1>2, <2>2, <3>3
  <2> QED
    BY <2>3, <2>4
<1>4. Standing(d, X) \subseteq Range(Reading(d)[p])
  BY <1>3 DEF Standing
<1>5. Range(Reading(d)[p]) \subseteq Standing(d, X)
  <2> DEFINE G == Standing(d, X)
             reading == Reading(d)[p]
  <2>1. reading \in Seq(G)
    BY ReadingStands
  <2> HIDE DEF G, reading
  <2>2. Range(reading) \subseteq G
    BY <2>1 DEF Range
  <2> QED
    BY <2>2 DEF G, reading
<1> QED
  BY <1>4, <1>5
-----------------------------------------------------------------------------
(* Files that can be read, and that include files that can be: the parser  *)
(* succeeds.                                                               *)
LEMMA IncludeSucceeds ==
  ASSUME NEW d, NEW left, NEW pattern, pattern.names \in Seq(Paths), NEW parsed,
         \A n \in Range(pattern.names) : Globbed(d, pattern, left, n) => parsed[n].ok
  PROVE  handleInclude(d, pattern, left, parsed).ok
<1> DEFINE names == pattern.names
           size == Len(names)
<1>1. size \in Nat /\ \A i \in 1..size : names[i] \in Range(names)
  BY DEF Range
<1>2. PICK f : /\ IncludeUpTo(d, pattern, left, parsed, size, f)
               /\ handleInclude(d, pattern, left, parsed) = f[size]
  BY <1>1, IncludeLoop
<1>3. \A i \in 0..size : f[i] =
         IF i = 0 THEN Begins
         ELSE Matched(d, pattern, left, f[i - 1], names[i], parsed[names[i]])
  BY <1>2 DEF IncludeUpTo
<1> DEFINE T(n) == IsResult(f[n]) /\ f[n].ok
           S == {n \in 0..size : T(n)}
<1> HIDE DEF size
<1>4. T(0)
  BY <1>1, <1>3, ResultsAre
<1>5. ASSUME NEW n \in 0..(size - 1), T(n)
      PROVE  T(n + 1)
  <2> DEFINE i == n + 1
             q == names[i]
  <2>1. i \in 1..size /\ i \in 0..size /\ i - 1 = n /\ i # 0
    BY <1>1
  <2>2. f[i] = Matched(d, pattern, left, f[n], q, parsed[q])
    BY <1>3, <2>1
  <2>3. Globbed(d, pattern, left, q) => parsed[q].ok
    BY <1>1, <2>1
  <2> HIDE DEF i, q
  <2>4. CASE ~Globbed(d, pattern, left, q)
    BY <1>5, <2>2, <2>4 DEF Matched, i
  <2>5. CASE Globbed(d, pattern, left, q)
    <3>1. f[i] = [f[n] EXCEPT !.sections = Merge(f[n].sections, parsed[q].sections)]
      BY <1>5, <2>2, <2>3, <2>5 DEF Matched
    <3>2. f[i] = [ok |-> f[n].ok, at |-> f[n].at,
                  sections |-> Merge(f[n].sections, parsed[q].sections)]
      BY <1>5, <3>1, ResultChanges
    <3> QED
      BY <1>5, <3>2, ResultsAre DEF i
  <2> QED
    BY <2>4, <2>5
<1>6. 0 \in S
  BY <1>1, <1>4
<1>7. \A n \in 0..(size - 1) : n \in S => n + 1 \in S
  <2> HIDE DEF T
  <2> QED
    BY <1>1, <1>5
<1> HIDE DEF S
<1>8. 0..size \subseteq S
  BY <1>1, <1>6, <1>7, UpTo
<1>9. size \in S
  BY <1>1, <1>8
<1> QED
  BY <1>2, <1>9 DEF S, size

(* If line i includes files, they could be parsed.                         *)
Opens(d, left, parsed, lines, i) ==
  lines[i].line = "files" /\ SectionAt(lines, i) = Include =>
    handleInclude(d, lines[i].value, left, parsed).ok

LEMMA LineScans ==
  ASSUME NEW d, NEW left, NEW parsed, NEW lines, NEW i \in Nat \ {0},
         Opens(d, left, parsed, lines, i),
         NEW acc, IsResult(acc), acc.ok, acc.at = SectionAt(lines, i - 1)
  PROVE  LET r == Scan(d, left, parsed, acc, lines[i])
         IN  IsResult(r) /\ r.ok /\ r.at = SectionAt(lines, i)
<1> DEFINE l == lines[i]
           at == SectionAt(lines, i)
           r == Scan(d, left, parsed, acc, l)
           sub == handleInclude(d, l.value, left, parsed)
<1>1. at = IF l.line = "section" THEN l.section ELSE acc.at
  BY SectionSteps
<1>2. l.line = "files" /\ at = Include => sub.ok
  BY DEF Opens
<1>3. Include # NoSection
  BY DEF Include, NoSection, Section
<1> HIDE DEF l, at
<1>4. CASE l.line = "section"
  <2> DEFINE new == [s \in {l.section} |-> <<>>]
  <2>1. r = [acc EXCEPT !.at = l.section, !.sections = Merge(@, new)]
    BY <1>4 DEF Scan
  <2>2. r = [ok |-> acc.ok, at |-> l.section, sections |-> Merge(acc.sections, new)]
    BY <2>1, ResultChanges
  <2> QED
    BY <1>1, <1>4, <2>2, ResultsAre DEF l, at
<1>5. CASE l.line = "files" /\ at = Include
  <2>1. acc.at = at
    BY <1>1, <1>5
  <2>scan. r = IF sub.ok THEN [acc EXCEPT !.sections = Merge(@, sub.sections)] ELSE Fails
    BY <1>3, <1>5, <2>1 DEF Scan
  <2>2. r = [acc EXCEPT !.sections = Merge(@, sub.sections)]
    BY <1>2, <1>5, <2>scan
  <2>3. r = [ok |-> acc.ok, at |-> acc.at, sections |-> Merge(acc.sections, sub.sections)]
    BY <2>2, ResultChanges
  <2> QED
    BY <2>1, <2>3, ResultsAre DEF l, at
<1>6. CASE l.line # "section" /\ at = NoSection
  <2>1. acc.at = at
    BY <1>1, <1>6
  <2>2. r = acc
    BY <1>3, <1>6, <2>1 DEF Scan
  <2> QED
    BY <2>1, <2>2 DEF l, at
<1>7. CASE l.line # "section" /\ at # NoSection /\ ~(l.line = "files" /\ at = Include)
  <2> DEFINE new == [s \in {acc.at} |-> [k \in {l.key} |-> l.value]]
  <2>1. acc.at = at
    BY <1>1, <1>7
  <2>2. r = [acc EXCEPT !.sections = Merge(@, new)]
    BY <1>7, <2>1 DEF Scan
  <2>3. r = [ok |-> acc.ok, at |-> acc.at, sections |-> Merge(acc.sections, new)]
    BY <2>2, ResultChanges
  <2> QED
    BY <2>1, <2>3, ResultsAre DEF l, at
<1> QED
  BY <1>4, <1>5, <1>6, <1>7

LEMMA FileScans ==
  ASSUME NEW d, NEW left, NEW parsed, NEW lines, Len(lines) \in Nat,
         \A i \in 1..Len(lines) : Opens(d, left, parsed, lines, i)
  PROVE  Scanned(d, left, parsed, lines).ok
<1> DEFINE size == Len(lines)
<1>1. size \in Nat
  OBVIOUS
<1>2. PICK f : /\ ScanUpTo(d, left, parsed, lines, size, f)
               /\ Scanned(d, left, parsed, lines) = f[size]
  BY <1>1, ScanLoop
<1>3. \A i \in 0..size : f[i] =
         IF i = 0 THEN Begins ELSE Scan(d, left, parsed, f[i - 1], lines[i])
  BY <1>2 DEF ScanUpTo
<1> DEFINE T(n) == IsResult(f[n]) /\ f[n].ok /\ f[n].at = SectionAt(lines, n)
           S == {n \in 0..size : T(n)}
<1>at. \A i \in 1..size : Opens(d, left, parsed, lines, i)
  OBVIOUS
<1> HIDE DEF size
<1>4. T(0)
  BY <1>1, <1>3, ResultsAre, SectionSteps
<1>5. ASSUME NEW n \in 0..(size - 1), T(n)
      PROVE  T(n + 1)
  <2> DEFINE i == n + 1
  <2>1. i \in 1..size /\ i \in 0..size /\ i - 1 = n /\ i # 0 /\ i \in Nat \ {0}
    BY <1>1
  <2>2. f[i] = Scan(d, left, parsed, f[n], lines[i])
    BY <1>3, <2>1
  <2>3. Opens(d, left, parsed, lines, i)
    BY <1>at, <2>1
  <2>4. IsResult(f[n]) /\ f[n].ok /\ f[n].at = SectionAt(lines, i - 1)
    BY <1>5, <2>1
  <2> DEFINE acc == f[n]
             r == Scan(d, left, parsed, acc, lines[i])
  <2> HIDE DEF i, acc
  <2>5. i \in Nat \ {0} /\ IsResult(acc) /\ acc.ok /\ acc.at = SectionAt(lines, i - 1)
    BY <2>1, <2>4 DEF acc
  <2>6. IsResult(r) /\ r.ok /\ r.at = SectionAt(lines, i)
    BY <2>3, <2>5, LineScans
  <2> QED
    BY <2>2, <2>6 DEF i, acc
<1>6. 0 \in S
  BY <1>1, <1>4
<1>7. \A n \in 0..(size - 1) : n \in S => n + 1 \in S
  <2> HIDE DEF T
  <2> QED
    BY <1>1, <1>5
<1> HIDE DEF S
<1>8. 0..size \subseteq S
  BY <1>1, <1>6, <1>7, UpTo
<1>9. size \in S
  BY <1>1, <1>8
<1> QED
  BY <1>2, <1>9 DEF S

(* One file that includes files that include none.                         *)
LEMMA TreeParses ==
  ASSUME NEW d, NEW X, Closed(d, X), NEW p \in X, \A q \in X : d[q].state = "file",
         \A q \in X : \A i \in 1..Len(d[q].lines) : \A n :
           Includes(d, q, i, n) => q = p /\ n # p
  PROVE  ParseINI(d)[p].ok
<1>1. PICK f : ParseUpTo(d, MaxOpen, f) /\ ParseINI(d) = f[MaxOpen]
  BY ParseLoop
<1>2. \A n \in 0..MaxOpen :
        f[n] = [q \in Paths |-> IF n = 0 \/ d[q].state # "file" THEN Fails
                                ELSE Scanned(d, n - 1, f[n - 1], d[q].lines)]
  BY <1>1 DEF ParseUpTo
<1> DEFINE m == MaxOpen - 1
<1>3. /\ MaxOpen \in 1..MaxOpen /\ m \in 1..MaxOpen /\ m - 1 \in 0..MaxOpen
      /\ m \in 0..MaxOpen /\ MaxOpen # 0 /\ m # 0 /\ MaxOpen - 1 = m
      /\ MaxOpen \in 0..MaxOpen
  BY ConfigAssumption, RoomAssumption
<1>4. \A n \in {m, MaxOpen} : \A q \in X :
        f[n][q] = Scanned(d, n - 1, f[n - 1], d[q].lines)
  <2>1. X \subseteq Paths
    BY DEF Closed
  <2>2. \A n \in {m, MaxOpen} : n \in 0..MaxOpen /\ n # 0
    BY <1>3
  <2> HIDE DEF m
  <2>3. ASSUME NEW n \in {m, MaxOpen}, NEW q \in X
        PROVE  f[n][q] = Scanned(d, n - 1, f[n - 1], d[q].lines)
    <3>1. n \in 0..MaxOpen /\ n # 0 /\ q \in Paths /\ d[q].state = "file"
      BY <2>1, <2>2, <2>3
    <3> QED
      BY <1>2, <3>1
  <2> QED
    BY <2>3
<1>5. \A q \in X : q \in Paths /\ IsFile(d[q])
  BY DEF Closed
<1>6. ASSUME NEW n \in {m, MaxOpen}, NEW q \in X,
             \A x \in X \ {p} : q = p => f[n - 1][x].ok
      PROVE  f[n][q].ok
  <2> DEFINE lines == d[q].lines
  <2>1. Len(lines) \in Nat /\ \A i \in 1..Len(lines) : IsLine(lines[i])
    BY <1>5, FileLines
  <2>2. ASSUME NEW i \in 1..Len(lines), lines[i].line = "files", SectionAt(lines, i) = Include
        PROVE  handleInclude(d, lines[i].value, n - 1, f[n - 1]).ok
    <3>1. lines[i].value.names \in Seq(Paths)
      BY <2>1, <2>2 DEF IsLine
    <3>2. ASSUME NEW x \in Range(lines[i].value.names), Globbed(d, lines[i].value, n - 1, x)
          PROVE  f[n - 1][x].ok
      <4>1. Globbed(d, lines[i].value, MaxOpen, x)
        BY <1>3, <3>2 DEF Globbed
      <4>2. Includes(d, q, i, x)
        BY <2>2, <4>1 DEF Includes
      <4>3. q = p /\ x # p /\ x \in X
        BY <4>2 DEF Closed
      <4> QED
        BY <1>6, <4>3
    <3> QED
      BY <3>1, <3>2, IncludeSucceeds
  <2>3. Scanned(d, n - 1, f[n - 1], lines).ok
    BY <2>1, <2>2, FileScans DEF Opens
  <2> QED
    BY <1>4, <2>3
<1>7. \A x \in X \ {p} : f[m][x].ok
  BY <1>6
<1>8. f[MaxOpen - 1] = f[m]
  OBVIOUS
<1> HIDE DEF m
<1>9. f[MaxOpen][p].ok
  BY <1>3, <1>6, <1>7
<1> QED
  BY <1>1, <1>9
-----------------------------------------------------------------------------
(* A configuration that Parse() may have returned.                         *)
IsMap(f) == f = [n \in DOMAIN f |-> f[n]]

ArePrograms(p) ==
  /\ IsMap(p)
  /\ \A n \in DOMAIN p : /\ n \in Range(Names) /\ programFile(n) \in StemFiles
                         /\ AreFields(ProgramKeys, p[n])

AreGroups(g) ==
  /\ IsMap(g)
  /\ \A n \in DOMAIN g : /\ n \in Range(Names) /\ groupFile(n) \in StemFiles
                         /\ AreFields(GroupKeys, g[n])

Sound(c) ==
  /\ c = Struct(c.supervisor, c.email, c.programs, c.groups)
  /\ AreFields(SupervisorKeys, c.supervisor) /\ AreFields(EmailKeys, c.email)
  /\ ArePrograms(c.programs) /\ AreGroups(c.groups)

(* The main file that is written for it.                                   *)
Direktord == Section("direktord", "")
Email     == Section("email", "")

Mailed(c, r) == r.sections \cap Mails # {} \/ c.email.enabled
Filed(c)     == DOMAIN c.programs # {} \/ DOMAIN c.groups # {}

SpokenIf(b, S) == IF b THEN S ELSE {}

LEMMA NoLines == AreLines(<<>>) /\ Begun(<<>>) /\ Stood(<<>>) = {}
<1>1. <<>> \in Seq(Range(<<>>)) /\ Len(<<>>) = 0 /\ Range(<<>>) = {}
  <2>1. Range(<<>>) = {}
    BY EmptyDomain DEF Range
  <2> QED
    BY <2>1
<1>2. 1..0 = {}
  OBVIOUS
<1> QED
  BY <1>1, <1>2 DEF AreLines, Begun, Stood

LEMMA SectionsAreLabels ==
  \A type, name : /\ IsLabel(Section(type, name)) /\ ~Section(type, name).spaced
                  /\ type # "" => Section(type, name) # NoSection
BY DEF IsLabel, NoSection, Section

LEMMA MainStands ==
  ASSUME NEW c, NEW r
  PROVE  LET lines == renderMainConfig(c, r)
         IN /\ AreLines(lines)
            /\ Stood(lines) =
                 (Spoken(Direktord, SupervisorKeys, c.supervisor)
                  \cup SpokenIf(Mailed(c, r), Spoken(Email, EmailKeys, c.email)))
                 \cup SpokenIf(Filed(c), Stood(Including))
<1> DEFINE x == renderSection(Direktord, SupervisorKeys, c.supervisor)
           m == renderSection(Email, EmailKeys, c.email)
           y == IF Mailed(c, r) THEN m ELSE <<>>
           z == IF Filed(c) THEN Including ELSE <<>>
<1>1. renderMainConfig(c, r) = (x \o y) \o z
  BY DEF renderMainConfig, Direktord, Email, Mailed, Filed, Including, StemsLine, StemPaths
<1>2. /\ AreLines(x) /\ Begun(x) /\ Stood(x) = Spoken(Direktord, SupervisorKeys, c.supervisor)
      /\ AreLines(m) /\ Begun(m) /\ Stood(m) = Spoken(Email, EmailKeys, c.email)
  BY SectionsAreLabels, SupervisorTable, EmailTable, RenderedStands DEF Direktord, Email
<1> HIDE DEF x, m
<1>3. /\ AreLines(y) /\ Begun(y)
      /\ Stood(y) = SpokenIf(Mailed(c, r), Spoken(Email, EmailKeys, c.email))
  BY <1>2, NoLines DEF SpokenIf
<1>4. AreLines(z) /\ Begun(z) /\ Stood(z) = SpokenIf(Filed(c), Stood(Including))
  BY IncludingStands, NoLines DEF SpokenIf
<1> HIDE DEF y, z
<1>5. AreLines(x \o y) /\ Stood(x \o y) = Stood(x) \cup Stood(y)
  BY <1>2, <1>3, StoodJoins
<1>6. /\ AreLines((x \o y) \o z)
      /\ Stood((x \o y) \o z) = Stood(x \o y) \cup Stood(z)
  BY <1>4, <1>5, StoodJoins
<1> QED
  BY <1>1, <1>2, <1>3, <1>4, <1>5, <1>6
-----------------------------------------------------------------------------
(* The tree that was written, and nothing else beside it.                  *)
ProgramLines(c, n) == renderSection(Section("program", n), ProgramKeys, c.programs[n])
GroupLines(c, n)   == renderSection(Section("group", n), GroupKeys, c.groups[n])

ProgramFiles(c) == {programFile(n) : n \in DOMAIN c.programs}
GroupFiles(c)   == {groupFile(n) : n \in DOMAIN c.groups}
OutputFiles(c)  == {OutMain} \cup ProgramFiles(c) \cup GroupFiles(c)

Held(d, c, r) ==
  /\ d[OutMain] = File(renderMainConfig(c, r))
  /\ \A n \in DOMAIN c.programs : d[programFile(n)] = File(ProgramLines(c, n))
  /\ \A n \in DOMAIN c.groups : d[groupFile(n)] = File(GroupLines(c, n))
  /\ \A p \in StemFiles : d[p] # Absent => p \in OutputFiles(c)

(* What it says, but for the files that it includes.                       *)
Says(c, r, s, l) ==
  \/ <<s, l>> \in Spoken(Direktord, SupervisorKeys, c.supervisor)
  \/ Mailed(c, r) /\ <<s, l>> \in Spoken(Email, EmailKeys, c.email)
  \/ Filed(c) /\ s = Include /\ l = Header(Include)
  \/ \E n \in DOMAIN c.programs :
       <<s, l>> \in Spoken(Section("program", n), ProgramKeys, c.programs[n])
  \/ \E n \in DOMAIN c.groups :
       <<s, l>> \in Spoken(Section("group", n), GroupKeys, c.groups[n])

LEMMA PartsStand ==
  ASSUME NEW c, NEW n
  PROVE  /\ AreLines(ProgramLines(c, n)) /\ AreLines(GroupLines(c, n))
         /\ Stood(ProgramLines(c, n))
              = Spoken(Section("program", n), ProgramKeys, c.programs[n])
         /\ Stood(GroupLines(c, n))
              = Spoken(Section("group", n), GroupKeys, c.groups[n])
BY SectionsAreLabels, ProgramTable, GroupTable, RenderedStands DEF ProgramLines, GroupLines

LEMMA FileIs == \A x : File(x).lines = x /\ File(x).state = "file"
BY DEF File

LEMMA HeldFiles ==
  ASSUME NEW d, NEW c, NEW r, Sound(c), Held(d, c, r), NEW q \in OutputFiles(c)
  PROVE  /\ q \in Paths /\ IsFile(d[q]) /\ d[q].state = "file"
         /\ q # OutMain => q \in StemFiles
         /\ \A s, l : <<s, l>> \in Stood(d[q].lines) =>
              \/ Says(c, r, s, l)
              \/ q = OutMain /\ s = Include /\ l = StemsLine
<1>1. OutMain \in Paths /\ StemFiles \subseteq Paths
  BY ConvertAssumption DEF StemFiles
<1>2. CASE q = OutMain
  <2> DEFINE lines == renderMainConfig(c, r)
  <2>1. d[q].lines = lines /\ d[q] = File(lines) /\ d[q].state = "file"
    BY <1>2, FileIs DEF Held
  <2>2. /\ AreLines(lines)
        /\ Stood(lines) =
                 (Spoken(Direktord, SupervisorKeys, c.supervisor)
                  \cup SpokenIf(Mailed(c, r), Spoken(Email, EmailKeys, c.email)))
                 \cup SpokenIf(Filed(c), Stood(Including))
    BY MainStands
  <2> HIDE DEF lines
  <2>3. IsFile(d[q])
    BY <2>1, <2>2, FilesAreLines
  <2>4. ASSUME NEW s, NEW l, <<s, l>> \in Stood(d[q].lines)
        PROVE  Says(c, r, s, l) \/ (s = Include /\ l = StemsLine)
    <3>1. CASE <<s, l>> \in Spoken(Direktord, SupervisorKeys, c.supervisor)
      BY <3>1 DEF Says
    <3>2. CASE <<s, l>> \in SpokenIf(Mailed(c, r), Spoken(Email, EmailKeys, c.email))
      BY <3>2 DEF Says, SpokenIf
    <3>3. CASE <<s, l>> \in SpokenIf(Filed(c), Stood(Including))
      <4>1. Filed(c) /\ <<s, l>> \in Stood(Including)
        BY <3>3 DEF SpokenIf
      <4>2. <<s, l>> = <<Include, Header(Include)>> \/ <<s, l>> = <<Include, StemsLine>>
        BY <4>1, IncludingStands
      <4> QED
        BY <4>1, <4>2 DEF Says
    <3> QED
      BY <2>1, <2>2, <2>4, <3>1, <3>2, <3>3
  <2> QED
    BY <1>1, <1>2, <2>1, <2>3, <2>4
<1>3. ASSUME NEW n \in DOMAIN c.programs, q = programFile(n)
      PROVE  /\ q \in StemFiles /\ IsFile(d[q]) /\ d[q].state = "file"
             /\ \A s, l : <<s, l>> \in Stood(d[q].lines) => Says(c, r, s, l)
  <2>1. d[q] = File(ProgramLines(c, n)) /\ q \in StemFiles
    BY <1>3 DEF Held, Sound, ArePrograms
  <2>2. d[q].lines = ProgramLines(c, n) /\ d[q].state = "file" /\ IsFile(d[q])
    BY <2>1, FileIs, FilesAreLines, PartsStand
  <2> QED
    BY <2>1, <2>2, PartsStand DEF Says
<1>4. ASSUME NEW n \in DOMAIN c.groups, q = groupFile(n)
      PROVE  /\ q \in StemFiles /\ IsFile(d[q]) /\ d[q].state = "file"
             /\ \A s, l : <<s, l>> \in Stood(d[q].lines) => Says(c, r, s, l)
  <2>1. d[q] = File(GroupLines(c, n)) /\ q \in StemFiles
    BY <1>4 DEF Held, Sound, AreGroups
  <2>2. d[q].lines = GroupLines(c, n) /\ d[q].state = "file" /\ IsFile(d[q])
    BY <2>1, FileIs, FilesAreLines, PartsStand
  <2> QED
    BY <2>1, <2>2, PartsStand DEF Says
<1> QED
  BY <1>1, <1>2, <1>3, <1>4 DEF OutputFiles, ProgramFiles, GroupFiles

LEMMA HeldSays ==
  ASSUME NEW d, NEW c, NEW r, Sound(c), Held(d, c, r)
  PROVE  /\ \A s, l : Says(c, r, s, l) =>
              \E q \in OutputFiles(c) : <<s, l>> \in Stood(d[q].lines)
         /\ Filed(c) => <<Include, StemsLine>> \in Stood(d[OutMain].lines)
<1>1. OutMain \in OutputFiles(c)
  BY DEF OutputFiles
<1>2. Stood(d[OutMain].lines) =
                 (Spoken(Direktord, SupervisorKeys, c.supervisor)
                  \cup SpokenIf(Mailed(c, r), Spoken(Email, EmailKeys, c.email)))
                 \cup SpokenIf(Filed(c), Stood(Including))
  BY MainStands, FileIs DEF Held
<1>3. ASSUME NEW s, NEW l, Says(c, r, s, l)
      PROVE  \E q \in OutputFiles(c) : <<s, l>> \in Stood(d[q].lines)
  <2>1. CASE <<s, l>> \in Spoken(Direktord, SupervisorKeys, c.supervisor)
    BY <1>1, <1>2, <2>1
  <2>2. CASE Mailed(c, r) /\ <<s, l>> \in Spoken(Email, EmailKeys, c.email)
    BY <1>1, <1>2, <2>2 DEF SpokenIf
  <2>3. CASE Filed(c) /\ s = Include /\ l = Header(Include)
    BY <1>1, <1>2, <2>3, IncludingStands DEF SpokenIf
  <2>4. ASSUME NEW n \in DOMAIN c.programs,
               <<s, l>> \in Spoken(Section("program", n), ProgramKeys, c.programs[n])
        PROVE  \E q \in OutputFiles(c) : <<s, l>> \in Stood(d[q].lines)
    <3>1. programFile(n) \in OutputFiles(c)
      BY DEF OutputFiles, ProgramFiles
    <3>2. d[programFile(n)].lines = ProgramLines(c, n)
      BY FileIs DEF Held
    <3> QED
      BY <2>4, <3>1, <3>2, PartsStand
  <2>5. ASSUME NEW n \in DOMAIN c.groups,
               <<s, l>> \in Spoken(Section("group", n), GroupKeys, c.groups[n])
        PROVE  \E q \in OutputFiles(c) : <<s, l>> \in Stood(d[q].lines)
    <3>1. groupFile(n) \in OutputFiles(c)
      BY DEF OutputFiles, GroupFiles
    <3>2. d[groupFile(n)].lines = GroupLines(c, n)
      BY FileIs DEF Held
    <3> QED
      BY <2>5, <3>1, <3>2, PartsStand
  <2> QED
    BY <1>3, <2>1, <2>2, <2>3, <2>4, <2>5 DEF Says
<1>4. Filed(c) => <<Include, StemsLine>> \in Stood(d[OutMain].lines)
  BY <1>2, IncludingStands DEF SpokenIf
<1> QED
  BY <1>3, <1>4
-----------------------------------------------------------------------------
(* The sections that the parser finds in the tree that was written.        *)
Assigns(c, r, s, k, v) ==
  \E l : Says(c, r, s, l) /\ l.line = "key" /\ l.key = k /\ l.value = v

Mirrors(sections, c, r) ==
  /\ \A s : s \in DOMAIN sections <=> \E l : Says(c, r, s, l)
  /\ \A s \in DOMAIN sections : \A k :
       k \in DOMAIN sections[s] <=> \E v : Assigns(c, r, s, k, v)
  /\ \A s \in DOMAIN sections : \A k \in DOMAIN sections[s] :
       Assigns(c, r, s, k, sections[s][k])

LEMMA SpokenLines ==
  ASSUME NEW s, NEW keys, NEW fields, NEW t, NEW l, <<t, l>> \in Spoken(s, keys, fields)
  PROVE  /\ t = s /\ l.line \in {"section", "key"}
         /\ l.line = "section" => l = Header(s)
         /\ l.line = "key" => /\ l.key \in Shown(keys, fields)
                              /\ l.value = Rendered(keys[l.key], fields[l.key])
<1>1. CASE <<t, l>> = <<s, Header(s)>>
  BY <1>1 DEF Header
<1>2. ASSUME NEW k \in Shown(keys, fields),
             <<t, l>> = <<s, Assign(k, Rendered(keys[k], fields[k]))>>
      PROVE  /\ t = s /\ l.line = "key" /\ l.key = k
             /\ l.value = Rendered(keys[k], fields[k])
  BY <1>2 DEF Assign
<1> QED
  BY <1>1, <1>2 DEF Spoken

LEMMA SectionsDiffer ==
  /\ \A n : /\ Section("program", n) \notin {Direktord, Email, Include, NoSection}
            /\ Section("group", n) \notin {Direktord, Email, Include, NoSection}
  /\ \A n, m : /\ Section("program", n) # Section("group", m)
               /\ Section("program", n) = Section("program", m) => n = m
               /\ Section("group", n) = Section("group", m) => n = m
  /\ Direktord \notin {Email, Include, NoSection} /\ Email \notin {Include, NoSection}
  /\ Include # NoSection
BY DEF Section, Direktord, Email, Include, NoSection

LEMMA SaysLines ==
  ASSUME NEW c, NEW r, NEW s, NEW l, Says(c, r, s, l)
  PROVE  /\ l.line \in {"section", "key"} /\ s # NoSection
         /\ s = Include => l = Header(Include)
<1>1. Header(Include).line = "section"
  BY DEF Header
<1> QED
  BY <1>1, SpokenLines, SectionsDiffer DEF Says

(* The key of a header.                                                    *)
NoKey == ""

LEMMA KeysAreKeys ==
  ASSUME NEW c, NEW r, NEW s, NEW l, Says(c, r, s, l), l.line = "key"
  PROVE  l.key # NoKey
<1>1. ASSUME NEW keys, NEW none, Table(keys, none), NEW fields, NEW t,
             <<s, l>> \in Spoken(t, keys, fields)
      PROVE  l.key # NoKey
  <2>1. l.key \in Shown(keys, fields)
    BY <1>1, SpokenLines
  <2> QED
    BY <1>1, <2>1 DEF Shown, Table, NoKey
<1>2. Header(Include).line # "key"
  BY DEF Header
<1> QED
  BY <1>1, <1>2, SupervisorTable, EmailTable, ProgramTable, GroupTable DEF Says

LEMMA StemsAreNotMain == OutMain \notin StemFiles
<1>1. \A x : Confd(x)[1] = "conf.d"
  BY DEF Confd
<1>2. OutMain[1] = "out"
  BY DEF OutMain
<1> QED
  BY <1>1, <1>2 DEF StemFiles

LEMMA StoodLines ==
  \A lines : /\ \A i \in 1..Len(lines) : <<SectionAt(lines, i), lines[i]>> \in Stood(lines)
             /\ \A s, l : <<s, l>> \in Stood(lines) =>
                  \E i \in 1..Len(lines) : s = SectionAt(lines, i) /\ l = lines[i]
BY DEF Stood

(* It is one file that includes the others, and they include none.         *)
LEMMA OutputIncludes ==
  ASSUME NEW d, NEW c, NEW r, Sound(c), Held(d, c, r), NEW q \in OutputFiles(c),
         NEW i \in 1..Len(d[q].lines), NEW n, Includes(d, q, i, n)
  PROVE  q = OutMain /\ n # OutMain /\ n \in OutputFiles(c)
<1> DEFINE l == d[q].lines[i]
<1>1. /\ l.line = "files" /\ SectionAt(d[q].lines, i) = Include
      /\ n \in Range(l.value.names) /\ Globbed(d, l.value, MaxOpen, n)
  BY DEF Includes
<1>2. <<Include, l>> \in Stood(d[q].lines)
  BY <1>1, StoodLines
<1>3. ~Says(c, r, Include, l)
  BY <1>1, SaysLines
<1>4. q = OutMain /\ l = StemsLine
  BY <1>2, <1>3, HeldFiles
<1>5. l.value.names = StemPaths
  BY <1>4 DEF Files, StemsLine
<1>6. n \in StemFiles
  BY <1>1, <1>5, IncludingStands
<1>7. d[n] # Absent
  BY <1>1 DEF Globbed, Absent
<1> QED
  BY <1>4, <1>6, <1>7, StemsAreNotMain DEF Held

LEMMA OutputIsClosed ==
  ASSUME NEW d, NEW c, NEW r, Sound(c), Held(d, c, r)
  PROVE  /\ Closed(d, OutputFiles(c))
         /\ ParseINI(d)[OutMain].ok
         /\ Standing(d, OutputFiles(c)) = Range(Reading(d)[OutMain])
<1> DEFINE X == OutputFiles(c)
<1>1. OutMain \in X
  BY DEF OutputFiles
<1>2. \A q \in X : q \in Paths /\ IsFile(d[q]) /\ d[q].state = "file"
  BY HeldFiles
<1>3. \A q \in X : \A i \in 1..Len(d[q].lines) : \A n :
         Includes(d, q, i, n) => q = OutMain /\ n # OutMain /\ n \in X
  BY OutputIncludes
<1>4. Closed(d, X)
  BY <1>2, <1>3 DEF Closed
<1>5. ASSUME NEW x \in X \ {OutMain}
      PROVE  \E i \in 1..Len(d[OutMain].lines) :
               /\ d[OutMain].lines[i].line = "files"
               /\ SectionAt(d[OutMain].lines, i) = Include
               /\ x \in Range(d[OutMain].lines[i].value.names)
               /\ Globbed(d, d[OutMain].lines[i].value, MaxOpen, x)
  <2>1. Filed(c)
    BY DEF OutputFiles, ProgramFiles, GroupFiles, Filed
  <2>2. PICK i \in 1..Len(d[OutMain].lines) :
          /\ Include = SectionAt(d[OutMain].lines, i)
          /\ StemsLine = d[OutMain].lines[i]
    <3> DEFINE lines == d[OutMain].lines
               f == StemsLine
    <3>1. <<Include, f>> \in Stood(lines)
      BY <2>1, HeldSays
    <3> HIDE DEF lines, f
    <3>2. \E i \in 1..Len(lines) : Include = SectionAt(lines, i) /\ f = lines[i]
      BY <3>1, StoodLines
    <3> QED
      BY <3>2 DEF lines, f
  <2>3. x \in StemFiles /\ d[x].state = "file"
    BY HeldFiles
  <2>4. /\ StemsLine.line = "files"
        /\ StemsLine.value.names = StemPaths
    BY DEF Files, StemsLine
  <2>5. x \in Range(StemPaths)
    BY <2>3, IncludingStands
  <2>6. Globbed(d, d[OutMain].lines[i].value, MaxOpen, x)
    BY <2>3, RoomAssumption, ConfigAssumption DEF Globbed
  <2> QED
    BY <2>2, <2>4, <2>5, <2>6
<1> HIDE DEF X
<1>6. ParseINI(d)[OutMain].ok
  BY <1>1, <1>2, <1>3, <1>4, TreeParses
<1>7. Standing(d, X) = Range(Reading(d)[OutMain])
  BY <1>1, <1>4, <1>5, ReadingHas
<1> QED
  BY <1>4, <1>6, <1>7 DEF X

(* What is read of it is what it says.                                     *)
LEMMA OutputStands ==
  ASSUME NEW d, NEW c, NEW r, Sound(c), Held(d, c, r)
  PROVE  /\ \A e \in Standing(d, OutputFiles(c)) : \E q, s, l :
              Says(c, r, s, l) /\ e = Entry(q, s, l)
         /\ \A s, l : Says(c, r, s, l) =>
              \E q : Entry(q, s, l) \in Standing(d, OutputFiles(c))
<1> DEFINE X == OutputFiles(c)
<1>1. ASSUME NEW e \in Standing(d, X)
      PROVE  \E q, s, l : Says(c, r, s, l) /\ e = Entry(q, s, l)
  <2>1. PICK q \in X : \E i \in 1..Len(d[q].lines) :
          Shows(d[q].lines, i) /\ e = Entry(q, SectionAt(d[q].lines, i), d[q].lines[i])
    BY DEF Standing
  <2>2. PICK i \in 1..Len(d[q].lines) :
          Shows(d[q].lines, i) /\ e = Entry(q, SectionAt(d[q].lines, i), d[q].lines[i])
    BY <2>1
  <2> DEFINE s == SectionAt(d[q].lines, i)
             l == d[q].lines[i]
  <2>3. <<s, l>> \in Stood(d[q].lines)
    BY StoodLines
  <2>4. ~(s = Include /\ l = StemsLine)
    <3>1. StemsLine.line = "files"
      BY DEF Files, StemsLine
    <3> QED
      BY <2>2, <3>1 DEF Shows
  <2>q. q \in OutputFiles(c)
    OBVIOUS
  <2> HIDE DEF s, l, X
  <2>5. Says(c, r, s, l)
    <3> DEFINE other == s = Include /\ l = StemsLine
    <3>1. Says(c, r, s, l) \/ (q = OutMain /\ other)
      BY <2>3, <2>q, HeldFiles
    <3> HIDE DEF other
    <3> QED
      BY <2>4, <3>1 DEF other
  <2> QED
    BY <2>2, <2>5 DEF s, l
<1>2. ASSUME NEW s, NEW l, Says(c, r, s, l)
      PROVE  \E q : Entry(q, s, l) \in Standing(d, X)
  <2>1. PICK q \in X : <<s, l>> \in Stood(d[q].lines)
    BY <1>2, HeldSays
  <2>2. PICK i \in 1..Len(d[q].lines) : s = SectionAt(d[q].lines, i) /\ l = d[q].lines[i]
    BY <2>1, StoodLines
  <2>3. Shows(d[q].lines, i)
    <3>1. l.line # "files" /\ s # NoSection
      BY <1>2, SaysLines
    <3> QED
      BY <2>2, <3>1 DEF Shows
  <2>4. q \in Paths /\ i \in Nat
    <3>1. q \in Paths
      BY HeldFiles
    <3>2. IsFile(d[q])
      BY HeldFiles
    <3>3. Len(d[q].lines) \in Nat
      BY <3>2, FileLines
    <3> QED
      BY <3>1, <3>3
  <2>5. Entry(q, s, l) \in Entries(d)
    BY <2>2, <2>4 DEF Entries
  <2> QED
    BY <2>2, <2>3, <2>5 DEF Standing
<1> QED
  BY <1>1, <1>2
-----------------------------------------------------------------------------
(* What the parser makes of the tree that was written.                     *)
LEMMA EntrySection == \A q, s, l : Entry(q, s, l).section = s
BY DEF Entry

LEMMA HeaderEntry ==
  ASSUME NEW q, NEW s, NEW l, l.line = "section"
  PROVE  Entry(q, s, l).key = NoKey
BY DEF Entry, NoKey

LEMMA KeyEntry ==
  ASSUME NEW q, NEW s, NEW l, l.line # "section"
  PROVE  Entry(q, s, l).key = l.key /\ Entry(q, s, l).value = l.value
BY DEF Entry

LEMMA OutputIsRead ==
  ASSUME NEW d, WellFormed(d), NEW c, NEW r, Sound(c), Held(d, c, r)
  PROVE  Mirrors(ParseINI(d)[OutMain].sections, c, r)
<1> DEFINE sections == ParseINI(d)[OutMain].sections
           reading == Reading(d)[OutMain]
           size == Len(reading)
           G == Standing(d, OutputFiles(c))
<1>1. OutMain \in Paths
  BY ConvertAssumption
<1>2. Agrees(sections, reading) /\ reading \in Seq(Entries(d)) /\ G = Range(reading)
  BY <1>1, TreeAgrees, OutputIsClosed
<1>3. /\ \A e \in G : \E q, s, l : Says(c, r, s, l) /\ e = Entry(q, s, l)
      /\ \A s, l : Says(c, r, s, l) => \E q : Entry(q, s, l) \in G
  BY OutputStands
<1>4. /\ \A s : s \in DOMAIN sections
                   <=> s # NoSection /\ \E i \in 1..size : reading[i].section = s
      /\ \A s \in DOMAIN sections : \A k :
           k \in DOMAIN sections[s] <=> k # NoKey /\ \E i \in 1..size : Is(reading[i], s, k)
      /\ \A s \in DOMAIN sections : \A k \in DOMAIN sections[s] :
           \E i \in 1..size : Is(reading[i], s, k) /\ sections[s][k] = reading[i].value
  BY <1>2 DEF Agrees, LastIs, NoKey
<1> HIDE DEF reading, G, sections
<1>5. size \in Nat /\ DOMAIN reading = 1..size
  BY <1>2
<1>6. /\ \A i \in 1..size : reading[i] \in G
      /\ \A e \in G : \E i \in 1..size : reading[i] = e
  BY <1>2, <1>5 DEF Range
<1> HIDE DEF size
<1>7. ASSUME NEW i \in 1..size
      PROVE  \E q, s, l : Says(c, r, s, l) /\ reading[i] = Entry(q, s, l)
  BY <1>3, <1>6
<1>8. ASSUME NEW s, NEW l, Says(c, r, s, l)
      PROVE  \E q : \E i \in 1..size : reading[i] = Entry(q, s, l)
  BY <1>3, <1>6, <1>8
<1>9. ASSUME NEW s
      PROVE  s \in DOMAIN sections <=> \E l : Says(c, r, s, l)
  <2>1. ASSUME NEW i \in 1..size, reading[i].section = s
        PROVE  \E l : Says(c, r, s, l)
    <3>1. PICK q, t, l : Says(c, r, t, l) /\ reading[i] = Entry(q, t, l)
      BY <1>7
    <3>2. t = s
      BY <2>1, <3>1, EntrySection
    <3> QED
      BY <3>1, <3>2
  <2>2. ASSUME NEW l, Says(c, r, s, l)
        PROVE  s # NoSection /\ \E i \in 1..size : reading[i].section = s
    <3>1. PICK q : \E i \in 1..size : reading[i] = Entry(q, s, l)
      BY <1>8, <2>2
    <3> QED
      BY <2>2, <3>1, EntrySection, SaysLines
  <2> QED
    BY <1>4, <2>1, <2>2
<1>10. ASSUME NEW s, NEW k, k # NoKey, NEW i \in 1..size, Is(reading[i], s, k)
       PROVE  Assigns(c, r, s, k, reading[i].value)
  <2>1. PICK q, t, l : Says(c, r, t, l) /\ reading[i] = Entry(q, t, l)
    BY <1>7
  <2>2. t = s
    BY <1>10, <2>1, EntrySection DEF Is
  <2>3. l.line \in {"section", "key"}
    BY <2>1, SaysLines
  <2>4. l.line # "section"
    BY <1>10, <2>1, HeaderEntry DEF Is
  <2>5. l.line = "key"
    BY <2>3, <2>4
  <2>6. l.key = k /\ reading[i].value = l.value
    BY <1>10, <2>1, <2>4, KeyEntry DEF Is
  <2> QED
    BY <2>1, <2>2, <2>5, <2>6 DEF Assigns
<1>11. ASSUME NEW s, NEW k, NEW v, Assigns(c, r, s, k, v)
       PROVE  k # NoKey /\ \E i \in 1..size : Is(reading[i], s, k)
  <2>1. PICK l : Says(c, r, s, l) /\ l.line = "key" /\ l.key = k
    BY <1>11 DEF Assigns
  <2>2. PICK q : \E i \in 1..size : reading[i] = Entry(q, s, l)
    BY <1>8, <2>1
  <2>3. "key" # "section"
    OBVIOUS
  <2>4. Is(Entry(q, s, l), s, k)
    BY <2>1, <2>3, EntrySection, KeyEntry DEF Is
  <2>5. k # NoKey
    BY <2>1, KeysAreKeys
  <2> QED
    BY <2>2, <2>4, <2>5
<1>12. \A s \in DOMAIN sections : \A k : k \in DOMAIN sections[s] <=> \E v : Assigns(c, r, s, k, v)
  <2>1. ASSUME NEW s \in DOMAIN sections, NEW k \in DOMAIN sections[s]
        PROVE  \E v : Assigns(c, r, s, k, v)
    <3>1. k # NoKey /\ \E i \in 1..size : Is(reading[i], s, k)
      BY <1>4
    <3> QED
      BY <1>10, <3>1
  <2>2. ASSUME NEW s \in DOMAIN sections, NEW k, NEW v, Assigns(c, r, s, k, v)
        PROVE  k \in DOMAIN sections[s]
    BY <1>4, <1>11, <2>2
  <2> QED
    BY <2>1, <2>2
<1>13. ASSUME NEW s \in DOMAIN sections, NEW k \in DOMAIN sections[s]
       PROVE  Assigns(c, r, s, k, sections[s][k])
  <2>1. k # NoKey
    BY <1>4
  <2>2. PICK i \in 1..size : Is(reading[i], s, k) /\ sections[s][k] = reading[i].value
    BY <1>4
  <2> QED
    BY <1>10, <2>1, <2>2
<1> QED
  BY <1>9, <1>12, <1>13 DEF Mirrors, sections

(* Each section has the fields that were written.                          *)
ReadsBack(keys, fields, kvs) ==
  /\ DOMAIN kvs = Shown(keys, fields)
  /\ \A k \in Shown(keys, fields) : kvs[k] = Rendered(keys[k], fields[k])

LEMMA MirroredSection ==
  ASSUME NEW sections, NEW c, NEW r, Mirrors(sections, c, r),
         NEW s, NEW keys, NEW none, Table(keys, none), NEW fields,
         \A l : Says(c, r, s, l) <=> <<s, l>> \in Spoken(s, keys, fields)
  PROVE  s \in DOMAIN sections /\ ReadsBack(keys, fields, sections[s])
<1>1. Says(c, r, s, Header(s))
  BY DEF Spoken
<1>2. s \in DOMAIN sections
  BY <1>1 DEF Mirrors
<1>3. ASSUME NEW k, NEW v, Assigns(c, r, s, k, v)
      PROVE  k \in Shown(keys, fields) /\ v = Rendered(keys[k], fields[k])
  <2>1. PICK l : Says(c, r, s, l) /\ l.line = "key" /\ l.key = k /\ l.value = v
    BY <1>3 DEF Assigns
  <2>2. <<s, l>> \in Spoken(s, keys, fields)
    BY <2>1
  <2> QED
    BY <2>1, <2>2, SpokenLines
<1>4. ASSUME NEW k \in Shown(keys, fields)
      PROVE  Assigns(c, r, s, k, Rendered(keys[k], fields[k]))
  <2> DEFINE l == Assign(k, Rendered(keys[k], fields[k]))
  <2>1. <<s, l>> \in Spoken(s, keys, fields)
    BY DEF Spoken
  <2>2. l.line = "key" /\ l.key = k /\ l.value = Rendered(keys[k], fields[k])
    BY DEF Assign
  <2> HIDE DEF l
  <2> QED
    BY <2>1, <2>2 DEF Assigns
<1>5. DOMAIN sections[s] = Shown(keys, fields)
  BY <1>2, <1>3, <1>4 DEF Mirrors
<1>6. ASSUME NEW k \in Shown(keys, fields)
      PROVE  sections[s][k] = Rendered(keys[k], fields[k])
  BY <1>2, <1>3, <1>5 DEF Mirrors
<1> QED
  BY <1>2, <1>5, <1>6 DEF ReadsBack
-----------------------------------------------------------------------------
(* Visiting the sections that were written restores, one after the other,  *)
(* the parts of the configuration.                                         *)
Restricted(f, type, V) == [n \in {m \in DOMAIN f : Section(type, m) \in V} |-> f[n]]

Restored(c, V) ==
  Struct(IF Direktord \in V THEN c.supervisor ELSE defaultSupervisorConfig,
         IF Email \in V THEN c.email ELSE noEmailConfig,
         Restricted(c.programs, "program", V), Restricted(c.groups, "group", V))

Restores(sections, c) ==
  \A s \in DOMAIN sections :
    \/ s = Direktord
       /\ Overlay(SupervisorKeys, defaultSupervisorConfig, sections[s]) = c.supervisor
    \/ s = Email /\ Overlay(EmailKeys, noEmailConfig, sections[s]) = c.email
    \/ s = Include
    \/ \E n \in DOMAIN c.programs :
         s = Section("program", n)
         /\ Overlay(ProgramKeys, defaultProcessConfig, sections[s]) = c.programs[n]
    \/ \E n \in DOMAIN c.groups :
         s = Section("group", n)
         /\ Overlay(GroupKeys, noGroupConfig, sections[s]) = c.groups[n]

Labels(f, type) == {Section(type, n) : n \in DOMAIN f}

LEMMA PartStays ==
  ASSUME NEW f, NEW type, NEW V, NEW s, s \notin Labels(f, type)
  PROVE  Restricted(f, type, V \cup {s}) = Restricted(f, type, V)
<1>1. {m \in DOMAIN f : Section(type, m) \in V \cup {s}} = {m \in DOMAIN f : Section(type, m) \in V}
  BY DEF Labels
<1> QED
  BY <1>1 DEF Restricted

LEMMA PartGrows ==
  ASSUME NEW f, NEW type, NEW V, NEW n \in DOMAIN f
  PROVE  Restricted(f, type, V \cup {Section(type, n)}) = Put(Restricted(f, type, V), n, f[n])
<1> DEFINE s == Section(type, n)
           A == {m \in DOMAIN f : Section(type, m) \in V}
           B == {m \in DOMAIN f : Section(type, m) \in V \cup {s}}
<1>1. \A m : Section(type, m) = s => m = n
  BY DEF Section
<1>2. Restricted(f, type, V \cup {s}) = [x \in B |-> f[x]] /\ Restricted(f, type, V) = [x \in A |-> f[x]]
  BY DEF Restricted
<1> HIDE DEF s
<1>3. B = A \cup {n}
  BY <1>1 DEF s
<1> HIDE DEF A, B
<1>4. [x \in B |-> f[x]] = Put([x \in A |-> f[x]], n, f[n])
  BY <1>3 DEF Put
<1> QED
  BY <1>2, <1>4 DEF s

LEMMA KindsOfSections ==
  /\ Direktord \in Globals /\ Email \in Mails /\ Globals \cap Mails = {}
  /\ ~(Include \in Globals \cup Mails \/ Named(Include, "program") \/ Named(Include, "group"))
  /\ \A n : /\ Named(Section("program", n), "program") /\ Section("program", n).name = n
            /\ Named(Section("group", n), "group") /\ Section("group", n).name = n
  /\ \A n : /\ Section("program", n) \notin Globals \cup Mails
            /\ Section("group", n) \notin Globals \cup Mails
<1>1. /\ Direktord \in Globals /\ Email \in Mails
      /\ ~(Include \in Globals \cup Mails \/ Named(Include, "program") \/ Named(Include, "group"))
  BY DEF Direktord, Email, Include, Globals, Mails, Section, Named
<1>2. \A n : /\ Named(Section("program", n), "program") /\ Section("program", n).name = n
             /\ Named(Section("group", n), "group") /\ Section("group", n).name = n
  BY DEF Section, Named
<1>3. \A n : /\ Section("program", n) \notin Globals \cup Mails
             /\ Section("group", n) \notin Globals \cup Mails
  BY DEF Globals, Mails, Section
<1> QED
  BY <1>1, <1>2, <1>3, GlobalsAndMails

LEMMA RestoreTurn ==
  ASSUME NEW sections, NEW c, Restores(sections, c), NEW V, NEW s \in DOMAIN sections,
         s \in Globals \cup Mails => s \notin V
  PROVE  Dispatch(Restored(c, V), s, sections[s]) = Restored(c, V \cup {s})
<1> DEFINE a == IF Direktord \in V THEN c.supervisor ELSE defaultSupervisorConfig
           b == IF Email \in V THEN c.email ELSE noEmailConfig
           p == Restricted(c.programs, "program", V)
           g == Restricted(c.groups, "group", V)
           W == V \cup {s}
           a2 == IF Direktord \in W THEN c.supervisor ELSE defaultSupervisorConfig
           b2 == IF Email \in W THEN c.email ELSE noEmailConfig
           p2 == Restricted(c.programs, "program", W)
           g2 == Restricted(c.groups, "group", W)
           kvs == sections[s]
<1>1. Restored(c, V) = Struct(a, b, p, g) /\ Restored(c, W) = Struct(a2, b2, p2, g2)
  BY DEF Restored
<1>2. /\ s # Direktord => a2 = a
      /\ s # Email => b2 = b
      /\ s = Direktord => a2 = c.supervisor
      /\ s = Email => b2 = c.email
  OBVIOUS
<1>p. s \notin Labels(c.programs, "program") => p2 = p
  BY PartStays
<1>g. s \notin Labels(c.groups, "group") => g2 = g
  BY PartStays
<1>3. ASSUME s \in {Direktord, Email}
      PROVE  s \notin V
  BY <1>3, KindsOfSections
<1>4. /\ s = Direktord => a = defaultSupervisorConfig
      /\ s = Email => b = noEmailConfig
  BY <1>3
<1>np. ASSUME NEW n \in DOMAIN c.programs, s = Section("program", n)
       PROVE  p2 = Put(p, n, c.programs[n])
  BY <1>np, PartGrows
<1>ng. ASSUME NEW n \in DOMAIN c.groups, s = Section("group", n)
       PROVE  g2 = Put(g, n, c.groups[n])
  BY <1>ng, PartGrows
<1>5. s \in {Direktord, Email, Include} => p2 = p /\ g2 = g
  BY <1>p, <1>g, SectionsDiffer DEF Labels
<1> HIDE DEF a, b, p, g, W, a2, b2, p2, g2
<1>6. CASE s = Direktord /\ Overlay(SupervisorKeys, defaultSupervisorConfig, kvs) = c.supervisor
  <2>1. Dispatch(Struct(a, b, p, g), s, kvs) = Struct(Overlay(SupervisorKeys, a, kvs), b, p, g)
    BY <1>6, DispatchCases, KindsOfSections
  <2>2. a2 = Overlay(SupervisorKeys, a, kvs) /\ b2 = b /\ p2 = p /\ g2 = g
    BY <1>2, <1>4, <1>5, <1>6, SectionsDiffer
  <2> QED
    BY <1>1, <2>1, <2>2 DEF W
<1>7. CASE s = Email /\ Overlay(EmailKeys, noEmailConfig, kvs) = c.email
  <2>1. Dispatch(Struct(a, b, p, g), s, kvs) = Struct(a, Overlay(EmailKeys, b, kvs), p, g)
    BY <1>7, DispatchCases, KindsOfSections
  <2>2. b2 = Overlay(EmailKeys, b, kvs) /\ a2 = a /\ p2 = p /\ g2 = g
    BY <1>2, <1>4, <1>5, <1>7, SectionsDiffer
  <2> QED
    BY <1>1, <2>1, <2>2 DEF W
<1>8. CASE s = Include
  <2>1. Dispatch(Struct(a, b, p, g), s, kvs) = Struct(a, b, p, g)
    BY <1>8, DispatchCases, KindsOfSections
  <2>2. b2 = b /\ a2 = a /\ p2 = p /\ g2 = g
    BY <1>2, <1>5, <1>8, SectionsDiffer
  <2> QED
    BY <1>1, <2>1, <2>2 DEF W
<1>9. ASSUME NEW n \in DOMAIN c.programs, s = Section("program", n),
             Overlay(ProgramKeys, defaultProcessConfig, kvs) = c.programs[n]
      PROVE  Dispatch(Restored(c, V), s, kvs) = Restored(c, W)
  <2>1. Dispatch(Struct(a, b, p, g), s, kvs)
          = Struct(a, b, Put(p, s.name, Overlay(ProgramKeys, defaultProcessConfig, kvs)), g)
    BY <1>9, DispatchCases, KindsOfSections
  <2>2. s.name = n
    BY <1>9, KindsOfSections
  <2>3. b2 = b /\ a2 = a /\ p2 = Put(p, n, c.programs[n]) /\ g2 = g
    BY <1>2, <1>g, <1>np, <1>9, SectionsDiffer DEF Labels
  <2> QED
    BY <1>1, <1>9, <2>1, <2>2, <2>3 DEF W
<1>10. ASSUME NEW n \in DOMAIN c.groups, s = Section("group", n),
              Overlay(GroupKeys, noGroupConfig, kvs) = c.groups[n]
       PROVE  Dispatch(Restored(c, V), s, kvs) = Restored(c, W)
  <2>1. Dispatch(Struct(a, b, p, g), s, kvs)
          = Struct(a, b, p, Put(g, s.name, Overlay(GroupKeys, noGroupConfig, kvs)))
    BY <1>10, DispatchCases, KindsOfSections
  <2>2. s.name = n
    BY <1>10, KindsOfSections
  <2>3. b2 = b /\ a2 = a /\ g2 = Put(g, n, c.groups[n]) /\ p2 = p
    BY <1>2, <1>p, <1>ng, <1>10, SectionsDiffer DEF Labels
  <2> QED
    BY <1>1, <1>10, <2>1, <2>2, <2>3 DEF W
<1> QED
  BY <1>1, <1>6, <1>7, <1>8, <1>9, <1>10 DEF Restores, W

LEMMA RestoreVisits ==
  ASSUME NEW sections, NEW c, Restores(sections, c), NEW V,
         NEW order \in Seq(DOMAIN sections),
         \A i \in 1..Len(order) : order[i] \in Globals \cup Mails =>
           /\ order[i] \notin V
           /\ \A j \in 1..Len(order) : i # j => order[i] # order[j]
  PROVE  Visited(Restored(c, V), sections, order) = Restored(c, V \cup Range(order))
<1> DEFINE size == Len(order)
           U(n) == V \cup {order[i] : i \in 1..n}
           start == Restored(c, V)
<1>1. size \in Nat /\ DOMAIN order = 1..size /\ \A i \in 1..size : order[i] \in DOMAIN sections
  OBVIOUS
<1>2. PICK f : /\ VisitUpTo(start, sections, order, size, f)
               /\ Visited(start, sections, order) = f[size]
  BY <1>1, VisitLoop
<1>3. \A i \in 0..size :
        f[i] = IF i = 0 THEN start ELSE Dispatch(f[i - 1], order[i], sections[order[i]])
  BY <1>2 DEF VisitUpTo
<1>4. \A i \in 1..size : order[i] \in Globals \cup Mails =>
           /\ order[i] \notin V
           /\ \A j \in 1..size : i # j => order[i] # order[j]
  OBVIOUS
<1> DEFINE S == {n \in 0..size : f[n] = Restored(c, U(n))}
<1> HIDE DEF size
<1>5. 0 \in S
  <2>1. U(0) = V
    <3>1. 1..0 = {}
      OBVIOUS
    <3> QED
      BY <3>1
  <2> QED
    BY <1>1, <1>3, <2>1, 0 \in 0..size
<1>6. ASSUME NEW n \in 0..(size - 1), n \in S
      PROVE  n + 1 \in S
  <2> DEFINE i == n + 1
             s == order[i]
  <2>1. i \in 1..size /\ i \in 0..size /\ i - 1 = n /\ i # 0
    BY <1>1
  <2>2. f[i] = Dispatch(f[n], s, sections[s]) /\ s \in DOMAIN sections
    BY <1>1, <1>3, <2>1
  <2>3. s \in Globals \cup Mails => s \notin U(n)
    <3>1. \A j \in 1..n : j \in 1..size /\ j # i
      BY <1>1
    <3> QED
      BY <1>4, <2>1, <3>1
  <2>4. U(i) = U(n) \cup {s}
    <3>1. 1..i = 1..n \cup {i}
      BY <1>1
    <3> QED
      BY <3>1
  <2>5. f[n] = Restored(c, U(n))
    BY <1>6
  <2> HIDE DEF i, s, U
  <2>6. Dispatch(Restored(c, U(n)), s, sections[s]) = Restored(c, U(n) \cup {s})
    BY <2>2, <2>3, RestoreTurn
  <2>7. f[i] = Restored(c, U(i))
    BY <2>2, <2>4, <2>5, <2>6
  <2> QED
    BY <2>1, <2>7 DEF i
<1> HIDE DEF S
<1>7. 0..size \subseteq S
  BY <1>1, <1>5, <1>6, UpTo
<1>8. size \in S
  BY <1>1, <1>7
<1>9. U(size) = V \cup Range(order)
  BY <1>1 DEF Range
<1> QED
  BY <1>2, <1>8, <1>9 DEF S
-----------------------------------------------------------------------------
(* The configuration, restored.                                            *)
LEMMA MirrorsRestore ==
  ASSUME NEW sections, NEW c, NEW r, Mirrors(sections, c, r), Sound(c),
         \A n \in DOMAIN c.programs : Plain(c.programs[n]["environment"])
  PROVE  /\ Restores(sections, c)
         /\ Direktord \in DOMAIN sections
         /\ Mailed(c, r) => Email \in DOMAIN sections
         /\ \A n \in DOMAIN c.programs : Section("program", n) \in DOMAIN sections
         /\ \A n \in DOMAIN c.groups : Section("group", n) \in DOMAIN sections
<1>1. /\ Direktord \in DOMAIN sections
      /\ Overlay(SupervisorKeys, defaultSupervisorConfig, sections[Direktord]) = c.supervisor
  <2>1. \A l : Says(c, r, Direktord, l) <=> <<Direktord, l>> \in Spoken(Direktord, SupervisorKeys, c.supervisor)
    BY SpokenLines, SectionsDiffer DEF Says
  <2>2. /\ Direktord \in DOMAIN sections
        /\ ReadsBack(SupervisorKeys, c.supervisor, sections[Direktord])
    BY <2>1, SupervisorTable, MirroredSection
  <2>3. "environment" \notin DOMAIN SupervisorKeys
    BY DEF SupervisorKeys
  <2>4. AreFields(SupervisorKeys, c.supervisor)
    BY DEF Sound
  <2> QED
    BY <2>2, <2>3, <2>4, SupervisorTable, OverlayReadsBack DEF ReadsBack
<1>2. ASSUME Mailed(c, r)
      PROVE  /\ Email \in DOMAIN sections
             /\ Overlay(EmailKeys, noEmailConfig, sections[Email]) = c.email
  <2>1. \A l : Says(c, r, Email, l) <=> <<Email, l>> \in Spoken(Email, EmailKeys, c.email)
    BY <1>2, SpokenLines, SectionsDiffer DEF Says
  <2>2. /\ Email \in DOMAIN sections
        /\ ReadsBack(EmailKeys, c.email, sections[Email])
    BY <2>1, EmailTable, MirroredSection
  <2>3. "environment" \notin DOMAIN EmailKeys
    BY DEF EmailKeys
  <2>4. AreFields(EmailKeys, c.email)
    BY DEF Sound
  <2> QED
    BY <2>2, <2>3, <2>4, EmailTable, OverlayReadsBack DEF ReadsBack
<1>3. ASSUME NEW n \in DOMAIN c.programs
      PROVE  /\ Section("program", n) \in DOMAIN sections
             /\ Overlay(ProgramKeys, defaultProcessConfig, sections[Section("program", n)])
                  = c.programs[n]
  <2> DEFINE s == Section("program", n)
             fields == c.programs[n]
  <2>1. \A l : Says(c, r, s, l) <=> <<s, l>> \in Spoken(s, ProgramKeys, fields)
    BY SpokenLines, SectionsDiffer DEF Says
  <2>2. AreFields(ProgramKeys, fields) /\ Plain(fields["environment"])
    BY DEF Sound, ArePrograms
  <2> HIDE DEF s, fields
  <2>3. s \in DOMAIN sections /\ ReadsBack(ProgramKeys, fields, sections[s])
    BY <2>1, ProgramTable, MirroredSection
  <2>4. Overlay(ProgramKeys, defaultProcessConfig, sections[s]) = fields
    BY <2>2, <2>3, ProgramTable, OverlayReadsBack DEF ReadsBack
  <2> QED
    BY <2>3, <2>4 DEF s, fields
<1>4. ASSUME NEW n \in DOMAIN c.groups
      PROVE  /\ Section("group", n) \in DOMAIN sections
             /\ Overlay(GroupKeys, noGroupConfig, sections[Section("group", n)])
                  = c.groups[n]
  <2> DEFINE s == Section("group", n)
             fields == c.groups[n]
  <2>1. \A l : Says(c, r, s, l) <=> <<s, l>> \in Spoken(s, GroupKeys, fields)
    BY SpokenLines, SectionsDiffer DEF Says
  <2>2. AreFields(GroupKeys, fields)
    BY DEF Sound, AreGroups
  <2>3. "environment" \notin DOMAIN GroupKeys
    BY DEF GroupKeys
  <2> HIDE DEF s, fields
  <2>4. s \in DOMAIN sections /\ ReadsBack(GroupKeys, fields, sections[s])
    BY <2>1, GroupTable, MirroredSection
  <2>5. Overlay(GroupKeys, noGroupConfig, sections[s]) = fields
    BY <2>2, <2>3, <2>4, GroupTable, OverlayReadsBack DEF ReadsBack
  <2> QED
    BY <2>4, <2>5 DEF s, fields
<1>5. ASSUME NEW s \in DOMAIN sections
      PROVE  \/ s = Direktord
             \/ s = Email /\ Mailed(c, r)
             \/ s = Include
             \/ \E n \in DOMAIN c.programs : s = Section("program", n)
             \/ \E n \in DOMAIN c.groups : s = Section("group", n)
  <2>1. PICK l : Says(c, r, s, l)
    BY DEF Mirrors
  <2> QED
    BY <2>1, SpokenLines DEF Says
<1>6. Restores(sections, c)
  BY <1>1, <1>2, <1>3, <1>4, <1>5 DEF Restores
<1> QED
  BY <1>1, <1>2, <1>3, <1>4, <1>6

(* Whatever the order, the whole of it.                                    *)
LEMMA NothingRestored ==
  ASSUME NEW c
  PROVE  NoConfig = Restored(c, {})
<1>1. \A f, type : Restricted(f, type, {}) = <<>>
  <2>1. \A f, type : {m \in DOMAIN f : Section(type, m) \in {}} = {}
    OBVIOUS
  <2>2. \A f : [n \in {} |-> f[n]] = <<>>
    OBVIOUS
  <2> QED
    BY <2>1, <2>2 DEF Restricted
<1> QED
  BY <1>1 DEF NoConfig, Restored, Struct

LEMMA AllRestored ==
  ASSUME NEW c, Sound(c), NEW V, Direktord \in V, Email \notin V => c.email = noEmailConfig,
         \A n \in DOMAIN c.programs : Section("program", n) \in V,
         \A n \in DOMAIN c.groups : Section("group", n) \in V
  PROVE  Restored(c, V) = c
<1>1. Restricted(c.programs, "program", V) = [n \in DOMAIN c.programs |-> c.programs[n]]
  <2>1. {m \in DOMAIN c.programs : Section("program", m) \in V} = DOMAIN c.programs
    OBVIOUS
  <2> QED
    BY <2>1 DEF Restricted
<1>2. Restricted(c.groups, "group", V) = [n \in DOMAIN c.groups |-> c.groups[n]]
  <2>1. {m \in DOMAIN c.groups : Section("group", m) \in V} = DOMAIN c.groups
    OBVIOUS
  <2> QED
    BY <2>1 DEF Restricted
<1> DEFINE p == Restricted(c.programs, "program", V)
           g == Restricted(c.groups, "group", V)
<1>3. /\ p = c.programs /\ g = c.groups
      /\ c = [supervisor |-> c.supervisor, email |-> c.email,
              programs |-> c.programs, groups |-> c.groups]
  BY <1>1, <1>2, Zenon DEF Sound, ArePrograms, AreGroups, IsMap, Struct
<1>4. Restored(c, V) = Struct(c.supervisor, c.email, p, g)
  BY DEF Restored
<1> HIDE DEF p, g
<1>5. Struct(c.supervisor, c.email, p, g)
        = [supervisor |-> c.supervisor, email |-> c.email,
           programs |-> c.programs, groups |-> c.groups]
  BY <1>3 DEF Struct
<1> QED
  BY <1>3, <1>4, <1>5, Zenon
-----------------------------------------------------------------------------
(* The orders in which Parse() may visit what was written.                 *)
LEMMA AgreesFinite ==
  ASSUME NEW E, NEW seq \in Seq(E), NEW sections, Agrees(sections, seq)
  PROVE  IsFiniteSet(DOMAIN sections)
<1> DEFINE n == Len(seq)
           D == DOMAIN sections
           I == 1..n
           f == [i \in I |-> seq[i].section]
           C == {seq[i].section : i \in I}
<1>1. n \in Nat
  OBVIOUS
<1>2. \A s \in D : \E i \in I : seq[i].section = s
  BY DEF Agrees
<1>3. IsFiniteSet(I)
  BY <1>1, FS_Interval
<1> HIDE DEF D, I
<1>4. f \in Surjection(I, C)
  BY DEF Surjection
<1>5. D \subseteq C
  BY <1>2
<1> HIDE DEF f, C
<1> QED
  BY <1>3, <1>4, <1>5, FS_Surjection, FS_Subset DEF D

(* The sections of the file that set up the structs, in any order.         *)
LEMMA OrdersOfTwo ==
  ASSUME NEW x, NEW y, x # y, NEW S, S = {x} \/ S = {x, y}
  PROVE  /\ SetToSeqs(S) # {}
         /\ \A order \in SetToSeqs(S) :
              /\ order \in Seq(S) /\ Range(order) = S
              /\ \A i, j \in 1..Len(order) : i # j => order[i] # order[j]
<1> DEFINE n == Cardinality(S)
<1>1. (S = {x} /\ n = 1) \/ (S = {x, y} /\ n = 2)
  <2>1. \A z : IsFiniteSet({z}) /\ Cardinality({z}) = 1
    BY FS_Singleton
  <2>2. Cardinality({x} \cup {y}) = 1 + 1
    <3>1. y \notin {x} /\ IsFiniteSet({x}) /\ Cardinality({x}) = 1
      BY <2>1
    <3> QED
      BY <3>1, FS_AddElement
  <2>3. {x, y} = {x} \cup {y}
    OBVIOUS
  <2> QED
    BY <2>1, <2>2, <2>3
<1>2. SetToSeqs(S) = {f \in [1..n -> S] : \A i, j \in 1..n : i # j => f[i] # f[j]}
  BY DEF SetToSeqs
<1> HIDE DEF n
<1>3. SetToSeqs(S) # {}
  <2>1. CASE S = {x} /\ n = 1
    <3>1. [i \in 1..n |-> x] \in SetToSeqs(S)
      BY <1>2, <2>1
    <3> QED
      BY <3>1
  <2>2. CASE S = {x, y} /\ n = 2
    <3>1. [i \in 1..n |-> IF i = 1 THEN x ELSE y] \in SetToSeqs(S)
      BY <1>2, <2>2
    <3> QED
      BY <3>1
  <2> QED
    BY <1>1, <2>1, <2>2
<1>4. ASSUME NEW order \in SetToSeqs(S)
      PROVE  /\ order \in Seq(S) /\ Range(order) = S
             /\ \A i, j \in 1..Len(order) : i # j => order[i] # order[j]
  <2>1. n \in Nat /\ order \in [1..n -> S] /\ \A i, j \in 1..n : i # j => order[i] # order[j]
    BY <1>1, <1>2
  <2>2. order \in Seq(S) /\ Len(order) = n /\ DOMAIN order = 1..n
    BY <2>1, FunctionIsSeq
  <2>3. Range(order) \subseteq S
    BY <2>1 DEF Range
  <2>4. S \subseteq Range(order)
    <3>1. CASE S = {x} /\ n = 1
      <4>1. 1 \in 1..n /\ order[1] = x
        BY <2>1, <3>1
      <4> QED
        BY <2>2, <3>1, <4>1 DEF Range
    <3>2. CASE S = {x, y} /\ n = 2
      <4>1. 1 \in 1..n /\ 2 \in 1..n
        BY <3>2
      <4>2. order[1] \in {x, y} /\ order[2] \in {x, y} /\ order[1] # order[2]
        BY <2>1, <3>2, <4>1
      <4>3. \A z \in {x, y} : z = order[1] \/ z = order[2]
        BY <4>2
      <4> QED
        BY <2>2, <3>2, <4>1, <4>3 DEF Range
    <3> QED
      BY <1>1, <3>1, <3>2
  <2> QED
    BY <2>1, <2>2, <2>3, <2>4
<1> QED
  BY <1>3, <1>4

LEMMA ConfigsRestore ==
  ASSUME NEW sections, IsFiniteSet(DOMAIN sections), NEW c, Sound(c), Restores(sections, c),
         Direktord \in DOMAIN sections,
         Email \notin DOMAIN sections => c.email = noEmailConfig,
         \A n \in DOMAIN c.programs : Section("program", n) \in DOMAIN sections,
         \A n \in DOMAIN c.groups : Section("group", n) \in DOMAIN sections
  PROVE  Configs(sections) = {c}
<1> DEFINE D == DOMAIN sections
           shared == D \cap (Globals \cup Mails)
           rest == D \ shared
           others == InSomeOrder(rest)
<1>1. \A s \in D : s \in Globals \cup Mails => s \in {Direktord, Email}
  BY KindsOfSections DEF Restores
<1>2. shared = {Direktord} \/ shared = {Direktord, Email}
  <2>1. Direktord \in shared /\ shared \subseteq {Direktord, Email}
    BY <1>1, KindsOfSections
  <2> QED
    BY <2>1
<1>3. /\ SetToSeqs(shared) # {}
      /\ \A order \in SetToSeqs(shared) :
              /\ order \in Seq(shared) /\ Range(order) = shared
              /\ \A i, j \in 1..Len(order) : i # j => order[i] # order[j]
  <2> HIDE DEF shared
  <2> QED
    BY <1>2, SectionsDiffer, OrdersOfTwo
<1>4. others \in Seq(rest) /\ Range(others) = rest
  <2>1. IsFiniteSet(rest)
    BY FS_Difference, FS_Subset
  <2> HIDE DEF rest
  <2> QED
    BY <2>1, InSomeOrderIs
<1>5. shared \subseteq D /\ rest \subseteq D /\ shared \cup rest = D /\ rest \cap (Globals \cup Mails) = {}
  OBVIOUS
<1>6. Configs(sections) = {Visited(Visited(NoConfig, sections, order), sections, others) :
                             order \in SetToSeqs(shared)}
  BY DEF Configs
<1> HIDE DEF D, shared, rest, others
<1>7. ASSUME NEW order \in SetToSeqs(shared)
      PROVE  Visited(Visited(NoConfig, sections, order), sections, others) = c
  <2>1. /\ order \in Seq(shared) /\ Range(order) = shared
        /\ \A i, j \in 1..Len(order) : i # j => order[i] # order[j]
    BY <1>3
  <2>2. order \in Seq(DOMAIN sections)
    BY <1>5, <2>1 DEF D
  <2>3. Visited(Restored(c, {}), sections, order) = Restored(c, {} \cup shared)
    BY <2>1, <2>2, RestoreVisits
  <2>4. others \in Seq(DOMAIN sections) /\ \A i \in 1..Len(others) : others[i] \notin Globals \cup Mails
    BY <1>4, <1>5 DEF D
  <2>5. Visited(Restored(c, shared), sections, others) = Restored(c, shared \cup rest)
    BY <1>4, <2>4, RestoreVisits
  <2>6. Restored(c, shared \cup rest) = c
    <3> DEFINE V == shared \cup rest
    <3>1. V = DOMAIN sections
      BY <1>5 DEF D
    <3> HIDE DEF V
    <3>2. Restored(c, V) = c
      BY <3>1, AllRestored
    <3> QED
      BY <3>2 DEF V
  <2> QED
    BY <2>3, <2>5, <2>6, NothingRestored
<1> QED
  BY <1>3, <1>6, <1>7

(* A daemon that is given the tree that was written for a configuration,   *)
(* and nothing else beside it, gets that configuration, in whichever order *)
(* Go visits what the parser finds (main.go:191-362, config.go:46-88).     *)
THEOREM WrittenIsRead ==
  ASSUME NEW d, WellFormed(d), NEW c, NEW r, Sound(c), Held(d, c, r),
         Mailed(c, r) \/ c.email = noEmailConfig,
         \A n \in DOMAIN c.programs : Plain(c.programs[n]["environment"])
  PROVE  Parse(d, OutMain) = {c}
<1> DEFINE sections == ParseINI(d)[OutMain].sections
<1>1. ParseINI(d)[OutMain].ok /\ OutMain \in Paths
  BY OutputIsClosed, ConvertAssumption
<1>2. Mirrors(sections, c, r)
  BY OutputIsRead
<1>3. IsFiniteSet(DOMAIN sections)
  BY <1>1, TreeAgrees, AgreesFinite
<1> HIDE DEF sections
<1>4. /\ Restores(sections, c)
      /\ Direktord \in DOMAIN sections
      /\ Mailed(c, r) => Email \in DOMAIN sections
      /\ \A n \in DOMAIN c.programs : Section("program", n) \in DOMAIN sections
      /\ \A n \in DOMAIN c.groups : Section("group", n) \in DOMAIN sections
  BY <1>2, MirrorsRestore
<1>5. Configs(sections) = {c}
  BY <1>3, <1>4, ConfigsRestore
<1> QED
  BY <1>1, <1>5 DEF Parse, sections
-----------------------------------------------------------------------------
(* What Parse() makes of a source that can be written again.               *)
Placed(s) ==
  /\ Named(s, "program") => s.name \in Range(Names) /\ programFile(s.name) \in StemFiles
  /\ Named(s, "group") => s.name \in Range(Names) /\ groupFile(s.name) \in StemFiles

CanStand(sections) ==
  \A s \in DOMAIN sections :
    /\ Placed(s)
    /\ \A k \in DOMAIN sections[s] : k = "files" \/ MayStand(sections[s][k])

LEMMA FitsPlaces ==
  ASSUME NEW l, Fits(l)
  PROVE  /\ l.line = "section" => Placed(l.section)
         /\ l.line = "key" => MayStand(l.value)
BY DEF Fits, Placed, MayStand

LEMMA NoSectionIsPlaced == Placed(NoSection)
<1>1. NoSection.type = ""
  BY DEF NoSection, Section
<1> QED
  BY <1>1 DEF Placed, Named

LEMMA SectionIsPlaced ==
  ASSUME NEW lines, Len(lines) \in Nat, \A i \in 1..Len(lines) : Fits(lines[i])
  PROVE  \A i \in 0..Len(lines) : Placed(SectionAt(lines, i))
<1> DEFINE size == Len(lines)
           S == {n \in 0..size : Placed(SectionAt(lines, n))}
<1>1. 0 \in S
  BY SectionSteps, NoSectionIsPlaced
<1>2. ASSUME NEW n \in 0..(size - 1), n \in S
      PROVE  n + 1 \in S
  <2>1. n + 1 \in 1..size /\ n + 1 \in 0..size /\ n + 1 \in Nat \ {0} /\ (n + 1) - 1 = n
    OBVIOUS
  <2>2. lines[n + 1].line = "section" => Placed(lines[n + 1].section)
    BY <2>1, FitsPlaces
  <2>3. SectionAt(lines, n + 1)
          = IF lines[n + 1].line = "section" THEN lines[n + 1].section ELSE SectionAt(lines, n)
    BY <2>1, SectionSteps
  <2> QED
    BY <1>2, <2>1, <2>2, <2>3
<1> HIDE DEF S
<1>3. 0..size \subseteq S
  BY <1>1, <1>2, UpTo
<1> QED
  BY <1>3 DEF S

(* The lines of the administrator's own files can be written again.        *)
AllFit(d) == \A p \in Own : \A l \in Range(d[p].lines) : Fits(l)

LEMMA StandingFits ==
  ASSUME NEW d, SourceOK(d), AllFit(d), NEW e \in Standing(d, Own)
  PROVE  /\ Placed(e.section)
         /\ e.key # "" => e.key = "files" \/ MayStand(e.value)
<1>0. PICK q \in Own : \E i \in 1..Len(d[q].lines) :
        Shows(d[q].lines, i) /\ e = Entry(q, SectionAt(d[q].lines, i), d[q].lines[i])
  BY DEF Standing
<1>1. PICK i \in 1..Len(d[q].lines) :
        Shows(d[q].lines, i) /\ e = Entry(q, SectionAt(d[q].lines, i), d[q].lines[i])
  BY <1>0
<1> DEFINE lines == d[q].lines
           l == lines[i]
<1>2. Len(lines) \in Nat /\ \A j \in 1..Len(lines) : IsLine(lines[j]) /\ Fits(lines[j])
  <2>1. Len(lines) \in Nat /\ DOMAIN lines = 1..Len(lines) /\ \A j \in 1..Len(lines) : IsLine(lines[j])
    BY OwnLines
  <2>2. \A j \in 1..Len(lines) : lines[j] \in Range(lines)
    BY <2>1 DEF Range
  <2> QED
    BY <2>1, <2>2 DEF AllFit
<1>3. Placed(SectionAt(lines, i)) /\ IsLine(l) /\ Fits(l)
  <2>1. i \in 0..Len(lines)
    BY <1>2
  <2> QED
    BY <1>2, <2>1, SectionIsPlaced
<1>4. e.section = SectionAt(lines, i)
  BY <1>1, EntrySection
<1>5. CASE l.line = "section"
  <2>1. e.key = ""
    BY <1>1, <1>5 DEF Entry
  <2> QED
    BY <1>3, <1>4, <2>1
<1>6. CASE l.line # "section"
  <2>1. e.key = l.key /\ e.value = l.value
    BY <1>1, <1>6, KeyEntry
  <2>2. l.line = "key" \/ (l.line = "files" /\ l.key = "files")
    BY <1>3, <1>6 DEF IsLine
  <2> QED
    BY <1>3, <1>4, <2>1, <2>2, FitsPlaces
<1> QED
  BY <1>5, <1>6

LEMMA OwnIsClosed ==
  ASSUME NEW d, SourceOK(d)
  PROVE  Closed(d, Own)
<1> SUFFICES ASSUME NEW q \in Own, NEW i \in 1..Len(d[q].lines), NEW n, Includes(d, q, i, n)
             PROVE  n \in Own
  BY DEF Closed, SourceOK, Own
<1> DEFINE names == d[q].lines[i].value.names
<1>1. names \in Seq(Own)
  BY OwnLines DEF Includes
<1>2. n \in Range(names)
  BY DEF Includes
<1> HIDE DEF names
<1> QED
  BY <1>1, <1>2 DEF Range

LEMMA ParsedCanStand ==
  ASSUME NEW d, WellFormed(d), SourceOK(d), AllFit(d), NEW p \in Own, ParseINI(d)[p].ok
  PROVE  LET sections == ParseINI(d)[p].sections
         IN /\ CanStand(sections) /\ IsFiniteSet(DOMAIN sections)
            /\ \A s \in DOMAIN sections : \E e \in Range(Reading(d)[p]) : e.section = s
<1> DEFINE sections == ParseINI(d)[p].sections
           reading == Reading(d)[p]
           G == Standing(d, Own)
<1>1. p \in Paths
  BY DEF Own
<1>2. reading \in Seq(G)
  BY OwnIsClosed, ReadingStands
<1>3. Agrees(sections, reading) /\ IsFiniteSet(DOMAIN sections)
  BY <1>1, TreeAgrees, AgreesFinite
<1> HIDE DEF reading, G, sections
<1>4. \A i \in 1..Len(reading) : reading[i] \in G /\ reading[i] \in Range(reading)
  BY <1>2 DEF Range
<1>5. /\ \A s \in DOMAIN sections : \E i \in 1..Len(reading) : reading[i].section = s
      /\ \A s \in DOMAIN sections : \A k \in DOMAIN sections[s] : k # ""
      /\ \A s \in DOMAIN sections : \A k \in DOMAIN sections[s] :
           \E i \in 1..Len(reading) : reading[i].key = k /\ sections[s][k] = reading[i].value
  <2>1. \A s \in DOMAIN sections : \E i \in 1..Len(reading) : reading[i].section = s
    BY <1>3 DEF Agrees
  <2>2. \A s \in DOMAIN sections : \A k \in DOMAIN sections[s] : k # ""
    BY <1>3, Zenon DEF Agrees
  <2>3. \A s \in DOMAIN sections : \A k \in DOMAIN sections[s] :
          \E i \in 1..Len(reading) :
            LastIs(reading, i, s, k) /\ sections[s][k] = reading[i].value
    BY <1>3 DEF Agrees
  <2>4. ASSUME NEW s \in DOMAIN sections, NEW k \in DOMAIN sections[s]
        PROVE  \E i \in 1..Len(reading) : reading[i].key = k /\ sections[s][k] = reading[i].value
    <3>1. PICK i \in 1..Len(reading) :
            LastIs(reading, i, s, k) /\ sections[s][k] = reading[i].value
      BY <2>3
    <3>2. reading[i].key = k
      BY <3>1 DEF LastIs, Is
    <3> QED
      BY <3>1, <3>2
  <2> QED
    BY <2>1, <2>2, <2>4, Zenon
<1>6. \A e \in G : /\ Placed(e.section)
                   /\ e.key # "" => e.key = "files" \/ MayStand(e.value)
  BY StandingFits DEF G
<1>7. CanStand(sections)
  <2> SUFFICES ASSUME NEW s \in DOMAIN sections
               PROVE  /\ Placed(s)
                      /\ \A k \in DOMAIN sections[s] : k = "files" \/ MayStand(sections[s][k])
    BY DEF CanStand
  <2>1. Placed(s)
    <3>1. PICK i \in 1..Len(reading) : reading[i].section = s
      BY <1>5
    <3>2. reading[i] \in G
      BY <1>4
    <3>3. Placed(reading[i].section)
      BY <1>6, <3>2
    <3> QED
      BY <3>1, <3>3
  <2>2. ASSUME NEW k \in DOMAIN sections[s]
        PROVE  k = "files" \/ MayStand(sections[s][k])
    <3>1. PICK i \in 1..Len(reading) : reading[i].key = k /\ sections[s][k] = reading[i].value
      BY <1>5
    <3>2. k # ""
      BY <1>5
    <3>3. reading[i].key = "files" \/ MayStand(reading[i].value)
      BY <1>4, <1>6, <3>1, <3>2
    <3> QED
      BY <3>1, <3>3
  <2> QED
    BY <2>1, <2>2
<1> QED
  BY <1>3, <1>4, <1>5, <1>7 DEF sections, reading
-----------------------------------------------------------------------------
(* Parse() returns sound configurations.                                   *)
LEMMA StructIs ==
  \A a, b, p, g : /\ Struct(a, b, p, g).supervisor = a /\ Struct(a, b, p, g).email = b
                  /\ Struct(a, b, p, g).programs = p /\ Struct(a, b, p, g).groups = g
BY DEF Struct

LEMMA SoundIs ==
  \A a, b, p, g : Sound(Struct(a, b, p, g)) <=>
                    /\ AreFields(SupervisorKeys, a) /\ AreFields(EmailKeys, b)
                    /\ ArePrograms(p) /\ AreGroups(g)
BY StructIs DEF Sound

IsPut(g, f, n, v) ==
  /\ IsMap(g) /\ DOMAIN g = DOMAIN f \cup {n}
  /\ \A m \in DOMAIN f \cup {n} : g[m] = IF m = n THEN v ELSE f[m]

LEMMA PutIsMap ==
  ASSUME NEW f, NEW n, NEW v
  PROVE  IsPut(Put(f, n, v), f, n, v)
<1> DEFINE g == Put(f, n, v)
<1>1. /\ DOMAIN g = DOMAIN f \cup {n}
      /\ \A m \in DOMAIN f \cup {n} : g[m] = IF m = n THEN v ELSE f[m]
  BY DEF Put
<1>2. g = [m \in DOMAIN f \cup {n} |-> g[m]]
  BY DEF Put
<1> HIDE DEF g
<1>3. IsMap(g)
  BY <1>1, <1>2 DEF IsMap
<1>4. IsPut(g, f, n, v)
  BY <1>1, <1>3 DEF IsPut
<1> QED
  BY <1>4 DEF g

LEMMA ProgramsPut ==
  ASSUME NEW f, ArePrograms(f), NEW n \in Range(Names), programFile(n) \in StemFiles,
         NEW v, AreFields(ProgramKeys, v)
  PROVE  ArePrograms(Put(f, n, v))
<1> DEFINE g == Put(f, n, v)
<1>1. IsPut(g, f, n, v)
  BY PutIsMap
<1>2. \A m \in DOMAIN f : /\ m \in Range(Names) /\ programFile(m) \in StemFiles
                          /\ AreFields(ProgramKeys, f[m])
  BY DEF ArePrograms
<1> HIDE DEF g
<1>3. ArePrograms(g)
  BY <1>1, <1>2 DEF ArePrograms, IsPut
<1> QED
  BY <1>3 DEF g

LEMMA GroupsPut ==
  ASSUME NEW f, AreGroups(f), NEW n \in Range(Names), groupFile(n) \in StemFiles,
         NEW v, AreFields(GroupKeys, v)
  PROVE  AreGroups(Put(f, n, v))
<1> DEFINE g == Put(f, n, v)
<1>1. IsPut(g, f, n, v)
  BY PutIsMap
<1>2. \A m \in DOMAIN f : /\ m \in Range(Names) /\ groupFile(m) \in StemFiles
                          /\ AreFields(GroupKeys, f[m])
  BY DEF AreGroups
<1> HIDE DEF g
<1>3. AreGroups(g)
  BY <1>1, <1>2 DEF AreGroups, IsPut
<1> QED
  BY <1>3 DEF g

LEMMA SoundTurn ==
  ASSUME NEW sections, CanStand(sections), NEW c, Sound(c), NEW s \in DOMAIN sections
  PROVE  /\ Sound(Dispatch(c, s, sections[s]))
         /\ s \notin Mails => Dispatch(c, s, sections[s]).email = c.email
<1> DEFINE a == c.supervisor
           b == c.email
           p == c.programs
           g == c.groups
           kvs == sections[s]
           n == s.name
           after == Dispatch(c, s, kvs)
<1>1. /\ c = Struct(a, b, p, g) /\ AreFields(SupervisorKeys, a) /\ AreFields(EmailKeys, b)
      /\ ArePrograms(p) /\ AreGroups(g)
  BY DEF Sound
<1>2. Placed(s) /\ \A k \in DOMAIN kvs : k = "files" \/ MayStand(kvs[k])
  BY DEF CanStand
<1>3. after = Dispatch(Struct(a, b, p, g), s, kvs)
  BY <1>1
<1> HIDE DEF a, b, p, g, kvs, n, after
<1>4. CASE s \in Globals
  <2>1. \A k \in DOMAIN kvs : k \in DOMAIN SupervisorKeys => MayStand(kvs[k])
    <3>1. "files" \notin DOMAIN SupervisorKeys
      BY DEF SupervisorKeys
    <3> QED
      BY <1>2, <3>1
  <2>2. AreFields(SupervisorKeys, Overlay(SupervisorKeys, a, kvs))
    BY <1>1, <2>1, SupervisorTable, OverlayIsFields
  <2>3. after = Struct(Overlay(SupervisorKeys, a, kvs), b, p, g)
    BY <1>3, <1>4, DispatchCases
  <2> QED
    BY <1>1, <2>2, <2>3, SoundIs, StructIs DEF after, kvs, b
<1>5. CASE s \in Mails
  <2>1. \A k \in DOMAIN kvs : k \in DOMAIN EmailKeys => MayStand(kvs[k])
    <3>1. "files" \notin DOMAIN EmailKeys
      BY DEF EmailKeys
    <3> QED
      BY <1>2, <3>1
  <2>2. AreFields(EmailKeys, Overlay(EmailKeys, b, kvs))
    BY <1>1, <2>1, EmailTable, OverlayIsFields
  <2>3. after = Struct(a, Overlay(EmailKeys, b, kvs), p, g)
    BY <1>3, <1>5, DispatchCases
  <2> QED
    BY <1>1, <1>5, <2>2, <2>3, SoundIs DEF after, kvs
<1>6. CASE Named(s, "program")
  <2> DEFINE v == Overlay(ProgramKeys, defaultProcessConfig, kvs)
  <2>1. \A k \in DOMAIN kvs : k \in DOMAIN ProgramKeys => MayStand(kvs[k])
    <3>1. "files" \notin DOMAIN ProgramKeys
      BY DEF ProgramKeys
    <3> QED
      BY <1>2, <3>1
  <2>2. AreFields(ProgramKeys, v)
    <3>1. AreFields(ProgramKeys, defaultProcessConfig)
      BY ProgramTable DEF Table
    <3> QED
      BY <2>1, <3>1, ProgramTable, OverlayIsFields
  <2>3. after = Struct(a, b, Put(p, n, v), g)
    BY <1>3, <1>6, DispatchCases DEF n
  <2>4. n \in Range(Names) /\ programFile(n) \in StemFiles
    BY <1>2, <1>6 DEF Placed, n
  <2> HIDE DEF v
  <2>5. ArePrograms(Put(p, n, v))
    BY <1>1, <2>2, <2>4, ProgramsPut
  <2> QED
    BY <1>1, <2>3, <2>5, SoundIs, StructIs DEF after, kvs, b
<1>7. CASE Named(s, "group")
  <2> DEFINE v == Overlay(GroupKeys, noGroupConfig, kvs)
  <2>1. \A k \in DOMAIN kvs : k \in DOMAIN GroupKeys => MayStand(kvs[k])
    <3>1. "files" \notin DOMAIN GroupKeys
      BY DEF GroupKeys
    <3> QED
      BY <1>2, <3>1
  <2>2. AreFields(GroupKeys, v)
    <3>1. AreFields(GroupKeys, noGroupConfig)
      BY GroupTable DEF Table
    <3> QED
      BY <2>1, <3>1, GroupTable, OverlayIsFields
  <2>3. after = Struct(a, b, p, Put(g, n, v))
    BY <1>3, <1>7, DispatchCases DEF n
  <2>4. n \in Range(Names) /\ groupFile(n) \in StemFiles
    BY <1>2, <1>7 DEF Placed, n
  <2> HIDE DEF v
  <2>5. AreGroups(Put(g, n, v))
    BY <1>1, <2>2, <2>4, GroupsPut
  <2> QED
    BY <1>1, <2>3, <2>5, SoundIs, StructIs DEF after, kvs, b
<1>8. CASE ~(s \in Globals \cup Mails \/ Named(s, "program") \/ Named(s, "group"))
  <2>1. after = c
    BY <1>1, <1>3, <1>8, DispatchCases
  <2> QED
    BY <2>1 DEF after, kvs
<1> QED
  BY <1>4, <1>5, <1>6, <1>7, <1>8

LEMMA SoundVisits ==
  ASSUME NEW sections, CanStand(sections), NEW c, Sound(c),
         NEW order, order \in Seq(DOMAIN sections)
  PROVE  /\ Sound(Visited(c, sections, order))
         /\ DOMAIN sections \cap Mails = {} => Visited(c, sections, order).email = c.email
<1> DEFINE size == Len(order)
           no == DOMAIN sections \cap Mails = {}
<1>1. size \in Nat /\ DOMAIN order = 1..size /\ \A i \in 1..size : order[i] \in DOMAIN sections
  OBVIOUS
<1>2. PICK f : /\ VisitUpTo(c, sections, order, size, f)
               /\ Visited(c, sections, order) = f[size]
  BY <1>1, VisitLoop
<1>3. \A i \in 0..size :
        f[i] = IF i = 0 THEN c ELSE Dispatch(f[i - 1], order[i], sections[order[i]])
  BY <1>2 DEF VisitUpTo
<1> DEFINE S == {n \in 0..size : Sound(f[n]) /\ (no => f[n].email = c.email)}
<1>4. no => \A i \in 1..size : order[i] \notin Mails
  BY <1>1
<1> HIDE DEF size, no
<1>5. 0 \in S
  BY <1>1, <1>3
<1>6. ASSUME NEW n \in 0..(size - 1), n \in S
      PROVE  n + 1 \in S
  <2> DEFINE i == n + 1
             s == order[i]
  <2>1. i \in 1..size /\ i \in 0..size /\ i - 1 = n /\ i # 0
    BY <1>1
  <2>2. f[i] = Dispatch(f[n], s, sections[s]) /\ s \in DOMAIN sections /\ (no => s \notin Mails)
    BY <1>1, <1>3, <1>4, <2>1
  <2>3. Sound(f[n]) /\ (no => f[n].email = c.email)
    BY <1>6
  <2> HIDE DEF s, i
  <2> DEFINE acc == f[n]
  <2>4. Sound(acc)
    BY <2>3
  <2> HIDE DEF acc
  <2>5. /\ Sound(Dispatch(acc, s, sections[s]))
        /\ s \notin Mails => Dispatch(acc, s, sections[s]).email = acc.email
    BY <2>2, <2>4, SoundTurn
  <2>6. Sound(f[i]) /\ (no => f[i].email = c.email)
    BY <2>2, <2>3, <2>5 DEF acc
  <2> QED
    BY <2>1, <2>6 DEF i
<1> HIDE DEF S
<1>7. 0..size \subseteq S
  BY <1>1, <1>5, <1>6, UpTo
<1>8. size \in S
  BY <1>1, <1>7
<1> QED
  BY <1>2, <1>8 DEF S, no

LEMMA NoConfigIsSound == Sound(NoConfig) /\ NoConfig.email = noEmailConfig
<1> DEFINE none == <<>>
<1>1. DOMAIN none = {} /\ none = [k \in DOMAIN none |-> none[k]]
  BY EmptyDomain
<1>2. NoConfig = Struct(defaultSupervisorConfig, noEmailConfig, none, none)
  BY DEF NoConfig, Struct
<1> HIDE DEF none
<1>3. IsMap(none)
  BY <1>1, Zenon DEF IsMap
<1>4. ArePrograms(none) /\ AreGroups(none)
  <2>1. \A n \in DOMAIN none : FALSE
    BY <1>1
  <2> QED
    BY <1>3, <2>1, Zenon DEF ArePrograms, AreGroups
<1>5. /\ AreFields(SupervisorKeys, defaultSupervisorConfig)
      /\ AreFields(EmailKeys, noEmailConfig)
  BY SupervisorTable, EmailTable DEF Table
<1> QED
  BY <1>2, <1>4, <1>5, SoundIs, StructIs

LEMMA ConfigsAreSound ==
  ASSUME NEW sections, IsFiniteSet(DOMAIN sections), CanStand(sections),
         NEW c \in Configs(sections)
  PROVE  /\ Sound(c)
         /\ DOMAIN sections \cap Mails = {} => c.email = noEmailConfig
<1> DEFINE D == DOMAIN sections
           shared == D \cap (Globals \cup Mails)
           rest == D \ shared
           others == InSomeOrder(rest)
<1>1. Configs(sections) = {Visited(Visited(NoConfig, sections, order), sections, others) :
                             order \in SetToSeqs(shared)}
  BY DEF Configs
<1>2. IsFiniteSet(rest) /\ IsFiniteSet(shared)
  BY FS_Subset
<1>3. shared \subseteq D /\ rest \subseteq D
  OBVIOUS
<1> HIDE DEF D, shared, rest
<1>4. others \in Seq(rest)
  BY <1>2, InSomeOrderIs
<1> HIDE DEF others
<1>5. others \in Seq(DOMAIN sections)
  BY <1>3, <1>4 DEF D
<1>6. PICK order \in SetToSeqs(shared) :
        c = Visited(Visited(NoConfig, sections, order), sections, others)
  BY <1>1
<1>7. order \in Seq(DOMAIN sections)
  <2> DEFINE n == Cardinality(shared)
  <2>1. n \in Nat
    BY <1>2, FS_CardinalityType
  <2>2. order \in [1..n -> shared]
    BY DEF SetToSeqs
  <2> HIDE DEF n
  <2>3. order \in Seq(shared)
    BY <2>1, <2>2, FunctionIsSeq
  <2> QED
    BY <1>3, <2>3 DEF D
<1> DEFINE first == Visited(NoConfig, sections, order)
<1>8. /\ Sound(first)
      /\ DOMAIN sections \cap Mails = {} => first.email = noEmailConfig
  BY <1>7, NoConfigIsSound, SoundVisits
<1> HIDE DEF first
<1>9. /\ Sound(Visited(first, sections, others))
      /\ DOMAIN sections \cap Mails = {} =>
           Visited(first, sections, others).email = first.email
  BY <1>5, <1>8, SoundVisits
<1> QED
  BY <1>6, <1>8, <1>9 DEF first

(* A configuration that was parsed: it is sound, and without a section for *)
(* the mail it has the mail settings of none.                              *)
LEMMA ParsedIsSound ==
  ASSUME NEW d, WellFormed(d), SourceOK(d), AllFit(d), NEW p \in Own, NEW c \in Parse(d, p)
  PROVE  /\ Sound(c)
         /\ c.email = noEmailConfig \/ \E e \in Range(Reading(d)[p]) : e.section \in Mails
<1> DEFINE sections == ParseINI(d)[p].sections
<1>1. ParseINI(d)[p].ok /\ c \in Configs(sections)
  BY DEF Parse
<1>2. /\ CanStand(sections) /\ IsFiniteSet(DOMAIN sections)
      /\ \A s \in DOMAIN sections : \E e \in Range(Reading(d)[p]) : e.section = s
  BY <1>1, ParsedCanStand
<1> HIDE DEF sections
<1>3. /\ Sound(c)
      /\ DOMAIN sections \cap Mails = {} => c.email = noEmailConfig
  BY <1>1, <1>2, ConfigsAreSound
<1> QED
  BY <1>2, <1>3
-----------------------------------------------------------------------------
(* What is written for a configuration: the main file, and one for each    *)
(* program and group.                                                      *)
Item(path, lines) == [path |-> path, lines |-> lines]

ProgramItems(c) == {Item(programFile(n), ProgramLines(c, n)) : n \in DOMAIN c.programs}
GroupItems(c)   == {Item(groupFile(n), GroupLines(c, n)) : n \in DOMAIN c.groups}
Items(c, r) == ({Item(OutMain, renderMainConfig(c, r))} \cup ProgramItems(c)) \cup GroupItems(c)

Spans(x, X) == x \in Seq(X) /\ Range(x) = X

LEMMA SequencesJoin ==
  ASSUME NEW X, NEW x, Spans(x, X), NEW Y, NEW y, Spans(y, Y)
  PROVE  Spans(x \o y, X \cup Y)
<1> DEFINE E == X \cup Y
<1>1. x \in Seq(E) /\ y \in Seq(E)
  BY DEF Spans
<1>2. Range(x) \cup Range(y) = E
  BY DEF Spans
<1> HIDE DEF E
<1>3. x \o y \in Seq(E) /\ Range(x \o y) = Range(x) \cup Range(y)
  BY <1>1, ConcatRange, ConcatProperties
<1>4. Spans(x \o y, E)
  BY <1>2, <1>3 DEF Spans
<1> QED
  BY <1>4 DEF E

LEMMA OutputIsItems ==
  ASSUME NEW c, NEW r, Sound(c)
  PROVE  /\ Output(c, r) \in Seq(Items(c, r))
         /\ Range(Output(c, r)) = Items(c, r)
<1> DEFINE ps == Sorted(DOMAIN c.programs)
           gs == Sorted(DOMAIN c.groups)
           P == ProgramItems(c)
           G == GroupItems(c)
           a == Item(OutMain, renderMainConfig(c, r))
           A == [i \in DOMAIN ps |-> Item(programFile(ps[i]), ProgramLines(c, ps[i]))]
           B == [i \in DOMAIN gs |-> Item(groupFile(gs[i]), GroupLines(c, gs[i]))]
<1>1. Output(c, r) = <<a>> \o A \o B
  BY DEF Output, Item, ProgramLines, GroupLines
<1>2. /\ ps \in Seq(DOMAIN c.programs) /\ Range(ps) = DOMAIN c.programs
      /\ gs \in Seq(DOMAIN c.groups) /\ Range(gs) = DOMAIN c.groups
  <2>1. DOMAIN c.programs \subseteq Range(Names) /\ DOMAIN c.groups \subseteq Range(Names)
    BY DEF Sound, ArePrograms, AreGroups
  <2> QED
    BY <2>1, SortedIs
<1> HIDE DEF ps, gs
<1>3. A \in Seq(P) /\ Range(A) = P
  <2> DEFINE n == Len(ps)
  <2>1. n \in Nat /\ DOMAIN ps = 1..n /\ \A i \in 1..n : ps[i] \in DOMAIN c.programs
    BY <1>2
  <2>2. \A i \in 1..n : Item(programFile(ps[i]), ProgramLines(c, ps[i])) \in P
    BY <2>1 DEF ProgramItems
  <2>3. \A x \in P : \E i \in 1..n : x = Item(programFile(ps[i]), ProgramLines(c, ps[i]))
    BY <1>2, <2>1 DEF ProgramItems, Range
  <2> HIDE DEF n, P
  <2>4. A \in [1..n -> P] /\ DOMAIN A = 1..n
    BY <2>1, <2>2
  <2>5. A \in Seq(P)
    BY <2>1, <2>4, FunctionIsSeq
  <2>6. Range(A) = P
    <3>1. Range(A) \subseteq P
      BY <2>4 DEF Range
    <3>2. P \subseteq Range(A)
      BY <2>1, <2>3 DEF Range
    <3> QED
      BY <3>1, <3>2
  <2> QED
    BY <2>5, <2>6
<1>4. B \in Seq(G) /\ Range(B) = G
  <2> DEFINE n == Len(gs)
  <2>1. n \in Nat /\ DOMAIN gs = 1..n /\ \A i \in 1..n : gs[i] \in DOMAIN c.groups
    BY <1>2
  <2>2. \A i \in 1..n : Item(groupFile(gs[i]), GroupLines(c, gs[i])) \in G
    BY <2>1 DEF GroupItems
  <2>3. \A x \in G : \E i \in 1..n : x = Item(groupFile(gs[i]), GroupLines(c, gs[i]))
    BY <1>2, <2>1 DEF GroupItems, Range
  <2> HIDE DEF n, G
  <2>4. B \in [1..n -> G] /\ DOMAIN B = 1..n
    BY <2>1, <2>2
  <2>5. B \in Seq(G)
    BY <2>1, <2>4, FunctionIsSeq
  <2>6. Range(B) = G
    <3>1. Range(B) \subseteq G
      BY <2>4 DEF Range
    <3>2. G \subseteq Range(B)
      BY <2>1, <2>3 DEF Range
    <3> QED
      BY <3>1, <3>2
  <2> QED
    BY <2>5, <2>6
<1> DEFINE h == <<a>>
<1> HIDE DEF A, B, P, G, a
<1> DEFINE H == {a}
<1>5. Spans(h, H)
  BY DEF Range, Spans
<1> HIDE DEF h, H
<1>6. Spans(A, P) /\ Spans(B, G)
  BY <1>3, <1>4 DEF Spans
<1>7. Spans(h \o A, H \cup P)
  BY <1>5, <1>6, SequencesJoin
<1>8. Spans((h \o A) \o B, (H \cup P) \cup G)
  BY <1>6, <1>7, SequencesJoin
<1> QED
  BY <1>1, <1>8 DEF h, H, P, G, a, Items, Spans

(* Each of them has a header, and lines that can be read.                  *)
LEMMA ItemsAre ==
  ASSUME NEW c, NEW r, Sound(c), NEW x \in Items(c, r)
  PROVE  /\ x.path \in OutputFiles(c) /\ x.path \in Paths /\ Generated(x.path)
         /\ AreLines(x.lines) /\ 1 \in 1..Len(x.lines)
<1>0. \A p, l : Item(p, l).path = p /\ Item(p, l).lines = l
  BY DEF Item
<1>1. OutMain \in Paths /\ StemFiles \subseteq Paths
  BY ConvertAssumption DEF StemFiles
<1>2. Generated(OutMain) /\ \A stem : Generated(Confd(stem))
  BY DEF Generated, Confd
<1>3. ASSUME NEW lines, AreLines(lines), NEW s, NEW keys, NEW fields,
             Spoken(s, keys, fields) \subseteq Stood(lines)
      PROVE  1 \in 1..Len(lines)
  <2>1. <<s, Header(s)>> \in Stood(lines)
    BY <1>3 DEF Spoken
  <2>2. PICK i \in 1..Len(lines) : TRUE
    BY <2>1 DEF Stood
  <2> QED
    BY <1>3, <2>2, LinesAre
<1>4. CASE x = Item(OutMain, renderMainConfig(c, r))
  <2> DEFINE lines == renderMainConfig(c, r)
  <2>1. AreLines(lines) /\ Spoken(Direktord, SupervisorKeys, c.supervisor) \subseteq Stood(lines)
    BY MainStands
  <2> HIDE DEF lines
  <2>2. 1 \in 1..Len(lines)
    BY <1>3, <2>1
  <2>3. x.path = OutMain /\ x.lines = lines
    BY <1>0, <1>4 DEF lines
  <2> QED
    BY <1>1, <1>2, <2>1, <2>2, <2>3 DEF OutputFiles
<1>5. CASE x \in ProgramItems(c)
  <2>1. PICK n \in DOMAIN c.programs : x = Item(programFile(n), ProgramLines(c, n))
    BY <1>5 DEF ProgramItems
  <2> DEFINE lines == ProgramLines(c, n)
  <2>2. AreLines(lines) /\ Stood(lines) = Spoken(Section("program", n), ProgramKeys, c.programs[n])
    BY PartsStand
  <2>3. programFile(n) \in StemFiles
    BY DEF Sound, ArePrograms
  <2> HIDE DEF lines
  <2>4. 1 \in 1..Len(lines)
    BY <1>3, <2>2
  <2>5. x.path = programFile(n) /\ x.lines = lines
    BY <1>0, <2>1 DEF lines
  <2> QED
    BY <1>1, <1>2, <2>2, <2>3, <2>4, <2>5 DEF OutputFiles, ProgramFiles, programFile
<1>6. CASE x \in GroupItems(c)
  <2>1. PICK n \in DOMAIN c.groups : x = Item(groupFile(n), GroupLines(c, n))
    BY <1>6 DEF GroupItems
  <2> DEFINE lines == GroupLines(c, n)
  <2>2. AreLines(lines) /\ Stood(lines) = Spoken(Section("group", n), GroupKeys, c.groups[n])
    BY PartsStand
  <2>3. groupFile(n) \in StemFiles
    BY DEF Sound, AreGroups
  <2> HIDE DEF lines
  <2>4. 1 \in 1..Len(lines)
    BY <1>3, <2>2
  <2>5. x.path = groupFile(n) /\ x.lines = lines
    BY <1>0, <2>1 DEF lines
  <2> QED
    BY <1>1, <1>2, <2>2, <2>3, <2>4, <2>5 DEF OutputFiles, GroupFiles, groupFile
<1> QED
  BY <1>4, <1>5, <1>6 DEF Items
-----------------------------------------------------------------------------
(* A run that has written k of its files.                                  *)
Distinct(out) == \A i, j \in 1..Len(out) : out[i].path = out[j].path => i = j

Remaining(out, k, left) ==
  /\ left \in Seq(Range(out)) /\ Len(left) = Len(out) - k
  /\ \A i \in 1..Len(left) : left[i] = out[k + i]

WrittenUpTo(d, out, k) ==
  Distinct(out) => \A i \in 1..k : d[out[i].path] = File(out[i].lines)

Writing(d, out, left, over, k) ==
  /\ Remaining(out, k, left)
  /\ over => WrittenUpTo(d, out, k)

LEMMA NothingWritten ==
  ASSUME NEW d, NEW out, NEW S, out \in Seq(S), NEW over
  PROVE  Writing(d, out, out, over, 0)
<1>1. Len(out) \in Nat /\ \A i \in 1..Len(out) : 0 + i = i /\ out[i] \in Range(out)
  BY DEF Range
<1>2. out \in [1..Len(out) -> Range(out)]
  BY <1>1
<1>3. out \in Seq(Range(out))
  BY <1>1, <1>2, FunctionIsSeq
<1>4. Len(out) = Len(out) - 0 /\ 1..0 = {}
  BY <1>1
<1>5. Remaining(out, 0, out)
  BY <1>1, <1>3, <1>4 DEF Remaining
<1>6. WrittenUpTo(d, out, 0)
  BY <1>4 DEF WrittenUpTo
<1> QED
  BY <1>5, <1>6 DEF Writing

LEMMA OneWritten ==
  ASSUME NEW d, NEW out, NEW S, out \in Seq(S), NEW left, NEW over, NEW k \in 0..Len(out),
         Writing(d, out, left, over, k), left # <<>>,
         \A i \in 1..Len(out) : out[i].path \in DOMAIN d,
         NEW e, e = [d EXCEPT ![left[1].path] = File(left[1].lines)]
  PROVE  k + 1 \in 0..Len(out) /\ Writing(e, out, Tail(left), over, k + 1)
<1> DEFINE R == Range(out)
           n == Len(out)
           m == k + 1
<1>0. Remaining(out, k, left) /\ (over => WrittenUpTo(d, out, k))
  BY DEF Writing
<1>1. /\ left \in Seq(R) /\ Len(left) = n - k /\ n \in Nat /\ k \in 0..n
      /\ \A i \in 1..Len(left) : left[i] = out[k + i]
  BY <1>0 DEF Remaining
<1> HIDE DEF n, R
<1>2. Len(left) \in Nat /\ Len(left) > 0
  BY <1>1
<1>3. m \in 1..n /\ left[1] = out[m]
  BY <1>1, <1>2
<1>4. Remaining(out, m, Tail(left))
  <2>1. Tail(left) \in Seq(R) /\ Len(Tail(left)) = Len(left) - 1
    BY <1>1, <1>2
  <2>2. \A i \in 1..Len(Tail(left)) : Tail(left)[i] = left[i + 1] /\ i + 1 \in 1..Len(left) /\ k + (i + 1) = m + i
    BY <1>1, <1>2, <2>1
  <2>3. Len(Tail(left)) = n - m
    BY <1>1, <2>1
  <2> QED
    BY <1>1, <2>1, <2>2, <2>3 DEF Remaining, n, R
<1>5. ASSUME over
      PROVE  WrittenUpTo(e, out, m)
  <2> SUFFICES ASSUME Distinct(out), NEW i \in 1..m
               PROVE  e[out[i].path] = File(out[i].lines)
    BY DEF WrittenUpTo
  <2>1. i \in 1..n /\ out[i].path \in DOMAIN d /\ out[m].path \in DOMAIN d
    BY <1>3 DEF n
  <2>2. e = [d EXCEPT ![out[m].path] = File(out[m].lines)]
    BY <1>3
  <2>3. CASE i = m
    BY <2>1, <2>2, <2>3
  <2>4. CASE i # m
    <3>1. i \in 1..k
      BY <1>1, <2>4
    <3>2. out[i].path # out[m].path
      BY <1>3, <2>1, <2>4 DEF Distinct, n
    <3>3. d[out[i].path] = File(out[i].lines)
      BY <1>0, <1>5, <3>1 DEF WrittenUpTo
    <3> QED
      BY <2>1, <2>2, <3>2, <3>3
  <2> QED
    BY <2>3, <2>4
<1>6. k + 1 \in 0..Len(out)
  BY <1>1, <1>3 DEF n
<1> QED
  BY <1>4, <1>5, <1>6 DEF Writing

LEMMA AllWritten ==
  ASSUME NEW d, NEW out, NEW S, out \in Seq(S), NEW over, NEW k \in 0..Len(out),
         Writing(d, out, <<>>, over, k)
  PROVE  k = Len(out)
<1>1. Len(<<>>) = Len(out) - k
  BY DEF Writing, Remaining
<1> QED
  BY <1>1

LEMMA UpToSize == \A n \in Nat : IsFiniteSet(1..n) /\ Cardinality(1..n) = n
<1> TAKE n \in Nat
<1>1. IsFiniteSet(1..n)
  BY FS_Interval
<1>2. Cardinality(1..n) = IF 1 > n THEN 0 ELSE n - 1 + 1
  BY FS_Interval
<1> QED
  BY <1>1, <1>2

(* As many paths as files: no two of them share one.                       *)
LEMMA DistinctPaths ==
  ASSUME NEW out, NEW S, out \in Seq(S),
         Cardinality({out[i].path : i \in DOMAIN out}) = Len(out)
  PROVE  Distinct(out)
<1> DEFINE n == Len(out)
           I == 1..n
           T == {out[i].path : i \in DOMAIN out}
           f == [i \in I |-> out[i].path]
<1>1. n \in Nat /\ DOMAIN out = I
  OBVIOUS
<1>2. IsFiniteSet(I) /\ Cardinality(I) = n
  <2>1. n \in Nat
    BY <1>1
  <2> HIDE DEF n
  <2> QED
    BY <2>1, UpToSize
<1>3. \A x : x \in T <=> \E i \in I : out[i].path = x
  BY <1>1
<1>4. Cardinality(T) = n
  OBVIOUS
<1> HIDE DEF T, I
<1>5. f \in Surjection(I, T)
  BY <1>3 DEF Surjection
<1>6. \A i \in I : f[i] = out[i].path
  OBVIOUS
<1> HIDE DEF f, n
<1>7. f \in Injection(I, T)
  BY <1>2, <1>4, <1>5, FS_Surjection
<1>8. \A i, j \in I : f[i] = f[j] => i = j
  BY <1>7 DEF Injection, IsInjective
<1> QED
  BY <1>6, <1>8 DEF Distinct, I, n
-----------------------------------------------------------------------------
(* What holds of a converter all the time.                                 *)
MeaningInv ==
  /\ WellFormed(disk) /\ AllFit(disk)
  /\ pc # "over" => Sound(cfg)
  /\ pc = "inspect" /\ steady => cfg \in Parse(disk, Main)
  /\ pc \in {"write", "done"} =>
       /\ steady => cfg.email = noEmailConfig \/ Mailed(cfg, raw)
       /\ \E k \in 0..Len(Output(cfg, raw)) :
            /\ Writing(disk, Output(cfg, raw), todo, steady, k)
            /\ pc = "done" => k = Len(Output(cfg, raw))

LEMMA FittingTrees ==
  ASSUME Expressible, NEW t \in Sources \cup Edits, NEW d, DOMAIN d = Paths,
         WellFormed(d), AllFit(d)
  PROVE  WellFormed(Over(d, t)) /\ AllFit(Over(d, t))
<1>1. DOMAIN t \subseteq Paths /\ \A p \in DOMAIN t : IsFile(t[p])
  BY ConvertAssumption
<1>2. \A p \in DOMAIN t : \A l \in Range(t[p].lines) : Fits(l)
  BY DEF Expressible
<1>3. \A p \in Paths : Over(d, t)[p] = IF p \in DOMAIN t THEN t[p] ELSE d[p]
  BY <1>1 DEF Over
<1>4. WellFormed(Over(d, t))
  BY <1>1, <1>3 DEF WellFormed
<1>5. AllFit(Over(d, t))
  BY <1>2, <1>3 DEF AllFit, Own
<1> QED
  BY <1>4, <1>5

LEMMA WritingFits ==
  ASSUME NEW d, DOMAIN d = Paths, WellFormed(d), AllFit(d), NEW path \in Paths, Generated(path),
         NEW lines, AreLines(lines), NEW e, e = [d EXCEPT ![path] = File(lines)]
  PROVE  WellFormed(e) /\ AllFit(e)
<1>1. \A p \in Paths : e[p] = IF p = path THEN File(lines) ELSE d[p]
  OBVIOUS
<1>2. IsFile(File(lines))
  BY FilesAreLines
<1>3. WellFormed(e)
  BY <1>1, <1>2 DEF WellFormed
<1>4. AllFit(e)
  BY <1>1 DEF AllFit, Own
<1> QED
  BY <1>3, <1>4

(* The first lines of a file are lines.                                    *)
LEMMA FirstLines ==
  ASSUME NEW lines, AreLines(lines), 1 \in 1..Len(lines), NEW n \in 0..1
  PROVE  AreLines(SubSeq(lines, 1, n))
<1>1. Len(lines) \in Nat /\ lines \in Seq(Range(lines)) /\ \A l \in Range(lines) : IsLine(l)
  BY DEF AreLines
<1> DEFINE s == SubSeq(lines, 1, n)
           R == Range(lines)
<1>2. DOMAIN s = 1..n /\ \A i \in 1..n : s[i] = lines[i]
  BY <1>1
<1>3. s = [i \in 1..n |-> s[i]]
  BY <1>1
<1>4. \A i \in 1..n : i \in DOMAIN lines
  BY <1>1
<1>5. \A i \in 1..n : s[i] \in R /\ s[i] \in Range(s)
  BY <1>2, <1>4 DEF Range
<1>6. Range(s) \subseteq R
  BY <1>2, <1>5 DEF Range
<1> HIDE DEF s
<1>7. s \in [1..n -> Range(s)] /\ n \in Nat
  BY <1>3, <1>5
<1>8. s \in Seq(Range(s))
  BY <1>7, FunctionIsSeq
<1>9. AreLines(s)
  BY <1>1, <1>6, <1>8 DEF AreLines
<1> QED
  BY <1>9 DEF s

LEMMA OutputPaths ==
  ASSUME NEW c, NEW r, Sound(c)
  PROVE  /\ Output(c, r) \in Seq(Items(c, r)) /\ Len(Output(c, r)) \in Nat
         /\ DOMAIN Output(c, r) = 1..Len(Output(c, r))
         /\ \A i \in 1..Len(Output(c, r)) : Output(c, r)[i] \in Items(c, r)
         /\ \A x \in Items(c, r) : \E i \in 1..Len(Output(c, r)) : Output(c, r)[i] = x
<1> DEFINE out == Output(c, r)
           I == Items(c, r)
<1>1. out \in Seq(I) /\ Range(out) = I
  BY OutputIsItems
<1> HIDE DEF out, I
<1>2. Len(out) \in Nat /\ DOMAIN out = 1..Len(out) /\ \A i \in 1..Len(out) : out[i] \in I
  BY <1>1
<1>3. \A x \in I : \E i \in 1..Len(out) : out[i] = x
  BY <1>1, <1>2 DEF Range
<1> QED
  BY <1>1, <1>2, <1>3 DEF out, I

(* All is written, and nothing else is in conf.d.                          *)
LEMMA WrittenIsHeld ==
  ASSUME NEW d, NEW c, NEW r, Sound(c), Distinct(Output(c, r)),
         WrittenUpTo(d, Output(c, r), Len(Output(c, r))),
         \A p \in StemFiles : d[p] # Absent => p \in OutputFiles(c)
  PROVE  Held(d, c, r)
<1> DEFINE out == Output(c, r)
<1>1. \A i \in 1..Len(out) : d[out[i].path] = File(out[i].lines)
  BY DEF WrittenUpTo
<1>2. \A x \in Items(c, r) : \E i \in 1..Len(out) : out[i] = x
  BY OutputPaths
<1> HIDE DEF out
<1>3. \A x \in Items(c, r) : d[x.path] = File(x.lines)
  BY <1>1, <1>2
<1>4. \A p, l : Item(p, l).path = p /\ Item(p, l).lines = l
  BY DEF Item
<1>5. \A p, l : Item(p, l) \in Items(c, r) => d[p] = File(l)
  BY <1>3, <1>4
<1>6. d[OutMain] = File(renderMainConfig(c, r))
  BY <1>5 DEF Items
<1>7. \A n \in DOMAIN c.programs : d[programFile(n)] = File(ProgramLines(c, n))
  <2> TAKE n \in DOMAIN c.programs
  <2>1. Item(programFile(n), ProgramLines(c, n)) \in Items(c, r)
    BY DEF Items, ProgramItems
  <2> QED
    BY <1>5, <2>1
<1>8. \A n \in DOMAIN c.groups : d[groupFile(n)] = File(GroupLines(c, n))
  <2> TAKE n \in DOMAIN c.groups
  <2>1. Item(groupFile(n), GroupLines(c, n)) \in Items(c, r)
    BY DEF Items, GroupItems
  <2> QED
    BY <1>5, <2>1
<1> QED
  BY <1>6, <1>7, <1>8 DEF Held

(* The next file to write.                                                 *)
LEMMA NextItem ==
  ASSUME NEW d, NEW c, NEW r, Sound(c), NEW left, NEW over, NEW k \in 0..Len(Output(c, r)),
         Writing(d, Output(c, r), left, over, k), left # <<>>
  PROVE  left[1] \in Items(c, r)
<1> DEFINE out == Output(c, r)
<1>1. /\ Len(out) \in Nat /\ \A i \in 1..Len(out) : out[i] \in Items(c, r)
  BY OutputPaths
<1>2. /\ left \in Seq(Range(out)) /\ Len(left) = Len(out) - k
      /\ \A i \in 1..Len(left) : left[i] = out[k + i]
  BY DEF Writing, Remaining
<1> HIDE DEF out
<1>3. Len(left) \in Nat /\ Len(left) > 0
  BY <1>2
<1>4. k + 1 \in 1..Len(out) /\ left[1] = out[k + 1]
  BY <1>1, <1>2, <1>3 DEF out
<1> QED
  BY <1>1, <1>4

(* What a run that has succeeded leaves is the configuration it read.      *)
LEMMA MeaningIsKept ==
  ASSUME MeaningInv
  PROVE  ConversionKeepsMeaning
<1> DEFINE out == Output(cfg, raw)
<1> SUFFICES ASSUME pc = "done", steady, Cardinality(Written) = Len(out),
                    \A i \in DOMAIN Stems :
                      disk[Confd(Stems[i])] # Absent => Confd(Stems[i]) \in Written,
                    \A n \in DOMAIN cfg.programs : \A k \in DOMAIN cfg.programs[n].environment :
                      cfg.programs[n].environment[k] = escapeEnvValue(cfg.programs[n].environment[k])
             PROVE  Parse(disk, OutMain) = {cfg}
  BY DEF ConversionKeepsMeaning
<1>1. /\ WellFormed(disk) /\ Sound(cfg)
      /\ cfg.email = noEmailConfig \/ Mailed(cfg, raw)
  BY DEF MeaningInv
<1>2. PICK k \in 0..Len(out) : Writing(disk, out, todo, steady, k) /\ k = Len(out)
  BY DEF MeaningInv
<1>3. WrittenUpTo(disk, out, Len(out))
  BY <1>2 DEF Writing
<1>4. /\ out \in Seq(Items(cfg, raw)) /\ DOMAIN out = 1..Len(out)
      /\ \A i \in 1..Len(out) : out[i] \in Items(cfg, raw)
  BY <1>1, OutputPaths
<1>5. Distinct(out)
  BY <1>4, DistinctPaths DEF Written
<1>6. Written \subseteq OutputFiles(cfg)
  BY <1>1, <1>4, ItemsAre DEF Written
<1>7. \A p \in StemFiles : disk[p] # Absent => p \in OutputFiles(cfg)
  BY <1>6 DEF StemFiles
<1>8. Held(disk, cfg, raw)
  BY <1>1, <1>3, <1>5, <1>7, WrittenIsHeld
<1>9. \A n \in DOMAIN cfg.programs : Plain(cfg.programs[n]["environment"])
  BY DEF Plain
<1> QED
  BY <1>1, <1>8, <1>9, WrittenIsRead
-----------------------------------------------------------------------------
(* It holds of every step.                                                 *)
LEMMA MeaningStarts ==
  ASSUME Apart, Expressible, Init
  PROVE  MeaningInv
<1> DEFINE none == [p \in Paths |-> Absent]
<1>1. PICK t \in Sources : disk = Over(none, t)
  BY DEF Init
<1>2. DOMAIN none = Paths /\ WellFormed(none) /\ AllFit(none)
  <2>1. Range(Absent.lines) = {}
    BY EmptyDomain DEF Absent, Range
  <2> QED
    BY <2>1, AbsentIsFile DEF WellFormed, AllFit, Own
<1> HIDE DEF none
<1>3. WellFormed(disk) /\ AllFit(disk)
  BY <1>1, <1>2, FittingTrees
<1> QED
  BY <1>3 DEF Init, MeaningInv

LEMMA MeaningStart ==
  ASSUME Apart, ToldInv, MeaningInv, Start
  PROVE  MeaningInv'
<1>0. Main \in Own
  BY ConvertAssumption DEF Apart, Own
<1>1. /\ disk' = disk /\ WellFormed(disk) /\ AllFit(disk) /\ SourceOK(disk)
      /\ \/ pc' = "inspect" /\ cfg' \in Parse(disk, Main)
         \/ pc' = "over"
  BY DEF Start, Ends, MeaningInv, ToldInv
<1>2. CASE pc' = "over"
  BY <1>1, <1>2 DEF MeaningInv
<1>3. CASE pc' = "inspect" /\ cfg' \in Parse(disk, Main)
  <2> DEFINE c == cfg'
  <2>1. c \in Parse(disk, Main)
    BY <1>3
  <2> HIDE DEF c
  <2>2. Sound(c)
    BY <1>0, <1>1, <2>1, ParsedIsSound
  <2> QED
    BY <1>1, <1>3, <2>2 DEF MeaningInv, c
<1> QED
  BY <1>1, <1>2, <1>3

LEMMA MailsAreNamed == \A s \in Mails : s # NoSection /\ ~s.spaced
<1> DEFINE S(type) == Section(type, NoKey)
<1>1. \A type : ~S(type).spaced /\ S(type).type = type
  BY SectionsAreLabels DEF Section
<1>2. Mails = {S("email"), S("notify")} /\ NoSection = S(NoKey)
  BY DEF Mails, NoSection, NoKey
<1> HIDE DEF S
<1>3. NoKey # "email" /\ NoKey # "notify"
  BY DEF NoKey
<1> QED
  BY <1>1, <1>2, <1>3

LEMMA MeaningInspect ==
  ASSUME Apart, ToldInv, ToldInv', MeaningInv, Inspect
  PROVE  MeaningInv'
<1>0. Main \in Own
  BY ConvertAssumption DEF Apart, Own
<1> DEFINE r == parseINIRecursive(disk)
<1>1. /\ disk' = disk /\ WellFormed(disk) /\ AllFit(disk) /\ SourceOK(disk) /\ Sound(cfg)
      /\ pc = "inspect" /\ steady' = steady
      /\ steady => cfg \in Parse(disk, Main)
  BY DEF Inspect, MeaningInv, ToldInv
<1>2. CASE ~r.ok
  <2>1. pc' = "over"
    BY <1>2 DEF Inspect, Ends
  <2> QED
    BY <1>1, <2>1 DEF MeaningInv
<1>3. CASE r.ok
  <2> DEFINE out == Output(cfg, raw')
  <2>1. pc' = "write" /\ cfg' = cfg /\ todo' = out
    BY <1>3 DEF Inspect
  <2>2. ASSUME steady
        PROVE  cfg.email = noEmailConfig \/ Mailed(cfg, raw')
    <3>1. Told(disk, raw')
      BY <1>1, <2>1, <2>2 DEF ToldInv
    <3>2. cfg.email = noEmailConfig \/ \E e \in Range(Reading(disk)[Main]) : e.section \in Mails
      BY <1>0, <1>1, <2>2, ParsedIsSound
    <3>3. ASSUME NEW e \in Range(Reading(disk)[Main]), e.section \in Mails
          PROVE  Mailed(cfg, raw')
      <4>1. e.section # NoSection /\ ~e.section.spaced
        BY <3>3, MailsAreNamed
      <4>2. e.section \in raw'.sections
        BY <1>1, <3>1, <4>1, ReadingIsGood
      <4> QED
        BY <3>3, <4>2 DEF Mailed
    <3> QED
      BY <3>2, <3>3
  <2>3. out \in Seq(Items(cfg, raw')) /\ Len(out) \in Nat
    BY <1>1, OutputPaths
  <2> HIDE DEF out
  <2>4. Writing(disk', out, todo', steady', 0) /\ 0 \in 0..Len(out)
    BY <2>1, <2>3, NothingWritten
  <2> QED
    BY <1>1, <2>1, <2>2, <2>4 DEF MeaningInv, out
<1> QED
  BY <1>2, <1>3

LEMMA MeaningWriteFile ==
  ASSUME ToldInv, MeaningInv, WriteFile
  PROVE  MeaningInv'
<1> DEFINE out == Output(cfg, raw)
<1>1. /\ pc = "write" /\ todo # <<>> /\ todo' = Tail(todo)
      /\ disk' = [disk EXCEPT ![todo[1].path] = File(todo[1].lines)]
      /\ pc' = pc /\ cfg' = cfg /\ raw' = raw /\ steady' = steady
  BY DEF WriteFile
<1>2. /\ DOMAIN disk = Paths /\ WellFormed(disk) /\ AllFit(disk) /\ Sound(cfg)
      /\ steady => cfg.email = noEmailConfig \/ Mailed(cfg, raw)
  BY <1>1 DEF MeaningInv, ToldInv
<1>3. PICK k \in 0..Len(out) : Writing(disk, out, todo, steady, k)
  BY <1>1 DEF MeaningInv
<1>4. todo[1] \in Items(cfg, raw)
  BY <1>1, <1>2, <1>3, NextItem
<1>5. /\ todo[1].path \in Paths /\ Generated(todo[1].path) /\ AreLines(todo[1].lines)
  BY <1>2, <1>4, ItemsAre
<1>6. WellFormed(disk') /\ AllFit(disk')
  BY <1>1, <1>2, <1>5, WritingFits
<1>7. out \in Seq(Items(cfg, raw)) /\ \A i \in 1..Len(out) : out[i].path \in DOMAIN disk
  BY <1>2, OutputPaths, ItemsAre
<1> HIDE DEF out
<1>8. k + 1 \in 0..Len(out) /\ Writing(disk', out, Tail(todo), steady, k + 1)
  BY <1>1, <1>3, <1>7, OneWritten
<1> DEFINE m == k + 1
<1>9. m \in 0..Len(out) /\ Writing(disk', out, todo', steady', m)
  BY <1>1, <1>8
<1> HIDE DEF m
<1> QED
  BY <1>1, <1>2, <1>6, <1>9 DEF MeaningInv, out

LEMMA MeaningWriteFails ==
  ASSUME ToldInv, MeaningInv, WriteFails
  PROVE  MeaningInv'
<1> DEFINE out == Output(cfg, raw)
<1>1. pc = "write" /\ todo # <<>> /\ pc' = "over"
  BY DEF WriteFails, Ends
<1>2. DOMAIN disk = Paths /\ WellFormed(disk) /\ AllFit(disk) /\ Sound(cfg)
  BY <1>1 DEF MeaningInv, ToldInv
<1>3. PICK k \in 0..Len(out) : Writing(disk, out, todo, steady, k)
  BY <1>1 DEF MeaningInv
<1>4. todo[1] \in Items(cfg, raw)
  BY <1>1, <1>2, <1>3, NextItem
<1>5. /\ todo[1].path \in Paths /\ Generated(todo[1].path) /\ AreLines(todo[1].lines)
      /\ 1 \in 1..Len(todo[1].lines)
  BY <1>2, <1>4, ItemsAre
<1>6. \/ disk' = disk
      \/ \E n \in 0..1 : disk' = [disk EXCEPT ![todo[1].path] = File(SubSeq(todo[1].lines, 1, n))]
  BY DEF WriteFails
<1>7. ASSUME NEW n \in 0..1,
             disk' = [disk EXCEPT ![todo[1].path] = File(SubSeq(todo[1].lines, 1, n))]
      PROVE  WellFormed(disk') /\ AllFit(disk')
  <2> DEFINE lines == SubSeq(todo[1].lines, 1, n)
  <2>1. AreLines(lines)
    BY <1>5, FirstLines
  <2>2. disk' = [disk EXCEPT ![todo[1].path] = File(lines)]
    BY <1>7
  <2> HIDE DEF lines
  <2> QED
    BY <1>2, <1>5, <2>1, <2>2, WritingFits
<1>8. WellFormed(disk') /\ AllFit(disk')
  BY <1>2, <1>6, <1>7
<1> QED
  BY <1>1, <1>8 DEF MeaningInv

LEMMA MeaningFinish ==
  ASSUME MeaningInv, Finish
  PROVE  MeaningInv'
<1> DEFINE out == Output(cfg, raw)
<1>1. /\ pc = "write" /\ todo = <<>> /\ pc' = "done" /\ todo' = todo
      /\ disk' = disk /\ cfg' = cfg /\ raw' = raw /\ steady' = steady
  BY DEF Finish
<1>2. /\ WellFormed(disk) /\ AllFit(disk) /\ Sound(cfg)
      /\ steady => cfg.email = noEmailConfig \/ Mailed(cfg, raw)
  BY <1>1 DEF MeaningInv
<1>3. PICK k \in 0..Len(out) : Writing(disk, out, todo, steady, k)
  BY <1>1 DEF MeaningInv
<1>4. out \in Seq(Items(cfg, raw))
  BY <1>2, OutputPaths
<1> HIDE DEF out
<1>5. k = Len(out)
  BY <1>1, <1>3, <1>4, AllWritten
<1>6. Writing(disk', out, todo', steady', k)
  BY <1>1, <1>3
<1> QED
  BY <1>1, <1>2, <1>3, <1>5, <1>6 DEF MeaningInv, out

LEMMA MeaningEdit ==
  ASSUME Expressible, ToldInv, MeaningInv, Edit
  PROVE  MeaningInv'
<1> DEFINE out == Output(cfg, raw)
<1>1. PICK t \in Edits : disk' = Over(disk, t)
  BY DEF Edit
<1>2. /\ steady' = FALSE /\ pc' = pc /\ cfg' = cfg /\ raw' = raw /\ todo' = todo
  BY DEF Edit
<1>3. WellFormed(disk') /\ AllFit(disk')
  BY <1>1, FittingTrees DEF ToldInv, MeaningInv
<1>4. pc # "over" => Sound(cfg)
  BY DEF MeaningInv
<1>5. ASSUME pc \in {"write", "done"}
      PROVE  \E k \in 0..Len(out) : /\ Writing(disk', out, todo, steady', k)
                                    /\ pc = "done" => k = Len(out)
  <2>1. PICK k \in 0..Len(out) : /\ Writing(disk, out, todo, steady, k)
                                 /\ pc = "done" => k = Len(out)
    BY <1>5 DEF MeaningInv
  <2>2. Writing(disk', out, todo, steady', k)
    BY <1>2, <2>1 DEF Writing
  <2> QED
    BY <2>1, <2>2
<1> QED
  BY <1>2, <1>3, <1>4, <1>5 DEF MeaningInv

LEMMA MeaningStutters ==
  ASSUME MeaningInv, UNCHANGED vars
  PROVE  MeaningInv'
BY DEF MeaningInv, vars, Written

(* Whatever the source, as long as what is written is not a part of it and *)
(* what stands in it can be written again: the tree that a run has written *)
(* means what it has read, if nobody edits the source during that run,     *)
(* after any number of runs, failures and edits before it                  *)
(* (main.go:138-175).                                                      *)
THEOREM ConversionIsFaithful ==
  ASSUME Apart, Expressible
  PROVE  Spec => []ConversionKeepsMeaning
<1>1. Init => MeaningInv
  BY MeaningStarts
<1>2. ToldInv /\ ToldInv' /\ MeaningInv /\ [Next]_vars => MeaningInv'
  <2> SUFFICES ASSUME ToldInv, ToldInv', MeaningInv, [Next]_vars
               PROVE  MeaningInv'
    OBVIOUS
  <2>1. CASE Start
    BY <2>1, MeaningStart
  <2>2. CASE Inspect
    BY <2>2, MeaningInspect
  <2>3. CASE WriteFile
    BY <2>3, MeaningWriteFile
  <2>4. CASE WriteFails
    BY <2>4, MeaningWriteFails
  <2>5. CASE Finish
    BY <2>5, MeaningFinish
  <2>6. CASE Edit
    BY <2>6, MeaningEdit
  <2>7. CASE UNCHANGED vars
    BY <2>7, MeaningStutters
  <2> QED
    BY <2>1, <2>2, <2>3, <2>4, <2>5, <2>6, <2>7 DEF Next
<1>3. MeaningInv => ConversionKeepsMeaning
  BY MeaningIsKept
<1>4. Spec => []ToldInv
  BY ToldInvariant
<1> QED
  BY <1>1, <1>2, <1>3, <1>4, PTL DEF Spec
=============================================================================
