------------------------- MODULE LoggerConfigProofs -------------------------
(***************************************************************************)
(* The logger uses what was asked for, for every set of levels, types,     *)
(* texts and formats, and any sequence of configurations.                  *)
(*                                                                         *)
(* A list of configurations is made from settings and merged into the one  *)
(* of the logger, an entry at a time.  Registered says what the settings   *)
(* leave of a list made from nothing: the value of a level is the one of   *)
(* its last source, and the entry stands before the one of Global only if  *)
(* a source does.  Merged says what its entries, in their order, make of a *)
(* list that has every level.  MergedIsStored puts the two together: the   *)
(* order of the list, and not the one of the settings, decides, as Stored  *)
(* says.  SettingsAgreement compares that with what the header promises,   *)
(* for what has not strayed, and the maps are read back to the list they   *)
(* were made from.                                                         *)
(*                                                                         *)
(* A line is made in passes over a format, each of which takes the escape  *)
(* marks off some specifiers and replaces one.  Reached says where the     *)
(* passes so far, for the names done, have brought a format: every token   *)
(* still stands in its place, as itself, without its mark or as the value  *)
(* of its name, and only the first of a name is the value.  The message,   *)
(* which may hold what looks like specifiers, comes last.                  *)
(***************************************************************************)
EXTENDS LoggerConfig, NaturalLemmas

-----------------------------------------------------------------------------
(***************************************************************************)
(* Folds.  What FoldLeft computes is the last of the values it goes        *)
(* through; the recursive function it is defined by exists.                *)
(***************************************************************************)

\* The operators that are folded over a list, by name.
Step(op, x, s) ==
  CASE op = "Set" -> Set(x, s)
    [] op = "SetIn" -> SetIn(x, s)
    [] op = "SetEntry" -> SetEntry(x, s)
    [] op = "SetIfNotExist" -> SetIfNotExist(x, s)
    [] op = "ParseLine" -> ParseLine(x, s)
    [] op = "AddTyped" -> AddTyped(x, s)
    [] op = "InsertFile" -> InsertFile(x, s)
    [] op = "ConditionalAddFlag" -> ConditionalAddFlag(x, s)
    [] op = "Substituted" -> Substituted(s.level, s.flags, x, s.name)
    [] op = "WithValue" -> WithValue(s.logFormat, s.level, s.message, x, s.name)

\* f is what MapThenFoldSet defines for the subsets of 1 .. n.
Solves(f, op, base, list, n) ==
  f = [s \in SUBSET (1 .. n) |->
        IF s = {} THEN base ELSE Step(op, f[s \ {Max(s)}], list[Max(s)])]

\* h goes through the values of the fold, one by one.
Steps(h, op, base, list, n) ==
  /\ h[0] = base
  /\ \A k \in 1 .. n : h[k] = Step(op, h[k - 1], list[k])

LEMMA TopOf ==
  ASSUME NEW n \in Nat, NEW s \in SUBSET (1 .. n), s # {}
  PROVE  /\ Max(s) \in s
         /\ \A x \in s : x <= Max(s)
<1> DEFINE T == {n - x : x \in s}
<1>1. PICK m \in T : \A y \in T : m <= y
  <2>0. \A x \in s : x \in 1 .. n /\ n - x \in Nat
    OBVIOUS
  <2>1. T \in SUBSET Nat /\ T # {}
    BY <2>0
  <2> HIDE DEF T
  <2> QED
    BY <2>1, LeastNumber
<1>2. PICK x \in s : m = n - x
  BY <1>1
<1>3. \A y \in s : x >= y
  <2> SUFFICES ASSUME NEW y \in s PROVE x >= y
    OBVIOUS
  <2>1. n - x <= n - y
    BY <1>1, <1>2
  <2> QED
    BY <2>1
<1>4. \E z \in s : \A y \in s : z >= y
  BY <1>3
<1>5. Max(s) \in s /\ \A y \in s : Max(s) >= y
  <2> DEFINE z == CHOOSE z \in s : \A y \in s : z >= y
  <2>1. z \in s /\ \A y \in s : z >= y
    BY <1>4, Zenon
  <2>2. Max(s) = z
    BY DEF Max
  <2> HIDE DEF z
  <2> QED
    BY <2>1, <2>2
<1> QED
  BY <1>5

LEMMA TopIs ==
  ASSUME NEW n \in Nat, NEW s \in SUBSET (1 .. n + 1), n + 1 \in s
  PROVE  Max(s) = n + 1
<1>1. Max(s) \in s /\ \A x \in s : x <= Max(s)
  <2>1. n + 1 \in Nat /\ s # {}
    OBVIOUS
  <2> QED
    BY <2>1, TopOf
<1>2. Max(s) \in 1 .. n + 1 /\ n + 1 <= Max(s)
  BY <1>1
<1> QED
  BY <1>2

LEMMA FoldExists ==
  ASSUME NEW op, NEW base, NEW list, NEW n \in Nat
  PROVE  \E f : Solves(f, op, base, list, n)
<1> DEFINE S == {k \in 0 .. n : \E f : Solves(f, op, base, list, k)}
<1>1. 0 \in S
  <2>1. Solves([s \in SUBSET (1 .. 0) |-> base], op, base, list, 0)
    <3>1. \A s \in SUBSET (1 .. 0) : s = {}
      OBVIOUS
    <3> QED
      BY <3>1 DEF Solves
  <2> QED
    BY <2>1
<1>2. ASSUME NEW k \in 0 .. n - 1, k \in S PROVE k + 1 \in S
  <2>1. PICK f : Solves(f, op, base, list, k)
    BY <1>2
  <2> DEFINE g == [s \in SUBSET (1 .. k + 1) |->
                    IF k + 1 \in s THEN Step(op, f[s \ {k + 1}], list[k + 1]) ELSE f[s]]
             R(s) == IF s = {} THEN base ELSE Step(op, g[s \ {Max(s)}], list[Max(s)])
  <2>2. ASSUME NEW s \in SUBSET (1 .. k + 1) PROVE g[s] = R(s)
    <3>1. CASE k + 1 \in s
      <4>1. Max(s) = k + 1 /\ s # {}
        BY <3>1, TopIs
      <4>2. s \ {k + 1} \in SUBSET (1 .. k + 1) /\ k + 1 \notin s \ {k + 1}
        OBVIOUS
      <4>3. g[s \ {k + 1}] = f[s \ {k + 1}]
        BY <4>2
      <4>4. g[s] = Step(op, f[s \ {k + 1}], list[k + 1])
        BY <3>1
      <4> HIDE DEF g
      <4> QED
        BY <4>1, <4>3, <4>4
    <3>2. CASE k + 1 \notin s
      <4>1. s \in SUBSET (1 .. k)
        BY <3>2
      <4>2. f[s] = IF s = {} THEN base ELSE Step(op, f[s \ {Max(s)}], list[Max(s)])
        BY <2>1, <4>1 DEF Solves
      <4>3. s \ {Max(s)} \in SUBSET (1 .. k + 1) /\ k + 1 \notin s \ {Max(s)}
        BY <3>2
      <4>4. g[s] = f[s] /\ g[s \ {Max(s)}] = f[s \ {Max(s)}]
        BY <3>2, <4>3
      <4> HIDE DEF g
      <4> QED
        BY <4>2, <4>4
    <3> QED
      BY <3>1, <3>2
  <2>3. g = [s \in SUBSET (1 .. k + 1) |-> g[s]]
    OBVIOUS
  <2> HIDE DEF g
  <2>4. g = [s \in SUBSET (1 .. k + 1) |-> R(s)]
    <3> HIDE DEF R
    <3> QED
      BY <2>2, <2>3
  <2>5. Solves(g, op, base, list, k + 1)
    BY <2>4 DEF Solves
  <2> QED
    BY <2>5
<1>3. S = 0 .. n
  <2>1. S \in SUBSET (0 .. n)
    OBVIOUS
  <2> HIDE DEF S
  <2> QED
    BY <1>1, <1>2, <2>1, InductionTo
<1> QED
  BY <1>3

LEMMA FoldSteps ==
  ASSUME NEW op, NEW base, NEW list, NEW n \in Nat, NEW f, Solves(f, op, base, list, n)
  PROVE  \E h : Steps(h, op, base, list, n) /\ h[n] = f[1 .. n]
<1> DEFINE h == [k \in 0 .. n |-> f[1 .. k]]
<1>1. ASSUME NEW s \in SUBSET (1 .. n)
      PROVE  f[s] = IF s = {} THEN base ELSE Step(op, f[s \ {Max(s)}], list[Max(s)])
  BY Zenon DEF Solves
<1>2. h[0] = base
  BY <1>1
<1>3. ASSUME NEW k \in 1 .. n PROVE h[k] = Step(op, h[k - 1], list[k])
  <2>1. Max(1 .. k) = k
    <3> DEFINE m == k - 1
    <3>1. m \in Nat /\ k = m + 1
      OBVIOUS
    <3> HIDE DEF m
    <3>2. Max(1 .. m + 1) = m + 1
      <4>1. 1 .. m + 1 \in SUBSET (1 .. m + 1) /\ m + 1 \in 1 .. m + 1
        BY <3>1
      <4> QED
        BY <3>1, <4>1, TopIs
    <3> QED
      BY <3>1, <3>2
  <2>2. (1 .. k) \ {k} = 1 .. k - 1 /\ 1 .. k # {} /\ 1 .. k \in SUBSET (1 .. n)
    OBVIOUS
  <2>3. f[1 .. k] = Step(op, f[1 .. k - 1], list[k])
    BY <1>1, <2>1, <2>2
  <2> QED
    BY <2>3
<1>4. h[n] = f[1 .. n]
  OBVIOUS
<1> HIDE DEF h
<1> QED
  BY <1>2, <1>3, <1>4 DEF Steps

LEMMA SetAllSteps ==
  ASSUME NEW base, NEW list, NEW n \in Nat, DOMAIN list = 1 .. n
  PROVE  \E h : Steps(h, "Set", base, list, n) /\ SetAll(base, list) = h[n]
<1> DEFINE iter == CHOOSE f : f = [s \in SUBSET DOMAIN list |->
                     IF s = {} THEN base ELSE Set(f[s \ {Max(s)}], list[Max(s)])]
<1>1. SetAll(base, list) = iter[DOMAIN list]
  BY DEF SetAll, FoldLeft, MapThenFoldSet
<1>2. PICK f : Solves(f, "Set", base, list, n)
  BY FoldExists
<1>3. f = [s \in SUBSET DOMAIN list |->
            IF s = {} THEN base ELSE Set(f[s \ {Max(s)}], list[Max(s)])]
  BY <1>2 DEF Solves, Step
<1>4. iter = [s \in SUBSET DOMAIN list |->
               IF s = {} THEN base ELSE Set(iter[s \ {Max(s)}], list[Max(s)])]
  BY <1>3, Zenon
<1> HIDE DEF iter
<1>5. Solves(iter, "Set", base, list, n)
  BY <1>4 DEF Solves, Step
<1> QED
  BY <1>1, <1>5, FoldSteps

LEMMA SetInSteps ==
  ASSUME NEW base, NEW list, NEW n \in Nat, DOMAIN list = 1 .. n
  PROVE  \E h : Steps(h, "SetIn", base, list, n) /\ FoldLeft(SetIn, base, list) = h[n]
<1> DEFINE iter == CHOOSE f : f = [s \in SUBSET DOMAIN list |->
                     IF s = {} THEN base ELSE SetIn(f[s \ {Max(s)}], list[Max(s)])]
<1>1. FoldLeft(SetIn, base, list) = iter[DOMAIN list]
  BY DEF FoldLeft, MapThenFoldSet
<1>2. PICK f : Solves(f, "SetIn", base, list, n)
  BY FoldExists
<1>3. f = [s \in SUBSET DOMAIN list |->
            IF s = {} THEN base ELSE SetIn(f[s \ {Max(s)}], list[Max(s)])]
  BY <1>2 DEF Solves, Step
<1>4. iter = [s \in SUBSET DOMAIN list |->
               IF s = {} THEN base ELSE SetIn(iter[s \ {Max(s)}], list[Max(s)])]
  BY <1>3, Zenon
<1> HIDE DEF iter
<1>5. Solves(iter, "SetIn", base, list, n)
  BY <1>4 DEF Solves, Step
<1> QED
  BY <1>1, <1>5, FoldSteps

LEMMA SetEntrySteps ==
  ASSUME NEW base, NEW list, NEW n \in Nat, DOMAIN list = 1 .. n
  PROVE  \E h : Steps(h, "SetEntry", base, list, n) /\ FoldLeft(SetEntry, base, list) = h[n]
<1> DEFINE iter == CHOOSE f : f = [s \in SUBSET DOMAIN list |->
                     IF s = {} THEN base ELSE SetEntry(f[s \ {Max(s)}], list[Max(s)])]
<1>1. FoldLeft(SetEntry, base, list) = iter[DOMAIN list]
  BY DEF FoldLeft, MapThenFoldSet
<1>2. PICK f : Solves(f, "SetEntry", base, list, n)
  BY FoldExists
<1>3. f = [s \in SUBSET DOMAIN list |->
            IF s = {} THEN base ELSE SetEntry(f[s \ {Max(s)}], list[Max(s)])]
  BY <1>2 DEF Solves, Step
<1>4. iter = [s \in SUBSET DOMAIN list |->
               IF s = {} THEN base ELSE SetEntry(iter[s \ {Max(s)}], list[Max(s)])]
  BY <1>3, Zenon
<1> HIDE DEF iter
<1>5. Solves(iter, "SetEntry", base, list, n)
  BY <1>4 DEF Solves, Step
<1> QED
  BY <1>1, <1>5, FoldSteps

LEMMA SetIfNotExistSteps ==
  ASSUME NEW base, NEW list, NEW n \in Nat, DOMAIN list = 1 .. n
  PROVE  \E h : Steps(h, "SetIfNotExist", base, list, n) /\ FoldLeft(SetIfNotExist, base, list) = h[n]
<1> DEFINE iter == CHOOSE f : f = [s \in SUBSET DOMAIN list |->
                     IF s = {} THEN base ELSE SetIfNotExist(f[s \ {Max(s)}], list[Max(s)])]
<1>1. FoldLeft(SetIfNotExist, base, list) = iter[DOMAIN list]
  BY DEF FoldLeft, MapThenFoldSet
<1>2. PICK f : Solves(f, "SetIfNotExist", base, list, n)
  BY FoldExists
<1>3. f = [s \in SUBSET DOMAIN list |->
            IF s = {} THEN base ELSE SetIfNotExist(f[s \ {Max(s)}], list[Max(s)])]
  BY <1>2 DEF Solves, Step
<1>4. iter = [s \in SUBSET DOMAIN list |->
               IF s = {} THEN base ELSE SetIfNotExist(iter[s \ {Max(s)}], list[Max(s)])]
  BY <1>3, Zenon
<1> HIDE DEF iter
<1>5. Solves(iter, "SetIfNotExist", base, list, n)
  BY <1>4 DEF Solves, Step
<1> QED
  BY <1>1, <1>5, FoldSteps

LEMMA ParseLineSteps ==
  ASSUME NEW base, NEW list, NEW n \in Nat, DOMAIN list = 1 .. n
  PROVE  \E h : Steps(h, "ParseLine", base, list, n) /\ FoldLeft(ParseLine, base, list) = h[n]
<1> DEFINE iter == CHOOSE f : f = [s \in SUBSET DOMAIN list |->
                     IF s = {} THEN base ELSE ParseLine(f[s \ {Max(s)}], list[Max(s)])]
<1>1. FoldLeft(ParseLine, base, list) = iter[DOMAIN list]
  BY DEF FoldLeft, MapThenFoldSet
<1>2. PICK f : Solves(f, "ParseLine", base, list, n)
  BY FoldExists
<1>3. f = [s \in SUBSET DOMAIN list |->
            IF s = {} THEN base ELSE ParseLine(f[s \ {Max(s)}], list[Max(s)])]
  BY <1>2 DEF Solves, Step
<1>4. iter = [s \in SUBSET DOMAIN list |->
               IF s = {} THEN base ELSE ParseLine(iter[s \ {Max(s)}], list[Max(s)])]
  BY <1>3, Zenon
<1> HIDE DEF iter
<1>5. Solves(iter, "ParseLine", base, list, n)
  BY <1>4 DEF Solves, Step
<1> QED
  BY <1>1, <1>5, FoldSteps

LEMMA AddTypedSteps ==
  ASSUME NEW base, NEW list, NEW n \in Nat, DOMAIN list = 1 .. n
  PROVE  \E h : Steps(h, "AddTyped", base, list, n) /\ FoldLeft(AddTyped, base, list) = h[n]
<1> DEFINE iter == CHOOSE f : f = [s \in SUBSET DOMAIN list |->
                     IF s = {} THEN base ELSE AddTyped(f[s \ {Max(s)}], list[Max(s)])]
<1>1. FoldLeft(AddTyped, base, list) = iter[DOMAIN list]
  BY DEF FoldLeft, MapThenFoldSet
<1>2. PICK f : Solves(f, "AddTyped", base, list, n)
  BY FoldExists
<1>3. f = [s \in SUBSET DOMAIN list |->
            IF s = {} THEN base ELSE AddTyped(f[s \ {Max(s)}], list[Max(s)])]
  BY <1>2 DEF Solves, Step
<1>4. iter = [s \in SUBSET DOMAIN list |->
               IF s = {} THEN base ELSE AddTyped(iter[s \ {Max(s)}], list[Max(s)])]
  BY <1>3, Zenon
<1> HIDE DEF iter
<1>5. Solves(iter, "AddTyped", base, list, n)
  BY <1>4 DEF Solves, Step
<1> QED
  BY <1>1, <1>5, FoldSteps

LEMMA InsertFileSteps ==
  ASSUME NEW base, NEW list, NEW n \in Nat, DOMAIN list = 1 .. n
  PROVE  \E h : Steps(h, "InsertFile", base, list, n) /\ FoldLeft(InsertFile, base, list) = h[n]
<1> DEFINE iter == CHOOSE f : f = [s \in SUBSET DOMAIN list |->
                     IF s = {} THEN base ELSE InsertFile(f[s \ {Max(s)}], list[Max(s)])]
<1>1. FoldLeft(InsertFile, base, list) = iter[DOMAIN list]
  BY DEF FoldLeft, MapThenFoldSet
<1>2. PICK f : Solves(f, "InsertFile", base, list, n)
  BY FoldExists
<1>3. f = [s \in SUBSET DOMAIN list |->
            IF s = {} THEN base ELSE InsertFile(f[s \ {Max(s)}], list[Max(s)])]
  BY <1>2 DEF Solves, Step
<1>4. iter = [s \in SUBSET DOMAIN list |->
               IF s = {} THEN base ELSE InsertFile(iter[s \ {Max(s)}], list[Max(s)])]
  BY <1>3, Zenon
<1> HIDE DEF iter
<1>5. Solves(iter, "InsertFile", base, list, n)
  BY <1>4 DEF Solves, Step
<1> QED
  BY <1>1, <1>5, FoldSteps

-----------------------------------------------------------------------------
(***************************************************************************)
(* The list of one type.                                                   *)
(***************************************************************************)

Order == <<Global>> \o LevelOrder
N == Len(Order)

\* Has an entry for each of its levels once, all of one type.
IsList(list, n) == n \in Nat /\ list = [i \in 1 .. n |-> list[i]]
Tidy(list, n, type) ==
  /\ IsList(list, n)
  /\ \A i \in 1 .. n : /\ list[i].level \in AllLevels
                       /\ list[i] = Setting(list[i].level, type, list[i].value)
  /\ \A i, j \in 1 .. n : list[i].level = list[j].level => i = j

LEMMA OrderFacts ==
  /\ N \in Nat /\ N >= 4 /\ DOMAIN Order = 1 .. N
  /\ Order[1] = Global
  /\ \A i \in 2 .. N : Order[i] \in Level
  /\ Order[N] = Last(LevelOrder)
  /\ \A i, j \in 1 .. N : Order[i] = Order[j] => i = j
  /\ \A l \in AllLevels : \E i \in 1 .. N : Order[i] = l
  /\ \A i \in 1 .. N : Order[i] \in AllLevels
  /\ Global \notin Level /\ "Unknown" \notin AllLevels
<1> DEFINE m == Len(LevelOrder)
<1>1. /\ m \in Nat /\ DOMAIN LevelOrder = 1 .. m
      /\ LevelOrder \in Seq(Level)
      /\ Level = {LevelOrder[i] : i \in 1 .. m}
      /\ \A i, j \in 1 .. m : LevelOrder[i] = LevelOrder[j] => i = j
  <2>1. LevelOrder \in Seq(Level)
    BY LevelAssumption DEF Level
  <2>2. m \in Nat /\ DOMAIN LevelOrder = 1 .. m
    BY <2>1
  <2>3. Level = {LevelOrder[i] : i \in 1 .. m}
    BY <2>2 DEF Level, Range
  <2>4. \A i, j \in DOMAIN LevelOrder : LevelOrder[i] = LevelOrder[j] => i = j
    BY LevelAssumption DEF IsInjective
  <2> QED
    BY <2>1, <2>2, <2>3, <2>4
<1>2. Global \notin Level /\ "Unknown" \notin AllLevels
  BY LevelAssumption DEF AllLevels, Level, Global
<1>3. m >= 3
  <2>1. {"Debug", "Fatal", "Warning"} \subseteq Level
    BY LevelAssumption DEF Level
  <2>2. PICK i \in 1 .. m, j \in 1 .. m, k \in 1 .. m :
          LevelOrder[i] = "Debug" /\ LevelOrder[j] = "Fatal" /\ LevelOrder[k] = "Warning"
    BY <1>1, <2>1
  <2>3. i # j /\ j # k /\ i # k
    BY <2>2
  <2> QED
    BY <1>1, <2>2, <2>3
<1>4. N = m + 1 /\ N \in Nat /\ DOMAIN Order = 1 .. N /\ Order[1] = Global
      /\ \A i \in 1 .. m : Order[i + 1] = LevelOrder[i]
  <2>1. <<Global>> \in Seq({Global}) /\ Len(<<Global>>) = 1 /\ <<Global>>[1] = Global
    OBVIOUS
  <2>2. /\ N = m + 1 /\ DOMAIN Order = 1 .. N
        /\ \A i \in 1 .. m + 1 :
             Order[i] = IF i <= 1 THEN <<Global>>[i] ELSE LevelOrder[i - 1]
    <3> DEFINE S == AllLevels
    <3>1. <<Global>> \in Seq(S) /\ LevelOrder \in Seq(S)
      BY <1>1 DEF AllLevels
    <3> HIDE DEF S
    <3> QED
      BY <2>1, <3>1 DEF Order, N
  <2>3. \A i \in 1 .. m : Order[i + 1] = LevelOrder[i]
    <3> SUFFICES ASSUME NEW i \in 1 .. m PROVE Order[i + 1] = LevelOrder[i]
      OBVIOUS
    <3>1. i + 1 \in 1 .. m + 1 /\ ~(i + 1 <= 1) /\ (i + 1) - 1 = i
      BY <1>1
    <3> QED
      BY <2>2, <3>1
  <2> QED
    BY <1>1, <2>1, <2>2, <2>3
<1>5. \A i \in 2 .. N : i - 1 \in 1 .. m /\ Order[i] = LevelOrder[i - 1]
  <2> SUFFICES ASSUME NEW i \in 2 .. N
               PROVE  i - 1 \in 1 .. m /\ Order[i] = LevelOrder[i - 1]
    OBVIOUS
  <2>1. i - 1 \in 1 .. m /\ (i - 1) + 1 = i
    BY <1>1, <1>4
  <2> QED
    BY <1>4, <2>1
<1>6. \A i \in 2 .. N : Order[i] \in Level
  BY <1>1, <1>5
<1>7. \A i \in 1 .. N : i = 1 \/ i \in 2 .. N
  BY <1>4
<1>8. \A i, j \in 1 .. N : Order[i] = Order[j] => i = j
  <2> SUFFICES ASSUME NEW i \in 1 .. N, NEW j \in 1 .. N, Order[i] = Order[j]
               PROVE  i = j
    OBVIOUS
  <2>1. CASE i = 1 /\ j = 1
    BY <2>1
  <2>2. CASE i \in 2 .. N /\ j \in 2 .. N
    <3>1. i - 1 = j - 1
      BY <1>1, <1>5, <2>2
    <3> QED
      BY <2>2, <3>1
  <2>3. CASE (i = 1 /\ j \in 2 .. N) \/ (j = 1 /\ i \in 2 .. N)
    BY <1>2, <1>4, <1>6, <2>3
  <2> QED
    BY <1>7, <2>1, <2>2, <2>3
<1>9. \A l \in AllLevels : \E i \in 1 .. N : Order[i] = l
  <2> SUFFICES ASSUME NEW l \in AllLevels PROVE \E i \in 1 .. N : Order[i] = l
    OBVIOUS
  <2>1. CASE l = Global
    BY <1>3, <1>4, <2>1
  <2>2. CASE l \in Level
    <3>1. PICK i \in 1 .. m : l = LevelOrder[i]
      BY <1>1, <2>2
    <3>2. i + 1 \in 1 .. N
      BY <1>1, <1>4
    <3> QED
      BY <1>4, <3>1, <3>2
  <2> QED
    BY <2>1, <2>2 DEF AllLevels
<1>10. \A i \in 1 .. N : Order[i] \in AllLevels
  BY <1>4, <1>6, <1>7 DEF AllLevels
<1>11. Order[N] = Last(LevelOrder)
  <2>1. m \in 1 .. m
    BY <1>1, <1>3
  <2>2. Order[m + 1] = LevelOrder[m]
    BY <1>4, <2>1
  <2> QED
    BY <1>4, <2>2 DEF Last
<1> QED
  BY <1>1, <1>2, <1>3, <1>4, <1>6, <1>8, <1>9, <1>10, <1>11

LEMMA AppendIs ==
  ASSUME NEW list, NEW n, IsList(list, n), NEW e
  PROVE  /\ IsList(Append(list, e), n + 1)
         /\ \A i \in 1 .. n : Append(list, e)[i] = list[i]
         /\ Append(list, e)[n + 1] = e
<1> DEFINE S == {list[i] : i \in 1 .. n} \cup {e}
<1>1. list \in Seq(S) /\ Len(list) = n /\ n \in Nat
  <2>1. n \in Nat /\ list \in [1 .. n -> S]
    BY DEF IsList
  <2> HIDE DEF S
  <2> QED
    BY <2>1
<1>2. e \in S
  OBVIOUS
<1> HIDE DEF S
<1> DEFINE M == Append(list, e)
<1>3. /\ M \in Seq(S) /\ Len(M) = n + 1
      /\ \A i \in 1 .. n : M[i] = list[i]
      /\ M[n + 1] = e
  BY <1>1, <1>2
<1> HIDE DEF M
<1>4. M = [i \in 1 .. n + 1 |-> M[i]]
  BY <1>1, <1>3
<1> QED
  BY <1>1, <1>3, <1>4 DEF IsList, M

\* One entry more or one value replaced.
LEMMA SetEntryIs ==
  ASSUME NEW list, NEW n, NEW type, Tidy(list, n, type), NEW level \in AllLevels, NEW value
  PROVE  LET e == Setting(level, type, value)
             M == SetEntry(list, e)
             has == \E i \in 1 .. n : list[i].level = level
         IN  \E m \in Nat :
               /\ Tidy(M, m, type)
               /\ m = IF has THEN n ELSE n + 1
               /\ \A i \in 1 .. n :
                    M[i] = IF list[i].level = level THEN e ELSE list[i]
               /\ ~has => M[n + 1] = e
<1> DEFINE e == Setting(level, type, value)
           M == SetEntry(list, e)
           has == \E i \in 1 .. n : list[i].level = level
           Result(m) ==
             /\ Tidy(M, m, type)
             /\ m = IF has THEN n ELSE n + 1
             /\ \A i \in 1 .. n : M[i] = IF list[i].level = level THEN e ELSE list[i]
             /\ ~has => M[n + 1] = e
<1>0. e.level = level /\ e = Setting(e.level, type, e.value) /\ e.value = value
  BY DEF Setting
<1>1. n \in Nat /\ DOMAIN list = 1 .. n /\ IsList(list, n)
  BY DEF Tidy, IsList
<1>2. HasLevel(list, e.level) <=> has
  BY <1>0, <1>1 DEF HasLevel
<1>3. ASSUME has PROVE Result(n)
  <2>1. M = [i \in 1 .. n |-> IF list[i].level = level THEN e ELSE list[i]]
    BY <1>0, <1>1, <1>2, <1>3 DEF SetEntry
  <2> HIDE DEF M, e
  <2>2. \A i \in 1 .. n : M[i] = IF list[i].level = level THEN e ELSE list[i]
    BY <2>1
  <2>3. \A i \in 1 .. n : M[i].level = list[i].level
    BY <1>0, <2>2
  <2>4. \A i \in 1 .. n : M[i] = Setting(M[i].level, type, M[i].value)
    <3> SUFFICES ASSUME NEW i \in 1 .. n PROVE M[i] = Setting(M[i].level, type, M[i].value)
      OBVIOUS
    <3>1. list[i] = Setting(list[i].level, type, list[i].value)
      BY DEF Tidy
    <3> QED
      BY <1>0, <2>2, <3>1
  <2>5. M = [i \in 1 .. n |-> M[i]]
    BY <2>1
  <2>6. Tidy(M, n, type)
    BY <1>1, <2>3, <2>4, <2>5 DEF Tidy, IsList
  <2> QED
    BY <1>1, <1>3, <2>2, <2>6
<1>4. ASSUME ~has PROVE Result(n + 1)
  <2>1. M = Append(list, e)
    BY <1>2, <1>4 DEF SetEntry
  <2> HIDE DEF M, e
  <2>2. IsList(M, n + 1) /\ (\A i \in 1 .. n : M[i] = list[i]) /\ M[n + 1] = e
    BY <1>1, <2>1, AppendIs
  <2>3. n + 1 \in Nat /\ \A i \in 1 .. n + 1 : i \in 1 .. n \/ i = n + 1
    BY <1>1
  <2>4. \A i \in 1 .. n + 1 : M[i].level \in AllLevels /\ M[i] = Setting(M[i].level, type, M[i].value)
    <3> SUFFICES ASSUME NEW i \in 1 .. n + 1
                 PROVE  M[i].level \in AllLevels /\ M[i] = Setting(M[i].level, type, M[i].value)
      OBVIOUS
    <3>1. CASE i \in 1 .. n
      <4>1. M[i] = list[i]
        BY <2>2, <3>1
      <4>2. list[i].level \in AllLevels /\ list[i] = Setting(list[i].level, type, list[i].value)
        BY <3>1 DEF Tidy
      <4> QED
        BY <4>1, <4>2
    <3>2. CASE i = n + 1
      BY <1>0, <2>2, <3>2
    <3> QED
      BY <2>3, <3>1, <3>2
  <2>5. \A i, j \in 1 .. n + 1 : M[i].level = M[j].level => i = j
    <3> SUFFICES ASSUME NEW i \in 1 .. n + 1, NEW j \in 1 .. n + 1, M[i].level = M[j].level
                 PROVE  i = j
      OBVIOUS
    <3>1. \A x, y \in 1 .. n : list[x].level = list[y].level => x = y
      BY DEF Tidy
    <3>2. \A x \in 1 .. n : M[x].level = list[x].level /\ M[x].level # level
      BY <1>4, <2>2
    <3>3. M[n + 1].level = level
      BY <1>0, <2>2
    <3> QED
      BY <2>3, <3>1, <3>2, <3>3
  <2>6. Tidy(M, n + 1, type)
    BY <2>2, <2>4, <2>5 DEF Tidy
  <2> QED
    BY <1>4, <2>2, <2>3, <2>6
<1>5. \E m \in Nat : Result(m)
  <2> HIDE DEF Result, M
  <2>1. n + 1 \in Nat
    BY <1>1
  <2> QED
    BY <1>1, <1>3, <1>4, <2>1
<1> QED
  BY <1>5

\* What has become of list when a value for Global reached the first j levels.
Given(list, n, type, value, j, M, m) ==
  /\ Tidy(M, m, type) /\ m >= n
  /\ j = 0 => m = n
  /\ \A i \in 1 .. n : M[i].level = list[i].level
  /\ \A x \in 1 .. j : \E i \in 1 .. m : M[i].level = Order[x] /\ M[i].value = value
  /\ j >= 1 /\ (\A i \in 1 .. n : list[i].level # Global) =>
       m >= n + 1 /\ M[n + 1].level = Global
  /\ n = 0 => m = j /\ \A i \in 1 .. m : M[i].level = Order[i]

LEMMA GivenStep ==
  ASSUME NEW list, NEW n, NEW type, NEW value, Tidy(list, n, type),
         NEW j \in Nat, j + 1 <= N, NEW M, NEW m, Given(list, n, type, value, j, M, m)
  PROVE  \E k : Given(list, n, type, value, j + 1,
                      SetEntry(M, Setting(Order[j + 1], type, value)), k)
<1> DEFINE level == Order[j + 1]
           e == Setting(level, type, value)
           W == SetEntry(M, e)
           has == \E i \in 1 .. m : M[i].level = level
<1>0. level \in AllLevels /\ j + 1 \in 1 .. N
  BY OrderFacts
<1>1. e.level = level /\ e.value = value
  BY DEF Setting
<1>2. /\ Tidy(M, m, type) /\ m >= n
      /\ j = 0 => m = n
      /\ \A i \in 1 .. n : M[i].level = list[i].level
      /\ \A x \in 1 .. j : \E i \in 1 .. m : M[i].level = Order[x] /\ M[i].value = value
      /\ j >= 1 /\ (\A i \in 1 .. n : list[i].level # Global) =>
           m >= n + 1 /\ M[n + 1].level = Global
      /\ n = 0 => m = j /\ \A i \in 1 .. m : M[i].level = Order[i]
  BY DEF Given
<1>3. PICK k \in Nat : /\ Tidy(W, k, type)
                       /\ k = IF has THEN m ELSE m + 1
                       /\ \A i \in 1 .. m : W[i] = IF M[i].level = level THEN e ELSE M[i]
                       /\ ~has => W[m + 1] = e
  <2> HIDE DEF level
  <2> QED
    BY <1>0, <1>2, SetEntryIs
<1>4. n \in Nat /\ m \in Nat
  BY <1>2 DEF Tidy, IsList
<1> HIDE DEF W, e, level
<1>5. \A i \in 1 .. m : W[i].level = M[i].level
  BY <1>1, <1>3
<1>6. k >= m /\ k >= n /\ \A i \in 1 .. n : i \in 1 .. m
  BY <1>2, <1>3, <1>4
<1>7. ~has => W[m + 1].level = level /\ W[m + 1].value = value /\ k = m + 1
  BY <1>1, <1>3
<1>8. ASSUME NEW x \in 1 .. j + 1
      PROVE  \E i \in 1 .. k : W[i].level = Order[x] /\ W[i].value = value
  <2>1. CASE x \in 1 .. j
    <3>1. PICK i \in 1 .. m : M[i].level = Order[x] /\ M[i].value = value
      BY <1>2, <2>1
    <3>2. W[i].value = value /\ i \in 1 .. k
      BY <1>1, <1>3, <1>4, <1>6, <3>1
    <3> QED
      BY <1>5, <3>1, <3>2
  <2>2. CASE x = j + 1 /\ has
    <3>1. PICK i \in 1 .. m : M[i].level = level
      BY <2>2
    <3>2. W[i] = e /\ i \in 1 .. k
      BY <1>3, <1>4, <1>6, <3>1
    <3> QED
      BY <1>1, <2>2, <3>2 DEF level
  <2>3. CASE x = j + 1 /\ ~has
    <3>1. m + 1 \in 1 .. k
      BY <1>4, <1>7, <2>3
    <3> QED
      BY <1>7, <2>3, <3>1 DEF level
  <2> QED
    BY <2>1, <2>2, <2>3
<1>9. ASSUME \A i \in 1 .. n : list[i].level # Global
      PROVE  k >= n + 1 /\ W[n + 1].level = Global
  <2>1. CASE j = 0
    <3>1. m = n /\ level = Global
      BY <1>2, <2>1, OrderFacts DEF level
    <3>2. ~has
      BY <1>2, <1>9, <3>1
    <3> QED
      BY <1>4, <1>7, <3>1, <3>2
  <2>2. CASE j >= 1
    <3>1. m >= n + 1 /\ M[n + 1].level = Global
      BY <1>2, <1>9, <2>2
    <3>2. n + 1 \in 1 .. m
      BY <1>4, <3>1
    <3> QED
      BY <1>4, <1>5, <1>6, <3>1, <3>2
  <2> QED
    BY <2>1, <2>2
<1>10. ASSUME n = 0
       PROVE  k = j + 1 /\ \A i \in 1 .. k : W[i].level = Order[i]
  <2>1. m = j /\ \A i \in 1 .. m : M[i].level = Order[i]
    BY <1>2, <1>10
  <2>2. ~has
    <3> SUFFICES ASSUME NEW i \in 1 .. m, M[i].level = level PROVE FALSE
      OBVIOUS
    <3>0. N \in Nat
      BY OrderFacts
    <3>1. i \in 1 .. N /\ i # j + 1
      <4>1. i \in 1 .. j
        BY <2>1
      <4> QED
        BY <3>0, <4>1
    <3>2. Order[i] = Order[j + 1]
      BY <2>1 DEF level
    <3> QED
      BY <1>0, <3>1, <3>2, OrderFacts
  <2>3. k = j + 1
    BY <1>7, <2>1, <2>2
  <2>4. \A i \in 1 .. k : i \in 1 .. m \/ i = j + 1
    BY <2>1, <2>3
  <2>5. W[j + 1].level = Order[j + 1]
    BY <1>7, <2>1, <2>2 DEF level
  <2> QED
    BY <1>5, <2>1, <2>3, <2>4, <2>5
<1>11. \A i \in 1 .. n : W[i].level = list[i].level
  BY <1>2, <1>5, <1>6
<1>12. j + 1 # 0
  OBVIOUS
<1>13. Given(list, n, type, value, j + 1, W, k)
  BY <1>3, <1>6, <1>8, <1>9, <1>10, <1>11, <1>12 DEF Given
<1> QED
  BY <1>13 DEF W, e, level

LEMMA GloballyIs ==
  ASSUME NEW list, NEW n, NEW type, NEW value, Tidy(list, n, type)
  PROVE  \E m : Given(list, n, type, value, N,
                      FoldLeft(SetEntry, list, Everywhere(Setting(Global, type, value))), m)
<1> DEFINE all == Everywhere(Setting(Global, type, value))
<1>1. N \in Nat /\ DOMAIN Order = 1 .. N
  BY OrderFacts
<1>2. DOMAIN all = 1 .. N /\ \A i \in 1 .. N : all[i] = Setting(Order[i], type, value)
  <2>1. all = [i \in 1 .. N |-> [Setting(Global, type, value) EXCEPT !.level = Order[i]]]
    BY <1>1 DEF Everywhere, Order
  <2>2. \A i \in 1 .. N : [Setting(Global, type, value) EXCEPT !.level = Order[i]] =
                          Setting(Order[i], type, value)
    BY DEF Setting
  <2> HIDE DEF all
  <2> QED
    BY <2>1, <2>2
<1> HIDE DEF all
<1>3. PICK h : Steps(h, "SetEntry", list, all, N) /\ FoldLeft(SetEntry, list, all) = h[N]
  BY <1>1, <1>2, SetEntrySteps
<1>4. h[0] = list /\ \A k \in 1 .. N : h[k] = SetEntry(h[k - 1], all[k])
  BY <1>3 DEF Steps, Step
<1> DEFINE S == {j \in 0 .. N : \E m : Given(list, n, type, value, j, h[j], m)}
<1>5. 0 \in S
  <2>1. n \in Nat
    BY DEF Tidy, IsList
  <2>2. Given(list, n, type, value, 0, list, n)
    BY <2>1 DEF Given
  <2> QED
    BY <1>1, <1>4, <2>2
<1>6. ASSUME NEW j \in 0 .. N - 1, j \in S PROVE j + 1 \in S
  <2>1. PICK m : Given(list, n, type, value, j, h[j], m)
    BY <1>6
  <2>2. j \in Nat /\ j + 1 <= N /\ j + 1 \in 1 .. N /\ (j + 1) - 1 = j /\ j + 1 \in 0 .. N
    BY <1>1
  <2>3. h[j + 1] = SetEntry(h[j], Setting(Order[j + 1], type, value))
    BY <1>2, <1>4, <2>2
  <2>4. \E k : Given(list, n, type, value, j + 1,
                     SetEntry(h[j], Setting(Order[j + 1], type, value)), k)
    BY <2>1, <2>2, GivenStep
  <2> QED
    BY <2>2, <2>3, <2>4
<1>7. S = 0 .. N
  <2>1. S \in SUBSET (0 .. N)
    OBVIOUS
  <2> HIDE DEF S
  <2> QED
    BY <1>1, <1>5, <1>6, <2>1, InductionTo
<1>8. \E m : Given(list, n, type, value, N, h[N], m)
  BY <1>1, <1>7
<1> QED
  BY <1>3, <1>8 DEF all

-----------------------------------------------------------------------------
(***************************************************************************)
(* One setting.                                                            *)
(***************************************************************************)

\* A value for this level is one for that level, too.
Reaches(this, that) == this \in {that, Global}

\* What SetIn makes of a list.
SetInto(list, n, setting, M, m) ==
  /\ Tidy(M, m, setting.type) /\ m >= n
  /\ \A i \in 1 .. n :
       /\ M[i].level = list[i].level
       /\ M[i].value = IF Reaches(setting.level, M[i].level) THEN setting.value
                       ELSE list[i].value
  /\ \A i \in n + 1 .. m : M[i].value = setting.value /\ Reaches(setting.level, M[i].level)
  /\ \A l \in AllLevels : Reaches(setting.level, l) => HasLevel(M, l)
  /\ setting.level = Global /\ ~HasLevel(list, Global) => m >= n + 1 /\ M[n + 1].level = Global
  /\ setting.level = Global /\ n = 0 => m = N /\ \A i \in 1 .. m : M[i].level = Order[i]

LEMMA HasLevelIs ==
  ASSUME NEW list, NEW n, NEW type, Tidy(list, n, type), NEW l
  PROVE  HasLevel(list, l) <=> \E i \in 1 .. n : list[i].level = l
<1>1. DOMAIN list = 1 .. n
  BY DEF Tidy, IsList
<1> QED
  BY <1>1 DEF HasLevel

LEMMA SetInIs ==
  ASSUME NEW list, NEW n, NEW setting, Tidy(list, n, setting.type),
         setting = Setting(setting.level, setting.type, setting.value)
  PROVE  \E m : SetInto(list, n, setting, SetIn(list, setting), m)
<1> DEFINE t == setting.type
           v == setting.value
           M == SetIn(list, setting)
<1>0. n \in Nat /\ N \in Nat
  BY OrderFacts DEF Tidy, IsList
<1>1. CASE setting.level = Global
  <2>1. setting = Setting(Global, t, v)
    BY <1>1
  <2>2. M = FoldLeft(SetEntry, list, Everywhere(setting))
    <3>1. setting.level \notin Level
      BY <1>1, OrderFacts
    <3> QED
      BY <1>1, <3>1 DEF SetIn
  <2>3. \E m : Given(list, n, t, v, N, FoldLeft(SetEntry, list, Everywhere(Setting(Global, t, v))), m)
    <3> HIDE DEF t, v
    <3> QED
      BY GloballyIs DEF t
  <2>4. PICK m : Given(list, n, t, v, N, M, m)
    <3> HIDE DEF t, v, M
    <3>1. Everywhere(setting) = Everywhere(Setting(Global, t, v))
      BY <2>1
    <3> QED
      BY <2>2, <2>3, <3>1
  <2> HIDE DEF M
  <2>5. /\ Tidy(M, m, t) /\ m >= n
        /\ \A i \in 1 .. n : M[i].level = list[i].level
        /\ \A x \in 1 .. N : \E i \in 1 .. m : M[i].level = Order[x] /\ M[i].value = v
        /\ (\A i \in 1 .. n : list[i].level # Global) => m >= n + 1 /\ M[n + 1].level = Global
        /\ n = 0 => m = N /\ \A i \in 1 .. m : M[i].level = Order[i]
    <3>1. N >= 1
      BY OrderFacts
    <3> QED
      BY <2>4, <3>1 DEF Given
  <2>6. m \in Nat /\ \A i, j \in 1 .. m : M[i].level = M[j].level => i = j
    BY <2>5 DEF Tidy, IsList
  <2>7. ASSUME NEW i \in 1 .. m PROVE M[i].value = v
    <3>1. M[i].level \in AllLevels
      BY <2>5 DEF Tidy
    <3>2. PICK x \in 1 .. N : Order[x] = M[i].level
      BY <3>1, OrderFacts
    <3>3. PICK y \in 1 .. m : M[y].level = Order[x] /\ M[y].value = v
      BY <2>5
    <3>4. y = i
      BY <2>6, <3>2, <3>3
    <3> QED
      BY <3>3, <3>4
  <2>8. \A l \in AllLevels : HasLevel(M, l)
    <3> SUFFICES ASSUME NEW l \in AllLevels PROVE HasLevel(M, l)
      OBVIOUS
    <3>1. PICK x \in 1 .. N : Order[x] = l
      BY OrderFacts
    <3>2. \E i \in 1 .. m : M[i].level = l
      BY <2>5, <3>1
    <3> QED
      BY <2>5, <3>2, HasLevelIs
  <2>9. ~HasLevel(list, Global) => \A i \in 1 .. n : list[i].level # Global
    BY HasLevelIs
  <2>10. \A l : Reaches(setting.level, l)
    BY <1>1 DEF Reaches
  <2>11. /\ \A i \in 1 .. n : i \in 1 .. m
         /\ \A i \in n + 1 .. m : i \in 1 .. m
    BY <1>0, <2>5, <2>6
  <2> HIDE DEF v
  <2>12. SetInto(list, n, setting, M, m)
    BY <2>5, <2>7, <2>8, <2>9, <2>10, <2>11 DEF SetInto, v
  <2> QED
    BY <2>12 DEF M
<1>2. CASE setting.level \in Level
  <2>0. setting.level # Global /\ setting.level \in AllLevels
    BY <1>2, OrderFacts DEF AllLevels
  <2>1. M = SetEntry(list, setting)
    BY <1>2, <2>0 DEF SetIn
  <2> DEFINE has == \E i \in 1 .. n : list[i].level = setting.level
  <2>2. PICK m \in Nat : /\ Tidy(M, m, t)
                         /\ m = IF has THEN n ELSE n + 1
                         /\ \A i \in 1 .. n :
                              M[i] = IF list[i].level = setting.level THEN setting ELSE list[i]
                         /\ ~has => M[n + 1] = setting
    <3> DEFINE a == setting.level
    <3>1. a \in AllLevels /\ setting = Setting(a, t, v)
      BY <2>0
    <3> HIDE DEF a, t, v, M
    <3>2. \E m \in Nat : LET M2 == SetEntry(list, Setting(a, t, v)) IN
             /\ Tidy(M2, m, t)
             /\ m = IF \E i \in 1 .. n : list[i].level = a THEN n ELSE n + 1
             /\ \A i \in 1 .. n :
                  M2[i] = IF list[i].level = a THEN Setting(a, t, v) ELSE list[i]
             /\ ~(\E i \in 1 .. n : list[i].level = a) => M2[n + 1] = Setting(a, t, v)
      <4>1. Tidy(list, n, t)
        BY DEF t
      <4> QED
        BY <3>1, <4>1, SetEntryIs
    <3> QED
      BY <2>1, <3>1, <3>2 DEF a
  <2> HIDE DEF M
  <2>3. \A l : Reaches(setting.level, l) <=> l = setting.level
    BY <2>0 DEF Reaches
  <2>4. \A i \in 1 .. n : M[i].level = list[i].level
    BY <2>2
  <2>5. \A i \in 1 .. n :
          M[i].value = IF Reaches(setting.level, M[i].level) THEN setting.value ELSE list[i].value
    BY <2>2, <2>3, <2>4
  <2>6. m >= n
    BY <1>0, <2>2
  <2>7. \A i \in n + 1 .. m : ~has /\ i = n + 1 /\ M[i] = setting
    <3> SUFFICES ASSUME NEW i \in n + 1 .. m PROVE ~has /\ i = n + 1 /\ M[i] = setting
      OBVIOUS
    <3>1. ~has /\ i = n + 1
      BY <1>0, <2>2
    <3> QED
      BY <2>2, <3>1
  <2>8. HasLevel(M, setting.level)
    <3>1. CASE has
      <4>1. PICK i \in 1 .. n : list[i].level = setting.level
        BY <3>1
      <4>2. i \in 1 .. m /\ M[i].level = setting.level
        BY <1>0, <2>4, <2>6, <4>1
      <4> QED
        BY <2>2, <4>2, HasLevelIs
    <3>2. CASE ~has
      <4>1. n + 1 \in 1 .. m /\ M[n + 1].level = setting.level
        BY <1>0, <2>2, <3>2
      <4> QED
        BY <2>2, <4>1, HasLevelIs
    <3> QED
      BY <3>1, <3>2
  <2>9. SetInto(list, n, setting, M, m)
    BY <2>0, <2>2, <2>3, <2>4, <2>5, <2>6, <2>7, <2>8 DEF SetInto
  <2> QED
    BY <2>9 DEF M
<1>3. CASE setting.level \notin AllLevels
  <2>1. M = list /\ setting.level # Global
    BY <1>3 DEF SetIn, AllLevels
  <2>2. \A l \in AllLevels : ~Reaches(setting.level, l)
    BY <1>3, <2>1 DEF Reaches
  <2>3. \A i \in 1 .. n : ~Reaches(setting.level, list[i].level)
    BY <2>2 DEF Tidy
  <2>4. \A i \in n + 1 .. n : FALSE
    BY <1>0
  <2>5. SetInto(list, n, setting, list, n)
    BY <1>0, <2>1, <2>2, <2>3, <2>4 DEF SetInto
  <2> QED
    BY <2>1, <2>5
<1> QED
  BY <1>1, <1>2, <1>3 DEF AllLevels

-----------------------------------------------------------------------------
(***************************************************************************)
(* The settings that made a list: q[1] to q[k].                            *)
(***************************************************************************)

\* Those of a type that gave a level its value.
Sources(q, k, l, type) == {i \in 1 .. k : q[i].type = type /\ Reaches(q[i].level, l)}

\* x is the last of a set of positions.
IsLast(x, positions) == x \in positions /\ \A y \in positions : y <= x

\* x comes before all of them.
Before(x, positions) == \A y \in positions : x < y

\* The list made from nothing: a level is registered once it has a source, with
\* the value of its last; it stands before Global if one of its sources does;
\* and the levels stand in order if Global was given first.
Registered(list, n, q, k, type) ==
  /\ Tidy(list, n, type)
  /\ \A l \in AllLevels : HasLevel(list, l) <=> Sources(q, k, l, type) # {}
  /\ \A i \in 1 .. n : \E x \in 1 .. k :
       IsLast(x, Sources(q, k, list[i].level, type)) /\ list[i].value = q[x].value
  /\ \A i, j \in 1 .. n : list[j].level = Global /\ i # j =>
       (i < j <=> \E x \in Sources(q, k, list[i].level, type) :
                    Before(x, Sources(q, k, Global, type)))
  /\ /\ Sources(q, k, Global, type) # {}
     /\ \A l \in AllLevels : \A x \in Sources(q, k, l, type) :
          \E y \in Sources(q, k, Global, type) : y <= x
     => n = N /\ \A i \in 1 .. n : list[i].level = Order[i]

LEMMA RegisteredNothing ==
  ASSUME NEW q, NEW type
  PROVE  Registered(<< >>, 0, q, 0, type)
<1>1. \A l : Sources(q, 0, l, type) = {}
  BY DEF Sources
<1>2. Tidy(<< >>, 0, type) /\ \A l \in AllLevels : ~HasLevel(<< >>, l)
  BY DEF Tidy, IsList, HasLevel
<1> QED
  BY <1>1, <1>2 DEF Registered

\* A setting of another type, or of no level.
LEMMA RegisterOther ==
  ASSUME NEW list, NEW n, NEW q, NEW k \in Nat, NEW type, Registered(list, n, q, k, type),
         q[k + 1].type # type \/ q[k + 1].level \notin AllLevels
  PROVE  Registered(list, n, q, k + 1, type)
<1>1. ASSUME NEW l \in AllLevels
      PROVE  Sources(q, k + 1, l, type) = Sources(q, k, l, type)
  <2>1. ~(q[k + 1].type = type /\ Reaches(q[k + 1].level, l))
    BY DEF Reaches, AllLevels
  <2>2. 1 .. k + 1 = (1 .. k) \cup {k + 1}
    OBVIOUS
  <2> QED
    BY <2>1, <2>2 DEF Sources
<1>2. Global \in AllLevels /\ \A i \in 1 .. n : list[i].level \in AllLevels
  BY DEF AllLevels, Registered, Tidy
<1>3. \A x \in 1 .. k : x \in 1 .. k + 1
  OBVIOUS
<1>4. \A i \in 1 .. n : \E x \in 1 .. k + 1 :
       IsLast(x, Sources(q, k + 1, list[i].level, type)) /\ list[i].value = q[x].value
  BY <1>1, <1>2, <1>3 DEF Registered
<1>5. /\ Tidy(list, n, type)
      /\ \A l \in AllLevels : HasLevel(list, l) <=> Sources(q, k + 1, l, type) # {}
      /\ \A i, j \in 1 .. n : list[j].level = Global /\ i # j =>
           (i < j <=> \E x \in Sources(q, k + 1, list[i].level, type) :
                        Before(x, Sources(q, k + 1, Global, type)))
  BY <1>1, <1>2 DEF Registered
<1>6. Sources(q, k + 1, Global, type) # {} /\
      (\A l \in AllLevels : \A x \in Sources(q, k + 1, l, type) :
         \E y \in Sources(q, k + 1, Global, type) : y <= x)
      => n = N /\ \A i \in 1 .. n : list[i].level = Order[i]
  BY <1>1, <1>2 DEF Registered
<1> QED
  BY <1>4, <1>5, <1>6 DEF Registered

LEMMA RegisterOne ==
  ASSUME NEW list, NEW n, NEW q, NEW k \in Nat, NEW type, Registered(list, n, q, k, type),
         q[k + 1].type = type, q[k + 1].level \in AllLevels,
         NEW M, NEW m, SetInto(list, n, q[k + 1], M, m)
  PROVE  Registered(M, m, q, k + 1, type)
<1> DEFINE s == q[k + 1]
           S(l) == Sources(q, k, l, type)
           T(l) == Sources(q, k + 1, l, type)
           r(l) == Reaches(s.level, l)
<1>0. /\ n \in Nat /\ m \in Nat /\ N \in Nat /\ m >= n
      /\ \A i \in 1 .. n : i \in 1 .. m
      /\ \A i \in 1 .. m : i \in 1 .. n \/ i \in n + 1 .. m
  <2>1. n \in Nat /\ m \in Nat /\ m >= n
    BY DEF Registered, SetInto, Tidy, IsList
  <2> QED
    BY <2>1, OrderFacts
<1>1. ASSUME NEW l
      PROVE  /\ r(l) => T(l) = S(l) \cup {k + 1}
             /\ ~r(l) => T(l) = S(l)
             /\ k + 1 \notin S(l) /\ \A x \in S(l) : x \in Nat /\ x <= k
  <2>1. 1 .. k + 1 = (1 .. k) \cup {k + 1} /\ k + 1 \notin 1 .. k
    OBVIOUS
  <2> QED
    BY <2>1 DEF Sources
<1>2. /\ Tidy(list, n, type)
      /\ \A l \in AllLevels : HasLevel(list, l) <=> S(l) # {}
      /\ \A i \in 1 .. n : \E x \in 1 .. k :
           IsLast(x, S(list[i].level)) /\ list[i].value = q[x].value
      /\ \A i, j \in 1 .. n : list[j].level = Global /\ i # j =>
           (i < j <=> \E x \in S(list[i].level) : Before(x, S(Global)))
      /\ S(Global) # {} /\ (\A l \in AllLevels : \A x \in S(l) : \E y \in S(Global) : y <= x)
         => n = N /\ \A i \in 1 .. n : list[i].level = Order[i]
  BY DEF Registered
<1>3. /\ Tidy(M, m, type)
      /\ \A i \in 1 .. n :
           /\ M[i].level = list[i].level
           /\ M[i].value = IF r(M[i].level) THEN s.value ELSE list[i].value
      /\ \A i \in n + 1 .. m : M[i].value = s.value /\ r(M[i].level)
      /\ \A l \in AllLevels : r(l) => HasLevel(M, l)
      /\ s.level = Global /\ ~HasLevel(list, Global) => m >= n + 1 /\ M[n + 1].level = Global
      /\ s.level = Global /\ n = 0 => m = N /\ \A i \in 1 .. m : M[i].level = Order[i]
  BY DEF SetInto
<1>4. /\ Global \in AllLevels
      /\ \A i \in 1 .. n : list[i].level \in AllLevels
      /\ \A i \in 1 .. m : M[i].level \in AllLevels
      /\ \A i, j \in 1 .. m : M[i].level = M[j].level => i = j
  BY <1>2, <1>3 DEF AllLevels, Tidy
<1>5. /\ \A l : r(l) <=> (s.level = l \/ s.level = Global)
      /\ k + 1 \in Nat /\ k + 1 \in 1 .. k + 1
  BY DEF Reaches
<1> HIDE DEF s, S, T, r
<1>6. \A i \in n + 1 .. m : S(M[i].level) = {}
  <2> SUFFICES ASSUME NEW i \in n + 1 .. m, S(M[i].level) # {} PROVE FALSE
    OBVIOUS
  <2>0. i \in 1 .. m /\ i \notin 1 .. n
    BY <1>0
  <2>1. HasLevel(list, M[i].level)
    BY <1>2, <1>4, <2>0
  <2>2. PICK j \in 1 .. n : list[j].level = M[i].level
    BY <1>2, <2>1, HasLevelIs
  <2>3. j \in 1 .. m /\ M[j].level = M[i].level
    BY <1>0, <1>3, <2>2
  <2> QED
    BY <1>4, <2>0, <2>3
<1>7. ASSUME NEW l \in AllLevels PROVE HasLevel(M, l) <=> T(l) # {}
  <2>1. CASE r(l)
    BY <1>1, <1>3, <2>1
  <2>2. CASE ~r(l)
    <3>1. HasLevel(list, l) <=> T(l) # {}
      BY <1>1, <1>2, <2>2
    <3>2. HasLevel(M, l) <=> \E i \in 1 .. m : M[i].level = l
      BY <1>3, HasLevelIs
    <3>3. HasLevel(list, l) <=> \E i \in 1 .. n : list[i].level = l
      BY <1>2, HasLevelIs
    <3> QED
      BY <1>0, <1>3, <2>2, <3>1, <3>2, <3>3
  <2> QED
    BY <2>1, <2>2
<1>8. ASSUME NEW i \in 1 .. m
      PROVE  \E x \in 1 .. k + 1 : IsLast(x, T(M[i].level)) /\ M[i].value = q[x].value
  <2>1. CASE r(M[i].level)
    <3>1. M[i].value = q[k + 1].value
      BY <1>0, <1>3, <2>1 DEF s
    <3>2. IsLast(k + 1, T(M[i].level))
      BY <1>1, <1>5, <2>1 DEF IsLast
    <3> QED
      BY <1>5, <3>1, <3>2
  <2>2. CASE ~r(M[i].level)
    <3>1. i \in 1 .. n
      BY <1>0, <1>3, <2>2
    <3>2. M[i].value = list[i].value /\ T(M[i].level) = S(list[i].level)
      BY <1>1, <1>3, <2>2, <3>1
    <3>3. PICK x \in 1 .. k : IsLast(x, S(list[i].level)) /\ list[i].value = q[x].value
      BY <1>2, <3>1
    <3>4. x \in 1 .. k + 1
      OBVIOUS
    <3> QED
      BY <3>2, <3>3, <3>4
  <2> QED
    BY <2>1, <2>2
<1>9. ASSUME S(Global) # {}
      PROVE  /\ \E j \in 1 .. n : list[j].level = Global
             /\ m = n
  <2>1. HasLevel(list, Global)
    BY <1>2, <1>4, <1>9
  <2>2. PICK j \in 1 .. n : list[j].level = Global
    BY <1>2, <2>1, HasLevelIs
  <2>3. ASSUME NEW l \in AllLevels PROVE S(l) # {}
    <3>1. S(Global) \subseteq S(l)
      BY DEF S, Sources, Reaches
    <3> QED
      BY <1>9, <3>1
  <2>4. \A i \in n + 1 .. m : FALSE
    <3> SUFFICES ASSUME NEW i \in n + 1 .. m PROVE FALSE
      OBVIOUS
    <3>1. i \in 1 .. m
      BY <1>0
    <3> QED
      BY <1>4, <1>6, <2>3, <3>1
  <2>5. m = n
    BY <1>0, <2>4
  <2> QED
    BY <2>2, <2>5
<1>10. ASSUME NEW i \in 1 .. m, NEW j \in 1 .. m, M[j].level = Global, i # j
       PROVE  i < j <=> \E x \in T(M[i].level) : Before(x, T(Global))
  <2>1. CASE S(Global) # {} /\ s.level = Global
    <3>1. m = n /\ M[i].level = list[i].level /\ list[j].level = Global
      BY <1>3, <1>9, <1>10, <2>1
    <3>2. i < j <=> \E x \in S(M[i].level) : Before(x, S(Global))
      BY <1>2, <1>10, <3>1
    <3>3. T(Global) = S(Global) \cup {k + 1} /\ T(M[i].level) = S(M[i].level) \cup {k + 1}
      BY <1>1, <1>5, <2>1
    <3>4. \A x \in S(M[i].level) : Before(x, S(Global)) => Before(x, T(Global))
      BY <1>1, <3>3 DEF Before
    <3>5. \A x \in T(M[i].level) :
            Before(x, T(Global)) => x \in S(M[i].level) /\ Before(x, S(Global))
      BY <1>1, <1>5, <3>3 DEF Before
    <3> QED
      BY <3>2, <3>3, <3>4, <3>5
  <2>2. CASE S(Global) # {} /\ s.level # Global
    <3>1. m = n /\ M[i].level = list[i].level /\ list[j].level = Global
      BY <1>3, <1>9, <1>10, <2>2
    <3>2. i < j <=> \E x \in S(M[i].level) : Before(x, S(Global))
      BY <1>2, <1>10, <3>1
    <3>3. T(Global) = S(Global)
      BY <1>1, <1>5, <2>2
    <3>4. ~Before(k + 1, S(Global))
      BY <1>1, <2>2 DEF Before
    <3>5. \A x : x \in S(M[i].level) => x \in T(M[i].level)
      BY <1>1
    <3>6. \A x : x \in T(M[i].level) => x \in S(M[i].level) \/ x = k + 1
      BY <1>1
    <3> QED
      BY <3>2, <3>3, <3>4, <3>5, <3>6
  <2>3. CASE S(Global) = {}
    <3>1. ~HasLevel(list, Global)
      BY <1>2, <1>4, <2>3
    <3>2. \A x \in 1 .. n : list[x].level # Global
      BY <1>2, <3>1, HasLevelIs
    <3>3. j \in n + 1 .. m
      BY <1>0, <1>3, <1>10, <3>2
    <3>4. s.level = Global
      BY <1>3, <1>5, <1>10, <3>3
    <3>5. m >= n + 1 /\ M[n + 1].level = Global
      BY <1>3, <3>1, <3>4
    <3>6. j = n + 1
      BY <1>0, <1>4, <1>10, <3>3, <3>5
    <3>7. T(Global) = {k + 1} /\ T(M[i].level) = S(M[i].level) \cup {k + 1}
      BY <1>1, <1>5, <2>3, <3>4
    <3>8. ~Before(k + 1, T(Global))
      BY <1>5, <3>7 DEF Before
    <3>9. CASE i \in 1 .. n
      <4>1. HasLevel(list, list[i].level)
        BY <1>2, <3>9, HasLevelIs
      <4>2. PICK x : x \in S(M[i].level)
        BY <1>2, <1>3, <1>4, <3>9, <4>1
      <4>3. Before(x, T(Global))
        BY <1>1, <3>7, <4>2 DEF Before
      <4>4. i < j
        BY <1>0, <3>6, <3>9
      <4> QED
        BY <3>7, <4>2, <4>3, <4>4
    <3>10. CASE i \in n + 1 .. m
      <4>1. ~(i < j)
        BY <1>0, <3>6, <3>10
      <4>2. T(M[i].level) = {k + 1}
        BY <1>6, <3>7, <3>10
      <4> QED
        BY <3>8, <4>1, <4>2
    <3> QED
      BY <1>0, <3>9, <3>10
  <2> QED
    BY <2>1, <2>2, <2>3
<1>11. ASSUME T(Global) # {},
              \A l \in AllLevels : \A x \in T(l) : \E y \in T(Global) : y <= x
       PROVE  m = N /\ \A i \in 1 .. m : M[i].level = Order[i]
  <2>1. CASE S(Global) # {}
    <3>1. ASSUME NEW l \in AllLevels, NEW x \in S(l)
          PROVE  \E y \in S(Global) : y <= x
      <4>1. x \in T(l) /\ x \in Nat /\ x <= k
        BY <1>1
      <4>2. PICK y \in T(Global) : y <= x
        BY <1>11, <4>1
      <4>3. y # k + 1
        BY <4>1, <4>2
      <4>4. y \in S(Global)
        BY <1>1, <4>2, <4>3
      <4> QED
        BY <4>2, <4>4
    <3>2. n = N /\ \A i \in 1 .. n : list[i].level = Order[i]
      BY <1>2, <2>1, <3>1
    <3> QED
      BY <1>3, <1>9, <2>1, <3>2
  <2>2. CASE S(Global) = {}
    <3>1. r(Global) /\ T(Global) = {k + 1}
      BY <1>1, <1>11, <2>2
    <3>2. s.level = Global
      BY <1>5, <3>1
    <3>3. ASSUME NEW l \in AllLevels PROVE S(l) = {}
      <4> SUFFICES ASSUME NEW x \in S(l) PROVE FALSE
        OBVIOUS
      <4>1. x \in T(l) /\ x \in Nat /\ x <= k
        BY <1>1
      <4>2. k + 1 <= x
        BY <1>11, <3>1, <4>1
      <4> QED
        BY <4>1, <4>2
    <3>4. n = 0
      <4> SUFFICES ASSUME n # 0 PROVE FALSE
        OBVIOUS
      <4>1. 1 \in 1 .. n
        BY <1>0
      <4>2. HasLevel(list, list[1].level)
        BY <1>2, <4>1, HasLevelIs
      <4> QED
        BY <1>2, <1>4, <3>3, <4>1, <4>2
    <3> QED
      BY <1>3, <3>2, <3>4
  <2> QED
    BY <2>1, <2>2
<1> QED
  BY <1>3, <1>7, <1>8, <1>10, <1>11 DEF Registered, T

\* In any case.
LEMMA RegisterStep ==
  ASSUME NEW list, NEW n, NEW q, NEW k \in Nat, NEW type, Registered(list, n, q, k, type),
         q[k + 1] = Setting(q[k + 1].level, q[k + 1].type, q[k + 1].value)
  PROVE  \E m : Registered(IF type = q[k + 1].type THEN SetIn(list, q[k + 1]) ELSE list, m,
                           q, k + 1, type)
<1>1. CASE type # q[k + 1].type
  BY <1>1, RegisterOther
<1>2. CASE type = q[k + 1].type
  <2>1. Tidy(list, n, q[k + 1].type)
    BY <1>2 DEF Registered
  <2>2. PICK m : SetInto(list, n, q[k + 1], SetIn(list, q[k + 1]), m)
    BY <2>1, SetInIs
  <2>3. CASE q[k + 1].level \in AllLevels
    <3>1. Registered(SetIn(list, q[k + 1]), m, q, k + 1, type)
      BY <1>2, <2>2, <2>3, RegisterOne
    <3> QED
      BY <1>2, <3>1
  <2>4. CASE q[k + 1].level \notin AllLevels
    <3>1. SetIn(list, q[k + 1]) = list
      BY <2>4 DEF SetIn, AllLevels
    <3> QED
      BY <1>2, <2>4, <3>1, RegisterOther
  <2> QED
    BY <2>3, <2>4
<1> QED
  BY <1>1, <1>2

-----------------------------------------------------------------------------
(***************************************************************************)
(* Merging: the entries of a list are set, one by one, in one that has     *)
(* every level.                                                            *)
(***************************************************************************)

\* The list with every level in order, and the values w.
FullList(w, type) == [i \in 1 .. N |-> Setting(Order[i], type, w[Order[i]][type])]

\* The entries of list that reach a level, up to the m-th.
Reaching(list, m, l) == {i \in 1 .. m : Reaches(list[i].level, l)}

\* full after the first m entries of list were set in it.
Merged(full, w, type, list, m) ==
  /\ IsList(full, N)
  /\ \A i \in 1 .. N :
       /\ full[i] = Setting(Order[i], type, full[i].value)
       /\ Reaching(list, m, Order[i]) = {} => full[i].value = w[Order[i]][type]
       /\ \A x \in 1 .. m :
            IsLast(x, Reaching(list, m, Order[i])) => full[i].value = list[x].value

LEMMA SettingFields ==
  \A l, t, v : /\ Setting(l, t, v).level = l
               /\ Setting(l, t, v).type = t
               /\ Setting(l, t, v).value = v
BY DEF Setting

LEMMA FullIs ==
  ASSUME NEW full, NEW type, IsList(full, N),
         \A i \in 1 .. N : full[i] = Setting(Order[i], type, full[i].value)
  PROVE  /\ Tidy(full, N, type)
         /\ \A l \in AllLevels : HasLevel(full, l)
<1>1. \A i \in 1 .. N : full[i].level = Order[i]
  BY SettingFields
<1>2. Tidy(full, N, type)
  BY <1>1, OrderFacts DEF Tidy
<1>3. \A l \in AllLevels : \E i \in 1 .. N : full[i].level = l
  BY <1>1, OrderFacts
<1> QED
  BY <1>2, <1>3, HasLevelIs

\* A setting in a full list replaces values.
LEMMA SetInFull ==
  ASSUME NEW full, NEW type, IsList(full, N),
         \A i \in 1 .. N : full[i] = Setting(Order[i], type, full[i].value),
         NEW s, s = Setting(s.level, type, s.value)
  PROVE  LET M == SetIn(full, s)
         IN  /\ IsList(M, N)
             /\ \A i \in 1 .. N :
                  /\ M[i] = Setting(Order[i], type, M[i].value)
                  /\ M[i].value = IF Reaches(s.level, Order[i]) THEN s.value ELSE full[i].value
<1> DEFINE M == SetIn(full, s)
<1>1. s.type = type /\ s = Setting(s.level, s.type, s.value)
  BY DEF Setting
<1>2. Tidy(full, N, type) /\ \A l \in AllLevels : HasLevel(full, l)
  BY FullIs
<1>3. PICK m : SetInto(full, N, s, M, m)
  <2> HIDE DEF M
  <2>1. \E m : SetInto(full, N, s, SetIn(full, s), m)
    BY <1>1, <1>2, SetInIs
  <2> QED
    BY <2>1 DEF M
<1> HIDE DEF M
<1>4. /\ Tidy(M, m, type) /\ m >= N
      /\ \A i \in 1 .. N :
           /\ M[i].level = full[i].level
           /\ M[i].value = IF Reaches(s.level, M[i].level) THEN s.value ELSE full[i].value
  BY <1>1, <1>3 DEF SetInto
<1>5. N \in Nat /\ m \in Nat /\ IsList(M, m)
      /\ (\A i, j \in 1 .. m : M[i].level = M[j].level => i = j)
      /\ \A i \in 1 .. m : M[i].level \in AllLevels /\ M[i] = Setting(M[i].level, type, M[i].value)
  BY <1>4, OrderFacts DEF Tidy, IsList
<1>6. \A i \in 1 .. N : full[i].level = Order[i] /\ i \in 1 .. m
  BY <1>4, <1>5, SettingFields
<1>7. m = N
  <2> SUFFICES ASSUME m # N PROVE FALSE
    OBVIOUS
  <2>1. N + 1 \in 1 .. m /\ N + 1 \notin 1 .. N
    BY <1>4, <1>5
  <2>2. PICK i \in 1 .. N : Order[i] = M[N + 1].level
    BY <1>5, <2>1, OrderFacts
  <2>3. M[i].level = M[N + 1].level
    BY <1>4, <1>6, <2>2
  <2> QED
    BY <1>5, <1>6, <2>1, <2>3
<1>8. \A i \in 1 .. N : M[i].level = Order[i]
  BY <1>4, <1>6
<1>9. /\ IsList(M, N)
      /\ \A i \in 1 .. N :
           /\ M[i] = Setting(Order[i], type, M[i].value)
           /\ M[i].value = IF Reaches(s.level, Order[i]) THEN s.value ELSE full[i].value
  BY <1>4, <1>5, <1>7, <1>8
<1> QED
  BY <1>9 DEF M

LEMMA MergeStep ==
  ASSUME NEW full, NEW w, NEW type, NEW list, NEW m \in Nat, Merged(full, w, type, list, m),
         list[m + 1] = Setting(list[m + 1].level, type, list[m + 1].value)
  PROVE  Merged(SetIn(full, list[m + 1]), w, type, list, m + 1)
<1> DEFINE s == list[m + 1]
           M == SetIn(full, s)
<1>1. /\ IsList(full, N)
      /\ \A i \in 1 .. N :
           /\ full[i] = Setting(Order[i], type, full[i].value)
           /\ Reaching(list, m, Order[i]) = {} => full[i].value = w[Order[i]][type]
           /\ \A x \in 1 .. m :
                IsLast(x, Reaching(list, m, Order[i])) => full[i].value = list[x].value
  BY DEF Merged
<1>2. /\ IsList(M, N)
      /\ \A i \in 1 .. N :
           /\ M[i] = Setting(Order[i], type, M[i].value)
           /\ M[i].value = IF Reaches(s.level, Order[i]) THEN s.value ELSE full[i].value
  <2>1. s = Setting(s.level, type, s.value)
    OBVIOUS
  <2> HIDE DEF s
  <2> QED
    BY <1>1, <2>1, SetInFull
<1> HIDE DEF M
<1>3. ASSUME NEW i \in 1 .. N
      PROVE  /\ Reaching(list, m + 1, Order[i]) = {} => M[i].value = w[Order[i]][type]
             /\ \A x \in 1 .. m + 1 :
                  IsLast(x, Reaching(list, m + 1, Order[i])) => M[i].value = list[x].value
  <2> DEFINE R == Reaching(list, m, Order[i])
  <2>1. 1 .. m + 1 = (1 .. m) \cup {m + 1} /\ m + 1 \notin 1 .. m
    OBVIOUS
  <2>2. CASE Reaches(s.level, Order[i])
    <3>1. Reaching(list, m + 1, Order[i]) = R \cup {m + 1}
      BY <2>1, <2>2 DEF Reaching
    <3>2. \A x \in 1 .. m + 1 : IsLast(x, R \cup {m + 1}) => x = m + 1
      BY <2>1 DEF IsLast
    <3> QED
      BY <1>2, <2>2, <3>1, <3>2
  <2>3. CASE ~Reaches(s.level, Order[i])
    <3>1. Reaching(list, m + 1, Order[i]) = R /\ M[i].value = full[i].value
      BY <1>2, <2>1, <2>3 DEF Reaching
    <3>2. \A x \in 1 .. m + 1 : IsLast(x, R) => x \in 1 .. m
      BY DEF IsLast, Reaching
    <3> HIDE DEF R
    <3> QED
      BY <1>1, <3>1, <3>2 DEF R
  <2> QED
    BY <2>2, <2>3
<1>4. Merged(M, w, type, list, m + 1)
  BY <1>2, <1>3 DEF Merged
<1> QED
  BY <1>4 DEF M

LEMMA MergeAll ==
  ASSUME NEW w, NEW type, NEW list, NEW n, Tidy(list, n, type)
  PROVE  Merged(FoldLeft(SetIn, FullList(w, type), list), w, type, list, n)
<1>1. n \in Nat /\ DOMAIN list = 1 .. n
  BY DEF Tidy, IsList
<1>2. PICK h : Steps(h, "SetIn", FullList(w, type), list, n) /\
               FoldLeft(SetIn, FullList(w, type), list) = h[n]
  BY <1>1, SetInSteps
<1>3. h[0] = FullList(w, type) /\ \A k \in 1 .. n : h[k] = SetIn(h[k - 1], list[k])
  BY <1>2 DEF Steps, Step
<1> DEFINE S == {k \in 0 .. n : Merged(h[k], w, type, list, k)}
<1>4. 0 \in S
  <2>1. \A l : Reaching(list, 0, l) = {}
    BY DEF Reaching
  <2>2. \A i \in 1 .. N : /\ FullList(w, type)[i] = Setting(Order[i], type, w[Order[i]][type])
                          /\ FullList(w, type)[i].value = w[Order[i]][type]
    BY DEF FullList, Setting
  <2>3. IsList(FullList(w, type), N)
    BY OrderFacts DEF IsList, FullList
  <2>4. Merged(FullList(w, type), w, type, list, 0)
    BY <2>1, <2>2, <2>3 DEF Merged
  <2> QED
    BY <1>1, <1>3, <2>4
<1>5. ASSUME NEW k \in 0 .. n - 1, k \in S PROVE k + 1 \in S
  <2>1. k \in Nat /\ k + 1 \in 1 .. n /\ (k + 1) - 1 = k /\ k + 1 \in 0 .. n
    BY <1>1
  <2>2. list[k + 1] = Setting(list[k + 1].level, type, list[k + 1].value)
    BY <2>1 DEF Tidy
  <2>3. h[k + 1] = SetIn(h[k], list[k + 1])
    BY <1>3, <2>1
  <2>4. Merged(SetIn(h[k], list[k + 1]), w, type, list, k + 1)
    BY <1>5, <2>1, <2>2, MergeStep
  <2> QED
    BY <2>1, <2>3, <2>4
<1>6. S = 0 .. n
  <2>1. S \in SUBSET (0 .. n)
    OBVIOUS
  <2> HIDE DEF S
  <2> QED
    BY <1>1, <1>4, <1>5, <2>1, InductionTo
<1>7. Merged(h[n], w, type, list, n)
  BY <1>1, <1>6
<1> QED
  BY <1>2, <1>7

LEMMA BottomOf ==
  ASSUME NEW n \in Nat, NEW s \in SUBSET (1 .. n), s # {}
  PROVE  /\ Min(s) \in s
         /\ \A x \in s : Min(s) <= x
<1>1. s \in SUBSET Nat
  OBVIOUS
<1>2. \E z \in s : \A y \in s : z <= y
  BY <1>1, LeastNumber
<1> DEFINE z == CHOOSE z \in s : \A y \in s : z <= y
<1>3. z \in s /\ \A y \in s : z <= y
  BY <1>2, Zenon
<1>4. Min(s) = z
  BY DEF Min
<1> HIDE DEF z
<1> QED
  BY <1>3, <1>4

\* What a list that has every level holds after a list made of the settings was
\* merged into it: the last value given to a level or to Global, except that a
\* level named before Global is overwritten by it.
Stored(old, settings) ==
  [l \in AllLevels |-> [type \in ConfigurationType |->
     LET own == Positions(settings, l, type)
         all == Positions(settings, Global, type)
     IN  IF own # {} /\ (all = {} \/ (Max(own) > Max(all) /\ Min(all) < Min(own)))
         THEN settings[Max(own)].value
         ELSE IF all # {} THEN settings[Max(all)].value ELSE old[l][type]]]

\* The same, by the sources of a level.
LEMMA StoredIs ==
  ASSUME NEW old, NEW q, NEW k \in Nat, DOMAIN q = 1 .. k,
         NEW l \in AllLevels, NEW type \in ConfigurationType
  PROVE  LET S(level) == Sources(q, k, level, type)
             value == Stored(old, q)[l][type]
         IN  /\ S(l) = {} => value = old[l][type]
             /\ \A x : IsLast(x, S(l)) /\
                       (\/ l = Global \/ S(Global) = {}
                        \/ \A z \in S(l) : \E y \in S(Global) : y <= z)
                       => value = q[x].value
             /\ \A x : l # Global /\ IsLast(x, S(Global)) /\
                       (\E z \in S(l) : Before(z, S(Global)))
                       => value = q[x].value
<1> DEFINE S(level) == Sources(q, k, level, type)
           own == Positions(q, l, type)
           all == Positions(q, Global, type)
           value == Stored(old, q)[l][type]
<1>1. value = IF own # {} /\ (all = {} \/ (Max(own) > Max(all) /\ Min(all) < Min(own)))
              THEN q[Max(own)].value
              ELSE IF all # {} THEN q[Max(all)].value ELSE old[l][type]
  BY DEF Stored
<1>2. /\ own \in SUBSET (1 .. k) /\ all \in SUBSET (1 .. k)
      /\ S(l) = own \cup all /\ S(Global) = all
      /\ l # Global => own \cap all = {}
      /\ l = Global => own = all
  BY DEF Positions, Sources, Reaches
<1> HIDE DEF S, own, all, value
<1>3. own # {} => /\ Max(own) \in own /\ \A x \in own : x <= Max(own)
                  /\ Min(own) \in own /\ \A x \in own : Min(own) <= x
  BY <1>2, TopOf, BottomOf
<1>4. all # {} => /\ Max(all) \in all /\ \A x \in all : x <= Max(all)
                  /\ Min(all) \in all /\ \A x \in all : Min(all) <= x
  BY <1>2, TopOf, BottomOf
<1>5. (\A x \in own : x \in Nat) /\ (\A x \in all : x \in Nat)
  BY <1>2
<1>6. S(l) = {} => value = old[l][type]
  BY <1>1, <1>2
<1>7. ASSUME NEW x, IsLast(x, S(l)),
             l = Global \/ S(Global) = {} \/ \A z \in S(l) : \E y \in S(Global) : y <= z
      PROVE  value = q[x].value
  <2>1. x \in own \cup all /\ \A y \in own \cup all : y <= x
    BY <1>2, <1>7 DEF IsLast
  <2>2. CASE own = {}
    <3>1. x = Max(all) /\ all # {}
      BY <1>4, <1>5, <2>1, <2>2
    <3> QED
      BY <1>1, <2>2, <3>1
  <2>3. CASE own # {} /\ all = {}
    <3>1. x = Max(own)
      BY <1>3, <1>5, <2>1, <2>3
    <3> QED
      BY <1>1, <2>3, <3>1
  <2>4. CASE own # {} /\ all # {} /\ l = Global
    <3>1. own = all
      BY <1>2, <2>4
    <3>2. x = Max(all) /\ Max(all) \in Nat
      BY <1>4, <1>5, <2>1, <2>4, <3>1
    <3>3. ~(Max(own) > Max(all))
      BY <3>1, <3>2
    <3> QED
      BY <1>1, <2>4, <3>2, <3>3
  <2>5. CASE own # {} /\ all # {} /\ l # Global
    <3>1. PICK y \in all : y <= Min(own)
      BY <1>2, <1>3, <1>7, <2>5
    <3>2. y # Min(own) /\ Min(own) \in Nat /\ y \in Nat /\ Min(all) \in Nat /\ Min(all) <= y
      BY <1>2, <1>3, <1>4, <1>5, <2>5, <3>1
    <3>3. Min(all) < Min(own)
      BY <3>1, <3>2
    <3>4. CASE Max(own) > Max(all)
      <4>1. x = Max(own)
        BY <1>3, <1>4, <1>5, <2>1, <2>5, <3>4
      <4>2. value = q[Max(own)].value
        BY <1>1, <2>5, <3>3, <3>4
      <4> QED
        BY <4>1, <4>2
    <3>5. CASE ~(Max(own) > Max(all))
      <4>1. x = Max(all)
        BY <1>3, <1>4, <1>5, <2>1, <2>5, <3>5
      <4> QED
        BY <1>1, <2>5, <3>5, <4>1
    <3> QED
      BY <3>4, <3>5
  <2> QED
    BY <2>2, <2>3, <2>4, <2>5
<1>8. ASSUME NEW x, l # Global, IsLast(x, S(Global)), NEW z \in S(l), Before(z, S(Global))
      PROVE  value = q[x].value
  <2>1. x \in all /\ \A y \in all : y <= x
    BY <1>2, <1>8 DEF IsLast
  <2>2. \A y \in all : z < y
    BY <1>2, <1>8 DEF Before
  <2>3. z \in own
    <3>1. z \notin all
      BY <1>5, <2>2
    <3> QED
      BY <1>2, <3>1
  <2>4. x = Max(all) /\ ~(Min(all) < Min(own))
    BY <1>3, <1>4, <1>5, <2>1, <2>2, <2>3
  <2> QED
    BY <1>1, <2>1, <2>4
<1> QED
  BY <1>6, <1>7, <1>8 DEF S, value

\* Merging what settings made of nothing into a full list.
LEMMA MergedIsStored ==
  ASSUME NEW w, NEW q, NEW k \in Nat, DOMAIN q = 1 .. k, NEW type \in ConfigurationType,
         NEW list, NEW n, Registered(list, n, q, k, type)
  PROVE  FoldLeft(SetIn, FullList(w, type), list) = FullList(Stored(w, q), type)
<1> DEFINE M == FoldLeft(SetIn, FullList(w, type), list)
           S(l) == Sources(q, k, l, type)
           v == Stored(w, q)
<1>1. Tidy(list, n, type)
  BY DEF Registered
<1>2. Merged(M, w, type, list, n)
  BY <1>1, MergeAll
<1> HIDE DEF M
<1>3. /\ IsList(M, N)
      /\ \A i \in 1 .. N :
           /\ M[i] = Setting(Order[i], type, M[i].value)
           /\ Reaching(list, n, Order[i]) = {} => M[i].value = w[Order[i]][type]
           /\ \A x \in 1 .. n :
                IsLast(x, Reaching(list, n, Order[i])) => M[i].value = list[x].value
  BY <1>2 DEF Merged
<1>4. /\ \A l \in AllLevels : HasLevel(list, l) <=> S(l) # {}
      /\ \A i \in 1 .. n : \E x \in 1 .. k :
           IsLast(x, S(list[i].level)) /\ list[i].value = q[x].value
      /\ \A i, j \in 1 .. n : list[j].level = Global /\ i # j =>
           (i < j <=> \E x \in S(list[i].level) : Before(x, S(Global)))
  BY DEF Registered
<1>5. n \in Nat /\ \A i, j \in 1 .. n : list[i].level = list[j].level => i = j
  BY <1>1 DEF Tidy, IsList
<1>6. Global \in AllLevels
  BY DEF AllLevels
<1>7. \A l : S(Global) \subseteq S(l) /\ S(l) \subseteq 1 .. k
  BY DEF Sources, Reaches
<1>8. ASSUME NEW l \in AllLevels
      PROVE  /\ S(l) = {} => v[l][type] = w[l][type]
             /\ \A x : IsLast(x, S(l)) /\
                       (\/ l = Global \/ S(Global) = {}
                        \/ \A z \in S(l) : \E y \in S(Global) : y <= z)
                       => v[l][type] = q[x].value
             /\ \A x : l # Global /\ IsLast(x, S(Global)) /\
                       (\E z \in S(l) : Before(z, S(Global)))
                       => v[l][type] = q[x].value
  BY StoredIs
<1> HIDE DEF S, v
<1>9. ASSUME NEW i \in 1 .. N PROVE M[i].value = v[Order[i]][type]
  <2> DEFINE l == Order[i]
             R == Reaching(list, n, l)
  <2>1. l \in AllLevels
    BY OrderFacts
  <2>2. R = {x \in 1 .. n : list[x].level = l \/ list[x].level = Global}
    BY DEF Reaching, Reaches
  <2>3. /\ R = {} => M[i].value = w[l][type]
        /\ \A x \in 1 .. n : IsLast(x, R) => M[i].value = list[x].value
    BY <1>3
  <2> HIDE DEF l, R
  <2>4. CASE ~HasLevel(list, l)
    <3>1. S(l) = {} /\ S(Global) = {}
      BY <1>4, <1>7, <2>1, <2>4
    <3>2. ~HasLevel(list, Global)
      BY <1>4, <1>6, <3>1
    <3>3. R = {}
      BY <1>1, <2>2, <2>4, <3>2, HasLevelIs
    <3> QED
      BY <1>8, <2>1, <2>3, <3>1, <3>3 DEF l
  <2>5. CASE HasLevel(list, l)
    <3>1. PICK x \in 1 .. n : list[x].level = l
      BY <1>1, <2>5, HasLevelIs
    <3>2. PICK a \in 1 .. k : IsLast(a, S(l)) /\ list[x].value = q[a].value
      BY <1>4, <3>1
    <3>3. CASE l = Global \/ ~HasLevel(list, Global)
      <4>1. R = {x}
        <5>1. x \in R
          BY <2>2, <3>1
        <5>2. \A y \in R : y = x
          BY <1>1, <1>5, <2>2, <3>1, <3>3, HasLevelIs
        <5> QED
          BY <5>1, <5>2
      <4>2. IsLast(x, R)
        BY <4>1 DEF IsLast
      <4>3. l = Global \/ S(Global) = {}
        BY <1>4, <1>6, <3>3
      <4> QED
        BY <1>8, <2>1, <2>3, <3>2, <4>2, <4>3 DEF l
    <3>4. CASE l # Global /\ HasLevel(list, Global)
      <4>1. PICK y \in 1 .. n : list[y].level = Global
        BY <1>1, <3>4, HasLevelIs
      <4>2. x # y /\ R = {x, y}
        <5>1. x # y /\ x \in R /\ y \in R
          BY <2>2, <3>1, <3>4, <4>1
        <5>2. \A z \in R : z = x \/ z = y
          BY <1>5, <2>2, <3>1, <4>1
        <5> QED
          BY <5>1, <5>2
      <4>3. x < y <=> \E z \in S(l) : Before(z, S(Global))
        BY <1>4, <3>1, <4>1, <4>2
      <4>4. CASE x < y
        <5>1. IsLast(y, R)
          BY <4>2, <4>4 DEF IsLast
        <5>2. PICK b \in 1 .. k : IsLast(b, S(Global)) /\ list[y].value = q[b].value
          BY <1>4, <4>1
        <5> QED
          BY <1>8, <2>1, <2>3, <3>4, <4>3, <4>4, <5>1, <5>2 DEF l
      <4>5. CASE ~(x < y)
        <5>1. IsLast(x, R)
          BY <4>2, <4>5 DEF IsLast
        <5>2. ASSUME NEW z \in S(l) PROVE \E c \in S(Global) : c <= z
          <6>1. PICK c \in S(Global) : ~(z < c)
            BY <4>3, <4>5 DEF Before
          <6>2. z \in 1 .. k /\ c \in 1 .. k
            BY <1>7
          <6> QED
            BY <6>1, <6>2
        <5> QED
          BY <1>8, <2>1, <2>3, <3>2, <5>1, <5>2 DEF l
      <4> QED
        BY <4>4, <4>5
    <3> QED
      BY <3>3, <3>4
  <2> QED
    BY <2>4, <2>5
<1>10. M = [i \in 1 .. N |-> M[i]]
  BY <1>3 DEF IsList
<1>11. M = FullList(v, type)
  BY <1>3, <1>9, <1>10 DEF FullList
<1> QED
  BY <1>11 DEF M, v

-----------------------------------------------------------------------------
(***************************************************************************)
(* What the program, its defaults and the parser make of no configurations.*)
(***************************************************************************)

AllRegistered(c, q, k) ==
  \A type \in ConfigurationType : \E n : Registered(c[type], n, q, k, type)

\* list is settings of which q[k + 1] is the first.
IsPart(list, n, q, k) ==
  /\ IsList(list, n)
  /\ \A i \in 1 .. n : /\ list[i] = q[k + i]
                       /\ list[i] = Setting(list[i].level, list[i].type, list[i].value)

LEMMA RegisterSetting ==
  ASSUME NEW c, NEW q, NEW k \in Nat, AllRegistered(c, q, k),
         q[k + 1] = Setting(q[k + 1].level, q[k + 1].type, q[k + 1].value)
  PROVE  AllRegistered(Set(c, q[k + 1]), q, k + 1)
<1> SUFFICES ASSUME NEW type \in ConfigurationType
             PROVE  \E n : Registered(Set(c, q[k + 1])[type], n, q, k + 1, type)
  BY DEF AllRegistered
<1>1. PICK n : Registered(c[type], n, q, k, type)
  BY DEF AllRegistered
<1>2. Set(c, q[k + 1])[type] =
        IF type = q[k + 1].type THEN SetIn(c[type], q[k + 1]) ELSE c[type]
  BY DEF Set
<1>3. \E m : Registered(IF type = q[k + 1].type THEN SetIn(c[type], q[k + 1]) ELSE c[type], m,
                        q, k + 1, type)
  BY <1>1, RegisterStep
<1> QED
  BY <1>2, <1>3

\* What has no effect, wherever it stands.
LEMMA RegisterNone ==
  ASSUME NEW c, NEW q, NEW k \in Nat, AllRegistered(c, q, k),
         q[k + 1].type \notin ConfigurationType \/ q[k + 1].level \notin AllLevels
  PROVE  AllRegistered(c, q, k + 1)
<1> SUFFICES ASSUME NEW type \in ConfigurationType
             PROVE  \E n : Registered(c[type], n, q, k + 1, type)
  BY DEF AllRegistered
<1>1. PICK n : Registered(c[type], n, q, k, type)
  BY DEF AllRegistered
<1>2. q[k + 1].type # type \/ q[k + 1].level \notin AllLevels
  OBVIOUS
<1> QED
  BY <1>1, <1>2, RegisterOther

LEMMA SetAllRegisters ==
  ASSUME NEW c, NEW q, NEW k \in Nat, AllRegistered(c, q, k),
         NEW list, NEW n, IsPart(list, n, q, k)
  PROVE  AllRegistered(SetAll(c, list), q, k + n)
<1>1. n \in Nat /\ DOMAIN list = 1 .. n
  BY DEF IsPart, IsList
<1>2. PICK h : Steps(h, "Set", c, list, n) /\ SetAll(c, list) = h[n]
  BY <1>1, SetAllSteps
<1>3. h[0] = c /\ \A i \in 1 .. n : h[i] = Set(h[i - 1], list[i])
  BY <1>2 DEF Steps, Step
<1> DEFINE S == {i \in 0 .. n : AllRegistered(h[i], q, k + i)}
<1>4. 0 \in S
  BY <1>1, <1>3
<1>5. ASSUME NEW i \in 0 .. n - 1, i \in S PROVE i + 1 \in S
  <2>1. i + 1 \in 1 .. n /\ (i + 1) - 1 = i /\ k + i \in Nat /\ (k + i) + 1 = k + (i + 1)
        /\ i + 1 \in 0 .. n
    BY <1>1
  <2>2. h[i + 1] = Set(h[i], q[(k + i) + 1]) /\
        q[(k + i) + 1] = Setting(q[(k + i) + 1].level, q[(k + i) + 1].type, q[(k + i) + 1].value)
    BY <1>3, <2>1 DEF IsPart
  <2>3. AllRegistered(h[i], q, k + i)
    BY <1>5
  <2>4. AllRegistered(h[i + 1], q, (k + i) + 1)
    BY <2>1, <2>2, <2>3, RegisterSetting
  <2> QED
    BY <2>1, <2>4
<1>6. S = 0 .. n
  <2>1. S \in SUBSET (0 .. n)
    OBVIOUS
  <2> HIDE DEF S
  <2> QED
    BY <1>1, <1>4, <1>5, <2>1, InductionTo
<1>7. AllRegistered(h[n], q, k + n)
  BY <1>1, <1>6
<1> QED
  BY <1>2, <1>7

Concat(a, b) == a \o b

LEMMA ConcatIs ==
  ASSUME NEW a, NEW n, IsList(a, n), NEW b, NEW m, IsList(b, m)
  PROVE  /\ IsList(Concat(a, b), n + m) /\ DOMAIN Concat(a, b) = 1 .. n + m
         /\ \A i \in 1 .. n : Concat(a, b)[i] = a[i]
         /\ \A i \in 1 .. m : Concat(a, b)[n + i] = b[i]
<1> DEFINE S == {a[i] : i \in 1 .. n} \cup {b[i] : i \in 1 .. m}
<1>1. n \in Nat /\ m \in Nat /\ a = [i \in 1 .. n |-> a[i]] /\ b = [i \in 1 .. m |-> b[i]]
  BY DEF IsList
<1>2. a \in [1 .. n -> S] /\ b \in [1 .. m -> S]
  <2>1. (\A i \in 1 .. n : a[i] \in S) /\ (\A i \in 1 .. m : b[i] \in S)
    OBVIOUS
  <2> HIDE DEF S
  <2> QED
    BY <1>1, <2>1
<1> HIDE DEF S
<1>3. a \in Seq(S) /\ b \in Seq(S) /\ Len(a) = n /\ Len(b) = m
  BY <1>1, <1>2
<1> DEFINE c == a \o b
<1>4. /\ c \in Seq(S) /\ Len(c) = n + m
      /\ \A i \in 1 .. n + m : c[i] = IF i <= n THEN a[i] ELSE b[i - n]
  BY <1>3
<1> HIDE DEF c
<1>5. /\ \A i \in 1 .. n : i \in 1 .. n + m /\ i <= n
      /\ \A i \in 1 .. m : n + i \in 1 .. n + m /\ ~(n + i <= n) /\ (n + i) - n = i
  BY <1>1
<1>6. c = [i \in 1 .. n + m |-> c[i]] /\ DOMAIN c = 1 .. n + m
  BY <1>4
<1>7. /\ IsList(c, n + m) /\ DOMAIN c = 1 .. n + m
      /\ \A i \in 1 .. n : c[i] = a[i]
      /\ \A i \in 1 .. m : c[n + i] = b[i]
  <2>1. IsList(c, n + m)
    BY <1>1, <1>6 DEF IsList
  <2> QED
    BY <1>4, <1>5, <1>6, <2>1
<1> QED
  BY <1>7 DEF Concat, c

LEMMA DefaultsAre ==
  LET D == DefaultSettings
  IN  /\ IsList(D, 14) /\ DOMAIN D = 1 .. 14
      /\ \A i \in 1 .. 14 : D[i] = Setting(D[i].level, D[i].type, D[i].value)
      /\ \A i, j \in 1 .. 14 :
           D[i].level = Global /\ D[j].level = Global /\ D[i].type = D[j].type => i = j
      /\ \A i \in 1 .. 14 : D[i].level # Global => i > 9 /\ D[i].type = "Format"
      /\ D[9].level = Global /\ D[9].type = "Format"
      /\ \A type \in AllTypes : \E i \in 1 .. 9 : D[i].level = Global /\ D[i].type = type
<1> DEFINE D == DefaultSettings
<1>1. \A i \in 1 .. 14 : \/ i = 1 \/ i = 2 \/ i = 3 \/ i = 4 \/ i = 5 \/ i = 6 \/ i = 7
                         \/ i = 8 \/ i = 9 \/ i = 10 \/ i = 11 \/ i = 12 \/ i = 13 \/ i = 14
  OBVIOUS
<1>2. IsList(D, 14) /\ DOMAIN D = 1 .. 14
  BY DEF DefaultSettings, IsList
<1>3. PICK v : /\ D[1] = Setting(Global, "Enabled", v[1])
      /\ D[2] = Setting(Global, "Filename", v[2])
      /\ D[3] = Setting(Global, "ToFile", v[3])
      /\ D[4] = Setting(Global, "ToStandardOutput", v[4])
      /\ D[5] = Setting(Global, "SubsecondPrecision", v[5])
      /\ D[6] = Setting(Global, "PerformanceTracking", v[6])
      /\ D[7] = Setting(Global, "MaxLogFileSize", v[7])
      /\ D[8] = Setting(Global, "LogFlushThreshold", v[8])
      /\ D[9] = Setting(Global, "Format", v[9])
      /\ D[10] = Setting("Debug", "Format", v[10])
      /\ D[11] = Setting("Error", "Format", v[11])
      /\ D[12] = Setting("Fatal", "Format", v[12])
      /\ D[13] = Setting("Verbose", "Format", v[13])
      /\ D[14] = Setting("Trace", "Format", v[14])
  <2> DEFINE v == [i \in 1 .. 14 |-> D[i].value]
  <2>1. /\ D[1] = Setting(Global, "Enabled", D[1].value)
      /\ D[2] = Setting(Global, "Filename", D[2].value)
      /\ D[3] = Setting(Global, "ToFile", D[3].value)
      /\ D[4] = Setting(Global, "ToStandardOutput", D[4].value)
      /\ D[5] = Setting(Global, "SubsecondPrecision", D[5].value)
      /\ D[6] = Setting(Global, "PerformanceTracking", D[6].value)
      /\ D[7] = Setting(Global, "MaxLogFileSize", D[7].value)
      /\ D[8] = Setting(Global, "LogFlushThreshold", D[8].value)
    BY DEF DefaultSettings, Setting
  <2>2. /\ D[9] = Setting(Global, "Format", D[9].value)
      /\ D[10] = Setting("Debug", "Format", D[10].value)
      /\ D[11] = Setting("Error", "Format", D[11].value)
      /\ D[12] = Setting("Fatal", "Format", D[12].value)
      /\ D[13] = Setting("Verbose", "Format", D[13].value)
      /\ D[14] = Setting("Trace", "Format", D[14].value)
    BY DEF DefaultSettings, Setting
  <2>3. \A i \in 1 .. 14 : v[i] = D[i].value
    OBVIOUS
  <2> WITNESS v
  <2> HIDE DEF v, D
  <2> QED
    BY <2>1, <2>2, <2>3
<1> HIDE DEF D
<1>4. /\ \A i \in 1 .. 9 : D[i].level = Global
      /\ \A i \in 10 .. 14 : D[i].level # Global /\ D[i].type = "Format"
      /\ D[1].type = "Enabled" /\ D[2].type = "Filename" /\ D[3].type = "ToFile"
      /\ D[4].type = "ToStandardOutput" /\ D[5].type = "SubsecondPrecision"
      /\ D[6].type = "PerformanceTracking" /\ D[7].type = "MaxLogFileSize"
      /\ D[8].type = "LogFlushThreshold" /\ D[9].type = "Format"
  <2>1. \A i \in 1 .. 9 : \/ i = 1 \/ i = 2 \/ i = 3 \/ i = 4 \/ i = 5 \/ i = 6 \/ i = 7
                          \/ i = 8 \/ i = 9
    OBVIOUS
  <2>2. \A i \in 10 .. 14 : i = 10 \/ i = 11 \/ i = 12 \/ i = 13 \/ i = 14
    OBVIOUS
  <2> QED
    BY <1>3, <2>1, <2>2, SettingFields DEF Global
<1>5. \A i \in 1 .. 14 : D[i] = Setting(D[i].level, D[i].type, D[i].value)
  BY <1>1, <1>3, SettingFields
<1>6. \A i \in 1 .. 14 : D[i].level # Global => i > 9 /\ D[i].type = "Format"
  BY <1>1, <1>4
<1>7. ASSUME NEW i \in 1 .. 14, NEW j \in 1 .. 14,
             D[i].level = Global, D[j].level = Global, D[i].type = D[j].type
      PROVE  i = j
  <2>1. i \in 1 .. 9 /\ j \in 1 .. 9
    BY <1>4, <1>7
  <2>2. \A x \in 1 .. 9 : \/ x = 1 \/ x = 2 \/ x = 3 \/ x = 4 \/ x = 5 \/ x = 6 \/ x = 7
                          \/ x = 8 \/ x = 9
    OBVIOUS
  <2> QED
    BY <1>4, <1>7, <2>1, <2>2
<1>8. \A type \in AllTypes : \E i \in 1 .. 9 : D[i].level = Global /\ D[i].type = type
  BY <1>4 DEF AllTypes
<1>9. D[9].level = Global /\ D[9].type = "Format"
  BY <1>4
<1>10. \A i, j \in 1 .. 14 :
         D[i].level = Global /\ D[j].level = Global /\ D[i].type = D[j].type => i = j
  BY <1>7
<1> QED
  BY <1>2, <1>5, <1>6, <1>8, <1>9, <1>10, Zenon DEF D

LEMMA ProgramSettingsAre ==
  /\ IsList(ProgramSettings, 8) /\ DOMAIN ProgramSettings = 1 .. 8
  /\ \A i \in 1 .. 8 : ProgramSettings[i] =
       Setting(ProgramSettings[i].level, ProgramSettings[i].type, ProgramSettings[i].value)
<1>1. \A i \in 1 .. 8 : \/ i = 1 \/ i = 2 \/ i = 3 \/ i = 4 \/ i = 5 \/ i = 6 \/ i = 7 \/ i = 8
  OBVIOUS
<1>2. IsList(ProgramSettings, 8) /\ DOMAIN ProgramSettings = 1 .. 8
  BY DEF ProgramSettings, IsList
<1>3. ASSUME NEW i \in 1 .. 8
      PROVE  \E l, t, v : ProgramSettings[i] = Setting(l, t, v)
  BY <1>1 DEF ProgramSettings
<1>4. ASSUME NEW i \in 1 .. 8
      PROVE  ProgramSettings[i] =
        Setting(ProgramSettings[i].level, ProgramSettings[i].type, ProgramSettings[i].value)
  <2>1. PICK l, t, v : ProgramSettings[i] = Setting(l, t, v)
    BY <1>3
  <2>2. /\ ProgramSettings[i].level = l /\ ProgramSettings[i].type = t
        /\ ProgramSettings[i].value = v
    BY <2>1, SettingFields
  <2> QED
    BY <2>1, <2>2
<1> QED
  BY <1>2, <1>4

LEMMA UnknownIsNone ==
  "Unknown" \notin ConfigurationType /\ "Unknown" \notin AllLevels
<1>1. "Unknown" \notin AllTypes
  BY DEF AllTypes
<1> QED
  BY <1>1, TypeAssumption, OrderFacts

LEMMA NothingRegistered ==
  ASSUME NEW q
  PROVE  AllRegistered(NoConfigurations, q, 0)
BY RegisteredNothing DEF AllRegistered, NoConfigurations

LEMMA DefaultsRegister ==
  ASSUME NEW q, \A i \in 1 .. 14 : q[i] = DefaultSettings[i]
  PROVE  AllRegistered(DefaultConfigurations, q, 14)
<1>1. IsPart(DefaultSettings, 14, q, 0)
  <2>1. \A i \in 1 .. 14 : q[0 + i] = DefaultSettings[i]
    OBVIOUS
  <2> QED
    BY <2>1, DefaultsAre DEF IsPart
<1>2. AllRegistered(SetAll(NoConfigurations, DefaultSettings), q, 0 + 14)
  BY <1>1, NothingRegistered, SetAllRegisters
<1> QED
  BY <1>2 DEF DefaultConfigurations, SetToDefault

LEMMA ProgramRegisters ==
  LET q == DefaultSettings \o ProgramSettings
  IN  DOMAIN q = 1 .. 22 /\ AllRegistered(ProgramConfigurations, q, 22)
<1> DEFINE q == DefaultSettings \o ProgramSettings
<1>1. /\ DOMAIN q = 1 .. 14 + 8
      /\ \A i \in 1 .. 14 : q[i] = DefaultSettings[i]
      /\ \A i \in 1 .. 8 : q[14 + i] = ProgramSettings[i]
  <2> DEFINE a == DefaultSettings
             b == ProgramSettings
             n == 14
             m == 8
  <2>1. IsList(a, n) /\ IsList(b, m)
    BY DefaultsAre, ProgramSettingsAre
  <2>2. q = Concat(a, b)
    BY DEF Concat
  <2> HIDE DEF q, a, b, n, m
  <2>3. /\ DOMAIN q = 1 .. n + m
        /\ \A i \in 1 .. n : q[i] = a[i]
        /\ \A i \in 1 .. m : q[n + i] = b[i]
    BY <2>1, <2>2, ConcatIs
  <2> QED
    BY <2>3 DEF a, b, n, m
<1> HIDE DEF q
<1>2. AllRegistered(DefaultConfigurations, q, 14)
  BY <1>1, DefaultsRegister
<1>3. IsPart(ProgramSettings, 8, q, 14)
  BY <1>1, ProgramSettingsAre DEF IsPart
<1>4. AllRegistered(SetAll(DefaultConfigurations, ProgramSettings), q, 14 + 8)
  BY <1>2, <1>3, SetAllRegisters
<1> QED
  BY <1>1, <1>4 DEF ProgramConfigurations, q

\* The defaults name every level: what is made of them is a full list.
LEMMA DefaultsAreFull ==
  ASSUME NEW type \in ConfigurationType
  PROVE  DefaultConfigurations[type] = FullList(Stored(Nothing, DefaultSettings), type)
<1> DEFINE q == DefaultSettings
           w == Stored(Nothing, q)
           S(l) == Sources(q, 14, l, type)
<1>1. PICK n : Registered(DefaultConfigurations[type], n, q, 14, type)
  BY DefaultsRegister DEF AllRegistered
<1> DEFINE list == DefaultConfigurations[type]
<1>2. /\ DOMAIN q = 1 .. 14
      /\ \A i \in 1 .. 14 : q[i].level # Global => i > 9 /\ q[i].type = "Format"
      /\ q[9].level = Global /\ q[9].type = "Format"
      /\ \E i \in 1 .. 14 : q[i].level = Global /\ q[i].type = type
  <2>1. type \in AllTypes
    BY TypeAssumption
  <2>2. \A i \in 1 .. 9 : i \in 1 .. 14
    OBVIOUS
  <2> QED
    BY <2>1, <2>2, DefaultsAre
<1> HIDE DEF q, list
<1>3. ASSUME NEW l \in AllLevels, NEW z \in S(l) PROVE \E y \in S(Global) : y <= z
  <2>1. z \in 1 .. 14 /\ q[z].type = type
    BY DEF Sources
  <2>2. CASE q[z].level = Global
    <3>1. z \in S(Global)
      BY <2>1, <2>2 DEF Sources, Reaches
    <3> QED
      BY <2>1, <3>1
  <2>3. CASE q[z].level # Global
    <3>1. 9 \in S(Global) /\ 9 <= z
      BY <1>2, <2>1, <2>3 DEF Sources, Reaches
    <3> QED
      BY <3>1
  <2> QED
    BY <2>2, <2>3
<1>4. S(Global) # {}
  BY <1>2 DEF Sources, Reaches
<1>5. ASSUME NEW l \in AllLevels, NEW x, IsLast(x, S(l)) PROVE w[l][type] = q[x].value
  <2>1. \A z \in S(l) : \E y \in S(Global) : y <= z
    BY <1>3
  <2>2. \A a : IsLast(a, S(l)) /\
               (\/ l = Global \/ S(Global) = {}
                \/ \A z \in S(l) : \E y \in S(Global) : y <= z)
               => w[l][type] = q[a].value
    <3> DEFINE k == 14
               T(j) == Sources(q, k, j, type)
    <3>1. k \in Nat /\ DOMAIN q = 1 .. k
      BY <1>2
    <3> HIDE DEF k
    <3>2. \A a : IsLast(a, T(l)) /\
                 (\/ l = Global \/ T(Global) = {}
                  \/ \A z \in T(l) : \E y \in T(Global) : y <= z)
                 => w[l][type] = q[a].value
      BY <3>1, StoredIs
    <3> QED
      BY <3>2 DEF k
  <2> HIDE DEF S, w
  <2> QED
    BY <1>5, <2>1, <2>2
<1> HIDE DEF w
<1>6. /\ Tidy(list, n, type)
      /\ \A i \in 1 .. n : \E x \in 1 .. 14 :
           IsLast(x, S(list[i].level)) /\ list[i].value = q[x].value
      /\ n = N /\ \A i \in 1 .. n : list[i].level = Order[i]
  BY <1>1, <1>3, <1>4 DEF Registered, list
<1> HIDE DEF S
<1>7. \A i \in 1 .. N : list[i] = Setting(Order[i], type, w[Order[i]][type])
  <2> SUFFICES ASSUME NEW i \in 1 .. N
               PROVE  list[i] = Setting(Order[i], type, w[Order[i]][type])
    OBVIOUS
  <2>1. PICK x \in 1 .. 14 : IsLast(x, S(list[i].level)) /\ list[i].value = q[x].value
    BY <1>6
  <2>2. list[i].level = Order[i] /\ Order[i] \in AllLevels
    BY <1>6, OrderFacts
  <2>3. list[i].value = w[Order[i]][type]
    BY <1>5, <2>1, <2>2
  <2>4. list[i] = Setting(list[i].level, type, list[i].value)
    BY <1>6 DEF Tidy
  <2> QED
    BY <2>2, <2>3, <2>4
<1>8. list = [i \in 1 .. N |-> list[i]]
  BY <1>6 DEF Tidy, IsList
<1>9. list = FullList(w, type)
  BY <1>7, <1>8 DEF FullList
<1> QED
  BY <1>9 DEF list, w, q

LEMMA ParsedRegisters ==
  ASSUME NEW text \in Text
  PROVE  /\ Len(text) \in Nat /\ DOMAIN Said(text) = 1 .. Len(text)
         /\ AllRegistered(ParseFromText(NoConfigurations, text).conf, Said(text), Len(text))
<1> DEFINE n == Len(text)
           q == Said(text)
           base == [conf |-> NoConfigurations, level |-> "Unknown", success |-> FALSE]
           before(k) == {j \in 1 .. k : text[j].kind = "level"}
<1>1. n \in Nat /\ DOMAIN text = 1 .. n
  BY TextAssumption
<1>2. \A i \in 1 .. n : text[i].kind \in {"comment", "level", "config"}
  BY <1>1, TextAssumption
<1>3. PICK h : Steps(h, "ParseLine", base, text, n) /\ FoldLeft(ParseLine, base, text) = h[n]
  <2> HIDE DEF base
  <2> QED
    BY <1>1, ParseLineSteps
<1>4. h[0] = base /\ \A k \in 1 .. n : h[k] = ParseLine(h[k - 1], text[k])
  BY <1>3 DEF Steps, Step
<1>5. ASSUME NEW i \in 1 .. n
      PROVE  q[i] = IF text[i].kind = "config"
                    THEN Setting(LevelAt(text, i),
                                 ConvertFromString(configStringToTypeMap, text[i].name),
                                 text[i].value)
                    ELSE Setting("Unknown", "Unknown", "")
  BY <1>1 DEF Said
<1>6. DOMAIN q = 1 .. n
  BY <1>1 DEF Said
<1> HIDE DEF n, q
<1> DEFINE S == {k \in 0 .. n :
                  /\ h[k] = [conf |-> h[k].conf, level |-> h[k].level, success |-> h[k].success]
                  /\ h[k].level = LevelAt(text, k)
                  /\ AllRegistered(h[k].conf, q, k)}
<1>7. 0 \in S
  <2>1. LevelAt(text, 0) = "Unknown"
    BY DEF LevelAt
  <2>2. h[0].conf = NoConfigurations /\ h[0].level = "Unknown" /\ h[0].success = FALSE
    BY <1>4
  <2>3. AllRegistered(h[0].conf, q, 0)
    BY <2>2, NothingRegistered
  <2> QED
    BY <1>1, <1>4, <2>1, <2>2, <2>3
<1>8. ASSUME NEW k \in 0 .. n - 1, k \in S PROVE k + 1 \in S
  <2> DEFINE p == h[k]
             line == text[k + 1]
  <2>1. k \in Nat /\ k + 1 \in 1 .. n /\ (k + 1) - 1 = k /\ k + 1 \in 0 .. n
    BY <1>1
  <2>2. /\ p = [conf |-> p.conf, level |-> p.level, success |-> p.success]
        /\ p.level = LevelAt(text, k)
        /\ AllRegistered(p.conf, q, k)
    BY <1>8
  <2>3. h[k + 1] = ParseLine(p, line)
    BY <1>4, <2>1
  <2>4. 1 .. k + 1 = (1 .. k) \cup {k + 1}
    BY <2>1
  <2>5. line.kind # "level" => LevelAt(text, k + 1) = LevelAt(text, k)
    <3>1. line.kind # "level" => before(k + 1) = before(k)
      BY <2>4
    <3> QED
      BY <3>1 DEF LevelAt
  <2>6. line.kind = "level" =>
          LevelAt(text, k + 1) = ConvertFromString(stringToLevelMap, line.name)
    <3> SUFFICES ASSUME line.kind = "level"
                 PROVE LevelAt(text, k + 1) = ConvertFromString(stringToLevelMap, line.name)
      OBVIOUS
    <3>1. before(k + 1) \in SUBSET (1 .. k + 1) /\ k + 1 \in before(k + 1)
      BY <2>1, <2>4
    <3>2. Max(before(k + 1)) = k + 1 /\ before(k + 1) # {}
      <4> HIDE DEF before
      <4> QED
        BY <2>1, <3>1, TopIs
    <3>3. LevelAt(text, k + 1) =
            IF before(k + 1) = {} THEN "Unknown"
            ELSE ConvertFromString(stringToLevelMap, text[Max(before(k + 1))].name)
      BY DEF LevelAt
    <3> HIDE DEF before
    <3> QED
      BY <3>2, <3>3
  <2>7. q[k + 1] = IF line.kind = "config"
                   THEN Setting(LevelAt(text, k + 1),
                                ConvertFromString(configStringToTypeMap, line.name),
                                line.value)
                   ELSE Setting("Unknown", "Unknown", "")
    BY <1>5, <2>1
  <2>8. line.kind \in {"comment", "level", "config"}
    BY <1>2, <2>1
  <2> HIDE DEF p, line
  <2>9. CASE line.kind # "config"
    <3>0. \E v : q[k + 1] = Setting("Unknown", "Unknown", v)
      BY <2>7, <2>9
    <3>1. q[k + 1].type \notin ConfigurationType
      BY <3>0, UnknownIsNone, SettingFields
    <3>2. AllRegistered(p.conf, q, k + 1)
      BY <2>1, <2>2, <3>1, RegisterNone
    <3>3. CASE line.kind = "comment"
      <4>1. h[k + 1] = [conf |-> p.conf, level |-> p.level, success |-> TRUE]
        BY <2>2, <2>3, <3>3 DEF ParseLine
      <4> QED
        BY <2>1, <2>2, <2>5, <3>2, <3>3, <4>1
    <3>4. CASE line.kind = "level"
      <4>1. h[k + 1] = [conf |-> p.conf, success |-> TRUE,
                        level |-> ConvertFromString(stringToLevelMap, line.name)]
        BY <2>2, <2>3, <3>4 DEF ParseLine
      <4> QED
        BY <2>1, <2>6, <3>2, <3>4, <4>1
    <3> QED
      BY <2>8, <2>9, <3>3, <3>4
  <2>10. CASE line.kind = "config"
    <3> DEFINE type == ConvertFromString(configStringToTypeMap, line.name)
               known == "Unknown" \notin {p.level, type}
               s == Setting(p.level, type, line.value)
    <3>1. LevelAt(text, k + 1) = p.level /\ q[k + 1] = s
      BY <2>2, <2>5, <2>7, <2>10
    <3>2. h[k + 1] = [p EXCEPT !.success = known, !.conf = IF known THEN Set(@, s) ELSE @]
      BY <2>3, <2>10 DEF ParseLine
    <3>3. s.level = p.level /\ s.type = type /\ s.value = line.value
      BY SettingFields
    <3> HIDE DEF type, s
    <3>4. h[k + 1] = [conf |-> IF known THEN Set(p.conf, s) ELSE p.conf,
                      level |-> p.level, success |-> known]
      BY <2>2, <3>2
    <3>5. AllRegistered(IF known THEN Set(p.conf, s) ELSE p.conf, q, k + 1)
      <4>1. CASE known
        <5>1. q[k + 1] = Setting(q[k + 1].level, q[k + 1].type, q[k + 1].value)
          BY <3>1, <3>3 DEF s
        <5>2. AllRegistered(Set(p.conf, q[k + 1]), q, k + 1)
          BY <2>1, <2>2, <5>1, RegisterSetting
        <5> QED
          BY <3>1, <4>1, <5>2
      <4>2. CASE ~known
        <5>1. q[k + 1].type \notin ConfigurationType \/ q[k + 1].level \notin AllLevels
          BY <3>1, <3>3, <4>2, UnknownIsNone
        <5>2. AllRegistered(p.conf, q, k + 1)
          BY <2>1, <2>2, <5>1, RegisterNone
        <5> QED
          BY <4>2, <5>2
      <4> QED
        BY <4>1, <4>2
    <3> HIDE DEF known
    <3> QED
      BY <2>1, <3>1, <3>4, <3>5
  <2> QED
    BY <2>9, <2>10
<1>9. S = 0 .. n
  <2>1. S \in SUBSET (0 .. n)
    OBVIOUS
  <2> HIDE DEF S
  <2> QED
    BY <1>1, <1>7, <1>8, <2>1, InductionTo
<1>10. AllRegistered(h[n].conf, q, n)
  <2>1. n \in S
    BY <1>1, <1>9
  <2> QED
    BY <2>1
<1>11. ParseFromText(NoConfigurations, text) = h[n]
  BY <1>3 DEF ParseFromText
<1> QED
  BY <1>1, <1>6, <1>10, <1>11 DEF q, n

\* Only the settings up to the k-th matter.
LEMMA SamePrefix ==
  ASSUME NEW c, NEW q, NEW p, NEW k \in Nat, AllRegistered(c, p, k),
         \A i \in 1 .. k : q[i] = p[i]
  PROVE  AllRegistered(c, q, k)
<1> SUFFICES ASSUME NEW type \in ConfigurationType
             PROVE  \E n : Registered(c[type], n, q, k, type)
  BY DEF AllRegistered
<1>1. PICK n : Registered(c[type], n, p, k, type)
  BY DEF AllRegistered
<1>2. ASSUME NEW l PROVE Sources(q, k, l, type) = Sources(p, k, l, type)
  BY DEF Sources
<1>3. /\ Tidy(c[type], n, type)
      /\ \A l \in AllLevels : HasLevel(c[type], l) <=> Sources(q, k, l, type) # {}
      /\ \A i, j \in 1 .. n : c[type][j].level = Global /\ i # j =>
           (i < j <=> \E x \in Sources(q, k, c[type][i].level, type) :
                        Before(x, Sources(q, k, Global, type)))
  BY <1>1, <1>2 DEF Registered
<1>4. \A i \in 1 .. n : \E x \in 1 .. k :
        IsLast(x, Sources(q, k, c[type][i].level, type)) /\ c[type][i].value = q[x].value
  BY <1>1, <1>2 DEF Registered
<1>5. Sources(q, k, Global, type) # {} /\
      (\A l \in AllLevels : \A x \in Sources(q, k, l, type) :
         \E y \in Sources(q, k, Global, type) : y <= x)
      => n = N /\ \A i \in 1 .. n : c[type][i].level = Order[i]
  BY <1>1, <1>2 DEF Registered
<1>6. Registered(c[type], n, q, k, type)
  BY <1>3, <1>4, <1>5 DEF Registered
<1> QED
  BY <1>6

\* What setRemainingToDefault() adds to a list: the defaults of Global only, since
\* a value of Global reaches every level.
Unsaid(settings, setting) ==
  /\ setting.level = Global
  /\ setting.type \notin {"ToFile", "LogFlushThreshold"}
  /\ Positions(settings, Global, setting.type) = {}
Remaining(settings) ==
  [i \in DOMAIN DefaultSettings |->
    IF Unsaid(settings, DefaultSettings[i]) THEN DefaultSettings[i]
    ELSE Setting("Unknown", "Unknown", "")]

LEMMA RemainingAre ==
  ASSUME NEW said
  PROVE  /\ IsList(Remaining(said), 14)
         /\ \A i \in 1 .. 14 :
              IF Unsaid(said, DefaultSettings[i]) THEN Remaining(said)[i] = DefaultSettings[i]
              ELSE \E v : Remaining(said)[i] = Setting("Unknown", "Unknown", v)
<1>1. DOMAIN DefaultSettings = 1 .. 14
  BY DefaultsAre
<1>2. IsList(Remaining(said), 14)
  BY <1>1 DEF Remaining, IsList
<1>3. ASSUME NEW i \in 1 .. 14
      PROVE  Remaining(said)[i] =
               IF Unsaid(said, DefaultSettings[i]) THEN DefaultSettings[i]
               ELSE Setting("Unknown", "Unknown", "")
  BY <1>1 DEF Remaining
<1>4. ASSUME NEW i \in 1 .. 14
      PROVE  IF Unsaid(said, DefaultSettings[i]) THEN Remaining(said)[i] = DefaultSettings[i]
              ELSE \E v : Remaining(said)[i] = Setting("Unknown", "Unknown", v)
  BY <1>3
<1> QED
  BY <1>2, <1>4

LEMMA FilledAre ==
  /\ DOMAIN Defaults = 1 .. 14
  /\ \A i \in 1 .. 14 :
       IF DefaultSettings[i].type \in {"ToFile", "LogFlushThreshold"}
       THEN \E v : Defaults[i] = Setting("Unknown", "Unknown", v)
       ELSE Defaults[i] = DefaultSettings[i]
<1>1. DOMAIN DefaultSettings = 1 .. 14
  BY DefaultsAre
<1>2. DOMAIN Defaults = 1 .. 14
  BY <1>1 DEF Defaults
<1>3. ASSUME NEW i \in 1 .. 14
      PROVE  Defaults[i] =
               IF DefaultSettings[i].type \in {"ToFile", "LogFlushThreshold"}
               THEN Setting("Unknown", "Unknown", "") ELSE DefaultSettings[i]
  BY <1>1 DEF Defaults
<1> QED
  BY <1>2, <1>3

\* q is what a text said and the defaults it left out.
Completed(said, n, q) ==
  /\ DOMAIN said = 1 .. n
  /\ \A i \in 1 .. n : q[i] = said[i]
  /\ \A i \in 1 .. 14 : q[n + i] = Remaining(said)[i]

\* One of the defaults is given to what a text said, or not.
LEMMA RemainingStep ==
  ASSUME NEW said, NEW n \in Nat, NEW q, Completed(said, n, q),
         NEW k \in 0 .. 13, NEW c, AllRegistered(c, q, n + k)
  PROVE  AllRegistered(SetIfNotExist(c, DefaultSettings[k + 1]), q, (n + k) + 1)
<1> DEFINE D == DefaultSettings
           d == D[k + 1]
           S(l, type) == Sources(q, n + k, l, type)
<1>1. /\ \A i \in 1 .. 14 : D[i] = Setting(D[i].level, D[i].type, D[i].value)
      /\ \A i, j \in 1 .. 14 :
           D[i].level = Global /\ D[j].level = Global /\ D[i].type = D[j].type => i = j
      /\ \A i \in 1 .. 14 : D[i].level # Global => i > 9 /\ D[i].type = "Format"
      /\ D[9].level = Global /\ D[9].type = "Format"
  BY DefaultsAre
<1>2. \A i \in 1 .. 14 : IF Unsaid(said, D[i]) THEN q[n + i] = D[i]
                         ELSE \E v : q[n + i] = Setting("Unknown", "Unknown", v)
  <2>1. \A i \in 1 .. 14 : q[n + i] = Remaining(said)[i]
    BY DEF Completed
  <2>2. \A i \in 1 .. 14 :
          IF Unsaid(said, D[i]) THEN Remaining(said)[i] = D[i]
          ELSE \E v : Remaining(said)[i] = Setting("Unknown", "Unknown", v)
    BY RemainingAre
  <2> HIDE DEF D
  <2> QED
    BY <2>1, <2>2
<1> HIDE DEF D
<1>3. /\ n + k \in Nat /\ k + 1 \in 1 .. 14 /\ (n + k) + 1 = n + (k + 1)
      /\ \A i \in 1 .. n : i \in 1 .. n + k
      /\ \A i \in 1 .. n + k : i \in 1 .. n \/
           \E j \in 1 .. 14 : i = n + j /\ j < k + 1
  <2>1. ASSUME NEW i \in 1 .. n + k, ~(i \in 1 .. n)
        PROVE  \E j \in 1 .. 14 : i = n + j /\ j < k + 1
    <3>1. i - n \in 1 .. 14 /\ i = n + (i - n) /\ i - n < k + 1
      BY <2>1
    <3> QED
      BY <3>1
  <2> QED
    BY <2>1
<1>4. \A l, type : l \in AllLevels /\ type \in ConfigurationType =>
        (HasLevel(c[type], l) <=> S(l, type) # {})
  BY DEF AllRegistered, Registered
<1>5. \A l, type : S(l, type) =
        {i \in 1 .. n + k : q[i].type = type /\ (q[i].level = l \/ q[i].level = Global)}
  BY DEF Sources, Reaches
<1> HIDE DEF S
<1>6. \A type : Positions(said, Global, type) # {} <=>
        \E i \in 1 .. n : q[i].level = Global /\ q[i].type = type
  BY DEF Positions, Completed
<1>7. Global \in AllLevels /\ Global # "Unknown" /\ Level \subseteq AllLevels
  BY OrderFacts DEF AllLevels
<1>8. d = Setting(d.level, d.type, d.value)
  BY <1>1, <1>3
<1>9. CASE Unsaid(said, d)
  <2>1. d.level = Global /\ d.type \notin {"ToFile", "LogFlushThreshold"} /\
        Positions(said, Global, d.type) = {}
    BY <1>9 DEF Unsaid
  <2>2. q[n + (k + 1)] = d
    BY <1>2, <1>3, <1>9
  <2>3. ~HasConfiguration(c, d.level, d.type)
    <3> SUFFICES ASSUME d.type \in ConfigurationType, HasLevel(c[d.type], Global)
                 PROVE  FALSE
      BY <2>1 DEF HasConfiguration
    <3>0. S(Global, d.type) # {}
      BY <1>4, <1>7
    <3>1. PICK i \in 1 .. n + k : q[i].type = d.type /\ q[i].level = Global
      BY <1>5, <3>0
    <3>2. ~(i \in 1 .. n)
      BY <1>6, <2>1, <3>1
    <3>3. PICK j \in 1 .. 14 : i = n + j /\ j < k + 1
      BY <1>3, <3>2
    <3>4. CASE Unsaid(said, D[j])
      <4>1. D[j].type = d.type /\ D[j].level = Global
        BY <1>2, <3>1, <3>3, <3>4
      <4>2. j = k + 1
        BY <1>1, <1>3, <2>1, <3>3, <4>1
      <4> QED
        BY <3>3, <4>2
    <3>5. CASE ~Unsaid(said, D[j])
      <4>1. PICK v : q[i] = Setting("Unknown", "Unknown", v)
        BY <1>2, <3>3, <3>5
      <4>2. q[i].level = "Unknown"
        BY <4>1, SettingFields
      <4> QED
        BY <1>7, <3>1, <4>2
    <3> QED
      BY <3>4, <3>5
  <2>4. SetIfNotExist(c, d) = Set(c, d)
    BY <2>1, <2>3 DEF SetIfNotExist
  <2>5. AllRegistered(Set(c, q[(n + k) + 1]), q, (n + k) + 1)
    <3>1. q[(n + k) + 1] = d
      BY <1>3, <2>2
    <3> HIDE DEF d
    <3> QED
      BY <1>3, <1>8, <3>1, RegisterSetting
  <2> QED
    BY <1>3, <2>2, <2>4, <2>5 DEF D
<1>10. CASE ~Unsaid(said, d)
  <2>0. \E v : q[n + (k + 1)] = Setting("Unknown", "Unknown", v)
    BY <1>2, <1>3, <1>10
  <2>1. PICK v : q[(n + k) + 1] = Setting("Unknown", "Unknown", v)
    BY <1>3, <2>0
  <2>2. AllRegistered(c, q, (n + k) + 1)
    <3>0. q[(n + k) + 1].type = "Unknown"
      BY <2>1, SettingFields
    <3>1. q[(n + k) + 1].type \notin ConfigurationType
      BY <3>0, UnknownIsNone
    <3> QED
      BY <1>3, <3>1, RegisterNone
  <2>3. ASSUME NEW type \in ConfigurationType
        PROVE  SetIfNotExist(c, d)[type] = c[type]
    <3>1. CASE SetIfNotExist(c, d) = c
      BY <3>1
    <3>2. CASE SetIfNotExist(c, d) # c
      <4>1. /\ d.type \notin {"ToFile", "LogFlushThreshold"}
            /\ ~HasConfiguration(c, d.level, d.type)
            /\ SetIfNotExist(c, d) = Set(c, d)
        BY <3>2 DEF SetIfNotExist
      <4>2. Set(c, d)[type] = IF type = d.type THEN SetIn(c[type], d) ELSE c[type]
        BY DEF Set
      <4>3. CASE type # d.type
        BY <4>1, <4>2, <4>3
      <4>4. CASE type = d.type
        <5>1. ~HasLevel(c[type], d.level)
          BY <4>1, <4>4 DEF HasConfiguration
        <5>2. CASE d.level = Global
          <6>1. Positions(said, Global, type) # {}
            BY <1>10, <4>1, <4>4, <5>2 DEF Unsaid
          <6>2. S(Global, type) # {}
            <7>1. PICK i \in 1 .. n : q[i].level = Global /\ q[i].type = type
              BY <1>6, <6>1
            <7>2. i \in 1 .. n + k
              BY <1>3
            <7> QED
              BY <1>5, <7>1, <7>2
          <6> QED
            BY <1>4, <1>7, <5>1, <5>2, <6>2
        <5>3. CASE d.level # Global
          <6>1. k + 1 > 9 /\ type = "Format"
            BY <1>1, <1>3, <4>4, <5>3
          <6>2. \E i \in 1 .. n + k : q[i].type = type /\ q[i].level = Global
            <7>1. CASE Positions(said, Global, type) # {}
              <8>1. PICK i \in 1 .. n : q[i].level = Global /\ q[i].type = type
                BY <1>6, <7>1
              <8>2. i \in 1 .. n + k
                BY <1>3
              <8> QED
                BY <8>1, <8>2
            <7>2. CASE Positions(said, Global, type) = {}
              <8>1. Unsaid(said, D[9])
                BY <1>1, <6>1, <7>2 DEF Unsaid
              <8>2. q[n + 9] = D[9] /\ n + 9 \in 1 .. n + k
                <9>1. 9 \in 1 .. 14 /\ n + 9 \in 1 .. n + k
                  BY <6>1
                <9> QED
                  BY <1>2, <8>1, <9>1
              <8> QED
                BY <1>1, <6>1, <8>2
            <7> QED
              BY <7>1, <7>2
          <6>3. S(d.level, type) # {}
            BY <1>5, <6>2
          <6>4. d.level \notin AllLevels
            BY <1>4, <5>1, <6>3
          <6>5. SetIn(c[type], d) = c[type]
            BY <5>3, <6>4 DEF SetIn, AllLevels
          <6> QED
            BY <4>1, <4>2, <4>4, <6>5
        <5> QED
          BY <5>2, <5>3
      <4> QED
        BY <4>3, <4>4
    <3> QED
      BY <3>1, <3>2
  <2>4. AllRegistered(SetIfNotExist(c, d), q, (n + k) + 1)
    BY <2>2, <2>3 DEF AllRegistered
  <2> QED
    BY <2>4 DEF D
<1> QED
  BY <1>9, <1>10

LEMMA RemainingRegisters ==
  ASSUME NEW text \in Text
  PROVE  LET q == Said(text) \o Remaining(Said(text))
             parsed == ParseFromText(NoConfigurations, text).conf
         IN  \E k \in Nat : /\ DOMAIN q = 1 .. k
                            /\ AllRegistered(SetRemainingToDefault(parsed), q, k)
<1> DEFINE said == Said(text)
           n == Len(text)
           rest == Remaining(said)
           q == said \o rest
           parsed == ParseFromText(NoConfigurations, text).conf
           D == DefaultSettings
           m == 14
<1>1. n \in Nat /\ DOMAIN said = 1 .. n /\ AllRegistered(parsed, said, n)
  BY ParsedRegisters
<1>2. IsList(said, n)
  <2>1. said = [i \in 1 .. n |-> said[i]]
    BY <1>1 DEF Said
  <2> HIDE DEF said, n
  <2> QED
    BY <1>1, <2>1 DEF IsList
<1>3. IsList(rest, m)
  BY RemainingAre
<1>4. q = Concat(said, rest)
  BY DEF Concat
<1>5. m \in Nat /\ DOMAIN D = 1 .. m
  BY DefaultsAre
<1>6. SetRemainingToDefault(parsed) = FoldLeft(SetIfNotExist, parsed, D)
  BY DEF SetRemainingToDefault
<1> HIDE DEF n, q, parsed, D, m
<1>7. /\ DOMAIN q = 1 .. n + m
      /\ \A i \in 1 .. n : q[i] = said[i]
      /\ \A i \in 1 .. m : q[n + i] = rest[i]
  <2> HIDE DEF said, rest
  <2> QED
    BY <1>2, <1>3, <1>4, ConcatIs
<1>8. PICK h : Steps(h, "SetIfNotExist", parsed, D, m) /\
               FoldLeft(SetIfNotExist, parsed, D) = h[m]
  BY <1>5, SetIfNotExistSteps
<1>9. h[0] = parsed /\ \A k \in 1 .. m : h[k] = SetIfNotExist(h[k - 1], D[k])
  BY <1>8 DEF Steps, Step
<1> DEFINE S == {k \in 0 .. m : AllRegistered(h[k], q, n + k)}
<1>10. 0 \in S
  <2>1. AllRegistered(parsed, q, n)
    BY <1>1, <1>7, SamePrefix
  <2>2. 0 \in 0 .. m /\ n + 0 = n
    BY <1>1, <1>5
  <2> QED
    BY <1>9, <2>1, <2>2
<1>11. ASSUME NEW k \in 0 .. m - 1, k \in S PROVE k + 1 \in S
  <2>0. k \in 0 .. 13
    BY DEF m
  <2>1. k + 1 \in 1 .. m /\ (k + 1) - 1 = k /\ k + 1 \in 0 .. m
        /\ (n + k) + 1 = n + (k + 1)
    BY <1>1, <1>5
  <2>2. Completed(said, n, q)
    BY <1>1, <1>7 DEF m, Completed
  <2>3. AllRegistered(h[k], q, n + k)
    BY <1>11
  <2>4. AllRegistered(SetIfNotExist(h[k], D[k + 1]), q, (n + k) + 1)
    <3> HIDE DEF said, S
    <3> QED
      BY <1>1, <2>0, <2>2, <2>3, RemainingStep DEF D
  <2> QED
    BY <1>9, <2>1, <2>4
<1>12. S = 0 .. m
  <2>1. S \in SUBSET (0 .. m)
    OBVIOUS
  <2> HIDE DEF S
  <2> QED
    BY <1>5, <1>10, <1>11, <2>1, InductionTo
<1>13. AllRegistered(h[m], q, n + m)
  <2>1. m \in S
    BY <1>5, <1>12
  <2> QED
    BY <2>1
<1>14. n + m \in Nat /\ DOMAIN q = 1 .. n + m
  BY <1>1, <1>5, <1>7
<1>15. AllRegistered(SetRemainingToDefault(parsed), q, n + m)
  BY <1>6, <1>8, <1>13
<1> QED
  BY <1>14, <1>15 DEF q, parsed

-----------------------------------------------------------------------------
(***************************************************************************)
(* The maps made of a full list.                                           *)
(***************************************************************************)

IsMap(map) == map = [x \in DOMAIN map |-> map[x]] /\ Global \in DOMAIN map

IsEmpty(map) == DOMAIN map = {}

LEMMA FirstValue ==
  ASSUME NEW none, IsEmpty(none), NEW level, NEW value
  PROVE  LET map == SetValue(none, level, value)
         IN  IsMap(map) /\ DOMAIN map = {Global} /\ map[Global] = value
<1>1. DOMAIN none = {}
  BY DEF IsEmpty
<1>2. SetValue(none, level, value) = With(none, Global, value)
  BY <1>1 DEF SetValue
<1>3. With(none, Global, value) = [l \in {Global} |-> value]
  BY <1>1 DEF With
<1> DEFINE map == [l \in {Global} |-> value]
<1>4. DOMAIN map = {Global} /\ map[Global] = value /\ map = [x \in {Global} |-> map[x]]
  OBVIOUS
<1> HIDE DEF map
<1>5. IsMap(map) /\ DOMAIN map = {Global} /\ map[Global] = value
  BY <1>4 DEF IsMap
<1> QED
  BY <1>2, <1>3, <1>5 DEF map

LEMMA SetValueIs ==
  ASSUME NEW map, IsMap(map), NEW level, NEW value
  PROVE  LET new == SetValue(map, level, value)
         IN  /\ IsMap(new)
             /\ DOMAIN new \subseteq DOMAIN map \cup {level}
             /\ level \notin DOMAIN map =>
                  /\ GetConfig(new, level) = value
                  /\ \A l : l # level => GetConfig(new, l) = GetConfig(map, l)
             /\ level = Global => new[Global] = value
             /\ \A l : GetConfig(new, l) \in {value, GetConfig(map, l)}
<1> DEFINE new == SetValue(map, level, value)
           more == With(map, level, value)
<1>1. map = [x \in DOMAIN map |-> map[x]] /\ Global \in DOMAIN map /\ DOMAIN map # {}
  BY DEF IsMap
<1>2. CASE map[Global] = value
  <2>1. new = map
    BY <1>1, <1>2 DEF SetValue
  <2>2. level \notin DOMAIN map => GetConfig(map, level) = value
    BY <1>2 DEF GetConfig
  <2> HIDE DEF new
  <2> QED
    BY <1>2, <2>1, <2>2 DEF new
<1>3. CASE map[Global] # value
  <2>1. new = more
    BY <1>1, <1>3 DEF SetValue
  <2>2. more = [x \in DOMAIN map \cup {level} |-> IF x = level THEN value ELSE map[x]]
    BY DEF With
  <2> HIDE DEF new, more
  <2>3. /\ DOMAIN more = {level} \cup DOMAIN map
        /\ \A x \in DOMAIN more : more[x] = IF x = level THEN value ELSE map[x]
    BY <2>2
  <2>4. IsMap(more)
    <3>1. more = [x \in DOMAIN more |-> more[x]]
      BY <2>2
    <3> QED
      BY <1>1, <2>3, <3>1 DEF IsMap
  <2>5. ASSUME NEW l
        PROVE  /\ GetConfig(more, l) \in {value, GetConfig(map, l)}
               /\ l = level => GetConfig(more, l) = value
               /\ l # level /\ level \notin DOMAIN map => GetConfig(more, l) = GetConfig(map, l)
    BY <1>1, <2>3 DEF GetConfig
  <2>6. level = Global => more[Global] = value
    BY <2>3
  <2> QED
    BY <2>1, <2>3, <2>4, <2>5, <2>6 DEF new
<1> QED
  BY <1>2, <1>3

\* What is read from the map of a type that levels may have values of.
LevelValues(map, w, type) ==
  /\ IsMap(map)
  /\ \A l \in AllLevels : GetConfig(map, l) = Converted(Setting(l, type, w[l][type]))

TypedSteps(h, w, type) ==
  /\ IsEmpty(h[0])
  /\ \A k \in 1 .. N : h[k] =
       SetValue(h[k - 1], IF type \in GlobalTypes THEN Global ELSE Order[k],
                Converted(Setting(Order[k], type, w[Order[k]][type])))

LEMMA FullSteps ==
  ASSUME NEW c, NEW w, NEW type, c[type] = FullList(w, type)
  PROVE  \E h : TypedMap(c, type) = h[N] /\ TypedSteps(h, w, type)
<1> DEFINE list == FullList(w, type)
<1>1. N \in Nat /\ DOMAIN list = 1 .. N
  BY OrderFacts DEF FullList
<1>2. \A k \in 1 .. N : list[k] = Setting(Order[k], type, w[Order[k]][type])
  BY DEF FullList
<1> HIDE DEF list
<1>3. PICK h : Steps(h, "AddTyped", << >>, list, N) /\ FoldLeft(AddTyped, << >>, list) = h[N]
  BY <1>1, AddTypedSteps
<1>4. h[0] = << >> /\ \A k \in 1 .. N : h[k] = AddTyped(h[k - 1], list[k])
  BY <1>3 DEF Steps, Step
<1>5. ASSUME NEW k \in 1 .. N
      PROVE  h[k] =
                     SetValue(h[k - 1], IF type \in GlobalTypes THEN Global ELSE Order[k],
                              Converted(Setting(Order[k], type, w[Order[k]][type])))
  <2> DEFINE s == Setting(Order[k], type, w[Order[k]][type])
  <2>1. list[k] = s /\ s.level = Order[k] /\ s.type = type
    BY <1>2, SettingFields
  <2> HIDE DEF s
  <2>2. h[k] = SetValue(h[k - 1], KeptFor(s), Converted(s))
    BY <1>4, <2>1 DEF AddTyped
  <2>3. KeptFor(s) = IF type \in GlobalTypes THEN Global ELSE Order[k]
    BY <2>1 DEF KeptFor
  <2> QED
    BY <2>2, <2>3 DEF s
<1>6. TypedMap(c, type) = h[N]
  BY <1>3 DEF TypedMap, list
<1>7. TypedSteps(h, w, type)
  BY <1>4, <1>5 DEF TypedSteps, IsEmpty
<1> QED
  BY <1>6, <1>7

LEMMA LevelsAre ==
  ASSUME NEW c, NEW w, NEW type, c[type] = FullList(w, type), type \notin GlobalTypes
  PROVE  LevelValues(TypedMap(c, type), w, type)
<1> DEFINE V(l) == Converted(Setting(l, type, w[l][type]))
<1>0. PICK h : TypedMap(c, type) = h[N] /\ TypedSteps(h, w, type)
  BY FullSteps
<1>1. /\ TypedMap(c, type) = h[N]
      /\ IsEmpty(h[0])
      /\ \A k \in 1 .. N : h[k] = SetValue(h[k - 1], Order[k], V(Order[k]))
  BY <1>0 DEF TypedSteps
<1>2. /\ N \in Nat /\ N >= 1 /\ Order[1] = Global
      /\ \A i, j \in 1 .. N : Order[i] = Order[j] => i = j
      /\ \A l \in AllLevels : \E i \in 1 .. N : Order[i] = l
  BY OrderFacts
<1> HIDE DEF V
<1> DEFINE Good(k) == /\ IsMap(h[k])
                      /\ \A x \in DOMAIN h[k] : \E i \in 1 .. k : x = Order[i]
                      /\ \A i \in 1 .. k : GetConfig(h[k], Order[i]) = V(Order[i])
           S == {k \in 0 .. N : k # 0 => Good(k)}
<1>3. 0 \in S
  BY <1>2
<1>4. ASSUME NEW k \in 0 .. N - 1, k \in S PROVE k + 1 \in S
  <2>1. k \in Nat /\ k + 1 \in 1 .. N /\ (k + 1) - 1 = k /\ k + 1 \in 0 .. N
    BY <1>2
  <2>2. h[k + 1] = SetValue(h[k], Order[k + 1], V(Order[k + 1]))
    BY <1>1, <2>1
  <2>3. CASE k = 0
    <3>1. IsMap(h[1]) /\ DOMAIN h[1] = {Global} /\ h[1][Global] = V(Global)
      <4>1. h[1] = SetValue(h[0], Global, V(Global)) /\ IsEmpty(h[0])
        BY <1>1, <1>2, <2>2, <2>3
      <4> QED
        BY <4>1, FirstValue
    <3>2. GetConfig(h[1], Global) = V(Global)
      BY <3>1 DEF GetConfig
    <3>3. \A i \in 1 .. 1 : i = 1
      OBVIOUS
    <3>4. Good(1)
      BY <1>2, <3>1, <3>2, <3>3
    <3> QED
      BY <2>1, <2>3, <3>4
  <2>4. CASE k # 0
    <3>1. Good(k)
      BY <1>4, <2>4
    <3> DEFINE level == Order[k + 1]
    <3>2. \A i \in 1 .. k : i \in 1 .. N /\ i # k + 1 /\ Order[i] # level
      BY <1>2, <2>1
    <3>3. level \notin DOMAIN h[k]
      BY <3>1, <3>2
    <3>4. /\ IsMap(h[k + 1])
          /\ DOMAIN h[k + 1] \subseteq DOMAIN h[k] \cup {level}
          /\ GetConfig(h[k + 1], level) = V(level)
          /\ \A l : l # level => GetConfig(h[k + 1], l) = GetConfig(h[k], l)
      <4> HIDE DEF level, Good, S
      <4>1. h[k + 1] = SetValue(h[k], level, V(level)) /\ IsMap(h[k])
        BY <2>2, <3>1 DEF level, Good
      <4> QED
        BY <3>3, <4>1, SetValueIs
    <3>5. \A i \in 1 .. k + 1 : i \in 1 .. k \/ i = k + 1
      BY <2>1
    <3>6. \A i \in 1 .. k + 1 : GetConfig(h[k + 1], Order[i]) = V(Order[i])
      BY <3>1, <3>2, <3>4, <3>5
    <3>7. \A x \in DOMAIN h[k + 1] : \E i \in 1 .. k + 1 : x = Order[i]
      <4>1. \A i \in 1 .. k : i \in 1 .. k + 1
        BY <2>1
      <4>2. k + 1 \in 1 .. k + 1
        BY <2>1
      <4> QED
        BY <3>1, <3>4, <4>1, <4>2
    <3>8. Good(k + 1)
      BY <3>4, <3>6, <3>7
    <3> HIDE DEF Good
    <3> QED
      BY <2>1, <3>8
  <2> QED
    BY <2>3, <2>4
<1>5. S = 0 .. N
  <2>1. S \in SUBSET (0 .. N)
    OBVIOUS
  <2> HIDE DEF S
  <2> QED
    BY <1>2, <1>3, <1>4, <2>1, InductionTo
<1>6. Good(N)
  <2>1. N \in S /\ N # 0
    BY <1>2, <1>5
  <2> HIDE DEF Good
  <2> QED
    BY <2>1
<1>7. \A l \in AllLevels : GetConfig(h[N], l) = V(l)
  BY <1>2, <1>6
<1> QED
  BY <1>1, <1>6, <1>7 DEF LevelValues, V

LEMMA GlobalsAre ==
  ASSUME NEW c, NEW w, NEW type, c[type] = FullList(w, type), type \in GlobalTypes
  PROVE  LET last == Last(LevelOrder)
         IN  \A l : GetConfig(TypedMap(c, type), l) = Converted(Setting(last, type, w[last][type]))
<1> DEFINE V(l) == Converted(Setting(l, type, w[l][type]))
           last == Last(LevelOrder)
<1>0. PICK h : TypedMap(c, type) = h[N] /\ TypedSteps(h, w, type)
  BY FullSteps
<1>1. /\ TypedMap(c, type) = h[N]
      /\ IsEmpty(h[0])
      /\ \A k \in 1 .. N : h[k] = SetValue(h[k - 1], Global, V(Order[k]))
  BY <1>0 DEF TypedSteps
<1>2. N \in Nat /\ N >= 1 /\ Order[N] = last
  BY OrderFacts
<1> HIDE DEF V, last
<1> DEFINE Good(k) == IsMap(h[k]) /\ DOMAIN h[k] = {Global} /\ h[k][Global] = V(Order[k])
           S == {k \in 0 .. N : k # 0 => Good(k)}
<1>3. 0 \in S
  BY <1>2
<1>4. ASSUME NEW k \in 0 .. N - 1, k \in S PROVE k + 1 \in S
  <2>1. k \in Nat /\ k + 1 \in 1 .. N /\ (k + 1) - 1 = k /\ k + 1 \in 0 .. N
    BY <1>2
  <2>2. h[k + 1] = SetValue(h[k], Global, V(Order[k + 1]))
    BY <1>1, <2>1
  <2>3. Good(k + 1)
    <3>1. CASE k = 0
      <4>1. h[k + 1] = SetValue(h[0], Global, V(Order[k + 1])) /\ IsEmpty(h[0])
        BY <1>1, <2>2, <3>1
      <4> QED
        BY <4>1, FirstValue
    <3>2. CASE k # 0
      <4>1. IsMap(h[k]) /\ DOMAIN h[k] = {Global}
        BY <1>4, <3>2
      <4>2. /\ IsMap(h[k + 1])
            /\ DOMAIN h[k + 1] \subseteq DOMAIN h[k] \cup {Global}
            /\ h[k + 1][Global] = V(Order[k + 1])
        BY <2>2, <4>1, SetValueIs
      <4> QED
        BY <4>1, <4>2 DEF IsMap
    <3> QED
      BY <3>1, <3>2
  <2> HIDE DEF Good
  <2> QED
    BY <2>1, <2>3
<1>5. S = 0 .. N
  <2>1. S \in SUBSET (0 .. N)
    OBVIOUS
  <2> HIDE DEF S
  <2> QED
    BY <1>2, <1>3, <1>4, <2>1, InductionTo
<1>6. Good(N)
  <2>1. N \in S /\ N # 0
    BY <1>2, <1>5
  <2> HIDE DEF Good
  <2> QED
    BY <2>1
<1>7. \A l : GetConfig(h[N], l) = V(last)
  BY <1>2, <1>6 DEF GetConfig
<1> QED
  BY <1>1, <1>7 DEF V, last

\* ToFile, after a file was opened or not.
ToFileAfter(map, file, level) ==
  IF IsOpen(file) THEN map ELSE SetValue(map, level, FALSE)

\* One file more.
Inserted(t, u, file, level) ==
  /\ u = [type \in ConfigurationType |-> u[type]]
  /\ \A type \in ConfigurationType \ {"Filename", "ToFile"} : u[type] = t[type]
  /\ u["Filename"] = With(t["Filename"], level, file)
  /\ u["ToFile"] = ToFileAfter(t["ToFile"], file, level)
Inserts(t, s, level) ==
  /\ t = [type \in ConfigurationType |-> t[type]]
  /\ level = IF DOMAIN t["Filename"] = {} THEN Global ELSE s.level
  /\ level \notin DOMAIN t["Filename"]

LEMMA InsertFileIs ==
  ASSUME NEW t, NEW s, NEW level, Inserts(t, s, level)
  PROVE  Inserted(t, InsertFile(t, s), s.value, level)
<1> DEFINE u == InsertFile(t, s)
           files == With(t["Filename"], level, s.value)
           toFile == IF IsOpen(s.value) THEN t["ToFile"]
                     ELSE SetValue(t["ToFile"], level, FALSE)
<1>1. u = [t EXCEPT !["Filename"] = files, !["ToFile"] = toFile]
  BY DEF InsertFile, Inserts
<1>2. "Filename" \in ConfigurationType /\ "ToFile" \in ConfigurationType /\ "Filename" # "ToFile"
  BY TypeAssumption
<1> HIDE DEF u, files, toFile
<1>3. /\ u = [type \in ConfigurationType |-> u[type]]
      /\ \A type \in ConfigurationType \ {"Filename", "ToFile"} : u[type] = t[type]
      /\ u["Filename"] = files
      /\ u["ToFile"] = toFile
  BY <1>1, <1>2 DEF Inserts
<1>4. toFile = ToFileAfter(t["ToFile"], s.value, level)
  BY DEF toFile, ToFileAfter
<1> QED
  BY <1>3, <1>4 DEF u, files, Inserted

LEMMA BuildIs ==
  ASSUME NEW c, NEW w, \A type \in ConfigurationType : c[type] = FullList(w, type)
  PROVE  LET b == Build(c)
         IN  /\ b = [type \in ConfigurationType |-> b[type]]
             /\ \A type \in ConfigurationType \ {"Filename", "ToFile"} :
                  b[type] = TypedMap(c, type)
             /\ \A l \in AllLevels : GetConfig(b["Filename"], l) = w[l]["Filename"]
             /\ \A l \in AllLevels :
                  GetConfig(b["ToFile"], l) \in {FALSE, GetConfig(TypedMap(c, "ToFile"), l)}
             /\ (\A l \in AllLevels : IsOpen(w[l]["Filename"])) =>
                  b["ToFile"] = TypedMap(c, "ToFile")
<1> DEFINE b == Build(c)
           list == FullList(w, "Filename")
           maps == [type \in ConfigurationType |->
                     IF type = "Filename" THEN << >> ELSE TypedMap(c, type)]
           F(l) == w[l]["Filename"]
<1>1. /\ "Filename" \in ConfigurationType /\ "ToFile" \in ConfigurationType
      /\ "ToFile" # "Filename" /\ "ToFile" \notin GlobalTypes
  BY TypeAssumption DEF GlobalTypes
<1>2. /\ N \in Nat /\ N >= 1 /\ Order[1] = Global
      /\ \A i, j \in 1 .. N : Order[i] = Order[j] => i = j
      /\ \A l \in AllLevels : \E i \in 1 .. N : Order[i] = l
      /\ \A i \in 1 .. N : Order[i] \in AllLevels
  BY OrderFacts
<1>3. DOMAIN list = 1 .. N
  BY <1>2 DEF FullList
<1>4. \A k \in 1 .. N : list[k].level = Order[k] /\ list[k].value = F(Order[k])
  BY SettingFields DEF FullList
<1>5. b = FoldLeft(InsertFile, maps, list)
  BY <1>1 DEF Build
<1>6. /\ maps = [type \in ConfigurationType |-> maps[type]]
      /\ DOMAIN maps["Filename"] = {}
      /\ \A type \in ConfigurationType \ {"Filename"} : maps[type] = TypedMap(c, type)
  BY <1>1
<1>7. IsMap(maps["ToFile"])
  BY <1>1, <1>6, LevelsAre DEF LevelValues
<1> HIDE DEF b, list, maps, F
<1>8. PICK h : Steps(h, "InsertFile", maps, list, N) /\ FoldLeft(InsertFile, maps, list) = h[N]
  BY <1>2, <1>3, InsertFileSteps
<1>9. h[0] = maps /\ \A k \in 1 .. N : h[k] = InsertFile(h[k - 1], list[k])
  BY <1>8 DEF Steps, Step
<1> DEFINE Built(k) == h[k] = [type \in ConfigurationType |-> h[k][type]]
           Others(k) == \A type \in ConfigurationType \ {"Filename", "ToFile"} :
                          h[k][type] = maps[type]
           files(k) == h[k]["Filename"]
           toFile(k) == h[k]["ToFile"]
           Files(k) == /\ \A x \in DOMAIN files(k) : \E i \in 1 .. k : x = Order[i]
                       /\ \A i \in 1 .. k : /\ Order[i] \in DOMAIN files(k)
                                            /\ files(k)[Order[i]] = F(Order[i])
           ToFiles(k) == /\ IsMap(toFile(k))
                         /\ \A l : GetConfig(toFile(k), l) \in
                                     {FALSE, GetConfig(maps["ToFile"], l)}
                         /\ (\A i \in 1 .. k : IsOpen(F(Order[i]))) =>
                              toFile(k) = maps["ToFile"]
           S == {k \in 0 .. N : Built(k) /\ Others(k) /\ Files(k) /\ ToFiles(k)}
<1>10. 0 \in S
  <2>1. Built(0) /\ Others(0)
    BY <1>6, <1>9
  <2>2. Files(0)
    BY <1>6, <1>9
  <2>3. ToFiles(0)
    BY <1>7, <1>9
  <2> HIDE DEF Built, Others, Files, ToFiles
  <2> QED
    BY <1>2, <2>1, <2>2, <2>3
<1>11. ASSUME NEW k \in 0 .. N - 1, k \in S PROVE k + 1 \in S
  <2> DEFINE level == Order[k + 1]
             s == list[k + 1]
  <2>1. k \in Nat /\ k + 1 \in 1 .. N /\ (k + 1) - 1 = k /\ k + 1 \in 0 .. N
    BY <1>2
  <2>2. h[k + 1] = InsertFile(h[k], s) /\ s.level = level /\ s.value = F(level)
    BY <1>4, <1>9, <2>1
  <2>3. Built(k) /\ Others(k) /\ Files(k) /\ ToFiles(k)
    BY <1>11
  <2>4. level \notin DOMAIN files(k)
    <3>1. \A i \in 1 .. k : i \in 1 .. N /\ i # k + 1
      BY <1>2, <2>1
    <3>2. \A i \in 1 .. k : Order[i] # level
      BY <1>2, <2>1, <3>1
    <3>3. \A x \in DOMAIN files(k) : \E i \in 1 .. k : x = Order[i]
      BY <2>3
    <3> HIDE DEF files, level
    <3> QED
      BY <3>2, <3>3
  <2>5. level = IF DOMAIN files(k) = {} THEN Global ELSE s.level
    <3>1. CASE k = 0
      BY <1>2, <2>2, <3>1
    <3>2. CASE k # 0
      <4>1. 1 \in 1 .. k
        BY <2>1, <3>2
      <4>2. DOMAIN files(k) # {}
        BY <2>3, <4>1
      <4> QED
        BY <2>2, <4>2
    <3> QED
      BY <3>1, <3>2
  <2>6. /\ h[k + 1] = [type \in ConfigurationType |-> h[k + 1][type]]
        /\ \A type \in ConfigurationType \ {"Filename", "ToFile"} : h[k + 1][type] = h[k][type]
        /\ files(k + 1) = With(files(k), level, F(level))
        /\ toFile(k + 1) = IF IsOpen(F(level)) THEN toFile(k)
                           ELSE SetValue(toFile(k), level, FALSE)
    <3> DEFINE t == h[k]
    <3>1. Inserts(t, s, level)
      BY <2>3, <2>4, <2>5 DEF Inserts
    <3>2. Inserted(t, h[k + 1], F(level), level)
      <4> HIDE DEF level, s, t, S, F
      <4>1. Inserted(t, InsertFile(t, s), s.value, level)
        BY <3>1, InsertFileIs
      <4> QED
        BY <2>2, <4>1 DEF t
    <3> QED
      BY <3>2 DEF Inserted, ToFileAfter
  <2>7. Built(k + 1) /\ Others(k + 1)
    BY <2>3, <2>6
  <2>8. \A i \in 1 .. k + 1 : i \in 1 .. k \/ i = k + 1
    BY <2>1
  <2>9. (\A i \in 1 .. k : i \in 1 .. k + 1) /\ k + 1 \in 1 .. k + 1
    BY <2>1
  <2>10. Files(k + 1)
    <3>1. /\ DOMAIN files(k + 1) = DOMAIN files(k) \cup {level}
          /\ \A x \in DOMAIN files(k) \cup {level} :
               files(k + 1)[x] = IF x = level THEN F(level) ELSE files(k)[x]
      BY <2>6 DEF With
    <3>2. Files(k)
      BY <2>3
    <3> HIDE DEF files
    <3>3. \A i \in 1 .. k : Order[i] # level
      BY <2>4, <3>2
    <3>4. ASSUME NEW i \in 1 .. k + 1
          PROVE  Order[i] \in DOMAIN files(k + 1) /\ files(k + 1)[Order[i]] = F(Order[i])
      <4>1. CASE i \in 1 .. k
        BY <3>1, <3>2, <3>3, <4>1
      <4>2. CASE i = k + 1
        BY <3>1, <4>2
      <4> QED
        BY <2>8, <4>1, <4>2
    <3>5. ASSUME NEW x \in DOMAIN files(k + 1) PROVE \E i \in 1 .. k + 1 : x = Order[i]
      BY <2>9, <3>1, <3>2
    <3> QED
      BY <3>4, <3>5
  <2>11. ToFiles(k + 1)
    <3>1. ToFiles(k)
      BY <2>3
    <3>2. CASE IsOpen(F(level))
      <4>1. toFile(k + 1) = toFile(k)
        BY <2>6, <3>2
      <4> HIDE DEF toFile
      <4> QED
        BY <2>9, <3>1, <4>1
    <3>3. CASE ~IsOpen(F(level))
      <4>1. toFile(k + 1) = SetValue(toFile(k), level, FALSE)
        BY <2>6, <3>3
      <4> HIDE DEF toFile
      <4>2. IsMap(toFile(k + 1)) /\
            \A l : GetConfig(toFile(k + 1), l) \in {FALSE, GetConfig(toFile(k), l)}
        <5> DEFINE off == FALSE
                   map == toFile(k)
        <5>1. IsMap(map) /\ toFile(k + 1) = SetValue(map, level, off)
          BY <3>1, <4>1
        <5> HIDE DEF level, F, off, map
        <5>2. IsMap(SetValue(map, level, off)) /\
              \A l : GetConfig(SetValue(map, level, off), l) \in {off, GetConfig(map, l)}
          BY <5>1, SetValueIs
        <5>3. IsMap(toFile(k + 1)) /\
              \A l : GetConfig(toFile(k + 1), l) \in {off, GetConfig(map, l)}
          BY <5>1, <5>2
        <5> QED
          BY <5>3 DEF off, map
      <4>3. ~(\A i \in 1 .. k + 1 : IsOpen(F(Order[i])))
        BY <2>9, <3>3
      <4> QED
        BY <3>1, <4>2, <4>3
    <3> QED
      BY <3>2, <3>3
  <2> HIDE DEF Built, Others, Files, ToFiles
  <2> QED
    BY <2>1, <2>7, <2>10, <2>11
<1>12. S = 0 .. N
  <2>1. S \in SUBSET (0 .. N)
    OBVIOUS
  <2> HIDE DEF S
  <2> QED
    BY <1>2, <1>10, <1>11, <2>1, InductionTo
<1>13. Built(N) /\ Others(N) /\ Files(N) /\ ToFiles(N)
  <2>1. N \in S
    <3> HIDE DEF S
    <3> QED
      BY <1>2, <1>12
  <2> HIDE DEF Built, Others, Files, ToFiles
  <2> QED
    BY <2>1
<1>14. b = h[N]
  BY <1>5, <1>8
<1>15. \A type \in ConfigurationType \ {"Filename", "ToFile"} : b[type] = TypedMap(c, type)
  BY <1>6, <1>13, <1>14
<1>16. \A l \in AllLevels : GetConfig(b["Filename"], l) = F(l)
  <2> SUFFICES ASSUME NEW l \in AllLevels PROVE GetConfig(b["Filename"], l) = F(l)
    OBVIOUS
  <2>1. PICK i \in 1 .. N : l = Order[i]
    BY <1>2
  <2>2. Order[i] \in DOMAIN files(N) /\ files(N)[Order[i]] = F(Order[i])
    BY <1>13
  <2>3. files(N) = b["Filename"]
    BY <1>14
  <2> HIDE DEF files
  <2> QED
    BY <2>1, <2>2, <2>3 DEF GetConfig
<1>17. /\ \A l : GetConfig(b["ToFile"], l) \in {FALSE, GetConfig(TypedMap(c, "ToFile"), l)}
       /\ (\A l \in AllLevels : IsOpen(F(l))) => b["ToFile"] = TypedMap(c, "ToFile")
  <2>1. maps["ToFile"] = TypedMap(c, "ToFile")
    BY <1>1, <1>6
  <2>2. (\A l \in AllLevels : IsOpen(F(l))) => \A i \in 1 .. N : IsOpen(F(Order[i]))
    BY <1>2
  <2> QED
    BY <1>13, <1>14, <2>1, <2>2
<1>18. b = [type \in ConfigurationType |-> b[type]]
  BY <1>13, <1>14
<1> QED
  BY <1>15, <1>16, <1>17, <1>18 DEF b, F

-----------------------------------------------------------------------------
(***************************************************************************)
(* The logger.                                                             *)
(***************************************************************************)

\* The value the list of the logger has for a level and a type.
StoredIn(c) ==
  [l \in AllLevels |-> [type \in ConfigurationType |->
    c[type][CHOOSE i \in 1 .. N : Order[i] = l].value]]
stored == StoredIn(conf)

\* Every level has an entry of every type, in the order of the levels; the maps
\* are made from them.
SettingsInv ==
  /\ \A type \in ConfigurationType : conf[type] = FullList(stored, type)
  /\ typed = Resolved(Build(conf))

\* The logger uses, for every level, the value of its list.  The two types kept
\* for Global only have the value of the last level for all of them.
EffectiveIsStored ==
  \A l \in Level, type \in ConfigurationType :
    LET has == GetConfig(typed[type], l)
        Has(level) == Converted(Setting(level, type, stored[level][type]))
        allOpen == \A k \in AllLevels : IsOpen(GetConfig(typed["Filename"], k))
    IN  CASE type = "ToFile" -> (has => Has(l)) /\ (allOpen => has = Has(l))
          [] type \in GlobalTypes -> has = Has(Last(LevelOrder))
          [] type = "Format" -> has.level = l /\ has.userFormat = stored[l][type]
          [] OTHER -> has = Has(l)

\* A list that is full holds what it is full of.
LEMMA StoredInIs ==
  ASSUME NEW c, NEW w,
         \A type \in ConfigurationType : c[type] = FullList(w, type)
  PROVE  StoredIn(c) = [l \in AllLevels |-> [type \in ConfigurationType |-> w[l][type]]]
<1>1. ASSUME NEW l \in AllLevels, NEW type \in ConfigurationType
      PROVE  c[type][CHOOSE i \in 1 .. N : Order[i] = l].value = w[l][type]
  <2> DEFINE j == CHOOSE i \in 1 .. N : Order[i] = l
  <2>1. \E i \in 1 .. N : Order[i] = l
    BY OrderFacts
  <2>2. j \in 1 .. N /\ Order[j] = l
    BY <2>1
  <2> HIDE DEF j
  <2>3. c[type][j] = Setting(l, type, w[l][type])
    BY <2>2 DEF FullList
  <2>4. c[type][j].value = w[l][type]
    BY <2>3, SettingFields
  <2> QED
    BY <2>4 DEF j
<1> QED
  BY <1>1 DEF StoredIn

LEMMA StoredKeeps ==
  ASSUME NEW w, NEW q,
         \A type \in ConfigurationType : conf'[type] = FullList(Stored(w, q), type)
  PROVE  /\ stored' = Stored(w, q)
         /\ \A type \in ConfigurationType : conf'[type] = FullList(stored', type)
<1> DEFINE v == Stored(w, q)
<1>1. v = [l \in AllLevels |-> [type \in ConfigurationType |-> v[l][type]]]
  BY DEF Stored
<1> HIDE DEF v
<1>2. StoredIn(conf') = [l \in AllLevels |-> [type \in ConfigurationType |-> v[l][type]]]
  BY StoredInIs DEF v
<1>3. stored' = v
  BY <1>1, <1>2 DEF stored
<1> QED
  BY <1>3 DEF v

LEMMA InvIsEffective ==
  ASSUME SettingsInv
  PROVE  EffectiveIsStored
<1> DEFINE b == Build(conf)
           V(l, type) == Converted(Setting(l, type, stored[l][type]))
<1>1. /\ b = [type \in ConfigurationType |-> b[type]]
      /\ \A type \in ConfigurationType \ {"Filename", "ToFile"} : b[type] = TypedMap(conf, type)
      /\ \A l \in AllLevels : GetConfig(b["Filename"], l) = stored[l]["Filename"]
      /\ \A l \in AllLevels :
           GetConfig(b["ToFile"], l) \in {FALSE, GetConfig(TypedMap(conf, "ToFile"), l)}
      /\ (\A l \in AllLevels : IsOpen(stored[l]["Filename"])) =>
           b["ToFile"] = TypedMap(conf, "ToFile")
  BY BuildIs DEF SettingsInv
<1>2. \A type \in ConfigurationType : conf[type] = FullList(stored, type)
  BY DEF SettingsInv
<1>3. /\ "Filename" \in ConfigurationType /\ "ToFile" \in ConfigurationType
      /\ "Filename" \notin {"ToFile", "Format"} /\ "ToFile" # "Format"
      /\ {"Filename", "ToFile", "Format"} \cap GlobalTypes = {}
  BY TypeAssumption DEF GlobalTypes
<1>4. typed = Resolved(b)
  BY DEF SettingsInv
<1> HIDE DEF b
<1>5. \A type \in ConfigurationType : type # "Format" => typed[type] = b[type]
  BY <1>1, <1>4 DEF Resolved
<1>6. "Format" \in ConfigurationType =>
        typed["Format"] = [l \in DOMAIN b["Format"] |->
                            IF l = Global THEN b["Format"][l]
                            ELSE ResolveLoggerFormatSpec(b["Format"][l])]
  BY <1>1, <1>4 DEF Resolved
<1>7. /\ Level \subseteq AllLevels /\ Global \in AllLevels /\ Global \notin Level
  BY OrderFacts DEF AllLevels
<1>8. \A type \in ConfigurationType \ GlobalTypes :
        /\ IsMap(TypedMap(conf, type))
        /\ \A l \in AllLevels : GetConfig(TypedMap(conf, type), l) = V(l, type)
  <2> SUFFICES ASSUME NEW type \in ConfigurationType \ GlobalTypes
               PROVE  /\ IsMap(TypedMap(conf, type))
                      /\ \A l \in AllLevels : GetConfig(TypedMap(conf, type), l) = V(l, type)
    OBVIOUS
  <2>1. LevelValues(TypedMap(conf, type), stored, type)
    BY <1>2, LevelsAre
  <2> QED
    BY <2>1 DEF LevelValues
<1>9. \A type \in ConfigurationType \cap GlobalTypes :
        \A l : GetConfig(TypedMap(conf, type), l) = V(Last(LevelOrder), type)
  BY <1>2, GlobalsAre
<1> DEFINE Has(l, type) == GetConfig(typed[type], l)
           AllOpen == \A k \in AllLevels : IsOpen(Has(k, "Filename"))
<1>10. \A l \in AllLevels : Has(l, "Filename") = stored[l]["Filename"]
  BY <1>1, <1>3, <1>5
<1>11. \A v, l : Converted(Setting(l, "Filename", v)) = v
  <2> SUFFICES ASSUME NEW v, NEW l PROVE Converted(Setting(l, "Filename", v)) = v
    OBVIOUS
  <2> DEFINE s == Setting(l, "Filename", v)
  <2>1. s.type = "Filename" /\ s.value = v
    BY SettingFields
  <2> HIDE DEF s
  <2>2. Converted(s) = v
    BY <2>1 DEF Converted
  <2> QED
    BY <2>2 DEF s
<1>12. \A v, l : LET f == Converted(Setting(l, "Format", v))
                 IN  /\ f.level = l /\ f.userFormat = v
                     /\ ResolveLoggerFormatSpec(f).level = l
                     /\ ResolveLoggerFormatSpec(f).userFormat = v
  <2> SUFFICES ASSUME NEW v, NEW l
               PROVE  LET f == Converted(Setting(l, "Format", v))
                      IN  /\ f.level = l /\ f.userFormat = v
                          /\ ResolveLoggerFormatSpec(f).level = l
                          /\ ResolveLoggerFormatSpec(f).userFormat = v
    OBVIOUS
  <2> DEFINE s == Setting(l, "Format", v)
             f == Converted(s)
  <2>1. s.type = "Format" /\ s.value = v /\ s.level = l
    BY SettingFields
  <2> HIDE DEF s
  <2>2. f = ParseFromFormat(l, v)
    BY <2>1 DEF Converted
  <2>3. \E a, d, e : f = [level |-> l, userFormat |-> v, flags |-> a, date |-> d, format |-> e]
    BY <2>2 DEF ParseFromFormat
  <2> HIDE DEF f
  <2>4. PICK a, d, e :
          f = [level |-> l, userFormat |-> v, flags |-> a, date |-> d, format |-> e]
    BY <2>3
  <2>5. f.level = l /\ f.userFormat = v
    BY <2>4
  <2>6. ResolveLoggerFormatSpec(f).level = f.level /\
        ResolveLoggerFormatSpec(f).userFormat = f.userFormat
    BY <2>4 DEF ResolveLoggerFormatSpec
  <2> QED
    BY <2>5, <2>6 DEF f, s
<1>13. ASSUME NEW l \in Level
       PROVE  /\ Has(l, "ToFile") => V(l, "ToFile")
              /\ AllOpen => Has(l, "ToFile") = V(l, "ToFile")
  <2>1. Has(l, "ToFile") = GetConfig(b["ToFile"], l)
    BY <1>3, <1>5
  <2>2. GetConfig(TypedMap(conf, "ToFile"), l) = V(l, "ToFile")
    BY <1>3, <1>7, <1>8
  <2>3. Has(l, "ToFile") \in {FALSE, V(l, "ToFile")}
    BY <1>1, <1>7, <2>1, <2>2
  <2>4. AllOpen => b["ToFile"] = TypedMap(conf, "ToFile")
    BY <1>1, <1>10
  <2> HIDE DEF Has, AllOpen, V
  <2> QED
    BY <2>1, <2>2, <2>3, <2>4
<1>14. ASSUME NEW l \in Level, NEW type \in ConfigurationType, type \in GlobalTypes
       PROVE  Has(l, type) = V(Last(LevelOrder), type)
  <2>1. type \notin {"Filename", "ToFile", "Format"}
    BY <1>3, <1>14
  <2> QED
    BY <1>1, <1>5, <1>9, <1>14, <2>1
<1>15. ASSUME NEW l \in Level, "Format" \in ConfigurationType
       PROVE  Has(l, "Format").level = l /\ Has(l, "Format").userFormat = stored[l]["Format"]
  <2> DEFINE map == b["Format"]
  <2>1. map = TypedMap(conf, "Format")
    BY <1>1, <1>3, <1>15
  <2>2. IsMap(map) /\ \A x \in AllLevels : GetConfig(map, x) = V(x, "Format")
    BY <1>3, <1>8, <1>15, <2>1
  <2>3. V(l, "Format") # V(Global, "Format")
    BY <1>7, <1>12
  <2>4. l \in DOMAIN map /\ map[l] = V(l, "Format")
    <3> HIDE DEF map, V
    <3> QED
      BY <1>7, <2>2, <2>3 DEF GetConfig, IsMap
  <2>5. Has(l, "Format") = ResolveLoggerFormatSpec(map[l])
    BY <1>6, <1>7, <1>15, <2>4 DEF GetConfig
  <2> HIDE DEF Has, map
  <2> QED
    BY <1>12, <2>4, <2>5
<1>16. ASSUME NEW l \in Level, NEW type \in ConfigurationType,
              type \notin GlobalTypes, type \notin {"ToFile", "Format"}
       PROVE  Has(l, type) = V(l, type)
  <2>1. CASE type = "Filename"
    BY <1>7, <1>10, <1>11, <2>1
  <2>2. CASE type # "Filename"
    BY <1>1, <1>5, <1>7, <1>8, <1>16, <2>2
  <2> QED
    BY <2>1, <2>2
<1> SUFFICES ASSUME NEW l \in Level, NEW type \in ConfigurationType
             PROVE  CASE type = "ToFile" -> /\ Has(l, type) => V(l, type)
                                            /\ AllOpen => Has(l, type) = V(l, type)
                      [] type \in GlobalTypes -> Has(l, type) = V(Last(LevelOrder), type)
                      [] type = "Format" -> /\ Has(l, type).level = l
                                            /\ Has(l, type).userFormat = stored[l][type]
                      [] OTHER -> Has(l, type) = V(l, type)
  BY DEF EffectiveIsStored
<1> HIDE DEF Has, V, AllOpen
<1>17. CASE type = "ToFile"
  BY <1>3, <1>13, <1>17
<1>18. CASE type \in GlobalTypes
  BY <1>3, <1>14, <1>18
<1>19. CASE type = "Format"
  BY <1>3, <1>15, <1>19
<1>20. CASE type \notin GlobalTypes /\ type \notin {"ToFile", "Format"}
  BY <1>16, <1>20
<1> QED
  BY <1>17, <1>18, <1>19, <1>20

\* A value given alone.
LEMMA ChangeIsStored ==
  ASSUME NEW w, NEW s, s = Setting(s.level, s.type, s.value), NEW type \in ConfigurationType
  PROVE  (IF type = s.type THEN SetIn(FullList(w, type), s) ELSE FullList(w, type)) =
         FullList(Stored(w, <<s>>), type)
<1> DEFINE q == <<s>>
           v == Stored(w, q)
           full == FullList(w, type)
           M == IF type = s.type THEN SetIn(full, s) ELSE full
           S(l) == Sources(q, 1, l, type)
           k == 1
<1>1. k \in Nat /\ DOMAIN q = 1 .. k /\ q[1] = s
  OBVIOUS
<1> HIDE DEF q
<1>2. ASSUME NEW l \in AllLevels
      PROVE  v[l][type] = IF type = s.type /\ Reaches(s.level, l) THEN s.value ELSE w[l][type]
  <2>1. \A x : S(x) = IF type = s.type /\ Reaches(s.level, x) THEN {1} ELSE {}
    <3>1. 1 .. 1 = {1}
      OBVIOUS
    <3> QED
      BY <1>1, <3>1 DEF Sources
  <2>2. /\ S(l) = {} => v[l][type] = w[l][type]
        /\ \A x : IsLast(x, S(l)) /\
                  (\/ l = Global \/ S(Global) = {}
                   \/ \A z \in S(l) : \E y \in S(Global) : y <= z)
                  => v[l][type] = q[x].value
    <3> DEFINE T(x) == Sources(q, k, x, type)
    <3> HIDE DEF k
    <3>1. /\ T(l) = {} => v[l][type] = w[l][type]
          /\ \A x : IsLast(x, T(l)) /\
                    (\/ l = Global \/ T(Global) = {}
                     \/ \A z \in T(l) : \E y \in T(Global) : y <= z)
                    => v[l][type] = q[x].value
      BY <1>1, StoredIs
    <3> QED
      BY <3>1 DEF k
  <2> HIDE DEF S, v
  <2>3. CASE type = s.type /\ Reaches(s.level, l)
    <3>1. S(l) = {1} /\ (S(Global) = {} \/ S(Global) = {1})
      BY <2>1, <2>3
    <3>2. IsLast(1, S(l))
      BY <3>1 DEF IsLast
    <3>3. S(Global) = {} \/ \A z \in S(l) : \E y \in S(Global) : y <= z
      BY <3>1
    <3> QED
      BY <1>1, <2>2, <2>3, <3>2, <3>3
  <2>4. CASE ~(type = s.type /\ Reaches(s.level, l))
    BY <2>1, <2>2, <2>4
  <2> QED
    BY <2>3, <2>4
<1> HIDE DEF v, S
<1>3. IsList(full, N) /\ \A i \in 1 .. N : full[i] = Setting(Order[i], type, w[Order[i]][type])
  BY OrderFacts DEF FullList, IsList
<1> HIDE DEF full
<1>4. \A i \in 1 .. N : /\ full[i] = Setting(Order[i], type, full[i].value)
                        /\ full[i].value = w[Order[i]][type]
  BY <1>3, SettingFields
<1>5. /\ IsList(M, N)
      /\ \A i \in 1 .. N :
           /\ M[i] = Setting(Order[i], type, M[i].value)
           /\ M[i].value = IF type = s.type /\ Reaches(s.level, Order[i]) THEN s.value
                           ELSE w[Order[i]][type]
  <2>1. CASE type = s.type
    <3>1. M = SetIn(full, s) /\ s = Setting(s.level, type, s.value)
      BY <2>1
    <3> HIDE DEF M
    <3>2. /\ IsList(M, N)
          /\ \A i \in 1 .. N :
               /\ M[i] = Setting(Order[i], type, M[i].value)
               /\ M[i].value = IF Reaches(s.level, Order[i]) THEN s.value ELSE full[i].value
      BY <1>3, <1>4, <3>1, SetInFull
    <3> QED
      BY <1>4, <2>1, <3>2
  <2>2. CASE type # s.type
    BY <1>3, <1>4, <2>2
  <2> QED
    BY <2>1, <2>2
<1> HIDE DEF M
<1>6. M = [i \in 1 .. N |-> Setting(Order[i], type, v[Order[i]][type])]
  <2>1. \A i \in 1 .. N : Order[i] \in AllLevels
    BY OrderFacts
  <2>2. \A i \in 1 .. N : M[i] = Setting(Order[i], type, v[Order[i]][type])
    BY <1>2, <1>5, <2>1
  <2>3. M = [i \in 1 .. N |-> M[i]]
    BY <1>5 DEF IsList
  <2> QED
    BY <2>2, <2>3
<1> QED
  BY <1>6 DEF M, full, v, q, FullList

\* What was made of nothing by settings, merged into the list of the logger.
LEMMA ConfigureKeeps ==
  ASSUME SettingsInv, NEW base, NEW q, NEW k \in Nat, DOMAIN q = 1 .. k,
         AllRegistered(base, q, k), Configure(base)
  PROVE  SettingsInv' /\ stored' = Stored(stored, q)
<1>1. ASSUME NEW type \in ConfigurationType
      PROVE  conf'[type] = FullList(Stored(stored, q), type)
  <2>1. conf'[type] = FoldLeft(SetIn, conf[type], base[type])
    BY DEF Configure, SetFromBase
  <2>2. conf[type] = FullList(stored, type)
    BY DEF SettingsInv
  <2>3. PICK n : Registered(base[type], n, q, k, type)
    BY DEF AllRegistered
  <2>4. FoldLeft(SetIn, FullList(stored, type), base[type]) = FullList(Stored(stored, q), type)
    BY <2>3, MergedIsStored
  <2> QED
    BY <2>1, <2>2, <2>4
<1>2. typed' = Resolved(Build(conf'))
  BY DEF Configure
<1>3. /\ stored' = Stored(stored, q)
      /\ \A type \in ConfigurationType : conf'[type] = FullList(stored', type)
  BY <1>1, StoredKeeps
<1> QED
  BY <1>2, <1>3 DEF SettingsInv

\* What each action makes of the list.
LEMMA SetupStores ==
  ASSUME SettingsInv, SetupLogger
  PROVE  SettingsInv' /\ stored' = Stored(stored, DefaultSettings \o ProgramSettings)
<1> DEFINE q == DefaultSettings \o ProgramSettings
           k == 22
<1>1. DOMAIN q = 1 .. k /\ AllRegistered(ProgramConfigurations, q, k) /\ k \in Nat
  BY ProgramRegisters
<1>2. Configure(ProgramConfigurations)
  BY DEF SetupLogger
<1> HIDE DEF q, k
<1>3. SettingsInv' /\ stored' = Stored(stored, q)
  BY <1>1, <1>2, ConfigureKeeps
<1> QED
  BY <1>3 DEF q

LEMMA TextStores ==
  ASSUME SettingsInv, NEW text \in Text, ReconfigureLogger(text)
  PROVE  SettingsInv' /\ stored' = Stored(stored, Said(text))
<1> DEFINE q == Said(text)
           k == Len(text)
           base == ParseFromText(NoConfigurations, text).conf
<1>1. k \in Nat /\ DOMAIN q = 1 .. k /\ AllRegistered(base, q, k)
  BY ParsedRegisters
<1>2. Configure(base)
  BY DEF ReconfigureLogger
<1> HIDE DEF q, k, base
<1>3. SettingsInv' /\ stored' = Stored(stored, q)
  BY <1>1, <1>2, ConfigureKeeps
<1> QED
  BY <1>3 DEF q

LEMMA DefaultsStore ==
  ASSUME SettingsInv, NEW text \in Text, ReconfigureWithDefaults(text)
  PROVE  SettingsInv' /\ stored' = Stored(stored, Said(text) \o Remaining(Said(text)))
<1> DEFINE q == Said(text) \o Remaining(Said(text))
           base == SetRemainingToDefault(ParseFromText(NoConfigurations, text).conf)
<1>1. PICK k \in Nat : DOMAIN q = 1 .. k /\ AllRegistered(base, q, k)
  BY RemainingRegisters
<1>2. Configure(base)
  BY DEF ReconfigureWithDefaults
<1> HIDE DEF q, base
<1>3. SettingsInv' /\ stored' = Stored(stored, q)
  BY <1>1, <1>2, ConfigureKeeps
<1> QED
  BY <1>3 DEF q

LEMMA ChangeStores ==
  ASSUME SettingsInv, NEW s, s = Setting(s.level, s.type, s.value), ReconfigureAllLoggers(s)
  PROVE  SettingsInv' /\ stored' = Stored(stored, <<s>>)
<1>1. ASSUME NEW type \in ConfigurationType
      PROVE  conf'[type] = FullList(Stored(stored, <<s>>), type)
  <2>1. conf'[type] = IF type = s.type THEN SetIn(conf[type], s) ELSE conf[type]
    BY DEF ReconfigureAllLoggers, Set
  <2>2. conf[type] = FullList(stored, type)
    BY DEF SettingsInv
  <2>3. (IF type = s.type THEN SetIn(FullList(stored, type), s) ELSE FullList(stored, type)) =
        FullList(Stored(stored, <<s>>), type)
    BY ChangeIsStored
  <2> QED
    BY <2>1, <2>2, <2>3
<1>2. typed' = Resolved(Build(conf'))
  BY DEF ReconfigureAllLoggers
<1>3. /\ stored' = Stored(stored, <<s>>)
      /\ \A type \in ConfigurationType : conf'[type] = FullList(stored', type)
  BY <1>1, StoredKeeps
<1> QED
  BY <1>2, <1>3 DEF SettingsInv

LEMMA InitStores ==
  ASSUME Init
  PROVE  SettingsInv /\ stored = Stored(Nothing, DefaultSettings)
<1> DEFINE v == Stored(Nothing, DefaultSettings)
<1>1. \A type \in ConfigurationType : conf[type] = FullList(v, type)
  BY DefaultsAreFull DEF Init
<1>2. v = [l \in AllLevels |-> [type \in ConfigurationType |-> v[l][type]]]
  BY DEF Stored
<1> HIDE DEF v
<1>3. StoredIn(conf) = [l \in AllLevels |-> [type \in ConfigurationType |-> v[l][type]]]
  BY <1>1, StoredInIs
<1>4. stored = v
  BY <1>2, <1>3 DEF stored
<1> QED
  BY <1>1, <1>4 DEF Init, SettingsInv, v

LEMMA NothingStored ==
  ASSUME UNCHANGED vars
  PROVE  stored' = stored /\ wanted' = wanted /\ strayed' = strayed /\ (SettingsInv => SettingsInv')
<1>1. conf' = conf /\ typed' = typed /\ wanted' = wanted /\ strayed' = strayed
  BY DEF vars
<1>2. stored' = stored
  BY <1>1 DEF stored
<1> QED
  BY <1>1, <1>2 DEF SettingsInv

\* However it was configured, the list of the logger holds a value for every
\* level and type, in the order of the levels, and its maps are made from it.
THEOREM SettingsInvariance == Spec => []SettingsInv
<1>1. Init => SettingsInv
  BY InitStores
<1>2. SettingsInv /\ [Next]_vars => SettingsInv'
  <2> SUFFICES ASSUME SettingsInv, [Next]_vars PROVE SettingsInv'
    OBVIOUS
  <2>1. CASE SetupLogger
    BY <2>1, SetupStores
  <2>2. ASSUME NEW text \in Text, ReconfigureLogger(text) PROVE SettingsInv'
    BY <2>2, TextStores
  <2>3. ASSUME NEW text \in Text, ReconfigureWithDefaults(text) PROVE SettingsInv'
    BY <2>3, DefaultsStore
  <2>4. ASSUME NEW s \in Change, ReconfigureAllLoggers(s) PROVE SettingsInv'
    BY <2>4, ChangeAssumption, ChangeStores
  <2>5. ASSUME NEW level \in AllLevels, NEW format \in Format,
               ReconfigureAllLoggers(Setting(level, "Format", format))
        PROVE  SettingsInv'
    <3> DEFINE s == Setting(level, "Format", format)
    <3>1. s = Setting(s.level, s.type, s.value)
      BY SettingFields
    <3>2. ReconfigureAllLoggers(s)
      BY <2>5
    <3> HIDE DEF s
    <3> QED
      BY <3>1, <3>2, ChangeStores
  <2>6. CASE UNCHANGED vars
    BY <2>6, NothingStored
  <2> QED
    BY <2>1, <2>2, <2>3, <2>4, <2>5, <2>6 DEF Next
<1> QED
  BY <1>1, <1>2, PTL DEF Spec

-----------------------------------------------------------------------------
(***************************************************************************)
(* What is asked for is what the list has, except where it strays.         *)
(***************************************************************************)

Same(st, l, type, v) ==
  IF type \in GlobalTypes THEN \A x \in AllLevels : st[x][type] = v ELSE st[l][type] = v
Agree(st, w, exempt) ==
  \A l \in AllLevels, type \in ConfigurationType :
    <<l, type>> \notin exempt => Same(st, l, type, w[l][type])
SettingsAgree == Agree(stored, wanted, strayed)

LEMMA StoredValue ==
  ASSUME NEW old, NEW q, NEW l \in AllLevels, NEW type \in ConfigurationType
  PROVE  LET own == Positions(q, l, type)
             all == Positions(q, Global, type)
         IN  Stored(old, q)[l][type] =
               IF own # {} /\ (all = {} \/ (Max(own) > Max(all) /\ Min(all) < Min(own)))
               THEN q[Max(own)].value
               ELSE IF all # {} THEN q[Max(all)].value ELSE old[l][type]
BY DEF Stored

LEMMA WantedValue ==
  ASSUME NEW old, NEW q, NEW l \in AllLevels, NEW type \in ConfigurationType
  PROVE  Wanted(old, q)[l][type] = IF GivenTo(q, l, type) = {} THEN old[l][type]
                                   ELSE q[Max(GivenTo(q, l, type))].value
BY DEF Wanted

LEMMA PositionsIn ==
  ASSUME NEW q, NEW k \in Nat, DOMAIN q = 1 .. k, NEW l, NEW type
  PROVE  /\ Positions(q, l, type) \in SUBSET (1 .. k)
         /\ l # Global => Positions(q, l, type) \cap Positions(q, Global, type) = {}
BY DEF Positions

LEMMA GreatestIs ==
  ASSUME NEW n \in Nat, NEW s \in SUBSET (1 .. n), NEW x \in s, \A y \in s : y <= x
  PROVE  Max(s) = x
<1>1. Max(s) \in s /\ x <= Max(s)
  BY TopOf
<1>2. \A y \in s : y \in Nat
  OBVIOUS
<1>3. Max(s) \in Nat /\ x \in Nat /\ Max(s) <= x
  BY <1>1, <1>2
<1> QED
  BY <1>1, <1>3

\* A level to which Global's value is the last one given has that value, and one
\* that is named last has its own unless it is out of order.
LEMMA LastIsStored ==
  ASSUME NEW old, NEW q, NEW k \in Nat, DOMAIN q = 1 .. k,
         NEW l \in AllLevels, NEW type \in ConfigurationType, ~OutOfOrder(q, l, type),
         Positions(q, l, type) \cup Positions(q, Global, type) # {}
  PROVE  Stored(old, q)[l][type] =
           q[Max(Positions(q, l, type) \cup Positions(q, Global, type))].value
<1> DEFINE own == Positions(q, l, type)
           all == Positions(q, Global, type)
           both == own \cup all
           value == Stored(old, q)[l][type]
<1>1. value = IF own # {} /\ (all = {} \/ (Max(own) > Max(all) /\ Min(all) < Min(own)))
              THEN q[Max(own)].value
              ELSE IF all # {} THEN q[Max(all)].value ELSE old[l][type]
  BY StoredValue
<1>2. /\ own \in SUBSET (1 .. k) /\ all \in SUBSET (1 .. k)
      /\ l # Global => own \cap all = {}
      /\ l = Global => own = all
  BY PositionsIn
<1>3. ~(l # Global /\ own # {} /\ all # {} /\ Min(own) < Min(all) /\ Max(all) < Max(own))
  BY DEF OutOfOrder
<1>4. both # {} /\ both \in SUBSET (1 .. k)
  BY <1>2
<1>5. both = own \cup all
  OBVIOUS
<1> SUFFICES value = q[Max(both)].value
  OBVIOUS
<1> HIDE DEF own, all, both, value
<1>6. Max(both) \in both /\ \A x \in both : x <= Max(both)
  BY <1>4, TopOf
<1>7. own # {} => /\ Max(own) \in own /\ \A x \in own : x <= Max(own)
                  /\ Min(own) \in own /\ \A x \in own : Min(own) <= x
  BY <1>2, TopOf, BottomOf
<1>8. all # {} => /\ Max(all) \in all /\ \A x \in all : x <= Max(all)
                  /\ Min(all) \in all /\ \A x \in all : Min(all) <= x
  BY <1>2, TopOf, BottomOf
<1>9. (\A x \in own : x \in Nat) /\ (\A x \in all : x \in Nat)
  BY <1>2
<1>10. CASE own = {}
  <2>1. both = all
    BY <1>5, <1>10
  <2> QED
    BY <1>1, <1>4, <1>10, <2>1
<1>11. CASE all = {}
  <2>1. both = own
    BY <1>5, <1>11
  <2> QED
    BY <1>1, <1>4, <1>11, <2>1
<1>12. CASE own # {} /\ all # {}
  <2>1. CASE l = Global
    <3>1. both = all /\ own = all
      BY <1>2, <1>5, <2>1
    <3>2. Max(all) \in Nat
      BY <1>8, <1>9, <1>12
    <3>3. ~(Max(own) > Max(all))
      BY <3>1, <3>2
    <3> QED
      BY <1>1, <1>12, <3>1, <3>3
  <2>2. CASE l # Global /\ Max(own) > Max(all)
    <3>1. Max(own) \in Nat /\ Max(all) \in Nat /\ Min(own) \in Nat /\ Min(all) \in Nat
      BY <1>7, <1>8, <1>9, <1>12
    <3>2. Min(own) # Min(all)
      BY <1>2, <1>7, <1>8, <1>12, <2>2
    <3>3. Min(all) < Min(own)
      BY <1>3, <1>12, <2>2, <3>1, <3>2
    <3>4. value = q[Max(own)].value
      BY <1>1, <1>12, <2>2, <3>3
    <3>5. Max(both) = Max(own)
      <4>1. Max(own) \in both
        BY <1>5, <1>7, <1>12
      <4>2. ASSUME NEW y \in both PROVE y <= Max(own)
        <5>1. y \in Nat /\ (y <= Max(own) \/ y <= Max(all))
          BY <1>5, <1>7, <1>8, <1>9, <1>12
        <5> QED
          BY <2>2, <3>1, <5>1
      <4> QED
        BY <1>4, <4>1, <4>2, GreatestIs
    <3> QED
      BY <3>4, <3>5
  <2>3. CASE ~(Max(own) > Max(all))
    <3>1. Max(own) \in Nat /\ Max(all) \in Nat
      BY <1>7, <1>8, <1>9, <1>12
    <3>2. Max(both) = Max(all)
      <4>1. Max(all) \in both
        BY <1>5, <1>8, <1>12
      <4>2. ASSUME NEW y \in both PROVE y <= Max(all)
        <5>1. y \in Nat /\ (y <= Max(own) \/ y <= Max(all))
          BY <1>5, <1>7, <1>8, <1>9, <1>12
        <5> QED
          BY <2>3, <3>1, <5>1
      <4> QED
        BY <1>4, <4>1, <4>2, GreatestIs
    <3>3. value = q[Max(all)].value
      BY <1>1, <1>12, <2>3
    <3> QED
      BY <3>2, <3>3
  <2> QED
    BY <2>1, <2>2, <2>3
<1> QED
  BY <1>10, <1>11, <1>12

\* Settings that do not stray for a level and a type.
LEMMA AgreeOne ==
  ASSUME NEW st, NEW q, NEW k \in Nat, DOMAIN q = 1 .. k,
         NEW l \in AllLevels, NEW type \in ConfigurationType, NEW v,
         type \in GlobalTypes => ~NotIgnored(q, type),
         type \notin GlobalTypes => ~OutOfOrder(q, l, type),
         GivenTo(q, l, type) = {} => Same(st, l, type, v)
  PROVE  Same(Stored(st, q), l, type,
              IF GivenTo(q, l, type) = {} THEN v ELSE q[Max(GivenTo(q, l, type))].value)
<1> DEFINE given == GivenTo(q, l, type)
           all == Positions(q, Global, type)
<1>1. CASE type \in GlobalTypes
  <2>1. given = all
    BY <1>1 DEF GivenTo
  <2>2. ASSUME NEW x \in AllLevels
        PROVE  Stored(st, q)[x][type] = IF all = {} THEN st[x][type] ELSE q[Max(all)].value
    <3> DEFINE own == Positions(q, x, type)
    <3>1. CASE x = Global
      <4>1. own = all
        BY <3>1
      <4>2. CASE all = {}
        BY <4>1, <4>2, StoredValue
      <4>3. CASE all # {}
        <5>1. ~OutOfOrder(q, x, type)
          BY <3>1 DEF OutOfOrder
        <5>2. own \cup all = all
          BY <4>1
        <5>3. Stored(st, q)[x][type] = q[Max(own \cup all)].value
          BY <4>3, <5>1, <5>2, LastIsStored
        <5> HIDE DEF own, all
        <5> QED
          BY <4>3, <5>2, <5>3
      <4> QED
        BY <4>2, <4>3
    <3>2. CASE x # Global
      <4>1. x \in Level
        BY <3>2 DEF AllLevels
      <4>2. own = {}
        BY <1>1, <4>1 DEF NotIgnored
      <4> QED
        BY <4>2, StoredValue
    <3> QED
      BY <3>1, <3>2
  <2> HIDE DEF given, all
  <2>3. CASE all = {}
    <3>1. \A x \in AllLevels : st[x][type] = v
      BY <1>1, <2>1, <2>3 DEF Same, given
    <3> QED
      BY <1>1, <2>1, <2>2, <2>3, <3>1 DEF Same, given
  <2>4. CASE all # {}
    BY <1>1, <2>1, <2>2, <2>4 DEF Same, given
  <2> QED
    BY <2>3, <2>4
<1>2. CASE type \notin GlobalTypes
  <2> DEFINE own == Positions(q, l, type)
  <2>1. given = own \cup all
    BY <1>2 DEF GivenTo
  <2>2. CASE given = {}
    <3>1. own = {} /\ all = {}
      BY <2>1, <2>2
    <3>2. Stored(st, q)[l][type] = st[l][type]
      BY <3>1, StoredValue
    <3>3. st[l][type] = v
      BY <1>2, <2>2 DEF Same
    <3> QED
      BY <1>2, <2>2, <3>2, <3>3 DEF Same
  <2>3. CASE given # {}
    <3>1. Stored(st, q)[l][type] = q[Max(own \cup all)].value
      BY <1>2, <2>1, <2>3, LastIsStored
    <3> HIDE DEF own, all
    <3>2. Stored(st, q)[l][type] = q[Max(given)].value
      BY <2>1, <3>1
    <3> QED
      BY <1>2, <2>3, <3>2 DEF Same, given
  <2> QED
    BY <2>2, <2>3
<1> QED
  BY <1>1, <1>2

\* Settings that are given without defaults.
LEMMA AgreeStep ==
  ASSUME NEW st, NEW w, NEW exempt, Agree(st, w, exempt),
         NEW q, NEW k \in Nat, DOMAIN q = 1 .. k
  PROVE  Agree(Stored(st, q), Wanted(Wanted(w, << >>), q), Strayed(exempt, << >>, q))
<1> SUFFICES ASSUME NEW l \in AllLevels, NEW type \in ConfigurationType,
                    <<l, type>> \notin Strayed(exempt, << >>, q)
             PROVE  Same(Stored(st, q), l, type, Wanted(Wanted(w, << >>), q)[l][type])
  BY DEF Agree
<1>1. \A x, t : Positions(<< >>, x, t) = {} /\ GivenTo(<< >>, x, t) = {}
  BY DEF Positions, GivenTo
<1>2. Wanted(w, << >>)[l][type] = w[l][type]
  BY <1>1, WantedValue
<1>3. Wanted(Wanted(w, << >>), q)[l][type] =
        IF GivenTo(q, l, type) = {} THEN w[l][type] ELSE q[Max(GivenTo(q, l, type))].value
  BY <1>2, WantedValue
<1>4. /\ ~Strays(<< >>, q, l, type)
      /\ GivenTo(q, l, type) = {} => <<l, type>> \notin exempt
  <2>1. <<l, type>> \in AllLevels \X ConfigurationType
    OBVIOUS
  <2> QED
    BY <1>1, <2>1 DEF Strayed
<1>5. /\ type \in GlobalTypes => ~NotIgnored(q, type)
      /\ type \notin GlobalTypes => ~OutOfOrder(q, l, type)
  BY <1>4 DEF Strays
<1>6. GivenTo(q, l, type) = {} => Same(st, l, type, w[l][type])
  BY <1>4 DEF Agree
<1> QED
  BY <1>3, <1>5, <1>6, AgreeOne

\* The settings of a text, with the defaults for what it leaves out.
LEMMA DefaultsAgree ==
  ASSUME NEW st, NEW w, NEW exempt, Agree(st, w, exempt),
         NEW said, NEW n \in Nat, NEW q, Completed(said, n, q), DOMAIN q = 1 .. n + 14
  PROVE  Agree(Stored(st, q), Wanted(Wanted(w, Defaults), said),
               Strayed(exempt, Defaults, said))
<1> SUFFICES ASSUME NEW l \in AllLevels, NEW type \in ConfigurationType,
                    <<l, type>> \notin Strayed(exempt, Defaults, said)
             PROVE  Same(Stored(st, q), l, type, Wanted(Wanted(w, Defaults), said)[l][type])
  BY DEF Agree
<1> DEFINE D == DefaultSettings
           v == Wanted(w, Defaults)[l][type]
           given == GivenTo(said, l, type)
<1>1. /\ DOMAIN said = 1 .. n /\ \A i \in 1 .. n : q[i] = said[i]
      /\ \A i \in 1 .. 14 : q[n + i] = Remaining(said)[i]
  BY DEF Completed
<1>2. /\ DOMAIN D = 1 .. 14
      /\ \A i, j \in 1 .. 14 :
           D[i].level = Global /\ D[j].level = Global /\ D[i].type = D[j].type => i = j
      /\ \A t \in AllTypes : \E i \in 1 .. 9 : D[i].level = Global /\ D[i].type = t
  BY DefaultsAre
<1>3. /\ type \in AllTypes /\ type # "Unknown" /\ Global # "Unknown" /\ Global \in AllLevels
      /\ l # "Unknown" /\ \A x \in AllLevels : x # "Unknown"
  BY TypeAssumption, UnknownIsNone, OrderFacts DEF AllLevels
<1>4. /\ ~Strays(Defaults, said, l, type)
      /\ given = {} /\ GivenTo(Defaults, l, type) = {} => <<l, type>> \notin exempt
  <2>1. <<l, type>> \in AllLevels \X ConfigurationType
    OBVIOUS
  <2> QED
    BY <2>1 DEF Strayed
<1>5. /\ type \in GlobalTypes => ~NotIgnored(said, type)
      /\ type \notin GlobalTypes =>
           ~OutOfOrder(said, l, type) /\ ~Overwritten(Defaults, said, l, type)
  BY <1>4 DEF Strays
<1>6. Wanted(Wanted(w, Defaults), said)[l][type] =
        IF given = {} THEN v ELSE said[Max(given)].value
  BY WantedValue
<1>7. \A i \in 1 .. 14 : IF Unsaid(said, D[i]) THEN q[n + i] = D[i]
                         ELSE \E x : q[n + i] = Setting("Unknown", "Unknown", x)
  <2>1. \A i \in 1 .. 14 :
          IF Unsaid(said, D[i]) THEN Remaining(said)[i] = D[i]
          ELSE \E x : Remaining(said)[i] = Setting("Unknown", "Unknown", x)
    BY RemainingAre
  <2> HIDE DEF D
  <2> QED
    BY <1>1, <2>1
<1>8. ASSUME NEW i \in 1 .. 14, ~Unsaid(said, D[i]) PROVE q[n + i].type = "Unknown"
  <2> HIDE DEF D
  <2>1. \E x : q[n + i] = Setting("Unknown", "Unknown", x)
    BY <1>7, <1>8
  <2> QED
    BY <2>1, SettingFields
<1>9. /\ DOMAIN Defaults = 1 .. 14
      /\ \A i \in 1 .. 14 :
           IF D[i].type \in {"ToFile", "LogFlushThreshold"}
           THEN Defaults[i].type = "Unknown" ELSE Defaults[i] = D[i]
  <2>1. /\ DOMAIN Defaults = 1 .. 14
        /\ \A i \in 1 .. 14 :
             IF D[i].type \in {"ToFile", "LogFlushThreshold"}
             THEN \E x : Defaults[i] = Setting("Unknown", "Unknown", x)
             ELSE Defaults[i] = D[i]
    BY FilledAre
  <2> HIDE DEF D
  <2>2. ASSUME NEW i \in 1 .. 14, NEW x, Defaults[i] = Setting("Unknown", "Unknown", x)
        PROVE  Defaults[i].type = "Unknown"
    BY <2>2, SettingFields
  <2> QED
    BY <2>1, <2>2
<1> HIDE DEF D, v, given
<1>10. CASE Positions(said, Global, type) # {} \/ type \in {"ToFile", "LogFlushThreshold"}
  <2>1. \A i \in 1 .. 14 : q[n + i].type # type
    <3> SUFFICES ASSUME NEW i \in 1 .. 14 PROVE q[n + i].type # type
      OBVIOUS
    <3>1. CASE Unsaid(said, D[i])
      <4>1. q[n + i] = D[i] /\ D[i].type # type
        BY <1>7, <1>10, <3>1 DEF Unsaid
      <4> QED
        BY <4>1
    <3>2. CASE ~Unsaid(said, D[i])
      BY <1>3, <1>8, <3>2
    <3> QED
      BY <3>1, <3>2
  <2>2. ASSUME NEW i \in 1 .. n + 14 PROVE i \in 1 .. n \/ \E j \in 1 .. 14 : i = n + j
    <3>1. CASE i > n
      <4>1. i - n \in 1 .. 14 /\ i = n + (i - n)
        BY <3>1
      <4> QED
        BY <4>1
    <3>2. CASE ~(i > n)
      BY <3>2
    <3> QED
      BY <3>1, <3>2
  <2>3. ASSUME NEW x PROVE Positions(q, x, type) = Positions(said, x, type)
    <3>1. \A i \in 1 .. n : i \in 1 .. n + 14
      OBVIOUS
    <3>2. ASSUME NEW i \in Positions(q, x, type) PROVE i \in Positions(said, x, type)
      <4>1. i \in 1 .. n + 14 /\ q[i].type = type /\ q[i].level = x
        BY DEF Positions
      <4>2. i \in 1 .. n
        BY <2>1, <2>2, <4>1
      <4> QED
        BY <1>1, <4>1, <4>2 DEF Positions
    <3>3. ASSUME NEW i \in Positions(said, x, type) PROVE i \in Positions(q, x, type)
      BY <1>1, <3>1 DEF Positions
    <3> QED
      BY <3>2, <3>3
  <2>4. ASSUME NEW x \in AllLevels PROVE Stored(st, q)[x][type] = Stored(st, said)[x][type]
    <3> DEFINE own == Positions(said, x, type)
               all == Positions(said, Global, type)
    <3>1. /\ own \in SUBSET (1 .. n) /\ all \in SUBSET (1 .. n)
      BY <1>1, PositionsIn
    <3>2. Positions(q, x, type) = own /\ Positions(q, Global, type) = all
      BY <2>3
    <3>3. Stored(st, q)[x][type] =
            IF own # {} /\ (all = {} \/ (Max(own) > Max(all) /\ Min(all) < Min(own)))
            THEN q[Max(own)].value
            ELSE IF all # {} THEN q[Max(all)].value ELSE st[x][type]
      <4> HIDE DEF own, all
      <4> QED
        BY <3>2, StoredValue
    <3>4. Stored(st, said)[x][type] =
            IF own # {} /\ (all = {} \/ (Max(own) > Max(all) /\ Min(all) < Min(own)))
            THEN said[Max(own)].value
            ELSE IF all # {} THEN said[Max(all)].value ELSE st[x][type]
      BY StoredValue
    <3> HIDE DEF own, all
    <3>5. (own # {} => Max(own) \in own) /\ (all # {} => Max(all) \in all)
      BY <3>1, TopOf
    <3>6. /\ own # {} => q[Max(own)] = said[Max(own)]
          /\ all # {} => q[Max(all)] = said[Max(all)]
      BY <1>1, <3>1, <3>5
    <3> QED
      BY <3>3, <3>4, <3>6
  <2>5. given = {} => Same(st, l, type, v)
    <3> SUFFICES ASSUME given = {} PROVE Same(st, l, type, v)
      OBVIOUS
    <3>1. Positions(said, Global, type) = {}
      BY DEF given, GivenTo
    <3>2. type \in {"ToFile", "LogFlushThreshold"}
      BY <1>10, <3>1
    <3>3. \A i \in 1 .. 14 : Defaults[i].type # type
      BY <1>3, <1>9, <3>2
    <3>4. GivenTo(Defaults, l, type) = {}
      BY <1>9, <3>3 DEF GivenTo, Positions
    <3>5. v = w[l][type]
      BY <3>4, WantedValue DEF v
    <3>6. Same(st, l, type, w[l][type])
      BY <1>4, <3>4 DEF Agree
    <3> QED
      BY <3>5, <3>6
  <2>6. Same(Stored(st, said), l, type, IF given = {} THEN v ELSE said[Max(given)].value)
    BY <1>1, <1>5, <2>5, AgreeOne DEF given
  <2>7. Same(Stored(st, q), l, type, IF given = {} THEN v ELSE said[Max(given)].value)
    BY <2>4, <2>6 DEF Same
  <2> QED
    BY <1>6, <2>7
<1>11. CASE Positions(said, Global, type) = {} /\ type \notin {"ToFile", "LogFlushThreshold"}
  <2>1. PICK g \in 1 .. 14 : D[g].level = Global /\ D[g].type = type
    <3>1. PICK g \in 1 .. 9 : D[g].level = Global /\ D[g].type = type
      BY <1>2, <1>3
    <3>2. g \in 1 .. 14
      OBVIOUS
    <3> QED
      BY <3>1, <3>2
  <2>10. \A i \in 1 .. 14 : D[i].level = Global /\ D[i].type = type => i = g
    <3>1. \A i, j \in 1 .. 14 :
            D[i].level = Global /\ D[j].level = Global /\ D[i].type = D[j].type => i = j
      BY <1>2
    <3> QED
      BY <2>1, <3>1
  <2>2. Unsaid(said, D[g]) /\ q[n + g] = D[g] /\ n + g \in 1 .. n + 14
    <3>1. Unsaid(said, D[g])
      BY <1>11, <2>1 DEF Unsaid
    <3>2. q[n + g] = D[g]
      BY <1>7, <3>1
    <3>3. n + g \in 1 .. n + 14
      OBVIOUS
    <3> QED
      BY <3>1, <3>2, <3>3
  <2>3. \A i \in 1 .. 14 : q[n + i].type = type => i = g
    <3> SUFFICES ASSUME NEW i \in 1 .. 14, q[n + i].type = type PROVE i = g
      OBVIOUS
    <3>1. Unsaid(said, D[i]) /\ q[n + i] = D[i]
      BY <1>3, <1>7, <1>8
    <3>2. D[i].level = Global /\ D[i].type = type
      BY <3>1 DEF Unsaid
    <3> QED
      BY <2>10, <3>2
  <2>4. ASSUME NEW i \in 1 .. n + 14 PROVE i \in 1 .. n \/ \E j \in 1 .. 14 : i = n + j
    <3>1. CASE i > n
      <4>1. i - n \in 1 .. 14 /\ i = n + (i - n)
        BY <3>1
      <4> QED
        BY <4>1
    <3>2. CASE ~(i > n)
      BY <3>2
    <3> QED
      BY <3>1, <3>2
  <2>5. ASSUME NEW x \in AllLevels, x # Global => Positions(said, x, type) = {}
        PROVE  Positions(q, x, type) = IF x = Global THEN {n + g} ELSE {}
    <3>1. ASSUME NEW i \in Positions(q, x, type) PROVE i = n + g /\ x = Global
      <4>1. i \in 1 .. n + 14 /\ q[i].type = type /\ q[i].level = x
        BY DEF Positions
      <4>2. i \notin 1 .. n
        <5>1. Positions(said, x, type) = {}
          BY <1>11, <2>5
        <5> QED
          BY <1>1, <4>1, <5>1 DEF Positions
      <4>3. PICK j \in 1 .. 14 : i = n + j
        BY <2>4, <4>1, <4>2
      <4>4. j = g
        BY <2>3, <4>1, <4>3
      <4> QED
        BY <2>1, <2>2, <4>1, <4>3, <4>4
    <3>2. x = Global => n + g \in Positions(q, x, type)
      BY <2>1, <2>2 DEF Positions
    <3> QED
      BY <3>1, <3>2
  <2>6. ASSUME NEW x \in AllLevels, x # Global => Positions(said, x, type) = {}
        PROVE  Stored(st, q)[x][type] = D[g].value
    <3> DEFINE own == Positions(q, x, type)
               all == Positions(q, Global, type)
               k == n + 14
    <3>1. all = {n + g}
      BY <1>3, <1>11, <2>5
    <3>2. own = IF x = Global THEN {n + g} ELSE {}
      BY <2>5, <2>6
    <3>3. own \cup all = {n + g} /\ own \cup all # {}
      BY <3>1, <3>2
    <3>4. ~OutOfOrder(q, x, type)
      BY <3>2 DEF OutOfOrder
    <3>5. k \in Nat /\ DOMAIN q = 1 .. k
      OBVIOUS
    <3>6. Stored(st, q)[x][type] = q[Max(own \cup all)].value
      <4> HIDE DEF k
      <4> QED
        BY <3>3, <3>4, <3>5, LastIsStored
    <3> HIDE DEF own, all
    <3>7. {n + g} \in SUBSET (1 .. k) /\ {n + g} # {}
      BY <2>2 DEF k
    <3>8. Max({n + g}) \in {n + g}
      BY <3>5, <3>7, TopOf
    <3>9. Max(own \cup all) = n + g
      BY <3>3, <3>8
    <3> QED
      BY <2>2, <3>6, <3>9
  <2>7. Defaults[g] = D[g] /\ g \in Positions(Defaults, Global, type)
    BY <1>9, <1>11, <2>1 DEF Positions
  <2>8. CASE type \in GlobalTypes
    <3>1. \A x \in AllLevels : x # Global => Positions(said, x, type) = {}
      BY <1>5, <2>8 DEF NotIgnored, AllLevels
    <3>2. \A x \in AllLevels : Stored(st, q)[x][type] = D[g].value
      BY <2>6, <3>1
    <3>3. given = {}
      BY <1>11, <2>8 DEF given, GivenTo
    <3>4. GivenTo(Defaults, l, type) = Positions(Defaults, Global, type)
      BY <2>8 DEF GivenTo
    <3>5. v = D[g].value
      <4> DEFINE all == Positions(Defaults, Global, type)
      <4>1. all \in SUBSET (1 .. 14) /\ all # {} /\ 14 \in Nat
        BY <1>9, <2>7 DEF Positions
      <4>2. v = Defaults[Max(all)].value
        BY <3>4, <4>1, WantedValue DEF v
      <4>3. \A i \in all : i \in 1 .. 14 /\ Defaults[i].level = Global /\ Defaults[i].type = type
        BY <1>9 DEF Positions
      <4> HIDE DEF all
      <4>4. Max(all) \in all
        BY <4>1, TopOf
      <4>5. D[Max(all)].level = Global /\ D[Max(all)].type = type /\ Max(all) \in 1 .. 14
        BY <1>3, <1>9, <4>3, <4>4
      <4>6. Max(all) = g
        BY <2>10, <4>5
      <4> QED
        BY <2>7, <4>2, <4>6
    <3> QED
      BY <1>6, <2>8, <3>2, <3>3, <3>5 DEF Same
  <2>9. CASE type \notin GlobalTypes
    <3>1. /\ l # Global => Positions(said, l, type) = {}
          /\ l # Global => \A j \in Positions(Defaults, l, type) :
                             Defaults[j].value = Defaults[g].value
      BY <1>5, <1>11, <2>7, <2>9 DEF Overwritten
    <3>2. Stored(st, q)[l][type] = D[g].value
      BY <2>6, <3>1
    <3>3. given = {}
      BY <1>11, <2>9, <3>1 DEF given, GivenTo
    <3>4. v = D[g].value
      <4> DEFINE own == Positions(Defaults, l, type)
                 all == Positions(Defaults, Global, type)
                 both == GivenTo(Defaults, l, type)
      <4>1. both = all \cup own
        BY <2>9 DEF GivenTo
      <4>2. /\ own \in SUBSET (1 .. 14) /\ all \in SUBSET (1 .. 14)
            /\ g \in all /\ 14 \in Nat
            /\ l = Global => own = all
        BY <1>9, <2>7 DEF Positions
      <4>3. \A i \in all : i \in 1 .. 14 /\ Defaults[i].level = Global /\ Defaults[i].type = type
        BY <1>9 DEF Positions
      <4>4. both # {} /\ both \in SUBSET (1 .. 14)
        BY <4>1, <4>2
      <4>5. v = Defaults[Max(both)].value
        BY <4>4, WantedValue DEF v
      <4>6. l # Global => \A j \in own : Defaults[j].value = Defaults[g].value
        BY <3>1
      <4> HIDE DEF own, all, both
      <4>7. Max(both) \in both
        BY <4>2, <4>4, TopOf
      <4>8. CASE Max(both) \in all
        <5>1. D[Max(both)].level = Global /\ D[Max(both)].type = type /\ Max(both) \in 1 .. 14
          BY <1>3, <1>9, <4>3, <4>8
        <5>2. Max(both) = g
          BY <2>10, <5>1
        <5> QED
          BY <2>7, <4>5, <5>2
      <4>9. CASE Max(both) \notin all
        <5>1. l # Global /\ Max(both) \in own
          BY <4>1, <4>2, <4>7, <4>9
        <5> QED
          BY <2>7, <4>5, <4>6, <5>1
      <4> QED
        BY <4>8, <4>9
    <3> QED
      BY <1>6, <2>9, <3>2, <3>3, <3>4 DEF Same
  <2> QED
    BY <2>8, <2>9
<1> QED
  BY <1>10, <1>11

\* What is asked for and what the list has agree in every level and type that has
\* not strayed.
THEOREM SettingsAgreement == Spec => []SettingsAgree
<1>1. Init => SettingsAgree
  <2> SUFFICES ASSUME Init PROVE SettingsAgree
    OBVIOUS
  <2> DEFINE D == DefaultSettings
             k == 14
             v == Wanted(Wanted(Nothing, << >>), D)
  <2>1. k \in Nat /\ DOMAIN D = 1 .. k
    BY DefaultsAre
  <2>2. Agree(Nothing, Nothing, {})
    BY DEF Agree, Same, Nothing
  <2>3. Agree(Stored(Nothing, D), v, Strayed({}, << >>, D))
    <3> HIDE DEF D, k
    <3> QED
      BY <2>1, <2>2, AgreeStep
  <2>4. ASSUME NEW l \in AllLevels, NEW type \in ConfigurationType
        PROVE  ~Strays(<< >>, D, l, type)
    <3>1. /\ \A i \in 1 .. 14 : D[i].level # Global => i > 9 /\ D[i].type = "Format"
          /\ D[9].level = Global /\ D[9].type = "Format"
      BY DefaultsAre
    <3> HIDE DEF D
    <3>2. "Format" \notin GlobalTypes /\ Global \notin Level
      BY OrderFacts DEF GlobalTypes
    <3>3. CASE type \in GlobalTypes
      <4>1. \A x \in Level : Positions(D, x, type) = {}
        BY <2>1, <3>1, <3>2, <3>3 DEF Positions
      <4> QED
        BY <3>3, <4>1 DEF Strays, NotIgnored
    <3>4. CASE type \notin GlobalTypes
      <4> DEFINE own == Positions(D, l, type)
                 all == Positions(D, Global, type)
      <4>1. ~Overwritten(<< >>, D, l, type)
        <5>1. Positions(<< >>, Global, type) = {}
          BY DEF Positions
        <5> QED
          BY <5>1 DEF Overwritten
      <4>2. ASSUME l # Global, own # {}, all # {} PROVE Min(all) < Min(own)
        <5>1. \A i \in own : i \in 1 .. 14 /\ i > 9 /\ type = "Format"
          BY <2>1, <3>1, <4>2 DEF Positions
        <5>2. type = "Format"
          BY <4>2, <5>1
        <5>3. 9 \in all
          BY <2>1, <3>1, <5>2 DEF Positions
        <5>4. own \in SUBSET (1 .. 14) /\ all \in SUBSET (1 .. 14) /\ 14 \in Nat
          BY <2>1 DEF Positions
        <5> HIDE DEF own, all
        <5>5. Min(own) \in own
          BY <4>2, <5>4, BottomOf
        <5>6. Min(all) \in all /\ Min(all) <= 9
          BY <4>2, <5>3, <5>4, BottomOf
        <5>7. Min(own) \in 1 .. 14 /\ Min(own) > 9 /\ Min(all) \in 1 .. 14
          BY <5>1, <5>4, <5>5, <5>6
        <5> QED
          BY <5>6, <5>7
      <4>3. ASSUME l # Global, own # {}, all # {} PROVE ~(Min(own) < Min(all))
        <5>1. Min(all) < Min(own)
          BY <4>2, <4>3
        <5>2. own \in SUBSET (1 .. 14) /\ all \in SUBSET (1 .. 14) /\ 14 \in Nat
          BY <2>1 DEF Positions
        <5> HIDE DEF own, all
        <5>3. Min(own) \in own /\ Min(all) \in all
          BY <4>3, <5>2, BottomOf
        <5>4. Min(own) \in 1 .. 14 /\ Min(all) \in 1 .. 14
          BY <5>2, <5>3
        <5> QED
          BY <5>1, <5>4
      <4>4. ~OutOfOrder(D, l, type)
        BY <4>3 DEF OutOfOrder
      <4> QED
        BY <3>4, <4>1, <4>4 DEF Strays
    <3> QED
      BY <3>3, <3>4
  <2>5. Strayed({}, << >>, D) = {}
    <3> SUFFICES ASSUME NEW pair \in Strayed({}, << >>, D) PROVE FALSE
      OBVIOUS
    <3>1. pair[1] \in AllLevels /\ pair[2] \in ConfigurationType
      BY DEF Strayed
    <3>2. Strays(<< >>, D, pair[1], pair[2])
      BY DEF Strayed
    <3> QED
      BY <2>4, <3>1, <3>2
  <2>6. ASSUME NEW l \in AllLevels, NEW type \in ConfigurationType
        PROVE  v[l][type] = Wanted(Nothing, D)[l][type]
    <3>1. GivenTo(<< >>, l, type) = {}
      BY DEF GivenTo, Positions
    <3>2. Wanted(Nothing, << >>)[l][type] = Nothing[l][type]
      BY <3>1, WantedValue
    <3> HIDE DEF D
    <3> QED
      BY <3>2, WantedValue
  <2>7. stored = Stored(Nothing, D) /\ wanted = Wanted(Nothing, D) /\ strayed = {}
    BY InitStores DEF Init
  <2> HIDE DEF D, v
  <2>8. Agree(Stored(Nothing, D), v, {})
    BY <2>3, <2>5
  <2>9. Agree(Stored(Nothing, D), Wanted(Nothing, D), {})
    BY <2>6, <2>8 DEF Agree
  <2> QED
    BY <2>7, <2>9 DEF SettingsAgree
<1>2. SettingsInv /\ SettingsAgree /\ [Next]_vars => SettingsAgree'
  <2> SUFFICES ASSUME SettingsInv, SettingsAgree, [Next]_vars PROVE SettingsAgree'
    OBVIOUS
  <2>1. ASSUME NEW q, NEW k \in Nat, DOMAIN q = 1 .. k, stored' = Stored(stored, q),
               Ask(<< >>, q)
        PROVE  SettingsAgree'
    <3>1. Agree(stored, wanted, strayed)
      BY DEF SettingsAgree
    <3>2. Agree(Stored(stored, q), Wanted(Wanted(wanted, << >>), q), Strayed(strayed, << >>, q))
      BY <2>1, <3>1, AgreeStep
    <3>3. /\ wanted' = Wanted(Wanted(wanted, << >>), q)
          /\ strayed' = Strayed(strayed, << >>, q)
      BY <2>1 DEF Ask
    <3> QED
      BY <2>1, <3>2, <3>3 DEF SettingsAgree
  <2>2. CASE SetupLogger
    <3> DEFINE q == DefaultSettings \o ProgramSettings
               k == 22
    <3>1. DOMAIN q = 1 .. k /\ k \in Nat
      BY ProgramRegisters
    <3>2. stored' = Stored(stored, q) /\ Ask(<< >>, q)
      BY <2>2, SetupStores DEF SetupLogger
    <3> HIDE DEF q, k
    <3> QED
      BY <2>1, <3>1, <3>2
  <2>3. ASSUME NEW text \in Text, ReconfigureLogger(text) PROVE SettingsAgree'
    <3> DEFINE q == Said(text)
               k == Len(text)
    <3>1. k \in Nat /\ DOMAIN q = 1 .. k
      BY ParsedRegisters
    <3>2. stored' = Stored(stored, q) /\ Ask(<< >>, q)
      BY <2>3, TextStores DEF ReconfigureLogger
    <3> HIDE DEF q, k
    <3> QED
      BY <2>1, <3>1, <3>2
  <2>4. ASSUME NEW text \in Text, ReconfigureWithDefaults(text) PROVE SettingsAgree'
    <3> DEFINE said == Said(text)
               rest == Remaining(said)
               n == Len(text)
               m == 14
               q == Concat(said, rest)
    <3>1. n \in Nat /\ DOMAIN said = 1 .. n
      BY ParsedRegisters
    <3>2. IsList(said, n)
      <4>1. said = [i \in 1 .. n |-> said[i]]
        BY <3>1 DEF Said
      <4> HIDE DEF said, n
      <4> QED
        BY <3>1, <4>1 DEF IsList
    <3>3. IsList(rest, m)
      BY RemainingAre
    <3>4. stored' = Stored(stored, q) /\ Ask(Defaults, said)
      BY <2>4, DefaultsStore DEF ReconfigureWithDefaults, Concat
    <3>5. Agree(stored, wanted, strayed)
      BY DEF SettingsAgree
    <3>a. q = Concat(said, rest)
      OBVIOUS
    <3> HIDE DEF said, n, q
    <3>6. /\ DOMAIN q = 1 .. n + m /\ \A i \in 1 .. n : q[i] = said[i]
          /\ \A i \in 1 .. m : q[n + i] = rest[i]
      <4> HIDE DEF rest, m
      <4> QED
        BY <3>2, <3>3, <3>a, ConcatIs
    <3>7. Completed(said, n, q)
      BY <3>1, <3>6 DEF Completed
    <3>8. DOMAIN q = 1 .. n + 14
      BY <3>6
    <3> HIDE DEF rest, m
    <3>9. Agree(Stored(stored, q), Wanted(Wanted(wanted, Defaults), said),
                Strayed(strayed, Defaults, said))
      BY <3>1, <3>5, <3>7, <3>8, DefaultsAgree
    <3>10. /\ wanted' = Wanted(Wanted(wanted, Defaults), said)
           /\ strayed' = Strayed(strayed, Defaults, said)
      BY <3>4 DEF Ask
    <3> QED
      BY <3>4, <3>9, <3>10 DEF SettingsAgree
  <2>5. ASSUME NEW s, s = Setting(s.level, s.type, s.value), ReconfigureAllLoggers(s)
        PROVE  SettingsAgree'
    <3> DEFINE q == <<s>>
               k == 1
    <3>1. k \in Nat /\ DOMAIN q = 1 .. k
      OBVIOUS
    <3>2. stored' = Stored(stored, q)
      BY <2>5, ChangeStores
    <3>3. Ask(<< >>, q)
      BY <2>5 DEF ReconfigureAllLoggers
    <3> HIDE DEF q, k
    <3> QED
      BY <2>1, <3>1, <3>2, <3>3
  <2>6. ASSUME NEW s \in Change, ReconfigureAllLoggers(s) PROVE SettingsAgree'
    BY <2>5, <2>6, ChangeAssumption
  <2>7. ASSUME NEW level \in AllLevels, NEW format \in Format,
               ReconfigureAllLoggers(Setting(level, "Format", format))
        PROVE  SettingsAgree'
    <3> DEFINE s == Setting(level, "Format", format)
    <3>1. s = Setting(s.level, s.type, s.value)
      BY SettingFields
    <3>2. ReconfigureAllLoggers(s)
      BY <2>7
    <3> HIDE DEF s
    <3> QED
      BY <2>5, <3>1, <3>2
  <2>8. CASE UNCHANGED vars
    BY <2>8, NothingStored DEF SettingsAgree
  <2> QED
    BY <2>2, <2>3, <2>4, <2>6, <2>7, <2>8 DEF Next
<1> QED
  BY <1>1, <1>2, SettingsInvariance, PTL DEF Spec

\* The logger uses, for every level and type that has not strayed, the value asked
\* for: however the lists are merged, whatever the maps leave out, and whichever
\* files cannot be opened.
THEOREM SettingsTakeEffect == Spec => []EffectiveIsSet
<1>1. SettingsInv /\ SettingsAgree => EffectiveIsSet
  <2> SUFFICES ASSUME SettingsInv, SettingsAgree,
                      NEW l \in Level, NEW type \in ConfigurationType,
                      <<l, type>> \notin strayed
               PROVE  Uses(l, type)
    BY DEF EffectiveIsSet
  <2> DEFINE has == GetConfig(typed[type], l)
             Has(level) == Converted(Setting(level, type, stored[level][type]))
             asked == Converted(Setting(l, type, wanted[l][type]))
             allOpen == \A k \in AllLevels : IsOpen(GetConfig(typed["Filename"], k))
  <2>1. (CASE type = "ToFile" -> (has => Has(l)) /\ (allOpen => has = Has(l))
           [] type \in GlobalTypes -> has = Has(Last(LevelOrder))
           [] type = "Format" -> has.level = l /\ has.userFormat = stored[l][type]
           [] OTHER -> has = Has(l))
    BY InvIsEffective DEF EffectiveIsStored
  <2>2. l \in AllLevels /\ Last(LevelOrder) \in AllLevels
    BY OrderFacts DEF AllLevels
  <2>3. Same(stored, l, type, wanted[l][type])
    BY <2>2 DEF SettingsAgree, Agree
  <2>4. type \notin GlobalTypes => stored[l][type] = wanted[l][type] /\ Has(l) = asked
    BY <2>3 DEF Same
  <2>5. type \in GlobalTypes => Has(Last(LevelOrder)) = asked
    <3> SUFFICES ASSUME type \in GlobalTypes PROVE Has(Last(LevelOrder)) = asked
      OBVIOUS
    <3>1. stored[Last(LevelOrder)][type] = wanted[l][type]
      BY <2>2, <2>3 DEF Same
    <3>2. \A x, v : LET s == Setting(x, type, v)
                    IN  s.type = type /\ s.value = v
      BY SettingFields
    <3>3. \A x, y, v : Converted(Setting(x, type, v)) = Converted(Setting(y, type, v))
      BY <3>2 DEF Converted, GlobalTypes
    <3> QED
      BY <3>1, <3>3
  <2> HIDE DEF has, Has, asked, allOpen
  <2>6. (CASE type = "ToFile" -> (has => asked) /\ (allOpen => has = asked)
           [] type = "Format" -> has.level = l /\ has.userFormat = wanted[l][type]
           [] OTHER -> has = asked)
    <3>1. "ToFile" \notin GlobalTypes /\ "Format" \notin GlobalTypes
      BY DEF GlobalTypes
    <3>2. CASE type = "ToFile"
      BY <2>1, <2>4, <3>1, <3>2
    <3>3. CASE type = "Format"
      BY <2>1, <2>4, <3>1, <3>3
    <3>4. CASE type \in GlobalTypes
      BY <2>1, <2>5, <3>1, <3>4
    <3>5. CASE type \notin GlobalTypes \cup {"ToFile", "Format"}
      BY <2>1, <2>4, <3>5
    <3> QED
      BY <3>2, <3>3, <3>4, <3>5
  <2> QED
    BY <2>6 DEF Uses, has, asked, allOpen
<1> QED
  BY <1>1, SettingsInvariance, SettingsAgreement, PTL

-----------------------------------------------------------------------------
(***************************************************************************)
(* Lines.  A list of pieces is flattened piece by piece.                   *)
(***************************************************************************)

Empty == << >>
Single(x) == <<x>>
Pieces(p, n) == IsList(p, n) /\ \A i \in 1 .. n : \E m : IsList(p[i], m)

\* h goes through the beginnings of the flattened list.
Flattens(h, p, n) ==
  /\ h[0] = Empty
  /\ \A k \in 1 .. n : h[k] = Concat(h[k - 1], p[k])
  /\ \A k \in 0 .. n : \E m : IsList(h[k], m)

LEMMA ListIs ==
  ASSUME NEW s, NEW n, IsList(s, n)
  PROVE  n \in Nat /\ DOMAIN s = 1 .. n /\ Len(s) = n
<1> DEFINE S == {s[i] : i \in 1 .. n}
<1>1. n \in Nat /\ s = [i \in 1 .. n |-> s[i]]
  BY DEF IsList
<1>2. s \in [1 .. n -> S]
  BY <1>1
<1> HIDE DEF S
<1>3. s \in Seq(S) /\ Len(s) = n
  BY <1>1, <1>2
<1> QED
  BY <1>1, <1>3

LEMMA SameList ==
  ASSUME NEW a, NEW b, NEW n, IsList(a, n), IsList(b, n), \A i \in 1 .. n : a[i] = b[i]
  PROVE  a = b
BY DEF IsList

LEMMA EmptyIs ==
  /\ IsList(Empty, 0)
  /\ \A s : IsList(s, 0) => s = Empty
<1>1. \A s : IsList(s, 0) => s = Empty
  <2> SUFFICES ASSUME NEW s, IsList(s, 0) PROVE s = Empty
    OBVIOUS
  <2>1. s \in Seq({}) /\ Len(s) = 0
    BY DEF IsList
  <2> QED
    BY <2>1 DEF Empty
<1>2. IsList(Empty, 0)
  BY DEF Empty, IsList
<1> QED
  BY <1>1, <1>2

LEMMA SingleIs ==
  ASSUME NEW x
  PROVE  IsList(Single(x), 1) /\ Single(x)[1] = x
BY DEF IsList, Single

\* c is a and then b.
Joined(c, a, n, b, m) ==
  /\ IsList(c, n + m)
  /\ \A i \in 1 .. n : c[i] = a[i]
  /\ \A i \in 1 .. m : c[n + i] = b[i]

LEMMA Joins ==
  ASSUME NEW a, NEW n, IsList(a, n), NEW b, NEW m, IsList(b, m)
  PROVE  Joined(Concat(a, b), a, n, b, m)
BY ConcatIs DEF Joined

LEMMA ConcatEmpty ==
  ASSUME NEW s, NEW n, IsList(s, n)
  PROVE  Concat(s, Empty) = s /\ Concat(Empty, s) = s
<1> DEFINE e == Empty
           z == 0
<1>1. IsList(e, z) /\ z \in Nat
  BY EmptyIs
<1>2. n \in Nat /\ n + z = n /\ z + n = n /\ \A i \in 1 .. n : z + i = i
  BY ListIs
<1> HIDE DEF z, e
<1>3. IsList(Concat(s, e), n + z) /\ \A i \in 1 .. n : Concat(s, e)[i] = s[i]
  BY <1>1, Joins DEF Joined
<1>4. IsList(Concat(e, s), z + n) /\ \A i \in 1 .. n : Concat(e, s)[z + i] = s[i]
  <2>1. Joined(Concat(e, s), e, z, s, n)
    BY <1>1, Joins
  <2> QED
    BY <2>1 DEF Joined
<1>5. /\ IsList(Concat(s, e), n) /\ IsList(Concat(e, s), n)
      /\ \A i \in 1 .. n : Concat(e, s)[i] = s[i]
  BY <1>2, <1>3, <1>4
<1>6. Concat(s, e) = s /\ Concat(e, s) = s
  BY <1>3, <1>5, SameList
<1> QED
  BY <1>6 DEF e

\* The recursive function that FlattenSeq defines exists.
LEMMA FlattenExists ==
  ASSUME NEW p, NEW n \in Nat
  PROVE  \E f : f = [i \in 1 .. n |-> IF i = 1 THEN p[i] ELSE Concat(f[i - 1], p[i])]
<1> DEFINE Good(f, k) == f = [i \in 1 .. k |-> IF i = 1 THEN p[i] ELSE Concat(f[i - 1], p[i])]
           S == {k \in 0 .. n : \E f : Good(f, k)}
<1>1. 0 \in S
  <2>1. Good([i \in 1 .. 0 |-> p[i]], 0)
    OBVIOUS
  <2> HIDE DEF Good
  <2> QED
    BY <2>1
<1>2. ASSUME NEW k \in 0 .. n - 1, k \in S PROVE k + 1 \in S
  <2>1. PICK f : Good(f, k)
    BY <1>2
  <2>2. \A i \in 1 .. k : f[i] = IF i = 1 THEN p[i] ELSE Concat(f[i - 1], p[i])
    BY <2>1
  <2> DEFINE g == [i \in 1 .. k + 1 |->
                    IF i = 1 THEN p[i] ELSE Concat(f[i - 1], p[i])]
  <2>3. \A i \in 1 .. k : g[i] = f[i]
    BY <2>2
  <2>4. \A i \in 1 .. k + 1 : i # 1 => i - 1 \in 1 .. k
    OBVIOUS
  <2>5. \A i \in 1 .. k + 1 : g[i] = IF i = 1 THEN p[i] ELSE Concat(g[i - 1], p[i])
    <3> SUFFICES ASSUME NEW i \in 1 .. k + 1
                 PROVE  g[i] = IF i = 1 THEN p[i] ELSE Concat(g[i - 1], p[i])
      OBVIOUS
    <3>1. g[i] = IF i = 1 THEN p[i] ELSE Concat(f[i - 1], p[i])
      OBVIOUS
    <3> HIDE DEF g
    <3> QED
      BY <2>3, <2>4, <3>1
  <2>6. g = [i \in 1 .. k + 1 |-> g[i]]
    OBVIOUS
  <2> HIDE DEF g
  <2>7. Good(g, k + 1)
    BY <2>5, <2>6
  <2> QED
    BY <2>7
<1>3. S = 0 .. n
  <2>1. S \in SUBSET (0 .. n)
    OBVIOUS
  <2> HIDE DEF S
  <2> QED
    BY <1>1, <1>2, <2>1, InductionTo
<1>4. n \in S
  <2> HIDE DEF S
  <2> QED
    BY <1>3
<1> QED
  BY <1>4

LEMMA FlattenSteps ==
  ASSUME NEW p, NEW n, Pieces(p, n)
  PROVE  \E h : Flattens(h, p, n) /\ FlattenSeq(p) = h[n]
<1>1. n \in Nat /\ DOMAIN p = 1 .. n /\ Len(p) = n /\ IsList(p, n)
  BY ListIs DEF Pieces
<1>2. \A i \in 1 .. n : \E m : IsList(p[i], m)
  BY DEF Pieces
<1> DEFINE f == CHOOSE f : f = [i \in 1 .. Len(p) |->
                                 IF i = 1 THEN p[i] ELSE f[i - 1] \o p[i]]
           h == [k \in 0 .. n |-> IF k = 0 THEN Empty ELSE f[k]]
<1>3. f = [i \in 1 .. n |-> IF i = 1 THEN p[i] ELSE Concat(f[i - 1], p[i])]
  <2>1. PICK g : g = [i \in 1 .. n |-> IF i = 1 THEN p[i] ELSE Concat(g[i - 1], p[i])]
    BY <1>1, FlattenExists
  <2>2. g = [i \in 1 .. Len(p) |-> IF i = 1 THEN p[i] ELSE g[i - 1] \o p[i]]
    BY <1>1, <2>1 DEF Concat
  <2>3. f = [i \in 1 .. Len(p) |-> IF i = 1 THEN p[i] ELSE f[i - 1] \o p[i]]
    BY <2>2, Zenon
  <2> HIDE DEF f
  <2> QED
    BY <1>1, <2>3 DEF Concat
<1>4. FlattenSeq(p) = IF n = 0 THEN p ELSE f[n]
  BY <1>1 DEF FlattenSeq
<1> HIDE DEF f
<1>5. \A i \in 1 .. n : f[i] = IF i = 1 THEN p[i] ELSE Concat(f[i - 1], p[i])
  BY <1>3
<1>6. h[0] = Empty /\ \A k \in 1 .. n : h[k] = f[k]
  BY <1>1
<1>7. FlattenSeq(p) = h[n]
  BY <1>1, <1>4, <1>6, EmptyIs
<1> HIDE DEF h
<1>8. ASSUME NEW k \in 1 .. n PROVE h[k] = Concat(h[k - 1], p[k])
  <2>1. CASE k = 1
    <3>1. h[k] = p[k] /\ h[k - 1] = Empty
      BY <1>5, <1>6, <2>1
    <3>2. PICK m : IsList(p[k], m)
      BY <1>2
    <3> QED
      BY <3>1, <3>2, ConcatEmpty
  <2>2. CASE k # 1
    <3>1. k - 1 \in 1 .. n
      BY <1>1, <2>2
    <3> QED
      BY <1>5, <1>6, <2>2, <3>1
  <2> QED
    BY <2>1, <2>2
<1> DEFINE S == {k \in 0 .. n : \E m : IsList(h[k], m)}
<1>9. S = 0 .. n
  <2>1. 0 \in S
    BY <1>1, <1>6, EmptyIs
  <2>2. ASSUME NEW k \in 0 .. n - 1, k \in S PROVE k + 1 \in S
    <3>1. PICK m : IsList(h[k], m)
      BY <2>2
    <3>2. k + 1 \in 1 .. n /\ (k + 1) - 1 = k
      BY <1>1
    <3>3. PICK l : IsList(p[k + 1], l)
      BY <1>2, <3>2
    <3>4. h[k + 1] = Concat(h[k], p[k + 1])
      BY <1>8, <3>2
    <3>5. IsList(h[k + 1], m + l)
      BY <3>1, <3>3, <3>4, ConcatIs
    <3> QED
      BY <3>2, <3>5
  <2>3. S \in SUBSET (0 .. n)
    OBVIOUS
  <2> HIDE DEF S
  <2> QED
    BY <1>1, <2>1, <2>2, <2>3, InductionTo
<1>10. \A k \in 0 .. n : \E m : IsList(h[k], m)
  BY <1>9
<1> QED
  BY <1>6, <1>7, <1>8, <1>10 DEF Flattens
LEMMA FlattenSingles ==
  ASSUME NEW g, NEW n, IsList(g, n), NEW p, IsList(p, n), \A i \in 1 .. n : p[i] = Single(g[i])
  PROVE  FlattenSeq(p) = g
<1>1. n \in Nat
  BY ListIs
<1>2. \A i \in 1 .. n : IsList(p[i], 1) /\ p[i][1] = g[i]
  BY SingleIs
<1>3. Pieces(p, n)
  BY <1>2 DEF Pieces
<1>4. PICK h : Flattens(h, p, n) /\ FlattenSeq(p) = h[n]
  BY <1>3, FlattenSteps
<1>5. h[0] = Empty /\ \A k \in 1 .. n : h[k] = Concat(h[k - 1], p[k])
  BY <1>4 DEF Flattens
<1> DEFINE Good(k) == IsList(h[k], k) /\ \A i \in 1 .. k : h[k][i] = g[i]
           S == {k \in 0 .. n : Good(k)}
<1>6. 0 \in S
  BY <1>1, <1>5, EmptyIs
<1>7. ASSUME NEW k \in 0 .. n - 1, k \in S PROVE k + 1 \in S
  <2> DEFINE one == 1
  <2>1. k + 1 \in 1 .. n /\ (k + 1) - 1 = k /\ k \in Nat /\ one = 1
    BY <1>1
  <2>2. h[k + 1] = Concat(h[k], p[k + 1])
    BY <1>5, <2>1
  <2>3. IsList(h[k], k) /\ IsList(p[k + 1], one)
    BY <1>2, <1>7, <2>1
  <2> HIDE DEF one
  <2>4. Joined(Concat(h[k], p[k + 1]), h[k], k, p[k + 1], one)
    BY <2>3, Joins
  <2>5. \A i \in 1 .. k : h[k + 1][i] = h[k][i]
    BY <2>2, <2>4 DEF Joined
  <2>6. \A i \in 1 .. one : h[k + 1][k + i] = p[k + 1][i]
    BY <2>2, <2>4 DEF Joined
  <2>7. h[k + 1][k + 1] = g[k + 1]
    BY <1>2, <2>1, <2>2, <2>6
  <2>8. \A i \in 1 .. k : h[k + 1][i] = g[i]
    BY <1>7, <2>2, <2>5
  <2>9. IsList(h[k + 1], k + 1)
    BY <2>1, <2>2, <2>4 DEF Joined
  <2>10. \A i \in 1 .. k + 1 : i \in 1 .. k \/ i = k + 1
    BY <2>1
  <2>11. Good(k + 1)
    BY <2>7, <2>8, <2>9, <2>10
  <2> HIDE DEF Good
  <2> QED
    BY <1>1, <2>1, <2>11
<1>8. S = 0 .. n
  <2>1. S \in SUBSET (0 .. n)
    OBVIOUS
  <2> HIDE DEF S
  <2> QED
    BY <1>1, <1>6, <1>7, <2>1, InductionTo
<1>9. Good(n)
  <2> HIDE DEF Good
  <2> QED
    BY <1>1, <1>8
<1> QED
  BY <1>4, <1>9, SameList

\* Escape marks aside.
Bare(s) == [i \in DOMAIN s |-> Unmarked(s[i])]

LEMMA BareIs ==
  ASSUME NEW s, NEW n, IsList(s, n)
  PROVE  IsList(Bare(s), n) /\ \A i \in 1 .. n : Bare(s)[i] = Unmarked(s[i])
<1>1. n \in Nat /\ DOMAIN s = 1 .. n
  BY ListIs
<1>2. Bare(s) = [i \in 1 .. n |-> Unmarked(s[i])]
  BY <1>1 DEF Bare
<1> QED
  BY <1>1, <1>2 DEF IsList

LEMMA BareConcat ==
  ASSUME NEW a, NEW n, IsList(a, n), NEW b, NEW m, IsList(b, m)
  PROVE  Bare(Concat(a, b)) = Concat(Bare(a), Bare(b))
<1> DEFINE c == Concat(a, b)
           d == Concat(Bare(a), Bare(b))
<1>1. n \in Nat /\ m \in Nat /\ IsList(Bare(a), n) /\ IsList(Bare(b), m)
  BY ListIs, BareIs
<1>2. Joined(c, a, n, b, m) /\ Joined(d, Bare(a), n, Bare(b), m)
  BY <1>1, Joins
<1>3. /\ IsList(c, n + m) /\ IsList(d, n + m)
      /\ \A i \in 1 .. n : c[i] = a[i] /\ d[i] = Bare(a)[i]
      /\ \A i \in 1 .. m : c[n + i] = b[i] /\ d[n + i] = Bare(b)[i]
  BY <1>2 DEF Joined
<1> HIDE DEF c, d
<1>4. /\ \A i \in 1 .. n : Bare(a)[i] = Unmarked(a[i])
      /\ \A i \in 1 .. m : Bare(b)[i] = Unmarked(b[i])
      /\ IsList(Bare(c), n + m)
      /\ \A i \in 1 .. n + m : Bare(c)[i] = Unmarked(c[i])
  BY <1>3, BareIs
<1>5. ASSUME NEW i \in 1 .. n + m PROVE Bare(c)[i] = d[i]
  <2>1. CASE i \in 1 .. n
    BY <1>3, <1>4, <2>1
  <2>2. CASE i \notin 1 .. n
    <3>1. PICK j \in 1 .. m : i = n + j
      <4>1. i - n \in 1 .. m /\ i = n + (i - n)
        BY <1>1, <2>2
      <4> QED
        BY <4>1
    <3> QED
      BY <1>3, <1>4, <3>1
  <2> QED
    BY <2>1, <2>2
<1>6. Bare(c) = d
  BY <1>3, <1>4, <1>5, SameList
<1> QED
  BY <1>6 DEF c, d

\* Where the piece at d is left out.
Shift(k, d) == IF k < d THEN k ELSE k - 1
CountWithout(n, d) == IF d <= n THEN n - 1 ELSE n

LEMMA FlattenMatch ==
  ASSUME NEW n, NEW q, Pieces(q, n), NEW d \in 1 .. n + 1, NEW p, Pieces(p, CountWithout(n, d)),
         d <= n => q[d] = Empty,
         \A k \in 1 .. n : k # d => Bare(q[k]) = Bare(p[Shift(k, d)])
  PROVE  Bare(FlattenSeq(q)) = Bare(FlattenSeq(p))
<1> DEFINE m == CountWithout(n, d)
<1>1. n \in Nat /\ m \in Nat /\ Shift(n, d) = m
  BY ListIs DEF Pieces, CountWithout, Shift
<1>2. /\ \A i \in 1 .. n : \E x : IsList(q[i], x)
      /\ \A i \in 1 .. m : \E x : IsList(p[i], x)
  BY DEF Pieces
<1>3. PICK h : Flattens(h, q, n) /\ FlattenSeq(q) = h[n]
  BY FlattenSteps
<1>4. PICK g : Flattens(g, p, m) /\ FlattenSeq(p) = g[m]
  BY FlattenSteps
<1>5. /\ h[0] = Empty /\ \A k \in 1 .. n : h[k] = Concat(h[k - 1], q[k])
      /\ \A k \in 0 .. n : \E x : IsList(h[k], x)
      /\ g[0] = Empty /\ \A k \in 1 .. m : g[k] = Concat(g[k - 1], p[k])
      /\ \A k \in 0 .. m : \E x : IsList(g[k], x)
  BY <1>3, <1>4 DEF Flattens
<1> DEFINE S == {k \in 0 .. n : Bare(h[k]) = Bare(g[Shift(k, d)])}
<1>6. 0 \in S
  BY <1>1, <1>5 DEF Shift
<1>7. ASSUME NEW k \in 0 .. n - 1, k \in S PROVE k + 1 \in S
  <2>1. k + 1 \in 1 .. n /\ (k + 1) - 1 = k /\ k \in 0 .. n /\ k + 1 \in 0 .. n
    BY <1>1
  <2>2. h[k + 1] = Concat(h[k], q[k + 1])
    BY <1>5, <2>1
  <2>3. Bare(h[k]) = Bare(g[Shift(k, d)])
    BY <1>7
  <2>4. PICK x : IsList(h[k], x)
    BY <1>5, <2>1
  <2>5. CASE k + 1 = d
    <3>1. Shift(k + 1, d) = Shift(k, d) /\ q[k + 1] = Empty
      BY <1>1, <2>1, <2>5 DEF Shift
    <3>2. h[k + 1] = h[k]
      BY <2>2, <2>4, <3>1, ConcatEmpty
    <3> QED
      BY <2>1, <2>3, <3>1, <3>2
  <2>6. CASE k + 1 # d
    <3> DEFINE j == Shift(k, d)
    <3>1. /\ Shift(k + 1, d) = j + 1 /\ j + 1 \in 1 .. m /\ (j + 1) - 1 = j
          /\ j \in 0 .. m
      BY <1>1, <2>1, <2>6 DEF Shift, CountWithout
    <3> HIDE DEF j, m
    <3>2. Bare(q[k + 1]) = Bare(p[j + 1])
      BY <2>1, <2>6, <3>1
    <3>3. g[j + 1] = Concat(g[j], p[j + 1])
      BY <1>5, <3>1
    <3>4. PICK y : IsList(q[k + 1], y)
      BY <1>2, <2>1
    <3>5. PICK z : IsList(p[j + 1], z)
      BY <1>2, <3>1
    <3>6. PICK w : IsList(g[j], w)
      BY <1>5, <3>1
    <3>7. Bare(h[k + 1]) = Concat(Bare(h[k]), Bare(q[k + 1]))
      BY <2>2, <2>4, <3>4, BareConcat
    <3>8. Bare(g[j + 1]) = Concat(Bare(g[j]), Bare(p[j + 1]))
      BY <3>3, <3>5, <3>6, BareConcat
    <3>9. Bare(h[k]) = Bare(g[j])
      BY <2>3 DEF j
    <3>10. Bare(h[k + 1]) = Bare(g[Shift(k + 1, d)])
      BY <3>1, <3>2, <3>7, <3>8, <3>9
    <3> QED
      BY <2>1, <3>10
  <2> QED
    BY <2>5, <2>6
<1>8. S = 0 .. n
  <2>1. S \in SUBSET (0 .. n)
    OBVIOUS
  <2> HIDE DEF S
  <2> QED
    BY <1>1, <1>6, <1>7, <2>1, InductionTo
<1>9. Bare(h[n]) = Bare(g[Shift(n, d)])
  BY <1>1, <1>8
<1> QED
  BY <1>1, <1>3, <1>4, <1>9

-----------------------------------------------------------------------------
(***************************************************************************)
(* Formats.  Every specifier is replaced in a pass of its own.  Reached    *)
(* says how far the passes are: what leads its kind has its value when it  *)
(* is done, and everything else is what it was, but for escape marks.      *)
(***************************************************************************)

LEMMA MarkSteps ==
  ASSUME NEW base, NEW list, NEW n \in Nat, DOMAIN list = 1 .. n
  PROVE  \E h : Steps(h, "ConditionalAddFlag", base, list, n) /\
                FoldLeft(ConditionalAddFlag, base, list) = h[n]
<1> DEFINE iter == CHOOSE f : f = [s \in SUBSET DOMAIN list |->
                     IF s = {} THEN base
                     ELSE ConditionalAddFlag(f[s \ {Max(s)}], list[Max(s)])]
<1>1. FoldLeft(ConditionalAddFlag, base, list) = iter[DOMAIN list]
  BY DEF FoldLeft, MapThenFoldSet
<1>2. PICK f : Solves(f, "ConditionalAddFlag", base, list, n)
  BY FoldExists
<1>3. f = [s \in SUBSET DOMAIN list |->
            IF s = {} THEN base ELSE ConditionalAddFlag(f[s \ {Max(s)}], list[Max(s)])]
  BY <1>2 DEF Solves, Step
<1>4. iter = [s \in SUBSET DOMAIN list |->
               IF s = {} THEN base ELSE ConditionalAddFlag(iter[s \ {Max(s)}], list[Max(s)])]
  BY <1>3, Zenon
<1> HIDE DEF iter
<1>5. Solves(iter, "ConditionalAddFlag", base, list, n)
  BY <1>4 DEF Solves, Step
<1> QED
  BY <1>1, <1>5, FoldSteps

\* h goes through the formats of UpdateFormatSpec.
Substitutions(h, level, flags, base, names, n) ==
  /\ h[0] = base
  /\ \A k \in 1 .. n : h[k] = Substituted(level, flags, h[k - 1], names[k])

LevelSpecifiers == <<"level", "levshort", "user", "host">>
LEMMA SubstituteSteps ==
  ASSUME NEW level, level # "Global", NEW flags, NEW base, NEW n \in Nat,
         DOMAIN LevelSpecifiers = 1 .. n
  PROVE  \E h : /\ Substitutions(h, level, flags, base, LevelSpecifiers, n)
                /\ UpdateFormatSpec(level, base, flags) = h[n]
<1> DEFINE names == LevelSpecifiers
           list == [i \in 1 .. n |-> [level |-> level, flags |-> flags, name |-> names[i]]]
           Of(x, e) == Substituted(e.level, e.flags, x, e.name)
           iter == CHOOSE f : f = [s \in SUBSET DOMAIN names |->
                     IF s = {} THEN base ELSE Substituted(level, flags, f[s \ {Max(s)}], names[Max(s)])]
<1>0. DOMAIN names = 1 .. n
  OBVIOUS
<1>1. UpdateFormatSpec(level, base, flags) = iter[DOMAIN names]
  BY DEF UpdateFormatSpec, LevelSpecifiers, FoldLeft, MapThenFoldSet
<1> HIDE DEF names
<1>2. \A i \in 1 .. n : /\ list[i].level = level /\ list[i].flags = flags
                        /\ list[i].name = names[i]
  OBVIOUS
<1> HIDE DEF list
<1>3. \A f : (\A s \in SUBSET (1 .. n) : s # {} =>
               Of(f[s \ {Max(s)}], list[Max(s)]) =
               Substituted(level, flags, f[s \ {Max(s)}], names[Max(s)]))
  <2> SUFFICES ASSUME NEW f, NEW s \in SUBSET (1 .. n), s # {}
               PROVE  Of(f[s \ {Max(s)}], list[Max(s)]) =
                      Substituted(level, flags, f[s \ {Max(s)}], names[Max(s)])
    OBVIOUS
  <2>1. Max(s) \in 1 .. n
    BY TopOf
  <2> QED
    BY <1>2, <2>1
<1>4. PICK f : Solves(f, "Substituted", base, list, n)
  BY FoldExists
<1>5. f = [s \in SUBSET (1 .. n) |->
            IF s = {} THEN base ELSE Of(f[s \ {Max(s)}], list[Max(s)])]
  BY <1>4 DEF Solves, Step
<1> HIDE DEF Of
<1>6. f = [s \in SUBSET DOMAIN names |->
            IF s = {} THEN base ELSE Substituted(level, flags, f[s \ {Max(s)}], names[Max(s)])]
  BY <1>0, <1>3, <1>5
<1>7. iter = [s \in SUBSET DOMAIN names |->
               IF s = {} THEN base ELSE Substituted(level, flags, iter[s \ {Max(s)}], names[Max(s)])]
  BY <1>6, Zenon
<1> HIDE DEF iter
<1>8. iter = [s \in SUBSET (1 .. n) |->
               IF s = {} THEN base ELSE Of(iter[s \ {Max(s)}], list[Max(s)])]
  BY <1>0, <1>3, <1>7
<1>9. Solves(iter, "Substituted", base, list, n)
  BY <1>8 DEF Solves, Step, Of
<1>10. PICK h : Steps(h, "Substituted", base, list, n) /\ h[n] = iter[1 .. n]
  BY <1>9, FoldSteps
<1>11. h[0] = base /\ \A k \in 1 .. n : h[k] = Of(h[k - 1], list[k])
  BY <1>10 DEF Steps, Step, Of
<1>12. Substitutions(h, level, flags, base, names, n)
  BY <1>2, <1>11 DEF Substitutions, Of
<1>13. UpdateFormatSpec(level, base, flags) = h[n]
  BY <1>0, <1>1, <1>10
<1> QED
  BY <1>12, <1>13, Zenon DEF names

\* h goes through the lines of BuildLine.
Additions(h, logFormat, level, message, base, names, n) ==
  /\ h[0] = base
  /\ \A k \in 1 .. n : h[k] = WithValue(logFormat, level, message, h[k - 1], names[k])

LEMMA AddSteps ==
  ASSUME NEW logFormat, NEW level, NEW message, NEW n \in Nat,
         DOMAIN BuildOrder = 1 .. n
  PROVE  \E h : /\ Additions(h, logFormat, level, message, logFormat.format, BuildOrder, n)
                /\ BuildLine(logFormat, level, message) = h[n]
<1> DEFINE names == BuildOrder
           base == logFormat.format
           list == [i \in 1 .. n |-> [logFormat |-> logFormat, level |-> level,
                                      message |-> message, name |-> names[i]]]
           Of(x, e) == WithValue(e.logFormat, e.level, e.message, x, e.name)
           iter == CHOOSE f : f = [s \in SUBSET DOMAIN names |->
                     IF s = {} THEN base
                     ELSE WithValue(logFormat, level, message, f[s \ {Max(s)}], names[Max(s)])]
<1>0. DOMAIN names = 1 .. n
  OBVIOUS
<1>1. BuildLine(logFormat, level, message) = iter[DOMAIN names]
  BY DEF BuildLine, FoldLeft, MapThenFoldSet
<1> HIDE DEF names, base
<1>2. \A i \in 1 .. n : /\ list[i].logFormat = logFormat /\ list[i].level = level
                        /\ list[i].message = message /\ list[i].name = names[i]
  OBVIOUS
<1> HIDE DEF list
<1>3. \A f : (\A s \in SUBSET (1 .. n) : s # {} =>
               Of(f[s \ {Max(s)}], list[Max(s)]) =
               WithValue(logFormat, level, message, f[s \ {Max(s)}], names[Max(s)]))
  <2> SUFFICES ASSUME NEW f, NEW s \in SUBSET (1 .. n), s # {}
               PROVE  Of(f[s \ {Max(s)}], list[Max(s)]) =
                      WithValue(logFormat, level, message, f[s \ {Max(s)}], names[Max(s)])
    OBVIOUS
  <2>1. Max(s) \in 1 .. n
    BY TopOf
  <2> QED
    BY <1>2, <2>1
<1>4. PICK f : Solves(f, "WithValue", base, list, n)
  BY FoldExists
<1>5. f = [s \in SUBSET (1 .. n) |->
            IF s = {} THEN base ELSE Of(f[s \ {Max(s)}], list[Max(s)])]
  BY <1>4 DEF Solves, Step
<1> HIDE DEF Of
<1>6. f = [s \in SUBSET DOMAIN names |->
            IF s = {} THEN base
            ELSE WithValue(logFormat, level, message, f[s \ {Max(s)}], names[Max(s)])]
  BY <1>0, <1>3, <1>5
<1>7. iter = [s \in SUBSET DOMAIN names |->
               IF s = {} THEN base
               ELSE WithValue(logFormat, level, message, iter[s \ {Max(s)}], names[Max(s)])]
  BY <1>6, Zenon
<1> HIDE DEF iter
<1>8. iter = [s \in SUBSET (1 .. n) |->
               IF s = {} THEN base ELSE Of(iter[s \ {Max(s)}], list[Max(s)])]
  BY <1>0, <1>3, <1>7
<1>9. Solves(iter, "WithValue", base, list, n)
  BY <1>8 DEF Solves, Step, Of
<1>10. PICK h : Steps(h, "WithValue", base, list, n) /\ h[n] = iter[1 .. n]
  BY <1>9, FoldSteps
<1>11. h[0] = base /\ \A k \in 1 .. n : h[k] = Of(h[k - 1], list[k])
  BY <1>10 DEF Steps, Step, Of
<1>12. Additions(h, logFormat, level, message, base, names, n)
  BY <1>2, <1>11 DEF Additions, Of
<1>13. BuildLine(logFormat, level, message) = h[n]
  BY <1>0, <1>1, <1>10
<1> QED
  BY <1>12, <1>13, Zenon DEF names, base

\* A pass over b is about one name of a specifier; V has the values.
Tokens(b, n) == IsList(b, n) /\ \A i \in 1 .. n : b[i] \in Token
Values(V) ==
  \A x \in SpecifierName : \A k : /\ V[x] # Escaped(k)
                                  /\ V[x] = Specifier(k) => k = x
Leads(b, i) == b[i][1] = "spec" /\ \A j \in 1 .. i - 1 : b[j] # b[i]
Lost(b, i, token, done) ==
  \E x \in SpecifierName :
    /\ b[i] = Escaped(x) /\ token = Specifier(x)
    /\ x \in done \/ \E j \in 1 .. i - 1 : b[j] = Specifier(x)
Reached(b, n, g, done, V) ==
  /\ IsList(g, n)
  /\ \A i \in 1 .. n : Leads(b, i) /\ b[i][2] \in done => g[i] = V[b[i][2]]
  /\ \A i \in 1 .. n : ~(Leads(b, i) /\ b[i][2] \in done) =>
                         g[i] = b[i] \/ Lost(b, i, g[i], done)

LEMMA TokensDiffer ==
  \A x, y : /\ Specifier(x) # Escaped(y)
            /\ Specifier(x) = Specifier(y) => x = y
            /\ Escaped(x) = Escaped(y) => x = y
            /\ Specifier(x)[1] = "spec" /\ Specifier(x)[2] = x
            /\ Escaped(x)[1] = "escaped" /\ Escaped(x)[2] = x
<1> SUFFICES ASSUME NEW x, NEW y
             PROVE  /\ Specifier(x) # Escaped(y)
                    /\ Specifier(x) = Specifier(y) => x = y
                    /\ Escaped(x) = Escaped(y) => x = y
                    /\ Specifier(x)[1] = "spec" /\ Specifier(x)[2] = x
                    /\ Escaped(x)[1] = "escaped" /\ Escaped(x)[2] = x
  OBVIOUS
<1>1. /\ Specifier(x)[1] = "spec" /\ Specifier(x)[2] = x
      /\ Escaped(x)[1] = "escaped" /\ Escaped(x)[2] = x
      /\ Escaped(y)[1] = "escaped" /\ Escaped(y)[2] = y
      /\ Specifier(y)[2] = y
  BY DEF Specifier, Escaped
<1>2. "spec" # "escaped"
  OBVIOUS
<1> QED
  BY <1>1, <1>2, Zenon

LEMMA TokenIs ==
  ASSUME NEW t \in Token
  PROVE  /\ t[1] = "spec" => t[2] \in SpecifierName /\ t = Specifier(t[2])
         /\ t[1] = "escaped" => t[2] \in SpecifierName /\ t = Escaped(t[2])
         /\ t[1] \in {"spec", "escaped", "date", "value"}
BY DEF Token, Specifier, Escaped

\* Where a name first occurs, one behind the end when it does not.
First(g, n, name, at) ==
  /\ at \in 1 .. n + 1
  /\ at <= n => g[at] = Specifier(name)
  /\ \A i \in 1 .. n : i < at => g[i] # Specifier(name)

LEMMA FirstIs ==
  ASSUME NEW g, NEW n, IsList(g, n), NEW name
  PROVE  First(g, n, name, FirstOf(g, name))
<1> DEFINE U == Unescaped(g, name)
<1>1. n \in Nat /\ DOMAIN g = 1 .. n /\ Len(g) = n
  BY ListIs
<1>2. U = {i \in 1 .. n : g[i] = Specifier(name)}
  BY <1>1 DEF Unescaped
<1>3. FirstOf(g, name) = IF U = {} THEN n + 1 ELSE Min(U)
  BY <1>1 DEF FirstOf
<1>4. U \in SUBSET (1 .. n)
  BY <1>2
<1> HIDE DEF U
<1>5. CASE U = {}
  BY <1>1, <1>2, <1>3, <1>5 DEF First
<1>6. CASE U # {}
  <2>1. Min(U) \in U /\ \A x \in U : Min(U) <= x
    BY <1>1, <1>4, <1>6, BottomOf
  <2>2. Min(U) \in 1 .. n /\ g[Min(U)] = Specifier(name)
    BY <1>2, <2>1
  <2>3. ASSUME NEW i \in 1 .. n, i < Min(U) PROVE g[i] # Specifier(name)
    <3> SUFFICES ASSUME g[i] = Specifier(name) PROVE FALSE
      OBVIOUS
    <3>1. Min(U) <= i
      BY <1>2, <2>1
    <3> QED
      BY <2>2, <2>3, <3>1
  <2>4. FirstOf(g, name) = Min(U)
    BY <1>3, <1>6
  <2> HIDE DEF First
  <2> QED
    BY <1>1, <2>2, <2>3, <2>4 DEF First
<1> QED
  BY <1>5, <1>6

LEMMA FirstReached ==
  ASSUME NEW b, NEW n, Tokens(b, n), NEW V, Values(V), NEW done, NEW g, Reached(b, n, g, done, V),
         NEW name \in SpecifierName \ done, NEW at, First(g, n, name, at)
  PROVE  /\ First(b, n, name, at)
         /\ \A i \in 1 .. n : b[i] = Specifier(name) => (i = at <=> Leads(b, i))
         /\ at <= n => Leads(b, at)
<1>1. n \in Nat /\ \A i \in 1 .. n : b[i] \in Token
  BY ListIs DEF Tokens
<1>2. ASSUME NEW i \in 1 .. n, b[i] = Specifier(name) PROVE g[i] = Specifier(name)
  <2>1. b[i][2] = name
    BY <1>2, TokensDiffer
  <2>2. g[i] = b[i] \/ Lost(b, i, g[i], done)
    BY <2>1 DEF Reached
  <2> QED
    BY <1>2, <2>2, TokensDiffer DEF Lost
<1>3. ASSUME NEW i \in 1 .. n, g[i] = Specifier(name)
      PROVE  b[i] = Specifier(name) \/ \E j \in 1 .. i - 1 : b[j] = Specifier(name)
  <2>1. CASE Leads(b, i) /\ b[i][2] \in done
    <3>1. g[i] = V[b[i][2]]
      BY <2>1 DEF Reached
    <3>2. b[i][2] \in SpecifierName
      BY <1>1, <2>1, TokenIs DEF Leads
    <3>3. name = b[i][2]
      BY <1>3, <3>1, <3>2 DEF Values
    <3> QED
      BY <2>1, <3>3
  <2>2. CASE ~(Leads(b, i) /\ b[i][2] \in done)
    <3>1. g[i] = b[i] \/ Lost(b, i, g[i], done)
      BY <2>2 DEF Reached
    <3> QED
      BY <1>3, <3>1, TokensDiffer DEF Lost
  <2> QED
    BY <2>1, <2>2
<1>4. /\ at \in 1 .. n + 1
      /\ at <= n => g[at] = Specifier(name)
      /\ \A i \in 1 .. n : i < at => g[i] # Specifier(name)
  BY DEF First
<1>5. \A i \in 1 .. n : i < at => b[i] # Specifier(name)
  BY <1>2, <1>4
<1>6. at <= n => b[at] = Specifier(name)
  <2> SUFFICES ASSUME at <= n, b[at] # Specifier(name) PROVE FALSE
    OBVIOUS
  <2>1. at \in 1 .. n
    BY <1>1, <1>4
  <2>2. PICK j \in 1 .. at - 1 : b[j] = Specifier(name)
    BY <1>3, <1>4, <2>1
  <2>3. j \in 1 .. n /\ j < at
    BY <1>1, <1>4, <2>1
  <2> QED
    BY <1>5, <2>2, <2>3
<1>7. First(b, n, name, at)
  BY <1>4, <1>5, <1>6 DEF First
<1>8. ASSUME NEW i \in 1 .. n, b[i] = Specifier(name) PROVE i = at <=> Leads(b, i)
  <2>1. b[i][1] = "spec"
    BY <1>8, TokensDiffer
  <2>2. at <= i
    BY <1>1, <1>4, <1>5, <1>8
  <2>3. at \in 1 .. n /\ b[at] = b[i]
    BY <1>1, <1>4, <1>6, <1>8, <2>2
  <2>4. i = at => \A j \in 1 .. i - 1 : b[j] # b[i]
    BY <1>1, <1>5, <1>8
  <2>5. i # at => at \in 1 .. i - 1
    BY <1>1, <2>2, <2>3
  <2> QED
    BY <2>1, <2>3, <2>4, <2>5 DEF Leads
<1>9. at <= n => Leads(b, at)
  BY <1>1, <1>4, <1>6, <1>8
<1> QED
  BY <1>7, <1>8, <1>9

LEMMA LostMore ==
  ASSUME NEW b, NEW i, NEW token, NEW done, NEW more, done \subseteq more,
         Lost(b, i, token, done)
  PROVE  Lost(b, i, token, more)
BY DEF Lost

LEMMA UndoneReached ==
  ASSUME NEW b, NEW n, NEW V, Tokens(b, n), Values(V), NEW done, NEW g, Reached(b, n, g, done, V),
         NEW i \in 1 .. n, NEW name \in SpecifierName, g[i] = Escaped(name)
  PROVE  ~(Leads(b, i) /\ b[i][2] \in done) /\ b[i] = Escaped(name)
<1>1. b[i] \in Token
  BY DEF Tokens
<1>2. ~(Leads(b, i) /\ b[i][2] \in done)
  <2> SUFFICES ASSUME Leads(b, i), b[i][2] \in done PROVE FALSE
    OBVIOUS
  <2>1. g[i] = V[b[i][2]]
    BY DEF Reached
  <2>2. b[i][2] \in SpecifierName
    BY <1>1, TokenIs DEF Leads
  <2> QED
    BY <2>1, <2>2 DEF Values
<1>3. g[i] = b[i] \/ Lost(b, i, g[i], done)
  BY <1>2 DEF Reached
<1> QED
  BY <1>2, <1>3, TokensDiffer DEF Lost

\* Setting the flag of a specifier.
LEMMA MarkReached ==
  ASSUME NEW b, NEW n, Tokens(b, n), NEW V, Values(V), NEW done, NEW g, Reached(b, n, g, done, V),
         NEW name \in SpecifierName \ done
  PROVE  Reached(b, n, ConditionalAddFlag(g, name), done, V)
<1> DEFINE G == ConditionalAddFlag(g, name)
           at == FirstOf(g, name)
<1>1. IsList(g, n) /\ n \in Nat /\ DOMAIN g = 1 .. n
  BY ListIs DEF Reached
<1>2. G = [i \in 1 .. n |->
            IF i > at /\ g[i] = Escaped(name) THEN Specifier(name) ELSE g[i]]
  BY <1>1 DEF ConditionalAddFlag
<1>3. First(g, n, name, at)
  BY <1>1, FirstIs
<1> HIDE DEF G, at
<1>4. First(b, n, name, at) /\ (at <= n => Leads(b, at))
  BY <1>3, FirstReached
<1>5. IsList(G, n)
  BY <1>1, <1>2 DEF IsList
<1>6. ASSUME NEW i \in 1 .. n, i > at, g[i] = Escaped(name)
      PROVE  ~(Leads(b, i) /\ b[i][2] \in done) /\ Lost(b, i, G[i], done)
  <2>1. ~(Leads(b, i) /\ b[i][2] \in done) /\ b[i] = Escaped(name)
    BY <1>6, UndoneReached
  <2>2. G[i] = Specifier(name)
    BY <1>2, <1>6
  <2>3. at \in 1 .. i - 1 /\ b[at] = Specifier(name)
    BY <1>1, <1>4, <1>6 DEF First
  <2> QED
    BY <2>1, <2>2, <2>3 DEF Lost
<1>7. ASSUME NEW i \in 1 .. n, ~(i > at /\ g[i] = Escaped(name))
      PROVE  G[i] = g[i]
  BY <1>2, <1>7
<1>8. ASSUME NEW i \in 1 .. n, Leads(b, i) /\ b[i][2] \in done PROVE G[i] = V[b[i][2]]
  BY <1>6, <1>7, <1>8 DEF Reached
<1>9. ASSUME NEW i \in 1 .. n, ~(Leads(b, i) /\ b[i][2] \in done)
      PROVE  G[i] = b[i] \/ Lost(b, i, G[i], done)
  <2>1. g[i] = b[i] \/ Lost(b, i, g[i], done)
    BY <1>9 DEF Reached
  <2> QED
    BY <1>6, <1>7, <2>1
<1>10. Reached(b, n, G, done, V)
  BY <1>5, <1>8, <1>9 DEF Reached
<1> QED
  BY <1>10 DEF G

\* What is put in the place of a specifier: one token, or a message.
LEMMA ReplaceIs ==
  ASSUME NEW g, NEW n, IsList(g, n), NEW name, NEW v
  PROVE  LET G == ReplaceFirstWithEscape(g, name, Single(v))
             at == FirstOf(g, name)
         IN  /\ IsList(G, n)
             /\ \A i \in 1 .. n :
                  /\ i = at => G[i] = v
                  /\ i < at /\ g[i] = Escaped(name) => G[i] = Specifier(name)
                  /\ i # at /\ ~(i < at /\ g[i] = Escaped(name)) => G[i] = g[i]
<1> DEFINE at == FirstOf(g, name)
           lost(i) == i < at /\ g[i] = Escaped(name)
           q == [i \in 1 .. n |-> IF i = at THEN v
                                  ELSE IF lost(i) THEN Specifier(name) ELSE g[i]]
           p == [i \in 1 .. n |-> CASE i = at -> Single(v)
                                    [] lost(i) -> <<Specifier(name)>>
                                    [] OTHER -> <<g[i]>>]
<1>1. n \in Nat /\ DOMAIN g = 1 .. n
  BY ListIs
<1>2. ReplaceFirstWithEscape(g, name, Single(v)) = FlattenSeq(p)
  BY <1>1 DEF ReplaceFirstWithEscape
<1>3. at \in 1 .. n + 1
  BY FirstIs DEF First
<1> HIDE DEF at
<1>4. ASSUME NEW i \in 1 .. n PROVE p[i] = Single(q[i])
  <2>1. i = at => ~lost(i)
    BY <1>3
  <2> HIDE DEF lost
  <2>2. CASE i = at
    BY <2>1, <2>2
  <2>3. CASE lost(i)
    BY <2>1, <2>3 DEF Single
  <2>4. CASE i # at /\ ~lost(i)
    BY <2>4 DEF Single
  <2> QED
    BY <2>2, <2>3, <2>4
<1>5. IsList(p, n) /\ IsList(q, n)
  BY <1>1 DEF IsList
<1>6. /\ \A i \in 1 .. n : i = at => q[i] = v
      /\ \A i \in 1 .. n : i # at /\ lost(i) => q[i] = Specifier(name)
      /\ \A i \in 1 .. n : i # at /\ ~lost(i) => q[i] = g[i]
  OBVIOUS
<1>7. \A i \in 1 .. n : lost(i) => i # at
  BY <1>3
<1> HIDE DEF p, q
<1>8. FlattenSeq(p) = q
  BY <1>4, <1>5, FlattenSingles
<1> QED
  BY <1>2, <1>5, <1>6, <1>7, <1>8 DEF at

\* A pass that replaces.
LEMMA ReplaceReached ==
  ASSUME NEW b, NEW n, Tokens(b, n), NEW V, Values(V), NEW done, NEW g, Reached(b, n, g, done, V),
         NEW name \in SpecifierName \ done
  PROVE  Reached(b, n, ReplaceFirstWithEscape(g, name, Single(V[name])), done \cup {name}, V)
<1> DEFINE G == ReplaceFirstWithEscape(g, name, Single(V[name]))
           at == FirstOf(g, name)
           more == done \cup {name}
<1>1. IsList(g, n) /\ n \in Nat
  BY ListIs DEF Reached
<1>2. /\ IsList(G, n)
      /\ \A i \in 1 .. n :
           /\ i = at => G[i] = V[name]
           /\ i < at /\ g[i] = Escaped(name) => G[i] = Specifier(name)
           /\ i # at /\ ~(i < at /\ g[i] = Escaped(name)) => G[i] = g[i]
  BY <1>1, ReplaceIs
<1>3. First(g, n, name, at)
  BY <1>1, FirstIs
<1> HIDE DEF G, at
<1>4. /\ First(b, n, name, at) /\ (at <= n => Leads(b, at))
      /\ \A i \in 1 .. n : b[i] = Specifier(name) => (i = at <=> Leads(b, i))
  BY <1>3, FirstReached
<1>5. \A i \in 1 .. n : b[i] \in Token
  BY DEF Tokens
<1>6. \A i \in 1 .. n : i = at => Leads(b, i) /\ b[i][2] = name
  BY <1>1, <1>4, TokensDiffer DEF First
<1>7. ASSUME NEW i \in 1 .. n, Leads(b, i) /\ b[i][2] \in more PROVE G[i] = V[b[i][2]]
  <2>1. CASE b[i][2] = name
    <3>1. b[i] = Specifier(name)
      BY <1>5, <1>7, <2>1, TokenIs DEF Leads
    <3> QED
      BY <1>2, <1>4, <1>7, <2>1, <3>1
  <2>2. CASE b[i][2] # name
    <3>1. b[i][2] \in done /\ i # at
      BY <1>6, <1>7, <2>2
    <3>2. g[i] = V[b[i][2]]
      BY <1>7, <3>1 DEF Reached
    <3>3. g[i] # Escaped(name)
      BY <1>7, <3>1, UndoneReached
    <3> QED
      BY <1>2, <3>1, <3>2, <3>3
  <2> QED
    BY <2>1, <2>2
<1>8. ASSUME NEW i \in 1 .. n, ~(Leads(b, i) /\ b[i][2] \in more)
      PROVE  G[i] = b[i] \/ Lost(b, i, G[i], more)
  <2>1. i # at /\ ~(Leads(b, i) /\ b[i][2] \in done)
    BY <1>6, <1>8
  <2>2. g[i] = b[i] \/ Lost(b, i, g[i], done)
    BY <2>1 DEF Reached
  <2>3. CASE i < at /\ g[i] = Escaped(name)
    <3>1. b[i] = Escaped(name)
      BY <2>3, UndoneReached
    <3>2. G[i] = Specifier(name)
      BY <1>2, <2>3
    <3> QED
      BY <3>1, <3>2 DEF Lost
  <2>4. CASE ~(i < at /\ g[i] = Escaped(name))
    <3>1. G[i] = g[i]
      BY <1>2, <2>1, <2>4
    <3>2. Lost(b, i, g[i], done) => Lost(b, i, g[i], more)
      BY LostMore
    <3> QED
      BY <2>2, <3>1, <3>2
  <2> QED
    BY <2>3, <2>4
<1>9. Reached(b, n, G, more, V)
  BY <1>2, <1>7, <1>8 DEF Reached
<1> QED
  BY <1>9 DEF G

\* A pass that leaves the format as it is.
LEMMA SkipReached ==
  ASSUME NEW b, NEW n, Tokens(b, n), NEW V, Values(V), NEW done, NEW g, Reached(b, n, g, done, V),
         NEW name \in SpecifierName \ done,
         V[name] = Specifier(name) \/ \A i \in 1 .. n : b[i] # Specifier(name)
  PROVE  Reached(b, n, g, done \cup {name}, V)
<1> DEFINE more == done \cup {name}
<1>1. ASSUME NEW i \in 1 .. n, Leads(b, i) /\ b[i][2] \in more PROVE g[i] = V[b[i][2]]
  <2>1. CASE b[i][2] \in done
    BY <1>1, <2>1 DEF Reached
  <2>2. CASE b[i][2] = name
    <3>1. b[i] = Specifier(name)
      BY <1>1, <2>2, TokenIs DEF Tokens, Leads
    <3>2. g[i] = b[i] \/ Lost(b, i, g[i], done)
      BY <2>2 DEF Reached
    <3>3. g[i] = Specifier(name)
      BY <3>1, <3>2, TokensDiffer DEF Lost
    <3> QED
      BY <2>2, <3>1, <3>3
  <2> QED
    BY <1>1, <2>1, <2>2
<1>2. ASSUME NEW i \in 1 .. n, ~(Leads(b, i) /\ b[i][2] \in more)
      PROVE  g[i] = b[i] \/ Lost(b, i, g[i], more)
  <2>1. g[i] = b[i] \/ Lost(b, i, g[i], done)
    BY <1>2 DEF Reached
  <2>2. Lost(b, i, g[i], done) => Lost(b, i, g[i], more)
    BY LostMore
  <2> QED
    BY <2>1, <2>2
<1> QED
  BY <1>1, <1>2 DEF Reached

\* What is left when the token at d is taken out; at n + 1 there is none.
Kept(f, n, d) == [i \in 1 .. CountWithout(n, d) |-> f[IF i < d THEN i ELSE i + 1]]

LEMMA KeptIs ==
  ASSUME NEW f, NEW n \in Nat, NEW d \in 1 .. n + 1
  PROVE  LET m == CountWithout(n, d)
         IN  /\ IsList(Kept(f, n, d), m)
             /\ \A i \in 1 .. m : \E k \in 1 .. n :
                  k # d /\ i = Shift(k, d) /\ Kept(f, n, d)[i] = f[k]
             /\ \A k \in 1 .. n : k # d =>
                  Shift(k, d) \in 1 .. m /\ Kept(f, n, d)[Shift(k, d)] = f[k]
<1> DEFINE m == CountWithout(n, d)
           b == Kept(f, n, d)
           u(i) == IF i < d THEN i ELSE i + 1
<1>1. m \in Nat
  BY DEF CountWithout
<1>2. b = [i \in 1 .. m |-> f[u(i)]]
  BY DEF Kept
<1>3. \A i \in 1 .. m : u(i) \in 1 .. n /\ u(i) # d /\ i = Shift(u(i), d)
  BY DEF CountWithout, Shift
<1>4. \A k \in 1 .. n : k # d => Shift(k, d) \in 1 .. m /\ u(Shift(k, d)) = k
  BY DEF CountWithout, Shift
<1> HIDE DEF b, m, u
<1>5. IsList(b, m) /\ \A i \in 1 .. m : b[i] = f[u(i)]
  BY <1>1, <1>2 DEF IsList
<1>6. /\ \A i \in 1 .. m : \E k \in 1 .. n : k # d /\ i = Shift(k, d) /\ b[i] = f[k]
      /\ \A k \in 1 .. n : k # d => Shift(k, d) \in 1 .. m /\ b[Shift(k, d)] = f[k]
  BY <1>3, <1>4, <1>5
<1> QED
  BY <1>5, <1>6 DEF b, m

LEMMA RemoveAtIs ==
  ASSUME NEW f, NEW n, IsList(f, n), NEW d \in 1 .. n
  PROVE  RemoveAt(f, d) = Kept(f, n, d)
<1> DEFINE S == {f[i] : i \in 1 .. n}
           x == d - 1
           y == n - d
           a == SubSeq(f, 1, d - 1)
           c == SubSeq(f, d + 1, n)
<1>1. n \in Nat /\ DOMAIN f = 1 .. n /\ Len(f) = n
  BY ListIs
<1>2. f \in Seq(S)
  <2>1. f = [i \in 1 .. n |-> f[i]] /\ \A i \in 1 .. n : f[i] \in S
    BY DEF IsList
  <2> HIDE DEF S
  <2> QED
    BY <1>1, <2>1
<1> HIDE DEF S
<1>3. /\ a = [i \in 1 .. x |-> f[i]]
      /\ c = [i \in 1 .. y |-> f[d + i]]
  <2>1. a \in Seq(S) /\ Len(a) = x /\ \A i \in 1 .. x : a[i] = f[i]
    BY <1>1, <1>2
  <2>2. c \in Seq(S) /\ Len(c) = y /\ \A i \in 1 .. y : c[i] = f[d + i]
    BY <1>1, <1>2
  <2> HIDE DEF a, c, x, y
  <2> QED
    BY <2>1, <2>2
<1>4. x \in Nat /\ y \in Nat /\ x + y = CountWithout(n, d) /\ x + 1 = d
  BY <1>1 DEF CountWithout
<1> HIDE DEF a, c, x, y
<1>5. /\ IsList(a, x) /\ IsList(c, y)
      /\ \A i \in 1 .. x : a[i] = f[i]
      /\ \A i \in 1 .. y : c[i] = f[d + i]
  BY <1>3, <1>4 DEF IsList
<1>6. Joined(Concat(a, c), a, x, c, y)
  BY <1>5, Joins
<1>7. /\ IsList(Concat(a, c), x + y)
      /\ \A i \in 1 .. x : Concat(a, c)[i] = f[i]
      /\ \A i \in 1 .. y : Concat(a, c)[x + i] = f[d + i]
  BY <1>5, <1>6 DEF Joined
<1>8. ASSUME NEW i \in 1 .. x + y
      PROVE  Concat(a, c)[i] = f[IF i < d THEN i ELSE i + 1]
  <2>1. CASE i < d
    BY <1>4, <1>7, <2>1
  <2>2. CASE ~(i < d)
    <3>1. i - x \in 1 .. y /\ x + (i - x) = i /\ d + (i - x) = i + 1
      BY <1>4, <2>2
    <3>2. Concat(a, c)[x + (i - x)] = f[d + (i - x)]
      BY <1>7, <3>1
    <3> QED
      BY <2>2, <3>1, <3>2
  <2> QED
    BY <2>1, <2>2
<1>9. Concat(a, c) = Kept(f, n, d)
  BY <1>4, <1>7, <1>8 DEF IsList, Kept
<1>10. RemoveAt(f, d) = Concat(a, c)
  BY <1>1 DEF RemoveAt, Concat, a, c
<1> QED
  BY <1>9, <1>10

\* Taking out the format of the date.
LEMMA KeptLeads ==
  ASSUME NEW f, NEW n, Tokens(f, n), NEW d \in 1 .. n + 1, d <= n => f[d][1] # "spec",
         NEW k \in 1 .. n, k # d
  PROVE  Leads(f, k) <=> Leads(Kept(f, n, d), Shift(k, d))
<1> DEFINE b == Kept(f, n, d)
           m == CountWithout(n, d)
           s(i) == Shift(i, d)
<1>1. n \in Nat
  BY ListIs DEF Tokens
<1>2. /\ \A i \in 1 .. m : \E x \in 1 .. n : x # d /\ i = s(x) /\ b[i] = f[x]
      /\ \A x \in 1 .. n : x # d => s(x) \in 1 .. m /\ b[s(x)] = f[x]
  BY <1>1, KeptIs
<1>3. \A x \in 1 .. n : x # d => (x < k <=> s(x) < s(k))
  BY DEF Shift
<1>4. \A x \in 1 .. n : x # d => s(x) \in Int /\ s(x) >= 1
  BY DEF Shift
<1>5. m \in Nat
  BY <1>1 DEF CountWithout
<1> HIDE DEF b, m, s
<1>6. b[s(k)] = f[k] /\ s(k) \in 1 .. m
  BY <1>2
<1>7. ASSUME Leads(f, k), NEW j \in 1 .. s(k) - 1 PROVE b[j] # b[s(k)]
  <2>1. j \in 1 .. m
    BY <1>5, <1>6
  <2>2. PICK x \in 1 .. n : x # d /\ j = s(x) /\ b[j] = f[x]
    BY <1>2, <2>1
  <2>3. x \in 1 .. k - 1
    BY <1>3, <1>6, <2>1, <2>2
  <2> QED
    BY <1>6, <1>7, <2>2, <2>3 DEF Leads
<1>8. ASSUME Leads(b, s(k)), NEW x \in 1 .. k - 1 PROVE f[x] # f[k]
  <2>1. x \in 1 .. n
    BY <1>1
  <2>2. CASE x = d
    BY <1>6, <1>8, <2>1, <2>2 DEF Leads
  <2>3. CASE x # d
    <3>1. s(x) \in 1 .. s(k) - 1 /\ b[s(x)] = f[x]
      BY <1>2, <1>3, <1>4, <1>6, <2>1, <2>3
    <3> QED
      BY <1>6, <1>8, <3>1 DEF Leads
  <2> QED
    BY <2>2, <2>3
<1>9. Leads(f, k) <=> Leads(b, s(k))
  BY <1>6, <1>7, <1>8 DEF Leads
<1> QED
  BY <1>9 DEF b, s

LEMMA KeptReached ==
  ASSUME NEW f, NEW n, Tokens(f, n), NEW d \in 1 .. n + 1, d <= n => f[d][1] # "spec",
         NEW U, NEW V, NEW g, Reached(f, n, g, {}, U)
  PROVE  /\ Tokens(Kept(f, n, d), CountWithout(n, d))
         /\ Reached(Kept(f, n, d), CountWithout(n, d), Kept(g, n, d), {}, V)
<1> DEFINE b == Kept(f, n, d)
           G == Kept(g, n, d)
           m == CountWithout(n, d)
           s(i) == Shift(i, d)
<1>1. n \in Nat
  BY ListIs DEF Tokens
<1>2. /\ IsList(b, m)
      /\ \A i \in 1 .. m : \E x \in 1 .. n : x # d /\ i = s(x) /\ b[i] = f[x]
      /\ \A x \in 1 .. n : x # d => s(x) \in 1 .. m /\ b[s(x)] = f[x]
  BY <1>1, KeptIs
<1>3. /\ IsList(G, m)
      /\ \A i \in 1 .. m : \E x \in 1 .. n : x # d /\ i = s(x) /\ G[i] = g[x]
      /\ \A x \in 1 .. n : x # d => s(x) \in 1 .. m /\ G[s(x)] = g[x]
  BY <1>1, KeptIs
<1>4. \A x, y \in 1 .. n : x # d /\ y # d => (x < y <=> s(x) < s(y))
  BY DEF Shift
<1>5. \A x \in 1 .. n : x # d => s(x) \in Int /\ s(x) >= 1
  BY DEF Shift
<1> HIDE DEF b, G, m, s
<1>6. Tokens(b, m)
  BY <1>2 DEF Tokens
<1>7. ASSUME NEW i \in 1 .. m PROVE G[i] = b[i] \/ Lost(b, i, G[i], {})
  <2>1. PICK k \in 1 .. n : k # d /\ i = s(k) /\ b[i] = f[k]
    BY <1>2
  <2>2. G[i] = g[k]
    BY <1>3, <2>1
  <2>3. g[k] = f[k] \/ Lost(f, k, g[k], {})
    BY DEF Reached
  <2>4. ASSUME Lost(f, k, g[k], {}) PROVE Lost(b, i, G[i], {})
    <3>1. PICK x \in SpecifierName :
            /\ f[k] = Escaped(x) /\ g[k] = Specifier(x)
            /\ \E j \in 1 .. k - 1 : f[j] = Specifier(x)
      BY <2>4 DEF Lost
    <3>2. PICK j \in 1 .. k - 1 : f[j] = Specifier(x)
      BY <3>1
    <3>3. j \in 1 .. n /\ j < k /\ j # d
      BY <1>1, <3>2, TokensDiffer
    <3>4. s(j) \in 1 .. i - 1 /\ b[s(j)] = Specifier(x)
      BY <1>2, <1>4, <1>5, <2>1, <3>2, <3>3
    <3> QED
      BY <2>1, <2>2, <3>1, <3>4 DEF Lost
  <2> QED
    BY <2>1, <2>2, <2>3, <2>4
<1>8. Reached(b, m, G, {}, V)
  BY <1>3, <1>7 DEF Reached
<1> QED
  BY <1>6, <1>8 DEF b, G, m

-----------------------------------------------------------------------------
(***************************************************************************)
(* The passes of a format, from parsing it to the line.                    *)
(***************************************************************************)

ValuesOf(level, date) ==
  [x \in SpecifierName |->
    IF x \in {"level", "levshort"} THEN <<x, level>>
    ELSE IF x = "datetime" THEN date
    ELSE IF x = "vlevel" /\ level # "Verbose" THEN Specifier(x)
    ELSE Value(x)]

LEMMA NamesAre ==
  /\ SpecifierName = {"app", "level", "levshort", "logger", "thread", "file", "fbase", "line",
                      "loc", "func", "user", "host", "msg", "vlevel", "datetime"}
  /\ DOMAIN Specifiers = 1 .. 14
  /\ \A i \in 1 .. 14 : Specifiers[i] \in SpecifierName
<1> DEFINE k == 14
<1>1. DOMAIN Specifiers = 1 .. 14
  BY DEF Specifiers
<1>2. SpecifierName = {Specifiers[i] : i \in 1 .. 14} \cup {"datetime"}
  BY <1>1 DEF SpecifierName, Range
<1>3. \A i \in 1 .. 14 : \/ i = 1 \/ i = 2 \/ i = 3 \/ i = 4 \/ i = 5 \/ i = 6 \/ i = 7
                         \/ i = 8 \/ i = 9 \/ i = 10 \/ i = 11 \/ i = 12 \/ i = 13 \/ i = 14
  OBVIOUS
<1>4. /\ Specifiers[1] = "app" /\ Specifiers[2] = "level" /\ Specifiers[3] = "levshort"
      /\ Specifiers[4] = "logger" /\ Specifiers[5] = "thread" /\ Specifiers[6] = "file"
      /\ Specifiers[7] = "fbase" /\ Specifiers[8] = "line" /\ Specifiers[9] = "loc"
      /\ Specifiers[10] = "func" /\ Specifiers[11] = "user" /\ Specifiers[12] = "host"
      /\ Specifiers[13] = "msg" /\ Specifiers[14] = "vlevel"
  BY DEF Specifiers
<1>5. {Specifiers[i] : i \in 1 .. 14} =
        {"app", "level", "levshort", "logger", "thread", "file", "fbase", "line",
         "loc", "func", "user", "host", "msg", "vlevel"}
  BY <1>3, <1>4
<1> QED
  BY <1>1, <1>2, <1>5

LEMMA ValuesAre ==
  ASSUME NEW level, NEW date, date[1] = "date"
  PROVE  Values(ValuesOf(level, date))
<1> DEFINE V == ValuesOf(level, date)
<1> SUFFICES ASSUME NEW x \in SpecifierName, NEW k
             PROVE  V[x] # Escaped(k) /\ (V[x] = Specifier(k) => k = x)
  BY DEF Values
<1>1. V[x] = Specifier(x) \/ V[x][1] \in {"level", "levshort", "date", "value"}
  BY DEF ValuesOf, Value
<1> HIDE DEF V
<1>2. Escaped(k)[1] = "escaped" /\ Specifier(k)[1] = "spec"
  BY TokensDiffer
<1>3. CASE V[x] = Specifier(x)
  BY <1>3, TokensDiffer
<1>4. CASE V[x][1] \in {"level", "levshort", "date", "value"}
  BY <1>2, <1>4
<1> QED
  BY <1>1, <1>3, <1>4

LEMMA MarkedReached ==
  ASSUME NEW f, NEW n, Tokens(f, n), NEW V, Values(V)
  PROVE  Reached(f, n, FoldLeft(ConditionalAddFlag, f, Specifiers), {}, V)
<1> DEFINE k == 14
<1>1. k \in Nat /\ DOMAIN Specifiers = 1 .. k /\ \A i \in 1 .. k : Specifiers[i] \in SpecifierName
  BY NamesAre
<1> HIDE DEF k
<1>2. PICK h : /\ Steps(h, "ConditionalAddFlag", f, Specifiers, k)
               /\ FoldLeft(ConditionalAddFlag, f, Specifiers) = h[k]
  BY <1>1, MarkSteps
<1>3. h[0] = f /\ \A i \in 1 .. k : h[i] = ConditionalAddFlag(h[i - 1], Specifiers[i])
  BY <1>2 DEF Steps, Step
<1> DEFINE S == {i \in 0 .. k : Reached(f, n, h[i], {}, V)}
<1>4. 0 \in S
  <2>1. Reached(f, n, f, {}, V)
    BY DEF Reached, Tokens
  <2> QED
    BY <1>1, <1>3, <2>1
<1>5. ASSUME NEW i \in 0 .. k - 1, i \in S PROVE i + 1 \in S
  <2>1. i + 1 \in 1 .. k /\ (i + 1) - 1 = i /\ i + 1 \in 0 .. k
    BY <1>1
  <2>2. Specifiers[i + 1] \in SpecifierName \ {}
    BY <1>1, <2>1
  <2>3. Reached(f, n, h[i], {}, V)
    BY <1>5
  <2>4. Reached(f, n, ConditionalAddFlag(h[i], Specifiers[i + 1]), {}, V)
    BY <2>2, <2>3, MarkReached
  <2>5. h[i + 1] = ConditionalAddFlag(h[i], Specifiers[i + 1])
    BY <1>3, <2>1
  <2> QED
    BY <2>1, <2>4, <2>5
<1>6. S = 0 .. k
  <2>1. S \in SUBSET (0 .. k)
    OBVIOUS
  <2> HIDE DEF S
  <2> QED
    BY <1>1, <1>4, <1>5, <2>1, InductionTo
<1>7. Reached(f, n, h[k], {}, V)
  BY <1>1, <1>6
<1> QED
  BY <1>2, <1>7

\* The date that follows the first specifier of a date is at d.
DateAt(f, k) ==
  k > 1 /\ f[k][1] = "date" /\ f[k - 1] = Specifier("datetime") /\ Leads(f, k - 1)
Dated(f, n, d, date) ==
  /\ d \in 1 .. n + 1
  /\ \A k \in 1 .. n : DateAt(f, k) <=> k = d
  /\ date = IF d <= n THEN f[d] ELSE DateFormat("default")

LEMMA KeptAll ==
  ASSUME NEW g, NEW n, IsList(g, n)
  PROVE  Kept(g, n, n + 1) = g
<1>1. n \in Nat /\ CountWithout(n, n + 1) = n
  BY ListIs DEF CountWithout
<1>2. Kept(g, n, n + 1) = [i \in 1 .. n |-> g[i]]
  BY <1>1 DEF Kept
<1> QED
  BY <1>2 DEF IsList

LEMMA DatedIs ==
  ASSUME NEW f, NEW n, Tokens(f, n), NEW V, Values(V),
         NEW marked, Reached(f, n, marked, {}, V)
  PROVE  \E d : /\ Dated(f, n, d, UpdateDateFormat(marked).date)
                /\ UpdateDateFormat(marked).format = Kept(marked, n, d)
<1> DEFINE at == FirstOf(marked, "datetime")
           has == at < n /\ marked[at + 1][1] = "date"
           u == UpdateDateFormat(marked)
<1>1. n \in Nat /\ IsList(marked, n) /\ Len(marked) = n
  BY ListIs DEF Reached, Tokens
<1>2. First(marked, n, "datetime", at)
  BY <1>1, FirstIs
<1>3. "datetime" \in SpecifierName \ {}
  BY NamesAre
<1>4. /\ First(f, n, "datetime", at)
      /\ \A i \in 1 .. n : f[i] = Specifier("datetime") => (i = at <=> Leads(f, i))
  BY <1>2, <1>3, FirstReached
<1>5. u = IF has THEN [format |-> RemoveAt(marked, at + 1), date |-> marked[at + 1]]
          ELSE [format |-> marked, date |-> DateFormat("default")]
  BY <1>1 DEF UpdateDateFormat
<1> HIDE DEF at, u
<1>6. \A i \in 1 .. n : marked[i][1] = "date" \/ f[i][1] = "date" => marked[i] = f[i]
  <2> SUFFICES ASSUME NEW i \in 1 .. n, marked[i] # f[i]
               PROVE  marked[i][1] # "date" /\ f[i][1] # "date"
    OBVIOUS
  <2>1. Lost(f, i, marked[i], {})
    BY DEF Reached
  <2>2. PICK x : f[i] = Escaped(x) /\ marked[i] = Specifier(x)
    BY <2>1 DEF Lost
  <2>3. f[i][1] = "escaped" /\ marked[i][1] = "spec"
    BY <2>2, TokensDiffer
  <2> QED
    BY <2>3
<1>7. at \in 1 .. n + 1 /\ (at <= n => f[at] = Specifier("datetime"))
  BY <1>4 DEF First
<1>8. ASSUME NEW k \in 1 .. n
      PROVE  DateAt(f, k) <=> has /\ k = at + 1
  <2>1. ASSUME DateAt(f, k) PROVE has /\ k = at + 1
    <3>1. k - 1 \in 1 .. n /\ k - 1 = at
      BY <1>1, <1>4, <2>1 DEF DateAt
    <3>2. k = at + 1 /\ at < n
      BY <1>1, <1>7, <3>1
    <3> QED
      BY <1>6, <2>1, <3>2 DEF DateAt
  <2>2. ASSUME has, k = at + 1 PROVE DateAt(f, k)
    <3>1. k - 1 = at /\ k > 1 /\ at \in 1 .. n
      BY <1>1, <1>7, <2>2
    <3>2. f[k - 1] = Specifier("datetime") /\ Leads(f, k - 1)
      BY <1>1, <1>4, <1>7, <2>2, <3>1
    <3>3. f[k][1] = "date"
      BY <1>6, <2>2
    <3> QED
      BY <3>1, <3>2, <3>3 DEF DateAt
  <2> QED
    BY <2>1, <2>2
<1>9. CASE has
  <2>1. at + 1 \in 1 .. n /\ at + 1 <= n /\ at + 1 \in 1 .. n + 1
    BY <1>1, <1>7, <1>9
  <2>2. u.format = Kept(marked, n, at + 1) /\ u.date = f[at + 1]
    BY <1>1, <1>5, <1>6, <1>9, <2>1, RemoveAtIs
  <2>3. \A k \in 1 .. n : DateAt(f, k) <=> k = at + 1
    BY <1>8, <1>9
  <2>4. Dated(f, n, at + 1, u.date)
    BY <2>1, <2>2, <2>3 DEF Dated
  <2> QED
    BY <2>2, <2>4 DEF u
<1>10. CASE ~has
  <2>1. u.format = Kept(marked, n, n + 1) /\ u.date = DateFormat("default")
    BY <1>1, <1>5, <1>10, KeptAll
  <2>2. \A k \in 1 .. n : DateAt(f, k) <=> k = n + 1
    BY <1>1, <1>8, <1>10
  <2>3. Dated(f, n, n + 1, u.date)
    BY <1>1, <2>1, <2>2 DEF Dated
  <2> QED
    BY <2>1, <2>3 DEF u
<1> QED
  BY <1>9, <1>10

\* The names that do not occur have no flag.
Flagged(b, n, flags) ==
  \A x \in SpecifierName \ flags : \A i \in 1 .. n : b[i] # Specifier(x)
Named(names, k) == {names[i] : i \in 1 .. k}

LEMMA SubstitutedReached ==
  ASSUME NEW b, NEW n, Tokens(b, n), NEW level, NEW date, date[1] = "date",
         NEW flags, Flagged(b, n, flags), NEW done, NEW g,
         Reached(b, n, g, done, ValuesOf(level, date)),
         NEW name \in {"level", "levshort", "user", "host"} \ done
  PROVE  Reached(b, n, Substituted(level, flags, g, name), done \cup {name},
                 ValuesOf(level, date))
<1> DEFINE V == ValuesOf(level, date)
           G == Substituted(level, flags, g, name)
<1>1. Values(V) /\ name \in SpecifierName \ done
  BY ValuesAre, NamesAre
<1>2. V[name] = IF name \in {"level", "levshort"} THEN <<name, level>> ELSE Value(name)
  BY <1>1 DEF ValuesOf
<1> HIDE DEF V
<1>3. CASE name \in {"level", "levshort"} \/ name \in flags
  <2>1. G = ReplaceFirstWithEscape(g, name, Single(V[name]))
    <3>1. CASE name \in {"level", "levshort"}
      BY <1>2, <3>1 DEF Substituted, Single
    <3>2. CASE name \in flags \ {"level", "levshort"}
      BY <1>2, <3>2 DEF Substituted, Single
    <3> QED
      BY <1>3, <3>1, <3>2
  <2> QED
    BY <1>1, <2>1, ReplaceReached DEF V
<1>4. CASE ~(name \in {"level", "levshort"} \/ name \in flags)
  <2>1. G = g
    BY <1>4 DEF Substituted
  <2>2. \A i \in 1 .. n : b[i] # Specifier(name)
    BY <1>1, <1>4 DEF Flagged
  <2> QED
    BY <1>1, <2>1, <2>2, SkipReached DEF V
<1> QED
  BY <1>3, <1>4

LEMMA UpdatedReached ==
  ASSUME NEW b, NEW n, Tokens(b, n), NEW level, level # "Global", NEW date, date[1] = "date",
         NEW flags, Flagged(b, n, flags), NEW g,
         Reached(b, n, g, {}, ValuesOf(level, date))
  PROVE  Reached(b, n, UpdateFormatSpec(level, g, flags), {"level", "levshort", "user", "host"},
                 ValuesOf(level, date))
<1> DEFINE V == ValuesOf(level, date)
           k == 4
           names == LevelSpecifiers
<1>1. /\ k \in Nat /\ DOMAIN names = 1 .. k
      /\ \A i \in 1 .. k : names[i] \in {"level", "levshort", "user", "host"}
      /\ \A i, j \in 1 .. k : names[i] = names[j] => i = j
      /\ Named(names, k) = {"level", "levshort", "user", "host"}
  <2>1. \A i \in 1 .. 4 : i = 1 \/ i = 2 \/ i = 3 \/ i = 4
    OBVIOUS
  <2>2. /\ names[1] = "level" /\ names[2] = "levshort" /\ names[3] = "user"
        /\ names[4] = "host"
    BY DEF LevelSpecifiers
  <2>3. DOMAIN names = 1 .. 4
    BY DEF LevelSpecifiers
  <2> HIDE DEF names
  <2> QED
    BY <2>1, <2>2, <2>3 DEF Named
<1> HIDE DEF V, k, names
<1>2. PICK h : /\ Substitutions(h, level, flags, g, names, k)
               /\ UpdateFormatSpec(level, g, flags) = h[k]
  BY <1>1, SubstituteSteps DEF names
<1>3. h[0] = g /\ \A i \in 1 .. k : h[i] = Substituted(level, flags, h[i - 1], names[i])
  BY <1>2 DEF Substitutions
<1> DEFINE S == {i \in 0 .. k : Reached(b, n, h[i], Named(names, i), V)}
<1>4. 0 \in S
  <2>1. Named(names, 0) = {}
    BY DEF Named
  <2> QED
    BY <1>1, <1>3, <2>1 DEF V
<1>5. ASSUME NEW i \in 0 .. k - 1, i \in S PROVE i + 1 \in S
  <2> DEFINE name == names[i + 1]
             done == Named(names, i)
  <2>1. i + 1 \in 1 .. k /\ (i + 1) - 1 = i /\ i + 1 \in 0 .. k
    BY <1>1
  <2>2. name \in {"level", "levshort", "user", "host"} \ done
    BY <1>1, <2>1 DEF Named
  <2>3. done \cup {name} = Named(names, i + 1)
    <3>1. \A j : j \in 1 .. i + 1 <=> j \in 1 .. i \/ j = i + 1
      BY <2>1
    <3> QED
      BY <3>1 DEF Named
  <2>4. h[i + 1] = Substituted(level, flags, h[i], name)
    BY <1>3, <2>1
  <2>5. Reached(b, n, h[i], done, V)
    BY <1>5
  <2> HIDE DEF name, done
  <2>6. Reached(b, n, h[i + 1], done \cup {name}, V)
    BY <2>2, <2>4, <2>5, SubstitutedReached DEF V
  <2> QED
    BY <2>1, <2>3, <2>6
<1>6. S = 0 .. k
  <2>1. S \in SUBSET (0 .. k)
    OBVIOUS
  <2> HIDE DEF S
  <2> QED
    BY <1>1, <1>4, <1>5, <2>1, InductionTo
<1>7. Reached(b, n, h[k], Named(names, k), V)
  <2>1. k \in S
    <3> HIDE DEF S
    <3> QED
      BY <1>1, <1>6
  <2> QED
    BY <2>1
<1> QED
  BY <1>1, <1>2, <1>7 DEF V

LEMMA WithValueReached ==
  ASSUME NEW b, NEW n, Tokens(b, n), NEW level, NEW date, date[1] = "date",
         NEW lf, lf.date = date, Flagged(b, n, lf.flags), NEW done, NEW g,
         Reached(b, n, g, done, ValuesOf(level, date)), NEW message,
         NEW name \in SpecifierName \ done, name \notin {"msg", "level", "levshort"}
  PROVE  Reached(b, n, WithValue(lf, level, message, g, name), done \cup {name},
                 ValuesOf(level, date))
<1> DEFINE V == ValuesOf(level, date)
           G == WithValue(lf, level, message, g, name)
           added == name \in lf.flags /\ (name = "vlevel" => level = "Verbose")
<1>1. Values(V)
  BY ValuesAre
<1>2. V[name] = IF name = "datetime" THEN date
                ELSE IF name = "vlevel" /\ level # "Verbose" THEN Specifier(name)
                ELSE Value(name)
  BY DEF ValuesOf
<1> HIDE DEF V
<1>3. CASE added
  <2>1. G = ReplaceFirstWithEscape(g, name, Single(V[name]))
    <3>1. CASE name = "datetime"
      BY <1>2, <1>3, <3>1 DEF WithValue, Single
    <3>2. CASE name # "datetime"
      BY <1>2, <1>3, <3>2 DEF WithValue, Single
    <3> QED
      BY <3>1, <3>2
  <2> QED
    BY <1>1, <2>1, ReplaceReached DEF V
<1>4. CASE ~added
  <2>1. G = g
    BY <1>4 DEF WithValue
  <2>2. V[name] = Specifier(name) \/ \A i \in 1 .. n : b[i] # Specifier(name)
    BY <1>2, <1>4 DEF Flagged
  <2> QED
    BY <1>1, <2>1, <2>2, SkipReached DEF V
<1> QED
  BY <1>3, <1>4

\* The names that are done when a level has its format.
Early == {"level", "levshort", "user", "host", "logger"}

\* All but the message, which comes last.
LEMMA BuiltReached ==
  ASSUME NEW b, NEW n, Tokens(b, n), NEW level, NEW date, date[1] = "date",
         NEW lf, lf.date = date, Flagged(b, n, lf.flags), NEW message,
         Reached(b, n, lf.format, Early, ValuesOf(level, date))
  PROVE  \E g : /\ Reached(b, n, g, SpecifierName \ {"msg"}, ValuesOf(level, date))
                /\ BuildLine(lf, level, message) = WithValue(lf, level, message, g, "msg")
<1> DEFINE V == ValuesOf(level, date)
           k == 10
           names == BuildOrder
           first == Early
           Done(i) == first \cup Named(names, i)
<1>1. /\ k \in Nat /\ k > 0 /\ DOMAIN names = 1 .. k
      /\ \A i \in 1 .. k - 1 : names[i] \in SpecifierName \ first /\ names[i] # "msg"
      /\ \A i, j \in 1 .. k : names[i] = names[j] => i = j
      /\ Done(k - 1) = SpecifierName \ {"msg"} /\ names[k] = "msg"
  <2>1. \A i \in 1 .. 10 : \/ i = 1 \/ i = 2 \/ i = 3 \/ i = 4 \/ i = 5 \/ i = 6 \/ i = 7
                           \/ i = 8 \/ i = 9 \/ i = 10
    OBVIOUS
  <2>2. /\ names[1] = "app" /\ names[2] = "thread" /\ names[3] = "datetime"
        /\ names[4] = "func" /\ names[5] = "file" /\ names[6] = "fbase"
        /\ names[7] = "line" /\ names[8] = "loc" /\ names[9] = "vlevel"
        /\ names[10] = "msg"
    BY DEF BuildOrder
  <2>3. DOMAIN names = 1 .. 10
    BY DEF BuildOrder
  <2>4. SpecifierName = {"app", "level", "levshort", "logger", "thread", "file", "fbase",
                         "line", "loc", "func", "user", "host", "msg", "vlevel", "datetime"}
    BY NamesAre
  <2> HIDE DEF names
  <2>5. \A i, j \in 1 .. 10 : names[i] = names[j] => i = j
    BY <2>1, <2>2
  <2>6. \A i \in 1 .. 9 : names[i] \in SpecifierName \ first /\ names[i] # "msg"
    BY <2>1, <2>2, <2>4 DEF Early
  <2>7. Named(names, 9) = {"app", "thread", "datetime", "func", "file", "fbase", "line",
                           "loc", "vlevel"}
    BY <2>1, <2>2 DEF Named
  <2>8. Done(9) = SpecifierName \ {"msg"}
    BY <2>4, <2>7 DEF Early
  <2> QED
    BY <2>2, <2>3, <2>5, <2>6, <2>8
<1> HIDE DEF V, k, names, first
<1>2. PICK h : /\ Additions(h, lf, level, message, lf.format, names, k)
               /\ BuildLine(lf, level, message) = h[k]
  BY <1>1, AddSteps DEF names
<1>3. /\ h[0] = lf.format
      /\ \A i \in 1 .. k : h[i] = WithValue(lf, level, message, h[i - 1], names[i])
  BY <1>2 DEF Additions
<1> DEFINE m == k - 1
           S == {i \in 0 .. m : Reached(b, n, h[i], Done(i), V)}
<1>4. 0 \in S
  <2>1. Named(names, 0) = {}
    BY DEF Named
  <2>2. Reached(b, n, h[0], Done(0), V)
    BY <1>3, <2>1 DEF V, first
  <2> QED
    BY <1>1, <2>2
<1>5. ASSUME NEW i \in 0 .. m - 1, i \in S PROVE i + 1 \in S
  <2> DEFINE name == names[i + 1]
             done == Done(i)
  <2>1. i + 1 \in 1 .. k - 1 /\ (i + 1) - 1 = i /\ i + 1 \in 0 .. m /\ i + 1 \in 1 .. k
    BY <1>1
  <2>2. name \in SpecifierName \ done /\ name \notin {"msg", "level", "levshort"}
    <3>1. name \in SpecifierName \ first /\ name # "msg"
      BY <1>1, <2>1
    <3>2. name \notin Named(names, i)
      BY <1>1, <2>1 DEF Named
    <3> QED
      BY <3>1, <3>2 DEF first, Early
  <2>3. done \cup {name} = Done(i + 1)
    <3>1. \A j : j \in 1 .. i + 1 <=> j \in 1 .. i \/ j = i + 1
      BY <2>1
    <3> QED
      BY <3>1 DEF Named
  <2>4. h[i + 1] = WithValue(lf, level, message, h[i], name)
    BY <1>3, <2>1
  <2>5. Reached(b, n, h[i], done, V)
    BY <1>5
  <2> HIDE DEF name, done
  <2>6. Reached(b, n, h[i + 1], done \cup {name}, V)
    BY <2>2, <2>4, <2>5, WithValueReached DEF V
  <2> QED
    BY <2>1, <2>3, <2>6
<1>6. S = 0 .. m
  <2>1. S \in SUBSET (0 .. m) /\ m \in Nat
    BY <1>1
  <2> HIDE DEF S, m
  <2> QED
    BY <1>4, <1>5, <2>1, InductionTo
<1>7. Reached(b, n, h[k - 1], SpecifierName \ {"msg"}, V)
  <2>1. m \in S
    <3>1. m \in 0 .. m
      BY <1>1
    <3> HIDE DEF S, m
    <3> QED
      BY <1>6, <3>1
  <2>2. Reached(b, n, h[k - 1], Done(k - 1), V)
    BY <2>1
  <2> HIDE DEF Done
  <2> QED
    BY <1>1, <2>2
<1>8. h[k] = WithValue(lf, level, message, h[k - 1], "msg")
  BY <1>1, <1>3
<1> QED
  BY <1>2, <1>7, <1>8 DEF V

LEMMA PassesReached ==
  ASSUME NEW level, level # "Global", NEW f, NEW n, Tokens(f, n), NEW message
  PROVE  LET lf == ResolveLoggerFormatSpec(ParseFromFormat(level, f))
         IN  \E d, date, g :
               /\ Dated(f, n, d, date) /\ date[1] = "date"
               /\ Tokens(Kept(f, n, d), CountWithout(n, d))
               /\ Flagged(Kept(f, n, d), CountWithout(n, d), lf.flags)
               /\ Reached(Kept(f, n, d), CountWithout(n, d), g, SpecifierName \ {"msg"},
                          ValuesOf(level, date))
               /\ BuildLine(lf, level, message) = WithValue(lf, level, message, g, "msg")
<1> DEFINE marked == FoldLeft(ConditionalAddFlag, f, Specifiers)
           flags == {x \in SpecifierName : Unescaped(f, x) # {}}
           dated == UpdateDateFormat(marked)
           date == dated.date
           U == ValuesOf(level, DateFormat("default"))
           V == ValuesOf(level, date)
           updated == UpdateFormatSpec(level, dated.format, flags)
           logged == ReplaceFirstWithEscape(updated, "logger", <<Value("logger")>>)
           parsed == ParseFromFormat(level, f)
           lf == ResolveLoggerFormatSpec(parsed)
           four == {"level", "levshort", "user", "host"}
<1>1. parsed = [level |-> level, userFormat |-> f, flags |-> flags, date |-> date,
                format |-> updated]
  BY DEF ParseFromFormat
<1> HIDE DEF marked, flags, dated, updated, parsed
<1>2. lf.format = logged /\ lf.flags = flags /\ lf.date = date
  BY <1>1 DEF ResolveLoggerFormatSpec
<1> HIDE DEF lf
<1>3. DateFormat("default")[1] = "date"
  BY DEF DateFormat
<1>4. Values(U)
  BY <1>3, ValuesAre
<1>5. Reached(f, n, marked, {}, U)
  BY <1>4, MarkedReached DEF marked
<1>6. PICK d : Dated(f, n, d, date) /\ dated.format = Kept(marked, n, d)
  BY <1>4, <1>5, DatedIs DEF dated
<1>7. n \in Nat /\ d \in 1 .. n + 1 /\ (d <= n => f[d][1] = "date" /\ date = f[d])
  <2>1. n \in Nat
    BY ListIs DEF Tokens
  <2>2. d <= n => DateAt(f, d)
    BY <1>6, <2>1 DEF Dated
  <2> QED
    BY <1>6, <2>1, <2>2 DEF Dated, DateAt
<1>8. date[1] = "date"
  BY <1>3, <1>6, <1>7 DEF Dated
<1> DEFINE b == Kept(f, n, d)
           m == CountWithout(n, d)
<1> HIDE DEF date, U, V
<1>9. Tokens(b, m) /\ Reached(b, m, dated.format, {}, V)
  BY <1>5, <1>6, <1>7, KeptReached
<1>10. Flagged(b, m, flags)
  <2> SUFFICES ASSUME NEW x \in SpecifierName \ flags, NEW i \in 1 .. m
               PROVE  b[i] # Specifier(x)
    BY DEF Flagged
  <2>1. PICK k \in 1 .. n : b[i] = f[k]
    BY <1>7, KeptIs
  <2>2. Unescaped(f, x) = {}
    BY DEF flags
  <2>3. DOMAIN f = 1 .. n
    BY ListIs DEF Tokens
  <2> QED
    BY <2>1, <2>2, <2>3 DEF Unescaped
<1> HIDE DEF b, m
<1>11. Reached(b, m, updated, four, V)
  BY <1>8, <1>9, <1>10, UpdatedReached DEF updated, V
<1>12. Values(V) /\ "logger" \in SpecifierName \ four
  BY <1>8, ValuesAre, NamesAre DEF V
<1>13. V["logger"] = Value("logger")
  BY <1>12 DEF V, ValuesOf
<1>14. Reached(b, m, lf.format, four \cup {"logger"}, V)
  <2>1. logged = ReplaceFirstWithEscape(updated, "logger", Single(V["logger"]))
    BY <1>13 DEF Single
  <2> HIDE DEF logged, four
  <2> QED
    BY <1>2, <1>9, <1>11, <1>12, <2>1, ReplaceReached
<1>15. Reached(b, m, lf.format, Early, V)
  <2>1. four \cup {"logger"} = Early
    BY DEF Early
  <2> QED
    BY <1>14, <2>1
<1>16. Flagged(b, m, lf.flags) /\ lf.date = date
  BY <1>2, <1>10
<1>17. PICK g : /\ Reached(b, m, g, SpecifierName \ {"msg"}, V)
                /\ BuildLine(lf, level, message) = WithValue(lf, level, message, g, "msg")
  <2>1. Reached(b, m, lf.format, Early, ValuesOf(level, date))
    BY <1>15 DEF V
  <2>2. \E g : /\ Reached(b, m, g, SpecifierName \ {"msg"}, ValuesOf(level, date))
               /\ BuildLine(lf, level, message) = WithValue(lf, level, message, g, "msg")
    BY <1>8, <1>9, <1>16, <2>1, BuiltReached
  <2> QED
    BY <2>2 DEF V
<1>18. \E y, z, w : /\ Dated(f, n, y, z) /\ z[1] = "date"
                    /\ Tokens(Kept(f, n, y), CountWithout(n, y))
                    /\ Flagged(Kept(f, n, y), CountWithout(n, y), lf.flags)
                    /\ Reached(Kept(f, n, y), CountWithout(n, y), w, SpecifierName \ {"msg"},
                               ValuesOf(level, z))
                    /\ BuildLine(lf, level, message) = WithValue(lf, level, message, w, "msg")
  BY <1>6, <1>8, <1>9, <1>16, <1>17, Zenon DEF b, m, V
<1> QED
  BY <1>18 DEF lf, parsed

\* What stands in a line for the token at i.
PieceOf(b, i, V, p) ==
  /\ Leads(b, i) /\ b[i][2] = "msg" => p = Message
  /\ ~(Leads(b, i) /\ b[i][2] = "msg") =>
       \E x : /\ p = Single(x)
              /\ Unmarked(x) = Unmarked(IF Leads(b, i) THEN V[b[i][2]] ELSE b[i])

LEMMA PieceIs ==
  ASSUME NEW b, NEW i, NEW V, NEW p, PieceOf(b, i, V, p)
  PROVE  \E k : IsList(p, k)
<1>1. IsList(Message, 3)
  BY DEF Message, IsList
<1> QED
  BY <1>1, SingleIs DEF PieceOf

LEMMA SamePieces ==
  ASSUME NEW b, NEW i, NEW f, NEW k, NEW V, NEW p, NEW q, PieceOf(b, i, V, p), PieceOf(f, k, V, q),
         b[i] = f[k], Leads(b, i) <=> Leads(f, k)
  PROVE  Bare(p) = Bare(q)
<1>1. CASE Leads(b, i) /\ b[i][2] = "msg"
  BY <1>1 DEF PieceOf
<1>2. CASE ~(Leads(b, i) /\ b[i][2] = "msg")
  <2>1. PICK x : /\ p = Single(x)
                 /\ Unmarked(x) = Unmarked(IF Leads(b, i) THEN V[b[i][2]] ELSE b[i])
    BY <1>2 DEF PieceOf
  <2>2. PICK y : /\ q = Single(y)
                 /\ Unmarked(y) = Unmarked(IF Leads(f, k) THEN V[f[k][2]] ELSE f[k])
    BY <1>2 DEF PieceOf
  <2>3. Unmarked(x) = Unmarked(y)
    BY <2>1, <2>2
  <2>4. \A z : Bare(Single(z)) = Single(Unmarked(z))
    BY DEF Bare, Single
  <2> QED
    BY <2>1, <2>2, <2>3, <2>4
<1> QED
  BY <1>1, <1>2

\* The pieces of the line that is built.
LEMMA LinePieces ==
  ASSUME NEW b, NEW n, Tokens(b, n), NEW V, Values(V), NEW g,
         Reached(b, n, g, SpecifierName \ {"msg"}, V),
         NEW lf, Flagged(b, n, lf.flags), NEW level
  PROVE  \E p : /\ Pieces(p, n)
                /\ WithValue(lf, level, Message, g, "msg") = FlattenSeq(p)
                /\ \A i \in 1 .. n : PieceOf(b, i, V, p[i])
<1> DEFINE name == "msg"
           at == FirstOf(g, name)
           done == SpecifierName \ {name}
           L == WithValue(lf, level, Message, g, name)
           lost(i) == i < at /\ g[i] = Escaped(name)
           T(i) == IF Leads(b, i) THEN V[b[i][2]] ELSE b[i]
<1>1. name \in SpecifierName \ done /\ name \in SpecifierName
  BY NamesAre
<1>2. n \in Nat /\ IsList(g, n) /\ DOMAIN g = 1 .. n
  BY ListIs DEF Reached
<1>3. Unmarked(Specifier(name)) = Unmarked(Escaped(name))
  BY DEF Unmarked, Specifier, Escaped
<1>4. \A x : Unmarked(Specifier(x)) = Unmarked(Escaped(x))
  BY DEF Unmarked, Specifier, Escaped
<1>5. First(g, n, name, at)
  BY <1>2, FirstIs
<1>6. /\ First(b, n, name, at) /\ (at <= n => Leads(b, at))
      /\ \A i \in 1 .. n : b[i] = Specifier(name) => (i = at <=> Leads(b, i))
  BY <1>1, <1>5, FirstReached
<1>7. ASSUME NEW i \in 1 .. n
      PROVE  i = at <=> Leads(b, i) /\ b[i][2] = name
  <2>1. b[i] \in Token
    BY DEF Tokens
  <2>2. i = at => Leads(b, i) /\ b[i][2] = name
    BY <1>2, <1>6, TokensDiffer DEF First
  <2>3. Leads(b, i) /\ b[i][2] = name => b[i] = Specifier(name)
    BY <2>1, TokenIs DEF Leads
  <2> QED
    BY <1>6, <2>2, <2>3
<1>8. ASSUME NEW i \in 1 .. n, i # at
      PROVE  Unmarked(g[i]) = Unmarked(T(i))
  <2>1. CASE Leads(b, i)
    <3>1. b[i][2] \in done
      BY <1>7, <1>8, <2>1, TokenIs DEF Tokens, Leads
    <3> QED
      BY <2>1, <3>1 DEF Reached
  <2>2. CASE ~Leads(b, i)
    <3>1. g[i] = b[i] \/ Lost(b, i, g[i], done)
      BY <2>2 DEF Reached
    <3>2. Lost(b, i, g[i], done) => Unmarked(g[i]) = Unmarked(b[i])
      BY <1>4 DEF Lost
    <3> QED
      BY <2>2, <3>1, <3>2
  <2> QED
    BY <2>1, <2>2
<1> HIDE DEF at, done, T
<1>9. CASE name \in lf.flags
  <2> DEFINE p == [i \in 1 .. n |-> CASE i = at -> Message
                                      [] lost(i) -> <<Specifier(name)>>
                                      [] OTHER -> <<g[i]>>]
  <2>1. L = ReplaceFirstWithEscape(g, name, Message)
    BY <1>9 DEF WithValue
  <2>2. L = FlattenSeq(p)
    BY <1>2, <2>1 DEF ReplaceFirstWithEscape, at
  <2>3. ASSUME NEW i \in 1 .. n PROVE PieceOf(b, i, V, p[i])
    <3>1. at \in Int /\ (i = at => ~lost(i))
      BY <1>5 DEF First
    <3>2. CASE i = at
      <4>1. p[i] = Message
        BY <3>1, <3>2
      <4> HIDE DEF p
      <4> QED
        BY <1>7, <3>2, <4>1 DEF PieceOf
    <3>3. CASE i # at
      <4>1. \E x : p[i] = Single(x) /\ Unmarked(x) = Unmarked(g[i])
        <5>1. CASE lost(i)
          <6>1. p[i] = Single(Specifier(name))
            BY <3>3, <5>1 DEF Single
          <6> HIDE DEF p
          <6> QED
            BY <1>3, <5>1, <6>1
        <5>2. CASE ~lost(i)
          <6>1. p[i] = Single(g[i])
            BY <3>3, <5>2 DEF Single
          <6> HIDE DEF p
          <6> QED
            BY <6>1
        <5> QED
          BY <5>1, <5>2
      <4> HIDE DEF p
      <4>2. \E x : p[i] = Single(x) /\ Unmarked(x) = Unmarked(T(i))
        BY <1>8, <3>3, <4>1
      <4> QED
        BY <1>7, <3>3, <4>2 DEF PieceOf, T
    <3> QED
      BY <3>2, <3>3
  <2>4. IsList(p, n)
    BY <1>2 DEF IsList
  <2> HIDE DEF p
  <2>5. Pieces(p, n)
    BY <2>3, <2>4, PieceIs DEF Pieces
  <2> QED
    BY <2>2, <2>3, <2>5
<1>10. CASE name \notin lf.flags
  <2> DEFINE p == [i \in 1 .. n |-> Single(g[i])]
  <2>1. L = g
    BY <1>10 DEF WithValue
  <2>2. IsList(p, n) /\ \A i \in 1 .. n : p[i] = Single(g[i])
    BY <1>2 DEF IsList
  <2> HIDE DEF p
  <2>3. L = FlattenSeq(p)
    BY <1>2, <2>1, <2>2, FlattenSingles
  <2>4. ASSUME NEW i \in 1 .. n PROVE PieceOf(b, i, V, p[i])
    <3>1. i # at
      BY <1>1, <1>6, <1>10 DEF Flagged, First
    <3>2. p[i] = Single(g[i]) /\ Unmarked(g[i]) = Unmarked(T(i))
      BY <1>8, <2>2, <3>1
    <3> QED
      BY <1>7, <3>1, <3>2 DEF PieceOf, T
  <2>5. Pieces(p, n)
    BY <2>2, <2>4, PieceIs DEF Pieces
  <2> QED
    BY <2>3, <2>4, <2>5
<1> QED
  BY <1>9, <1>10

\* The pieces of the line that should be printed.
LEMMA PrintedPieces ==
  ASSUME NEW f, NEW n, Tokens(f, n), NEW d, NEW date, Dated(f, n, d, date), NEW level
  PROVE  \E q : /\ Pieces(q, n)
                /\ Printed(f, level) = FlattenSeq(q)
                /\ d <= n => q[d] = Empty
                /\ \A k \in 1 .. n : k # d => PieceOf(f, k, ValuesOf(level, date), q[k])
<1> DEFINE V == ValuesOf(level, date)
           first(i) == f[i][1] = "spec" /\ \A j \in 1 .. i - 1 : f[j] # f[i]
           name(i) == f[i][2]
           dateAt(i) == /\ i \in DOMAIN f \ {1} /\ f[i][1] = "date"
                        /\ f[i - 1] = Specifier("datetime") /\ first(i - 1)
           piece(i) ==
             IF dateAt(i) THEN << >>
             ELSE IF ~first(i) THEN <<f[i]>>
             ELSE CASE name(i) = "msg" -> Message
                    [] name(i) = "datetime" ->
                         IF dateAt(i + 1) THEN <<f[i + 1]>> ELSE <<DateFormat("default")>>
                    [] name(i) \in {"level", "levshort"} -> <<<<name(i), level>>>>
                    [] name(i) = "vlevel" /\ level # "Verbose" -> <<f[i]>>
                    [] OTHER -> <<Value(name(i))>>
           q == [i \in 1 .. n |-> piece(i)]
<1>1. n \in Nat /\ DOMAIN f = 1 .. n
  BY ListIs DEF Tokens
<1>2. Printed(f, level) = FlattenSeq(q)
  BY <1>1 DEF Printed
<1>3. \A i : first(i) <=> Leads(f, i)
  BY DEF Leads
<1>4. \A i \in 1 .. n + 1 : dateAt(i) <=> i = d /\ d <= n
  <2>1. \A i \in 1 .. n : dateAt(i) <=> DateAt(f, i)
    BY <1>1, <1>3 DEF DateAt
  <2>2. \A i \in 1 .. n : DateAt(f, i) <=> i = d
    BY DEF Dated
  <2>3. ~dateAt(n + 1)
    BY <1>1
  <2>4. d \in 1 .. n + 1
    BY DEF Dated
  <2> HIDE DEF dateAt
  <2> QED
    BY <1>1, <2>1, <2>2, <2>3, <2>4
<1>5. ASSUME NEW i \in 1 .. n, i # d, Leads(f, i), f[i] = Specifier("datetime")
      PROVE  date = IF dateAt(i + 1) THEN f[i + 1] ELSE DateFormat("default")
  <2>1. i + 1 \in 1 .. n + 1
    BY <1>1
  <2>2. d \in 1 .. n + 1 /\ date = IF d <= n THEN f[d] ELSE DateFormat("default")
    BY DEF Dated
  <2>3. ASSUME d <= n PROVE d = i + 1
    <3>1. DateAt(f, d)
      BY <1>1, <2>2, <2>3 DEF Dated
    <3>2. d - 1 \in 1 .. n /\ f[d - 1] = f[i] /\ Leads(f, d - 1)
      BY <1>1, <1>5, <2>2, <2>3, <3>1 DEF DateAt
    <3>3. ~(d - 1 < i) /\ ~(i < d - 1)
      <4>1. ~(d - 1 < i)
        <5>1. d - 1 < i => d - 1 \in 1 .. i - 1
          BY <3>2
        <5> QED
          BY <1>5, <3>2, <5>1 DEF Leads
      <4>2. ~(i < d - 1)
        <5>1. i < d - 1 => i \in 1 .. (d - 1) - 1
          BY <1>1, <3>2
        <5> QED
          BY <3>2, <5>1 DEF Leads
      <4> QED
        BY <4>1, <4>2
    <3> QED
      BY <2>2, <3>2, <3>3
  <2>4. dateAt(i + 1) <=> i + 1 = d /\ d <= n
    BY <1>4, <2>1
  <2> HIDE DEF dateAt
  <2> QED
    BY <1>1, <2>2, <2>3, <2>4
<1> HIDE DEF first, dateAt
<1>6. \A i \in 1 .. n : q[i] = piece(i)
  OBVIOUS
<1>7. IsList(q, n)
  BY <1>1 DEF IsList
<1>8. d <= n => q[d] = Empty
  <2>1. d \in 1 .. n + 1
    BY DEF Dated
  <2>2. d <= n => d \in 1 .. n /\ dateAt(d)
    BY <1>1, <1>4, <2>1
  <2> HIDE DEF q
  <2> QED
    BY <1>6, <2>2 DEF Empty
<1> HIDE DEF q
<1>9. ASSUME NEW i \in 1 .. n, i # d PROVE PieceOf(f, i, V, q[i])
  <2>1. ~dateAt(i)
    BY <1>1, <1>4, <1>9
  <2>2. CASE ~Leads(f, i)
    <3>1. q[i] = Single(f[i])
      BY <1>3, <1>6, <2>1, <2>2 DEF Single
    <3> QED
      BY <2>2, <3>1 DEF PieceOf
  <2>3. CASE Leads(f, i)
    <3> DEFINE x == name(i)
    <3>1. x \in SpecifierName /\ f[i] = Specifier(x)
      BY <2>3, TokenIs DEF Tokens, Leads
    <3>2. q[i] = CASE x = "msg" -> Message
                   [] x = "datetime" ->
                        IF dateAt(i + 1) THEN <<f[i + 1]>> ELSE <<DateFormat("default")>>
                   [] x \in {"level", "levshort"} -> <<<<x, level>>>>
                   [] x = "vlevel" /\ level # "Verbose" -> <<f[i]>>
                   [] OTHER -> <<Value(x)>>
      BY <1>3, <1>6, <2>1, <2>3
    <3>3. V[x] = IF x \in {"level", "levshort"} THEN <<x, level>>
                 ELSE IF x = "datetime" THEN date
                 ELSE IF x = "vlevel" /\ level # "Verbose" THEN Specifier(x)
                 ELSE Value(x)
      BY <3>1 DEF ValuesOf
    <3>4. f[i][2] = x
      OBVIOUS
    <3> HIDE DEF x, V
    <3>5. CASE x = "msg"
      <4>1. q[i] = Message
        BY <3>2, <3>5
      <4> QED
        BY <2>3, <3>4, <3>5, <4>1 DEF PieceOf
    <3>6. CASE x # "msg"
      <4>1. q[i] = Single(V[x])
        <5>1. CASE x = "datetime"
          <6>1. date = IF dateAt(i + 1) THEN f[i + 1] ELSE DateFormat("default")
            BY <1>5, <1>9, <2>3, <3>1, <5>1
          <6> QED
            BY <3>2, <3>3, <5>1, <6>1 DEF Single
        <5>2. CASE x \in {"level", "levshort"}
          BY <3>2, <3>3, <5>2 DEF Single
        <5>3. CASE x = "vlevel" /\ level # "Verbose"
          BY <3>1, <3>2, <3>3, <5>3 DEF Single
        <5>4. CASE /\ x \notin {"msg", "datetime", "level", "levshort"}
                   /\ ~(x = "vlevel" /\ level # "Verbose")
          BY <3>2, <3>3, <5>4 DEF Single
        <5> QED
          BY <3>6, <5>1, <5>2, <5>3, <5>4
      <4> QED
        BY <2>3, <3>4, <3>6, <4>1 DEF PieceOf
    <3> QED
      BY <3>5, <3>6
  <2> QED
    BY <2>2, <2>3
<1>10. Pieces(q, n)
  <2>1. ASSUME NEW i \in 1 .. n PROVE \E k : IsList(q[i], k)
    <3>1. CASE i = d
      BY <1>8, <3>1, EmptyIs
    <3>2. CASE i # d
      BY <1>9, <3>2, PieceIs
    <3> QED
      BY <3>1, <3>2
  <2> QED
    BY <1>7, <2>1 DEF Pieces
<1> QED
  BY <1>2, <1>8, <1>9, <1>10

\* The line of a format is what the format says.
LEMMA LineOfFormat ==
  ASSUME NEW level, level # "Global", NEW f, IsFormat(f)
  PROVE  Bare(BuildLine(ResolveLoggerFormatSpec(ParseFromFormat(level, f)), level, Message)) =
         Bare(Printed(f, level))
<1> DEFINE n == Len(f)
           lf == ResolveLoggerFormatSpec(ParseFromFormat(level, f))
           line == BuildLine(lf, level, Message)
<1>1. Tokens(f, n)
  <2>1. f \in Seq(Token)
    BY DEF IsFormat
  <2>2. n \in Nat /\ f = [i \in 1 .. n |-> f[i]] /\ \A i \in 1 .. n : f[i] \in Token
    BY <2>1
  <2> QED
    BY <2>2 DEF Tokens, IsList
<1>2. n \in Nat
  BY <1>1, ListIs DEF Tokens
<1> HIDE DEF n
<1>3. \E d, date, g :
        /\ Dated(f, n, d, date) /\ date[1] = "date"
        /\ Tokens(Kept(f, n, d), CountWithout(n, d))
        /\ Flagged(Kept(f, n, d), CountWithout(n, d), lf.flags)
        /\ Reached(Kept(f, n, d), CountWithout(n, d), g, SpecifierName \ {"msg"},
                   ValuesOf(level, date))
        /\ line = WithValue(lf, level, Message, g, "msg")
  BY <1>1, PassesReached, Zenon
<1> HIDE DEF lf, line
<1>4. PICK d, date, g :
        /\ Dated(f, n, d, date) /\ date[1] = "date"
        /\ Tokens(Kept(f, n, d), CountWithout(n, d))
        /\ Flagged(Kept(f, n, d), CountWithout(n, d), lf.flags)
        /\ Reached(Kept(f, n, d), CountWithout(n, d), g, SpecifierName \ {"msg"},
                   ValuesOf(level, date))
        /\ line = WithValue(lf, level, Message, g, "msg")
  BY <1>3
<1> DEFINE b == Kept(f, n, d)
           m == CountWithout(n, d)
           V == ValuesOf(level, date)
<1>5. d \in 1 .. n + 1 /\ (d <= n => f[d][1] = "date")
  <2>1. d \in 1 .. n + 1 /\ (d <= n => DateAt(f, d))
    BY <1>2, <1>4 DEF Dated
  <2> QED
    BY <2>1 DEF DateAt
<1>6. Values(V)
  BY <1>4, ValuesAre
<1>7. \A k \in 1 .. n : k # d =>
        /\ Shift(k, d) \in 1 .. m /\ b[Shift(k, d)] = f[k]
        /\ Leads(f, k) <=> Leads(b, Shift(k, d))
  <2>1. /\ IsList(b, m)
        /\ \A i \in 1 .. m : \E k \in 1 .. n : k # d /\ i = Shift(k, d) /\ b[i] = f[k]
        /\ \A k \in 1 .. n : k # d =>
             Shift(k, d) \in 1 .. m /\ b[Shift(k, d)] = f[k]
    BY <1>2, <1>5, KeptIs
  <2>2. d <= n => f[d][1] # "spec"
    BY <1>5
  <2>3. ASSUME NEW k \in 1 .. n, k # d PROVE Leads(f, k) <=> Leads(b, Shift(k, d))
    BY <1>1, <1>5, <2>2, <2>3, KeptLeads
  <2> QED
    BY <2>1, <2>3
<1>8. \E q : /\ Pieces(q, n)
             /\ Printed(f, level) = FlattenSeq(q)
             /\ d <= n => q[d] = Empty
             /\ \A k \in 1 .. n : k # d => PieceOf(f, k, V, q[k])
  BY <1>1, <1>4, PrintedPieces
<1> HIDE DEF b, V
<1>9. \E p : /\ Pieces(p, m)
             /\ WithValue(lf, level, Message, g, "msg") = FlattenSeq(p)
             /\ \A i \in 1 .. m : PieceOf(b, i, V, p[i])
  <2> HIDE DEF m
  <2>1. /\ Tokens(b, m) /\ Flagged(b, m, lf.flags)
        /\ Reached(b, m, g, SpecifierName \ {"msg"}, V)
    BY <1>4 DEF b, m, V
  <2> QED
    BY <1>6, <2>1, LinePieces
<1>10. PICK p : /\ Pieces(p, m)
                /\ WithValue(lf, level, Message, g, "msg") = FlattenSeq(p)
                /\ \A i \in 1 .. m : PieceOf(b, i, V, p[i])
  BY <1>9
<1>11. PICK q : /\ Pieces(q, n)
                /\ Printed(f, level) = FlattenSeq(q)
                /\ d <= n => q[d] = Empty
                /\ \A k \in 1 .. n : k # d => PieceOf(f, k, V, q[k])
  BY <1>8
<1>12. ASSUME NEW k \in 1 .. n, k # d PROVE Bare(q[k]) = Bare(p[Shift(k, d)])
  <2> DEFINE i == Shift(k, d)
  <2>1. i \in 1 .. m /\ b[i] = f[k] /\ (Leads(f, k) <=> Leads(b, i))
    BY <1>7, <1>12
  <2> HIDE DEF i, m
  <2>2. PieceOf(b, i, V, p[i]) /\ PieceOf(f, k, V, q[k])
    BY <1>10, <1>11, <1>12, <2>1
  <2>3. Bare(p[i]) = Bare(q[k])
    BY <2>1, <2>2, SamePieces
  <2> QED
    BY <2>3 DEF i
<1>13. Bare(FlattenSeq(q)) = Bare(FlattenSeq(p))
  BY <1>5, <1>10, <1>11, <1>12, FlattenMatch
<1>14. Bare(line) = Bare(Printed(f, level))
  BY <1>4, <1>10, <1>11, <1>13
<1> QED
  BY <1>14 DEF line, lf

-----------------------------------------------------------------------------
(***************************************************************************)
(* The formats a logger is given.                                          *)
(***************************************************************************)

\* Every value of a format that is among the settings is one.
GivesFormats(q) == \A i \in DOMAIN q : q[i].type = "Format" => IsFormat(q[i].value)

FormatsInv == \A l \in AllLevels : IsFormat(stored[l]["Format"])

LEMMA SpecsAreFormat ==
  ASSUME NEW names \in Seq(SpecifierName)
  PROVE  IsFormat(Specs(names))
<1> DEFINE f == Specs(names)
           n == Len(names)
<1>1. n \in Nat /\ f = [i \in 1 .. n |-> Specifier(names[i])]
  BY DEF Specs
<1>2. \A i \in 1 .. n : names[i] \in SpecifierName
  OBVIOUS
<1> HIDE DEF f, n
<1>3. \A i \in 1 .. n : f[i] = Specifier(names[i]) /\ f[i] \in Token
  BY <1>1, <1>2 DEF Token, Specifier
<1>4. f \in Seq(Token)
  <2> HIDE DEF Token
  <2>1. f \in [1 .. n -> Token]
    BY <1>1, <1>3
  <2> QED
    BY <1>1, <2>1
<1>5. Escaped("datetime") \notin Range(f)
  <2>1. DOMAIN f = 1 .. n
    BY <1>1
  <2>2. \A i \in 1 .. n : f[i] # Escaped("datetime")
    BY <1>3, TokensDiffer
  <2> QED
    BY <2>1, <2>2 DEF Range
<1> QED
  BY <1>4, <1>5 DEF IsFormat, f

LEMMA KnownNames ==
  {"app", "level", "levshort", "logger", "thread", "file", "fbase", "line", "loc",
   "func", "user", "host", "msg", "vlevel", "datetime"} \subseteq SpecifierName
BY NamesAre

LEMMA DefaultsGiveFormats == GivesFormats(DefaultSettings)
<1> DEFINE D == DefaultSettings
           plain == Specs(<<"datetime", "level", "logger", "msg">>)
<1>1. /\ IsFormat(plain)
      /\ IsFormat(Specs(<<"datetime", "level", "logger", "user", "host", "func",
                          "loc", "msg">>))
      /\ IsFormat(Specs(<<"datetime", "level", "vlevel", "logger", "msg">>))
      /\ IsFormat(Specs(<<"datetime", "level", "logger", "func", "loc", "msg">>))
  <2> HIDE DEF plain
  <2>1. /\ <<"datetime", "level", "logger", "msg">> \in Seq(SpecifierName)
        /\ <<"datetime", "level", "logger", "user", "host", "func", "loc", "msg">>
             \in Seq(SpecifierName)
        /\ <<"datetime", "level", "vlevel", "logger", "msg">> \in Seq(SpecifierName)
        /\ <<"datetime", "level", "logger", "func", "loc", "msg">> \in Seq(SpecifierName)
    BY KnownNames
  <2> QED
    BY <2>1, SpecsAreFormat DEF plain
<1>2. /\ D[9].value = plain /\ D[11].value = plain /\ D[12].value = plain
      /\ D[10].value = Specs(<<"datetime", "level", "logger", "user", "host", "func",
                               "loc", "msg">>)
      /\ D[13].value = Specs(<<"datetime", "level", "vlevel", "logger", "msg">>)
      /\ D[14].value = Specs(<<"datetime", "level", "logger", "func", "loc", "msg">>)
  BY DEF DefaultSettings, Setting
<1>3. /\ D[1].type = "Enabled" /\ D[2].type = "Filename" /\ D[3].type = "ToFile"
      /\ D[4].type = "ToStandardOutput" /\ D[5].type = "SubsecondPrecision"
      /\ D[6].type = "PerformanceTracking" /\ D[7].type = "MaxLogFileSize"
      /\ D[8].type = "LogFlushThreshold"
  BY DEF DefaultSettings, Setting
<1>4. DOMAIN D = 1 .. 14
  BY DefaultsAre
<1> HIDE DEF D, plain
<1>5. \A i \in 1 .. 14 : \/ i = 1 \/ i = 2 \/ i = 3 \/ i = 4 \/ i = 5 \/ i = 6 \/ i = 7
                         \/ i = 8 \/ i = 9 \/ i = 10 \/ i = 11 \/ i = 12 \/ i = 13 \/ i = 14
  OBVIOUS
<1>6. \A i \in 1 .. 14 : D[i].type = "Format" => IsFormat(D[i].value)
  BY <1>1, <1>2, <1>3, <1>5
<1> QED
  BY <1>4, <1>6 DEF GivesFormats, D

LEMMA ProgramGivesFormats == GivesFormats(ProgramSettings)
<1> DEFINE P == ProgramSettings
           names == <<"datetime", "thread", "file", "level", "line", "msg">>
<1>1. IsFormat(Specs(names))
  <2>1. names \in Seq(SpecifierName)
    BY KnownNames
  <2> HIDE DEF names
  <2> QED
    BY <2>1, SpecsAreFormat
<1>2. P[2].value = Specs(names)
  BY DEF ProgramSettings, Setting
<1>3. /\ P[1].type = "Enabled" /\ P[3].type = "PerformanceTracking"
      /\ P[4].type = "ToFile" /\ P[5].type = "ToStandardOutput" /\ P[6].type = "Filename"
      /\ P[7].type = "LogFlushThreshold" /\ P[8].type = "MaxLogFileSize"
  BY DEF ProgramSettings, Setting
<1>4. DOMAIN P = 1 .. 8
  BY ProgramSettingsAre
<1> HIDE DEF P, names
<1>5. \A i \in 1 .. 8 : \/ i = 1 \/ i = 2 \/ i = 3 \/ i = 4 \/ i = 5 \/ i = 6 \/ i = 7 \/ i = 8
  OBVIOUS
<1>6. \A i \in 1 .. 8 : P[i].type = "Format" => IsFormat(P[i].value)
  BY <1>1, <1>2, <1>3, <1>5
<1> QED
  BY <1>4, <1>6 DEF GivesFormats, P

\* A text names a format only by the name of the type.
LEMMA SaidGivesFormats ==
  ASSUME NEW text \in Text
  PROVE  GivesFormats(Said(text))
<1> SUFFICES ASSUME NEW i \in DOMAIN text, Said(text)[i].type = "Format"
             PROVE  IsFormat(Said(text)[i].value)
  BY DEF GivesFormats, Said
<1> DEFINE type == ConvertFromString(configStringToTypeMap, text[i].name)
<1>1. text[i].kind = "config"
  BY DEF Said, Setting
<1>2. Said(text)[i].type = type /\ Said(text)[i].value = text[i].value
  BY <1>1 DEF Said, Setting
<1>3. \A name : ConvertFromString(configStringToTypeMap, name) = "Format" => name = "format"
  BY DEF ConvertFromString, configStringToTypeMap
<1>4. text[i].name = "format"
  BY <1>2, <1>3
<1> QED
  BY <1>1, <1>2, <1>4, TextAssumption

LEMMA RemainingGivesFormats ==
  ASSUME NEW said
  PROVE  GivesFormats(Remaining(said))
<1>1. \A i \in DOMAIN Remaining(said) :
        \/ /\ i \in DOMAIN DefaultSettings
           /\ Remaining(said)[i] = DefaultSettings[i]
        \/ Remaining(said)[i].type = "Unknown"
  BY DEF Remaining, Setting
<1> QED
  BY <1>1, DefaultsGiveFormats DEF GivesFormats

LEMMA BothGiveFormats ==
  ASSUME NEW a, NEW n, IsList(a, n), NEW b, NEW m, IsList(b, m),
         GivesFormats(a), GivesFormats(b)
  PROVE  DOMAIN Concat(a, b) = 1 .. n + m /\ GivesFormats(Concat(a, b))
<1> DEFINE c == Concat(a, b)
<1>0. Joined(c, a, n, b, m)
  BY Joins
<1> HIDE DEF c
<1>1. /\ DOMAIN c = 1 .. n + m
      /\ \A i \in 1 .. n : c[i] = a[i]
      /\ \A i \in 1 .. m : c[n + i] = b[i]
  BY <1>0, ListIs DEF Joined
<1>2. n \in Nat /\ DOMAIN a = 1 .. n /\ m \in Nat /\ DOMAIN b = 1 .. m
  BY ListIs
<1>3. ASSUME NEW i \in 1 .. n + m, c[i].type = "Format" PROVE IsFormat(c[i].value)
  <2>1. CASE i <= n
    <3>1. i \in DOMAIN a /\ c[i] = a[i]
      BY <1>1, <1>2, <2>1
    <3> QED
      BY <1>3, <3>1 DEF GivesFormats
  <2>2. CASE ~(i <= n)
    <3>1. i - n \in 1 .. m /\ n + (i - n) = i
      BY <1>2, <2>2
    <3>2. i - n \in DOMAIN b /\ c[i] = b[i - n]
      BY <1>1, <1>2, <3>1
    <3> QED
      BY <1>3, <3>2 DEF GivesFormats
  <2> QED
    BY <2>1, <2>2
<1> QED
  BY <1>1, <1>3 DEF GivesFormats, c

\* What is stored of a format is what it was, or one that was given.
LEMMA StoredFormats ==
  ASSUME NEW old, NEW q, NEW k \in Nat, DOMAIN q = 1 .. k, GivesFormats(q),
         \/ \A l \in AllLevels : IsFormat(old[l]["Format"])
         \/ \E i \in 1 .. k : q[i].level = Global /\ q[i].type = "Format"
  PROVE  \A l \in AllLevels : IsFormat(Stored(old, q)[l]["Format"])
<1> SUFFICES ASSUME NEW l \in AllLevels PROVE IsFormat(Stored(old, q)[l]["Format"])
  OBVIOUS
<1> DEFINE own == Positions(q, l, "Format")
           all == Positions(q, Global, "Format")
           value == Stored(old, q)[l]["Format"]
<1>1. value = IF own # {} /\ (all = {} \/ (Max(own) > Max(all) /\ Min(all) < Min(own)))
              THEN q[Max(own)].value
              ELSE IF all # {} THEN q[Max(all)].value ELSE old[l]["Format"]
  BY FormatAssumption DEF Stored
<1>2. /\ own \in SUBSET (1 .. k) /\ all \in SUBSET (1 .. k)
      /\ \A i \in own \cup all : q[i].type = "Format"
      /\ (\A x \in AllLevels : IsFormat(old[x]["Format"])) \/ all # {}
  BY DEF Positions
<1> HIDE DEF own, all, value
<1>3. \A i \in own \cup all : IsFormat(q[i].value)
  BY <1>2 DEF GivesFormats
<1>4. (own # {} => Max(own) \in own) /\ (all # {} => Max(all) \in all)
  BY <1>2, TopOf
<1> QED
  BY <1>1, <1>2, <1>3, <1>4 DEF value

\* Whatever is set, what is stored of a format is one.
LEMMA FormatsKeep ==
  ASSUME FormatsInv, NEW q, NEW k \in Nat, DOMAIN q = 1 .. k, GivesFormats(q),
         stored' = Stored(stored, q)
  PROVE  FormatsInv'
<1>1. \A l \in AllLevels : IsFormat(Stored(stored, q)[l]["Format"])
  BY StoredFormats DEF FormatsInv
<1> QED
  BY <1>1 DEF FormatsInv

LEMMA FormatsInvariance == Spec => []FormatsInv
<1>1. Init => FormatsInv
  <2> SUFFICES ASSUME Init PROVE FormatsInv
    OBVIOUS
  <2> DEFINE q == DefaultSettings
             k == 14
  <2>1. k \in Nat /\ DOMAIN q = 1 .. k /\ GivesFormats(q)
    <3>1. DOMAIN DefaultSettings = 1 .. 14
      BY DefaultsAre
    <3>2. k \in Nat
      OBVIOUS
    <3>3. GivesFormats(q)
      BY DefaultsGiveFormats
    <3> QED
      BY <3>1, <3>2, <3>3
  <2>2. \E i \in 1 .. k : q[i].level = Global /\ q[i].type = "Format"
    <3>1. 9 \in 1 .. k
      OBVIOUS
    <3>2. q[9].level = Global /\ q[9].type = "Format"
      BY DefaultsAre
    <3> HIDE DEF q, k
    <3> QED
      BY <3>1, <3>2
  <2>3. stored = Stored(Nothing, q)
    BY InitStores
  <2> HIDE DEF q, k
  <2>4. \A l \in AllLevels : IsFormat(Stored(Nothing, q)[l]["Format"])
    BY <2>1, <2>2, StoredFormats
  <2> QED
    BY <2>3, <2>4 DEF FormatsInv
<1>2. SettingsInv /\ FormatsInv /\ [Next]_vars => FormatsInv'
  <2> SUFFICES ASSUME SettingsInv, FormatsInv, [Next]_vars PROVE FormatsInv'
    OBVIOUS
  <2>1. CASE SetupLogger
    <3> DEFINE a == DefaultSettings
               b == ProgramSettings
               n == 14
               m == 8
               q == Concat(a, b)
    <3>1. IsList(a, n) /\ IsList(b, m) /\ GivesFormats(a) /\ GivesFormats(b)
      BY DefaultsAre, ProgramSettingsAre, DefaultsGiveFormats, ProgramGivesFormats
    <3>2. stored' = Stored(stored, q)
      BY <2>1, SetupStores DEF Concat
    <3>3. n + m \in Nat
      OBVIOUS
    <3> HIDE DEF a, b, n, m
    <3>4. DOMAIN q = 1 .. n + m /\ GivesFormats(q)
      BY <3>1, BothGiveFormats
    <3> HIDE DEF q
    <3> QED
      BY <3>2, <3>3, <3>4, FormatsKeep
  <2>2. ASSUME NEW text \in Text, ReconfigureLogger(text) PROVE FormatsInv'
    <3> DEFINE q == Said(text)
               k == Len(text)
    <3>1. k \in Nat /\ DOMAIN q = 1 .. k
      BY ParsedRegisters
    <3>2. GivesFormats(q) /\ stored' = Stored(stored, q)
      BY <2>2, SaidGivesFormats, TextStores
    <3> HIDE DEF q, k
    <3> QED
      BY <3>1, <3>2, FormatsKeep
  <2>3. ASSUME NEW text \in Text, ReconfigureWithDefaults(text) PROVE FormatsInv'
    <3> DEFINE a == Said(text)
               b == Remaining(a)
               n == Len(text)
               m == 14
               q == Concat(a, b)
    <3>1. n \in Nat /\ DOMAIN a = 1 .. n
      BY ParsedRegisters
    <3>2. IsList(a, n)
      <4>1. a = [i \in 1 .. n |-> a[i]]
        BY <3>1 DEF Said
      <4> HIDE DEF a, n
      <4> QED
        BY <3>1, <4>1 DEF IsList
    <3>3. IsList(b, m) /\ GivesFormats(a) /\ GivesFormats(b) /\ m \in Nat
      BY RemainingAre, SaidGivesFormats, RemainingGivesFormats
    <3>4. stored' = Stored(stored, q)
      BY <2>3, DefaultsStore DEF Concat
    <3> HIDE DEF a, b, n, m
    <3>5. DOMAIN q = 1 .. n + m /\ GivesFormats(q)
      BY <3>2, <3>3, BothGiveFormats
    <3>6. n + m \in Nat
      BY <3>1, <3>3
    <3> HIDE DEF q
    <3> QED
      BY <3>4, <3>5, <3>6, FormatsKeep
  <2>4. ASSUME NEW s, s = Setting(s.level, s.type, s.value),
               s.type = "Format" => IsFormat(s.value), ReconfigureAllLoggers(s)
        PROVE  FormatsInv'
    <3> DEFINE q == <<s>>
               k == 1
    <3>1. k \in Nat /\ DOMAIN q = 1 .. k /\ GivesFormats(q)
      <4>1. DOMAIN q = 1 .. 1 /\ q[1] = s
        OBVIOUS
      <4>2. \A i \in 1 .. 1 : i = 1
        OBVIOUS
      <4> HIDE DEF q
      <4> QED
        BY <2>4, <4>1, <4>2 DEF GivesFormats
    <3>2. stored' = Stored(stored, q)
      BY <2>4, ChangeStores
    <3> HIDE DEF q, k
    <3> QED
      BY <3>1, <3>2, FormatsKeep
  <2>5. ASSUME NEW s \in Change, ReconfigureAllLoggers(s) PROVE FormatsInv'
    BY <2>4, <2>5, ChangeAssumption
  <2>6. ASSUME NEW level \in AllLevels, NEW format \in Format,
               ReconfigureAllLoggers(Setting(level, "Format", format))
        PROVE  FormatsInv'
    <3> DEFINE s == Setting(level, "Format", format)
    <3>1. s = Setting(s.level, s.type, s.value) /\ IsFormat(s.value)
      BY FormatAssumption, SettingFields
    <3>2. ReconfigureAllLoggers(s)
      BY <2>6
    <3> HIDE DEF s
    <3> QED
      BY <2>4, <3>1, <3>2
  <2>7. CASE UNCHANGED vars
    BY <2>7, NothingStored DEF FormatsInv
  <2> QED
    BY <2>1, <2>2, <2>3, <2>5, <2>6, <2>7 DEF Next
<1> QED
  BY <1>1, <1>2, SettingsInvariance, PTL DEF Spec

\* A level has the format that is stored of it, parsed for it.
LEMMA TypedFormat ==
  ASSUME SettingsInv, NEW l \in Level
  PROVE  GetConfig(typed["Format"], l) =
         ResolveLoggerFormatSpec(ParseFromFormat(l, stored[l]["Format"]))
<1> DEFINE b == Build(conf)
           map == TypedMap(conf, "Format")
           V(x) == Converted(Setting(x, "Format", stored[x]["Format"]))
<1>1. "Format" \in ConfigurationType \ {"Filename", "ToFile"}
  BY FormatAssumption
<1>2. \A type \in ConfigurationType : conf[type] = FullList(stored, type)
  BY DEF SettingsInv
<1>3. b = [type \in ConfigurationType |-> b[type]] /\ b["Format"] = map
  BY <1>1, <1>2, BuildIs
<1>4. typed = Resolved(b)
  BY DEF SettingsInv
<1> HIDE DEF b, map
<1>5. typed["Format"] = [x \in DOMAIN map |-> IF x = Global THEN map[x]
                                             ELSE ResolveLoggerFormatSpec(map[x])]
  BY <1>1, <1>3, <1>4 DEF Resolved
<1>6. LevelValues(map, stored, "Format")
  BY <1>1, <1>2, LevelsAre DEF map, GlobalTypes
<1>7. \A v, x : /\ Converted(Setting(x, "Format", v)) = ParseFromFormat(x, v)
                /\ ParseFromFormat(x, v).level = x
  <2> SUFFICES ASSUME NEW v, NEW x
               PROVE  /\ Converted(Setting(x, "Format", v)) = ParseFromFormat(x, v)
                      /\ ParseFromFormat(x, v).level = x
    OBVIOUS
  <2> DEFINE s == Setting(x, "Format", v)
             f == ParseFromFormat(x, v)
  <2>1. s.type = "Format" /\ s.value = v /\ s.level = x
    BY SettingFields
  <2> HIDE DEF s
  <2>2. Converted(s) = f
    BY <2>1 DEF Converted
  <2>3. \E a, d, e : f = [level |-> x, userFormat |-> v, flags |-> a, date |-> d, format |-> e]
    BY DEF ParseFromFormat
  <2> HIDE DEF f
  <2>4. f.level = x
    BY <2>3
  <2> QED
    BY <2>2, <2>4 DEF s, f
<1>8. /\ IsMap(map)
      /\ \A x \in AllLevels : GetConfig(map, x) = ParseFromFormat(x, stored[x]["Format"])
  BY <1>6, <1>7 DEF LevelValues
<1>9. l \in AllLevels /\ Global \in AllLevels /\ l # Global
  BY OrderFacts DEF AllLevels
<1>10. ParseFromFormat(l, stored[l]["Format"]) # ParseFromFormat(Global, stored[Global]["Format"])
  BY <1>7, <1>9
<1>11. l \in DOMAIN map /\ map[l] = ParseFromFormat(l, stored[l]["Format"])
  BY <1>8, <1>9, <1>10 DEF GetConfig, IsMap
<1> QED
  BY <1>5, <1>9, <1>11 DEF GetConfig

\* A statement prints the format asked for its level, where it has not strayed:
\* however the passes of the parser, of the logger and of the builder replace the
\* specifiers one after the other, each is replaced once, in its place, and what
\* the message holds is printed as it is.
THEOREM LinesAreFormats == Spec => []LineIsFormat
<1>1. SettingsInv /\ FormatsInv /\ SettingsAgree => LineIsFormat
  <2> SUFFICES ASSUME SettingsInv, FormatsInv, SettingsAgree,
                      NEW l \in Level, <<l, "Format">> \notin strayed
               PROVE  Bare(BuildLine(GetConfig(typed["Format"], l), l, Message)) =
                      Bare(Printed(wanted[l]["Format"], l))
    BY DEF LineIsFormat, Bare
  <2>1. l # "Global" /\ l \in AllLevels
    BY OrderFacts DEF AllLevels, Global
  <2>2. IsFormat(stored[l]["Format"])
    BY <2>1 DEF FormatsInv
  <2>3. stored[l]["Format"] = wanted[l]["Format"]
    BY <2>1, FormatAssumption DEF SettingsAgree, Agree, Same, GlobalTypes
  <2> QED
    BY <2>1, <2>2, <2>3, TypedFormat, LineOfFormat
<1> QED
  BY <1>1, SettingsInvariance, FormatsInvariance, SettingsAgreement, PTL
=============================================================================
