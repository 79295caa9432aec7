---------------------------- MODULE LoggingProofs ----------------------------
(***************************************************************************)
(* What a crash loses of a log file, how large the file becomes, and when  *)
(* it loses what is on the disk; for every set of loggers, files, levels   *)
(* and configurations, every threshold and every size limit.               *)
(***************************************************************************)
EXTENDS Logging, FiniteSetTheorems, TLAPS

-----------------------------------------------------------------------------
(***************************************************************************)
(* The invariant.                                                          *)
(***************************************************************************)

\* No count reaches the threshold of its level, whatever happened to the file.
BelowThreshold ==
  \A id \in DOMAIN loggers, l \in Level :
    \/ loggers[id].unflushed[l] = 0
    \/ loggers[id].unflushed[l] < Use(loggers[id], l).threshold

\* The history has the limits of those who write now.
LimitsKnown == \A f \in File : LimitsOf(loggers, f) \subseteq limits[f]

\* Nothing is ever written to a file that cannot be opened.
ClosedEmpty ==
  \A f \in Unopenable : files[f].disk = 0 /\ files[f].held = 0 /\ ~files[f].failed

\* Loggers, streams and what they hold go with the process.
Stopped ==
  ~running => /\ DOMAIN loggers = {}
              /\ \A f \in File : files[f].held = 0 /\ stray[f] = 0

HasDefaults == running => defaults \in Configured

\* What FileBounded and LossBounded say of one file, of which n lines are
\* uncounted, and to which somebody writes if written.
Safe(file, lims, n, written) ==
  ~file.failed =>
    /\ file.held <= n
    /\ (written /\ 0 \notin lims) => \E m \in lims : file.disk + file.held < m + n
FilesSafe ==
  \A f \in File :
    Safe(files[f], limits[f], Uncounted(f), Writers(loggers, f) # {})

LoggingInv ==
  /\ TypeOK /\ BelowThreshold /\ LimitsKnown /\ ClosedEmpty /\ Stopped
  /\ HasDefaults /\ FilesSafe

-----------------------------------------------------------------------------
(***************************************************************************)
(* One file.                                                               *)
(***************************************************************************)

Size(file) == file.disk + file.held

LEMMA FileFields ==
  ASSUME NEW file \in LogFile
  PROVE  /\ file.known \in BOOLEAN /\ file.failed \in BOOLEAN
         /\ file.held \in Nat /\ file.held <= BufferSize /\ file.disk \in Nat
         /\ Size(file) \in Nat
BY BufferAssumption DEF LogFile, Size

\* A flush leaves the file as it was, fails, drops what is held or writes it.
LEMMA FileFlushedFields ==
  ASSUME NEW file \in LogFile, NEW f, diskFull \in BOOLEAN
  PROVE  LET g == Flushed(file, f)
         IN  /\ g \in LogFile /\ g.known = file.known
             /\ \/ g = file /\ (file.failed \/ file.held = 0)
                \/ /\ f \in Device /\ ~file.failed /\ ~g.failed
                   /\ g.held = 0 /\ g.disk = file.disk
                \/ /\ f \notin Device /\ ~file.failed /\ diskFull /\ g.failed
                   /\ g.held = file.held /\ g.disk = file.disk
                \/ /\ f \notin Device /\ ~file.failed /\ ~g.failed
                   /\ g.held = 0 /\ g.disk = file.disk + file.held
<1>1. file.held \in Nat /\ file.disk \in Nat /\ file.failed \in BOOLEAN
      /\ file.disk + file.held \in Nat /\ 0 \in 0 .. BufferSize
  BY FileFields, BufferAssumption
<1>2. CASE file.failed \/ file.held = 0
  BY <1>2 DEF Flushed
<1>3. CASE ~(file.failed \/ file.held = 0)
  <2>1. CASE f \in Device
    <3>1. Flushed(file, f) = [file EXCEPT !.held = 0]
      BY <1>3, <2>1 DEF Flushed
    <3> QED
      BY <1>1, <1>3, <2>1, <3>1 DEF LogFile
  <2>2. CASE f \notin Device /\ diskFull
    <3>1. Flushed(file, f) = [file EXCEPT !.failed = TRUE]
      BY <1>3, <2>2 DEF Flushed
    <3> QED
      BY <1>1, <1>3, <2>2, <3>1 DEF LogFile
  <2>3. CASE f \notin Device /\ ~diskFull
    <3>1. Flushed(file, f) = [file EXCEPT !.held = 0, !.disk = @ + file.held]
      BY <1>3, <2>3 DEF Flushed
    <3> QED
      BY <1>1, <1>3, <2>3, <3>1 DEF LogFile
  <2> QED
    BY <2>1, <2>2, <2>3
<1> QED
  BY <1>2, <1>3

\* A line makes a file larger by at most one, unless the stream fails.
LEMMA FileWrittenFields ==
  ASSUME NEW file \in LogFile, NEW f, diskFull \in BOOLEAN
  PROVE  LET g == Written(file, f)
         IN  /\ g \in LogFile /\ g.known = file.known
             /\ g.disk >= file.disk /\ (f \in Device => g.disk = file.disk)
             /\ file.failed => g.failed
             /\ g.failed => file.failed \/ diskFull
             /\ Size(g) <= Size(file) + 1 /\ g.held <= file.held + 1
<1>1. /\ file.held \in Nat /\ file.disk \in Nat /\ file.failed \in BOOLEAN
      /\ file.disk + file.held + 1 \in Nat /\ 0 \in 0 .. BufferSize
      /\ file.held <= BufferSize /\ BufferSize \in Nat
  BY FileFields, BufferAssumption
<1>2. CASE file.failed
  BY <1>1, <1>2 DEF Written, Size
<1>3. CASE ~file.failed /\ file.held < BufferSize
  <2>1. Written(file, f) = [file EXCEPT !.held = @ + 1]
    BY <1>3 DEF Written
  <2>2. file.held + 1 \in 0 .. BufferSize
    BY <1>1, <1>3
  <2> QED
    BY <1>1, <1>3, <2>1, <2>2 DEF LogFile, Size
<1>4. CASE ~file.failed /\ ~(file.held < BufferSize)
  <2>1. CASE f \in Device
    <3>1. Written(file, f) = [file EXCEPT !.held = 0]
      BY <1>4, <2>1 DEF Written
    <3>2. LET g == [file EXCEPT !.held = 0]
          IN  /\ g \in LogFile /\ g.known = file.known /\ g.held = 0
              /\ g.disk = file.disk /\ g.failed = file.failed
      BY <1>1 DEF LogFile
    <3> QED
      BY <1>1, <1>4, <2>1, <3>1, <3>2 DEF Size
  <2>2. CASE f \notin Device /\ diskFull
    <3>1. Written(file, f) = [file EXCEPT !.failed = TRUE]
      BY <1>4, <2>2 DEF Written
    <3>2. LET g == [file EXCEPT !.failed = TRUE]
          IN  /\ g \in LogFile /\ g.known = file.known /\ g.held = file.held
              /\ g.disk = file.disk /\ g.failed
      BY <1>1 DEF LogFile
    <3> QED
      BY <1>1, <1>4, <2>2, <3>1, <3>2 DEF Size
  <2>3. CASE f \notin Device /\ ~diskFull
    <3>1. Written(file, f) = [file EXCEPT !.held = 0, !.disk = @ + file.held + 1]
      BY <1>4, <2>3 DEF Written
    <3>2. LET g == [file EXCEPT !.held = 0, !.disk = @ + file.held + 1]
          IN  /\ g \in LogFile /\ g.known = file.known /\ g.held = 0
              /\ g.disk = file.disk + file.held + 1 /\ g.failed = file.failed
      BY <1>1 DEF LogFile
    <3> QED
      BY <1>1, <1>4, <2>3, <3>1, <3>2 DEF Size
  <2> QED
    BY <2>1, <2>2, <2>3
<1> QED
  BY <1>2, <1>3, <1>4

\* A file that is compared with some limits is emptied, or is below them all.
LEMMA FileRolledFields ==
  ASSUME NEW file \in LogFile, NEW ns \in SUBSET Nat
  PROVE  LET g == Rolled(file, ns)
         IN  /\ g \in LogFile /\ g.known = file.known
             /\ \/ /\ g = file
                   /\ \A n \in ns \ {0} : ~file.failed /\ Size(file) < n
                \/ /\ ~g.failed /\ g.held = 0 /\ g.disk = 0
                   /\ \E n \in ns \ {0} : file.failed \/ Size(file) >= n
<1>1. 0 \in Nat /\ 0 \in 0 .. BufferSize /\ Size(file) \in Nat
      /\ file.failed \in BOOLEAN
  BY FileFields, BufferAssumption
<1>2. CASE \E n \in ns \ {0} : AtLeast(file, n)
  <2>1. Rolled(file, ns) = [file EXCEPT !.disk = 0, !.held = 0, !.failed = FALSE]
    BY <1>2 DEF Rolled, Truncated
  <2>2. \E n \in ns \ {0} : file.failed \/ Size(file) >= n
    BY <1>2 DEF AtLeast, Size
  <2> QED
    BY <1>1, <2>1, <2>2 DEF LogFile
<1>3. CASE ~\E n \in ns \ {0} : AtLeast(file, n)
  <2>1. Rolled(file, ns) = file
    BY <1>3 DEF Rolled
  <2>2. \A n \in ns \ {0} : ~file.failed /\ Size(file) < n
    BY <1>1, <1>3 DEF AtLeast, Size
  <2> QED
    BY <2>1, <2>2
<1> QED
  BY <1>2, <1>3

\* What a flush with some limits makes of a file: nothing is held, or it is
\* broken; it is below every limit; and it is not larger than it was.
LEMMA FlushAndRoll ==
  ASSUME NEW file \in LogFile, NEW f, NEW ns \in SUBSET Nat, diskFull \in BOOLEAN
  PROVE  LET g == Rolled(Flushed(file, f), ns)
         IN  /\ g \in LogFile /\ g.known = file.known
             /\ f \in Device => g.disk <= file.disk
             /\ g.failed => file.failed \/ diskFull
             /\ g.failed \/ g.held = 0
             /\ \A n \in ns \ {0} : ~g.failed /\ Size(g) < n
             /\ Size(g) <= Size(file) /\ g.held <= file.held
             /\ g.disk < file.disk =>
                  \E n \in ns \ {0} : file.failed \/ diskFull \/ Size(file) >= n
<1> DEFINE h == Flushed(file, f)
<1> DEFINE g == Rolled(h, ns)
<1>1. /\ h \in LogFile /\ h.known = file.known
      /\ h.failed => file.failed \/ diskFull
      /\ h.failed \/ h.held = 0
      /\ Size(h) <= Size(file) /\ h.held <= file.held /\ h.disk >= file.disk
      /\ f \in Device => h.disk = file.disk
  BY FileFlushedFields, FileFields DEF Size
<1>2. /\ g \in LogFile /\ g.known = h.known
      /\ \/ /\ g = h
            /\ \A n \in ns \ {0} : ~h.failed /\ Size(h) < n
         \/ /\ ~g.failed /\ g.held = 0 /\ g.disk = 0
            /\ \E n \in ns \ {0} : h.failed \/ Size(h) >= n
  BY <1>1, FileRolledFields
<1>3. /\ file.held \in Nat /\ file.disk \in Nat /\ Size(file) \in Nat
      /\ h.held \in Nat /\ h.disk \in Nat /\ Size(h) \in Nat
  BY <1>1, FileFields
<1> HIDE DEF g, h
<1>4. CASE g = h /\ \A n \in ns \ {0} : ~h.failed /\ Size(h) < n
  BY <1>1, <1>2, <1>3, <1>4 DEF g, h
<1>5. CASE /\ ~g.failed /\ g.held = 0 /\ g.disk = 0
           /\ \E n \in ns \ {0} : h.failed \/ Size(h) >= n
  <2>1. Size(g) = 0
    BY <1>5 DEF Size
  <2>2. \A n \in ns \ {0} : n \in Nat /\ 0 < n
    OBVIOUS
  <2>3. \E n \in ns \ {0} : file.failed \/ diskFull \/ Size(file) >= n
    BY <1>1, <1>3, <1>5, <2>2
  <2> QED
    BY <1>1, <1>2, <1>3, <1>5, <2>1, <2>2, <2>3 DEF g, h
<1> QED
  BY <1>2, <1>4, <1>5

-----------------------------------------------------------------------------
(***************************************************************************)
(* The registry, and the lines its loggers have counted.                   *)
(***************************************************************************)

LoggerState == [uses : Configured, unflushed : [Level -> Nat]]
IsRegistry(ls) == DOMAIN ls \subseteq Logger /\ ls \in [DOMAIN ls -> LoggerState]

LEMMA UseTypes ==
  ASSUME NEW logger \in LoggerState, NEW l \in AllLevels
  PROVE  LET u == Use(logger, l)
         IN  /\ u \in [enabled : BOOLEAN, toFile : BOOLEAN, file : File,
                       limit : Nat, threshold : Nat]
             /\ u.file \in File /\ u.limit \in Nat /\ u.threshold \in Nat
<1>1. logger.uses \in Configured
  BY DEF LoggerState
<1>2. Use(logger, l) \in [enabled : BOOLEAN, toFile : BOOLEAN, file : File,
                         limit : Nat, threshold : Nat]
  BY <1>1, UsesAssumption DEF Use
<1> QED
  BY <1>2

LEMMA Levels == Level \subseteq AllLevels /\ Global \in AllLevels
BY DEF AllLevels

LEMMA WriterIs ==
  ASSUME NEW ls, NEW f, NEW w
  PROVE  w \in Writers(ls, f) <=>
           /\ w \in (DOMAIN ls) \X Level /\ Use(ls[w[1]], w[2]).toFile
           /\ Use(ls[w[1]], w[2]).file = f
BY DEF Writers, WritesTo

LEMMA WriterCount ==
  ASSUME NEW ls, IsRegistry(ls), NEW f, NEW w \in Writers(ls, f)
  PROVE  /\ w[1] \in DOMAIN ls /\ w[2] \in Level /\ ls[w[1]] \in LoggerState
         /\ ls[w[1]].unflushed[w[2]] \in Nat
         /\ Use(ls[w[1]], w[2]).limit \in Nat
<1>1. w \in (DOMAIN ls) \X Level
  BY WriterIs
<1>2. w[1] \in DOMAIN ls /\ w[2] \in Level /\ ls[w[1]] \in LoggerState
  BY <1>1 DEF IsRegistry
<1>3. ls[w[1]].unflushed \in [Level -> Nat]
  BY <1>2 DEF LoggerState
<1> QED
  BY <1>2, <1>3, UseTypes, Levels

LEMMA LimitsAreNat ==
  ASSUME NEW ls, IsRegistry(ls), NEW f
  PROVE  LimitsOf(ls, f) \in SUBSET Nat
BY WriterCount DEF LimitsOf

LEMMA CountedIs ==
  ASSUME NEW ls, NEW f, NEW x
  PROVE  x \in Counted(ls, f) <=>
           \E w \in Writers(ls, f) : \E i \in 1 .. ls[w[1]].unflushed[w[2]] :
             x = <<w, i>>
<1>1. \A w \in Writers(ls, f) :
        x \in {w} \X (1 .. ls[w[1]].unflushed[w[2]]) <=>
          \E i \in 1 .. ls[w[1]].unflushed[w[2]] : x = <<w, i>>
  OBVIOUS
<1> QED
  BY <1>1 DEF Counted

LEMMA CountedFinite ==
  ASSUME NEW ls, IsRegistry(ls), NEW f
  PROVE  /\ IsFiniteSet(Counted(ls, f))
         /\ Cardinality(Counted(ls, f)) \in Nat
<1> DEFINE Of(w) == {w} \X (1 .. ls[w[1]].unflushed[w[2]])
<1>1. IsFiniteSet(Logger \X Level)
  BY LoggerAssumption, FS_Product
<1>2. Writers(ls, f) \in SUBSET (Logger \X Level)
  BY DEF Writers, IsRegistry
<1>3. IsFiniteSet(Writers(ls, f))
  BY <1>1, <1>2, FS_Subset
<1>4. ASSUME NEW w \in Writers(ls, f)
      PROVE  IsFiniteSet(Of(w))
  <2> DEFINE n == ls[w[1]].unflushed[w[2]]
  <2>1. 1 \in Int /\ n \in Int
    BY WriterCount
  <2>2. IsFiniteSet({w})
    BY FS_Singleton, Zenon
  <2> HIDE DEF n
  <2>3. IsFiniteSet(1 .. n)
    BY <2>1, FS_Interval
  <2>4. IsFiniteSet({w} \X (1 .. n))
    BY <2>2, <2>3, FS_Product
  <2> QED
    BY <2>4 DEF n
<1>5. IsFiniteSet({Of(w) : w \in Writers(ls, f)})
  <2> DEFINE S == Writers(ls, f)
             T == {Of(w) : w \in S}
             op == [w \in S |-> Of(w)]
  <2> HIDE DEF Of, S
  <2>1. op \in Surjection(S, T)
    BY DEF Surjection
  <2>2. IsFiniteSet(S)
    BY <1>3 DEF S
  <2> HIDE DEF T, op
  <2>3. IsFiniteSet(T)
    BY <2>1, <2>2, FS_Surjection
  <2> QED
    BY <2>3 DEF T, S
<1>6. \A T \in {Of(w) : w \in Writers(ls, f)} : IsFiniteSet(T)
  BY <1>4
<1>7. IsFiniteSet(UNION {Of(w) : w \in Writers(ls, f)})
  <2> HIDE DEF Of
  <2> QED
    BY <1>5, <1>6, FS_UNION
<1> QED
  BY <1>7, FS_CardinalityType DEF Counted

\* Lists whose writers of a file have counted the same have counted the same.
LEMMA CountedSame ==
  ASSUME NEW ls, NEW ms, NEW f, Writers(ms, f) = Writers(ls, f),
         \A w \in Writers(ls, f) :
           ms[w[1]].unflushed[w[2]] = ls[w[1]].unflushed[w[2]]
  PROVE  Counted(ms, f) = Counted(ls, f)
BY DEF Counted

\* A line more is a line more.
LEMMA CountedMore ==
  ASSUME NEW ls, IsRegistry(ls), NEW ms, NEW f, NEW v \in Writers(ls, f),
         Writers(ms, f) = Writers(ls, f),
         \A w \in Writers(ls, f) :
           ms[w[1]].unflushed[w[2]] =
             IF w = v THEN ls[w[1]].unflushed[w[2]] + 1
                      ELSE ls[w[1]].unflushed[w[2]]
  PROVE  Cardinality(Counted(ms, f)) = Cardinality(Counted(ls, f)) + 1
<1> DEFINE n == ls[v[1]].unflushed[v[2]]
<1>1. n \in Nat
  BY WriterCount
<1>2. ASSUME NEW x
      PROVE  x \in Counted(ms, f) <=> x \in Counted(ls, f) \/ x = <<v, n + 1>>
  <2>1. x \in Counted(ms, f) <=>
          \E w \in Writers(ls, f) : \E i \in 1 .. ms[w[1]].unflushed[w[2]] :
             x = <<w, i>>
    BY CountedIs
  <2>2. ms[v[1]].unflushed[v[2]] = n + 1
    OBVIOUS
  <2>3. \A i : i \in 1 .. n + 1 <=> i \in 1 .. n \/ i = n + 1
    BY <1>1
  <2> HIDE DEF n
  <2>4. (\E w \in Writers(ls, f) : \E i \in 1 .. ms[w[1]].unflushed[w[2]] : x = <<w, i>>)
        <=> \/ \E w \in Writers(ls, f) \ {v} :
                 \E i \in 1 .. ls[w[1]].unflushed[w[2]] : x = <<w, i>>
            \/ \E i \in 1 .. n + 1 : x = <<v, i>>
    BY <2>2
  <2>5. x \in Counted(ls, f) <=>
            \/ \E w \in Writers(ls, f) \ {v} :
                 \E i \in 1 .. ls[w[1]].unflushed[w[2]] : x = <<w, i>>
            \/ \E i \in 1 .. n : x = <<v, i>>
    BY CountedIs DEF n
  <2> QED
    BY <2>1, <2>3, <2>4, <2>5
<1>3. <<v, n + 1>> \notin Counted(ls, f)
  <2>1. n + 1 \notin 1 .. n
    BY <1>1
  <2> QED
    BY <2>1, CountedIs
<1>4. Counted(ms, f) = Counted(ls, f) \cup {<<v, n + 1>>}
  BY <1>2
<1> HIDE DEF n
<1> QED
  BY <1>3, <1>4, CountedFinite, FS_AddElement

-----------------------------------------------------------------------------
(***************************************************************************)
(* What the histories remember.                                            *)
(***************************************************************************)

LEMMA Typed ==
  ASSUME LoggingInv
  PROVE  /\ IsRegistry(loggers) /\ files \in [File -> LogFile]
         /\ limits \in [File -> SUBSET Nat] /\ stray \in [File -> Nat]
         /\ diskFull \in BOOLEAN /\ running \in BOOLEAN
         /\ running <=> "default" \in DOMAIN loggers
BY DEF LoggingInv, TypeOK, IsRegistry, LoggerState

LEMMA Remembered ==
  ASSUME LoggingInv, IsRegistry(loggers'), files' \in [File -> LogFile], Remember
  PROVE  /\ limits' \in [File -> SUBSET Nat] /\ stray' \in [File -> Nat]
         /\ \A f \in File :
              /\ LimitsOf(loggers', f) \subseteq limits'[f]
              /\ \/ limits'[f] = limits[f] \cup LimitsOf(loggers', f)
                 \/ /\ Size(files'[f]) = 0
                    /\ limits'[f] = LimitsOf(loggers', f)
              /\ \/ stray'[f] = stray[f]
                 \/ /\ stray'[f] = 0 /\ files'[f].held = 0
                    /\ \/ limits'[f] \subseteq {0}
                       \/ \E n \in limits'[f] : files'[f].disk < n
<1>1. limits \in [File -> SUBSET Nat] /\ stray \in [File -> Nat]
  BY Typed
<1>2. \A f \in File :
        limits'[f] = IF Size(files'[f]) = 0 THEN LimitsOf(loggers', f)
                                            ELSE limits[f] \cup LimitsOf(loggers', f)
  BY DEF Remember, Limits, Size
<1>3. limits' = [f \in File |-> limits'[f]]
  BY DEF Remember, Limits
<1>4. \A f \in File : LimitsOf(loggers', f) \in SUBSET Nat
  BY LimitsAreNat
<1>5. \A f \in File : limits'[f] \in SUBSET Nat
  BY <1>1, <1>2, <1>4
<1>6. \A f \in File :
        stray'[f] = IF /\ files'[f].held = 0
                       /\ \/ limits'[f] \subseteq {0}
                          \/ \E n \in limits'[f] : files'[f].disk < n
                    THEN 0 ELSE stray[f]
  BY DEF Remember, Stray
<1>7. stray' = [f \in File |-> stray'[f]]
  BY DEF Remember, Stray
<1>8. \A f \in File : stray'[f] \in Nat
  BY <1>1, <1>6
<1>9. limits' \in [File -> SUBSET Nat]
  BY <1>3, <1>5
<1>10. stray' \in [File -> Nat]
  BY <1>7, <1>8
<1>11. ASSUME NEW f \in File
       PROVE  /\ LimitsOf(loggers', f) \subseteq limits'[f]
              /\ \/ limits'[f] = limits[f] \cup LimitsOf(loggers', f)
                 \/ /\ Size(files'[f]) = 0
                    /\ limits'[f] = LimitsOf(loggers', f)
  BY <1>2
<1>12. ASSUME NEW f \in File
       PROVE  \/ stray'[f] = stray[f]
              \/ /\ stray'[f] = 0 /\ files'[f].held = 0
                 /\ \/ limits'[f] \subseteq {0}
                    \/ \E n \in limits'[f] : files'[f].disk < n
  BY <1>6
<1> QED
  BY <1>9, <1>10, <1>11, <1>12

\* A step that writes k lines to a file empties its stream or breaks it, or
\* holds no more than it counts; and leaves it below a limit, or grows it by no
\* more than it counts and adds no limit.
SafelyMoved(f, k) ==
  \/ files'[f].failed
  \/ /\ \/ files'[f].held = 0
        \/ /\ \/ files'[f].held <= k
              \/ ~files[f].failed /\ files'[f].held <= files[f].held + k
           /\ Cardinality(Counted(loggers', f)) =
                Cardinality(Counted(loggers, f)) + k
     /\ \/ Writers(loggers', f) = {} \/ Size(files'[f]) = 0
        \/ \E n \in LimitsOf(loggers, f) \cup LimitsOf(loggers', f) :
             n = 0 \/ Size(files'[f]) < n
        \/ /\ \/ Size(files'[f]) <= k
              \/ /\ ~files[f].failed /\ Size(files'[f]) <= Size(files[f]) + k
                 /\ Writers(loggers, f) # {}
                 /\ LimitsOf(loggers', f) \subseteq limits[f]
           /\ Cardinality(Counted(loggers', f)) =
                Cardinality(Counted(loggers, f)) + k

LEMMA SafeAfter ==
  ASSUME LoggingInv, IsRegistry(loggers'), files' \in [File -> LogFile], Remember,
         NEW f \in File, NEW k \in Nat, SafelyMoved(f, k)
  PROVE  Safe(files'[f], limits'[f],
              stray'[f] + Cardinality(Counted(loggers', f)),
              Writers(loggers', f) # {})
<1> DEFINE C == Cardinality(Counted(loggers, f))
           D == Cardinality(Counted(loggers', f))
           disk == files[f].disk     diskN == files'[f].disk
           held == files[f].held     heldN == files'[f].held
           L == limits[f]            M == limits'[f]
           s == stray[f]             t == stray'[f]
<1>1. /\ C \in Nat /\ D \in Nat /\ s \in Nat /\ t \in Nat
      /\ L \in SUBSET Nat /\ M \in SUBSET Nat
  BY Typed, CountedFinite, Remembered
<1>2. /\ disk \in Nat /\ held \in Nat /\ diskN \in Nat /\ heldN \in Nat
      /\ files[f].failed \in BOOLEAN /\ files'[f].failed \in BOOLEAN
  BY Typed, FileFields
<1>3. Size(files[f]) = disk + held /\ Size(files'[f]) = diskN + heldN
  BY DEF Size
<1>4. LimitsOf(loggers, f) \subseteq L /\ LimitsOf(loggers', f) \subseteq M
  BY Remembered DEF LoggingInv, LimitsKnown
<1>5. \/ M = L \cup LimitsOf(loggers', f)
      \/ diskN + heldN = 0 /\ M = LimitsOf(loggers', f)
  BY <1>3, Remembered
<1>6. \/ t = s
      \/ /\ t = 0 /\ heldN = 0
         /\ M \subseteq {0} \/ \E n \in M : diskN < n
  BY Remembered
<1>7. ~files[f].failed =>
        /\ held <= s + C
        /\ (Writers(loggers, f) # {} /\ 0 \notin L) =>
             \E m \in L : disk + held < m + (s + C)
  BY DEF LoggingInv, FilesSafe, Safe, Uncounted
<1>8. Writers(loggers', f) # {} => LimitsOf(loggers', f) # {}
  BY DEF LimitsOf
<1>11. \/ files'[f].failed
       \/ /\ \/ heldN = 0
             \/ (heldN <= k \/ (~files[f].failed /\ heldN <= held + k)) /\ D = C + k
          /\ \/ Writers(loggers', f) = {} \/ diskN + heldN = 0
             \/ \E n \in LimitsOf(loggers, f) \cup LimitsOf(loggers', f) :
                  n = 0 \/ diskN + heldN < n
             \/ diskN + heldN <= k /\ D = C + k
             \/ /\ ~files[f].failed /\ diskN + heldN <= (disk + held) + k
                /\ D = C + k
                /\ Writers(loggers, f) # {}
                /\ LimitsOf(loggers', f) \subseteq L
  BY <1>3 DEF SafelyMoved
<1> SUFFICES ASSUME ~files'[f].failed
             PROVE  /\ heldN <= t + D
                    /\ (Writers(loggers', f) # {} /\ 0 \notin M) =>
                         \E m \in M : diskN + heldN < m + (t + D)
  BY DEF Safe
<1>9. heldN <= t + D
  <2>1. CASE heldN = 0
    BY <1>1, <2>1
  <2>2. CASE heldN # 0
    <3>1. (heldN <= k \/ (~files[f].failed /\ heldN <= held + k)) /\ D = C + k
      BY <1>11, <2>2
    <3>2. t = s
      BY <1>6, <2>2
    <3> HIDE DEF C, D, held, heldN, s, t
    <3> QED
      BY <1>1, <1>2, <1>7, <3>1, <3>2
  <2> QED
    BY <2>1, <2>2
<1>10. ASSUME Writers(loggers', f) # {}, 0 \notin M
       PROVE  \E m \in M : diskN + heldN < m + (t + D)
  <2>1. \A m \in M : m \in Nat /\ m > 0
    BY <1>1, <1>10
  <2>2. PICK m \in LimitsOf(loggers', f) : m \in M /\ m > 0 /\ m \in Nat
    BY <1>4, <1>8, <1>10, <2>1
  <2>3. ASSUME NEW n \in M, diskN + heldN < n
        PROVE  \E i \in M : diskN + heldN < i + (t + D)
    <3> HIDE DEF D, diskN, heldN, t, M
    <3>1. diskN + heldN < n + (t + D)
      BY <1>1, <1>2, <2>1, <2>3
    <3> QED
      BY <3>1
  <2>4. CASE diskN + heldN = 0
    <3>1. diskN + heldN < m
      BY <2>2, <2>4
    <3> QED
      BY <2>2, <2>3, <3>1
  <2>5. CASE diskN + heldN # 0
    <3>1. M = L \cup LimitsOf(loggers', f)
      BY <1>5, <2>5
    <3>2. CASE \E n \in LimitsOf(loggers, f) \cup LimitsOf(loggers', f) :
                 n = 0 \/ diskN + heldN < n
      <4>1. PICK n \in M : n = 0 \/ diskN + heldN < n
        BY <1>3, <1>4, <3>1, <3>2
      <4> QED
        BY <2>1, <2>3, <4>1
    <3>3. CASE /\ ~files[f].failed /\ diskN + heldN <= (disk + held) + k
               /\ D = C + k
               /\ Writers(loggers, f) # {}
               /\ LimitsOf(loggers', f) \subseteq L
      <4>1. M = L
        BY <3>1, <3>3
      <4>2. CASE t = s
        <5>1. PICK i \in M : disk + held < i + (s + C)
          BY <1>7, <1>10, <3>3, <4>1
        <5> HIDE DEF C, D, disk, diskN, held, heldN, s, t, M
        <5>2. diskN + heldN < i + (t + D)
          BY <1>1, <1>2, <2>1, <3>3, <4>2, <5>1
        <5> QED
          BY <5>1, <5>2
      <4>3. CASE /\ t = 0 /\ heldN = 0
                 /\ M \subseteq {0} \/ \E n \in M : diskN < n
        <5>1. PICK n \in M : diskN < n
          BY <1>10, <2>2, <4>3
        <5>2. diskN + heldN < n
          BY <1>2, <4>3, <5>1
        <5> QED
          BY <2>3, <5>2
      <4> QED
        BY <1>6, <4>2, <4>3
    <3>4. CASE diskN + heldN <= k /\ D = C + k
      <4>1. diskN + heldN < m + (t + D)
        <5> HIDE DEF C, D, diskN, heldN, t
        <5> QED
          BY <1>1, <1>2, <2>2, <3>4
      <4> QED
        BY <2>2, <4>1
    <3> QED
      BY <1>10, <1>11, <2>5, <3>2, <3>3, <3>4
  <2> QED
    BY <2>4, <2>5
<1> QED
  BY <1>9, <1>10

-----------------------------------------------------------------------------
(***************************************************************************)
(* Flushing some loggers, and building a configuration.                    *)
(***************************************************************************)

LEMMA SomeWriters ==
  ASSUME NEW ids, NEW f
  PROVE  /\ IsRegistry(loggers) => IsRegistry(Some(ids))
         /\ Writers(Some(ids), f) = {w \in Writers(loggers, f) : w[1] \in ids}
         /\ \A w \in Writers(Some(ids), f) : Some(ids)[w[1]] = loggers[w[1]]
         /\ LimitsOf(Some(ids), f) \subseteq LimitsOf(loggers, f)
         /\ \A w \in Writers(Some(ids), f) :
              Use(loggers[w[1]], w[2]).limit \in LimitsOf(Some(ids), f)
<1> DEFINE ms == Some(ids)
<1>1. DOMAIN ms = ids \cap DOMAIN loggers /\ \A id \in DOMAIN ms : ms[id] = loggers[id]
  BY DEF Some
<1>2. IsRegistry(loggers) => IsRegistry(ms)
  BY DEF IsRegistry, Some
<1> HIDE DEF ms
<1>3. ASSUME NEW w
      PROVE  w \in Writers(ms, f) <=> w \in Writers(loggers, f) /\ w[1] \in ids
  <2>1. w \in (DOMAIN ms) \X Level <=> w \in (DOMAIN loggers) \X Level /\ w[1] \in ids
    BY <1>1
  <2>2. w \in (DOMAIN ms) \X Level => ms[w[1]] = loggers[w[1]]
    BY <1>1
  <2> QED
    BY <2>1, <2>2, WriterIs
<1>4. Writers(ms, f) = {w \in Writers(loggers, f) : w[1] \in ids}
  BY <1>3
<1>5. \A w \in Writers(ms, f) : ms[w[1]] = loggers[w[1]]
  BY <1>1, WriterIs
<1>6. LimitsOf(ms, f) \subseteq LimitsOf(loggers, f)
  BY <1>4, <1>5 DEF LimitsOf
<1>7. \A w \in Writers(ms, f) : Use(loggers[w[1]], w[2]).limit \in LimitsOf(ms, f)
  BY <1>5 DEF LimitsOf
<1> QED
  BY <1>2, <1>4, <1>5, <1>6, <1>7 DEF ms

LEMMA WriterHasStream ==
  ASSUME LoggingInv, NEW f \in File, Writers(loggers, f) # {}
  PROVE  files[f].known /\ (HasStream(files, f) <=> f \notin Unopenable)
<1>1. PICK w \in Writers(loggers, f) : TRUE
  OBVIOUS
<1>2. w[1] \in DOMAIN loggers /\ w[2] \in AllLevels /\ Use(loggers[w[1]], w[2]).file = f
  BY <1>1, Typed, WriterCount, WriterIs, Levels
<1>3. files[f].known
  BY <1>2 DEF LoggingInv, TypeOK
<1> QED
  BY <1>3 DEF HasStream, IsOpen

\* A file that cannot be opened is empty.
EmptyIfShut(file, f) ==
  f \in Unopenable => file.disk = 0 /\ file.held = 0 /\ ~file.failed

LEMMA FlushFilesAt ==
  ASSUME LoggingInv, NEW ids, NEW f \in File
  PROVE  LET g == FlushFiles(ids)[f]
             W == Writers(Some(ids), f)
         IN  /\ g \in LogFile /\ g.known = files[f].known /\ EmptyIfShut(g, f)
             /\ g.failed => files[f].failed \/ diskFull
             /\ f \in Device => g.disk <= files[f].disk
             /\ Size(g) <= Size(files[f]) /\ g.held <= files[f].held
             /\ W = {} => g = files[f]
             /\ W # {} => g.failed \/ g.held = 0
             /\ \A w \in W : LET n == Use(loggers[w[1]], w[2]).limit
                            IN  n = 0 \/ (~g.failed /\ Size(g) < n)
             /\ g.disk < files[f].disk =>
                  \E w \in W : LET n == Use(loggers[w[1]], w[2]).limit
                              IN  /\ n # 0
                                  /\ \/ files[f].failed \/ diskFull
                                     \/ Size(files[f]) >= n
<1> DEFINE file == files[f]
           g == FlushFiles(ids)[f]
           W == Writers(Some(ids), f)
           ns == LimitsOf(Some(ids), f)
<1>1. /\ file \in LogFile /\ diskFull \in BOOLEAN /\ EmptyIfShut(file, f)
      /\ IsRegistry(loggers) /\ IsRegistry(Some(ids))
  BY Typed, SomeWriters DEF LoggingInv, ClosedEmpty, EmptyIfShut
<1>2. /\ file.held \in Nat /\ file.disk \in Nat /\ Size(file) \in Nat
      /\ file.failed \in BOOLEAN
  BY <1>1, FileFields
<1>3. ns \in SUBSET Nat
  BY <1>1, LimitsAreNat
<1>4. \A w \in W : Use(loggers[w[1]], w[2]).limit \in ns
  BY SomeWriters
<1>5. \A n \in ns : \E w \in W : Use(loggers[w[1]], w[2]).limit = n
  BY SomeWriters DEF LimitsOf
<1>6. g = IF W # {} /\ HasStream(files, f) THEN Rolled(Flushed(file, f), ns) ELSE file
  BY DEF FlushFiles
<1>7. CASE W = {}
  <2>1. g = file
    BY <1>6, <1>7
  <2> HIDE DEF W, g, file, ns
  <2> QED
    BY <1>1, <1>2, <1>7, <2>1 DEF W, g, file
<1>8. CASE W # {} /\ ~HasStream(files, f)
  <2>1. Writers(loggers, f) # {}
    BY <1>8, SomeWriters
  <2>2. f \in Unopenable
    BY <1>8, <2>1, WriterHasStream
  <2>3. g = file /\ g.disk = 0 /\ g.held = 0 /\ ~g.failed /\ Size(g) = 0
    BY <1>1, <1>6, <1>8, <2>2 DEF EmptyIfShut, Size
  <2>4. \A w \in W : LET n == Use(loggers[w[1]], w[2]).limit
                   IN  n = 0 \/ 0 < n
    BY <1>3, <1>4
  <2> HIDE DEF W, g, file, ns
  <2> QED
    BY <1>1, <1>2, <1>8, <2>3, <2>4 DEF W, g, file
<1>9. CASE W # {} /\ HasStream(files, f)
  <2>1. g = Rolled(Flushed(file, f), ns)
    BY <1>6, <1>9
  <2>2. f \notin Unopenable
    BY <1>9 DEF HasStream, IsOpen
  <2>3. /\ g \in LogFile /\ g.known = file.known
        /\ f \in Device => g.disk <= file.disk
        /\ g.failed => file.failed \/ diskFull
        /\ g.failed \/ g.held = 0
        /\ \A n \in ns \ {0} : ~g.failed /\ Size(g) < n
        /\ Size(g) <= Size(file) /\ g.held <= file.held
        /\ g.disk < file.disk =>
             \E n \in ns \ {0} : file.failed \/ diskFull \/ Size(file) >= n
    BY <1>1, <1>3, <2>1, FlushAndRoll
  <2> HIDE DEF W, g, file, ns
  <2>4. \A w \in W : LET n == Use(loggers[w[1]], w[2]).limit
                   IN  n = 0 \/ (~g.failed /\ Size(g) < n)
    BY <1>4, <2>3
  <2>5. g.disk < file.disk =>
          \E w \in W : LET n == Use(loggers[w[1]], w[2]).limit
                      IN  n # 0 /\ (file.failed \/ diskFull \/ Size(file) >= n)
    BY <1>5, <2>3
  <2> QED
    BY <1>9, <2>2, <2>3, <2>4, <2>5 DEF W, g, file, EmptyIfShut
<1> QED
  BY <1>7, <1>8, <1>9

LEMMA BuildFilesAt ==
  ASSUME NEW fs \in [File -> LogFile], NEW f \in File, EmptyIfShut(fs[f], f),
         NEW c \in Configured
  PROVE  LET g == BuildFiles(fs, c)[f]
         IN  /\ g \in LogFile /\ EmptyIfShut(g, f)
             /\ g.known <=> fs[f].known \/ \E l \in AllLevels : Uses(c, l).file = f
             /\ g.failed => fs[f].failed
             /\ fs[f].failed => g.failed \/ (g.held = 0 /\ Size(g) = 0)
             /\ Size(g) <= Size(fs[f]) /\ g.held <= fs[f].held
             /\ g.disk <= fs[f].disk
             /\ \A l \in AllLevels :
                  Uses(c, l).file = f => Uses(c, l).limit = 0 \/ Size(g) < Uses(c, l).limit
             /\ g.disk < fs[f].disk =>
                  \E l \in AllLevels :
                    /\ Uses(c, l).file = f /\ Uses(c, l).limit # 0
                    /\ fs[f].failed \/ Size(fs[f]) >= Uses(c, l).limit
<1> DEFINE file == fs[f]
           g == BuildFiles(fs, c)[f]
           ls == {l \in AllLevels : Uses(c, l).file = f}
           ns == {Uses(c, l).limit : l \in ls}
           opened == [fs[f] EXCEPT !.known = TRUE]
<1>1. /\ file \in LogFile /\ file.held \in Nat /\ file.disk \in Nat
      /\ Size(file) \in Nat /\ file.failed \in BOOLEAN /\ file.known \in BOOLEAN
  BY FileFields
<1>2. /\ opened \in LogFile /\ opened.known /\ opened.held = file.held
      /\ opened.failed = file.failed /\ opened.disk = file.disk
  BY <1>1 DEF LogFile
<1>3. Size(opened) = Size(file)
  BY <1>2 DEF Size
<1>4. ns \in SUBSET Nat
  BY UsesAssumption
<1>5. g = CASE ns = {} -> file
            [] ns # {} /\ IsOpen(f) -> Rolled(opened, ns)
            [] ns # {} /\ ~IsOpen(f) -> opened
  BY DEF BuildFiles, BuildAt
<1>6. CASE ns = {}
  <2>1. g = file /\ ls = {}
    BY <1>5, <1>6
  <2> HIDE DEF g, file, ns, opened
  <2> QED
    BY <1>1, <2>1 DEF g, file
<1>7. CASE ns # {} /\ ~IsOpen(f)
  <2>1. g = opened /\ ls # {} /\ f \in Unopenable
    BY <1>5, <1>7 DEF IsOpen
  <2>2. file.disk = 0 /\ file.held = 0 /\ ~file.failed /\ Size(file) = 0
    BY <2>1 DEF EmptyIfShut, Size
  <2>3. \A l \in ls : Uses(c, l).limit = 0 \/ 0 < Uses(c, l).limit
    BY <1>4
  <2>4. EmptyIfShut(g, f)
    BY <1>2, <2>1, <2>2 DEF EmptyIfShut
  <2> HIDE DEF g, file, ns, opened
  <2> QED
    BY <1>1, <1>2, <1>3, <2>1, <2>2, <2>3, <2>4 DEF g, file
<1>8. CASE ns # {} /\ IsOpen(f)
  <2>1. g = Rolled(opened, ns) /\ ls # {} /\ f \notin Unopenable
    BY <1>5, <1>8 DEF IsOpen
  <2> HIDE DEF g, opened
  <2>2. /\ g \in LogFile /\ g.known = opened.known
        /\ \/ g = opened /\ \A n \in ns \ {0} : ~opened.failed /\ Size(opened) < n
           \/ /\ ~g.failed /\ g.held = 0 /\ g.disk = 0
              /\ \E n \in ns \ {0} : opened.failed \/ Size(opened) >= n
    BY <1>2, <1>4, <2>1, FileRolledFields
  <2>3. g.known /\ EmptyIfShut(g, f)
    BY <1>2, <2>1, <2>2 DEF EmptyIfShut
  <2>4. CASE g = opened /\ \A n \in ns \ {0} : ~opened.failed /\ Size(opened) < n
    <3>1. /\ g.failed = file.failed /\ g.held = file.held /\ g.disk = file.disk
          /\ Size(g) = Size(file)
      BY <1>2, <1>3, <2>4
    <3>2. \A l \in ls : Uses(c, l).limit = 0 \/ Size(g) < Uses(c, l).limit
      BY <2>4
    <3> QED
      BY <1>1, <2>1, <2>2, <2>3, <3>1, <3>2 DEF g, file
  <2>5. CASE /\ ~g.failed /\ g.held = 0 /\ g.disk = 0
             /\ \E n \in ns \ {0} : opened.failed \/ Size(opened) >= n
    <3>1. Size(g) = 0
      BY <2>5 DEF Size
    <3>2. \A l \in ls : Uses(c, l).limit = 0 \/ 0 < Uses(c, l).limit
      BY <1>4
    <3>3. \E l \in ls : Uses(c, l).limit # 0
                       /\ (file.failed \/ Size(file) >= Uses(c, l).limit)
      BY <1>2, <1>3, <2>5
    <3> HIDE DEF file, ns
    <3> QED
      BY <1>1, <2>1, <2>2, <2>3, <2>5, <3>1, <3>2, <3>3 DEF file, g
  <2> QED
    BY <2>2, <2>4, <2>5
<1> QED
  BY <1>6, <1>7, <1>8

-----------------------------------------------------------------------------
(***************************************************************************)
(* Configuring.                                                            *)
(***************************************************************************)

\* What RollsOnlyWhenFull says of one file.
RollsRight(f) ==
  files'[f].disk < files[f].disk =>
    \E ls \in {loggers, loggers'} : \E id \in DOMAIN ls, l \in AllLevels :
      /\ Use(ls[id], l).file = f
      /\ Use(ls[id], l).limit # 0
      /\ \/ files[f].failed \/ diskFull
         \/ files[f].disk + files[f].held + LinesOfStep >= Use(ls[id], l).limit

LEMMA StepWritesLines ==
  /\ LinesOfStep \in Nat /\ LinesOfStep >= 1
  /\ ~running' => LinesOfStep = 2
BY DEF LinesOfStep

\* What a step makes of a file, whatever it writes.
FileKept(f) ==
  /\ files'[f] \in LogFile /\ EmptyIfShut(files'[f], f)
  /\ f \in Device => files'[f].disk = 0
  /\ files[f].known => files'[f].known
  /\ ~files'[f].known => files'[f].held = 0

LEMMA ConfiguredLoggers ==
  ASSUME LoggingInv, NEW ids \in SUBSET Logger, NEW c \in Configured,
         Configure(ids, c)
  PROVE  /\ IsRegistry(loggers')
         /\ DOMAIN loggers' = DOMAIN loggers \cup ids
         /\ \A id \in ids : \A l \in AllLevels : Use(loggers'[id], l) = Uses(c, l)
         /\ \A id \in ids : \A l \in Level : loggers'[id].unflushed[l] = 0
         /\ \A id \in DOMAIN loggers \ ids : loggers'[id] = loggers[id]
<1>1. loggers' = [id \in DOMAIN loggers \cup ids |->
                    IF id \in ids THEN NewLogger(c) ELSE loggers[id]]
  BY DEF Configure
<1>2. NewLogger(c) \in LoggerState /\ NewLogger(c).uses = c
      /\ \A l \in Level : NewLogger(c).unflushed[l] = 0
  BY DEF NewLogger, NoneUnflushed, LoggerState
<1>3. DOMAIN loggers \subseteq Logger
      /\ \A id \in DOMAIN loggers : loggers[id] \in LoggerState
  BY Typed DEF IsRegistry
<1>4. IsRegistry(loggers')
  <2> HIDE DEF NewLogger
  <2> QED
    BY <1>1, <1>2, <1>3 DEF IsRegistry
<1>5. \A id \in ids : loggers'[id] = NewLogger(c)
  BY <1>1
<1> QED
  BY <1>1, <1>2, <1>4, <1>5 DEF Use

LEMMA ConfiguredWriters ==
  ASSUME LoggingInv, NEW ids \in SUBSET Logger, NEW c \in Configured,
         Configure(ids, c), NEW f \in File
  PROVE  /\ \A w \in Writers(loggers', f) :
              \/ /\ w[1] \in ids /\ w[2] \in AllLevels
                 /\ Uses(c, w[2]).file = f
                 /\ Uses(c, w[2]).limit \in LimitsOf(loggers', f)
              \/ w[1] \notin ids /\ w \in Writers(loggers, f)
         /\ Writers(Some(ids), f) = {} =>
              Cardinality(Counted(loggers', f)) = Cardinality(Counted(loggers, f))
<1>1. ASSUME NEW w \in Writers(loggers', f)
      PROVE  \/ /\ w[1] \in ids /\ w[2] \in AllLevels
                /\ Uses(c, w[2]).file = f
                /\ Uses(c, w[2]).limit \in LimitsOf(loggers', f)
             \/ w[1] \notin ids /\ w \in Writers(loggers, f)
  <2>1. /\ w \in (DOMAIN loggers') \X Level /\ Use(loggers'[w[1]], w[2]).toFile
        /\ Use(loggers'[w[1]], w[2]).file = f
    BY WriterIs
  <2>2. w[1] \in DOMAIN loggers' /\ w[2] \in AllLevels
    BY <2>1, Levels
  <2>3. Use(loggers'[w[1]], w[2]).limit \in LimitsOf(loggers', f)
    BY DEF LimitsOf
  <2>4. CASE w[1] \in ids
    <3>1. Use(loggers'[w[1]], w[2]) = Uses(c, w[2])
      BY <2>2, <2>4, ConfiguredLoggers, Zenon
    <3> QED
      BY <2>1, <2>2, <2>3, <2>4, <3>1
  <2>5. CASE w[1] \notin ids
    <3>1. loggers'[w[1]] = loggers[w[1]] /\ w \in (DOMAIN loggers) \X Level
      BY <2>1, <2>2, <2>5, ConfiguredLoggers
    <3> QED
      BY <2>1, <2>5, <3>1, WriterIs
  <2> QED
    BY <2>4, <2>5
<1>2. ASSUME Writers(Some(ids), f) = {}
      PROVE  Counted(loggers', f) = Counted(loggers, f)
  <2>1. ASSUME NEW w \in Writers(loggers, f)
        PROVE  w \in Writers(loggers', f) /\ loggers'[w[1]] = loggers[w[1]]
    <3>1. w[1] \notin ids
      BY <1>2, SomeWriters
    <3>2. w \in (DOMAIN loggers) \X Level /\ w[1] \in DOMAIN loggers
      BY WriterIs
    <3>3. loggers'[w[1]] = loggers[w[1]]
      <4>1. w[1] \in DOMAIN loggers \ ids
        BY <3>1, <3>2
      <4> QED
        BY <4>1, ConfiguredLoggers, Zenon
    <3>4. DOMAIN loggers' = DOMAIN loggers \cup ids
      BY ConfiguredLoggers
    <3>5. w \in (DOMAIN loggers') \X Level
      BY <3>2, <3>4
    <3> QED
      BY <3>3, <3>5, WriterIs
  <2>2. ASSUME NEW w \in Writers(loggers', f),
               NEW i \in 1 .. loggers'[w[1]].unflushed[w[2]]
        PROVE  w \in Writers(loggers, f)
    <3>1. w[1] \notin ids
      <4>1. w[2] \in Level
        BY WriterIs
      <4>2. w[1] \in ids => loggers'[w[1]].unflushed[w[2]] = 0
        BY <4>1, ConfiguredLoggers
      <4> QED
        BY <4>2
    <3> QED
      BY <1>1, <3>1
  <2>3. ASSUME NEW x
        PROVE  x \in Counted(loggers', f) <=> x \in Counted(loggers, f)
    <3>1. ASSUME NEW w \in Writers(loggers', f),
                 NEW i \in 1 .. loggers'[w[1]].unflushed[w[2]], x = <<w, i>>
          PROVE  x \in Counted(loggers, f)
      <4>1. w \in Writers(loggers, f) /\ loggers'[w[1]] = loggers[w[1]]
        BY <2>1, <2>2
      <4> QED
        BY <3>1, <4>1, CountedIs
    <3>2. ASSUME NEW w \in Writers(loggers, f),
                 NEW i \in 1 .. loggers[w[1]].unflushed[w[2]], x = <<w, i>>
          PROVE  x \in Counted(loggers', f)
      <4>1. w \in Writers(loggers', f) /\ loggers'[w[1]] = loggers[w[1]]
        BY <2>1
      <4> QED
        BY <3>2, <4>1, CountedIs
    <3> QED
      BY <3>1, <3>2, CountedIs
  <2> QED
    BY <2>3
<1> QED
  BY <1>1, <1>2

LEMMA ConfiguredFile ==
  ASSUME LoggingInv, NEW ids \in SUBSET Logger, ids # {}, NEW c \in Configured,
         Configure(ids, c), NEW f \in File
  PROVE  /\ FileKept(f) /\ SafelyMoved(f, 0) /\ RollsRight(f)
         /\ \A l \in AllLevels : Uses(c, l).file = f => files'[f].known
<1> DEFINE fs == FlushFiles(ids)
           file == files[f]
           h == fs[f]
           g == BuildFiles(fs, c)[f]
           W == Writers(Some(ids), f)
<1>1. files'[f] = g
  BY DEF Configure
<1>2. fs \in [File -> LogFile]
  <2>1. \A k \in File : fs[k] \in LogFile
    BY FlushFilesAt
  <2>2. fs = [k \in File |-> fs[k]]
    BY DEF FlushFiles
  <2> HIDE DEF fs
  <2> QED
    BY <2>1, <2>2
<1>3. /\ h \in LogFile /\ h.known = file.known /\ EmptyIfShut(h, f)
      /\ h.failed => file.failed \/ diskFull
      /\ f \in Device => h.disk <= file.disk
      /\ Size(h) <= Size(file) /\ h.held <= file.held
      /\ W = {} => h = file
      /\ W # {} => h.failed \/ h.held = 0
      /\ \A w \in W : LET n == Use(loggers[w[1]], w[2]).limit
                     IN  n = 0 \/ (~h.failed /\ Size(h) < n)
      /\ h.disk < file.disk =>
           \E w \in W : LET n == Use(loggers[w[1]], w[2]).limit
                       IN  n # 0 /\ (file.failed \/ diskFull \/ Size(file) >= n)
  BY FlushFilesAt
<1>4. /\ g \in LogFile /\ EmptyIfShut(g, f)
      /\ g.known <=> h.known \/ \E l \in AllLevels : Uses(c, l).file = f
      /\ g.failed => h.failed
      /\ h.failed => g.failed \/ (g.held = 0 /\ Size(g) = 0)
      /\ Size(g) <= Size(h) /\ g.held <= h.held /\ g.disk <= h.disk
      /\ \A l \in AllLevels :
           Uses(c, l).file = f => Uses(c, l).limit = 0 \/ Size(g) < Uses(c, l).limit
      /\ g.disk < h.disk =>
           \E l \in AllLevels :
             /\ Uses(c, l).file = f /\ Uses(c, l).limit # 0
             /\ h.failed \/ Size(h) >= Uses(c, l).limit
  <2> HIDE DEF fs
  <2> QED
    BY <1>2, <1>3, BuildFilesAt
<1>5. /\ file \in LogFile /\ file.held \in Nat /\ file.disk \in Nat
      /\ Size(file) \in Nat /\ h.held \in Nat /\ h.disk \in Nat /\ Size(h) \in Nat
      /\ g.held \in Nat /\ g.disk \in Nat /\ Size(g) \in Nat
      /\ Size(file) = file.disk + file.held
  <2>1. file \in LogFile
    BY Typed
  <2> HIDE DEF h, g
  <2> QED
    BY <1>3, <1>4, <2>1, FileFields DEF Size
<1>6. /\ f \in Device => file.disk = 0
      /\ ~file.known => file.held = 0
  BY DEF LoggingInv, TypeOK
<1> HIDE DEF fs, h, g, W, file
<1>7. FileKept(f)
  <2>1. f \in Device => g.disk = 0
    BY <1>3, <1>4, <1>5, <1>6
  <2>2. ~g.known => g.held = 0
    BY <1>3, <1>4, <1>5, <1>6
  <2> QED
    BY <1>1, <1>3, <1>4, <2>1, <2>2 DEF FileKept, file
<1>8. \A l \in AllLevels : Uses(c, l).file = f => files'[f].known
  BY <1>1, <1>4
<1>9. SafelyMoved(f, 0)
  <2> SUFFICES ASSUME ~g.failed
               PROVE  SafelyMoved(f, 0)
    BY <1>1 DEF SafelyMoved
  <2>1. W = {} => Cardinality(Counted(loggers', f)) = Cardinality(Counted(loggers, f))
    BY ConfiguredWriters DEF W
  <2>2. Cardinality(Counted(loggers, f)) \in Nat
    BY Typed, CountedFinite
  <2>3. CASE W # {}
    <3>1. g.held = 0
      BY <1>3, <1>4, <1>5, <2>3
    <3>2. PICK w \in W : TRUE
      BY <2>3
    <3>3. Use(loggers[w[1]], w[2]).limit \in LimitsOf(loggers, f)
      BY SomeWriters DEF W
    <3>4. \/ Use(loggers[w[1]], w[2]).limit = 0
          \/ Size(h) < Use(loggers[w[1]], w[2]).limit
      BY <1>3
    <3>5. Use(loggers[w[1]], w[2]).limit \in Nat
      BY <3>3, Typed, LimitsAreNat
    <3>6. \E n \in LimitsOf(loggers, f) \cup LimitsOf(loggers', f) : n = 0 \/ Size(g) < n
      <4>1. \/ Use(loggers[w[1]], w[2]).limit = 0
            \/ Size(g) < Use(loggers[w[1]], w[2]).limit
        BY <1>4, <1>5, <3>4, <3>5
      <4> QED
        BY <3>3, <4>1
    <3> QED
      BY <1>1, <3>1, <3>6 DEF SafelyMoved
  <2>4. CASE W = {}
    <3>1. h = file
      BY <1>3, <2>4
    <3>2. \/ g.held = 0
          \/ /\ ~file.failed /\ g.held <= file.held + 0
             /\ Cardinality(Counted(loggers', f)) = Cardinality(Counted(loggers, f)) + 0
      BY <1>4, <1>5, <2>1, <2>2, <2>4, <3>1
    <3>3. CASE \E w \in Writers(loggers', f) : w[1] \in ids
      <4>1. PICK w \in Writers(loggers', f) : w[1] \in ids
        BY <3>3
      <4>2. /\ w[2] \in AllLevels /\ Uses(c, w[2]).file = f
            /\ Uses(c, w[2]).limit \in LimitsOf(loggers', f)
        BY <4>1, ConfiguredWriters
      <4>3. Uses(c, w[2]).limit = 0 \/ Size(g) < Uses(c, w[2]).limit
        BY <1>4, <4>2
      <4> QED
        BY <1>1, <3>2, <4>2, <4>3 DEF SafelyMoved, file
    <3>4. CASE ~\E w \in Writers(loggers', f) : w[1] \in ids
      <4>1. \A w \in Writers(loggers', f) :
              w \in Writers(loggers, f) /\ loggers'[w[1]] = loggers[w[1]]
        <5>1. ASSUME NEW w \in Writers(loggers', f)
              PROVE  w \in Writers(loggers, f) /\ loggers'[w[1]] = loggers[w[1]]
          <6>1. w[1] \notin ids /\ w \in Writers(loggers, f)
            BY <3>4, ConfiguredWriters
          <6>2. w[1] \in DOMAIN loggers \ ids
            BY <6>1, WriterIs
          <6>3. loggers'[w[1]] = loggers[w[1]]
            BY <6>2, ConfiguredLoggers, Zenon
          <6> QED
            BY <6>1, <6>3
        <5> QED
          BY <5>1
      <4>2. LimitsOf(loggers', f) \subseteq limits[f]
        <5>1. LimitsOf(loggers', f) \subseteq LimitsOf(loggers, f)
          BY <4>1 DEF LimitsOf
        <5> QED
          BY <5>1 DEF LoggingInv, LimitsKnown
      <4>3. Writers(loggers', f) # {} => Writers(loggers, f) # {}
        BY <4>1
      <4>4. \/ Size(g) = 0
            \/ /\ ~file.failed /\ Size(g) <= Size(file) + 0
               /\ Cardinality(Counted(loggers', f)) = Cardinality(Counted(loggers, f)) + 0
        BY <1>4, <1>5, <2>1, <2>2, <2>4, <3>1
      <4> QED
        BY <1>1, <3>2, <4>2, <4>3, <4>4 DEF SafelyMoved, file
    <3> QED
      BY <3>3, <3>4
  <2> QED
    BY <2>3, <2>4
<1>10. RollsRight(f)
  <2> SUFFICES ASSUME g.disk < file.disk
               PROVE  \E ls \in {loggers, loggers'} : \E id \in DOMAIN ls, l \in AllLevels :
                        /\ Use(ls[id], l).file = f
                        /\ Use(ls[id], l).limit # 0
                        /\ \/ file.failed \/ diskFull
                           \/ file.disk + file.held + LinesOfStep >= Use(ls[id], l).limit
    BY <1>1 DEF RollsRight, file
  <2>1. CASE h.disk < file.disk
    <3>1. PICK w \in W : /\ Use(loggers[w[1]], w[2]).limit # 0
                          /\ \/ file.failed \/ diskFull
                             \/ Size(file) >= Use(loggers[w[1]], w[2]).limit
      BY <1>3, <2>1
    <3>2. w \in Writers(loggers, f)
      BY SomeWriters DEF W
    <3>3. /\ w[1] \in DOMAIN loggers /\ w[2] \in AllLevels
          /\ Use(loggers[w[1]], w[2]).file = f
          /\ Use(loggers[w[1]], w[2]).limit \in Nat
      BY <3>2, WriterIs, Typed, WriterCount, Levels
    <3>4. \/ file.failed \/ diskFull
          \/ file.disk + file.held + LinesOfStep >= Use(loggers[w[1]], w[2]).limit
      BY <1>5, <3>1, <3>3, StepWritesLines
    <3> QED
      BY <3>1, <3>3, <3>4
  <2>2. CASE ~(h.disk < file.disk)
    <3>1. g.disk < h.disk
      BY <1>5, <2>2
    <3>2. PICK l \in AllLevels : /\ Uses(c, l).file = f /\ Uses(c, l).limit # 0
                                 /\ h.failed \/ Size(h) >= Uses(c, l).limit
      BY <1>4, <3>1
    <3>3. PICK id \in ids : TRUE
      OBVIOUS
    <3>4. Use(loggers'[id], l) = Uses(c, l)
      <4>1. \A i \in ids : \A k \in AllLevels : Use(loggers'[i], k) = Uses(c, k)
        BY ConfiguredLoggers
      <4> QED
        BY <3>2, <3>3, <4>1, Zenon
    <3>5. Uses(c, l).limit \in Nat
      BY UsesAssumption
    <3>6. \/ file.failed \/ diskFull
          \/ file.disk + file.held + LinesOfStep >= Uses(c, l).limit
      BY <1>3, <1>5, <3>2, <3>5, StepWritesLines
    <3>7. id \in DOMAIN loggers'
      <4>1. DOMAIN loggers' = DOMAIN loggers \cup ids
        BY ConfiguredLoggers
      <4> QED
        BY <4>1
    <3> QED
      BY <3>2, <3>4, <3>6, <3>7
  <2> QED
    BY <2>1, <2>2
<1> QED
  BY <1>7, <1>8, <1>9, <1>10

\* The invariant after a step that remembers, from what it does to each file.
LEMMA InvAfter ==
  ASSUME LoggingInv, IsRegistry(loggers'), running', "default" \in DOMAIN loggers',
         running' \in BOOLEAN, defaults' \in Configured, flags' \subseteq Flag,
         diskFull' \in BOOLEAN, Remember,
         files' = [f \in File |-> files'[f]],
         \A f \in File : FileKept(f),
         \A f \in File : \E k \in Nat : SafelyMoved(f, k),
         \A id \in DOMAIN loggers', l \in AllLevels :
           files'[Use(loggers'[id], l).file].known,
         BelowThreshold'
  PROVE  LoggingInv'
<1>1. files' \in [File -> LogFile]
  BY DEF FileKept
<1>2. limits' \in [File -> SUBSET Nat] /\ stray' \in [File -> Nat] /\ LimitsKnown'
  BY <1>1, Remembered DEF LimitsKnown
<1>3. TypeOK'
  BY <1>1, <1>2 DEF TypeOK, FileKept, IsRegistry, LoggerState
<1>4. ClosedEmpty'
  <2>1. Unopenable \subseteq File
    BY FileAssumption
  <2> QED
    BY <2>1 DEF ClosedEmpty, FileKept, EmptyIfShut
<1>5. Stopped' /\ HasDefaults'
  BY DEF Stopped, HasDefaults
<1>6. ASSUME NEW f \in File
      PROVE  Safe(files'[f], limits'[f],
                  stray'[f] + Cardinality(Counted(loggers', f)),
                  Writers(loggers', f) # {})
  <2>1. PICK k \in Nat : SafelyMoved(f, k)
    OBVIOUS
  <2> QED
    BY <1>1, <2>1, SafeAfter DEF SafelyMoved
<1>7. FilesSafe'
  BY <1>6 DEF FilesSafe, Uncounted
<1> QED
  BY <1>2, <1>3, <1>4, <1>5, <1>7 DEF LoggingInv

LEMMA ConfigureKeeps ==
  ASSUME LoggingInv, NEW ids \in SUBSET Logger, ids # {}, NEW c \in Configured,
         Configure(ids, c), running', running' \in BOOLEAN,
         "default" \in DOMAIN loggers \cup ids,
         defaults' \in Configured, flags' \subseteq Flag, diskFull' \in BOOLEAN
  PROVE  LoggingInv' /\ \A f \in File : RollsRight(f)
<1>1. /\ IsRegistry(loggers')
      /\ DOMAIN loggers' = DOMAIN loggers \cup ids
      /\ \A id \in ids : \A l \in AllLevels : Use(loggers'[id], l) = Uses(c, l)
      /\ \A id \in ids : \A l \in Level : loggers'[id].unflushed[l] = 0
      /\ \A id \in DOMAIN loggers \ ids : loggers'[id] = loggers[id]
  BY ConfiguredLoggers
<1>2. /\ \A f \in File : FileKept(f) /\ SafelyMoved(f, 0) /\ RollsRight(f)
      /\ \A f \in File :
           \A l \in AllLevels : Uses(c, l).file = f => files'[f].known
  BY ConfiguredFile
<1>3. files' = [f \in File |-> files'[f]]
  BY DEF Configure, BuildFiles, BuildAt
<1>4. ASSUME NEW id \in DOMAIN loggers', NEW l \in AllLevels
      PROVE  files'[Use(loggers'[id], l).file].known
  <2>1. CASE id \in ids
    <3>1. Use(loggers'[id], l) = Uses(c, l) /\ Uses(c, l).file \in File
      BY <1>1, <2>1, UsesAssumption
    <3> QED
      BY <1>2, <3>1
  <2>2. CASE id \notin ids
    <3>1. id \in DOMAIN loggers /\ loggers'[id] = loggers[id]
      BY <1>1, <2>2
    <3>2. files[Use(loggers[id], l).file].known
      BY <3>1 DEF LoggingInv, TypeOK
    <3>3. loggers[id] \in LoggerState
      BY <3>1, Typed DEF IsRegistry
    <3>4. Use(loggers[id], l).file \in File
      BY <3>3, UseTypes
    <3> QED
      BY <1>2, <3>1, <3>2, <3>4 DEF FileKept
  <2> QED
    BY <2>1, <2>2
<1>5. BelowThreshold'
  <2>1. ASSUME NEW id \in DOMAIN loggers', NEW l \in Level
        PROVE  \/ loggers'[id].unflushed[l] = 0
               \/ loggers'[id].unflushed[l] < Use(loggers'[id], l).threshold
    <3>1. CASE id \in ids
      BY <1>1, <3>1
    <3>2. CASE id \notin ids
      <4>1. id \in DOMAIN loggers /\ loggers'[id] = loggers[id]
        BY <1>1, <3>2
      <4> QED
        BY <4>1 DEF LoggingInv, BelowThreshold
    <3> QED
      BY <3>1, <3>2
  <2> QED
    BY <2>1 DEF BelowThreshold
<1>6. Remember
  BY DEF Configure
<1>7. \A f \in File : \E k \in Nat : SafelyMoved(f, k)
  BY <1>2
<1>8. "default" \in DOMAIN loggers'
  BY <1>1
<1> QED
  BY <1>1, <1>2, <1>3, <1>4, <1>5, <1>6, <1>7, <1>8, InvAfter

-----------------------------------------------------------------------------
(***************************************************************************)
(* Writing a line.                                                         *)
(***************************************************************************)

\* Before: the file is as it was, or emptied because it was full.
LEMMA CheckedFile ==
  ASSUME NEW fs \in [File -> LogFile], NEW logger \in LoggerState, NEW level \in Level
  PROVE  LET u == Use(logger, level)
             file == fs[u.file]
             g == Checked(fs, u)[u.file]
         IN  /\ g \in LogFile /\ g.known = file.known
             /\ ~HasStream(fs, u.file) => g = file
             /\ \/ g = file
                \/ /\ ~g.failed /\ g.held = 0 /\ g.disk = 0
                   /\ u.limit # 0 /\ (file.failed \/ Size(file) >= u.limit)
             /\ \A f \in File \ {u.file} : Checked(fs, u)[f] = fs[f]
             /\ Checked(fs, u) \in [File -> LogFile]
<1> DEFINE u == Use(logger, level)
           file == fs[u.file]
           r == Rolled(file, {u.limit})
<1>1. u.file \in File /\ u.limit \in Nat
  BY UseTypes, Levels
<1>2. /\ r \in LogFile /\ r.known = file.known
      /\ \/ r = file
         \/ /\ ~r.failed /\ r.held = 0 /\ r.disk = 0
            /\ \E n \in {u.limit} \ {0} : file.failed \/ Size(file) >= n
  <2>1. file \in LogFile /\ {u.limit} \in SUBSET Nat
    BY <1>1
  <2> HIDE DEF file, u
  <2> QED
    BY <2>1, FileRolledFields
<1>3. Checked(fs, u) = IF "StrictLogFileSizeCheck" \in flags /\ HasStream(fs, u.file)
                       THEN [fs EXCEPT ![u.file] = r] ELSE fs
  BY DEF Checked, ValidateFileRolling
<1> HIDE DEF r, u
<1> QED
  BY <1>1, <1>2, <1>3 DEF u

\* What a line does to its file, in numbers.
LEMMA LineAt ==
  ASSUME NEW fs \in [File -> LogFile], NEW logger \in LoggerState,
         NEW level \in Level, diskFull \in BOOLEAN
  PROVE  LET u == Use(logger, level)
             file == fs[u.file]
             put == Line(fs, logger, level)
             all == DispatchedFiles(put, logger, level)
             out == all[u.file]
         IN  /\ all \in [File -> LogFile]
             /\ \A f \in File \ {u.file} : all[f] = fs[f]
             /\ out.known = file.known
             /\ ~HasStream(fs, u.file) => out = file
             /\ u.file \in Device => out.disk <= file.disk
             /\ out.failed => file.failed \/ diskFull
             /\ Size(out) <= Size(file) + 1
             /\ out.disk < file.disk =>
                  u.limit # 0 /\ (file.failed \/ diskFull \/ Size(file) + 1 >= u.limit)
             /\ Accepted(put, u) => u.toFile
             /\ ~Accepted(put, u) =>
                  \/ out.failed \/ (out.held = 0 /\ Size(out) = 0)
                  \/ /\ ~file.failed /\ Size(out) <= Size(file)
                     /\ out.held <= file.held
             /\ (Accepted(put, u) /\ ~IsFlushNeeded(logger, level)) =>
                  \/ out.held <= 1 /\ Size(out) <= 1
                  \/ /\ ~file.failed /\ Size(out) <= Size(file) + 1
                     /\ out.held <= file.held + 1
             /\ (Accepted(put, u) /\ IsFlushNeeded(logger, level)) =>
                  \/ out.failed
                  \/ out.held = 0 /\ (u.limit = 0 \/ Size(out) < u.limit)
<1> DEFINE u == Use(logger, level)
           file == fs[u.file]
           chk == Checked(fs, u)
           c == chk[u.file]
           put == Line(fs, logger, level)
           p == put[u.file]
           all == DispatchedFiles(put, logger, level)
           out == all[u.file]
           r == Rolled(Flushed(p, u.file), {u.limit})
<1>1. u.file \in File /\ u.limit \in Nat
  BY UseTypes, Levels
<1>2. /\ c \in LogFile /\ c.known = file.known
      /\ ~HasStream(fs, u.file) => c = file
      /\ \/ c = file
         \/ /\ ~c.failed /\ c.held = 0 /\ c.disk = 0
            /\ u.limit # 0 /\ (file.failed \/ Size(file) >= u.limit)
      /\ \A f \in File \ {u.file} : chk[f] = fs[f]
      /\ chk \in [File -> LogFile]
  BY CheckedFile
<1>3. file \in LogFile
  BY <1>1
<1>4. /\ file.held \in Nat /\ file.disk \in Nat /\ c.held \in Nat /\ c.disk \in Nat
      /\ Size(file) = file.disk + file.held /\ Size(c) = c.disk + c.held
      /\ file.failed \in BOOLEAN
  <2> HIDE DEF c, file
  <2> QED
    BY <1>2, <1>3, FileFields DEF Size
<1>5. HasStream(chk, u.file) <=> HasStream(fs, u.file)
  BY <1>2 DEF HasStream
<1>6. put = IF u.toFile /\ HasStream(fs, u.file)
            THEN [chk EXCEPT ![u.file] = Written(c, u.file)] ELSE chk
  BY <1>5 DEF Line, Put, FlushesFile
<1>7. /\ c.failed => file.failed
      /\ Size(c) <= Size(file) /\ c.held <= file.held /\ c.disk <= file.disk
      /\ c.disk < file.disk => u.limit # 0 /\ (file.failed \/ Size(file) >= u.limit)
      /\ (file.failed /\ ~c.failed) => c.held = 0 /\ Size(c) = 0
  <2> HIDE DEF c, file, u
  <2>1. CASE c = file
    BY <1>4, <2>1
  <2>2. CASE /\ ~c.failed /\ c.held = 0 /\ c.disk = 0
             /\ u.limit # 0 /\ (file.failed \/ Size(file) >= u.limit)
    BY <1>4, <2>2
  <2> QED
    BY <1>2, <2>1, <2>2
<1>8. CASE ~(u.toFile /\ HasStream(fs, u.file))
  <2>1. put = chk
    BY <1>6, <1>8
  <2>2. ~Accepted(put, u)
    BY <1>5, <1>8, <2>1 DEF Accepted, FlushesFile
  <2>3. all = chk
    BY <2>1, <2>2 DEF DispatchedFiles
  <2>4. out = c
    BY <2>3
  <2>5. /\ u.file \in Device => c.disk <= file.disk
        /\ Size(c) <= Size(file) + 1
        /\ c.disk < file.disk =>
             u.limit # 0 /\ (file.failed \/ diskFull \/ Size(file) + 1 >= u.limit)
        /\ \/ c.failed \/ (c.held = 0 /\ Size(c) = 0)
           \/ ~file.failed /\ Size(c) <= Size(file) /\ c.held <= file.held
    <3> HIDE DEF c, file, u
    <3> QED
      BY <1>1, <1>4, <1>7 DEF u
  <2> HIDE DEF c, file, u, chk, put, all, out
  <2> QED
    BY <1>2, <1>7, <2>2, <2>3, <2>4, <2>5 DEF u, file, put, all, out
<1>9. CASE u.toFile /\ HasStream(fs, u.file)
  <2>1. put = [chk EXCEPT ![u.file] = Written(c, u.file)]
    BY <1>6, <1>9
  <2>2. p = Written(c, u.file)
    BY <1>1, <1>2, <2>1
  <2>3. /\ p \in LogFile /\ p.known = c.known
        /\ p.disk >= c.disk /\ (u.file \in Device => p.disk = c.disk)
        /\ c.failed => p.failed
        /\ p.failed => c.failed \/ diskFull
        /\ Size(p) <= Size(c) + 1 /\ p.held <= c.held + 1
    <3> HIDE DEF c, p
    <3> QED
      BY <1>2, <2>2, FileWrittenFields
  <2>4. /\ put \in [File -> LogFile]
        /\ \A f \in File \ {u.file} : put[f] = fs[f]
    <3> HIDE DEF p, c, put, chk
    <3> QED
      BY <1>1, <1>2, <2>1, <2>2, <2>3
  <2>5. p.held \in Nat /\ p.disk \in Nat /\ Size(p) \in Nat
        /\ p.failed \in BOOLEAN
    <3> HIDE DEF p
    <3> QED
      BY <2>3, FileFields
  <2>6. HasStream(put, u.file)
    BY <1>2, <1>9, <2>3 DEF HasStream
  <2>7. Accepted(put, u) <=> ~p.failed
    BY <1>9, <2>6 DEF Accepted, FlushesFile
  <2>8. CASE p.failed
    <3>1. all = put /\ out = p
      BY <2>7, <2>8 DEF DispatchedFiles
    <3>2. /\ u.file \in Device => p.disk <= file.disk
          /\ Size(p) <= Size(file) + 1
          /\ p.failed => file.failed \/ diskFull
          /\ p.disk < file.disk =>
               u.limit # 0 /\ (file.failed \/ diskFull \/ Size(file) + 1 >= u.limit)
      <4> HIDE DEF c, file, u, p
      <4> QED
        BY <1>1, <1>4, <1>7, <2>3, <2>5 DEF u
    <3> HIDE DEF c, file, u, chk, put, p, all, out
    <3> QED
      BY <1>2, <1>9, <2>3, <2>4, <2>7, <2>8, <3>1, <3>2 DEF u, file, put, all, out
  <2>9. CASE ~p.failed /\ ~IsFlushNeeded(logger, level)
    <3>1. all = put /\ out = p
      BY <2>9 DEF DispatchedFiles
    <3>2. /\ u.file \in Device => p.disk <= file.disk
          /\ Size(p) <= Size(file) + 1
          /\ p.disk < file.disk =>
               u.limit # 0 /\ (file.failed \/ diskFull \/ Size(file) + 1 >= u.limit)
          /\ \/ p.held <= 1 /\ Size(p) <= 1
             \/ ~file.failed /\ Size(p) <= Size(file) + 1 /\ p.held <= file.held + 1
      <4> HIDE DEF c, file, u, p
      <4>1. /\ u.file \in Device => p.disk <= file.disk
            /\ Size(p) <= Size(file) + 1 /\ p.held <= file.held + 1
        BY <1>4, <1>7, <2>3, <2>5
      <4>2. p.disk < file.disk =>
              u.limit # 0 /\ (file.failed \/ diskFull \/ Size(file) + 1 >= u.limit)
        BY <1>1, <1>4, <1>7, <2>3, <2>5
      <4>3. file.failed => p.held <= 1 /\ Size(p) <= 1
        BY <1>4, <1>7, <2>3, <2>5, <2>9
      <4> QED
        BY <1>4, <4>1, <4>2, <4>3
    <3> HIDE DEF c, file, u, chk, put, p, all, out
    <3> QED
      BY <1>2, <1>9, <2>3, <2>4, <2>7, <2>9, <3>1, <3>2 DEF u, file, put, all, out
  <2>10. CASE ~p.failed /\ IsFlushNeeded(logger, level)
    <3>1. all = [put EXCEPT ![u.file] = r]
      BY <1>9, <2>6, <2>7, <2>10 DEF DispatchedFiles, FlushFile, FlushesFile
    <3>2. out = r
      BY <1>1, <2>4, <3>1
    <3>3. /\ r \in LogFile /\ r.known = p.known
          /\ u.file \in Device => r.disk <= p.disk
          /\ r.failed => p.failed \/ diskFull
          /\ r.failed \/ r.held = 0
          /\ \A n \in {u.limit} \ {0} : ~r.failed /\ Size(r) < n
          /\ Size(r) <= Size(p) /\ r.held <= p.held
          /\ r.disk < p.disk =>
               \E n \in {u.limit} \ {0} : p.failed \/ diskFull \/ Size(p) >= n
      <4>1. {u.limit} \in SUBSET Nat
        BY <1>1
      <4> HIDE DEF p, u
      <4> QED
        BY <2>3, <4>1, FlushAndRoll
    <3>4. r.held \in Nat /\ r.disk \in Nat /\ Size(r) \in Nat
      <4> HIDE DEF r
      <4> QED
        BY <3>3, FileFields
    <3>5. /\ u.file \in Device => r.disk <= file.disk
          /\ Size(r) <= Size(file) + 1
          /\ r.failed => file.failed \/ diskFull
          /\ r.disk < file.disk =>
               u.limit # 0 /\ (file.failed \/ diskFull \/ Size(file) + 1 >= u.limit)
          /\ \/ r.failed
             \/ r.held = 0 /\ (u.limit = 0 \/ Size(r) < u.limit)
      <4> HIDE DEF c, file, u, p, r
      <4> QED
        BY <1>1, <1>4, <1>7, <2>3, <2>5, <2>10, <3>3, <3>4 DEF u
    <3>6. all \in [File -> LogFile] /\ \A f \in File \ {u.file} : all[f] = fs[f]
      <4> HIDE DEF p, r, u, put, all
      <4> QED
        BY <1>1, <2>4, <3>1, <3>3
    <3> HIDE DEF c, file, u, chk, put, p, all, out, r
    <3> QED
      BY <1>2, <1>9, <2>3, <2>7, <2>10, <3>2, <3>3, <3>5, <3>6 DEF u, file, put, all, out
  <2> QED
    BY <2>5, <2>8, <2>9, <2>10
<1> QED
  BY <1>8, <1>9

\* Counting changes neither who writes to a file nor its limits.
LEMMA SameUses ==
  ASSUME NEW ls, NEW ms, DOMAIN ms = DOMAIN ls,
         \A id \in DOMAIN ls : ms[id].uses = ls[id].uses, NEW f
  PROVE  Writers(ms, f) = Writers(ls, f) /\ LimitsOf(ms, f) = LimitsOf(ls, f)
<1>1. \A l : \A id \in DOMAIN ls : Use(ms[id], l) = Use(ls[id], l)
  BY DEF Use
<1>2. \A w : w \in Writers(ms, f) <=> w \in Writers(ls, f)
  <2>1. ASSUME NEW w
        PROVE  w \in Writers(ms, f) <=> w \in Writers(ls, f)
    <3>1. w \in (DOMAIN ls) \X Level => Use(ms[w[1]], w[2]) = Use(ls[w[1]], w[2])
      BY <1>1
    <3> QED
      BY <3>1, WriterIs
  <2> QED
    BY <2>1
<1>3. Writers(ms, f) = Writers(ls, f)
  BY <1>2
<1>4. \A w \in Writers(ls, f) : Use(ms[w[1]], w[2]) = Use(ls[w[1]], w[2])
  BY <1>1, WriterIs
<1> QED
  BY <1>3, <1>4 DEF LimitsOf

LEMMA KnownFiles ==
  ASSUME LoggingInv, DOMAIN loggers' = DOMAIN loggers,
         \A id \in DOMAIN loggers : loggers'[id].uses = loggers[id].uses,
         \A f \in File : files[f].known => files'[f].known
  PROVE  \A id \in DOMAIN loggers', l \in AllLevels :
           files'[Use(loggers'[id], l).file].known
<1> SUFFICES ASSUME NEW id \in DOMAIN loggers, NEW l \in AllLevels
             PROVE  files'[Use(loggers'[id], l).file].known
  OBVIOUS
<1>1. Use(loggers'[id], l) = Use(loggers[id], l)
  BY DEF Use
<1>2. files[Use(loggers[id], l).file].known
  BY DEF LoggingInv, TypeOK
<1>3. loggers[id] \in LoggerState
  BY Typed DEF IsRegistry
<1> QED
  BY <1>1, <1>2, <1>3, UseTypes

Recounted(id, level, n) == loggers' = [loggers EXCEPT ![id].unflushed[level] = n]

LEMMA Counts ==
  ASSUME LoggingInv, NEW id \in DOMAIN loggers, NEW level \in Level, NEW n \in Nat,
         Recounted(id, level, n)
  PROVE  /\ IsRegistry(loggers') /\ DOMAIN loggers' = DOMAIN loggers
         /\ \A i \in DOMAIN loggers : loggers'[i].uses = loggers[i].uses
         /\ \A i \in DOMAIN loggers, l \in Level :
              loggers'[i].unflushed[l] =
                IF i = id /\ l = level THEN n ELSE loggers[i].unflushed[l]
<1> DEFINE made == [loggers[id] EXCEPT !.unflushed = [@ EXCEPT ![level] = n]]
<1>1. DOMAIN loggers \subseteq Logger /\ loggers \in [DOMAIN loggers -> LoggerState]
  BY Typed DEF IsRegistry
<1>2. loggers[id].unflushed \in [Level -> Nat]
  BY <1>1 DEF LoggerState
<1>3. [loggers[id].unflushed EXCEPT ![level] = n] \in [Level -> Nat]
  BY <1>2
<1>4. /\ made \in LoggerState /\ made.uses = loggers[id].uses
      /\ made.unflushed = [loggers[id].unflushed EXCEPT ![level] = n]
  BY <1>1, <1>3 DEF LoggerState
<1>5. loggers' = [loggers EXCEPT ![id] = made]
  BY DEF Recounted
<1> HIDE DEF made
<1>6. /\ DOMAIN loggers' = DOMAIN loggers
      /\ \A i \in DOMAIN loggers : loggers'[i] = IF i = id THEN made ELSE loggers[i]
  BY <1>1, <1>5
<1>7. IsRegistry(loggers')
  <2>1. loggers' \in [DOMAIN loggers -> LoggerState]
    BY <1>1, <1>4, <1>5
  <2> QED
    BY <1>1, <1>6, <2>1 DEF IsRegistry
<1>8. \A i \in DOMAIN loggers : loggers'[i].uses = loggers[i].uses
  BY <1>4, <1>6
<1>9. ASSUME NEW i \in DOMAIN loggers, NEW l \in Level
      PROVE  loggers'[i].unflushed[l] =
               IF i = id /\ l = level THEN n ELSE loggers[i].unflushed[l]
  BY <1>2, <1>4, <1>6
<1>10. \A i \in DOMAIN loggers, l \in Level :
         loggers'[i].unflushed[l] =
           IF i = id /\ l = level THEN n ELSE loggers[i].unflushed[l]
  BY <1>9, Zenon
<1>11. DOMAIN loggers' = DOMAIN loggers
  BY <1>6
<1> QED
  BY <1>7, <1>8, <1>10, <1>11, Zenon

LEMMA WriteKeeps ==
  ASSUME LoggingInv, running, NEW id \in DOMAIN loggers, NEW level \in Level,
         Write(id, level, Line(files, loggers[id], level))
  PROVE  LoggingInv' /\ \A f \in File : RollsRight(f)
<1> DEFINE logger == loggers[id]
           u == Use(logger, level)
           g == u.file
           put == Line(files, logger, level)
           n == DispatchedCount(put, logger, level)
           taken == Accepted(put, u)
           flush == IsFlushNeeded(logger, level)
<1>1. /\ logger \in LoggerState /\ g \in File /\ u.limit \in Nat
      /\ level \in AllLevels /\ files \in [File -> LogFile] /\ diskFull \in BOOLEAN
      /\ logger.unflushed[level] \in Nat
  <2>1. logger \in LoggerState /\ level \in AllLevels
    BY Typed, Levels DEF IsRegistry
  <2>2. logger.unflushed \in [Level -> Nat]
    BY <2>1 DEF LoggerState
  <2> QED
    BY <2>1, <2>2, Typed, UseTypes
<1>2. /\ files' \in [File -> LogFile]
      /\ \A f \in File \ {g} : files'[f] = files[f]
      /\ files'[g].known = files[g].known
      /\ ~HasStream(files, g) => files'[g] = files[g]
      /\ g \in Device => files'[g].disk <= files[g].disk
      /\ Size(files'[g]) <= Size(files[g]) + 1
      /\ files'[g].disk < files[g].disk =>
           /\ u.limit # 0
           /\ files[g].failed \/ diskFull \/ Size(files[g]) + 1 >= u.limit
      /\ taken => u.toFile
      /\ ~taken =>
           \/ files'[g].failed \/ (files'[g].held = 0 /\ Size(files'[g]) = 0)
           \/ /\ ~files[g].failed /\ Size(files'[g]) <= Size(files[g])
              /\ files'[g].held <= files[g].held
      /\ (taken /\ ~flush) =>
           \/ files'[g].held <= 1 /\ Size(files'[g]) <= 1
           \/ /\ ~files[g].failed /\ Size(files'[g]) <= Size(files[g]) + 1
              /\ files'[g].held <= files[g].held + 1
      /\ (taken /\ flush) =>
           \/ files'[g].failed
           \/ files'[g].held = 0 /\ (u.limit = 0 \/ Size(files'[g]) < u.limit)
  BY <1>1, LineAt DEF Write
<1>3. n = IF taken THEN IF flush THEN 0 ELSE logger.unflushed[level] + 1
                   ELSE logger.unflushed[level]
  BY DEF DispatchedCount
<1>4. Recounted(id, level, n)
  BY DEF Write, Recounted
<1> HIDE DEF put, n, taken, flush
<1>5. n \in Nat
  BY <1>1, <1>3
<1>6. /\ IsRegistry(loggers') /\ DOMAIN loggers' = DOMAIN loggers
      /\ \A i \in DOMAIN loggers : loggers'[i].uses = loggers[i].uses
      /\ \A i \in DOMAIN loggers, l \in Level :
           loggers'[i].unflushed[l] =
             IF i = id /\ l = level THEN n ELSE loggers[i].unflushed[l]
  BY <1>4, <1>5, Counts
<1>7. \A f : Writers(loggers', f) = Writers(loggers, f)
             /\ LimitsOf(loggers', f) = LimitsOf(loggers, f)
  BY <1>6, SameUses
<1>8. \A f \in File : LimitsOf(loggers, f) \subseteq limits[f]
  BY DEF LoggingInv, LimitsKnown
<1>9. \A f \in File : Cardinality(Counted(loggers, f)) \in Nat
  BY Typed, CountedFinite
<1>10. \A f \in File : /\ files[f].held \in Nat /\ files'[f].held \in Nat
                        /\ files[f].disk \in Nat /\ files'[f].disk \in Nat
                        /\ Size(files[f]) \in Nat /\ Size(files'[f]) \in Nat
                        /\ Size(files[f]) = files[f].disk + files[f].held
                        /\ files[f].failed \in BOOLEAN
  BY <1>1, <1>2, FileFields DEF Size
<1>11. ASSUME NEW f \in File, \A w \in Writers(loggers, f) :
                                w # <<id, level>> \/ n = logger.unflushed[level]
       PROVE  Cardinality(Counted(loggers', f)) = Cardinality(Counted(loggers, f))
  <2>1. ASSUME NEW w \in Writers(loggers, f)
        PROVE  loggers'[w[1]].unflushed[w[2]] = loggers[w[1]].unflushed[w[2]]
    <3>1. w \in (DOMAIN loggers) \X Level
      BY WriterIs
    <3>2. w[1] \in DOMAIN loggers /\ w[2] \in Level /\ w = <<w[1], w[2]>>
      BY <3>1
    <3>3. loggers'[w[1]].unflushed[w[2]] =
            IF w[1] = id /\ w[2] = level THEN n ELSE loggers[w[1]].unflushed[w[2]]
      BY <1>6, <3>2
    <3> QED
      BY <1>11, <3>2, <3>3
  <2> QED
    BY <1>7, <2>1, CountedSame
<1>12. ASSUME NEW f \in File \ {g}
       PROVE  FileKept(f) /\ SafelyMoved(f, 0) /\ RollsRight(f)
  <2>1. <<id, level>> \notin Writers(loggers, f)
    BY <1>12, WriterIs
  <2>2. Cardinality(Counted(loggers', f)) = Cardinality(Counted(loggers, f))
    BY <1>11, <2>1
  <2>3. files'[f] = files[f]
    BY <1>2
  <2>4. FileKept(f)
    BY <1>1, <2>3 DEF FileKept, LoggingInv, TypeOK, ClosedEmpty, EmptyIfShut
  <2>5. RollsRight(f)
    BY <1>10, <2>3 DEF RollsRight
  <2>6. LimitsOf(loggers', f) \subseteq limits[f]
    BY <1>7, <1>8
  <2>7. /\ files'[f].held <= files[f].held + 0
        /\ Size(files'[f]) <= Size(files[f]) + 0
        /\ Cardinality(Counted(loggers', f)) = Cardinality(Counted(loggers, f)) + 0
    BY <1>9, <1>10, <2>2, <2>3
  <2>8. SafelyMoved(f, 0)
    BY <1>7, <2>3, <2>6, <2>7 DEF SafelyMoved
  <2> QED
    BY <2>4, <2>5, <2>8
<1>13. FileKept(g)
  <2>1. files'[g].known \in BOOLEAN /\ files[g].known \in BOOLEAN
    BY <1>1, <1>2, FileFields
  <2>2. g \in Device => files'[g].disk = 0
    BY <1>1, <1>2, <1>10 DEF LoggingInv, TypeOK
  <2>3. EmptyIfShut(files'[g], g)
    <3>1. g \in Unopenable => files'[g] = files[g]
      BY <1>2 DEF HasStream, IsOpen
    <3> QED
      BY <3>1 DEF EmptyIfShut, LoggingInv, ClosedEmpty
  <2>4. ~files'[g].known => files'[g].held = 0
    <3>1. ~files[g].known => files'[g] = files[g]
      BY <1>2 DEF HasStream
    <3> QED
      BY <1>1, <1>2, <3>1 DEF LoggingInv, TypeOK
  <2> QED
    BY <1>1, <1>2, <2>1, <2>2, <2>3, <2>4 DEF FileKept
<1>14. \E k \in Nat : SafelyMoved(g, k)
  <2>1. LimitsOf(loggers', g) \subseteq limits[g]
    BY <1>1, <1>7, <1>8
  <2>2. CASE ~taken
    <3>1. Cardinality(Counted(loggers', g)) = Cardinality(Counted(loggers, g)) + 0
      BY <1>1, <1>3, <1>9, <1>11, <2>2
    <3>2. files'[g].held <= files[g].held => files'[g].held <= files[g].held + 0
      BY <1>1, <1>10
    <3>3. Size(files'[g]) <= Size(files[g]) => Size(files'[g]) <= Size(files[g]) + 0
      BY <1>1, <1>10
    <3>4. SafelyMoved(g, 0)
      BY <1>2, <1>7, <2>1, <2>2, <3>1, <3>2, <3>3 DEF SafelyMoved
    <3> QED
      BY <3>4
  <2>3. ASSUME taken
        PROVE  <<id, level>> \in Writers(loggers, g)
    BY <1>1, <1>2, <2>3, WriterIs
  <2>4. CASE taken /\ ~flush
    <3>1. Cardinality(Counted(loggers', g)) = Cardinality(Counted(loggers, g)) + 1
      <4>1. ASSUME NEW w \in Writers(loggers, g)
            PROVE  loggers'[w[1]].unflushed[w[2]] =
                     IF w = <<id, level>> THEN loggers[w[1]].unflushed[w[2]] + 1
                                          ELSE loggers[w[1]].unflushed[w[2]]
        <5>1. w \in (DOMAIN loggers) \X Level
          BY WriterIs
        <5>2. w[1] \in DOMAIN loggers /\ w[2] \in Level /\ w = <<w[1], w[2]>>
          BY <5>1
        <5>3. loggers'[w[1]].unflushed[w[2]] =
                IF w[1] = id /\ w[2] = level THEN n ELSE loggers[w[1]].unflushed[w[2]]
          BY <1>6, <5>2
        <5>4. n = loggers[id].unflushed[level] + 1
          BY <1>3, <2>4
        <5>5. w = <<id, level>> <=> w[1] = id /\ w[2] = level
          BY <5>2
        <5> QED
          BY <5>3, <5>4, <5>5
      <4>2. <<id, level>> \in Writers(loggers, g)
        BY <2>3, <2>4
      <4> QED
        BY <1>7, <4>1, <4>2, Typed, CountedMore
    <3>2. SafelyMoved(g, 1)
      BY <1>2, <1>7, <2>1, <2>4, <3>1 DEF SafelyMoved
    <3> QED
      BY <3>2
  <2>5. CASE taken /\ flush
    <3>1. u.limit \in LimitsOf(loggers, g)
      <4>1. <<id, level>> \in Writers(loggers, g)
        BY <2>3, <2>5
      <4>2. Use(loggers[<<id, level>>[1]], <<id, level>>[2]) = u
        OBVIOUS
      <4> QED
        BY <4>1, <4>2 DEF LimitsOf
    <3>2. SafelyMoved(g, 0)
      BY <1>2, <2>5, <3>1 DEF SafelyMoved
    <3> QED
      BY <3>2
  <2> QED
    BY <2>2, <2>4, <2>5
<1>15. RollsRight(g)
  <2> SUFFICES ASSUME files'[g].disk < files[g].disk
               PROVE  /\ Use(loggers[id], level).file = g
                      /\ Use(loggers[id], level).limit # 0
                      /\ \/ files[g].failed \/ diskFull
                         \/ files[g].disk + files[g].held + LinesOfStep
                              >= Use(loggers[id], level).limit
    BY <1>1 DEF RollsRight
  <2> QED
    BY <1>1, <1>2, <1>10, StepWritesLines
<1>16. \A f \in File : FileKept(f) /\ RollsRight(f) /\ \E k \in Nat : SafelyMoved(f, k)
  <2>1. ASSUME NEW f \in File
        PROVE  FileKept(f) /\ RollsRight(f) /\ \E k \in Nat : SafelyMoved(f, k)
    <3>1. CASE f = g
      BY <1>13, <1>14, <1>15, <3>1
    <3>2. CASE f # g
      BY <1>12, <3>2
    <3> QED
      BY <3>1, <3>2
  <2> QED
    BY <2>1
<1>17. BelowThreshold'
  <2>1. ASSUME NEW i \in DOMAIN loggers, NEW l \in Level
        PROVE  \/ loggers'[i].unflushed[l] = 0
               \/ loggers'[i].unflushed[l] < Use(loggers'[i], l).threshold
    <3>1. Use(loggers'[i], l) = Use(loggers[i], l)
      BY <1>6 DEF Use
    <3>2. CASE i = id /\ l = level /\ taken
      <4>1. loggers'[i].unflushed[l] = n
        BY <1>6, <3>2
      <4>2. CASE flush
        BY <1>3, <3>2, <4>1, <4>2
      <4>3. CASE ~flush
        <5>1. u.threshold \in Nat
          BY <1>1, UseTypes
        <5>2. ~(logger.unflushed[level] + 1 >= u.threshold)
          BY <4>3 DEF flush, IsFlushNeeded
        <5> QED
          BY <1>1, <1>3, <3>1, <3>2, <4>1, <4>3, <5>1, <5>2
      <4> QED
        BY <4>2, <4>3
    <3>3. CASE ~(i = id /\ l = level /\ taken)
      <4>1. loggers'[i].unflushed[l] = loggers[i].unflushed[l]
        BY <1>3, <1>6, <3>3
      <4> QED
        BY <3>1, <4>1 DEF LoggingInv, BelowThreshold
    <3> QED
      BY <3>2, <3>3
  <2> QED
    BY <1>6, <2>1 DEF BelowThreshold
<1>18. \A i \in DOMAIN loggers', l \in AllLevels : files'[Use(loggers'[i], l).file].known
  BY <1>6, <1>16, KnownFiles DEF FileKept
<1>19. files' = [f \in File |-> files'[f]]
  BY <1>2
<1>20. /\ running' /\ running' \in BOOLEAN /\ defaults' \in Configured
       /\ flags' \subseteq Flag /\ diskFull' \in BOOLEAN /\ Remember
       /\ "default" \in DOMAIN loggers'
  BY <1>6, Typed DEF Write, LoggingInv, TypeOK, HasDefaults
<1> QED
  BY <1>6, <1>16, <1>17, <1>18, <1>19, <1>20, InvAfter

-----------------------------------------------------------------------------
(***************************************************************************)
(* Flushing, and loggers that go.                                          *)
(***************************************************************************)

LEMMA Uncounts ==
  ASSUME LoggingInv, NEW id \in DOMAIN loggers, Flush(id)
  PROVE  /\ IsRegistry(loggers') /\ DOMAIN loggers' = DOMAIN loggers
         /\ \A i \in DOMAIN loggers : loggers'[i].uses = loggers[i].uses
         /\ \A i \in DOMAIN loggers \ {id} : loggers'[i] = loggers[i]
         /\ \A l \in Level :
              loggers'[id].unflushed[l] = IF FlushesFile(Use(loggers[id], l), files) THEN 0
                                          ELSE loggers[id].unflushed[l]
<1> DEFINE counts == [l \in Level |-> IF FlushesFile(Use(loggers[id], l), files) THEN 0
                                     ELSE loggers[id].unflushed[l]]
           made == [loggers[id] EXCEPT !.unflushed = counts]
<1>1. DOMAIN loggers \subseteq Logger /\ loggers \in [DOMAIN loggers -> LoggerState]
  BY Typed DEF IsRegistry
<1>2. loggers[id].unflushed \in [Level -> Nat]
  BY <1>1 DEF LoggerState
<1>3. counts \in [Level -> Nat]
  BY <1>2
<1>4. loggers' = [loggers EXCEPT ![id] = made]
  BY DEF Flush, Uncount
<1> HIDE DEF counts
<1>5. made \in LoggerState /\ made.uses = loggers[id].uses /\ made.unflushed = counts
  BY <1>1, <1>3 DEF LoggerState
<1> HIDE DEF made
<1>6. /\ DOMAIN loggers' = DOMAIN loggers
      /\ \A i \in DOMAIN loggers : loggers'[i] = IF i = id THEN made ELSE loggers[i]
      /\ loggers' \in [DOMAIN loggers -> LoggerState]
  BY <1>1, <1>4, <1>5
<1>7. IsRegistry(loggers')
  BY <1>1, <1>6 DEF IsRegistry
<1>8. \A i \in DOMAIN loggers : loggers'[i].uses = loggers[i].uses
  BY <1>5, <1>6
<1>9. \A l \in Level :
        loggers'[id].unflushed[l] = IF FlushesFile(Use(loggers[id], l), files) THEN 0
                                    ELSE loggers[id].unflushed[l]
  BY <1>5, <1>6 DEF counts
<1> QED
  BY <1>6, <1>7, <1>8, <1>9

LEMMA FlushKeeps ==
  ASSUME LoggingInv, running, NEW id \in DOMAIN loggers, Flush(id)
  PROVE  LoggingInv' /\ \A f \in File : RollsRight(f)
<1>1. /\ IsRegistry(loggers') /\ DOMAIN loggers' = DOMAIN loggers
      /\ \A i \in DOMAIN loggers : loggers'[i].uses = loggers[i].uses
      /\ \A i \in DOMAIN loggers \ {id} : loggers'[i] = loggers[i]
      /\ \A l \in Level :
           loggers'[id].unflushed[l] = IF FlushesFile(Use(loggers[id], l), files) THEN 0
                                       ELSE loggers[id].unflushed[l]
  BY Uncounts
<1>2. \A f : Writers(loggers', f) = Writers(loggers, f)
             /\ LimitsOf(loggers', f) = LimitsOf(loggers, f)
  BY <1>1, SameUses
<1>3. ASSUME NEW f \in File
      PROVE  FileKept(f) /\ SafelyMoved(f, 0) /\ RollsRight(f)
  <2> DEFINE W == Writers(Some({id}), f)
             g == files'[f]
             file == files[f]
  <2>1. /\ g \in LogFile /\ g.known = file.known /\ EmptyIfShut(g, f)
        /\ f \in Device => g.disk <= file.disk
        /\ Size(g) <= Size(file) /\ g.held <= file.held
        /\ W = {} => g = file
        /\ W # {} => g.failed \/ g.held = 0
        /\ \A w \in W : LET n == Use(loggers[w[1]], w[2]).limit
                       IN  n = 0 \/ (~g.failed /\ Size(g) < n)
        /\ g.disk < file.disk =>
             \E w \in W : LET n == Use(loggers[w[1]], w[2]).limit
                         IN  n # 0 /\ (file.failed \/ diskFull \/ Size(file) >= n)
    BY FlushFilesAt DEF Flush
  <2>2. /\ file \in LogFile /\ file.held \in Nat /\ file.disk \in Nat
        /\ Size(file) \in Nat /\ g.held \in Nat /\ g.disk \in Nat /\ Size(g) \in Nat
        /\ Size(file) = file.disk + file.held
        /\ file.known \in BOOLEAN /\ g.known \in BOOLEAN
    <3>1. file \in LogFile
      BY Typed
    <3> HIDE DEF g, file
    <3> QED
      BY <2>1, <3>1, FileFields DEF Size
  <2>3. /\ f \in Device => file.disk = 0
        /\ ~file.known => file.held = 0
    BY DEF LoggingInv, TypeOK
  <2>4. \A w \in W : /\ w \in Writers(loggers, f) /\ w[1] \in DOMAIN loggers
                    /\ w[2] \in AllLevels /\ Use(loggers[w[1]], w[2]).file = f
                    /\ Use(loggers[w[1]], w[2]).limit \in Nat
                    /\ Use(loggers[w[1]], w[2]).limit \in LimitsOf(loggers, f)
    <3>1. \A w \in W : w \in Writers(loggers, f)
      BY SomeWriters
    <3>2. \A w \in Writers(loggers, f) :
            Use(loggers[w[1]], w[2]).limit \in LimitsOf(loggers, f)
      BY DEF LimitsOf
    <3> HIDE DEF W
    <3> QED
      BY <3>1, <3>2, WriterIs, Typed, WriterCount, Levels
  <2>5. LimitsOf(loggers', f) \subseteq limits[f]
    BY <1>2 DEF LoggingInv, LimitsKnown
  <2>6. ASSUME W = {}
        PROVE  Cardinality(Counted(loggers', f)) = Cardinality(Counted(loggers, f)) + 0
    <3>1. ASSUME NEW w \in Writers(loggers, f)
          PROVE  loggers'[w[1]].unflushed[w[2]] = loggers[w[1]].unflushed[w[2]]
      <4>1. w[1] \in DOMAIN loggers \ {id}
        BY <2>6, SomeWriters, WriterIs
      <4> QED
        BY <1>1, <4>1
    <3>2. Counted(loggers', f) = Counted(loggers, f)
      BY <1>2, <3>1, CountedSame
    <3> QED
      BY <3>2, Typed, CountedFinite
  <2> HIDE DEF W, g, file
  <2>7. FileKept(f)
    <3>1. f \in Device => g.disk = 0
      BY <2>1, <2>2, <2>3
    <3>2. ~g.known => g.held = 0
      BY <2>1, <2>2, <2>3
    <3> QED
      BY <2>1, <3>1, <3>2 DEF FileKept, g, file
  <2>8. SafelyMoved(f, 0)
    <3>1. CASE W # {}
      <4>1. PICK w \in W : TRUE
        BY <3>1
      <4>2. g.failed \/ g.held = 0
        BY <2>1, <3>1
      <4>3. \E n \in LimitsOf(loggers, f) \cup LimitsOf(loggers', f) : n = 0 \/ Size(g) < n
        BY <2>1, <2>4, <4>1
      <4> QED
        BY <4>2, <4>3 DEF SafelyMoved, g
    <3>2. CASE W = {}
      <4>1. g = file /\ g.held <= file.held + 0 /\ Size(g) <= Size(file) + 0
        BY <2>1, <2>2, <3>2
      <4> QED
        BY <1>2, <2>5, <2>6, <3>2, <4>1 DEF SafelyMoved, g, file
    <3> QED
      BY <3>1, <3>2
  <2>9. RollsRight(f)
    <3> SUFFICES ASSUME g.disk < file.disk
                 PROVE  \E i \in DOMAIN loggers, l \in AllLevels :
                          /\ Use(loggers[i], l).file = f
                          /\ Use(loggers[i], l).limit # 0
                          /\ \/ file.failed \/ diskFull
                             \/ file.disk + file.held + LinesOfStep
                                  >= Use(loggers[i], l).limit
      BY DEF RollsRight, g, file
    <3>1. PICK w \in W : /\ Use(loggers[w[1]], w[2]).limit # 0
                          /\ \/ file.failed \/ diskFull
                             \/ Size(file) >= Use(loggers[w[1]], w[2]).limit
      BY <2>1
    <3>2. \/ file.failed \/ diskFull
          \/ file.disk + file.held + LinesOfStep >= Use(loggers[w[1]], w[2]).limit
      BY <2>2, <2>4, <3>1, StepWritesLines
    <3> QED
      BY <2>4, <3>1, <3>2
  <2> QED
    BY <2>7, <2>8, <2>9
<1>4. BelowThreshold'
  <2>1. ASSUME NEW i \in DOMAIN loggers, NEW l \in Level
        PROVE  \/ loggers'[i].unflushed[l] = 0
               \/ loggers'[i].unflushed[l] < Use(loggers'[i], l).threshold
    <3>1. Use(loggers'[i], l) = Use(loggers[i], l)
      BY <1>1 DEF Use
    <3>2. \/ loggers'[i].unflushed[l] = 0
          \/ loggers'[i].unflushed[l] = loggers[i].unflushed[l]
      BY <1>1
    <3> QED
      BY <3>1, <3>2 DEF LoggingInv, BelowThreshold
  <2> QED
    BY <1>1, <2>1 DEF BelowThreshold
<1>5. \A i \in DOMAIN loggers', l \in AllLevels : files'[Use(loggers'[i], l).file].known
  BY <1>1, <1>3, KnownFiles DEF FileKept
<1>6. /\ files' = [f \in File |-> files'[f]] /\ Remember
      /\ \A f \in File : \E k \in Nat : SafelyMoved(f, k)
  BY <1>3 DEF Flush, FlushFiles
<1>7. /\ running' /\ running' \in BOOLEAN /\ defaults' \in Configured
      /\ flags' \subseteq Flag /\ diskFull' \in BOOLEAN
      /\ "default" \in DOMAIN loggers'
  BY <1>1, Typed DEF Flush, LoggingInv, TypeOK, HasDefaults
<1> QED
  BY <1>1, <1>3, <1>4, <1>5, <1>6, <1>7, InvAfter

LEMMA FlushAllKeeps ==
  ASSUME LoggingInv, FlushAll
  PROVE  LoggingInv' /\ \A f \in File : RollsRight(f)
<1>1. /\ running' /\ running' \in BOOLEAN /\ defaults' \in Configured
      /\ flags' \subseteq Flag /\ diskFull' \in BOOLEAN /\ Remember
      /\ loggers' = loggers /\ "default" \in DOMAIN loggers'
      /\ files' = [f \in File |-> Flushed(files[f], f)]
  BY Typed DEF FlushAll, AllFlushed, LoggingInv, TypeOK, HasDefaults
<1>2. ASSUME NEW f \in File
      PROVE  FileKept(f) /\ SafelyMoved(f, 0) /\ RollsRight(f)
  <2> DEFINE g == files'[f]
             file == files[f]
  <2>1. /\ g \in LogFile /\ g.known = file.known
        /\ \/ g = file /\ (file.failed \/ file.held = 0)
           \/ f \in Device /\ ~file.failed /\ g.held = 0 /\ g.disk = file.disk
           \/ f \notin Device /\ g.failed /\ g.held = file.held /\ g.disk = file.disk
           \/ /\ f \notin Device /\ ~file.failed /\ g.held = 0
              /\ g.disk = file.disk + file.held
    BY <1>1, Typed, FileFlushedFields
  <2>2. /\ file.held \in Nat /\ file.disk \in Nat /\ g.held \in Nat /\ g.disk \in Nat
        /\ Size(file) = file.disk + file.held /\ Size(g) = g.disk + g.held
        /\ file.known \in BOOLEAN
    <3>1. file \in LogFile
      BY Typed
    <3> HIDE DEF g, file
    <3> QED
      BY <2>1, <3>1, FileFields DEF Size
  <2>3. /\ f \in Device => file.disk = 0
        /\ ~file.known => file.held = 0
    BY DEF LoggingInv, TypeOK
  <2>4. EmptyIfShut(g, f)
    <3>1. f \in Unopenable => file.held = 0 /\ g = Flushed(file, f)
      BY <1>1 DEF LoggingInv, ClosedEmpty
    <3>2. f \in Unopenable => g = file
      BY <3>1 DEF Flushed
    <3> QED
      BY <3>2 DEF EmptyIfShut, LoggingInv, ClosedEmpty
  <2>5. LimitsOf(loggers', f) \subseteq limits[f]
    BY <1>1 DEF LoggingInv, LimitsKnown
  <2>6. Cardinality(Counted(loggers', f)) = Cardinality(Counted(loggers, f)) + 0
    BY <1>1, Typed, CountedFinite
  <2> HIDE DEF g, file
  <2>7. /\ f \in Device => g.disk = 0
        /\ ~g.known => g.held = 0
        /\ ~(g.disk < file.disk)
        /\ g.failed \/ (~file.failed /\ g.held = 0) \/ (~file.failed /\ g = file)
        /\ Size(g) <= Size(file) + 0
    BY <2>1, <2>2, <2>3
  <2>8. FileKept(f) /\ RollsRight(f)
    BY <2>1, <2>4, <2>7 DEF FileKept, RollsRight, g, file
  <2>9. g.failed \/ g.held = 0
    BY <2>1
  <2>10. SafelyMoved(f, 0)
    BY <1>1, <2>5, <2>6, <2>7, <2>9 DEF SafelyMoved, g, file
  <2> QED
    BY <2>8, <2>10
<1>3. BelowThreshold'
  BY <1>1 DEF LoggingInv, BelowThreshold
<1>4. \A i \in DOMAIN loggers', l \in AllLevels : files'[Use(loggers'[i], l).file].known
  BY <1>1, <1>2, KnownFiles DEF FileKept
<1>5. IsRegistry(loggers') /\ files' = [f \in File |-> files'[f]]
  BY <1>1, Typed
<1>6. \A f \in File : \E k \in Nat : SafelyMoved(f, k)
  BY <1>2
<1> QED
  BY <1>1, <1>2, <1>3, <1>4, <1>5, <1>6, InvAfter

\* The lines of a logger that goes are counted as stray ones.
LEMMA UnregisterKeeps ==
  ASSUME LoggingInv, NEW id, UnregisterLogger(id)
  PROVE  LoggingInv' /\ \A f \in File : RollsRight(f)
<1>1. /\ id \in DOMAIN loggers /\ id # "default"
      /\ loggers' = [i \in DOMAIN loggers \ {id} |-> loggers[i]]
      /\ UNCHANGED <<running, defaults, files, flags, diskFull>>
      /\ limits' = Limits(loggers', files)
      /\ stray' = [f \in File |-> stray[f] + Cardinality(Counted(Some({id}), f))]
  BY DEF UnregisterLogger
<1>2. /\ DOMAIN loggers' = DOMAIN loggers \ {id}
      /\ \A i \in DOMAIN loggers' : i \in DOMAIN loggers /\ loggers'[i] = loggers[i]
  BY <1>1
<1>3. IsRegistry(loggers) /\ IsRegistry(loggers') /\ IsRegistry(Some({id}))
  <2>1. IsRegistry(loggers)
    BY Typed
  <2>2. IsRegistry(loggers')
    BY <1>1, <1>2, <2>1 DEF IsRegistry
  <2>3. IsRegistry(Some({id}))
    BY <2>1, SomeWriters
  <2> QED
    BY <2>1, <2>2, <2>3
<1>4. ASSUME NEW f, NEW w
      PROVE  /\ w \in Writers(loggers', f) <=> w \in Writers(loggers, f) /\ w[1] # id
             /\ w \in Writers(loggers', f) => loggers'[w[1]] = loggers[w[1]]
  <2>1. w \in (DOMAIN loggers') \X Level <=> w \in (DOMAIN loggers) \X Level /\ w[1] # id
    BY <1>2
  <2>2. w \in (DOMAIN loggers') \X Level => loggers'[w[1]] = loggers[w[1]]
    BY <1>2
  <2> QED
    BY <2>1, <2>2, WriterIs
<1>5. ASSUME NEW f \in File
      PROVE  /\ LimitsOf(loggers', f) \subseteq LimitsOf(loggers, f)
             /\ LimitsOf(loggers', f) # {} <=> Writers(loggers', f) # {}
             /\ Writers(loggers', f) # {} => Writers(loggers, f) # {}
  BY <1>4 DEF LimitsOf
<1>6. ASSUME NEW f \in File
      PROVE  Cardinality(Counted(loggers, f)) =
               Cardinality(Counted(Some({id}), f)) + Cardinality(Counted(loggers', f))
  <2> DEFINE S == Counted(Some({id}), f)
             T == Counted(loggers', f)
  <2>1. IsFiniteSet(S) /\ IsFiniteSet(T)
        /\ Cardinality(S) \in Nat /\ Cardinality(T) \in Nat
    BY <1>3, CountedFinite
  <2>2. ASSUME NEW w
        PROVE  /\ w \in Writers(Some({id}), f) <=> w \in Writers(loggers, f) /\ w[1] = id
               /\ w \in Writers(Some({id}), f) => Some({id})[w[1]] = loggers[w[1]]
    <3>1. /\ Writers(Some({id}), f) = {v \in Writers(loggers, f) : v[1] \in {id}}
          /\ \A v \in Writers(Some({id}), f) : Some({id})[v[1]] = loggers[v[1]]
      BY SomeWriters
    <3> QED
      BY <3>1
  <2>3. \A x : x \in S <=> \E w \in Writers(loggers, f) :
                            /\ w[1] = id
                            /\ \E i \in 1 .. loggers[w[1]].unflushed[w[2]] : x = <<w, i>>
    <3>1. ASSUME NEW x
          PROVE  x \in S <=> \E w \in Writers(Some({id}), f) :
                               \E i \in 1 .. Some({id})[w[1]].unflushed[w[2]] : x = <<w, i>>
      <4> DEFINE ms == Some({id})
      <4> HIDE DEF ms
      <4>1. x \in Counted(ms, f) <=> \E w \in Writers(ms, f) :
                                      \E i \in 1 .. ms[w[1]].unflushed[w[2]] : x = <<w, i>>
        BY CountedIs
      <4> QED
        BY <4>1 DEF ms
    <3>2. \A w : /\ w \in Writers(Some({id}), f) <=> w \in Writers(loggers, f) /\ w[1] = id
                 /\ w \in Writers(Some({id}), f) => Some({id})[w[1]] = loggers[w[1]]
      BY <2>2
    <3> HIDE DEF S
    <3> QED
      BY <3>1, <3>2
  <2>4. \A x : x \in T <=> \E w \in Writers(loggers, f) :
                            /\ w[1] # id
                            /\ \E i \in 1 .. loggers[w[1]].unflushed[w[2]] : x = <<w, i>>
    <3>1. ASSUME NEW x
          PROVE  x \in T <=> \E w \in Writers(loggers', f) :
                               \E i \in 1 .. loggers'[w[1]].unflushed[w[2]] : x = <<w, i>>
      BY CountedIs
    <3>2. \A w : /\ w \in Writers(loggers', f) <=> w \in Writers(loggers, f) /\ w[1] # id
                 /\ w \in Writers(loggers', f) => loggers'[w[1]] = loggers[w[1]]
      BY <1>4
    <3> HIDE DEF T
    <3> QED
      BY <3>1, <3>2
  <2>5. \A x : x \in Counted(loggers, f) <=>
                \E w \in Writers(loggers, f) :
                  \E i \in 1 .. loggers[w[1]].unflushed[w[2]] : x = <<w, i>>
    BY CountedIs
  <2> HIDE DEF S, T
  <2>6. Counted(loggers, f) = S \cup T
    BY <2>3, <2>4, <2>5
  <2>7. \A x : x \in S => x[1][1] = id
    BY <2>3
  <2>8. \A x : x \in T => x[1][1] # id
    BY <2>4
  <2>9. S \cap T = {}
    BY <2>7, <2>8
  <2>10. Cardinality(S \cup T) = Cardinality(S) + Cardinality(T) - Cardinality(S \cap T)
    BY <2>1, FS_Union
  <2>11. Cardinality(S \cap T) = 0
    BY <2>9, FS_EmptySet
  <2> QED
    BY <2>1, <2>6, <2>10, <2>11 DEF S, T
<1>7. ASSUME NEW f \in File
      PROVE  /\ Cardinality(Counted(loggers, f)) \in Nat
             /\ Cardinality(Counted(Some({id}), f)) \in Nat
             /\ Cardinality(Counted(loggers', f)) \in Nat
  BY <1>3, CountedFinite
<1>8. \A f \in File : limits'[f] = IF Size(files[f]) = 0 THEN LimitsOf(loggers', f)
                                   ELSE limits[f] \cup LimitsOf(loggers', f)
  BY <1>1 DEF Limits, Size
<1>9. ASSUME NEW f \in File
      PROVE  LimitsOf(loggers', f) \in SUBSET Nat
  BY <1>3, LimitsAreNat
<1>10. limits' \in [File -> SUBSET Nat] /\ stray' \in [File -> Nat]
  <2>1. limits \in [File -> SUBSET Nat] /\ stray \in [File -> Nat]
    BY Typed
  <2>2. \A f \in File : limits'[f] \in SUBSET Nat
    BY <1>8, <1>9, <2>1
  <2>3. limits' = [f \in File |-> limits'[f]]
    BY <1>1 DEF Limits
  <2>4. ASSUME NEW f \in File
        PROVE  stray[f] + Cardinality(Counted(Some({id}), f)) \in Nat
    <3>1. stray[f] \in Nat /\ Cardinality(Counted(Some({id}), f)) \in Nat
      BY <1>7, <2>1
    <3> QED
      BY <3>1
  <2>5. stray' \in [File -> Nat]
    BY <1>1, <2>4
  <2>6. limits' \in [File -> SUBSET Nat]
    BY <2>2, <2>3
  <2> QED
    BY <2>5, <2>6
<1>11. running /\ running'
  BY <1>1, Typed DEF LoggingInv, Stopped
<1>12. "default" \in DOMAIN loggers'
  BY <1>1, <1>2, <1>11, Typed
<1>13. \A i \in DOMAIN loggers', l \in AllLevels : files[Use(loggers'[i], l).file].known
  BY <1>2 DEF LoggingInv, TypeOK
<1>14. TypeOK'
  <2>1. /\ IsRegistry(loggers') /\ files' = files
        /\ \A i \in DOMAIN loggers', l \in AllLevels : files'[Use(loggers'[i], l).file].known
        /\ running' <=> "default" \in DOMAIN loggers'
        /\ running' = running /\ defaults' = defaults /\ flags' = flags
        /\ diskFull' = diskFull
    BY <1>1, <1>3, <1>11, <1>12, <1>13
  <2> QED
    BY <1>10, <2>1 DEF LoggingInv, TypeOK, IsRegistry, LoggerState
<1>15. BelowThreshold'
  BY <1>2 DEF LoggingInv, BelowThreshold
<1>16. LimitsKnown'
  BY <1>8 DEF LimitsKnown
<1>17. ClosedEmpty' /\ Stopped' /\ HasDefaults'
  BY <1>1, <1>11 DEF LoggingInv, ClosedEmpty, Stopped, HasDefaults
<1>18. ASSUME NEW f \in File
       PROVE  Safe(files'[f], limits'[f],
                   stray'[f] + Cardinality(Counted(loggers', f)),
                   Writers(loggers', f) # {})
  <2> DEFINE C == Cardinality(Counted(loggers, f))
             A == Cardinality(Counted(Some({id}), f))
             B == Cardinality(Counted(loggers', f))
             s == stray[f]
             file == files[f]
  <2>1. /\ s \in Nat /\ C \in Nat /\ A \in Nat /\ B \in Nat /\ C = A + B
        /\ stray'[f] = s + A /\ files'[f] = file /\ stray'[f] \in Nat
    BY <1>1, <1>6, <1>7, <1>10, Typed
  <2>2. Safe(file, limits[f], s + C, Writers(loggers, f) # {})
    BY DEF LoggingInv, FilesSafe, Uncounted
  <2> HIDE DEF C, A, B, s, file
  <2>3. stray'[f] + B = s + C
    BY <2>1
  <2>4. ASSUME ~file.failed, Writers(loggers', f) # {}, 0 \notin limits'[f]
        PROVE  \E m \in limits'[f] : file.disk + file.held < m + (s + C)
    <3>1. CASE Size(file) = 0
      <4>1. PICK m \in LimitsOf(loggers', f) : m \in limits'[f]
        BY <1>5, <1>8, <2>4, <3>1 DEF file
      <4>2. m \in Nat /\ m # 0
        BY <1>9, <2>4, <4>1
      <4>3. file.disk + file.held < m + (s + C)
        BY <2>1, <3>1, <4>2 DEF Size
      <4> QED
        BY <4>1, <4>3
    <3>2. CASE Size(file) # 0
      <4>1. limits'[f] = limits[f]
        BY <1>5, <1>8, <3>2 DEF file, LoggingInv, LimitsKnown
      <4>2. Writers(loggers, f) # {}
        BY <1>5, <2>4
      <4> QED
        BY <2>2, <2>4, <4>1, <4>2 DEF Safe
    <3> QED
      BY <3>1, <3>2
  <2>5. Safe(file, limits'[f], s + C, Writers(loggers', f) # {})
    BY <2>2, <2>4 DEF Safe
  <2> QED
    BY <2>1, <2>3, <2>5 DEF B
<1>19. FilesSafe'
  BY <1>18 DEF FilesSafe, Uncounted
<1>20. ASSUME NEW f \in File
       PROVE  RollsRight(f)
  <2>1. files[f] \in LogFile /\ files'[f] = files[f]
    BY <1>1, Typed
  <2>2. files[f].disk \in Nat
    BY <2>1, FileFields
  <2> QED
    BY <2>1, <2>2 DEF RollsRight
<1> QED
  BY <1>14, <1>15, <1>16, <1>17, <1>19, <1>20 DEF LoggingInv

\* The end of the process leaves what is on the disk.
LEMMA DownKeeps ==
  ASSUME LoggingInv, NEW fs \in [File -> LogFile], Down(fs),
         \A f \in File : /\ EmptyIfShut(fs[f], f)
                         /\ f \in Device => fs[f].disk = 0
  PROVE  LoggingInv' /\ \A f \in File : files'[f].disk = fs[f].disk
<1>1. /\ running' = FALSE /\ loggers' = << >> /\ defaults' = "none"
      /\ files' = [f \in File |-> Closed(fs[f])] /\ flags' = {}
      /\ limits' = [f \in File |-> IF fs[f].disk = 0 THEN {} ELSE limits[f]]
      /\ stray' = [f \in File |-> 0] /\ diskFull' = diskFull
  BY DEF Down
<1>2. DOMAIN loggers' = {} /\ IsRegistry(loggers')
  BY <1>1 DEF IsRegistry
<1>3. \A f \in File : fs[f] \in LogFile /\ fs[f].disk \in Nat
  <2>1. \A f \in File : fs[f] \in LogFile
    OBVIOUS
  <2> QED
    BY <2>1, FileFields
<1>4. \A f \in File : files'[f] = [known |-> FALSE, held |-> 0, failed |-> FALSE,
                                   disk |-> fs[f].disk]
  <2>1. \A f \in File : files'[f] = Closed(fs[f])
    BY <1>1
  <2> QED
    BY <2>1 DEF Closed, NewFile
<1>5. ASSUME NEW f \in File
      PROVE  /\ files'[f] \in LogFile /\ ~files'[f].known /\ files'[f].held = 0
             /\ ~files'[f].failed /\ files'[f].disk = fs[f].disk
  <2>1. 0 \in 0 .. BufferSize /\ fs[f].disk \in Nat
    BY <1>3, BufferAssumption
  <2>2. [known |-> FALSE, held |-> 0, failed |-> FALSE, disk |-> fs[f].disk] \in LogFile
    BY <2>1 DEF LogFile
  <2> QED
    BY <1>4, <2>2
<1>6. files' \in [File -> LogFile]
  <2>1. files' = [f \in File |-> files'[f]]
    BY <1>1
  <2> QED
    BY <1>5, <2>1
<1>7. limits' \in [File -> SUBSET Nat] /\ stray' \in [File -> Nat]
  BY <1>1, Typed
<1>8. TypeOK'
  <2>1. diskFull' \in BOOLEAN /\ "default" \notin DOMAIN loggers'
    BY <1>1, <1>2, Typed
  <2> QED
    BY <1>1, <1>2, <1>5, <1>6, <1>7, <2>1 DEF TypeOK, IsRegistry, LoggerState
<1>9. ASSUME NEW f \in File
      PROVE  Writers(loggers', f) = {} /\ LimitsOf(loggers', f) = {}
  BY <1>2 DEF Writers, LimitsOf
<1>10. BelowThreshold' /\ LimitsKnown'
  BY <1>2, <1>9 DEF BelowThreshold, LimitsKnown
<1>11. ClosedEmpty'
  BY <1>5, FileAssumption DEF ClosedEmpty, EmptyIfShut
<1>12. Stopped' /\ HasDefaults'
  BY <1>1, <1>2, <1>5 DEF Stopped, HasDefaults
<1>13. FilesSafe'
  <2>1. ASSUME NEW f \in File
        PROVE  Safe(files'[f], limits'[f],
                    stray'[f] + Cardinality(Counted(loggers', f)),
                    Writers(loggers', f) # {})
    <3>1. Cardinality(Counted(loggers', f)) \in Nat
      BY <1>2, CountedFinite
    <3>2. files'[f].held <= stray'[f] + Cardinality(Counted(loggers', f))
      BY <1>1, <1>5, <3>1
    <3> QED
      BY <1>9, <3>2 DEF Safe
  <2> QED
    BY <2>1 DEF FilesSafe, Uncounted
<1> QED
  BY <1>5, <1>8, <1>10, <1>11, <1>12, <1>13 DEF LoggingInv

LEMMA LineFilesAt ==
  ASSUME LoggingInv, NEW fs \in [File -> LogFile], NEW id \in DOMAIN loggers,
         NEW level \in Level,
         \A f \in File : /\ EmptyIfShut(fs[f], f)
                         /\ f \in Device => fs[f].disk = 0
  PROVE  LET all == LineFiles(fs, id, level)
         IN  /\ all \in [File -> LogFile]
             /\ \A f \in File :
                  /\ EmptyIfShut(all[f], f)
                  /\ f \in Device => all[f].disk = 0
                  /\ Size(all[f]) <= Size(fs[f]) + 1
                  /\ all[f].failed => fs[f].failed \/ diskFull
                  /\ all[f].disk < fs[f].disk =>
                       \E i \in DOMAIN loggers, l \in AllLevels :
                         /\ Use(loggers[i], l).file = f /\ Use(loggers[i], l).limit # 0
                         /\ \/ fs[f].failed \/ diskFull
                            \/ Size(fs[f]) + 1 >= Use(loggers[i], l).limit
<1> DEFINE logger == loggers[id]
           u == Use(logger, level)
           g == u.file
           all == LineFiles(fs, id, level)
           out == all[g]
<1>1. /\ logger \in LoggerState /\ g \in File /\ level \in AllLevels
      /\ diskFull \in BOOLEAN
  <2>1. logger \in LoggerState /\ level \in AllLevels
    BY Typed, Levels DEF IsRegistry
  <2> QED
    BY <2>1, Typed, UseTypes
<1>2. \A f \in File : fs[f].disk \in Nat /\ Size(fs[f]) \in Nat
  <2>1. \A f \in File : fs[f] \in LogFile
    OBVIOUS
  <2> QED
    BY <2>1, FileFields
<1>3. CASE ~Enabled(id, level)
  <2>1. all = fs
    BY <1>3 DEF LineFiles
  <2> HIDE DEF all
  <2> QED
    BY <1>2, <2>1 DEF all
<1>4. CASE Enabled(id, level)
  <2>1. all = DispatchedFiles(Line(fs, logger, level), logger, level)
    BY <1>4 DEF LineFiles
  <2>2. /\ all \in [File -> LogFile]
        /\ \A f \in File \ {g} : all[f] = fs[f]
        /\ ~HasStream(fs, g) => out = fs[g]
        /\ g \in Device => out.disk <= fs[g].disk
        /\ out.failed => fs[g].failed \/ diskFull
        /\ Size(out) <= Size(fs[g]) + 1
        /\ out.disk < fs[g].disk =>
             /\ u.limit # 0
             /\ fs[g].failed \/ diskFull \/ Size(fs[g]) + 1 >= u.limit
    BY <1>1, <2>1, LineAt
  <2>3. out.disk \in Nat
    BY <1>1, <2>2, FileFields
  <2>4. EmptyIfShut(out, g)
    <3>1. g \in Unopenable => out = fs[g]
      BY <2>2 DEF HasStream, IsOpen
    <3> QED
      BY <1>1, <3>1 DEF EmptyIfShut
  <2>5. g \in Device => out.disk = 0
    BY <1>1, <1>2, <2>2, <2>3
  <2>6. out.disk < fs[g].disk =>
          \E i \in DOMAIN loggers, l \in AllLevels :
            /\ Use(loggers[i], l).file = g /\ Use(loggers[i], l).limit # 0
            /\ \/ fs[g].failed \/ diskFull
               \/ Size(fs[g]) + 1 >= Use(loggers[i], l).limit
    BY <1>1, <2>2
  <2>7. ASSUME NEW f \in File
        PROVE  /\ EmptyIfShut(all[f], f)
               /\ f \in Device => all[f].disk = 0
               /\ Size(all[f]) <= Size(fs[f]) + 1
               /\ all[f].failed => fs[f].failed \/ diskFull
               /\ all[f].disk < fs[f].disk =>
                    \E i \in DOMAIN loggers, l \in AllLevels :
                      /\ Use(loggers[i], l).file = f /\ Use(loggers[i], l).limit # 0
                      /\ \/ fs[f].failed \/ diskFull
                         \/ Size(fs[f]) + 1 >= Use(loggers[i], l).limit
    <3> HIDE DEF all, u, g
    <3>1. CASE f = g
      BY <2>2, <2>4, <2>5, <2>6, <3>1
    <3>2. CASE f # g
      <4>1. all[f] = fs[f]
        BY <2>2, <3>2
      <4> QED
        BY <1>2, <4>1
    <3> QED
      BY <3>1, <3>2
  <2> HIDE DEF all
  <2> QED
    BY <2>2, <2>7 DEF all
<1> QED
  BY <1>3, <1>4

LEMMA NamedLevels == "Debug" \in Level /\ "Fatal" \in Level /\ "Warning" \in Level
BY LevelAssumption DEF Level

LEMMA LogFatalKeeps ==
  ASSUME LoggingInv, NEW id, LogFatal(id)
  PROVE  LoggingInv' /\ \A f \in File : RollsRight(f)
<1> DEFINE mid == LineFiles(files, id, "Fatal")
           out == LineFiles(mid, "default", "Warning")
<1>1. id \in DOMAIN loggers /\ Down(out)
  BY DEF LogFatal
<1>2. "default" \in DOMAIN loggers
  BY <1>1, Typed DEF LoggingInv, Stopped
<1>3. files \in [File -> LogFile]
      /\ \A f \in File : EmptyIfShut(files[f], f) /\ (f \in Device => files[f].disk = 0)
  BY Typed DEF LoggingInv, TypeOK, ClosedEmpty, EmptyIfShut
<1>4. /\ mid \in [File -> LogFile]
      /\ \A f \in File :
           /\ EmptyIfShut(mid[f], f)
           /\ f \in Device => mid[f].disk = 0
           /\ Size(mid[f]) <= Size(files[f]) + 1
           /\ mid[f].failed => files[f].failed \/ diskFull
           /\ mid[f].disk < files[f].disk =>
                \E i \in DOMAIN loggers, l \in AllLevels :
                  /\ Use(loggers[i], l).file = f /\ Use(loggers[i], l).limit # 0
                  /\ \/ files[f].failed \/ diskFull
                     \/ Size(files[f]) + 1 >= Use(loggers[i], l).limit
  BY <1>1, <1>3, NamedLevels, LineFilesAt
<1> HIDE DEF mid
<1>5. /\ out \in [File -> LogFile]
      /\ \A f \in File :
           /\ EmptyIfShut(out[f], f)
           /\ f \in Device => out[f].disk = 0
           /\ out[f].disk < mid[f].disk =>
                \E i \in DOMAIN loggers, l \in AllLevels :
                  /\ Use(loggers[i], l).file = f /\ Use(loggers[i], l).limit # 0
                  /\ \/ mid[f].failed \/ diskFull
                     \/ Size(mid[f]) + 1 >= Use(loggers[i], l).limit
  BY <1>2, <1>4, NamedLevels, LineFilesAt
<1> HIDE DEF out
<1>6. LoggingInv' /\ \A f \in File : files'[f].disk = out[f].disk
  BY <1>1, <1>5, DownKeeps
<1>7. ASSUME NEW f \in File, out[f].disk < files[f].disk
      PROVE  \E i \in DOMAIN loggers, l \in AllLevels :
               /\ Use(loggers[i], l).file = f /\ Use(loggers[i], l).limit # 0
               /\ \/ files[f].failed \/ diskFull
                  \/ Size(files[f]) + 2 >= Use(loggers[i], l).limit
  <2>1. files[f] \in LogFile /\ mid[f] \in LogFile /\ out[f] \in LogFile
    BY <1>3, <1>4, <1>5
  <2>2. /\ Size(files[f]) \in Nat /\ Size(mid[f]) \in Nat
        /\ files[f].disk \in Nat /\ mid[f].disk \in Nat /\ out[f].disk \in Nat
    BY <2>1, FileFields
  <2>3. \A i \in DOMAIN loggers, l \in AllLevels : Use(loggers[i], l).limit \in Nat
    <3>1. \A i \in DOMAIN loggers : loggers[i] \in LoggerState
      BY Typed DEF IsRegistry
    <3> QED
      BY <3>1, UseTypes
  <2>4. CASE mid[f].disk < files[f].disk
    <3>1. PICK i \in DOMAIN loggers, l \in AllLevels :
            /\ Use(loggers[i], l).file = f /\ Use(loggers[i], l).limit # 0
            /\ \/ files[f].failed \/ diskFull
               \/ Size(files[f]) + 1 >= Use(loggers[i], l).limit
      BY <1>4, <2>4
    <3>2. \/ files[f].failed \/ diskFull
          \/ Size(files[f]) + 2 >= Use(loggers[i], l).limit
      BY <2>2, <2>3, <3>1
    <3> QED
      BY <3>1, <3>2
  <2>5. CASE ~(mid[f].disk < files[f].disk)
    <3>1. out[f].disk < mid[f].disk
      BY <1>7, <2>2, <2>5
    <3>2. PICK i \in DOMAIN loggers, l \in AllLevels :
            /\ Use(loggers[i], l).file = f /\ Use(loggers[i], l).limit # 0
            /\ \/ mid[f].failed \/ diskFull
               \/ Size(mid[f]) + 1 >= Use(loggers[i], l).limit
      BY <1>5, <3>1
    <3>3. /\ Size(mid[f]) <= Size(files[f]) + 1
          /\ mid[f].failed => files[f].failed \/ diskFull
      BY <1>4
    <3>4. \/ files[f].failed \/ diskFull
          \/ Size(files[f]) + 2 >= Use(loggers[i], l).limit
      BY <2>2, <2>3, <3>2, <3>3
    <3> QED
      BY <3>2, <3>4
  <2> QED
    BY <2>4, <2>5
<1>8. LinesOfStep = 2
  BY <1>1, StepWritesLines DEF Down
<1>9. ASSUME NEW f \in File
      PROVE  RollsRight(f)
  BY <1>6, <1>7, <1>8 DEF RollsRight, Size
<1> QED
  BY <1>6, <1>9

-----------------------------------------------------------------------------
(***************************************************************************)
(* The steps.                                                              *)
(***************************************************************************)

LEMMA OnlyFlags ==
  ASSUME LoggingInv, UNCHANGED <<running, loggers, defaults, files, limits, stray>>,
         flags' \subseteq Flag, diskFull' \in BOOLEAN
  PROVE  LoggingInv' /\ \A f \in File : RollsRight(f)
<1>1. LoggingInv'
  BY DEF LoggingInv, TypeOK, BelowThreshold, LimitsKnown, ClosedEmpty, Stopped,
         HasDefaults, FilesSafe, Safe, Uncounted
<1>2. \A f \in File : files[f].disk \in Nat
  BY Typed, FileFields
<1> QED
  BY <1>1, <1>2 DEF RollsRight

LEMMA InitHolds ==
  ASSUME Init
  PROVE  LoggingInv
<1>1. /\ running = FALSE /\ loggers = << >> /\ defaults = "none" /\ flags = {}
      /\ diskFull = FALSE /\ limits = [f \in File |-> {}] /\ stray = [f \in File |-> 0]
      /\ files \in [File -> {NewFile(size) : size \in 0 .. MaxLines}]
      /\ \A f \in Device \cup Unopenable : files[f].disk = 0
  BY DEF Init
<1>2. DOMAIN loggers = {} /\ IsRegistry(loggers)
  BY <1>1 DEF IsRegistry
<1>3. ASSUME NEW f \in File
      PROVE  /\ files[f] \in LogFile /\ ~files[f].known /\ files[f].held = 0
             /\ ~files[f].failed
  <2>1. PICK size \in 0 .. MaxLines : files[f] = NewFile(size)
    BY <1>1
  <2>2. size \in Nat /\ 0 \in 0 .. BufferSize
    BY BufferAssumption
  <2> QED
    BY <2>1, <2>2 DEF NewFile, LogFile
<1>4. files \in [File -> LogFile]
  BY <1>1, <1>3
<1>5. TypeOK
  <2>1. limits \in [File -> SUBSET Nat] /\ stray \in [File -> Nat]
    BY <1>1
  <2> QED
    BY <1>1, <1>2, <1>3, <1>4, <2>1 DEF TypeOK, IsRegistry, LoggerState
<1>6. ASSUME NEW f \in File
      PROVE  Writers(loggers, f) = {} /\ LimitsOf(loggers, f) = {}
  BY <1>2 DEF Writers, LimitsOf
<1>7. BelowThreshold /\ LimitsKnown
  BY <1>2, <1>6 DEF BelowThreshold, LimitsKnown
<1>8. ClosedEmpty
  BY <1>1, <1>3, FileAssumption DEF ClosedEmpty
<1>9. Stopped /\ HasDefaults
  BY <1>1, <1>2, <1>3 DEF Stopped, HasDefaults
<1>10. FilesSafe
  <2>1. ASSUME NEW f \in File
        PROVE  Safe(files[f], limits[f], stray[f] + Cardinality(Counted(loggers, f)),
                    Writers(loggers, f) # {})
    <3>1. Cardinality(Counted(loggers, f)) \in Nat
      BY <1>2, CountedFinite
    <3>2. files[f].held <= stray[f] + Cardinality(Counted(loggers, f))
      BY <1>1, <1>3, <3>1
    <3> QED
      BY <1>6, <3>2 DEF Safe
  <2> QED
    BY <2>1 DEF FilesSafe, Uncounted
<1> QED
  BY <1>5, <1>7, <1>8, <1>9, <1>10 DEF LoggingInv

LEMMA StepKeeps ==
  ASSUME LoggingInv, [Next]_vars
  PROVE  LoggingInv' /\ \A f \in File : RollsRight(f)
<1>1. /\ flags \subseteq Flag /\ diskFull \in BOOLEAN /\ DOMAIN loggers \in SUBSET Logger
      /\ running \in BOOLEAN /\ defaults \in Configured \cup {"none"}
      /\ running => "default" \in DOMAIN loggers /\ defaults \in Configured
      /\ \A id \in DOMAIN loggers : running
  BY Typed DEF LoggingInv, TypeOK, HasDefaults, Stopped
<1>2. "default" \in Configured /\ "program" \in Configured
      /\ {"default", "performance"} \in SUBSET Logger
  BY UsesAssumption, LoggerAssumption
<1>3. /\ "AllowVerboseIfModuleNotSpecified" \in Flag /\ UserFlag \subseteq Flag
      /\ {"LogDetailedCrashReason", "ColoredTerminalOutput"} \subseteq Flag
  BY DEF Flag
<1>4. CASE Start
  <2>1. /\ Configure({"default", "performance"}, "default")
        /\ running' = TRUE /\ defaults' = "default" /\ diskFull' = diskFull
        /\ flags' = {"AllowVerboseIfModuleNotSpecified"}
    BY <1>4 DEF Start
  <2> QED
    BY <1>1, <1>2, <1>3, <2>1, ConfigureKeeps
<1>5. CASE SetupLogger
  <2>1. /\ running /\ Configure(DOMAIN loggers, "program")
        /\ running' = running /\ defaults' = defaults /\ diskFull' = diskFull
        /\ flags' = flags \cup {"LogDetailedCrashReason", "ColoredTerminalOutput"}
    BY <1>5 DEF SetupLogger, ConfigureAll
  <2>2. flags' \subseteq Flag /\ DOMAIN loggers # {}
    BY <1>1, <1>3, <2>1
  <2> QED
    BY <1>1, <1>2, <2>1, <2>2, ConfigureKeeps
<1>6. ASSUME NEW id \in Logger, NEW c \in Configured, ReconfigureLogger(id, c)
      PROVE  LoggingInv' /\ \A f \in File : RollsRight(f)
  <2>1. /\ id \in DOMAIN loggers /\ Configure({id}, c)
        /\ running' = running /\ defaults' = defaults /\ diskFull' = diskFull
        /\ flags' = flags
    BY <1>6 DEF ReconfigureLogger
  <2> QED
    BY <1>1, <2>1, ConfigureKeeps
<1>7. ASSUME NEW c \in Configured, NEW all \in BOOLEAN, SetDefaultConfigurations(c, all)
      PROVE  LoggingInv' /\ \A f \in File : RollsRight(f)
  <2>1. /\ running /\ defaults' = c
        /\ running' = running /\ diskFull' = diskFull /\ flags' = flags
    BY <1>7 DEF SetDefaultConfigurations
  <2>2. CASE all
    <3>1. Configure(DOMAIN loggers, c)
      BY <1>7, <2>2 DEF SetDefaultConfigurations, ConfigureAll
    <3>2. DOMAIN loggers # {}
      BY <1>1, <2>1
    <3> QED
      BY <1>1, <2>1, <3>1, <3>2, ConfigureKeeps
  <2>3. CASE ~all
    <3>1. loggers' = loggers /\ files' = files /\ limits' = limits /\ stray' = stray
      BY <1>7, <2>3 DEF SetDefaultConfigurations
    <3>2. TypeOK' /\ BelowThreshold' /\ LimitsKnown' /\ ClosedEmpty' /\ Stopped'
          /\ HasDefaults' /\ FilesSafe'
      BY <1>1, <2>1, <3>1
         DEF LoggingInv, TypeOK, BelowThreshold, LimitsKnown, ClosedEmpty, Stopped,
             HasDefaults, FilesSafe, Safe, Uncounted
    <3>3. \A f \in File : files[f].disk \in Nat
      BY Typed, FileFields
    <3> QED
      BY <3>1, <3>2, <3>3 DEF LoggingInv, RollsRight
  <2> QED
    BY <2>2, <2>3
<1>8. ASSUME NEW id \in Logger, UnregisterLogger(id)
      PROVE  LoggingInv' /\ \A f \in File : RollsRight(f)
  BY <1>8, UnregisterKeeps
<1>9. ASSUME NEW flag \in UserFlag, AddFlag(flag) \/ RemoveFlag(flag)
      PROVE  LoggingInv' /\ \A f \in File : RollsRight(f)
  <2>1. /\ UNCHANGED <<running, loggers, defaults, files, limits, stray>>
        /\ diskFull' = diskFull /\ flags' \subseteq Flag
    BY <1>1, <1>3, <1>9 DEF AddFlag, RemoveFlag
  <2> QED
    BY <1>1, <2>1, OnlyFlags
<1>10. ASSUME NEW id \in Logger, GetLogger(id)
       PROVE  LoggingInv' /\ \A f \in File : RollsRight(f)
  <2>1. /\ running /\ Configure({id}, defaults)
        /\ running' = running /\ defaults' = defaults /\ diskFull' = diskFull
        /\ flags' = flags
    BY <1>10 DEF GetLogger
  <2> QED
    BY <1>1, <2>1, ConfigureKeeps
<1>11. ASSUME NEW id \in Logger, NEW level \in Level, Log(id, level)
       PROVE  LoggingInv' /\ \A f \in File : RollsRight(f)
  BY <1>1, <1>11, WriteKeeps DEF Log
<1>12. ASSUME NEW id \in Logger, LogUnregistered(id)
       PROVE  LoggingInv' /\ \A f \in File : RollsRight(f)
  BY <1>1, <1>12, NamedLevels, WriteKeeps DEF LogUnregistered
<1>13. ASSUME NEW id \in Logger, LogFatal(id)
       PROVE  LoggingInv' /\ \A f \in File : RollsRight(f)
  BY <1>13, LogFatalKeeps
<1>14. ASSUME NEW id \in Logger, Flush(id)
       PROVE  LoggingInv' /\ \A f \in File : RollsRight(f)
  <2>1. id \in DOMAIN loggers
    BY <1>14 DEF Flush
  <2> QED
    BY <1>1, <1>14, <2>1, FlushKeeps
<1>15. CASE FlushAll
  BY <1>15, FlushAllKeeps
<1>16. CASE DiskChange
  <2>1. /\ UNCHANGED <<running, loggers, defaults, files, limits, stray>>
        /\ diskFull' \in BOOLEAN /\ flags' \subseteq Flag
    BY <1>1, <1>16 DEF DiskChange
  <2> QED
    BY <2>1, OnlyFlags
<1>17. CASE Killed
  <2>1. files \in [File -> LogFile] /\ Down(files)
        /\ \A f \in File : EmptyIfShut(files[f], f) /\ (f \in Device => files[f].disk = 0)
    BY <1>17, Typed DEF Killed, LoggingInv, TypeOK, ClosedEmpty, EmptyIfShut
  <2>2. LoggingInv' /\ \A f \in File : files'[f].disk = files[f].disk
    BY <2>1, DownKeeps
  <2>3. \A f \in File : files[f].disk \in Nat
    BY Typed, FileFields
  <2> QED
    BY <2>2, <2>3 DEF RollsRight
<1>18. CASE Exit
  <2>1. Down(AllFlushed) /\ AllFlushed = [f \in File |-> Flushed(files[f], f)]
    BY <1>18 DEF Exit, AllFlushed
  <2>2. ASSUME NEW f \in File
        PROVE  /\ AllFlushed[f] \in LogFile /\ EmptyIfShut(AllFlushed[f], f)
               /\ f \in Device => AllFlushed[f].disk = 0
               /\ ~(AllFlushed[f].disk < files[f].disk)
    <3> DEFINE g == Flushed(files[f], f)
    <3>1. AllFlushed[f] = g
      BY <2>1
    <3>2. files[f] \in LogFile
      BY Typed
    <3>3. /\ g \in LogFile
          /\ \/ g = files[f]
             \/ g.disk = files[f].disk
             \/ f \notin Device /\ g.disk = files[f].disk + files[f].held
      BY <1>1, <3>2, FileFlushedFields
    <3>4. files[f].disk \in Nat /\ files[f].held \in Nat
      BY <3>2, FileFields
    <3>5. f \in Device => files[f].disk = 0
      BY DEF LoggingInv, TypeOK
    <3>6. EmptyIfShut(g, f)
      <4>1. f \in Unopenable => g = files[f]
        BY DEF LoggingInv, ClosedEmpty, Flushed
      <4> QED
        BY <4>1 DEF EmptyIfShut, LoggingInv, ClosedEmpty
    <3> HIDE DEF g
    <3> QED
      BY <3>1, <3>3, <3>4, <3>5, <3>6
  <2>3. AllFlushed \in [File -> LogFile]
    BY <2>1, <2>2
  <2>4. LoggingInv' /\ \A f \in File : files'[f].disk = AllFlushed[f].disk
    <3> DEFINE fs == AllFlushed
    <3>1. fs \in [File -> LogFile] /\ Down(fs)
          /\ \A f \in File : EmptyIfShut(fs[f], f) /\ (f \in Device => fs[f].disk = 0)
      BY <2>1, <2>2, <2>3
    <3> HIDE DEF fs
    <3>2. LoggingInv' /\ \A f \in File : files'[f].disk = fs[f].disk
      BY <3>1, DownKeeps
    <3> QED
      BY <3>2 DEF fs
  <2> QED
    BY <2>2, <2>4 DEF RollsRight
<1>19. CASE UNCHANGED vars
  <2>1. /\ UNCHANGED <<running, loggers, defaults, files, limits, stray>>
        /\ diskFull' \in BOOLEAN /\ flags' \subseteq Flag
    BY <1>1, <1>19 DEF vars
  <2> QED
    BY <2>1, OnlyFlags
<1> QED
  BY <1>4, <1>5, <1>6, <1>7, <1>8, <1>9, <1>10, <1>11, <1>12, <1>13, <1>14, <1>15,
     <1>16, <1>17, <1>18, <1>19 DEF Next, Process, Configuring, Running

-----------------------------------------------------------------------------
(***************************************************************************)
(* The theorems.                                                           *)
(***************************************************************************)

\* The invariant holds in every state of every behaviour.
THEOREM LoggingInvariance == Spec => []LoggingInv
<1>1. LoggingInv /\ [Next]_vars => LoggingInv'
  BY StepKeeps
<1> QED
  BY InitHolds, <1>1, PTL DEF Spec

\* Loggers, streams and files have their types; no logger names a file that has
\* no entry in the stream table, and /dev/null keeps nothing.
THEOREM LoggingTypes == Spec => []TypeOK
<1>1. LoggingInv => TypeOK
  BY DEF LoggingInv
<1> QED
  BY LoggingInvariance, <1>1, PTL

\* What a crash loses of a file are lines its loggers have counted, fewer than
\* the threshold for each of them, and those of loggers that were unregistered.
THEOREM CrashLosesFew == Spec => []LossBounded
<1>1. ASSUME LoggingInv
      PROVE  LossBounded
  <2> SUFFICES ASSUME NEW f \in File, ~files[f].failed
               PROVE  /\ files[f].held <= Uncounted(f)
                      /\ \A w \in Writers(loggers, f) :
                           \/ loggers[w[1]].unflushed[w[2]] = 0
                           \/ loggers[w[1]].unflushed[w[2]]
                                < Use(loggers[w[1]], w[2]).threshold
    BY DEF LossBounded
  <2>1. files[f].held <= Uncounted(f)
    BY <1>1 DEF LoggingInv, FilesSafe, Safe
  <2>2. \A w \in Writers(loggers, f) : w[1] \in DOMAIN loggers /\ w[2] \in Level
    BY WriterIs
  <2> QED
    BY <1>1, <2>1, <2>2 DEF LoggingInv, BelowThreshold
<1> QED
  BY LoggingInvariance, <1>1, PTL

\* A file whose writers all limit its size is over the limit by no more than the
\* lines written since the last flush: strays, and what the loggers counted.
THEOREM FilesStayBounded == Spec => []FileBounded
<1>1. LoggingInv => FileBounded
  BY DEF LoggingInv, FilesSafe, Safe, FileBounded
<1> QED
  BY LoggingInvariance, <1>1, PTL

\* Only a logger with a limit that the file had reached, with the lines of the
\* step, or that found its stream broken, empties the file; whatever the order of loggers and levels.
THEOREM FilesRollWhenFull == Spec => RollsOnlyWhenFull
<1>1. LoggingInv /\ [Next]_vars =>
        [\A f \in File :
           files'[f].disk < files[f].disk =>
             \E ls \in {loggers, loggers'} : \E id \in DOMAIN ls, l \in AllLevels :
               /\ Use(ls[id], l).file = f
               /\ Use(ls[id], l).limit # 0
               /\ \/ files[f].failed \/ diskFull
                  \/ files[f].disk + files[f].held + LinesOfStep
                       >= Use(ls[id], l).limit]_vars
  BY StepKeeps DEF RollsRight
<1> QED
  BY LoggingInvariance, <1>1, PTL DEF Spec, RollsOnlyWhenFull

=============================================================================
