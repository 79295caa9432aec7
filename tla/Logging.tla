------------------------------- MODULE Logging ------------------------------
(***************************************************************************)
(* The loggers of the client (easylogging++) and the files they write: what *)
(* becomes of a line that a LOG() statement produces.  It goes into the     *)
(* stream of its file; the stream is flushed when the logger has counted    *)
(* enough lines of that level, and only a flush looks at the size of the    *)
(* file and truncates it.                                                   *)
(*                                                                         *)
(* The program may be killed at any moment and started again; the files     *)
(* stay.  The disk may be full for a while.  A logger is given complete     *)
(* configurations; how the parts of one are merged is LoggerConfig's        *)
(* subject.  Sizes are counted in lines.                                    *)
(***************************************************************************)
EXTENDS LogConfig

CONSTANTS
  Logger,       \* ids of loggers, "default" and "performance" among them
  File,         \* names of log files
  Device,       \* those that keep nothing (/dev/null)
  BufferSize,   \* lines a stream holds before it writes them itself
  Configured,   \* names of complete configurations
  Uses(_, _),   \* what the typed maps of one say for a level
  UserFlag,     \* flags that may be set and cleared
  MaxLines      \* bound: lines on a disk

AllLevels == Level \cup {Global}

ASSUME LoggerAssumption ==
  /\ {"default", "performance"} \subseteq Logger
  /\ IsFiniteSet(Logger) /\ IsFiniteSet(Level)
ASSUME FileAssumption == Device \cup Unopenable \subseteq File
ASSUME BufferAssumption == BufferSize \in Nat /\ MaxLines \in Nat
ASSUME UsesAssumption ==
  /\ {"default", "program"} \subseteq Configured
  /\ \A c \in Configured, l \in AllLevels :
       Uses(c, l) \in [enabled : BOOLEAN, toFile : BOOLEAN, file : File,
                       limit : Nat, threshold : Nat]
ASSUME FlagAssumption ==
  UserFlag \subseteq {"ImmediateFlush", "StrictLogFileSizeCheck",
    "DisableApplicationAbortOnFatalLog"}

VARIABLES
  running,    \* whether the process runs
  loggers,    \* RegisteredLoggers: id |-> its configuration and unflushed counts
  defaults,   \* m_defaultConfigurations
  files,      \* the disk and m_logStreamsReference
  flags,      \* LoggingFlag
  diskFull,
  limits,     \* size limits of a file's writers since it was empty (history)
  stray       \* lines in a stream whose logger is gone (history)

vars == <<running, loggers, defaults, files, flags, diskFull, limits, stray>>

Flag == UserFlag \cup {"AllowVerboseIfModuleNotSpecified", "LogDetailedCrashReason",
         "ColoredTerminalOutput"}

Use(logger, level) == Uses(logger.uses, level)
WritesTo(logger, level, f) == Use(logger, level).toFile /\ Use(logger, level).file = f
Writers(ls, f) == {w \in (DOMAIN ls) \X Level : WritesTo(ls[w[1]], w[2], f)}
LimitsOf(ls, f) == {Use(ls[w[1]], w[2]).limit : w \in Writers(ls, f)}

\* Lines that the loggers of ls have counted for a file since their last flush.
Counted(ls, f) ==
  UNION {{w} \X (1 .. ls[w[1]].unflushed[w[2]]) : w \in Writers(ls, f)}

LogFile == [known : BOOLEAN, held : 0 .. BufferSize, failed : BOOLEAN, disk : Nat]

TypeOK ==
  /\ running \in BOOLEAN
  /\ DOMAIN loggers \subseteq Logger
  /\ loggers \in [DOMAIN loggers -> [uses : Configured, unflushed : [Level -> Nat]]]
  \* a logger never names a file that has no entry in the stream table
  /\ \A id \in DOMAIN loggers, l \in AllLevels : files[Use(loggers[id], l).file].known
  /\ defaults \in Configured \cup {"none"}
  /\ files \in [File -> LogFile]
  /\ \A f \in File :
       /\ f \in Device => files[f].disk = 0
       /\ ~files[f].known => files[f].held = 0
  /\ flags \subseteq Flag
  /\ diskFull \in BOOLEAN
  /\ limits \in [File -> SUBSET Nat]
  /\ stray \in [File -> Nat]
  /\ running <=> "default" \in DOMAIN loggers

-----------------------------------------------------------------------------
(* Log files.  A file has a stream from the first time a configuration     *)
(* names it; everybody who names it shares that stream, and it is never    *)
(* closed.                                                                 *)

NewFile(size) == [known |-> FALSE, held |-> 0, failed |-> FALSE, disk |-> size]
Closed(file) == NewFile(file.disk)
HasStream(fs, f) == fs[f].known /\ IsOpen(f)

\* What a stream holds goes to the disk, which may be full.
Flushed(file, f) ==
  IF file.failed \/ file.held = 0 THEN file
  ELSE CASE f \in Device -> [file EXCEPT !.held = 0]
         [] f \notin Device /\ diskFull -> [file EXCEPT !.failed = TRUE]
         [] f \notin Device /\ ~diskFull ->
              [file EXCEPT !.held = 0, !.disk = @ + file.held]

\* A stream whose buffer is full writes it, with the line that did not fit.
Written(file, f) ==
  IF file.failed THEN file
  ELSE IF file.held < BufferSize THEN [file EXCEPT !.held = @ + 1]
  ELSE CASE f \in Device -> [file EXCEPT !.held = 0]
         [] f \notin Device /\ diskFull -> [file EXCEPT !.failed = TRUE]
         [] f \notin Device /\ ~diskFull ->
              [file EXCEPT !.held = 0, !.disk = @ + file.held + 1]

\* tellg() of a stream that has failed is -1, the largest size_t.  Mutant: one
\* line more fits.
Exceeds(file, limit) == file.failed \/ file.disk + file.held > limit
AtLeast(file, limit) == file.failed \/ file.disk + file.held >= limit
Truncated(file) == [file EXCEPT !.disk = 0, !.held = 0, !.failed = FALSE]

\* A file that was compared with some limits, of which zero is none.  Mutant: a
\* comparison the wrong way round.
RolledBelow(file, ns) ==
  IF \E n \in ns \ {0} : ~AtLeast(file, n) THEN Truncated(file) ELSE file
Rolled(file, ns) ==
  IF \E n \in ns \ {0} : AtLeast(file, n) THEN Truncated(file) ELSE file

\* values: those of the level whose file is looked at.
ValidateFileRolling(fs, values) ==
  IF HasStream(fs, values.file)
  THEN [fs EXCEPT ![values.file] = Rolled(@, {values.limit})] ELSE fs

-----------------------------------------------------------------------------
(* Logger                                                                  *)

NoneUnflushed == [l \in Level |-> 0]
NewLogger(c) == [uses |-> c, unflushed |-> NoneUnflushed]

\* flush(level, fs) of a logger that writes to a file: only now the size is
\* looked at.
FlushesFile(values, fs) == values.toFile /\ HasStream(fs, values.file)
FlushFile(fs, values) ==
  IF FlushesFile(values, fs)
  THEN [fs EXCEPT ![values.file] = Rolled(Flushed(@, values.file), {values.limit})]
  ELSE fs

\* flush() of some loggers, every level of them.  Their order does not matter:
\* the first flush leaves nothing to the others, and a truncated file is below
\* every limit.
Some(ids) == [id \in ids \cap DOMAIN loggers |-> loggers[id]]
FlushFiles(ids) ==
  [f \in File |->
    IF Writers(Some(ids), f) # {} /\ HasStream(files, f)
    THEN Rolled(Flushed(files[f], f), LimitsOf(Some(ids), f)) ELSE files[f]]
Uncount(logger, fs) ==
  [logger EXCEPT !.unflushed =
    [l \in Level |-> IF FlushesFile(Use(logger, l), fs) THEN 0 ELSE @[l]]]

\* TypedConfigurations::build(): files are opened, and those over a limit
\* truncated.  Mutant: only the file of Global is looked at.
BuildAt(fs, c, levels) ==
  [f \in File |->
    LET ns == {Uses(c, l).limit : l \in {k \in levels : Uses(c, k).file = f}}
        opened == [fs[f] EXCEPT !.known = TRUE]
    IN  CASE ns = {} -> fs[f]
          [] ns # {} /\ IsOpen(f) -> Rolled(opened, ns)
          [] ns # {} /\ ~IsOpen(f) -> opened]
BuildGlobal(fs, c) == BuildAt(fs, c, {Global})
BuildFiles(fs, c) == BuildAt(fs, c, AllLevels)

\* What the line of a level does to the files, and to the count of the level:
\* checked for size if that is asked for, written, counted, flushed.
Checked(fs, values) ==
  IF "StrictLogFileSizeCheck" \in flags THEN ValidateFileRolling(fs, values) ELSE fs
Put(fs, values) ==
  IF FlushesFile(values, fs)
  THEN [fs EXCEPT ![values.file] = Written(@, values.file)] ELSE fs
Accepted(put, values) == FlushesFile(values, put) /\ ~put[values.file].failed
IsFlushNeeded(logger, level) ==
  \/ "ImmediateFlush" \in flags
  \/ logger.unflushed[level] + 1 >= Use(logger, level).threshold
DispatchedFiles(put, logger, level) ==
  IF Accepted(put, Use(logger, level)) /\ IsFlushNeeded(logger, level)
  THEN FlushFile(put, Use(logger, level)) ELSE put
\* Mutant: only lines that are flushed at once are counted.
CountForgotten(put, logger, level) ==
  IF Accepted(put, Use(logger, level)) /\ IsFlushNeeded(logger, level)
  THEN 0 ELSE logger.unflushed[level]
DispatchedCount(put, logger, level) ==
  IF Accepted(put, Use(logger, level))
  THEN IF IsFlushNeeded(logger, level) THEN 0 ELSE logger.unflushed[level] + 1
  ELSE logger.unflushed[level]
Line(fs, logger, level) == Put(Checked(fs, Use(logger, level)), Use(logger, level))

-----------------------------------------------------------------------------
(* What the histories remember                                             *)

\* The limits of the writers of the files, after a step.
Limits(ls, fs) ==
  [f \in File |->
    IF fs[f].disk + fs[f].held = 0 THEN LimitsOf(ls, f)
                                   ELSE limits[f] \cup LimitsOf(ls, f)]
\* Stray lines count until the stream is flushed and the file within its limit.
Stray(fs, lims) ==
  [f \in File |->
    IF /\ fs[f].held = 0
       /\ lims[f] \subseteq {0} \/ \E n \in lims[f] : fs[f].disk < n
    THEN 0 ELSE stray[f]]
Remember ==
  /\ limits' = Limits(loggers', files')
  /\ stray' = Stray(files', limits')

-----------------------------------------------------------------------------
(* The process                                                             *)

Init ==
  /\ running = FALSE
  /\ loggers = << >>
  /\ defaults = "none"
  /\ files \in [File -> {NewFile(size) : size \in 0 .. MaxLines}]
  /\ \A f \in Device \cup Unopenable : files[f].disk = 0
  /\ flags = {}
  /\ diskFull = FALSE
  /\ limits = [f \in File |-> {}]
  /\ stray = [f \in File |-> 0]

\* configure() of some loggers, which are made if they are not there: the lines
\* of their old configurations are flushed, and the new one is built.  Their
\* order in the registry does not matter.
Configure(ids, c) ==
  /\ loggers' = [id \in DOMAIN loggers \cup ids |->
                   IF id \in ids THEN NewLogger(c) ELSE loggers[id]]
  /\ files' = BuildFiles(FlushFiles(ids), c)
  /\ Remember

\* The constructor of Storage makes the two loggers.
Start ==
  /\ ~running /\ running' = TRUE
  /\ Configure({"default", "performance"}, "default")
  /\ defaults' = "default"
  /\ flags' = {"AllowVerboseIfModuleNotSpecified"}
  /\ UNCHANGED diskFull

\* The program ends, killed or by abort(), and what the streams hold is lost.
Down(fs) ==
  /\ running' = FALSE
  /\ loggers' = << >>
  /\ defaults' = "none"
  /\ files' = [f \in File |-> Closed(fs[f])]
  /\ flags' = {}
  /\ limits' = [f \in File |-> IF fs[f].disk = 0 THEN {} ELSE limits[f]]
  /\ stray' = [f \in File |-> 0]
  /\ UNCHANGED diskFull
Killed == running /\ Down(files)

\* The destructor of RegisteredLoggers flushes every stream.
AllFlushed == [f \in File |-> Flushed(files[f], f)]
Exit == running /\ Down(AllFlushed)

\* The environment.
DiskChange ==
  /\ diskFull' = ~diskFull
  /\ UNCHANGED <<running, loggers, defaults, files, flags, limits, stray>>

-----------------------------------------------------------------------------
(* Configuring                                                             *)

ConfigureAll(c) == Configure(DOMAIN loggers, c)

\* setupLogger(), which main() calls first and once.
SetupLogger ==
  /\ running /\ "LogDetailedCrashReason" \notin flags
  /\ ConfigureAll("program")
  /\ flags' = flags \cup {"LogDetailedCrashReason", "ColoredTerminalOutput"}
  /\ UNCHANGED <<running, defaults, diskFull>>

ReconfigureLogger(id, c) ==
  /\ id \in DOMAIN loggers
  /\ Configure({id}, c)
  /\ UNCHANGED <<running, defaults, flags, diskFull>>

SetDefaultConfigurations(c, reconfigureExistingLoggers) ==
  /\ running
  /\ defaults' = c
  /\ IF reconfigureExistingLoggers THEN ConfigureAll(c)
     ELSE UNCHANGED <<loggers, files, limits, stray>>
  /\ UNCHANGED <<running, flags, diskFull>>

\* Loggers::getLogger() of an id that is not registered.
GetLogger(id) ==
  /\ running /\ id \notin DOMAIN loggers
  /\ Configure({id}, defaults)
  /\ UNCHANGED <<running, defaults, flags, diskFull>>

\* Its lines stay in the stream, and no count remembers them.
UnregisterLogger(id) ==
  /\ id \in DOMAIN loggers \ {"default"}
  /\ loggers' = [i \in DOMAIN loggers \ {id} |-> loggers[i]]
  /\ limits' = Limits(loggers', files)
  /\ stray' = [f \in File |-> stray[f] + Cardinality(Counted(Some({id}), f))]
  /\ UNCHANGED <<running, defaults, files, flags, diskFull>>

AddFlag(flag) ==
  /\ running /\ flag \notin flags
  /\ flags' = flags \cup {flag}
  /\ UNCHANGED <<running, loggers, defaults, files, diskFull, limits, stray>>
RemoveFlag(flag) ==
  /\ running /\ flag \in flags
  /\ flags' = flags \ {flag}
  /\ UNCHANGED <<running, loggers, defaults, files, diskFull, limits, stray>>

-----------------------------------------------------------------------------
(* Logging                                                                 *)

RoomOnDisk == \A f \in File \ Device : files[f].disk + files[f].held < MaxLines

Enabled(id, level) == Use(loggers[id], level).enabled
\* A Fatal line is followed by a Warning of the default logger and abort().
Aborts(level) == level = "Fatal" /\ "DisableApplicationAbortOnFatalLog" \notin flags

Write(id, level, put) ==
  /\ loggers' = [loggers EXCEPT ![id].unflushed[level] =
                    DispatchedCount(put, loggers[id], level)]
  /\ files' = DispatchedFiles(put, loggers[id], level)
  /\ Remember
  /\ UNCHANGED <<running, defaults, flags, diskFull>>

Log(id, level) ==
  /\ id \in DOMAIN loggers /\ Enabled(id, level) /\ ~Aborts(level)
  /\ RoomOnDisk
  /\ Write(id, level, Line(files, loggers[id], level))

\* A statement for a logger that is not there is a Debug line of the default one.
LogUnregistered(id) ==
  /\ running /\ id \notin DOMAIN loggers /\ Enabled("default", "Debug")
  /\ RoomOnDisk
  /\ Write("default", "Debug", Line(files, loggers["default"], "Debug"))

LineFiles(fs, id, level) ==
  IF Enabled(id, level)
  THEN DispatchedFiles(Line(fs, loggers[id], level), loggers[id], level) ELSE fs
LogFatal(id) ==
  /\ id \in DOMAIN loggers /\ Enabled(id, "Fatal") /\ Aborts("Fatal")
  /\ RoomOnDisk
  /\ Down(LineFiles(LineFiles(files, id, "Fatal"), "default", "Warning"))

Flush(id) ==
  /\ id \in DOMAIN loggers
  /\ loggers' = [loggers EXCEPT ![id] = Uncount(@, files)]
  /\ files' = FlushFiles({id})
  /\ Remember
  /\ UNCHANGED <<running, defaults, flags, diskFull>>

\* The streams are flushed, the counts stay.
FlushAll ==
  /\ running
  /\ files' = AllFlushed
  /\ UNCHANGED loggers
  /\ Remember
  /\ UNCHANGED <<running, defaults, flags, diskFull>>

Process == Start \/ Killed \/ Exit \/ SetupLogger
Configuring ==
  \/ \E id \in Logger, c \in Configured : ReconfigureLogger(id, c)
  \/ \E c \in Configured, all \in BOOLEAN : SetDefaultConfigurations(c, all)
  \/ \E id \in Logger : UnregisterLogger(id)
  \/ \E flag \in UserFlag : AddFlag(flag)
Running ==
  \/ \E id \in Logger : GetLogger(id)
  \/ \E flag \in UserFlag : RemoveFlag(flag)
  \/ \E id \in Logger, level \in Level : Log(id, level)
  \/ \E id \in Logger : LogUnregistered(id) \/ LogFatal(id) \/ Flush(id)
  \/ FlushAll
  \/ DiskChange
Next == Process \/ Configuring \/ Running

Spec == Init /\ [][Next]_vars

-----------------------------------------------------------------------------
(* Properties                                                              *)

\* Lines written to a file since it was flushed, as far as anybody counts.
Uncounted(f) == stray[f] + Cardinality(Counted(loggers, f))

\* As long as everybody who writes to a file has limited its size, the file is
\* over the limit by no more than the lines written since the last flush.
FileBounded ==
  \A f \in File :
    (Writers(loggers, f) # {} /\ 0 \notin limits[f] /\ ~files[f].failed) =>
      \E n \in limits[f] : files[f].disk + files[f].held < n + Uncounted(f)

\* What a crash loses of a file are lines its writers have counted, fewer than
\* the threshold for each logger and level, and the lines of unregistered
\* loggers.
LossBounded ==
  \A f \in File :
    ~files[f].failed =>
      /\ files[f].held <= Uncounted(f)
      /\ \A w \in Writers(loggers, f) :
           LET n == loggers[w[1]].unflushed[w[2]]
           IN  n = 0 \/ n < Use(loggers[w[1]], w[2]).threshold

\* A file loses what is on the disk only when a logger that has a limit for it
\* saw it full, with the line the step writes, or saw its stream broken.  A Fatal
\* statement writes two lines before the program ends.
LinesOfStep == IF running' THEN 1 ELSE 2
RollsOnlyWhenFull ==
  [][\A f \in File :
       files'[f].disk < files[f].disk =>
         \E ls \in {loggers, loggers'} : \E id \in DOMAIN ls, l \in AllLevels :
           /\ Use(ls[id], l).file = f
           /\ Use(ls[id], l).limit # 0
           /\ \/ files[f].failed \/ diskFull
              \/ files[f].disk + files[f].held + LinesOfStep >= Use(ls[id], l).limit]_vars
=============================================================================
