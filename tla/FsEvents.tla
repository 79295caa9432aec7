------------------------------ MODULE FsEvents ------------------------------
(***************************************************************************)
(* The file events of uv_client.cpp and the timer that drives them.  A     *)
(* file event is held back in fs_event_map_ until the file was quiet for   *)
(* fs_event_trigger_gap_; the check handle looks at the map once in every  *)
(* iteration of the loop, and the loop iterates when something wakes it:   *)
(* an event, a network callback, or the ping timer (sync_client.cpp).      *)
(*                                                                         *)
(* SyncClient leaves open which events are due.  This module says which,   *)
(* with the clock the code uses: uv_now(), the time libuv noted when the   *)
(* poll of the current iteration returned.  Callbacks that take long make  *)
(* it stale.                                                               *)
(*                                                                         *)
(* Times are relative (ages, time left), so that the state space is finite *)
(* without a bound on the length of a behaviour.                           *)
(***************************************************************************)
EXTENDS Integers

CONSTANTS
  Dir,        \* paths that may be given to start_fs_monitoring()
  File,       \* names that change below them
  Gap,        \* fs_event_trigger_gap_ (500 ms)
  Interval,   \* SyncClient::DEFAULT_TIMER_INTERVAL (1000 ms)
  Work,       \* the longest the callbacks of one iteration take
  MaxSleep,   \* bound: longest poll that no timer limits
  Horizon     \* bound: ages beyond it are not told apart

ASSUME GapAssumption == Gap \in Nat /\ Interval \in Nat \ {0} /\ Work \in Nat
ASSUME SleepAssumption == MaxSleep \in Nat /\ MaxSleep > Interval + Work
ASSUME HorizonAssumption == Horizon \in Nat /\ Horizon > Gap + Interval + Work

Key == Dir \X File
Off == -1

VARIABLES
  monitored,   \* fs_monitoring_map_
  pending,     \* fs_event_map_
  age,         \* uv_now() - last_timeout of a pending entry
  ping,        \* time until ping_timer_ fires, counted from uv_now(), or Off
  interval,    \* timer_interval_
  pingFailed,  \* is_ping_failed_
  bufFull,     \* is_write_buf_full_
  conn,        \* first attempt, connected, lost, given up
  lag,         \* time since uv_now() was updated
  phase,       \* of the loop: about to poll, in its callbacks, over
  quiet,       \* time since the last event of the file (history)
  unseen       \* files changed since they were last handed over (history)

pingVars == <<ping, interval, pingFailed, bufFull>>
eventVars == <<pending, age, quiet, unseen>>
vars == <<monitored, pending, age, ping, interval, pingFailed, bufFull, conn,
          lag, phase, quiet, unseen>>

Ages == 0 .. Horizon
Saturated(n) == IF n > Horizon THEN Horizon ELSE n

TypeOK ==
  /\ monitored \subseteq Dir
  /\ pending \subseteq monitored \X File
  /\ age \in [Key -> Ages]
  /\ interval = Interval
  /\ ping \in Off .. interval
  /\ pingFailed \in BOOLEAN
  /\ bufFull \in BOOLEAN
  /\ conn \in {"first", "up", "lost", "over"}
  /\ lag \in 0 .. Work
  /\ phase \in {"poll", "callbacks", "returned", "destroyed", "undefined"}
  /\ quiet \in [Key -> Ages]
  /\ unseen \subseteq Key

Init ==
  /\ monitored = {}
  /\ pending = {}
  /\ age = [k \in Key |-> 0]
  /\ ping = Off
  /\ interval = Interval
  /\ pingFailed = FALSE
  /\ bufFull = FALSE
  /\ conn = "first"
  /\ lag = 0
  /\ phase = "poll"
  /\ quiet = [k \in Key |-> Horizon]
  /\ unseen = {}

-----------------------------------------------------------------------------
(***************************************************************************)
(* The ping timer.                                                         *)
(***************************************************************************)

\* What ping() may return.  Its loop runs zero times, so it writes nothing
\* and reports success.  Mutant: the loop runs once, and writing the hello
\* may fail (-1) or find the write buffer full (0).
PingWritingHello == {-1, 0, 1}
Ping == {1}

\* do_on_timeout() with the result of ping(): trouble doubles the interval,
\* success after trouble resets it.
DoOnTimeout(ret) ==
  /\ interval' = IF ret < 1 THEN 2 * interval
                 ELSE IF pingFailed \/ bufFull THEN Interval ELSE interval
  /\ pingFailed' = (IF ret = 1 THEN FALSE ELSE pingFailed \/ ret < 0)
  /\ bufFull' = (IF ret = 1 THEN FALSE ELSE bufFull \/ ret = 0)

\* How long a timer started by start_ping_timer(timeout, repeat) waits after it
\* fired.  Mutant: it is a one-shot timer.
Once(repeat) == Off
Repeats(repeat) == repeat

\* uv__run_timers: what is left of the ping timer when uv_now() has advanced by
\* lag, after it fired if it was due.
PingDue == ping # Off /\ ping <= lag
PingLeft == IF ping = Off THEN Off
            ELSE IF ping <= lag THEN Repeats(interval') ELSE ping - lag

RunTimers ==
  IF PingDue
    THEN \E ret \in Ping : DoOnTimeout(ret)
    ELSE UNCHANGED <<interval, pingFailed, bufFull>>

(***************************************************************************)
(* One iteration of uv_run: the time is updated, due timers run, the poll  *)
(* sleeps for d at most until the next timer, and the time is updated      *)
(* again.                                                                  *)
(***************************************************************************)
Passed(times, ks, d) ==
  [k \in Key |-> IF k \in ks THEN Saturated(times[k] + d) ELSE times[k]]

Iterate(d) ==
  /\ phase = "poll"
  /\ RunTimers
  /\ IF PingLeft = Off THEN d <= MaxSleep ELSE d <= PingLeft
  /\ ping' = IF PingLeft = Off THEN Off ELSE PingLeft - d
  /\ lag' = 0
  /\ age' = Passed(age, pending, lag + d)
  /\ quiet' = Passed(quiet, Key, d)
  /\ phase' = "callbacks"
  /\ UNCHANGED <<monitored, pending, conn, unseen>>

\* A callback takes time that uv_now() does not see.
Busy(d) ==
  /\ phase = "callbacks"
  /\ lag + d <= Work
  /\ lag' = lag + d
  /\ quiet' = Passed(quiet, Key, d)
  /\ UNCHANGED <<monitored, pending, age, pingVars, conn, phase, unseen>>

(***************************************************************************)
(* Monitoring.                                                             *)
(***************************************************************************)

\* start_fs_monitoring(): refused for a path already monitored, or by libuv.
StartFsMonitoring(d, ok) ==
  /\ phase \in {"poll", "callbacks"}
  /\ monitored' = IF ok THEN monitored \union {d} ELSE monitored
  /\ UNCHANGED <<eventVars, pingVars, conn, lag, phase>>

\* last_timeout of an entry when its file changes at uv_now().  Mutant: only a
\* new entry is stamped.
FirstTouch(k) == IF k \in pending THEN age[k] ELSE 0
Touch(k) == 0

\* on_fs_event(): an entry is made, or the one that is there starts over.
OnFsEvent(d, f) ==
  LET k == <<d, f>>
  IN  /\ phase = "callbacks"
      /\ d \in monitored
      /\ pending' = pending \union {k}
      /\ age' = [age EXCEPT ![k] = Touch(k)]
      /\ quiet' = [quiet EXCEPT ![k] = 0]
      /\ unseen' = unseen \union {k}
      /\ UNCHANGED <<monitored, pingVars, conn, lag, phase>>

\* The entries fs_event_check_cb() takes.  Mutant: without waiting.
DueAtOnce == pending
Due == {k \in pending : age[k] > Gap}

\* p.second.erase(it++) for each.  Mutant: the map is cleared.
EraseAll(due) == pending' = {}
Erase(due) == pending' = pending \ due

\* fs_event_check_cb(): what is due goes to do_on_fs_event().
FsEventCheckCb ==
  /\ phase = "callbacks"
  /\ Erase(Due)
  /\ age' = [k \in Key |-> IF k \in pending' THEN age[k] ELSE 0]
  /\ unseen' = unseen \ Due
  /\ phase' = IF conn = "over" THEN "returned" ELSE "poll"
  /\ UNCHANGED <<monitored, pingVars, conn, lag, quiet>>

(***************************************************************************)
(* The connection, as far as it starts the ping timer and ends the loop.   *)
(***************************************************************************)

\* on_connect() and do_on_connect().  After an outage wakeup_ping_timer() makes
\* the timer fire at once, but do_on_connect() starts it anew, unless the last
\* ping had failed.
OnConnect ==
  /\ phase = "callbacks"
  /\ conn \in {"first", "lost"}
  /\ conn' = "up"
  /\ ping' = IF ~pingFailed THEN interval ELSE IF conn = "lost" THEN 0 ELSE ping
  /\ UNCHANGED <<monitored, eventVars, interval, pingFailed, bufFull, lag, phase>>

\* on_close(): the timer goes on.
OnClose ==
  /\ phase = "callbacks"
  /\ conn = "up"
  /\ conn' = "lost"
  /\ UNCHANGED <<monitored, eventVars, pingVars, lag, phase>>

\* close_loop() after the last attempt: this iteration is the last.
GiveUp ==
  /\ phase = "callbacks"
  /\ conn \in {"first", "lost"}
  /\ conn' = "over"
  /\ UNCHANGED <<monitored, eventVars, pingVars, lag, phase>>

(***************************************************************************)
(* The destructor.                                                         *)
(***************************************************************************)

\* stop_fs_monitoring() of every path.  Its loop over the pending entries of a
\* handle increments the iterator of the outer map: with an entry it deletes
\* that again and again, past the map's end.
StopFsMonitoring ==
  IF pending = {}
    THEN monitored' = {} /\ phase' = "destroyed"
    ELSE UNCHANGED monitored /\ phase' = "undefined"

\* ~UVClient(): a check handle is never stopped, but the loop is over.
Destroy ==
  /\ phase = "returned"
  /\ StopFsMonitoring
  /\ UNCHANGED <<eventVars, pingVars, conn, lag>>

Next ==
  \/ \E d \in 0 .. MaxSleep + Interval : Iterate(d)
  \/ \E d \in 1 .. Work : Busy(d)
  \/ \E d \in Dir, ok \in BOOLEAN : StartFsMonitoring(d, ok)
  \/ \E d \in Dir, f \in File : OnFsEvent(d, f)
  \/ FsEventCheckCb
  \/ OnConnect
  \/ OnClose
  \/ GiveUp
  \/ Destroy

(***************************************************************************)
(* Fairness.  The callbacks of an iteration end with the check handle.     *)
(* The loop keeps waking up, and time passes: while the client is not      *)
(* connected an attempt is decided or the reconnect timer fires, and from  *)
(* the first connection on the ping timer fires.                           *)
(***************************************************************************)
Fairness ==
  /\ WF_vars(FsEventCheckCb)
  /\ SF_vars(\E d \in 1 .. MaxSleep + Interval : Iterate(d))

Spec == Init /\ [][Next]_vars /\ Fairness

-----------------------------------------------------------------------------
(***************************************************************************)
(* Properties.                                                             *)
(***************************************************************************)

\* "if time2 - time1 < gap UVClient will not call" (uv_client.h): a file is
\* handed over only after Gap without an event, up to the error of uv_now().
NeverEarly ==
  [][\A k \in unseen \ unseen' : quiet[k] + Work > Gap]_vars

\* Once connected the ping timer bounds the wait: when an iteration begins, no
\* event is older than the gap, an interval and the work of an iteration.
\* The check handle of that iteration hands over what is older than the gap.
HeldBriefly ==
  [][phase = "poll" /\ phase' = "callbacks" /\ conn \in {"up", "lost"} =>
       \A k \in pending : age'[k] <= Gap + Interval + Work]_vars

\* No change is lost: a file that stops changing is handed over, unless the
\* client gives up first.
StopsChanging(k) == <>[][~OnFsEvent(k[1], k[2])]_vars
EventuallyHanded ==
  \A k \in Key : StopsChanging(k) => (k \in unseen ~> (k \notin unseen \/ conn = "over"))

=============================================================================
